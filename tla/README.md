# Verification of message_gateway_v4 and its SDK workflows

TLA+ models of the Solana program `message_gateway_v4` (Via Labs cross-chain messaging),
of the bytes it shares with its TypeScript SDK, and of the workflows and scripts that
drive it, model-checked with TLC and, liveness apart, proved with TLAPS. Paths below are
relative to the root of the repository; `I/` stands for
`programs/message_gateway_v4/src/instructions/`, `S/` for `.../state/`, `U/` for
`.../utils/`, `sdk/` for `packages/via-labs-sdk/`.

## 1. The system

A message leaves a chain with an event, is signed off-chain by validators, and is brought
to Solana by a relayer in two transactions. TX1 (`create_tx_pda`) creates an account, the
TxId PDA, at an address derived from the source chain and the tx_id, and raises the
counter of the source chain. TX2 (`process_message`) checks the validators' signatures
against three signer registries (Via, Chain and optionally Project), processes the message
and closes the PDA.

| Component | State | Operations |
|---|---|---|
| Gateways (`I/initialize.rs`, `I/admin.rs`, `I/send_message.rs`, `S/gateway.rs`) | one account per chain id: authority, system_enabled | initialize_gateway, set_system_enabled, send_message (an event) |
| Signer registries (`I/signer_registry.rs`, `S/signer_registry.rs`) | one account per (type, chain id): authority, signers, required_signatures, enabled | initialize_signer_registry, update_signers, add_signer, remove_signer, update_threshold, set_registry_enabled |
| Signature validation (`U/signature.rs`, `S/signer_registry.rs:100-170`) | none | the light check of TX1, the three-layer check of TX2 |
| Replay protection (`I/initialize_counter.rs`, `I/create_tx_pda.rs`, `S/counter.rs`, `S/tx_id.rs`) | highest_tx_id_seen per source chain; one TxId PDA per message in flight; its rent | initialize_counter, create_tx_pda (TX1) |
| Message processing (`I/process_message.rs`) | the PDA goes, its rent moves | process_message (TX2) |
| Message hash (`U/hash.rs`, `sdk/src/signatures.ts`) | none | encoding, size limits, Keccak-256, signing |
| Account addresses (`#[account]` constraints, `sdk/src/pdas.ts`) | none | the seeds of gateways, counters, registries and TxId PDAs, on both sides |
| SDK (`sdk/src/*.ts`) | none but its wallet and connection | one method per instruction, and two that attach Ed25519 instructions |
| Two-transaction flow (`sdk/examples/two-transaction-flow.ts`) | where its run is, what it waits for | TX1, await, TX2, await |
| Setup workflow (`tools/setup.ts`) | where its run is | gateway, counter and three registries of a chain, one after the other |
| Scripts run by hand (`tools/simple-test.ts`, `test-*.ts`, `debug-*.ts`) | the tx_id and the validators' keys they make up | SDK calls one after the other, against a live deployment |

**Interaction.** Every component meets in accounts. A transaction is atomic, and the
runtime serialises transactions that share a writable account, so concurrency is an
interleaving of whole instructions by authorities, users and relayers who know nothing of
each other. The registries and gateways TX2 reads are the ones of its own moment, not of
TX1's or of the time of signing. TX1 reads neither gateway nor registry. The SDK scripts
meet the program through a network that delays, drops and answers late. SDK and program
share no code: the hash that validators sign, the layout of an Ed25519 instruction and the
seeds of an address are each written down twice, in TypeScript and in Rust.

**What is hard.** An account that is deleted is no memory: after TX2 only the counter
remembers an id. TX2 takes the message from its caller again. Registries change between
signing, TX1 and TX2. A signature vector, a registry's vector and the three layers may
each name a key more than once. Scripts die between their transactions, and a transaction
of a dead script may land later. Several relayers carry one id, and several operators may
set up one chain. A transaction that is legal may still be too large for a packet. Byte
strings are concatenated without separators, for hashes and for addresses. `PROJECT.json` lists these hazards with their lines.

**What makes each component correct.**

* Gateways: an authority that never changes, created once (`TypeOK`, `CountersOnlyRise`
  for the accounts next to it).
* Registries: a valid configuration and an owner that can still change it, after any
  sequence of instructions, and no key twice unless the owner passed it in so
  (`RegistryThreshold`, `RegistryAdministrable`, `RepetitionIsPassedIn`).
* Validation: what is accepted holds valid entries of a quorum of different members in
  every layer (`QuorumBehindProcessing`, `DistinctKeysBehindDelivery`, `OverdemandBlocks`).
* Evidence: what the program finds in an Ed25519 instruction of the SDK's layout is a
  signature of this very message, and every signature is found (`VerifiedIsGenuine`,
  `GenuineVerifies`); for other layouts see section 6.
* Addresses: SDK and program name the same accounts, no two of which share an address
  (`AddressesMatch`).
* Replay protection: at most one message per id, once; no PDA beside a processed id; the
  counter never falls behind and never falls; what it passed over stays out (`AtMostOnce`,
  `PendingNotProcessed`, `CounterDominates`, `CountersOnlyRise`, `PassedOverStaysOut`,
  `RentBalances`).
* The whole: `ImplementsDelivery`.
* Flow: one winner, whose PDA nobody takes, no false success, progress while the script
  lives (`OneClaimant`, `ClaimKeepsPda`, `DoneMeansProcessed`, `ClaimLeadsToDelivery`), and
  the limit `AbandonedForEver`.
* Setup: completeness, one owner, no dead end (`ReturnedMeansReady`, `OneOwner`,
  `OwnerGetsThrough`).
* Scripts: true reports, no damage to a deployment, no PDA left open without a known cause
  (`SuccessIsReal`, `DeploymentOnlyGrows`, `PreparedStaysProcessable`, `StrandedHasCause`,
  `LargeRunsStrand`).

## 2. The modules

```
Gateways ── SignerRegistries ── RegistryAdministration   (the administrative side alone)
   │                 │
   └─ ReplayProtection ── ThreeLayerValidation
                     │
              MessageGateway  ── implements ──> AtMostOnceDelivery
              │      │      │      │
   TxPdaHistory  RelayerFlow  SetupFlow  NetworkScripts ── TransactionSize

WireFormat ── SignatureEvidence    (what a "valid" entry of ThreeLayerValidation means)
```

| Module | Models | Correspondence |
|---|---|---|
| `Gateways` | gateway accounts and their three instructions | `gateways[c]` is the account at seeds `["gateway", c]`; `NoAccount` an address without one; `sent` the events |
| `SignerRegistries` | the six registry instructions | `registries[<<type, c>>]`; the `u8` threshold is any number 0..255; vectors may repeat keys as the code lets them |
| `RegistryAdministration` | both, without messages | the system an administrator sees |
| `ThreeLayerValidation` | `validate_signatures_tx1`, `validate_three_layer_signatures` | a signature vector is a sequence of signers; `valid` are those whose entries `verify_ed25519_signature` accepts: any set |
| `ReplayProtection` | counters, TxId PDAs, rent, `initialize_counter`, TX1 | `Admissible` are TX1's guards, `CreateTxPda` the handler with its `init`, the counter and the rent |
| `MessageGateway` | TX2 and all twelve instructions together | `Processable` are TX2's guards, `ProcessMessage` the handler with `close = relayer`; `processed` counts successes per message |
| `AtMostOnceDelivery` | abstract: ids admitted in order, delivered at most once | refinement mapping in `MessageGateway`: pending = ids with a PDA, delivered = ids with a processed message |
| `TxPdaHistory` | `MessageGateway` and a history variable | what TX1 was given, which the program does not keep |
| `WireFormat` | `create_cross_chain_hash` and `createMessageHash`; the seeds of the program's constraints and `ViaLabsPDAs` | byte strings are sequences of 0..255; the widths 16, 8 and 4 are constants |
| `SignatureEvidence` | `createMessageSignature`, `createEd25519Instruction`, the order of instructions in the `...WithSignatures` methods, `parse_ed25519_instruction`, `verify_ed25519_signature`, transactions built without the SDK | section 6 |
| `TransactionSize` | the bytes of TX1 and TX2 as the SDK builds them | a formula in the bytes of the fields and the number of signatures; limit 1232 |
| `RelayerFlow` | the SDK's flow over `MessageGateway` | see section 4 |
| `SetupFlow` | `setupChain` over `MessageGateway` | see section 5 |
| `NetworkScripts` | five scripts over `MessageGateway` | see section 7 |
| `MC*` | bounds for TLC | constants and small sets only |
| `*Proofs` | TLAPS proofs | section 9 |

An instruction whose check fails aborts and changes nothing: a failed call is a stuttering
step of the program and has no action. In the workflows and scripts a failed call does have one,
because the script hears of it.

Definitions introduced by a comment "Faulty variant, for mutation" are not part of the
model: no action uses them. Each is a plausible slip in the code (a dropped guard, `>=`
for `>`, a PDA not closed); substituting it for the definition it precedes must break the
property that `PROJECT.json` pairs it with. That shows each property depends on the code.

### Abstractions

* In the modules of the program a message is its source, destination, tx_id and a payload;
  the payload stands for sender, recipient and both data fields, and `AcceptablePayloads`
  for those within the size limits. Whose entries can be found valid for which message is
  the constant `Evidence`, any set of pairs of a signer and a message: the modules of the
  program and their theorems assume nothing of it, in particular not that the signer made
  a signature. When that follows is the subject of `SignatureEvidence`.
* There, Keccak-256 is external and free of collisions, so the encoded bytes stand for the
  hash; an Ed25519 signature is a function of key and hash; Solana's Ed25519 program is
  external: it fails a transaction if what the header of one of its instructions points to
  is no signature of the key it points to. Headers are abstracted to the SDK's ("own") and
  any other ("other").
* Numbers of the SDK (`BN`) are naturals, so `validateChainId` and `validateTxId`, which
  refuse negative ones, always let them pass; what is too wide is refused by `SdkEncodes`.
* Bumps, log lines and event layout are left out. Of rent only that of TxId PDAs is
  modelled: the other accounts are never closed.
* An account's address determines its seeds, so PDA derivation is a function application.
  Where an instruction does *not* bind an account by seeds (the gateway of the
  administrative instructions, the Project registry of TX2) the model lets the caller
  choose any.
* Transaction size limits what the scripts send; elsewhere, and for compute units, there
  is no limit.

## 3. The program: runs and what they show

| Run | Question | Bounds, and why they are enough |
|---|---|---|
| `registries` | Is every reachable registry configuration valid and owned, and where do repeated keys come from? | two authorities, two gateways, a Via and a Chain registry, three keys, passed lists of at most two entries with and without a repeated key, from which add_signer makes vectors of MaxSigners = 3, thresholds 0..3: full, empty and boundary vectors, both authorities racing for each account |
| `replay` | In-order admission, at-most-once delivery, the rent, the refinement | two relayers, ids 0..2, two source chains and one destination; two messages that share an id and differ in payload and destination; an oversized payload, a message of chain 0: every replay needs at most three ids of one chain and two relayers |
| `quorum` | Is there a quorum of valid entries behind every processing, whatever the registries? | one route, registries that change freely between a vector that repeats a key and one of three, thresholds 0..3 with at most two signatures per message, so that a registry can ask for more than a message carries; vectors that are empty, short, repeated, foreign or over the limit; two messages of one id, one with evidence of everybody and one with evidence of one key |
| `removed_signer` | (violated) | as `registries`, with vectors that repeat a key |
| `stored_hash` | (violated) | as `replay` |

Lowered limits: MAX_SIGNERS_PER_REGISTRY (10) is 2 or 3, MAX_SIGNATURES_PER_MESSAGE (8) is
2 or 3, u128::MAX is 1 or 2; MIN_SIGNATURES_REQUIRED keeps its value 2. The vectors reach
and exceed each limit; the setup runs keep the values of the code. The proofs hold for
all values. No counter is capped: ids, accounts
and vectors are finite, `processed` is bounded because at-most-once holds, and `rent`
because every PDA is paid once and freed once.

Deadlock is checked in every run of the program alone: an authority can always switch
something.

`PassedOverStaysOut` states a limit that callers must know: an id that a higher one of its
chain overtook, or id 0, which `send_message` accepts, can never be received, and neither can
anything from a chain whose id 2^128 - 1 was admitted. TX1 passes no gateway, so ids are admitted
while the system is switched off, too. `S/counter.rs:4` ("Allows
out-of-order message processing") is true only of TX2: what has its PDA may be processed in
any order, but admission is in order.

The violated runs state what a comment or the README says and the code does not do;
`PROJECT.json`, "findings", quotes both sides:

* `remove_signer` leaves a key authorised that the vector holds twice
  (`initialize_signer_registry` and `update_signers` accept repeated keys, `add_signer` does
  not). For the same reason a registry may hold fewer different keys than its threshold,
  which is compared with the length of the vector (`I/signer_registry.rs:53`, `:239`), and
  then no quorum exists. `RepetitionIsPassedIn` says that this takes a caller who passes such a
  vector: the other instructions never add a repetition.
* TX1 stores no message hash (`README.md:71`): TX2 may process another message of the id,
  with its own quorum.

`README.md:265` reads an existing PDA as "Transaction already processed";
`PendingNotProcessed` shows the opposite: it means not processed yet.

## 4. RelayerFlow: the two-transaction flow

A job is one call of the script: relayer, message, signatures and whether Ed25519
instructions are attached (`createTxPdaWithSignatures`) or not (`createTxPda`). `stage` is
where its run is, `network` the transactions under way, `answer` what the script will hear
of the one it awaits. A transaction lands (`Land`, if the program accepts it in the state
of that moment), fails (`Fail`) or is dropped (`Drop`); an answer reaches the script only if
it still waits for that very transaction. A script may be killed or time out at either
await (`Interrupt`) while its transaction is under way or has landed unheard, and may be
started again by anybody.

* `OneClaimant`: TX1 elects. Of all scripts with one id at most one is past TX1.
* `ClaimKeepsPda`: the script that won has its PDA to itself. The TX2 of a dead run may still
  be under way when the id is taken up again, and yet it never closes the PDA that a living
  script is about to use.
* `DoneMeansProcessed`: reported success is real.
* `AbandonedForEver`: a limit the code has and a caller must know. If the run dies between
  TX1 and TX2, no later run of the flow picks the message up: TX1 refuses it because the
  PDA exists. Only a hand-made TX2 can finish it.
* `ClaimLeadsToDelivery` (liveness): from the moment a run is told that its TX1 succeeded to a
  processed message, unless the run is killed, TX2 is lost or the gateway is switched off.

**Fairness.** `Script(j)`: the JavaScript runtime resumes a promise once it is settled; no
fairness for starting a script or against killing it. `Network` as a whole: a transaction
does not stay under way for ever, since its blockhash expires; weak fairness of the
disjunction allows every single transaction to be dropped. Only finitely many transactions
are ever sent (`MaxRuns`), so the disjunction drains the network.

**Bounds** (`flow`): three scripts, two relayers for id 1 and one script with id 2, which can
overtake; `MaxRuns` = 3 starts all together, so that a script can die and be restarted
twice, or all three run at once; the gateway of the destination is switched at any time.
The registries are fixed, since `quorum` covers their changes. Nothing has to happen when
all runs are used up, so deadlock is not checked. `plain_flow` (violated) is the flow as
the example calls it: without Ed25519 instructions TX1 never succeeds.

## 5. SetupFlow: setting up chains

`at[<<operator, chain>>]` is the transaction that `setupChain` is at. `CreateNext`,
`SkipExisting` ("already in use") and `Throw` are the three outcomes of its `try`; `Interrupt`
kills it, or loses an answer, with the transaction under way landing or not; `Switch` is
`setSystemEnabled`, which an operator calls by other means. One invocation runs at a time per
operator and chain; a transaction of a killed run either lands with the kill or
never: landing later it would create the account its next run is about to skip or create,
which no property tells apart.

* `ReturnedMeansReady`: what returned is complete, although every existing account is
  skipped unseen.
* `OneOwner`: two operators who set up one chain never share it, because every account but
  the gateway needs the gateway's authority.
* `OwnerGetsThrough` (liveness): whatever earlier runs and other operators left behind or do
  meanwhile, a run of the gateway's owner returns, unless it is killed or the gateway is
  switched off: `initialize_counter` asks for an enabled gateway (`I/initialize_counter.rs:91`),
  and `setupChain` then throws for the owner, too. Chain 0 has a gateway but can have no
  counter.

**Fairness.** `SetupFairness`: a run that is neither killed nor loses an answer hears of its
transaction sooner or later, of success or of an error. Nobody has to start a run.

**Bounds** (`setup`): two operators, chain 0 and another, two kills: all interleavings of
four invocations with five accounts each and of the switches of both gateways. Runs may be
started again after they threw or were killed. `setup_signatures` (violated): the state setup leaves, one key in
all registries, accepts no signature vector, while `test-devnet-signatures.ts` relies on it.

## 6. SignatureEvidence: how a signature reaches the program

`signatures` are the `MessageSignature` objects that exist, `signedBy` who was made to sign
what, `verified` whose entry the program found valid for which message, in an instruction of
which layout. `Submit` is a transaction of any message with any vector of existing
signatures as the SDK builds it, with the Ed25519 instructions in front or without any, or
one built without the SDK (`ForeignTransaction`), whose vector and Ed25519 instructions may
hold anything of the form of a signature, under any header. The program looks for each entry
in the instructions before its own and compares the bytes at 16, 48 and 112 of their data.

* `VerifiedIsGenuine`: whoever counts as a signer of a message on an instruction with the
  SDK's header signed that message. It needs the length prefixes of the four fields: without
  them the mutant finds two messages with one hash.
* `GenuineVerifies`: no genuine signature is lost, since every signature of a message the
  program can hash is found in the transaction the SDK builds. Both hashes and both ideas
  of the layout must agree for it.
* `AddressesMatch`: the SDK finds the account of every signed message, and no two accounts
  have one string of seeds.

**What does not follow.** `parse_ed25519_instruction` (`U/signature.rs:53-88`) compares bytes 16
to 144 and does not read the header, bytes 0 to 15, that tells the Ed25519 program which
bytes to check. For an instruction with another header than the SDK's nothing relates the
bytes that Ed25519 checked to those that the program compares; `verified` then holds entries
whose signer signed nothing. So "valid" in `ThreeLayerValidation` means genuine only as long as
instructions have the SDK's layout, and no property or theorem here says more: the quorum
properties of section 3 count valid entries of different keys, for any `Evidence`. A check of
the header in the program would let `VerifiedIsGenuine` be stated without its layout.

**Bounds** (`evidence`): two keys; messages that differ only in where one field ends and the
next begins, one with a sender over the limit, and one whose id is too wide; vectors
of up to two signatures of any of them. Widths of 2, 1 and 1 bytes and limits of 2; the
proofs have no bounds. A foreign transaction gives each instruction either layout. A vector is submitted whole, so nothing has to be interleaved but
signing and submitting.

## 7. NetworkScripts: the scripts run by hand

`at[i]` is the call a run is at, `status` how it ended, `ids` the tx_id it took from the
clock. `Succeed` and `Fail` are the outcomes of a call, `Lose` one whose answer is lost: the
transaction landed or not, and the script sees an error. An error ends a script, except in
`simple-test.ts`, which goes on at its next `try` block. A script builds each transaction with
its accounts and signatures and web3.js refuses one that is larger than a packet.

`TransactionSize` gives, with F the bytes of the four fields and n signatures, 395 + F + 244 n
for TX1 and 494 + F + 244 n for TX2 (F is 57 to 77 in the scripts). With three signatures
TX1 fits into 1232 bytes and TX2 does not.

* `LargeRunsStrand`: `test-three-layer-validation.ts` and `test-devnet-signatures.ts` create a
  PDA that no script can ever close. `three_layer` (violated) is the promise of the first.
* `StrandedHasCause`: these, lost answers, failures at TX2 and `test-single-signature.ts`,
  which knows no TX2, are the only ways in which a PDA is left.
* `PreparedStaysProcessable`: once through TX1, a two-layer run never gets stuck while the
  gateway is on, whatever other scripts do to registries meanwhile.
* `SuccessIsReal`: a reported success is this run's own message.
* `DeploymentOnlyGrows`: simple-test administers a registry that the others use, with its
  errors caught; all it can do to an existing one is what the code refuses, or adding.

**Bounds** (`scripts`): one run of each of five scripts, all at once, on the deployment
`setup.ts` leaves or on a new one; two ticks of the clock, so that runs share an id or
overtake each other; registries with room for one key beside the wallet, so that the two
layer tests fill them; one lost answer; the gateway is switched at any time.
`keypairs/authority.json` is taken to be the key of `ANCHOR_WALLET`: setup registers the
wallet, and `test-devnet-signatures.ts:18` calls the file "the signer in all registries".
The sizes of fields and all limits but MAX_SIGNERS_PER_REGISTRY are the code's.
Scripts end, so deadlock is not checked, and no fairness is assumed: all properties are
safety. A call is refused when it is not possible, which `Refused` states with ENABLED. The
proofs never look into it: they hold even if any call could fail at any time.

## 8. Properties and their runs

| Run | Properties | Distinct states |
|---|---|---|
| `registries` | AdministrationTypeOK, RegistryThreshold, RegistryAdministrable, RepetitionIsPassedIn | 106,265 up to symmetry |
| `replay` | TypeOK, AtMostOnce, PendingNotProcessed, CounterDominates, RentBalances, CountersOnlyRise, PassedOverStaysOut, ImplementsDelivery | 25,273 up to symmetry |
| `quorum` | DistinctKeysBehindDelivery, QuorumBehindProcessing, OverdemandBlocks | 411,361 |
| `flow` | FlowTypeOK, OneClaimant, DoneMeansProcessed, ClaimKeepsPda, AbandonedForEver, ClaimLeadsToDelivery | 12,976 |
| `setup` | ReturnedMeansReady, OneOwner, OwnerGetsThrough | 89,808 |
| `evidence` | EvidenceTypeOK, VerifiedIsGenuine, GenuineVerifies, AddressesMatch | 2,628 up to symmetry |
| `scripts` | ScriptsTypeOK, PreparedStaysProcessable, SuccessIsReal, StrandedHasCause, LargeRunsStrand, DeploymentOnlyGrows | 423,003 |

## 9. What is proved

Every invariant and action property of a passing run, and the refinement, for every value
of the constants that meets the named assumptions; only the liveness properties,
`ClaimLeadsToDelivery` and `OwnerGetsThrough`, are left to TLC. The assumptions are that chain ids and ids are numbers, `NoAccount` is no account,
callers' lists are sequences of signers, there are finitely many keys and relayers, and
the workflows and scripts are called with values of their types that are among those
anybody may pass. `MinSignatures = 2` and `MaxSignatures = 8` are assumed for the scripts
only, whose lists have fixed lengths. About bytes all that is assumed is that widths are
positive and that the limits of the fields fit their length prefix.

* **Administration** (`RegistryAdministrationProofs`). The invariant is type, threshold and
  ownership together: ownership needs that gateways keep their authorities, the threshold
  that a vector never shrinks below it. `OnlyPassedListsRepeat`: adding or removing one key
  never raises the number of repetitions. `AdministrationImplemented` (in
  `MessageGatewayProofs`): the whole program implements `RegistryAdministration`, so these
  theorems hold among all instructions.
* **Validation** (`ThreeLayerValidationProofs`). `AcceptedMeansQuorum`: an accepted vector
  has, per layer, valid entries of as many *different* members as required, whatever set of
  entries is valid; it rests on the vector being injective. `ThresholdCappedByMessage`: a registry that requires more than
  MAX_SIGNATURES_PER_MESSAGE, as the code permits (10 > 8), accepts nothing.
  `AcceptedMeansSeveralKeys`: whatever the registries, MIN_SIGNATURES_REQUIRED different keys
  are behind an accepted vector; every entry is valid and none repeats.
* **The program** (`MessageGatewayProofs`). `AtMostOnce` alone is not inductive. `Inv` adds
  `PendingNotProcessed` (TX2 only finds an unprocessed id) and `CounterDominates` (TX1 cannot
  reopen one), and the types. From it: the other invariants, the action
  properties (`PassedOverForGood` among them: the counter dominates and never falls),
  `QuorumBehindProcessing`, `OverdemandBlocks` and `DistinctKeysBehindDelivery` by way of the three
  theorems on validation, and `DeliveryImplemented`, the refinement, with the further
  invariant that every pending id belongs to a message.
* **The rent** (`RentAlwaysBalances`, in `MessageGatewayProofs`). TX1 and TX2 move one rent of one
  relayer and one PDA in opposite directions. `SumChangesBy` is the law this needs: changing
  a function at one place changes its sum by the difference, in whichever order the sum
  takes the places; and that finitely many PDAs are open at any time is an invariant of its
  own.
* **The flow** (`RelayerFlowProofs`). Every step of the flow is a call of an instruction or
  none (`FlowStepsAreCalls`), so `Inv` carries over. `FlowInv` adds that a script which is
  past TX1, or about to hear so, is at or below the counter; TX1 lands above the counter,
  so no other script can be there (`TX1Elects`). `SuccessIsReal` and `AbandonedStays` follow.
  `ClaimsKeepTheirPda` needs more about the network (`SentAfterAdmission`): every TX2 under way
  is of an id that was admitted, and if a script is past TX1 with that id, it waits for this
  very transaction. It is the safety half of `ClaimLeadsToDelivery`: a TX2 that is awaited
  finds its PDA, so only the gateway and the signatures can still refuse it.
  `FlowDelivers`: the flow implements `AtMostOnceDelivery` as the program does, by the same
  lemma about steps (`StepsDeliver`).
* **Setup** (`SetupFlowProofs`). `SetupInv`: all accounts that a run has passed exist;
  registries belong to the authority of their gateway. Accounts are
  only ever added. `SetupImplementsProgram`: the workflow, killed wherever it may be,
  implements `MessageGateway`, so all that is proved of the program holds of it.
* **Scripts** (`NetworkScriptsProofs`), for any number of runs of each of the five scripts, ids
  and lost answers. Their calls are calls of instructions (`ScriptsCallTheProgram`), so
  `Inv` carries over, and so does the refinement (`ScriptsDeliver`). `ScriptsInv` adds why their
  properties hold: `Untampered`, every registry is what setup left but for signers added at
  the end of two of them (a threshold of 0 is refused, the removal of the wallet's key would
  leave the threshold unmet, and so on); `KeyRegistered`, a two-layer run that went on has its
  key in the chain registry; `Accounted`, what became of the message of a run that is past TX1;
  `IdsDiffer`, no two runs are past TX1 with one id, without which `Accounted` is not
  inductive, since the id is all that ties a run to its PDA; and `StrandedHasCause` itself.
* **Bytes** (`WireFormatProofs`). `EncodingInjective`: a message is recovered field by field
  from the left, since every number has a fixed width and every string its length in front.
  `DigitsDetermine`: the little endian bytes of a number that fits determine it.
  `AddressesAgree`: the seed strings of the four kinds differ in their first byte, and within
  a kind every part has a fixed width, so concatenation cannot confuse two accounts.
* **Evidence** (`SignatureEvidenceProofs`). `EvidenceInv` adds to `VerifiedIsGenuine` that
  every existing signature was given. An entry that is found in an instruction with the SDK's
  header shares key, signature and hash with one that Ed25519 has checked (`DataLayout`),
  hence its message (`EncodingInjective`). `GenuineAlwaysVerify` is the way back: the SDK and the program encode
  a message alike (`HashesAgree`), the instruction of every entry stands before the main one
  wherever the SDK puts it (`SignedLayout`), and the program reads from its data what the SDK
  wrote (`OwnDataMatches`). `HashesAgree` compares two definitions that share their helpers for
  numbers and prefixes: what it can tell apart is the order and the widths of the fields.

**Induction over data.** The induction theorems of the library take a predicate as a
parameter, which the provers here cannot instantiate. Where a proof needs induction it
argues by a smallest counterexample instead: `<` on the naturals is well founded, so the
concrete *set* of numbers at which a claim fails has a least element unless it is empty
(`Smallest`), and the step below it contradicts that. This is how the sums over finite sets
and the repeated shifts behind `LittleEndian` are reasoned about; for that reason `Shifted` is
a recursive function and the sums are folds, neither a RECURSIVE operator.

**Only model-checked.** `ClaimLeadsToDelivery` and `OwnerGetsThrough` (liveness under fairness), the violated
properties, and what `Refused` says of a call that cannot succeed (ENABLED).

## 10. Not modelled, and why

* Keccak, the Ed25519 program and the runtime's account rules: external, assumed. So are
  compute units: the README's numbers cannot be derived from the source.
* Which bytes a foreign header points to: only whether the header is the SDK's.
* Layout, formatting and logs of events; bumps.
* `debug-ed25519.ts`, which prints the bytes of one instruction, and `debug-transaction.ts`, which
  simulates one TX1 and prints the answer: neither changes anything; the printing of all scripts.
* Build files, deployment and configuration: no behaviour.
* `getRegistryEnum`, `logConfiguration`, the getters, environment handling and IDL loading of
  the SDK: no protocol state.
* Which gateway should decide whether a message may leave: the SDK's `sendMessage` passes
  the one of the destination (`sdk/src/sdk.ts:67`), and so does the model, but nothing in the
  repository says what was meant.
* The limit of 4096 bytes of off-chain data in `README.md:243` against 1024 in `constants.rs`:
  both are more than a transaction of 1232 bytes can carry with two signatures, as
  `TransactionSize` shows.

## 11. Plan

Built, in this order: `Gateways`, `SignerRegistries`, `RegistryAdministration`,
`ThreeLayerValidation`, `ReplayProtection`, `MessageGateway`, `AtMostOnceDelivery`,
`TxPdaHistory`, `RelayerFlow`, `SetupFlow`, `WireFormat`, `SignatureEvidence`,
`TransactionSize`, `NetworkScripts`, and the proofs.

Next:

1. Both sides of a route together: `send_message` as the source, validators that sign what
   was sent, relayers and TX1/TX2 as the destination: nothing is processed that was not sent.
2. The life of a route with changing registries under the flow: when a message in flight can
   still be processed.
3. Proofs: that `PassedOverStaysOut` and the overdemanded route carry over to the flow as
   statements about scripts; what `TransactionSize` says for any fields.
