---------------------------- MODULE NetworkScripts ----------------------------
(***************************************************************************)
(* The scripts that are run by hand against a deployed program: the tests  *)
(* of the repository's root and tools/simple-test.ts.  Each is a sequence  *)
(* of SDK calls, all with one wallet and for one chain, source and (but in *)
(* simple-test) destination at once; it takes its tx_id from the clock and *)
(* makes up new validators, whose public keys it adds to the registries.   *)
(* The first error ends a script, but simple-test catches the errors of    *)
(* each call and goes on.  The scripts run against a chain that setup.ts   *)
(* left ready, or a new one, at the same time and in any order, and the    *)
(* operator switches the gateway meanwhile.                                *)
(***************************************************************************)
EXTENDS MessageGateway, TransactionSize

CONSTANTS
  Scripts,         \* the runs of scripts
  KindOf(_),       \* which script a run is of
  FreshKey(_, _),  \* the keypair a run generates for a type of registry
  Chain,           \* AVALANCHE_CHAIN_ID, 43113
  Solana,          \* SOLANA_CHAIN_ID, where simple-test's messages go
  Operator,        \* the wallet, which signs transactions,
  Wallet,          \* and the same key as a validator
  MaxLosses        \* bounds the calls whose answer is lost

Kinds == {"two", "three", "devnet", "single", "simple"}

\* The bytes of the four fields in each script's message.
FieldsOf == [two |-> 60, three |-> 65, devnet |-> 77, single |-> 58, simple |-> 57]

DestOf(i) == IF KindOf(i) = "simple" THEN Solana ELSE Chain

MessageWith(i, id) == [source |-> Chain, dest |-> DestOf(i), txId |-> id, payload |-> KindOf(i)]

ASSUME ScriptsAssumption ==
  /\ \A i \in Scripts : KindOf(i) \in Kinds
  /\ Operator \in Authorities \cap Relayers
  /\ Chain \in ChainIds \ {0} /\ Solana \in ChainIds \ {0, Chain}
  /\ RegistryTypes \X {Chain} \subseteq RegistryKeys
  /\ Wallet \in Signers
  /\ MaxLosses \in Nat
  /\ MaxTxId > 0
  /\ MinSignatures = 2 /\ MaxSignatures = 8
  /\ \A i \in Scripts, type \in RegistryTypes : FreshKey(i, type) \in Signers \ {Wallet}
  /\ \A i, j \in Scripts, t, u \in RegistryTypes : FreshKey(i, t) = FreshKey(j, u) => i = j /\ t = u
  /\ \A i \in Scripts, id \in TxIds : MessageWith(i, id) \in Traffic

VARIABLES
  at,      \* the call each run is at
  status,  \* "running", or how it ended: "done", "failed"
  ids,     \* the tx_id a run has taken
  clock,   \* Date.now()
  losses   \* answers lost so far

scriptsVars == <<vars, at, status, ids, clock, losses>>

-----------------------------------------------------------------------------
\* A call: what it does, with which registry, and the try block it is in.
Call(op, type, block) == [op |-> op, type |-> type, block |-> block]

Flow == <<Call("takeId", "via", 1), Call("tx1", "via", 1), Call("tx2", "via", 1)>>

Devnet == Flow

\* Faulty variant, for mutation: the new validator is not registered.
TwoLayerUnregistered == Flow

TwoLayer == <<Call("addKey", "chain", 1)>> \o Flow

ThreeLayer == <<Call("addKey", "chain", 1), Call("addKey", "project", 1)>> \o Flow

Single == <<Call("takeId", "via", 1), Call("tx1", "via", 1)>>

SimpleTest ==
  << Call("takeId", "via", 1), Call("initializeGateway", "via", 1), Call("enable", "via", 2),
     Call("initializeCounter", "via", 3), Call("initializeRegistry", "via", 4),
     Call("addWallet", "via", 5), Call("updateThreshold", "via", 6),
     Call("updateSigners", "via", 7), Call("enableRegistry", "via", 8),
     Call("sendMessage", "via", 9), Call("plain1", "via", 10),
     Call("plain1", "via", 11), Call("plain2", "via", 11), Call("removeWallet", "via", 12) >>

CallsOf(i) ==
  CASE KindOf(i) = "two" -> TwoLayer
    [] KindOf(i) = "three" -> ThreeLayer
    [] KindOf(i) = "devnet" -> Devnet
    [] KindOf(i) = "single" -> Single
    [] KindOf(i) = "simple" -> SimpleTest

\* The signers of the signatures that a script makes.
ListOf(i) ==
  CASE KindOf(i) = "two" -> <<Wallet, FreshKey(i, "chain")>>
    [] KindOf(i) = "three" -> <<Wallet, FreshKey(i, "chain"), FreshKey(i, "project")>>
    [] KindOf(i) = "devnet" -> <<Wallet, Wallet, Wallet>>
    [] KindOf(i) = "single" -> <<Wallet>>
    [] KindOf(i) = "simple" -> <<>>

\* Base58 text of the wallet's key, and "Hello!".
RequestWith(id) == [txId |-> id, dest |-> Chain, recipientSize |-> 44, dataSize |-> 6]

\* What the scripts pass to the program is among what anybody may pass to it; a
\* script signs its message with the very keys it lists, so that their entries
\* are found valid.
ASSUME ScriptInputsAssumption ==
  /\ <<Wallet>> \in SignerLists /\ 0 \in Thresholds
  /\ \A i \in Scripts : ListOf(i) \in SignatureLists
  /\ \A i \in Scripts, id \in TxIds : ToSet(ListOf(i)) \X {MessageWith(i, id)} \subseteq Evidence
  /\ \A id \in TxIds : RequestWith(id) \in SendRequests

MessageOf(i) == MessageWith(i, ids[i])

RequestOf(i) == RequestWith(ids[i])

Running(i) == status[i] = "running"

Current(i) == CallsOf(i)[at[i]]

-----------------------------------------------------------------------------
Registry(type) == <<type, Chain>>

\* What setup.ts leaves behind.
Deployed ==
  /\ gateways = [c \in ChainIds |->
       IF c = Chain THEN [authority |-> Operator, enabled |-> TRUE] ELSE NoAccount]
  /\ registries = [k \in RegistryKeys |->
       IF k[2] = Chain
       THEN [authority |-> Operator, signers |-> <<Wallet>>, required |-> 1, enabled |-> TRUE]
       ELSE NoAccount]
  /\ counters = [c \in ChainIds |-> IF c = Chain THEN 0 ELSE NoAccount]
  /\ sent = {}
  /\ txPdas = [a \in Addresses |-> NoAccount]
  /\ rent = [r \in Relayers |-> 0]
  /\ processed = [m \in Traffic |-> 0]

ScriptsInit ==
  /\ Deployed \/ Init
  /\ at = [i \in Scripts |-> 1]
  /\ status = [i \in Scripts |-> "running"]
  /\ ids = [i \in Scripts |-> 0]
  /\ clock = 1
  /\ losses = 0

-----------------------------------------------------------------------------
\* The SDK passes the gateway of the registry's chain with every administrative
\* call, so it must exist and be the wallet's.
Administer(action) ==
  /\ Administers(Operator, Chain)
  /\ action
  /\ UNCHANGED <<gatewayVars, replayVars, processed>>

\* The calls of administration; simple-test passes a threshold of 0.
Administration(i, call) ==
  \/ /\ call.op = "initializeGateway"
     /\ InitializeGateway(Chain, Operator)
     /\ UNCHANGED <<registries, replayVars, processed>>
  \/ /\ call.op = "enable"
     /\ SetSystemEnabled(Chain, Operator, TRUE)
     /\ UNCHANGED <<registries, replayVars, processed>>
  \/ /\ call.op = "initializeCounter"
     /\ Administers(Operator, Chain) /\ IsEnabled(Chain)
     /\ InitializeCounter(Chain, Operator)
     /\ UNCHANGED <<gatewayVars, registries, processed>>
  \/ /\ call.op = "initializeRegistry"
     /\ Administer(InitializeSignerRegistry(Registry(call.type), Operator, <<Wallet>>, 0))
  \/ /\ call.op = "addKey"
     /\ Administer(AddSigner(Registry(call.type), Operator, FreshKey(i, call.type)))
  \/ /\ call.op = "addWallet"
     /\ Administer(AddSigner(Registry(call.type), Operator, Wallet))
  \/ /\ call.op = "updateThreshold"
     /\ Administer(UpdateThreshold(Registry(call.type), Operator, 0))
  \/ /\ call.op = "updateSigners"
     /\ Administer(UpdateSigners(Registry(call.type), Operator, <<Wallet>>, 0))
  \/ /\ call.op = "enableRegistry"
     /\ Administer(SetRegistryEnabled(Registry(call.type), Operator, TRUE))
  \/ /\ call.op = "removeWallet"
     /\ Administer(RemoveSigner(Registry(call.type), Operator, Wallet))

\* The SDK builds, signs and measures a transaction before it sends it; plain
\* calls are not measured, and simple-test's have an empty vector of signatures,
\* whatever the time is that they take for an id.
Messaging(i, call) ==
  \/ /\ call.op = "sendMessage"
     /\ SendMessage(Chain, RequestOf(i))
     /\ UNCHANGED <<registries, replayVars, processed>>
  \/ /\ call.op = "tx1"
     /\ Fits("tx1", FieldsOf[KindOf(i)], Len(ListOf(i)))
     /\ CreateTxPda(Operator, MessageOf(i), ListOf(i))
     /\ UNCHANGED <<gatewayVars, registries, processed>>
  \/ /\ call.op = "tx2"
     /\ Fits("tx2", FieldsOf[KindOf(i)], Len(ListOf(i)))
     /\ ProcessMessage(Operator, MessageOf(i), ListOf(i), {<<"project", DestOf(i)>>})
  \/ /\ call.op = "plain1"
     /\ CreateTxPda(Operator, MessageOf(i), ListOf(i))
     /\ UNCHANGED <<gatewayVars, registries, processed>>
  \/ /\ call.op = "plain2"
     /\ ProcessMessage(Operator, MessageOf(i), ListOf(i), {<<"project", DestOf(i)>>})

Perform(i, call) == Administration(i, call) \/ Messaging(i, call)

\* The program, or the SDK before it, refuses a call that is not possible now.
Refused(i, call) == ~ ENABLED Perform(i, call)

-----------------------------------------------------------------------------
MoveTo(i, position, end) ==
  /\ at' = [at EXCEPT ![i] = position]
  /\ status' = [status EXCEPT ![i] = end]
  /\ UNCHANGED clock

Proceed(i) ==
  IF at[i] = Len(CallsOf(i)) THEN MoveTo(i, at[i], "done") ELSE MoveTo(i, at[i] + 1, "running")

\* Faulty variant, for mutation: every script catches its errors and goes on.
CatchAll(i) == Proceed(i)

\* Where a catch goes on: at the next try block; a script of one block fails.
Catch(i) ==
  IF KindOf(i) # "simple" THEN MoveTo(i, at[i], "failed")
  ELSE \/ /\ Current(i).block = 12
          /\ MoveTo(i, at[i], "done")
       \/ \E next \in DOMAIN SimpleTest :
            /\ SimpleTest[next].block = Current(i).block + 1
            /\ \A j \in 1 .. next - 1 : SimpleTest[j].block <= Current(i).block
            /\ MoveTo(i, next, "running")

\* Faulty variant, for mutation: the time of the call, as far in the future as
\* simple-test adds.
TakeLaterId(i) ==
  /\ Running(i) /\ Current(i).op = "takeId"
  /\ ids' = [ids EXCEPT ![i] = clock + 1]
  /\ Proceed(i)
  /\ UNCHANGED <<vars, losses>>

\* The tx_id is the time, before anything is awaited for it.
TakeId(i) ==
  /\ Running(i) /\ Current(i).op = "takeId"
  /\ ids' = [ids EXCEPT ![i] = clock]
  /\ Proceed(i)
  /\ UNCHANGED <<vars, losses>>

Succeed(i) ==
  /\ Running(i)
  /\ Perform(i, Current(i))
  /\ Proceed(i)
  /\ UNCHANGED <<ids, losses>>

Fail(i) ==
  /\ Running(i) /\ Current(i).op # "takeId"
  /\ Refused(i, Current(i))
  /\ Catch(i)
  /\ UNCHANGED <<vars, ids, losses>>

\* The call is not confirmed in time, or the process killed: it may have landed.
Lose(i) ==
  /\ Running(i) /\ Current(i).op # "takeId"
  /\ losses < MaxLosses
  /\ losses' = losses + 1
  /\ Perform(i, Current(i)) \/ UNCHANGED vars
  /\ Catch(i)
  /\ UNCHANGED ids

Tick ==
  /\ clock < MaxTxId
  /\ clock' = clock + 1
  /\ UNCHANGED <<vars, at, status, ids, losses>>

Switch(enabled) ==
  /\ SetSystemEnabled(Chain, Operator, enabled)
  /\ UNCHANGED <<registries, replayVars, processed, at, status, ids, clock, losses>>

ScriptsNext ==
  \/ \E i \in Scripts : TakeId(i) \/ Succeed(i) \/ Fail(i) \/ Lose(i)
  \/ Tick
  \/ \E enabled \in BOOLEAN : Switch(enabled)

ScriptsSpec == ScriptsInit /\ [][ScriptsNext]_scriptsVars

-----------------------------------------------------------------------------
ScriptsTypeOK ==
  /\ TypeOK
  /\ at \in [Scripts -> 1 .. Len(SimpleTest)]
  /\ \A i \in Scripts : at[i] <= Len(CallsOf(i))
  /\ status \in [Scripts -> {"running", "done", "failed"}]
  /\ ids \in [Scripts -> 0 .. MaxTxId]
  /\ clock \in 1 .. MaxTxId
  /\ losses \in 0 .. MaxLosses

\* What setup left can only grow under the scripts: whatever they add, refuse or
\* catch in whatever order, no registry loses a signer, changes its threshold or
\* its owner or is switched off, so nobody has to repair a deployment after them
\* (simple-test.ts:45-90, 156, signer_registry.rs:237).
DeploymentOnlyGrows ==
  [][\A k \in RegistryKeys : RegistryExists(k) =>
       /\ IsPrefix(registries[k].signers, registries'[k].signers)
       /\ registries'[k] = [registries[k] EXCEPT !.signers = registries'[k].signers]]_scriptsVars

\* A two-layer run that waits for its TX2 can always be processed while the
\* gateway is on, whatever other scripts have done since and even if its TX1
\* was admitted while the gateway was off (create_tx_pda.rs:64).
PreparedStaysProcessable ==
  \A i \in Scripts :
    KindOf(i) = "two" /\ Running(i) /\ Current(i).op = "tx2" /\ IsEnabled(Chain) =>
      Processable(MessageOf(i), ListOf(i), {Registry("project")})

\* What a script reports is true at the end: its own message was processed, once;
\* after test-single-signature, which knows no TX2, its PDA is open for ever.
SuccessIsReal ==
  \A i \in Scripts : status[i] = "done" =>
    /\ KindOf(i) \in {"two", "three", "devnet"} => processed[MessageOf(i)] = 1
    /\ KindOf(i) = "single" => Pending(MessageOf(i)) /\ processed[MessageOf(i)] = 0

\* No script leaves a PDA behind silently: of every open one some run is before
\* its TX2, or failed there, or lost the answer to its TX1, or is one of
\* test-single-signature.
Holds(i) ==
  \/ Current(i).op = "tx2" /\ status[i] # "done"
  \/ Current(i).op = "tx1" /\ status[i] = "failed" /\ losses > 0
  \/ Current(i).op = "tx1" /\ status[i] = "done"

StrandedHasCause ==
  \A m \in Traffic : Pending(m) =>
    \E i \in Scripts : SameAddress(MessageOf(i), m) /\ Holds(i)

\* A message with three signatures is too large for TX2 alone: once such a run
\* is past TX1 its PDA, and the rent in it, is never released, by it or by any
\* other script (sdk.ts:235, test-two-layer-validation.ts:5).
LargeRunsStrand ==
  \A i \in Scripts :
    KindOf(i) \in {"three", "devnet"} /\ Current(i).op = "tx2" =>
      Pending(MessageOf(i)) /\ processed[MessageOf(i)] = 0

-----------------------------------------------------------------------------
\* "TX2 Success! Full three-layer validation complete!"
\* (test-three-layer-validation.ts:97): with the gateway on, no answer lost and
\* its TX1 confirmed, the script gets its TX2 through.
ThreeLayerScriptCompletes ==
  [][\A i \in Scripts :
       KindOf(i) = "three" /\ Current(i).op = "tx2" /\ IsEnabled(Chain) /\ losses' = losses =>
         status'[i] # "failed"]_scriptsVars
=============================================================================
