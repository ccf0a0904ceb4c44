---------------------------- MODULE MessageGateway ----------------------------
(***************************************************************************)
(* The whole program message_gateway_v4: its twelve instructions over all  *)
(* its accounts, called in any order by authorities, users and relayers.   *)
(* Transactions are atomic and Solana serialises those that share a        *)
(* writable account, so the interleaving is one of whole instructions.     *)
(***************************************************************************)
EXTENDS SignerRegistries, ReplayProtection

\* A public key has 32 bytes: there are only so many.
ASSUME SignaturesAssumption ==
  /\ IsFiniteSet(Signers) /\ IsFiniteSet(Relayers)
  /\ Evidence \subseteq Signers \X Traffic
  /\ SignatureLists \subseteq Seq(Signers)

VARIABLE processed  \* how often process_message succeeded for each message

vars == <<gateways, sent, registries, counters, txPdas, rent, processed>>

TypeOK ==
  /\ GatewaysTypeOK
  /\ RegistriesTypeOK
  /\ ReplayTypeOK
  /\ processed \in [Traffic -> Nat]

Init ==
  /\ GatewaysInit
  /\ RegistriesInit
  /\ ReplayInit
  /\ processed = [m \in Traffic |-> 0]

-----------------------------------------------------------------------------
\* The registries whose addresses TX2 derives from the message.
LayerKeys(m) == {<<"via", m.dest>>, <<"chain", m.source>>}

\* The project registry has no seeds: none, or any registry account.
ProjectChoices == {{}} \cup {{k} : k \in RegistryKeys}

\* What TX2 checks, in the state of the moment.
Processable(m, list, project) ==
  /\ IsEnabled(m.dest)
  /\ m.payload \in AcceptablePayloads
  /\ HoldsPda(m)
  /\ \A k \in LayerKeys(m) \cup project : k \in RegistryKeys /\ RegistryExists(k)
  /\ ValidateThreeLayerSignatures(list, FoundValid(m),
       {registries[k] : k \in LayerKeys(m) \cup project})

\* TX2.  The message is the caller's: nothing but its id ties it to TX1.
ProcessMessage(r, m, list, project) ==
  /\ Processable(m, list, project)
  /\ CloseTxPda(r, m)
  /\ processed' = [processed EXCEPT ![m] = @ + 1]
  /\ UNCHANGED <<gatewayVars, registries>>

Next ==
  \/ GatewaysNext /\ UNCHANGED <<registries, replayVars, processed>>
  \/ RegistriesNext /\ UNCHANGED <<gatewayVars, replayVars, processed>>
  \/ ReplayNext /\ UNCHANGED <<gatewayVars, registries, processed>>
  \/ \E r \in Relayers, m \in Traffic, list \in SignatureLists, project \in ProjectChoices :
       ProcessMessage(r, m, list, project)

Spec == Init /\ [][Next]_vars

-----------------------------------------------------------------------------
Pending(m) == txPdas[AddressOf(m)] # NoAccount

SameAddress(m1, m2) == AddressOf(m1) = AddressOf(m2)

processedIds == {AddressOf(m) : m \in {x \in Traffic : processed[x] > 0}}

\* Of all messages that carry one (source chain, tx_id), whatever else they
\* say and however often both transactions are repeated, at most one is ever
\* processed, and once.
AtMostOnce ==
  /\ \A m \in Traffic : processed[m] <= 1
  /\ \A m1, m2 \in Traffic :
       SameAddress(m1, m2) /\ m1 # m2 => processed[m1] = 0 \/ processed[m2] = 0

\* While the PDA of an id exists nothing with that id has been processed: the
\* PDA "proves this tx_id hasn't been processed" (create_tx_pda.rs:41).
PendingNotProcessed ==
  \A m \in Traffic : Pending(m) => processed[m] = 0

\* The counter of a source chain is never behind an id that was admitted, in
\* flight or processed; it is what still refuses the id once TX2 closed its PDA.
CounterDominates ==
  \A m \in Traffic : Pending(m) \/ processed[m] > 0 =>
    counters[m.source] # NoAccount /\ m.txId <= counters[m.source]

\* Every message that gets processed is backed, at that moment, by an enabled
\* gateway and by as many different members of the enabled Via registry of its
\* destination and of the Chain registry of its source as each requires, each
\* with an entry that was found valid for this very message: not for another
\* one with its id, and not twice for one key or one place in a registry.
Endorsed(m, k) ==
  /\ registries[k] # NoAccount
  /\ registries[k].enabled
  /\ Cardinality(ToSet(registries[k].signers) \cap FoundValid(m)) >= registries[k].required

QuorumBehindProcessing ==
  [][\A m \in Traffic : processed'[m] # processed[m] =>
       IsEnabled(m.dest) /\ \A k \in LayerKeys(m) : Endorsed(m, k)]_vars

\* Counters never fall and are never created twice.
CountersOnlyRise ==
  [][\A c \in ChainIds : counters[c] # NoAccount =>
       counters'[c] # NoAccount /\ counters'[c] >= counters[c]]_vars

\* An id that was passed over, because a higher one of its chain was admitted
\* first or because it is 0, is shut out for ever: no order of further calls, no
\* second initialisation of the counter brings it in (create_tx_pda.rs:51,
\* initialize_counter.rs:39, 67).
Untouched(m) == ~Pending(m) /\ AddressOf(m) \notin processedIds

PassedOverStaysOut ==
  [][\A m \in Traffic :
       Untouched(m) /\ counters[m.source] # NoAccount /\ m.txId <= counters[m.source] =>
         Untouched(m)']_vars

\* While a registry of its route requires more signatures than a message can
\* carry, nothing gets through, whoever signs (constants.rs:14, 18).
OverdemandBlocks ==
  [][\A m \in Traffic : processed'[m] # processed[m] =>
       \A k \in LayerKeys(m) : registries[k].required <= MaxSignatures]_vars

\* The entries of one key never deliver a message, even when it is in every
\* registry and every threshold is one: those of MIN_SIGNATURES_REQUIRED different
\* keys were found valid for it (constants.rs:15, signature.rs:105, 127).
DistinctKeysBehindDelivery ==
  \A m \in Traffic : processed[m] > 0 => Cardinality(FoundValid(m)) >= MinSignatures

\* Relayers together are out of pocket by exactly the rent of the PDAs that
\* are open.
RentBalances ==
  SumFunction(rent) + Cardinality({a \in Addresses : txPdas[a] # NoAccount}) = 0

\* The program implements in-order admission and at-most-once delivery: an id is
\* pending while its PDA exists, delivered once a message with it was processed.
pendingIds == {a \in Addresses : txPdas[a] # NoAccount}

Delivery == INSTANCE AtMostOnceDelivery
  WITH Ids <- Addresses, pending <- pendingIds, delivered <- processedIds

ImplementsDelivery == Delivery!Spec

=============================================================================
