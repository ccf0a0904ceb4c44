------------------------- MODULE MessageGatewayProofs -------------------------
(***************************************************************************)
(* Theorems about the whole program: replay protection and quorums, for    *)
(* any messages, ids, chains, registries, relayers and authorities.        *)
(*                                                                         *)
(* Replay protection is not inductive by itself.  That a message is        *)
(* processed at most once follows from "nothing with the id of an open PDA *)
(* was processed", which TX1 re-establishes only because the counter       *)
(* dominates every id admitted before; and types are only preserved        *)
(* together with the registry invariants.  Inv is their conjunction.       *)
(***************************************************************************)
EXTENDS MessageGateway, RegistryAdministrationProofs, ThreeLayerValidationProofs

RegistryInv == RegistryThreshold /\ RegistryAdministrable

ReplayInv == AtMostOnce /\ PendingNotProcessed /\ CounterDominates

Inv == TypeOK /\ RegistryInv /\ ReplayInv

-----------------------------------------------------------------------------
(* Frames *)

\* Replay protection reads the counters, the PDAs and the processed messages.
LEMMA ReplayInvFrame ==
  ASSUME ReplayInv, UNCHANGED <<counters, txPdas, processed>>
  PROVE  ReplayInv'
BY DEF ReplayInv, AtMostOnce, PendingNotProcessed, CounterDominates, Pending

\* The registry invariants read the registries and the gateways.
LEMMA RegistryInvFrame ==
  ASSUME RegistryInv, UNCHANGED <<gateways, registries>>
  PROVE  RegistryInv'
BY DEF RegistryInv, RegistryThreshold, RegistryAdministrable, RegistryExists,
       IsGatewayAuthority, Administers

\* A message has a source chain that is a chain and an id in range.
LEMMA TrafficTyped ==
  ASSUME NEW m \in Traffic
  PROVE  /\ m.source \in ChainIds
         /\ m.txId \in TxIds
         /\ m.txId \in Nat
         /\ AddressOf(m) \in Addresses
         /\ AddressOf(m) = <<m.source, m.txId>>
BY MessagesAssumption DEF Messages, AddressOf, Addresses, TxIds

-----------------------------------------------------------------------------
(* The inductive invariant *)

\* The invariant holds before any account exists.
LEMMA Initially == Init => Inv
<1> SUFFICES ASSUME Init PROVE Inv
  OBVIOUS
<1> USE DEF Init, GatewaysInit, RegistriesInit, ReplayInit
<1>1. TypeOK
  BY MessagesAssumption
     DEF TypeOK, GatewaysTypeOK, RegistriesTypeOK, ReplayTypeOK, TxIds
<1>2. RegistryInv
  BY DEF RegistryInv, RegistryThreshold, RegistryAdministrable, RegistryExists
<1>3. \A m \in Traffic : processed[m] = 0 /\ ~Pending(m)
  BY TrafficTyped DEF Pending
<1>4. ReplayInv
  BY <1>3 DEF ReplayInv, AtMostOnce, PendingNotProcessed, CounterDominates
<1> QED
  BY <1>1, <1>2, <1>4 DEF Inv

\* A new counter belongs to a chain nothing was admitted from.
LEMMA CounterStep ==
  ASSUME Inv, NEW source \in ChainIds, NEW a \in Authorities, InitializeCounter(source, a),
         UNCHANGED <<gatewayVars, registries, processed>>
  PROVE  Inv'
<1>1. /\ counters[source] = NoAccount
      /\ counters' = [counters EXCEPT ![source] = 0]
      /\ UNCHANGED <<txPdas, rent>>
  BY DEF InitializeCounter, IsFree
<1>2. TypeOK'
  BY <1>1, MessagesAssumption
     DEF Inv, TypeOK, GatewaysTypeOK, RegistriesTypeOK, ReplayTypeOK, TxIds, gatewayVars
<1>3. RegistryInv'
  BY RegistryInvFrame DEF Inv, gatewayVars
<1>4. AtMostOnce' /\ PendingNotProcessed'
  BY <1>1 DEF Inv, ReplayInv, AtMostOnce, PendingNotProcessed, Pending
<1>5. CounterDominates'
  <2> SUFFICES ASSUME NEW m \in Traffic, Pending(m) \/ processed[m] > 0
               PROVE  counters'[m.source] # NoAccount /\ m.txId <= counters'[m.source]
    BY <1>1 DEF CounterDominates, Pending
  <2>1. counters[m.source] # NoAccount /\ m.txId <= counters[m.source]
    BY DEF Inv, ReplayInv, CounterDominates
  <2> QED
    BY <1>1, <2>1, TrafficTyped DEF Inv, TypeOK, ReplayTypeOK
<1> QED
  BY <1>2, <1>3, <1>4, <1>5 DEF Inv, ReplayInv

\* TX1: its id is above the counter, so nothing with this id was admitted before.
LEMMA CreateStep ==
  ASSUME Inv, NEW r \in Relayers, NEW m \in Traffic, NEW list \in SignatureLists,
         CreateTxPda(r, m, list),
         UNCHANGED <<gatewayVars, registries, processed>>
  PROVE  Inv'
<1>1. /\ counters[m.source] \in TxIds
      /\ m.txId > counters[m.source]
      /\ txPdas' = [txPdas EXCEPT ![AddressOf(m)] = m.txId]
      /\ counters' = [counters EXCEPT ![m.source] = m.txId]
      /\ rent' = [rent EXCEPT ![r] = @ - 1]
  BY TrafficTyped DEF CreateTxPda, Admissible, IsNewer, Inv, TypeOK, ReplayTypeOK
<1>2. /\ m.source \in ChainIds
      /\ m.txId \in TxIds
      /\ m.txId \in Nat
      /\ counters[m.source] \in Nat
      /\ counters[m.source] # NoAccount
      /\ m.txId # NoAccount
      /\ AddressOf(m) \in Addresses
  BY <1>1, TrafficTyped, MessagesAssumption DEF TxIds
<1>3. TypeOK'
  <2>1. AddressOf(m)[2] = m.txId
    BY DEF AddressOf
  <2>2. \A a \in Addresses : txPdas'[a] \in {a[2], NoAccount}
    BY <1>1, <1>2, <2>1 DEF Inv, TypeOK, ReplayTypeOK
  <2> QED
    BY <1>1, <1>2, <2>2
       DEF Inv, TypeOK, GatewaysTypeOK, RegistriesTypeOK, ReplayTypeOK, gatewayVars
<1>4. RegistryInv'
  BY RegistryInvFrame DEF Inv, gatewayVars
<1>5. ASSUME NEW other \in Traffic, SameAddress(other, m)
      PROVE  processed[other] = 0
  <2>1. other.source = m.source /\ other.txId = m.txId
    BY <1>5 DEF SameAddress, AddressOf
  <2>2. ~(processed[other] > 0)
    BY <1>1, <1>2, <2>1 DEF Inv, ReplayInv, CounterDominates
  <2>3. processed[other] \in Nat
    BY DEF Inv, TypeOK
  <2> QED
    BY <2>2, <2>3
<1>6. AtMostOnce'
  BY DEF Inv, ReplayInv, AtMostOnce
<1>7. ASSUME NEW other \in Traffic, ~SameAddress(other, m)
      PROVE  Pending(other)' <=> Pending(other)
  BY <1>1, <1>2, <1>7, TrafficTyped DEF Pending, SameAddress, Inv, TypeOK, ReplayTypeOK
<1>8. PendingNotProcessed'
  BY <1>5, <1>7 DEF Inv, ReplayInv, PendingNotProcessed
<1>9. CounterDominates'
  <2> SUFFICES ASSUME NEW other \in Traffic, Pending(other)' \/ processed[other] > 0
               PROVE  counters'[other.source] # NoAccount /\ other.txId <= counters'[other.source]
    BY DEF CounterDominates
  <2>1. CASE SameAddress(other, m)
    <3>1. other.source = m.source /\ other.txId = m.txId
      BY <2>1 DEF SameAddress, AddressOf
    <3> QED
      BY <1>1, <1>2, <3>1 DEF Inv, TypeOK, ReplayTypeOK
  <2>2. CASE ~SameAddress(other, m)
    <3>1. counters[other.source] # NoAccount /\ other.txId <= counters[other.source]
      BY <1>7, <2>2 DEF Inv, ReplayInv, CounterDominates
    <3>2. CASE other.source = m.source
      BY <1>1, <1>2, <3>1, <3>2, TrafficTyped DEF Inv, TypeOK, ReplayTypeOK
    <3>3. CASE other.source # m.source
      BY <1>1, <3>1, <3>3, TrafficTyped DEF Inv, TypeOK, ReplayTypeOK
    <3> QED
      BY <3>2, <3>3
  <2> QED
    BY <2>1, <2>2
<1> QED
  BY <1>3, <1>4, <1>6, <1>8, <1>9 DEF Inv, ReplayInv

\* TX2: nothing with the id of the PDA was processed, and the PDA goes.
LEMMA ProcessStep ==
  ASSUME Inv, NEW r \in Relayers, NEW m \in Traffic, NEW list \in SignatureLists,
         NEW project \in ProjectChoices, ProcessMessage(r, m, list, project)
  PROVE  Inv'
<1>1. /\ txPdas[AddressOf(m)] = m.txId
      /\ txPdas' = [txPdas EXCEPT ![AddressOf(m)] = NoAccount]
      /\ rent' = [rent EXCEPT ![r] = @ + 1]
      /\ processed' = [processed EXCEPT ![m] = @ + 1]
      /\ UNCHANGED <<gateways, sent, registries, counters>>
  BY DEF ProcessMessage, Processable, HoldsPda, CloseTxPda, gatewayVars
<1>2. m.txId # NoAccount /\ AddressOf(m) \in Addresses
  BY TrafficTyped, MessagesAssumption
<1>3. processed \in [Traffic -> Nat]
  BY DEF Inv, TypeOK
<1>4. TypeOK'
  BY <1>1, <1>2 DEF Inv, TypeOK, GatewaysTypeOK, RegistriesTypeOK, ReplayTypeOK
<1>5. RegistryInv'
  BY <1>1, RegistryInvFrame DEF Inv
<1>6. ASSUME NEW other \in Traffic, SameAddress(other, m)
      PROVE  processed[other] = 0 /\ ~Pending(other)'
  <2>1. Pending(other)
    BY <1>1, <1>2, <1>6 DEF Pending, SameAddress
  <2> QED
    BY <1>1, <1>2, <1>6, <2>1
       DEF Inv, ReplayInv, PendingNotProcessed, Pending, SameAddress, TypeOK, ReplayTypeOK
<1>7. ASSUME NEW other \in Traffic, ~SameAddress(other, m)
      PROVE  processed'[other] = processed[other] /\ (Pending(other)' <=> Pending(other))
  <2>1. other # m /\ AddressOf(other) # AddressOf(m)
    BY <1>7 DEF SameAddress
  <2>2. AddressOf(other) \in Addresses
    BY TrafficTyped
  <2> QED
    BY <1>1, <1>2, <1>3, <2>1, <2>2 DEF Pending, Inv, TypeOK, ReplayTypeOK
<1>8. processed'[m] = 1 /\ \A other \in Traffic \ {m} : processed'[other] = processed[other]
  BY <1>1, <1>3, <1>6 DEF SameAddress
<1>9. AtMostOnce'
  BY <1>6, <1>8 DEF Inv, ReplayInv, AtMostOnce, SameAddress
<1>10. PendingNotProcessed'
  BY <1>6, <1>7 DEF Inv, ReplayInv, PendingNotProcessed
<1>11. CounterDominates'
  <2> SUFFICES ASSUME NEW other \in Traffic, Pending(other)' \/ processed'[other] > 0
               PROVE  counters[other.source] # NoAccount /\ other.txId <= counters[other.source]
    BY <1>1 DEF CounterDominates
  <2>1. CASE SameAddress(other, m)
    <3>1. Pending(m) /\ other.source = m.source /\ other.txId = m.txId
      BY <1>1, <1>2, <2>1 DEF Pending, SameAddress, AddressOf
    <3> QED
      BY <3>1 DEF Inv, ReplayInv, CounterDominates
  <2>2. CASE ~SameAddress(other, m)
    BY <1>7, <2>2 DEF Inv, ReplayInv, CounterDominates
  <2> QED
    BY <2>1, <2>2
<1> QED
  BY <1>4, <1>5, <1>9, <1>10, <1>11 DEF Inv, ReplayInv

\* None of the twelve instructions breaks the invariant.
LEMMA Inductive ==
  ASSUME Inv, [Next]_vars
  PROVE  Inv'
<1>1. CASE GatewaysNext /\ UNCHANGED <<registries, replayVars, processed>>
  <2>1. GatewaysTypeOK' /\ \A a : IsGatewayAuthority(a) => IsGatewayAuthority(a)'
    BY <1>1, GatewaysTypePreserved, GatewaysKeepAuthorities DEF Inv, TypeOK
  <2>2. RegistryInv'
    BY <1>1, <2>1
       DEF Inv, RegistryInv, RegistryThreshold, RegistryAdministrable, RegistryExists
  <2>3. ReplayInv'
    BY <1>1, ReplayInvFrame DEF Inv, replayVars
  <2> QED
    BY <1>1, <2>1, <2>2, <2>3
       DEF Inv, TypeOK, RegistriesTypeOK, ReplayTypeOK, replayVars
<1>2. CASE RegistriesNext /\ UNCHANGED <<gatewayVars, replayVars, processed>>
  <2>1. RegistriesTypeOK' /\ RegistryInv'
    BY <1>2, RegistriesPreserved DEF Inv, TypeOK, RegistryInv, gatewayVars
  <2>2. ReplayInv'
    BY <1>2, ReplayInvFrame DEF Inv, replayVars
  <2> QED
    BY <1>2, <2>1, <2>2 DEF Inv, TypeOK, GatewaysTypeOK, ReplayTypeOK, gatewayVars, replayVars
<1>3. CASE ReplayNext /\ UNCHANGED <<gatewayVars, registries, processed>>
  BY <1>3, CounterStep, CreateStep DEF ReplayNext
<1>4. ASSUME NEW r \in Relayers, NEW m \in Traffic, NEW list \in SignatureLists,
             NEW project \in ProjectChoices, ProcessMessage(r, m, list, project)
      PROVE  Inv'
  BY <1>4, ProcessStep
<1>5. CASE UNCHANGED vars
  <2>1. RegistryInv' /\ ReplayInv'
    BY <1>5, RegistryInvFrame, ReplayInvFrame DEF Inv, vars
  <2> QED
    BY <1>5, <2>1
       DEF Inv, TypeOK, GatewaysTypeOK, RegistriesTypeOK, ReplayTypeOK, vars
<1> QED
  BY <1>1, <1>2, <1>3, <1>4, <1>5 DEF Next

\* The invariant holds in every reachable state.
THEOREM Invariance == Spec => []Inv
BY Initially, Inductive, PTL DEF Spec

-----------------------------------------------------------------------------
(* Invariants *)

\* Type correctness of the whole program.
THEOREM TypeCorrect == Spec => []TypeOK
BY Invariance, PTL DEF Inv

\* However TX1 and TX2 are repeated, interleaved and filled in, a (source chain,
\* tx_id) is processed at most once, with one of the messages that carry it.
THEOREM ProcessedAtMostOnce == Spec => []AtMostOnce
BY Invariance, PTL DEF Inv, ReplayInv

\* An open PDA proves that its id has not been processed.
THEOREM OpenPdaMeansUnprocessed == Spec => []PendingNotProcessed
BY Invariance, PTL DEF Inv, ReplayInv

\* No counter is ever behind an admitted id.
THEOREM CounterAlwaysDominates == Spec => []CounterDominates
BY Invariance, PTL DEF Inv, ReplayInv

-----------------------------------------------------------------------------
(* What a step may never do *)

\* Counters never fall, and init never runs twice on one.
THEOREM CountersNeverFall == Spec => CountersOnlyRise
<1> DEFINE Rises(c) == counters[c] # NoAccount =>
                         counters'[c] # NoAccount /\ counters'[c] >= counters[c]
           Rise     == \A c \in ChainIds : Rises(c)
<1>1. ASSUME Inv, [Next]_vars
      PROVE  [Rise]_vars
  <2>1. /\ counters \in [ChainIds -> TxIds \cup {NoAccount}]
        /\ \A c \in ChainIds : counters[c] # NoAccount => counters[c] \in Nat
        /\ NoAccount \notin TxIds
    BY <1>1, MessagesAssumption DEF Inv, TypeOK, ReplayTypeOK, TxIds
  <2>2. ASSUME NEW source \in ChainIds, NEW a \in Authorities, InitializeCounter(source, a),
               NEW c \in ChainIds
        PROVE  Rises(c)
    <3>1. counters[source] = NoAccount /\ counters' = [counters EXCEPT ![source] = 0]
      BY <2>2 DEF InitializeCounter, IsFree
    <3>2. CASE c = source
      BY <3>1, <3>2
    <3>3. CASE c # source
      BY <2>1, <3>1, <3>3
    <3> QED
      BY <3>2, <3>3
  <2>3. ASSUME NEW r \in Relayers, NEW m \in Traffic, NEW list \in SignatureLists,
               CreateTxPda(r, m, list), NEW c \in ChainIds
        PROVE  Rises(c)
    <3>1. /\ m.source \in ChainIds
          /\ m.txId \in TxIds
          /\ m.txId \in Nat
          /\ m.txId > counters[m.source]
          /\ counters' = [counters EXCEPT ![m.source] = m.txId]
      BY <2>3, TrafficTyped DEF CreateTxPda, Admissible, IsNewer
    <3>2. CASE c = m.source
      BY <2>1, <3>1, <3>2
    <3>3. CASE c # m.source
      BY <2>1, <3>1, <3>3
    <3> QED
      BY <3>2, <3>3
  <2>4. ASSUME UNCHANGED counters, NEW c \in ChainIds
        PROVE  Rises(c)
    BY <2>1, <2>4
  <2> HIDE DEF Rises
  <2> QED
    BY <1>1, <2>2, <2>3, <2>4
       DEF Next, ReplayNext, replayVars, ProcessMessage, Processable, HoldsPda, CloseTxPda, vars
<1> QED
  BY <1>1, Invariance, PTL DEF Spec, CountersOnlyRise

\* Whatever relayers submit and however registries change meanwhile, a message
\* is only processed with valid entries of a quorum of different members of the
\* Via registry of its destination and of the Chain registry of its source.
THEOREM ProcessedWithQuorum == Spec => QuorumBehindProcessing
<1> DEFINE Quorum == \A m \in Traffic : processed'[m] # processed[m] =>
                       IsEnabled(m.dest) /\ \A k \in LayerKeys(m) : Endorsed(m, k)
<1>1. ASSUME Inv, NEW r \in Relayers, NEW m \in Traffic, NEW list \in SignatureLists,
             NEW project \in ProjectChoices, ProcessMessage(r, m, list, project)
      PROVE  IsEnabled(m.dest) /\ \A k \in LayerKeys(m) : Endorsed(m, k)
  <2> DEFINE layers == {registries[k] : k \in LayerKeys(m) \cup project}
  <2>1. /\ IsEnabled(m.dest)
        /\ \A k \in LayerKeys(m) : k \in RegistryKeys /\ RegistryExists(k)
        /\ ValidateThreeLayerSignatures(list, FoundValid(m), layers)
    BY <1>1 DEF ProcessMessage, Processable
  <2>2. ASSUME NEW k \in LayerKeys(m)
        PROVE  Endorsed(m, k)
    <3>1. registries[k] \in RegistryAccount /\ registries[k] # NoAccount
      BY <1>1, <2>1, <2>2 DEF Inv, TypeOK, RegistriesTypeOK, RegistryExists
    <3>2. registries[k].signers \in Seq(Signers) /\ registries[k].required \in Nat
      BY <3>1 DEF RegistryAccount
    <3>3. registries[k] \in layers /\ list \in Seq(Signers)
      BY <2>2, SignaturesAssumption
    <3> HIDE DEF layers
    <3>4. /\ registries[k].enabled
          /\ Cardinality(ToSet(registries[k].signers) \cap FoundValid(m)) >= registries[k].required
      BY <2>1, <3>2, <3>3, AcceptedMeansQuorum
    <3> QED
      BY <3>1, <3>4 DEF Endorsed
  <2> QED
    BY <2>1, <2>2
<1>2. ASSUME Inv, [Next]_vars
      PROVE  [Quorum]_vars
  <2>1. CASE UNCHANGED processed
    BY <2>1
  <2>2. ASSUME NEW r \in Relayers, NEW m \in Traffic, NEW list \in SignatureLists,
               NEW project \in ProjectChoices, ProcessMessage(r, m, list, project)
        PROVE  Quorum
    <3>1. \A other \in Traffic : processed'[other] # processed[other] => other = m
      BY <1>2, <2>2 DEF ProcessMessage, Inv, TypeOK
    <3> QED
      BY <1>1, <1>2, <2>2, <3>1
  <2> QED
    BY <1>2, <2>1, <2>2 DEF Next, vars
<1> QED
  BY <1>2, Invariance, PTL DEF Spec, QuorumBehindProcessing

\* While a registry on its route requires more signatures than a message can
\* carry, no message gets through, whichever vectors are tried.
THEOREM OverdemandedRoutesBlock == Spec => OverdemandBlocks
<1> DEFINE Within == \A m \in Traffic : processed'[m] # processed[m] =>
                       \A k \in LayerKeys(m) : registries[k].required <= MaxSignatures
<1>1. ASSUME Inv, NEW r \in Relayers, NEW m \in Traffic, NEW list \in SignatureLists,
             NEW project \in ProjectChoices, ProcessMessage(r, m, list, project),
             NEW k \in LayerKeys(m)
      PROVE  registries[k].required <= MaxSignatures
  <2> DEFINE layers == {registries[x] : x \in LayerKeys(m) \cup project}
  <2>1. /\ k \in RegistryKeys /\ RegistryExists(k)
        /\ ValidateThreeLayerSignatures(list, FoundValid(m), layers)
    BY <1>1 DEF ProcessMessage, Processable
  <2>2. registries[k].required \in Nat
    BY <1>1, <2>1 DEF Inv, TypeOK, RegistriesTypeOK, RegistryExists, RegistryAccount
  <2>3. registries[k] \in layers /\ list \in Seq(Signers)
    BY SignaturesAssumption
  <2> HIDE DEF layers
  <2> QED
    BY <2>1, <2>2, <2>3, ThresholdCappedByMessage
<1>2. ASSUME Inv, [Next]_vars
      PROVE  [Within]_vars
  <2>1. CASE UNCHANGED processed
    BY <2>1
  <2>2. ASSUME NEW r \in Relayers, NEW m \in Traffic, NEW list \in SignatureLists,
               NEW project \in ProjectChoices, ProcessMessage(r, m, list, project)
        PROVE  Within
    <3>1. \A other \in Traffic : processed'[other] # processed[other] => other = m
      BY <1>2, <2>2 DEF ProcessMessage, Inv, TypeOK
    <3> QED
      BY <1>1, <1>2, <2>2, <3>1
  <2> QED
    BY <1>2, <2>1, <2>2 DEF Next, vars
<1> QED
  BY <1>2, Invariance, PTL DEF Spec, OverdemandBlocks

\* The entries of one key deliver no message, whatever the registries hold and
\* require: those of MIN_SIGNATURES_REQUIRED different keys were found valid for
\* what gets processed.
THEOREM SeveralKeysBehindDelivery == Spec => []DistinctKeysBehindDelivery
<1>1. Init => DistinctKeysBehindDelivery
  BY DEF Init, DistinctKeysBehindDelivery
<1>2. ASSUME Inv, DistinctKeysBehindDelivery, [Next]_vars
      PROVE  DistinctKeysBehindDelivery'
  <2>1. CASE UNCHANGED processed
    BY <1>2, <2>1 DEF DistinctKeysBehindDelivery, FoundValid
  <2>2. ASSUME NEW r \in Relayers, NEW m \in Traffic, NEW list \in SignatureLists,
               NEW project \in ProjectChoices, ProcessMessage(r, m, list, project)
        PROVE  DistinctKeysBehindDelivery'
    <3>1. \A other \in Traffic : processed'[other] # processed[other] => other = m
      BY <1>2, <2>2 DEF ProcessMessage, Inv, TypeOK
    <3>2. FoundValid(m) \subseteq Signers /\ IsFiniteSet(FoundValid(m))
      BY SignaturesAssumption, FS_Subset DEF FoundValid
    <3>3. list \in Seq(Signers)
      BY SignaturesAssumption
    <3>4. Cardinality(FoundValid(m)) >= MinSignatures
      BY <2>2, <3>2, <3>3, AcceptedMeansSeveralKeys DEF ProcessMessage, Processable
    <3>5. ASSUME NEW other \in Traffic, processed'[other] > 0
          PROVE  Cardinality(FoundValid(other)) >= MinSignatures
      BY <1>2, <3>1, <3>4, <3>5 DEF DistinctKeysBehindDelivery
    <3> QED
      BY <3>5 DEF DistinctKeysBehindDelivery, FoundValid
  <2> QED
    BY <1>2, <2>1, <2>2 DEF Next, vars
<1> QED
  BY <1>1, <1>2, Invariance, PTL DEF Spec

-----------------------------------------------------------------------------
(* Refinement *)

\* Every open PDA carries the id of a message that relayers may submit.
PendingIsTraffic == \A a \in pendingIds : \E m \in Traffic : AddressOf(m) = a

\* What TX1 does to the ids: it opens one.
LEMMA CreateOpens ==
  ASSUME Inv, NEW r \in Relayers, NEW m \in Traffic, NEW list \in SignatureLists,
         CreateTxPda(r, m, list)
  PROVE  pendingIds' = pendingIds \cup {AddressOf(m)}
<1>1. m.txId # NoAccount /\ AddressOf(m) \in Addresses
  BY TrafficTyped, MessagesAssumption
<1> QED
  BY <1>1 DEF CreateTxPda, Admissible, pendingIds, Inv, TypeOK, ReplayTypeOK

\* What TX2 does to the ids: it moves one.
LEMMA ProcessMoves ==
  ASSUME Inv, NEW r \in Relayers, NEW m \in Traffic, NEW list \in SignatureLists,
         NEW project \in ProjectChoices, ProcessMessage(r, m, list, project)
  PROVE  /\ AddressOf(m) \in pendingIds
         /\ pendingIds' = pendingIds \ {AddressOf(m)}
         /\ processedIds' = processedIds \cup {AddressOf(m)}
<1>1. m.txId # NoAccount /\ AddressOf(m) \in Addresses
  BY TrafficTyped, MessagesAssumption
<1>2. /\ txPdas[AddressOf(m)] = m.txId
      /\ txPdas' = [txPdas EXCEPT ![AddressOf(m)] = NoAccount]
      /\ processed' = [processed EXCEPT ![m] = @ + 1]
  BY DEF ProcessMessage, Processable, HoldsPda, CloseTxPda
<1>3. /\ txPdas \in [Addresses -> TxIds \cup {NoAccount}]
      /\ processed \in [Traffic -> Nat]
  BY DEF Inv, TypeOK, ReplayTypeOK
<1>4. /\ AddressOf(m) \in pendingIds
      /\ pendingIds' = pendingIds \ {AddressOf(m)}
  BY <1>1, <1>2, <1>3 DEF pendingIds
<1>5. \A other \in Traffic : processed'[other] > 0 <=> processed[other] > 0 \/ other = m
  BY <1>2, <1>3
<1> QED
  BY <1>4, <1>5 DEF processedIds

\* A PDA is only ever opened at the address of a message that TX1 was given.
LEMMA PendingIsTrafficInductive ==
  ASSUME Inv, PendingIsTraffic, [Next]_vars
  PROVE  PendingIsTraffic'
<1>1. ASSUME NEW r \in Relayers, NEW m \in Traffic, NEW list \in SignatureLists,
             CreateTxPda(r, m, list)
      PROVE  PendingIsTraffic'
  BY <1>1, CreateOpens DEF PendingIsTraffic
<1>2. ASSUME NEW r \in Relayers, NEW m \in Traffic, NEW list \in SignatureLists,
             NEW project \in ProjectChoices, ProcessMessage(r, m, list, project)
      PROVE  PendingIsTraffic'
  BY <1>2, ProcessMoves DEF PendingIsTraffic
<1>3. CASE UNCHANGED txPdas
  BY <1>3 DEF PendingIsTraffic, pendingIds
<1> QED
  BY <1>1, <1>2, <1>3 DEF Next, ReplayNext, replayVars, InitializeCounter, vars

\* An id that is in flight or processed is covered by the counter of its chain.
LEMMA CounterCoversIds ==
  ASSUME Inv, PendingIsTraffic, NEW a \in pendingIds \cup processedIds
  PROVE  /\ a[2] \in Nat
         /\ counters[a[1]] # NoAccount
         /\ a[2] <= counters[a[1]]
<1>1. PICK m \in Traffic : AddressOf(m) = a /\ (Pending(m) \/ processed[m] > 0)
  BY DEF PendingIsTraffic, pendingIds, processedIds, Pending
<1> QED
  BY <1>1, TrafficTyped DEF Inv, ReplayInv, CounterDominates, AddressOf

\* The program starts as AtMostOnceDelivery does, with all its ids accounted for.
LEMMA DeliveryStarts == Init => Inv /\ PendingIsTraffic /\ Delivery!Init
<1> SUFFICES ASSUME Init PROVE PendingIsTraffic /\ Delivery!Init
  BY Initially
<1>1. pendingIds = {}
  BY DEF Init, ReplayInit, pendingIds
<1>2. processedIds = {}
  BY DEF Init, processedIds
<1> QED
  BY <1>1, <1>2 DEF PendingIsTraffic, Delivery!Init

\* Every step of the program admits an id, delivers one or leaves them alone.
LEMMA StepsDeliver ==
  ASSUME Inv, PendingIsTraffic, [Next]_vars
  PROVE  [Delivery!Next]_<<pendingIds, processedIds>>
<1>1. ASSUME NEW r \in Relayers, NEW m \in Traffic, NEW list \in SignatureLists,
             CreateTxPda(r, m, list), UNCHANGED processed
      PROVE  Delivery!Next
  <2>1. AddressOf(m) \in Addresses /\ AddressOf(m) = <<m.source, m.txId>> /\ m.txId \in Nat
    BY TrafficTyped
  <2>2. pendingIds' = pendingIds \cup {AddressOf(m)}
    BY <1>1, CreateOpens
  <2>3. processedIds' = processedIds
    BY <1>1 DEF processedIds
  <2>4. counters[m.source] \in Nat /\ counters[m.source] < m.txId
    BY <1>1, TrafficTyped, MessagesAssumption
       DEF CreateTxPda, Admissible, IsNewer, Inv, TypeOK, ReplayTypeOK, TxIds
  <2>5. ASSUME NEW a \in pendingIds \cup processedIds, a[1] = m.source
        PROVE  a[2] < m.txId
    BY <2>1, <2>4, <2>5, CounterCoversIds
  <2> QED
    BY <2>1, <2>2, <2>3, <2>5 DEF Delivery!Next, Delivery!Admit
<1>2. ASSUME NEW r \in Relayers, NEW m \in Traffic, NEW list \in SignatureLists,
             NEW project \in ProjectChoices, ProcessMessage(r, m, list, project)
      PROVE  Delivery!Next
  <2>1. /\ AddressOf(m) \in pendingIds
        /\ pendingIds' = pendingIds \ {AddressOf(m)}
        /\ processedIds' = processedIds \cup {AddressOf(m)}
    BY <1>2, ProcessMoves
  <2> QED
    BY <2>1, TrafficTyped DEF Delivery!Next, Delivery!Deliver
<1>3. CASE UNCHANGED <<txPdas, processed>>
  BY <1>3 DEF pendingIds, processedIds
<1> QED
  BY <1>1, <1>2, <1>3 DEF Next, ReplayNext, replayVars, InitializeCounter, vars

\* The program implements AtMostOnceDelivery: the ids of a source chain are
\* admitted in increasing order and each is delivered at most once.
THEOREM DeliveryImplemented == Spec => ImplementsDelivery
<1>1. Spec => [](Inv /\ PendingIsTraffic)
  BY DeliveryStarts, Inductive, PendingIsTrafficInductive, PTL DEF Spec
<1> QED
  BY <1>1, DeliveryStarts, StepsDeliver, PTL DEF Spec, ImplementsDelivery, Delivery!Spec

-----------------------------------------------------------------------------
(* Ids that were passed over *)

\* The ids of open PDAs and of processed messages are those that are not untouched.
LEMMA UntouchedIds ==
  ASSUME NEW m \in Traffic
  PROVE  /\ Untouched(m) <=> AddressOf(m) \notin pendingIds \cup processedIds
         /\ Untouched(m)' <=> AddressOf(m) \notin pendingIds' \cup processedIds'
BY TrafficTyped DEF Untouched, Pending, pendingIds

\* Once the counter of its chain has reached an id that was not admitted, the id
\* stays out, whatever else is called.
THEOREM PassedOverForGood == Spec => PassedOverStaysOut
<1> DEFINE Passed(m) == Untouched(m) /\ counters[m.source] # NoAccount
                          /\ m.txId <= counters[m.source]
           StaysOut == \A m \in Traffic : Passed(m) => Untouched(m)'
<1>1. ASSUME Inv, [Next]_vars
      PROVE  [StaysOut]_vars
  <2>1. ASSUME NEW r \in Relayers, NEW m \in Traffic, NEW list \in SignatureLists,
               CreateTxPda(r, m, list), UNCHANGED processed
        PROVE  StaysOut
    <3>1. /\ pendingIds' = pendingIds \cup {AddressOf(m)}
          /\ processedIds' = processedIds
      BY <1>1, <2>1, CreateOpens DEF processedIds
    <3>2. m.txId > counters[m.source] /\ m.txId \in Nat
      BY <2>1, TrafficTyped DEF CreateTxPda, Admissible, IsNewer
    <3>3. ASSUME NEW other \in Traffic, Passed(other)
          PROVE  AddressOf(other) # AddressOf(m)
      <4>1. SUFFICES ASSUME AddressOf(other) = AddressOf(m) PROVE FALSE
        OBVIOUS
      <4>2. other.source = m.source /\ other.txId = m.txId
        BY <4>1 DEF AddressOf
      <4>3. counters[m.source] \in Nat
        BY <1>1, <3>3, <4>2, TrafficTyped, MessagesAssumption
           DEF Inv, TypeOK, ReplayTypeOK, TxIds
      <4> QED
        BY <3>2, <3>3, <4>2, <4>3
    <3> QED
      BY <3>1, <3>3, UntouchedIds
  <2>2. ASSUME NEW r \in Relayers, NEW m \in Traffic, NEW list \in SignatureLists,
               NEW project \in ProjectChoices, ProcessMessage(r, m, list, project)
        PROVE  StaysOut
    <3>1. /\ AddressOf(m) \in pendingIds
          /\ pendingIds' = pendingIds \ {AddressOf(m)}
          /\ processedIds' = processedIds \cup {AddressOf(m)}
      BY <1>1, <2>2, ProcessMoves
    <3> QED
      BY <3>1, UntouchedIds
  <2>3. CASE UNCHANGED <<txPdas, processed>>
    BY <2>3, UntouchedIds DEF pendingIds, processedIds
  <2> QED
    BY <1>1, <2>1, <2>2, <2>3 DEF Next, ReplayNext, replayVars, InitializeCounter, vars
<1> QED
  BY <1>1, Invariance, PTL DEF Spec, PassedOverStaysOut

-----------------------------------------------------------------------------
(* Sums *)

\* Every set of numbers that is not empty has a smallest element.
LEMMA Smallest ==
  ASSUME NEW T \in SUBSET Nat, T # {}
  PROVE  \E n \in T : \A m \in T : n <= m
<1> DEFINE Less == {pair \in Nat \X Nat : pair[1] < pair[2]}
<1>1. IsWellFoundedOn(Less, Nat)
  BY NatLessThanWellFounded DEF OpToRel
<1>2. PICK n \in T : \A m \in T : ~ (<<m, n>> \in Less)
  BY <1>1, WFMin
<1>3. ASSUME NEW m \in T
      PROVE  n <= m
  <2>1. ~ (<<m, n>> \in Less)
    BY <1>2
  <2>2. m \in Nat /\ n \in Nat
    OBVIOUS
  <2> QED
    BY <2>1, <2>2
<1> QED
  BY <1>3

\* The element that a sum takes next.
NextOf(s) == CHOOSE x \in s : TRUE

\* The sums over all subsets of S, as SumFunctionOnSet defines them.
PartialSums(f, S) ==
  CHOOSE sum : sum = [s \in SUBSET S |->
    IF s = {} THEN 0 ELSE f[NextOf(s)] + sum[s \ {NextOf(s)}]]

\* The sum of the community modules is the last of these partial sums.
LEMMA SumIsPartialSum ==
  ASSUME NEW S, NEW f
  PROVE  SumFunctionOnSet(f, S) = PartialSums(f, S)[S]
BY DEF SumFunctionOnSet, FoldFunctionOnSet, MapThenFoldSet, PartialSums, NextOf

\* On a finite set the recursion is well founded: there is such a function.
LEMMA PartialSumsExist ==
  ASSUME NEW S, IsFiniteSet(S), NEW f
  PROVE  PartialSums(f, S) = [s \in SUBSET S |->
           IF s = {} THEN 0 ELSE f[NextOf(s)] + PartialSums(f, S)[s \ {NextOf(s)}]]
<1> DEFINE Small(n) == {s \in SUBSET S : Cardinality(s) <= n}
           Unfolds(sum, D) == sum = [s \in D |->
             IF s = {} THEN 0 ELSE f[NextOf(s)] + sum[s \ {NextOf(s)}]]
           Missing == {n \in Nat : \A sum : ~ Unfolds(sum, Small(n))}
<1>1. \A s \in SUBSET S : IsFiniteSet(s) /\ Cardinality(s) \in Nat
  BY FS_Subset, FS_CardinalityType
<1>2. ASSUME NEW s \in SUBSET S, s # {}
      PROVE  /\ NextOf(s) \in s
             /\ s \ {NextOf(s)} \in SUBSET S
             /\ Cardinality(s \ {NextOf(s)}) = Cardinality(s) - 1
  BY <1>1, <1>2, FS_RemoveElement DEF NextOf
<1>3. 0 \notin Missing
  <2>1. Small(0) = {{}}
    BY <1>1, FS_EmptySet
  <2>2. Unfolds([s \in {{}} |-> 0], {{}})
    OBVIOUS
  <2> HIDE DEF Small
  <2> QED
    BY <2>1, <2>2
<1>4. ASSUME NEW n \in Nat, n \notin Missing
      PROVE  n + 1 \notin Missing
  <2>1. PICK sum : Unfolds(sum, Small(n))
    BY <1>4
  <2> DEFINE longer == [s \in Small(n + 1) |->
               IF s = {} THEN 0 ELSE f[NextOf(s)] + sum[s \ {NextOf(s)}]]
  <2>2. ASSUME NEW s \in Small(n)
        PROVE  s \in Small(n + 1) /\ longer[s] = sum[s]
    <3>1. s \in SUBSET S /\ Cardinality(s) \in Nat /\ Cardinality(s) <= n + 1
      BY <1>1
    <3>2. s \in Small(n + 1)
      BY <3>1
    <3> HIDE DEF Small
    <3> QED
      BY <2>1, <3>2
  <2>3. ASSUME NEW s \in Small(n + 1), s # {}
        PROVE  s \ {NextOf(s)} \in Small(n)
    <3>1. /\ s \ {NextOf(s)} \in SUBSET S
          /\ Cardinality(s \ {NextOf(s)}) = Cardinality(s) - 1
      BY <1>2, <2>3
    <3>2. Cardinality(s) \in Nat /\ Cardinality(s) <= n + 1
      BY <1>1
    <3> QED
      BY <3>1, <3>2
  <2>4. Unfolds(longer, Small(n + 1))
    BY <2>2, <2>3
  <2> HIDE DEF longer, Small
  <2> QED
    BY <2>4
<1>5. Missing = {}
  <2>1. SUFFICES ASSUME Missing # {} PROVE FALSE
    OBVIOUS
  <2>2. PICK n \in Missing : \A m \in Missing : n <= m
    BY <2>1, Smallest
  <2> HIDE DEF Missing
  <2>3. n \in Nat /\ n # 0
    BY <1>3 DEF Missing
  <2>4. n - 1 \in Nat /\ n - 1 \notin Missing
    BY <2>2, <2>3
  <2> QED
    BY <1>4, <2>3, <2>4
<1>6. Cardinality(S) \in Nat /\ Small(Cardinality(S)) = SUBSET S
  BY <1>1, FS_Subset
<1>7. \E sum : Unfolds(sum, SUBSET S)
  <2> DEFINE n == Cardinality(S)
  <2>0. n \in Nat
    BY <1>6
  <2> HIDE DEF n
  <2>1. PICK sum : Unfolds(sum, Small(n))
    <3> HIDE DEF Small, Unfolds
    <3> QED
      BY <1>5, <2>0
  <2> USE DEF n
  <2> HIDE DEF Small
  <2> QED
    BY <1>6, <2>1
<1>8. Unfolds(PartialSums(f, S), SUBSET S)
  BY <1>7 DEF PartialSums
<1> QED
  BY <1>8

\* What changes by a number at one argument changes the sum by that number.
LEMMA SumChangesBy ==
  ASSUME NEW S, IsFiniteSet(S), NEW f \in [S -> Int], NEW x \in S, NEW d \in Int
  PROVE  /\ SumFunction(f) \in Int
         /\ SumFunction([f EXCEPT ![x] = @ + d]) = SumFunction(f) + d
<1> DEFINE g == [f EXCEPT ![x] = @ + d]
           F == PartialSums(f, S)
           G == PartialSums(g, S)
           Agree(s) == F[s] \in Int /\ G[s] = F[s] + (IF x \in s THEN d ELSE 0)
           Wrong == {Cardinality(s) : s \in {t \in SUBSET S : ~ Agree(t)}}
<1>1. \A s \in SUBSET S : IsFiniteSet(s) /\ Cardinality(s) \in Nat
  BY FS_Subset, FS_CardinalityType
<1>2. F = [s \in SUBSET S |-> IF s = {} THEN 0 ELSE f[NextOf(s)] + F[s \ {NextOf(s)}]]
  BY PartialSumsExist
<1> HIDE DEF g
<1>3. G = [s \in SUBSET S |-> IF s = {} THEN 0 ELSE g[NextOf(s)] + G[s \ {NextOf(s)}]]
  BY PartialSumsExist
<1> HIDE DEF F, G
<1> USE DEF g
<1>4. ASSUME NEW s \in SUBSET S, s # {}, Agree(s \ {NextOf(s)})
      PROVE  Agree(s)
  <2>1. NextOf(s) \in s
    BY <1>4 DEF NextOf
  <2>2. /\ F[s] = f[NextOf(s)] + F[s \ {NextOf(s)}]
        /\ G[s] = g[NextOf(s)] + G[s \ {NextOf(s)}]
    BY <1>2, <1>3, <1>4
  <2>3. f[NextOf(s)] \in Int /\ g[NextOf(s)] = f[NextOf(s)] + (IF NextOf(s) = x THEN d ELSE 0)
    BY <2>1
  <2> QED
    BY <1>4, <2>1, <2>2, <2>3
<1>5. Wrong = {}
  <2>1. SUFFICES ASSUME Wrong # {} PROVE FALSE
    OBVIOUS
  <2>2. Wrong \in SUBSET Nat
    BY <1>1
  <2> HIDE DEF Agree
  <2>3. PICK n \in Wrong : \A m \in Wrong : n <= m
    BY <2>1, <2>2, Smallest
  <2>4. PICK s \in SUBSET S : ~ Agree(s) /\ n = Cardinality(s)
    OBVIOUS
  <2>5. CASE s = {}
    BY <1>2, <1>3, <2>4, <2>5 DEF Agree
  <2>6. CASE s # {}
    <3>1. NextOf(s) \in s
      BY <2>6 DEF NextOf
    <3>2. Cardinality(s \ {NextOf(s)}) = n - 1 /\ n \in Nat
      BY <1>1, <2>4, <3>1, FS_RemoveElement
    <3>3. ~ Agree(s \ {NextOf(s)})
      BY <1>4, <2>4, <2>6
    <3>4. n - 1 \in Wrong
      BY <3>2, <3>3
    <3> HIDE DEF Wrong
    <3> QED
      BY <2>3, <3>2, <3>4
  <2> QED
    BY <2>5, <2>6
<1>6. Agree(S)
  BY <1>5
<1>7. SumFunction(f) = F[S] /\ SumFunction(g) = G[S]
  BY SumIsPartialSum DEF SumFunction, F, G
<1> QED
  BY <1>6, <1>7

\* The sum of nothing but zeros.
LEMMA SumOfZeros ==
  ASSUME NEW S, IsFiniteSet(S)
  PROVE  SumFunction([x \in S |-> 0]) = 0
<1> DEFINE f == [x \in S |-> 0]
           F == PartialSums(f, S)
           Wrong == {Cardinality(s) : s \in {t \in SUBSET S : F[t] # 0}}
<1>1. \A s \in SUBSET S : IsFiniteSet(s) /\ Cardinality(s) \in Nat
  BY FS_Subset, FS_CardinalityType
<1>2. F = [s \in SUBSET S |-> IF s = {} THEN 0 ELSE f[NextOf(s)] + F[s \ {NextOf(s)}]]
  BY PartialSumsExist
<1> HIDE DEF F
<1>3. Wrong = {}
  <2>1. SUFFICES ASSUME Wrong # {} PROVE FALSE
    OBVIOUS
  <2>2. Wrong \in SUBSET Nat
    BY <1>1
  <2>3. PICK n \in Wrong : \A m \in Wrong : n <= m
    BY <2>1, <2>2, Smallest
  <2>4. PICK s \in SUBSET S : F[s] # 0 /\ n = Cardinality(s)
    OBVIOUS
  <2>5. s # {} /\ NextOf(s) \in s
    BY <1>2, <2>4 DEF NextOf
  <2>6. Cardinality(s \ {NextOf(s)}) = n - 1 /\ n \in Nat
    BY <1>1, <2>4, <2>5, FS_RemoveElement
  <2>7. F[s \ {NextOf(s)}] # 0
    <3>1. F[s] = f[NextOf(s)] + F[s \ {NextOf(s)}]
      BY <1>2, <2>5
    <3>2. f[NextOf(s)] = 0
      BY <2>5
    <3> QED
      BY <2>4, <3>1, <3>2
  <2>8. n - 1 \in Wrong
    BY <2>6, <2>7
  <2> HIDE DEF Wrong
  <2> QED
    BY <2>3, <2>6, <2>8
<1>4. F[S] = 0
  BY <1>3
<1> QED
  BY <1>4, SumIsPartialSum DEF SumFunction, F

-----------------------------------------------------------------------------
(* Rent *)

\* A sum has no meaning over infinitely many relayers, and infinitely many PDAs no
\* number: the balance is inductive together with "finitely many PDAs are open".
RentInv == IsFiniteSet(pendingIds) /\ RentBalances

\* What TX1 or TX2 moves to one relayer, the relayers together have got.
LEMMA RentMoves ==
  ASSUME rent \in [Relayers -> Int], NEW r \in Relayers, NEW d \in Int
  PROVE  /\ SumFunction(rent) \in Int
         /\ SumFunction([rent EXCEPT ![r] = @ + d]) = SumFunction(rent) + d
<1>1. IsFiniteSet(Relayers)
  BY SignaturesAssumption
<1>2. \A f \in [Relayers -> Int], x \in Relayers, e \in Int :
        /\ SumFunction(f) \in Int
        /\ SumFunction([f EXCEPT ![x] = @ + e]) = SumFunction(f) + e
  BY <1>1, SumChangesBy
<1> QED
  BY <1>2

\* TX1: its relayer pays for one more PDA.
LEMMA CreatePaysRent ==
  ASSUME Inv, RentInv, NEW r \in Relayers, NEW m \in Traffic, NEW list \in SignatureLists,
         CreateTxPda(r, m, list)
  PROVE  RentInv'
<1>1. rent \in [Relayers -> Int]
  BY DEF Inv, TypeOK, ReplayTypeOK
<1>2. /\ SumFunction(rent) \in Int
      /\ SumFunction(rent') = SumFunction(rent) + (-1)
  <2>0. -1 \in Int
    OBVIOUS
  <2>1. /\ SumFunction(rent) \in Int
        /\ SumFunction([rent EXCEPT ![r] = @ + (-1)]) = SumFunction(rent) + (-1)
    BY <1>1, <2>0, RentMoves
  <2>2. rent' = [rent EXCEPT ![r] = @ + (-1)]
    BY <1>1 DEF CreateTxPda
  <2> QED
    BY <2>1, <2>2
<1>3. AddressOf(m) \notin pendingIds /\ pendingIds' = pendingIds \cup {AddressOf(m)}
  BY CreateOpens DEF CreateTxPda, Admissible, IsFree, pendingIds
<1>4. /\ IsFiniteSet(pendingIds')
      /\ Cardinality(pendingIds') = Cardinality(pendingIds) + 1
      /\ Cardinality(pendingIds) \in Nat
  BY <1>3, FS_AddElement, FS_CardinalityType DEF RentInv
<1> QED
  BY <1>2, <1>4 DEF RentInv, RentBalances, pendingIds

\* TX2: its relayer gets the rent of one PDA, whoever paid it.
LEMMA ProcessRefundsRent ==
  ASSUME Inv, RentInv, NEW r \in Relayers, NEW m \in Traffic, NEW list \in SignatureLists,
         NEW project \in ProjectChoices, ProcessMessage(r, m, list, project)
  PROVE  RentInv'
<1>1. rent \in [Relayers -> Int]
  BY DEF Inv, TypeOK, ReplayTypeOK
<1>2. /\ SumFunction(rent) \in Int
      /\ SumFunction(rent') = SumFunction(rent) + 1
  <2>0. 1 \in Int
    OBVIOUS
  <2>1. /\ SumFunction(rent) \in Int
        /\ SumFunction([rent EXCEPT ![r] = @ + 1]) = SumFunction(rent) + 1
    BY <1>1, <2>0, RentMoves
  <2>2. rent' = [rent EXCEPT ![r] = @ + 1]
    BY <1>1 DEF ProcessMessage, CloseTxPda
  <2> QED
    BY <2>1, <2>2
<1>3. AddressOf(m) \in pendingIds /\ pendingIds' = pendingIds \ {AddressOf(m)}
  BY ProcessMoves
<1>4. /\ IsFiniteSet(pendingIds')
      /\ Cardinality(pendingIds') = Cardinality(pendingIds) - 1
      /\ Cardinality(pendingIds) \in Nat
  BY <1>3, FS_RemoveElement, FS_CardinalityType DEF RentInv
<1> QED
  BY <1>2, <1>4 DEF RentInv, RentBalances, pendingIds

\* Whatever the order of TX1s and TX2s and whoever sends them, no rent is lost or
\* made up: together the relayers are out of pocket by that of the open PDAs.
THEOREM RentAlwaysBalances == Spec => []RentBalances
<1>1. Init => RentInv
  <2> SUFFICES ASSUME Init PROVE RentInv
    OBVIOUS
  <2>1. SumFunction(rent) = 0
    BY SumOfZeros, SignaturesAssumption DEF Init, ReplayInit
  <2>2. pendingIds = {}
    BY DEF Init, ReplayInit, pendingIds
  <2> QED
    BY <2>1, <2>2, FS_EmptySet DEF RentInv, RentBalances, pendingIds
<1>2. ASSUME Inv, RentInv, [Next]_vars
      PROVE  RentInv'
  <2>1. CASE UNCHANGED <<txPdas, rent>>
    BY <1>2, <2>1 DEF RentInv, RentBalances, pendingIds
  <2> QED
    BY <1>2, <2>1, CreatePaysRent, ProcessRefundsRent
       DEF Next, ReplayNext, replayVars, InitializeCounter, vars
<1> QED
  BY <1>1, <1>2, Invariance, PTL DEF Spec, RentInv

-----------------------------------------------------------------------------
(* The administrative side of the program *)

\* Nothing but the administrative instructions changes what administrators see: the
\* program implements RegistryAdministration, and its theorems hold here too.
THEOREM AdministrationImplemented == Spec => AdministrationSpec
<1>1. Init => AdministrationInit
  BY DEF Init, AdministrationInit
<1>2. ASSUME [Next]_vars
      PROVE  [AdministrationNext]_adminVars
  <2>1. CASE GatewaysNext /\ UNCHANGED <<registries, replayVars, processed>>
    BY <2>1 DEF AdministrationNext
  <2>2. CASE RegistriesNext /\ UNCHANGED <<gatewayVars, replayVars, processed>>
    BY <2>2 DEF AdministrationNext
  <2>3. CASE UNCHANGED <<gatewayVars, registries>>
    BY <2>3 DEF gatewayVars, adminVars
  <2> QED
    BY <1>2, <2>1, <2>2, <2>3 DEF Next, ProcessMessage, vars, gatewayVars
<1> QED
  BY <1>1, <1>2, PTL DEF Spec, AdministrationSpec
=============================================================================
