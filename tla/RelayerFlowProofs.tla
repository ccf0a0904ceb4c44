--------------------------- MODULE RelayerFlowProofs ---------------------------
(***************************************************************************)
(* Theorems about the SDK's flow, for any scripts, messages, registries    *)
(* and numbers of runs, whatever the network drops or delays.              *)
(*                                                                         *)
(* Everything a script does to the program is a call of an instruction, so *)
(* the invariants of the program hold in the flow as well.  That TX1       *)
(* elects one script follows from the counter: it dominates the id of      *)
(* every script past TX1, and TX1 is only accepted above the counter.      *)
(***************************************************************************)
EXTENDS RelayerFlow, MessageGatewayProofs

\* The script is past TX1, or will be with its next step.
Passed(j) == stage[j] \in {"tx2", "done"} \/ (stage[j] = "tx1" /\ answer[j] = "ok")

\* The script knows, or will hear, that TX2 succeeded.
Succeeded(j) == stage[j] = "done" \/ (stage[j] = "tx2" /\ answer[j] = "ok")

PassedIsAdmitted ==
  \A j \in Jobs : Passed(j) =>
    counters[j.message.source] # NoAccount /\ j.message.txId <= counters[j.message.source]

OnePasses ==
  \A j1, j2 \in Jobs :
    SameAddress(j1.message, j2.message) /\ Passed(j1) /\ Passed(j2) => j1 = j2

SucceededIsProcessed == \A j \in Jobs : Succeeded(j) => processed[j.message] = 1

FlowInv == Inv /\ FlowTypeOK /\ PassedIsAdmitted /\ OnePasses /\ SucceededIsProcessed

-----------------------------------------------------------------------------
(* The flow and the program *)

\* The fields of a job, and its parts of a transaction.
LEMMA JobsTyped ==
  ASSUME NEW j \in Jobs
  PROVE  /\ j.relayer \in Relayers
         /\ j.message \in Traffic
         /\ j.list \in SignatureLists
BY JobsAssumption

\* The flow starts in a state the program can be in, with its invariant.
LEMMA FlowInitially == FlowInit => FlowInv
<1> SUFFICES ASSUME FlowInit PROVE FlowInv
  OBVIOUS
<1> USE DEF FlowInit
<1>1. GatewaysTypeOK /\ ReplayTypeOK /\ processed \in [Traffic -> Nat]
  BY MessagesAssumption, DeploymentAssumption
     DEF GatewaysTypeOK, ReplayTypeOK, GatewayAccount, TxIds
<1>2. RegistriesTypeOK
  BY DeploymentAssumption DEF RegistriesTypeOK
<1>3. RegistryThreshold
  <2> SUFFICES ASSUME NEW k \in RegistryKeys, registries[k] # NoAccount
               PROVE  /\ registries[k].required \in 1 .. Len(registries[k].signers)
                      /\ Len(registries[k].signers) <= MaxSigners
    BY DEF RegistryThreshold, RegistryExists
  <2>1. registries[k].signers \in Seq(Signers)
    BY <1>2 DEF RegistriesTypeOK, RegistryAccount
  <2> QED
    BY <2>1, DeploymentAssumption, CallerInputsAssumption
       DEF ValidConfiguration, ValidThreshold
<1>4. RegistryAdministrable
  <2> SUFFICES ASSUME NEW k \in RegistryKeys, registries[k] # NoAccount
               PROVE  IsGatewayAuthority(registries[k].authority)
    BY DEF RegistryAdministrable, RegistryExists
  <2>1. k[2] \in ChainIds /\ registries[k].authority = Operator
    BY RegistryKeysAssumption, DeploymentAssumption
  <2>2. gateways[k[2]] = [authority |-> Operator, enabled |-> TRUE]
    BY <2>1
  <2>3. gateways[k[2]] \in GatewayAccount
    <3>1. Operator \in Authorities
      BY DeploymentAssumption
    <3> HIDE DEF FlowInit
    <3>2. [authority |-> Operator, enabled |-> TRUE] \in GatewayAccount
      BY <3>1 DEF GatewayAccount
    <3> QED
      BY <2>2, <3>2, Zenon
  <2>4. gateways[k[2]] # NoAccount
    BY <2>3, NoGatewayAssumption
  <2> QED
    BY <2>1, <2>2, <2>4 DEF IsGatewayAuthority, Administers
<1>5. \A m \in Traffic : processed[m] = 0 /\ ~Pending(m)
  BY TrafficTyped DEF Pending
<1>6. ReplayInv
  BY <1>5 DEF ReplayInv, AtMostOnce, PendingNotProcessed, CounterDominates
<1>7. Inv
  BY <1>1, <1>2, <1>3, <1>4, <1>6 DEF Inv, TypeOK, RegistryInv
<1>8. \A j \in Jobs : ~Passed(j) /\ ~Succeeded(j)
  BY DEF Passed, Succeeded
<1>9. FlowTypeOK
  BY <1>7 DEF FlowTypeOK, Inv, Stages, Waiting
<1> QED
  BY <1>7, <1>8, <1>9 DEF FlowInv, PassedIsAdmitted, OnePasses, SucceededIsProcessed

\* Whatever the flow does to the program is a call of one of its instructions.
LEMMA FlowStepsAreCalls ==
  ASSUME FlowTypeOK, [FlowNext]_flowVars
  PROVE  [Next]_vars
<1>1. ASSUME NEW t \in network, Land(t)
      PROVE  Next
  <2>1. /\ t[1] \in Jobs
        /\ t[1].relayer \in Relayers /\ t[1].message \in Traffic /\ t[1].list \in SignatureLists
    BY <1>1, JobsTyped DEF FlowTypeOK
  <2>2. ASSUME CreateTxPda(t[1].relayer, t[1].message, t[1].list),
               UNCHANGED <<gatewayVars, registries, processed>>
        PROVE  Next
    BY <2>1, <2>2 DEF Next, ReplayNext
  <2>3. ASSUME ProcessMessage(t[1].relayer, t[1].message, t[1].list, ProjectOf(t[1]))
        PROVE  Next
    <3>1. ProjectOf(t[1]) \in ProjectChoices
      BY <2>3 DEF ProcessMessage, Processable, ProjectOf, ProjectChoices
    <3> QED
      BY <2>1, <2>3, <3>1 DEF Next
  <2> QED
    BY <1>1, <2>2, <2>3 DEF Land, Execute
<1>2. ASSUME NEW c \in Destinations, NEW enabled \in BOOLEAN, Switch(c, enabled)
      PROVE  Next
  <2>1. c \in ChainIds /\ Operator \in Authorities
    BY JobsTyped, MessagesAssumption, DeploymentAssumption DEF Destinations, Messages
  <2> QED
    BY <1>2, <2>1 DEF Switch, Next, GatewaysNext
<1>3. CASE UNCHANGED vars
  BY <1>3
<1> QED
  BY <1>1, <1>2, <1>3
     DEF FlowNext, Script, Network, Start, Continue, Finish, Refuse, Expire, Interrupt, End,
         Fail, Drop, flowVars

-----------------------------------------------------------------------------
(* The invariant of the flow *)

\* What a transaction on its way consists of.
LEMMA NetworkTyped ==
  ASSUME FlowTypeOK, NEW t \in network
  PROVE  t[1] \in Jobs /\ t[2] \in Nat /\ t[3] \in Waiting /\ t = <<t[1], t[2], t[3]>>
BY DEF FlowTypeOK

\* Sending a transaction leaves no answer behind.
LEMMA SendKeepsType ==
  ASSUME FlowTypeOK, TypeOK', NEW j \in Jobs, NEW run \in Nat, NEW kind \in Waiting,
         runs' = [runs EXCEPT ![j] = run], Send(j, run, kind)
  PROVE  FlowTypeOK'
<1>1. \A other \in Jobs \ {j} :
        stage'[other] = stage[other] /\ runs'[other] = runs[other] /\ answer'[other] = answer[other]
  BY DEF Send, FlowTypeOK
<1>2. answer'[j] = "none"
  BY DEF Send, FlowTypeOK
<1>3. /\ stage' \in [Jobs -> Stages] /\ runs' \in [Jobs -> Nat]
      /\ answer' \in [Jobs -> {"none", "ok", "error"}]
  BY DEF Send, FlowTypeOK, Stages
<1>4. network' \subseteq Jobs \X Nat \X Waiting
  BY DEF Send, FlowTypeOK
<1>5. ASSUME NEW other \in Jobs, answer'[other] # "none"
      PROVE  stage'[other] \in Waiting /\ <<other, runs'[other], stage'[other]>> \notin network'
  BY <1>1, <1>2, <1>5 DEF Send, FlowTypeOK, Awaited
<1> QED
  BY <1>3, <1>4, <1>5 DEF FlowTypeOK, Awaited

\* Ending a run leaves no answer behind.
LEMMA EndKeepsType ==
  ASSUME FlowTypeOK, NEW j \in Jobs, NEW how \in Stages, End(j, how)
  PROVE  FlowTypeOK'
<1>1. TypeOK'
  BY DEF FlowTypeOK, End, vars, TypeOK, GatewaysTypeOK, RegistriesTypeOK, ReplayTypeOK
<1>2. \A other \in Jobs \ {j} :
        stage'[other] = stage[other] /\ runs'[other] = runs[other] /\ answer'[other] = answer[other]
  BY DEF End, FlowTypeOK
<1>3. answer'[j] = "none"
  BY DEF End, FlowTypeOK
<1>4. /\ stage' \in [Jobs -> Stages] /\ runs' \in [Jobs -> Nat]
      /\ answer' \in [Jobs -> {"none", "ok", "error"}]
      /\ network' \subseteq Jobs \X Nat \X Waiting
  BY DEF End, FlowTypeOK
<1>5. ASSUME NEW other \in Jobs, answer'[other] # "none"
      PROVE  stage'[other] \in Waiting /\ <<other, runs'[other], stage'[other]>> \notin network'
  BY <1>2, <1>3, <1>5 DEF End, FlowTypeOK, Awaited
<1> QED
  BY <1>1, <1>4, <1>5 DEF FlowTypeOK, Awaited

\* An answer is recorded when its transaction leaves the network.
LEMMA DeliverKeepsType ==
  ASSUME FlowTypeOK, TypeOK', NEW t \in network, NEW result \in {"ok", "error"},
         Deliver(t, result)
  PROVE  FlowTypeOK'
<1>1. t[1] \in Jobs /\ t[3] \in Waiting
  BY NetworkTyped
<1>2. answer' \in [Jobs -> {"none", "ok", "error"}]
  BY <1>1 DEF Deliver, FlowTypeOK
<1>3. ASSUME NEW other \in Jobs, answer'[other] # "none"
      PROVE  stage[other] \in Waiting /\ Awaited(other) \notin network'
  <2>1. CASE other = t[1] /\ t = Awaited(other)
    BY <1>1, <2>1 DEF Deliver, Awaited
  <2>2. CASE ~(other = t[1] /\ t = Awaited(other))
    <3>1. answer'[other] = answer[other]
      BY <2>2, <1>1 DEF Deliver, FlowTypeOK
    <3> QED
      BY <3>1, <1>3 DEF Deliver, FlowTypeOK
  <2> QED
    BY <2>1, <2>2
<1> QED
  BY <1>2, <1>3 DEF FlowTypeOK, Deliver, Awaited

\* A step that touches neither counters nor processed messages and puts no script
\* past TX1 or TX2 keeps what the flow relies on.
LEMMA NoNewClaim ==
  ASSUME FlowInv, UNCHANGED <<counters, processed>>,
         \A j \in Jobs : (Passed(j)' => Passed(j)) /\ (Succeeded(j)' => Succeeded(j))
  PROVE  PassedIsAdmitted' /\ OnePasses' /\ SucceededIsProcessed'
BY DEF FlowInv, PassedIsAdmitted, OnePasses, SucceededIsProcessed

\* No step of a script puts it past TX1 or TX2 but for an answer it was given.
LEMMA ScriptClaimsNothing ==
  ASSUME FlowTypeOK, NEW j \in Jobs, Start(j) \/ Script(j) \/ Interrupt(j)
  PROVE  /\ UNCHANGED vars
         /\ \A o \in Jobs : (Passed(o)' => Passed(o)) /\ (Succeeded(o)' => Succeeded(o))
<1>1. UNCHANGED vars
  BY DEF Start, Script, Interrupt, Continue, Finish, Refuse, Expire, End
<1>2. ASSUME NEW o \in Jobs, o # j
      PROVE  stage'[o] = stage[o] /\ answer'[o] = answer[o]
  BY <1>2 DEF Start, Script, Interrupt, Continue, Finish, Refuse, Expire, End, Send, FlowTypeOK
<1>3. answer'[j] = "none"
  BY DEF Start, Script, Interrupt, Continue, Finish, Refuse, Expire, End, Send, FlowTypeOK
<1>4. \/ stage'[j] \in {"tx1", "refused", "lost"}
      \/ stage'[j] = "tx2" /\ stage[j] = "tx1" /\ answer[j] = "ok"
      \/ stage'[j] = "done" /\ stage[j] = "tx2" /\ answer[j] = "ok"
  BY DEF Start, Script, Interrupt, Continue, Finish, Refuse, Expire, End, Send, FlowTypeOK
<1> QED
  BY <1>1, <1>2, <1>3, <1>4 DEF Passed, Succeeded

\* An answer changes where one script stands: the one that awaited it.
LEMMA DeliverClaims ==
  ASSUME FlowTypeOK, NEW t \in network, NEW result \in {"ok", "error"}, Deliver(t, result)
  PROVE  /\ t[1] \in Jobs
         /\ \A o \in Jobs \ {t[1]} : (Passed(o)' <=> Passed(o)) /\ (Succeeded(o)' <=> Succeeded(o))
         /\ Passed(t[1])' => Passed(t[1]) \/ (result = "ok" /\ t[3] = "tx1")
         /\ Succeeded(t[1])' => Succeeded(t[1]) \/ (result = "ok" /\ t[3] = "tx2")
<1>1. t[1] \in Jobs
  BY NetworkTyped
<1>2. \A o \in Jobs \ {t[1]} : stage'[o] = stage[o] /\ answer'[o] = answer[o]
  BY <1>1 DEF Deliver, FlowTypeOK
<1>3. stage'[t[1]] = stage[t[1]]
  BY DEF Deliver
<1>4. \/ answer'[t[1]] = answer[t[1]]
      \/ answer'[t[1]] = result /\ t[3] = stage[t[1]]
  BY <1>1 DEF Deliver, FlowTypeOK, Awaited
<1> QED
  BY <1>1, <1>2, <1>3, <1>4 DEF Passed, Succeeded

\* TX1 lands: whoever it belongs to, nobody else was past TX1 with this id.
LEMMA LandTx1 ==
  ASSUME FlowInv, NEW t \in network, Deliver(t, "ok"), t[3] = "tx1",
         CreateTxPda(t[1].relayer, t[1].message, t[1].list), UNCHANGED processed
  PROVE  PassedIsAdmitted' /\ OnePasses' /\ SucceededIsProcessed'
<1> DEFINE m == t[1].message
<1>1. /\ t[1] \in Jobs
      /\ \A o \in Jobs \ {t[1]} : (Passed(o)' <=> Passed(o)) /\ (Succeeded(o)' <=> Succeeded(o))
      /\ Succeeded(t[1])' => Succeeded(t[1])
  BY DeliverClaims DEF FlowInv
<1>2. /\ m \in Traffic /\ m.source \in ChainIds /\ m.txId \in Nat /\ m.txId \in TxIds
  BY <1>1, JobsTyped, TrafficTyped
<1>3. counters \in [ChainIds -> TxIds \cup {NoAccount}]
  BY DEF FlowInv, Inv, TypeOK, ReplayTypeOK
<1>4. /\ counters[m.source] # NoAccount /\ m.txId > counters[m.source]
      /\ counters' = [counters EXCEPT ![m.source] = m.txId]
  BY DEF CreateTxPda, Admissible, IsNewer
<1>5. counters'[m.source] = m.txId /\ m.txId # NoAccount
  BY <1>2, <1>3, <1>4, MessagesAssumption
<1>6. ASSUME NEW o \in Jobs, Passed(o)
      PROVE  /\ ~SameAddress(o.message, m)
             /\ counters'[o.message.source] # NoAccount
             /\ o.message.txId <= counters'[o.message.source]
  <2>1. /\ o.message.source \in ChainIds /\ o.message.txId \in Nat
        /\ counters[o.message.source] # NoAccount
        /\ o.message.txId <= counters[o.message.source]
    BY <1>6, JobsTyped, TrafficTyped DEF FlowInv, PassedIsAdmitted
  <2>2. counters[o.message.source] \in Nat
    BY <1>3, <2>1, MessagesAssumption DEF TxIds
  <2>3. CASE o.message.source = m.source
    BY <1>2, <1>4, <1>5, <2>1, <2>2, <2>3 DEF SameAddress, AddressOf
  <2>4. CASE o.message.source # m.source
    BY <1>2, <1>3, <1>4, <2>1, <2>4 DEF SameAddress, AddressOf
  <2> QED
    BY <2>3, <2>4
<1>7. PassedIsAdmitted'
  <2> SUFFICES ASSUME NEW o \in Jobs, Passed(o)'
               PROVE  /\ counters'[o.message.source] # NoAccount
                      /\ o.message.txId <= counters'[o.message.source]
    BY DEF PassedIsAdmitted
  <2>1. CASE o = t[1]
    BY <1>2, <1>5, <2>1
  <2>2. CASE o # t[1]
    BY <1>1, <1>6, <2>2
  <2> QED
    BY <2>1, <2>2
<1>8. OnePasses'
  <2> SUFFICES ASSUME NEW j1 \in Jobs, NEW j2 \in Jobs, j1 # j2,
                      SameAddress(j1.message, j2.message), Passed(j1)', Passed(j2)'
               PROVE  FALSE
    BY DEF OnePasses
  <2>1. CASE j1 = t[1]
    BY <1>1, <1>6, <2>1 DEF SameAddress
  <2>2. CASE j2 = t[1]
    BY <1>1, <1>6, <2>2 DEF SameAddress
  <2>3. CASE j1 # t[1] /\ j2 # t[1]
    BY <1>1, <2>3 DEF FlowInv, OnePasses
  <2> QED
    BY <2>1, <2>2, <2>3
<1>9. SucceededIsProcessed'
  BY <1>1 DEF FlowInv, SucceededIsProcessed
<1> QED
  BY <1>7, <1>8, <1>9

\* TX2 lands: its message was not processed before, and now it is.
LEMMA LandTx2 ==
  ASSUME FlowInv, NEW t \in network, Deliver(t, "ok"), t[3] = "tx2",
         ProcessMessage(t[1].relayer, t[1].message, t[1].list, ProjectOf(t[1]))
  PROVE  PassedIsAdmitted' /\ OnePasses' /\ SucceededIsProcessed'
<1> DEFINE m == t[1].message
<1>1. /\ t[1] \in Jobs
      /\ \A o \in Jobs : Passed(o)' => Passed(o)
      /\ \A o \in Jobs \ {t[1]} : Succeeded(o)' => Succeeded(o)
  BY DeliverClaims DEF FlowInv
<1>2. m \in Traffic
  BY <1>1, JobsTyped
<1>3. /\ txPdas[AddressOf(m)] = m.txId
      /\ processed' = [processed EXCEPT ![m] = @ + 1]
      /\ UNCHANGED counters
  BY DEF ProcessMessage, Processable, HoldsPda, CloseTxPda
<1>4. processed[m] = 0
  BY <1>2, <1>3, TrafficTyped, MessagesAssumption
     DEF FlowInv, Inv, ReplayInv, PendingNotProcessed, Pending
<1>5. processed \in [Traffic -> Nat]
  BY DEF FlowInv, Inv, TypeOK
<1>6. processed'[m] = 1 /\ \A x \in Traffic \ {m} : processed'[x] = processed[x]
  BY <1>2, <1>3, <1>4, <1>5
<1>7. PassedIsAdmitted' /\ OnePasses'
  BY <1>1, <1>3 DEF FlowInv, PassedIsAdmitted, OnePasses
<1>8. SucceededIsProcessed'
  BY <1>1, <1>6, JobsTyped DEF FlowInv, SucceededIsProcessed
<1> QED
  BY <1>7, <1>8

-----------------------------------------------------------------------------
(* Theorems *)

\* No step of the scripts or of the network breaks the invariant of the flow.
LEMMA FlowInductive ==
  ASSUME FlowInv, [FlowNext]_flowVars
  PROVE  FlowInv'
<1>1. Inv'
  BY FlowStepsAreCalls, Inductive DEF FlowInv
<1> USE <1>1
<1>2. ASSUME NEW j \in Jobs, Start(j) \/ Script(j) \/ Interrupt(j)
      PROVE  FlowInv'
  <2>1. FlowTypeOK'
    <3>1. CASE Start(j)
      <4>1. runs' = [runs EXCEPT ![j] = runs[j] + 1] /\ runs[j] + 1 \in Nat
        BY <3>1 DEF Start, FlowInv, FlowTypeOK
      <4> QED
        BY <3>1, <4>1, SendKeepsType DEF Start, FlowInv, Inv, Waiting
    <3>2. CASE Continue(j)
      <4>1. runs' = [runs EXCEPT ![j] = runs[j]] /\ runs[j] \in Nat
        BY <3>2 DEF Continue, FlowInv, FlowTypeOK
      <4> QED
        BY <3>2, <4>1, SendKeepsType DEF Continue, FlowInv, Inv, Waiting
    <3>3. CASE Finish(j) \/ Refuse(j) \/ Expire(j) \/ Interrupt(j)
      BY <3>3, EndKeepsType DEF Finish, Refuse, Expire, Interrupt, Stages, FlowInv
    <3> QED
      BY <1>2, <3>1, <3>2, <3>3 DEF Script
  <2>2. PassedIsAdmitted' /\ OnePasses' /\ SucceededIsProcessed'
    BY <1>2, ScriptClaimsNothing, NoNewClaim DEF FlowInv, vars
  <2> QED
    BY <2>1, <2>2 DEF FlowInv
<1>3. ASSUME NEW t \in network, Land(t)
      PROVE  FlowInv'
  <2>1. FlowTypeOK'
    BY <1>3, DeliverKeepsType DEF Land, FlowInv, Inv
  <2>2. PassedIsAdmitted' /\ OnePasses' /\ SucceededIsProcessed'
    BY <1>3, LandTx1, LandTx2 DEF Land, Execute
  <2> QED
    BY <2>1, <2>2 DEF FlowInv
<1>4. ASSUME NEW t \in network, Fail(t)
      PROVE  FlowInv'
  <2>1. FlowTypeOK'
    BY <1>4, DeliverKeepsType DEF Fail, FlowInv, Inv
  <2>2. \A o \in Jobs : (Passed(o)' => Passed(o)) /\ (Succeeded(o)' => Succeeded(o))
    BY <1>4, DeliverClaims DEF Fail, FlowInv
  <2>3. PassedIsAdmitted' /\ OnePasses' /\ SucceededIsProcessed'
    BY <1>4, <2>2, NoNewClaim DEF Fail, vars
  <2> QED
    BY <2>1, <2>3 DEF FlowInv
<1>5. ASSUME UNCHANGED <<stage, runs, answer, counters, processed>>, network' \subseteq network
      PROVE  FlowInv'
  <2>1. FlowTypeOK'
    BY <1>5 DEF FlowInv, Inv, FlowTypeOK, Awaited
  <2>2. \A o \in Jobs : (Passed(o)' => Passed(o)) /\ (Succeeded(o)' => Succeeded(o))
    BY <1>5 DEF Passed, Succeeded
  <2> QED
    BY <1>5, <2>1, <2>2, NoNewClaim DEF FlowInv
<1>6. ASSUME NEW t \in network, Drop(t)
      PROVE  FlowInv'
  BY <1>5, <1>6 DEF Drop, vars
<1>7. ASSUME NEW c \in Destinations, NEW enabled \in BOOLEAN, Switch(c, enabled)
      PROVE  FlowInv'
  BY <1>5, <1>7 DEF Switch, scriptVars, replayVars
<1>8. CASE UNCHANGED flowVars
  BY <1>5, <1>8 DEF flowVars, vars
<1> QED
  BY <1>2, <1>3, <1>4, <1>6, <1>7, <1>8 DEF FlowNext, Network

\* The invariant holds in every state of the flow.
THEOREM FlowInvariance == FlowSpec => []FlowInv
BY FlowInitially, FlowInductive, PTL DEF FlowSpec

\* Types, and no answer is left over from an earlier transaction.
THEOREM FlowTypeCorrect == FlowSpec => []FlowTypeOK
BY FlowInvariance, PTL DEF FlowInv

\* Of all scripts that carry one id at most one is past TX1.
THEOREM TX1Elects == FlowSpec => []OneClaimant
<1>1. FlowInv => OneClaimant
  <2> SUFFICES ASSUME FlowInv, NEW m \in Traffic, NEW j1 \in Claimants(m), NEW j2 \in Claimants(m)
               PROVE  j1 = j2
    BY DEF OneClaimant
  <2> QED
    BY DEF FlowInv, OnePasses, Claimants, Passed, SameAddress
<1> QED
  BY <1>1, FlowInvariance, PTL

\* A script that reports success had its message processed, once, and no other
\* message of its id was.
THEOREM SuccessIsReal == FlowSpec => []DoneMeansProcessed
<1>1. FlowInv => DoneMeansProcessed
  <2> SUFFICES ASSUME FlowInv, NEW j \in Jobs, stage[j] = "done"
               PROVE  /\ processed[j.message] = 1
                      /\ \A m \in Traffic : SameAddress(m, j.message) /\ m # j.message =>
                            processed[m] = 0
    BY DEF DoneMeansProcessed
  <2>1. processed[j.message] = 1 /\ j.message \in Traffic
    BY JobsTyped DEF FlowInv, SucceededIsProcessed, Succeeded
  <2> QED
    BY <2>1 DEF FlowInv, Inv, ReplayInv, AtMostOnce, SameAddress
<1> QED
  BY <1>1, FlowInvariance, PTL

-----------------------------------------------------------------------------
(* What a step may never do *)

\* A transaction of another id, or one that fails, disturbs no abandoned id.
LEMMA OtherDelivery ==
  ASSUME FlowTypeOK, NEW m \in Traffic, Abandoned(m), NEW t \in network,
         NEW result \in {"ok", "error"}, Deliver(t, result), Pending(m)',
         result = "ok" => ~SameAddress(t[1].message, m)
  PROVE  Abandoned(m)'
<1>1. \A u \in network' : SameAddress(u[1].message, m) => u[3] # "tx2"
  BY DEF Abandoned, Deliver
<1>2. ASSUME NEW j \in Jobs, SameAddress(j.message, m)
      PROVE  stage'[j] # "tx2" /\ ~(stage'[j] = "tx1" /\ answer'[j] = "ok")
  <2>1. stage'[j] = stage[j]
    BY DEF Deliver
  <2>2. answer'[j] = "ok" => answer[j] = "ok"
    <3>1. CASE j = t[1]
      BY <1>2, <3>1 DEF Deliver, FlowTypeOK
    <3>2. CASE j # t[1]
      BY <3>2, NetworkTyped DEF Deliver, FlowTypeOK
    <3> QED
      BY <3>1, <3>2
  <2> QED
    BY <1>2, <2>1, <2>2 DEF Abandoned
<1> QED
  BY <1>1, <1>2 DEF Abandoned, SameAddress

\* A script that ends, or sends TX1 again, disturbs no abandoned id; and no script
\* is there to send TX2.
LEMMA ScriptKeepsAbandoned ==
  ASSUME FlowTypeOK, NEW m \in Traffic, Abandoned(m), NEW j \in Jobs,
         Start(j) \/ Script(j) \/ Interrupt(j)
  PROVE  Abandoned(m)'
<1>1. Pending(m)'
  BY ScriptClaimsNothing DEF Abandoned, Pending, vars
<1>2. CASE Continue(j)
  <2>1. ~SameAddress(j.message, m)
    BY <1>2 DEF Continue, Abandoned
  <2>2. \A u \in network' : u \in network \/ u = <<j, runs[j], "tx2">>
    BY <1>2 DEF Continue, Send
  <2>3. /\ \A o \in Jobs \ {j} : stage'[o] = stage[o] /\ answer'[o] = answer[o]
    BY <1>2 DEF Continue, Send, FlowTypeOK
  <2> QED
    BY <1>1, <2>1, <2>2, <2>3 DEF Abandoned, SameAddress
<1>3. CASE Start(j)
  <2>1. \A u \in network' : u \in network \/ u = <<j, runs[j] + 1, "tx1">>
    BY <1>3 DEF Start, Send
  <2>2. /\ \A o \in Jobs \ {j} : stage'[o] = stage[o] /\ answer'[o] = answer[o]
        /\ stage'[j] = "tx1" /\ answer'[j] = "none"
    BY <1>3 DEF Start, Send, FlowTypeOK
  <2> QED
    BY <1>1, <2>1, <2>2 DEF Abandoned, SameAddress
<1>4. CASE Finish(j) \/ Refuse(j) \/ Expire(j) \/ Interrupt(j)
  <2>1. /\ network' = network
        /\ \A o \in Jobs \ {j} : stage'[o] = stage[o] /\ answer'[o] = answer[o]
        /\ stage'[j] \in {"done", "refused", "lost"}
    BY <1>4 DEF Finish, Refuse, Expire, Interrupt, End, FlowTypeOK
  <2> QED
    BY <1>1, <2>1 DEF Abandoned, SameAddress
<1> QED
  BY <1>2, <1>3, <1>4 DEF Script

\* Neither of the two transactions of an abandoned id can land: TX1 is refused
\* because the PDA exists, and TX2 is not on its way.
LEMMA LandKeepsAbandoned ==
  ASSUME FlowTypeOK, NEW m \in Traffic, Abandoned(m), NEW t \in network, Land(t)
  PROVE  Abandoned(m)'
<1> DEFINE x == t[1].message
<1>1. /\ txPdas \in [Addresses -> TxIds \cup {NoAccount}]
      /\ t[1] \in Jobs /\ x \in Traffic /\ AddressOf(x) \in Addresses /\ AddressOf(m) \in Addresses
  BY NetworkTyped, JobsTyped, TrafficTyped DEF FlowTypeOK, TypeOK, ReplayTypeOK
<1>2. ~SameAddress(x, m) /\ Pending(m)'
  <2>1. CASE t[3] = "tx1" /\ CreateTxPda(t[1].relayer, x, t[1].list)
    <3>1. txPdas[AddressOf(x)] = NoAccount /\ txPdas' = [txPdas EXCEPT ![AddressOf(x)] = x.txId]
      BY <2>1 DEF CreateTxPda, Admissible, IsFree
    <3>2. AddressOf(x) # AddressOf(m)
      BY <3>1 DEF Abandoned, Pending
    <3> QED
      BY <1>1, <3>1, <3>2 DEF Abandoned, Pending, SameAddress
  <2>2. CASE t[3] = "tx2" /\ ProcessMessage(t[1].relayer, x, t[1].list, ProjectOf(t[1]))
    <3>1. txPdas' = [txPdas EXCEPT ![AddressOf(x)] = NoAccount]
      BY <2>2 DEF ProcessMessage, CloseTxPda
    <3>2. AddressOf(x) # AddressOf(m)
      BY <2>2 DEF Abandoned, SameAddress
    <3> QED
      BY <1>1, <3>1, <3>2 DEF Abandoned, Pending, SameAddress
  <2> QED
    BY <2>1, <2>2 DEF Land, Execute
<1> QED
  BY <1>2, OtherDelivery DEF Land

\* An id whose script ended between TX1 and TX2 is never picked up again by any
\* later run of any script.
THEOREM AbandonedStays == FlowSpec => AbandonedForEver
<1> DEFINE Stays == \A m \in Traffic : Abandoned(m) => Abandoned(m)'
<1>1. ASSUME FlowInv, [FlowNext]_flowVars
      PROVE  [Stays]_flowVars
  <2> SUFFICES ASSUME NEW m \in Traffic, Abandoned(m)
               PROVE  Abandoned(m)'
    OBVIOUS
  <2>0. FlowTypeOK
    BY <1>1 DEF FlowInv
  <2>1. ASSUME NEW j \in Jobs, Start(j) \/ Script(j) \/ Interrupt(j)
        PROVE  Abandoned(m)'
    BY <2>0, <2>1, ScriptKeepsAbandoned
  <2>2. ASSUME NEW t \in network, Land(t)
        PROVE  Abandoned(m)'
    BY <2>0, <2>2, LandKeepsAbandoned
  <2>3. ASSUME NEW t \in network, Fail(t)
        PROVE  Abandoned(m)'
    BY <2>0, <2>3, OtherDelivery DEF Fail, Abandoned, Pending, vars
  <2>4. ASSUME UNCHANGED <<stage, answer, txPdas>>, network' \subseteq network
        PROVE  Abandoned(m)'
    BY <2>4 DEF Abandoned, Pending, SameAddress
  <2>5. ASSUME NEW t \in network, Drop(t)
        PROVE  Abandoned(m)'
    BY <2>4, <2>5 DEF Drop, vars
  <2>6. ASSUME NEW c \in Destinations, NEW enabled \in BOOLEAN, Switch(c, enabled)
        PROVE  Abandoned(m)'
    BY <2>4, <2>6 DEF Switch, scriptVars, replayVars
  <2>7. CASE UNCHANGED flowVars
    BY <2>4, <2>7 DEF flowVars, vars
  <2> QED
    BY <1>1, <2>1, <2>2, <2>3, <2>5, <2>6, <2>7 DEF FlowNext, Network
<1> QED
  BY <1>1, FlowInvariance, PTL DEF FlowSpec, AbandonedForEver

-----------------------------------------------------------------------------
(* The PDA of a script that is past TX1 *)

\* The TX2s on their way are of ids that were admitted; and a script that is past
\* TX1 with the id of one waits for it.
SentAfterAdmission ==
  \A t \in network : t[3] = "tx2" =>
    /\ counters[t[1].message.source] # NoAccount
    /\ t[1].message.txId <= counters[t[1].message.source]
    /\ \A j \in Jobs : SameAddress(j.message, t[1].message) /\ Passed(j) =>
         stage[j] = "tx2" /\ t = Awaited(j)

ClaimsInv == FlowInv /\ SentAfterAdmission /\ ClaimKeepsPda

\* A step that leaves counters and PDAs alone, after which there are no new claims
\* and no new TX2s, and every TX2 that was awaited and is under way still is.
LEMMA NothingSent ==
  ASSUME ClaimsInv, UNCHANGED <<counters, txPdas>>,
         \A t \in network' : t[3] = "tx2" => t \in network,
         \A j \in Jobs : Claims(j)' => Claims(j),
         \A j \in Jobs : Passed(j)' => Passed(j),
         \A j \in Jobs : Passed(j)' /\ stage[j] = "tx2" /\ Awaited(j) \in network =>
           stage'[j] = stage[j] /\ runs'[j] = runs[j]
  PROVE  SentAfterAdmission' /\ ClaimKeepsPda'
<1>1. SentAfterAdmission'
  <2> SUFFICES ASSUME NEW t \in network', t[3] = "tx2"
               PROVE  /\ counters[t[1].message.source] # NoAccount
                      /\ t[1].message.txId <= counters[t[1].message.source]
                      /\ \A j \in Jobs : SameAddress(j.message, t[1].message) /\ Passed(j)' =>
                           stage'[j] = "tx2" /\ t = <<j, runs'[j], stage'[j]>>
    BY DEF SentAfterAdmission, Awaited, SameAddress
  <2>1. t \in network
    OBVIOUS
  <2> QED
    BY <2>1 DEF ClaimsInv, SentAfterAdmission, Awaited
<1>2. ClaimKeepsPda'
  BY DEF ClaimsInv, ClaimKeepsPda, HoldsPda
<1> QED
  BY <1>1, <1>2

\* A script that goes on to TX2 has the only claim to its id, and was still
\* waiting for TX1: no other TX2 of its id is on its way.
LEMMA ContinueSends ==
  ASSUME ClaimsInv, NEW j \in Jobs, Continue(j)
  PROVE  SentAfterAdmission' /\ ClaimKeepsPda'
<1>1. /\ stage[j] = "tx1" /\ answer[j] = "ok" /\ Passed(j) /\ Claims(j)
      /\ network' = network \cup {<<j, runs[j], "tx2">>}
      /\ UNCHANGED <<vars, runs>>
  BY DEF Continue, Send, Passed, Claims
<1>2. \A o \in Jobs \ {j} : stage'[o] = stage[o] /\ answer'[o] = answer[o]
  BY DEF Continue, Send, ClaimsInv, FlowInv, FlowTypeOK
<1>3. stage'[j] = "tx2" /\ answer'[j] = "none"
  BY DEF Continue, Send, ClaimsInv, FlowInv, FlowTypeOK
<1>4. counters' = counters /\ txPdas' = txPdas /\ runs' = runs
  BY <1>1 DEF vars
<1>5. ASSUME NEW o \in Jobs, o # j, SameAddress(o.message, j.message)
      PROVE  ~Passed(o) /\ ~Passed(o)'
  BY <1>1, <1>2, <1>5 DEF ClaimsInv, FlowInv, OnePasses, Passed
<1>6. SentAfterAdmission'
  <2> SUFFICES ASSUME NEW t \in network', t[3] = "tx2"
               PROVE  /\ counters[t[1].message.source] # NoAccount
                      /\ t[1].message.txId <= counters[t[1].message.source]
                      /\ \A o \in Jobs : SameAddress(o.message, t[1].message) /\ Passed(o)' =>
                           stage'[o] = "tx2" /\ t = <<o, runs[o], stage'[o]>>
    BY <1>4 DEF SentAfterAdmission, Awaited, SameAddress
  <2>1. CASE t = <<j, runs[j], "tx2">>
    <3>1. t[1] = j
      BY <2>1
    <3>2. /\ counters[j.message.source] # NoAccount
          /\ j.message.txId <= counters[j.message.source]
      BY <1>1 DEF ClaimsInv, FlowInv, PassedIsAdmitted
    <3> QED
      BY <1>3, <1>5, <2>1, <3>1, <3>2
  <2>2. CASE t \in network
    <3>1. ASSUME NEW o \in Jobs, SameAddress(o.message, t[1].message), Passed(o)'
          PROVE  stage'[o] = "tx2" /\ t = <<o, runs[o], stage'[o]>>
      <4>1. Passed(o)
        BY <1>1, <1>2, <3>1 DEF Passed
      <4>2. stage[o] = "tx2" /\ t = <<o, runs[o], stage[o]>>
        BY <2>2, <3>1, <4>1 DEF ClaimsInv, SentAfterAdmission, Awaited
      <4> QED
        BY <1>1, <1>2, <4>2
    <3> QED
      BY <2>2, <3>1 DEF ClaimsInv, SentAfterAdmission
  <2> QED
    BY <1>1, <2>1, <2>2
<1>7. ClaimKeepsPda'
  <2> SUFFICES ASSUME NEW o \in Jobs, Claims(o)'
               PROVE  HoldsPda(o.message)
    BY <1>4 DEF ClaimKeepsPda, HoldsPda
  <2>1. Claims(o)
    BY <1>1, <1>2, <1>4 DEF Claims, Awaited
  <2> QED
    BY <2>1 DEF ClaimsInv, ClaimKeepsPda
<1> QED
  BY <1>6, <1>7

\* TX1 lands above the counter, so no TX2 of its id is on its way, and creates the
\* PDA of the only script that this puts past TX1.
LEMMA LandTx1Claims ==
  ASSUME ClaimsInv, NEW t \in network, Deliver(t, "ok"), t[3] = "tx1",
         CreateTxPda(t[1].relayer, t[1].message, t[1].list)
  PROVE  SentAfterAdmission' /\ ClaimKeepsPda'
<1> DEFINE m == t[1].message
<1>1. /\ t[1] \in Jobs
      /\ \A o \in Jobs \ {t[1]} : Passed(o)' <=> Passed(o)
  BY DeliverClaims DEF ClaimsInv, FlowInv
<1>2. /\ m \in Traffic /\ m.source \in ChainIds /\ AddressOf(m) \in Addresses
      /\ m.txId \in Nat /\ m.txId \in TxIds
  BY <1>1, JobsTyped, TrafficTyped
<1>3. /\ counters \in [ChainIds -> TxIds \cup {NoAccount}]
      /\ txPdas \in [Addresses -> TxIds \cup {NoAccount}]
  BY DEF ClaimsInv, FlowInv, Inv, TypeOK, ReplayTypeOK
<1>4. /\ counters[m.source] # NoAccount /\ m.txId > counters[m.source]
      /\ counters' = [counters EXCEPT ![m.source] = m.txId]
      /\ txPdas[AddressOf(m)] = NoAccount
      /\ txPdas' = [txPdas EXCEPT ![AddressOf(m)] = m.txId]
  BY DEF CreateTxPda, Admissible, IsNewer, IsFree
<1>5. counters'[m.source] = m.txId /\ m.txId # NoAccount
  BY <1>2, <1>3, <1>4, MessagesAssumption
<1>6. network' \subseteq network /\ stage' = stage /\ runs' = runs
  BY DEF Deliver
<1>7. ASSUME NEW u \in network, u[3] = "tx2"
      PROVE  /\ ~SameAddress(m, u[1].message)
             /\ counters'[u[1].message.source] # NoAccount
             /\ u[1].message.txId <= counters'[u[1].message.source]
  <2> DEFINE n == u[1].message
  <2>1. n.source \in ChainIds /\ n.txId \in Nat
    BY NetworkTyped, JobsTyped, TrafficTyped DEF ClaimsInv, FlowInv
  <2>2. counters[n.source] # NoAccount /\ n.txId <= counters[n.source]
    BY <1>7 DEF ClaimsInv, SentAfterAdmission
  <2>3. counters[n.source] \in Nat /\ counters[m.source] \in Nat
    BY <1>2, <1>3, <1>4, <2>1, <2>2, MessagesAssumption DEF TxIds
  <2>4. CASE n.source = m.source
    BY <1>2, <1>4, <1>5, <2>1, <2>2, <2>3, <2>4 DEF SameAddress, AddressOf
  <2>5. CASE n.source # m.source
    BY <1>2, <1>3, <1>4, <2>1, <2>2, <2>5 DEF SameAddress, AddressOf
  <2> QED
    BY <2>4, <2>5
<1>8. SentAfterAdmission'
  <2> SUFFICES ASSUME NEW u \in network, u[3] = "tx2"
               PROVE  /\ counters'[u[1].message.source] # NoAccount
                      /\ u[1].message.txId <= counters'[u[1].message.source]
                      /\ \A j \in Jobs : SameAddress(j.message, u[1].message) /\ Passed(j)' =>
                           stage[j] = "tx2" /\ u = <<j, runs[j], stage[j]>>
    BY <1>6 DEF SentAfterAdmission, Awaited, SameAddress
  <2>1. ASSUME NEW j \in Jobs, SameAddress(j.message, u[1].message), Passed(j)'
        PROVE  Passed(j)
    <3>1. j # t[1]
      BY <1>7, <2>1
    <3> QED
      BY <1>1, <2>1, <3>1
  <2> QED
    BY <1>7, <2>1 DEF ClaimsInv, SentAfterAdmission, Awaited
<1>9. ClaimKeepsPda'
  <2> SUFFICES ASSUME NEW j \in Jobs, Claims(j)'
               PROVE  txPdas'[AddressOf(j.message)] = j.message.txId
    BY DEF ClaimKeepsPda, HoldsPda
  <2>1. CASE j = t[1]
    BY <1>2, <1>3, <1>4, <2>1
  <2>2. CASE j # t[1]
    <3>1. answer'[j] = answer[j]
      BY <1>1, <2>2 DEF Deliver, ClaimsInv, FlowInv, FlowTypeOK
    <3>2. Claims(j)
      BY <1>6, <3>1 DEF Claims, Awaited
    <3>3. txPdas[AddressOf(j.message)] = j.message.txId
      BY <3>2 DEF ClaimsInv, ClaimKeepsPda, HoldsPda
    <3>4. j.message.txId # NoAccount /\ AddressOf(j.message) \in Addresses
      BY JobsTyped, TrafficTyped, MessagesAssumption
    <3>5. AddressOf(j.message) # AddressOf(m)
      BY <1>4, <3>3, <3>4
    <3> QED
      BY <1>3, <1>4, <3>3, <3>4, <3>5
  <2> QED
    BY <2>1, <2>2
<1> QED
  BY <1>8, <1>9

\* TX2 lands: the only script with a claim to its id waited for this very
\* transaction, which has left the network.
LEMMA LandTx2Claims ==
  ASSUME ClaimsInv, NEW t \in network, Deliver(t, "ok"), t[3] = "tx2",
         ProcessMessage(t[1].relayer, t[1].message, t[1].list, ProjectOf(t[1]))
  PROVE  SentAfterAdmission' /\ ClaimKeepsPda'
<1> DEFINE m == t[1].message
<1>1. t[1] \in Jobs /\ \A o \in Jobs : Passed(o)' => Passed(o)
  BY DeliverClaims DEF ClaimsInv, FlowInv
<1>2. network' = network \ {t} /\ stage' = stage /\ runs' = runs /\ counters' = counters
  BY DEF Deliver, ProcessMessage, CloseTxPda
<1>3. txPdas' = [txPdas EXCEPT ![AddressOf(m)] = NoAccount]
  BY DEF ProcessMessage, CloseTxPda
<1>4. txPdas \in [Addresses -> TxIds \cup {NoAccount}]
  BY DEF ClaimsInv, FlowInv, Inv, TypeOK, ReplayTypeOK
<1>5. SentAfterAdmission'
  <2> SUFFICES ASSUME NEW u \in network, u[3] = "tx2"
               PROVE  /\ counters[u[1].message.source] # NoAccount
                      /\ u[1].message.txId <= counters[u[1].message.source]
                      /\ \A j \in Jobs : SameAddress(j.message, u[1].message) /\ Passed(j)' =>
                           stage[j] = "tx2" /\ u = <<j, runs[j], stage[j]>>
    BY <1>2 DEF SentAfterAdmission, Awaited, SameAddress
  <2> QED
    BY <1>1 DEF ClaimsInv, SentAfterAdmission, Awaited
<1>6. ClaimKeepsPda'
  <2> SUFFICES ASSUME NEW j \in Jobs, Claims(j)'
               PROVE  txPdas'[AddressOf(j.message)] = j.message.txId
    BY DEF ClaimKeepsPda, HoldsPda
  <2>1. (stage[j] = "tx1" /\ answer'[j] = "ok")
        \/ (stage[j] = "tx2" /\ <<j, runs[j], stage[j]>> \in network \ {t})
    BY <1>2 DEF Claims, Awaited
  <2>2. stage[j] = "tx1" => answer'[j] = answer[j]
    <3>1. stage[j] = "tx1" => t # <<j, runs[j], stage[j]>>
      OBVIOUS
    <3> QED
      BY <1>1, <3>1 DEF Deliver, Awaited, ClaimsInv, FlowInv, FlowTypeOK
  <2>3. Claims(j) /\ Passed(j)
    BY <2>1, <2>2 DEF Claims, Passed, Awaited
  <2>4. txPdas[AddressOf(j.message)] = j.message.txId
    BY <2>3 DEF ClaimsInv, ClaimKeepsPda, HoldsPda
  <2>5. ~SameAddress(j.message, m)
    <3>1. SameAddress(j.message, m) => stage[j] = "tx2" /\ t = <<j, runs[j], stage[j]>>
      BY <2>3 DEF ClaimsInv, SentAfterAdmission, Awaited
    <3> QED
      BY <2>1, <3>1
  <2>6. AddressOf(j.message) \in Addresses /\ AddressOf(j.message) # AddressOf(m)
    BY <2>5, JobsTyped, TrafficTyped DEF SameAddress
  <2> QED
    BY <1>3, <1>4, <2>4, <2>6
<1> QED
  BY <1>5, <1>6

\* No step of the scripts or of the network takes a claim its PDA.
LEMMA ClaimsInductive ==
  ASSUME ClaimsInv, [FlowNext]_flowVars
  PROVE  ClaimsInv'
<1>1. FlowInv'
  BY FlowInductive DEF ClaimsInv
<1>2. FlowTypeOK
  BY DEF ClaimsInv, FlowInv
<1> USE <1>2
<1>3. ASSUME NEW j \in Jobs, Start(j) \/ Script(j) \/ Interrupt(j)
      PROVE  SentAfterAdmission' /\ ClaimKeepsPda'
  <2>1. CASE Continue(j)
    BY <2>1, ContinueSends
  <2>2. CASE Start(j) \/ Finish(j) \/ Refuse(j) \/ Expire(j) \/ Interrupt(j)
    <3>1. /\ UNCHANGED vars
          /\ \A o \in Jobs : Passed(o)' => Passed(o)
      BY <1>3, ScriptClaimsNothing
    <3>2. \A o \in Jobs \ {j} :
            stage'[o] = stage[o] /\ answer'[o] = answer[o] /\ runs'[o] = runs[o]
      BY <2>2 DEF Start, Finish, Refuse, Expire, Interrupt, End, Send, FlowTypeOK
    <3>3. answer'[j] = "none" /\ stage'[j] # "tx2"
      BY <2>2 DEF Start, Finish, Refuse, Expire, Interrupt, End, Send, FlowTypeOK
    <3>4. \A t \in network' : t[3] = "tx2" => t \in network
      BY <2>2 DEF Start, Finish, Refuse, Expire, Interrupt, End, Send
    <3>5. ASSUME NEW o \in Jobs, Claims(o)'
          PROVE  Claims(o)
      <4>1. o # j
        BY <3>3, <3>5 DEF Claims
      <4>2. stage'[o] = "tx2" /\ <<o, runs'[o], stage'[o]>> \in network' =>
              <<o, runs[o], stage[o]>> \in network
        BY <3>2, <3>4, <4>1
      <4> QED
        BY <3>2, <3>5, <4>1, <4>2 DEF Claims, Awaited
    <3>6. ASSUME NEW o \in Jobs, Passed(o)', stage[o] = "tx2", Awaited(o) \in network
          PROVE  stage'[o] = stage[o] /\ runs'[o] = runs[o]
      <4>1. CASE o = j
        <5>1. ~Finish(j)
          BY <3>6, <4>1 DEF Finish, FlowTypeOK
        <5>2. stage'[j] \notin {"tx2", "done"}
          BY <2>2, <5>1 DEF Start, Refuse, Expire, Interrupt, End, Send, FlowTypeOK
        <5> QED
          BY <3>3, <3>6, <4>1, <5>2 DEF Passed
      <4> QED
        BY <3>2, <4>1
    <3>7. UNCHANGED <<counters, txPdas>>
      BY <3>1 DEF vars
    <3> QED
      BY <3>1, <3>4, <3>5, <3>6, <3>7, NothingSent
  <2> QED
    BY <1>3, <2>1, <2>2 DEF Script
<1>4. ASSUME NEW t \in network, Land(t)
      PROVE  SentAfterAdmission' /\ ClaimKeepsPda'
  BY <1>4, LandTx1Claims, LandTx2Claims DEF Land, Execute
<1>5. ASSUME UNCHANGED <<counters, txPdas, stage, runs>>, network' \subseteq network,
             \A j \in Jobs : answer'[j] = "ok" => answer[j] = "ok"
      PROVE  SentAfterAdmission' /\ ClaimKeepsPda'
  <2>1. \A j \in Jobs : (Claims(j)' => Claims(j)) /\ (Passed(j)' => Passed(j))
    BY <1>5 DEF Claims, Passed, Awaited
  <2> QED
    BY <1>5, <2>1, NothingSent
<1>6. ASSUME NEW t \in network, Fail(t)
      PROVE  SentAfterAdmission' /\ ClaimKeepsPda'
  <2>1. \A j \in Jobs : answer'[j] = "ok" => answer[j] = "ok"
    BY <1>6, NetworkTyped DEF Fail, Deliver, FlowTypeOK
  <2> QED
    BY <1>5, <1>6, <2>1 DEF Fail, Deliver, vars
<1>7. ASSUME NEW t \in network, Drop(t)
      PROVE  SentAfterAdmission' /\ ClaimKeepsPda'
  BY <1>5, <1>7 DEF Drop, vars
<1>8. ASSUME NEW c \in Destinations, NEW enabled \in BOOLEAN, Switch(c, enabled)
      PROVE  SentAfterAdmission' /\ ClaimKeepsPda'
  BY <1>5, <1>8 DEF Switch, scriptVars, replayVars
<1>9. CASE UNCHANGED flowVars
  BY <1>1, <1>5, <1>9 DEF flowVars, vars, ClaimsInv
<1> QED
  BY <1>1, <1>3, <1>4, <1>6, <1>7, <1>8, <1>9 DEF FlowNext, Network, ClaimsInv

\* A script that was told of its TX1, or whose TX2 is on its way, has the PDA of
\* its id to itself, whatever other scripts and transactions of dead ones do.
THEOREM ClaimsKeepTheirPda == FlowSpec => []ClaimKeepsPda
<1>1. FlowInit => ClaimsInv
  <2> SUFFICES ASSUME FlowInit PROVE SentAfterAdmission /\ ClaimKeepsPda
    BY FlowInitially DEF ClaimsInv
  <2> QED
    BY DEF FlowInit, SentAfterAdmission, ClaimKeepsPda, Claims
<1>2. ClaimsInv => ClaimKeepsPda
  BY DEF ClaimsInv
<1> QED
  BY <1>1, <1>2, ClaimsInductive, PTL DEF FlowSpec

\* Over a network that drops and delays, and with scripts that die and are
\* restarted, the flow still implements AtMostOnceDelivery.
THEOREM FlowDelivers == FlowSpec => ImplementsDelivery
<1>1. FlowInit => Inv /\ PendingIsTraffic /\ Delivery!Init
  <2> SUFFICES ASSUME FlowInit PROVE PendingIsTraffic /\ Delivery!Init
    BY FlowInitially DEF FlowInv
  <2>1. pendingIds = {} /\ processedIds = {}
    BY DEF FlowInit, pendingIds, processedIds
  <2> QED
    BY <2>1 DEF PendingIsTraffic, Delivery!Init
<1>2. FlowInv /\ [FlowNext]_flowVars => [Next]_vars
  BY FlowStepsAreCalls DEF FlowInv
<1>3. FlowInv => Inv
  BY DEF FlowInv
<1> QED
  BY <1>1, <1>2, <1>3, FlowInvariance, PendingIsTrafficInductive, StepsDeliver, PTL
     DEF FlowSpec, ImplementsDelivery, Delivery!Spec
=============================================================================
