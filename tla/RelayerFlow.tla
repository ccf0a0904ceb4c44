------------------------------ MODULE RelayerFlow ------------------------------
(***************************************************************************)
(* The SDK's two-transaction flow over the program: relayers run a script  *)
(* that sends TX1, waits for its confirmation, sends TX2 with the same     *)
(* message and signatures and waits again; any error ends the run.         *)
(* Between the script and the program there is a network that delays and   *)
(* drops transactions; a run may be killed or time out while a transaction *)
(* of it is still on its way, and may be started again.                    *)
(* The system was set up before; only the gateways are switched meanwhile. *)
(***************************************************************************)
EXTENDS MessageGateway

CONSTANTS
  Jobs,                \* what the scripts are called with:
                       \* [relayer, message, list, attached]
  MaxRuns,             \* how often scripts are started, all together
  DeployedRegistries,  \* the registries the authorities set up
  Operator             \* the authority of all gateways

ASSUME JobsAssumption ==
  Jobs \subseteq [relayer : Relayers, message : Traffic, list : SignatureLists,
                  attached : BOOLEAN]

\* What setup leaves behind is what the program accepted.
ASSUME DeploymentAssumption ==
  /\ Operator \in Authorities
  /\ DeployedRegistries \in [RegistryKeys -> RegistryAccount \cup {NoAccount}]
  /\ \A k \in RegistryKeys : DeployedRegistries[k] # NoAccount =>
       /\ DeployedRegistries[k].authority = Operator
       /\ ValidConfiguration(DeployedRegistries[k].signers, DeployedRegistries[k].required)

VARIABLES
  stage,    \* where the script of a job is
  runs,     \* how often it was started
  network,  \* transactions on their way: <<job, run, "tx1" or "tx2">>
  answer    \* what the script will hear of the transaction it waits for

flowVars == <<vars, stage, runs, network, answer>>
scriptVars == <<stage, runs, network, answer>>

Waiting == {"tx1", "tx2"}
Stages == Waiting \cup {"idle", "done", "refused", "lost"}

\* The transaction a script waits for.
Awaited(j) == <<j, runs[j], stage[j]>>

\* An answer is one to the transaction that the script waits for, never left over
\* from the one before.
FlowTypeOK ==
  /\ TypeOK
  /\ stage \in [Jobs -> Stages]
  /\ runs \in [Jobs -> Nat]
  /\ network \subseteq Jobs \X Nat \X Waiting
  /\ answer \in [Jobs -> {"none", "ok", "error"}]
  /\ \A j \in Jobs : answer[j] # "none" => stage[j] \in Waiting /\ Awaited(j) \notin network

FlowInit ==
  /\ gateways = [c \in ChainIds |-> [authority |-> Operator, enabled |-> TRUE]]
  /\ sent = {}
  /\ registries = DeployedRegistries
  /\ counters = [c \in ChainIds |-> IF c > 0 THEN 0 ELSE NoAccount]
  /\ txPdas = [a \in Addresses |-> NoAccount]
  /\ rent = [r \in Relayers |-> 0]
  /\ processed = [m \in Traffic |-> 0]
  /\ stage = [j \in Jobs |-> "idle"]
  /\ runs = [j \in Jobs |-> 0]
  /\ network = {}
  /\ answer = [j \in Jobs |-> "none"]

-----------------------------------------------------------------------------
\* Faulty variant, for mutation: the answer to TX1 is taken for one to TX2.
SendKeepingAnswer(j, run, kind) ==
  /\ stage' = [stage EXCEPT ![j] = kind]
  /\ network' = network \cup {<<j, run, kind>>}
  /\ UNCHANGED answer

\* The script sends a transaction and waits for its confirmation.
Send(j, run, kind) ==
  /\ stage' = [stage EXCEPT ![j] = kind]
  /\ network' = network \cup {<<j, run, kind>>}
  /\ answer' = [answer EXCEPT ![j] = "none"]

Start(j) ==
  /\ stage[j] \notin Waiting
  /\ SumFunction(runs) < MaxRuns
  /\ runs' = [runs EXCEPT ![j] = @ + 1]
  /\ Send(j, runs[j] + 1, "tx1")
  /\ UNCHANGED vars

\* A run ends: its promise resolves or rejects.
End(j, how) ==
  /\ stage' = [stage EXCEPT ![j] = how]
  /\ answer' = [answer EXCEPT ![j] = "none"]
  /\ UNCHANGED <<vars, runs, network>>

\* Faulty variant, for mutation: going on whatever TX1 answered.
ContinueRegardless(j) ==
  /\ stage[j] = "tx1"
  /\ answer[j] # "none"
  /\ Send(j, runs[j], "tx2")
  /\ UNCHANGED <<vars, runs>>

\* TX1 is confirmed; on to TX2.
Continue(j) ==
  /\ stage[j] = "tx1"
  /\ answer[j] = "ok"
  /\ Send(j, runs[j], "tx2")
  /\ UNCHANGED <<vars, runs>>

\* Faulty variant, for mutation: success once TX2 is sent.
FinishUnconfirmed(j) == stage[j] = "tx2" /\ End(j, "done")

Finish(j) ==
  /\ stage[j] = "tx2"
  /\ answer[j] = "ok"
  /\ End(j, "done")

\* The transaction failed: rpc() throws, and the script does not catch it.
Refuse(j) ==
  /\ stage[j] \in Waiting
  /\ answer[j] = "error"
  /\ End(j, "refused")

\* The blockhash of a dropped transaction expires, and waiting for it throws.
Expire(j) ==
  /\ stage[j] \in Waiting
  /\ answer[j] = "none"
  /\ Awaited(j) \notin network
  /\ End(j, "lost")

\* The process is killed, or gives up although its transaction is on its way
\* or has landed.
Interrupt(j) == stage[j] \in Waiting /\ End(j, "lost")

-----------------------------------------------------------------------------
\* Faulty variant, for mutation: the project registry of the source chain.
ProjectOfSource(j) == {<<"project", j.message.source>>}

\* The SDK always passes the project registry of the destination.
ProjectOf(j) == {<<"project", j.message.dest>>}

\* The plain methods of the SDK attach no Ed25519 instruction; then no
\* signature verifies and both validations fail.
Accepted(t) ==
  LET j == t[1]
  IN  /\ j.attached
      /\ CASE t[3] = "tx1" -> Admissible(j.message, j.list)
           [] t[3] = "tx2" -> Processable(j.message, j.list, ProjectOf(j))

Execute(t) ==
  LET j == t[1]
  IN  \/ /\ t[3] = "tx1"
         /\ CreateTxPda(j.relayer, j.message, j.list)
         /\ UNCHANGED <<gatewayVars, registries, processed>>
      \/ /\ t[3] = "tx2"
         /\ ProcessMessage(j.relayer, j.message, j.list, ProjectOf(j))

\* The transaction leaves the network; the script hears of it if it still waits.
Deliver(t, result) ==
  /\ t \in network
  /\ network' = network \ {t}
  /\ answer' = IF t = Awaited(t[1]) THEN [answer EXCEPT ![t[1]] = result] ELSE answer
  /\ UNCHANGED <<stage, runs>>

Land(t) == Accepted(t) /\ Execute(t) /\ Deliver(t, "ok")

Fail(t) == ~Accepted(t) /\ Deliver(t, "error") /\ UNCHANGED vars

Drop(t) ==
  /\ t \in network
  /\ network' = network \ {t}
  /\ UNCHANGED <<vars, stage, runs, answer>>

Switch(c, enabled) ==
  /\ SetSystemEnabled(c, Operator, enabled)
  /\ UNCHANGED <<registries, replayVars, processed, scriptVars>>

\* The gateways that matter: those of the destinations.
Destinations == {j.message.dest : j \in Jobs}

Script(j) == Continue(j) \/ Finish(j) \/ Refuse(j) \/ Expire(j)

Network(t) == Land(t) \/ Fail(t) \/ Drop(t)

FlowNext ==
  \/ \E j \in Jobs : Start(j) \/ Script(j) \/ Interrupt(j)
  \/ \E t \in network : Network(t)
  \/ \E c \in Destinations, enabled \in BOOLEAN : Switch(c, enabled)

\* A script that waits is resumed once there is something to hear, and a
\* network that carries something does not stand still: a transaction lands, fails
\* or expires with its blockhash.  Nobody has to start a script or to keep it alive.
Fairness ==
  /\ \A j \in Jobs : WF_flowVars(Script(j))
  /\ WF_flowVars(\E t \in network : Network(t))

FlowSpec == FlowInit /\ [][FlowNext]_flowVars /\ Fairness

-----------------------------------------------------------------------------
\* The scripts that are past TX1 for an id.
Claimants(m) == {j \in Jobs : SameAddress(j.message, m) /\ stage[j] \in {"tx2", "done"}}

\* TX1 elects: of all relayers and all scripts that carry one id, at most one at
\* a time is past TX1, and none is any more once another finished with it.
OneClaimant == \A m \in Traffic : \A j1, j2 \in Claimants(m) : j1 = j2

\* When a script reports success, its own message was processed, once, and no
\* other message of its id.
DoneMeansProcessed ==
  \A j \in Jobs : stage[j] = "done" =>
    /\ processed[j.message] = 1
    /\ \A m \in Traffic : SameAddress(m, j.message) /\ m # j.message => processed[m] = 0

\* A script that was told of its TX1, or whose TX2 is on its way, finds the PDA of
\* its id there: no transaction of another run or of a dead one takes it away
\* (two-transaction-flow.ts:40-43).
Claims(j) == (stage[j] = "tx1" /\ answer[j] = "ok") \/ (stage[j] = "tx2" /\ Awaited(j) \in network)

ClaimKeepsPda == \A j \in Jobs : Claims(j) => HoldsPda(j.message)

\* A PDA that nobody is about to close: the run that created it ended, and its
\* TX2 is not on its way.
Abandoned(m) ==
  /\ Pending(m)
  /\ \A t \in network : SameAddress(t[1].message, m) => t[3] # "tx2"
  /\ \A j \in Jobs : SameAddress(j.message, m) =>
       stage[j] # "tx2" /\ ~(stage[j] = "tx1" /\ answer[j] = "ok")

\* Running the scripts again, by whomever, never picks up an abandoned id:
\* every later run is refused at TX1, because the PDA exists.
AbandonedForEver == [][\A m \in Traffic : Abandoned(m) => Abandoned(m)']_flowVars

\* Once a run was told that its TX1 succeeded, its message is processed, unless the
\* run is killed or loses TX2, or the gateway is switched off meanwhile.
ClaimLeadsToDelivery ==
  \A j \in Jobs : Claims(j) ~>
    processed[j.message] = 1 \/ stage[j] = "lost" \/ ~IsEnabled(j.message.dest)

\* "Demonstrates the complete cross-chain message flow" (two-transaction-flow.ts:4):
\* a run completes unless it is killed or loses a transaction.
FlowCompletes == \A j \in Jobs : stage[j] = "tx1" ~> stage[j] \in {"done", "lost"}
=============================================================================
