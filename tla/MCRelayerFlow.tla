----------------------------- MODULE MCRelayerFlow -----------------------------
(***************************************************************************)
(* Bounds for RelayerFlow: two relayers compete for id 1 of chain 2, and a *)
(* third script carries id 2.                                              *)
(***************************************************************************)
EXTENDS RelayerFlow

CONSTANTS p, a1, r1, r2, s1, s2

FlowChainIds == {1, 2}
FlowRegistryKeys == {<<"via", 1>>, <<"chain", 2>>, <<"project", 1>>}
FlowRegistries ==
  [k \in FlowRegistryKeys |->
     [authority |-> a1, signers |-> <<s1, s2>>, required |-> 2, enabled |-> TRUE]]

Message(txId) == [source |-> 2, dest |-> 1, txId |-> txId, payload |-> p]

FlowTraffic == {Message(1), Message(2)}
FlowEvidence == {s1, s2} \X FlowTraffic
FlowLists == {<<s1, s2>>}
FlowSendRequests == {}

Job(relayer, txId, attached) ==
  [relayer |-> relayer, message |-> Message(txId), list |-> <<s1, s2>>, attached |-> attached]

SignedJobs == {Job(r1, 1, TRUE), Job(r2, 1, TRUE), Job(r2, 2, TRUE)}

\* What two-transaction-flow.ts does: the plain methods of the SDK.
PlainJobs == {Job(r1, 1, FALSE), Job(r2, 2, FALSE)}
=============================================================================
