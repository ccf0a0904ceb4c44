--------------------------- MODULE MCMessageGateway ---------------------------
(***************************************************************************)
(* Bounds for MessageGateway.  Chain 2 plays Avalanche and chain 1 Solana; *)
(* chain 0 is the value the tests of initialize_counter refuse.            *)
(***************************************************************************)
EXTENDS MessageGateway

Message(source, dest, txId, payload) ==
  [source |-> source, dest |-> dest, txId |-> txId, payload |-> payload]

CONSTANTS p, q, big, s1, s2, s3

MCPayloads == {p, q, big}
MCAcceptable == {p, q}

-----------------------------------------------------------------------------
\* "replay": two source chains, ids 0 to 2, two messages that share an id and
\* differ in payload and destination; fixed registries.
ReplayChainIds == {0, 1, 2}
ReplayRegistryKeys == {<<"via", 1>>, <<"chain", 2>>, <<"via", 2>>}
ReplayTraffic ==
  { Message(2, 1, 0, p), Message(2, 1, 1, p), Message(2, 2, 1, q),
    Message(2, 1, 2, p), Message(2, 1, 2, big), Message(1, 1, 1, p), Message(0, 1, 1, p) }
ReplaySignerLists == {<<s1, s2>>}
ReplayThresholds == {2}
ReplayEvidence == {s1, s2} \X ReplayTraffic
ReplaySignatureLists == {<<s1, s2>>}
None == {}

\* "quorum": one route, a message that every validator signed and a second one
\* with the same id that only s1 signed; registries change freely, and may require
\* three signatures while a message carries two.
QuorumChainIds == {1, 2}
QuorumRegistryKeys == {<<"via", 1>>, <<"chain", 2>>}
QuorumTraffic == {Message(2, 1, 1, p), Message(2, 1, 1, q)}
QuorumSignerLists == {<<s1, s1>>, <<s1, s2, s3>>}
QuorumThresholds == 0 .. 3
QuorumEvidence ==
  ({s1, s2, s3} \X {Message(2, 1, 1, p)}) \cup ({s1} \X {Message(2, 1, 1, q)})
QuorumSignatureLists ==
  {<<>>, <<s1>>, <<s1, s1>>, <<s1, s2>>, <<s2, s3>>, <<s1, s2, s3>>}

RelayerSymmetry == Permutations(Relayers)
=============================================================================
