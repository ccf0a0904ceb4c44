------------------------------ MODULE MCSetupFlow ------------------------------
(***************************************************************************)
(* Bounds for SetupFlow: two operators, two chains of which one is chain   *)
(* 0, and two kills.                                                       *)
(***************************************************************************)
EXTENDS SetupFlow

CONSTANTS a1, a2, s1, s2

SetupChainIds == {0, 2}
SetupRegistryKeys == RegistryTypes \X SetupChainIds
SetupKeyOf(o) == IF o = a1 THEN s1 ELSE s2
None == {}
SetupLists == {<<s1>>, <<s2>>}
SetupVectors == BoundedSeq({s1, s2}, 3)
=============================================================================
