----------------------- MODULE MCRegistryAdministration -----------------------
(***************************************************************************)
(* Bounds for RegistryAdministration: two authorities, two gateways, a Via *)
(* and a Chain registry, vectors of at most three keys.                    *)
(***************************************************************************)
EXTENDS RegistryAdministration

MCChainIds == {1, 2}
MCRegistryKeys == {<<"via", 1>>, <<"chain", 2>>}
MCThresholds == 0 .. 3
MCSendRequests == {}

\* Lists of at most two keys, one key twice among them; add_signer makes the
\* vectors of three.
ShortLists == BoundedSeq(Signers, 2)

\* Lists that may repeat a key, as update_signers and the initialisation allow.
AnyLists == BoundedSeq(Signers, 3)

SignerSymmetry == Permutations(Signers)
=============================================================================
