------------------------- MODULE ThreeLayerValidation -------------------------
(***************************************************************************)
(* Signature validation, utils/signature.rs: the light check of TX1 and    *)
(* the three-layer check of TX2.                                           *)
(*                                                                         *)
(* A transaction carries a vector of signatures; only the signer of each   *)
(* matters here, so the vector is a sequence of signers.  An entry is      *)
(* found valid when the transaction also holds an Ed25519 instruction with *)
(* this signature, this signer and this message hash at the offsets that   *)
(* parse_ed25519_instruction reads: the set "valid" holds those signers.   *)
(* Which signers these can be, and what the Ed25519 program has checked of *)
(* them, is the subject of SignatureEvidence; nothing is assumed here.     *)
(***************************************************************************)
EXTENDS SequencesExt, FiniteSets, Integers

CONSTANTS
  MaxSignatures,  \* MAX_SIGNATURES_PER_MESSAGE, 8 in the code
  MinSignatures   \* MIN_SIGNATURES_REQUIRED, 2 in the code

ASSUME SignatureLimitsAssumption ==
  /\ MinSignatures \in Nat
  /\ MaxSignatures \in Nat

\* validate_signatures_tx1: one valid entry, of any signer at all, is enough.
ValidateSignaturesTx1(list, valid) ==
  /\ Len(list) \in 1 .. MaxSignatures
  /\ \E i \in DOMAIN list : list[i] \in valid

\* SignerRegistry::is_signer
IsSigner(registry, s) == registry.enabled /\ Contains(registry.signers, s)

\* The positions whose signer is a member of the registry: ValidationResult's
\* counter of that layer after the loop.
Tally(list, registry) == {i \in DOMAIN list : IsSigner(registry, list[i])}

\* validate_signature_thresholds for one layer
MeetsThreshold(list, registry) == Cardinality(Tally(list, registry)) >= registry.required

\* Faulty variant, for mutation: a key may sign twice.
ReuseAllowed(list) == TRUE

\* used_signers: no key may sign twice.
SignersDiffer(list) == IsInjective(list)

\* Faulty variant, for mutation: without the upper bound on the vector.
ValidateVectorsOfAnyLength(list, valid, layers) ==
  /\ Len(list) >= MinSignatures
  /\ \A registry \in layers : registry.enabled
  /\ SignersDiffer(list)
  /\ \A i \in DOMAIN list : list[i] \in valid
  /\ \A i \in DOMAIN list : \E registry \in layers : IsSigner(registry, list[i])
  /\ \A registry \in layers : MeetsThreshold(list, registry)

\* "layers" holds the registries the transaction passes: Via, Chain and, when
\* the relayer passes one, a Project registry.
ValidateThreeLayerSignatures(list, valid, layers) ==
  /\ Len(list) \in 1 .. MaxSignatures
  /\ Len(list) >= MinSignatures
  /\ \A registry \in layers : registry.enabled
  /\ SignersDiffer(list)
  /\ \A i \in DOMAIN list : list[i] \in valid
  /\ \A i \in DOMAIN list : \E registry \in layers : IsSigner(registry, list[i])
  /\ \A registry \in layers : MeetsThreshold(list, registry)
=============================================================================
