---------------------- MODULE ThreeLayerValidationProofs ----------------------
(***************************************************************************)
(* What an accepted vector of signatures shows, for every registry and     *)
(* every limit on the number of signatures.                                *)
(***************************************************************************)
EXTENDS ThreeLayerValidation, SequenceTheorems, FiniteSetTheorems, TLAPS

\* A vector has as many positions as its length says.
LEMMA PositionsFinite ==
  ASSUME NEW S, NEW s \in Seq(S)
  PROVE  IsFiniteSet(1 .. Len(s)) /\ Cardinality(1 .. Len(s)) = Len(s) /\ Len(s) \in Nat
<1>1. Len(s) \in Nat
  OBVIOUS
<1> QED
  BY <1>1, FS_Interval

\* The entries of a vector form a finite set, no larger than the vector.
LEMMA EntriesFinite ==
  ASSUME NEW S, NEW s \in Seq(S)
  PROVE  IsFiniteSet(ToSet(s))
<1>1. [i \in 1 .. Len(s) |-> s[i]] \in Surjection(1 .. Len(s), ToSet(s))
  BY DEF ToSet, Surjection
<1> QED
  BY <1>1, PositionsFinite, FS_Surjection

\* An accepted vector proves a quorum in every layer: as many different members
\* of the registry as it requires have a valid entry, although the code counts
\* entries of a vector and the registry may repeat a key.
THEOREM AcceptedMeansQuorum ==
  ASSUME NEW S, NEW list \in Seq(S), NEW valid, NEW layers, NEW registry \in layers,
         registry.signers \in Seq(S), registry.required \in Nat,
         ValidateThreeLayerSignatures(list, valid, layers)
  PROVE  /\ registry.enabled
         /\ Cardinality(ToSet(registry.signers) \cap valid) >= registry.required
<1> DEFINE tally    == Tally(list, registry)
           endorsed == ToSet(registry.signers) \cap valid
           signer   == [i \in tally |-> list[i]]
<1>1. /\ registry.enabled
      /\ IsInjective(list)
      /\ \A i \in DOMAIN list : list[i] \in valid
      /\ Cardinality(tally) >= registry.required
  BY DEF ValidateThreeLayerSignatures, SignersDiffer, MeetsThreshold
<1>2. tally \subseteq 1 .. Len(list) /\ \A i \in tally : list[i] \in ToSet(registry.signers)
  BY DEF Tally, IsSigner, Contains, ToSet
<1>3. signer \in Injection(tally, endorsed)
  BY <1>1, <1>2 DEF Injection, IsInjective
<1>4. IsFiniteSet(endorsed)
  BY EntriesFinite, FS_Intersection
<1>5. IsFiniteSet(tally)
  BY <1>3, <1>4, FS_Injection
<1>6. Cardinality(tally) <= Cardinality(endorsed)
  BY <1>3, <1>4, FS_Injection
<1>7. Cardinality(tally) \in Nat /\ Cardinality(endorsed) \in Nat
  BY <1>4, <1>5, FS_CardinalityType
<1> QED
  BY <1>1, <1>6, <1>7

\* A registry whose threshold exceeds MAX_SIGNATURES_PER_MESSAGE accepts no
\* vector at all: the limit on the message caps every attainable threshold.
THEOREM ThresholdCappedByMessage ==
  ASSUME NEW S, NEW list \in Seq(S), NEW valid, NEW layers, NEW registry \in layers,
         registry.required \in Nat,
         ValidateThreeLayerSignatures(list, valid, layers)
  PROVE  registry.required <= MaxSignatures
<1> DEFINE tally == Tally(list, registry)
<1>1. /\ Len(list) <= MaxSignatures
      /\ Cardinality(tally) >= registry.required
  BY DEF ValidateThreeLayerSignatures, MeetsThreshold
<1>2. tally \in SUBSET (1 .. Len(list))
  BY DEF Tally
<1>3. IsFiniteSet(1 .. Len(list)) /\ Cardinality(1 .. Len(list)) = Len(list) /\ Len(list) \in Nat
  BY PositionsFinite
<1>4. IsFiniteSet(tally) /\ Cardinality(tally) <= Len(list)
  BY <1>2, <1>3, FS_Subset
<1>5. Cardinality(tally) \in Nat
  BY <1>4, FS_CardinalityType
<1> QED
  BY <1>1, <1>3, <1>4, <1>5, SignatureLimitsAssumption

\* An accepted vector has valid entries of MIN_SIGNATURES_REQUIRED different keys
\* at least, however few members the registries have and ask for.
THEOREM AcceptedMeansSeveralKeys ==
  ASSUME NEW S, NEW list \in Seq(S), NEW valid, IsFiniteSet(valid), NEW layers,
         ValidateThreeLayerSignatures(list, valid, layers)
  PROVE  Cardinality(valid) >= MinSignatures
<1> DEFINE positions == 1 .. Len(list)
           signer    == [i \in positions |-> list[i]]
<1>1. /\ Len(list) >= MinSignatures
      /\ IsInjective(list)
      /\ \A i \in positions : list[i] \in valid
  BY DEF ValidateThreeLayerSignatures, SignersDiffer
<1>2. signer \in Injection(positions, valid)
  BY <1>1 DEF Injection, IsInjective
<1>3. Cardinality(positions) = Len(list) /\ Len(list) \in Nat
  BY PositionsFinite
<1>4. Cardinality(positions) <= Cardinality(valid)
  BY <1>2, FS_Injection
<1>5. Cardinality(valid) \in Nat
  BY FS_CardinalityType
<1> HIDE DEF positions, signer
<1> QED
  BY <1>1, <1>3, <1>4, <1>5, SignatureLimitsAssumption
=============================================================================
