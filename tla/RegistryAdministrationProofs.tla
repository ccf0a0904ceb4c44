--------------------- MODULE RegistryAdministrationProofs ---------------------
(***************************************************************************)
(* Lemmas about the instructions of Gateways and SignerRegistries: what    *)
(* each of their steps preserves.  The specifications that compose these   *)
(* instructions cite them.  Then the theorems about RegistryAdministration *)
(* that rest on them.  All are for any number of authorities, chains,      *)
(* registries and signers.                                                 *)
(***************************************************************************)
EXTENDS RegistryAdministration, SequenceTheorems, FiniteSetTheorems, TLAPS

-----------------------------------------------------------------------------
(* Gateways *)

\* The gateway instructions keep every gateway account a record of its type.
LEMMA GatewaysTypePreserved ==
  ASSUME GatewaysTypeOK, GatewaysNext
  PROVE  GatewaysTypeOK'
<1> USE DEF GatewaysTypeOK, GatewayAccount
<1>1. ASSUME NEW c \in ChainIds, NEW a \in Authorities, InitializeGateway(c, a)
      PROVE  GatewaysTypeOK'
  BY <1>1 DEF InitializeGateway
<1>2. ASSUME NEW c \in ChainIds, NEW a \in Authorities, NEW enabled \in BOOLEAN,
             SetSystemEnabled(c, a, enabled)
      PROVE  GatewaysTypeOK'
  BY <1>2 DEF SetSystemEnabled, Administers
<1>3. ASSUME NEW c \in ChainIds, NEW request \in SendRequests, SendMessage(c, request)
      PROVE  GatewaysTypeOK'
  BY <1>3 DEF SendMessage
<1> QED
  BY <1>1, <1>2, <1>3 DEF GatewaysNext

\* The authority of a gateway stays one: gateways are never closed and never
\* change hands.
LEMMA GatewaysKeepAuthorities ==
  ASSUME GatewaysTypeOK, GatewaysNext
  PROVE  \A a : IsGatewayAuthority(a) => IsGatewayAuthority(a)'
<1> SUFFICES ASSUME NEW a, IsGatewayAuthority(a)
             PROVE  IsGatewayAuthority(a)'
  OBVIOUS
<1> USE NoGatewayAssumption
    DEF GatewaysTypeOK, GatewayAccount, IsGatewayAuthority, Administers
<1>1. ASSUME NEW c \in ChainIds, NEW b \in Authorities, InitializeGateway(c, b)
      PROVE  IsGatewayAuthority(a)'
  BY <1>1 DEF InitializeGateway, IsFree
<1>2. ASSUME NEW c \in ChainIds, NEW b \in Authorities, NEW enabled \in BOOLEAN,
             SetSystemEnabled(c, b, enabled)
      PROVE  IsGatewayAuthority(a)'
  BY <1>2 DEF SetSystemEnabled
<1>3. ASSUME NEW c \in ChainIds, NEW request \in SendRequests, SendMessage(c, request)
      PROVE  IsGatewayAuthority(a)'
  BY <1>3 DEF SendMessage
<1> QED
  BY <1>1, <1>2, <1>3 DEF GatewaysNext

-----------------------------------------------------------------------------
(* Signer vectors *)

\* Removing one position shortens the vector by one; each remaining entry is
\* an entry of the old vector, at the same position or one later.
LEMMA RemoveAtProperties ==
  ASSUME NEW S, NEW s \in Seq(S), NEW i \in 1 .. Len(s)
  PROVE  /\ RemoveAt(s, i) \in Seq(S)
         /\ Len(RemoveAt(s, i)) = Len(s) - 1
         /\ \A j \in 1 .. Len(s) - 1 :
              RemoveAt(s, i)[j] = IF j < i THEN s[j] ELSE s[j + 1]
<1> DEFINE front == SubSeq(s, 1, i - 1)
           back  == SubSeq(s, i + 1, Len(s))
<1>1. /\ front \in Seq(S)
      /\ Len(front) = i - 1
      /\ \A j \in 1 .. i - 1 : front[j] = s[j]
  BY SubSeqProperties
<1>2. /\ back \in Seq(S)
      /\ Len(back) = Len(s) - i
      /\ \A j \in 1 .. Len(s) - i : back[j] = s[i + j]
  BY SubSeqProperties
<1>3. RemoveAt(s, i) = front \o back
  BY DEF RemoveAt
<1> HIDE DEF front, back
<1>4. /\ front \o back \in Seq(S)
      /\ Len(front \o back) = Len(front) + Len(back)
      /\ \A j \in 1 .. Len(front) + Len(back) :
           (front \o back)[j] = IF j <= Len(front) THEN front[j] ELSE back[j - Len(front)]
  BY <1>1, <1>2, ConcatProperties
<1> QED
  BY <1>1, <1>2, <1>3, <1>4

\* The keys of a vector can be counted.
LEMMA KeysCounted ==
  ASSUME NEW S, NEW s \in Seq(S)
  PROVE  IsFiniteSet(ToSet(s)) /\ Cardinality(ToSet(s)) \in Nat
<1>1. Len(s) \in Nat /\ DOMAIN s = 1 .. Len(s)
  OBVIOUS
<1>2. s \in Surjection(1 .. Len(s), ToSet(s))
  BY <1>1 DEF ToSet, Surjection
<1>3. IsFiniteSet(ToSet(s))
  BY <1>1, <1>2, FS_Interval, FS_Surjection
<1> QED
  BY <1>3, FS_CardinalityType

\* A key that is not in the vector adds no repetition.
LEMMA AppendRepeatsNothing ==
  ASSUME NEW S, NEW s \in Seq(S), NEW x \in S, ~Contains(s, x)
  PROVE  Repetitions(Append(s, x)) <= Repetitions(s)
<1> DEFINE more == Append(s, x)
<1>1. /\ Len(s) \in Nat
      /\ Len(more) = Len(s) + 1
      /\ DOMAIN s = 1 .. Len(s)
      /\ DOMAIN more = 1 .. Len(s) + 1
      /\ \A j \in 1 .. Len(s) : more[j] = s[j]
      /\ more[Len(s) + 1] = x
  OBVIOUS
<1> HIDE DEF more
<1>2. ToSet(more) = ToSet(s) \cup {x}
  BY <1>1 DEF ToSet
<1>3. x \notin ToSet(s)
  BY <1>1 DEF ToSet, Contains
<1>4. Cardinality(ToSet(more)) = Cardinality(ToSet(s)) + 1
  BY <1>2, <1>3, KeysCounted, FS_AddElement
<1>5. Repetitions(more) <= Repetitions(s)
  BY <1>1, <1>4, KeysCounted DEF Repetitions
<1> QED
  BY <1>5 DEF more

\* Removing a position adds no repetition.
LEMMA RemoveAtRepeatsNothing ==
  ASSUME NEW S, NEW s \in Seq(S), NEW i \in 1 .. Len(s)
  PROVE  Repetitions(RemoveAt(s, i)) <= Repetitions(s)
<1> DEFINE left == RemoveAt(s, i)
           rest == ToSet(s) \ {s[i]}
<1>1. /\ left \in Seq(S)
      /\ Len(left) = Len(s) - 1
      /\ \A j \in 1 .. Len(s) - 1 : left[j] = IF j < i THEN s[j] ELSE s[j + 1]
  BY RemoveAtProperties
<1> HIDE DEF left
<1>2. /\ Len(s) \in Nat
      /\ DOMAIN s = 1 .. Len(s)
      /\ DOMAIN left = 1 .. Len(s) - 1
  BY <1>1
<1>3. rest \subseteq ToSet(left)
  <2> SUFFICES ASSUME NEW j \in 1 .. Len(s), s[j] # s[i]
               PROVE  \E l \in 1 .. Len(s) - 1 : left[l] = s[j]
    BY <1>2 DEF ToSet
  <2>1. CASE j < i
    BY <1>1, <1>2, <2>1
  <2>2. CASE j > i
    <3>1. j - 1 \in 1 .. Len(s) - 1 /\ ~(j - 1 < i) /\ (j - 1) + 1 = j
      BY <1>2, <2>2
    <3> QED
      BY <1>1, <3>1
  <2> QED
    BY <2>1, <2>2
<1>4. /\ IsFiniteSet(ToSet(s)) /\ Cardinality(ToSet(s)) \in Nat
      /\ IsFiniteSet(ToSet(left)) /\ Cardinality(ToSet(left)) \in Nat
  BY <1>1, KeysCounted
<1>5. Cardinality(rest) = Cardinality(ToSet(s)) - 1
  <2>1. s[i] \in ToSet(s)
    BY <1>2 DEF ToSet
  <2> QED
    BY <1>4, <2>1, FS_RemoveElement
<1>6. Cardinality(rest) <= Cardinality(ToSet(left))
  BY <1>3, <1>4, FS_Subset
<1>7. Repetitions(left) <= Repetitions(s)
  BY <1>1, <1>2, <1>4, <1>5, <1>6 DEF Repetitions
<1> QED
  BY <1>7 DEF left

-----------------------------------------------------------------------------
(* Registries *)

\* What a step of the registry instructions leaves at the one address it
\* writes: a well-formed account whose owner is the old one, or the gateway
\* authority that creates it, and whose threshold fits its vector.
WrittenAccount(k, account) ==
  /\ account \in RegistryAccount
  /\ RegistryExists(k) => account.authority = registries[k].authority
  /\ ~RegistryExists(k) => IsGatewayAuthority(account.authority)
  /\ ValidConfiguration(account.signers, account.required)

\* What the step writes repeats no more keys than the old vector, or the caller
\* passed it.
RepeatsNoMore(k, account) ==
  \/ RegistryExists(k) /\ Repetitions(account.signers) <= Repetitions(registries[k].signers)
  \/ PassesList(k)

\* The account of k with another list, threshold and status: the owner never changes.
Revised(k, signers, required, enabled) ==
  [authority |-> registries[k].authority, signers |-> signers,
   required |-> required, enabled |-> enabled]

\* A revision whose threshold fits its vector is an account an instruction may write.
LEMMA RevisedIsWritten ==
  ASSUME NEW k, RegistryExists(k), registries[k] \in RegistryAccount,
         NEW signers \in Seq(Signers), NEW required \in Nat, NEW enabled \in BOOLEAN,
         ValidConfiguration(signers, required)
  PROVE  /\ Revised(k, signers, required, enabled) \in RegistryAccount
         /\ WrittenAccount(k, Revised(k, signers, required, enabled))
BY DEF Revised, RegistryAccount, WrittenAccount

\* Updating fields in place gives the revised account.
LEMMA FieldUpdates ==
  ASSUME NEW k, registries[k] \in RegistryAccount, NEW signers \in Seq(Signers), NEW value
  PROVE  LET old == registries[k] IN
         /\ [old EXCEPT !.signers = signers] = Revised(k, signers, old.required, old.enabled)
         /\ [old EXCEPT !.required = value] = Revised(k, old.signers, value, old.enabled)
         /\ [old EXCEPT !.enabled = value] = Revised(k, old.signers, old.required, value)
         /\ [old EXCEPT !.signers = signers, !.required = value]
              = Revised(k, signers, value, old.enabled)
<1> DEFINE old   == registries[k]
           first == [old EXCEPT !.signers = signers]
<1>1. [old EXCEPT !.signers = signers] = Revised(k, signers, old.required, old.enabled)
  BY DEF Revised, RegistryAccount
<1>2. [old EXCEPT !.required = value] = Revised(k, old.signers, value, old.enabled)
  BY DEF Revised, RegistryAccount
<1>3. [old EXCEPT !.enabled = value] = Revised(k, old.signers, old.required, value)
  BY DEF Revised, RegistryAccount
<1>4. /\ first \in RegistryAccount
      /\ first.authority = old.authority
      /\ first.signers = signers
      /\ first.enabled = old.enabled
  BY DEF RegistryAccount
<1>5. [old EXCEPT !.signers = signers, !.required = value] = [first EXCEPT !.required = value]
  OBVIOUS
<1> HIDE DEF first
<1>6. [first EXCEPT !.required = value] = Revised(k, signers, value, old.enabled)
  BY <1>4 DEF Revised, RegistryAccount
<1> QED
  BY <1>1, <1>2, <1>3, <1>5, <1>6

\* Every step of the six registry instructions writes one such account.
LEMMA RegistryStep ==
  ASSUME RegistriesTypeOK, RegistryThreshold, RegistriesNext
  PROVE  \E k \in RegistryKeys, account \in RegistryAccount :
           /\ WrittenAccount(k, account)
           /\ RepeatsNoMore(k, account)
           /\ registries' = [registries EXCEPT ![k] = account]
<1> DEFINE Goal == \E k \in RegistryKeys, account \in RegistryAccount :
                     /\ WrittenAccount(k, account)
                     /\ RepeatsNoMore(k, account)
                     /\ registries' = [registries EXCEPT ![k] = account]
<1> SUFFICES ASSUME NEW k \in RegistryKeys, NEW a \in Authorities,
                    \/ \E signers \in SignerLists, required \in Thresholds :
                         \/ InitializeSignerRegistry(k, a, signers, required)
                         \/ UpdateSigners(k, a, signers, required)
                    \/ \E s \in Signers : AddSigner(k, a, s) \/ RemoveSigner(k, a, s)
                    \/ \E required \in Thresholds : UpdateThreshold(k, a, required)
                    \/ \E enabled \in BOOLEAN : SetRegistryEnabled(k, a, enabled)
             PROVE  Goal
  BY DEF RegistriesNext
<1> DEFINE old == registries[k]
<1>0. /\ registries \in [RegistryKeys -> RegistryAccount \cup {NoAccount}]
      /\ MaxSigners \in Nat
  BY CallerInputsAssumption DEF RegistriesTypeOK
<1>1. ASSUME RegistryExists(k)
      PROVE  /\ old \in RegistryAccount
             /\ old.authority \in Authorities
             /\ old.signers \in Seq(Signers)
             /\ old.required \in Nat
             /\ old.enabled \in BOOLEAN
             /\ Len(old.signers) \in Nat
             /\ old.required \in 1 .. Len(old.signers)
             /\ Len(old.signers) <= MaxSigners
  <2>1. old \in RegistryAccount
    BY <1>0, <1>1 DEF RegistryExists
  <2>2. /\ old.authority \in Authorities
        /\ old.signers \in Seq(Signers)
        /\ old.required \in Nat
        /\ old.enabled \in BOOLEAN
    BY <2>1 DEF RegistryAccount
  <2> QED
    BY <1>1, <2>1, <2>2 DEF RegistryThreshold
<1>2. ASSUME RegistryExists(k),
             NEW signers \in Seq(Signers), NEW required \in Nat, NEW enabled \in BOOLEAN,
             ValidConfiguration(signers, required),
             Repetitions(signers) <= Repetitions(old.signers) \/ PassesList(k),
             registries' = [registries EXCEPT ![k] = Revised(k, signers, required, enabled)]
      PROVE  Goal
  <2> DEFINE new == Revised(k, signers, required, enabled)
  <2>1. new \in RegistryAccount /\ WrittenAccount(k, new)
    BY <1>1, <1>2, RevisedIsWritten
  <2>2. RepeatsNoMore(k, new)
    BY <1>2 DEF RepeatsNoMore, Revised
  <2> QED
    BY <1>2, <2>1, <2>2
<1>3. ASSUME NEW signers \in SignerLists, NEW required \in Thresholds,
             InitializeSignerRegistry(k, a, signers, required)
      PROVE  Goal
  <2> DEFINE new == [authority |-> a, signers |-> signers, required |-> required, enabled |-> TRUE]
  <2>1. signers \in Seq(Signers) /\ required \in Nat
    BY CallerInputsAssumption
  <2>2. new \in RegistryAccount
    BY <2>1 DEF RegistryAccount
  <2>3. WrittenAccount(k, new)
    BY <1>3, <2>2 DEF WrittenAccount, InitializeSignerRegistry, IsFree, RegistryExists
  <2>4. RepeatsNoMore(k, new)
    BY <1>3 DEF RepeatsNoMore, PassesList
  <2> QED
    BY <1>3, <2>2, <2>3, <2>4 DEF InitializeSignerRegistry
<1>4. ASSUME NEW signers \in SignerLists, NEW required \in Thresholds,
             UpdateSigners(k, a, signers, required)
      PROVE  Goal
  <2>1. RegistryExists(k) /\ ValidConfiguration(signers, required)
    BY <1>4 DEF UpdateSigners, MayAdminister
  <2>2. signers \in Seq(Signers) /\ required \in Nat
    BY CallerInputsAssumption
  <2>3. registries' = [registries EXCEPT ![k] = [old EXCEPT !.signers = signers, !.required = required]]
    BY <1>0, <1>4 DEF UpdateSigners
  <2>4. registries' = [registries EXCEPT ![k] = Revised(k, signers, required, old.enabled)]
    BY <1>1, <2>1, <2>2, <2>3, FieldUpdates
  <2>5. PassesList(k)
    BY <1>4 DEF PassesList
  <2> QED
    BY <1>1, <1>2, <2>1, <2>2, <2>4, <2>5
<1>5. ASSUME NEW s \in Signers, AddSigner(k, a, s)
      PROVE  Goal
  <2>1. RegistryExists(k) /\ Len(old.signers) < MaxSigners /\ ~Contains(old.signers, s)
    BY <1>5 DEF AddSigner, MayAdminister, MayJoin, HasRoom
  <2> DEFINE more == Append(old.signers, s)
  <2>2. more \in Seq(Signers) /\ Len(more) = Len(old.signers) + 1
    BY <1>1, <2>1
  <2>3. ValidConfiguration(more, old.required)
    BY <1>0, <1>1, <2>1, <2>2 DEF ValidConfiguration, ValidThreshold
  <2>4. registries' = [registries EXCEPT ![k] = [old EXCEPT !.signers = more]]
    BY <1>0, <1>5 DEF AddSigner
  <2>5. registries' = [registries EXCEPT ![k] = Revised(k, more, old.required, old.enabled)]
    BY <1>1, <2>1, <2>2, <2>4, FieldUpdates
  <2>6. Repetitions(more) <= Repetitions(old.signers)
    BY <1>1, <2>1, AppendRepeatsNothing
  <2> QED
    BY <1>1, <1>2, <2>1, <2>2, <2>3, <2>5, <2>6
<1>6. ASSUME NEW s \in Signers, RemoveSigner(k, a, s)
      PROVE  Goal
  <2>1. RegistryExists(k) /\ old.required <= Len(old.signers) - 1
    BY <1>6 DEF RemoveSigner, MayAdminister, ThresholdKept
  <2>2. PICK i \in 1 .. Len(old.signers) :
          registries' = [registries EXCEPT ![k].signers = RemoveAt(@, i)]
    BY <1>6 DEF RemoveSigner
  <2> DEFINE left == RemoveAt(old.signers, i)
  <2>3. left \in Seq(Signers) /\ Len(left) = Len(old.signers) - 1
    BY <1>1, <2>1, RemoveAtProperties
  <2>4. ValidConfiguration(left, old.required)
    BY <1>0, <1>1, <2>1, <2>3 DEF ValidConfiguration, ValidThreshold
  <2>5. registries' = [registries EXCEPT ![k] = [old EXCEPT !.signers = left]]
    BY <1>0, <2>2
  <2>6. registries' = [registries EXCEPT ![k] = Revised(k, left, old.required, old.enabled)]
    BY <1>1, <2>1, <2>3, <2>5, FieldUpdates
  <2>7. Repetitions(left) <= Repetitions(old.signers)
    BY <1>1, <2>1, RemoveAtRepeatsNothing
  <2> QED
    BY <1>1, <1>2, <2>1, <2>3, <2>4, <2>6, <2>7
<1>7. ASSUME NEW required \in Thresholds, UpdateThreshold(k, a, required)
      PROVE  Goal
  <2>1. RegistryExists(k) /\ ValidThreshold(old.signers, required)
    BY <1>7 DEF UpdateThreshold, MayAdminister
  <2>2. required \in Nat
    BY CallerInputsAssumption
  <2>3. ValidConfiguration(old.signers, required)
    BY <1>0, <1>1, <2>1 DEF ValidConfiguration, ValidThreshold
  <2>4. registries' = [registries EXCEPT ![k] = [old EXCEPT !.required = required]]
    BY <1>0, <1>7 DEF UpdateThreshold
  <2>5. registries' = [registries EXCEPT ![k] = Revised(k, old.signers, required, old.enabled)]
    BY <1>1, <2>1, <2>2, <2>4, FieldUpdates
  <2>6. Repetitions(old.signers) <= Repetitions(old.signers)
    BY <1>1, <2>1, KeysCounted DEF Repetitions
  <2> QED
    BY <1>1, <1>2, <2>1, <2>2, <2>3, <2>5, <2>6
<1>8. ASSUME NEW enabled \in BOOLEAN, SetRegistryEnabled(k, a, enabled)
      PROVE  Goal
  <2>1. RegistryExists(k)
    BY <1>8 DEF SetRegistryEnabled, MayAdminister
  <2>2. ValidConfiguration(old.signers, old.required)
    BY <1>0, <1>1, <2>1 DEF ValidConfiguration, ValidThreshold
  <2>3. registries' = [registries EXCEPT ![k] = [old EXCEPT !.enabled = enabled]]
    BY <1>0, <1>8 DEF SetRegistryEnabled
  <2>4. registries' = [registries EXCEPT ![k] = Revised(k, old.signers, old.required, enabled)]
    BY <1>1, <2>1, <2>3, FieldUpdates
  <2>5. Repetitions(old.signers) <= Repetitions(old.signers)
    BY <1>1, <2>1, KeysCounted DEF Repetitions
  <2> QED
    BY <1>1, <1>2, <2>1, <2>2, <2>4, <2>5
<1> QED
  BY <1>3, <1>4, <1>5, <1>6, <1>7, <1>8

\* The registry instructions keep every registry account well formed, its
\* threshold within its vector and its owner a gateway authority.
LEMMA RegistriesPreserved ==
  ASSUME RegistriesTypeOK, RegistryThreshold, RegistryAdministrable,
         RegistriesNext, UNCHANGED gateways
  PROVE  RegistriesTypeOK' /\ RegistryThreshold' /\ RegistryAdministrable'
<1>1. PICK k \in RegistryKeys, account \in RegistryAccount :
        /\ WrittenAccount(k, account)
        /\ registries' = [registries EXCEPT ![k] = account]
  BY RegistryStep
<1>2. /\ registries' \in [RegistryKeys -> RegistryAccount \cup {NoAccount}]
      /\ registries'[k] = account
      /\ \A other \in RegistryKeys \ {k} : registries'[other] = registries[other]
  BY <1>1 DEF RegistriesTypeOK
<1>3. \A a : IsGatewayAuthority(a) => IsGatewayAuthority(a)'
  BY DEF IsGatewayAuthority, Administers
<1>4. IsGatewayAuthority(account.authority)
  BY <1>1 DEF WrittenAccount, RegistryAdministrable
<1>5. ValidConfiguration(account.signers, account.required)
  BY <1>1 DEF WrittenAccount
<1>6. RegistryThreshold'
  <2>1. /\ account.signers \in Seq(Signers)
        /\ Len(account.signers) \in Nat
        /\ MaxSigners \in Nat
    BY CallerInputsAssumption DEF RegistryAccount
  <2> QED
    BY <1>2, <1>5, <2>1 DEF RegistryThreshold, RegistryExists, ValidConfiguration, ValidThreshold
<1>7. RegistryAdministrable'
  BY <1>2, <1>3, <1>4 DEF RegistryAdministrable, RegistryExists
<1> QED
  BY <1>2, <1>6, <1>7 DEF RegistriesTypeOK

-----------------------------------------------------------------------------
(* Administration *)

\* The three invariants hold together: the threshold is only preserved on
\* well-formed accounts, and an owner only stays a gateway authority because
\* gateways keep theirs.
AdministrationInv == AdministrationTypeOK /\ RegistryThreshold /\ RegistryAdministrable

\* Before any gateway or registry is created the invariant holds.
LEMMA AdministrationInitially == AdministrationInit => AdministrationInv
BY DEF AdministrationInit, AdministrationInv, AdministrationTypeOK, GatewaysInit, GatewaysTypeOK,
       RegistriesInit, RegistriesTypeOK, RegistryThreshold, RegistryAdministrable, RegistryExists

\* No administrative instruction breaks the invariant.
LEMMA AdministrationInductive ==
  ASSUME AdministrationInv, [AdministrationNext]_adminVars
  PROVE  AdministrationInv'
<1> USE DEF AdministrationInv, AdministrationTypeOK
<1>1. CASE GatewaysNext /\ UNCHANGED registries
  <2>1. GatewaysTypeOK' /\ \A a : IsGatewayAuthority(a) => IsGatewayAuthority(a)'
    BY <1>1, GatewaysTypePreserved, GatewaysKeepAuthorities
  <2> QED
    BY <1>1, <2>1
       DEF RegistriesTypeOK, RegistryThreshold, RegistryAdministrable, RegistryExists
<1>2. CASE RegistriesNext /\ UNCHANGED gatewayVars
  BY <1>2, RegistriesPreserved DEF gatewayVars, GatewaysTypeOK
<1>3. CASE UNCHANGED adminVars
  BY <1>3 DEF adminVars, GatewaysTypeOK, RegistriesTypeOK, RegistryThreshold,
              RegistryAdministrable, RegistryExists, IsGatewayAuthority, Administers
<1> QED
  BY <1>1, <1>2, <1>3 DEF AdministrationNext

\* Type correctness of the administrative side.
THEOREM AdministrationTypeCorrect == AdministrationSpec => []AdministrationTypeOK
<1>1. AdministrationSpec => []AdministrationInv
  BY AdministrationInitially, AdministrationInductive, PTL DEF AdministrationSpec
<1> QED
  BY <1>1, PTL DEF AdministrationInv

\* No sequence of registry instructions leaves a threshold of zero or one
\* above the length of the signer vector.
THEOREM ThresholdAlwaysInRange == AdministrationSpec => []RegistryThreshold
<1>1. AdministrationSpec => []AdministrationInv
  BY AdministrationInitially, AdministrationInductive, PTL DEF AdministrationSpec
<1> QED
  BY <1>1, PTL DEF AdministrationInv

\* No registry is ever orphaned.
THEOREM AlwaysAdministrable == AdministrationSpec => []RegistryAdministrable
<1>1. AdministrationSpec => []AdministrationInv
  BY AdministrationInitially, AdministrationInductive, PTL DEF AdministrationSpec
<1> QED
  BY <1>1, PTL DEF AdministrationInv

\* Whatever vectors callers pass, only they bring a key in twice.
THEOREM OnlyPassedListsRepeat == AdministrationSpec => RepetitionIsPassedIn
<1>1. ASSUME AdministrationInv, [AdministrationNext]_adminVars, NEW k \in RegistryKeys,
             ~PassesList(k)
      PROVE  ~(RepetitionsIn(k)' > RepetitionsIn(k))
  <2>1. /\ registries \in [RegistryKeys -> RegistryAccount \cup {NoAccount}]
        /\ RegistryThreshold
    BY <1>1 DEF AdministrationInv, AdministrationTypeOK, RegistriesTypeOK
  <2>2. RepetitionsIn(k) \in Int
    <3>1. CASE RegistryExists(k)
      <4>1. registries[k].signers \in Seq(Signers)
        BY <2>1, <3>1 DEF RegistryExists, RegistryAccount
      <4> QED
        BY <3>1, <4>1, KeysCounted DEF RepetitionsIn, Repetitions
    <3> QED
      BY <3>1 DEF RepetitionsIn
  <2>3. CASE UNCHANGED registries
    BY <2>2, <2>3 DEF RepetitionsIn, RegistryExists
  <2>4. CASE RegistriesNext
    <3>1. PICK l \in RegistryKeys, account \in RegistryAccount :
            /\ RepeatsNoMore(l, account)
            /\ registries' = [registries EXCEPT ![l] = account]
      BY <1>1, <2>4, RegistryStep DEF AdministrationInv, AdministrationTypeOK
    <3>2. CASE l = k
      <4>1. RegistryExists(k) /\ Repetitions(account.signers) <= Repetitions(registries[k].signers)
        BY <1>1, <3>1, <3>2 DEF RepeatsNoMore
      <4>2. registries'[k] = account /\ account # NoAccount
        BY <2>1, <3>1, <3>2, NoRegistryAssumption
      <4>3. RepetitionsIn(k)' = Repetitions(account.signers)
        BY <4>2 DEF RepetitionsIn, RegistryExists
      <4>4. RepetitionsIn(k) = Repetitions(registries[k].signers)
        BY <4>1 DEF RepetitionsIn
      <4>5. Repetitions(account.signers) \in Int
        BY KeysCounted DEF RegistryAccount, Repetitions
      <4> QED
        BY <2>2, <4>1, <4>3, <4>4, <4>5
    <3>3. CASE l # k
      <4>1. registries'[k] = registries[k]
        BY <2>1, <3>1, <3>3
      <4> QED
        BY <2>2, <4>1 DEF RepetitionsIn, RegistryExists
    <3> QED
      BY <3>2, <3>3
  <2> QED
    BY <1>1, <2>3, <2>4 DEF AdministrationNext, adminVars
<1>2. AdministrationInv /\ [AdministrationNext]_adminVars =>
        [\A k \in RegistryKeys :
           RepetitionsIn(k)' > RepetitionsIn(k) => PassesList(k)]_adminVars
  BY <1>1
<1>3. AdministrationSpec => []AdministrationInv
  BY AdministrationInitially, AdministrationInductive, PTL DEF AdministrationSpec
<1> QED
  BY <1>2, <1>3, PTL DEF AdministrationSpec, RepetitionIsPassedIn
=============================================================================
