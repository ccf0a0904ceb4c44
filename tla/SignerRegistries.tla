--------------------------- MODULE SignerRegistries ---------------------------
(***************************************************************************)
(* The signer registries of message_gateway_v4 and the six instructions    *)
(* that create and change them.  A registry lives at the address derived   *)
(* from ["signer_registry", type, chain_id], its key here.  It is created  *)
(* by the authority of any gateway and then belongs to that authority,     *)
(* which must still be the authority of the gateway it passes to each      *)
(* later instruction.                                                      *)
(***************************************************************************)
EXTENDS Gateways, SequencesExt

CONSTANTS
  RegistryKeys,  \* the registries in use, pairs <<type, chain id>>
  Signers,       \* validators' public keys
  SignerLists,   \* the signer vectors that callers pass
  Thresholds,    \* the required_signatures that callers pass (u8)
  MaxSigners     \* MAX_SIGNERS_PER_REGISTRY, 10 in the code

RegistryTypes == {"via", "chain", "project"}

ASSUME RegistryKeysAssumption == RegistryKeys \subseteq RegistryTypes \X ChainIds

ASSUME CallerInputsAssumption ==
  /\ SignerLists \subseteq Seq(Signers)
  /\ Thresholds \subseteq 0 .. 255
  /\ MaxSigners \in 1 .. 255

RegistryAccount ==
  [authority : Authorities, signers : Seq(Signers), required : Nat, enabled : BOOLEAN]

ASSUME NoRegistryAssumption == NoAccount \notin RegistryAccount

VARIABLE registries  \* the account at each registry address

RegistriesTypeOK == registries \in [RegistryKeys -> RegistryAccount \cup {NoAccount}]

RegistriesInit == registries = [k \in RegistryKeys |-> NoAccount]

-----------------------------------------------------------------------------
RegistryExists(k) == registries[k] # NoAccount

\* has_one = authority on both the registry and the gateway of the transaction.
MayAdminister(a, k) ==
  /\ RegistryExists(k)
  /\ registries[k].authority = a
  /\ IsGatewayAuthority(a)

\* Faulty variant, for mutation: a threshold of zero passes.
ZeroThreshold(signers, required) == required \in 0 .. Len(signers)

\* SignerRegistry::validate_threshold: the length of the vector counts, not
\* the number of different keys in it.
ValidThreshold(signers, required) == required \in 1 .. Len(signers)

ValidConfiguration(signers, required) ==
  /\ Len(signers) \in 1 .. MaxSigners
  /\ ValidThreshold(signers, required)

InitializeSignerRegistry(k, a, signers, required) ==
  /\ IsFree(registries, k)
  /\ IsGatewayAuthority(a)
  /\ ValidConfiguration(signers, required)
  /\ registries' = [registries EXCEPT ![k] =
       [authority |-> a, signers |-> signers, required |-> required, enabled |-> TRUE]]

\* Replaces the list and the threshold; the new list may repeat a key.
UpdateSigners(k, a, signers, required) ==
  /\ MayAdminister(a, k)
  /\ ValidConfiguration(signers, required)
  /\ registries' = [registries EXCEPT ![k].signers = signers, ![k].required = required]

\* Faulty variant of MayJoin, for mutation: the key may be in the list already.
HasRoom(registry, s) == Len(registry.signers) < MaxSigners

MayJoin(registry, s) == HasRoom(registry, s) /\ ~Contains(registry.signers, s)

AddSigner(k, a, s) ==
  /\ MayAdminister(a, k)
  /\ MayJoin(registries[k], s)
  /\ registries' = [registries EXCEPT ![k].signers = Append(@, s)]

FirstPosition(signers, s, i) ==
  /\ i \in 1 .. Len(signers)
  /\ signers[i] = s
  /\ \A j \in 1 .. i - 1 : signers[j] # s

\* Faulty variant, for mutation: a removal without a look at the threshold.
ThresholdIgnored(registry) == TRUE

\* The threshold is compared with the length that is left.
ThresholdKept(registry) == registry.required <= Len(registry.signers) - 1

\* Only the first occurrence goes.
RemoveSigner(k, a, s) ==
  /\ MayAdminister(a, k)
  /\ ThresholdKept(registries[k])
  /\ \E i \in 1 .. Len(registries[k].signers) :
       /\ FirstPosition(registries[k].signers, s, i)
       /\ registries' = [registries EXCEPT ![k].signers = RemoveAt(@, i)]

UpdateThreshold(k, a, required) ==
  /\ MayAdminister(a, k)
  /\ ValidThreshold(registries[k].signers, required)
  /\ registries' = [registries EXCEPT ![k].required = required]

SetRegistryEnabled(k, a, enabled) ==
  /\ MayAdminister(a, k)
  /\ registries' = [registries EXCEPT ![k].enabled = enabled]

RegistriesNext ==
  \E k \in RegistryKeys, a \in Authorities :
    \/ \E signers \in SignerLists, required \in Thresholds :
         \/ InitializeSignerRegistry(k, a, signers, required)
         \/ UpdateSigners(k, a, signers, required)
    \/ \E s \in Signers : AddSigner(k, a, s) \/ RemoveSigner(k, a, s)
    \/ \E required \in Thresholds : UpdateThreshold(k, a, required)
    \/ \E enabled \in BOOLEAN : SetRegistryEnabled(k, a, enabled)

-----------------------------------------------------------------------------
\* After any sequence of the six registry instructions the threshold is
\* between one and the length of the signer vector, and the vector fits the
\* account (signer_registry.rs:45-53, 108-116, 181, 237-241, 287-291).
RegistryThreshold ==
  \A k \in RegistryKeys : RegistryExists(k) =>
    /\ registries[k].required \in 1 .. Len(registries[k].signers)
    /\ Len(registries[k].signers) <= MaxSigners

\* No registry is orphaned: its owner is still the authority of some gateway,
\* so has_one on both accounts can be met again (signer_registry.rs:87, 94).
RegistryAdministrable ==
  \A k \in RegistryKeys : RegistryExists(k) => IsGatewayAuthority(registries[k].authority)

\* The entries beyond the first of each key.
Repetitions(signers) == Len(signers) - Cardinality(ToSet(signers))

RepetitionsIn(k) == IF RegistryExists(k) THEN Repetitions(registries[k].signers) ELSE 0

\* This step hands the registry a whole vector.
PassesList(k) ==
  \E a \in Authorities, signers \in SignerLists, required \in Thresholds :
    \/ InitializeSignerRegistry(k, a, signers, required)
    \/ UpdateSigners(k, a, signers, required)
=============================================================================
