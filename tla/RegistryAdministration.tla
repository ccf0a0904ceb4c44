------------------------ MODULE RegistryAdministration ------------------------
(***************************************************************************)
(* The administrative side of the program: gateways and signer registries  *)
(* while several authorities create and change them in any order.          *)
(***************************************************************************)
EXTENDS SignerRegistries

adminVars == <<gateways, sent, registries>>

AdministrationInit == GatewaysInit /\ RegistriesInit

AdministrationNext ==
  \/ GatewaysNext /\ UNCHANGED registries
  \/ RegistriesNext /\ UNCHANGED gatewayVars

AdministrationSpec == AdministrationInit /\ [][AdministrationNext]_adminVars

-----------------------------------------------------------------------------
\* Every account holds a record of its type.
AdministrationTypeOK == GatewaysTypeOK /\ RegistriesTypeOK

\* Keys are listed twice only because somebody passed a vector that lists them
\* twice: among vectors with and without repetitions no sequence of additions,
\* removals, threshold changes and switches adds one.  A repeated entry counts
\* towards the length the threshold is compared with (signer_registry.rs:239,
\* 287) but never towards a quorum (signature.rs:127).
RepetitionIsPassedIn ==
  [][\A k \in RegistryKeys :
       RepetitionsIn(k)' > RepetitionsIn(k) => PassesList(k)]_adminVars

\* A key that was taken off a registry by remove_signer ("Remove a signer from
\* an existing registry", signer_registry.rs:198) is no longer in it.
RemovedSignerIsGone ==
  [][\A k \in RegistryKeys, s \in Signers, a \in Authorities :
       RemoveSigner(k, a, s) => ~Contains(registries'[k].signers, s)]_adminVars
=============================================================================
