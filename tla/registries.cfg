SPECIFICATION AdministrationSpec
CONSTANTS
  NoAccount = NoAccount
  Authorities = {a1, a2}
  ChainIds <- MCChainIds
  SendRequests <- MCSendRequests
  RegistryKeys <- MCRegistryKeys
  Signers = {s1, s2, s3}
  SignerLists <- ShortLists
  Thresholds <- MCThresholds
  MaxSigners = 3
SYMMETRY SignerSymmetry
INVARIANTS
  AdministrationTypeOK
  RegistryThreshold
  RegistryAdministrable
PROPERTY
  RepetitionIsPassedIn
