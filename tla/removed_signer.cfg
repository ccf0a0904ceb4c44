SPECIFICATION AdministrationSpec
CONSTANTS
  NoAccount = NoAccount
  Authorities = {a1, a2}
  ChainIds <- MCChainIds
  SendRequests <- MCSendRequests
  RegistryKeys <- MCRegistryKeys
  Signers = {s1, s2}
  SignerLists <- AnyLists
  Thresholds <- MCThresholds
  MaxSigners = 3
PROPERTY
  RemovedSignerIsGone
