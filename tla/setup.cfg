SPECIFICATION SetupSpec
CONSTANTS
  NoAccount = NoAccount
  a1 = a1
  a2 = a2
  s1 = s1
  s2 = s2
  Authorities = {a1, a2}
  KeyOf <- SetupKeyOf
  MaxInterruptions = 2
  ChainIds <- SetupChainIds
  SendRequests <- None
  RegistryKeys <- SetupRegistryKeys
  Signers = {s1, s2}
  SignerLists <- SetupLists
  Thresholds = {1}
  MaxSigners = 10
  MaxSignatures = 8
  MinSignatures = 2
  MaxTxId = 0
  Payloads <- None
  AcceptablePayloads <- None
  Traffic <- None
  Evidence <- None
  SignatureLists <- SetupVectors
  Relayers <- None
INVARIANTS
  ReturnedMeansReady
  OneOwner
PROPERTY
  OwnerGetsThrough
