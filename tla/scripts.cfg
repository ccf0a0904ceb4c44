SPECIFICATION ScriptsSpec
CONSTANTS
  NoAccount = NoAccount
  w = w
  Wallet = w
  Operator = w
  Authorities = {w}
  Relayers = {w}
  Chain = 1
  Solana = 2
  Scripts = {"two", "three", "devnet", "single", "simple"}
  KindOf <- ScriptsKindOf
  FreshKey <- ScriptsFreshKey
  MaxLosses = 1
  ChainIds <- ScriptsChainIds
  SendRequests <- ScriptsRequests
  RegistryKeys <- ScriptsRegistryKeys
  Signers <- ScriptsSigners
  SignerLists <- ScriptsSignerLists
  Thresholds = {0}
  MaxSigners = 2
  MaxSignatures = 8
  MinSignatures = 2
  MaxTxId = 2
  Payloads <- Kinds
  AcceptablePayloads <- Kinds
  Traffic <- ScriptsTraffic
  Evidence <- ScriptsEvidence
  SignatureLists <- ScriptsSignatureLists
CHECK_DEADLOCK FALSE
INVARIANTS
  ScriptsTypeOK
  PreparedStaysProcessable
  SuccessIsReal
  StrandedHasCause
  LargeRunsStrand
PROPERTY
  DeploymentOnlyGrows
