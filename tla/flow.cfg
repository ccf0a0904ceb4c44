SPECIFICATION FlowSpec
CONSTANTS
  NoAccount = NoAccount
  p = p
  a1 = a1
  r1 = r1
  r2 = r2
  s1 = s1
  s2 = s2
  Operator = a1
  Authorities = {a1}
  ChainIds <- FlowChainIds
  SendRequests <- FlowSendRequests
  RegistryKeys <- FlowRegistryKeys
  Signers = {s1, s2}
  SignerLists <- FlowLists
  Thresholds = {2}
  MaxSigners = 2
  MaxSignatures = 2
  MinSignatures = 2
  MaxTxId = 2
  Payloads = {p}
  AcceptablePayloads = {p}
  Traffic <- FlowTraffic
  Evidence <- FlowEvidence
  SignatureLists <- FlowLists
  Relayers = {r1, r2}
  Jobs <- SignedJobs
  MaxRuns = 3
  DeployedRegistries <- FlowRegistries
CHECK_DEADLOCK FALSE
INVARIANTS
  FlowTypeOK
  OneClaimant
  DoneMeansProcessed
  ClaimKeepsPda
PROPERTIES
  AbandonedForEver
  ClaimLeadsToDelivery
