SPECIFICATION HistorySpec
CONSTANTS
  NoAccount = NoAccount
  p = p
  q = q
  big = big
  s1 = s1
  s2 = s2
  s3 = s3
  Authorities = {a1}
  ChainIds <- ReplayChainIds
  SendRequests <- None
  RegistryKeys <- ReplayRegistryKeys
  Signers = {s1, s2}
  SignerLists <- ReplaySignerLists
  Thresholds <- ReplayThresholds
  MaxSigners = 2
  MaxSignatures = 2
  MinSignatures = 2
  MaxTxId = 2
  Payloads <- MCPayloads
  AcceptablePayloads <- MCAcceptable
  Traffic <- ReplayTraffic
  Evidence <- ReplayEvidence
  SignatureLists <- ReplaySignatureLists
  Relayers = {r1, r2}
PROPERTY
  ProcessedIsPrepared
