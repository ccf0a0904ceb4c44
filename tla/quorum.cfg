SPECIFICATION Spec
CONSTANTS
  NoAccount = NoAccount
  p = p
  q = q
  big = big
  s1 = s1
  s2 = s2
  s3 = s3
  Authorities = {a1}
  ChainIds <- QuorumChainIds
  SendRequests <- None
  RegistryKeys <- QuorumRegistryKeys
  Signers = {s1, s2, s3}
  SignerLists <- QuorumSignerLists
  Thresholds <- QuorumThresholds
  MaxSigners = 3
  MaxSignatures = 2
  MinSignatures = 2
  MaxTxId = 1
  Payloads <- MCPayloads
  AcceptablePayloads <- MCAcceptable
  Traffic <- QuorumTraffic
  Evidence <- QuorumEvidence
  SignatureLists <- QuorumSignatureLists
  Relayers = {r1}
INVARIANT
  DistinctKeysBehindDelivery
PROPERTIES
  QuorumBehindProcessing
  OverdemandBlocks
