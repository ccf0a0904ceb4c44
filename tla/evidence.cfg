SPECIFICATION EvidenceSpec
CONSTANTS
  TxIdBytes = 2
  ChainIdBytes = 1
  LengthBytes = 1
  MaxSender = 2
  MaxRecipient = 2
  MaxOnChainData = 2
  MaxOffChainData = 2
  k1 = k1
  k2 = k2
  Keys = {k1, k2}
  Messages <- EvidenceMessages
  MaxVectorLength = 2
SYMMETRY KeySymmetry
INVARIANTS
  EvidenceTypeOK
  VerifiedIsGenuine
  GenuineVerifies
  AddressesMatch
