SPECIFICATION FairHistorySpec
CONSTANTS
  ann = ann  bob = bob
  c1 = c1  c2 = c2  c3 = c3
  Signer <- TwoSigners
  Call <- TwoCalls
  MaxCalls = 4
  NoSigner = NoSigner
  NoCall = NoCall
CHECK_DEADLOCK FALSE
PROPERTY AllSignedLeadsToCompletion
