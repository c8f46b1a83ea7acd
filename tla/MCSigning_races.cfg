SPECIFICATION HistorySpec
CONSTANTS
  ann = ann  bob = bob
  c1 = c1  c2 = c2  c3 = c3
  Signer <- TwoSigners
  Call <- ThreeCalls
  MaxCalls = 6
  NoSigner = NoSigner
  NoCall = NoCall
CHECK_DEADLOCK FALSE
INVARIANTS CompletedMeansAllSigned FinalizationsBounded AllSignedCompletes NoCircularWait
PROPERTIES LifecycleSpec CompletedIsFinal
