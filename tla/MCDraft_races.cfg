SPECIFICATION HistorySpec
CONSTANTS
  ann = ann  bob = bob  sig = sig
  c1 = c1  c2 = c2  null = null  keep = keep
  Recipient <- Two
  Field <- OneField
  Call <- TwoCalls
  PageWidth = 2
  Left = {0, 1}
  Width = {1, 2}
  Patch <- AnyOne
  MaxCrashes = 1
  NoRecipient = null
  Keep = keep
SYMMETRY Interchangeable
INVARIANTS LostIsExplained FieldsAreSound SentIsComplete
PROPERTIES SettledIsFrozen 
CHECK_DEADLOCK FALSE
