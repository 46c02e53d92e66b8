CONSTANTS
  Script = 2
  MaxInits = 3
  MaxOffs = 3
  MaxEvents = 1
SPECIFICATION FairSpec
CHECK_DEADLOCK FALSE
INVARIANTS
  NothingOutlives
  FatalJustified
  SendSafe
PROPERTIES
  LooperFree
  Answered
