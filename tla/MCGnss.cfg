CONSTANTS
  MaxCalls = 3
  MaxFaults = 2
  MaxReports = 1
SPECIFICATION FairSpec
CHECK_DEADLOCK FALSE
INVARIANTS
  Agreement
  WakelockHeld
  NothingKept
  NoNullCallback
PROPERTIES
  Recovers
