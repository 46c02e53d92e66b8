CONSTANTS
  Types = {2, 4}
  Radix = 2
  MaxLength = 2
  MaxIn = 2
  MaxOut = 1
  MaxFaults = 1
SPECIFICATION FairSpec
CHECK_DEADLOCK FALSE
INVARIANTS
  Framed
  Written
  WakeKnown
PROPERTIES
  Sleeps
  Delivers
