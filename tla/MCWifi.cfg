CONSTANTS
  Builds <- MCBuilds
  RequestId <- MCRequestId
  MaxCalls = 9
  MaxFaults = 2
  MaxEvents = 2
SPECIFICATION FairSpec
CHECK_DEADLOCK FALSE
INVARIANTS
  Settled
  IfacesFit
  RefsExact
  AbortsKnown
PROPERTIES
  StopReturns
