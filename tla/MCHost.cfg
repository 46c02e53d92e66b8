CONSTANTS
  Clients = {"hal", "agps"}
  OffloadMode = "off"
  Updates = {}
  QueueCap = 2
  LibMayFail = TRUE
  MaxRestarts = 1
  MaxNotifies = 0
  WithEpo = FALSE
SPECIFICATION Spec
INVARIANTS
  TypeOK
  NoCrash
  EngineFollows
  WatchdogArmed
  AckDiscipline
  WakelockBalanced
PROPERTIES
  HonoursService
