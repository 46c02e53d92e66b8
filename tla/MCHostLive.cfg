CONSTANTS
  Clients = {"hal", "agps"}
  OffloadMode = "off"
  Updates = {}
  QueueCap = 1
  LibMayFail = TRUE
  MaxRestarts = 0
  MaxNotifies = 0
  WithEpo = FALSE
SPECIFICATION FairSpec
PROPERTIES
  OpenAnswered
  ResetAnswered
  EngineReleased
