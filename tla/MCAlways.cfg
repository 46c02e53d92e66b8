CONSTANTS
  Clients = {"flp", "factory"}
  OffloadMode = "always"
  Updates = {}
  QueueCap = 2
  LibMayFail = TRUE
  MaxRestarts = 1
  MaxNotifies = 1
  WithEpo = FALSE
SPECIFICATION Spec
INVARIANTS
  NmeaMonitorOff
