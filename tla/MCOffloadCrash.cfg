CONSTANTS
  Clients = {"flp", "factory"}
  OffloadMode = "auto"
  Updates = {}
  QueueCap = 2
  LibMayFail = FALSE
  MaxRestarts = 0
  MaxNotifies = 0
  WithEpo = FALSE
SPECIFICATION Spec
INVARIANTS
  NoCrash
