CONSTANTS
  Clients = {"hal"}
  OffloadMode = "off"
  Updates = {"qepo"}
  QueueCap = 2
  LibMayFail = FALSE
  MaxRestarts = 0
  MaxNotifies = 1
  WithEpo = TRUE
SPECIFICATION Spec
PROPERTIES
  EpoNotTorn
