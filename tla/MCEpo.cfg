CONSTANTS
  NPieces = 3
  DlRetries = 3
  CallRetries = 3
  MergeMayFail = TRUE
  LongGaps = FALSE
  MayDie = TRUE
  MayLose = TRUE
  MaxQepo = 0
SPECIFICATION Spec
INVARIANTS
  OkSound
  OnlyFresh
PROPERTIES
  HonoursEpo
