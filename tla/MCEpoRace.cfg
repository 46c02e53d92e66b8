CONSTANTS
  NPieces = 3
  DlRetries = 1
  CallRetries = 3
  MergeMayFail = TRUE
  LongGaps = TRUE
  MayDie = TRUE
  MayLose = FALSE
  MaxQepo = 2
SPECIFICATION FairSpec
INVARIANTS
  FlagsTrue
PROPERTIES
  DownloadEnds
