SPECIFICATION FairSpec
CONSTANTS
  Tries = 1
  MaxLost = 2
  MaxDown = 1
  MaxWaits = 1
  MaxPauses = 1
INVARIANTS DropsHaveACause
PROPERTIES DeletedNeverStarts OrphansFreed CancelEndsRun
CHECK_DEADLOCK FALSE
