SPECIFICATION FairSpec
CONSTANTS
  Files <- TwoFiles
  Runner = "previews"
  MaxParks = 3
  MaxStops = 1
INVARIANTS ContinuationCovers
PROPERTIES EndedStaysEnded CancelEndsRunner EndsOnceOpen
CHECK_DEADLOCK FALSE
