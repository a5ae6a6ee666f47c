SPECIFICATION FairSpec
CONSTANTS
  w1 = w1
  w2 = w2
  Workers = {w1, w2}
  Publishers <- Three
  Regenerates = TRUE
  MaxVersions = 2
  MaxRuns = 3
  MaxFails = 1
  MaxCrashes = 1
CHECK_DEADLOCK FALSE
INVARIANTS FramesStay EntryDescribesSlot NoteVouches
PROPERTIES WaitersAreServed
