SPECIFICATION FairSpec
CONSTANTS
  f1 = f1
  f2 = f2
  Files <- MCFiles
  MaxJobs = 1
  MaxTimers = 2
  Troubles = {"pause"}
  MaxTroubles = 1
CHECK_DEADLOCK FALSE
PROPERTIES
  ResumeStartsQueued
