SPECIFICATION FairSpec
CONSTANTS
  f1 = f1
  f2 = f2
  Files <- MCFiles
  MaxJobs = 2
  MaxTimers = 2
  Troubles = {"crash", "pause", "cancel", "fail"}
  MaxTroubles = 2
CHECK_DEADLOCK FALSE
INVARIANTS AcceptedIsSaved RunsEveryFile
PROPERTIES WaitEndsWhenDue QueuedIsRun
