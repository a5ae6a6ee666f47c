SPECIFICATION EqualSpec
CONSTANTS
  Jobs <- MCJobs
  Kinds <- MCKinds
  KindOf <- MCKindOf
  Capped <- MCCapped
  Files = 2
  Threads = 4
  Workers = 1
  Priorities = {1, 2}
  MaxOperations = 1
CHECK_DEADLOCK FALSE
PROPERTIES PicksInTurn ChecksGoOn PreviewsGoOn
