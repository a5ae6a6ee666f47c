SPECIFICATION LaterFirstSpec
CONSTANTS
  Jobs <- TwoJobs
  Priorities <- TwoPriorities
  StartupSlots = 1
  MaxOperations = 2
INVARIANTS SlotsHeld  WaiterKeepsPlace
PROPERTIES AnswerNeverMisplaces 
CHECK_DEADLOCK FALSE
