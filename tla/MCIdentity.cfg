SPECIFICATION FairSpec
CONSTANTS
  Machines = {"a", "b", "c", ""}
  Beside = {"c"}
  Twins = {}
  Own = "a"
  Addresses = {1, 2}
  Checks = {1, 2}
  Faults = {"silent", "unwell", "refused", "stopping"}
  Unreadable = TRUE
  MaxOperations = 3
CHECK_DEADLOCK FALSE
INVARIANTS WorkNamesKnownPlex
PROPERTIES WorkComesBack VouchedAgain
