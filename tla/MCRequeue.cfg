SPECIFICATION FairSpec
CONSTANTS
  f1 = f1
  f2 = f2
  n1 = n1
  Files <- TwoFiles
  Nodes <- OneNode
  App = "app"
  MAX_NODE_DROPS = 2
  MAX_NODE_START_FAILURES = 2
  MaxTurns = 2
INVARIANT OneNodeCostsNoFile
PROPERTY FilesGoOn
CHECK_DEADLOCK FALSE
