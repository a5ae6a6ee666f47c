SPECIFICATION FairSpec
CONSTANTS
    j1 = j1
    j2 = j2
    a1 = a1
    a2 = a2
    b1 = b1
    w1 = w1
    NoItem = NoItem
    Jobs = {j1}
    Items = {a1, a2}
    JobOf <- MCJobOf
    Workers = {w1}
    MaxChecks = 1
    MaxGiveBacks = 0
    MaxCloses <- MCCloseOnce
    Cancellable = {j1}
    Pausable = {}
PROPERTIES
    WaitEnds CancelEnds EveryJobEnds
CHECK_DEADLOCK FALSE
