SPECIFICATION Spec
CONSTANTS
    j1 = j1
    j2 = j2
    a1 = a1
    a2 = a2
    b1 = b1
    w1 = w1
    w2 = w2
    NoItem = NoItem
    Jobs = {j1}
    Items = {a1, a2}
    JobOf <- MCJobOf
    Workers = {w1, w2}
    MaxChecks = 2
    MaxGiveBacks = 1
    MaxCloses <- MCCloseTwice
    Cancellable = {j1}
    Pausable = {j1}
INVARIANTS
    OnePlace TallyExact DoneIsComplete ParkKeepsRemainder CheckSlotsExact
PROPERTIES NoWorkAfterCommit ImplementsAccounting
CHECK_DEADLOCK FALSE
