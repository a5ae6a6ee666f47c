SPECIFICATION Spec
CONSTANTS
    j1 = j1
    j2 = j2
    a1 = a1
    a2 = a2
    b1 = b1
    w1 = w1
    NoItem = NoItem
    Jobs = {j1, j2}
    Items = {a1, b1}
    JobOf <- MCJobOf
    Workers = {w1}
    MaxChecks = 2
    MaxGiveBacks = 1
    MaxCloses <- MCCloseOnce
    Cancellable = {j2}
    Pausable = {j2}
INVARIANTS
    IInv
CHECK_DEADLOCK FALSE
