SPECIFICATION Spec
CONSTANTS
    n1 = n1
    n2 = n2
    f1 = f1
    f2 = f2
    w1 = w1
    w2 = w2
    Names = {n1, n2}
    Files = {f1, f2}
    Dirs <- MCDirs
    Workers = {w1}
    NoFile = NoFile
    NoName = NoName
    BUDGET = 9
    AutoQuarantine = TRUE
    MaxStamps = 2
    MaxCoarse = 0
    MaxRenames = 0
    MaxEvents = 3
    MaxFailures = 0
    MaxLifetimes = 2
INVARIANTS
    DenyFollowedUp
CHECK_DEADLOCK FALSE
