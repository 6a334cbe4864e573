SPECIFICATION FairSpec
CONSTANTS
    n1 = n1
    n2 = n2
    f1 = f1
    f2 = f2
    w1 = w1
    w2 = w2
    Names = {n1, n2}
    Files = {f1, f2}
    Dirs <- MCDirs
    Workers = {w1, w2}
    NoFile = NoFile
    NoName = NoName
    BUDGET = 1
    AutoQuarantine = TRUE
    MaxStamps = 2
    MaxCoarse = 1
    MaxRenames = 1
    MaxEvents = 2
    MaxFailures = 1
    MaxLifetimes = 2
INVARIANTS
    CacheIsSound
    Covered
    OneDetection
    DenyFollowedUpInLife
PROPERTIES
    HandedIsJudged
CHECK_DEADLOCK FALSE
