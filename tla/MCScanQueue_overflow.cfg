SPECIFICATION Spec
CONSTANTS
    a = a
    b = b
    c = c
    w1 = w1
    w2 = w2
    NoPath = NoPath
    Intake = Intake
    Hk = Hk
    Paths <- MCPaths2
    LaneOf <- MCLaneOf2
    Workers <- MCWorkers1
    MEM_QUEUE_CAP = 1
    DB_BATCH = 1
    MaxPushes = 3
    MaxLifetimes = 1
INVARIANTS
    NothingDropped
CHECK_DEADLOCK FALSE
