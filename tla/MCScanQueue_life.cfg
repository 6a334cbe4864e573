SPECIFICATION FairSpec
CONSTANTS
    a = a
    b = b
    c = c
    w1 = w1
    w2 = w2
    NoPath = NoPath
    Intake = Intake
    Hk = Hk
    Paths <- MCPaths3
    LaneOf <- MCLaneOf3
    Workers <- MCWorkers2
    MEM_QUEUE_CAP = 1
    DB_BATCH = 1
    MaxPushes = 3
    MaxLifetimes = 2
INVARIANTS
    ShutdownLosesOnlyBatches
    TypeOK
    CapRespected
    EachPathOnce
    LossOnlyByOverflow
PROPERTIES
    KeepsLedger
    NoTaskAfterExit
    OwedIsServed
    ShutdownCompletes
CHECK_DEADLOCK FALSE
