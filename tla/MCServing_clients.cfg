SPECIFICATION FairSpec
CONSTANTS
    c1 = c1
    c2 = c2
    w1 = w1
    Conns = {c1, c2}
    Workers = {w1}
    Nobody = Nobody
    Files = {1, 2, 3, 4}
    AtFirst = {1, 3}
    Infected = {1}
    Excluded = {4}
    ROOM = 1
    PROGRESS_EVERY = 2
    MaxEvents = 3
INVARIANTS
    StoppedScansStop
    CompletedCoversAll
PROPERTIES
    RowIsFinal
    ScansEnd
    GoneAreForgotten
    StopCompletes
CHECK_DEADLOCK FALSE
