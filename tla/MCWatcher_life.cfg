SPECIFICATION FairSpec
CONSTANTS
    Callers = {c1}
    Signal = Signal
    None = None
    MAX_RESTARTS = 1
    MaxHandles = 2
    MaxGenerations = 4
    MaxExecs = 1
    MaxFaults = 2
INVARIANTS
    
    ProtectedOrVisible
    
PROPERTIES
    
    StopReturns
CHECK_DEADLOCK FALSE
