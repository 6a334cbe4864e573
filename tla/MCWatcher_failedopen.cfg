SPECIFICATION Spec
CONSTANTS
    Callers = {c1}
    Signal = Signal
    None = None
    MAX_RESTARTS = 0
    MaxHandles = 1
    MaxGenerations = 1
    MaxExecs = 1
    MaxFaults = 1
INVARIANTS
    NeverOpenAndUnread
CHECK_DEADLOCK FALSE
