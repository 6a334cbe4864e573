SPECIFICATION Spec
CONSTANTS
    Clients = {c1, c2}
    Main = Main
    None = None
    Raw <- MCRaw
    Trim <- MCTrim
    Blank = {""}
    Relative = {"vm"}
    Builtins <- MCBuiltins
    Lists <- MCLists
    MaxSets = 2
    MaxFaults = 0
    MaxLives = 1
INVARIANTS
    SlotFollowsMemory
CHECK_DEADLOCK FALSE
