SPECIFICATION Spec
CONSTANTS
    Clients = {c1, c2}
    Main = Main
    None = None
    Raw <- MCRaw
    Trim <- MCTrim
    Blank = {""}
    Relative = {"vm"}
    Builtins <- MCBuiltins
    Lists <- MCLists
    MaxSets = 4
    MaxFaults = 1
    MaxLives = 3
INVARIANTS
    PromiseKept
    RunningIsCurrent
SYMMETRY ClientSymmetry
CHECK_DEADLOCK FALSE
