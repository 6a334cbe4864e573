SPECIFICATION Spec
CONSTANTS
    p1 = p1
    p2 = p2
    s1 = s1
    s2 = s2
    k1 = k1
    k2 = k2
    Paths = {p1, p2}
    Scanners = {s1, s2}
    Clients = {k1, k2}
    Nobody = Nobody
    CrossDevice = {p2}
    Rewrites = {p1, p2}
    MaxFiles = 2
    MaxIds = 2
    MaxFaults = 1
SYMMETRY Symmetry
INVARIANTS
    RowsAgree
    NoContentLost
PROPERTIES
    KeepsVault
CHECK_DEADLOCK FALSE
