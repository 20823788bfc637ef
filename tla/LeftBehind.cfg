SPECIFICATION Spec
CONSTANTS
    r1 = r1
    r2 = r2
    r3 = r3
    p1 = p1
    p2 = p2
    None = None
    Requests <- TwoRequests
    Paths <- OnePath
    Scopes <- FileScopes
    MaxSize = 1
    Capacity = 1
    Faults <- NoFaults
    MaxCrashes = 0
SYMMETRY RequestSymmetry
INVARIANT NothingLeftBehind
