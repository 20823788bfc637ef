SPECIFICATION FairSpec
CONSTANTS
    r1 = r1
    r2 = r2
    r3 = r3
    p1 = p1
    p2 = p2
    None = None
    Requests <- ThreeRequests
    Paths <- OnePath
    Scopes <- FileScopes
    MaxSize = 1
    Capacity = 1
    Faults <- AllButFallback
    MaxCrashes = 1
INVARIANT FailedUploadLeavesNoRow
PROPERTIES
    EveryRequestEnds
    ReservationsEnd
