SPECIFICATION Spec
CONSTANTS
    r1 = r1
    r2 = r2
    r3 = r3
    p1 = p1
    p2 = p2
    None = None
    Requests <- ThreeRequests
    Paths <- TwoPaths
    Scopes <- FileAndFolderScopes
    MaxSize = 2
    Capacity = 1
    Faults <- AllFaults
    MaxCrashes = 1
SYMMETRY RequestSymmetry
INVARIANTS
    TypeOK
    ChunksAllOrNothing
    AcknowledgedIsStored
    LostDataIsExplained
    DownloadIsWhole
    NoReplyIsLost
PROPERTIES
    RowsGoByDelete
    ImplementsFileStore
