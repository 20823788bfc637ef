SPECIFICATION Spec
CONSTANTS
    r1 = r1
    r2 = r2
    r3 = r3
    s1 = s1
    s2 = s2
    a = a
    b = b
    f = f
    g = g
    None = None
    Empty = Empty
    Requests <- ThreeRequests
    Seeds <- TwoSeeds
    Names <- AllNames
    Wide <- OnlyB
    Misread <- UnderscoreAndBackslash
    Folders <- Nested
    Uploads <- SomeUploads
    Deletes <- SomeDeletes
    InitialPaths <- SomePaths
SYMMETRY RequestSymmetry
INVARIANTS
    TypeOK
    OneRowPerPath
    DeletedIsGone
    ListingIsExact
    CircleSharesRows
PROPERTIES
    OnlyMatchedRowsGo
    FolderGoesByOverlap
    RefusedByNewRow
