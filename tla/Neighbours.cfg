SPECIFICATION Spec
CONSTANTS
    r1 = r1
    r2 = r2
    r3 = r3
    s1 = s1
    s2 = s2
    a = a
    b = b
    f = f
    g = g
    None = None
    Empty = Empty
    Requests <- TwoRequests
    Seeds <- TwoSeeds
    Names <- AllNames
    Wide <- None_
    Misread <- UnderscoreA
    Folders <- Beside
    Uploads <- BesideFiles
    Deletes <- DeleteA
    InitialPaths <- BesideFiles
SYMMETRY RequestSymmetry
PROPERTY OnlyNamedRowsGo
