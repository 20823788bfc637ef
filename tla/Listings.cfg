SPECIFICATION Spec
CONSTANTS
    r1 = r1
    r2 = r2
    r3 = r3
    s1 = s1
    s2 = s2
    a = a
    b = b
    f = f
    g = g
    None = None
    Empty = Empty
    Requests <- TwoRequests
    Seeds <- None_
    Names <- AllNames
    Wide <- None_
    Misread <- UnderscoreAndBackslash
    Folders <- OnlyG
    Uploads <- None_
    Deletes <- None_
    InitialPaths <- None_
SYMMETRY RequestSymmetry
INVARIANT FoldersCanBeOpened
