SPECIFICATION Spec
CONSTANTS
    h1 = h1
    h2 = h2
    h3 = h3
    s1 = s1
    s2 = s2
    u1 = u1
    u2 = u2
    u3 = u3
    n1 = n1
    n2 = n2
    None = None
    Handlers <- ThreeHandlers
    Storages <- OneStorage
    Users <- ThreeUsers
    Names <- OneName
    QueriesMayFail = TRUE
SYMMETRY Symmetry
INVARIANTS
    TypeOK
    RightsNeedStorage
    WorkersHoldStorage
PROPERTIES
    LastAdminFallsToStaleCheck
    AbandonedForGood
