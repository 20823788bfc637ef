SPECIFICATION FairSpec
CONSTANTS
    r1 = r1
    r2 = r2
    r3 = r3
    p1 = p1
    p2 = p2
    root = root
    None = None
    Requests <- ThreeRequests
    Emails <- OneEmail
    SuperuserEmail = root
    Passwords <- TwoPasswords
    Variables <- SomeVariables
    Environments <- SomeEnvironments
    OldSchemas <- Versions
    Capacity = 1
    MaxKills = 1
INVARIANTS
    TypeOK
    ServesOnlyComplete
    SchemaIsWhole
    OnePasswordPerAccount
PROPERTIES
    PanicsWithoutManager
    EventuallyServes
    TransfersEnd
