SPECIFICATION FairSpec
CONSTANTS
    c1 = c1
    c2 = c2
    c3 = c3
    w1 = w1
    w2 = w2
    None = None
    Calls <- ThreeCalls
    Workers <- OneWorker
    Usages <- SixIds
    Rate = 1
    Window = 1
    Connections = 2
    TxTime = 0
    QueriesMayFail = FALSE
PROPERTY EveryCallEnds
