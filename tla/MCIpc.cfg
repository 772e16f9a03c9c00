CONSTANTS
    Pairs = {p1, p2}
    Threads = {t1, t2}
    QueueLimit = 1
    PortLimit = 1
    MaxTransfers = 2
    MaxCalls = 3
SPECIFICATION Spec
SYMMETRY Symmetry
INVARIANTS PairsConsistent NothingLeaks
PROPERTY QueueOutlivesPeer
CHECK_DEADLOCK FALSE
