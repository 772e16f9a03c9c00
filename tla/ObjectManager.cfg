CONSTANTS
    Objects = {o1, o2}
    Threads = {t1, t2}
    Tables = {a}
    Capacity = 2
    DirCapacity = 1
    HasCallback = {o1}
    MaxCount = 3
    MaxGeneration = 2
    NoObject = NoObject
SPECIFICATION FairSpec
INVARIANTS LifetimesExact TablesExact
PROPERTY StaleStaysStale OperationsReturn
CHECK_DEADLOCK FALSE
