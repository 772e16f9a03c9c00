CONSTANTS
    lo = lo
    mid = mid
    rt = rt
    x = x
    y = y
    z = z
    Threads = {lo, mid, rt}
    Idle = Idle
    Base <- MCBase
    Eligible = {lo, mid, rt}
    DynamicMax = 2
    TopPriority = 3
    Quantum = 1
    Objects = {x, y, z}
    Kinds <- MCKinds
    Limit = 2
    MaxDepth = 2
    WaitLists <- MCLists
    NoThread = NoThread
SPECIFICATION Spec
INVARIANTS NoLostWakeup WaitsConsistent
PROPERTIES OwnerKeepsMutex
CHECK_DEADLOCK FALSE
