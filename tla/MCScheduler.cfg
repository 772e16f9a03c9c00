CONSTANTS
    Threads = {a, b, far}
    a = a
    b = b
    far = far
    Idle = Idle
    Base <- MCBase
    Eligible = {a, b}
    DynamicMax = 2
    TopPriority = 3
    Quantum = 2
SPECIFICATION SchedulerSpec
INVARIANTS SchedulerConsistent
PROPERTIES TickPicksHighest TopLevelRuns
