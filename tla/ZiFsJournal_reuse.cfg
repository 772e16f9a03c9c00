CONSTANTS
    Blocks = {1, 2}
    RootBlock = 1
    RecordCapacity = 6
    MaxImages = 2
    Settings <- MCReuse
    MaxStamps = 3
SPECIFICATION Spec
INVARIANTS EveryRestartOpens
CHECK_DEADLOCK FALSE
