CONSTANTS
    Volumes <- MCVolumes
    ArenaSize = 752
    ClientSizes = {8, 40}
    MaxClient = 4
    Slots = {1, 2, 3}
    FileSize <- MCFileSize
    FileLimit = 64
    TotalLimit = 64
    Libraries <- MCLibraries
SPECIFICATION Spec
INVARIANT PoolValidates
CHECK_DEADLOCK FALSE
