CONSTANTS
    Volumes <- MCVolumes
    ArenaSize = 752
    ClientSizes = {112}
    MaxClient = 4
    Slots = {1, 2, 3}
    FileSize <- MCFileSize
    FileLimit = 64
    TotalLimit = 64
    Libraries <- MCLibraries
SPECIFICATION Spec
INVARIANTS
    
    NothingOutlivesBootstrap
    DependenciesFirst
    SupervisionBounded
CHECK_DEADLOCK FALSE
