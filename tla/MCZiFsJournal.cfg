CONSTANTS
    Blocks = {1, 2}
    RootBlock = 1
    RecordCapacity = 6
    MaxImages = 2
    Settings <- MCSettings
    MaxStamps = 3
SPECIFICATION FairSpec
INVARIANTS VolumeWhole WriteAhead RefusesOnlyReusedIds
PROPERTIES AtomicVolume HeaderAdvances RestartEnds
CHECK_DEADLOCK FALSE
