SPECIFICATION Spec
CONSTANTS
    Fan = 6
    Levels = 3
    KernelRoot = 1
    PagesOfMetadata = 2
    ModulePages <- MCModulePages
    BootRanges <- MCBootRanges
    KernelImage <- MCKernelImage
    PoolWindow = 36
    PoolPages = 1
    StackWindow = 72
    StackSlots = 4
    StackSlotPages = 3
    ApicPage = 108
    ApicPhysical = 90
    TemporaryPage = 109
    MmioWindow = 144
    MmioSlots = 2
    MmioSlotPages = 2
    UserMin = 1
    RegionCapacity = 6
    Image <- MCImage
    ImageCapacity = 4
    SearchBase = 2
    SearchEnd = 24
    Slots = {1, 2, 3}
    HandleCapacity = 1
    Launches <- MCLaunches
    DataBase = 30
    DataEnd = 34
    UserStackPage = 35
    UserAddresses = {1, 35}
    DmaSizes = {4, 8, 12, 15, 17, 19, 21, 23}
    MaxCreates = 3
    MaxDriver = 1
INVARIANTS
    MemoryAccounted
    MappingsConfined
    ReleasesNeverFail
    ChainExact
PROPERTIES
    FailureLeavesNoTrace
CHECK_DEADLOCK FALSE
