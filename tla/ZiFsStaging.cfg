SPECIFICATION Spec
CONSTANTS
    NameA = NameA
    NameB = NameB
    W1 = W1
    W2 = W2
    RecordBlocks = 2
    RecordsPerBlock = 3
    DirectoryBlocks = 3
    DataBlocks = 5
    BlockSize = 2
    EntriesPerBlock = 1
    MaxExtents = 2
    MaxDirectoryBlocks = 3
    MaxFileId = 5
    Workspaces <- MCWorkspaces
    ImageCapacity = 6
    Names <- MCNames
    NoName = NoName
    Chunks <- MCChunks
    MaxFileSize = 6
    MaxPrepared = 3
    SecurityIds = {1}
    Directories <- MCDirectories
    Existing <- MCExisting
    Stale <- MCStale
INVARIANTS BitmapExact SlackIsZero EveryFileHasOnePath
PROPERTY CommitsAreFileOperations
SYMMETRY MCSymmetry
CHECK_DEADLOCK FALSE
