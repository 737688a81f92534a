SPECIFICATION MCSpec
CONSTANTS
    Caller = {fd0, fd1}
    MaxTimers = 2
    Delays = {1, 2}
    Times = {0, 1, 2}
    MaxTicks = 5
    MaxStarts = 3
    TickRate = 4
    TicksPerCycle = 3
    Dates <- EachDate
    MaxSeconds = 90000
    BlockSize = 2
    BlockCount = 3
    Byte = {0, 1}
    MaxRequest = 4
    Failing = TRUE
    FloppyThread = {fd0, fd1}
    MAX_DRIVES = 2
    Supported = {0}
    sectors_per_track = 2
    Cylinders = 2
    MaxRequests = 2
    IdeThread = {fd0, fd1}
    Kind <- Kinds
    DriveSize <- Sizes
    Chunk = 2
    SectorBytes = 2
    SectorWords = 2
    MaxCount = 3
    MaxCalls = 3
    Disks <- EachDisk
CONSTRAINT FewSeconds
SYMMETRY Symmetry
CHECK_DEADLOCK FALSE
INVARIANTS
    
    CleanBufferIsStored
    DrivesServe
    PartitionsAreFound
    FloppyServes
PROPERTIES
    
    ImplementsByteFile
