SPECIFICATION MCSpec
CONSTANTS
    RamPages = 16
    KernelPages = 4
    WordBits = 4
    BitmapBits = 20
    Gap = 20
    Pid <- Pids
    PeCount = 4
    KmemEnd = 2
    StackEnd = 3
    MaxStacks = 2
    MaxAllocations = 2
    CodePages <- Codes
    AreaPages <- Areas
    MaxKernelThreads = 1
CHECK_DEADLOCK FALSE
INVARIANT UnmapsMappedPages
