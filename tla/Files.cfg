SPECIFICATION MCSpec
CONSTANTS
    Device = {hda, fd0}
    RootDevice = hda
    Directory <- Directories
    Allowed = {}
    MaxCalls = 5
    Handle = {1}
    DiskModes = {{"read"}, {"read", "write"}}
    Late = {"fd0"}
    Size = 2
    Wrap = 8
CHECK_DEADLOCK FALSE
INVARIANTS
    ShutdownUnmounts
    BlocksAreOwn
    CallsAreDispatched
PROPERTIES
    ImplementsMountTable
    ImplementsFileStore
