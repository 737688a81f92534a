SPECIFICATION MCSpec
CONSTANTS
    Device = {hda, fd0}
    RootDevice = hda
    Directory <- Directories
    Allowed = {"Above"}
    MaxCalls = 0
    Handle = {}
    DiskModes = {{"read"}}
    Late = {}
    Size = 0
    Wrap = 2
CHECK_DEADLOCK FALSE
INVARIANT NearestPoint
