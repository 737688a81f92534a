SPECIFICATION Spec
CONSTANTS
    MaxThreads = 5
    MaxProcesses = 3
    Killable = {1, 2}
CHECK_DEADLOCK FALSE
INVARIANT FreesOnlyEndedThreads
