SPECIFICATION QuietSpec
CONSTANTS
    MaxThreads = 5
    MaxProcesses = 4
    Killable = {1, 2, 3}
INVARIANTS
    EveryEndedThreadListedOnce
    EveryEndedProcessListedOnce
    PagedirOutlivesThreads
    DeadProcessHasNoLiveThread
    TablesAgree
PROPERTY
    ImplementsLifecycle
