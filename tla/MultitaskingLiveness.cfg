SPECIFICATION FairSpec
CONSTANTS
    MaxThreads = 5
    MaxProcesses = 3
    Killable = {1, 2}
PROPERTIES
    NoStarvation
    CommandsComplete
