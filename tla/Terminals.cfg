SPECIFICATION MCSpec
CONSTANTS
    Reader = {shell}
    BufferSize = 2
    MaxEvents = 4
    Thread = {t1, t2}
    Nobody = nobody
    VtCount = 2
    Width = 3
    MaxPieces = 2
    MaxPresses = 2
CHECK_DEADLOCK FALSE
INVARIANTS
    DisplayShowsCurrent
    PrintsAreWhole
PROPERTIES
    ImplementsQueue
    CharactersAreRead
    PrintsComplete
