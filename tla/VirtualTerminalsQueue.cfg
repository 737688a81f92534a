SPECIFICATION FairSpec
CONSTANTS
    Thread = {t1, t2}
    Nobody = nobody
    VtCount = 2
    Width = 2
    MaxPieces = 2
    MaxPresses = 2
CHECK_DEADLOCK FALSE
PROPERTY QueuedChangeIsMade
