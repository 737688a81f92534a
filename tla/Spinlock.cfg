\* Two contenders and a third thread that takes the processor between their statements, and
\* may be killed.
SPECIFICATION FairSpec
CONSTANTS
    Thread = {t1, t2, t3}
    Mortal = {t3}
INVARIANTS
    MutualExclusion
PROPERTIES
    WantedIsTaken
    ImplementsLock
