---------------------------- MODULE ExclusiveUse ----------------------------
\* What spinl_lock() and spinl_unlock() promise to the code between them.  A thread asks for
\* the use of what is locked, is let in only when it has asked and nobody is inside, and only
\* one that is inside leaves.  No order is promised to those that ask.
CONSTANT Thread

VARIABLES
    asking,     \* the threads that called spinl_lock() and are not inside yet
    inside      \* the threads between spinl_lock() and spinl_unlock()

Unused == asking \cup inside = {}

Ask(t) ==
    /\ t \notin asking \cup inside
    /\ asking' = asking \cup {t} /\ inside' = inside

LetIn(t) ==
    /\ t \in asking /\ inside = {}
    /\ asking' = asking \ {t} /\ inside' = {t}

Leave(t) ==
    /\ t \in inside
    /\ inside' = inside \ {t} /\ asking' = asking

Use == \E t \in Thread : Ask(t) \/ LetIn(t) \/ Leave(t)

Promise == Unused /\ [][Use]_<<asking, inside>>
=============================================================================
