----------------------------- MODULE MountTable -----------------------------
(***************************************************************************)
(* What the mount system promises: a device is mounted at each of some     *)
(* points, and is open once for every point it is mounted at.              *)
(***************************************************************************)
EXTENDS Naturals, FiniteSets, Functions

CONSTANTS Device, Point, First      \* First: the table after the kernel has started

VARIABLES table, open, running

vars == <<table, open, running>>

Handles(t) == [d \in Device |-> Cardinality({p \in DOMAIN t : t[p] = d})]

Becomes(t) == table' = t /\ open' = Handles(t)

Init == table = First /\ open = Handles(First) /\ running = TRUE

Mount(p, d) ==
    /\ p \notin DOMAIN table
    /\ Becomes([q \in DOMAIN table \cup {p} |-> IF q = p THEN d ELSE table[q]])

Remount(p, d) == p \in DOMAIN table /\ Becomes([table EXCEPT ![p] = d])

Umount(p) == p \in DOMAIN table /\ Becomes(Restrict(table, DOMAIN table \ {p}))

Change == \E p \in Point : Umount(p) \/ (\E d \in Device : Mount(p, d) \/ Remount(p, d))

\* The kernel is shut down: some points may not let go of their devices.
Shutdown ==
    /\ DOMAIN table' \subseteq DOMAIN table
    /\ Becomes(Restrict(table, DOMAIN table'))

Next == running = TRUE /\ IF running' = TRUE THEN Change ELSE Shutdown

Spec == Init /\ [][Next]_vars
=============================================================================
