-------------------------- MODULE ProcessLifecycle --------------------------
(***************************************************************************)
(* What the tables of src/src/multitasking promise the rest of the kernel, *)
(* whatever the order in which interrupts, exits, kills and clean-ups come *)
(* in: a process lives, dies as a whole, and its slot is free again only   *)
(* after every thread slot it owned is; a thread slot changes owner only   *)
(* through being free.                                                     *)
(***************************************************************************)
CONSTANTS Thread, Process, Kernel, None

VARIABLES
    process,    \* process[p]: "free", "live" or "dead"
    owner       \* owner[t]: the process the thread belongs to, or None

vars == <<process, owner>>

\* The kernel process lives from the start, with one thread.
Init ==
    /\ process = [p \in Process |-> IF p = Kernel THEN "live" ELSE "free"]
    /\ \E first \in Thread :
          owner = [t \in Thread |-> IF t = first THEN Kernel ELSE None]

AddKernelThread(t) ==
    /\ owner[t] = None
    /\ owner' = [owner EXCEPT ![t] = Kernel]
    /\ UNCHANGED process

\* A program starts: a free process and its one thread, together.
Start(p, t) ==
    /\ process[p] = "free" /\ owner[t] = None
    /\ process' = [process EXCEPT ![p] = "live"]
    /\ owner' = [owner EXCEPT ![t] = p]

\* It exits, faults or is killed.
Die(p) ==
    /\ p # Kernel /\ process[p] = "live"
    /\ process' = [process EXCEPT ![p] = "dead"]
    /\ UNCHANGED owner

FreeThread(t) ==
    /\ owner[t] # None /\ process[owner[t]] = "dead"
    /\ owner' = [owner EXCEPT ![t] = None]
    /\ UNCHANGED process

FreeProcess(p) ==
    /\ process[p] = "dead"
    /\ \A t \in Thread : owner[t] # p
    /\ process' = [process EXCEPT ![p] = "free"]
    /\ UNCHANGED owner

Next ==
    \/ \E t \in Thread : AddKernelThread(t) \/ FreeThread(t)
    \/ \E p \in Process : Die(p) \/ FreeProcess(p)
    \/ \E p \in Process, t \in Thread : Start(p, t)

Spec == Init /\ [][Next]_vars
=============================================================================
