------------------------------ MODULE Spinlock ------------------------------
(***************************************************************************)
(* struct spinlock (src/src/spinlock.c) on the one processor: a flag, and  *)
(* threads that take it a statement at a time.  Any interrupt may switch   *)
(* threads, unless the running thread has turned interrupts off.  A thread *)
(* of a user process may be inside a system call, lock in hand, when the   *)
(* shell kills the process.                                                *)
(***************************************************************************)
EXTENDS Naturals

CONSTANTS
    Thread,     \* the threads that use the lock
    Mortal      \* those that kill_process() may end at any time

ASSUME ThreadAssumption ==
    Thread # {} /\ Mortal \subseteq Thread

VARIABLES
    count,      \* spinl->count
    pc,         \* pc[t]: the next statement of thread t
    running,    \* the thread that has the processor
    interrupts, \* the interrupt flag of the running thread
    killed      \* the threads that were ended

vars == <<count, pc, running, interrupts, killed>>

Labels == {"out", "spin", "cli", "test", "set", "in"}

Init ==
    /\ count = 0                            \* spinl_init()
    /\ pc = [t \in Thread |-> "out"]
    /\ running \in Thread
    /\ interrupts = TRUE
    /\ killed = {}

Goto(t, from, to) ==
    /\ running = t /\ t \notin killed
    /\ pc[t] = from
    /\ pc' = [pc EXCEPT ![t] = to]

\* A call of spinl_lock().
Call(t) == Goto(t, "out", "spin") /\ UNCHANGED <<count, running, interrupts, killed>>

\* spinl_spin(): while (spinl->count) switch_thread();
Spin(t) ==
    /\ Goto(t, "spin", IF count = 0 THEN "cli" ELSE "spin")
    /\ IF count = 0 THEN UNCHANGED running ELSE running' \in Thread \ killed
    /\ UNCHANGED <<count, interrupts, killed>>

\* Mutant: the interrupts stay on.
NoCli(t) == Goto(t, "cli", "test") /\ UNCHANGED <<count, running, interrupts, killed>>

Cli(t) == Goto(t, "cli", "test") /\ interrupts' = FALSE /\ UNCHANGED <<count, running, killed>>

\* if (!spinl_locked(spinl)) ... else asm_sti() and round again.
Test(t) ==
    /\ Goto(t, "test", IF count = 0 THEN "set" ELSE "spin")
    /\ interrupts' = IF count = 0 THEN interrupts ELSE TRUE
    /\ UNCHANGED <<count, running, killed>>

\* spinl->count = 1; asm_sti();
Set(t) ==
    /\ Goto(t, "set", "in")
    /\ count' = 1
    /\ interrupts' = TRUE
    /\ UNCHANGED <<running, killed>>

\* Mutant: the flag is left set.
UnlockNothing(t) == Goto(t, "in", "out") /\ UNCHANGED <<count, running, interrupts, killed>>

\* spinl_unlock(), a plain store.
Unlock(t) ==
    /\ Goto(t, "in", "out")
    /\ count' = 0
    /\ UNCHANGED <<running, interrupts, killed>>

\* An interrupt ends in scheduler().
Interrupt ==
    /\ interrupts
    /\ running' \in Thread \ killed
    /\ UNCHANGED <<count, pc, interrupts, killed>>

\* The running thread ends thread t; nothing releases what t holds.
Kill(t) ==
    /\ t \in Mortal \ killed /\ t # running /\ pc[running] = "out"
    /\ killed' = killed \cup {t}
    /\ UNCHANGED <<count, pc, running, interrupts>>

Step(t) == Call(t) \/ Spin(t) \/ Cli(t) \/ Test(t) \/ Set(t) \/ Unlock(t)

Next == Interrupt \/ \E t \in Thread : Step(t) \/ Kill(t)

Spec == Init /\ [][Next]_vars

\* The round-robin scheduler gives every thread that lives the processor, again and
\* again (NoStarvation of Multitasking), for at least one statement; whoever holds
\* the lock goes on to release it.
FairSpec ==
    /\ Spec
    /\ \A t \in Thread :
          /\ SF_vars(Interrupt /\ running' = t)
          /\ SF_vars(Spin(t)) /\ SF_vars(Cli(t) \/ Test(t) \/ Set(t)) /\ SF_vars(Unlock(t))

-----------------------------------------------------------------------------
TypeOK ==
    /\ count \in {0, 1}
    /\ pc \in [Thread -> Labels]
    /\ running \in Thread
    /\ interrupts \in BOOLEAN
    /\ killed \subseteq Mortal

\* No two threads are between spinl_lock() and spinl_unlock() at once, alive or
\* killed there: the question the comment in spinl_lock() leaves open.
MutualExclusion == \A t, u \in Thread : pc[t] = "in" /\ pc[u] = "in" => t = u

\* Only the two statements after asm_cli() run with interrupts off, and they never
\* wait: the timer is held up by nobody who spins, or who holds the lock.
InterruptsOffBriefly == ~interrupts => pc[running] \in {"test", "set"}

\* While threads want the lock, one gets it in the end, unless its holder was killed.
WantedIsTaken ==
    (\E t \in Thread \ killed : pc[t] \in {"spin", "cli", "test", "set"})
        ~> (\/ \E t \in Thread : pc[t] = "in"
            \/ \A t \in Thread \ killed : pc[t] = "out")

\* The spinlock gives the exclusive use that ExclusiveUse promises: nobody is let in beside
\* another, whoever leaves was inside, and a thread killed inside stays there.
At(labels) == {t \in Thread : pc[t] \in labels}
Abstract == INSTANCE ExclusiveUse
    WITH asking <- At({"spin", "cli", "test", "set"}), inside <- At({"in"})
ImplementsLock == Abstract!Promise
=============================================================================
