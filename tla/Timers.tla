------------------------------- MODULE Timers -------------------------------
(***************************************************************************)
(* The kernel's timers (src/src/timer.c): a table of jobs that the timer   *)
(* interrupt runs, and the threads that start and stop jobs between its    *)
(* ticks.  Nothing keeps the interrupt, or another thread, from the middle *)
(* of a start or a stop.                                                   *)
(***************************************************************************)
EXTENDS Integers, FiniteSets

CONSTANTS
    Caller,             \* the threads that start timers
    MaxTimers,          \* MAX_TIMERS
    Delays, Times,      \* the periods, in ticks, and the numbers of runs asked for
    MaxTicks, MaxStarts \* bound the uptime and the timers started

ASSUME TimerAssumption ==
    /\ MaxTimers \in Nat \ {0} /\ MaxTicks \in Nat /\ MaxStarts \in Nat
    /\ Delays \subseteq Nat \ {0} /\ Times \subseteq Nat

Slots == 0..(MaxTimers - 1)
Timer == [id : 0..MaxStarts, active : BOOLEAN, freq : {0} \cup Delays, times : {0} \cup Times,
          times_run : Nat, next_run : Nat]
NoTimer == [id |-> 0, active |-> FALSE, freq |-> 0, times |-> 0, times_run |-> 0, next_run |-> 0]

VARIABLES
    timers, timer_count,
    retval,             \* the last identifier given out, static in ktimer_start()
    now,                \* the uptime, in ticks
    step, slot,         \* the step each thread takes next, and its slot of the table
    freq, times,        \* the parameters of its ktimer_start()
    timer_id,           \* the timer it has started last
    started,            \* history: when each timer was started, or NotStarted
    runs,               \* history: how often each timer has run
    faults              \* history: see Tick, CountUp, StopTest

table  == <<timers, timer_count, retval>>
caller == <<slot, freq, times, timer_id>>
past   == <<started, runs>>
timerVars == <<table, now, step, caller, past, faults>>

Ids        == 1..MaxStarts
NotStarted == -1
Onto(c, to) == step' = [step EXCEPT ![c] = to]

-----------------------------------------------------------------------------
(* The interrupt.                                                          *)

LastRun(t) == t.times > 0 /\ t.times_run + 1 = t.times

\* Mutant: a job is run in the tick behind the one it is due in.
DueLate(t, at) == t.active /\ t.next_run < at
Due(t, at) == t.active /\ t.next_run <= at

AfterRun(t) ==
    [t EXCEPT !.next_run = t.next_run + t.freq, !.times_run = t.times_run + 1, !.active = ~LastRun(t)]

\* A round of the loop of execute_jobs(), at slot i: j counts the active timers it has met, and
\* the loop ends when there are as many as timer_count, which the jobs that end make smaller.
Round(r, i, at) ==
    LET t == timers[i]
    IN  IF r.j >= r.count \/ ~t.active THEN r
        ELSE IF ~Due(t, at) THEN [r EXCEPT !.j = @ + 1]
        ELSE [j      |-> r.j + 1,
              count  |-> r.count - (IF LastRun(t) THEN 1 ELSE 0),
              timers |-> [r.timers EXCEPT ![i] = AfterRun(t)],
              ran    |-> r.ran \cup {t.id}]

\* execute_jobs().
SweepStart == [j |-> 0, count |-> timer_count, timers |-> timers, ran |-> {}]
Sweep(at) ==
    LET s[n \in 0..MaxTimers] == IF n = 0 THEN SweepStart ELSE Round(s[n - 1], n - 1, at)
    IN  s[MaxTimers]

\* timer_handler().  If timer_count is more than the active timers, the loop runs off the
\* table ("OffTheTable"); a timer that is being started may be run with a stale next_run
\* ("HalfStarted").
Tick ==
    LET r == Sweep(now + 1)
    IN  /\ now < MaxTicks /\ now' = now + 1
        /\ timers' = r.timers /\ timer_count' = r.count
        /\ runs' = [i \in Ids |-> runs[i] + (IF i \in r.ran THEN 1 ELSE 0)]
        /\ faults' = faults
              \cup (IF r.j < r.count THEN {"OffTheTable"} ELSE {})
              \cup (IF \E c \in Caller : step[c] = "fill" /\ timers[slot[c]].id \in r.ran
                    THEN {"HalfStarted"} ELSE {})
        /\ UNCHANGED <<retval, step, caller, started>>

-----------------------------------------------------------------------------
(* ktimer_start().                                                         *)

Start(c) ==
    /\ step[c] = "idle" /\ timer_id[c] = 0 /\ retval < MaxStarts
    /\ timer_count # MaxTimers
    /\ \E f \in Delays, n \in Times :
          freq' = [freq EXCEPT ![c] = f] /\ times' = [times EXCEPT ![c] = n]
    /\ Onto(c, "count")
    /\ UNCHANGED <<table, now, slot, timer_id, past, faults>>

\* The count goes up before there is an active timer for it.  A tick in between counts one
\* too many; a second thread may pass the same test, or find the same free slot ("Both").
CountUp(c) ==
    /\ step[c] = "count" /\ retval < MaxStarts
    /\ timer_count' = timer_count + 1 /\ retval' = retval + 1
    /\ timer_id' = [timer_id EXCEPT ![c] = retval + 1]
    /\ faults' = IF \E d \in Caller \ {c} : step[d] # "idle" THEN faults \cup {"Both"} ELSE faults
    /\ Onto(c, "find")
    /\ UNCHANGED <<timers, now, slot, freq, times, past>>

\* for (i = 0; timers[i].active; ++i): the first free slot, which there is unless two
\* threads were given the last one.
Find(c) ==
    /\ step[c] = "find"
    /\ \E i \in Slots :
          /\ ~timers[i].active /\ \A k \in 0..(i - 1) : timers[k].active
          /\ slot' = [slot EXCEPT ![c] = i]
    /\ Onto(c, "activate")
    /\ UNCHANGED <<table, now, freq, times, timer_id, past, faults>>

\* .id, .func and .active; the rest is still that of the slot's last timer.
Activate(c) ==
    /\ step[c] = "activate"
    /\ timers' = [timers EXCEPT ![slot[c]].id = timer_id[c], ![slot[c]].active = TRUE]
    /\ Onto(c, "fill")
    /\ UNCHANGED <<timer_count, retval, now, caller, past, faults>>

FirstRun(f) == now + f

\* .times, .times_run, .freq and .next_run.
Fill(c) ==
    /\ step[c] = "fill"
    /\ timers' = [timers EXCEPT ![slot[c]].times = times[c], ![slot[c]].times_run = 0,
                                ![slot[c]].freq = freq[c],
                                ![slot[c]].next_run = FirstRun(freq[c])]
    /\ started' = [started EXCEPT ![timer_id[c]] = now]
    /\ slot' = [slot EXCEPT ![c] = 0]
    /\ freq' = [freq EXCEPT ![c] = 0] /\ times' = [times EXCEPT ![c] = 0]
    /\ Onto(c, "idle")
    /\ UNCHANGED <<timer_count, retval, now, timer_id, runs, faults>>

-----------------------------------------------------------------------------
(* ktimer_stop() of the timer started last, as floppy.c calls it.          *)

\* Its slot, if the table still holds the timer and it is active; the caller forgets it.
StopTest(c) ==
    /\ step[c] = "idle" /\ timer_id[c] # 0
    /\ \/ \E i \in Slots :
             /\ timers[i].id = timer_id[c] /\ timers[i].active
             /\ slot' = [slot EXCEPT ![c] = i]
             /\ Onto(c, "stop") /\ UNCHANGED timer_id
       \/ /\ ~\E i \in Slots : timers[i].id = timer_id[c] /\ timers[i].active
          /\ timer_id' = [timer_id EXCEPT ![c] = 0]
          /\ UNCHANGED <<slot, step>>
    /\ UNCHANGED <<table, now, freq, times, past, faults>>

\* .active = 0, though its last run may have done so since the test, and counted down
\* ("Ended").
Stop(c) ==
    /\ step[c] = "stop"
    /\ timers' = [timers EXCEPT ![slot[c]].active = FALSE]
    /\ faults' = faults
          \cup (IF timers[slot[c]].active /\ timers[slot[c]].id = timer_id[c] THEN {} ELSE {"Ended"})
          \cup (IF \E d \in Caller \ {c} : step[d] # "idle" THEN {"Both"} ELSE {})
    /\ Onto(c, "countdown")
    /\ UNCHANGED <<timer_count, retval, now, caller, past>>

CountDown == timer_count - 1

StopCount(c) ==
    /\ step[c] = "countdown"
    /\ timer_count' = CountDown
    /\ timer_id' = [timer_id EXCEPT ![c] = 0] /\ slot' = [slot EXCEPT ![c] = 0]
    /\ Onto(c, "idle")
    /\ UNCHANGED <<timers, retval, now, freq, times, past, faults>>

TimerInit ==
    /\ timers = [i \in Slots |-> NoTimer] /\ timer_count = 0 /\ retval = 0 /\ now = 0
    /\ step = [c \in Caller |-> "idle"] /\ slot = [c \in Caller |-> 0]
    /\ freq = [c \in Caller |-> 0] /\ times = [c \in Caller |-> 0]
    /\ timer_id = [c \in Caller |-> 0]
    /\ started = [i \in Ids |-> NotStarted] /\ runs = [i \in Ids |-> 0]
    /\ faults = {}

TimerNext ==
    \/ Tick
    \/ \E c \in Caller : \/ Start(c) \/ CountUp(c) \/ Find(c) \/ Activate(c) \/ Fill(c)
                         \/ StopTest(c) \/ Stop(c) \/ StopCount(c)

TimerSpec == TimerInit /\ [][TimerNext]_timerVars

\* The calls without the faults named above: a start or a stop that neither a tick nor
\* another thread comes into the middle of where it matters.
QuietTimerNext == TimerNext /\ faults' = {}
QuietTimerSpec == TimerInit /\ [][QuietTimerNext]_timerVars

-----------------------------------------------------------------------------
(* Properties.                                                             *)

Steps == {"idle", "count", "find", "activate", "fill", "stop", "countdown"}

TimerTypeOK ==
    /\ timers \in [Slots -> Timer] /\ timer_count \in 0..MaxTimers /\ retval \in 0..MaxStarts
    /\ now \in 0..MaxTicks /\ step \in [Caller -> Steps] /\ slot \in [Caller -> Slots]
    /\ freq \in [Caller -> {0} \cup Delays] /\ times \in [Caller -> {0} \cup Times]
    /\ timer_id \in [Caller -> 0..MaxStarts]
    /\ started \in [Ids -> Nat \cup {NotStarted}] /\ runs \in [Ids -> Nat]
    /\ faults \subseteq {"OffTheTable", "HalfStarted", "Both", "Ended"}

Active == {i \in Slots : timers[i].active}

\* timer_count, by which the interrupt ends its loop, is the number of active timers
\* when no thread is inside a call.
CountAgrees ==
    (\A c \in Caller : step[c] = "idle") => timer_count = Cardinality(Active)

\* A job never runs before its time, not more often than its periods have passed, and no
\* more often than it was asked to.
RunsAsAsked ==
    \A i \in Slots : LET t == timers[i]
                     IN  t.id # 0 /\ started[t.id] # NotStarted
                         => /\ t.active => started[t.id] + t.freq * runs[t.id] <= now
                            /\ t.times > 0 => runs[t.id] <= t.times

\* Although the loop may end in front of a timer that is due, because another's last
\* run has made timer_count smaller: no timer is late by more ticks than other timers
\* were started.
NeverVeryLate ==
    \A i \in Active : LET t == timers[i]
                      IN  started[t.id] # NotStarted /\ now >= t.next_run
                          => now - t.next_run < retval - 1

\* The jobs run when and as often as they were asked to, although threads start and stop
\* them in the middle of the interrupt's walk and of each other's steps.
JobsRun == CountAgrees /\ RunsAsAsked /\ NeverVeryLate
=============================================================================
