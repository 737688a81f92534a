-------------------------- MODULE Interrupts_proof --------------------------
(***************************************************************************)
(* What the timer interrupt comes into: the spinlock, the clock and the    *)
(* timers.  The spinlock excludes and implements ExclusiveUse, for every   *)
(* set of threads.  The time of day follows the uptime and the months have *)
(* their lengths, for every rate of the timer, from every date and for any *)
(* uptime.  The jobs run as they were asked to, for a table of any size    *)
(* and any number of threads.                                              *)
(***************************************************************************)
EXTENDS Spinlock, Clock, Timers, FiniteSetTheorems, WellFoundedInduction, TLAPS

-----------------------------------------------------------------------------
(* The spinlock.                                                           *)

\* Between "cli" and asm_sti() the thread has the processor to itself, so what
\* "test" found is still so at "set"; and the flag is set while some thread,
\* living or killed, is inside.
LockInv ==
    /\ \A t \in Thread : pc[t] \in {"test", "set"} => running = t /\ ~interrupts
    /\ \A t \in Thread : pc[t] = "set" => count = 0
    /\ count = 0 => \A t \in Thread : pc[t] # "in"

IInv == TypeOK /\ MutualExclusion /\ InterruptsOffBriefly /\ LockInv

\* The initial state satisfies the invariant.
LEMMA InitIInv == Init => IInv
  BY ThreadAssumption DEF Init, IInv, TypeOK, MutualExclusion, InterruptsOffBriefly,
                          LockInv, Labels

\* Every step of every thread, interrupt and kill preserves it.
LEMMA NextIInv == IInv /\ [Next]_vars => IInv'
<1> SUFFICES ASSUME IInv, [Next]_vars PROVE IInv'
  OBVIOUS
<1> USE DEF IInv, TypeOK, MutualExclusion, InterruptsOffBriefly, LockInv, Labels
<1>1. CASE Interrupt
  BY <1>1, ThreadAssumption DEF Interrupt
<1>2. ASSUME NEW t \in Thread, Call(t) PROVE IInv'
  BY <1>2 DEF Call, Goto
<1>3. ASSUME NEW t \in Thread, Spin(t) PROVE IInv'
  <2>1. CASE count = 0
    BY <1>3, <2>1 DEF Spin, Goto
  <2>2. CASE count # 0
    BY <1>3, <2>2 DEF Spin, Goto
  <2> QED BY <2>1, <2>2
<1>4. ASSUME NEW t \in Thread, Cli(t) PROVE IInv'
  BY <1>4 DEF Cli, Goto
<1>5. ASSUME NEW t \in Thread, Test(t) PROVE IInv'
  BY <1>5, ZenonT(60) DEF Test, Goto
<1>6. ASSUME NEW t \in Thread, Set(t) PROVE IInv'
  BY <1>6 DEF Set, Goto
<1>7. ASSUME NEW t \in Thread, Unlock(t) PROVE IInv'
  BY <1>7 DEF Unlock, Goto
<1>8. ASSUME NEW t \in Thread, Kill(t) PROVE IInv'
  BY <1>8 DEF Kill
<1>9. CASE UNCHANGED vars
  BY <1>9 DEF vars
<1> QED BY <1>1, <1>2, <1>3, <1>4, <1>5, <1>6, <1>7, <1>8, <1>9 DEF Next, Step

\* The invariant holds in every reachable state.
THEOREM Invariance == Spec => []IInv
  BY InitIInv, NextIInv, PTL DEF Spec

\* Two threads are never between spinl_lock() and spinl_unlock() at once.
THEOREM Exclusion == Spec => []MutualExclusion
  BY Invariance, PTL DEF IInv

\* Interrupts are off only for the two statements after asm_cli().
THEOREM BriefCli == Spec => []InterruptsOffBriefly
  BY Invariance, PTL DEF IInv

Asking == At({"spin", "cli", "test", "set"})
Inside == At({"in"})

\* A thread that goes to another statement changes At for itself alone.
LEMMA GotoAt ==
  ASSUME TypeOK, NEW t \in Thread, NEW from, NEW to, Goto(t, from, to), NEW labels
  PROVE  /\ pc[t] = from
         /\ to \in labels => At(labels)' = At(labels) \cup {t}
         /\ to \notin labels => At(labels)' = At(labels) \ {t}
  BY DEF Goto, At, TypeOK

\* Every step lets a thread ask, enter or leave, or changes nothing of that.
LEMMA StepSimulation ==
  IInv /\ [Next]_vars => [Abstract!Use]_<<Asking, Inside>>
<1> SUFFICES ASSUME IInv, [Next]_vars PROVE [Abstract!Use]_<<Asking, Inside>>
  OBVIOUS
<1> USE DEF IInv, Asking, Inside
<1>1. CASE Interrupt \/ (\E t \in Thread : Kill(t)) \/ UNCHANGED vars
  <2>1. pc' = pc
    BY <1>1 DEF Interrupt, Kill, vars
  <2> QED BY <2>1 DEF At
<1>2. ASSUME NEW t \in Thread, Call(t) PROVE Abstract!Use
  <2>1. pc[t] = "out" /\ Asking' = Asking \cup {t} /\ Inside' = Inside \ {t}
    BY <1>2, GotoAt DEF Call
  <2>2. t \notin Asking \cup Inside
    BY <2>1 DEF At
  <2> QED BY <2>1, <2>2 DEF Abstract!Use, Abstract!Ask
<1>3. ASSUME NEW t \in Thread, Spin(t) \/ Cli(t) \/ Test(t)
      PROVE  UNCHANGED <<Asking, Inside>>
  <2>1. PICK from \in {"spin", "cli", "test"}, to \in {"spin", "cli", "test", "set"} :
          Goto(t, from, to)
    BY <1>3 DEF Spin, Cli, Test
  <2>2. Asking' = Asking \cup {t} /\ Inside' = Inside \ {t} /\ pc[t] = from
    BY <2>1, GotoAt
  <2>3. t \in Asking /\ t \notin Inside
    BY <2>2 DEF At
  <2> QED BY <2>2, <2>3
<1>4. ASSUME NEW t \in Thread, Set(t) PROVE Abstract!Use
  <2>1. pc[t] = "set" /\ Asking' = Asking \ {t} /\ Inside' = Inside \cup {t}
    BY <1>4, GotoAt DEF Set
  <2>2. t \in Asking /\ Inside = {}
    BY <2>1 DEF At, LockInv
  <2> QED BY <2>1, <2>2 DEF Abstract!Use, Abstract!LetIn
<1>5. ASSUME NEW t \in Thread, Unlock(t) PROVE Abstract!Use
  <2>1. pc[t] = "in" /\ Asking' = Asking \ {t} /\ Inside' = Inside \ {t}
    BY <1>5, GotoAt DEF Unlock
  <2>2. t \in Inside /\ t \notin Asking
    BY <2>1 DEF At
  <2> QED BY <2>1, <2>2 DEF Abstract!Use, Abstract!Leave
<1> QED BY <1>1, <1>2, <1>3, <1>4, <1>5 DEF Next, Step

\* The spinlock implements ExclusiveUse, for every set of threads, the killed ones included.
THEOREM Refinement == Spec => ImplementsLock
<1>1. Init => Abstract!Unused
  BY DEF Init, At, Abstract!Unused
<1> QED BY <1>1, StepSimulation, Invariance, PTL
        DEF Spec, ImplementsLock, Abstract!Promise, Asking, Inside

-----------------------------------------------------------------------------
(* The clock.                                                              *)

\* The dates that read_cmos() may find are dates of the calendar.
DatesAreDates ==
    \A d \in Dates : d[1] \in Nat /\ d[2] \in 0..11 /\ d[3] \in 1..RealDays(d[2], d[1])

\* Every field is in its range, the microseconds apart: only the ticks lead to them.
Ranges ==
    /\ sec \in Nat
    /\ tm_sec \in 0..59 /\ tm_min \in 0..59 /\ tm_hour \in 0..23
    /\ tm_mon \in 0..11 /\ tm_year \in Nat /\ tm_mday \in 0..DaysInMonth(tm_mon, tm_year)

ClockIInv == Ranges /\ TimeFollowsUptime

\* days_in_month() is the length of every month of every year of the calendar.
LEMMA MonthLengths ==
  ASSUME NEW month \in 0..11, NEW year \in Nat
  PROVE  DaysInMonth(month, year) = RealDays(month, year)
<1>1. CASE month = 1
  <2>1. (year + 1900) % 4 = 0 <=> year % 4 = 0
    OBVIOUS
  <2>2. (year + 1900) % 100 = 0 <=> year % 100 = 0
    OBVIOUS
  <2>3. (year + 1900) % 400 = 0 <=> (year + 300) % 400 = 0
    OBVIOUS
  <2> QED BY <1>1, <2>1, <2>2, <2>3 DEF DaysInMonth, Leap, RealDays
<1>2. CASE month # 1
  BY <1>2 DEF DaysInMonth, RealDays
<1> QED BY <1>1, <1>2

\* The length of a month is a number.
LEMMA LengthIsNat ==
  ASSUME NEW month \in 0..11, NEW year \in Nat PROVE DaysInMonth(month, year) \in Nat
  BY DEF DaysInMonth

\* A day leads into the same month or on to the next.
LEMMA DayRanges ==
  ASSUME Ranges, NextDay
  PROVE  tm_mon' \in 0..11 /\ tm_year' \in Nat /\ tm_mday' \in 0..DaysInMonth(tm_mon', tm_year')
<1>1. tm_mon' \in 0..11 /\ tm_year' \in Nat
  BY DEF Ranges, NextDay, NextMonth, YearEnds
<1>2. DaysInMonth(tm_mon, tm_year) \in Nat /\ DaysInMonth(tm_mon', tm_year') \in Nat
  BY <1>1, LengthIsNat DEF Ranges
<1>3. CASE tm_mday + 1 > DaysInMonth(tm_mon, tm_year)
  BY <1>1, <1>2, <1>3 DEF NextDay
<1>4. CASE ~(tm_mday + 1 > DaysInMonth(tm_mon, tm_year))
  BY <1>1, <1>2, <1>4 DEF Ranges, NextDay
<1> QED BY <1>3, <1>4

\* A second moves the time of day by one, and over midnight back to its start.
LEMMA SecondMoves ==
  ASSUME ClockIInv, NextSecond, sec' = sec + 1 PROVE ClockIInv'
<1> USE DEF ClockIInv
<1> DEFINE day == (tm_hour * 60 + tm_min) * 60 + tm_sec
<1>1. /\ tm_sec' \in 0..59 /\ tm_min' \in 0..59 /\ tm_hour' \in 0..23
      /\ tm_mon' \in 0..11 /\ tm_year' \in Nat
      /\ tm_mday' \in 0..DaysInMonth(tm_mon', tm_year')
      /\ (tm_hour' * 60 + tm_min') * 60 + tm_sec' = IF day = 86399 THEN 0 ELSE day + 1
  <2>1. CASE tm_sec # 59
    BY <2>1 DEF NextSecond, Ranges, date
  <2>2. CASE tm_sec = 59 /\ tm_min # 59
    BY <2>2 DEF NextSecond, NextMinute, HourIsOver, Ranges, date
  <2>3. CASE tm_sec = 59 /\ tm_min = 59 /\ tm_hour # 23
    BY <2>3 DEF NextSecond, NextMinute, HourIsOver, NextHour, Ranges, date
  <2>4. CASE tm_sec = 59 /\ tm_min = 59 /\ tm_hour = 23
    BY <2>4, DayRanges DEF NextSecond, NextMinute, HourIsOver, NextHour, Ranges
  <2> QED BY <2>1, <2>2, <2>3, <2>4
<1>2. sec \in Nat /\ day = (86399 + sec) % 86400
  BY DEF Ranges, TimeFollowsUptime
<1>3. (86399 + sec + 1) % 86400 = IF day = 86399 THEN 0 ELSE day + 1
  BY <1>2
<1>4. Ranges'
  BY <1>1, <1>2 DEF Ranges
<1>5. sec' = sec + 1 /\ 86399 + (sec + 1) = 86399 + sec + 1
  BY <1>2
<1>6. TimeFollowsUptime'
  BY <1>1, <1>3, <1>5 DEF TimeFollowsUptime
<1> QED BY <1>4, <1>6

\* The timer interrupt moves the time of day with the second of the uptime, or not at all.
LEMMA ClockGoesOn == ClockIInv /\ [TimerHandler]_clockVars => ClockIInv'
<1> SUFFICES ASSUME ClockIInv, [TimerHandler]_clockVars PROVE ClockIInv'
  OBVIOUS
<1>1. CASE NextSecond /\ sec' = sec + 1
  BY <1>1, SecondMoves
<1>2. CASE UNCHANGED <<sec, time, date>>
  BY <1>2 DEF ClockIInv, Ranges, TimeFollowsUptime, time, date
<1> QED BY <1>1, <1>2 DEF TimerHandler, clockVars, uptime

\* The clock is set to a second before midnight of a date.
LEMMA ClockStarts == DatesAreDates /\ ClockInit => ClockIInv
<1> SUFFICES ASSUME DatesAreDates, ClockInit PROVE ClockIInv
  OBVIOUS
<1>1. PICK d \in Dates : tm_year = d[1] /\ tm_mon = d[2] /\ tm_mday = d[3]
  BY DEF ClockInit
<1>2. tm_year \in Nat /\ tm_mon \in 0..11 /\ tm_mday \in 1..RealDays(tm_mon, tm_year)
  BY <1>1 DEF DatesAreDates
<1>3. tm_mday \in 0..DaysInMonth(tm_mon, tm_year)
  <2>1. PICK days \in Nat : /\ days = DaysInMonth(tm_mon, tm_year)
                            /\ days = RealDays(tm_mon, tm_year)
    BY <1>2, MonthLengths, LengthIsNat
  <2> QED BY <1>2, <2>1
<1>4. sec = 0 /\ tm_sec = 59 /\ tm_min = 59 /\ tm_hour = 23
  BY DEF ClockInit
<1> QED BY <1>2, <1>3, <1>4 DEF ClockIInv, Ranges, TimeFollowsUptime

\* The fields stay in their ranges and the time of day with the uptime.
THEOREM ClockInvariance == ASSUME DatesAreDates PROVE ClockSpec => []ClockIInv
<1>1. ClockInit => ClockIInv
  BY ClockStarts
<1> QED BY <1>1, ClockGoesOn, PTL DEF ClockSpec

\* The time of day is that of the uptime: no second of the one is lost to the other.
THEOREM TimeOfDay == ASSUME DatesAreDates PROVE ClockSpec => []TimeFollowsUptime
  BY ClockInvariance, PTL DEF ClockIInv

\* A day that passes leads into the next month, or year, from the last day of one only.
LEMMA DayEnds ==
  ASSUME Ranges, NextDay
  PROVE  LET last == (tm_mday = RealDays(tm_mon, tm_year))
         IN  /\ tm_mon' = (IF last THEN (tm_mon + 1) % 12 ELSE tm_mon)
             /\ tm_year' = (IF last /\ tm_mon = 11 THEN tm_year + 1 ELSE tm_year)
<1>1. PICK days \in Nat : /\ days = DaysInMonth(tm_mon, tm_year)
                          /\ days = RealDays(tm_mon, tm_year)
  BY MonthLengths, LengthIsNat DEF Ranges
<1>2. CASE tm_mday = days
  <2>1. NextMonth(tm_yday + 1)
    BY <1>1, <1>2 DEF NextDay
  <2>2. /\ tm_mon' = (tm_mon + 1) % 12
        /\ tm_year' = (IF tm_mon = 11 THEN tm_year + 1 ELSE tm_year)
    BY <2>1 DEF Ranges, NextMonth, YearEnds
  <2> QED BY <1>1, <1>2, <2>2
<1>3. CASE tm_mday # days
  <2>1. UNCHANGED <<tm_mon, tm_year>>
    BY <1>1, <1>3 DEF Ranges, NextDay
  <2> QED BY <1>1, <1>3, <2>1
<1> QED BY <1>2, <1>3

\* Midnight ends a month on its last day and on no other, and the year with its last
\* month, from every date the clock may be started at.
THEOREM MonthsEnd == ASSUME DatesAreDates PROVE ClockSpec => MonthsHaveTheirDays
<1>1. ASSUME ClockIInv, [TimerHandler]_clockVars, date' # date PROVE NextDay
  BY <1>1 DEF TimerHandler, clockVars, NextSecond, NextMinute, NextHour
<1>2. ClockIInv /\ [TimerHandler]_clockVars =>
         [date' # date /\ tm_mday # 0 =>
             LET last == (tm_mday = RealDays(tm_mon, tm_year))
             IN  /\ tm_mon' = (IF last THEN (tm_mon + 1) % 12 ELSE tm_mon)
                 /\ tm_year' = (IF last /\ tm_mon = 11 THEN tm_year + 1 ELSE tm_year)]_clockVars
  BY <1>1, DayEnds DEF ClockIInv
<1> QED BY <1>2, ClockInvariance, PTL DEF ClockSpec, MonthsHaveTheirDays

-----------------------------------------------------------------------------
(* The microseconds.  The definition of TicksToMicrosecs() goes through a  *)
(* recursive function of seven values, which are found one by one.         *)

\* The definition of TicksToMicrosecs() by its parts.
FirstDigit(n) == [value |-> n \div TickRate, rest |-> n % TickRate]
NextDigit(d) ==
    [value |-> 10 * d.value + (10 * d.rest) \div TickRate, rest |-> (10 * d.rest) % TickRate]
Digits(f, n) == [k \in 0..6 |-> IF k = 0 THEN FirstDigit(n) ELSE NextDigit(f[k - 1])]

\* There are such digits: six steps write them down.
LEMMA DigitsExist == ASSUME NEW n PROVE \E f : f = Digits(f, n)
<1> DEFINE d0 == FirstDigit(n)
           d1 == NextDigit(d0)
           d2 == NextDigit(d1)
           d3 == NextDigit(d2)
           d4 == NextDigit(d3)
           d5 == NextDigit(d4)
           d6 == NextDigit(d5)
           f == [k \in 0..6 |-> IF k = 0 THEN d0 ELSE IF k = 1 THEN d1 ELSE IF k = 2 THEN d2
                                ELSE IF k = 3 THEN d3 ELSE IF k = 4 THEN d4
                                ELSE IF k = 5 THEN d5 ELSE d6]
<1>1. /\ f[0] = d0 /\ f[1] = NextDigit(f[0]) /\ f[2] = NextDigit(f[1]) /\ f[3] = NextDigit(f[2])
      /\ f[4] = NextDigit(f[3]) /\ f[5] = NextDigit(f[4]) /\ f[6] = NextDigit(f[5])
  <2> HIDE DEF d0, d1, d2, d3, d4, d5, d6
  <2>1. f[0] = d0 /\ f[1] = d1 /\ f[2] = d2 /\ f[3] = d3 /\ f[4] = d4 /\ f[5] = d5 /\ f[6] = d6
    OBVIOUS
  <2> HIDE DEF f
  <2> QED BY <2>1 DEF d1, d2, d3, d4, d5, d6
<1> HIDE DEF d1, d2, d3, d4, d5, d6
<1>2. ASSUME NEW k \in 0..6 PROVE f[k] = IF k = 0 THEN FirstDigit(n) ELSE NextDigit(f[k - 1])
  <2> HIDE DEF f
  <2>1. k = 0 \/ k = 1 \/ k = 2 \/ k = 3 \/ k = 4 \/ k = 5 \/ k = 6
    OBVIOUS
  <2> QED BY <1>1, <2>1
<1>3. f = [k \in 0..6 |-> f[k]]
  OBVIOUS
<1>4. f = Digits(f, n)
  <2> HIDE DEF f
  <2> QED BY <1>2, <1>3 DEF Digits
<1> QED BY <1>4

\* The microseconds are the last of them.
LEMMA MicrosecsAreDigits ==
  ASSUME NEW n PROVE \E f : f = Digits(f, n) /\ TicksToMicrosecs(n) = f[6].value
<1>1. TicksToMicrosecs(n) = (CHOOSE f : f = Digits(f, n))[6].value
  BY DEF TicksToMicrosecs, Digits, FirstDigit, NextDigit
<1> DEFINE g == CHOOSE f : f = Digits(f, n)
<1>2. g = Digits(g, n)
  BY DigitsExist
<1> QED BY <1>1, <1>2

\* Quotient and remainder.
LEMMA Division ==
  ASSUME NEW m \in Nat, NEW R \in Nat \ {0}
  PROVE  /\ m \div R \in Nat /\ m % R \in 0..(R - 1)
         /\ m = R * (m \div R) + (m % R)
  OBVIOUS

\* If value and rest stand for N, then those of the next digit stand for 10 N.
LEMMA Digit ==
  ASSUME ClockAssumption, NEW N \in Nat, NEW d,
         d.value \in Nat, d.rest \in 0..(TickRate - 1), N = TickRate * d.value + d.rest
  PROVE  LET e == NextDigit(d)
         IN  /\ e.value \in Nat /\ e.rest \in 0..(TickRate - 1)
             /\ 10 * N = TickRate * e.value + e.rest
<1> DEFINE R == TickRate
           q == (10 * d.rest) \div R
           r == (10 * d.rest) % R
<1>1. R \in Nat \ {0} /\ 10 * d.rest \in Nat
  BY DEF ClockAssumption
<1>2. q \in Nat /\ r \in 0..(R - 1) /\ 10 * d.rest = R * q + r
  BY <1>1, Division
<1>3. NextDigit(d).value = 10 * d.value + q /\ NextDigit(d).rest = r
  BY DEF NextDigit
<1> HIDE DEF q, r
<1>4. 10 * N = R * (10 * d.value + q) + r
  BY <1>1, <1>2
<1> QED BY <1>1, <1>2, <1>3, <1>4

\* The microseconds of n ticks are 1000000 n over the rate, rounded down.
LEMMA Microsecs ==
  ASSUME ClockAssumption, NEW n \in Nat
  PROVE  /\ TicksToMicrosecs(n) \in Nat
         /\ \E r \in 0..(TickRate - 1) : 1000000 * n = TickRate * TicksToMicrosecs(n) + r
<1>1. PICK f : f = Digits(f, n) /\ TicksToMicrosecs(n) = f[6].value
  BY MicrosecsAreDigits
<1>2. /\ f[0] = FirstDigit(n) /\ f[1] = NextDigit(f[0]) /\ f[2] = NextDigit(f[1])
      /\ f[3] = NextDigit(f[2])
      /\ f[4] = NextDigit(f[3]) /\ f[5] = NextDigit(f[4]) /\ f[6] = NextDigit(f[5])
  <2>1. ASSUME NEW k \in 0..6 PROVE f[k] = IF k = 0 THEN FirstDigit(n) ELSE NextDigit(f[k - 1])
    BY <1>1 DEF Digits
  <2> QED BY <2>1
<1> DEFINE Stands(d, N) == /\ d.value \in Nat /\ d.rest \in 0..(TickRate - 1)
                           /\ N = TickRate * d.value + d.rest
<1>3. ASSUME NEW N \in Nat, NEW d, Stands(d, N) PROVE Stands(NextDigit(d), 10 * N)
  BY <1>3, Digit
<1>4. Stands(f[0], n)
  <2>1. f[0].value = n \div TickRate /\ f[0].rest = n % TickRate
    BY <1>2 DEF FirstDigit
  <2>2. TickRate \in Nat \ {0}
    BY DEF ClockAssumption
  <2> QED BY <2>1, <2>2, Division
<1> HIDE DEF Stands
<1>5. Stands(f[3], 1000 * n)
  <2>1. Stands(f[1], 10 * n)
    BY <1>2, <1>3, <1>4
  <2>2. Stands(f[2], 100 * n)
    BY <1>2, <1>3, <2>1
  <2> QED BY <1>2, <1>3, <2>2
<1>6. Stands(f[6], 1000000 * n)
  <2>1. Stands(f[4], 10000 * n)
    BY <1>2, <1>3, <1>5
  <2>2. Stands(f[5], 100000 * n)
    BY <1>2, <1>3, <2>1
  <2> QED BY <1>2, <1>3, <2>2, SMT
<1> QED BY <1>1, <1>6, SMT DEF Stands

\* Two multiples of the rate that are almost as far apart as one.
LEMMA Between ==
  ASSUME NEW R \in Nat \ {0}, NEW x \in Int, R * x > -R, R * x < 2 * R PROVE x \in {0, 1}
<1>1. CASE x >= 2
  BY <1>1
<1>2. CASE x <= -1
  BY <1>2
<1> QED BY <1>1, <1>2

\* A period more in ticks, less a second: as much in microseconds.
LEMMA PeriodMoves ==
  ASSUME ClockAssumption, NEW m \in Nat, NEW n \in Nat, NEW s \in {0, 1},
         n = m + TicksPerCycle - s * TickRate
  PROVE  s * 1000000 + TicksToMicrosecs(n) - TicksToMicrosecs(m) \in {Period, Period + 1}
<1>1. PICK R \in Nat \ {0}, C \in Nat : R = TickRate /\ C = TicksPerCycle
  BY DEF ClockAssumption
<1>2. PICK u \in Nat, a \in 0..(R - 1) : TicksToMicrosecs(m) = u /\ 1000000 * m = R * u + a
  <2>1. TicksToMicrosecs(m) \in Nat
    BY Microsecs
  <2>2. PICK a \in 0..(R - 1) : 1000000 * m = R * TicksToMicrosecs(m) + a
    BY <1>1, Microsecs, SMT
  <2> QED BY <2>1, <2>2, SMT
<1>3. PICK v \in Nat, b \in 0..(R - 1) : TicksToMicrosecs(n) = v /\ 1000000 * n = R * v + b
  <2>1. TicksToMicrosecs(n) \in Nat
    BY Microsecs
  <2>2. PICK b \in 0..(R - 1) : 1000000 * n = R * TicksToMicrosecs(n) + b
    BY <1>1, Microsecs, SMT
  <2> QED BY <2>1, <2>2, SMT
<1>4. PICK p \in Nat, c \in 0..(R - 1) :
         TicksToMicrosecs(TicksPerCycle) = p /\ 1000000 * C = R * p + c
  <2>1. TicksToMicrosecs(TicksPerCycle) \in Nat
    BY <1>1, Microsecs
  <2>2. PICK c \in 0..(R - 1) : 1000000 * C = R * TicksToMicrosecs(TicksPerCycle) + c
    BY <1>1, Microsecs, SMT
  <2> QED BY <2>1, <2>2, SMT
<1>5. PICK x \in Int : x = s * 1000000 + v - u - p
  BY SMT
<1>6. R * x = a + c - b
  <2>1. CASE s = 0
    BY <1>1, <1>2, <1>3, <1>4, <1>5, <2>1, SMT
  <2>2. CASE s = 1
    BY <1>1, <1>2, <1>3, <1>4, <1>5, <2>2, SMT
  <2> QED BY <2>1, <2>2, SMT
<1>7. x \in {0, 1}
  BY <1>6, Between
<1>8. s * 1000000 + v - u = p \/ s * 1000000 + v - u = p + 1
  BY <1>5, <1>7, SMT
<1>9. TicksToMicrosecs(n) = v /\ TicksToMicrosecs(m) = u /\ Period = p
  BY <1>2, <1>3, <1>4, SMT DEF Period
<1>10. s * 1000000 + v - u \in {p, p + 1}
  BY <1>8, SMT
<1> QED BY <1>9, <1>10, SMT

\* usec is that of the ticks, which are never more than a second.
Uptime == ticks \in 0..TickRate /\ usec = TicksToMicrosecs(ticks) /\ sec \in Nat

\* What a tick does to the uptime, of which it moves s seconds on.
LEMMA UptimeMoves ==
  ASSUME ClockAssumption, Uptime, TimerHandler
  PROVE  /\ Uptime'
         /\ \E s \in {0, 1} : /\ ticks' = ticks + TicksPerCycle - s * TickRate
                              /\ sec' = sec + s
<1>1. /\ TickRate \in Nat \ {0} /\ TicksPerCycle \in 1..TickRate /\ ticks \in 0..TickRate
      /\ sec \in Nat
  BY DEF ClockAssumption, Uptime
<1>2. usec' = TicksToMicrosecs(ticks')
  BY DEF TimerHandler
<1>3. CASE Full(ticks + TicksPerCycle)
  <2>1. ticks' = ticks + TicksPerCycle - 1 * TickRate /\ sec' = sec + 1
    BY <1>1, <1>3 DEF TimerHandler, SecondKeepsTicks
  <2>2. ticks' \in 0..TickRate
    BY <1>1, <1>3, <2>1 DEF Full
  <2> QED BY <1>1, <1>2, <2>1, <2>2 DEF Uptime
<1>4. CASE ~Full(ticks + TicksPerCycle)
  <2>1. ticks' = ticks + TicksPerCycle - 0 * TickRate /\ sec' = sec + 0
    BY <1>1, <1>4 DEF TimerHandler
  <2>2. ticks' \in 0..TickRate
    BY <1>1, <1>4, <2>1 DEF Full
  <2> QED BY <1>1, <1>2, <2>1, <2>2 DEF Uptime
<1> QED BY <1>3, <1>4

\* The uptime moves by one period at every tick, over the border of a second too.
THEOREM PeriodsAddUp == ASSUME ClockAssumption PROVE ClockSpec => UptimeAdvances
<1>1. ClockInit => Uptime
  <2> SUFFICES ASSUME ClockInit PROVE Uptime
    OBVIOUS
  <2>1. ticks = 0 /\ usec = 0 /\ sec = 0
    BY DEF ClockInit
  <2>2. PICK R \in Nat \ {0} : R = TickRate
    BY DEF ClockAssumption
  <2>3. PICK u \in Nat : u = TicksToMicrosecs(0)
    BY Microsecs
  <2>4. u = 0
    <3>1. PICK r \in 0..(R - 1) : 1000000 * 0 = R * u + r
      BY <2>2, <2>3, Microsecs, SMT
    <3>2. 0 = R * u + r
      BY <3>1, SMT
    <3> QED BY <3>2
  <2> QED BY <2>1, <2>2, <2>3, <2>4 DEF Uptime
<1>2. Uptime /\ [TimerHandler]_clockVars => Uptime'
  <2>1. Uptime /\ UNCHANGED clockVars => Uptime'
    BY DEF Uptime, clockVars, uptime
  <2> QED BY <2>1, UptimeMoves
<1>3. Uptime /\ [TimerHandler]_clockVars
         => [(sec' - sec) * 1000000 + usec' - usec \in {Period, Period + 1}]_uptime
  <2> SUFFICES ASSUME Uptime, TimerHandler
               PROVE  (sec' - sec) * 1000000 + usec' - usec \in {Period, Period + 1}
    BY SMT DEF clockVars
  <2>1. PICK s \in {0, 1} : ticks' = ticks + TicksPerCycle - s * TickRate /\ sec' = sec + s
    BY UptimeMoves
  <2>2. /\ ticks \in Nat /\ ticks' \in Nat /\ sec \in Nat
        /\ usec = TicksToMicrosecs(ticks) /\ usec' = TicksToMicrosecs(ticks')
    BY UptimeMoves DEF Uptime, ClockAssumption
  <2>3. s * 1000000 + TicksToMicrosecs(ticks') - TicksToMicrosecs(ticks) \in {Period, Period + 1}
    BY <2>1, <2>2, PeriodMoves
  <2>4. sec' - sec = s
    BY <2>1, <2>2
  <2> QED BY <2>2, <2>3, <2>4, SMT
<1> QED BY <1>1, <1>2, <1>3, PTL DEF ClockSpec, UptimeAdvances

\* The clock serves: the uptime by its periods, the time of day by the uptime and the
\* calendar by its months.
THEOREM ClockIsRight == ASSUME ClockAssumption, DatesAreDates PROVE ClockSpec => ClockServes
  BY PeriodsAddUp, TimeOfDay, MonthsEnd, PTL DEF ClockServes

-----------------------------------------------------------------------------
(* The timers.                                                             *)

\* The calls that another may come into: of a thread that starts a timer from its count on, and
\* of one that has stopped one.
Midway(c) == step[c] \in {"find", "activate", "fill", "countdown"}

\* No two threads are there at a time.
OneMidway == \A c, d \in Caller : Midway(c) /\ Midway(d) => c = d

\* The timer that is being started has the last identifier, which no other has had. Its slot is
\* free until it is activated, and from then on half filled.
StartOK(c) ==
    /\ step[c] \in {"count", "find", "activate", "fill"} => freq[c] \in Delays
    /\ step[c] = "count" => timer_count < MaxTimers
    /\ step[c] \in {"find", "activate", "fill"} => timer_id[c] = retval /\ retval \in Ids /\ started[retval] = NotStarted
    /\ step[c] \in {"find", "activate"} => \A i \in Slots : timers[i].id # retval
    /\ step[c] = "activate" => ~timers[slot[c]].active
    /\ step[c] = "fill" => timers[slot[c]].id = retval /\ timers[slot[c]].active

\* A thread is counting up or down: timer_count is one more than the active timers.
Counting == \E c \in Caller : step[c] \in {"find", "activate", "countdown"}
CountOK == timer_count = Cardinality(Active) + (IF Counting THEN 1 ELSE 0)

\* Every slot has its own identifier, and an active timer that has not been started is being
\* started.
IdsOK ==
    /\ \A i \in Slots : timers[i].id <= retval
    /\ \A i \in Active : timers[i].id # 0
    /\ \A i, k \in Slots : timers[i].id = timers[k].id /\ i # k => timers[i].id = 0
    /\ \A i \in Active : started[timers[i].id] = NotStarted => \E c \in Caller : step[c] = "fill" /\ slot[c] = i
    /\ \A id \in Ids : started[id] = NotStarted => runs[id] = 0
    /\ \A id \in Ids : id > retval => started[id] = NotStarted

\* What the table says of a timer that has been started, and when it is to run next.
Kept(i) ==
    LET t == timers[i]
    IN t.id # 0 /\ started[t.id] # NotStarted =>
         /\ t.times > 0 => runs[t.id] <= t.times
         /\ t.active => /\ t.times_run = runs[t.id] /\ t.freq \in Delays
                        /\ t.times > 0 => runs[t.id] < t.times
                        /\ t.next_run = started[t.id] + t.freq * (runs[t.id] + 1)
                        /\ started[t.id] + t.freq * runs[t.id] <= now

\* The timers that have run for the last time, or have been stopped.
Over == {id \in 1..retval : started[id] # NotStarted /\ \A k \in Active : timers[k].id # id}

\* A timer is late by one tick for each of those at most.
NotLate(i) == started[timers[i].id] # NotStarted => now - timers[i].next_run < Cardinality(Over)

TimerIInv ==
    /\ TimerTypeOK /\ OneMidway /\ CountOK /\ IdsOK /\ \A c \in Caller : StartOK(c)
    /\ \A i \in Slots : Kept(i)
    /\ \A i \in Active : NotLate(i)

-----------------------------------------------------------------------------
(* The walk of execute_jobs().                                             *)

Rounds(at, c, s) == s = [n \in 0..c |-> IF n = 0 THEN SweepStart ELSE Round(s[n - 1], n - 1, at)]

ActiveOf(f) == {i \in Slots : f[i].active}
Before(n) == {i \in Active : i < n}

\* The timer of slot i has run.
HasRun(r, i, at) ==
    /\ timers[i].active /\ Due(timers[i], at)
    /\ r.timers[i] = AfterRun(timers[i]) /\ timers[i].id \in r.ran

\* Or it has not, though it was due, because another has run for the last time.
WasSkipped(r, i, at) == timers[i].active /\ Due(timers[i], at) => r.count < timer_count

\* What has been done in front of slot n.
WalkOK(r, n, at) ==
    /\ r.timers \in [Slots -> Timer] /\ r.j \in Nat /\ r.count \in Int /\ r.count <= timer_count
    /\ \A i \in Slots : i >= n => r.timers[i] = timers[i]
    /\ \A i \in Slots : HasRun(r, i, at) \/ (r.timers[i] = timers[i] /\ (i < n => WasSkipped(r, i, at)))
    /\ \A id \in r.ran : \E i \in Slots : HasRun(r, i, at) /\ timers[i].id = id
    /\ r.count - Cardinality(ActiveOf(r.timers)) = timer_count - Cardinality(Active)
    /\ r.j <= Cardinality(Before(n))

\* The least of some numbers.
LEMMA LeastIs ==
  ASSUME NEW S \in SUBSET Nat, S # {}
  PROVE  \E p \in S : \A q \in S : p <= q
<1>1. PICK p \in S : \A q \in S : ~(<<q, p>> \in OpToRel(<, Nat))
  BY NatLessThanWellFounded, WFMin
<1>2. ASSUME NEW q \in S, q < p PROVE FALSE
  <2>1. <<q, p>> \in OpToRel(<, Nat)
    BY <1>2 DEF OpToRel
  <2> QED BY <1>1, <2>1
<1> QED BY <1>2

\* The loop has its rounds.
LEMMA RoundsExist ==
  ASSUME NEW at, NEW rounds \in Nat
  PROVE  \E s : Rounds(at, rounds, s)
<1> DEFINE Bad == {c \in Nat : ~\E s : Rounds(at, c, s)}
<1>1. SUFFICES ASSUME Bad # {} PROVE FALSE
  OBVIOUS
<1>2. PICK c \in Bad : \A k \in Bad : c <= k
  BY <1>1, LeastIs
<1>3. c # 0
  <2>1. Rounds(at, 0, [n \in 0..0 |-> SweepStart])
    BY DEF Rounds
  <2>2. 0 \notin Bad
    BY <2>1
  <2> QED BY <1>2, <2>2
<1>4. c \in Nat /\ c - 1 \in Nat /\ c - 1 \notin Bad
  BY <1>2, <1>3
<1>5. PICK s : Rounds(at, c - 1, s)
  BY <1>4
<1>6. \A n \in 0..(c - 1) : s[n] = IF n = 0 THEN SweepStart ELSE Round(s[n - 1], n - 1, at)
  BY <1>5 DEF Rounds
<1>7. PICK last : last = Round(s[c - 1], c - 1, at)
  OBVIOUS
<1>8. PICK t : t = [n \in 0..c |-> IF n = c THEN last ELSE s[n]]
  OBVIOUS
<1>9. ASSUME NEW n \in 0..c
      PROVE  t[n] = IF n = 0 THEN SweepStart ELSE Round(t[n - 1], n - 1, at)
  <2>1. CASE n = 0
    BY <1>3, <1>4, <1>6, <1>8, <2>1
  <2>2. CASE n # 0
    <3>1. n - 1 \in 0..c /\ n - 1 # c /\ t[n - 1] = s[n - 1]
      BY <1>4, <1>8, <2>2
    <3>2. CASE n = c
      BY <1>4, <1>7, <1>8, <2>2, <3>1, <3>2
    <3>3. CASE n # c
      <4>1. n \in 0..(c - 1) /\ t[n] = s[n]
        BY <1>4, <1>8, <3>3
      <4> QED BY <1>6, <2>2, <3>1, <4>1
    <3> QED BY <3>2, <3>3
  <2> QED BY <2>1, <2>2
<1>10. t = [n \in 0..c |-> IF n = 0 THEN SweepStart ELSE Round(t[n - 1], n - 1, at)]
  <2>1. t = [n \in 0..c |-> t[n]]
    BY <1>8
  <2> QED BY <1>9, <2>1
<1>11. Rounds(at, c, t)
  BY <1>10 DEF Rounds
<1> QED BY <1>2, <1>11

\* The slots are numbers, and finitely many.
LEMMA SlotsFacts ==
  /\ MaxTimers \in Nat \ {0} /\ MaxTicks \in Nat /\ MaxStarts \in Nat /\ Slots \subseteq Nat /\ IsFiniteSet(Slots)
  /\ \A S \in SUBSET Slots : IsFiniteSet(S) /\ Cardinality(S) \in Nat
  /\ IsFiniteSet(Active) /\ Cardinality(Active) \in Nat
  /\ 0 \in Slots
<1>1. MaxTimers \in Nat \ {0} /\ MaxTicks \in Nat /\ MaxStarts \in Nat
  BY TimerAssumption
<1>2. Slots \subseteq Nat /\ 0 \in Slots
  BY <1>1 DEF Slots
<1>3. IsFiniteSet(Slots)
  BY <1>1, FS_Interval DEF Slots
<1>4. \A S \in SUBSET Slots : IsFiniteSet(S) /\ Cardinality(S) \in Nat
  BY <1>3, FS_Subset, FS_CardinalityType
<1>5. Active \subseteq Slots
  BY DEF Active
<1> QED BY <1>1, <1>2, <1>3, <1>4, <1>5

\* A timer that has run is a timer.
LEMMA AfterRunIs ==
  ASSUME NEW t \in Timer
  PROVE  /\ AfterRun(t) \in Timer /\ AfterRun(t).id = t.id /\ AfterRun(t).freq = t.freq /\ AfterRun(t).times = t.times
         /\ AfterRun(t).next_run = t.next_run + t.freq /\ AfterRun(t).times_run = t.times_run + 1
         /\ AfterRun(t).active = ~LastRun(t)
<1>1. LastRun(t) \in BOOLEAN
  BY DEF LastRun
<1>2. t.next_run + t.freq \in Nat /\ t.times_run + 1 \in Nat
  <2>1. t.next_run \in Nat /\ t.times_run \in Nat /\ t.freq \in {0} \cup Delays
    BY DEF Timer
  <2>2. {0} \cup Delays \subseteq Nat
    BY TimerAssumption
  <2>3. t.freq \in Nat
    BY <2>1, <2>2
  <2> QED BY <2>1, <2>3
<1> QED BY <1>1, <1>2 DEF AfterRun, Timer

\* A round keeps what has been done.
LEMMA RoundKeeps ==
  ASSUME TimerTypeOK, CountOK, NEW at \in Int, NEW n \in Slots, NEW r, WalkOK(r, n, at)
  PROVE  WalkOK(Round(r, n, at), n + 1, at)
<1>1. /\ timers \in [Slots -> Timer] /\ timer_count \in Int /\ n \in Nat
      /\ Cardinality(Active) \in Nat /\ Cardinality(Active) <= timer_count
  BY SlotsFacts DEF TimerTypeOK, CountOK
<1>2. /\ IsFiniteSet(Before(n)) /\ Cardinality(Before(n)) \in Nat /\ Before(n) \subseteq Slots
      /\ \A i \in Slots : i < n + 1 <=> i < n \/ i = n
  BY <1>1, SlotsFacts DEF Before, Active
<1>3. CASE ~timers[n].active
  <2>1. Round(r, n, at) = r
    BY <1>3 DEF Round
  <2>2. Before(n + 1) = Before(n)
    BY <1>2, <1>3 DEF Before, Active
  <2>3. WasSkipped(r, n, at)
    BY <1>3 DEF WasSkipped
  <2>4. \A i \in Slots : i >= n + 1 => i >= n
    BY <1>1, SlotsFacts
  <2> QED BY <1>2, <2>1, <2>2, <2>3, <2>4 DEF WalkOK
<1>4. CASE timers[n].active
  <2>1. n \in Active /\ n \notin Before(n) /\ Before(n + 1) = Before(n) \cup {n}
    <3>1. n \in Active
      BY <1>4 DEF Active
    <3>2. n \notin Before(n)
      BY <1>1 DEF Before
    <3>3. ASSUME NEW i \in Active PROVE i < n + 1 <=> i < n \/ i = n
      <4>1. i \in Slots
        BY DEF Active
      <4> QED BY <1>2, <4>1
    <3>4. Before(n + 1) = Before(n) \cup {n}
      BY <3>1, <3>3 DEF Before
    <3> QED BY <3>1, <3>2, <3>4
  <2>2. Cardinality(Before(n + 1)) = Cardinality(Before(n)) + 1
    BY <1>2, <2>1, FS_AddElement
  <2>3. Cardinality(Before(n)) + 1 <= Cardinality(Active)
    <3>1. Before(n + 1) \in SUBSET Active
      BY <2>1 DEF Before
    <3> QED BY <2>2, <3>1, SlotsFacts, FS_Subset
  <2>4. \A i \in Slots : i >= n + 1 => i >= n /\ i # n
    BY <1>1, SlotsFacts
  <2>5. /\ r.j \in Nat /\ r.count \in Int /\ r.count <= timer_count /\ r.j <= Cardinality(Before(n))
        /\ r.timers \in [Slots -> Timer] /\ r.timers[n] = timers[n]
    <3>1. n >= n
      BY <1>1
    <3> QED BY <3>1 DEF WalkOK
  <2>6. CASE r.j >= r.count
    <3>1. Round(r, n, at) = r
      BY <2>6 DEF Round
    <3>2. r.count < timer_count
      BY <1>1, <1>2, <2>3, <2>5, <2>6
    <3>3. WasSkipped(r, n, at)
      BY <3>2 DEF WasSkipped
    <3>4. r.j <= Cardinality(Before(n + 1))
      BY <1>2, <2>2, <2>5
    <3> QED BY <1>2, <2>4, <3>1, <3>3, <3>4 DEF WalkOK
  <2>7. CASE ~(r.j >= r.count) /\ ~Due(timers[n], at)
    <3>1. PICK q : q = Round(r, n, at)
      OBVIOUS
    <3>2. q = [r EXCEPT !.j = @ + 1]
      BY <1>4, <2>7, <3>1 DEF Round
    <3>3. q.timers = r.timers /\ q.count = r.count /\ q.ran = r.ran
      BY <3>2
    <3>4. q.j \in Nat /\ q.j <= Cardinality(Before(n + 1))
      <4>1. q.j \in {r.j, r.j + 1}
        BY <3>2
      <4> QED BY <1>2, <2>2, <2>5, <4>1
    <3>5. WasSkipped(q, n, at)
      BY <2>7 DEF WasSkipped
    <3>6. \A i \in Slots : /\ HasRun(q, i, at) <=> HasRun(r, i, at)
                           /\ WasSkipped(q, i, at) <=> WasSkipped(r, i, at)
      BY <3>3 DEF HasRun, WasSkipped
    <3>7. WalkOK(q, n + 1, at)
      BY <1>2, <2>4, <2>5, <3>3, <3>4, <3>5, <3>6 DEF WalkOK
    <3> QED BY <3>1, <3>7
  <2>8. CASE ~(r.j >= r.count) /\ Due(timers[n], at)
    <3>1. PICK q : q = Round(r, n, at)
      OBVIOUS
    <3>2. PICK t : t = AfterRun(timers[n])
      OBVIOUS
    <3>3. /\ timers[n] \in Timer /\ t \in Timer /\ t.active = ~LastRun(timers[n])
      BY <1>1, <3>2, AfterRunIs
    <3>4. /\ q.j = r.j + 1 /\ q.count = r.count - (IF LastRun(timers[n]) THEN 1 ELSE 0)
          /\ q.timers = [r.timers EXCEPT ![n] = t] /\ q.ran = r.ran \cup {timers[n].id}
      BY <1>4, <2>8, <3>1, <3>2 DEF Round
    <3>5. /\ q.j \in Nat /\ q.j <= Cardinality(Before(n + 1)) /\ q.count \in Int /\ q.count <= r.count
          /\ q.count <= timer_count /\ q.timers \in [Slots -> Timer]
      <4>1. q.j \in Nat /\ q.j <= Cardinality(Before(n + 1))
        BY <1>2, <2>2, <2>5, <3>4
      <4>2. q.count \in Int /\ q.count <= r.count /\ q.count <= timer_count
        BY <1>1, <2>5, <3>4
      <4>3. q.timers \in [Slots -> Timer]
        BY <2>5, <3>3, <3>4
      <4> QED BY <4>1, <4>2, <4>3
    <3>6. q.timers[n] = t /\ \A i \in Slots : i # n => q.timers[i] = r.timers[i]
      BY <2>5, <3>4
    <3>7. HasRun(q, n, at)
      BY <1>4, <2>8, <3>2, <3>4, <3>6 DEF HasRun
    <3>8. \A i \in Slots : HasRun(r, i, at) => HasRun(q, i, at)
      <4>1. SUFFICES ASSUME NEW i \in Slots, HasRun(r, i, at), i # n PROVE HasRun(q, i, at)
        BY <3>7
      <4> QED BY <3>4, <3>6, <4>1 DEF HasRun
    <3>9. \A i \in Slots : i >= n + 1 => q.timers[i] = timers[i]
      BY <2>4, <3>6 DEF WalkOK
    <3>10. \A i \in Slots : HasRun(q, i, at) \/ (q.timers[i] = timers[i] /\ (i < n + 1 => WasSkipped(q, i, at)))
      <4>1. SUFFICES ASSUME NEW i \in Slots, ~HasRun(r, i, at), i # n
                     PROVE  q.timers[i] = timers[i] /\ (i < n + 1 => WasSkipped(q, i, at))
        BY <3>7, <3>8
      <4>2. r.timers[i] = timers[i] /\ (i < n => WasSkipped(r, i, at))
        BY <4>1 DEF WalkOK
      <4>3. WasSkipped(r, i, at) => WasSkipped(q, i, at)
        BY <1>1, <2>5, <3>5 DEF WasSkipped
      <4> QED BY <1>2, <3>6, <4>1, <4>2, <4>3
    <3>11. \A id \in q.ran : \E i \in Slots : HasRun(q, i, at) /\ timers[i].id = id
      <4>1. SUFFICES ASSUME NEW id \in r.ran PROVE \E i \in Slots : HasRun(q, i, at) /\ timers[i].id = id
        BY <3>4, <3>7
      <4>2. PICK i \in Slots : HasRun(r, i, at) /\ timers[i].id = id
        BY DEF WalkOK
      <4> QED BY <3>8, <4>2
    <3>12. q.count - Cardinality(ActiveOf(q.timers)) = timer_count - Cardinality(Active)
      <4>1. /\ ActiveOf(r.timers) \in SUBSET Slots /\ ActiveOf(q.timers) \in SUBSET Slots
            /\ n \in ActiveOf(r.timers)
        BY <1>4, <2>5 DEF ActiveOf
      <4>2. /\ IsFiniteSet(ActiveOf(r.timers)) /\ Cardinality(ActiveOf(r.timers)) \in Nat
            /\ r.count - Cardinality(ActiveOf(r.timers)) = timer_count - Cardinality(Active)
        BY <4>1, SlotsFacts DEF WalkOK
      <4>3. CASE LastRun(timers[n])
        <5>1. ActiveOf(q.timers) = ActiveOf(r.timers) \ {n}
          BY <3>3, <3>6, <4>3 DEF ActiveOf
        <5>2. Cardinality(ActiveOf(q.timers)) = Cardinality(ActiveOf(r.timers)) - 1
          <6>1. Cardinality(ActiveOf(r.timers) \ {n}) = Cardinality(ActiveOf(r.timers)) - 1
            BY <4>1, <4>2, FS_RemoveElement
          <6> QED BY <5>1, <6>1
        <5>3. q.count = r.count - 1
          BY <3>4, <4>3
        <5> QED BY <1>1, <2>5, <4>2, <5>2, <5>3
      <4>4. CASE ~LastRun(timers[n])
        <5>1. ActiveOf(q.timers) = ActiveOf(r.timers)
          BY <3>3, <3>6, <4>1, <4>4 DEF ActiveOf
        <5>2. q.count = r.count
          BY <2>5, <3>4, <4>4
        <5> QED BY <4>2, <5>1, <5>2
      <4> QED BY <4>3, <4>4
    <3>13. WalkOK(q, n + 1, at)
      BY <3>5, <3>9, <3>10, <3>11, <3>12 DEF WalkOK
    <3> QED BY <3>1, <3>13
  <2> QED BY <2>6, <2>7, <2>8
<1> QED BY <1>3, <1>4

\* The walk as a whole.
LEMMA SweepOK ==
  ASSUME TimerTypeOK, CountOK, NEW at \in Int
  PROVE  WalkOK(Sweep(at), MaxTimers, at)
<1>1. MaxTimers \in Nat /\ MaxTimers # 0
  BY SlotsFacts
<1>2. PICK s : /\ s = CHOOSE x : Rounds(at, MaxTimers, x)
               /\ Rounds(at, MaxTimers, s)
  BY <1>1, RoundsExist
<1>3. Sweep(at) = s[MaxTimers]
  BY <1>2 DEF Sweep, Rounds
<1>4. /\ \A n \in 0..MaxTimers : n # 0 => s[n] = Round(s[n - 1], n - 1, at)
      /\ s[0] = SweepStart
  <2>1. s = [n \in 0..MaxTimers |-> IF n = 0 THEN SweepStart ELSE Round(s[n - 1], n - 1, at)]
    BY <1>2 DEF Rounds
  <2>2. \A n \in 0..MaxTimers : s[n] = IF n = 0 THEN SweepStart ELSE Round(s[n - 1], n - 1, at)
    BY <2>1
  <2>3. 0 \in 0..MaxTimers
    BY <1>1
  <2> QED BY <2>2, <2>3
<1>5. WalkOK(SweepStart, 0, at)
  <2>1. timers \in [Slots -> Timer] /\ timer_count \in Nat
    BY SlotsFacts DEF TimerTypeOK
  <2>2. \A i \in Slots : ~(i < 0)
    BY SlotsFacts
  <2>3. Before(0) = {}
    BY <2>2 DEF Before, Active
  <2>4. ActiveOf(timers) = Active
    BY DEF ActiveOf, Active
  <2>5. Cardinality(Before(0)) = 0
    BY <2>3, FS_EmptySet
  <2> QED BY <2>1, <2>2, <2>4, <2>5 DEF WalkOK, SweepStart
<1> DEFINE Bad == {n \in 0..MaxTimers : ~WalkOK(s[n], n, at)}
<1>6. SUFFICES ASSUME Bad # {} PROVE FALSE
  BY <1>1, <1>3
<1>7. Bad \subseteq Nat
  OBVIOUS
<1>8. PICK n \in Bad : \A k \in Bad : n <= k
  BY <1>6, <1>7, LeastIs
<1>9. n # 0 /\ n \in 0..MaxTimers
  BY <1>4, <1>5, <1>8
<1>10. n - 1 \in Slots /\ n - 1 \in 0..MaxTimers /\ n - 1 < n /\ n - 1 + 1 = n
  BY <1>1, <1>9 DEF Slots
<1>11. WalkOK(s[n - 1], n - 1, at)
  BY <1>8, <1>10
<1>12. WalkOK(s[n], n - 1 + 1, at)
  BY <1>4, <1>9, <1>10, <1>11, RoundKeeps
<1> QED BY <1>8, <1>10, <1>12

-----------------------------------------------------------------------------
(* The steps.                                                              *)

\* More of the numbers up to some bound are more.
LEMMA MoreAreMore ==
  ASSUME NEW m \in Nat, NEW n \in Nat, NEW S \in SUBSET (1..m), NEW T \in SUBSET (1..n), S \subseteq T
  PROVE  /\ Cardinality(S) \in Nat /\ Cardinality(T) \in Nat /\ Cardinality(S) <= Cardinality(T)
         /\ \A x \in T : x \notin S => Cardinality(S) < Cardinality(T)
<1>1. IsFiniteSet(1..m) /\ IsFiniteSet(1..n)
  BY FS_Interval
<1>2. IsFiniteSet(S) /\ IsFiniteSet(T)
  BY <1>1, FS_Subset
<1>3. Cardinality(S) \in Nat /\ Cardinality(T) \in Nat /\ Cardinality(S) <= Cardinality(T)
  BY <1>2, FS_CardinalityType, FS_Subset
<1>4. ASSUME NEW x \in T, x \notin S PROVE Cardinality(S) < Cardinality(T)
  <2>1. Cardinality(S \cup {x}) = Cardinality(S) + 1
    BY <1>2, <1>4, FS_AddElement
  <2>2. (S \cup {x}) \in SUBSET T
    BY <1>4
  <2>3. Cardinality(S \cup {x}) <= Cardinality(T)
    BY <1>2, <2>2, FS_Subset
  <2> QED BY <1>3, <2>1, <2>3
<1> QED BY <1>3, <1>4

\* The timers that are over stay so when none of them is made active.
LEMMA OverGrows ==
  ASSUME TimerTypeOK, TimerTypeOK', Over \subseteq Over'
  PROVE  /\ Cardinality(Over) \in Nat /\ Cardinality(Over)' \in Nat
         /\ Cardinality(Over) <= Cardinality(Over)'
         /\ \A id \in Over' : id \notin Over => Cardinality(Over) < Cardinality(Over)'
<1>1. retval \in Nat /\ retval' \in Nat
  BY SlotsFacts DEF TimerTypeOK
<1>2. Over \in SUBSET (1..retval) /\ Over' \in SUBSET (1..retval')
  BY DEF Over
<1>3. PICK S : S = Over
  OBVIOUS
<1>4. PICK T : T = Over'
  OBVIOUS
<1>5. S \in SUBSET (1..retval) /\ T \in SUBSET (1..retval') /\ S \subseteq T
  BY <1>2, <1>3, <1>4
<1>6. /\ Cardinality(S) \in Nat /\ Cardinality(T) \in Nat /\ Cardinality(S) <= Cardinality(T)
      /\ \A x \in T : x \notin S => Cardinality(S) < Cardinality(T)
  BY <1>1, <1>5, MoreAreMore
<1> QED BY <1>3, <1>4, <1>6

\* A step that leaves the table's timers and the time alone.
LEMMA TimersStay ==
  ASSUME TimerIInv, TimerTypeOK', UNCHANGED <<timers, now, started, runs>>, retval' \in {retval, retval + 1}
  PROVE  /\ Active' = Active /\ Cardinality(Active)' = Cardinality(Active)
         /\ \A i \in Slots : Kept(i)'
         /\ \A i \in Active' : NotLate(i)'
<1>1. Active' = Active
  BY DEF Active
<1>2. \A i \in Slots : Kept(i)'
  BY DEF TimerIInv, Kept
<1>3. retval \in Nat /\ retval' \in Nat /\ retval <= retval'
  BY SlotsFacts DEF TimerIInv, TimerTypeOK
<1>4. Over \subseteq Over'
  <2>1. \A id \in 1..retval : id \in 1..retval'
    BY <1>3
  <2> QED BY <1>1, <2>1 DEF Over
<1>5. Cardinality(Over) \in Nat /\ Cardinality(Over)' \in Nat /\ Cardinality(Over) <= Cardinality(Over)'
  BY <1>4, OverGrows DEF TimerIInv
<1>6. ASSUME NEW i \in Active, NotLate(i) PROVE NotLate(i)'
  <2>1. i \in Slots /\ timers \in [Slots -> Timer] /\ now \in Int
    BY SlotsFacts DEF TimerIInv, TimerTypeOK, Active
  <2>2. timers[i].next_run \in Int
    BY <2>1 DEF Timer
  <2> QED BY <1>5, <2>1, <2>2, <1>6 DEF NotLate
<1> QED BY <1>1, <1>2, <1>6 DEF TimerIInv

\* Each step of a call of ktimer_start() or ktimer_stop() keeps the invariant.
LEMMA StartKeeps ==
  ASSUME TimerIInv, NEW c \in Caller, Start(c)
  PROVE  TimerIInv'
<1>1. /\ step[c] = "idle" /\ step' = [step EXCEPT ![c] = "count"] /\ timer_count # MaxTimers
      /\ UNCHANGED <<timers, timer_count, retval, now, slot, timer_id, started, runs, faults>>
  BY DEF Start, Onto, table, past
<1>2. PICK f \in Delays, n \in Times : freq' = [freq EXCEPT ![c] = f] /\ times' = [times EXCEPT ![c] = n]
  BY DEF Start
<1>3. TimerTypeOK'
  BY <1>1, <1>2 DEF TimerIInv, TimerTypeOK, Steps
<1>4. step \in [Caller -> Steps] /\ freq \in [Caller -> {0} \cup Delays]
  BY DEF TimerIInv, TimerTypeOK
<1>5. /\ \A d \in Caller : d # c => step'[d] = step[d] /\ freq'[d] = freq[d]
      /\ step'[c] = "count" /\ freq'[c] \in Delays
  BY <1>1, <1>2, <1>4
<1>6. OneMidway'
  BY <1>1, <1>5 DEF TimerIInv, OneMidway, Midway
<1>7. /\ Active' = Active /\ Cardinality(Active)' = Cardinality(Active)
      /\ \A i \in Slots : Kept(i)'
      /\ \A i \in Active' : NotLate(i)'
  BY <1>1, <1>3, TimersStay
<1>8. CountOK'
  BY <1>1, <1>5, <1>7 DEF TimerIInv, CountOK, Counting
<1>9. IdsOK'
  BY <1>1, <1>5, <1>7 DEF TimerIInv, IdsOK
<1>10. timer_count < MaxTimers
  BY <1>1, SlotsFacts DEF TimerIInv, TimerTypeOK
<1>11. ASSUME NEW d \in Caller PROVE StartOK(d)'
  BY <1>1, <1>5, <1>10 DEF TimerIInv, StartOK
<1> QED BY <1>3, <1>6, <1>7, <1>8, <1>9, <1>11 DEF TimerIInv

LEMMA CountUpKeeps ==
  ASSUME TimerIInv, NEW c \in Caller, CountUp(c), faults' = {}
  PROVE  TimerIInv'
<1>1. /\ step[c] = "count" /\ step' = [step EXCEPT ![c] = "find"] /\ retval < MaxStarts
      /\ timer_count' = timer_count + 1 /\ retval' = retval + 1 /\ timer_id' = [timer_id EXCEPT ![c] = retval + 1]
      /\ UNCHANGED <<timers, now, slot, freq, times, started, runs>>
  BY DEF CountUp, Onto, past
<1>2. \A d \in Caller : d # c => step[d] = "idle"
  BY DEF CountUp
<1>3. /\ timer_count \in Nat /\ timer_count < MaxTimers /\ retval \in Nat /\ retval + 1 \in Ids /\ freq[c] \in Delays
  <2>1. timer_count < MaxTimers /\ freq[c] \in Delays
    BY <1>1 DEF TimerIInv, StartOK
  <2>2. timer_count \in Nat /\ retval \in Nat
    BY SlotsFacts DEF TimerIInv, TimerTypeOK
  <2>3. retval + 1 \in Ids
    BY <1>1, <2>2, SlotsFacts DEF Ids
  <2> QED BY <2>1, <2>2, <2>3
<1>4. TimerTypeOK'
  <2>1. timer_count' \in 0..MaxTimers /\ retval' \in 0..MaxStarts
    BY <1>1, <1>3, SlotsFacts
  <2> QED BY <1>1, <2>1 DEF TimerIInv, TimerTypeOK, Steps
<1>5. step \in [Caller -> Steps] /\ timer_id \in [Caller -> 0..MaxStarts]
  BY DEF TimerIInv, TimerTypeOK
<1>6. /\ \A d \in Caller : d # c => step'[d] = "idle"
      /\ step'[c] = "find" /\ timer_id'[c] = retval'
  BY <1>1, <1>2, <1>5
<1>7. OneMidway'
  BY <1>6 DEF OneMidway, Midway
<1>8. /\ Active' = Active /\ Cardinality(Active)' = Cardinality(Active)
      /\ \A i \in Slots : Kept(i)'
      /\ \A i \in Active' : NotLate(i)'
  BY <1>1, <1>4, TimersStay
<1>9. CountOK'
  <2>1. ~Counting /\ Counting'
    <3>1. \A d \in Caller : step[d] \in {"idle", "count"}
      BY <1>1, <1>2
    <3> QED BY <1>6, <3>1 DEF Counting
  <2> QED BY <1>1, <1>8, <2>1, SlotsFacts DEF TimerIInv, CountOK
<1>10. \A i \in Slots : timers[i].id \in Nat /\ timers[i].id <= retval
  <2>1. \A i \in Slots : timers[i] \in Timer
    BY DEF TimerIInv, TimerTypeOK
  <2>2. \A i \in Slots : timers[i].id \in Nat
    <3>1. \A k \in 0..MaxStarts : k \in Nat
      BY SlotsFacts
    <3>2. \A t \in Timer : t.id \in 0..MaxStarts
      BY DEF Timer
    <3> QED BY <2>1, <3>1, <3>2
  <2> QED BY <2>2 DEF TimerIInv, IdsOK
<1>11. IdsOK'
  <2>1. \A i \in Slots : timers'[i].id <= retval'
    BY <1>1, <1>3, <1>10
  <2>2. ASSUME NEW i \in Active', started'[timers'[i].id] = NotStarted
        PROVE  \E d \in Caller : step'[d] = "fill" /\ slot'[d] = i
    BY <1>1, <1>2, <1>8, <2>2 DEF TimerIInv, IdsOK
  <2>3. ASSUME NEW id \in Ids, id > retval' PROVE started'[id] = NotStarted
    <3>1. id > retval
      BY <1>1, <1>3, <2>3, SlotsFacts DEF Ids
    <3> QED BY <1>1, <3>1 DEF TimerIInv, IdsOK
  <2> QED BY <1>1, <1>8, <2>1, <2>2, <2>3 DEF TimerIInv, IdsOK
<1>12. ASSUME NEW d \in Caller PROVE StartOK(d)'
  <2>1. CASE d # c
    BY <1>6, <2>1 DEF StartOK
  <2>2. CASE d = c
    <3>1. retval' \in Ids /\ started'[retval'] = NotStarted
      <4>1. retval + 1 > retval
        BY <1>3
      <4> QED BY <1>1, <1>3, <4>1 DEF TimerIInv, IdsOK
    <3>2. \A i \in Slots : timers'[i].id # retval'
      BY <1>1, <1>3, <1>10
    <3> QED BY <1>1, <1>3, <1>6, <2>2, <3>1, <3>2 DEF StartOK
  <2> QED BY <2>1, <2>2
<1> QED BY <1>4, <1>7, <1>8, <1>9, <1>11, <1>12 DEF TimerIInv

LEMMA FindKeeps ==
  ASSUME TimerIInv, NEW c \in Caller, Find(c)
  PROVE  TimerIInv'
<1>1. /\ step[c] = "find" /\ step' = [step EXCEPT ![c] = "activate"]
      /\ UNCHANGED <<timers, timer_count, retval, now, freq, times, timer_id, started, runs, faults>>
  BY DEF Find, Onto, table, past
<1>2. PICK s \in Slots : ~timers[s].active /\ slot' = [slot EXCEPT ![c] = s]
  BY DEF Find
<1>3. TimerTypeOK'
  BY <1>1, <1>2 DEF TimerIInv, TimerTypeOK, Steps
<1>4. step \in [Caller -> Steps] /\ slot \in [Caller -> Slots]
  BY DEF TimerIInv, TimerTypeOK
<1>5. /\ \A d \in Caller : d # c => step'[d] = step[d] /\ slot'[d] = slot[d]
      /\ step'[c] = "activate" /\ slot'[c] = s
  BY <1>1, <1>2, <1>4
<1>6. OneMidway'
  BY <1>1, <1>5 DEF TimerIInv, OneMidway, Midway
<1>7. /\ Active' = Active /\ Cardinality(Active)' = Cardinality(Active)
      /\ \A i \in Slots : Kept(i)'
      /\ \A i \in Active' : NotLate(i)'
  BY <1>1, <1>3, TimersStay
<1>8. CountOK'
  <2>1. Counting /\ Counting'
    BY <1>1, <1>5 DEF Counting
  <2> QED BY <1>1, <1>7, <2>1 DEF TimerIInv, CountOK
<1>9. IdsOK'
  <2>1. ASSUME NEW i \in Active, started[timers[i].id] = NotStarted
        PROVE  \E d \in Caller : step'[d] = "fill" /\ slot'[d] = i
    <3>1. PICK d \in Caller : step[d] = "fill" /\ slot[d] = i
      BY <2>1 DEF TimerIInv, IdsOK
    <3>2. d # c
      BY <1>1, <3>1
    <3> QED BY <1>5, <3>1, <3>2
  <2> QED BY <1>1, <1>7, <2>1 DEF TimerIInv, IdsOK
<1>10. ASSUME NEW d \in Caller PROVE StartOK(d)'
  <2>1. CASE d # c
    BY <1>1, <1>5, <2>1 DEF TimerIInv, StartOK
  <2>2. CASE d = c
    BY <1>1, <1>2, <1>5, <2>2 DEF TimerIInv, StartOK
  <2> QED BY <2>1, <2>2
<1> QED BY <1>3, <1>6, <1>7, <1>8, <1>9, <1>10 DEF TimerIInv

LEMMA ActivateKeeps ==
  ASSUME TimerIInv, NEW c \in Caller, Activate(c)
  PROVE  TimerIInv'
<1>1. PICK s : s = slot[c]
  OBVIOUS
<1>2. /\ step[c] = "activate" /\ step' = [step EXCEPT ![c] = "fill"]
      /\ timers' = [timers EXCEPT ![s].id = timer_id[c], ![s].active = TRUE]
      /\ UNCHANGED <<timer_count, retval, now, slot, freq, times, timer_id, started, runs, faults>>
  BY <1>1 DEF Activate, Onto, caller, past
<1>3. /\ timers \in [Slots -> Timer] /\ step \in [Caller -> Steps] /\ s \in Slots /\ retval \in Nat
  BY <1>1, SlotsFacts DEF TimerIInv, TimerTypeOK
<1>4. /\ timer_id[c] = retval /\ retval \in Ids /\ started[retval] = NotStarted /\ freq[c] \in Delays
      /\ ~timers[s].active /\ \A i \in Slots : timers[i].id # retval
  BY <1>1, <1>2 DEF TimerIInv, StartOK
<1>5. PICK t : t = [timers[s] EXCEPT !.id = retval, !.active = TRUE]
  OBVIOUS
<1>6. timers[s] \in Timer /\ retval \in 0..MaxStarts
  BY <1>3 DEF TimerIInv, TimerTypeOK
<1>7. t \in Timer /\ t.id = retval /\ t.active
  BY <1>5, <1>6 DEF Timer
<1>8. timers' = [timers EXCEPT ![s] = t]
  BY <1>2, <1>3, <1>4, <1>5
<1>9. timers'[s] = t /\ \A i \in Slots : i # s => timers'[i] = timers[i]
  BY <1>3, <1>8
<1>10. TimerTypeOK'
  <2>1. timers' \in [Slots -> Timer]
    BY <1>3, <1>7, <1>8
  <2>2. step' \in [Caller -> Steps]
    BY <1>2, <1>3 DEF Steps
  <2> QED BY <1>2, <2>1, <2>2 DEF TimerIInv, TimerTypeOK
<1>11. step'[c] = "fill" /\ \A d \in Caller : d # c => step'[d] = step[d] /\ ~Midway(d)
  BY <1>2, <1>3 DEF TimerIInv, OneMidway, Midway
<1>12. OneMidway'
  BY <1>2, <1>11 DEF OneMidway, Midway
<1>13. Active' = Active \cup {s} /\ s \notin Active
  BY <1>3, <1>4, <1>7, <1>9 DEF Active
<1>14. Cardinality(Active)' = Cardinality(Active) + 1
  <2>1. Cardinality(Active \cup {s}) = Cardinality(Active) + 1
    BY <1>13, SlotsFacts, FS_AddElement
  <2> QED BY <1>13, <2>1
<1>15. CountOK'
  <2>1. Counting /\ ~Counting'
    BY <1>2, <1>11 DEF Counting, Midway
  <2> QED BY <1>2, <1>14, <2>1, SlotsFacts DEF TimerIInv, CountOK
<1>16. IdsOK'
  <2>1. \A i \in Slots : timers'[i].id <= retval'
    <3>1. \A i \in Slots : timers[i].id <= retval
      BY DEF TimerIInv, IdsOK
    <3>2. retval <= retval
      BY <1>3
    <3> QED BY <1>2, <1>7, <1>9, <3>1, <3>2
  <2>2. \A i \in Active' : timers'[i].id # 0
    <3>1. retval # 0
      BY <1>3, <1>4, SlotsFacts DEF Ids
    <3> QED BY <1>3, <1>7, <1>9, <1>13, <3>1 DEF TimerIInv, IdsOK, Active
  <2>3. \A i, k \in Slots : timers'[i].id = timers'[k].id /\ i # k => timers'[i].id = 0
    BY <1>4, <1>7, <1>9 DEF TimerIInv, IdsOK
  <2>4. ASSUME NEW i \in Active', started'[timers'[i].id] = NotStarted
        PROVE  \E d \in Caller : step'[d] = "fill" /\ slot'[d] = i
    <3>1. CASE i = s
      BY <1>1, <1>2, <1>11, <3>1
    <3>2. CASE i # s
      <4>1. i \in Active /\ timers'[i] = timers[i]
        BY <1>9, <1>13, <3>2 DEF Active
      <4>2. PICK d \in Caller : step[d] = "fill" /\ slot[d] = i
        BY <1>2, <2>4, <4>1 DEF TimerIInv, IdsOK
      <4>3. d # c
        BY <1>2, <4>2
      <4> QED BY <1>2, <1>11, <4>2, <4>3
    <3> QED BY <3>1, <3>2
  <2> QED BY <1>2, <2>1, <2>2, <2>3, <2>4 DEF TimerIInv, IdsOK
<1>17. ASSUME NEW d \in Caller PROVE StartOK(d)'
  <2>1. CASE d # c
    BY <1>2, <1>11, <2>1 DEF TimerIInv, StartOK, Midway
  <2>2. CASE d = c
    BY <1>1, <1>2, <1>4, <1>7, <1>9, <1>11, <2>2 DEF StartOK
  <2> QED BY <2>1, <2>2
<1>18. ASSUME NEW i \in Slots PROVE Kept(i)'
  <2>1. CASE i = s
    <3>1. timers'[i].id = retval /\ started'[retval] = NotStarted
      BY <1>2, <1>4, <1>7, <1>9, <2>1
    <3> QED BY <3>1 DEF Kept
  <2>2. CASE i # s
    <3>1. timers'[i] = timers[i] /\ started' = started /\ runs' = runs /\ now' = now
      BY <1>2, <1>9, <2>2
    <3>2. Kept(i)
      BY DEF TimerIInv
    <3> QED BY <3>1, <3>2 DEF Kept
  <2> QED BY <2>1, <2>2
<1>19. Over \subseteq Over'
  <2>1. ASSUME NEW id \in Over PROVE \A i \in Active' : timers'[i].id # id
    <3>1. id # retval
      BY <1>4 DEF Over
    <3>2. \A i \in Active : timers[i].id # id
      BY DEF Over
    <3>3. \A i \in Active : i \in Slots
      BY DEF Active
    <3> QED BY <1>7, <1>9, <1>13, <3>1, <3>2, <3>3
  <2> QED BY <1>2, <2>1 DEF Over
<1>20. ASSUME NEW i \in Active' PROVE NotLate(i)'
  <2>1. CASE i = s
    BY <1>2, <1>4, <1>7, <1>9, <2>1 DEF NotLate
  <2>2. CASE i # s
    <3>1. i \in Active /\ i \in Slots /\ timers'[i] = timers[i]
      BY <1>9, <1>13, <2>2 DEF Active
    <3>2. /\ Cardinality(Over) \in Nat /\ Cardinality(Over)' \in Nat /\ Cardinality(Over) <= Cardinality(Over)'
      BY <1>10, <1>19, OverGrows DEF TimerIInv
    <3>3. timers[i].next_run \in Int /\ now \in Int
      <4>1. timers[i] \in Timer /\ now \in Int
        BY <1>3, <3>1, SlotsFacts DEF TimerIInv, TimerTypeOK
      <4> QED BY <4>1 DEF Timer
    <3>4. NotLate(i)
      BY <3>1 DEF TimerIInv
    <3>5. started' = started /\ now' = now
      BY <1>2
    <3> QED BY <3>1, <3>2, <3>3, <3>4, <3>5 DEF NotLate
  <2> QED BY <2>1, <2>2
<1> QED BY <1>10, <1>12, <1>15, <1>16, <1>17, <1>18, <1>20 DEF TimerIInv

\* The time of a run is the time of the one before it and a period.
LEMMA NextPeriod == \A f, n \in Nat : f * (n + 1) = f * n + f /\ f * n \in Nat
OBVIOUS

LEMMA FillKeeps ==
  ASSUME TimerIInv, NEW c \in Caller, Fill(c)
  PROVE  TimerIInv'
<1>1. PICK s : s = slot[c]
  OBVIOUS
<1>2. PICK f : f = freq[c]
  OBVIOUS
<1>3. /\ step[c] = "fill" /\ step' = [step EXCEPT ![c] = "idle"]
      /\ timers' = [timers EXCEPT ![s].times = times[c], ![s].times_run = 0, ![s].freq = f, ![s].next_run = now + f]
      /\ started' = [started EXCEPT ![timer_id[c]] = now]
      /\ slot' = [slot EXCEPT ![c] = 0] /\ freq' = [freq EXCEPT ![c] = 0] /\ times' = [times EXCEPT ![c] = 0]
      /\ UNCHANGED <<timer_count, retval, now, timer_id, runs, faults>>
  BY <1>1, <1>2 DEF Fill, FirstRun, Onto
<1>4. /\ timers \in [Slots -> Timer] /\ step \in [Caller -> Steps] /\ s \in Slots /\ retval \in Nat /\ now \in Nat
      /\ started \in [Ids -> Nat \cup {NotStarted}] /\ freq \in [Caller -> {0} \cup Delays]
      /\ slot \in [Caller -> Slots] /\ times[c] \in {0} \cup Times
  BY <1>1, SlotsFacts DEF TimerIInv, TimerTypeOK
<1>5. /\ timer_id[c] = retval /\ retval \in Ids /\ started[retval] = NotStarted /\ f \in Delays
      /\ timers[s].active /\ timers[s].id = retval
  BY <1>1, <1>2, <1>3 DEF TimerIInv, StartOK
<1>6. f \in Nat /\ f > 0 /\ retval # 0
  BY <1>4, <1>5, TimerAssumption DEF Ids
<1>7. PICK t : t = [timers[s] EXCEPT !.times = times[c], !.times_run = 0, !.freq = f, !.next_run = now + f]
  OBVIOUS
<1>8. timers[s] \in Timer /\ now + f \in Nat
  BY <1>4, <1>6
<1>9. t \in Timer /\ t.id = retval /\ t.active /\ t.times_run = 0 /\ t.freq = f /\ t.next_run = now + f
  BY <1>4, <1>5, <1>7, <1>8 DEF Timer
<1>10. timers' = [timers EXCEPT ![s] = t]
  BY <1>3, <1>4, <1>7
<1>11. timers'[s] = t /\ \A i \in Slots : i # s => timers'[i] = timers[i]
  BY <1>4, <1>10
<1>12. /\ started' \in [Ids -> Nat \cup {NotStarted}]
       /\ started'[retval] = now /\ \A id \in Ids : id # retval => started'[id] = started[id]
  BY <1>3, <1>4, <1>5
<1>13. TimerTypeOK'
  <2>1. timers' \in [Slots -> Timer]
    BY <1>4, <1>9, <1>10
  <2>2. slot' \in [Caller -> Slots]
    BY <1>3, <1>4, SlotsFacts
  <2>3. freq' \in [Caller -> {0} \cup Delays]
    BY <1>3, <1>4
  <2>4. times' \in [Caller -> {0} \cup Times] /\ step' \in [Caller -> Steps]
    BY <1>3 DEF TimerIInv, TimerTypeOK, Steps
  <2> QED BY <1>3, <1>12, <2>1, <2>2, <2>3, <2>4 DEF TimerIInv, TimerTypeOK
<1>14. /\ step'[c] = "idle"
       /\ \A d \in Caller : d # c => step'[d] = step[d] /\ slot'[d] = slot[d] /\ freq'[d] = freq[d] /\ ~Midway(d)
  BY <1>3, <1>4 DEF TimerIInv, OneMidway, Midway
<1>15. OneMidway'
  BY <1>14 DEF OneMidway, Midway
<1>16. Active' = Active /\ s \in Active
  BY <1>4, <1>5, <1>9, <1>11 DEF Active
<1>17. CountOK'
  <2>1. ~Counting /\ ~Counting'
    BY <1>3, <1>14 DEF Counting, Midway
  <2> QED BY <1>3, <1>16, <2>1 DEF TimerIInv, CountOK
<1>18. \A i \in Slots : timers'[i].id = timers[i].id
  BY <1>5, <1>9, <1>11
<1>19. NotStarted \notin Nat
  BY SMTT(60) DEF NotStarted
<1>20. IdsOK'
  <2>1. \A i \in Slots : timers'[i].id <= retval'
    BY <1>3, <1>18, ZenonT(60) DEF TimerIInv, IdsOK
  <2>2. \A i \in Active' : timers'[i].id # 0
    BY <1>16, <1>18 DEF TimerIInv, IdsOK, Active
  <2>3. \A i, k \in Slots : timers'[i].id = timers'[k].id /\ i # k => timers'[i].id = 0
    BY <1>18 DEF TimerIInv, IdsOK
  <2>4. ASSUME NEW i \in Active', started'[timers'[i].id] = NotStarted
        PROVE  \E d \in Caller : step'[d] = "fill" /\ slot'[d] = i
    <3>1. i \in Slots /\ i \in Active
      BY <1>16 DEF Active
    <3>2. timers[i].id # retval /\ i # s
      BY <1>4, <1>5, <1>12, <1>18, <1>19, <2>4, <3>1
    <3>3. timers[i].id \in Ids
      <4>1. timers[i] \in Timer /\ timers[i].id # 0
        BY <1>4, <3>1 DEF TimerIInv, IdsOK
      <4> QED BY <4>1, SlotsFacts DEF Timer, Ids
    <3>4. started[timers[i].id] = NotStarted
      BY <1>12, <1>18, <2>4, <3>1, <3>2, <3>3
    <3>5. PICK d \in Caller : step[d] = "fill" /\ slot[d] = i
      BY <3>1, <3>4 DEF TimerIInv, IdsOK
    <3>6. d # c
      BY <1>1, <3>2, <3>5
    <3> QED BY <1>14, <3>5, <3>6
  <2>5. \A id \in Ids : started'[id] = NotStarted => started[id] = NotStarted
    BY <1>5, <1>12
  <2>6. ASSUME NEW id \in Ids, id > retval PROVE started'[id] = NotStarted
    <3>1. id # retval
      BY <1>4, <2>6, SlotsFacts DEF Ids
    <3> QED BY <1>12, <2>6, <3>1 DEF TimerIInv, IdsOK
  <2> QED BY <1>3, <2>1, <2>2, <2>3, <2>4, <2>5, <2>6 DEF TimerIInv, IdsOK
<1>21. ASSUME NEW d \in Caller PROVE StartOK(d)'
  <2>1. CASE d # c
    BY <1>3, <1>14, <2>1 DEF TimerIInv, StartOK, Midway
  <2>2. CASE d = c
    BY <1>14, <2>2 DEF StartOK
  <2> QED BY <2>1, <2>2
<1>22. runs[retval] = 0 /\ runs[retval] \in Nat
  BY <1>5 DEF TimerIInv, IdsOK
<1>23. ASSUME NEW i \in Slots PROVE Kept(i)'
  <2>1. CASE i = s
    <3>1. f * (0 + 1) = f /\ f * 0 = 0
      BY <1>6
    <3>2. t.times \in Nat
      <4>1. t.times \in {0} \cup Times
        BY <1>9 DEF Timer
      <4>2. {0} \cup Times \subseteq Nat
        BY TimerAssumption
      <4> QED BY <4>1, <4>2
    <3>3. /\ t.times > 0 => 0 <= t.times /\ 0 < t.times
          /\ t.next_run = now + f * (0 + 1) /\ now + f * 0 <= now
      BY <1>4, <1>6, <1>9, <3>1, <3>2
    <3>4. timers'[i] = t /\ started'[t.id] = now /\ runs'[t.id] = 0 /\ now' = now
      BY <1>3, <1>9, <1>11, <1>12, <1>22, <2>1, SMTT(60)
    <3> QED BY <1>5, <1>9, <3>3, <3>4 DEF Kept
  <2>2. CASE i # s
    <3>1. timers'[i] = timers[i]
      BY <1>11, <2>2
    <3>2. ASSUME timers[i].id # 0
          PROVE  started'[timers[i].id] = started[timers[i].id]
      <4>1. timers[i].id # retval
        BY <1>4, <1>5, <1>6, <2>2 DEF TimerIInv, IdsOK
      <4>2. timers[i].id \in Ids
        <5>1. timers[i] \in Timer
          BY <1>4
        <5> QED BY <3>2, <5>1, SlotsFacts DEF Timer, Ids
      <4> QED BY <1>12, <4>1, <4>2
    <3> QED BY <1>3, <3>1, <3>2, ZenonT(60) DEF TimerIInv, Kept
  <2> QED BY <2>1, <2>2
<1>24. Over \subseteq Over'
  <2>1. ASSUME NEW id \in Over PROVE id \in Over'
    <3>1. id \in 1..retval /\ started[id] # NotStarted /\ \A i \in Active : timers[i].id # id
      BY DEF Over
    <3>2. id \in Ids
      BY <1>4, <1>5, <3>1, SlotsFacts DEF Ids
    <3>3. started'[id] # NotStarted
      BY <1>5, <1>12, <3>1, <3>2
    <3>4. \A i \in Active' : timers'[i].id # id
      BY <1>16, <1>18, <3>1 DEF Active
    <3> QED BY <1>3, <3>1, <3>3, <3>4 DEF Over
  <2> QED BY <2>1
<1>25. ASSUME NEW i \in Active' PROVE NotLate(i)'
  <2>1. /\ Cardinality(Over) \in Nat /\ Cardinality(Over)' \in Nat /\ Cardinality(Over) <= Cardinality(Over)'
    BY <1>13, <1>24, OverGrows DEF TimerIInv
  <2>2. CASE i = s
    <3>1. now' - timers'[i].next_run < Cardinality(Over)'
      BY <1>3, <1>4, <1>6, <1>9, <1>11, <2>1, <2>2
    <3> QED BY <3>1 DEF NotLate
  <2>3. CASE i # s
    <3>1. i \in Active /\ i \in Slots /\ timers'[i] = timers[i]
      BY <1>11, <1>16, <2>3 DEF Active
    <3>2. timers[i] \in Timer /\ timers[i].id # retval /\ timers[i].id # 0
      BY <1>4, <1>5, <1>6, <2>3, <3>1 DEF TimerIInv, IdsOK
    <3>3. timers[i].id \in Ids /\ timers[i].next_run \in Int
      BY <3>2, SlotsFacts DEF Timer, Ids
    <3>4. started'[timers[i].id] = started[timers[i].id]
      BY <1>12, <3>2, <3>3
    <3>5. NotLate(i)
      BY <3>1 DEF TimerIInv
    <3>6. now' = now /\ now \in Int
      BY <1>3, <1>4
    <3> QED BY <2>1, <3>1, <3>3, <3>4, <3>5, <3>6 DEF NotLate
  <2> QED BY <2>2, <2>3
<1> QED BY <1>13, <1>15, <1>17, <1>20, <1>21, <1>23, <1>25 DEF TimerIInv

LEMMA StopTestKeeps ==
  ASSUME TimerIInv, NEW c \in Caller, StopTest(c)
  PROVE  TimerIInv'
<1>1. /\ step[c] = "idle"
      /\ UNCHANGED <<timers, timer_count, retval, now, freq, times, started, runs, faults>>
  BY DEF StopTest, table, past
<1>2. /\ step \in [Caller -> Steps] /\ slot \in [Caller -> Slots] /\ timer_id \in [Caller -> 0..MaxStarts]
  BY DEF TimerIInv, TimerTypeOK
<1>3. /\ slot' \in [Caller -> Slots] /\ step' \in [Caller -> Steps] /\ timer_id' \in [Caller -> 0..MaxStarts]
      /\ step'[c] \in {"idle", "stop"}
      /\ \A d \in Caller : d # c => step'[d] = step[d] /\ slot'[d] = slot[d] /\ timer_id'[d] = timer_id[d]
  <2>1. CASE \E i \in Slots : /\ slot' = [slot EXCEPT ![c] = i]
                              /\ Onto(c, "stop") /\ UNCHANGED timer_id
    BY <1>2, <2>1 DEF Onto, Steps
  <2>2. CASE timer_id' = [timer_id EXCEPT ![c] = 0] /\ UNCHANGED <<slot, step>>
    <3>1. 0 \in 0..MaxStarts
      BY SlotsFacts
    <3> QED BY <1>1, <1>2, <2>2, <3>1
  <2> QED BY <2>1, <2>2 DEF StopTest
<1>4. TimerTypeOK'
  BY <1>1, <1>3 DEF TimerIInv, TimerTypeOK
<1>5. OneMidway'
  BY <1>1, <1>3 DEF TimerIInv, OneMidway, Midway
<1>6. /\ Active' = Active /\ Cardinality(Active)' = Cardinality(Active)
      /\ \A i \in Slots : Kept(i)'
      /\ \A i \in Active' : NotLate(i)'
  BY <1>1, <1>4, TimersStay
<1>7. CountOK'
  <2>1. Counting <=> Counting'
    BY <1>1, <1>3 DEF Counting
  <2> QED BY <1>1, <1>6, <2>1 DEF TimerIInv, CountOK
<1>8. IdsOK'
  <2>1. ASSUME NEW i \in Active, started[timers[i].id] = NotStarted
        PROVE  \E d \in Caller : step'[d] = "fill" /\ slot'[d] = i
    <3>1. PICK d \in Caller : step[d] = "fill" /\ slot[d] = i
      BY <2>1 DEF TimerIInv, IdsOK
    <3>2. d # c
      BY <1>1, <3>1
    <3> QED BY <1>3, <3>1, <3>2
  <2> QED BY <1>1, <1>6, <2>1 DEF TimerIInv, IdsOK
<1>9. ASSUME NEW d \in Caller PROVE StartOK(d)'
  <2>1. CASE d # c
    BY <1>1, <1>3, <2>1 DEF TimerIInv, StartOK
  <2>2. CASE d = c
    BY <1>3, <2>2 DEF StartOK
  <2> QED BY <2>1, <2>2
<1> QED BY <1>4, <1>5, <1>6, <1>7, <1>8, <1>9 DEF TimerIInv

\* A timer that is made inactive is over.
LEMMA StopKeeps ==
  ASSUME TimerIInv, NEW c \in Caller, Stop(c), faults' = {}
  PROVE  TimerIInv'
<1>1. PICK s : s = slot[c]
  OBVIOUS
<1>2. /\ step[c] = "stop" /\ step' = [step EXCEPT ![c] = "countdown"]
      /\ timers' = [timers EXCEPT ![s].active = FALSE]
      /\ UNCHANGED <<timer_count, retval, now, slot, freq, times, timer_id, started, runs>>
  BY <1>1 DEF Stop, Onto, caller, past
<1>3. timers[s].active /\ \A d \in Caller : d # c => step[d] = "idle"
  BY <1>1 DEF Stop
<1>4. /\ timers \in [Slots -> Timer] /\ step \in [Caller -> Steps] /\ s \in Slots
  BY <1>1 DEF TimerIInv, TimerTypeOK
<1>5. PICK t : t = [timers[s] EXCEPT !.active = FALSE]
  OBVIOUS
<1>6. timers[s] \in Timer
  BY <1>4
<1>7. t \in Timer /\ t.id = timers[s].id /\ ~t.active /\ t.times = timers[s].times
  BY <1>5, <1>6 DEF Timer
<1>8. timers' = [timers EXCEPT ![s] = t]
  BY <1>2, <1>4, <1>5
<1>9. timers'[s] = t /\ \A i \in Slots : i # s => timers'[i] = timers[i]
  BY <1>4, <1>8
<1>10. timers' \in [Slots -> Timer]
  BY <1>4, <1>7, <1>8
<1>11. TimerTypeOK'
  BY <1>2, <1>10 DEF TimerIInv, TimerTypeOK, Steps
<1>12. step'[c] = "countdown" /\ \A d \in Caller : d # c => step'[d] = "idle"
  BY <1>2, <1>3, <1>4
<1>13. OneMidway'
  BY <1>12 DEF OneMidway, Midway
<1>14. Active' = Active \ {s} /\ s \in Active
  BY <1>3, <1>4, <1>7, <1>9 DEF Active
<1>15. Cardinality(Active)' = Cardinality(Active) - 1
  <2>1. Cardinality(Active \ {s}) = Cardinality(Active) - 1
    BY <1>14, SlotsFacts, FS_RemoveElement
  <2> QED BY <1>14, <2>1
<1>16. CountOK'
  <2>1. ~Counting /\ Counting'
    <3>1. \A d \in Caller : step[d] \in {"idle", "stop"}
      BY <1>2, <1>3
    <3> QED BY <1>12, <3>1 DEF Counting
  <2> QED BY <1>2, <1>15, <2>1, SlotsFacts DEF TimerIInv, CountOK
<1>17. \A i \in Slots : timers'[i].id = timers[i].id
  BY <1>7, <1>9
<1>18. IdsOK'
  <2>1. ASSUME NEW i \in Active', started'[timers'[i].id] = NotStarted
        PROVE  \E d \in Caller : step'[d] = "fill" /\ slot'[d] = i
    <3>1. i \in Active /\ i \in Slots
      BY <1>14 DEF Active
    <3>2. \E d \in Caller : step[d] = "fill" /\ slot[d] = i
      BY <1>2, <1>17, <2>1, <3>1 DEF TimerIInv, IdsOK
    <3> QED BY <1>2, <1>3, <3>2
  <2>2. \A i \in Slots : timers'[i].id <= retval'
    BY <1>2, <1>17 DEF TimerIInv, IdsOK
  <2>3. \A i \in Active' : timers'[i].id # 0
    BY <1>14, <1>17 DEF TimerIInv, IdsOK, Active
  <2>4. \A i, k \in Slots : timers'[i].id = timers'[k].id /\ i # k => timers'[i].id = 0
    BY <1>17 DEF TimerIInv, IdsOK
  <2> QED BY <1>2, <2>1, <2>2, <2>3, <2>4 DEF TimerIInv, IdsOK
<1>19. ASSUME NEW d \in Caller PROVE StartOK(d)'
  BY <1>12 DEF StartOK
<1>20. ASSUME NEW i \in Slots PROVE Kept(i)'
  <2>1. CASE i = s
    BY <1>2, <1>7, <1>9, <2>1 DEF TimerIInv, Kept
  <2>2. CASE i # s
    BY <1>2, <1>9, <2>2 DEF TimerIInv, Kept
  <2> QED BY <2>1, <2>2
<1>21. Over \subseteq Over'
  <2>1. ASSUME NEW id \in Over PROVE \A i \in Active' : timers'[i].id # id
    BY <1>14, <1>17 DEF Over, Active
  <2> QED BY <1>2, <2>1 DEF Over
<1>22. ASSUME NEW i \in Active' PROVE NotLate(i)'
  <2>1. i \in Active /\ i \in Slots /\ timers'[i] = timers[i]
    BY <1>9, <1>14 DEF Active
  <2>2. /\ Cardinality(Over) \in Nat /\ Cardinality(Over)' \in Nat /\ Cardinality(Over) <= Cardinality(Over)'
    BY <1>11, <1>21, OverGrows DEF TimerIInv
  <2>3. timers[i].next_run \in Int /\ now \in Int
    <3>1. timers[i] \in Timer /\ now \in Int
      BY <1>4, <2>1, SlotsFacts DEF TimerIInv, TimerTypeOK
    <3> QED BY <3>1 DEF Timer
  <2>4. NotLate(i)
    BY <2>1 DEF TimerIInv
  <2>5. started' = started /\ now' = now
    BY <1>2
  <2> QED BY <2>1, <2>2, <2>3, <2>4, <2>5 DEF NotLate
<1> QED BY <1>11, <1>13, <1>16, <1>18, <1>19, <1>20, <1>22 DEF TimerIInv

LEMMA StopCountKeeps ==
  ASSUME TimerIInv, NEW c \in Caller, StopCount(c)
  PROVE  TimerIInv'
<1>1. /\ step[c] = "countdown" /\ step' = [step EXCEPT ![c] = "idle"] /\ timer_count' = timer_count - 1
      /\ timer_id' = [timer_id EXCEPT ![c] = 0] /\ slot' = [slot EXCEPT ![c] = 0]
      /\ UNCHANGED <<timers, retval, now, freq, times, started, runs, faults>>
  BY DEF StopCount, CountDown, Onto, past
<1>2. /\ step \in [Caller -> Steps] /\ slot \in [Caller -> Slots] /\ timer_id \in [Caller -> 0..MaxStarts]
      /\ timer_count \in 0..MaxTimers
  BY DEF TimerIInv, TimerTypeOK
<1>3. Counting
  BY <1>1 DEF Counting
<1>4. timer_count = Cardinality(Active) + 1
  BY <1>3 DEF TimerIInv, CountOK
<1>5. timer_count' = Cardinality(Active) /\ timer_count' \in 0..MaxTimers /\ timer_count' < MaxTimers
  BY <1>1, <1>2, <1>4, SlotsFacts
<1>6. TimerTypeOK'
  <2>1. slot' \in [Caller -> Slots] /\ timer_id' \in [Caller -> 0..MaxStarts]
    <3>1. 0 \in 0..MaxStarts
      BY SlotsFacts
    <3> QED BY <1>1, <1>2, <3>1, SlotsFacts
  <2> QED BY <1>1, <1>5, <2>1 DEF TimerIInv, TimerTypeOK, Steps
<1>7. /\ step'[c] = "idle"
      /\ \A d \in Caller : d # c => step'[d] = step[d] /\ slot'[d] = slot[d] /\ timer_id'[d] = timer_id[d] /\ ~Midway(d)
  BY <1>1, <1>2 DEF TimerIInv, OneMidway, Midway
<1>8. OneMidway'
  BY <1>7 DEF OneMidway, Midway
<1>9. /\ Active' = Active /\ Cardinality(Active)' = Cardinality(Active)
      /\ \A i \in Slots : Kept(i)'
      /\ \A i \in Active' : NotLate(i)'
  BY <1>1, <1>6, TimersStay
<1>10. CountOK'
  <2>1. ~Counting'
    BY <1>7 DEF Counting, Midway
  <2> QED BY <1>5, <1>9, <2>1, SlotsFacts DEF CountOK
<1>11. IdsOK'
  <2>1. ASSUME NEW i \in Active, started[timers[i].id] = NotStarted
        PROVE  \E d \in Caller : step'[d] = "fill" /\ slot'[d] = i
    <3>1. PICK d \in Caller : step[d] = "fill" /\ slot[d] = i
      BY <2>1 DEF TimerIInv, IdsOK
    <3>2. d # c
      BY <1>1, <3>1
    <3> QED BY <1>7, <3>1, <3>2
  <2> QED BY <1>1, <1>9, <2>1 DEF TimerIInv, IdsOK
<1>12. ASSUME NEW d \in Caller PROVE StartOK(d)'
  <2>1. CASE d # c
    BY <1>1, <1>5, <1>7, <2>1 DEF TimerIInv, StartOK, Midway
  <2>2. CASE d = c
    BY <1>7, <2>2 DEF StartOK
  <2> QED BY <2>1, <2>2
<1> QED BY <1>6, <1>8, <1>9, <1>10, <1>11, <1>12 DEF TimerIInv

LEMMA TimerStutters ==
  ASSUME TimerIInv, UNCHANGED timerVars
  PROVE  TimerIInv'
<1>1. UNCHANGED <<timers, timer_count, retval, now, step, slot, freq, times, timer_id, started, runs, faults>>
  BY DEF timerVars, table, caller, past
<1>2. TimerTypeOK'
  BY <1>1 DEF TimerIInv, TimerTypeOK
<1>3. /\ Active' = Active /\ Cardinality(Active)' = Cardinality(Active)
      /\ \A i \in Slots : Kept(i)'
      /\ \A i \in Active' : NotLate(i)'
  BY <1>1, <1>2, TimersStay
<1>4. OneMidway' /\ CountOK' /\ IdsOK'
  BY <1>1, <1>3 DEF TimerIInv, OneMidway, Midway, CountOK, Counting, IdsOK
<1>5. \A d \in Caller : StartOK(d)'
  BY <1>1 DEF TimerIInv, StartOK
<1> QED BY <1>2, <1>3, <1>4, <1>5 DEF TimerIInv

\* The interrupt's step, when it comes into the middle of no start.
LEMMA TickKeeps ==
  ASSUME TimerIInv, Tick, faults' = {}
  PROVE  TimerIInv'
<1>1. PICK r : r = Sweep(now + 1)
  OBVIOUS
<1>2. /\ now < MaxTicks /\ now' = now + 1 /\ timers' = r.timers /\ timer_count' = r.count
      /\ runs' = [i \in Ids |-> runs[i] + (IF i \in r.ran THEN 1 ELSE 0)]
      /\ UNCHANGED <<retval, step, slot, freq, times, timer_id, started>>
  BY <1>1 DEF Tick, caller
<1>3. \A c \in Caller : step[c] = "fill" => timers[slot[c]].id \notin r.ran
  BY <1>1 DEF Tick
<1>4. /\ now \in Nat /\ timers \in [Slots -> Timer] /\ timer_count \in 0..MaxTimers /\ timer_count \in Int
      /\ step \in [Caller -> Steps] /\ slot \in [Caller -> Slots] /\ runs \in [Ids -> Nat] /\ retval \in 0..MaxStarts
  BY SlotsFacts DEF TimerIInv, TimerTypeOK
<1>5. WalkOK(r, MaxTimers, now + 1)
  BY <1>1, <1>4, SweepOK DEF TimerIInv
<1> DEFINE Ran(i) == HasRun(r, i, now + 1)
           Skipped(i) == timers'[i] = timers[i] /\ WasSkipped(r, i, now + 1)
<1>6. /\ timers' \in [Slots -> Timer] /\ timer_count' \in Int /\ timer_count' <= timer_count
      /\ timer_count' - Cardinality(ActiveOf(timers')) = timer_count - Cardinality(Active)
  BY <1>2, <1>5 DEF WalkOK
<1>7. \A i \in Slots : Ran(i) \/ Skipped(i)
  <2>1. \A i \in Slots : i < MaxTimers
    BY SlotsFacts DEF Slots
  <2> QED BY <1>2, <1>5, <2>1 DEF WalkOK
<1>8. \A id \in r.ran : \E i \in Slots : Ran(i) /\ timers[i].id = id
  BY <1>5 DEF WalkOK
<1>9. ASSUME NEW i \in Slots, Ran(i)
      PROVE  /\ timers[i] \in Timer /\ timers'[i] \in Timer
             /\ timers[i].active /\ timers[i].next_run <= now + 1 /\ timers[i].id \in r.ran
             /\ timers'[i].id = timers[i].id /\ timers'[i].freq = timers[i].freq /\ timers'[i].times = timers[i].times
             /\ timers'[i].next_run = timers[i].next_run + timers[i].freq
             /\ timers'[i].times_run = timers[i].times_run + 1
             /\ timers'[i].active = ~LastRun(timers[i])
  <2>1. timers[i] \in Timer /\ timers'[i] \in Timer
    BY <1>4, <1>6
  <2>2. /\ timers[i].active /\ Due(timers[i], now + 1)
        /\ timers'[i] = AfterRun(timers[i]) /\ timers[i].id \in r.ran
    BY <1>2, <1>9 DEF HasRun
  <2> QED BY <2>1, <2>2, AfterRunIs DEF Due
<1> HIDE DEF Ran, Skipped
<1>10. \A i \in Slots : ~Ran(i) => timers'[i] = timers[i]
  BY <1>7 DEF Skipped
<1>11. \A i \in Slots : timers'[i].id = timers[i].id
  BY <1>9, <1>10
<1>12. Active' = ActiveOf(timers') /\ Active' \subseteq Active
  BY <1>9, <1>10 DEF Active, ActiveOf
<1>13. Cardinality(Active)' \in Nat /\ timer_count' - Cardinality(Active)' = timer_count - Cardinality(Active)
  <2>1. ActiveOf(timers') \in SUBSET Slots
    BY DEF ActiveOf
  <2>2. Cardinality(ActiveOf(timers')) \in Nat
    BY <2>1, SlotsFacts
  <2> QED BY <1>6, <1>12, <2>2
<1>14. CountOK'
  <2>1. Counting <=> Counting'
    BY <1>2 DEF Counting
  <2>2. timer_count = Cardinality(Active) + (IF Counting THEN 1 ELSE 0)
    BY DEF TimerIInv, CountOK
  <2> QED BY <1>6, <1>13, <2>1, <2>2, SlotsFacts DEF CountOK
<1>15. TimerTypeOK'
  <2>1. timer_count' \in 0..MaxTimers
    <3>1. timer_count - Cardinality(Active) >= 0
      BY SlotsFacts DEF TimerIInv, CountOK
    <3> QED BY <1>4, <1>6, <1>13, <3>1, SlotsFacts
  <2>2. now' \in 0..MaxTicks
    BY <1>2, <1>4, SlotsFacts
  <2>3. runs' \in [Ids -> Nat]
    BY <1>2, <1>4
  <2>4. faults' \subseteq {"OffTheTable", "HalfStarted", "Both", "Ended"}
    OBVIOUS
  <2> QED BY <1>2, <1>6, <2>1, <2>2, <2>3, <2>4 DEF TimerIInv, TimerTypeOK
<1>16. OneMidway'
  BY <1>2 DEF TimerIInv, OneMidway, Midway
<1>17. ASSUME NEW i \in Slots, Ran(i) PROVE timers[i].id \in Ids /\ started[timers[i].id] # NotStarted /\ i \in Active
  <2>1. i \in Active
    BY <1>9, <1>17 DEF Active
  <2>2. timers[i].id # 0 /\ timers[i] \in Timer
    BY <1>9, <1>17, <2>1 DEF TimerIInv, IdsOK
  <2>3. timers[i].id \in Ids
    BY <2>2, SlotsFacts DEF Timer, Ids
  <2>4. ASSUME started[timers[i].id] = NotStarted PROVE FALSE
    <3>1. PICK c \in Caller : step[c] = "fill" /\ slot[c] = i
      BY <2>1, <2>4 DEF TimerIInv, IdsOK
    <3> QED BY <1>3, <1>9, <1>17, <3>1
  <2> QED BY <2>1, <2>3, <2>4
<1>18. \A id \in Ids : started[id] = NotStarted => runs'[id] = 0
  <2>1. SUFFICES ASSUME NEW id \in Ids, started[id] = NotStarted PROVE runs'[id] = 0
    OBVIOUS
  <2>2. id \notin r.ran
    BY <1>8, <1>17, <2>1
  <2>3. runs[id] = 0
    BY <2>1 DEF TimerIInv, IdsOK
  <2> QED BY <1>2, <2>2, <2>3
<1>19. IdsOK'
  <2>1. \A i \in Slots : timers'[i].id <= retval'
    BY <1>2, <1>11 DEF TimerIInv, IdsOK
  <2>2. \A i \in Active' : timers'[i].id # 0
    BY <1>11, <1>12 DEF TimerIInv, IdsOK, Active
  <2>3. \A i, k \in Slots : timers'[i].id = timers'[k].id /\ i # k => timers'[i].id = 0
    BY <1>11 DEF TimerIInv, IdsOK
  <2>4. ASSUME NEW i \in Active', started'[timers'[i].id] = NotStarted
        PROVE  \E d \in Caller : step'[d] = "fill" /\ slot'[d] = i
    <3>1. i \in Active /\ i \in Slots
      BY <1>12 DEF Active
    <3> QED BY <1>2, <1>11, <2>4, <3>1 DEF TimerIInv, IdsOK
  <2>5. \A id \in Ids : id > retval' => started'[id] = NotStarted
    BY <1>2 DEF TimerIInv, IdsOK
  <2> QED BY <1>2, <1>18, <2>1, <2>2, <2>3, <2>4, <2>5 DEF IdsOK
<1>20. ASSUME NEW c \in Caller PROVE StartOK(c)'
  <2>1. StartOK(c) /\ slot[c] \in Slots
    BY <1>4 DEF TimerIInv
  <2>2. step'[c] = "count" => timer_count' < MaxTimers
    BY <1>2, <1>4, <1>6, <2>1, SlotsFacts DEF StartOK
  <2>3. step'[c] \in {"find", "activate"} => \A i \in Slots : timers'[i].id # retval'
    BY <1>2, <1>11, <2>1 DEF StartOK
  <2>4. step'[c] = "activate" => ~timers'[slot'[c]].active
    <3>1. step[c] = "activate" => slot[c] \notin Active
      BY <2>1 DEF StartOK, Active
    <3>2. step[c] = "activate" => slot[c] \notin Active'
      BY <1>12, <3>1
    <3> QED BY <1>2, <2>1, <3>2 DEF Active
  <2>5. step'[c] = "fill" => timers'[slot'[c]].id = retval' /\ timers'[slot'[c]].active
    <3>1. SUFFICES ASSUME step[c] = "fill" PROVE timers'[slot[c]].id = retval /\ timers'[slot[c]].active
      BY <1>2
    <3>2. ~Ran(slot[c])
      BY <1>3, <1>9, <2>1, <3>1
    <3> QED BY <1>10, <2>1, <3>1, <3>2 DEF StartOK
  <2> QED BY <1>2, <2>1, <2>2, <2>3, <2>4, <2>5 DEF StartOK
<1>21. ASSUME NEW i \in Slots, timers[i].id # 0, started[timers[i].id] # NotStarted
       PROVE  /\ timers[i].id \in Ids
              /\ runs'[timers[i].id] = runs[timers[i].id] + (IF Ran(i) THEN 1 ELSE 0)
  <2>1. timers[i] \in Timer
    BY <1>4
  <2>2. timers[i].id \in Ids
    BY <1>21, <2>1, SlotsFacts DEF Timer, Ids
  <2>3. timers[i].id \in r.ran <=> Ran(i)
    <3>1. ASSUME timers[i].id \in r.ran PROVE Ran(i)
      <4>1. PICK k \in Slots : Ran(k) /\ timers[k].id = timers[i].id
        BY <1>8, <3>1
      <4>2. k = i
        BY <1>21, <4>1 DEF TimerIInv, IdsOK
      <4> QED BY <4>1, <4>2
    <3> QED BY <1>9, <3>1
  <2> QED BY <1>2, <2>2, <2>3
<1>22. started \in [Ids -> Nat \cup {NotStarted}]
  BY DEF TimerIInv, TimerTypeOK
<1>23. ASSUME NEW i \in Slots PROVE Kept(i)'
  <2>1. SUFFICES ASSUME timers[i].id # 0, started[timers[i].id] # NotStarted
                 PROVE  Kept(i)'
    BY <1>2, <1>11 DEF Kept
  <2>2. PICK t : t = timers[i]
    OBVIOUS
  <2>3. PICK u : u = timers'[i]
    OBVIOUS
  <2>4. PICK n : n = runs[t.id]
    OBVIOUS
  <2>5. PICK b : b = started[t.id]
    OBVIOUS
  <2>6. t \in Timer /\ t.id \in Ids /\ n \in Nat /\ b \in Nat
    BY <1>4, <1>21, <1>22, <2>1, <2>2, <2>4, <2>5
  <2>7. t.times \in Nat /\ t.times_run \in Nat /\ t.freq \in Nat /\ t.next_run \in Nat
    <3>1. {0} \cup Times \subseteq Nat /\ {0} \cup Delays \subseteq Nat
      BY TimerAssumption
    <3>2. t.times \in {0} \cup Times /\ t.times_run \in Nat /\ t.freq \in {0} \cup Delays /\ t.next_run \in Nat
      BY <2>6 DEF Timer
    <3> QED BY <3>1, <3>2
  <2>8. /\ t.times > 0 => n <= t.times
        /\ t.active => /\ t.times_run = n /\ t.freq \in Delays
                       /\ t.times > 0 => n < t.times
                       /\ t.next_run = b + t.freq * (n + 1)
                       /\ b + t.freq * n <= now
    <3>1. Kept(i)
      BY DEF TimerIInv
    <3> QED BY <2>1, <2>2, <2>4, <2>5, <3>1 DEF Kept
  <2>9. u.id = t.id /\ started'[u.id] = b
    BY <1>2, <1>11, <2>2, <2>3, <2>5
  <2>10. CASE Ran(i)
    <3>1. /\ t.active /\ t.next_run <= now + 1 /\ u.freq = t.freq /\ u.times = t.times
          /\ u.next_run = t.next_run + t.freq /\ u.times_run = t.times_run + 1 /\ u.active = ~LastRun(t)
      BY <1>9, <2>2, <2>3, <2>10
    <3>2. runs'[u.id] = n + 1
      BY <1>21, <2>1, <2>2, <2>4, <2>9, <2>10
    <3>3. u.times > 0 => n + 1 <= u.times
      BY <2>6, <2>7, <2>8, <3>1
    <3>4. u.active /\ u.times > 0 => n + 1 < u.times
      <4>1. SUFFICES ASSUME u.active, u.times > 0 PROVE n + 1 < u.times
        OBVIOUS
      <4>2. ~LastRun(t)
        BY <3>1, <4>1
      <4>3. t.times > 0 /\ n < t.times /\ t.times_run = n
        BY <2>8, <3>1, <4>1
      <4>4. n + 1 # t.times
        BY <4>2, <4>3 DEF LastRun
      <4>5. u.times = t.times /\ n + 1 <= t.times
        BY <3>1, <3>3, <4>1
      <4>6. n + 1 \in Nat /\ t.times \in Nat
        BY <2>6, <2>7
      <4> QED BY <4>4, <4>5, <4>6
    <3>5. t.freq * (n + 1 + 1) = t.freq * (n + 1) + t.freq /\ t.freq * (n + 1) \in Nat
      <4>1. n + 1 \in Nat
        BY <2>6
      <4> QED BY <2>7, <4>1, NextPeriod
    <3>6. PICK p : p = t.freq * (n + 1)
      OBVIOUS
    <3>7. u.next_run = b + u.freq * (n + 1 + 1)
      <4>1. u.next_run = b + p + t.freq /\ t.freq * (n + 1 + 1) = p + t.freq /\ p \in Nat
        BY <2>8, <3>1, <3>5, <3>6
      <4> QED BY <2>6, <2>7, <3>1, <4>1
    <3>8. b + u.freq * (n + 1) <= now'
      BY <1>2, <2>8, <3>1
    <3> QED BY <2>3, <2>8, <2>9, <3>1, <3>2, <3>3, <3>4, <3>7, <3>8 DEF Kept
  <2>11. CASE ~Ran(i)
    <3>1. u = t
      BY <1>10, <2>2, <2>3, <2>11
    <3>2. runs'[u.id] = n
      <4>1. runs'[timers[i].id] = runs[timers[i].id] + 0
        BY <1>21, <2>1, <2>11
      <4> QED BY <2>2, <2>4, <2>6, <2>9, <4>1
    <3>3. t.freq * n \in Nat
      BY <2>6, <2>7, NextPeriod
    <3>4. b + t.freq * n <= now => b + t.freq * n <= now'
      <4>1. PICK p : p = t.freq * n
        OBVIOUS
      <4>2. b + p <= now => b + p <= now'
        BY <1>2, <1>4, <2>6, <3>3, <4>1
      <4> QED BY <4>1, <4>2
    <3> QED BY <2>3, <2>8, <2>9, <3>1, <3>2, <3>4 DEF Kept
  <2> QED BY <2>10, <2>11
<1>24. Over \subseteq Over'
  <2>1. ASSUME NEW id \in Over PROVE \A i \in Active' : timers'[i].id # id
    BY <1>11, <1>12 DEF Over, Active
  <2> QED BY <1>2, <2>1 DEF Over
<1>25. /\ Cardinality(Over) \in Nat /\ Cardinality(Over)' \in Nat /\ Cardinality(Over) <= Cardinality(Over)'
       /\ \A id \in Over' : id \notin Over => Cardinality(Over) < Cardinality(Over)'
  BY <1>15, <1>24, OverGrows DEF TimerIInv
<1>26. ASSUME NEW i \in Active' PROVE NotLate(i)'
  <2>1. i \in Active /\ i \in Slots /\ timers[i] \in Timer /\ timers'[i].id = timers[i].id
    BY <1>4, <1>11, <1>12 DEF Active
  <2>2. SUFFICES ASSUME started[timers[i].id] # NotStarted
                 PROVE  now' - timers'[i].next_run < Cardinality(Over)'
    BY <1>2, <2>1 DEF NotLate
  <2>3. now - timers[i].next_run < Cardinality(Over) /\ timers[i].next_run \in Nat
    BY <2>1, <2>2 DEF TimerIInv, NotLate, Timer
  <2>4. CASE Ran(i)
    <3>1. timers[i].freq \in Nat /\ timers[i].freq > 0
      <4>1. timers[i].id # 0 /\ timers[i].active
        BY <2>1 DEF TimerIInv, IdsOK, Active
      <4>2. Kept(i)
        BY <2>1 DEF TimerIInv
      <4>3. timers[i].freq \in Delays
        BY <2>2, <4>1, <4>2 DEF Kept
      <4>4. Delays \subseteq Nat \ {0}
        BY TimerAssumption
      <4>5. timers[i].freq \in Nat \ {0}
        BY <4>3, <4>4
      <4> QED BY <4>5
    <3>2. timers'[i].next_run = timers[i].next_run + timers[i].freq
      BY <1>9, <2>1, <2>4
    <3> QED BY <1>2, <1>4, <1>25, <2>3, <3>1, <3>2
  <2>5. CASE ~Ran(i)
    <3>1. timers'[i] = timers[i] /\ Skipped(i)
      BY <1>7, <1>10, <2>1, <2>5
    <3>2. CASE ~Due(timers[i], now + 1)
      <4>1. timers[i].next_run > now + 1
        BY <1>4, <2>1, <2>3, <3>2 DEF Due, Active
      <4> QED BY <1>2, <1>4, <1>25, <2>3, <3>1, <4>1
    <3>3. CASE Due(timers[i], now + 1)
      <4>1. timer_count' < timer_count
        BY <1>2, <2>1, <3>1, <3>3 DEF Skipped, WasSkipped, Active
      <4>2. Active' # Active
        BY <1>6, <1>13, <4>1, SlotsFacts, <1>4
      <4>3. PICK k \in Active : k \notin Active'
        BY <1>12, <4>2
      <4>4. k \in Slots /\ Ran(k)
        BY <1>10, <4>3 DEF Active
      <4>5. timers[k].id \in Ids /\ started[timers[k].id] # NotStarted
        BY <1>17, <4>4
      <4>6. timers[k].id \in 1..retval /\ timers[k].id # 0
        BY <1>4, <4>4, <4>5, SlotsFacts DEF TimerIInv, IdsOK, Ids
      <4>7. \A m \in Active' : timers'[m].id # timers[k].id
        <5>1. SUFFICES ASSUME NEW m \in Active', timers[m].id = timers[k].id PROVE FALSE
          BY <1>11, <1>12 DEF Active
        <5>2. m \in Slots /\ m # k
          BY <1>12, <4>3, <5>1 DEF Active
        <5> QED BY <4>4, <4>6, <5>1, <5>2 DEF TimerIInv, IdsOK
      <4>8. timers[k].id \in Over'
        BY <1>2, <4>5, <4>6, <4>7 DEF Over
      <4>9. timers[k].id \notin Over
        BY <4>3 DEF Over
      <4>10. Cardinality(Over) < Cardinality(Over)'
        BY <1>25, <4>8, <4>9
      <4> QED BY <1>2, <1>4, <1>25, <2>3, <3>1, <4>10
    <3> QED BY <3>2, <3>3
  <2> QED BY <2>4, <2>5
<1> QED BY <1>14, <1>15, <1>16, <1>19, <1>20, <1>23, <1>26 DEF TimerIInv

LEMMA TimerStarts == TimerInit => TimerIInv
<1> SUFFICES ASSUME TimerInit PROVE TimerIInv
  OBVIOUS
<1> USE DEF TimerInit
<1>1. /\ 0 \in Slots /\ 0 \in 0..MaxStarts /\ 0 \in 0..MaxTicks /\ 0 \in 0..MaxTimers /\ 0 \in {0} \cup Times /\ 0 \in {0} \cup Delays
  BY SlotsFacts
<1>2. NoTimer \in Timer /\ NoTimer.id = 0 /\ ~NoTimer.active
  BY <1>1 DEF NoTimer, Timer
<1>3. TimerTypeOK
  BY <1>1, <1>2 DEF TimerTypeOK, Steps
<1>4. Active = {}
  BY <1>2 DEF Active
<1>5. Cardinality(Active) = 0
  BY <1>4, FS_EmptySet
<1>6. OneMidway /\ CountOK
  BY <1>5 DEF OneMidway, Midway, CountOK, Counting
<1>7. IdsOK
  BY <1>2, <1>4 DEF IdsOK
<1>8. \A c \in Caller : StartOK(c)
  BY DEF StartOK
<1>9. \A i \in Slots : Kept(i)
  BY <1>2 DEF Kept
<1> QED BY <1>3, <1>4, <1>6, <1>7, <1>8, <1>9 DEF TimerIInv

LEMMA QuietTimerStep == TimerIInv /\ [QuietTimerNext]_timerVars => TimerIInv'
<1> SUFFICES ASSUME TimerIInv, [QuietTimerNext]_timerVars PROVE TimerIInv'
  OBVIOUS
<1>1. CASE UNCHANGED timerVars
  BY <1>1, TimerStutters
<1>2. CASE QuietTimerNext
  <2>1. faults' = {} /\ TimerNext
    BY <1>2 DEF QuietTimerNext
  <2>2. CASE Tick
    BY <2>1, <2>2, TickKeeps
  <2>3. ASSUME NEW c \in Caller,
               Start(c) \/ CountUp(c) \/ Find(c) \/ Activate(c) \/ Fill(c) \/ StopTest(c) \/ Stop(c) \/ StopCount(c)
        PROVE  TimerIInv'
    BY <2>1, <2>3, StartKeeps, CountUpKeeps, FindKeeps, ActivateKeeps, FillKeeps, StopTestKeeps, StopKeeps,
       StopCountKeeps
  <2> QED BY <2>1, <2>2, <2>3 DEF TimerNext
<1> QED BY <1>1, <1>2

\* The invariant says what is asked of the jobs.
LEMMA TimerIInvServes == TimerIInv => JobsRun
<1> SUFFICES ASSUME TimerIInv PROVE JobsRun
  OBVIOUS
<1>1. CountAgrees
  <2>1. (\A c \in Caller : step[c] = "idle") => ~Counting
    BY DEF Counting
  <2> QED BY <2>1, SlotsFacts DEF TimerIInv, CountOK, CountAgrees
<1>2. RunsAsAsked
  BY DEF TimerIInv, Kept, RunsAsAsked
<1>3. ASSUME NEW i \in Active, started[timers[i].id] # NotStarted, now >= timers[i].next_run
      PROVE  now - timers[i].next_run < retval - 1
  <2>1. i \in Slots /\ timers[i] \in Timer /\ now \in Nat /\ retval \in Nat
    BY SlotsFacts DEF Active, TimerIInv, TimerTypeOK
  <2>2. timers[i].id \in Nat /\ timers[i].id # 0 /\ timers[i].id <= retval /\ timers[i].next_run \in Nat
    BY <2>1, SlotsFacts DEF TimerIInv, IdsOK, Timer
  <2>3. now - timers[i].next_run < Cardinality(Over)
    BY <1>3 DEF TimerIInv, NotLate
  <2>4. timers[i].id \in 1..retval /\ timers[i].id \notin Over
    BY <2>1, <2>2 DEF Over
  <2>5. Over \in SUBSET (1..retval) /\ 1..retval \in SUBSET (1..retval)
    BY DEF Over
  <2>6. Cardinality(Over) < Cardinality(1..retval) /\ Cardinality(Over) \in Nat
    BY <2>1, <2>4, <2>5, MoreAreMore
  <2>7. Cardinality(1..retval) = retval
    BY <2>1, FS_Interval
  <2> QED BY <2>1, <2>2, <2>3, <2>6, <2>7
<1>4. NeverVeryLate
  BY <1>3 DEF NeverVeryLate
<1> QED BY <1>1, <1>2, <1>4 DEF JobsRun

\* In a table of any size, with any number of threads, and as long as neither the interrupt nor
\* another thread comes into the middle of a start or a stop where it matters: ktimer_start(),
\* ktimer_stop() and execute_jobs() keep timer_count the number of the active timers, a job runs
\* neither before its time nor more often than asked, and it is late, when the loop has ended in
\* front of it, by fewer ticks than other timers were started.
THEOREM JobsRunAsAsked == QuietTimerSpec => []JobsRun
<1>1. QuietTimerSpec => []TimerIInv
  BY TimerStarts, QuietTimerStep, PTL DEF QuietTimerSpec
<1> QED BY <1>1, TimerIInvServes, PTL
=============================================================================
