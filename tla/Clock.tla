------------------------------- MODULE Clock -------------------------------
(***************************************************************************)
(* The clock of the timer interrupt (src/src/timer.c): uptime, counted in  *)
(* ticks of the timer chip, and the time of day and calendar that its      *)
(* seconds move on.                                                        *)
(***************************************************************************)
EXTENDS Integers

CONSTANTS
    TickRate, TicksPerCycle,    \* TIMER_TICK_RATE, TIMER_TICKS_PER_CYCLE
    Dates,                      \* the dates read_cmos() finds, as <<year, month, day>>
    MaxSeconds                  \* bounds the uptime

ClockAssumption ==
    /\ TickRate \in Nat \ {0} /\ TicksPerCycle \in 1..TickRate /\ MaxSeconds \in Nat

VARIABLES
    ticks,                                      \* static in timer_handler()
    usec, sec,                                  \* uptime
    tm_sec, tm_min, tm_hour,                    \* sys_time
    tm_mday, tm_mon, tm_year, tm_wday, tm_yday

uptime == <<usec, sec>>
time   == <<tm_sec, tm_min, tm_hour>>
date   == <<tm_mday, tm_mon, tm_year, tm_wday, tm_yday>>
clockVars == <<ticks, uptime, time, date>>

\* TICKS_TO_MICROSECS(): (1000000 * n) \div TickRate, a decimal digit at a time, in numbers
\* that TLC can hold.
TicksToMicrosecs(n) ==
    LET digits[k \in 0..6] ==
            IF k = 0 THEN [value |-> n \div TickRate, rest |-> n % TickRate]
            ELSE LET d == digits[k - 1]
                 IN  [value |-> 10 * d.value + (10 * d.rest) \div TickRate,
                      rest  |-> (10 * d.rest) % TickRate]
    IN  digits[6].value

\* days_in_month(month, year) for the months 0..11 of a year that counts from 1900: its
\* 30 ^ (bit 3 of month + 1) ^ (bit 0 of month + 1).
Leap(year) == (year + 1900) % 4 = 0 /\ ((year + 1900) % 100 # 0 \/ (year + 1900) % 400 = 0)
DaysInMonth(month, year) ==
    IF month = 1 THEN (IF Leap(year) THEN 29 ELSE 28)
    ELSE 30 + ((((month + 1) \div 8) + ((month + 1) % 2)) % 2)

-----------------------------------------------------------------------------

YearEnds(month) == month + 1 = 12

\* sys_next_month(), and with it sys_next_year(); ydayNow is tm_yday so far.
NextMonth(ydayNow) ==
    IF YearEnds(tm_mon)
    THEN tm_mon' = 0 /\ tm_yday' = 0 /\ tm_year' = tm_year + 1
    ELSE tm_mon' = tm_mon + 1 /\ tm_yday' = ydayNow /\ tm_year' = tm_year

\* sys_next_day().  The first day that does not fit the month becomes day 0 of the next.
NextDay ==
    /\ tm_wday' = (IF tm_wday + 1 = 7 THEN 0 ELSE tm_wday + 1)
    /\ IF tm_mday + 1 > DaysInMonth(tm_mon, tm_year)
       THEN tm_mday' = 0 /\ NextMonth(tm_yday + 1)
       ELSE tm_mday' = tm_mday + 1 /\ tm_yday' = tm_yday + 1 /\ UNCHANGED <<tm_mon, tm_year>>

\* sys_next_hour().
NextHour ==
    IF tm_hour + 1 > 23
    THEN tm_hour' = tm_hour + 1 - 24 /\ NextDay
    ELSE tm_hour' = tm_hour + 1 /\ UNCHANGED date

HourIsOver(minute) == minute > 59

\* sys_next_minute().
NextMinute ==
    IF HourIsOver(tm_min + 1)
    THEN tm_min' = tm_min + 1 - 60 /\ NextHour
    ELSE tm_min' = tm_min + 1 /\ UNCHANGED <<tm_hour, date>>

NextSecond ==
    IF tm_sec + 1 > 59
    THEN tm_sec' = tm_sec + 1 - 60 /\ NextMinute
    ELSE tm_sec' = tm_sec + 1 /\ UNCHANGED <<tm_min, tm_hour, date>>

Full(n) == n > TickRate

\* Mutant: the ticks of the second that begins are dropped.
SecondDropsTicks(n) == 0
\* ticks -= TIMER_TICK_RATE.
SecondKeepsTicks(n) == n - TickRate

\* timer_handler(), up to its execute_jobs().
TimerHandler ==
    /\ sec < MaxSeconds
    /\ IF Full(ticks + TicksPerCycle)
       THEN ticks' = SecondKeepsTicks(ticks + TicksPerCycle) /\ sec' = sec + 1 /\ NextSecond
       ELSE ticks' = ticks + TicksPerCycle /\ UNCHANGED <<sec, time, date>>
    /\ usec' = TicksToMicrosecs(ticks')

\* timer_install(), a second before midnight; tm_wday and tm_yday are not read.
ClockInit ==
    /\ ticks = 0 /\ usec = 0 /\ sec = 0
    /\ tm_sec = 59 /\ tm_min = 59 /\ tm_hour = 23
    /\ \E d \in Dates : tm_year = d[1] /\ tm_mon = d[2] /\ tm_mday = d[3]
    /\ tm_wday = 0 /\ tm_yday = 0

ClockSpec == ClockInit /\ [][TimerHandler]_clockVars

-----------------------------------------------------------------------------
(* Properties.                                                             *)

ClockTypeOK ==
    /\ ticks \in 0..TickRate /\ usec \in 0..1000000 /\ sec \in 0..MaxSeconds
    /\ tm_sec \in 0..59 /\ tm_min \in 0..59 /\ tm_hour \in 0..23
    /\ tm_mday \in 0..31 /\ tm_mon \in 0..11 /\ tm_year \in Nat /\ tm_wday \in 0..6
    /\ tm_yday \in Nat

\* uptime, the reference of every wait and timer, moves by one period at every tick: over
\* the border of a second as inside it, and at the tick that falls on the border.
Period == TicksToMicrosecs(TicksPerCycle)
UptimeAdvances ==
    [][(sec' - sec) * 1000000 + usec' - usec \in {Period, Period + 1}]_uptime

\* The time of day is that of the uptime: a second before midnight at the start.
TimeFollowsUptime ==
    (tm_hour * 60 + tm_min) * 60 + tm_sec = (86399 + sec) % 86400

\* The length of each month, by the calendar.
RealDays(month, year) ==
    IF month # 1 THEN <<31, 0, 31, 30, 31, 30, 31, 31, 30, 31, 30, 31>>[month + 1]
    ELSE IF year % 4 = 0 /\ (year % 100 # 0 \/ (year + 300) % 400 = 0) THEN 29 ELSE 28

\* Midnight ends a month on its last day and on no other, and the year with its last
\* month, from every date the clock may be started at.
MonthsHaveTheirDays ==
    [][date' # date /\ tm_mday # 0 =>
          LET last == (tm_mday = RealDays(tm_mon, tm_year))
          IN  /\ tm_mon' = (IF last THEN (tm_mon + 1) % 12 ELSE tm_mon)
              /\ tm_year' = (IF last /\ tm_mon = 11 THEN tm_year + 1 ELSE tm_year)]_clockVars

\* Each period of the timer moves uptime by as much, over the border of a second too; the
\* time of day is that of the uptime; and midnight ends a month on its last day and on no
\* other.
ClockServes == UptimeAdvances /\ []TimeFollowsUptime /\ MonthsHaveTheirDays
=============================================================================
