------------------------------ MODULE CNumbers ------------------------------
(***************************************************************************)
(* The arithmetic of the C library (src/putka-clib/src): the division of   *)
(* 64-bit numbers (int64.c), the conversion of texts to numbers            *)
(* (inttypes.c, stdlib.c) and mktime() (time.c).  Words are of "Wide" bits *)
(* where the code has 64, and of "Narrow" bits where it has 32.  A text is *)
(* a sequence of character codes; the terminator follows its last one.     *)
(***************************************************************************)
EXTENDS Integers, FiniteSetsExt, SequencesExt

CONSTANTS Wide, Narrow, Calls

NumberAssumption == {Wide, Narrow} \subseteq Nat \ {0} /\ Narrow < Wide

VARIABLES
    asked,      \* the call: what is divided, the text and its base, or the time
    got         \* what it returned; <<>> before

vars == <<asked, got>>

Top == 2 ^ Wide                             \* UINTMAX_MAX + 1

-----------------------------------------------------------------------------
(* Division *)

\* uint64_div_rem(): the divisor is shifted up until it is as large as the dividend or has
\* its top bit set; the sum of the shifted divisors is kept at most the dividend, and is
\* refused where it leaves the word.
Quotient(a, b) ==
    LET up[k \in 0..Wide] ==
            IF a > b * 2 ^ k /\ b * 2 ^ k < Top \div 2 THEN up[k + 1] ELSE k
        down[k \in 0..Wide] ==
            LET above == IF k = up[0] THEN 0 ELSE down[k + 1]
                sum == ((above + 2 ^ k) * b) % Top
            IN IF sum > a \/ sum < above * b THEN above ELSE above + 2 ^ k
    IN IF a < b THEN 0 ELSE down[0]

Magnitude(x) == IF x < 0 THEN -x ELSE x

\* __divdi3() and __moddi3() on two signed words.
__divdi3(a, b) ==
    IF (a < 0) # (b < 0) THEN -Quotient(Magnitude(a), Magnitude(b)) ELSE Quotient(Magnitude(a), Magnitude(b))
__moddi3(a, b) ==
    LET rem == Magnitude(a) - Quotient(Magnitude(a), Magnitude(b)) * Magnitude(b)
    IN IF a < 0 THEN -rem ELSE rem

-----------------------------------------------------------------------------
(* Texts to numbers *)

isdigit(c) == c \in 48..57
islower(c) == c \in 97..122
isupper(c) == c \in 65..90
isspace(c) == c \in {32, 10, 13, 9, 12, 11}

At(text, p) == IF p = Len(text) + 1 THEN 0 ELSE text[p]

\* The first place from p on where the character is not one of a kind.
Past(text, p, Kind(_)) == Min({q \in p..Len(text) + 1 : q = Len(text) + 1 \/ ~Kind(text[q])})

DigitValue(c) == CASE isdigit(c) -> c - 48 [] islower(c) -> c - 87 [] isupper(c) -> c - 55 [] OTHER -> 99

\* The value of the digits from p to q - 1.
ValueOf(text, p, q, base) ==
    LET value[k \in p..q] == IF k = p THEN 0 ELSE base * value[k - 1] + DigitValue(text[k - 1])
    IN value[q]

Result(minus, value, end) == [minus |-> minus, value |-> value, end |-> end]
Undefined == Result(FALSE, 0, 0)            \* memory behind the text is read

\* The bases that are powers of two.  But for base 16 the loop ends before the last digit,
\* which counts as zero and is where the text is said to end.
PowerOfTwo(text, minus, p, base, bits) ==
    LET q == Past(text, p, LAMBDA c : DigitValue(c) < base)
        kept == IF base = 16 \/ p = q THEN q ELSE q - 1
        last == DigitValue(At(text, q - 1))
    IN IF \/ q - p > (Wide + bits - 1) \div bits
          \/ q - p > Wide \div bits /\ last > (Top - 1) \div 2 ^ (bits * (q - 1 - p))
       THEN Result(minus, Top - 1, q)
       ELSE Result(minus, (ValueOf(text, p, kept, base) * base ^ (q - kept)) % Top, kept)

\* The bases up to 10; the value wraps around.
UpToTen(text, minus, p, base) ==
    LET q == Past(text, p, LAMBDA c : DigitValue(c) < base)
    IN Result(minus, ValueOf(text, p, q, base) % Top, q)

\* The bases above 10: whatever comes before "b" in the character set is a digit, the
\* terminator as well, so that only a letter behind "a" ends a number within the text.
AboveTen(text, minus, p, base) ==
    LET q == Past(text, p, LAMBDA c : c <= 97)
        digit(c) == IF isdigit(c) THEN c - 48 ELSE c - 87
        value[k \in p..q] == IF k = p THEN 0 ELSE (base * value[k - 1] + digit(text[k - 1])) % Top
    IN IF q = Len(text) + 1 THEN Undefined ELSE Result(minus, value[q], q)

\* _strtoumax_sgn().  With base 0 the two characters "0x" are passed over as if they were 16.
_strtoumax_sgn(text, base) ==
    LET s == Past(text, 1, isspace)
        minus == At(text, s) = 45
        n == IF At(text, s) \in {43, 45} THEN s + 1 ELSE s
        hex == At(text, n) = 48 /\ n < Len(text) /\ text[n + 1] = 120
        b == CASE base # 0 -> base [] hex -> 16 [] At(text, n) = 48 -> 8 [] OTHER -> 10
        d == CASE base = 0 /\ hex -> n + 16 [] base = 16 /\ hex -> n + 2
               [] base = 0 /\ ~hex /\ b = 8 -> n + 1 [] OTHER -> n
        p == Past(text, d, LAMBDA c : c = 48)
    IN CASE base < 0 \/ base = 1 \/ base > 36 -> Result(FALSE, 0, 1)
         [] d > Len(text) + 1 -> Undefined
         [] b = 2 -> PowerOfTwo(text, minus, p, 2, 1) [] b = 4 -> PowerOfTwo(text, minus, p, 4, 2)
         [] b = 8 -> PowerOfTwo(text, minus, p, 8, 3) [] b = 16 -> PowerOfTwo(text, minus, p, 16, 4)
         [] b = 32 -> PowerOfTwo(text, minus, p, 32, 5)
         [] OTHER -> IF b <= 10 THEN UpToTen(text, minus, p, b) ELSE AboveTen(text, minus, p, b)

\* strtoimax() and strtoumax() of what was read.
strtoimax(r) ==
    CASE r.value >= Top \div 2 -> IF r.minus THEN -(Top \div 2) ELSE Top \div 2 - 1
      [] OTHER -> IF r.minus THEN -r.value ELSE r.value
strtoumax(r) == IF r.minus THEN Top - 1 ELSE r.value

\* strtol(), atoi() and strtoul(): what is below LONG_MIN becomes LONG_MAX.
strtol(r) ==
    LET half == 2 ^ (Narrow - 1) IN IF strtoimax(r) \in -half..half - 1 THEN strtoimax(r) ELSE half - 1
strtoul(r) == IF strtoumax(r) < 2 ^ Narrow THEN strtoumax(r) ELSE 2 ^ Narrow - 1

-----------------------------------------------------------------------------
(* Times *)

karkausvuosi(year) == (year + 1900) % 4 = 0 /\ ((year + 1900) % 100 # 0 \/ (year + 1900) % 400 = 0)

days_in_month(month, year) ==
    CASE month % 12 \in {0, 2, 4, 6, 7, 9, 11} -> 31 [] month % 12 \in {3, 5, 8, 10} -> 30
      [] OTHER -> IF karkausvuosi(year + month \div 12) THEN 29 ELSE 28

karkausvuosia(year) == Cardinality({y \in 70..year : karkausvuosi(y)})

Earlier(tm) == IF tm.mon = 0 THEN [tm EXCEPT !.mon = 11, !.year = @ - 1] ELSE [tm EXCEPT !.mon = @ - 1]
Later(tm) == IF tm.mon = 11 THEN [tm EXCEPT !.mon = 0, !.year = @ + 1] ELSE [tm EXCEPT !.mon = @ + 1]

\* A round of the two loops that bring the day into its month.
Carried(tm) ==
    CASE tm.mday > days_in_month(tm.mon, tm.year) ->
            [Later(tm) EXCEPT !.mday = tm.mday - days_in_month(tm.mon, tm.year)]
      [] tm.mday <= 0 -> [Earlier(tm) EXCEPT !.mday = tm.mday + days_in_month(Earlier(tm).mon, Earlier(tm).year)]
      [] OTHER -> tm

\* The month is brought into its year; that of a negative multiple of twelve becomes the
\* twelfth month of the year before.
MonthInYear(tm) ==
    IF tm.mon >= 0 THEN [tm EXCEPT !.year = @ + tm.mon \div 12, !.mon = @ % 12]
    ELSE [tm EXCEPT !.year = @ - ((11 - tm.mon) \div 12), !.mon = 12 - ((-tm.mon) % 12)]

\* Up to three rounds, for days from -60 to 90.
Normal(tm) == Carried(Carried(Carried(MonthInYear(tm))))

Seconds(tm, days) == tm.sec + 60 * tm.min + 3600 * tm.hour + 86400 * days

\* mktime_nofix(), and mktime() with it, as localtime() gives nothing: the days of the
\* months before tm_mon are not added, and the year's own leap day is, from January on.
mktime_nofix(tm) ==
    LET n == Normal(tm)
    IN Seconds(tm, n.mday - 1 + karkausvuosia(n.year) + (n.year - 70) * 365)

-----------------------------------------------------------------------------
Init == asked \in Calls /\ got = <<>>

Divide ==
    /\ asked.f = "divide" /\ got = <<>>
    /\ got' = <<__divdi3(asked.a, asked.b), __moddi3(asked.a, asked.b)>>
    /\ UNCHANGED asked

Convert ==
    /\ asked.f = "convert" /\ got = <<>>
    /\ got' = LET r == _strtoumax_sgn(asked.text, asked.base)
              IN <<strtol(r), strtoul(r), r.end>>
    /\ UNCHANGED asked

MakeTime ==
    /\ asked.f = "mktime" /\ got = <<>>
    /\ got' = <<mktime_nofix(asked)>>
    /\ UNCHANGED asked

Next == Divide \/ Convert \/ MakeTime

Spec == Init /\ [][Next]_vars

-----------------------------------------------------------------------------
(* What C asks for *)

Divided(a, b, q, r) == a = q * b + r /\ Magnitude(r) < Magnitude(b) /\ (r # 0 => (r < 0) = (a < 0))

Clamp(x, low, high) == CASE x < low -> low [] x > high -> high [] OTHER -> x

\* In base 10 the number that the text begins with, cut to what a long holds unless it is
\* below that, as far as the digits fit the widest word; the end is behind them.
Converted(text, base, signed, end) ==
    LET s == Past(text, 1, isspace)
        n == IF At(text, s) \in {43, 45} THEN s + 1 ELSE s
        q == Past(text, n, isdigit)
        value == ValueOf(text, n, q, 10)
        half == 2 ^ (Narrow - 1)
    IN base = 10 /\ value < Top \div 2 /\ (At(text, s) = 45 => value <= half) =>
           /\ end = q
           /\ signed = Clamp(IF At(text, s) = 45 THEN -value ELSE value, -half, half - 1)

\* The days from the first of 1970 to the first of a month, a year and month at a time.
DaysTo(year, mon) ==
    LET years[y \in 70..year] == IF y = 70 THEN 0 ELSE years[y - 1] + (IF karkausvuosi(y - 1) THEN 366 ELSE 365)
        months[m \in 0..mon] == IF m = 0 THEN 0 ELSE months[m - 1] + days_in_month(m - 1, year)
    IN years[year] + months[mon]

\* mktime() is right to the second and the day for months from 1970 on, but it leaves out
\* the months of the year that have passed (and the year, for a negative multiple of twelve
\* months), and has counted the leap day of a year before the year is over.
Made(tm, stamp) ==
    LET year == tm.year + tm.mon \div 12
        n == Normal(tm)
        behind == DaysTo(n.year, n.mon) - DaysTo(n.year, 0) - (IF karkausvuosi(n.year) THEN 1 ELSE 0)
    IN year >= 70 /\ n.year >= 70 /\ MonthInYear(tm).mon # 12 =>
           stamp = Seconds(tm, DaysTo(year, tm.mon % 12) + tm.mday - 1 - behind)

\* Division, conversion and mktime() give what C asks for, apart from what is said above.
NumbersAgree ==
    got # <<>> =>
        CASE asked.f = "divide" -> Divided(asked.a, asked.b, got[1], got[2])
          [] asked.f = "convert" -> Converted(asked.text, asked.base, got[1], got[3])
          [] OTHER -> Made(asked, got[1])
=============================================================================
