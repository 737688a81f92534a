------------------------------- MODULE Printf -------------------------------
(***************************************************************************)
(* _xprintf() of the C library (src/putka-clib/src/stdio.xprintf.c), which *)
(* the kernel's kprintf() and every program's printf() share, and the two  *)
(* receivers of stdio.fmt.c: a buffer, and a file that may fill up.        *)
(*                                                                         *)
(* A format is a sequence of elements: a text, "%%", or a directive, whose *)
(* flags, width, precision, length modifier and argument are the fields of *)
(* a record.  A step is one round of the loop over the format.  What       *)
(* putstr() is given piece by piece is put together first: the receiver    *)
(* takes the beginning that it has room for.                               *)
(***************************************************************************)
EXTENDS Integers, SequencesExt

CONSTANTS
    Formats,    \* the formats that are printed
    Rooms,      \* how many characters the receiver may have room for
    Bits,       \* bits of a "hh", "h", "int" and "ll" number: 8, 16, 32 and 64 in the code
    GroupDigits \* decimal digits that are printed as one 32-bit number: 9 in the code

PrintfAssumption ==
    /\ Rooms \subseteq Nat /\ GroupDigits \in Nat \ {0}
    /\ Bits \in [{"hh", "h", "int", "ll"} -> Nat \ {0}]

VARIABLES
    format,     \* the elements that are left
    out,        \* the characters that the receiver took
    room,       \* the characters that it still takes
    numbytes, retval,
    stored,     \* what %n stored
    state,      \* "in", "stuck" in a loop that waits for a full receiver, or "returned"
    wanted      \* history: what the C standard asks for; Unspecified once C and the code part

vars == <<format, out, room, numbytes, retval, stored, state, wanted>>

Null == <<"(null)">>                        \* a null pointer for %s
Unspecified == <<"unspecified">>

Rep(c, n) == [i \in 1..n |-> c]             \* no character when n is negative

Larger(a, b) == IF a < b THEN b ELSE a

Digit == <<"0", "1", "2", "3", "4", "5", "6", "7", "8", "9", "a", "b", "c", "d", "e", "f">>

-----------------------------------------------------------------------------
(* Numbers *)

Length(d) == CASE d.len \in {"ll", "j"} -> "ll" [] d.len \in {"hh", "h"} -> d.len [] OTHER -> "int"

Unsigned(d) == d.arg % 2 ^ Bits[Length(d)]

Signed(d) == IF 2 * Unsigned(d) < 2 ^ Bits[Length(d)] THEN Unsigned(d)
             ELSE Unsigned(d) - 2 ^ Bits[Length(d)]

\* fmt_hex_64(), fmt_oct_64() and fmt_uint_32(): no digit at all for 0.
Radix(base, n) ==
    LET digits[k \in 0..n] == IF k = 0 THEN <<>> ELSE Append(digits[k \div base], Digit[(k % base) + 1])
    IN digits[n]

\* Mutant: the groups are not filled with zeros.
UnpaddedGroups(n) ==
    LET digits[k \in 0..n] ==
            IF k < 2 ^ Bits["int"] THEN Radix(10, k)
            ELSE digits[k \div 10 ^ GroupDigits] \o Radix(10, k % 10 ^ GroupDigits)
    IN digits[n]

\* What does not fit 32 bits is printed in groups of decimal digits.
fmt_uint_64(n) ==
    LET digits[k \in 0..n] ==
            IF k < 2 ^ Bits["int"] THEN Radix(10, k)
            ELSE LET low == Radix(10, k % 10 ^ GroupDigits)
                 IN digits[k \div 10 ^ GroupDigits] \o Rep("0", GroupDigits - Len(low)) \o low
    IN digits[n]

-----------------------------------------------------------------------------
(* Directives *)

\* always_sign: a plus goes before a space.
AlwaysSign(d) == CASE "+" \in d.flags -> <<"+">> [] " " \in d.flags -> <<" ">> [] OTHER -> <<>>

\* The tag's fillchar behind fprintf_flags().
FillChar(d) == IF "0" \in d.flags /\ "-" \notin d.flags THEN "0" ELSE " "

\* A precision is given, or none, <<>>, as ".-7" gives none.
Precision(d) == IF d.precision = <<>> THEN 1 ELSE d.precision[1]

\* The text, how many characters the call counts, whether it never returns.
Printed(text, count, endless) == [text |-> text, count |-> count, endless |-> endless]

\* What is done whatever the receiver says.
Whole(text) == Printed(text, LET n == Len(text) IN IF n < room THEN n ELSE room, FALSE)

\* fprintf_uint(): as a precision is always set, the flag 0 never fills.  Behind the
\* number the loop fills up what the receiver did not take, as long as it takes none.
fprintf_uint(d, sign, n) ==
    LET digits == fmt_uint_64(n)
        number == sign \o Rep("0", Precision(d) - Len(digits)) \o digits
        fill == Rep(" ", d.width - Len(number))
        text == IF "-" \in d.flags THEN number \o fill ELSE fill \o number
        least == IF "-" \in d.flags THEN Len(text) ELSE Len(number)
    IN IF Len(text) <= room THEN Printed(text, Len(text), FALSE)
       ELSE Printed(text, room, room < least)

\* fprintf_int()
fprintf_int(d) ==
    LET n == Signed(d)
    IN IF n < 0 THEN fprintf_uint(d, <<"-">>, -n) ELSE fprintf_uint(d, AlwaysSign(d), n)

\* fprintf_stub(), for all that is left to be done.
Stub(what) == Whole(<<"[fprintf (">> \o what \o <<"): STUB!]">>)

\* fprintf_oct() and fprintf_hex(): no flag, width or precision is looked at.
fprintf_oct_hex(d) ==
    IF d.conv = "o" THEN Stub(<<"oct ">> \o Radix(8, Unsigned(d))) ELSE Stub(<<"hex ">> \o Radix(16, Unsigned(d)))

\* fprintf_ptr()
fprintf_ptr(d) ==
    LET pointer == <<"[", "xxxxxxxxxP", "]">>   \* its twelve characters counted as three
        fill == Rep(" ", d.width - Len(pointer))
    IN Whole(IF "-" \in d.flags THEN pointer \o fill ELSE fill \o pointer)

\* fprintf_char() counts the width, however little is taken.
fprintf_char(d) ==
    LET fill == Rep(FillChar(d), d.width - 1)
    IN Printed(IF "-" \in d.flags THEN d.arg \o fill ELSE fill \o d.arg, Larger(1, d.width), FALSE)

\* fprintf_str() prints nothing for a null pointer but counts six characters, and pays no
\* attention to a precision.
fprintf_str(d) ==
    LET fill == Rep(" ", d.width - Len(d.arg))
    IN CASE d.arg = Null -> Printed(<<>>, 6, FALSE)
         [] d.arg # Null /\ "-" \in d.flags -> Whole(d.arg \o fill)
         [] OTHER -> IF d.arg = <<>> \/ Len(fill \o d.arg) <= room THEN Whole(fill \o d.arg)
                     ELSE Printed(fill \o d.arg, Larger(0, room - Len(fill)), FALSE)

\* fprintf_longdouble().  A number is 1.00000 to 9.99999, as the mantissa times 10^-5, and a
\* power of ten.  Its four decimals, and the exponent, end where the buffer does, without a
\* terminator: what follows them is printed as well, up to the next zero byte.  A positive
\* exponent is multiplied by 0.  Minus infinity is taken for plus infinity, and then divided
\* by ten for ever.
fprintf_longdouble(d, tail) ==
    LET digits == Radix(10, (d.arg.mantissa + 5) \div 10)
        exponent == IF d.arg.exponent = 0 THEN <<>>
                    ELSE <<"e">> \o (IF d.arg.exponent > 0 THEN <<>>
                                     ELSE <<"-">> \o Radix(10, -d.arg.exponent)) \o tail
    IN CASE d.arg.class # "finite" /\ ~(d.arg.class = "finf" /\ d.arg.negative) -> Stub(<<d.arg.class>>)
         [] d.arg.class = "finf" /\ d.arg.negative -> Printed(<<>>, 0, TRUE)
         [] OTHER -> Whole((IF d.arg.negative THEN <<"-">> ELSE <<>>)
                             \o <<digits[1], ".">> \o Tail(digits) \o tail \o exponent)

\* The switch over the conversion.
Convert(d, tail) ==
    CASE d.conv = "c" -> IF d.len = "l" THEN Stub(<<"wchar">>) ELSE fprintf_char(d)
      [] d.conv = "s" -> IF d.len = "l" THEN Stub(<<"wstr">>) ELSE fprintf_str(d)
      [] d.conv \in {"e", "f", "g"} -> fprintf_longdouble(d, tail)
      [] d.conv = "p" -> fprintf_ptr(d)
      [] d.conv = "n" -> Printed(<<>>, 0, FALSE)
      [] d.conv = "d" -> fprintf_int(d)
      [] d.conv = "u" -> fprintf_uint(d, AlwaysSign(d), Unsigned(d))
      [] d.conv \in {"o", "x"} -> fprintf_oct_hex(d)
      [] d.conv = "text" -> Whole(d.arg)
      [] d.conv = "%" -> Whole(<<"%">>)
      [] OTHER -> Whole(<<"[", "%", d.conv, " O_o]">>)

-----------------------------------------------------------------------------
(* What C asks for, where the code does what C says.             *)

\* A decimal number has no leading zero, but for its precision.
Decimal(n, least) ==
    LET length == CHOOSE k \in 0..10 : n < 10 ^ k /\ (k = 0 \/ n >= 10 ^ (k - 1))
    IN Rep("0", least - length) \o [i \in 1..length |-> Digit[((n \div 10 ^ (length - i)) % 10) + 1]]

Padded(d, text) ==
    IF "-" \in d.flags THEN text \o Rep(" ", d.width - Len(text))
    ELSE Rep(" ", d.width - Len(text)) \o text

ZeroFilled(d) == "0" \in d.flags /\ d.precision = <<>> /\ d.width > 0 /\ "-" \notin d.flags

Standard(d) ==
    CASE d.width < 0 \/ (d.len = "l" /\ d.conv \in {"c", "s"}) -> Unspecified
      [] d.conv = "d" /\ ~ZeroFilled(d) ->
            Padded(d, (IF Signed(d) < 0 THEN <<"-">> ELSE AlwaysSign(d))
                          \o Decimal(IF Signed(d) < 0 THEN -Signed(d) ELSE Signed(d), Precision(d)))
      [] d.conv = "u" /\ ~ZeroFilled(d) /\ d.flags \cap {"+", " "} = {} ->
            Padded(d, Decimal(Unsigned(d), Precision(d)))
      [] d.conv = "c" /\ "0" \notin d.flags -> Padded(d, d.arg)
      [] d.conv = "s" /\ d.arg # Null /\ (d.precision = <<>> \/ Precision(d) >= Len(d.arg)) ->
            Padded(d, d.arg)
      [] d.conv = "text" -> d.arg
      [] d.conv = "%" -> <<"%">>
      [] d.conv = "n" -> <<>>
      [] OTHER -> Unspecified

-----------------------------------------------------------------------------
Init ==
    /\ format \in Formats
    /\ room \in Rooms
    /\ out = <<>> /\ numbytes = 0 /\ retval = 0 /\ stored = <<>>
    /\ state = "in"
    /\ wanted = <<>>

Done(d, tail) ==
    LET printed == Convert(d, tail)
        taken == IF Len(printed.text) < room THEN Len(printed.text) ELSE room
    IN /\ out' = out \o SubSeq(printed.text, 1, taken)
       /\ room' = room - taken
       /\ numbytes' = numbytes + printed.count
       /\ state' = IF printed.endless THEN "stuck" ELSE state
       /\ wanted' = IF Unspecified \in {wanted, Standard(d)} \/ taken < Len(printed.text)
                    THEN Unspecified ELSE wanted \o Standard(d)

\* fprintf_numbytes(), for %n.
fprintf_numbytes(d) == IF d.conv = "n" THEN Append(stored, numbytes) ELSE stored

\* One round of the loop.  The value that is returned counts the directives that are known,
\* not the characters.
Element ==
    /\ state = "in" /\ format # <<>>
    /\ \E tail \in (IF Head(format).conv \in {"e", "f", "g"} THEN {<<>>, <<"?">>} ELSE {<<>>}) :
          Done(Head(format), tail)
    /\ format' = Tail(format)
    /\ retval' = IF Head(format).conv \in {"c", "s", "e", "f", "g", "p", "n", "d", "u", "o", "x"}
                 THEN retval + 1 ELSE retval
    /\ stored' = fprintf_numbytes(Head(format))

\* vsprintf() puts the terminator behind the text; vfprintf() leaves the file as it is.
Return ==
    /\ state = "in" /\ format = <<>>
    /\ state' = "returned"
    /\ UNCHANGED <<format, out, room, numbytes, retval, stored, wanted>>

Next == Element \/ Return

Spec == Init /\ [][Next]_vars

-----------------------------------------------------------------------------
\* What was printed is what C asks for, and numbytes, which %n stores, counts it: as long
\* as the receiver takes all and the format keeps to what the code knows.  A call that does
\* not come back has a number that the receiver did not take, or minus infinity.
PrintsAsC ==
    /\ wanted # Unspecified => out = wanted /\ numbytes = Len(out)
    /\ state = "stuck" => wanted = Unspecified
=============================================================================
