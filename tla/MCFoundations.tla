--------------------------- MODULE MCFoundations ---------------------------
(***************************************************************************)
(* What the rest of the system is built on, and what its user has in front *)
(* of him.  A behaviour is one of the part that "subject" names; the       *)
(* others stay at rest in it:                                              *)
(*   "bitmaps"  PhysPages, a RAM of some words of two bits, the last one   *)
(*              cut, in front of the second bitmap as up to one GiB is;    *)
(*   "windows"  PageWindows, two processes of two pages each in each       *)
(*              other's calls, and as many entries for areas;              *)
(*   "list"     List, of up to three members;                              *)
(*   "print"    Printf: a character, a directive, %n and %% for receivers  *)
(*              that take all, or fill up in the middle; numbers of 3, 4,  *)
(*              5 and 7 bits, printed in groups of a digit, so that there  *)
(*              are numbers with a group that begins with a zero;          *)
(*   "strings"  CStrings: four bytes of memory, with every overlap;        *)
(*   "numbers"  CNumbers: words of 6 and 4 bits, texts of up to three      *)
(*              characters, days across the ends of months and years;      *)
(*   "screen"   Screen: two terminals with a screen of two rows of three   *)
(*              cells and as much behind it; four calls, each of which may *)
(*              be a text with controls and escape codes;                  *)
(*   "keyboard" Keyboard: two terminals, keys of every kind, four times    *)
(*              one that goes down or up;                                  *)
(*   "editor"   TextEditor: seven bytes of a session with a small file.    *)
(***************************************************************************)
EXTENDS PhysPages, List, PageWindows, Keyboard, TextEditor

VARIABLES
    subject,
    format, out, room, numbytes, retval, stored, state, wanted,
    mem, call, returned, untouched,
    asked, answer,
    console, alike, calls

-----------------------------------------------------------------------------
(* The calls of the library *)

Directive(conv, arg, flags, width, precision, len) ==
    [conv |-> conv, arg |-> arg, flags |-> flags, width |-> width, precision |-> precision, len |-> len]
Plain(conv, arg) == Directive(conv, arg, {}, 0, <<>>, "")

Numbers == {0, 7, 25, 31, 99, 100, 127}
Words == {<<>>, <<"a">>, <<"a", "b">>, <<"(null)">>}
Floats == [class : {"finite"}, negative : BOOLEAN, mantissa : {100000, 314159, 999996}, exponent : {-12, 0, 3}]
    \cup [class : {"fnan", "finf", "fzero"}, negative : BOOLEAN, mantissa : {0}, exponent : {0}]

Directives ==
    {Directive(c, n, f, w, p, l) : c \in {"d", "u"}, n \in Numbers, f \in SUBSET {"-", "+", "0"},
                                   w \in {-1, 0, 4}, p \in {<<>>, <<0>>, <<2>>}, l \in {"", "hh", "ll"}}
    \cup {Directive(c, n, {" "}, 3, <<>>, "h") : c \in {"d", "u"}, n \in Numbers}
    \cup {Directive("s", s, f, w, <<>>, l) : s \in Words, f \in {{}, {"-"}}, w \in {0, 3}, l \in {"", "l"}}
    \cup {Directive("c", <<"a">>, f, w, <<>>, l) : f \in {{}, {"-"}, {"0"}}, w \in {0, 3}, l \in {"", "l"}}
    \cup {Plain(c, n) : c \in {"o", "x"}, n \in Numbers} \cup {Plain("f", a) : a \in Floats}
    \cup {Plain("p", 0), Directive("p", 0, {"-"}, 4, <<>>, ""), Plain("y", 0)}

Formats == {<<Plain("text", <<"a">>), d, Plain("n", 0), Plain("%", 0)>> : d \in Directives}

Prints == INSTANCE Printf
    WITH Rooms <- {2, 20}, GroupDigits <- 1, Bits <- [hh |-> 3, h |-> 4, int |-> 5, ll |-> 7]

Strings == INSTANCE CStrings WITH Size <- 4, Byte <- {0, 1}, before <- untouched

\* Space, minus, 0, 1, 7, a, x.
Texts == UNION {[1..k -> {32, 45, 48, 49, 55, 97, 120}] : k \in 0..3}

Calls ==
    [f : {"divide"}, a : -32..31, b : (-32..31) \ {0}]
    \cup [f : {"convert"}, text : Texts, base : {-1, 0, 2, 3, 8, 10, 12, 16, 32}]
    \cup [f : {"mktime"}, sec : {0}, min : {1}, hour : {23}, mday : {-30, 0, 1, 28, 29, 31, 90},
          mon : {-13, -12, 0, 1, 2, 11, 13}, year : {70, 71, 72, 75, 100}]

Sums == INSTANCE CNumbers WITH Wide <- 6, Narrow <- 4, got <- answer

Escaped(bytes_) == <<"esc", "[">> \o bytes_

Writes == {<<"a">>, <<"a", "b", "c", "a">>, <<"a", "lf", "b">>, <<"bs">>, <<"tab", "a">>, <<"a", "cr">>,
           <<"other">>, <<"esc">>, <<"[">>, <<"2">>, <<";">>, <<"J">>, <<"esc", "a">>, Escaped(<<"J">>),
           Escaped(<<"1", "J">>), Escaped(<<"2", "J">>), Escaped(<<"K">>), Escaped(<<"1", "K">>), Escaped(<<"2", "K">>),
           Escaped(<<"A">>), Escaped(<<"C">>), Escaped(<<"2", "E">>), Escaped(<<"G">>), Escaped(<<"2", ";", "2", "H", "a">>),
           Escaped(<<";", "H">>), Escaped(<<"S">>), Escaped(<<"9", "S">>), Escaped(<<"T">>), Escaped(<<"6", "n">>),
           Escaped(<<"s">>), Escaped(<<"u", "a">>), Escaped(<<"3", "1", ";", "4", "2", "m", "a">>),
           Escaped(<<"1", "m">>), Escaped(<<"y">>)}

Screens == INSTANCE Screen
    WITH VtCount <- 2, W <- 3, H <- 2, BufH <- 4, TabStop <- 2, Text <- Writes, MaxCalls <- 4

\* What the editor's file may hold.
Edited == {<<>>, <<"a", "lf", "b">>, <<"lf">>, <<"a", "nul", "b">>}

ASSUME
    /\ Prints!PrintfAssumption /\ Strings!StringAssumption /\ Sums!NumberAssumption
    /\ Screens!ScreenAssumption

-----------------------------------------------------------------------------
prints == <<format, out, room, numbytes, retval, stored, state, wanted>>
strings == <<mem, call, returned, untouched>>
sums == <<asked, answer>>
screens == <<console, alike, calls>>
user == <<screens, keyboardVars, editorVars>>
base == <<vars, windowVars, listVars, prints, strings, sums>>

\* A part with many beginnings has one of no matter which kind while it is at rest.
PrintsInit(s) ==
    IF s THEN Prints!Init
    ELSE format = <<>> /\ room = 20 /\ out = <<>> /\ numbytes = 0 /\ retval = 0 /\ stored = <<>>
         /\ state = "in" /\ wanted = <<>>
StringsInit(s) == IF s THEN Strings!Init ELSE mem = <<>> /\ call = <<>> /\ returned = <<>> /\ untouched = <<>>
SumsInit(s) == IF s THEN Sums!Init ELSE asked = <<>> /\ answer = <<>>
EditorsInit(s) == EditorInit /\ (s \/ disk = <<>>)

MCInit ==
    /\ subject \in {"bitmaps", "windows", "list", "print", "strings", "numbers", "screen", "keyboard", "editor"}
    /\ Init /\ WindowInit /\ ListInit /\ Screens!Init /\ KeyboardInit
    /\ EditorsInit(subject = "editor")
    /\ PrintsInit(subject = "print") /\ StringsInit(subject = "strings") /\ SumsInit(subject = "numbers")

\* The call of a part that has one call has returned, or never will; a user has made all
\* his calls, or the kernel is lost.
Answered ==
    \/ state # "in" \/ returned # <<>> \/ answer # <<>>
    \/ calls = 4 \/ console.lost \/ keys = 4 \/ pressed > 0

MCNext ==
    \/ subject = "bitmaps" /\ Next /\ UNCHANGED <<subject, user, windowVars, listVars, prints, strings, sums>>
    \/ subject = "windows" /\ LockedNext
       /\ UNCHANGED <<subject, user, vars, listVars, prints, strings, sums>>
    \/ subject = "list" /\ ListNext /\ UNCHANGED <<subject, user, vars, windowVars, prints, strings, sums>>
    \/ subject = "print" /\ Prints!Next /\ UNCHANGED <<subject, user, vars, windowVars, listVars, strings, sums>>
    \/ subject = "strings" /\ Strings!Call /\ UNCHANGED <<subject, user, vars, windowVars, listVars, prints, sums>>
    \/ subject = "numbers" /\ Sums!Next /\ UNCHANGED <<subject, user, vars, windowVars, listVars, prints, strings>>
    \/ subject = "screen" /\ Screens!Next /\ UNCHANGED <<subject, base, keyboardVars, editorVars>>
    \/ subject = "keyboard" /\ KeyboardNext /\ UNCHANGED <<subject, base, screens, editorVars>>
    \/ subject = "editor" /\ EditorNext /\ UNCHANGED <<subject, base, screens, keyboardVars>>
    \/ Answered /\ UNCHANGED <<subject, base, user>>

MCSpec == MCInit /\ [][MCNext]_<<subject, base, user>>

-----------------------------------------------------------------------------
\* printf() prints, and counts, what C asks for, where the code knows the directive.
PrintsAsC == Prints!PrintsAsC

\* The functions on memory and strings do and return what C says; division, conversion
\* and mktime() do so apart from what Made and Converted say.
LibraryAgrees == (subject = "strings" => Strings!StringsAgree) /\ (subject = "numbers" => Sums!NumbersAgree)

\* The display shows the terminal it is to show, and a terminal has what was written to it,
\* however it was cut into writes and runs.
TerminalServes == Screens!TerminalServes
=============================================================================
