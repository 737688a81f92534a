------------------------------- MODULE Screen -------------------------------
(***************************************************************************)
(* What the virtual terminals show: src/src/vt.c from vt_fwrite() with its *)
(* escape codes down to the display driver (pc_display.c), and the mode    *)
(* without a driver that the kernel starts in.  A terminal has a buffer of *)
(* BufH rows, of which the screen shows the last H, or H others when it is *)
(* scrolled back.  A call is one step: VirtualTerminals has the calls of   *)
(* several threads.  A program writes through one file for each terminal.  *)
(*                                                                         *)
(* A cell is a character and its colour; the driver fills with spaces and  *)
(* the terminals with zeros, which look alike.  The registers of the       *)
(* cursor are left out, and so is the wording of the messages.             *)
(***************************************************************************)
EXTENDS Integers, SequencesExt

CONSTANTS
    VtCount,        \* VT_COUNT
    W, H,           \* DISPLAY_W, DISPLAY_H
    BufH,           \* VT_BUF_H
    TabStop,        \* 8 in the code
    Text,           \* what a program may write at once
    MaxCalls        \* bounds the calls

ScreenAssumption ==
    /\ {VtCount, W, H, BufH, TabStop} \subseteq Nat \ {0} /\ H <= BufH /\ MaxCalls \in Nat

Vt == 0..(VtCount - 1)
Controls == {"lf", "cr", "tab", "bs", "esc", "other"}    \* other: also all bytes from 0x80 on
Printable(c) == c \notin Controls

Digits == <<"0", "1", "2", "3", "4", "5", "6", "7", "8", "9">>
IsDigit(c) == Contains(Digits, c)
ValueOf(c) == (CHOOSE k \in DOMAIN Digits : Digits[k] = c) - 1
Number(n) == IF n < 10 THEN <<Digits[n + 1]>> ELSE <<Digits[(n \div 10) + 1], Digits[(n % 10) + 1]>>

Grey == <<7, 0>>                    \* 0x07: a colour of the letters, one of what is behind
ansi_colors_to_vga == <<0, 4, 2, 6, 1, 5, 3, 7, 0, 0>>
Blank == <<"space", Grey>>
Junk  == <<"junk", Grey>>           \* what was on the heap
Row(cell) == [k \in 1..W |-> cell]

VARIABLES
    console,        \* everything: see Init
    alike,          \* history: see BytesAlike
    calls

vars == <<console, alike, calls>>

\* vt_open_ptr()
NewFile == [color |-> Grey, coming |-> 0, digits |-> <<>>, codes |-> <<>>, saved |-> <<0, 0>>]

\* vt_init(): no driver, no buffers; the kernel writes on where the loader stopped.
Init ==
    /\ console =
         [driver |-> FALSE, cur |-> 0,
          vts    |-> [v \in Vt |-> [rows |-> <<>>, cx |-> 0, cy |-> 0, scroll |-> 0]],
          files  |-> [v \in Vt |-> NewFile],
          cells  |-> [k \in 1..H |-> Row(Blank)],   \* the memory of the display
          at     |-> <<0, 0>>,                      \* the cursor of the driver
          run    |-> <<>>,                          \* tempbuf of vt_print_length()
          untested |-> FALSE,                       \* see Coded
          \* History.  spoilt: the display does not show the terminal until it is drawn anew;
          \* homed: the driver's cursor went home alone; lost: memory is overwritten, or a
          \* loop runs for as good as ever.
          spoilt |-> FALSE, homed |-> FALSE, lost |-> FALSE]
    /\ alike = TRUE
    /\ calls = 0

-----------------------------------------------------------------------------
(* The display driver                                                      *)

Lose(S) == [S EXCEPT !.lost = TRUE]

\* display_fwrite(): not beyond the end of the memory, but a cursor behind the end makes
\* the count huge.
display_fwrite(S, run) ==
    LET from == S.at[2] * W + S.at[1]
        n    == IF from + Len(run) > W * H THEN W * H - from ELSE Len(run)
        x    == S.at[1] + n
    IN IF n < 0 THEN Lose(S)
       ELSE [S EXCEPT !.at = <<x % W, (S.at[2] + (x \div W)) % H>>,
                      !.cells = [r \in 1..H |-> [c \in 1..W |->
                          LET k == (r - 1) * W + c - from IN IF k \in 1..n THEN run[k] ELSE @[r][c]]]]

Up(rows, n)   == SubSeq(rows, n + 1, Len(rows)) \o [k \in 1..n |-> Row(Blank)]
Down(rows, n) == [k \in 1..n |-> Row(Blank)] \o SubSeq(rows, 1, Len(rows) - n)

\* IOCTL_DISPLAY_ROLL_UP and _DOWN trust that the count is at most the height.
Roll(S, v, n, up) ==
    IF ~S.driver THEN S
    ELSE IF n > H THEN Lose(S)
    ELSE [S EXCEPT !.cells = IF up THEN Up(@, n) ELSE Down(@, n),
                   !.spoilt = @ \/ v # S.cur \/ S.vts[S.cur].scroll # 0]

-----------------------------------------------------------------------------
(* The terminals                                                           *)

\* vt_update_cursor() and vt_display_locate()
vt_update_cursor(S) ==
    LET t == S.vts[S.cur]
    IN IF S.driver THEN [S EXCEPT !.at = <<t.cx, t.cy + t.scroll>>, !.homed = FALSE] ELSE S

\* What the screen is to show.
Window(S) == LET t == S.vts[S.cur] IN SubSeq(t.rows, BufH - H - t.scroll + 1, BufH - t.scroll)

update_from_current_buf(S) == vt_update_cursor([S EXCEPT !.cells = Window(S), !.spoilt = FALSE])

\* vt_scroll(), which nothing happens in without a driver.
vt_scroll(S, lines) ==
    LET moved == S.vts[S.cur].scroll + lines
        held  == IF moved < 0 THEN 0 ELSE IF moved > BufH - H THEN BufH - H ELSE moved
    IN IF S.driver THEN update_from_current_buf([S EXCEPT !.vts[S.cur].scroll = held]) ELSE S

\* vt_change(), while nobody prints.
vt_change(S, v) == IF S.driver /\ v # S.cur THEN update_from_current_buf([S EXCEPT !.cur = v]) ELSE S

\* Mutant: the rows that come in are not blanked.
LeftUp(S, v, lines, first) ==
    IF ~S.driver THEN S
    ELSE [S EXCEPT !.vts[S.cur].rows =
              [k \in 1..BufH |-> IF k >= first /\ k + lines <= BufH THEN @[k + lines] ELSE @[k]]]

\* buffer_scroll_up() of the whole buffer or, from row first on, of the screen: the rows are
\* moved in the buffer of the current terminal, and blanked in the one of v.
buffer_scroll_up(S, v, lines, first) ==
    LET n     == IF lines > BufH - first + 1 THEN BufH - first + 1 ELSE lines
        moved == [S EXCEPT !.vts[S.cur].rows =
                      [k \in 1..BufH |-> IF k >= first /\ k + n <= BufH THEN @[k + n] ELSE @[k]]]
    IN IF ~S.driver THEN S
       ELSE [moved EXCEPT !.vts[v].rows = [k \in 1..BufH |-> IF k > BufH - n THEN Row(Blank) ELSE @[k]]]

buffer_scroll_down(S, v, lines, first) ==
    LET n     == IF lines > BufH - first + 1 THEN BufH - first + 1 ELSE lines
        moved == [S EXCEPT !.vts[S.cur].rows =
                      [k \in 1..BufH |-> IF k - n >= first THEN @[k - n] ELSE @[k]]]
    IN IF ~S.driver THEN S
       ELSE [moved EXCEPT !.vts[v].rows =
                [k \in 1..BufH |-> IF k \in first..(first + n - 1) THEN Row(Blank) ELSE @[k]]]

\* vt_scroll_if_needed(): cy is unsigned, so that a row above the first is far below.
vt_scroll_if_needed(S, v) ==
    LET cy     == S.vts[v].cy
        amount == IF cy < 0 \/ cy - (H - 1) > H THEN H ELSE cy - (H - 1)
        lowest == [S EXCEPT !.vts[v].cy = H - 1]
    IN IF cy \in 0..(H - 1) THEN S
       ELSE IF S.driver
            THEN vt_update_cursor(Roll(buffer_scroll_up(lowest, v, amount, 1), v, amount, TRUE))
       ELSE [lowest EXCEPT !.cells = IF cy < 0 THEN [k \in 1..H |-> Row(Junk)] ELSE Up(@, amount)]

\* The rows with a run of cells behind column x of one.
With(rows, row, x, run) ==
    [r \in DOMAIN rows |-> IF r # row THEN rows[r]
        ELSE [c \in 1..W |-> IF c - x \in 1..Len(run) THEN run[c - x] ELSE rows[r][c]]]

\* A run of cells goes into the buffer of v, and to the display when it is shown.
Placed(S, v, run, shown) ==
    LET t    == S.vts[v]
        row  == BufH - H + 1 + t.cy
        here == v = S.cur /\ S.at = <<t.cx, t.cy + t.scroll>>
        drawn == IF shown THEN [display_fwrite(S, run) EXCEPT !.spoilt = @ \/ ~here] ELSE S
    IN [drawn EXCEPT !.vts[v].rows = With(@, row, t.cx, run)]

\* Behind the last column comes the next row, which may be the one below the screen.
Wrapped(S, v) ==
    IF S.vts[v].cx >= W THEN [S EXCEPT !.vts[v].cx = 0, !.vts[v].cy = @ + 1] ELSE S

PutPrintable(S, v, c) ==
    LET T == vt_scroll_if_needed(S, v)
        t == T.vts[v]
        placed == IF T.driver THEN Placed(T, v, <<<<c, T.files[v].color>>>>, v = T.cur)
                  ELSE [T EXCEPT !.cells = With(@, t.cy + 1, t.cx, <<<<c, Grey>>>>)]
    IN [placed EXCEPT !.vts[v].cx = @ + 1]

\* A new line moves the rows when the cursor is below the screen, before it goes down.
PutControl(S, v, c) ==
    LET t == S.vts[v]
    IN CASE c = "lf"  -> LET T == vt_scroll_if_needed([S EXCEPT !.vts[v].cx = 0], v)
                         IN vt_update_cursor([T EXCEPT !.vts[v].cy = @ + 1])
         [] c = "cr"  -> vt_update_cursor([S EXCEPT !.vts[v].cx = 0])
         [] c = "tab" -> vt_update_cursor([S EXCEPT !.vts[v].cx = ((@ \div TabStop) + 1) * TabStop])
         [] c = "bs"  -> vt_update_cursor(IF t.cx > 0 THEN [S EXCEPT !.vts[v].cx = @ - 1]
                                          ELSE IF S.driver
                                          THEN [S EXCEPT !.vts[v].cx = W - 1, !.vts[v].cy = @ - 1]
                                          ELSE S)
         [] OTHER     -> S

\* vt_putch(): a terminal that is scrolled back is first shown at its end again.
vt_putch(S, v, c) ==
    LET T == IF S.vts[v].scroll # 0 THEN vt_scroll([S EXCEPT !.vts[v].scroll = 0], 0) ELSE S
    IN Wrapped(IF Printable(c) THEN PutPrintable(T, v, c) ELSE PutControl(T, v, c), v)

\* vt_print_length(), where a run of printable characters ends.
Flushed(S, v) ==
    IF S.run = <<>> THEN S
    ELSE LET T == Placed(vt_scroll_if_needed(S, v), v, S.run, TRUE)
         IN Wrapped([T EXCEPT !.vts[v].cx = @ + Len(S.run), !.run = <<>>], v)

\* A character of vt_print_length(): the run goes as far as the row; without a driver
\* there are none.
Printed(S, v, c) ==
    IF Printable(c) /\ S.driver
    THEN LET T == [S EXCEPT !.run = Append(@, <<c, S.files[v].color>>)]
         IN IF T.vts[v].cx + Len(T.run) = W THEN Flushed(T, v) ELSE T
    ELSE vt_putch(Flushed(S, v), v, c)

vt_print(S, v, text) == Flushed(FoldLeft(LAMBDA T, c : Printed(T, v, c), S, text), v)

\* vt_locate()
vt_locate(S, v, x, y) ==
    IF y \notin 0..(H - 1) \/ x \notin 0..(W - 1) THEN S
    ELSE LET T == [S EXCEPT !.vts[v].cx = x, !.vts[v].cy = y]
         IN IF v = S.cur THEN vt_update_cursor(T) ELSE T

\* vt_cls() and vt_fallback_cls(): the driver's cursor goes home, whether or not the one of
\* the terminal does.
vt_cls(S, v, keep) ==
    LET T == IF keep THEN S ELSE [S EXCEPT !.vts[v].cx = 0, !.vts[v].cy = 0]
        U == IF v # S.cur THEN T
             ELSE [T EXCEPT !.cells = [k \in 1..H |-> Row(Blank)], !.at = <<0, 0>>,
                            !.homed = keep, !.spoilt = @ \/ S.vts[v].scroll # 0]
    IN IF ~S.driver THEN U
       ELSE [U EXCEPT !.vts[v].rows = [k \in 1..BufH |-> IF k > BufH - H THEN Row(Blank) ELSE @[k]]]

-----------------------------------------------------------------------------
(* Escape codes                                                            *)

Between(n, low, high) == IF n < low THEN low ELSE IF n > high THEN high ELSE n

\* As many spaces as asked for; a count below 0 is a huge one.
Spaces(S, v, n) ==
    IF n < 0 THEN Lose(S) ELSE FoldLeft(LAMBDA T, k : vt_putch(T, v, "space"), S, [k \in 1..n |-> k])

\* 'A' to 'H' and 'f'; 'G' sets the row.
Moved(S, v, cmd, p, q) ==
    LET t    == S.vts[v]
        x    == t.cx
        y    == t.cy
        low  == H - 1
        To(a, b) == vt_locate(S, v, a, b)
    IN CASE cmd = "A" -> To(x, IF y - p < 0 THEN 0 ELSE y - p)
         [] cmd = "B" -> To(x, IF y + p > low THEN low ELSE y + p)
         [] cmd = "C" -> To(IF x + p > W - 1 THEN W - 1 ELSE x + p, y)
         [] cmd = "D" -> To(IF x - p < 0 THEN 0 ELSE x - p, y)
         [] cmd = "E" -> To(0, IF y + p > low THEN low ELSE y + p)
         [] cmd = "F" -> To(0, IF y - p < 0 THEN 0 ELSE y - p)
         [] cmd = "G" -> To(x, Between(p, 0, low))
         [] OTHER     -> To(Between(q - 1, 0, W - 1), Between(p - 1, 0, low))

\* 'J': a cursor below the screen makes the count of the rows behind it negative.
ErasedScreen(S, v, p) ==
    LET x == S.vts[v].cx
        y == S.vts[v].cy
    IN CASE p \in {-1, 0} -> vt_locate(Spaces(Spaces(S, v, W - x), v, (H - y - 1) * W), v, x, y)
         [] p = 1 -> Spaces(Spaces(vt_locate(S, v, 0, 0), v, y * W), v, x)
         [] p = 2 -> vt_cls(S, v, TRUE)
         [] OTHER -> S

\* 'K'
ErasedLine(S, v, p) ==
    LET x == S.vts[v].cx
        y == S.vts[v].cy
    IN CASE p \in {-1, 0} -> vt_locate(Spaces(S, v, W - x), v, x, y)
         [] p = 1 -> Spaces(vt_locate(S, v, 0, y), v, x)
         [] p = 2 -> vt_locate(Spaces(vt_locate(S, v, 0, y), v, W), v, x, y)
         [] OTHER -> S

\* 'S' and 'T' take the cursor with the rows; 'T' compares the row with the width.
Shifted(S, v, cmd, p) ==
    LET first == BufH - H + 1
        x == S.vts[v].cx
        y == S.vts[v].cy
    IN IF cmd = "S"
       THEN vt_locate(Roll(buffer_scroll_up(S, v, p, first), v, p, TRUE), v, x, IF y - p < 0 THEN 0 ELSE y - p)
       ELSE vt_locate(Roll(buffer_scroll_down(S, v, p, first), v, p, FALSE), v, x,
                      IF y + p > W - 1 THEN W - 1 ELSE y + p)

\* A parameter of 'm'; one that comes again counts where it comes last.
Coloured(S, v, i) ==
    LET c == ansi_colors_to_vga[(i % 10) + 1]
    IN IF i = 0 THEN [S EXCEPT !.files[v].color = Grey]
       ELSE IF (i \div 10) % 2 = 1 THEN [S EXCEPT !.files[v].color[1] = c]
       ELSE [S EXCEPT !.files[v].color[2] = c]

SetColours(S, v, codes) ==
    LET ks    == [j \in DOMAIN codes |-> IF codes[j] < 0 THEN 0 ELSE codes[j]]
        valid == SelectSeq([j \in DOMAIN ks |-> j],
                           LAMBDA j : ks[j] < 256 /\ \A h \in j + 1..Len(ks) : ks[h] # ks[j])
        Known(i) == i = 0 \/ i \in 30..49 \/ i \in 90..109
        bad   == SelectInSeq(valid, LAMBDA j : ~Known(ks[j]))
        good  == IF bad = 0 THEN valid ELSE SubSeq(valid, 1, bad - 1)
        T     == FoldLeft(LAMBDA U, j : Coloured(U, v, ks[j]), S, good)
    IN IF bad = 0 THEN T ELSE vt_print(T, v, <<"(", "i", ")">>)

\* parse_ansi_code()
parse_ansi_code(S, v, cmd) ==
    LET codes == S.files[v].codes
        p1    == codes[1]
        p2    == IF Len(codes) > 1 THEN codes[2] ELSE -1
        One(p) == IF p = -1 THEN 1 ELSE p
        t     == S.vts[v]
    IN CASE cmd \in {"A", "B", "C", "D", "E", "F", "G", "H", "f"} -> Moved(S, v, cmd, One(p1), One(p2))
         [] cmd = "J" -> ErasedScreen(S, v, p1)
         [] cmd = "K" -> ErasedLine(S, v, p1)
         [] cmd \in {"S", "T"} -> Shifted(S, v, cmd, One(p1))
         [] cmd = "n" -> IF p1 # 6 THEN S
                         ELSE vt_print(S, v, <<"esc", "[">> \o Number(t.cy + 1) \o <<";">>
                                             \o Number(t.cx + 1) \o <<"R">>)
         [] cmd = "s" -> [S EXCEPT !.files[v].saved = <<t.cx, t.cy>>]
         [] cmd = "u" -> vt_locate(S, v, S.files[v].saved[1], S.files[v].saved[2])
         [] cmd = "m" -> SetColours(S, v, codes)
         [] OTHER     -> vt_print(vt_putch(vt_print(S, v, <<"(", "u">>), v, cmd), v, <<")">>)

\* atoi(ansibuf), or -1 when there is nothing in it.
Parameter(digits) ==
    IF digits = <<>> THEN -1
    ELSE IF ~IsDigit(Head(digits)) THEN 0
    ELSE FoldLeft(LAMBDA n, d : 10 * n + ValueOf(d), 0, digits)

\* A byte behind ESC [.  The one behind a ';' is taken for a digit without a test, unless
\* it comes with the next write.
Coded(S, v, c, more) ==
    LET f     == S.files[v]
        taken == [S EXCEPT !.files[v].codes = Append(@, Parameter(f.digits)), !.files[v].digits = <<>>]
    IN IF S.untested \/ IsDigit(c) THEN [S EXCEPT !.files[v].digits = Append(@, c), !.untested = FALSE]
       ELSE IF c = ";" THEN [taken EXCEPT !.untested = more]
       ELSE [parse_ansi_code(taken, v, c) EXCEPT !.files[v].coming = 0]

Texted(S, v, c) ==
    IF c = "esc" THEN [Flushed(S, v) EXCEPT !.files[v].coming = 1] ELSE Printed(S, v, c)

\* A byte of vt_fwrite()
Byte(S, v, c, more) ==
    IF S.lost THEN S
    ELSE CASE S.files[v].coming = 0 -> Texted(S, v, c)
           [] S.files[v].coming = 2 -> Coded(S, v, c, more)
           [] OTHER -> IF c = "[" THEN [S EXCEPT !.files[v].coming = 2, !.files[v].codes = <<>>]
                       ELSE Texted([vt_putch(S, v, "esc") EXCEPT !.files[v].coming = 0], v, c)

\* vt_fwrite()
vt_fwrite(S, v, text) ==
    LET n == Len(text)
    IN Flushed(FoldLeft(LAMBDA T, k : Byte(T, v, text[k], k < n), S, [k \in 1..n |-> k]), v)

\* The same text in writes of a byte each, with vt_putch() for what is printable.
BytewiseWritten(S, v, text) ==
    FoldLeft(LAMBDA T, c : IF T.files[v].coming = 0 /\ Printable(c) /\ ~T.lost THEN vt_putch(T, v, c)
                           ELSE vt_fwrite(T, v, <<c>>), S, text)

\* vt_setdriver(): the buffers are new, and blank in their first rows only; the first
\* terminal gets what the screen shows.
vt_setdriver(S) ==
    LET fresh == [k \in 1..BufH |-> IF k <= H THEN Row(Blank) ELSE Row(Junk)]
        Rows(v) == IF v = 0 THEN SubSeq(fresh, 1, BufH - H) \o S.cells ELSE fresh
    IN update_from_current_buf(
           [S EXCEPT !.driver = TRUE, !.vts = [v \in Vt |-> [S.vts[v] EXCEPT !.rows = Rows(v)]]])

-----------------------------------------------------------------------------
(* The calls                                                               *)

Call == calls < MaxCalls /\ ~console.lost /\ calls' = calls + 1

Compared(S, T) ==
    S.lost \/ T.lost \/ (S.files = T.files /\ \A v \in Vt : S.vts[v] = [T.vts[v] EXCEPT !.scroll = S.vts[v].scroll])

\* A ';' in front of something else than a digit, in one write: see Coded.
Tested(text) == \A k \in 1..Len(text) - 1 : text[k] = ";" => IsDigit(text[k + 1])

\* Until there is a driver only the kernel writes, on the first terminal.
Write(v, text) ==
    /\ Call /\ (v = 0 \/ console.driver)
    /\ console' = vt_fwrite(console, v, text)
    /\ alike' = (Tested(text) => Compared(console', BytewiseWritten(console, v, text)))

\* vt_ioctl()
SetColor(v, color) ==
    /\ Call /\ console' = [console EXCEPT !.files[v].color = color]
    /\ UNCHANGED alike
SetCursor(v, x, y) ==
    /\ Call /\ console' = vt_locate(console, v, x, y)
    /\ UNCHANGED alike
Clear(v) ==
    /\ Call /\ console' = vt_cls(console, v, FALSE)
    /\ UNCHANGED alike

\* vt_fclose() and vt_open(): the terminal keeps what it shows.
Reopen(v) ==
    /\ Call /\ console' = [console EXCEPT !.files[v] = NewFile]
    /\ UNCHANGED alike

\* Keys of the keyboard: the F keys, Shift and a page key.
Change(v) ==
    /\ Call /\ console' = vt_change(console, v)
    /\ UNCHANGED alike
Scroll(lines) ==
    /\ Call /\ console' = vt_scroll(console, lines)
    /\ UNCHANGED alike

SetDriver ==
    /\ Call /\ ~console.driver
    /\ console' = vt_setdriver(console)
    /\ UNCHANGED alike

Next ==
    \/ SetDriver
    \/ \E lines \in {-1, 1} : Scroll(lines)
    \/ \E v \in Vt :
          \/ Change(v) \/ Clear(v) \/ Reopen(v) \/ SetColor(v, <<1, 2>>)
          \/ \E x \in {0, W - 1}, y \in {0, H - 1, H} : SetCursor(v, x, y)
          \/ \E text \in Text : Write(v, text)

Spec == Init /\ [][Next]_vars

-----------------------------------------------------------------------------
\* The display shows the rows of the current terminal, and its cursor is where that
\* terminal's is, unless the terminal is scrolled back or the cursor below the screen.
ShowsTerminal ==
    LET S == console
        t == S.vts[S.cur]
    IN S.driver /\ ~S.spoilt /\ ~S.lost =>
          /\ S.cells = Window(S)
          /\ S.homed \/ t.scroll # 0 \/ t.cy >= H \/ S.at = <<t.cx, t.cy>>

\* Runs and the ways to cut a text into writes change nothing: a terminal has what it has
\* when each byte comes alone.
BytesAlike == alike

\* The cursor of a terminal is on the screen or in the row below it, but for a backspace
\* from the first column of the first row.
CursorStays ==
    \A v \in Vt : LET t == console.vts[v]
                  IN ~console.lost => /\ t.cx \in 0..(W - 1) /\ t.cy <= H /\ t.scroll \in 0..(BufH - H)

TerminalServes == ShowsTerminal /\ BytesAlike /\ CursorStays
=============================================================================
