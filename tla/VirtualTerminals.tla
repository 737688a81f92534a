-------------------------- MODULE VirtualTerminals --------------------------
(***************************************************************************)
(* Printing on the virtual terminals and changing between them (src/src/   *)
(* vt.c), with a display driver set.  Threads print between their locks;   *)
(* the keyboard interrupt changes the terminal between any two of their    *)
(* steps.  A line of cells stands for a screen; scrolling is left out.     *)
(***************************************************************************)
EXTENDS Integers, FiniteSets

CONSTANTS
    Thread, Nobody,     \* Nobody holds a lock that is not locked
    VtCount,            \* VT_COUNT
    Width,              \* the cells of a screen: bounds what is printed in all
    MaxPieces,          \* the most pieces of a print
    MaxPresses          \* bounds the presses of the F keys

ASSUME TerminalAssumption ==
    /\ Nobody \notin Thread /\ VtCount \in Nat \ {0} /\ Width \in Nat \ {0}
    /\ MaxPieces \in Nat \ {0} /\ MaxPresses \in Nat

Vt       == 0..(VtCount - 1)
NoChange == -1
Cells    == 0..(Width - 1)
Blank    == -1
Marks    == {Blank} \cup 0..Width

VARIABLES
    cur_vt, change_to_vt,
    printlock, writelock,   \* the holder of each lock
    buffer, cx,             \* vt[].buffer, vt[].cx
    screen, at,             \* the display and its cursor
    pc,                     \* the step each thread takes next
    on, piece, left,        \* its terminal, the piece it prints, the pieces left
    print,                  \* the vt_print_length() it is inside, 0 for none
    vt_num,                 \* the parameter of its vt_change()
    asked, presses,         \* the cells asked for, bounded by Width, and the presses of the F keys
    mishaps                 \* history: see SetUnder, Draw

shared == <<cur_vt, change_to_vt>>
locks  == <<printlock, writelock>>
shown  == <<screen, at>>
stored == <<buffer, cx>>
call   == <<on, piece, left, print>>
bounds == <<asked, presses>>
vars   == <<shared, locks, shown, stored, pc, call, vt_num, bounds, mishaps>>

Goto(t, step) == pc' = [pc EXCEPT ![t] = step]

\* What a thread puts into a cell tells the call: see PrintLength.
Mark(t) == print[t]

\* Back to the caller of vt_putch() or vt_print_length(): the variables of a call of
\* vt_fwrite() that has returned are forgotten.
ReturnTo(t, step) ==
    /\ Goto(t, step)
    /\ vt_num' = [vt_num EXCEPT ![t] = NoChange]
    /\ IF step = "idle"
       THEN /\ on' = [on EXCEPT ![t] = 0] /\ piece' = [piece EXCEPT ![t] = "run"]
            /\ left' = [left EXCEPT ![t] = 0] /\ print' = [print EXCEPT ![t] = 0]
       ELSE UNCHANGED call

-----------------------------------------------------------------------------
(* The calls.                                                              *)

\* Mutant: vt_print_length() does not take printlock.
PrintBegins(t) == Goto(t, "next")
PrintCalled(t) == Goto(t, "printlock")

\* vt_print_length(), from vt_fwrite() for the text up to an escape.
PrintLength(t) ==
    /\ pc[t] = "idle"
    /\ \E v \in Vt, n \in 1..MaxPieces :
          /\ asked + n <= Width /\ asked' = asked + n
          /\ on' = [on EXCEPT ![t] = v] /\ left' = [left EXCEPT ![t] = n]
          /\ print' = [print EXCEPT ![t] = asked']
    /\ PrintCalled(t)
    /\ UNCHANGED <<shared, locks, shown, stored, piece, vt_num, presses, mishaps>>

\* vt_putch() outside vt_print_length(), as vt_fwrite() and its escape codes call it.
Putch(t) ==
    /\ pc[t] = "idle"
    /\ \E v \in Vt : on' = [on EXCEPT ![t] = v]
    /\ asked < Width /\ asked' = asked + 1
    /\ left' = [left EXCEPT ![t] = 0]
    /\ \E p \in {"char", "control"} : piece' = [piece EXCEPT ![t] = p]
    /\ print' = [print EXCEPT ![t] = 0]
    /\ Goto(t, "writelock")
    /\ UNCHANGED <<shared, locks, shown, stored, vt_num, presses, mishaps>>

\* spinl_lock(&vtptr->printlock).
LockPrint(t) ==
    /\ pc[t] = "printlock" /\ printlock[on[t]] = Nobody
    /\ printlock' = [printlock EXCEPT ![on[t]] = t]
    /\ Goto(t, "next")
    /\ UNCHANGED <<shared, writelock, shown, stored, call, vt_num, bounds, mishaps>>

\* A control character goes through vt_putch(), a run of others is written at once.
NextPiece(t) ==
    /\ pc[t] = "next" /\ left[t] > 0
    /\ left' = [left EXCEPT ![t] = @ - 1]
    /\ \E p \in {"run", "control"} : piece' = [piece EXCEPT ![t] = p]
    /\ Goto(t, "writelock")
    /\ UNCHANGED <<shared, locks, shown, stored, on, print, vt_num, bounds, mishaps>>

UnlockPrint(t) ==
    /\ pc[t] = "next" /\ left[t] = 0
    /\ printlock' = [printlock EXCEPT ![on[t]] = Nobody]
    /\ ReturnTo(t, "idle")
    /\ UNCHANGED <<shared, writelock, shown, stored, bounds, mishaps>>

MayWrite(t) == writelock[on[t]] = Nobody

LockWrite(t) ==
    /\ pc[t] = "writelock" /\ MayWrite(t)
    /\ writelock' = [writelock EXCEPT ![on[t]] = t]
    /\ Goto(t, CASE piece[t] = "run"     -> "store"
                 [] piece[t] = "char"    -> "test"
                 [] piece[t] = "control" -> "cursor")
    /\ UNCHANGED <<shared, printlock, shown, stored, call, vt_num, bounds, mishaps>>

\* vt_putch() draws on the display only what belongs to the current terminal.
Test(t) ==
    /\ pc[t] = "test"
    /\ Goto(t, IF on[t] = cur_vt THEN "draw" ELSE "store")
    /\ UNCHANGED <<shared, locks, shown, stored, call, vt_num, bounds, mishaps>>

\* The display or its cursor is set from a terminal that another thread prints on.
SetUnder(t, v) == IF writelock[v] \notin {t, Nobody} THEN mishaps \cup {"Redrawn"} ELSE mishaps

\* vt_update_cursor() for '\n', '\t', ..: where they move the cursor to is left out.
Cursor(t) ==
    /\ pc[t] = "cursor"
    /\ at' = cx[cur_vt]
    /\ mishaps' = SetUnder(t, cur_vt)
    /\ Goto(t, "unlock")
    /\ UNCHANGED <<shared, locks, screen, stored, call, vt_num, bounds>>

CursorMoved == IF at < Width THEN at + 1 ELSE Width

\* fwrite(.., driverstream), which a run of characters reaches whatever its terminal is.
Draw(t) ==
    /\ pc[t] = "draw"
    /\ screen' = [i \in Cells |-> IF i = at THEN Mark(t) ELSE screen[i]]
    /\ at' = CursorMoved
    /\ mishaps' = mishaps \cup (IF on[t] # cur_vt THEN {"Background"} ELSE {})
                          \cup (IF \E u \in Thread : pc[u] = "locate" THEN {"Redrawn"} ELSE {})
    /\ Goto(t, IF piece[t] = "run" THEN "advance" ELSE "store")
    /\ UNCHANGED <<shared, locks, stored, call, vt_num, bounds>>

Store(t) ==
    /\ pc[t] = "store"
    /\ buffer' = [buffer EXCEPT ![on[t]][cx[on[t]]] = Mark(t)]
    /\ Goto(t, IF piece[t] = "run" THEN "draw" ELSE "advance")
    /\ UNCHANGED <<shared, locks, shown, cx, call, vt_num, bounds, mishaps>>

\* Mutant: the cursor of the current terminal is moved.
AdvanceCurrent(t) == [cx EXCEPT ![cur_vt] = IF @ < Width THEN @ + 1 ELSE @]
Advanced(t) == [cx EXCEPT ![on[t]] = @ + 1]

Advance(t) ==
    /\ pc[t] = "advance"
    /\ cx' = Advanced(t)
    /\ Goto(t, "unlock")
    /\ UNCHANGED <<shared, locks, shown, buffer, call, vt_num, bounds, mishaps>>

\* Mutant: writelock stays locked.
StillLocked(t) == UNCHANGED writelock
WriteUnlocked(t) == writelock' = [writelock EXCEPT ![on[t]] = Nobody]

UnlockWrite(t) ==
    /\ pc[t] = "unlock"
    /\ WriteUnlocked(t)
    /\ Goto(t, IF piece[t] = "run" THEN "next" ELSE "eop")
    /\ UNCHANGED <<shared, printlock, shown, stored, call, vt_num, bounds, mishaps>>

-----------------------------------------------------------------------------
(* Changing the terminal.                                                  *)

\* spinl_locked() of the two locks of the terminal that is left.
Locked(v) == writelock[v] # Nobody \/ printlock[v] # Nobody

\* vt_keyboard_event() for F1.. calls vt_change() with interrupts off.
PressF(v) ==
    /\ presses < MaxPresses /\ presses' = presses + 1
    /\ \/ v = cur_vt /\ UNCHANGED <<shared, shown, mishaps>>
       \/ /\ v # cur_vt /\ Locked(cur_vt)
          /\ change_to_vt' = v
          /\ UNCHANGED <<cur_vt, shown, mishaps>>
       \/ /\ v # cur_vt /\ ~Locked(cur_vt)
          /\ change_to_vt' = NoChange /\ cur_vt' = v
          /\ screen' = buffer[v] /\ at' = cx[v]
          /\ mishaps' = SetUnder(Nobody, v)
    /\ UNCHANGED <<locks, stored, pc, call, vt_num, asked>>

\* Where vt_putch() returns to.
Caller(t) == IF print[t] > 0 THEN "next" ELSE "idle"

\* do_eop(), the end of vt_putch().
DoEop(t) ==
    /\ pc[t] = "eop"
    /\ \/ change_to_vt = NoChange /\ ReturnTo(t, Caller(t))
       \/ /\ change_to_vt # NoChange
          /\ vt_num' = [vt_num EXCEPT ![t] = change_to_vt]
          /\ Goto(t, "change") /\ UNCHANGED call
    /\ UNCHANGED <<shared, locks, shown, stored, bounds, mishaps>>

\* vt_change() in a thread, up to its test of the locks.
Change(t) ==
    /\ pc[t] = "change"
    /\ \/ vt_num[t] = cur_vt /\ ReturnTo(t, Caller(t)) /\ UNCHANGED change_to_vt
       \/ /\ vt_num[t] # cur_vt /\ Locked(cur_vt)
          /\ change_to_vt' = vt_num[t] /\ ReturnTo(t, Caller(t))
       \/ /\ vt_num[t] # cur_vt /\ ~Locked(cur_vt)
          /\ Goto(t, "forget") /\ UNCHANGED <<change_to_vt, call, vt_num>>
    /\ UNCHANGED <<cur_vt, locks, shown, stored, bounds, mishaps>>

Forget(t) ==
    /\ pc[t] = "forget"
    /\ change_to_vt' = NoChange
    /\ Goto(t, "switch")
    /\ UNCHANGED <<cur_vt, locks, shown, stored, call, vt_num, bounds, mishaps>>

Switch(t) ==
    /\ pc[t] = "switch"
    /\ cur_vt' = vt_num[t]
    /\ Goto(t, "redraw")
    /\ UNCHANGED <<change_to_vt, locks, shown, stored, call, vt_num, bounds, mishaps>>

\* update_from_current_buf(): the cells, then the cursor.
Redraw(t) ==
    /\ pc[t] = "redraw"
    /\ screen' = buffer[cur_vt] /\ at' = Width
    /\ mishaps' = SetUnder(t, cur_vt)
    /\ Goto(t, "locate")
    /\ UNCHANGED <<shared, locks, stored, call, vt_num, bounds>>

Locate(t) ==
    /\ pc[t] = "locate"
    /\ at' = cx[cur_vt]
    /\ mishaps' = SetUnder(t, cur_vt)
    /\ ReturnTo(t, Caller(t))
    /\ UNCHANGED <<shared, locks, screen, stored, bounds>>

Init ==
    /\ cur_vt = 0 /\ change_to_vt = NoChange
    /\ printlock = [v \in Vt |-> Nobody] /\ writelock = [v \in Vt |-> Nobody]
    /\ buffer = [v \in Vt |-> [i \in Cells |-> Blank]] /\ cx = [v \in Vt |-> 0]
    /\ screen = [i \in Cells |-> Blank] /\ at = 0
    /\ pc = [t \in Thread |-> "idle"] /\ on = [t \in Thread |-> 0]
    /\ piece = [t \in Thread |-> "run"] /\ left = [t \in Thread |-> 0]
    /\ print = [t \in Thread |-> 0]
    /\ vt_num = [t \in Thread |-> NoChange]
    /\ asked = 0 /\ presses = 0 /\ mishaps = {}

\* The steps of a call that has begun.
Inside(t) ==
    \/ LockPrint(t) \/ NextPiece(t) \/ UnlockPrint(t)
    \/ LockWrite(t) \/ Cursor(t) \/ Test(t) \/ Draw(t) \/ Store(t) \/ Advance(t) \/ UnlockWrite(t)
    \/ DoEop(t) \/ Change(t) \/ Forget(t) \/ Switch(t) \/ Redraw(t) \/ Locate(t)

Next ==
    \/ \E t \in Thread : PrintLength(t) \/ Putch(t) \/ Inside(t)
    \/ \E v \in Vt : PressF(v)

Spec     == Init /\ [][Next]_vars
FairSpec == Spec /\ \A t \in Thread : WF_vars(Inside(t))

-----------------------------------------------------------------------------
(* Properties.                                                             *)

Steps == {"idle", "printlock", "next", "writelock", "cursor", "test", "draw", "store", "advance",
          "unlock", "eop", "change", "forget", "switch", "redraw", "locate"}

TypeOK ==
    /\ cur_vt \in Vt /\ change_to_vt \in Vt \cup {NoChange}
    /\ printlock \in [Vt -> Thread \cup {Nobody}] /\ writelock \in [Vt -> Thread \cup {Nobody}]
    /\ buffer \in [Vt -> [Cells -> Marks]] /\ cx \in [Vt -> 0..Width]
    /\ screen \in [Cells -> Marks] /\ at \in 0..Width
    /\ pc \in [Thread -> Steps] /\ on \in [Thread -> Vt]
    /\ piece \in [Thread -> {"run", "char", "control"}] /\ left \in [Thread -> 0..MaxPieces]
    /\ print \in [Thread -> 0..Width] /\ vt_num \in [Thread -> Vt \cup {NoChange}]
    /\ asked \in 0..Width /\ presses \in 0..MaxPresses
    /\ mishaps \subseteq {"Background", "Redrawn"}

Quiet == \A t \in Thread : pc[t] = "idle"

\* Whatever is printed and whenever the terminal is changed: as long as nothing was
\* printed behind the current terminal's back, the display shows the current terminal
\* when nobody prints.
DisplayShowsCurrent ==
    Quiet /\ mishaps = {} => screen = buffer[cur_vt] /\ at = cx[cur_vt]

\* The texts of two vt_print_length() on one terminal are never mixed, although each
\* gives up writelock between its pieces, and no two threads print into one cell, which
\* would leave one in front of the cursor blank.
PrintsAreWhole ==
    \A v \in Vt :
       /\ \A i, j, k \in Cells :
             i < j /\ j < k /\ buffer[v][i] > 0 /\ buffer[v][i] = buffer[v][k]
                 => buffer[v][j] \in {0, buffer[v][i]}
       /\ \A i \in Cells : i < cx[v] => buffer[v][i] # Blank

\* A call of vt_print_length() or vt_putch() comes to its end.
PrintsComplete == \A t \in Thread : pc[t] # "idle" ~> pc[t] = "idle"

\* "if user wants to change vt while printing we queue it", says do_eop(): what is
\* queued is taken from the queue when the printing ends.
QueuedChangeIsMade == \A v \in Vt : change_to_vt = v ~> (cur_vt = v \/ change_to_vt # v)
=============================================================================
