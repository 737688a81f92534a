-------------------------- MODULE Terminals_proof --------------------------
(***************************************************************************)
(* The virtual terminals, for any threads, terminals and sizes.  The texts *)
(* of the calls of vt_print_length() are never mixed, and whenever the     *)
(* terminal is changed the display shows the current one.  The ring of key *)
(* events is a queue.  And the text editor, for any bytes and files: its   *)
(* rows are the text that was read and typed.                              *)
(***************************************************************************)
EXTENDS KeyBuffer, VirtualTerminals, TextEditor, FiniteSetTheorems, SequenceTheorems, WellFoundedInduction, TLAPS

-----------------------------------------------------------------------------
(* Printing.                                                               *)

\* The steps between spinl_lock() and spinl_unlock() of writelock.
Writing == {"cursor", "test", "draw", "store", "advance", "unlock"}

Types ==
    /\ printlock \in [Vt -> Thread \cup {Nobody}] /\ writelock \in [Vt -> Thread \cup {Nobody}]
    /\ buffer \in [Vt -> [Cells -> Marks]] /\ cx \in [Vt -> Nat]
    /\ pc \in [Thread -> Steps] /\ on \in [Thread -> Vt]
    /\ piece \in [Thread -> {"run", "char", "control"}]
    /\ print \in [Thread -> 0..Width] /\ asked \in 0..Width

\* A thread is inside a vt_print_length() exactly when it has a number of its own for it.
Calls ==
    \A t \in Thread :
       /\ print[t] <= asked
       /\ pc[t] = "idle" => print[t] = 0
       /\ pc[t] \in {"printlock", "next"} => print[t] > 0
       /\ pc[t] \in {"writelock"} \cup Writing /\ piece[t] = "run" => print[t] > 0
       /\ pc[t] = "test" => piece[t] # "run"
       /\ \A u \in Thread : print[t] > 0 /\ print[t] = print[u] => t = u

\* The locks are held by the threads that are between their lock and their unlock.
Locks ==
    \A t \in Thread :
       /\ print[t] > 0 /\ pc[t] # "printlock" => printlock[on[t]] = t
       /\ pc[t] \in Writing => writelock[on[t]] = t

\* Whether t has written the cell at the cursor that it has not yet moved on.
Written(t) == pc[t] = "advance" \/ (pc[t] = "draw" /\ piece[t] = "run")

\* The cells in front of the cursor are written, those behind it are not.
Filled ==
    /\ \A v \in Vt, i \in Cells : /\ i < cx[v] => buffer[v][i] # Blank
                                  /\ i > cx[v] => buffer[v][i] = Blank
                                  /\ buffer[v][i] <= asked
    /\ \A t \in Thread : Written(t) /\ cx[on[t]] \in Cells => buffer[on[t]][cx[on[t]]] # Blank

\* A call that waits for printlock has written nothing, and behind the first cell of a
\* call that holds it there are its cells and those of vt_putch().
OwnTexts ==
    \A t \in Thread, i \in Cells :
       /\ pc[t] = "printlock" => \A v \in Vt : buffer[v][i] # print[t]
       /\ print[t] > 0 /\ buffer[on[t]][i] = print[t]
             => \A j \in Cells : i < j => buffer[on[t]][j] \in {Blank, 0, print[t]}

Unmixed ==
    \A v \in Vt, i, j, k \in Cells :
       i < j /\ j < k /\ buffer[v][i] > 0 /\ buffer[v][i] = buffer[v][k]
           => buffer[v][j] \in {0, buffer[v][i]}

IInv == Types /\ Calls /\ Locks /\ Filled /\ OwnTexts /\ Unmixed

\* The initial state satisfies the invariant.
LEMMA InitIInv == Init => IInv
<1> SUFFICES ASSUME Init PROVE IInv
  OBVIOUS
<1> USE TerminalAssumption DEF Init, Vt, Cells, Marks, Blank
<1>1. Types
  BY DEF Types, Steps
<1>2. Calls /\ Locks
  BY DEF Calls, Locks, Writing
<1>3. Filled /\ OwnTexts /\ Unmixed
  BY DEF Filled, Written, OwnTexts, Unmixed
<1> QED BY <1>1, <1>2, <1>3 DEF IInv

\* A step that writes no cell and moves no cursor keeps the cells in order, if it gives no
\* thread another number or terminal and lets none seem to have written one.
LEMMA CellsKept ==
  ASSUME IInv, UNCHANGED <<stored, asked>>,
         \A t \in Thread : /\ print'[t] \in {0, print[t]}
                           /\ print'[t] > 0 => on'[t] = on[t]
                           /\ pc'[t] = "printlock" => pc[t] = "printlock" /\ print'[t] = print[t]
                           /\ Written(t)' => Written(t) /\ on'[t] = on[t]
  PROVE  Filled' /\ OwnTexts' /\ Unmixed'
<1> USE DEF IInv, stored
<1>1. Filled'
  BY DEF Filled
<1>2. OwnTexts'
  BY DEF OwnTexts, Types
<1>3. Unmixed'
  BY DEF Unmixed
<1> QED BY <1>1, <1>2, <1>3

\* A thread that starts, or goes on with, a call keeps to its number and its locks, if the
\* others do.
LEMMA Returns ==
  ASSUME IInv, UNCHANGED <<locks, stored, asked>>,
         NEW t \in Thread, pc[t] \in {"eop", "change", "locate"}, ReturnTo(t, Caller(t))
  PROVE  IInv'
<1> USE TerminalAssumption DEF IInv, ReturnTo, Caller, Goto, call, locks, stored
<1>1. Types'
  <2>1. 0 \in Vt /\ 0 \in 0..Width
    BY DEF Vt
  <2>2. CASE Caller(t) = "idle"
    <3>1. /\ pc' = [pc EXCEPT ![t] = "idle"] /\ on' = [on EXCEPT ![t] = 0]
          /\ piece' = [piece EXCEPT ![t] = "run"] /\ print' = [print EXCEPT ![t] = 0]
      BY <2>2
    <3> HIDE DEF Caller, ReturnTo, Goto
    <3> QED BY <2>1, <3>1 DEF Types, Steps
  <2>3. CASE Caller(t) = "next"
    BY <2>3 DEF Types, Steps
  <2> QED BY <2>2, <2>3
<1>2. Calls'
  BY DEF Types, Calls, Writing
<1>3. Locks'
  BY DEF Types, Locks, Writing
<1>4. Filled' /\ OwnTexts' /\ Unmixed'
  BY CellsKept DEF Types, Written
<1> QED BY <1>1, <1>2, <1>3, <1>4

\* The presses of keys and the steps of a thread that only move it on.
LEMMA ElsewhereIInv ==
  ASSUME IInv,
         \/ \E v \in Vt : PressF(v)
         \/ \E t \in Thread : NextPiece(t) \/ Test(t) \/ Cursor(t) \/ Draw(t) \/ Forget(t)
                                 \/ Switch(t) \/ Redraw(t)
         \/ UNCHANGED vars
  PROVE  IInv'
<1> USE DEF IInv, call, locks, stored, bounds
<1>1. CASE UNCHANGED vars \/ \E v \in Vt : PressF(v)
  <2>1. UNCHANGED <<locks, stored, asked, pc, on, piece, print>>
    BY <1>1 DEF vars, PressF
  <2>2. Types' /\ Calls' /\ Locks'
    BY <2>1 DEF Types, Calls, Locks
  <2>3. Filled' /\ OwnTexts' /\ Unmixed'
    BY <2>1, CellsKept DEF Types, Written
  <2> QED BY <2>2, <2>3
<1>2. ASSUME NEW t \in Thread,
             Test(t) \/ Cursor(t) \/ Draw(t) \/ Forget(t) \/ Switch(t) \/ Redraw(t)
      PROVE  IInv'
  <2>1. /\ UNCHANGED <<locks, stored, asked, on, piece, print>>
        /\ \E s \in Steps : /\ pc' = [pc EXCEPT ![t] = s]
                            /\ s \notin {"idle", "printlock", "next", "test"}
                            /\ pc[t] # "printlock"
                            /\ s \in {"writelock"} \cup Writing => pc[t] \in Writing
                            /\ s = "draw" => piece[t] # "run"
                            /\ s = "advance" => pc[t] = "draw" /\ piece[t] = "run"
    <3>1. CASE Test(t)
      <4>1. piece[t] # "run" /\ pc[t] = "test"
        BY <3>1 DEF Test, Calls
      <4>2. PICK s \in {"draw", "store"} : pc' = [pc EXCEPT ![t] = s]
        BY <3>1 DEF Test, Goto
      <4>3. UNCHANGED <<locks, stored, asked, on, piece, print>>
        BY <3>1 DEF Test
      <4> QED BY <4>1, <4>2, <4>3 DEF Steps, Writing
    <3>2. CASE Cursor(t)
      BY <3>2 DEF Cursor, Goto, Steps, Writing
    <3>3. CASE Draw(t)
      BY <3>3 DEF Draw, Goto, Steps, Writing
    <3>4. CASE Forget(t) \/ Switch(t) \/ Redraw(t)
      BY <3>4 DEF Forget, Switch, Redraw, Goto, Steps, Writing
    <3> QED BY <1>2, <3>1, <3>2, <3>3, <3>4
  <2>2. Types'
    BY <2>1 DEF Types
  <2>3. Calls'
    BY <2>1 DEF Types, Calls
  <2>4. Locks'
    BY <2>1 DEF Types, Locks, Writing
  <2>5. Filled' /\ OwnTexts' /\ Unmixed'
    BY <2>1, CellsKept DEF Types, Written
  <2> QED BY <2>2, <2>3, <2>4, <2>5
<1>3. ASSUME NEW t \in Thread, NextPiece(t) PROVE IInv'
  <2> USE <1>3 DEF NextPiece, Goto
  <2>1. Types'
    BY DEF Types, Steps
  <2>2. Calls'
    BY DEF Types, Calls, Writing
  <2>3. Locks'
    BY DEF Types, Locks, Writing
  <2>4. Filled' /\ OwnTexts' /\ Unmixed'
    BY CellsKept DEF Types, Written
  <2> QED BY <2>1, <2>2, <2>3, <2>4
<1> QED BY <1>1, <1>2, <1>3

\* The steps that begin a call, take and give back the locks, and end it.
LEMMA LocksIInv ==
  ASSUME IInv, NEW t \in Thread,
         PrintLength(t) \/ Putch(t) \/ LockPrint(t) \/ UnlockPrint(t) \/ LockWrite(t)
            \/ UnlockWrite(t)
  PROVE  IInv'
<1> USE TerminalAssumption DEF IInv, Goto, locks, stored, call, bounds
<1>1. CASE PrintLength(t)
  <2> USE <1>1 DEF PrintLength, PrintCalled
  <2>1. PICK v \in Vt, n \in 1..MaxPieces :
           /\ asked + n <= Width /\ asked' = asked + n
           /\ on' = [on EXCEPT ![t] = v] /\ print' = [print EXCEPT ![t] = asked']
    OBVIOUS
  <2>2. n \in Nat /\ n > 0 /\ asked \in Nat /\ asked' \in 0..Width /\ asked' > asked
    BY <2>1 DEF Types
  <2>3. Types'
    BY <2>1, <2>2 DEF Types, Steps
  <2>4. Calls'
    BY <2>1, <2>2 DEF Types, Calls, Writing
  <2>5. Locks'
    BY <2>1, <2>2 DEF Types, Locks, Writing
  <2>6. \A w \in Vt, i \in Cells : buffer[w][i] \in Int /\ buffer[w][i] <= asked
    BY DEF Types, Filled, Marks, Blank
  <2>7. Filled'
    BY <2>1, <2>2, <2>6 DEF Types, Filled, Written
  <2>8. OwnTexts'
    BY <2>1, <2>2, <2>6 DEF Types, OwnTexts
  <2>9. Unmixed'
    BY DEF Unmixed
  <2> QED BY <2>3, <2>4, <2>5, <2>7, <2>8, <2>9
<1>2. CASE Putch(t)
  <2> USE <1>2 DEF Putch
  <2>1. asked' \in 0..Width /\ asked' = asked + 1 /\ asked \in Nat
    BY DEF Types
  <2>2. Types'
    BY <2>1 DEF Types, Steps
  <2>3. Calls'
    BY <2>1 DEF Types, Calls, Writing
  <2>4. Locks'
    BY DEF Types, Locks, Writing
  <2>5. \A w \in Vt, i \in Cells : buffer[w][i] \in Int /\ buffer[w][i] <= asked
    BY DEF Types, Filled, Marks, Blank
  <2>6. Filled'
    BY <2>1, <2>5 DEF Types, Filled, Written
  <2>7. OwnTexts'
    BY DEF Types, OwnTexts
  <2>8. Unmixed'
    BY DEF Unmixed
  <2> QED BY <2>2, <2>3, <2>4, <2>6, <2>7, <2>8
<1>3. CASE LockPrint(t)
  <2> USE <1>3 DEF LockPrint
  <2>1. Types'
    BY DEF Types, Steps
  <2>2. Calls'
    BY DEF Types, Calls, Writing
  <2>3. Locks'
    BY DEF Types, Locks, Writing
  <2>4. Filled' /\ OwnTexts' /\ Unmixed'
    BY CellsKept DEF Types, Written
  <2> QED BY <2>1, <2>2, <2>3, <2>4
<1>4. CASE UnlockPrint(t)
  <2> USE <1>4 DEF UnlockPrint, ReturnTo
  <2>1. Types'
    <3>1. 0 \in Vt /\ 0 \in 0..Width
      BY DEF Vt
    <3> QED BY <3>1, ZenonT(60) DEF Types, Steps
  <2>2. Calls'
    BY DEF Types, Calls, Writing
  <2>3. print[t] > 0 /\ printlock[on[t]] = t
    BY DEF Calls, Locks
  <2>4. Locks'
    BY <2>3 DEF Types, Locks, Writing
  <2>5. Filled' /\ OwnTexts' /\ Unmixed'
    BY CellsKept DEF Types, Written
  <2> QED BY <2>1, <2>2, <2>4, <2>5
<1>5. CASE LockWrite(t)
  <2> USE <1>5 DEF LockWrite, MayWrite
  <2>1. PICK s \in {"store", "test", "cursor"} :
           pc' = [pc EXCEPT ![t] = s] /\ (s = "test" => piece[t] # "run")
    BY DEF Types
  <2>2. Types'
    BY <2>1 DEF Types, Steps
  <2>3. Calls'
    BY <2>1 DEF Types, Calls, Writing
  <2>4. Locks'
    BY <2>1 DEF Types, Locks, Writing
  <2>5. Filled' /\ OwnTexts' /\ Unmixed'
    BY <2>1, CellsKept DEF Types, Written
  <2> QED BY <2>2, <2>3, <2>4, <2>5
<1>6. CASE UnlockWrite(t)
  <2> USE <1>6 DEF UnlockWrite, WriteUnlocked
  <2>1. PICK s \in {"next", "eop"} :
           pc' = [pc EXCEPT ![t] = s] /\ (s = "next" => piece[t] = "run")
    OBVIOUS
  <2>2. Types'
    BY <2>1 DEF Types, Steps
  <2>3. Calls'
    BY <2>1 DEF Types, Calls, Writing
  <2>4. writelock[on[t]] = t
    BY DEF Locks, Writing
  <2>5. Locks'
    BY <2>1, <2>4 DEF Types, Locks, Writing
  <2>6. Filled' /\ OwnTexts' /\ Unmixed'
    BY <2>1, CellsKept DEF Types, Written
  <2> QED BY <2>2, <2>3, <2>5, <2>6
<1> QED BY <1>1, <1>2, <1>3, <1>4, <1>5, <1>6

\* A cell is written at the cursor of a terminal whose writelock the thread holds, and
\* printlock too if the cell is one of a text.
LEMMA StoreIInv ==
  ASSUME IInv, NEW t \in Thread, Store(t) PROVE IInv'
<1> USE TerminalAssumption DEF IInv, Goto, locks, call, bounds, Store
<1> DEFINE v == on[t]
<1>1. PICK s \in {"draw", "advance"} :
         pc' = [pc EXCEPT ![t] = s] /\ (s = "draw" => piece[t] = "run")
  OBVIOUS
<1>2. v \in Vt /\ cx[v] \in Nat /\ print[t] \in 0..Width /\ print[t] <= asked
  BY DEF Types, Calls
<1>3. \A w \in Vt, i \in Cells :
         buffer'[w][i] = IF w = v /\ i = cx[v] THEN print[t] ELSE buffer[w][i]
  BY <1>2 DEF Types, Mark
<1>4. Types'
  <2>1. print[t] \in Marks
    BY <1>2 DEF Marks
  <2> QED BY <1>1, <2>1 DEF Types, Steps, Mark
<1>5. Calls'
  BY <1>1 DEF Types, Calls, Writing
<1>6. Locks'
  BY <1>1 DEF Types, Locks, Writing
<1>7. \A u \in Thread : u # t /\ Written(u) => on[u] # v
  BY DEF Locks, Written, Writing
<1>8. Filled'
  <2>1. \A w \in Vt, i \in Cells : /\ i < cx'[w] => buffer'[w][i] # Blank
                                   /\ i > cx'[w] => buffer'[w][i] = Blank
                                   /\ buffer'[w][i] <= asked'
    BY <1>2, <1>3 DEF Filled, Blank, Cells
  <2>2. ASSUME NEW u \in Thread, Written(u)', cx'[on'[u]] \in Cells
        PROVE  buffer'[on'[u]][cx'[on'[u]]] # Blank
    <3>1. CASE u = t
      BY <1>2, <1>3, <2>2, <3>1 DEF Blank
    <3>2. CASE u # t
      BY <1>1, <1>3, <1>7, <2>2, <3>2 DEF Types, Filled, Written
    <3> QED BY <3>1, <3>2
  <2> QED BY <2>1, <2>2 DEF Filled
\* Nobody else has begun a text on the terminal, if the cell is one of a text.
<1>9. ASSUME NEW u \in Thread, u # t, print[u] > 0, print[t] > 0, on[u] = v
      PROVE  pc[u] = "printlock"
  BY <1>9 DEF Locks
<1>10. OwnTexts'
  <2>1. ASSUME NEW u \in Thread, NEW i \in Cells, pc'[u] = "printlock", NEW w \in Vt
        PROVE  buffer'[w][i] # print'[u]
    <3>1. u # t /\ pc[u] = "printlock" /\ print[u] > 0 /\ print[u] # print[t]
      BY <1>1, <2>1 DEF Types, Calls
    <3> QED BY <1>3, <3>1 DEF OwnTexts
  <2>2. ASSUME NEW u \in Thread, NEW i \in Cells, NEW j \in Cells, i < j,
               print'[u] > 0, buffer'[on'[u]][i] = print'[u]
        PROVE  buffer'[on'[u]][j] \in {Blank, 0, print'[u]}
    <3>1. on[u] \in Vt /\ on'[u] = on[u] /\ print'[u] = print[u]
      BY DEF Types
    <3>2. CASE on[u] # v
      BY <1>3, <2>2, <3>1, <3>2 DEF OwnTexts
    <3>3. CASE on[u] = v /\ i = cx[v]
      BY <1>2, <1>3, <2>2, <3>1, <3>3 DEF Filled, Cells
    <3>4. CASE on[u] = v /\ i # cx[v] /\ j # cx[v]
      BY <1>3, <2>2, <3>1, <3>4 DEF OwnTexts
    <3>5. CASE on[u] = v /\ i # cx[v] /\ j = cx[v]
      <4>1. buffer[v][i] = print[u]
        BY <1>2, <1>3, <2>2, <3>1, <3>5
      <4>2. pc[u] # "printlock"
        BY <1>2, <4>1 DEF OwnTexts
      <4>3. print[t] \in {0, print[u]}
        BY <1>2, <1>9, <2>2, <3>1, <3>5, <4>2
      <4> QED BY <1>2, <1>3, <3>1, <3>5, <4>3
    <3> QED BY <3>2, <3>3, <3>4, <3>5
  <2> QED BY <2>1, <2>2 DEF OwnTexts
<1>11. Unmixed'
  <2>1. ASSUME NEW w \in Vt, NEW i \in Cells, NEW j \in Cells, NEW k \in Cells,
               i < j, j < k, buffer'[w][i] > 0, buffer'[w][i] = buffer'[w][k]
        PROVE  buffer'[w][j] \in {0, buffer'[w][i]}
    <3>1. CASE w # v \/ (i # cx[v] /\ j # cx[v] /\ k # cx[v])
      BY <1>3, <2>1, <3>1 DEF Unmixed
    <3>2. CASE w = v /\ (i = cx[v] \/ j = cx[v])
      <4>1. k > cx[v] /\ buffer'[v][k] = Blank
        BY <1>2, <1>3, <2>1, <3>2 DEF Filled, Cells
      <4> QED BY <2>1, <3>2, <4>1 DEF Blank
    <3>3. CASE w = v /\ i # cx[v] /\ j # cx[v] /\ k = cx[v]
      <4>1. print[t] > 0 /\ buffer[v][i] = print[t] /\ buffer'[v][j] = buffer[v][j]
        BY <1>2, <1>3, <2>1, <3>3
      <4>2. buffer[v][j] \in {Blank, 0, print[t]}
        BY <1>2, <2>1, <4>1 DEF OwnTexts
      <4>3. buffer[v][j] # Blank
        BY <1>2, <2>1, <3>3 DEF Filled
      <4> QED BY <1>2, <1>3, <2>1, <3>3, <4>1, <4>2, <4>3
    <3> QED BY <3>1, <3>2, <3>3
  <2> QED BY <2>1 DEF Unmixed
<1> QED BY <1>4, <1>5, <1>6, <1>8, <1>10, <1>11

\* The cursor moves on over a cell that is written.
LEMMA AdvanceIInv ==
  ASSUME IInv, NEW t \in Thread, Advance(t) PROVE IInv'
<1> USE TerminalAssumption DEF IInv, Goto, locks, call, bounds, Advance, Advanced
<1> DEFINE v == on[t]
<1>1. v \in Vt /\ cx[v] \in Nat /\ cx' = [cx EXCEPT ![v] = cx[v] + 1]
  BY DEF Types
<1>2. Types'
  BY <1>1 DEF Types, Steps
<1>3. Calls'
  BY DEF Types, Calls, Writing
<1>4. Locks'
  BY DEF Types, Locks, Writing
<1>5. cx[v] \in Cells => buffer[v][cx[v]] # Blank
  BY DEF Filled, Written
<1>6. \A u \in Thread : u # t /\ Written(u) => on[u] # v
  BY DEF Locks, Written, Writing
<1>7. Filled'
  <2>1. \A w \in Vt, i \in Cells : /\ i < cx'[w] => buffer'[w][i] # Blank
                                   /\ i > cx'[w] => buffer'[w][i] = Blank
                                   /\ buffer'[w][i] <= asked'
    BY <1>1, <1>5 DEF Filled, Types, Cells
  <2>2. \A u \in Thread : Written(u)' => u # t /\ Written(u) /\ on'[u] = on[u]
    BY DEF Types, Written
  <2>3. \A u \in Thread : Written(u)' => cx'[on[u]] = cx[on[u]]
    BY <1>1, <1>6, <2>2 DEF Types
  <2> QED BY <2>1, <2>2, <2>3 DEF Filled
<1>8. OwnTexts' /\ Unmixed'
  BY DEF Types, OwnTexts, Unmixed
<1> QED BY <1>2, <1>3, <1>4, <1>7, <1>8

\* Every step preserves the invariant.
LEMMA NextIInv == IInv /\ [Next]_vars => IInv'
<1> SUFFICES ASSUME IInv, [Next]_vars PROVE IInv'
  OBVIOUS
<1>1. ASSUME NEW t \in Thread, DoEop(t) PROVE IInv'
  <2>1. CASE change_to_vt = NoChange
    BY <1>1, <2>1, Returns DEF DoEop, bounds
  <2>2. CASE change_to_vt # NoChange
    <3> USE <1>1, <2>2 DEF IInv, DoEop, Goto, locks, stored, call, bounds
    <3>1. Types'
      BY DEF Types, Steps
    <3>2. Calls'
      BY DEF Types, Calls, Writing
    <3>3. Locks'
      BY DEF Types, Locks, Writing
    <3>4. Filled' /\ OwnTexts' /\ Unmixed'
      BY CellsKept DEF Types, Written
    <3> QED BY <3>1, <3>2, <3>3, <3>4
  <2> QED BY <2>1, <2>2
<1>2. ASSUME NEW t \in Thread, Change(t) PROVE IInv'
  <2>1. CASE ReturnTo(t, Caller(t))
    BY <1>2, <2>1, Returns DEF Change, bounds
  <2>2. CASE Goto(t, "forget") /\ UNCHANGED call
    <3> USE <1>2, <2>2 DEF IInv, Change, Goto, locks, stored, call, bounds
    <3>1. Types'
      BY DEF Types, Steps
    <3>2. Calls'
      BY DEF Types, Calls, Writing
    <3>3. Locks'
      BY DEF Types, Locks, Writing
    <3>4. Filled' /\ OwnTexts' /\ Unmixed'
      BY CellsKept DEF Types, Written
    <3> QED BY <3>1, <3>2, <3>3, <3>4
  <2> QED BY <1>2, <2>1, <2>2 DEF Change
<1>3. ASSUME NEW t \in Thread, Locate(t) PROVE IInv'
  BY <1>3, Returns DEF Locate, bounds
<1> QED
  BY <1>1, <1>2, <1>3, ElsewhereIInv, LocksIInv, StoreIInv, AdvanceIInv DEF Next, Inside

\* The cells and cursors of the terminals, the locks and the calls agree in every
\* reachable state.
THEOREM Invariance == Spec => []IInv
<1>1. Init => IInv
  BY InitIInv
<1>2. IInv /\ [Next]_vars => IInv'
  BY NextIInv
<1> QED BY <1>1, <1>2, PTL DEF Spec

\* The texts of two calls of vt_print_length() on one terminal are never mixed, although
\* each gives up writelock between its pieces, and no cell is left blank in front of the
\* cursor.
THEOREM PrintsStayWhole == Spec => []PrintsAreWhole
<1>1. IInv => PrintsAreWhole
  BY DEF IInv, Filled, Unmixed, PrintsAreWhole
<1> QED BY <1>1, Invariance, PTL

-----------------------------------------------------------------------------
(* What the display shows.                                                 *)

\* As many numbers of each element of S as h has it.
Below(S, h) == {c \in S \X Nat : c[2] < h[c[1]]}

LEMMA BelowIs ==
  ASSUME NEW S, NEW h
  PROVE  \A c : c \in Below(S, h) <=> \E x \in S, k \in Nat : c = <<x, k>> /\ k < h[x]
  BY DEF Below

\* A pair for each number of an interval.
Column(x, m, n) == {<<x, m + k>> : k \in 0..(n - 1)}

LEMMA ColumnSize ==
  ASSUME NEW x, NEW m \in Nat, NEW n \in Nat
  PROVE  IsFiniteSet(Column(x, m, n)) /\ Cardinality(Column(x, m, n)) = n
<1>0. PICK C : C = {<<x, m + k>> : k \in 0..(n - 1)} /\ C = Column(x, m, n)
  BY DEF Column
<1> DEFINE f == [k \in 1..n |-> <<x, m + (k - 1)>>]
<1>1. f \in [1..n -> C]
  <2>1. \A k \in 1..n : k - 1 \in 0..(n - 1)
    OBVIOUS
  <2> QED BY <1>0, <2>1
<1>2. \A i, k \in 1..n : f[i] = f[k] => i = k
  OBVIOUS
<1>3. \A c \in C : \E k \in 1..n : f[k] = c
  <2> SUFFICES ASSUME NEW k \in 0..(n - 1) PROVE \E i \in 1..n : f[i] = <<x, m + k>>
    BY <1>0, ZenonT(60)
  <2>1. k + 1 \in 1..n /\ (k + 1) - 1 = k
    OBVIOUS
  <2> QED BY <2>1
<1>4. f \in Bijection(1..n, C)
  BY <1>1, <1>2, <1>3 DEF Bijection, Injection, Surjection, IsInjective
<1>5. IsFiniteSet(1..n) /\ Cardinality(1..n) = n
  BY FS_Interval
<1>6. PICK I : I = 1..n
  OBVIOUS
<1>7. IsFiniteSet(I) /\ Cardinality(I) = n /\ ExistsBijection(I, C)
  BY <1>4, <1>5, <1>6 DEF ExistsBijection
<1>8. IsFiniteSet(C) /\ Cardinality(C) = Cardinality(I)
  BY <1>7, FS_Bijection, ZenonT(60)
<1> QED BY <1>0, <1>7, <1>8

\* Fewer of each are fewer in all.
LEMMA BelowLess ==
  ASSUME NEW S, NEW h \in [S -> Nat], NEW g \in [S -> Nat], IsFiniteSet(Below(S, h)),
         \A x \in S : g[x] <= h[x]
  PROVE  IsFiniteSet(Below(S, g)) /\ Cardinality(Below(S, g)) <= Cardinality(Below(S, h))
<1>1. \A x \in S, k \in Nat : k < g[x] => k < h[x]
  OBVIOUS
<1>2. Below(S, g) \subseteq Below(S, h)
  BY <1>1 DEF Below
<1> QED BY <1>2, FS_Subset

\* More of one are more in all.
LEMMA BelowMore ==
  ASSUME NEW S, NEW h \in [S -> Nat], NEW g \in [S -> Nat], NEW x \in S, NEW n \in Nat,
         IsFiniteSet(Below(S, h)), g[x] = h[x] + n, \A y \in S \ {x} : g[y] = h[y]
  PROVE  /\ IsFiniteSet(Below(S, g))
         /\ Cardinality(Below(S, g)) = Cardinality(Below(S, h)) + n
<1>1. PICK m \in Nat : m = h[x]
  OBVIOUS
<1>2. PICK C : C = Column(x, m, n) /\ IsFiniteSet(C) /\ Cardinality(C) = n
  BY ColumnSize
<1>3. Below(S, g) = Below(S, h) \cup C
  <2>1. ASSUME NEW y \in S, NEW k \in Nat
        PROVE  <<y, k>> \in Below(S, g) <=> <<y, k>> \in Below(S, h) \cup C
    <3>1. CASE y # x
      <4>1. g[y] = h[y]
        BY <3>1
      <4>2. <<y, k>> \notin C
        BY <1>2, <3>1 DEF Column
      <4> QED BY <4>1, <4>2 DEF Below
    <3>2. CASE y = x
      <4>1. g[x] = m + n
        BY <1>1
      <4>2. <<x, k>> \in C <=> k >= m /\ k < m + n
        <5>1. ASSUME k >= m /\ k < m + n PROVE <<x, k>> \in C
          <6>1. k - m \in 0..(n - 1) /\ m + (k - m) = k
            BY <5>1
          <6> QED BY <1>2, <6>1 DEF Column
        <5>2. ASSUME <<x, k>> \in C PROVE k >= m /\ k < m + n
          <6>1. PICK j \in 0..(n - 1) : <<x, k>> = <<x, m + j>>
            BY <1>2, <5>2 DEF Column
          <6> QED BY <6>1
        <5> QED BY <5>1, <5>2
      <4>3. <<x, k>> \in Below(S, g) <=> k < m + n
        BY <4>1 DEF Below
      <4>4. <<x, k>> \in Below(S, h) <=> k < m
        BY <1>1 DEF Below
      <4> QED BY <3>2, <4>2, <4>3, <4>4
    <3> QED BY <3>1, <3>2
  <2>2. C \subseteq S \X Nat
    BY <1>1, <1>2 DEF Column
  <2>3. Below(S, g) \subseteq S \X Nat /\ Below(S, h) \subseteq S \X Nat
    BY DEF Below
  <2>4. \A c \in S \X Nat : \E y \in S, k \in Nat : c = <<y, k>>
    OBVIOUS
  <2>5. \A c \in S \X Nat : c \in Below(S, g) <=> c \in Below(S, h) \cup C
    BY <2>1, <2>4
  <2> QED BY <2>2, <2>3, <2>5
<1>4. Below(S, h) \cap C = {}
  <2>1. \A k \in 0..(n - 1) : ~(m + k < m)
    OBVIOUS
  <2> QED BY <1>1, <1>2, <2>1 DEF Below, Column
<1>5. /\ IsFiniteSet(Below(S, h) \cup C)
      /\ Cardinality(Below(S, h) \cup C)
            = Cardinality(Below(S, h)) + Cardinality(C) - Cardinality(Below(S, h) \cap C)
  BY <1>2, FS_Union
<1>6. Cardinality(Below(S, h) \cap C) = 0 /\ Cardinality(Below(S, h)) \in Nat
  BY <1>4, FS_EmptySet, FS_CardinalityType
<1> QED BY <1>2, <1>3, <1>5, <1>6

\* None is more than all.
LEMMA BelowHas ==
  ASSUME NEW S, NEW h \in [S -> Nat], NEW x \in S, IsFiniteSet(Below(S, h))
  PROVE  h[x] <= Cardinality(Below(S, h)) /\ Cardinality(Below(S, h)) \in Nat
<1> DEFINE g == [h EXCEPT ![x] = 0]
<1>1. g \in [S -> Nat] /\ \A y \in S : g[y] <= h[y]
  OBVIOUS
<1>2. IsFiniteSet(Below(S, g)) /\ Cardinality(Below(S, g)) \in Nat
  BY <1>1, BelowLess, FS_CardinalityType
<1>3. g[x] = 0 /\ h[x] = 0 + h[x] /\ h[x] \in Nat /\ \A y \in S \ {x} : h[y] = g[y]
  OBVIOUS
<1>4. Cardinality(Below(S, h)) = Cardinality(Below(S, g)) + h[x]
  <2> HIDE DEF g
  <2> QED BY <1>1, <1>2, <1>3, BelowMore
<1> QED BY <1>2, <1>3, <1>4

\* The pieces that each thread still prints.
Awaiting == [t \in Thread |->
    left[t] + (IF pc[t] \in {"writelock", "test", "draw", "store", "advance"} THEN 1 ELSE 0)]

Printed == Below(Vt, cx)
Awaited == Below(Thread, Awaiting)

\* No more cells are printed than asked for, which fit on the screen.
Fits ==
    /\ IsFiniteSet(Printed) /\ IsFiniteSet(Awaited)
    /\ Cardinality(Printed) + Cardinality(Awaited) <= asked

Lefts == left \in [Thread -> Nat] /\ \A t \in Thread : pc[t] = "idle" => left[t] = 0

\* The cursor is on the screen, and a thread that has a cell to write finds it there.
LEMMA FitsOnScreen ==
  ASSUME IInv, Lefts, Fits
  PROVE  /\ cx \in [Vt -> 0..Width]
         /\ \A t \in Thread, v \in Vt : pc[t] \in {"test", "draw", "store", "advance"} => cx[v] < Width
<1>1. cx \in [Vt -> Nat] /\ asked \in 0..Width /\ Width \in Nat
  BY TerminalAssumption DEF IInv, Types
<1>2. Awaiting \in [Thread -> Nat]
  BY DEF Lefts, Awaiting
<1>3. PICK p \in Nat, a \in Nat : p = Cardinality(Printed) /\ a = Cardinality(Awaited) /\ p + a <= asked
  BY FS_CardinalityType DEF Fits
<1>4. \A v \in Vt : cx[v] <= p
  <2> SUFFICES ASSUME NEW v \in Vt PROVE cx[v] <= p
    OBVIOUS
  <2>1. IsFiniteSet(Below(Vt, cx)) /\ p = Cardinality(Below(Vt, cx))
    BY <1>3 DEF Fits, Printed
  <2> QED BY <1>1, <2>1, BelowHas
<1>5. \A t \in Thread : Awaiting[t] <= a
  <2> SUFFICES ASSUME NEW t \in Thread PROVE Awaiting[t] <= a
    OBVIOUS
  <2>1. IsFiniteSet(Below(Thread, Awaiting)) /\ a = Cardinality(Below(Thread, Awaiting))
    BY <1>3 DEF Fits, Awaited
  <2> QED BY <1>2, <2>1, BelowHas
<1>6. \A t \in Thread : pc[t] \in {"test", "draw", "store", "advance"} => Awaiting[t] >= 1
  BY DEF Awaiting, Lefts
<1>7. \A t \in Thread, v \in Vt : pc[t] \in {"test", "draw", "store", "advance"} => cx[v] < Width
  <2> SUFFICES ASSUME NEW t \in Thread, NEW v \in Vt, pc[t] \in {"test", "draw", "store", "advance"}
               PROVE  cx[v] < Width
    OBVIOUS
  <2>1. Awaiting[t] >= 1 /\ Awaiting[t] <= a /\ Awaiting[t] \in Nat /\ cx[v] \in Nat /\ cx[v] <= p
    BY <1>1, <1>2, <1>4, <1>5, <1>6
  <2> QED BY <1>1, <1>3, <2>1
<1>8. \A v \in Vt : cx[v] \in 0..Width
  BY <1>1, <1>3, <1>4
<1> QED BY <1>1, <1>7, <1>8

\* A step that prints nothing and asks for nothing.
LEMMA FitsFewer ==
  ASSUME Lefts, Lefts', Fits, UNCHANGED <<cx, asked>>, cx \in [Vt -> Nat], asked \in Nat,
         \A t \in Thread : Awaiting'[t] <= Awaiting[t]
  PROVE  Fits'
<1>1. Awaiting \in [Thread -> Nat] /\ Awaiting' \in [Thread -> Nat]
  BY DEF Lefts, Awaiting
<1>2. IsFiniteSet(Below(Thread, Awaiting))
  BY DEF Fits, Awaited
<1>3. PICK f, g : f = Awaiting /\ g = Awaiting' /\ f \in [Thread -> Nat] /\ g \in [Thread -> Nat]
                  /\ \A t \in Thread : g[t] <= f[t]
  BY <1>1
<1>4. IsFiniteSet(Below(Thread, g)) /\ Cardinality(Below(Thread, g)) <= Cardinality(Below(Thread, f))
  BY <1>2, <1>3, BelowLess
<1>5. Awaited' = Below(Thread, g) /\ Awaited = Below(Thread, f)
  BY <1>3 DEF Awaited, Below
<1>6. Printed' = Printed
  BY DEF Printed, Below
<1>7. Cardinality(Printed) \in Nat /\ Cardinality(Awaited) \in Nat /\ Cardinality(Awaited') \in Nat
  BY <1>4, <1>5, FS_CardinalityType DEF Fits
<1> QED BY <1>4, <1>5, <1>6, <1>7 DEF Fits

\* A call asks for n cells.
LEMMA FitsAsked ==
  ASSUME Lefts, Lefts', Fits, UNCHANGED cx, asked \in Nat, NEW t \in Thread, NEW n \in Nat,
         asked' = asked + n, Awaiting'[t] = Awaiting[t] + n,
         \A u \in Thread \ {t} : Awaiting'[u] = Awaiting[u]
  PROVE  Fits'
<1>0. Awaiting \in [Thread -> Nat] /\ Awaiting' \in [Thread -> Nat]
  BY DEF Lefts, Awaiting
<1>1. PICK f : f = Awaiting /\ f \in [Thread -> Nat]
  BY <1>0
<1>2. PICK g : g = Awaiting' /\ g \in [Thread -> Nat] /\ g[t] = f[t] + n
               /\ \A u \in Thread \ {t} : g[u] = f[u]
  BY <1>0, <1>1
<1>3. IsFiniteSet(Below(Thread, f)) /\ Awaited = Below(Thread, f)
  BY <1>1 DEF Fits, Awaited
<1>4. IsFiniteSet(Below(Thread, g)) /\ Cardinality(Below(Thread, g)) = Cardinality(Below(Thread, f)) + n
  BY <1>1, <1>2, <1>3, BelowMore
<1>5. Awaited' = Below(Thread, g)
  BY <1>2 DEF Awaited, Below
<1>6. Printed' = Printed
  BY DEF Printed, Below
<1>7. Cardinality(Printed) \in Nat /\ Cardinality(Awaited) \in Nat
  BY FS_CardinalityType DEF Fits
<1> QED BY <1>3, <1>4, <1>5, <1>6, <1>7 DEF Fits

\* A thread moves the cursor over its cell.
LEMMA FitsPrinted ==
  ASSUME Lefts, Lefts', Fits, NEW v \in Vt, NEW t \in Thread, UNCHANGED asked, asked \in Nat,
         cx \in [Vt -> Nat], cx' \in [Vt -> Nat], cx'[v] = cx[v] + 1,
         \A w \in Vt \ {v} : cx'[w] = cx[w],
         Awaiting[t] = Awaiting'[t] + 1, \A u \in Thread \ {t} : Awaiting[u] = Awaiting'[u]
  PROVE  Fits'
<1>0. Awaiting \in [Thread -> Nat] /\ Awaiting' \in [Thread -> Nat]
  BY DEF Lefts, Awaiting
<1>1. PICK f, g : /\ f = Awaiting /\ g = Awaiting' /\ g \in [Thread -> Nat] /\ f \in [Thread -> Nat]
                  /\ f[t] = g[t] + 1 /\ \A u \in Thread \ {t} : f[u] = g[u]
  BY <1>0
<1>2. IsFiniteSet(Below(Thread, f)) /\ Awaited = Below(Thread, f) /\ Awaited' = Below(Thread, g)
  BY <1>1 DEF Fits, Awaited, Below
<1>3. IsFiniteSet(Below(Thread, g))
  <2>1. \A u \in Thread : g[u] <= f[u]
    <3> SUFFICES ASSUME NEW u \in Thread PROVE g[u] <= f[u]
      OBVIOUS
    <3> QED BY <1>1
  <2> QED BY <1>1, <1>2, <2>1, BelowLess
<1>4. Cardinality(Below(Thread, f)) = Cardinality(Below(Thread, g)) + 1
  BY <1>1, <1>3, BelowMore
<1>5. PICK c, h : /\ c = cx /\ h = cx' /\ c \in [Vt -> Nat] /\ h \in [Vt -> Nat]
                  /\ h[v] = c[v] + 1 /\ \A w \in Vt \ {v} : h[w] = c[w]
  OBVIOUS
<1>6. IsFiniteSet(Below(Vt, c)) /\ Printed = Below(Vt, c) /\ Printed' = Below(Vt, h)
  BY <1>5 DEF Fits, Printed, Below
<1>7. IsFiniteSet(Below(Vt, h)) /\ Cardinality(Below(Vt, h)) = Cardinality(Below(Vt, c)) + 1
  BY <1>5, <1>6, BelowMore
<1>8. Cardinality(Printed) \in Nat /\ Cardinality(Awaited') \in Nat
  BY <1>2, <1>3, FS_CardinalityType DEF Fits
<1> QED BY <1>2, <1>3, <1>4, <1>6, <1>7, <1>8 DEF Fits

\* A print asks for as many cells as it has pieces.
LEMMA PrintAsks ==
  ASSUME NEW t \in Thread, PrintLength(t)
  PROVE  \E n \in Nat : asked' = asked + n /\ left' = [left EXCEPT ![t] = n]
<1>1. PICK v \in Vt, n \in 1..MaxPieces : asked' = asked + n /\ left' = [left EXCEPT ![t] = n]
  BY DEF PrintLength
<1>2. n \in Nat
  BY TerminalAssumption
<1> QED BY <1>1, <1>2

\* The calls begin.
LEMMA FitsCalls ==
  ASSUME IInv, Lefts, Lefts', Fits, NEW t \in Thread, PrintLength(t) \/ Putch(t)
  PROVE  Fits'
<1>1. cx \in [Vt -> Nat] /\ asked \in Nat /\ UNCHANGED cx /\ pc \in [Thread -> Steps]
  BY DEF IInv, Types, PrintLength, Putch, stored
<1>2. Awaiting[t] = 0 /\ \A u \in Thread \ {t} : Awaiting'[u] = Awaiting[u]
  BY <1>1 DEF Awaiting, Lefts, PrintLength, PrintCalled, Putch, Goto
<1>3. \E n \in Nat : asked' = asked + n /\ Awaiting'[t] = n
  <2>1. CASE PrintLength(t)
    <3>1. PICK n \in Nat : asked' = asked + n /\ left' = [left EXCEPT ![t] = n]
      BY <2>1, PrintAsks
    <3>2. pc'[t] = "printlock" /\ left'[t] = n
      BY <1>1, <2>1, <3>1 DEF PrintLength, PrintCalled, Goto, Lefts
    <3> QED BY <3>1, <3>2 DEF Awaiting
  <2>2. CASE Putch(t)
    <3>1. asked' = asked + 1 /\ pc'[t] = "writelock" /\ left'[t] = 0
      BY <1>1, <2>2 DEF Putch, Goto, Lefts
    <3> QED BY <3>1 DEF Awaiting
  <2> QED BY <2>1, <2>2
<1> QED BY <1>1, <1>2, <1>3, FitsAsked

LEMMA LeftsKept ==
  ASSUME Lefts, pc \in [Thread -> Steps], NEW t \in Thread, UNCHANGED left,
         \E step \in Steps \ {"idle"} : Goto(t, step)
  PROVE  Lefts'
<1>1. PICK step : step # "idle" /\ pc' = [pc EXCEPT ![t] = step]
  BY DEF Goto
<1>2. \A u \in Thread : pc'[u] = "idle" => pc[u] = "idle"
  BY <1>1
<1> QED BY <1>2 DEF Lefts

\* Every step leaves the numbers of pieces as they have to be.
LEMMA LeftsNext == IInv /\ Lefts /\ [Next]_vars => Lefts'
<1> SUFFICES ASSUME IInv, Lefts, [Next]_vars PROVE Lefts'
  OBVIOUS
<1> USE DEF Lefts, Goto, call
<1>0. pc \in [Thread -> Steps]
  BY DEF IInv, Types
<1>1. ASSUME NEW t \in Thread, PrintLength(t) \/ Putch(t) PROVE Lefts'
  <2>1. PICK n \in Nat : left' = [left EXCEPT ![t] = n]
    BY <1>1, PrintAsks DEF Putch
  <2>2. PICK step \in {"printlock", "writelock"} : pc' = [pc EXCEPT ![t] = step]
    BY <1>1 DEF PrintLength, PrintCalled, Putch
  <2>3. left' \in [Thread -> Nat]
    BY <2>1
  <2>4. \A u \in Thread : pc'[u] = "idle" => left'[u] = 0
    BY <1>0, <2>1, <2>2
  <2> QED BY <2>3, <2>4
<1>2. ASSUME NEW t \in Thread, NextPiece(t) PROVE Lefts'
  BY <1>0, <1>2 DEF NextPiece
<1>3. ASSUME NEW t \in Thread, LockPrint(t) \/ LockWrite(t) \/ Cursor(t) \/ Test(t) PROVE Lefts'
  <2> HIDE DEF Lefts, Goto
  <2>1. \E step \in Steps \ {"idle"} : Goto(t, step)
    <3>1. LockPrint(t) => Goto(t, "next")
      BY DEF LockPrint
    <3>2. LockWrite(t) => \E step \in {"store", "test", "cursor"} : Goto(t, step)
      <4> USE DEF IInv, Types
      <4> QED BY DEF LockWrite
    <3>3. Cursor(t) => Goto(t, "unlock")
      BY DEF Cursor
    <3>4. Test(t) => \E step \in {"draw", "store"} : Goto(t, step)
      BY DEF Test
    <3> QED BY <1>3, <3>1, <3>2, <3>3, <3>4 DEF Steps
  <2>2. UNCHANGED left
    BY <1>3 DEF LockPrint, LockWrite, Cursor, Test
  <2> QED BY <1>0, <2>1, <2>2, LeftsKept
<1>4. ASSUME NEW t \in Thread, Draw(t) \/ Store(t) \/ Advance(t) \/ UnlockWrite(t) PROVE Lefts'
  BY <1>0, <1>4 DEF Draw, Store, Advance, UnlockWrite
<1>5. ASSUME NEW t \in Thread, Forget(t) \/ Switch(t) \/ Redraw(t) PROVE Lefts'
  BY <1>0, <1>5 DEF Forget, Switch, Redraw
<1>6. ASSUME NEW t \in Thread, UnlockPrint(t) \/ DoEop(t) \/ Change(t) \/ Locate(t) PROVE Lefts'
  BY <1>0, <1>6 DEF UnlockPrint, DoEop, Change, Locate, ReturnTo, Caller
<1>7. ASSUME NEW v \in Vt, PressF(v) PROVE Lefts'
  BY <1>7 DEF PressF
<1>8. CASE UNCHANGED vars
  BY <1>8 DEF vars
<1> QED BY <1>1, <1>2, <1>3, <1>4, <1>5, <1>6, <1>7, <1>8 DEF Next, Inside

\* Every step leaves what is printed and asked for on the screen.
LEMMA FitsNext == IInv /\ Lefts /\ Fits /\ [Next]_vars => Fits'
<1> SUFFICES ASSUME IInv, Lefts, Fits, [Next]_vars PROVE Fits'
  OBVIOUS
<1>0. pc \in [Thread -> Steps] /\ cx \in [Vt -> Nat] /\ asked \in Nat /\ on \in [Thread -> Vt]
  BY DEF IInv, Types
<1>a. Lefts'
  BY LeftsNext
<1>1. ASSUME NEW t \in Thread, PrintLength(t) \/ Putch(t) PROVE Fits'
  BY <1>1, <1>a, FitsCalls
<1>2. ASSUME NEW t \in Thread, Advance(t) PROVE Fits'
  <2>1. /\ UNCHANGED asked /\ on[t] \in Vt /\ cx' \in [Vt -> Nat] /\ cx'[on[t]] = cx[on[t]] + 1
        /\ \A w \in Vt \ {on[t]} : cx'[w] = cx[w]
    BY <1>0, <1>2 DEF Advance, Advanced, bounds
  <2>2. Awaiting[t] = Awaiting'[t] + 1 /\ \A u \in Thread \ {t} : Awaiting[u] = Awaiting'[u]
    BY <1>0, <1>2 DEF Advance, Goto, call, Awaiting, Lefts
  <2> QED BY <1>0, <1>a, <2>1, <2>2, FitsPrinted
<1>3. CASE \/ UNCHANGED vars \/ \E v \in Vt : PressF(v)
           \/ \E t \in Thread :
                 \/ LockPrint(t) \/ NextPiece(t) \/ UnlockPrint(t) \/ LockWrite(t) \/ Cursor(t)
                 \/ Test(t) \/ Draw(t) \/ Store(t) \/ UnlockWrite(t) \/ DoEop(t) \/ Change(t)
                 \/ Forget(t) \/ Switch(t) \/ Redraw(t) \/ Locate(t)
  <2>0. UNCHANGED <<cx, asked>>
    BY <1>3, ZenonT(60) DEF vars, stored, bounds, PressF, LockPrint, NextPiece, UnlockPrint, LockWrite, Cursor,
                Test, Draw, Store, UnlockWrite, DoEop, Change, Forget, Switch, Redraw, Locate
  <2>1. \A u \in Thread : Awaiting'[u] <= Awaiting[u]
    <3> USE DEF Awaiting, Lefts, Goto, call
    <3>1. CASE UNCHANGED vars \/ \E v \in Vt : PressF(v)
      BY <3>1 DEF vars, PressF
    <3>2. ASSUME NEW t \in Thread, NextPiece(t) PROVE \A u \in Thread : Awaiting'[u] <= Awaiting[u]
      BY <1>0, <3>2 DEF NextPiece
    <3>3. ASSUME NEW t \in Thread, LockPrint(t) \/ LockWrite(t) \/ Cursor(t) \/ Test(t)
          PROVE  \A u \in Thread : Awaiting'[u] <= Awaiting[u]
      BY <1>0, <3>3 DEF LockPrint, LockWrite, Cursor, Test
    <3>4. ASSUME NEW t \in Thread, Draw(t) \/ Store(t) \/ UnlockWrite(t)
          PROVE  \A u \in Thread : Awaiting'[u] <= Awaiting[u]
      BY <1>0, <3>4 DEF Draw, Store, UnlockWrite
    <3>5. ASSUME NEW t \in Thread, Forget(t) \/ Switch(t) \/ Redraw(t)
          PROVE  \A u \in Thread : Awaiting'[u] <= Awaiting[u]
      BY <1>0, <3>5 DEF Forget, Switch, Redraw
    <3>6. ASSUME NEW t \in Thread, UnlockPrint(t) \/ DoEop(t) \/ Change(t) \/ Locate(t)
          PROVE  \A u \in Thread : Awaiting'[u] <= Awaiting[u]
      BY <1>0, <3>6 DEF UnlockPrint, DoEop, Change, Locate, ReturnTo, Caller
    <3> QED BY <1>3, <3>1, <3>2, <3>3, <3>4, <3>5, <3>6
  <2> QED BY <1>0, <1>a, <2>0, <2>1, FitsFewer
<1> QED BY <1>1, <1>2, <1>3 DEF Next, Inside

DisplayTypes ==
    /\ cur_vt \in Vt /\ change_to_vt \in Vt \cup {NoChange}
    /\ vt_num \in [Thread -> Vt \cup {NoChange}]
    /\ \A t \in Thread : pc[t] \in {"change", "forget", "switch"} => vt_num[t] \in Vt
    /\ screen \in [Cells -> Marks] /\ at \in 0..Width

Redrawing   == \E t \in Thread : pc[t] = "redraw"
Locating    == \E t \in Thread : pc[t] = "locate"
OnScreen(t) == pc[t] \in Writing /\ on[t] = cur_vt

\* The steps all this is about.
Watched == Writing \cup {"redraw", "locate"}

\* Whether t has drawn its cell, and whether it has drawn or stored it but not both.
Drawn(t) == pc[t] = "advance" \/ (pc[t] = "store" /\ piece[t] # "run")
Half(t)  == (pc[t] = "draw" /\ piece[t] = "run") \/ (pc[t] = "store" /\ piece[t] # "run")

\* The display shows the current terminal when nobody writes on it, but for the cursor
\* that is still to be set.
ShowsAtRest ==
    (\A t \in Thread : ~OnScreen(t)) =>
        /\ \A i \in Cells : screen[i] = buffer[cur_vt][i]
        /\ Locating \/ at = cx[cur_vt]

\* A thread that writes on the current terminal is ahead on the display or in the buffer
\* by no more than its cell.
ShowsMidway(t) ==
    OnScreen(t) =>
        /\ \A i \in Cells : (Half(t) => i # cx[cur_vt]) => screen[i] = buffer[cur_vt][i]
        /\ pc[t] = "draw" /\ Half(t) => buffer[cur_vt][cx[cur_vt]] = Mark(t)
        /\ pc[t] = "store" /\ Half(t) => screen[cx[cur_vt]] = Mark(t)
        /\ IF Drawn(t) THEN at = cx[cur_vt] + 1 ELSE Locating \/ at = cx[cur_vt]

Shows == ShowsAtRest /\ \A t \in Thread : ShowsMidway(t)
Shown == mishaps = {} /\ ~Redrawing => Shows

\* The initial state satisfies all that.
LEMMA InitDisplay == Init => Lefts /\ Fits /\ DisplayTypes /\ Shown
<1> SUFFICES ASSUME Init PROVE Lefts /\ Fits /\ DisplayTypes /\ Shown
  OBVIOUS
<1> USE TerminalAssumption DEF Init, Vt, Cells, Marks, Blank
<1>1. Lefts
  BY DEF Lefts
<1>2. Fits
  <2>1. Printed = {}
    BY DEF Printed, Below
  <2>2. Awaited = {}
    BY DEF Awaited, Below, Awaiting
  <2> QED BY <2>1, <2>2, FS_EmptySet DEF Fits
<1>3. DisplayTypes
  BY DEF DisplayTypes
<1>4. Shown
  BY DEF Shown, Shows, ShowsAtRest, ShowsMidway, OnScreen, Writing
<1> QED BY <1>1, <1>2, <1>3, <1>4

\* Where a call returns to.
LEMMA ReturnTypes ==
  ASSUME DisplayTypes, NEW t \in Thread, pc \in [Thread -> Steps], ReturnTo(t, Caller(t))
  PROVE  /\ vt_num' \in [Thread -> Vt \cup {NoChange}]
         /\ \A u \in Thread : pc'[u] \in {"change", "forget", "switch"} => vt_num'[u] \in Vt
<1>1. Caller(t) \in {"next", "idle"}
  BY DEF Caller
<1>2. PICK step \in {"next", "idle"} :
         pc' = [pc EXCEPT ![t] = step] /\ vt_num' = [vt_num EXCEPT ![t] = NoChange]
  BY <1>1 DEF ReturnTo, Goto
<1> QED BY <1>2 DEF DisplayTypes

\* Every step keeps the types.
LEMMA DisplayTypesNext == IInv /\ Lefts /\ Fits /\ DisplayTypes /\ [Next]_vars => DisplayTypes'
<1> SUFFICES ASSUME IInv, Lefts, Fits, DisplayTypes, [Next]_vars PROVE DisplayTypes'
  OBVIOUS
<1>0. /\ pc \in [Thread -> Steps] /\ cx \in [Vt -> 0..Width] /\ on \in [Thread -> Vt]
      /\ buffer \in [Vt -> [Cells -> Marks]] /\ print \in [Thread -> 0..Width]
  BY FitsOnScreen DEF IInv, Types
<1> USE DEF Goto, shared, shown
<1>1. ASSUME NEW t \in Thread,
             \/ PrintLength(t) \/ Putch(t) \/ LockPrint(t) \/ NextPiece(t) \/ LockWrite(t) \/ Test(t)
             \/ Store(t) \/ Advance(t) \/ UnlockWrite(t)
      PROVE  DisplayTypes'
  <2>1. UNCHANGED <<cur_vt, change_to_vt, vt_num, screen, at>>
    BY <1>1 DEF PrintLength, Putch, LockPrint, NextPiece, LockWrite, Test, Store, Advance, UnlockWrite
  <2>2. \A u \in Thread : pc'[u] \in {"change", "forget", "switch"} => pc'[u] = pc[u]
    <3>1. CASE PrintLength(t) \/ Putch(t) \/ LockPrint(t) \/ NextPiece(t)
      BY <1>0, <3>1 DEF PrintLength, PrintCalled, Putch, LockPrint, NextPiece
    <3>2. CASE LockWrite(t)
      <4>1. PICK step \in {"store", "test", "cursor"} : pc' = [pc EXCEPT ![t] = step]
        BY <3>2 DEF LockWrite, IInv, Types
      <4> QED BY <1>0, <4>1
    <3>3. CASE Test(t)
      <4>1. PICK step \in {"draw", "store"} : pc' = [pc EXCEPT ![t] = step]
        BY <3>3 DEF Test
      <4> QED BY <1>0, <4>1
    <3>4. CASE Store(t) \/ Advance(t) \/ UnlockWrite(t)
      BY <1>0, <3>4 DEF Store, Advance, UnlockWrite
    <3> QED BY <1>1, <3>1, <3>2, <3>3, <3>4
  <2> QED BY <2>1, <2>2 DEF DisplayTypes
<1>2. ASSUME NEW t \in Thread, UnlockPrint(t) PROVE DisplayTypes'
  BY <1>0, <1>2 DEF UnlockPrint, ReturnTo, DisplayTypes
<1>3. ASSUME NEW t \in Thread, Draw(t) PROVE DisplayTypes'
  <2>1. at' \in 0..Width
    BY <1>3, TerminalAssumption DEF Draw, CursorMoved, DisplayTypes
  <2>2. screen' \in [Cells -> Marks]
    <3>1. Mark(t) \in Marks
      BY <1>0 DEF Mark, Marks
    <3> QED BY <1>3, <3>1 DEF Draw, DisplayTypes
  <2>3. UNCHANGED <<cur_vt, change_to_vt, vt_num>>
    BY <1>3 DEF Draw
  <2>4. \A u \in Thread : pc'[u] \in {"change", "forget", "switch"} => pc'[u] = pc[u]
    <3>1. PICK step \in {"advance", "store"} : pc' = [pc EXCEPT ![t] = step]
      BY <1>3 DEF Draw
    <3> QED BY <1>0, <3>1
  <2> QED BY <2>1, <2>2, <2>3, <2>4 DEF DisplayTypes
<1>4. ASSUME NEW t \in Thread, Cursor(t) \/ Redraw(t) PROVE DisplayTypes'
  <2>1. at' \in 0..Width /\ screen' \in [Cells -> Marks]
    BY <1>0, <1>4, TerminalAssumption DEF Cursor, Redraw, DisplayTypes
  <2>2. UNCHANGED <<cur_vt, change_to_vt, vt_num>>
    BY <1>4 DEF Cursor, Redraw
  <2>3. \A u \in Thread : pc'[u] \in {"change", "forget", "switch"} => pc'[u] = pc[u]
    BY <1>0, <1>4 DEF Cursor, Redraw
  <2> QED BY <2>1, <2>2, <2>3 DEF DisplayTypes
<1>5. ASSUME NEW t \in Thread, Locate(t) PROVE DisplayTypes'
  BY <1>0, <1>5, ReturnTypes DEF Locate, DisplayTypes
<1>6. ASSUME NEW t \in Thread, DoEop(t) PROVE DisplayTypes'
  <2>1. CASE ReturnTo(t, Caller(t))
    BY <1>0, <1>6, <2>1, ReturnTypes DEF DoEop, DisplayTypes
  <2>2. CASE ~ReturnTo(t, Caller(t))
    BY <1>0, <1>6, <2>2 DEF DoEop, DisplayTypes
  <2> QED BY <2>1, <2>2
<1>7. ASSUME NEW t \in Thread, Change(t) PROVE DisplayTypes'
  <2>0. UNCHANGED <<cur_vt, screen, at>> /\ change_to_vt' \in {change_to_vt, vt_num[t]}
    BY <1>7 DEF Change
  <2>1. CASE ReturnTo(t, Caller(t))
    BY <1>0, <1>7, <2>0, <2>1, ReturnTypes DEF DisplayTypes
  <2>2. CASE ~ReturnTo(t, Caller(t))
    BY <1>0, <1>7, <2>2 DEF Change, DisplayTypes
  <2> QED BY <2>1, <2>2
<1>8. ASSUME NEW t \in Thread, Forget(t) \/ Switch(t) PROVE DisplayTypes'
  BY <1>0, <1>8 DEF Forget, Switch, DisplayTypes
<1>9. ASSUME NEW v \in Vt, PressF(v) PROVE DisplayTypes'
  BY <1>0, <1>9 DEF PressF, DisplayTypes
<1>10. CASE UNCHANGED vars
  BY <1>10 DEF vars, DisplayTypes
<1> QED BY <1>1, <1>2, <1>3, <1>4, <1>5, <1>6, <1>7, <1>8, <1>9, <1>10 DEF Next, Inside

\* The thread that writes on a terminal holds its lock, and is the only one.
LEMMA Writers ==
  ASSUME IInv, NEW t \in Thread, pc[t] \in Writing
  PROVE  /\ writelock[on[t]] = t /\ writelock[on[t]] # Nobody
         /\ \A u \in Thread : pc[u] \in Writing /\ on[u] = on[t] => u = t
  BY TerminalAssumption DEF IInv, Locks

\* A thread that is where it was, and so is what the display shows of it.
LEMMA MidwayKept ==
  ASSUME NEW u \in Thread, ShowsMidway(u), UNCHANGED <<screen, at, cur_vt>>,
         buffer'[cur_vt] = buffer[cur_vt], cx'[cur_vt] = cx[cur_vt], Locating' <=> Locating,
         pc'[u] = pc[u], on'[u] = on[u], piece'[u] = piece[u], print'[u] = print[u]
  PROVE  ShowsMidway(u)'
<1>1. (Half(u)' <=> Half(u)) /\ (Drawn(u)' <=> Drawn(u)) /\ Mark(u)' = Mark(u)
  BY DEF Half, Drawn, Mark
<1>2. OnScreen(u)' <=> OnScreen(u)
  BY DEF OnScreen
<1> QED BY <1>1, <1>2 DEF ShowsMidway

\* A step of a thread that changes nothing of all that, and is neither among the steps
\* it is about before nor behind it.
LEMMA ShownKept ==
  ASSUME Shown, UNCHANGED <<screen, at, buffer, cx, cur_vt, mishaps>>,
         \A u \in Thread :
            pc[u] \in Watched \/ pc'[u] \in Watched
               => pc'[u] = pc[u] /\ on'[u] = on[u] /\ piece'[u] = piece[u] /\ print'[u] = print[u]
  PROVE  Shown'
<1> SUFFICES ASSUME mishaps = {}, ~Redrawing' PROVE Shows'
  BY DEF Shown
<1>1. ~Redrawing /\ (Locating' <=> Locating)
  BY DEF Redrawing, Locating, Watched
<1>2. Shows
  BY <1>1 DEF Shown
<1>3. \A u \in Thread : OnScreen(u)' <=> OnScreen(u)
  BY DEF OnScreen, Watched
<1>4. ShowsAtRest'
  BY <1>1, <1>2, <1>3 DEF Shows, ShowsAtRest
<1>5. ASSUME NEW u \in Thread, OnScreen(u)' PROVE ShowsMidway(u)'
  <2>1. pc'[u] = pc[u] /\ on'[u] = on[u] /\ piece'[u] = piece[u] /\ print'[u] = print[u]
    BY <1>5 DEF OnScreen, Watched
  <2>2. ShowsMidway(u)
    BY <1>2 DEF Shows
  <2> QED BY <1>1, <2>1, <2>2, MidwayKept
<1>6. \A u \in Thread : ~OnScreen(u)' => ShowsMidway(u)'
  BY DEF ShowsMidway
<1> QED BY <1>4, <1>5, <1>6 DEF Shows

\* The steps outside the locks.
LEMMA ShownElsewhere ==
  ASSUME IInv, Shown, NEW t \in Thread,
         \/ PrintLength(t) \/ Putch(t) \/ LockPrint(t) \/ NextPiece(t) \/ UnlockPrint(t)
         \/ DoEop(t) \/ Change(t) \/ Forget(t)
  PROVE  Shown'
<1>0. /\ pc \in [Thread -> Steps] /\ on \in [Thread -> Vt] /\ print \in [Thread -> 0..Width]
      /\ piece \in [Thread -> {"run", "char", "control"}]
  BY DEF IInv, Types
<1>1. UNCHANGED <<screen, at, buffer, cx, cur_vt, mishaps>>
  BY DEF PrintLength, Putch, LockPrint, NextPiece, UnlockPrint, DoEop, Change, Forget,
            shown, stored, shared
<1>2. PICK step \in {"idle", "printlock", "next", "writelock", "change", "forget", "switch"} :
         pc' = [pc EXCEPT ![t] = step]
  <2> USE DEF Goto
  <2>1. CASE PrintLength(t) \/ Putch(t) \/ LockPrint(t) \/ NextPiece(t) \/ Forget(t)
    BY <2>1 DEF PrintLength, PrintCalled, Putch, LockPrint, NextPiece, Forget
  <2>2. CASE UnlockPrint(t)
    BY <2>2 DEF UnlockPrint, ReturnTo
  <2>3. Caller(t) \in {"next", "idle"}
    BY DEF Caller
  <2>4. CASE DoEop(t) \/ Change(t)
    BY <2>3, <2>4 DEF DoEop, Change, ReturnTo
  <2> QED BY <2>1, <2>2, <2>4
<1>3. pc[t] \notin Watched
  BY DEF PrintLength, Putch, LockPrint, NextPiece, UnlockPrint, DoEop, Change, Forget, Writing,
            Watched
<1>4. step \notin Watched
  BY DEF Writing, Watched
<1>5. pc'[t] = step /\ \A u \in Thread \ {t} : pc'[u] = pc[u]
  BY <1>0, <1>2
<1>6. \A u \in Thread \ {t} : on'[u] = on[u] /\ piece'[u] = piece[u] /\ print'[u] = print[u]
  <2> USE DEF call
  <2>1. CASE PrintLength(t)
    BY <1>0, <2>1 DEF PrintLength
  <2>2. CASE Putch(t) \/ NextPiece(t)
    BY <1>0, <2>2 DEF Putch, NextPiece
  <2>3. CASE LockPrint(t) \/ Forget(t)
    BY <2>3 DEF LockPrint, Forget
  <2>4. CASE UnlockPrint(t)
    BY <1>0, <2>4 DEF UnlockPrint, ReturnTo
  <2>5. CASE DoEop(t) \/ Change(t)
    <3>1. \/ UNCHANGED call
          \/ ReturnTo(t, Caller(t))
      BY <2>5 DEF DoEop, Change
    <3> QED BY <1>0, <3>1 DEF ReturnTo
  <2> QED BY <2>1, <2>2, <2>3, <2>4, <2>5
<1>7. \A u \in Thread :
         pc[u] \in Watched \/ pc'[u] \in Watched
               => pc'[u] = pc[u] /\ on'[u] = on[u] /\ piece'[u] = piece[u] /\ print'[u] = print[u]
  BY <1>3, <1>4, <1>5, <1>6
<1> QED BY <1>1, <1>7, ShownKept

\* A thread begins to write on a terminal that nobody writes on.
LEMMA ShownLockWrite == ASSUME IInv, Shown, NEW t \in Thread, LockWrite(t) PROVE Shown'
<1>0. pc \in [Thread -> Steps]
  BY DEF IInv, Types
<1> SUFFICES ASSUME mishaps' = {}, ~Redrawing' PROVE Shows'
  BY DEF Shown
<1>1. /\ UNCHANGED <<screen, at, buffer, cx, cur_vt, mishaps, on, piece, print>>
      /\ pc[t] = "writelock" /\ writelock[on[t]] = Nobody
      /\ \A u \in Thread \ {t} : pc'[u] = pc[u]
      /\ pc'[t] \in {"store", "test", "cursor"} /\ (piece[t] = "run" <=> pc'[t] = "store")
  <2>1. PICK step : /\ pc' = [pc EXCEPT ![t] = step] /\ step \in {"store", "test", "cursor"}
                    /\ (piece[t] = "run" <=> step = "store")
    <3>1. piece[t] \in {"run", "char", "control"}
      BY DEF IInv, Types
    <3>2. PICK step : /\ pc' = [pc EXCEPT ![t] = step]
                      /\ step = CASE piece[t] = "run"     -> "store"
                                  [] piece[t] = "char"    -> "test"
                                  [] piece[t] = "control" -> "cursor"
      BY DEF LockWrite, Goto
    <3>3. (piece[t] = "run" => step = "store") /\ (piece[t] = "char" => step = "test")
          /\ (piece[t] = "control" => step = "cursor")
      BY <3>2
    <3> QED BY <3>1, <3>2, <3>3
  <2>2. UNCHANGED <<screen, at, buffer, cx, cur_vt, mishaps, on, piece, print>>
    BY DEF LockWrite, shared, shown, stored, call
  <2>3. pc[t] = "writelock" /\ writelock[on[t]] = Nobody
    BY DEF LockWrite, MayWrite
  <2> QED BY <1>0, <2>1, <2>2, <2>3
<1>2. ~Redrawing /\ (Locating' <=> Locating)
  BY <1>1 DEF Redrawing, Locating
<1>3. ShowsAtRest /\ \A u \in Thread : ShowsMidway(u)
  BY <1>1, <1>2 DEF Shown, Shows
<1>4. \A u \in Thread : ~(pc[u] \in Writing /\ on[u] = on[t])
  BY <1>1, Writers
<1>5. \A u \in Thread \ {t} : OnScreen(u)' <=> OnScreen(u)
  BY <1>1 DEF OnScreen
<1>6. ~OnScreen(t)
  BY <1>1 DEF OnScreen, Writing
<1>7. ShowsAtRest'
  <2> SUFFICES ASSUME \A u \in Thread : ~OnScreen(u)' PROVE ShowsAtRest'
    BY DEF ShowsAtRest
  <2>1. \A u \in Thread : ~OnScreen(u)
    BY <1>5, <1>6
  <2> QED BY <1>1, <1>2, <1>3, <2>1 DEF ShowsAtRest
<1>8. ShowsMidway(t)'
  <2> SUFFICES ASSUME OnScreen(t)' PROVE ShowsMidway(t)'
    BY DEF ShowsMidway
  <2>1. on[t] = cur_vt
    BY <1>1 DEF OnScreen
  <2>2. \A u \in Thread : ~OnScreen(u)
    BY <1>4, <2>1 DEF OnScreen
  <2>3. ~Half(t)' /\ ~Drawn(t)'
    BY <1>1 DEF Half, Drawn
  <2> QED BY <1>1, <1>2, <1>3, <2>2, <2>3 DEF ShowsMidway, ShowsAtRest
<1>9. ASSUME NEW u \in Thread, u # t PROVE ShowsMidway(u)'
  BY <1>1, <1>2, <1>3, <1>9, MidwayKept
<1> QED BY <1>7, <1>8, <1>9 DEF Shows

\* vt_putch() draws if its terminal is the current one.
LEMMA ShownTest == ASSUME IInv, Shown, NEW t \in Thread, Test(t) PROVE Shown'
<1>0. pc \in [Thread -> Steps]
  BY DEF IInv, Types
<1> SUFFICES ASSUME mishaps' = {}, ~Redrawing' PROVE Shows'
  BY DEF Shown
<1>1. /\ UNCHANGED <<screen, at, buffer, cx, cur_vt, mishaps, on, piece, print>>
      /\ pc[t] = "test" /\ \A u \in Thread \ {t} : pc'[u] = pc[u]
      /\ pc'[t] = IF on[t] = cur_vt THEN "draw" ELSE "store"
  BY <1>0 DEF Test, Goto, shared, shown, stored, call
<1>2. ~Redrawing /\ (Locating' <=> Locating)
  BY <1>1 DEF Redrawing, Locating
<1>3. ShowsAtRest /\ \A u \in Thread : ShowsMidway(u)
  BY <1>1, <1>2 DEF Shown, Shows
<1>4. \A u \in Thread : OnScreen(u)' <=> OnScreen(u)
  BY <1>1 DEF OnScreen, Writing
<1>5. ShowsAtRest'
  BY <1>1, <1>2, <1>3, <1>4 DEF ShowsAtRest
<1>6. ShowsMidway(t)'
  <2> SUFFICES ASSUME OnScreen(t)' PROVE ShowsMidway(t)'
    BY DEF ShowsMidway
  <2>1. pc'[t] = "draw" /\ piece[t] # "run" /\ OnScreen(t)
    BY <1>1, <1>4 DEF OnScreen, IInv, Calls, Writing
  <2>2. ~Half(t) /\ ~Half(t)' /\ ~Drawn(t) /\ ~Drawn(t)'
    BY <1>1, <2>1 DEF Half, Drawn
  <2> QED BY <1>1, <1>2, <1>3, <2>1, <2>2 DEF ShowsMidway
<1>7. ASSUME NEW u \in Thread, u # t PROVE ShowsMidway(u)'
  BY <1>1, <1>2, <1>3, <1>7, MidwayKept
<1> QED BY <1>5, <1>6, <1>7 DEF Shows

\* A thread that has drawn and stored its cell stops writing.
LEMMA ShownUnlockWrite == ASSUME IInv, Shown, NEW t \in Thread, UnlockWrite(t) PROVE Shown'
<1>0. pc \in [Thread -> Steps]
  BY DEF IInv, Types
<1> SUFFICES ASSUME mishaps' = {}, ~Redrawing' PROVE Shows'
  BY DEF Shown
<1>1. /\ UNCHANGED <<screen, at, buffer, cx, cur_vt, mishaps, on, piece, print>>
      /\ pc[t] = "unlock" /\ \A u \in Thread \ {t} : pc'[u] = pc[u]
      /\ pc'[t] \in {"next", "eop"}
  BY <1>0 DEF UnlockWrite, Goto, shared, shown, stored, call
<1>2. ~Redrawing /\ (Locating' <=> Locating)
  BY <1>1 DEF Redrawing, Locating
<1>3. ShowsAtRest /\ \A u \in Thread : ShowsMidway(u)
  BY <1>1, <1>2 DEF Shown, Shows
<1>4. \A u \in Thread \ {t} : OnScreen(u)' <=> OnScreen(u)
  BY <1>1 DEF OnScreen
<1>5. ~OnScreen(t)'
  BY <1>1 DEF OnScreen, Writing
<1>6. ShowsAtRest'
  <2> SUFFICES ASSUME \A u \in Thread : ~OnScreen(u)' PROVE ShowsAtRest'
    BY DEF ShowsAtRest
  <2>1. CASE OnScreen(t)
    <3>1. ~Half(t) /\ ~Drawn(t)
      BY <1>1 DEF Half, Drawn
    <3> QED BY <1>1, <1>2, <1>3, <2>1, <3>1 DEF ShowsMidway, ShowsAtRest
  <2>2. CASE ~OnScreen(t)
    <3>1. \A u \in Thread : ~OnScreen(u)
      BY <1>4, <2>2
    <3> QED BY <1>1, <1>2, <1>3, <3>1 DEF ShowsAtRest
  <2> QED BY <2>1, <2>2
<1>7. ShowsMidway(t)'
  BY <1>5 DEF ShowsMidway
<1>8. ASSUME NEW u \in Thread, u # t PROVE ShowsMidway(u)'
  BY <1>1, <1>2, <1>3, <1>8, MidwayKept
<1> QED BY <1>6, <1>7, <1>8 DEF Shows

\* The display's cursor is set to that of the current terminal, which nobody else writes on.
LEMMA ShownCursor == ASSUME IInv, Shown, NEW t \in Thread, Cursor(t) PROVE Shown'
<1>0. pc \in [Thread -> Steps]
  BY DEF IInv, Types
<1> SUFFICES ASSUME mishaps' = {}, ~Redrawing' PROVE Shows'
  BY DEF Shown
<1>1. /\ UNCHANGED <<screen, buffer, cx, cur_vt, on, piece, print>> /\ at' = cx[cur_vt]
      /\ pc[t] = "cursor" /\ \A u \in Thread \ {t} : pc'[u] = pc[u]
      /\ pc'[t] = "unlock"
  BY <1>0 DEF Cursor, Goto, shared, stored, call
<1>2. mishaps = {} /\ writelock[cur_vt] \in {t, Nobody}
  BY DEF Cursor, SetUnder
<1>3. ~Redrawing
  BY <1>1 DEF Redrawing
<1>4. ShowsAtRest /\ \A u \in Thread : ShowsMidway(u)
  BY <1>2, <1>3 DEF Shown, Shows
<1>5. \A u \in Thread : OnScreen(u) => u = t
  BY <1>2, Writers DEF OnScreen
<1>6. \A u \in Thread : OnScreen(u)' <=> OnScreen(u)
  BY <1>1 DEF OnScreen, Writing
<1>7. ShowsAtRest'
  BY <1>1, <1>4, <1>6 DEF ShowsAtRest
<1>8. ShowsMidway(t)'
  <2>1. ~Half(t) /\ ~Half(t)' /\ ~Drawn(t)'
    BY <1>1 DEF Half, Drawn
  <2> QED BY <1>1, <1>4, <1>6, <2>1 DEF ShowsMidway
<1>9. \A u \in Thread \ {t} : ShowsMidway(u)'
  BY <1>5, <1>6 DEF ShowsMidway
<1> QED BY <1>7, <1>8, <1>9 DEF Shows

\* A thread draws its cell at the cursor.
LEMMA ShownDraw ==
  ASSUME IInv, Lefts, Fits, DisplayTypes, Shown, NEW t \in Thread, Draw(t) PROVE Shown'
<1>0. /\ pc \in [Thread -> Steps] /\ cx \in [Vt -> 0..Width] /\ cur_vt \in Vt /\ cx[cur_vt] < Width
      /\ Width \in Nat /\ screen \in [Cells -> Marks]
  BY FitsOnScreen, TerminalAssumption DEF IInv, Types, DisplayTypes, Draw
<1> SUFFICES ASSUME mishaps' = {}, ~Redrawing' PROVE Shows'
  BY DEF Shown
<1>1. /\ UNCHANGED <<buffer, cx, cur_vt, on, piece, print>> /\ pc[t] = "draw"
      /\ \A u \in Thread \ {t} : pc'[u] = pc[u]
      /\ pc'[t] = IF piece[t] = "run" THEN "advance" ELSE "store"
      /\ screen' = [i \in Cells |-> IF i = at THEN Mark(t) ELSE screen[i]] /\ at' = CursorMoved
  BY <1>0 DEF Draw, Goto, shared, stored, call
<1>2. mishaps = {} /\ on[t] = cur_vt /\ ~Locating
  BY DEF Draw, Locating
<1>3. ~Redrawing
  BY <1>1 DEF Redrawing
<1>4. ShowsMidway(t) /\ OnScreen(t)
  BY <1>1, <1>2, <1>3 DEF Shown, Shows, OnScreen, Writing
<1>5. at = cx[cur_vt] /\ ~Drawn(t)
  BY <1>1, <1>2, <1>4 DEF ShowsMidway, Drawn
<1>6. at' = cx[cur_vt] + 1 /\ cx[cur_vt] \in Cells
  BY <1>0, <1>1, <1>5 DEF CursorMoved, Cells
<1>7. OnScreen(t)' /\ Drawn(t)' /\ pc'[t] # "draw"
  BY <1>1, <1>2 DEF OnScreen, Writing, Drawn
<1>8. \A u \in Thread \ {t} : ~OnScreen(u)'
  BY <1>1, <1>2, <1>4, Writers DEF OnScreen
<1>9. ShowsMidway(t)'
  <2>1. \A i \in Cells : i # cx[cur_vt] => screen'[i] = buffer[cur_vt][i]
    BY <1>1, <1>4, <1>5 DEF ShowsMidway
  <2>2. screen'[cx[cur_vt]] = Mark(t) /\ Mark(t)' = Mark(t)
    BY <1>1, <1>5, <1>6 DEF Mark
  <2>3. ~Half(t)' => \A i \in Cells : screen'[i] = buffer[cur_vt][i]
    <3>1. ~Half(t)' => buffer[cur_vt][cx[cur_vt]] = Mark(t)
      BY <1>1, <1>4 DEF Half, ShowsMidway
    <3> QED BY <2>1, <2>2, <3>1
  <2> QED BY <1>1, <1>6, <1>7, <2>1, <2>2, <2>3 DEF ShowsMidway
<1>10. ShowsAtRest'
  BY <1>7 DEF ShowsAtRest
<1>11. \A u \in Thread \ {t} : ShowsMidway(u)'
  BY <1>8 DEF ShowsMidway
<1> QED BY <1>9, <1>10, <1>11 DEF Shows

\* A thread stores its cell at the cursor.
LEMMA ShownStore ==
  ASSUME IInv, Lefts, Fits, DisplayTypes, Shown, NEW t \in Thread, Store(t) PROVE Shown'
<1>0. /\ pc \in [Thread -> Steps] /\ cx \in [Vt -> 0..Width] /\ cur_vt \in Vt /\ on[t] \in Vt
      /\ cx[on[t]] < Width /\ Width \in Nat /\ buffer \in [Vt -> [Cells -> Marks]]
  BY FitsOnScreen, TerminalAssumption DEF IInv, Types, DisplayTypes, Store
<1> SUFFICES ASSUME mishaps' = {}, ~Redrawing' PROVE Shows'
  BY DEF Shown
<1>1. /\ UNCHANGED <<screen, at, cx, cur_vt, mishaps, on, piece, print>> /\ pc[t] = "store"
      /\ \A u \in Thread \ {t} : pc'[u] = pc[u]
      /\ pc'[t] = IF piece[t] = "run" THEN "draw" ELSE "advance"
      /\ buffer' = [buffer EXCEPT ![on[t]][cx[on[t]]] = Mark(t)]
  BY <1>0 DEF Store, Goto, shared, shown, stored, call
<1>2. ~Redrawing /\ (Locating' <=> Locating)
  BY <1>1 DEF Redrawing, Locating
<1>3. ShowsAtRest /\ \A u \in Thread : ShowsMidway(u)
  BY <1>1, <1>2 DEF Shown, Shows
<1>4. \A u \in Thread : OnScreen(u)' <=> OnScreen(u)
  BY <1>1 DEF OnScreen, Writing
<1>5. CASE on[t] = cur_vt
  <2>1. OnScreen(t) /\ \A u \in Thread \ {t} : ~OnScreen(u)
    BY <1>1, <1>5, Writers DEF OnScreen, Writing
  <2>2. cx[cur_vt] \in Cells
    BY <1>0, <1>5 DEF Cells
  <2>3. /\ buffer'[cur_vt][cx[cur_vt]] = Mark(t)
        /\ \A i \in Cells : i # cx[cur_vt] => buffer'[cur_vt][i] = buffer[cur_vt][i]
    BY <1>0, <1>1, <1>5, <2>2
  <2>4. Mark(t)' = Mark(t) /\ pc'[t] # "store"
    BY <1>1 DEF Mark
  <2>5. \A i \in Cells : i # cx[cur_vt] => screen[i] = buffer'[cur_vt][i]
    BY <1>3, <2>1, <2>3 DEF ShowsMidway
  <2>6. CASE piece[t] = "run"
    <3>1. pc'[t] = "draw" /\ Half(t)' /\ ~Drawn(t)' /\ ~Drawn(t)
      BY <1>1, <2>6 DEF Half, Drawn
    <3>2. Locating \/ at = cx[cur_vt]
      BY <1>3, <2>1, <3>1 DEF ShowsMidway
    <3>3. ShowsMidway(t)'
      BY <1>1, <1>2, <2>3, <2>4, <2>5, <3>1, <3>2 DEF ShowsMidway
    <3> QED BY <1>4, <2>1, <3>3 DEF Shows, ShowsMidway, ShowsAtRest
  <2>7. CASE piece[t] # "run"
    <3>1. pc'[t] = "advance" /\ ~Half(t)' /\ Drawn(t)' /\ Drawn(t) /\ Half(t)
      BY <1>1, <2>7 DEF Half, Drawn
    <3>2. at = cx[cur_vt] + 1 /\ screen[cx[cur_vt]] = Mark(t)
      BY <1>1, <1>3, <2>1, <3>1 DEF ShowsMidway
    <3>3. \A i \in Cells : screen[i] = buffer'[cur_vt][i]
      BY <2>3, <2>5, <3>2
    <3>4. ShowsMidway(t)'
      BY <1>1, <3>1, <3>2, <3>3 DEF ShowsMidway
    <3> QED BY <1>4, <2>1, <3>4 DEF Shows, ShowsMidway, ShowsAtRest
  <2> QED BY <2>6, <2>7
<1>6. CASE on[t] # cur_vt
  <2>1. buffer'[cur_vt] = buffer[cur_vt] /\ cx'[cur_vt] = cx[cur_vt]
    BY <1>0, <1>1, <1>6
  <2>2. ShowsAtRest'
    BY <1>1, <1>2, <1>3, <1>4, <2>1 DEF ShowsAtRest
  <2>3. ShowsMidway(t)'
    BY <1>1, <1>6 DEF ShowsMidway, OnScreen
  <2>4. ASSUME NEW u \in Thread, u # t PROVE ShowsMidway(u)'
    BY <1>1, <1>2, <1>3, <2>1, <2>4, MidwayKept
  <2> QED BY <2>2, <2>3, <2>4 DEF Shows
<1> QED BY <1>5, <1>6

\* A thread moves the cursor of its terminal over its cell.
LEMMA ShownAdvance ==
  ASSUME IInv, DisplayTypes, Shown, NEW t \in Thread, Advance(t) PROVE Shown'
<1>0. pc \in [Thread -> Steps] /\ cx \in [Vt -> Nat] /\ cur_vt \in Vt /\ on[t] \in Vt
  BY DEF IInv, Types, DisplayTypes
<1> SUFFICES ASSUME mishaps' = {}, ~Redrawing' PROVE Shows'
  BY DEF Shown
<1>1. /\ UNCHANGED <<screen, at, buffer, cur_vt, mishaps, on, piece, print>> /\ pc[t] = "advance"
      /\ \A u \in Thread \ {t} : pc'[u] = pc[u]
      /\ pc'[t] = "unlock"
      /\ cx' = [cx EXCEPT ![on[t]] = cx[on[t]] + 1]
  BY <1>0 DEF Advance, Advanced, Goto, shared, shown, call
<1>2. ~Redrawing /\ (Locating' <=> Locating)
  BY <1>1 DEF Redrawing, Locating
<1>3. ShowsAtRest /\ \A u \in Thread : ShowsMidway(u)
  BY <1>1, <1>2 DEF Shown, Shows
<1>4. \A u \in Thread : OnScreen(u)' <=> OnScreen(u)
  BY <1>1 DEF OnScreen, Writing
<1>5. CASE on[t] = cur_vt
  <2>1. OnScreen(t) /\ \A u \in Thread \ {t} : ~OnScreen(u)
    BY <1>1, <1>5, Writers DEF OnScreen, Writing
  <2>2. Drawn(t) /\ ~Half(t) /\ ~Drawn(t)' /\ ~Half(t)'
    BY <1>1 DEF Drawn, Half
  <2>3. at = cx[cur_vt] + 1 /\ cx'[cur_vt] = cx[cur_vt] + 1
    BY <1>0, <1>1, <1>3, <1>5, <2>1, <2>2 DEF ShowsMidway
  <2>4. ShowsMidway(t)'
    BY <1>1, <1>3, <2>1, <2>2, <2>3 DEF ShowsMidway
  <2> QED BY <1>4, <2>1, <2>4 DEF Shows, ShowsMidway, ShowsAtRest
<1>6. CASE on[t] # cur_vt
  <2>1. buffer'[cur_vt] = buffer[cur_vt] /\ cx'[cur_vt] = cx[cur_vt]
    BY <1>0, <1>1, <1>6
  <2>2. ShowsAtRest'
    BY <1>1, <1>2, <1>3, <1>4, <2>1 DEF ShowsAtRest
  <2>3. ShowsMidway(t)'
    BY <1>1, <1>6 DEF ShowsMidway, OnScreen
  <2>4. ASSUME NEW u \in Thread, u # t PROVE ShowsMidway(u)'
    BY <1>1, <1>2, <1>3, <2>1, <2>4, MidwayKept
  <2> QED BY <2>2, <2>3, <2>4 DEF Shows
<1> QED BY <1>5, <1>6

\* The steps of vt_change() in a thread.
LEMMA ShownChange ==
  ASSUME IInv, DisplayTypes, Shown, NEW t \in Thread, Switch(t) \/ Redraw(t) \/ Locate(t)
  PROVE  Shown'
<1>0. /\ pc \in [Thread -> Steps] /\ cur_vt \in Vt /\ buffer \in [Vt -> [Cells -> Marks]]
      /\ t # Nobody
  BY TerminalAssumption DEF IInv, Types, DisplayTypes
<1> SUFFICES ASSUME mishaps' = {}, ~Redrawing' PROVE Shows'
  BY DEF Shown
<1>1. CASE Switch(t)
  <2>1. pc'[t] = "redraw"
    BY <1>0, <1>1 DEF Switch, Goto
  <2> QED BY <2>1 DEF Redrawing
<1>2. CASE Redraw(t)
  <2>1. /\ UNCHANGED <<buffer, cx, cur_vt, on>> /\ screen' = buffer[cur_vt]
        /\ \A u \in Thread \ {t} : pc'[u] = pc[u]
        /\ pc[t] = "redraw" /\ pc'[t] = "locate"
    BY <1>0, <1>2 DEF Redraw, Goto, shared, stored, call
  <2>2. writelock[cur_vt] \in {t, Nobody}
    BY <1>2 DEF Redraw, SetUnder
  <2>3. \A u \in Thread : ~OnScreen(u)'
    <3>1. \A u \in Thread : OnScreen(u)' => OnScreen(u) /\ u # t
      BY <2>1 DEF OnScreen, Writing
    <3> QED BY <2>2, <3>1, Writers DEF OnScreen
  <2>4. Locating'
    BY <2>1 DEF Locating
  <2> QED BY <2>1, <2>3, <2>4 DEF Shows, ShowsAtRest, ShowsMidway
<1>3. CASE Locate(t)
  <2>1. Caller(t) \in {"next", "idle"}
    BY DEF Caller
  <2>2. /\ UNCHANGED <<screen, buffer, cx, cur_vt>> /\ at' = cx[cur_vt]
        /\ \A u \in Thread \ {t} : pc'[u] = pc[u] /\ on'[u] = on[u]
        /\ pc[t] = "locate" /\ pc'[t] \in {"next", "idle"}
    <3>1. on \in [Thread -> Vt]
      BY DEF IInv, Types
    <3> QED BY <1>0, <1>3, <2>1, <3>1 DEF Locate, ReturnTo, Goto, shared, stored, call
  <2>3. mishaps = {} /\ writelock[cur_vt] \in {t, Nobody}
    BY <1>3 DEF Locate, SetUnder
  <2>4. ~Redrawing
    BY <2>2 DEF Redrawing
  <2>5. \A u \in Thread : ~OnScreen(u) /\ ~OnScreen(u)'
    <3>1. ~OnScreen(t) /\ ~OnScreen(t)'
      BY <2>2 DEF OnScreen, Writing
    <3>2. \A u \in Thread \ {t} : ~OnScreen(u)
      BY <2>3, Writers DEF OnScreen
    <3>3. \A u \in Thread \ {t} : ~OnScreen(u)'
      BY <2>2, <3>2 DEF OnScreen
    <3> QED BY <3>1, <3>2, <3>3
  <2>6. \A i \in Cells : screen[i] = buffer[cur_vt][i]
    BY <2>3, <2>4, <2>5 DEF Shown, Shows, ShowsAtRest
  <2> QED BY <2>2, <2>5, <2>6 DEF Shows, ShowsAtRest, ShowsMidway
<1> QED BY <1>1, <1>2, <1>3

\* vt_change() in the keyboard interrupt.
LEMMA ShownPress ==
  ASSUME IInv, DisplayTypes, Shown, NEW v \in Vt, PressF(v) PROVE Shown'
<1> SUFFICES ASSUME mishaps' = {}, ~Redrawing' PROVE Shows'
  BY DEF Shown
<1>1. UNCHANGED <<buffer, cx, pc, on, piece, print>>
  BY DEF PressF, stored, call
<1>2. CASE UNCHANGED <<cur_vt, screen, at, mishaps>>
  BY <1>1, <1>2, ShownKept DEF Shown
<1>3. CASE cur_vt' = v /\ screen' = buffer[v] /\ at' = cx[v] /\ mishaps' = SetUnder(Nobody, v)
  <2>1. writelock[v] = Nobody
    BY <1>3 DEF SetUnder
  <2>2. \A u \in Thread : ~OnScreen(u)'
    BY <1>1, <1>3, <2>1, Writers DEF OnScreen
  <2> QED BY <1>1, <1>3, <2>2 DEF Shows, ShowsAtRest, ShowsMidway
<1> QED BY <1>2, <1>3 DEF PressF, shared, shown

\* Every step.
LEMMA ShownNext == IInv /\ Lefts /\ Fits /\ DisplayTypes /\ Shown /\ [Next]_vars => Shown'
<1> SUFFICES ASSUME IInv, Lefts, Fits, DisplayTypes, Shown, [Next]_vars PROVE Shown'
  OBVIOUS
<1>1. CASE UNCHANGED vars
  BY <1>1, ShownKept DEF vars, shown, stored, shared, call
<1>2. ASSUME NEW v \in Vt, PressF(v) PROVE Shown'
  BY <1>2, ShownPress
<1>3. ASSUME NEW t \in Thread, PrintLength(t) \/ Putch(t) \/ Inside(t) PROVE Shown'
  BY <1>3, ShownElsewhere, ShownLockWrite, ShownTest, ShownUnlockWrite, ShownCursor, ShownDraw,
     ShownStore, ShownAdvance, ShownChange DEF Inside
<1> QED BY <1>1, <1>2, <1>3 DEF Next

\* Whatever is printed and whenever the terminal is changed: as long as nothing was
\* printed behind the current terminal's back, the display shows the current terminal
\* when nobody prints.
THEOREM DisplayStaysCurrent == Spec => []DisplayShowsCurrent
<1>1. Init => Lefts /\ Fits /\ DisplayTypes /\ Shown
  BY InitDisplay
<1>2. IInv /\ Lefts /\ Fits /\ DisplayTypes /\ Shown /\ [Next]_vars
         => (Lefts /\ Fits /\ DisplayTypes /\ Shown)'
  BY LeftsNext, FitsNext, DisplayTypesNext, ShownNext
<1>3. IInv /\ Lefts /\ Fits /\ DisplayTypes /\ Shown => DisplayShowsCurrent
  <2> SUFFICES ASSUME IInv, DisplayTypes, Shown, Quiet, mishaps = {}
               PROVE  screen = buffer[cur_vt] /\ at = cx[cur_vt]
    BY DEF DisplayShowsCurrent
  <2>1. ~Redrawing /\ ~Locating /\ \A t \in Thread : ~OnScreen(t)
    BY DEF Quiet, Redrawing, Locating, OnScreen, Writing
  <2>2. (\A i \in Cells : screen[i] = buffer[cur_vt][i]) /\ at = cx[cur_vt]
    BY <2>1 DEF Shown, Shows, ShowsAtRest
  <2>3. screen \in [Cells -> Marks] /\ buffer[cur_vt] \in [Cells -> Marks]
    BY DEF DisplayTypes, IInv, Types
  <2> QED BY <2>2, <2>3
<1> QED BY <1>1, <1>2, <1>3, Invariance, PTL DEF Spec

-----------------------------------------------------------------------------
(* The ring: with one reader.                                              *)

OneReader == \E r : Reader = {r}

-----------------------------------------------------------------------------
(* Numbers of slots, modulo the size of the buffer.                        *)

\* Quotient and remainder.
LEMMA Division ==
  ASSUME NEW m \in Nat, NEW R \in Nat \ {0}
  PROVE  \E q \in Nat, s \in 0..(R - 1) : m = R * q + s /\ s = m % R
  OBVIOUS

\* Products of sums and differences.
LEMMA Products ==
  ASSUME NEW R \in Nat, NEW p \in Nat, NEW q \in Nat
  PROVE  /\ R * p \in Nat /\ R * q \in Nat
         /\ R * (p + q) = R * p + R * q
         /\ R * (q - p) = R * q - R * p
  OBVIOUS

\* Only one remainder is that of a number.
LEMMA Remainder ==
  ASSUME NEW R \in Nat \ {0}, NEW q \in Nat, NEW r \in 0..(R - 1),
         NEW m \in Nat, m = R * q + r
  PROVE  m % R = r
<1>1. PICK p \in Nat, s \in 0..(R - 1) : m = R * p + s /\ s = m % R
  BY Division
<1>2. R * (q - p) = s - r
  BY <1>1, Products
<1>3. q - p = 0
  <2>1. CASE q - p >= 1
    <3>1. R * (q - p) >= R
      BY <2>1
    <3> QED BY <1>2, <3>1
  <2>2. CASE q - p <= -1
    <3>1. R * (q - p) <= -R
      BY <2>2
    <3> QED BY <1>2, <3>1
  <2> QED BY <2>1, <2>2
<1>4. R * (q - p) = 0
  BY <1>3
<1>5. s - r = 0
  BY <1>2, <1>4
<1>6. s = r
  BY <1>5
<1> QED BY <1>1, <1>6

\* A number that is wrapped before it is moved on is where it would be wrapped behind.
LEMMA WrappedBefore ==
  ASSUME NEW R \in Nat \ {0}, NEW m \in Nat, NEW k \in Nat
  PROVE  (m % R) \in 0..(R - 1) /\ ((m % R) + k) % R = (m + k) % R
<1>1. PICK p \in Nat, s \in 0..(R - 1) : m = R * p + s /\ s = m % R
  BY Division
<1>2. PICK n \in Nat : n = s + k
  OBVIOUS
<1>3. PICK q \in Nat, t \in 0..(R - 1) : n = R * q + t /\ t = n % R
  BY Division
<1>4. m + k = R * (p + q) + t
  BY <1>1, <1>2, <1>3, Products
<1>5. (m + k) % R = t
  <2>1. PICK u \in Nat, v \in Nat : u = m + k /\ v = p + q
    OBVIOUS
  <2>2. u = R * v + t
    BY <1>4, <2>1
  <2>3. u % R = t
    BY <2>2, Remainder
  <2> QED BY <2>1, <2>3
<1> QED BY <1>1, <1>2, <1>3, <1>5

\* Slots less than a turn apart are different.
LEMMA Apart ==
  ASSUME NEW R \in Nat \ {0}, NEW m \in Nat, NEW k \in 1..(R - 1)
  PROVE  (m + k) % R # m % R
<1> SUFFICES ASSUME (m + k) % R = m % R PROVE FALSE
  OBVIOUS
<1>1. PICK p \in Nat, s \in 0..(R - 1) : m = R * p + s /\ s = m % R
  BY Division
<1>2. PICK n \in Nat : n = m + k
  OBVIOUS
<1>3. PICK q \in Nat : n = R * q + s
  <2>1. PICK q \in Nat, t \in 0..(R - 1) : n = R * q + t /\ t = n % R
    BY Division
  <2>2. t = s
    BY <1>1, <1>2, <2>1
  <2> QED BY <2>1, <2>2
<1>4. R * (q - p) = k
  BY <1>1, <1>2, <1>3, Products
<1>5. CASE q - p >= 1
  <2>1. R * (q - p) >= R
    BY <1>5
  <2> QED BY <1>4, <2>1
<1>6. CASE q - p <= 0
  <2>1. R * (q - p) <= 0
    BY <1>6
  <2> QED BY <1>4, <2>1
<1> QED BY <1>5, <1>6

-----------------------------------------------------------------------------
(* What is in the ring, as a sequence.                                     *)

Window(f, first, n) == [i \in 1..n |-> f[(first + i - 1) % BufferSize]]

\* An event put behind the last.
PutBehind(f, e, first, n) ==
  Window([f EXCEPT ![(first + n) % BufferSize] = e], first, n + 1) = Append(Window(f, first, n), e)

LEMMA WindowPut ==
  ASSUME NEW V, NEW f \in [Slots -> V], NEW e \in V, NEW first \in Nat, NEW n \in Nat,
         n < BufferSize
  PROVE  PutBehind(f, e, first, n)
<1> USE DEF PutBehind
<1>1. PICK R \in Nat \ {0} : R = BufferSize
  BY BufferAssumption
<1>2. PICK g : g = [f EXCEPT ![(first + n) % R] = e]
  OBVIOUS
<1>3. PICK slot : slot = [i \in Nat \ {0} |-> (first + i - 1) % R]
  OBVIOUS
<1>4. \A i \in Nat \ {0} : slot[i] \in Slots /\ slot[i] = (first + i - 1) % R
  <2> SUFFICES ASSUME NEW i \in Nat \ {0}
               PROVE  slot[i] \in Slots /\ slot[i] = (first + i - 1) % R
    OBVIOUS
  <2>1. PICK m \in Nat : m = first + i - 1
    OBVIOUS
  <2>2. m % R \in 0..(R - 1)
    BY Division
  <2>3. slot[i] = m % R
    BY <1>3, <2>1
  <2> QED BY <1>1, <2>1, <2>2, <2>3 DEF Slots
<1>5. \A i \in 1..n : slot[i] # slot[n + 1]
  <2> SUFFICES ASSUME NEW i \in 1..n PROVE slot[i] # slot[n + 1]
    OBVIOUS
  <2>1. PICK m \in Nat, k \in 1..(R - 1) : m = first + i - 1 /\ k = n + 1 - i
    BY <1>1
  <2>2. (m + k) % R # m % R
    BY Apart
  <2>3. m + k = first + (n + 1) - 1
    BY <2>1
  <2> QED BY <1>4, <2>1, <2>2, <2>3
<1>6. slot[n + 1] = (first + n) % R
  <2>1. first + (n + 1) - 1 = first + n
    OBVIOUS
  <2> QED BY <1>4, <2>1
<1>7. g[slot[n + 1]] = e /\ \A i \in 1..n : g[slot[i]] = f[slot[i]]
  BY <1>2, <1>4, <1>5, <1>6
<1>8. /\ Window(f, first, n) = [i \in 1..n |-> f[slot[i]]]
      /\ Window(g, first, n + 1) = [i \in 1..(n + 1) |-> g[slot[i]]]
  BY <1>1, <1>4 DEF Window
<1>9. [i \in 1..n |-> f[slot[i]]] \in Seq(V)
  BY <1>4
<1>10. Append([i \in 1..n |-> f[slot[i]]], e) = [i \in 1..(n + 1) |-> g[slot[i]]]
  BY <1>7, <1>9
<1> QED BY <1>1, <1>2, <1>8, <1>10

\* The first event taken.
LEMMA WindowGet ==
  ASSUME NEW V, NEW f \in [Slots -> V], NEW first \in Slots, NEW n \in Nat, n > 0
  PROVE  /\ Window(f, first + 1, n - 1) = Tail(Window(f, first, n))
         /\ Head(Window(f, first, n)) = f[first]
         /\ Window(f, first, n) # <<>>
<1>1. PICK R \in Nat \ {0} : R = BufferSize
  BY BufferAssumption
<1>2. first \in 0..(R - 1) /\ first % R = first
  <2>1. first \in 0..(R - 1)
    BY <1>1 DEF Slots
  <2>2. first = R * 0 + first
    BY <2>1
  <2> QED BY <2>1, <2>2, Remainder
<1>3. PICK slot : slot = [i \in Nat \ {0} |-> (first + i - 1) % R]
  OBVIOUS
<1>4. \A i \in Nat \ {0} : slot[i] \in Slots /\ slot[i] = (first + i - 1) % R
  <2> SUFFICES ASSUME NEW i \in Nat \ {0}
               PROVE  slot[i] \in Slots /\ slot[i] = (first + i - 1) % R
    OBVIOUS
  <2>1. PICK m \in Nat : m = first + i - 1
    BY <1>2
  <2>2. m % R \in 0..(R - 1)
    BY Division
  <2>3. slot[i] = m % R
    BY <1>3, <2>1
  <2> QED BY <1>1, <2>1, <2>2, <2>3 DEF Slots
<1>5. PICK w : w = [i \in 1..n |-> f[slot[i]]]
  OBVIOUS
<1>6. Window(f, first, n) = w
  BY <1>1, <1>4, <1>5 DEF Window
<1>7. Window(f, first + 1, n - 1) = [i \in 1..(n - 1) |-> f[slot[i + 1]]]
  <2>1. \A i \in 1..(n - 1) : slot[i + 1] = (first + 1 + i - 1) % R
    <3> SUFFICES ASSUME NEW i \in 1..(n - 1) PROVE slot[i + 1] = (first + 1 + i - 1) % R
      OBVIOUS
    <3>1. first + (i + 1) - 1 = first + 1 + i - 1
      BY <1>2
    <3> QED BY <1>4, <3>1
  <2> QED BY <1>1, <2>1 DEF Window
<1>8. w \in Seq(V) /\ Len(w) = n
  BY <1>4, <1>5
<1>9. Tail(w) = [i \in 1..(n - 1) |-> f[slot[i + 1]]]
  BY <1>5, <1>8
<1>10. Head(w) = f[first]
  <2>1. slot[1] = first
    BY <1>2, <1>4
  <2> QED BY <1>5, <1>8, <2>1
<1>11. w # <<>>
  BY <1>8
<1> QED BY <1>6, <1>7, <1>9, <1>10, <1>11

\* The start wrapped.
LEMMA WindowWrapped ==
  ASSUME NEW f, NEW first \in Nat, NEW n \in Nat
  PROVE  Window(f, first % BufferSize, n) = Window(f, first, n)
<1>1. PICK R \in Nat \ {0} : R = BufferSize
  BY BufferAssumption
<1>2. ASSUME NEW i \in 1..n PROVE ((first % R) + i - 1) % R = (first + i - 1) % R
  <2>1. PICK k \in Nat : k = i - 1
    OBVIOUS
  <2>2. (first % R) \in 0..(R - 1) /\ ((first % R) + k) % R = (first + k) % R
    BY WrappedBefore
  <2>3. (first % R) + i - 1 = (first % R) + k /\ first + i - 1 = first + k
    BY <2>1, <2>2
  <2> QED BY <2>2, <2>3
<1> QED BY <1>1, <1>2 DEF Window

-----------------------------------------------------------------------------
(* The ring and its reader.                                                *)

\* How many events the reader has taken that are still between start and end, and of
\* these still in the count.
Passed(r)    == IF reading[r] \in {"load", "store", "advance"} THEN 1 ELSE 0
Uncounted(r) == IF reading[r] \in {"load", "store"} THEN 1 ELSE 0

\* The end is as far from the start as the events that wait, and no store undoes one.
RingInv ==
    \A r \in Reader :
       /\ kb_buf \in [Slots -> Event \cup {NoEvent}]
       /\ kb_buf_start \in Slots /\ kb_buf_end \in Slots /\ kb_buf_count \in 0..BufferSize
       /\ reading \in [Reader -> {"idle", "wait", "test", "take", "load", "store", "advance", "parse"}]
       /\ keyevent \in [Reader -> Event \cup {NoEvent}] /\ loaded \in [Reader -> 0..BufferSize]
       /\ losses = {}
       /\ reading[r] \in {"take", "load", "store"} => kb_buf_count > 0
       /\ reading[r] = "store" => loaded[r] = kb_buf_count
       /\ kb_buf_end = (kb_buf_start + Passed(r) + kb_buf_count - Uncounted(r)) % BufferSize

\* The events that wait, with one reader, in a state and in the next.
LEMMA WaitingIs ==
  ASSUME NEW r, Reader = {r}
  PROVE  /\ Waiting = Window(kb_buf, kb_buf_start + Passed(r), kb_buf_count - Uncounted(r))
         /\ Waiting' = Window(kb_buf', kb_buf_start' + Passed(r)', kb_buf_count' - Uncounted(r)')
<1>1. (AtStart = {} <=> Passed(r) = 0) /\ (AtStart' = {} <=> Passed(r)' = 0)
  BY DEF AtStart, Passed
<1>2. (InCount = {} <=> Uncounted(r) = 0) /\ (InCount' = {} <=> Uncounted(r)' = 0)
  BY DEF InCount, Uncounted
<1> QED BY <1>1, <1>2 DEF Waiting, Window, Passed, Uncounted

\* What the readers have got, with one reader, in a state and in the next.
LEMMA TakenIs ==
  ASSUME NEW r, Reader = {r}
  PROVE  /\ Taken = IF reading[r] \in {"load", "store", "advance", "parse"}
                    THEN Append(received, keyevent[r]) ELSE received
         /\ Taken' = IF reading'[r] \in {"load", "store", "advance", "parse"}
                     THEN Append(received', keyevent'[r]) ELSE received'
  BY DEF Taken

\* The initial state.
LEMMA InitRing == OneReader /\ BufferInit => RingInv /\ AsQueue!Init
<1> SUFFICES ASSUME OneReader, BufferInit PROVE RingInv /\ AsQueue!Init
  OBVIOUS
<1>1. PICK r : Reader = {r}
  BY DEF OneReader
<1>2. PICK R \in Nat \ {0} : R = BufferSize
  BY BufferAssumption
<1>3. 0 % R = 0
  <2>1. 0 = R * 0 + 0
    OBVIOUS
  <2> QED BY <2>1, Remainder
<1>4. /\ kb_buf_start = 0 /\ kb_buf_end = 0 /\ kb_buf_count = 0 /\ reading[r] = "idle"
      /\ Passed(r) = 0 /\ Uncounted(r) = 0
  BY <1>1 DEF BufferInit, Passed, Uncounted
<1>5. RingInv
  BY <1>1, <1>2, <1>3, <1>4 DEF RingInv, BufferInit, Slots, Event, NoEvent
<1>6. Waiting = <<>> /\ Taken = <<>>
  <2>1. Waiting = [i \in 1..0 |-> kb_buf[(0 + i - 1) % BufferSize]]
    BY <1>1, <1>4, WaitingIs DEF Window
  <2>2. Taken = received
    BY <1>1, <1>4, TakenIs
  <2> QED BY <2>1, <2>2 DEF BufferInit
<1> QED BY <1>5, <1>6 DEF AsQueue!Init

\* A step of the queue, or none.
QueueStep == AsQueue!Put \/ AsQueue!Get \/ UNCHANGED <<Waiting, Taken>>

\* An event goes behind the last that waits.
LEMMA EventPuts ==
  ASSUME NEW r, Reader = {r}, RingInv, NEW e \in Event, KeyboardEvent(e), losses' = {}
  PROVE  RingInv' /\ QueueStep
<1>1. PICK R \in Nat \ {0} : R = BufferSize
  BY BufferAssumption
<1>2. kb_buf_count < R /\ reading[r] # "store"
  <2>1. kb_buf_count >= BufferSize => "Overrun" \in losses'
    BY DEF KeyboardEvent
  <2>2. reading[r] = "store" => "Stale" \in losses'
    BY DEF KeyboardEvent
  <2>3. kb_buf_count \in 0..R
    BY <1>1 DEF RingInv
  <2> QED BY <1>1, <2>1, <2>2, <2>3
<1>3. UNCHANGED <<kb_buf_start, reading, keyevent, loaded, received>>
  BY DEF KeyboardEvent, reader
<1>4. PICK first \in Nat, n \in Nat :
         first = kb_buf_start + Passed(r) /\ n = kb_buf_count - Uncounted(r)
  BY <1>1, SMTT(60) DEF RingInv, Passed, Uncounted, Slots
<1>5. Passed(r)' = Passed(r) /\ Uncounted(r)' = Uncounted(r)
  BY <1>3 DEF Passed, Uncounted
<1>6. kb_buf_end = (first + n) % R /\ n < R
  <2>1. first + n = kb_buf_start + Passed(r) + kb_buf_count - Uncounted(r)
    BY <1>1, <1>4 DEF RingInv, Passed, Uncounted, Slots
  <2> QED BY <1>1, <1>2, <1>4, <2>1 DEF RingInv, Uncounted
<1>7. /\ kb_buf' = [kb_buf EXCEPT ![(first + n) % R] = e]
      /\ kb_buf_count' = kb_buf_count + 1
      /\ kb_buf_end' = (((first + n) % R) + 1) % R
  BY <1>1, <1>6 DEF KeyboardEvent, Wrapped
<1>8. kb_buf_end' \in Slots /\ kb_buf_end' = (first + n + 1) % R
  <2>1. PICK m \in Nat, k \in Nat : m = first + n /\ k = m + 1
    OBVIOUS
  <2>2. \A j \in Nat : (m % R) \in 0..(R - 1) /\ ((m % R) + j) % R = (m + j) % R
    BY WrappedBefore, ZenonT(60)
  <2>3. \A j \in Nat : (k % R) \in 0..(R - 1)
    BY WrappedBefore, ZenonT(60)
  <2>4. 1 \in Nat /\ m + 1 = k
    BY <2>1
  <2>5. ((m % R) + 1) % R = k % R /\ k % R \in 0..(R - 1)
    BY <2>2, <2>3, <2>4, ZenonT(60)
  <2> QED BY <1>1, <1>7, <2>1, <2>5 DEF Slots
<1>9. RingInv'
  <2>1. kb_buf' \in [Slots -> Event \cup {NoEvent}]
    <3>1. kb_buf \in [Slots -> Event \cup {NoEvent}]
      BY DEF RingInv
    <3> QED BY <1>7, <3>1
  <2>2. PICK b \in Nat, c \in 0..(R - 1) : b = kb_buf_start /\ c = kb_buf_count
    BY <1>1, <1>2 DEF RingInv, Slots
  <2>3. PICK p \in {0, 1}, u \in {0, 1} : p = Passed(r) /\ u = Uncounted(r)
    BY DEF Passed, Uncounted
  <2>4. kb_buf_count' \in 1..BufferSize
    BY <1>1, <1>7, <2>2
  <2>5. first + n + 1 = kb_buf_start' + Passed(r)' + kb_buf_count' - Uncounted(r)'
    <3>1. first + n + 1 = b + p + (c + 1) - u
      BY <1>4, <2>2, <2>3
    <3>2. kb_buf_start' = b /\ Passed(r)' = p /\ kb_buf_count' = c + 1 /\ Uncounted(r)' = u
      BY <1>3, <1>5, <1>7, <2>2, <2>3
    <3> QED BY <3>1, <3>2
  <2> QED BY <1>1, <1>2, <1>3, <1>8, <2>1, <2>4, <2>5 DEF RingInv
<1>10. Waiting' = Append(Waiting, e)
  <2>1. Waiting = Window(kb_buf, first, n)
    BY <1>4, WaitingIs
  <2>2. Waiting' = Window(kb_buf', first, n + 1)
    <3>1. kb_buf_start' + Passed(r)' = first
      BY <1>3, <1>4, <1>5
    <3>2. PICK c \in Nat, u \in {0, 1} : c = kb_buf_count /\ u = Uncounted(r)
      BY <1>1 DEF RingInv, Uncounted
    <3>3. kb_buf_count' - Uncounted(r)' = n + 1
      BY <1>4, <1>5, <1>7, <3>2
    <3> QED BY <3>1, <3>3, WaitingIs
  <2>3. kb_buf \in [Slots -> Event \cup {NoEvent}]
    BY DEF RingInv
  <2>4. Window([kb_buf EXCEPT ![(first + n) % BufferSize] = e], first, n + 1)
           = Append(Window(kb_buf, first, n), e)
    <3>1. PICK V : V = Event \cup {NoEvent}
      OBVIOUS
    <3>2. n < BufferSize /\ e \in V /\ kb_buf \in [Slots -> V]
      BY <1>1, <1>6, <2>3, <3>1
    <3>3. PutBehind(kb_buf, e, first, n)
      BY <3>2, WindowPut, ZenonT(60)
    <3> QED BY <3>3 DEF PutBehind
  <2> QED BY <1>1, <1>7, <2>1, <2>2, <2>4
<1>11. Taken' = Taken
  BY <1>3, TakenIs, SMTT(60)
<1> QED BY <1>9, <1>10, <1>11 DEF QueueStep, AsQueue!Put

\* The reader takes the first event that waits.
LEMMA TakeGets ==
  ASSUME NEW r, Reader = {r}, RingInv, Take(r), losses' = {}
  PROVE  RingInv' /\ QueueStep
<1>1. /\ kb_buf_count \in Nat /\ kb_buf_count > 0 /\ kb_buf_start \in Slots /\ kb_buf_start \in Nat
      /\ kb_buf \in [Slots -> Event \cup {NoEvent}]
      /\ reading[r] = "take" /\ reading'[r] = "load" /\ keyevent'[r] = kb_buf[kb_buf_start]
      /\ UNCHANGED <<ring, loaded, received>>
  BY DEF RingInv, Take, GoesTo, Slots
<1>2. Passed(r) = 0 /\ Uncounted(r) = 0 /\ Passed(r)' = 1 /\ Uncounted(r)' = 1
  BY <1>1 DEF Passed, Uncounted
<1>3. RingInv'
  <2>1. kb_buf_start + 1 + kb_buf_count - 1 = kb_buf_start + 0 + kb_buf_count - 0
    BY <1>1
  <2>2. kb_buf_end' = (kb_buf_start' + Passed(r)' + kb_buf_count' - Uncounted(r)') % BufferSize
    BY <1>1, <1>2, <2>1 DEF RingInv, ring
  <2>3. keyevent' \in [Reader -> Event \cup {NoEvent}] /\ reading' = [reading EXCEPT ![r] = "load"]
    BY <1>1 DEF RingInv, Take, GoesTo
  <2> QED BY <1>1, <2>2, <2>3 DEF RingInv, ring
<1>4. PICK w : w = Window(kb_buf, kb_buf_start, kb_buf_count)
  OBVIOUS
<1>5. /\ Window(kb_buf, kb_buf_start + 1, kb_buf_count - 1) = Tail(w)
      /\ Head(w) = kb_buf[kb_buf_start] /\ w # <<>>
  BY <1>1, <1>4, WindowGet
<1>6. Waiting = w
  <2>1. kb_buf_start + 0 = kb_buf_start /\ kb_buf_count - 0 = kb_buf_count
    BY <1>1
  <2> QED BY <1>2, <1>4, <2>1, WaitingIs
<1>7. Waiting' = Tail(w)
  BY <1>1, <1>2, <1>5, WaitingIs DEF ring
<1>8. Taken = received /\ Taken' = Append(received, Head(w))
  BY <1>1, <1>5, TakenIs
<1> QED BY <1>3, <1>5, <1>6, <1>7, <1>8 DEF QueueStep, AsQueue!Get

\* The start moves over the event taken.
LEMMA AdvanceKeeps ==
  ASSUME NEW r, Reader = {r}, RingInv, AdvanceStart(r), losses' = {}
  PROVE  RingInv' /\ QueueStep
<1>1. PICK R \in Nat \ {0} : R = BufferSize
  BY BufferAssumption
<1>2. /\ kb_buf_count \in Nat /\ kb_buf_start \in Nat
      /\ reading[r] = "advance" /\ reading' = [reading EXCEPT ![r] = "parse"] /\ reading'[r] = "parse"
      /\ kb_buf_start' = (kb_buf_start + 1) % R
      /\ UNCHANGED <<kb_buf, kb_buf_end, kb_buf_count, loaded, keyevent, received>>
  BY <1>1 DEF RingInv, AdvanceStart, GoesTo, Wrapped, Slots
<1>3. Passed(r) = 1 /\ Uncounted(r) = 0 /\ Passed(r)' = 0 /\ Uncounted(r)' = 0
  BY <1>2 DEF Passed, Uncounted
<1>4. PICK m \in Nat : m = kb_buf_start + 1
  BY <1>2
<1>5. (m % R) \in 0..(R - 1) /\ ((m % R) + kb_buf_count) % R = (m + kb_buf_count) % R
  BY <1>2, WrappedBefore
<1>6. RingInv'
  <2>1. kb_buf_end = (m + kb_buf_count) % R
    <3>1. kb_buf_start + 1 + kb_buf_count - 0 = m + kb_buf_count
      BY <1>2, <1>4
    <3> QED BY <1>1, <1>3, <3>1 DEF RingInv
  <2>2. kb_buf_start' + Passed(r)' + kb_buf_count' - Uncounted(r)' = (m % R) + kb_buf_count
    BY <1>2, <1>3, <1>4, <1>5
  <2>3. kb_buf_start' \in Slots
    BY <1>1, <1>2, <1>4, <1>5 DEF Slots
  <2> QED BY <1>1, <1>2, <1>5, <2>1, <2>2, <2>3 DEF RingInv
<1>7. Waiting' = Waiting
  <2>1. Waiting = Window(kb_buf, m, kb_buf_count)
    <3>1. kb_buf_count - 0 = kb_buf_count
      BY <1>2
    <3> QED BY <1>3, <1>4, <3>1, WaitingIs
  <2>2. Waiting' = Window(kb_buf, m % R, kb_buf_count)
    <3>1. kb_buf_start' + 0 = m % R /\ kb_buf_count' - 0 = kb_buf_count
      BY <1>2, <1>4, <1>5
    <3> QED BY <1>2, <1>3, <3>1, WaitingIs
  <2> QED BY <1>1, <1>2, <2>1, <2>2, WindowWrapped
<1>8. Taken' = Taken
  BY <1>2, TakenIs
<1> QED BY <1>6, <1>7, <1>8 DEF QueueStep

\* The other steps of the reader leave the ring as it is, but for the count of the event
\* taken.
LEMMA OthersKeep ==
  ASSUME NEW r, Reader = {r}, RingInv, losses' = {},
         \/ Read(r) \/ Wait(r) \/ NotFound(r) \/ Found(r) \/ LoadCount(r) \/ StoreCount(r) \/ Parse(r)
         \/ ChangeTerminal \/ UNCHANGED bufferVars
  PROVE  RingInv' /\ QueueStep
<1>1. PICK b \in Nat, c \in 0..BufferSize :
         b = kb_buf_start /\ c = kb_buf_count /\ BufferSize \in Nat
  BY BufferAssumption DEF RingInv, Slots
<1>2. /\ UNCHANGED <<kb_buf, kb_buf_start, kb_buf_end>>
      /\ Passed(r)' = Passed(r)
      /\ kb_buf_count' - Uncounted(r)' = kb_buf_count - Uncounted(r)
      /\ kb_buf_count' \in 0..BufferSize
  <2>1. CASE StoreCount(r)
    BY <1>1, <2>1 DEF RingInv, StoreCount, GoesTo, Passed, Uncounted
  <2>2. CASE LoadCount(r)
    BY <1>1, <2>2 DEF RingInv, LoadCount, GoesTo, Passed, Uncounted, ring
  <2>3. CASE Read(r)
    BY <1>1, <2>3 DEF RingInv, Read, GoesTo, Passed, Uncounted, ring
  <2>4. CASE Wait(r) \/ NotFound(r) \/ Found(r)
    BY <1>1, <2>4 DEF RingInv, Wait, NotFound, Found, GoesTo, Passed, Uncounted, ring
  <2>5. CASE Parse(r)
    BY <1>1, <2>5 DEF RingInv, Parse, GoesTo, Passed, Uncounted, ring
  <2>6. CASE ChangeTerminal \/ UNCHANGED bufferVars
    BY <1>1, <2>6 DEF RingInv, ChangeTerminal, bufferVars, ring, reader, Passed, Uncounted
  <2> QED BY <2>1, <2>2, <2>3, <2>4, <2>5, <2>6
<1>3. /\ reading' \in [Reader -> {"idle", "wait", "test", "take", "load", "store", "advance", "parse"}]
      /\ keyevent' \in [Reader -> Event \cup {NoEvent}] /\ loaded' \in [Reader -> 0..BufferSize]
      /\ reading'[r] \in {"take", "load", "store"} => kb_buf_count' > 0
      /\ reading'[r] = "store" => loaded'[r] = kb_buf_count'
  <2>1. CASE StoreCount(r)
    BY <1>1, <2>1 DEF RingInv, StoreCount, GoesTo
  <2>2. CASE LoadCount(r)
    BY <1>1, <2>2 DEF RingInv, LoadCount, GoesTo, ring
  <2>3. CASE Read(r)
    BY <1>1, <2>3 DEF RingInv, Read, GoesTo, ring
  <2>4. CASE Wait(r) \/ NotFound(r) \/ Found(r)
    BY <1>1, <2>4 DEF RingInv, Wait, NotFound, Found, GoesTo, ring
  <2>5. CASE Parse(r)
    BY <1>1, <2>5 DEF RingInv, Parse, GoesTo, ring
  <2>6. CASE ChangeTerminal \/ UNCHANGED bufferVars
    BY <1>1, <2>6 DEF RingInv, ChangeTerminal, bufferVars, ring, reader
  <2> QED BY <2>1, <2>2, <2>3, <2>4, <2>5, <2>6
<1>4. RingInv'
  <2>1. kb_buf_start' + Passed(r)' + kb_buf_count' - Uncounted(r)'
           = kb_buf_start + Passed(r) + kb_buf_count - Uncounted(r)
    BY <1>1, <1>2 DEF Passed, Uncounted
  <2> QED BY <1>2, <1>3, <2>1 DEF RingInv
<1>5. Waiting' = Waiting
  BY <1>2, WaitingIs
<1>6. Taken' = Taken
  <2>1. CASE StoreCount(r)
    BY <2>1, TakenIs DEF StoreCount, GoesTo, RingInv
  <2>2. CASE LoadCount(r)
    BY <2>2, TakenIs DEF LoadCount, GoesTo, RingInv
  <2>3. CASE Read(r)
    BY <2>3, TakenIs DEF Read, GoesTo, RingInv
  <2>4. CASE Wait(r) \/ NotFound(r) \/ Found(r)
    BY <2>4, TakenIs DEF Wait, NotFound, Found, GoesTo, RingInv
  <2>5. CASE Parse(r)
    <3>1. reading[r] = "parse" /\ received' = Append(received, keyevent[r])
      BY <2>5 DEF Parse
    <3>2. reading'[r] \in {"idle", "test"}
      BY <2>5 DEF Parse, GoesTo, RingInv
    <3>3. Taken = Append(received, keyevent[r])
      BY <3>1, TakenIs
    <3>4. Taken' = received'
      BY <3>2, TakenIs
    <3> QED BY <3>1, <3>3, <3>4
  <2>6. CASE ChangeTerminal \/ UNCHANGED bufferVars
    <3>1. UNCHANGED <<reading, keyevent, received>>
      BY <2>6 DEF ChangeTerminal, bufferVars, reader
    <3> QED BY <3>1, TakenIs
  <2> QED BY <2>1, <2>2, <2>3, <2>4, <2>5, <2>6
<1> QED BY <1>4, <1>5, <1>6 DEF QueueStep

\* Every step is one of the queue or none.
LEMMA StepQueue == OneReader /\ RingInv /\ [QuietNext]_bufferVars => RingInv' /\ QueueStep
<1> SUFFICES ASSUME OneReader, RingInv, [QuietNext]_bufferVars PROVE RingInv' /\ QueueStep
  OBVIOUS
<1>1. PICK r : Reader = {r}
  BY DEF OneReader
<1>2. losses' = {}
  BY <1>1 DEF QuietNext, RingInv, bufferVars
<1>3. CASE UNCHANGED bufferVars \/ ChangeTerminal
  BY <1>1, <1>2, <1>3, OthersKeep
<1>4. ASSUME NEW e \in Event, KeyboardEvent(e) PROVE RingInv' /\ QueueStep
  BY <1>1, <1>2, <1>4, EventPuts
<1>5. CASE Read(r) \/ InRead(r)
  BY <1>1, <1>2, <1>5, TakeGets, AdvanceKeeps, OthersKeep DEF InRead
<1> QED BY <1>1, <1>3, <1>4, <1>5 DEF QuietNext, BufferNext

\* With one reader, and as long as no event meets a full ring or a count that is being
\* stored, no event is lost, doubled or overtaken in a ring of any size.
THEOREM RingIsQueue == ASSUME OneReader PROVE QuietSpec => ImplementsQueue
<1>1. BufferInit => RingInv /\ AsQueue!Init
  BY InitRing
<1>2. RingInv /\ [QuietNext]_bufferVars => RingInv' /\ [AsQueue!Put \/ AsQueue!Get]_<<Waiting, Taken>>
  BY StepQueue DEF QueueStep
<1> QED BY <1>1, <1>2, PTL DEF QuietSpec, ImplementsQueue, AsQueue!Spec

-----------------------------------------------------------------------------
(* The text editor.                                                        *)

\* A set of natural numbers that is not empty has a least element.
LEMMA Least ==
    ASSUME NEW S \in SUBSET Nat, S # {}
    PROVE  \E p \in S : \A q \in S : p <= q
<1>1. PICK p \in S : \A q \in S : ~(<<q, p>> \in OpToRel(<, Nat))
  BY NatLessThanWellFounded, WFMin
<1>2. ASSUME NEW q \in S, q < p PROVE FALSE
  <2>1. <<q, p>> \in OpToRel(<, Nat)
    BY <1>2 DEF OpToRel
  <2> QED BY <1>1, <2>1
<1> QED BY <1>2

-----------------------------------------------------------------------------
(* The rows of a text.                                                     *)

Text == Seq(Byte)
Rows == Seq(Text) \ {<<>>}

\* The rows read so far, after each byte.
RowsRead(f, n, read) == f = [k \in 0..n |-> IF k = 0 THEN <<<<>>>> ELSE RowsWith(f[k - 1], read[k])]

LEMMA RowsReadExist ==
  ASSUME NEW read, NEW count \in Nat
  PROVE  \E f : RowsRead(f, count, read)
<1> DEFINE Bad == {c \in Nat : ~\E f : RowsRead(f, c, read)}
<1>1. SUFFICES ASSUME Bad # {} PROVE FALSE
  OBVIOUS
<1>2. PICK c \in Bad : \A k \in Bad : c <= k
  BY <1>1, Least
<1>3. c # 0
  <2>1. RowsRead([k \in 0..0 |-> <<<<>>>>], 0, read)
    BY DEF RowsRead
  <2>2. 0 \notin Bad
    BY <2>1
  <2> QED BY <1>2, <2>2
<1>4. c \in Nat /\ c - 1 \in Nat /\ c - 1 \notin Bad
  BY <1>2, <1>3
<1>5. PICK f : RowsRead(f, c - 1, read)
  BY <1>4
<1>6. \A k \in 0..(c - 1) : f[k] = IF k = 0 THEN <<<<>>>> ELSE RowsWith(f[k - 1], read[k])
  BY <1>5 DEF RowsRead
<1>7. PICK last : last = RowsWith(f[c - 1], read[c])
  OBVIOUS
<1>8. PICK g : g = [k \in 0..c |-> IF k = c THEN last ELSE f[k]]
  OBVIOUS
<1>9. ASSUME NEW k \in 0..c
      PROVE  g[k] = IF k = 0 THEN <<<<>>>> ELSE RowsWith(g[k - 1], read[k])
  <2>1. CASE k = 0
    BY <1>3, <1>4, <1>6, <1>8, <2>1
  <2>2. CASE k # 0
    <3>1. k - 1 \in 0..c /\ k - 1 # c /\ g[k - 1] = f[k - 1]
      BY <1>4, <1>8, <2>2
    <3>2. CASE k = c
      BY <1>4, <1>7, <1>8, <2>2, <3>1, <3>2
    <3>3. CASE k # c
      <4>1. k \in 0..(c - 1) /\ g[k] = f[k]
        BY <1>4, <1>8, <3>3
      <4> QED BY <1>6, <2>2, <3>1, <4>1
    <3> QED BY <3>2, <3>3
  <2> QED BY <2>1, <2>2
<1>10. g = [k \in 0..c |-> IF k = 0 THEN <<<<>>>> ELSE RowsWith(g[k - 1], read[k])]
  <2>1. g = [k \in 0..c |-> g[k]]
    BY <1>8
  <2> QED BY <1>9, <2>1
<1>11. RowsRead(g, c, read)
  BY <1>10 DEF RowsRead
<1> QED BY <1>2, <1>11

\* Two texts that begin alike have rows that begin alike.
LEMMA RowsReadAgree ==
  ASSUME NEW m \in Nat, NEW n \in Nat, NEW s, NEW t, NEW f, NEW g,
         RowsRead(f, m, s), RowsRead(g, n, t),
         NEW k \in Nat, k <= m, k <= n, \A i \in 1..k : s[i] = t[i]
  PROVE  f[k] = g[k]
<1>1. \A i \in 0..m : f[i] = IF i = 0 THEN <<<<>>>> ELSE RowsWith(f[i - 1], s[i])
  BY DEF RowsRead
<1>2. \A i \in 0..n : g[i] = IF i = 0 THEN <<<<>>>> ELSE RowsWith(g[i - 1], t[i])
  BY DEF RowsRead
<1> DEFINE Bad == {i \in 0..k : f[i] # g[i]}
<1>3. ASSUME Bad # {} PROVE FALSE
  <2>1. Bad \in SUBSET Nat
    OBVIOUS
  <2>2. PICK c \in Bad : \A i \in Bad : c <= i
    BY <1>3, <2>1, Least
  <2>3. c \in 0..k /\ c \in 0..m /\ c \in 0..n /\ f[c] # g[c]
    BY <2>2
  <2>4. c # 0
    BY <1>1, <1>2, <2>3
  <2>5. c - 1 \in 0..k /\ ~(c <= c - 1) /\ c \in 1..k
    BY <2>3, <2>4
  <2>6. f[c - 1] = g[c - 1]
    BY <2>2, <2>5
  <2>7. s[c] = t[c]
    BY <2>5
  <2>8. f[c] = RowsWith(f[c - 1], s[c]) /\ g[c] = RowsWith(g[c - 1], t[c])
    BY <1>1, <1>2, <2>3, <2>4
  <2> QED BY <2>3, <2>6, <2>7, <2>8
<1>4. k \in 0..k /\ k \notin Bad
  BY <1>3
<1> QED BY <1>4

LEMMA LinesAre ==
  ASSUME NEW t, Len(t) \in Nat
  PROVE  \E f : RowsRead(f, Len(t), t) /\ Lines(t) = f[Len(t)]
<1>1. PICK f : /\ f = CHOOSE x : RowsRead(x, Len(t), t)
               /\ RowsRead(f, Len(t), t)
  BY RowsReadExist
<1>2. Lines(t) = f[Len(t)]
  BY <1>1 DEF Lines, RowsRead
<1> QED BY <1>1, <1>2

\* The rows of a text that is longer by one byte.
LEMMA LinesGrow ==
  ASSUME NEW t \in Text, NEW c \in Byte
  PROVE  Lines(Append(t, c)) = RowsWith(Lines(t), c)
<1>1. PICK u, n : u = Append(t, c) /\ n = Len(t)
  OBVIOUS
<1>2. n \in Nat /\ Len(u) = n + 1 /\ u[n + 1] = c /\ \A i \in 1..n : u[i] = t[i]
  BY <1>1, LenProperties, AppendProperties DEF Text
<1>3. PICK f : RowsRead(f, n, t) /\ Lines(t) = f[n]
  BY <1>1, <1>2, LinesAre
<1>4. PICK g : RowsRead(g, n + 1, u) /\ Lines(u) = g[n + 1]
  <2>1. Len(u) \in Nat
    BY <1>2
  <2> QED BY <1>2, <2>1, LinesAre
<1>5. n + 1 \in Nat /\ n <= n + 1 /\ n <= n
  BY <1>2
<1>6. f[n] = g[n]
  BY <1>2, <1>3, <1>4, <1>5, RowsReadAgree
<1>7. g[n + 1] = RowsWith(g[n], c)
  <2>1. n + 1 \in 0..(n + 1) /\ n + 1 # 0 /\ (n + 1) - 1 = n
    BY <1>2
  <2>2. g[n + 1] = RowsWith(g[(n + 1) - 1], u[n + 1])
    BY <1>4, <2>1 DEF RowsRead
  <2> QED BY <1>2, <2>1, <2>2
<1> QED BY <1>1, <1>3, <1>4, <1>6, <1>7

LEMMA LinesOfNothing == Lines(<<>>) = <<<<>>>>
<1>1. PICK f : RowsRead(f, 0, <<>>) /\ Lines(<<>>) = f[0]
  <2>1. Len(<<>>) = 0
    OBVIOUS
  <2> QED BY <2>1, LinesAre
<1>2. f[0] = <<<<>>>>
  BY <1>1 DEF RowsRead
<1> QED BY <1>1, <1>2

\* A byte is one that goes to the last row, or begins another.
LEMMA RowsWithIs ==
  ASSUME NEW ls \in Rows, NEW c \in Byte
  PROVE  /\ RowsWith(ls, c) \in Rows
         /\ c = "lf" => /\ Len(RowsWith(ls, c)) = Len(ls) + 1 /\ RowsWith(ls, c)[Len(ls) + 1] = <<>>
                        /\ \A i \in 1..Len(ls) : RowsWith(ls, c)[i] = ls[i]
         /\ c # "lf" => /\ Len(RowsWith(ls, c)) = Len(ls) /\ RowsWith(ls, c)[Len(ls)] = Append(ls[Len(ls)], c)
                        /\ \A i \in 1..Len(ls) - 1 : RowsWith(ls, c)[i] = ls[i]
<1>1. ls \in Seq(Text) /\ ls # <<>> /\ Len(ls) \in Nat \ {0}
  BY EmptySeq DEF Rows
<1>2. PICK n, last, more : n = Len(ls) /\ last = ls[Len(ls)] /\ more = Append(ls[Len(ls)], c)
  OBVIOUS
<1>3. last \in Text /\ more \in Text /\ n \in 1..Len(ls)
  BY <1>1, <1>2, ElementOfSeq, AppendProperties DEF Text
<1>4. CASE c = "lf"
  <2>1. <<>> \in Text
    BY EmptySeq DEF Text
  <2>2. RowsWith(ls, c) = Append(ls, <<>>)
    BY <1>4 DEF RowsWith
  <2> QED BY <1>1, <1>4, <2>1, <2>2, AppendProperties DEF Rows
<1>5. CASE c # "lf"
  <2>1. RowsWith(ls, c) = [ls EXCEPT ![n] = more]
    BY <1>1, <1>2, <1>5, LenProperties DEF RowsWith
  <2>2. PICK ms : ms = [ls EXCEPT ![n] = more]
    OBVIOUS
  <2>3. /\ ms \in Seq(Text) /\ Len(ms) = Len(ls)
        /\ \A j \in 1..Len(ls) : ms[j] = IF j = n THEN more ELSE ls[j]
    BY <1>1, <1>3, <2>2, ExceptSeq
  <2>4. ms # <<>>
    BY <1>1, <2>3
  <2>5. \A i \in 1..Len(ls) - 1 : i \in 1..Len(ls) /\ i # n
    BY <1>1, <1>2
  <2> QED BY <1>2, <1>3, <1>5, <2>1, <2>2, <2>3, <2>4, <2>5 DEF Rows
<1> QED BY <1>4, <1>5

\* What holds of no bytes, and of one more if of those before, holds of a text: here, that there
\* is a row.
LEMMA LinesAreRows ==
  ASSUME NEW t \in Text
  PROVE  Lines(t) \in Rows
<1> DEFINE Bad == {n \in Nat : \E s \in Text : Len(s) = n /\ Lines(s) \notin Rows}
<1>1. ASSUME Bad # {} PROVE FALSE
  <2>1. PICK n \in Bad : \A k \in Bad : n <= k
    BY <1>1, Least
  <2>2. PICK s \in Text : Len(s) = n /\ Lines(s) \notin Rows
    BY <2>1
  <2>3. s # <<>>
    <3>1. <<<<>>>> \in Rows
      BY EmptySeq DEF Rows, Text
    <3> QED BY <2>2, <3>1, LinesOfNothing
  <2>4. PICK u \in Text, c \in Byte : s = Append(u, c)
    BY <2>3, SequenceEmptyOrAppend DEF Text
  <2>5. Len(u) \in Nat /\ ~(n <= Len(u))
    BY <2>2, <2>4, LenProperties, AppendProperties DEF Text
  <2>6. Lines(u) \in Rows
    BY <2>1, <2>5
  <2> QED BY <2>2, <2>4, <2>6, LinesGrow, RowsWithIs
<1>2. Len(t) \in Nat /\ Len(t) \notin Bad
  BY <1>1, LenProperties DEF Text
<1> QED BY <1>2

\* What a text and one that follows it have as rows: the last row of one goes on in the first
\* of the other.
Glued(zs, xs, ys) ==
    /\ zs \in Rows /\ Len(zs) = Len(xs) + Len(ys) - 1
    /\ \A i \in 1..Len(xs) - 1 : zs[i] = xs[i]
    /\ zs[Len(xs)] = xs[Len(xs)] \o ys[1]
    /\ \A i \in 2..Len(ys) : zs[Len(xs) + i - 1] = ys[i]

LEMMA AppendToBoth ==
  ASSUME NEW s \in Text, NEW t \in Text, NEW c \in Byte
  PROVE  s \o t \in Text /\ Append(s \o t, c) = s \o Append(t, c)
<1>1. t \o <<c>> = Append(t, c) /\ <<c>> \in Seq(Byte)
  BY AppendIsConcat DEF Text
<1>2. (s \o t) \o <<c>> = s \o (t \o <<c>>) /\ s \o t \in Text
  <2>1. s \in Seq(Byte) /\ t \in Seq(Byte)
    BY DEF Text
  <2>2. (s \o t) \o <<c>> = s \o (t \o <<c>>)
    BY SMTT(60), <1>1, <2>1, ConcatAssociative
  <2> QED BY <2>1, <2>2, ConcatProperties DEF Text
<1>3. Append(s \o t, c) = (s \o t) \o <<c>>
  BY <1>2, AppendIsConcat DEF Text
<1> QED BY <1>1, <1>2, <1>3

LEMMA RowsAre ==
  ASSUME NEW xs \in Rows
  PROVE  /\ xs \in Seq(Text) /\ Len(xs) \in Nat /\ Len(xs) >= 1
         /\ \A i \in 1..Len(xs) : xs[i] \in Text
  BY EmptySeq, ElementOfSeq DEF Rows

LEMMA GluedIsOne ==
  ASSUME NEW xs \in Rows, NEW ys \in Rows, NEW zs, NEW us, Glued(zs, xs, ys), Glued(us, xs, ys)
  PROVE  zs = us
<1>1. PICK m, n : m = Len(xs) /\ n = Len(ys)
  OBVIOUS
<1>2. m \in Nat /\ n \in Nat /\ m >= 1 /\ n >= 1
  BY <1>1, RowsAre
<1>3. zs \in Seq(Text) /\ us \in Seq(Text) /\ Len(zs) = m + n - 1 /\ Len(us) = m + n - 1
  BY <1>1, RowsAre DEF Glued
<1>4. ASSUME NEW i \in 1..Len(zs) PROVE zs[i] = us[i]
  <2>1. CASE i \in 1..m - 1
    BY <1>1, <2>1 DEF Glued
  <2>2. CASE i = m
    BY <1>1, <2>2 DEF Glued
  <2>3. CASE i \in m + 1..m + n - 1
    <3>1. PICK j \in 2..n : i = m + j - 1
      <4>1. i - m + 1 \in 2..n /\ i = m + (i - m + 1) - 1
        BY <1>2, <2>3
      <4> QED BY <4>1
    <3> QED BY <1>1, <3>1 DEF Glued
  <2> QED BY <1>2, <1>3, <2>1, <2>2, <2>3
<1> QED BY <1>3, <1>4, SeqEqual

LEMMA GluedToNothing ==
  ASSUME NEW xs \in Rows
  PROVE  Glued(xs, xs, <<<<>>>>)
<1>1. Len(xs) \in Nat /\ Len(xs) >= 1 /\ xs[Len(xs)] \in Text
  BY RowsAre
<1>2. xs[Len(xs)] \o <<>> = xs[Len(xs)]
  BY <1>1, ConcatEmptySeq DEF Text
<1>3. PICK nothing : nothing = <<<<>>>>
  OBVIOUS
<1>4. Len(nothing) = 1 /\ nothing[1] = <<>>
  BY <1>3
<1>5. Len(xs) = Len(xs) + Len(nothing) - 1 /\ 2..Len(nothing) = {}
  BY <1>1, <1>4
<1>6. xs[Len(xs)] = xs[Len(xs)] \o nothing[1]
  BY <1>2, <1>4
<1>7. Glued(xs, xs, nothing)
  BY <1>5, <1>6 DEF Glued
<1> QED BY <1>3, <1>7

\* A byte behind both goes to the last row of both.
LEMMA GluedGrow ==
  ASSUME NEW xs \in Rows, NEW ys \in Rows, NEW zs, Glued(zs, xs, ys), NEW c \in Byte
  PROVE  Glued(RowsWith(zs, c), xs, RowsWith(ys, c))
<1>1. PICK m, n, vs, ws : m = Len(xs) /\ n = Len(ys) /\ vs = RowsWith(zs, c) /\ ws = RowsWith(ys, c)
  OBVIOUS
<1>2. m \in Nat /\ n \in Nat /\ m >= 1 /\ n >= 1
  BY <1>1, RowsAre
<1>3. zs \in Rows /\ Len(zs) = m + n - 1
  BY <1>1 DEF Glued
<1>4. xs[m] \in Text /\ ys[1] \in Text
  BY <1>1, <1>2, RowsAre
<1>5. vs \in Rows /\ ws \in Rows
  BY <1>1, <1>3, RowsWithIs
<1>6. CASE c = "lf"
  <2>1. Len(vs) = m + n /\ vs[m + n] = <<>> /\ \A i \in 1..m + n - 1 : vs[i] = zs[i]
    <3>1. PICK l : l = Len(zs)
      OBVIOUS
    <3>2. Len(vs) = l + 1 /\ vs[l + 1] = <<>> /\ \A i \in 1..l : vs[i] = zs[i]
      BY <1>1, <1>3, <1>6, <3>1, RowsWithIs
    <3>3. l = m + n - 1 /\ l + 1 = m + n
      BY <1>2, <1>3, <3>1
    <3> QED BY <3>2, <3>3
  <2>2. Len(ws) = n + 1 /\ ws[n + 1] = <<>> /\ \A i \in 1..n : ws[i] = ys[i]
    BY <1>1, <1>6, RowsWithIs
  <2>3. ASSUME NEW i \in 1..m - 1 PROVE vs[i] = xs[i]
    <3>1. i \in 1..m + n - 1
      BY <1>2
    <3> QED BY <1>1, <2>1, <3>1 DEF Glued
  <2>4. vs[m] = xs[m] \o ws[1]
    <3>1. m \in 1..m + n - 1 /\ 1 \in 1..n
      BY <1>2
    <3> QED BY <1>1, <2>1, <2>2, <3>1 DEF Glued
  <2>5. ASSUME NEW i \in 2..n + 1 PROVE vs[m + i - 1] = ws[i]
    <3>1. CASE i = n + 1
      <4>1. m + i - 1 = m + n
        BY <1>2, <3>1
      <4> QED BY <2>1, <2>2, <3>1, <4>1
    <3>2. CASE i # n + 1
      <4>1. i \in 2..n /\ i \in 1..n /\ m + i - 1 \in 1..m + n - 1
        BY <1>2, <3>2
      <4>2. zs[m + i - 1] = ys[i]
        BY <1>1, <4>1 DEF Glued
      <4> QED BY <2>1, <2>2, <4>1, <4>2
    <3> QED BY <3>1, <3>2
  <2>6. Len(vs) = m + Len(ws) - 1
    BY <1>2, <2>1, <2>2
  <2>7. Glued(vs, xs, ws)
    BY <1>1, <1>5, <2>2, <2>3, <2>4, <2>5, <2>6 DEF Glued
  <2> QED BY <1>1, <2>7
<1>7. CASE c # "lf"
  <2>1. /\ Len(vs) = m + n - 1 /\ vs[m + n - 1] = Append(zs[m + n - 1], c)
        /\ \A i \in 1..m + n - 1 - 1 : vs[i] = zs[i]
    <3>1. PICK l : l = Len(zs)
      OBVIOUS
    <3>2. Len(vs) = l /\ vs[l] = Append(zs[l], c) /\ \A i \in 1..l - 1 : vs[i] = zs[i]
      BY <1>1, <1>3, <1>7, <3>1, RowsWithIs
    <3>3. l = m + n - 1
      BY <1>3, <3>1
    <3>4. \A i \in 1..m + n - 1 - 1 : i \in 1..l - 1
      BY <1>2, <3>3
    <3>5. vs[m + n - 1] = Append(zs[m + n - 1], c)
      BY <3>2, <3>3, Zenon
    <3> QED BY <3>2, <3>3, <3>4, <3>5
  <2>2. Len(ws) = n /\ ws[n] = Append(ys[n], c) /\ \A i \in 1..n - 1 : ws[i] = ys[i]
    BY <1>1, <1>7, RowsWithIs
  <2>3. ASSUME NEW i \in 1..m - 1 PROVE vs[i] = xs[i]
    <3>1. i \in 1..m + n - 1 - 1
      BY <1>2
    <3> QED BY <1>1, <2>1, <3>1 DEF Glued
  <2>4. vs[m] = xs[m] \o ws[1]
    <3>1. CASE n = 1
      <4>1. m + n - 1 = m
        BY <1>2, <3>1
      <4>2. zs[m] = xs[m] \o ys[1]
        BY <1>1 DEF Glued
      <4>3. vs[m] = Append(xs[m] \o ys[1], c) /\ ws[1] = Append(ys[1], c)
        BY <2>1, <2>2, <3>1, <4>1, <4>2
      <4>4. Append(xs[m] \o ys[1], c) = xs[m] \o Append(ys[1], c)
        BY <1>4, AppendToBoth
      <4> QED BY <4>3, <4>4
    <3>2. CASE n # 1
      <4>1. m \in 1..m + n - 1 - 1 /\ 1 \in 1..n - 1
        BY <1>2, <3>2
      <4> QED BY <1>1, <2>1, <2>2, <4>1 DEF Glued
    <3> QED BY <3>1, <3>2
  <2>5. ASSUME NEW i \in 2..n PROVE vs[m + i - 1] = ws[i]
    <3>1. zs[m + i - 1] = ys[i]
      BY <1>1 DEF Glued
    <3>2. CASE i = n
      BY <2>1, <2>2, <3>1, <3>2
    <3>3. CASE i # n
      <4>1. i \in 1..n - 1 /\ m + i - 1 \in 1..m + n - 1 - 1
        BY <1>2, <3>3
      <4> QED BY <2>1, <2>2, <3>1, <4>1
    <3> QED BY <3>2, <3>3
  <2>6. Len(vs) = m + Len(ws) - 1
    BY <2>1, <2>2
  <2>7. Glued(vs, xs, ws)
    BY <1>1, <1>5, <2>2, <2>3, <2>4, <2>5, <2>6 DEF Glued
  <2> QED BY <1>1, <2>7
<1> QED BY <1>6, <1>7

LEMMA LinesGlue ==
  ASSUME NEW s \in Text, NEW t \in Text
  PROVE  Glued(Lines(s \o t), Lines(s), Lines(t))
<1>1. PICK Bad : Bad = {n \in Nat : \E u \in Text : Len(u) = n /\ ~Glued(Lines(s \o u), Lines(s), Lines(u))}
  OBVIOUS
<1>2. ASSUME Bad # {} PROVE FALSE
  <2>1. PICK n \in Bad : \A k \in Bad : n <= k
    BY <1>1, <1>2, Least
  <2>2. PICK u \in Text : Len(u) = n /\ ~Glued(Lines(s \o u), Lines(s), Lines(u))
    BY <1>1, <2>1
  <2>3. u # <<>>
    <3>1. s \o <<>> = s
      BY ConcatEmptySeq DEF Text
    <3>2. Glued(Lines(s), Lines(s), <<<<>>>>)
      BY LinesAreRows, GluedToNothing
    <3> QED BY <2>2, <3>1, <3>2, LinesOfNothing
  <2>4. PICK v \in Text, c \in Byte : u = Append(v, c)
    BY <2>3, SequenceEmptyOrAppend DEF Text
  <2>5. Len(v) \in Nat /\ ~(n <= Len(v))
    BY <2>2, <2>4, LenProperties, AppendProperties DEF Text
  <2>6. Glued(Lines(s \o v), Lines(s), Lines(v))
    <3>1. Len(v) \notin Bad
      BY <2>1, <2>5
    <3> QED BY <1>1, <2>5, <3>1
  <2>7. s \o u = Append(s \o v, c) /\ s \o v \in Text
    BY <2>4, AppendToBoth
  <2>8. Lines(s \o u) = RowsWith(Lines(s \o v), c) /\ Lines(u) = RowsWith(Lines(v), c)
    BY <2>4, <2>7, LinesGrow
  <2>9. Glued(RowsWith(Lines(s \o v), c), Lines(s), RowsWith(Lines(v), c))
    BY <2>6, LinesAreRows, GluedGrow
  <2> QED BY <2>2, <2>8, <2>9
<1>3. Len(t) \in Nat /\ Len(t) \notin Bad
  BY <1>2, LenProperties DEF Text
<1> QED BY <1>1, <1>3

-----------------------------------------------------------------------------
(* The text of rows.                                                       *)

\* The text so far, after each row.
AllJoined(f, n, ls) == f = [k \in 1..n |-> IF k = 1 THEN ls[1] ELSE f[k - 1] \o <<"lf">> \o ls[k]]

JoinsRow(f, ls, k) == f[k] = f[k - 1] \o <<"lf">> \o ls[k]

LEMMA AllJoinedAt ==
  ASSUME NEW f, NEW n, NEW ls, AllJoined(f, n, ls), NEW k \in 1..n, k # 1
  PROVE  JoinsRow(f, ls, k)
  BY DEF AllJoined, JoinsRow

LEMMA AllJoinedExist ==
  ASSUME NEW ls, NEW count \in Nat
  PROVE  \E f : AllJoined(f, count, ls)
<1> DEFINE Bad == {c \in Nat : ~\E f : AllJoined(f, c, ls)}
<1>1. SUFFICES ASSUME Bad # {} PROVE FALSE
  OBVIOUS
<1>2. PICK c \in Bad : \A k \in Bad : c <= k
  BY <1>1, Least
<1>3. c # 0
  <2>1. PICK f : f = [k \in 1..0 |-> <<>>]
    OBVIOUS
  <2>2. f = [k \in 1..0 |-> IF k = 1 THEN ls[1] ELSE f[k - 1] \o <<"lf">> \o ls[k]]
    BY <2>1
  <2>3. 0 \notin Bad
    BY <2>2 DEF AllJoined
  <2> QED BY <1>2, <2>3
<1>4. c \in Nat /\ c - 1 \in Nat /\ c - 1 \notin Bad
  BY <1>2, <1>3
<1>5. PICK f : AllJoined(f, c - 1, ls)
  BY <1>4
<1>6. \A k \in 1..(c - 1) : f[k] = IF k = 1 THEN ls[1] ELSE f[k - 1] \o <<"lf">> \o ls[k]
  BY <1>5 DEF AllJoined
<1>7. PICK last : last = IF c = 1 THEN ls[1] ELSE f[c - 1] \o <<"lf">> \o ls[c]
  OBVIOUS
<1>8. PICK g : g = [k \in 1..c |-> IF k = c THEN last ELSE f[k]]
  OBVIOUS
<1>9. ASSUME NEW k \in 1..c
      PROVE  g[k] = IF k = 1 THEN ls[1] ELSE g[k - 1] \o <<"lf">> \o ls[k]
  <2>1. k # 1 => k - 1 \in 1..c /\ k - 1 # c /\ g[k - 1] = f[k - 1]
    BY <1>4, <1>8
  <2>2. CASE k = c
    BY <1>4, <1>7, <1>8, <2>1, <2>2
  <2>3. CASE k # c
    <3>1. k \in 1..(c - 1) /\ g[k] = f[k]
      BY <1>4, <1>8, <2>3
    <3> QED BY <1>6, <2>1, <3>1
  <2> QED BY <2>2, <2>3
<1>10. g = [k \in 1..c |-> IF k = 1 THEN ls[1] ELSE g[k - 1] \o <<"lf">> \o ls[k]]
  <2>1. g = [k \in 1..c |-> g[k]]
    BY <1>8
  <2> QED BY <1>9, <2>1
<1>11. AllJoined(g, c, ls)
  BY <1>10 DEF AllJoined
<1> QED BY <1>2, <1>11

\* It is a text, and the same for rows that begin alike.
LEMMA AllJoinedAre ==
  ASSUME NEW n \in Nat, NEW ls, NEW f, AllJoined(f, n, ls), \A i \in 1..n : ls[i] \in Text
  PROVE  \A k \in 1..n : f[k] \in Text
<1>1. \A k \in 1..n : f[k] = IF k = 1 THEN ls[1] ELSE f[k - 1] \o <<"lf">> \o ls[k]
  BY DEF AllJoined
<1> DEFINE Bad == {k \in 1..n : f[k] \notin Text}
<1>2. ASSUME Bad # {} PROVE FALSE
  <2>1. Bad \in SUBSET Nat
    OBVIOUS
  <2>2. PICK c \in Bad : \A i \in Bad : c <= i
    BY <1>2, <2>1, Least
  <2>3. c \in 1..n /\ f[c] \notin Text /\ ls[c] \in Text
    BY <2>2
  <2>4. c # 1
    BY <1>1, <2>3
  <2>5. c - 1 \in 1..n /\ ~(c <= c - 1)
    BY <2>3, <2>4
  <2>6. PICK a, b : a = f[c - 1] /\ b = ls[c]
    OBVIOUS
  <2>7. a \in Text /\ b \in Text
    BY <2>2, <2>3, <2>5, <2>6
  <2>8. <<"lf">> \in Text
    BY DEF Text, Byte
  <2>9. a \o <<"lf">> \o b \in Text
    BY <2>7, <2>8, ConcatProperties DEF Text
  <2> QED BY <1>1, <2>3, <2>4, <2>6, <2>9
<1> QED BY <1>2

LEMMA AllJoinedAgree ==
  ASSUME NEW m \in Nat, NEW n \in Nat, NEW ls, NEW ms, NEW f, NEW g,
         AllJoined(f, m, ls), AllJoined(g, n, ms),
         NEW k \in Nat, k >= 1, k <= m, k <= n, \A i \in 1..k : ls[i] = ms[i]
  PROVE  f[k] = g[k]
<1>1. \A i \in 1..m : f[i] = IF i = 1 THEN ls[1] ELSE f[i - 1] \o <<"lf">> \o ls[i]
  BY DEF AllJoined
<1>2. \A i \in 1..n : g[i] = IF i = 1 THEN ms[1] ELSE g[i - 1] \o <<"lf">> \o ms[i]
  BY DEF AllJoined
<1> DEFINE Bad == {i \in 1..k : f[i] # g[i]}
<1>3. ASSUME Bad # {} PROVE FALSE
  <2>1. Bad \in SUBSET Nat
    OBVIOUS
  <2>2. PICK c \in Bad : \A i \in Bad : c <= i
    BY <1>3, <2>1, Least
  <2>3. c \in 1..k /\ c \in 1..m /\ c \in 1..n /\ f[c] # g[c] /\ ls[c] = ms[c]
    BY <2>2
  <2>4. c # 1
    BY <1>1, <1>2, <2>3
  <2>5. c - 1 \in 1..k /\ ~(c <= c - 1)
    BY <2>3, <2>4
  <2>6. f[c - 1] = g[c - 1]
    BY <2>2, <2>5
  <2>7. f[c] = f[c - 1] \o <<"lf">> \o ls[c] /\ g[c] = g[c - 1] \o <<"lf">> \o ms[c]
    BY <1>1, <1>2, <2>3, <2>4
  <2> QED BY <2>3, <2>6, <2>7
<1>4. k \in 1..k /\ k \notin Bad
  BY <1>3
<1> QED BY <1>4

LEMMA JoinedIs ==
  ASSUME NEW ls, Len(ls) \in Nat
  PROVE  \E f : AllJoined(f, Len(ls), ls) /\ Joined(ls) = f[Len(ls)]
<1>1. PICK f : /\ f = CHOOSE x : AllJoined(x, Len(ls), ls)
               /\ AllJoined(f, Len(ls), ls)
  BY AllJoinedExist
<1>2. Joined(ls) = f[Len(ls)]
  BY <1>1 DEF Joined, AllJoined
<1> QED BY <1>1, <1>2

\* A byte more at the end of the rows is one more at the end of the text.
LEMMA JoinedGrow ==
  ASSUME NEW ls \in Rows, NEW c \in Byte
  PROVE  Joined(ls) \in Text /\ Joined(RowsWith(ls, c)) = Append(Joined(ls), c)
<1>1. PICK n, ms : n = Len(ls) /\ ms = RowsWith(ls, c)
  OBVIOUS
<1>2. n \in Nat /\ n >= 1 /\ \A i \in 1..n : ls[i] \in Text
  BY <1>1, RowsAre
<1>3. PICK f : AllJoined(f, n, ls) /\ Joined(ls) = f[n]
  BY <1>1, <1>2, JoinedIs
<1>4. f[n] \in Text
  <2>1. n \in 1..n
    BY <1>2
  <2> QED BY <1>2, <1>3, <2>1, AllJoinedAre
<1>5. n \in Nat /\ Len(ms) \in Nat
  BY <1>1, <1>2, RowsWithIs, RowsAre
<1>6. PICK g : AllJoined(g, Len(ms), ms) /\ Joined(ms) = g[Len(ms)]
  BY <1>5, JoinedIs
<1>7. CASE c = "lf"
  <2>1. Len(ms) = n + 1 /\ ms[n + 1] = <<>> /\ \A i \in 1..n : ms[i] = ls[i]
    BY <1>1, <1>7, RowsWithIs
  <2>2. AllJoined(g, n + 1, ms)
    BY <1>6, <2>1
  <2>3. n <= n /\ n <= n + 1 /\ n + 1 \in Nat /\ \A i \in 1..n : ls[i] = ms[i]
    BY <1>2, <2>1
  <2>4. f[n] = g[n]
    BY <1>2, <1>3, <2>2, <2>3, AllJoinedAgree
  <2>5. g[n + 1] = g[n] \o <<"lf">> \o <<>>
    <3>1. n + 1 \in 1..n + 1 /\ n + 1 # 1 /\ (n + 1) - 1 = n
      BY <1>2
    <3>2. g[n + 1] = g[(n + 1) - 1] \o <<"lf">> \o ms[n + 1]
      <4>1. JoinsRow(g, ms, n + 1)
        BY <2>2, <3>1, AllJoinedAt
      <4> QED BY <4>1 DEF JoinsRow
    <3> QED BY <2>1, <3>1, <3>2
  <2>6. PICK a : a = f[n]
    OBVIOUS
  <2>7. a \in Seq(Byte) /\ <<"lf">> \in Seq(Byte) /\ a \o <<"lf">> \in Seq(Byte)
    <3>1. a \in Seq(Byte)
      BY <1>4, <2>6 DEF Text
    <3>2. <<"lf">> \in Seq(Byte)
      BY DEF Byte
    <3> QED BY <3>1, <3>2, ConcatProperties
  <2>8. a \o <<"lf">> \o <<>> = a \o <<"lf">>
    BY <2>7, ConcatEmptySeq
  <2>9. Append(a, c) = a \o <<"lf">>
    BY <1>7, <2>7, AppendIsConcat
  <2> QED BY <1>1, <1>3, <1>4, <1>6, <2>1, <2>4, <2>5, <2>6, <2>8, <2>9
<1>8. CASE c # "lf"
  <2>1. Len(ms) = n /\ ms[n] = Append(ls[n], c) /\ \A i \in 1..n - 1 : ms[i] = ls[i]
    BY <1>1, <1>8, RowsWithIs
  <2>2. AllJoined(g, n, ms)
    BY <1>6, <2>1
  <2>3. n \in 1..n
    BY <1>2
  <2>4. CASE n = 1
    <3>1. f[1] = ls[1] /\ g[1] = ms[1]
      BY <1>3, <2>2, <2>4 DEF AllJoined
    <3> QED BY <1>1, <1>3, <1>4, <1>6, <2>1, <2>4, <3>1
  <2>5. CASE n # 1
    <3>1. n - 1 \in Nat /\ n - 1 >= 1 /\ n - 1 <= n /\ \A i \in 1..n - 1 : ls[i] = ms[i]
      BY <1>2, <2>1, <2>5
    <3>2. f[n - 1] = g[n - 1]
      BY <1>2, <1>3, <2>2, <3>1, AllJoinedAgree
    <3>3. f[n] = f[n - 1] \o <<"lf">> \o ls[n] /\ g[n] = g[n - 1] \o <<"lf">> \o ms[n]
      <4>1. JoinsRow(f, ls, n)
        BY <1>3, <2>3, <2>5, AllJoinedAt
      <4>2. JoinsRow(g, ms, n)
        BY <2>2, <2>3, <2>5, AllJoinedAt
      <4> QED BY <4>1, <4>2 DEF JoinsRow
    <3>4. PICK a, b : a = f[n - 1] \o <<"lf">> /\ b = ls[n]
      OBVIOUS
    <3>5. a \in Text /\ b \in Text
      <4>1. n - 1 \in 1..n
        BY <1>2, <2>5
      <4>2. f[n - 1] \in Text /\ ls[n] \in Text
        BY <1>2, <1>3, <2>3, <4>1, AllJoinedAre
      <4>3. <<"lf">> \in Text
        BY DEF Text, Byte
      <4> QED BY <3>4, <4>2, <4>3, ConcatProperties DEF Text
    <3>6. a \o Append(b, c) = Append(a \o b, c)
      BY <3>5, AppendToBoth
    <3>7. f[n] = a \o b
      BY <3>3, <3>4
    <3>8. g[n] = a \o Append(b, c)
      BY <2>1, <3>2, <3>3, <3>4
    <3>9. g[n] = Append(f[n], c)
      BY <3>6, <3>7, <3>8
    <3> QED BY <1>1, <1>3, <1>4, <1>6, <2>1, <3>9
  <2> QED BY <2>4, <2>5
<1> QED BY <1>7, <1>8

\* The rows of a text, joined, are the text.
LEMMA JoinedLines ==
  ASSUME NEW t \in Text
  PROVE  Joined(Lines(t)) = t
<1> DEFINE Bad == {n \in Nat : \E s \in Text : Len(s) = n /\ Joined(Lines(s)) # s}
<1>1. ASSUME Bad # {} PROVE FALSE
  <2>1. PICK n \in Bad : \A k \in Bad : n <= k
    BY <1>1, Least
  <2>2. PICK s \in Text : Len(s) = n /\ Joined(Lines(s)) # s
    BY <2>1
  <2>3. s # <<>>
    <3>1. PICK ls : ls = <<<<>>>>
      OBVIOUS
    <3>2. Len(ls) = 1 /\ ls[1] = <<>>
      BY <3>1
    <3>3. PICK f : AllJoined(f, 1, ls) /\ Joined(ls) = f[1]
      <4>1. Len(ls) \in Nat
        BY <3>2
      <4>2. PICK f : AllJoined(f, Len(ls), ls) /\ Joined(ls) = f[Len(ls)]
        BY <4>1, JoinedIs
      <4> QED BY <3>2, <4>2
    <3>4. f[1] = ls[1]
      BY <3>3 DEF AllJoined
    <3> QED BY <2>2, <3>1, <3>2, <3>3, <3>4, LinesOfNothing
  <2>4. PICK u \in Text, c \in Byte : s = Append(u, c)
    BY <2>3, SequenceEmptyOrAppend DEF Text
  <2>5. Len(u) \in Nat /\ ~(n <= Len(u))
    BY <2>2, <2>4, LenProperties, AppendProperties DEF Text
  <2>6. Joined(Lines(u)) = u
    BY <2>1, <2>5
  <2>7. Lines(s) = RowsWith(Lines(u), c) /\ Lines(u) \in Rows
    BY <2>4, LinesGrow, LinesAreRows
  <2> QED BY <2>2, <2>4, <2>6, <2>7, JoinedGrow
<1>2. Len(t) \in Nat /\ Len(t) \notin Bad
  BY <1>1, LenProperties DEF Text
<1> QED BY <1>2

-----------------------------------------------------------------------------
(* What the bytes of the keys do to the rows.                              *)

\* A text is parted where it was put together.
LEMMA Parts ==
  ASSUME NEW s \in Text, NEW t \in Text
  PROVE  /\ s \o t \in Text /\ Len(s) \in Nat /\ Len(t) \in Nat /\ Len(s \o t) = Len(s) + Len(t)
         /\ SubSeq(s \o t, 1, Len(s)) = s
         /\ SubSeq(s \o t, Len(s) + 1, Len(s \o t)) = t
<1>1. PICK m, n, u : m = Len(s) /\ n = Len(t) /\ u = s \o t
  OBVIOUS
<1>2. m \in Nat /\ n \in Nat /\ u \in Text /\ Len(u) = m + n
  BY <1>1, LenProperties, ConcatProperties DEF Text
<1>3. \A i \in 1..m + n : u[i] = IF i <= m THEN s[i] ELSE t[i - m]
  BY <1>1, ConcatProperties DEF Text
<1>4. \A i \in 1..m + n : u[i] \in Byte
  BY <1>2, ElementOfSeq DEF Text
<1>5. SubSeq(u, 1, m) = s
  <2>1. PICK v : v = SubSeq(u, 1, m)
    OBVIOUS
  <2>2. \A i \in 1..m : i \in 1..m + n
    BY <1>2
  <2>3. v \in Seq(Byte) /\ Len(v) = m /\ \A i \in 1..m : v[i] = u[i]
    BY <1>2, <1>4, <2>1, <2>2, SubSeqProperties
  <2>4. \A i \in 1..Len(v) : v[i] = s[i]
    BY <1>2, <1>3, <2>3
  <2> QED BY <1>1, <2>1, <2>3, <2>4, SeqEqual DEF Text
<1>6. SubSeq(u, m + 1, m + n) = t
  <2>1. PICK v : v = SubSeq(u, m + 1, m + n)
    OBVIOUS
  <2>2. \A i \in m + 1..m + n : i \in 1..m + n
    BY <1>2
  <2>3. v \in Seq(Byte) /\ Len(v) = n /\ \A i \in 1..n : v[i] = u[m + i]
    BY <1>2, <1>4, <2>1, <2>2, SubSeqProperties
  <2>4. \A i \in 1..Len(v) : v[i] = t[i]
    BY <1>2, <1>3, <2>3
  <2> QED BY <1>1, <2>1, <2>3, <2>4, SeqEqual DEF Text
<1> QED BY <1>1, <1>2, <1>5, <1>6

\* Another row at the cursor.
LEMMA RowReplaced ==
  ASSUME NEW xs \in Rows, NEW ys \in Rows, NEW zs, Glued(zs, xs, ys),
         NEW us \in Rows, Len(us) = Len(xs), \A i \in 1..Len(xs) - 1 : us[i] = xs[i]
  PROVE  Glued([zs EXCEPT ![Len(xs)] = us[Len(us)] \o ys[1]], us, ys)
<1>1. PICK m, n, row, vs : m = Len(xs) /\ n = Len(ys) /\ row = us[m] \o ys[1] /\ vs = [zs EXCEPT ![m] = row]
  OBVIOUS
<1>2. m \in Nat /\ m >= 1 /\ n \in Nat /\ n >= 1 /\ us[m] \in Text /\ ys[1] \in Text
  BY <1>1, RowsAre
<1>3. zs \in Seq(Text) /\ Len(zs) = m + n - 1
  BY <1>1, RowsAre DEF Glued
<1>4. row \in Text /\ m \in 1..Len(zs)
  <2>1. row \in Text
    BY <1>1, <1>2, Parts
  <2> QED BY <1>2, <1>3, <2>1
<1>5. vs \in Seq(Text) /\ Len(vs) = Len(zs) /\ \A j \in 1..Len(zs) : vs[j] = IF j = m THEN row ELSE zs[j]
  BY <1>1, <1>3, <1>4, ExceptSeq
<1>6. vs \in Rows
  <2>1. vs # <<>>
    BY <1>2, <1>3, <1>5
  <2> QED BY <1>5, <2>1 DEF Rows
<1>7. ASSUME NEW i \in 1..m - 1 PROVE vs[i] = us[i]
  <2>1. i \in 1..Len(zs) /\ i # m
    BY <1>2, <1>3
  <2> QED BY <1>1, <1>5, <2>1 DEF Glued
<1>8. vs[m] = us[m] \o ys[1]
  BY <1>1, <1>4, <1>5
<1>9. ASSUME NEW i \in 2..n PROVE vs[m + i - 1] = ys[i]
  <2>1. m + i - 1 \in 1..Len(zs) /\ m + i - 1 # m
    BY <1>2, <1>3
  <2> QED BY <1>1, <1>5, <2>1 DEF Glued
<1>10. Glued(vs, us, ys)
  BY <1>1, <1>3, <1>5, <1>6, <1>7, <1>8, <1>9 DEF Glued
<1> QED BY <1>1, <1>10

\* A letter is put between the two texts.
LEMMA LetterPut ==
  ASSUME NEW xs \in Rows, NEW ys \in Rows, NEW zs, Glued(zs, xs, ys), NEW c \in Byte, c # "lf"
  PROVE  Glued([zs EXCEPT ![Len(xs)] = InsertAt(@, Len(xs[Len(xs)]) + 1, c)], RowsWith(xs, c), ys)
<1>1. PICK m, a, b, row, us : /\ m = Len(xs) /\ a = xs[m] /\ b = ys[1] /\ row = zs[m] /\ us = RowsWith(xs, c)
  OBVIOUS
<1>2. m \in Nat /\ m >= 1 /\ a \in Text /\ b \in Text /\ row = a \o b
  BY <1>1, RowsAre DEF Glued
<1>3. us \in Rows /\ Len(us) = m /\ us[m] = Append(a, c) /\ \A i \in 1..m - 1 : us[i] = xs[i]
  BY <1>1, RowsWithIs
<1>4. InsertAt(row, Len(a) + 1, c) = Append(a, c) \o b
  <2>1. PICK k : k = Len(a)
    OBVIOUS
  <2>2. k \in Nat /\ (k + 1) - 1 = k
    BY <1>2, <2>1, LenProperties DEF Text
  <2>3. InsertAt(row, k + 1, c) = SubSeq(row, 1, k) \o <<c>> \o SubSeq(row, k + 1, Len(row))
    BY <2>2 DEF InsertAt
  <2>4. SubSeq(row, 1, k) = a /\ SubSeq(row, k + 1, Len(row)) = b
    BY <1>2, <2>1, Parts
  <2>5. Append(a, c) = a \o <<c>>
    BY <1>2, AppendIsConcat DEF Text
  <2> QED BY <2>1, <2>3, <2>4, <2>5
<1>5. Glued([zs EXCEPT ![m] = us[Len(us)] \o b], us, ys)
  BY <1>1, <1>3, RowReplaced
<1>6. [zs EXCEPT ![m] = InsertAt(@, Len(a) + 1, c)] = [zs EXCEPT ![m] = us[Len(us)] \o b]
  BY <1>1, <1>3, <1>4
<1> QED BY <1>1, <1>5, <1>6

\* A letter is taken from the end of the first text, and no zero stands behind it in the row.
LEMMA LetterTaken ==
  ASSUME NEW us \in Rows, NEW ys \in Rows, NEW c \in Byte, c # "lf", NEW zs, Glued(zs, RowsWith(us, c), ys),
         NEW m, NEW k, m = Len(us), k = Len(us[m]) + 1, \A i \in k + 1..Len(zs[m]) : zs[m][i] # "nul"
  PROVE  Glued([zs EXCEPT ![m] = Without(@, k)], us, ys)
<1>1. PICK xs, a, b, row : xs = RowsWith(us, c) /\ a = us[m] /\ b = ys[1] /\ row = zs[m]
  OBVIOUS
<1>2. xs \in Rows /\ Len(xs) = m /\ xs[m] = Append(a, c) /\ \A i \in 1..m - 1 : xs[i] = us[i]
  BY <1>1, RowsWithIs
<1>3. m \in Nat /\ m >= 1 /\ a \in Text /\ b \in Text
  BY <1>1, RowsAre
<1>4. row = Append(a, c) \o b
  BY <1>1, <1>2 DEF Glued
<1>5. PICK l, n : l = Len(a) /\ n = Len(row)
  OBVIOUS
<1>6. /\ l \in Nat /\ Len(b) \in Nat /\ n = l + 1 + Len(b) /\ k = l + 1
      /\ \A i \in 1..l : row[i] = a[i]
      /\ \A i \in l + 2..n : row[i] = b[i - l - 1]
  <2>1. PICK d : d = Append(a, c)
    OBVIOUS
  <2>2. l \in Nat /\ Len(b) \in Nat /\ d \in Seq(Byte) /\ Len(d) = l + 1 /\ \A i \in 1..l : d[i] = a[i]
    BY <1>3, <1>5, <2>1, LenProperties, AppendProperties DEF Text
  <2>3. n = l + 1 + Len(b) /\ \A i \in 1..n : row[i] = IF i <= l + 1 THEN d[i] ELSE b[i - (l + 1)]
    BY <1>3, <1>4, <1>5, <2>1, <2>2, ConcatProperties DEF Text
  <2>4. \A i \in 1..l : i \in 1..n /\ i <= l + 1
    <3>1. n \in Nat /\ n >= l + 1 /\ l \in Nat
      BY <2>2, <2>3
    <3> QED BY <3>1
  <2>5. \A i \in l + 2..n : i \in 1..n /\ ~(i <= l + 1) /\ i - (l + 1) = i - l - 1
    BY <2>2, <2>3
  <2>6. \A i \in 1..l : row[i] = a[i]
    BY <2>2, <2>3, <2>4
  <2>7. \A i \in l + 2..n : row[i] = b[i - l - 1]
    BY <2>3, <2>5
  <2>8. k = l + 1
    BY <1>1, <1>5
  <2> QED BY <2>2, <2>3, <2>6, <2>7, <2>8
<1>7. PICK moved : moved = [i \in 1..n |-> IF i < k THEN row[i] ELSE IF i < n THEN row[i + 1] ELSE "nul"]
  OBVIOUS
<1>8. ASSUME NEW i \in k..n, moved[i] = "nul" PROVE i = n
  <2>1. CASE i < n
    <3>1. i \in 1..n /\ moved[i] = row[i + 1] /\ i + 1 \in k + 1..n
      BY <1>6, <1>7, <2>1
    <3> QED BY <1>1, <1>5, <1>8, <3>1
  <2> QED BY <1>6, <2>1
<1>9. PICK stop : stop = IF \E i \in k..n : moved[i] = "nul"
                         THEN CHOOSE i \in k..n : moved[i] = "nul" /\ \A j \in k..i - 1 : moved[j] # "nul"
                         ELSE n
  BY SMTT(60)
<1>10. stop = n
  <2>1. n \in k..n /\ moved[n] = "nul" /\ n \in Nat
    BY <1>6, <1>7
  <2>2. \A j \in k..n - 1 : moved[j] # "nul"
    <3>1. \A j \in k..n - 1 : j \in k..n /\ j # n
      BY <1>6, <2>1
    <3> QED BY <1>8, <3>1
  <2>3. \A i \in k..n : moved[i] = "nul" /\ (\A j \in k..i - 1 : moved[j] # "nul") => i = n
    BY <1>8
  <2> QED BY <1>9, <2>1, <2>2, <2>3
<1>11. Without(row, k) = [i \in 1..n - 1 |-> IF i <= stop THEN moved[i] ELSE row[i]]
  BY <1>5, <1>7, <1>9 DEF Without
<1>12. Without(row, k) = a \o b
  <2>1. PICK w, v : w = Without(row, k) /\ v = a \o b
    OBVIOUS
  <2>2. v \in Seq(Byte) /\ Len(v) = n - 1 /\ \A i \in 1..n - 1 : v[i] = IF i <= l THEN a[i] ELSE b[i - l]
    BY <1>3, <1>5, <1>6, <2>1, ConcatProperties DEF Text
  <2>3. ASSUME NEW i \in 1..n - 1 PROVE w[i] = v[i]
    <3>1. i \in 1..n /\ i <= stop /\ w[i] = moved[i]
      BY <1>6, <1>10, <1>11, <2>1
    <3>2. CASE i <= l
      <4>1. i < k /\ i \in 1..l
        BY <1>6, <3>2
      <4> QED BY <1>6, <1>7, <2>2, <3>1, <3>2, <4>1
    <3>3. CASE ~(i <= l)
      <4>1. ~(i < k) /\ i < n /\ i + 1 \in l + 2..n /\ (i + 1) - l - 1 = i - l
        <5>1. l \in Nat /\ n \in Nat /\ k = l + 1 /\ i \in 1..n - 1
          BY <1>6
        <5> QED BY SMTT(60), <3>3, <5>1
      <4>2. moved[i] = row[i + 1]
        <5>1. moved[i] = IF i < k THEN row[i] ELSE IF i < n THEN row[i + 1] ELSE "nul"
          BY <1>7, <3>1
        <5> QED BY <4>1, <5>1
      <4>3. row[i + 1] = b[(i + 1) - l - 1]
        BY <1>6, <4>1
      <4> QED BY <2>2, <3>1, <3>3, <4>1, <4>2, <4>3
    <3> QED BY <3>2, <3>3
  <2>4. w = [i \in 1..n - 1 |-> w[i]]
    BY <1>11, <2>1
  <2>5. v = [i \in 1..n - 1 |-> v[i]]
    BY <2>2, LenProperties
  <2> QED BY <2>1, <2>3, <2>4, <2>5
<1>13. Glued([zs EXCEPT ![Len(xs)] = us[Len(us)] \o ys[1]], us, ys)
  BY <1>1, <1>2, RowReplaced
<1>14. [zs EXCEPT ![m] = Without(@, k)] = [zs EXCEPT ![m] = us[Len(us)] \o ys[1]]
  BY <1>1, <1>12
<1> QED BY <1>2, <1>13, <1>14

\* One sequence behind another, place by place.
Follows(u, s, t) ==
    /\ Len(u) = Len(s) + Len(t)
    /\ \A i \in 1..Len(s) : u[i] = s[i]
    /\ \A i \in 1..Len(t) : u[Len(s) + i] = t[i]

LEMMA Behind ==
  ASSUME NEW S, NEW s \in Seq(S), NEW t \in Seq(S)
  PROVE  s \o t \in Seq(S) /\ Follows(s \o t, s, t)
<1>1. PICK u, m, n : u = s \o t /\ m = Len(s) /\ n = Len(t)
  OBVIOUS
<1>2. m \in Nat /\ n \in Nat
  BY <1>1, LenProperties
<1>3. u \in Seq(S) /\ Len(u) = m + n /\ \A i \in 1..m + n : u[i] = IF i <= m THEN s[i] ELSE t[i - m]
  BY <1>1, ConcatProperties
<1>4. \A i \in 1..m : u[i] = s[i]
  BY <1>2, <1>3
<1>5. \A i \in 1..n : u[m + i] = t[i]
  <2>1. \A i \in 1..n : m + i \in 1..m + n /\ ~(m + i <= m) /\ (m + i) - m = i
    BY <1>2
  <2> QED BY <1>3, <2>1
<1> QED BY <1>1, <1>3, <1>4, <1>5 DEF Follows

\* A line feed is put between the two texts.
LEMMA FeedPut ==
  ASSUME NEW xs \in Rows, NEW ys \in Rows, NEW zs, Glued(zs, xs, ys), NEW m, NEW k, NEW row,
         m = Len(xs), k = Len(xs[m]), row = zs[m]
  PROVE  Glued(SubSeq(zs, 1, m - 1) \o <<SubSeq(row, 1, k), SubSeq(row, k + 1, Len(row))>> \o SubSeq(zs, m + 1, Len(zs)),
               RowsWith(xs, "lf"), ys)
<1>1. PICK a, b, n, us : a = xs[m] /\ b = ys[1] /\ n = Len(ys) /\ us = RowsWith(xs, "lf")
  OBVIOUS
<1>2. m \in Nat /\ m >= 1 /\ n \in Nat /\ n >= 1 /\ a \in Text /\ b \in Text /\ row = a \o b
  BY <1>1, RowsAre DEF Glued
<1>3. zs \in Seq(Text) /\ Len(zs) = m + n - 1 /\ \A i \in 1..Len(zs) : zs[i] \in Text
  BY <1>1, RowsAre DEF Glued
<1>4. us \in Rows /\ Len(us) = m + 1 /\ us[m + 1] = <<>> /\ \A i \in 1..m : us[i] = xs[i]
  <2>1. "lf" \in Byte
    BY DEF Byte
  <2> QED BY <1>1, <2>1, RowsWithIs
<1>5. SubSeq(row, 1, k) = a /\ SubSeq(row, k + 1, Len(row)) = b
  <2>1. SubSeq(a \o b, 1, Len(a)) = a /\ SubSeq(a \o b, Len(a) + 1, Len(a \o b)) = b
    BY <1>2, Parts
  <2> QED BY <1>1, <1>2, <2>1
<1>6. PICK p, q, r : p = SubSeq(zs, 1, m - 1) /\ q = <<a, b>> /\ r = SubSeq(zs, m + 1, m + n - 1)
  OBVIOUS
<1>7. p \in Seq(Text) /\ Len(p) = m - 1 /\ \A i \in 1..m - 1 : p[i] = zs[i]
  <2>1. \A i \in 1..m - 1 : i \in 1..Len(zs)
    BY <1>2, <1>3
  <2> QED BY <1>2, <1>3, <1>6, <2>1, SubSeqProperties
<1>8. q \in Seq(Text) /\ Len(q) = 2 /\ q[1] = a /\ q[2] = b
  BY <1>2, <1>6
<1>9. r \in Seq(Text) /\ Len(r) = n - 1 /\ \A i \in 1..n - 1 : r[i] = zs[m + i]
  <2>1. \A i \in m + 1..m + n - 1 : i \in 1..Len(zs)
    BY <1>2, <1>3
  <2> QED BY <1>2, <1>3, <1>6, <2>1, SubSeqProperties
<1>10. PICK t : t = p \o q
  OBVIOUS
<1>11. t \in Seq(Text) /\ Len(t) = m + 1 /\ t[m] = a /\ t[m + 1] = b /\ \A i \in 1..m - 1 : t[i] = p[i]
  <2>1. PICK l : l = m - 1
    OBVIOUS
  <2>2. l \in Nat /\ 2 \in Nat
    BY <1>2, <2>1
  <2>3. t \in Seq(Text) /\ Len(t) = l + 2 /\ (\A i \in 1..l : t[i] = p[i]) /\ \A i \in 1..2 : t[l + i] = q[i]
    <3>1. p \in Seq(Text) /\ q \in Seq(Text) /\ Len(p) = l /\ Len(q) = 2 /\ l \in Nat /\ 2 \in Nat
      BY <1>7, <1>8, <1>10, <2>1, <2>2
    <3>2. t \in Seq(Text) /\ Follows(t, p, q)
      BY <3>1, <1>10, Behind
    <3> QED BY <3>1, <3>2 DEF Follows
  <2>4. t[l + 1] = q[1] /\ t[l + 2] = q[2] /\ l + 1 = m /\ l + 2 = m + 1
    BY <1>2, <2>1, <2>3
  <2> QED BY <1>8, <2>1, <2>3, <2>4
<1>12. PICK v : v = t \o r
  OBVIOUS
<1>13. /\ v \in Seq(Text) /\ Len(v) = m + n
       /\ \A i \in 1..m + 1 : v[i] = t[i]
       /\ \A i \in 1..n - 1 : v[m + 1 + i] = r[i]
  <2>1. PICK l, o : l = m + 1 /\ o = n - 1
    OBVIOUS
  <2>2. l \in Nat /\ o \in Nat /\ l + o = m + n
    BY <1>2, <2>1
  <2>3. /\ v \in Seq(Text) /\ Len(v) = l + o
        /\ \A i \in 1..l : v[i] = t[i]
        /\ \A i \in 1..o : v[l + i] = r[i]
    <3>1. t \in Seq(Text) /\ r \in Seq(Text) /\ Len(t) = l /\ Len(r) = o /\ l \in Nat /\ o \in Nat
      BY <1>9, <1>11, <1>12, <2>1, <2>2
    <3>2. v \in Seq(Text) /\ Follows(v, t, r)
      BY <3>1, <1>12, Behind
    <3> QED BY <3>1, <3>2 DEF Follows
  <2> QED BY <2>1, <2>2, <2>3
<1>14. v \in Rows
  <2>1. v # <<>>
    BY <1>2, <1>13
  <2> QED BY <1>13, <2>1 DEF Rows
<1>15. ASSUME NEW i \in 1..m PROVE v[i] = us[i]
  <2>1. i \in 1..m + 1 /\ v[i] = t[i]
    BY <1>2, <1>13
  <2>2. CASE i = m
    BY <1>1, <1>4, <1>11, <2>1, <2>2
  <2>3. CASE i # m
    <3>1. i \in 1..m - 1
      BY <1>2, <2>3
    <3>2. zs[i] = xs[i]
      BY <3>1 DEF Glued
    <3> QED BY <1>4, <1>7, <1>11, <2>1, <3>1, <3>2
  <2> QED BY <2>2, <2>3
<1>16. v[m + 1] = us[m + 1] \o ys[1]
  <2>1. m + 1 \in 1..m + 1
    BY <1>2
  <2>2. v[m + 1] = b
    BY <1>11, <1>13, <2>1
  <2>3. <<>> \o b = b
    BY <1>2, ConcatEmptySeq DEF Text
  <2> QED BY <1>1, <1>4, <2>2, <2>3
<1>17. ASSUME NEW i \in 2..n PROVE v[m + 1 + i - 1] = ys[i]
  <2>1. i - 1 \in 1..n - 1 /\ m + 1 + (i - 1) = m + 1 + i - 1 /\ m + (i - 1) = m + i - 1
    BY <1>2
  <2>2. v[m + 1 + (i - 1)] = r[i - 1]
    BY <1>13, <2>1
  <2>3. r[i - 1] = zs[m + (i - 1)]
    BY <1>9, <2>1
  <2>4. zs[m + i - 1] = ys[i]
    BY <1>1 DEF Glued
  <2> QED BY <2>1, <2>2, <2>3, <2>4
<1>18. Glued(v, us, ys)
  <2>1. \A i \in 1..Len(us) - 1 : v[i] = us[i]
    BY <1>2, <1>4, <1>15
  <2>2. v[Len(us)] = us[Len(us)] \o ys[1]
    BY <1>4, <1>16
  <2>3. \A i \in 2..Len(ys) : v[Len(us) + i - 1] = ys[i]
    BY <1>1, <1>4, <1>17
  <2>4. Len(v) = Len(us) + Len(ys) - 1
    <3>1. m + n = m + 1 + n - 1
      BY <1>2
    <3> QED BY <1>1, <1>4, <1>13, <3>1
  <2> QED BY <1>14, <2>1, <2>2, <2>3, <2>4 DEF Glued
<1> QED BY <1>1, <1>3, <1>5, <1>6, <1>10, <1>12, <1>18

\* A row goes behind the one above.
RowsJoined(zs, r) == SubSeq(zs, 1, r - 2) \o <<zs[r - 1] \o zs[r]>> \o SubSeq(zs, r + 1, Len(zs))

\* A line feed is taken from the end of the first text.
LEMMA FeedTaken ==
  ASSUME NEW us \in Rows, NEW ys \in Rows, NEW zs, Glued(zs, RowsWith(us, "lf"), ys), NEW m, m = Len(us)
  PROVE  Glued(RowsJoined(zs, m + 1), us, ys)
<1>1. PICK xs, a, b, n : xs = RowsWith(us, "lf") /\ a = us[m] /\ b = ys[1] /\ n = Len(ys)
  OBVIOUS
<1>2. m \in Nat /\ m >= 1 /\ n \in Nat /\ n >= 1 /\ a \in Text /\ b \in Text
  BY <1>1, RowsAre
<1>3. xs \in Rows /\ Len(xs) = m + 1 /\ xs[m + 1] = <<>> /\ \A i \in 1..m : xs[i] = us[i]
  <2>1. "lf" \in Byte
    BY DEF Byte
  <2> QED BY <1>1, <2>1, RowsWithIs
<1>4. /\ zs \in Seq(Text) /\ Len(zs) = m + n
      /\ \A i \in 1..m : zs[i] = xs[i]
      /\ zs[m + 1] = xs[m + 1] \o ys[1]
      /\ \A i \in 2..n : zs[m + i] = ys[i]
  <2>1. zs \in Rows /\ Len(zs) = m + 1 + n - 1
    BY <1>1, <1>3 DEF Glued
  <2>2. ASSUME NEW i \in 1..m PROVE zs[i] = xs[i]
    <3>1. i \in 1..Len(xs) - 1
      BY <1>2, <1>3
    <3> QED BY <1>1, <3>1 DEF Glued
  <2>3. zs[m + 1] = xs[m + 1] \o ys[1]
    BY <1>1, <1>3 DEF Glued
  <2>4. ASSUME NEW i \in 2..n PROVE zs[m + i] = ys[i]
    <3>1. Len(xs) + i - 1 = m + i
      BY <1>2, <1>3
    <3>2. zs[Len(xs) + i - 1] = ys[i]
      BY <1>1 DEF Glued
    <3> QED BY <3>1, <3>2
  <2> QED BY <1>2, <2>1, <2>2, <2>3, <2>4, RowsAre
<1>5. \A i \in 1..m + n : zs[i] \in Text
  BY <1>4, ElementOfSeq
<1>6. zs[m] = a /\ zs[m + 1] = b /\ a \o b \in Text
  <2>1. m \in 1..m
    BY <1>2
  <2>2. <<>> \o b = b
    BY <1>2, ConcatEmptySeq DEF Text
  <2>3. a \o b \in Text
    BY <1>2, Parts
  <2> QED BY <1>1, <1>3, <1>4, <2>1, <2>2, <2>3
<1>7. PICK p, q, r : p = SubSeq(zs, 1, m - 1) /\ q = <<a \o b>> /\ r = SubSeq(zs, m + 2, m + n)
  OBVIOUS
<1>8. p \in Seq(Text) /\ Len(p) = m - 1 /\ \A i \in 1..m - 1 : p[i] = zs[i]
  <2>1. \A i \in 1..m - 1 : i \in 1..m + n
    BY <1>2
  <2> QED BY <1>2, <1>5, <1>7, <2>1, SubSeqProperties
<1>9. q \in Seq(Text) /\ Len(q) = 1 /\ q[1] = a \o b
  BY <1>6, <1>7
<1>10. r \in Seq(Text) /\ Len(r) = n - 1 /\ \A i \in 1..n - 1 : r[i] = zs[m + 1 + i]
  <2>1. \A i \in m + 2..m + n : i \in 1..m + n
    BY <1>2
  <2> QED BY <1>2, <1>5, <1>7, <2>1, SubSeqProperties
<1>11. PICK t : t = p \o q
  OBVIOUS
<1>12. t \in Seq(Text) /\ Len(t) = m /\ t[m] = a \o b /\ \A i \in 1..m - 1 : t[i] = p[i]
  <2>1. PICK l : l = m - 1
    OBVIOUS
  <2>2. l \in Nat /\ 1 \in Nat
    BY <1>2, <2>1
  <2>3. t \in Seq(Text) /\ Len(t) = l + 1 /\ (\A i \in 1..l : t[i] = p[i]) /\ \A i \in 1..1 : t[l + i] = q[i]
    <3>1. p \in Seq(Text) /\ q \in Seq(Text) /\ Len(p) = l /\ Len(q) = 1 /\ l \in Nat /\ 1 \in Nat
      BY <1>8, <1>9, <1>11, <2>1, <2>2
    <3>2. t \in Seq(Text) /\ Follows(t, p, q)
      BY <3>1, <1>11, Behind
    <3> QED BY <3>1, <3>2 DEF Follows
  <2>4. t[l + 1] = q[1] /\ l + 1 = m
    BY <1>2, <2>1, <2>3
  <2> QED BY <1>9, <2>1, <2>3, <2>4
<1>13. PICK v : v = t \o r
  OBVIOUS
<1>14. /\ v \in Seq(Text) /\ Len(v) = m + n - 1
       /\ \A i \in 1..m : v[i] = t[i]
       /\ \A i \in 1..n - 1 : v[m + i] = r[i]
  <2>1. PICK o : o = n - 1
    OBVIOUS
  <2>2. o \in Nat /\ m + o = m + n - 1
    BY <1>2, <2>1
  <2>3. /\ v \in Seq(Text) /\ Len(v) = m + o
        /\ \A i \in 1..m : v[i] = t[i]
        /\ \A i \in 1..o : v[m + i] = r[i]
    <3>1. t \in Seq(Text) /\ r \in Seq(Text) /\ Len(t) = m /\ Len(r) = o /\ m \in Nat /\ o \in Nat
      BY <1>2, <1>10, <1>12, <1>13, <2>1, <2>2
    <3>2. v \in Seq(Text) /\ Follows(v, t, r)
      BY <3>1, <1>13, Behind
    <3> QED BY <3>1, <3>2 DEF Follows
  <2> QED BY <2>1, <2>2, <2>3
<1>15. v \in Rows
  <2>1. v # <<>>
    BY <1>2, <1>14
  <2> QED BY <1>14, <2>1 DEF Rows
<1>16. ASSUME NEW i \in 1..m - 1 PROVE v[i] = us[i]
  <2>1. i \in 1..m
    BY <1>2
  <2> QED BY <1>3, <1>4, <1>8, <1>12, <1>14, <2>1
<1>17. v[m] = us[m] \o ys[1]
  <2>1. m \in 1..m
    BY <1>2
  <2> QED BY <1>1, <1>12, <1>14, <2>1
<1>18. ASSUME NEW i \in 2..n PROVE v[m + i - 1] = ys[i]
  <2>1. i - 1 \in 1..n - 1 /\ m + (i - 1) = m + i - 1 /\ m + 1 + (i - 1) = m + i
    BY <1>2
  <2>2. v[m + (i - 1)] = r[i - 1]
    BY <1>14, <2>1
  <2>3. r[i - 1] = zs[m + 1 + (i - 1)]
    BY <1>10, <2>1
  <2>4. zs[m + i] = ys[i]
    BY <1>4
  <2> QED BY <2>1, <2>2, <2>3, <2>4
<1>19. Glued(v, us, ys)
  BY <1>1, <1>14, <1>15, <1>16, <1>17, <1>18 DEF Glued
<1>20. RowsJoined(zs, m + 1) = SubSeq(zs, 1, m - 1) \o <<zs[m] \o zs[m + 1]>> \o SubSeq(zs, m + 2, Len(zs))
  <2>1. PICK rr, pp, qq : rr = m + 1 /\ pp = m - 1 /\ qq = m + 2
    OBVIOUS
  <2>2. rr - 2 = pp /\ rr - 1 = m /\ rr + 1 = qq
    BY <1>2, <2>1
  <2>3. RowsJoined(zs, rr) = SubSeq(zs, 1, pp) \o <<zs[m] \o zs[rr]>> \o SubSeq(zs, qq, Len(zs))
    BY <2>2 DEF RowsJoined
  <2> QED BY <2>1, <2>3
<1> QED BY <1>4, <1>6, <1>7, <1>11, <1>13, <1>19, <1>20

-----------------------------------------------------------------------------
(* The editor serves.                                                      *)

\* The rows are those of two texts, and the cursor is between the two.
Placed(zs, r, k, s, t) == zs = Lines(s \o t) /\ r = Len(Lines(s)) /\ k = Len(Last(Lines(s)))

LEMMA PlacedIsGlued ==
  ASSUME NEW s \in Text, NEW t \in Text, NEW zs, NEW r, NEW k
  PROVE  Placed(zs, r, k, s, t) <=> /\ Glued(zs, Lines(s), Lines(t))
                                    /\ r = Len(Lines(s)) /\ k = Len(Lines(s)[r])
<1>1. Glued(Lines(s \o t), Lines(s), Lines(t)) /\ Lines(s) \in Rows /\ Lines(t) \in Rows
  BY LinesGlue, LinesAreRows
<1>2. Last(Lines(s)) = Lines(s)[Len(Lines(s))]
  BY DEF Last
<1>3. Glued(zs, Lines(s), Lines(t)) => zs = Lines(s \o t)
  BY <1>1, GluedIsOne
<1> QED BY <1>1, <1>2, <1>3 DEF Placed

EditorOK ==
    /\ before \in Text /\ behind \in Text /\ pressed \in Nat
    /\ pressed = 0 => disk \in Text
    /\ editing = "closed" => /\ before = <<>> /\ behind = <<>>
                             /\ rows = <<<<>>>> /\ currentrow = 1 /\ currentcol = 0
    /\ TextIsEdited /\ WrittenIsText

LEMMA TextIsPlaced ==
    TextIsEdited <=> ("Nul" \notin blunders => Placed(rows, currentrow, currentcol, before, behind))
  BY DEF TextIsEdited, Placed

LEMMA FrontOfAppend ==
  ASSUME NEW b \in Text, NEW c \in Byte
  PROVE  Front(Append(b, c)) = b
<1>1. <<c>> \in Text /\ Append(b, c) = b \o <<c>> /\ Len(<<c>>) = 1
  BY AppendIsConcat DEF Text
<1>2. PICK u, n : u = b \o <<c>> /\ n = Len(b)
  OBVIOUS
<1>3. n \in Nat /\ Len(u) = n + 1 /\ SubSeq(u, 1, n) = b
  BY <1>1, <1>2, Parts
<1>4. Len(u) - 1 = n
  BY <1>3
<1> QED BY <1>1, <1>2, <1>3, <1>4 DEF Front

LEMMA NothingIsPlaced ==
  <<>> \in Text /\ Placed(<<<<>>>>, 1, 0, <<>>, <<>>)
<1>1. <<>> \in Text /\ <<>> \o <<>> = <<>>
  BY EmptySeq, ConcatEmptySeq DEF Text
<1>2. PICK ls : ls = <<<<>>>>
  OBVIOUS
<1>3. Len(ls) = 1 /\ Last(ls) = <<>> /\ Len(<<>>) = 0
  BY <1>2 DEF Last
<1>4. Lines(<<>>) = ls
  BY <1>2, LinesOfNothing
<1> QED BY <1>1, <1>2, <1>3, <1>4 DEF Placed

LEMMA EditorStarts == EditorInit => EditorOK
<1> SUFFICES ASSUME EditorInit PROVE EditorOK
  OBVIOUS
<1>1. disk \in Text
  BY EditorAssumption DEF EditorInit, Text
<1>2. TextIsEdited
  BY NothingIsPlaced, TextIsPlaced DEF EditorInit
<1> QED BY <1>1, <1>2, NothingIsPlaced DEF EditorInit, EditorOK, WrittenIsText

LEMMA OpenFileKeeps ==
  ASSUME EditorOK, NEW access, OpenFile(access)
  PROVE  EditorOK'
<1>1. /\ pressed = 0 /\ pressed' = 1 /\ disk \in Text /\ editing = "closed"
      /\ before = <<>> /\ rows = <<<<>>>> /\ currentrow = 1 /\ currentcol = 0
  BY DEF EditorOK, OpenFile
<1>2. before' = <<>> /\ currentrow' = 1 /\ currentcol' = 0 /\ disk' = disk /\ written' = written /\ blunders' = blunders
  BY <1>1 DEF OpenFile
<1>3. WrittenIsText'
  BY <1>2 DEF EditorOK, WrittenIsText
<1>4. CASE access = "none"
  <2>1. editing' = "closed" /\ rows' = <<<<>>>> /\ behind' = <<>>
    BY <1>1, <1>4 DEF OpenFile
  <2>2. TextIsEdited'
    BY <1>2, <2>1, NothingIsPlaced DEF TextIsEdited, Placed
  <2> QED BY <1>1, <1>2, <1>3, <2>1, <2>2, NothingIsPlaced DEF EditorOK
<1>5. CASE access # "none"
  <2>1. editing' = "editing" /\ rows' = Lines(disk) /\ behind' = disk
    BY <1>5 DEF OpenFile
  <2>2. <<>> \o disk = disk
    BY <1>1, ConcatEmptySeq DEF Text
  <2>3. Placed(rows', 1, 0, <<>>, behind')
    BY <2>1, <2>2, NothingIsPlaced DEF Placed
  <2>4. TextIsEdited'
    BY <1>2, <2>3 DEF TextIsEdited, Placed
  <2> QED BY <1>1, <1>2, <1>3, <2>1, <2>4, NothingIsPlaced DEF EditorOK
<1> QED BY <1>4, <1>5

\* A byte that moves the cursor: what is behind it stays.
LEMMA EditKeeps ==
  ASSUME EditorOK, ReadByte("editing"), editing' = editing,
         disk' = disk, written' = written, behind' = behind,
         before' \in Text, blunders' = {} => blunders = {},
         "Nul" \notin blunders' => Placed(rows', currentrow', currentcol', before', behind)
  PROVE  EditorOK'
<1>1. editing' = "editing" /\ pressed \in Nat /\ pressed' = pressed + 1
  BY DEF EditorOK, ReadByte
<1>2. pressed' \in Nat /\ pressed' # 0
  BY <1>1
<1>3. WrittenIsText'
  BY DEF EditorOK, WrittenIsText
<1>4. TextIsEdited'
  BY DEF TextIsEdited, Placed
<1> QED BY <1>1, <1>2, <1>3, <1>4 DEF EditorOK

LEMMA TypeKeeps ==
  ASSUME EditorOK, NEW c \in Letter, Type(c)
  PROVE  EditorOK'
<1>1. c \in Byte /\ c # "lf"
  BY EditorAssumption DEF Byte
<1>2. before \in Text /\ behind \in Text /\ before' = Append(before, c) /\ before' \in Text
  BY <1>1, AppendProperties DEF EditorOK, Type, Text
<1>3. ASSUME "Nul" \notin blunders
      PROVE  Placed(rows', currentrow', currentcol', before', behind)
  <2>1. PICK xs, ys : xs = Lines(before) /\ ys = Lines(behind)
    OBVIOUS
  <2>2. xs \in Rows /\ ys \in Rows
    BY <1>2, <2>1, LinesAreRows
  <2>3. Placed(rows, currentrow, currentcol, before, behind)
    BY <1>3, TextIsPlaced DEF EditorOK
  <2>4. Glued(rows, xs, ys) /\ currentrow = Len(xs) /\ currentcol = Len(xs[Len(xs)])
    BY <1>2, <2>1, <2>3, PlacedIsGlued
  <2>5. PICK a, us : a = xs[Len(xs)] /\ us = RowsWith(xs, c)
    OBVIOUS
  <2>6. Glued(rows', us, ys)
    <3>1. rows' = [rows EXCEPT ![Len(xs)] = InsertAt(@, Len(xs[Len(xs)]) + 1, c)]
      BY <2>4 DEF Type
    <3> QED BY <1>1, <2>2, <2>4, <2>5, <3>1, LetterPut
  <2>7. us = Lines(before')
    BY <1>1, <1>2, <2>1, <2>5, LinesGrow
  <2>8. currentrow' = Len(us) /\ currentcol' = Len(us[Len(us)])
    <3>1. a \in Text
      BY <2>2, <2>5, RowsAre
    <3>2. Len(us) = Len(xs) /\ us[Len(xs)] = Append(a, c)
      BY <1>1, <2>2, <2>5, RowsWithIs
    <3>3. Len(Append(a, c)) = Len(a) + 1
      BY <1>1, <3>1, AppendProperties DEF Text
    <3> QED BY <2>4, <2>5, <3>2, <3>3 DEF Type
  <2> QED BY <1>2, <2>1, <2>6, <2>7, <2>8, PlacedIsGlued
<1> QED BY <1>2, <1>3, EditKeeps DEF Type

LEMMA NewLineKeeps ==
  ASSUME EditorOK, NewLine
  PROVE  EditorOK'
<1>1. "lf" \in Byte
  BY DEF Byte
<1>2. before \in Text /\ behind \in Text /\ before' = Append(before, "lf") /\ before' \in Text
  BY <1>1, AppendProperties DEF EditorOK, NewLine, Text
<1>3. ASSUME "Nul" \notin blunders
      PROVE  Placed(rows', currentrow', currentcol', before', behind)
  <2>1. PICK xs, ys : xs = Lines(before) /\ ys = Lines(behind)
    OBVIOUS
  <2>2. xs \in Rows /\ ys \in Rows
    BY <1>2, <2>1, LinesAreRows
  <2>3. Placed(rows, currentrow, currentcol, before, behind)
    BY <1>3, TextIsPlaced DEF EditorOK
  <2>4. Glued(rows, xs, ys) /\ currentrow = Len(xs) /\ currentcol = Len(xs[Len(xs)])
    BY <1>2, <2>1, <2>3, PlacedIsGlued
  <2>5. PICK us : us = RowsWith(xs, "lf")
    OBVIOUS
  <2>6. PICK zs, m, k, row : zs = rows /\ m = currentrow /\ k = currentcol /\ row = zs[m]
    OBVIOUS
  <2>7. Glued(rows', us, ys)
    <3>1. rows' = SubSeq(zs, 1, m - 1) \o <<SubSeq(row, 1, k), SubSeq(row, k + 1, Len(row))>>
                  \o SubSeq(zs, m + 1, Len(zs))
      BY <2>6 DEF NewLine, Row
    <3>2. Glued(zs, xs, ys) /\ m = Len(xs) /\ k = Len(xs[m])
      BY <2>4, <2>6
    <3> QED BY <2>2, <2>5, <2>6, <3>1, <3>2, FeedPut
  <2>8. us = Lines(before')
    BY <1>1, <1>2, <2>1, <2>5, LinesGrow
  <2>9. currentrow' = Len(us) /\ currentcol' = Len(us[Len(us)])
    <3>1. Len(us) = Len(xs) + 1 /\ us[Len(xs) + 1] = <<>> /\ Len(<<>>) = 0
      BY <1>1, <2>2, <2>5, RowsWithIs
    <3> QED BY <2>4, <3>1 DEF NewLine
  <2> QED BY <1>2, <2>1, <2>7, <2>8, <2>9, PlacedIsGlued
<1> QED BY <1>2, <1>3, EditKeeps DEF NewLine

\* What the cursor sees where the last byte of the first text is a line feed ...
FeedBehind(zs, r, k, us, ys) ==
    /\ k = 0 /\ r \in Nat /\ r > 1 /\ r - 1 = Len(us) /\ Len(zs[r - 1]) = Len(us[Len(us)])
    /\ Glued(RowsJoined(zs, r), us, ys)

LEMMA AtFeed ==
  ASSUME NEW us \in Rows, NEW ys \in Rows, NEW c, c = "lf", NEW zs, Glued(zs, RowsWith(us, c), ys),
         NEW r, NEW k, r = Len(RowsWith(us, c)), k = Len(RowsWith(us, c)[r])
  PROVE  FeedBehind(zs, r, k, us, ys)
<1>1. "lf" \in Byte
  BY DEF Byte
<1>2. PICK m, xs, a : m = Len(us) /\ xs = RowsWith(us, "lf") /\ a = us[m]
  OBVIOUS
<1>3. m \in Nat /\ m >= 1
  BY <1>2, RowsAre
<1>4. Len(xs) = m + 1 /\ xs[m + 1] = <<>> /\ \A i \in 1..m : xs[i] = us[i]
  BY <1>1, <1>2, RowsWithIs
<1>5. r = m + 1 /\ r = Len(xs) /\ k = Len(xs[r]) /\ Glued(zs, xs, ys)
  BY <1>2, <1>4
<1>6. k = 0
  BY <1>4, <1>5, EmptySeq
<1>7. r - 1 = m /\ r > 1 /\ r \in Nat /\ m \in 1..m /\ m \in 1..Len(xs) - 1
  BY <1>3, <1>4, <1>5
<1>8. zs[m] = a
  <2>1. zs[m] = xs[m]
    BY <1>5, <1>7 DEF Glued
  <2>2. xs[m] = us[m]
    BY <1>4, <1>7
  <2> QED BY <1>2, <2>1, <2>2
<1>9. Glued(RowsJoined(zs, r), us, ys)
  <2>1. Glued(zs, RowsWith(us, "lf"), ys) /\ m = Len(us)
    BY <1>2
  <2>2. Glued(RowsJoined(zs, m + 1), us, ys)
    BY <2>1, FeedTaken
  <2> QED BY <1>5, <2>2
<1> QED BY <1>2, <1>6, <1>7, <1>8, <1>9 DEF FeedBehind

\* ... and where it is another byte.
LetterBehind(zs, r, k, us, ys) ==
    /\ k \in Nat /\ k > 0 /\ r = Len(us) /\ k - 1 = Len(us[Len(us)])
    /\ (\A i \in k + 1..Len(zs[r]) : zs[r][i] # "nul") => Glued([zs EXCEPT ![r] = Without(@, k)], us, ys)

LEMMA AtLetter ==
  ASSUME NEW us \in Rows, NEW ys \in Rows, NEW c \in Byte, c # "lf", NEW zs, Glued(zs, RowsWith(us, c), ys),
         NEW r, NEW k, r = Len(RowsWith(us, c)), k = Len(RowsWith(us, c)[r])
  PROVE  LetterBehind(zs, r, k, us, ys)
<1>1. PICK m, xs, a : m = Len(us) /\ xs = RowsWith(us, c) /\ a = us[m]
  OBVIOUS
<1>2. m \in Nat /\ m >= 1 /\ a \in Text
  BY <1>1, RowsAre
<1>3. Len(xs) = m /\ xs[m] = Append(a, c)
  BY <1>1, RowsWithIs
<1>4. Len(Append(a, c)) = Len(a) + 1 /\ Len(a) \in Nat
  BY <1>2, AppendProperties, LenProperties DEF Text
<1>5. r = m /\ k = Len(a) + 1
  BY <1>1, <1>3, <1>4
<1>6. k \in Nat /\ k > 0 /\ k - 1 = Len(a)
  BY <1>4, <1>5
<1>7. ASSUME \A i \in k + 1..Len(zs[r]) : zs[r][i] # "nul"
      PROVE  Glued([zs EXCEPT ![r] = Without(@, k)], us, ys)
  <2>1. r = Len(us) /\ k = Len(us[r]) + 1
    BY <1>1, <1>5
  <2> QED BY <1>7, <2>1, LetterTaken
<1> QED BY <1>1, <1>5, <1>6, <1>7 DEF LetterBehind

LEMMA BackspaceKeeps ==
  ASSUME EditorOK, Backspace
  PROVE  EditorOK'
<1>1. before \in Text /\ behind \in Text
  BY DEF EditorOK
<1>2. before' \in Text /\ (before # <<>> => before' = Front(before))
  <2>1. CASE before = <<>>
    BY <1>1, <2>1 DEF Backspace
  <2>2. CASE before # <<>>
    <3>1. PICK b \in Text, c \in Byte : before = Append(b, c)
      BY <1>1, <2>2, SequenceEmptyOrAppend DEF Text
    <3>2. Front(before) = b
      BY <3>1, FrontOfAppend
    <3> QED BY <2>2, <3>1, <3>2 DEF Backspace
  <2> QED BY <2>1, <2>2
<1>3. blunders \subseteq blunders'
  BY DEF Backspace
<1>4. ASSUME "Nul" \notin blunders'
      PROVE  Placed(rows', currentrow', currentcol', before', behind)
  <2>1. Placed(rows, currentrow, currentcol, before, behind)
    BY <1>3, <1>4, TextIsPlaced DEF EditorOK
  <2>2. CASE before = <<>>
    <3>1. PICK ls : ls = <<<<>>>>
      OBVIOUS
    <3>2. Lines(before) = ls /\ Len(ls) = 1 /\ Last(ls) = <<>> /\ Len(<<>>) = 0
      BY <2>2, <3>1, LinesOfNothing DEF Last
    <3>3. currentrow = 1 /\ currentcol = 0
      BY <2>1, <3>2 DEF Placed
    <3> QED BY <2>1, <2>2, <3>3 DEF Backspace, efile
  <2>3. CASE before # <<>>
    <3>1. PICK b \in Text, c \in Byte : before = Append(b, c)
      BY <1>1, <2>3, SequenceEmptyOrAppend DEF Text
    <3>2. before' = b
      BY <1>2, <2>3, <3>1, FrontOfAppend
    <3>3. PICK us, xs, ys : us = Lines(b) /\ xs = RowsWith(us, c) /\ ys = Lines(behind)
      OBVIOUS
    <3>4. us \in Rows /\ ys \in Rows /\ xs = Lines(before)
      BY <1>1, <3>1, <3>3, LinesAreRows, LinesGrow
    <3>5. PICK zs, r, k : zs = rows /\ r = currentrow /\ k = currentcol
      OBVIOUS
    <3>6. Glued(zs, RowsWith(us, c), ys) /\ r = Len(RowsWith(us, c)) /\ k = Len(RowsWith(us, c)[r])
      <4>1. Glued(zs, xs, ys) /\ r = Len(xs) /\ k = Len(xs[r])
        BY <1>1, <2>1, <3>3, <3>4, <3>5, PlacedIsGlued
      <4> QED BY <3>3, <4>1
    <3>7. Glued(rows', us, ys) /\ currentrow' = Len(us) /\ currentcol' = Len(us[Len(us)])
      <4>1. CASE c = "lf"
        <5>1. /\ k = 0 /\ r \in Nat /\ r > 1 /\ r - 1 = Len(us) /\ Len(zs[r - 1]) = Len(us[Len(us)])
              /\ Glued(RowsJoined(zs, r), us, ys)
          <6>1. FeedBehind(zs, r, k, us, ys)
            BY <3>4, <3>6, <4>1, AtFeed
          <6> QED BY <6>1 DEF FeedBehind
        <5>2. ~(currentcol > 0) /\ currentrow > 1
          BY <3>5, <5>1
        <5>3. rows' = JoinedRows(currentrow) /\ currentrow' = currentrow - 1 /\ currentcol' = Len(rows[currentrow - 1])
          BY <5>2 DEF Backspace
        <5>4. JoinedRows(currentrow) = RowsJoined(zs, r)
          BY <3>5 DEF JoinedRows, RowsJoined
        <5>5. currentrow - 1 = r - 1 /\ Len(rows[currentrow - 1]) = Len(zs[r - 1])
          BY <3>5
        <5> QED BY <5>1, <5>3, <5>4, <5>5
      <4>2. CASE c # "lf"
        <5>1. /\ k \in Nat /\ k > 0 /\ r = Len(us) /\ k - 1 = Len(us[Len(us)])
              /\ (\A i \in k + 1..Len(zs[r]) : zs[r][i] # "nul") => Glued([zs EXCEPT ![r] = Without(@, k)], us, ys)
          <6>1. LetterBehind(zs, r, k, us, ys)
            BY <3>1, <3>4, <3>6, <4>2, AtLetter
          <6> QED BY <6>1 DEF LetterBehind
        <5>2. currentcol > 0
          BY <3>5, <5>1
        <5>3. /\ rows' = [rows EXCEPT ![currentrow] = Without(@, currentcol)]
              /\ currentcol' = currentcol - 1 /\ currentrow' = currentrow
          BY <5>2 DEF Backspace
        <5>4. ~\E i \in currentcol + 1..Len(Row) : Row[i] = "nul"
          BY <1>4, <5>2 DEF Backspace
        <5>5. \A i \in k + 1..Len(zs[r]) : zs[r][i] # "nul"
          BY <3>5, <5>4 DEF Row
        <5>6. [rows EXCEPT ![currentrow] = Without(@, currentcol)] = [zs EXCEPT ![r] = Without(@, k)]
          BY <3>5
        <5> QED BY <3>5, <5>1, <5>3, <5>5, <5>6
      <4> QED BY <4>1, <4>2
    <3> QED BY <1>1, <3>2, <3>3, <3>4, <3>7, PlacedIsGlued
  <2> QED BY <2>2, <2>3
<1>5. blunders' = {} => blunders = {}
  BY <1>3
<1> QED BY <1>2, <1>4, <1>5, EditKeeps DEF Backspace

LEMMA WriteKeeps ==
  ASSUME EditorOK, NEW opens \in BOOLEAN, editor_write(opens)
  PROVE  EditorOK'
<1>1. PICK all : all = Joined(rows)
  OBVIOUS
<1>2. editing' = "editing" /\ pressed' = pressed + 1 /\ pressed \in Nat
  BY DEF EditorOK, editor_write, ReadByte
<1>3. /\ before' = before /\ behind' = behind
      /\ rows' = rows /\ currentrow' = currentrow /\ currentcol' = currentcol
  BY DEF editor_write, efile
<1>4. blunders \subseteq blunders' /\ ("Nul" \in blunders <=> "Nul" \in blunders')
  <2>1. blunders' = blunders \/ blunders' = blunders \cup {"Full"}
    <3>1. CASE opens
      BY <3>1 DEF editor_write
    <3>2. CASE ~opens
      BY <3>2 DEF editor_write
    <3> QED BY <3>1, <3>2
  <2>2. "Nul" # "Full"
    OBVIOUS
  <2> QED BY <2>1, <2>2
<1>5. TextIsEdited'
  BY <1>3, <1>4 DEF EditorOK, TextIsEdited
<1>6. WrittenIsText'
  <2>1. CASE ~opens
    BY <2>1 DEF EditorOK, WrittenIsText, editor_write
  <2>2. CASE opens
    <3>1. ASSUME blunders' = {} PROVE disk' = written'
      <4>1. written' = before \o behind /\ disk' = SubSeq(all, 1, IF Len(all) < Room THEN Len(all) ELSE Room)
        BY <1>1, <2>2 DEF editor_write
      <4>2. ~(Len(all) > Room)
        BY <1>1, <2>2, <3>1 DEF editor_write
      <4>3. rows = Lines(before \o behind)
        BY <1>4, <3>1 DEF EditorOK, TextIsEdited
      <4>4. all = before \o behind /\ all \in Seq(Byte)
        <5>1. before \o behind \in Text
          BY Parts DEF EditorOK
        <5> QED BY <1>1, <4>3, <5>1, JoinedLines DEF Text
      <4>5. Len(all) \in Nat /\ Room \in Nat
        BY <4>4, LenProperties, EditorAssumption
      <4>6. (IF Len(all) < Room THEN Len(all) ELSE Room) = Len(all)
        BY <4>2, <4>5
      <4>7. SubSeq(all, 1, Len(all)) = all
        BY <4>4, SubSeqFull
      <4> QED BY <4>1, <4>4, <4>6, <4>7
    <3> QED BY <3>1 DEF WrittenIsText
  <2> QED BY <2>1, <2>2
<1>7. pressed' \in Nat /\ pressed' # 0
  BY <1>2
<1> QED BY <1>2, <1>3, <1>5, <1>6, <1>7 DEF EditorOK

LEMMA QuitKeeps ==
  ASSUME EditorOK, Quit
  PROVE  EditorOK'
<1>1. /\ editing' = "closed" /\ pressed' = pressed + 1 /\ pressed \in Nat
      /\ rows' = <<<<>>>> /\ currentrow' = 1 /\ currentcol' = 0 /\ before' = <<>> /\ behind' = <<>>
      /\ disk' = disk /\ written' = written /\ blunders' = blunders
  BY DEF EditorOK, Quit, ReadByte
<1>2. pressed' \in Nat /\ pressed' # 0
  BY <1>1
<1>3. TextIsEdited'
  BY <1>1, NothingIsPlaced DEF TextIsEdited, Placed
<1>4. WrittenIsText'
  BY <1>1 DEF EditorOK, WrittenIsText
<1> QED BY <1>1, <1>2, <1>3, <1>4, NothingIsPlaced DEF EditorOK

\* A byte that only changes what the next one is for.
LEMMA OtherKeeps ==
  ASSUME EditorOK, PassOver \/ Escape \/ NoCommand
  PROVE  EditorOK'
<1>1. /\ editing' # "closed" /\ pressed' = pressed + 1 /\ pressed \in Nat
      /\ UNCHANGED <<disk, efile, past, blunders>>
  BY DEF EditorOK, PassOver, Escape, NoCommand, ReadByte
<1>2. pressed' \in Nat /\ pressed' # 0
  BY <1>1
<1> QED BY <1>1, <1>2 DEF EditorOK, TextIsEdited, WrittenIsText, efile, past

\* texteditor.c: the rows are the text that was read and typed, and the cursor is where it was
\* typed last, however it was edited; and the disk has the text as it was written, or read, last,
\* unless a mishap has happened.
THEOREM EditorIsServed == EditorSpec => []EditorServes
<1>1. EditorOK /\ [EditorNext]_editorVars => EditorOK'
  <2> SUFFICES ASSUME EditorOK, [EditorNext]_editorVars PROVE EditorOK'
    OBVIOUS
  <2>1. CASE EditorNext
    BY <2>1, OpenFileKeeps, TypeKeeps, NewLineKeeps, BackspaceKeeps, OtherKeeps, QuitKeeps, WriteKeeps DEF EditorNext
  <2>2. CASE UNCHANGED editorVars
    BY <2>2 DEF EditorOK, TextIsEdited, WrittenIsText, editorVars, efile, noted, past
  <2> QED BY <2>1, <2>2
<1>2. EditorOK => EditorServes
  BY DEF EditorOK, EditorServes
<1> QED BY <1>1, <1>2, EditorStarts, PTL DEF EditorSpec
=============================================================================
