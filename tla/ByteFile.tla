------------------------------ MODULE ByteFile ------------------------------
(***************************************************************************)
(* What a file promises its reader and writer: an array of bytes and a     *)
(* position.  A call moves some of the bytes it is asked for between the   *)
(* array and its caller, and the position past them; nothing else ever     *)
(* changes the array.                                                      *)
(***************************************************************************)
EXTENDS Naturals, Sequences

CONSTANTS Size, Byte

VARIABLES
    contents, position,
    given,          \* the bytes of the caller not yet written
    taken           \* the bytes the caller has got

vars == <<contents, position, given, taken>>

Init ==
    /\ contents \in [0..(Size - 1) -> Byte] /\ position = 0
    /\ given = <<>> /\ taken = <<>>

Seek == position' \in 0..Size /\ UNCHANGED <<contents, given, taken>>

Call == given' \in Seq(Byte) /\ taken' = <<>> /\ UNCHANGED <<contents, position>>

Read ==
    \E n \in 1..(Size - position) :
        /\ taken' = taken \o [i \in 1..n |-> contents[position + i - 1]]
        /\ position' = position + n
        /\ UNCHANGED <<contents, given>>

Write ==
    \E n \in 1..Len(given) :
        /\ contents' = [i \in 0..(Size - 1) |->
                           IF i \in position..(position + n - 1)
                           THEN given[i - position + 1] ELSE contents[i]]
        /\ given' = SubSeq(given, n + 1, Len(given))
        /\ position' = position + n /\ position' <= Size
        /\ UNCHANGED taken

Next == Seek \/ Call \/ Read \/ Write

Spec == Init /\ [][Next]_vars
=============================================================================
