------------------------------ MODULE KeyQueue ------------------------------
(***************************************************************************)
(* What the keyboard buffer of a terminal promises: the key events come    *)
(* out once each, in the order they went in.                               *)
(***************************************************************************)
EXTENDS Sequences

CONSTANT Event

VARIABLES
    waiting,        \* the events nobody has read
    received        \* the events read, in order

Init == waiting = <<>> /\ received = <<>>

Put == \E e \in Event : waiting' = Append(waiting, e) /\ UNCHANGED received

Get ==
    /\ waiting # <<>>
    /\ received' = Append(received, Head(waiting)) /\ waiting' = Tail(waiting)

Spec == Init /\ [][Put \/ Get]_<<waiting, received>>
=============================================================================
