---------------------------- MODULE MCTerminals ----------------------------
(***************************************************************************)
(* The two models of the virtual terminals.  A behaviour is one of the     *)
(* system that "subject" names; in it the other one stays at rest, where   *)
(* no step of it that is fair is possible:                                 *)
(*   "keys"    KeyBuffer, a ring of two events that is written round twice; *)
(*   "prints"  VirtualTerminals, two threads and two terminals: prints of  *)
(*             three cells in all, so that one can fall into the middle of *)
(*             another, while the terminal is changed once, or prints of   *)
(*             two cells while it is changed and changed back.             *)
(***************************************************************************)
EXTENDS KeyBuffer, VirtualTerminals

VARIABLE subject

MCInit == subject \in {"keys", "prints"} /\ BufferInit /\ Init

MCNext ==
    \/ subject = "keys" /\ QuietNext /\ UNCHANGED <<subject, vars>>
    \/ /\ subject = "prints" /\ Next /\ (presses' <= 1 \/ asked' <= 2)
       /\ UNCHANGED <<subject, bufferVars>>

MCSpec ==
    /\ MCInit /\ [][MCNext]_<<subject, bufferVars, vars>>
    /\ \A r \in Reader : WF_bufferVars(InRead(r))
    /\ \A t \in Thread : WF_vars(Inside(t))
=============================================================================
