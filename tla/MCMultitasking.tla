--------------------------- MODULE MCMultitasking ---------------------------
(***************************************************************************)
(* Instances of Multitasking for TLC: three kernel threads and slots for   *)
(* two user threads, so that two programs can end in either order around a *)
(* third command of the shell.                                             *)
(***************************************************************************)
EXTENDS Multitasking
=============================================================================
