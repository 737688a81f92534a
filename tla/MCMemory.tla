------------------------------ MODULE MCMemory ------------------------------
(***************************************************************************)
(* Tables of four entries: the kernel's image, its heap, the stacks and    *)
(* the user's pages each have one.  A behaviour is of one of two kinds:    *)
(*   "areas"    one process, that ends and is started again, with areas of *)
(*              one page and of two, once the kernel has its thread;       *)
(*   "sharing"  two processes, with areas of one page, that exhaust the    *)
(*              RAM; here the kernel may have areas before its thread.     *)
(***************************************************************************)
EXTENDS Memory

VARIABLE subject

Pids    == {1, 2}
Codes   == {0, 1}
Areas   == {1, 2}

MCInit == subject \in {"areas", "sharing"} /\ Init
MCNext ==
    /\ UNCHANGED subject
    /\ \/ subject = "areas" /\ Call({1}) /\ kernel_threads' > 0
       \/ subject = "sharing" /\ Next /\ \A i \in Slots : memory_allocations'[i].size <= 1
MCSpec == MCInit /\ [][MCNext]_<<subject, vars>>
=============================================================================
