-------------------------------- MODULE List --------------------------------
(***************************************************************************)
(* The list of the kernel (src/src/list.c and the macros of list.h): the   *)
(* drivers of the file systems, the devices and the open i-nodes are kept  *)
(* on such lists.  The members are on the heap; End is the member inside   *)
(* the head of the list, which holds no value.  A caller has an iterator   *)
(* that list_begin(), list_next() and list_prev() gave it.                 *)
(***************************************************************************)
EXTENDS Naturals, Sequences

CONSTANTS
    Node,       \* the addresses kmalloc() can give
    End, Nil

ASSUME ListAssumption == End \notin Node /\ Nil \notin Node \cup {End}

VARIABLES
    begin, size, next, prev,
    used,       \* the members that are allocated
    iter,       \* the caller's iterator
    items       \* history: the members in the order the calls ask for

listVars == <<begin, size, next, prev, used, iter, items>>

\* list_init()
ListInit ==
    /\ begin = End /\ size = 0
    /\ next = [n \in Node \cup {End} |-> Nil] /\ prev = next
    /\ used = {}
    /\ iter = End
    /\ items = <<>>

Place(n) == IF n = End THEN Len(items) + 1 ELSE CHOOSE k \in DOMAIN items : items[k] = n

InsertedAt(k, u) == SubSeq(items, 1, k - 1) \o <<u>> \o SubSeq(items, k, Len(items))

\* Mutant: the beginning of the list stays where it was.
LinkedBefore(l, u) ==
    /\ prev' = [prev EXCEPT ![u] = prev[l], ![l] = u]
    /\ next' = IF prev[l] # Nil THEN [next EXCEPT ![prev[l]] = u, ![u] = l] ELSE [next EXCEPT ![u] = l]
    /\ begin' = begin

\* _list_insert_func() with is_after 0.
LinkBefore(l, u) ==
    /\ prev' = [prev EXCEPT ![u] = prev[l], ![l] = u]
    /\ next' = IF prev[l] # Nil THEN [next EXCEPT ![prev[l]] = u, ![u] = l] ELSE [next EXCEPT ![u] = l]
    /\ begin' = IF prev[l] # Nil THEN begin ELSE u

\* _list_insert_func() with is_after 1.
LinkAfter(l, u) ==
    /\ next' = [next EXCEPT ![u] = next[l], ![l] = u]
    /\ prev' = [prev EXCEPT ![IF next[l] # Nil THEN next[l] ELSE End] = u, ![u] = l]
    /\ UNCHANGED begin

Allocated(u) == u \in Node \ used /\ used' = used \cup {u} /\ size' = size + 1

\* list_insert_before(iter, val), as the end of the list is inserted at as well.
InsertBefore(u) ==
    /\ Allocated(u) /\ LinkBefore(iter, u)
    /\ items' = InsertedAt(Place(iter), u)
    /\ UNCHANGED iter

\* list_insert_after(iter, val): not behind the end, which has no next member.
InsertAfter(u) ==
    /\ next[iter] # Nil
    /\ Allocated(u) /\ LinkAfter(iter, u)
    /\ items' = InsertedAt(Place(iter) + 1, u)
    /\ UNCHANGED iter

\* list_erase(iter): not the end; the caller goes on with the member behind.
Erase ==
    /\ iter # End
    /\ begin' = IF begin = iter THEN next[iter] ELSE begin
    /\ prev' = IF next[iter] # Nil THEN [prev EXCEPT ![next[iter]] = prev[iter]] ELSE prev
    /\ next' = IF prev[iter] # Nil THEN [next EXCEPT ![prev[iter]] = next[iter]] ELSE next
    /\ size' = size - 1
    /\ used' = used \ {iter}
    /\ items' = SubSeq(items, 1, Place(iter) - 1) \o SubSeq(items, Place(iter) + 1, Len(items))
    /\ iter' = next[iter]

\* list_destroy(): the members are freed from the first on; the size counts them down.
Destroy ==
    /\ begin # End
    /\ begin' = End
    /\ size' = size - Len(items)
    /\ used' = {}
    /\ next' = [next EXCEPT ![End] = Nil] /\ prev' = [prev EXCEPT ![End] = Nil]
    /\ iter' = End
    /\ items' = <<>>

\* list_begin(), list_inc() and list_dec(), as long as there is a member.
Move ==
    /\ iter' \in {begin, next[iter], prev[iter]} \ {Nil, iter}
    /\ UNCHANGED <<begin, size, next, prev, used, items>>

ListNext == Erase \/ Destroy \/ Move \/ \E u \in Node : InsertBefore(u) \/ InsertAfter(u)

ListSpec == ListInit /\ [][ListNext]_listVars

-----------------------------------------------------------------------------
\* Read forwards and backwards the list has the members in the order in which the calls
\* put them, each of them allocated, and as many as it says.
ListIsSequence ==
    LET n == Len(items)
        Link(k) == CASE k = 0 -> Nil [] k = n + 1 -> End [] OTHER -> items[k]
    IN /\ begin = Link(1) /\ size = n /\ next[End] = Nil
       /\ \A k \in 1..n : next[items[k]] = Link(k + 1) /\ items[k] \in used
       /\ \A k \in 1..n + 1 : prev[Link(k)] = Link(k - 1)
=============================================================================
