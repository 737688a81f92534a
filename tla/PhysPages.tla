----------------------------- MODULE PhysPages -----------------------------
(***************************************************************************)
(* The physical pages (src/src/memory/memory.c) and those who own them.    *)
(***************************************************************************)
EXTENDS PageBitmaps

VARIABLES
    set,                \* the bits of the two bitmaps that are set
    ram_pages_free,
    first,              \* first_phys_pages_not_alloced
    owned, fixed,       \* history: the pages handed out, and those asked for with noswap
    last                \* history: the page handed out last

ram  == [set |-> set, ram_pages_free |-> ram_pages_free, first |-> first]
vars == <<set, ram_pages_free, first, owned, fixed, last>>

Becomes(r) == set' = r.set /\ ram_pages_free' = r.ram_pages_free /\ first' = r.first

Alloc(noswap) ==
    /\ CanAlloc(ram) /\ Found(ram) # {}
    /\ LET page == FirstFound(ram)
       IN  /\ last' = page
           /\ owned' = owned \cup {page}
           /\ fixed' = IF noswap THEN fixed \cup {page} ELSE fixed \ {page}
    /\ Becomes(AllocPage(ram, noswap))

Free(page) ==
    /\ page \in owned
    /\ owned' = owned \ {page} /\ fixed' = fixed \ {page} /\ last' = NoPage
    /\ Becomes(FreePage(ram, page))

Init ==
    /\ set = InitialSet /\ ram_pages_free = RamPages - KernelPages /\ first = 0
    /\ owned = {} /\ fixed = {} /\ last = NoPage

Next == (\E noswap \in BOOLEAN : Alloc(noswap)) \/ (\E page \in owned : Free(page))
Spec == Init /\ [][Next]_vars

-----------------------------------------------------------------------------
(* Properties.                                                             *)

TypeOK ==
    /\ set \subseteq Bits /\ ram_pages_free \in 0..RamPages /\ first \in Nat
    /\ owned \subseteq Pages /\ fixed \subseteq owned /\ last \in Pages \cup {NoPage}

\* A page that is handed out is a page of the RAM behind the kernel, and nobody has it.
HandedOutOnce == [][last' # NoPage => last' \in Pages \ owned]_vars

\* ram_free() tells how much RAM is free: the count is that of the pages nobody has.
CountAgrees == ram_pages_free = Cardinality(Pages \ owned)

\* While pages are counted as free the search meets one, from wherever it begins: or
\* else alloc_phys_page() panics, "MEM: Out of RAM and failed counting it!".
NeverFailsCounting == CanAlloc(ram) => Found(ram) # {}

\* The page directories and tables, and no other pages, are kept from being swapped.
NoswapFollows == \A page \in owned : page \in fixed <=> Noswap(page) \in set
=============================================================================
