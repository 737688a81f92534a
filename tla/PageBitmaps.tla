---------------------------- MODULE PageBitmaps ----------------------------
(***************************************************************************)
(* The bitmaps of the physical pages (src/src/memory/memory.c, init.c):    *)
(* the pages in use and the pages not to be swapped, a count of the free   *)
(* ones, and the word the search for one begins at.  The two bitmaps of 32 *)
(* pages each are placed 8 pages apart (memory.h): they share most of      *)
(* their bits.                                                             *)
(***************************************************************************)
EXTENDS Integers, FiniteSets

CONSTANTS
    RamPages,           \* memory.ram_pages
    KernelPages,        \* KERNEL_IMAGE_PAGES
    WordBits,           \* 32, the bits of a word of the bitmaps
    BitmapBits,         \* MEMORY_PAGES, the bits of each bitmap
    Gap                 \* the bits from the beginning of one to that of the other

ASSUME PagesAssumption ==
    /\ WordBits \in Nat \ {0} /\ KernelPages \in Nat \ {0} /\ RamPages \in Nat /\ Gap \in Nat
    /\ BitmapBits \in Nat /\ RamPages <= BitmapBits /\ KernelPages % WordBits = 0
    /\ KernelPages + WordBits <= RamPages \* or "Osta isompi muisti!"

Bits   == 0..(Gap + BitmapBits - 1)
Pages  == KernelPages..(RamPages - 1)
NoPage == 0

\* Mutant: the bit is that of the other bitmap.
NoswapInPlace(page) == page
\* A page's bit in phys_pages_alloced is the bit of its number, in phys_pages_noswap this.
Noswap(page) == page + Gap

\* init_phys_page_bitmaps(), with its last word cut at the end of the RAM.
InitialSet ==
    LET zeroEnd  == (RamPages \div WordBits) * WordBits
        Zero     == KernelPages..(zeroEnd - 1)
        LastWord == zeroEnd..(zeroEnd + WordBits - 1)
        cut      == RamPages % WordBits # 0
    IN  {b \in Bits : IF cut /\ b \in LastWord THEN b >= RamPages
                     ELSE b \notin Zero /\ b - Gap \notin Zero}

InitialRam == [set |-> InitialSet, ram_pages_free |-> RamPages - KernelPages, first |-> 0]

-----------------------------------------------------------------------------
(* The two operations, for a ram that is passed through several of them.   *)

\* The free pages that the search for a page meets.
Found(r) == {b \in (r.first * WordBits)..(BitmapBits - 1) : b \notin r.set}

\* alloc_phys_page() panics otherwise: there is no swap.
CanAlloc(r) == r.ram_pages_free > 0

FirstFound(r) == CHOOSE p \in Found(r) : \A q \in Found(r) : p <= q

WithNoswap(s, page, noswap) == IF noswap THEN s \cup {Noswap(page)} ELSE s \ {Noswap(page)}

CountLess(r) == r.ram_pages_free - 1

AllocPage(r, noswap) ==
    LET page == FirstFound(r)
    IN  [set            |-> WithNoswap(r.set \cup {page}, page, noswap),
         ram_pages_free |-> CountLess(r),
         first          |-> page \div WordBits]

\* Mutant: the next search begins where the last one found a page.
FirstKept(r, page) == r.first
FirstLowered(r, page) == IF r.first > page \div WordBits THEN page \div WordBits ELSE r.first

FreePage(r, page) ==
    IF page \notin r.set THEN r
    ELSE [set            |-> r.set \ {page},
          ram_pages_free |-> r.ram_pages_free + 1,
          first          |-> FirstLowered(r, page)]
=============================================================================
