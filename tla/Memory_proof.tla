---------------------------- MODULE Memory_proof ----------------------------
(***************************************************************************)
(* No physical page has two owners, is lost or is used when it is free;    *)
(* the kernel's mappings are the same in every page directory; and an area *)
(* that malloc() gave is mapped, all of it and in no other area, for every *)
(* number of processes, entries and pages.  IInv says what the page tables *)
(* hold and who owns each page of the RAM; every operation is shown to     *)
(* keep it for any tables and bitmaps that satisfy it, and then each step  *)
(* of the specification.  The loops over a run of pages are settled by the *)
(* least page at which what is claimed of them would be false.             *)
(***************************************************************************)
EXTENDS Memory, FiniteSetTheorems, TLAPS

\* No page of the RAM has its bit in both bitmaps.
SmallRam == RamPages <= Gap

-----------------------------------------------------------------------------
(* Addresses: the entry of a directory and the entry of a table.           *)

\* A page is its two digits.
LEMMA Digits ==
    ASSUME NEW page \in Nat
    PROVE  /\ Pde(page) \in Nat /\ Pte(page) \in Entries
           /\ PeCount \in Nat /\ Pde(page) * PeCount \in Nat /\ page = Pde(page) * PeCount + Pte(page)
  BY MemoryAssumption DEF Pde, Pte, Entries

\* Two pages with the same digits are one.
LEMMA SameDigits ==
    ASSUME NEW p \in Nat, NEW q \in Nat, Pde(p) = Pde(q), Pte(p) = Pte(q)
    PROVE  p = q
  BY Digits

\* Products are ordered as their factors.
LEMMA ProductsAscend ==
    ASSUME NEW a \in Nat, NEW b \in Nat, NEW c \in Nat, a <= b
    PROVE  a * c \in Nat /\ b * c \in Nat /\ a * c <= b * c
  OBVIOUS

\* The word behind another begins a word further.
LEMMA NextProduct ==
    ASSUME NEW a \in Nat, NEW c \in Nat
    PROVE  a * c \in Nat /\ (a + 1) * c = a * c + c
  OBVIOUS

\* The digits of an address are entries; the kernel's part is below KmemEnd.
LEMMA AddressDigits ==
    ASSUME NEW page \in Addresses
    PROVE  /\ page \in Nat /\ Pde(page) \in Entries /\ Pte(page) \in Entries
           /\ Pde(page) < KmemEnd <=> page < KmemEnd * PeCount
           /\ page >= PeCount => Pde(page) # 0
<1>1. page \in Nat /\ page < PeCount * PeCount /\ PeCount \in Nat /\ KmemEnd \in Nat /\ PeCount > 0
  BY MemoryAssumption DEF Addresses
<1>d. PICK d, e : d = Pde(page) /\ e = Pte(page)
  OBVIOUS
<1>2. d \in Nat /\ e \in Nat /\ e < PeCount /\ page = d * PeCount + e
  BY <1>1, <1>d, Digits DEF Entries
<1>3. d < PeCount
  <2>1. ASSUME d >= PeCount PROVE FALSE
    <3>1. PeCount * PeCount <= d * PeCount /\ d * PeCount \in Nat /\ PeCount * PeCount \in Nat
      BY <1>1, <1>2, <2>1, ProductsAscend
    <3> QED BY <1>1, <1>2, <3>1
  <2> QED BY <1>1, <1>2, <2>1
<1>4. ASSUME d < KmemEnd PROVE page < KmemEnd * PeCount
  <2>1. (d + 1) * PeCount <= KmemEnd * PeCount /\ KmemEnd * PeCount \in Nat
    <3>1. d + 1 \in Nat /\ d + 1 <= KmemEnd
      BY <1>1, <1>2, <1>4
    <3> QED BY <1>1, <3>1, ProductsAscend
  <2>2. (d + 1) * PeCount = d * PeCount + PeCount /\ d * PeCount \in Nat
    BY <1>1, <1>2, NextProduct
  <2> QED BY <1>1, <1>2, <2>1, <2>2
<1>5. ASSUME d >= KmemEnd PROVE page >= KmemEnd * PeCount
  BY <1>1, <1>2, <1>5, ProductsAscend
<1>6. ASSUME page >= PeCount PROVE d # 0
  BY <1>1, <1>2, <1>6
<1> QED BY <1>1, <1>d, <1>2, <1>3, <1>4, <1>5, <1>6 DEF Entries

-----------------------------------------------------------------------------
(* The bitmaps of the physical pages.                                      *)

\* The kernel's pages are in use, the free ones are counted, and the word the search begins
\* at is not behind one.
RamOK(r) ==
    /\ r = [set |-> r.set, ram_pages_free |-> r.ram_pages_free, first |-> r.first]
    /\ r.set \subseteq Bits /\ r.first \in Nat /\ r.ram_pages_free \in Nat
    /\ 0..(KernelPages - 1) \subseteq r.set
    /\ r.ram_pages_free = Cardinality(Pages \ r.set)
    /\ \A page \in Pages \ r.set : r.first * WordBits <= page

\* Of the pages of the RAM exactly page has gone over from free to in use, or back.
Took(r, s, page) == \A q \in Pages : q \in s.set <=> (q \in r.set \/ q = page)
Gave(r, s, page) == \A q \in Pages : q \in s.set <=> (q \in r.set /\ q # page)

\* A page lies in its word, and a lower word begins no later.
LEMMA WordOfPage ==
    ASSUME NEW page \in Nat
    PROVE  /\ page \div WordBits \in Nat
           /\ (page \div WordBits) * WordBits \in Nat /\ (page \div WordBits) * WordBits <= page
  BY PagesAssumption

\* A set of natural numbers that is not empty has a least element.
LEMMA Least ==
    ASSUME NEW S \in SUBSET Nat, S # {}
    PROVE  \E p \in S : \A q \in S : p <= q
<1>1. PICK p \in S : \A q \in S : ~(<<q, p>> \in OpToRel(<, Nat))
  BY NatLessThanWellFounded, WFMin
<1>2. ASSUME NEW q \in S, q < p PROVE FALSE
  <2>1. <<q, p>> \in OpToRel(<, Nat)
    BY <1>2 DEF OpToRel
  <2> QED BY <1>1, <2>1
<1> QED BY <1>2

\* The pages of the RAM are finitely many natural numbers behind the kernel's.
LEMMA PagesFacts ==
    /\ IsFiniteSet(Pages) /\ Pages \subseteq Nat
    /\ \A page \in Pages : KernelPages <= page /\ page < RamPages /\ page # NoPage
  BY PagesAssumption, FS_Interval DEF Pages, NoPage

\* If pages are counted as free, the search ends at a page of the RAM that is free.
LEMMA FoundIsFree ==
    ASSUME NEW r, RamOK(r), CanAlloc(r)
    PROVE  /\ FirstFound(r) \in Pages \ r.set
           /\ \A q \in Pages \ r.set : FirstFound(r) <= q
<1>1. \A q \in Pages \ r.set : q \in Found(r)
  BY PagesAssumption DEF RamOK, Found, Pages
<1>2. PICK other \in Pages \ r.set : TRUE
  <2>1. Cardinality(Pages \ r.set) # 0
    BY DEF RamOK, CanAlloc
  <2>2. Pages \ r.set # {}
    BY <2>1, FS_EmptySet
  <2> QED BY <2>2
<1>3. Found(r) \in SUBSET Nat /\ Found(r) # {}
  BY <1>1, <1>2, PagesAssumption DEF Found, RamOK
<1>4. PICK page : page = FirstFound(r)
  OBVIOUS
<1>5. page \in Found(r) /\ \A q \in Found(r) : page <= q
  BY <1>3, <1>4, Least DEF FirstFound
<1>6. page <= other /\ page \in Nat /\ page \notin r.set
  BY <1>1, <1>2, <1>3, <1>5 DEF Found
<1>7. page \in Pages
  BY <1>2, <1>6, PagesAssumption DEF Pages, RamOK
<1> QED BY <1>1, <1>4, <1>5, <1>6, <1>7

\* alloc_phys_page() takes that page and no other.
LEMMA AllocPageOK ==
    ASSUME SmallRam, NEW r, RamOK(r), CanAlloc(r), NEW noswap \in BOOLEAN
    PROVE  /\ FirstFound(r) \in Pages \ r.set
           /\ RamOK(AllocPage(r, noswap)) /\ Took(r, AllocPage(r, noswap), FirstFound(r))
<1>1. PICK page : page = FirstFound(r)
  OBVIOUS
<1>2. page \in Pages \ r.set /\ \A q \in Pages \ r.set : page <= q
  BY <1>1, FoundIsFree
<1>3. PICK s : s = AllocPage(r, noswap)
  OBVIOUS
<1>4. /\ s.set = WithNoswap(r.set \cup {page}, page, noswap)
      /\ s.ram_pages_free = r.ram_pages_free - 1 /\ s.first = page \div WordBits
  BY <1>1, <1>3 DEF AllocPage, CountLess
<1>5. page \in Nat /\ page \in Bits /\ Noswap(page) \in Bits \ Pages /\ Noswap(page) \notin 0..(KernelPages - 1)
  BY <1>2, PagesAssumption DEF Pages, Noswap, Bits, SmallRam
<1>6. Took(r, s, page)
  BY <1>4, <1>5 DEF Took, WithNoswap
<1>7. s.set \subseteq Bits /\ 0..(KernelPages - 1) \subseteq s.set
  BY <1>4, <1>5 DEF RamOK, WithNoswap
<1>8. Pages \ s.set = (Pages \ r.set) \ {page}
  BY <1>6 DEF Took
<1>9. s.ram_pages_free = Cardinality(Pages \ s.set) /\ s.ram_pages_free \in Nat
  <2>1. IsFiniteSet(Pages \ r.set)
    BY PagesFacts, FS_Difference
  <2>2. Cardinality(Pages \ s.set) = Cardinality(Pages \ r.set) - 1
    BY <1>2, <1>8, <2>1, FS_RemoveElement, SMTT(60)
  <2>3. r.ram_pages_free \in Nat /\ r.ram_pages_free > 0 /\ r.ram_pages_free = Cardinality(Pages \ r.set)
    BY DEF RamOK, CanAlloc
  <2> QED BY <1>4, <2>2, <2>3
<1>10. s.first \in Nat /\ \A q \in Pages \ s.set : s.first * WordBits <= q
  <2>1. PICK w : w = page \div WordBits
    OBVIOUS
  <2>2. w \in Nat /\ w * WordBits \in Nat /\ w * WordBits <= page
    BY <1>5, <2>1, WordOfPage
  <2>3. \A q \in Pages \ s.set : page <= q /\ q \in Nat
    BY <1>2, <1>8, PagesFacts
  <2>4. s.first = w
    BY <1>4, <2>1
  <2> QED BY <1>5, <2>2, <2>3, <2>4
<1>11. RamOK(s)
  <2>1. s = [set |-> s.set, ram_pages_free |-> s.ram_pages_free, first |-> s.first]
    BY <1>3 DEF AllocPage
  <2> QED BY <2>1, <1>7, <1>9, <1>10 DEF RamOK
<1> QED BY <1>1, <1>2, <1>3, <1>6, <1>11

\* free_phys_page() gives back the page and no other.
LEMMA FreePageOK ==
    ASSUME NEW r, RamOK(r), NEW page \in Pages
    PROVE  RamOK(FreePage(r, page)) /\ Gave(r, FreePage(r, page), page)
<1>1. CASE page \notin r.set
  BY <1>1 DEF FreePage, Gave
<1>2. CASE page \in r.set
  <2>1. PICK s : s = FreePage(r, page)
    OBVIOUS
  <2>2. /\ s.set = r.set \ {page} /\ s.ram_pages_free = r.ram_pages_free + 1
        /\ s.first = FirstLowered(r, page)
    BY <1>2, <2>1 DEF FreePage
  <2>3. page \in Nat /\ page \notin 0..(KernelPages - 1)
    BY PagesFacts, PagesAssumption DEF Pages
  <2>4. Gave(r, s, page)
    BY <2>2 DEF Gave
  <2>5. s.set \subseteq Bits /\ 0..(KernelPages - 1) \subseteq s.set
    BY <2>2, <2>3 DEF RamOK
  <2>6. Pages \ s.set = (Pages \ r.set) \cup {page} /\ page \notin Pages \ r.set
    BY <1>2, <2>2
  <2>7. s.ram_pages_free = Cardinality(Pages \ s.set) /\ s.ram_pages_free \in Nat
    <3>1. IsFiniteSet(Pages \ r.set)
      BY PagesFacts, FS_Difference
    <3>2. Cardinality(Pages \ s.set) = Cardinality(Pages \ r.set) + 1
      BY <2>6, <3>1, FS_AddElement
    <3> QED BY <2>2, <3>2 DEF RamOK
  <2>8. PICK w : w = page \div WordBits
    OBVIOUS
  <2>9. w \in Nat /\ w * WordBits \in Nat /\ w * WordBits <= page
    BY <2>3, <2>8, WordOfPage
  <2>10. r.first \in Nat /\ r.first * WordBits \in Nat /\ WordBits \in Nat
    BY PagesAssumption DEF RamOK
  <2>11. s.first \in {r.first, w} /\ s.first <= w /\ s.first <= r.first
    BY <2>2, <2>8, <2>9, <2>10 DEF FirstLowered
  <2>12. s.first * WordBits <= w * WordBits /\ s.first * WordBits <= r.first * WordBits
    BY <2>9, <2>10, <2>11, ProductsAscend
  <2>13. ASSUME NEW q \in Pages \ s.set PROVE s.first * WordBits <= q
    <3>1. q \in Nat /\ s.first * WordBits \in Nat
      BY <2>9, <2>10, <2>11, PagesFacts
    <3>2. CASE q = page
      BY <2>3, <2>9, <2>12, <3>1, <3>2
    <3>3. CASE q # page
      <4>1. r.first * WordBits <= q
        BY <2>6, <3>3 DEF RamOK
      <4> QED BY <2>10, <2>12, <3>1, <4>1
    <3> QED BY <3>2, <3>3
  <2>14. s.first \in Nat
    BY <2>9, <2>10, <2>11
  <2>15. RamOK(s)
    <3>1. s = [set |-> s.set, ram_pages_free |-> s.ram_pages_free, first |-> s.first]
      BY <1>2, <2>1 DEF FreePage
    <3> QED BY <3>1, <2>5, <2>7, <2>13, <2>14 DEF RamOK
  <2> QED BY <2>1, <2>4, <2>15
<1> QED BY <1>1, <1>2

-----------------------------------------------------------------------------
(* The loop of free_pagedir() over the pages it frees.                     *)

\* What it comes to: the pages are out of the set, those that were in it are counted, and
\* the search begins at the lowest word of one.
Words(r, S) == {r.first} \cup {page \div WordBits : page \in S \cap r.set}
FreedAll(r, S) ==
    [set |-> r.set \ S, ram_pages_free |-> r.ram_pages_free + Cardinality(S \cap r.set),
     first |-> Min(Words(r, S))]

\* The steps of the loop, by the set of the pages freed.
FreeSteps(r, S, iter) ==
    iter = [s \in SUBSET S |-> IF s = {} THEN r
                               ELSE FreePage(iter[s \ {CHOOSE x \in s : TRUE}],
                                             CHOOSE x \in s : TRUE)]

\* The least of some numbers is one of them, and there is one only.
LEMMA MinIs ==
    ASSUME NEW S \in SUBSET Nat, NEW x \in S, \A y \in S : x <= y
    PROVE  Min(S) = x
<1>1. PICK z : z = Min(S)
  OBVIOUS
<1>2. z \in S /\ \A y \in S : z <= y
  BY <1>1 DEF Min
<1> QED BY <1>1, <1>2

\* One page more is freed by one step more.
LEMMA FreedOneMore ==
    ASSUME NEW r, RamOK(r), NEW S \in SUBSET Pages, NEW x \in S
    PROVE  FreePage(FreedAll(r, S \ {x}), x) = FreedAll(r, S)
<1> DEFINE T == S \ {x}
<1>1. PICK a : a = FreedAll(r, T)
  OBVIOUS
<1>2. a = [set |-> r.set \ T, ram_pages_free |-> r.ram_pages_free + Cardinality(T \cap r.set),
           first |-> Min(Words(r, T))]
  BY <1>1 DEF FreedAll
<1>3. PICK w : w = x \div WordBits
  OBVIOUS
<1>4. w \in Nat /\ x \in Nat
  BY <1>3, PagesFacts, WordOfPage
<1>5. Words(r, T) \in SUBSET Nat /\ r.first \in Words(r, T)
  BY PagesFacts, WordOfPage DEF Words, RamOK
<1>6. PICK l \in Words(r, T) : \A y \in Words(r, T) : l <= y
  BY <1>5, Least
<1>7. a.first = l /\ l \in Nat
  BY <1>2, <1>5, <1>6, MinIs
<1>8. CASE x \notin r.set
  <2>1. T \cap r.set = S \cap r.set /\ r.set \ T = (r.set \ S) \cup (r.set \cap {x})
    BY <1>8
  <2>2. Words(r, T) = Words(r, S)
    BY <1>8, <2>1 DEF Words
  <2>3. r.set \ T = r.set \ S /\ x \notin a.set
    BY <1>2, <1>8
  <2>4. FreePage(a, x) = a
    BY <2>3 DEF FreePage
  <2>5. a = FreedAll(r, S)
    BY <1>2, <2>1, <2>2, <2>3 DEF FreedAll
  <2> QED BY <1>1, <2>4, <2>5
<1>9. CASE x \in r.set
  <2>1. x \in a.set /\ a.set \ {x} = r.set \ S
    BY <1>2, <1>9
  <2>2. FreePage(a, x) = [set |-> r.set \ S, ram_pages_free |-> a.ram_pages_free + 1,
                          first |-> IF l > w THEN w ELSE l]
    BY <1>3, <1>7, <2>1 DEF FreePage, FirstLowered
  <2>3. S \cap r.set = (T \cap r.set) \cup {x} /\ x \notin T \cap r.set
    BY <1>9
  <2>4. IsFiniteSet(T \cap r.set)
    BY PagesFacts, FS_Subset, T \cap r.set \in SUBSET Pages
  <2>5. Cardinality(S \cap r.set) = Cardinality(T \cap r.set) + 1 /\ Cardinality(T \cap r.set) \in Nat
    BY <2>3, <2>4, FS_AddElement, FS_CardinalityType
  <2>6. a.ram_pages_free + 1 = r.ram_pages_free + Cardinality(S \cap r.set)
    BY <1>2, <2>5 DEF RamOK
  <2>7. Words(r, S) = Words(r, T) \cup {w}
    BY <1>3, <2>3 DEF Words
  <2>8. Min(Words(r, S)) = IF l > w THEN w ELSE l
    <3>1. Words(r, S) \in SUBSET Nat
      BY <1>4, <1>5, <2>7
    <3>2. CASE l > w
      <4>1. \A y \in Words(r, S) : w <= y
        BY <1>4, <1>5, <1>6, <1>7, <2>7, <3>2
      <4> QED BY <2>7, <3>1, <3>2, <4>1, MinIs
    <3>3. CASE ~(l > w)
      <4>1. \A y \in Words(r, S) : l <= y
        BY <1>4, <1>5, <1>6, <1>7, <2>7, <3>3
      <4> QED BY <1>6, <2>7, <3>1, <3>3, <4>1, MinIs
    <3> QED BY <3>2, <3>3
  <2> QED BY <1>1, <2>2, <2>6, <2>8 DEF FreedAll
<1> QED BY <1>8, <1>9

\* The loop has its steps.
LEMMA FreeLoop ==
    ASSUME NEW r, RamOK(r), NEW S \in SUBSET Pages
    PROVE  \E iter : FreeSteps(r, S, iter)
                     /\ FoldSet(FreeIn, r, S) = iter[S]
<1> DEFINE all == [s \in SUBSET S |-> FreedAll(r, s)]
<1>1. FreedAll(r, {}) = r
  <2>1. Words(r, {}) = {r.first} /\ r.first \in Nat
    BY DEF Words, RamOK
  <2>2. Min(Words(r, {})) = r.first
    BY <2>1, MinIs
  <2>3. r.set \ {} = r.set /\ {} \cap r.set = {} /\ r.ram_pages_free + 0 = r.ram_pages_free
    BY DEF RamOK
  <2> QED BY <2>2, <2>3, FS_EmptySet DEF FreedAll, RamOK
<1>2. ASSUME NEW s \in SUBSET S, s # {}
      PROVE  all[s] = FreePage(all[s \ {CHOOSE x \in s : TRUE}], CHOOSE x \in s : TRUE)
  <2>1. PICK x : x = CHOOSE y \in s : TRUE
    OBVIOUS
  <2>2. x \in s /\ s \in SUBSET Pages /\ s \ {x} \in SUBSET S
    BY <1>2, <2>1
  <2>3. all[s] = FreedAll(r, s) /\ all[s \ {x}] = FreedAll(r, s \ {x})
    BY <2>2
  <2> QED BY <2>1, <2>2, <2>3, FreedOneMore
<1>3. all[{}] = r
  BY <1>1
<1>4. FreeSteps(r, S, all)
  <2> HIDE DEF all
  <2>1. all = [s \in SUBSET S |-> all[s]]
    BY DEF all
  <2> QED BY <1>2, <1>3, <2>1 DEF FreeSteps
<1>5. \E iter : FreeSteps(r, S, iter)
  BY <1>4
<1> HIDE DEF all
<1> QED BY <1>5 DEF FoldSet, MapThenFoldSet, FreeSteps, FreeIn
\* It gives back the pages of the set and no others.
LEMMA FoldFrees ==
    ASSUME NEW r, RamOK(r), NEW S \in SUBSET Pages
    PROVE  LET s == FoldSet(FreeIn, r, S)
           IN  RamOK(s) /\ \A q \in Pages : q \in s.set <=> q \in r.set /\ q \notin S
<1>1. PICK iter : FreeSteps(r, S, iter)
                  /\ FoldSet(FreeIn, r, S) = iter[S]
  BY FreeLoop
<1> DEFINE Good(s) == RamOK(iter[s]) /\ \A q \in Pages : q \in iter[s].set <=> q \in r.set /\ q \notin s
           Bad == {n \in Nat : \E s \in SUBSET S : Cardinality(s) = n /\ ~Good(s)}
<1>2. iter[{}] = r
  BY <1>1 DEF FreeSteps
<1>3. ASSUME NEW s \in SUBSET S, s # {}
      PROVE  \E x \in s : iter[s] = FreePage(iter[s \ {x}], x)
  BY <1>1, <1>3 DEF FreeSteps
<1>4. \A s \in SUBSET S : IsFiniteSet(s)
  BY PagesFacts, FS_Subset
<1>5. Good({})
  BY <1>2
<1>6. ASSUME NEW s \in SUBSET S, NEW x \in s, iter[s] = FreePage(iter[s \ {x}], x), Good(s \ {x})
      PROVE  Good(s)
  <2>1. x \in Pages /\ RamOK(iter[s \ {x}])
    BY <1>6
  <2>2. RamOK(iter[s]) /\ Gave(iter[s \ {x}], iter[s], x)
    BY <1>6, <2>1, FreePageOK
  <2> QED BY <1>6, <2>2 DEF Gave
<1> HIDE DEF Good
<1>7. Bad = {}
  <2> SUFFICES ASSUME Bad # {} PROVE FALSE
    OBVIOUS
  <2>1. PICK n \in Bad : \A k \in Bad : n <= k
    BY Least
  <2>2. PICK s \in SUBSET S : Cardinality(s) = n /\ ~Good(s)
    BY <2>1
  <2>3. s # {}
    BY <1>5, <2>2
  <2>4. PICK x \in s : iter[s] = FreePage(iter[s \ {x}], x)
    BY <1>3, <2>3
  <2>5. Cardinality(s \ {x}) = n - 1 /\ n - 1 \in Nat
    <3>1. IsFiniteSet(s) /\ IsFiniteSet(s \ {x}) /\ Cardinality(s \ {x}) = Cardinality(s) - 1
      BY <1>4, <2>4, FS_RemoveElement
    <3>2. Cardinality(s \ {x}) \in Nat
      BY <3>1, FS_CardinalityType
    <3> QED BY <2>2, <3>1, <3>2
  <2>6. n - 1 \in Bad
    BY <1>6, <2>2, <2>4, <2>5
  <2> QED BY <2>1, <2>6
<1>8. Good(S)
  BY <1>4, <1>7, FS_CardinalityType
<1> QED BY <1>1, <1>8 DEF Good
-----------------------------------------------------------------------------
(* The page directories and tables.                                        *)

\* The directories D begin with the kernel's tables; behind those they lead to tables that
\* are pages of the RAM, and the tables to pages that are neither.
TablesOK(e, D) ==
    /\ DOMAIN e \subseteq 1..(RamPages - 1)
    /\ \A t \in DOMAIN e : e[t] \in [Entries -> 0..(RamPages - 1)]
    /\ KernelPd \in D /\ D \subseteq DOMAIN e /\ D \ {KernelPd} \subseteq Pages
    /\ \A d \in D, i \in 0..(KmemEnd - 1) : e[d][i] = KernelPt(i)
    /\ \A i \in 0..(KmemEnd - 1) : KernelPt(i) \in (DOMAIN e) \ D
    /\ \A d \in D, i \in KmemEnd..(PeCount - 1) :
          e[d][i] # NoPage => e[d][i] \in Pages /\ e[d][i] \in (DOMAIN e) \ D
    /\ \A t \in (DOMAIN e) \ D, i \in Entries :
          e[t][i] # NoPage => IF t = KernelPt(0) THEN e[t][i] \notin Pages
                              ELSE e[t][i] \in Pages \ DOMAIN e

\* A page of the RAM is in use if and only if it is a directory or in an entry, and then in
\* one.
OwnersOK(m, D) ==
    /\ (DOMAIN m.entries) \cap Pages \subseteq m.ram.set
    /\ \A page \in Pages :
          page \in m.ram.set <=>
             page \in D \/ \E t \in DOMAIN m.entries, i \in Entries : m.entries[t][i] = page
    /\ \A t, u \in DOMAIN m.entries : \A i, j \in Entries :
          m.entries[t][i] = m.entries[u][j] /\ m.entries[t][i] \in Pages => t = u /\ i = j

MemoryOK(m, D) ==
    /\ m = [ram |-> m.ram, entries |-> m.entries, panic |-> m.panic]
    /\ RamOK(m.ram) /\ TablesOK(m.entries, D) /\ OwnersOK(m, D)

\* The kernel's tables are below the pages of the RAM that are handed out.
LEMMA KernelTables ==
    /\ KernelPd \notin Pages /\ KernelPd # NoPage /\ Entries \subseteq Nat /\ PeCount \in Nat
    /\ 0 \in 0..(KmemEnd - 1) /\ 0..(KmemEnd - 1) \subseteq Entries
    /\ KmemEnd \in Nat /\ Entries = 0..(KmemEnd - 1) \cup KmemEnd..(PeCount - 1)
    /\ \A i \in 0..(KmemEnd - 1) : KernelPt(i) \notin Pages /\ KernelPt(i) # NoPage
    /\ \A i, j \in 0..(KmemEnd - 1) : KernelPt(i) = KernelPt(j) => i = j
  BY MemoryAssumption, PagesAssumption DEF KernelPd, KernelPt, Pages, NoPage, Entries

\* What a page that is found free is not.
LEMMA FreeIsNew ==
    ASSUME NEW m, NEW D, MemoryOK(m, D), NEW new \in Pages \ m.ram.set
    PROVE  /\ new \notin DOMAIN m.entries /\ new \notin D /\ new # NoPage
           /\ \A t \in DOMAIN m.entries, i \in Entries : m.entries[t][i] # new
  BY PagesFacts DEF MemoryOK, OwnersOK, TablesOK

\* Of the entries none but entry i of t is another in n, which may have more tables.
OnlyEntry(m, n, t, i) ==
    \A u \in DOMAIN m.entries, j \in Entries :
       ~(u = t /\ j = i) => n.entries[u][j] = m.entries[u][j]

\* A new page in an entry of a table.
LEMMA PutPageOK ==
    ASSUME SmallRam, NEW m, NEW D, MemoryOK(m, D), CanAlloc(m.ram),
           NEW t \in (DOMAIN m.entries) \ D, t # KernelPt(0), NEW i \in Entries, m.entries[t][i] = NoPage
    PROVE  \A n : n = PutNewPage(m, t, i, FALSE) =>
              /\ MemoryOK(n, D) /\ n.panic = m.panic
              /\ n.entries[t][i] # NoPage
              /\ DOMAIN n.entries = DOMAIN m.entries /\ OnlyEntry(m, n, t, i)
<1>1. SUFFICES ASSUME NEW n, n = PutNewPage(m, t, i, FALSE)
      PROVE   /\ MemoryOK(n, D) /\ n.panic = m.panic
              /\ n.entries[t][i] # NoPage
              /\ DOMAIN n.entries = DOMAIN m.entries /\ OnlyEntry(m, n, t, i)
  OBVIOUS
<1>2. PICK new : new = FirstFound(m.ram)
  OBVIOUS
<1>3. n = [m EXCEPT !.ram = AllocPage(@, FALSE), !.entries[t][i] = new]
  BY <1>1, <1>2 DEF PutNewPage
<1>4. PICK e, f : e = m.entries /\ f = n.entries
  OBVIOUS
<1>m. m = [ram |-> m.ram, entries |-> m.entries, panic |-> m.panic] /\ RamOK(m.ram) /\ TablesOK(e, D)
  BY <1>4 DEF MemoryOK
<1>5. /\ n.ram = AllocPage(m.ram, FALSE) /\ f = [e EXCEPT ![t][i] = new] /\ n.panic = m.panic
      /\ n = [ram |-> n.ram, entries |-> n.entries, panic |-> n.panic]
  BY <1>m, <1>3, <1>4
<1>6. /\ DOMAIN f = DOMAIN e /\ f[t][i] = new
      /\ \A u \in DOMAIN e, j \in Entries : ~(u = t /\ j = i) => f[u][j] = e[u][j]
      /\ \A u \in DOMAIN f : f[u] \in [Entries -> 0..(RamPages - 1)]
  <2>1. new \in 0..(RamPages - 1)
    BY <1>2, <1>m, FoundIsFree, PagesFacts, PagesAssumption
  <2> QED BY <1>4, <1>5, <1>m, <2>1 DEF TablesOK
<1>7. new \in Pages \ m.ram.set /\ RamOK(n.ram) /\ Took(m.ram, n.ram, new)
  BY <1>2, <1>5, <1>m, AllocPageOK
<1>8. /\ new \notin DOMAIN e /\ new \notin D /\ new # NoPage
      /\ \A u \in DOMAIN e, j \in Entries : e[u][j] # new
  BY <1>4, <1>7, FreeIsNew
<1>9. TablesOK(f, D)
  <2>1. KernelPd \in D /\ D \subseteq DOMAIN f /\ D \ {KernelPd} \subseteq Pages
        /\ DOMAIN f \subseteq 1..(RamPages - 1) /\ \A j \in 0..(KmemEnd - 1) : KernelPt(j) \in (DOMAIN f) \ D
    BY <1>6, <1>m DEF TablesOK
  <2>2. \A d \in D, j \in Entries : f[d][j] = e[d][j]
    BY <1>4, <1>6, <1>m DEF TablesOK
  <2>3. \A d \in D, j \in 0..(KmemEnd - 1) : f[d][j] = KernelPt(j)
    BY <1>m, <2>2, KernelTables DEF TablesOK
  <2>4. \A d \in D, j \in KmemEnd..(PeCount - 1) :
           f[d][j] # NoPage => f[d][j] \in Pages /\ f[d][j] \in (DOMAIN f) \ D
    BY <1>6, <1>m, <2>2, KernelTables DEF TablesOK
  <2>5. ASSUME NEW u \in (DOMAIN f) \ D, NEW j \in Entries, f[u][j] # NoPage
        PROVE  IF u = KernelPt(0) THEN f[u][j] \notin Pages ELSE f[u][j] \in Pages \ DOMAIN f
    BY <1>7, <1>8, <1>4, <1>6, <1>m, <2>5 DEF TablesOK
  <2> QED BY <1>6, <2>1, <2>3, <2>4, <2>5 DEF TablesOK
<1>10. OwnersOK(n, D)
  <2>1. OwnersOK(m, D)
    BY DEF MemoryOK
  <2>2. (DOMAIN f) \cap Pages \subseteq n.ram.set
    BY <1>4, <1>6, <1>7, <2>1 DEF OwnersOK, Took
  <2>3. ASSUME NEW page \in Pages
        PROVE  page \in n.ram.set <=> page \in D \/ \E u \in DOMAIN f, j \in Entries : f[u][j] = page
    <3>1. CASE page = new
      BY <1>4, <1>6, <1>7, <3>1 DEF Took
    <3>2. CASE page # new
      <4>1. page \in n.ram.set <=> page \in m.ram.set
        BY <1>7, <3>2 DEF Took
      <4>2. (\E u \in DOMAIN f, j \in Entries : f[u][j] = page)
               <=> \E u \in DOMAIN e, j \in Entries : e[u][j] = page
        BY <1>4, <1>6, <3>2, PagesFacts
      <4> QED BY <1>4, <2>1, <4>1, <4>2 DEF OwnersOK
    <3> QED BY <3>1, <3>2
  <2>4. ASSUME NEW u \in DOMAIN f, NEW v \in DOMAIN f, NEW j \in Entries, NEW k \in Entries,
               f[u][j] = f[v][k], f[u][j] \in Pages
        PROVE  u = v /\ j = k
    BY <1>4, <1>6, <1>8, <2>1, <2>4, SMTT(60) DEF OwnersOK
  <2> QED BY <1>4, <2>2, <2>3, <2>4 DEF OwnersOK
<1>11. MemoryOK(n, D)
  BY <1>4, <1>5, <1>7, <1>9, <1>10 DEF MemoryOK
<1> QED BY <1>4, <1>5, <1>6, <1>8, <1>11 DEF OnlyEntry

\* A new table, without entries, in entry i of directory pd.
TableAdded(m, n, pd, i) ==
    /\ DOMAIN n.entries = DOMAIN m.entries \cup {n.entries[pd][i]}
    /\ n.entries[pd][i] \in Pages \ DOMAIN m.entries
    /\ \A j \in Entries : n.entries[n.entries[pd][i]][j] = NoPage
    /\ OnlyEntry(m, n, pd, i)

\* map_virtual_page() takes a page for the table, in a, and clears it, in n.
AddsTable(m, pd, i, a, n) ==
    a = PutNewPage(m, pd, i, TRUE) /\ n = WithTable(a, a.entries[pd][i], Empty)

\* It adds a table where there is none behind the kernel's.
LEMMA AddTableOK ==
    ASSUME SmallRam, NEW m, NEW D, MemoryOK(m, D), CanAlloc(m.ram),
           NEW pd \in D, NEW i \in KmemEnd..(PeCount - 1), m.entries[pd][i] = NoPage
    PROVE  \A a, n : AddsTable(m, pd, i, a, n) =>
              /\ MemoryOK(n, D) /\ a.panic = m.panic /\ n.panic = m.panic
              /\ TableAdded(m, n, pd, i)
<1> TAKE a, n
<1>1. SUFFICES ASSUME a = PutNewPage(m, pd, i, TRUE), n = WithTable(a, a.entries[pd][i], Empty)
      PROVE   /\ MemoryOK(n, D) /\ a.panic = m.panic /\ n.panic = m.panic
              /\ TableAdded(m, n, pd, i)
  BY DEF AddsTable
<1>2. PICK new : new = FirstFound(m.ram)
  OBVIOUS
<1>3. a = [m EXCEPT !.ram = AllocPage(@, TRUE), !.entries[pd][i] = new]
  BY <1>1, <1>2 DEF PutNewPage
<1>4. PICK e, b : e = m.entries /\ b = a.entries
  OBVIOUS
<1>m. m = [ram |-> m.ram, entries |-> m.entries, panic |-> m.panic] /\ RamOK(m.ram) /\ TablesOK(e, D)
  BY <1>4 DEF MemoryOK
<1>5. /\ a.ram = AllocPage(m.ram, TRUE) /\ b = [e EXCEPT ![pd][i] = new] /\ a.panic = m.panic
      /\ a = [ram |-> a.ram, entries |-> a.entries, panic |-> a.panic]
  BY <1>m, <1>3, <1>4
<1>i. i \in Entries /\ i \notin 0..(KmemEnd - 1)
  BY KernelTables, i \in KmemEnd..(PeCount - 1)
<1>6. /\ DOMAIN b = DOMAIN e /\ b[pd][i] = new
      /\ \A u \in DOMAIN e, j \in Entries : ~(u = pd /\ j = i) => b[u][j] = e[u][j]
      /\ \A u \in DOMAIN b : b[u] \in [Entries -> 0..(RamPages - 1)]
  <2>1. new \in 0..(RamPages - 1)
    BY <1>2, <1>m, FoundIsFree, PagesFacts, PagesAssumption
  <2> QED BY <1>4, <1>5, <1>i, <1>m, <2>1 DEF TablesOK
<1>7. new \in Pages \ m.ram.set /\ RamOK(a.ram) /\ Took(m.ram, a.ram, new)
  BY <1>2, <1>5, <1>m, AllocPageOK
<1>8. /\ new \notin DOMAIN e /\ new \notin D /\ new # NoPage
      /\ \A u \in DOMAIN e, j \in Entries : e[u][j] # new
  BY <1>4, <1>7, FreeIsNew
<1>9. n = WithTable(a, a.entries[pd][i], Empty)
  BY <1>1
<1>10. PICK f : f = n.entries
  OBVIOUS
<1>11. /\ n.ram = a.ram /\ n.panic = a.panic /\ n = [ram |-> n.ram, entries |-> n.entries, panic |-> n.panic]
       /\ f = [t \in DOMAIN b \cup {new} |-> IF t = new THEN Empty ELSE b[t]]
  <2>1. PICK g : g = [t \in DOMAIN b \cup {new} |-> IF t = new THEN Empty ELSE b[t]]
    OBVIOUS
  <2>2. n = [a EXCEPT !.entries = g]
    <3>1. a.entries = b /\ a.entries[pd][i] = new
      BY <1>4, <1>6
    <3> QED BY <1>9, <2>1, <3>1 DEF WithTable
  <2>3. n = [ram |-> a.ram, entries |-> g, panic |-> a.panic]
    BY <1>5, <2>2
  <2> QED BY <1>10, <2>1, <2>3
<1>12. /\ DOMAIN f = DOMAIN e \cup {new} /\ f[pd][i] = new
       /\ \A j \in Entries : f[new][j] = NoPage
       /\ \A u \in DOMAIN e, j \in Entries : ~(u = pd /\ j = i) => f[u][j] = e[u][j]
       /\ \A u \in DOMAIN f : f[u] \in [Entries -> 0..(RamPages - 1)]
  <2>1. pd \in DOMAIN e /\ pd # new
    BY <1>8, <1>m DEF TablesOK
  <2>2. Empty \in [Entries -> 0..(RamPages - 1)] /\ \A j \in Entries : Empty[j] = NoPage
    BY PagesAssumption DEF Empty, NoPage
  <2> QED BY <1>6, <1>8, <1>11, <2>1, <2>2
<1>13. TablesOK(f, D)
  <2>1. DOMAIN f \subseteq 1..(RamPages - 1)
    BY <1>7, <1>12, <1>m, PagesFacts, PagesAssumption DEF TablesOK
  <2>2. KernelPd \in D /\ D \subseteq DOMAIN f /\ D \ {KernelPd} \subseteq Pages
    BY <1>12, <1>m DEF TablesOK
  <2>3. \A d \in D, j \in 0..(KmemEnd - 1) : f[d][j] = KernelPt(j)
    BY <1>12, <1>i, <1>m, KernelTables DEF TablesOK
  <2>4. \A j \in 0..(KmemEnd - 1) : KernelPt(j) \in (DOMAIN f) \ D
    BY <1>12, <1>m DEF TablesOK
  <2>5. ASSUME NEW d \in D, NEW j \in KmemEnd..(PeCount - 1), f[d][j] # NoPage
        PROVE  f[d][j] \in Pages /\ f[d][j] \in (DOMAIN f) \ D
    <3>1. j \in Entries /\ d \in DOMAIN e
      BY KernelTables, <1>m DEF TablesOK
    <3> QED BY <1>7, <1>8, <1>12, <1>m, <2>5, <3>1 DEF TablesOK
  <2>6. ASSUME NEW t \in (DOMAIN f) \ D, NEW j \in Entries, f[t][j] # NoPage
        PROVE  IF t = KernelPt(0) THEN f[t][j] \notin Pages ELSE f[t][j] \in Pages \ DOMAIN f
    <3>1. t \in (DOMAIN e) \ D /\ f[t][j] = e[t][j] /\ f[t][j] # new
      BY <1>8, <1>12, <2>6
    <3> QED BY <1>12, <1>m, <2>6, <3>1 DEF TablesOK
  <2> QED BY <1>12, <2>1, <2>2, <2>3, <2>4, <2>5, <2>6 DEF TablesOK
<1>14. OwnersOK(n, D)
  <2>1. OwnersOK(m, D)
    BY DEF MemoryOK
  <2>2. (DOMAIN f) \cap Pages \subseteq n.ram.set
    BY <1>4, <1>7, <1>11, <1>12, <2>1 DEF OwnersOK, Took
  <2>3. ASSUME NEW page \in Pages
        PROVE  page \in n.ram.set <=> page \in D \/ \E u \in DOMAIN f, j \in Entries : f[u][j] = page
    <3>1. CASE page = new
      <4>1. pd \in DOMAIN f
        BY <1>12, <1>m DEF TablesOK
      <4> QED BY <1>7, <1>11, <1>12, <1>i, <3>1, <4>1 DEF Took
    <3>2. CASE page # new
      <4>1. page \in n.ram.set <=> page \in m.ram.set
        BY <1>7, <1>11, <3>2 DEF Took
      <4>2. ASSUME NEW u \in DOMAIN f, NEW j \in Entries, f[u][j] = page
            PROVE  u \in DOMAIN e /\ e[u][j] = page
        BY <1>12, <3>2, <4>2, PagesFacts
      <4>3. ASSUME NEW u \in DOMAIN e, NEW j \in Entries, e[u][j] = page
            PROVE  u \in DOMAIN f /\ f[u][j] = page
        <5>1. ~(u = pd /\ j = i)
          BY <1>4, <4>3, PagesFacts
        <5> QED BY <1>12, <4>3, <5>1
      <4> QED BY <1>4, <2>1, <4>1, <4>2, <4>3 DEF OwnersOK
    <3> QED BY <3>1, <3>2
  <2>4. ASSUME NEW u \in DOMAIN f, NEW v \in DOMAIN f, NEW j \in Entries, NEW k \in Entries,
               f[u][j] = f[v][k], f[u][j] \in Pages
        PROVE  u = v /\ j = k
    <3>1. u \in DOMAIN e /\ v \in DOMAIN e
      BY <1>12, <2>4, PagesFacts
    <3> QED BY <1>4, <1>8, <1>12, <2>1, <2>4, <3>1 DEF OwnersOK
  <2> QED BY <1>10, <2>2, <2>3, <2>4 DEF OwnersOK
<1>15. MemoryOK(n, D)
  BY <1>7, <1>10, <1>11, <1>13, <1>14 DEF MemoryOK
<1> QED BY <1>4, <1>5, <1>7, <1>8, <1>10, <1>11, <1>12, <1>15, SMTT(60) DEF OnlyEntry, TableAdded

\* Entry i of table t without the page in it, and that free.
Cleared(m, t, i) == [m EXCEPT !.ram = FreePage(@, m.entries[t][i]), !.entries[t][i] = NoPage]

\* A page of the RAM in an entry of a table, given back.
LEMMA ClearEntryOK ==
    ASSUME NEW m, NEW D, MemoryOK(m, D),
           NEW t \in (DOMAIN m.entries) \ D, t # KernelPt(0), NEW i \in Entries, m.entries[t][i] # NoPage
    PROVE  \A n : n = Cleared(m, t, i) =>
              /\ MemoryOK(n, D) /\ n.panic = m.panic
              /\ n.entries[t][i] = NoPage
              /\ DOMAIN n.entries = DOMAIN m.entries /\ OnlyEntry(m, n, t, i)
<1>1. SUFFICES ASSUME NEW n, n = Cleared(m, t, i)
      PROVE   /\ MemoryOK(n, D) /\ n.panic = m.panic
              /\ n.entries[t][i] = NoPage
              /\ DOMAIN n.entries = DOMAIN m.entries /\ OnlyEntry(m, n, t, i)
  OBVIOUS
<1>2. PICK old : old = m.entries[t][i]
  OBVIOUS
<1>4. PICK e, f : e = m.entries /\ f = n.entries
  OBVIOUS
<1>m. m = [ram |-> m.ram, entries |-> m.entries, panic |-> m.panic] /\ RamOK(m.ram) /\ TablesOK(e, D)
      /\ OwnersOK(m, D)
  BY <1>4 DEF MemoryOK
<1>5. /\ n.ram = FreePage(m.ram, old) /\ f = [e EXCEPT ![t][i] = NoPage] /\ n.panic = m.panic
      /\ n = [ram |-> n.ram, entries |-> n.entries, panic |-> n.panic]
  BY <1>m, <1>1, <1>2, <1>4 DEF Cleared
<1>6. /\ DOMAIN f = DOMAIN e /\ f[t][i] = NoPage
      /\ \A u \in DOMAIN e, j \in Entries : ~(u = t /\ j = i) => f[u][j] = e[u][j]
      /\ \A u \in DOMAIN f : f[u] \in [Entries -> 0..(RamPages - 1)]
  <2>1. NoPage \in 0..(RamPages - 1)
    BY PagesAssumption DEF NoPage
  <2> QED BY <1>4, <1>5, <1>m, <2>1 DEF TablesOK
<1>7. old \in Pages \ DOMAIN e
  BY <1>2, <1>4, <1>m DEF TablesOK
<1>8. RamOK(n.ram) /\ Gave(m.ram, n.ram, old)
  BY <1>5, <1>7, <1>m, FreePageOK
<1>9. TablesOK(f, D)
  <2>1. KernelPd \in D /\ D \subseteq DOMAIN f /\ D \ {KernelPd} \subseteq Pages
        /\ DOMAIN f \subseteq 1..(RamPages - 1) /\ \A j \in 0..(KmemEnd - 1) : KernelPt(j) \in (DOMAIN f) \ D
    BY <1>6, <1>m DEF TablesOK
  <2>2. \A d \in D, j \in Entries : f[d][j] = e[d][j]
    BY <1>4, <1>6, <1>m DEF TablesOK
  <2>3. \A d \in D, j \in 0..(KmemEnd - 1) : f[d][j] = KernelPt(j)
    BY <1>m, <2>2, KernelTables DEF TablesOK
  <2>4. \A d \in D, j \in KmemEnd..(PeCount - 1) :
           f[d][j] # NoPage => f[d][j] \in Pages /\ f[d][j] \in (DOMAIN f) \ D
    BY <1>6, <1>m, <2>2, KernelTables DEF TablesOK
  <2>5. ASSUME NEW u \in (DOMAIN f) \ D, NEW j \in Entries, f[u][j] # NoPage
        PROVE  IF u = KernelPt(0) THEN f[u][j] \notin Pages ELSE f[u][j] \in Pages \ DOMAIN f
    BY <1>4, <1>6, <1>m, <2>5 DEF TablesOK
  <2> QED BY <1>6, <2>1, <2>3, <2>4, <2>5 DEF TablesOK
<1>10. OwnersOK(n, D)
  <2>2. (DOMAIN f) \cap Pages \subseteq n.ram.set
    BY <1>4, <1>6, <1>7, <1>8, <1>m DEF OwnersOK, Gave
  <2>3. ASSUME NEW page \in Pages
        PROVE  page \in n.ram.set <=> page \in D \/ \E u \in DOMAIN f, j \in Entries : f[u][j] = page
    <3>1. CASE page = old
      <4>1. page \notin n.ram.set
        BY <1>8, <3>1 DEF Gave
      <4>2. page \notin D
        BY <1>7, <1>m, <3>1 DEF TablesOK
      <4>3. ASSUME NEW u \in DOMAIN f, NEW j \in Entries, f[u][j] = page PROVE FALSE
        <5>1. ~(u = t /\ j = i)
          BY <1>6, <4>3, PagesFacts
        <5>2. e[u][j] = e[t][i] /\ e[u][j] \in Pages
          BY <1>2, <1>4, <1>6, <3>1, <4>3, <5>1
        <5> QED BY <1>4, <1>6, <1>m, <5>1, <5>2 DEF OwnersOK
      <4> QED BY <4>1, <4>2, <4>3
    <3>2. CASE page # old
      <4>1. page \in n.ram.set <=> page \in m.ram.set
        BY <1>8, <3>2 DEF Gave
      <4>2. (\E u \in DOMAIN f, j \in Entries : f[u][j] = page)
               <=> \E u \in DOMAIN e, j \in Entries : e[u][j] = page
        BY <1>2, <1>4, <1>6, <3>2, PagesFacts
      <4> QED BY <1>4, <1>m, <4>1, <4>2 DEF OwnersOK
    <3> QED BY <3>1, <3>2
  <2>4. ASSUME NEW u \in DOMAIN f, NEW v \in DOMAIN f, NEW j \in Entries, NEW k \in Entries,
               f[u][j] = f[v][k], f[u][j] \in Pages
        PROVE  u = v /\ j = k
    <3>1. ~(u = t /\ j = i) /\ ~(v = t /\ k = i)
      BY <1>6, <2>4, PagesFacts
    <3> QED BY <1>4, <1>6, <1>m, <2>4, <3>1 DEF OwnersOK
  <2> QED BY <1>4, <2>2, <2>3, <2>4 DEF OwnersOK
<1>11. MemoryOK(n, D)
  BY <1>4, <1>5, <1>8, <1>9, <1>10 DEF MemoryOK
<1> QED BY <1>4, <1>5, <1>6, <1>11 DEF OnlyEntry

-----------------------------------------------------------------------------
(* map_virtual_page() and unmap_virtual_page().                            *)

Mapped(m, pd, page) == Mapping(m, pd, page) # NoPage

\* Page q of directory d and page of pd have their entry in common.
SameEntry(pd, page, d, q) == q = page /\ (d = pd \/ page < KmemEnd * PeCount)

\* A panic leaves the memory as it is.
LEMMA PanicOK ==
    ASSUME NEW m, NEW D, MemoryOK(m, D), NEW what
    PROVE  /\ MemoryOK(Panic(m, what), D) /\ Panic(m, what).panic = what
           /\ \A d, q : Mapped(Panic(m, what), d, q) <=> Mapped(m, d, q)
<1>1. PICK n : n = Panic(m, what)
  OBVIOUS
<1>2. n = [ram |-> m.ram, entries |-> m.entries, panic |-> what]
  BY <1>1 DEF MemoryOK, Panic
<1>3. n.ram = m.ram /\ n.entries = m.entries /\ n.panic = what
      /\ n = [ram |-> n.ram, entries |-> n.entries, panic |-> n.panic]
  BY <1>2
<1>4. MemoryOK(n, D)
  BY <1>3 DEF MemoryOK, OwnersOK
<1>5. \A d, q : Mapped(n, d, q) <=> Mapped(m, d, q)
  BY <1>3 DEF Mapped, Mapping, TableOf
<1> QED BY <1>1, <1>3, <1>4, <1>5

\* Where the table of a page is.
LEMMA TableOfPage ==
    ASSUME NEW m, NEW D, MemoryOK(m, D), NEW d \in D, NEW q \in Addresses
    PROVE  /\ TableOf(m, d, q) = m.entries[d][Pde(q)] /\ Pde(q) \in Entries /\ Pte(q) \in Entries
           /\ d \in DOMAIN m.entries
           /\ q < KmemEnd * PeCount =>
                 Pde(q) \in 0..(KmemEnd - 1) /\ TableOf(m, d, q) = KernelPt(Pde(q))
           /\ ~(q < KmemEnd * PeCount) =>
                 /\ Pde(q) \in KmemEnd..(PeCount - 1)
                 /\ TableOf(m, d, q) # NoPage => TableOf(m, d, q) \in Pages
           /\ TableOf(m, d, q) # NoPage => TableOf(m, d, q) \in (DOMAIN m.entries) \ D
           /\ q >= PeCount => TableOf(m, d, q) # KernelPt(0)
<1>1. Pde(q) \in Entries /\ Pte(q) \in Entries /\ (Pde(q) < KmemEnd <=> q < KmemEnd * PeCount)
      /\ (q >= PeCount => Pde(q) # 0)
  BY AddressDigits
<1>2. PICK k : k = Pde(q)
  OBVIOUS
<1>3. k \in Nat /\ (k < KmemEnd => k \in 0..(KmemEnd - 1)) /\ (~(k < KmemEnd) => k \in KmemEnd..(PeCount - 1))
  BY <1>1, <1>2, KernelTables DEF Entries
<1>4. TablesOK(m.entries, D)
  BY DEF MemoryOK
<1>5. PICK t : t = TableOf(m, d, q)
  OBVIOUS
<1>6. t = m.entries[d][k]
  BY <1>2, <1>5 DEF TableOf
<1>7. k < KmemEnd => t = KernelPt(k) /\ t \in (DOMAIN m.entries) \ D
  BY <1>3, <1>4, <1>6 DEF TablesOK
<1>8. ~(k < KmemEnd) /\ t # NoPage => t \in Pages /\ t \in (DOMAIN m.entries) \ D
  BY <1>3, <1>4, <1>6 DEF TablesOK
<1>9. q >= PeCount => t # KernelPt(0)
  <2>1. CASE k < KmemEnd
    BY <1>1, <1>2, <1>3, <1>7, <2>1, KernelTables
  <2>2. CASE ~(k < KmemEnd)
    BY <1>3, <1>4, <1>6, <1>8, <2>2, KernelTables
  <2> QED BY <2>1, <2>2
<1>10. d \in DOMAIN m.entries
  BY <1>4 DEF TablesOK
<1> QED BY <1>1, <1>2, <1>3, <1>5, <1>6, <1>7, <1>8, <1>9, <1>10

\* Two pages that lead to one entry of one table are the same.
LEMMA EntryOfOne ==
    ASSUME NEW m, NEW D, MemoryOK(m, D), NEW d \in D, NEW q \in Addresses,
           NEW pd \in D, NEW page \in Addresses,
           TableOf(m, pd, page) # NoPage
    PROVE  TableOf(m, d, q) = TableOf(m, pd, page) /\ Pte(q) = Pte(page)
              <=> SameEntry(pd, page, d, q)
<1>0. q \in Nat /\ page \in Nat
  BY AddressDigits
<1>1. ASSUME SameEntry(pd, page, d, q)
      PROVE  TableOf(m, d, q) = TableOf(m, pd, page) /\ Pte(q) = Pte(page)
  BY <1>1, TableOfPage DEF SameEntry
<1>2. ASSUME TableOf(m, d, q) = TableOf(m, pd, page), Pte(q) = Pte(page)
      PROVE  SameEntry(pd, page, d, q)
  <2>1. CASE page < KmemEnd * PeCount
    <3>1. q < KmemEnd * PeCount
      BY <1>2, <2>1, TableOfPage, KernelTables
    <3>2. KernelPt(Pde(q)) = KernelPt(Pde(page)) /\ Pde(q) \in 0..(KmemEnd - 1) /\ Pde(page) \in 0..(KmemEnd - 1)
      BY <1>2, <2>1, <3>1, TableOfPage
    <3>3. Pde(q) = Pde(page)
      BY <3>2, KernelTables
    <3> QED BY <1>0, <1>2, <2>1, <3>3, SameDigits DEF SameEntry
  <2>2. CASE ~(page < KmemEnd * PeCount)
    <3>1. TableOf(m, d, q) \in Pages
      BY <1>2, <2>2, TableOfPage
    <3>2. m.entries[d][Pde(q)] = m.entries[pd][Pde(page)] /\ m.entries[d][Pde(q)] \in Pages
          /\ Pde(q) \in Entries /\ Pde(page) \in Entries /\ d \in DOMAIN m.entries /\ pd \in DOMAIN m.entries
      BY <1>2, <3>1, TableOfPage
    <3>3. d = pd /\ Pde(q) = Pde(page)
      BY <3>2 DEF MemoryOK, OwnersOK
    <3> QED BY <1>0, <1>2, <3>3, SameDigits DEF SameEntry
  <2> QED BY <2>1, <2>2
<1> QED BY <1>1, <1>2

\* What changes when one entry of a table does.
LEMMA EntryChanged ==
    ASSUME NEW m, NEW D, MemoryOK(m, D), NEW pd \in D, NEW page \in Addresses,
           TableOf(m, pd, page) # NoPage,
           NEW n, DOMAIN n.entries = DOMAIN m.entries, OnlyEntry(m, n, TableOf(m, pd, page), Pte(page)),
           NEW d \in D, NEW q \in Addresses
    PROVE  Mapping(n, d, q) = IF SameEntry(pd, page, d, q)
                              THEN n.entries[TableOf(m, pd, page)][Pte(page)] ELSE Mapping(m, d, q)
<1>1. PICK t, s : t = TableOf(m, pd, page) /\ s = TableOf(m, d, q)
  OBVIOUS
<1>2. t \in (DOMAIN m.entries) \ D /\ d \in DOMAIN m.entries /\ Pde(q) \in Entries /\ Pte(q) \in Entries
      /\ s = m.entries[d][Pde(q)] /\ (s # NoPage => s \in DOMAIN m.entries)
  BY <1>1, TableOfPage
<1>3. TableOf(n, d, q) = s
  BY <1>1, <1>2 DEF TableOf, OnlyEntry
<1>4. s = t /\ Pte(q) = Pte(page) <=> SameEntry(pd, page, d, q)
  BY <1>1, EntryOfOne
<1>5. CASE SameEntry(pd, page, d, q)
  BY <1>1, <1>3, <1>4, <1>5 DEF Mapping
<1>6. CASE ~SameEntry(pd, page, d, q)
  <2>1. s # NoPage => n.entries[s][Pte(q)] = m.entries[s][Pte(q)]
    BY <1>1, <1>2, <1>4, <1>6 DEF OnlyEntry
  <2> QED BY <1>1, <1>3, <1>6, <2>1 DEF Mapping
<1> QED BY <1>5, <1>6

\* A page that is not mapped is mapped, or the RAM is exhausted; nothing else is.
LEMMA MapVirtualPageOK ==
    ASSUME SmallRam, NEW m, NEW D, MemoryOK(m, D), m.panic = Running, NEW pd \in D,
           NEW page \in Addresses, page >= PeCount, ~Mapped(m, pd, page)
    PROVE  \A n : n = MapVirtualPage(m, pd, page) =>
              /\ MemoryOK(n, D) /\ n.panic \in {Running, OutOfMemory}
              /\ n.panic = Running =>
                    \A d \in D, q \in Addresses :
                       Mapped(n, d, q) <=> Mapped(m, d, q) \/ SameEntry(pd, page, d, q)
<1> DEFINE Unchanged(n) == \A d \in D, q \in Addresses : Mapped(n, d, q) <=> Mapped(m, d, q)
<1>0. OutOfMemory # Running
  BY DEF OutOfMemory, Running
<1>1. PICK t : t = IF TableOf(m, pd, page) # NoPage THEN m
                   ELSE LET a == PutNewPage(m, pd, Pde(page), TRUE)
                        IN  Then(a, WithTable(a, TableOf(a, pd, page), Empty))
  OBVIOUS
<1>2. /\ MemoryOK(t, D) /\ t.panic \in {Running, OutOfMemory}
      /\ t.panic = Running => TableOf(t, pd, page) # NoPage /\ Unchanged(t)
  <2>1. CASE TableOf(m, pd, page) # NoPage
    BY <1>1, <2>1
  <2>2. CASE TableOf(m, pd, page) = NoPage
    <3>0. PICK i : i = Pde(page)
      OBVIOUS
    <3>1. PICK a : a = PutNewPage(m, pd, i, TRUE)
      OBVIOUS
    <3>2. t = Then(a, WithTable(a, TableOf(a, pd, page), Empty))
      BY <1>1, <2>2, <3>0, <3>1
    <3>3. i \in KmemEnd..(PeCount - 1) /\ m.entries[pd][i] = NoPage
      BY <2>2, <3>0, TableOfPage, KernelTables
    <3>4. CASE ~CanAlloc(m.ram)
      <4>1. a = Panic(m, OutOfMemory)
        BY <3>1, <3>4 DEF PutNewPage
      <4>2. a.panic = OutOfMemory /\ MemoryOK(a, D)
        BY <4>1, PanicOK
      <4> QED BY <1>0, <3>2, <4>2 DEF Then
    <3>5. CASE CanAlloc(m.ram)
      <4>1. PICK n : n = WithTable(a, a.entries[pd][i], Empty)
        OBVIOUS
      <4>0. AddsTable(m, pd, i, a, n)
        BY <3>1, <4>1 DEF AddsTable
      <4>2. /\ MemoryOK(n, D) /\ a.panic = m.panic /\ n.panic = m.panic
            /\ TableAdded(m, n, pd, i)
        BY <3>3, <3>5, <4>0, AddTableOK
      <4>3. t = n
        BY <3>0, <3>2, <4>1, <4>2 DEF Then, TableOf
      <4>4. TableOf(t, pd, page) # NoPage
        BY <3>0, <4>2, <4>3, PagesFacts DEF TableOf, TableAdded
      <4>5. ASSUME NEW d \in D, NEW q \in Addresses
            PROVE  Mapped(n, d, q) <=> Mapped(m, d, q)
        <5>1. /\ d \in DOMAIN m.entries /\ Pde(q) \in Entries /\ Pte(q) \in Entries
              /\ TableOf(m, d, q) = m.entries[d][Pde(q)]
              /\ TableOf(m, d, q) # NoPage => TableOf(m, d, q) \in (DOMAIN m.entries) \ D
          BY TableOfPage
        <5>2. CASE d = pd /\ Pde(q) = i
          <6>1. ~Mapped(m, d, q)
            BY <3>3, <5>1, <5>2 DEF Mapped, Mapping
          <6>2. Mapping(n, d, q) = NoPage
            BY <4>2, <5>1, <5>2 DEF Mapping, TableOf, TableAdded
          <6> QED BY <6>1, <6>2 DEF Mapped
        <5>3. CASE ~(d = pd /\ Pde(q) = i)
          <6>1. TableOf(n, d, q) = TableOf(m, d, q)
            BY <4>2, <5>1, <5>3 DEF TableOf, OnlyEntry, TableAdded
          <6>2. TableOf(m, d, q) # NoPage =>
                   n.entries[TableOf(m, d, q)][Pte(q)] = m.entries[TableOf(m, d, q)][Pte(q)]
            BY <4>2, <5>1 DEF OnlyEntry, TableAdded
          <6> QED BY <6>1, <6>2 DEF Mapped, Mapping
        <5> QED BY <5>2, <5>3
      <4> QED BY <4>2, <4>3, <4>4, <4>5
    <3> QED BY <3>4, <3>5
  <2> QED BY <2>1, <2>2
<1>3. SUFFICES ASSUME NEW n, n = MapVirtualPage(m, pd, page)
      PROVE  /\ MemoryOK(n, D) /\ n.panic \in {Running, OutOfMemory}
             /\ n.panic = Running =>
                   \A d \in D, q \in Addresses :
                      Mapped(n, d, q) <=> Mapped(m, d, q) \/ SameEntry(pd, page, d, q)
  OBVIOUS
<1>4. n = Then(t, PutNewPage(t, TableOf(t, pd, page), Pte(page), FALSE))
  BY <1>1, <1>3 DEF MapVirtualPage
<1>5. CASE t.panic # Running
  BY <1>2, <1>4, <1>5 DEF Then
<1>6. CASE t.panic = Running
  <2>1. n = PutNewPage(t, TableOf(t, pd, page), Pte(page), FALSE)
    BY <1>4, <1>6 DEF Then
  <2>2. CASE ~CanAlloc(t.ram)
    <3>1. n = Panic(t, OutOfMemory)
      BY <2>1, <2>2 DEF PutNewPage
    <3> QED BY <1>0, <1>2, <3>1, PanicOK
  <2>3. CASE CanAlloc(t.ram)
    <3>1. PICK u, i : u = TableOf(t, pd, page) /\ i = Pte(page)
      OBVIOUS
    <3>2. u \in (DOMAIN t.entries) \ D /\ u # KernelPt(0) /\ i \in Entries /\ u # NoPage
      BY <1>2, <1>6, <3>1, TableOfPage
    <3>3. t.entries[u][i] = NoPage
      BY <1>2, <1>6, <3>1, <3>2 DEF Mapped, Mapping
    <3>4. n = PutNewPage(t, u, i, FALSE)
      BY <2>1, <3>1
    <3>5. /\ MemoryOK(n, D) /\ n.panic = t.panic
          /\ n.entries[u][i] # NoPage /\ DOMAIN n.entries = DOMAIN t.entries
          /\ OnlyEntry(t, n, u, i)
      <4>1. MemoryOK(t, D) /\ CanAlloc(t.ram)
        BY <1>2, <2>3
      <4>2. \A x : x = PutNewPage(t, u, i, FALSE) =>
               /\ MemoryOK(x, D) /\ x.panic = t.panic
               /\ x.entries[u][i] # NoPage /\ DOMAIN x.entries = DOMAIN t.entries
               /\ OnlyEntry(t, x, u, i)
        BY <3>2, <3>3, <4>1, PutPageOK, ZenonT(60)
      <4> QED BY <3>4, <4>2
    <3>6. ASSUME NEW d \in D, NEW q \in Addresses
          PROVE  Mapped(n, d, q) <=> Mapped(t, d, q) \/ SameEntry(pd, page, d, q)
      <4>1. Mapping(n, d, q) = IF SameEntry(pd, page, d, q) THEN n.entries[u][i] ELSE Mapping(t, d, q)
        BY <1>2, <3>1, <3>2, <3>5, EntryChanged
      <4> QED BY <3>5, <4>1 DEF Mapped
    <3> QED BY <1>2, <1>6, <3>5, <3>6
  <2> QED BY <2>2, <2>3
<1> QED BY <1>5, <1>6

\* A page that is mapped is unmapped and nothing else is; any other is a panic.
LEMMA UnmapVirtualPageOK ==
    ASSUME NEW m, NEW D, MemoryOK(m, D), m.panic = Running, NEW pd \in D,
           NEW page \in Addresses, page >= PeCount
    PROVE  \A n : n = UnmapVirtualPage(m, pd, page) =>
              /\ MemoryOK(n, D)
              /\ ~Mapped(m, pd, page) => n.panic = NotMapped
              /\ Mapped(m, pd, page) =>
                    /\ n.panic = Running
                    /\ \A d \in D, q \in Addresses :
                          Mapped(n, d, q) <=> Mapped(m, d, q) /\ ~SameEntry(pd, page, d, q)
<1>1. SUFFICES ASSUME NEW n, n = UnmapVirtualPage(m, pd, page)
      PROVE   /\ MemoryOK(n, D)
              /\ ~Mapped(m, pd, page) => n.panic = NotMapped
              /\ Mapped(m, pd, page) =>
                    /\ n.panic = Running
                    /\ \A d \in D, q \in Addresses :
                          Mapped(n, d, q) <=> Mapped(m, d, q) /\ ~SameEntry(pd, page, d, q)
  OBVIOUS
<1>2. CASE ~Mapped(m, pd, page)
  <2>1. n = Panic(m, NotMapped)
    BY <1>1, <1>2 DEF UnmapVirtualPage, Mapped
  <2> QED BY <1>2, <2>1, PanicOK
<1>3. CASE Mapped(m, pd, page)
  <2>1. PICK u, i : u = TableOf(m, pd, page) /\ i = Pte(page)
    OBVIOUS
  <2>2. u # NoPage /\ m.entries[u][i] # NoPage /\ Mapping(m, pd, page) = m.entries[u][i]
    BY <1>3, <2>1 DEF Mapped, Mapping
  <2>3. n = Cleared(m, u, i)
    BY <1>1, <1>3, <2>1, <2>2 DEF UnmapVirtualPage, PageFreed, Mapped, Cleared
  <2>4. u \in (DOMAIN m.entries) \ D /\ u # KernelPt(0) /\ i \in Entries
    BY <2>1, <2>2, TableOfPage
  <2>5. /\ MemoryOK(n, D) /\ n.panic = m.panic
        /\ n.entries[u][i] = NoPage /\ DOMAIN n.entries = DOMAIN m.entries
        /\ OnlyEntry(m, n, u, i)
    BY <2>2, <2>3, <2>4, ClearEntryOK
  <2>6. ASSUME NEW d \in D, NEW q \in Addresses
        PROVE  Mapped(n, d, q) <=> Mapped(m, d, q) /\ ~SameEntry(pd, page, d, q)
    <3>1. Mapping(n, d, q) = IF SameEntry(pd, page, d, q) THEN n.entries[u][i] ELSE Mapping(m, d, q)
      BY <2>1, <2>2, <2>5, EntryChanged
    <3> QED BY <2>5, <3>1 DEF Mapped
  <2> QED BY <1>3, <2>5, <2>6
<1> QED BY <1>2, <1>3

-----------------------------------------------------------------------------
(* The loops over the pages of a run.                                      *)

\* The steps of MapPages, of UnmapPages and of what ResizeStack maps.
MapSteps(m, pd, first, count, s) ==
    s = [n \in 0..count |-> IF n = 0 THEN m ELSE Then(s[n - 1], MapVirtualPage(s[n - 1], pd, first + n - 1))]
UnmapSteps(m, pd, first, count, s) ==
    s = [n \in 0..count |-> IF n = 0 THEN m ELSE Then(s[n - 1], UnmapVirtualPage(s[n - 1], pd, first + n - 1))]
Grown(m, pd, page) ==
    Then(m, IF Mapping(m, pd, page) # NoPage THEN m ELSE MapVirtualPage(m, pd, page))
GrowSteps(m, pd, first, count, s) ==
    s = [n \in 0..count |-> IF n = 0 THEN m ELSE Grown(s[n - 1], pd, first + n - 1)]

\* MapPages has its steps.
LEMMA MapLoop ==
    ASSUME NEW m, NEW pd, NEW first, NEW count \in Nat
    PROVE  \E s : MapSteps(m, pd, first, count, s)
<1> DEFINE Bad == {c \in Nat : ~\E s : MapSteps(m, pd, first, c, s)}
<1>1. SUFFICES ASSUME Bad # {} PROVE FALSE
  OBVIOUS
<1>2. PICK c \in Bad : \A k \in Bad : c <= k
  BY <1>1, Least
<1>3. c # 0
  <2>1. MapSteps(m, pd, first, 0, [n \in 0..0 |-> m])
    BY DEF MapSteps
  <2>2. 0 \notin Bad
    BY <2>1
  <2> QED BY <1>2, <2>2
<1>4. c \in Nat /\ c - 1 \in Nat /\ c - 1 \notin Bad
  BY <1>2, <1>3
<1>5. PICK s : MapSteps(m, pd, first, c - 1, s)
  BY <1>4
<1>6. \A n \in 0..(c - 1) : s[n] = IF n = 0 THEN m ELSE Then(s[n - 1], MapVirtualPage(s[n - 1], pd, first + n - 1))
  BY <1>5 DEF MapSteps
<1>7. PICK last : last = Then(s[c - 1], MapVirtualPage(s[c - 1], pd, first + c - 1))
  OBVIOUS
<1>8. PICK t : t = [n \in 0..c |-> IF n = c THEN last ELSE s[n]]
  OBVIOUS
<1>9. ASSUME NEW n \in 0..c
      PROVE  t[n] = IF n = 0 THEN m ELSE Then(t[n - 1], MapVirtualPage(t[n - 1], pd, first + n - 1))
  <2>1. CASE n = 0
    BY <1>3, <1>4, <1>6, <1>8, <2>1
  <2>2. CASE n # 0
    <3>1. n - 1 \in 0..c /\ n - 1 # c /\ t[n - 1] = s[n - 1]
      BY <1>4, <1>8, <2>2
    <3>2. CASE n = c
      BY <1>4, <1>7, <1>8, <2>2, <3>1, <3>2
    <3>3. CASE n # c
      <4>1. n \in 0..(c - 1) /\ t[n] = s[n]
        BY <1>4, <1>8, <3>3
      <4> QED BY <1>6, <2>2, <3>1, <4>1
    <3> QED BY <3>2, <3>3
  <2> QED BY <2>1, <2>2
<1>10. t = [n \in 0..c |-> IF n = 0 THEN m ELSE Then(t[n - 1], MapVirtualPage(t[n - 1], pd, first + n - 1))]
  <2>1. t = [n \in 0..c |-> t[n]]
    BY <1>8
  <2> QED BY <1>9, <2>1
<1>11. MapSteps(m, pd, first, c, t)
  BY <1>10 DEF MapSteps
<1> QED BY <1>2, <1>11

\* UnmapPages has its steps.
LEMMA UnmapLoop ==
    ASSUME NEW m, NEW pd, NEW first, NEW count \in Nat
    PROVE  \E s : UnmapSteps(m, pd, first, count, s)
<1> DEFINE Bad == {c \in Nat : ~\E s : UnmapSteps(m, pd, first, c, s)}
<1>1. SUFFICES ASSUME Bad # {} PROVE FALSE
  OBVIOUS
<1>2. PICK c \in Bad : \A k \in Bad : c <= k
  BY <1>1, Least
<1>3. c # 0
  <2>1. UnmapSteps(m, pd, first, 0, [n \in 0..0 |-> m])
    BY DEF UnmapSteps
  <2>2. 0 \notin Bad
    BY <2>1
  <2> QED BY <1>2, <2>2
<1>4. c \in Nat /\ c - 1 \in Nat /\ c - 1 \notin Bad
  BY <1>2, <1>3
<1>5. PICK s : UnmapSteps(m, pd, first, c - 1, s)
  BY <1>4
<1>6. \A n \in 0..(c - 1) : s[n] = IF n = 0 THEN m ELSE Then(s[n - 1], UnmapVirtualPage(s[n - 1], pd, first + n - 1))
  BY <1>5 DEF UnmapSteps
<1>7. PICK last : last = Then(s[c - 1], UnmapVirtualPage(s[c - 1], pd, first + c - 1))
  OBVIOUS
<1>8. PICK t : t = [n \in 0..c |-> IF n = c THEN last ELSE s[n]]
  OBVIOUS
<1>9. ASSUME NEW n \in 0..c
      PROVE  t[n] = IF n = 0 THEN m ELSE Then(t[n - 1], UnmapVirtualPage(t[n - 1], pd, first + n - 1))
  <2>1. CASE n = 0
    BY <1>3, <1>4, <1>6, <1>8, <2>1
  <2>2. CASE n # 0
    <3>1. n - 1 \in 0..c /\ n - 1 # c /\ t[n - 1] = s[n - 1]
      BY <1>4, <1>8, <2>2
    <3>2. CASE n = c
      BY <1>4, <1>7, <1>8, <2>2, <3>1, <3>2
    <3>3. CASE n # c
      <4>1. n \in 0..(c - 1) /\ t[n] = s[n]
        BY <1>4, <1>8, <3>3
      <4> QED BY <1>6, <2>2, <3>1, <4>1
    <3> QED BY <3>2, <3>3
  <2> QED BY <2>1, <2>2
<1>10. t = [n \in 0..c |-> IF n = 0 THEN m ELSE Then(t[n - 1], UnmapVirtualPage(t[n - 1], pd, first + n - 1))]
  <2>1. t = [n \in 0..c |-> t[n]]
    BY <1>8
  <2> QED BY <1>9, <2>1
<1>11. UnmapSteps(m, pd, first, c, t)
  BY <1>10 DEF UnmapSteps
<1> QED BY <1>2, <1>11

\* The first loop of ResizeStack has its steps.
LEMMA GrowLoop ==
    ASSUME NEW m, NEW pd, NEW first, NEW count \in Nat
    PROVE  \E s : GrowSteps(m, pd, first, count, s)
<1> DEFINE Bad == {c \in Nat : ~\E s : GrowSteps(m, pd, first, c, s)}
<1>1. SUFFICES ASSUME Bad # {} PROVE FALSE
  OBVIOUS
<1>2. PICK c \in Bad : \A k \in Bad : c <= k
  BY <1>1, Least
<1>3. c # 0
  <2>1. GrowSteps(m, pd, first, 0, [n \in 0..0 |-> m])
    BY DEF GrowSteps
  <2>2. 0 \notin Bad
    BY <2>1
  <2> QED BY <1>2, <2>2
<1>4. c \in Nat /\ c - 1 \in Nat /\ c - 1 \notin Bad
  BY <1>2, <1>3
<1>5. PICK s : GrowSteps(m, pd, first, c - 1, s)
  BY <1>4
<1>6. \A n \in 0..(c - 1) : s[n] = IF n = 0 THEN m ELSE Grown(s[n - 1], pd, first + n - 1)
  BY <1>5 DEF GrowSteps
<1>7. PICK last : last = Grown(s[c - 1], pd, first + c - 1)
  OBVIOUS
<1>8. PICK t : t = [n \in 0..c |-> IF n = c THEN last ELSE s[n]]
  OBVIOUS
<1>9. ASSUME NEW n \in 0..c
      PROVE  t[n] = IF n = 0 THEN m ELSE Grown(t[n - 1], pd, first + n - 1)
  <2>1. CASE n = 0
    BY <1>3, <1>4, <1>6, <1>8, <2>1
  <2>2. CASE n # 0
    <3>1. n - 1 \in 0..c /\ n - 1 # c /\ t[n - 1] = s[n - 1]
      BY <1>4, <1>8, <2>2
    <3>2. CASE n = c
      BY <1>4, <1>7, <1>8, <2>2, <3>1, <3>2
    <3>3. CASE n # c
      <4>1. n \in 0..(c - 1) /\ t[n] = s[n]
        BY <1>4, <1>8, <3>3
      <4> QED BY <1>6, <2>2, <3>1, <4>1
    <3> QED BY <3>2, <3>3
  <2> QED BY <2>1, <2>2
<1>10. t = [n \in 0..c |-> IF n = 0 THEN m ELSE Grown(t[n - 1], pd, first + n - 1)]
  <2>1. t = [n \in 0..c |-> t[n]]
    BY <1>8
  <2> QED BY <1>9, <2>1
<1>11. GrowSteps(m, pd, first, c, t)
  BY <1>10 DEF GrowSteps
<1> QED BY <1>2, <1>11

\* Page q of directory d has its entry in common with one of a run of pages of pd.
InRun(pd, first, count, d, q) ==
    q \in first..(first + count - 1) /\ (d = pd \/ q < KmemEnd * PeCount)

\* What was mapped in m, and a run of pages with it, is mapped in n; or the RAM is exhausted.
MapResult(m, n, D, pd, first, count) ==
    /\ MemoryOK(n, D) /\ n.panic \in {Running, OutOfMemory}
    /\ n.panic = Running =>
          \A d \in D, q \in Addresses :
             Mapped(n, d, q) <=> Mapped(m, d, q) \/ InRun(pd, first, count, d, q)

\* What was mapped in m, without a run of pages, is mapped in n; no panic if all of it was.
UnmapResult(m, n, D, pd, first, count) ==
    /\ MemoryOK(n, D) /\ n.panic \in {Running, NotMapped}
    /\ n.panic = Running =>
          \A d \in D, q \in Addresses :
             Mapped(n, d, q) <=> Mapped(m, d, q) /\ ~InRun(pd, first, count, d, q)

\* The pages of a run behind the kernel's image are addresses.
IsRun(first, count) ==
    first \in Nat /\ count \in Nat /\ first >= PeCount /\ first + count <= PeCount * PeCount

\* Its pages one by one.
LEMMA PageOfRun ==
    ASSUME NEW first, NEW count, IsRun(first, count), NEW n \in 1..count
    PROVE  /\ first + n - 1 \in Addresses /\ first + n - 1 >= PeCount
           /\ n \in Nat /\ n - 1 \in 0..count /\ n - 1 \in Nat
           /\ \A pd, d : \A q \in Addresses :
                InRun(pd, first, n, d, q)
                   <=> InRun(pd, first, n - 1, d, q) \/ SameEntry(pd, first + n - 1, d, q)
<1>1. /\ first + n - 1 \in Addresses /\ first + n - 1 >= PeCount
      /\ n \in Nat /\ n - 1 \in 0..count /\ n - 1 \in Nat
  BY MemoryAssumption DEF IsRun, Addresses
<1>2. \A q \in Addresses : q \in first..(first + n - 1) <=> q \in first..(first + (n - 1) - 1) \/ q = first + n - 1
  BY <1>1, MemoryAssumption DEF IsRun, Addresses
<1> QED BY <1>1, <1>2 DEF InRun, SameEntry

\* A run of no pages has none.
LEMMA EmptyRun ==
    ASSUME NEW first \in Nat
    PROVE  \A pd, d, q : ~InRun(pd, first, 0, d, q)
  BY DEF InRun

\* One entry is mapped for every directory that has it.
LEMMA SharedMapped ==
    ASSUME NEW m, NEW D, MemoryOK(m, D), NEW pd \in D, NEW d \in D, NEW page \in Addresses,
           NEW q, SameEntry(pd, page, d, q)
    PROVE  Mapped(m, d, q) <=> Mapped(m, pd, page)
<1>1. CASE d = pd
  BY <1>1 DEF SameEntry
<1>2. CASE page < KmemEnd * PeCount
  <2>1. TableOf(m, d, page) = TableOf(m, pd, page)
    BY <1>2, TableOfPage
  <2> QED BY <2>1 DEF SameEntry, Mapped, Mapping
<1> QED BY <1>1, <1>2 DEF SameEntry

\* The pages of a free run are mapped by MapPages, or the RAM is exhausted.
LEMMA MapPagesOK ==
    ASSUME SmallRam, NEW m, NEW D, MemoryOK(m, D), m.panic = Running, NEW pd \in D,
           NEW first, NEW count, IsRun(first, count),
           \A j \in 0..(count - 1) : ~Mapped(m, pd, first + j)
    PROVE  MapResult(m, MapPages(m, pd, first, count), D, pd, first, count)
<1>0. count \in Nat /\ first \in Nat
  BY DEF IsRun
<1>a. PICK s : s = CHOOSE x : MapSteps(m, pd, first, count, x)
  OBVIOUS
<1>b. MapSteps(m, pd, first, count, s)
  <2>1. \E x : MapSteps(m, pd, first, count, x)
    BY <1>0, MapLoop
  <2> QED BY <1>a, <2>1
<1>c. MapPages(m, pd, first, count) = s[count]
  BY <1>a DEF MapPages, MapSteps
<1>1. MapSteps(m, pd, first, count, s) /\ MapPages(m, pd, first, count) = s[count]
  BY <1>b, <1>c
<1> DEFINE Bad == {k \in 0..count : ~MapResult(m, s[k], D, pd, first, k)}
<1>2. s[0] = m /\ \A n \in 1..count : s[n] = Then(s[n - 1], MapVirtualPage(s[n - 1], pd, first + n - 1))
  BY <1>0, <1>1 DEF MapSteps
<1>3. 0 \notin Bad
  BY <1>0, <1>2, EmptyRun DEF MapResult
<1>4. ASSUME NEW n \in 1..count, MapResult(m, s[n - 1], D, pd, first, n - 1)
      PROVE  MapResult(m, s[n], D, pd, first, n)
  <2>1. PICK t, page : t = s[n - 1] /\ page = first + n - 1
    OBVIOUS
  <2>2. s[n] = Then(t, MapVirtualPage(t, pd, page))
    BY <1>2, <2>1
  <2>3. CASE t.panic # Running
    BY <1>4, <2>1, <2>2, <2>3 DEF Then, MapResult
  <2>4. CASE t.panic = Running
    <3>1. s[n] = MapVirtualPage(t, pd, page)
      BY <2>2, <2>4 DEF Then
    <3>2. page \in Addresses /\ page >= PeCount /\ n - 1 \in 0..(count - 1) /\ page = first + (n - 1)
      <4>1. page \in Addresses /\ page >= PeCount
        BY <2>1, PageOfRun
      <4>2. n \in Nat /\ n >= 1 /\ n <= count
        BY <1>0
      <4> QED BY <1>0, <2>1, <4>1, <4>2
    <3>3. ~InRun(pd, first, n - 1, pd, page)
      BY <1>0, <2>1 DEF InRun
    <3>4. ~Mapped(t, pd, page)
      BY <1>4, <2>1, <2>4, <3>2, <3>3 DEF MapResult
    <3>5. /\ MemoryOK(s[n], D) /\ s[n].panic \in {Running, OutOfMemory}
          /\ s[n].panic = Running =>
                \A d \in D, q \in Addresses :
                   Mapped(s[n], d, q) <=> Mapped(t, d, q) \/ SameEntry(pd, page, d, q)
      BY <1>4, <2>1, <2>4, <3>1, <3>2, <3>4, MapVirtualPageOK DEF MapResult
    <3>6. \A d \in D, q \in Addresses :
             InRun(pd, first, n, d, q) <=> InRun(pd, first, n - 1, d, q) \/ SameEntry(pd, page, d, q)
      BY <2>1, PageOfRun
    <3> QED BY <1>4, <2>1, <2>4, <3>5, <3>6 DEF MapResult
  <2> QED BY <2>3, <2>4
<1>5. Bad = {}
  <2> SUFFICES ASSUME Bad # {} PROVE FALSE
    OBVIOUS
  <2>0. Bad \in SUBSET Nat
    BY <1>0
  <2>1. PICK n \in Bad : \A k \in Bad : n <= k
    BY <2>0, Least
  <2>2. n \in 1..count /\ n - 1 \in 0..count /\ n - 1 \notin Bad
    BY <1>0, <1>3, <2>1
  <2> QED BY <1>4, <2>1, <2>2
<1> QED BY <1>0, <1>1, <1>5

\* The pages of a run are unmapped by UnmapPages, which panics only if one is not mapped.
LEMMA UnmapPagesOK ==
    ASSUME NEW m, NEW D, MemoryOK(m, D), m.panic = Running, NEW pd \in D,
           NEW first, NEW count, IsRun(first, count)
    PROVE  /\ UnmapResult(m, UnmapPages(m, pd, first, count), D, pd, first, count)
           /\ (\A j \in 0..(count - 1) : Mapped(m, pd, first + j)) =>
                 UnmapPages(m, pd, first, count).panic = Running
<1>0. count \in Nat /\ first \in Nat
  BY DEF IsRun
<1>a. PICK s : s = CHOOSE x : UnmapSteps(m, pd, first, count, x)
  OBVIOUS
<1>b. UnmapSteps(m, pd, first, count, s)
  <2>1. \E x : UnmapSteps(m, pd, first, count, x)
    BY <1>0, UnmapLoop
  <2> QED BY <1>a, <2>1
<1>c. UnmapPages(m, pd, first, count) = s[count]
  BY <1>a DEF UnmapPages, UnmapSteps
<1>1. UnmapSteps(m, pd, first, count, s) /\ UnmapPages(m, pd, first, count) = s[count]
  BY <1>b, <1>c
<1> DEFINE All == \A j \in 0..(count - 1) : Mapped(m, pd, first + j)
           Good(k) == UnmapResult(m, s[k], D, pd, first, k) /\ (All => s[k].panic = Running)
           Bad == {k \in 0..count : ~Good(k)}
<1>2. s[0] = m /\ \A n \in 1..count : s[n] = Then(s[n - 1], UnmapVirtualPage(s[n - 1], pd, first + n - 1))
  BY <1>0, <1>1 DEF UnmapSteps
<1>3. 0 \notin Bad
  BY <1>0, <1>2, EmptyRun DEF UnmapResult
<1>4. ASSUME NEW n \in 1..count, Good(n - 1)
      PROVE  Good(n)
  <2>1. PICK t, page : t = s[n - 1] /\ page = first + n - 1
    OBVIOUS
  <2>2. s[n] = Then(t, UnmapVirtualPage(t, pd, page))
    BY <1>2, <2>1
  <2>3. CASE t.panic # Running
    BY <1>4, <2>1, <2>2, <2>3 DEF Then, UnmapResult
  <2>4. CASE t.panic = Running
    <3>1. s[n] = UnmapVirtualPage(t, pd, page)
      BY <2>2, <2>4 DEF Then
    <3>2. page \in Addresses /\ page >= PeCount /\ n - 1 \in 0..(count - 1) /\ page = first + (n - 1)
      <4>1. page \in Addresses /\ page >= PeCount
        BY <2>1, PageOfRun
      <4>2. n \in Nat /\ n >= 1 /\ n <= count
        BY <1>0
      <4> QED BY <1>0, <2>1, <4>1, <4>2
    <3>3. ~InRun(pd, first, n - 1, pd, page)
      BY <1>0, <2>1 DEF InRun
    <3>4. All => Mapped(t, pd, page)
      BY <1>4, <2>1, <2>4, <3>2, <3>3 DEF UnmapResult
    <3>5. /\ MemoryOK(s[n], D)
          /\ ~Mapped(t, pd, page) => s[n].panic = NotMapped
          /\ Mapped(t, pd, page) =>
                /\ s[n].panic = Running
                /\ \A d \in D, q \in Addresses :
                      Mapped(s[n], d, q) <=> Mapped(t, d, q) /\ ~SameEntry(pd, page, d, q)
      BY <1>4, <2>1, <2>4, <3>1, <3>2, UnmapVirtualPageOK DEF UnmapResult
    <3>6. \A d \in D, q \in Addresses :
             InRun(pd, first, n, d, q) <=> InRun(pd, first, n - 1, d, q) \/ SameEntry(pd, page, d, q)
      BY <2>1, PageOfRun
    <3>7. Running # NotMapped
      BY DEF Running, NotMapped
    <3> QED BY <1>4, <2>1, <2>4, <3>4, <3>5, <3>6, <3>7 DEF UnmapResult
  <2> QED BY <2>3, <2>4
<1>5. Bad = {}
  <2> HIDE DEF Good
  <2> SUFFICES ASSUME Bad # {} PROVE FALSE
    OBVIOUS
  <2>0. Bad \in SUBSET Nat
    BY <1>0
  <2>1. PICK n \in Bad : \A k \in Bad : n <= k
    BY <2>0, Least
  <2>2. n \in 1..count /\ n - 1 \in 0..count /\ n - 1 \notin Bad
    BY <1>0, <1>3, <2>1
  <2> QED BY <1>4, <2>1, <2>2
<1> QED BY <1>0, <1>1, <1>5

\* What is missing of a run is mapped by the first loop of ResizeStack.
LEMMA GrowOK ==
    ASSUME SmallRam, NEW m, NEW D, MemoryOK(m, D), m.panic = Running, NEW pd \in D,
           NEW first, NEW count, IsRun(first, count), NEW s, GrowSteps(m, pd, first, count, s)
    PROVE  MapResult(m, s[count], D, pd, first, count)
<1>0. count \in Nat /\ first \in Nat
  BY DEF IsRun
<1> DEFINE Bad == {k \in 0..count : ~MapResult(m, s[k], D, pd, first, k)}
<1>2. s[0] = m /\ \A n \in 1..count : s[n] = Grown(s[n - 1], pd, first + n - 1)
  BY <1>0 DEF GrowSteps
<1>3. 0 \notin Bad
  BY <1>0, <1>2, EmptyRun DEF MapResult
<1>4. ASSUME NEW n \in 1..count, MapResult(m, s[n - 1], D, pd, first, n - 1)
      PROVE  MapResult(m, s[n], D, pd, first, n)
  <2>1. PICK t, page : t = s[n - 1] /\ page = first + n - 1
    OBVIOUS
  <2>2. s[n] = Grown(t, pd, page)
    BY <1>2, <2>1
  <2>3. CASE t.panic # Running
    BY <1>4, <2>1, <2>2, <2>3 DEF Grown, Then, MapResult
  <2>4. CASE t.panic = Running
    <3>2. page \in Addresses /\ page >= PeCount
      BY <2>1, PageOfRun
    <3>5. /\ MemoryOK(s[n], D) /\ s[n].panic \in {Running, OutOfMemory}
          /\ s[n].panic = Running =>
                \A d \in D, q \in Addresses :
                   Mapped(s[n], d, q) <=> Mapped(t, d, q) \/ SameEntry(pd, page, d, q)
      <4>1. CASE Mapped(t, pd, page)
        <5>1. s[n] = t
          BY <2>2, <4>1 DEF Grown, Then, Mapped
        <5>2. MemoryOK(t, D)
          BY <1>4, <2>1 DEF MapResult
        <5>3. \A d \in D, q \in Addresses : SameEntry(pd, page, d, q) => Mapped(t, d, q)
          BY <3>2, <4>1, <5>2, SharedMapped
        <5> QED BY <2>4, <5>1, <5>2, <5>3
      <4>2. CASE ~Mapped(t, pd, page)
        <5>1. s[n] = MapVirtualPage(t, pd, page)
          BY <2>2, <2>4, <4>2 DEF Grown, Then, Mapped
        <5> QED BY <1>4, <2>1, <2>4, <3>2, <4>2, <5>1, MapVirtualPageOK DEF MapResult
      <4> QED BY <4>1, <4>2
    <3>6. \A d \in D, q \in Addresses :
             InRun(pd, first, n, d, q) <=> InRun(pd, first, n - 1, d, q) \/ SameEntry(pd, page, d, q)
      BY <2>1, PageOfRun
    <3> QED BY <1>4, <2>1, <2>4, <3>5, <3>6 DEF MapResult
  <2> QED BY <2>3, <2>4
<1>5. Bad = {}
  <2> SUFFICES ASSUME Bad # {} PROVE FALSE
    OBVIOUS
  <2>0. Bad \in SUBSET Nat
    BY <1>0
  <2>1. PICK n \in Bad : \A k \in Bad : n <= k
    BY <2>0, Least
  <2>2. n \in 1..count /\ n - 1 \in 0..count /\ n - 1 \notin Bad
    BY <1>0, <1>3, <2>1
  <2> QED BY <1>4, <2>1, <2>2
<1> QED BY <1>0, <1>5

-----------------------------------------------------------------------------
(* The stacks.                                                             *)

\* The pages of the stacks are behind the kernel's and before those of the user.
LEMMA StackTop ==
    ASSUME NEW n \in 0..(MaxStacks - 1)
    PROVE  /\ StackTopPage(n) \in Nat /\ KmemEnd * PeCount \in Nat /\ StackEnd * PeCount \in Nat
           /\ PeCount <= KmemEnd * PeCount /\ KmemEnd * PeCount <= StackTopPage(n)
           /\ StackTopPage(n) + 2 <= StackEnd * PeCount
           /\ StackEnd * PeCount <= PeCount * PeCount
<1>1. /\ PeCount \in Nat /\ KmemEnd \in Nat /\ StackEnd \in Nat /\ MaxStacks \in Nat /\ MaxStacks > 0
      /\ KmemEnd >= 2 /\ KmemEnd <= StackEnd /\ StackEnd <= PeCount /\ n \in Nat /\ n + 1 <= MaxStacks
      /\ 2 * MaxStacks <= (StackEnd - KmemEnd) * PeCount
  BY MemoryAssumption
<1>2. PICK d, r, per : d = StackEnd - KmemEnd /\ r = d * PeCount /\ per = r \div MaxStacks
  OBVIOUS
<1>3. d \in Nat /\ r \in Nat
  BY <1>1, <1>2
<1>4. per \in Nat /\ per * MaxStacks <= r /\ per >= 2
  BY <1>1, <1>2, <1>3
<1>5. PICK a, b : a = KmemEnd * PeCount /\ b = StackEnd * PeCount
  OBVIOUS
<1>6. a \in Nat /\ b \in Nat /\ b = a + r
  BY <1>1, <1>2, <1>5
<1>7. PICK c : c = (n + 1) * per
  OBVIOUS
<1>8. c \in Nat /\ per <= c /\ c <= MaxStacks * per /\ MaxStacks * per \in Nat
  <2>1. 1 * per <= (n + 1) * per /\ (n + 1) * per <= MaxStacks * per /\ MaxStacks * per \in Nat
    BY <1>1, <1>4, ProductsAscend
  <2> QED BY <1>1, <1>4, <1>7, <2>1
<1>9. MaxStacks * per <= r
  BY <1>1, <1>4
<1>10. StackTopPage(n) = a + c - 2
  BY <1>2, <1>5, <1>7 DEF StackTopPage
<1>11. PeCount <= a /\ b <= PeCount * PeCount
  <2>1. 1 * PeCount <= KmemEnd * PeCount /\ StackEnd * PeCount <= PeCount * PeCount
    BY <1>1, ProductsAscend
  <2> QED BY <1>1, <1>5, <2>1
<1> QED BY <1>3, <1>4, <1>5, <1>6, <1>8, <1>9, <1>10, <1>11

\* A finite range of numbers has a greatest one.
LEMMA Greatest ==
    ASSUME NEW b \in Nat, NEW S \in SUBSET (0..b), 0 \in S
    PROVE  Max(S) \in S /\ \A y \in S : y <= Max(S)
<1> DEFINE Up == {k \in Nat : \A y \in S : y <= k}
<1>1. b \in Up
  OBVIOUS
<1>2. PICK k \in Up : \A l \in Up : k <= l
  BY <1>1, Least
<1>3. k \in S
  <2> SUFFICES ASSUME k \notin S PROVE FALSE
    OBVIOUS
  <2>1. k # 0 /\ \A y \in S : y <= k - 1
    BY <1>2
  <2>2. k - 1 \in Up
    BY <1>2, <2>1
  <2> QED BY <1>2, <2>2
<1>4. \E x \in S : \A y \in S : x >= y
  BY <1>2, <1>3
<1> QED BY <1>4 DEF Max

\* What the second loop of ResizeStack unmaps: as many pages as are mapped behind.
Left(g, pd, from) ==
    {k \in 0..(PeCount * PeCount - from) : \A j \in 0..(k - 1) : Mapping(g, pd, from + j) # NoPage}

\* A stack is resized by mapping what is missing of it and unmapping what is behind.
LEMMA ResizeStackOK ==
    ASSUME SmallRam, NEW m, NEW D, MemoryOK(m, D), m.panic = Running, NEW pd \in D,
           NEW n \in 0..(MaxStacks - 1), NEW pages \in {0, 1}
    PROVE  \A after : after = ResizeStack(m, pd, n, pages) =>
              /\ MemoryOK(after, D) /\ after.panic \in {Running, OutOfMemory}
              /\ pages = 0 => after.panic = Running
              /\ after.panic = Running =>
                    \E g : \E left \in Nat :
                       /\ MapResult(m, g, D, pd, StackTopPage(n), pages) /\ g.panic = Running
                       /\ \A j \in 0..(left - 1) : Mapped(g, pd, StackTopPage(n) + pages + j)
                       /\ IsRun(StackTopPage(n) + pages, left)
                       /\ UnmapResult(g, after, D, pd, StackTopPage(n) + pages, left)
<1>1. PICK top : top = StackTopPage(n)
  OBVIOUS
<1>2. /\ top \in Nat /\ top >= PeCount /\ PeCount \in Nat /\ top + 2 <= PeCount * PeCount
      /\ PeCount * PeCount \in Nat /\ pages \in Nat /\ pages <= 1
  BY <1>1, StackTop, MemoryAssumption
<1>3. IsRun(top, pages)
  BY <1>2 DEF IsRun
<1>4. PICK s : s = CHOOSE x : GrowSteps(m, pd, top, pages, x)
  OBVIOUS
<1>5. GrowSteps(m, pd, top, pages, s)
  <2>1. \E x : GrowSteps(m, pd, top, pages, x)
    BY <1>2, GrowLoop
  <2> QED BY <1>4, <2>1
<1>6. PICK g, from : g = s[pages] /\ from = top + pages
  OBVIOUS
<1>7. MapResult(m, g, D, pd, top, pages)
  BY <1>3, <1>5, <1>6, GrowOK
<1>8. SUFFICES ASSUME NEW after, after = ResizeStack(m, pd, n, pages)
      PROVE   /\ MemoryOK(after, D) /\ after.panic \in {Running, OutOfMemory}
              /\ pages = 0 => after.panic = Running
              /\ after.panic = Running =>
                    \E h : \E left \in Nat :
                       /\ MapResult(m, h, D, pd, StackTopPage(n), pages) /\ h.panic = Running
                       /\ \A j \in 0..(left - 1) : Mapped(h, pd, StackTopPage(n) + pages + j)
                       /\ IsRun(StackTopPage(n) + pages, left)
                       /\ UnmapResult(h, after, D, pd, StackTopPage(n) + pages, left)
  OBVIOUS
<1>9. after = Then(g, UnmapPages(g, pd, from, Max({k \in 0..(PeCount * PeCount - top - pages) :
                                            \A j \in 0..(k - 1) : Mapping(g, pd, top + pages + j) # NoPage})))
  BY <1>1, <1>4, <1>6, <1>8 DEF ResizeStack, GrowSteps, Grown
<1>10. PeCount * PeCount - top - pages = PeCount * PeCount - from /\ from \in Nat /\ from >= PeCount
       /\ PeCount * PeCount - from \in Nat
  BY <1>2, <1>6
<1>11. after = Then(g, UnmapPages(g, pd, from, Max(Left(g, pd, from))))
  BY <1>6, <1>9, <1>10 DEF Left
<1>14. pages = 0 => g.panic = Running
  BY <1>5, <1>6 DEF GrowSteps
<1>12. CASE g.panic # Running
  BY <1>7, <1>11, <1>12, <1>14 DEF Then, MapResult
<1>13. CASE g.panic = Running
  <2>1. PICK left : left = Max(Left(g, pd, from))
    OBVIOUS
  <2>2. left \in Left(g, pd, from)
    <3>1. 0 \in Left(g, pd, from) /\ Left(g, pd, from) \in SUBSET (0..(PeCount * PeCount - from))
      BY <1>10 DEF Left
    <3> QED BY <1>10, <2>1, <3>1, Greatest
  <2>3. left \in Nat /\ left <= PeCount * PeCount - from /\ \A j \in 0..(left - 1) : Mapped(g, pd, from + j)
    BY <1>10, <2>2 DEF Left, Mapped
  <2>4. IsRun(from, left)
    BY <1>2, <1>10, <2>3 DEF IsRun
  <2>5. after = UnmapPages(g, pd, from, left)
    BY <1>11, <1>13, <2>1 DEF Then
  <2>6. MemoryOK(g, D)
    BY <1>7 DEF MapResult
  <2>7. UnmapResult(g, after, D, pd, from, left) /\ after.panic = Running
    BY <1>13, <2>3, <2>4, <2>5, <2>6, UnmapPagesOK
  <2>8. MemoryOK(after, D)
    BY <2>7 DEF UnmapResult
  <2> QED BY <1>1, <1>6, <1>7, <1>13, <2>3, <2>4, <2>7, <2>8
<1> QED BY <1>12, <1>13

-----------------------------------------------------------------------------
(* The page directories of the processes.                                  *)

\* The tables of a directory and their pages are pages of the RAM.
LEMMA PagesOfDirectory ==
    ASSUME NEW m, NEW D, MemoryOK(m, D), NEW pd \in D, pd # KernelPd
    PROVE  /\ Tables(m, pd) \subseteq Pages \cap ((DOMAIN m.entries) \ D)
           /\ PagesOf(m, pd) \subseteq Pages /\ pd \in Pages
           /\ \A page \in PagesOf(m, pd) :
                 page \in Tables(m, pd)
                 \/ /\ page \notin DOMAIN m.entries
                    /\ \E t \in Tables(m, pd), j \in Entries : page = m.entries[t][j]
<1>1. PICK e : e = m.entries
  OBVIOUS
<1>2. TablesOK(e, D)
  BY <1>1 DEF MemoryOK
<1>3. ASSUME NEW t \in Tables(m, pd) PROVE t \in Pages /\ t \in (DOMAIN e) \ D
  <2>1. PICK i \in KmemEnd..(PeCount - 1) : t = e[pd][i]
    BY <1>1 DEF Tables
  <2>2. t # NoPage
    BY DEF Tables
  <2> QED BY <1>2, <2>1, <2>2 DEF TablesOK
<1>4. ASSUME NEW t \in Tables(m, pd), NEW j \in Entries, e[t][j] # NoPage
      PROVE  e[t][j] \in Pages \ DOMAIN e
  <2>1. t # KernelPt(0)
    BY <1>3, KernelTables
  <2> QED BY <1>2, <1>3, <1>4, <2>1 DEF TablesOK
<1>5. pd \in Pages
  BY <1>2 DEF TablesOK
<1>6. ASSUME NEW page \in PagesOf(m, pd)
      PROVE  /\ page \in Pages
             /\ page \in Tables(m, pd)
                 \/ /\ page \notin DOMAIN e
                    /\ \E t \in Tables(m, pd), j \in Entries : page = e[t][j]
  <2>1. CASE page \in Tables(m, pd)
    BY <1>3, <2>1
  <2>2. CASE page \notin Tables(m, pd)
    <3>1. PICK t \in Tables(m, pd), j \in Entries : page = e[t][j] /\ e[t][j] # NoPage
      BY <1>1, <2>2 DEF PagesOf
    <3> QED BY <1>4, <3>1
  <2> QED BY <2>1, <2>2
<1> QED BY <1>1, <1>3, <1>5, <1>6

\* What free_pagedir() leaves of m, but for the bitmaps: all but a directory and its tables.
LEMMA FreePagedirOK ==
    ASSUME NEW m, NEW D, MemoryOK(m, D), NEW pd \in D, pd # KernelPd
    PROVE  \A n : n = FreePagedir(m, pd) =>
              /\ MemoryOK(n, D \ {pd}) /\ n.panic = m.panic
              /\ \A d \in D \ {pd}, q \in Addresses : Mapped(n, d, q) <=> Mapped(m, d, q)
<1>1. SUFFICES ASSUME NEW n, n = FreePagedir(m, pd)
      PROVE   /\ MemoryOK(n, D \ {pd}) /\ n.panic = m.panic
              /\ \A d \in D \ {pd}, q \in Addresses : Mapped(n, d, q) <=> Mapped(m, d, q)
  OBVIOUS
<1>2. PICK e, f, E, T, S : /\ e = m.entries /\ f = n.entries /\ E = D \ {pd}
                           /\ T = Tables(m, pd) /\ S = {pd} \cup PagesOf(m, pd)
  OBVIOUS
<1>m. m = [ram |-> m.ram, entries |-> m.entries, panic |-> m.panic] /\ RamOK(m.ram) /\ TablesOK(e, D)
      /\ OwnersOK(m, D)
  BY <1>2 DEF MemoryOK
<1>3. /\ n.ram = FoldSet(FreeIn, m.ram, S) /\ n.panic = m.panic
      /\ f = [t \in (DOMAIN e) \ ({pd} \cup T) |-> e[t]]
      /\ n = [ram |-> n.ram, entries |-> n.entries, panic |-> n.panic]
  BY <1>m, <1>1, <1>2 DEF FreePagedir
<1>4. /\ T \subseteq Pages \cap ((DOMAIN e) \ D) /\ S \in SUBSET Pages /\ pd \in Pages
      /\ \A page \in S : page = pd \/ page \in T
            \/ (page \notin DOMAIN e /\ \E t \in T, j \in Entries : page = e[t][j])
      /\ T \subseteq S /\ pd \in S
  <2>1. T \subseteq S /\ pd \in S
    BY <1>2 DEF PagesOf
  <2>2. T \subseteq Pages \cap ((DOMAIN e) \ D) /\ pd \in Pages /\ PagesOf(m, pd) \subseteq Pages
    BY <1>2, PagesOfDirectory
  <2>3. \A page \in PagesOf(m, pd) :
           page \in T \/ (page \notin DOMAIN e /\ \E t \in T, j \in Entries : page = e[t][j])
    BY <1>2, PagesOfDirectory
  <2>4. S \in SUBSET Pages
    BY <1>2, <2>2
  <2>5. \A page \in S : page = pd \/ page \in PagesOf(m, pd)
    BY <1>2
  <2> QED BY <2>1, <2>2, <2>3, <2>4, <2>5
<1>5. RamOK(n.ram) /\ \A q \in Pages : q \in n.ram.set <=> q \in m.ram.set /\ q \notin S
  BY <1>m, <1>3, <1>4, FoldFrees
<1>6. /\ DOMAIN f = (DOMAIN e) \ ({pd} \cup T)
      /\ \A t \in DOMAIN f : f[t] = e[t] /\ t \in DOMAIN e /\ t # pd /\ t \notin T
  BY <1>3
<1>7. /\ \A i \in KmemEnd..(PeCount - 1) : e[pd][i] # NoPage => e[pd][i] \in T
      /\ \A t \in T, j \in Entries : e[t][j] # NoPage => e[t][j] \in S
      /\ \A t \in T : \E i \in Entries : t = e[pd][i]
  BY <1>2, KernelTables DEF Tables, PagesOf
<1>8. pd \in DOMAIN e /\ \A d \in D : d \in DOMAIN e
  BY <1>m DEF TablesOK
<1>9. ASSUME NEW d \in E, NEW i \in KmemEnd..(PeCount - 1), e[d][i] # NoPage
      PROVE  e[d][i] \in Pages /\ e[d][i] \in (DOMAIN f) \ E
  <2>1. d \in D /\ d # pd /\ i \in Entries
    BY <1>2, KernelTables
  <2>2. e[d][i] \in Pages /\ e[d][i] \in (DOMAIN e) \ D
    BY <1>m, <1>9, <2>1 DEF TablesOK
  <2>3. e[d][i] \notin T
    BY <1>2, <1>7, <1>8, <1>m, <2>1, <2>2 DEF OwnersOK
  <2> QED BY <1>2, <1>6, <2>2, <2>3
<1>10. TablesOK(f, E)
  <2>1. DOMAIN f \subseteq 1..(RamPages - 1) /\ \A t \in DOMAIN f : f[t] \in [Entries -> 0..(RamPages - 1)]
    BY <1>6, <1>m DEF TablesOK
  <2>2. KernelPd \in E /\ E \subseteq DOMAIN f /\ E \ {KernelPd} \subseteq Pages
    BY <1>2, <1>4, <1>6, <1>m DEF TablesOK
  <2>3. \A d \in E, i \in 0..(KmemEnd - 1) : f[d][i] = KernelPt(i)
    BY <1>2, <1>6, <1>m, <2>2 DEF TablesOK
  <2>4. \A i \in 0..(KmemEnd - 1) : KernelPt(i) \in (DOMAIN f) \ E
    BY <1>2, <1>4, <1>6, <1>m, KernelTables DEF TablesOK
  <2>5. \A d \in E, i \in KmemEnd..(PeCount - 1) :
           f[d][i] # NoPage => f[d][i] \in Pages /\ f[d][i] \in (DOMAIN f) \ E
    BY <1>6, <1>9, <2>2
  <2>6. ASSUME NEW t \in (DOMAIN f) \ E, NEW i \in Entries, f[t][i] # NoPage
        PROVE  IF t = KernelPt(0) THEN f[t][i] \notin Pages ELSE f[t][i] \in Pages \ DOMAIN f
    <3>1. t \in (DOMAIN e) \ D /\ f[t][i] = e[t][i]
      BY <1>2, <1>6
    <3> QED BY <1>6, <1>m, <2>6, <3>1 DEF TablesOK
  <2> QED BY <2>1, <2>2, <2>3, <2>4, <2>5, <2>6 DEF TablesOK
<1>11. OwnersOK(n, E)
  <2>1. ASSUME NEW page \in (DOMAIN f) \cap Pages PROVE page \in n.ram.set
    <3>1. page \in m.ram.set /\ page \in DOMAIN e /\ page # pd /\ page \notin T
      BY <1>2, <1>6, <1>m DEF OwnersOK
    <3> QED BY <1>4, <1>5, <3>1
  <2>2. ASSUME NEW page \in Pages, page \in m.ram.set, page \notin S
        PROVE  page \in E \/ \E t \in DOMAIN f, i \in Entries : f[t][i] = page
    <3>1. page \in D \/ \E t \in DOMAIN e, i \in Entries : e[t][i] = page
      BY <1>2, <1>m, <2>2 DEF OwnersOK
    <3>2. CASE page \in D
      BY <1>2, <1>4, <2>2, <3>2
    <3>3. ASSUME NEW t \in DOMAIN e, NEW i \in Entries, e[t][i] = page
          PROVE  t \in DOMAIN f /\ f[t][i] = page
      <4>1. t # pd
        <5>1. ASSUME t = pd PROVE FALSE
          <6>1. i \notin 0..(KmemEnd - 1)
            BY <1>m, <3>3, <5>1, KernelTables DEF TablesOK
          <6>2. i \in KmemEnd..(PeCount - 1)
            BY <6>1, KernelTables
          <6> QED BY <1>4, <1>7, <2>2, <3>3, <5>1, <6>2, PagesFacts
        <5> QED BY <5>1
      <4>2. t \notin T
        BY <1>7, <2>2, <3>3, PagesFacts
      <4> QED BY <1>6, <3>3, <4>1, <4>2
    <3> QED BY <3>1, <3>2, <3>3
  <2>3. ASSUME NEW page \in Pages, page \in E PROVE page \in m.ram.set /\ page \notin S
    <3>1. page \in D /\ page # pd /\ page \in DOMAIN e
      BY <1>2, <1>8, <2>3
    <3> QED BY <1>4, <1>m, <3>1 DEF OwnersOK
  <2>4. ASSUME NEW page \in Pages, NEW t \in DOMAIN f, NEW i \in Entries, f[t][i] = page
        PROVE  page \in m.ram.set /\ page \notin S
    <3>1. t \in DOMAIN e /\ e[t][i] = page /\ t # pd /\ t \notin T
      BY <1>6, <2>4
    <3>2. page \in m.ram.set
      BY <1>2, <1>m, <3>1 DEF OwnersOK
    <3>3. page \notin D
      <4>1. CASE t \in D
        <5>1. i \notin 0..(KmemEnd - 1)
          BY <1>m, <3>1, <4>1, KernelTables DEF TablesOK
        <5>2. i \in KmemEnd..(PeCount - 1)
          BY <5>1, KernelTables
        <5> QED BY <1>m, <3>1, <4>1, <5>2, PagesFacts DEF TablesOK
      <4>2. CASE t \notin D
        <5>1. page \notin DOMAIN e
          BY <1>m, <3>1, <4>2, PagesFacts DEF TablesOK
        <5> QED BY <1>8, <5>1
      <4> QED BY <4>1, <4>2
    <3>4. page \notin T
      BY <1>2, <1>7, <1>8, <1>m, <3>1 DEF OwnersOK
    <3>5. ASSUME NEW u \in T, NEW j \in Entries, page = e[u][j] PROVE FALSE
      BY <1>2, <1>4, <1>m, <3>1, <3>5 DEF OwnersOK
    <3> QED BY <1>2, <1>4, <3>2, <3>3, <3>4, <3>5
  <2>5. ASSUME NEW t \in DOMAIN f, NEW u \in DOMAIN f, NEW i \in Entries, NEW j \in Entries,
               f[t][i] = f[u][j], f[t][i] \in Pages
        PROVE  t = u /\ i = j
    BY <1>2, <1>6, <1>m, <2>5 DEF OwnersOK
  <2> QED BY <1>2, <1>5, <2>1, <2>2, <2>3, <2>4, <2>5 DEF OwnersOK
<1>12. MemoryOK(n, E)
  BY <1>2, <1>3, <1>5, <1>10, <1>11 DEF MemoryOK
<1>13. ASSUME NEW d \in E, NEW q \in Addresses PROVE Mapping(n, d, q) = Mapping(m, d, q)
  <2>1. d \in DOMAIN f /\ f[d] = e[d]
    BY <1>6, <1>10 DEF TablesOK
  <2>2. TableOf(n, d, q) = TableOf(m, d, q)
    BY <1>2, <2>1 DEF TableOf
  <2>3. TableOf(n, d, q) # NoPage => TableOf(n, d, q) \in DOMAIN f
    BY <1>2, <1>12, TableOfPage
  <2> QED BY <1>2, <1>6, <2>2, <2>3 DEF Mapping
<1> QED BY <1>2, <1>3, <1>12, <1>13 DEF Mapped

\* Directory pd is new, with the kernel's tables and no others.
NewDirectory(m, n, D, pd) ==
    /\ MemoryOK(n, D \cup {pd}) /\ n.panic = m.panic /\ pd \in Pages \ D
    /\ \A d \in D, q \in Addresses : Mapped(n, d, q) <=> Mapped(m, d, q)
    /\ \A q \in Addresses : q >= KmemEnd * PeCount => ~Mapped(n, pd, q)

\* build_new_pagedir() adds it.
LEMMA BuildNewPagedirOK ==
    ASSUME SmallRam, NEW m, NEW D, MemoryOK(m, D), CanAlloc(m.ram)
    PROVE  NewDirectory(m, BuildNewPagedir(m), D, FirstFound(m.ram))
<1>1. PICK n, new : n = BuildNewPagedir(m) /\ new = FirstFound(m.ram)
  OBVIOUS
<1>2. PICK e, f, E : e = m.entries /\ f = n.entries /\ E = D \cup {new}
  OBVIOUS
<1>m. m = [ram |-> m.ram, entries |-> m.entries, panic |-> m.panic] /\ RamOK(m.ram) /\ TablesOK(e, D)
      /\ OwnersOK(m, D)
  BY <1>2 DEF MemoryOK
<1>3. PICK r : r = CopiedPd(m)
  OBVIOUS
<1>4. /\ n.ram = AllocPage(m.ram, TRUE) /\ n.panic = m.panic
      /\ f = [t \in (DOMAIN e) \cup {new} |-> IF t = new THEN r ELSE e[t]]
      /\ n = [ram |-> n.ram, entries |-> n.entries, panic |-> n.panic]
  BY <1>m, <1>1, <1>2, <1>3 DEF BuildNewPagedir, WithTable
<1>5. new \in Pages \ m.ram.set /\ RamOK(n.ram) /\ Took(m.ram, n.ram, new)
  BY <1>1, <1>4, <1>m, AllocPageOK
<1>6. /\ new \notin DOMAIN e /\ new \notin D /\ new # NoPage
      /\ \A t \in DOMAIN e, i \in Entries : e[t][i] # new
  BY <1>2, <1>5, FreeIsNew
<1>7. /\ \A i \in 0..(KmemEnd - 1) : r[i] = KernelPt(i)
      /\ \A i \in KmemEnd..(PeCount - 1) : r[i] = NoPage
      /\ r \in [Entries -> 0..(RamPages - 1)]
  <2>1. KernelPd \in D /\ KernelPd \in DOMAIN e /\ e[KernelPd] \in [Entries -> 0..(RamPages - 1)]
        /\ \A i \in 0..(KmemEnd - 1) : e[KernelPd][i] = KernelPt(i)
    BY <1>m DEF TablesOK
  <2>2. r = [i \in Entries |-> IF i < KmemEnd THEN e[KernelPd][i] ELSE NoPage]
    BY <1>2, <1>3 DEF CopiedPd
  <2>3. \A i \in 0..(KmemEnd - 1) : i \in Entries /\ i < KmemEnd
    BY KernelTables
  <2>4. \A i \in KmemEnd..(PeCount - 1) : i \in Entries /\ ~(i < KmemEnd)
    BY KernelTables
  <2>5. NoPage \in 0..(RamPages - 1)
    BY PagesAssumption DEF NoPage
  <2> QED BY <2>1, <2>2, <2>3, <2>4, <2>5
<1>8. /\ DOMAIN f = (DOMAIN e) \cup {new} /\ f[new] = r
      /\ \A t \in DOMAIN e : f[t] = e[t] /\ t # new
  BY <1>4, <1>6
<1>9. \A i \in Entries : r[i] \notin Pages
  BY <1>7, KernelTables, PagesFacts
<1>10. TablesOK(f, E)
  <2>1. DOMAIN f \subseteq 1..(RamPages - 1)
    BY <1>5, <1>8, <1>m, PagesFacts, PagesAssumption DEF TablesOK
  <2>2. \A t \in DOMAIN f : f[t] \in [Entries -> 0..(RamPages - 1)]
    BY <1>7, <1>8, <1>m DEF TablesOK
  <2>3. KernelPd \in E /\ E \subseteq DOMAIN f /\ E \ {KernelPd} \subseteq Pages
    BY <1>2, <1>5, <1>8, <1>m DEF TablesOK
  <2>4. \A d \in E, i \in 0..(KmemEnd - 1) : f[d][i] = KernelPt(i)
    BY <1>2, <1>7, <1>8, <1>m DEF TablesOK
  <2>5. \A i \in 0..(KmemEnd - 1) : KernelPt(i) \in (DOMAIN f) \ E
    BY <1>2, <1>5, <1>8, <1>m, KernelTables DEF TablesOK
  <2>6. ASSUME NEW d \in E, NEW i \in KmemEnd..(PeCount - 1), f[d][i] # NoPage
        PROVE  f[d][i] \in Pages /\ f[d][i] \in (DOMAIN f) \ E
    <3>1. d \in D /\ d \in DOMAIN e /\ i \in Entries
      BY <1>2, <1>7, <1>8, <1>m, <2>6, KernelTables DEF TablesOK
    <3> QED BY <1>2, <1>6, <1>8, <1>m, <2>6, <3>1 DEF TablesOK
  <2>7. ASSUME NEW t \in (DOMAIN f) \ E, NEW i \in Entries, f[t][i] # NoPage
        PROVE  IF t = KernelPt(0) THEN f[t][i] \notin Pages ELSE f[t][i] \in Pages \ DOMAIN f
    <3>1. t \in (DOMAIN e) \ D /\ f[t][i] = e[t][i] /\ e[t][i] # new
      BY <1>2, <1>6, <1>8
    <3> QED BY <1>8, <1>m, <2>7, <3>1 DEF TablesOK
  <2> QED BY <2>1, <2>2, <2>3, <2>4, <2>5, <2>6, <2>7 DEF TablesOK
<1>11. OwnersOK(n, E)
  <2>1. (DOMAIN f) \cap Pages \subseteq n.ram.set
    BY <1>2, <1>5, <1>8, <1>m DEF OwnersOK, Took
  <2>2. ASSUME NEW page \in Pages
        PROVE  page \in n.ram.set <=> page \in E \/ \E t \in DOMAIN f, i \in Entries : f[t][i] = page
    <3>1. (\E t \in DOMAIN f, i \in Entries : f[t][i] = page)
             <=> \E t \in DOMAIN e, i \in Entries : e[t][i] = page
      BY <1>8, <1>9
    <3> QED BY <1>2, <1>5, <1>m, <3>1 DEF OwnersOK, Took
  <2>3. ASSUME NEW t \in DOMAIN f, NEW u \in DOMAIN f, NEW i \in Entries, NEW j \in Entries,
               f[t][i] = f[u][j], f[t][i] \in Pages
        PROVE  t = u /\ i = j
    <3>1. t \in DOMAIN e /\ u \in DOMAIN e
      BY <1>8, <1>9, <2>3
    <3> QED BY <1>2, <1>8, <1>m, <2>3, <3>1 DEF OwnersOK
  <2> QED BY <1>2, <2>1, <2>2, <2>3 DEF OwnersOK
<1>12. MemoryOK(n, E)
  BY <1>2, <1>4, <1>5, <1>10, <1>11 DEF MemoryOK
<1>13. ASSUME NEW d \in D, NEW q \in Addresses PROVE Mapping(n, d, q) = Mapping(m, d, q)
  <2>1. d \in DOMAIN e /\ f[d] = e[d]
    BY <1>8, <1>m DEF TablesOK
  <2>2. TableOf(n, d, q) = TableOf(m, d, q)
    BY <1>2, <2>1 DEF TableOf
  <2>3. TableOf(m, d, q) # NoPage => TableOf(m, d, q) \in DOMAIN e
    BY <1>2, TableOfPage
  <2> QED BY <1>2, <1>8, <2>2, <2>3 DEF Mapping
<1>14. ASSUME NEW q \in Addresses, q >= KmemEnd * PeCount PROVE ~Mapped(n, new, q)
  <2>1. new \in E
    BY <1>2
  <2>2. ~(q < KmemEnd * PeCount)
    BY <1>14, AddressDigits, KernelTables
  <2>3. Pde(q) \in KmemEnd..(PeCount - 1) /\ TableOf(n, new, q) = n.entries[new][Pde(q)]
    BY <1>12, <2>1, <2>2, TableOfPage
  <2>4. TableOf(n, new, q) = NoPage
    BY <1>2, <1>7, <1>8, <2>3
  <2> QED BY <2>4 DEF Mapped, Mapping
<1> QED BY <1>1, <1>2, <1>4, <1>5, <1>6, <1>12, <1>13, <1>14 DEF NewDirectory, Mapped

\* A region is addresses behind the kernel's image; that of the user is behind the stacks.
LEMMA Regions ==
    /\ KmemEnd * PeCount \in Nat /\ StackEnd * PeCount \in Nat /\ PeCount * PeCount \in Nat
    /\ PeCount \in Nat /\ PeCount <= KmemEnd * PeCount
    /\ KmemEnd * PeCount <= StackEnd * PeCount /\ StackEnd * PeCount < PeCount * PeCount
    /\ Region(TRUE) = (StackEnd * PeCount)..(PeCount * PeCount - 1)
    /\ Region(FALSE) = PeCount..(KmemEnd * PeCount - 1)
    /\ Region(TRUE) \subseteq Addresses /\ Region(FALSE) \subseteq Addresses /\ NoPage \notin Region(TRUE)
    /\ NoPage \notin Region(FALSE)
<1>1. /\ PeCount \in Nat /\ KmemEnd \in Nat /\ StackEnd \in Nat
      /\ KmemEnd >= 2 /\ KmemEnd <= StackEnd /\ StackEnd + 1 <= PeCount
  BY MemoryAssumption
<1>2. /\ 1 * PeCount <= KmemEnd * PeCount /\ KmemEnd * PeCount <= StackEnd * PeCount
      /\ (StackEnd + 1) * PeCount <= PeCount * PeCount /\ PeCount * PeCount \in Nat
      /\ KmemEnd * PeCount \in Nat /\ StackEnd * PeCount \in Nat
  BY <1>1, ProductsAscend
<1>3. (StackEnd + 1) * PeCount = StackEnd * PeCount + PeCount
  BY <1>1, NextProduct
<1>4. PICK a, b, c : a = KmemEnd * PeCount /\ b = StackEnd * PeCount /\ c = PeCount * PeCount
  OBVIOUS
<1>5. a \in Nat /\ b \in Nat /\ c \in Nat /\ PeCount <= a /\ a <= b /\ b < c /\ PeCount > 0
  BY <1>1, <1>2, <1>3, <1>4
<1>6. Region(TRUE) = b..(c - 1) /\ Region(FALSE) = PeCount..(a - 1) /\ Addresses = 0..(c - 1)
  BY <1>4 DEF Region, Addresses
<1>7. /\ Region(TRUE) \subseteq Addresses /\ Region(FALSE) \subseteq Addresses
      /\ 0 \notin Region(TRUE) /\ 0 \notin Region(FALSE)
  <2>1. b..(c - 1) \subseteq 0..(c - 1) /\ 0 \notin b..(c - 1)
    BY <1>1, <1>5
  <2>2. PeCount..(a - 1) \subseteq 0..(c - 1) /\ 0 \notin PeCount..(a - 1)
    BY <1>1, <1>5
  <2> QED BY <1>6, <2>1, <2>2, Zenon
<1> QED BY <1>1, <1>4, <1>5, <1>6, <1>7 DEF NoPage

\* A run of pages in a region.
RunInRegion(first, count, user) ==
    first \in Region(user) /\ first + count - 1 \in Region(user)

\* Its pages are in the region, and it is a run.
LEMMA RunsOfRegion ==
    ASSUME NEW user \in BOOLEAN, NEW first, NEW count \in Nat \ {0}, RunInRegion(first, count, user)
    PROVE  /\ IsRun(first, count) /\ first \in Nat
           /\ \A q \in first..(first + count - 1) : q \in Region(user)
<1>1. PICK a, b, c : a = KmemEnd * PeCount /\ b = StackEnd * PeCount /\ c = PeCount * PeCount
  OBVIOUS
<1>2. /\ a \in Nat /\ b \in Nat /\ c \in Nat /\ PeCount \in Nat /\ PeCount <= a /\ a <= b /\ b < c
      /\ Region(TRUE) = b..(c - 1) /\ Region(FALSE) = PeCount..(a - 1)
  BY <1>1, Regions
<1>3. PICK x, y : x \in Nat /\ y \in Nat /\ PeCount <= x /\ y <= c /\ Region(user) = x..(y - 1)
  <2>1. Region(user) = b..(c - 1) \/ Region(user) = PeCount..(a - 1)
    BY <1>1 DEF Region
  <2>2. CASE Region(user) = b..(c - 1)
    <3>1. PeCount <= b /\ c <= c
      BY <1>2
    <3> QED BY <1>2, <2>2, <3>1
  <2>3. CASE Region(user) = PeCount..(a - 1)
    <3>1. PeCount <= PeCount /\ a <= c
      BY <1>2
    <3> QED BY <1>2, <2>3, <3>1
  <2> QED BY <2>1, <2>2, <2>3
<1>4. first \in x..(y - 1) /\ first + count - 1 \in x..(y - 1)
  BY <1>3 DEF RunInRegion
<1>5. first \in Nat /\ first >= PeCount /\ first + count <= c
  BY <1>2, <1>3, <1>4
<1>6. \A q \in first..(first + count - 1) : q \in x..(y - 1)
  BY <1>3, <1>4
<1> QED BY <1>1, <1>3, <1>5, <1>6 DEF IsRun

\* FindFreeVirtualPages finds a run of free pages in the region.
LEMMA FindFreeOK ==
    ASSUME NEW m, NEW pd, NEW count \in Nat \ {0}, NEW user \in BOOLEAN
    PROVE  \A first : first = FindFreeVirtualPages(m, pd, count, user) /\ first # NoPage =>
              /\ RunInRegion(first, count, user)
              /\ \A j \in 0..(count - 1) : ~Mapped(m, pd, first + j)
              /\ \A page : RunInRegion(page, count, user)
                           /\ (\A j \in 0..(count - 1) : ~Mapped(m, pd, page + j)) => first <= page
<1>1. SUFFICES ASSUME NEW first, first = FindFreeVirtualPages(m, pd, count, user), first # NoPage
      PROVE   /\ RunInRegion(first, count, user)
              /\ \A j \in 0..(count - 1) : ~Mapped(m, pd, first + j)
              /\ \A page : RunInRegion(page, count, user)
                           /\ (\A j \in 0..(count - 1) : ~Mapped(m, pd, page + j)) => first <= page
  OBVIOUS
<1>2. PICK runs : runs = {page \in Region(user) : page + count - 1 \in Region(user)
                                         /\ RunFree(m, pd, page, count)}
  OBVIOUS
<1>3. runs # {} /\ first = Min(runs)
  BY <1>1, <1>2 DEF FindFreeVirtualPages
<1>4. Region(user) \subseteq Nat
  <2>1. Region(TRUE) \subseteq Nat /\ Region(FALSE) \subseteq Nat
    <3>1. Addresses \subseteq Nat
      BY AddressDigits
    <3> QED BY <3>1, Regions
  <2> QED BY <2>1
<1>5. first \in runs /\ \A page \in runs : first <= page
  <2>1. runs \in SUBSET Nat
    BY <1>2, <1>4
  <2>2. PICK p \in runs : \A q \in runs : p <= q
    BY <1>3, <2>1, Least
  <2> QED BY <1>3, <2>1, <2>2, MinIs
<1>6. \A page : page \in runs <=> /\ RunInRegion(page, count, user)
                                  /\ \A j \in 0..(count - 1) : ~Mapped(m, pd, page + j)
  BY <1>2 DEF RunInRegion, RunFree, Mapped
<1> QED BY <1>5, <1>6

\* What is done to directory pd is aside of the kernel's pages and of other directories.
Aside(m, n, D, pd) ==
    \A d \in D, q \in Addresses :
       d # pd \/ q < KmemEnd * PeCount => (Mapped(n, d, q) <=> Mapped(m, d, q))

\* The stacks are.
LEMMA ResizeStackAside ==
    ASSUME SmallRam, NEW m, NEW D, MemoryOK(m, D), m.panic = Running, NEW pd \in D,
           NEW n \in 0..(MaxStacks - 1), NEW pages \in {0, 1}
    PROVE  \A after : after = ResizeStack(m, pd, n, pages) =>
              /\ MemoryOK(after, D) /\ after.panic \in {Running, OutOfMemory}
              /\ pages = 0 => after.panic = Running
              /\ after.panic = Running => Aside(m, after, D, pd)
<1>1. SUFFICES ASSUME NEW after, after = ResizeStack(m, pd, n, pages)
      PROVE   /\ MemoryOK(after, D) /\ after.panic \in {Running, OutOfMemory}
              /\ pages = 0 => after.panic = Running
              /\ after.panic = Running => Aside(m, after, D, pd)
  OBVIOUS
<1>2. PICK top : top = StackTopPage(n)
  OBVIOUS
<1>3. /\ MemoryOK(after, D) /\ after.panic \in {Running, OutOfMemory}
      /\ pages = 0 => after.panic = Running
      /\ after.panic = Running =>
            \E g : \E left \in Nat :
               /\ MapResult(m, g, D, pd, top, pages) /\ g.panic = Running
               /\ \A j \in 0..(left - 1) : Mapped(g, pd, top + pages + j)
               /\ IsRun(top + pages, left)
               /\ UnmapResult(g, after, D, pd, top + pages, left)
  BY <1>1, <1>2, ResizeStackOK
<1>4. ASSUME after.panic = Running PROVE Aside(m, after, D, pd)
  <2>1. PICK g : \E left \in Nat :
           /\ MapResult(m, g, D, pd, top, pages) /\ g.panic = Running
           /\ UnmapResult(g, after, D, pd, top + pages, left)
    BY <1>3, <1>4
  <2>2. PICK left \in Nat :
           /\ MapResult(m, g, D, pd, top, pages) /\ g.panic = Running
           /\ UnmapResult(g, after, D, pd, top + pages, left)
    BY <2>1
  <2>3. ASSUME NEW d \in D, NEW q \in Addresses, d # pd \/ q < KmemEnd * PeCount
        PROVE  ~InRun(pd, top, pages, d, q) /\ ~InRun(pd, top + pages, left, d, q)
    <3>1. PICK a : a = KmemEnd * PeCount
      OBVIOUS
    <3>2. a \in Nat /\ top \in Nat /\ a <= top /\ pages \in Nat /\ q \in Nat
      BY <1>2, <3>1, StackTop, AddressDigits
    <3>3. InRun(pd, top, pages, d, q) => q >= top /\ (d = pd \/ q < a)
      BY <3>1, <3>2 DEF InRun
    <3>4. InRun(pd, top + pages, left, d, q) => q >= top + pages /\ (d = pd \/ q < a)
      BY <3>1, <3>2 DEF InRun
    <3>5. d # pd \/ q < a
      BY <2>3, <3>1
    <3> QED BY <3>2, <3>3, <3>4, <3>5
  <2>4. ASSUME NEW d \in D, NEW q \in Addresses, d # pd \/ q < KmemEnd * PeCount
        PROVE  Mapped(after, d, q) <=> Mapped(m, d, q)
    <3>1. Mapped(g, d, q) <=> Mapped(m, d, q)
      BY <2>2, <2>3, <2>4 DEF MapResult
    <3>2. Mapped(after, d, q) <=> Mapped(g, d, q)
      BY <1>4, <2>2, <2>3, <2>4 DEF UnmapResult
    <3> QED BY <3>1, <3>2
  <2> QED BY <2>4 DEF Aside
<1> QED BY <1>3, <1>4

-----------------------------------------------------------------------------
(* The areas.                                                              *)

AreaOf(a) == a.virt_addr..(a.virt_addr + a.size - 1)
InArea(S, al, i, q) == i \in S /\ q \in AreaOf(al[i])

\* In a region, what directory pd maps is the pages of code and of the areas in S, which do
\* not overlap.
AreasMapped(m, pd, user, S, code, al) ==
    \A q \in Region(user) :
       /\ Mapped(m, pd, q) <=> q \in code \/ \E i \in Slots : InArea(S, al, i, q)
       /\ \A i \in Slots : InArea(S, al, i, q) => q \notin code
       /\ \A i, j \in Slots : InArea(S, al, i, q) /\ InArea(S, al, j, q) => i = j

\* The pages of run, free in m, are mapped in n and in am the area of slot.
Adds(m, n, pd, user, S, T, al, am, run, slot) ==
    \A q \in Region(user) :
       /\ q \in run => ~Mapped(m, pd, q)
       /\ Mapped(n, pd, q) <=> Mapped(m, pd, q) \/ q \in run
       /\ \A i \in Slots : InArea(T, am, i, q) <=> InArea(S, al, i, q) \/ (i = slot /\ q \in run)

\* The pages of run, the area of slot, are neither mapped in n nor in an area in am.
Removes(m, n, pd, user, S, T, al, am, run, slot) ==
    \A q \in Region(user) :
       /\ InArea(S, al, slot, q) <=> q \in run
       /\ Mapped(n, pd, q) <=> Mapped(m, pd, q) /\ q \notin run
       /\ \A i \in Slots : InArea(T, am, i, q) <=> InArea(S, al, i, q) /\ i # slot

\* An area is added where nothing is mapped, in a free slot.
LEMMA AreaAdded ==
    ASSUME NEW m, NEW n, NEW pd, NEW user, NEW S, NEW T, NEW code, NEW al, NEW am, NEW run,
           AreasMapped(m, pd, user, S, code, al), NEW slot \in Slots,
           Adds(m, n, pd, user, S, T, al, am, run, slot)
    PROVE  AreasMapped(n, pd, user, T, code, am)
<1>1. ASSUME NEW q \in Region(user)
      PROVE  /\ Mapped(n, pd, q) <=> q \in code \/ \E i \in Slots : InArea(T, am, i, q)
             /\ \A i \in Slots : InArea(T, am, i, q) => q \notin code
             /\ \A i, j \in Slots : InArea(T, am, i, q) /\ InArea(T, am, j, q) => i = j
  <2>1. /\ Mapped(m, pd, q) <=> q \in code \/ \E i \in Slots : InArea(S, al, i, q)
        /\ \A i \in Slots : InArea(S, al, i, q) => q \notin code
        /\ \A i, j \in Slots : InArea(S, al, i, q) /\ InArea(S, al, j, q) => i = j
    BY DEF AreasMapped
  <2>2. CASE q \in run
    BY <2>1, <2>2 DEF Adds
  <2>3. CASE q \notin run
    BY <2>1, <2>3 DEF Adds
  <2> QED BY <2>2, <2>3
<1> QED BY <1>1 DEF AreasMapped

\* An area is removed with its pages.
LEMMA AreaRemoved ==
    ASSUME NEW m, NEW n, NEW pd, NEW user, NEW S, NEW T, NEW code, NEW al, NEW am, NEW run,
           AreasMapped(m, pd, user, S, code, al), NEW slot \in Slots,
           Removes(m, n, pd, user, S, T, al, am, run, slot)
    PROVE  AreasMapped(n, pd, user, T, code, am)
<1>1. ASSUME NEW q \in Region(user)
      PROVE  /\ Mapped(n, pd, q) <=> q \in code \/ \E i \in Slots : InArea(T, am, i, q)
             /\ \A i \in Slots : InArea(T, am, i, q) => q \notin code
             /\ \A i, j \in Slots : InArea(T, am, i, q) /\ InArea(T, am, j, q) => i = j
  <2>1. /\ Mapped(m, pd, q) <=> q \in code \/ \E i \in Slots : InArea(S, al, i, q)
        /\ \A i \in Slots : InArea(S, al, i, q) => q \notin code
        /\ \A i, j \in Slots : InArea(S, al, i, q) /\ InArea(S, al, j, q) => i = j
    BY DEF AreasMapped
  <2>2. CASE q \in run
    BY <2>1, <2>2 DEF Removes
  <2>3. CASE q \notin run
    BY <2>1, <2>3 DEF Removes
  <2> QED BY <2>2, <2>3
<1> QED BY <1>1 DEF AreasMapped

\* What is mapped and what is of which area stays the same.
LEMMA SameAreas ==
    ASSUME NEW m, NEW n, NEW pd, NEW user, NEW S, NEW T, NEW code, NEW al, NEW am,
           AreasMapped(m, pd, user, S, code, al),
           \A q \in Region(user) : Mapped(n, pd, q) <=> Mapped(m, pd, q),
           \A q \in Region(user) : \A i \in Slots : InArea(T, am, i, q) <=> InArea(S, al, i, q)
    PROVE  AreasMapped(n, pd, user, T, code, am)
  BY DEF AreasMapped

-----------------------------------------------------------------------------
(* The inductive invariant, for the values of the variables.               *)

Dirs(pds) == {pds[p] : p \in Process} \ {NoPage}

\* Every process that there is has a directory of its own; the kernel's is there.
ProcessesOK(pds) ==
    /\ pds \in [Process -> Nat] /\ pds[0] = KernelPd
    /\ \A p, q \in Process : pds[p] = pds[q] /\ pds[p] # NoPage => p = q

AreaInRegion(a) == \E user \in BOOLEAN : (user => a.pid # 0) /\ RunInRegion(a.virt_addr, a.size, user)

\* An entry is free or an area in a region, and stale if its process has ended.
AllocationsOK(al, pds, st) ==
    /\ al \in [Slots -> [size : Nat, pid : Process, virt_addr : Nat]]
    /\ \A i \in Slots : al[i].size = 0 => al[i] = NoArea
    /\ \A i \in Slots : al[i].size > 0 => AreaInRegion(al[i])
    /\ st \subseteq {i \in Slots : al[i].size > 0}
    /\ \A i \in Slots : al[i].size > 0 /\ pds[al[i].pid] = NoPage => i \in st

HeldBy(al, st, p) == {i \in Slots : al[i].size > 0 /\ al[i].pid = p /\ i \notin st}
CodeOf(prog, p)   == (StackEnd * PeCount)..(StackEnd * PeCount + prog[p] - 1)

\* A process has its code and the areas it holds, the kernel the areas of everyone.
AreasOK(m, pds, al, prog, st) ==
    /\ \A p \in Pid : pds[p] # NoPage =>
          AreasMapped(m, pds[p], TRUE, HeldBy(al, st, p), CodeOf(prog, p), al)
    /\ AreasMapped(m, KernelPd, FALSE, Slots, {}, al)

StateOK(m, pds, al, kt, prog, st, sf) ==
    /\ MemoryOK(m, Dirs(pds)) /\ ProcessesOK(pds) /\ AllocationsOK(al, pds, st)
    /\ kt \in 0..MaxKernelThreads /\ prog \in [Process -> Nat]
    /\ m.panic \in {Running, OutOfMemory, NotMapped, PageFault} /\ sf \in BOOLEAN
    /\ m.panic = NotMapped => sf
    /\ m.panic = Running /\ ~sf => AreasOK(m, pds, al, prog, st)

\* The physical pages have their owners, the areas their pages.
IInv ==
    StateOK(memory, phys_pd, memory_allocations, kernel_threads, program_pages, stale, stale_freed)

\* The directories that there are.
LEMMA DirsFacts ==
    ASSUME NEW pds, ProcessesOK(pds)
    PROVE  /\ KernelPd \in Dirs(pds) /\ 0 \in Process /\ 0 \notin Pid /\ Pid \subseteq Process
           /\ \A p \in Process : pds[p] # NoPage => pds[p] \in Dirs(pds)
           /\ \A p \in Pid : pds[p] # NoPage => pds[p] # KernelPd
           /\ \A p \in Process : p # 0 => p \in Pid
  BY MemoryAssumption, KernelTables DEF ProcessesOK, Dirs, Process

\* A page of a region is an address, the kernel's in everyone's tables.
LEMMA RegionPages ==
    /\ \A q \in Region(TRUE) : q \in Addresses /\ ~(q < KmemEnd * PeCount) /\ q >= KmemEnd * PeCount
                               /\ q >= StackEnd * PeCount /\ q \in Nat
    /\ \A q \in Region(FALSE) : q \in Addresses /\ q < KmemEnd * PeCount /\ q \in Nat
<1>1. PICK a, b, c : a = KmemEnd * PeCount /\ b = StackEnd * PeCount /\ c = PeCount * PeCount
  OBVIOUS
<1>2. /\ a \in Nat /\ b \in Nat /\ c \in Nat /\ PeCount \in Nat /\ PeCount <= a /\ a <= b /\ b < c
      /\ Region(TRUE) = b..(c - 1) /\ Region(FALSE) = PeCount..(a - 1)
      /\ Region(TRUE) \subseteq Addresses /\ Region(FALSE) \subseteq Addresses
  BY <1>1, Regions
<1>3. \A q \in b..(c - 1) : ~(q < a) /\ q >= a /\ q >= b /\ q \in Nat
  BY <1>2
<1>4. \A q \in PeCount..(a - 1) : q < a /\ q \in Nat
  BY <1>2
<1>5. ASSUME NEW q \in Region(TRUE)
      PROVE q \in Addresses /\ ~(q < a) /\ q >= a /\ q >= b /\ q \in Nat
  <2>1. q \in b..(c - 1) /\ q \in Addresses
    BY <1>2, <1>5
  <2> QED BY <1>3, <2>1
<1>6. ASSUME NEW q \in Region(FALSE) PROVE q \in Addresses /\ q < a /\ q \in Nat
  <2>1. q \in PeCount..(a - 1) /\ q \in Addresses
    BY <1>2, <1>6
  <2> QED BY <1>4, <2>1
<1> QED BY <1>1, <1>5, <1>6, Zenon

\* A run of a directory is in the others' mappings too if it is the kernel's.
LEMMA RunInRegions ==
    ASSUME NEW pd, NEW d, NEW first, NEW count
    PROVE  /\ \A q \in Region(TRUE) :
                 InRun(pd, first, count, d, q) <=> d = pd /\ q \in first..(first + count - 1)
           /\ \A q \in Region(FALSE) : InRun(pd, first, count, d, q) <=> q \in first..(first + count - 1)
<1>1. ASSUME NEW q \in Region(TRUE)
      PROVE InRun(pd, first, count, d, q) <=> d = pd /\ q \in first..(first + count - 1)
  <2>1. ~(q < KmemEnd * PeCount)
    BY <1>1, RegionPages, Zenon
  <2> QED BY <2>1, Zenon DEF InRun
<1>2. ASSUME NEW q \in Region(FALSE)
      PROVE InRun(pd, first, count, d, q) <=> q \in first..(first + count - 1)
  <2>1. q < KmemEnd * PeCount
    BY <1>2, RegionPages, Zenon
  <2> QED BY <2>1, Zenon DEF InRun
<1> QED BY <1>1, <1>2, Zenon

\* The kernel's pages are mapped alike in all directories.
LEMMA KernelMapped ==
    ASSUME NEW m, NEW D, MemoryOK(m, D), NEW pd \in D, NEW d \in D, NEW q \in Region(FALSE)
    PROVE  Mapped(m, d, q) <=> Mapped(m, pd, q)
<1>1. q \in Addresses /\ q < KmemEnd * PeCount
  BY RegionPages, Zenon
<1>2. SameEntry(pd, q, d, q)
  BY <1>1 DEF SameEntry
<1> QED BY <1>1, <1>2, SharedMapped

\* What follows from Becomes.
LEMMA MemoryBecomes ==
    ASSUME NEW n, NEW D, MemoryOK(n, D), Becomes(n)
    PROVE  memory' = n
<1>1. n = [ram |-> n.ram, entries |-> n.entries, panic |-> n.panic]
  BY DEF MemoryOK
<1>2. memory' = [ram |-> n.ram, entries |-> n.entries, panic |-> n.panic]
  BY DEF Becomes, memory
<1> QED BY <1>1, <1>2

-----------------------------------------------------------------------------
(* malloc.c.                                                               *)

\* What Sysmalloc and Sysrealloc do first: the area is mapped and in the table.
AllocResult(n, al) ==
    /\ MemoryOK(n, Dirs(phys_pd)) /\ n.panic \in {Running, OutOfMemory}
    /\ AllocationsOK(al, phys_pd, stale)
    /\ \A i \in Slots : memory_allocations[i].size > 0 => al[i] = memory_allocations[i]
    /\ n.panic = Running /\ ~stale_freed => AreasOK(n, phys_pd, al, program_pages, stale)

\* It is so.
LEMMA AllocatedOK ==
    ASSUME SmallRam, IInv, NEW pid \in Process, NEW count \in AreaPages, NEW user \in BOOLEAN,
           user => pid # 0, MayAlloc(pid, count, user)
    PROVE  AllocResult(Allocated(pid, count, user), Recorded(pid, count, user))
<1>1. PICK n, am, pd, first, D, m, al, slot :
         /\ n = Allocated(pid, count, user) /\ am = Recorded(pid, count, user)
         /\ pd = phys_pd[pid] /\ first = First(pid, count, user) /\ D = Dirs(phys_pd) /\ m = memory
         /\ al = memory_allocations /\ slot = Min(FreeSlots)
  OBVIOUS
<1>2. /\ MemoryOK(m, D) /\ ProcessesOK(phys_pd) /\ AllocationsOK(al, phys_pd, stale)
      /\ m.panic = Running /\ ~stale_freed => AreasOK(m, phys_pd, al, program_pages, stale)
  BY <1>1 DEF IInv, StateOK
<1>3. /\ m.panic = Running /\ pd # NoPage /\ pd \in D /\ count \in Nat \ {0} /\ first # NoPage
      /\ KernelPd \in D
  <2>1. m.panic = Running /\ pd # NoPage /\ first # NoPage
    BY <1>1 DEF MayAlloc, memory
  <2>2. count \in Nat \ {0}
    BY MemoryAssumption
  <2> QED BY <1>1, <1>2, <2>1, <2>2, DirsFacts
<1>4. first = FindFreeVirtualPages(m, pd, count, user)
  BY <1>1 DEF First
<1>5. RunInRegion(first, count, user) /\ \A j \in 0..(count - 1) : ~Mapped(m, pd, first + j)
  BY <1>3, <1>4, FindFreeOK
<1>6. IsRun(first, count) /\ first \in Nat /\ \A q \in first..(first + count - 1) : q \in Region(user)
  BY <1>3, <1>5, RunsOfRegion
<1>7. MapResult(m, n, D, pd, first, count)
  <2>1. n = MapPages(m, pd, first, count)
    BY <1>1 DEF Allocated
  <2> QED BY <1>2, <1>3, <1>5, <1>6, <2>1, MapPagesOK
<1>8. slot \in Slots /\ al[slot].size = 0
  <2>1. FreeSlots \in SUBSET Nat /\ FreeSlots # {}
    <3>1. Slots \subseteq Nat
      BY MemoryAssumption DEF Slots
    <3> QED BY <3>1 DEF MayAlloc, FreeSlots
  <2>2. PICK p \in FreeSlots : \A q \in FreeSlots : p <= q
    BY <2>1, Least
  <2>3. slot = p
    BY <1>1, <2>1, <2>2, MinIs
  <2> QED BY <1>1, <2>2, <2>3 DEF FreeSlots
<1>9. PICK new : new = [size |-> count, pid |-> pid, virt_addr |-> first]
  OBVIOUS
<1>10. am = [al EXCEPT ![slot] = new]
  BY <1>1, <1>9 DEF Recorded
<1>11. al \in [Slots -> [size : Nat, pid : Process, virt_addr : Nat]]
  BY <1>2 DEF AllocationsOK
<1>12. am[slot] = new /\ \A i \in Slots : i # slot => am[i] = al[i]
  BY <1>8, <1>10, <1>11
<1>13. PICK run : run = first..(first + count - 1)
  OBVIOUS
<1>14. AreaOf(new) = run /\ AreaOf(al[slot]) = {} /\ slot \notin stale
  <2>1. al[slot] = NoArea
    BY <1>2, <1>8 DEF AllocationsOK
  <2>2. AreaOf(NoArea) = {}
    BY DEF NoArea, AreaOf
  <2>3. slot \notin stale
    BY <1>2, <1>8 DEF AllocationsOK
  <2> QED BY <1>9, <1>13, <2>1, <2>2, <2>3 DEF AreaOf
<1>15. AllocationsOK(am, phys_pd, stale)
  <2>1. new \in [size : Nat, pid : Process, virt_addr : Nat] /\ new.size = count /\ new.pid = pid
        /\ new.virt_addr = first
    BY <1>3, <1>6, <1>9
  <2>2. am \in [Slots -> [size : Nat, pid : Process, virt_addr : Nat]]
    BY <1>8, <1>10, <1>11, <2>1
  <2>3. AreaInRegion(new)
    BY <1>5, <2>1 DEF AreaInRegion
  <2>4. new.size > 0 /\ new.size # 0 /\ phys_pd[new.pid] # NoPage
    BY <1>1, <1>3, <2>1
  <2>5. \A i \in Slots : am[i] = new \/ (am[i] = al[i] /\ i # slot)
    BY <1>12
  <2>6. stale \subseteq {i \in Slots : am[i].size > 0}
    BY <1>2, <2>4, <2>5 DEF AllocationsOK
  <2> QED BY <1>2, <2>2, <2>3, <2>4, <2>5, <2>6 DEF AllocationsOK
<1>16. \A i \in Slots : al[i].size > 0 => am[i] = al[i]
  BY <1>8, <1>12
<1>17. ASSUME n.panic = Running, AreasOK(m, phys_pd, al, program_pages, stale)
       PROVE  AreasOK(n, phys_pd, am, program_pages, stale)
  <2>0. \A d \in D, q \in Addresses : Mapped(n, d, q) <=> Mapped(m, d, q) \/ InRun(pd, first, count, d, q)
    BY <1>7, <1>17 DEF MapResult
  <2>1. \A q \in run : ~Mapped(m, pd, q) /\ q \in Region(user)
    <3>1. ASSUME NEW q \in run PROVE q - first \in 0..(count - 1) /\ q = first + (q - first)
      BY <1>3, <1>6, <1>13
    <3> QED BY <1>5, <1>6, <1>13, <3>1
  <2>2. \A p \in Process : HeldBy(am, stale, p) =
                              IF p = pid THEN HeldBy(al, stale, p) \cup {slot} ELSE HeldBy(al, stale, p)
    <3>1. new.size > 0 /\ new.pid = pid
      BY <1>3, <1>9
    <3> QED BY <1>8, <1>12, <1>14, <3>1 DEF HeldBy
  <2>3. ASSUME NEW p \in Pid, phys_pd[p] # NoPage
        PROVE  AreasMapped(n, phys_pd[p], TRUE, HeldBy(am, stale, p), CodeOf(program_pages, p), am)
    <3>1. PICK d, S, T, code : /\ d = phys_pd[p] /\ S = HeldBy(al, stale, p) /\ T = HeldBy(am, stale, p)
                               /\ code = CodeOf(program_pages, p)
      OBVIOUS
    <3>2. d \in D /\ p \in Process /\ AreasMapped(m, d, TRUE, S, code, al) /\ (d = pd => p = pid)
      BY <1>1, <1>2, <1>17, <2>3, <3>1, DirsFacts DEF AreasOK, ProcessesOK
    <3>3. \A q \in Region(TRUE) : Mapped(n, d, q) <=> Mapped(m, d, q) \/ (d = pd /\ q \in run)
      BY <1>13, <2>0, <3>2, RegionPages, RunInRegions, Zenon
    <3>4. CASE p = pid
      <4>1. T = S \cup {slot} /\ d = pd
        BY <1>1, <2>2, <3>1, <3>2, <3>4
      <4>2. \A q \in Region(TRUE) : \A i \in Slots :
               InArea(T, am, i, q) <=> InArea(S, al, i, q) \/ (i = slot /\ q \in run)
        BY <1>12, <1>14, <4>1 DEF InArea
      <4>3. \A q \in Region(TRUE) : Mapped(n, d, q) <=> Mapped(m, d, q) \/ q \in run
        BY <3>3, <4>1
      <4>4. \A q \in Region(TRUE) : q \in run => ~Mapped(m, d, q)
        BY <2>1, <4>1
      <4>5. AreasMapped(m, d, TRUE, S, code, al)
        BY <3>2
      <4>6. AreasMapped(n, d, TRUE, T, code, am)
        <5>1. Adds(m, n, d, TRUE, S, T, al, am, run, slot)
          BY <4>2, <4>3, <4>4 DEF Adds
        <5> QED BY <1>8, <4>5, <5>1, AreaAdded, Zenon
      <4> QED BY <3>1, <4>6
    <3>5. CASE p # pid
      <4>1. T = S /\ d # pd /\ slot \notin S
        BY <1>8, <2>2, <3>1, <3>2, <3>5 DEF HeldBy
      <4>2. \A q \in Region(TRUE) : \A i \in Slots : InArea(T, am, i, q) <=> InArea(S, al, i, q)
        BY <1>12, <4>1 DEF InArea
      <4>3. \A q \in Region(TRUE) : Mapped(n, d, q) <=> Mapped(m, d, q)
        BY <3>3, <4>1
      <4> QED BY <3>1, <3>2, <4>2, <4>3, SameAreas
    <3> QED BY <3>4, <3>5
  <2>4. AreasMapped(n, KernelPd, FALSE, Slots, {}, am)
    <3>1. AreasMapped(m, KernelPd, FALSE, Slots, {}, al)
      BY <1>17 DEF AreasOK
    <3>2. \A q \in Region(FALSE) : Mapped(n, KernelPd, q) <=> Mapped(m, KernelPd, q) \/ q \in run
      BY <1>3, <1>13, <2>0, RegionPages, RunInRegions, Zenon
    <3>3. \A q \in Region(FALSE) : q \in run => ~Mapped(m, KernelPd, q)
      BY <1>2, <1>3, <2>1, KernelMapped
    <3>4. \A q \in Region(FALSE) : \A i \in Slots :
             InArea(Slots, am, i, q) <=> InArea(Slots, al, i, q) \/ (i = slot /\ q \in run)
      BY <1>8, <1>12, <1>14 DEF InArea
    <3>5. Adds(m, n, KernelPd, FALSE, Slots, Slots, al, am, run, slot)
      BY <3>2, <3>3, <3>4 DEF Adds
    <3> QED BY <1>8, <3>1, <3>5, AreaAdded, Zenon
  <2> QED BY <2>3, <2>4 DEF AreasOK
<1>18. n.panic \in {Running, OutOfMemory} /\ MemoryOK(n, D)
  BY <1>7 DEF MapResult
<1>19. AllocResult(n, am)
  BY <1>1, <1>2, <1>3, <1>15, <1>16, <1>17, <1>18 DEF AllocResult
<1> QED BY <1>1, <1>19

\* What is held, when the entry found is taken for entry i.
StaleAfter(al, st, i) ==
    IF FirstEntry(al, i) = i THEN st ELSE (st \ {FirstEntry(al, i)}) \cup {i}

\* What Sysfree and Sysrealloc do: the area found is unmapped and out of the table.  If it is
\* the one meant, there is no panic.
FreeResult(m, al, st, i, n, am) ==
    /\ MemoryOK(n, Dirs(phys_pd)) /\ n.panic \in {Running, NotMapped}
    /\ AllocationsOK(am, phys_pd, StaleAfter(al, st, i))
    /\ FirstEntry(al, i) = i /\ AreasOK(m, phys_pd, al, program_pages, st) =>
          n.panic = Running /\ AreasOK(n, phys_pd, am, program_pages, StaleAfter(al, st, i))

\* The entry found is of the same process and address, and no free one.
LEMMA EntryFound ==
    ASSUME NEW al, NEW st, AllocationsOK(al, phys_pd, st), NEW i \in Slots, al[i].size > 0
    PROVE  /\ FirstEntry(al, i) \in Slots
           /\ al[FirstEntry(al, i)].size > 0 /\ al[FirstEntry(al, i)].pid = al[i].pid
<1>1. PICK S : S = {k \in Slots : al[k].virt_addr = al[i].virt_addr /\ al[k].pid = al[i].pid}
  OBVIOUS
<1>2. S \in SUBSET Nat /\ i \in S
  BY <1>1, MemoryAssumption DEF Slots
<1>3. PICK f \in S : \A k \in S : f <= k
  BY <1>2, Least
<1>4. FirstEntry(al, i) = f
  <2>1. Min(S) = f
    BY <1>2, <1>3, MinIs
  <2> QED BY <1>1, <2>1 DEF FirstEntry
<1>5. al[i].virt_addr # 0
  <2>1. PICK user \in BOOLEAN : RunInRegion(al[i].virt_addr, al[i].size, user)
    BY DEF AllocationsOK, AreaInRegion
  <2>2. 0 \notin Region(user)
    <3>1. Region(user) = Region(TRUE) \/ Region(user) = Region(FALSE)
      BY DEF Region
    <3> QED BY <3>1, Regions DEF NoPage
  <2> QED BY <2>1, <2>2 DEF RunInRegion
<1>6. f \in Slots /\ al[f].virt_addr = al[i].virt_addr /\ al[f].pid = al[i].pid
  BY <1>1, <1>3
<1>7. al[f].size # 0
  BY <1>5, <1>6 DEF AllocationsOK, NoArea
<1>8. al[f].size \in Nat
  BY <1>6 DEF AllocationsOK
<1> QED BY <1>4, <1>6, <1>7, <1>8

\* It is so.
LEMMA FreedOK ==
    ASSUME NEW m, NEW al, NEW st, MemoryOK(m, Dirs(phys_pd)), m.panic = Running, ProcessesOK(phys_pd),
           AllocationsOK(al, phys_pd, st), NEW pid \in Process, phys_pd[pid] # NoPage,
           NEW i \in Slots, al[i].size > 0, al[i].pid = pid, i \notin st
    PROVE  FreeResult(m, al, st, i, Freed(m, pid, al, i), EntryCleared(al, i))
<1>1. PICK n, am, pd, D, f, su, first, count :
         /\ n = Freed(m, pid, al, i) /\ am = EntryCleared(al, i) /\ pd = phys_pd[pid]
         /\ D = Dirs(phys_pd) /\ f = FirstEntry(al, i) /\ su = StaleAfter(al, st, i)
         /\ first = al[f].virt_addr /\ count = al[f].size
  OBVIOUS
<1>2. f \in Slots /\ count > 0 /\ al[f].pid = pid
  BY <1>1, EntryFound
<1>3. al \in [Slots -> [size : Nat, pid : Process, virt_addr : Nat]] /\ pd \in D /\ KernelPd \in D
      /\ count \in Nat \ {0}
  BY <1>1, <1>2, DirsFacts DEF AllocationsOK
<1>4. PICK user \in BOOLEAN : (user => pid # 0) /\ RunInRegion(first, count, user)
  BY <1>1, <1>2 DEF AllocationsOK, AreaInRegion
<1>5. IsRun(first, count) /\ first \in Nat /\ \A q \in first..(first + count - 1) : q \in Region(user)
  BY <1>3, <1>4, RunsOfRegion
<1>6. n = UnmapPages(m, pd, first, count)
  BY <1>1 DEF Freed, Then
<1>7. /\ UnmapResult(m, n, D, pd, first, count)
      /\ (\A j \in 0..(count - 1) : Mapped(m, pd, first + j)) => n.panic = Running
  BY <1>1, <1>3, <1>5, <1>6, UnmapPagesOK
<1>8. am = [al EXCEPT ![f] = NoArea] /\ su = IF f = i THEN st ELSE (st \ {f}) \cup {i}
  BY <1>1 DEF EntryCleared, StaleAfter
<1>9. am[f] = NoArea /\ \A k \in Slots : k # f => am[k] = al[k]
  BY <1>2, <1>3, <1>8
<1>10. AllocationsOK(am, phys_pd, su)
  <2>1. NoArea \in [size : Nat, pid : Process, virt_addr : Nat] /\ NoArea.size = 0
    BY DEF NoArea, Process
  <2>2. am \in [Slots -> [size : Nat, pid : Process, virt_addr : Nat]]
    BY <1>2, <1>3, <1>8, <2>1
  <2>3. \A k \in Slots : (k = f /\ am[k] = NoArea) \/ (k # f /\ am[k] = al[k])
    BY <1>9
  <2>4. su \subseteq {k \in Slots : am[k].size > 0}
    <3>1. st \subseteq {k \in Slots : al[k].size > 0}
      BY DEF AllocationsOK
    <3> QED BY <1>8, <2>3, <3>1
  <2>5. \A k \in Slots : am[k].size > 0 => k # f /\ am[k] = al[k] /\ (k \in st => k \in su)
    BY <1>8, <2>1, <2>3
  <2> QED BY <2>1, <2>2, <2>3, <2>4, <2>5 DEF AllocationsOK
<1>11. MemoryOK(n, D) /\ n.panic \in {Running, NotMapped}
  BY <1>7 DEF UnmapResult
<1>12. ASSUME f = i, AreasOK(m, phys_pd, al, program_pages, st)
       PROVE  n.panic = Running /\ AreasOK(n, phys_pd, am, program_pages, su)
  <2>1. PICK run : run = first..(first + count - 1)
    OBVIOUS
  <2>2. AreaOf(al[i]) = run /\ AreaOf(am[i]) = {} /\ su = st
    <3>1. AreaOf(NoArea) = {}
      BY DEF AreaOf, NoArea
    <3>2. AreaOf(al[i]) = run
      BY <1>1, <1>12, <2>1 DEF AreaOf
    <3>3. am[i] = NoArea /\ su = st
      BY <1>8, <1>9, <1>12
    <3> QED BY <3>1, <3>2, <3>3
  <2>3. \A q \in run : q \in Region(user)
    BY <1>5, <2>1
  <2>4. ASSUME NEW q \in run PROVE Mapped(m, pd, q)
    <3>1. CASE user = TRUE
      <4>1. pid \in Pid
        BY <1>4, <3>1, DirsFacts
      <4>2. AreasMapped(m, pd, TRUE, HeldBy(al, st, pid), CodeOf(program_pages, pid), al)
        BY <1>1, <1>12, <4>1 DEF AreasOK
      <4>3. InArea(HeldBy(al, st, pid), al, i, q)
        BY <2>2 DEF InArea, HeldBy
      <4>4. q \in Region(TRUE)
        BY <2>3, <3>1
      <4> QED BY <4>2, <4>3, <4>4 DEF AreasMapped
    <3>2. CASE user = FALSE
      <4>1. AreasMapped(m, KernelPd, FALSE, Slots, {}, al)
        BY <1>12 DEF AreasOK
      <4>2. InArea(Slots, al, i, q)
        BY <2>2 DEF InArea
      <4>3. q \in Region(FALSE)
        BY <2>3, <3>2
      <4>4. Mapped(m, KernelPd, q)
        BY <4>1, <4>2, <4>3 DEF AreasMapped
      <4> QED BY <1>1, <1>3, <4>3, <4>4, KernelMapped
    <3> QED BY <3>1, <3>2
  <2>5. n.panic = Running
    <3>1. \A j \in 0..(count - 1) : first + j \in run
      BY <1>3, <1>5, <2>1
    <3> QED BY <1>7, <2>4, <3>1
  <2>6. \A d \in D, q \in Addresses : Mapped(n, d, q) <=> Mapped(m, d, q) /\ ~InRun(pd, first, count, d, q)
    BY <1>7, <2>5 DEF UnmapResult
  <2>7. ASSUME NEW p \in Pid, phys_pd[p] # NoPage
        PROVE  AreasMapped(n, phys_pd[p], TRUE, HeldBy(am, su, p), CodeOf(program_pages, p), am)
    <3>1. PICK d, S, T, code : /\ d = phys_pd[p] /\ S = HeldBy(al, st, p) /\ T = HeldBy(am, su, p)
                               /\ code = CodeOf(program_pages, p)
      OBVIOUS
    <3>2. d \in D /\ p \in Process /\ AreasMapped(m, d, TRUE, S, code, al) /\ (d = pd => p = pid)
      BY <1>1, <1>12, <2>7, <3>1, DirsFacts DEF AreasOK, ProcessesOK
    <3>3. \A q \in Region(TRUE) : Mapped(n, d, q) <=> Mapped(m, d, q) /\ ~(d = pd /\ q \in run)
      <4>1. SUFFICES ASSUME NEW q \in Region(TRUE)
                     PROVE  Mapped(n, d, q) <=> Mapped(m, d, q) /\ ~(d = pd /\ q \in run)
        OBVIOUS
      <4>2. q \in Addresses
        BY RegionPages
      <4>3. InRun(pd, first, count, d, q) <=> d = pd /\ q \in run
        BY <2>1, RunInRegions
      <4> QED BY <2>6, <3>2, <4>2, <4>3
    <3>4. \A k \in Slots : \A q : InArea(T, am, k, q) <=> InArea(S, al, k, q) /\ k # i
      <4>1. \A k \in Slots : k # i => (k \in T <=> k \in S) /\ am[k] = al[k]
        BY <1>9, <1>12, <2>2, <3>1 DEF HeldBy
      <4>2. i \notin T
        BY <1>9, <1>12, <3>1 DEF HeldBy, NoArea
      <4> QED BY <4>1, <4>2 DEF InArea
    <3>5. CASE p = pid
      <4>1. i \in S /\ d = pd
        BY <1>1, <3>1, <3>5 DEF HeldBy
      <4>2. Removes(m, n, d, TRUE, S, T, al, am, run, i)
        BY <2>2, <3>3, <3>4, <4>1 DEF InArea, Removes
      <4>3. AreasMapped(n, d, TRUE, T, code, am)
        BY <3>2, <4>2, AreaRemoved, Zenon
      <4> QED BY <3>1, <4>3
    <3>6. CASE p # pid
      <4>1. d # pd /\ i \notin S
        BY <3>1, <3>2, <3>6 DEF HeldBy
      <4>2. \A q \in Region(TRUE) : \A k \in Slots : InArea(T, am, k, q) <=> InArea(S, al, k, q)
        BY <3>4, <4>1 DEF InArea
      <4>3. \A q \in Region(TRUE) : Mapped(n, d, q) <=> Mapped(m, d, q)
        BY <3>3, <4>1
      <4> QED BY <3>1, <3>2, <4>2, <4>3, SameAreas
    <3> QED BY <3>5, <3>6
  <2>8. AreasMapped(n, KernelPd, FALSE, Slots, {}, am)
    <3>1. AreasMapped(m, KernelPd, FALSE, Slots, {}, al)
      BY <1>12 DEF AreasOK
    <3>2. \A q \in Region(FALSE) : Mapped(n, KernelPd, q) <=> Mapped(m, KernelPd, q) /\ q \notin run
      <4>1. SUFFICES ASSUME NEW q \in Region(FALSE)
                     PROVE  Mapped(n, KernelPd, q) <=> Mapped(m, KernelPd, q) /\ q \notin run
        OBVIOUS
      <4>2. q \in Addresses
        BY RegionPages
      <4>3. InRun(pd, first, count, KernelPd, q) <=> q \in run
        BY <2>1, RunInRegions
      <4> QED BY <1>3, <2>6, <4>2, <4>3
    <3>3. \A k \in Slots : \A q : InArea(Slots, am, k, q) <=> InArea(Slots, al, k, q) /\ k # i
      BY <1>9, <1>12, <2>2 DEF InArea
    <3>4. Removes(m, n, KernelPd, FALSE, Slots, Slots, al, am, run, i)
      BY <2>2, <3>2, <3>3 DEF InArea, Removes
    <3> QED BY <3>1, <3>4, AreaRemoved, Zenon
  <2> QED BY <2>5, <2>7, <2>8 DEF AreasOK
<1>13. FreeResult(m, al, st, i, n, am)
  BY <1>1, <1>10, <1>11, <1>12 DEF FreeResult
<1> QED BY <1>1, <1>13

-----------------------------------------------------------------------------
(* Every step keeps the invariant.                                         *)

\* A step that leaves everything as it is.
LEMMA StutterStep ==
    ASSUME IInv, UNCHANGED vars
    PROVE  IInv'
<1>1. memory' = memory
  BY DEF vars, memory
<1> QED BY <1>1 DEF IInv, vars

\* A call that maps or frees nothing but areas, or ends with a panic.
LEMMA AreaStep ==
    ASSUME IInv, NEW n, NEW al, NEW st, NEW sf \in BOOLEAN, Becomes(n), memory_allocations' = al, stale' = st,
           stale_freed' = sf, UNCHANGED <<phys_pd, kernel_threads, program_pages>>,
           MemoryOK(n, Dirs(phys_pd)), AllocationsOK(al, phys_pd, st),
           n.panic \in {Running, OutOfMemory, NotMapped, PageFault}, n.panic = NotMapped => sf,
           n.panic = Running /\ ~sf => AreasOK(n, phys_pd, al, program_pages, st)
    PROVE  IInv'
<1>1. memory' = n
  BY MemoryBecomes
<1> QED BY <1>1 DEF IInv, StateOK

\* Sysmalloc does.
LEMMA SysmallocStep ==
    ASSUME SmallRam, IInv, NEW pid \in Process, NEW count \in AreaPages, NEW user \in BOOLEAN,
           Sysmalloc(pid, count, user)
    PROVE  IInv'
<1>1. PICK n, al : n = Allocated(pid, count, user) /\ al = Recorded(pid, count, user)
  OBVIOUS
<1>2. (user => pid # 0) /\ MayAlloc(pid, count, user)
  BY DEF Sysmalloc
<1>3. AllocResult(n, al)
  BY <1>1, <1>2, AllocatedOK
<1>4. /\ Becomes(n) /\ memory_allocations' = al /\ stale' = stale /\ stale_freed' = stale_freed
      /\ UNCHANGED <<phys_pd, kernel_threads, program_pages>>
  BY <1>1 DEF Sysmalloc
<1>5. stale_freed \in BOOLEAN /\ OutOfMemory # NotMapped /\ Running # NotMapped
  BY DEF IInv, StateOK, OutOfMemory, NotMapped, Running
<1>6. /\ MemoryOK(n, Dirs(phys_pd)) /\ AllocationsOK(al, phys_pd, stale)
      /\ n.panic \in {Running, OutOfMemory, NotMapped, PageFault} /\ n.panic # NotMapped
      /\ n.panic = Running /\ ~stale_freed => AreasOK(n, phys_pd, al, program_pages, stale)
  BY <1>3, <1>5 DEF AllocResult
<1> QED BY <1>4, <1>5, <1>6, AreaStep

\* Sysfree does.
LEMMA SysfreeStep ==
    ASSUME SmallRam, IInv, NEW pid \in Process, NEW i \in Slots, Sysfree(pid, i)
    PROVE  IInv'
<1>1. PICK n, am, m, al, su : /\ n = Freed(memory, pid, memory_allocations, i)
                              /\ am = EntryCleared(memory_allocations, i)
                              /\ m = memory /\ al = memory_allocations /\ su = StaleAfter(al, stale, i)
  OBVIOUS
<1>2. /\ al[i].size > 0 /\ al[i].pid = pid /\ i \notin stale /\ phys_pd[pid] # NoPage
      /\ m.panic = Running
  BY <1>1 DEF Sysfree, Holds, memory
<1>3. /\ MemoryOK(m, Dirs(phys_pd)) /\ ProcessesOK(phys_pd) /\ AllocationsOK(al, phys_pd, stale)
      /\ ~stale_freed => AreasOK(m, phys_pd, al, program_pages, stale)
      /\ stale_freed \in BOOLEAN
  BY <1>1, <1>2 DEF IInv, StateOK
<1>4. FreeResult(m, al, stale, i, n, am)
  BY <1>1, <1>2, <1>3, FreedOK
<1>5. PICK sf : sf = (stale_freed \/ FirstEntry(al, i) # i)
  OBVIOUS
<1>6. /\ Becomes(n) /\ memory_allocations' = am /\ stale' = su /\ stale_freed' = sf
      /\ UNCHANGED <<phys_pd, kernel_threads, program_pages>>
  BY <1>1, <1>5 DEF Sysfree, Forgets, StaleAfter
<1>7. sf \in BOOLEAN /\ Running # NotMapped
  BY <1>5 DEF Running, NotMapped
<1>8. ~sf => FirstEntry(al, i) = i /\ AreasOK(m, phys_pd, al, program_pages, stale)
  BY <1>3, <1>5
<1>9. /\ MemoryOK(n, Dirs(phys_pd)) /\ AllocationsOK(am, phys_pd, su)
      /\ n.panic \in {Running, OutOfMemory, NotMapped, PageFault}
      /\ ~sf => n.panic = Running /\ AreasOK(n, phys_pd, am, program_pages, su)
  BY <1>1, <1>4, <1>8 DEF FreeResult
<1> QED BY <1>6, <1>7, <1>9, AreaStep

\* Sysrealloc does.
LEMMA SysreallocStep ==
    ASSUME SmallRam, IInv, NEW pid \in Process, NEW i \in Slots, NEW count \in AreaPages,
           Sysrealloc(pid, i, count)
    PROVE  IInv'
<1>1. PICK user, g, al, c, m, n, am, su, copies :
         /\ user = (memory_allocations[i].virt_addr \in Region(TRUE))
         /\ g = Allocated(pid, count, user) /\ al = Recorded(pid, count, user)
         /\ copies = \E page \in Addresses :
                        /\ page - memory_allocations[i].virt_addr \in 0..(count - 1)
                        /\ Mapping(g, phys_pd[pid], page) = NoPage
         /\ c = (IF copies THEN Panic(g, PageFault) ELSE g)
         /\ m = Freed(c, pid, al, i) /\ n = Then(g, m)
         /\ am = EntryCleared(al, i) /\ su = StaleAfter(al, stale, i)
  OBVIOUS
<1>2. /\ Holds(pid, i) /\ MayAlloc(pid, count, user) /\ Becomes(n)
      /\ Forgets(al, i) /\ UNCHANGED <<phys_pd, kernel_threads, program_pages>>
  BY <1>1, Zenon DEF Sysrealloc
<1>3. PICK sf : sf = (stale_freed \/ FirstEntry(al, i) # i)
  OBVIOUS
<1>4. memory_allocations' = am /\ stale' = su /\ stale_freed' = sf
  BY <1>1, <1>2, <1>3 DEF Forgets, StaleAfter
<1>5. /\ MemoryOK(memory, Dirs(phys_pd)) /\ ProcessesOK(phys_pd)
      /\ AllocationsOK(memory_allocations, phys_pd, stale) /\ stale_freed \in BOOLEAN
  BY DEF IInv, StateOK
<1>6. user => pid # 0
  <2>1. SUFFICES ASSUME memory_allocations[i].virt_addr \in Region(TRUE) PROVE pid # 0
    BY <1>1
  <2>2. PICK u \in BOOLEAN :
          (u => memory_allocations[i].pid # 0) /\ memory_allocations[i].virt_addr \in Region(u)
    BY <1>2, <1>5 DEF Holds, AllocationsOK, AreaInRegion, RunInRegion
  <2>3. CASE u = TRUE
    BY <1>2, <2>2, <2>3 DEF Holds
  <2>4. CASE u = FALSE
    <3>1. memory_allocations[i].virt_addr \in Region(FALSE)
      BY <2>2, <2>4
    <3> QED BY <2>1, <3>1, RegionPages
  <2> QED BY <2>3, <2>4
<1>7. AllocResult(g, al)
  <2>1. user \in BOOLEAN
    BY <1>1
  <2> QED BY <1>1, <1>2, <1>6, <2>1, AllocatedOK
<1>8. al[i].size > 0 /\ al[i].pid = pid /\ i \notin stale /\ phys_pd[pid] # NoPage
  BY <1>2, <1>7 DEF Holds, AllocResult, MayAlloc
<1>9. MemoryOK(g, Dirs(phys_pd)) /\ AllocationsOK(al, phys_pd, stale) /\ g.panic \in {Running, OutOfMemory}
      /\ (g.panic = Running /\ ~stale_freed => AreasOK(g, phys_pd, al, program_pages, stale))
  BY <1>7 DEF AllocResult
<1>10. /\ Running # NotMapped /\ OutOfMemory # NotMapped /\ PageFault # NotMapped
       /\ PageFault # Running /\ OutOfMemory # Running /\ sf \in BOOLEAN
  BY <1>3 DEF Running, NotMapped, OutOfMemory, PageFault
\* The table without the area, whether it was unmapped or the kernel panicked before.
<1>11. PICK same : same = [g EXCEPT !.panic = Running]
  OBVIOUS
<1>12. AllocationsOK(am, phys_pd, su)
  <2>1. same = Panic(g, Running)
    BY <1>11 DEF Panic
  <2>2. MemoryOK(same, Dirs(phys_pd)) /\ same.panic = Running
    BY <1>9, <2>1, PanicOK
  <2>3. FreeResult(same, al, stale, i, Freed(same, pid, al, i), EntryCleared(al, i))
    BY <1>5, <1>8, <1>9, <2>2, FreedOK
  <2> QED BY <1>1, <2>3 DEF FreeResult
<1>13. CASE g.panic # Running
  <2>1. n = g
    BY <1>1, <1>13 DEF Then
  <2> QED BY <1>2, <1>4, <1>9, <1>10, <1>12, <1>13, <2>1, AreaStep
<1>14. CASE g.panic = Running /\ copies
  <2>1. c = Panic(g, PageFault)
    BY <1>1, <1>14
  <2>2. MemoryOK(c, Dirs(phys_pd)) /\ c.panic = PageFault
    BY <1>9, <2>1, PanicOK
  <2>3. n = c
    BY <1>1, <1>10, <1>14, <2>2 DEF Then, Freed
  <2> QED BY <1>2, <1>4, <1>10, <1>12, <2>2, <2>3, AreaStep
<1>15. CASE g.panic = Running /\ ~copies
  <2>1. n = Freed(g, pid, al, i)
    BY <1>1, <1>15 DEF Then
  <2>2. FreeResult(g, al, stale, i, n, am)
    BY <1>1, <1>5, <1>8, <1>9, <1>15, <2>1, FreedOK
  <2>3. ~sf => FirstEntry(al, i) = i /\ AreasOK(g, phys_pd, al, program_pages, stale)
    BY <1>3, <1>9, <1>15
  <2>4. /\ MemoryOK(n, Dirs(phys_pd)) /\ n.panic \in {Running, OutOfMemory, NotMapped, PageFault}
        /\ ~sf => n.panic = Running /\ AreasOK(n, phys_pd, am, program_pages, su)
    BY <1>1, <2>2, <2>3 DEF FreeResult
  <2> QED BY <1>2, <1>4, <1>10, <1>12, <2>4, AreaStep
<1> QED BY <1>13, <1>14, <1>15

\* What is aside of the kernel's pages and of the user's pages of processes keeps the areas.
LEMMA AsideAreas ==
    ASSUME NEW m, NEW n, NEW pds, NEW al, NEW prog, NEW st, ProcessesOK(pds), NEW pd,
           AreasOK(m, pds, al, prog, st), Aside(m, n, Dirs(pds), pd), \A p \in Pid : pds[p] # pd
    PROVE  AreasOK(n, pds, al, prog, st)
<1>1. ASSUME NEW p \in Pid, pds[p] # NoPage
      PROVE  AreasMapped(n, pds[p], TRUE, HeldBy(al, st, p), CodeOf(prog, p), al)
  <2>1. PICK d, S, code : d = pds[p] /\ S = HeldBy(al, st, p) /\ code = CodeOf(prog, p)
    OBVIOUS
  <2>2. AreasMapped(m, d, TRUE, S, code, al) /\ d \in Dirs(pds) /\ d # pd
    BY <1>1, <2>1, DirsFacts DEF AreasOK
  <2>3. \A q \in Region(TRUE) : Mapped(n, d, q) <=> Mapped(m, d, q)
    BY <2>2, RegionPages DEF Aside
  <2>4. \A q \in Region(TRUE) : \A i \in Slots : InArea(S, al, i, q) <=> InArea(S, al, i, q)
    OBVIOUS
  <2>5. AreasMapped(n, d, TRUE, S, code, al)
    BY <2>2, <2>3, <2>4, SameAreas
  <2> QED BY <2>1, <2>5
<1>2. AreasMapped(n, KernelPd, FALSE, Slots, {}, al)
  <2>1. AreasMapped(m, KernelPd, FALSE, Slots, {}, al) /\ KernelPd \in Dirs(pds)
    BY DirsFacts DEF AreasOK
  <2>2. \A q \in Region(FALSE) : Mapped(n, KernelPd, q) <=> Mapped(m, KernelPd, q)
    BY <2>1, RegionPages DEF Aside
  <2> QED BY <2>1, <2>2 DEF AreasMapped
<1> QED BY <1>1, <1>2 DEF AreasOK

\* A new thread of the kernel.
LEMMA KernelThreadStep ==
    ASSUME SmallRam, IInv, KernelThread
    PROVE  IInv'
<1>1. PICK m, n : m = memory /\ n = ResizeStack(m, KernelPd, kernel_threads, 1)
  OBVIOUS
<1>2. /\ MemoryOK(m, Dirs(phys_pd)) /\ ProcessesOK(phys_pd)
      /\ ~stale_freed => AreasOK(m, phys_pd, memory_allocations, program_pages, stale)
      /\ m.panic = Running /\ kernel_threads < MaxKernelThreads /\ kernel_threads \in Nat
  BY <1>1, MemoryAssumption DEF IInv, StateOK, KernelThread, memory
<1>3. KernelPd \in Dirs(phys_pd) /\ \A p \in Pid : phys_pd[p] # KernelPd
  <2>1. KernelPd # NoPage
    BY KernelTables
  <2> QED BY <1>2, <2>1, DirsFacts
<1>4. kernel_threads \in 0..(MaxStacks - 1) /\ kernel_threads + 1 \in 0..MaxKernelThreads
  BY <1>2, MemoryAssumption
<1>5. /\ MemoryOK(n, Dirs(phys_pd)) /\ n.panic \in {Running, OutOfMemory}
      /\ n.panic = Running => Aside(m, n, Dirs(phys_pd), KernelPd)
  BY <1>1, <1>2, <1>3, <1>4, ResizeStackAside
<1>6. n.panic = Running /\ ~stale_freed => AreasOK(n, phys_pd, memory_allocations, program_pages, stale)
  BY <1>2, <1>3, <1>5, AsideAreas
<1>7. /\ memory' = n /\ kernel_threads' = kernel_threads + 1
      /\ UNCHANGED <<phys_pd, memory_allocations, program_pages, stale, stale_freed>>
  BY <1>1, <1>5, MemoryBecomes DEF KernelThread
<1>8. OutOfMemory # NotMapped /\ Running # NotMapped
  BY DEF OutOfMemory, NotMapped, Running
<1> QED BY <1>4, <1>5, <1>6, <1>7, <1>8 DEF IInv, StateOK

\* The end of a process.
LEMMA EndProcessStep ==
    ASSUME SmallRam, IInv, NEW pid \in Pid, EndProcess(pid)
    PROVE  IInv'
<1>1. PICK m, pd, u, n, D, pds, st, prog :
         /\ m = memory /\ pd = phys_pd[pid] /\ u = ResizeStack(m, pd, 0, 0) /\ n = FreePagedir(u, pd)
         /\ D = Dirs(phys_pd) /\ pds = [phys_pd EXCEPT ![pid] = NoPage]
         /\ st = stale \cup {i \in Slots : memory_allocations[i].pid = pid}
         /\ prog = [program_pages EXCEPT ![pid] = 0]
  OBVIOUS
<1>2. /\ MemoryOK(m, D) /\ ProcessesOK(phys_pd) /\ AllocationsOK(memory_allocations, phys_pd, stale)
      /\ ~stale_freed => AreasOK(m, phys_pd, memory_allocations, program_pages, stale)
      /\ m.panic = Running /\ pd # NoPage /\ program_pages \in [Process -> Nat]
  BY <1>1 DEF IInv, StateOK, EndProcess, memory
<1>3. pd \in D /\ pd # KernelPd /\ KernelPd \in D /\ pid \in Process /\ pid # 0
  BY <1>1, <1>2, DirsFacts
<1>4. 0 \in 0..(MaxStacks - 1)
  BY MemoryAssumption
<1>5. MemoryOK(u, D) /\ u.panic = Running /\ Aside(m, u, D, pd)
  BY <1>1, <1>2, <1>3, <1>4, ResizeStackAside
<1>6. /\ MemoryOK(n, D \ {pd}) /\ n.panic = u.panic
      /\ \A d \in D \ {pd}, q \in Addresses : Mapped(n, d, q) <=> Mapped(u, d, q)
  <2>1. n = FreePagedir(u, pd) /\ MemoryOK(u, D) /\ pd \in D /\ pd # KernelPd
    BY <1>1, <1>3, <1>5
  <2> HIDE DEF Aside
  <2> QED BY ONLY <2>1, FreePagedirOK
<1>7. /\ Becomes(n) /\ phys_pd' = pds /\ program_pages' = prog /\ stale' = st
      /\ UNCHANGED <<memory_allocations, kernel_threads, stale_freed>>
  BY <1>1, <1>5 DEF EndProcess, Then
<1>8. /\ pds \in [Process -> Nat] /\ pds[pid] = NoPage
      /\ \A p \in Process : p # pid => pds[p] = phys_pd[p]
  <2>1. NoPage \in Nat /\ phys_pd \in [Process -> Nat]
    BY <1>2 DEF NoPage, ProcessesOK
  <2> QED BY <1>1, <1>3, <2>1
<1>9. ProcessesOK(pds)
  <2>1. 0 \in Process /\ pds[0] = KernelPd
    BY <1>2, <1>3, <1>8, DirsFacts DEF ProcessesOK
  <2>2. \A p, q \in Process : pds[p] = pds[q] /\ pds[p] # NoPage => p = q
    BY <1>2, <1>8 DEF ProcessesOK
  <2> QED BY <1>8, <2>1, <2>2 DEF ProcessesOK
<1>10. Dirs(pds) = D \ {pd}
  <2>1. ASSUME NEW d \in Dirs(pds) PROVE d \in D \ {pd}
    <3>1. PICK p \in Process : d = pds[p] /\ d # NoPage
      BY DEF Dirs
    <3>2. p # pid /\ d = phys_pd[p]
      BY <1>8, <3>1
    <3> QED BY <1>1, <1>2, <1>3, <3>1, <3>2, DirsFacts DEF ProcessesOK
  <2>2. ASSUME NEW d \in D \ {pd} PROVE d \in Dirs(pds)
    <3>1. PICK p \in Process : d = phys_pd[p] /\ d # NoPage
      BY <1>1 DEF Dirs
    <3>2. p # pid
      BY <1>1, <3>1
    <3> QED BY <1>8, <3>1, <3>2 DEF Dirs
  <2> QED BY <2>1, <2>2
<1>11. MemoryOK(n, Dirs(pds)) /\ memory' = n
  BY <1>6, <1>7, <1>10, MemoryBecomes
<1>12. prog \in [Process -> Nat] /\ \A p \in Process : p # pid => prog[p] = program_pages[p]
  BY <1>1, <1>2
<1>13. AllocationsOK(memory_allocations, pds, st)
  <2>1. PICK al : al = memory_allocations
    OBVIOUS
  <2>2. AllocationsOK(al, phys_pd, stale) /\ st = stale \cup {i \in Slots : al[i].pid = pid}
    BY <1>1, <1>2, <2>1
  <2>3. \A i \in Slots : al[i].pid \in Process /\ al[i].size \in Nat
    BY <2>2 DEF AllocationsOK
  <2>4. \A i \in Slots : al[i].pid = pid => al[i].size > 0
    <3>1. NoArea.pid = 0
      BY DEF NoArea
    <3> QED BY <1>3, <2>2, <2>3, <3>1 DEF AllocationsOK
  <2>5. st \subseteq {i \in Slots : al[i].size > 0}
    BY <2>2, <2>4 DEF AllocationsOK
  <2>6. \A i \in Slots : al[i].size > 0 /\ pds[al[i].pid] = NoPage => i \in st
    BY <1>8, <2>2, <2>3 DEF AllocationsOK
  <2> QED BY <2>1, <2>2, <2>5, <2>6 DEF AllocationsOK
<1>14. ASSUME ~stale_freed PROVE AreasOK(n, pds, memory_allocations, prog, st)
  <2>1. PICK al : al = memory_allocations
    OBVIOUS
  <2>2. AreasOK(m, phys_pd, al, program_pages, stale)
    BY <1>2, <1>14, <2>1
  <2>3. ASSUME NEW p \in Pid, pds[p] # NoPage
        PROVE  AreasMapped(n, pds[p], TRUE, HeldBy(al, st, p), CodeOf(prog, p), al)
    <3>1. p \in Process /\ p # pid /\ pds[p] = phys_pd[p] /\ phys_pd[p] \in D \ {pd}
      BY <1>8, <1>9, <1>10, <2>3, DirsFacts
    <3>2. HeldBy(al, st, p) = HeldBy(al, stale, p) /\ CodeOf(prog, p) = CodeOf(program_pages, p)
      BY <1>1, <1>12, <2>1, <3>1 DEF HeldBy, CodeOf
    <3>3. AreasMapped(m, phys_pd[p], TRUE, HeldBy(al, stale, p), CodeOf(program_pages, p), al)
      BY <2>2, <2>3, <3>1 DEF AreasOK
    <3>4. \A q \in Region(TRUE) : Mapped(n, phys_pd[p], q) <=> Mapped(m, phys_pd[p], q)
      BY <1>5, <1>6, <3>1, RegionPages DEF Aside
    <3> QED BY <3>1, <3>2, <3>3, <3>4 DEF AreasMapped
  <2>4. AreasMapped(n, KernelPd, FALSE, Slots, {}, al)
    <3>1. AreasMapped(m, KernelPd, FALSE, Slots, {}, al)
      BY <2>2 DEF AreasOK
    <3>2. \A q \in Region(FALSE) : Mapped(n, KernelPd, q) <=> Mapped(m, KernelPd, q)
      BY <1>3, <1>5, <1>6, RegionPages DEF Aside
    <3> QED BY <3>1, <3>2 DEF AreasMapped
  <2> QED BY <2>1, <2>3, <2>4 DEF AreasOK
<1>15. n.panic = Running /\ Running # NotMapped
  BY <1>5, <1>6 DEF Running, NotMapped
<1> QED BY <1>7, <1>9, <1>11, <1>12, <1>13, <1>14, <1>15 DEF IInv, StateOK

\* A new directory, of which nothing is mapped behind the kernel's pages, gets code and a
\* stack: in its region of the user the code alone is mapped.
Loaded(m, n, D, pd, count) ==
    /\ MemoryOK(n, D \cup {pd}) /\ n.panic \in {Running, OutOfMemory}
    /\ n.panic = Running =>
          /\ \A d \in D, q \in Region(TRUE) : Mapped(n, d, q) <=> Mapped(m, d, q)
          /\ \A d \in D, q \in Region(FALSE) : Mapped(n, d, q) <=> Mapped(m, d, q)
          /\ \A q \in Region(TRUE) :
                Mapped(n, pd, q) <=> q \in (StackEnd * PeCount)..(StackEnd * PeCount + count - 1)

\* new_process() and its first thread do that.
LEMMA LoadedOK ==
    ASSUME SmallRam, NEW m, NEW built, NEW D, NEW pd, NewDirectory(m, built, D, pd), m.panic = Running,
           NEW count \in Nat \ {0}
    PROVE  \A first, loaded, n :
              /\ first = FindFreeVirtualPages(built, pd, count, TRUE) /\ first # NoPage
              /\ loaded = MapPages(built, pd, first, count)
              /\ n = Then(loaded, ResizeStack(loaded, pd, 0, 1))
              => Loaded(m, n, D, pd, count)
<1> TAKE first, loaded, n
<1>0. SUFFICES ASSUME first = FindFreeVirtualPages(built, pd, count, TRUE), first # NoPage,
                      loaded = MapPages(built, pd, first, count),
                      n = Then(loaded, ResizeStack(loaded, pd, 0, 1))
      PROVE  Loaded(m, n, D, pd, count)
  OBVIOUS
<1>1. PICK a, b, c, top, E : /\ a = KmemEnd * PeCount /\ b = StackEnd * PeCount /\ c = PeCount * PeCount
                             /\ top = StackTopPage(0) /\ E = D \cup {pd}
  OBVIOUS
<1>2. /\ MemoryOK(built, E) /\ built.panic = Running /\ pd \in E /\ pd \notin D
      /\ \A d \in D, q \in Addresses : Mapped(built, d, q) <=> Mapped(m, d, q)
      /\ \A q \in Addresses : q >= a => ~Mapped(built, pd, q)
  BY <1>1 DEF NewDirectory
<1>3. /\ a \in Nat /\ b \in Nat /\ c \in Nat /\ top \in Nat /\ a <= top /\ top + 2 <= b /\ b < c
      /\ Region(TRUE) = b..(c - 1) /\ 0 \in 0..(MaxStacks - 1)
  <2>1. 0 \in 0..(MaxStacks - 1)
    BY MemoryAssumption
  <2> QED BY <1>1, <2>1, StackTop, Regions
<1>4. /\ RunInRegion(first, count, TRUE) /\ \A j \in 0..(count - 1) : ~Mapped(built, pd, first + j)
      /\ \A page : RunInRegion(page, count, TRUE)
                   /\ (\A j \in 0..(count - 1) : ~Mapped(built, pd, page + j)) => first <= page
  BY <1>0, FindFreeOK, ZenonT(60)
<1>5. IsRun(first, count) /\ first \in Nat
  BY <1>4, RunsOfRegion
<1>6. first = b
  <2>0. PICK R : R = Region(TRUE)
    OBVIOUS
  <2>r. R = b..(c - 1) /\ first \in R /\ first + count - 1 \in R
    BY <1>3, <1>4, <2>0, Zenon DEF RunInRegion
  <2>1. first >= b /\ first + count - 1 <= c - 1
    BY <1>3, <2>r
  <2>2. RunInRegion(b, count, TRUE)
    <3>1. b \in R /\ b + count - 1 \in R
      BY <1>3, <1>5, <2>r, <2>1
    <3> QED BY <2>0, <3>1, Zenon DEF RunInRegion
  <2>3. ASSUME NEW j \in 0..(count - 1) PROVE ~Mapped(built, pd, b + j)
    <3>1. b + j \in R /\ b + j >= a
      BY <1>3, <1>5, <2>r, <2>1
    <3>2. b + j \in Addresses
      BY <2>0, <3>1, Regions
    <3> QED BY <1>2, <3>1, <3>2
  <2>4. first <= b
    BY <1>4, <2>2, <2>3
  <2> QED BY <1>3, <1>5, <2>1, <2>4
<1>7. MapResult(built, loaded, E, pd, first, count)
  BY <1>0, <1>2, <1>4, <1>5, MapPagesOK
<1>8. CASE loaded.panic # Running
  BY <1>0, <1>1, <1>7, <1>8 DEF Then, MapResult, Loaded
<1>9. CASE loaded.panic = Running
  <2>1. n = ResizeStack(loaded, pd, 0, 1) /\ MemoryOK(loaded, E)
    BY <1>0, <1>7, <1>9 DEF Then, MapResult
  <2>2. /\ MemoryOK(n, E) /\ n.panic \in {Running, OutOfMemory}
        /\ n.panic = Running =>
              \E g : \E left \in Nat :
                 /\ MapResult(loaded, g, E, pd, top, 1) /\ g.panic = Running
                 /\ \A j \in 0..(left - 1) : Mapped(g, pd, top + 1 + j)
                 /\ IsRun(top + 1, left)
                 /\ UnmapResult(g, n, E, pd, top + 1, left)
    BY <1>1, <1>2, <1>3, <1>9, <2>1, ResizeStackOK
  <2>3. ASSUME n.panic = Running
        PROVE  \A d \in E, q \in Region(TRUE) \cup Region(FALSE) : Mapped(n, d, q) <=> Mapped(loaded, d, q)
    <3>1. PICK g : \E left \in Nat :
                 /\ MapResult(loaded, g, E, pd, top, 1) /\ g.panic = Running
                 /\ \A j \in 0..(left - 1) : Mapped(g, pd, top + 1 + j)
                 /\ UnmapResult(g, n, E, pd, top + 1, left)
      BY <2>2, <2>3
    <3>2. PICK left \in Nat :
                 /\ MapResult(loaded, g, E, pd, top, 1) /\ g.panic = Running
                 /\ \A j \in 0..(left - 1) : Mapped(g, pd, top + 1 + j)
                 /\ UnmapResult(g, n, E, pd, top + 1, left)
      BY <3>1
    <3>3. \A d \in E, q \in Addresses : Mapped(g, d, q) <=> Mapped(loaded, d, q) \/ InRun(pd, top, 1, d, q)
      BY <3>2 DEF MapResult
    <3>4. ~Mapped(g, pd, top + 1)
      <4>1. top + 1 \in Addresses /\ top + 1 >= a
        BY <1>1, <1>3 DEF Addresses
      <4>2. ~InRun(pd, top, 1, pd, top + 1) /\ ~InRun(pd, first, count, pd, top + 1)
        <5>1. top + 1 \notin top..(top + 1 - 1) /\ top + 1 \notin first..(first + count - 1)
          BY <1>3, <1>5, <1>6
        <5> QED BY <5>1 DEF InRun
      <4>3. ~Mapped(loaded, pd, top + 1)
        BY <1>2, <1>7, <1>9, <4>1, <4>2 DEF MapResult
      <4> QED BY <1>2, <3>3, <4>1, <4>2, <4>3
    <3>5. left = 0
      <4>1. ASSUME left # 0 PROVE FALSE
        <5>1. 0 \in 0..(left - 1) /\ top + 1 + 0 = top + 1
          BY <1>3, <4>1
        <5> QED BY <3>2, <3>4, <5>1
      <4> QED BY <4>1
    <3>6. \A d \in E, q \in Addresses : Mapped(n, d, q) <=> Mapped(g, d, q)
      <4>1. top + 1 \in Nat
        BY <1>3
      <4> QED BY <2>3, <3>2, <3>5, <4>1, EmptyRun DEF UnmapResult
    <3>7. \A d \in E : \A q \in Region(TRUE) : ~InRun(pd, top, 1, d, q)
      <4>1. ASSUME NEW q \in Region(TRUE) PROVE q \notin top..(top + 1 - 1)
        <5>1. q \in Nat /\ q >= b
          BY <1>1, <4>1, RegionPages
        <5> QED BY <1>3, <5>1
      <4> QED BY <4>1, RunInRegions
    <3>8. \A d \in E : \A q \in Region(FALSE) : ~InRun(pd, top, 1, d, q)
      <4>1. ASSUME NEW q \in Region(FALSE) PROVE q \notin top..(top + 1 - 1)
        <5>1. q \in Nat /\ q < a
          BY <1>1, <4>1, RegionPages
        <5> QED BY <1>3, <5>1
      <4> QED BY <4>1, RunInRegions
    <3> QED BY <3>3, <3>6, <3>7, <3>8, RegionPages
  <2>4. ASSUME n.panic = Running
        PROVE  /\ \A d \in D, q \in Region(TRUE) : Mapped(n, d, q) <=> Mapped(m, d, q)
               /\ \A d \in D, q \in Region(FALSE) : Mapped(n, d, q) <=> Mapped(m, d, q)
               /\ \A q \in Region(TRUE) : Mapped(n, pd, q) <=> q \in b..(b + count - 1)
    <3>1. \A d \in E, q \in Addresses :
             Mapped(loaded, d, q) <=> Mapped(built, d, q) \/ InRun(pd, first, count, d, q)
      BY <1>7, <1>9 DEF MapResult
    <3>2. \A d \in D : \A q \in Region(TRUE) : ~InRun(pd, first, count, d, q)
      <4>1. \A d \in D : d # pd
        BY <1>2
      <4> QED BY <4>1, RunInRegions, ZenonT(60)
    <3>3. \A d \in D : \A q \in Region(FALSE) : ~InRun(pd, first, count, d, q)
      <4>1. ASSUME NEW q \in Region(FALSE) PROVE q \notin first..(first + count - 1)
        <5>1. q \in Nat /\ q < a
          BY <1>1, <4>1, RegionPages
        <5> QED BY <1>3, <1>5, <1>6, <5>1
      <4> QED BY <4>1, RunInRegions, Zenon
    <3>4. \A q \in Region(TRUE) : InRun(pd, first, count, pd, q) <=> q \in b..(b + count - 1)
      BY <1>6, RunInRegions, Zenon
    <3>5. \A q \in Region(TRUE) : ~Mapped(built, pd, q)
      BY <1>1, <1>2, RegionPages
    <3>6. \A d \in D : d \in E
      BY <1>1
    <3> QED BY <1>2, <2>3, <2>4, <3>1, <3>2, <3>3, <3>4, <3>5, <3>6, RegionPages
  <2> QED BY <1>1, <2>2, <2>4 DEF Loaded
<1> QED BY <1>8, <1>9

\* The alternatives of NewProcess: no page for the directory; no code, or no place for it;
\* a process.
LEMMA NewProcessStep ==
    ASSUME SmallRam, IInv, NEW pid \in Pid, NEW count \in CodePages, NewProcess(pid, count)
    PROVE  IInv'
<1>1. PICK m, pd, built, first, loaded, n, D, al :
         /\ m = memory /\ pd = FirstFound(ram) /\ built = BuildNewPagedir(m)
         /\ first = FindFreeVirtualPages(built, pd, count, TRUE)
         /\ loaded = MapPages(built, pd, first, count)
         /\ n = Then(loaded, ResizeStack(loaded, pd, 0, 1))
         /\ D = Dirs(phys_pd) /\ al = memory_allocations
  OBVIOUS
<1>2. /\ MemoryOK(m, D) /\ ProcessesOK(phys_pd) /\ AllocationsOK(al, phys_pd, stale)
      /\ ~stale_freed => AreasOK(m, phys_pd, al, program_pages, stale)
      /\ m.panic = Running /\ phys_pd[pid] = NoPage /\ program_pages \in [Process -> Nat] /\ m.ram = ram
  BY <1>1 DEF IInv, StateOK, NewProcess, memory
<1>3. pid \in Process /\ pid # 0 /\ count \in Nat /\ \A p \in Pid : p \in Process
  BY <1>2, DirsFacts, MemoryAssumption
<1>4. /\ OutOfMemory # NotMapped /\ Running # NotMapped /\ OutOfMemory # Running
      /\ UNCHANGED <<memory_allocations, kernel_threads, stale, stale_freed>>
      /\ stale_freed \in BOOLEAN
  BY DEF OutOfMemory, NotMapped, Running, NewProcess, IInv, StateOK
<1>5. CASE ~CanAlloc(ram) /\ Becomes(Panic(m, OutOfMemory)) /\ UNCHANGED <<phys_pd, program_pages>>
  <2>1. PICK p : p = Panic(m, OutOfMemory)
    OBVIOUS
  <2>2. MemoryOK(p, D) /\ p.panic = OutOfMemory /\ Becomes(p)
    BY <1>2, <1>5, <2>1, PanicOK
  <2> QED BY <1>1, <1>2, <1>4, <1>5, <2>2, AreaStep
<1>6. ASSUME CanAlloc(ram)
      PROVE  NewDirectory(m, built, D, pd)
  BY <1>1, <1>2, <1>6, BuildNewPagedirOK
<1>7. CASE CanAlloc(ram) /\ Becomes(FreePagedir(built, pd)) /\ UNCHANGED <<phys_pd, program_pages>>
  <2>1. PICK p, E : p = FreePagedir(built, pd) /\ E = D \cup {pd}
    OBVIOUS
  <2>2. /\ MemoryOK(built, E) /\ built.panic = Running /\ pd \in E /\ pd # KernelPd /\ E \ {pd} = D
        /\ \A d \in D, q \in Addresses : Mapped(built, d, q) <=> Mapped(m, d, q)
    <3>1. NewDirectory(m, built, D, pd)
      BY <1>6, <1>7
    <3> QED BY <1>2, <2>1, <3>1, KernelTables DEF NewDirectory
  <2>3. /\ MemoryOK(p, D) /\ p.panic = Running
        /\ \A d \in D, q \in Addresses : Mapped(p, d, q) <=> Mapped(built, d, q)
    <3>1. /\ MemoryOK(p, E \ {pd}) /\ p.panic = built.panic
          /\ \A d \in E \ {pd}, q \in Addresses : Mapped(p, d, q) <=> Mapped(built, d, q)
      BY <2>1, <2>2, FreePagedirOK
    <3> QED BY <2>2, <3>1
  <2>5. ~stale_freed => AreasOK(p, phys_pd, al, program_pages, stale)
    <3>1. ASSUME ~stale_freed PROVE AreasOK(p, phys_pd, al, program_pages, stale)
      <4>1. AreasOK(m, phys_pd, al, program_pages, stale)
        BY <1>2, <3>1
      <4>2. ASSUME NEW q \in Pid, phys_pd[q] # NoPage
            PROVE  AreasMapped(p, phys_pd[q], TRUE, HeldBy(al, stale, q), CodeOf(program_pages, q), al)
        <5>1. phys_pd[q] \in D
          BY <1>1, <1>2, <1>3, <4>2, DirsFacts
        <5>2. \A r \in Region(TRUE) : Mapped(p, phys_pd[q], r) <=> Mapped(m, phys_pd[q], r)
          BY <2>2, <2>3, <5>1, RegionPages
        <5>3. AreasMapped(m, phys_pd[q], TRUE, HeldBy(al, stale, q), CodeOf(program_pages, q), al)
          BY <4>1, <4>2 DEF AreasOK
        <5> QED BY <5>2, <5>3 DEF AreasMapped
      <4>3. AreasMapped(p, KernelPd, FALSE, Slots, {}, al)
        <5>1. KernelPd \in D
          BY <1>1, <1>2, DirsFacts
        <5>2. \A r \in Region(FALSE) : Mapped(p, KernelPd, r) <=> Mapped(m, KernelPd, r)
          BY <2>2, <2>3, <5>1, RegionPages
        <5>3. AreasMapped(m, KernelPd, FALSE, Slots, {}, al)
          BY <4>1 DEF AreasOK
        <5> QED BY <5>2, <5>3 DEF AreasMapped
      <4> QED BY <4>2, <4>3 DEF AreasOK
    <3> QED BY <3>1
  <2>6. Becomes(p) /\ UNCHANGED <<phys_pd, kernel_threads, program_pages>>
    BY <1>4, <1>7, <2>1
  <2> QED BY <1>1, <1>2, <1>4, <2>3, <2>5, <2>6, AreaStep
<1>8. CASE /\ CanAlloc(ram) /\ count # 0 /\ first # NoPage /\ Becomes(n)
           /\ phys_pd' = [phys_pd EXCEPT ![pid] = pd]
           /\ program_pages' = [program_pages EXCEPT ![pid] = count]
  <2>1. PICK pds, prog : pds = [phys_pd EXCEPT ![pid] = pd] /\ prog = [program_pages EXCEPT ![pid] = count]
    OBVIOUS
  <2>2. NewDirectory(m, built, D, pd)
    BY <1>6, <1>8
  <2>3. Loaded(m, n, D, pd, count)
    <3>1. count \in Nat \ {0}
      BY <1>3, <1>8
    <3> QED BY <1>1, <1>2, <1>8, <2>2, <3>1, LoadedOK
  <2>4. pd \in Pages \ D /\ pd \in Nat /\ pd # NoPage
    BY <2>2, PagesFacts DEF NewDirectory
  <2>5. /\ pds \in [Process -> Nat] /\ pds[pid] = pd /\ \A p \in Process : p # pid => pds[p] = phys_pd[p]
        /\ prog \in [Process -> Nat] /\ prog[pid] = count
        /\ \A p \in Process : p # pid => prog[p] = program_pages[p]
    <3>1. phys_pd \in [Process -> Nat]
      BY <1>2 DEF ProcessesOK
    <3> QED BY <1>2, <1>3, <2>1, <2>4, <3>1
  <2>6. \A p \in Process : phys_pd[p] # pd
    BY <1>1, <1>2, <2>4, DirsFacts
  <2>7. ProcessesOK(pds)
    <3>1. 0 \in Process /\ pds[0] = KernelPd
      BY <1>2, <1>3, <2>5, DirsFacts DEF ProcessesOK
    <3>2. \A p, q \in Process : pds[p] = pds[q] /\ pds[p] # NoPage => p = q
      BY <1>2, <2>5, <2>6 DEF ProcessesOK
    <3> QED BY <2>5, <3>1, <3>2 DEF ProcessesOK
  <2>8. Dirs(pds) = D \cup {pd}
    <3>1. ASSUME NEW d \in Dirs(pds) PROVE d \in D \cup {pd}
      <4>1. PICK p \in Process : d = pds[p] /\ d # NoPage
        BY DEF Dirs
      <4> QED BY <1>1, <1>2, <2>5, <4>1, DirsFacts
    <3>2. ASSUME NEW d \in D PROVE d \in Dirs(pds)
      <4>1. PICK p \in Process : d = phys_pd[p] /\ d # NoPage
        BY <1>1 DEF Dirs
      <4>2. p # pid
        BY <1>2, <4>1
      <4> QED BY <2>5, <4>1, <4>2 DEF Dirs
    <3>3. pd \in Dirs(pds)
      BY <1>3, <2>4, <2>5 DEF Dirs
    <3> QED BY <3>1, <3>2, <3>3
  <2>9. /\ MemoryOK(n, Dirs(pds)) /\ n.panic \in {Running, OutOfMemory} /\ memory' = n
    BY <1>8, <2>3, <2>8, MemoryBecomes DEF Loaded
  <2>10. AllocationsOK(al, pds, stale)
    <3>1. \A i \in Slots : al[i].pid \in Process
      BY <1>2 DEF AllocationsOK
    <3>2. \A p \in Process : pds[p] = NoPage => phys_pd[p] = NoPage
      BY <2>4, <2>5
    <3> QED BY <1>2, <3>1, <3>2 DEF AllocationsOK
  <2>11. ASSUME n.panic = Running, ~stale_freed PROVE AreasOK(n, pds, al, prog, stale)
    <3>1. AreasOK(m, phys_pd, al, program_pages, stale)
      BY <1>2, <2>11
    <3>2. /\ \A d \in D, q \in Region(TRUE) : Mapped(n, d, q) <=> Mapped(m, d, q)
          /\ \A d \in D, q \in Region(FALSE) : Mapped(n, d, q) <=> Mapped(m, d, q)
          /\ \A q \in Region(TRUE) :
                Mapped(n, pd, q) <=> q \in (StackEnd * PeCount)..(StackEnd * PeCount + count - 1)
      BY <2>3, <2>11 DEF Loaded
    <3>3. ASSUME NEW p \in Pid, pds[p] # NoPage
          PROVE  AreasMapped(n, pds[p], TRUE, HeldBy(al, stale, p), CodeOf(prog, p), al)
      <4>1. CASE p = pid
        <5>1. \A i \in Slots : \A q : ~InArea(HeldBy(al, stale, pid), al, i, q)
          BY <1>2 DEF InArea, HeldBy, AllocationsOK
        <5>2. \A q \in Region(TRUE) : Mapped(n, pd, q) <=> q \in CodeOf(prog, pid)
          BY <1>3, <2>5, <3>2 DEF CodeOf
        <5>3. AreasMapped(n, pd, TRUE, HeldBy(al, stale, pid), CodeOf(prog, pid), al)
          BY <5>1, <5>2 DEF AreasMapped
        <5> QED BY <1>3, <2>5, <4>1, <5>3
      <4>2. CASE p # pid
        <5>1. pds[p] = phys_pd[p] /\ phys_pd[p] \in D /\ prog[p] = program_pages[p]
          BY <1>1, <1>2, <1>3, <2>5, <3>3, <4>2, DirsFacts
        <5>2. AreasMapped(m, phys_pd[p], TRUE, HeldBy(al, stale, p), CodeOf(program_pages, p), al)
          BY <3>1, <3>3, <5>1 DEF AreasOK
        <5>3. CodeOf(prog, p) = CodeOf(program_pages, p)
          BY <5>1 DEF CodeOf
        <5>4. \A q \in Region(TRUE) : Mapped(n, phys_pd[p], q) <=> Mapped(m, phys_pd[p], q)
          BY <3>2, <5>1
        <5> QED BY <5>1, <5>2, <5>3, <5>4 DEF AreasMapped
      <4> QED BY <4>1, <4>2
    <3>4. AreasMapped(n, KernelPd, FALSE, Slots, {}, al)
      <4>1. AreasMapped(m, KernelPd, FALSE, Slots, {}, al) /\ KernelPd \in D
        BY <1>1, <1>2, <3>1, DirsFacts DEF AreasOK
      <4> QED BY <3>2, <4>1 DEF AreasMapped
    <3> QED BY <3>3, <3>4 DEF AreasOK
  <2>12. phys_pd' = pds /\ program_pages' = prog /\ kernel_threads \in 0..MaxKernelThreads
    BY <1>8, <2>1 DEF IInv, StateOK
  <2> QED BY <1>1, <1>4, <2>5, <2>7, <2>9, <2>10, <2>11, <2>12 DEF IInv, StateOK
<1> QED BY <1>1, <1>5, <1>7, <1>8, Zenon DEF NewProcess

\* All of them.
LEMMA InvariantStep ==
    ASSUME SmallRam, IInv, [Next]_vars
    PROVE  IInv'
<1>1. Pid \subseteq Process /\ {0} \cup Pid = Process
  BY DEF Process
<1>2. CASE KernelThread
  BY <1>2, KernelThreadStep
<1>3. ASSUME NEW pid \in Pid, NEW count \in CodePages, NewProcess(pid, count) PROVE IInv'
  BY <1>3, NewProcessStep
<1>4. ASSUME NEW pid \in Pid, EndProcess(pid) PROVE IInv'
  BY <1>4, EndProcessStep
<1>5. ASSUME NEW pid \in Process, NEW count \in AreaPages, NEW user \in BOOLEAN, Sysmalloc(pid, count, user)
      PROVE  IInv'
  BY <1>5, SysmallocStep
<1>6. ASSUME NEW pid \in Process, NEW i \in Slots, Sysfree(pid, i) PROVE IInv'
  BY <1>6, SysfreeStep
<1>7. ASSUME NEW pid \in Process, NEW i \in Slots, NEW count \in AreaPages, Sysrealloc(pid, i, count)
      PROVE  IInv'
  BY <1>7, SysreallocStep
<1>8. CASE UNCHANGED vars
  BY <1>8, StutterStep
<1> QED BY <1>1, <1>2, <1>3, <1>4, <1>5, <1>6, <1>7, <1>8, Zenon DEF Next, Call

\* memory_init() leaves the pages behind the kernel's free.
LEMMA InitialRamOK ==
    RamOK(InitialRam) /\ \A page \in Pages : page \notin InitialRam.set
<1>1. PICK zeroEnd, rest : zeroEnd = (RamPages \div WordBits) * WordBits /\ rest = RamPages % WordBits
  OBVIOUS
<1>2. /\ zeroEnd \in Nat /\ rest \in Nat /\ rest < WordBits /\ RamPages = zeroEnd + rest
      /\ zeroEnd > KernelPages
  BY <1>1, PagesAssumption
<1>3. InitialSet = {b \in Bits : IF rest # 0 /\ b \in zeroEnd..(zeroEnd + WordBits - 1) THEN b >= RamPages
                               ELSE b \notin KernelPages..(zeroEnd - 1) /\ b - Gap \notin KernelPages..(zeroEnd - 1)}
  BY <1>1 DEF InitialSet
<1>4. ASSUME NEW b \in 0..(KernelPages - 1) PROVE b \in InitialSet
  <2>1. b \in Bits /\ b < KernelPages /\ b \in Nat /\ b - Gap < KernelPages /\ b - Gap \in Int
    BY <1>4, PagesAssumption DEF Bits
  <2>2. b \notin zeroEnd..(zeroEnd + WordBits - 1) /\ b \notin KernelPages..(zeroEnd - 1)
        /\ b - Gap \notin KernelPages..(zeroEnd - 1)
    BY <1>2, <2>1, PagesAssumption
  <2> QED BY <1>3, <2>1, <2>2
<1>5. ASSUME NEW b \in Pages PROVE b \notin InitialSet
  <2>1. b \in Nat /\ b >= KernelPages /\ b < RamPages
    BY <1>5, PagesAssumption DEF Pages
  <2>2. CASE b < zeroEnd
    <3>1. b \in KernelPages..(zeroEnd - 1) /\ b \notin zeroEnd..(zeroEnd + WordBits - 1)
      BY <1>2, <2>1, <2>2, PagesAssumption
    <3> QED BY <1>3, <3>1
  <2>3. CASE ~(b < zeroEnd)
    <3>1. rest # 0 /\ b \in zeroEnd..(zeroEnd + WordBits - 1) /\ ~(b >= RamPages)
      BY <1>2, <2>1, <2>3, PagesAssumption
    <3> QED BY <1>3, <3>1
  <2> QED BY <2>2, <2>3
<1>6. Cardinality(Pages) = RamPages - KernelPages /\ RamPages - KernelPages \in Nat
  <2>1. KernelPages \in Int /\ RamPages - 1 \in Int /\ KernelPages <= RamPages - 1
    BY PagesAssumption
  <2>2. Cardinality(KernelPages..(RamPages - 1)) = (RamPages - 1) - KernelPages + 1
    BY <2>1, FS_Interval
  <2> QED BY <2>1, <2>2, PagesAssumption DEF Pages
<1>7. /\ InitialRam = [set |-> InitialSet, ram_pages_free |-> RamPages - KernelPages, first |-> 0]
      /\ InitialSet \subseteq Bits /\ Pages \ InitialSet = Pages
  BY <1>5 DEF InitialRam, InitialSet
<1>8. \A page \in Pages : 0 * WordBits <= page
  BY PagesFacts, PagesAssumption
<1>9. RamOK(InitialRam)
  BY <1>4, <1>6, <1>7, <1>8 DEF RamOK
<1> QED BY <1>5, <1>7, <1>9

\* The kernel's directory and tables when it starts: only its image is mapped.
LEMMA InitialTables ==
    ASSUME Init
    PROVE  /\ MemoryOK(memory, {KernelPd})
           /\ \A q \in Region(FALSE) : ~Mapped(memory, KernelPd, q)
<1>1. PICK e : e = entries
  OBVIOUS
<1>2. e = [t \in {KernelPd} \cup {KernelPt(i) : i \in 0..(KmemEnd - 1)} |->
                    [i \in Entries |->
                        IF t = KernelPd /\ i < KmemEnd THEN KernelPt(i)
                        ELSE IF t = KernelPt(0) /\ i < KernelPages THEN i
                        ELSE NoPage]]
  BY <1>1 DEF Init
<1>3. /\ \A i \in 0..(KmemEnd - 1) : /\ KernelPt(i) # KernelPd /\ KernelPt(i) \in 1..(RamPages - 1)
                                     /\ KernelPt(i) \notin Pages
      /\ KernelPd \in 1..(RamPages - 1) /\ NoPage \notin Pages /\ KernelPd \notin Pages
      /\ NoPage \in 0..(RamPages - 1)
      /\ \A i \in Entries : i < KernelPages => i \in 0..(RamPages - 1) /\ i \notin Pages
      /\ \A i \in KmemEnd..(PeCount - 1) : i \in Entries /\ ~(i < KmemEnd)
      /\ \A i \in 0..(KmemEnd - 1) : i \in Entries /\ i < KmemEnd
      /\ \A i \in Entries : i < KmemEnd => i \in 0..(KmemEnd - 1)
  BY MemoryAssumption, PagesAssumption DEF KernelPt, KernelPd, Pages, NoPage, Entries
<1>4. /\ DOMAIN e = {KernelPd} \cup {KernelPt(i) : i \in 0..(KmemEnd - 1)}
      /\ \A t \in DOMAIN e : \A i \in Entries :
           e[t][i] = IF t = KernelPd /\ i < KmemEnd THEN KernelPt(i)
                     ELSE IF t = KernelPt(0) /\ i < KernelPages THEN i ELSE NoPage
  BY <1>2
<1>5. KernelPd # KernelPt(0)
  BY <1>3, KernelTables
<1>6. \A t \in DOMAIN e : \A i \in Entries : e[t][i] \in 0..(RamPages - 1) /\ e[t][i] \notin Pages
  <2>1. ASSUME NEW t \in DOMAIN e, NEW i \in Entries
        PROVE  e[t][i] \in 0..(RamPages - 1) /\ e[t][i] \notin Pages
    <3>1. CASE t = KernelPd /\ i < KmemEnd
      <4>1. e[t][i] = KernelPt(i) /\ i \in 0..(KmemEnd - 1)
        BY <1>3, <1>4, <3>1
      <4>2. KernelPt(i) \in 1..(RamPages - 1) /\ KernelPt(i) \notin Pages
        BY <1>3, <4>1
      <4> QED BY <4>1, <4>2, PagesAssumption
    <3>2. CASE ~(t = KernelPd /\ i < KmemEnd)
      BY <1>3, <1>4, <3>2
    <3> QED BY <3>1, <3>2
  <2> QED BY <2>1
<1>7. TablesOK(e, {KernelPd})
  <2>1. \A t \in DOMAIN e : e[t] \in [Entries -> 0..(RamPages - 1)]
    <3>1. \A t \in DOMAIN e : e[t] = [i \in Entries |-> e[t][i]]
      BY <1>2
    <3> QED BY <1>6, <3>1
  <2>2. DOMAIN e \subseteq 1..(RamPages - 1)
    BY <1>3, <1>4
  <2>3. \A i \in 0..(KmemEnd - 1) : e[KernelPd][i] = KernelPt(i) /\ KernelPt(i) \in (DOMAIN e) \ {KernelPd}
    BY <1>3, <1>4
  <2>4. \A i \in KmemEnd..(PeCount - 1) : e[KernelPd][i] = NoPage
    BY <1>3, <1>4, <1>5
  <2>5. \A t \in (DOMAIN e) \ {KernelPd}, i \in Entries : t # KernelPt(0) => e[t][i] = NoPage
    BY <1>4
  <2>6. KernelPd \in DOMAIN e
    BY <1>4
  <2> QED BY <1>6, <2>1, <2>2, <2>3, <2>4, <2>5, <2>6 DEF TablesOK
<1>8. memory = [ram |-> InitialRam, entries |-> e, panic |-> Running]
  BY <1>1 DEF memory, Init
<1>9. OwnersOK(memory, {KernelPd})
  <2>1. memory.entries = e /\ memory.ram = InitialRam
    BY <1>8
  <2>2. (DOMAIN e) \cap Pages = {}
    BY <1>3, <1>4
  <2> QED BY <1>3, <1>6, <2>1, <2>2, InitialRamOK DEF OwnersOK
<1>10. MemoryOK(memory, {KernelPd})
  BY <1>7, <1>8, <1>9, InitialRamOK DEF MemoryOK
<1>11. ASSUME NEW q \in Region(FALSE) PROVE ~Mapped(memory, KernelPd, q)
  <2>1. q \in Addresses /\ q < KmemEnd * PeCount /\ q >= PeCount
    <3>1. Region(FALSE) = PeCount..(KmemEnd * PeCount - 1) /\ KmemEnd * PeCount \in Nat /\ PeCount \in Nat
      BY Regions
    <3>2. q \in PeCount..(KmemEnd * PeCount - 1)
      BY <3>1
    <3>3. q >= PeCount
      BY <3>1, <3>2
    <3> QED BY <3>3, RegionPages
  <2>2. PICK k : k = Pde(q)
    OBVIOUS
  <2>3. k \in 0..(KmemEnd - 1) /\ TableOf(memory, KernelPd, q) = KernelPt(k) /\ KernelPt(k) # KernelPt(0)
        /\ Pte(q) \in Entries
    BY <1>10, <2>1, <2>2, TableOfPage
  <2>4. e[KernelPt(k)][Pte(q)] = NoPage
    BY <1>3, <1>4, <2>3
  <2> QED BY <1>8, <2>3, <2>4 DEF Mapped, Mapping
<1> QED BY <1>10, <1>11

\* It begins so.
LEMMA InvariantInit ==
    ASSUME Init
    PROVE  IInv
<1>1. MemoryOK(memory, {KernelPd}) /\ \A q \in Region(FALSE) : ~Mapped(memory, KernelPd, q)
  BY InitialTables
<1>2. /\ phys_pd = [p \in Process |-> IF p = 0 THEN KernelPd ELSE NoPage]
      /\ memory_allocations = [i \in Slots |-> NoArea]
      /\ kernel_threads = 0 /\ program_pages = [p \in Process |-> 0]
      /\ stale = {} /\ stale_freed = FALSE /\ memory.panic = Running
  BY DEF Init, memory
<1>3. KernelPd \in Nat /\ NoPage \in Nat /\ KernelPd # NoPage /\ 0 \in Process /\ 0 \notin Pid
  BY MemoryAssumption DEF KernelPd, NoPage, Process
<1>4. ProcessesOK(phys_pd) /\ Dirs(phys_pd) = {KernelPd}
  BY <1>2, <1>3 DEF ProcessesOK, Dirs
<1>5. NoArea \in [size : Nat, pid : Process, virt_addr : Nat] /\ NoArea.size = 0 /\ AreaOf(NoArea) = {}
  BY <1>3 DEF NoArea, AreaOf
<1>6. AllocationsOK(memory_allocations, phys_pd, stale)
  BY <1>2, <1>5 DEF AllocationsOK
<1>7. AreasOK(memory, phys_pd, memory_allocations, program_pages, stale)
  <2>1. \A p \in Pid : phys_pd[p] = NoPage
    BY <1>2, <1>3 DEF Process
  <2>2. AreasMapped(memory, KernelPd, FALSE, Slots, {}, memory_allocations)
    BY <1>1, <1>2, <1>5 DEF AreasMapped, InArea
  <2> QED BY <2>1, <2>2 DEF AreasOK
<1>8. kernel_threads \in 0..MaxKernelThreads /\ program_pages \in [Process -> Nat] /\ Running # NotMapped
  BY <1>2, MemoryAssumption DEF Running, NotMapped
<1> QED BY <1>1, <1>2, <1>4, <1>6, <1>7, <1>8 DEF IInv, StateOK

-----------------------------------------------------------------------------
(* What follows from it.                                                   *)

\* The invariant holds of the specification.
THEOREM MemoryInvariant == ASSUME SmallRam PROVE Spec => []IInv
<1>1. Init => IInv
  BY InvariantInit
<1>2. IInv /\ [Next]_vars => IInv'
  BY InvariantStep
<1> QED BY <1>1, <1>2, PTL DEF Spec

\* Whichever process runs, the kernel sees the same pages: no directory, however it was
\* built, mapped into, resized or freed, has another table below KmemEnd.
THEOREM TablesAreShared == ASSUME SmallRam PROVE Spec => []KernelIsShared
<1>1. ASSUME IInv PROVE KernelIsShared
  <2>1. MemoryOK(memory, Dirs(phys_pd)) /\ ProcessesOK(phys_pd)
    BY <1>1 DEF IInv, StateOK
  <2>2. TablesOK(entries, Dirs(phys_pd))
    BY <2>1 DEF MemoryOK, memory
  <2>3. \A p \in Process : phys_pd[p] # NoPage => phys_pd[p] \in Dirs(phys_pd)
    BY <2>1, DirsFacts
  <2> QED BY <2>2, <2>3 DEF TablesOK, KernelIsShared
<1> QED BY <1>1, MemoryInvariant, PTL

\* A set without two different elements has one or none.
LEMMA OneOrNone ==
    ASSUME NEW S, \A x, y \in S : x = y
    PROVE  Cardinality(S) = IF S # {} THEN 1 ELSE 0
<1>1. CASE S = {}
  BY <1>1, FS_EmptySet
<1>2. CASE S # {}
  <2>1. PICK x \in S : S = {x}
    BY <1>2
  <2> QED BY <1>2, <2>1, FS_Singleton
<1> QED BY <1>1, <1>2

\* A page that is a directory is in no entry.
LEMMA DirectoryIsNoEntry ==
    ASSUME NEW m, NEW D, MemoryOK(m, D), NEW page \in Pages, page \in D,
           NEW t \in DOMAIN m.entries, NEW i \in Entries
    PROVE  m.entries[t][i] # page
<1>1. TablesOK(m.entries, D)
  BY DEF MemoryOK
<1>2. CASE t \in D
  <2>1. CASE i \in 0..(KmemEnd - 1)
    BY <1>1, <1>2, <2>1, KernelTables DEF TablesOK
  <2>2. CASE i \in KmemEnd..(PeCount - 1)
    BY <1>1, <1>2, <2>2, PagesFacts DEF TablesOK
  <2> QED BY <2>1, <2>2, KernelTables
<1>3. CASE t \notin D
  BY <1>1, <1>3, PagesFacts DEF TablesOK
<1> QED BY <1>2, <1>3

\* No physical page is shared by two owners, lost or used when it is free, however mapping,
\* unmapping, new and ended processes and the areas of malloc() alternate.
THEOREM PagesAreOwned == ASSUME SmallRam PROVE Spec => []PagesHaveOneOwner
<1>1. ASSUME IInv PROVE PagesHaveOneOwner
  <2>1. PICK m, D : m = memory /\ D = Dirs(phys_pd)
    OBVIOUS
  <2>2. MemoryOK(m, D) /\ ProcessesOK(phys_pd) /\ m.entries = entries /\ m.ram = ram
    BY <1>1, <2>1 DEF IInv, StateOK, memory
  <2>3. ASSUME NEW page \in Pages
        PROVE  Cardinality({p \in Process : phys_pd[p] = page}
                     \cup {e \in (DOMAIN entries) \X Entries : entries[e[1]][e[2]] = page})
                  = IF page \in ram.set THEN 1 ELSE 0
    <3>1. PICK P, E : /\ P = {p \in Process : phys_pd[p] = page}
                      /\ E = {e \in (DOMAIN entries) \X Entries : entries[e[1]][e[2]] = page}
      OBVIOUS
    <3>2. page # NoPage
      BY PagesFacts
    <3>3. P # {} <=> page \in D
      BY <2>1, <3>1, <3>2 DEF Dirs
    <3>4. E # {} <=> \E t \in DOMAIN entries, i \in Entries : entries[t][i] = page
      <4>1. ASSUME NEW t \in DOMAIN entries, NEW i \in Entries, entries[t][i] = page PROVE <<t, i>> \in E
        BY <3>1, <4>1
      <4> QED BY <3>1, <4>1, ZenonT(60)
    <3>5. page \in ram.set <=> P \cup E # {}
      BY <2>2, <3>3, <3>4 DEF MemoryOK, OwnersOK
    <3>6. \A p, q \in P : p = q
      BY <2>2, <3>1, <3>2 DEF ProcessesOK
    <3>7. ASSUME NEW e \in E, NEW f \in E PROVE e = f
      <4>1. /\ e[1] \in DOMAIN entries /\ f[1] \in DOMAIN entries /\ e[2] \in Entries /\ f[2] \in Entries
            /\ entries[e[1]][e[2]] = page /\ entries[f[1]][f[2]] = page
            /\ e = <<e[1], e[2]>> /\ f = <<f[1], f[2]>>
        BY <3>1
      <4>2. e[1] = f[1] /\ e[2] = f[2]
        BY <2>2, <4>1 DEF MemoryOK, OwnersOK
      <4> QED BY <4>1, <4>2
    <3>8. P = {} \/ E = {}
      BY <2>2, <3>3, <3>4, DirectoryIsNoEntry
    <3>9. \A x, y \in P \cup E : x = y
      BY <3>6, <3>7, <3>8
    <3>10. Cardinality(P \cup E) = IF P \cup E # {} THEN 1 ELSE 0
      BY <3>9, OneOrNone
    <3>11. CASE page \in ram.set
      BY <3>1, <3>5, <3>10, <3>11
    <3>12. CASE page \notin ram.set
      BY <3>1, <3>5, <3>10, <3>12
    <3> QED BY <3>11, <3>12
  <2> QED BY <2>3 DEF PagesHaveOneOwner
<1> QED BY <1>1, MemoryInvariant, PTL

\* A process that frees what it holds never makes the kernel panic, nothing it holds is lost
\* and no two areas overlap, unless an entry of a process that has ended was taken for one.
THEOREM AreasArePages == ASSUME SmallRam PROVE Spec => []AreasAreMapped
<1>1. ASSUME IInv PROVE AreasAreMapped
  <2>1. PICK m, al, pds : m = memory /\ al = memory_allocations /\ pds = phys_pd
    OBVIOUS
  <2>2. /\ AllocationsOK(al, pds, stale) /\ program_pages \in [Process -> Nat]
        /\ panic = NotMapped => stale_freed
        /\ panic = Running /\ ~stale_freed => AreasOK(m, pds, al, program_pages, stale)
        /\ Pid \subseteq Process
    BY <1>1, <2>1 DEF IInv, StateOK, memory, Process
  <2>3. \A i \in Slots : al[i].size \in Nat /\ al[i].virt_addr \in Nat
    BY <2>2 DEF AllocationsOK
  <2>4. ASSUME NEW i \in Slots, NEW page \in Nat
        PROVE  Covers(i, page) <=> page \in AreaOf(al[i])
    <3>1. PICK s, v : s = al[i].size /\ v = al[i].virt_addr
      OBVIOUS
    <3>2. s \in Nat /\ v \in Nat
      BY <2>3, <3>1
    <3>3. page - v \in 0..(s - 1) <=> page \in v..(v + s - 1)
      BY <3>2
    <3> QED BY <2>1, <3>1, <3>3 DEF Covers, AreaOf
  <2>5. ASSUME panic = Running, ~stale_freed, NEW p \in Pid, pds[p] # NoPage, NEW page \in Region(TRUE)
        PROVE  Cardinality({i \in Slots : Holds(p, i) /\ Covers(i, page)}
                           \cup (IF page < StackEnd * PeCount + program_pages[p] THEN {-1} ELSE {}))
                 = IF Mapping(m, pds[p], page) # NoPage THEN 1 ELSE 0
    <3>1. PICK H, C, one : /\ H = {i \in Slots : Holds(p, i) /\ Covers(i, page)}
                           /\ C = (IF page < StackEnd * PeCount + program_pages[p] THEN {-1} ELSE {})
                           /\ one = (Mapping(m, pds[p], page) # NoPage)
      OBVIOUS
    <3>2. page \in Nat /\ page >= StackEnd * PeCount /\ StackEnd * PeCount \in Nat /\ program_pages[p] \in Nat
      BY <2>2, <2>5, RegionPages, Regions
    <3>3. page \in CodeOf(program_pages, p) <=> C # {}
      <4>1. PICK a, b : a = StackEnd * PeCount /\ b = program_pages[p]
        OBVIOUS
      <4>2. page \in a..(a + b - 1) <=> page < a + b
        BY <3>2, <4>1
      <4> QED BY <3>1, <4>1, <4>2 DEF CodeOf
    <3>4. \A i \in Slots : i \in H <=> InArea(HeldBy(al, stale, p), al, i, page)
      BY <2>1, <2>4, <3>1, <3>2 DEF InArea, HeldBy, Holds
    <3>5. AreasMapped(m, pds[p], TRUE, HeldBy(al, stale, p), CodeOf(program_pages, p), al)
      BY <2>2, <2>5 DEF AreasOK
    <3>6. /\ one <=> C # {} \/ H # {}
          /\ C = {} \/ H = {}
          /\ \A i, j \in H : i = j
      <4>1. H \subseteq Slots
        BY <3>1
      <4> QED BY <2>5, <3>1, <3>3, <3>4, <3>5, <4>1 DEF AreasMapped, Mapped
    <3>7. \A x, y \in C : x = y
      BY <3>1
    <3>8. \A x, y \in H \cup C : x = y
      BY <3>6, <3>7
    <3>9. Cardinality(H \cup C) = IF H \cup C # {} THEN 1 ELSE 0
      BY <3>8, OneOrNone
    <3> QED BY <3>1, <3>6, <3>9
  <2>6. ASSUME panic = Running, ~stale_freed, NEW page \in Region(FALSE)
        PROVE  Cardinality({i \in Slots : Covers(i, page)})
                 = IF Mapping(m, KernelPd, page) # NoPage THEN 1 ELSE 0
    <3>1. PICK H, one : H = {i \in Slots : Covers(i, page)} /\ one = (Mapping(m, KernelPd, page) # NoPage)
      OBVIOUS
    <3>2. page \in Nat
      BY <2>6, RegionPages
    <3>3. \A i \in Slots : i \in H <=> InArea(Slots, al, i, page)
      BY <2>4, <3>1, <3>2 DEF InArea
    <3>4. AreasMapped(m, KernelPd, FALSE, Slots, {}, al)
      BY <2>2, <2>6 DEF AreasOK
    <3>5. (one <=> H # {}) /\ \A i, j \in H : i = j
      <4>1. H \subseteq Slots
        BY <3>1
      <4> QED BY <2>6, <3>1, <3>3, <3>4, <4>1 DEF AreasMapped, Mapped
    <3>6. Cardinality(H) = IF H # {} THEN 1 ELSE 0
      BY <3>5, OneOrNone
    <3> QED BY <3>1, <3>5, <3>6
  <2> QED BY <2>1, <2>2, <2>5, <2>6 DEF AreasAreMapped
<1> QED BY <1>1, MemoryInvariant, PTL
=============================================================================
