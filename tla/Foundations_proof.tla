------------------------- MODULE Foundations_proof -------------------------
(***************************************************************************)
(* What the kernel is built on.  The bitmaps of the physical pages agree   *)
(* with who owns which page, for any RAM of up to 1 GiB; a list of any     *)
(* number of members reads, either way, as its calls have made it; a       *)
(* program reads what the keys mean that were typed, for any number of     *)
(* terminals and of keys; and what is done to a file, and to a listing of  *)
(* /dev, is what the call may do, for any devices and files.               *)
(***************************************************************************)
EXTENDS PhysPages, List, Keyboard, FileCalls, FiniteSetTheorems, SequenceTheorems, WellFoundedInduction, TLAPS

-----------------------------------------------------------------------------
(* The bitmaps.                                                            *)

\* No page of the RAM has its bit in both bitmaps.
SmallRam == RamPages <= Gap

\* The bitmap says who owns a page; the word the search begins at is not behind a free one.
BitmapInv ==
    /\ \A page \in Pages : page \in set <=> page \in owned
    /\ 0..(KernelPages - 1) \subseteq set
    /\ \A page \in Pages \ owned : first * WordBits <= page

IInv == TypeOK /\ BitmapInv /\ CountAgrees /\ NoswapFollows

-----------------------------------------------------------------------------
(* Words and bits.                                                         *)

\* A page lies in its word, and a lower word begins no later.
LEMMA WordOfPage ==
    ASSUME NEW page \in Nat
    PROVE  /\ page \div WordBits \in Nat
           /\ (page \div WordBits) * WordBits \in Nat /\ (page \div WordBits) * WordBits <= page
  BY PagesAssumption

LEMMA WordsAscend ==
    ASSUME NEW a \in Nat, NEW b \in Nat, a <= b
    PROVE  a * WordBits \in Nat /\ b * WordBits \in Nat /\ a * WordBits <= b * WordBits
  BY PagesAssumption

\* A set of natural numbers that is not empty has a least element.
LEMMA Least ==
    ASSUME NEW S \in SUBSET Nat, S # {}
    PROVE  \E p \in S : \A q \in S : p <= q
<1>1. PICK p \in S : \A q \in S : ~(<<q, p>> \in OpToRel(<, Nat))
  BY NatLessThanWellFounded, WFMin
<1>2. ASSUME NEW q \in S, q < p PROVE FALSE
  <2>1. <<q, p>> \in OpToRel(<, Nat)
    BY <1>2 DEF OpToRel
  <2> QED BY <1>1, <2>1
<1> QED BY <1>2

\* The pages are finitely many.
LEMMA PagesFinite == IsFiniteSet(Pages)
  BY PagesAssumption, FS_Interval DEF Pages

-----------------------------------------------------------------------------
(* What alloc_phys_page() finds.                                           *)

\* A page that nobody owns is met by the search.
LEMMA FreeIsFound ==
    ASSUME IInv, NEW page \in Pages \ owned
    PROVE  page \in Found(ram)
  BY PagesAssumption DEF IInv, BitmapInv, TypeOK, Found, ram, Pages

\* If pages are counted as free there is one.
LEMMA SomeIsFree ==
    ASSUME IInv, ram_pages_free > 0
    PROVE  Pages \ owned # {}
  BY FS_EmptySet DEF IInv, CountAgrees

\* The page the search ends at is one of the RAM that nobody owns, and the first such.
LEMMA FoundIsFree ==
    ASSUME IInv, CanAlloc(ram)
    PROVE  /\ FirstFound(ram) \in Pages \ owned
           /\ \A page \in Pages \ owned : FirstFound(ram) <= page
<1> DEFINE page == FirstFound(ram)
<1>1. ram_pages_free > 0
  BY DEF CanAlloc, ram
<1>2. PICK other \in Pages \ owned : TRUE
  BY <1>1, SomeIsFree
<1>3. other \in Found(ram)
  BY FreeIsFound
<1>4. Found(ram) \in SUBSET Nat
  BY PagesAssumption DEF Found, IInv, TypeOK, ram
<1>5. page \in Found(ram) /\ \A q \in Found(ram) : page <= q
  BY <1>3, <1>4, Least DEF FirstFound
<1>6. page <= other /\ page \in Nat /\ page \notin set
  BY <1>3, <1>4, <1>5 DEF Found, ram
<1>7. page \in Pages
  BY <1>6, PagesAssumption DEF Pages, IInv, BitmapInv
<1>8. page \notin owned
  BY <1>6, <1>7 DEF IInv, BitmapInv
<1> QED BY <1>5, <1>7, <1>8, FreeIsFound

-----------------------------------------------------------------------------
(* The invariant.                                                          *)

\* init_phys_page_bitmaps() establishes it.
LEMMA InitIInv ==
    ASSUME SmallRam PROVE Init => IInv
<1> SUFFICES ASSUME Init PROVE IInv
  OBVIOUS
<1> USE PagesAssumption DEF Init
<1>1. TypeOK
  BY DEF TypeOK, InitialSet, Noswap, Bits
<1>2. BitmapInv
  BY DEF BitmapInv, InitialSet, SmallRam, Noswap, Bits, Pages
<1>3. CountAgrees
  <2>1. Pages \ owned = KernelPages..(RamPages - 1)
    BY DEF Pages
  <2> QED BY <2>1, FS_Interval DEF CountAgrees
<1>4. NoswapFollows
  BY DEF NoswapFollows
<1> QED BY <1>1, <1>2, <1>3, <1>4 DEF IInv

\* alloc_phys_page() preserves it.
LEMMA AllocIInv ==
    ASSUME SmallRam, IInv, NEW noswap \in BOOLEAN, Alloc(noswap)
    PROVE  IInv'
<1> DEFINE page == FirstFound(ram)
<1>1. page \in Pages \ owned /\ \A q \in Pages \ owned : page <= q
  BY FoundIsFree DEF Alloc
<1>2. /\ set' = WithNoswap(set \cup {page}, page, noswap)
      /\ ram_pages_free' = ram_pages_free - 1 /\ first' = page \div WordBits
      /\ owned' = owned \cup {page} /\ last' = page
      /\ fixed' = IF noswap THEN fixed \cup {page} ELSE fixed \ {page}
  BY DEF Alloc, Becomes, AllocPage, CountLess, ram
<1>3. page \in Nat /\ Noswap(page) \in Bits \ Pages
  BY <1>1, PagesAssumption DEF Pages, Noswap, Bits, SmallRam
<1>4. ram_pages_free > 0
  BY DEF Alloc, CanAlloc, ram
<1>5. TypeOK'
  <2>1. page \in Bits
    BY <1>1, PagesAssumption DEF Bits, Pages
  <2>2. set' \subseteq Bits
    BY <1>2, <1>3, <2>1 DEF IInv, TypeOK, WithNoswap
  <2>3. ram_pages_free' \in 0..RamPages
    BY <1>2, <1>4, PagesAssumption DEF IInv, TypeOK
  <2>4. first' \in Nat
    BY <1>2, <1>3, WordOfPage
  <2>5. owned' \subseteq Pages /\ fixed' \subseteq owned' /\ last' \in Pages
    BY <1>1, <1>2 DEF IInv, TypeOK
  <2> QED BY <2>2, <2>3, <2>4, <2>5 DEF TypeOK
<1>6. BitmapInv'
  <2>1. \A q \in Pages : q \in set' <=> q \in owned'
    BY <1>1, <1>2, <1>3 DEF IInv, BitmapInv, WithNoswap
  <2>2. 0..(KernelPages - 1) \subseteq set'
    <3>1. Noswap(page) \notin 0..(KernelPages - 1)
      BY <1>1, PagesAssumption DEF Noswap, SmallRam, Pages
    <3> QED BY <1>2, <3>1 DEF IInv, BitmapInv, WithNoswap
  <2>3. \A q \in Pages \ owned' : first' * WordBits <= q
    BY <1>1, <1>2, <1>3, WordOfPage, PagesAssumption DEF Pages
  <2> QED BY <2>1, <2>2, <2>3 DEF BitmapInv
<1>7. CountAgrees'
  <2>1. Pages \ owned' = (Pages \ owned) \ {page}
    BY <1>2
  <2> QED BY <1>1, <1>2, <2>1, PagesFinite, FS_Subset, FS_RemoveElement, FS_CardinalityType, ZenonT(60)
          DEF IInv, CountAgrees
<1>8. NoswapFollows'
  <2>1. \A q \in Pages : Noswap(q) = Noswap(page) => q = page
    BY <1>1, PagesAssumption DEF Noswap, Pages
  <2>2. \A q \in Pages : Noswap(q) # page
    BY <1>1, PagesAssumption DEF Noswap, Pages, SmallRam
  <2> QED BY <1>1, <1>2, <2>1, <2>2 DEF IInv, NoswapFollows, WithNoswap, TypeOK
<1> QED BY <1>5, <1>6, <1>7, <1>8 DEF IInv

\* free_phys_page() preserves it.
LEMMA FreeIInv ==
    ASSUME SmallRam, IInv, NEW page \in owned, Free(page)
    PROVE  IInv'
<1>1. page \in Pages /\ page \in set /\ page \in Nat
  BY PagesAssumption DEF IInv, TypeOK, BitmapInv, Pages
<1>2. /\ set' = set \ {page} /\ ram_pages_free' = ram_pages_free + 1
      /\ first' = FirstLowered(ram, page)
      /\ owned' = owned \ {page} /\ fixed' = fixed \ {page} /\ last' = NoPage
  BY <1>1 DEF Free, Becomes, FreePage, ram
<1>3. first' \in Nat /\ first' <= first /\ first' <= page \div WordBits
  BY <1>1, <1>2, WordOfPage DEF FirstLowered, ram, IInv, TypeOK
<1>4. Pages \ owned' = (Pages \ owned) \cup {page}
  BY <1>1, <1>2
<1>5. CountAgrees'
  BY <1>2, <1>4, PagesFinite, FS_Subset, FS_AddElement, FS_CardinalityType, ZenonT(60) DEF IInv, CountAgrees
<1>6. ram_pages_free' \in 0..RamPages
  <2>1. Cardinality(Pages \ owned') <= Cardinality(Pages)
    BY PagesFinite, FS_Subset
  <2>2. Cardinality(Pages) = RamPages - KernelPages
    BY PagesAssumption, FS_Interval DEF Pages
  <2> QED BY <1>2, <1>5, <2>1, <2>2, PagesAssumption DEF CountAgrees, IInv, TypeOK
<1>7. TypeOK'
  BY <1>2, <1>3, <1>6 DEF IInv, TypeOK
<1>8. BitmapInv'
  <2>1. \A q \in Pages : q \in set' <=> q \in owned'
    BY <1>2 DEF IInv, BitmapInv
  <2>2. 0..(KernelPages - 1) \subseteq set'
    BY <1>1, <1>2, PagesAssumption DEF IInv, BitmapInv, Pages
  <2>3. first' * WordBits <= page
    <3>1. first' * WordBits <= (page \div WordBits) * WordBits
      BY <1>1, <1>3, WordOfPage, WordsAscend
    <3>2. first' * WordBits \in Nat
      BY <1>3, WordsAscend
    <3> QED BY <1>1, <3>1, <3>2, WordOfPage
  <2>4. \A q \in Pages \ owned : first' * WordBits <= q
    <3>1. /\ first' * WordBits <= first * WordBits
          /\ first' * WordBits \in Nat /\ first * WordBits \in Nat
      BY <1>3, WordsAscend DEF IInv, TypeOK
    <3> QED BY <3>1, PagesAssumption DEF IInv, BitmapInv, Pages
  <2> QED BY <1>4, <2>1, <2>2, <2>3, <2>4 DEF BitmapInv
<1>9. NoswapFollows'
  <2>1. \A q \in Pages : Noswap(q) # page
    BY <1>1, PagesAssumption DEF Noswap, Pages, SmallRam
  <2> QED BY <1>2, <2>1 DEF IInv, NoswapFollows, TypeOK
<1> QED BY <1>5, <1>7, <1>8, <1>9 DEF IInv

\* Every step preserves it.
LEMMA NextIInv ==
    ASSUME SmallRam PROVE IInv /\ [Next]_vars => IInv'
<1>1. ASSUME IInv, UNCHANGED vars PROVE IInv'
  BY <1>1 DEF vars, IInv, TypeOK, BitmapInv, CountAgrees, NoswapFollows
<1> QED BY <1>1, AllocIInv, FreeIInv DEF Next

\* The bitmaps, the count and the word the search begins at agree in every reachable state.
THEOREM Invariance ==
    ASSUME SmallRam PROVE Spec => []IInv
  BY InitIInv, NextIInv, PTL DEF Spec

\* The number that ram_free() tells is that of the pages nobody has.
THEOREM FreePagesCounted ==
    ASSUME SmallRam PROVE Spec => []CountAgrees
  BY Invariance, PTL DEF IInv

\* alloc_phys_page() finds a page whenever it has counted one.
THEOREM SearchSucceeds ==
    ASSUME SmallRam PROVE Spec => []NeverFailsCounting
<1>1. IInv => NeverFailsCounting
  BY SomeIsFree, FreeIsFound DEF NeverFailsCounting, CanAlloc, ram
<1> QED BY <1>1, Invariance, PTL

\* No page is handed out to two owners, and none that the machine does not have.
THEOREM PagesHandedOutOnce ==
    ASSUME SmallRam PROVE Spec => HandedOutOnce
<1>1. IInv /\ [Next]_vars => [last' # NoPage => last' \in Pages \ owned]_vars
  BY FoundIsFree DEF Next, Alloc, Free
<1> QED BY <1>1, Invariance, PTL DEF Spec, HandedOutOnce

-----------------------------------------------------------------------------
(* The list of the kernel.                                                 *)

\* What a walk finds at place k: no member, the members in their order, the end.
At(k) == IF k = 0 THEN Nil ELSE IF k = Len(items) + 1 THEN End ELSE items[k]

Addresses == Node \cup {End}

\* The members of the list are those that are allocated, each of them once.
MembersOK ==
    /\ items \in Seq(Node) /\ used = {items[k] : k \in 1..Len(items)}
    /\ \A j, k \in 1..Len(items) : items[j] = items[k] => j = k

\* Each of them, and the end, is linked to its neighbours.
LinksOK ==
    /\ next \in [Addresses -> Addresses \cup {Nil}] /\ prev \in [Addresses -> Addresses \cup {Nil}]
    /\ begin = At(1) /\ size = Len(items) /\ next[End] = Nil
    /\ \A k \in 1..Len(items) : next[At(k)] = At(k + 1)
    /\ \A k \in 1..Len(items) + 1 : prev[At(k)] = At(k - 1)

ListIInv == MembersOK /\ LinksOK /\ iter \in used \cup {End}

\* A place of the list is of one member, or of the end.
LEMMA AtPlace ==
    ASSUME MembersOK
    PROVE  /\ Len(items) \in Nat
           /\ \A k \in 1..Len(items) : At(k) \in used /\ At(k) = items[k]
           /\ used \subseteq Node
           /\ At(0) = Nil /\ At(Len(items) + 1) = End
           /\ \A j, k \in 1..Len(items) + 1 : At(j) = At(k) => j = k
           /\ \A k \in 1..Len(items) + 1 : At(k) \in Addresses
<1>1. Len(items) \in Nat /\ \A k \in 1..Len(items) : items[k] \in Node
  BY DEF MembersOK
<1>2. End \notin Node /\ Nil \notin Node /\ Nil # End
  BY ListAssumption
<1>3. \A k \in 1..Len(items) : At(k) = items[k]
  BY <1>1 DEF At
<1>4. At(Len(items) + 1) = End /\ At(0) = Nil
  BY <1>1 DEF At
<1>5. \A k \in 1..Len(items) + 1 : k \in 1..Len(items) \/ k = Len(items) + 1
  BY <1>1
<1> QED BY <1>1, <1>2, <1>3, <1>4, <1>5 DEF MembersOK, Addresses

\* A member has a place, and the place of the end is behind them.
LEMMA PlaceFound ==
    ASSUME MembersOK, NEW n \in used \cup {End}
    PROVE  /\ Place(n) \in 1..Len(items) + 1 /\ At(Place(n)) = n
           /\ n # End => Place(n) \in 1..Len(items)
<1>1. CASE n = End
  BY <1>1, AtPlace DEF Place
<1>2. CASE n # End
  <2>1. n \in used
    BY <1>2
  <2>2. PICK k \in 1..Len(items) : items[k] = n
    BY <2>1 DEF MembersOK
  <2>3. DOMAIN items = 1..Len(items)
    BY DEF MembersOK
  <2>4. Place(n) \in 1..Len(items) /\ items[Place(n)] = n
    BY <1>2, <2>2, <2>3 DEF Place
  <2> QED BY <2>4, AtPlace
<1> QED BY <1>1, <1>2

\* The elements of a sequence in front of a place, and those from a place on.
LEMMA Front ==
    ASSUME NEW S, NEW s \in Seq(S), NEW p \in 1..Len(s) + 1
    PROVE  /\ SubSeq(s, 1, p - 1) \in Seq(S) /\ Len(SubSeq(s, 1, p - 1)) = p - 1
           /\ \A k \in 1..p - 1 : SubSeq(s, 1, p - 1)[k] = s[k]
<1>1. Len(s) \in Nat /\ \A k \in 1..p - 1 : s[k] \in S
  OBVIOUS
<1> QED BY <1>1, SubSeqProperties

LEMMA Rest ==
    ASSUME NEW S, NEW s \in Seq(S), NEW p \in 1..Len(s) + 1
    PROVE  /\ SubSeq(s, p, Len(s)) \in Seq(S) /\ Len(SubSeq(s, p, Len(s))) = Len(s) - p + 1
           /\ \A k \in 1..Len(s) - p + 1 : SubSeq(s, p, Len(s))[k] = s[p + k - 1]
<1>1. Len(s) \in Nat /\ \A k \in p..Len(s) : s[k] \in S
  OBVIOUS
<1> QED BY <1>1, SubSeqProperties

\* A sequence with one element more.
LEMMA Insertion ==
    ASSUME items \in Seq(Node), NEW p \in 1..Len(items) + 1, NEW u \in Node, items' = InsertedAt(p, u)
    PROVE  /\ items' \in Seq(Node) /\ Len(items') = Len(items) + 1
           /\ \A k \in 1..Len(items) + 1 :
                 items'[k] = (IF k < p THEN items[k] ELSE IF k = p THEN u ELSE items[k - 1])
<1>1. PICK n \in Nat : n = Len(items)
  OBVIOUS
<1>2. PICK front, rest : front = SubSeq(items, 1, p - 1) /\ rest = SubSeq(items, p, n)
  OBVIOUS
<1>3. /\ front \in Seq(Node) /\ Len(front) = p - 1 /\ \A k \in 1..p - 1 : front[k] = items[k]
      /\ rest \in Seq(Node) /\ Len(rest) = n - p + 1
      /\ \A k \in 1..(n - p + 1) : rest[k] = items[p + k - 1]
  BY <1>1, <1>2, Front, Rest
<1>4. PICK one : one = <<u>>
  OBVIOUS
<1>5. one \in Seq(Node) /\ Len(one) = 1 /\ one[1] = u
  BY <1>4
<1>6. PICK some : some = front \o one
  OBVIOUS
<1>7. some \in Seq(Node) /\ Len(some) = p
      /\ \A k \in 1..p : some[k] = IF k <= p - 1 THEN front[k] ELSE one[k - (p - 1)]
  <2>1. some \in Seq(Node) /\ Len(some) = Len(front) + Len(one)
        /\ \A k \in 1..(Len(front) + Len(one)) :
              some[k] = IF k <= Len(front) THEN front[k] ELSE one[k - Len(front)]
    BY <1>3, <1>5, <1>6, ConcatProperties
  <2>2. Len(front) = p - 1 /\ Len(one) = 1 /\ Len(front) + Len(one) = p
    BY <1>1, <1>3, <1>5
  <2> QED BY <2>1, <2>2
<1>8. items' = some \o rest
  BY <1>1, <1>2, <1>4, <1>6 DEF InsertedAt
<1>9. items' \in Seq(Node) /\ Len(items') = p + (n - p + 1)
      /\ \A k \in 1..(p + (n - p + 1)) : items'[k] = IF k <= p THEN some[k] ELSE rest[k - p]
  <2>1. items' \in Seq(Node) /\ Len(items') = Len(some) + Len(rest)
        /\ \A k \in 1..(Len(some) + Len(rest)) :
              items'[k] = IF k <= Len(some) THEN some[k] ELSE rest[k - Len(some)]
    <3>1. some \in Seq(Node)
      BY <1>7
    <3>2. rest \in Seq(Node)
      BY <1>3
    <3> QED BY <3>1, <3>2, <1>8, ConcatProperties
  <2>2. Len(some) = p
    BY <1>7
  <2>3. Len(rest) = n - p + 1
    BY <1>3
  <2> QED BY <2>1, <2>2, <2>3
<1> QED
  <2>1. Len(items') = n + 1 /\ p \in 1..n + 1
    BY <1>1, <1>9
  <2> SUFFICES ASSUME NEW k \in 1..n + 1
               PROVE  items'[k] = (IF k < p THEN items[k] ELSE IF k = p THEN u ELSE items[k - 1])
    BY <1>1, <1>9, <2>1
  <2>2. items'[k] = IF k <= p THEN some[k] ELSE rest[k - p]
    BY <1>9, <2>1
  <2>3. CASE k < p
    <3>1. k <= p /\ k <= p - 1 /\ k \in 1..p /\ k \in 1..p - 1
      BY <2>1, <2>3
    <3>2. items'[k] = some[k] /\ some[k] = front[k]
      BY <1>7, <2>2, <3>1
    <3>3. front[k] = items[k]
      BY <1>3, <3>1
    <3> QED BY <2>3, <3>2, <3>3, Zenon
  <2>4. CASE k = p
    <3>1. k <= p /\ ~(k <= p - 1) /\ ~(k < p) /\ k \in 1..p /\ k - (p - 1) = 1
      BY <2>1, <2>4
    <3>2. items'[k] = some[k] /\ some[k] = one[1]
      BY <1>7, <2>2, <3>1
    <3> QED BY <1>5, <2>4, <3>1, <3>2, Zenon
  <2>5. CASE k > p
    <3>1. PICK j : j = k - p /\ j \in 1..(n - p + 1) /\ p + j - 1 = k - 1
                   /\ ~(k <= p) /\ ~(k < p) /\ k # p
      BY <2>1, <2>5
    <3>2. items'[k] = rest[j]
      BY <2>2, <3>1
    <3>3. rest[j] = items[k - 1]
      BY <1>3, <3>1
    <3> QED BY <3>1, <3>2, <3>3, Zenon
  <2>6. k < p \/ k = p \/ k > p
    BY <2>1
  <2> QED BY <2>3, <2>4, <2>5, <2>6, Zenon

\* A sequence with one element less.
LEMMA Removal ==
    ASSUME items \in Seq(Node), NEW p \in 1..Len(items),
           items' = SubSeq(items, 1, p - 1) \o SubSeq(items, p + 1, Len(items))
    PROVE  /\ items' \in Seq(Node) /\ Len(items') = Len(items) - 1
           /\ \A k \in 1..Len(items) - 1 : items'[k] = (IF k < p THEN items[k] ELSE items[k + 1])
<1>1. PICK n \in Nat : n = Len(items)
  OBVIOUS
<1>2. PICK front, rest, q : front = SubSeq(items, 1, p - 1) /\ q = p + 1 /\ rest = SubSeq(items, q, n)
  OBVIOUS
<1>3. p \in 1..n /\ q \in 2..n + 1 /\ q = p + 1
  BY <1>1, <1>2
<1>4. /\ front \in Seq(Node) /\ Len(front) = p - 1 /\ \A k \in 1..p - 1 : front[k] = items[k]
      /\ rest \in Seq(Node) /\ Len(rest) = n - q + 1
      /\ \A k \in 1..(n - q + 1) : rest[k] = items[q + k - 1]
  <2>1. p \in 1..Len(items) + 1 /\ q \in 1..Len(items) + 1
    BY <1>1, <1>3
  <2>2. front \in Seq(Node) /\ Len(front) = p - 1 /\ \A k \in 1..p - 1 : front[k] = items[k]
    BY <1>2, <2>1, Front
  <2>3. /\ rest \in Seq(Node) /\ Len(rest) = Len(items) - q + 1
        /\ \A k \in 1..Len(items) - q + 1 : rest[k] = items[q + k - 1]
    BY <1>1, <1>2, <2>1, Rest, ZenonT(60)
  <2> QED BY <1>1, <2>2, <2>3
<1>5. items' \in Seq(Node) /\ Len(items') = Len(front) + Len(rest)
      /\ \A k \in 1..(Len(front) + Len(rest)) :
            items'[k] = IF k <= Len(front) THEN front[k] ELSE rest[k - Len(front)]
  <2>1. items' = front \o rest
    BY <1>1, <1>2
  <2>2. front \in Seq(Node) /\ rest \in Seq(Node)
    BY <1>4
  <2>3. /\ front \o rest \in Seq(Node) /\ Len(front \o rest) = Len(front) + Len(rest)
        /\ \A k \in 1..(Len(front) + Len(rest)) :
              (front \o rest)[k] = IF k <= Len(front) THEN front[k] ELSE rest[k - Len(front)]
    BY <2>2, SMTT(60)
  <2> QED BY <2>1, <2>3
<1>6. Len(front) = p - 1 /\ Len(rest) = n - p /\ Len(front) + Len(rest) = n - 1
  BY <1>3, <1>4
<1>7. ASSUME NEW k \in 1..n - 1 PROVE items'[k] = (IF k < p THEN items[k] ELSE items[k + 1])
  <2>1. items'[k] = IF k <= p - 1 THEN front[k] ELSE rest[k - (p - 1)]
    BY <1>5, <1>6
  <2>2. CASE k < p
    <3>1. k <= p - 1 /\ k \in 1..p - 1
      BY <1>3, <2>2
    <3>2. front[k] = items[k]
      BY <1>4, <3>1
    <3> QED BY <2>1, <2>2, <3>1, <3>2
  <2>3. CASE k >= p
    <3>1. PICK i, j : i = k - (p - 1) /\ j = k + 1
      OBVIOUS
    <3>2. i \in 1..(n - q + 1) /\ q + i - 1 = j /\ ~(k <= p - 1) /\ ~(k < p)
      BY <1>3, <2>3, <3>1
    <3>3. rest[i] = items[j]
      BY <1>4, <3>2
    <3>4. items'[k] = rest[i]
      BY <2>1, <3>1, <3>2
    <3> QED BY <3>1, <3>2, <3>3, <3>4, Zenon
  <2>4. k < p \/ k >= p
    BY <1>3
  <2> QED BY <2>2, <2>3, <2>4, Zenon
<1> QED BY <1>1, <1>5, <1>6, <1>7

-----------------------------------------------------------------------------
(* Insertion, at either side of the iterator.                              *)

\* The member u is new, at place p.
InsertedAtPlace(p, u) ==
    /\ items' = InsertedAt(p, u) /\ used' = used \cup {u} /\ size' = size + 1
    /\ begin' = (IF p = 1 THEN u ELSE begin)
    /\ prev' = [prev EXCEPT ![At(p)] = u, ![u] = At(p - 1)]
    /\ next' = (IF p = 1 THEN [next EXCEPT ![u] = At(p)] ELSE [next EXCEPT ![At(p - 1)] = u, ![u] = At(p)])

\* Where the new member is, the others make room.
LEMMA PlacesMove ==
    ASSUME MembersOK, NEW p \in 1..Len(items) + 1, NEW u \in Node, items' = InsertedAt(p, u)
    PROVE  /\ Len(items') = Len(items) + 1
           /\ \A k \in 0..Len(items) + 2 :
                 At(k)' = (IF k < p THEN At(k) ELSE IF k = p THEN u ELSE At(k - 1))
<1>1. PICK n \in Nat : n = Len(items)
  BY DEF MembersOK
<1>2. /\ items' \in Seq(Node) /\ Len(items') = n + 1
      /\ \A k \in 1..n + 1 : items'[k] = (IF k < p THEN items[k] ELSE IF k = p THEN u ELSE items[k - 1])
  BY <1>1, Insertion DEF MembersOK
<1>3. ASSUME NEW k \in 0..n + 2
      PROVE  At(k)' = (IF k < p THEN At(k) ELSE IF k = p THEN u ELSE At(k - 1))
  <2>1. p \in 1..n + 1
    BY <1>1
  <2>2. CASE k = 0
    BY <2>1, <2>2 DEF At
  <2>3. CASE k = n + 2
    BY <1>1, <1>2, <2>1, <2>3 DEF At
  <2>4. CASE k \in 1..n + 1
    <3>1. At(k)' = items'[k]
      BY <1>2, <2>4 DEF At
    <3>2. CASE k < p
      BY <1>1, <1>2, <2>1, <2>4, <3>1, <3>2 DEF At
    <3>3. CASE k = p
      BY <1>2, <2>4, <3>1, <3>3
    <3>4. CASE k > p
      BY <1>1, <1>2, <2>1, <2>4, <3>1, <3>4 DEF At
    <3> QED BY <2>1, <2>4, <3>2, <3>3, <3>4
  <2> QED BY <2>2, <2>3, <2>4
<1> QED BY <1>1, <1>2, <1>3

\* The list has the new member, and has it once.
LEMMA InsertionMembers ==
    ASSUME MembersOK, NEW p \in 1..Len(items) + 1, NEW u \in Node \ used, InsertedAtPlace(p, u)
    PROVE  MembersOK'
<1>1. PICK n \in Nat : n = Len(items)
  BY DEF MembersOK
<1>2. /\ items' \in Seq(Node) /\ Len(items') = n + 1
      /\ \A k \in 1..n + 1 : items'[k] = (IF k < p THEN items[k] ELSE IF k = p THEN u ELSE items[k - 1])
  BY <1>1, Insertion DEF MembersOK, InsertedAtPlace
<1>3. p \in 1..n + 1
  BY <1>1
<1>4. used = {items[k] : k \in 1..n} /\ \A j, k \in 1..n : items[j] = items[k] => j = k
  BY <1>1 DEF MembersOK
<1>5. \A k \in 1..n : items[k] # u
  BY <1>4
<1>6. used' = {items'[k] : k \in 1..n + 1}
  <2>1. ASSUME NEW k \in 1..n + 1 PROVE items'[k] \in used \cup {u}
    BY <1>2, <1>3, <1>4, <2>1
  <2>2. ASSUME NEW k \in 1..n PROVE \E j \in 1..n + 1 : items'[j] = items[k]
    <3>1. CASE k < p
      BY <1>2, <1>3, <3>1
    <3>2. CASE k >= p
      <4>1. k + 1 \in 1..n + 1 /\ k + 1 > p /\ k + 1 - 1 = k
        BY <1>3, <3>2
      <4>2. PICK m \in 1..n + 1 : m = k + 1 /\ m > p /\ m - 1 = k
        BY <4>1
      <4>3. items'[m] = items[k]
        BY <1>2, <1>3, <4>2
      <4> QED BY <4>3
    <3> QED BY <1>3, <3>1, <3>2
  <2>3. items'[p] = u
    BY <1>2, <1>3
  <2>4. used' = used \cup {u}
    BY DEF InsertedAtPlace
  <2>5. ASSUME NEW x \in used' PROVE \E k \in 1..n + 1 : x = items'[k]
    <3>1. CASE x = u
      BY <1>3, <2>3, <3>1
    <3>2. CASE x # u
      <4>1. PICK k \in 1..n : x = items[k]
        BY <1>4, <2>4, <3>2
      <4> QED BY <2>2, <4>1
    <3> QED BY <3>1, <3>2
  <2>6. ASSUME NEW k \in 1..n + 1 PROVE items'[k] \in used'
    BY <2>1, <2>4
  <2> QED BY <2>5, <2>6
<1>7. ASSUME NEW j \in 1..n + 1, NEW k \in 1..n + 1, items'[j] = items'[k] PROVE j = k
  <2>1. ASSUME NEW l \in 1..n + 1, l # p
        PROVE  \E i \in 1..n : i = (IF l < p THEN l ELSE l - 1) /\ items'[l] = items[i]
    <3>1. PICK i \in 1..n : i = (IF l < p THEN l ELSE l - 1)
      BY <1>3, <2>1
    <3> QED BY <1>2, <1>3, <2>1, <3>1
  <2>2. items'[p] = u
    BY <1>2, <1>3
  <2>3. CASE j = p \/ k = p
    BY <1>5, <1>7, <2>1, <2>2, <2>3
  <2>4. CASE j # p /\ k # p
    <3>1. PICK i \in 1..n : i = (IF j < p THEN j ELSE j - 1) /\ items'[j] = items[i]
      BY <2>1, <2>4
    <3>2. PICK l \in 1..n : l = (IF k < p THEN k ELSE k - 1) /\ items'[k] = items[l]
      BY <2>1, <2>4
    <3>3. i = l
      BY <1>4, <1>7, <3>1, <3>2
    <3> QED BY <1>3, <2>4, <3>1, <3>2, <3>3
  <2> QED BY <2>3, <2>4
<1> QED BY <1>2, <1>6, <1>7 DEF MembersOK

\* The neighbours are linked to the new member, and it to them; the others stay as they are.
LEMMA InsertionLinks ==
    ASSUME MembersOK, LinksOK, NEW p \in 1..Len(items) + 1, NEW u \in Node \ used, InsertedAtPlace(p, u)
    PROVE  LinksOK'
<1>1. PICK n \in Nat : n = Len(items)
  BY DEF MembersOK
<1>2. Len(items') = n + 1
      /\ \A k \in 0..n + 2 : At(k)' = (IF k < p THEN At(k) ELSE IF k = p THEN u ELSE At(k - 1))
  BY <1>1, PlacesMove DEF InsertedAtPlace
<1>3. p \in 1..n + 1
  BY <1>1
<1>4. /\ \A k \in 1..n : At(k) \in used
      /\ At(0) = Nil /\ At(n + 1) = End /\ used \subseteq Node
      /\ \A j, k \in 1..n + 1 : At(j) = At(k) => j = k
      /\ \A k \in 1..n + 1 : At(k) \in Addresses /\ At(k) # u
  <2>1. u # End
    BY ListAssumption
  <2>2. \A k \in 1..n + 1 : k \in 1..n \/ k = n + 1
    OBVIOUS
  <2> QED BY <1>1, <2>1, <2>2, AtPlace
<1>5. u \in Addresses /\ At(p) \in Addresses /\ (p > 1 => At(p - 1) \in Addresses /\ p - 1 \in 1..n)
      /\ At(p - 1) \in Addresses \cup {Nil}
  <2>1. p > 1 => p - 1 \in 1..n /\ p - 1 \in 1..n + 1
    BY <1>3
  <2>2. p = 1 => p - 1 = 0
    OBVIOUS
  <2> QED BY <1>3, <1>4, <2>1, <2>2 DEF Addresses
<1>6. /\ next \in [Addresses -> Addresses \cup {Nil}] /\ prev \in [Addresses -> Addresses \cup {Nil}]
      /\ begin = At(1) /\ size = n /\ next[End] = Nil
      /\ \A k \in 1..n : next[At(k)] = At(k + 1)
      /\ \A k \in 1..n + 1 : prev[At(k)] = At(k - 1)
  BY <1>1 DEF LinksOK
<1>7. /\ begin' = (IF p = 1 THEN u ELSE begin) /\ size' = size + 1
      /\ prev' = [prev EXCEPT ![At(p)] = u, ![u] = At(p - 1)]
      /\ next' = (IF p = 1 THEN [next EXCEPT ![u] = At(p)]
                  ELSE [next EXCEPT ![At(p - 1)] = u, ![u] = At(p)])
  BY DEF InsertedAtPlace
<1>8. prev' \in [Addresses -> Addresses \cup {Nil}]
  BY <1>5, <1>6, <1>7
<1>9. next' \in [Addresses -> Addresses \cup {Nil}]
  BY <1>5, <1>6, <1>7
<1>10. begin' = At(1)' /\ size' = n + 1
  BY <1>2, <1>3, <1>6, <1>7
<1>11. next'[End] = Nil
  <2>1. End # u /\ (p > 1 => End # At(p - 1))
    <3>1. End \notin Node
      BY ListAssumption
    <3> QED BY <1>4, <1>5, <3>1
  <2> QED BY <1>3, <1>6, <1>7, <2>1 DEF Addresses
<1>12. ASSUME NEW k \in 1..n + 1 PROVE next'[At(k)'] = At(k + 1)'
  <2>1. At(k)' = (IF k < p THEN At(k) ELSE IF k = p THEN u ELSE At(k - 1))
    BY <1>2
  <2>2. At(k + 1)' = (IF k + 1 < p THEN At(k + 1) ELSE IF k + 1 = p THEN u ELSE At(k + 1 - 1))
    BY <1>2
  <2>3. CASE k = p
    BY <1>3, <1>5, <1>6, <1>7, <2>1, <2>2, <2>3
  <2>4. CASE k < p
    <3>1. k \in 1..n /\ p # 1 /\ next[At(k)] = At(k + 1) /\ At(k) # u /\ At(k) \in Addresses
      BY <1>3, <1>4, <1>6, <2>4
    <3>2. CASE k + 1 = p
      <4>1. p - 1 = k /\ ~(k + 1 < p)
        BY <1>3, <3>2
      <4> QED BY <1>6, <1>7, <2>1, <2>2, <2>4, <3>1, <3>2, <4>1
    <3>3. CASE k + 1 < p
      <4>1. At(k) # At(p - 1)
        BY <1>3, <1>4, <1>5, <3>1, <3>3
      <4> QED BY <1>6, <1>7, <2>1, <2>2, <2>4, <3>1, <3>3, <4>1
    <3> QED BY <1>3, <2>4, <3>2, <3>3
  <2>5. CASE k > p
    <3>1. PICK i : i = k - 1 /\ i \in 1..n /\ i >= p /\ i + 1 = k /\ k + 1 - 1 = k
      BY <1>3, <2>5
    <3>2. next[At(i)] = At(k) /\ At(i) # u /\ At(i) \in Addresses
      BY <1>4, <1>6, <3>1
    <3>3. p > 1 => At(i) # At(p - 1)
      <4>1. p > 1 => p - 1 \in 1..n + 1 /\ i \in 1..n + 1 /\ i # p - 1
        BY <1>3, <3>1
      <4> QED BY <1>4, <4>1
    <3>4. At(k)' = At(i) /\ At(k + 1)' = At(k)
      <4>1. ~(k < p) /\ k # p /\ ~(k + 1 < p) /\ k + 1 # p
        BY <1>3, <2>5
      <4> QED BY <2>1, <2>2, <3>1, <4>1
    <3> QED BY <1>3, <1>6, <1>7, <3>2, <3>3, <3>4
  <2> QED BY <1>3, <2>3, <2>4, <2>5
<1>13. ASSUME NEW k \in 1..n + 2 PROVE prev'[At(k)'] = At(k - 1)'
  <2>1. At(k)' = (IF k < p THEN At(k) ELSE IF k = p THEN u ELSE At(k - 1))
    BY <1>2
  <2>2. At(k - 1)' = (IF k - 1 < p THEN At(k - 1) ELSE IF k - 1 = p THEN u ELSE At(k - 1 - 1))
    <3>1. k - 1 \in 0..n + 2
      OBVIOUS
    <3> QED BY <1>2, <3>1
  <2>3. CASE k = p
    <3>1. k - 1 < p /\ ~(k < p)
      BY <1>3, <2>3
    <3> QED BY <1>5, <1>6, <1>7, <2>1, <2>2, <2>3, <3>1
  <2>4. CASE k < p
    <3>1. k \in 1..n + 1 /\ k - 1 < p /\ k # p
      BY <1>3, <2>4
    <3>2. prev[At(k)] = At(k - 1) /\ At(k) # u /\ At(k) # At(p) /\ At(k) \in Addresses
      BY <1>3, <1>4, <1>6, <3>1
    <3> QED BY <1>6, <1>7, <2>1, <2>2, <2>4, <3>1, <3>2
  <2>5. CASE k = p + 1
    <3>1. k - 1 = p /\ ~(k < p) /\ k # p /\ ~(k - 1 < p)
      BY <1>3, <2>5
    <3>2. At(p) # u
      BY <1>3, <1>4
    <3> QED BY <1>5, <1>6, <1>7, <2>1, <2>2, <3>1, <3>2
  <2>6. CASE k > p + 1
    <3>1. PICK i : i = k - 1 /\ i \in 1..n + 1 /\ i # p /\ ~(i < p)
      BY <1>3, <2>6
    <3>2. prev[At(i)] = At(i - 1) /\ At(i) # u /\ At(i) # At(p) /\ At(i) \in Addresses
      BY <1>3, <1>4, <1>6, <3>1
    <3>3. ~(k < p) /\ k # p
      BY <1>3, <2>6
    <3>4. At(k)' = At(i) /\ At(k - 1)' = At(i - 1)
      BY <2>1, <2>2, <3>1, <3>3
    <3> QED BY <1>6, <1>7, <3>2, <3>4
  <2> QED BY <1>3, <2>3, <2>4, <2>5, <2>6
<1>14. \A k \in 1..Len(items)' : next'[At(k)'] = At(k + 1)'
  BY <1>2, <1>12
<1>15. \A k \in 1..Len(items)' + 1 : prev'[At(k)'] = At(k - 1)'
  BY <1>2, <1>13
<1> QED BY <1>2, <1>8, <1>9, <1>10, <1>11, <1>14, <1>15 DEF LinksOK

\* Each call of the list keeps the invariant.
LEMMA InsertBeforeStep == ASSUME ListIInv, NEW u \in Node, InsertBefore(u) PROVE ListIInv'
<1>1. MembersOK /\ LinksOK /\ iter \in used \cup {End} /\ u \in Node \ used
  BY DEF ListIInv, InsertBefore, Allocated
<1>2. PICK p \in 1..Len(items) + 1 : p = Place(iter) /\ At(p) = iter
  BY <1>1, PlaceFound
<1>3. prev[iter] = At(p - 1) /\ (prev[iter] = Nil <=> p = 1)
  <2>1. prev[iter] = At(p - 1)
    BY <1>1, <1>2 DEF LinksOK
  <2>2. p = 1 \/ p - 1 \in 1..Len(items)
    BY <1>1, AtPlace
  <2>3. Nil \notin Node /\ (p = 1 => p - 1 = 0)
    BY ListAssumption
  <2>4. \A k \in 1..Len(items) : At(k) \in Node
    BY <1>1, AtPlace
  <2>5. At(0) = Nil
    BY DEF At
  <2> QED BY <2>1, <2>2, <2>3, <2>4, <2>5
<1>4. InsertedAtPlace(p, u)
  <2>1. items' = InsertedAt(p, u) /\ used' = used \cup {u} /\ size' = size + 1
    BY <1>2 DEF InsertBefore, Allocated
  <2>2. begin' = (IF p = 1 THEN u ELSE begin)
    BY <1>3 DEF InsertBefore, LinkBefore
  <2>3. prev' = [prev EXCEPT ![At(p)] = u, ![u] = At(p - 1)]
    <3>1. prev' = [prev EXCEPT ![u] = At(p - 1), ![iter] = u]
      BY <1>3 DEF InsertBefore, LinkBefore
    <3>2. prev \in [Addresses -> Addresses \cup {Nil}] /\ u # iter
      BY <1>1, ListAssumption DEF LinksOK
    <3> QED BY <1>2, <3>1, <3>2
  <2>4. next' = (IF p = 1 THEN [next EXCEPT ![u] = At(p)] ELSE [next EXCEPT ![At(p - 1)] = u, ![u] = At(p)])
    BY <1>2, <1>3 DEF InsertBefore, LinkBefore
  <2> QED BY <2>1, <2>2, <2>3, <2>4 DEF InsertedAtPlace
<1>5. MembersOK' /\ LinksOK'
  BY <1>1, <1>4, InsertionMembers, InsertionLinks
<1> QED BY <1>1, <1>4, <1>5 DEF ListIInv, InsertBefore, InsertedAtPlace

LEMMA InsertAfterStep == ASSUME ListIInv, NEW u \in Node, InsertAfter(u) PROVE ListIInv'
<1>1. MembersOK /\ LinksOK /\ iter \in used \cup {End} /\ u \in Node \ used /\ next[iter] # Nil
  BY DEF ListIInv, InsertAfter, Allocated
<1>2. iter # End
  BY <1>1 DEF LinksOK
<1>3. PICK k \in 1..Len(items) : k = Place(iter) /\ At(k) = iter
  BY <1>1, <1>2, PlaceFound
<1>4. PICK p : p = k + 1 /\ p \in 1..Len(items) + 1 /\ p # 1 /\ p - 1 = k
  BY <1>1, AtPlace
<1>5. next[iter] = At(p) /\ At(p - 1) = iter
  BY <1>1, <1>3, <1>4 DEF LinksOK
<1>6. InsertedAtPlace(p, u)
  <2>1. items' = InsertedAt(p, u) /\ used' = used \cup {u} /\ size' = size + 1
    BY <1>3, <1>4 DEF InsertAfter, Allocated
  <2>2. begin' = (IF p = 1 THEN u ELSE begin)
    BY <1>4 DEF InsertAfter, LinkAfter
  <2>3. (IF next[iter] # Nil THEN next[iter] ELSE End) = At(p)
    BY <1>1, <1>5
  <2>4. prev' = [prev EXCEPT ![At(p)] = u, ![u] = At(p - 1)]
    BY <1>5, <2>3 DEF InsertAfter, LinkAfter
  <2>5. next' = (IF p = 1 THEN [next EXCEPT ![u] = At(p)] ELSE [next EXCEPT ![At(p - 1)] = u, ![u] = At(p)])
    <3>1. next' = [next EXCEPT ![u] = At(p), ![iter] = u]
      BY <1>5 DEF InsertAfter, LinkAfter
    <3>2. next \in [Addresses -> Addresses \cup {Nil}] /\ u # iter
      BY <1>1, ListAssumption DEF LinksOK
    <3> QED BY <1>4, <1>5, <3>1, <3>2
  <2> QED BY <2>1, <2>2, <2>4, <2>5 DEF InsertedAtPlace
<1>7. MembersOK' /\ LinksOK'
  BY <1>1, <1>4, <1>6, InsertionMembers, InsertionLinks
<1> QED BY <1>1, <1>6, <1>7 DEF ListIInv, InsertAfter, InsertedAtPlace

-----------------------------------------------------------------------------
(* Removal.                                                                *)

\* A member that is erased leaves no trace in the links of the others.
LEMMA EraseStep == ASSUME ListIInv, Erase PROVE ListIInv'
<1>1. MembersOK /\ LinksOK /\ iter \in used
  BY DEF ListIInv, Erase
<1>2. PICK n \in Nat : n = Len(items)
  BY <1>1 DEF MembersOK
<1>3. PICK p \in 1..n : p = Place(iter) /\ At(p) = iter
  <2>1. iter # End
    BY DEF Erase
  <2> QED BY <1>1, <1>2, <2>1, PlaceFound
<1>4. /\ items' \in Seq(Node) /\ Len(items') = n - 1 /\ n >= 1
      /\ \A k \in 1..n - 1 : items'[k] = (IF k < p THEN items[k] ELSE items[k + 1])
  <2>1. items' = SubSeq(items, 1, p - 1) \o SubSeq(items, p + 1, Len(items))
    BY <1>3 DEF Erase
  <2>2. items \in Seq(Node) /\ p \in 1..Len(items)
    BY <1>1, <1>2 DEF MembersOK
  <2>3. /\ items' \in Seq(Node) /\ Len(items') = Len(items) - 1
        /\ \A k \in 1..Len(items) - 1 : items'[k] = (IF k < p THEN items[k] ELSE items[k + 1])
    BY <2>1, <2>2, Removal
  <2> QED BY <1>2, <2>3
<1>5. /\ \A k \in 1..n : At(k) \in used /\ At(k) = items[k]
      /\ At(0) = Nil /\ At(n + 1) = End /\ used \subseteq Node
      /\ \A j, k \in 1..n + 1 : At(j) = At(k) => j = k
      /\ \A k \in 1..n + 1 : At(k) \in Addresses
  BY <1>1, <1>2, AtPlace
<1>6. /\ next \in [Addresses -> Addresses \cup {Nil}] /\ prev \in [Addresses -> Addresses \cup {Nil}]
      /\ begin = At(1) /\ size = n /\ next[End] = Nil
      /\ \A k \in 1..n : next[At(k)] = At(k + 1)
      /\ \A k \in 1..n + 1 : prev[At(k)] = At(k - 1)
  BY <1>1, <1>2 DEF LinksOK
<1>7. Nil \notin Addresses
  BY ListAssumption DEF Addresses
<1>8. next[iter] = At(p + 1) /\ next[iter] # Nil /\ prev[iter] = At(p - 1) /\ (prev[iter] = Nil <=> p = 1)
      /\ p + 1 \in 1..n + 1
  <2>1. p \in 1..n + 1 /\ p + 1 \in 1..n + 1
    BY <1>3
  <2>2. (p = 1 /\ p - 1 = 0) \/ (p # 1 /\ p - 1 \in 1..n + 1)
    BY <1>3
  <2>3. At(p + 1) \in Addresses
    BY <1>5, <2>1
  <2>4. next[iter] = At(p + 1)
    BY <1>3, <1>6
  <2>5. prev[iter] = At(p - 1)
    BY <1>3, <1>6, <2>1
  <2>6. p # 1 => At(p - 1) \in Addresses
    BY <1>5, <2>2
  <2>7. p = 1 => At(p - 1) = Nil
    BY <1>5, <2>2
  <2> QED BY <1>7, <2>1, <2>3, <2>4, <2>5, <2>6, <2>7
<1>9. /\ begin' = (IF begin = iter THEN At(p + 1) ELSE begin) /\ size' = size - 1 /\ used' = used \ {iter}
      /\ prev' = [prev EXCEPT ![At(p + 1)] = At(p - 1)]
      /\ next' = (IF p = 1 THEN next ELSE [next EXCEPT ![At(p - 1)] = At(p + 1)])
      /\ iter' = At(p + 1)
  BY <1>8 DEF Erase
<1>10. \A k \in 0..n : At(k)' = (IF k < p THEN At(k) ELSE At(k + 1))
  <2> SUFFICES ASSUME NEW k \in 0..n PROVE At(k)' = (IF k < p THEN At(k) ELSE At(k + 1))
    OBVIOUS
  <2>1. CASE k = 0
    BY <1>3, <2>1 DEF At
  <2>2. CASE k = n /\ k # 0
    <3>1. At(k)' = End
      BY <1>4, <2>2 DEF At
    <3> QED BY <1>3, <1>5, <2>2, <3>1
  <2>3. CASE k \in 1..n - 1
    <3>1. At(k)' = items'[k]
      BY <1>4, <2>3 DEF At
    <3>2. CASE k < p
      BY <1>3, <1>4, <1>5, <2>3, <3>1, <3>2
    <3>3. CASE k >= p
      <4>1. PICK j : j = k + 1 /\ j \in 1..n
        BY <2>3
      <4>2. items'[k] = items[k + 1] /\ ~(k < p)
        BY <1>3, <1>4, <2>3, <3>3
      <4>3. At(j) = items[j]
        BY <1>5, <4>1
      <4> QED BY <3>1, <4>1, <4>2, <4>3, Zenon
    <3> QED BY <1>3, <2>3, <3>2, <3>3
  <2> QED BY <2>1, <2>2, <2>3
<1>11. MembersOK'
  <2>1. used' = {items'[k] : k \in 1..n - 1}
    <3>1. ASSUME NEW k \in 1..n - 1
          PROVE  items'[k] \in used' /\ \E j \in 1..n : j # p /\ items'[k] = items[j]
                                                       /\ j = (IF k < p THEN k ELSE k + 1)
      <4>1. PICK j \in 1..n : j = (IF k < p THEN k ELSE k + 1) /\ j # p
        BY <1>3, <3>1
      <4>2. items'[k] = items[j]
        BY <1>4, <3>1, <4>1
      <4>3. items[j] \in used /\ items[j] # iter
        <5>1. p \in 1..n + 1 /\ j \in 1..n + 1
          BY <1>3, <4>1
        <5> QED BY <1>3, <1>5, <4>1, <5>1
      <4> QED BY <1>9, <4>1, <4>2, <4>3
    <3>2. ASSUME NEW v \in used' PROVE \E k \in 1..n - 1 : items'[k] = v
      <4>1. PICK j \in 1..n : items[j] = v
        BY <1>1, <1>2, <1>9 DEF MembersOK
      <4>2. j # p
        BY <1>3, <1>5, <1>9, <4>1
      <4>3. CASE j < p
        <5>1. j \in 1..n - 1
          BY <1>3, <4>3
        <5> QED BY <1>4, <4>1, <4>3, <5>1
      <4>4. CASE j > p
        <5>1. PICK k \in 1..n - 1 : k = j - 1 /\ ~(k < p) /\ k + 1 = j
          BY <1>3, <4>4
        <5> QED BY <1>4, <4>1, <5>1
      <4> QED BY <1>3, <4>2, <4>3, <4>4
    <3> QED BY <3>1, <3>2
  <2>2. ASSUME NEW j \in 1..n - 1, NEW k \in 1..n - 1, items'[j] = items'[k] PROVE j = k
    <3>1. PICK s \in 1..n + 1 : s = (IF j < p THEN j ELSE j + 1) /\ s \in 1..n
      OBVIOUS
    <3>2. PICK t \in 1..n + 1 : t = (IF k < p THEN k ELSE k + 1) /\ t \in 1..n
      OBVIOUS
    <3>3. items'[j] = At(s)
      BY <1>4, <1>5, <3>1
    <3>4. items'[k] = At(t)
      BY <1>4, <1>5, <3>2
    <3>5. s = t
      BY <1>5, <2>2, <3>3, <3>4
    <3> QED BY <1>3, <3>1, <3>2, <3>5
  <2> QED BY <1>4, <2>1, <2>2 DEF MembersOK
<1>12. prev' \in [Addresses -> Addresses \cup {Nil}] /\ next' \in [Addresses -> Addresses \cup {Nil}]
  <2>1. At(p + 1) \in Addresses /\ At(p - 1) \in Addresses \cup {Nil}
    <3>1. iter \in Addresses
      BY <1>1, <1>5 DEF Addresses
    <3> QED BY <1>5, <1>6, <1>8, <3>1
  <2> QED BY <1>6, <1>9, <2>1
<1>13. begin' = At(1)' /\ size' = n - 1
  <2>1. begin = iter <=> p = 1
    <3>1. 1 \in 1..n + 1 /\ p \in 1..n + 1
      BY <1>3
    <3> QED BY <1>3, <1>5, <1>6, <3>1
  <2>2. At(1)' = (IF 1 < p THEN At(1) ELSE At(1 + 1))
    BY <1>4, <1>10
  <2> QED BY <1>3, <1>6, <1>9, <2>1, <2>2
<1>14. next'[End] = Nil
  <2>1. p # 1 => At(p - 1) # End
    <3>1. p # 1 => p - 1 \in 1..n + 1 /\ n + 1 \in 1..n + 1 /\ p - 1 # n + 1
      BY <1>3
    <3> QED BY <1>5, <3>1
  <2> QED BY <1>6, <1>9, <2>1 DEF Addresses
<1>15. ASSUME NEW k \in 1..n - 1 PROVE next'[At(k)'] = At(k + 1)'
  <2>1. At(k)' = (IF k < p THEN At(k) ELSE At(k + 1))
    BY <1>10
  <2>2. At(k + 1)' = (IF k + 1 < p THEN At(k + 1) ELSE At(k + 1 + 1))
    BY <1>10
  <2>3. CASE k + 1 < p
    <3>1. k < p /\ p # 1 /\ k \in 1..n /\ k \in 1..n + 1 /\ p - 1 \in 1..n + 1 /\ k # p - 1
      BY <1>3, <2>3
    <3>2. At(k) # At(p - 1) /\ At(k) \in Addresses /\ next[At(k)] = At(k + 1)
      BY <1>5, <1>6, <3>1
    <3> QED BY <1>6, <1>9, <2>1, <2>2, <2>3, <3>1, <3>2
  <2>4. CASE k + 1 = p
    <3>1. k = p - 1 /\ k < p /\ p # 1 /\ ~(k + 1 < p) /\ k \in 1..n + 1
      BY <1>3, <2>4
    <3>2. At(k) \in Addresses
      BY <1>5, <3>1
    <3> QED BY <1>6, <1>9, <2>1, <2>2, <2>4, <3>1, <3>2
  <2>5. CASE k >= p
    <3>1. PICK j : j = k + 1 /\ ~(k < p) /\ ~(j < p) /\ j \in 1..n /\ j \in 1..n + 1 /\ j # p - 1
                   /\ (p # 1 => p - 1 \in 1..n + 1)
      BY <1>3, <2>5
    <3>2. At(j) \in Addresses /\ next[At(j)] = At(j + 1) /\ (p # 1 => At(j) # At(p - 1))
      BY <1>5, <1>6, <3>1
    <3>3. At(k)' = At(j) /\ At(k + 1)' = At(j + 1)
      BY <2>1, <2>2, <3>1
    <3> QED BY <1>6, <1>9, <3>2, <3>3
  <2> QED BY <1>3, <2>3, <2>4, <2>5
<1>16. ASSUME NEW k \in 1..n PROVE prev'[At(k)'] = At(k - 1)'
  <2>1. At(k)' = (IF k < p THEN At(k) ELSE At(k + 1))
    BY <1>10
  <2>2. At(k - 1)' = (IF k - 1 < p THEN At(k - 1) ELSE At(k - 1 + 1))
    <3>1. k - 1 \in 0..n
      OBVIOUS
    <3> QED BY <1>10, <3>1
  <2>3. CASE k < p
    <3>1. k - 1 < p /\ k \in 1..n + 1 /\ p + 1 \in 1..n + 1 /\ k # p + 1
      BY <1>3, <2>3
    <3>2. At(k) # At(p + 1) /\ At(k) \in Addresses /\ prev[At(k)] = At(k - 1)
      BY <1>5, <1>6, <3>1
    <3> QED BY <1>6, <1>9, <2>1, <2>2, <2>3, <3>1, <3>2
  <2>4. CASE k = p
    <3>1. ~(k < p) /\ k - 1 < p /\ k + 1 = p + 1 /\ p + 1 \in 1..n + 1
      BY <1>3, <2>4
    <3>2. At(p + 1) \in Addresses
      BY <1>5, <3>1
    <3> QED BY <1>6, <1>9, <2>1, <2>2, <2>4, <3>1, <3>2
  <2>5. CASE k > p
    <3>1. PICK j : j = k + 1 /\ ~(k < p) /\ ~(k - 1 < p) /\ j \in 1..n + 1 /\ p + 1 \in 1..n + 1 /\ j # p + 1
                   /\ j - 1 = k /\ k - 1 + 1 = k
      BY <1>3, <2>5
    <3>2. At(j) # At(p + 1) /\ At(j) \in Addresses /\ prev[At(j)] = At(k)
      BY <1>5, <1>6, <3>1
    <3>3. At(k)' = At(j) /\ At(k - 1)' = At(k)
      BY <2>1, <2>2, <3>1
    <3> QED BY <1>6, <1>9, <3>2, <3>3
  <2> QED BY <1>3, <2>3, <2>4, <2>5
<1>17. LinksOK'
  <2>1. n - 1 + 1 = n
    OBVIOUS
  <2> QED BY <1>4, <1>12, <1>13, <1>14, <1>15, <1>16, <2>1 DEF LinksOK
<1>18. iter' \in used' \cup {End}
  <2>1. p + 1 = n + 1 \/ p + 1 \in 1..n
    BY <1>3
  <2>2. At(p + 1) # iter
    <3>1. p \in 1..n + 1 /\ p # p + 1
      BY <1>3
    <3> QED BY <1>3, <1>5, <1>8, <3>1
  <2> QED BY <1>5, <1>9, <2>1, <2>2
<1> QED BY <1>11, <1>17, <1>18 DEF ListIInv

-----------------------------------------------------------------------------
(* The other calls.                                                        *)

LEMMA DestroyStep == ASSUME ListIInv, Destroy PROVE ListIInv'
<1>1. items' = <<>> /\ used' = {} /\ iter' = End /\ begin' = End /\ size' = size - Len(items)
      /\ next' = [next EXCEPT ![End] = Nil] /\ prev' = [prev EXCEPT ![End] = Nil]
  BY DEF Destroy
<1>2. MembersOK'
  <2>1. items' \in Seq(Node) /\ Len(items') = 0
    BY <1>1
  <2>2. {items'[k] : k \in 1..Len(items')} = {}
    BY <2>1
  <2> QED BY <1>1, <2>1, <2>2 DEF MembersOK
<1>3. size = Len(items) /\ Len(items) \in Nat
  BY DEF ListIInv, MembersOK, LinksOK
<1>4. Len(items') = 0 /\ At(1)' = End /\ At(0)' = Nil
  BY <1>1 DEF At
<1>5. next \in [Addresses -> Addresses \cup {Nil}] /\ prev \in [Addresses -> Addresses \cup {Nil}] /\ End \in Addresses
  BY DEF ListIInv, LinksOK, Addresses
<1>6. LinksOK'
  <2>1. next' \in [Addresses -> Addresses \cup {Nil}] /\ prev' \in [Addresses -> Addresses \cup {Nil}]
    BY <1>1, <1>5
  <2>2. next'[End] = Nil /\ prev'[End] = Nil
    BY <1>1, <1>5
  <2>3. begin' = At(1)' /\ size' = Len(items')
    BY <1>1, <1>3, <1>4
  <2>4. \A k \in 1..Len(items') : next'[At(k)'] = At(k + 1)'
    BY <1>4
  <2>5. \A k \in 1..Len(items') + 1 : prev'[At(k)'] = At(k - 1)'
    <3>1. ASSUME NEW k \in 1..Len(items') + 1 PROVE k = 1 /\ k - 1 = 0
      BY <1>4
    <3> QED BY <1>4, <2>2, <3>1
  <2> QED BY <2>1, <2>2, <2>3, <2>4, <2>5 DEF LinksOK
<1> QED BY <1>1, <1>2, <1>6 DEF ListIInv

\* An iterator that moves along the list stays on it.
LEMMA MoveStep == ASSUME ListIInv, Move PROVE ListIInv'
<1>1. MembersOK' /\ LinksOK' /\ used' = used
  BY DEF ListIInv, Move, MembersOK, LinksOK, At
<1>2. MembersOK /\ LinksOK /\ iter \in used \cup {End}
  BY DEF ListIInv
<1>3. Len(items) \in Nat /\ \A k \in 1..Len(items) + 1 : At(k) \in used \cup {End}
  BY <1>2, AtPlace
<1>4. begin \in used \cup {End}
  BY <1>2, <1>3 DEF LinksOK
<1>5. PICK p \in 1..Len(items) + 1 : At(p) = iter
  BY <1>2, PlaceFound
<1>6. next[iter] \in used \cup {End, Nil}
  <2>1. CASE p = Len(items) + 1
    BY <1>2, <1>5, <2>1, AtPlace DEF LinksOK
  <2>2. CASE p \in 1..Len(items)
    <3>1. p + 1 \in 1..Len(items) + 1
      BY <1>3, <2>2
    <3> QED BY <1>2, <1>3, <1>5, <2>2, <3>1 DEF LinksOK
  <2> QED BY <1>3, <2>1, <2>2
<1>7. prev[iter] \in used \cup {End, Nil}
  <2>1. prev[iter] = At(p - 1)
    BY <1>2, <1>5 DEF LinksOK
  <2>2. p - 1 = 0 \/ p - 1 \in 1..Len(items) + 1
    BY <1>3
  <2> QED BY <1>2, <1>3, <2>1, <2>2, AtPlace
<1>8. iter' \in used \cup {End}
  BY <1>4, <1>6, <1>7 DEF Move
<1> QED BY <1>1, <1>8 DEF ListIInv

LEMMA ListStarts == ASSUME ListInit PROVE ListIInv
<1>1. items = <<>> /\ used = {} /\ iter = End /\ begin = End /\ size = 0
      /\ next = [n \in Addresses |-> Nil] /\ prev = [n \in Addresses |-> Nil] /\ End \in Addresses
  BY DEF ListInit, Addresses
<1>2. items \in Seq(Node) /\ Len(items) = 0
  BY <1>1
<1>3. MembersOK
  <2>1. {items[k] : k \in 1..Len(items)} = {}
    BY <1>2
  <2> QED BY <1>1, <1>2, <2>1 DEF MembersOK
<1>4. At(1) = End /\ At(0) = Nil
  BY <1>2 DEF At
<1>5. LinksOK
  <2>1. ASSUME NEW k \in 1..Len(items) + 1 PROVE prev[At(k)] = At(k - 1)
    <3>1. k = 1 /\ k - 1 = 0
      BY <1>2
    <3> QED BY <1>1, <1>4, <3>1
  <2> QED BY <1>1, <1>2, <1>4, <2>1 DEF LinksOK
<1> QED BY <1>1, <1>3, <1>5 DEF ListIInv

\* The list is as its calls made it, for any number of members.
THEOREM ListInvariance == ListSpec => []ListIInv
<1>1. ListIInv /\ [ListNext]_listVars => ListIInv'
  <2> SUFFICES ASSUME ListIInv, [ListNext]_listVars PROVE ListIInv'
    OBVIOUS
  <2>1. CASE ListNext
    BY <2>1, InsertBeforeStep, InsertAfterStep, EraseStep, DestroyStep, MoveStep DEF ListNext
  <2>2. CASE UNCHANGED listVars
    BY <2>2 DEF listVars, ListIInv, MembersOK, LinksOK, At
  <2> QED BY <2>1, <2>2
<1> QED BY <1>1, ListStarts, PTL DEF ListSpec

\* Forwards and backwards the list has the members in the order the calls asked for, for any
\* number of members and any calls.
THEOREM ListReadsAsCalled == ListSpec => []ListIsSequence
<1>1. ListIInv => ListIsSequence
  <2> SUFFICES ASSUME ListIInv PROVE ListIsSequence
    OBVIOUS
  <2>1. MembersOK /\ LinksOK
    BY DEF ListIInv
  <2> DEFINE Link(k) == CASE k = 0 -> Nil [] k = Len(items) + 1 -> End [] OTHER -> items[k]
  <2>2. Len(items) \in Nat
    BY <2>1, AtPlace
  <2>3. \A k \in 0..Len(items) + 1 : Link(k) = At(k)
    BY <2>2 DEF At
  <2>4. begin = Link(1) /\ size = Len(items) /\ next[End] = Nil
    BY <2>1, <2>2, <2>3 DEF LinksOK
  <2>5. ASSUME NEW k \in 1..Len(items) PROVE next[items[k]] = Link(k + 1) /\ items[k] \in used
    <3>1. k + 1 \in 0..Len(items) + 1
      BY <2>2
    <3>2. next[At(k)] = At(k + 1) /\ At(k) = items[k] /\ At(k) \in used
      BY <2>1, AtPlace DEF LinksOK
    <3> QED BY <2>3, <3>1, <3>2
  <2>6. ASSUME NEW k \in 1..Len(items) + 1 PROVE prev[Link(k)] = Link(k - 1)
    <3>1. k \in 0..Len(items) + 1 /\ k - 1 \in 0..Len(items) + 1
      BY <2>2
    <3>2. prev[At(k)] = At(k - 1)
      BY <2>1 DEF LinksOK
    <3> QED BY <2>3, <3>1, <3>2
  <2> HIDE DEF Link
  <2> QED BY <2>4, <2>5, <2>6 DEF ListIsSequence, Link
<1> QED BY <1>1, ListInvariance, PTL

-----------------------------------------------------------------------------
(* The keyboard: from a key to the code of it, and back.                   *)

\* The longest code of a key has six bytes, of which a read takes one at least.
LongestCodeFits == QueueSize >= 5

Event == Key \X BOOLEAN
Character == Key \cup {"a", "A", "4", "$", "esc", "[", "2", "3", "5", "6", "~"}
Given == Character \cup Event
Mods == Holding \cup Locking

\* The modifiers by the keys that are down and the locks that are on.
Held == (down \cap Holding) \cup locked

\* The keys that the terminals keep for themselves.
Kept(k, mods) ==
    \/ k \in {"KEYCODE_F1", "KEYCODE_F2"}
    \/ k \in {"KEYCODE_PGUP", "KEYCODE_PGDOWN"} /\ mods \cap Shift # {}

\* The keyboard still has to send some of the bytes of a key, and the handler knows which.
Low(k, up) == (KeyCode[k] % 128) + (IF up THEN 128 ELSE 0)

Arriving(k, up) ==
    \/ wire = Sent(k, up) /\ escaped = 0
    \/ /\ k = "Pause" /\ escaped = 2 /\ oli_escaped = 128
       /\ wire = <<29 + (IF up THEN 128 ELSE 0), Low(k, up)>>
    \/ KeyCode[k] > 128 /\ wire = <<Low(k, up)>> /\ escaped = 1 /\ oli_escaped = 128

\* The codes tell the keys apart, and none is like a prefix.
LEMMA CodesAreKeys ==
  ASSUME NEW k \in Key
  PROVE  /\ KeyCode[k] \in Int /\ KeyCode[k] # 128 /\ (KeyCode[k] % 128) \in (0..95 \cup 98..127)
         /\ KeyCode[k] = (KeyCode[k] % 128) + (IF KeyCode[k] > 128 THEN 128 ELSE 0)
         /\ KeyOf(KeyCode[k]) = {k}
<1>1. /\ KeyCode[k] \in Int /\ KeyCode[k] # 128 /\ (KeyCode[k] % 128) \in (0..95 \cup 98..127)
      /\ KeyCode[k] = (KeyCode[k] % 128) + (IF KeyCode[k] > 128 THEN 128 ELSE 0)
  BY DEF Key, KeyCode
<1>2. \A j \in Key : KeyCode[j] = KeyCode[k] => j = k
  BY DEF Key, KeyCode
<1> QED BY <1>1, <1>2 DEF KeyOf

\* A byte of a key: there are more to come, or the key is known.
LEMMA ByteArrives ==
  ASSUME NEW k \in Key, NEW up \in BOOLEAN, Arriving(k, up), Interrupt
  PROVE  /\ wire # <<>>
         /\ \/ Arriving(k, up)' /\ wire' # <<>> /\ UNCHANGED <<cur_vt, vts, astray>>
            \/ wire' = <<>> /\ escaped' = 0 /\ vt_keyboard_event(k, up)
<1> DEFINE low == Low(k, up)
           code == Head(wire)
           left == IF escaped > 0 THEN escaped - 1 ELSE 0
           known == KeyOf((code % 128) + Prefix)
<1>0. wire # <<>>
  BY DEF Interrupt
<1>1. /\ wire' = Tail(wire)
      /\ IF code \in {224, 225} THEN escaped' = code - 223 /\ oli_escaped' = 128
         ELSE escaped' = left /\ oli_escaped' = Prefix
      /\ IF code \in {224, 225} \/ left > 0 \/ known = {} THEN UNCHANGED <<cur_vt, vts, astray>>
         ELSE vt_keyboard_event(CHOOSE j \in known : TRUE, code > 127)
  BY DEF Interrupt
<1>2. /\ KeyCode[k] \in Int /\ KeyCode[k] # 128 /\ (KeyCode[k] % 128) \in (0..95 \cup 98..127)
      /\ KeyCode[k] = (KeyCode[k] % 128) + (IF KeyCode[k] > 128 THEN 128 ELSE 0)
      /\ KeyOf(KeyCode[k]) = {k}
  BY CodesAreKeys
<1>3. low \in Int /\ low \notin {224, 225} /\ low % 128 = KeyCode[k] % 128 /\ (low > 127 <=> up)
  BY <1>2 DEF Low
<1>4. ASSUME code = low, KeyCode[k] = (KeyCode[k] % 128) + Prefix, left = 0, wire' = <<>>
      PROVE  wire' = <<>> /\ escaped' = 0 /\ vt_keyboard_event(k, up)
  <2>1. known = {k} /\ (CHOOSE j \in known : TRUE) = k
    BY <1>2, <1>3, <1>4
  <2>2. (code > 127) = up
    BY <1>3, <1>4
  <2>3. code \notin {224, 225}
    BY <1>3, <1>4
  <2>4. ~(left > 0)
    BY <1>4
  <2>5. known # {}
    BY <2>1
  <2> HIDE DEF code, left, known, low
  <2>6. escaped' = left /\ vt_keyboard_event(CHOOSE j \in known : TRUE, code > 127)
    BY <1>1, <2>3, <2>4, <2>5
  <2> QED BY <1>4, <2>1, <2>2, <2>6
<1>5. CASE wire = Sent(k, up) /\ escaped = 0
  <2>1. CASE k = "Pause"
    <3>1. wire = <<225, 29 + (IF up THEN 128 ELSE 0), low>>
      BY <1>5, <2>1 DEF Sent, Low
    <3>2. code = 225 /\ wire' = <<29 + (IF up THEN 128 ELSE 0), low>>
      BY <1>1, <3>1
    <3>3. escaped' = 2 /\ oli_escaped' = 128 /\ UNCHANGED <<cur_vt, vts, astray>>
      BY <1>1, <3>2
    <3>4. Arriving(k, up)' /\ wire' # <<>>
      BY <2>1, <3>2, <3>3 DEF Arriving
    <3> QED BY <1>0, <3>3, <3>4
  <2>2. CASE k # "Pause" /\ KeyCode[k] > 128
    <3>1. wire = <<224, low>>
      BY <1>5, <2>2 DEF Sent, Low
    <3>2. code = 224 /\ wire' = <<low>>
      BY <1>1, <3>1
    <3>3. escaped' = 1 /\ oli_escaped' = 128 /\ UNCHANGED <<cur_vt, vts, astray>>
      BY <1>1, <3>2
    <3>4. Arriving(k, up)' /\ wire' # <<>>
      BY <2>2, <3>2, <3>3 DEF Arriving
    <3> QED BY <1>0, <3>3, <3>4
  <2>3. CASE k # "Pause" /\ ~(KeyCode[k] > 128)
    <3>1. wire = <<low>>
      BY <1>5, <2>3 DEF Sent, Low
    <3>2. code = low /\ wire' = <<>>
      BY <1>1, <3>1
    <3>3. KeyCode[k] = (KeyCode[k] % 128) + Prefix /\ left = 0
      BY <1>2, <1>5, <2>3 DEF Prefix
    <3>4. wire' = <<>> /\ escaped' = 0 /\ vt_keyboard_event(k, up)
      BY <1>4, <3>2, <3>3
    <3> QED BY <1>0, <3>4
  <2> QED BY <2>1, <2>2, <2>3
<1>6. CASE /\ k = "Pause" /\ escaped = 2 /\ oli_escaped = 128
           /\ wire = <<29 + (IF up THEN 128 ELSE 0), low>>
  <2>1. code = 29 + (IF up THEN 128 ELSE 0) /\ wire' = <<low>>
    BY <1>1, <1>6
  <2>2. code \notin {224, 225} /\ left = 1 /\ Prefix = 128
    BY <1>6, <2>1 DEF Prefix
  <2>3. escaped' = 1 /\ oli_escaped' = 128 /\ UNCHANGED <<cur_vt, vts, astray>>
    BY <1>1, <2>2
  <2>4. KeyCode[k] > 128
    BY <1>6 DEF KeyCode
  <2>5. Arriving(k, up)' /\ wire' # <<>>
    BY <2>1, <2>3, <2>4 DEF Arriving
  <2> QED BY <1>0, <2>3, <2>5
<1>7. CASE KeyCode[k] > 128 /\ wire = <<low>> /\ escaped = 1 /\ oli_escaped = 128
  <2>1. code = low /\ wire' = <<>>
    BY <1>1, <1>7
  <2>2. KeyCode[k] = (KeyCode[k] % 128) + Prefix /\ left = 0
    BY <1>2, <1>7 DEF Prefix
  <2>3. wire' = <<>> /\ escaped' = 0 /\ vt_keyboard_event(k, up)
    BY <1>4, <2>1, <2>2
  <2> QED BY <1>0, <2>3
<1> QED BY <1>5, <1>6, <1>7 DEF Arriving

\* While a key arrives there is something on the wire.
LEMMA ArrivingIsOnWire ==
  ASSUME NEW k \in Key, NEW up \in BOOLEAN, Arriving(k, up)
  PROVE  wire # <<>>
<1>1. Sent(k, up) # <<>>
  BY DEF Sent
<1>2. CASE wire = Sent(k, up)
  BY <1>1, <1>2
<1>3. CASE wire = <<29 + (IF up THEN 128 ELSE 0), Low(k, up)>>
  BY <1>3
<1>4. CASE wire = <<Low(k, up)>>
  BY <1>4
<1> QED BY <1>2, <1>3, <1>4 DEF Arriving

-----------------------------------------------------------------------------
(* The modifiers, and what an event gives.                                 *)

\* Only modifiers are added.
LEMMA ModsAreMods ==
  ASSUME NEW mods \in SUBSET Mods, NEW k \in Key, NEW up \in BOOLEAN
  PROVE  do_kb_mods(mods, k, up) \in SUBSET Mods
  BY DEF do_kb_mods, Mods

\* A key that gives something does not change them, so it does not matter when one looks.
LEMMA ItemLooksAnyTime ==
  ASSUME NEW m, NEW k \in Key, NEW up \in BOOLEAN, NEW mods
  PROVE  Item(m, k, up, mods) = Item(m, k, up, do_kb_mods(mods, k, up))
<1>1. CASE m = "rawevents"
  BY <1>1 DEF Item
<1>2. CASE m # "rawevents" /\ (up \/ k \in Holding \cup Locking)
  <2>1. CASE m = "old"
    BY <1>2, <2>1 DEF Item
  <2>2. CASE m # "old"
    BY <1>2, <2>2 DEF Item
  <2> QED BY <2>1, <2>2
<1>3. CASE ~(up \/ k \in Holding \cup Locking)
  <2>1. do_kb_mods(mods, k, up) = mods
    BY <1>3 DEF do_kb_mods
  <2> QED BY <2>1
<1> QED BY <1>1, <1>2, <1>3

LEMMA AsciiIsCharacter ==
  ASSUME NEW k \in Key, NEW mods
  PROVE  key_to_ascii(k, mods) \in Character
<1>1. k \in Character
  BY DEF Character
<1>2. CASE k = "KEYCODE_A"
  <2>1. k \in DOMAIN Table /\ Table[k] = <<"a", "A", "a">>
    BY <1>2 DEF Table
  <2>2. key_to_ascii(k, mods) \in {"a", "A"}
    BY <1>2, <2>1 DEF key_to_ascii
  <2> QED BY <2>2 DEF Character
<1>3. CASE k = "KEYCODE_4"
  <2>1. k \in DOMAIN Table /\ Table[k] = <<"4", "none", "$">>
    BY <1>3 DEF Table
  <2>2. key_to_ascii(k, mods) \in {"4", "$", k}
    BY <1>3, <2>1 DEF key_to_ascii
  <2> QED BY <1>1, <2>2 DEF Character
<1>4. CASE k # "KEYCODE_A" /\ k # "KEYCODE_4"
  <2>1. k \notin DOMAIN Table
    BY <1>4 DEF Table
  <2> QED BY <1>1, <1>4, <2>1 DEF key_to_ascii
<1> QED BY <1>2, <1>3, <1>4

LEMMA BytesOfCharacter ==
  ASSUME NEW c \in Character
  PROVE  Bytes(c) \in Seq(Character) /\ Len(Bytes(c)) <= 6
<1>1. CASE c \in DOMAIN Code
  <2>1. Bytes(c) = Code[c]
    BY <1>1 DEF Bytes
  <2>2. c \in {"KEYCODE_UP", "KEYCODE_PGUP", "KEYCODE_PGDOWN", "KEYCODE_F11"}
    BY <1>1 DEF Code
  <2>3. {"esc", "[", "A", "2", "3", "5", "6", "~"} \subseteq Character
    BY DEF Character
  <2>4. CASE c = "KEYCODE_UP"
    <3>1. Code[c] = <<"esc", "[", "A">>
      BY <2>4 DEF Code
    <3> QED BY <2>1, <2>3, <3>1
  <2>5. CASE c \in {"KEYCODE_PGUP", "KEYCODE_PGDOWN"}
    <3>1. Code[c] = <<"esc", "[", "5", "~">> \/ Code[c] = <<"esc", "[", "6", "~">>
      BY <2>5 DEF Code
    <3>2. PICK d : d \in {"5", "6"} /\ Code[c] = <<"esc", "[", d, "~">>
      BY <3>1
    <3>3. d \in Character
      BY <3>2 DEF Character
    <3> QED BY <2>1, <2>3, <3>2, <3>3
  <2>6. CASE c = "KEYCODE_F11"
    <3>1. Code[c] = <<"esc", "[", "[", "2", "3", "~">>
      BY <2>6 DEF Code
    <3> QED BY <2>1, <2>3, <3>1
  <2> QED BY <2>2, <2>4, <2>5, <2>6
<1>2. CASE c \notin DOMAIN Code
  <2>1. CASE c \in Key
    <3>1. Bytes(c) = <<>>
      BY <1>2, <2>1 DEF Bytes
    <3> QED BY <3>1
  <2>2. CASE c \notin Key
    <3>1. Bytes(c) = <<c>>
      BY <1>2, <2>2 DEF Bytes
    <3> QED BY <3>1
  <2> QED BY <2>1, <2>2
<1> QED BY <1>1, <1>2

LEMMA ItemIsGiven ==
  ASSUME NEW m, NEW k \in Key, NEW up \in BOOLEAN, NEW mods
  PROVE  /\ Item(m, k, up, mods) \in Seq(Given) /\ Len(Item(m, k, up, mods)) \in 0..6
<1>1. CASE m = "rawevents"
  <2>1. Item(m, k, up, mods) = <<<<k, up>>>>
    BY <1>1 DEF Item
  <2>2. <<k, up>> \in Given
    BY DEF Given, Event
  <2> QED BY <2>1, <2>2
<1>2. CASE m # "rawevents" /\ (up \/ k \in Holding \cup Locking)
  <2>1. Item(m, k, up, mods) = <<>>
    <3>1. CASE m = "old"
      BY <1>2, <3>1 DEF Item
    <3>2. CASE m # "old"
      BY <1>2, <3>2 DEF Item
    <3> QED BY <3>1, <3>2
  <2> QED BY <2>1
<1>3. CASE m # "rawevents" /\ ~(up \/ k \in Holding \cup Locking) /\ m = "old"
  <2>1. Item(m, k, up, mods) = <<key_to_ascii(k, mods)>>
    BY <1>3 DEF Item
  <2>2. key_to_ascii(k, mods) \in Given
    BY AsciiIsCharacter DEF Given
  <2>3. PICK c : c = key_to_ascii(k, mods)
    OBVIOUS
  <2> QED BY <2>1, <2>2, <2>3
<1>4. CASE m # "rawevents" /\ ~(up \/ k \in Holding \cup Locking) /\ m # "old"
  <2>1. PICK b : b = Bytes(key_to_ascii(k, mods))
    OBVIOUS
  <2>2. Item(m, k, up, mods) = b
    BY <1>4, <2>1 DEF Item
  <2>3. b \in Seq(Character) /\ Len(b) <= 6
    BY <2>1, AsciiIsCharacter, BytesOfCharacter
  <2>4. Character \subseteq Given
    BY DEF Given
  <2>5. b \in Seq(Given)
    BY <2>3, <2>4, SeqMonotonic
  <2>6. Len(b) \in Nat
    BY <2>5, LenProperties
  <2>7. Len(b) \in 0..6
    <3>1. PICK n : n = Len(b)
      OBVIOUS
    <3>2. n \in Nat /\ n <= 6
      BY <2>3, <2>6, <3>1
    <3>3. n \in 0..6
      BY <3>2
    <3> QED BY <3>1, <3>3
  <2> QED BY <2>2, <2>5, <2>7
<1> QED BY <1>1, <1>2, <1>3, <1>4

\* A key that moves moves the modifiers as its event will.
LEMMA HeldMoves ==
  ASSUME NEW k \in Key, locked \subseteq Locking,
         down' = IF k \in down THEN down \ {k} ELSE down \cup {k},
         locked' = IF k \in Locking /\ ~(k \in down) THEN (locked \cup {k}) \ (locked \cap {k}) ELSE locked
  PROVE  Held' = do_kb_mods(Held, k, k \in down) /\ locked' \subseteq Locking
<1>1. Holding \cap Locking = {}
  BY DEF Holding, Locking
<1>2. CASE k \in Holding
  BY <1>1, <1>2 DEF Held, do_kb_mods
<1>3. CASE k \notin Holding
  BY <1>1, <1>3 DEF Held, do_kb_mods
<1> QED BY <1>2, <1>3
-----------------------------------------------------------------------------
(* The account of a terminal.                                              *)

\* M and O follow the events: the modifiers behind each, and what has been given by then.
Told(M, O, events, m) ==
    /\ M \in [0..Len(events) -> SUBSET Mods] /\ O \in [0..Len(events) -> Seq(Given)]
    /\ \A i \in 1..Len(events) :
          /\ M[i] = do_kb_mods(M[i - 1], events[i][1], events[i][2])
          /\ O[i] = O[i - 1] \o Item(m, events[i][1], events[i][2], M[i])

\* They end with the modifiers of the interrupt, and with what is due but for what is on the
\* wire; and what is due begins with what has been given by then, all the way.
Tells(M, O, count, held, item, meant) ==
    /\ M[count] = held /\ O[count] \o item = meant
    /\ \A i \in 0..count : StartsWith(meant, O[i])

Accounts(mods, read, events, m, held, item, meant) ==
    \E M, O : /\ Told(M, O, events, m) /\ M[0] = mods /\ O[0] = read
              /\ Tells(M, O, Len(events), held, item, meant)

\* A sequence begins with each of its parts, and a longer one with what it began with.
LEMMA ItStartsWith ==
  ASSUME NEW S, NEW s \in Seq(S), NEW t \in Seq(S)
  PROVE  StartsWith(s \o t, s)
<1>1. Len(s) \in Nat /\ Len(t) \in Nat /\ Len(s \o t) = Len(s) + Len(t)
  BY LenProperties, ConcatProperties
<1>2. SubSeq(s, 1, Len(s)) = s
  BY SubSeqFull
<1>3. CASE Len(s) = 0
  <2>1. SubSeq(s \o t, 1, Len(s)) = <<>> /\ SubSeq(s, 1, Len(s)) = <<>>
    BY <1>3, SubSeqEmpty
  <2> QED BY <1>1, <1>2, <2>1 DEF StartsWith
<1>4. CASE Len(s) # 0
  <2>1. 1 \in 1..Len(s) /\ Len(s) \in 1..Len(s)
    BY <1>1, <1>4
  <2>2. SubSeq(s \o t, 1, Len(s)) = SubSeq(s, 1, Len(s))
    BY <2>1, SubSeqOfConcat1
  <2> QED BY <1>1, <1>2, <2>2 DEF StartsWith
<1> QED BY <1>3, <1>4

LEMMA StillStartsWith ==
  ASSUME NEW S, NEW s \in Seq(S), NEW t \in Seq(S), NEW part \in Seq(S), StartsWith(s, part)
  PROVE  StartsWith(s \o t, part)
<1>1. Len(part) <= Len(s) /\ part = SubSeq(s, 1, Len(part))
  BY DEF StartsWith
<1>2. /\ Len(s) \in Nat /\ Len(t) \in Nat /\ Len(part) \in Nat /\ Len(s \o t) = Len(s) + Len(t)
  BY LenProperties, ConcatProperties
<1>3. SubSeq(s \o t, 1, Len(part)) = SubSeq(s, 1, Len(part))
  <2>1. CASE Len(part) = 0
    BY <2>1, SubSeqEmpty
  <2>2. CASE Len(part) # 0
    <3>1. 1 \in 1..Len(s) /\ Len(part) \in 1..Len(s)
      BY <1>1, <1>2, <2>2
    <3> QED BY <3>1, SubSeqOfConcat1
  <2> QED BY <2>1, <2>2
<1>4. Len(part) <= Len(s \o t)
  BY <1>1, <1>2
<1> QED BY <1>1, <1>3, <1>4 DEF StartsWith

LEMMA StartsWithItself ==
  ASSUME NEW S, NEW s \in Seq(S)
  PROVE  StartsWith(s, s)
<1>1. s \o <<>> = s /\ <<>> \in Seq(S)
  BY ConcatEmptySeq, EmptySeq
<1> QED BY <1>1, ItStartsWith

\* A key is typed: what it means is on the wire, and due.
LEMMA KeyIsDue ==
  ASSUME NEW mods, NEW read, NEW events, NEW m, NEW held, NEW meant \in Seq(Given), NEW item \in Seq(Given),
         Len(events) \in Nat, Accounts(mods, read, events, m, held, <<>>, meant)
  PROVE  Accounts(mods, read, events, m, held, item, meant \o item)
<1>1. PICK M, O : /\ Told(M, O, events, m) /\ M[0] = mods /\ O[0] = read
                  /\ Tells(M, O, Len(events), held, <<>>, meant)
  BY DEF Accounts
<1>2. PICK n : n = Len(events)
  OBVIOUS
<1>3. /\ n \in Nat /\ n \in 0..n /\ O \in [0..n -> Seq(Given)]
      /\ M[n] = held /\ O[n] \o <<>> = meant
      /\ \A i \in 0..n : StartsWith(meant, O[i])
  BY <1>1, <1>2 DEF Told, Tells
<1>4. \A i \in 0..n : O[i] \in Seq(Given)
  BY <1>3
<1>5. O[n] \o <<>> = O[n]
  BY <1>3, <1>4, ConcatEmptySeq
<1>6. O[n] \o item = meant \o item
  BY <1>3, <1>5
<1>7. \A i \in 0..n : StartsWith(meant \o item, O[i])
  BY <1>3, <1>4, StillStartsWith
<1>8. Tells(M, O, n, held, item, meant \o item)
  BY <1>3, <1>6, <1>7 DEF Tells
<1> QED BY <1>1, <1>2, <1>8 DEF Accounts

\* The event comes.
LEMMA EventComes ==
  ASSUME NEW mods, NEW read, NEW events \in Seq(Event), NEW m, NEW held \in SUBSET Mods, NEW meant \in Seq(Given),
         NEW k \in Key, NEW up \in BOOLEAN,
         Accounts(mods, read, events, m, held, Item(m, k, up, held), meant)
  PROVE  Accounts(mods, read, Append(events, <<k, up>>), m, do_kb_mods(held, k, up), <<>>, meant)
<1>1. PICK M, O : /\ Told(M, O, events, m) /\ M[0] = mods /\ O[0] = read
                  /\ Tells(M, O, Len(events), held, Item(m, k, up, held), meant)
  BY DEF Accounts
<1>2. PICK n : n = Len(events)
  OBVIOUS
<1>3. PICK more : more = Append(events, <<k, up>>)
  OBVIOUS
<1>4. PICK then : then = do_kb_mods(held, k, up)
  OBVIOUS
<1>5. /\ n \in Nat /\ Len(more) = n + 1 /\ more[n + 1] = <<k, up>>
      /\ \A i \in 1..n : more[i] = events[i]
  <2>1. <<k, up>> \in Event
    BY DEF Event
  <2> QED BY <1>2, <1>3, <2>1, AppendProperties, LenProperties
<1>6. /\ M \in [0..n -> SUBSET Mods] /\ O \in [0..n -> Seq(Given)]
      /\ \A i \in 1..n :
            /\ M[i] = do_kb_mods(M[i - 1], events[i][1], events[i][2])
            /\ O[i] = O[i - 1] \o Item(m, events[i][1], events[i][2], M[i])
      /\ M[n] = held /\ O[n] \o Item(m, k, up, held) = meant
      /\ \A i \in 0..n : StartsWith(meant, O[i])
  BY <1>1, <1>2 DEF Told, Tells
<1>7. PICK N : N = [i \in 0..(n + 1) |-> IF i = n + 1 THEN then ELSE M[i]]
  OBVIOUS
<1>8. PICK P : P = [i \in 0..(n + 1) |-> IF i = n + 1 THEN meant ELSE O[i]]
  OBVIOUS
<1>9. /\ N[n + 1] = then /\ P[n + 1] = meant
      /\ \A i \in 0..n : N[i] = M[i] /\ P[i] = O[i]
      /\ 0 \in 0..n /\ n \in 0..n
  BY <1>5, <1>7, <1>8
<1>10. then \in SUBSET Mods
  BY <1>4, ModsAreMods
<1>11. N \in [0..(n + 1) -> SUBSET Mods] /\ P \in [0..(n + 1) -> Seq(Given)]
  <2>1. ASSUME NEW i \in 0..(n + 1)
        PROVE  N[i] \in SUBSET Mods /\ P[i] \in Seq(Given)
    <3>1. CASE i = n + 1
      BY <1>9, <1>10, <3>1
    <3>2. CASE i # n + 1
      <4>1. i \in 0..n
        BY <1>5, <3>2
      <4> QED BY <1>6, <1>9, <4>1
    <3> QED BY <3>1, <3>2
  <2> QED BY <1>7, <1>8, <2>1
<1>12. ASSUME NEW i \in 1..(n + 1)
       PROVE  /\ N[i] = do_kb_mods(N[i - 1], more[i][1], more[i][2])
              /\ P[i] = P[i - 1] \o Item(m, more[i][1], more[i][2], N[i])
  <2>1. CASE i = n + 1
    <3>1. i - 1 = n /\ N[i - 1] = held /\ P[i - 1] = O[n] /\ N[i] = then /\ P[i] = meant
      BY <1>5, <1>6, <1>9, <2>1
    <3>2. more[i][1] = k /\ more[i][2] = up
      BY <1>5, <2>1
    <3>3. Item(m, k, up, held) = Item(m, k, up, then)
      BY <1>4, ItemLooksAnyTime
    <3>4. meant = O[n] \o Item(m, k, up, then)
      BY <1>6, <3>3
    <3> QED BY <1>4, <3>1, <3>2, <3>4
  <2>2. CASE i # n + 1
    <3>1. i \in 1..n /\ i \in 0..n /\ i - 1 \in 0..n
      BY <1>5, <2>2
    <3>2. more[i] = events[i] /\ N[i] = M[i] /\ N[i - 1] = M[i - 1] /\ P[i] = O[i] /\ P[i - 1] = O[i - 1]
      BY <1>5, <1>9, <3>1
    <3> QED BY <1>6, <3>1, <3>2
  <2> QED BY <2>1, <2>2
<1>13. Told(N, P, more, m)
  BY <1>5, <1>11, <1>12 DEF Told
<1>14. P[n + 1] \o <<>> = meant
  BY <1>9, ConcatEmptySeq
<1>15. \A i \in 0..(n + 1) : StartsWith(meant, P[i])
  <2>1. ASSUME NEW i \in 0..(n + 1)
        PROVE  StartsWith(meant, P[i])
    <3>1. CASE i = n + 1
      BY <1>9, <3>1, StartsWithItself
    <3>2. CASE i # n + 1
      <4>1. i \in 0..n
        BY <1>5, <3>2
      <4> QED BY <1>6, <1>9, <4>1
    <3> QED BY <3>1, <3>2
  <2> QED BY <2>1
<1>16. Tells(N, P, Len(more), then, <<>>, meant)
  BY <1>5, <1>9, <1>14, <1>15 DEF Tells
<1>17. N[0] = mods /\ P[0] = read
  BY <1>1, <1>9
<1>18. Accounts(mods, read, more, m, then, <<>>, meant)
  BY <1>13, <1>16, <1>17 DEF Accounts
<1> QED BY <1>3, <1>4, <1>18

\* The account goes on from where a read has stopped.
LEMMA AccountGoesOn ==
  ASSUME NEW events \in Seq(Event), NEW m, NEW held, NEW item, NEW meant, NEW M, NEW O,
         Told(M, O, events, m), Tells(M, O, Len(events), held, item, meant), NEW u \in 0..Len(events)
  PROVE  /\ SubSeq(events, u + 1, Len(events)) \in Seq(Event)
         /\ Accounts(M[u], O[u], SubSeq(events, u + 1, Len(events)), m, held, item, meant)
<1>1. PICK n : n = Len(events)
  OBVIOUS
<1>2. PICK rest : rest = SubSeq(events, u + 1, n)
  OBVIOUS
<1>3. /\ n \in Nat /\ u \in 0..n /\ n - u \in Nat
      /\ \A i \in 1..n : events[i] \in Event
  <2>1. n \in Nat
    BY <1>1, LenProperties
  <2> QED BY <1>1, <2>1, ElementOfSeq
<1>4. /\ rest \in Seq(Event) /\ Len(rest) = n - u
      /\ \A i \in 1..(n - u) : rest[i] = events[i + u]
  <2>1. u + 1 \in Int /\ n \in Int /\ \A i \in (u + 1)..n : events[i] \in Event
    BY <1>3
  <2>2. /\ rest \in Seq(Event) /\ Len(rest) = IF u + 1 <= n THEN n - (u + 1) + 1 ELSE 0
        /\ \A i \in 1..(n - (u + 1) + 1) : rest[i] = events[u + 1 + i - 1]
    BY <1>2, <2>1, SubSeqProperties
  <2>3. n - (u + 1) + 1 = n - u /\ (~(u + 1 <= n) => n - u = 0)
    BY <1>3
  <2>4. ASSUME NEW i \in 1..(n - u)
        PROVE  rest[i] = events[i + u]
    <3>1. u + 1 + i - 1 = i + u
      BY <1>3
    <3> QED BY <2>2, <2>3, <3>1
  <2> QED BY <2>2, <2>3, <2>4
<1>5. /\ M \in [0..n -> SUBSET Mods] /\ O \in [0..n -> Seq(Given)]
      /\ \A i \in 1..n :
            /\ M[i] = do_kb_mods(M[i - 1], events[i][1], events[i][2])
            /\ O[i] = O[i - 1] \o Item(m, events[i][1], events[i][2], M[i])
      /\ M[n] = held /\ O[n] \o item = meant
      /\ \A i \in 0..n : StartsWith(meant, O[i])
  BY <1>1 DEF Told, Tells
<1>6. PICK N : N = [i \in 0..(n - u) |-> M[i + u]]
  OBVIOUS
<1>7. PICK P : P = [i \in 0..(n - u) |-> O[i + u]]
  OBVIOUS
<1>8. \A i \in 0..(n - u) : i + u \in 0..n
  BY <1>3
<1>9. \A i \in 0..(n - u) : N[i] = M[i + u] /\ P[i] = O[i + u]
  BY <1>6, <1>7
<1>10. N \in [0..(n - u) -> SUBSET Mods] /\ P \in [0..(n - u) -> Seq(Given)]
  BY <1>5, <1>6, <1>7, <1>8
<1>11. ASSUME NEW i \in 1..(n - u)
       PROVE  /\ N[i] = do_kb_mods(N[i - 1], rest[i][1], rest[i][2])
              /\ P[i] = P[i - 1] \o Item(m, rest[i][1], rest[i][2], N[i])
  <2>1. i + u \in 1..n /\ i \in 0..(n - u) /\ i - 1 \in 0..(n - u) /\ (i - 1) + u = (i + u) - 1
    BY <1>3
  <2>2. PICK j : j = i + u
    OBVIOUS
  <2>3. /\ rest[i] = events[j] /\ N[i] = M[j] /\ N[i - 1] = M[j - 1]
        /\ P[i] = O[j] /\ P[i - 1] = O[j - 1] /\ j \in 1..n
    BY <1>4, <1>9, <2>1, <2>2
  <2> QED BY <1>5, <2>3
<1>12. Told(N, P, rest, m)
  BY <1>4, <1>10, <1>11 DEF Told
<1>13. N[n - u] = M[n] /\ P[n - u] = O[n] /\ N[0] = M[u] /\ P[0] = O[u]
  <2>1. n - u \in 0..(n - u) /\ (n - u) + u = n /\ 0 \in 0..(n - u) /\ 0 + u = u
    BY <1>3
  <2> QED BY <1>9, <2>1
<1>14. \A i \in 0..(n - u) : StartsWith(meant, P[i])
  BY <1>5, <1>8, <1>9
<1>15. Tells(N, P, Len(rest), held, item, meant)
  BY <1>4, <1>5, <1>13, <1>14 DEF Tells
<1>16. Accounts(M[u], O[u], rest, m, held, item, meant)
  BY <1>12, <1>13, <1>15 DEF Accounts
<1> QED BY <1>1, <1>2, <1>4, <1>16

-----------------------------------------------------------------------------
(* The loop of vt_fread().                                                 *)

Reads(s, c, begun, events, m, n) ==
    s = [i \in 0..c |-> IF i = 0 THEN begun ELSE ReadEvent(s[i - 1], events[i], m, n)]

\* What has been read when i events have been there to read: g was given before.
ReadOK(r, i, M, O, g, n) ==
    /\ r.used \in 0..i /\ (r.used = i \/ Len(r.out) >= n)
    /\ r.out \in Seq(Given) /\ r.queue \in Seq(Given)
    /\ r.mods = M[r.used]
    /\ ~r.overtaken => (g \o r.out) \o r.queue = O[r.used] /\ Len(r.queue) <= QueueSize

\* The loop has its rounds.
LEMMA ReadsExist ==
  ASSUME NEW begun, NEW events, NEW m, NEW n, NEW count \in Nat
  PROVE  \E s : Reads(s, count, begun, events, m, n)
<1> DEFINE Bad == {c \in Nat : ~\E s : Reads(s, c, begun, events, m, n)}
<1>1. SUFFICES ASSUME Bad # {} PROVE FALSE
  OBVIOUS
<1>2. PICK c \in Bad : \A k \in Bad : c <= k
  BY <1>1, Least
<1>3. c # 0
  <2>1. Reads([i \in 0..0 |-> begun], 0, begun, events, m, n)
    BY DEF Reads
  <2>2. 0 \notin Bad
    BY <2>1
  <2> QED BY <1>2, <2>2
<1>4. c \in Nat /\ c - 1 \in Nat /\ c - 1 \notin Bad
  BY <1>2, <1>3
<1>5. PICK s : Reads(s, c - 1, begun, events, m, n)
  BY <1>4
<1>6. \A i \in 0..(c - 1) : s[i] = IF i = 0 THEN begun ELSE ReadEvent(s[i - 1], events[i], m, n)
  BY <1>5 DEF Reads
<1>7. PICK latest : latest = ReadEvent(s[c - 1], events[c], m, n)
  OBVIOUS
<1>8. PICK t : t = [i \in 0..c |-> IF i = c THEN latest ELSE s[i]]
  OBVIOUS
<1>9. ASSUME NEW i \in 0..c
      PROVE  t[i] = IF i = 0 THEN begun ELSE ReadEvent(t[i - 1], events[i], m, n)
  <2>1. CASE i = 0
    BY <1>3, <1>4, <1>6, <1>8, <2>1
  <2>2. CASE i # 0
    <3>1. i - 1 \in 0..c /\ i - 1 # c /\ t[i - 1] = s[i - 1]
      BY <1>4, <1>8, <2>2
    <3>2. CASE i = c
      BY <1>4, <1>7, <1>8, <2>2, <3>1, <3>2
    <3>3. CASE i # c
      <4>1. i \in 0..(c - 1) /\ t[i] = s[i]
        BY <1>4, <1>8, <3>3
      <4> QED BY <1>6, <2>2, <3>1, <4>1
    <3> QED BY <3>2, <3>3
  <2> QED BY <2>1, <2>2
<1>10. t = [i \in 0..c |-> IF i = 0 THEN begun ELSE ReadEvent(t[i - 1], events[i], m, n)]
  <2>1. t = [i \in 0..c |-> t[i]]
    BY <1>8
  <2> QED BY <1>9, <2>1
<1>11. Reads(t, c, begun, events, m, n)
  BY <1>10 DEF Reads
<1> QED BY <1>2, <1>11

\* Three and four sequences in a row.
InARow(s, t, u) == (s \o t) \o u = s \o (t \o u)
FourInARow(s, t, u, v) == (s \o (t \o u)) \o v = (s \o t) \o (u \o v)

LEMMA ThreeJoin ==
  ASSUME NEW S, NEW s \in Seq(S), NEW t \in Seq(S), NEW u \in Seq(S)
  PROVE  InARow(s, t, u)
<1>1. (s \o t) \o u = s \o (t \o u)
  BY ConcatAssociative, SMTT(60)
<1> QED BY <1>1 DEF InARow

LEMMA FourJoin ==
  ASSUME NEW S, NEW s \in Seq(S), NEW t \in Seq(S), NEW u \in Seq(S), NEW v \in Seq(S)
  PROVE  FourInARow(s, t, u, v)
<1>1. PICK st : st \in Seq(S) /\ st = s \o t
  BY ConcatProperties
<1>2. InARow(st, u, v) /\ InARow(s, t, u)
  BY <1>1, ThreeJoin
<1> QED BY <1>1, <1>2 DEF InARow, FourInARow

\* What is put into the buffer and what is put behind the queue are the code, in its order, if
\* there is no code or nothing in the queue.
PartsJoin(g, out, queue, a, b) == (g \o (out \o a)) \o (queue \o b) = ((g \o out) \o queue) \o (a \o b)

LEMMA PartsAreJoined ==
  ASSUME NEW S, NEW g \in Seq(S), NEW out \in Seq(S), NEW queue \in Seq(S), NEW a \in Seq(S), NEW b \in Seq(S),
         queue = <<>> \/ a \o b = <<>>
  PROVE  PartsJoin(g, out, queue, a, b)
<1>1. g \o out \in Seq(S) /\ a \o b \in Seq(S) /\ <<>> \in Seq(S) /\ out \o a \in Seq(S)
  BY ConcatProperties, EmptySeq
<1>2. CASE queue = <<>>
  <2>1. queue \o b = b /\ (g \o out) \o queue = g \o out
    BY <1>1, <1>2, ConcatEmptySeq
  <2>2. FourInARow(g, out, a, b)
    BY FourJoin
  <2>3. (g \o (out \o a)) \o b = (g \o out) \o (a \o b)
    BY <2>2 DEF FourInARow
  <2> QED BY <2>1, <2>3 DEF PartsJoin
<1>3. CASE a \o b = <<>>
  <2>1. a = <<>> /\ b = <<>>
    BY <1>3, ConcatEqualIffEmpty
  <2>2. out \o a = out /\ queue \o b = queue
    BY <2>1, ConcatEmptySeq
  <2>3. (g \o out) \o queue \in Seq(S)
    BY <1>1, ConcatProperties
  <2>4. ((g \o out) \o queue) \o (a \o b) = (g \o out) \o queue
    BY <1>3, <2>3, ConcatEmptySeq
  <2> QED BY <2>2, <2>4 DEF PartsJoin
<1> QED BY <1>2, <1>3

\* A code is cut in two: a byte of it at least fits into the buffer if one is free.
LEMMA CodeIsCut ==
  ASSUME NEW given \in Seq(Given), Len(given) \in 0..6, NEW space \in Nat, space # 0, NEW fits, fits = Fitting(given, space)
  PROVE  /\ SubSeq(given, 1, fits) \in Seq(Given) /\ SubSeq(given, fits + 1, Len(given)) \in Seq(Given)
         /\ SubSeq(given, 1, fits) \o SubSeq(given, fits + 1, Len(given)) = given
         /\ Len(SubSeq(given, fits + 1, Len(given))) <= 5
         /\ given = <<>> => SubSeq(given, fits + 1, Len(given)) = <<>>
<1>1. PICK len : len = Len(given)
  OBVIOUS
<1>2. len \in 0..6 /\ \A i \in 1..len : given[i] \in Given
  BY <1>1, ElementOfSeq
<1>3. fits \in 0..len /\ (len # 0 => fits >= 1)
  <2>1. fits = IF 2 * len <= space + 1 THEN len ELSE (space + 1) \div 2
    BY <1>1 DEF Fitting
  <2> QED BY <1>2, <2>1
<1>4. /\ SubSeq(given, 1, fits) \in Seq(Given)
      /\ SubSeq(given, fits + 1, len) \in Seq(Given)
      /\ Len(SubSeq(given, fits + 1, len)) = IF fits + 1 <= len THEN len - (fits + 1) + 1 ELSE 0
  <2>1. 1 \in Int /\ fits \in Int /\ fits + 1 \in Int /\ len \in Int
    BY <1>2, <1>3
  <2>2. (\A i \in 1..fits : given[i] \in Given) /\ (\A i \in (fits + 1)..len : given[i] \in Given)
    BY <1>2, <1>3
  <2> QED BY <2>1, <2>2, SubSeqProperties
<1>5. SubSeq(given, 1, fits) \o SubSeq(given, fits + 1, len) = SubSeq(given, 1, len)
  <2>1. 1 \in 1..(Len(given) + 1) /\ fits \in (1 - 1)..Len(given) /\ len \in fits..Len(given)
    BY <1>1, <1>2, <1>3
  <2> QED BY <2>1, ConcatAdjacentSubSeq
<1>6. SubSeq(given, 1, len) = given
  BY <1>1, SubSeqFull
<1>7. PICK tail : tail = SubSeq(given, fits + 1, len)
  OBVIOUS
<1>8. Len(tail) <= 5
  <2>1. Len(tail) = IF fits + 1 <= len THEN len - (fits + 1) + 1 ELSE 0
    BY <1>4, <1>7
  <2> QED BY <1>2, <1>3, <2>1
<1>9. ASSUME given = <<>> PROVE tail = <<>>
  <2>1. len = 0
    BY <1>1, <1>9, EmptySeq
  <2>2. len < fits + 1 /\ fits + 1 \in Int /\ len \in Int
    BY <1>3, <2>1
  <2> QED BY <1>7, <2>2, SubSeqEmpty
<1> QED BY <1>1, <1>4, <1>5, <1>6, <1>7, <1>8, <1>9

\* One event is read, or the buffer is full.
LEMMA ReadGoesOn ==
  ASSUME NEW events \in Seq(Event), NEW m, NEW M, NEW O, Told(M, O, events, m),
         NEW g \in Seq(Given), NEW n \in Nat, QueueSize \in Nat, LongestCodeFits,
         NEW i \in 1..Len(events), NEW r, ReadOK(r, i - 1, M, O, g, n)
  PROVE  ReadOK(ReadEvent(r, events[i], m, n), i, M, O, g, n)
<1>1. PICK e : e = events[i]
  OBVIOUS
<1>2. PICK mods : mods = do_kb_mods(r.mods, e[1], e[2])
  OBVIOUS
<1>3. PICK given : given = Item(m, e[1], e[2], mods)
  OBVIOUS
<1>4. PICK room : room = n - Len(r.out)
  OBVIOUS
<1>5. PICK fits : fits = Fitting(given, room)
  OBVIOUS
<1>6. PICK a : a = SubSeq(given, 1, fits)
  OBVIOUS
<1>7. PICK b : b = SubSeq(given, fits + 1, Len(given))
  OBVIOUS
<1>8. PICK q : q = ReadEvent(r, e, m, n)
  OBVIOUS
<1>9. /\ r.used \in 0..(i - 1) /\ (r.used = i - 1 \/ Len(r.out) >= n)
      /\ r.out \in Seq(Given) /\ r.queue \in Seq(Given)
      /\ r.mods = M[r.used]
      /\ ~r.overtaken => (g \o r.out) \o r.queue = O[r.used] /\ Len(r.queue) <= QueueSize
  BY DEF ReadOK
<1>10. Len(r.out) \in Nat /\ Len(r.queue) \in Nat /\ Len(events) \in Nat
  BY <1>9, LenProperties
<1>11. i \in Nat /\ i - 1 \in Nat
  BY <1>10
<1>12. CASE Len(r.out) >= n
  <2>1. q = r
    BY <1>8, <1>12 DEF ReadEvent
  <2>2. r.used \in 0..i
    BY <1>9, <1>11
  <2>3. ReadOK(r, i, M, O, g, n)
    BY <1>9, <1>12, <2>2 DEF ReadOK
  <2> QED BY <1>1, <1>8, <2>1, <2>3
<1>13. CASE ~(Len(r.out) >= n)
  <2>1. q = [mods |-> mods, used |-> r.used + 1, out |-> r.out \o a, queue |-> r.queue \o b,
             overtaken |-> r.overtaken \/ (r.queue # <<>> /\ given # <<>>)]
    BY <1>2, <1>3, <1>4, <1>5, <1>6, <1>7, <1>8, <1>13 DEF ReadEvent
  <2>2. /\ q.mods = mods /\ q.used = r.used + 1 /\ q.out = r.out \o a /\ q.queue = r.queue \o b
        /\ q.overtaken = (r.overtaken \/ (r.queue # <<>> /\ given # <<>>))
    BY <2>1
  <2>3. r.used = i - 1 /\ q.used = i
    <3>1. r.used = i - 1
      BY <1>9, <1>13
    <3> QED BY <1>11, <2>2, <3>1
  <2>4. e[1] \in Key /\ e[2] \in BOOLEAN
    <3>1. e \in Event
      BY <1>1, ElementOfSeq
    <3> QED BY <3>1 DEF Event
  <2>5. /\ mods = M[i] /\ O[i] = O[i - 1] \o given /\ O[i - 1] \in Seq(Given)
    <3>1. /\ M[i] = do_kb_mods(M[i - 1], e[1], e[2])
          /\ O[i] = O[i - 1] \o Item(m, e[1], e[2], M[i])
      BY <1>1 DEF Told
    <3>2. mods = M[i]
      BY <1>2, <1>9, <2>3, <3>1
    <3>3. i - 1 \in 0..Len(events)
      BY <1>10
    <3>4. O[i - 1] \in Seq(Given)
      BY <3>3 DEF Told
    <3> QED BY <1>3, <3>1, <3>2, <3>4
  <2>6. given \in Seq(Given) /\ Len(given) \in 0..6
    BY <1>3, <2>4, ItemIsGiven
  <2>7. room \in Nat /\ room # 0
    BY <1>4, <1>10, <1>13
  <2>8. /\ a \in Seq(Given) /\ b \in Seq(Given) /\ a \o b = given /\ Len(b) <= 5
        /\ given = <<>> => b = <<>>
    BY <1>5, <1>6, <1>7, <2>6, <2>7, CodeIsCut
  <2>9. q.out \in Seq(Given) /\ q.queue \in Seq(Given)
    BY <1>9, <2>2, <2>8, ConcatProperties
  <2>10. ASSUME ~q.overtaken
         PROVE  (g \o q.out) \o q.queue = O[i] /\ Len(q.queue) <= QueueSize
    <3>1. ~r.overtaken /\ (r.queue = <<>> \/ given = <<>>)
      BY <2>2, <2>10
    <3>2. (g \o r.out) \o r.queue = O[i - 1] /\ Len(r.queue) <= QueueSize
      BY <1>9, <2>3, <3>1
    <3>3. r.queue = <<>> \/ a \o b = <<>>
      BY <2>8, <3>1
    <3>4. PICK x, y : x = r.out /\ y = r.queue
      OBVIOUS
    <3>5. (g \o q.out) \o q.queue = O[i]
      <4>1. x \in Seq(Given) /\ y \in Seq(Given) /\ (y = <<>> \/ a \o b = <<>>)
        BY <1>9, <3>3, <3>4
      <4>2. PartsJoin(g, x, y, a, b)
        BY <2>8, <4>1, PartsAreJoined
      <4>3. (g \o (x \o a)) \o (y \o b) = ((g \o x) \o y) \o (a \o b)
        BY <4>2 DEF PartsJoin
      <4> QED BY <2>2, <2>5, <2>8, <3>2, <3>4, <4>3
    <3>6. CASE r.queue = <<>>
      <4>1. r.queue \o b = b
        BY <2>8, <3>6, ConcatEmptySeq
      <4>2. Len(q.queue) = Len(b) /\ Len(b) \in Nat
        BY <2>2, <2>8, <4>1, LenProperties
      <4> QED BY <2>8, <3>5, <4>2 DEF LongestCodeFits
    <3>7. CASE given = <<>>
      <4>1. r.queue \o b = r.queue
        BY <1>9, <2>8, <3>7, ConcatEmptySeq
      <4> QED BY <2>2, <3>2, <3>5, <4>1
    <3> QED BY <3>1, <3>6, <3>7
  <2>11. q.used \in 0..i
    BY <1>11, <2>3
  <2>12. ReadOK(q, i, M, O, g, n)
    BY <2>2, <2>3, <2>5, <2>9, <2>10, <2>11 DEF ReadOK
  <2> QED BY <1>1, <1>8, <2>12
<1> QED BY <1>12, <1>13

\* The loop as a whole.
LEMMA ReadsTell ==
  ASSUME NEW events \in Seq(Event), NEW m, NEW M, NEW O, Told(M, O, events, m),
         NEW g \in Seq(Given), NEW n \in Nat, QueueSize \in Nat, LongestCodeFits,
         NEW begun, ReadOK(begun, 0, M, O, g, n)
  PROVE  ReadOK(ReadEvents(begun, events, m, n), Len(events), M, O, g, n)
<1>1. PICK count : count = Len(events)
  OBVIOUS
<1>2. count \in Nat
  BY <1>1, LenProperties
<1>3. PICK s : /\ s = CHOOSE x : Reads(x, count, begun, events, m, n)
               /\ Reads(s, count, begun, events, m, n)
  BY <1>2, ReadsExist
<1>4. ReadEvents(begun, events, m, n) = s[count]
  BY <1>1, <1>3 DEF ReadEvents, Reads
<1>5. \A i \in 0..count : s[i] = IF i = 0 THEN begun ELSE ReadEvent(s[i - 1], events[i], m, n)
  BY <1>3 DEF Reads
<1> DEFINE Bad == {c \in 0..count : ~ReadOK(s[c], c, M, O, g, n)}
<1>6. ASSUME Bad # {} PROVE FALSE
  <2>1. Bad \in SUBSET Nat
    BY <1>2
  <2>2. PICK c \in Bad : \A k \in Bad : c <= k
    BY <1>6, <2>1, Least
  <2>3. c \in 0..count /\ ~ReadOK(s[c], c, M, O, g, n)
    BY <2>2
  <2>4. c # 0
    <3>1. 0 \in 0..count /\ s[0] = begun
      BY <1>2, <1>5
    <3> QED BY <2>3, <3>1
  <2>5. c - 1 \in 0..count /\ c \in 1..Len(events) /\ ~(c <= c - 1)
    BY <1>1, <1>2, <2>3, <2>4
  <2>6. ReadOK(s[c - 1], c - 1, M, O, g, n)
    BY <2>2, <2>5
  <2>7. s[c] = ReadEvent(s[c - 1], events[c], m, n)
    BY <1>5, <2>3, <2>4
  <2>8. ReadOK(ReadEvent(s[c - 1], events[c], m, n), c, M, O, g, n)
    BY <2>5, <2>6, ReadGoesOn
  <2> QED BY <2>3, <2>7, <2>8
<1>7. count \in 0..count /\ count \notin Bad
  BY <1>2, <1>6
<1>8. ReadOK(s[count], count, M, O, g, n)
  BY <1>7
<1> QED BY <1>1, <1>4, <1>8

-----------------------------------------------------------------------------
(* The keyboard serves.                                                    *)

KeyboardTypeOK ==
    /\ cur_vt \in Vt /\ down \in SUBSET Key /\ locked \in SUBSET Locking
    /\ realtime_kb_mods \in [Vt -> SUBSET Mods] /\ kb_mods \in [Vt -> SUBSET Mods]
    /\ kb_buf \in [Vt -> Seq(Event)] /\ kb_queue \in [Vt -> Seq(Given)]
    /\ mode \in [Vt -> Modes]
    /\ got \in [Vt -> Seq(Given)] /\ due \in [Vt -> Seq(Given)]

\* The account of terminal v, for which an item is still on the wire.
TerminalAccount(v, item) ==
    Accounts(kb_mods[v], got[v] \o kb_queue[v], kb_buf[v], mode[v], realtime_kb_mods[v], item, due[v])

\* What the key on the wire will give to terminal v.
Coming(v, k, up) ==
    IF v = cur_vt /\ ~Kept(k, realtime_kb_mods[v]) THEN Item(mode[v], k, up, realtime_kb_mods[v]) ELSE <<>>

AtRest ==
    /\ wire = <<>> /\ escaped = 0 /\ realtime_kb_mods[cur_vt] = Held
    /\ \A v \in Vt : TerminalAccount(v, <<>>)

InTransit(k, up) ==
    /\ Arriving(k, up) /\ do_kb_mods(realtime_kb_mods[cur_vt], k, up) = Held
    /\ \A v \in Vt : TerminalAccount(v, Coming(v, k, up))

\* Nothing has been held down on a terminal that is not shown.
OthersHoldNothing == \A v \in Vt \ {cur_vt} : realtime_kb_mods[v] = {}

KeyboardOK ==
    /\ KeyboardTypeOK /\ QueueFits /\ OthersHoldNothing
    /\ AtRest \/ \E k \in Key, up \in BOOLEAN : InTransit(k, up)

KeyboardIInv == astray = {} => KeyboardOK

\* It says what is to be shown.
LEMMA KeyboardOKServes ==
  ASSUME KeyboardOK
  PROVE  KeysArrive /\ ModifiersHeld /\ QueueFits
<1>1. PICK item : \A v \in Vt : TerminalAccount(v, item[v]) /\ (wire = <<>> => item[v] = <<>>)
  <2>1. CASE AtRest
    <3>1. PICK item : item = [v \in Vt |-> <<>>]
      OBVIOUS
    <3> QED BY <2>1, <3>1 DEF AtRest
  <2>2. ASSUME NEW k \in Key, NEW up \in BOOLEAN, InTransit(k, up)
        PROVE  \E item : \A v \in Vt : TerminalAccount(v, item[v]) /\ (wire = <<>> => item[v] = <<>>)
    <3>1. PICK item : item = [v \in Vt |-> Coming(v, k, up)]
      OBVIOUS
    <3>2. wire # <<>>
      BY <2>2, ArrivingIsOnWire DEF InTransit
    <3> QED BY <2>2, <3>1, <3>2 DEF InTransit
  <2> QED BY <2>1, <2>2 DEF KeyboardOK
<1>2. ASSUME NEW v \in Vt
      PROVE  /\ StartsWith(due[v], got[v] \o kb_queue[v])
             /\ wire = <<>> /\ kb_buf[v] = <<>> => got[v] \o kb_queue[v] = due[v]
  <2>1. PICK read, events, meant, it : /\ read = got[v] \o kb_queue[v] /\ events = kb_buf[v] /\ meant = due[v] /\ it = item[v]
    OBVIOUS
  <2>2. PICK M, O : /\ Told(M, O, events, mode[v]) /\ O[0] = read
                    /\ Tells(M, O, Len(events), realtime_kb_mods[v], it, meant)
    BY <1>1, <2>1 DEF TerminalAccount, Accounts
  <2>3. events \in Seq(Event) /\ Len(events) \in Nat
    <3>1. events \in Seq(Event)
      BY <2>1 DEF KeyboardOK, KeyboardTypeOK
    <3> QED BY <3>1, LenProperties
  <2>4. 0 \in 0..Len(events)
    BY <2>3
  <2>5. StartsWith(meant, read)
    BY <2>2, <2>4 DEF Tells
  <2>6. ASSUME wire = <<>>, events = <<>>
        PROVE  read = meant
    <3>1. Len(events) = 0
      BY <2>6, EmptySeq
    <3>2. O[0] \o it = meant /\ it = <<>>
      BY <1>1, <2>1, <2>2, <2>6, <3>1 DEF Tells
    <3>3. O[0] \in Seq(Given)
      BY <2>2, <2>4 DEF Told
    <3> QED BY <2>2, <3>2, <3>3, ConcatEmptySeq
  <2> QED BY <2>1, <2>5, <2>6
<1>3. KeysArrive
  BY <1>2 DEF KeysArrive
<1>4. ModifiersHeld
  <2>1. ASSUME wire = <<>> PROVE AtRest
    BY <2>1, ArrivingIsOnWire DEF KeyboardOK, InTransit
  <2> QED BY <2>1 DEF ModifiersHeld, AtRest, Held
<1> QED BY <1>3, <1>4 DEF KeyboardOK

LEMMA KeyboardInitOK == KeyboardInit => KeyboardOK
<1> SUFFICES ASSUME KeyboardInit PROVE KeyboardOK
  OBVIOUS
<1>1. 0 \in Vt
  BY KeyboardAssumption DEF Vt
<1>2. /\ down = {} /\ locked = {} /\ wire = <<>> /\ escaped = 0 /\ cur_vt = 0
      /\ realtime_kb_mods = [v \in Vt |-> {}] /\ kb_mods = [v \in Vt |-> {}]
      /\ kb_buf = [v \in Vt |-> <<>>] /\ kb_queue = [v \in Vt |-> <<>>]
      /\ mode = [v \in Vt |-> "normal"]
      /\ got = [v \in Vt |-> <<>>] /\ due = [v \in Vt |-> <<>>]
  BY DEF KeyboardInit
<1>3. <<>> \in Seq(Event) /\ <<>> \in Seq(Given) /\ Len(<<>>) = 0 /\ "normal" \in Modes
  BY EmptySeq DEF Modes
<1>4. KeyboardTypeOK
  BY <1>1, <1>2, <1>3 DEF KeyboardTypeOK
<1>5. QueueFits
  <2>1. QueueSize \in Nat
    BY KeyboardAssumption
  <2> QED BY <1>2, <1>3, <2>1 DEF QueueFits
<1>6. OthersHoldNothing
  BY <1>2 DEF OthersHoldNothing
<1>7. ASSUME NEW v \in Vt PROVE TerminalAccount(v, <<>>)
  <2>1. PICK M, O : M = [i \in 0..0 |-> {}] /\ O = [i \in 0..0 |-> <<>>]
    OBVIOUS
  <2>2. M \in [0..0 -> SUBSET Mods] /\ O \in [0..0 -> Seq(Given)] /\ M[0] = {} /\ O[0] = <<>>
    BY <1>3, <2>1
  <2>3. Told(M, O, <<>>, "normal")
    BY <1>3, <2>2 DEF Told
  <2>4. <<>> \o <<>> = <<>>
    BY <1>3, ConcatEmptySeq
  <2>5. StartsWith(<<>>, <<>>)
    BY <1>3, StartsWithItself
  <2>6. Tells(M, O, 0, {}, <<>>, <<>>)
    BY <2>2, <2>4, <2>5 DEF Tells
  <2>7. Accounts({}, <<>>, <<>>, "normal", {}, <<>>, <<>>)
    BY <1>3, <2>2, <2>3, <2>6 DEF Accounts
  <2> QED BY <1>2, <2>4, <2>7 DEF TerminalAccount
<1>8. AtRest
  BY <1>1, <1>2, <1>7 DEF AtRest, Held
<1> QED BY <1>4, <1>5, <1>6, <1>8 DEF KeyboardOK

\* A key goes down or up.
LEMMA KeyMovesOK ==
  ASSUME KeyboardOK, NEW k \in Key, KeyMoves(k)
  PROVE  KeyboardOK'
<1>1. PICK up : up \in BOOLEAN /\ up = (k \in down)
  <2>1. (k \in down) \in BOOLEAN
    OBVIOUS
  <2> QED BY <2>1
<1>2. PICK item : item = Item(mode[cur_vt], k, up, Held)
  OBVIOUS
<1>3. /\ wire = <<>> /\ wire' = Sent(k, up)
      /\ down' = IF up THEN down \ {k} ELSE down \cup {k}
      /\ locked' = IF k \in Locking /\ ~up THEN (locked \cup {k}) \ (locked \cap {k}) ELSE locked
      /\ UNCHANGED <<escaped, cur_vt, realtime_kb_mods, kb_mods, kb_buf, kb_queue, mode, got>>
  BY <1>1 DEF KeyMoves, driver, vts
<1>4. due' = IF Kept(k, Held) THEN due ELSE [due EXCEPT ![cur_vt] = @ \o item]
  BY <1>1, <1>2 DEF KeyMoves, Kept, Held
<1>5. AtRest
  BY <1>3, ArrivingIsOnWire DEF KeyboardOK, InTransit
<1>6. KeyboardTypeOK
  BY DEF KeyboardOK
<1>7. item \in Seq(Given)
  BY <1>1, <1>2, ItemIsGiven
<1>8. Held' = do_kb_mods(Held, k, up) /\ locked' \in SUBSET Locking /\ down' \in SUBSET Key
  <2>1. locked \subseteq Locking
    BY <1>6 DEF KeyboardTypeOK
  <2>2. Held' = do_kb_mods(Held, k, up) /\ locked' \subseteq Locking
    BY <1>3, <1>1, <2>1, HeldMoves
  <2>3. down' \in SUBSET Key
    BY <1>3, <1>6 DEF KeyboardTypeOK
  <2> QED BY <2>2, <2>3
<1>9. ASSUME NEW v \in Vt
      PROVE  /\ due'[v] = due[v] \o (Coming(v, k, up)') /\ due'[v] \in Seq(Given)
             /\ Coming(v, k, up)' \in Seq(Given)
  <2>1. due \in [Vt -> Seq(Given)] /\ due[v] \in Seq(Given) /\ cur_vt \in Vt
    BY <1>6 DEF KeyboardTypeOK
  <2>2. CASE v = cur_vt /\ ~Kept(k, Held)
    <3>1. Coming(v, k, up)' = item
      BY <1>3, <1>5, <1>2, <2>2 DEF Coming, AtRest
    <3>2. due'[v] = due[v] \o item
      BY <1>4, <2>1, <2>2
    <3> QED BY <1>7, <2>1, <3>1, <3>2, ConcatProperties
  <2>3. CASE ~(v = cur_vt /\ ~Kept(k, Held))
    <3>1. Coming(v, k, up)' = <<>>
      BY <1>3, <1>5, <2>3 DEF Coming, AtRest
    <3>2. due'[v] = due[v]
      BY <1>4, <2>1, <2>3
    <3> QED BY <2>1, <3>1, <3>2, ConcatEmptySeq, EmptySeq
  <2> QED BY <2>2, <2>3
<1>10. KeyboardTypeOK'
  <2>1. due' \in [Vt -> Seq(Given)]
    <3>1. DOMAIN due' = Vt /\ due' = [v \in Vt |-> due'[v]]
      BY <1>4, <1>6 DEF KeyboardTypeOK
    <3> QED BY <1>9, <3>1
  <2> QED BY <1>3, <1>6, <1>8, <2>1 DEF KeyboardTypeOK
<1>11. QueueFits' /\ OthersHoldNothing'
  BY <1>3 DEF KeyboardOK, QueueFits, OthersHoldNothing
<1>12. Arriving(k, up)'
  BY <1>3, <1>5 DEF Arriving, AtRest
<1>13. do_kb_mods(realtime_kb_mods[cur_vt], k, up)' = Held'
  BY <1>3, <1>5, <1>8 DEF AtRest
<1>14. ASSUME NEW v \in Vt PROVE TerminalAccount(v, Coming(v, k, up))'
  <2>1. PICK it : it = Coming(v, k, up)'
    OBVIOUS
  <2>2. PICK read, events, meant : read = got[v] \o kb_queue[v] /\ events = kb_buf[v] /\ meant = due[v]
    OBVIOUS
  <2>3. /\ Accounts(kb_mods[v], read, events, mode[v], realtime_kb_mods[v], <<>>, meant)
    BY <1>5, <2>2 DEF AtRest, TerminalAccount
  <2>4. it \in Seq(Given) /\ meant \in Seq(Given) /\ events \in Seq(Event)
    BY <1>6, <1>9, <2>1, <2>2 DEF KeyboardTypeOK
  <2>5. Len(events) \in Nat
    BY <2>4, LenProperties
  <2>6. Accounts(kb_mods[v], read, events, mode[v], realtime_kb_mods[v], it, meant \o it)
    BY <2>3, <2>4, <2>5, KeyIsDue
  <2> QED BY <1>3, <1>9, <2>1, <2>2, <2>6 DEF TerminalAccount
<1>15. InTransit(k, up)'
  BY <1>12, <1>13, <1>14 DEF InTransit
<1> QED BY <1>1, <1>10, <1>11, <1>15 DEF KeyboardOK

\* Terminal v has been told of the event, or there was nothing to tell; the others have not.
LEMMA EventOK ==
  ASSUME KeyboardOK, NEW k \in Key, NEW up \in BOOLEAN, InTransit(k, up), vt_keyboard_event(k, up), astray' = {},
         wire' = <<>>, escaped' = 0, UNCHANGED <<down, locked, got, due>>
  PROVE  KeyboardOK'
<1>1. PICK v : v = cur_vt
  OBVIOUS
<1>2. KeyboardTypeOK /\ v \in Vt
  BY <1>1 DEF KeyboardOK, KeyboardTypeOK
<1>3. /\ do_kb_mods(realtime_kb_mods[v], k, up) = Held
      /\ \A w \in Vt : TerminalAccount(w, Coming(w, k, up))
  BY <1>1 DEF InTransit
<1>4. Held' = Held
  BY DEF Held
<1>5. 0 \in Vt
  BY KeyboardAssumption DEF Vt
<1>6. CASE k \in {"KEYCODE_F1", "KEYCODE_F2"}
  <2>1. /\ IF up THEN UNCHANGED <<cur_vt, astray>> ELSE Change(IF k = "KEYCODE_F1" THEN 0 ELSE 1)
        /\ UNCHANGED vts
    BY <1>6 DEF vt_keyboard_event
  <2>2. cur_vt' \in Vt /\ (cur_vt' # cur_vt => Held = {})
    <3>1. CASE up
      BY <1>1, <1>2, <2>1, <3>1
    <3>2. CASE ~up
      BY <1>1, <1>2, <2>1, <3>2 DEF Change, Held
    <3> QED BY <3>1, <3>2
  <2>3. realtime_kb_mods[v] = Held
    BY <1>3, <1>6 DEF do_kb_mods, Holding, Locking
  <2>4. OthersHoldNothing' /\ realtime_kb_mods'[cur_vt'] = Held
    BY <1>1, <2>1, <2>2, <2>3 DEF KeyboardOK, OthersHoldNothing, vts
  <2>5. ASSUME NEW w \in Vt PROVE TerminalAccount(w, <<>>)'
    <3>1. Coming(w, k, up) = <<>>
      BY <1>6 DEF Coming, Kept
    <3>2. TerminalAccount(w, <<>>)
      BY <1>3, <3>1
    <3> QED BY <2>1, <3>2 DEF TerminalAccount, vts
  <2>6. AtRest'
    BY <1>4, <2>4, <2>5 DEF AtRest
  <2>7. KeyboardTypeOK' /\ QueueFits'
    BY <1>2, <2>1, <2>2 DEF KeyboardOK, KeyboardTypeOK, QueueFits, vts
  <2> QED BY <2>4, <2>6, <2>7 DEF KeyboardOK
<1>7. CASE k \in {"KEYCODE_PGUP", "KEYCODE_PGDOWN"} /\ kb_mods[v] \cap Shift # {}
  <2>1. /\ astray' = IF realtime_kb_mods[v] \cap Shift = {} THEN astray \cup {"Unread"} ELSE astray
        /\ UNCHANGED <<cur_vt, vts>>
    BY <1>1, <1>7 DEF vt_keyboard_event
  <2>2. Kept(k, realtime_kb_mods[v])
    BY <1>7, <2>1 DEF Kept
  <2>3. realtime_kb_mods[v] = Held
    BY <1>3, <1>7 DEF do_kb_mods, Holding, Locking
  <2>4. ASSUME NEW w \in Vt PROVE TerminalAccount(w, <<>>)'
    <3>1. Coming(w, k, up) = <<>>
      BY <1>1, <2>2 DEF Coming
    <3>2. TerminalAccount(w, <<>>)
      BY <1>3, <3>1
    <3> QED BY <2>1, <3>2 DEF TerminalAccount, vts
  <2>5. AtRest'
    BY <1>1, <1>4, <2>1, <2>3, <2>4 DEF AtRest, vts
  <2>6. KeyboardTypeOK' /\ QueueFits' /\ OthersHoldNothing'
    BY <1>2, <2>1 DEF KeyboardOK, KeyboardTypeOK, QueueFits, OthersHoldNothing, vts
  <2> QED BY <2>5, <2>6 DEF KeyboardOK
<1>8. CASE /\ k \notin {"KEYCODE_F1", "KEYCODE_F2"}
           /\ ~(k \in {"KEYCODE_PGUP", "KEYCODE_PGDOWN"} /\ kb_mods[v] \cap Shift # {})
  <2>1. /\ realtime_kb_mods' = [realtime_kb_mods EXCEPT ![v] = do_kb_mods(@, k, up)]
        /\ kb_buf' = [kb_buf EXCEPT ![v] = Append(@, <<k, up>>)]
        /\ astray' = IF k \in {"KEYCODE_PGUP", "KEYCODE_PGDOWN"} /\ realtime_kb_mods[v] \cap Shift # {}
                      THEN astray \cup {"Unread"} ELSE astray
        /\ UNCHANGED <<cur_vt, kb_mods, kb_queue, mode>>
    BY <1>1, <1>8 DEF vt_keyboard_event
  <2>2. ~Kept(k, realtime_kb_mods[v])
    BY <1>8, <2>1 DEF Kept
  <2>3. PICK held, events, then, more :
            /\ held = realtime_kb_mods[v] /\ events = kb_buf[v]
            /\ then = do_kb_mods(held, k, up) /\ more = Append(events, <<k, up>>)
    OBVIOUS
  <2>4. held \in SUBSET Mods /\ events \in Seq(Event) /\ due[v] \in Seq(Given) /\ <<k, up>> \in Event
    BY <1>2, <2>3 DEF KeyboardTypeOK, Event
  <2>5. then \in SUBSET Mods /\ more \in Seq(Event)
    <3>1. more \in Seq(Event)
      BY <2>3, <2>4, AppendProperties
    <3>2. then \in SUBSET Mods
      BY <2>3, <2>4, ModsAreMods
    <3> QED BY <3>1, <3>2
  <2>6. /\ realtime_kb_mods'[v] = then /\ kb_buf'[v] = more
        /\ \A w \in Vt \ {v} : realtime_kb_mods'[w] = realtime_kb_mods[w] /\ kb_buf'[w] = kb_buf[w]
    BY <1>2, <2>1, <2>3 DEF KeyboardTypeOK
  <2>7. TerminalAccount(v, <<>>)'
    <3>1. Coming(v, k, up) = Item(mode[v], k, up, held)
      BY <1>1, <2>2, <2>3 DEF Coming
    <3>2. Accounts(kb_mods[v], got[v] \o kb_queue[v], events, mode[v], held, Item(mode[v], k, up, held), due[v])
      BY <1>2, <1>3, <2>3, <3>1 DEF TerminalAccount
    <3>3. PICK mods, read, m, meant : mods = kb_mods[v] /\ read = got[v] \o kb_queue[v] /\ m = mode[v] /\ meant = due[v]
      OBVIOUS
    <3>4. Accounts(mods, read, events, m, held, Item(m, k, up, held), meant)
      BY <3>2, <3>3
    <3>5. Accounts(mods, read, Append(events, <<k, up>>), m, do_kb_mods(held, k, up), <<>>, meant)
      BY <2>4, <3>3, <3>4, EventComes
    <3>6. Accounts(mods, read, more, m, then, <<>>, meant)
      BY <2>3, <3>5
    <3> QED BY <2>1, <2>6, <3>3, <3>6 DEF TerminalAccount
  <2>8. ASSUME NEW w \in Vt \ {v} PROVE TerminalAccount(w, <<>>)'
    <3>1. Coming(w, k, up) = <<>>
      BY <1>1 DEF Coming
    <3>2. TerminalAccount(w, <<>>)
      BY <1>3, <3>1
    <3> QED BY <2>1, <2>6, <3>2 DEF TerminalAccount
  <2>9. AtRest'
    <3>1. realtime_kb_mods'[cur_vt'] = Held
      BY <1>1, <1>3, <2>1, <2>3, <2>6
    <3> QED BY <1>4, <2>7, <2>8, <3>1 DEF AtRest
  <2>10. KeyboardTypeOK'
    BY <1>2, <2>1, <2>3, <2>5 DEF KeyboardTypeOK
  <2>11. QueueFits' /\ OthersHoldNothing'
    BY <1>1, <2>1, <2>6 DEF KeyboardOK, QueueFits, OthersHoldNothing
  <2> QED BY <2>9, <2>10, <2>11 DEF KeyboardOK
<1> QED BY <1>6, <1>7, <1>8

LEMMA InterruptOK ==
  ASSUME KeyboardOK, Interrupt, astray' = {}
  PROVE  KeyboardOK'
<1>1. wire # <<>> /\ UNCHANGED <<down, locked, got, due>>
  BY DEF Interrupt
<1>2. PICK k \in Key, up \in BOOLEAN : InTransit(k, up)
  BY <1>1 DEF KeyboardOK, AtRest
<1>3. Arriving(k, up)
  BY <1>2 DEF InTransit
<1>4. \/ Arriving(k, up)' /\ wire' # <<>> /\ UNCHANGED <<cur_vt, vts, astray>>
      \/ wire' = <<>> /\ escaped' = 0 /\ vt_keyboard_event(k, up)
  BY <1>3, ByteArrives
<1>5. CASE Arriving(k, up)' /\ wire' # <<>> /\ UNCHANGED <<cur_vt, vts, astray>>
  <2>1. UNCHANGED <<cur_vt, realtime_kb_mods, kb_mods, kb_buf, kb_queue, mode, down, locked, got, due>>
    BY <1>1, <1>5 DEF vts
  <2>2. ASSUME NEW v \in Vt PROVE TerminalAccount(v, Coming(v, k, up))'
    <3>1. TerminalAccount(v, Coming(v, k, up))
      BY <1>2 DEF InTransit
    <3>2. Coming(v, k, up)' = Coming(v, k, up)
      BY <2>1 DEF Coming
    <3> QED BY <2>1, <3>1, <3>2 DEF TerminalAccount
  <2>3. do_kb_mods(realtime_kb_mods[cur_vt], k, up)' = Held'
    BY <1>2, <2>1 DEF InTransit, Held
  <2>4. InTransit(k, up)'
    BY <1>5, <2>2, <2>3 DEF InTransit
  <2>5. KeyboardTypeOK' /\ QueueFits' /\ OthersHoldNothing'
    BY <2>1 DEF KeyboardOK, KeyboardTypeOK, QueueFits, OthersHoldNothing
  <2> QED BY <2>4, <2>5 DEF KeyboardOK
<1>6. CASE wire' = <<>> /\ escaped' = 0 /\ vt_keyboard_event(k, up)
  BY <1>1, <1>2, <1>6, EventOK
<1> QED BY <1>4, <1>5, <1>6

\* What is taken out of the queue, and what is left of it.
LEMMA QueueIsCut ==
  ASSUME NEW queue \in Seq(Given), NEW n \in Nat, NEW queued \in Nat, queued <= Len(queue)
  PROVE  /\ SubSeq(queue, 1, queued) \in Seq(Given) /\ SubSeq(queue, queued + 1, Len(queue)) \in Seq(Given)
         /\ SubSeq(queue, 1, queued) \o SubSeq(queue, queued + 1, Len(queue)) = queue
         /\ Len(SubSeq(queue, queued + 1, Len(queue))) <= Len(queue)
<1>1. PICK len : len = Len(queue)
  OBVIOUS
<1>2. len \in Nat /\ queued \in 0..len /\ \A i \in 1..len : queue[i] \in Given
  <2>1. len \in Nat
    BY <1>1, LenProperties
  <2> QED BY <1>1, <2>1, ElementOfSeq
<1>3. /\ SubSeq(queue, 1, queued) \in Seq(Given)
      /\ SubSeq(queue, queued + 1, len) \in Seq(Given)
      /\ Len(SubSeq(queue, queued + 1, len)) = IF queued + 1 <= len THEN len - (queued + 1) + 1 ELSE 0
  <2>1. 1 \in Int /\ queued \in Int /\ queued + 1 \in Int /\ len \in Int
    BY <1>2
  <2>2. (\A i \in 1..queued : queue[i] \in Given) /\ (\A i \in (queued + 1)..len : queue[i] \in Given)
    BY <1>2
  <2> QED BY <2>1, <2>2, SubSeqProperties
<1>4. SubSeq(queue, 1, queued) \o SubSeq(queue, queued + 1, len) = SubSeq(queue, 1, len)
  <2>1. 1 \in 1..(Len(queue) + 1) /\ queued \in (1 - 1)..Len(queue) /\ len \in queued..Len(queue)
    BY <1>1, <1>2
  <2> QED BY <2>1, ConcatAdjacentSubSeq
<1>5. SubSeq(queue, 1, len) = queue
  BY <1>1, SubSeqFull
<1>6. PICK tail : tail = SubSeq(queue, queued + 1, len)
  OBVIOUS
<1>7. Len(tail) <= len
  <2>1. Len(tail) = IF queued + 1 <= len THEN len - (queued + 1) + 1 ELSE 0
    BY <1>3, <1>6
  <2> QED BY <1>2, <2>1
<1> QED BY <1>1, <1>3, <1>4, <1>5, <1>6, <1>7

\* A program reads.
LEMMA ReadOfTerminalOK ==
  ASSUME KeyboardOK, QueueSize \in Nat, LongestCodeFits, NEW v \in Vt, NEW n \in Nat, NEW block \in BOOLEAN,
         vt_fread(v, n, block), astray' = {}
  PROVE  KeyboardOK'
<1>1. PICK queue, events, m : queue = kb_queue[v] /\ events = kb_buf[v] /\ m = mode[v]
  OBVIOUS
<1>2. KeyboardTypeOK /\ queue \in Seq(Given) /\ events \in Seq(Event) /\ got[v] \in Seq(Given) /\ due[v] \in Seq(Given)
  BY <1>1 DEF KeyboardOK, KeyboardTypeOK
<1>3. PICK queued : queued = IF m # "normal" THEN 0 ELSE IF Len(queue) < n THEN Len(queue) ELSE n
  OBVIOUS
<1>4. PICK begun : begun = [mods |-> kb_mods[v], used |-> 0, out |-> SubSeq(queue, 1, queued),
                            queue |-> SubSeq(queue, queued + 1, Len(queue)), overtaken |-> FALSE]
  OBVIOUS
<1>5. PICK read : read = ReadEvents(begun, events, m, n)
  OBVIOUS
<1>6. /\ kb_mods' = [kb_mods EXCEPT ![v] = read.mods]
      /\ kb_buf' = [kb_buf EXCEPT ![v] = SubSeq(@, read.used + 1, Len(@))]
      /\ kb_queue' = [kb_queue EXCEPT ![v] = read.queue]
      /\ got' = [got EXCEPT ![v] = @ \o read.out]
      /\ astray' = IF read.overtaken \/ ((block /\ Len(read.out) < n) /\ read.queue # <<>>)
                   THEN astray \cup {"Overtaken"} ELSE astray
      /\ UNCHANGED <<down, locked, wire, escaped, oli_escaped, cur_vt, realtime_kb_mods, mode, due>>
  BY <1>1, <1>3, <1>4, <1>5 DEF vt_fread, hands, driver
<1>7. ~read.overtaken
  BY <1>6
<1>8. Len(queue) \in Nat /\ queued \in Nat /\ queued <= Len(queue) /\ Len(queue) <= QueueSize
  <2>1. Len(queue) \in Nat
    BY <1>2, LenProperties
  <2>2. Len(queue) <= QueueSize
    BY <1>1 DEF KeyboardOK, QueueFits
  <2> QED BY <1>3, <2>1, <2>2
<1>9. /\ begun.out \in Seq(Given) /\ begun.queue \in Seq(Given) /\ begun.out \o begun.queue = queue
      /\ Len(begun.queue) <= QueueSize /\ begun.mods = kb_mods[v] /\ begun.used = 0 /\ begun.overtaken = FALSE
  <2>1. /\ begun.out = SubSeq(queue, 1, queued) /\ begun.queue = SubSeq(queue, queued + 1, Len(queue))
        /\ begun.mods = kb_mods[v] /\ begun.used = 0 /\ begun.overtaken = FALSE
    BY <1>4
  <2>2. PICK a, b : a = SubSeq(queue, 1, queued) /\ b = SubSeq(queue, queued + 1, Len(queue))
    OBVIOUS
  <2>3. a \in Seq(Given) /\ b \in Seq(Given) /\ a \o b = queue /\ Len(b) <= Len(queue)
    BY <1>2, <1>8, <2>2, QueueIsCut
  <2>4. Len(b) \in Nat
    BY <2>3, LenProperties
  <2>5. Len(b) <= QueueSize
    BY <1>8, <2>3, <2>4
  <2> QED BY <2>1, <2>2, <2>3, <2>5
<1>10. ASSUME NEW item, TerminalAccount(v, item)
       PROVE  /\ TerminalAccount(v, item)'
              /\ read.out \in Seq(Given) /\ read.queue \in Seq(Given) /\ read.mods \in SUBSET Mods
              /\ SubSeq(events, read.used + 1, Len(events)) \in Seq(Event) /\ Len(read.queue) <= QueueSize
  <2>1. PICK g, held, meant : g = got[v] /\ held = realtime_kb_mods[v] /\ meant = due[v]
    OBVIOUS
  <2>2. PICK M, O : /\ Told(M, O, events, m) /\ M[0] = kb_mods[v] /\ O[0] = g \o queue
                    /\ Tells(M, O, Len(events), held, item, meant)
    BY <1>1, <1>10, <2>1 DEF TerminalAccount, Accounts
  <2>3. g \in Seq(Given)
    BY <1>2, <2>1
  <2>4. ReadOK(begun, 0, M, O, g, n)
    <3>1. InARow(g, begun.out, begun.queue)
      BY <1>9, <2>3, ThreeJoin
    <3>2. (g \o begun.out) \o begun.queue = O[0]
      BY <1>9, <2>2, <3>1 DEF InARow
    <3>3. begun.used \in 0..0
      BY <1>9
    <3> QED BY <1>9, <2>2, <3>2, <3>3 DEF ReadOK
  <2>5. ReadOK(read, Len(events), M, O, g, n)
    BY <1>2, <1>5, <2>2, <2>3, <2>4, ReadsTell
  <2>6. /\ read.used \in 0..Len(events) /\ read.out \in Seq(Given) /\ read.queue \in Seq(Given)
        /\ read.mods = M[read.used] /\ (g \o read.out) \o read.queue = O[read.used]
        /\ Len(read.queue) <= QueueSize
    BY <1>7, <2>5 DEF ReadOK
  <2>7. PICK rest : rest = SubSeq(events, read.used + 1, Len(events))
    OBVIOUS
  <2>8. rest \in Seq(Event) /\ Accounts(M[read.used], O[read.used], rest, m, held, item, meant)
    BY <1>2, <2>2, <2>6, <2>7, AccountGoesOn
  <2>9. read.mods \in SUBSET Mods
    BY <2>2, <2>6 DEF Told
  <2>10. /\ kb_mods'[v] = read.mods /\ kb_buf'[v] = rest /\ kb_queue'[v] = read.queue
         /\ got'[v] = g \o read.out /\ realtime_kb_mods'[v] = held /\ mode'[v] = m /\ due'[v] = meant
    BY <1>1, <1>2, <1>6, <2>1, <2>7 DEF KeyboardTypeOK
  <2>11. TerminalAccount(v, item)'
    BY <2>6, <2>8, <2>10 DEF TerminalAccount
  <2> QED BY <2>6, <2>7, <2>8, <2>9, <2>11
<1>11. ASSUME NEW w \in Vt, NEW item, TerminalAccount(w, item)
       PROVE  TerminalAccount(w, item)'
  <2>1. CASE w = v
    BY <1>10, <1>11, <2>1
  <2>2. CASE w # v
    <3>1. /\ kb_mods'[w] = kb_mods[w] /\ kb_buf'[w] = kb_buf[w] /\ kb_queue'[w] = kb_queue[w] /\ got'[w] = got[w]
          /\ realtime_kb_mods' = realtime_kb_mods /\ mode' = mode /\ due' = due
      BY <1>2, <1>6, <2>2 DEF KeyboardTypeOK
    <3> QED BY <1>11, <3>1 DEF TerminalAccount
  <2> QED BY <2>1, <2>2
<1>12. AtRest' \/ \E k \in Key, up \in BOOLEAN : InTransit(k, up)'
  <2>1. CASE AtRest
    <3>1. \A w \in Vt : TerminalAccount(w, <<>>)'
      BY <1>11, <2>1 DEF AtRest
    <3> QED BY <1>6, <2>1, <3>1 DEF AtRest, Held
  <2>2. ASSUME NEW k \in Key, NEW up \in BOOLEAN, InTransit(k, up)
        PROVE  InTransit(k, up)'
    <3>1. ASSUME NEW w \in Vt PROVE TerminalAccount(w, Coming(w, k, up))'
      <4>1. PICK item : item = Coming(w, k, up)
        OBVIOUS
      <4>2. Coming(w, k, up)' = item
        BY <1>6, <4>1 DEF Coming
      <4>3. TerminalAccount(w, item)'
        BY <1>11, <2>2, <4>1 DEF InTransit
      <4> QED BY <4>2, <4>3 DEF TerminalAccount
    <3>2. Arriving(k, up)'
      BY <1>6, <2>2 DEF InTransit, Arriving
    <3>3. do_kb_mods(realtime_kb_mods[cur_vt], k, up)' = Held'
      BY <1>6, <2>2 DEF InTransit, Held
    <3> QED BY <3>1, <3>2, <3>3 DEF InTransit
  <2> QED BY <2>1, <2>2 DEF KeyboardOK
<1>13. /\ read.out \in Seq(Given) /\ read.queue \in Seq(Given) /\ read.mods \in SUBSET Mods
       /\ SubSeq(events, read.used + 1, Len(events)) \in Seq(Event) /\ Len(read.queue) <= QueueSize
  <2>1. \E item : TerminalAccount(v, item)
    BY DEF KeyboardOK, AtRest, InTransit
  <2> QED BY <1>10, <2>1
<1>14. KeyboardTypeOK'
  <2>1. got[v] \o read.out \in Seq(Given)
    BY <1>2, <1>13, ConcatProperties
  <2>2. /\ kb_mods' \in [Vt -> SUBSET Mods] /\ kb_buf' \in [Vt -> Seq(Event)]
        /\ kb_queue' \in [Vt -> Seq(Given)] /\ got' \in [Vt -> Seq(Given)]
    BY <1>1, <1>2, <1>6, <1>13, <2>1 DEF KeyboardTypeOK
  <2> QED BY <1>2, <1>6, <2>2 DEF KeyboardTypeOK
<1>15. QueueFits'
  BY <1>2, <1>6, <1>13 DEF KeyboardOK, KeyboardTypeOK, QueueFits
<1>16. OthersHoldNothing'
  BY <1>6 DEF KeyboardOK, OthersHoldNothing
<1> QED BY <1>12, <1>14, <1>15, <1>16 DEF KeyboardOK

\* A program chooses its mode.
LEMMA SetModeOK ==
  ASSUME KeyboardOK, NEW v \in Vt, NEW m \in Modes, SetMode(v, m)
  PROVE  KeyboardOK'
<1>1. /\ due[v] = <<>> /\ kb_buf[v] = <<>> /\ wire = <<>>
      /\ mode' = [mode EXCEPT ![v] = m]
      /\ UNCHANGED <<down, locked, wire, escaped, cur_vt, realtime_kb_mods, kb_mods, kb_buf, kb_queue, got, due>>
  BY DEF SetMode, hands, driver
<1>2. KeyboardTypeOK
  BY DEF KeyboardOK
<1>3. AtRest
  BY <1>1, ArrivingIsOnWire DEF KeyboardOK, InTransit
<1>4. ASSUME NEW w \in Vt PROVE TerminalAccount(w, <<>>)'
  <2>1. TerminalAccount(w, <<>>)
    BY <1>3 DEF AtRest
  <2>2. CASE w = v
    <3>1. mode'[v] = m
      BY <1>1, <1>2 DEF KeyboardTypeOK
    <3>2. PICK mods, read, held, meant, old : /\ mods = kb_mods[v] /\ read = got[v] \o kb_queue[v] /\ held = realtime_kb_mods[v]
                                              /\ meant = due[v] /\ old = mode[v]
      OBVIOUS
    <3>3. Accounts(mods, read, <<>>, old, held, <<>>, meant)
      BY <1>1, <2>1, <2>2, <3>2 DEF TerminalAccount
    <3>4. Accounts(mods, read, <<>>, m, held, <<>>, meant)
      <4>1. PICK M, O : /\ Told(M, O, <<>>, old) /\ M[0] = mods /\ O[0] = read
                        /\ Tells(M, O, Len(<<>>), held, <<>>, meant)
        BY <3>3 DEF Accounts
      <4>2. Len(<<>>) = 0
        BY EmptySeq
      <4>3. Told(M, O, <<>>, m)
        BY <4>1, <4>2 DEF Told
      <4> QED BY <4>1, <4>3 DEF Accounts
    <3> QED BY <1>1, <2>2, <3>1, <3>2, <3>4 DEF TerminalAccount
  <2>3. CASE w # v
    <3>1. mode'[w] = mode[w]
      BY <1>1, <1>2, <2>3 DEF KeyboardTypeOK
    <3> QED BY <1>1, <2>1, <3>1 DEF TerminalAccount
  <2> QED BY <2>2, <2>3
<1>5. AtRest'
  BY <1>1, <1>3, <1>4 DEF AtRest, Held
<1>6. KeyboardTypeOK' /\ QueueFits' /\ OthersHoldNothing'
  BY <1>1, <1>2 DEF KeyboardOK, KeyboardTypeOK, QueueFits, OthersHoldNothing
<1> QED BY <1>5, <1>6 DEF KeyboardOK

\* What has been led astray stays so.
LEMMA AstrayStays ==
  ASSUME KeyboardNext, astray # {}
  PROVE  astray' # {}
<1>1. ASSUME NEW k, NEW up, vt_keyboard_event(k, up) PROVE astray' # {}
  BY <1>1 DEF vt_keyboard_event, Change
<1>2. ASSUME Interrupt PROVE astray' # {}
  BY <1>1, <1>2 DEF Interrupt
<1>3. ASSUME NEW v, NEW n, NEW block, vt_fread(v, n, block) PROVE astray' # {}
  BY <1>3 DEF vt_fread
<1> QED BY <1>2, <1>3 DEF KeyboardNext, KeyMoves, SetMode

LEMMA KeyboardStep ==
  ASSUME QueueSize \in Nat, LongestCodeFits, KeyboardIInv, [KeyboardNext]_keyboardVars
  PROVE  KeyboardIInv'
<1>1. CASE UNCHANGED keyboardVars
  <2>1. UNCHANGED <<down, locked, wire, escaped, oli_escaped, cur_vt, realtime_kb_mods, kb_mods, kb_buf, kb_queue, mode,
                    got, due, astray>>
    BY <1>1 DEF keyboardVars, hands, driver, vts
  <2>2. \A v \in Vt : \A item : TerminalAccount(v, item)' <=> TerminalAccount(v, item)
    BY <2>1 DEF TerminalAccount
  <2>3. AtRest => AtRest'
    BY <2>1, <2>2 DEF AtRest, Held
  <2>4. ASSUME NEW k \in Key, NEW up \in BOOLEAN, InTransit(k, up) PROVE InTransit(k, up)'
    <3>1. ASSUME NEW v \in Vt PROVE TerminalAccount(v, Coming(v, k, up))'
      <4>1. Coming(v, k, up)' = Coming(v, k, up)
        BY <2>1 DEF Coming
      <4>2. TerminalAccount(v, Coming(v, k, up))
        BY <2>4 DEF InTransit
      <4> QED BY <2>1, <4>1, <4>2 DEF TerminalAccount
    <3>2. Arriving(k, up)' /\ do_kb_mods(realtime_kb_mods[cur_vt], k, up)' = Held'
      BY <2>1, <2>4 DEF InTransit, Arriving, Held
    <3> QED BY <3>1, <3>2 DEF InTransit
  <2>5. ASSUME KeyboardOK PROVE KeyboardOK'
    <3>1. KeyboardTypeOK' /\ QueueFits' /\ OthersHoldNothing'
      BY <2>1, <2>5 DEF KeyboardOK, KeyboardTypeOK, QueueFits, OthersHoldNothing
    <3> QED BY <2>3, <2>4, <2>5, <3>1 DEF KeyboardOK
  <2> QED BY <2>1, <2>5 DEF KeyboardIInv
<1>2. ASSUME KeyboardNext, astray' = {} PROVE KeyboardOK'
  <2>1. KeyboardOK
    BY <1>2, AstrayStays DEF KeyboardIInv
  <2>2. ASSUME NEW k \in Typed, KeyMoves(k) PROVE KeyboardOK'
    <3>1. k \in Key
      BY KeyboardAssumption
    <3> QED BY <2>1, <2>2, <3>1, KeyMovesOK
  <2>3. ASSUME Interrupt PROVE KeyboardOK'
    BY <1>2, <2>1, <2>3, InterruptOK
  <2>4. ASSUME NEW v \in Vt, NEW n \in {1, 4}, NEW block \in BOOLEAN, vt_fread(v, n, block) PROVE KeyboardOK'
    <3>1. n \in Nat
      OBVIOUS
    <3> QED BY <1>2, <2>1, <2>4, <3>1, ReadOfTerminalOK
  <2>5. ASSUME NEW v \in Vt, NEW m \in Modes, SetMode(v, m) PROVE KeyboardOK'
    BY <2>1, <2>5, SetModeOK
  <2> QED BY <1>2, <2>2, <2>3, <2>4, <2>5 DEF KeyboardNext
<1>3. ASSUME KeyboardNext PROVE KeyboardIInv'
  BY <1>2, <1>3 DEF KeyboardIInv
<1> QED BY <1>1, <1>3

\* keyboard.c and vt.c: a program reads what the keys mean that were typed, in their order, by the
\* modifiers that were down, as long as no mishap has led them astray; and the rest of a code
\* fits into the queue.
THEOREM KeyboardIsServed ==
  ASSUME LongestCodeFits
  PROVE  KeyboardSpec => []KeyboardServes
<1>1. QueueSize \in Nat
  BY KeyboardAssumption
<1>2. KeyboardInit => KeyboardIInv
  BY KeyboardInitOK DEF KeyboardIInv
<1>3. KeyboardIInv /\ [KeyboardNext]_keyboardVars => KeyboardIInv'
  BY <1>1, KeyboardStep
<1>4. KeyboardIInv => KeyboardServes
  BY KeyboardOKServes DEF KeyboardIInv, KeyboardServes
<1> QED BY <1>2, <1>3, <1>4, PTL DEF KeyboardSpec

-----------------------------------------------------------------------------
(* The calls on files and on /dev.                                         *)

DeviceNames == Late \cup Named(Special)
OpenModes       == SUBSET {"read", "write", "append"}

\* The list of the devices begins with one and names each once.
DevicesOK(list) ==
    /\ list \in Seq(DeviceNames) /\ Len(list) > 0
    /\ \A i, j \in 1..Len(list) : list[i] = list[j] => i = j

\* An open file has the mode it was opened with, which its file system allows; a position
\* does not wrap around, and is not behind the end but in a special device.
Positioned(f) ==
    /\ f.pos \in Nat /\ f.size \in Nat /\ f.size < Wrap
    /\ ~IsSpecial(f.name) => f.pos <= f.size

FileOK(f, disk) ==
    /\ f = [name |-> f.name, pos |-> f.pos, size |-> f.size, flags |-> f.flags, mode |-> f.mode, fs |-> f.fs]
    /\ f.mode = f.flags
    /\ "write" \in f.mode => f.fs = "devfs" \/ "write" \in disk
    /\ Positioned(f)

FilesOK == file = [h \in DOMAIN file |-> file[h]] /\ \A h \in DOMAIN file : FileOK(file[h], mnt)

\* What a listing has given is the beginning of the list, and it is at the device that follows.
ListingOK(given, at, list) ==
    /\ given \in Seq(DeviceNames) /\ Len(given) <= Len(list)
    /\ \A i \in 1..Len(given) : given[i] = list[i]
    /\ at = None => given = <<>>
    /\ at \notin {None, "end"} => Len(given) < Len(list) /\ list[Len(given) + 1] = at

CallsOK ==
    /\ DevicesOK(devlist) /\ FilesOK /\ ListingOK(listing.given, listing.next, devlist)
    /\ ReadsFillBuffer /\ SeeksAsC /\ TestedFunctions

-----------------------------------------------------------------------------
(* The list of the devices and its listing.                                *)

\* A device is put at the end, if no device has its name.
LEMMA InsertedOK ==
    ASSUME NEW list, NEW name \in DeviceNames,
           list = <<>> \/ DevicesOK(list)
    PROVE  /\ DevicesOK(Inserted(list, name))
           /\ list # <<>> => /\ Len(list) <= Len(Inserted(list, name))
                             /\ \A i \in 1..Len(list) : Inserted(list, name)[i] = list[i]
<1>1. /\ list \in Seq(DeviceNames) /\ Len(list) \in Nat /\ DOMAIN list = 1..Len(list)
      /\ \A i, j \in 1..Len(list) : list[i] = list[j] => i = j
  <2>1. CASE list = <<>>
    <3>1. <<>> \in Seq(DeviceNames) /\ Len(<<>>) = 0 /\ DOMAIN <<>> = 1..0 /\ 1..0 = {}
      BY EmptySeq
    <3> QED BY <2>1, <3>1
  <2>2. CASE DevicesOK(list)
    BY <2>2, LenProperties DEF DevicesOK
  <2> QED BY <2>1, <2>2
<1>2. CASE name \in Named(list)
  <2>1. list # <<>>
    BY <1>2 DEF Named
  <2>2. Inserted(list, name) = list
    BY <1>2 DEF Inserted
  <2> QED BY <2>1, <2>2, <1>1
<1>3. CASE name \notin Named(list)
  <2>1. Inserted(list, name) = Append(list, name)
    BY <1>3 DEF Inserted
  <2>2. PICK n : n = Append(list, name)
    OBVIOUS
  <2>3. /\ n \in Seq(DeviceNames) /\ Len(n) = Len(list) + 1
        /\ \A i \in 1..Len(list) : n[i] = list[i]
        /\ n[Len(list) + 1] = name
    BY <2>2, <1>1, AppendProperties
  <2>4. \A i \in 1..Len(list) : list[i] # name
    BY <1>1, <1>3 DEF Named
  <2>5. ASSUME NEW i \in 1..Len(n), NEW j \in 1..Len(n), n[i] = n[j] PROVE i = j
    <3>1. i \in 1..Len(list) \/ i = Len(list) + 1
      BY <1>1, <2>3
    <3>2. j \in 1..Len(list) \/ j = Len(list) + 1
      BY <1>1, <2>3
    <3> QED BY <3>1, <3>2, <1>1, <2>3, <2>4, <2>5
  <2>6. DevicesOK(n)
    BY <1>1, <2>3, <2>5 DEF DevicesOK
  <2>7. Len(list) <= Len(n)
    BY <1>1, <2>3
  <2> QED BY <2>1, <2>2, <2>3, <2>6, <2>7
<1> QED BY <1>2, <1>3

\* The special devices are the first, in their order.
LEMMA DevicesAtStart == DevicesOK(devmanager_init)
<1>1. Special[1] \in DeviceNames /\ Special[2] \in DeviceNames /\ Special[3] \in DeviceNames
  BY DEF DeviceNames, Named, Special
<1> DEFINE one == Inserted(<<>>, Special[1])
           two == Inserted(one, Special[2])
<1> HIDE DEF one, two
<1>2. DevicesOK(one)
  BY <1>1, InsertedOK DEF one
<1>3. DevicesOK(two)
  BY <1>1, <1>2, InsertedOK DEF two
<1>4. DevicesOK(Inserted(two, Special[3]))
  BY <1>1, <1>3, InsertedOK
<1> QED BY <1>4 DEF devmanager_init, one, two

\* A device that is found comes behind where any listing is.
LEMMA ListingStays ==
    ASSUME NEW given, NEW at, NEW list, NEW longer,
           ListingOK(given, at, list), DevicesOK(list), DevicesOK(longer),
           Len(list) <= Len(longer), \A i \in 1..Len(list) : longer[i] = list[i]
    PROVE  ListingOK(given, at, longer)
<1>1. Len(list) \in Nat /\ Len(longer) \in Nat /\ Len(given) \in Nat
  BY LenProperties DEF ListingOK, DevicesOK
<1>2. Len(given) <= Len(longer) /\ \A i \in 1..Len(given) : given[i] = longer[i]
  BY <1>1 DEF ListingOK
<1>3. at \notin {None, "end"} => Len(given) < Len(longer) /\ longer[Len(given) + 1] = at
  BY <1>1 DEF ListingOK
<1> QED BY <1>2, <1>3 DEF ListingOK

\* The device at place i is followed by that at the next place, or the end.
LEMMA FollowingIs ==
    ASSUME NEW i \in 1..Len(devlist), DevicesOK(devlist)
    PROVE  Following(devlist[i]) = IF i < Len(devlist) THEN devlist[i + 1] ELSE "end"
<1>1. DOMAIN devlist = 1..Len(devlist)
  BY LenProperties DEF DevicesOK
<1>2. PICK name : name = devlist[i]
  OBVIOUS
<1>3. PICK at : at = CHOOSE k \in DOMAIN devlist : devlist[k] = name
  OBVIOUS
<1>4. at = i
  BY <1>1, <1>2, <1>3 DEF DevicesOK
<1>5. Following(name) = IF at < Len(devlist) THEN devlist[at + 1] ELSE "end"
  BY <1>3 DEF Following
<1> QED BY <1>2, <1>4, <1>5

\* The names of the devices are not those of no listing and of its end.
LEMMA NamesOfDevices == None \notin DeviceNames /\ "end" \notin DeviceNames
<1>1. Named(Special) = {"null", "zero", "urandom"}
  <2>1. DOMAIN Special = 1..3 /\ Special[1] = "null" /\ Special[2] = "zero" /\ Special[3] = "urandom"
    BY DEF Special
  <2>2. 1..3 = {1, 2, 3}
    OBVIOUS
  <2> QED BY <2>1, <2>2 DEF Named
<1> QED BY <1>1, CallAssumption DEF DeviceNames, None

LEMMA ListingMoves ==
    ASSUME CallsOK, dev_dread
    PROVE  ListingOK(listing'.given, listing'.next, devlist)
<1> DEFINE given == listing.given
           at    == listing.next
<1>1. listing'.given = Append(given, at) /\ listing'.next = Following(at)
  BY DEF dev_dread
<1>2. DevicesOK(devlist) /\ at \notin {None, "end"} /\ ListingOK(given, at, devlist)
  BY DEF CallsOK, dev_dread
<1> HIDE DEF given, at
<1>3. /\ given \in Seq(DeviceNames) /\ Len(given) \in Nat /\ Len(given) < Len(devlist)
      /\ devlist \in Seq(DeviceNames) /\ Len(devlist) \in Nat
      /\ devlist[Len(given) + 1] = at /\ \A i \in 1..Len(given) : given[i] = devlist[i]
  BY <1>2, LenProperties DEF ListingOK, DevicesOK
<1>4. PICK n : n = Len(given) + 1
  OBVIOUS
<1>5. n \in 1..Len(devlist) /\ devlist[n] = at
  BY <1>3, <1>4
<1>6. at \in DeviceNames
  BY <1>3, <1>5, ElementOfSeq
<1>7. PICK g : g = Append(given, at)
  OBVIOUS
<1>8. /\ g \in Seq(DeviceNames) /\ Len(g) = n
      /\ \A i \in 1..Len(given) : g[i] = given[i]
      /\ g[n] = at
  BY <1>3, <1>4, <1>6, <1>7, AppendProperties
<1>9. ASSUME NEW i \in 1..n PROVE g[i] = devlist[i]
  <2>1. i \in 1..Len(given) \/ i = n
    BY <1>3, <1>4
  <2> QED BY <2>1, <1>3, <1>5, <1>8
<1>10. PICK f : f = Following(at)
  OBVIOUS
<1>11. f = IF n < Len(devlist) THEN devlist[n + 1] ELSE "end"
  BY <1>2, <1>5, <1>10, FollowingIs
<1>12. f # None
  <2>1. CASE n < Len(devlist)
    <3>1. n + 1 \in 1..Len(devlist)
      BY <2>1, <1>3, <1>4
    <3>2. f \in DeviceNames
      BY <2>1, <3>1, <1>3, <1>11, ElementOfSeq
    <3> QED BY <3>2, NamesOfDevices
  <2>2. CASE ~(n < Len(devlist))
    BY <2>2, <1>11 DEF None
  <2> QED BY <2>1, <2>2
<1>13. f \notin {None, "end"} => n < Len(devlist) /\ devlist[n + 1] = f
  BY <1>11
<1>14. n <= Len(devlist)
  BY <1>3, <1>4
<1>15. ListingOK(g, f, devlist)
  BY <1>8, <1>9, <1>12, <1>13, <1>14 DEF ListingOK
<1> QED BY <1>1, <1>7, <1>10, <1>15

\* A listing gives the beginning of the list.
LEMMA ListingTold ==
    ASSUME DevicesOK(devlist), ListingOK(listing.given, listing.next, devlist)
    PROVE  ListsDevices
<1>1. PICK given : given = listing.given
  OBVIOUS
<1>2. /\ given \in Seq(DeviceNames) /\ Len(given) \in Nat /\ Len(given) <= Len(devlist)
      /\ devlist \in Seq(DeviceNames) /\ Len(devlist) \in Nat
      /\ \A i \in 1..Len(given) : given[i] = devlist[i]
  BY <1>1, LenProperties DEF ListingOK, DevicesOK
<1>3. PICK n : n = Len(given)
  OBVIOUS
<1>4. \A i \in 1..n : devlist[i] \in DeviceNames
  BY <1>2, <1>3, ElementOfSeq
<1>5. PICK s : s = SubSeq(devlist, 1, n)
  OBVIOUS
<1>6. s \in Seq(DeviceNames) /\ Len(s) = n /\ \A i \in 1..n : s[i] = devlist[i]
  <2>1. 1 \in Int /\ n \in Int /\ n \in Nat
    BY <1>2, <1>3
  <2>2. /\ s \in Seq(DeviceNames)
        /\ Len(s) = IF 1 <= n THEN n - 1 + 1 ELSE 0
        /\ \A i \in 1..n - 1 + 1 : s[i] = devlist[1 + i - 1]
    BY <2>1, <1>4, <1>5, SubSeqProperties
  <2>3. Len(s) = n
    BY <2>1, <2>2
  <2>4. ASSUME NEW i \in 1..n PROVE s[i] = devlist[i]
    <3>1. i \in 1..n - 1 + 1 /\ 1 + i - 1 = i
      BY <2>1
    <3> QED BY <3>1, <2>2
  <2> QED BY <2>2, <2>3, <2>4
<1>7. given = s
  BY <1>2, <1>3, <1>6, SeqEqual
<1> QED BY <1>1, <1>2, <1>3, <1>5, <1>7 DEF ListsDevices, ListingOK

-----------------------------------------------------------------------------
(* The files.                                                              *)

LEMMA WrapsAround ==
    ASSUME NEW x \in Int
    PROVE  /\ x % Wrap \in Nat
           /\ 0 <= x /\ x < Wrap => x % Wrap = x
  BY CallAssumption

\* A call that passes leaves nothing of a read and of an fseek().
LEMMA PassedOK == ASSUME Passed PROVE ReadsFillBuffer' /\ SeeksAsC'
<1>1. DOMAIN buf' = {} /\ DOMAIN sought' = {}
  BY DEF Passed
<1> QED BY <1>1 DEF ReadsFillBuffer, SeeksAsC

LEMMA FilesStay == ASSUME FilesOK, UNCHANGED <<file, mnt>> PROVE FilesOK'
  BY DEF FilesOK

\* A file whose position moves, to one it may have, is a file as before.
LEMMA FileMoves ==
    ASSUME FilesOK, UNCHANGED mnt, NEW h \in DOMAIN file, NEW p,
           p \in Nat, ~IsSpecial(file[h].name) => p <= file[h].size,
           file' = [file EXCEPT ![h].pos = p]
    PROVE  FilesOK' /\ DOMAIN file' = DOMAIN file /\ file'[h].pos = p
<1>1. PICK g : g = [file[h] EXCEPT !.pos = p]
  OBVIOUS
<1>2. FileOK(file[h], mnt)
  BY DEF FilesOK
<1>3. /\ g = [name |-> g.name, pos |-> g.pos, size |-> g.size, flags |-> g.flags, mode |-> g.mode, fs |-> g.fs]
      /\ g.name = file[h].name /\ g.pos = p /\ g.size = file[h].size
      /\ g.flags = file[h].flags /\ g.mode = file[h].mode /\ g.fs = file[h].fs
  BY <1>1, <1>2 DEF FileOK
<1>4. FileOK(g, mnt)
  BY <1>2, <1>3 DEF FileOK, Positioned
<1>5. DOMAIN file' = DOMAIN file /\ file'[h] = g /\ \A k \in DOMAIN file : k # h => file'[k] = file[k]
  BY <1>1
<1>6. file' = [k \in DOMAIN file' |-> file'[k]]
  OBVIOUS
<1>7. ASSUME NEW k \in DOMAIN file' PROVE FileOK(file'[k], mnt')
  BY <1>4, <1>5, <1>7 DEF FilesOK
<1>8. FilesOK'
  BY <1>6, <1>7 DEF FilesOK
<1> QED BY <1>3, <1>5, <1>8

\* What is left of a file from its position.
LEMMA MovedIs ==
    ASSUME NEW f, Positioned(f), NEW n \in Nat
    PROVE  /\ Lesser(n, f.size - f.pos) \in Int
           /\ ~IsSpecial(f.name) => /\ Lesser(n, f.size - f.pos) \in Nat
                                    /\ f.pos + Lesser(n, f.size - f.pos) <= f.size
  BY DEF Positioned, Lesser

\* A file that is opened has the mode it is opened with, if its file system allows it.
LEMMA OpenedOK ==
    ASSUME NEW kind \in FileSystem, NEW name, NEW flags, (kind = "disk") = (name = "f"),
           MayOpen(kind, flags), NEW moded,
           moded = IF Opened(name, flags).mode = {}
                   THEN [Opened(name, flags) EXCEPT !.mode = flags] ELSE Opened(name, flags)
    PROVE  FileOK(moded, mnt)
<1>1. PICK f : f = Opened(name, flags)
  OBVIOUS
<1>2. PICK length : length = IF IsSpecial(name) THEN 0 ELSE Size
  OBVIOUS
<1>3. PICK where : where = IF name = "f" THEN "disk" ELSE "devfs"
  OBVIOUS
<1>4. PICK how : how = IF IsSpecial(name) THEN {} ELSE flags
  OBVIOUS
<1>5. f = [name |-> name, pos |-> 0, size |-> length, flags |-> flags, mode |-> how, fs |-> where]
  BY <1>1, <1>2, <1>3, <1>4 DEF Opened
<1>6. how = {} \/ how = flags
  BY <1>4
<1>7. moded = [name |-> name, pos |-> 0, size |-> length, flags |-> flags, mode |-> flags, fs |-> where]
  BY <1>1, <1>5, <1>6
<1>8. length \in Nat /\ length < Wrap
  BY <1>2, CallAssumption
<1>9. Positioned(moded)
  BY <1>7, <1>8 DEF Positioned
<1>10. "write" \in flags => where = "devfs" \/ "write" \in mnt
  BY <1>3 DEF MayOpen, Mode, FileSystem
<1> QED BY <1>7, <1>9, <1>10 DEF FileOK

LEMMA LenOfDomain ==
    ASSUME NEW b, NEW n \in Nat, DOMAIN b = 1..n
    PROVE  Len(b) = n
  OBVIOUS

\* What is read fills the buffer, and is nowhere else but before it in a short read.
LEMMA FillsBuffer ==
    ASSUME NEW n \in Nat, NEW S, buf' = [i \in 1..n + 6 |-> i - 3 \in S],
           \A i \in 1..n + 6 : IF i - 3 \in 1..n THEN i - 3 \in S ELSE i - 3 \in S => (n < 4 /\ i < 4)
    PROVE  ReadsFillBuffer'
<1>1. PICK b : b = buf'
  OBVIOUS
<1>2. DOMAIN b = 1..n + 6
  BY <1>1
<1>3. Len(b) = n + 6
  <2>1. n + 6 \in Nat
    OBVIOUS
  <2> QED BY <2>1, <1>2, LenOfDomain
<1>4. Len(b) - 6 = n
  BY <1>3
<1>5. ASSUME NEW i \in 1..n + 6
      PROVE  IF i - 3 \in 1..n THEN b[i] ELSE b[i] => (n < 4 /\ i < 4)
  <2>1. b[i] = (i - 3 \in S)
    BY <1>1, Zenon
  <2> QED BY <2>1, Zenon
<1> QED BY <1>1, <1>2, <1>4, <1>5, Zenon DEF ReadsFillBuffer

\* Of random bytes a word covers what is left.
LEMMA RandomFills ==
    ASSUME NEW n \in 1..5, buf' = urandom_fread(n)
    PROVE  ReadsFillBuffer'
<1>1. PICK S : S = 1..4 * (n \div 4) \cup IF n % 4 # 0 THEN (n - 3)..n ELSE {}
  OBVIOUS
<1>2. buf' = [i \in 1..n + 6 |-> i - 3 \in S]
  BY <1>1, Zenon DEF urandom_fread
<1>3. n = 4 => S = 1..4
  BY <1>1
<1>4. n < 4 => S = (n - 3)..n
  BY <1>1
<1>5. n = 5 => S = 1..5
  <2>1. n = 5 => 4 * (n \div 4) = 4 /\ n % 4 = 1 /\ n - 3 = 2
    OBVIOUS
  <2> QED BY <2>1, <1>1
<1>6. ASSUME NEW i \in 1..n + 6
      PROVE  IF i - 3 \in 1..n THEN i - 3 \in S ELSE i - 3 \in S => (n < 4 /\ i < 4)
  BY <1>3, <1>4, <1>5
<1>7. n \in Nat
  OBVIOUS
<1> QED BY <1>2, <1>6, <1>7, FillsBuffer

\* What a file gives fills the buffer.
LEMMA ReadFills ==
    ASSUME NEW n \in Nat, buf' = [i \in 1..n + 6 |-> i - 3 \in 1..n]
    PROVE  ReadsFillBuffer'
<1>1. PICK S : S = 1..n
  OBVIOUS
<1>2. \A i \in 1..n + 6 : IF i - 3 \in 1..n THEN i - 3 \in S ELSE i - 3 \in S => (n < 4 /\ i < 4)
  BY <1>1
<1>3. buf' = [i \in 1..n + 6 |-> i - 3 \in S]
  BY <1>1, Zenon
<1> QED BY <1>2, <1>3, FillsBuffer

-----------------------------------------------------------------------------
(* The steps.                                                              *)

LEMMA CallsInitOK == CallsInit => CallsOK
<1> SUFFICES ASSUME CallsInit PROVE CallsOK
  OBVIOUS
<1>1. DevicesOK(devlist)
  BY DevicesAtStart DEF CallsInit
<1>2. FilesOK
  <2>1. file = <<>> /\ DOMAIN file = {}
    BY DEF CallsInit
  <2>2. file = [h \in DOMAIN file |-> file[h]]
    BY <2>1
  <2> QED BY <2>1, <2>2 DEF FilesOK
<1>3. ListingOK(listing.given, listing.next, devlist)
  <2>1. listing.given = <<>> /\ listing.next = None
    BY DEF CallsInit
  <2>2. <<>> \in Seq(DeviceNames) /\ Len(<<>>) = 0 /\ 1..0 = {}
    BY EmptySeq
  <2>3. Len(devlist) \in Nat
    BY <1>1, LenProperties DEF DevicesOK
  <2> QED BY <2>1, <2>2, <2>3 DEF ListingOK
<1>4. ReadsFillBuffer /\ SeeksAsC
  <2>1. DOMAIN buf = {} /\ DOMAIN sought = {}
    BY DEF CallsInit
  <2> QED BY <2>1 DEF ReadsFillBuffer, SeeksAsC
<1>5. TestedFunctions
  BY DEF TestedFunctions, CallsInit
<1> QED BY <1>1, <1>2, <1>3, <1>4, <1>5 DEF CallsOK

\* A step leaves in order what it leaves alone.
LEMMA ListStays == ASSUME CallsOK, UNCHANGED <<devlist, listing>>
                   PROVE  DevicesOK(devlist') /\ ListingOK(listing'.given, listing'.next, devlist')
  BY DEF CallsOK

LEMMA InsertOK == ASSUME CallsOK, Insert PROVE CallsOK'
<1>1. PICK name \in Late \cup {"zero"} : devlist' = Inserted(devlist, name)
  BY DEF Insert
<1>2. name \in DeviceNames
  <2>1. Special[2] = "zero" /\ 2 \in DOMAIN Special
    BY DEF Special
  <2>2. "zero" \in Named(Special)
    BY <2>1 DEF Named
  <2> QED BY <1>1, <2>2 DEF DeviceNames
<1>3. DevicesOK(devlist) /\ ListingOK(listing.given, listing.next, devlist)
  BY DEF CallsOK
<1>4. devlist # <<>>
  <2>1. Len(<<>>) = 0
    OBVIOUS
  <2> QED BY <2>1, <1>3 DEF DevicesOK
<1>5. PICK longer : longer = Inserted(devlist, name)
  OBVIOUS
<1>6. /\ DevicesOK(longer) /\ Len(devlist) <= Len(longer)
      /\ \A i \in 1..Len(devlist) : longer[i] = devlist[i]
  BY <1>2, <1>3, <1>4, <1>5, InsertedOK
<1>7. ListingOK(listing.given, listing.next, longer)
  BY <1>3, <1>6, ListingStays
<1>8. DevicesOK(devlist') /\ ListingOK(listing'.given, listing'.next, devlist')
  BY <1>1, <1>5, <1>6, <1>7 DEF Insert
<1>9. FilesOK'
  BY FilesStay DEF Insert, CallsOK
<1>10. ReadsFillBuffer' /\ SeeksAsC'
  BY PassedOK DEF Insert
<1>11. TestedFunctions'
  BY DEF Insert, CallsOK, TestedFunctions
<1> QED BY <1>8, <1>9, <1>10, <1>11 DEF CallsOK

LEMMA FopenOK == ASSUME CallsOK, NEW h \in Handle, sys_fopen2(h) PROVE CallsOK'
<1>1. PICK kind \in FileSystem, name \in Named(devlist) \cup {"f"}, flags \in OpenModes :
          /\ (kind = "disk") = (name = "f")
          /\ LET f == Opened(name, flags)
                 moded == IF f.mode = {} THEN [f EXCEPT !.mode = flags] ELSE f
             IN IF MayOpen(kind, flags) THEN
                    \/ file' = [g \in DOMAIN file \cup {h} |-> IF g = h THEN moded ELSE file[g]] /\ UNCHANGED fault
                    \/ UNCHANGED file /\ fault' = IF IsSpecial(name) THEN "kcalloc" ELSE fault
                ELSE UNCHANGED <<file, fault>>
  BY Zenon DEF sys_fopen2, OpenModes
<1>2. PICK moded : moded = IF Opened(name, flags).mode = {}
                           THEN [Opened(name, flags) EXCEPT !.mode = flags] ELSE Opened(name, flags)
  OBVIOUS
<1>3. \/ /\ MayOpen(kind, flags) /\ UNCHANGED fault
         /\ file' = [g \in DOMAIN file \cup {h} |-> IF g = h THEN moded ELSE file[g]]
      \/ UNCHANGED file /\ fault' \in {fault, "kcalloc"}
  BY <1>1, <1>2
<1>4. UNCHANGED <<devlist, mnt, listing>>
  BY DEF sys_fopen2
<1>5. DevicesOK(devlist') /\ ListingOK(listing'.given, listing'.next, devlist')
  BY <1>4, ListStays
<1>6. FilesOK'
  <2>1. CASE UNCHANGED file
    BY <2>1, <1>4, FilesStay DEF CallsOK
  <2>2. CASE /\ MayOpen(kind, flags)
             /\ file' = [g \in DOMAIN file \cup {h} |-> IF g = h THEN moded ELSE file[g]]
    <3>1. FileOK(moded, mnt)
      BY <1>1, <1>2, <2>2, OpenedOK
    <3>2. \A g \in DOMAIN file' : FileOK(file'[g], mnt)
      BY <2>2, <3>1 DEF CallsOK, FilesOK
    <3>3. file' = [g \in DOMAIN file' |-> file'[g]]
      BY <2>2
    <3> QED BY <3>2, <3>3, <1>4 DEF FilesOK
  <2> QED BY <1>3, <2>1, <2>2
<1>7. ReadsFillBuffer' /\ SeeksAsC'
  BY PassedOK DEF sys_fopen2
<1>8. TestedFunctions'
  BY <1>3 DEF CallsOK, TestedFunctions
<1> QED BY <1>5, <1>6, <1>7, <1>8 DEF CallsOK

LEMMA FcloseOK == ASSUME CallsOK, NEW h \in Handle, sys_fclose(h) PROVE CallsOK'
<1>1. UNCHANGED <<devlist, mnt, listing, fault>> /\ file' = [g \in DOMAIN file \ {h} |-> file[g]]
  BY DEF sys_fclose
<1>2. DevicesOK(devlist') /\ ListingOK(listing'.given, listing'.next, devlist')
  BY <1>1, ListStays
<1>3. FilesOK'
  <2>1. \A g \in DOMAIN file' : FileOK(file'[g], mnt)
    BY <1>1 DEF CallsOK, FilesOK
  <2>2. file' = [g \in DOMAIN file' |-> file'[g]]
    BY <1>1
  <2> QED BY <2>1, <2>2, <1>1 DEF FilesOK
<1>4. ReadsFillBuffer' /\ SeeksAsC'
  BY PassedOK DEF sys_fclose
<1>5. TestedFunctions'
  BY <1>1 DEF CallsOK, TestedFunctions
<1> QED BY <1>2, <1>3, <1>4, <1>5 DEF CallsOK

LEMMA FreadOK == ASSUME CallsOK, NEW h \in Handle, sys_fread(h) PROVE CallsOK'
<1>1. h \in DOMAIN file /\ FilesOK /\ UNCHANGED <<devlist, mnt, listing, fault>> /\ sought' = <<>>
  BY DEF sys_fread, IsOpen, CallsOK
<1>2. DevicesOK(devlist') /\ ListingOK(listing'.given, listing'.next, devlist')
  BY <1>1, ListStays
<1>3. SeeksAsC' /\ TestedFunctions'
  <2>1. DOMAIN sought' = {}
    BY <1>1
  <2> QED BY <1>1, <2>1 DEF SeeksAsC, TestedFunctions, CallsOK
<1>4. PICK f : f = file[h]
  OBVIOUS
<1>5. Positioned(f)
  BY <1>1, <1>4 DEF FilesOK, FileOK
<1>6. PICK n \in 0..5 :
         LET moved == IF IsSpecial(f.name) THEN n ELSE Lesser(n, f.size - f.pos)
         IN \/ buf' = <<>> /\ UNCHANGED file
            \/ /\ n # 0
               /\ buf' = IF f.name = "urandom" THEN urandom_fread(n)
                         ELSE [i \in 1..moved + 6 |-> i - 3 \in 1..moved]
               /\ file' = [file EXCEPT ![h].pos = (@ + moved) % Wrap]
  BY <1>4, ZenonT(60) DEF sys_fread
<1>7. PICK moved : moved = IF IsSpecial(f.name) THEN n ELSE Lesser(n, f.size - f.pos)
  OBVIOUS
<1>8. moved \in Nat /\ (~IsSpecial(f.name) => f.pos + moved <= f.size)
  BY <1>5, <1>7, MovedIs
<1>9. CASE buf' = <<>> /\ UNCHANGED file
  <2>1. ReadsFillBuffer'
    <3>1. DOMAIN buf' = {}
      BY <1>9
    <3> QED BY <3>1 DEF ReadsFillBuffer
  <2>2. FilesOK'
    BY <1>1, <1>9, FilesStay
  <2> QED BY <1>2, <1>3, <2>1, <2>2 DEF CallsOK
<1>10. CASE /\ n # 0
            /\ buf' = IF f.name = "urandom" THEN urandom_fread(n)
                      ELSE [i \in 1..moved + 6 |-> i - 3 \in 1..moved]
            /\ file' = [file EXCEPT ![h].pos = (@ + moved) % Wrap]
  <2>1. ReadsFillBuffer'
    <3>1. CASE f.name = "urandom"
      BY <1>10, <3>1, RandomFills
    <3>2. CASE f.name # "urandom"
      BY <1>8, <1>10, <3>2, ReadFills
    <3> QED BY <3>1, <3>2
  <2>2. PICK p : p = (f.pos + moved) % Wrap
    OBVIOUS
  <2>3. f.pos + moved \in Int /\ 0 <= f.pos + moved
    BY <1>5, <1>8 DEF Positioned
  <2>4. p \in Nat
    BY <2>2, <2>3, WrapsAround
  <2>5. ~IsSpecial(f.name) => p <= f.size
    <3>1. ASSUME ~IsSpecial(f.name) PROVE p <= f.size
      <4>1. f.pos + moved < Wrap
        BY <3>1, <1>5, <1>8, <2>3, CallAssumption DEF Positioned
      <4>2. p = f.pos + moved
        BY <4>1, <2>2, <2>3, WrapsAround
      <4> QED BY <4>2, <3>1, <1>8
    <3> QED BY <3>1
  <2>6. file' = [file EXCEPT ![h].pos = p]
    BY <1>4, <1>10, <2>2
  <2>7. FilesOK'
    BY <1>1, <1>4, <2>4, <2>5, <2>6, FileMoves
  <2> QED BY <1>2, <1>3, <2>1, <2>7 DEF CallsOK
<1> QED BY <1>6, <1>7, <1>9, <1>10

LEMMA FwriteOK == ASSUME CallsOK, NEW h \in Handle, sys_fwrite(h) PROVE CallsOK'
<1>1. h \in DOMAIN file /\ FilesOK /\ UNCHANGED <<devlist, mnt, listing, fault>>
  BY DEF sys_fwrite, IsOpen, CallsOK
<1>2. DevicesOK(devlist') /\ ListingOK(listing'.given, listing'.next, devlist')
  BY <1>1, ListStays
<1>3. ReadsFillBuffer' /\ SeeksAsC' /\ TestedFunctions'
  BY <1>1, PassedOK DEF sys_fwrite, TestedFunctions, CallsOK
<1>4. PICK f : f = file[h]
  OBVIOUS
<1>5. Positioned(f)
  BY <1>1, <1>4 DEF FilesOK, FileOK
<1>6. PICK from : from = IF "append" \in f.mode THEN f.size ELSE f.pos
  OBVIOUS
<1>7. from \in Nat
  BY <1>5, <1>6 DEF Positioned
<1>8. PICK n \in 1..2 :
         \/ UNCHANGED file
         \/ file' = [file EXCEPT
               ![h].pos = IF IsSpecial(f.name) THEN (from + n) % Wrap ELSE Lesser(from + n, f.size)]
  BY <1>4, <1>6 DEF sys_fwrite
<1>9. PICK p : p = IF IsSpecial(f.name) THEN (from + n) % Wrap ELSE Lesser(from + n, f.size)
  OBVIOUS
<1>10. p \in Nat /\ (~IsSpecial(f.name) => p <= f.size)
  <2>1. CASE IsSpecial(f.name)
    <3>1. from + n \in Int
      BY <1>7
    <3> QED BY <2>1, <3>1, <1>9, WrapsAround
  <2>2. CASE ~IsSpecial(f.name)
    BY <2>2, <1>5, <1>7, <1>9 DEF Lesser, Positioned
  <2> QED BY <2>1, <2>2
<1>11. FilesOK'
  <2>1. CASE UNCHANGED file
    BY <2>1, <1>1, FilesStay
  <2>2. CASE file' = [file EXCEPT ![h].pos = p]
    BY <2>2, <1>1, <1>4, <1>10, FileMoves
  <2> QED BY <2>1, <2>2, <1>8, <1>9
<1> QED BY <1>2, <1>3, <1>11 DEF CallsOK

LEMMA FseekOK == ASSUME CallsOK, NEW h \in Handle, sys_fseek(h) PROVE CallsOK'
<1>1. h \in DOMAIN file /\ FilesOK /\ UNCHANGED <<devlist, mnt, listing, fault>> /\ buf' = <<>>
  BY DEF sys_fseek, Offers, IsOpen, CallsOK
<1>2. DevicesOK(devlist') /\ ListingOK(listing'.given, listing'.next, devlist')
  BY <1>1, ListStays
<1>3. ReadsFillBuffer' /\ TestedFunctions'
  <2>1. DOMAIN buf' = {}
    BY <1>1
  <2> QED BY <1>1, <2>1 DEF ReadsFillBuffer, TestedFunctions, CallsOK
<1>4. PICK f : f = file[h]
  OBVIOUS
<1>5. Positioned(f)
  BY <1>1, <1>4 DEF FilesOK, FileOK
<1>6. PICK origin \in {"set", "cur", "end"}, offset \in -1..1 :
         LET pos == (CASE origin = "set" -> offset [] origin = "cur" -> f.pos + offset
                       [] OTHER -> f.size - offset) % Wrap
         IN IF TakesPosition(f, pos)
            THEN /\ file' = [file EXCEPT ![h].pos = pos]
                 /\ sought' = <<[h |-> h, origin |-> origin, offset |-> offset, from |-> f.pos]>>
            ELSE UNCHANGED file /\ sought' = <<>>
  BY <1>4 DEF sys_fseek
<1>7. PICK to : to = CASE origin = "set" -> offset [] origin = "cur" -> f.pos + offset
                       [] OTHER -> f.size - offset
  OBVIOUS
<1>8. /\ origin = "set" => to = offset
      /\ origin = "cur" => to = f.pos + offset
      /\ origin = "end" => to = f.size - offset
  BY <1>6, <1>7
<1>9. to \in Int
  BY <1>5, <1>6, <1>8 DEF Positioned
<1>10. PICK pos : pos = to % Wrap
  OBVIOUS
<1>11. pos \in Nat
  BY <1>9, <1>10, WrapsAround
<1>12. CASE /\ TakesPosition(f, pos) /\ file' = [file EXCEPT ![h].pos = pos]
            /\ sought' = <<[h |-> h, origin |-> origin, offset |-> offset, from |-> f.pos]>>
  <2>1. ~IsSpecial(f.name) => pos <= f.size
    BY <1>12 DEF TakesPosition
  <2>2. FilesOK' /\ file'[h].pos = pos
    BY <2>1, <1>1, <1>4, <1>11, <1>12, FileMoves
  <2>3. file'[h].size = f.size
    BY <1>1, <1>4, <1>5, <1>12 DEF FilesOK, FileOK
  <2>4. PICK seek : seek = [h |-> h, origin |-> origin, offset |-> offset, from |-> f.pos]
    OBVIOUS
  <2>5. sought' = <<seek>>
    BY <1>12, <2>4
  <2>6. DOMAIN sought' = {1} /\ sought'[1] = seek
    BY <2>5
  <2>7. seek.h = h /\ seek.origin = origin /\ seek.offset = offset /\ seek.from = f.pos
    BY <2>4
  <2>8. origin # "end" \/ offset = 0 =>
           pos = (CASE origin = "set" -> offset [] origin = "cur" -> f.pos + offset [] OTHER -> f.size) % Wrap
    <3>1. origin # "end" => to = CASE origin = "set" -> offset [] origin = "cur" -> f.pos + offset [] OTHER -> f.size
      BY <1>6, <1>8
    <3>2. origin = "end" /\ offset = 0 =>
            to = CASE origin = "set" -> offset [] origin = "cur" -> f.pos + offset [] OTHER -> f.size
      BY <1>5, <1>8 DEF Positioned
    <3> QED BY <3>1, <3>2, <1>10
  <2>9. SeeksAsC'
    BY <2>2, <2>3, <2>6, <2>7, <2>8 DEF SeeksAsC
  <2> QED BY <1>2, <1>3, <2>2, <2>9 DEF CallsOK
<1>13. CASE UNCHANGED file /\ sought' = <<>>
  <2>1. FilesOK'
    BY <1>1, <1>13, FilesStay
  <2>2. DOMAIN sought' = {}
    BY <1>13
  <2>3. SeeksAsC'
    BY <2>2 DEF SeeksAsC
  <2> QED BY <1>2, <1>3, <2>1, <2>3 DEF CallsOK
<1> QED BY <1>6, <1>7, <1>10, <1>12, <1>13

\* The function that is called is there, but for the one that makes directories.
LEMMA NamesOK == ASSUME CallsOK, dmake \/ Names PROVE CallsOK'
<1>1. UNCHANGED <<devlist, mnt, file, listing>> /\ Passed
  BY DEF dmake, Names
<1>2. TestedFunctions'
  <2>1. CASE dmake
    BY <2>1 DEF dmake, TestedFunctions, CallsOK
  <2>2. CASE Names
    <3>1. PICK kind \in FileSystem, f \in {"link", "symlink", "unlink", "getprops", "setprops"} :
             LET tested == IF f = "symlink" THEN f ELSE "link"
             IN fault' = IF tested \in Has(kind) /\ f \notin Has(kind) THEN f ELSE fault
      BY <2>2 DEF Names
    <3>2. CASE kind = "devfs"
      <4>1. Has(kind) = {"fopen", "dopen", "dread", "dclose"}
        BY <3>2 DEF Has
      <4>2. fault' = fault
        BY <3>1, <4>1
      <4> QED BY <4>2 DEF TestedFunctions, CallsOK
    <3>3. CASE kind = "disk"
      <4>1. f \in Has(kind)
        BY <3>1, <3>3 DEF Has
      <4>2. fault' = fault
        BY <3>1, <4>1
      <4> QED BY <4>2 DEF TestedFunctions, CallsOK
    <3> QED BY <3>1, <3>2, <3>3 DEF FileSystem
  <2> QED BY <2>1, <2>2
<1>3. DevicesOK(devlist') /\ ListingOK(listing'.given, listing'.next, devlist')
  BY <1>1, ListStays
<1>4. FilesOK'
  BY <1>1, FilesStay DEF CallsOK
<1> QED BY <1>1, <1>2, <1>3, <1>4, PassedOK DEF CallsOK

LEMMA ListingStepOK == ASSUME CallsOK, dev_dopen \/ dev_dread \/ dev_dclose PROVE CallsOK'
<1>1. UNCHANGED <<devlist, mnt, file, fault>> /\ Passed
  BY DEF dev_dopen, dev_dread, dev_dclose
<1>2. DevicesOK(devlist') /\ FilesOK' /\ TestedFunctions'
  BY <1>1, FilesStay DEF CallsOK, TestedFunctions
<1>3. DevicesOK(devlist)
  BY DEF CallsOK
<1>4. devlist \in Seq(DeviceNames) /\ Len(devlist) \in Nat /\ Len(devlist) > 0
  BY <1>3, LenProperties DEF DevicesOK
<1>5. <<>> \in Seq(DeviceNames) /\ Len(<<>>) = 0 /\ 1..0 = {}
  BY EmptySeq
<1>6. ListingOK(listing'.given, listing'.next, devlist)
  <2>1. CASE dev_dopen
    <3>1. listing'.given = <<>> /\ listing'.next = devlist[1]
      BY <2>1 DEF dev_dopen
    <3> QED BY <3>1, <1>4, <1>5 DEF ListingOK
  <2>2. CASE dev_dread
    BY <2>2, ListingMoves
  <2>3. CASE dev_dclose
    <3>1. listing'.given = <<>> /\ listing'.next = None
      BY <2>3 DEF dev_dclose
    <3> QED BY <3>1, <1>4, <1>5 DEF ListingOK
  <2> QED BY <2>1, <2>2, <2>3
<1> QED BY <1>1, <1>2, <1>6, PassedOK DEF CallsOK

LEMMA CallsStep == CallsOK /\ [CallsNext]_callVars => CallsOK'
<1> SUFFICES ASSUME CallsOK, [CallsNext]_callVars PROVE CallsOK'
  OBVIOUS
<1>1. CASE UNCHANGED callVars
  <2>1. UNCHANGED <<devlist, mnt, file, listing, buf, sought, fault>>
    BY <1>1 DEF callVars
  <2>2. ReadsFillBuffer' /\ SeeksAsC' /\ TestedFunctions'
    BY <2>1 DEF CallsOK, ReadsFillBuffer, SeeksAsC, TestedFunctions
  <2> QED BY <2>1, <2>2, ListStays, FilesStay DEF CallsOK
<1>2. CASE CallsNext
  BY <1>2, InsertOK, NamesOK, ListingStepOK, FopenOK, FcloseOK, FreadOK, FwriteOK, FseekOK DEF CallsNext
<1> QED BY <1>1, <1>2

\* What the invariant says of the files that are open is what the calls were allowed.
LEMMA CallsOKDispatches == CallsOK => CallsAreDispatched
<1> SUFFICES ASSUME CallsOK PROVE CallsAreDispatched
  OBVIOUS
<1>1. WritesAreAllowed
  <2>1. ASSUME NEW h \in DOMAIN file
        PROVE  /\ file[h].mode = file[h].flags
               /\ "write" \in file[h].mode => "write" \in Mode(file[h].fs)
    <3>1. FileOK(file[h], mnt)
      BY DEF CallsOK, FilesOK
    <3> QED BY <3>1 DEF FileOK, Mode
  <2> QED BY <2>1 DEF WritesAreAllowed, IsOpen
<1>2. ListsDevices
  BY ListingTold DEF CallsOK
<1> QED BY <1>1, <1>2 DEF CallsOK, CallsAreDispatched

\* What is done to a file, and to a listing of /dev, is what the call has asked for and may do,
\* whatever devices are found while the files are open.
THEOREM CallsDispatched == CallsSpec => []CallsAreDispatched
<1>1. CallsSpec => []CallsOK
  BY CallsInitOK, CallsStep, PTL DEF CallsSpec
<1> QED BY <1>1, CallsOKDispatches, PTL
=============================================================================
