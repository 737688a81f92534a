------------------------- MODULE PageWindows_proof -------------------------
(***************************************************************************)
(* Theorems about PageWindows, for any number of processes, pages, entries *)
(* of a table and areas.  The types hold whatever calls come into the      *)
(* middle of, and everything holds for a process alone; of several, each   *)
(* of the three properties asks for the locks that its theorem names, and  *)
(* for no others.  The code has none of them.                              *)
(*                                                                         *)
(* The windows need an invariant of their own, RemapInv.  The pages need   *)
(* to know whose each allocated page is at every step of every call (Own), *)
(* what the local variables of a call say of its table (Knows), that every *)
(* window a call will use leads where it wants (Leads), and that the word  *)
(* of the bitmap in its hand is that of the bitmap (Bits): together they   *)
(* are PagesInv.                                                           *)
(***************************************************************************)
EXTENDS PageWindows, FiniteSetTheorems, WellFoundedInduction, TLAPS
\* The step a call is at, or will be at when its window is open.
Stage(p) == IF pc[p] \in {"look", "remap"} THEN opening[p].then ELSE pc[p]

\* The steps from the choice of an entry to its mapping, and those while it is mapped and
\* not held.
Mapping == {"map dir", "test", "load", "store", "temp", "clear", "link", "map page", "put"}
Owning  == {"fill", "unmap dir", "unmap", "free load", "free store", "null"}

Tab(p)     == contents[p][0]
Entries(p) == {i \in Ptes : Tab(p) # Unmapped /\ contents[Tab(p)][i] # Unmapped}

-----------------------------------------------------------------------------
(* Who owns which page.                                                    *)

\* A process owns its table, the page that a call has in its hand, and those in the entries
\* of the table but one that is freed.
Place == {-1, -2} \cup Ptes
Hand  == {"temp", "clear", "link", "put"}

Owns(p, k, x) ==
    \/ k = -1 /\ Tab(p) # Unmapped /\ x = Tab(p)
    \/ k = -2 /\ pc[p] \in Hand /\ x = page[p]
    \/ k \in Entries(p) /\ ~(pc[p] = "null" /\ k = pte[p]) /\ x = contents[Tab(p)][k]

Own ==
    /\ Process \subseteq alloced
    /\ \A p \in Process, k \in Place, x \in {Unmapped} \cup Frames : Owns(p, k, x) => x \in alloced \ Process
    /\ \A p, q \in Process, k, j \in Place, x \in {Unmapped} \cup Frames :
          Owns(p, k, x) /\ Owns(q, j, x) => p = q /\ k = j
    /\ \A x \in alloced \ Process : \E p \in Process, k \in Place : Owns(p, k, x)

\* What a window is opened for, and where it leads then.
OpensRight(p) ==
    LET o == opening[p]
    IN  IF pc[p] \in {"look", "remap"}
        THEN \/ o.then \in {"find", "map dir", "unmap dir"} /\ o.window = "dir" /\ o.page = p
             \/ o.then = "unmap" /\ o.window = "dir" /\ o.page = Tab(p) /\ o.page # Unmapped
             \/ o.then \in {"find table", "map page"} /\ o.window = "table" /\ o.page = Tab(p)
                /\ o.page # Unmapped
        ELSE o = NotOpening

\* What a call knows at its steps.
Knows(p) ==
    /\ OpensRight(p)
    /\ Entries(p) = held[p] \cup (IF Stage(p) \in Owning THEN {pte[p]} ELSE {})
    /\ Stage(p) \in Mapping \cup Owning => pte[p] \notin held[p]
    /\ Stage(p) \in {"map page", "put", "find table"} \cup Owning => Tab(p) # Unmapped
    /\ pc[p] \in {"temp", "clear", "link"} => Tab(p) = Unmapped
    /\ pc[p] \in {"test", "load", "store"} => (purpose[p] = "table" <=> Tab(p) = Unmapped)
    /\ pc[p] = "link" => contents[page[p]] = Empty
    /\ pc[p] \in {"free load", "free store", "null"} => page[p] = contents[Tab(p)][pte[p]]

\* The page that a call wants to reach through a window.
Wanted(p, w) ==
    IF w = "temp" THEN page[p]
    ELSE IF w = "table" \/ pc[p] \in {"unmap", "free load", "free store", "null"} THEN Tab(p)
    ELSE p

\* A window that a call uses leads where the call wants it.
LeadsRight ==
    \A p \in Process, w \in Windows : Uses(p, w) /\ pc[p] # "remap" => window[w] = Wanted(p, w)

\* A window that is being moved is remembered to lead there already, and used by no other.
LeadsAlone ==
    \A p \in Process, w \in Windows : pc[p] = "remap" /\ opening[p].window = w =>
       active_phys_page[w] = opening[p].page /\ \A q \in Process \ {p} : ~Uses(q, w)

Leads == LeadsRight /\ LeadsAlone /\ WindowsLeadThere

\* The bits are set and cleared by one call at a time.
Bits ==
    /\ \A p, q \in Process : InBitmap(p) /\ InBitmap(q) => p = q
    /\ \A p \in Process : /\ pc[p] \in {"load", "store"} => page[p] \in Frames \ alloced
                          /\ pc[p] \in {"store", "free store"} => word[p] = alloced
                          /\ pc[p] = "free store" => page[p] \in alloced

PagesInv == ~panic /\ Own /\ (\A p \in Process : Knows(p)) /\ Leads /\ Bits

\* A call asks for the windows of the directories and the tables, and for one at a time.
OpenInv ==
    \A p \in Process : /\ opening[p].window # "temp" /\ opening[p].then # "remap"
                       /\ pc[p] \notin {"look", "remap"} => opening[p] = NotOpening

\* An entry of the table of areas that a call has found is free, and found by no other.
SlotsInv ==
    /\ FreeFindsArea
    /\ \A p \in Process : InSlot(p) => memory_allocations[slot[p]] = NoArea
    /\ \A p, q \in Process : InSlot(p) /\ InSlot(q) /\ slot[p] = slot[q] => p = q

\* A window is moved by one call at a time.
RemapInv ==
    /\ \A p \in Process, w \in Windows : pc[p] = "remap" /\ opening[p].window = w =>
          /\ active_phys_page[w] = opening[p].page
          /\ \A q \in Process \ {p} : ~(pc[q] = "remap" /\ opening[q].window = w)
    /\ WindowsLeadThere

-----------------------------------------------------------------------------
(* Types.                                                                  *)

Types ==
    /\ WindowTypeOK
    /\ \A p \in Process : /\ pc[p] \in {"load", "store"} => page[p] \in Frames
                          /\ opening[p].then \notin {"load", "store"}

\* Every natural number of a set that has one is least, or there is a smaller one.
LEMMA LeastIs ==
  ASSUME NEW S, S \subseteq Nat, S # {}
  PROVE  Min(S) \in S
<1>1. PICK x \in S : \A y \in S : ~(<<y, x>> \in OpToRel(<, Nat))
  BY NatLessThanWellFounded, WFMin
<1>2. ASSUME NEW y \in S, y < x PROVE FALSE
  <2>1. <<y, x>> \in OpToRel(<, Nat)
    BY <1>2 DEF OpToRel
  <2> QED BY <1>1, <2>1
<1>3. \A y \in S : x <= y
  BY <1>2
<1> QED BY <1>3 DEF Min

\* What the constants are.
LEMMA Constants ==
  /\ Process \subseteq Frames /\ LastPage \in Nat /\ PeCount \in Nat \ {0} /\ 0 \in Ptes /\ 0 \in Slots
  /\ Ptes \subseteq Nat /\ Slots \subseteq Nat /\ Frames \subseteq Nat /\ Unmapped \notin Frames
  /\ Unmapped \notin Process /\ Empty \in [Ptes -> {Unmapped} \cup Frames]
  /\ NoArea \in [pid : {0} \cup Process, pte : Ptes]
  BY WindowAssumption DEF Frames, Ptes, Slots, Unmapped, Empty, NoArea

\* The windows begin with their types.
LEMMA TypesInit == WindowInit => Types
<1> SUFFICES ASSUME WindowInit PROVE Types
  OBVIOUS
<1> USE Constants DEF WindowInit, Types, WindowTypeOK
<1>1. /\ alloced \subseteq Frames /\ contents \in [{Unmapped} \cup Frames -> [Ptes -> {Unmapped} \cup Frames]]
      /\ window \in [Windows -> {Unmapped} \cup Frames]
      /\ active_phys_page \in [Windows -> {Unmapped} \cup Frames]
  OBVIOUS
<1>2. memory_allocations \in [Slots -> [pid : {0} \cup Process, pte : Ptes]] /\ panic \in BOOLEAN
  OBVIOUS
<1>3. /\ pc \in [Process -> Steps]
      /\ opening \in [Process -> [window : Windows, page : {Unmapped} \cup Frames, then : Steps]]
  BY DEF Steps, Windows, NotOpening
<1>4. /\ slot \in [Process -> Slots] /\ pte \in [Process -> Ptes]
      /\ page \in [Process -> {Unmapped} \cup Frames] /\ word \in [Process -> SUBSET Frames]
      /\ purpose \in [Process -> {"table", "page"}] /\ held \in [Process -> SUBSET Ptes]
      /\ mishaps \subseteq Unlocked
  OBVIOUS
<1>5. \A p \in Process : pc[p] \notin {"load", "store"} /\ opening[p].then \notin {"load", "store"}
  BY DEF NotOpening
<1> QED BY <1>1, <1>2, <1>3, <1>4, <1>5

AllocedOK  == alloced \subseteq Frames
ContentsOK == contents \in [{Unmapped} \cup Frames -> [Ptes -> {Unmapped} \cup Frames]]
WindowOK   == window \in [Windows -> {Unmapped} \cup Frames]
ActiveOK   == active_phys_page \in [Windows -> {Unmapped} \cup Frames]
AreasOK    == memory_allocations \in [Slots -> [pid : {0} \cup Process, pte : Ptes]]
PanicOK    == panic \in BOOLEAN /\ mishaps \subseteq Unlocked
PcOK       == pc \in [Process -> Steps]
OpeningOK  ==
    /\ opening \in [Process -> [window : Windows, page : {Unmapped} \cup Frames, then : Steps]]
    /\ \A p \in Process : opening[p].then \notin {"load", "store"}
SlotOK     == slot \in [Process -> Slots]
PteOK      == pte \in [Process -> Ptes]
PageOK     == page \in [Process -> {Unmapped} \cup Frames]
FoundOK    == \A p \in Process : pc[p] \in {"load", "store"} => page[p] \in Frames
WordOK     == word \in [Process -> SUBSET Frames]
PurposeOK  == purpose \in [Process -> {"table", "page"}]
HeldOK     == held \in [Process -> SUBSET Ptes]

\* The types, one by one.
LEMMA TypesAre ==
  /\ Types <=> /\ AllocedOK /\ ContentsOK /\ WindowOK /\ ActiveOK /\ AreasOK /\ PanicOK /\ PcOK /\ OpeningOK
               /\ SlotOK /\ PteOK /\ PageOK /\ FoundOK /\ WordOK /\ PurposeOK /\ HeldOK
  /\ Types' <=> /\ AllocedOK' /\ ContentsOK' /\ WindowOK' /\ ActiveOK' /\ AreasOK' /\ PanicOK' /\ PcOK'
                /\ OpeningOK' /\ SlotOK' /\ PteOK' /\ PageOK' /\ FoundOK' /\ WordOK' /\ PurposeOK'
                /\ HeldOK'
  BY Zenon DEF Types, WindowTypeOK, AllocedOK, ContentsOK, WindowOK, ActiveOK, AreasOK, PanicOK, PcOK, OpeningOK,
         SlotOK, PteOK, PageOK, FoundOK, WordOK, PurposeOK, HeldOK

\* A call asks for a window, or has it.
LEMMA OpenTypes ==
  ASSUME OpeningOK, PcOK, NEW p \in Process, NEW w \in Windows, NEW x \in {Unmapped} \cup Frames,
         NEW step \in Steps \ {"load", "store"}, Open(p, w, x, step)
  PROVE  OpeningOK' /\ PcOK' /\ pc' = [pc EXCEPT ![p] = "look"]
  BY ZenonT(60) DEF Open, OpeningOK, PcOK, Set, Goto, Steps

\* A call whose window is open goes on to a step it may ask for.
LEMMA OpenedTypes ==
  ASSUME OpeningOK, PcOK, NEW p \in Process, Opened(p)
  PROVE  OpeningOK' /\ PcOK' /\ pc' = [pc EXCEPT ![p] = opening[p].then]
         /\ opening[p].then \in Steps \ {"load", "store"}
<1>1. NotOpening \in [window : Windows, page : {Unmapped} \cup Frames, then : Steps]
      /\ NotOpening.then \notin {"load", "store"}
  BY DEF NotOpening, Windows, Steps
<1> QED BY <1>1 DEF Opened, OpeningOK, PcOK, Set, Goto

\* What a call reads in a directory or a table is a page, if anything.
LEMMA ReadTypes ==
  ASSUME Types, NEW w \in Windows, NEW i \in Ptes
  PROVE  contents[window[w]][i] \in {Unmapped} \cup Frames
  BY DEF Types, WindowTypeOK

\* What a call does: one of the steps.
Moves(p) ==
    \/ Look(p) \/ Remap(p)
    \/ Sysmalloc(p) \/ Find(p) \/ FindTable(p) \/ MapDir(p) \/ MapPage(p) \/ Test(p) \/ Load(p)
    \/ Store(p) \/ Temp(p) \/ Clear(p) \/ Link(p) \/ Put(p) \/ Fill(p)
    \/ Sysfree(p) \/ UnmapDir(p) \/ Unmap(p) \/ FreeLoad(p) \/ FreeStore(p) \/ Null(p)

\* Every step of a call keeps the types.
LEMMA TypesNext ==
  ASSUME Types, NEW p \in Process, Moves(p), mishaps' \subseteq Unlocked
  PROVE  Types'
<1>0. /\ AllocedOK /\ ContentsOK /\ WindowOK /\ ActiveOK /\ AreasOK /\ PanicOK /\ PcOK /\ OpeningOK
      /\ SlotOK /\ PteOK /\ PageOK /\ FoundOK /\ WordOK /\ PurposeOK /\ HeldOK
  BY TypesAre
<1> USE Constants
<1>1. CASE Look(p)
  <2>a. Opened(p) => /\ OpeningOK' /\ PcOK' /\ pc' = [pc EXCEPT ![p] = opening[p].then]
                       /\ opening[p].then \in Steps \ {"load", "store"}
    BY <1>0, OpenedTypes
  <2>1. ActiveOK'
    BY <1>0, <1>1, <2>a, ZenonT(60) DEF Look, Set, Goto, At, shared, locals, ActiveOK, Windows, OpeningOK,
       PageOK
  <2>2. PcOK'
    BY <1>0, <1>1, <2>a DEF Look, Set, Goto, Steps, PcOK
  <2>3. OpeningOK'
    BY <1>0, <1>1, <2>a DEF Look, Set, Goto, Steps, OpeningOK
  <2>4. FoundOK'
    BY <1>0, <1>1, <2>a DEF Look, Set, Goto, At, shared, locals, FoundOK, PcOK
  <2>z. AllocedOK' /\ ContentsOK' /\ WindowOK' /\ AreasOK' /\ SlotOK' /\ PteOK' /\ PageOK' /\ WordOK' /\
        PurposeOK' /\ HeldOK'
    BY <1>0, <1>1 DEF Look, Set, Goto, At, shared, locals, AllocedOK, ContentsOK, WindowOK,
       AreasOK, SlotOK, PteOK, PageOK, WordOK, PurposeOK, HeldOK
  <2>y. PanicOK'
    BY <1>0, <1>1 DEF Look, shared, PanicOK
  <2> QED BY <2>1, <2>2, <2>3, <2>4, <2>z, <2>y, TypesAre
<1>2. CASE Remap(p)
  <2>a. /\ OpeningOK' /\ PcOK' /\ pc' = [pc EXCEPT ![p] = opening[p].then]
        /\ opening[p].then \in Steps \ {"load", "store"}
    BY <1>0, <1>2, OpenedTypes DEF Remap
  <2>1. WindowOK'
    BY <1>0, <1>2, <2>a DEF Remap, WindowOpened, Set, Goto, At, shared, locals, WindowOK, Windows,
       OpeningOK, PageOK
  <2>2. PcOK'
    BY <1>0, <1>2, <2>a DEF Remap, WindowOpened, Set, Goto, Steps, PcOK
  <2>3. OpeningOK'
    BY <1>0, <1>2, <2>a DEF Remap, WindowOpened, Set, Goto, Steps, OpeningOK
  <2>4. FoundOK'
    BY <1>0, <1>2, <2>a DEF Remap, WindowOpened, Set, Goto, At, shared, locals, FoundOK, PcOK
  <2>z. AllocedOK' /\ ContentsOK' /\ ActiveOK' /\ AreasOK' /\ SlotOK' /\ PteOK' /\ PageOK' /\ WordOK' /\
        PurposeOK' /\ HeldOK'
    BY <1>0, <1>2 DEF Remap, WindowOpened, Set, Goto, At, shared, locals, AllocedOK, ContentsOK,
       ActiveOK, AreasOK, SlotOK, PteOK, PageOK, WordOK, PurposeOK, HeldOK
  <2>y. PanicOK'
    BY <1>0, <1>2 DEF Remap, WindowOpened, shared, PanicOK
  <2> QED BY <2>1, <2>2, <2>3, <2>4, <2>z, <2>y, TypesAre
<1>3. CASE Sysmalloc(p)
  <2>a. Min(FreeSlots) \in Slots
    <3>1. FreeSlots \subseteq Slots /\ FreeSlots # {}
      BY <1>3 DEF Sysmalloc, FreeSlots
    <3> QED BY <3>1, LeastIs
  <2>b. UNCHANGED opening => OpeningOK'
    BY <1>0 DEF OpeningOK
  <2>1. SlotOK'
    BY <1>0, <1>3, <2>a DEF Sysmalloc, Open, Set, Goto, At, shared, locals, SlotOK
  <2>2. PcOK'
    BY <1>0, <1>3, <2>a DEF Sysmalloc, Open, Set, Goto, At, shared, locals, PcOK, Steps
  <2>3. OpeningOK'
    BY <1>0, <1>3, <2>b, OpenTypes, ReadTypes DEF Sysmalloc, Windows, Steps
  <2>4. FoundOK'
    BY <1>0, <1>3, <2>a DEF Sysmalloc, Open, Set, Goto, At, shared, locals, FoundOK, PcOK
  <2>z. AllocedOK' /\ ContentsOK' /\ WindowOK' /\ ActiveOK' /\ AreasOK' /\ PteOK' /\ PageOK' /\ WordOK' /\
        PurposeOK' /\ HeldOK'
    BY <1>0, <1>3 DEF Sysmalloc, Open, Set, Goto, At, shared, locals, AllocedOK, ContentsOK,
       WindowOK, ActiveOK, AreasOK, PteOK, PageOK, WordOK, PurposeOK, HeldOK
  <2>y. PanicOK'
    BY <1>0, <1>3 DEF Sysmalloc, Open, shared, PanicOK
  <2> QED BY <2>1, <2>2, <2>3, <2>4, <2>z, <2>y, TypesAre
<1>4. CASE Find(p)
  <2>b. UNCHANGED opening => OpeningOK'
    BY <1>0 DEF OpeningOK
  <2>1. PteOK'
    BY <1>0, <1>4 DEF Find, Open, Set, Goto, At, shared, locals, PteOK
  <2>2. PcOK'
    BY <1>0, <1>4, ZenonT(60) DEF Find, Open, Set, Goto, At, shared, locals, PcOK, Steps
  <2>3. OpeningOK'
    BY <1>0, <1>4, <2>b, OpenTypes, ReadTypes DEF Find, Windows, Steps
  <2>4. FoundOK'
    BY <1>0, <1>4 DEF Find, Open, Set, Goto, At, shared, locals, FoundOK, PcOK
  <2>z. AllocedOK' /\ ContentsOK' /\ WindowOK' /\ ActiveOK' /\ AreasOK' /\ SlotOK' /\ PageOK' /\ WordOK' /\
        PurposeOK' /\ HeldOK'
    BY <1>0, <1>4 DEF Find, Open, Set, Goto, At, shared, locals, AllocedOK, ContentsOK, WindowOK,
       ActiveOK, AreasOK, SlotOK, PageOK, WordOK, PurposeOK, HeldOK
  <2>y. PanicOK'
    BY <1>0, <1>4 DEF Find, Open, shared, PanicOK
  <2> QED BY <2>1, <2>2, <2>3, <2>4, <2>z, <2>y, TypesAre
<1>5. CASE FindTable(p)
  <2>a. \A S \in SUBSET Ptes : S # {} => Min(S) \in Ptes
    BY LeastIs
  <2>b. UNCHANGED opening => OpeningOK'
    BY <1>0 DEF OpeningOK
  <2>1. PteOK'
    <3>1. pte \in [Process -> Ptes] /\ 0 \in Ptes
      BY <1>0, Constants DEF PteOK, Ptes
    <3>2. \E x \in Ptes : pte' = [pte EXCEPT ![p] = x]
      <4> DEFINE free == {i \in Ptes : contents[window["table"]][i] = Unmapped}
      <4>1. (free # {} /\ pte' = Set(pte, p, Min(free))) \/ pte' = Set(pte, p, 0)
        BY <1>5 DEF FindTable, Return
      <4>2. free # {} => Min(free) \in Ptes
        BY <2>a
      <4> QED BY <3>1, <4>1, <4>2 DEF Set
    <3> QED BY <3>1, <3>2 DEF PteOK
  <2>2. PcOK'
    BY <1>0, <1>5, <2>a, ZenonT(60) DEF FindTable, Open, Return, Set, Goto, At, shared, locals, PcOK, Steps
  <2>3. OpeningOK'
    BY <1>0, <1>5, <2>b, OpenTypes, ReadTypes DEF FindTable, Return, Windows, Steps
  <2>4. SlotOK'
    BY <1>0, <1>5, <2>a DEF FindTable, Open, Return, Set, Goto, At, shared, locals, SlotOK
  <2>5. PageOK'
    BY <1>0, <1>5, <2>a DEF FindTable, Open, Return, Set, Goto, At, shared, locals, PageOK
  <2>6. PurposeOK'
    BY <1>0, <1>5, <2>a DEF FindTable, Open, Return, Set, Goto, At, shared, locals, PurposeOK
  <2>7. FoundOK'
    BY <1>0, <1>5, <2>a, ZenonT(60) DEF FindTable, Open, Return, Set, Goto, At, shared, locals, FoundOK, PcOK,
       PageOK
  <2>z. AllocedOK' /\ ContentsOK' /\ WindowOK' /\ ActiveOK' /\ AreasOK' /\ WordOK' /\ HeldOK'
    BY <1>0, <1>5 DEF FindTable, Open, Return, Set, Goto, At, shared, locals, AllocedOK,
       ContentsOK, WindowOK, ActiveOK, AreasOK, WordOK, HeldOK
  <2>y. PanicOK'
    BY <1>0, <1>5 DEF FindTable, Open, Return, shared, PanicOK
  <2> QED BY <2>1, <2>2, <2>3, <2>4, <2>5, <2>6, <2>7, <2>z, <2>y, TypesAre
<1>6. CASE MapDir(p)
  <2>b. UNCHANGED opening => OpeningOK'
    BY <1>0 DEF OpeningOK
  <2>1. PcOK'
    BY <1>0, <1>6, ZenonT(60) DEF MapDir, Open, Set, Goto, At, shared, locals, PcOK, Steps
  <2>2. OpeningOK'
    BY <1>0, <1>6, <2>b, OpenTypes, ReadTypes DEF MapDir, Windows, Steps
  <2>3. PurposeOK'
    BY <1>0, <1>6 DEF MapDir, Open, Set, Goto, At, shared, locals, PurposeOK
  <2>4. FoundOK'
    BY <1>0, <1>6 DEF MapDir, Open, Set, Goto, At, shared, locals, FoundOK, PcOK
  <2>z. AllocedOK' /\ ContentsOK' /\ WindowOK' /\ ActiveOK' /\ AreasOK' /\ SlotOK' /\ PteOK' /\ PageOK' /\
        WordOK' /\ HeldOK'
    BY <1>0, <1>6 DEF MapDir, Open, Set, Goto, At, shared, locals, AllocedOK, ContentsOK, WindowOK,
       ActiveOK, AreasOK, SlotOK, PteOK, PageOK, WordOK, HeldOK
  <2>y. PanicOK'
    BY <1>0, <1>6 DEF MapDir, Open, shared, PanicOK
  <2> QED BY <2>1, <2>2, <2>3, <2>4, <2>z, <2>y, TypesAre
<1>7. CASE MapPage(p)
  <2>1. PcOK'
    BY <1>0, <1>7 DEF MapPage, Set, Goto, At, shared, locals, PcOK, Steps
  <2>2. PurposeOK'
    BY <1>0, <1>7 DEF MapPage, Set, Goto, At, shared, locals, PurposeOK
  <2>3. FoundOK'
    BY <1>0, <1>7 DEF MapPage, Set, Goto, At, shared, locals, FoundOK, PcOK
  <2>z. AllocedOK' /\ ContentsOK' /\ WindowOK' /\ ActiveOK' /\ AreasOK' /\ OpeningOK' /\ SlotOK' /\ PteOK'
        /\ PageOK' /\ WordOK' /\ HeldOK'
    BY <1>0, <1>7 DEF MapPage, Set, Goto, At, shared, locals, AllocedOK, ContentsOK, WindowOK,
       ActiveOK, AreasOK, OpeningOK, SlotOK, PteOK, PageOK, WordOK, HeldOK
  <2>y. PanicOK'
    BY <1>0, <1>7 DEF MapPage, shared, PanicOK
  <2> QED BY <2>1, <2>2, <2>3, <2>z, <2>y, TypesAre
<1>8. CASE Test(p)
  <2>a. Min(Frames \ alloced) \in Frames
    BY <1>8, LeastIs, ZenonT(60) DEF Test
  <2>1. PcOK'
    BY <1>0, <1>8, <2>a DEF Test, Set, Goto, At, shared, locals, PcOK, Steps
  <2>2. PageOK'
    BY <1>0, <1>8, <2>a DEF Test, Set, Goto, At, shared, locals, PageOK
  <2>3. FoundOK'
    BY <1>0, <1>8, <2>a DEF Test, Set, Goto, At, shared, locals, FoundOK, PcOK, PageOK
  <2>z. AllocedOK' /\ ContentsOK' /\ WindowOK' /\ ActiveOK' /\ AreasOK' /\ OpeningOK' /\ SlotOK' /\ PteOK'
        /\ WordOK' /\ PurposeOK' /\ HeldOK'
    BY <1>0, <1>8 DEF Test, Set, Goto, At, shared, locals, AllocedOK, ContentsOK, WindowOK,
       ActiveOK, AreasOK, OpeningOK, SlotOK, PteOK, WordOK, PurposeOK, HeldOK
  <2>y. PanicOK'
    BY <1>0, <1>8 DEF Test, shared, PanicOK
  <2> QED BY <2>1, <2>2, <2>3, <2>z, <2>y, TypesAre
<1>9. CASE Load(p)
  <2>1. PcOK'
    BY <1>0, <1>9, ZenonT(60) DEF Load, Got, Set, Goto, At, shared, locals, PcOK, Steps
  <2>2. WordOK'
    BY <1>0, <1>9 DEF Load, Got, Set, Goto, At, shared, locals, WordOK, AllocedOK
  <2>3. FoundOK'
    BY <1>0, <1>9 DEF Load, Got, Set, Goto, At, shared, locals, FoundOK, PcOK, PageOK
  <2>z. AllocedOK' /\ ContentsOK' /\ WindowOK' /\ ActiveOK' /\ AreasOK' /\ OpeningOK' /\ SlotOK' /\ PteOK'
        /\ PageOK' /\ PurposeOK' /\ HeldOK'
    BY <1>0, <1>9 DEF Load, Got, Set, Goto, At, shared, locals, AllocedOK, ContentsOK, WindowOK,
       ActiveOK, AreasOK, OpeningOK, SlotOK, PteOK, PageOK, PurposeOK, HeldOK
  <2>y. PanicOK'
    BY <1>0, <1>9 DEF Load, Got, shared, PanicOK
  <2> QED BY <2>1, <2>2, <2>3, <2>z, <2>y, TypesAre
<1>10. CASE Store(p)
  <2>1. AllocedOK'
    BY <1>0, <1>10 DEF Store, Got, WordWithBit, Set, Goto, At, shared, locals, AllocedOK, WordOK,
       PageOK, FoundOK
  <2>2. WordOK'
    BY <1>0, <1>10 DEF Store, Got, WordWithBit, Set, Goto, At, shared, locals, WordOK, AllocedOK
  <2>3. PcOK'
    BY <1>0, <1>10 DEF Store, Got, WordWithBit, Set, Goto, At, shared, locals, PcOK, Steps
  <2>4. FoundOK'
    BY <1>0, <1>10 DEF Store, Got, WordWithBit, Set, Goto, At, shared, locals, FoundOK, PcOK
  <2>z. ContentsOK' /\ WindowOK' /\ ActiveOK' /\ AreasOK' /\ OpeningOK' /\ SlotOK' /\ PteOK' /\ PageOK' /\
        PurposeOK' /\ HeldOK'
    BY <1>0, <1>10 DEF Store, Got, WordWithBit, Set, Goto, At, shared, locals, ContentsOK,
       WindowOK, ActiveOK, AreasOK, OpeningOK, SlotOK, PteOK, PageOK, PurposeOK, HeldOK
  <2>y. PanicOK'
    BY <1>0, <1>10 DEF Store, Got, WordWithBit, shared, PanicOK
  <2> QED BY <2>1, <2>2, <2>3, <2>4, <2>z, <2>y, TypesAre
<1>11. CASE Temp(p)
  <2>1. WindowOK'
    BY <1>0, <1>11 DEF Temp, Set, Goto, At, shared, locals, WindowOK, Windows, OpeningOK, PageOK
  <2>2. PcOK'
    BY <1>0, <1>11 DEF Temp, Set, Goto, At, shared, locals, PcOK, Steps
  <2>3. FoundOK'
    BY <1>0, <1>11 DEF Temp, Set, Goto, At, shared, locals, FoundOK, PcOK
  <2>z. AllocedOK' /\ ContentsOK' /\ ActiveOK' /\ AreasOK' /\ OpeningOK' /\ SlotOK' /\ PteOK' /\ PageOK' /\
        WordOK' /\ PurposeOK' /\ HeldOK'
    BY <1>0, <1>11 DEF Temp, Set, Goto, At, shared, locals, AllocedOK, ContentsOK, ActiveOK,
       AreasOK, OpeningOK, SlotOK, PteOK, PageOK, WordOK, PurposeOK, HeldOK
  <2>y. PanicOK'
    BY <1>0, <1>11 DEF Temp, shared, PanicOK
  <2> QED BY <2>1, <2>2, <2>3, <2>z, <2>y, TypesAre
<1>12. CASE Clear(p)
  <2>1. ContentsOK'
    BY <1>0, <1>12 DEF Clear, Cleared, Set, Goto, At, shared, locals, ContentsOK, WindowOK, PteOK,
       PageOK, Windows
  <2>2. WindowOK'
    BY <1>0, <1>12 DEF Clear, Cleared, Set, Goto, At, shared, locals, WindowOK, Windows, OpeningOK,
       PageOK
  <2>3. PcOK'
    BY <1>0, <1>12 DEF Clear, Cleared, Set, Goto, At, shared, locals, PcOK, Steps
  <2>4. FoundOK'
    BY <1>0, <1>12 DEF Clear, Cleared, Set, Goto, At, shared, locals, FoundOK, PcOK
  <2>z. AllocedOK' /\ ActiveOK' /\ AreasOK' /\ OpeningOK' /\ SlotOK' /\ PteOK' /\ PageOK' /\ WordOK' /\
        PurposeOK' /\ HeldOK'
    BY <1>0, <1>12 DEF Clear, Cleared, Set, Goto, At, shared, locals, AllocedOK, ActiveOK, AreasOK,
       OpeningOK, SlotOK, PteOK, PageOK, WordOK, PurposeOK, HeldOK
  <2>y. PanicOK'
    BY <1>0, <1>12 DEF Clear, Cleared, shared, PanicOK
  <2> QED BY <2>1, <2>2, <2>3, <2>4, <2>z, <2>y, TypesAre
<1>13. CASE Link(p)
  <2>b. UNCHANGED opening => OpeningOK'
    BY <1>0 DEF OpeningOK
  <2>1. ContentsOK'
    BY <1>0, <1>13 DEF Link, Open, Set, Goto, At, shared, locals, ContentsOK, WindowOK, PteOK,
       PageOK, Windows
  <2>2. PcOK'
    BY <1>0, <1>13 DEF Link, Open, Set, Goto, At, shared, locals, PcOK, Steps
  <2>3. OpeningOK'
    BY <1>0, <1>13, <2>b, OpenTypes, ReadTypes DEF Link, Windows, Steps, PageOK
  <2>4. FoundOK'
    BY <1>0, <1>13 DEF Link, Open, Set, Goto, At, shared, locals, FoundOK, PcOK
  <2>z. AllocedOK' /\ WindowOK' /\ ActiveOK' /\ AreasOK' /\ SlotOK' /\ PteOK' /\ PageOK' /\ WordOK' /\
        PurposeOK' /\ HeldOK'
    BY <1>0, <1>13 DEF Link, Open, Set, Goto, At, shared, locals, AllocedOK, WindowOK, ActiveOK,
       AreasOK, SlotOK, PteOK, PageOK, WordOK, PurposeOK, HeldOK
  <2>y. PanicOK'
    BY <1>0, <1>13 DEF Link, Open, shared, PanicOK
  <2> QED BY <2>1, <2>2, <2>3, <2>4, <2>z, <2>y, TypesAre
<1>14. CASE Put(p)
  <2>1. ContentsOK'
    BY <1>0, <1>14 DEF Put, Set, Goto, At, shared, locals, ContentsOK, WindowOK, PteOK, PageOK,
       Windows
  <2>2. PcOK'
    BY <1>0, <1>14 DEF Put, Set, Goto, At, shared, locals, PcOK, Steps
  <2>3. FoundOK'
    BY <1>0, <1>14 DEF Put, Set, Goto, At, shared, locals, FoundOK, PcOK
  <2>z. AllocedOK' /\ WindowOK' /\ ActiveOK' /\ AreasOK' /\ OpeningOK' /\ SlotOK' /\ PteOK' /\ PageOK' /\
        WordOK' /\ PurposeOK' /\ HeldOK'
    BY <1>0, <1>14 DEF Put, Set, Goto, At, shared, locals, AllocedOK, WindowOK, ActiveOK, AreasOK,
       OpeningOK, SlotOK, PteOK, PageOK, WordOK, PurposeOK, HeldOK
  <2>y. PanicOK'
    BY <1>0, <1>14 DEF Put, shared, PanicOK
  <2> QED BY <2>1, <2>2, <2>3, <2>z, <2>y, TypesAre
<1>15. CASE Fill(p)
  <2>1. AreasOK'
    BY <1>0, <1>15 DEF Fill, Return, Set, Goto, At, shared, locals, AreasOK, PteOK, SlotOK
  <2>2. HeldOK'
    BY <1>0, <1>15 DEF Fill, Return, Set, Goto, At, shared, locals, HeldOK, PteOK
  <2>3. PcOK'
    BY <1>0, <1>15 DEF Fill, Return, Set, Goto, At, shared, locals, PcOK, Steps
  <2>4. SlotOK'
    BY <1>0, <1>15 DEF Fill, Return, Set, Goto, At, shared, locals, SlotOK
  <2>5. PteOK'
    BY <1>0, <1>15 DEF Fill, Return, Set, Goto, At, shared, locals, PteOK
  <2>6. PageOK'
    BY <1>0, <1>15 DEF Fill, Return, Set, Goto, At, shared, locals, PageOK
  <2>7. PurposeOK'
    BY <1>0, <1>15 DEF Fill, Return, Set, Goto, At, shared, locals, PurposeOK
  <2>8. FoundOK'
    BY <1>0, <1>15 DEF Fill, Return, Set, Goto, At, shared, locals, FoundOK, PcOK, PageOK
  <2>z. AllocedOK' /\ ContentsOK' /\ WindowOK' /\ ActiveOK' /\ OpeningOK' /\ WordOK'
    BY <1>0, <1>15 DEF Fill, Return, Set, Goto, At, shared, locals, AllocedOK, ContentsOK,
       WindowOK, ActiveOK, OpeningOK, WordOK
  <2>y. PanicOK'
    BY <1>0, <1>15 DEF Fill, Return, shared, PanicOK
  <2> QED BY <2>1, <2>2, <2>3, <2>4, <2>5, <2>6, <2>7, <2>8, <2>z, <2>y, TypesAre
<1>16. CASE Sysfree(p)
  <2>b. UNCHANGED opening => OpeningOK'
    BY <1>0 DEF OpeningOK
  <2>c. \E x : held' = Set(held, p, held[p] \ {x})
    BY <1>16 DEF Sysfree
  <2>1. AreasOK'
    BY <1>0, <1>16 DEF Sysfree, Open, Set, Goto, At, shared, locals, AreasOK, PteOK, SlotOK
  <2>2. HeldOK'
    BY <1>0, <2>c DEF HeldOK, Set
  <2>3. PteOK'
    BY <1>0, <1>16 DEF Sysfree, Open, Set, Goto, At, shared, locals, PteOK, HeldOK
  <2>4. PcOK'
    BY <1>0, <1>16 DEF Sysfree, Open, Set, Goto, At, shared, locals, PcOK, Steps
  <2>5. OpeningOK'
    BY <1>0, <1>16, <2>b, OpenTypes, ReadTypes DEF Sysfree, Windows, Steps
  <2>6. FoundOK'
    BY <1>0, <1>16 DEF Sysfree, Open, Set, Goto, At, shared, locals, FoundOK, PcOK
  <2>z. AllocedOK' /\ ContentsOK' /\ WindowOK' /\ ActiveOK' /\ SlotOK' /\ PageOK' /\ WordOK' /\ PurposeOK'
    BY <1>0, <1>16 DEF Sysfree, Open, Set, Goto, At, shared, locals, AllocedOK, ContentsOK,
       WindowOK, ActiveOK, SlotOK, PageOK, WordOK, PurposeOK
  <2>y. PanicOK'
    BY <1>0, <1>16 DEF Sysfree, Open, shared, PanicOK
  <2> QED BY <2>1, <2>2, <2>3, <2>4, <2>5, <2>6, <2>z, <2>y, TypesAre
<1>17. CASE UnmapDir(p)
  <2>b. UNCHANGED opening => OpeningOK'
    BY <1>0 DEF OpeningOK
  <2>1. PcOK'
    BY <1>0, <1>17 DEF UnmapDir, Open, Set, Goto, At, shared, locals, PcOK, Steps
  <2>2. OpeningOK'
    BY <1>0, <1>17, <2>b, OpenTypes, ReadTypes DEF UnmapDir, Windows, Steps
  <2>3. FoundOK'
    BY <1>0, <1>17 DEF UnmapDir, Open, Set, Goto, At, shared, locals, FoundOK, PcOK
  <2>z. AllocedOK' /\ ContentsOK' /\ WindowOK' /\ ActiveOK' /\ AreasOK' /\ SlotOK' /\ PteOK' /\ PageOK' /\
        WordOK' /\ PurposeOK' /\ HeldOK'
    BY <1>0, <1>17 DEF UnmapDir, Open, Set, Goto, At, shared, locals, AllocedOK, ContentsOK,
       WindowOK, ActiveOK, AreasOK, SlotOK, PteOK, PageOK, WordOK, PurposeOK, HeldOK
  <2>y. PanicOK'
    BY <1>0, <1>17 DEF UnmapDir, Open, shared, PanicOK
  <2> QED BY <2>1, <2>2, <2>3, <2>z, <2>y, TypesAre
<1>18. CASE Unmap(p)
  <2>1. PageOK'
    BY <1>0, <1>18, ReadTypes DEF Unmap, Set, PageOK, PteOK, Windows
  <2>2. PcOK'
    BY <1>0, <1>18 DEF Unmap, Set, Goto, At, shared, locals, PcOK, Steps
  <2>3. FoundOK'
    BY <1>0, <1>18 DEF Unmap, Set, Goto, At, shared, locals, FoundOK, PcOK, PageOK
  <2>z. AllocedOK' /\ ContentsOK' /\ WindowOK' /\ ActiveOK' /\ AreasOK' /\ OpeningOK' /\ SlotOK' /\ PteOK'
        /\ WordOK' /\ PurposeOK' /\ HeldOK'
    BY <1>0, <1>18 DEF Unmap, Set, Goto, At, shared, locals, AllocedOK, ContentsOK, WindowOK,
       ActiveOK, AreasOK, OpeningOK, SlotOK, PteOK, WordOK, PurposeOK, HeldOK
  <2>y. PanicOK'
    BY <1>0, <1>18 DEF Unmap, shared, PanicOK
  <2> QED BY <2>1, <2>2, <2>3, <2>z, <2>y, TypesAre
<1>19. CASE FreeLoad(p)
  <2>1. PcOK'
    BY <1>0, <1>19, ZenonT(60) DEF FreeLoad, Set, Goto, At, shared, locals, PcOK, Steps
  <2>2. WordOK'
    BY <1>0, <1>19 DEF FreeLoad, Set, Goto, At, shared, locals, WordOK, AllocedOK
  <2>3. FoundOK'
    BY <1>0, <1>19 DEF FreeLoad, Set, Goto, At, shared, locals, FoundOK, PcOK
  <2>z. AllocedOK' /\ ContentsOK' /\ WindowOK' /\ ActiveOK' /\ AreasOK' /\ OpeningOK' /\ SlotOK' /\ PteOK'
        /\ PageOK' /\ PurposeOK' /\ HeldOK'
    BY <1>0, <1>19 DEF FreeLoad, Set, Goto, At, shared, locals, AllocedOK, ContentsOK, WindowOK,
       ActiveOK, AreasOK, OpeningOK, SlotOK, PteOK, PageOK, PurposeOK, HeldOK
  <2>y. PanicOK'
    BY <1>0, <1>19 DEF FreeLoad, shared, PanicOK
  <2> QED BY <2>1, <2>2, <2>3, <2>z, <2>y, TypesAre
<1>20. CASE FreeStore(p)
  <2>1. AllocedOK'
    BY <1>0, <1>20 DEF FreeStore, Set, Goto, At, shared, locals, AllocedOK, WordOK, PageOK, FoundOK
  <2>2. WordOK'
    BY <1>0, <1>20 DEF FreeStore, Set, Goto, At, shared, locals, WordOK, AllocedOK
  <2>3. PcOK'
    BY <1>0, <1>20 DEF FreeStore, Set, Goto, At, shared, locals, PcOK, Steps
  <2>4. FoundOK'
    BY <1>0, <1>20 DEF FreeStore, Set, Goto, At, shared, locals, FoundOK, PcOK
  <2>z. ContentsOK' /\ WindowOK' /\ ActiveOK' /\ AreasOK' /\ OpeningOK' /\ SlotOK' /\ PteOK' /\ PageOK' /\
        PurposeOK' /\ HeldOK'
    BY <1>0, <1>20 DEF FreeStore, Set, Goto, At, shared, locals, ContentsOK, WindowOK, ActiveOK,
       AreasOK, OpeningOK, SlotOK, PteOK, PageOK, PurposeOK, HeldOK
  <2>y. PanicOK'
    BY <1>0, <1>20 DEF FreeStore, shared, PanicOK
  <2> QED BY <2>1, <2>2, <2>3, <2>4, <2>z, <2>y, TypesAre
<1>21. CASE Null(p)
  <2>1. ContentsOK'
    BY <1>0, <1>21 DEF Null, Return, Set, Goto, At, shared, locals, ContentsOK, WindowOK, PteOK,
       PageOK, Windows
  <2>2. PcOK'
    BY <1>0, <1>21 DEF Null, Return, Set, Goto, At, shared, locals, PcOK, Steps
  <2>3. SlotOK'
    BY <1>0, <1>21 DEF Null, Return, Set, Goto, At, shared, locals, SlotOK
  <2>4. PteOK'
    BY <1>0, <1>21 DEF Null, Return, Set, Goto, At, shared, locals, PteOK
  <2>5. PageOK'
    BY <1>0, <1>21 DEF Null, Return, Set, Goto, At, shared, locals, PageOK
  <2>6. PurposeOK'
    BY <1>0, <1>21 DEF Null, Return, Set, Goto, At, shared, locals, PurposeOK
  <2>7. FoundOK'
    BY <1>0, <1>21 DEF Null, Return, Set, Goto, At, shared, locals, FoundOK, PcOK, PageOK
  <2>z. AllocedOK' /\ WindowOK' /\ ActiveOK' /\ AreasOK' /\ OpeningOK' /\ WordOK' /\ HeldOK'
    BY <1>0, <1>21 DEF Null, Return, Set, Goto, At, shared, locals, AllocedOK, WindowOK, ActiveOK,
       AreasOK, OpeningOK, WordOK, HeldOK
  <2>y. PanicOK'
    BY <1>0, <1>21 DEF Null, Return, shared, PanicOK
  <2> QED BY <2>1, <2>2, <2>3, <2>4, <2>5, <2>6, <2>7, <2>z, <2>y, TypesAre
<1> QED BY <1>1, <1>2, <1>3, <1>4, <1>5, <1>6, <1>7, <1>8, <1>9, <1>10, <1>11, <1>12, <1>13, <1>14,
   <1>15, <1>16, <1>17, <1>18, <1>19, <1>20, <1>21 DEF Moves


-----------------------------------------------------------------------------
(* What a step leaves alone.                                               *)

\* The local variables of a call, and what its process holds.
Same(q) ==
    /\ pc'[q] = pc[q] /\ opening'[q] = opening[q] /\ slot'[q] = slot[q] /\ pte'[q] = pte[q]
    /\ page'[q] = page[q] /\ word'[q] = word[q] /\ purpose'[q] = purpose[q] /\ held'[q] = held[q]

\* A step of a call leaves those of the others alone.
LEMMA OthersSame ==
  ASSUME Types, NEW p \in Process, Moves(p), NEW q \in Process \ {p}
  PROVE  Same(q)
<1> USE DEF Same, Set, Goto, shared, locals
<1>0. PcOK /\ OpeningOK /\ SlotOK /\ PteOK /\ PageOK /\ WordOK /\ PurposeOK /\ HeldOK
  BY TypesAre
<1> USE DEF PcOK, OpeningOK, SlotOK, PteOK, PageOK, WordOK, PurposeOK, HeldOK
<1>1. CASE Look(p)
  BY <1>0, <1>1 DEF Look, Opened
<1>2. CASE Remap(p)
  BY <1>0, <1>2 DEF Remap, Opened
<1>3. CASE Sysmalloc(p)
  BY <1>0, <1>3 DEF Sysmalloc, Open
<1>4. CASE Find(p)
  BY <1>0, <1>4 DEF Find, Open
<1>5. CASE FindTable(p)
  BY <1>0, <1>5, ZenonT(60) DEF FindTable, Open, Return
<1>6. CASE MapDir(p)
  BY <1>0, <1>6, ZenonT(60) DEF MapDir, Open
<1>7. CASE MapPage(p)
  BY <1>0, <1>7 DEF MapPage
<1>8. CASE Test(p)
  BY <1>0, <1>8 DEF Test
<1>9. CASE Load(p)
  BY <1>0, <1>9 DEF Load
<1>10. CASE Store(p)
  BY <1>0, <1>10 DEF Store
<1>11. CASE Temp(p)
  BY <1>0, <1>11 DEF Temp
<1>12. CASE Clear(p)
  BY <1>0, <1>12 DEF Clear
<1>13. CASE Link(p)
  BY <1>0, <1>13 DEF Link, Open
<1>14. CASE Put(p)
  BY <1>0, <1>14 DEF Put
<1>15. CASE Fill(p)
  BY <1>0, <1>15 DEF Fill, Return
<1>16. CASE Sysfree(p)
  BY <1>0, <1>16, ZenonT(60) DEF Sysfree, Open
<1>17. CASE UnmapDir(p)
  BY <1>0, <1>17, ZenonT(60) DEF UnmapDir, Open
<1>18. CASE Unmap(p)
  BY <1>0, <1>18 DEF Unmap
<1>19. CASE FreeLoad(p)
  BY <1>0, <1>19 DEF FreeLoad
<1>20. CASE FreeStore(p)
  BY <1>0, <1>20 DEF FreeStore
<1>21. CASE Null(p)
  BY <1>0, <1>21 DEF Null, Return
<1> QED BY <1>1, <1>2, <1>3, <1>4, <1>5, <1>6, <1>7, <1>8, <1>9, <1>10, <1>11,
           <1>12, <1>13, <1>14, <1>15, <1>16, <1>17, <1>18, <1>19, <1>20, <1>21 DEF Moves

\* Which windows a call is in front of its last use of.
LEMMA UsesIs ==
  ASSUME NEW p \in Process
  PROVE  /\ Uses(p, "dir") <=>
               \/ pc[p] = "remap" /\ opening[p].window = "dir"
               \/ pc[p] \in {"find", "map dir", "temp", "clear", "link", "unmap dir", "unmap",
                            "free load", "free store", "null"}
               \/ pc[p] \in {"test", "load", "store"} /\ purpose[p] = "table"
         /\ Uses(p, "table") <=>
               \/ pc[p] = "remap" /\ opening[p].window = "table"
               \/ pc[p] \in {"find table", "map page", "put"}
               \/ pc[p] \in {"test", "load", "store"} /\ purpose[p] # "table"
         /\ Uses(p, "temp") <=>
               \/ pc[p] = "remap" /\ opening[p].window = "temp"
               \/ pc[p] = "clear"
  BY DEF Uses

\* Which windows a call uses after its step, by the step it is at then.
LEMMA UsesThen ==
  ASSUME NEW p \in Process
  PROVE  /\ Uses(p, "dir")' <=>
               \/ pc'[p] = "remap" /\ opening'[p].window = "dir"
               \/ pc'[p] \in {"find", "map dir", "temp", "clear", "link", "unmap dir", "unmap",
                             "free load", "free store", "null"}
               \/ pc'[p] \in {"test", "load", "store"} /\ purpose'[p] = "table"
         /\ Uses(p, "table")' <=>
               \/ pc'[p] = "remap" /\ opening'[p].window = "table"
               \/ pc'[p] \in {"find table", "map page", "put"}
               \/ pc'[p] \in {"test", "load", "store"} /\ purpose'[p] # "table"
         /\ Uses(p, "temp")' <=>
               \/ pc'[p] = "remap" /\ opening'[p].window = "temp"
               \/ pc'[p] = "clear"
  BY DEF Uses

-----------------------------------------------------------------------------
(* How ownership changes.                                                  *)

Any == {Unmapped} \cup Frames

\* A place of a process goes on owning what it owned.
Keeps(q, k) == \A x \in Any : Owns(q, k, x)' <=> Owns(q, k, x)

\* A place owns a page and nothing else; it owns nothing.
Has(q, k, y)   == \A x \in Any : Owns(q, k, x) <=> x = y
Lacks(q, k)    == \A x \in Any : ~Owns(q, k, x)

\* Nobody owns another page when every place owns what it did.
LEMMA OwnSame ==
  ASSUME Own, alloced \subseteq Frames, alloced' = alloced, \A q \in Process, k \in Place : Keeps(q, k)
  PROVE  Own'
<1>1. \A q \in Process, k \in Place, x \in Any : Owns(q, k, x)' <=> Owns(q, k, x)
  BY DEF Keeps
<1> QED BY <1>1 DEF Own, Any

\* A page goes from one place of a process to another.
LEMMA OwnMoved ==
  ASSUME Own, alloced \subseteq Frames, alloced' = alloced,
         NEW p \in Process, NEW from \in Place, NEW to \in Place, from # to,
         NEW y \in Any, Has(p, from, y), Lacks(p, to), Lacks(p, from)', Has(p, to, y)',
         \A q \in Process \ {p}, k \in Place : Keeps(q, k),
         \A k \in Place \ {from, to} : Keeps(p, k)
  PROVE  Own'
<1>1. \A q \in Process, k \in Place, x \in Any :
         Owns(q, k, x)' <=> IF q = p /\ k = to THEN x = y
                            ELSE Owns(q, k, x) /\ ~(q = p /\ k = from)
  BY DEF Keeps, Has, Lacks
<1>2. Owns(p, from, y) /\ \A x \in Any : Owns(p, from, x) => x = y
  BY DEF Has
<1>3. Process \subseteq alloced' /\ \A q \in Process, k \in Place, x \in Any : Owns(q, k, x)' => x \in alloced' \ Process
  BY <1>1, <1>2 DEF Own, Any
<1>4. ASSUME NEW q \in Process, NEW r \in Process, NEW k \in Place, NEW j \in Place, NEW x \in Any,
             Owns(q, k, x)', Owns(r, j, x)'
      PROVE  q = r /\ k = j
  BY <1>1, <1>2, <1>4 DEF Own, Any
<1>5. ASSUME NEW x \in alloced' \ Process PROVE \E q \in Process, k \in Place : Owns(q, k, x)'
  <2>1. PICK q \in Process, k \in Place : Owns(q, k, x)
    BY <1>5 DEF Own
  <2>2. x \in Any
    BY <1>5 DEF Any
  <2>3. CASE q = p /\ k = from
    <3>1. Owns(p, to, y)'
      BY DEF Has
    <3>2. x = y
      BY <1>2, <2>1, <2>2, <2>3
    <3> QED BY <3>1, <3>2
  <2>4. CASE ~(q = p /\ k = from)
    <3>1. ~(q = p /\ k = to)
      BY <2>1, <2>2 DEF Lacks
    <3> QED BY <1>1, <2>1, <2>2, <2>4, <3>1
  <2> QED BY <2>3, <2>4
<1> QED BY <1>3, <1>4, <1>5 DEF Own, Any

\* A process is given a page that was free.
LEMMA OwnAdded ==
  ASSUME Own, alloced \subseteq Frames, NEW y \in Frames \ alloced, alloced' = alloced \cup {y},
         NEW p \in Process, NEW to \in Place, Lacks(p, to), Has(p, to, y)',
         \A q \in Process \ {p}, k \in Place : Keeps(q, k),
         \A k \in Place \ {to} : Keeps(p, k)
  PROVE  Own'
<1>1. \A q \in Process, k \in Place, x \in Any :
         Owns(q, k, x)' <=> IF q = p /\ k = to THEN x = y ELSE Owns(q, k, x)
  BY DEF Keeps, Has, Lacks
<1>5. Process \subseteq alloced'
  BY DEF Own
<1>2. \A q \in Process, k \in Place, x \in Any : Owns(q, k, x)' => x \in alloced' \ Process
  BY <1>1 DEF Own, Any
<1>3. ASSUME NEW q \in Process, NEW r \in Process, NEW k \in Place, NEW j \in Place, NEW x \in Any,
             Owns(q, k, x)', Owns(r, j, x)'
      PROVE  q = r /\ k = j
  BY <1>1, <1>3 DEF Own, Any
<1>4. ASSUME NEW x \in alloced' \ Process PROVE \E q \in Process, k \in Place : Owns(q, k, x)'
  <2>1. x \in Any /\ y \in Any
    BY <1>4 DEF Any
  <2>2. CASE x = y
    BY <1>1, <2>1, <2>2
  <2>3. CASE x # y
    <3>1. PICK q \in Process, k \in Place : Owns(q, k, x)
      BY <1>4, <2>3 DEF Own
    <3> QED BY <1>1, <2>1, <3>1, <2>3 DEF Lacks
  <2> QED BY <2>2, <2>3
<1> QED BY <1>2, <1>3, <1>4, <1>5 DEF Own, Any

\* A process gives up a page.
LEMMA OwnLost ==
  ASSUME Own, alloced \subseteq Frames, NEW y \in Frames, alloced' = alloced \ {y},
         NEW p \in Process, NEW from \in Place, Has(p, from, y), Lacks(p, from)',
         \A q \in Process \ {p}, k \in Place : Keeps(q, k),
         \A k \in Place \ {from} : Keeps(p, k)
  PROVE  Own'
<1>1. \A q \in Process, k \in Place, x \in Any :
         Owns(q, k, x)' <=> Owns(q, k, x) /\ ~(q = p /\ k = from)
  BY DEF Keeps, Has, Lacks
<1>2. Owns(p, from, y) /\ \A x \in Any : Owns(p, from, x) => x = y
  BY DEF Has, Any
<1>3. Process \subseteq alloced' /\ \A q \in Process, k \in Place, x \in Any : Owns(q, k, x)' => x \in alloced' \ Process
  BY <1>1, <1>2 DEF Own, Any
<1>4. ASSUME NEW q \in Process, NEW r \in Process, NEW k \in Place, NEW j \in Place, NEW x \in Any,
             Owns(q, k, x)', Owns(r, j, x)'
      PROVE  q = r /\ k = j
  BY <1>1, <1>4 DEF Own, Any
<1>5. ASSUME NEW x \in alloced' \ Process PROVE \E q \in Process, k \in Place : Owns(q, k, x)'
  <2>1. x \in Any
    BY <1>5 DEF Any
  <2>2. PICK q \in Process, k \in Place : Owns(q, k, x)
    BY <1>5 DEF Own
  <2>3. ~(q = p /\ k = from)
    BY <1>2, <1>5, <2>1, <2>2
  <2> QED BY <1>1, <2>1, <2>2, <2>3
<1> QED BY <1>3, <1>4, <1>5 DEF Own, Any

-----------------------------------------------------------------------------
(* What a call of another process leaves alone.                            *)

\* The pages a process reads are as they were.
Untouched(q) ==
    /\ contents'[q] = contents[q]
    /\ Tab(q) # Unmapped => contents'[Tab(q)] = contents[Tab(q)]
    /\ pc[q] = "link" => contents'[page[q]] = contents[page[q]]

\* A process whose table is not touched has the entries it had.
LEMMA UntouchedTable ==
  ASSUME NEW q \in Process, Untouched(q)
  PROVE  Tab(q)' = Tab(q) /\ Entries(q)' = Entries(q)
<1>1. Tab(q)' = Tab(q)
  BY DEF Untouched, Tab
<1>2. Tab(q) # Unmapped => contents'[Tab(q)'] = contents[Tab(q)]
  BY <1>1 DEF Untouched
<1> HIDE DEF Tab
<1> QED BY <1>1, <1>2 DEF Entries

\* So it owns what it owned,
LEMMA UntouchedKeeps ==
  ASSUME NEW q \in Process, Same(q), Untouched(q)
  PROVE  \A k \in Place : Keeps(q, k)
<1>1. Tab(q)' = Tab(q) /\ Entries(q)' = Entries(q)
  BY UntouchedTable
<1>2. ASSUME Entries(q) # {} PROVE contents'[Tab(q)'] = contents[Tab(q)]
  BY <1>1, <1>2 DEF Untouched, Entries
<1> HIDE DEF Tab, Entries
<1> QED BY <1>1, <1>2 DEF Keeps, Owns, Same

\* and knows what it knew.
LEMMA UntouchedKnows ==
  ASSUME NEW q \in Process, Same(q), Untouched(q), Knows(q)
  PROVE  Knows(q)'
<1>1. Tab(q)' = Tab(q) /\ Entries(q)' = Entries(q)
  BY UntouchedTable
<1>2. Stage(q)' = Stage(q)
  BY DEF Same, Stage
<1>3. OpensRight(q)'
  BY <1>1 DEF Same, Knows, OpensRight
<1>4. /\ Entries(q)' = held'[q] \cup (IF Stage(q)' \in Owning THEN {pte'[q]} ELSE {})
      /\ Stage(q)' \in Mapping \cup Owning => pte'[q] \notin held'[q]
      /\ Stage(q)' \in {"map page", "put", "find table"} \cup Owning => Tab(q)' # Unmapped
  BY <1>1, <1>2 DEF Same, Knows
<1>5. /\ pc'[q] \in {"temp", "clear", "link"} => Tab(q)' = Unmapped
      /\ pc'[q] \in {"test", "load", "store"} => (purpose'[q] = "table" <=> Tab(q)' = Unmapped)
      /\ pc'[q] = "link" => contents'[page'[q]] = Empty
  BY <1>1 DEF Same, Knows, Untouched
<1>6. ASSUME pc[q] \in {"free load", "free store", "null"} PROVE page'[q] = contents'[Tab(q)'][pte'[q]]
  BY <1>1, <1>6 DEF Same, Knows, Untouched, Stage, Owning
<1>7. pc'[q] = pc[q]
  BY DEF Same
<1> QED BY <1>3, <1>4, <1>5, <1>6, <1>7 DEF Knows

\* A page that a process owns, or is the directory of, is not read by another.
LEMMA OthersUntouched ==
  ASSUME Types, Own, NEW p \in Process, NEW q \in Process \ {p}, NEW x \in Any,
         x = p \/ \E k \in Place : Owns(p, k, x),
         \A z \in Any \ {x} : contents'[z] = contents[z]
  PROVE  Untouched(q)
<1>1. Tab(q) \in Any /\ q \in Any /\ page[q] \in Any
  BY Constants, TypesAre DEF Any, Tab, ContentsOK, PageOK
<1>2. -1 \in Place /\ -2 \in Place
  BY DEF Place
<1>3. q # x
  BY <1>1 DEF Own, Any
<1>4. ASSUME Tab(q) # Unmapped PROVE Tab(q) # x
  <2>1. Owns(q, -1, Tab(q))
    BY <1>4 DEF Owns
  <2> QED BY <1>1, <1>2, <2>1 DEF Own, Any
<1>5. ASSUME pc[q] = "link" PROVE page[q] # x
  <2>1. Owns(q, -2, page[q])
    BY <1>5 DEF Owns, Hand
  <2> QED BY <1>1, <1>2, <2>1 DEF Own, Any
<1> QED BY <1>1, <1>3, <1>4, <1>5 DEF Untouched

\* The places of a process whose page in the hand is the same, and no entry is freed.
LEMMA QuietOwn ==
  ASSUME Types, Own, NEW p \in Process, \A q \in Process \ {p} : Same(q),
         contents' = contents, alloced' = alloced,
         pc[p] # "null", pc'[p] # "null", pc[p] \in Hand <=> pc'[p] \in Hand,
         pc[p] \in Hand => page'[p] = page[p]
  PROVE  Own'
<1>1. \A q \in Process : Tab(q)' = Tab(q) /\ Entries(q)' = Entries(q)
  BY DEF Tab, Entries
<1>2. \A k \in Place : Keeps(p, k)
  BY <1>1 DEF Keeps, Owns
<1>3. \A q \in Process \ {p} : \A k \in Place : Keeps(q, k)
  BY <1>1, UntouchedKeeps DEF Untouched
<1> QED BY <1>2, <1>3, OwnSame, TypesAre DEF AllocedOK

\* What the other calls know, if nothing is written to directories and tables.
LEMMA QuietKnows ==
  ASSUME NEW q \in Process, Same(q), Knows(q), contents' = contents
  PROVE  Knows(q)'
<1>1. Untouched(q)
  BY DEF Untouched, Tab
<1> QED BY <1>1, UntouchedKnows

\* How another call uses the windows.
LEMMA OthersUse ==
  ASSUME NEW q \in Process, NEW w \in Windows, Same(q), Untouched(q)
  PROVE  /\ Uses(q, w)' <=> Uses(q, w)
         /\ Wanted(q, w)' = Wanted(q, w)
         /\ pc'[q] = pc[q] /\ opening'[q] = opening[q]
<1>1. Uses(q, "dir")' <=> Uses(q, "dir")
  BY UsesIs, UsesThen, ZenonT(60) DEF Same
<1>2. Uses(q, "table")' <=> Uses(q, "table")
  BY UsesIs, UsesThen, ZenonT(60) DEF Same
<1>3. Uses(q, "temp")' <=> Uses(q, "temp")
  BY UsesIs, UsesThen DEF Same
<1>4. Wanted(q, w)' = Wanted(q, w)
  BY UntouchedTable DEF Same, Wanted
<1>5. w = "dir" \/ w = "table" \/ w = "temp"
  BY DEF Windows
<1> QED BY <1>1, <1>2, <1>3, <1>4, <1>5 DEF Same

\* No other call is moving the window.
NoneMoves(p, w) == \A q \in Process \ {p} : ~(pc[q] = "remap" /\ opening[q].window = w)

\* The windows are used as they were, or one that leads there already.
LEMMA LeadsKept ==
  ASSUME Types, Leads, NEW p \in Process, \A q \in Process \ {p} : Same(q) /\ Untouched(q) /\ OpensRight(q),
         active_phys_page' = active_phys_page,
         window'["dir"] = window["dir"], window'["table"] = window["table"],
         pc[p] # "remap", pc'[p] # "remap",
         \A w \in Windows : Uses(p, w)' => window'[w] = Wanted(p, w)',
         \A w \in Windows : Uses(p, w)' => w = "temp" \/ Uses(p, w) \/ NoneMoves(p, w),
         \A q \in Process \ {p} : Uses(q, "temp") => window'["temp"] = window["temp"]
  PROVE  Leads'
<1>1. ASSUME NEW q \in Process \ {p}, NEW w \in Windows
      PROVE  /\ Uses(q, w)' <=> Uses(q, w)
             /\ Wanted(q, w)' = Wanted(q, w)
             /\ pc'[q] = pc[q] /\ opening'[q] = opening[q]
             /\ Uses(q, w) => window'[w] = window[w]
  BY OthersUse DEF Windows
<1>2. LeadsRight'
  <2> SUFFICES ASSUME NEW q \in Process, NEW w \in Windows, Uses(q, w)', pc'[q] # "remap"
               PROVE  window'[w] = Wanted(q, w)'
    BY DEF LeadsRight
  <2>1. CASE q = p
    <3>1. Uses(p, w)'
      BY <2>1
    <3>2. window'[w] = Wanted(p, w)'
      BY <3>1
    <3> QED BY <2>1, <3>2
  <2>2. CASE q # p
    <3>1. Uses(q, w) /\ pc[q] # "remap"
      BY <1>1, <2>2
    <3>2. window[w] = Wanted(q, w)
      BY <3>1 DEF Leads, LeadsRight
    <3> QED BY <1>1, <2>2, <3>1, <3>2
  <2> QED BY <2>1, <2>2
<1>3. LeadsAlone'
  <2> SUFFICES ASSUME NEW q \in Process, NEW w \in Windows, pc'[q] = "remap", opening'[q].window = w
               PROVE  active_phys_page'[w] = opening'[q].page /\ \A r \in Process \ {q} : ~Uses(r, w)'
    BY DEF LeadsAlone
  <2>0. q # p
    OBVIOUS
  <2>1. pc[q] = "remap" /\ opening'[q] = opening[q] /\ opening[q].window = w /\ w # "temp"
    BY <2>0 DEF OpensRight, Same
  <2>2. active_phys_page[w] = opening[q].page /\ \A r \in Process \ {q} : ~Uses(r, w)
    BY <2>1 DEF Leads, LeadsAlone
  <2>3. \A r \in Process \ {q} : ~Uses(r, w)'
    BY <1>1, <2>0, <2>1, <2>2 DEF NoneMoves
  <2> QED BY <2>1, <2>2, <2>3
<1>4. WindowsLeadThere'
  <2> SUFFICES ASSUME NEW w \in Windows \ {"temp"}
               PROVE  \/ active_phys_page'[w] \in {Unmapped, window'[w]}
                      \/ \E q \in Process : pc'[q] = "remap" /\ opening'[q].window = w
    BY DEF WindowsLeadThere
  <2>1. window'[w] = window[w]
    BY DEF Windows
  <2>2. \/ active_phys_page[w] \in {Unmapped, window[w]}
        \/ \E q \in Process : pc[q] = "remap" /\ opening[q].window = w
    BY DEF Leads, WindowsLeadThere
  <2> QED BY <1>1, <2>1, <2>2
<1> QED BY <1>2, <1>3, <1>4 DEF Leads

\* No bit is set or cleared.
LEMMA QuietBits ==
  ASSUME Bits, NEW p \in Process, \A q \in Process \ {p} : Same(q), alloced' = alloced, ~InBitmap(p)'
  PROVE  Bits'
<1>1. \A q \in Process \ {p} : InBitmap(q)' <=> InBitmap(q)
  BY DEF InBitmap, Same
<1>2. pc'[p] \notin {"load", "store", "free store"}
  BY DEF InBitmap
<1> QED BY <1>1, <1>2 DEF Bits, Same

-----------------------------------------------------------------------------
(* The steps that write neither to the pages nor to the bitmap.            *)

\* A step that writes neither to the pages nor to the bitmap, and opens no window, keeps
\* the pages in order if its call knows then what it has to.
LEMMA QuietStep ==
  ASSUME Types, PagesInv, NEW p \in Process, \A q \in Process \ {p} : Same(q),
         contents' = contents, alloced' = alloced, active_phys_page' = active_phys_page, window' = window,
         ~panic', pc[p] \notin {"remap", "null"}, pc'[p] \notin {"remap", "null"},
         pc[p] \in Hand <=> pc'[p] \in Hand, pc[p] \in Hand => page'[p] = page[p],
         \A w \in Windows : Uses(p, w)' => window[w] = Wanted(p, w)' /\ Uses(p, w),
         Knows(p)', Bits'
  PROVE  PagesInv'
<1>1. Own'
  BY QuietOwn DEF PagesInv
<1>2. \A q \in Process \ {p} : Knows(q)'
  BY QuietKnows DEF PagesInv
<1>3. \A q \in Process \ {p} : Untouched(q) /\ OpensRight(q)
  BY DEF PagesInv, Knows, Untouched, Tab
<1>4. Leads'
  BY <1>3, LeadsKept DEF PagesInv
<1> QED BY <1>1, <1>2, <1>4 DEF PagesInv

\* A table that is not written to is as it was.
LEMMA QuietTable ==
  ASSUME NEW p \in Process, contents' = contents
  PROVE  Tab(p)' = Tab(p) /\ Entries(p)' = Entries(p)
  BY DEF Tab, Entries

\* What a call asks for.
LEMMA OpenDoes ==
  ASSUME Types, NEW p \in Process, NEW w, NEW x, NEW step, Open(p, w, x, step)
  PROVE  /\ opening'[p].window = w /\ opening'[p].page = x /\ opening'[p].then = step
         /\ pc'[p] = "look"
<1>1. opening'[p] = [window |-> w, page |-> x, then |-> step] /\ pc'[p] = "look"
  BY TypesAre DEF Open, Set, Goto, OpeningOK, PcOK
<1> QED BY <1>1

\* What a call has to know when it asks for a window.
LEMMA LookKnows ==
  ASSUME NEW p \in Process, pc'[p] = "look",
         opening'[p].then \in {"find", "find table", "map dir", "map page", "unmap dir", "unmap"},
         \/ opening'[p].then \in {"find", "map dir", "unmap dir"} /\ opening'[p].window = "dir" /\ opening'[p].page = p
         \/ /\ opening'[p].then = "unmap" /\ opening'[p].window = "dir"
            /\ opening'[p].page = Tab(p)' /\ opening'[p].page # Unmapped
         \/ /\ opening'[p].then \in {"find table", "map page"} /\ opening'[p].window = "table"
            /\ opening'[p].page = Tab(p)' /\ opening'[p].page # Unmapped,
         Entries(p)' = held'[p] \cup (IF opening'[p].then \in {"unmap dir", "unmap"} THEN {pte'[p]} ELSE {}),
         opening'[p].then \notin {"find", "find table"} => pte'[p] \notin held'[p],
         opening'[p].then = "unmap dir" => Tab(p)' # Unmapped
  PROVE  Knows(p)'
<1>1. Stage(p)' = opening'[p].then
  BY DEF Stage
<1>2. OpensRight(p)'
  BY <1>1 DEF OpensRight
<1>3. Entries(p)' = held'[p] \cup (IF Stage(p)' \in Owning THEN {pte'[p]} ELSE {})
  BY <1>1 DEF Owning
<1>4. Stage(p)' \in Mapping \cup Owning => pte'[p] \notin held'[p]
  BY <1>1 DEF Mapping, Owning
<1>5. Stage(p)' \in {"map page", "put", "find table"} \cup Owning => Tab(p)' # Unmapped
  BY <1>1 DEF Owning
<1> QED BY <1>2, <1>3, <1>4, <1>5 DEF Knows

\* map_virtual_page() goes on to look for a page.
LEMMA MapPageKeeps ==
  ASSUME Types, PagesInv, NEW p \in Process, \A q \in Process \ {p} : Same(q), MapPage(p)
  PROVE  PagesInv'
<1>1. /\ contents' = contents /\ alloced' = alloced /\ active_phys_page' = active_phys_page /\ window' = window
      /\ panic' = panic /\ pc[p] = "map page" /\ pc'[p] = "test" /\ purpose'[p] = "page"
      /\ opening'[p] = opening[p] /\ page'[p] = page[p] /\ pte'[p] = pte[p] /\ held'[p] = held[p]
  BY TypesAre DEF MapPage, At, Goto, Set, shared, PcOK, PurposeOK
<1>2. Tab(p)' = Tab(p) /\ Entries(p)' = Entries(p)
  BY <1>1, QuietTable
<1>3. Knows(p)'
  BY <1>1, <1>2 DEF PagesInv, Knows, OpensRight, Stage, Mapping, Owning
<1>4. \A w \in Windows : Uses(p, w)' => window[w] = Wanted(p, w)' /\ Uses(p, w)
  <2>1. window["table"] = Tab(p) /\ Uses(p, "table")
    BY <1>1, UsesIs DEF PagesInv, Leads, LeadsRight, Windows, Wanted
  <2>2. Wanted(p, "table")' = Tab(p) /\ ~Uses(p, "dir")' /\ ~Uses(p, "temp")'
    BY <1>1, <1>2, UsesThen DEF Wanted
  <2> QED BY <2>1, <2>2 DEF Windows
<1>5. Bits'
  BY <1>1, QuietBits DEF PagesInv, InBitmap
<1>6. ~panic'
  BY <1>1 DEF PagesInv
<1> QED BY <1>1, <1>3, <1>4, <1>5, <1>6, QuietStep DEF Hand

\* malloc() asks for the window of the directory.
LEMMA SysmallocKeeps ==
  ASSUME Types, PagesInv, NEW p \in Process, \A q \in Process \ {p} : Same(q), Sysmalloc(p)
  PROVE  PagesInv'
<1>1. /\ contents' = contents /\ alloced' = alloced /\ active_phys_page' = active_phys_page /\ window' = window
      /\ panic' = panic /\ pc[p] = "idle" /\ pc'[p] = "look"
      /\ opening'[p].window = "dir" /\ opening'[p].page = p /\ opening'[p].then = "find"
      /\ page'[p] = page[p] /\ held'[p] = held[p]
  BY TypesAre DEF Sysmalloc, At, Open, Goto, Set, shared, PcOK, OpeningOK
<1>2. Tab(p)' = Tab(p) /\ Entries(p)' = Entries(p)
  BY <1>1, QuietTable
<1>3. Knows(p)'
  <2>1. Entries(p) = held[p]
    BY <1>1 DEF PagesInv, Knows, Stage, Owning
  <2> QED BY <1>1, <1>2, <2>1, LookKnows
<1>4. \A w \in Windows : ~Uses(p, w)'
  BY <1>1, UsesThen DEF Windows
<1>5. Bits' /\ ~panic'
  BY <1>1, QuietBits DEF PagesInv, InBitmap
<1> QED BY <1>1, <1>3, <1>4, <1>5, QuietStep DEF Hand

\* What a call reads through a window, it reads where it wants to.
LEMMA DirIs ==
  ASSUME PagesInv, NEW p \in Process, pc[p] \in {"find", "map dir", "link", "unmap dir"}
  PROVE  window["dir"] = p /\ Uses(p, "dir") /\ contents[window["dir"]][0] = Tab(p)
<1>1. Uses(p, "dir") /\ window["dir"] = Wanted(p, "dir")
  BY UsesIs DEF PagesInv, Leads, LeadsRight, Windows
<1> QED BY <1>1 DEF Wanted, Tab

\* Where the window of the table leads for the calls that use it.
LEMMA TableIs ==
  ASSUME PagesInv, NEW p \in Process
  PROVE  /\ pc[p] \in {"find table", "map page", "put"} => window["table"] = Tab(p) /\ Uses(p, "table")
         /\ pc[p] \in {"unmap", "free load", "free store", "null"} => window["dir"] = Tab(p) /\ Uses(p, "dir")
<1>1. pc[p] \in {"find table", "map page", "put"} => window["table"] = Wanted(p, "table") /\ Uses(p, "table")
  BY UsesIs DEF PagesInv, Leads, LeadsRight, Windows
<1>2. pc[p] \in {"unmap", "free load", "free store", "null"} => window["dir"] = Wanted(p, "dir") /\ Uses(p, "dir")
  BY UsesIs DEF PagesInv, Leads, LeadsRight, Windows
<1> QED BY <1>1, <1>2 DEF Wanted

\* find_free_virtual_pages() reads the directory,
LEMMA FindKeeps ==
  ASSUME Types, PagesInv, NEW p \in Process, \A q \in Process \ {p} : Same(q), Find(p)
  PROVE  PagesInv'
<1>1. /\ contents' = contents /\ alloced' = alloced /\ active_phys_page' = active_phys_page /\ window' = window
      /\ panic' = panic /\ pc[p] = "find" /\ pc'[p] = "look" /\ page'[p] = page[p] /\ held'[p] = held[p]
  BY TypesAre DEF Find, At, Open, Goto, Set, shared, PcOK
<1>2. Tab(p)' = Tab(p) /\ Entries(p)' = Entries(p)
  BY <1>1, QuietTable
<1>3. \/ /\ Tab(p) # Unmapped
         /\ opening'[p].window = "table" /\ opening'[p].page = Tab(p) /\ opening'[p].then = "find table"
      \/ Tab(p) = Unmapped /\ opening'[p].window = "dir" /\ opening'[p].page = p /\ opening'[p].then = "map dir"
  <2>1. contents[window["dir"]][0] = Tab(p)
    BY <1>1, DirIs
  <2>2. CASE Tab(p) = Unmapped
    <3>1. Open(p, "dir", p, "map dir")
      BY <2>1, <2>2 DEF Find
    <3> QED BY <2>2, <3>1, OpenDoes
  <2>3. CASE Tab(p) # Unmapped
    <3>1. Open(p, "table", Tab(p), "find table")
      BY <2>1, <2>3 DEF Find
    <3> QED BY <2>3, <3>1, OpenDoes
  <2> QED BY <2>2, <2>3
<1>4. Entries(p) = held[p]
  BY <1>1 DEF PagesInv, Knows, Stage, Owning
<1>5. Knows(p)'
  <2>1. Tab(p) = Unmapped => held[p] = {}
    BY <1>4 DEF Entries
  <2> QED BY <1>1, <1>2, <1>3, <1>4, <2>1, LookKnows
<1>6. \A w \in Windows : ~Uses(p, w)'
  BY <1>1, <1>3, UsesThen DEF Windows
<1>7. Bits' /\ ~panic'
  BY <1>1, QuietBits DEF PagesInv, InBitmap
<1> QED BY <1>1, <1>5, <1>6, <1>7, QuietStep DEF Hand

\* and the table.
LEMMA FindTableKeeps ==
  ASSUME Types, PagesInv, NEW p \in Process, \A q \in Process \ {p} : Same(q), FindTable(p)
  PROVE  PagesInv'
<1> DEFINE free == {i \in Ptes : contents[Tab(p)][i] = Unmapped}
<1>1. /\ contents' = contents /\ alloced' = alloced /\ active_phys_page' = active_phys_page /\ window' = window
      /\ panic' = panic /\ pc[p] = "find table" /\ pc'[p] \in {"look", "idle"} /\ held'[p] = held[p]
  BY TypesAre DEF FindTable, At, Open, Return, Goto, Set, shared, PcOK
<1>2. Tab(p)' = Tab(p) /\ Entries(p)' = Entries(p)
  BY <1>1, QuietTable
<1>3. \/ /\ free # {} /\ pte'[p] = Min(free) /\ pc'[p] = "look"
         /\ opening'[p].window = "dir" /\ opening'[p].page = p /\ opening'[p].then = "map dir"
      \/ pc'[p] = "idle" /\ opening'[p] = opening[p]
  <2>1. window["table"] = Tab(p)
    BY <1>1, TableIs
  <2> DEFINE read == {i \in Ptes : contents[window["table"]][i] = Unmapped}
  <2>4. read = free
    BY <2>1
  <2>5. \/ /\ read # {} /\ pte' = Set(pte, p, Min(read)) /\ Open(p, "dir", p, "map dir")
        \/ read = {} /\ Return(p)
    BY DEF FindTable
  <2> HIDE DEF free, read
  <2>6. PteOK /\ PcOK /\ (Open(p, "dir", p, "map dir") => pc'[p] = "look" /\ opening'[p].window = "dir"
                         /\ opening'[p].page = p /\ opening'[p].then = "map dir")
    BY OpenDoes, TypesAre
  <2>2. CASE free # {}
    <3>1. pte' = Set(pte, p, Min(free)) /\ Open(p, "dir", p, "map dir")
      BY <2>4, <2>5, <2>2
    <3> QED BY <2>2, <2>6, <3>1 DEF Set, PteOK
  <2>3. CASE free = {}
    BY <2>4, <2>5, <2>6, <2>3 DEF Return, Goto, Set, PcOK
  <2> QED BY <2>2, <2>3
<1>4. free # {} => Min(free) \in free
  BY LeastIs, Constants
<1>5. free # {} => Min(free) \notin Entries(p)
  BY <1>4 DEF Entries
<1>6. Entries(p) = held[p] /\ Tab(p) # Unmapped /\ OpensRight(p)
  BY <1>1 DEF PagesInv, Knows, Stage, Owning
<1> HIDE DEF free
<1>7. Knows(p)'
  <2>1. CASE pc'[p] = "look"
    BY <1>1, <1>2, <1>3, <1>5, <1>6, <2>1, LookKnows
  <2>2. CASE pc'[p] = "idle"
    BY <1>1, <1>2, <1>3, <1>6, <2>2 DEF Knows, OpensRight, Stage, Mapping, Owning
  <2> QED BY <1>1, <2>1, <2>2
<1>8. \A w \in Windows : ~Uses(p, w)'
  BY <1>1, <1>3, UsesThen DEF Windows
<1>9. Bits' /\ ~panic'
  BY <1>1, QuietBits DEF PagesInv, InBitmap
<1> QED BY <1>1, <1>7, <1>8, <1>9, QuietStep DEF Hand

\* map_virtual_page() reads the directory,
LEMMA MapDirKeeps ==
  ASSUME Types, PagesInv, NEW p \in Process, \A q \in Process \ {p} : Same(q), MapDir(p)
  PROVE  PagesInv'
<1>1. /\ contents' = contents /\ alloced' = alloced /\ active_phys_page' = active_phys_page /\ window' = window
      /\ panic' = panic /\ pc[p] = "map dir" /\ pc'[p] \in {"look", "test"} /\ page'[p] = page[p]
      /\ held'[p] = held[p] /\ pte'[p] = pte[p]
  BY TypesAre DEF MapDir, At, Open, Goto, Set, shared, PcOK
<1>2. Tab(p)' = Tab(p) /\ Entries(p)' = Entries(p)
  BY <1>1, QuietTable
<1>3. \/ /\ Tab(p) = Unmapped /\ pc'[p] = "test" /\ purpose'[p] = "table" /\ opening'[p] = opening[p]
      \/ /\ Tab(p) # Unmapped /\ pc'[p] = "look"
         /\ opening'[p].window = "table" /\ opening'[p].page = Tab(p) /\ opening'[p].then = "map page"
  <2>1. contents[window["dir"]][0] = Tab(p)
    BY <1>1, DirIs
  <2>4. PurposeOK /\ PcOK
    BY TypesAre
  <2>2. CASE Tab(p) = Unmapped
    BY <2>1, <2>2, <2>4 DEF MapDir, Goto, Set, PurposeOK, PcOK
  <2>3. CASE Tab(p) # Unmapped
    <3>1. Open(p, "table", Tab(p), "map page")
      BY <2>1, <2>3 DEF MapDir
    <3> QED BY <2>3, <3>1, OpenDoes
  <2> QED BY <2>2, <2>3
<1>4. Knows(p)'
  <2>1. Entries(p) = held[p] /\ pte[p] \notin held[p] /\ OpensRight(p)
    BY <1>1 DEF PagesInv, Knows, Stage, Mapping, Owning
  <2>2. CASE pc'[p] = "look"
    BY <1>1, <1>2, <1>3, <2>1, <2>2, LookKnows
  <2>3. CASE pc'[p] = "test"
    BY <1>1, <1>2, <1>3, <2>1, <2>3 DEF Knows, OpensRight, Stage, Mapping, Owning
  <2> QED BY <1>1, <2>2, <2>3
<1>5. \A w \in Windows : Uses(p, w)' => window[w] = Wanted(p, w)' /\ Uses(p, w)
  <2>1. ~Uses(p, "table")' /\ ~Uses(p, "temp")'
    BY <1>1, <1>3, UsesThen
  <2>2. Wanted(p, "dir")' = p
    BY <1>1 DEF Wanted
  <2> QED BY <1>1, <2>1, <2>2, DirIs DEF Windows
<1>6. Bits' /\ ~panic'
  BY <1>1, QuietBits DEF PagesInv, InBitmap
<1> QED BY <1>1, <1>4, <1>5, <1>6, QuietStep DEF Hand

\* looks for a page that is free,
LEMMA TestKeeps ==
  ASSUME Types, PagesInv, NEW p \in Process, \A q \in Process \ {p} : Same(q), Test(p),
         "Bitmap" \notin mishaps'
  PROVE  PagesInv'
<1>1. /\ contents' = contents /\ alloced' = alloced /\ active_phys_page' = active_phys_page /\ window' = window
      /\ panic' = panic /\ pc[p] = "test" /\ pc'[p] = "load" /\ purpose'[p] = purpose[p]
      /\ opening'[p] = opening[p] /\ page'[p] = Min(Frames \ alloced) /\ pte'[p] = pte[p] /\ held'[p] = held[p]
      /\ \A q \in Process \ {p} : ~InBitmap(q)
  BY TypesAre DEF Test, At, Goto, Set, shared, PcOK, PageOK, Blame
<1>2. Tab(p)' = Tab(p) /\ Entries(p)' = Entries(p)
  BY <1>1, QuietTable
<1>3. Knows(p)'
  BY <1>1, <1>2 DEF PagesInv, Knows, OpensRight, Stage, Mapping, Owning
<1>4. \A w \in Windows : Uses(p, w)' => window[w] = Wanted(p, w)' /\ Uses(p, w)
  <2>1. ASSUME NEW w \in {"dir", "table"}, Uses(p, w)' PROVE Uses(p, w)
    BY <1>1, <2>1, UsesIs, UsesThen
  <2>2. ~Uses(p, "temp")'
    BY <1>1, UsesThen
  <2>3. \A w \in {"dir", "table"} : Wanted(p, w)' = Wanted(p, w)
    BY <1>1, <1>2 DEF Wanted
  <2> QED BY <1>1, <2>1, <2>2, <2>3 DEF PagesInv, Leads, LeadsRight, Windows
<1>5. Bits'
  <2>1. Min(Frames \ alloced) \in Frames \ alloced
    BY LeastIs, Constants DEF Test
  <2>2. \A q \in Process \ {p} : ~InBitmap(q)'
    BY <1>1 DEF InBitmap, Same
  <2>3. \A q \in Process \ {p} : pc'[q] \notin {"load", "store", "free store"}
    BY <2>2 DEF InBitmap
  <2> QED BY <1>1, <2>1, <2>2, <2>3 DEF Bits
<1>6. ~panic'
  BY <1>1 DEF PagesInv
<1> QED BY <1>1, <1>3, <1>4, <1>5, <1>6, QuietStep DEF Hand

\* and reads the word of its bit.
LEMMA LoadKeeps ==
  ASSUME Types, PagesInv, NEW p \in Process, \A q \in Process \ {p} : Same(q), Load(p)
  PROVE  PagesInv'
<1>0. pc[p] = "load" /\ page[p] \notin alloced
  BY DEF Load, At, PagesInv, Bits
<1>1. /\ contents' = contents /\ alloced' = alloced /\ active_phys_page' = active_phys_page /\ window' = window
      /\ panic' = panic /\ pc'[p] = "store" /\ purpose'[p] = purpose[p] /\ word'[p] = alloced
      /\ opening'[p] = opening[p] /\ page'[p] = page[p] /\ pte'[p] = pte[p] /\ held'[p] = held[p]
  BY <1>0, TypesAre DEF Load, Goto, Set, shared, PcOK, WordOK
<1>2. Tab(p)' = Tab(p) /\ Entries(p)' = Entries(p)
  BY <1>1, QuietTable
<1>3. Knows(p)'
  BY <1>0, <1>1, <1>2 DEF PagesInv, Knows, OpensRight, Stage, Mapping, Owning
<1>4. \A w \in Windows : Uses(p, w)' => window[w] = Wanted(p, w)' /\ Uses(p, w)
  <2>1. ASSUME NEW w \in {"dir", "table"}, Uses(p, w)' PROVE Uses(p, w)
    BY <1>0, <1>1, <2>1, UsesIs, UsesThen
  <2>2. ~Uses(p, "temp")'
    BY <1>1, UsesThen
  <2>3. \A w \in {"dir", "table"} : Wanted(p, w)' = Wanted(p, w)
    BY <1>0, <1>1, <1>2 DEF Wanted
  <2> QED BY <1>0, <1>1, <2>1, <2>2, <2>3 DEF PagesInv, Leads, LeadsRight, Windows
<1>5. Bits'
  <2>1. InBitmap(p) /\ page[p] \in Frames \ alloced
    BY <1>0 DEF InBitmap, PagesInv, Bits
  <2>2. \A q \in Process \ {p} : ~InBitmap(q)'
    BY <2>1 DEF InBitmap, Same, PagesInv, Bits
  <2>3. \A q \in Process \ {p} : pc'[q] \notin {"load", "store", "free store"}
    BY <2>2 DEF InBitmap
  <2> QED BY <1>1, <2>1, <2>2, <2>3 DEF Bits
<1>6. ~panic'
  BY <1>1 DEF PagesInv
<1> QED BY <1>0, <1>1, <1>3, <1>4, <1>5, <1>6, QuietStep DEF Hand

\* malloc() writes the area it has mapped into the table of areas.
LEMMA FillKeeps ==
  ASSUME Types, PagesInv, NEW p \in Process, \A q \in Process \ {p} : Same(q), Fill(p)
  PROVE  PagesInv'
<1>1. /\ contents' = contents /\ alloced' = alloced /\ active_phys_page' = active_phys_page /\ window' = window
      /\ panic' = panic /\ pc[p] = "fill" /\ pc'[p] = "idle" /\ opening'[p] = opening[p]
      /\ held'[p] = held[p] \cup {pte[p]}
  BY TypesAre DEF Fill, At, Return, Goto, Set, PcOK, HeldOK
<1>2. Tab(p)' = Tab(p) /\ Entries(p)' = Entries(p)
  BY <1>1, QuietTable
<1>3. Knows(p)'
  BY <1>1, <1>2, ZenonT(60) DEF PagesInv, Knows, OpensRight, Stage, Mapping, Owning
<1>4. \A w \in Windows : ~Uses(p, w)'
  BY <1>1, UsesThen DEF Windows
<1>5. Bits' /\ ~panic'
  BY <1>1, QuietBits DEF PagesInv, InBitmap
<1> QED BY <1>1, <1>3, <1>4, <1>5, QuietStep DEF Hand

\* free() takes an area out of the table of areas.
LEMMA SysfreeKeeps ==
  ASSUME Types, PagesInv, NEW p \in Process, \A q \in Process \ {p} : Same(q), Sysfree(p)
  PROVE  PagesInv'
<1>1. PICK i \in Slots : /\ memory_allocations[i].pte \in held[p]
                         /\ held' = Set(held, p, held[p] \ {memory_allocations[i].pte})
                         /\ pte' = Set(pte, p, memory_allocations[i].pte)
  BY DEF Sysfree
<1> DEFINE e == memory_allocations[i].pte
<1>2. e \in held[p] /\ held'[p] = held[p] \ {e} /\ pte'[p] = e
  BY <1>1, TypesAre DEF Set, HeldOK, PteOK
<1>3. /\ contents' = contents /\ alloced' = alloced /\ active_phys_page' = active_phys_page /\ window' = window
      /\ panic' = panic /\ pc[p] = "idle" /\ pc'[p] = "look"
      /\ opening'[p].window = "dir" /\ opening'[p].page = p /\ opening'[p].then = "unmap dir"
  <2>1. Open(p, "dir", p, "unmap dir")
    BY DEF Sysfree
  <2>2. /\ contents' = contents /\ alloced' = alloced /\ active_phys_page' = active_phys_page /\ window' = window
        /\ panic' = panic /\ pc[p] = "idle"
    BY DEF Sysfree, At
  <2> QED BY <2>1, <2>2, OpenDoes, ZenonT(60)
<1>4. Tab(p)' = Tab(p) /\ Entries(p)' = Entries(p)
  BY <1>3, QuietTable
<1>5. Entries(p) = held[p]
  BY <1>3 DEF PagesInv, Knows, Stage, Owning
<1> HIDE DEF e
<1>6. Tab(p) # Unmapped /\ Entries(p) = held'[p] \cup {e} /\ e \notin held'[p]
  BY <1>2, <1>5 DEF Entries
<1>7. Knows(p)'
  BY <1>2, <1>3, <1>4, <1>6, LookKnows
<1>8. \A w \in Windows : ~Uses(p, w)'
  BY <1>3, UsesThen DEF Windows
<1>9. Bits' /\ ~panic'
  BY <1>3, QuietBits DEF PagesInv, InBitmap
<1> QED BY <1>3, <1>7, <1>8, <1>9, QuietStep DEF Hand

\* unmap_virtual_page() reads the directory,
LEMMA UnmapDirKeeps ==
  ASSUME Types, PagesInv, NEW p \in Process, \A q \in Process \ {p} : Same(q), UnmapDir(p)
  PROVE  PagesInv'
<1>1. /\ contents' = contents /\ alloced' = alloced /\ active_phys_page' = active_phys_page /\ window' = window
      /\ pc[p] = "unmap dir" /\ pte'[p] = pte[p] /\ held'[p] = held[p]
  BY DEF UnmapDir, At, shared
<1>2. Tab(p)' = Tab(p) /\ Entries(p)' = Entries(p)
  BY <1>1, QuietTable
<1>3. /\ Tab(p) # Unmapped /\ pte[p] \notin held[p] /\ Entries(p) = held[p] \cup {pte[p]}
      /\ contents[window["dir"]][0] = Tab(p)
  BY <1>1, DirIs DEF PagesInv, Knows, Stage, Owning, Mapping
<1>4. /\ ~panic' /\ pc'[p] = "look"
      /\ opening'[p].window = "dir" /\ opening'[p].page = Tab(p) /\ opening'[p].then = "unmap"
  <2>1. Open(p, "dir", Tab(p), "unmap") /\ ~panic'
    BY <1>3 DEF UnmapDir
  <2> QED BY <2>1, OpenDoes
<1>5. Knows(p)'
  BY <1>1, <1>2, <1>3, <1>4, LookKnows
<1>6. \A w \in Windows : ~Uses(p, w)'
  BY <1>4, UsesThen DEF Windows
<1>7. Bits'
  BY <1>1, <1>4, QuietBits DEF PagesInv, InBitmap
<1> QED BY <1>1, <1>4, <1>5, <1>6, <1>7, QuietStep DEF Hand

\* and the entry of the table.
LEMMA UnmapKeeps ==
  ASSUME Types, PagesInv, NEW p \in Process, \A q \in Process \ {p} : Same(q), Unmap(p)
  PROVE  PagesInv'
<1>1. /\ contents' = contents /\ alloced' = alloced /\ active_phys_page' = active_phys_page /\ window' = window
      /\ pc[p] = "unmap" /\ pc'[p] = "free load" /\ opening'[p] = opening[p]
      /\ pte'[p] = pte[p] /\ held'[p] = held[p] /\ page'[p] = contents[window["dir"]][pte[p]]
  BY TypesAre DEF Unmap, At, Goto, Set, shared, PcOK, PageOK
<1>2. Tab(p)' = Tab(p) /\ Entries(p)' = Entries(p)
  BY <1>1, QuietTable
<1>3. /\ Tab(p) # Unmapped /\ pte[p] \notin held[p] /\ Entries(p) = held[p] \cup {pte[p]}
      /\ OpensRight(p) /\ window["dir"] = Tab(p) /\ Uses(p, "dir")
  BY <1>1, TableIs DEF PagesInv, Knows, Stage, Owning, Mapping
<1>4. ~panic'
  <2>1. contents[Tab(p)][pte[p]] # Unmapped
    BY <1>3 DEF Entries
  <2> QED BY <1>1, <1>3, <2>1 DEF Unmap
<1>5. Knows(p)'
  <2>1. page'[p] = contents'[Tab(p)'][pte'[p]]
    BY <1>1, <1>2, <1>3
  <2> QED BY <1>1, <1>2, <1>3, <2>1 DEF Knows, OpensRight, Stage, Mapping, Owning
<1>6. \A w \in Windows : Uses(p, w)' => window[w] = Wanted(p, w)' /\ Uses(p, w)
  <2>1. ~Uses(p, "table")' /\ ~Uses(p, "temp")'
    BY <1>1, UsesThen
  <2>2. Wanted(p, "dir")' = Tab(p)
    BY <1>1, <1>2 DEF Wanted
  <2> QED BY <1>3, <2>1, <2>2 DEF Windows
<1>7. Bits'
  BY <1>1, QuietBits DEF PagesInv, InBitmap
<1> QED BY <1>1, <1>4, <1>5, <1>6, <1>7, QuietStep DEF Hand

\* The page that is to be freed is allocated, and the call's own.
LEMMA FreedIsOwned ==
  ASSUME Types, PagesInv, NEW p \in Process, pc[p] \in {"free load", "free store"}
  PROVE  /\ pte[p] \in Entries(p) /\ pte[p] \in Place /\ page[p] \in Frames /\ page[p] \in alloced
         /\ Owns(p, pte[p], page[p]) /\ page[p] = contents[Tab(p)][pte[p]]
<1>1. pte[p] \in Ptes /\ page[p] \in Any
  BY TypesAre DEF PteOK, PageOK, Any
<1>2. pte[p] \in Entries(p) /\ page[p] = contents[Tab(p)][pte[p]]
  BY DEF PagesInv, Knows, Stage, Owning
<1>3. Owns(p, pte[p], page[p])
  BY <1>2 DEF Owns
<1>4. pte[p] \in Place
  BY <1>1 DEF Place
<1>5. page[p] \in alloced
  <2>1. Own
    BY DEF PagesInv
  <2>2. \A k \in Place, x \in Any : Owns(p, k, x) => x \in alloced
    BY <2>1 DEF Own, Any
  <2> QED BY <1>1, <1>3, <1>4, <2>2
<1> QED BY <1>2, <1>3, <1>4, <1>5, TypesAre DEF AllocedOK

\* free_phys_page() reads the word of the bit.
LEMMA FreeLoadKeeps ==
  ASSUME Types, PagesInv, NEW p \in Process, \A q \in Process \ {p} : Same(q), FreeLoad(p),
         "Bitmap" \notin mishaps'
  PROVE  PagesInv'
<1>0. pc[p] = "free load" /\ page[p] \in alloced
  BY FreedIsOwned DEF FreeLoad, At
<1>1. /\ contents' = contents /\ alloced' = alloced /\ active_phys_page' = active_phys_page /\ window' = window
      /\ panic' = panic /\ pc'[p] = "free store" /\ word'[p] = alloced
      /\ opening'[p] = opening[p] /\ page'[p] = page[p] /\ pte'[p] = pte[p] /\ held'[p] = held[p]
      /\ \A q \in Process \ {p} : ~InBitmap(q)
  BY <1>0, TypesAre DEF FreeLoad, Goto, Set, shared, PcOK, WordOK, Blame
<1>2. Tab(p)' = Tab(p) /\ Entries(p)' = Entries(p)
  BY <1>1, QuietTable
<1>3. Knows(p)'
  <2>1. page'[p] = contents'[Tab(p)'][pte'[p]]
    BY <1>0, <1>1, <1>2, FreedIsOwned
  <2>2. /\ Tab(p) # Unmapped /\ pte[p] \notin held[p] /\ Entries(p) = held[p] \cup {pte[p]} /\ OpensRight(p)
    BY <1>0 DEF PagesInv, Knows, Stage, Owning, Mapping
  <2> QED BY <1>0, <1>1, <1>2, <2>1, <2>2 DEF Knows, OpensRight, Stage, Mapping, Owning
<1>4. \A w \in Windows : Uses(p, w)' => window[w] = Wanted(p, w)' /\ Uses(p, w)
  <2>1. ~Uses(p, "table")' /\ ~Uses(p, "temp")'
    BY <1>1, UsesThen
  <2>2. Wanted(p, "dir")' = Tab(p)
    BY <1>1, <1>2 DEF Wanted
  <2> QED BY <1>0, <2>1, <2>2, TableIs DEF Windows
<1>5. Bits'
  <2>1. \A q \in Process \ {p} : ~InBitmap(q)'
    BY <1>1 DEF InBitmap, Same
  <2>2. \A q \in Process \ {p} : pc'[q] \notin {"load", "store", "free store"}
    BY <2>1 DEF InBitmap
  <2> QED BY <1>0, <1>1, <2>1, <2>2 DEF Bits
<1>6. ~panic'
  BY <1>1 DEF PagesInv
<1> QED BY <1>0, <1>1, <1>3, <1>4, <1>5, <1>6, QuietStep DEF Hand

-----------------------------------------------------------------------------
(* The steps that move a window.                                           *)

\* The directories and the tables of two processes are four pages.
LEMMA TablesApart ==
  ASSUME Types, Own, NEW p \in Process, NEW q \in Process \ {p}, Tab(q) # Unmapped
  PROVE  Tab(q) \notin Process /\ Tab(q) # Tab(p)
<1>1. -1 \in Place /\ Tab(q) \in Any
  BY Constants, TypesAre DEF Any, Tab, ContentsOK, Place
<1>2. Owns(q, -1, Tab(q)) /\ (Tab(p) = Tab(q) => Owns(p, -1, Tab(q)))
  BY DEF Owns
<1> QED BY <1>1, <1>2 DEF Own, Any

\* A window that is remembered to lead to the page that a call wants is not being moved.
LEMMA RememberedLeads ==
  ASSUME Types, PagesInv, NEW p \in Process, pc[p] = "look",
         active_phys_page[opening[p].window] = opening[p].page
  PROVE  window[opening[p].window] = opening[p].page /\ NoneMoves(p, opening[p].window)
<1>1. /\ opening[p].window \in Windows \ {"temp"} /\ opening[p].page # Unmapped
      /\ opening[p].page \in {p, Tab(p)}
  BY Constants, ZenonT(60) DEF PagesInv, Knows, OpensRight, Windows
<1>2. NoneMoves(p, opening[p].window)
  <2> SUFFICES ASSUME NEW q \in Process \ {p}, pc[q] = "remap", opening[q].window = opening[p].window
               PROVE  FALSE
    BY DEF NoneMoves
  <2>1. opening[q].page = opening[p].page
    BY <1>1 DEF PagesInv, Leads, LeadsAlone
  <2>2. opening[q].page \in {q, Tab(q)} /\ Own
    BY DEF PagesInv, Knows, OpensRight
  <2>3. Tab(q) # Unmapped => Tab(q) \notin Process /\ Tab(q) # Tab(p)
    BY <2>2, TablesApart
  <2>4. Tab(p) # Unmapped => Tab(p) \notin Process /\ Tab(q) # Tab(p)
    BY <2>2, TablesApart
  <2> QED BY <1>1, <2>1, <2>2, <2>3, <2>4
<1>3. window[opening[p].window] = opening[p].page
  BY <1>1, <1>2 DEF PagesInv, Leads, WindowsLeadThere, NoneMoves
<1> QED BY <1>2, <1>3

\* A call that has its window is at the step it asked for it for.
LEMMA ThenKnows ==
  ASSUME Types, PagesInv, NEW p \in Process, pc[p] \in {"look", "remap"}, contents' = contents,
         pc'[p] = opening[p].then, opening'[p] = NotOpening, pte'[p] = pte[p], held'[p] = held[p]
  PROVE  /\ pc'[p] \in {"find", "map dir", "unmap dir", "unmap", "find table", "map page"}
         /\ Knows(p)'
         /\ \A w \in Windows : Uses(p, w)' => w = opening[p].window /\ Wanted(p, w)' = opening[p].page
<1>1. Tab(p)' = Tab(p) /\ Entries(p)' = Entries(p)
  BY QuietTable
<1>2. OpensRight(p)
  BY DEF PagesInv, Knows
<1>3. pc'[p] \in {"find", "map dir", "unmap dir", "unmap", "find table", "map page"}
  BY <1>2 DEF OpensRight
<1>4. Stage(p)' = Stage(p) /\ Stage(p) = pc'[p]
  BY <1>3 DEF Stage
<1>5. OpensRight(p)'
  BY <1>3 DEF OpensRight
<1>6. Knows(p)'
  BY <1>1, <1>3, <1>4, <1>5 DEF PagesInv, Knows
<1>7. \A w \in Windows : Uses(p, w)' => w = opening[p].window /\ Wanted(p, w)' = opening[p].page
  BY <1>1, <1>2, <1>3, UsesThen DEF OpensRight, Windows, Wanted
<1> QED BY <1>3, <1>6, <1>7

\* A call that finds its window open, or begins to move it when nobody uses it.
LEMMA LookKeeps ==
  ASSUME Types, PagesInv, NEW p \in Process, \A q \in Process \ {p} : Same(q), Look(p),
         "Window" \notin mishaps'
  PROVE  PagesInv'
<1> DEFINE W == opening[p].window
<1>1. /\ contents' = contents /\ alloced' = alloced /\ window' = window /\ panic' = panic
      /\ pc[p] = "look" /\ pte'[p] = pte[p] /\ held'[p] = held[p] /\ page'[p] = page[p]
  BY DEF Look, At
<1>2. W \in Windows \ {"temp"} /\ OpensRight(p)
  BY <1>1 DEF PagesInv, Knows, OpensRight, Windows
<1>3. \A q \in Process \ {p} : Knows(q)' /\ Untouched(q) /\ OpensRight(q)
  BY <1>1, QuietKnows, ZenonT(60) DEF PagesInv, Untouched, Tab, Knows
<1>4. CASE active_phys_page[W] = opening[p].page
  <2>1. /\ active_phys_page' = active_phys_page /\ pc'[p] = opening[p].then /\ opening'[p] = NotOpening
    BY <1>4, TypesAre DEF Look, Remembered, Opened, Goto, Set, PcOK, OpeningOK
  <2>2. window[W] = opening[p].page /\ NoneMoves(p, W)
    BY <1>1, <1>4, RememberedLeads
  <2>3. /\ pc'[p] \in {"find", "map dir", "unmap dir", "unmap", "find table", "map page"}
        /\ Knows(p)'
        /\ \A w \in Windows : Uses(p, w)' => w = W /\ Wanted(p, w)' = opening[p].page
    BY <1>1, <2>1, ThenKnows
  <2>4. Own'
    BY <1>1, <2>3, QuietOwn DEF PagesInv, Hand
  <2>5. Leads'
    BY <1>1, <1>3, <2>1, <2>2, <2>3, LeadsKept DEF PagesInv
  <2>6. Bits'
    BY <1>1, <2>3, QuietBits DEF PagesInv, InBitmap
  <2> QED BY <1>1, <1>3, <2>3, <2>4, <2>5, <2>6 DEF PagesInv
<1>5. CASE active_phys_page[W] # opening[p].page
  <2>1. /\ pc'[p] = "remap" /\ opening'[p] = opening[p]
        /\ active_phys_page'[W] = opening[p].page
        /\ \A w \in Windows \ {W} : active_phys_page'[w] = active_phys_page[w]
        /\ \A q \in Process \ {p} : ~Uses(q, W)
    BY <1>2, <1>5, TypesAre DEF Look, Remembered, Goto, Set, PcOK, ActiveOK, Blame
  <2>2. Tab(p)' = Tab(p) /\ Entries(p)' = Entries(p)
    BY <1>1, QuietTable
  <2>3. Knows(p)'
    <3>1. Stage(p)' = Stage(p) /\ OpensRight(p)'
      BY <1>1, <1>2, <2>1, <2>2 DEF Stage, OpensRight
    <3> QED BY <1>1, <2>1, <2>2, <3>1 DEF PagesInv, Knows
  <2>4. Own'
    BY <1>1, <2>1, QuietOwn DEF PagesInv, Hand
  <2>5. Bits'
    BY <1>1, <2>1, QuietBits DEF PagesInv, InBitmap
  <2>6. \A q \in Process \ {p}, w \in Windows :
           /\ Uses(q, w)' <=> Uses(q, w)
           /\ Wanted(q, w)' = Wanted(q, w)
           /\ pc'[q] = pc[q] /\ opening'[q] = opening[q]
    BY <1>3, OthersUse
  <2>7. \A w \in Windows : Uses(p, w)' => w = W
    BY <2>1, UsesThen DEF Windows
  <2>8. LeadsRight'
    <3> SUFFICES ASSUME NEW q \in Process, NEW w \in Windows, Uses(q, w)', pc'[q] # "remap"
                 PROVE  window'[w] = Wanted(q, w)'
      BY DEF LeadsRight
    <3> QED BY <1>1, <2>1, <2>6 DEF PagesInv, Leads, LeadsRight
  <2>9. LeadsAlone'
    <3> SUFFICES ASSUME NEW q \in Process, NEW w \in Windows, pc'[q] = "remap", opening'[q].window = w
                 PROVE  active_phys_page'[w] = opening'[q].page /\ \A r \in Process \ {q} : ~Uses(r, w)'
      BY DEF LeadsAlone
    <3>1. CASE q = p
      BY <2>1, <2>6, <3>1
    <3>2. CASE q # p
      <4>1. pc[q] = "remap" /\ opening[q].window = w /\ opening'[q] = opening[q]
        BY <2>6, <3>2
      <4>2. active_phys_page[w] = opening[q].page /\ \A r \in Process \ {q} : ~Uses(r, w)
        BY <4>1 DEF PagesInv, Leads, LeadsAlone
      <4>3. Uses(q, w)
        BY <4>1 DEF Uses
      <4>4. w # W
        BY <2>1, <3>2, <4>3
      <4> QED BY <2>1, <2>6, <2>7, <4>1, <4>2, <4>4
    <3> QED BY <3>1, <3>2
  <2>10. WindowsLeadThere'
    <3> SUFFICES ASSUME NEW w \in Windows \ {"temp"}
                 PROVE  \/ active_phys_page'[w] \in {Unmapped, window'[w]}
                        \/ \E q \in Process : pc'[q] = "remap" /\ opening'[q].window = w
      BY DEF WindowsLeadThere
    <3>1. CASE w = W
      BY <2>1, <3>1
    <3>2. CASE w # W
      <4>1. \/ active_phys_page[w] \in {Unmapped, window[w]}
            \/ \E q \in Process : pc[q] = "remap" /\ opening[q].window = w
        BY DEF PagesInv, Leads, WindowsLeadThere
      <4> QED BY <1>1, <2>1, <2>6, <3>2, <4>1
    <3> QED BY <3>1, <3>2
  <2> QED BY <1>1, <1>3, <2>3, <2>4, <2>5, <2>8, <2>9, <2>10 DEF PagesInv, Leads
<1> QED BY <1>4, <1>5

\* A call that moves its window.
LEMMA RemapKeeps ==
  ASSUME Types, PagesInv, NEW p \in Process, \A q \in Process \ {p} : Same(q), Remap(p)
  PROVE  PagesInv'
<1> DEFINE W == opening[p].window
<1>1. /\ contents' = contents /\ alloced' = alloced /\ active_phys_page' = active_phys_page /\ panic' = panic
      /\ pc[p] = "remap" /\ pte'[p] = pte[p] /\ held'[p] = held[p] /\ page'[p] = page[p]
      /\ pc'[p] = opening[p].then /\ opening'[p] = NotOpening
  BY TypesAre DEF Remap, At, Opened, Goto, Set, PcOK, OpeningOK
<1>2. W \in Windows \ {"temp"} /\ OpensRight(p)
  BY <1>1 DEF PagesInv, Knows, OpensRight, Windows
<1>3. window'[W] = opening[p].page /\ \A w \in Windows \ {W} : window'[w] = window[w]
  BY <1>2, TypesAre DEF Remap, WindowOpened, Set, WindowOK
<1>4. \A q \in Process \ {p} : Knows(q)' /\ Untouched(q) /\ OpensRight(q)
  BY <1>1, QuietKnows, ZenonT(60) DEF PagesInv, Untouched, Tab, Knows
<1>5. /\ pc'[p] \in {"find", "map dir", "unmap dir", "unmap", "find table", "map page"}
      /\ Knows(p)'
      /\ \A w \in Windows : Uses(p, w)' => w = W /\ Wanted(p, w)' = opening[p].page
  BY <1>1, ThenKnows
<1>6. Own'
  BY <1>1, <1>5, QuietOwn DEF PagesInv, Hand
<1>7. Bits'
  BY <1>1, <1>5, QuietBits DEF PagesInv, InBitmap
<1>8. \A q \in Process \ {p}, w \in Windows :
         /\ Uses(q, w)' <=> Uses(q, w)
         /\ Wanted(q, w)' = Wanted(q, w)
         /\ pc'[q] = pc[q] /\ opening'[q] = opening[q]
  BY <1>4, OthersUse
<1>9. active_phys_page[W] = opening[p].page /\ \A q \in Process \ {p} : ~Uses(q, W)
  BY <1>1, <1>2 DEF PagesInv, Leads, LeadsAlone
<1>10. LeadsRight'
  <2> SUFFICES ASSUME NEW q \in Process, NEW w \in Windows, Uses(q, w)', pc'[q] # "remap"
               PROVE  window'[w] = Wanted(q, w)'
    BY DEF LeadsRight
  <2>1. CASE q = p
    BY <1>3, <1>5, <2>1
  <2>2. CASE q # p
    <3>1. w # W /\ Uses(q, w) /\ pc[q] # "remap"
      BY <1>8, <1>9, <2>2
    <3>2. window[w] = Wanted(q, w)
      BY <3>1 DEF PagesInv, Leads, LeadsRight
    <3> QED BY <1>3, <1>8, <2>2, <3>1, <3>2
  <2> QED BY <2>1, <2>2
<1>11. LeadsAlone'
  <2> SUFFICES ASSUME NEW q \in Process, NEW w \in Windows, pc'[q] = "remap", opening'[q].window = w
               PROVE  active_phys_page'[w] = opening'[q].page /\ \A r \in Process \ {q} : ~Uses(r, w)'
    BY DEF LeadsAlone
  <2>1. q # p
    BY <1>5
  <2>2. pc[q] = "remap" /\ opening[q].window = w /\ opening'[q] = opening[q]
    BY <1>8, <2>1
  <2>3. active_phys_page[w] = opening[q].page /\ \A r \in Process \ {q} : ~Uses(r, w)
    BY <2>2 DEF PagesInv, Leads, LeadsAlone
  <2>4. Uses(q, w)
    BY <2>2 DEF Uses
  <2>5. w # W
    BY <1>9, <2>1, <2>4
  <2> QED BY <1>1, <1>5, <1>8, <2>1, <2>2, <2>3, <2>5
<1>12. WindowsLeadThere'
  <2> SUFFICES ASSUME NEW w \in Windows \ {"temp"}
               PROVE  \/ active_phys_page'[w] \in {Unmapped, window'[w]}
                      \/ \E q \in Process : pc'[q] = "remap" /\ opening'[q].window = w
    BY DEF WindowsLeadThere
  <2>1. CASE w = W
    BY <1>1, <1>3, <1>9, <2>1
  <2>2. CASE w # W
    <3>1. \/ active_phys_page[w] \in {Unmapped, window[w]}
          \/ \E q \in Process : pc[q] = "remap" /\ opening[q].window = w
      BY DEF PagesInv, Leads, WindowsLeadThere
    <3> QED BY <1>1, <1>3, <1>8, <2>2, <3>1
  <2> QED BY <2>1, <2>2
<1> QED BY <1>1, <1>4, <1>5, <1>6, <1>7, <1>10, <1>11, <1>12 DEF PagesInv, Leads

-----------------------------------------------------------------------------
(* The steps that write to the bitmap.                                     *)

\* The only call at the bitmap leaves it.
LEMMA BitsLeft ==
  ASSUME Bits, NEW p \in Process, InBitmap(p), \A q \in Process \ {p} : Same(q), ~InBitmap(p)'
  PROVE  Bits'
<1>1. \A q \in Process \ {p} : ~InBitmap(q)
  BY DEF Bits
<1>2. \A q \in Process : ~InBitmap(q)'
  BY <1>1 DEF InBitmap, Same
<1>3. \A q \in Process : pc'[q] \notin {"load", "store", "free store"}
  BY <1>2 DEF InBitmap
<1> QED BY <1>2, <1>3 DEF Bits

\* A call that sets the bit of a page has it in its hand.
LEMMA StoreKeeps ==
  ASSUME Types, PagesInv, NEW p \in Process, \A q \in Process \ {p} : Same(q), Store(p)
  PROVE  PagesInv'
<1>1. /\ contents' = contents /\ active_phys_page' = active_phys_page /\ window' = window /\ panic' = panic
      /\ pc[p] = "store" /\ pc'[p] = Got(p) /\ opening'[p] = opening[p] /\ page'[p] = page[p]
      /\ pte'[p] = pte[p] /\ held'[p] = held[p] /\ alloced' = word[p] \cup {page[p]}
  BY TypesAre DEF Store, WordWithBit, At, Goto, Set, PcOK
<1>2. page[p] \in Frames \ alloced /\ alloced' = alloced \cup {page[p]} /\ InBitmap(p)
  BY <1>1 DEF PagesInv, Bits, InBitmap
<1>3. Tab(p)' = Tab(p) /\ Entries(p)' = Entries(p)
  BY <1>1, QuietTable
<1>4. \A q \in Process \ {p} : Knows(q)' /\ Untouched(q) /\ OpensRight(q) /\ \A k \in Place : Keeps(q, k)
  BY <1>1, QuietKnows, UntouchedKeeps, ZenonT(60) DEF PagesInv, Untouched, Tab, Knows
<1>5. \/ Tab(p) = Unmapped /\ purpose[p] = "table" /\ pc'[p] = "temp"
      \/ Tab(p) # Unmapped /\ purpose[p] # "table" /\ pc'[p] = "put"
  BY <1>1 DEF Got, PagesInv, Knows
<1>6. Own'
  <2>1. -2 \in Place /\ alloced \subseteq Frames /\ Own
    BY TypesAre DEF Place, AllocedOK, PagesInv
  <2>2. Lacks(p, -2)
    BY <1>1 DEF Lacks, Owns, Hand, Entries, Ptes
  <2>3. PICK y \in Frames \ alloced : y = page[p] /\ alloced' = alloced \cup {y}
    BY <1>2
  <2>4. Has(p, -2, y)'
    BY <1>1, <1>5, <2>3 DEF Has, Owns, Hand, Entries, Ptes
  <2>5. \A k \in Place \ {-2} : Keeps(p, k)
    BY <1>1, <1>3, <1>5 DEF Keeps, Owns
  <2> QED BY <1>4, <2>1, <2>2, <2>3, <2>4, <2>5, OwnAdded
<1>7. Knows(p)'
  <2>1. Entries(p) = held[p] /\ pte[p] \notin held[p] /\ OpensRight(p)
    BY <1>1 DEF PagesInv, Knows, Stage, Mapping, Owning
  <2> QED BY <1>1, <1>3, <1>5, <2>1 DEF Knows, OpensRight, Stage, Mapping, Owning
<1>8. Leads'
  <2>1. \A w \in Windows : Uses(p, w)' => Uses(p, w)
    BY <1>1, <1>5, UsesIs, UsesThen DEF Windows
  <2>2. \A w \in Windows : Uses(p, w)' => Wanted(p, w)' = Wanted(p, w)
    BY <1>1, <1>3, <1>5, UsesThen DEF Wanted, Windows
  <2>3. \A w \in Windows : Uses(p, w) => window[w] = Wanted(p, w)
    BY <1>1 DEF PagesInv, Leads, LeadsRight
  <2>4. \A w \in Windows : Uses(p, w)' => window'[w] = Wanted(p, w)'
    BY <1>1, <2>1, <2>2, <2>3
  <2>5. Leads /\ pc[p] # "remap" /\ pc'[p] # "remap"
    BY <1>1, <1>5 DEF PagesInv
  <2> QED BY <1>1, <1>4, <2>1, <2>4, <2>5, LeadsKept
<1>9. Bits'
  BY <1>2, <1>5, BitsLeft DEF PagesInv, InBitmap
<1> QED BY <1>1, <1>4, <1>6, <1>7, <1>8, <1>9 DEF PagesInv

\* A call that clears the bit of a page owned it alone.
LEMMA FreeStoreKeeps ==
  ASSUME Types, PagesInv, NEW p \in Process, \A q \in Process \ {p} : Same(q), FreeStore(p)
  PROVE  PagesInv'
<1>1. /\ contents' = contents /\ active_phys_page' = active_phys_page /\ window' = window /\ panic' = panic
      /\ pc[p] = "free store" /\ pc'[p] = "null" /\ opening'[p] = opening[p] /\ page'[p] = page[p]
      /\ pte'[p] = pte[p] /\ held'[p] = held[p] /\ alloced' = word[p] \ {page[p]}
  BY TypesAre DEF FreeStore, At, Goto, Set, PcOK
<1>2. alloced' = alloced \ {page[p]} /\ InBitmap(p)
  BY <1>1 DEF PagesInv, Bits, InBitmap
<1>3. Tab(p)' = Tab(p) /\ Entries(p)' = Entries(p)
  BY <1>1, QuietTable
<1>4. \A q \in Process \ {p} : Knows(q)' /\ Untouched(q) /\ OpensRight(q) /\ \A k \in Place : Keeps(q, k)
  BY <1>1, QuietKnows, UntouchedKeeps, ZenonT(60) DEF PagesInv, Untouched, Tab, Knows
<1>5. /\ pte[p] \in Entries(p) /\ pte[p] \in Place /\ page[p] \in Frames /\ page[p] = contents[Tab(p)][pte[p]]
      /\ pte[p] \in Ptes
  BY <1>1, FreedIsOwned, TypesAre DEF PteOK
<1>6. Own'
  <2>1. alloced \subseteq Frames /\ Own
    BY TypesAre DEF AllocedOK, PagesInv
  <2>2. pte[p] # -1 /\ pte[p] # -2
    BY <1>5 DEF Ptes
  <2>3. Has(p, pte[p], page[p])
    BY <1>1, <1>5, <2>2 DEF Has, Owns
  <2>4. \A k \in Place \ {pte[p]} : Keeps(p, k)
    BY <1>1, <1>3 DEF Keeps, Owns, Hand
  <2>5. PICK k \in Place, y \in Frames : k = pte[p] /\ y = page[p]
    BY <1>5
  <2>6. Lacks(p, k)'
    BY <1>1, <2>2, <2>5 DEF Lacks, Owns, Hand
  <2> QED BY <1>2, <1>4, <2>1, <2>3, <2>4, <2>5, <2>6, OwnLost
<1>7. Knows(p)'
  <2>1. Entries(p) = held[p] \cup {pte[p]} /\ pte[p] \notin held[p] /\ OpensRight(p) /\ Tab(p) # Unmapped
    BY <1>1 DEF PagesInv, Knows, Stage, Mapping, Owning
  <2>2. page'[p] = contents'[Tab(p)'][pte'[p]]
    BY <1>1, <1>3, <1>5
  <2> QED BY <1>1, <1>3, <2>1, <2>2 DEF Knows, OpensRight, Stage, Mapping, Owning
<1>8. Leads'
  <2>1. \A w \in Windows : Uses(p, w)' => w = "dir"
    BY <1>1, UsesThen DEF Windows
  <2>2. Wanted(p, "dir")' = Tab(p) /\ window["dir"] = Tab(p) /\ Uses(p, "dir")
    BY <1>1, <1>3, TableIs DEF Wanted
  <2>3. \A w \in Windows : Uses(p, w)' => window'[w] = Wanted(p, w)' /\ Uses(p, w)
    BY <1>1, <2>1, <2>2
  <2>4. Leads /\ pc[p] # "remap" /\ pc'[p] # "remap"
    BY <1>1 DEF PagesInv
  <2> QED BY <1>1, <1>4, <2>3, <2>4, LeadsKept
<1>9. Bits'
  BY <1>1, <1>2, BitsLeft DEF PagesInv, InBitmap
<1> QED BY <1>1, <1>4, <1>6, <1>7, <1>8, <1>9 DEF PagesInv

-----------------------------------------------------------------------------
(* The steps that write to a directory or a table.                         *)

\* The page in the hand of a call is one of the RAM, and its own.
LEMMA InHand ==
  ASSUME Types, PagesInv, NEW p \in Process, pc[p] \in Hand
  PROVE  /\ Own /\ -1 \in Place /\ -2 \in Place /\ page[p] \in Frames /\ page[p] \notin Process
         /\ Has(p, -2, page[p]) /\ Tab(p) # page[p]
<1>1. Own /\ -1 \in Place /\ -2 \in Place /\ page[p] \in Any /\ alloced \subseteq Frames
  BY TypesAre DEF PagesInv, Place, PageOK, Any, AllocedOK
<1>2. Has(p, -2, page[p])
  BY DEF Has, Owns, Entries, Ptes
<1>3. Owns(p, -2, page[p])
  BY <1>1, <1>2 DEF Has
<1>4. \A k \in Place, x \in Any : Owns(p, k, x) => x \in alloced \ Process
  BY <1>1 DEF Own, Any
<1>5. page[p] \in Frames /\ page[p] \notin Process
  BY <1>1, <1>3, <1>4
<1>6. ASSUME Tab(p) = page[p] PROVE FALSE
  <2>1. Owns(p, -1, page[p])
    BY <1>5, <1>6, Constants DEF Owns
  <2>2. \A k, j \in Place, x \in Any : Owns(p, k, x) /\ Owns(p, j, x) => k = j
    BY <1>1 DEF Own, Any
  <2> QED BY <1>1, <1>3, <2>1, <2>2
<1> QED BY <1>1, <1>2, <1>5, <1>6

\* What is written to a page that is a process' own leaves the others alone.
LEMMA OthersKeep ==
  ASSUME Types, PagesInv, NEW p \in Process, \A q \in Process \ {p} : Same(q), NEW x \in Any,
         x = p \/ \E k \in Place : Owns(p, k, x),
         \A z \in Any \ {x} : contents'[z] = contents[z]
  PROVE  \A q \in Process \ {p} : Knows(q)' /\ Untouched(q) /\ OpensRight(q) /\ \A k \in Place : Keeps(q, k)
<1>1. \A q \in Process \ {p} : Untouched(q)
  BY OthersUntouched DEF PagesInv
<1> QED BY <1>1, UntouchedKnows, UntouchedKeeps, ZenonT(60) DEF PagesInv, Knows

\* A new table is put under the third window,
LEMMA TempKeeps ==
  ASSUME Types, PagesInv, NEW p \in Process, \A q \in Process \ {p} : Same(q), Temp(p),
         "Window" \notin mishaps'
  PROVE  PagesInv'
<1>1. /\ contents' = contents /\ alloced' = alloced /\ active_phys_page' = active_phys_page
      /\ panic' = panic /\ pc[p] = "temp" /\ pc'[p] = "clear" /\ opening'[p] = opening[p]
      /\ page'[p] = page[p] /\ pte'[p] = pte[p] /\ held'[p] = held[p]
      /\ window'["temp"] = page[p] /\ window'["dir"] = window["dir"] /\ window'["table"] = window["table"]
      /\ \A q \in Process \ {p} : ~Uses(q, "temp")
  BY TypesAre DEF Temp, At, Goto, Set, locals, PcOK, WindowOK, Windows, Blame
<1>2. Tab(p)' = Tab(p) /\ Entries(p)' = Entries(p)
  BY <1>1, QuietTable
<1>3. \A q \in Process \ {p} : Knows(q)' /\ Untouched(q) /\ OpensRight(q)
  BY <1>1, QuietKnows, ZenonT(60) DEF PagesInv, Untouched, Tab, Knows
<1>4. Own'
  BY <1>1, QuietOwn DEF PagesInv, Hand
<1>5. Knows(p)'
  BY <1>1, <1>2 DEF PagesInv, Knows, OpensRight, Stage, Mapping, Owning
<1>6. Leads'
  <2>1. Uses(p, "dir") /\ window["dir"] = p
    <3>1. Uses(p, "dir")
      BY <1>1, UsesIs
    <3> QED BY <1>1, <3>1 DEF PagesInv, Leads, LeadsRight, Wanted, Windows
  <2>2. ~Uses(p, "table")' /\ Wanted(p, "dir")' = p /\ Wanted(p, "temp")' = page[p]
    BY <1>1, UsesThen DEF Wanted
  <2>3. \A w \in Windows : Uses(p, w)' => window'[w] = Wanted(p, w)' /\ (w = "temp" \/ Uses(p, w))
    BY <1>1, <2>1, <2>2 DEF Windows
  <2>4. Leads /\ pc[p] # "remap" /\ pc'[p] # "remap"
    BY <1>1 DEF PagesInv
  <2> QED BY <1>1, <1>3, <2>3, <2>4, LeadsKept
<1>7. Bits'
  BY <1>1, QuietBits DEF PagesInv, InBitmap
<1> QED BY <1>1, <1>3, <1>4, <1>5, <1>6, <1>7 DEF PagesInv

\* cleared through it,
LEMMA ClearKeeps ==
  ASSUME Types, PagesInv, NEW p \in Process, \A q \in Process \ {p} : Same(q), Clear(p)
  PROVE  PagesInv'
<1>1. /\ alloced' = alloced /\ active_phys_page' = active_phys_page
      /\ panic' = panic /\ pc[p] = "clear" /\ pc'[p] = "link" /\ opening'[p] = opening[p]
      /\ page'[p] = page[p] /\ pte'[p] = pte[p] /\ held'[p] = held[p]
      /\ window'["dir"] = window["dir"] /\ window'["table"] = window["table"]
  BY TypesAre DEF Clear, At, Goto, Set, locals, PcOK, WindowOK, Windows
<1>2. /\ Own /\ -2 \in Place /\ page[p] \in Frames /\ page[p] \notin Process
      /\ Has(p, -2, page[p]) /\ page[p] \in Any
  BY <1>1, InHand DEF Hand, Any
<1>3. window["temp"] = page[p] /\ window["dir"] = p /\ Uses(p, "dir")
  <2>1. Uses(p, "temp") /\ Uses(p, "dir") /\ pc[p] # "remap"
    BY <1>1, UsesIs
  <2> QED BY <1>1, <2>1 DEF PagesInv, Leads, LeadsRight, Wanted, Windows
<1>4. contents'[page[p]] = Empty /\ \A z \in Any \ {page[p]} : contents'[z] = contents[z]
  BY <1>2, <1>3 DEF Clear, Cleared, Any
<1>5. Owns(p, -2, page[p])
  BY <1>2 DEF Has
<1>6. \A q \in Process \ {p} : Knows(q)' /\ Untouched(q) /\ OpensRight(q) /\ \A k \in Place : Keeps(q, k)
  BY <1>2, <1>4, <1>5, OthersKeep
<1>7. /\ Tab(p) = Unmapped /\ Tab(p)' = Unmapped /\ Entries(p) = {} /\ Entries(p)' = {}
      /\ held[p] = {} /\ pte[p] \notin held[p] /\ OpensRight(p)
  <2>1. Tab(p) = Unmapped /\ Entries(p) = held[p] /\ pte[p] \notin held[p] /\ OpensRight(p)
    BY <1>1 DEF PagesInv, Knows, Stage, Mapping, Owning
  <2>2. contents'[p] = contents[p]
    BY <1>2, <1>4, Constants DEF Any
  <2>3. Tab(p)' = Unmapped
    BY <2>1, <2>2 DEF Tab
  <2>4. Entries(p) = {} /\ Entries(p)' = {}
    BY <2>1, <2>3 DEF Entries
  <2> QED BY <2>1, <2>3, <2>4
<1>8. Own'
  <2>1. \A k \in Place : Keeps(p, k)
    BY <1>1, <1>7 DEF Keeps, Owns, Hand
  <2> QED BY <1>1, <1>2, <1>6, <2>1, OwnSame, TypesAre DEF AllocedOK
<1>9. Knows(p)'
  BY <1>1, <1>4, <1>7 DEF Knows, OpensRight, Stage, Mapping, Owning
<1>10. Leads'
  <2>1. \A w \in Windows : Uses(p, w)' => w = "dir"
    BY <1>1, UsesThen DEF Windows
  <2>2. Wanted(p, "dir")' = p
    BY <1>1 DEF Wanted
  <2>3. \A w \in Windows : Uses(p, w)' => window'[w] = Wanted(p, w)' /\ Uses(p, w)
    BY <1>1, <1>3, <2>1, <2>2
  <2>4. \A q \in Process \ {p} : ~Uses(q, "temp")
    <3> SUFFICES ASSUME NEW q \in Process \ {p}, Uses(q, "temp") PROVE FALSE
      OBVIOUS
    <3>1. pc[q] = "clear"
      BY <1>6, UsesIs DEF OpensRight
    <3>2. page[q] = page[p]
      BY <1>3, <3>1 DEF PagesInv, Leads, LeadsRight, Wanted, Windows
    <3>3. Owns(q, -2, page[p])
      BY <3>1, <3>2 DEF Owns, Hand
    <3>4. \A k, j \in Place, x \in Any : Owns(p, k, x) /\ Owns(q, j, x) => p = q
      BY <1>2 DEF Own, Any
    <3> QED BY <1>2, <1>5, <3>3, <3>4
  <2>5. Leads /\ pc[p] # "remap" /\ pc'[p] # "remap"
    BY <1>1 DEF PagesInv
  <2> QED BY <1>1, <1>6, <2>3, <2>4, <2>5, LeadsKept
<1>11. Bits'
  BY <1>1, QuietBits DEF PagesInv, InBitmap
<1> QED BY <1>1, <1>6, <1>8, <1>9, <1>10, <1>11 DEF PagesInv

\* and written into the directory.
LEMMA LinkKeeps ==
  ASSUME Types, PagesInv, NEW p \in Process, \A q \in Process \ {p} : Same(q), Link(p)
  PROVE  PagesInv'
<1>1. /\ alloced' = alloced /\ active_phys_page' = active_phys_page /\ window' = window
      /\ panic' = panic /\ pc[p] = "link" /\ page'[p] = page[p] /\ pte'[p] = pte[p] /\ held'[p] = held[p]
      /\ contents' = [contents EXCEPT ![window["dir"]][0] = page[p]]
  BY DEF Link, At
<1>2. /\ pc'[p] = "look" /\ opening'[p].window = "table" /\ opening'[p].page = page[p]
      /\ opening'[p].then = "map page"
  <2>1. Open(p, "table", page[p], "map page")
    BY DEF Link
  <2> QED BY <2>1, OpenDoes
<1>3. /\ Own /\ -1 \in Place /\ -2 \in Place /\ page[p] \in Frames /\ page[p] \notin Process
      /\ Has(p, -2, page[p]) /\ page[p] \in Any /\ p \in Any
  BY <1>1, InHand, Constants DEF Hand, Any
<1>4. window["dir"] = p
  BY <1>1, DirIs
<1>5. contents'[p][0] = page[p] /\ \A z \in Any \ {p} : contents'[z] = contents[z]
  BY <1>1, <1>3, <1>4, Constants, TypesAre DEF ContentsOK, Any
<1>6. \A q \in Process \ {p} : Knows(q)' /\ Untouched(q) /\ OpensRight(q) /\ \A k \in Place : Keeps(q, k)
  BY <1>3, <1>5, OthersKeep
<1>7. /\ Tab(p) = Unmapped /\ Entries(p) = {} /\ held[p] = {} /\ pte[p] \notin held[p]
      /\ contents[page[p]] = Empty
  <2>1. /\ Tab(p) = Unmapped /\ Entries(p) = held[p] /\ pte[p] \notin held[p]
        /\ contents[page[p]] = Empty
    BY <1>1 DEF PagesInv, Knows, Stage, Mapping, Owning
  <2>2. Entries(p) = {}
    BY <2>1 DEF Entries
  <2> QED BY <2>1, <2>2
<1>8. Tab(p)' = page[p] /\ Tab(p)' # Unmapped /\ Entries(p)' = {}
  <2>1. Tab(p)' = page[p] /\ Tab(p)' # Unmapped
    BY <1>3, <1>5, Constants DEF Tab
  <2>2. contents'[page[p]] = Empty
    BY <1>3, <1>5, <1>7
  <2> QED BY <2>1, <2>2 DEF Entries, Empty
<1>9. Own'
  <2>1. Lacks(p, -1) /\ Lacks(p, -2)'
    <3>1. Lacks(p, -1)
      BY <1>7 DEF Lacks, Owns
    <3>2. Lacks(p, -2)'
      <4>1. -2 \notin Entries(p)'
        BY <1>8
      <4>2. pc'[p] \notin Hand
        BY <1>2 DEF Hand
      <4> QED BY <4>1, <4>2 DEF Lacks, Owns
    <3> QED BY <3>1, <3>2
  <2>2. PICK y \in Any : y = page[p]
    BY <1>3
  <2>3. Has(p, -1, y)'
    BY <1>8, <2>2 DEF Has, Owns
  <2>4. \A k \in Place \ {-1, -2} : Keeps(p, k)
    BY <1>7, <1>8 DEF Keeps, Owns
  <2>5. alloced \subseteq Frames /\ -2 # -1 /\ Has(p, -2, y)
    BY <1>3, <2>2, TypesAre DEF AllocedOK
  <2> QED BY <1>1, <1>3, <1>6, <2>1, <2>2, <2>3, <2>4, <2>5, OwnMoved
<1>10. Knows(p)'
  BY <1>1, <1>2, <1>7, <1>8, LookKnows
<1>11. Leads'
  <2>1. \A w \in Windows : ~Uses(p, w)'
    BY <1>2, UsesThen DEF Windows
  <2>2. Leads /\ pc[p] # "remap" /\ pc'[p] # "remap"
    BY <1>1, <1>2 DEF PagesInv
  <2> QED BY <1>1, <1>6, <2>1, <2>2, LeadsKept
<1>12. Bits'
  BY <1>1, <1>2, QuietBits DEF PagesInv, InBitmap
<1> QED BY <1>1, <1>6, <1>9, <1>10, <1>11, <1>12 DEF PagesInv

\* What an entry of the own table is set to.
Rewritten(p, i, v) ==
  /\ Tab(p)' = Tab(p) /\ Owns(p, -1, Tab(p)) /\ Tab(p) \in Any /\ -1 \in Place
  /\ contents'[Tab(p)][i] = v /\ \A k \in Ptes \ {i} : contents'[Tab(p)][k] = contents[Tab(p)][k]
  /\ Entries(p)' = IF v = Unmapped THEN Entries(p) \ {i} ELSE Entries(p) \cup {i}
  /\ \A z \in Any \ {Tab(p)} : contents'[z] = contents[z]

LEMMA EntryWritten ==
  ASSUME Types, Own, NEW p \in Process, Tab(p) # Unmapped
  PROVE  \A i \in Ptes, v \in Any :
            contents' = [contents EXCEPT ![Tab(p)][i] = v] => Rewritten(p, i, v)
<1> SUFFICES ASSUME NEW i \in Ptes, NEW v \in Any, contents' = [contents EXCEPT ![Tab(p)][i] = v]
             PROVE  Rewritten(p, i, v)
  OBVIOUS
<1>1. Tab(p) \in Any /\ -1 \in Place /\ p \in Any
  BY Constants, TypesAre DEF Any, Tab, ContentsOK, Place
<1>2. Owns(p, -1, Tab(p))
  BY DEF Owns
<1>3. Tab(p) # p
  <2>1. \A k \in Place, x \in Any : Owns(p, k, x) => x \notin Process
    BY DEF Own, Any
  <2> QED BY <1>1, <1>2, <2>1
<1> DEFINE t == Tab(p)
<1>4. /\ t \in Any /\ t # p /\ contents' = [contents EXCEPT ![t][i] = v]
      /\ contents \in [Any -> [Ptes -> Any]]
  BY <1>1, <1>3, TypesAre DEF ContentsOK, Any
<1>5. t # Unmapped /\ t = contents[p][0]
  BY DEF Tab
<1> HIDE DEF t
<1>6. /\ contents'[t][i] = v /\ \A k \in Ptes \ {i} : contents'[t][k] = contents[t][k]
      /\ \A z \in Any \ {t} : contents'[z] = contents[z]
  BY <1>4
<1>7. Tab(p)' = t /\ Tab(p) = t
  BY <1>1, <1>4, <1>5, <1>6 DEF Tab
<1>8. Entries(p)' = IF v = Unmapped THEN Entries(p) \ {i} ELSE Entries(p) \cup {i}
  <2>1. Entries(p) = {k \in Ptes : contents[t][k] # Unmapped}
    BY <1>5, <1>7 DEF Entries
  <2>2. Entries(p)' = {k \in Ptes : contents'[t][k] # Unmapped}
    BY <1>5, <1>7 DEF Entries
  <2> QED BY <1>6, <2>1, <2>2
<1> QED BY <1>1, <1>2, <1>6, <1>7, <1>8 DEF Rewritten

\* The page of an area is written into the table.
LEMMA PutKeeps ==
  ASSUME Types, PagesInv, NEW p \in Process, \A q \in Process \ {p} : Same(q), Put(p)
  PROVE  PagesInv'
<1>1. /\ alloced' = alloced /\ active_phys_page' = active_phys_page /\ window' = window
      /\ panic' = panic /\ pc[p] = "put" /\ pc'[p] = "fill" /\ opening'[p] = opening[p]
      /\ page'[p] = page[p] /\ pte'[p] = pte[p] /\ held'[p] = held[p]
      /\ contents' = [contents EXCEPT ![window["table"]][pte[p]] = page[p]]
  BY TypesAre DEF Put, At, Goto, locals, PcOK
<1>2. /\ Own /\ -1 \in Place /\ -2 \in Place /\ page[p] \in Frames /\ page[p] \notin Process
      /\ Has(p, -2, page[p]) /\ page[p] \in Any /\ page[p] # Unmapped
  BY <1>1, InHand, Constants DEF Hand, Any
<1>3. /\ Tab(p) # Unmapped /\ Entries(p) = held[p] /\ pte[p] \notin held[p] /\ OpensRight(p)
      /\ window["table"] = Tab(p)
  BY <1>1, TableIs DEF PagesInv, Knows, Stage, Mapping, Owning
<1>4. pte[p] \in Ptes
  BY TypesAre DEF PteOK
<1>5. /\ Tab(p)' = Tab(p) /\ Owns(p, -1, Tab(p)) /\ Tab(p) \in Any
      /\ contents'[Tab(p)][pte[p]] = page[p]
      /\ \A k \in Ptes \ {pte[p]} : contents'[Tab(p)][k] = contents[Tab(p)][k]
      /\ Entries(p)' = Entries(p) \cup {pte[p]}
      /\ \A z \in Any \ {Tab(p)} : contents'[z] = contents[z]
  <2>1. PICK i \in Ptes, v \in Any : i = pte[p] /\ v = page[p]
    BY <1>2, <1>4
  <2>2. contents' = [contents EXCEPT ![Tab(p)][i] = v]
    BY <1>1, <1>3, <2>1
  <2>3. Types /\ Own /\ Tab(p) # Unmapped
    BY <1>2, <1>3
  <2>4. Rewritten(p, i, v)
    BY <2>2, <2>3, EntryWritten, ZenonT(60)
  <2> QED BY <1>2, <2>1, <2>4 DEF Rewritten
<1>6. \A q \in Process \ {p} : Knows(q)' /\ Untouched(q) /\ OpensRight(q) /\ \A k \in Place : Keeps(q, k)
  BY <1>2, <1>5, OthersKeep
<1>7. Own'
  <2>1. PICK y \in Any, i \in Place : y = page[p] /\ i = pte[p] /\ i \in Ptes
    BY <1>2, <1>4 DEF Place
  <2>2. i # -1 /\ i # -2
    BY <2>1 DEF Ptes
  <2>3. Lacks(p, i) /\ Has(p, -2, y)
    BY <1>2, <1>3, <2>1, <2>2 DEF Lacks, Owns
  <2>4. Lacks(p, -2)'
    <3>1. -2 \notin Entries(p)'
      BY DEF Entries, Ptes
    <3> QED BY <1>1, <3>1 DEF Lacks, Owns, Hand
  <2>5. Has(p, i, y)'
    BY <1>1, <1>5, <2>1, <2>2 DEF Has, Owns
  <2>6. \A k \in Place \ {-2, i} : Keeps(p, k)
    <3> SUFFICES ASSUME NEW k \in Place \ {-2, i}, NEW x \in Any PROVE Owns(p, k, x)' <=> Owns(p, k, x)
      BY DEF Keeps
    <3>1. CASE k = -1
      BY <1>5, <3>1 DEF Owns, Entries, Ptes
    <3>2. CASE k # -1
      <4>1. k \in Ptes /\ k # pte[p] /\ contents'[Tab(p)][k] = contents[Tab(p)][k]
        BY <1>5, <2>1, <3>2 DEF Place
      <4> QED BY <1>1, <1>5, <3>2, <4>1 DEF Owns
    <3> QED BY <3>1, <3>2
  <2>7. alloced \subseteq Frames
    BY TypesAre DEF AllocedOK
  <2> QED BY <1>1, <1>2, <1>6, <2>1, <2>2, <2>3, <2>4, <2>5, <2>6, <2>7, OwnMoved
<1>8. Knows(p)'
  BY <1>1, <1>3, <1>5 DEF Knows, OpensRight, Stage, Mapping, Owning
<1>9. Leads'
  <2>1. \A w \in Windows : ~Uses(p, w)'
    BY <1>1, UsesThen DEF Windows
  <2>2. Leads /\ pc[p] # "remap" /\ pc'[p] # "remap"
    BY <1>1 DEF PagesInv
  <2> QED BY <1>1, <1>6, <2>1, <2>2, LeadsKept
<1>10. Bits'
  BY <1>1, QuietBits DEF PagesInv, InBitmap
<1> QED BY <1>1, <1>6, <1>7, <1>8, <1>9, <1>10 DEF PagesInv

\* The entry of the page that was freed is cleared.
LEMMA NullKeeps ==
  ASSUME Types, PagesInv, NEW p \in Process, \A q \in Process \ {p} : Same(q), Null(p)
  PROVE  PagesInv'
<1>1. /\ alloced' = alloced /\ active_phys_page' = active_phys_page /\ window' = window
      /\ panic' = panic /\ pc[p] = "null" /\ pc'[p] = "idle" /\ opening'[p] = opening[p] /\ held'[p] = held[p]
      /\ contents' = [contents EXCEPT ![window["dir"]][pte[p]] = Unmapped]
  BY TypesAre DEF Null, At, Return, Goto, PcOK
<1>2. /\ Tab(p) # Unmapped /\ Entries(p) = held[p] \cup {pte[p]} /\ pte[p] \notin held[p] /\ OpensRight(p)
      /\ window["dir"] = Tab(p) /\ Own
  BY <1>1, TableIs DEF PagesInv, Knows, Stage, Mapping, Owning
<1>3. pte[p] \in Ptes /\ Unmapped \in Any
  BY TypesAre DEF PteOK, Any
<1>4. /\ Tab(p)' = Tab(p) /\ Owns(p, -1, Tab(p)) /\ Tab(p) \in Any /\ -1 \in Place
      /\ \A k \in Ptes \ {pte[p]} : contents'[Tab(p)][k] = contents[Tab(p)][k]
      /\ Entries(p)' = Entries(p) \ {pte[p]}
      /\ \A z \in Any \ {Tab(p)} : contents'[z] = contents[z]
  <2>1. PICK i \in Ptes, v \in Any : i = pte[p] /\ v = Unmapped
    BY <1>3
  <2>2. contents' = [contents EXCEPT ![Tab(p)][i] = v]
    BY <1>1, <1>2, <2>1
  <2>3. Types /\ Own /\ Tab(p) # Unmapped
    BY <1>2
  <2>4. Rewritten(p, i, v)
    BY <2>2, <2>3, EntryWritten, ZenonT(60)
  <2> QED BY <2>1, <2>4 DEF Rewritten
<1>5. \A q \in Process \ {p} : Knows(q)' /\ Untouched(q) /\ OpensRight(q) /\ \A k \in Place : Keeps(q, k)
  BY <1>4, OthersKeep
<1>6. Own'
  <2>1. \A k \in Place : Keeps(p, k)
    <3> SUFFICES ASSUME NEW k \in Place, NEW x \in Any PROVE Owns(p, k, x)' <=> Owns(p, k, x)
      BY DEF Keeps
    <3>1. CASE k \in Ptes /\ k # pte[p]
      <4>1. contents'[Tab(p)][k] = contents[Tab(p)][k] /\ k # -1 /\ k # -2
        BY <1>4, <3>1 DEF Ptes
      <4> QED BY <1>1, <1>4, <3>1, <4>1 DEF Owns
    <3>2. CASE k = pte[p]
      <4>1. k # -1 /\ k # -2
        BY <1>3, <3>2 DEF Ptes
      <4> QED BY <1>1, <1>4, <3>2, <4>1 DEF Owns
    <3>3. CASE k \in {-1, -2}
      <4>1. k \notin Entries(p) /\ k \notin Entries(p)'
        BY <1>4, <3>3 DEF Entries, Ptes
      <4> QED BY <1>1, <1>4, <3>3, <4>1 DEF Owns, Hand
    <3> QED BY <3>1, <3>2, <3>3 DEF Place
  <2> QED BY <1>1, <1>2, <1>5, <2>1, OwnSame, TypesAre DEF AllocedOK
<1>7. Knows(p)'
  <2>1. Entries(p)' = held'[p]
    BY <1>1, <1>2, <1>4
  <2> QED BY <1>1, <1>2, <2>1 DEF Knows, OpensRight, Stage, Mapping, Owning
<1>8. Leads'
  <2>1. \A w \in Windows : ~Uses(p, w)'
    BY <1>1, UsesThen DEF Windows
  <2>2. Leads /\ pc[p] # "remap" /\ pc'[p] # "remap"
    BY <1>1 DEF PagesInv
  <2> QED BY <1>1, <1>5, <2>1, <2>2, LeadsKept
<1>9. Bits'
  BY <1>1, QuietBits DEF PagesInv, InBitmap
<1> QED BY <1>1, <1>5, <1>6, <1>7, <1>8, <1>9 DEF PagesInv

-----------------------------------------------------------------------------
(* The pages stay in order.                                                *)

\* The pages begin in order.
LEMMA PagesInit == WindowInit => PagesInv
<1> SUFFICES ASSUME WindowInit PROVE PagesInv
  OBVIOUS
<1> USE Constants
<1>1. \A p \in Process : /\ pc[p] = "idle" /\ opening[p] = NotOpening /\ Tab(p) = Unmapped
                         /\ Entries(p) = {} /\ held[p] = {}
  BY DEF WindowInit, Tab, Entries, Empty
<1>2. Own
  <2>1. \A p \in Process, k \in Place, x \in Any : ~Owns(p, k, x)
    BY <1>1 DEF Owns, Hand
  <2> QED BY <2>1 DEF Own, Any, WindowInit
<1>3. \A p \in Process : Knows(p)
  BY <1>1, ZenonT(60) DEF Knows, OpensRight, Stage, Mapping, Owning
<1>4. \A p \in Process, w \in Windows : ~Uses(p, w)
  BY <1>1, UsesIs, ZenonT(60) DEF Windows
<1>5. Leads
  BY <1>1, <1>4 DEF Leads, LeadsRight, LeadsAlone, WindowsLeadThere, WindowInit
<1>6. Bits
  BY <1>1 DEF Bits, InBitmap
<1> QED BY <1>2, <1>3, <1>5, <1>6 DEF PagesInv, WindowInit

\* A step of a call keeps the pages in order, if no window and no word of the bitmap is
\* taken from another call.
LEMMA PagesNext ==
  ASSUME Types, PagesInv, NEW p \in Process, Moves(p), "Window" \notin mishaps', "Bitmap" \notin mishaps'
  PROVE  PagesInv'
<1>0. \A q \in Process \ {p} : Same(q)
  BY OthersSame
<1> USE <1>0
<1>1. CASE Look(p)
  BY <1>1, LookKeeps
<1>2. CASE Remap(p)
  BY <1>2, RemapKeeps
<1>3. CASE Sysmalloc(p)
  BY <1>3, SysmallocKeeps
<1>4. CASE Find(p)
  BY <1>4, FindKeeps
<1>5. CASE FindTable(p)
  BY <1>5, FindTableKeeps
<1>6. CASE MapDir(p)
  BY <1>6, MapDirKeeps
<1>7. CASE MapPage(p)
  BY <1>7, MapPageKeeps
<1>8. CASE Test(p)
  BY <1>8, TestKeeps
<1>9. CASE Load(p)
  BY <1>9, LoadKeeps
<1>10. CASE Store(p)
  BY <1>10, StoreKeeps
<1>11. CASE Temp(p)
  BY <1>11, TempKeeps
<1>12. CASE Clear(p)
  BY <1>12, ClearKeeps
<1>13. CASE Link(p)
  BY <1>13, LinkKeeps
<1>14. CASE Put(p)
  BY <1>14, PutKeeps
<1>15. CASE Fill(p)
  BY <1>15, FillKeeps
<1>16. CASE Sysfree(p)
  BY <1>16, SysfreeKeeps
<1>17. CASE UnmapDir(p)
  BY <1>17, UnmapDirKeeps
<1>18. CASE Unmap(p)
  BY <1>18, UnmapKeeps
<1>19. CASE FreeLoad(p)
  BY <1>19, FreeLoadKeeps
<1>20. CASE FreeStore(p)
  BY <1>20, FreeStoreKeeps
<1>21. CASE Null(p)
  BY <1>21, NullKeeps
<1> QED BY <1>1, <1>2, <1>3, <1>4, <1>5, <1>6, <1>7, <1>8, <1>9, <1>10, <1>11, <1>12, <1>13, <1>14,
           <1>15, <1>16, <1>17, <1>18, <1>19, <1>20, <1>21 DEF Moves

\* Nothing changes the types,
LEMMA TypesStutter == Types /\ UNCHANGED windowVars => Types'
  BY DEF Types, WindowTypeOK, windowVars, shared, locals

\* nor the order of the pages, when nothing happens.
LEMMA PagesStutter ==
  ASSUME PagesInv, UNCHANGED windowVars
  PROVE  PagesInv'
<1>1. /\ alloced' = alloced /\ contents' = contents /\ window' = window /\ active_phys_page' = active_phys_page
      /\ panic' = panic /\ pc' = pc /\ opening' = opening /\ pte' = pte /\ page' = page /\ word' = word
      /\ purpose' = purpose /\ held' = held
  BY DEF windowVars, shared, locals
<1>2. Own'
  BY <1>1 DEF PagesInv, Own, Owns, Tab, Entries
<1>3. ASSUME NEW p \in Process PROVE Knows(p)'
  <2>1. Knows(p)
    BY DEF PagesInv
  <2>2. Tab(p)' = Tab(p) /\ Entries(p)' = Entries(p) /\ Stage(p)' = Stage(p)
    BY <1>1 DEF Tab, Entries, Stage
  <2>3. OpensRight(p)' = OpensRight(p)
    BY <1>1, <2>2 DEF OpensRight
  <2> QED BY <1>1, <2>1, <2>2, <2>3 DEF Knows
<1>4. Leads'
  <2>1. LeadsRight' = LeadsRight
    BY <1>1 DEF LeadsRight, Uses, Wanted, Tab
  <2>2. LeadsAlone' = LeadsAlone
    BY <1>1 DEF LeadsAlone, Uses
  <2>3. WindowsLeadThere' = WindowsLeadThere
    BY <1>1 DEF WindowsLeadThere
  <2> QED BY <2>1, <2>2, <2>3 DEF PagesInv, Leads
<1>5. Bits'
  BY <1>1 DEF PagesInv, Bits, InBitmap
<1> QED BY <1>1, <1>2, <1>3, <1>4, <1>5 DEF PagesInv

-----------------------------------------------------------------------------
(* What a process reaches.                                                 *)

\* The pages behind the entries of the table of a process.
LEMMA DataIs ==
  ASSUME NEW p \in Process
  PROVE  /\ DataPages(p) = {contents[Tab(p)][i] : i \in Entries(p)}
         /\ TablePages(p) = IF Tab(p) = Unmapped THEN {} ELSE {Tab(p)}
<1>1. TablePages(p) = IF Tab(p) = Unmapped THEN {} ELSE {Tab(p)}
  BY DEF TablePages, Tab
<1>2. CASE Tab(p) = Unmapped
  BY <1>1, <1>2 DEF DataPages, Entries
<1>3. CASE Tab(p) # Unmapped
  <2> DEFINE t == Tab(p)
  <2>1. TablePages(p) = {t} /\ Entries(p) = {i \in Ptes : contents[t][i] # Unmapped}
    BY <1>1, <1>3 DEF Entries
  <2> HIDE DEF t
  <2>2. DataPages(p) = {contents[t][i] : i \in Entries(p)}
    BY <2>1 DEF DataPages
  <2> QED BY <1>1, <2>2 DEF t
<1> QED BY <1>1, <1>2, <1>3

\* A process that is in no call reaches what its places own.
LEMMA ReachedIs ==
  ASSUME Types, PagesInv, NEW p \in Process, AtRest(p), NEW x
  PROVE  x \in Reached(p) <=> x \in Any /\ \E k \in Place : Owns(p, k, x)
<1>1. -1 \in Place /\ Entries(p) \subseteq Place /\ (Tab(p) # Unmapped => Tab(p) \in Any)
  BY Constants, TypesAre DEF Place, Entries, Tab, ContentsOK, Any
<1>2. \A k \in Entries(p) : contents[Tab(p)][k] \in Any
  BY <1>1, TypesAre DEF Entries, ContentsOK, Any
<1>3. x \in Reached(p) <=> \/ Tab(p) # Unmapped /\ x = Tab(p)
                           \/ \E k \in Entries(p) : x = contents[Tab(p)][k]
  BY DataIs DEF Reached
<1>4. \A k \in Place : Owns(p, k, x) <=> \/ k = -1 /\ Tab(p) # Unmapped /\ x = Tab(p)
                                         \/ k \in Entries(p) /\ x = contents[Tab(p)][k]
  BY DEF Owns, AtRest, Hand
<1> QED BY <1>1, <1>2, <1>3, <1>4

\* As many pages as areas.
LEMMA DataCounted ==
  ASSUME Types, PagesInv, NEW p \in Process, AtRest(p)
  PROVE  Cardinality(DataPages(p)) = Cardinality(held[p])
<1>1. Entries(p) = held[p]
  BY ZenonT(60) DEF PagesInv, Knows, Stage, AtRest, Owning
<1> DEFINE f == [i \in Entries(p) |-> contents[Tab(p)][i]]
<1>2. \A i, j \in Entries(p) : contents[Tab(p)][i] = contents[Tab(p)][j] => i = j
  <2> SUFFICES ASSUME NEW i \in Entries(p), NEW j \in Entries(p), contents[Tab(p)][i] = contents[Tab(p)][j]
               PROVE  i = j
    OBVIOUS
  <2>0. Tab(p) \in Any /\ i \in Ptes
    BY Constants, TypesAre DEF Entries, Tab, ContentsOK, Any
  <2>1. PICK x \in Any : x = contents[Tab(p)][i]
    BY <2>0, TypesAre DEF ContentsOK, Any
  <2>2. Owns(p, i, x) /\ Owns(p, j, x)
    BY <2>1 DEF Owns, AtRest
  <2>3. i \in Place /\ j \in Place
    BY DEF Entries, Place
  <2>4. \A k, l \in Place, y \in Any : Owns(p, k, y) /\ Owns(p, l, y) => k = l
    BY DEF PagesInv, Own, Any
  <2> QED BY <2>1, <2>2, <2>3, <2>4
<1>3. DataPages(p) = {contents[Tab(p)][i] : i \in Entries(p)}
  BY DataIs
<1>4. f \in Bijection(Entries(p), DataPages(p))
  <2>1. f \in [Entries(p) -> DataPages(p)]
    BY <1>3
  <2>2. \A i, j \in Entries(p) : f[i] = f[j] => i = j
    BY <1>2
  <2>3. \A x \in DataPages(p) : \E i \in Entries(p) : f[i] = x
    BY <1>3
  <2> HIDE DEF f
  <2> QED BY <2>1, <2>2, <2>3 DEF Bijection, Injection, Surjection, IsInjective
<1>5. IsFiniteSet(Entries(p))
  <2>1. IsFiniteSet(Ptes)
    BY WindowAssumption, FS_Interval DEF Ptes
  <2> QED BY <2>1, FS_Subset DEF Entries
<1> QED BY <1>1, <1>4, <1>5, FS_Bijection DEF ExistsBijection

\* Pages in this order are what the property asks for.
LEMMA PagesAreTheirOwn ==
  ASSUME Types, PagesInv
  PROVE  PagesAreOwn
<1>1. ASSUME NEW p \in Process, AtRest(p), held[p] # {}, NEW i \in Ptes
      PROVE  contents[contents[p][0]][i] # Unmapped <=> i \in held[p]
  <2>1. Entries(p) = held[p]
    BY <1>1, ZenonT(60) DEF PagesInv, Knows, Stage, AtRest, Owning
  <2>2. Tab(p) # Unmapped
    BY <1>1, <2>1 DEF Entries
  <2> QED BY <2>1, <2>2 DEF Entries, Tab
<1>2. ASSUME NEW p \in Process, AtRest(p)
      PROVE  Reached(p) \subseteq alloced \ Process
  BY <1>2, ReachedIs DEF PagesInv, Own, Any
<1>3. ASSUME NEW p \in Process, AtRest(p), NEW q \in Process \ {p}, AtRest(q)
      PROVE  Reached(p) \cap Reached(q) = {}
  BY <1>3, ReachedIs DEF PagesInv, Own, Any
<1>4. ASSUME \A p \in Process : AtRest(p)
      PROVE  alloced = Process \cup UNION {Reached(p) : p \in Process}
  <2>1. alloced \subseteq Frames /\ Process \subseteq alloced
    BY TypesAre DEF AllocedOK, PagesInv, Own
  <2>2. \A x \in alloced \ Process : \E p \in Process : x \in Reached(p)
    BY <1>4, <2>1, ReachedIs DEF PagesInv, Own, Any
  <2>3. \A p \in Process : Reached(p) \subseteq alloced
    BY <1>2, <1>4
  <2> QED BY <2>1, <2>2, <2>3
<1> QED BY <1>1, <1>2, <1>3, <1>4, DataCounted DEF PagesAreOwn

-----------------------------------------------------------------------------
(* The windows and the areas, each with its own lock.                      *)

\* What a call asks for a window for.
Asked == {"find", "find table", "map dir", "map page", "unmap dir", "unmap"}

\* Every step keeps what a window is asked for.
LEMMA OpenNext ==
  ASSUME Types, OpenInv, NEW p \in Process, Moves(p)
  PROVE  OpenInv'
<1>0. PcOK /\ OpeningOK /\ NotOpening.window # "temp" /\ NotOpening.then # "remap"
  BY TypesAre DEF NotOpening
<1>a. ASSUME \/ pc'[p] = "look" /\ opening'[p].window # "temp" /\ opening'[p].then # "remap"
             \/ opening'[p] = opening[p] /\ pc[p] \notin {"look", "remap"}
             \/ opening'[p] = opening[p] /\ pc'[p] = "remap"
             \/ opening'[p] = NotOpening
      PROVE  OpenInv'
  <2>1. \A q \in Process \ {p} : pc'[q] = pc[q] /\ opening'[q] = opening[q]
    BY OthersSame DEF Same
  <2> QED BY <1>0, <1>a, <2>1 DEF OpenInv
<1>b. ASSUME NEW w \in {"dir", "table"}, NEW then \in Asked, NEW x, Open(p, w, x, then)
      PROVE  OpenInv'
  <2>1. pc'[p] = "look" /\ opening'[p].window = w /\ opening'[p].then = then
    BY <1>b, OpenDoes
  <2>2. w # "temp" /\ then # "remap"
    BY DEF Asked
  <2> QED BY <1>a, <2>1, <2>2
<1>1. CASE Look(p)
  <2>1. opening'[p] = NotOpening \/ (opening'[p] = opening[p] /\ pc'[p] = "remap")
    BY <1>0, <1>1 DEF Look, Opened, Goto, Set, PcOK, OpeningOK
  <2> QED BY <1>a, <2>1
<1>2. CASE Remap(p)
  <2>1. opening'[p] = NotOpening
    BY <1>0, <1>2 DEF Remap, Opened, Set, OpeningOK
  <2> QED BY <1>a, <2>1
<1>3. CASE Sysmalloc(p)
  <2>1. (\E w \in {"dir"}, step \in Asked : \E x : Open(p, w, x, step))
    BY <1>3 DEF Sysmalloc, Asked
  <2>2. pc[p] \notin {"look", "remap"}
    BY <1>3 DEF Sysmalloc, At
  <2> QED BY <1>a, <1>b, <2>1, <2>2
<1>4. CASE Find(p)
  <2>1. (\E w \in {"dir", "table"}, step \in Asked : \E x : Open(p, w, x, step))
    BY <1>4 DEF Find, Asked
  <2>2. pc[p] \notin {"look", "remap"}
    BY <1>4 DEF Find, At
  <2> QED BY <1>a, <1>b, <2>1, <2>2
<1>5. CASE FindTable(p)
  <2>1. (\E w \in {"dir"}, step \in Asked : \E x : Open(p, w, x, step)) \/ opening' = opening
    BY <1>5 DEF FindTable, Return, Asked
  <2>2. pc[p] \notin {"look", "remap"}
    BY <1>5 DEF FindTable, At
  <2> QED BY <1>a, <1>b, <2>1, <2>2
<1>6. CASE MapDir(p)
  <2>1. (\E w \in {"table"}, step \in Asked : \E x : Open(p, w, x, step)) \/ opening' = opening
    BY <1>6 DEF MapDir, Asked
  <2>2. pc[p] \notin {"look", "remap"}
    BY <1>6 DEF MapDir, At
  <2> QED BY <1>a, <1>b, <2>1, <2>2
<1>7. CASE MapPage(p)
  BY <1>a, <1>7 DEF MapPage, At, locals, Return
<1>8. CASE Test(p)
  BY <1>a, <1>8 DEF Test, At, locals, Return
<1>9. CASE Load(p)
  BY <1>a, <1>9 DEF Load, At, locals, Return
<1>10. CASE Store(p)
  BY <1>a, <1>10 DEF Store, At, locals, Return
<1>11. CASE Temp(p)
  BY <1>a, <1>11 DEF Temp, At, locals, Return
<1>12. CASE Clear(p)
  BY <1>a, <1>12 DEF Clear, At, locals, Return
<1>13. CASE Link(p)
  <2>1. (\E w \in {"table"}, step \in Asked : \E x : Open(p, w, x, step))
    BY <1>13 DEF Link, Asked
  <2>2. pc[p] \notin {"look", "remap"}
    BY <1>13 DEF Link, At
  <2> QED BY <1>a, <1>b, <2>1, <2>2
<1>14. CASE Put(p)
  BY <1>a, <1>14 DEF Put, At, locals, Return
<1>15. CASE Fill(p)
  BY <1>a, <1>15 DEF Fill, At, locals, Return
<1>16. CASE Sysfree(p)
  <2>1. (\E w \in {"dir"}, step \in Asked : \E x : Open(p, w, x, step))
    BY <1>16 DEF Sysfree, Asked
  <2>2. pc[p] \notin {"look", "remap"}
    BY <1>16 DEF Sysfree, At
  <2> QED BY <1>a, <1>b, <2>1, <2>2
<1>17. CASE UnmapDir(p)
  <2>1. (\E w \in {"dir"}, step \in Asked : \E x : Open(p, w, x, step)) \/ opening' = opening
    BY <1>17 DEF UnmapDir, Asked
  <2>2. pc[p] \notin {"look", "remap"}
    BY <1>17 DEF UnmapDir, At
  <2> QED BY <1>a, <1>b, <2>1, <2>2
<1>18. CASE Unmap(p)
  BY <1>a, <1>18 DEF Unmap, At, locals, Return
<1>19. CASE FreeLoad(p)
  BY <1>a, <1>19 DEF FreeLoad, At, locals, Return
<1>20. CASE FreeStore(p)
  BY <1>a, <1>20 DEF FreeStore, At, locals, Return
<1>21. CASE Null(p)
  BY <1>a, <1>21 DEF Null, At, locals, Return
<1> QED BY <1>1, <1>2, <1>3, <1>4, <1>5, <1>6, <1>7, <1>8, <1>9, <1>10, <1>11,
           <1>12, <1>13, <1>14, <1>15, <1>16, <1>17, <1>18, <1>19, <1>20, <1>21 DEF Moves

\* Nothing is entered in the table of areas.
LEMMA SlotsQuiet ==
  ASSUME SlotsInv, NEW p \in Process, \A q \in Process \ {p} : Same(q),
         memory_allocations' = memory_allocations, held'[p] = held[p],
         InSlot(p)' => InSlot(p) /\ slot'[p] = slot[p]
  PROVE  SlotsInv'
<1>1. \A q \in Process : held'[q] = held[q]
  BY DEF Same
<1>2. \A q \in Process : InSlot(q)' => InSlot(q) /\ slot'[q] = slot[q]
  BY DEF Same, InSlot
<1>3. FreeFindsArea'
  BY <1>1 DEF SlotsInv, FreeFindsArea
<1> QED BY <1>2, <1>3 DEF SlotsInv

\* A step that takes no entry from another keeps the entries of the areas in order.
LEMMA SlotsNext ==
  ASSUME Types, OpenInv, SlotsInv, NEW p \in Process, Moves(p), "Slot" \notin mishaps'
  PROVE  SlotsInv'
<1>0. (\A q \in Process \ {p} : Same(q)) /\ PcOK /\ OpeningOK
  BY OthersSame, TypesAre
<1>a. pc[p] \notin {"look", "remap"} => opening[p].then = "idle"
  BY DEF OpenInv, NotOpening
<1>1. CASE Look(p)
  <2>1. /\ memory_allocations' = memory_allocations /\ held'[p] = held[p] /\ slot'[p] = slot[p]
        /\ pc[p] \in {"look", "remap"}
        /\ \/ pc'[p] = "remap" /\ opening'[p] = opening[p]
           \/ pc'[p] = opening[p].then
    BY <1>0, <1>1 DEF Look, Opened, Goto, Set, At, PcOK
  <2>2. InSlot(p)' => InSlot(p)
    BY <2>1 DEF InSlot
  <2> QED BY <1>0, <2>1, <2>2, SlotsQuiet
<1>2. CASE Remap(p)
  <2>1. /\ memory_allocations' = memory_allocations /\ held'[p] = held[p] /\ slot'[p] = slot[p]
        /\ pc[p] \in {"look", "remap"}
        /\ \/ pc'[p] = "remap" /\ opening'[p] = opening[p]
           \/ pc'[p] = opening[p].then
    BY <1>0, <1>2 DEF Remap, Opened, Goto, Set, At, PcOK
  <2>2. InSlot(p)' => InSlot(p)
    BY <2>1 DEF InSlot
  <2> QED BY <1>0, <2>1, <2>2, SlotsQuiet
<1>3. CASE Sysmalloc(p)
  <2>1. Min(FreeSlots) \in FreeSlots
    BY <1>3, LeastIs, Constants DEF Sysmalloc, FreeSlots
  <2>2. /\ memory_allocations' = memory_allocations /\ held' = held /\ slot'[p] = Min(FreeSlots)
        /\ \A q \in Process \ {p} : InSlot(q) => slot[q] # slot'[p]
    BY <1>3, TypesAre DEF Sysmalloc, shared, Set, SlotOK, Blame
  <2>3. \A q \in Process \ {p} : (InSlot(q)' <=> InSlot(q)) /\ slot'[q] = slot[q]
    BY <1>0 DEF Same, InSlot
  <2>4. FreeFindsArea'
    BY <2>2 DEF SlotsInv, FreeFindsArea
  <2>5. memory_allocations'[slot'[p]] = NoArea
    BY <2>1, <2>2 DEF FreeSlots
  <2> QED BY <2>2, <2>3, <2>4, <2>5 DEF SlotsInv
<1>4. CASE Find(p)
  <2>1. /\ memory_allocations' = memory_allocations /\ held' = held
        /\ InSlot(p)' => InSlot(p) /\ slot'[p] = slot[p]
    BY <1>0, <1>a, <1>4 DEF Find, At, Goto, Set, Got, shared, locals, InSlot, PcOK
  <2> QED BY <1>0, <2>1, SlotsQuiet
<1>5. CASE FindTable(p)
  <2>1. /\ memory_allocations' = memory_allocations /\ held' = held
        /\ InSlot(p)' => InSlot(p) /\ slot'[p] = slot[p]
    BY <1>0, <1>a, <1>5 DEF FindTable, Return, At, Goto, Set, Got, shared, locals, InSlot, PcOK
  <2> QED BY <1>0, <2>1, SlotsQuiet
<1>6. CASE MapDir(p)
  <2>1. /\ memory_allocations' = memory_allocations /\ held' = held
        /\ InSlot(p)' => InSlot(p) /\ slot'[p] = slot[p]
    BY <1>0, <1>a, <1>6 DEF MapDir, At, Goto, Set, Got, shared, locals, InSlot, PcOK
  <2> QED BY <1>0, <2>1, SlotsQuiet
<1>7. CASE MapPage(p)
  <2>1. /\ memory_allocations' = memory_allocations /\ held' = held
        /\ InSlot(p)' => InSlot(p) /\ slot'[p] = slot[p]
    BY <1>0, <1>a, <1>7 DEF MapPage, At, Goto, Set, Got, shared, locals, InSlot, PcOK
  <2> QED BY <1>0, <2>1, SlotsQuiet
<1>8. CASE Test(p)
  <2>1. /\ memory_allocations' = memory_allocations /\ held' = held
        /\ InSlot(p)' => InSlot(p) /\ slot'[p] = slot[p]
    BY <1>0, <1>a, <1>8 DEF Test, At, Goto, Set, Got, shared, locals, InSlot, PcOK
  <2> QED BY <1>0, <2>1, SlotsQuiet
<1>9. CASE Load(p)
  <2>1. /\ memory_allocations' = memory_allocations /\ held' = held
        /\ InSlot(p)' => InSlot(p) /\ slot'[p] = slot[p]
    BY <1>0, <1>a, <1>9 DEF Load, At, Goto, Set, Got, shared, locals, InSlot, PcOK
  <2> QED BY <1>0, <2>1, SlotsQuiet
<1>10. CASE Store(p)
  <2>1. /\ memory_allocations' = memory_allocations /\ held' = held
        /\ InSlot(p)' => InSlot(p) /\ slot'[p] = slot[p]
    BY <1>0, <1>a, <1>10 DEF Store, At, Goto, Set, Got, shared, locals, InSlot, PcOK
  <2> QED BY <1>0, <2>1, SlotsQuiet
<1>11. CASE Temp(p)
  <2>1. /\ memory_allocations' = memory_allocations /\ held' = held
        /\ InSlot(p)' => InSlot(p) /\ slot'[p] = slot[p]
    BY <1>0, <1>a, <1>11 DEF Temp, At, Goto, Set, Got, shared, locals, InSlot, PcOK
  <2> QED BY <1>0, <2>1, SlotsQuiet
<1>12. CASE Clear(p)
  <2>1. /\ memory_allocations' = memory_allocations /\ held' = held
        /\ InSlot(p)' => InSlot(p) /\ slot'[p] = slot[p]
    BY <1>0, <1>a, <1>12 DEF Clear, At, Goto, Set, Got, shared, locals, InSlot, PcOK
  <2> QED BY <1>0, <2>1, SlotsQuiet
<1>13. CASE Link(p)
  <2>1. /\ memory_allocations' = memory_allocations /\ held' = held
        /\ InSlot(p)' => InSlot(p) /\ slot'[p] = slot[p]
    BY <1>0, <1>a, <1>13 DEF Link, At, Goto, Set, Got, shared, locals, InSlot, PcOK
  <2> QED BY <1>0, <2>1, SlotsQuiet
<1>14. CASE Put(p)
  <2>1. /\ memory_allocations' = memory_allocations /\ held' = held
        /\ InSlot(p)' => InSlot(p) /\ slot'[p] = slot[p]
    BY <1>0, <1>a, <1>14 DEF Put, At, Goto, Set, Got, shared, locals, InSlot, PcOK
  <2> QED BY <1>0, <2>1, SlotsQuiet
<1>15. CASE Fill(p)
  <2>1. /\ slot[p] \in Slots /\ memory_allocations'[slot[p]] = [pid |-> p, pte |-> pte[p]]
        /\ \A k \in Slots \ {slot[p]} : memory_allocations'[k] = memory_allocations[k]
    BY <1>15, TypesAre DEF Fill, Set, AreasOK, SlotOK
  <2>2. held'[p] = held[p] \cup {pte[p]} /\ pc[p] = "fill" /\ pc'[p] = "idle"
    BY <1>15, TypesAre DEF Fill, At, Return, Goto, Set, HeldOK, PcOK
  <2>3. InSlot(p) /\ ~InSlot(p)'
    BY <1>a, <2>2 DEF InSlot
  <2>4. memory_allocations[slot[p]] = NoArea
    BY <2>3 DEF SlotsInv
  <2>5. \A q \in Process \ {p} : (InSlot(q)' <=> InSlot(q)) /\ slot'[q] = slot[q] /\ held'[q] = held[q]
    BY <1>0 DEF Same, InSlot
  <2>6. FreeFindsArea'
    <3> SUFFICES ASSUME NEW q \in Process, NEW i \in held'[q]
                 PROVE  \E k \in Slots : memory_allocations'[k] = [pid |-> q, pte |-> i]
      BY DEF FreeFindsArea
    <3>1. CASE q = p /\ i = pte[p]
      BY <2>1, <3>1
    <3>2. CASE i \in held[q]
      <4>1. PICK k \in Slots : memory_allocations[k] = [pid |-> q, pte |-> i]
        BY <3>2 DEF SlotsInv, FreeFindsArea
      <4>2. k # slot[p]
        BY <2>4, <4>1, Constants DEF NoArea, Unmapped
      <4> QED BY <2>1, <4>1, <4>2
    <3> QED BY <2>2, <2>5, <3>1, <3>2
  <2>7. \A q \in Process : InSlot(q)' => q # p /\ InSlot(q) /\ slot'[q] = slot[q] /\ slot[q] # slot[p]
    BY <2>3, <2>5 DEF SlotsInv
  <2>8. \A q \in Process : InSlot(q)' => memory_allocations'[slot'[q]] = NoArea
    BY <2>1, <2>7, TypesAre DEF SlotsInv, SlotOK
  <2> QED BY <2>6, <2>7, <2>8 DEF SlotsInv
<1>16. CASE Sysfree(p)
  <2>1. PICK i \in Slots : LET area == memory_allocations[i]
                             IN  /\ area.pid = p /\ area.pte \in held[p]
                                 /\ memory_allocations' = Set(memory_allocations, i, NoArea)
                                 /\ held' = Set(held, p, held[p] \ {area.pte})
    BY <1>16 DEF Sysfree
  <2>2. /\ memory_allocations'[i] = NoArea
        /\ \A k \in Slots \ {i} : memory_allocations'[k] = memory_allocations[k]
    BY <2>1, TypesAre DEF Set, AreasOK
  <2>3. held'[p] = held[p] \ {memory_allocations[i].pte}
    BY <2>1, TypesAre DEF Set, HeldOK
  <2>4. ~InSlot(p)'
    <3>1. Open(p, "dir", p, "unmap dir")
      BY <1>16 DEF Sysfree
    <3>2. opening'[p].then = "unmap dir"
      BY <3>1, OpenDoes
    <3> QED BY <3>2 DEF InSlot
  <2>5. \A q \in Process \ {p} : (InSlot(q)' <=> InSlot(q)) /\ slot'[q] = slot[q] /\ held'[q] = held[q]
    BY <1>0 DEF Same, InSlot
  <2>6. FreeFindsArea'
    <3> SUFFICES ASSUME NEW q \in Process, NEW j \in held'[q]
                 PROVE  \E k \in Slots : memory_allocations'[k] = [pid |-> q, pte |-> j]
      BY DEF FreeFindsArea
    <3>1. j \in held[q] /\ ~(q = p /\ j = memory_allocations[i].pte)
      BY <2>3, <2>5
    <3>2. PICK k \in Slots : memory_allocations[k] = [pid |-> q, pte |-> j]
      BY <3>1 DEF SlotsInv, FreeFindsArea
    <3>3. memory_allocations[k].pid = q /\ memory_allocations[k].pte = j
      BY <3>2
    <3>4. k # i
      BY <2>1, <3>1, <3>3
    <3> QED BY <2>2, <3>2, <3>4
  <2>7. \A q \in Process : InSlot(q)' => q # p /\ InSlot(q) /\ slot'[q] = slot[q]
    BY <2>4, <2>5
  <2>8. \A q \in Process : InSlot(q)' => memory_allocations'[slot'[q]] = NoArea
    BY <2>2, <2>7, TypesAre DEF SlotsInv, SlotOK
  <2> QED BY <2>6, <2>7, <2>8 DEF SlotsInv
<1>17. CASE UnmapDir(p)
  <2>1. /\ memory_allocations' = memory_allocations /\ held'[p] = held[p]
        /\ pc[p] = "unmap dir" /\ ((pc' = pc /\ opening' = opening) \/ \E x : Open(p, "dir", x, "unmap"))
    BY <1>17 DEF UnmapDir, At, shared
  <2>2. ~InSlot(p)'
    <3>1. CASE pc' = pc
      BY <2>1, <3>1 DEF InSlot
    <3>2. CASE \E x : Open(p, "dir", x, "unmap")
      <4>1. PICK x : Open(p, "dir", x, "unmap")
        BY <3>2
      <4>2. opening'[p].then = "unmap"
        BY <4>1, OpenDoes
      <4> QED BY <4>2 DEF InSlot
    <3> QED BY <2>1, <3>1, <3>2
  <2> QED BY <1>0, <2>1, <2>2, SlotsQuiet
<1>18. CASE Unmap(p)
  <2>1. /\ memory_allocations' = memory_allocations /\ held' = held
        /\ InSlot(p)' => InSlot(p) /\ slot'[p] = slot[p]
    BY <1>0, <1>a, <1>18 DEF Unmap, At, Goto, Set, Got, shared, locals, InSlot, PcOK
  <2> QED BY <1>0, <2>1, SlotsQuiet
<1>19. CASE FreeLoad(p)
  <2>1. /\ memory_allocations' = memory_allocations /\ held' = held
        /\ InSlot(p)' => InSlot(p) /\ slot'[p] = slot[p]
    BY <1>0, <1>a, <1>19 DEF FreeLoad, At, Goto, Set, Got, shared, locals, InSlot, PcOK
  <2> QED BY <1>0, <2>1, SlotsQuiet
<1>20. CASE FreeStore(p)
  <2>1. /\ memory_allocations' = memory_allocations /\ held' = held
        /\ InSlot(p)' => InSlot(p) /\ slot'[p] = slot[p]
    BY <1>0, <1>a, <1>20 DEF FreeStore, At, Goto, Set, Got, shared, locals, InSlot, PcOK
  <2> QED BY <1>0, <2>1, SlotsQuiet
<1>21. CASE Null(p)
  <2>1. /\ memory_allocations' = memory_allocations /\ held' = held
        /\ InSlot(p)' => InSlot(p) /\ slot'[p] = slot[p]
    BY <1>0, <1>a, <1>21 DEF Null, Return, At, Goto, Set, Got, shared, locals, InSlot, PcOK
  <2> QED BY <1>0, <2>1, SlotsQuiet
<1> QED BY <1>1, <1>2, <1>3, <1>4, <1>5, <1>6, <1>7, <1>8, <1>9, <1>10, <1>11,
           <1>12, <1>13, <1>14, <1>15, <1>16, <1>17, <1>18, <1>19, <1>20, <1>21 DEF Moves

\* No window is asked for or moved.
LEMMA RemapQuiet ==
  ASSUME RemapInv, OpenInv, NEW p \in Process, \A q \in Process \ {p} : Same(q),
         pc[p] # "remap", pc'[p] # "remap", active_phys_page' = active_phys_page,
         \A w \in Windows \ {"temp"} : window'[w] = window[w]
  PROVE  RemapInv'
<1>1. \A q \in Process, w \in Windows :
         pc'[q] = "remap" /\ opening'[q].window = w <=> pc[q] = "remap" /\ opening[q].window = w
  BY DEF Same
<1>2. \A q \in Process : pc'[q] = "remap" => opening'[q] = opening[q]
  BY DEF Same
<1>3. WindowsLeadThere'
  <2> SUFFICES ASSUME NEW w \in Windows \ {"temp"}
               PROVE  \/ active_phys_page'[w] \in {Unmapped, window'[w]}
                      \/ \E q \in Process : pc'[q] = "remap" /\ opening'[q].window = w
    BY DEF WindowsLeadThere
  <2>1. \/ active_phys_page[w] \in {Unmapped, window[w]}
        \/ \E q \in Process : pc[q] = "remap" /\ opening[q].window = w
    BY DEF RemapInv, WindowsLeadThere
  <2> QED BY <1>1, <2>1
<1> QED BY <1>1, <1>2, <1>3 DEF RemapInv

\* A step that takes no window from another keeps the windows where they lead.
LEMMA RemapNext ==
  ASSUME Types, OpenInv, RemapInv, NEW p \in Process, Moves(p), "Window" \notin mishaps'
  PROVE  RemapInv'
<1>0. (\A q \in Process \ {p} : Same(q)) /\ PcOK /\ OpeningOK /\ WindowOK /\ ActiveOK
  BY OthersSame, TypesAre
<1> DEFINE W == opening[p].window
<1>w. W \in Windows \ {"temp"}
  BY <1>0 DEF OpeningOK, OpenInv
<1>1. CASE Look(p)
  <2>1. pc[p] = "look" /\ window' = window
    BY <1>1 DEF Look, At
  <2>2. CASE Remembered(W, opening[p].page)
    <3>1. active_phys_page' = active_phys_page /\ Opened(p)
      BY <1>1, <2>2 DEF Look
    <3>2. pc'[p] # "remap"
      BY <1>0, <3>1 DEF Opened, Goto, PcOK, OpenInv
    <3> QED BY <1>0, <2>1, <3>1, <3>2, RemapQuiet
  <2>3. CASE ~Remembered(W, opening[p].page)
    <3>1. /\ pc'[p] = "remap" /\ opening'[p] = opening[p] /\ active_phys_page'[W] = opening[p].page
          /\ \A w \in Windows \ {W} : active_phys_page'[w] = active_phys_page[w]
          /\ \A q \in Process \ {p} : ~Uses(q, W)
      BY <1>0, <1>1, <1>w, <2>3 DEF Look, Goto, Set, PcOK, ActiveOK, Blame
    <3>2. \A q \in Process \ {p} : /\ pc'[q] = pc[q] /\ opening'[q] = opening[q]
                                   /\ ~(pc[q] = "remap" /\ opening[q].window = W)
      BY <1>0, <3>1 DEF Same, Uses
    <3>3. ASSUME NEW q \in Process, NEW w \in Windows, pc'[q] = "remap", opening'[q].window = w
          PROVE  /\ active_phys_page'[w] = opening'[q].page
                 /\ \A r \in Process \ {q} : ~(pc'[r] = "remap" /\ opening'[r].window = w)
      <4>1. CASE q = p
        BY <3>1, <3>2, <3>3, <4>1
      <4>2. CASE q # p
        <5>1. pc[q] = "remap" /\ opening[q].window = w /\ opening'[q] = opening[q] /\ w # W
          BY <3>2, <3>3, <4>2
        <5>2. /\ active_phys_page[w] = opening[q].page
              /\ \A r \in Process \ {q} : ~(pc[r] = "remap" /\ opening[r].window = w)
          BY <5>1 DEF RemapInv
        <5> QED BY <3>1, <3>2, <5>1, <5>2
      <4> QED BY <4>1, <4>2
    <3>4. WindowsLeadThere'
      <4> SUFFICES ASSUME NEW w \in Windows \ {"temp"}
                   PROVE  \/ active_phys_page'[w] \in {Unmapped, window'[w]}
                          \/ \E q \in Process : pc'[q] = "remap" /\ opening'[q].window = w
        BY DEF WindowsLeadThere
      <4>1. CASE w = W
        BY <3>1, <4>1
      <4>2. CASE w # W
        <5>1. \/ active_phys_page[w] \in {Unmapped, window[w]}
              \/ \E q \in Process : pc[q] = "remap" /\ opening[q].window = w
          BY DEF RemapInv, WindowsLeadThere
        <5> QED BY <2>1, <3>1, <3>2, <4>2, <5>1
      <4> QED BY <4>1, <4>2
    <3> QED BY <3>3, <3>4 DEF RemapInv
  <2> QED BY <2>2, <2>3
<1>2. CASE Remap(p)
  <2>1. /\ pc[p] = "remap" /\ active_phys_page' = active_phys_page /\ pc'[p] = opening[p].then
        /\ window'[W] = opening[p].page /\ \A w \in Windows \ {W} : window'[w] = window[w]
    BY <1>0, <1>2, <1>w DEF Remap, At, Opened, WindowOpened, Goto, Set, PcOK, WindowOK
  <2>2. /\ active_phys_page[W] = opening[p].page
        /\ \A q \in Process \ {p} : ~(pc[q] = "remap" /\ opening[q].window = W)
    BY <1>w, <2>1 DEF RemapInv
  <2>3. \A q \in Process \ {p} : pc'[q] = pc[q] /\ opening'[q] = opening[q]
    BY <1>0 DEF Same
  <2>4. pc'[p] # "remap"
    BY <2>1 DEF OpenInv
  <2>5. ASSUME NEW q \in Process, NEW w \in Windows, pc'[q] = "remap", opening'[q].window = w
        PROVE  /\ active_phys_page'[w] = opening'[q].page
               /\ \A r \in Process \ {q} : ~(pc'[r] = "remap" /\ opening'[r].window = w)
    <3>1. q # p /\ pc[q] = "remap" /\ opening[q].window = w /\ opening'[q] = opening[q]
      BY <2>3, <2>4, <2>5
    <3>2. /\ active_phys_page[w] = opening[q].page
          /\ \A r \in Process \ {q} : ~(pc[r] = "remap" /\ opening[r].window = w)
      BY <3>1 DEF RemapInv
    <3> QED BY <2>1, <2>3, <2>4, <3>1, <3>2
  <2>6. WindowsLeadThere'
    <3> SUFFICES ASSUME NEW w \in Windows \ {"temp"}
                 PROVE  \/ active_phys_page'[w] \in {Unmapped, window'[w]}
                        \/ \E q \in Process : pc'[q] = "remap" /\ opening'[q].window = w
      BY DEF WindowsLeadThere
    <3>1. CASE w = W
      BY <2>1, <2>2, <3>1
    <3>2. CASE w # W
      <4>1. \/ active_phys_page[w] \in {Unmapped, window[w]}
            \/ \E q \in Process : pc[q] = "remap" /\ opening[q].window = w
        BY DEF RemapInv, WindowsLeadThere
      <4> QED BY <2>1, <2>3, <3>2, <4>1
    <3> QED BY <3>1, <3>2
  <2> QED BY <2>5, <2>6 DEF RemapInv
<1>3. CASE Sysmalloc(p)
  <2>1. /\ pc[p] # "remap" /\ pc'[p] # "remap" /\ active_phys_page' = active_phys_page
        /\ \A w \in Windows \ {"temp"} : window'[w] = window[w]
    BY <1>0, <1>3 DEF Sysmalloc, Open, At, Goto, Set, shared, locals, PcOK
  <2> QED BY <1>0, <2>1, RemapQuiet
<1>4. CASE Find(p)
  <2>1. /\ pc[p] # "remap" /\ pc'[p] # "remap" /\ active_phys_page' = active_phys_page
        /\ \A w \in Windows \ {"temp"} : window'[w] = window[w]
    BY <1>0, <1>4 DEF Find, Open, At, Goto, Set, shared, locals, PcOK
  <2> QED BY <1>0, <2>1, RemapQuiet
<1>5. CASE FindTable(p)
  <2>1. /\ pc[p] # "remap" /\ pc'[p] # "remap" /\ active_phys_page' = active_phys_page
        /\ \A w \in Windows \ {"temp"} : window'[w] = window[w]
    BY <1>0, <1>5 DEF FindTable, Open, Return, At, Goto, Set, shared, locals, PcOK
  <2> QED BY <1>0, <2>1, RemapQuiet
<1>6. CASE MapDir(p)
  <2>1. /\ pc[p] # "remap" /\ pc'[p] # "remap" /\ active_phys_page' = active_phys_page
        /\ \A w \in Windows \ {"temp"} : window'[w] = window[w]
    BY <1>0, <1>6 DEF MapDir, Open, At, Goto, Set, shared, locals, PcOK
  <2> QED BY <1>0, <2>1, RemapQuiet
<1>7. CASE MapPage(p)
  <2>1. /\ pc[p] # "remap" /\ pc'[p] # "remap" /\ active_phys_page' = active_phys_page
        /\ \A w \in Windows \ {"temp"} : window'[w] = window[w]
    BY <1>0, <1>7 DEF MapPage, At, Goto, Set, shared, locals, PcOK
  <2> QED BY <1>0, <2>1, RemapQuiet
<1>8. CASE Test(p)
  <2>1. /\ pc[p] # "remap" /\ pc'[p] # "remap" /\ active_phys_page' = active_phys_page
        /\ \A w \in Windows \ {"temp"} : window'[w] = window[w]
    BY <1>0, <1>8 DEF Test, At, Goto, Set, shared, locals, PcOK
  <2> QED BY <1>0, <2>1, RemapQuiet
<1>9. CASE Load(p)
  <2>1. /\ pc[p] # "remap" /\ pc'[p] # "remap" /\ active_phys_page' = active_phys_page
        /\ \A w \in Windows \ {"temp"} : window'[w] = window[w]
    BY <1>0, <1>9 DEF Load, Got, At, Goto, Set, shared, locals, PcOK
  <2> QED BY <1>0, <2>1, RemapQuiet
<1>10. CASE Store(p)
  <2>1. /\ pc[p] # "remap" /\ pc'[p] # "remap" /\ active_phys_page' = active_phys_page
        /\ \A w \in Windows \ {"temp"} : window'[w] = window[w]
    BY <1>0, <1>10 DEF Store, Got, At, Goto, Set, shared, locals, PcOK
  <2> QED BY <1>0, <2>1, RemapQuiet
<1>11. CASE Temp(p)
  <2>1. /\ pc[p] # "remap" /\ pc'[p] # "remap" /\ active_phys_page' = active_phys_page
        /\ \A w \in Windows \ {"temp"} : window'[w] = window[w]
    BY <1>0, <1>11 DEF Temp, At, Goto, Set, shared, locals, PcOK, WindowOK
  <2> QED BY <1>0, <2>1, RemapQuiet
<1>12. CASE Clear(p)
  <2>1. /\ pc[p] # "remap" /\ pc'[p] # "remap" /\ active_phys_page' = active_phys_page
        /\ \A w \in Windows \ {"temp"} : window'[w] = window[w]
    BY <1>0, <1>12 DEF Clear, At, Goto, Set, shared, locals, PcOK, WindowOK
  <2> QED BY <1>0, <2>1, RemapQuiet
<1>13. CASE Link(p)
  <2>1. /\ pc[p] # "remap" /\ pc'[p] # "remap" /\ active_phys_page' = active_phys_page
        /\ \A w \in Windows \ {"temp"} : window'[w] = window[w]
    BY <1>0, <1>13 DEF Link, Open, At, Goto, Set, shared, locals, PcOK
  <2> QED BY <1>0, <2>1, RemapQuiet
<1>14. CASE Put(p)
  <2>1. /\ pc[p] # "remap" /\ pc'[p] # "remap" /\ active_phys_page' = active_phys_page
        /\ \A w \in Windows \ {"temp"} : window'[w] = window[w]
    BY <1>0, <1>14 DEF Put, At, Goto, Set, shared, locals, PcOK
  <2> QED BY <1>0, <2>1, RemapQuiet
<1>15. CASE Fill(p)
  <2>1. /\ pc[p] # "remap" /\ pc'[p] # "remap" /\ active_phys_page' = active_phys_page
        /\ \A w \in Windows \ {"temp"} : window'[w] = window[w]
    BY <1>0, <1>15 DEF Fill, Return, At, Goto, Set, shared, locals, PcOK
  <2> QED BY <1>0, <2>1, RemapQuiet
<1>16. CASE Sysfree(p)
  <2>1. /\ pc[p] # "remap" /\ pc'[p] # "remap" /\ active_phys_page' = active_phys_page
        /\ \A w \in Windows \ {"temp"} : window'[w] = window[w]
    BY <1>0, <1>16 DEF Sysfree, Open, At, Goto, Set, shared, locals, PcOK
  <2> QED BY <1>0, <2>1, RemapQuiet
<1>17. CASE UnmapDir(p)
  <2>1. /\ pc[p] # "remap" /\ pc'[p] # "remap" /\ active_phys_page' = active_phys_page
        /\ \A w \in Windows \ {"temp"} : window'[w] = window[w]
    BY <1>0, <1>17 DEF UnmapDir, Open, At, Goto, Set, shared, locals, PcOK
  <2> QED BY <1>0, <2>1, RemapQuiet
<1>18. CASE Unmap(p)
  <2>1. /\ pc[p] # "remap" /\ pc'[p] # "remap" /\ active_phys_page' = active_phys_page
        /\ \A w \in Windows \ {"temp"} : window'[w] = window[w]
    BY <1>0, <1>18 DEF Unmap, At, Goto, Set, shared, locals, PcOK
  <2> QED BY <1>0, <2>1, RemapQuiet
<1>19. CASE FreeLoad(p)
  <2>1. /\ pc[p] # "remap" /\ pc'[p] # "remap" /\ active_phys_page' = active_phys_page
        /\ \A w \in Windows \ {"temp"} : window'[w] = window[w]
    BY <1>0, <1>19 DEF FreeLoad, At, Goto, Set, shared, locals, PcOK
  <2> QED BY <1>0, <2>1, RemapQuiet
<1>20. CASE FreeStore(p)
  <2>1. /\ pc[p] # "remap" /\ pc'[p] # "remap" /\ active_phys_page' = active_phys_page
        /\ \A w \in Windows \ {"temp"} : window'[w] = window[w]
    BY <1>0, <1>20 DEF FreeStore, At, Goto, Set, shared, locals, PcOK
  <2> QED BY <1>0, <2>1, RemapQuiet
<1>21. CASE Null(p)
  <2>1. /\ pc[p] # "remap" /\ pc'[p] # "remap" /\ active_phys_page' = active_phys_page
        /\ \A w \in Windows \ {"temp"} : window'[w] = window[w]
    BY <1>0, <1>21 DEF Null, Return, At, Goto, Set, shared, locals, PcOK
  <2> QED BY <1>0, <2>1, RemapQuiet
<1> QED BY <1>1, <1>2, <1>3, <1>4, <1>5, <1>6, <1>7, <1>8, <1>9, <1>10, <1>11,
           <1>12, <1>13, <1>14, <1>15, <1>16, <1>17, <1>18, <1>19, <1>20, <1>21 DEF Moves

-----------------------------------------------------------------------------
(* The theorems.                                                           *)

\* Windows and entries begin in order,
LEMMA RestInit == WindowInit => OpenInv /\ SlotsInv /\ RemapInv
<1> SUFFICES ASSUME WindowInit PROVE OpenInv /\ SlotsInv /\ RemapInv
  OBVIOUS
<1>1. \A p \in Process : pc[p] = "idle" /\ opening[p] = NotOpening /\ held[p] = {}
  BY DEF WindowInit
<1>2. OpenInv
  BY <1>1 DEF OpenInv, NotOpening
<1>3. SlotsInv
  BY <1>1 DEF SlotsInv, FreeFindsArea, InSlot
<1>4. RemapInv
  BY <1>1 DEF RemapInv, WindowsLeadThere, WindowInit
<1> QED BY <1>2, <1>3, <1>4

\* and stay so when nothing happens.
LEMMA RestStutter ==
  ASSUME UNCHANGED windowVars
  PROVE  OpenInv' = OpenInv /\ SlotsInv' = SlotsInv /\ RemapInv' = RemapInv
<1>1. /\ window' = window /\ active_phys_page' = active_phys_page /\ memory_allocations' = memory_allocations
      /\ pc' = pc /\ opening' = opening /\ slot' = slot /\ held' = held
  BY DEF windowVars, shared, locals
<1>2. OpenInv' = OpenInv
  BY <1>1 DEF OpenInv
<1>3. SlotsInv' = SlotsInv
  BY <1>1 DEF SlotsInv, FreeFindsArea, InSlot
<1>4. RemapInv' = RemapInv
  BY <1>1 DEF RemapInv, WindowsLeadThere
<1> QED BY <1>2, <1>3, <1>4

\* A step is one of a call, and meets no mishap that is not allowed.
LEMMA StepIs ==
  ASSUME LockedNext
  PROVE  \E p \in Process : Moves(p) /\ mishaps' \subseteq Unlocked
  BY DEF LockedNext, WindowNext, Moves

\* The types hold whatever comes into the middle of what.
LEMMA TypesAlways == WindowSpec => [](Types /\ OpenInv)
<1>1. WindowInit => Types /\ OpenInv
  BY TypesInit, RestInit
<1>2. Types /\ OpenInv /\ [LockedNext]_windowVars => (Types /\ OpenInv)'
  <2> SUFFICES ASSUME Types, OpenInv, [LockedNext]_windowVars PROVE Types' /\ OpenInv'
    OBVIOUS
  <2>1. CASE LockedNext
    BY <2>1, StepIs, TypesNext, OpenNext
  <2>2. CASE UNCHANGED windowVars
    BY <2>2, TypesStutter, RestStutter
  <2> QED BY <2>1, <2>2
<1> QED BY <1>1, <1>2, PTL DEF WindowSpec

\* The windows, the pages and the areas are of their types, whatever comes into the middle
\* of what.
THEOREM WindowTypes == WindowSpec => []WindowTypeOK
<1>1. Types => WindowTypeOK
  BY DEF Types
<1> QED BY <1>1, TypesAlways, PTL

\* As long as no call takes a window from another that uses it, a window that is remembered
\* to lead to a page leads there, whatever happens to the bitmap and to the areas.
THEOREM WindowsAreRemembered ==
  ASSUME "Window" \notin Unlocked
  PROVE  WindowSpec => []WindowsLeadThere
<1>1. WindowInit => RemapInv
  BY RestInit
<1>2. Types /\ OpenInv /\ RemapInv /\ [LockedNext]_windowVars => RemapInv'
  <2> SUFFICES ASSUME Types, OpenInv, RemapInv, [LockedNext]_windowVars PROVE RemapInv'
    OBVIOUS
  <2>1. CASE LockedNext
    BY <2>1, StepIs, RemapNext
  <2>2. CASE UNCHANGED windowVars
    BY <2>2, RestStutter
  <2> QED BY <2>1, <2>2
<1>3. RemapInv => WindowsLeadThere
  BY DEF RemapInv
<1> QED BY <1>1, <1>2, <1>3, TypesAlways, PTL DEF WindowSpec

\* As long as no call takes a window or a word of the bitmap from another, each process
\* that is in no call reaches the pages it holds and no other does, and no page is lost.
THEOREM PagesStayOwn ==
  ASSUME "Window" \notin Unlocked, "Bitmap" \notin Unlocked
  PROVE  WindowSpec => []PagesAreOwn
<1>1. WindowInit => PagesInv
  BY PagesInit
<1>2. Types /\ PagesInv /\ [LockedNext]_windowVars => PagesInv'
  <2> SUFFICES ASSUME Types, PagesInv, [LockedNext]_windowVars PROVE PagesInv'
    OBVIOUS
  <2>1. CASE LockedNext
    BY <2>1, StepIs, PagesNext
  <2>2. CASE UNCHANGED windowVars
    BY <2>2, PagesStutter
  <2> QED BY <2>1, <2>2
<1>3. Types /\ PagesInv => PagesAreOwn
  BY PagesAreTheirOwn
<1> QED BY <1>1, <1>2, <1>3, TypesAlways, PTL DEF WindowSpec

\* As long as no two calls choose the same entry of the table of areas, free() finds every
\* area that its process holds.
THEOREM FreeFindsEach ==
  ASSUME "Slot" \notin Unlocked
  PROVE  WindowSpec => []FreeFindsArea
<1>1. WindowInit => SlotsInv
  BY RestInit
<1>2. Types /\ OpenInv /\ SlotsInv /\ [LockedNext]_windowVars => SlotsInv'
  <2> SUFFICES ASSUME Types, OpenInv, SlotsInv, [LockedNext]_windowVars PROVE SlotsInv'
    OBVIOUS
  <2>1. CASE LockedNext
    BY <2>1, StepIs, SlotsNext
  <2>2. CASE UNCHANGED windowVars
    BY <2>2, RestStutter
  <2> QED BY <2>1, <2>2
<1>3. SlotsInv => FreeFindsArea
  BY DEF SlotsInv
<1> QED BY <1>1, <1>2, <1>3, TypesAlways, PTL DEF WindowSpec

\* With a lock around each of them, all three hold.
THEOREM WindowsStayInOrder == ASSUME Unlocked = {} PROVE WindowSpec => []WindowsServe
<1>1. WindowSpec => []WindowsLeadThere /\ []PagesAreOwn /\ []FreeFindsArea
  BY WindowsAreRemembered, PagesStayOwn, FreeFindsEach
<1>2. WindowsLeadThere /\ PagesAreOwn /\ FreeFindsArea => WindowsServe
  BY DEF WindowsServe
<1> QED BY <1>1, <1>2, PTL

\* A call comes into the middle of none when there is no other.
LEMMA AloneMeetsNone ==
  ASSUME mishaps = {}, NEW p \in Process, Process = {p}, Moves(p)
  PROVE  mishaps' = {}
<1>2. Process \ {p} = {}
  OBVIOUS
<1>3. \A w, what : Blame(\E q \in Process \ {p} : Uses(q, w), what) => mishaps' = {}
  BY <1>2 DEF Blame
<1>4. \A what : Blame(\E q \in Process \ {p} : InBitmap(q), what) => mishaps' = {}
  BY <1>2 DEF Blame
<1>5. \A i, what : Blame(\E q \in Process \ {p} : InSlot(q) /\ slot[q] = i, what) => mishaps' = {}
  BY <1>2 DEF Blame
<1>6. Look(p) => mishaps' = {}
  BY <1>3 DEF Look
<1>7. Sysmalloc(p) => mishaps' = {}
  BY <1>5 DEF Sysmalloc
<1>8. Load(p) \/ FreeLoad(p) => mishaps' = {}
  BY <1>4 DEF Load, FreeLoad
<1>9. Temp(p) => mishaps' = {}
  BY <1>3 DEF Temp
<1>10. Remap(p) => mishaps' = mishaps
  BY DEF Remap
<1>11. Find(p) => mishaps' = mishaps
  BY DEF Find
<1>12. FindTable(p) => mishaps' = mishaps
  BY DEF FindTable
<1>13. MapDir(p) => mishaps' = mishaps
  BY DEF MapDir
<1>14. MapPage(p) => mishaps' = mishaps
  BY DEF MapPage
<1>15. Test(p) => mishaps' = {}
  BY <1>4 DEF Test
<1>16. Store(p) => mishaps' = mishaps
  BY DEF Store
<1>17. Clear(p) => mishaps' = mishaps
  BY DEF Clear
<1>18. Link(p) => mishaps' = mishaps
  BY DEF Link
<1>19. Put(p) => mishaps' = mishaps
  BY DEF Put
<1>20. Fill(p) => mishaps' = mishaps
  BY DEF Fill
<1>21. Sysfree(p) => mishaps' = mishaps
  BY DEF Sysfree
<1>22. UnmapDir(p) => mishaps' = mishaps
  BY DEF UnmapDir
<1>23. Unmap(p) => mishaps' = mishaps
  BY DEF Unmap
<1>24. FreeStore(p) => mishaps' = mishaps
  BY DEF FreeStore
<1>25. Null(p) => mishaps' = mishaps
  BY DEF Null
<1> QED BY <1>6, <1>7, <1>8, <1>9, <1>10, <1>11, <1>12, <1>13, <1>14, <1>15,
           <1>16, <1>17, <1>18, <1>19, <1>20, <1>21, <1>22, <1>23, <1>24, <1>25 DEF Moves

\* A process that is alone needs no lock: its windows, pages and areas stay in order.
THEOREM AloneInOrder ==
  ASSUME NEW p, Process = {p}
  PROVE  WindowSpec => []WindowsServe
<1> DEFINE Inv == mishaps = {} /\ RemapInv /\ PagesInv /\ SlotsInv
<1>1. WindowInit => Inv
  BY RestInit, PagesInit DEF WindowInit
<1>2. Types /\ OpenInv /\ Inv /\ [LockedNext]_windowVars => Inv'
  <2> SUFFICES ASSUME Types, OpenInv, Inv, [LockedNext]_windowVars PROVE Inv'
    OBVIOUS
  <2>1. CASE LockedNext
    <3>1. Moves(p)
      BY <2>1, StepIs
    <3>2. mishaps' = {}
      BY <3>1, AloneMeetsNone
    <3> QED BY <3>1, <3>2, PagesNext, SlotsNext, RemapNext
  <2>2. CASE UNCHANGED windowVars
    BY <2>2, RestStutter, PagesStutter DEF windowVars
  <2> QED BY <2>1, <2>2
<1>3. Types /\ Inv => WindowsServe
  BY PagesAreTheirOwn DEF WindowsServe, RemapInv, SlotsInv
<1> QED BY <1>1, <1>2, <1>3, TypesAlways, PTL DEF WindowSpec
=============================================================================
