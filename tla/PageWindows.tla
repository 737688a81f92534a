---------------------------- MODULE PageWindows ----------------------------
(***************************************************************************)
(* malloc() and free() of a page by processes that preempt each other      *)
(* (src/src/memory/malloc.c, memory.c).  The kernel reaches the directories *)
(* and tables of the processes through one page of its own for each kind,  *)
(* a window, of which it remembers where it leads; these, the bitmap of    *)
(* the physical pages and the table of areas are shared without a lock.    *)
(***************************************************************************)
EXTENDS Integers, FiniteSets, FiniteSetsExt

CONSTANTS
    Process,            \* numbers 1..n; the page directory of p is page p
    LastPage,           \* the last page; those behind the directories are free
    MaxAllocations,     \* MAX_ALLOCATIONS
    PeCount,            \* MEMORY_PE_COUNT, of a table; a directory has one entry here
    Unlocked            \* what calls may come into the middle of: see WindowSpec

ASSUME WindowAssumption ==
    /\ Cardinality(Process) \in 0..LastPage /\ Process = 1..Cardinality(Process)
    /\ LastPage \in Nat /\ MaxAllocations \in Nat \ {0} /\ PeCount \in Nat \ {0}
    /\ Unlocked \subseteq {"Window", "Bitmap", "Slot"}

Unmapped == 0           \* as where a window leads, the page of the kernel's image it is itself
Frames   == 1..LastPage
Windows  == {"dir", "table", "temp"} \* TEMPORARY_PAGE_DIRECTORY, _TABLE, TEMP_PAGES_START
Ptes     == 0..(PeCount - 1)
Empty    == [pte \in Ptes |-> Unmapped]
Slots    == 0..(MaxAllocations - 1)
NoArea   == [pid |-> 0, pte |-> 0]

VARIABLES
    alloced,            \* phys_pages_alloced, the pages in use
    contents,           \* of the pages that are directories and tables
    window,             \* the page each window leads to
    active_phys_page,   \* the page that the first two are remembered to lead to
    memory_allocations,
    panic,
    pc,
    opening,            \* the window that temp_page_directory_or_table() opens, and for what
    slot, pte, page, word, purpose, \* the local variables of each call
    held,               \* history: the pages each process has been given and not freed
    mishaps             \* history: see Look, Test, Sysmalloc

shared     == <<alloced, contents, window, active_phys_page, memory_allocations>>
locals     == <<opening, slot, pte, page, word, purpose>>
windowVars == <<shared, panic, pc, locals, held, mishaps>>

Goto(p, step)    == pc' = [pc EXCEPT ![p] = step]
Set(v, p, x)     == [v EXCEPT ![p] = x]
Blame(who, what) == mishaps' = IF who THEN mishaps \cup {what} ELSE mishaps

Open(p, w, phys_page, then) ==
    /\ opening' = Set(opening, p, [window |-> w, page |-> phys_page, then |-> then])
    /\ Goto(p, "look")

NotOpening == [window |-> "dir", page |-> Unmapped, then |-> "idle"]
Opened(p)  == opening' = Set(opening, p, NotOpening) /\ Goto(p, opening[p].then)

\* A call ends, and its local variables with it.
Return(p) ==
    /\ slot' = Set(slot, p, 0) /\ pte' = Set(pte, p, 0) /\ page' = Set(page, p, Unmapped)
    /\ purpose' = Set(purpose, p, "page") /\ Goto(p, "idle") /\ UNCHANGED <<opening, word>>

At(p, step) == pc[p] = step /\ ~panic

\* A call of p is in front of its last use of window w.
Uses(p, w) ==
    \/ pc[p] = "remap" /\ opening[p].window = w
    \/ pc[p] \in (CASE w = "dir"   -> {"find", "map dir", "temp", "clear", "link", "unmap dir", "unmap",
                                       "free load", "free store", "null"}
                    [] w = "table" -> {"find table", "map page", "put"}
                    [] w = "temp"  -> {"clear"})
    \/ pc[p] \in {"test", "load", "store"} /\ w = IF purpose[p] = "table" THEN "dir" ELSE "table"

InBitmap(p) == pc[p] \in {"load", "store", "free store"}
InSlot(p)   == pc[p] \notin {"idle", "unmap dir", "unmap", "free load", "free store", "null"}
               /\ opening[p].then \notin {"unmap dir", "unmap"}

-----------------------------------------------------------------------------
(* temp_page_directory_or_table().                                         *)

Remembered(w, phys_page) == active_phys_page[w] = phys_page

\* The window is taken from a call that goes on using it ("Window").
Look(p) ==
    /\ At(p, "look")
    /\ LET o == opening[p]
       IN  \/ /\ Remembered(o.window, o.page) /\ Opened(p)
              /\ UNCHANGED <<active_phys_page, mishaps>>
           \/ /\ ~Remembered(o.window, o.page) /\ Goto(p, "remap") /\ UNCHANGED opening
              /\ active_phys_page' = Set(active_phys_page, o.window, o.page)
              /\ Blame(\E q \in Process \ {p} : Uses(q, o.window), "Window")
    /\ UNCHANGED <<alloced, contents, window, memory_allocations, panic, slot, pte, page, word, purpose,
                   held>>

\* Mutant: the windows are taken for each other.
OtherWindow(p) == IF opening[p].window = "dir" THEN "table" ELSE "dir"
WindowOpened(p) == opening[p].window

Remap(p) ==
    /\ At(p, "remap")
    /\ window' = Set(window, WindowOpened(p), opening[p].page)
    /\ Opened(p)
    /\ UNCHANGED <<alloced, contents, active_phys_page, memory_allocations, panic, slot, pte, page, word,
                   purpose, held, mishaps>>

-----------------------------------------------------------------------------
(* sysmalloc(), find_free_virtual_pages() and map_virtual_page().          *)

FreeSlots == {i \in Slots : memory_allocations[i] = NoArea}

\* An entry of the table of areas that is free, though another call may have found it
\* too ("Slot").
Sysmalloc(p) ==
    /\ At(p, "idle") /\ held[p] # Ptes
    /\ FreeSlots # {} /\ slot' = Set(slot, p, Min(FreeSlots))
    /\ Blame(\E q \in Process \ {p} : InSlot(q) /\ slot[q] = Min(FreeSlots), "Slot")
    /\ Open(p, "dir", p, "find")
    /\ UNCHANGED <<shared, panic, pte, page, word, purpose, held>>

Find(p) ==
    /\ At(p, "find")
    /\ LET table == contents[window["dir"]][0]
       IN  \/ table # Unmapped /\ Open(p, "table", table, "find table") /\ UNCHANGED pte
           \/ table = Unmapped /\ pte' = Set(pte, p, 0) /\ Open(p, "dir", p, "map dir")
    /\ UNCHANGED <<shared, panic, slot, page, word, purpose, held, mishaps>>

\* The first entry that is free, or none is: the call returns 0.
FindTable(p) ==
    /\ At(p, "find table")
    /\ LET free == {i \in Ptes : contents[window["table"]][i] = Unmapped}
       IN  \/ /\ free # {} /\ pte' = Set(pte, p, Min(free)) /\ Open(p, "dir", p, "map dir")
              /\ UNCHANGED <<slot, page, word, purpose>>
           \/ free = {} /\ Return(p)
    /\ UNCHANGED <<shared, panic, held, mishaps>>

MapDir(p) ==
    /\ At(p, "map dir")
    /\ LET table == contents[window["dir"]][0]
       IN  \/ /\ table = Unmapped /\ purpose' = Set(purpose, p, "table") /\ Goto(p, "test")
              /\ UNCHANGED opening
           \/ table # Unmapped /\ Open(p, "table", table, "map page") /\ UNCHANGED purpose
    /\ UNCHANGED <<shared, panic, slot, pte, page, word, held, mishaps>>

MapPage(p) ==
    /\ At(p, "map page")
    /\ purpose' = Set(purpose, p, "page") /\ Goto(p, "test")
    /\ UNCHANGED <<shared, panic, opening, slot, pte, page, word, held, mishaps>>

\* alloc_phys_page(): the bit that is found clear is set by a load and a store of its word,
\* unless it is found set then.  Another call may be in between ("Bitmap").
Test(p) ==
    /\ At(p, "test") /\ Frames \ alloced # {}
    /\ page' = Set(page, p, Min(Frames \ alloced)) /\ Goto(p, "load")
    /\ Blame(\E q \in Process \ {p} : InBitmap(q), "Bitmap")
    /\ UNCHANGED <<shared, panic, opening, slot, pte, word, purpose, held>>

Got(p) == IF purpose[p] = "table" THEN "temp" ELSE "put"

Load(p) ==
    /\ At(p, "load")
    /\ IF page[p] \in alloced THEN Goto(p, Got(p)) /\ UNCHANGED word
       ELSE Goto(p, "store") /\ word' = Set(word, p, alloced)
    /\ UNCHANGED <<shared, panic, opening, slot, pte, page, purpose, held, mishaps>>

WordWithBit(p) == word[p] \cup {page[p]}

Store(p) ==
    /\ At(p, "store")
    /\ alloced' = WordWithBit(p) /\ word' = Set(word, p, {}) /\ Goto(p, Got(p))
    /\ UNCHANGED <<contents, window, active_phys_page, memory_allocations, panic, opening, slot, pte, page,
                   purpose, held, mishaps>>

\* The new table is cleared through a third window.
Temp(p) ==
    /\ At(p, "temp")
    /\ window' = Set(window, "temp", page[p]) /\ Goto(p, "clear")
    /\ Blame(\E q \in Process \ {p} : Uses(q, "temp"), "Window")
    /\ UNCHANGED <<alloced, contents, active_phys_page, memory_allocations, panic, locals, held>>

Cleared == [p \in {Unmapped} \cup Frames |-> IF p = window["temp"] THEN Empty ELSE contents[p]]

Clear(p) ==
    /\ At(p, "clear")
    /\ contents' = Cleared /\ window' = Set(window, "temp", Unmapped) /\ Goto(p, "link")
    /\ UNCHANGED <<alloced, active_phys_page, memory_allocations, panic, locals, held, mishaps>>

Link(p) ==
    /\ At(p, "link")
    /\ contents' = [contents EXCEPT ![window["dir"]][0] = page[p]]
    /\ Open(p, "table", page[p], "map page")
    /\ UNCHANGED <<alloced, window, active_phys_page, memory_allocations, panic, slot, pte, page, word,
                   purpose, held, mishaps>>

Put(p) ==
    /\ At(p, "put")
    /\ contents' = [contents EXCEPT ![window["table"]][pte[p]] = page[p]]
    /\ Goto(p, "fill")
    /\ UNCHANGED <<alloced, window, active_phys_page, memory_allocations, panic, locals, held, mishaps>>

Fill(p) ==
    /\ At(p, "fill")
    /\ memory_allocations' = Set(memory_allocations, slot[p], [pid |-> p, pte |-> pte[p]])
    /\ held' = Set(held, p, held[p] \cup {pte[p]})
    /\ Return(p)
    /\ UNCHANGED <<alloced, contents, window, active_phys_page, panic, mishaps>>

-----------------------------------------------------------------------------
(* sysfree() and unmap_virtual_page().                                     *)

Sysfree(p) ==
    /\ At(p, "idle")
    /\ \E i \in Slots : LET area == memory_allocations[i]
          IN  /\ area.pid = p /\ area.pte \in held[p]
              /\ \A k \in 0..(i - 1) : memory_allocations[k] # area
              /\ memory_allocations' = Set(memory_allocations, i, NoArea)
              /\ held' = Set(held, p, held[p] \ {area.pte}) /\ pte' = Set(pte, p, area.pte)
    /\ Open(p, "dir", p, "unmap dir")
    /\ UNCHANGED <<alloced, contents, window, active_phys_page, panic, slot, page, word, purpose, mishaps>>

\* The table is opened in the window of the directories.
UnmapDir(p) ==
    /\ At(p, "unmap dir")
    /\ LET table == contents[window["dir"]][0]
       IN  /\ panic' = (table = Unmapped)
           /\ IF table = Unmapped THEN UNCHANGED <<pc, opening>> ELSE Open(p, "dir", table, "unmap")
    /\ UNCHANGED <<shared, slot, pte, page, word, purpose, held, mishaps>>

Unmap(p) ==
    /\ At(p, "unmap")
    /\ LET mapped == contents[window["dir"]][pte[p]]
       IN  panic' = (mapped = Unmapped) /\ page' = Set(page, p, mapped)
    /\ Goto(p, "free load")
    /\ UNCHANGED <<shared, opening, slot, pte, word, purpose, held, mishaps>>

FreeLoad(p) ==
    /\ At(p, "free load")
    /\ IF page[p] \notin alloced THEN Goto(p, "null") /\ UNCHANGED word
       ELSE Goto(p, "free store") /\ word' = Set(word, p, alloced)
    /\ Blame(\E q \in Process \ {p} : InBitmap(q), "Bitmap")
    /\ UNCHANGED <<shared, panic, opening, slot, pte, page, purpose, held>>

FreeStore(p) ==
    /\ At(p, "free store")
    /\ alloced' = word[p] \ {page[p]} /\ word' = Set(word, p, {}) /\ Goto(p, "null")
    /\ UNCHANGED <<contents, window, active_phys_page, memory_allocations, panic, opening, slot, pte, page,
                   purpose, held, mishaps>>

Null(p) ==
    /\ At(p, "null")
    /\ contents' = [contents EXCEPT ![window["dir"]][pte[p]] = Unmapped]
    /\ Return(p)
    /\ UNCHANGED <<alloced, window, active_phys_page, memory_allocations, panic, held, mishaps>>

-----------------------------------------------------------------------------

WindowInit ==
    /\ alloced = Process /\ contents = [p \in {Unmapped} \cup Frames |-> Empty]
    /\ window = [w \in Windows |-> Unmapped] /\ active_phys_page = [w \in Windows |-> Unmapped]
    /\ memory_allocations = [i \in Slots |-> NoArea] /\ panic = FALSE
    /\ pc = [p \in Process |-> "idle"] /\ opening = [p \in Process |-> NotOpening]
    /\ slot = [p \in Process |-> 0] /\ pte = [p \in Process |-> 0] /\ page = [p \in Process |-> Unmapped]
    /\ word = [p \in Process |-> {}] /\ purpose = [p \in Process |-> "page"]
    /\ held = [p \in Process |-> {}] /\ mishaps = {}

WindowNext == \E p \in Process :
    \/ Look(p) \/ Remap(p)
    \/ Sysmalloc(p) \/ Find(p) \/ FindTable(p) \/ MapDir(p) \/ MapPage(p) \/ Test(p) \/ Load(p)
    \/ Store(p) \/ Temp(p) \/ Clear(p) \/ Link(p) \/ Put(p) \/ Fill(p)
    \/ Sysfree(p) \/ UnmapDir(p) \/ Unmap(p) \/ FreeLoad(p) \/ FreeStore(p) \/ Null(p)

\* The calls come into each other everywhere, but where a lock would have to be only if
\* its name is in Unlocked: the code has no such lock, and is the one with all of them.
LockedNext == WindowNext /\ mishaps' \subseteq Unlocked
WindowSpec == WindowInit /\ [][LockedNext]_windowVars

-----------------------------------------------------------------------------
(* Properties.                                                             *)

Steps == {"idle", "look", "remap", "find", "find table", "map dir", "map page", "test", "load", "store",
          "temp", "clear", "link", "put", "fill", "unmap dir", "unmap", "free load", "free store", "null"}

WindowTypeOK ==
    /\ alloced \subseteq Frames /\ contents \in [{Unmapped} \cup Frames -> [Ptes -> {Unmapped} \cup Frames]]
    /\ window \in [Windows -> {Unmapped} \cup Frames]
    /\ active_phys_page \in [Windows -> {Unmapped} \cup Frames]
    /\ memory_allocations \in [Slots -> [pid : {0} \cup Process, pte : Ptes]]
    /\ panic \in BOOLEAN /\ pc \in [Process -> Steps]
    /\ opening \in [Process -> [window : Windows, page : {Unmapped} \cup Frames, then : Steps]]
    /\ slot \in [Process -> Slots] /\ pte \in [Process -> Ptes]
    /\ page \in [Process -> {Unmapped} \cup Frames] /\ word \in [Process -> SUBSET Frames]
    /\ purpose \in [Process -> {"table", "page"}] /\ held \in [Process -> SUBSET Ptes]
    /\ mishaps \subseteq Unlocked

\* A window that is remembered to lead to a page leads there, but while it is being moved:
\* or else every later call with that page goes to another one.
WindowsLeadThere ==
    \A w \in Windows \ {"temp"} :
       \/ active_phys_page[w] \in {Unmapped, window[w]}
       \/ \E p \in Process : pc[p] = "remap" /\ opening[p].window = w

TablePages(p) == {contents[p][0]} \ {Unmapped}
DataPages(p)  == {contents[t][i] : t \in TablePages(p), i \in Ptes} \ {Unmapped}
Reached(p)    == TablePages(p) \cup DataPages(p)
AtRest(p)     == pc[p] = "idle"

\* A process that is in no call reaches a page of its own for each area it holds, and
\* pages that are allocated; nobody else reaches them, and when nobody is in a call no
\* other page is allocated.
PagesAreOwn ==
    /\ \A p \in Process : AtRest(p) =>
          /\ Cardinality(DataPages(p)) = Cardinality(held[p])
          /\ held[p] # {} => \A i \in Ptes : contents[contents[p][0]][i] # Unmapped <=> i \in held[p]
          /\ Reached(p) \subseteq alloced \ Process
          /\ \A q \in Process \ {p} : AtRest(q) => Reached(p) \cap Reached(q) = {}
    /\ (\A p \in Process : AtRest(p)) => alloced = Process \cup UNION {Reached(p) : p \in Process}

\* What a process holds is found in the table of areas when it frees it.
FreeFindsArea ==
    \A p \in Process : \A i \in held[p] : [pid |-> p, pte |-> i] \in {memory_allocations[k] : k \in Slots}

\* With a lock around each of them, the windows, the pages and the areas stay in order.
WindowsServe == WindowsLeadThere /\ PagesAreOwn /\ FreeFindsArea
=============================================================================
