------------------------------- MODULE Memory -------------------------------
(***************************************************************************)
(* Paging (src/src/memory/memory.c) and the areas of malloc() (malloc.c):  *)
(* the page directories and tables of the processes over the physical      *)
(* pages, and one table of allocations for all of them.  Every call is a   *)
(* step; what calls of two threads do to each other is in PageWindows.     *)
(***************************************************************************)
EXTENDS PageBitmaps, FiniteSetsExt

CONSTANTS
    Pid,                    \* the user processes; 0 is the kernel
    PeCount,                \* MEMORY_PE_COUNT, the entries of a directory or a table
    KmemEnd, StackEnd,      \* KMEM_PDE_END, STACK_PDE_END
    MaxStacks,              \* MAX_STACKS
    MaxAllocations,         \* MAX_ALLOCATIONS
    CodePages, AreaPages,   \* the sizes asked for, in pages
    MaxKernelThreads        \* bounds the threads of the kernel

ASSUME MemoryAssumption ==
    /\ Pid \subseteq Nat \ {0} /\ CodePages \subseteq Nat /\ AreaPages \subseteq Nat \ {0}
    /\ PeCount \in Nat /\ StackEnd \in 2..(PeCount - 1) /\ KmemEnd \in 2..StackEnd
    /\ MaxStacks \in Nat \ {0} /\ MaxAllocations \in Nat \ {0}
    /\ KernelPages >= KmemEnd + 2 /\ MaxKernelThreads \in 1..MaxStacks
    /\ 2 * MaxStacks <= (StackEnd - KmemEnd) * PeCount

VARIABLES
    ram,
    entries,                \* the contents of the pages that hold a directory or a table
    panic,                  \* what the kernel has panicked of, or Running
    phys_pd,                \* the page directory of each process
    memory_allocations,
    kernel_threads,
    program_pages,          \* history: the pages of each program
    stale,                  \* history: the entries of memory_allocations nobody holds
    stale_freed             \* history: such an entry was freed for another one

vars == <<ram, entries, panic, phys_pd, memory_allocations, kernel_threads, program_pages,
          stale, stale_freed>>

Running     == "running"
OutOfMemory == "MEM: Out of memory!"
NotMapped   == "unmap_virtual_page: (pt[pte].pagenum == 0)!"
PageFault   == "Page fault in kernel!"

Process  == {0} \cup Pid
KernelPd == 1                                   \* KERNEL_PAGE_DIRECTORY
KernelPt(pde) == KernelPd + 1 + pde             \* KERNEL_PAGE_TABLES + pde
Entries  == 0..(PeCount - 1)
Empty    == [i \in Entries |-> NoPage]
Slots    == 0..(MaxAllocations - 1)
NoArea   == [size |-> 0, pid |-> 0, virt_addr |-> 0]

Addresses == 0..(PeCount * PeCount - 1)         \* behind the last page is page 0 again
Region(user) == IF user THEN (StackEnd * PeCount)..(PeCount * PeCount - 1)
                        ELSE PeCount..(KmemEnd * PeCount - 1)
StackTopPage(n) ==
    LET perStack == ((StackEnd - KmemEnd) * PeCount) \div MaxStacks
    IN  KmemEnd * PeCount + (n + 1) * perStack - 2

-----------------------------------------------------------------------------
(* The calls of memory.c, for a memory m that is passed through several of *)
(* them.  Nothing is done behind a panic.                                  *)

memory == [ram |-> ram, entries |-> entries, panic |-> panic]
Becomes(m) == ram' = m.ram /\ entries' = m.entries /\ panic' = m.panic

Panic(m, what) == [m EXCEPT !.panic = what]
Then(m, next)  == IF m.panic = Running THEN next ELSE m

Pde(page) == page \div PeCount
Pte(page) == page % PeCount
TableOf(m, pd, page) == m.entries[pd][Pde(page)]
Mapping(m, pd, page) ==
    IF TableOf(m, pd, page) = NoPage THEN NoPage ELSE m.entries[TableOf(m, pd, page)][Pte(page)]

\* A new physical page in an entry of a table.
PutNewPage(m, table, i, noswap) ==
    IF ~CanAlloc(m.ram) THEN Panic(m, OutOfMemory)
    ELSE [m EXCEPT !.ram = AllocPage(@, noswap), !.entries[table][i] = FirstFound(m.ram)]

WithTable(m, table, contents) ==
    [m EXCEPT !.entries = [t \in DOMAIN @ \cup {table} |-> IF t = table THEN contents ELSE @[t]]]

MapVirtualPage(m, pd, page) ==
    LET t == IF TableOf(m, pd, page) # NoPage THEN m
             ELSE LET a == PutNewPage(m, pd, Pde(page), TRUE)
                  IN  Then(a, WithTable(a, TableOf(a, pd, page), Empty))
    IN  Then(t, PutNewPage(t, TableOf(t, pd, page), Pte(page), FALSE))

PageFreed(m, pd, page) ==
    [m EXCEPT !.ram = FreePage(@, Mapping(m, pd, page)),
              !.entries[TableOf(m, pd, page)][Pte(page)] = NoPage]

UnmapVirtualPage(m, pd, page) ==
    IF Mapping(m, pd, page) = NoPage THEN Panic(m, NotMapped) ELSE PageFreed(m, pd, page)

MapPages(m, pd, first, count) ==
    LET s[n \in 0..count] ==
          IF n = 0 THEN m ELSE Then(s[n - 1], MapVirtualPage(s[n - 1], pd, first + n - 1))
    IN  s[count]

UnmapPages(m, pd, first, count) ==
    LET s[n \in 0..count] ==
          IF n = 0 THEN m ELSE Then(s[n - 1], UnmapVirtualPage(s[n - 1], pd, first + n - 1))
    IN  s[count]

\* Mutant: the run of free pages is one page too short.
RunFreeButLast(m, pd, page, count) == \A k \in 0..(count - 2) : Mapping(m, pd, page + k) = NoPage
RunFree(m, pd, page, count) == \A k \in 0..(count - 1) : Mapping(m, pd, page + k) = NoPage

\* The first page of the first run of count free ones, or NoPage.
FindFreeVirtualPages(m, pd, count, user) ==
    LET runs == {page \in Region(user) : page + count - 1 \in Region(user)
                                         /\ RunFree(m, pd, page, count)}
    IN  IF runs = {} \/ (~user /\ count >= RamPages - KernelPages) THEN NoPage ELSE Min(runs)

\* Mutant: the last of the kernel's tables is not shared.
CopiedButLast(m) == [i \in Entries |-> IF i < KmemEnd - 1 THEN m.entries[KernelPd][i] ELSE NoPage]
\* The kernel's part of the directory is that of everyone.
CopiedPd(m) == [i \in Entries |-> IF i < KmemEnd THEN m.entries[KernelPd][i] ELSE NoPage]

BuildNewPagedir(m) ==
    WithTable([m EXCEPT !.ram = AllocPage(@, TRUE)], FirstFound(m.ram), CopiedPd(m))

\* A stack of some pages: those that are missing are mapped, those behind are unmapped.
ResizeStack(m, pd, n, pages) ==
    LET top     == StackTopPage(n)
        s[k \in 0..pages] ==
           IF k = 0 THEN m
           ELSE LET page == top + k - 1
                IN  Then(s[k - 1], IF Mapping(s[k - 1], pd, page) # NoPage THEN s[k - 1]
                                   ELSE MapVirtualPage(s[k - 1], pd, page))
        grown   == s[pages]
        Left    == {k \in 0..(PeCount * PeCount - top - pages) : \A j \in 0..(k - 1) :
                                            Mapping(grown, pd, top + pages + j) # NoPage}
    IN  Then(grown, UnmapPages(grown, pd, top + pages, Max(Left)))

\* Mutant: the page tables are not freed.
PagesBelow(m, pd) ==
    {m.entries[t][j] : t \in {m.entries[pd][i] : i \in KmemEnd..(PeCount - 1)} \ {NoPage}, j \in Entries}
    \ {NoPage}
Tables(m, pd) == {m.entries[pd][i] : i \in KmemEnd..(PeCount - 1)} \ {NoPage}
PagesOf(m, pd) == Tables(m, pd) \cup ({m.entries[t][j] : t \in Tables(m, pd), j \in Entries} \ {NoPage})

\* free_pagedir() frees a page.
FreeIn(page, r) == FreePage(r, page)

FreePagedir(m, pd) ==
    [m EXCEPT !.ram     = FoldSet(FreeIn, @, {pd} \cup PagesOf(m, pd)),
              !.entries = [t \in DOMAIN @ \ ({pd} \cup Tables(m, pd)) |-> @[t]]]

-----------------------------------------------------------------------------
(* The threads and processes (thread.c, process.c).                        *)

\* prepare_thread() gives every thread a stack of a page; no thread of the kernel ends.
KernelThread ==
    /\ panic = Running /\ kernel_threads < MaxKernelThreads
    /\ Becomes(ResizeStack(memory, KernelPd, kernel_threads, 1))
    /\ kernel_threads' = kernel_threads + 1
    /\ UNCHANGED <<phys_pd, memory_allocations, program_pages, stale, stale_freed>>

\* The memory of new_process(), with that of its first thread.  Without code, or place for
\* it, the directory is freed again.
NewProcess(pid, count) ==
    LET pd     == FirstFound(ram)
        built  == BuildNewPagedir(memory)
        first  == FindFreeVirtualPages(built, pd, count, TRUE)
        loaded == MapPages(built, pd, first, count)
    IN  /\ panic = Running /\ kernel_threads > 0 /\ phys_pd[pid] = NoPage
        /\ \/ /\ ~CanAlloc(ram) /\ Becomes(Panic(memory, OutOfMemory))
              /\ UNCHANGED <<phys_pd, program_pages>>
           \/ /\ CanAlloc(ram) /\ (count = 0 \/ first = NoPage)
              /\ Becomes(FreePagedir(built, pd)) /\ UNCHANGED <<phys_pd, program_pages>>
           \/ /\ CanAlloc(ram) /\ count # 0 /\ first # NoPage
              /\ Becomes(Then(loaded, ResizeStack(loaded, pd, 0, 1)))
              /\ phys_pd' = [phys_pd EXCEPT ![pid] = pd]
              /\ program_pages' = [program_pages EXCEPT ![pid] = count]
        /\ UNCHANGED <<memory_allocations, kernel_threads, stale, stale_freed>>

\* free_thread() and free_process(); memory_allocations keeps what the process had.
EndProcess(pid) ==
    /\ panic = Running /\ phys_pd[pid] # NoPage
    /\ LET unstacked == ResizeStack(memory, phys_pd[pid], 0, 0)
       IN  Becomes(Then(unstacked, FreePagedir(unstacked, phys_pd[pid])))
    /\ phys_pd' = [phys_pd EXCEPT ![pid] = NoPage]
    /\ program_pages' = [program_pages EXCEPT ![pid] = 0]
    /\ stale' = stale \cup {i \in Slots : memory_allocations[i].pid = pid}
    /\ UNCHANGED <<memory_allocations, kernel_threads, stale_freed>>

-----------------------------------------------------------------------------
(* The calls of malloc.c by a process, in its own page directory.  A call  *)
(* that returns 0 changes nothing.                                         *)

FreeSlots == {i \in Slots : memory_allocations[i].size = 0}
First(pid, count, user) == FindFreeVirtualPages(memory, phys_pd[pid], count, user)

\* memory_free() counts the pages; that page tables may be needed too is not looked at.
MayAlloc(pid, count, user) ==
    /\ panic = Running /\ phys_pd[pid] # NoPage
    /\ ram.ram_pages_free >= count /\ FreeSlots # {} /\ First(pid, count, user) # NoPage

Allocated(pid, count, user) == MapPages(memory, phys_pd[pid], First(pid, count, user), count)

Recorded(pid, count, user) ==
    [memory_allocations EXCEPT ![Min(FreeSlots)] =
        [size |-> count, pid |-> pid, virt_addr |-> First(pid, count, user)]]

Sysmalloc(pid, count, user) ==
    /\ (user => pid # 0) /\ MayAlloc(pid, count, user)
    /\ Becomes(Allocated(pid, count, user))
    /\ memory_allocations' = Recorded(pid, count, user)
    /\ UNCHANGED <<phys_pd, kernel_threads, program_pages, stale, stale_freed>>

Holds(pid, i) == memory_allocations[i].size > 0 /\ memory_allocations[i].pid = pid /\ i \notin stale

\* The entry that sysfree() finds for the area of entry i: the first of that process with
\* that address.
FirstEntry(allocations, i) ==
    Min({k \in Slots : /\ allocations[k].virt_addr = allocations[i].virt_addr
                       /\ allocations[k].pid = allocations[i].pid})

Freed(m, pid, allocations, i) ==
    LET area == allocations[FirstEntry(allocations, i)]
    IN  Then(m, UnmapPages(m, phys_pd[pid], area.virt_addr, area.size))

EntryCleared(allocations, i) == [allocations EXCEPT ![FirstEntry(allocations, i)] = NoArea]

Forgets(allocations, i) ==
    LET found == FirstEntry(allocations, i)
    IN  /\ memory_allocations' = EntryCleared(allocations, i)
        /\ stale' = IF found = i THEN stale ELSE (stale \ {found}) \cup {i}
        /\ stale_freed' = (stale_freed \/ found # i)

Sysfree(pid, i) ==
    /\ panic = Running /\ phys_pd[pid] # NoPage /\ Holds(pid, i)
    /\ Becomes(Freed(memory, pid, memory_allocations, i))
    /\ Forgets(memory_allocations, i)
    /\ UNCHANGED <<phys_pd, kernel_threads, program_pages>>

\* A new area, as many bytes as the new one has copied from the old, and the old one freed.
Sysrealloc(pid, i, count) ==
    LET old    == memory_allocations[i]
        user   == old.virt_addr \in Region(TRUE)
        grown  == Allocated(pid, count, user)
        copied == IF \E page \in Addresses :
                        /\ page - old.virt_addr \in 0..(count - 1)
                        /\ Mapping(grown, phys_pd[pid], page) = NoPage
                  THEN Panic(grown, PageFault) ELSE grown
        listed == Recorded(pid, count, user)
    IN  /\ Holds(pid, i) /\ MayAlloc(pid, count, user)
        /\ Becomes(Then(grown, Freed(copied, pid, listed, i)))
        /\ Forgets(listed, i)
        /\ UNCHANGED <<phys_pd, kernel_threads, program_pages>>

-----------------------------------------------------------------------------

\* memory_init() and malloc_init().
Init ==
    /\ ram = InitialRam /\ panic = Running
    /\ entries = [t \in {KernelPd} \cup {KernelPt(i) : i \in 0..(KmemEnd - 1)} |->
                    [i \in Entries |->
                        IF t = KernelPd /\ i < KmemEnd THEN KernelPt(i)
                        ELSE IF t = KernelPt(0) /\ i < KernelPages THEN i
                        ELSE NoPage]]
    /\ phys_pd = [p \in Process |-> IF p = 0 THEN KernelPd ELSE NoPage]
    /\ memory_allocations = [i \in Slots |-> NoArea]
    /\ kernel_threads = 0 /\ program_pages = [p \in Process |-> 0]
    /\ stale = {} /\ stale_freed = FALSE

\* Calls by the kernel and some of the processes.
Call(pids) ==
    \/ KernelThread
    \/ \E pid \in pids : (\E count \in CodePages : NewProcess(pid, count)) \/ EndProcess(pid)
    \/ \E pid \in {0} \cup pids, count \in AreaPages, user \in BOOLEAN : Sysmalloc(pid, count, user)
    \/ \E pid \in {0} \cup pids, i \in Slots :
          Sysfree(pid, i) \/ (\E count \in AreaPages : Sysrealloc(pid, i, count))

Next == Call(Pid)

Spec == Init /\ [][Next]_vars

-----------------------------------------------------------------------------
(* Properties.                                                             *)

TypeOK ==
    /\ ram.set \subseteq Bits /\ ram.ram_pages_free \in 0..RamPages /\ ram.first \in Nat
    /\ \A t \in DOMAIN entries : t \in 1..(RamPages - 1) /\ entries[t] \in [Entries -> 0..(RamPages - 1)]
    /\ panic \in {Running, OutOfMemory, NotMapped, PageFault}
    /\ phys_pd \in [Process -> {NoPage} \cup DOMAIN entries]
    /\ memory_allocations \in [Slots -> [size : {0} \cup AreaPages, pid : Process,
                                         virt_addr : Addresses]]
    /\ kernel_threads \in 0..MaxKernelThreads /\ program_pages \in [Process -> {0} \cup CodePages]
    /\ stale \subseteq Slots /\ stale_freed \in BOOLEAN

\* Every physical page that is in use is the directory of one process or in one entry of one
\* table, and one that is free is in none: no page is shared, lost or used when freed.
PagesHaveOneOwner ==
    panic = Running =>
      \A page \in Pages :
         Cardinality({p \in Process : phys_pd[p] = page}
                     \cup {e \in (DOMAIN entries) \X Entries : entries[e[1]][e[2]] = page})
           = IF page \in ram.set THEN 1 ELSE 0

\* "Kaikilla on samat kernelsivut": the kernel sees the same pages whichever process runs.
KernelIsShared ==
    \A p \in Process : phys_pd[p] # NoPage =>
       \A i \in 0..(KmemEnd - 1) : entries[phys_pd[p]][i] = KernelPt(i)

Covers(i, page) == page - memory_allocations[i].virt_addr \in 0..(memory_allocations[i].size - 1)

\* A page of a process is mapped if and only if it is one of its program or of exactly one
\* of the areas the process holds, and one of the kernel's if it is of one area in the
\* table: areas do not overlap, are all there, and what was freed is gone.  A process that
\* frees what it holds makes the kernel panic only when an entry of a process that has
\* ended is taken for its own.
AreasAreMapped ==
    /\ panic = NotMapped => stale_freed
    /\ panic = Running /\ ~stale_freed =>
         /\ \A p \in Pid : phys_pd[p] # NoPage => \A page \in Region(TRUE) :
               Cardinality({i \in Slots : Holds(p, i) /\ Covers(i, page)}
                           \cup (IF page < StackEnd * PeCount + program_pages[p] THEN {-1} ELSE {}))
                 = IF Mapping(memory, phys_pd[p], page) # NoPage THEN 1 ELSE 0
         /\ \A page \in Region(FALSE) :
               Cardinality({i \in Slots : Covers(i, page)})
                 = IF Mapping(memory, KernelPd, page) # NoPage THEN 1 ELSE 0

\* unmap_virtual_page() asserts that the page it is given is mapped.
UnmapsMappedPages == panic # NotMapped
=============================================================================
