-------------------------------- MODULE Fat16 --------------------------------
(***************************************************************************)
(* The FAT file system (src/src/filesys/fat) on one device: the files of   *)
(* the root directory, which the driver opens, reads and writes but never  *)
(* creates or removes; their chains of clusters in the allocation table,   *)
(* which FAT12 keeps in memory from mount to umount and FAT16 looks up on  *)
(* the disk; and the handles, each with a place in the chain.  Bytes are   *)
(* read and written one by one (size 1, as the system calls do).           *)
(***************************************************************************)
EXTENDS Integers, SequencesExt, FiniteSetsExt, Functions

CONSTANTS
    Handle,         \* of FILEs
    Byte,           \* what is written, besides 0
    Bits,           \* 12 or 16
    ClusterCount,   \* with the two numbers that are none: cluster_count
    Cells,          \* bytes_per_cluster
    Longest,        \* the most that one call reads or writes
    Layouts,        \* the disks at first: of every name, the chain and the size
    Seeks,          \* the positions that are set
    Allowed         \* the mishaps that may happen: see QuietNext

FatAssumption ==
    /\ {ClusterCount, Cells, Longest} \subseteq Nat \ {0} /\ Bits \in {12, 16}
    /\ Byte \subseteq Nat \ {0} /\ Handle \cup Seeks \subseteq Nat
    /\ Allowed \subseteq {"Back", "Chain", "Full", "Last", "Shared", "Size"}

VARIABLES
    cells,      \* of each cluster of the disk
    disk,       \* the allocation table and the entries of the root directory
    fs,         \* the table in memory when mounted
    handles,    \* struct fat16_file of the open handles
    got,        \* <<bytes>> after a call that reads, <<>> after another one
    mishaps

vars == <<cells, disk, fs, handles, got, mishaps>>

Cluster   == 2..(ClusterCount - 1)
Unmounted == <<>>
Running   == fs # Unmounted
Note(conditions) == mishaps' = mishaps \cup {what \in DOMAIN conditions : conditions[what]}

-----------------------------------------------------------------------------
(* The allocation table.                                                   *)

Used(c) == c > 1 /\ c < 65520
Bad     == 65527
Eof(c)  == c > Bad

\* fat12_read_fat() widens the values from 65520 on; fat12_write_fat() cuts them again.
Widened(table) == [c \in DOMAIN table |-> IF table[c] >= 4080 THEN table[c] + 61440 ELSE table[c]]
Cut(table)     == [c \in DOMAIN table |-> table[c] % 4096]

\* FAT16: fread() of two bytes is asked whether it has read one.  It has not.
GetFat(table, c) == IF Bits = 12 THEN table[c] ELSE Bad

FreeClusters(table) == {c \in Cluster : table[c] = 0}
\* Mutant: a cluster that is linked to stays free.
LinkedOnly(table, c) == [table EXCEPT ![c] = Min(FreeClusters(table))]
\* fat12_set_next_cluster(): the first cluster that is free is the end now, and is linked to.
\* FAT16 never comes so far: what it gets is not the end.
Linked(table, c) ==
    LET new == Min(FreeClusters(table)) IN [table EXCEPT ![new] = 65535, ![c] = new]

-----------------------------------------------------------------------------
(* The calls.                                                              *)

\* fat16_fopen_all(), of a name in the root directory.  A file without a cluster, and one that
\* is read-only, are not opened.
Fopen(h, name, mode) ==
    LET entry == disk.root[name] IN
    /\ Running /\ h \notin DOMAIN handles /\ h = Min(Handle \ DOMAIN handles)
    /\ name \in DOMAIN disk.root /\ Used(entry.first_cluster)
    /\ ~(entry.readonly /\ mode = "write")
    /\ handles' = (h :> [name |-> name, pos |-> 0, pos_in |-> 0, cluster |-> 0,
                         real_cluster |-> entry.first_cluster, file_size |-> entry.file_size,
                         last_cluster |-> entry.file_size \div Cells,
                         last_pos_in |-> entry.file_size % Cells]) @@ handles
    /\ got' = <<>> /\ UNCHANGED <<cells, disk, fs, mishaps>>

\* fat16_fread_next_cluster() in the j-th cluster and fat16_fwrite_next_cluster(); ok is whether
\* the loop of fat16_freadwrite() goes on.
NextToRead(f, j, p) ==
    LET next == GetFat(p.table, p.real)
        end  == j > f.last_cluster \/ (j = f.last_cluster /\ f.last_pos_in = 0)
    IN  IF end THEN [p EXCEPT !.ok = FALSE] ELSE [p EXCEPT !.real = next, !.ok = Used(next)]
NextToWrite(p) ==
    LET next == GetFat(p.table, p.real)
        table == Linked(p.table, p.real)
    IN  IF ~Eof(next) THEN [p EXCEPT !.real = next, !.ok = Used(next)]
        ELSE IF FreeClusters(p.table) = {} THEN [p EXCEPT !.ok = FALSE]
        ELSE [p EXCEPT !.real = table[p.real], !.table = table]

\* fat16_freadwrite(): from the cluster where the handle is through the following ones.
Walk(f, count, write) ==
    LET at[j \in 0..Longest] ==
            IF j = 0 THEN [real |-> f.real_cluster, table |-> fs, ok |-> Used(f.real_cluster)]
            ELSE LET p == at[j - 1]
                 IN  IF ~p.ok THEN p
                     ELSE IF write THEN NextToWrite(p) ELSE NextToRead(f, f.cluster + j, p)
        steps   == IF count = 0 THEN 0 ELSE (f.pos_in + count - 1) \div Cells
        path    == [j \in 0..steps |-> at[j]]
        done    == Cardinality({k \in 0..(count - 1) : path[(f.pos_in + k) \div Cells].ok})
        reached == Min({j \in 0..steps : ~path[j].ok} \cup {steps})
    IN  [path |-> path, done |-> done, ok |-> path[steps].ok,
         file |-> [f EXCEPT !.pos = @ + done, !.cluster = @ + reached,
                            !.real_cluster = path[reached].real,
                            !.pos_in = IF path[steps].ok THEN @ + count - steps * Cells ELSE 0]]
Place(f, w, k) == <<w.path[(f.pos_in + k) \div Cells].real, (f.pos_in + k) % Cells>>

\* The length of a file: that of the handle that has written furthest, or its entry's.
SizeOf(name) == Max({disk.root[name].file_size} \cup
                    {handles[h].file_size : h \in {g \in DOMAIN handles : handles[g].name = name}})

Fread(h, n) ==
    LET f     == handles[h]
        count == IF f.pos > f.file_size THEN 0 ELSE Min({n, f.file_size - f.pos})
        w     == Walk(f, count, FALSE)
    IN  /\ Running /\ h \in DOMAIN handles
        /\ got' = <<[k \in 1..w.done |-> LET p == Place(f, w, k - 1) IN cells[p[1]][p[2]]]>>
        /\ handles' = [handles EXCEPT ![h] = w.file]
        /\ Note([Shared |-> f.file_size < SizeOf(f.name), Chain |-> ~w.ok /\ Bits = 16,
                 Last   |-> ~w.ok /\ f.pos + count > f.last_cluster * Cells + f.last_pos_in])
        /\ UNCHANGED <<cells, disk, fs>>

\* When the disk is full the handle is at the beginning of the cluster it was at the end of.
Fwrite(h, data) ==
    LET f  == handles[h]
        w  == Walk(f, Len(data), TRUE)
        at == [k \in 1..w.done |-> Place(f, w, k - 1)]
    IN  /\ Running /\ h \in DOMAIN handles /\ got' = <<>>
        /\ cells' = [c \in Cluster |-> [k \in 0..(Cells - 1) |->
                        IF <<c, k>> \in Range(at) THEN data[CHOOSE i \in DOMAIN at : at[i] = <<c, k>>]
                        ELSE cells[c][k]]]
        /\ fs' = w.path[Max(DOMAIN w.path)].table
        /\ handles' = [handles EXCEPT ![h] = [w.file EXCEPT !.file_size = Max({@, w.file.pos})]]
        /\ Note([Full |-> ~w.ok /\ Bits = 12, Chain |-> ~w.ok /\ Bits = 16])
        /\ UNCHANGED disk

\* fat16_fsetpos().  Forwards the chain is followed from the first cluster; backwards the
\* handle stays in the cluster where it is, whatever its number is now.
Fsetpos(h, pos) ==
    LET f       == handles[h]
        cluster == pos \div Cells
        step[j \in 0..cluster] ==
            IF j = 0 THEN disk.root[f.name].first_cluster
            ELSE LET c == step[j - 1] IN IF Used(c) THEN GetFat(fs, c) ELSE c
        real    == IF cluster > f.cluster THEN step[cluster] ELSE f.real_cluster
        fails   == \/ cluster > f.last_cluster
                   \/ cluster = f.last_cluster /\ pos % Cells > f.last_pos_in
                   \/ cluster > f.cluster /\ ~Used(real)
    IN  /\ Running /\ h \in DOMAIN handles /\ ~fails
        /\ handles' = [handles EXCEPT ![h].pos = pos, ![h].pos_in = pos % Cells,
                                      ![h].cluster = cluster, ![h].real_cluster = real]
        /\ Note([Back |-> cluster < f.cluster])
        /\ got' = <<>> /\ UNCHANGED <<cells, disk, fs>>

\* The length that a handle has written to is not stored.
Fclose(h) ==
    /\ Running /\ h \in DOMAIN handles
    /\ handles' = Restrict(handles, DOMAIN handles \ {h})
    /\ Note([Size |-> handles[h].file_size > disk.root[handles[h].name].file_size])
    /\ got' = <<>> /\ UNCHANGED <<cells, disk, fs>>

Saved(table) == IF Bits = 12 THEN Cut(table) ELSE table
Loaded(d)    == IF Bits = 12 THEN Widened(d.fat) ELSE d.fat

\* fat16_umount().  Open handles are mount.c's concern.
Umount ==
    /\ Running /\ handles = <<>>
    /\ disk' = [disk EXCEPT !.fat = Saved(fs)] /\ fs' = Unmounted
    /\ got' = <<>> /\ UNCHANGED <<cells, handles, mishaps>>

Mount == ~Running /\ fs' = Loaded(disk) /\ got' = <<>> /\ UNCHANGED <<cells, disk, handles, mishaps>>

-----------------------------------------------------------------------------

\* A disk with the files of a layout.
Table(layout) ==
    [c \in Cluster |->
        LET in == {name \in DOMAIN layout : c \in Range(layout[name].chain)} IN
        IF in = {} THEN 0
        ELSE LET chain == layout[CHOOSE name \in in : TRUE].chain
                 i     == CHOOSE i \in DOMAIN chain : chain[i] = c
             IN  IF i < Len(chain) THEN chain[i + 1] ELSE IF Bits = 12 THEN 4095 ELSE 65535]
Root(layout) ==
    [name \in DOMAIN layout |->
        [first_cluster |-> IF layout[name].chain = <<>> THEN 0 ELSE layout[name].chain[1],
         file_size |-> layout[name].size, readonly |-> layout[name].readonly]]

Init ==
    /\ \E layout \in Layouts : disk = [fat |-> Table(layout), root |-> Root(layout)]
    /\ cells = [c \in Cluster |-> [k \in 0..(Cells - 1) |-> IF c % 2 = 0 THEN Min(Byte) ELSE 0]]
    /\ fs = Loaded(disk) /\ handles = <<>> /\ got = <<>> /\ mishaps = {}

Next ==
    \/ Umount \/ Mount
    \/ \E h \in Handle :
          \/ Fclose(h)
          \/ \E name \in DOMAIN disk.root, mode \in {"read", "write"} : Fopen(h, name, mode)
          \/ \E count \in 1..Longest : Fread(h, count)
          \/ \E n \in 1..Longest : \E data \in [1..n -> Byte] : Fwrite(h, data)
          \/ \E pos \in Seeks : Fsetpos(h, pos)

\* What comes of a mishap is not followed, unless it is Allowed to happen.
QuietNext == Next /\ mishaps' \subseteq Allowed
Spec == Init /\ [][QuietNext]_vars

-----------------------------------------------------------------------------

\* The clusters of a file, in the order of its chain, and then what ends the chain.
Chain(name) ==
    LET table == IF Running THEN fs ELSE Loaded(disk)
        after == table @@ [c \in {0, 1} \cup (65520..65535) |-> c]
        at[j \in 1..ClusterCount] ==
            IF j = 1 THEN disk.root[name].first_cluster ELSE after[at[j - 1]]
    IN  at

\* The chain of a file ends, no cluster of it is free, and none is in another file; it is as
\* long as the file.
ChainsAgree ==
    LET names == DOMAIN disk.root
        chain == [name \in names |-> SelectSeq(Chain(name), Used)]
    IN  /\ \A name \in names :
              /\ Len(chain[name]) = Cardinality(Range(chain[name]))
              /\ chain[name] # <<>> => Eof(Chain(name)[ClusterCount])
              /\ SizeOf(name) <= Len(chain[name]) * Cells
        /\ \A name, other \in names :
              name # other => Range(chain[name]) \cap Range(chain[other]) = {}

\* What the names, the files and the handles are, as FileStore has them, a file named by its
\* first cluster.
Seen ==
    LET file == [name \in DOMAIN disk.root |-> Max({1, disk.root[name].first_cluster})]
        bytes(name) == LET chain == Chain(name) IN
            [i \in 1..SizeOf(name) |-> cells[chain[(i - 1) \div Cells + 1]][(i - 1) % Cells]]
    IN  [names    |-> file,
         contents |-> [n \in Range(file) |-> bytes(CHOOSE name \in DOMAIN file : file[name] = n)],
         handles  |-> [h \in DOMAIN handles |-> [file |-> file[handles[h].name],
                                                 position |-> handles[h].pos]],
         got      |-> got]
=============================================================================
