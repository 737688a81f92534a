------------------------------- MODULE Minix --------------------------------
(***************************************************************************)
(* The Minix file system (src/src/filesys/minix) on one device: bitmaps,   *)
(* inodes with direct zones and one list of zones, the list of open        *)
(* inodes, and the files of the root directory.  A call is one step: the   *)
(* driver does not block, and its device fails only behind its end.        *)
(*                                                                         *)
(* A cell is a byte of a file, or the number of a zone in a list of zones. *)
(* The entries of the root directory are a function: where they stand in   *)
(* its zones, and the zones it grows by, are left out, and so are files    *)
(* with doubly indirect zones.                                             *)
(***************************************************************************)
EXTENDS Integers, SequencesExt, FiniteSetsExt, Functions

CONSTANTS
    Name, Handle,   \* of files, and of FILEs
    Byte,           \* what is written, besides 0
    Zones, Inodes,  \* how many there are
    Cells,          \* in a zone
    StdZones,       \* MINIX_STD_ZONES
    MaxSize,        \* of a file: max_size of the superblock
    Longest,        \* the most that one call reads or writes
    Sizes, Seeks,   \* of the file that is there at first; the positions that are set
    Allowed         \* the mishaps that may happen: see QuietNext

MinixAssumption ==
    /\ {Zones, Inodes, Cells, StdZones, MaxSize, Longest} \subseteq Nat \ {0}
    /\ Byte \subseteq Nat \ {0} /\ Sizes \cup Seeks \subseteq 0..MaxSize
    /\ Inodes > 1 /\ \A size \in Sizes : (size + Cells - 1) \div Cells + 2 <= Zones
    /\ Handle \subseteq Nat /\ MaxSize <= (StdZones + Cells) * Cells
    /\ Allowed \subseteq {"Panic", "Short", "Hole", "Beyond", "Shared", "Lost", "Link", "Maps"}

VARIABLES
    cells,      \* of each zone of the disk
    disk,       \* the inodes, both bitmaps, and the entries of the root directory
    fs,         \* struct minix_fs when mounted: the bitmaps and the open inodes
    handles,    \* struct minix_file of the open handles
    got,        \* <<bytes>> after a call that reads, <<>> after another one
    mishaps

vars == <<cells, disk, fs, handles, got, mishaps>>

Offsets   == 0..(Cells - 1)
Empty     == [k \in Offsets |-> 0]
Unmounted == [inode_map |-> {}, zone_map |-> {}, inode_map_changed |-> FALSE, open_inodes |-> <<>>]
NewInode(type) ==
    [type |-> type, size |-> 0, refs |-> 1, std |-> [i \in 1..StdZones |-> 0], indir |-> 0]

Put(f, x, y) == [z \in DOMAIN f \cup {x} |-> IF z = x THEN y ELSE f[z]]

\* The mishaps whose conditions hold are noted.
Note(conditions) == mishaps' = mishaps \cup {what \in DOMAIN conditions : conditions[what]}

-----------------------------------------------------------------------------
(* Zones.                                                                  *)

FreeZones == (1..Zones) \ fs.zone_map

\* The i-th zone of a file, 0 when it is missing, and all that are the file's.
ZoneOf(inode, i) ==
    IF i < StdZones THEN inode.std[i + 1]
    ELSE IF inode.indir = 0 THEN 0 ELSE cells[inode.indir][i - StdZones]
ZonesOf(inode) == ({ZoneOf(inode, i) : i \in 0..(StdZones + Cells - 1)} \cup {inode.indir}) \ {0}

\* minix_get_zones() for writing: the direct zones that are missing are the first free ones,
\* as long as there are any.
FreeZone(k) == CHOOSE z \in FreeZones : Cardinality({y \in FreeZones : y < z}) = k - 1
WithZones(inode, wanted) ==
    LET missing == {i \in wanted : i < StdZones /\ ZoneOf(inode, i) = 0}
        turn(i) == Cardinality({j \in missing : j <= i})
    IN  [inode EXCEPT !.std = [i \in 1..StdZones |->
            IF i - 1 \in missing /\ turn(i - 1) <= Cardinality(FreeZones)
            THEN FreeZone(turn(i - 1)) ELSE @[i]]]

\* The zones up to the first that is missing are those the caller gets.
Reached(inode, wanted) == {i \in wanted : \A j \in wanted : j <= i => ZoneOf(inode, j) # 0}

\* When that one is in a list, and there is one or a zone for one, the driver comes to free
\* the address of a number in the list, which is none of an area.
Panics(inode, wanted, canAlloc) ==
    /\ Reached(inode, wanted) # wanted
    /\ Min(wanted \ Reached(inode, wanted)) >= StdZones
    /\ inode.indir # 0 \/ canAlloc

\* minix_free_all_zones_from_inode().  What a free zone holds is not kept: nothing reads it
\* before it is cleared again.
Without(inode)  == [inode EXCEPT !.std = NewInode("file").std, !.indir = 0]
Emptied(zones)  == [z \in 1..Zones |-> IF z \in zones THEN Empty ELSE cells[z]]

-----------------------------------------------------------------------------
(* Open inodes.                                                            *)

\* The entries of an inode, and the place of a new one.
Entries(n) == {e \in DOMAIN fs.open_inodes : fs.open_inodes[e].inode_n = n}
NewEntry   == Min(1..(Cardinality(DOMAIN fs.open_inodes) + 1) \ DOMAIN fs.open_inodes)

\* Mutant: the state of an inode on the disk.
StoredInode(n) == disk.inodes[n]

\* The newest state of an inode.
Inode(n) == IF Entries(n) = {} THEN disk.inodes[n] ELSE fs.open_inodes[Min(Entries(n))].inode

Running    == fs # Unmounted
IsOpen(h)  == Running /\ h \in DOMAIN handles
EntryOf(h) == fs.open_inodes[handles[h].e]
Usable(h)  == IsOpen(h) /\ EntryOf(h).inode_n # 0

-----------------------------------------------------------------------------
(* Names and opening.                                                      *)

\* minix_locate_inode() and minix_insert_direntry(), in the root directory.  What is left of a
\* path is compared with the name of an entry, and so nothing is found in another directory.
LocateInode(name)       == IF name \in DOMAIN disk.root THEN disk.root[name] ELSE 0
InsertDirentry(name, n) == [disk EXCEPT !.root = Put(@, name, n)]
FreeInodes              == (1..Inodes) \ fs.inode_map

\* minix_fopen_inodenum() of the inode n, which is as given, and then the handle of
\* minix_fopen_all().
Opened(h, n, inode, mode) ==
    LET e    == IF Entries(n) = {} THEN NewEntry ELSE Min(Entries(n))
        refs == IF Entries(n) = {} THEN 0 ELSE fs.open_inodes[e].num_refs
        size == IF "clear" \in mode THEN 0 ELSE inode.size
    IN  /\ handles' = Put(handles, h, [e |-> e, pos |-> IF "append" \in mode THEN size ELSE 0,
                                       size |-> size, written |-> "clear" \in mode, mode |-> mode])
        /\ fs' = [fs EXCEPT !.open_inodes = Put(@, e, [inode_n |-> n, num_refs |-> refs + 1,
                     inode |-> IF "clear" \in mode THEN [Without(inode) EXCEPT !.size = 0] ELSE inode]),
                  !.zone_map = IF "clear" \in mode THEN @ \ ZonesOf(inode) ELSE @,
                  !.inode_map = @ \cup {n},
                  !.inode_map_changed = @ \/ n \notin fs.inode_map]
        /\ cells' = IF "clear" \in mode THEN Emptied(ZonesOf(inode)) ELSE cells

\* minix_fopen_all()
Fopen(h, name, mode) ==
    LET n == LocateInode(name) IN
    /\ Running /\ h \notin DOMAIN handles /\ h = Min(Handle \ DOMAIN handles) /\ got' = <<>>
    /\ \/ /\ n # 0 /\ Inode(n).type = "file"
          /\ Opened(h, n, Inode(n), mode) /\ UNCHANGED disk
       \/ /\ n = 0 /\ "write" \in mode /\ "old" \notin mode /\ FreeInodes # {}
          /\ Opened(h, Min(FreeInodes), NewInode("file"), mode)
          /\ disk' = InsertDirentry(name, Min(FreeInodes))
    /\ UNCHANGED mishaps

-----------------------------------------------------------------------------
(* Reading, writing and closing.                                           *)

ByteAt(inode, p) == LET zone == ZoneOf(inode, p \div Cells)
                    IN  IF zone = 0 THEN 0 ELSE cells[zone][p % Cells]

\* The zones that minix_freadwrite() asks for.
Wanted(pos, end) == (pos \div Cells)..(IF end = 0 THEN Zones - 1 ELSE (end - 1) \div Cells)

Fread(h, count) ==
    LET f      == handles[h]
        inode  == EntryOf(h).inode
        end    == Min({f.pos + count, f.size})
        wanted == Wanted(f.pos, end)
        read   == Reached(inode, wanted)
        done   == IF read = {} THEN 0 ELSE end - f.pos
    IN  /\ IsOpen(h)
        /\ IF EntryOf(h).inode_n = 0 THEN got' = <<<<>>>> /\ UNCHANGED <<handles, mishaps>>
           ELSE /\ got' = <<[i \in 1..done |-> ByteAt(inode, f.pos + i - 1)]>>
                /\ handles' = [handles EXCEPT ![h].pos = @ + done]
                /\ Note([Beyond |-> f.pos > end, Shared |-> f.size # inode.size,
                         Short |-> read # {} /\ read # wanted,
                         Panic |-> Panics(inode, wanted, FALSE)])
        /\ UNCHANGED <<cells, disk, fs>>

\* With "append" the position is first set to the end: sys_fwrite().
Fwrite(h, data) ==
    LET f      == handles[h]
        pos    == IF "append" \in f.mode THEN f.size ELSE f.pos
        end    == Min({pos + Len(data), MaxSize})
        wanted == Wanted(pos, end)
        old    == EntryOf(h).inode
        inode  == WithZones(old, wanted)
        fresh  == ZonesOf(inode) \ fs.zone_map
        to     == Reached(inode, wanted)
        places == IF to # wanted THEN <<>>
                  ELSE [p \in pos..(end - 1) |-> <<ZoneOf(inode, p \div Cells), p % Cells>>]
        last   == IF to = {} THEN pos ELSE end
        at(z, k)   == CHOOSE p \in DOMAIN places : places[p] = <<z, k>>
        byte(z, k) == IF <<z, k>> \in Range(places) THEN data[at(z, k) - pos + 1]
                      ELSE IF z \in fresh THEN 0 ELSE cells[z][k]
    IN  /\ Usable(h) /\ "write" \in f.mode /\ got' = <<>>
        /\ cells' = [z \in 1..Zones |-> [k \in Offsets |-> byte(z, k)]]
        /\ fs' = [fs EXCEPT !.zone_map = @ \cup fresh,
                     !.open_inodes[f.e].inode = IF last > f.size THEN [inode EXCEPT !.size = last] ELSE inode]
        /\ handles' = [handles EXCEPT ![h].pos = last, ![h].size = Max({@, last}),
                                      ![h].written = @ \/ last # pos]
        /\ Note([Shared |-> f.size # old.size, Short |-> to # {} /\ to # wanted,
                 Hole   |-> \E i \in 0..(pos \div Cells) : ZoneOf(inode, i) = 0,
                 Panic  |-> Panics(inode, wanted, FreeZones \ fresh # {})])
        /\ UNCHANGED disk

Fsetpos(h, pos) ==
    /\ Usable(h) /\ handles' = [handles EXCEPT ![h].pos = pos]
    /\ got' = <<>> /\ UNCHANGED <<cells, disk, fs, mishaps>>

\* minix_fflush() writes the inode of a file that this handle has written to.
Flushed(h) == IF Usable(h) /\ handles[h].written
              THEN [disk EXCEPT !.inodes[EntryOf(h).inode_n] = EntryOf(h).inode] ELSE disk

Fflush(h) ==
    /\ Usable(h) /\ "write" \in handles[h].mode
    /\ disk' = Flushed(h) /\ handles' = [handles EXCEPT ![h].written = FALSE]
    /\ got' = <<>> /\ UNCHANGED <<cells, fs, mishaps>>

\* minix_fclose() flushes, and drops the inode with its last handle, written or not.
Fclose(h) ==
    LET last == EntryOf(h).num_refs = 1 IN
    /\ IsOpen(h) /\ got' = <<>>
    /\ disk' = Flushed(h)
    /\ handles' = Restrict(handles, DOMAIN handles \ {h})
    /\ fs' = IF last THEN [fs EXCEPT !.open_inodes = Restrict(@, DOMAIN @ \ {handles[h].e})]
             ELSE [fs EXCEPT !.open_inodes[handles[h].e].num_refs = @ - 1]
    /\ Note([Lost |-> last /\ Usable(h) /\ Flushed(h).inodes[EntryOf(h).inode_n] # EntryOf(h).inode])
    /\ UNCHANGED cells

-----------------------------------------------------------------------------
(* Names.                                                                  *)

\* The entry goes, and with the last link of an inode its zones and its number.
Unlink(name) ==
    LET n     == LocateInode(name)
        e     == Entries(n)
        inode == [Inode(n) EXCEPT !.refs = @ - 1]
        gone  == inode.refs = 0
        becomes(entry) == IF gone THEN [entry EXCEPT !.inode = Without(inode), !.inode_n = 0]
                          ELSE [entry EXCEPT !.inode = inode]
    IN  /\ Running /\ n # 0 /\ got' = <<>>
        /\ disk' = [disk EXCEPT !.root = Restrict(@, DOMAIN @ \ {name}),
                                !.inodes[n] = IF gone THEN @ ELSE inode]
        /\ fs' = [fs EXCEPT !.open_inodes = [x \in DOMAIN @ |-> IF x \in e THEN becomes(@[x]) ELSE @[x]],
                     !.zone_map = IF gone THEN @ \ ZonesOf(inode) ELSE @,
                     !.inode_map = IF gone THEN @ \ {n} ELSE @, !.inode_map_changed = @ \/ gone]
        /\ cells' = IF gone THEN Emptied(ZonesOf(inode)) ELSE cells
        /\ Note([Link |-> gone /\ n \in Range(disk'.root)])
        /\ UNCHANGED handles

\* The test of what minix_insert_direntry() returns is the wrong way round: the links of the
\* inode are not counted when there is a new entry.  It may be a second one of that name.
Link(old, name) ==
    /\ Running /\ LocateInode(old) # 0
    /\ disk' = InsertDirentry(name, LocateInode(old)) /\ Note([Link |-> LocateInode(name) # 0])
    /\ got' = <<>> /\ UNCHANGED <<cells, fs, handles>>

\* A directory is a file with two entries, both for itself, and a zone for them.
Dmake(name) ==
    LET n     == Min(FreeInodes)
        inode == WithZones(NewInode("dir"), {0})
        zone  == inode.std[1]
        made  == [inode EXCEPT !.size = 2, !.refs = 3]
    IN  /\ Running /\ LocateInode(name) = 0 /\ FreeInodes # {} /\ got' = <<>>
        /\ disk' = [InsertDirentry(name, n) EXCEPT !.inodes[n] = IF zone = 0 THEN @ ELSE made]
        /\ fs' = [fs EXCEPT !.zone_map = @ \cup ZonesOf(inode), !.inode_map = @ \cup {n},
                            !.inode_map_changed = TRUE]
        /\ cells' = Emptied(ZonesOf(inode))
        /\ Note([Lost |-> zone = 0])
        /\ UNCHANGED handles

-----------------------------------------------------------------------------
(* Mounting.                                                               *)

\* Both maps are written if the inode map has changed, and neither if it has not.
Umount ==
    LET saved == [disk EXCEPT !.inode_map = fs.inode_map, !.zone_map = fs.zone_map]
    IN  /\ Running /\ handles = <<>> /\ got' = <<>>
        /\ disk' = IF fs.inode_map_changed THEN saved ELSE disk
        /\ fs' = Unmounted
        /\ Note([Maps |-> disk'.zone_map # fs.zone_map])
        /\ UNCHANGED <<cells, handles>>

Mounted(d) == [inode_map |-> d.inode_map, zone_map |-> d.zone_map,
               inode_map_changed |-> FALSE, open_inodes |-> <<>>]
Mount == ~Running /\ fs' = Mounted(disk) /\ got' = <<>> /\ UNCHANGED <<cells, disk, handles, mishaps>>

-----------------------------------------------------------------------------

\* A disk as mkfs and a host make it: behind the zone of the root directory the zones of the
\* file "a", one after the other, and its list of zones.
ImageInode(size) ==
    LET used    == (size + Cells - 1) \div Cells
        zone(i) == IF i < used THEN i + 2 ELSE 0
    IN  [NewInode("file") EXCEPT !.size = size, !.std = [i \in 1..StdZones |-> zone(i - 1)],
            !.indir = IF used > StdZones THEN used + 2 ELSE 0]
ImageCells(size) ==
    LET list == ImageInode(size).indir
        cell(z, k) == IF z = list THEN IF StdZones + k + 2 < list THEN StdZones + k + 2 ELSE 0
                      ELSE IF (z - 2) * Cells + k \in 0..(size - 1) THEN Min(Byte) ELSE 0
    IN  [z \in 1..Zones |-> [k \in Offsets |-> cell(z, k)]]
Image(size) ==
    LET root == [NewInode("dir") EXCEPT !.size = 3, !.refs = 2, !.std[1] = 1]
    IN  [inodes |-> [n \in 1..Inodes |-> IF n = 1 THEN root ELSE ImageInode(size)],
         inode_map |-> {1, 2}, root |-> [name \in {"a"} |-> 2],
         zone_map |-> 1..Max({1 + (size + Cells - 1) \div Cells, ImageInode(size).indir})]

Mode == {{"read"}, {"read", "write"}, {"write", "clear"}, {"write", "append", "old"}}

Init ==
    /\ \E size \in Sizes : cells = ImageCells(size) /\ disk = Image(size)
    /\ fs = Mounted(disk) /\ handles = <<>> /\ got = <<>> /\ mishaps = {}

Next ==
    \/ Umount \/ Mount
    \/ \E name \in Name : Unlink(name) \/ Dmake(name) \/ \E old \in Name : Link(old, name)
    \/ \E h \in Handle :
          \/ Fflush(h) \/ Fclose(h)
          \/ \E name \in Name, mode \in Mode : Fopen(h, name, mode)
          \/ \E count \in 1..Longest : Fread(h, count)
          \/ \E n \in 1..Longest : \E data \in [1..n -> Byte] : Fwrite(h, data)
          \/ \E pos \in Seeks : Fsetpos(h, pos)

\* What comes of a mishap is not followed, unless it is Allowed to happen.
QuietNext == Next /\ mishaps' \subseteq Allowed
Spec == Init /\ [][QuietNext]_vars

-----------------------------------------------------------------------------
(* What the disk and the maps hold, and what the files are.                *)

\* Every zone of a file, of its data and its list, is taken in the map of the zones, and it is
\* a zone of no other file and of no other place in its own.
ZonesAgree ==
    LET zone_map == IF Running THEN fs.zone_map ELSE disk.zone_map
        files    == Range(disk.root)
        of       == [n \in files |-> ZonesOf(Inode(n))]
    IN  /\ \A n \in files : of[n] \subseteq zone_map
        /\ \A n, m \in files : n # m => of[n] \cap of[m] = {}
        /\ \A n \in files : LET z == [i \in 0..(StdZones + Cells - 1) |-> ZoneOf(Inode(n), i)] IN
              \A i, j \in DOMAIN z : i # j /\ z[i] # 0 => z[i] # z[j]

\* What the names, the files and the handles are, as FileStore has them.
Seen ==
    LET names == {name \in DOMAIN disk.root : Inode(disk.root[name]).type = "file"}
        bytes(inode) == [i \in 1..inode.size |-> ByteAt(inode, i - 1)]
    IN  [names    |-> Restrict(disk.root, names),
         contents |-> [n \in {disk.root[name] : name \in names} |-> bytes(Inode(n))],
         handles  |-> [h \in DOMAIN handles |-> [file |-> EntryOf(h).inode_n,
                                                 position |-> handles[h].pos]],
         got      |-> got]
=============================================================================
