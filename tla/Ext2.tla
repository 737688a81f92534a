-------------------------------- MODULE Ext2 --------------------------------
(***************************************************************************)
(* The ext2 file system (src/src/filesys/ext2) on a device of one block    *)
(* group: files with direct blocks and one list of blocks, the bitmaps,    *)
(* and the handles, each with a copy of the inode that is written back     *)
(* when it is closed.                                                      *)
(*                                                                         *)
(* ext2_make_entry() and ext2_unlink() look for the directory "/...", and  *)
(* ext2_search_entry() finds nothing that begins with a slash: no entry is *)
(* made or deleted, and the names are the ones the host has given.         *)
(***************************************************************************)
EXTENDS Integers, SequencesExt, FiniteSetsExt, Functions

CONSTANTS
    Handle,         \* of FILEs
    Byte,           \* what is written, besides 0
    Blocks, Inodes, \* how many there are
    Cells,          \* bytes in a block, and numbers of blocks too
    DirectBlocks,   \* EXT2_NDIR_BLOCKS
    Longest,        \* the most that one call reads or writes
    Layouts,        \* the disks at first: of every name, its blocks, list and size
    Seeks,          \* the positions that are set
    Allowed         \* the mishaps that may happen: see QuietNext

Ext2Assumption ==
    /\ {Blocks, Inodes, Cells, DirectBlocks, Longest} \subseteq Nat \ {0}
    /\ Byte \subseteq Nat \ {0} /\ Handle \cup Seeks \subseteq Nat
    /\ Allowed \subseteq {"Full", "Group", "Orphan", "Shared", "Size"}

VARIABLES
    cells,      \* of each block of the disk
    disk,       \* the inodes and both bitmaps
    fs,         \* the bitmaps in memory when mounted, as sets of the numbers that are taken
    handles,    \* struct ext2_file of the open handles
    got,        \* <<bytes>> after a call that reads, <<>> after another one
    mishaps

vars == <<cells, disk, fs, handles, got, mishaps>>

Unmounted == [blocks |-> {}, inodes |-> {}]
Running   == fs # Unmounted
IsOpen(h) == Running /\ h \in DOMAIN handles
NewInode(type) == [type |-> type, i_size |-> 0, i_blocks |-> 0, i_links_count |-> 1,
                   i_block |-> [i \in 0..DirectBlocks |-> 0]]
Note(conditions) == mishaps' = mishaps \cup {what \in DOMAIN conditions : conditions[what]}

-----------------------------------------------------------------------------
(* Blocks.                                                                 *)

\* get_iblock(): 0 for a block that is missing.
BlockOf(content, inode, i) ==
    IF i < DirectBlocks THEN inode.i_block[i]
    ELSE IF i >= DirectBlocks + Cells \/ inode.i_block[DirectBlocks] = 0 THEN 0
    ELSE content[inode.i_block[DirectBlocks]][i - DirectBlocks]
BlocksOf(inode) ==
    ({BlockOf(cells, inode, i) : i \in 0..(DirectBlocks + Cells - 1)}
       \cup {inode.i_block[DirectBlocks]}) \ {0}

\* ext2_alloc_block() and ext2_alloc_inode(): the first that is free in the bitmap, 0 for none.
FirstFree(taken, last) == IF 1..last \subseteq taken THEN 0 ELSE Min((1..last) \ taken)

\* ext2_inode_add_block(), in s the inode, the blocks that are taken and what the blocks hold.
\* i_blocks counts the block before there is one.  A list is allocated after the block that
\* goes into it; when none is left the driver writes the list to block 0.
AddBlock(s) ==
    LET i     == s.inode.i_blocks
        new   == FirstFree(s.taken, Blocks)
        inode == [s.inode EXCEPT !.i_blocks = i + 1]
        taken == s.taken \cup {new}
        old   == inode.i_block[DirectBlocks]
        list  == IF old = 0 THEN FirstFree(taken, Blocks) ELSE old
        empty == [s.content EXCEPT ![list] = [k \in 0..(Cells - 1) |-> 0]]
    IN  IF new = 0 THEN [s EXCEPT !.inode = inode]
        ELSE IF i < DirectBlocks
        THEN [s EXCEPT !.inode = [inode EXCEPT !.i_block[i] = new], !.taken = taken]
        ELSE IF i >= DirectBlocks + Cells \/ list = 0 THEN [s EXCEPT !.full = TRUE]
        ELSE [s EXCEPT !.inode = [inode EXCEPT !.i_block[DirectBlocks] = list],
                       !.taken = taken \cup {list},
                       !.content = [IF old = 0 THEN empty ELSE @ EXCEPT ![list][i - DirectBlocks] = new]]

-----------------------------------------------------------------------------
(* Inodes.                                                                 *)

\* ext2_get_inode() and ext2_write_inode() look for the last inode of a group in the next one.
WrongGroup(n) == n = Inodes

HandlesOf(n) == {h \in DOMAIN handles : handles[h].inode_num = n}

\* The copy of an inode that has the most in it, or the one on the disk.
Newest(n) ==
    LET grown == {h \in HandlesOf(n) : handles[h].inode.i_blocks > disk.inodes[n].i_blocks
                                         \/ handles[h].inode.i_size > disk.inodes[n].i_size}
    IN  IF grown = {} THEN disk.inodes[n] ELSE handles[Min(grown)].inode
Stale(h) == LET own == handles[h].inode
                now == Newest(handles[h].inode_num)
            IN  own.i_size # now.i_size \/ own.i_block # now.i_block \/ own.i_blocks # now.i_blocks

-----------------------------------------------------------------------------
(* The calls.                                                              *)

\* ext2_search_entry(), in the root directory.
SearchEntry(name) == IF name \in DOMAIN disk.root THEN disk.root[name] ELSE 0

\* A file that is not found gets an inode, but no name.  With "clear" it keeps its blocks and
\* its size, and gets a block more.
Fopen(h, name, mode) ==
    LET found == SearchEntry(name)
        n     == IF found # 0 THEN found ELSE FirstFree(fs.inodes, Inodes)
        inode == IF found # 0 THEN disk.inodes[found] ELSE NewInode("file")
        s     == [inode |-> inode, taken |-> fs.blocks, content |-> cells, full |-> FALSE]
        after == IF "clear" \in mode THEN AddBlock(s) ELSE s
    IN  /\ Running /\ h \notin DOMAIN handles /\ h = Min(Handle \ DOMAIN handles) /\ got' = <<>>
        /\ n # 0 /\ (found = 0 => "write" \in mode) /\ inode.type = "file"
        /\ handles' = (h :> [inode_num |-> n, inode |-> after.inode, size |-> inode.i_size,
                             pos |-> 0, mode |-> mode]) @@ handles
        /\ fs' = [blocks |-> after.taken, inodes |-> fs.inodes \cup {n}]
        /\ cells' = after.content
        /\ Note([Orphan |-> found = 0, Group |-> WrongGroup(n), Full |-> after.full,
                 Shared |-> Newest(n) # inode /\ "write" \in mode])
        /\ UNCHANGED disk

\* Up to the size of the inode, if the position is not behind the size when it was opened; a
\* block that is missing ends it.
Fread(h, count) ==
    LET f     == handles[h]
        want  == IF f.pos >= f.size THEN 0 ELSE Min({count, f.inode.i_size - f.pos})
        there == {k \in 0..(want - 1) : \A p \in f.pos..(f.pos + k) :
                     BlockOf(cells, f.inode, p \div Cells) # 0}
        done  == Cardinality(there)
    IN  /\ IsOpen(h)
        /\ got' = <<[k \in 1..done |-> cells[BlockOf(cells, f.inode, (f.pos + k - 1) \div Cells)]
                                            [(f.pos + k - 1) % Cells]]>>
        /\ handles' = [handles EXCEPT ![h].pos = @ + done]
        /\ Note([Shared |-> Stale(h), Size |-> f.pos >= f.size /\ f.pos < f.inode.i_size])
        /\ UNCHANGED <<cells, disk, fs>>

\* A block at a time.  When a block is filled that is the last one, the next is added.
Fwrite(h, data) ==
    LET f     == handles[h]
        end   == f.pos + Len(data)
        next(s) ==
            LET block == BlockOf(s.content, s.inode, s.pos \div Cells)
                upto  == Min({end, (s.pos \div Cells + 1) * Cells})
                wrote == [s EXCEPT !.pos = upto, !.inode.i_size = Max({@, upto}),
                             !.content[block] = [k \in 0..(Cells - 1) |->
                                 LET p == s.pos - (s.pos % Cells) + k
                                 IN  IF p \in s.pos..(upto - 1) THEN data[p - f.pos + 1] ELSE @[k]]]
            IN  IF block = 0 \/ s.pos = end THEN s
                ELSE IF upto \div Cells >= s.inode.i_blocks THEN AddBlock(wrote) ELSE wrote
        turn[j \in 0..Longest] ==
            IF j = 0 THEN [inode |-> f.inode, taken |-> fs.blocks, content |-> cells, full |-> FALSE,
                           pos |-> f.pos]
            ELSE next(turn[j - 1])
        s == turn[Longest]
    IN  /\ IsOpen(h) /\ "write" \in f.mode /\ got' = <<>>
        /\ cells' = s.content /\ fs' = [fs EXCEPT !.blocks = s.taken]
        /\ handles' = [handles EXCEPT ![h].inode = s.inode, ![h].pos = s.pos]
        /\ Note([Full |-> s.full, Shared |-> Stale(h)])
        /\ UNCHANGED disk

\* Not behind the size that the file had when it was opened.
Fsetpos(h, pos) ==
    /\ IsOpen(h) /\ handles' = [handles EXCEPT ![h].pos = Min({pos, handles[h].size})]
    /\ got' = <<>> /\ UNCHANGED <<cells, disk, fs, mishaps>>

\* ext2_flush_bitmaps(), and the inode of a handle that may write.
Fclose(h) ==
    LET n == handles[h].inode_num IN
    /\ IsOpen(h) /\ got' = <<>>
    /\ disk' = [disk EXCEPT !.block_bitmap = fs.blocks, !.inode_bitmap = fs.inodes,
                            !.inodes[n] = IF "write" \in handles[h].mode THEN handles[h].inode ELSE @]
    /\ handles' = Restrict(handles, DOMAIN handles \ {h})
    /\ Note([Shared |-> Stale(h) /\ "write" \in handles[h].mode])
    /\ UNCHANGED <<cells, fs>>

\* ext2_link() makes no entry, and counts it.
Link(name) ==
    LET n == SearchEntry(name) IN
    /\ Running /\ n # 0 /\ disk.inodes[n].i_links_count < 2
    /\ disk' = [disk EXCEPT !.inodes[n].i_links_count = @ + 1]
    /\ got' = <<>> /\ UNCHANGED <<cells, fs, handles, mishaps>>

\* ext2_dmake() makes no entry either: the block and the inode of the directory are lost.
Dmake ==
    LET block == FirstFree(fs.blocks, Blocks)
        n     == FirstFree(fs.inodes, Inodes)
    IN  /\ Running /\ block # 0 /\ got' = <<>>
        /\ fs' = [blocks |-> fs.blocks \cup {block}, inodes |-> fs.inodes \cup ({n} \ {0})]
        /\ disk' = IF n = 0 THEN disk
                   ELSE [disk EXCEPT !.inodes[n] = [NewInode("dir") EXCEPT !.i_blocks = 1,
                                                       !.i_size = Cells, !.i_block[0] = block]]
        /\ Note([Group |-> WrongGroup(n)])
        /\ UNCHANGED <<cells, handles>>

Umount ==
    /\ Running /\ handles = <<>>
    /\ disk' = [disk EXCEPT !.block_bitmap = fs.blocks, !.inode_bitmap = fs.inodes]
    /\ fs' = Unmounted /\ got' = <<>> /\ UNCHANGED <<cells, handles, mishaps>>

Mount ==
    /\ ~Running /\ fs' = [blocks |-> disk.block_bitmap, inodes |-> disk.inode_bitmap]
    /\ got' = <<>> /\ UNCHANGED <<cells, disk, handles, mishaps>>

-----------------------------------------------------------------------------

\* A disk with the files of a layout, the inodes 2, 3 and so on; inode 1 and block 1 are the
\* root directory's.  i_blocks counts what the layout says it counts.
NumberOf(name, layout) == 1 + Cardinality({other \in DOMAIN layout : layout[other].order <= layout[name].order})
Image(layout) ==
    LET file(l) == [NewInode("file") EXCEPT !.i_size = l.size, !.i_blocks = l.units,
                       !.i_block = [i \in 0..DirectBlocks |->
                          IF i = DirectBlocks THEN l.list
                          ELSE IF i < Len(l.blocks) THEN l.blocks[i + 1] ELSE 0]]
        number == [name \in DOMAIN layout |-> NumberOf(name, layout)]
        used   == UNION {Range(layout[name].blocks) \cup {layout[name].list} : name \in DOMAIN layout}
    IN  [root |-> number, block_bitmap |-> {1} \cup (used \ {0}), inode_bitmap |-> {1} \cup Range(number),
         inodes |-> [n \in 1..Inodes |-> IF n \in Range(number)
                        THEN file(layout[CHOOSE name \in DOMAIN layout : number[name] = n])
                        ELSE NewInode("dir")]]
ImageCells(layout) ==
    LET number(b, k) ==
            LET of == {name \in DOMAIN layout : layout[name].list = b}
                i  == DirectBlocks + k + 1
            IN  IF of = {} THEN IF b % 2 = 0 THEN Min(Byte) ELSE 0
                ELSE LET blocks == layout[CHOOSE name \in of : TRUE].blocks
                     IN  IF i \in DOMAIN blocks THEN blocks[i] ELSE 0
    IN  [b \in 1..Blocks |-> [k \in 0..(Cells - 1) |-> number(b, k)]]

Init ==
    /\ \E layout \in Layouts : disk = Image(layout) /\ cells = ImageCells(layout)
    /\ fs = [blocks |-> disk.block_bitmap, inodes |-> disk.inode_bitmap]
    /\ handles = <<>> /\ got = <<>> /\ mishaps = {}

Next ==
    \/ Umount \/ Mount \/ Dmake
    \/ \E name \in DOMAIN disk.root : Link(name)
    \/ \E h \in Handle :
          \/ Fclose(h)
          \/ \E name \in DOMAIN disk.root \cup {"new"}, mode \in {{"read"}, {"read", "write"}, {"write", "clear"}} :
                Fopen(h, name, mode)
          \/ \E count \in 1..Longest : Fread(h, count)
          \/ \E n \in 1..Longest : \E data \in [1..n -> Byte] : Fwrite(h, data)
          \/ \E pos \in Seeks : Fsetpos(h, pos)

\* What comes of a mishap is not followed, unless it is Allowed to happen.
QuietNext == Next /\ mishaps' \subseteq Allowed
Spec == Init /\ [][QuietNext]_vars

-----------------------------------------------------------------------------

\* Every block of a file, of its data and its list, is taken in the bitmap, and it is a block
\* of no other file and of no other place in its own.
BlocksAgree ==
    LET taken == IF Running THEN fs.blocks ELSE disk.block_bitmap
        files == Range(disk.root)
        of    == [n \in files |-> BlocksOf(Newest(n))]
    IN  /\ \A n \in files : of[n] \subseteq taken
        /\ \A n, m \in files : n # m => of[n] \cap of[m] = {}
        /\ \A n \in files : LET b == [i \in 0..(DirectBlocks + Cells - 1) |-> BlockOf(cells, Newest(n), i)] IN
              \A i, j \in DOMAIN b : i # j /\ b[i] # 0 => b[i] # b[j]

\* What the names, the files and the handles are, as FileStore has them.
Seen ==
    LET bytes(inode) == [i \in 1..inode.i_size |->
            LET b == BlockOf(cells, inode, (i - 1) \div Cells) IN IF b = 0 THEN 0 ELSE cells[b][(i - 1) % Cells]]
    IN  [names    |-> disk.root,
         contents |-> [n \in Range(disk.root) |-> bytes(Newest(n))],
         handles  |-> [h \in DOMAIN handles |-> [file |-> handles[h].inode_num,
                                                 position |-> handles[h].pos]],
         got      |-> got]
=============================================================================
