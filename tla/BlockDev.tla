------------------------------ MODULE BlockDev ------------------------------
(***************************************************************************)
(* An open block device (src/src/devices/blockdev/blockdev.c): a file with *)
(* a buffer of one block, over a device that moves whole blocks and may    *)
(* fail.  The ends of a request go through the buffer, the whole blocks in *)
(* its middle go straight to the device.  A call is made of up to three    *)
(* steps, so that each device operation may fail by itself.                *)
(***************************************************************************)
EXTENDS Integers, Sequences, FiniteSetsExt

CONSTANTS
    BlockSize, BlockCount,  \* dev->block_size, dev->block_count
    Byte,                   \* the values of a byte
    MaxRequest,             \* the most bytes a call asks for
    Failing                 \* whether the device may fail

ASSUME SizeAssumption ==
    /\ BlockSize \in Nat /\ BlockSize >= 2
    /\ BlockCount \in Nat /\ BlockCount >= 1
    /\ MaxRequest \in Nat /\ Failing \in BOOLEAN /\ Byte # {}

Size    == BlockSize * BlockCount
NoBlock == -1       \* BLOCKDEV_NO_BLOCK, (uint64_t)(-1)
Offsets == 0..(BlockSize - 1)
Block   == [Offsets -> Byte]

\* The device is a part of a disk: the file's blocks count from first_block_num,
\* block -1 and block BlockCount belong to its neighbours.
Sectors == -1..BlockCount

VARIABLES
    disk,               \* the blocks of the disk
    open, pos,          \* dev->refs # 0, f->std.pos
    block_in_file, pos_in_block, block_in_buffer, buffer_changed, buf,
    pc,                 \* the step of blockdev_freadwrite() that comes next
    writing, tavuja,    \* its parameter write, and the bytes left
    data, got,          \* the bytes left to write, the bytes read
    mishaps             \* history: see Bypass, Past, Lost

file    == <<pos, block_in_file, pos_in_block>>
buffer  == <<block_in_buffer, buffer_changed, buf>>
request == <<writing, tavuja, data, got>>
vars    == <<disk, open, file, buffer, pc, request, mishaps>>

Outcomes == IF Failing THEN BOOLEAN ELSE {TRUE}

Least(a, b) == IF a < b THEN a ELSE b
Zeros == [o \in Offsets |-> CHOOSE b \in Byte : TRUE]

-----------------------------------------------------------------------------
\* dev->write_one_block() of the buffer, where flushed tells whether it succeeds.
\* With no block in the buffer, first_block_num + (uint64_t)(-1) is the block before
\* the first one.
Flush(flushed) == IF flushed THEN [disk EXCEPT ![block_in_buffer] = buf] ELSE disk

BehindEnd(block) == block >= BlockCount

\* blockdev_fill_buffer(): what it may leave behind.  The return value of its
\* blockdev_fflush() is ignored, and buffer_changed stays set if that fails.
FillBuffer ==
    LET unchanged(ok) == [ok |-> ok, disk |-> disk, held |-> block_in_buffer, buf |-> buf,
                          changed |-> buffer_changed, lost |-> FALSE]
        filled(flushed, read, b) ==
            [ok      |-> read,
             disk    |-> IF buffer_changed THEN Flush(flushed) ELSE disk,
             held    |-> IF read THEN block_in_file ELSE NoBlock,
             buf     |-> b,
             changed |-> buffer_changed /\ ~flushed,
             lost    |-> buffer_changed /\ ~flushed]
        onDisk(flushed) == (IF buffer_changed THEN Flush(flushed) ELSE disk)[block_in_file]
    IN  IF block_in_file = block_in_buffer THEN {unchanged(TRUE)}
        ELSE IF BehindEnd(block_in_file) THEN {unchanged(FALSE)}
        ELSE {filled(flushed, TRUE, onDisk(flushed)) : flushed \in Outcomes}
             \cup {filled(flushed, FALSE, b) : flushed \in Outcomes,
                                               b \in IF Failing THEN Block ELSE {}}

\* Mutant: the first bytes of the block are overwritten, wherever the request begins.
PutAtStart(b, o, bytes) ==
    [i \in Offsets |-> IF i < Len(bytes) THEN bytes[i + 1] ELSE b[i]]

\* memcpy(f->buf + o, bytes, ..) and memcpy(.., f->buf + o, n).
Put(b, o, bytes) ==
    [i \in Offsets |-> IF i \in o..(o + Len(bytes) - 1) THEN bytes[i - o + 1] ELSE b[i]]
Take(b, o, n) == [i \in 1..n |-> b[o + i - 1]]

\* Mutant: a write does not mark the buffer.
TransferUnmarked(r, n) ==
    /\ disk' = r.disk /\ block_in_buffer' = r.held
    /\ mishaps' = IF r.lost THEN mishaps \cup {"Lost"} ELSE mishaps
    /\ buf' = IF r.ok /\ writing THEN Put(r.buf, pos_in_block, SubSeq(data, 1, n)) ELSE r.buf
    /\ buffer_changed' = r.changed
    /\ got' = IF r.ok /\ ~writing THEN got \o Take(r.buf, pos_in_block, n) ELSE got
    /\ data' = IF r.ok /\ writing THEN SubSeq(data, n + 1, Len(data)) ELSE data
    /\ tavuja' = IF r.ok THEN tavuja - n ELSE tavuja

\* n bytes between the buffer, as blockdev_fill_buffer() left it, and the caller.
Transfer(r, n) ==
    /\ disk' = r.disk /\ block_in_buffer' = r.held
    /\ mishaps' = IF r.lost THEN mishaps \cup {"Lost"} ELSE mishaps
    /\ buf' = IF r.ok /\ writing THEN Put(r.buf, pos_in_block, SubSeq(data, 1, n)) ELSE r.buf
    /\ buffer_changed' = (r.changed \/ (r.ok /\ writing))
    /\ got' = IF r.ok /\ ~writing THEN got \o Take(r.buf, pos_in_block, n) ELSE got
    /\ data' = IF r.ok /\ writing THEN SubSeq(data, n + 1, Len(data)) ELSE data
    /\ tavuja' = IF r.ok THEN tavuja - n ELSE tavuja

-----------------------------------------------------------------------------
(* blockdev_freadwrite().                                                  *)

Call ==
    /\ open /\ pc = "idle"
    /\ \E n \in 1..MaxRequest :
          \/ writing' = FALSE /\ tavuja' = n /\ data' = <<>>
          \/ writing' = TRUE /\ tavuja' = n /\ data' \in [1..n -> Byte]
    /\ got' = <<>>
    /\ pc' = IF pos_in_block # 0 THEN "first" ELSE "whole"
    /\ UNCHANGED <<disk, open, file, buffer, mishaps>>

\* The bytes up to the end of the block, if the position is inside one.
FirstBytes ==
    LET jaljella == BlockSize - pos_in_block
        hoida    == Least(tavuja, jaljella)
    IN  /\ pc = "first"
        /\ \E r \in FillBuffer :
              /\ Transfer(r, hoida)
              /\ pos_in_block' = IF ~r.ok THEN pos_in_block
                                 ELSE IF hoida < jaljella THEN pos_in_block + hoida ELSE 0
              /\ block_in_file' = IF r.ok /\ hoida = jaljella THEN block_in_file + 1
                                  ELSE block_in_file
              /\ pc' = IF r.ok /\ hoida = jaljella THEN "whole" ELSE "return"
        /\ UNCHANGED <<open, pos, writing>>

\* What the device holds after n of the whole blocks were written.
Written(n) ==
    [s \in Sectors |->
        IF s \in block_in_file..(block_in_file + n - 1)
        THEN LET at == (s - block_in_file) * BlockSize
             IN  [o \in Offsets |-> data[at + o + 1]]
        ELSE disk[s]]

\* The bytes of the n whole blocks from the position on, as the device holds them.
Stored(n) ==
    [i \in 1..(n * BlockSize) |->
        disk[block_in_file + (i - 1) \div BlockSize][(i - 1) % BlockSize]]

\* How far the position and the caller's buffer move for n blocks transferred.
Pass(n) == n

\* The whole blocks, straight between the device and the caller: as many as the device
\* manages.  The buffer is not looked at, nor the end of the file.
WholeBlocks ==
    LET maara   == tavuja \div BlockSize
        touched == {s \in Sectors : s \in block_in_file..(block_in_file + maara - 1)}
        able    == IF Failing THEN 0..Cardinality(touched) ELSE {Cardinality(touched)}
        bypass  == block_in_buffer \in touched /\ (writing \/ buffer_changed)
        past    == maara > 0 /\ block_in_file + maara > BlockCount
    IN  /\ pc = "whole"
        /\ \E n \in able :
              LET bytes == Pass(n) * BlockSize
              IN  /\ disk' = IF writing THEN Written(n) ELSE disk
                  /\ got'  = IF writing THEN got ELSE got \o Stored(n)
                  /\ data' = IF writing THEN SubSeq(data, bytes + 1, Len(data)) ELSE data
                  /\ tavuja' = tavuja - bytes
                  /\ block_in_file' = block_in_file + Pass(n)
                  /\ pc' = IF n < maara \/ tavuja' = 0 THEN "return" ELSE "last"
        /\ mishaps' = mishaps \cup (IF bypass THEN {"Bypass"} ELSE {})
                              \cup (IF past THEN {"Past"} ELSE {})
        /\ UNCHANGED <<open, pos, pos_in_block, buffer, writing>>

\* The bytes that are left, at the start of the next block.
LastBytes ==
    /\ pc = "last"
    /\ \E r \in FillBuffer :
          /\ Transfer(r, tavuja)
          /\ pos_in_block' = IF r.ok THEN pos_in_block + tavuja ELSE pos_in_block
    /\ pc' = "return"
    /\ UNCHANGED <<open, pos, block_in_file, writing>>

Return ==
    /\ pc = "return"
    /\ pos' = pos_in_block + block_in_file * BlockSize
    /\ pc' = "idle" /\ writing' = FALSE /\ tavuja' = 0 /\ data' = <<>> /\ got' = <<>>
    /\ UNCHANGED <<disk, open, block_in_file, pos_in_block, buffer, mishaps>>

-----------------------------------------------------------------------------
(* The other calls.                                                        *)

\* blockdev_fopen(): a new BD_FILE, zeroed by kcalloc().
Fopen ==
    /\ ~open
    /\ open' = TRUE
    /\ pos' = 0 /\ block_in_file' = 0 /\ pos_in_block' = 0
    /\ block_in_buffer' = NoBlock /\ buffer_changed' = FALSE /\ buf' = Zeros
    /\ UNCHANGED <<disk, pc, request, mishaps>>

\* blockdev_fsetpos(), which accepts the end of the file and nothing behind it.
Fsetpos ==
    /\ open /\ pc = "idle"
    /\ \E p \in 0..Size :
          /\ pos' = p
          /\ block_in_file' = p \div BlockSize
          /\ pos_in_block' = p % BlockSize
    /\ UNCHANGED <<disk, open, buffer, pc, request, mishaps>>

Fflush ==
    /\ open /\ pc = "idle" /\ buffer_changed
    /\ \E flushed \in Outcomes :
          disk' = Flush(flushed) /\ buffer_changed' = ~flushed
    /\ UNCHANGED <<open, file, block_in_buffer, buf, pc, request, mishaps>>

\* blockdev_fclose(): the file is freed whether or not the flush succeeds.
Fclose ==
    /\ open /\ pc = "idle"
    /\ \E flushed \in IF buffer_changed THEN Outcomes ELSE {TRUE} :
          /\ disk' = IF buffer_changed THEN Flush(flushed) ELSE disk
          /\ mishaps' = IF flushed THEN mishaps ELSE mishaps \cup {"Lost"}
    /\ open' = FALSE
    /\ block_in_buffer' = NoBlock /\ buffer_changed' = FALSE /\ buf' = Zeros
    /\ UNCHANGED <<file, pc, request>>

Init ==
    /\ disk = [s \in Sectors |-> Zeros]
    /\ open = FALSE /\ pos = 0 /\ block_in_file = 0 /\ pos_in_block = 0
    /\ block_in_buffer = NoBlock /\ buffer_changed = FALSE /\ buf = Zeros
    /\ pc = "idle" /\ writing = FALSE /\ tavuja = 0 /\ data = <<>> /\ got = <<>>
    /\ mishaps = {}

Next == Fopen \/ Fsetpos \/ Fflush \/ Fclose \/ Call
            \/ FirstBytes \/ WholeBlocks \/ LastBytes \/ Return

Spec == Init /\ [][Next]_vars

\* No mishap of the given kinds happens:
\*   Bypass: whole blocks are written under the buffer, or read under a changed one;
\*   Past:   whole blocks behind the end of the device are asked for;
\*   Lost:   a changed buffer could not be written and is given up.
Without(kinds) == mishaps \cap kinds = {}
QuietNext == Next /\ mishaps' = {}
QuietSpec == Init /\ [][QuietNext]_vars

-----------------------------------------------------------------------------
(* Properties.                                                             *)

TypeOK ==
    /\ disk \in [Sectors -> Block] /\ open \in BOOLEAN
    /\ pos \in Nat /\ block_in_file \in 0..(BlockCount + 1) /\ pos_in_block \in Offsets
    /\ block_in_buffer \in {NoBlock} \cup 0..(BlockCount - 1)
    /\ buffer_changed \in BOOLEAN /\ buf \in Block
    /\ pc \in {"idle", "first", "whole", "last", "return"}
    /\ writing \in BOOLEAN /\ tavuja \in 0..MaxRequest
    /\ data \in Seq(Byte) /\ got \in Seq(Byte)
    /\ mishaps \subseteq {"Bypass", "Past", "Lost"}

Position == pos_in_block + block_in_file * BlockSize

\* The file as its reader sees it: the buffered block hides the device's.
Contents ==
    [i \in 0..(Size - 1) |->
        LET b == i \div BlockSize
        IN  (IF b = block_in_buffer THEN buf ELSE disk[b])[i % BlockSize]]

\* Whatever requests are made, split over the buffer and the device, and whichever
\* of the device operations fail: a call moves just the bytes it says, in order, at
\* the position, and no other byte of the file changes.
AsByteFile == INSTANCE ByteFile WITH
    contents <- Contents, position <- Position, given <- data, taken <- got
ImplementsByteFile == AsByteFile!Spec

\* An unchanged buffer holds what the device holds, so that a successful fflush() or
\* fclose() leaves nothing unwritten, even if a flush before it failed.
CleanBufferIsStored ==
    Without({"Bypass"}) /\ block_in_buffer # NoBlock /\ ~buffer_changed
        => buf = disk[block_in_buffer]
=============================================================================
