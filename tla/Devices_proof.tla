--------------------------- MODULE Devices_proof ---------------------------
(***************************************************************************)
(* The block devices and the drives.  An open block device is a file of    *)
(* bytes, for blocks of any size and number and requests of any length.  A *)
(* floppy drive moves the block it was asked for and leaves no motor       *)
(* running, for disks of any size and any number of drives.  A hard disk   *)
(* or CD-ROM drive moves the sectors it is asked for and locks a disc that *)
(* is open, for drives of any size and any number of threads.  The         *)
(* partitions of a hard disk are found, whatever its tables say.           *)
(***************************************************************************)
EXTENDS BlockDev, Floppy, Ide, Partitions, FiniteSetTheorems, SequenceTheorems, TLAPS

-----------------------------------------------------------------------------
(* The place of a byte: its block and its offset there.                    *)

\* Quotient and remainder.
LEMMA Division ==
  ASSUME NEW m \in Nat, NEW R \in Nat \ {0}
  PROVE  /\ m \div R \in Nat /\ m % R \in 0..(R - 1)
         /\ m = R * (m \div R) + (m % R)
  OBVIOUS

\* Products are ordered as their factors.
LEMMA ProductsAscend ==
    ASSUME NEW a \in Nat, NEW b \in Nat, NEW c \in Nat, a <= b
    PROVE  a * c \in Nat /\ b * c \in Nat /\ a * c <= b * c
  OBVIOUS

\* The product of a sum, or of a difference.
LEMMA ProductOfSum ==
    ASSUME NEW a \in Int, NEW b \in Int, NEW c \in Int
    PROVE  /\ a * c \in Int /\ b * c \in Int
           /\ (a + b) * c = a * c + b * c /\ (a - b) * c = a * c - b * c
  OBVIOUS

\* A number has one quotient and one remainder.
LEMMA DivisionIsOne ==
    ASSUME NEW S \in Nat \ {0}, NEW b \in Nat, NEW o \in 0..S - 1, NEW i \in Nat, i = b * S + o
    PROVE  i \div S = b /\ i % S = o
<1>1. PICK d, m : d = i \div S /\ m = i % S
  OBVIOUS
<1>2. /\ d \in Nat /\ m \in Nat /\ m < S /\ o \in Nat /\ o < S /\ d * S \in Nat /\ i = d * S + m
  <2>1. d \in Nat /\ m \in 0..(S - 1) /\ i = S * d + m
    BY <1>1, Division
  <2>2. S * d = d * S /\ d * S \in Nat
    BY <2>1
  <2> QED BY <2>1, <2>2
<1>3. (d - b) * S = o - m
  BY <1>2, ProductOfSum
<1>4. d - b = 0
  <2>1. CASE d - b >= 1
    <3>1. 1 * S <= (d - b) * S
      BY <1>2, <2>1, ProductsAscend
    <3> QED BY <1>2, <1>3, <3>1
  <2>2. CASE b - d >= 1
    <3>1. 1 * S <= (b - d) * S
      BY <1>2, <2>2, ProductsAscend
    <3>2. (b - d) * S = m - o
      BY <1>2, ProductOfSum
    <3> QED BY <1>2, <3>1, <3>2
  <2> QED BY <1>2, <2>1, <2>2
<1> QED BY <1>1, <1>2, <1>3, <1>4

\* A place is the offset behind the blocks in front.
LEMMA Places ==
    ASSUME NEW i \in Nat
    PROVE  /\ BlockSize \in Nat /\ BlockSize > 0
           /\ i \div BlockSize \in Nat /\ i % BlockSize \in Offsets /\ i % BlockSize \in Nat
           /\ (i \div BlockSize) * BlockSize \in Nat
           /\ i = (i \div BlockSize) * BlockSize + (i % BlockSize)
  BY SizeAssumption DEF Offsets

\* Nothing else is.
LEMMA PlaceIsOne ==
    ASSUME NEW b \in Nat, NEW o \in Offsets, NEW i \in Nat, i = b * BlockSize + o
    PROVE  i \div BlockSize = b /\ i % BlockSize = o
  BY SizeAssumption, DivisionIsOne DEF Offsets

\* The bytes of some blocks are in these blocks.
LEMMA PlacesWithin ==
    ASSUME NEW n \in Nat, NEW i \in Nat, i < n * BlockSize
    PROVE  i \div BlockSize < n
<1>1. PICK d, S : d = i \div BlockSize /\ S = BlockSize
  OBVIOUS
<1>2. S \in Nat /\ d \in Nat /\ d * S \in Nat /\ d * S <= i /\ i < n * S
  BY <1>1, Places
<1>3. CASE n <= d
  <2>1. n * S <= d * S
    BY <1>2, <1>3, ProductsAscend
  <2> QED BY <1>2, <2>1
<1> QED BY <1>1, <1>2, <1>3

\* A block of zeros is one.
LEMMA ZerosOK == Zeros \in Block
  BY SizeAssumption DEF Zeros, Block

-----------------------------------------------------------------------------
(* The invariant.                                                          *)

Types ==
    /\ disk \in [Sectors -> Block] /\ open \in BOOLEAN
    /\ pos \in Nat /\ block_in_file \in 0..(BlockCount + 1) /\ pos_in_block \in Offsets
    /\ block_in_buffer \in {NoBlock} \cup 0..(BlockCount - 1)
    /\ buffer_changed \in BOOLEAN /\ buf \in Block
    /\ pc \in {"idle", "first", "whole", "last", "return"}
    /\ writing \in BOOLEAN /\ tavuja \in Nat
    /\ data \in Seq(Byte) /\ got \in Seq(Byte)
    /\ mishaps \subseteq {"Bypass", "Past", "Lost"}

\* What a call has left to do, and where it goes on.
RequestOK ==
    /\ writing => Len(data) = tavuja
    /\ pc \in {"first", "last"} => tavuja > 0
    /\ pc \in {"whole", "last"} => pos_in_block = 0
    /\ pc = "last" => tavuja < BlockSize

\* A file that is not open has no buffer and is in no call.
ClosedOK == ~open => block_in_buffer = NoBlock /\ ~buffer_changed /\ pc = "idle"

IInv == Types /\ RequestOK /\ ClosedOK /\ CleanBufferIsStored

\* The outcomes of blockdev_fill_buffer(): the buffer has the block already; or there is no
\* such block; or the buffer is written, if it is changed and the device does so, and the
\* block read, or no block is in the buffer.
Kept(r) ==
    /\ r.disk = disk /\ r.held = block_in_buffer /\ r.buf = buf
    /\ r.changed = buffer_changed /\ r.lost = FALSE
Refilled(r, flushed) ==
    /\ r.ok \in BOOLEAN /\ r.buf \in Block
    /\ r.disk = (IF buffer_changed THEN Flush(flushed) ELSE disk)
    /\ r.held = (IF r.ok THEN block_in_file ELSE NoBlock)
    /\ r.changed \in BOOLEAN /\ (r.changed <=> buffer_changed /\ ~flushed)
    /\ r.lost \in BOOLEAN /\ (r.lost <=> buffer_changed /\ ~flushed)
    /\ r.ok => r.buf = r.disk[block_in_file]

Filled(flushed, read, b) ==
    [ok |-> read, disk |-> IF buffer_changed THEN Flush(flushed) ELSE disk,
     held |-> IF read THEN block_in_file ELSE NoBlock, buf |-> b,
     changed |-> buffer_changed /\ ~flushed, lost |-> buffer_changed /\ ~flushed]

AnyBlock   == IF Failing THEN Block ELSE {}
WhenRead   == {Filled(flushed, TRUE, (IF buffer_changed THEN Flush(flushed) ELSE disk)[block_in_file]) :
                  flushed \in Outcomes}
WhenFailed == {Filled(flushed, FALSE, b) : flushed \in Outcomes, b \in AnyBlock}

\* What blockdev_fflush() writes is the buffer, at the block it belongs to, and nothing else.
LEMMA FlushOK ==
    ASSUME Types, NEW flushed \in BOOLEAN
    PROVE  /\ Flush(flushed) \in [Sectors -> Block]
           /\ flushed /\ block_in_buffer \in Sectors => Flush(flushed)[block_in_buffer] = buf
           /\ \A s \in Sectors : s # block_in_buffer => Flush(flushed)[s] = disk[s]
  BY DEF Types, Flush

\* What blockdev_fill_buffer() may leave: the block asked for in the buffer, or an error, with the
\* old block on the disk unless it was lost.
LEMMA FillBufferOutcomes ==
    ASSUME Types, NEW r \in FillBuffer
    PROVE  \/ block_in_file = block_in_buffer /\ r.ok = TRUE /\ Kept(r)
           \/ block_in_file # block_in_buffer /\ BehindEnd(block_in_file) /\ r.ok = FALSE /\ Kept(r)
           \/ /\ block_in_file # block_in_buffer /\ ~BehindEnd(block_in_file)
              /\ \E flushed \in BOOLEAN : Refilled(r, flushed)
<1>1. CASE block_in_file = block_in_buffer
  BY <1>1 DEF FillBuffer, Kept
<1>2. CASE block_in_file # block_in_buffer /\ BehindEnd(block_in_file)
  BY <1>2 DEF FillBuffer, Kept
<1>3. CASE block_in_file # block_in_buffer /\ ~BehindEnd(block_in_file)
  <2>1. Outcomes \subseteq BOOLEAN
    BY DEF Outcomes
  <2>2. block_in_file \in Sectors
    BY <1>3, SizeAssumption DEF Types, BehindEnd, Sectors
  <2>3. PICK flushed \in BOOLEAN, read \in BOOLEAN, b \in Block :
           /\ r = Filled(flushed, read, b)
           /\ read => b = (IF buffer_changed THEN Flush(flushed) ELSE disk)[block_in_file]
    <3>1. \A flushed \in BOOLEAN : (IF buffer_changed THEN Flush(flushed) ELSE disk)[block_in_file] \in Block
      BY <2>2, FlushOK DEF Types
    <3>2. FillBuffer = WhenRead \cup WhenFailed
      BY <1>3 DEF FillBuffer, Filled, WhenRead, WhenFailed, AnyBlock
    <3>3. CASE r \in WhenRead
      <4>1. PICK flushed \in Outcomes :
               r = Filled(flushed, TRUE, (IF buffer_changed THEN Flush(flushed) ELSE disk)[block_in_file])
        BY <3>3 DEF WhenRead
      <4> QED BY <2>1, <3>1, <4>1
    <3>4. CASE r \in WhenFailed
      <4>1. PICK flushed \in Outcomes, b \in AnyBlock : r = Filled(flushed, FALSE, b)
        BY <3>4 DEF WhenFailed, Filled
      <4>2. flushed \in BOOLEAN /\ b \in Block
        BY <2>1, <4>1 DEF AnyBlock
      <4> QED BY <4>1, <4>2
    <3> QED BY <3>2, <3>3, <3>4
  <2>4. Refilled(r, flushed)
    BY <2>3 DEF Filled, Refilled
  <2> QED BY <1>3, <2>4
<1> QED BY <1>1, <1>2, <1>3

\* A sequence is cut in two.
LEMMA Cut ==
    ASSUME NEW s \in Seq(Byte), NEW n \in Nat, n <= Len(s)
    PROVE  /\ SubSeq(s, 1, n) \in Seq(Byte) /\ Len(SubSeq(s, 1, n)) = n
           /\ \A i \in 1..n : SubSeq(s, 1, n)[i] = s[i] /\ s[i] \in Byte
           /\ SubSeq(s, n + 1, Len(s)) \in Seq(Byte) /\ Len(SubSeq(s, n + 1, Len(s))) = Len(s) - n
  OBVIOUS

\* A function on the first numbers is a sequence; appended to another it gives one.
LEMMA Appended ==
    ASSUME NEW s \in Seq(Byte), NEW n \in Nat, NEW f \in [1..n -> Byte]
    PROVE  f \in Seq(Byte) /\ s \o f \in Seq(Byte)
<1>1. f \in Seq(Byte)
  BY SeqDef
<1> QED BY <1>1

\* The bytes moved between the buffer and the caller are bytes.
LEMMA PutOK ==
    ASSUME NEW b \in Block, NEW o \in Offsets, NEW s \in Seq(Byte), o + Len(s) <= BlockSize
    PROVE  Put(b, o, s) \in Block
<1>1. BlockSize \in Nat /\ o \in Nat /\ Len(s) \in Nat
  BY SizeAssumption DEF Offsets
<1>2. ASSUME NEW i \in Offsets PROVE (IF i \in o..(o + Len(s) - 1) THEN s[i - o + 1] ELSE b[i]) \in Byte
  <2>1. i \in Nat
    BY DEF Offsets
  <2>2. CASE i \in o..(o + Len(s) - 1)
    <3>1. i - o + 1 \in 1..Len(s)
      BY <1>1, <2>1, <2>2
    <3> QED BY <2>2, <3>1
  <2>3. CASE i \notin o..(o + Len(s) - 1)
    BY <2>3 DEF Block
  <2> QED BY <2>2, <2>3
<1> QED BY <1>2 DEF Put, Block

\* The bytes copied out of a buffer are bytes.
LEMMA TakeOK ==
    ASSUME NEW b \in Block, NEW o \in Offsets, NEW n \in Nat, o + n <= BlockSize
    PROVE  Take(b, o, n) \in [1..n -> Byte]
<1>1. ASSUME NEW i \in 1..n PROVE b[o + i - 1] \in Byte
  <2>1. o + i - 1 \in Offsets
    BY SizeAssumption DEF Offsets
  <2> QED BY <2>1 DEF Block
<1> QED BY <1>1 DEF Take

\* What blockdev_fill_buffer() leaves behind.
Buffered(r) ==
    /\ r.ok \in BOOLEAN /\ r.buf \in Block /\ r.disk \in [Sectors -> Block]
    /\ r.held \in {NoBlock} \cup 0..(BlockCount - 1) /\ r.changed \in BOOLEAN /\ r.lost \in BOOLEAN
    /\ r.ok => block_in_file \in 0..(BlockCount - 1)
    /\ "Bypass" \notin mishaps /\ r.held # NoBlock /\ ~r.changed => r.buf = r.disk[r.held]

\* What a transfer through the buffer leaves behind.
LEMMA TransferOK ==
    ASSUME IInv, NEW r \in FillBuffer, NEW n \in Nat, n <= tavuja, pos_in_block + n <= BlockSize,
           Transfer(r, n)
    PROVE  /\ disk' \in [Sectors -> Block] /\ block_in_buffer' \in {NoBlock} \cup 0..(BlockCount - 1)
           /\ buffer_changed' \in BOOLEAN /\ buf' \in Block
           /\ tavuja' \in Nat /\ data' \in Seq(Byte) /\ got' \in Seq(Byte)
           /\ mishaps' \subseteq {"Bypass", "Past", "Lost"}
           /\ r.ok \in BOOLEAN /\ (r.ok => block_in_file \in 0..(BlockCount - 1))
           /\ tavuja' = (IF r.ok THEN tavuja - n ELSE tavuja)
           /\ writing => Len(data') = tavuja'
           /\ CleanBufferIsStored'
<1>1. Types /\ RequestOK /\ CleanBufferIsStored
  BY DEF IInv
<1>2. BlockCount \in Nat /\ NoBlock \notin 0..(BlockCount - 1)
  BY SizeAssumption DEF NoBlock
<1>3. Buffered(r)
  <2>1. CASE block_in_file = block_in_buffer /\ r.ok = TRUE /\ Kept(r)
    <3>1. block_in_file \in 0..(BlockCount - 1) /\ block_in_buffer # NoBlock
      BY <1>1, <1>2, <2>1 DEF Types, NoBlock
    <3>2. r.ok \in BOOLEAN /\ r.lost \in BOOLEAN
      BY <2>1 DEF Kept
    <3>3. /\ r.buf \in Block /\ r.disk \in [Sectors -> Block] /\ r.changed \in BOOLEAN
          /\ r.held \in {NoBlock} \cup 0..(BlockCount - 1)
      BY <1>1, <2>1 DEF Kept, Types
    <3>4. "Bypass" \notin mishaps /\ r.held # NoBlock /\ ~r.changed => r.buf = r.disk[r.held]
      BY <1>1, <2>1 DEF Kept, CleanBufferIsStored, Without
    <3> QED BY <3>1, <3>2, <3>3, <3>4 DEF Buffered
  <2>2. CASE r.ok = FALSE /\ Kept(r)
    BY <1>1, <1>2, <2>2 DEF Kept, Types, CleanBufferIsStored, Without, Buffered
  <2>3. ASSUME NEW flushed \in BOOLEAN, Refilled(r, flushed), ~BehindEnd(block_in_file)
        PROVE  Buffered(r)
    <3>1. r.disk \in [Sectors -> Block]
      BY <1>1, <2>3, FlushOK DEF Refilled, Types
    <3>2. block_in_file \in 0..(BlockCount - 1)
      BY <1>1, <1>2, <2>3 DEF BehindEnd, Types
    <3> QED BY <2>3, <3>1, <3>2 DEF Refilled, Buffered
  <2> QED BY <1>1, <2>1, <2>2, <2>3, FillBufferOutcomes
<1>4. /\ disk' = r.disk /\ block_in_buffer' = r.held
      /\ mishaps' = IF r.lost THEN mishaps \cup {"Lost"} ELSE mishaps
      /\ tavuja' = IF r.ok THEN tavuja - n ELSE tavuja
      /\ buffer_changed' \in BOOLEAN /\ (buffer_changed' <=> r.changed \/ (r.ok /\ writing))
  BY <1>1, <1>3 DEF Transfer, Buffered, Types
<1>5. buf' \in Block /\ (~(r.ok /\ writing) => buf' = r.buf)
  <2>1. CASE r.ok /\ writing
    <3>1. SubSeq(data, 1, n) \in Seq(Byte) /\ Len(SubSeq(data, 1, n)) = n
      BY <1>1, <2>1, Cut DEF Types, RequestOK
    <3>2. Put(r.buf, pos_in_block, SubSeq(data, 1, n)) \in Block
      BY <1>1, <1>3, <3>1, PutOK DEF Types, Buffered
    <3> QED BY <2>1, <3>2 DEF Transfer
  <2>2. CASE ~(r.ok /\ writing)
    BY <1>3, <2>2 DEF Transfer, Buffered
  <2> QED BY <2>1, <2>2
<1>6. data' \in Seq(Byte) /\ (writing => Len(data') = tavuja')
  <2>1. CASE r.ok /\ writing
    <3>1. SubSeq(data, n + 1, Len(data)) \in Seq(Byte) /\ Len(SubSeq(data, n + 1, Len(data))) = Len(data) - n
      BY <1>1, <2>1, Cut DEF Types, RequestOK
    <3> QED BY <1>1, <1>4, <2>1, <3>1 DEF Transfer, RequestOK
  <2>2. CASE ~(r.ok /\ writing)
    BY <1>1, <1>3, <1>4, <2>2 DEF Transfer, Buffered, Types, RequestOK
  <2> QED BY <2>1, <2>2
<1>7. got' \in Seq(Byte)
  <2>1. Take(r.buf, pos_in_block, n) \in [1..n -> Byte]
    BY <1>1, <1>3, TakeOK DEF Types, Buffered
  <2>2. got \o Take(r.buf, pos_in_block, n) \in Seq(Byte)
    BY <1>1, <2>1, Appended DEF Types
  <2> QED BY <1>1, <2>2 DEF Transfer, Types
<1>8. tavuja' \in Nat
  BY <1>1, <1>4 DEF Types
<1>9. CleanBufferIsStored'
  <2>1. CASE r.ok /\ writing
    BY <1>4, <2>1 DEF CleanBufferIsStored
  <2>2. CASE ~(r.ok /\ writing)
    BY <1>3, <1>4, <1>5, <2>2 DEF CleanBufferIsStored, Buffered, Without
  <2> QED BY <2>1, <2>2
<1> QED BY <1>1, <1>3, <1>4, <1>5, <1>6, <1>7, <1>8, <1>9 DEF Buffered, Types

-----------------------------------------------------------------------------
(* Every step keeps the invariant.                                         *)

\* The blocks of the disk among those asked for.
Touched(count) == {s \in Sectors : s \in block_in_file..(block_in_file + count - 1)}

\* The blocks that a request may touch: as many as it asks for, as far as the disk goes.
LEMMA TouchedOK ==
    ASSUME Types, NEW count \in Nat
    PROVE  /\ IsFiniteSet(Touched(count)) /\ Cardinality(Touched(count)) \in Nat
           /\ Cardinality(Touched(count)) <= count
           /\ block_in_file + Cardinality(Touched(count)) <= BlockCount + 1
           /\ block_in_file + count <= BlockCount => Cardinality(Touched(count)) = count
<1>1. PICK f, b : f = block_in_file /\ b = (IF f + count - 1 <= BlockCount THEN f + count - 1 ELSE BlockCount)
  OBVIOUS
<1>2. f \in Int /\ b \in Int /\ f >= 0 /\ f <= BlockCount + 1 /\ BlockCount \in Nat
  BY <1>1, SizeAssumption DEF Types
<1>3. Touched(count) = f..b
  BY <1>1, <1>2 DEF Touched, Sectors
<1>4. IsFiniteSet(f..b) /\ Cardinality(f..b) = (IF f > b THEN 0 ELSE b - f + 1)
  BY <1>2, FS_Interval
<1> QED BY <1>1, <1>2, <1>3, <1>4

\* Whole blocks written leave blocks.
LEMMA WrittenOK ==
    ASSUME Types, NEW n \in Nat, n * BlockSize <= Len(data)
    PROVE  Written(n) \in [Sectors -> Block]
<1>1. PICK S, f : S = BlockSize /\ f = block_in_file
  OBVIOUS
<1>2. S \in Nat /\ f \in Nat /\ data \in Seq(Byte) /\ Len(data) \in Nat
  BY <1>1, SizeAssumption DEF Types
<1>3. ASSUME NEW s \in Sectors, s \in f..(f + n - 1), NEW o \in Offsets
      PROVE  data[(s - f) * S + o + 1] \in Byte
  <2>1. PICK k : k = s - f
    OBVIOUS
  <2>2. k \in Nat /\ k + 1 <= n /\ o \in Nat /\ o < S
    BY <1>1, <1>2, <1>3, <2>1, SizeAssumption DEF Sectors, Offsets
  <2>3. (k + 1) * S <= n * S /\ (k + 1) * S = k * S + S /\ k * S \in Nat /\ n * S \in Nat
    <3>1. (k + 1) * S = k * S + 1 * S
      BY <1>2, <2>2, ProductOfSum
    <3> QED BY <1>2, <2>2, <3>1, ProductsAscend
  <2>4. k * S + o + 1 \in 1..Len(data)
    BY <1>1, <1>2, <2>2, <2>3
  <2> QED BY <1>2, <2>1, <2>4
<1>4. ASSUME NEW s \in Sectors, s \in f..(f + n - 1)
      PROVE  [o \in Offsets |-> data[(s - f) * S + o + 1]] \in Block
  BY <1>3, <1>4 DEF Block
<1>5. Written(n) = [s \in Sectors |-> IF s \in f..(f + n - 1) THEN [o \in Offsets |-> data[(s - f) * S + o + 1]]
                                      ELSE disk[s]]
  BY <1>1 DEF Written
<1>6. disk \in [Sectors -> Block]
  BY DEF Types
<1> QED BY <1>4, <1>5, <1>6

\* Whole blocks read are bytes.
LEMMA StoredOK ==
    ASSUME Types, NEW n \in Nat, block_in_file + n <= BlockCount + 1
    PROVE  n * BlockSize \in Nat /\ Stored(n) \in [1..(n * BlockSize) -> Byte]
<1>1. PICK S, f : S = BlockSize /\ f = block_in_file
  OBVIOUS
<1>2. S \in Nat /\ f \in Nat /\ n * S \in Nat /\ f + n <= BlockCount + 1 /\ BlockCount \in Nat
  BY <1>1, SizeAssumption DEF Types
<1>3. ASSUME NEW i \in 1..(n * S)
      PROVE  disk[f + ((i - 1) \div S)][(i - 1) % S] \in Byte
  <2>1. PICK j \in Nat : j = i - 1 /\ j < n * S
    BY <1>2
  <2>2. j \div S \in Nat /\ j \div S < n /\ j % S \in Offsets
    BY <1>1, <2>1, Places, PlacesWithin
  <2>3. f + (j \div S) \in Sectors
    BY <1>2, <2>2 DEF Sectors
  <2> QED BY <2>1, <2>2, <2>3 DEF Types, Block
<1> QED BY <1>1, <1>2, <1>3 DEF Stored

\* Each action keeps the invariant.
LEMMA InitialInvariant == Init => IInv
<1> SUFFICES ASSUME Init PROVE IInv
  OBVIOUS
<1>1. BlockSize \in Nat /\ BlockCount \in Nat /\ BlockSize >= 2
  BY SizeAssumption
<1>2. Types
  <2>1. disk \in [Sectors -> Block] /\ buf \in Block
    BY ZerosOK DEF Init
  <2>2. data \in Seq(Byte) /\ got \in Seq(Byte)
    BY DEF Init
  <2>3. pos \in Nat /\ block_in_file \in 0..(BlockCount + 1) /\ pos_in_block \in Offsets /\ tavuja \in Nat
    BY <1>1 DEF Init, Offsets
  <2> QED BY <2>1, <2>2, <2>3 DEF Init, Types
<1> QED BY <1>1, <1>2 DEF Init, IInv, RequestOK, ClosedOK, CleanBufferIsStored

LEMMA CallStep == ASSUME IInv, Call PROVE IInv'
<1>1. Types /\ RequestOK /\ ClosedOK /\ CleanBufferIsStored
  BY DEF IInv
<1>2. PICK n \in 1..MaxRequest :
         \/ writing' = FALSE /\ tavuja' = n /\ data' = <<>>
         \/ writing' = TRUE /\ tavuja' = n /\ data' \in [1..n -> Byte]
  BY DEF Call
<1>3. n \in Nat /\ n > 0 /\ <<>> \in Seq(Byte)
  BY SizeAssumption
<1>4. writing' \in BOOLEAN /\ tavuja' = n
  BY <1>2
<1>5. data' \in Seq(Byte) /\ (writing' => Len(data') = n)
  <2>1. CASE writing' = FALSE /\ tavuja' = n /\ data' = <<>>
    BY <2>1, <1>3
  <2>2. CASE data' \in [1..n -> Byte]
    BY <1>3, <2>2, Appended, LenProperties
  <2> QED BY <1>2, <2>1, <2>2
<1>6. /\ pc' = (IF pos_in_block # 0 THEN "first" ELSE "whole") /\ got' = <<>>
      /\ UNCHANGED <<disk, open, file, buffer, mishaps>> /\ open
  BY DEF Call
<1>7. Types'
  BY <1>1, <1>3, <1>4, <1>5, <1>6 DEF Types, file, buffer
<1>8. RequestOK'
  BY <1>3, <1>4, <1>5, <1>6 DEF RequestOK, file
<1>9. ClosedOK' /\ CleanBufferIsStored'
  BY <1>1, <1>6 DEF ClosedOK, CleanBufferIsStored, Without, buffer
<1> QED BY <1>7, <1>8, <1>9 DEF IInv

LEMMA FirstBytesStep == ASSUME IInv, FirstBytes PROVE IInv'
<1>1. Types /\ RequestOK /\ ClosedOK /\ CleanBufferIsStored
  BY DEF IInv
<1>2. PICK j, n : j = BlockSize - pos_in_block /\ n = Least(tavuja, j)
  OBVIOUS
<1>3. /\ pos_in_block \in Nat /\ pos_in_block + j = BlockSize /\ j \in Nat /\ j > 0 /\ BlockSize \in Nat
      /\ n \in Nat /\ n <= tavuja /\ n <= j /\ pos_in_block + n <= BlockSize /\ tavuja \in Nat
      /\ block_in_file \in 0..(BlockCount + 1) /\ BlockCount \in Nat
  BY <1>1, <1>2, SizeAssumption DEF Types, Offsets, Least
<1>4. PICK r \in FillBuffer :
         /\ Transfer(r, n)
         /\ pos_in_block' = IF ~r.ok THEN pos_in_block
                            ELSE IF n < j THEN pos_in_block + n ELSE 0
         /\ block_in_file' = IF r.ok /\ n = j THEN block_in_file + 1 ELSE block_in_file
         /\ pc' = IF r.ok /\ n = j THEN "whole" ELSE "return"
  BY <1>2 DEF FirstBytes
<1>5. UNCHANGED <<open, pos, writing>> /\ pc = "first"
  BY DEF FirstBytes
<1>6. /\ disk' \in [Sectors -> Block] /\ block_in_buffer' \in {NoBlock} \cup 0..(BlockCount - 1)
      /\ buffer_changed' \in BOOLEAN /\ buf' \in Block
      /\ tavuja' \in Nat /\ data' \in Seq(Byte) /\ got' \in Seq(Byte)
      /\ mishaps' \subseteq {"Bypass", "Past", "Lost"}
      /\ r.ok \in BOOLEAN /\ (r.ok => block_in_file \in 0..(BlockCount - 1))
      /\ writing => Len(data') = tavuja'
      /\ CleanBufferIsStored'
  BY <1>3, <1>4, TransferOK
<1>7. pos_in_block' \in Offsets /\ block_in_file' \in 0..(BlockCount + 1)
  BY <1>1, <1>3, <1>4, <1>6 DEF Types, Offsets
<1>8. pc' \in {"whole", "return"} /\ (pc' = "whole" => pos_in_block' = 0)
  BY <1>3, <1>4, <1>6
<1>9. Types'
  BY <1>1, <1>5, <1>6, <1>7, <1>8 DEF Types
<1>10. RequestOK' /\ ClosedOK'
  BY <1>1, <1>5, <1>6, <1>8 DEF RequestOK, ClosedOK
<1> QED BY <1>6, <1>9, <1>10 DEF IInv

LEMMA LastBytesStep == ASSUME IInv, LastBytes PROVE IInv'
<1>1. Types /\ RequestOK /\ ClosedOK /\ CleanBufferIsStored
  BY DEF IInv
<1>2. PICK r \in FillBuffer :
         /\ Transfer(r, tavuja)
         /\ pos_in_block' = IF r.ok THEN pos_in_block + tavuja ELSE pos_in_block
  BY DEF LastBytes
<1>3. UNCHANGED <<open, pos, block_in_file, writing>> /\ pc = "last" /\ pc' = "return"
  BY DEF LastBytes
<1>4. /\ tavuja \in Nat /\ pos_in_block = 0 /\ tavuja < BlockSize /\ BlockSize \in Nat
  BY <1>1, <1>3, SizeAssumption DEF RequestOK, Types
<1>5. /\ disk' \in [Sectors -> Block] /\ block_in_buffer' \in {NoBlock} \cup 0..(BlockCount - 1)
      /\ buffer_changed' \in BOOLEAN /\ buf' \in Block
      /\ tavuja' \in Nat /\ data' \in Seq(Byte) /\ got' \in Seq(Byte)
      /\ mishaps' \subseteq {"Bypass", "Past", "Lost"} /\ r.ok \in BOOLEAN
      /\ writing => Len(data') = tavuja'
      /\ CleanBufferIsStored'
  BY <1>2, <1>4, TransferOK
<1>6. pos_in_block' \in Offsets
  BY <1>2, <1>4, <1>5 DEF Offsets
<1>7. Types'
  BY <1>1, <1>3, <1>5, <1>6 DEF Types
<1>8. RequestOK' /\ ClosedOK'
  BY <1>1, <1>3, <1>5 DEF RequestOK, ClosedOK
<1> QED BY <1>5, <1>7, <1>8 DEF IInv

\* The request for whole blocks: as many as the device managed are moved.
BlocksMoved(count, n) ==
    /\ disk' = (IF writing THEN Written(n) ELSE disk)
    /\ got'  = (IF writing THEN got ELSE got \o Stored(n))
    /\ data' = (IF writing THEN SubSeq(data, n * BlockSize + 1, Len(data)) ELSE data)
    /\ tavuja' = tavuja - n * BlockSize
    /\ block_in_file' = block_in_file + n
    /\ pc' = (IF n < count \/ tavuja' = 0 THEN "return" ELSE "last")

\* The whole blocks that the device managed: n of them, for the request and the position alike.
LEMMA WholeBlocksMoved ==
    ASSUME IInv, WholeBlocks
    PROVE  \E count, n \in Nat :
              /\ count = tavuja \div BlockSize /\ n <= count /\ n <= Cardinality(Touched(count))
              /\ block_in_file + n <= BlockCount + 1
              /\ n * BlockSize \in Nat /\ n * BlockSize <= tavuja
              /\ n = count => tavuja - n * BlockSize < BlockSize
              /\ BlocksMoved(count, n)
              /\ mishaps' \subseteq {"Bypass", "Past", "Lost"} /\ mishaps \subseteq mishaps'
              /\ block_in_buffer \in Touched(count) /\ (writing \/ buffer_changed) => "Bypass" \in mishaps'
              /\ count > 0 /\ block_in_file + count > BlockCount => "Past" \in mishaps'
<1>1. Types
  BY DEF IInv
<1>2. PICK count, S : count = tavuja \div BlockSize /\ S = BlockSize
  OBVIOUS
<1>3. count \in Nat /\ count * S \in Nat /\ S \in Nat /\ tavuja >= count * S /\ tavuja - count * S < S
  <2>1. PICK t, o : t = tavuja /\ o = tavuja % BlockSize
    OBVIOUS
  <2>2. /\ count \in Nat /\ S \in Nat /\ count * S \in Nat /\ t = count * S + o /\ o \in Offsets
    BY <1>1, <1>2, <2>1, Places DEF Types
  <2>3. o \in Nat /\ o < S
    BY <1>2, <2>2, SizeAssumption DEF Offsets
  <2> QED BY <2>1, <2>2, <2>3
<1>4. PICK able : /\ able = (IF Failing THEN 0..Cardinality(Touched(count)) ELSE {Cardinality(Touched(count))})
                  /\ \E n \in able : BlocksMoved(count, n)
  BY <1>2 DEF WholeBlocks, BlocksMoved, Touched, Pass
<1>5. PICK n \in able : BlocksMoved(count, n)
  BY <1>4
<1>6. n \in Nat /\ n <= Cardinality(Touched(count)) /\ n <= count /\ block_in_file + n <= BlockCount + 1
  <2>1. PICK c : c = Cardinality(Touched(count))
    OBVIOUS
  <2>2. c \in Nat /\ c <= count /\ block_in_file + c <= BlockCount + 1
    BY <1>1, <1>3, <2>1, TouchedOK
  <2>3. n \in Nat /\ n <= c
    BY <1>4, <2>1, <2>2
  <2>4. block_in_file \in Nat /\ BlockCount \in Nat
    BY <1>1, SizeAssumption DEF Types
  <2> QED BY <1>3, <2>1, <2>2, <2>3, <2>4
<1>7. n * S \in Nat /\ n * S <= tavuja /\ (n = count => tavuja - n * S < S)
  <2>1. n * S \in Nat /\ n * S <= count * S
    BY <1>3, <1>6, ProductsAscend
  <2> QED BY <1>1, <1>3, <2>1 DEF Types
<1>8. /\ mishaps' \subseteq {"Bypass", "Past", "Lost"} /\ mishaps \subseteq mishaps'
      /\ block_in_buffer \in Touched(count) /\ (writing \/ buffer_changed) => "Bypass" \in mishaps'
      /\ count > 0 /\ block_in_file + count > BlockCount => "Past" \in mishaps'
  BY <1>1, <1>2 DEF WholeBlocks, Types, Touched
<1> QED BY <1>2, <1>3, <1>5, <1>6, <1>7, <1>8

LEMMA WholeBlocksStep == ASSUME IInv, WholeBlocks PROVE IInv'
<1>1. Types /\ RequestOK /\ ClosedOK /\ CleanBufferIsStored
  BY DEF IInv
<1>2. PICK count, n \in Nat :
         /\ count = tavuja \div BlockSize /\ n <= count /\ n <= Cardinality(Touched(count))
         /\ block_in_file + n <= BlockCount + 1
         /\ n * BlockSize \in Nat /\ n * BlockSize <= tavuja
         /\ n = count => tavuja - n * BlockSize < BlockSize
         /\ BlocksMoved(count, n)
         /\ mishaps' \subseteq {"Bypass", "Past", "Lost"} /\ mishaps \subseteq mishaps'
         /\ block_in_buffer \in Touched(count) /\ (writing \/ buffer_changed) => "Bypass" \in mishaps'
  BY WholeBlocksMoved
<1>3. UNCHANGED <<open, pos, pos_in_block, buffer, writing>> /\ pc = "whole"
  BY DEF WholeBlocks
<1>4. PICK m : m = n * BlockSize
  OBVIOUS
<1>5. m \in Nat /\ m <= tavuja /\ tavuja \in Nat /\ tavuja' = tavuja - m /\ tavuja' \in Nat
  BY <1>1, <1>2, <1>4, SMTT(60) DEF BlocksMoved, Types
<1>6. disk' \in [Sectors -> Block]
  <2>1. CASE writing
    <3>1. m <= Len(data)
      BY <1>1, <1>5, <2>1 DEF RequestOK
    <3>2. Written(n) \in [Sectors -> Block]
      BY <1>1, <1>4, <3>1, WrittenOK
    <3> QED BY <1>2, <2>1, <3>2 DEF BlocksMoved
  <2>2. CASE ~writing
    BY <1>1, <1>2, <2>2 DEF BlocksMoved, Types
  <2> QED BY <2>1, <2>2
<1>7. data' \in Seq(Byte) /\ (writing => Len(data') = tavuja')
  <2>1. CASE writing
    <3>1. m <= Len(data) /\ Len(data) = tavuja
      BY <1>1, <1>5, <2>1 DEF RequestOK
    <3>2. SubSeq(data, m + 1, Len(data)) \in Seq(Byte) /\ Len(SubSeq(data, m + 1, Len(data))) = Len(data) - m
      BY <1>1, <1>5, <3>1, Cut DEF Types
    <3>3. data' = SubSeq(data, m + 1, Len(data))
      BY <1>2, <1>4, <2>1 DEF BlocksMoved
    <3> QED BY <1>5, <3>1, <3>2, <3>3
  <2>2. CASE ~writing
    BY <1>1, <1>2, <2>2 DEF BlocksMoved, Types
  <2> QED BY <2>1, <2>2
<1>8. got' \in Seq(Byte)
  <2>1. m \in Nat /\ Stored(n) \in [1..m -> Byte]
    BY <1>1, <1>2, <1>4, StoredOK
  <2>2. got \o Stored(n) \in Seq(Byte)
    BY <1>1, <2>1, Appended DEF Types
  <2> QED BY <1>1, <1>2, <2>2 DEF BlocksMoved, Types
<1>9. /\ block_in_file' \in 0..(BlockCount + 1) /\ pc' \in {"return", "last"}
      /\ pc' = "last" => tavuja' < BlockSize /\ tavuja' > 0
  <2>1. block_in_file' \in 0..(BlockCount + 1)
    BY <1>1, <1>2, SizeAssumption DEF BlocksMoved, Types
  <2>2. pc' = (IF n < count \/ tavuja' = 0 THEN "return" ELSE "last")
    BY <1>2 DEF BlocksMoved
  <2>3. count \in Nat /\ n <= count /\ (n = count => tavuja - m < BlockSize)
    BY <1>2, <1>4
  <2> QED BY <1>5, <2>1, <2>2, <2>3
<1>10. Types'
  BY <1>1, <1>2, <1>3, <1>5, <1>6, <1>7, <1>8, <1>9 DEF Types, buffer
<1>11. RequestOK' /\ ClosedOK'
  BY <1>1, <1>3, <1>7, <1>9 DEF RequestOK, ClosedOK, buffer
<1>12. CleanBufferIsStored'
  <2> SUFFICES ASSUME "Bypass" \notin mishaps', block_in_buffer # NoBlock, ~buffer_changed
               PROVE  buf = disk'[block_in_buffer]
    BY <1>3 DEF CleanBufferIsStored, Without, buffer
  <2>1. buf = disk[block_in_buffer]
    BY <1>1, <1>2 DEF CleanBufferIsStored, Without
  <2>2. CASE writing
    <3>1. block_in_buffer \notin Touched(count)
      BY <1>2, <2>2
    <3>2. block_in_buffer \in Sectors /\ block_in_file \in Int /\ block_in_buffer \in Int
      BY <1>1, SizeAssumption DEF Types, Sectors, NoBlock
    <3>3. block_in_buffer \notin block_in_file..(block_in_file + n - 1)
      BY <1>2, <3>1, <3>2 DEF Touched
    <3>4. Written(n)[block_in_buffer] = disk[block_in_buffer]
      BY <3>2, <3>3 DEF Written
    <3> QED BY <1>2, <2>1, <2>2, <3>4 DEF BlocksMoved
  <2>3. CASE ~writing
    BY <1>2, <2>1, <2>3 DEF BlocksMoved
  <2> QED BY <2>2, <2>3
<1> QED BY <1>10, <1>11, <1>12 DEF IInv

LEMMA ReturnStep == ASSUME IInv, Return PROVE IInv'
<1>1. Types /\ RequestOK /\ ClosedOK /\ CleanBufferIsStored
  BY DEF IInv
<1>2. pos' \in Nat
  <2>1. PICK S, f, o : S = BlockSize /\ f = block_in_file /\ o = pos_in_block
    OBVIOUS
  <2>2. S \in Nat /\ f \in Nat /\ o \in Nat
    BY <1>1, <2>1, SizeAssumption DEF Types, Offsets
  <2>3. o + f * S \in Nat
    BY <2>2
  <2> QED BY <2>1, <2>3 DEF Return
<1>3. Types'
  <2>1. <<>> \in Seq(Byte)
    OBVIOUS
  <2>2. data' = <<>> /\ got' = <<>> /\ tavuja' = 0 /\ writing' = FALSE
    BY DEF Return
  <2>3. data' \in Seq(Byte) /\ got' \in Seq(Byte) /\ tavuja' \in Nat /\ writing' \in BOOLEAN
    BY <2>1, <2>2
  <2>4. UNCHANGED <<disk, open, block_in_file, pos_in_block, block_in_buffer, buffer_changed, buf, mishaps>>
    BY DEF Return, buffer
  <2>5. pc' = "idle"
    BY DEF Return
  <2> QED BY <1>1, <1>2, <2>3, <2>4, <2>5 DEF Types
<1>4. RequestOK' /\ ClosedOK' /\ CleanBufferIsStored'
  BY <1>1 DEF Return, RequestOK, ClosedOK, CleanBufferIsStored, Without, buffer
<1> QED BY <1>3, <1>4 DEF IInv

LEMMA FopenStep == ASSUME IInv, Fopen PROVE IInv'
<1>1. Types /\ RequestOK /\ ClosedOK
  BY DEF IInv
<1>2. 0 \in Offsets /\ 0 \in 0..(BlockCount + 1)
  BY SizeAssumption DEF Offsets
<1>3. pc = "idle"
  BY <1>1 DEF Fopen, ClosedOK
<1>4. Types'
  BY <1>1, <1>2, ZerosOK DEF Fopen, Types, request
<1>5. RequestOK'
  BY <1>1, <1>3 DEF Fopen, RequestOK, request
<1>6. ClosedOK' /\ CleanBufferIsStored'
  BY <1>3 DEF Fopen, ClosedOK, CleanBufferIsStored
<1> QED BY <1>4, <1>5, <1>6 DEF IInv

\* A position up to the end of the file is a place in a block, or behind the last one.
LEMMA SeekTo ==
    ASSUME NEW p \in 0..Size
    PROVE  p \div BlockSize \in 0..BlockCount /\ p % BlockSize \in Offsets
<1>1. PICK d, S, C : d = p \div BlockSize /\ S = BlockSize /\ C = BlockCount
  OBVIOUS
<1>2. S \in Nat /\ S > 0 /\ C \in Nat /\ p \in Nat /\ p <= S * C
  BY <1>1, SizeAssumption DEF Size
<1>3. d \in Nat /\ d * S \in Nat /\ d * S <= p /\ p % BlockSize \in Offsets
  BY <1>1, <1>2, Places
<1>4. CASE d > C
  <2>1. (C + 1) * S <= d * S
    BY <1>2, <1>3, <1>4, ProductsAscend
  <2>2. (C + 1) * S = C * S + 1 * S /\ S * C = C * S
    BY <1>2, ProductOfSum
  <2> QED BY <1>2, <1>3, <2>1, <2>2
<1> QED BY <1>1, <1>2, <1>3, <1>4

LEMMA FsetposStep == ASSUME IInv, Fsetpos PROVE IInv'
<1>1. Types /\ RequestOK /\ ClosedOK /\ CleanBufferIsStored
  BY DEF IInv
<1>2. PICK p \in 0..Size : pos' = p /\ block_in_file' = p \div BlockSize /\ pos_in_block' = p % BlockSize
  BY DEF Fsetpos
<1>3. pos' \in Nat /\ block_in_file' \in 0..(BlockCount + 1) /\ pos_in_block' \in Offsets
  <2>1. block_in_file' \in 0..BlockCount /\ pos_in_block' \in Offsets
    BY <1>2, SeekTo
  <2>2. BlockCount \in Nat /\ Size \in Nat
    BY SizeAssumption DEF Size
  <2> QED BY <1>2, <2>1, <2>2
<1>4. Types'
  BY <1>1, <1>3 DEF Fsetpos, Types, buffer, request
<1>5. RequestOK' /\ ClosedOK' /\ CleanBufferIsStored'
  BY <1>1 DEF Fsetpos, RequestOK, ClosedOK, CleanBufferIsStored, Without, buffer, request
<1> QED BY <1>4, <1>5 DEF IInv

LEMMA FflushStep == ASSUME IInv, Fflush PROVE IInv'
<1>1. Types /\ RequestOK /\ ClosedOK /\ CleanBufferIsStored
  BY DEF IInv
<1>2. PICK flushed \in BOOLEAN : disk' = Flush(flushed) /\ buffer_changed' = ~flushed
  BY DEF Fflush, Outcomes
<1>3. disk' \in [Sectors -> Block] /\ buffer_changed' \in BOOLEAN
  BY <1>1, <1>2, FlushOK
<1>4. Types'
  BY <1>1, <1>3 DEF Fflush, Types, file, request
<1>5. RequestOK' /\ ClosedOK'
  BY <1>1 DEF Fflush, RequestOK, ClosedOK, file, request
<1>6. CleanBufferIsStored'
  <2> SUFFICES ASSUME flushed, block_in_buffer # NoBlock PROVE buf = disk'[block_in_buffer]
    BY <1>2 DEF CleanBufferIsStored, Fflush
  <2>1. block_in_buffer \in Sectors
    BY <1>1, SizeAssumption DEF Types, Sectors
  <2> QED BY <1>1, <1>2, <2>1, FlushOK
<1> QED BY <1>4, <1>5, <1>6 DEF IInv

LEMMA FcloseStep == ASSUME IInv, Fclose PROVE IInv'
<1>1. Types /\ RequestOK /\ ClosedOK
  BY DEF IInv
<1>2. PICK flushed \in BOOLEAN :
         /\ disk' = IF buffer_changed THEN Flush(flushed) ELSE disk
         /\ mishaps' = IF flushed THEN mishaps ELSE mishaps \cup {"Lost"}
  BY DEF Fclose, Outcomes
<1>3. disk' \in [Sectors -> Block]
  BY <1>1, <1>2, FlushOK DEF Types
<1>4. Types'
  BY <1>1, <1>2, <1>3, ZerosOK DEF Fclose, Types, file, request
<1>5. RequestOK' /\ ClosedOK' /\ CleanBufferIsStored'
  BY <1>1 DEF Fclose, RequestOK, ClosedOK, CleanBufferIsStored, file, request
<1> QED BY <1>4, <1>5 DEF IInv

LEMMA StutterStep == ASSUME IInv, UNCHANGED vars PROVE IInv'
  BY DEF IInv, Types, RequestOK, ClosedOK, CleanBufferIsStored, Without, vars, file, buffer, request

LEMMA NextStep == ASSUME IInv, Next PROVE IInv'
  BY FopenStep, FsetposStep, FflushStep, FcloseStep, CallStep, FirstBytesStep, WholeBlocksStep, LastBytesStep,
     ReturnStep DEF Next

\* What every state satisfies, whichever mishaps have happened.
THEOREM BlockInvariance == Spec => []IInv
<1>1. IInv /\ [Next]_vars => IInv'
  BY NextStep, StutterStep
<1> QED BY <1>1, InitialInvariant, PTL DEF Spec

\* An unchanged buffer holds what the device holds, so that what flushes and closes leave
\* unwritten was never reported written, however the operations of the device fail.
THEOREM CleanBuffers == Spec => []CleanBufferIsStored
<1>1. IInv => CleanBufferIsStored
  BY DEF IInv
<1> QED BY <1>1, BlockInvariance, PTL

-----------------------------------------------------------------------------
(* The file as its reader sees it, and the steps of ByteFile.              *)

Blocks   == 0..(BlockCount - 1)
Shown(b) == IF b = block_in_buffer THEN buf ELSE disk[b]

\* The size of the file, and that no block of it is NoBlock.
LEMMA SizeFacts ==
    /\ BlockSize \in Nat /\ BlockSize > 0 /\ BlockCount \in Nat /\ Size \in Nat
    /\ Size = BlockCount * BlockSize /\ NoBlock \notin Blocks /\ Blocks \subseteq Sectors /\ Blocks \subseteq Nat
<1>1. PICK S, C : S = BlockSize /\ C = BlockCount
  OBVIOUS
<1>2. S \in Nat /\ S > 0 /\ C \in Nat
  BY <1>1, SizeAssumption
<1>3. S * C = C * S /\ S * C \in Nat
  BY <1>2
<1> QED BY <1>1, <1>2, <1>3 DEF Size, NoBlock, Blocks, Sectors

\* A byte of the file is in one of its blocks.
LEMMA BytePlace ==
    ASSUME NEW i \in 0..(Size - 1)
    PROVE  i \in Nat /\ i \div BlockSize \in Blocks /\ i % BlockSize \in Offsets
<1>1. i \in Nat /\ i < BlockCount * BlockSize
  BY SizeFacts
<1> QED BY <1>1, Places, PlacesWithin, SizeFacts DEF Blocks

\* A byte of the file is the one shown at its place.
LEMMA ContentsAt ==
    ASSUME NEW i \in 0..(Size - 1)
    PROVE  Contents[i] = Shown(i \div BlockSize)[i % BlockSize]
  BY DEF Contents, Shown

LEMMA ContentsOK == ASSUME Types PROVE Contents \in [0..(Size - 1) -> Byte]
<1>1. ASSUME NEW i \in 0..(Size - 1) PROVE Contents[i] \in Byte
  <2>1. Shown(i \div BlockSize) \in Block
    BY BytePlace, SizeFacts DEF Types, Shown
  <2> QED BY <2>1, BytePlace, ContentsAt DEF Block
<1> QED BY <1>1 DEF Contents

\* The file is the same when each of its blocks is.
LEMMA SameContents ==
    ASSUME \A b \in Blocks : Shown(b)' = Shown(b)
    PROVE  Contents' = Contents
<1>1. \A i \in 0..(Size - 1) : i \div BlockSize \in Blocks
  BY BytePlace
<1> QED BY <1>1 DEF Contents, Shown

\* Some bytes inside a block, as the positions they have in the file.
LEMMA InsideBlock ==
    ASSUME NEW f \in Nat, NEW o \in Offsets, NEW n \in Nat, o + n <= BlockSize, NEW i \in Nat,
           NEW P, P = o + f * BlockSize
    PROVE  /\ P \in Nat
           /\ i \in P..(P + n - 1) <=> i \div BlockSize = f /\ i % BlockSize \in o..(o + n - 1)
           /\ i \div BlockSize = f => i - P = (i % BlockSize) - o
<1>1. PICK S, d, k : S = BlockSize /\ d = i \div BlockSize /\ k = i % BlockSize
  OBVIOUS
<1>2. /\ S \in Nat /\ d \in Nat /\ k \in Nat /\ k < S /\ o \in Nat /\ o + n <= S
      /\ i = d * S + k /\ d * S \in Nat
  BY <1>1, Places DEF Offsets
<1>3. f * S \in Nat /\ P = o + f * S
  BY <1>1, <1>2
<1>4. ASSUME d = f PROVE i - P = k - o /\ (i \in P..(P + n - 1) <=> k \in o..(o + n - 1))
  BY <1>2, <1>3, <1>4
<1>5. ASSUME d # f PROVE i \notin P..(P + n - 1)
  <2>1. CASE d + 1 <= f
    <3>1. (d + 1) * S <= f * S /\ (d + 1) * S = d * S + 1 * S
      BY <1>2, <2>1, ProductsAscend, ProductOfSum
    <3> QED BY <1>2, <1>3, <3>1
  <2>2. CASE f + 1 <= d
    <3>1. (f + 1) * S <= d * S /\ (f + 1) * S = f * S + 1 * S
      BY <1>2, <2>2, ProductsAscend, ProductOfSum
    <3> QED BY <1>2, <1>3, <3>1
  <2> QED BY <1>2, <1>5, <2>1, <2>2
<1> QED BY <1>1, <1>2, <1>3, <1>4, <1>5

\* The steps of ByteFile, each for the bytes it moves.
StaysAsItWas == Contents' = Contents /\ data' = data /\ got' = got
ReadsBytes(n) ==
    /\ n \in Nat /\ n > 0 /\ Position + n <= Size
    /\ got' = got \o [i \in 1..n |-> Contents[Position + i - 1]]
    /\ Contents' = Contents /\ data' = data
WritesBytes(n) ==
    /\ n \in Nat /\ n > 0 /\ Position + n <= Size /\ n <= Len(data)
    /\ Contents' = [i \in 0..(Size - 1) |->
                       IF i \in Position..(Position + n - 1) THEN data[i - Position + 1] ELSE Contents[i]]
    /\ data' = SubSeq(data, n + 1, Len(data)) /\ got' = got

LEMMA PositionOK == ASSUME Types PROVE Position \in Nat
<1>1. PICK S, f, o : S = BlockSize /\ f = block_in_file /\ o = pos_in_block
  OBVIOUS
<1>2. S \in Nat /\ f \in Nat /\ o \in Nat
  BY <1>1, SizeAssumption DEF Types, Offsets
<1>3. o + f * S \in Nat
  BY <1>2
<1> QED BY <1>1, <1>3 DEF Position

\* The steps of ByteFile, from what an action of BlockDev does to the bytes and the position.
LEMMA StaysStep ==
    ASSUME StaysAsItWas, Position' = Position PROVE UNCHANGED AsByteFile!vars
  BY DEF StaysAsItWas, AsByteFile!vars

LEMMA ReadStep ==
    ASSUME Types, NEW n, ReadsBytes(n), Position' = Position + n PROVE AsByteFile!Next
<1>1. n \in 1..(Size - Position)
  BY PositionOK, SizeFacts DEF ReadsBytes
<1>2. AsByteFile!Read
  BY <1>1 DEF ReadsBytes, AsByteFile!Read
<1> QED BY <1>2 DEF AsByteFile!Next

LEMMA WriteStep ==
    ASSUME Types, NEW n, WritesBytes(n), Position' = Position + n PROVE AsByteFile!Next
<1>1. n \in 1..Len(data)
  BY DEF WritesBytes, Types
<1>2. AsByteFile!Write
  BY <1>1 DEF WritesBytes, AsByteFile!Write
<1> QED BY <1>2 DEF AsByteFile!Next

\* Whatever the buffer is filled with, the file is the same, unless a changed block is given up.
LEMMA RefillShows ==
    ASSUME IInv, "Bypass" \notin mishaps, NEW r \in FillBuffer, r.lost = FALSE, NEW b \in Blocks
    PROVE  (IF b = r.held THEN r.buf ELSE r.disk[b]) = Shown(b)
<1>1. Types /\ CleanBufferIsStored
  BY DEF IInv
<1>2. CASE Kept(r)
  BY <1>2 DEF Kept, Shown
<1>3. ASSUME NEW flushed \in BOOLEAN, Refilled(r, flushed), block_in_file # block_in_buffer,
             ~BehindEnd(block_in_file)
      PROVE  (IF b = r.held THEN r.buf ELSE r.disk[b]) = Shown(b)
  <2>1. b \in Sectors /\ b # NoBlock
    BY SizeFacts
  <2>2. buffer_changed => flushed
    BY <1>3 DEF Refilled
  <2>3. r.disk[b] = Shown(b)
    <3>1. CASE b # block_in_buffer
      BY <1>1, <1>3, <2>1, <3>1, FlushOK DEF Refilled, Shown
    <3>2. CASE b = block_in_buffer /\ buffer_changed
      BY <1>1, <1>3, <2>1, <2>2, <3>2, FlushOK DEF Refilled, Shown
    <3>3. CASE b = block_in_buffer /\ ~buffer_changed
      BY <1>1, <1>3, <2>1, <3>3 DEF Refilled, Shown, CleanBufferIsStored, Without
    <3> QED BY <3>1, <3>2, <3>3
  <2>4. CASE b = r.held
    <3>1. r.ok /\ b = block_in_file
      BY <1>3, <2>1, <2>4 DEF Refilled
    <3>2. r.buf = r.disk[b]
      BY <1>3, <3>1 DEF Refilled
    <3> QED BY <2>3, <2>4, <3>2
  <2>5. CASE b # r.held
    BY <2>3, <2>5
  <2> QED BY <2>4, <2>5
<1> QED BY <1>1, <1>2, <1>3, FillBufferOutcomes

\* A buffer that is filled holds the block of the position.
LEMMA RefillHolds ==
    ASSUME Types, NEW r \in FillBuffer, r.ok PROVE r.held = block_in_file
<1>1. CASE block_in_file = block_in_buffer /\ Kept(r)
  BY <1>1 DEF Kept
<1>2. CASE \E flushed \in BOOLEAN : Refilled(r, flushed)
  BY <1>2 DEF Refilled
<1> QED BY <1>1, <1>2, FillBufferOutcomes

\* A transfer through the buffer reads or writes bytes of the file at the position, or none.
LEMMA TransferMoves ==
    ASSUME IInv, mishaps = {}, mishaps' = {},
           NEW r \in FillBuffer, NEW n \in Nat, n > 0, n <= tavuja, pos_in_block + n <= BlockSize,
           Transfer(r, n)
    PROVE  /\ r.ok \in BOOLEAN
           /\ ~r.ok => StaysAsItWas
           /\ r.ok /\ ~writing => ReadsBytes(n)
           /\ r.ok /\ writing => WritesBytes(n)
<1>1. Types /\ RequestOK
  BY DEF IInv
<1>2. r.ok \in BOOLEAN /\ (r.ok => block_in_file \in Blocks) /\ r.buf \in Block
  BY TransferOK, FillBufferOutcomes, <1>1 DEF Kept, Refilled, Blocks, Types
<1>3. /\ disk' = r.disk /\ block_in_buffer' = r.held
      /\ mishaps' = IF r.lost THEN mishaps \cup {"Lost"} ELSE mishaps
      /\ buf' = IF r.ok /\ writing THEN Put(r.buf, pos_in_block, SubSeq(data, 1, n)) ELSE r.buf
      /\ got' = IF r.ok /\ ~writing THEN got \o Take(r.buf, pos_in_block, n) ELSE got
      /\ data' = IF r.ok /\ writing THEN SubSeq(data, n + 1, Len(data)) ELSE data
  BY DEF Transfer
<1>4. r.lost = FALSE
  <2>1. r.lost \in BOOLEAN
    BY <1>1, FillBufferOutcomes DEF Kept, Refilled
  <2> QED BY <1>3, <2>1
<1>5. \A b \in Blocks : (IF b = r.held THEN r.buf ELSE r.disk[b]) = Shown(b)
  BY <1>4, RefillShows
<1>6. ~(r.ok /\ writing) => Contents' = Contents
  <2> SUFFICES ASSUME ~(r.ok /\ writing), NEW b \in Blocks PROVE Shown(b)' = Shown(b)
    BY SameContents
  <2> QED BY <1>3, <1>5 DEF Shown
<1>7. CASE ~r.ok
  BY <1>2, <1>3, <1>6, <1>7 DEF StaysAsItWas
<1>8. CASE r.ok
  <2>1. PICK f, o, P, S : f = block_in_file /\ o = pos_in_block /\ P = Position /\ S = BlockSize
    OBVIOUS
  <2>2. /\ f \in Blocks /\ f \in Nat /\ o \in Offsets /\ o \in Nat /\ S \in Nat /\ o + n <= S
        /\ P = o + f * S /\ f * S \in Nat /\ P \in Nat
    BY <1>1, <1>2, <1>8, <2>1, SizeFacts, PositionOK DEF Types, Offsets, Position
  <2>3. P + n <= Size
    <3>1. (f + 1) * S <= BlockCount * S /\ (f + 1) * S = f * S + 1 * S
      BY <2>2, SizeFacts, ProductsAscend, ProductOfSum DEF Blocks
    <3> QED BY <2>1, <2>2, <3>1, SizeFacts
  <2>4. \A i \in 0..(Size - 1) : /\ i \in P..(P + n - 1) <=> i \div S = f /\ i % S \in o..(o + n - 1)
                                 /\ i \div S = f => i - P = (i % S) - o
    <3> SUFFICES ASSUME NEW i \in 0..(Size - 1)
                 PROVE  /\ i \in P..(P + n - 1) <=> i \div S = f /\ i % S \in o..(o + n - 1)
                        /\ i \div S = f => i - P = (i % S) - o
      OBVIOUS
    <3>1. i \in Nat
      BY BytePlace
    <3> QED BY <2>1, <2>2, <3>1, InsideBlock
  <2>5. r.held = f /\ r.buf = Shown(f)
    BY <1>1, <1>5, <1>8, <2>1, <2>2, RefillHolds
  <2>6. CASE ~writing
    <3>1. ASSUME NEW j \in 1..n PROVE Contents[P + j - 1] = Take(r.buf, o, n)[j]
      <4>1. PICK i : i = P + j - 1
        OBVIOUS
      <4>2. i \in 0..(Size - 1) /\ i \in P..(P + n - 1)
        BY <2>2, <2>3, <4>1, SizeFacts
      <4>3. i \div S = f /\ i % S = o + j - 1
        <5>1. PICK d, k : d = i \div S /\ k = i % S
          OBVIOUS
        <5>2. d = f /\ k \in o..(o + n - 1) /\ i - P = k - o
          BY <2>4, <4>2, <5>1
        <5> QED BY <2>2, <4>1, <5>1, <5>2
      <4>4. Contents[i] = r.buf[o + j - 1]
        BY <2>1, <2>5, <4>2, <4>3, ContentsAt
      <4> QED BY <4>1, <4>4 DEF Take
    <3>2. Take(r.buf, o, n) = [j \in 1..n |-> Contents[P + j - 1]]
      BY <3>1 DEF Take
    <3> QED BY <1>2, <1>3, <1>6, <1>8, <2>1, <2>3, <2>6, <3>2 DEF ReadsBytes
  <2>7. CASE writing
    <3>1. n <= Len(data) /\ data \in Seq(Byte)
      BY <1>1, <2>7 DEF RequestOK, Types
    <3>2. PICK s : s = SubSeq(data, 1, n)
      OBVIOUS
    <3>3. Len(s) = n /\ \A k \in 1..n : s[k] = data[k]
      BY <3>1, <3>2, Cut
    <3>4. buf' = Put(r.buf, o, s)
      BY <1>3, <1>8, <2>1, <2>7, <3>2
    <3>5. ASSUME NEW i \in 0..(Size - 1)
          PROVE  Contents'[i] = IF i \in P..(P + n - 1) THEN data[i - P + 1] ELSE Contents[i]
      <4>1. PICK d, k : d = i \div S /\ k = i % S
        OBVIOUS
      <4>2. d \in Blocks /\ k \in Offsets /\ k \in Nat /\ i \in Nat
        BY <2>1, <4>1, BytePlace DEF Offsets
      <4>3. Contents[i] = Shown(d)[k]
        BY <2>1, <4>1, ContentsAt
      <4>4. Contents'[i] = Shown(d)'[k]
        BY <2>1, <4>1 DEF Contents, Shown
      <4>5. CASE d # f
        <5>1. Shown(d)' = Shown(d)
          BY <1>3, <1>5, <2>5, <4>2, <4>5 DEF Shown
        <5>2. i \notin P..(P + n - 1)
          BY <2>4, <4>1, <4>5
        <5> QED BY <4>3, <4>4, <5>1, <5>2
      <4>6. CASE d = f
        <5>1. Shown(d)' = Put(r.buf, o, s)
          BY <1>3, <2>5, <3>4, <4>6 DEF Shown
        <5>2. Shown(d)'[k] = IF k \in o..(o + n - 1) THEN s[k - o + 1] ELSE r.buf[k]
          BY <3>3, <4>2, <5>1 DEF Put
        <5>3. (i \in P..(P + n - 1) <=> k \in o..(o + n - 1)) /\ i - P = k - o
          BY <2>4, <4>1, <4>6
        <5>4. k \in o..(o + n - 1) => k - o + 1 \in 1..n /\ s[k - o + 1] = data[i - P + 1]
          BY <2>2, <3>3, <4>2, <5>3
        <5> QED BY <2>5, <4>3, <4>4, <4>6, <5>2, <5>3, <5>4
      <4> QED BY <4>5, <4>6
    <3>6. Contents' = [i \in 0..(Size - 1) |->
                          IF i \in P..(P + n - 1) THEN data[i - P + 1] ELSE Contents[i]]
      BY <3>5 DEF Contents
    <3> QED BY <1>2, <1>3, <1>8, <2>1, <2>3, <2>7, <3>1, <3>6 DEF WritesBytes
  <2> QED BY <1>2, <1>8, <2>6, <2>7
<1> QED BY <1>2, <1>7, <1>8

\* Some whole blocks, as the positions they have in the file.
LEMMA InsideBlocks ==
    ASSUME NEW f \in Nat, NEW n \in Nat, NEW i \in Nat, NEW P, P = f * BlockSize
    PROVE  /\ P \in Nat /\ n * BlockSize \in Nat
           /\ i \in P..(P + n * BlockSize - 1) <=> i \div BlockSize \in f..(f + n - 1)
           /\ i \div BlockSize \in f..(f + n - 1) =>
                 i - P = ((i \div BlockSize) - f) * BlockSize + (i % BlockSize)
<1>1. PICK S, d, k, m : S = BlockSize /\ d = i \div BlockSize /\ k = i % BlockSize /\ m = n * BlockSize
  OBVIOUS
<1>2. S \in Nat /\ d \in Nat /\ k \in Nat /\ k < S /\ i = d * S + k /\ d * S \in Nat
  BY <1>1, Places DEF Offsets
<1>3. f * S \in Nat /\ P = f * S /\ m = n * S /\ m \in Nat /\ (f + n) * S = f * S + m
  BY <1>1, <1>2, ProductOfSum
<1>4. ASSUME d \in f..(f + n - 1) PROVE i \in P..(P + m - 1) /\ i - P = (d - f) * S + k
  <2>1. f * S <= d * S
    BY <1>2, <1>4, ProductsAscend
  <2>2. (d + 1) * S <= (f + n) * S /\ (d + 1) * S = d * S + 1 * S
    BY <1>2, <1>4, ProductsAscend, ProductOfSum
  <2>3. (d - f) * S = d * S - f * S
    BY <1>2, ProductOfSum
  <2> QED BY <1>2, <1>3, <2>1, <2>2, <2>3
<1>5. ASSUME d \notin f..(f + n - 1) PROVE i \notin P..(P + m - 1)
  <2>1. CASE d + 1 <= f
    <3>1. (d + 1) * S <= f * S /\ (d + 1) * S = d * S + 1 * S
      BY <1>2, <2>1, ProductsAscend, ProductOfSum
    <3> QED BY <1>2, <1>3, <3>1
  <2>2. CASE f + n <= d
    <3>1. (f + n) * S <= d * S
      BY <1>2, <2>2, ProductsAscend
    <3> QED BY <1>2, <1>3, <3>1
  <2> QED BY <1>2, <1>5, <2>1, <2>2
<1> QED BY <1>1, <1>3, <1>4, <1>5

\* The whole blocks that are read or written are bytes of the file at the position.
LEMMA WholeBlocksMove ==
    ASSUME IInv, mishaps' = {}, WholeBlocks
    PROVE  \E n \in Nat :
              /\ block_in_file' = block_in_file + n /\ pos_in_block = 0 /\ UNCHANGED pos_in_block
              /\ n = 0 => StaysAsItWas
              /\ n > 0 /\ ~writing => ReadsBytes(n * BlockSize)
              /\ n > 0 /\ writing => WritesBytes(n * BlockSize)
<1>1. Types /\ RequestOK /\ CleanBufferIsStored
  BY DEF IInv
<1>2. PICK count, n \in Nat :
         /\ n <= count /\ n <= Cardinality(Touched(count))
         /\ n * BlockSize \in Nat /\ n * BlockSize <= tavuja
         /\ BlocksMoved(count, n)
         /\ mishaps \subseteq mishaps'
         /\ block_in_buffer \in Touched(count) /\ (writing \/ buffer_changed) => "Bypass" \in mishaps'
         /\ count > 0 /\ block_in_file + count > BlockCount => "Past" \in mishaps'
  BY WholeBlocksMoved
<1>3. UNCHANGED <<pos_in_block, buffer>> /\ pc = "whole" /\ pos_in_block = 0
  BY <1>1 DEF WholeBlocks, RequestOK
<1>4. /\ block_in_file' = block_in_file + n
      /\ disk' = (IF writing THEN Written(n) ELSE disk)
      /\ got'  = (IF writing THEN got ELSE got \o Stored(n))
      /\ data' = (IF writing THEN SubSeq(data, n * BlockSize + 1, Len(data)) ELSE data)
  BY <1>2 DEF BlocksMoved
<1>5. PICK f, S, m, P : f = block_in_file /\ S = BlockSize /\ m = n * BlockSize /\ P = Position
  OBVIOUS
<1>6. /\ f \in Nat /\ S \in Nat /\ S > 0 /\ m \in Nat /\ m = n * S /\ m <= tavuja /\ BlockCount \in Nat
      /\ P = f * S /\ P \in Nat /\ (count > 0 => f + n <= BlockCount)
  <2>1. P = 0 + f * S /\ f * S \in Nat
    BY <1>1, <1>3, <1>5, SizeFacts DEF Types, Position
  <2> QED BY <1>1, <1>2, <1>5, <2>1, SizeFacts DEF Types
<1>7. CASE n = 0
  <2>1. m = 0
    BY <1>6, <1>7
  <2>2. Written(n) = disk
    <3>1. \A s \in Sectors : s \notin block_in_file..(block_in_file + n - 1)
      BY <1>5, <1>6, <1>7
    <3> QED BY <1>1, <3>1 DEF Written, Types
  <2>3. got' = got
    <3>1. Stored(n) = <<>>
      <4>1. 1..(n * BlockSize) = {}
        BY <1>5, <2>1
      <4> QED BY <4>1 DEF Stored
    <3> QED BY <1>1, <1>4, <3>1 DEF Types
  <2>4. data' = data
    <3>1. SubSeq(data, 1, Len(data)) = data
      BY <1>1 DEF Types
    <3> QED BY <1>4, <1>5, <2>1, <3>1
  <2>5. disk' = disk
    BY <1>4, <2>2
  <2>6. Contents' = Contents
    BY <1>3, <2>5 DEF Contents, buffer
  <2> QED BY <1>3, <1>4, <1>7, <2>3, <2>4, <2>6 DEF StaysAsItWas
<1>8. CASE n > 0
  <2>1. f + n <= BlockCount /\ f..(f + n - 1) \subseteq Blocks
    BY <1>2, <1>6, <1>8 DEF Blocks
  <2>2. P + m <= Size /\ m > 0
    <3>1. (f + n) * S <= BlockCount * S /\ (f + n) * S = f * S + n * S /\ 1 * S <= n * S
      BY <1>6, <1>8, <2>1, ProductsAscend, ProductOfSum
    <3> QED BY <1>5, <1>6, <3>1, SizeFacts
  <2>3. ASSUME NEW b \in f..(f + n - 1)
        PROVE  /\ ~(writing /\ b = block_in_buffer)
               /\ ~writing => Shown(b) = disk[b]
    <3>1. b \in Touched(count) /\ b \in Blocks
      BY <1>2, <1>5, <1>6, <2>1, SizeFacts DEF Touched
    <3>2. b = block_in_buffer => ~writing /\ ~buffer_changed
      BY <1>2, <3>1
    <3>3. b = block_in_buffer => buf = disk[b]
      BY <1>1, <1>2, <3>1, <3>2, SizeFacts DEF CleanBufferIsStored, Without
    <3> QED BY <3>2, <3>3 DEF Shown
  <2>4. CASE ~writing
    <3>1. ASSUME NEW j \in 1..m PROVE Stored(n)[j] = Contents[P + j - 1]
      <4>1. PICK i, h : h = j - 1 /\ i = P + h
        OBVIOUS
      <4>2. h \in Nat /\ h < n * BlockSize /\ i \in Nat /\ i \in 0..(Size - 1)
        BY <1>5, <1>6, <2>2, <4>1, SizeFacts
      <4>3. PICK e, k : e = h \div BlockSize /\ k = h % BlockSize
        OBVIOUS
      <4>4. e \in Nat /\ k \in Offsets /\ k \in Nat /\ e * S \in Nat /\ h = e * S + k /\ e < n
        BY <1>5, <4>2, <4>3, Places, PlacesWithin DEF Offsets
      <4>5. i = (f + e) * BlockSize + k
        <5>1. (f + e) * S = f * S + e * S
          BY <1>6, <4>4, ProductOfSum
        <5> QED BY <1>5, <1>6, <4>1, <4>4, <5>1
      <4>6. i \div BlockSize = f + e /\ i % BlockSize = k
        BY <1>6, <4>2, <4>4, <4>5, PlaceIsOne
      <4>7. f + e \in f..(f + n - 1)
        BY <1>6, <4>4
      <4>8. Contents[i] = disk[f + e][k]
        BY <2>3, <2>4, <4>2, <4>6, <4>7, ContentsAt
      <4>9. Stored(n)[j] = disk[f + e][k]
        BY <1>5, <4>1, <4>3 DEF Stored
      <4> QED BY <1>6, <4>1, <4>8, <4>9
    <3>2. Stored(n) = [j \in 1..m |-> Contents[P + j - 1]]
      BY <1>5, <3>1 DEF Stored
    <3>3. Contents' = Contents
      BY <1>3, <1>4, <2>4 DEF Contents, buffer
    <3> QED BY <1>3, <1>4, <1>5, <1>6, <1>8, <2>2, <2>4, <3>2, <3>3 DEF ReadsBytes
  <2>5. CASE writing
    <3>1. m <= Len(data)
      BY <1>1, <1>6, <2>5 DEF RequestOK
    <3>2. ASSUME NEW i \in 0..(Size - 1)
          PROVE  Contents'[i] = IF i \in P..(P + m - 1) THEN data[i - P + 1] ELSE Contents[i]
      <4>1. PICK d, k : d = i \div BlockSize /\ k = i % BlockSize
        OBVIOUS
      <4>2. d \in Blocks /\ k \in Offsets /\ i \in Nat /\ d \in Sectors
        BY <4>1, BytePlace, SizeFacts
      <4>3. /\ i \in P..(P + m - 1) <=> d \in f..(f + n - 1)
            /\ d \in f..(f + n - 1) => i - P = (d - f) * S + k
        BY <1>5, <1>6, <4>1, <4>2, InsideBlocks
      <4>4. Contents[i] = Shown(d)[k] /\ Contents'[i] = Shown(d)'[k]
        <5>1. Contents'[i] = Shown(d)'[k]
          BY <4>1 DEF Contents, Shown
        <5> QED BY <4>1, <5>1, ContentsAt
      <4>5. CASE d \in f..(f + n - 1)
        <5>1. d # block_in_buffer
          BY <2>3, <2>5, <4>5
        <5>2. Shown(d)' = Written(n)[d]
          BY <1>3, <1>4, <2>5, <5>1 DEF Shown, buffer
        <5>3. Written(n)[d][k] = data[(d - f) * S + k + 1]
          BY <1>5, <4>2, <4>5 DEF Written
        <5> QED BY <4>3, <4>4, <4>5, <5>2, <5>3
      <4>6. CASE d \notin f..(f + n - 1)
        <5>1. Written(n)[d] = disk[d]
          BY <1>5, <4>2, <4>6 DEF Written
        <5>2. Shown(d)' = Shown(d)
          BY <1>3, <1>4, <2>5, <5>1 DEF Shown, buffer
        <5> QED BY <4>3, <4>4, <4>6, <5>2
      <4> QED BY <4>5, <4>6
    <3>3. Contents' = [i \in 0..(Size - 1) |->
                          IF i \in P..(P + m - 1) THEN data[i - P + 1] ELSE Contents[i]]
      BY <3>2 DEF Contents
    <3> QED BY <1>3, <1>4, <1>5, <1>6, <1>8, <2>2, <2>5, <3>1, <3>3 DEF WritesBytes
  <2> QED BY <1>3, <1>4, <1>8, <2>4, <2>5
<1> QED BY <1>2, <1>7, <1>8

-----------------------------------------------------------------------------
(* Every step is one of ByteFile's, or none.                               *)

ByteFileStep == AsByteFile!Next \/ UNCHANGED AsByteFile!vars

LEMMA SeekStep ==
    ASSUME Contents' = Contents, data' = data, got' = got, Position' \in 0..Size PROVE ByteFileStep
  BY DEF ByteFileStep, AsByteFile!Next, AsByteFile!Seek

LEMMA NewCallStep ==
    ASSUME Contents' = Contents, Position' = Position, data' \in Seq(Byte), got' = <<>> PROVE ByteFileStep
  BY DEF ByteFileStep, AsByteFile!Next, AsByteFile!Call

\* Each action is a step of ByteFile.
LEMMA CallMaps == ASSUME IInv, Call PROVE ByteFileStep
<1>1. Contents' = Contents /\ Position' = Position
  BY DEF Call, Contents, Position, buffer, file
<1>2. Types'
  BY CallStep DEF IInv
<1> QED BY <1>1, <1>2, NewCallStep DEF Call, Types

LEMMA ReturnMaps == ASSUME IInv, Return PROVE ByteFileStep
<1>1. Contents' = Contents /\ Position' = Position
  BY DEF Return, Contents, Position, buffer
<1>2. Types'
  BY ReturnStep DEF IInv
<1> QED BY <1>1, <1>2, NewCallStep DEF Return, Types

LEMMA FirstBytesMaps == ASSUME IInv, mishaps = {}, mishaps' = {}, FirstBytes PROVE ByteFileStep
<1>1. Types /\ RequestOK
  BY DEF IInv
<1>2. PICK S, f, o, j, n, P : /\ S = BlockSize /\ f = block_in_file /\ o = pos_in_block
                              /\ j = S - o /\ n = Least(tavuja, j) /\ P = Position
  OBVIOUS
<1>3. /\ S \in Nat /\ f \in Nat /\ o \in Nat /\ o + j = S /\ j \in Nat /\ n \in Nat /\ n > 0
      /\ n <= tavuja /\ n <= j /\ o + n <= S /\ f * S \in Nat /\ P = o + f * S
  <2>1. tavuja \in Nat /\ tavuja > 0 /\ o < S /\ o \in Nat /\ S \in Nat /\ f \in Nat
    BY <1>1, <1>2, SizeAssumption DEF FirstBytes, RequestOK, Types, Offsets
  <2>2. n \in Nat /\ n > 0 /\ n <= tavuja /\ n <= j
    BY <1>2, <2>1 DEF Least
  <2> QED BY <1>2, <2>1, <2>2 DEF Position
<1>4. PICK r \in FillBuffer :
         /\ Transfer(r, n)
         /\ pos_in_block' = IF ~r.ok THEN o ELSE IF n < j THEN o + n ELSE 0
         /\ block_in_file' = IF r.ok /\ n = j THEN f + 1 ELSE f
  BY <1>2 DEF FirstBytes
<1>5. /\ r.ok \in BOOLEAN /\ (~r.ok => StaysAsItWas)
      /\ (r.ok /\ ~writing => ReadsBytes(n)) /\ (r.ok /\ writing => WritesBytes(n))
  BY <1>2, <1>3, <1>4, TransferMoves
<1>6. Position' = IF r.ok THEN P + n ELSE P
  <2>1. Position' = pos_in_block' + block_in_file' * S
    BY <1>2 DEF Position
  <2>2. (f + 1) * S = f * S + 1 * S
    BY <1>3, ProductOfSum
  <2> QED BY <1>3, <1>4, <1>5, <2>1, <2>2
<1> QED BY <1>1, <1>2, <1>5, <1>6, StaysStep, ReadStep, WriteStep DEF ByteFileStep

LEMMA LastBytesMaps == ASSUME IInv, mishaps = {}, mishaps' = {}, LastBytes PROVE ByteFileStep
<1>1. Types /\ RequestOK
  BY DEF IInv
<1>2. PICK S, f, n, P : S = BlockSize /\ f = block_in_file /\ n = tavuja /\ P = Position
  OBVIOUS
<1>3. S \in Nat /\ f \in Nat /\ pos_in_block = 0 /\ n \in Nat /\ n > 0 /\ n < S /\ P = 0 + f * S /\ f * S \in Nat
  <2>1. S \in Nat /\ f \in Nat /\ pos_in_block = 0 /\ n \in Nat /\ n > 0 /\ n < S
    BY <1>1, <1>2, SizeAssumption DEF LastBytes, RequestOK, Types
  <2> QED BY <1>2, <2>1 DEF Position
<1>4. PICK r \in FillBuffer :
         Transfer(r, n) /\ pos_in_block' = IF r.ok THEN 0 + n ELSE 0
  BY <1>2, <1>3 DEF LastBytes
<1>5. /\ r.ok \in BOOLEAN /\ (~r.ok => StaysAsItWas)
      /\ (r.ok /\ ~writing => ReadsBytes(n)) /\ (r.ok /\ writing => WritesBytes(n))
  BY <1>2, <1>3, <1>4, TransferMoves
<1>6. Position' = IF r.ok THEN P + n ELSE P
  <2>1. Position' = pos_in_block' + f * S
    BY <1>2 DEF LastBytes, Position
  <2> QED BY <1>3, <1>4, <1>5, <2>1
<1> QED BY <1>1, <1>2, <1>5, <1>6, StaysStep, ReadStep, WriteStep DEF ByteFileStep

LEMMA WholeBlocksMaps == ASSUME IInv, mishaps' = {}, WholeBlocks PROVE ByteFileStep
<1>1. Types
  BY DEF IInv
<1>2. PICK n \in Nat :
         /\ block_in_file' = block_in_file + n /\ pos_in_block = 0 /\ UNCHANGED pos_in_block
         /\ n = 0 => StaysAsItWas
         /\ n > 0 /\ ~writing => ReadsBytes(n * BlockSize)
         /\ n > 0 /\ writing => WritesBytes(n * BlockSize)
  BY WholeBlocksMove
<1>3. PICK S, f, m : S = BlockSize /\ f = block_in_file /\ m = n * BlockSize
  OBVIOUS
<1>4. Position' = Position + m /\ (n = 0 => Position' = Position)
  <2>1. S \in Nat /\ f \in Nat
    BY <1>1, <1>3, SizeAssumption DEF Types
  <2>2. f * S \in Nat /\ m \in Nat /\ (f + n) * S = f * S + m /\ (n = 0 => m = 0)
    BY <1>3, <2>1, ProductOfSum
  <2>3. Position = 0 + f * S /\ Position' = 0 + (f + n) * S
    BY <1>2, <1>3 DEF Position
  <2> QED BY <2>2, <2>3
<1> QED BY <1>1, <1>2, <1>3, <1>4, StaysStep, ReadStep, WriteStep DEF ByteFileStep

LEMMA FopenMaps == ASSUME IInv, Fopen PROVE ByteFileStep
<1>1. block_in_buffer = NoBlock
  BY DEF IInv, ClosedOK, Fopen
<1>2. Contents' = Contents
  <2> SUFFICES ASSUME NEW b \in Blocks PROVE Shown(b)' = Shown(b)
    BY SameContents
  <2>1. b # NoBlock
    BY SizeFacts
  <2> QED BY <1>1, <2>1 DEF Fopen, Shown
<1>3. Position' \in 0..Size
  <2>1. Position' = 0 + 0 * BlockSize
    BY DEF Fopen, Position
  <2> QED BY <2>1, SizeFacts
<1> QED BY <1>2, <1>3, SeekStep DEF Fopen, request

LEMMA FsetposMaps == ASSUME IInv, Fsetpos PROVE ByteFileStep
<1>1. PICK p \in 0..Size : block_in_file' = p \div BlockSize /\ pos_in_block' = p % BlockSize
  BY DEF Fsetpos
<1>2. Position' = p
  <2>1. PICK d, k, e : d = p \div BlockSize /\ k = p % BlockSize /\ e = d * BlockSize
    OBVIOUS
  <2>2. p \in Nat /\ k \in Nat /\ e \in Nat /\ p = e + k
    BY <2>1, Places, SizeFacts DEF Offsets
  <2>3. Position' = k + e
    BY <1>1, <2>1 DEF Position
  <2> QED BY <2>2, <2>3
<1>3. Contents' = Contents
  BY DEF Fsetpos, Contents, buffer
<1> QED BY <1>2, <1>3, SeekStep DEF Fsetpos, request

\* A buffer that is written to its block changes no byte of the file.
LEMMA FlushShows ==
    ASSUME Types, NEW flushed \in BOOLEAN, NEW b \in Blocks
    PROVE  /\ (IF b = block_in_buffer THEN buf ELSE Flush(flushed)[b]) = Shown(b)
           /\ flushed => Flush(flushed)[b] = Shown(b)
<1>1. b \in Sectors
  BY SizeFacts
<1> QED BY <1>1, FlushOK DEF Shown

LEMMA FflushMaps == ASSUME IInv, Fflush PROVE ByteFileStep
<1>1. Types
  BY DEF IInv
<1>2. PICK flushed \in BOOLEAN : disk' = Flush(flushed)
  BY DEF Fflush, Outcomes
<1>3. Contents' = Contents
  <2> SUFFICES ASSUME NEW b \in Blocks PROVE Shown(b)' = Shown(b)
    BY SameContents
  <2>1. Shown(b)' = IF b = block_in_buffer THEN buf ELSE Flush(flushed)[b]
    BY <1>2 DEF Fflush, Shown
  <2> QED BY <1>1, <2>1, FlushShows
<1>4. Position' = Position
  BY DEF Fflush, Position, file
<1> QED BY <1>3, <1>4, StaysStep DEF Fflush, request, StaysAsItWas, ByteFileStep

LEMMA FcloseMaps == ASSUME IInv, mishaps' = {}, Fclose PROVE ByteFileStep
<1>1. Types /\ CleanBufferIsStored
  BY DEF IInv
<1>2. PICK flushed \in BOOLEAN :
         /\ disk' = IF buffer_changed THEN Flush(flushed) ELSE disk
         /\ mishaps' = IF flushed THEN mishaps ELSE mishaps \cup {"Lost"}
  BY DEF Fclose, Outcomes
<1>3. flushed /\ "Bypass" \notin mishaps
  BY <1>2
<1>4. Contents' = Contents
  <2> SUFFICES ASSUME NEW b \in Blocks PROVE Shown(b)' = Shown(b)
    BY SameContents
  <2>1. Shown(b)' = disk'[b]
    BY SizeFacts DEF Fclose, Shown
  <2>2. CASE buffer_changed
    BY <1>1, <1>2, <1>3, <2>1, <2>2, FlushShows
  <2>3. CASE ~buffer_changed
    BY <1>1, <1>2, <1>3, <2>1, <2>3, SizeFacts DEF Shown, CleanBufferIsStored, Without
  <2> QED BY <2>2, <2>3
<1>5. Position' = Position
  BY DEF Fclose, Position, file
<1> QED BY <1>4, <1>5, StaysStep DEF Fclose, request, StaysAsItWas, ByteFileStep

LEMMA NextMaps == ASSUME IInv, mishaps = {}, QuietNext PROVE ByteFileStep
  BY FopenMaps, FsetposMaps, FflushMaps, FcloseMaps, CallMaps, FirstBytesMaps, WholeBlocksMaps, LastBytesMaps,
     ReturnMaps DEF QuietNext, Next

LEMMA StutterMaps == ASSUME UNCHANGED vars PROVE UNCHANGED AsByteFile!vars
  BY DEF vars, file, buffer, request, Contents, Position, AsByteFile!vars

LEMMA InitMaps == ASSUME Init PROVE AsByteFile!Init
<1>1. Contents \in [0..(Size - 1) -> Byte]
  BY InitialInvariant, ContentsOK DEF IInv
<1>2. Position = 0
  <2>1. Position = 0 + 0 * BlockSize
    BY DEF Init, Position
  <2> QED BY <2>1, SizeFacts
<1> QED BY <1>1, <1>2 DEF Init, AsByteFile!Init

\* An open block device is a file of bytes for blocks of any size and number, requests of any
\* length, and whichever operations of the device fail, outside the named mishaps.
THEOREM FileOfBytes == QuietSpec => ImplementsByteFile
<1>1. Init => IInv /\ mishaps = {}
  BY InitialInvariant DEF Init
<1>2. IInv /\ mishaps = {} /\ [QuietNext]_vars => (IInv /\ mishaps = {})'
  <2>1. ASSUME IInv, QuietNext PROVE IInv' /\ mishaps' = {}
    BY <2>1, NextStep DEF QuietNext
  <2>2. ASSUME IInv, mishaps = {}, UNCHANGED vars PROVE IInv' /\ mishaps' = {}
    BY <2>2, StutterStep DEF vars
  <2> QED BY <2>1, <2>2
<1>3. IInv /\ mishaps = {} /\ [QuietNext]_vars => [AsByteFile!Next]_AsByteFile!vars
  BY NextMaps, StutterMaps DEF ByteFileStep
<1> QED BY <1>1, <1>2, <1>3, InitMaps, PTL DEF QuietSpec, ImplementsByteFile, AsByteFile!Spec

-----------------------------------------------------------------------------
(* The floppy drives.                                                      *)

\* While no two calls are made at a time, there is one at most,
Single == ~mixed => \A t, u \in FloppyThread : Busy(t) /\ Busy(u) => t = u

\* every disk has at each place the block that belongs there, if anything,
InPlace == ~mixed => \A d \in FloppyDrive, b \in FloppyBlock : floppy[d][Place(b)] \in {Unwritten, b}

\* and the buffer is that of the call until its transfer, and what was transferred after it.
InHand(t) ==
    /\ floppy_call[t].pc \in {"test", "seek", "motor", "move"} /\ floppy_call[t].write =>
          floppy_buffer = floppy_call[t].num
    /\ floppy_call[t].pc \in {"moved", "return"} /\ floppy_call[t].sound =>
          IF floppy_call[t].write THEN floppy[floppy_call[t].drive][Place(floppy_call[t].num)] = floppy_call[t].num
          ELSE floppy_buffer \in {Unwritten, floppy_call[t].num}

\* A motor without a timer is that of a call that will start one.
Timed ==
    \A d \in FloppyDrive : motor[d] /\ motor_off_timer[d] = "none" =>
       \E t \in FloppyThread : floppy_call[t].pc \in {"move", "moved"} /\ floppy_call[t].drive = d

FloppyIInv ==
    /\ FloppyTypeOK /\ Single /\ InPlace /\ Timed
    /\ ~mixed => \A t \in FloppyThread : InHand(t)

\* Every block of a disk is on a cylinder, on a side, and in a sector,
LEMMA PlaceIs ==
  ASSUME NEW S \in Nat \ {0}, NEW C \in Nat \ {0}, NEW b \in Nat, b < 2 * C * S
  PROVE  /\ b \div (S * 2) \in 0..C - 1 /\ (b \div S) % 2 \in {0, 1} /\ b % S \in 0..S - 1
         /\ b = (2 * (b \div (S * 2)) + ((b \div S) % 2)) * S + (b % S)
<1>1. PICK q, r : q = b \div S /\ r = b % S
  OBVIOUS
<1>2. q \in Nat /\ r \in 0..S - 1 /\ b = q * S + r
  <2>1. q \in Nat /\ r \in 0..(S - 1) /\ b = S * q + r
    BY <1>1, Division
  <2>2. S * q = q * S
    BY <2>1
  <2> QED BY <2>1, <2>2
<1>3. PICK h, g : h = q \div 2 /\ g = q % 2
  OBVIOUS
<1>4. h \in Nat /\ g \in {0, 1} /\ q = 2 * h + g
  BY <1>2, <1>3
<1>5. PICK T : T = S * 2 /\ T \in Nat \ {0}
  OBVIOUS
<1>6. b = h * T + (g * S + r) /\ g * S + r \in 0..T - 1 /\ h * T \in Nat
  <2>1. (2 * h + g) * S = h * T + g * S
    BY <1>4, <1>5
  <2>2. g * S \in {0, S}
    BY <1>4
  <2>3. h * T \in Nat
    BY <1>4, <1>5
  <2> QED BY <1>2, <1>4, <1>5, <2>1, <2>2, <2>3
<1>7. b \div T = h
  <2>1. PICK o : o \in 0..T - 1 /\ b = h * T + o
    BY <1>6
  <2>2. T \in Nat \ {0} /\ h \in Nat
    BY <1>4, <1>5
  <2> QED BY <2>1, <2>2, DivisionIsOne, ZenonT(60)
<1>8. h < C
  <2>1. CASE C <= h
    <3>1. C * T <= h * T
      BY <1>4, <1>5, <2>1, ProductsAscend
    <3>2. C * T = 2 * C * S
      BY <1>5
    <3> QED BY <1>5, <1>6, <3>1, <3>2
  <2> QED BY <1>4, <2>1
<1>9. /\ h \in 0..C - 1 /\ b = (2 * h + g) * S + r
      /\ b \div (S * 2) = h /\ (b \div S) % 2 = g /\ b % S = r
  <2>1. h \in 0..C - 1
    BY <1>4, <1>8
  <2>2. b \div (S * 2) = h
    BY <1>5, <1>7
  <2>3. (b \div S) % 2 = g /\ b % S = r
    BY <1>1, <1>3
  <2>4. b = (2 * h + g) * S + r
    BY <1>2, <1>4
  <2> QED BY <2>1, <2>2, <2>3, <2>4, Zenon
<1>10. g \in {0, 1} /\ r \in 0..S - 1
  BY <1>2, <1>4
<1> QED BY <1>9, <1>10, Zenon

\* and no two blocks are at one place.
LEMMA PlacesDiffer ==
  ASSUME FloppyAssumption
  PROVE  /\ \A b \in FloppyBlock : Place(b) \in Positions
         /\ \A a, b \in FloppyBlock : Place(a) = Place(b) => a = b
<1>1. PICK S, C : S = sectors_per_track /\ C = Cylinders /\ S \in Nat \ {0} /\ C \in Nat \ {0}
  BY DEF FloppyAssumption
<1>2. ASSUME NEW b \in FloppyBlock
      PROVE  \E h \in 0..C - 1, g \in {0, 1}, r \in 0..S - 1 : b = (2 * h + g) * S + r /\ Place(b) = <<h, g, r + 1>>
  <2>1. 2 * C * S \in Nat
    BY <1>1
  <2>2. b \in Nat /\ b < 2 * C * S
    BY <1>1, <2>1 DEF FloppyBlock
  <2>3. PICK h, g, r : h = b \div (S * 2) /\ g = (b \div S) % 2 /\ r = b % S
    OBVIOUS
  <2>4. h \in 0..C - 1 /\ g \in {0, 1} /\ r \in 0..S - 1 /\ b = (2 * h + g) * S + r
    <3>1. S \in Nat \ {0} /\ C \in Nat \ {0}
      BY <1>1
    <3> QED BY <2>2, <2>3, <3>1, PlaceIs, ZenonT(60)
  <2>5. Place(b) = <<h, g, r + 1>>
    BY <1>1, <2>3, ZenonT(60) DEF Place
  <2> QED BY <2>4, <2>5
<1>3. \A b \in FloppyBlock : Place(b) \in Positions
  <2> TAKE b \in FloppyBlock
  <2>1. PICK h \in 0..C - 1, g \in {0, 1}, r \in 0..S - 1 : Place(b) = <<h, g, r + 1>>
    BY <1>2
  <2> QED BY <1>1, <2>1 DEF Positions
<1>4. ASSUME NEW a \in FloppyBlock, NEW b \in FloppyBlock, Place(a) = Place(b)
      PROVE  a = b
  <2>1. PICK h \in 0..C - 1, g \in {0, 1}, r \in 0..S - 1 : a = (2 * h + g) * S + r /\ Place(a) = <<h, g, r + 1>>
    BY <1>2
  <2>2. PICK i \in 0..C - 1, f \in {0, 1}, s \in 0..S - 1 : b = (2 * i + f) * S + s /\ Place(b) = <<i, f, s + 1>>
    BY <1>2
  <2>3. h = i /\ g = f /\ r = s
    BY <1>1, <1>4, <2>1, <2>2
  <2> QED BY <2>1, <2>2, <2>3
<1> QED BY <1>3, <1>4

\* A step of a call changes no other.
Others(t) == \A u \in FloppyThread \ {t} : floppy_call'[u] = floppy_call[u]

\* What floppy_init() leaves.
LEMMA FloppyStarts == ASSUME FloppyAssumption, FloppyInit PROVE FloppyIInv
<1> USE DEF FloppyInit
<1>1. \A t \in FloppyThread : ~Busy(t) /\ floppy_call[t].pc = "idle"
  BY DEF Busy, NoRequest
<1>2. FloppyTypeOK
  <2>1. 0 \in FloppyDrive /\ 0 \in 0..Cylinders - 1
    BY DEF FloppyAssumption, FloppyDrive
  <2>2. BlankFloppy \in [Positions -> {Unwritten} \cup FloppyBlock]
    BY DEF BlankFloppy
  <2>3. MaxRequests \in Nat /\ 0 \in 0..MaxRequests
    BY DEF FloppyAssumption
  <2>4. /\ motor \in [FloppyDrive -> BOOLEAN] /\ track \in [FloppyDrive -> (0..Cylinders - 1) \cup {1}]
        /\ motor_off_timer \in [FloppyDrive -> {"none", "fresh", "old"}] /\ floppy_drive_seeked \in FloppyDrive
        /\ floppy_buffer \in {Unwritten} \cup FloppyBlock
    BY <2>1
  <2>5. /\ changed \in [FloppyDrive -> BOOLEAN] /\ inside \in [FloppyDrive -> BOOLEAN]
        /\ head \in [FloppyDrive -> 0..Cylinders - 1]
        /\ floppy \in [FloppyDrive -> [Positions -> {Unwritten} \cup FloppyBlock]]
        /\ floppy_call \in [FloppyThread -> {NoRequest} \cup Request]
    BY <2>1, <2>2
  <2> QED BY <2>3, <2>4, <2>5 DEF FloppyTypeOK
<1>3. InPlace
  BY PlacesDiffer DEF InPlace, BlankFloppy
<1>4. Single /\ Timed
  BY <1>1 DEF Single, Timed
<1>5. \A t \in FloppyThread : InHand(t)
  BY <1>1 DEF InHand
<1> QED BY <1>2, <1>3, <1>4, <1>5 DEF FloppyIInv

\* A call at a step is one with all its fields.
LEMMA CallIs ==
  ASSUME FloppyTypeOK, NEW t \in FloppyThread, floppy_call[t].pc # "idle"
  PROVE  floppy_call[t] \in Request /\ Busy(t)
  BY DEF FloppyTypeOK, Busy, NoRequest

\* A thread without a call is at no step.
LEMMA RestIs ==
  ASSUME FloppyTypeOK, NEW t \in FloppyThread
  PROVE  Busy(t) <=> floppy_call[t].pc # "idle"
  BY SMTT(60) DEF FloppyTypeOK, Busy, NoRequest, Request

\* A call that goes on leaves it alone,
LEMMA StaysSingle ==
  ASSUME FloppyTypeOK, Single, NEW t \in FloppyThread, Busy(t), Others(t), mixed' = mixed
  PROVE  Single'
  BY DEF Single, Others, Busy, NoRequest

\* and no other has anything in hand.
LEMMA OthersHold ==
  ASSUME FloppyTypeOK, Single, ~mixed, NEW t \in FloppyThread, Busy(t), Others(t)
  PROVE  \A u \in FloppyThread \ {t} : InHand(u)'
<1>1. \A u \in FloppyThread \ {t} : floppy_call'[u].pc = "idle"
  BY RestIs DEF Single, Others
<1> QED BY <1>1 DEF InHand

\* A new call has its block in the buffer if it is to write it.
LEMMA BeginKeeps ==
  ASSUME FloppyAssumption, FloppyIInv, NEW t \in FloppyThread, Begin(t) PROVE FloppyIInv'
<1>1. PICK d \in Supported, num \in FloppyBlock, write \in BOOLEAN :
        /\ floppy_call' = [floppy_call EXCEPT ![t] =
              [pc |-> "test", drive |-> d, num |-> num, write |-> write, tries |-> 0, sound |-> TRUE]]
        /\ floppy_buffer' = IF write THEN num ELSE floppy_buffer
  BY DEF Begin
<1>2. FloppyTypeOK /\ Single /\ InPlace /\ Timed
  BY DEF FloppyIInv
<1>3. /\ floppy_call'[t] = [pc |-> "test", drive |-> d, num |-> num, write |-> write, tries |-> 0, sound |-> TRUE]
      /\ Others(t) /\ floppy_call'[t] \in Request /\ floppy_call' \in [FloppyThread -> {NoRequest} \cup Request]
  BY <1>1, <1>2 DEF Others, FloppyTypeOK, Request, FloppyAssumption, FloppyDrive
<1>4. FloppyTypeOK'
  BY <1>1, <1>2, <1>3 DEF Begin, FloppyTypeOK, drives, world, FloppyAssumption
<1>5. ~mixed' => ~mixed /\ \A u \in FloppyThread : ~Busy(u)
  BY DEF Begin
<1>6. Single'
  BY <1>3, <1>5 DEF Single, Others, Busy, NoRequest
<1>7. InPlace'
  BY <1>2, <1>5 DEF InPlace, Begin
<1>8. Timed'
  <2>1. floppy_call[t].pc = "idle"
    BY DEF Begin, Busy, NoRequest
  <2> QED BY <1>2, <1>3, <2>1 DEF Timed, Begin, drives, Others
<1>9. ASSUME ~mixed', NEW u \in FloppyThread PROVE InHand(u)'
  <2>1. CASE u = t
    BY <1>1, <1>3, <2>1 DEF InHand
  <2>2. CASE u # t
    <3>1. floppy_call'[u].pc = "idle"
      BY <1>2, <1>3, <1>5, <1>9, <2>2, RestIs DEF Others
    <3> QED BY <3>1 DEF InHand
  <2> QED BY <2>1, <2>2
<1> QED BY <1>4, <1>6, <1>7, <1>8, <1>9 DEF FloppyIInv

\* Of a step of a call that writes nothing to a disk it is left to show what the step is about.
LEMMA GoesOn ==
  ASSUME FloppyIInv, NEW t \in FloppyThread, Busy(t), Others(t), FloppyTypeOK', Timed',
         mixed' = mixed, floppy' = floppy, ~mixed => InHand(t)'
  PROVE  FloppyIInv'
<1>1. FloppyTypeOK /\ Single /\ InPlace
  BY DEF FloppyIInv
<1>2. Single'
  BY <1>1, StaysSingle
<1>3. InPlace'
  BY <1>1 DEF InPlace
<1>4. ~mixed => \A u \in FloppyThread : InHand(u)'
  BY <1>1, OthersHold
<1> QED BY <1>2, <1>3, <1>4 DEF FloppyIInv

\* The motor of a drive whose disk was changed is stopped.
LEMMA DiskChangedKeeps ==
  ASSUME FloppyAssumption, FloppyIInv, NEW t \in FloppyThread, DiskChanged(t) PROVE FloppyIInv'
<1>1. FloppyTypeOK /\ Timed /\ floppy_call[t].pc = "test" /\ floppy_call[t] \in Request /\ Busy(t)
  BY CallIs DEF FloppyIInv, DiskChanged
<1>2. PICK d : d = floppy_call[t].drive /\ d \in FloppyDrive
  BY <1>1 DEF Request
<1>3. PICK step \in {"test", "failed"} : floppy_call' = [floppy_call EXCEPT ![t].pc = step]
  BY <1>2 DEF DiskChanged, Step
<1>4. /\ floppy_call'[t] = [floppy_call[t] EXCEPT !.pc = step] /\ Others(t)
      /\ floppy_call' \in [FloppyThread -> {NoRequest} \cup Request]
  BY <1>1, <1>3 DEF FloppyTypeOK, Request, Others
<1>5. FloppyTypeOK'
  <2>1. track' \in [FloppyDrive -> (0..Cylinders - 1) \cup {1}]
    BY <1>1, <1>2 DEF DiskChanged, FloppyTypeOK
  <2>2. head' \in [FloppyDrive -> 0..Cylinders - 1] /\ motor' \in [FloppyDrive -> BOOLEAN]
    BY <1>1, <1>2 DEF DiskChanged, FloppyTypeOK, FloppyAssumption
  <2>3. /\ motor_off_timer' \in [FloppyDrive -> {"none", "fresh", "old"}] /\ floppy_drive_seeked' \in FloppyDrive
        /\ changed' \in [FloppyDrive -> BOOLEAN]
    BY <1>1, <1>2 DEF DiskChanged, FloppyTypeOK
  <2> QED BY <1>1, <1>4, <2>1, <2>2, <2>3 DEF DiskChanged, FloppyTypeOK
<1>6. Timed'
  <2> SUFFICES ASSUME NEW e \in FloppyDrive, motor'[e], motor_off_timer'[e] = "none"
               PROVE  \E u \in FloppyThread : floppy_call'[u].pc \in {"move", "moved"} /\ floppy_call'[u].drive = e
    BY DEF Timed
  <2>1. e # d /\ motor[e] /\ motor_off_timer[e] = "none"
    BY <1>1, <1>2 DEF DiskChanged, FloppyTypeOK
  <2>2. PICK u \in FloppyThread : floppy_call[u].pc \in {"move", "moved"} /\ floppy_call[u].drive = e
    BY <1>1, <2>1 DEF Timed
  <2> QED BY <1>1, <1>4, <2>2 DEF Others
<1>7. ~mixed => InHand(t)'
  BY <1>1, <1>4, <1>3 DEF FloppyIInv, InHand, DiskChanged, Request
<1> QED BY <1>1, <1>4, <1>5, <1>6, <1>7, GoesOn DEF DiskChanged

\* A step that moves no motor and touches no timer leaves the motors timed, unless it takes
\* their call from the steps at which it will start a timer.
LEMMA StaysTimed ==
  ASSUME FloppyTypeOK, Timed, NEW t \in FloppyThread, Others(t), motor' = motor, motor_off_timer' = motor_off_timer,
         floppy_call[t].pc \in {"move", "moved"} =>
            floppy_call'[t].pc \in {"move", "moved"} /\ floppy_call'[t].drive = floppy_call[t].drive
  PROVE  Timed'
  BY DEF Timed, Others

\* The line of the disk is only looked at.
LEMMA DiskKeptKeeps ==
  ASSUME FloppyIInv, NEW t \in FloppyThread, DiskKept(t) PROVE FloppyIInv'
<1>1. FloppyTypeOK /\ Timed /\ floppy_call[t].pc = "test" /\ floppy_call[t] \in Request /\ Busy(t)
  BY CallIs DEF FloppyIInv, DiskKept
<1>2. /\ floppy_call'[t] = [floppy_call[t] EXCEPT !.pc = "seek"] /\ Others(t)
      /\ floppy_call' \in [FloppyThread -> {NoRequest} \cup Request]
  BY <1>1 DEF FloppyTypeOK, Request, Others, DiskKept, Step
<1>3. FloppyTypeOK'
  BY <1>1, <1>2 DEF DiskKept, FloppyTypeOK, drives, world
<1>4. Timed'
  BY <1>1, <1>2, StaysTimed DEF DiskKept, drives
<1>5. ~mixed => InHand(t)'
  BY <1>1, <1>2 DEF FloppyIInv, InHand, DiskKept, Request
<1> QED BY <1>1, <1>2, <1>3, <1>4, <1>5, GoesOn DEF DiskKept

\* A motor that is started for a seek gets a timer, whether or not the heads arrive.
LEMMA SeekKeeps ==
  ASSUME FloppyAssumption, FloppyIInv, NEW t \in FloppyThread, SeekTrack(t) PROVE FloppyIInv'
<1>1. FloppyTypeOK /\ Timed /\ floppy_call[t].pc = "seek" /\ floppy_call[t] \in Request /\ Busy(t)
  BY CallIs DEF FloppyIInv, SeekTrack
<1>2. PICK d, c : /\ d = floppy_call[t].drive /\ d \in FloppyDrive
                  /\ c = Place(floppy_call[t].num)[1] /\ c \in 0..Cylinders - 1
  BY <1>1, PlacesDiffer DEF Request, Positions
<1>3. \/ Step(t, "motor")
      \/ floppy_call' = [floppy_call EXCEPT ![t].tries = @ + 1,
                                           ![t].pc = IF floppy_call[t].tries = 2 THEN "failed" ELSE "seek"]
  BY <1>1 DEF SeekTrack
<1>4. Others(t)
  BY <1>1, <1>3 DEF FloppyTypeOK, Others, Step
<1>5. /\ floppy_call'[t].pc \in {"motor", "failed", "seek"}
      /\ floppy_call'[t].drive = floppy_call[t].drive /\ floppy_call'[t].num = floppy_call[t].num
      /\ floppy_call'[t].write = floppy_call[t].write
  BY <1>1, <1>3 DEF FloppyTypeOK, Request, Step
<1>6. floppy_call'[t] \in Request /\ floppy_call' \in [FloppyThread -> {NoRequest} \cup Request]
  <2>1. CASE Step(t, "motor")
    BY <1>1, <2>1 DEF FloppyTypeOK, Request, Step
  <2>2. CASE floppy_call' = [floppy_call EXCEPT ![t].tries = @ + 1,
                                               ![t].pc = IF floppy_call[t].tries = 2 THEN "failed" ELSE "seek"]
    <3>1. /\ floppy_call[t].tries \in Nat /\ floppy_call[t].tries + 1 \in Nat
          /\ (IF floppy_call[t].tries = 2 THEN "failed" ELSE "seek") \in {"failed", "seek"}
      BY <1>1 DEF Request
    <3>2. floppy_call'[t] = [floppy_call[t] EXCEPT !.tries = floppy_call[t].tries + 1,
                                                   !.pc = IF floppy_call[t].tries = 2 THEN "failed" ELSE "seek"]
      BY <1>1, <2>2 DEF FloppyTypeOK
    <3>3. floppy_call'[t] \in Request
      BY <1>1, <3>1, <3>2 DEF Request
    <3> QED BY <1>1, <2>2, <3>3 DEF FloppyTypeOK
  <2> QED BY <1>3, <2>1, <2>2
<1>7. \/ UNCHANGED <<drives, head>>
      \/ /\ motor' = [motor EXCEPT ![d] = TRUE] /\ motor_off_timer' = [motor_off_timer EXCEPT ![d] = "fresh"]
         /\ floppy_drive_seeked' = d
         /\ \/ head' = [head EXCEPT ![d] = c] /\ track' = [track EXCEPT ![d] = c]
            \/ UNCHANGED <<head, track>>
  BY <1>2 DEF SeekTrack
<1>8. FloppyTypeOK'
  <2>1. /\ motor' \in [FloppyDrive -> BOOLEAN] /\ track' \in [FloppyDrive -> (0..Cylinders - 1) \cup {1}]
        /\ motor_off_timer' \in [FloppyDrive -> {"none", "fresh", "old"}] /\ floppy_drive_seeked' \in FloppyDrive
        /\ head' \in [FloppyDrive -> 0..Cylinders - 1]
    BY <1>1, <1>2, <1>7 DEF FloppyTypeOK, drives
  <2> QED BY <1>1, <1>6, <2>1 DEF SeekTrack, FloppyTypeOK
<1>9. Timed'
  <2> SUFFICES ASSUME NEW e \in FloppyDrive, motor'[e], motor_off_timer'[e] = "none"
               PROVE  \E u \in FloppyThread : floppy_call'[u].pc \in {"move", "moved"} /\ floppy_call'[u].drive = e
    BY DEF Timed
  <2>1. motor[e] /\ motor_off_timer[e] = "none"
    BY <1>1, <1>2, <1>7 DEF FloppyTypeOK, drives
  <2>2. PICK u \in FloppyThread : floppy_call[u].pc \in {"move", "moved"} /\ floppy_call[u].drive = e
    BY <1>1, <2>1 DEF Timed
  <2> QED BY <1>1, <1>4, <2>2 DEF Others
<1>10. ~mixed => InHand(t)'
  BY <1>1, <1>5 DEF FloppyIInv, InHand, SeekTrack
<1> QED BY <1>1, <1>4, <1>8, <1>9, <1>10, GoesOn DEF SeekTrack

\* A motor that is started for a transfer has none, but its call will move on to "moved".
LEMMA SpinUpKeeps ==
  ASSUME FloppyIInv, NEW t \in FloppyThread, SpinUp(t) PROVE FloppyIInv'
<1>1. FloppyTypeOK /\ Timed /\ floppy_call[t].pc = "motor" /\ floppy_call[t] \in Request /\ Busy(t)
  BY CallIs DEF FloppyIInv, SpinUp
<1>2. PICK d : d = floppy_call[t].drive /\ d \in FloppyDrive
  BY <1>1 DEF Request
<1>3. /\ floppy_call'[t] = [floppy_call[t] EXCEPT !.pc = "move"] /\ Others(t)
      /\ floppy_call' \in [FloppyThread -> {NoRequest} \cup Request]
  BY <1>1 DEF FloppyTypeOK, Request, Others, SpinUp, Step
<1>4. \/ UNCHANGED <<motor, motor_off_timer>>
      \/ motor' = [motor EXCEPT ![d] = TRUE] /\ motor_off_timer' = [motor_off_timer EXCEPT ![d] = "none"]
  BY <1>2 DEF SpinUp, MotorOn
<1>5. FloppyTypeOK'
  BY <1>1, <1>2, <1>3, <1>4, ZenonT(60) DEF SpinUp, FloppyTypeOK, world
<1>6. Timed'
  <2> SUFFICES ASSUME NEW e \in FloppyDrive, motor'[e], motor_off_timer'[e] = "none"
               PROVE  \E u \in FloppyThread : floppy_call'[u].pc \in {"move", "moved"} /\ floppy_call'[u].drive = e
    BY DEF Timed
  <2>1. CASE e = d
    BY <1>1, <1>2, <1>3, <2>1 DEF Request
  <2>2. CASE e # d
    <3>1. motor[e] /\ motor_off_timer[e] = "none"
      BY <1>1, <1>2, <1>4, <2>2 DEF FloppyTypeOK
    <3>2. PICK u \in FloppyThread : floppy_call[u].pc \in {"move", "moved"} /\ floppy_call[u].drive = e
      BY <1>1, <3>1 DEF Timed
    <3> QED BY <1>1, <1>3, <3>2 DEF Others
  <2> QED BY <2>1, <2>2
<1>7. ~mixed => InHand(t)'
  BY <1>1, <1>3 DEF FloppyIInv, InHand, SpinUp, Request
<1> QED BY <1>1, <1>3, <1>5, <1>6, <1>7, GoesOn DEF SpinUp

\* The transfer puts the block where it belongs, or takes from there what belongs there.
LEMMA MoveKeeps ==
  ASSUME FloppyAssumption, FloppyIInv, NEW t \in FloppyThread, Move(t) PROVE FloppyIInv'
<1>1. FloppyTypeOK /\ Timed /\ Single /\ InPlace /\ floppy_call[t].pc = "move" /\ floppy_call[t] \in Request /\ Busy(t)
  BY CallIs DEF FloppyIInv, Move
<1>2. PICK d, num, p : /\ d = floppy_call[t].drive /\ d \in FloppyDrive /\ num = floppy_call[t].num
                       /\ num \in FloppyBlock /\ p = Place(num) /\ p \in Positions
  BY <1>1, PlacesDiffer DEF Request
<1>3. CASE /\ floppy' = (IF floppy_call[t].write THEN [floppy EXCEPT ![d][p] = floppy_buffer] ELSE floppy)
           /\ floppy_buffer' = floppy'[d][p] /\ Step(t, "moved")
  <2>1. /\ floppy_call'[t] = [floppy_call[t] EXCEPT !.pc = "moved"] /\ Others(t)
        /\ floppy_call' \in [FloppyThread -> {NoRequest} \cup Request]
    BY <1>1, <1>3 DEF FloppyTypeOK, Request, Others, Step
  <2>2. floppy' \in [FloppyDrive -> [Positions -> {Unwritten} \cup FloppyBlock]]
    BY <1>1, <1>2, <1>3 DEF FloppyTypeOK
  <2>3. FloppyTypeOK'
    <3>1. floppy_buffer' \in {Unwritten} \cup FloppyBlock
      BY <1>2, <1>3, <2>2
    <3> QED BY <1>1, <2>1, <2>2, <3>1 DEF Move, FloppyTypeOK, drives, world
  <2>4. Timed'
    BY <1>1, <2>1, StaysTimed DEF Move, drives, Request
  <2>5. ~mixed /\ floppy_call[t].write => floppy_buffer = num
    BY <1>1, <1>2 DEF FloppyIInv, InHand
  <2>6. ASSUME ~mixed PROVE floppy'[d][p] \in {Unwritten, num} /\ (floppy_call[t].write => floppy'[d][p] = num)
    BY <1>1, <1>2, <1>3, <2>5, <2>6 DEF FloppyTypeOK, InPlace
  <2>7. InPlace'
    <3> SUFFICES ASSUME ~mixed, NEW e \in FloppyDrive, NEW b \in FloppyBlock
                 PROVE  floppy'[e][Place(b)] \in {Unwritten, b}
      BY DEF InPlace, Move
    <3>1. CASE e = d /\ Place(b) = p
      BY <1>2, <2>6, <3>1, PlacesDiffer
    <3>2. CASE ~(e = d /\ Place(b) = p)
      <4>1. floppy'[e][Place(b)] = floppy[e][Place(b)]
        BY <1>1, <1>2, <1>3, <3>2, PlacesDiffer DEF FloppyTypeOK
      <4> QED BY <1>1, <4>1 DEF InPlace
    <3> QED BY <3>1, <3>2
  <2>8. ~mixed => InHand(t)'
    BY <1>1, <1>2, <1>3, <2>1, <2>6 DEF InHand, Request
  <2>9. Single' /\ mixed' = mixed
    BY <1>1, <2>1, StaysSingle DEF Move
  <2>10. ~mixed => \A u \in FloppyThread : InHand(u)'
    BY <1>1, <2>1, <2>8, OthersHold
  <2> QED BY <2>3, <2>4, <2>7, <2>9, <2>10 DEF FloppyIInv
<1>4. CASE floppy_call' = [floppy_call EXCEPT ![t].pc = "moved", ![t].sound = FALSE] /\ UNCHANGED <<floppy, floppy_buffer>>
  <2>1. /\ floppy_call'[t] = [floppy_call[t] EXCEPT !.pc = "moved", !.sound = FALSE] /\ Others(t)
        /\ floppy_call' \in [FloppyThread -> {NoRequest} \cup Request]
    BY <1>1, <1>4 DEF FloppyTypeOK, Request, Others
  <2>2. FloppyTypeOK'
    BY <1>1, <1>4, <2>1 DEF Move, FloppyTypeOK, drives, world
  <2>3. Timed'
    BY <1>1, <2>1, StaysTimed DEF Move, drives, Request
  <2>4. InHand(t)'
    BY <1>1, <2>1 DEF InHand, Request
  <2> QED BY <1>1, <1>4, <2>1, <2>2, <2>3, <2>4, GoesOn DEF Move
<1> QED BY <1>2, <1>3, <1>4 DEF Move

\* The motor gets its timer.
LEMMA MovedKeeps ==
  ASSUME FloppyIInv, NEW t \in FloppyThread, Moved(t) PROVE FloppyIInv'
<1>1. FloppyTypeOK /\ Timed /\ floppy_call[t].pc = "moved" /\ floppy_call[t] \in Request /\ Busy(t)
  BY CallIs DEF FloppyIInv, Moved
<1>2. PICK d : d = floppy_call[t].drive /\ d \in FloppyDrive
  BY <1>1 DEF Request
<1>3. /\ floppy_call'[t] = [floppy_call[t] EXCEPT !.pc = "return"] /\ Others(t)
      /\ floppy_call' \in [FloppyThread -> {NoRequest} \cup Request]
  BY <1>1 DEF FloppyTypeOK, Request, Others, Moved, Step
<1>4. motor_off_timer' = [motor_off_timer EXCEPT ![d] = "fresh"]
  BY <1>2 DEF Moved, floppy_prepare_motor_off
<1>5. FloppyTypeOK'
  BY <1>1, <1>2, <1>3, <1>4 DEF Moved, FloppyTypeOK, world
<1>6. Timed'
  <2> SUFFICES ASSUME NEW e \in FloppyDrive, motor'[e], motor_off_timer'[e] = "none"
               PROVE  \E u \in FloppyThread : floppy_call'[u].pc \in {"move", "moved"} /\ floppy_call'[u].drive = e
    BY DEF Timed
  <2>1. e # d /\ motor[e] /\ motor_off_timer[e] = "none"
    BY <1>1, <1>2, <1>4 DEF FloppyTypeOK, Moved
  <2>2. PICK u \in FloppyThread : floppy_call[u].pc \in {"move", "moved"} /\ floppy_call[u].drive = e
    BY <1>1, <2>1 DEF Timed
  <2> QED BY <1>2, <1>3, <2>1, <2>2 DEF Others
<1>7. ~mixed => InHand(t)'
  BY <1>1, <1>3 DEF FloppyIInv, InHand, Moved, Request
<1> QED BY <1>1, <1>3, <1>5, <1>6, <1>7, GoesOn DEF Moved

\* A call that ends has no motor to look after.
LEMMA AnswerKeeps ==
  ASSUME FloppyIInv, NEW t \in FloppyThread, Answer(t) PROVE FloppyIInv'
<1>1. FloppyTypeOK /\ Timed /\ floppy_call[t].pc \in {"return", "failed"} /\ floppy_call[t] \in Request /\ Busy(t)
  BY CallIs DEF FloppyIInv, Answer
<1>2. /\ floppy_call'[t] = NoRequest /\ Others(t)
      /\ floppy_call' \in [FloppyThread -> {NoRequest} \cup Request]
  BY <1>1 DEF FloppyTypeOK, Others, Answer
<1>3. FloppyTypeOK'
  BY <1>1, <1>2 DEF Answer, FloppyTypeOK, drives, world
<1>4. Timed'
  BY <1>1, <1>2, StaysTimed DEF Answer, drives
<1>5. InHand(t)'
  BY <1>2 DEF InHand, NoRequest
<1> QED BY <1>1, <1>2, <1>3, <1>4, <1>5, GoesOn DEF Answer

\* What happens outside of the calls.
LEMMA RestKeeps ==
  ASSUME FloppyAssumption, FloppyIInv, Age \/ StopMotor \/ Swap PROVE FloppyIInv'
<1>1. FloppyTypeOK /\ Timed /\ Single /\ InPlace
  BY DEF FloppyIInv
<1>2. floppy_call' = floppy_call /\ mixed' = mixed /\ floppy_calls' = floppy_calls /\ floppy_buffer' = floppy_buffer
      /\ track' = track /\ floppy_drive_seeked' = floppy_drive_seeked /\ head' = head
  BY DEF Age, StopMotor, Swap, drives, world
<1>3. Single'
  BY <1>1, <1>2 DEF Single, Busy
<1>4. CASE Age
  <2>1. PICK d \in FloppyDrive : motor_off_timer' = [motor_off_timer EXCEPT ![d] = "old"]
    BY <1>4 DEF Age
  <2>2. FloppyTypeOK' /\ Timed'
    BY <1>1, <1>2, <1>4, <2>1 DEF Age, FloppyTypeOK, Timed, world
  <2>3. InPlace' /\ (~mixed => \A t \in FloppyThread : InHand(t)')
    BY <1>1, <1>2, <1>4 DEF FloppyIInv, Age, InPlace, InHand
  <2> QED BY <1>2, <1>3, <2>2, <2>3 DEF FloppyIInv
<1>5. CASE StopMotor
  <2>1. PICK d \in FloppyDrive : /\ motor_off_timer' = [motor_off_timer EXCEPT ![d] = "none"]
                                 /\ motor' = [motor EXCEPT ![d] = FALSE]
    BY <1>5 DEF StopMotor
  <2>2. FloppyTypeOK' /\ Timed'
    BY <1>1, <1>2, <1>5, <2>1 DEF StopMotor, FloppyTypeOK, Timed, world
  <2>3. InPlace' /\ (~mixed => \A t \in FloppyThread : InHand(t)')
    BY <1>1, <1>2, <1>5 DEF FloppyIInv, StopMotor, InPlace, InHand
  <2> QED BY <1>2, <1>3, <2>2, <2>3 DEF FloppyIInv
<1>6. CASE Swap
  <2>1. PICK d \in Supported : /\ inside' = [inside EXCEPT ![d] = ~@] /\ floppy' = [floppy EXCEPT ![d] = BlankFloppy]
                               /\ changed' = [changed EXCEPT ![d] = TRUE]
    BY <1>6 DEF Swap
  <2>2. d \in FloppyDrive /\ BlankFloppy \in [Positions -> {Unwritten} \cup FloppyBlock]
    BY DEF FloppyAssumption, FloppyDrive, BlankFloppy
  <2>3. FloppyTypeOK'
    <3>1. /\ inside' \in [FloppyDrive -> BOOLEAN] /\ changed' \in [FloppyDrive -> BOOLEAN]
          /\ floppy' \in [FloppyDrive -> [Positions -> {Unwritten} \cup FloppyBlock]]
      BY <1>1, <2>1, <2>2 DEF FloppyTypeOK
    <3> QED BY <1>1, <1>2, <1>6, <3>1 DEF Swap, FloppyTypeOK, drives
  <2>4. Timed'
    BY <1>1, <1>2, <1>6 DEF Swap, Timed, drives
  <2>5. InPlace'
    BY <1>1, <1>2, <2>1, <2>2, PlacesDiffer DEF InPlace, FloppyTypeOK, BlankFloppy
  <2>6. \A t \in FloppyThread : floppy_call[t].pc = "idle"
    BY <1>1, <1>6, RestIs DEF Swap
  <2>7. \A t \in FloppyThread : InHand(t)'
    BY <1>2, <2>6 DEF InHand
  <2> QED BY <1>3, <2>3, <2>4, <2>5, <2>7 DEF FloppyIInv
<1> QED BY <1>4, <1>5, <1>6

\* Every step keeps the invariant.
LEMMA FloppyStays == FloppyAssumption /\ FloppyIInv /\ [FloppyNext]_floppyVars => FloppyIInv'
<1> SUFFICES ASSUME FloppyAssumption, FloppyIInv, [FloppyNext]_floppyVars PROVE FloppyIInv'
  OBVIOUS
<1>1. CASE UNCHANGED floppyVars
  <2>1. /\ FloppyTypeOK' = FloppyTypeOK /\ Single' = Single /\ InPlace' = InPlace /\ Timed' = Timed
        /\ \A t \in FloppyThread : InHand(t)' = InHand(t)
    BY <1>1 DEF floppyVars, drives, world, FloppyTypeOK, Single, InPlace, Timed, InHand, Busy
  <2>2. mixed' = mixed
    BY <1>1 DEF floppyVars
  <2> QED BY <2>1, <2>2 DEF FloppyIInv
<1>2. CASE FloppyNext
  BY <1>2, RestKeeps, BeginKeeps, DiskChangedKeeps, DiskKeptKeeps, SeekKeeps, SpinUpKeeps, MoveKeeps, MovedKeeps,
     AnswerKeeps DEF FloppyNext
<1> QED BY <1>1, <1>2

\* For any drives, disks and threads: while no two calls are made at a time, a call that the
\* controller carried out has moved its block; and however they are made, no motor runs for ever.
THEOREM BlocksAreMoved == FloppySpec => []FloppyServes
<1>1. FloppyIInv => FloppyServes
  <2> SUFFICES ASSUME FloppyIInv PROVE FloppyServes
    OBVIOUS
  <2>1. BlockIsMoved
    BY DEF FloppyIInv, InHand, BlockIsMoved
  <2>2. MotorWillStop
    BY RestIs DEF FloppyIInv, Timed, MotorWillStop
  <2> QED BY <2>1, <2>2 DEF FloppyServes
<1>2. FloppyInit => FloppyIInv
  BY FloppyStarts, FloppyAssumption
<1>3. FloppyIInv /\ [FloppyNext]_floppyVars => FloppyIInv'
  BY FloppyStays, FloppyAssumption
<1> QED BY <1>1, <1>2, <1>3, PTL DEF FloppySpec

-----------------------------------------------------------------------------
(* The IDE controllers.                                                    *)

\* Of the others at the controller of a sound call none has given a command, and each of them
\* knows that it is disturbed.
Alone(t) ==
    call[t] # Idle /\ call[t].sound =>
       /\ \A u \in IdeThread \ {t} : Uses(u, ControllerOf(t)) => call[u].pc = "command" /\ ~call[u].sound
       /\ \A d \in looked : d[1] # ControllerOf(t)

\* The sectors of the first command.
First(m) == Min({m.asked[2], Chunk})

\* The sector that the caller named at place k is in its buffer, or on the drive.
Right(t, k) ==
    LET m == call[t]
        sector == media[m.drive][m.asked[1] + k]
    IN IF m.writes THEN sector = New ELSE m.buf[k + 1] = sector

\* The call is at its first command: the registers are to name, or name, its next sector.
Begun(t) ==
    LET m == call[t]
    IN /\ m.sector = m.asked[1] /\ m.count = m.asked[2]
       /\ \/ m.pc = "command" /\ m.retval = 0
          \/ /\ m.pc = "transfer" /\ m.i = m.retval
             /\ active[ControllerOf(t)] =
                   [unit |-> m.drive[2], writes |-> m.writes, at |-> m.asked[1] + m.i, left |-> First(m) - m.i]

\* What has been moved of the first command is right, and before its end it goes on.
AtaHolds(t) ==
    LET m == call[t]
    IN /\ m.asked[1] + m.asked[2] <= DriveSize[m.drive]
       /\ m.writes \/ Len(m.buf) = m.retval
       /\ \A k \in 0..First(m) - 1 : k < m.retval => Right(t, k)
       /\ m.retval < First(m) => Begun(t)

\* What has been moved is right, and the packet goes on behind it; a count that is no more than
\* what was asked for is of what has been moved.
AtapiHolds(t) ==
    LET m == call[t]
        n == m.asked[2]
    IN /\ m.count = n
       /\ m.pc = "parts" =>
             /\ Len(m.buf) <= n
             /\ active[ControllerOf(t)] =
                   [unit |-> m.drive[2], writes |-> FALSE, at |-> m.asked[1] + Len(m.buf), left |-> n - Len(m.buf)]
             /\ \A k \in 0..Len(m.buf) - 1 : Right(t, k)
       /\ m.pc = "return" /\ m.retval <= n => \A k \in 0..m.retval - 1 : Right(t, k)

\* This holds of a call that nobody has disturbed and for which the drive was not late.
Holds(t) ==
    /\ call[t] \in AtaCall /\ call[t].sound => AtaHolds(t)
    /\ call[t] \in AtapiCall /\ call[t].sound => AtapiHolds(t)

\* A disc is locked from before its drive is open, while it is being opened.
Guarded ==
    \A d \in Drive : (ide_devices[d].refs > 0 \/ \E t \in IdeThread : Opening(t, d)) /\ d \notin raced => d \in locked

\* The invariant.
IdeIInv == IdeTypeOK /\ Guarded /\ \A t \in IdeThread : Alone(t) /\ Holds(t)

\* A call goes on as it is, or learns that it is disturbed.
Fainter(t) == call'[t] = call[t] \/ (call[t] # Idle /\ call'[t] = [call[t] EXCEPT !.sound = FALSE])

\* The lesser of two numbers.
LEMMA MinIs ==
  ASSUME NEW a \in Nat, NEW b \in Nat
  PROVE  Min({a, b}) = IF a <= b THEN a ELSE b
<1>1. PICK m \in {a, b} : \A y \in {a, b} : m <= y
  OBVIOUS
<1>2. Min({a, b}) \in {a, b} /\ \A y \in {a, b} : Min({a, b}) <= y
  BY <1>1 DEF Min
<1> QED BY <1>2

\* The first command of a call is for a sector at least, and for no more than the call.
LEMMA FirstIs ==
  ASSUME NEW m \in AtaCall \cup AtapiCall
  PROVE  /\ First(m) \in Nat /\ 0 < First(m) /\ First(m) <= m.asked[2] /\ First(m) <= Chunk
         /\ m.asked[1] \in Nat /\ m.asked[2] \in 1..MaxCount /\ m.asked[2] \in Nat
<1>1. Chunk \in Nat \ {0} /\ MaxCount \in Nat
  BY IdeAssumption
<1>2. m.asked[1] \in Nat /\ m.asked[2] \in 1..MaxCount
  BY DEF AtaCall, AtapiCall
<1>3. First(m) = IF m.asked[2] <= Chunk THEN m.asked[2] ELSE Chunk
  BY <1>1, <1>2, MinIs DEF First
<1> QED BY <1>1, <1>2, <1>3

\* The step of a call says what it is a call of.
LEMMA CallIsOf ==
  ASSUME IdeTypeOK, NEW t \in IdeThread
  PROVE  /\ call[t].pc = "idle" <=> call[t] = Idle
         /\ call[t].pc \in {"command", "transfer"} => call[t] \in AtaCall
         /\ call[t].pc = "parts" => call[t] \in AtapiCall
         /\ call[t].pc = "refs" => call[t] \in OpenCall
         /\ call[t].pc = "return" => call[t] \in AtaCall \cup AtapiCall
         /\ call[t] # Idle => call[t].drive \in Drive /\ call[t].sound \in BOOLEAN
<1>1. call[t] \in {Idle} \cup AtaCall \cup AtapiCall \cup OpenCall
  BY DEF IdeTypeOK
<1>2. CASE call[t] = Idle
  BY <1>2 DEF Idle
<1>3. CASE call[t] \in AtaCall
  BY <1>3, SMTT(60) DEF Idle, AtaCall
<1>4. CASE call[t] \in AtapiCall
  <2>1. call[t].pc \in {"parts", "return"} /\ call[t].drive \in Drive /\ call[t].sound \in BOOLEAN
    BY <1>4 DEF AtapiCall
  <2>2. call[t] # Idle
    BY <2>1 DEF Idle
  <2> QED BY <1>4, <2>1, <2>2
<1>5. CASE call[t] \in OpenCall
  BY <1>5 DEF Idle, OpenCall
<1> QED BY <1>1, <1>2, <1>3, <1>4, <1>5

\* A drive is one of its controller.
LEMMA DriveIs ==
  ASSUME NEW d \in Drive
  PROVE  d = <<d[1], d[2]>> /\ d[1] \in Controller /\ d[2] \in Nat /\ DriveSize[d] \in Nat \ {0}
  BY IdeAssumption DEF Drive, Controller

\* Who is disturbed knows it, and nobody else is touched.
LEMMA DisturbIs ==
  ASSUME IdeTypeOK, NEW t \in IdeThread, NEW c
  PROVE  /\ Disturb(t, c) \in [IdeThread -> {Idle} \cup AtaCall \cup AtapiCall \cup OpenCall]
         /\ Disturb(t, c)[t] = call[t]
         /\ \A u \in IdeThread : \/ Disturb(t, c)[u] = call[u]
                                 \/ call[u] # Idle /\ Disturb(t, c)[u] = [call[u] EXCEPT !.sound = FALSE]
         /\ \A u \in IdeThread \ {t} : Uses(u, c) => Disturb(t, c)[u] = [call[u] EXCEPT !.sound = FALSE]
<1>1. ASSUME NEW u \in IdeThread, call[u] # Idle
      PROVE  [call[u] EXCEPT !.sound = FALSE] \in AtaCall \cup AtapiCall \cup OpenCall
  <2>1. call[u] \in AtaCall \cup AtapiCall \cup OpenCall
    BY <1>1 DEF IdeTypeOK
  <2> QED BY <2>1, ZenonT(60) DEF AtaCall, AtapiCall, OpenCall
<1>2. call \in [IdeThread -> {Idle} \cup AtaCall \cup AtapiCall \cup OpenCall]
  BY DEF IdeTypeOK
<1> QED BY <1>1, <1>2 DEF Disturb, Uses

\* Who is not at the controller is not disturbed.
LEMMA UndisturbedIs ==
  ASSUME NEW t \in IdeThread, NEW c, NEW u \in IdeThread, ~Uses(u, c)
  PROVE  Disturb(t, c)[u] = call[u]
  BY DEF Disturb

\* A call that goes on as it is, or faints, is at the same step for the same drive.
LEMMA FaintIs ==
  ASSUME IdeTypeOK, NEW u \in IdeThread, Fainter(u)
  PROVE  /\ call[u] = Idle => call'[u] = Idle
         /\ call[u] # Idle => /\ call'[u] # Idle /\ call'[u].pc = call[u].pc /\ call'[u].drive = call[u].drive
                              /\ call'[u].sound => call'[u] = call[u]
<1>1. call[u] = Idle => call'[u] = Idle
  BY DEF Fainter
<1>2. ASSUME call[u] # Idle
      PROVE  /\ call'[u] # Idle /\ call'[u].pc = call[u].pc /\ call'[u].drive = call[u].drive
             /\ call'[u].sound => call'[u] = call[u]
  <2>1. call[u] \in AtaCall \cup AtapiCall \cup OpenCall
    BY <1>2 DEF IdeTypeOK
  <2>2. CASE call'[u] = call[u]
    BY <1>2, <2>2
  <2>3. CASE call'[u] = [call[u] EXCEPT !.sound = FALSE]
    BY <2>1, <2>3 DEF AtaCall, AtapiCall, OpenCall, Idle
  <2> QED BY <1>2, <2>2, <2>3 DEF Fainter
<1> QED BY <1>1, <1>2

\* What holds of a call goes on to hold while nobody comes to its drive and its registers.
LEMMA HoldsStays ==
  ASSUME IdeTypeOK, NEW u \in IdeThread, Fainter(u), Holds(u),
         call[u] # Idle /\ call[u].sound =>
            /\ media'[call[u].drive] = media[call[u].drive]
            /\ call[u].pc # "command" => active'[ControllerOf(u)] = active[ControllerOf(u)]
  PROVE  Holds(u)'
<1>1. CASE call'[u] = call[u]
  <2> SUFFICES ASSUME call[u] \in AtaCall \cup AtapiCall, call[u].sound PROVE Holds(u)'
    BY <1>1 DEF Holds
  <2>1. call[u] # Idle
    <3>1. call[u].pc # "idle"
      BY DEF AtaCall, AtapiCall
    <3> QED BY <3>1 DEF Idle
  <2>2. ControllerOf(u)' = ControllerOf(u) /\ First(call'[u]) = First(call[u])
    BY <1>1 DEF ControllerOf
  <2>3. \A k : Right(u, k)' = Right(u, k)
    BY <1>1, <2>1 DEF Right
  <2>4. AtaHolds(u) => AtaHolds(u)'
    BY <1>1, <2>1, <2>2, <2>3 DEF AtaHolds, Begun
  <2>5. AtapiHolds(u) => AtapiHolds(u)'
    BY <1>1, <2>1, <2>2, <2>3 DEF AtapiHolds
  <2> QED BY <1>1, <2>4, <2>5 DEF Holds
<1>2. CASE call'[u] # call[u]
  <2>1. call'[u] # Idle /\ ~call'[u].sound
    BY <1>2, FaintIs DEF Fainter
  <2> QED BY <2>1 DEF Holds
<1> QED BY <1>1, <1>2

\* A sound call stays alone if those who come know that they are not.
LEMMA AloneStays ==
  ASSUME IdeTypeOK, NEW u \in IdeThread, Fainter(u), Alone(u), looked' \subseteq looked,
         \A v \in IdeThread \ {u} :
            \/ Fainter(v)
            \/ call'[v] = Idle
            \/ call'[v].pc = "command" /\ ~call'[v].sound
            \/ call'[v].drive[1] # call[u].drive[1]
            \/ ~call'[u].sound
  PROVE  Alone(u)'
<1> SUFFICES ASSUME call'[u] # Idle, call'[u].sound PROVE Alone(u)'
  BY DEF Alone
<1>1. call[u] # Idle /\ call[u].sound /\ call'[u] = call[u]
  BY FaintIs
<1>2. ControllerOf(u)' = ControllerOf(u)
  BY <1>1 DEF ControllerOf
<1>3. ASSUME NEW v \in IdeThread \ {u}, Uses(v, ControllerOf(u))'
      PROVE  call'[v].pc = "command" /\ ~call'[v].sound
  <2>1. CASE Fainter(v)
    <3>1. call[v] # Idle /\ call'[v].drive = call[v].drive /\ call'[v].pc = call[v].pc
          /\ (call'[v].sound => call[v].sound)
      BY <1>3, <2>1, FaintIs DEF Uses
    <3>2. Uses(v, ControllerOf(u))
      BY <1>2, <1>3, <3>1 DEF Uses, ControllerOf
    <3> QED BY <1>1, <3>1, <3>2 DEF Alone
  <2>2. CASE call'[v].drive[1] # call[u].drive[1]
    BY <1>1, <1>3, <2>2 DEF Uses, ControllerOf
  <2> QED BY <1>3, <2>1, <2>2 DEF Uses
<1>4. \A d \in looked' : d[1] # ControllerOf(u)
  BY <1>1 DEF Alone
<1> QED BY <1>2, <1>3, <1>4 DEF Alone

\* Discs stay locked while nobody opens one and none is unlocked.
LEMMA GuardedStays ==
  ASSUME Guarded, locked \subseteq locked', raced \subseteq raced',
         \A d \in Drive : ide_devices'[d].refs > 0 => ide_devices[d].refs > 0,
         \A u \in IdeThread : call'[u].pc = "refs" => call[u].pc = "refs" /\ call'[u].drive = call[u].drive
  PROVE  Guarded'
  BY DEF Guarded, Opening

\* Nobody begins to open a drive by fainting.
LEMMA FaintGuards ==
  ASSUME IdeTypeOK, NEW u \in IdeThread, Fainter(u)
  PROVE  call'[u].pc = "refs" => call[u].pc = "refs" /\ call'[u].drive = call[u].drive
  BY FaintIs, CallIsOf DEF Idle

\* In the middle of a call a thread is alone at its controller, but for who is disturbed.
LEMMA NobodySound ==
  ASSUME IdeIInv, NEW t \in IdeThread, call[t] # Idle, call[t].pc # "command",
         NEW u \in IdeThread \ {t}, call[u] # Idle, call[u].sound
  PROVE  call[u].drive[1] # call[t].drive[1]
  BY DEF IdeIInv, Alone, Uses, ControllerOf

\* While a thread goes on with its call, the sound calls are those at other controllers.
LEMMA OthersGoOn ==
  ASSUME IdeIInv, NEW t \in IdeThread, call[t] # Idle, call[t].pc # "command",
         call'[t] = Idle \/ call'[t].drive = call[t].drive, \A u \in IdeThread \ {t} : call'[u] = call[u],
         looked' \subseteq looked, \A d \in Drive : d[1] # call[t].drive[1] => media'[d] = media[d],
         \A c \in Controller : c # call[t].drive[1] => active'[c] = active[c]
  PROVE  \A u \in IdeThread \ {t} : Alone(u)' /\ Holds(u)'
<1> TAKE u \in IdeThread \ {t}
<1>1. IdeTypeOK /\ Alone(u) /\ Holds(u) /\ \A v \in IdeThread \ {t} : Fainter(v)
  BY DEF IdeIInv, Fainter
<1>2. call[u] # Idle => call[u].drive \in Drive /\ call[u].drive[1] \in Controller
  BY <1>1, CallIsOf, DriveIs
<1>3. call[u] # Idle /\ call[u].sound => call[u].drive[1] # call[t].drive[1]
  BY NobodySound
<1>4. Holds(u)'
  BY <1>1, <1>2, <1>3, HoldsStays DEF ControllerOf
<1>5. Alone(u)'
  <2>1. CASE call[u] # Idle /\ call[u].sound
    BY <1>1, <1>3, <2>1, AloneStays
  <2>2. CASE ~(call[u] # Idle /\ call[u].sound)
    BY <2>2 DEF Alone
  <2> QED BY <2>1, <2>2
<1> QED BY <1>4, <1>5

\* A thread that goes on alone is alone.
LEMMA GoesOnAlone ==
  ASSUME IdeIInv, NEW t \in IdeThread, \A u \in IdeThread \ {t} : call'[u] = call[u], looked' \subseteq looked,
         call'[t] = Idle \/ (call[t] # Idle /\ call'[t].drive = call[t].drive /\ (call'[t].sound => call[t].sound))
  PROVE  Alone(t)'
  BY DEF IdeIInv, Alone, Uses, ControllerOf

\* A thread that begins disturbs those at its controller,
LEMMA OthersDisturbed ==
  ASSUME IdeIInv, NEW t \in IdeThread, NEW c, \A u \in IdeThread \ {t} : call'[u] = Disturb(t, c)[u],
         call'[t] = Idle \/ call'[t].drive[1] = c, looked' \subseteq looked, media' = media,
         \A b \in Controller : b # c => active'[b] = active[b]
  PROVE  \A u \in IdeThread \ {t} : Fainter(u) /\ Alone(u)' /\ Holds(u)'
<1>0. \A u \in IdeThread \ {t} : Uses(u, c) \/ call'[u] = call[u]
  BY UndisturbedIs
<1>1. IdeTypeOK /\ \A u \in IdeThread \ {t} : Fainter(u) /\ Alone(u) /\ Holds(u)
  BY DisturbIs DEF IdeIInv, Fainter
<1> TAKE u \in IdeThread \ {t}
<1>2. CASE Uses(u, c)
  <2>1. call'[u] = [call[u] EXCEPT !.sound = FALSE] /\ call[u] # Idle
    BY <1>1, <1>2, DisturbIs DEF Uses
  <2>2. call[u] \in AtaCall \cup AtapiCall \cup OpenCall
    BY <1>1, <2>1 DEF IdeTypeOK
  <2>3. ~call'[u].sound
    BY <2>1, <2>2 DEF AtaCall, AtapiCall, OpenCall
  <2> QED BY <1>1, <2>3 DEF Alone, Holds
<1>3. CASE ~Uses(u, c)
  <2>1. call'[u] = call[u] /\ (call[u] # Idle => call[u].drive[1] # c)
    <3>1. call'[u] = call[u]
      BY <1>0, <1>3
    <3> QED BY <1>3, <3>1 DEF Uses, ControllerOf
  <2>2. call[u] # Idle => call[u].drive[1] \in Controller
    BY <1>1, CallIsOf, DriveIs
  <2>3. Holds(u)'
    BY <1>1, <2>1, <2>2, HoldsStays DEF ControllerOf
  <2>4. Alone(u)'
    <3>1. CASE call[u] = Idle
      BY <2>1, <3>1 DEF Alone
    <3>2. CASE call[u] # Idle
      BY <1>1, <2>1, <3>2, AloneStays
    <3> QED BY <3>1, <3>2
  <2> QED BY <1>1, <2>3, <2>4
<1> QED BY <1>2, <1>3

\* and is alone if it says so.
LEMMA BeginsAlone ==
  ASSUME IdeTypeOK, NEW t \in IdeThread, looked' \subseteq looked, \A u \in IdeThread \ {t} : Fainter(u),
         call'[t] # Idle /\ call'[t].sound => ~Crowded(t, call'[t].drive[1])
  PROVE  Alone(t)'
<1> SUFFICES ASSUME call'[t] # Idle, call'[t].sound PROVE Alone(t)'
  BY DEF Alone
<1>1. ControllerOf(t)' = call'[t].drive[1] /\ ~Crowded(t, call'[t].drive[1])
  BY DEF ControllerOf
<1>2. \A u \in IdeThread \ {t} : ~Uses(u, ControllerOf(t))'
  <2> TAKE u \in IdeThread \ {t}
  <2>1. call'[u] # Idle => call[u] # Idle /\ call'[u].drive = call[u].drive
    BY FaintIs
  <2> QED BY <1>1, <2>1 DEF Crowded, Uses, ControllerOf
<1>3. \A d \in looked' : d[1] # ControllerOf(t)'
  BY <1>1 DEF Crowded
<1> QED BY <1>2, <1>3 DEF Alone

-----------------------------------------------------------------------------
(* Every step keeps the invariant.                                         *)

\* What ide_probe() learns of a drive is what it is.
LEMMA IdentifyKeeps == ASSUME IdeIInv, Identify PROVE IdeIInv'
<1>1. IdeTypeOK /\ Guarded /\ \A t \in IdeThread : Alone(t) /\ Holds(t) /\ Fainter(t)
  BY DEF IdeIInv, Identify, Fainter
<1>2. PICK d : /\ ide_devices' = [ide_devices EXCEPT ![d] = CASE Kind[d] = "ata" -> Known("harddisk", DriveSize[d])
                                                         [] Kind[d] = "atapi" -> Known("cdrom", 0)
                                                         [] OTHER -> Unknown]
               /\ unprobed' = unprobed \ {d}
  BY DEF Identify
<1>3. PICK known : /\ ide_devices' = [ide_devices EXCEPT ![d] = known]
                   /\ known = CASE Kind[d] = "ata" -> Known("harddisk", DriveSize[d])
                                [] Kind[d] = "atapi" -> Known("cdrom", 0)
                                [] OTHER -> Unknown
  BY <1>2
<1>4. d \in Drive => /\ known \in Device /\ known.refs = 0
                     /\ known.type = "harddisk" => Kind[d] = "ata"
                     /\ known.type = "cdrom" => Kind[d] = "atapi"
  <2>1. d \in Drive => DriveSize[d] \in Nat
    BY DriveIs
  <2>2. CASE Kind[d] = "ata"
    BY <1>3, <2>1, <2>2 DEF Known, Device
  <2>3. CASE Kind[d] = "atapi"
    BY <1>3, <2>3 DEF Known, Device
  <2>4. CASE Kind[d] # "ata" /\ Kind[d] # "atapi"
    BY <1>3, <2>4, SMTT(60) DEF Unknown, Known, Device
  <2> QED BY <2>2, <2>3, <2>4
<1>5. IdeTypeOK'
  <2>1. /\ ide_devices' \in [Drive -> Device] /\ unprobed' \subseteq Drive
        /\ \A e \in Drive : /\ ide_devices'[e].type = "harddisk" => Kind[e] = "ata"
                            /\ ide_devices'[e].type = "cdrom" => Kind[e] = "atapi"
    <3>1. CASE d \in Drive
      <4>1. ide_devices \in [Drive -> Device] /\ unprobed \subseteq Drive
        BY <1>1 DEF IdeTypeOK
      <4>2. ide_devices' \in [Drive -> Device] /\ ide_devices'[d] = known
            /\ \A e \in Drive : e # d => ide_devices'[e] = ide_devices[e]
        BY <1>3, <1>4, <3>1, <4>1
      <4> QED BY <1>1, <1>2, <1>4, <4>1, <4>2 DEF IdeTypeOK
    <3>2. CASE d \notin Drive
      <4>1. ide_devices' = ide_devices
        BY <1>1, <1>3, <3>2 DEF IdeTypeOK
      <4> QED BY <1>1, <1>2, <4>1 DEF IdeTypeOK
    <3> QED BY <3>1, <3>2
  <2> QED BY <1>1, <2>1 DEF IdeTypeOK, Identify
<1>6. Guarded'
  <2>1. \A e \in Drive : ide_devices'[e].refs > 0 => ide_devices[e].refs > 0
    BY <1>1, <1>3, <1>4 DEF IdeTypeOK
  <2> QED BY <1>1, <2>1, GuardedStays DEF Identify
<1>7. \A t \in IdeThread : Alone(t)' /\ Holds(t)'
  BY <1>1, AloneStays, HoldsStays DEF Identify
<1> QED BY <1>5, <1>6, <1>7 DEF IdeIInv

\* A call that ends was alone.
LEMMA EndRwKeeps == ASSUME IdeIInv, NEW t \in IdeThread, EndRw(t) PROVE IdeIInv'
<1>1. IdeTypeOK /\ Guarded /\ call[t] # Idle /\ call[t].pc = "return"
  BY CallIsOf DEF IdeIInv, EndRw, Idle
<1>2. call'[t] = Idle /\ \A u \in IdeThread \ {t} : call'[u] = call[u]
  BY <1>1 DEF EndRw, IdeTypeOK
<1>3. IdeTypeOK'
  BY <1>1 DEF EndRw, IdeTypeOK
<1>4. Guarded'
  BY <1>1, <1>2, GuardedStays DEF EndRw, Idle
<1>5. \A u \in IdeThread \ {t} : Alone(u)' /\ Holds(u)'
  BY <1>1, <1>2, OthersGoOn DEF EndRw
<1>6. Alone(t)' /\ Holds(t)'
  <2>1. Idle \notin AtaCall \cup AtapiCall
    BY DEF Idle, AtaCall, AtapiCall
  <2> QED BY <1>2, <2>1 DEF Alone, Holds
<1> QED BY <1>3, <1>4, <1>5, <1>6 DEF IdeIInv

\* A drive that is closed was open,
LEMMA CloseKeeps == ASSUME IdeIInv, NEW t \in IdeThread, Close(t) PROVE IdeIInv'
<1>1. IdeTypeOK /\ Guarded /\ \A u \in IdeThread : Alone(u) /\ Holds(u) /\ Fainter(u)
  BY DEF IdeIInv, Close, Fainter
<1>2. PICK d \in Drive : ide_devices' = [ide_devices EXCEPT ![d].refs = @ - 1]
  BY DEF Close
<1>3. IdeTypeOK'
  <2>1. /\ ide_devices' \in [Drive -> Device]
        /\ \A e \in Drive : ide_devices'[e].type = ide_devices[e].type
    <3>1. ide_devices \in [Drive -> Device] /\ ide_devices[d] \in Device /\ ide_devices[d].refs - 1 \in Int
      BY <1>1 DEF IdeTypeOK, Device
    <3>2. PICK known : known = [ide_devices[d] EXCEPT !.refs = ide_devices[d].refs - 1]
      OBVIOUS
    <3>3. known \in Device /\ known.type = ide_devices[d].type
      BY <3>1, <3>2 DEF Device
    <3>4. ide_devices' = [ide_devices EXCEPT ![d] = known]
      BY <3>1, <1>2, <3>2
    <3> QED BY <3>1, <3>3, <3>4
  <2> QED BY <1>1, <2>1 DEF IdeTypeOK, Close
<1>4. Guarded'
  <2>1. \A e \in Drive : ide_devices'[e].refs > 0 => ide_devices[e].refs > 0
    BY <1>1, <1>2 DEF IdeTypeOK, Device
  <2> QED BY <1>1, <2>1, GuardedStays DEF Close
<1>5. \A u \in IdeThread : Alone(u)' /\ Holds(u)'
  BY <1>1, AloneStays, HoldsStays DEF Close
<1> QED BY <1>3, <1>4, <1>5 DEF IdeIInv

\* and one that is opened has been locked.
LEMMA OpenedKeeps == ASSUME IdeIInv, NEW t \in IdeThread, Opened(t) PROVE IdeIInv'
<1>1. IdeTypeOK /\ Guarded /\ call[t] # Idle /\ call[t].pc = "refs"
  BY CallIsOf DEF IdeIInv, Opened, Idle
<1>2. call'[t] = Idle /\ \A u \in IdeThread \ {t} : call'[u] = call[u]
  BY <1>1 DEF Opened, IdeTypeOK
<1>3. PICK d \in Drive : d = call[t].drive /\ ide_devices' = [ide_devices EXCEPT ![d].refs = @ + 1]
  BY <1>1, CallIsOf DEF Opened
<1>4. IdeTypeOK'
  <2>1. /\ ide_devices' \in [Drive -> Device]
        /\ \A e \in Drive : ide_devices'[e].type = ide_devices[e].type
    <3>1. ide_devices \in [Drive -> Device] /\ ide_devices[d] \in Device /\ ide_devices[d].refs + 1 \in Int
      BY <1>1 DEF IdeTypeOK, Device
    <3>2. PICK known : known = [ide_devices[d] EXCEPT !.refs = ide_devices[d].refs + 1]
      OBVIOUS
    <3>3. known \in Device /\ known.type = ide_devices[d].type
      BY <3>1, <3>2 DEF Device
    <3>4. ide_devices' = [ide_devices EXCEPT ![d] = known]
      BY <3>1, <1>3, <3>2
    <3> QED BY <3>1, <3>3, <3>4
  <2> QED BY <1>1, <2>1 DEF IdeTypeOK, Opened
<1>5. Guarded'
  <2>1. \A e \in Drive : ide_devices'[e].refs > 0 => ide_devices[e].refs > 0 \/ Opening(t, e)
    BY <1>1, <1>3 DEF IdeTypeOK, Device, Opening
  <2>2. \A e \in Drive, u \in IdeThread : Opening(u, e)' => Opening(u, e)
    BY <1>2 DEF Opening, Idle
  <2> QED BY <1>1, <2>1, <2>2 DEF Guarded, Opened
<1>6. \A u \in IdeThread \ {t} : Alone(u)' /\ Holds(u)'
  BY <1>1, <1>2, OthersGoOn DEF Opened
<1>7. Alone(t)' /\ Holds(t)'
  <2>1. Idle \notin AtaCall \cup AtapiCall
    BY DEF Idle, AtaCall, AtapiCall
  <2> QED BY <1>2, <2>1 DEF Alone, Holds
<1> QED BY <1>4, <1>5, <1>6, <1>7 DEF IdeIInv

\* A step of a call that touches no device and no lock keeps the discs locked.
LEMMA CallGuards ==
  ASSUME IdeIInv, NEW t \in IdeThread, \A u \in IdeThread \ {t} : Fainter(u), call'[t].pc # "refs",
         ide_devices' = ide_devices, locked' = locked, raced' = raced
  PROVE  Guarded'
  BY FaintGuards, GuardedStays DEF IdeIInv

\* A call of a hard disk begins, and is alone if nobody is there.
LEMMA AtaRwKeeps == ASSUME IdeIInv, NEW t \in IdeThread, AtaRw(t) PROVE IdeIInv'
<1>1. IdeTypeOK /\ Guarded /\ call[t] = Idle
  BY DEF IdeIInv, AtaRw
<1>2. PICK d \in Drive, n \in 1..MaxCount, w \in BOOLEAN, s \in Nat :
        /\ ide_devices[d].type = "harddisk" /\ s + n <= DriveSize[d]
        /\ call' = [call EXCEPT ![t] =
              [pc |-> "command", drive |-> d, sector |-> s, count |-> n, writes |-> w, asked |-> <<s, n>>,
               i |-> 0, buf |-> <<>>, retval |-> 0, sound |-> ~Crowded(t, d[1])]]
  <2>1. PICK d \in Drive, n \in 1..MaxCount, w \in BOOLEAN : \E s \in 0..DriveSize[d] - 1 :
          /\ ide_devices[d].type = "harddisk" /\ s + n <= DriveSize[d]
          /\ call' = [call EXCEPT ![t] =
                [pc |-> "command", drive |-> d, sector |-> s, count |-> n, writes |-> w, asked |-> <<s, n>>,
                 i |-> 0, buf |-> <<>>, retval |-> 0, sound |-> ~Crowded(t, d[1])]]
    BY DEF AtaRw
  <2>2. PICK s \in 0..DriveSize[d] - 1 :
          /\ ide_devices[d].type = "harddisk" /\ s + n <= DriveSize[d]
          /\ call' = [call EXCEPT ![t] =
                [pc |-> "command", drive |-> d, sector |-> s, count |-> n, writes |-> w, asked |-> <<s, n>>,
                 i |-> 0, buf |-> <<>>, retval |-> 0, sound |-> ~Crowded(t, d[1])]]
    BY <2>1
  <2>3. s \in Nat
    BY DriveIs
  <2> QED BY <2>2, <2>3
<1>3. PICK sound \in BOOLEAN : sound = ~Crowded(t, d[1])
  BY DEF Crowded
<1>4. PICK m : /\ m = [pc |-> "command", drive |-> d, sector |-> s, count |-> n, writes |-> w, asked |-> <<s, n>>,
                       i |-> 0, buf |-> <<>>, retval |-> 0, sound |-> sound]
               /\ call' = [call EXCEPT ![t] = m]
  BY <1>2, <1>3
<1>5. m \in AtaCall
  <2>1. n \in Nat \ {0} /\ <<>> \in Seq(Content) /\ Kind[d] = "ata"
    BY <1>1, <1>2, DriveIs, IdeAssumption, SMTT(60) DEF IdeTypeOK
  <2>2. <<s, n>> \in Nat \X (1..MaxCount)
    BY <2>1
  <2> QED BY <1>4, <2>1, <2>2 DEF AtaCall
<1>6. call'[t] = m /\ \A u \in IdeThread \ {t} : call'[u] = call[u] /\ Fainter(u)
  BY <1>1, <1>4 DEF IdeTypeOK, Fainter
<1>7. IdeTypeOK'
  <2>1. calls' \in 0..MaxCalls
    BY <1>1, IdeAssumption, SMTT(60) DEF AtaRw, IdeTypeOK
  <2>2. call' \in [IdeThread -> {Idle} \cup AtaCall \cup AtapiCall \cup OpenCall]
    BY <1>1, <1>4, <1>5 DEF IdeTypeOK
  <2> QED BY <1>1, <2>1, <2>2 DEF AtaRw, IdeTypeOK
<1>8. Guarded'
  BY <1>4, <1>6, CallGuards DEF AtaRw
<1>9. ASSUME NEW u \in IdeThread \ {t} PROVE Alone(u)' /\ Holds(u)'
  <2>1. Alone(u) /\ Holds(u)
    BY DEF IdeIInv
  <2>2. Holds(u)'
    BY <1>1, <1>6, <2>1, HoldsStays DEF AtaRw
  <2>3. m.drive[1] # call[u].drive[1] \/ ~m.sound \/ ~call'[u].sound \/ call[u] = Idle
    BY <1>3, <1>4 DEF Crowded, Uses, ControllerOf
  <2>4. Alone(u)'
    <3>1. CASE call[u] = Idle
      BY <1>6, <3>1 DEF Alone
    <3>2. CASE call[u] # Idle
      <4>1. m.pc = "command"
        BY <1>4
      <4> QED BY <1>1, <1>6, <2>1, <2>3, <3>2, <4>1, AloneStays DEF AtaRw
    <3> QED BY <3>1, <3>2
  <2> QED BY <2>2, <2>4
<1>10. Alone(t)'
  <2>1. m.sound = sound /\ m.drive = d
    BY <1>4
  <2>2. m.sound => ~Crowded(t, m.drive[1])
    BY <1>3, <2>1
  <2> QED BY <1>1, <1>6, <2>2, BeginsAlone DEF AtaRw
<1>11. Holds(t)'
  <2>1. First(m) \in Nat
    BY <1>5, FirstIs
  <2>2. AtaHolds(t)'
    BY <1>2, <1>4, <1>6, <2>1 DEF AtaHolds, Begun
  <2>3. call'[t] \notin AtapiCall
    <3>1. call'[t].pc = "command"
      BY <1>4, <1>6
    <3> QED BY <3>1 DEF AtapiCall
  <2> QED BY <2>2, <2>3 DEF Holds
<1> QED BY <1>7, <1>8, <1>9, <1>10, <1>11 DEF IdeIInv

\* The registers name the drive and the sector, and who was at the controller knows it.
LEMMA CommandKeeps == ASSUME IdeIInv, NEW t \in IdeThread, Command(t) PROVE IdeIInv'
<1>1. IdeTypeOK /\ Guarded /\ Holds(t) /\ call[t] \in AtaCall /\ call[t].pc = "command" /\ call[t].drive \in Drive
  BY CallIsOf DEF IdeIInv, Command, AtaCall
<1>2. PICK m, c : /\ m = call[t] /\ c = m.drive[1] /\ c \in Controller /\ m.drive[2] \in Nat
  BY <1>1, DriveIs
<1>3. PICK left : left = Min({m.count, Chunk}) /\ left \in Nat
  <2>1. m.count \in Nat /\ Chunk \in Nat
    BY <1>1, <1>2, IdeAssumption DEF AtaCall
  <2> QED BY <2>1, MinIs
<1>4. PICK sound \in BOOLEAN : sound = (m.sound /\ ~Crowded(t, c))
  OBVIOUS
<1>5. /\ active' = [active EXCEPT ![c] = [unit |-> m.drive[2], at |-> m.sector, left |-> left, writes |-> m.writes]]
      /\ call' = [Disturb(t, c) EXCEPT ![t].pc = "transfer", ![t].i = 0, ![t].sound = @ /\ ~Crowded(t, c)]
  BY <1>2, <1>3 DEF Command, ControllerOf, setup_LBA
<1>6. PICK r : r = [m EXCEPT !.pc = "transfer", !.i = 0, !.sound = sound]
  OBVIOUS
<1>7. /\ r \in AtaCall /\ r.pc = "transfer" /\ r.i = 0 /\ r.sound = sound /\ r.drive = m.drive /\ r.asked = m.asked
      /\ r.sector = m.sector /\ r.count = m.count /\ r.writes = m.writes /\ r.buf = m.buf /\ r.retval = m.retval
  BY <1>1, <1>2, <1>6 DEF AtaCall
<1>8. call'[t] = r /\ \A u \in IdeThread \ {t} : call'[u] = Disturb(t, c)[u]
  BY <1>1, <1>2, <1>4, <1>5, <1>6, DisturbIs, ZenonT(60)
<1>9. IdeTypeOK'
  <2>1. call' \in [IdeThread -> {Idle} \cup AtaCall \cup AtapiCall \cup OpenCall]
    <3>1. Disturb(t, c) \in [IdeThread -> {Idle} \cup AtaCall \cup AtapiCall \cup OpenCall]
      BY <1>1, DisturbIs
    <3> QED BY <1>5, <1>7, <1>8, <3>1
  <2>2. active' \in [Controller -> Registers]
    BY <1>1, <1>2, <1>3, <1>5 DEF IdeTypeOK, Registers, AtaCall
  <2> QED BY <1>1, <2>1, <2>2 DEF Command, IdeTypeOK
<1>10. \A u \in IdeThread \ {t} : Fainter(u) /\ Alone(u)' /\ Holds(u)'
  <2>1. \A b \in Controller : b # c => active'[b] = active[b]
    BY <1>1, <1>5 DEF IdeTypeOK
  <2>2. call'[t].drive[1] = c /\ looked' \subseteq looked /\ media' = media
    BY <1>2, <1>7, <1>8 DEF Command
  <2> QED BY <1>8, <2>1, <2>2, OthersDisturbed
<1>11. Guarded'
  BY <1>7, <1>8, <1>10, CallGuards DEF Command
<1>12. Alone(t)'
  BY <1>1, <1>2, <1>4, <1>7, <1>8, <1>10, BeginsAlone DEF Command
<1>13. Holds(t)'
  <2>1. r \notin AtapiCall
    BY <1>7 DEF AtapiCall
  <2> SUFFICES ASSUME sound PROVE AtaHolds(t)'
    BY <1>7, <1>8, <2>1 DEF Holds
  <2>2. AtaHolds(t)
    BY <1>1, <1>2, <1>4 DEF Holds
  <2>3. First(r) = First(m) /\ First(m) \in Nat
    BY <1>1, <1>2, <1>7, FirstIs DEF First
  <2>4. \A k : Right(t, k) => Right(t, k)'
    <3>1. media' = media
      BY DEF Command
    <3> QED BY <1>2, <1>7, <1>8, <3>1 DEF Right
  <2>5. ASSUME m.retval < First(m) PROVE Begun(t)'
    <3>1. Begun(t)
      BY <1>2, <2>2, <2>5 DEF AtaHolds
    <3>2. m.sector = m.asked[1] /\ m.count = m.asked[2] /\ m.retval = 0 /\ left = First(m)
      BY <1>1, <1>2, <1>3, <3>1 DEF Begun, First
    <3>3. active'[c] = [unit |-> m.drive[2], at |-> m.sector, left |-> left, writes |-> m.writes]
      BY <1>1, <1>2, <1>5 DEF IdeTypeOK
    <3>4. m.sector + 0 = m.sector /\ left - 0 = left
      BY <1>1, <1>2, <1>3 DEF AtaCall
    <3> QED BY <1>2, <1>7, <1>8, <2>3, <3>2, <3>3, <3>4 DEF Begun, ControllerOf
  <2> QED BY <1>2, <1>7, <1>8, <2>2, <2>3, <2>4, <2>5 DEF AtaHolds
<1> QED BY <1>9, <1>10, <1>11, <1>12, <1>13 DEF IdeIInv

\* The packet names the drive and the sectors, and who was at the controller knows it.
LEMMA AtapiReadKeeps == ASSUME IdeIInv, NEW t \in IdeThread, AtapiRead(t) PROVE IdeIInv'
<1>1. IdeTypeOK /\ Guarded /\ call[t] = Idle
  BY DEF IdeIInv, AtapiRead
<1>2. PICK d \in Drive, n \in 1..MaxCount, s \in Nat :
        /\ ide_devices[d].type = "cdrom"
        /\ active' = [active EXCEPT ![d[1]] = [unit |-> d[2], writes |-> FALSE, at |-> s, left |-> n]]
        /\ call' = [Disturb(t, d[1]) EXCEPT ![t] =
              [pc |-> "parts", drive |-> d, sector |-> s, count |-> n, writes |-> FALSE, asked |-> <<s, n>>,
               i |-> 0, buf |-> <<>>, retval |-> 0, sound |-> ~Crowded(t, d[1])]]
  <2>1. PICK d \in Drive, n \in 1..MaxCount : \E s \in 0..DriveSize[d] - 1 :
          /\ ide_devices[d].type = "cdrom" /\ ide_devices[d].refs > 0 /\ s + n <= DriveSize[d]
          /\ active' = [active EXCEPT ![d[1]] = [unit |-> d[2], writes |-> FALSE, at |-> s, left |-> n]]
          /\ call' = [Disturb(t, d[1]) EXCEPT ![t] =
                [pc |-> "parts", drive |-> d, sector |-> s, count |-> n, writes |-> FALSE, asked |-> <<s, n>>,
                 i |-> 0, buf |-> <<>>, retval |-> 0, sound |-> ~Crowded(t, d[1])]]
    BY DEF AtapiRead
  <2>2. PICK s \in 0..DriveSize[d] - 1 :
          /\ ide_devices[d].type = "cdrom"
          /\ active' = [active EXCEPT ![d[1]] = [unit |-> d[2], writes |-> FALSE, at |-> s, left |-> n]]
          /\ call' = [Disturb(t, d[1]) EXCEPT ![t] =
                [pc |-> "parts", drive |-> d, sector |-> s, count |-> n, writes |-> FALSE, asked |-> <<s, n>>,
                 i |-> 0, buf |-> <<>>, retval |-> 0, sound |-> ~Crowded(t, d[1])]]
    BY <2>1
  <2>3. s \in Nat
    BY DriveIs
  <2> QED BY <2>2, <2>3
<1>3. PICK sound \in BOOLEAN : sound = ~Crowded(t, d[1])
  BY DEF Crowded
<1>4. PICK m : /\ m = [pc |-> "parts", drive |-> d, sector |-> s, count |-> n, writes |-> FALSE, asked |-> <<s, n>>,
                       i |-> 0, buf |-> <<>>, retval |-> 0, sound |-> sound]
               /\ call' = [Disturb(t, d[1]) EXCEPT ![t] = m]
  BY <1>2, <1>3
<1>5. m \in AtapiCall
  <2>1. <<>> \in Seq(Content) /\ Kind[d] = "atapi"
    BY <1>1, <1>2 DEF IdeTypeOK
  <2>2. <<s, n>> \in Nat \X (1..MaxCount)
    OBVIOUS
  <2> QED BY <1>4, <2>1, <2>2 DEF AtapiCall
<1>6. Disturb(t, d[1]) \in [IdeThread -> {Idle} \cup AtaCall \cup AtapiCall \cup OpenCall]
  BY <1>1, DisturbIs
<1>7. call'[t] = m /\ \A u \in IdeThread \ {t} : call'[u] = Disturb(t, d[1])[u]
  BY <1>4, <1>6
<1>8. d[1] \in Controller /\ d[2] \in Nat /\ n \in Nat
  BY DriveIs, IdeAssumption
<1>9. IdeTypeOK'
  <2>1. calls' \in 0..MaxCalls
    BY <1>1, IdeAssumption, SMTT(60) DEF AtapiRead, IdeTypeOK
  <2>2. call' \in [IdeThread -> {Idle} \cup AtaCall \cup AtapiCall \cup OpenCall]
    BY <1>4, <1>5, <1>6
  <2>3. active' \in [Controller -> Registers]
    BY <1>1, <1>2, <1>8 DEF IdeTypeOK, Registers
  <2> QED BY <1>1, <2>1, <2>2, <2>3 DEF AtapiRead, IdeTypeOK
<1>10. m.pc = "parts" /\ m.drive = d /\ m.sound = sound
  BY <1>4
<1>11. \A u \in IdeThread \ {t} : Fainter(u) /\ Alone(u)' /\ Holds(u)'
  <2>1. \A b \in Controller : b # d[1] => active'[b] = active[b]
    BY <1>1, <1>2 DEF IdeTypeOK
  <2>2. call'[t].drive[1] = d[1] /\ looked' \subseteq looked /\ media' = media
    BY <1>7, <1>10 DEF AtapiRead
  <2> QED BY <1>7, <2>1, <2>2, OthersDisturbed
<1>12. Guarded'
  BY <1>7, <1>10, <1>11, CallGuards DEF AtapiRead
<1>13. Alone(t)'
  <2>1. m.sound => ~Crowded(t, m.drive[1])
    BY <1>3, <1>10
  <2> QED BY <1>1, <1>7, <1>11, <2>1, BeginsAlone DEF AtapiRead
<1>14. Holds(t)'
  <2>1. active'[d[1]] = [unit |-> d[2], writes |-> FALSE, at |-> s, left |-> n]
    BY <1>1, <1>2, <1>8 DEF IdeTypeOK
  <2>2. s + 0 = s /\ n - 0 = n /\ 0 <= n
    BY <1>8
  <2>3. AtapiHolds(t)'
    <3>1. m.count = n /\ m.asked[1] = s /\ m.asked[2] = n /\ Len(m.buf) = 0
      BY <1>4
    <3>2. Len(m.buf) <= m.asked[2] /\ \A k \in 0..Len(m.buf) - 1 : FALSE
      BY <2>2, <3>1
    <3>3. active'[m.drive[1]] = [unit |-> m.drive[2], writes |-> FALSE, at |-> m.asked[1] + Len(m.buf),
                                 left |-> m.asked[2] - Len(m.buf)]
      BY <1>10, <2>1, <2>2, <3>1
    <3> QED BY <1>7, <1>10, <3>1, <3>2, <3>3 DEF AtapiHolds, ControllerOf
  <2>4. call'[t] \notin AtaCall
    BY <1>7, <1>10 DEF AtaCall
  <2> QED BY <2>3, <2>4 DEF Holds
<1> QED BY <1>9, <1>11, <1>12, <1>13, <1>14 DEF IdeIInv

\* A disc is locked before its drive is open, and a locked one is there.
LEMMA RefreshKeeps == ASSUME IdeIInv, NEW t \in IdeThread, Refresh(t) PROVE IdeIInv'
<1>1. IdeTypeOK /\ Guarded /\ call[t] = Idle
  BY DEF IdeIInv, Refresh
<1>2. PICK d \in Drive :
        \/ /\ ide_devices' = [ide_devices EXCEPT ![d].block_count = DriveSize[d], ![d].media_available = TRUE]
           /\ locked' = locked \cup {d}
           /\ call' = [Disturb(t, d[1]) EXCEPT ![t] = [pc |-> "refs", drive |-> d, sound |-> ~Crowded(t, d[1])]]
        \/ /\ ide_devices' = [ide_devices EXCEPT ![d].block_count = 0, ![d].media_available = FALSE]
           /\ call' = Disturb(t, d[1])
           /\ UNCHANGED locked
  BY DEF Refresh
<1>3. PICK known \in Device : /\ known.type = ide_devices[d].type /\ known.refs = ide_devices[d].refs
                            /\ ide_devices' = [ide_devices EXCEPT ![d] = known]
  <2>1. ide_devices \in [Drive -> Device] /\ ide_devices[d] \in Device
    BY <1>1 DEF IdeTypeOK
  <2>2. PICK blocks \in Nat, media_available \in BOOLEAN :
          ide_devices' = [ide_devices EXCEPT ![d].block_count = blocks, ![d].media_available = media_available]
    BY <1>2, DriveIs
  <2>3. PICK known : known = [ide_devices[d] EXCEPT !.block_count = blocks, !.media_available = media_available]
    OBVIOUS
  <2>4. known \in Device /\ known.type = ide_devices[d].type /\ known.refs = ide_devices[d].refs
    BY <2>1, <2>2, <2>3 DEF Device
  <2>5. ide_devices' = [ide_devices EXCEPT ![d] = known]
    BY <2>1, <2>2, <2>3
  <2> QED BY <2>4, <2>5
<1>4. PICK m \in {Idle} \cup OpenCall :
        /\ call' = [Disturb(t, d[1]) EXCEPT ![t] = m]
        /\ \/ m = Idle /\ locked' = locked
           \/ m # Idle /\ m.drive = d /\ m.sound = ~Crowded(t, d[1]) /\ locked' = locked \cup {d}
  <2>1. CASE /\ locked' = locked \cup {d}
             /\ call' = [Disturb(t, d[1]) EXCEPT ![t] = [pc |-> "refs", drive |-> d, sound |-> ~Crowded(t, d[1])]]
    <3>1. PICK sound \in BOOLEAN : sound = ~Crowded(t, d[1])
      BY DEF Crowded
    <3>2. PICK m : m = [pc |-> "refs", drive |-> d, sound |-> sound]
      OBVIOUS
    <3>3. m \in OpenCall /\ m.pc = "refs" /\ m.drive = d /\ m.sound = sound
      BY <3>2 DEF OpenCall
    <3>4. m # Idle
      BY <3>3 DEF Idle
    <3>5. call' = [Disturb(t, d[1]) EXCEPT ![t] = m]
      BY <2>1, <3>1, <3>2
    <3> QED BY <2>1, <3>1, <3>3, <3>4, <3>5
  <2>2. CASE call' = Disturb(t, d[1]) /\ UNCHANGED locked
    <3>1. Disturb(t, d[1]) \in [IdeThread -> {Idle} \cup AtaCall \cup AtapiCall \cup OpenCall]
          /\ Disturb(t, d[1])[t] = Idle
      BY <1>1, DisturbIs
    <3>2. call' = [Disturb(t, d[1]) EXCEPT ![t] = Idle]
      BY <2>2, <3>1
    <3> QED BY <2>2, <3>2
  <2> QED BY <1>2, <2>1, <2>2
<1>5. Disturb(t, d[1]) \in [IdeThread -> {Idle} \cup AtaCall \cup AtapiCall \cup OpenCall]
  BY <1>1, DisturbIs
<1>6. call'[t] = m /\ \A u \in IdeThread \ {t} : call'[u] = Disturb(t, d[1])[u]
  BY <1>3, <1>4, <1>5
<1>7. IdeTypeOK'
  <2>1. call' \in [IdeThread -> {Idle} \cup AtaCall \cup AtapiCall \cup OpenCall]
    BY <1>3, <1>4, <1>5
  <2>2. /\ ide_devices' \in [Drive -> Device] /\ locked' \subseteq Drive
        /\ \A e \in Drive : ide_devices'[e].type = ide_devices[e].type
    BY <1>1, <1>3, <1>4 DEF IdeTypeOK
  <2>3. calls' \in 0..MaxCalls
    BY <1>1, IdeAssumption DEF Refresh, IdeTypeOK
  <2> QED BY <1>1, <2>1, <2>2, <2>3 DEF Refresh, IdeTypeOK
<1>8. \A u \in IdeThread \ {t} : Fainter(u) /\ Alone(u)' /\ Holds(u)'
  <2>1. call'[t] = Idle \/ call'[t].drive[1] = d[1]
    BY <1>3, <1>4, <1>6
  <2>2. looked' \subseteq looked /\ media' = media /\ active' = active
    BY DEF Refresh
  <2> QED BY <1>6, <2>1, <2>2, OthersDisturbed
<1>9. Guarded'
  <2>1. \A e \in Drive : ide_devices'[e].refs = ide_devices[e].refs
    BY <1>1, <1>3, <1>4 DEF IdeTypeOK
  <2>2. \A e \in Drive, u \in IdeThread : Opening(u, e)' => Opening(u, e) \/ (e = d /\ d \in locked')
    <3> SUFFICES ASSUME NEW e \in Drive, NEW u \in IdeThread, Opening(u, e)'
                 PROVE  Opening(u, e) \/ (e = d /\ d \in locked')
      OBVIOUS
    <3>1. CASE u = t
      <4>1. m # Idle
        BY <1>6, <3>1 DEF Opening, Idle
      <4> QED BY <1>3, <1>4, <1>6, <3>1, <4>1 DEF Opening
    <3>2. CASE u # t
      BY <1>1, <1>8, <3>2, FaintGuards DEF Opening
    <3> QED BY <3>1, <3>2
  <2>3. locked \subseteq locked' /\ raced' = raced
    BY <1>3, <1>4 DEF Refresh
  <2> QED BY <1>1, <2>1, <2>2, <2>3 DEF Guarded
<1>10. Alone(t)'
  <2>1. m = Idle \/ (m.sound => ~Crowded(t, m.drive[1]))
    BY <1>3, <1>4
  <2> QED BY <1>1, <1>6, <1>8, <2>1, BeginsAlone DEF Refresh
<1>11. Holds(t)'
  <2>1. m.pc \in {"idle", "refs"}
    BY <1>3, <1>4 DEF Idle, OpenCall
  <2>2. m \notin AtaCall \cup AtapiCall
    BY <2>1 DEF AtaCall, AtapiCall
  <2> QED BY <1>6, <2>2 DEF Holds
<1> QED BY <1>7, <1>8, <1>9, <1>10, <1>11 DEF IdeIInv

\* The poller disturbs who is at the controller when it has seen that a drive is not open,
LEMMA LookKeeps == ASSUME IdeIInv, Look PROVE IdeIInv'
<1>1. IdeTypeOK /\ Guarded /\ \A u \in IdeThread : Alone(u) /\ Holds(u)
  BY DEF IdeIInv
<1>2. PICK d \in Drive :
        /\ looked' = {d}
        /\ call' = [t \in IdeThread |-> IF Uses(t, d[1]) THEN [call[t] EXCEPT !.sound = FALSE] ELSE call[t]]
  BY DEF Look
<1>3. ASSUME NEW u \in IdeThread
      PROVE  /\ call'[u] \in {Idle} \cup AtaCall \cup AtapiCall \cup OpenCall
             /\ Fainter(u)
             /\ call'[u] # Idle /\ call'[u].sound => ~Uses(u, d[1])
  <2>1. call[u] \in {Idle} \cup AtaCall \cup AtapiCall \cup OpenCall
    BY <1>1 DEF IdeTypeOK
  <2>2. CASE Uses(u, d[1])
    <3>1. call'[u] = [call[u] EXCEPT !.sound = FALSE] /\ call[u] \in AtaCall \cup AtapiCall \cup OpenCall
      BY <1>2, <2>1, <2>2 DEF Uses
    <3>2. call'[u] \in AtaCall \cup AtapiCall \cup OpenCall /\ ~call'[u].sound
      BY <3>1, ZenonT(60) DEF AtaCall, AtapiCall, OpenCall
    <3>3. call[u] # Idle
      BY <2>2 DEF Uses
    <3> QED BY <3>1, <3>2, <3>3 DEF Fainter
  <2>3. CASE ~Uses(u, d[1])
    <3>1. call'[u] = call[u]
      BY <1>2, <2>3
    <3> QED BY <2>1, <2>3, <3>1 DEF Fainter
  <2> QED BY <2>2, <2>3
<1>4. IdeTypeOK'
  <2>1. call' \in [IdeThread -> {Idle} \cup AtaCall \cup AtapiCall \cup OpenCall]
    BY <1>2, <1>3
  <2> QED BY <1>1, <1>2, <2>1 DEF Look, IdeTypeOK
<1>5. Guarded'
  BY <1>1, <1>3, FaintGuards, GuardedStays DEF Look
<1>6. ASSUME NEW u \in IdeThread PROVE Holds(u)' /\ Alone(u)'
  <2>1. Holds(u)'
    BY <1>1, <1>3, HoldsStays DEF Look
  <2>2. Alone(u)'
    <3> SUFFICES ASSUME call'[u] # Idle, call'[u].sound PROVE Alone(u)'
      BY DEF Alone
    <3>1. call[u] # Idle /\ call[u].sound /\ call'[u] = call[u] /\ ~Uses(u, d[1])
      BY <1>1, <1>3, FaintIs
    <3>2. ControllerOf(u)' = ControllerOf(u) /\ ControllerOf(u) # d[1]
      BY <3>1 DEF ControllerOf, Uses
    <3>3. ASSUME NEW v \in IdeThread \ {u}, Uses(v, ControllerOf(u))'
          PROVE  call'[v].pc = "command" /\ ~call'[v].sound
      <4>1. call[v] # Idle /\ call'[v].drive = call[v].drive /\ call'[v].pc = call[v].pc
            /\ (call'[v].sound => call[v].sound)
        BY <1>1, <1>3, <3>3, FaintIs DEF Uses
      <4>2. Uses(v, ControllerOf(u))
        BY <3>2, <3>3, <4>1 DEF Uses, ControllerOf
      <4> QED BY <1>1, <3>1, <4>1, <4>2 DEF Alone
    <3> QED BY <1>2, <3>2, <3>3 DEF Alone
  <2> QED BY <2>1, <2>2
<1> QED BY <1>4, <1>5, <1>6 DEF IdeIInv

\* and unlocks a disc that may have been opened since, which is a race.
LEMMA UnlockKeeps == ASSUME IdeIInv, Unlock PROVE IdeIInv'
<1>1. IdeTypeOK /\ Guarded /\ \A u \in IdeThread : Alone(u) /\ Holds(u) /\ Fainter(u)
  BY DEF IdeIInv, Unlock, Fainter
<1>2. PICK d : /\ d \in looked /\ locked' = locked \ {d}
               /\ ide_devices' = [ide_devices EXCEPT ![d].media_available = FALSE]
               /\ active' = [active EXCEPT ![d[1]] = [NoCommand EXCEPT !.unit = d[2]]]
               /\ raced' = IF ide_devices[d].refs > 0 \/ \E t \in IdeThread : Opening(t, d) THEN raced \cup {d} ELSE raced
  BY DEF Unlock
<1>3. d \in Drive /\ d[1] \in Controller /\ d[2] \in Nat
  BY <1>1, <1>2, DriveIs DEF IdeTypeOK
<1>4. /\ ide_devices' \in [Drive -> Device]
      /\ \A e \in Drive : ide_devices'[e].type = ide_devices[e].type /\ ide_devices'[e].refs = ide_devices[e].refs
  <2>1. ide_devices \in [Drive -> Device] /\ ide_devices[d] \in Device
    BY <1>1, <1>3 DEF IdeTypeOK
  <2>2. PICK known : known = [ide_devices[d] EXCEPT !.media_available = FALSE]
    OBVIOUS
  <2>3. known \in Device /\ known.type = ide_devices[d].type /\ known.refs = ide_devices[d].refs
    BY <2>1, <2>2 DEF Device
  <2>4. ide_devices' = [ide_devices EXCEPT ![d] = known]
    BY <1>2, <2>1, <2>2
  <2> QED BY <2>1, <2>3, <2>4
<1>5. IdeTypeOK'
  <2>1. active' \in [Controller -> Registers]
    BY <1>1, <1>2, <1>3 DEF IdeTypeOK, Registers, NoCommand
  <2>2. locked' \subseteq Drive /\ raced' \subseteq Drive /\ looked' \subseteq Drive
    BY <1>1, <1>2, <1>3 DEF IdeTypeOK, Unlock
  <2> QED BY <1>1, <1>4, <2>1, <2>2 DEF Unlock, IdeTypeOK
<1>6. Guarded'
  <2>1. \A e \in Drive, u \in IdeThread : Opening(u, e)' = Opening(u, e)
    BY DEF Unlock, Opening
  <2> QED BY <1>1, <1>2, <1>4, <2>1 DEF Guarded
<1>7. ASSUME NEW u \in IdeThread PROVE Holds(u)' /\ Alone(u)'
  <2>1. call[u] # Idle /\ call[u].sound => d[1] # ControllerOf(u) /\ ControllerOf(u) \in Controller
    BY <1>1, <1>2, CallIsOf, DriveIs DEF Alone, ControllerOf
  <2>2. Holds(u)'
    BY <1>1, <1>2, <2>1, HoldsStays DEF Unlock, IdeTypeOK
  <2>3. Alone(u)'
    BY <1>1, AloneStays DEF Unlock
  <2> QED BY <2>2, <2>3
<1> QED BY <1>5, <1>6, <1>7 DEF IdeIInv

\* What the loop of ata_rw_some() counts.
LEMMA CountedIs ==
  ASSUME NEW m \in AtaCall, m.pc = "transfer"
  PROVE  /\ Counted(m) \in AtaCall
         /\ Counted(m).drive = m.drive /\ Counted(m).asked = m.asked /\ Counted(m).writes = m.writes
         /\ Counted(m).buf = m.buf /\ Counted(m).sound = m.sound
         /\ Counted(m).retval = m.retval + 1 /\ Counted(m).i = m.i + 1
         /\ m.i + 1 # Min({m.count, Chunk}) =>
               Counted(m).pc = "transfer" /\ Counted(m).sector = m.sector /\ Counted(m).count = m.count
<1>1. PICK bytes : bytes = Chunk * SectorBytes /\ bytes \in Nat
  BY IdeAssumption
<1>2. /\ m.sector \in Nat /\ m.sector + bytes \in Nat /\ m.retval + 1 \in Nat /\ m.i + 1 \in Nat
      /\ m.count \in Nat \ {0} /\ Chunk \in Nat
      /\ m.count > Chunk => m.count - Chunk \in Nat \ {0}
  <2>1. m.sector \in Nat /\ m.retval \in Nat /\ m.i \in Nat /\ m.count \in Nat \ {0}
    BY DEF AtaCall
  <2>2. Chunk \in Nat
    BY IdeAssumption
  <2> QED BY <1>1, <2>1, <2>2
<1> DEFINE After(then, sector, count) ==
      [m EXCEPT !.retval = m.retval + 1, !.i = m.i + 1, !.pc = then, !.sector = sector, !.count = count]
<1>3. ASSUME NEW then \in {"command", "transfer", "return"}, NEW sector \in Nat, NEW count \in Nat \ {0},
             m.i + 1 # Min({m.count, Chunk}) => then = "transfer" /\ sector = m.sector /\ count = m.count,
             Counted(m) = After(then, sector, count)
      PROVE  /\ Counted(m) \in AtaCall
             /\ Counted(m).drive = m.drive /\ Counted(m).asked = m.asked /\ Counted(m).writes = m.writes
             /\ Counted(m).buf = m.buf /\ Counted(m).sound = m.sound
             /\ Counted(m).retval = m.retval + 1 /\ Counted(m).i = m.i + 1
             /\ m.i + 1 # Min({m.count, Chunk}) =>
                   Counted(m).pc = "transfer" /\ Counted(m).sector = m.sector /\ Counted(m).count = m.count
  <2>1. [m EXCEPT !.retval = m.retval + 1, !.i = m.i + 1, !.pc = then, !.sector = sector, !.count = count] \in AtaCall
    BY <1>2 DEF AtaCall
  <2>2. /\ Counted(m).drive = m.drive /\ Counted(m).asked = m.asked /\ Counted(m).writes = m.writes
        /\ Counted(m).buf = m.buf /\ Counted(m).sound = m.sound
        /\ Counted(m).retval = m.retval + 1 /\ Counted(m).i = m.i + 1
        /\ Counted(m).pc = then /\ Counted(m).sector = sector /\ Counted(m).count = count
    BY <1>3 DEF AtaCall
  <2> QED BY <1>3, <2>1, <2>2
<1>4. CASE m.i + 1 # Min({m.count, Chunk})
  <2>1. Counted(m) = After("transfer", m.sector, m.count)
    BY <1>4 DEF Counted
  <2> HIDE DEF After
  <2> QED BY <1>2, <1>3, <2>1
<1>5. CASE m.i + 1 = Min({m.count, Chunk}) /\ m.count > Chunk
  <2>1. Counted(m) = After("command", m.sector + bytes, m.count - Chunk)
    BY <1>1, <1>5 DEF Counted
  <2> HIDE DEF After
  <2> QED BY <1>2, <1>3, <1>5, <2>1
<1>6. CASE m.i + 1 = Min({m.count, Chunk}) /\ ~(m.count > Chunk)
  <2>1. Counted(m) = After("return", m.sector, m.count)
    BY <1>6 DEF Counted
  <2> HIDE DEF After
  <2> QED BY <1>2, <1>3, <1>6, <2>1
<1> QED BY <1>4, <1>5, <1>6

\* A step of a call that goes on at its own controller: it is left to show what it does.
LEMMA StepKeeps ==
  ASSUME IdeIInv, NEW t \in IdeThread, call[t].pc \in {"transfer", "parts"},
         NEW m \in AtaCall \cup AtapiCall, call' = [call EXCEPT ![t] = m],
         m.drive = call[t].drive, m.sound => call[t].sound,
         NEW r \in Registers, active' = active \/ active' = [active EXCEPT ![ControllerOf(t)] = r],
         UNCHANGED <<ide_devices, unprobed, locked, calls, looked, raced>>,
         media' = [d \in Drive |-> media'[d]],
         \A d \in Drive : /\ media'[d] \in [0..DriveSize[d] - 1 -> Content]
                          /\ d[1] # call[t].drive[1] => media'[d] = media[d],
         Holds(t)'
  PROVE  IdeIInv'
<1>1. IdeTypeOK /\ call[t] # Idle /\ call[t].pc # "command" /\ call[t].drive \in Drive
  BY CallIsOf DEF IdeIInv, Idle
<1>2. call'[t] = m /\ \A u \in IdeThread \ {t} : call'[u] = call[u] /\ Fainter(u)
  BY <1>1 DEF IdeTypeOK, Fainter
<1>3. m.pc # "refs"
  BY DEF AtaCall, AtapiCall
<1>4. IdeTypeOK'
  <2>1. call' \in [IdeThread -> {Idle} \cup AtaCall \cup AtapiCall \cup OpenCall]
    BY <1>1 DEF IdeTypeOK
  <2>2. active' \in [Controller -> Registers]
    BY <1>1 DEF IdeTypeOK
  <2> QED BY <1>1, <2>1, <2>2 DEF IdeTypeOK
<1>5. Guarded'
  BY <1>2, <1>3, CallGuards
<1>6. \A u \in IdeThread \ {t} : Alone(u)' /\ Holds(u)'
  <2>1. \A c \in Controller : c # call[t].drive[1] => active'[c] = active[c]
    BY <1>1 DEF IdeTypeOK, ControllerOf
  <2> QED BY <1>1, <1>2, <2>1, OthersGoOn
<1>7. Alone(t)'
  BY <1>1, <1>2, GoesOnAlone
<1> QED BY <1>4, <1>5, <1>6, <1>7 DEF IdeIInv

\* A call for which the drive was late knows it.
LEMMA TimeOutKeeps == ASSUME IdeIInv, NEW t \in IdeThread, TimeOut(t) PROVE IdeIInv'
<1>1. IdeTypeOK /\ call[t].pc = "transfer" /\ call[t] \in AtaCall /\ call[t].drive \in Drive
  BY CallIsOf DEF IdeIInv, TimeOut, AtaCall
<1>2. PICK n : n = Counted(call[t]) /\ n \in AtaCall /\ n.drive = call[t].drive
  BY <1>1, CountedIs, ZenonT(60)
<1>3. PICK held \in Seq(Content) : held = IF call[t].writes THEN n.buf ELSE Append(n.buf, Garbage)
  <2>1. n.buf \in Seq(Content) /\ Garbage \in Content
    BY <1>2 DEF AtaCall, Content
  <2>2. Append(n.buf, Garbage) \in Seq(Content)
    BY <2>1
  <2>3. CASE call[t].writes
    BY <2>1, <2>3
  <2>4. CASE ~call[t].writes
    BY <2>2, <2>4
  <2> QED BY <2>3, <2>4
<1>4. PICK m : m = [n EXCEPT !.buf = held, !.sound = FALSE]
  OBVIOUS
<1>5. m \in AtaCall /\ m.drive = call[t].drive /\ m.sound = FALSE
  BY <1>2, <1>3, <1>4, ZenonT(60) DEF AtaCall
<1>6. call' = [call EXCEPT ![t] = m]
  BY <1>2, <1>3, <1>4 DEF TimeOut
<1>7. Holds(t)'
  BY <1>1, <1>5, <1>6 DEF Holds, IdeTypeOK
<1>8. PICK r \in Registers : TRUE
  <2>1. NoCommand \in Registers
    BY DEF NoCommand, Registers
  <2> QED BY <2>1
<1> QED BY <1>1, <1>5, <1>6, <1>7, <1>8, StepKeeps DEF TimeOut, IdeTypeOK

\* The sector that the registers name is the next of the call, if that is at its first command.
LEMMA MoveSectorKeeps == ASSUME IdeIInv, NEW t \in IdeThread, MoveSector(t) PROVE IdeIInv'
<1>1. /\ IdeTypeOK /\ Holds(t) /\ call[t].pc = "transfer" /\ call[t] \in AtaCall /\ call[t].drive \in Drive
      /\ ControllerOf(t) \in Controller
  BY CallIsOf, DriveIs DEF IdeIInv, MoveSector, AtaCall, ControllerOf
<1>2. PICK m, c, a, d : m = call[t] /\ c = ControllerOf(t) /\ a = active[c] /\ d = <<c, a.unit>>
  OBVIOUS
<1>3. a \in Registers /\ a.at \in Nat /\ a.left \in Nat /\ a.left > 0 /\ d \in Drive /\ a.at < DriveSize[d]
  BY <1>1, <1>2 DEF IdeTypeOK, Registers, MoveSector, Ready
<1>4. /\ active' = [active EXCEPT ![c].at = @ + 1, ![c].left = @ - 1]
      /\ media' = IF m.writes THEN [media EXCEPT ![d][a.at] = New] ELSE media
      /\ call' = [call EXCEPT ![t] = [Counted(m) EXCEPT !.buf = IF m.writes THEN @ ELSE Append(@, media[d][a.at])]]
  BY <1>2 DEF MoveSector
<1>5. a.at \in 0..DriveSize[d] - 1 /\ media[d] \in [0..DriveSize[d] - 1 -> Content] /\ media[d][a.at] \in Content
  <2>1. DriveSize[d] \in Nat /\ a.at \in 0..DriveSize[d] - 1
    BY <1>3, DriveIs
  <2>2. media[d] \in [0..DriveSize[d] - 1 -> Content]
    BY <1>1, <1>3 DEF IdeTypeOK
  <2> QED BY <2>1, <2>2
<1>6. PICK n : n = Counted(m)
  OBVIOUS
<1>7. /\ n \in AtaCall /\ n.drive = m.drive /\ n.asked = m.asked /\ n.writes = m.writes /\ n.buf = m.buf
      /\ n.sound = m.sound /\ n.retval = m.retval + 1 /\ n.i = m.i + 1
      /\ m.i + 1 # Min({m.count, Chunk}) => n.pc = "transfer" /\ n.sector = m.sector /\ n.count = m.count
  BY <1>1, <1>2, <1>6, CountedIs
<1>8. PICK held \in Seq(Content) : held = IF m.writes THEN m.buf ELSE Append(m.buf, media[d][a.at])
  <2>1. m.buf \in Seq(Content)
    BY <1>1, <1>2 DEF AtaCall
  <2>2. Append(m.buf, media[d][a.at]) \in Seq(Content)
    BY <1>5, <2>1
  <2>3. CASE m.writes
    BY <2>1, <2>3
  <2>4. CASE ~m.writes
    BY <2>2, <2>4
  <2> QED BY <2>3, <2>4
<1>9. PICK p : p = [n EXCEPT !.buf = held]
  OBVIOUS
<1>10. /\ p \in AtaCall /\ p.drive = m.drive /\ p.asked = m.asked /\ p.writes = m.writes /\ p.buf = held
       /\ p.sound = m.sound /\ p.retval = m.retval + 1 /\ p.i = m.i + 1
       /\ p.pc = n.pc /\ p.sector = n.sector /\ p.count = n.count
  BY <1>7, <1>8, <1>9 DEF AtaCall
<1>11. call' = [call EXCEPT ![t] = p] /\ call'[t] = p
  <2>1. call' = [call EXCEPT ![t] = p]
    BY <1>4, <1>6, <1>7, <1>8, <1>9
  <2> QED BY <1>1, <2>1 DEF IdeTypeOK
<1>12. PICK r : r = [a EXCEPT !.at = a.at + 1, !.left = a.left - 1]
  OBVIOUS
<1>13. /\ r \in Registers /\ active' = [active EXCEPT ![c] = r] /\ active'[c] = r
       /\ r.unit = a.unit /\ r.writes = a.writes /\ r.at = a.at + 1 /\ r.left = a.left - 1
  <2>1. a.at + 1 \in Nat /\ a.left - 1 \in Nat
    BY <1>3
  <2>2. r \in Registers /\ r.unit = a.unit /\ r.writes = a.writes /\ r.at = a.at + 1 /\ r.left = a.left - 1
    BY <1>3, <1>12, <2>1 DEF Registers
  <2> QED BY <1>1, <1>2, <1>4, <1>12, <2>2 DEF IdeTypeOK
<1>14. /\ media' = [e \in Drive |-> media'[e]]
       /\ \A e \in Drive : /\ media'[e] \in [0..DriveSize[e] - 1 -> Content]
                           /\ e # d => media'[e] = media[e]
       /\ \A s \in 0..DriveSize[d] - 1 : media'[d][s] = IF m.writes /\ s = a.at THEN New ELSE media[d][s]
  <2>1. New \in Content /\ media = [e \in Drive |-> media[e]]
    BY <1>1 DEF Content, IdeTypeOK
  <2>2. CASE m.writes
    <3>1. PICK written : written = [media[d] EXCEPT ![a.at] = New]
      OBVIOUS
    <3>2. written \in [0..DriveSize[d] - 1 -> Content]
      BY <1>5, <2>1, <3>1
    <3>3. \A s \in 0..DriveSize[d] - 1 : written[s] = IF s = a.at THEN New ELSE media[d][s]
      BY <1>5, <3>1
    <3>4. media' = [media EXCEPT ![d] = written]
      BY <1>4, <2>2, <3>1
    <3>5. /\ media' = [e \in Drive |-> media'[e]] /\ media'[d] = written
          /\ \A e \in Drive : e # d => media'[e] = media[e]
      BY <1>3, <2>1, <3>4
    <3> QED BY <1>1, <2>2, <3>2, <3>3, <3>5 DEF IdeTypeOK
  <2>3. CASE ~m.writes
    BY <1>1, <1>4, <2>1, <2>3 DEF IdeTypeOK
  <2> QED BY <2>2, <2>3
<1>15. Holds(t)'
  <2>1. p \notin AtapiCall
    BY <1>10 DEF AtaCall, AtapiCall
  <2> SUFFICES ASSUME m.sound PROVE AtaHolds(t)'
    BY <1>10, <1>11, <2>1 DEF Holds
  <2>2. AtaHolds(t)
    BY <1>1, <1>2 DEF Holds
  <2>3. PICK F : /\ F = First(m) /\ F = First(p) /\ F \in Nat /\ m.asked[1] \in Nat /\ m.asked[2] \in Nat
                 /\ F = Min({m.asked[2], Chunk})
    BY <1>1, <1>2, <1>10, FirstIs DEF First
  <2>4. m.retval \in Nat /\ m.i \in Nat /\ m.buf \in Seq(Content) /\ Len(m.buf) \in Nat
    BY <1>1, <1>2, SMTT(60) DEF AtaCall
  <2>5. (m.writes \/ Len(m.buf) = m.retval) /\ m.asked[1] + m.asked[2] <= DriveSize[m.drive]
    BY <1>2, <2>2 DEF AtaHolds
  <2>6. ASSUME m.retval < F
        PROVE  /\ m.count = m.asked[2] /\ m.sector = m.asked[1] /\ m.i = m.retval /\ d = m.drive
               /\ a = [unit |-> m.drive[2], writes |-> m.writes, at |-> m.asked[1] + m.i, left |-> F - m.i]
    <3>1. Begun(t)
      BY <1>2, <2>2, <2>3, <2>6 DEF AtaHolds
    <3>2. /\ m.count = m.asked[2] /\ m.sector = m.asked[1] /\ m.i = m.retval
          /\ a = [unit |-> m.drive[2], writes |-> m.writes, at |-> m.asked[1] + m.i, left |-> F - m.i]
      BY <1>1, <1>2, <2>3, <3>1 DEF Begun
    <3>3. m.drive = <<c, m.drive[2]>>
      BY <1>1, <1>2, DriveIs DEF ControllerOf
    <3> QED BY <1>2, <3>2, <3>3
  <2>7. p.writes \/ Len(p.buf) = p.retval
    BY <1>5, <1>8, <1>10, <2>4, <2>5
  <2>8. ASSUME NEW k \in 0..F - 1, k < p.retval PROVE Right(t, k)'
    <3>1. k \in Nat /\ (k < m.retval \/ k = m.retval)
      BY <1>10, <2>3, <2>4, <2>8
    <3>2. CASE k < m.retval
      <4>1. Right(t, k)
        BY <1>2, <2>2, <2>3, <3>2 DEF AtaHolds
      <4>2. CASE m.writes
        <5>0. m.asked[1] + k \in 0..DriveSize[m.drive] - 1
          <6>1. F <= m.asked[2] /\ DriveSize[m.drive] \in Nat
            BY <1>1, <1>2, <2>3, FirstIs, DriveIs
          <6>2. k \in Nat /\ k < F
            BY <2>3, <3>1
          <6>3. PICK first, many, size : first = m.asked[1] /\ many = m.asked[2] /\ size = DriveSize[m.drive]
            OBVIOUS
          <6>4. first \in Nat /\ many \in Nat /\ size \in Nat /\ first + many <= size /\ k < many
            BY <2>3, <2>5, <6>1, <6>2, <6>3
          <6>5. first + k \in 0..size - 1
            BY <6>2, <6>4
          <6> QED BY <6>3, <6>5
        <5>1. media[m.drive][m.asked[1] + k] = New
          BY <1>2, <4>1, <4>2 DEF Right
        <5>2. media'[m.drive][m.asked[1] + k] = New
          <6>1. CASE d = m.drive
            BY <1>14, <4>2, <5>0, <5>1, <6>1
          <6>2. CASE d # m.drive
            BY <1>1, <1>2, <1>14, <5>1, <6>2
          <6> QED BY <6>1, <6>2
        <5> QED BY <1>10, <1>11, <4>2, <5>2 DEF Right
      <4>3. CASE ~m.writes
        <5>1. m.buf[k + 1] = media[m.drive][m.asked[1] + k] /\ media' = media
          BY <1>2, <1>4, <4>1, <4>3 DEF Right
        <5>2. held[k + 1] = m.buf[k + 1]
          BY <1>5, <1>8, <2>4, <2>5, <3>1, <3>2, <4>3
        <5> QED BY <1>10, <1>11, <4>3, <5>1, <5>2 DEF Right
      <4> QED BY <4>2, <4>3
    <3>3. CASE k = m.retval
      <4>1. m.i = k /\ d = m.drive /\ a.at = m.asked[1] + k
        BY <2>3, <2>6, <2>8, <3>1, <3>3
      <4>2. CASE m.writes
        <5>1. media'[m.drive][m.asked[1] + k] = New
          BY <1>5, <1>14, <4>1, <4>2
        <5> QED BY <1>10, <1>11, <4>2, <5>1 DEF Right
      <4>3. CASE ~m.writes
        <5>1. media' = media
          BY <1>4, <4>3
        <5>2. held[k + 1] = media[d][a.at]
          BY <1>5, <1>8, <2>4, <2>5, <3>1, <3>3, <4>3
        <5> QED BY <1>10, <1>11, <4>1, <4>3, <5>1, <5>2 DEF Right
      <4> QED BY <4>2, <4>3
    <3> QED BY <3>1, <3>2, <3>3
  <2>9. ASSUME p.retval < F PROVE Begun(t)'
    <3>1. m.retval < F /\ m.i + 1 # F
      BY <1>10, <2>3, <2>4, <2>6, <2>9
    <3>2. p.pc = "transfer" /\ p.sector = m.asked[1] /\ p.count = m.asked[2] /\ p.i = p.retval
      BY <1>7, <1>10, <2>3, <2>6, <3>1
    <3>3. /\ a.unit = m.drive[2] /\ a.writes = m.writes
          /\ a.at + 1 = m.asked[1] + p.i /\ a.left - 1 = F - p.i
      <4>1. m.i = m.retval /\ p.i = m.i + 1 /\ a.unit = m.drive[2] /\ a.writes = m.writes
            /\ a.at = m.asked[1] + m.i /\ a.left = F - m.i
        BY <1>10, <2>6, <3>1
      <4>2. (m.asked[1] + m.i) + 1 = m.asked[1] + (m.i + 1) /\ (F - m.i) - 1 = F - (m.i + 1)
        BY <2>3, <2>4, SMTT(60)
      <4> QED BY <4>1, <4>2
    <3>4. r = [unit |-> p.drive[2], writes |-> p.writes, at |-> p.asked[1] + p.i, left |-> F - p.i]
      BY <1>10, <1>13, <3>3 DEF Registers
    <3>5. ControllerOf(t)' = c
      BY <1>2, <1>10, <1>11 DEF ControllerOf
    <3> QED BY <1>10, <1>11, <1>13, <2>3, <3>2, <3>4, <3>5, ZenonT(60) DEF Begun
  <2> QED BY <1>10, <1>11, <2>3, <2>5, <2>7, <2>8, <2>9 DEF AtaHolds
<1>16. \A e \in Drive : e[1] # call[t].drive[1] => media'[e] = media[e]
  <2>1. d[1] = call[t].drive[1]
    BY <1>2 DEF ControllerOf
  <2> QED BY <1>14, <2>1
<1>17. UNCHANGED <<ide_devices, unprobed, locked, calls, looked, raced>>
  BY DEF MoveSector
<1>18. /\ call[t].pc \in {"transfer", "parts"} /\ p \in AtaCall \cup AtapiCall /\ p.drive = call[t].drive
       /\ p.sound => call[t].sound
       /\ active' = active \/ active' = [active EXCEPT ![ControllerOf(t)] = r]
  BY <1>1, <1>2, <1>10, <1>13
<1> QED BY <1>11, <1>13, <1>14, <1>15, <1>16, <1>17, <1>18, StepKeeps

\* The part that a drive has taken, and the buffer it is added to.
LEMMA PartIs ==
  ASSUME NEW old \in Seq(Content), NEW k \in Nat, NEW part \in [1..k -> Content]
  PROVE  /\ old \o part \in Seq(Content) /\ Len(old \o part) = Len(old) + k
         /\ \A j \in Nat : j < Len(old) => (old \o part)[j + 1] = old[j + 1]
         /\ \A j \in Nat : Len(old) <= j /\ j < Len(old) + k => (old \o part)[j + 1] = part[j + 1 - Len(old)]
<1>1. part \in Seq(Content) /\ Len(part) = k
  BY SeqDef
<1>2. PICK n : n = Len(old) /\ n \in Nat
  OBVIOUS
<1>3. PICK both : both = old \o part
  OBVIOUS
<1>4. both \in Seq(Content) /\ Len(both) = n + k
      /\ \A i \in 1..n + k : both[i] = IF i <= n THEN old[i] ELSE part[i - n]
  BY <1>1, <1>2, <1>3, ConcatProperties, ZenonT(60)
<1>5. ASSUME NEW j \in Nat, j < n PROVE both[j + 1] = old[j + 1]
  <2>1. j + 1 \in 1..n + k /\ j + 1 <= n
    BY <1>2, <1>5
  <2> QED BY <1>4, <2>1
<1>6. ASSUME NEW j \in Nat, n <= j, j < n + k PROVE both[j + 1] = part[j + 1 - n]
  <2>1. j + 1 \in 1..n + k /\ ~(j + 1 <= n)
    BY <1>2, <1>6
  <2>2. PICK i \in 1..n + k : i = j + 1 /\ ~(i <= n)
    BY <2>1
  <2>3. both[i] = part[i - n]
    BY <1>4, <2>2
  <2>4. n \in Nat /\ i - n = j + 1 - n
    BY <1>2, <2>2
  <2> QED BY <2>2, <2>3, <2>4
<1> QED BY <1>2, <1>3, <1>4, <1>5, <1>6

\* The sectors of a part are the next of the call.
LEMMA TakePartKeeps == ASSUME IdeIInv, NEW t \in IdeThread, TakePart(t) PROVE IdeIInv'
<1>1. /\ IdeTypeOK /\ Holds(t) /\ call[t].pc = "parts" /\ call[t] \in AtapiCall /\ call[t].drive \in Drive
      /\ ControllerOf(t) \in Controller
  <2>1. IdeTypeOK /\ Holds(t) /\ call[t].pc = "parts"
    BY DEF IdeIInv, TakePart
  <2>2. call[t] \in AtapiCall /\ call[t].drive \in Drive
    BY <2>1, CallIsOf DEF AtapiCall
  <2> QED BY <2>1, <2>2, DriveIs DEF ControllerOf
<1>2. PICK m, c, a, d : m = call[t] /\ c = ControllerOf(t) /\ a = active[c] /\ d = <<c, a.unit>>
  OBVIOUS
<1>3. a \in Registers /\ a.at \in Nat /\ a.left \in Nat /\ a.left > 0 /\ d \in Drive
  BY <1>1, <1>2, SMTT(60) DEF IdeTypeOK, Registers, TakePart
<1>4. PICK k \in 1..a.left :
        /\ a.at + k <= DriveSize[d]
        /\ active' = [active EXCEPT ![c].at = @ + k, ![c].left = @ - k]
        /\ call' = [call EXCEPT ![t].buf = @ \o [j \in 1..k |-> media[d][a.at + j - 1]]]
  <2>1. PICK k \in 1..active[ControllerOf(t)].left :
          /\ active[ControllerOf(t)].at + k <= DriveSize[<<ControllerOf(t), active[ControllerOf(t)].unit>>]
          /\ active' = [active EXCEPT ![ControllerOf(t)].at = @ + k, ![ControllerOf(t)].left = @ - k]
          /\ call' = [call EXCEPT ![t].buf = @ \o [j \in 1..k |->
                media[<<ControllerOf(t), active[ControllerOf(t)].unit>>][active[ControllerOf(t)].at + j - 1]]]
    BY DEF TakePart
  <2> QED BY <1>2, <2>1
<1>5. k \in Nat /\ 0 < k /\ k <= a.left /\ a.at + k \in Nat /\ a.left - k \in Nat
  BY <1>3, <1>4
<1>6. PICK part : part = [j \in 1..k |-> media[d][a.at + j - 1]]
  OBVIOUS
<1>7. part \in [1..k -> Content]
  <2>1. ASSUME NEW j \in 1..k PROVE media[d][a.at + j - 1] \in Content
    <3>1. a.at + j - 1 \in 0..DriveSize[d] - 1
      <4>1. PICK size \in Nat : size = DriveSize[d]
        BY <1>3, DriveIs
      <4>2. a.at \in Nat /\ k \in Nat /\ a.at + k <= size /\ j \in 1..k
        BY <1>3, <1>4, <1>5, <4>1
      <4>3. a.at + j - 1 \in 0..size - 1
        BY <4>2
      <4> QED BY <4>1, <4>3
    <3>2. media[d] \in [0..DriveSize[d] - 1 -> Content]
      BY <1>1, <1>3 DEF IdeTypeOK
    <3> QED BY <3>1, <3>2
  <2> QED BY <1>6, <2>1
<1>8. m.buf \in Seq(Content) /\ Len(m.buf) \in Nat /\ m.asked[1] \in Nat /\ m.asked[2] \in Nat
  <2>1. m.buf \in Seq(Content)
    BY <1>1, <1>2 DEF AtapiCall
  <2>2. m.asked[1] \in Nat /\ m.asked[2] \in Nat
    BY <1>1, <1>2, FirstIs
  <2> QED BY <2>1, <2>2
<1>9. PICK n : n = Len(m.buf) /\ n \in Nat
  BY <1>8
<1>10. PICK held : held = m.buf \o part
  OBVIOUS
<1>11. /\ held \in Seq(Content) /\ Len(held) = n + k
       /\ \A j \in Nat : j < n => held[j + 1] = m.buf[j + 1]
       /\ \A j \in Nat : n <= j /\ j < n + k => held[j + 1] = part[j + 1 - n]
  <2>1. /\ m.buf \o part \in Seq(Content) /\ Len(m.buf \o part) = Len(m.buf) + k
        /\ \A j \in Nat : j < Len(m.buf) => (m.buf \o part)[j + 1] = m.buf[j + 1]
        /\ \A j \in Nat : Len(m.buf) <= j /\ j < Len(m.buf) + k => (m.buf \o part)[j + 1] = part[j + 1 - Len(m.buf)]
    <3>1. PICK old \in Seq(Content) : old = m.buf
      BY <1>8
    <3>2. /\ old \o part \in Seq(Content) /\ Len(old \o part) = Len(old) + k
          /\ \A j \in Nat : j < Len(old) => (old \o part)[j + 1] = old[j + 1]
          /\ \A j \in Nat : Len(old) <= j /\ j < Len(old) + k => (old \o part)[j + 1] = part[j + 1 - Len(old)]
      BY <1>5, <1>7, PartIs
    <3> QED BY <3>1, <3>2
  <2> QED BY <1>9, <1>10, <2>1
<1>12. PICK p : p = [m EXCEPT !.buf = held]
  OBVIOUS
<1>13. /\ p \in AtapiCall /\ p.drive = m.drive /\ p.asked = m.asked /\ p.writes = m.writes /\ p.buf = held
       /\ p.sound = m.sound /\ p.pc = "parts" /\ p.count = m.count /\ m.writes = FALSE
  BY <1>1, <1>2, <1>11, <1>12 DEF AtapiCall
<1>14. call' = [call EXCEPT ![t] = p] /\ call'[t] = p
  <2>1. call' = [call EXCEPT ![t] = p]
    BY <1>1, <1>2, <1>4, <1>6, <1>10, <1>12 DEF IdeTypeOK
  <2> QED BY <1>1, <2>1 DEF IdeTypeOK
<1>15. PICK r : r = [a EXCEPT !.at = a.at + k, !.left = a.left - k]
  OBVIOUS
<1>16. /\ r \in Registers /\ active' = [active EXCEPT ![c] = r] /\ active'[c] = r
       /\ r.unit = a.unit /\ r.writes = a.writes /\ r.at = a.at + k /\ r.left = a.left - k
  <2>1. r \in Registers /\ r.unit = a.unit /\ r.writes = a.writes /\ r.at = a.at + k /\ r.left = a.left - k
    BY <1>3, <1>5, <1>15 DEF Registers
  <2> QED BY <1>1, <1>2, <1>4, <1>15, <2>1 DEF IdeTypeOK
<1>17. media' = media /\ UNCHANGED <<ide_devices, unprobed, locked, calls, looked, raced>>
  BY DEF TakePart
<1>18. Holds(t)'
  <2>1. p \notin AtaCall
    BY <1>13 DEF AtaCall
  <2> SUFFICES ASSUME m.sound PROVE AtapiHolds(t)'
    BY <1>13, <1>14, <2>1 DEF Holds
  <2>2. AtapiHolds(t)
    BY <1>1, <1>2 DEF Holds
  <2>3. /\ m.count = m.asked[2] /\ n <= m.asked[2]
        /\ a = [unit |-> m.drive[2], writes |-> FALSE, at |-> m.asked[1] + n, left |-> m.asked[2] - n]
        /\ \A j \in 0..n - 1 : Right(t, j)
    BY <1>1, <1>2, <1>9, <2>2 DEF AtapiHolds
  <2>4. a.unit = m.drive[2] /\ a.writes = FALSE /\ a.at = m.asked[1] + n /\ a.left = m.asked[2] - n
    BY <2>3
  <2>5. d = m.drive
    <3>1. m.drive = <<c, m.drive[2]>>
      BY <1>1, <1>2, DriveIs DEF ControllerOf
    <3> QED BY <1>2, <2>4, <3>1
  <2>6. n + k <= m.asked[2]
    BY <1>5, <1>8, <1>9, <2>4
  <2>7. r = [unit |-> p.drive[2], writes |-> FALSE, at |-> p.asked[1] + (n + k), left |-> p.asked[2] - (n + k)]
    <3>1. a.at + k = m.asked[1] + (n + k) /\ a.left - k = m.asked[2] - (n + k)
      <4>1. PICK first \in Nat, many \in Nat : first = m.asked[1] /\ many = m.asked[2]
        BY <1>8
      <4>2. n \in Nat /\ k \in Nat
        BY <1>5, <1>9
      <4>3. (first + n) + k = first + (n + k) /\ (many - n) - k = many - (n + k)
        BY <4>2
      <4> QED BY <2>4, <4>1, <4>3
    <3> QED BY <1>13, <1>16, <2>4, <3>1 DEF Registers
  <2>8. ASSUME NEW j \in 0..Len(held) - 1 PROVE Right(t, j)'
    <3>1. j \in Nat /\ j < n + k
      BY <1>5, <1>9, <1>11
    <3>2. held[j + 1] = media[m.drive][m.asked[1] + j]
      <4>1. CASE j < n
        <5>1. Right(t, j)
          BY <1>9, <2>3, <3>1, <4>1
        <5> QED BY <1>2, <1>11, <1>13, <3>1, <4>1, <5>1 DEF Right
      <4>2. CASE n <= j
        <5>1. held[j + 1] = part[j + 1 - n]
          BY <1>11, <3>1, <4>2
        <5>2. j + 1 - n \in 1..k
          BY <1>5, <1>9, <3>1, <4>2
        <5>3. a.at + (j + 1 - n) - 1 = m.asked[1] + j
          <6>1. PICK first \in Nat : first = m.asked[1]
            BY <1>8
          <6>2. n \in Nat /\ j \in Nat
            BY <1>9, <3>1
          <6>3. (first + n) + (j + 1 - n) - 1 = first + j
            BY <6>2
          <6> QED BY <2>4, <6>1, <6>3
        <5>4. part[j + 1 - n] = media[d][a.at + (j + 1 - n) - 1]
          BY <1>6, <5>2
        <5> QED BY <2>5, <5>1, <5>3, <5>4
      <4> QED BY <1>9, <3>1, <4>1, <4>2
    <3> QED BY <1>13, <1>14, <1>17, <3>2 DEF Right
  <2>9. ControllerOf(t)' = c
    BY <1>2, <1>13, <1>14 DEF ControllerOf
  <2>10. p.count = p.asked[2] /\ p.pc # "return" /\ Len(p.buf) = n + k /\ n + k <= p.asked[2] /\ active'[c] = r
    BY <1>11, <1>13, <1>16, <2>3, <2>6
  <2> QED BY <1>13, <1>14, <2>7, <2>8, <2>9, <2>10 DEF AtapiHolds
<1>19. /\ media' = [e \in Drive |-> media'[e]]
       /\ \A e \in Drive : media'[e] \in [0..DriveSize[e] - 1 -> Content] /\ media'[e] = media[e]
  BY <1>1, <1>17 DEF IdeTypeOK
<1>20. /\ call[t].pc \in {"transfer", "parts"} /\ p \in AtaCall \cup AtapiCall /\ p.drive = call[t].drive
       /\ p.sound => call[t].sound
       /\ active' = active \/ active' = [active EXCEPT ![ControllerOf(t)] = r]
  BY <1>1, <1>2, <1>13, <1>16
<1> QED BY <1>14, <1>16, <1>17, <1>18, <1>19, <1>20, StepKeeps

\* A count that the conversion makes too large is larger than what anyone asks for.
LEMMA WordsAreMany ==
  ASSUME NEW sectors \in Nat
  PROVE  /\ WordsToSectors(sectors) \in Nat
         /\ sectors = 0 => WordsToSectors(sectors) = 0
         /\ sectors > 0 => WordsToSectors(sectors) > MaxCount
<1>1. PICK words : words = SectorWords * SectorWords /\ words \in Nat /\ MaxCount \in Nat /\ MaxCount < words
  BY IdeAssumption
<1>2. WordsToSectors(sectors) = sectors * words
  BY <1>1, IdeAssumption DEF WordsToSectors
<1>3. sectors * words \in Nat /\ (sectors = 0 => sectors * words = 0) /\ (sectors > 0 => sectors * words >= words)
  BY <1>1
<1> QED BY <1>1, <1>2, <1>3

\* A drive that is done has moved everything, and what is said of one that is not is too much.
LEMMA PartsEndKeeps == ASSUME IdeIInv, NEW t \in IdeThread, PartsEnd(t) PROVE IdeIInv'
<1>1. /\ IdeTypeOK /\ Holds(t) /\ call[t].pc = "parts" /\ call[t] \in AtapiCall /\ call[t].drive \in Drive
  BY CallIsOf DEF IdeIInv, PartsEnd, AtapiCall
<1>2. PICK m : m = call[t]
  OBVIOUS
<1>3. PICK n : n = Len(m.buf) /\ n \in Nat
  <2>1. m.buf \in Seq(Content)
    BY <1>1, <1>2 DEF AtapiCall
  <2> QED BY <2>1
<1>4. /\ m.asked[1] \in Nat /\ m.asked[2] \in Nat /\ m.asked[2] <= MaxCount /\ m.count \in Nat
      /\ MaxCount \in Nat
  <2>1. m.asked[1] \in Nat /\ m.asked[2] \in 1..MaxCount /\ m.asked[2] \in Nat
    BY <1>1, <1>2, FirstIs
  <2>2. m.count \in 1..MaxCount
    BY <1>1, <1>2 DEF AtapiCall
  <2> QED BY <2>1, <2>2, IdeAssumption
<1>5. PICK retval : /\ retval = WordsToSectors(n) \/ (retval = m.count /\ n >= m.count)
                    /\ call' = [call EXCEPT ![t].pc = "return", ![t].retval = retval]
  <2>1. PICK done \in BOOLEAN : call' = [call EXCEPT ![t].pc = "return",
          ![t].retval = IF done /\ Len(call[t].buf) >= call[t].count THEN call[t].count
                        ELSE WordsToSectors(Len(call[t].buf))]
    BY DEF PartsEnd
  <2> QED BY <1>2, <1>3, <2>1
<1>6. retval \in Nat
  BY <1>3, <1>4, <1>5, WordsAreMany
<1>7. PICK p : p = [m EXCEPT !.pc = "return", !.retval = retval]
  OBVIOUS
<1>8. /\ p \in AtapiCall /\ p.drive = m.drive /\ p.asked = m.asked /\ p.writes = m.writes /\ p.buf = m.buf
      /\ p.sound = m.sound /\ p.pc = "return" /\ p.count = m.count /\ p.retval = retval
  BY <1>1, <1>2, <1>6, <1>7 DEF AtapiCall
<1>9. call' = [call EXCEPT ![t] = p] /\ call'[t] = p
  <2>1. call' = [call EXCEPT ![t].pc = "return", ![t].retval = retval]
    BY <1>5
  <2>2. call' = [call EXCEPT ![t] = p]
    BY <1>1, <1>2, <1>7, <2>1 DEF IdeTypeOK
  <2> QED BY <1>1, <2>2 DEF IdeTypeOK
<1>10. PICK r : r = NoCommand
  OBVIOUS
<1>11. r \in Registers /\ active' = [active EXCEPT ![ControllerOf(t)] = r]
  BY <1>10 DEF NoCommand, Registers, PartsEnd
<1>12. media' = media /\ UNCHANGED <<ide_devices, unprobed, locked, calls, looked, raced>>
  BY DEF PartsEnd
<1>13. Holds(t)'
  <2>1. p \notin AtaCall
    <3>1. Kind[p.drive] = "atapi"
      BY <1>8 DEF AtapiCall
    <3> QED BY <3>1 DEF AtaCall
  <2> SUFFICES ASSUME m.sound PROVE AtapiHolds(t)'
    BY <1>8, <1>9, <2>1 DEF Holds
  <2>2. m.count = m.asked[2] /\ n <= m.asked[2] /\ \A k \in 0..n - 1 : Right(t, k)
    BY <1>1, <1>2, <1>3 DEF Holds, AtapiHolds
  <2>3. retval <= m.asked[2] => retval <= n
    <3>1. CASE retval = m.count /\ n >= m.count
      BY <1>3, <1>4, <3>1
    <3>2. CASE retval = WordsToSectors(n) /\ n = 0
      BY <3>2, WordsAreMany
    <3>3. CASE retval = WordsToSectors(n) /\ n > 0
      <4>1. retval > MaxCount
        BY <1>3, <3>3, WordsAreMany
      <4> QED BY <1>4, <1>6, <4>1
    <3> QED BY <1>3, <1>5, <3>1, <3>2, <3>3
  <2>4. ASSUME retval <= m.asked[2], NEW k \in 0..retval - 1 PROVE Right(t, k)'
    <3>1. k \in 0..n - 1
      BY <1>3, <1>6, <2>3, <2>4
    <3>2. Right(t, k)
      BY <2>2, <3>1
    <3> QED BY <1>2, <1>8, <1>9, <1>12, <3>2 DEF Right
  <2> QED BY <1>8, <1>9, <2>2, <2>4 DEF AtapiHolds
<1>14. /\ media' = [e \in Drive |-> media'[e]]
       /\ \A e \in Drive : media'[e] \in [0..DriveSize[e] - 1 -> Content] /\ media'[e] = media[e]
  BY <1>1, <1>12 DEF IdeTypeOK
<1>15. /\ call[t].pc \in {"transfer", "parts"} /\ p \in AtaCall \cup AtapiCall /\ p.drive = call[t].drive
       /\ p.sound => call[t].sound
  BY <1>1, <1>2, <1>8
<1> QED BY <1>9, <1>11, <1>12, <1>13, <1>14, <1>15, StepKeeps

-----------------------------------------------------------------------------
(* The theorem.                                                            *)

\* Nothing is known, open or asked for at first.
LEMMA IdeStarts == IdeInit => IdeIInv
<1> SUFFICES ASSUME IdeInit PROVE IdeIInv
  OBVIOUS
<1>1. IdeTypeOK
  <2>1. ide_devices \in [Drive -> Device]
    BY DEF IdeInit, Unknown, Known, Device
  <2>2. \A d \in Drive : ide_devices[d].type = "error"
    BY DEF IdeInit, Unknown, Known
  <2>3. active \in [Controller -> Registers]
    BY DEF IdeInit, NoCommand, Registers
  <2>4. ASSUME NEW d \in Drive PROVE media[d] \in [0..DriveSize[d] - 1 -> Content]
    <3>1. \A s \in 0..DriveSize[d] - 1 : Old(d, s) \in Content
      BY DriveIs DEF Old, Content
    <3> QED BY <3>1 DEF IdeInit
  <2>5. calls \in 0..MaxCalls
    BY IdeAssumption DEF IdeInit
  <2> QED BY <2>1, <2>2, <2>3, <2>4, <2>5 DEF IdeInit, IdeTypeOK
<1>2. Guarded
  BY DEF IdeInit, Unknown, Known, Idle, Guarded, Opening
<1>3. ASSUME NEW t \in IdeThread PROVE Alone(t) /\ Holds(t)
  <2>1. Idle \notin AtaCall \cup AtapiCall
    BY DEF Idle, AtaCall, AtapiCall
  <2> QED BY <2>1 DEF IdeInit, Alone, Holds
<1> QED BY <1>1, <1>2, <1>3 DEF IdeIInv

\* The others have their steps too,
LEMMA IdeRests == ASSUME IdeIInv, UNCHANGED ideVars PROVE IdeIInv'
<1>1. IdeTypeOK'
  BY DEF IdeIInv, IdeTypeOK, ideVars
<1>2. Guarded'
  BY DEF IdeIInv, Guarded, Opening, ideVars
<1>3. ASSUME NEW t \in IdeThread PROVE Alone(t)' /\ Holds(t)'
  <2>1. IdeTypeOK /\ Alone(t) /\ Holds(t) /\ \A u \in IdeThread : Fainter(u)
    BY DEF IdeIInv, Fainter, ideVars
  <2> QED BY <2>1, AloneStays, HoldsStays DEF ideVars
<1> QED BY <1>1, <1>2, <1>3 DEF IdeIInv

\* and each step of ide.c keeps the invariant.
LEMMA IdeGoesOn == IdeIInv /\ [IdeNext]_ideVars => IdeIInv'
<1> SUFFICES ASSUME IdeIInv, [IdeNext]_ideVars PROVE IdeIInv'
  OBVIOUS
<1>1. CASE Identify
  BY <1>1, IdentifyKeeps
<1>2. CASE Look
  BY <1>2, LookKeeps
<1>3. CASE Unlock
  BY <1>3, UnlockKeeps
<1>4. ASSUME NEW t \in IdeThread,
             \/ AtaRw(t) \/ Command(t) \/ MoveSector(t) \/ TimeOut(t) \/ EndRw(t)
             \/ Refresh(t) \/ Opened(t) \/ Close(t) \/ AtapiRead(t) \/ TakePart(t) \/ PartsEnd(t)
      PROVE  IdeIInv'
  BY <1>4, AtaRwKeeps, CommandKeeps, MoveSectorKeeps, TimeOutKeeps, EndRwKeeps, RefreshKeeps, OpenedKeeps,
     CloseKeeps, AtapiReadKeeps, TakePartKeeps, PartsEndKeeps
<1>5. CASE UNCHANGED ideVars
  BY <1>5, IdeRests
<1> QED BY <1>1, <1>2, <1>3, <1>4, <1>5 DEF IdeNext

\* What a call is sure of is right when it ends.
LEMMA HeldIsMoved == ASSUME IdeIInv PROVE SectorsAreMoved
<1> SUFFICES ASSUME NEW t \in IdeThread, call[t].pc = "return", call[t].sound, NEW k \in 0..Sure(call[t]) - 1
             PROVE  Right(t, k)
  BY DEF SectorsAreMoved, Right
<1>1. PICK m : m = call[t]
  OBVIOUS
<1>2. IdeTypeOK /\ Holds(t) /\ m \in AtaCall \cup AtapiCall
  BY <1>1, CallIsOf DEF IdeIInv
<1>3. CASE m \in AtaCall
  <2>1. Sure(m) = First(m)
    BY <1>3 DEF Sure, First, AtaCall
  <2>2. First(m) \in Nat /\ m.retval \in Nat
    BY <1>2, <1>3, FirstIs DEF AtaCall
  <2>3. ~(m.retval < First(m)) /\ \A j \in 0..First(m) - 1 : j < m.retval => Right(t, j)
    BY <1>1, <1>2, <1>3 DEF Holds, AtaHolds, Begun
  <2>4. k \in 0..First(m) - 1 /\ k < m.retval
    BY <1>1, <2>1, <2>2, <2>3
  <2> QED BY <2>3, <2>4
<1>4. CASE m \in AtapiCall
  <2>1. Sure(m) = IF m.retval <= m.asked[2] THEN m.retval ELSE 0
    BY <1>4 DEF Sure, AtapiCall
  <2>2. m.retval <= m.asked[2] /\ k \in 0..m.retval - 1
    BY <1>1, <2>1
  <2> QED BY <1>1, <1>2, <1>4, <2>2 DEF Holds, AtapiHolds
<1> QED BY <1>2, <1>3, <1>4

\* Whatever the drives are, their sizes and the threads that use them: what an undisturbed call
\* of ide.c moves are the sectors it names, and a disc that is open is locked in its drive.
THEOREM SectorsAndLocks == IdeSpec => []DrivesServe
<1>1. IdeIInv => DrivesServe
  BY HeldIsMoved DEF IdeIInv, Guarded, DrivesServe, OpenIsLocked
<1> QED BY <1>1, IdeStarts, IdeGoesOn, PTL DEF IdeSpec

-----------------------------------------------------------------------------
(* The partitions of a hard disk.                                          *)

\* What is found is what the tables have told, and no more if no chain is longer than two.
Tells(told) == told \subseteq Discovered /\ (ChainsAreShort => Discovered = told)

\* The numbers below 4 are those of the entries that were read; the others go up.
Numbered ==
    /\ partitions \in Seq([num : Nat, start : Nat, count : Nat])
    /\ \A j \in DOMAIN partitions : LET num == partitions[j].num
                                    IN (num < 4 /\ num < entry - 1) \/ (num >= 4 /\ num < logical_pnum)
    /\ NumbersDiffer

\* The link that was read last is the extended entry itself, that of the first record, or one
\* behind it, when there is no link unless the chain is longer.
Extending(ext, told) ==
    \/ sect = 0 /\ link = Bootrec(0)[entry] /\ Tells(told)
    \/ sect = ext /\ IsRecord(ext) /\ link = Bootrec(ext)[2] /\ Tells(told \cup Listed(FirstOf(ext)))
    \/ /\ sect \in Nat /\ link \in TableEntry
       /\ Tells(told \cup Chained(ext)) /\ (ChainsAreShort => link.type # "logical")

\* Every entry so far was heeded; those behind a GUID table at the beginning are not.
EntriesRead ==
    /\ IsRecord(0)
    /\ entry <= 4 => 1..(entry - 1) \subseteq Heeded
    /\ primary_lkm = 0 <=> \A k \in Heeded : k < entry => TypeAt(k) # "primary"

HddOK ==
    /\ records \in Disks /\ entry \in 1..5 /\ primary_lkm \in Nat /\ logical_pnum \in Nat \ 0..3
    /\ searching \in {"open", "table", "chain", "end", "failed"}
    /\ Numbered
    /\ searching = "open" => entry = 1 /\ Discovered = {} /\ primary_lkm = 0 /\ hdd_refs = 0
    /\ searching \in {"table", "chain"} => EntriesRead /\ hdd_refs = 1
    /\ searching = "table" => Tells(Recorded(1..(entry - 1)))
    /\ searching = "chain" => /\ entry \in Heeded /\ TypeAt(entry) = "logical"
                              /\ Extending(StartAt(entry), Recorded(1..(entry - 1)))
    /\ PlacesAreFound /\ DiskIsClosed

-----------------------------------------------------------------------------
(* The tables.                                                             *)

\* A record has four entries.
LEMMA RecordsAre ==
    ASSUME records \in Disks, NEW s, IsRecord(s), NEW k \in 1..4
    PROVE  Bootrec(s)[k] \in TableEntry
  BY PartitionAssumption DEF IsRecord, Bootrec

LEMMA EntriesAre ==
    ASSUME NEW e \in TableEntry
    PROVE  /\ e.type \in {"empty", "primary", "gpt", "logical"}
           /\ e.start_lba \in Nat /\ e.sector_count \in Nat
  BY DEF TableEntry

\* An entry is heeded if those before it are and no GUID table ends the search with it.
LEMMA HeededIs ==
    ASSUME NEW k \in 1..4, 1..(k - 1) \subseteq Heeded, ~GptEnds(k)
    PROVE  1..k \subseteq Heeded
<1>1. \A j \in 1..(k - 1) : ~GptEnds(j)
  BY DEF Heeded
<1>2. \A j \in 1..k : ~GptEnds(j)
  BY <1>1
<1>3. \A i \in 1..k : i \in 1..4 /\ 1..i \subseteq 1..k
  OBVIOUS
<1> QED BY <1>2, <1>3 DEF Heeded

\* No entry is heeded from where a GUID table ends the search.
LEMMA HeededEnds ==
    ASSUME NEW k \in 1..4, GptEnds(k)
    PROVE  Heeded \subseteq 1..(k - 1)
<1> SUFFICES ASSUME NEW i \in Heeded PROVE i < k
  BY DEF Heeded
<1>1. i \in 1..4 /\ \A j \in 1..i : ~GptEnds(j)
  BY DEF Heeded
<1> QED BY <1>1

\* What the entries say grows by what the next one says.
LEMMA RecordedPrimary ==
    ASSUME NEW k \in Heeded, TypeAt(k) = "primary"
    PROVE  Recorded(1..k) = Recorded(1..(k - 1)) \cup {<<StartAt(k), Bootrec(0)[k].sector_count>>}
<1>1. k \in 1..4
  BY DEF Heeded
<1>2. Heeded \cap 1..k = (Heeded \cap 1..(k - 1)) \cup {k}
  BY <1>1
<1>3. PICK before : before = Heeded \cap 1..(k - 1)
  OBVIOUS
<1>4. Heeded \cap 1..k = before \cup {k}
  BY <1>2, <1>3
<1>5. "primary" # "logical"
  OBVIOUS
<1> QED BY <1>3, <1>4, <1>5, Zenon DEF Recorded

LEMMA RecordedLogical ==
    ASSUME NEW k \in Heeded, TypeAt(k) = "logical"
    PROVE  Recorded(1..k) = Recorded(1..(k - 1)) \cup Chained(StartAt(k))
<1>1. k \in 1..4
  BY DEF Heeded
<1>2. Heeded \cap 1..k = (Heeded \cap 1..(k - 1)) \cup {k}
  BY <1>1
<1>3. PICK before : before = Heeded \cap 1..(k - 1)
  OBVIOUS
<1>4. Heeded \cap 1..k = before \cup {k}
  BY <1>2, <1>3
<1>5. "primary" # "logical"
  OBVIOUS
<1> QED BY <1>3, <1>4, <1>5, Zenon DEF Recorded

LEMMA RecordedOther ==
    ASSUME NEW k \in 1..4, k \in Heeded => TypeAt(k) \notin {"primary", "logical"}
    PROVE  Recorded(1..k) = Recorded(1..(k - 1))
<1>1. \A l \in Heeded \cap 1..k : TypeAt(l) \in {"primary", "logical"} => l \in 1..(k - 1)
  OBVIOUS
<1>2. Heeded \cap 1..(k - 1) \subseteq Heeded \cap 1..k
  OBVIOUS
<1>3. /\ {l \in Heeded \cap 1..k : TypeAt(l) = "primary"} = {l \in Heeded \cap 1..(k - 1) : TypeAt(l) = "primary"}
      /\ {l \in Heeded \cap 1..k : TypeAt(l) = "logical"} = {l \in Heeded \cap 1..(k - 1) : TypeAt(l) = "logical"}
  BY <1>1, <1>2
<1> QED BY <1>3 DEF Recorded

LEMMA RecordedHeeded ==
    ASSUME NEW S, NEW T, Heeded \cap S = Heeded \cap T
    PROVE  Recorded(S) = Recorded(T)
  BY DEF Recorded

\* The tables stay as they are.
LEMMA TablesStay ==
    ASSUME UNCHANGED records
    PROVE  /\ \A s : Bootrec(s)' = Bootrec(s)
           /\ \A S : Recorded(S)' = Recorded(S)
           /\ \A S : Listed(S)' = Listed(S)
           /\ \A e : FirstOf(e)' = FirstOf(e) /\ Chained(e)' = Chained(e)
           /\ \A k : TypeAt(k)' = TypeAt(k) /\ StartAt(k)' = StartAt(k)
           /\ Heeded' = Heeded /\ (ChainsAreShort' <=> ChainsAreShort)
  BY DEF Bootrec, Recorded, Listed, FirstOf, SecondOf, Chained, TypeAt, StartAt, Heeded, GptEnds,
         ChainsAreShort, IsRecord, Leads

-----------------------------------------------------------------------------
(* A partition that is found.                                              *)

Partition == [num : Nat, start : Nat, count : Nat]

\* It is among what was discovered, whether or not there is memory for it.
LEMMA DiscoveredGrows ==
    ASSUME partitions \in Seq(Partition), NEW p \in Partition, Insert(p)
    PROVE  Discovered' = Discovered \cup {<<p.start, p.count>>}
<1>1. CASE partitions' = Append(partitions, p) /\ UNCHANGED left_out
  <2>1. PICK n : n = Append(partitions, p)
    OBVIOUS
  <2>2. /\ n \in Seq(Partition) /\ Len(n) = Len(partitions) + 1 /\ Len(partitions) \in Nat
        /\ \A k \in 1..Len(partitions) : n[k] = partitions[k]
        /\ n[Len(partitions) + 1] = p
    BY <2>1, AppendProperties, LenProperties
  <2>3. DOMAIN partitions = 1..Len(partitions) /\ DOMAIN n = 1..Len(n)
    BY <2>2, LenProperties
  <2>4. {n[k] : k \in DOMAIN n} = {partitions[k] : k \in DOMAIN partitions} \cup {p}
    <3>1. \A k \in DOMAIN n : k \in DOMAIN partitions \/ k = Len(partitions) + 1
      BY <2>2, <2>3
    <3>2. Len(partitions) + 1 \in DOMAIN n /\ \A k \in DOMAIN partitions : k \in DOMAIN n
      BY <2>2, <2>3
    <3> QED BY <3>1, <3>2, <2>2, <2>3
  <2>5. Discovered' = Extents({n[k] : k \in DOMAIN n} \cup left_out)
    BY <1>1, <2>1, Zenon DEF Discovered, Extents
  <2> QED BY <2>4, <2>5 DEF Discovered, Extents
<1>2. CASE left_out' = left_out \cup {p} /\ UNCHANGED partitions
  BY <1>2 DEF Discovered, Extents
<1> QED BY <1>1, <1>2 DEF Insert

\* Its number is that of its entry, or the next that is free.
LEMMA NumbersGo ==
    ASSUME Numbered, entry \in 1..5, logical_pnum \in Nat \ 0..3, NEW p \in Partition, Insert(p),
           \/ entry <= 4 /\ p.num = entry - 1 /\ entry' = entry + 1 /\ logical_pnum' = logical_pnum
           \/ p.num = logical_pnum /\ entry' = entry /\ logical_pnum' = logical_pnum + 1
    PROVE  Numbered'
<1> DEFINE Below(num, e, l) == (num < 4 /\ num < e - 1) \/ (num >= 4 /\ num < l)
<1>1. /\ partitions \in Seq(Partition) /\ NumbersDiffer
      /\ \A j \in DOMAIN partitions : Below(partitions[j].num, entry, logical_pnum)
  BY DEF Numbered, Partition
<1>2. /\ \A num \in Nat : Below(num, entry, logical_pnum) => num # p.num /\ Below(num, entry', logical_pnum')
      /\ Below(p.num, entry', logical_pnum')
  BY DEF Partition
<1> HIDE DEF Below
<1>3. CASE partitions' = Append(partitions, p)
  <2>1. PICK n : n = Append(partitions, p)
    OBVIOUS
  <2>2. PICK l : l = Len(partitions)
    OBVIOUS
  <2>3. /\ n \in Seq(Partition) /\ Len(n) = l + 1 /\ l \in Nat
        /\ \A k \in 1..l : n[k] = partitions[k]
        /\ n[l + 1] = p
    BY <1>1, <2>1, <2>2, AppendProperties, LenProperties
  <2>4. DOMAIN partitions = 1..l /\ DOMAIN n = 1..(l + 1)
    BY <1>1, <2>2, <2>3, LenProperties
  <2>5. \A k \in DOMAIN n : k \in 1..l \/ k = l + 1
    BY <2>3, <2>4
  <2>6. \A k \in 1..l : /\ n[k] = partitions[k] /\ n[k].num \in Nat
                        /\ Below(n[k].num, entry, logical_pnum)
    <3>1. \A k \in 1..l : partitions[k] \in Partition
      BY <1>1, <2>2, ElementOfSeq
    <3> QED BY <3>1, <1>1, <2>3, <2>4 DEF Partition
  <2>7. \A k \in 1..l : n[k].num # p.num /\ Below(n[k].num, entry', logical_pnum')
    BY <1>2, <2>6
  <2>8. \A k \in DOMAIN n : Below(n[k].num, entry', logical_pnum')
    BY <1>2, <2>3, <2>5, <2>7
  <2>9. \A j, k \in DOMAIN n : n[j].num = n[k].num => j = k
    <3>1. ASSUME NEW j \in DOMAIN n, NEW k \in DOMAIN n, n[j].num = n[k].num PROVE j = k
      <4>1. CASE j \in 1..l /\ k \in 1..l
        BY <3>1, <4>1, <1>1, <2>3, <2>4 DEF NumbersDiffer
      <4>2. CASE j = l + 1 \/ k = l + 1
        BY <3>1, <4>2, <2>3, <2>5, <2>7
      <4> QED BY <4>1, <4>2, <2>5
    <3> QED BY <3>1
  <2>10. n = partitions'
    BY <1>3, <2>1
  <2> QED BY <2>3, <2>8, <2>9, <2>10 DEF Numbered, NumbersDiffer, Partition, Below
<1>4. CASE UNCHANGED partitions
  <2>1. \A j \in DOMAIN partitions : partitions[j].num \in Nat
    <3>1. DOMAIN partitions = 1..Len(partitions)
      BY <1>1, LenProperties
    <3>2. \A j \in DOMAIN partitions : partitions[j] \in Partition
      BY <1>1, <3>1, ElementOfSeq
    <3> QED BY <3>2 DEF Partition
  <2>2. \A j \in DOMAIN partitions : Below(partitions[j].num, entry', logical_pnum')
    BY <1>1, <1>2, <2>1
  <2> QED BY <1>1, <1>4, <2>2 DEF Numbered, NumbersDiffer, Partition, Below
<1> QED BY <1>3, <1>4 DEF Insert

\* The numbers stay different if nothing is found and the entries go on.
LEMMA NumbersStay ==
    ASSUME Numbered, entry \in 1..5, UNCHANGED <<partitions, logical_pnum>>, entry' \in entry..5
    PROVE  Numbered'
<1>1. DOMAIN partitions = 1..Len(partitions)
  BY LenProperties DEF Numbered
<1>2. \A j \in DOMAIN partitions : partitions[j].num \in Nat
  <2>1. \A j \in DOMAIN partitions : partitions[j] \in Partition
    BY <1>1, ElementOfSeq DEF Numbered, Partition
  <2> QED BY <2>1 DEF Partition
<1> DEFINE Below(num, e, l) == (num < 4 /\ num < e - 1) \/ (num >= 4 /\ num < l)
<1>3. \A num \in Nat : Below(num, entry, logical_pnum) => Below(num, entry', logical_pnum')
  <2>1. PICK e, f : e = entry /\ f = entry'
    OBVIOUS
  <2>2. e \in Int /\ f \in Int /\ e <= f
    BY <2>1
  <2>3. \A num \in Nat : num < e - 1 => num < f - 1
    BY <2>2
  <2> QED BY <2>1, <2>3
<1>4. \A j \in DOMAIN partitions : Below(partitions[j].num, entry, logical_pnum)
  BY DEF Numbered
<1> HIDE DEF Below
<1>5. \A j \in DOMAIN partitions : Below(partitions[j].num, entry', logical_pnum')
  BY <1>2, <1>3, <1>4
<1>6. NumbersDiffer'
  BY DEF Numbered, NumbersDiffer
<1> QED BY <1>5, <1>6 DEF Numbered, Below

\* What is told goes on with what is discovered.
LEMMA TellsMore ==
    ASSUME UNCHANGED records, NEW told, Tells(told), NEW more, Discovered' = Discovered \cup more
    PROVE  Tells(told \cup more)'
  BY TablesStay DEF Tells

LEMMA DiscoveredStays == ASSUME UNCHANGED <<partitions, left_out>> PROVE Discovered' = Discovered
  BY DEF Discovered, Extents

LEMMA TellsStill ==
    ASSUME UNCHANGED <<records, partitions, left_out>>, NEW told, Tells(told)
    PROVE  Tells(told)'
  BY TablesStay, DiscoveredStays DEF Tells

\* An entry that is read and does not end the search.
LEMMA EntryRead ==
    ASSUME UNCHANGED records, EntriesRead, entry \in 1..4, primary_lkm \in Nat, ~GptEnds(entry),
           entry' = entry + 1,
           IF TypeAt(entry) = "primary" THEN primary_lkm' = primary_lkm + 1 ELSE UNCHANGED primary_lkm
    PROVE  EntriesRead' /\ entry \in Heeded
<1>1. PICK e : e = entry
  OBVIOUS
<1>2. e \in 1..4 /\ 1..(e - 1) \subseteq Heeded /\ ~GptEnds(e)
  BY <1>1 DEF EntriesRead
<1>3. 1..e \subseteq Heeded
  BY <1>2, HeededIs
<1>4. e \in Heeded
  BY <1>2, <1>3
<1>5. IsRecord(0)'
  BY TablesStay DEF IsRecord, EntriesRead
<1>6. entry' - 1 = e
  BY <1>1, <1>2
<1>7. primary_lkm' = 0 <=> \A k \in Heeded : k < entry' => TypeAt(k) # "primary"
  <2>1. primary_lkm = 0 <=> \A k \in Heeded : k < e => TypeAt(k) # "primary"
    BY <1>1 DEF EntriesRead
  <2>2. \A k \in Heeded : k < entry' <=> k < e \/ k = e
    BY <1>2, <1>6 DEF Heeded
  <2>3. CASE TypeAt(e) = "primary"
    BY <2>2, <2>3, <1>1, <1>4
  <2>4. CASE TypeAt(e) # "primary"
    BY <2>1, <2>2, <2>4, <1>1
  <2> QED BY <2>3, <2>4
<1>8. Heeded' = Heeded /\ \A k : TypeAt(k)' = TypeAt(k)
  BY TablesStay
<1> QED BY <1>1, <1>3, <1>4, <1>5, <1>6, <1>7, <1>8 DEF EntriesRead

LEMMA TableGoesOn ==
    ASSUME UNCHANGED records, records \in Disks, entry' \in 1..5, primary_lkm' \in Nat,
           logical_pnum' \in Nat \ 0..3, searching' = "table", Numbered', EntriesRead', hdd_refs' = 1,
           Tells(Recorded(1..(entry - 1)))'
    PROVE  HddOK'
<1>1. PlacesAreFound' /\ DiskIsClosed'
  BY DEF PlacesAreFound, DiskIsClosed
<1> QED BY <1>1 DEF HddOK

-----------------------------------------------------------------------------
(* The steps.                                                              *)

LEMMA PartitionInitOK == ASSUME PartitionInit PROVE HddOK
<1>1. records \in Disks /\ searching = "open" /\ entry = 1 /\ primary_lkm = 0 /\ logical_pnum = 4
      /\ partitions = <<>> /\ hdd_refs = 0 /\ left_out = {}
  BY DEF PartitionInit
<1>2. partitions \in Seq([num : Nat, start : Nat, count : Nat]) /\ DOMAIN partitions = {}
  BY <1>1, EmptySeq
<1>3. Numbered
  BY <1>2 DEF Numbered, NumbersDiffer
<1>4. Discovered = {}
  BY <1>1, <1>2 DEF Discovered, Extents
<1> QED BY <1>1, <1>3, <1>4 DEF HddOK, PlacesAreFound, DiskIsClosed

LEMMA OpenTableOK == ASSUME HddOK, OpenTable PROVE HddOK'
<1>1. /\ records \in Disks /\ entry = 1 /\ Discovered = {} /\ primary_lkm = 0 /\ hdd_refs = 0
      /\ logical_pnum \in Nat \ 0..3 /\ Numbered
      /\ UNCHANGED <<records, entry, primary_lkm, logical_pnum, partitions, left_out>>
  BY DEF HddOK, OpenTable
<1>2. Numbered'
  BY <1>1, NumbersStay
<1>3. Discovered' = {}
  BY <1>1, DiscoveredStays
<1>4. IsRecord(0)' <=> IsRecord(0)
  BY <1>1 DEF IsRecord, Bootrec
<1>5. CASE searching' = "failed"
  BY <1>1, <1>2, <1>5 DEF HddOK, PlacesAreFound, DiskIsClosed
<1>6. CASE hdd_refs' = 1 /\ searching' = "end" /\ ~IsRecord(0)
  <2>1. PlacesAreFound'
    BY <1>4, <1>6 DEF PlacesAreFound
  <2>2. DiskIsClosed'
    BY <1>4, <1>6 DEF DiskIsClosed
  <2> QED BY <1>1, <1>2, <1>6, <2>1, <2>2 DEF HddOK
<1>7. CASE hdd_refs' = 1 /\ searching' = "table" /\ IsRecord(0)
  <2>1. EntriesRead'
    BY <1>1, <1>4, <1>7 DEF EntriesRead, Heeded
  <2>2. Recorded(1..0) = {}
    BY DEF Recorded
  <2>3. Tells({})'
    BY <1>3 DEF Tells
  <2>4. Tells(Recorded(1..(entry - 1)))'
    <3>1. entry' - 1 = 0
      BY <1>1
    <3>2. Recorded(1..0)' = {}
      BY <1>1, <2>2, TablesStay
    <3> QED BY <3>1, <3>2, <2>3
  <2> QED BY <1>1, <1>2, <1>7, <2>1, <2>4, TableGoesOn
<1> QED BY <1>5, <1>6, <1>7 DEF OpenTable, IsRecord

\* While the table is read.
LEMMA InTable ==
    ASSUME HddOK, searching \in {"table", "chain"}
    PROVE  /\ records \in Disks /\ entry \in 1..5 /\ primary_lkm \in Nat /\ logical_pnum \in Nat \ 0..3
           /\ Numbered /\ EntriesRead /\ IsRecord(0) /\ hdd_refs = 1
  BY DEF HddOK, EntriesRead

LEMMA EntryIs ==
    ASSUME records \in Disks, IsRecord(0), NEW k \in 1..4
    PROVE  /\ TypeAt(k) = Bootrec(0)[k].type /\ StartAt(k) = Bootrec(0)[k].start_lba
           /\ StartAt(k) \in Nat /\ Bootrec(0)[k].sector_count \in Nat
  BY RecordsAre, EntriesAre DEF TypeAt, StartAt

LEMMA SkipEmptyOK == ASSUME HddOK, SkipEmpty PROVE HddOK'
<1>1. /\ searching = "table" /\ entry \in 1..4 /\ TypeAt(entry) = "empty"
      /\ UNCHANGED <<records, hdd_refs, searching, primary_lkm, logical_pnum, partitions, left_out>>
      /\ entry' = entry + 1 /\ Tells(Recorded(1..(entry - 1)))
  BY DEF HddOK, SkipEmpty, NextEntry, TypeAt
<1>2. /\ records \in Disks /\ entry \in 1..5 /\ primary_lkm \in Nat /\ logical_pnum \in Nat \ 0..3
      /\ Numbered /\ EntriesRead /\ IsRecord(0) /\ hdd_refs = 1
  BY <1>1, InTable
<1>3. Numbered'
  <2>1. entry' \in entry..5
    BY <1>1
  <2> QED BY <1>1, <1>2, <2>1, NumbersStay
<1>4. EntriesRead'
  <2>1. ~GptEnds(entry) /\ TypeAt(entry) # "primary"
    BY <1>1 DEF GptEnds
  <2> QED BY <1>1, <1>2, <2>1, EntryRead
<1>5. PICK e : e = entry
  OBVIOUS
<1>6. e \in 1..4 /\ entry' - 1 = e
  BY <1>1, <1>5
<1>7. Recorded(1..e) = Recorded(1..(e - 1))
  BY <1>1, <1>5, <1>6, RecordedOther
<1>8. Tells(Recorded(1..(entry - 1)))'
  <2>1. PICK told : told = Recorded(1..e)
    OBVIOUS
  <2>2. Tells(told)
    BY <1>1, <1>5, <1>7, <2>1
  <2>3. Tells(told)'
    BY <1>1, <2>2, TellsStill
  <2>4. Recorded(1..e)' = told
    BY <1>1, <2>1, TablesStay
  <2> QED BY <1>6, <2>3, <2>4
<1>9. entry' \in 1..5
  BY <1>1
<1> QED BY <1>1, <1>2, <1>3, <1>4, <1>8, <1>9, TableGoesOn

LEMMA PrimaryOK == ASSUME HddOK, Primary PROVE HddOK'
<1>1. /\ searching = "table" /\ entry \in 1..4 /\ TypeAt(entry) = "primary"
      /\ UNCHANGED <<records, hdd_refs, searching, logical_pnum>>
      /\ primary_lkm' = primary_lkm + 1 /\ Insert(Found(entry - 1, 0, Bootrec(0)[entry]))
      /\ entry' = entry + 1 /\ Tells(Recorded(1..(entry - 1)))
  BY DEF HddOK, Primary, NextEntry, TypeAt
<1>2. /\ records \in Disks /\ entry \in 1..5 /\ primary_lkm \in Nat /\ logical_pnum \in Nat \ 0..3
      /\ Numbered /\ EntriesRead /\ IsRecord(0) /\ hdd_refs = 1
  BY <1>1, InTable
<1>3. PICK e : e = entry
  OBVIOUS
<1>4. e \in 1..4 /\ entry' - 1 = e
  BY <1>1, <1>3
<1>5. /\ StartAt(e) = Bootrec(0)[e].start_lba /\ StartAt(e) \in Nat /\ Bootrec(0)[e].sector_count \in Nat
  BY <1>2, <1>4, EntryIs
<1>6. PICK p : p = Found(e - 1, 0, Bootrec(0)[e])
  OBVIOUS
<1>7. /\ p \in Partition /\ p.num = e - 1 /\ p.start = StartAt(e) /\ p.count = Bootrec(0)[e].sector_count
  BY <1>4, <1>5, <1>6 DEF Partition, Found
<1>8. Insert(p)
  BY <1>1, <1>3, <1>6
<1>9. Numbered'
  <2>1. entry <= 4 /\ p.num = entry - 1
    BY <1>3, <1>4, <1>7
  <2> QED BY <2>1, <1>1, <1>2, <1>7, <1>8, NumbersGo
<1>10. EntriesRead' /\ entry \in Heeded
  <2>1. ~GptEnds(entry)
    BY <1>1 DEF GptEnds
  <2> QED BY <1>1, <1>2, <2>1, EntryRead
<1>11. Recorded(1..e) = Recorded(1..(e - 1)) \cup {<<StartAt(e), Bootrec(0)[e].sector_count>>}
  BY <1>1, <1>3, <1>10, RecordedPrimary
<1>12. Tells(Recorded(1..(entry - 1)))'
  <2>1. PICK told : told = Recorded(1..(e - 1))
    OBVIOUS
  <2>2. Tells(told)
    BY <1>1, <1>3, <2>1
  <2>3. PICK more : more = {<<p.start, p.count>>}
    OBVIOUS
  <2>4. Discovered' = Discovered \cup more
    BY <1>2, <1>7, <1>8, <2>3, DiscoveredGrows DEF Numbered, Partition
  <2>5. Tells(told \cup more)'
    BY <1>1, <2>2, <2>4, TellsMore
  <2>6. Recorded(1..e)' = told \cup more
    BY <1>1, <1>7, <1>11, <2>1, <2>3, TablesStay
  <2> QED BY <1>4, <2>5, <2>6
<1>13. entry' \in 1..5 /\ primary_lkm' \in Nat
  BY <1>1, <1>2
<1> QED BY <1>1, <1>2, <1>9, <1>10, <1>12, <1>13, TableGoesOn

LEMMA GptOK == ASSUME HddOK, Gpt PROVE HddOK'
<1>1. /\ searching = "table" /\ entry \in 1..4 /\ TypeAt(entry) = "gpt"
      /\ UNCHANGED <<records, searching, primary_lkm, logical_pnum, partitions, hdd_refs, left_out>>
      /\ entry' = IF primary_lkm = 0 THEN 5 ELSE entry + 1
      /\ Tells(Recorded(1..(entry - 1)))
  BY DEF HddOK, Gpt, TypeAt
<1>2. /\ records \in Disks /\ entry \in 1..5 /\ primary_lkm \in Nat /\ logical_pnum \in Nat \ 0..3
      /\ Numbered /\ EntriesRead /\ IsRecord(0) /\ hdd_refs = 1
  BY <1>1, InTable
<1>3. entry' \in entry..5
  BY <1>1
<1>4. Numbered'
  BY <1>1, <1>2, <1>3, NumbersStay
<1>5. PICK e : e = entry
  OBVIOUS
<1>6. e \in 1..4 /\ TypeAt(e) = "gpt" /\ 1..(e - 1) \subseteq Heeded
  BY <1>1, <1>5 DEF EntriesRead, HddOK
<1>7. PICK told : told = Recorded(1..(e - 1))
  OBVIOUS
<1>8. Tells(told)'
  <2>1. Tells(told)
    BY <1>1, <1>5, <1>7
  <2> QED BY <1>1, <2>1, TellsStill
<1>9. GptEnds(e) <=> primary_lkm = 0
  <2>1. GptEnds(e) <=> \A l \in 1..e : TypeAt(l) # "primary"
    BY <1>6 DEF GptEnds
  <2>2. (\A l \in 1..e : TypeAt(l) # "primary") <=> \A l \in 1..(e - 1) : TypeAt(l) # "primary"
    BY <1>6
  <2>3. (\A l \in 1..(e - 1) : TypeAt(l) # "primary") <=> \A k \in Heeded : k < e => TypeAt(k) # "primary"
    BY <1>6 DEF Heeded
  <2> QED BY <1>2, <1>5, <2>1, <2>2, <2>3 DEF EntriesRead
<1>10. EntriesRead' /\ Tells(Recorded(1..(entry - 1)))'
  <2>1. CASE primary_lkm = 0
    <3>1. Heeded \subseteq 1..(e - 1)
      BY <2>1, <1>6, <1>9, HeededEnds
    <3>2. Heeded \cap 1..4 = Heeded \cap 1..(e - 1)
      BY <3>1, <1>6
    <3>3. Recorded(1..4)' = told
      BY <3>2, <1>1, <1>7, RecordedHeeded, TablesStay
    <3>4. entry' = 5 /\ 5 - 1 = 4
      BY <2>1, <1>1
    <3>5. EntriesRead'
      <4>1. \A k \in Heeded : TypeAt(k) # "primary"
        BY <3>1, <2>1, <1>2, <1>5, <1>6 DEF EntriesRead, Heeded
      <4>2. primary_lkm' = 0
        BY <2>1, <1>1
      <4>3. IsRecord(0)' /\ Heeded' = Heeded /\ \A k : TypeAt(k)' = TypeAt(k)
        BY <1>1, <1>2, TablesStay DEF IsRecord
      <4> QED BY <3>4, <4>1, <4>2, <4>3 DEF EntriesRead
    <3> QED BY <3>3, <3>4, <3>5, <1>8
  <2>2. CASE primary_lkm # 0
    <3>1. entry' = entry + 1 /\ entry' - 1 = e
      BY <2>2, <1>1, <1>5
    <3>2. EntriesRead'
      <4>1. TypeAt(entry) # "primary" /\ ~GptEnds(entry)
        BY <2>2, <1>1, <1>5, <1>9
      <4> QED BY <3>1, <4>1, <1>1, <1>2, EntryRead
    <3>3. Recorded(1..e)' = told
      BY <1>1, <1>6, <1>7, RecordedOther, TablesStay
    <3> QED BY <3>1, <3>2, <3>3, <1>8
  <2> QED BY <2>1, <2>2
<1>11. entry' \in 1..5
  BY <1>1
<1> QED BY <1>1, <1>2, <1>4, <1>10, <1>11, TableGoesOn

LEMMA CloseTableOK == ASSUME HddOK, CloseTable PROVE HddOK'
<1>1. /\ searching = "table" /\ entry = 5 /\ searching' = "end" /\ hdd_refs' = 0
      /\ UNCHANGED <<records, entry, primary_lkm, logical_pnum, partitions, left_out>>
      /\ Tells(Recorded(1..(entry - 1)))
  BY DEF HddOK, CloseTable
<1>2. /\ records \in Disks /\ entry \in 1..5 /\ primary_lkm \in Nat /\ logical_pnum \in Nat \ 0..3
      /\ Numbered /\ IsRecord(0)
  BY <1>1, InTable
<1>3. Numbered'
  <2>1. entry' \in entry..5
    BY <1>1
  <2> QED BY <1>1, <1>2, <2>1, NumbersStay
<1>4. IsRecord(0)'
  BY <1>1, <1>2, TablesStay DEF IsRecord
<1>5. PICK told : told = Recorded(1..4)
  OBVIOUS
<1>6. Tells(told)'
  <2>1. entry - 1 = 4
    BY <1>1
  <2>2. Tells(told)
    BY <2>1, <1>1, <1>5
  <2> QED BY <2>2, <1>1, TellsStill
<1>7. Recorded(1..4)' = told
  BY <1>1, <1>5, TablesStay
<1>8. PlacesAreFound' /\ DiskIsClosed'
  BY <1>1, <1>4, <1>6, <1>7 DEF PlacesAreFound, DiskIsClosed, Tells
<1> QED BY <1>1, <1>2, <1>3, <1>8 DEF HddOK

-----------------------------------------------------------------------------
(* A chain of boot records.                                                *)

LEMMA ListedIs ==
    ASSUME NEW s, NEW rs
    PROVE  /\ Listed(rs \cup {s}) = Listed(rs) \cup Listed({s})
           /\ Bootrec(s)[1].type = "empty" => Listed({s}) = {}
           /\ Bootrec(s)[1].type # "empty" =>
                  Listed({s}) = {<<s + Bootrec(s)[1].start_lba, Bootrec(s)[1].sector_count>>}
  BY DEF Listed

\* The first two records of a chain.
LEMMA NoRecord ==
    ASSUME NEW ext, ~IsRecord(ext)
    PROVE  Chained(ext) = {}
  BY DEF Chained, FirstOf, SecondOf, Listed

LEMMA FirstRecord == ASSUME NEW ext, IsRecord(ext) PROVE FirstOf(ext) = {ext}
  BY DEF FirstOf

LEMMA SecondRecord ==
    ASSUME NEW ext, IsRecord(ext), NEW s, s = ext + Bootrec(ext)[2].start_lba
    PROVE  SecondOf(ext) = IF Leads(ext) /\ IsRecord(s) THEN {s} ELSE {}
<1>1. FirstOf(ext) = {ext}
  BY FirstRecord
<1>2. {q \in FirstOf(ext) : Leads(q)} = IF Leads(ext) THEN {ext} ELSE {}
  BY <1>1
<1> QED BY <1>2 DEF SecondOf

\* While a chain is read, its link is an entry of a table.
LEMMA InChain ==
    ASSUME HddOK, searching = "chain", NEW e, e = entry
    PROVE  /\ records \in Disks /\ entry \in 1..4 /\ primary_lkm \in Nat /\ logical_pnum \in Nat \ 0..3
           /\ Numbered /\ EntriesRead /\ IsRecord(0) /\ hdd_refs = 1
           /\ e \in Heeded /\ TypeAt(e) = "logical" /\ StartAt(e) \in Nat
           /\ Extending(StartAt(e), Recorded(1..(e - 1))) /\ sect \in Nat /\ link \in TableEntry
<1>1. /\ records \in Disks /\ entry \in 1..5 /\ primary_lkm \in Nat /\ logical_pnum \in Nat \ 0..3
      /\ Numbered /\ EntriesRead /\ IsRecord(0) /\ hdd_refs = 1
  BY InTable
<1>2. e \in Heeded /\ TypeAt(e) = "logical" /\ Extending(StartAt(e), Recorded(1..(e - 1)))
  BY DEF HddOK
<1>3. e \in 1..4
  BY <1>2 DEF Heeded
<1>4. StartAt(e) \in Nat
  BY <1>1, <1>3, EntryIs
<1>5. sect \in Nat /\ link \in TableEntry
  <2>1. PICK ext : ext = StartAt(e)
    OBVIOUS
  <2>2. CASE sect = 0 /\ link = Bootrec(0)[entry]
    BY <2>2, <1>1, <1>3, RecordsAre
  <2>3. CASE sect = ext /\ IsRecord(ext) /\ link = Bootrec(ext)[2]
    BY <2>3, <2>1, <1>1, <1>4, RecordsAre
  <2>4. CASE sect \in Nat /\ link \in TableEntry
    BY <2>4
  <2> QED BY <2>1, <2>2, <2>3, <2>4, <1>2 DEF Extending
<1> QED BY <1>1, <1>2, <1>3, <1>4, <1>5

LEMMA ChainGoesOn ==
    ASSUME UNCHANGED <<records, entry, primary_lkm, hdd_refs>>, HddOK, searching \in {"table", "chain"},
           searching' = "chain", logical_pnum' \in Nat \ 0..3, Numbered',
           NEW e, e = entry, e \in Heeded, TypeAt(e) = "logical",
           NEW ext, ext = StartAt(e), NEW told, told = Recorded(1..(e - 1)), Extending(ext, told)'
    PROVE  HddOK'
<1>1. /\ records \in Disks /\ entry \in 1..5 /\ primary_lkm \in Nat /\ EntriesRead /\ hdd_refs = 1
  BY InTable
<1>2. EntriesRead'
  BY <1>1, TablesStay DEF EntriesRead, IsRecord
<1>3. PlacesAreFound' /\ DiskIsClosed'
  BY DEF PlacesAreFound, DiskIsClosed
<1>4. entry' \in Heeded' /\ TypeAt(entry)' = "logical" /\ entry' = e
  BY TablesStay
<1>5. StartAt(e)' = ext /\ Recorded(1..(e - 1))' = told
  BY TablesStay
<1>6. Extending(StartAt(entry), Recorded(1..(entry - 1)))'
  BY <1>4, <1>5
<1> QED BY <1>1, <1>2, <1>3, <1>4, <1>6 DEF HddOK

LEMMA ExtendedOK == ASSUME HddOK, Extended PROVE HddOK'
<1>1. /\ searching = "table" /\ entry \in 1..4 /\ TypeAt(entry) = "logical"
      /\ searching' = "chain" /\ sect' = 0 /\ link' = Bootrec(0)[entry]
      /\ UNCHANGED <<records, entry, primary_lkm, logical_pnum, partitions, hdd_refs, left_out>>
      /\ Tells(Recorded(1..(entry - 1)))
  BY DEF HddOK, Extended, TypeAt
<1>2. /\ entry \in 1..5 /\ logical_pnum \in Nat \ 0..3 /\ Numbered /\ EntriesRead
  BY <1>1, InTable
<1>3. Numbered'
  <2>1. entry' \in entry..5
    BY <1>1
  <2> QED BY <1>1, <1>2, <2>1, NumbersStay
<1>4. PICK e : e = entry
  OBVIOUS
<1>5. e \in Heeded /\ TypeAt(e) = "logical"
  <2>1. e \in 1..4 /\ 1..(e - 1) \subseteq Heeded /\ ~GptEnds(e)
    BY <1>1, <1>2, <1>4 DEF EntriesRead, GptEnds
  <2>2. 1..e \subseteq Heeded
    BY <2>1, HeededIs
  <2> QED BY <2>1, <2>2, <1>1, <1>4
<1>6. PICK told : told = Recorded(1..(e - 1))
  OBVIOUS
<1>7. PICK ext : ext = StartAt(e)
  OBVIOUS
<1>8. Extending(ext, told)'
  <2>1. Tells(told)
    BY <1>1, <1>4, <1>6
  <2>2. Tells(told)'
    BY <2>1, <1>1, TellsStill
  <2>3. link' = Bootrec(0)[e] /\ Bootrec(0)' = Bootrec(0) /\ entry' = e
    BY <1>1, <1>4, TablesStay
  <2>4. link' = Bootrec(0)'[entry']
    BY <2>3
  <2> QED BY <2>2, <2>4, <1>1 DEF Extending
<1> QED BY <1>1, <1>2, <1>3, <1>4, <1>5, <1>6, <1>7, <1>8, ChainGoesOn

\* What a record of the chain adds.
LEMMA ChainFinds ==
    ASSUME HddOK, Chain, NEW s, s = sect + link.start_lba
    PROVE  /\ s \in Nat /\ IsRecord(s) /\ sect' = s /\ link' = Bootrec(s)[2] /\ link' \in TableEntry
           /\ Discovered' = Discovered \cup Listed({s}) /\ Numbered' /\ logical_pnum' \in Nat \ 0..3
<1>1. /\ link.type = "logical" /\ searching = "chain" /\ IsRecord(s) /\ sect' = s /\ link' = Bootrec(s)[2]
      /\ IF Bootrec(s)[1].type = "empty" THEN UNCHANGED <<partitions, left_out, logical_pnum>>
         ELSE Insert(Found(logical_pnum, s, Bootrec(s)[1])) /\ logical_pnum' = logical_pnum + 1
      /\ entry' = entry
  BY DEF Chain, IsRecord
<1>2. /\ records \in Disks /\ entry \in 1..4 /\ logical_pnum \in Nat \ 0..3 /\ Numbered
      /\ sect \in Nat /\ link \in TableEntry
  BY <1>1, InChain
<1>3. s \in Nat
  BY <1>2, EntriesAre
<1>4. Bootrec(s)[1] \in TableEntry /\ Bootrec(s)[2] \in TableEntry
  BY <1>1, <1>2, RecordsAre
<1>5. CASE Bootrec(s)[1].type = "empty"
  <2>1. Discovered' = Discovered /\ Listed({s}) = {}
    BY <1>1, <1>5, DiscoveredStays, ListedIs
  <2>2. entry \in 1..5 /\ entry' \in entry..5
    BY <1>1, <1>2
  <2>3. Numbered'
    BY <1>1, <1>2, <1>5, <2>2, NumbersStay
  <2>4. logical_pnum' \in Nat \ 0..3
    BY <1>1, <1>2, <1>5
  <2>5. Discovered' = Discovered \cup Listed({s})
    BY <2>1
  <2> QED BY <1>1, <1>3, <1>4, <2>3, <2>4, <2>5
<1>6. CASE Bootrec(s)[1].type # "empty"
  <2>1. PICK p : p = Found(logical_pnum, s, Bootrec(s)[1])
    OBVIOUS
  <2>2. Bootrec(s)[1].start_lba \in Nat /\ Bootrec(s)[1].sector_count \in Nat
    BY <1>4, EntriesAre
  <2>3. /\ p \in Partition /\ p.num = logical_pnum /\ p.start = s + Bootrec(s)[1].start_lba
        /\ p.count = Bootrec(s)[1].sector_count
    BY <1>2, <1>3, <2>1, <2>2 DEF Found, Partition
  <2>4. Insert(p) /\ logical_pnum' = logical_pnum + 1
    BY <1>1, <1>6, <2>1
  <2>5. Discovered' = Discovered \cup {<<p.start, p.count>>}
    BY <1>2, <2>3, <2>4, DiscoveredGrows DEF Numbered, Partition
  <2>6. Listed({s}) = {<<p.start, p.count>>}
    BY <1>6, <2>3, ListedIs
  <2>7. entry \in 1..5
    BY <1>2
  <2>8. Numbered'
    BY <1>1, <1>2, <2>3, <2>4, <2>7, NumbersGo
  <2>9. logical_pnum' \in Nat \ 0..3
    BY <1>2, <2>4
  <2>10. Discovered' = Discovered \cup Listed({s})
    BY <2>5, <2>6
  <2> QED BY <1>1, <1>3, <1>4, <2>8, <2>9, <2>10
<1> QED BY <1>5, <1>6

LEMMA ChainOK == ASSUME HddOK, Chain PROVE HddOK'
<1>1. /\ searching = "chain" /\ searching' = "chain" /\ link.type = "logical"
      /\ UNCHANGED <<records, entry, primary_lkm, hdd_refs>>
  BY DEF Chain
<1>2. PICK e : e = entry
  OBVIOUS
<1>3. PICK told : told = Recorded(1..(e - 1))
  OBVIOUS
<1>4. PICK ext : ext = StartAt(e)
  OBVIOUS
<1>5. e \in Heeded /\ TypeAt(e) = "logical" /\ Extending(ext, told) /\ ext \in Nat
  BY <1>1, <1>2, <1>3, <1>4, InChain
<1>6. PICK s : s = sect + link.start_lba
  OBVIOUS
<1>7. /\ s \in Nat /\ IsRecord(s) /\ sect' = s /\ link' = Bootrec(s)[2] /\ link' \in TableEntry
      /\ Discovered' = Discovered \cup Listed({s}) /\ Numbered' /\ logical_pnum' \in Nat \ 0..3
  BY <1>6, ChainFinds
<1>8. IsRecord(s)' /\ Bootrec(s)' = Bootrec(s)
  BY <1>1, <1>7, TablesStay DEF IsRecord
<1>9. Extending(ext, told)'
  <2>1. CASE sect = 0 /\ link = Bootrec(0)[entry] /\ Tells(told)
    <3>1. s = ext
      BY <2>1, <1>2, <1>4, <1>5, <1>6 DEF StartAt
    <3>2. FirstOf(ext) = {s}
      BY <3>1, <1>7, FirstRecord
    <3>3. PICK more : more = Listed(FirstOf(ext))
      OBVIOUS
    <3>4. Tells(told \cup more)'
      BY <3>2, <3>3, <2>1, <1>1, <1>7, TellsMore
    <3>5. FirstOf(ext)' = {s} /\ Listed({s})' = more
      BY <3>2, <3>3, <1>1, TablesStay
    <3>6. Tells(told \cup Listed(FirstOf(ext)))'
      BY <3>4, <3>5
    <3> QED BY <3>1, <3>6, <1>7, <1>8 DEF Extending
  <2>2. CASE sect = ext /\ IsRecord(ext) /\ link = Bootrec(ext)[2] /\ Tells(told \cup Listed(FirstOf(ext)))
    <3>1. Leads(ext) /\ s = ext + Bootrec(ext)[2].start_lba
      BY <2>2, <1>1, <1>6 DEF Leads
    <3>2. SecondOf(ext) = {s}
      BY <3>1, <2>2, <1>7, SecondRecord
    <3>3. Chained(ext) = Listed(FirstOf(ext)) \cup Listed({s})
      BY <3>2, ListedIs DEF Chained
    <3>4. PICK more : more = Listed({s})
      OBVIOUS
    <3>5. PICK before : before = told \cup Listed(FirstOf(ext))
      OBVIOUS
    <3>6. Tells(before \cup more)'
      BY <3>4, <3>5, <2>2, <1>1, <1>7, TellsMore
    <3>7. Chained(ext)' = Chained(ext) /\ told \cup Chained(ext) = before \cup more
      BY <3>3, <3>4, <3>5, <1>1, TablesStay
    <3>8. Tells(told \cup Chained(ext))'
      BY <3>6, <3>7
    <3>9. ChainsAreShort => link'.type # "logical"
      BY <3>2, <1>4, <1>5, <1>7 DEF ChainsAreShort, Leads
    <3> QED BY <3>8, <3>9, <1>1, <1>7, TablesStay DEF Extending
  <2>3. CASE Tells(told \cup Chained(ext)) /\ (ChainsAreShort => link.type # "logical")
    <3>1. ~ChainsAreShort
      BY <2>3, <1>1
    <3>2. ~ChainsAreShort' /\ Chained(ext)' = Chained(ext)
      BY <3>1, <1>1, TablesStay
    <3>3. Tells(told \cup Chained(ext))'
      BY <3>2, <2>3, <1>7 DEF Tells
    <3> QED BY <3>2, <3>3, <1>7 DEF Extending
  <2> QED BY <2>1, <2>2, <2>3, <1>5 DEF Extending
<1> QED BY <1>1, <1>2, <1>3, <1>4, <1>5, <1>7, <1>9, ChainGoesOn

LEMMA ChainEndsOK == ASSUME HddOK, ChainEnds PROVE HddOK'
<1>1. /\ searching = "chain" /\ searching' = "table" /\ entry' = entry + 1
      /\ UNCHANGED <<records, primary_lkm, logical_pnum, partitions, hdd_refs, left_out>>
      /\ link.type # "logical" \/ ~IsRecord(sect + link.start_lba)
  BY DEF ChainEnds, IsRecord
<1>2. PICK e : e = entry
  OBVIOUS
<1>3. PICK told : told = Recorded(1..(e - 1))
  OBVIOUS
<1>4. PICK ext : ext = StartAt(e)
  OBVIOUS
<1>5. /\ records \in Disks /\ entry \in 1..4 /\ primary_lkm \in Nat /\ logical_pnum \in Nat \ 0..3
      /\ Numbered /\ EntriesRead /\ hdd_refs = 1
      /\ e \in Heeded /\ TypeAt(e) = "logical" /\ Extending(ext, told) /\ ext \in Nat
  BY <1>1, <1>2, <1>3, <1>4, InChain
<1>6. Tells(told \cup Chained(ext))
  <2>1. CASE sect = 0 /\ link = Bootrec(0)[entry] /\ Tells(told)
    <3>1. sect + link.start_lba = ext /\ link.type = "logical"
      BY <2>1, <1>2, <1>4, <1>5 DEF StartAt, TypeAt
    <3>2. Chained(ext) = {}
      BY <3>1, <1>1, NoRecord
    <3> QED BY <3>2, <2>1
  <2>2. CASE sect = ext /\ IsRecord(ext) /\ link = Bootrec(ext)[2] /\ Tells(told \cup Listed(FirstOf(ext)))
    <3>1. PICK s : s = ext + Bootrec(ext)[2].start_lba
      OBVIOUS
    <3>2. ~Leads(ext) \/ ~IsRecord(s)
      BY <3>1, <2>2, <1>1 DEF Leads
    <3>3. SecondOf(ext) = {}
      BY <3>1, <3>2, <2>2, SecondRecord
    <3>4. Chained(ext) = Listed(FirstOf(ext))
      BY <3>3 DEF Chained
    <3> QED BY <3>4, <2>2
  <2> QED BY <2>1, <2>2, <1>5 DEF Extending
<1>7. entry' - 1 = e
  BY <1>1, <1>2, <1>5
<1>8. Tells(Recorded(1..(entry - 1)))'
  <2>1. PICK now : now = told \cup Chained(ext)
    OBVIOUS
  <2>2. Tells(now)'
    BY <2>1, <1>1, <1>6, TellsStill
  <2>3. Recorded(1..e)' = now
    BY <2>1, <1>1, <1>3, <1>4, <1>5, RecordedLogical, TablesStay
  <2> QED BY <2>2, <2>3, <1>7
<1>9. EntriesRead'
  <2>1. TypeAt(entry) = "logical" /\ ~GptEnds(entry)
    BY <1>2, <1>5 DEF GptEnds
  <2> QED BY <2>1, <1>1, <1>5, EntryRead
<1>10. Numbered'
  <2>1. entry \in 1..5 /\ entry' \in entry..5
    BY <1>1, <1>5
  <2> QED BY <2>1, <1>1, <1>5, NumbersStay
<1>11. entry' \in 1..5
  BY <1>1, <1>5
<1> QED BY <1>1, <1>5, <1>8, <1>9, <1>10, <1>11, TableGoesOn

LEMMA PartitionStep == HddOK /\ [PartitionNext]_partitionVars => HddOK'
<1> SUFFICES ASSUME HddOK, [PartitionNext]_partitionVars PROVE HddOK'
  OBVIOUS
<1>1. CASE UNCHANGED partitionVars
  <2>1. UNCHANGED <<records, searching, entry, sect, link, primary_lkm, logical_pnum, partitions, hdd_refs, left_out>>
    BY <1>1 DEF partitionVars
  <2>2. /\ Discovered' = Discovered /\ (IsRecord(0)' <=> IsRecord(0))
        /\ Recorded(1..(entry - 1))' = Recorded(1..(entry - 1))
        /\ Recorded(1..4)' = Recorded(1..4) /\ (ChainsAreShort' <=> ChainsAreShort)
    BY <2>1, DiscoveredStays, TablesStay DEF IsRecord
  <2>3. Numbered' <=> Numbered
    BY <2>1 DEF Numbered, NumbersDiffer
  <2>4. EntriesRead' <=> EntriesRead
    BY <2>1, <2>2, TablesStay DEF EntriesRead
  <2>5. Tells(Recorded(1..(entry - 1)))' <=> Tells(Recorded(1..(entry - 1)))
    BY <2>2 DEF Tells
  <2>6. /\ entry' \in Heeded' <=> entry \in Heeded
        /\ TypeAt(entry)' = TypeAt(entry)
    BY <2>1, TablesStay
  <2>7. Extending(StartAt(entry), Recorded(1..(entry - 1)))' <=> Extending(StartAt(entry), Recorded(1..(entry - 1)))
    <3>1. PICK ext, told : ext = StartAt(entry) /\ told = Recorded(1..(entry - 1))
      OBVIOUS
    <3>2. StartAt(entry)' = ext /\ Recorded(1..(entry - 1))' = told
      BY <3>1, <2>1, TablesStay
    <3>3. \A S : Tells(S)' <=> Tells(S)
      BY <2>2 DEF Tells
    <3>4. /\ Bootrec(0)' = Bootrec(0) /\ Bootrec(ext)' = Bootrec(ext) /\ (IsRecord(ext)' <=> IsRecord(ext))
          /\ Listed(FirstOf(ext))' = Listed(FirstOf(ext)) /\ Chained(ext)' = Chained(ext)
      BY <2>1, TablesStay DEF IsRecord
    <3>5. Tells(told)' <=> Tells(told)
      BY <3>3
    <3>6. Tells(told \cup Listed(FirstOf(ext)))' <=> Tells(told \cup Listed(FirstOf(ext)))
      BY <3>3, <3>4
    <3>7. Tells(told \cup Chained(ext))' <=> Tells(told \cup Chained(ext))
      BY <3>3, <3>4
    <3>8. Extending(ext, told)' <=> Extending(ext, told)
      BY <3>4, <3>5, <3>6, <3>7, <2>1, <2>2 DEF Extending
    <3> QED BY <3>1, <3>2, <3>8
  <2>8. (PlacesAreFound' <=> PlacesAreFound) /\ (DiskIsClosed' <=> DiskIsClosed)
    BY <2>1, <2>2 DEF PlacesAreFound, DiskIsClosed
  <2> QED BY <2>1, <2>2, <2>3, <2>4, <2>5, <2>6, <2>7, <2>8 DEF HddOK
<1>2. CASE PartitionNext
  BY <1>2, OpenTableOK, SkipEmptyOK, PrimaryOK, GptOK, ExtendedOK, ChainOK, ChainEndsOK, CloseTableOK
     DEF PartitionNext
<1> QED BY <1>1, <1>2

\* Of the partitions of any disk each that is primary, or one of the first two of its chain, is
\* found at its place, and no other if no chain is longer; their numbers differ; and the disk is
\* closed, unless it has no table.
THEOREM PartitionsFound == PartitionSpec => []PartitionsAreFound
<1>1. HddOK => PartitionsAreFound
  BY DEF HddOK, Numbered, PartitionsAreFound
<1>2. PartitionSpec => []HddOK
  BY PartitionInitOK, PartitionStep, PTL DEF PartitionSpec
<1> QED BY <1>1, <1>2, PTL
=============================================================================
