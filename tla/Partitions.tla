----------------------------- MODULE Partitions -----------------------------
(***************************************************************************)
(* Finding the partitions of a hard disk (src/src/devices/blockdev/hdd.c). *)
(* The first sector's table has four entries; one that is extended is the  *)
(* first of a chain of boot records, with a partition in the first entry   *)
(* and the next of the chain in the second.  A step is an entry of the     *)
(* table or a record of the chain.                                         *)
(***************************************************************************)
EXTENDS Integers, Sequences

CONSTANTS
    Disks       \* disks: from sectors to boot records, <<>> for what is none

TableEntry == [type : {"empty", "primary", "gpt", "logical"}, start_lba : Nat, sector_count : Nat]

ASSUME PartitionAssumption ==
    \A d \in Disks : 0 \in DOMAIN d /\ \A s \in DOMAIN d : d[s] = <<>> \/ d[s] \in [1..4 -> TableEntry]

VARIABLES
    records,        \* the disk
    searching,      \* "open", "table", "chain", "end", or "failed"
    entry,          \* the entry of the first sector's table
    sect, link,     \* the record of the chain that was read last, and its entry for the next
    primary_lkm, logical_pnum,
    partitions,     \* the partitions given to the device manager: number, start and length
    hdd_refs,           \* the open files of the disk
    left_out        \* history: partitions there was no memory for

partitionVars == <<records, searching, entry, sect, link, primary_lkm, logical_pnum, partitions, hdd_refs, left_out>>

NoLink == [type |-> "empty", start_lba |-> 0, sector_count |-> 0]

\* blockdev_fread() of the record at a sector, with the test of its mark.
Bootrec(s) == IF s \in DOMAIN records THEN records[s] ELSE <<>>

\* Mutant: the start of a logical partition is that of its table entry.
FoundUnmoved(num, base, e) == [num |-> num, start |-> e.start_lba, count |-> e.sector_count]

\* hdd_partition_found(), which gives up if there is no memory.
Found(num, base, e) == [num |-> num, start |-> base + e.start_lba, count |-> e.sector_count]

Insert(p) ==
    \/ partitions' = Append(partitions, p) /\ UNCHANGED left_out
    \/ left_out' = left_out \cup {p} /\ UNCHANGED partitions

-----------------------------------------------------------------------------
\* The beginning of hdd_read_partitions(), which gives up if the disk cannot be opened.  The
\* file is left open if the disk has no table.
OpenTable ==
    /\ searching = "open"
    /\ \/ hdd_refs' = 1 /\ searching' = IF Bootrec(0) = <<>> THEN "end" ELSE "table"
       \/ searching' = "failed" /\ UNCHANGED hdd_refs
    /\ UNCHANGED <<records, entry, sect, link, primary_lkm, logical_pnum, partitions, left_out>>

NextEntry == entry' = entry + 1 /\ UNCHANGED <<records, sect, link, hdd_refs>>

SkipEmpty ==
    /\ searching = "table" /\ entry <= 4 /\ Bootrec(0)[entry].type = "empty"
    /\ NextEntry /\ UNCHANGED <<searching, primary_lkm, logical_pnum, partitions, left_out>>

\* The primary partitions have the numbers from 0 to 3.
Primary ==
    /\ searching = "table" /\ entry <= 4 /\ Bootrec(0)[entry].type = "primary"
    /\ Insert(Found(entry - 1, 0, Bootrec(0)[entry]))
    /\ primary_lkm' = primary_lkm + 1
    /\ NextEntry /\ UNCHANGED <<searching, logical_pnum>>

\* A GUID table cannot be read; as the first entry it ends the search.
Gpt ==
    /\ searching = "table" /\ entry <= 4 /\ Bootrec(0)[entry].type = "gpt"
    /\ entry' = IF primary_lkm = 0 THEN 5 ELSE entry + 1
    /\ UNCHANGED <<records, searching, sect, link, primary_lkm, logical_pnum, partitions, hdd_refs, left_out>>

Extended ==
    /\ searching = "table" /\ entry <= 4 /\ Bootrec(0)[entry].type = "logical"
    /\ searching' = "chain" /\ sect' = 0 /\ link' = Bootrec(0)[entry]
    /\ UNCHANGED <<records, entry, primary_lkm, logical_pnum, partitions, hdd_refs, left_out>>

\* A round of hdd_read_logicals(): each link is added to where the one before led.
Chain ==
    LET next == sect + link.start_lba
        rec == Bootrec(next)
    IN /\ searching = "chain" /\ link.type = "logical" /\ rec # <<>>
       /\ sect' = next /\ link' = rec[2]
       /\ IF rec[1].type = "empty" THEN UNCHANGED <<partitions, left_out, logical_pnum>>
          ELSE Insert(Found(logical_pnum, next, rec[1])) /\ logical_pnum' = logical_pnum + 1
       /\ UNCHANGED <<records, searching, entry, primary_lkm, hdd_refs>>

\* The chain ends, or leads to what is no boot record.
ChainEnds ==
    /\ searching = "chain" /\ (link.type # "logical" \/ Bootrec(sect + link.start_lba) = <<>>)
    /\ searching' = "table" /\ entry' = entry + 1
    /\ UNCHANGED <<records, sect, link, primary_lkm, logical_pnum, partitions, hdd_refs, left_out>>

CloseTable ==
    /\ searching = "table" /\ entry > 4
    /\ searching' = "end" /\ hdd_refs' = 0
    /\ UNCHANGED <<records, entry, sect, link, primary_lkm, logical_pnum, partitions, left_out>>

PartitionInit ==
    /\ records \in Disks /\ searching = "open" /\ entry = 1 /\ sect = 0 /\ link = NoLink
    /\ primary_lkm = 0 /\ logical_pnum = 4 /\ partitions = <<>> /\ hdd_refs = 0 /\ left_out = {}

PartitionNext == OpenTable \/ SkipEmpty \/ Primary \/ Gpt \/ Extended \/ Chain \/ ChainEnds \/ CloseTable

PartitionSpec == PartitionInit /\ [][PartitionNext]_partitionVars

-----------------------------------------------------------------------------
(* Properties *)

\* What the tables say: each link of a chain counts from the extended partition's start.
IsRecord(s) == Bootrec(s) # <<>>
Leads(s)    == Bootrec(s)[2].type = "logical"
FirstOf(ext)  == {s \in {ext} : IsRecord(s)}
SecondOf(ext) == {s \in {ext + Bootrec(r)[2].start_lba : r \in {q \in FirstOf(ext) : Leads(q)}} : IsRecord(s)}

Listed(rs) ==
    {<<s + Bootrec(s)[1].start_lba, Bootrec(s)[1].sector_count>> : s \in {r \in rs : Bootrec(r)[1].type # "empty"}}
Chained(ext) == Listed(FirstOf(ext) \cup SecondOf(ext))

TypeAt(k)  == Bootrec(0)[k].type
StartAt(k) == Bootrec(0)[k].start_lba
GptEnds(j) == TypeAt(j) = "gpt" /\ \A l \in 1..j : TypeAt(l) # "primary"
Heeded     == {k \in 1..4 : \A j \in 1..k : ~GptEnds(j)}

\* What the entries in ks say, and that no chain of the disk has a third record.
Recorded(ks) ==
    {<<StartAt(k), Bootrec(0)[k].sector_count>> : k \in {l \in Heeded \cap ks : TypeAt(l) = "primary"}}
    \cup UNION {Chained(StartAt(k)) : k \in {l \in Heeded \cap ks : TypeAt(l) = "logical"}}
ChainsAreShort == \A k \in Heeded : TypeAt(k) = "logical" => \A s \in SecondOf(StartAt(k)) : ~Leads(s)

Extents(ps) == {<<p.start, p.count>> : p \in ps}

\* The partitions that were found, those as well that there was no memory for.
Discovered == Extents({partitions[k] : k \in DOMAIN partitions} \cup left_out)

\* Of the partitions of a disk each that is primary, or one of the first two of its chain, is found
\* where the tables say it is; no other is, if no chain is longer; and no two have one number.
PlacesAreFound ==
    searching = "end" /\ IsRecord(0) =>
        Recorded(1..4) \subseteq Discovered /\ (ChainsAreShort => Discovered = Recorded(1..4))
NumbersDiffer == \A j, k \in DOMAIN partitions : partitions[j].num = partitions[k].num => j = k

\* The disk is closed again, but for one that has no table.
DiskIsClosed == searching = "end" => (hdd_refs = 0 <=> IsRecord(0))

\* The partitions of a disk are found where its tables say they are.
PartitionsAreFound == PlacesAreFound /\ NumbersDiffer /\ DiskIsClosed
=============================================================================
