----------------------------- MODULE MCDevices -----------------------------
(***************************************************************************)
(* The models below the file systems.  A behaviour is one of the system    *)
(* that "subject" names, and in it the variables of the others do not      *)
(* change:                                                                 *)
(*   "timers"    Timers, the two floppy drives with a timer at a time;     *)
(*   "clock"     Clock, every date of some years around leap days;         *)
(*   "blockdev"  BlockDev, three blocks of two bytes: a request of four    *)
(*               bytes inside a block has a beginning, a block and an end; *)
(*   "ide"       Ide, two threads in three calls, on two hard disks of one *)
(*               controller and one that shares the other with a CD-ROM    *)
(*               drive; three sectors are more than a command moves;       *)
(*   "hdd"       Partitions, with a primary partition, chains of up to     *)
(*               three records, GUID tables and records that are none;     *)
(*   "floppy"    Floppy, two threads in two calls on a disk of two         *)
(*               cylinders.                                                *)
(***************************************************************************)
EXTENDS Timers, Clock, BlockDev, Floppy, Ide, Partitions, TLC

VARIABLES
    subject

\* The threads of Timers, Ide and Floppy are the same.
Symmetry == Permutations(Caller)

MonthDays == <<31, 29, 31, 30, 31, 30, 31, 31, 30, 31, 30, 31>>
IsDate(d) == d[3] <= MonthDays[d[2] + 1] /\ (d[2] = 1 /\ d[3] = 29 => d[1] \in {100, 104})
EachDate  == {d \in {100, 101, 103, 104, 199} \X (0..11) \X (1..31) : IsDate(d)}
LeapDay   == <<104, 1, 29>>

Kinds == (<<1, 0>> :> "ata") @@ (<<1, 1>> :> "atapi") @@ (<<2, 0>> :> "ata") @@ (<<2, 1>> :> "ata")
Sizes == (<<1, 0>> :> 3) @@ (<<1, 1>> :> 2) @@ (<<2, 0>> :> 1) @@ (<<2, 1>> :> 1)

Entry(type, start) == [type |-> type, start_lba |-> start, sector_count |-> 1]
Record(first, second) == <<first, second, NoLink, NoLink>>
\* A chain at sector 4 whose second record is at 6 and whose third is at 8, but looked for at 10.
Records(next) ==
    {<<>>} \cup {Record(p, l) : p \in {NoLink, Entry("primary", 1)}, l \in {NoLink, Entry("logical", next)}}
Tables ==
    {<<>>} \cup {<<a, b, c, NoLink>> : a \in {NoLink, Entry("primary", 1), Entry("gpt", 1)},
                                     b \in {NoLink, Entry("logical", 4)},
                                     c \in {NoLink, Entry("primary", 2), Entry("gpt", 1), Entry("logical", 12)}}
Single == Record(Entry("primary", 1), NoLink)
EachDisk ==
    {(0 :> t) @@ (4 :> first) @@ (6 :> second) @@ (8 :> Single) @@ (10 :> wrong) @@ (12 :> other) :
        t \in Tables, first \in Records(2), second \in Records(4), wrong \in {<<>>, Single}, other \in {<<>>, Single}}
Blank == [s \in {0, 4, 6, 8, 10, 12} |-> IF s = 8 THEN Single ELSE <<>>]

ASSUME ClockAssumption

\* The dates move on at the first midnight.  One of them, the leap day of 2004, is followed
\* for a day more.
FewSeconds == sec <= 3 \/ (tm_year = 104 /\ tm_mon = 2 /\ tm_mday <= 1)

MCInit ==
    /\ subject \in {"timers", "clock", "blockdev", "ide", "hdd", "floppy"}
    /\ TimerInit /\ ClockInit /\ (subject = "clock" \/ <<tm_year, tm_mon, tm_mday>> = LeapDay)
    /\ records \in (IF subject = "hdd" THEN EachDisk ELSE {Blank}) /\ PartitionInit
    /\ Init /\ IdeInit /\ FloppyInit

MCNext ==
    \/ subject = "timers" /\ QuietTimerNext /\ UNCHANGED <<subject, clockVars, vars, ideVars, partitionVars, floppyVars>>
    \/ subject = "clock" /\ TimerHandler /\ UNCHANGED <<subject, timerVars, vars, ideVars, partitionVars, floppyVars>>
    \/ subject = "blockdev" /\ QuietNext /\ UNCHANGED <<subject, clockVars, timerVars, ideVars, partitionVars, floppyVars>>
    \/ subject = "ide" /\ IdeNext /\ UNCHANGED <<subject, clockVars, timerVars, vars, partitionVars, floppyVars>>
    \/ subject = "hdd" /\ PartitionNext /\ UNCHANGED <<subject, clockVars, timerVars, vars, ideVars, floppyVars>>
    \/ subject = "floppy" /\ FloppyNext /\ UNCHANGED <<subject, clockVars, timerVars, vars, ideVars, partitionVars>>

MCSpec == MCInit /\ [][MCNext]_<<subject, clockVars, timerVars, vars, ideVars, partitionVars, floppyVars>>
=============================================================================
