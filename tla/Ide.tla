-------------------------------- MODULE Ide --------------------------------
(***************************************************************************)
(* The IDE controllers (src/src/devices/blockdev/ide.c): hard disks, which *)
(* move sectors one by one, and CD-ROM drives, which take packets and move *)
(* as much as they like at a time.  The two drives of a controller share   *)
(* its registers, and nothing is locked, so threads that use them at the   *)
(* same time disturb each other.  A command names the drive and the sector *)
(* that the registers hold when it is given.                               *)
(***************************************************************************)
EXTENDS Integers, Sequences, FiniteSetsExt

CONSTANTS
    IdeThread,
    Kind,           \* what answers at each drive <<controller, unit>>: "ata", "atapi", "odd", "none"
    DriveSize,      \* the sectors of each drive
    Chunk,          \* 0xff, the most sectors of a command
    SectorBytes,    \* ATA_BYTES_PER_SECTOR
    SectorWords,    \* ATAPI_BYTES_PER_SECTOR / 2
    MaxCount,       \* the most sectors a call asks for
    MaxCalls        \* bound: the calls of all threads

\* Of a CD-ROM drive nobody asks for 1024 * 1024 sectors at a time, which would need a buffer
\* of 2 GiB.
ASSUME IdeAssumption ==
    /\ {Chunk, SectorBytes, SectorWords, MaxCount, MaxCalls} \subseteq Nat \ {0}
    /\ \A d \in DOMAIN Kind : d = <<d[1], d[2]>> /\ d[2] \in Nat /\ DriveSize[d] \in Nat \ {0}
    /\ MaxCount < SectorWords * SectorWords

Drive == DOMAIN Kind
Controller == {d[1] : d \in Drive}
Garbage == <<"garbage">>
New == <<"new">>                \* what a call writes
Old(d, s) == <<d, s>>           \* what a sector holds at first

VARIABLES
    ide_devices,    \* what is known of each drive
    unprobed,       \* the drives that ide_probe() has not come to
    active,         \* the registers of each controller, which its drives count on
    media,          \* external: the sectors of each drive
    locked,         \* external: whether the tray of a drive is locked
    call,           \* the call of each thread
    calls,          \* how many calls have been made
    looked,         \* the drive the polling thread is about to unlock
    raced           \* history: the drives that were unlocked while they were opened

ideVars == <<ide_devices, unprobed, active, media, locked, call, calls, looked, raced>>

Known(type, blocks) == [type |-> type, block_count |-> blocks, media_available |-> FALSE, refs |-> 0]
Unknown == Known("error", 0)
NoCommand == [unit |-> 0, writes |-> FALSE, at |-> 0, left |-> 0]
Idle == [pc |-> "idle"]

ControllerOf(t) == call[t].drive[1]
Uses(t, c) == call[t] # Idle /\ ControllerOf(t) = c
Opening(t, d) == call[t].pc = "refs" /\ call[t].drive = d

\* Others of the controller's users are in the middle of a call.
Crowded(t, c) == (\E d \in looked : d[1] = c) \/ \E u \in IdeThread \ {t} : Uses(u, c)

-----------------------------------------------------------------------------
(* Finding the drives *)

\* ide_identify_device() for the drives in turn.  A drive that does not answer, or whose
\* signature is not known, is not given to the device manager.  A CD-ROM's size is not known
\* before it is opened.
Identify ==
    /\ unprobed # {}
    /\ LET d == CHOOSE e \in unprobed : \A f \in unprobed : e[1] < f[1] \/ (e[1] = f[1] /\ e[2] <= f[2])
       IN /\ ide_devices' = [ide_devices EXCEPT ![d] =
                CASE Kind[d] = "ata" -> Known("harddisk", DriveSize[d])
                  [] Kind[d] = "atapi" -> Known("cdrom", 0)
                  [] OTHER -> Unknown]
          /\ unprobed' = unprobed \ {d}
    /\ UNCHANGED <<active, media, locked, call, calls, looked, raced>>

-----------------------------------------------------------------------------
(* Hard disks *)

\* ata_read() and ata_write(); a call of one sector is ata_read_one_sector() and its like.
\* Block devices ask only for what the disk has.
AtaRw(t) ==
    /\ unprobed = {} /\ call[t] = Idle /\ calls < MaxCalls
    /\ \E d \in Drive, n \in 1..MaxCount, w \in BOOLEAN : \E s \in 0..DriveSize[d] - 1 :
          /\ ide_devices[d].type = "harddisk" /\ s + n <= DriveSize[d]
          /\ call' = [call EXCEPT ![t] =
                [pc |-> "command", drive |-> d, sector |-> s, count |-> n, writes |-> w, asked |-> <<s, n>>,
                 i |-> 0, buf |-> <<>>, retval |-> 0, sound |-> ~Crowded(t, d[1])]]
    /\ calls' = calls + 1
    /\ UNCHANGED <<ide_devices, unprobed, active, media, locked, looked, raced>>

\* Whoever is in the middle of a call when another begins on the controller is disturbed.
Disturb(t, c) ==
    [u \in IdeThread |-> IF u # t /\ Uses(u, c) THEN [call[u] EXCEPT !.sound = FALSE] ELSE call[u]]

\* Mutant: the unit is left as it was.
SameUnit(r, unit, sector, count, writes) == [r EXCEPT !.at = sector, !.left = count, !.writes = writes]

\* setup_LBA() and the command, for the registers r.
setup_LBA(r, unit, sector, count, writes) == [unit |-> unit, at |-> sector, left |-> count, writes |-> writes]

\* The beginning of ata_rw_some(): the registers, and the command for at most Chunk sectors.
Command(t) ==
    LET m == call[t]
        c == ControllerOf(t)
    IN /\ m.pc = "command"
       /\ active' = [active EXCEPT ![c] = setup_LBA(@, m.drive[2], m.sector, Min({m.count, Chunk}), m.writes)]
       /\ call' = [Disturb(t, c) EXCEPT ![t].pc = "transfer", ![t].i = 0, ![t].sound = @ /\ ~Crowded(t, c)]
       /\ UNCHANGED <<ide_devices, unprobed, media, locked, calls, looked, raced>>

\* Whether a drive of the controller offers, or takes, a sector.
Ready(t) ==
    LET a == active[ControllerOf(t)]
        d == <<ControllerOf(t), a.unit>>
    IN a.left > 0 /\ a.writes = call[t].writes /\ d \in Drive /\ Kind[d] = "ata" /\ a.at < DriveSize[d]

\* A sector has been moved, or the wait for it has timed out: ide_wait() returns 0 all the
\* same.  After Chunk sectors the next command begins, at a sector that is as many bytes on.
Counted(m) ==
    LET last == m.i + 1 = Min({m.count, Chunk})
        more == m.count > Chunk
    IN [m EXCEPT
        !.retval = @ + 1,
        !.i = @ + 1,
        !.pc = CASE ~last -> "transfer" [] last /\ more -> "command" [] OTHER -> "return",
        !.sector = IF last /\ more THEN @ + Chunk * SectorBytes ELSE @,
        !.count = IF last /\ more THEN @ - Chunk ELSE @]

\* A round of the loop of ata_rw_some().
MoveSector(t) ==
    LET m == call[t]
        c == ControllerOf(t)
        a == active[c]
        d == <<c, a.unit>>
    IN /\ m.pc = "transfer" /\ ide_devices[m.drive].type = "harddisk" /\ Ready(t)
       /\ active' = [active EXCEPT ![c].at = @ + 1, ![c].left = @ - 1]
       /\ media' = IF m.writes THEN [media EXCEPT ![d][a.at] = New] ELSE media
       /\ call' = [call EXCEPT ![t] =
            [Counted(m) EXCEPT !.buf = IF m.writes THEN @ ELSE Append(@, media[d][a.at])]]
       /\ UNCHANGED <<ide_devices, unprobed, locked, calls, looked, raced>>

\* The drive is late, or has nothing to move.
TimeOut(t) ==
    LET m == call[t]
    IN /\ m.pc = "transfer" /\ ide_devices[m.drive].type = "harddisk"
       /\ call' = [call EXCEPT ![t] =
            [Counted(m) EXCEPT !.buf = IF m.writes THEN @ ELSE Append(@, Garbage), !.sound = FALSE]]
       /\ UNCHANGED <<ide_devices, unprobed, active, media, locked, calls, looked, raced>>

EndRw(t) ==
    /\ call[t].pc = "return"
    /\ call' = [call EXCEPT ![t] = Idle]
    /\ UNCHANGED <<ide_devices, unprobed, active, media, locked, calls, looked, raced>>

-----------------------------------------------------------------------------
(* CD-ROM drives *)

\* blockdev_fopen() of a CD-ROM drive with atapi_refresh(): the disc's size is read, if there is
\* a disc, and the tray is locked; the reference is counted afterwards.
Refresh(t) ==
    /\ unprobed = {} /\ call[t] = Idle /\ calls < MaxCalls
    /\ \E d \in Drive :
          /\ ide_devices[d].type = "cdrom"
          /\ \/ /\ ide_devices' = [ide_devices EXCEPT ![d].block_count = DriveSize[d], ![d].media_available = TRUE]
                /\ locked' = locked \cup {d}
                /\ call' = [Disturb(t, d[1]) EXCEPT ![t] = [pc |-> "refs", drive |-> d, sound |-> ~Crowded(t, d[1])]]
             \/ /\ ide_devices' = [ide_devices EXCEPT ![d].block_count = 0, ![d].media_available = FALSE]
                /\ d \notin locked
                /\ call' = Disturb(t, d[1])
                /\ UNCHANGED locked
    /\ calls' = calls + 1
    /\ UNCHANGED <<unprobed, active, media, looked, raced>>

Opened(t) ==
    /\ call[t].pc = "refs"
    /\ ide_devices' = [ide_devices EXCEPT ![call[t].drive].refs = @ + 1]
    /\ call' = [call EXCEPT ![t] = Idle]
    /\ UNCHANGED <<unprobed, active, media, locked, calls, looked, raced>>

Close(t) ==
    /\ call[t] = Idle
    /\ \E d \in Drive :
          /\ ide_devices[d].type = "cdrom"
          /\ ide_devices[d].refs > Cardinality({u \in IdeThread : call[u] # Idle /\ call[u].drive = d})
          /\ ide_devices' = [ide_devices EXCEPT ![d].refs = @ - 1]
    /\ UNCHANGED <<unprobed, active, media, locked, call, calls, looked, raced>>

\* atapi_read(): the packet, with the sector and the count in it.
AtapiRead(t) ==
    /\ call[t] = Idle /\ calls < MaxCalls
    /\ \E d \in Drive, n \in 1..MaxCount : \E s \in 0..DriveSize[d] - 1 :
          /\ ide_devices[d].type = "cdrom" /\ ide_devices[d].refs > 0 /\ s + n <= DriveSize[d]
          /\ active' = [active EXCEPT ![d[1]] = [unit |-> d[2], writes |-> FALSE, at |-> s, left |-> n]]
          /\ call' = [Disturb(t, d[1]) EXCEPT ![t] =
                [pc |-> "parts", drive |-> d, sector |-> s, count |-> n, writes |-> FALSE, asked |-> <<s, n>>,
                 i |-> 0, buf |-> <<>>, retval |-> 0, sound |-> ~Crowded(t, d[1])]]
    /\ calls' = calls + 1
    /\ UNCHANGED <<ide_devices, unprobed, media, locked, looked, raced>>

\* A part as large as the drive likes, of whole sectors here.
TakePart(t) ==
    LET m == call[t]
        c == ControllerOf(t)
        a == active[c]
        d == <<c, a.unit>>
    IN /\ m.pc = "parts" /\ a.left > 0 /\ d \in Drive
       /\ \E k \in 1..a.left :
             /\ a.at + k <= DriveSize[d]
             /\ active' = [active EXCEPT ![c].at = @ + k, ![c].left = @ - k]
             /\ call' = [call EXCEPT ![t].buf = @ \o [j \in 1..k |-> media[d][a.at + j - 1]]]
       /\ UNCHANGED <<ide_devices, unprobed, media, locked, calls, looked, raced>>

\* ATAPI_CONV_WORDS_TO_SECTORS() shifts to the left where it ought to shift to the right.
WordsToSectors(sectors) == sectors * SectorWords * SectorWords

\* The drive is done, whether it has moved everything or not, or it gives up.
PartsEnd(t) ==
    LET m == call[t]
    IN /\ m.pc = "parts"
       /\ \E done \in BOOLEAN :
             call' = [call EXCEPT ![t].pc = "return",
                ![t].retval = IF done /\ Len(m.buf) >= m.count THEN m.count ELSE WordsToSectors(Len(m.buf))]
       /\ active' = [active EXCEPT ![ControllerOf(t)] = NoCommand]
       /\ UNCHANGED <<ide_devices, unprobed, media, locked, calls, looked, raced>>

\* ide_polling(): the tray of a CD-ROM drive that nobody uses is unlocked, by a packet
\* that is sent after the test.
Look ==
    /\ looked = {}
    /\ \E d \in Drive :
          /\ ide_devices[d].type = "cdrom" /\ ide_devices[d].refs = 0 /\ ide_devices[d].media_available
          /\ looked' = {d}
          /\ call' = [t \in IdeThread |-> IF Uses(t, d[1]) THEN [call[t] EXCEPT !.sound = FALSE] ELSE call[t]]
    /\ UNCHANGED <<ide_devices, unprobed, active, media, locked, calls, raced>>

Unlock ==
    /\ looked # {}
    /\ LET d == CHOOSE e \in looked : TRUE
       IN /\ locked' = locked \ {d}
          /\ ide_devices' = [ide_devices EXCEPT ![d].media_available = FALSE]
          /\ active' = [active EXCEPT ![d[1]] = [NoCommand EXCEPT !.unit = d[2]]]
          /\ raced' = IF ide_devices[d].refs > 0 \/ \E t \in IdeThread : Opening(t, d) THEN raced \cup {d} ELSE raced
    /\ looked' = {}
    /\ UNCHANGED <<unprobed, media, call, calls>>

-----------------------------------------------------------------------------
IdeInit ==
    /\ ide_devices = [d \in Drive |-> Unknown] /\ unprobed = Drive
    /\ active = [c \in Controller |-> NoCommand]
    /\ media = [d \in Drive |-> [s \in 0..DriveSize[d] - 1 |-> Old(d, s)]]
    /\ locked = {} /\ looked = {} /\ raced = {}
    /\ call = [t \in IdeThread |-> Idle] /\ calls = 0

IdeNext ==
    \/ Identify \/ Look \/ Unlock
    \/ \E t \in IdeThread :
          \/ AtaRw(t) \/ Command(t) \/ MoveSector(t) \/ TimeOut(t) \/ EndRw(t)
          \/ Refresh(t) \/ Opened(t) \/ Close(t) \/ AtapiRead(t) \/ TakePart(t) \/ PartsEnd(t)

IdeSpec == IdeInit /\ [][IdeNext]_ideVars

-----------------------------------------------------------------------------
(* Properties *)

Device == [type : {"error", "harddisk", "cdrom"}, block_count : Nat, media_available : BOOLEAN, refs : Int]
Registers == [unit : Nat, writes : BOOLEAN, at : Nat, left : Nat]
Content == {Garbage, New} \cup (Drive \X Nat)

\* A call to a hard disk, to a CD-ROM drive, and the opening of one.
AtaCall ==
    [pc : {"command", "transfer", "return"}, drive : {d \in Drive : Kind[d] = "ata"}, sector : Nat, count : Nat \ {0},
     writes : BOOLEAN, asked : Nat \X (1..MaxCount), i : Nat, buf : Seq(Content), retval : Nat, sound : BOOLEAN]
AtapiCall ==
    [pc : {"parts", "return"}, drive : {d \in Drive : Kind[d] = "atapi"}, sector : Nat, count : 1..MaxCount,
     writes : {FALSE}, asked : Nat \X (1..MaxCount), i : {0}, buf : Seq(Content), retval : Nat, sound : BOOLEAN]
OpenCall == [pc : {"refs"}, drive : Drive, sound : BOOLEAN]

IdeTypeOK ==
    /\ ide_devices \in [Drive -> Device] /\ unprobed \subseteq Drive
    /\ \A d \in Drive : /\ ide_devices[d].type = "harddisk" => Kind[d] = "ata"
                        /\ ide_devices[d].type = "cdrom" => Kind[d] = "atapi"
    /\ active \in [Controller -> Registers]
    /\ media = [d \in Drive |-> media[d]] /\ \A d \in Drive : media[d] \in [0..DriveSize[d] - 1 -> Content]
    /\ locked \subseteq Drive /\ looked \subseteq Drive /\ raced \subseteq Drive
    /\ call \in [IdeThread -> {Idle} \cup AtaCall \cup AtapiCall \cup OpenCall] /\ calls \in 0..MaxCalls

\* How many sectors of a finished call are sure to be right: those of the first command of a
\* hard disk, and what a CD-ROM drive is said to have moved if that is not more than asked for.
Sure(m) ==
    CASE Kind[m.drive] = "ata" -> Min({m.asked[2], Chunk})
      [] OTHER -> IF m.retval <= m.asked[2] THEN m.retval ELSE 0

\* When a call ends that nobody disturbed and for which the drive was not late, the sectors that
\* the caller named are in its buffer, or on the drive, whatever is done at the other controller.
SectorsAreMoved ==
    \A t \in IdeThread :
        LET m == call[t] IN m.pc = "return" /\ m.sound =>
            \A k \in 0..Sure(m) - 1 :
                LET sector == media[m.drive][m.asked[1] + k]
                IN IF m.writes THEN sector = New ELSE m.buf[k + 1] = sector

\* The disc that is open cannot be taken out of the drive, unless the polling thread had just
\* seen that it was not open.
OpenIsLocked == \A d \in Drive : ide_devices[d].refs > 0 /\ d \notin raced => d \in locked

\* What an undisturbed call to a hard disk or CD-ROM drive moves are the sectors it names, and
\* a disc that is open is locked in its drive.
DrivesServe == SectorsAreMoved /\ OpenIsLocked
=============================================================================
