------------------------------- MODULE Floppy -------------------------------
(***************************************************************************)
(* The floppy drives (src/src/devices/blockdev/floppy.c): one controller,  *)
(* one buffer and one DMA channel for both, which nothing locks.  A motor  *)
(* is turned on for a request and turned off by a timer some time after    *)
(* it.  What the controller says of a transfer is not looked at.           *)
(***************************************************************************)
EXTENDS Integers

CONSTANTS
    FloppyThread,
    MAX_DRIVES,
    Supported,              \* the drives of type 4, which the device manager is given
    sectors_per_track, Cylinders,
    MaxRequests             \* bound: the calls of all threads

ASSUME FloppyAssumption ==
    /\ {MAX_DRIVES, sectors_per_track, Cylinders} \subseteq Nat \ {0}
    /\ MaxRequests \in Nat /\ Supported \subseteq 0..MAX_DRIVES - 1

FloppyDrive == 0..MAX_DRIVES - 1
FloppyBlock == 0..2 * Cylinders * sectors_per_track - 1
Unwritten == -1             \* what a place holds that was not written

VARIABLES
    motor, track,           \* .motor and .track of the drives
    motor_off_timer,        \* whether a drive's timer has been started: "none", "fresh", or "old" when it is due
    floppy_drive_seeked,
    floppy_buffer,
    changed,                \* external: the line that tells that a disk was changed
    inside,                 \* external: whether there is a disk
    head,                   \* external: the cylinder a drive's heads are at
    floppy,                 \* external: the blocks on each drive's disk, by cylinder, head and sector
    floppy_call,            \* the call of each thread
    floppy_calls,
    mixed                   \* history: two calls were made at the same time

drives     == <<motor, track, motor_off_timer, floppy_drive_seeked>>
world      == <<changed, inside, head>>
floppyVars == <<drives, floppy_buffer, world, floppy, floppy_call, floppy_calls, mixed>>

NoRequest == [pc |-> "idle"]
Busy(t) == floppy_call[t] # NoRequest
Step(t, pc) == floppy_call' = [floppy_call EXCEPT ![t].pc = pc]

\* Mutant: both sides of a cylinder are read from one.
OneSided(num) == <<num \div (sectors_per_track * 2), 0, (num % sectors_per_track) + 1>>

\* Where floppy_read_one_block() and floppy_write_one_block() look for a block.
Place(num) ==
    <<num \div (sectors_per_track * 2), (num \div sectors_per_track) % 2, (num % sectors_per_track) + 1>>

Positions == (0..Cylinders - 1) \X {0, 1} \X (1..sectors_per_track)
BlankFloppy == [p \in Positions |-> Unwritten]

-----------------------------------------------------------------------------
\* A write copies the block to the buffer all drives share.
Begin(t) ==
    /\ ~Busy(t) /\ floppy_calls < MaxRequests
    /\ \E d \in Supported, num \in FloppyBlock, write \in BOOLEAN :
          /\ floppy_call' = [floppy_call EXCEPT ![t] =
                [pc |-> "test", drive |-> d, num |-> num, write |-> write, tries |-> 0, sound |-> TRUE]]
          /\ floppy_buffer' = IF write THEN num ELSE floppy_buffer
    /\ mixed' = (mixed \/ \E u \in FloppyThread : Busy(u))
    /\ floppy_calls' = floppy_calls + 1
    /\ UNCHANGED <<drives, world, floppy>>

\* The disk was changed: the heads are moved, so that the line is reset if there is a disk, and
\* the motor is stopped.  The record of the cylinder is that of the seek; the calibration
\* after it, which moves the heads to the first cylinder, is not recorded.
DiskChanged(t) ==
    LET d == floppy_call[t].drive
    IN /\ floppy_call[t].pc = "test" /\ changed[d]
       /\ \E sought \in {1, track[d]} : track' = [track EXCEPT ![d] = sought]
       /\ head' = [head EXCEPT ![d] = 0]
       /\ motor' = [motor EXCEPT ![d] = FALSE]
       /\ motor_off_timer' = IF track[d] = 1 THEN motor_off_timer ELSE [motor_off_timer EXCEPT ![d] = "fresh"]
       /\ floppy_drive_seeked' = IF track[d] = 1 THEN floppy_drive_seeked ELSE d
       /\ changed' = [changed EXCEPT ![d] = ~inside[d]]
       /\ Step(t, IF inside[d] THEN "test" ELSE "failed")
       /\ UNCHANGED <<floppy_buffer, inside, floppy, floppy_calls, mixed>>

DiskKept(t) ==
    /\ floppy_call[t].pc = "test" /\ ~changed[floppy_call[t].drive]
    /\ Step(t, "seek")
    /\ UNCHANGED <<drives, floppy_buffer, world, floppy, floppy_calls, mixed>>

\* floppy_seek_track(), at once if the heads are thought to be there.  A motor that has stopped
\* is started, and its timer is started anew at the end, whether or not the heads came there.
SeekTrack(t) ==
    LET m == floppy_call[t]
        d == m.drive
        cylinder == Place(m.num)[1]
    IN /\ m.pc = "seek"
       /\ IF cylinder = track[d]
          THEN Step(t, "motor") /\ UNCHANGED <<drives, head>>
          ELSE /\ motor' = [motor EXCEPT ![d] = TRUE]
               /\ motor_off_timer' = [motor_off_timer EXCEPT ![d] = "fresh"]
               /\ floppy_drive_seeked' = d
               /\ \/ /\ head' = [head EXCEPT ![d] = cylinder]
                     /\ track' = [track EXCEPT ![d] = cylinder]
                     /\ Step(t, "motor")
                  \/ /\ UNCHANGED <<head, track>>
                     /\ floppy_call' = [floppy_call EXCEPT
                          ![t].tries = @ + 1, ![t].pc = IF m.tries = 2 THEN "failed" ELSE "seek"]
       /\ UNCHANGED <<floppy_buffer, changed, inside, floppy, floppy_calls, mixed>>

\* floppy_motor_on(): a motor that runs is left alone, its timer with it.
MotorOn(d) ==
    IF motor[d] THEN UNCHANGED <<motor, motor_off_timer>>
    ELSE motor' = [motor EXCEPT ![d] = TRUE] /\ motor_off_timer' = [motor_off_timer EXCEPT ![d] = "none"]

SpinUp(t) ==
    /\ floppy_call[t].pc = "motor"
    /\ MotorOn(floppy_call[t].drive)
    /\ Step(t, "move")
    /\ UNCHANGED <<track, floppy_drive_seeked, floppy_buffer, world, floppy, floppy_calls, mixed>>

\* The transfer.  It fails if the motor has stopped or the heads are elsewhere, and it may fail
\* anyway: all of this is reported as a success.
Move(t) ==
    LET m == floppy_call[t]
        d == m.drive
        p == Place(m.num)
    IN /\ m.pc = "move"
       /\ \/ /\ motor[d] /\ head[d] = p[1] /\ inside[d] /\ ~changed[d]
             /\ floppy' = IF m.write THEN [floppy EXCEPT ![d][p] = floppy_buffer] ELSE floppy
             /\ floppy_buffer' = floppy'[d][p]
             /\ Step(t, "moved")
          \/ /\ floppy_call' = [floppy_call EXCEPT ![t].pc = "moved", ![t].sound = FALSE]
             /\ UNCHANGED <<floppy, floppy_buffer>>
       /\ UNCHANGED <<drives, world, floppy_calls, mixed>>

\* floppy_prepare_motor_off(): the drive's timer is stopped and another started.
floppy_prepare_motor_off(timer) == "fresh"

Moved(t) ==
    /\ floppy_call[t].pc = "moved"
    /\ motor_off_timer' = [motor_off_timer EXCEPT ![floppy_call[t].drive] = floppy_prepare_motor_off(@)]
    /\ Step(t, "return")
    /\ UNCHANGED <<motor, track, floppy_drive_seeked, floppy_buffer, world, floppy, floppy_calls, mixed>>

\* A read copies the block from the buffer; a request that failed has returned an error.
Answer(t) ==
    /\ floppy_call[t].pc \in {"return", "failed"}
    /\ floppy_call' = [floppy_call EXCEPT ![t] = NoRequest]
    /\ UNCHANGED <<drives, floppy_buffer, world, floppy, floppy_calls, mixed>>

-----------------------------------------------------------------------------
\* Time passes between calls: no call takes as long as a timer.
Age ==
    /\ \A t \in FloppyThread : ~Busy(t)
    /\ \E d \in FloppyDrive : motor_off_timer[d] = "fresh" /\ motor_off_timer' = [motor_off_timer EXCEPT ![d] = "old"]
    /\ UNCHANGED <<motor, track, floppy_drive_seeked, floppy_buffer, world, floppy, floppy_call, floppy_calls, mixed>>

\* floppy_motor_off(), called by a timer.
StopMotor ==
    /\ \E d \in FloppyDrive :
          /\ motor_off_timer[d] = "old"
          /\ motor_off_timer' = [motor_off_timer EXCEPT ![d] = "none"]
          /\ motor' = [motor EXCEPT ![d] = FALSE]
    /\ UNCHANGED <<track, floppy_drive_seeked, floppy_buffer, world, floppy, floppy_call, floppy_calls, mixed>>

\* External: a disk is put in, or taken out.
Swap ==
    /\ \A t \in FloppyThread : ~Busy(t)
    /\ \E d \in Supported :
          /\ inside' = [inside EXCEPT ![d] = ~@]
          /\ floppy' = [floppy EXCEPT ![d] = BlankFloppy]
          /\ changed' = [changed EXCEPT ![d] = TRUE]
    /\ UNCHANGED <<drives, floppy_buffer, head, floppy_call, floppy_calls, mixed>>

\* What floppy_init() and floppy_reset() leave.
FloppyInit ==
    /\ motor = [d \in FloppyDrive |-> FALSE] /\ track = [d \in FloppyDrive |-> 0]
    /\ motor_off_timer = [d \in FloppyDrive |-> "none"] /\ floppy_drive_seeked = 0 /\ floppy_buffer = Unwritten
    /\ changed = [d \in FloppyDrive |-> FALSE] /\ inside = [d \in FloppyDrive |-> TRUE]
    /\ head = [d \in FloppyDrive |-> 0] /\ floppy = [d \in FloppyDrive |-> BlankFloppy]
    /\ floppy_call = [t \in FloppyThread |-> NoRequest] /\ floppy_calls = 0 /\ mixed = FALSE

FloppyNext ==
    \/ Age \/ StopMotor \/ Swap
    \/ \E t \in FloppyThread :
          \/ Begin(t) \/ DiskChanged(t) \/ DiskKept(t) \/ SeekTrack(t) \/ SpinUp(t) \/ Move(t) \/ Moved(t) \/ Answer(t)

FloppySpec == FloppyInit /\ [][FloppyNext]_floppyVars

-----------------------------------------------------------------------------
(* Properties *)

Request ==
    [pc : {"test", "seek", "motor", "move", "moved", "return", "failed"}, drive : FloppyDrive,
     num : FloppyBlock, write : BOOLEAN, tries : Nat, sound : BOOLEAN]

FloppyTypeOK ==
    /\ motor \in [FloppyDrive -> BOOLEAN] /\ track \in [FloppyDrive -> (0..Cylinders - 1) \cup {1}]
    /\ motor_off_timer \in [FloppyDrive -> {"none", "fresh", "old"}] /\ floppy_drive_seeked \in FloppyDrive
    /\ floppy_buffer \in {Unwritten} \cup FloppyBlock
    /\ changed \in [FloppyDrive -> BOOLEAN] /\ inside \in [FloppyDrive -> BOOLEAN]
    /\ head \in [FloppyDrive -> 0..Cylinders - 1]
    /\ floppy \in [FloppyDrive -> [Positions -> {Unwritten} \cup FloppyBlock]]
    /\ floppy_call \in [FloppyThread -> {NoRequest} \cup Request] /\ floppy_calls \in 0..MaxRequests
    /\ mixed \in BOOLEAN

\* While no two calls are made at a time, a call whose transfer the controller carried out has
\* moved its block, and no other block of the disk is where it is.
BlockIsMoved ==
    \A t \in FloppyThread :
        ~mixed /\ floppy_call[t].pc = "return" /\ floppy_call[t].sound =>
            LET num == floppy_call[t].num
            IN IF floppy_call[t].write THEN floppy[floppy_call[t].drive][Place(num)] = num
               ELSE floppy_buffer \in {Unwritten, num}

\* A motor that runs while no call is made has a timer that will stop it, however calls are
\* interleaved and wherever they fail.
MotorWillStop ==
    (\A t \in FloppyThread : ~Busy(t)) => \A d \in FloppyDrive : motor[d] => motor_off_timer[d] # "none"

\* A call to a floppy drive moves its block, and leaves no motor running for ever.
FloppyServes == BlockIsMoved /\ MotorWillStop
=============================================================================
