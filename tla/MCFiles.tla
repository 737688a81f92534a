------------------------------ MODULE MCFiles -------------------------------
(***************************************************************************)
(* The files and where they are.  A behaviour is one of the system that    *)
(* "subject" names, and in it the variables of the others do not change:   *)
(*   "mounts"  Mounts, two devices, and directories below, beside and      *)
(*             above each other;                                           *)
(*   "minix"   Minix, at most MaxCalls calls on a disk of six zones: files *)
(*             of up to two direct zones and a list, two handles;          *)
(*   "fat"     Fat16, as many calls on two files in five clusters;         *)
(*   "ext2"    Ext2, as many calls on two files in seven blocks;           *)
(*   "calls"   FileCalls, an open file and an open listing, with a device  *)
(*             that is found late.                                         *)
(***************************************************************************)
EXTENDS FileCalls, TLC

CONSTANTS Device, RootDevice, Directory, Allowed, MaxCalls

VARIABLES
    subject,
    mounts, open, ended, refusing, mishaps, \* of Mounts
    cells, disk, fs, handles, got, faults,         \* of the file system
    seen,       \* history: what the points, names and files are
    calls       \* history: how many there have been

Directories == {<<"a">>, <<"a", "b">>, <<"d">>}
FileNames   == {"a", "b"}

\* The clusters of two files lie between each other; one, two or three are free.
FatLayouts ==
    {("a" :> [chain |-> <<2, 4>>, size |-> size, readonly |-> FALSE])
     @@ ("b" :> [chain |-> chain, size |-> Len(chain), readonly |-> size = 3])
        : size \in {3, 4}, chain \in {<<>>, <<3>>, <<3, 6>>}}

\* i_blocks counts blocks, as the driver does, or halves of blocks, as ext2 does.
Ext2Layouts ==
    {("a" :> [order |-> 1, blocks |-> SubSeq(<<2, 4, 6>>, 1, n), list |-> IF n = 3 THEN 5 ELSE 0,
              size |-> 2 * n - 1, units |-> n * unit])
     @@ ("b" :> [order |-> 2, blocks |-> <<3>>, list |-> 0, size |-> 2, units |-> 2])
        : n \in 1..3, unit \in {1, 2}}

Mt == INSTANCE Mounts WITH Point <- Directory
Mx == INSTANCE Minix WITH
          Name <- FileNames, Handle <- 1..2, Byte <- {1}, Zones <- 6, Inodes <- 3, Cells <- 2,
          StdZones <- 2, MaxSize <- 6, Longest <- 2, Sizes <- {0, 5}, Seeks <- {0, 3},
          Allowed <- {}, mishaps <- faults
Fat == INSTANCE Fat16 WITH
          Handle <- 1..2, Byte <- {1}, Bits <- 12, ClusterCount <- 7, Cells <- 2, Longest <- 2,
          Layouts <- FatLayouts, Seeks <- {0, 3}, Allowed <- {}, mishaps <- faults
Ext == INSTANCE Ext2 WITH
          Handle <- 1..2, Byte <- {1}, Blocks <- 7, Inodes <- 5, Cells <- 2, DirectBlocks <- 2,
          Longest <- 2, Layouts <- Ext2Layouts, Seeks <- {0, 3}, Allowed <- {}, mishaps <- faults

ASSUME Ext!Ext2Assumption /\ Fat!FatAssumption /\ Mt!MountAssumption /\ Mx!MinixAssumption

mountvars == <<mounts, open, ended, refusing, mishaps>>
filevars  == <<cells, disk, fs, handles, got, faults>>

NoFiles == [names |-> <<>>, contents |-> <<>>, handles |-> <<>>, got |-> <<>>]

MCInit ==
    /\ Mt!Init /\ calls = 0
    /\ \/ /\ subject \in {"mounts", "calls"}
          /\ cells = <<>> /\ disk = <<>> /\ fs = <<>> /\ handles = <<>> /\ got = <<>> /\ faults = {}
          /\ seen = [files |-> NoFiles, table |-> Mt!Table]
       \/ subject = "minix" /\ Mx!Init /\ seen = [files |-> Mx!Seen, table |-> Mt!Table]
       \/ subject = "fat" /\ Fat!Init /\ seen = [files |-> Fat!Seen, table |-> Mt!Table]
       \/ subject = "ext2" /\ Ext!Init /\ seen = [files |-> Ext!Seen, table |-> Mt!Table]
    /\ CallsInit /\ (subject = "calls" \/ mnt = {"read"})

Call == calls < MaxCalls /\ calls' = calls + 1 /\ UNCHANGED <<subject, mountvars, callVars>>

MCNext ==
    \/ /\ subject = "mounts" /\ Mt!QuietNext /\ seen' = [seen EXCEPT !.table = Mt!Table']
       /\ UNCHANGED <<subject, filevars, callVars, calls>>
    \/ subject = "minix" /\ Call /\ Mx!QuietNext /\ seen' = [seen EXCEPT !.files = Mx!Seen']
    \/ subject = "fat" /\ Call /\ Fat!QuietNext /\ seen' = [seen EXCEPT !.files = Fat!Seen']
    \/ subject = "ext2" /\ Call /\ Ext!QuietNext /\ seen' = [seen EXCEPT !.files = Ext!Seen']
    \/ subject = "calls" /\ CallsNext /\ UNCHANGED <<subject, mountvars, filevars, seen, calls>>

MCSpec == MCInit /\ [][MCNext]_<<subject, mountvars, filevars, callVars, seen, calls>>

AsMountTable == INSTANCE MountTable WITH
    Point <- Mt!Paths, table <- seen.table, running <- ~ended,
    First <- (<<>> :> RootDevice) @@ (<<"dev">> :> "devman")

Store == INSTANCE FileStore WITH
    Name <- FileNames, Handle <- 1..2, Byte <- {1}, Longest <- 2, File <- 0..6,
    names <- seen.files.names, contents <- seen.files.contents, handles <- seen.files.handles,
    got <- seen.files.got

\* Arrays that move and close up are a table of mount points: no step changes another point
\* than the one it is asked for, and the devices that are open are those that are mounted,
\* whatever a call has failed at.
ImplementsMountTable == AsMountTable!Spec

\* A driver is a store of files: what one name or handle does shows in no other file, and a
\* file is what was written to it, also after it was closed and the device mounted again.
ImplementsFileStore == Store!Spec

\* A path leads to the longest of the points it begins with.
NearestPoint == subject = "mounts" => Mt!NearestPoint

\* After mount_uninit() a point is still mounted only if its file system, or that of one
\* below it, has refused every time.
ShutdownUnmounts == subject = "mounts" => Mt!ShutdownUnmounts

\* No zone or cluster of a file is free, or in two files, or twice in a file.
BlocksAreOwn ==
    /\ subject = "minix" => Mx!ZonesAgree
    /\ subject = "fat" => Fat!ChainsAgree
    /\ subject = "ext2" => Ext!BlocksAgree
=============================================================================
