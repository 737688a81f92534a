----------------------------- MODULE FileCalls -----------------------------
(***************************************************************************)
(* The calls that programs make on files, directories and names            *)
(* (src/src/filesys/file.c, dir.c and fileutils.c), which look at modes    *)
(* and tables of functions and pass the call on; and the file system they  *)
(* find at /dev: the device manager with the devices null, zero and        *)
(* urandom (src/src/devices).  Disk file systems have a table and a file.  *)
(***************************************************************************)
EXTENDS Integers, Sequences

CONSTANTS
    Handle,             \* the files that may be open
    DiskModes,          \* how the disk may be mounted
    Late,               \* devices that are found while the system runs
    Size,               \* the bytes of the file on the disk
    Wrap                 \* 2^64, where positions wrap around

ASSUME CallAssumption ==
    /\ Size \in Nat /\ Wrap \in Nat /\ Size < Wrap - 1
    /\ DiskModes \subseteq SUBSET {"read", "write"} /\ {"none", "end"} \cap Late = {}

VARIABLES
    devlist,            \* the names of the devices, in order
    mnt,                \* the mode of the disk's file system
    file,               \* the open files
    listing,            \* how far a listing of /dev has come, 0 if there is none, and what it gave
    buf,                \* the bytes of a read: before the buffer, in it and behind it
    sought,             \* history: the fseek() that has succeeded, if that was the last call
    fault               \* the function that was not there when it was called

callVars == <<devlist, mnt, file, listing, buf, sought, fault>>

None == "none"
Special == <<"null", "zero", "urandom">>
Named(list) == {list[i] : i \in DOMAIN list}
IsSpecial(name) == name \in Named(Special)
FileSystem == {"devfs", "disk"}

\* The functions that the tables of the file systems hold.
Has(fs) ==
    CASE fs = "devfs" -> {"fopen", "dopen", "dread", "dclose"}
      [] OTHER -> {"fopen", "dopen", "dread", "dclose", "dmake", "link", "unlink", "getprops", "setprops", "symlink"}
Mode(fs) == IF fs = "devfs" THEN {"read", "write"} ELSE mnt

\* The functions of an open file.
Functions(name) ==
    CASE name = "null" -> {"fclose", "fflush", "fsetpos", "fwrite"}
      [] name \in {"zero", "urandom"} -> {"fclose", "fflush", "fsetpos", "fread"}
      [] OTHER -> {"fclose", "fflush", "fsetpos", "fread", "fwrite", "ioctl"}

Lesser(m, n) == IF m <= n THEN m ELSE n

IsOpen(h) == h \in DOMAIN file
Offers(h, f) == IsOpen(h) /\ f \in Functions(file[h].name)
Passed == buf' = <<>> /\ sought' = <<>>

-----------------------------------------------------------------------------
(* The device manager *)

\* device_insert(): at the end of the list, if no device has the name.
Inserted(list, name) == IF name \in Named(list) THEN list ELSE Append(list, name)

\* devmanager_init() with special_devices_init().
devmanager_init == Inserted(Inserted(Inserted(<<>>, Special[1]), Special[2]), Special[3])

Insert ==
    /\ \E name \in Late \cup {"zero"} : devlist' = Inserted(devlist, name)
    /\ Passed /\ UNCHANGED <<mnt, file, listing, fault>>

\* dev_fopen() of a special device sets no mode; there must be memory for it, which is not
\* tested.  A file on the disk, and a device found late, has the mode it was opened with.
Opened(name, flags) ==
    [name |-> name, pos |-> 0, size |-> IF IsSpecial(name) THEN 0 ELSE Size, flags |-> flags,
     mode |-> IF IsSpecial(name) THEN {} ELSE flags, fs |-> IF name = "f" THEN "disk" ELSE "devfs"]

-----------------------------------------------------------------------------
(* Files *)

\* The tests of sys_fopen2().
MayOpen(fs, flags) ==
    /\ flags \cap {"read", "write"} # {}
    /\ "write" \in flags => "write" \in Mode(fs)
    /\ "fopen" \in Has(fs)

sys_fopen2(h) ==
    /\ ~IsOpen(h)
    /\ \E fs \in FileSystem, name \in Named(devlist) \cup {"f"}, flags \in SUBSET {"read", "write", "append"} :
          /\ (fs = "disk") = (name = "f")
          /\ LET f == Opened(name, flags)
                 moded == IF f.mode = {} THEN [f EXCEPT !.mode = flags] ELSE f
             IN IF MayOpen(fs, flags) THEN
                    \/ file' = [g \in DOMAIN file \cup {h} |-> IF g = h THEN moded ELSE file[g]] /\ UNCHANGED fault
                    \/ UNCHANGED file /\ fault' = IF IsSpecial(name) THEN "kcalloc" ELSE fault
                ELSE UNCHANGED <<file, fault>>
    /\ Passed /\ UNCHANGED <<devlist, mnt, listing>>

sys_fclose(h) ==
    /\ Offers(h, "fclose")
    /\ file' = [g \in DOMAIN file \ {h} |-> file[g]]
    /\ Passed /\ UNCHANGED <<devlist, mnt, listing, fault>>

\* Words are written from the buffer's beginning; the rest of a read that is no multiple of
\* four is covered by a word that ends with the buffer, and begins before it if the read is
\* shorter than a word.
urandom_fread(n) ==
    LET filled == 1..4 * (n \div 4) \cup IF n % 4 # 0 THEN (n - 3)..n ELSE {}
    IN [i \in 1..n + 6 |-> i - 3 \in filled]

\* sys_fread(): each byte of the caller's memory, from three before the buffer to three behind
\* it, is written or not.  A file on the disk gives what it has.
sys_fread(h) ==
    /\ IsOpen(h)
    /\ \E n \in 0..5 :
          LET f == file[h]
              moved == IF IsSpecial(f.name) THEN n ELSE Lesser(n, f.size - f.pos)
          IN IF n = 0 \/ "read" \notin f.mode \/ ~Offers(h, "fread")
             THEN buf' = <<>> /\ UNCHANGED file
             ELSE /\ buf' = IF f.name = "urandom" THEN urandom_fread(n)
                            ELSE [i \in 1..moved + 6 |-> i - 3 \in 1..moved]
                  /\ file' = [file EXCEPT ![h].pos = (@ + moved) % Wrap]
    /\ sought' = <<>> /\ UNCHANGED <<devlist, mnt, listing, fault>>

\* Whether the file takes a position: special devices take any, others up to their end.
TakesPosition(f, pos) == IsSpecial(f.name) \/ pos <= f.size

\* sys_fwrite(): to the end of the file first, if it is to be appended to.
sys_fwrite(h) ==
    /\ IsOpen(h)
    /\ \E n \in 1..2 :
          LET f == file[h]
              from == IF "append" \in f.mode THEN f.size ELSE f.pos
          IN IF "write" \notin f.mode \/ ~Offers(h, "fwrite")
             THEN UNCHANGED file
             ELSE file' = [file EXCEPT
                    ![h].pos = IF IsSpecial(f.name) THEN (from + n) % Wrap ELSE Lesser(from + n, f.size)]
    /\ Passed /\ UNCHANGED <<devlist, mnt, listing, fault>>

\* sys_fsetpos() and sys_fseek(), which takes an offset off the end.
sys_fseek(h) ==
    /\ Offers(h, "fsetpos")
    /\ \E origin \in {"set", "cur", "end"}, offset \in -1..1 :
          LET f == file[h]
              pos == (CASE origin = "set" -> offset [] origin = "cur" -> f.pos + offset
                        [] OTHER -> f.size - offset) % Wrap
          IN IF TakesPosition(f, pos)
             THEN /\ file' = [file EXCEPT ![h].pos = pos]
                  /\ sought' = <<[h |-> h, origin |-> origin, offset |-> offset, from |-> f.pos]>>
             ELSE UNCHANGED file /\ sought' = <<>>
    /\ buf' = <<>> /\ UNCHANGED <<devlist, mnt, listing, fault>>

-----------------------------------------------------------------------------
(* Directories and names *)

\* dmake() tests the function that opens directories and calls the one that makes them.
dmake ==
    /\ \E fs \in FileSystem :
          /\ "write" \in Mode(fs) /\ "dopen" \in Has(fs)
          /\ fault' = IF "dmake" \in Has(fs) THEN fault ELSE "dmake"
    /\ Passed /\ UNCHANGED <<devlist, mnt, file, listing>>

\* link(), symlink(), unlink(), getprops() and setprops(): the last three test the function link.
Names ==
    /\ \E fs \in FileSystem, f \in {"link", "symlink", "unlink", "getprops", "setprops"} :
          LET tested == IF f = "symlink" THEN f ELSE "link"
          IN fault' = IF tested \in Has(fs) /\ f \notin Has(fs) THEN f ELSE fault
    /\ Passed /\ UNCHANGED <<devlist, mnt, file, listing>>

\* dopen(), dread() and dclose() of /dev.  The listing is at a member of the list or at its end,
\* to which a device that is inserted comes before.
dev_dopen ==
    /\ listing.next = None
    /\ listing' = [next |-> devlist[1], given |-> <<>>]
    /\ Passed /\ UNCHANGED <<devlist, mnt, file, fault>>

\* Mutant: the listing moves on before the device is looked at.
AfterNext(name) ==
    LET i == IF name = "end" THEN Len(devlist) + 1 ELSE CHOOSE k \in DOMAIN devlist : devlist[k] = name
    IN IF i + 2 <= Len(devlist) THEN devlist[i + 2] ELSE "end"

\* list_next(), as list_inc() uses it.
Following(name) ==
    LET i == CHOOSE k \in DOMAIN devlist : devlist[k] = name
    IN IF i < Len(devlist) THEN devlist[i + 1] ELSE "end"

dev_dread ==
    /\ listing.next \notin {None, "end"}
    /\ listing' = [next |-> Following(listing.next), given |-> Append(listing.given, listing.next)]
    /\ Passed /\ UNCHANGED <<devlist, mnt, file, fault>>

dev_dclose ==
    /\ listing.next # None
    /\ listing' = [next |-> None, given |-> <<>>]
    /\ Passed /\ UNCHANGED <<devlist, mnt, file, fault>>

-----------------------------------------------------------------------------
CallsInit ==
    /\ devlist = devmanager_init /\ mnt \in DiskModes
    /\ file = <<>> /\ listing = [next |-> None, given |-> <<>>]
    /\ buf = <<>> /\ sought = <<>> /\ fault = None

\* A call of a function that is not there is the kernel's last.
CallsNext ==
    /\ fault = None
    /\ \/ Insert \/ dmake \/ Names \/ dev_dopen \/ dev_dread \/ dev_dclose
       \/ \E h \in Handle : sys_fopen2(h) \/ sys_fclose(h) \/ sys_fread(h) \/ sys_fwrite(h) \/ sys_fseek(h)

CallsSpec == CallsInit /\ [][CallsNext]_callVars

-----------------------------------------------------------------------------
(* Properties *)

\* No file can be written that was not opened for it, or whose file system is mounted for reading.
WritesAreAllowed ==
    \A h \in Handle : IsOpen(h) => /\ file[h].mode = file[h].flags
                                   /\ "write" \in file[h].mode => "write" \in Mode(file[h].fs)

\* A read writes the buffer and nothing else, but for short reads of random bytes, which write
\* before it.
ReadsFillBuffer ==
    LET n == Len(buf) - 6
    IN \A i \in DOMAIN buf : IF i - 3 \in 1..n THEN buf[i] ELSE buf[i] => (n < 4 /\ i < 4)

\* fseek() leads where C says, as long as it is not asked for a place before or behind the end:
\* there it goes the other way.
SeeksAsC ==
    \A k \in DOMAIN sought :
        LET seek == sought[k]
            f == file[seek.h]
        IN seek.origin # "end" \/ seek.offset = 0 =>
               f.pos = (CASE seek.origin = "set" -> seek.offset [] seek.origin = "cur" -> seek.from + seek.offset
                          [] OTHER -> f.size) % Wrap

\* A listing of /dev gives the devices in the order they were found, up to where it has come,
\* those as well that are found while it is open.  At its end a device found later is missed.
ListsDevices ==
    /\ Len(listing.given) <= Len(devlist) /\ listing.given = SubSeq(devlist, 1, Len(listing.given))
    /\ listing.next \notin {None, "end"} => devlist[Len(listing.given) + 1] = listing.next

\* The only function that is called without being there makes directories among the devices.
TestedFunctions == fault \in {None, "dmake", "kcalloc"}

\* What is done to a file, and to the listing of the devices, is what the call has asked for and
\* may do.
CallsAreDispatched == WritesAreAllowed /\ ReadsFillBuffer /\ SeeksAsC /\ ListsDevices /\ TestedFunctions
=============================================================================
