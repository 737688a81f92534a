------------------------------- MODULE Mounts -------------------------------
(***************************************************************************)
(* The mount points (src/src/filesys/mount.c) as the shell changes them: a *)
(* tree in which the children of a point are an array, moved whenever one  *)
(* is added and closed up when one is removed, and every child points at   *)
(* its parent's place in the array above.                                  *)
(***************************************************************************)
EXTENDS Integers, SequencesExt, FiniteSetsExt, Functions

CONSTANTS
    Device,         \* the block devices
    RootDevice,     \* the one the kernel is started from
    Point,          \* the paths of directories the user mounts at, as sequences of names
    Allowed         \* the mishaps that may happen: see QuietNext

MountAssumption ==
    /\ RootDevice \in Device /\ Point \subseteq Seq(STRING) /\ "devman" \notin Device
    /\ Allowed \subseteq {"Slash", "Above", "Stale", "Root"}

Paths    == Point \cup {<<>>, <<"dev">>}
NoDevice == "none"
NoArray  == 0
Static   == 0               \* where the variable root is
Root     == <<Static, 1>>   \* a struct mount *: an array and a place in it
Null     == <<-1, 1>>
Retries  == 3               \* of mount_uninit()

VARIABLES
    mounts,     \* by address, the arrays of struct mount; subtree_size is the length
    open,       \* how many times each device is open
    ended,      \* mount_uninit() has been called
    refusing,   \* history: the devices it could not unmount
    mishaps     \* history: see Mount, Umounted

vars == <<mounts, open, ended, refusing, mishaps>>

\* The tree m with what is opened and closed, passed through several steps.
tree == [mounts |-> mounts, open |-> open]
Becomes(t) == mounts' = t.mounts /\ open' = t.open

At(ms, mnt) == ms[mnt[1]][mnt[2]]
Subtree(ms, mnt) == IF At(ms, mnt).subtree = NoArray THEN <<>> ELSE ms[At(ms, mnt).subtree]
Put(ms, mnt, value) == [ms EXCEPT ![mnt[1]][mnt[2]] = value]
Opened(t, d) == [t EXCEPT !.open[d] = @ + 1]
Closed(t, d) == IF d \in Device THEN [t EXCEPT !.open[d] = @ - 1] ELSE t

\* The address krealloc() moves to: never the one it moves from.
NewArray(ms) == Min(1..(Cardinality(DOMAIN ms) + 1) \ DOMAIN ms)

-----------------------------------------------------------------------------
(* Looking up.                                                             *)

\* The children whose relative_path the names begin with.
Fitting(children, path) == {i \in DOMAIN children : IsPrefix(children[i].relative_path, path)}

\* etsi_kohta(): down from the root, the first child that fits, and what is left of the
\* path.  Every turn takes a name at least.
EtsiKohta(path) ==
    LET step[k \in 0..Len(path)] ==
            IF k = 0 THEN [mnt |-> Root, rest |-> path]
            ELSE LET s        == step[k - 1]
                     children == Subtree(mounts, s.mnt)
                     fits     == Fitting(children, s.rest)
                 IN  IF s.rest = <<>> \/ fits = {} THEN s
                     ELSE LET i == Min(fits)
                          IN  [mnt  |-> <<At(mounts, s.mnt).subtree, i>>,
                               rest |-> SubSeq(s.rest, Len(children[i].relative_path) + 1, Len(s.rest))]
    IN  step[Len(path)]

\* fopen2("/dev/..."): the device manager is asked if its mount point is found.
CanOpen(d) ==
    LET found == EtsiKohta(<<"dev", d>>)
    IN  At(mounts, found.mnt).dev = "devman" /\ found.rest = <<d>>

-----------------------------------------------------------------------------
(* mount_something() and mount_replace().                                  *)

\* Mutant: the device stays open.
NotClosed(t, d) == t
\* A device without a file system that any driver knows is closed again.
GivenUp(t, d) == Closed(t, d)

RelativePath(point, rest) == rest

\* The new point is put behind its siblings, in a new array.
Added(t, parent, new) ==
    LET old   == At(t.mounts, parent).subtree
        array == NewArray(t.mounts)
        moved == array :> Append(Subtree(t.mounts, parent), new)
        ms    == moved @@ Restrict(t.mounts, DOMAIN t.mounts \ ({old} \ {Static}))
    IN  [t EXCEPT !.mounts = Put(ms, parent, [At(ms, parent) EXCEPT !.subtree = array])]

\* With a slash behind the name of a point in use, or for "/", what is left of the name is
\* taken to have the length -1: the test for a point in use does not see it, and a point is
\* added whose relative_path is what lies behind the name.  Behind another name a slash is
\* cut off.
Mount(d, point, slash, known) ==
    LET found == EtsiKohta(point)
        inUse == found.rest = <<>>
        seen  == inUse /\ ~slash /\ point # <<>>
        above == \E i \in DOMAIN Subtree(mounts, found.mnt) :
                    IsStrictPrefix(found.rest, Subtree(mounts, found.mnt)[i].relative_path)
        new   == [dev |-> d, absolute_path |-> point, parent |-> found.mnt, subtree |-> NoArray,
                  relative_path |-> IF inUse THEN <<"?">> ELSE RelativePath(point, found.rest)]
    IN  /\ ~ended /\ ~seen /\ (slash => inUse) /\ CanOpen(d)
        /\ IF known THEN Becomes(Added(Opened(tree, d), found.mnt, new))
                    ELSE Becomes(GivenUp(Opened(tree, d), d))
        /\ mishaps' = mishaps \cup (IF known /\ inUse THEN {"Slash"} ELSE {})
                              \cup (IF known /\ ~inUse /\ above THEN {"Above"} ELSE {})
        /\ UNCHANGED <<ended, refusing>>

Replaced(t, mnt, d) ==
    Closed([t EXCEPT !.mounts = Put(@, mnt, [At(@, mnt) EXCEPT !.dev = d])], At(t.mounts, mnt).dev)

\* The new device is mounted before the old one is unmounted.
MountReplace(d, point, known, umounted) ==
    LET found  == EtsiKohta(point)
        device == EtsiKohta(<<"dev", d>>)
        opened == Opened(tree, d)
    IN  /\ ~ended /\ found.rest = <<>> /\ device.mnt # found.mnt /\ CanOpen(d)
        /\ IF known /\ umounted THEN Becomes(Replaced(opened, found.mnt, d))
                                ELSE Becomes(GivenUp(opened, d))
        /\ UNCHANGED <<ended, refusing, mishaps>>

-----------------------------------------------------------------------------
(* umount_something() and mount_uninit().                                  *)

\* A point whose parent has been moved since it was mounted points where its parent was.
Stale(ms, mnt) ==
    LET parent == At(ms, mnt).parent
    IN  parent # Null /\ ~(/\ parent[1] \in DOMAIN ms /\ parent[2] \in DOMAIN ms[parent[1]]
                           /\ At(ms, parent).subtree = mnt[1])

\* The last child is put in the place of the one that goes.
LastMoved(children, i) == Front([children EXCEPT ![i] = Last(children)])

\* umount() of a point without points below it, its file system gone: its parent, where the
\* pointer leads to it, loses it.
Umounted(t, mnt) ==
    LET cell  == At(t.mounts, mnt)
        freed == Restrict(t.mounts, DOMAIN t.mounts \ ({cell.subtree} \ {Static}))
        gone  == IF mnt = Root THEN Put(freed, Root, [cell EXCEPT !.dev = NoDevice, !.subtree = NoArray])
                 ELSE [freed EXCEPT ![mnt[1]] = LastMoved(@, mnt[2])]
    IN  Closed([t EXCEPT !.mounts = gone], cell.dev)

Mounted == UNION {{<<a, i>> : i \in DOMAIN mounts[a]} : a \in DOMAIN mounts}

\* What umount_something() finds: a point by the name of its device, or by its own path.
\* etsi_laite_rek() takes one of the points of a device, which one is left open.
Found == UNION {{mnt \in Mounted : At(mounts, mnt).dev = name} : name \in Device \cup {"devman"}}
         \cup {EtsiKohta(p).mnt : p \in {q \in Paths : EtsiKohta(q).rest = <<>>}}

Umount(mnt) ==
    /\ ~ended /\ Subtree(mounts, mnt) = <<>>
    /\ IF Stale(mounts, mnt)
       THEN mishaps' = mishaps \cup {"Stale"} /\ UNCHANGED <<mounts, open>>
       ELSE /\ Becomes(Umounted(tree, mnt))
            /\ mishaps' = mishaps \cup (IF mnt = Root THEN {"Root"} ELSE {})
    /\ UNCHANGED <<ended, refusing>>

UmountSomething == \E mnt \in Found : Umount(mnt)

\* umount_array() from its last place down: what is below a point first, the point if that
\* has worked.  refuses are the devices whose file systems do not unmount now.
RECURSIVE UmountArray(_, _, _, _)
UmountArray(t, array, size, refuses) ==
    IF array = NoArray \/ size = 0 THEN t
    ELSE LET mnt   == <<array, size>>
             sub   == At(t.mounts, mnt).subtree
             below == UmountArray([t EXCEPT !.failed = FALSE], sub, Len(Subtree(t.mounts, mnt)), refuses)
             one   == IF below.failed \/ At(below.mounts, mnt).dev \in refuses
                      THEN [below EXCEPT !.failed = TRUE]
                      ELSE IF Stale(below.mounts, mnt) THEN [below EXCEPT !.stale = TRUE]
                      ELSE Umounted(below, mnt)
         IN  UmountArray([one EXCEPT !.failed = @ \/ t.failed], array, size - 1, refuses)

\* Mutant: the array is gone through once.
OneRound(t, rounds) == UmountArray([t EXCEPT !.failed = FALSE], At(t.mounts, Root).subtree,
                                   Len(Subtree(t.mounts, Root)), {d \in Device : rounds[d] > 0})
ThreeRounds(t, rounds) ==
    LET round[k \in 0..Retries] ==
            IF k = 0 \/ (k > 1 /\ ~round[k - 1].failed) THEN IF k = 0 THEN t ELSE round[k - 1]
            ELSE UmountArray([round[k - 1] EXCEPT !.failed = FALSE],
                             At(round[k - 1].mounts, Root).subtree,
                             Len(Subtree(round[k - 1].mounts, Root)),
                             {d \in Device : rounds[d] >= k})
    IN  round[Retries]

\* mount_uninit(), when each device refuses in as many rounds: the root's device is closed
\* whether or not its file system has been unmounted.
MountUninit(rounds) ==
    LET start == [mounts |-> mounts, open |-> open, failed |-> FALSE, stale |-> FALSE]
        t     == ThreeRounds(start, rounds)
        root  == At(t.mounts, Root)
    IN  /\ ~ended /\ ended' = TRUE
        /\ refusing' = {d \in Device : rounds[d] = Retries}
        /\ Becomes(Closed([t EXCEPT !.mounts = Put(@, Root, [root EXCEPT !.dev = NoDevice])], root.dev))
        /\ mishaps' = IF t.stale THEN mishaps \cup {"Stale"} ELSE mishaps

-----------------------------------------------------------------------------

\* mount_init(), when the root device can be mounted.
Init ==
    /\ mounts = (Static :> <<[dev |-> RootDevice, absolute_path |-> <<>>, relative_path |-> <<>>,
                              parent |-> Null, subtree |-> 1]>>)
             @@ (1 :> <<[dev |-> "devman", absolute_path |-> <<"dev">>, relative_path |-> <<"dev">>,
                         parent |-> Root, subtree |-> NoArray]>>)
    /\ open = [d \in Device |-> IF d = RootDevice THEN 1 ELSE 0]
    /\ ended = FALSE /\ refusing = {} /\ mishaps = {}

Next ==
    \/ \E d \in Device, point \in Paths, known \in BOOLEAN :
          \/ \E slash \in BOOLEAN : Mount(d, point, slash, known)
          \/ \E umounted \in BOOLEAN : MountReplace(d, point, known, umounted)
    \/ UmountSomething
    \/ \E rounds \in [Device -> 0..Retries] : MountUninit(rounds)

\* Of the mishaps only those allowed happen:
\*   Slash:  a point is mounted at one in use, whose name ends in a slash;
\*   Above:  a point is mounted at a directory above that of an older sibling;
\*   Stale:  a point is unmounted whose parent has moved;
\*   Root:   the root is unmounted, which is possible once /dev is.
QuietNext == Next /\ mishaps' \subseteq Allowed
Spec == Init /\ [][QuietNext]_vars

-----------------------------------------------------------------------------
(* Properties.                                                             *)

TypeOK ==
    /\ \A mnt \in Mounted : LET cell == At(mounts, mnt) IN
          /\ cell.dev \in Device \cup {"devman", NoDevice} /\ cell.absolute_path \in Paths
          /\ cell.subtree = NoArray \/ cell.subtree \in DOMAIN mounts
    /\ open \in [Device -> Nat] /\ ended \in BOOLEAN /\ refusing \subseteq Device
    /\ mishaps \subseteq Allowed

\* What is mounted where.
Table ==
    LET cells == {c \in {At(mounts, mnt) : mnt \in Mounted} : c.dev # NoDevice}
    IN  [p \in {c.absolute_path : c \in cells} |-> (CHOOSE c \in cells : c.absolute_path = p).dev]

\* "Se vain etsii mount-puusta pisimman osuvan alkupatkan": a path leads to the longest of
\* the points it begins with.
NearestPoint ==
    ~ended => LET points == DOMAIN Table IN \A path \in Paths :
       At(mounts, EtsiKohta(path).mnt).absolute_path
         = CHOOSE p \in points : /\ IsPrefix(p, path)
                                 /\ \A q \in points : IsPrefix(q, path) => Len(q) <= Len(p)

\* "Jatkuu virheista huolimatta": after mount_uninit() a point is still mounted only if its
\* file system, or that of one below it, has refused every time.
ShutdownUnmounts ==
    ended => LET table == Table IN \A p \in DOMAIN table :
       \E q \in DOMAIN table : IsPrefix(p, q) /\ table[q] \in refusing
=============================================================================
