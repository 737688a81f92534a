----------------------------- MODULE KeyBuffer -----------------------------
(***************************************************************************)
(* The keyboard buffer of a virtual terminal (src/src/vt.c): a ring that   *)
(* the keyboard interrupt fills and the threads that read the terminal     *)
(* empty, without a lock, and the state of the modifier keys before and    *)
(* behind it.  The shell and the program it has started read the same      *)
(* terminal at the same time.                                              *)
(***************************************************************************)
EXTENDS Integers, Sequences

CONSTANTS
    Reader,
    BufferSize,         \* VT_KB_BUFFER_SIZE
    MaxEvents           \* bounds the key events

ASSUME BufferAssumption ==
    /\ Reader # {} /\ BufferSize \in Nat \ {0} /\ MaxEvents \in Nat

\* One key of each kind: a modifier, one that scrolls with it, one with a character.
Key   == {"shift", "pgup", "a"}
Event == [key : Key, up : BOOLEAN]
Slots == 0..(BufferSize - 1)
NoEvent == [key |-> "none", up |-> TRUE]

VARIABLES
    kb_buf, kb_buf_start, kb_buf_end, kb_buf_count,
    realtime_kb_mods, kb_mods,
    current,            \* whether the terminal is the current one
    reading,            \* the step each reader takes next
    block,              \* whether its call waits for a character
    keyevent, loaded,   \* the event it has read, the count it has loaded
    typed, received,    \* history: the events put into the ring, and taken out
    losses              \* history: see KeyboardEvent

ring       == <<kb_buf, kb_buf_start, kb_buf_end, kb_buf_count>>
mods       == <<realtime_kb_mods, kb_mods>>
reader     == <<reading, block, keyevent, loaded>>
bufferVars == <<ring, mods, current, reader, typed, received, losses>>

GoesTo(r, step) == reading' = [reading EXCEPT ![r] = step]

-----------------------------------------------------------------------------
(* The interrupt.                                                          *)

\* do_kb_mods().
Mods(m, e) ==
    IF e.key # "shift" THEN m ELSE IF e.up THEN m \ {"shift"} ELSE m \cup {"shift"}

\* Mutant: the end of the ring is not wrapped when it is reached.
WrappedLate(i) == IF i > BufferSize THEN 0 ELSE i
Wrapped(i) == i % BufferSize

\* vt_keyboard_event() of the current terminal, with interrupts off.  A full ring is
\* overwritten ("Overrun"); a reader that has loaded the count will store an old one
\* ("Stale").
KeyboardEvent(e) ==
    /\ current /\ Len(typed) < MaxEvents
    /\ ~(e.key = "pgup" /\ "shift" \in kb_mods)
    /\ realtime_kb_mods' = Mods(realtime_kb_mods, e)
    /\ kb_buf' = [kb_buf EXCEPT ![kb_buf_end] = e]
    /\ kb_buf_count' = kb_buf_count + 1
    /\ kb_buf_end' = Wrapped(kb_buf_end + 1)
    /\ typed' = Append(typed, e)
    /\ losses' = losses
          \cup (IF kb_buf_count >= BufferSize THEN {"Overrun"} ELSE {})
          \cup (IF \E r \in Reader : reading[r] = "store" THEN {"Stale"} ELSE {})
    /\ UNCHANGED <<kb_buf_start, kb_mods, current, reader, received>>

\* An F key: the terminal is left or chosen, and its keys are typed elsewhere meanwhile.
ChangeTerminal ==
    /\ current' = ~current
    /\ UNCHANGED <<ring, mods, reader, typed, received, losses>>

-----------------------------------------------------------------------------
(* A reader.                                                               *)

\* vt_kb_get() waits for an event, vt_kb_peek() does not.
Read(r) ==
    /\ reading[r] = "idle"
    /\ \E b \in BOOLEAN : /\ block' = [block EXCEPT ![r] = b]
                          /\ GoesTo(r, IF b THEN "wait" ELSE "test")
    /\ UNCHANGED <<ring, mods, current, keyevent, loaded, typed, received, losses>>

\* while (!vtptr->kb_buf_count) switch_thread().
Wait(r) ==
    /\ reading[r] = "wait" /\ kb_buf_count # 0
    /\ GoesTo(r, "test")
    /\ UNCHANGED <<ring, mods, current, block, keyevent, loaded, typed, received, losses>>

\* vt_get_and_parse_next_key_event() returns -1: no event.
NotFound(r) ==
    /\ reading[r] = "test" /\ kb_buf_count = 0
    /\ GoesTo(r, IF block[r] THEN "wait" ELSE "idle")
    /\ UNCHANGED <<ring, mods, current, block, keyevent, loaded, typed, received, losses>>

Found(r) ==
    /\ reading[r] = "test" /\ kb_buf_count # 0
    /\ GoesTo(r, "take")
    /\ UNCHANGED <<ring, mods, current, block, keyevent, loaded, typed, received, losses>>

Take(r) ==
    /\ reading[r] = "take"
    /\ keyevent' = [keyevent EXCEPT ![r] = kb_buf[kb_buf_start]]
    /\ GoesTo(r, "load")
    /\ UNCHANGED <<ring, mods, current, block, loaded, typed, received, losses>>

\* --vtptr->kb_buf_count: a volatile that is loaded, decremented and stored.
LoadCount(r) ==
    /\ reading[r] = "load"
    /\ loaded' = [loaded EXCEPT ![r] = kb_buf_count]
    /\ GoesTo(r, "store")
    /\ UNCHANGED <<ring, mods, current, block, keyevent, typed, received, losses>>

StoreCount(r) ==
    /\ reading[r] = "store"
    /\ kb_buf_count' = loaded[r] - 1
    /\ loaded' = [loaded EXCEPT ![r] = 0]
    /\ GoesTo(r, "advance")
    /\ UNCHANGED <<kb_buf, kb_buf_start, kb_buf_end, mods, current, block, keyevent, typed,
                   received, losses>>

AdvanceStart(r) ==
    /\ reading[r] = "advance"
    /\ kb_buf_start' = Wrapped(kb_buf_start + 1)
    /\ GoesTo(r, "parse")
    /\ UNCHANGED <<kb_buf, kb_buf_end, kb_buf_count, mods, current, block, keyevent, loaded,
                   typed, received, losses>>

ModsRead(e) == Mods(kb_mods, e)

\* Mutant: a character is returned when its key goes up.
CharacterWhenUp(e) == e.up /\ e.key # "shift"
Character(e) == ~e.up /\ e.key # "shift"

\* vt_get_next_char() returns a character when its key goes down, and goes on reading
\* behind any other event.
Parse(r) ==
    /\ reading[r] = "parse"
    /\ kb_mods' = ModsRead(keyevent[r])
    /\ received' = Append(received, keyevent[r])
    /\ keyevent' = [keyevent EXCEPT ![r] = NoEvent]
    /\ GoesTo(r, IF Character(keyevent[r]) THEN "idle" ELSE "test")
    /\ UNCHANGED <<ring, realtime_kb_mods, current, block, loaded, typed, losses>>

BufferInit ==
    /\ kb_buf = [i \in Slots |-> NoEvent]
    /\ kb_buf_start = 0 /\ kb_buf_end = 0 /\ kb_buf_count = 0
    /\ realtime_kb_mods = {} /\ kb_mods = {} /\ current = TRUE
    /\ reading = [r \in Reader |-> "idle"] /\ block = [r \in Reader |-> FALSE]
    /\ keyevent = [r \in Reader |-> NoEvent] /\ loaded = [r \in Reader |-> 0]
    /\ typed = <<>> /\ received = <<>> /\ losses = {}

\* The steps of a read that has begun.
InRead(r) ==
    \/ Wait(r) \/ NotFound(r) \/ Found(r)
    \/ Take(r) \/ LoadCount(r) \/ StoreCount(r) \/ AdvanceStart(r) \/ Parse(r)

BufferNext ==
    \/ \E e \in Event : KeyboardEvent(e)
    \/ ChangeTerminal
    \/ \E r \in Reader : Read(r) \/ InRead(r)

BufferSpec == BufferInit /\ [][BufferNext]_bufferVars
QuietNext  == BufferNext /\ losses' = {}
QuietSpec  == BufferInit /\ [][QuietNext]_bufferVars /\ \A r \in Reader : WF_bufferVars(InRead(r))

-----------------------------------------------------------------------------
(* Properties.                                                             *)

BufferTypeOK ==
    /\ kb_buf \in [Slots -> Event \cup {NoEvent}]
    /\ kb_buf_start \in Slots /\ kb_buf_end \in Slots /\ kb_buf_count \in 0..BufferSize
    /\ realtime_kb_mods \subseteq {"shift"} /\ kb_mods \subseteq {"shift"}
    /\ current \in BOOLEAN
    /\ reading \in [Reader -> {"idle", "wait", "test", "take", "load", "store", "advance", "parse"}]
    /\ block \in [Reader -> BOOLEAN]
    /\ keyevent \in [Reader -> Event \cup {NoEvent}] /\ loaded \in [Reader -> 0..BufferSize]
    /\ typed \in Seq(Event) /\ received \in Seq(Event) /\ losses \subseteq {"Overrun", "Stale"}

\* The events a reader has taken out of the ring but not yet out of its count, or out
\* of the count but not yet from its start.
InCount == {r \in Reader : reading[r] \in {"load", "store"}}
AtStart == {r \in Reader : reading[r] \in {"load", "store", "advance"}}

Waiting ==
    LET first == kb_buf_start + (IF AtStart = {} THEN 0 ELSE 1)
        n     == kb_buf_count - (IF InCount = {} THEN 0 ELSE 1)
    IN  [i \in 1..n |-> kb_buf[(first + i - 1) % BufferSize]]

Taken == LET r == CHOOSE r \in Reader : reading[r] \in {"load", "store", "advance", "parse"}
         IN  IF \E q \in Reader : reading[q] \in {"load", "store", "advance", "parse"}
             THEN Append(received, keyevent[r]) ELSE received

\* With one reader, and as long as no event meets a full ring or a count that is being
\* stored, the ring is a queue: no event is lost, doubled or overtaken.
AsQueue == INSTANCE KeyQueue WITH waiting <- Waiting, received <- Taken
ImplementsQueue == AsQueue!Spec

\* A character that waits in the ring gets to the reader that waits for one.
CharactersAreRead ==
    \A r \in Reader :
        (reading[r] = "wait" /\ \E i \in DOMAIN Waiting : Waiting[i].key = "a" /\ ~Waiting[i].up)
            ~> reading[r] = "idle"
=============================================================================
