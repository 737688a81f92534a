------------------------------ MODULE Keyboard ------------------------------
(***************************************************************************)
(* From the keys of a keyboard to what a program reads from a terminal:    *)
(* the scan codes (src/src/keyboard.c), what vt_keyboard_event() keeps for *)
(* itself, the modifiers, and vt_fread() (src/src/vt.c) in its modes.  The *)
(* keyboard sends the bytes of a key one by one, each with an interrupt of *)
(* its own.  One program reads each terminal; that the ring between the    *)
(* interrupt and its reader is a queue is the subject of KeyBuffer.        *)
(***************************************************************************)
EXTENDS Integers, Sequences

CONSTANTS
    VtCount,        \* VT_COUNT
    QueueSize,      \* VT_KB_QUEUE_SIZE
    Typed,          \* the keys somebody uses
    MaxKeys         \* bounds the keys that are pressed and released

Vt == 0..(VtCount - 1)

\* The keys, one of each kind, with the code that follows the prefixes: 0xe0 or 0xe1.
KeyCode ==
    [KEYCODE_A |-> 30, KEYCODE_4 |-> 5, KEYCODE_LSHIFT |-> 42, KEYCODE_RSHIFT |-> 54,
     KEYCODE_LCTRL |-> 29, KEYCODE_LALT |-> 56, KEYCODE_CAPSLOCK |-> 58, KEYCODE_NUMLOCK |-> 69,
     KEYCODE_F1 |-> 59, KEYCODE_F2 |-> 60, KEYCODE_F7 |-> 65, KEYCODE_F11 |-> 87,
     KEYCODE_RCTRL |-> 157, KEYCODE_ALTGR |-> 184, KEYCODE_UP |-> 200, KEYCODE_PGUP |-> 201,
     KEYCODE_PGDOWN |-> 209, Pause |-> 197]
Key == DOMAIN KeyCode

ASSUME KeyboardAssumption ==
    /\ VtCount \in 1..6 /\ QueueSize \in Nat \ {0} /\ Typed \subseteq Key /\ MaxKeys \in Nat

KeyOf(code) == {k \in Key : KeyCode[k] = code}

\* What the keyboard sends for a key: the upper half of the codes is that of the prefixes.
Sent(k, up) ==
    LET low == (KeyCode[k] % 128) + (IF up THEN 128 ELSE 0)
    IN IF k = "Pause" THEN <<225, 29 + (IF up THEN 128 ELSE 0), low>>
       ELSE IF KeyCode[k] > 128 THEN <<224, low>> ELSE <<low>>

Holding == {"KEYCODE_LSHIFT", "KEYCODE_RSHIFT", "KEYCODE_LCTRL", "KEYCODE_RCTRL",
            "KEYCODE_LALT", "KEYCODE_ALTGR"}
Locking == {"KEYCODE_CAPSLOCK", "KEYCODE_NUMLOCK"}
Shift   == {"KEYCODE_LSHIFT", "KEYCODE_RSHIFT"}

VARIABLES
    down, locked,                   \* the keys that are down, the locks that are on
    wire,                           \* what the keyboard has still to send
    escaped, oli_escaped,           \* of keyboard_handle()
    cur_vt,
    realtime_kb_mods, kb_mods,
    kb_buf,                         \* the events of each terminal
    kb_queue,                       \* what is left of a code that did not fit
    mode,
    got,                            \* history: what the reads of each terminal have given
    due,                            \* history: what they are to give, by the keys
    astray,                         \* history: see Change, vt_keyboard_event, vt_fread
    keys

hands  == <<down, locked, wire>>
driver == <<escaped, oli_escaped>>
vts    == <<realtime_kb_mods, kb_mods, kb_buf, kb_queue, mode>>
keyboardVars == <<hands, driver, cur_vt, vts, got, due, astray, keys>>

Modes == {"old", "normal", "rawevents"}

\* vt_init(): the mode is normal.
KeyboardInit ==
    /\ down = {} /\ locked = {} /\ wire = <<>>
    /\ escaped = 0 /\ oli_escaped = 0
    /\ cur_vt = 0
    /\ realtime_kb_mods = [v \in Vt |-> {}] /\ kb_mods = realtime_kb_mods
    /\ kb_buf = [v \in Vt |-> <<>>] /\ kb_queue = kb_buf
    /\ mode = [v \in Vt |-> "normal"]
    /\ got = [v \in Vt |-> <<>>] /\ due = got
    /\ astray = {} /\ keys = 0

-----------------------------------------------------------------------------
(* What a key means                                                        *)

\* The tables of key_to_ascii(): plain, with Shift, with AltGr or Alt; 0 for none.
Table ==
    [KEYCODE_A |-> <<"a", "A", "a">>, KEYCODE_4 |-> <<"4", "none", "$">>]

\* key_to_ascii(): a letter only knows Shift and Caps Lock; without a character the code.
key_to_ascii(k, mods) ==
    LET shift == mods \cap Shift # {}
        alt   == mods \cap {"KEYCODE_ALTGR", "KEYCODE_LALT"} # {}
        caps  == "KEYCODE_CAPSLOCK" \in mods
        row   == IF k \in DOMAIN Table THEN Table[k] ELSE <<"none", "none", "none">>
        c     == IF k = "KEYCODE_A" THEN (IF shift # caps THEN row[2] ELSE row[1])
                 ELSE IF shift THEN row[2] ELSE IF alt THEN row[3] ELSE row[1]
    IN IF c = "none" THEN k ELSE c

\* The codes of vt_fread() for keys.  KEY_F2 to KEY_F10 are the numbers behind KEY_F1, which
\* no key has: those keys give nothing.
Code ==
    [KEYCODE_UP |-> <<"esc", "[", "A">>, KEYCODE_PGUP |-> <<"esc", "[", "5", "~">>,
     KEYCODE_PGDOWN |-> <<"esc", "[", "6", "~">>, KEYCODE_F11 |-> <<"esc", "[", "[", "2", "3", "~">>]

Bytes(c) == IF c \in DOMAIN Code THEN Code[c] ELSE IF c \in Key THEN <<>> ELSE <<c>>

\* do_kb_mods()
do_kb_mods(mods, k, up) ==
    IF k \in Holding THEN (IF up THEN mods \ {k} ELSE mods \cup {k})
    ELSE IF k \in Locking /\ ~up THEN (mods \cup {k}) \ (mods \cap {k})
    ELSE mods

\* What an event gives in each of the modes, with the modifiers behind it.
Item(m, k, up, mods) ==
    LET silent == up \/ k \in Holding \cup Locking
    IN CASE m = "rawevents" -> <<<<k, up>>>>
         [] m = "old" -> IF silent THEN <<>> ELSE <<key_to_ascii(k, mods)>>
         [] OTHER -> IF silent THEN <<>> ELSE Bytes(key_to_ascii(k, mods))

-----------------------------------------------------------------------------
(* The keyboard                                                            *)

\* A key is pressed or let go.  What it means is due where it is typed, by the keys that
\* are down and the locks that are on: see Interrupt for the keys the terminals keep.
KeyMoves(k) ==
    LET up   == k \in down
        mods == (down \cap Holding) \cup locked
        kept == k \in {"KEYCODE_F1", "KEYCODE_F2"}
                \/ (k \in {"KEYCODE_PGUP", "KEYCODE_PGDOWN"} /\ mods \cap Shift # {})
        v    == cur_vt
    IN /\ keys < MaxKeys /\ keys' = keys + 1
       /\ wire = <<>> /\ wire' = Sent(k, up)
       /\ down' = IF up THEN down \ {k} ELSE down \cup {k}
       /\ locked' = IF k \in Locking /\ ~up THEN (locked \cup {k}) \ (locked \cap {k}) ELSE locked
       /\ due' = IF kept THEN due ELSE [due EXCEPT ![v] = @ \o Item(mode[v], k, up, mods)]
       /\ UNCHANGED <<driver, cur_vt, vts, got, astray>>

\* vt_change(), while nobody prints: a terminal that is left with a modifier down or a lock
\* on has other modifiers than the keyboard from then on, and so has the next ("Away").
Change(v) ==
    /\ cur_vt' = IF v \in Vt THEN v ELSE cur_vt
    /\ astray' = IF cur_vt' # cur_vt /\ (down \cap Holding) \cup locked # {}
                  THEN astray \cup {"Away"} ELSE astray

\* vt_keyboard_event(): the Shift that makes a page key scroll is the one behind the ring, as
\* far as the program has read ("Unread").
vt_keyboard_event(k, up) ==
    LET v       == cur_vt
        shifted == kb_mods[v] \cap Shift # {}
        scrolls == k \in {"KEYCODE_PGUP", "KEYCODE_PGDOWN"}
    IN CASE k \in {"KEYCODE_F1", "KEYCODE_F2"} ->
              /\ IF up THEN UNCHANGED <<cur_vt, astray>> ELSE Change(IF k = "KEYCODE_F1" THEN 0 ELSE 1)
              /\ UNCHANGED vts
         [] scrolls /\ shifted ->
              /\ astray' = IF realtime_kb_mods[v] \cap Shift = {} THEN astray \cup {"Unread"} ELSE astray
              /\ UNCHANGED <<cur_vt, vts>>
         [] OTHER ->
              /\ realtime_kb_mods' = [realtime_kb_mods EXCEPT ![v] = do_kb_mods(@, k, up)]
              /\ kb_buf' = [kb_buf EXCEPT ![v] = Append(@, <<k, up>>)]
              /\ astray' = IF scrolls /\ realtime_kb_mods[v] \cap Shift # {}
                            THEN astray \cup {"Unread"} ELSE astray
              /\ UNCHANGED <<cur_vt, kb_mods, kb_queue, mode>>

\* Mutant: the prefix of one key goes on to the next.
PrefixKept == oli_escaped
Prefix == IF escaped > 0 THEN oli_escaped ELSE 0

\* keyboard_handle(): 0xe0 escapes one byte, 0xe1 two, of which the first is ignored.
Interrupt ==
    LET code == Head(wire)
        left == IF escaped > 0 THEN escaped - 1 ELSE 0
        known == KeyOf((code % 128) + Prefix)
    IN /\ wire # <<>> /\ wire' = Tail(wire)
       /\ IF code \in {224, 225} THEN escaped' = code - 223 /\ oli_escaped' = 128
          ELSE escaped' = left /\ oli_escaped' = Prefix
       /\ IF code \in {224, 225} \/ left > 0 \/ known = {} THEN UNCHANGED <<cur_vt, vts, astray>>
          ELSE vt_keyboard_event(CHOOSE k \in known : TRUE, code > 127)
       /\ UNCHANGED <<down, locked, got, due, keys>>

-----------------------------------------------------------------------------
(* The programs                                                            *)

\* The bytes of a code are put into what is left of the buffer, up to the middle of it: the loop
\* has a byte less to go with each that it has put there.
Fitting(bytes, room) == IF 2 * Len(bytes) <= room + 1 THEN Len(bytes) ELSE (room + 1) \div 2

\* The loop of vt_fread() for n bytes or, in the other modes, numbers: an event is read and what
\* it gives goes into the buffer, the rest of a code into the queue.  What comes behind it in
\* the same read is given before it.
ReadEvent(read, event, m, n) ==
    LET mods  == do_kb_mods(read.mods, event[1], event[2])
        given == Item(m, event[1], event[2], mods)
        fits  == Fitting(given, n - Len(read.out))
    IN IF Len(read.out) >= n THEN read
       ELSE [mods |-> mods, used |-> read.used + 1,
             out |-> read.out \o SubSeq(given, 1, fits),
             queue |-> read.queue \o SubSeq(given, fits + 1, Len(given)),
             overtaken |-> read.overtaken \/ (read.queue # <<>> /\ given # <<>>)]

ReadEvents(begun, events, m, n) ==
    LET read[i \in 0..Len(events)] == IF i = 0 THEN begun ELSE ReadEvent(read[i - 1], events[i], m, n)
    IN read[Len(events)]

\* vt_fread(): first what is left in the queue, then one event after the other until there is
\* enough.  A read that blocks goes on when there are more events, as another read of the rest
\* would; but it does not look at the queue any more, so that what it gets then comes too early
\* if there is something in it ("Overtaken").
vt_fread(v, n, block) ==
    LET queue  == kb_queue[v]
        queued == IF mode[v] # "normal" THEN 0 ELSE IF Len(queue) < n THEN Len(queue) ELSE n
        begun  == [mods |-> kb_mods[v], used |-> 0, out |-> SubSeq(queue, 1, queued),
                   queue |-> SubSeq(queue, queued + 1, Len(queue)), overtaken |-> FALSE]
        read   == ReadEvents(begun, kb_buf[v], mode[v], n)
        goes_on == block /\ Len(read.out) < n
    IN /\ kb_mods' = [kb_mods EXCEPT ![v] = read.mods]
       /\ kb_buf' = [kb_buf EXCEPT ![v] = SubSeq(@, read.used + 1, Len(@))]
       /\ kb_queue' = [kb_queue EXCEPT ![v] = read.queue]
       /\ got' = [got EXCEPT ![v] = @ \o read.out]
       /\ astray' = IF read.overtaken \/ (goes_on /\ read.queue # <<>>)
                    THEN astray \cup {"Overtaken"} ELSE astray
       /\ UNCHANGED <<hands, driver, cur_vt, realtime_kb_mods, mode, due, keys>>

\* IOCTL_VT_READMODE, which a program chooses before there is anything to read.
SetMode(v, m) ==
    /\ due[v] = <<>> /\ kb_buf[v] = <<>> /\ wire = <<>>
    /\ mode' = [mode EXCEPT ![v] = m]
    /\ UNCHANGED <<hands, driver, cur_vt, realtime_kb_mods, kb_mods, kb_buf, kb_queue, got, due, astray, keys>>

KeyboardNext ==
    \/ \E k \in Typed : KeyMoves(k)
    \/ Interrupt
    \/ \E v \in Vt : \/ /\ kb_buf[v] # <<>> \/ kb_queue[v] # <<>>
                        /\ \E n \in {1, 4}, block \in BOOLEAN : vt_fread(v, n, block)
                     \/ \E m \in Modes : SetMode(v, m)

KeyboardSpec == KeyboardInit /\ [][KeyboardNext]_keyboardVars

-----------------------------------------------------------------------------
\* One sequence begins with another.
StartsWith(whole, part) == Len(part) <= Len(whole) /\ part = SubSeq(whole, 1, Len(part))

\* What the reads give, and the queue holds for the next, is what the keys mean that were
\* typed, in their order, by the modifiers that were down; and all of it when everything
\* is read.
KeysArrive ==
    \A v \in Vt :
        LET read == got[v] \o kb_queue[v]
        IN /\ StartsWith(due[v], read)
           /\ wire = <<>> /\ kb_buf[v] = <<>> => read = due[v]

\* The modifiers of the interrupt are the keys that are down and the locks that are on.
ModifiersHeld == wire = <<>> => realtime_kb_mods[cur_vt] = (down \cap Holding) \cup locked

\* The rest of a code fits into the queue: there is nothing left of the one before.
QueueFits == \A v \in Vt : Len(kb_queue[v]) <= QueueSize

\* A program reads what the keys mean that were typed, in their order, byte by byte or in reads of
\* any size, as long as no mishap has led the keys or their bytes astray.
KeyboardServes == astray = {} => KeysArrive /\ ModifiersHeld /\ QueueFits
=============================================================================
