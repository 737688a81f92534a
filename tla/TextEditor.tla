----------------------------- MODULE TextEditor -----------------------------
(***************************************************************************)
(* The text editor (src/src/utils/texteditor.c): a file is read into rows  *)
(* that end in a zero, edited byte by byte as fread() gives the bytes of   *)
(* the keys, and written back.  A byte is compared with KEY_UP and the     *)
(* others, which no byte is equal to: the branches for the arrows and page *)
(* keys are never taken, and such a key is an Escape, a command that is    *)
(* none and a letter.  What is drawn on the screen is left out.            *)
(***************************************************************************)
EXTENDS Integers, SequencesExt

CONSTANTS
    Letter,         \* the bytes from the space on, and the tab
    Files,          \* what the file may hold
    Room,           \* the bytes the disk has room for
    MaxBytes        \* bounds the bytes of a session

Byte == Letter \cup {"nul", "lf"} \cup UNION {{f[i] : i \in DOMAIN f} : f \in Files}

ASSUME EditorAssumption ==
    /\ {"nul", "lf"} \cap Letter = {} /\ Files \subseteq Seq(Byte)
    /\ Room \in Nat /\ MaxBytes \in Nat

VARIABLES
    disk,                       \* the file
    editing,                    \* "closed", "editing", "command" behind an Escape
    rows,                       \* the rows without their zeros: len is one more
    currentrow, currentcol,     \* counted from 1 and from 0
    message, writable,
    before, behind,             \* history: the text, parted where the cursor is
    written,                    \* history: the text that was written last
    blunders,                   \* history: see Backspace, editor_write
    pressed

efile == <<rows, currentrow, currentcol>>
noted == <<message, writable>>
past == <<before, behind, written>>
editorVars == <<disk, editing, efile, noted, past, blunders, pressed>>

\* The rows of a text, which line feeds part.
RowsWith(lines, c) ==
    IF c = "lf" THEN Append(lines, <<>>) ELSE [lines EXCEPT ![Len(lines)] = Append(@, c)]
Lines(read) ==
    LET lines[k \in 0..Len(read)] == IF k = 0 THEN <<<<>>>> ELSE RowsWith(lines[k - 1], read[k])
    IN lines[Len(read)]

\* The text of rows, with a line feed between any two.
Joined(lines) ==
    LET all[k \in 1..Len(lines)] == IF k = 1 THEN lines[1] ELSE all[k - 1] \o <<"lf">> \o lines[k]
    IN all[Len(lines)]

EditorInit ==
    /\ disk \in Files
    /\ editing = "closed"
    /\ rows = <<<<>>>> /\ currentrow = 1 /\ currentcol = 0
    /\ message = "none" /\ writable = FALSE
    /\ before = <<>> /\ behind = <<>> /\ written = disk /\ blunders = {} /\ pressed = 0

\* editor_main() up to its loop: "r+" first, then "r", and without either no editor.
OpenFile(access) ==
    /\ editing = "closed" /\ pressed = 0
    /\ editing' = IF access = "none" THEN "closed" ELSE "editing"
    /\ pressed' = 1
    /\ rows' = IF access = "none" THEN rows ELSE Lines(disk)
    /\ writable' = (access = "r+")
    /\ behind' = IF access = "none" THEN <<>> ELSE disk
    /\ UNCHANGED <<disk, currentrow, currentcol, message, before, written, blunders>>

-----------------------------------------------------------------------------
(* The bytes of the keys                                                   *)

ReadByte(s) == editing = s /\ pressed < MaxBytes /\ pressed' = pressed + 1

Row == rows[currentrow]

\* A byte from the space on, or a tab.
Type(c) ==
    /\ ReadByte("editing")
    /\ rows' = [rows EXCEPT ![currentrow] = InsertAt(@, currentcol + 1, c)]
    /\ currentcol' = currentcol + 1
    /\ before' = Append(before, c)
    /\ UNCHANGED <<disk, editing, currentrow, noted, behind, written, blunders>>

\* '\n': the rows behind move one down, and the row is parted at the cursor.
NewLine ==
    /\ ReadByte("editing")
    /\ rows' = SubSeq(rows, 1, currentrow - 1)
               \o <<SubSeq(Row, 1, currentcol), SubSeq(Row, currentcol + 1, Len(Row))>>
               \o SubSeq(rows, currentrow + 1, Len(rows))
    /\ currentrow' = currentrow + 1 /\ currentcol' = 0
    /\ before' = Append(before, "lf")
    /\ UNCHANGED <<disk, editing, noted, behind, written, blunders>>

\* Mutant: the row comes behind the zero of the one above, and its own last byte is cut.
JoinedShort(r) == SubSeq(rows, 1, r - 2) \o <<Front(rows[r - 1] \o <<"nul">> \o rows[r])>>
                  \o SubSeq(rows, r + 1, Len(rows))
JoinedRows(r) == SubSeq(rows, 1, r - 2) \o <<rows[r - 1] \o rows[r]>> \o SubSeq(rows, r + 1, Len(rows))

\* The loop that moves the rest of a row to the left ends at a zero of the file's own; the
\* row is shorter by one all the same ("Nul").
Without(row, k) ==
    LET moved == [i \in 1..Len(row) |-> IF i < k THEN row[i] ELSE IF i < Len(row) THEN row[i + 1] ELSE "nul"]
        stop  == IF \E i \in k..Len(row) : moved[i] = "nul"
                 THEN CHOOSE i \in k..Len(row) : moved[i] = "nul" /\ \A j \in k..i - 1 : moved[j] # "nul"
                 ELSE Len(row)
    IN [i \in 1..Len(row) - 1 |-> IF i <= stop THEN moved[i] ELSE row[i]]

\* '\b': in the row, or at its beginning the row goes behind the one above.
Backspace ==
    /\ ReadByte("editing")
    /\ IF currentcol > 0
       THEN /\ rows' = [rows EXCEPT ![currentrow] = Without(@, currentcol)]
            /\ currentcol' = currentcol - 1
            /\ blunders' = IF \E i \in currentcol + 1..Len(Row) : Row[i] = "nul"
                           THEN blunders \cup {"Nul"} ELSE blunders
            /\ UNCHANGED currentrow
       ELSE IF currentrow > 1
       THEN /\ rows' = JoinedRows(currentrow)
            /\ currentrow' = currentrow - 1
            /\ currentcol' = Len(rows[currentrow - 1])
            /\ UNCHANGED blunders
       ELSE UNCHANGED <<efile, blunders>>
    /\ before' = IF before = <<>> THEN before ELSE Front(before)
    /\ UNCHANGED <<disk, editing, noted, behind, written>>

\* Another control character is passed over.
PassOver == ReadByte("editing") /\ UNCHANGED <<disk, editing, efile, noted, past, blunders>>

Escape == ReadByte("editing") /\ editing' = "command" /\ UNCHANGED <<disk, efile, noted, past, blunders>>

\* editor_write(): the file is cut to nothing, then written row by row; that the disk is
\* full is not noticed ("Full").
editor_write(opens) ==
    LET all == Joined(rows)
    IN /\ ReadByte("command") /\ editing' = "editing"
       /\ IF opens
          THEN /\ disk' = SubSeq(all, 1, IF Len(all) < Room THEN Len(all) ELSE Room)
               /\ message' = "wrote"
               /\ written' = before \o behind
               /\ blunders' = IF Len(all) > Room THEN blunders \cup {"Full"} ELSE blunders
               /\ UNCHANGED writable
          ELSE /\ message' = "can't open for w" /\ writable' = FALSE
               /\ UNCHANGED <<disk, written, blunders>>
       /\ UNCHANGED <<efile, before, behind>>

\* Any other byte behind an Escape is no command.
NoCommand == ReadByte("command") /\ editing' = "editing" /\ UNCHANGED <<disk, efile, noted, past, blunders>>

\* 'q': what is not written is lost.
Quit ==
    /\ ReadByte("command") /\ editing' = "closed"
    /\ rows' = <<<<>>>> /\ currentrow' = 1 /\ currentcol' = 0
    /\ before' = <<>> /\ behind' = <<>>
    /\ UNCHANGED <<disk, noted, written, blunders>>

EditorNext ==
    \/ \E access \in {"r+", "r", "none"} : OpenFile(access)
    \/ \E c \in Letter : Type(c)
    \/ NewLine \/ Backspace \/ PassOver \/ Escape \/ NoCommand \/ Quit
    \/ \E opens \in BOOLEAN : editor_write(opens)

EditorSpec == EditorInit /\ [][EditorNext]_editorVars

-----------------------------------------------------------------------------
\* The rows are the text that was read and typed, the cursor is where it was typed last.
TextIsEdited ==
    "Nul" \notin blunders =>
        /\ rows = Lines(before \o behind)
        /\ currentrow = Len(Lines(before)) /\ currentcol = Len(Last(Lines(before)))

\* The disk has the text as it was when it was written last, or read.
WrittenIsText == blunders = {} => disk = written

\* The rows of the editor are the text that was read and typed, and the disk has it when it was
\* written.
EditorServes == TextIsEdited /\ WrittenIsText
=============================================================================
