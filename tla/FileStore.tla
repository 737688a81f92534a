----------------------------- MODULE FileStore ------------------------------
(***************************************************************************)
(* What a file system promises: names stand for files, a file is an array  *)
(* of bytes that only writing to it changes, and a handle is a position in *)
(* the file it was opened for.  Any call may fail, and then it has changed *)
(* nothing.                                                                *)
(***************************************************************************)
EXTENDS Naturals, Sequences, Functions

CONSTANTS Name, Handle, Byte, File, Longest

VARIABLES
    names,      \* the file a name stands for
    contents,   \* the bytes of each file
    handles,    \* of the open ones, the file and the position
    got         \* <<bytes>> after a call that reads, <<>> after another one

vars == <<names, contents, handles, got>>

Removed == 0        \* for a file that has lost its last name
Extend(f, x, y) == [z \in DOMAIN f \cup {x} |-> IF z = x THEN y ELSE f[z]]
Without(f, x)   == Restrict(f, DOMAIN f \ {x})

\* What lies between the end of a file and what is written behind it is zero.
Overlay(bytes, position, new) ==
    LET last == position + Len(new)
    IN  [i \in 1..(IF last > Len(bytes) THEN last ELSE Len(bytes)) |->
            IF i \in (position + 1)..last THEN new[i - position]
            ELSE IF i \in DOMAIN bytes THEN bytes[i] ELSE 0]

Init ==
    /\ DOMAIN names \subseteq Name /\ Range(names) \subseteq File /\ DOMAIN contents = Range(names)
    /\ handles = <<>> /\ got = <<>>

Opened(h, file, cleared) ==
    LET bytes == IF cleared THEN <<>> ELSE contents[file] IN
    /\ contents' = Extend(contents, file, bytes)
    /\ \E position \in {0, Len(bytes)} :
          handles' = Extend(handles, h, [file |-> file, position |-> position])

Open(h) ==
    /\ h \notin DOMAIN handles
    /\ \/ /\ UNCHANGED names
          /\ \E name \in DOMAIN names, cleared \in BOOLEAN : Opened(h, names[name], cleared)
       \/ \E name \in Name \ DOMAIN names, file \in File \ DOMAIN contents :
             names' = Extend(names, name, file) /\ Opened(h, file, TRUE)

\* Nothing is read only at the end.
Read(h) ==
    /\ h \in DOMAIN handles /\ handles[h].file # Removed
    /\ LET bytes    == contents[handles[h].file]
           position == handles[h].position
       IN  \E n \in 1..(Len(bytes) - position) :
              /\ got' = <<SubSeq(bytes, position + 1, position + n)>>
              /\ handles' = [handles EXCEPT ![h].position = position + n]
    /\ UNCHANGED <<names, contents>>

ReadNothing ==
    /\ \E h \in DOMAIN handles :
          handles[h].file = Removed \/ handles[h].position >= Len(contents[handles[h].file])
    /\ got' = <<<<>>>> /\ UNCHANGED <<names, contents, handles>>

Write(h) ==
    /\ h \in DOMAIN handles /\ handles[h].file # Removed
    /\ LET file == handles[h].file IN
       \E n \in 1..Longest, position \in {handles[h].position, Len(contents[file])} :
       \E bytes \in [1..n -> Byte] :
          /\ contents' = [contents EXCEPT ![file] = Overlay(@, position, bytes)]
          /\ handles' = [handles EXCEPT ![h].position = position + n]
    /\ UNCHANGED names

Seek(h) ==
    /\ h \in DOMAIN handles /\ h \in DOMAIN handles'
    /\ handles' = [handles EXCEPT ![h].position = handles'[h].position]
    /\ UNCHANGED <<names, contents>>

Close(h) == h \in DOMAIN handles /\ handles' = Without(handles, h) /\ UNCHANGED <<names, contents>>

Unlink(name) ==
    /\ name \in DOMAIN names /\ names' = Without(names, name)
    /\ IF names[name] \in {names'[other] : other \in DOMAIN names'}
       THEN UNCHANGED <<contents, handles>>
       ELSE /\ contents' = Without(contents, names[name])
            /\ handles' = [h \in DOMAIN handles |-> IF handles[h].file = names[name]
                              THEN [handles[h] EXCEPT !.file = Removed] ELSE handles[h]]

\* A link is another name for a file.
Link(name) ==
    /\ name \in Name \ DOMAIN names
    /\ \E old \in DOMAIN names : names' = Extend(names, name, names[old])
    /\ UNCHANGED <<contents, handles>>

Silent == (\E name \in Name : Unlink(name) \/ Link(name)) \/ UNCHANGED <<names, contents, handles>>

Next ==
    \/ ReadNothing \/ \E h \in Handle : Read(h)
    \/ got' = <<>> /\ (Silent \/ \E h \in Handle : Open(h) \/ Write(h) \/ Seek(h) \/ Close(h))

Spec == Init /\ [][Next]_vars
=============================================================================
