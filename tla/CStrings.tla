------------------------------ MODULE CStrings ------------------------------
(***************************************************************************)
(* The functions of src/putka-clib/src/string.c, and memset() of           *)
(* string.asm, on a small memory.  A call names the function, two          *)
(* addresses, a byte and a count; it changes the memory a byte at a time,  *)
(* in the order of the loop, so that what overlaps is read as it was       *)
(* written.  Calls for which C promises nothing are not made.              *)
(***************************************************************************)
EXTENDS Integers, FiniteSetsExt, SequencesExt

CONSTANTS
    Size,       \* bytes of memory
    Byte        \* the values of a byte; 0 ends a string

StringAssumption == Size \in Nat \ {0} /\ 0 \in Byte /\ Byte \subseteq Nat

VARIABLES
    mem,        \* the memory
    call,       \* the call that is made
    returned,   \* <<>> before the call returns
    before      \* history: the memory the call found

vars == <<mem, call, returned, before>>

Address == 0..Size - 1
Nowhere == -1                               \* a null pointer

Calls == [f : {"memchr", "memcmp", "memccpy", "memcpy", "memmove", "memset", "strcat", "strchr", "strcmp",
               "strcpy", "strlen", "strncat", "strncmp", "strncpy", "strstr", "strrmsame"},
          a : Address, b : Address, c : Byte, n : 0..Size]

\* The length of the string at s.  Only asked where there is one.
strlen(m, s) == Min({k \in 0..Size - 1 - s : m[s + k] = 0})
IsString(m, s) == \E k \in s..Size - 1 : m[k] = 0

Apart(a, la, b, lb) == a + la <= b \/ b + lb <= a

-----------------------------------------------------------------------------
(* The loops *)

\* n bytes, the first one first.
Forward(m, to, from, n) ==
    LET done[k \in 0..n] == IF k = 0 THEN m ELSE [done[k - 1] EXCEPT ![to + k - 1] = done[k - 1][from + k - 1]]
    IN done[n]

\* n bytes, the last one first.
Backward(m, to, from, n) ==
    LET done[k \in 0..n] == IF k = 0 THEN m ELSE [done[k - 1] EXCEPT ![to + n - k] = done[k - 1][from + n - k]]
    IN done[n]

\* Mutant: the direction is chosen the wrong way round.
MovedBackwards(m, to, from, n) ==
    CASE from = to -> m [] from < to -> Forward(m, to, from, n) [] OTHER -> Backward(m, to, from, n)

memmove(m, to, from, n) ==
    CASE from = to -> m [] from > to -> Forward(m, to, from, n) [] OTHER -> Backward(m, to, from, n)

\* Doublewords first, then the odd bytes.
memset(m, to, c, n) == [x \in Address |-> IF x \in to..to + 4 * (n \div 4) + (n % 4) - 1 THEN c ELSE m[x]]

\* The pointers of memccpy() stand still.
memccpy(m, to, from, n) == IF n = 0 THEN m ELSE [m EXCEPT ![to] = m[from]]

\* The string, cut to n characters, and a terminator behind it.
Append0(m, to, from, n) == [Forward(m, to, from, n) EXCEPT ![to + n] = 0]

AtMost(n, bound) == IF n < bound THEN n ELSE bound

\* Where two stretches first differ within n bytes; in strings also where they end.
FirstDifference(m, a, b, n, strings) ==
    LET stop == {k \in 0..n - 1 : m[a + k] # m[b + k] \/ (strings /\ m[a + k] = 0)}
    IN IF stop = {} THEN n ELSE Min(stop)

First(m, s, c, n) == LET hit == {k \in 0..n - 1 : m[s + k] = c} IN IF hit = {} THEN Nowhere ELSE s + Min(hit)

\* strstr(): the loop over str ends before its terminator.
strstr(m, s, seek) ==
    LET found == {k \in 0..strlen(m, s) - 1 : \A i \in 0..strlen(m, seek) - 1 : m[s + k + i] = m[seek + i]}
    IN IF found = {} THEN Nowhere ELSE s + Min(found)

memchr(m, s, c, n) == First(m, s, c, n)
strchr(m, s, c) == First(m, s, c, strlen(m, s) + 1)

\* To the end of memory from whichever begins later: two strings differ or end before.
Reach(a, b) == Size - (IF a < b THEN b ELSE a)

memcmp(m, a, b, n) ==
    LET at == FirstDifference(m, a, b, n, FALSE) IN IF at = n THEN 0 ELSE m[a + at] - m[b + at]
strcmp(m, a, b) ==
    LET at == FirstDifference(m, a, b, Reach(a, b), TRUE) IN m[a + at] - m[b + at]
strncmp(m, a, b, n) ==
    LET at == FirstDifference(m, a, b, AtMost(n, Reach(a, b)), TRUE) IN IF at = n THEN 0 ELSE m[a + at] - m[b + at]
strrmsame(m, a, b) == a + FirstDifference(m, a, b, Reach(a, b), TRUE)

strcpy(m, to, from) == Append0(m, to, from, strlen(m, from))
strncpy(m, to, from, n) ==
    LET k == AtMost(strlen(m, from), n) IN memset(Forward(m, to, from, k), to + k, 0, n - k)
strcat(m, to, from) == Append0(m, to + strlen(m, to), from, strlen(m, from))
strncat(m, to, from, n) == Append0(m, to + strlen(m, to), from, AtMost(strlen(m, from), n))

-----------------------------------------------------------------------------
\* What C requires of the caller.
Allowed(m, d) ==
    LET len(s) == strlen(m, s)
        string(s) == IsString(m, s)
    IN CASE d.f \in {"memchr", "memset"} -> d.a + d.n <= Size /\ d.b = 0
         [] d.f \in {"memcmp", "memmove"} -> d.a + d.n <= Size /\ d.b + d.n <= Size /\ d.c = 0
         [] d.f \in {"memccpy", "memcpy"} ->
               /\ d.a + d.n <= Size /\ d.b + d.n <= Size /\ Apart(d.a, d.n, d.b, d.n)
               /\ d.f = "memccpy" \/ d.c = 0
         [] d.f \in {"strlen", "strchr"} -> string(d.a) /\ d.b = 0 /\ d.n = 0
         [] d.f \in {"strcmp", "strstr", "strrmsame"} -> string(d.a) /\ string(d.b) /\ d.c = 0 /\ d.n = 0
         [] d.f = "strncmp" -> string(d.a) /\ string(d.b) /\ d.c = 0
         [] d.f = "strcpy" -> /\ string(d.b) /\ d.c = 0 /\ d.n = 0 /\ d.a + len(d.b) < Size
                              /\ Apart(d.a, len(d.b) + 1, d.b, len(d.b) + 1)
         [] d.f = "strncpy" -> /\ string(d.b) /\ d.c = 0 /\ d.a + d.n <= Size
                               /\ Apart(d.a, d.n, d.b, len(d.b) + 1)
         [] d.f \in {"strcat", "strncat"} ->
               /\ string(d.a) /\ string(d.b) /\ d.c = 0 /\ (d.f = "strncat" \/ d.n = 0)
               /\ d.a + len(d.a) + len(d.b) < Size
               /\ Apart(d.a, len(d.a) + len(d.b) + 1, d.b, len(d.b) + 1)

\* What the function leaves in memory.
Memory(m, d) ==
    CASE d.f = "memcpy" -> Forward(m, d.a, d.b, d.n)
      [] d.f = "memmove" -> memmove(m, d.a, d.b, d.n)
      [] d.f = "memccpy" -> memccpy(m, d.a, d.b, d.n)
      [] d.f = "memset" -> memset(m, d.a, d.c, d.n)
      [] d.f = "strcpy" -> strcpy(m, d.a, d.b)
      [] d.f = "strncpy" -> strncpy(m, d.a, d.b, d.n)
      [] d.f = "strcat" -> strcat(m, d.a, d.b)
      [] d.f = "strncat" -> strncat(m, d.a, d.b, d.n)
      [] OTHER -> m

\* What the function returns.  memset() leaves its pattern in eax.
Returned(m, d) ==
    CASE d.f = "memchr" -> memchr(m, d.a, d.c, d.n)
      [] d.f = "strchr" -> strchr(m, d.a, d.c)
      [] d.f = "memcmp" -> memcmp(m, d.a, d.b, d.n)
      [] d.f = "strcmp" -> strcmp(m, d.a, d.b)
      [] d.f = "strncmp" -> strncmp(m, d.a, d.b, d.n)
      [] d.f = "strrmsame" -> strrmsame(m, d.a, d.b)
      [] d.f = "strlen" -> strlen(m, d.a)
      [] d.f = "strstr" -> strstr(m, d.a, d.b)
      [] d.f = "memccpy" -> IF d.n > 0 /\ m[d.b] = d.c THEN d.a + 1 ELSE Nowhere
      [] d.f = "memset" -> d.c * 16843009
      [] OTHER -> d.a

Init ==
    /\ mem \in [Address -> Byte]
    /\ call \in Calls /\ Allowed(mem, call)
    /\ returned = <<>>
    /\ before = mem

Call ==
    /\ returned = <<>>
    /\ mem' = Memory(mem, call)
    /\ returned' = <<Returned(mem, call)>>
    /\ UNCHANGED <<call, before>>

Spec == Init /\ [][Call]_vars

-----------------------------------------------------------------------------
(* What C asks for *)

\* The n bytes at s, and the characters of the string at s, as they were before the call.
Bytes(s, n) == [k \in 1..n |-> before[s + k - 1]]
Text(s) == Bytes(s, strlen(before, s))

\* A sequence is put at an address, and nothing else changes.
Holds(to, text) ==
    mem = [x \in Address |-> IF x \in to..to + Len(text) - 1 THEN text[x - to + 1] ELSE before[x]]

Zeros(n) == [k \in 1..n |-> 0]

Sign(x) == CASE x < 0 -> -1 [] x = 0 -> 0 [] OTHER -> 1

\* Of two different sequences the one that is a beginning of the other is the smaller one.
Compared(s, t) ==
    IF s = t THEN 0
    ELSE IF IsPrefix(s, t) \/ \E k \in 1..AtMost(Len(s), Len(t)) :
                                  s[k] < t[k] /\ \A i \in 1..k - 1 : s[i] = t[i]
         THEN -1 ELSE 1

\* Every call leaves in memory what C says, and what it returns is right, except for
\* memset(), whose result nobody uses, memccpy() with more than a byte to copy, and an
\* empty string that is searched for in an empty one.
StringsAgree ==
    returned # <<>> =>
        LET d == call
            r == returned[1]
            copied == AtMost(strlen(before, d.b), d.n)
        IN CASE d.f \in {"memcpy", "memmove"} -> Holds(d.a, Bytes(d.b, d.n)) /\ r = d.a
             [] d.f = "memset" -> Holds(d.a, [k \in 1..d.n |-> d.c])
             [] d.f = "memccpy" ->
                   d.n = 1 \/ (d.n > 0 /\ before[d.b] = d.c) =>
                       Holds(d.a, Bytes(d.b, 1)) /\ r = IF before[d.b] = d.c THEN d.a + 1 ELSE Nowhere
             [] d.f = "strcpy" -> Holds(d.a, Text(d.b) \o <<0>>) /\ r = d.a
             [] d.f = "strncpy" -> Holds(d.a, SubSeq(Text(d.b), 1, copied) \o Zeros(d.n - copied)) /\ r = d.a
             [] d.f = "strcat" -> Holds(d.a, Text(d.a) \o Text(d.b) \o <<0>>) /\ r = d.a
             [] d.f = "strncat" -> Holds(d.a, Text(d.a) \o SubSeq(Text(d.b), 1, copied) \o <<0>>) /\ r = d.a
             [] d.f = "memcmp" -> Sign(r) = Compared(Bytes(d.a, d.n), Bytes(d.b, d.n))
             [] d.f = "strcmp" -> Sign(r) = Compared(Text(d.a), Text(d.b))
             [] d.f = "strncmp" ->
                   Sign(r) = Compared(SubSeq(Text(d.a), 1, AtMost(strlen(before, d.a), d.n)), SubSeq(Text(d.b), 1, copied))
             [] d.f = "strstr" ->
                   LET found == {x \in d.a..d.a + strlen(before, d.a) - 1 : IsPrefix(Text(d.b), Text(x))}
                   IN r = IF found = {} THEN Nowhere ELSE Min(found)
             [] OTHER -> Holds(d.a, <<>>)
=============================================================================
