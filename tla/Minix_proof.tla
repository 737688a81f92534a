---------------------------- MODULE Minix_proof ----------------------------
EXTENDS Minix, FiniteSetTheorems, WellFoundedInduction, TLAPS

\* A set of natural numbers that is not empty has a least element.
LEMMA Least ==
    ASSUME NEW S \in SUBSET Nat, S # {}
    PROVE  \E p \in S : \A q \in S : p <= q
<1>1. PICK p \in S : \A q \in S : ~(<<q, p>> \in OpToRel(<, Nat))
  BY NatLessThanWellFounded, WFMin
<1>2. ASSUME NEW q \in S, q < p PROVE FALSE
  <2>1. <<q, p>> \in OpToRel(<, Nat)
    BY <1>2 DEF OpToRel
  <2> QED BY <1>1, <2>1
<1> QED BY <1>2

-----------------------------------------------------------------------------
(* The zones of an inode, for any cells.                                   *)

InodeRecord == [type : {"file", "dir"}, size : Nat, refs : Int, std : [1..StdZones -> 0..Zones], indir : 0..Zones]
Slots == 0..(StdZones + Cells - 1)

ZoneIn(C, I, i) == IF i < StdZones THEN I.std[i + 1] ELSE IF I.indir = 0 THEN 0 ELSE C[I.indir][i - StdZones]
ZonesIn(C, I)   == ({ZoneIn(C, I, i) : i \in Slots} \cup {I.indir}) \ {0}

\* The zones of an inode are taken, and each has one place in it.
Own(C, map, I) ==
    /\ ZonesIn(C, I) \subseteq map
    /\ \A i, j \in Slots : i # j /\ ZoneIn(C, I, i) # 0 => ZoneIn(C, I, i) # ZoneIn(C, I, j)
    /\ I.indir # 0 => \A i \in Slots : ZoneIn(C, I, i) # I.indir

\* So are those of many, and no two share one.
AllOwn(C, map, f) ==
    \A n \in DOMAIN f :
       /\ f[n] \in InodeRecord /\ Own(C, map, f[n])
       /\ \A m \in DOMAIN f : m # n => ZonesIn(C, f[n]) \cap ZonesIn(C, f[m]) = {}

SameZones(I, J) == I.std = J.std /\ I.indir = J.indir

\* Two disks agree but for some zones.
Alike(D, C, S) == \A z \in (1..Zones) \ S, k \in Offsets : D[z][k] = C[z][k]

LEMMA SameZonesIn ==
  ASSUME NEW C, NEW I, NEW J, SameZones(I, J), NEW map
  PROVE  /\ \A i \in Slots : ZoneIn(C, I, i) = ZoneIn(C, J, i)
         /\ ZonesIn(C, I) = ZonesIn(C, J) /\ (Own(C, map, I) <=> Own(C, map, J))
<1>1. \A i \in Slots : ZoneIn(C, I, i) = ZoneIn(C, J, i)
  BY DEF ZoneIn, SameZones
<1>2. ZonesIn(C, I) = ZonesIn(C, J)
  BY <1>1 DEF ZonesIn, SameZones
<1>3. I.indir = J.indir
  BY DEF SameZones
<1> QED BY <1>1, <1>2, <1>3 DEF Own

LEMMA FewerOwn ==
  ASSUME NEW C, NEW map, NEW f, AllOwn(C, map, f), NEW g, DOMAIN g \subseteq DOMAIN f,
         \A n \in DOMAIN g : g[n] \in InodeRecord /\ SameZones(g[n], f[n])
  PROVE  AllOwn(C, map, g)
<1> SUFFICES ASSUME NEW n \in DOMAIN g
             PROVE  /\ g[n] \in InodeRecord /\ Own(C, map, g[n])
                    /\ \A m \in DOMAIN g : m # n => ZonesIn(C, g[n]) \cap ZonesIn(C, g[m]) = {}
  BY DEF AllOwn
<1>1. \A m \in DOMAIN g : ZonesIn(C, g[m]) = ZonesIn(C, f[m])
  BY SameZonesIn
<1>2. Own(C, map, g[n])
  <2>1. Own(C, map, f[n])
    BY DEF AllOwn
  <2> QED BY <2>1, SameZonesIn
<1>3. ASSUME NEW m \in DOMAIN g, m # n PROVE ZonesIn(C, g[n]) \cap ZonesIn(C, g[m]) = {}
  <2>1. ZonesIn(C, f[n]) \cap ZonesIn(C, f[m]) = {}
    BY <1>3 DEF AllOwn
  <2> QED BY <1>1, <2>1
<1> QED BY <1>2, <1>3

\* The list of an inode is a zone of its own.
LEMMA ListIsOwn ==
  ASSUME NEW C, NEW I, I.indir # 0
  PROVE  I.indir \in ZonesIn(C, I)
  BY DEF ZonesIn

\* An inode has the zones it had when its list is left alone.
LEMMA ListKept ==
  ASSUME MinixAssumption, NEW C, NEW D, NEW S, Alike(D, C, S), NEW I \in InodeRecord, I.indir # 0 => I.indir \notin S, NEW map
  PROVE  /\ \A i \in Slots : ZoneIn(D, I, i) = ZoneIn(C, I, i)
         /\ ZonesIn(D, I) = ZonesIn(C, I) /\ (Own(D, map, I) <=> Own(C, map, I))
<1>1. ASSUME NEW i \in Slots PROVE ZoneIn(D, I, i) = ZoneIn(C, I, i)
  <2>1. CASE i < StdZones \/ I.indir = 0
    BY <2>1 DEF ZoneIn
  <2>2. CASE ~(i < StdZones) /\ I.indir # 0
    <3>1. i - StdZones \in Offsets
      BY <2>2 DEF Slots, Offsets, MinixAssumption
    <3>2. I.indir \in (1..Zones) \ S
      BY <2>2 DEF InodeRecord, MinixAssumption
    <3>3. D[I.indir][i - StdZones] = C[I.indir][i - StdZones]
      BY <3>1, <3>2 DEF Alike
    <3> QED BY <2>2, <3>3 DEF ZoneIn
  <2> QED BY <2>1, <2>2
<1>2. ZonesIn(D, I) = ZonesIn(C, I)
  BY <1>1 DEF ZonesIn
<1> QED BY <1>1, <1>2 DEF Own

\* The zones of one inode, or of none, are given back.
LEMMA FreedOwn ==
  ASSUME MinixAssumption, NEW C, NEW map, NEW f, AllOwn(C, map, f), NEW D, NEW n, NEW S, Alike(D, C, S), NEW g,
         n \in DOMAIN f => S = ZonesIn(C, f[n]), n \notin DOMAIN f => S = {},
         DOMAIN g \subseteq DOMAIN f \cup {n},
         \A m \in DOMAIN g \ {n} : g[m] \in InodeRecord /\ SameZones(g[m], f[m]),
         n \in DOMAIN g => g[n] \in InodeRecord /\ ZonesIn(D, g[n]) = {}
  PROVE  AllOwn(D, map \ S, g)
<1>1. ASSUME NEW m \in DOMAIN g \ {n}
      PROVE  /\ g[m] \in InodeRecord /\ Own(D, map, g[m]) /\ ZonesIn(D, g[m]) = ZonesIn(C, f[m])
             /\ ZonesIn(D, g[m]) \cap S = {}
  <2>1. m \in DOMAIN f /\ m # n
    BY <1>1
  <2>2. Own(C, map, f[m]) /\ f[m] \in InodeRecord
    BY <2>1 DEF AllOwn
  <2>3. ZonesIn(C, f[m]) \cap S = {}
    BY <2>1 DEF AllOwn
  <2>4. ZonesIn(C, g[m]) = ZonesIn(C, f[m]) /\ Own(C, map, g[m])
    BY <1>1, <2>2, SameZonesIn
  <2>5. g[m].indir # 0 => g[m].indir \notin S
    BY <2>3, <2>4, ListIsOwn
  <2>6. ZonesIn(D, g[m]) = ZonesIn(C, g[m]) /\ Own(D, map, g[m])
    BY <1>1, <2>4, <2>5, ListKept
  <2> QED BY <1>1, <2>3, <2>4, <2>6
<1>2. ASSUME NEW m \in DOMAIN g PROVE Own(D, map \ S, g[m]) /\ g[m] \in InodeRecord
  <2>1. CASE m # n
    BY <1>1, <2>1 DEF Own
  <2>2. CASE m = n
    <3>1. ZonesIn(D, g[m]) = {} /\ g[m] \in InodeRecord
      BY <2>2
    <3>2. \A i \in Slots : ZoneIn(D, g[m], i) = 0
      BY <3>1 DEF ZonesIn
    <3>3. g[m].indir = 0
      BY <3>1 DEF ZonesIn
    <3> QED BY <3>1, <3>2, <3>3 DEF Own
  <2> QED BY <2>1, <2>2
<1>3. ASSUME NEW m \in DOMAIN g, NEW l \in DOMAIN g, l # m
      PROVE  ZonesIn(D, g[m]) \cap ZonesIn(D, g[l]) = {}
  <2>1. CASE m = n \/ l = n
    BY <2>1
  <2>2. CASE m # n /\ l # n
    <3>1. m \in DOMAIN f /\ l \in DOMAIN f
      BY <2>2
    <3>2. ZonesIn(C, f[m]) \cap ZonesIn(C, f[l]) = {}
      BY <1>3, <3>1 DEF AllOwn
    <3> QED BY <1>1, <2>2, <3>2
  <2> QED BY <2>1, <2>2
<1> QED BY <1>2, <1>3 DEF AllOwn

\* I is J with some of its missing direct zones, out of F.
Refilled(I, J, F) ==
    /\ I \in InodeRecord /\ J \in InodeRecord /\ I.indir = J.indir
    /\ \A i \in 1..StdZones : I.std[i] = J.std[i] \/ (J.std[i] = 0 /\ I.std[i] \in F)
    /\ \A i, j \in 1..StdZones : i # j /\ I.std[i] \in F /\ I.std[j] \in F => I.std[i] # I.std[j]

DataZones(C, I) == {ZoneIn(C, I, i) : i \in Slots}

LEMMA RefilledOwn ==
  ASSUME MinixAssumption, NEW C, NEW map, NEW J, Own(C, map, J), NEW F, F \cap map = {}, 0 \notin F, NEW I, Refilled(I, J, F)
  PROVE  /\ Own(C, map \cup ZonesIn(C, I), I) /\ ZonesIn(C, I) \subseteq ZonesIn(C, J) \cup F
         /\ ZonesIn(C, J) \subseteq ZonesIn(C, I) /\ (I.indir # 0 => I.indir \notin DataZones(C, I) \cup F)
<1>1. I.indir = J.indir /\ I \in InodeRecord /\ J \in InodeRecord
  BY DEF Refilled
<1>2. ASSUME NEW i \in Slots
      PROVE  \/ ZoneIn(C, I, i) = ZoneIn(C, J, i)
             \/ i < StdZones /\ ZoneIn(C, J, i) = 0 /\ ZoneIn(C, I, i) \in F
  <2>1. CASE i < StdZones
    <3>1. i + 1 \in 1..StdZones
      BY <2>1 DEF Slots, MinixAssumption
    <3>2. ZoneIn(C, I, i) = I.std[i + 1] /\ ZoneIn(C, J, i) = J.std[i + 1]
      BY <2>1 DEF ZoneIn
    <3> QED BY <2>1, <3>1, <3>2 DEF Refilled
  <2>2. CASE ~(i < StdZones)
    BY <1>1, <2>2 DEF ZoneIn
  <2> QED BY <2>1, <2>2
<1>3. \A i \in Slots : ZoneIn(C, J, i) # 0 => ZoneIn(C, J, i) \in map
  BY DEF Own, ZonesIn
<1>4. J.indir # 0 => J.indir \in map
  BY DEF Own, ZonesIn
<1>5. ASSUME NEW i \in Slots, NEW j \in Slots, i # j, ZoneIn(C, I, i) # 0 PROVE ZoneIn(C, I, i) # ZoneIn(C, I, j)
  <2>1. CASE ZoneIn(C, I, i) \in F /\ ZoneIn(C, I, j) \in F
    <3>1. i < StdZones /\ j < StdZones
      BY <1>2, <1>3, <2>1
    <3>2. i + 1 \in 1..StdZones /\ j + 1 \in 1..StdZones /\ i + 1 # j + 1
      BY <1>5, <3>1 DEF Slots, MinixAssumption
    <3>3. ZoneIn(C, I, i) = I.std[i + 1] /\ ZoneIn(C, I, j) = I.std[j + 1]
      BY <3>1 DEF ZoneIn
    <3> QED BY <2>1, <3>2, <3>3 DEF Refilled
  <2>2. CASE ZoneIn(C, I, i) \notin F /\ ZoneIn(C, I, j) \notin F
    <3>1. ZoneIn(C, I, i) = ZoneIn(C, J, i) /\ ZoneIn(C, I, j) = ZoneIn(C, J, j)
      BY <1>2, <2>2
    <3> QED BY <1>5, <3>1 DEF Own
  <2>3. CASE (ZoneIn(C, I, i) \in F) # (ZoneIn(C, I, j) \in F)
    BY <2>3
  <2> QED BY <2>1, <2>2, <2>3
<1>6. ASSUME I.indir # 0 PROVE I.indir \notin DataZones(C, I) \cup F
  <2>1. I.indir \notin F
    BY <1>1, <1>4, <1>6
  <2>2. \A i \in Slots : ZoneIn(C, I, i) # I.indir
    BY <1>1, <1>2, <1>6, <2>1 DEF Own
  <2> QED BY <2>1, <2>2 DEF DataZones
<1>7. ZonesIn(C, I) \subseteq ZonesIn(C, J) \cup F
  BY <1>1, <1>2 DEF ZonesIn
<1>8. ZonesIn(C, J) \subseteq ZonesIn(C, I)
  <2>1. \A i \in Slots : ZoneIn(C, J, i) # 0 => ZoneIn(C, I, i) = ZoneIn(C, J, i)
    BY <1>2
  <2> QED BY <1>1, <2>1 DEF ZonesIn
<1>9. Own(C, map \cup ZonesIn(C, I), I)
  <2>1. I.indir # 0 => \A i \in Slots : ZoneIn(C, I, i) # I.indir
    BY <1>6 DEF DataZones
  <2> QED BY <1>5, <2>1 DEF Own
<1> QED BY <1>6, <1>7, <1>8, <1>9

\* An inode gets zones that were free, and only those and the ones with its bytes change.
LEMMA GivenOwn ==
  ASSUME MinixAssumption, NEW C, NEW map, NEW f, AllOwn(C, map, f), NEW D, NEW F, F \cap map = {}, 0 \notin F,
         NEW n, NEW J, Own(C, map, J), \A m \in DOMAIN f \ {n} : ZonesIn(C, J) \cap ZonesIn(C, f[m]) = {},
         NEW I, Refilled(I, J, F), Alike(D, C, F \cup DataZones(C, I)),
         NEW g, DOMAIN g \subseteq DOMAIN f \cup {n}, \A m \in DOMAIN g \ {n} : g[m] \in InodeRecord /\ SameZones(g[m], f[m]),
         n \in DOMAIN g => g[n] \in InodeRecord /\ SameZones(g[n], I)
  PROVE  AllOwn(D, map \cup ZonesIn(C, I), g)
<1> DEFINE S == F \cup DataZones(C, I)
<1>1. /\ Own(C, map \cup ZonesIn(C, I), I) /\ ZonesIn(C, I) \subseteq ZonesIn(C, J) \cup F
      /\ I.indir # 0 => I.indir \notin S
  BY RefilledOwn
<1>2. ASSUME NEW m \in DOMAIN g \ {n}
      PROVE  /\ g[m] \in InodeRecord /\ Own(D, map, g[m]) /\ ZonesIn(D, g[m]) = ZonesIn(C, f[m])
             /\ ZonesIn(D, g[m]) \cap ZonesIn(C, I) = {}
  <2>1. m \in DOMAIN f /\ m # n
    BY <1>2
  <2>2. Own(C, map, f[m]) /\ f[m] \in InodeRecord
    BY <2>1 DEF AllOwn
  <2>3. ZonesIn(C, f[m]) \subseteq map
    BY <2>2 DEF Own
  <2>4. ZonesIn(C, f[m]) \cap ZonesIn(C, I) = {}
    BY <1>1, <2>1, <2>3
  <2>5. ZonesIn(C, g[m]) = ZonesIn(C, f[m]) /\ Own(C, map, g[m])
    BY <1>2, <2>2, SameZonesIn
  <2>6. g[m].indir # 0 => g[m].indir \notin S
    <3>1. DataZones(C, I) \subseteq ZonesIn(C, I) \cup {0}
      BY DEF DataZones, ZonesIn
    <3> QED BY <2>3, <2>4, <2>5, <3>1, ListIsOwn
  <2>7. ZonesIn(D, g[m]) = ZonesIn(C, g[m]) /\ Own(D, map, g[m])
    BY <1>2, <2>5, <2>6, ListKept
  <2> QED BY <1>2, <2>4, <2>5, <2>7
<1>3. ASSUME n \in DOMAIN g
      PROVE  Own(D, map \cup ZonesIn(C, I), g[n]) /\ g[n] \in InodeRecord /\ ZonesIn(D, g[n]) = ZonesIn(C, I)
  <2>1. ZonesIn(C, g[n]) = ZonesIn(C, I) /\ Own(C, map \cup ZonesIn(C, I), g[n]) /\ g[n].indir = I.indir
    BY <1>1, <1>3, SameZonesIn DEF SameZones
  <2>2. ZonesIn(D, g[n]) = ZonesIn(C, g[n]) /\ Own(D, map \cup ZonesIn(C, I), g[n])
    BY <1>1, <1>3, <2>1, ListKept
  <2> QED BY <1>3, <2>1, <2>2
<1>4. ASSUME NEW m \in DOMAIN g PROVE Own(D, map \cup ZonesIn(C, I), g[m]) /\ g[m] \in InodeRecord
  <2>1. CASE m # n
    BY <1>2, <2>1 DEF Own
  <2>2. CASE m = n
    BY <1>3, <2>2
  <2> QED BY <2>1, <2>2
<1>5. ASSUME NEW m \in DOMAIN g, NEW l \in DOMAIN g, l # m
      PROVE  ZonesIn(D, g[m]) \cap ZonesIn(D, g[l]) = {}
  <2>1. CASE m = n
    BY <1>2, <1>3, <1>5, <2>1
  <2>2. CASE l = n
    BY <1>2, <1>3, <1>5, <2>2
  <2>3. CASE m # n /\ l # n
    <3>1. m \in DOMAIN f /\ l \in DOMAIN f
      BY <2>3
    <3>2. ZonesIn(C, f[m]) \cap ZonesIn(C, f[l]) = {}
      BY <1>5, <3>1 DEF AllOwn
    <3> QED BY <1>2, <2>3, <3>2
  <2> QED BY <2>1, <2>2, <2>3
<1> QED BY <1>4, <1>5 DEF AllOwn

-----------------------------------------------------------------------------
(* minix_get_zones()                                                       *)

Below(S, z) == {y \in S : y < z}

\* Of a finite set of numbers there is a member with any number of others below it.
LEMMA Ranked ==
  ASSUME NEW S \in SUBSET Nat, IsFiniteSet(S), NEW k \in Nat, k < Cardinality(S)
  PROVE  \E z \in S : Cardinality(Below(S, z)) = k
<1>1. PICK Bad : Bad = {l \in Nat : l < Cardinality(S) /\ ~\E z \in S : Cardinality(Below(S, z)) = l}
  OBVIOUS
<1>2. ASSUME Bad # {} PROVE FALSE
  <2>1. PICK l \in Bad : \A j \in Bad : l <= j
    BY <1>1, <1>2, Least
  <2>2. l \in Nat /\ l < Cardinality(S) /\ \A z \in S : Cardinality(Below(S, z)) # l
    BY <1>1, <2>1
  <2>3. Cardinality(S) \in Nat
    BY FS_CardinalityType
  <2>4. \E T \in SUBSET S : Cardinality(T) = l /\ \A y \in S, x \in T : y <= x => y \in T
    <3>1. CASE l = 0
      BY <3>1, FS_EmptySet
    <3>2. CASE l # 0
      <4>1. l - 1 \in Nat /\ l - 1 \notin Bad /\ l - 1 < Cardinality(S)
        BY <2>1, <2>2, <2>3, <3>2
      <4>2. PICK z \in S : Cardinality(Below(S, z)) = l - 1
        BY <1>1, <4>1
      <4>3. Below(S, z) \in SUBSET S /\ z \notin Below(S, z)
        BY DEF Below
      <4>4. IsFiniteSet(Below(S, z))
        BY <4>3, FS_Subset
      <4>5. Cardinality(Below(S, z) \cup {z}) = l
        <5>1. Cardinality(Below(S, z) \cup {z}) = Cardinality(Below(S, z)) + 1
          BY <4>3, <4>4, FS_AddElement
        <5> QED BY <2>2, <4>2, <5>1
      <4>6. \A y \in S, x \in Below(S, z) \cup {z} : y <= x => y \in Below(S, z) \cup {z}
        BY DEF Below
      <4> QED BY <4>3, <4>5, <4>6
    <3> QED BY <3>1, <3>2
  <2>5. PICK T \in SUBSET S : Cardinality(T) = l /\ \A y \in S, x \in T : y <= x => y \in T
    BY <2>4
  <2>6. S \ T # {} /\ S \ T \in SUBSET Nat
    <3>1. S # T
      BY <2>2, <2>3, <2>5
    <3> QED BY <2>5, <3>1
  <2>7. PICK z \in S \ T : \A y \in S \ T : z <= y
    BY <2>6, Least
  <2>8. Below(S, z) = T
    <3>1. \A y \in S : y < z => y \in T
      BY <2>7
    <3>2. \A y \in T : y < z
      BY <2>5, <2>7
    <3> QED BY <3>1, <3>2 DEF Below
  <2> QED BY <2>2, <2>5, <2>7, <2>8
<1> QED BY <1>1, <1>2

Missing(I, wanted) == {i \in wanted : i < StdZones /\ I.std[i + 1] = 0}
UpTo(M, i) == {j \in M : j <= i}

LEMMA MissingIs ==
  ASSUME NEW I, NEW wanted
  PROVE  Missing(I, wanted) = {i \in wanted : i < StdZones /\ ZoneOf(I, i) = 0}
  BY DEF Missing, ZoneOf

\* No two of a finite set of numbers have as many up to them.
LEMMA TurnsDiffer ==
  ASSUME NEW M \in SUBSET Nat, IsFiniteSet(M), NEW i \in M, NEW j \in M, i < j
  PROVE  Cardinality(UpTo(M, i)) # Cardinality(UpTo(M, j))
<1>1. UpTo(M, j) \in SUBSET M
  BY DEF UpTo
<1>2. IsFiniteSet(UpTo(M, j))
  BY <1>1, FS_Subset
<1>3. UpTo(M, i) \in SUBSET UpTo(M, j) /\ j \in UpTo(M, j) /\ j \notin UpTo(M, i)
  <2>1. i \in Nat /\ j \in Nat /\ \A x \in M : x \in Nat
    OBVIOUS
  <2>2. \A x \in M : x <= i => x <= j
    BY <2>1
  <2>3. j <= j /\ ~(j <= i)
    BY <2>1
  <2> QED BY <2>2, <2>3 DEF UpTo
<1> QED BY <1>2, <1>3, FS_Subset

LEMMA TurnsAre ==
  ASSUME NEW M \in SUBSET Nat, IsFiniteSet(M), NEW i \in M
  PROVE  Cardinality(UpTo(M, i)) \in Nat /\ Cardinality(UpTo(M, i)) >= 1
<1>1. UpTo(M, i) \in SUBSET M /\ i \in UpTo(M, i)
  BY DEF UpTo
<1>2. IsFiniteSet(UpTo(M, i))
  BY <1>1, FS_Subset
<1>3. Cardinality(UpTo(M, i)) \in Nat /\ Cardinality(UpTo(M, i)) # 0
  BY <1>1, <1>2, FS_CardinalityType, FS_EmptySet
<1> QED BY <1>3

\* The zones that are found free one after the other are free, and differ.
LEMMA FreeZoneIs ==
  ASSUME MinixAssumption, NEW k \in Nat, k >= 1, k <= Cardinality(FreeZones)
  PROVE  FreeZone(k) \in FreeZones /\ Cardinality(Below(FreeZones, FreeZone(k))) = k - 1
<1>1. PICK F : F = FreeZones
  OBVIOUS
<1>2. F \in SUBSET Nat /\ IsFiniteSet(F)
  <2>1. F \in SUBSET (1..Zones) /\ Zones \in Nat
    BY <1>1 DEF FreeZones, MinixAssumption
  <2>2. IsFiniteSet(1..Zones)
    BY <2>1, FS_Interval
  <2>3. IsFiniteSet(F)
    BY <2>1, <2>2, FS_Subset
  <2> QED BY <2>1, <2>3
<1>3. Cardinality(F) \in Nat
  BY <1>2, FS_CardinalityType
<1>4. k - 1 \in Nat /\ k - 1 < Cardinality(F)
  BY <1>1, <1>3
<1>5. \E z \in F : Cardinality(Below(F, z)) = k - 1
  BY <1>2, <1>4, Ranked
<1>6. FreeZone(k) = CHOOSE z \in F : Cardinality(Below(F, z)) = k - 1
  BY <1>1 DEF FreeZone, Below
<1> QED BY <1>1, <1>5, <1>6

LEMMA WithZonesRefills ==
  ASSUME MinixAssumption, NEW I \in InodeRecord, NEW wanted \in SUBSET Nat,
         \A i \in 1..StdZones : I.std[i] \notin FreeZones
  PROVE  Refilled(WithZones(I, wanted), I, FreeZones)
<1>1. PICK F, M, J, n : F = FreeZones /\ M = Missing(I, wanted) /\ J = WithZones(I, wanted) /\ n = Cardinality(FreeZones)
  OBVIOUS
<1>2. M \in SUBSET Nat /\ IsFiniteSet(M)
  <2>1. M \in SUBSET Nat /\ StdZones \in Nat /\ \A i \in M : i <= StdZones
    BY <1>1 DEF Missing, MinixAssumption
  <2> QED BY <2>1, FS_BoundedSetOfNaturals
<1>3. F \in SUBSET (1..Zones) /\ StdZones \in Nat /\ Zones \in Nat
  BY <1>1 DEF FreeZones, MinixAssumption
<1>4. PICK turn : turn = [i \in M |-> Cardinality(UpTo(M, i))]
  OBVIOUS
<1>5. ASSUME NEW i \in M PROVE turn[i] \in Nat /\ turn[i] >= 1
  BY <1>2, <1>4, TurnsAre
<1>6. ASSUME NEW i \in M, turn[i] <= n PROVE FreeZone(turn[i]) \in F
  BY <1>1, <1>5, <1>6, FreeZoneIs
<1>7. ASSUME NEW i \in M, NEW j \in M, i # j, turn[i] <= n, turn[j] <= n PROVE FreeZone(turn[i]) # FreeZone(turn[j])
  <2>1. turn[i] # turn[j]
    <3>1. i \in Nat /\ j \in Nat
      BY <1>2
    <3>2. CASE i < j
      BY <1>2, <1>4, <3>2, TurnsDiffer
    <3>3. CASE j < i
      BY <1>2, <1>4, <3>3, TurnsDiffer
    <3> QED BY <1>7, <3>1, <3>2, <3>3
  <2>2. /\ Cardinality(Below(FreeZones, FreeZone(turn[i]))) = turn[i] - 1
        /\ Cardinality(Below(FreeZones, FreeZone(turn[j]))) = turn[j] - 1
    BY <1>1, <1>5, <1>7, FreeZoneIs
  <2> QED BY <1>5, <2>1, <2>2
<1>8. J = [I EXCEPT !.std = [i \in 1..StdZones |-> IF i - 1 \in M /\ turn[i - 1] <= n THEN FreeZone(turn[i - 1]) ELSE I.std[i]]]
  <2>1. M = {i \in wanted : i < StdZones /\ ZoneOf(I, i) = 0}
    BY <1>1, MissingIs
  <2> QED BY <1>1, <1>4, <2>1 DEF WithZones, UpTo
<1>9. PICK std : std = [i \in 1..StdZones |-> IF i - 1 \in M /\ turn[i - 1] <= n THEN FreeZone(turn[i - 1]) ELSE I.std[i]]
  OBVIOUS
<1>10. J.std = std /\ J.indir = I.indir /\ J.type = I.type /\ J.size = I.size /\ J.refs = I.refs
  BY <1>8, <1>9 DEF InodeRecord
<1>11. ASSUME NEW i \in 1..StdZones PROVE I.std[i] \in 0..Zones /\ (i - 1 \in M => I.std[i] = 0)
  <2>1. I.std[i] \in 0..Zones
    BY DEF InodeRecord
  <2>2. (i - 1) + 1 = i
    OBVIOUS
  <2> QED BY <1>1, <2>1, <2>2 DEF Missing
<1>12. ASSUME NEW i \in 1..StdZones PROVE std[i] = I.std[i] \/ (I.std[i] = 0 /\ std[i] \in F)
  BY <1>6, <1>9, <1>11
<1>13. ASSUME NEW i \in 1..StdZones, std[i] \in F
       PROVE  i - 1 \in M /\ turn[i - 1] <= n /\ std[i] = FreeZone(turn[i - 1])
  BY <1>1, <1>9, <1>13
<1>14. J \in InodeRecord
  <2>1. std \in [1..StdZones -> 0..Zones]
    <3>1. \A i \in 1..StdZones : std[i] \in 0..Zones
      <4>1. \A z \in F : z \in 0..Zones
        BY <1>3
      <4> QED BY <1>11, <1>12, <4>1
    <3> QED BY <1>9, <3>1
  <2> QED BY <1>8, <1>9, <2>1 DEF InodeRecord
<1>15. ASSUME NEW i \in 1..StdZones, NEW j \in 1..StdZones, i # j, std[i] \in F, std[j] \in F PROVE std[i] # std[j]
  <2>1. i - 1 \in M /\ turn[i - 1] <= n /\ std[i] = FreeZone(turn[i - 1])
    BY <1>13, <1>15
  <2>2. j - 1 \in M /\ turn[j - 1] <= n /\ std[j] = FreeZone(turn[j - 1])
    BY <1>13, <1>15
  <2>3. i - 1 # j - 1
    BY <1>15
  <2> QED BY <1>7, <2>1, <2>2, <2>3
<1> QED BY <1>1, <1>10, <1>12, <1>14, <1>15 DEF Refilled
-----------------------------------------------------------------------------
(* The invariant, of any disk, list of open inodes and handles.            *)

EntriesIn(O, n)   == {e \in DOMAIN O : O[e].inode_n = n}
InodeIn(d, O, n)  == IF EntriesIn(O, n) = {} THEN d.inodes[n] ELSE O[Min(EntriesIn(O, n))].inode
LiveIn(d, O)      == Range(d.root) \cup ({O[e].inode_n : e \in DOMAIN O} \ {0})
InodesIn(d, O)    == [n \in LiveIn(d, O) |-> InodeIn(d, O, n)]
HandlesOf(H, e)   == {h \in DOMAIN H : H[h].e = e}

\* Records have their fields.
DiskOK(d) ==
    /\ d = [inodes |-> d.inodes, inode_map |-> d.inode_map, root |-> d.root, zone_map |-> d.zone_map]
    /\ DOMAIN d.inodes = 1..Inodes
FsOK(s) == s = [inode_map |-> s.inode_map, zone_map |-> s.zone_map,
                inode_map_changed |-> s.inode_map_changed, open_inodes |-> s.open_inodes]
EntryOK(o)  == o = [inode_n |-> o.inode_n, num_refs |-> o.num_refs, inode |-> o.inode]
HandleOK(h) ==
    /\ h = [e |-> h.e, pos |-> h.pos, size |-> h.size, written |-> h.written, mode |-> h.mode]
    /\ h.pos \in Nat /\ h.size \in Nat

\* An inode is in the list once.
EntriesOK(O) ==
    /\ IsFiniteSet(DOMAIN O) /\ DOMAIN O \subseteq Nat \ {0}
    /\ \A e \in DOMAIN O : EntryOK(O[e])
    /\ \A e, x \in DOMAIN O : e # x /\ O[e].inode_n # 0 => O[e].inode_n # O[x].inode_n

\* It is there as long as handles refer to it, and their number is known.
HandlesOK(O, H) ==
    /\ IsFiniteSet(DOMAIN H)
    /\ \A h \in DOMAIN H : HandleOK(H[h]) /\ H[h].e \in DOMAIN O
    /\ \A e \in DOMAIN O : O[e].num_refs = Cardinality(HandlesOf(H, e)) /\ O[e].num_refs # 0

\* The numbers of the inodes of names and handles are taken.
TakenIn(M, live) == 1 \in M /\ M \subseteq 1..Inodes /\ live \subseteq M \ {1}

InodeMap == IF Running THEN fs.inode_map ELSE disk.inode_map
ZoneMap  == IF Running THEN fs.zone_map ELSE disk.zone_map

ZonesInv ==
    /\ DiskOK(disk) /\ FsOK(fs)
    /\ EntriesOK(fs.open_inodes) /\ HandlesOK(fs.open_inodes, handles)
    /\ TakenIn(InodeMap, LiveIn(disk, fs.open_inodes))
    /\ Running /\ ~fs.inode_map_changed => disk.inode_map = fs.inode_map
    /\ AllOwn(cells, ZoneMap, InodesIn(disk, fs.open_inodes))
-----------------------------------------------------------------------------
(* The list of open inodes and the handles, one change at a time.          *)

LEMMA ZonesAre ==
  /\ \A I, i : ZoneOf(I, i) = ZoneIn(cells, I, i)
  /\ \A I : ZonesOf(I) = ZonesIn(cells, I)
  /\ \A n : Inode(n) = InodeIn(disk, fs.open_inodes, n) /\ Entries(n) = EntriesIn(fs.open_inodes, n)
<1>1. \A I, i : ZoneOf(I, i) = ZoneIn(cells, I, i)
  BY DEF ZoneOf, ZoneIn
<1>2. \A n : Inode(n) = InodeIn(disk, fs.open_inodes, n) /\ Entries(n) = EntriesIn(fs.open_inodes, n)
  BY DEF Inode, InodeIn, Entries, EntriesIn
<1>3. ASSUME NEW I PROVE ZonesOf(I) = ZonesIn(cells, I)
  BY <1>1 DEF ZonesOf, ZonesIn, Slots
<1> QED BY <1>1, <1>2, <1>3

\* What the list holds of an inode that is in it, and what counts for another one.
LEMMA EntryIs ==
  ASSUME NEW O, EntriesOK(O), NEW e \in DOMAIN O, O[e].inode_n # 0, NEW d
  PROVE  /\ EntriesIn(O, O[e].inode_n) = {e} /\ Min(EntriesIn(O, O[e].inode_n)) = e
         /\ InodeIn(d, O, O[e].inode_n) = O[e].inode /\ O[e].inode_n \in LiveIn(d, O)
<1>1. EntriesIn(O, O[e].inode_n) = {e}
  BY DEF EntriesIn, EntriesOK
<1>2. e \in Nat
  BY DEF EntriesOK
<1>3. Min({e}) = e
  BY <1>2 DEF Min
<1>4. O[e].inode_n \in LiveIn(d, O)
  BY DEF LiveIn
<1> QED BY <1>1, <1>3, <1>4 DEF InodeIn

LEMMA NoEntryIs ==
  ASSUME NEW O, NEW n, \A e \in DOMAIN O : O[e].inode_n # n, NEW d
  PROVE  EntriesIn(O, n) = {} /\ InodeIn(d, O, n) = d.inodes[n]
  BY DEF EntriesIn, InodeIn

LEMMA InodesAre ==
  ASSUME NEW d, NEW O
  PROVE  /\ DOMAIN InodesIn(d, O) = LiveIn(d, O)
         /\ \A n \in LiveIn(d, O) : InodesIn(d, O)[n] = InodeIn(d, O, n)
  BY DEF InodesIn

LEMMA LiveIs ==
  ASSUME NEW d, NEW O, NEW n
  PROVE  n \in LiveIn(d, O) <=> n \in Range(d.root) \/ (n # 0 /\ \E e \in DOMAIN O : O[e].inode_n = n)
  BY DEF LiveIn

LEMMA RootIs ==
  ASSUME NEW r, NEW name, NEW n
  PROVE  /\ Range(Put(r, name, n)) \subseteq Range(r) \cup {n}
         /\ \A S \in SUBSET DOMAIN r : Range(Restrict(r, S)) \subseteq Range(r)
         /\ name \in DOMAIN r => r[name] \in Range(r)
  BY DEF Range, Put, Restrict

\* Handles move, and are written to.
LEMMA HandlesMove ==
  ASSUME NEW O, NEW H, HandlesOK(O, H), NEW G, DOMAIN G = DOMAIN H,
         \A h \in DOMAIN H : HandleOK(G[h]) /\ G[h].e = H[h].e
  PROVE  HandlesOK(O, G)
<1>1. \A e : HandlesOf(G, e) = HandlesOf(H, e)
  BY DEF HandlesOf
<1> QED BY <1>1 DEF HandlesOK

\* The inodes of the list change, or are deleted.
LEMMA EntriesMove ==
  ASSUME NEW O, EntriesOK(O), NEW H, HandlesOK(O, H), NEW P, DOMAIN P = DOMAIN O,
         \A e \in DOMAIN O : /\ EntryOK(P[e]) /\ P[e].num_refs = O[e].num_refs
                             /\ P[e].inode_n = O[e].inode_n \/ P[e].inode_n = 0
  PROVE  EntriesOK(P) /\ HandlesOK(P, H)
<1>1. EntriesOK(P)
  BY DEF EntriesOK
<1>2. HandlesOK(P, H)
  BY DEF HandlesOK
<1> QED BY <1>1, <1>2

LEMMA OneMore ==
  ASSUME NEW S, IsFiniteSet(S), NEW x, x \notin S, NEW T, T = S \cup {x}
  PROVE  IsFiniteSet(T) /\ Cardinality(T) \in Nat /\ Cardinality(T) = Cardinality(S) + 1
<1>1. IsFiniteSet(T) /\ Cardinality(T) = Cardinality(S) + 1
  BY FS_AddElement
<1> QED BY <1>1, FS_CardinalityType

LEMMA OneLess ==
  ASSUME NEW S, IsFiniteSet(S), NEW x \in S, NEW T, T = S \ {x}
  PROVE  /\ IsFiniteSet(T) /\ Cardinality(T) \in Nat /\ Cardinality(S) \in Nat
         /\ Cardinality(T) = Cardinality(S) - 1
<1>1. IsFiniteSet(T) /\ Cardinality(T) = Cardinality(S) - 1
  BY FS_RemoveElement
<1> QED BY <1>1, FS_CardinalityType

\* A handle is opened, with a new entry or one that is there.
LEMMA HandleOpened ==
  ASSUME NEW O, EntriesOK(O), NEW H, HandlesOK(O, H), NEW h, h \notin DOMAIN H, NEW k, HandleOK(k),
         NEW o, EntryOK(o), o.inode_n # 0, NEW e \in Nat \ {0}, k.e = e,
         \/ e \in DOMAIN O /\ o.num_refs = O[e].num_refs + 1
         \/ e \notin DOMAIN O /\ o.num_refs = 1,
         \A x \in DOMAIN O \ {e} : O[x].inode_n # o.inode_n
  PROVE  EntriesOK(Put(O, e, o)) /\ HandlesOK(Put(O, e, o), Put(H, h, k))
<1>1. PICK P, G : P = Put(O, e, o) /\ G = Put(H, h, k)
  OBVIOUS
<1>2. DOMAIN P = DOMAIN O \cup {e} /\ P[e] = o /\ \A x \in DOMAIN O \ {e} : P[x] = O[x]
  BY <1>1 DEF Put
<1>3. DOMAIN G = DOMAIN H \cup {h} /\ G[h] = k /\ \A x \in DOMAIN H : G[x] = H[x]
  BY <1>1 DEF Put
<1>4. IsFiniteSet(DOMAIN P)
  BY <1>2, FS_AddElement DEF EntriesOK
<1>5. IsFiniteSet(DOMAIN G)
  BY <1>3, FS_AddElement DEF HandlesOK
<1>6. EntriesOK(P)
  BY <1>2, <1>4 DEF EntriesOK
<1>7. \A x \in DOMAIN G : HandleOK(G[x]) /\ G[x].e \in DOMAIN P
  BY <1>2, <1>3 DEF HandlesOK
<1>8. ASSUME NEW x \in DOMAIN P \ {e} PROVE P[x].num_refs = Cardinality(HandlesOf(G, x)) /\ P[x].num_refs # 0
  <2>1. HandlesOf(G, x) = HandlesOf(H, x)
    BY <1>3, <1>8 DEF HandlesOf
  <2>2. x \in DOMAIN O /\ P[x] = O[x]
    BY <1>2, <1>8
  <2> QED BY <2>1, <2>2 DEF HandlesOK
<1>9. HandlesOf(G, e) = HandlesOf(H, e) \cup {h} /\ h \notin HandlesOf(H, e)
  BY <1>3 DEF HandlesOf
<1>10. IsFiniteSet(HandlesOf(H, e)) /\ Cardinality(HandlesOf(H, e)) \in Nat
  <2>1. HandlesOf(H, e) \subseteq DOMAIN H /\ IsFiniteSet(DOMAIN H)
    BY DEF HandlesOf, HandlesOK
  <2> QED BY <2>1, FS_Subset, FS_CardinalityType
<1>11. Cardinality(HandlesOf(G, e)) = Cardinality(HandlesOf(H, e)) + 1
  <2>1. PICK A, B : A = HandlesOf(H, e) /\ B = HandlesOf(G, e)
    OBVIOUS
  <2>2. IsFiniteSet(A) /\ h \notin A /\ B = A \cup {h}
    BY <1>9, <1>10, <2>1
  <2>3. Cardinality(B) = Cardinality(A) + 1
    BY <2>2, OneMore
  <2> QED BY <2>1, <2>3
<1>12. o.num_refs = Cardinality(HandlesOf(H, e)) + 1
  <2>1. CASE e \in DOMAIN O
    BY <2>1 DEF HandlesOK
  <2>2. CASE e \notin DOMAIN O
    <3>1. HandlesOf(H, e) = {}
      BY <2>2 DEF HandlesOf, HandlesOK
    <3> QED BY <2>2, <3>1, FS_EmptySet
  <2> QED BY <2>1, <2>2
<1>13. P[e].num_refs = Cardinality(HandlesOf(G, e)) /\ P[e].num_refs # 0
  BY <1>2, <1>10, <1>11, <1>12
<1>14. \A x \in DOMAIN P : P[x].num_refs = Cardinality(HandlesOf(G, x)) /\ P[x].num_refs # 0
  BY <1>8, <1>13
<1>15. HandlesOK(P, G)
  BY <1>5, <1>7, <1>14 DEF HandlesOK
<1> QED BY <1>1, <1>6, <1>15

\* A handle is closed, and its entry goes when it was the last.
LEMMA HandleClosed ==
  ASSUME NEW O, EntriesOK(O), NEW H, HandlesOK(O, H), NEW h \in DOMAIN H, NEW G, G = Restrict(H, DOMAIN H \ {h}),
         NEW e, e = H[h].e, NEW P,
         IF O[e].num_refs = 1 THEN P = Restrict(O, DOMAIN O \ {e}) ELSE P = [O EXCEPT ![e].num_refs = @ - 1]
  PROVE  EntriesOK(P) /\ HandlesOK(P, G)
<1>1. DOMAIN G = DOMAIN H \ {h} /\ \A x \in DOMAIN G : G[x] = H[x]
  BY DEF Restrict
<1>2. e \in DOMAIN O /\ EntryOK(O[e])
  BY DEF HandlesOK, EntriesOK
<1>3. IsFiniteSet(HandlesOf(H, e)) /\ Cardinality(HandlesOf(H, e)) \in Nat
  <2>1. HandlesOf(H, e) \subseteq DOMAIN H /\ IsFiniteSet(DOMAIN H)
    BY DEF HandlesOf, HandlesOK
  <2> QED BY <2>1, FS_Subset, FS_CardinalityType
<1>4. HandlesOf(G, e) = HandlesOf(H, e) \ {h} /\ h \in HandlesOf(H, e)
  <2>1. h \in HandlesOf(H, e)
    BY DEF HandlesOf
  <2>2. \A x : x \in HandlesOf(G, e) <=> x \in HandlesOf(H, e) /\ x # h
    BY <1>1 DEF HandlesOf
  <2> QED BY <2>1, <2>2
<1>5. Cardinality(HandlesOf(G, e)) = Cardinality(HandlesOf(H, e)) - 1 /\ IsFiniteSet(HandlesOf(G, e))
  <2>1. PICK A, B : A = HandlesOf(H, e) /\ B = HandlesOf(G, e)
    OBVIOUS
  <2>2. IsFiniteSet(A) /\ h \in A /\ B = A \ {h}
    BY <1>3, <1>4, <2>1
  <2>3. Cardinality(B) = Cardinality(A) - 1 /\ IsFiniteSet(B)
    BY <2>2, OneLess
  <2> QED BY <2>1, <2>3
<1>6. \A x : x # e => HandlesOf(G, x) = HandlesOf(H, x)
  BY <1>1 DEF HandlesOf
<1>7. O[e].num_refs = Cardinality(HandlesOf(H, e)) /\ O[e].num_refs # 0
  BY <1>2 DEF HandlesOK
<1>8. IsFiniteSet(DOMAIN G)
  BY <1>1, FS_RemoveElement DEF HandlesOK
<1>9. CASE O[e].num_refs = 1
  <2>1. DOMAIN P = DOMAIN O \ {e} /\ \A x \in DOMAIN P : P[x] = O[x]
    BY <1>9 DEF Restrict
  <2>2. IsFiniteSet(DOMAIN P)
    BY <2>1, FS_RemoveElement DEF EntriesOK
  <2>3. EntriesOK(P)
    BY <2>1, <2>2 DEF EntriesOK
  <2>4. HandlesOf(G, e) = {}
    <3>1. Cardinality(HandlesOf(G, e)) = 0
      BY <1>5, <1>7, <1>9
    <3> QED BY <1>5, <3>1, FS_EmptySet
  <2>5. \A x \in DOMAIN G : HandleOK(G[x]) /\ G[x].e \in DOMAIN P
    <3>1. \A x \in DOMAIN G : G[x].e # e
      BY <2>4 DEF HandlesOf
    <3> QED BY <1>1, <2>1, <3>1 DEF HandlesOK
  <2>6. \A x \in DOMAIN P : P[x].num_refs = Cardinality(HandlesOf(G, x)) /\ P[x].num_refs # 0
    BY <1>6, <2>1 DEF HandlesOK
  <2> QED BY <1>8, <2>3, <2>5, <2>6 DEF HandlesOK
<1>10. CASE O[e].num_refs # 1
  <2>1. DOMAIN P = DOMAIN O /\ P[e] = [O[e] EXCEPT !.num_refs = O[e].num_refs - 1] /\ \A x \in DOMAIN O \ {e} : P[x] = O[x]
    BY <1>2, <1>10
  <2>2. P[e].inode_n = O[e].inode_n /\ P[e].num_refs = O[e].num_refs - 1 /\ EntryOK(P[e])
    BY <1>2, <2>1 DEF EntryOK
  <2>3. EntriesOK(P)
    <3>1. \A x \in DOMAIN O : EntryOK(P[x]) /\ P[x].inode_n = O[x].inode_n
      <4>1. \A x \in DOMAIN O \ {e} : EntryOK(P[x]) /\ P[x].inode_n = O[x].inode_n
        BY <2>1 DEF EntriesOK
      <4> QED BY <2>2, <4>1
    <3> QED BY <2>1, <3>1 DEF EntriesOK
  <2>4. P[e].num_refs = Cardinality(HandlesOf(G, e)) /\ P[e].num_refs # 0
    <3>1. PICK a, b, k, m : /\ a = Cardinality(HandlesOf(H, e)) /\ b = Cardinality(HandlesOf(G, e))
                            /\ k = O[e].num_refs /\ m = P[e].num_refs
      OBVIOUS
    <3>2. a \in Nat /\ b = a - 1 /\ k = a /\ k # 1 /\ k # 0 /\ m = k - 1
      BY <1>3, <1>5, <1>7, <1>10, <2>2, <3>1
    <3>3. m = b /\ m # 0
      BY <3>2
    <3> QED BY <3>1, <3>3
  <2>5. \A x \in DOMAIN P : P[x].num_refs = Cardinality(HandlesOf(G, x)) /\ P[x].num_refs # 0
    <3>1. ASSUME NEW x \in DOMAIN O \ {e} PROVE P[x].num_refs = Cardinality(HandlesOf(G, x)) /\ P[x].num_refs # 0
      <4>1. O[x].num_refs = Cardinality(HandlesOf(H, x)) /\ O[x].num_refs # 0
        BY DEF HandlesOK
      <4>2. P[x] = O[x] /\ HandlesOf(G, x) = HandlesOf(H, x)
        BY <1>6, <2>1
      <4> QED BY <4>1, <4>2
    <3> QED BY <2>1, <2>4, <3>1
  <2>6. \A x \in DOMAIN G : HandleOK(G[x]) /\ G[x].e \in DOMAIN P
    BY <1>1, <2>1 DEF HandlesOK
  <2> QED BY <1>8, <2>3, <2>5, <2>6 DEF HandlesOK
<1> QED BY <1>9, <1>10

\* There is a place for a new entry.
LEMMA NewEntryIs ==
  ASSUME EntriesOK(fs.open_inodes)
  PROVE  NewEntry \in Nat \ {0} /\ NewEntry \notin DOMAIN fs.open_inodes
<1>1. PICK D, c, S : D = DOMAIN fs.open_inodes /\ c = Cardinality(D) /\ S = 1..(c + 1) \ D
  OBVIOUS
<1>2. IsFiniteSet(D) /\ c \in Nat
  BY <1>1, FS_CardinalityType DEF EntriesOK
<1>3. S # {}
  <2> SUFFICES ASSUME 1..(c + 1) \subseteq D PROVE FALSE
    BY <1>1
  <2>1. Cardinality(1..(c + 1)) <= c
    BY <1>1, <1>2, FS_Subset
  <2>2. Cardinality(1..(c + 1)) = c + 1
    <3>1. \A b \in Nat : Cardinality(1..b) = b
      BY FS_Interval
    <3>2. c + 1 \in Nat
      BY <1>2
    <3> QED BY <3>1, <3>2
  <2> QED BY <1>2, <2>1, <2>2
<1>4. S \in SUBSET Nat
  BY <1>1, <1>2
<1>5. PICK m \in S : \A q \in S : m <= q
  BY <1>3, <1>4, Least
<1>6. Min(S) \in S
  BY <1>5 DEF Min
<1>7. NewEntry = Min(S)
  BY <1>1 DEF NewEntry
<1>8. \A x \in S : x \in Nat \ {0} /\ x \notin D
  BY <1>1, <1>2
<1> QED BY <1>1, <1>6, <1>7, <1>8

-----------------------------------------------------------------------------
(* What the steps have in common.                                          *)

LEMMA LeastOfTwo ==
  ASSUME NEW a \in Nat, NEW b \in Nat
  PROVE  /\ Min({a, b}) \in Nat /\ Min({a, b}) <= a /\ Min({a, b}) <= b
         /\ Max({a, b}) \in Nat /\ Max({a, b}) >= a /\ Max({a, b}) >= b
<1>1. PICK S : S = {a, b}
  OBVIOUS
<1>2. (\E x \in S : \A y \in S : x <= y) /\ (\E x \in S : \A y \in S : x >= y)
  BY <1>1
<1>3. Min(S) \in S /\ \A y \in S : Min(S) <= y
  BY <1>2 DEF Min
<1>4. Max(S) \in S /\ \A y \in S : Max(S) >= y
  BY <1>2 DEF Max
<1> QED BY <1>1, <1>3, <1>4

LEMMA NoMishap ==
  ASSUME NEW c, Note(c), mishaps' = {}
  PROVE  mishaps = {} /\ \A what \in DOMAIN c : ~c[what]
  BY DEF Note

LEMMA RunningInv ==
  ASSUME ZonesInv, Running
  PROVE  /\ DiskOK(disk) /\ FsOK(fs)
         /\ EntriesOK(fs.open_inodes) /\ HandlesOK(fs.open_inodes, handles)
         /\ TakenIn(fs.inode_map, LiveIn(disk, fs.open_inodes))
         /\ ~fs.inode_map_changed => disk.inode_map = fs.inode_map
         /\ AllOwn(cells, fs.zone_map, InodesIn(disk, fs.open_inodes))
  BY DEF ZonesInv, InodeMap, ZoneMap

LEMMA InvNext ==
  ASSUME DiskOK(disk'), FsOK(fs'), EntriesOK(fs'.open_inodes), HandlesOK(fs'.open_inodes, handles'),
         TakenIn(fs'.inode_map, LiveIn(disk', fs'.open_inodes)),
         ~fs'.inode_map_changed => disk'.inode_map = fs'.inode_map,
         AllOwn(cells', fs'.zone_map, InodesIn(disk', fs'.open_inodes))
  PROVE  ZonesInv'
<1>1. Running'
  <2>1. 1 \in fs'.inode_map
    BY DEF TakenIn
  <2>2. Unmounted.inode_map = {}
    BY DEF Unmounted
  <2> QED BY <2>1, <2>2 DEF Running
<1>2. InodeMap' = fs'.inode_map /\ ZoneMap' = fs'.zone_map
  BY <1>1 DEF InodeMap, ZoneMap
<1> QED BY <1>1, <1>2 DEF ZonesInv

LEMMA OpenInodesOf ==
  ASSUME FsOK(fs)
  PROVE  fs = [inode_map |-> fs.inode_map, zone_map |-> fs.zone_map,
               inode_map_changed |-> fs.inode_map_changed, open_inodes |-> fs.open_inodes]
  BY DEF FsOK

\* An inode of which neither the disk nor the list has anything new.
LEMMA InodeKept ==
  ASSUME NEW O, EntriesOK(O), NEW P, NEW n, n # 0, NEW d, NEW b,
         EntriesIn(P, n) = EntriesIn(O, n), \A x \in EntriesIn(O, n) : P[x].inode = O[x].inode,
         EntriesIn(O, n) = {} => b.inodes[n] = d.inodes[n]
  PROVE  InodeIn(b, P, n) = InodeIn(d, O, n)
<1>1. CASE EntriesIn(O, n) = {}
  BY <1>1 DEF InodeIn
<1>2. CASE EntriesIn(O, n) # {}
  <2>1. PICK e \in DOMAIN O : O[e].inode_n = n
    BY <1>2 DEF EntriesIn
  <2>2. EntriesIn(O, n) = {e} /\ Min(EntriesIn(O, n)) = e
    BY <2>1, EntryIs
  <2> QED BY <1>2, <2>2 DEF InodeIn
<1> QED BY <1>1, <1>2

\* The handle of a file that is open.
LEMMA HandleIs ==
  ASSUME ZonesInv, NEW h, IsOpen(h)
  PROVE  /\ Running /\ h \in DOMAIN handles /\ HandleOK(handles[h])
         /\ handles[h].e \in DOMAIN fs.open_inodes /\ EntryOf(h) = fs.open_inodes[handles[h].e]
         /\ EntryOK(EntryOf(h)) /\ (EntryOf(h).inode_n # 0 => EntryOf(h).inode_n \in 2..Inodes)
<1>1. Running /\ h \in DOMAIN handles
  BY DEF IsOpen
<1>2. HandleOK(handles[h]) /\ handles[h].e \in DOMAIN fs.open_inodes
  BY <1>1 DEF ZonesInv, HandlesOK
<1>3. EntryOf(h) = fs.open_inodes[handles[h].e] /\ EntryOK(EntryOf(h))
  BY <1>2 DEF EntryOf, ZonesInv, EntriesOK
<1>4. ASSUME EntryOf(h).inode_n # 0 PROVE EntryOf(h).inode_n \in 2..Inodes
  <2>1. EntryOf(h).inode_n \in LiveIn(disk, fs.open_inodes)
    BY <1>2, <1>3, <1>4 DEF LiveIn
  <2>2. EntryOf(h).inode_n \in 1..Inodes /\ EntryOf(h).inode_n # 1
    BY <1>1, <2>1, RunningInv DEF TakenIn
  <2> QED BY <2>2
<1> QED BY <1>1, <1>2, <1>3, <1>4

\* The inode of a handle is written only to its own place.
LEMMA FlushedIs ==
  ASSUME ZonesInv, NEW h, IsOpen(h)
  PROVE  /\ DiskOK(Flushed(h)) /\ Flushed(h).root = disk.root /\ Flushed(h).inode_map = disk.inode_map
         /\ \A m \in 1..Inodes : m # EntryOf(h).inode_n => Flushed(h).inodes[m] = disk.inodes[m]
<1>1. DiskOK(disk)
  BY DEF ZonesInv
<1>2. CASE ~(Usable(h) /\ handles[h].written)
  BY <1>1, <1>2 DEF Flushed
<1>3. CASE Usable(h) /\ handles[h].written
  <2>1. PICK n, i : n = EntryOf(h).inode_n /\ i = EntryOf(h).inode
    OBVIOUS
  <2>2. Flushed(h) = [disk EXCEPT !.inodes[n] = i]
    BY <1>3, <2>1 DEF Flushed
  <2>3. Flushed(h) = [inodes |-> [disk.inodes EXCEPT ![n] = i], inode_map |-> disk.inode_map, root |-> disk.root,
                      zone_map |-> disk.zone_map]
    BY <1>1, <2>2 DEF DiskOK
  <2>4. n \in 1..Inodes
    BY <1>3, <2>1, HandleIs DEF Usable
  <2>5. DOMAIN disk.inodes = 1..Inodes
    BY <1>1 DEF DiskOK
  <2>6. DOMAIN Flushed(h).inodes = 1..Inodes /\ \A m \in 1..Inodes : m # n => Flushed(h).inodes[m] = disk.inodes[m]
    BY <2>3, <2>5
  <2>7. DiskOK(Flushed(h))
    BY <2>3, <2>6 DEF DiskOK
  <2> QED BY <2>1, <2>3, <2>6, <2>7
<1> QED BY <1>2, <1>3

-----------------------------------------------------------------------------
(* The steps that leave the zones alone.                                   *)

LEMMA KeptInv ==
  ASSUME ZonesInv, UNCHANGED <<cells, disk, fs>>, HandlesOK(fs.open_inodes, handles')
  PROVE  ZonesInv'
<1>1. HandlesOK(fs'.open_inodes, handles')
  OBVIOUS
<1>2. InodeMap' = InodeMap /\ ZoneMap' = ZoneMap /\ Running' = Running
  BY DEF InodeMap, ZoneMap, Running
<1> QED BY <1>1, <1>2 DEF ZonesInv

LEMMA SameNext ==
  ASSUME ZonesInv, UNCHANGED vars
  PROVE  ZonesInv'
<1>1. HandlesOK(fs.open_inodes, handles') /\ UNCHANGED <<cells, disk, fs>>
  BY DEF vars, ZonesInv
<1> QED BY <1>1, KeptInv

\* One handle gets other fields, but not another entry.
LEMMA HandleChanged ==
  ASSUME NEW O, NEW H, HandlesOK(O, H), NEW h \in DOMAIN H, NEW k, HandleOK(k), k.e = H[h].e
  PROVE  HandlesOK(O, [H EXCEPT ![h] = k])
<1>1. PICK G : G = [H EXCEPT ![h] = k]
  OBVIOUS
<1>2. DOMAIN G = DOMAIN H /\ \A x \in DOMAIN H : G[x] = IF x = h THEN k ELSE H[x]
  BY <1>1
<1>3. \A x \in DOMAIN H : HandleOK(G[x]) /\ G[x].e = H[x].e
  BY <1>2 DEF HandlesOK
<1>4. HandlesOK(O, G)
  BY <1>2, <1>3, HandlesMove
<1> QED BY <1>1, <1>4

LEMMA FsetposNext ==
  ASSUME MinixAssumption, ZonesInv, NEW h, NEW pos \in Seeks, Fsetpos(h, pos)
  PROVE  ZonesInv'
<1>1. IsOpen(h) /\ handles' = [handles EXCEPT ![h].pos = pos] /\ UNCHANGED <<cells, disk, fs>>
  BY DEF Fsetpos, Usable
<1>2. pos \in Nat
  BY DEF MinixAssumption
<1>3. PICK k : k = [handles[h] EXCEPT !.pos = pos]
  OBVIOUS
<1>4. h \in DOMAIN handles /\ HandleOK(handles[h])
  BY <1>1, HandleIs
<1>5. HandleOK(k) /\ k.e = handles[h].e
  BY <1>2, <1>3, <1>4 DEF HandleOK
<1>6. handles' = [handles EXCEPT ![h] = k]
  BY <1>1, <1>3
<1>7. HandlesOK(fs.open_inodes, handles)
  BY DEF ZonesInv
<1>8. HandlesOK(fs.open_inodes, handles')
  BY <1>4, <1>5, <1>6, <1>7, HandleChanged
<1> QED BY <1>1, <1>8, KeptInv

LEMMA FreadNext ==
  ASSUME MinixAssumption, ZonesInv, NEW h, NEW count \in 1..Longest, Fread(h, count), mishaps' = {}
  PROVE  ZonesInv'
<1> DEFINE f      == handles[h]
           inode  == EntryOf(h).inode
           end    == Min({f.pos + count, f.size})
           wanted == Wanted(f.pos, end)
           read   == Reached(inode, wanted)
           done   == IF read = {} THEN 0 ELSE end - f.pos
           wrong  == [Beyond |-> f.pos > end, Shared |-> f.size # inode.size, Short |-> read # {} /\ read # wanted,
                      Panic |-> Panics(inode, wanted, FALSE)]
<1>1. /\ IsOpen(h) /\ UNCHANGED <<cells, disk, fs>>
      /\ UNCHANGED handles \/ (handles' = [handles EXCEPT ![h].pos = @ + done] /\ Note(wrong))
  BY DEF Fread
<1> HIDE DEF inode, wanted, read
<1>2. CASE UNCHANGED handles
  <2>1. UNCHANGED <<cells, disk, fs>> /\ HandlesOK(fs.open_inodes, handles')
    BY <1>1, <1>2 DEF ZonesInv
  <2> QED BY <2>1, KeptInv
<1>3. CASE ~UNCHANGED handles
  <2>1. handles' = [handles EXCEPT ![h].pos = @ + done] /\ ~(f.pos > end)
    <3>1. "Beyond" \in DOMAIN wrong /\ wrong["Beyond"] = (f.pos > end)
      OBVIOUS
    <3>2. handles' = [handles EXCEPT ![h].pos = @ + done] /\ Note(wrong)
      BY <1>1, <1>3
    <3> HIDE DEF wrong, end
    <3> QED BY <3>1, <3>2, NoMishap
  <2> HIDE DEF wrong
  <2>2. h \in DOMAIN handles /\ HandleOK(f)
    BY <1>1, HandleIs
  <2>3. f.pos \in Nat /\ f.size \in Nat
    BY <2>2 DEF HandleOK
  <2>4. count \in Nat /\ f.pos + count \in Nat
    BY <2>3 DEF MinixAssumption
  <2>5. end \in Nat
    BY <1>1, <2>3, <2>4, LeastOfTwo
  <2>6. f.pos + done \in Nat
    BY <1>1, <2>1, <2>3, <2>5
  <2>7. PICK k : k = [f EXCEPT !.pos = f.pos + done]
    OBVIOUS
  <2>8. HandleOK(k) /\ k.e = handles[h].e
    BY <1>1, <2>2, <2>6, <2>7 DEF HandleOK
  <2>9. handles' = [handles EXCEPT ![h] = k]
    BY <1>1, <2>1, <2>7
  <2>10. HandlesOK(fs.open_inodes, handles)
    BY DEF ZonesInv
  <2>11. HandlesOK(fs.open_inodes, handles')
    BY <2>2, <2>8, <2>9, <2>10, HandleChanged
  <2> QED BY <1>1, <2>11, KeptInv
<1> QED BY <1>2, <1>3

\* What an inode counts as is the same when only those in the list are written.
LEMMA FlushedInodes ==
  ASSUME ZonesInv, NEW h, IsOpen(h), NEW n \in LiveIn(disk, fs.open_inodes)
  PROVE  InodeIn(Flushed(h), fs.open_inodes, n) = InodeIn(disk, fs.open_inodes, n)
<1>1. n # 0 /\ n \in 1..Inodes
  <2>1. Running
    BY DEF IsOpen
  <2> QED BY <2>1, RunningInv DEF TakenIn, LiveIn
<1>2. EntriesOK(fs.open_inodes)
  BY DEF ZonesInv
<1>3. ASSUME EntriesIn(fs.open_inodes, n) = {} PROVE n # EntryOf(h).inode_n
  BY <1>3, HandleIs DEF EntriesIn
<1>4. EntriesIn(fs.open_inodes, n) = {} => Flushed(h).inodes[n] = disk.inodes[n]
  BY <1>1, <1>3, FlushedIs
<1> QED BY <1>1, <1>2, <1>4, InodeKept

LEMMA FflushNext ==
  ASSUME ZonesInv, NEW h, Fflush(h)
  PROVE  ZonesInv'
<1>1. IsOpen(h) /\ disk' = Flushed(h) /\ handles' = [handles EXCEPT ![h].written = FALSE] /\ UNCHANGED <<cells, fs>>
  BY DEF Fflush, Usable
<1>2. Running /\ h \in DOMAIN handles /\ HandleOK(handles[h])
  BY <1>1, HandleIs
<1>3. PICK k : k = [handles[h] EXCEPT !.written = FALSE]
  OBVIOUS
<1>4. HandleOK(k) /\ k.e = handles[h].e
  BY <1>2, <1>3 DEF HandleOK
<1>5. handles' = [handles EXCEPT ![h] = k]
  BY <1>1, <1>3
<1>6. HandlesOK(fs.open_inodes, handles')
  BY <1>2, <1>4, <1>5, HandleChanged, RunningInv
<1>7. DiskOK(disk') /\ disk'.root = disk.root /\ disk'.inode_map = disk.inode_map
  BY <1>1, FlushedIs
<1>8. LiveIn(disk', fs.open_inodes) = LiveIn(disk, fs.open_inodes)
  BY <1>7 DEF LiveIn
<1>9. \A n \in LiveIn(disk, fs.open_inodes) : InodeIn(disk', fs.open_inodes, n) = InodeIn(disk, fs.open_inodes, n)
  BY <1>1, FlushedInodes
<1>10. InodesIn(disk', fs.open_inodes) = InodesIn(disk, fs.open_inodes)
  BY <1>8, <1>9 DEF InodesIn
<1>11. /\ FsOK(fs) /\ EntriesOK(fs.open_inodes) /\ TakenIn(fs.inode_map, LiveIn(disk, fs.open_inodes))
       /\ ~fs.inode_map_changed => disk.inode_map = fs.inode_map
       /\ AllOwn(cells, fs.zone_map, InodesIn(disk, fs.open_inodes))
  BY <1>2, RunningInv
<1>12. fs' = fs /\ cells' = cells
  BY <1>1
<1> QED BY <1>6, <1>7, <1>8, <1>10, <1>11, <1>12, InvNext

\* A name more for an inode that has one.
LEMMA LinkNext ==
  ASSUME ZonesInv, NEW old, NEW name, Link(old, name)
  PROVE  ZonesInv'
<1>1. PICK n, O : n = LocateInode(old) /\ O = fs.open_inodes
  OBVIOUS
<1>2. Running /\ n # 0 /\ disk' = InsertDirentry(name, n) /\ cells' = cells /\ fs' = fs /\ handles' = handles
  BY <1>1 DEF Link
<1>3. n \in Range(disk.root)
  BY <1>1, <1>2, RootIs DEF LocateInode
<1>4. DiskOK(disk)
  BY DEF ZonesInv
<1>5. disk' = [inodes |-> disk.inodes, inode_map |-> disk.inode_map, root |-> Put(disk.root, name, n),
               zone_map |-> disk.zone_map]
  BY <1>2, <1>4 DEF InsertDirentry, DiskOK
<1>6. DiskOK(disk')
  BY <1>4, <1>5 DEF DiskOK
<1>7. Range(disk'.root) \subseteq Range(disk.root)
  BY <1>3, <1>5, RootIs
<1>8. LiveIn(disk', O) \subseteq LiveIn(disk, O)
  BY <1>7 DEF LiveIn
<1>9. \A m : InodeIn(disk', O, m) = InodeIn(disk, O, m)
  BY <1>5 DEF InodeIn
<1>10. /\ FsOK(fs) /\ EntriesOK(O) /\ HandlesOK(O, handles) /\ TakenIn(fs.inode_map, LiveIn(disk, O))
       /\ ~fs.inode_map_changed => disk.inode_map = fs.inode_map
       /\ AllOwn(cells, fs.zone_map, InodesIn(disk, O))
  BY <1>1, <1>2, RunningInv
<1>11. AllOwn(cells, fs.zone_map, InodesIn(disk', O))
  <2>1. PICK f, g : f = InodesIn(disk, O) /\ g = InodesIn(disk', O)
    OBVIOUS
  <2>2. DOMAIN g \subseteq DOMAIN f /\ \A m \in DOMAIN g : g[m] = f[m]
    BY <1>8, <1>9, <2>1, InodesAre
  <2>3. \A m \in DOMAIN g : g[m] \in InodeRecord /\ SameZones(g[m], f[m])
    BY <1>10, <2>1, <2>2 DEF AllOwn, SameZones
  <2> QED BY <1>10, <2>1, <2>2, <2>3, FewerOwn
<1>12. TakenIn(fs.inode_map, LiveIn(disk', O))
  BY <1>8, <1>10 DEF TakenIn
<1>13. fs'.open_inodes = O
  BY <1>1, <1>2
<1> QED BY <1>2, <1>5, <1>6, <1>10, <1>11, <1>12, <1>13, InvNext

\* The maps of the disk are those that are in memory.
LEMMA MountNext ==
  ASSUME ZonesInv, Mount
  PROVE  ZonesInv'
<1>1. ~Running /\ fs' = Mounted(disk) /\ cells' = cells /\ disk' = disk /\ handles' = handles
  BY DEF Mount
<1>2. fs.open_inodes = <<>>
  BY <1>1 DEF Running, Unmounted
<1>3. FsOK(fs') /\ fs'.open_inodes = <<>> /\ fs'.inode_map = disk.inode_map /\ fs'.zone_map = disk.zone_map
  BY <1>1 DEF Mounted, FsOK
<1>4. InodeMap = disk.inode_map /\ ZoneMap = disk.zone_map
  BY <1>1 DEF InodeMap, ZoneMap
<1>5. /\ DiskOK(disk) /\ EntriesOK(<<>>) /\ HandlesOK(<<>>, handles) /\ TakenIn(disk.inode_map, LiveIn(disk, <<>>))
      /\ AllOwn(cells, disk.zone_map, InodesIn(disk, <<>>))
  BY <1>2, <1>4 DEF ZonesInv
<1> QED BY <1>1, <1>3, <1>5, InvNext

\* No inode is open, and what is in memory is on the disk.
LEMMA UmountNext ==
  ASSUME ZonesInv, Umount, mishaps' = {}
  PROVE  ZonesInv'
<1>1. /\ Running /\ handles = <<>> /\ fs' = Unmounted /\ cells' = cells /\ handles' = handles
      /\ disk' = (IF fs.inode_map_changed THEN [disk EXCEPT !.inode_map = fs.inode_map, !.zone_map = fs.zone_map]
                  ELSE disk)
      /\ Note([Maps |-> disk'.zone_map # fs.zone_map])
  BY DEF Umount
<1>2. disk'.zone_map = fs.zone_map
  <2>1. PICK c : c = [Maps |-> disk'.zone_map # fs.zone_map]
    OBVIOUS
  <2>2. "Maps" \in DOMAIN c /\ c["Maps"] = (disk'.zone_map # fs.zone_map) /\ Note(c)
    BY <1>1, <2>1
  <2> QED BY <2>2, NoMishap
<1>3. /\ DiskOK(disk) /\ EntriesOK(fs.open_inodes) /\ HandlesOK(fs.open_inodes, handles)
      /\ TakenIn(fs.inode_map, LiveIn(disk, fs.open_inodes))
      /\ ~fs.inode_map_changed => disk.inode_map = fs.inode_map
      /\ AllOwn(cells, fs.zone_map, InodesIn(disk, fs.open_inodes))
  BY <1>1, RunningInv
<1>4. DiskOK(disk') /\ disk'.inode_map = fs.inode_map /\ disk'.root = disk.root /\ disk'.inodes = disk.inodes
  BY <1>1, <1>3 DEF DiskOK
<1>5. DOMAIN fs.open_inodes = {}
  <2>1. ASSUME NEW e \in DOMAIN fs.open_inodes PROVE FALSE
    <3>1. HandlesOf(handles, e) = {}
      BY <1>1 DEF HandlesOf
    <3>2. Cardinality(HandlesOf(handles, e)) # 0
      BY <1>3 DEF HandlesOK
    <3> QED BY <3>1, <3>2, FS_EmptySet
  <2> QED BY <2>1
<1>6. DOMAIN <<>> = {}
  OBVIOUS
<1>7. LiveIn(disk', <<>>) = LiveIn(disk, fs.open_inodes)
  BY <1>4, <1>5, <1>6 DEF LiveIn
<1>8. \A m : InodeIn(disk', <<>>, m) = InodeIn(disk, fs.open_inodes, m)
  <2>1. \A m : EntriesIn(<<>>, m) = {} /\ EntriesIn(fs.open_inodes, m) = {}
    BY <1>5, <1>6 DEF EntriesIn
  <2> QED BY <1>4, <2>1 DEF InodeIn
<1>9. InodesIn(disk', <<>>) = InodesIn(disk, fs.open_inodes)
  BY <1>7, <1>8 DEF InodesIn
<1>10. ~Running' /\ fs'.open_inodes = <<>>
  BY <1>1 DEF Running, Unmounted
<1>11. FsOK(fs')
  BY <1>1 DEF Unmounted, FsOK
<1>12. EntriesOK(<<>>) /\ HandlesOK(<<>>, handles')
  <2>1. IsFiniteSet({})
    BY FS_EmptySet
  <2> QED BY <1>1, <1>6, <2>1 DEF EntriesOK, HandlesOK
<1>13. InodeMap' = fs.inode_map /\ ZoneMap' = fs.zone_map
  BY <1>2, <1>4, <1>10 DEF InodeMap, ZoneMap
<1> QED BY <1>1, <1>3, <1>4, <1>7, <1>9, <1>10, <1>11, <1>12, <1>13 DEF ZonesInv

\* Nothing is lost of an inode that leaves the list.
LEMMA FcloseNext ==
  ASSUME ZonesInv, NEW h, Fclose(h), mishaps' = {}
  PROVE  ZonesInv'
<1>1. PICK O, e, n, i : O = fs.open_inodes /\ e = handles[h].e /\ n = EntryOf(h).inode_n /\ i = EntryOf(h).inode
  OBVIOUS
<1>2. /\ IsOpen(h) /\ disk' = Flushed(h) /\ handles' = Restrict(handles, DOMAIN handles \ {h}) /\ cells' = cells
      /\ fs' = (IF EntryOf(h).num_refs = 1 THEN [fs EXCEPT !.open_inodes = Restrict(@, DOMAIN @ \ {handles[h].e})]
                ELSE [fs EXCEPT !.open_inodes[handles[h].e].num_refs = @ - 1])
      /\ Note([Lost |-> EntryOf(h).num_refs = 1 /\ Usable(h) /\ Flushed(h).inodes[EntryOf(h).inode_n] # EntryOf(h).inode])
  BY DEF Fclose
<1>3. EntryOf(h).num_refs = 1 /\ n # 0 => disk'.inodes[n] = i
  <2>1. PICK c : c = [Lost |-> EntryOf(h).num_refs = 1 /\ Usable(h) /\ Flushed(h).inodes[EntryOf(h).inode_n] # EntryOf(h).inode]
    OBVIOUS
  <2>2. "Lost" \in DOMAIN c /\ c["Lost"] = (EntryOf(h).num_refs = 1 /\ Usable(h) /\ Flushed(h).inodes[EntryOf(h).inode_n] # EntryOf(h).inode) /\ Note(c)
    BY <1>2, <2>1
  <2>3. ~c["Lost"]
    BY <2>2, NoMishap
  <2> QED BY <1>1, <1>2, <2>2, <2>3 DEF Usable
<1>4. /\ Running /\ h \in DOMAIN handles /\ HandleOK(handles[h])
      /\ e \in DOMAIN O /\ EntryOf(h) = O[e] /\ EntryOK(O[e])
  BY <1>1, <1>2, HandleIs
<1>5. /\ FsOK(fs) /\ EntriesOK(O) /\ HandlesOK(O, handles) /\ TakenIn(fs.inode_map, LiveIn(disk, O))
      /\ ~fs.inode_map_changed => disk.inode_map = fs.inode_map
      /\ AllOwn(cells, fs.zone_map, InodesIn(disk, O))
  BY <1>1, <1>4, RunningInv
<1>6. PICK P : P = IF O[e].num_refs = 1 THEN Restrict(O, DOMAIN O \ {e}) ELSE [O EXCEPT ![e].num_refs = @ - 1]
  OBVIOUS
<1>7. fs' = [inode_map |-> fs.inode_map, zone_map |-> fs.zone_map, inode_map_changed |-> fs.inode_map_changed, open_inodes |-> P]
  <2>1. fs = [inode_map |-> fs.inode_map, zone_map |-> fs.zone_map, inode_map_changed |-> fs.inode_map_changed, open_inodes |-> O]
    BY <1>1, <1>5 DEF FsOK
  <2>2. fs' = [fs EXCEPT !.open_inodes = P]
    <3>1. CASE O[e].num_refs = 1
      <4>1. fs' = [fs EXCEPT !.open_inodes = Restrict(fs.open_inodes, DOMAIN fs.open_inodes \ {e})]
        BY <1>1, <1>2, <1>4, <3>1
      <4>2. P = Restrict(fs.open_inodes, DOMAIN fs.open_inodes \ {e})
        BY <1>1, <1>6, <3>1
      <4> QED BY <4>1, <4>2
    <3>2. CASE O[e].num_refs # 1
      <4>1. fs' = [fs EXCEPT !.open_inodes = [fs.open_inodes EXCEPT ![e].num_refs = @ - 1]]
        BY <1>1, <1>2, <1>4, <2>1, <3>2
      <4>2. P = [fs.open_inodes EXCEPT ![e].num_refs = @ - 1]
        BY <1>1, <1>6, <3>2
      <4> QED BY <4>1, <4>2
    <3> QED BY <3>1, <3>2
  <2> QED BY <2>1, <2>2
<1>8. EntriesOK(P) /\ HandlesOK(P, handles')
  <2>1. IF O[e].num_refs = 1 THEN P = Restrict(O, DOMAIN O \ {e}) ELSE P = [O EXCEPT ![e].num_refs = @ - 1]
    BY <1>6
  <2>2. /\ EntriesOK(O) /\ HandlesOK(O, handles) /\ h \in DOMAIN handles /\ e = handles[h].e
        /\ handles' = Restrict(handles, DOMAIN handles \ {h})
    BY <1>1, <1>2, <1>4, <1>5
  <2> QED BY <2>1, <2>2, HandleClosed, SMTT(60)
<1>9. DiskOK(disk') /\ disk'.root = disk.root /\ disk'.inode_map = disk.inode_map
  BY <1>2, FlushedIs
<1>10. DOMAIN P \subseteq DOMAIN O /\ \A x \in DOMAIN P : P[x].inode_n = O[x].inode_n /\ P[x].inode = O[x].inode
  <2>1. CASE O[e].num_refs = 1
    BY <1>6, <2>1 DEF Restrict
  <2>2. CASE O[e].num_refs # 1
    <3>1. DOMAIN P = DOMAIN O /\ P[e] = [O[e] EXCEPT !.num_refs = O[e].num_refs - 1] /\ \A x \in DOMAIN O \ {e} : P[x] = O[x]
      BY <1>4, <1>6, <2>2
    <3>2. P[e].inode_n = O[e].inode_n /\ P[e].inode = O[e].inode
      BY <1>4, <3>1 DEF EntryOK
    <3> QED BY <3>1, <3>2
  <2> QED BY <2>1, <2>2
<1>11. LiveIn(disk', P) \subseteq LiveIn(disk, O)
  BY <1>9, <1>10 DEF LiveIn
<1>12. ASSUME NEW m \in LiveIn(disk', P) PROVE InodeIn(disk', P, m) = InodeIn(disk, O, m)
  <2>1. m # 0 /\ m \in 1..Inodes
    BY <1>5, <1>11 DEF TakenIn, LiveIn
  <2>2. CASE O[e].num_refs = 1 /\ m = n
    <3>1. DOMAIN P = DOMAIN O \ {e}
      BY <1>6, <2>2 DEF Restrict
    <3>2. \A x \in DOMAIN P : P[x].inode_n # m
      BY <1>1, <1>4, <1>5, <1>10, <2>1, <2>2, <3>1 DEF EntriesOK
    <3>3. InodeIn(disk', P, m) = disk'.inodes[m]
      BY <3>2, NoEntryIs
    <3>4. InodeIn(disk, O, n) = O[e].inode
      BY <1>1, <1>4, <1>5, <2>1, <2>2, EntryIs
    <3> QED BY <1>1, <1>3, <1>4, <2>1, <2>2, <3>3, <3>4
  <2>3. CASE ~(O[e].num_refs = 1 /\ m = n)
    <3>1. EntriesIn(P, m) = EntriesIn(O, m)
      <4>1. CASE O[e].num_refs = 1
        <5>1. DOMAIN P = DOMAIN O \ {e} /\ O[e].inode_n # m
          BY <1>1, <1>4, <1>6, <2>3, <4>1 DEF Restrict
        <5> QED BY <1>10, <5>1 DEF EntriesIn
      <4>2. CASE O[e].num_refs # 1
        <5>1. DOMAIN P = DOMAIN O
          BY <1>6, <4>2
        <5> QED BY <1>10, <5>1 DEF EntriesIn
      <4> QED BY <4>1, <4>2
    <3>2. \A x \in EntriesIn(O, m) : P[x].inode = O[x].inode
      BY <1>10, <3>1 DEF EntriesIn
    <3>3. ASSUME EntriesIn(O, m) = {} PROVE disk'.inodes[m] = disk.inodes[m]
      <4>1. m # EntryOf(h).inode_n
        BY <1>4, <3>3 DEF EntriesIn
      <4> QED BY <1>2, <2>1, <4>1, FlushedIs
    <3> QED BY <1>5, <2>1, <3>1, <3>2, <3>3, InodeKept
  <2> QED BY <2>2, <2>3
<1>13. AllOwn(cells, fs.zone_map, InodesIn(disk', P))
  <2>1. PICK f, g : f = InodesIn(disk, O) /\ g = InodesIn(disk', P)
    OBVIOUS
  <2>2. DOMAIN g \subseteq DOMAIN f /\ \A m \in DOMAIN g : g[m] = f[m]
    BY <1>11, <1>12, <2>1, InodesAre
  <2>3. \A m \in DOMAIN g : g[m] \in InodeRecord /\ SameZones(g[m], f[m])
    BY <1>5, <2>1, <2>2 DEF AllOwn, SameZones
  <2> QED BY <1>5, <2>1, <2>2, <2>3, FewerOwn
<1>14. TakenIn(fs.inode_map, LiveIn(disk', P))
  BY <1>5, <1>11 DEF TakenIn
<1>15. /\ FsOK(fs') /\ fs'.open_inodes = P /\ fs'.inode_map = fs.inode_map /\ fs'.zone_map = fs.zone_map
       /\ fs'.inode_map_changed = fs.inode_map_changed
  BY <1>7 DEF FsOK
<1> QED BY <1>2, <1>5, <1>8, <1>9, <1>13, <1>14, <1>15, InvNext

-----------------------------------------------------------------------------
(* The steps that give zones back, or take them.                           *)

\* An inode that has no zones, or none any more.
LEMMA NoZones ==
  ASSUME MinixAssumption, NEW I, I.std = [i \in 1..StdZones |-> 0], I.indir = 0, NEW C
  PROVE  ZonesIn(C, I) = {} /\ \A map : Own(C, map, I)
<1>1. ASSUME NEW i \in Slots PROVE ZoneIn(C, I, i) = 0
  <2>1. CASE i < StdZones
    <3>1. i + 1 \in 1..StdZones
      BY <2>1 DEF Slots, MinixAssumption
    <3> QED BY <2>1, <3>1 DEF ZoneIn
  <2>2. CASE ~(i < StdZones)
    BY <2>2 DEF ZoneIn
  <2> QED BY <2>1, <2>2
<1>2. ZonesIn(C, I) = {}
  BY <1>1 DEF ZonesIn
<1> QED BY <1>1, <1>2 DEF Own

LEMMA NewInodeIs ==
  ASSUME MinixAssumption, NEW type \in {"file", "dir"}
  PROVE  /\ NewInode(type) \in InodeRecord /\ NewInode(type).std = [i \in 1..StdZones |-> 0]
         /\ NewInode(type).indir = 0
<1>1. 0 \in 0..Zones
  BY DEF MinixAssumption
<1>2. [i \in 1..StdZones |-> 0] \in [1..StdZones -> 0..Zones]
  BY <1>1
<1> QED BY <1>1, <1>2 DEF NewInode, InodeRecord

LEMMA WithoutIs ==
  ASSUME MinixAssumption, NEW I \in InodeRecord
  PROVE  /\ [Without(I) EXCEPT !.size = 0] \in InodeRecord /\ [Without(I) EXCEPT !.size = 0].indir = 0
         /\ [Without(I) EXCEPT !.size = 0].std = [i \in 1..StdZones |-> 0]
<1>1. 0 \in 0..Zones
  BY DEF MinixAssumption
<1>2. PICK s : s = [i \in 1..StdZones |-> 0]
  OBVIOUS
<1>3. NewInode("file").std = s /\ s \in [1..StdZones -> 0..Zones]
  BY <1>1, <1>2 DEF NewInode
<1>4. Without(I) = [I EXCEPT !.std = s, !.indir = 0]
  BY <1>3 DEF Without
<1> QED BY <1>1, <1>2, <1>3, <1>4 DEF InodeRecord

LEMMA EmptiedIs ==
  ASSUME NEW S
  PROVE  Alike(Emptied(S), cells, S)
  BY DEF Alike, Emptied

\* minix_fopen_inodenum(): of an inode that counts already, or of one that is new.
LEMMA OpenedNext ==
  ASSUME MinixAssumption, ZonesInv, Running, NEW h, h \notin DOMAIN handles, NEW n \in 2..Inodes,
         NEW I \in InodeRecord, NEW mode, Opened(h, n, I, mode),
         IF n \in LiveIn(disk, fs.open_inodes) THEN I = InodeIn(disk, fs.open_inodes, n)
         ELSE I.std = [i \in 1..StdZones |-> 0] /\ I.indir = 0,
         DiskOK(disk'), Range(disk'.root) \subseteq Range(disk.root) \cup {n},
         disk'.inodes = disk.inodes, disk'.inode_map = disk.inode_map
  PROVE  ZonesInv'
<1>1. PICK O, clear, e, refs, size, k, o :
         /\ O = fs.open_inodes /\ clear = ("clear" \in mode)
         /\ e = (IF Entries(n) = {} THEN NewEntry ELSE Min(Entries(n)))
         /\ refs = (IF Entries(n) = {} THEN 0 ELSE fs.open_inodes[e].num_refs)
         /\ size = (IF clear THEN 0 ELSE I.size)
         /\ k = [e |-> e, pos |-> IF "append" \in mode THEN size ELSE 0, size |-> size, written |-> clear, mode |-> mode]
         /\ o = [inode_n |-> n, num_refs |-> refs + 1,
                 inode |-> IF clear THEN [Without(I) EXCEPT !.size = 0] ELSE I]
  OBVIOUS
<1>2. PICK P, S : P = Put(O, e, o) /\ S = (IF clear THEN ZonesIn(cells, I) ELSE {})
  OBVIOUS
<1>3. ZonesOf(I) = ZonesIn(cells, I) /\ Entries(n) = EntriesIn(O, n)
  BY <1>1, ZonesAre
<1>4. /\ handles' = Put(handles, h, k)
      /\ fs' = [fs EXCEPT !.open_inodes = P, !.zone_map = IF clear THEN fs.zone_map \ ZonesIn(cells, I) ELSE fs.zone_map,
                          !.inode_map = fs.inode_map \cup {n},
                          !.inode_map_changed = fs.inode_map_changed \/ n \notin fs.inode_map]
      /\ cells' = (IF clear THEN Emptied(ZonesIn(cells, I)) ELSE cells)
  BY <1>1, <1>2, <1>3 DEF Opened
<1>5. /\ FsOK(fs) /\ EntriesOK(O) /\ HandlesOK(O, handles) /\ TakenIn(fs.inode_map, LiveIn(disk, O))
      /\ ~fs.inode_map_changed => disk.inode_map = fs.inode_map
      /\ AllOwn(cells, fs.zone_map, InodesIn(disk, O))
  BY <1>1, RunningInv
<1>6. n # 0 /\ n # 1 /\ n \in 1..Inodes
  BY DEF MinixAssumption
<1>7. /\ fs'.open_inodes = P /\ fs'.inode_map = fs.inode_map \cup {n}
      /\ fs'.zone_map = (IF clear THEN fs.zone_map \ ZonesIn(cells, I) ELSE fs.zone_map)
      /\ fs'.inode_map_changed = (fs.inode_map_changed \/ n \notin fs.inode_map)
      /\ FsOK(fs')
  BY <1>4, <1>5 DEF FsOK
<1>8. fs'.zone_map = fs.zone_map \ S
  BY <1>2, <1>7
<1>9. /\ e \in Nat \ {0} /\ \A x \in DOMAIN O \ {e} : O[x].inode_n # n
      /\ \/ e \in DOMAIN O /\ o.num_refs = O[e].num_refs + 1 /\ O[e].inode_n = n
         \/ e \notin DOMAIN O /\ o.num_refs = 1
  <2>1. CASE EntriesIn(O, n) = {}
    <3>1. e = NewEntry /\ refs = 0 /\ o.num_refs = 1
      BY <1>1, <1>3, <2>1
    <3>2. e \in Nat \ {0} /\ e \notin DOMAIN O
      BY <1>1, <1>5, <3>1, NewEntryIs
    <3>3. \A x \in DOMAIN O : O[x].inode_n # n
      BY <2>1 DEF EntriesIn
    <3> QED BY <3>1, <3>2, <3>3
  <2>2. CASE EntriesIn(O, n) # {}
    <3>1. PICK x \in DOMAIN O : O[x].inode_n = n
      BY <2>2 DEF EntriesIn
    <3>2. EntriesIn(O, n) = {x} /\ Min(EntriesIn(O, n)) = x
      BY <1>5, <1>6, <3>1, EntryIs
    <3>3. e = x /\ o.num_refs = O[e].num_refs + 1
      BY <1>1, <1>3, <2>2, <3>2
    <3>4. e \in Nat \ {0}
      BY <1>5, <3>1, <3>3 DEF EntriesOK
    <3>5. \A y \in DOMAIN O \ {e} : O[y].inode_n # n
      BY <3>2, <3>3 DEF EntriesIn
    <3> QED BY <3>1, <3>3, <3>4, <3>5
  <2> QED BY <2>1, <2>2
<1>10. EntryOK(o) /\ o.inode_n = n /\ o.inode = (IF clear THEN [Without(I) EXCEPT !.size = 0] ELSE I)
  BY <1>1 DEF EntryOK
<1>11. HandleOK(k) /\ k.e = e
  <2>1. size \in Nat
    BY <1>1 DEF InodeRecord
  <2> QED BY <1>1, <2>1 DEF HandleOK
<1>12. EntriesOK(P) /\ HandlesOK(P, handles')
  BY <1>2, <1>4, <1>5, <1>6, <1>9, <1>10, <1>11, HandleOpened
<1>13. DOMAIN P = DOMAIN O \cup {e} /\ P[e] = o /\ \A x \in DOMAIN O \ {e} : P[x] = O[x]
  BY <1>2 DEF Put
<1>14. LiveIn(disk', P) \subseteq LiveIn(disk, O) \cup {n}
  BY <1>10, <1>13 DEF LiveIn
<1>15. TakenIn(fs'.inode_map, LiveIn(disk', P))
  BY <1>5, <1>6, <1>7, <1>14 DEF TakenIn
<1>16. ~fs'.inode_map_changed => disk'.inode_map = fs'.inode_map
  <2>1. ASSUME ~fs'.inode_map_changed PROVE ~fs.inode_map_changed /\ n \in fs.inode_map
    BY <1>7, <2>1
  <2> QED BY <1>5, <1>7, <2>1
<1>17. \A m \in LiveIn(disk', P) \ {n} : m \in LiveIn(disk, O) /\ InodeIn(disk', P, m) = InodeIn(disk, O, m)
  <2> SUFFICES ASSUME NEW m \in LiveIn(disk', P) \ {n}
               PROVE  m \in LiveIn(disk, O) /\ InodeIn(disk', P, m) = InodeIn(disk, O, m)
    OBVIOUS
  <2>1. m \in LiveIn(disk, O) /\ m # 0 /\ m # n
    BY <1>5, <1>14 DEF TakenIn
  <2>2. EntriesIn(P, m) = EntriesIn(O, m) /\ e \notin EntriesIn(O, m)
    BY <1>9, <1>10, <1>13, <2>1 DEF EntriesIn
  <2>3. \A x \in EntriesIn(O, m) : P[x].inode = O[x].inode
    BY <1>13, <2>2 DEF EntriesIn
  <2> QED BY <1>5, <2>1, <2>2, <2>3, InodeKept
<1>18. n \in LiveIn(disk', P) /\ InodeIn(disk', P, n) = o.inode
  BY <1>6, <1>10, <1>12, <1>13, EntryIs
<1>19. AllOwn(cells', fs.zone_map \ S, InodesIn(disk', P))
  <2>1. PICK f, g : f = InodesIn(disk, O) /\ g = InodesIn(disk', P)
    OBVIOUS
  <2>2. /\ DOMAIN g \subseteq DOMAIN f \cup {n} /\ \A m \in DOMAIN g \ {n} : m \in DOMAIN f /\ g[m] = f[m]
        /\ n \in DOMAIN g /\ g[n] = o.inode /\ (n \in DOMAIN f <=> n \in LiveIn(disk, O))
        /\ n \in DOMAIN f => f[n] = I
    BY <1>1, <1>14, <1>17, <1>18, <2>1, InodesAre
  <2>3. \A m \in DOMAIN g \ {n} : g[m] \in InodeRecord /\ SameZones(g[m], f[m])
    BY <1>5, <2>1, <2>2 DEF AllOwn, SameZones
  <2>4. n \notin DOMAIN f => ZonesIn(cells, I) = {} /\ ZonesIn(cells', I) = {}
    BY <1>1, <2>2, NoZones
  <2>5. CASE clear
    <3>1. S = ZonesIn(cells, I) /\ cells' = Emptied(S) /\ Alike(cells', cells, S)
      BY <1>2, <1>4, <2>5, EmptiedIs
    <3>2. g[n] = [Without(I) EXCEPT !.size = 0]
      BY <1>10, <2>2, <2>5
    <3>3. g[n] \in InodeRecord /\ ZonesIn(cells', g[n]) = {}
      BY <3>2, WithoutIs, NoZones
    <3> QED BY <1>5, <2>1, <2>2, <2>3, <2>4, <3>1, <3>3, FreedOwn
  <2>6. CASE ~clear
    <3>1. S = {} /\ cells' = cells /\ g[n] = I
      BY <1>2, <1>4, <1>10, <2>2, <2>6
    <3>2. CASE n \in DOMAIN f
      <4>1. DOMAIN g \subseteq DOMAIN f /\ \A m \in DOMAIN g : g[m] \in InodeRecord /\ SameZones(g[m], f[m])
        BY <2>2, <2>3, <3>1, <3>2 DEF SameZones
      <4>2. fs.zone_map \ S = fs.zone_map
        BY <3>1
      <4> QED BY <1>5, <2>1, <3>1, <4>1, <4>2, FewerOwn
    <3>3. CASE n \notin DOMAIN f
      <4>1. Alike(cells', cells, S)
        BY <3>1 DEF Alike
      <4> QED BY <1>5, <2>1, <2>2, <2>3, <2>4, <3>1, <3>3, <4>1, FreedOwn
    <3> QED BY <3>2, <3>3
  <2> QED BY <2>1, <2>5, <2>6
<1> QED BY <1>7, <1>8, <1>12, <1>15, <1>16, <1>19, InvNext

\* The first of the inodes that are free.
LEMMA FreeInodeIs ==
  ASSUME MinixAssumption, ZonesInv, Running, FreeInodes # {}
  PROVE  Min(FreeInodes) \in 2..Inodes /\ Min(FreeInodes) \notin fs.inode_map
<1>1. Inodes \in Nat /\ 1 \in fs.inode_map
  BY RunningInv DEF MinixAssumption, TakenIn
<1>2. FreeInodes \in SUBSET Nat
  BY <1>1 DEF FreeInodes
<1>3. PICK m \in FreeInodes : \A q \in FreeInodes : m <= q
  BY <1>2, Least
<1>4. Min(FreeInodes) \in FreeInodes
  BY <1>3 DEF Min
<1> QED BY <1>1, <1>4 DEF FreeInodes

LEMMA FopenNext ==
  ASSUME MinixAssumption, ZonesInv, NEW h, NEW name, NEW mode, Fopen(h, name, mode)
  PROVE  ZonesInv'
<1>1. PICK n : n = LocateInode(name)
  OBVIOUS
<1>2. /\ Running /\ h \notin DOMAIN handles
      /\ \/ n # 0 /\ Opened(h, n, Inode(n), mode) /\ disk' = disk
         \/ /\ n = 0 /\ FreeInodes # {} /\ Opened(h, Min(FreeInodes), NewInode("file"), mode)
            /\ disk' = InsertDirentry(name, Min(FreeInodes))
  BY <1>1 DEF Fopen
<1>3. /\ DiskOK(disk) /\ TakenIn(fs.inode_map, LiveIn(disk, fs.open_inodes))
      /\ AllOwn(cells, fs.zone_map, InodesIn(disk, fs.open_inodes))
  BY <1>2, RunningInv
<1>4. CASE n # 0 /\ Opened(h, n, Inode(n), mode) /\ disk' = disk
  <2>1. n \in Range(disk.root)
    BY <1>1, <1>4, RootIs DEF LocateInode
  <2>2. n \in LiveIn(disk, fs.open_inodes)
    BY <1>4, <2>1 DEF LiveIn
  <2>3. n \in 2..Inodes
    <3>1. n \in 1..Inodes /\ n # 1
      BY <1>3, <2>2 DEF TakenIn
    <3> QED BY <3>1
  <2>4. Inode(n) = InodeIn(disk, fs.open_inodes, n) /\ Inode(n) \in InodeRecord
    BY <1>3, <2>2, ZonesAre, InodesAre DEF AllOwn
  <2> QED BY <1>2, <1>3, <1>4, <2>1, <2>2, <2>3, <2>4, OpenedNext
<1>5. CASE /\ FreeInodes # {} /\ Opened(h, Min(FreeInodes), NewInode("file"), mode)
           /\ disk' = InsertDirentry(name, Min(FreeInodes))
  <2>1. PICK m : m = Min(FreeInodes)
    OBVIOUS
  <2>2. m \in 2..Inodes /\ m \notin fs.inode_map
    BY <1>2, <1>5, <2>1, FreeInodeIs
  <2>3. m \notin LiveIn(disk, fs.open_inodes)
    BY <1>3, <2>2 DEF TakenIn
  <2>4. disk' = [inodes |-> disk.inodes, inode_map |-> disk.inode_map, root |-> Put(disk.root, name, m),
                 zone_map |-> disk.zone_map]
    BY <1>3, <1>5, <2>1 DEF InsertDirentry, DiskOK
  <2>5. DiskOK(disk') /\ disk'.inodes = disk.inodes /\ disk'.inode_map = disk.inode_map
    BY <1>3, <2>4 DEF DiskOK
  <2>6. Range(disk'.root) \subseteq Range(disk.root) \cup {m}
    BY <2>4, RootIs
  <2>7. NewInode("file") \in InodeRecord /\ NewInode("file").std = [i \in 1..StdZones |-> 0] /\ NewInode("file").indir = 0
    BY NewInodeIs
  <2> QED BY <1>2, <1>5, <2>1, <2>2, <2>3, <2>5, <2>6, <2>7, OpenedNext
<1> QED BY <1>2, <1>4, <1>5

\* A name goes, and with the last name of an inode its zones.
LEMMA UnlinkNext ==
  ASSUME MinixAssumption, ZonesInv, NEW name, Unlink(name), mishaps' = {}
  PROVE  ZonesInv'
<1>1. PICK O, n, I, gone, S, Q :
        /\ O = fs.open_inodes /\ n = LocateInode(name) /\ I = [Inode(n) EXCEPT !.refs = @ - 1]
        /\ gone = (I.refs = 0) /\ S = (IF gone THEN ZonesIn(cells, I) ELSE {})
        /\ Q = Restrict(disk.root, DOMAIN disk.root \ {name})
  OBVIOUS
<1>2. PICK P : P = [x \in DOMAIN O |-> IF x \in EntriesIn(O, n)
                       THEN IF gone THEN [O[x] EXCEPT !.inode = Without(I), !.inode_n = 0] ELSE [O[x] EXCEPT !.inode = I]
                       ELSE O[x]]
  OBVIOUS
<1>3. Entries(n) = EntriesIn(O, n) /\ ZonesOf(I) = ZonesIn(cells, I) /\ Inode(n) = InodeIn(disk, O, n)
  <2>1. Entries(n) = EntriesIn(fs.open_inodes, n) /\ Inode(n) = InodeIn(disk, fs.open_inodes, n)
    BY ZonesAre
  <2>2. ZonesOf(I) = ZonesIn(cells, I)
    BY ZonesAre
  <2> QED BY <1>1, <2>1, <2>2
<1>4. /\ Running /\ n # 0 /\ handles' = handles
      /\ disk' = [disk EXCEPT !.root = Q, !.inodes[n] = IF gone THEN @ ELSE I]
      /\ fs' = [fs EXCEPT !.open_inodes = P, !.zone_map = IF gone THEN @ \ ZonesIn(cells, I) ELSE @,
                          !.inode_map = IF gone THEN @ \ {n} ELSE @, !.inode_map_changed = @ \/ gone]
      /\ cells' = (IF gone THEN Emptied(ZonesIn(cells, I)) ELSE cells)
      /\ Note([Link |-> gone /\ n \in Range(disk'.root)])
  BY <1>1, <1>2, <1>3, ZenonT(60) DEF Unlink
<1>5. gone => n \notin Range(disk'.root)
  <2>1. PICK c : c = [Link |-> gone /\ n \in Range(disk'.root)]
    OBVIOUS
  <2>2. "Link" \in DOMAIN c /\ c["Link"] = (gone /\ n \in Range(disk'.root)) /\ Note(c)
    BY <1>4, <2>1
  <2> QED BY <2>2, NoMishap
<1>6. /\ DiskOK(disk) /\ FsOK(fs) /\ EntriesOK(O) /\ HandlesOK(O, handles) /\ TakenIn(fs.inode_map, LiveIn(disk, O))
      /\ ~fs.inode_map_changed => disk.inode_map = fs.inode_map
      /\ AllOwn(cells, fs.zone_map, InodesIn(disk, O))
  BY <1>1, <1>4, RunningInv
<1>7. n \in LiveIn(disk, O) /\ n \in 1..Inodes /\ n # 1 /\ n \in fs.inode_map
  <2>1. n \in Range(disk.root)
    BY <1>1, <1>4, RootIs DEF LocateInode
  <2>2. n \in LiveIn(disk, O)
    BY <1>4, <2>1 DEF LiveIn
  <2> QED BY <1>6, <2>2 DEF TakenIn
<1>8. InodeIn(disk, O, n) \in InodeRecord
  BY <1>6, <1>7, InodesAre DEF AllOwn
<1>9. I \in InodeRecord /\ SameZones(I, InodeIn(disk, O, n))
  <2>1. PICK J \in InodeRecord : J = InodeIn(disk, O, n)
    BY <1>8
  <2>2. J.refs - 1 \in Int
    BY DEF InodeRecord
  <2>3. I = [J EXCEPT !.refs = J.refs - 1]
    BY <1>1, <1>3, <2>1
  <2>4. I \in InodeRecord /\ SameZones(I, J)
    BY <2>2, <2>3 DEF InodeRecord, SameZones
  <2> QED BY <2>1, <2>4
<1>10. S = IF gone THEN ZonesIn(cells, InodeIn(disk, O, n)) ELSE {}
  BY <1>1, <1>9, SameZonesIn
<1>11. /\ disk' = [inodes |-> [disk.inodes EXCEPT ![n] = IF gone THEN disk.inodes[n] ELSE I],
                   inode_map |-> disk.inode_map, root |-> Q, zone_map |-> disk.zone_map]
       /\ DOMAIN disk.inodes = 1..Inodes
  BY <1>4, <1>6 DEF DiskOK
<1>12. /\ DiskOK(disk') /\ disk'.root = Q /\ disk'.inode_map = disk.inode_map
       /\ disk'.inodes[n] = (IF gone THEN disk.inodes[n] ELSE I)
       /\ \A m \in 1..Inodes : m # n => disk'.inodes[m] = disk.inodes[m]
  <2>1. disk'.inodes = [disk.inodes EXCEPT ![n] = IF gone THEN disk.inodes[n] ELSE I] /\ disk'.root = Q
        /\ disk'.inode_map = disk.inode_map
    BY <1>11
  <2>2. DiskOK(disk')
    BY <1>11, <2>1 DEF DiskOK
  <2> QED BY <1>7, <1>11, <2>1, <2>2
<1>13. /\ fs'.open_inodes = P /\ fs'.inode_map = (IF gone THEN fs.inode_map \ {n} ELSE fs.inode_map)
       /\ fs'.zone_map = (IF gone THEN fs.zone_map \ ZonesIn(cells, I) ELSE fs.zone_map)
       /\ fs'.inode_map_changed = (fs.inode_map_changed \/ gone)
       /\ FsOK(fs')
  BY <1>4, <1>6 DEF FsOK
<1>14. fs'.zone_map = fs.zone_map \ S
  BY <1>1, <1>13
<1>15. /\ DOMAIN P = DOMAIN O
       /\ \A x \in DOMAIN O : /\ EntryOK(P[x]) /\ P[x].num_refs = O[x].num_refs
                              /\ O[x].inode_n # n => P[x] = O[x]
                              /\ O[x].inode_n = n => P[x].inode_n = (IF gone THEN 0 ELSE n)
                              /\ O[x].inode_n = n /\ ~gone => P[x].inode = I
  <2> SUFFICES ASSUME NEW x \in DOMAIN O
               PROVE  /\ EntryOK(P[x]) /\ P[x].num_refs = O[x].num_refs
                      /\ O[x].inode_n # n => P[x] = O[x]
                      /\ O[x].inode_n = n => P[x].inode_n = (IF gone THEN 0 ELSE n)
                      /\ O[x].inode_n = n /\ ~gone => P[x].inode = I
    BY <1>2
  <2>1. EntryOK(O[x]) /\ (x \in EntriesIn(O, n) <=> O[x].inode_n = n)
    BY <1>6 DEF EntriesOK, EntriesIn
  <2>2. CASE O[x].inode_n # n
    BY <1>2, <2>1, <2>2
  <2>3. CASE O[x].inode_n = n /\ gone
    <3>1. P[x] = [O[x] EXCEPT !.inode = Without(I), !.inode_n = 0]
      BY <1>2, <2>1, <2>3
    <3> QED BY <2>1, <2>3, <3>1 DEF EntryOK
  <2>4. CASE O[x].inode_n = n /\ ~gone
    <3>1. P[x] = [O[x] EXCEPT !.inode = I]
      BY <1>2, <2>1, <2>4
    <3> QED BY <2>1, <2>4, <3>1 DEF EntryOK
  <2> QED BY <2>2, <2>3, <2>4
<1>16. EntriesOK(P) /\ HandlesOK(P, handles')
  <2>1. \A x \in DOMAIN O : /\ EntryOK(P[x]) /\ P[x].num_refs = O[x].num_refs
                            /\ P[x].inode_n = O[x].inode_n \/ P[x].inode_n = 0
    BY <1>15
  <2> QED BY <1>4, <1>6, <1>15, <2>1, EntriesMove
<1>17. LiveIn(disk', P) \subseteq LiveIn(disk, O) /\ (gone => n \notin LiveIn(disk', P))
  <2>1. Range(disk'.root) \subseteq Range(disk.root)
    <3>1. DOMAIN disk.root \ {name} \in SUBSET DOMAIN disk.root
      OBVIOUS
    <3>2. Range(Q) \subseteq Range(disk.root)
      BY <1>1, <3>1, RootIs
    <3> QED BY <1>12, <3>2
  <2>2. \A x \in DOMAIN P : P[x].inode_n = 0 \/ P[x].inode_n = O[x].inode_n
    BY <1>15
  <2>3. gone => \A x \in DOMAIN P : P[x].inode_n # n
    BY <1>4, <1>15
  <2>4. LiveIn(disk', P) \subseteq LiveIn(disk, O)
    BY <1>15, <2>1, <2>2 DEF LiveIn
  <2>5. gone => n \notin LiveIn(disk', P)
    BY <1>5, <2>3 DEF LiveIn
  <2> QED BY <2>4, <2>5
<1>18. TakenIn(fs'.inode_map, LiveIn(disk', P))
  BY <1>6, <1>7, <1>13, <1>17 DEF TakenIn
<1>19. ~fs'.inode_map_changed => disk'.inode_map = fs'.inode_map
  BY <1>6, <1>12, <1>13
<1>20. ASSUME NEW m \in LiveIn(disk', P), m # n PROVE InodeIn(disk', P, m) = InodeIn(disk, O, m)
  <2>1. m # 0 /\ m \in 1..Inodes
    BY <1>6, <1>17 DEF TakenIn, LiveIn
  <2>2. EntriesIn(P, m) = EntriesIn(O, m)
    BY <1>15, <1>20, <2>1 DEF EntriesIn
  <2>3. \A x \in EntriesIn(O, m) : P[x].inode = O[x].inode
    BY <1>15, <1>20 DEF EntriesIn
  <2>4. disk'.inodes[m] = disk.inodes[m]
    BY <1>12, <1>20, <2>1
  <2> QED BY <1>6, <2>1, <2>2, <2>3, <2>4, InodeKept
<1>21. ~gone => InodeIn(disk', P, n) = I
  <2> SUFFICES ASSUME ~gone PROVE InodeIn(disk', P, n) = I
    OBVIOUS
  <2>1. CASE \E x \in DOMAIN P : P[x].inode_n = n
    <3>1. PICK x \in DOMAIN P : P[x].inode_n = n
      BY <2>1
    <3>2. O[x].inode_n = n /\ P[x].inode = I
      BY <1>15, <3>1
    <3>3. InodeIn(disk', P, P[x].inode_n) = P[x].inode
      BY <1>4, <1>16, <3>1, EntryIs
    <3> QED BY <3>1, <3>2, <3>3
  <2>2. CASE \A x \in DOMAIN P : P[x].inode_n # n
    <3>1. InodeIn(disk', P, n) = disk'.inodes[n]
      BY <2>2, NoEntryIs
    <3> QED BY <1>12, <3>1
  <2> QED BY <2>1, <2>2
<1>22. AllOwn(cells', fs.zone_map \ S, InodesIn(disk', P))
  <2>1. PICK f, g : f = InodesIn(disk, O) /\ g = InodesIn(disk', P)
    OBVIOUS
  <2>2. /\ DOMAIN g \subseteq DOMAIN f /\ \A m \in DOMAIN g \ {n} : g[m] = f[m]
        /\ n \in DOMAIN f /\ f[n] = InodeIn(disk, O, n)
        /\ gone => n \notin DOMAIN g
        /\ ~gone /\ n \in DOMAIN g => g[n] = I
    <3>1. DOMAIN f = LiveIn(disk, O) /\ DOMAIN g = LiveIn(disk', P)
      BY <2>1, InodesAre
    <3>2. /\ \A m \in LiveIn(disk, O) : f[m] = InodeIn(disk, O, m)
          /\ \A m \in LiveIn(disk', P) : g[m] = InodeIn(disk', P, m)
      BY <2>1, InodesAre
    <3>3. \A m \in DOMAIN g \ {n} : g[m] = f[m]
      BY <1>17, <1>20, <3>1, <3>2
    <3>4. ~gone /\ n \in DOMAIN g => g[n] = I
      BY <1>21, <3>1, <3>2
    <3> QED BY <1>7, <1>17, <3>1, <3>2, <3>3, <3>4
  <2>3. \A m \in DOMAIN g \ {n} : g[m] \in InodeRecord /\ SameZones(g[m], f[m])
    BY <1>6, <2>1, <2>2 DEF AllOwn, SameZones
  <2>4. CASE gone
    <3>1. S = ZonesIn(cells, f[n]) /\ n \notin DOMAIN g
      BY <1>10, <2>2, <2>4
    <3>2. Alike(cells', cells, S)
      BY <1>1, <1>4, <2>4, EmptiedIs
    <3>3. DOMAIN g \subseteq DOMAIN f \cup {n} /\ n \in DOMAIN f
      BY <2>2
    <3>4. AllOwn(cells, fs.zone_map, f)
      BY <1>6, <2>1
    <3>5. AllOwn(cells', fs.zone_map \ S, g)
      BY <2>3, <3>1, <3>2, <3>3, <3>4, FreedOwn
    <3> QED BY <2>1, <3>5
  <2>5. CASE ~gone
    <3>1. S = {} /\ cells' = cells /\ fs.zone_map \ S = fs.zone_map
      BY <1>1, <1>4, <2>5
    <3>2. \A m \in DOMAIN g : g[m] \in InodeRecord /\ SameZones(g[m], f[m])
      BY <1>9, <2>2, <2>3, <2>5
    <3> QED BY <1>6, <2>1, <2>2, <3>1, <3>2, FewerOwn
  <2> QED BY <2>1, <2>4, <2>5
<1> QED BY <1>12, <1>13, <1>14, <1>16, <1>18, <1>19, <1>22, InvNext

\* A directory has the first free zone.
LEMMA DmakeNext ==
  ASSUME MinixAssumption, ZonesInv, NEW name, Dmake(name), mishaps' = {}
  PROVE  ZonesInv'
<1>1. PICK O, n, J, I, F :
        O = fs.open_inodes /\ n = Min(FreeInodes) /\ J = NewInode("dir") /\ I = WithZones(J, {0}) /\ F = FreeZones
  OBVIOUS
<1>2. PICK made : made = [I EXCEPT !.size = 2, !.refs = 3]
  OBVIOUS
<1>3. ZonesOf(I) = ZonesIn(cells, I)
  BY ZonesAre
<1>4. /\ Running /\ FreeInodes # {} /\ handles' = handles
      /\ disk' = [InsertDirentry(name, n) EXCEPT !.inodes[n] = IF I.std[1] = 0 THEN @ ELSE made]
      /\ fs' = [fs EXCEPT !.zone_map = @ \cup ZonesIn(cells, I), !.inode_map = @ \cup {n}, !.inode_map_changed = TRUE]
      /\ cells' = Emptied(ZonesIn(cells, I))
      /\ Note([Lost |-> I.std[1] = 0])
  BY <1>1, <1>2, <1>3 DEF Dmake
<1>5. I.std[1] # 0
  <2>1. PICK c : c = [Lost |-> I.std[1] = 0]
    OBVIOUS
  <2>2. "Lost" \in DOMAIN c /\ c["Lost"] = (I.std[1] = 0) /\ Note(c)
    BY <1>4, <2>1
  <2> QED BY <2>2, NoMishap
<1>6. /\ DiskOK(disk) /\ FsOK(fs) /\ EntriesOK(O) /\ HandlesOK(O, handles) /\ TakenIn(fs.inode_map, LiveIn(disk, O))
      /\ AllOwn(cells, fs.zone_map, InodesIn(disk, O))
  BY <1>1, <1>4, RunningInv
<1>7. n \in 2..Inodes /\ n \notin fs.inode_map
  BY <1>1, <1>4, FreeInodeIs
<1>8. n # 0 /\ n # 1 /\ n \in 1..Inodes
  BY <1>7 DEF MinixAssumption
<1>9. n \notin LiveIn(disk, O)
  BY <1>6, <1>7 DEF TakenIn
<1>10. /\ disk' = [inodes |-> [disk.inodes EXCEPT ![n] = made], inode_map |-> disk.inode_map,
                   root |-> Put(disk.root, name, n), zone_map |-> disk.zone_map]
       /\ DOMAIN disk.inodes = 1..Inodes
  <2>1. InsertDirentry(name, n) = [inodes |-> disk.inodes, inode_map |-> disk.inode_map,
                                   root |-> Put(disk.root, name, n), zone_map |-> disk.zone_map]
    BY <1>6 DEF InsertDirentry, DiskOK
  <2>2. disk' = [InsertDirentry(name, n) EXCEPT !.inodes[n] = made]
    BY <1>4, <1>5
  <2> QED BY <1>6, <2>1, <2>2 DEF DiskOK
<1>11. /\ DiskOK(disk') /\ disk'.root = Put(disk.root, name, n) /\ disk'.inodes[n] = made
       /\ \A m \in 1..Inodes : m # n => disk'.inodes[m] = disk.inodes[m]
  <2>1. disk'.inodes = [disk.inodes EXCEPT ![n] = made] /\ disk'.root = Put(disk.root, name, n)
    BY <1>10
  <2>2. DiskOK(disk')
    BY <1>10, <2>1 DEF DiskOK
  <2> QED BY <1>8, <1>10, <2>1, <2>2
<1>12. /\ FsOK(fs') /\ fs'.open_inodes = O /\ fs'.inode_map = fs.inode_map \cup {n}
       /\ fs'.zone_map = fs.zone_map \cup ZonesIn(cells, I) /\ fs'.inode_map_changed
  BY <1>1, <1>4, <1>6 DEF FsOK
<1>13. LiveIn(disk', O) \subseteq LiveIn(disk, O) \cup {n}
  <2>1. Range(disk'.root) \subseteq Range(disk.root) \cup {n}
    BY <1>11, RootIs
  <2> QED BY <2>1 DEF LiveIn
<1>14. TakenIn(fs'.inode_map, LiveIn(disk', O))
  BY <1>6, <1>8, <1>12, <1>13 DEF TakenIn
<1>15. ASSUME NEW m \in LiveIn(disk', O) \ {n} PROVE m \in LiveIn(disk, O) /\ InodeIn(disk', O, m) = InodeIn(disk, O, m)
  <2>1. m \in LiveIn(disk, O) /\ m # n
    BY <1>13
  <2>2. m # 0 /\ m \in 1..Inodes
    BY <1>6, <2>1 DEF TakenIn, LiveIn
  <2>3. disk'.inodes[m] = disk.inodes[m]
    BY <1>11, <2>1, <2>2
  <2> QED BY <1>6, <2>1, <2>2, <2>3, InodeKept
<1>16. InodeIn(disk', O, n) = made
  <2>1. \A x \in DOMAIN O : O[x].inode_n # n
    BY <1>8, <1>9 DEF LiveIn
  <2>2. InodeIn(disk', O, n) = disk'.inodes[n]
    BY <2>1, NoEntryIs
  <2> QED BY <1>11, <2>2
<1>17. F \cap fs.zone_map = {} /\ 0 \notin F
  BY <1>1 DEF FreeZones, MinixAssumption
<1>18. J \in InodeRecord /\ ZonesIn(cells, J) = {} /\ Own(cells, fs.zone_map, J) /\ \A i \in 1..StdZones : J.std[i] = 0
  <2>1. J \in InodeRecord /\ J.std = [i \in 1..StdZones |-> 0] /\ J.indir = 0
    BY <1>1, NewInodeIs
  <2> QED BY <2>1, NoZones
<1>19. Refilled(I, J, F)
  <2>1. \A i \in 1..StdZones : J.std[i] \notin FreeZones
    BY <1>1, <1>17, <1>18
  <2>2. {0} \in SUBSET Nat
    OBVIOUS
  <2>3. Refilled(WithZones(J, {0}), J, FreeZones)
    BY <1>18, <2>1, <2>2, WithZonesRefills
  <2> QED BY <1>1, <2>3
<1>20. Alike(cells', cells, F \cup DataZones(cells, I))
  <2>1. ZonesIn(cells, I) \subseteq ZonesIn(cells, J) \cup F
    BY <1>17, <1>18, <1>19, RefilledOwn
  <2>2. Alike(cells', cells, ZonesIn(cells, I))
    BY <1>4, EmptiedIs
  <2>3. ZonesIn(cells, I) \subseteq F
    BY <1>18, <2>1
  <2> QED BY <2>2, <2>3 DEF Alike
<1>21. made \in InodeRecord /\ SameZones(made, I)
  <2>1. PICK K \in InodeRecord : K = I
    BY <1>19 DEF Refilled
  <2>2. made = [K EXCEPT !.size = 2, !.refs = 3]
    BY <1>2, <2>1
  <2>3. made \in InodeRecord
    <3>1. K = [type |-> K.type, size |-> K.size, refs |-> K.refs, std |-> K.std, indir |-> K.indir]
      BY DEF InodeRecord
    <3>2. made = [type |-> K.type, size |-> 2, refs |-> 3, std |-> K.std, indir |-> K.indir]
      BY <2>2, <3>1
    <3> QED BY <3>2 DEF InodeRecord
  <2>4. made.std = K.std /\ made.indir = K.indir
    BY <2>2 DEF InodeRecord
  <2> QED BY <2>1, <2>3, <2>4 DEF SameZones
<1>22. AllOwn(cells', fs.zone_map \cup ZonesIn(cells, I), InodesIn(disk', O))
  <2>1. PICK f, g : f = InodesIn(disk, O) /\ g = InodesIn(disk', O)
    OBVIOUS
  <2>2. /\ DOMAIN g \subseteq DOMAIN f \cup {n} /\ \A m \in DOMAIN g \ {n} : m \in DOMAIN f /\ g[m] = f[m]
        /\ n \in DOMAIN g => g[n] = made
    BY <1>13, <1>15, <1>16, <2>1, InodesAre
  <2>3. \A m \in DOMAIN g \ {n} : g[m] \in InodeRecord /\ SameZones(g[m], f[m])
    BY <1>6, <2>1, <2>2 DEF AllOwn, SameZones
  <2>4. n \in DOMAIN g => g[n] \in InodeRecord /\ SameZones(g[n], I)
    BY <1>21, <2>2
  <2>5. \A m \in DOMAIN f \ {n} : ZonesIn(cells, J) \cap ZonesIn(cells, f[m]) = {}
    BY <1>18
  <2>6. AllOwn(cells, fs.zone_map, f)
    BY <1>6, <2>1
  <2>7. AllOwn(cells', fs.zone_map \cup ZonesIn(cells, I), g)
    BY <1>17, <1>18, <1>19, <1>20, <2>2, <2>3, <2>4, <2>5, <2>6, GivenOwn
  <2> QED BY <2>1, <2>7
<1> QED BY <1>4, <1>6, <1>11, <1>12, <1>14, <1>22, InvNext

\* What lies before the end of the largest file lies in one of its zones.
LEMMA PlaceInSlots ==
  ASSUME MinixAssumption, NEW p \in Nat, p < MaxSize
  PROVE  p \div Cells \in Slots
<1>1. PICK q, r, c, k : q = p \div Cells /\ r = p % Cells /\ c = Cells /\ k = StdZones + Cells
  OBVIOUS
<1>2. c \in Nat /\ c > 0 /\ k \in Nat /\ MaxSize \in Nat /\ MaxSize <= k * c
  BY <1>1 DEF MinixAssumption
<1>3. q \in Nat /\ r \in 0..(c - 1) /\ p = q * c + r
  BY <1>1, <1>2
<1>4. q < k
  <2> SUFFICES ASSUME q >= k PROVE FALSE
    BY <1>2, <1>3
  <2>1. PICK d \in Nat : q = k + d
    BY <1>2, <1>3
  <2>2. q * c = k * c + d * c /\ d * c \in Nat /\ k * c \in Nat
    BY <1>2, <2>1
  <2>3. p >= k * c
    BY <1>3, <2>2
  <2> QED BY <1>2, <2>2, <2>3
<1>5. q \in 0..(k - 1)
  BY <1>2, <1>3, <1>4
<1>6. Slots = 0..(k - 1)
  <2>1. k - 1 = StdZones + (Cells - 1)
    BY <1>1 DEF MinixAssumption
  <2> QED BY <2>1 DEF Slots
<1> QED BY <1>1, <1>5, <1>6

\* A file gets zones that were free, and only those and its own change.
LEMMA FwriteNext ==
  ASSUME MinixAssumption, ZonesInv, NEW h, NEW n \in 1..Longest, NEW data \in [1..n -> Byte], Fwrite(h, data)
  PROVE  ZonesInv'
<1> DEFINE f      == handles[h]
           pos    == IF "append" \in f.mode THEN f.size ELSE f.pos
           end    == Min({pos + Len(data), MaxSize})
           wanted == Wanted(pos, end)
           J      == EntryOf(h).inode
           I      == WithZones(J, wanted)
           fresh  == ZonesOf(I) \ fs.zone_map
           to     == Reached(I, wanted)
           places == IF to # wanted THEN <<>>
                     ELSE [p \in pos..(end - 1) |-> <<ZoneOf(I, p \div Cells), p % Cells>>]
           last   == IF to = {} THEN pos ELSE end
           at(z, k)   == CHOOSE p \in DOMAIN places : places[p] = <<z, k>>
           byte(z, k) == IF <<z, k>> \in Range(places) THEN data[at(z, k) - pos + 1]
                         ELSE IF z \in fresh THEN 0 ELSE cells[z][k]
           O      == fs.open_inodes
           K      == IF last > f.size THEN [I EXCEPT !.size = last] ELSE I
           P      == [O EXCEPT ![f.e].inode = K]
           num    == EntryOf(h).inode_n
           F      == FreeZones
<1>1. (\A X, i : ZoneOf(X, i) = ZoneIn(cells, X, i)) /\ \A X : ZonesOf(X) = ZonesIn(cells, X)
  BY ZonesAre
<1>2. /\ Usable(h) /\ cells' = [z \in 1..Zones |-> [k \in Offsets |-> byte(z, k)]]
      /\ fs' = [fs EXCEPT !.zone_map = @ \cup fresh, !.open_inodes[f.e].inode = K]
      /\ handles' = [handles EXCEPT ![h].pos = last, ![h].size = Max({@, last}),
                                    ![h].written = @ \/ last # pos]
      /\ disk' = disk
  BY DEF Fwrite
<1>3. /\ IsOpen(h) /\ Running /\ h \in DOMAIN handles /\ HandleOK(f) /\ f.e \in DOMAIN O
      /\ EntryOf(h) = O[f.e] /\ EntryOK(O[f.e]) /\ num # 0
  BY <1>2, HandleIs DEF Usable
<1> HIDE DEF byte, to, places, wanted, fresh, I
<1>4. /\ DiskOK(disk) /\ FsOK(fs) /\ EntriesOK(O) /\ HandlesOK(O, handles) /\ TakenIn(fs.inode_map, LiveIn(disk, O))
      /\ ~fs.inode_map_changed => disk.inode_map = fs.inode_map
      /\ AllOwn(cells, fs.zone_map, InodesIn(disk, O))
  BY <1>3, RunningInv
<1>5. pos \in Nat /\ f.size \in Nat
  BY <1>3 DEF HandleOK
<1>6. end \in Nat /\ end <= MaxSize /\ MaxSize \in Nat
  <2>1. data \in Seq(Byte) /\ MaxSize \in Nat
    <3>1. n \in Nat
      BY DEF MinixAssumption
    <3>2. data \in Seq(Byte)
      BY <3>1
    <3> QED BY <3>2 DEF MinixAssumption
  <2>2. Len(data) \in Nat
    BY <2>1
  <2>3. PICK b \in Nat : b = pos + Len(data)
    BY <1>5, <2>2
  <2> QED BY <2>1, <2>3, LeastOfTwo
<1> HIDE DEF pos, end
<1>7. last \in Nat
  BY <1>5, <1>6
<1>8. wanted \in SUBSET Nat
  <2>1. \A c \in Nat \ {0} : pos \div c \in Nat
    BY <1>5
  <2>2. Cells \in Nat \ {0}
    BY DEF MinixAssumption
  <2> QED BY <2>1, <2>2 DEF wanted, Wanted
<1> HIDE DEF last
<1>9. num \in LiveIn(disk, O) /\ InodeIn(disk, O, num) = J
  BY <1>3, <1>4, EntryIs
<1>10. J \in InodeRecord /\ Own(cells, fs.zone_map, J)
  BY <1>4, <1>9, InodesAre DEF AllOwn
<1>11. F \cap fs.zone_map = {} /\ 0 \notin F
  BY DEF FreeZones, MinixAssumption
<1>12. Refilled(I, J, F)
  <2>1. ASSUME NEW i \in 1..StdZones PROVE J.std[i] \notin FreeZones
    <3>1. i - 1 \in Slots /\ i - 1 < StdZones /\ (i - 1) + 1 = i
      BY DEF Slots, MinixAssumption
    <3>2. ZoneIn(cells, J, i - 1) = J.std[i]
      BY <3>1 DEF ZoneIn
    <3>3. J.std[i] = 0 \/ J.std[i] \in fs.zone_map
      BY <1>10, <3>1, <3>2 DEF Own, ZonesIn
    <3> QED BY <1>11, <3>3
  <2> QED BY <1>8, <1>10, <2>1, WithZonesRefills DEF I
<1>13. /\ ZonesIn(cells, I) \subseteq ZonesIn(cells, J) \cup F /\ ZonesIn(cells, J) \subseteq fs.zone_map
       /\ I \in InodeRecord
  <2>1. ZonesIn(cells, J) \subseteq fs.zone_map
    BY <1>10 DEF Own
  <2>2. I \in InodeRecord
    BY <1>12 DEF Refilled
  <2>3. ZonesIn(cells, I) \subseteq ZonesIn(cells, J) \cup F
    <3>1. PICK C, M, A, B, G : C = cells /\ M = fs.zone_map /\ A = I /\ B = J /\ G = F
      OBVIOUS
    <3>2. Own(C, M, B) /\ G \cap M = {} /\ 0 \notin G /\ Refilled(A, B, G)
      BY <1>10, <1>11, <1>12, <3>1
    <3>3. ZonesIn(C, A) \subseteq ZonesIn(C, B) \cup G
      BY <3>2, RefilledOwn
    <3> QED BY <3>1, <3>3
  <2> QED BY <2>1, <2>2, <2>3
<1>14. fresh \subseteq F /\ fs.zone_map \cup fresh = fs.zone_map \cup ZonesIn(cells, I)
  BY <1>1, <1>13 DEF fresh
<1>15. Alike(cells', cells, F \cup DataZones(cells, I))
  <2> SUFFICES ASSUME NEW z \in (1..Zones) \ (F \cup DataZones(cells, I)), NEW k \in Offsets
               PROVE  cells'[z][k] = cells[z][k]
    BY DEF Alike
  <2>1. cells'[z][k] = byte(z, k)
    BY <1>2
  <2>2. z \notin fresh
    BY <1>14
  <2>3. ASSUME NEW p \in DOMAIN places PROVE places[p] # <<z, k>>
    <3>1. to = wanted /\ p \in pos..(end - 1) /\ places[p] = <<ZoneIn(cells, I, p \div Cells), p % Cells>>
      BY <1>1, <2>3 DEF places
    <3>2. p \in Nat /\ p < MaxSize
      BY <1>5, <1>6, <3>1
    <3>3. p \div Cells \in Slots
      BY <3>2, PlaceInSlots
    <3>4. ZoneIn(cells, I, p \div Cells) \in DataZones(cells, I)
      BY <3>3 DEF DataZones
    <3> QED BY <3>1, <3>4
  <2>4. <<z, k>> \notin Range(places)
    BY <2>3 DEF Range
  <2> QED BY <2>1, <2>2, <2>4 DEF byte
<1>16. K \in InodeRecord /\ SameZones(K, I)
  <2>1. PICK L \in InodeRecord : L = I
    BY <1>13
  <2>2. [L EXCEPT !.size = last] \in InodeRecord /\ SameZones([L EXCEPT !.size = last], L)
    BY <1>7 DEF InodeRecord, SameZones
  <2>3. SameZones(L, L)
    BY DEF SameZones
  <2> QED BY <2>1, <2>2, <2>3
<1> HIDE DEF K
<1>17. /\ DOMAIN P = DOMAIN O /\ P[f.e] = [O[f.e] EXCEPT !.inode = K] /\ \A x \in DOMAIN O \ {f.e} : P[x] = O[x]
  BY <1>3
<1>18. /\ P[f.e].inode = K /\ P[f.e].inode_n = num /\ P[f.e].num_refs = O[f.e].num_refs /\ EntryOK(P[f.e])
  BY <1>3, <1>17 DEF EntryOK
<1>19. /\ FsOK(fs') /\ fs'.open_inodes = P /\ fs'.inode_map = fs.inode_map /\ fs'.zone_map = fs.zone_map \cup fresh
       /\ fs'.inode_map_changed = fs.inode_map_changed
  BY <1>2, <1>4 DEF FsOK
<1> HIDE DEF P
<1>20. EntriesOK(P) /\ HandlesOK(P, handles) /\ \A x \in DOMAIN O : P[x].inode_n = O[x].inode_n
  <2>1. \A x \in DOMAIN O \ {f.e} : EntryOK(P[x]) /\ P[x].num_refs = O[x].num_refs /\ P[x].inode_n = O[x].inode_n
    BY <1>4, <1>17 DEF EntriesOK
  <2>2. P[f.e].inode_n = O[f.e].inode_n
    BY <1>3, <1>18
  <2>3. \A x \in DOMAIN O : /\ EntryOK(P[x]) /\ P[x].num_refs = O[x].num_refs
                            /\ P[x].inode_n = O[x].inode_n \/ P[x].inode_n = 0
    BY <1>18, <2>1, <2>2
  <2>4. EntriesOK(P) /\ HandlesOK(P, handles)
    BY <1>4, <1>17, <2>3, EntriesMove
  <2> QED BY <2>1, <2>2, <2>4
<1>21. HandlesOK(P, handles')
  <2>1. PICK s : s = Max({f.size, last})
    OBVIOUS
  <2>2. s \in Nat
    BY <1>5, <1>7, <2>1, LeastOfTwo
  <2>3. PICK k : k = [f EXCEPT !.pos = last, !.size = s, !.written = f.written \/ last # pos]
    OBVIOUS
  <2>4. f = [e |-> f.e, pos |-> f.pos, size |-> f.size, written |-> f.written, mode |-> f.mode]
    BY <1>3 DEF HandleOK
  <2>5. k = [e |-> f.e, pos |-> last, size |-> s, written |-> f.written \/ last # pos, mode |-> f.mode]
    BY <2>3, <2>4
  <2>6. HandleOK(k) /\ k.e = f.e
    BY <1>7, <2>2, <2>5 DEF HandleOK
  <2>7. handles' = [handles EXCEPT ![h] = k]
    BY <1>2, <1>3, <2>1, <2>3, <2>4
  <2> QED BY <1>3, <1>20, <2>6, <2>7, HandleChanged
<1>22. LiveIn(disk', P) = LiveIn(disk, O)
  BY <1>2, <1>17, <1>20 DEF LiveIn
<1>23. TakenIn(fs'.inode_map, LiveIn(disk', P))
  BY <1>4, <1>19, <1>22
<1>24. ASSUME NEW m \in LiveIn(disk, O) \ {num} PROVE InodeIn(disk', P, m) = InodeIn(disk, O, m)
  <2>1. m # 0 /\ m # num
    BY <1>4 DEF TakenIn
  <2>2. EntriesIn(P, m) = EntriesIn(O, m)
    BY <1>17, <1>20 DEF EntriesIn
  <2>5. f.e \notin EntriesIn(O, m)
    <3>1. O[f.e].inode_n # m
      BY <1>3, <2>1
    <3> QED BY <3>1 DEF EntriesIn
  <2>3. \A x \in EntriesIn(O, m) : P[x].inode = O[x].inode
    BY <1>17, <2>5 DEF EntriesIn
  <2>4. disk'.inodes[m] = disk.inodes[m]
    BY <1>2
  <2> QED BY <1>4, <2>1, <2>2, <2>3, <2>4, InodeKept
<1>25. InodeIn(disk', P, num) = K
  <2>1. PICK e : e = f.e
    OBVIOUS
  <2>2. e \in DOMAIN P /\ P[e].inode_n = num /\ num # 0 /\ P[e].inode = K
    BY <1>3, <1>17, <1>18, <2>1
  <2>3. InodeIn(disk', P, P[e].inode_n) = P[e].inode
    <3> HIDE DEF f, O, num
    <3> QED BY <1>20, <2>2, EntryIs
  <2> QED BY <2>2, <2>3
<1>26. AllOwn(cells', fs.zone_map \cup ZonesIn(cells, I), InodesIn(disk', P))
  <2>1. PICK a, g : a = InodesIn(disk, O) /\ g = InodesIn(disk', P)
    OBVIOUS
  <2>2. DOMAIN a = LiveIn(disk, O) /\ DOMAIN g = LiveIn(disk, O)
    BY <1>22, <2>1, InodesAre
  <2>3. /\ \A m \in DOMAIN g \ {num} : m \in DOMAIN a /\ g[m] = a[m]
        /\ g[num] = K /\ a[num] = J /\ num \in DOMAIN a
    <3>1. \A m \in LiveIn(disk, O) : a[m] = InodeIn(disk, O, m) /\ g[m] = InodeIn(disk', P, m)
      BY <1>22, <2>1, InodesAre
    <3> QED BY <1>9, <1>24, <1>25, <2>2, <3>1
  <2>4. AllOwn(cells, fs.zone_map, a)
    BY <1>4, <2>1
  <2>5. \A m \in DOMAIN g \ {num} : g[m] \in InodeRecord /\ SameZones(g[m], a[m])
    BY <2>3, <2>4 DEF AllOwn, SameZones
  <2>6. \A m \in DOMAIN a \ {num} : ZonesIn(cells, J) \cap ZonesIn(cells, a[m]) = {}
    BY <2>3, <2>4 DEF AllOwn
  <2>7. g[num] \in InodeRecord /\ SameZones(g[num], I)
    BY <1>16, <2>3
  <2>8. DOMAIN g \subseteq DOMAIN a \cup {num}
    BY <2>2
  <2> HIDE DEF J, num, F, f, O
  <2>9. AllOwn(cells', fs.zone_map \cup ZonesIn(cells, I), g)
    BY <1>10, <1>11, <1>12, <1>15, <2>4, <2>5, <2>6, <2>7, <2>8, GivenOwn
  <2> QED BY <2>1, <2>9
<1> QED BY <1>2, <1>4, <1>14, <1>19, <1>20, <1>21, <1>23, <1>26, InvNext

-----------------------------------------------------------------------------
(* The disk that is there at first.                                        *)

LEMMA NothingIsOpen ==
  ASSUME NEW H, DOMAIN H = {}
  PROVE  EntriesOK(<<>>) /\ HandlesOK(<<>>, H)
<1>1. DOMAIN <<>> = {}
  OBVIOUS
<1>2. IsFiniteSet({})
  BY FS_EmptySet
<1> QED BY <1>1, <1>2 DEF EntriesOK, HandlesOK

\* Its file has the zones behind the first, and its list the one behind those.
LEMMA ImageIs ==
  ASSUME MinixAssumption, NEW size \in Sizes, NEW I, I = ImageInode(size), NEW C, C = ImageCells(size),
         NEW map, map = Image(size).zone_map
  PROVE  I \in InodeRecord /\ Own(C, map, I)
<1>1. PICK used, list : /\ used = (size + Cells - 1) \div Cells
                        /\ list = IF used > StdZones THEN used + 2 ELSE 0
  OBVIOUS
<1>2. size \in Nat /\ Cells \in Nat \ {0} /\ StdZones \in Nat /\ Zones \in Nat /\ used + 2 <= Zones
  BY <1>1 DEF MinixAssumption
<1>3. used \in Nat
  <2>1. PICK a \in Nat : a = size + Cells - 1
    BY <1>2
  <2>2. \A c \in Nat \ {0} : a \div c \in Nat
    OBVIOUS
  <2> QED BY <1>1, <1>2, <2>1, <2>2
<1>4. PICK std : std = [i \in 1..StdZones |-> IF i - 1 < used THEN (i - 1) + 2 ELSE 0]
  OBVIOUS
<1>5. I = [NewInode("file") EXCEPT !.size = size, !.std = std, !.indir = list]
  BY <1>1, <1>4 DEF ImageInode
<1>6. I.std = std /\ I.indir = list /\ I = [type |-> "file", size |-> size, refs |-> 1, std |-> std, indir |-> list]
  BY <1>5 DEF NewInode
<1>7. I \in InodeRecord
  <2>1. std \in [1..StdZones -> 0..Zones]
    <3>1. \A i \in 1..StdZones : std[i] \in 0..Zones
      BY <1>2, <1>3, <1>4
    <3> QED BY <1>4, <3>1
  <2>2. list \in 0..Zones
    BY <1>1, <1>2, <1>3
  <2> QED BY <1>2, <1>6, <2>1, <2>2 DEF InodeRecord
<1>8. ASSUME list # 0, NEW k \in Offsets
      PROVE  C[list][k] = IF StdZones + k + 2 < list THEN StdZones + k + 2 ELSE 0
  <2>1. list \in 1..Zones
    BY <1>1, <1>2, <1>3, <1>8
  <2>2. ImageInode(size).indir = list
    BY <1>6
  <2> QED BY <1>8, <2>1, <2>2 DEF ImageCells
<1>9. ASSUME NEW i \in Slots PROVE i \in Nat /\ ZoneIn(C, I, i) = IF i < used THEN i + 2 ELSE 0
  <2>1. i \in Nat /\ i <= StdZones + (Cells - 1)
    BY <1>2 DEF Slots
  <2>2. CASE i < StdZones
    <3>1. i + 1 \in 1..StdZones /\ (i + 1) - 1 = i
      BY <1>2, <2>1, <2>2
    <3>2. ZoneIn(C, I, i) = std[i + 1]
      BY <1>6, <2>2 DEF ZoneIn
    <3> QED BY <1>4, <2>1, <3>1, <3>2
  <2>3. CASE ~(i < StdZones) /\ list = 0
    <3>1. ZoneIn(C, I, i) = 0
      BY <1>6, <2>3 DEF ZoneIn
    <3>2. ~(i < used)
      BY <1>1, <1>2, <1>3, <2>1, <2>3
    <3> QED BY <2>1, <3>1, <3>2
  <2>4. CASE ~(i < StdZones) /\ list # 0
    <3>1. PICK k \in Offsets : k = i - StdZones
      BY <1>2, <2>1, <2>4 DEF Offsets
    <3>2. ZoneIn(C, I, i) = C[list][k]
      BY <1>6, <2>4, <3>1 DEF ZoneIn
    <3>3. ZoneIn(C, I, i) = IF StdZones + k + 2 < list THEN StdZones + k + 2 ELSE 0
      BY <1>8, <2>4, <3>2
    <3>4. StdZones + k + 2 = i + 2 /\ list = used + 2
      BY <1>1, <1>2, <1>3, <2>1, <2>4, <3>1
    <3> QED BY <1>3, <2>1, <3>3, <3>4
  <2> QED BY <2>2, <2>3, <2>4
<1>10. map = 1..Max({1 + used, list})
  BY <1>1, <1>6 DEF Image
<1>11. list \in Nat /\ Max({1 + used, list}) \in Nat /\ Max({1 + used, list}) >= 1 + used /\ Max({1 + used, list}) >= list
  <2>1. list \in Nat /\ 1 + used \in Nat
    BY <1>1, <1>3
  <2> QED BY <2>1, LeastOfTwo
<1>12. ASSUME NEW z \in ZonesIn(C, I) PROVE z \in map
  <2>1. z # 0 /\ (z = list \/ \E i \in Slots : z = ZoneIn(C, I, i))
    BY <1>6 DEF ZonesIn
  <2>2. CASE z = list
    BY <1>10, <1>11, <2>1, <2>2
  <2>3. CASE z # list
    <3>1. PICK i \in Slots : z = ZoneIn(C, I, i)
      BY <2>1, <2>3
    <3>2. i \in Nat /\ i < used /\ z = i + 2
      BY <1>9, <2>1, <3>1
    <3>3. z \in Nat /\ z >= 1 /\ z <= 1 + used
      BY <1>3, <3>2
    <3> QED BY <1>3, <1>10, <1>11, <3>3
  <2> QED BY <2>2, <2>3
<1>13. ASSUME NEW i \in Slots, NEW j \in Slots, i # j, ZoneIn(C, I, i) # 0 PROVE ZoneIn(C, I, i) # ZoneIn(C, I, j)
  <2>1. i \in Nat /\ i < used /\ ZoneIn(C, I, i) = i + 2
    BY <1>9, <1>13
  <2>2. j \in Nat /\ ZoneIn(C, I, j) = IF j < used THEN j + 2 ELSE 0
    BY <1>9
  <2> QED BY <1>13, <2>1, <2>2
<1>14. ASSUME I.indir # 0, NEW i \in Slots PROVE ZoneIn(C, I, i) # I.indir
  <2>1. I.indir = used + 2
    BY <1>1, <1>6, <1>14
  <2>2. i \in Nat /\ ZoneIn(C, I, i) = IF i < used THEN i + 2 ELSE 0
    BY <1>9
  <2> QED BY <1>3, <2>1, <2>2
<1> QED BY <1>7, <1>12, <1>13, <1>14 DEF Own

LEMMA InitInv ==
  ASSUME MinixAssumption, Init
  PROVE  ZonesInv
<1>1. PICK size \in Sizes : /\ cells = ImageCells(size) /\ disk = Image(size)
                            /\ fs = Mounted(disk) /\ handles = <<>>
  BY DEF Init
<1>2. PICK I, r : /\ I = ImageInode(size)
                  /\ r = [NewInode("dir") EXCEPT !.size = 3, !.refs = 2, !.std[1] = 1]
  OBVIOUS
<1>3. disk = [inodes |-> [n \in 1..Inodes |-> IF n = 1 THEN r ELSE I], inode_map |-> {1, 2},
              root |-> [name \in {"a"} |-> 2], zone_map |-> Image(size).zone_map]
  BY <1>1, <1>2 DEF Image
<1>4. /\ DiskOK(disk) /\ disk.inode_map = {1, 2} /\ disk.root = [name \in {"a"} |-> 2]
      /\ disk.inodes = [n \in 1..Inodes |-> IF n = 1 THEN r ELSE I] /\ disk.zone_map = Image(size).zone_map
  BY <1>3 DEF DiskOK
<1>5. 2 \in 1..Inodes /\ 1 \in 1..Inodes
  BY DEF MinixAssumption
<1>6. /\ FsOK(fs) /\ fs.open_inodes = <<>> /\ fs.inode_map = {1, 2} /\ fs.zone_map = Image(size).zone_map
      /\ disk.inode_map = fs.inode_map
  BY <1>1, <1>4 DEF Mounted, FsOK
<1>7. Running
  <2>1. Unmounted.inode_map = {}
    BY DEF Unmounted
  <2> QED BY <1>6, <2>1 DEF Running
<1>8. EntriesOK(<<>>) /\ HandlesOK(<<>>, handles)
  BY <1>1, NothingIsOpen
<1>9. LiveIn(disk, <<>>) = {2}
  <2>1. Range(disk.root) = {2}
    BY <1>4 DEF Range
  <2> QED BY <2>1 DEF LiveIn
<1>10. InodeIn(disk, <<>>, 2) = I
  <2>1. InodeIn(disk, <<>>, 2) = disk.inodes[2]
    <3>1. EntriesIn(<<>>, 2) = {}
      BY DEF EntriesIn
    <3> QED BY <3>1 DEF InodeIn
  <2> QED BY <1>4, <1>5, <2>1
<1>11. I \in InodeRecord /\ Own(cells, fs.zone_map, I)
  BY <1>1, <1>2, <1>6, ImageIs
<1>12. AllOwn(cells, fs.zone_map, InodesIn(disk, <<>>))
  <2>1. DOMAIN InodesIn(disk, <<>>) = {2} /\ InodesIn(disk, <<>>)[2] = I
    BY <1>9, <1>10, InodesAre
  <2> QED BY <1>11, <2>1 DEF AllOwn
<1>13. TakenIn(fs.inode_map, LiveIn(disk, <<>>))
  BY <1>5, <1>6, <1>9 DEF TakenIn
<1>14. InodeMap = fs.inode_map /\ ZoneMap = fs.zone_map
  BY <1>7 DEF InodeMap, ZoneMap
<1> QED BY <1>4, <1>6, <1>8, <1>12, <1>13, <1>14 DEF ZonesInv

-----------------------------------------------------------------------------

\* A mishap that has happened stays noted.
LEMMA MishapsStay ==
  ASSUME Next
  PROVE  mishaps \subseteq mishaps'
<1>1. \A c : Note(c) => mishaps \subseteq mishaps'
  BY DEF Note
<1>2. CASE Umount \/ Mount
  BY <1>1, <1>2 DEF Umount, Mount
<1>3. CASE \E name \in Name : Unlink(name) \/ Dmake(name) \/ \E old \in Name : Link(old, name)
  BY <1>1, <1>3 DEF Unlink, Dmake, Link
<1>4. ASSUME NEW h \in Handle, Fflush(h) \/ Fclose(h) \/ \E name \in Name, mode \in Mode : Fopen(h, name, mode)
      PROVE  mishaps \subseteq mishaps'
  <2>1. CASE Fflush(h)
    BY <2>1 DEF Fflush
  <2>2. CASE Fclose(h)
    BY <1>1, <2>2 DEF Fclose
  <2>3. ASSUME NEW name \in Name, NEW mode \in Mode, Fopen(h, name, mode) PROVE mishaps \subseteq mishaps'
    BY <2>3 DEF Fopen
  <2> QED BY <1>4, <2>1, <2>2, <2>3
<1>5. ASSUME NEW h \in Handle, NEW count \in 1..Longest, Fread(h, count) PROVE mishaps \subseteq mishaps'
  BY <1>1, <1>5, ZenonT(60) DEF Fread
<1>6. ASSUME NEW h \in Handle, NEW n \in 1..Longest, NEW data \in [1..n -> Byte], Fwrite(h, data)
      PROVE  mishaps \subseteq mishaps'
  BY <1>1, <1>6, ZenonT(60) DEF Fwrite
<1>7. ASSUME NEW h \in Handle, NEW pos \in Seeks, Fsetpos(h, pos) PROVE mishaps \subseteq mishaps'
  BY <1>7 DEF Fsetpos
<1> QED BY <1>2, <1>3, <1>4, <1>5, <1>6, <1>7 DEF Next

LEMMA NextInv ==
  ASSUME MinixAssumption, ZonesInv, Next, mishaps' = {}
  PROVE  ZonesInv'
<1>1. CASE Umount
  BY <1>1, UmountNext
<1>2. CASE Mount
  BY <1>2, MountNext
<1>3. ASSUME NEW name \in Name, Unlink(name) PROVE ZonesInv'
  BY <1>3, UnlinkNext
<1>4. ASSUME NEW name \in Name, Dmake(name) PROVE ZonesInv'
  BY <1>4, DmakeNext
<1>5. ASSUME NEW name \in Name, NEW old \in Name, Link(old, name) PROVE ZonesInv'
  BY <1>5, LinkNext
<1>6. ASSUME NEW h \in Handle, Fflush(h) PROVE ZonesInv'
  BY <1>6, FflushNext
<1>7. ASSUME NEW h \in Handle, Fclose(h) PROVE ZonesInv'
  BY <1>7, FcloseNext
<1>8. ASSUME NEW h \in Handle, NEW name \in Name, NEW mode \in Mode, Fopen(h, name, mode) PROVE ZonesInv'
  BY <1>8, FopenNext
<1>9. ASSUME NEW h \in Handle, NEW count \in 1..Longest, Fread(h, count) PROVE ZonesInv'
  BY <1>9, FreadNext
<1>10. ASSUME NEW h \in Handle, NEW n \in 1..Longest, NEW data \in [1..n -> Byte], Fwrite(h, data) PROVE ZonesInv'
  BY <1>10, FwriteNext
<1>11. ASSUME NEW h \in Handle, NEW pos \in Seeks, Fsetpos(h, pos) PROVE ZonesInv'
  BY <1>11, FsetposNext
<1> QED BY <1>1, <1>2, <1>3, <1>4, <1>5, <1>6, <1>7, <1>8, <1>9, <1>10, <1>11 DEF Next

\* The files are among the inodes that count.
LEMMA InvAgrees ==
  ASSUME ZonesInv
  PROVE  ZonesAgree
<1>1. PICK O, f, files, map : O = fs.open_inodes /\ f = InodesIn(disk, O) /\ files = Range(disk.root) /\ map = ZoneMap
  OBVIOUS
<1>2. AllOwn(cells, map, f)
  BY <1>1 DEF ZonesInv
<1>3. ASSUME NEW n \in files PROVE n \in DOMAIN f /\ f[n] = Inode(n) /\ ZonesOf(Inode(n)) = ZonesIn(cells, f[n])
  <2>1. n \in LiveIn(disk, O)
    BY <1>1 DEF LiveIn
  <2>2. n \in DOMAIN f /\ f[n] = InodeIn(disk, O, n)
    BY <1>1, <2>1, InodesAre
  <2> QED BY <1>1, <2>2, ZonesAre
<1>4. \A n \in files : ZonesOf(Inode(n)) \subseteq map
  BY <1>2, <1>3 DEF AllOwn, Own
<1>5. \A n, m \in files : n # m => ZonesOf(Inode(n)) \cap ZonesOf(Inode(m)) = {}
  BY <1>2, <1>3 DEF AllOwn
<1>6. ASSUME NEW n \in files, NEW i \in Slots, NEW j \in Slots, i # j, ZoneOf(Inode(n), i) # 0
      PROVE  ZoneOf(Inode(n), i) # ZoneOf(Inode(n), j)
  <2>1. ZoneIn(cells, f[n], i) # 0 /\ Own(cells, map, f[n])
    BY <1>2, <1>3, <1>6, ZonesAre DEF AllOwn
  <2>2. ZoneIn(cells, f[n], i) # ZoneIn(cells, f[n], j)
    BY <1>6, <2>1 DEF Own
  <2> QED BY <1>3, <2>2, ZonesAre
<1>7. map = IF Running THEN fs.zone_map ELSE disk.zone_map
  BY <1>1 DEF ZoneMap
<1> QED BY <1>1, <1>4, <1>5, <1>6, <1>7 DEF ZonesAgree, Slots

QuietInv == MinixAssumption /\ (mishaps = {} => ZonesInv)

\* What only one file may write to belongs to it alone: whatever is created, written, emptied,
\* linked and deleted through whatever handles, and however often the device is mounted again,
\* the zones of a file are taken in the map, are those of no other file, and stand in it once.
\* This is of every disk that mkfs makes with one file, and of any number of zones and inodes.
THEOREM ZonesStayOwn == MinixAssumption /\ Spec => [](mishaps = {} => ZonesAgree)
<1>1. MinixAssumption /\ Init => QuietInv
  BY InitInv DEF QuietInv
<1>2. QuietInv /\ [QuietNext]_vars => QuietInv'
  <2> SUFFICES ASSUME QuietInv, [QuietNext]_vars
               PROVE  QuietInv'
    OBVIOUS
  <2>1. ASSUME QuietNext, mishaps' = {} PROVE ZonesInv'
    <3>1. Next
      BY <2>1 DEF QuietNext
    <3>2. mishaps = {}
      BY <2>1, <3>1, MishapsStay
    <3> QED BY <2>1, <3>1, <3>2, NextInv DEF QuietInv
  <2>2. ASSUME UNCHANGED vars, mishaps' = {} PROVE ZonesInv'
    <3>1. mishaps = {}
      BY <2>2 DEF vars
    <3> QED BY <2>2, <3>1, SameNext DEF QuietInv
  <2>3. MinixAssumption'
    BY DEF QuietInv, MinixAssumption
  <2> QED BY <2>1, <2>2, <2>3 DEF QuietInv
<1>3. QuietInv => (mishaps = {} => ZonesAgree)
  BY InvAgrees DEF QuietInv
<1> QED BY <1>1, <1>2, <1>3, PTL DEF Spec
=============================================================================
