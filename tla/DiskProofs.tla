------------------------------ MODULE DiskProofs ------------------------------
(***************************************************************************)
(* Theorems about the parts of MCFiles that agree with what is outside the *)
(* process: the disk tier, whose index agrees with its files and whose     *)
(* bound is kept, the settings and the list of blocked domains, which      *)
(* follow their files, and the size learned, which the host grants; for    *)
(* every number of keys, writers and threads and every value of the other  *)
(* constants.                                                              *)
(***************************************************************************)
EXTENDS MCFiles, WellFoundedInduction, FiniteSetTheorems, SequenceTheorems, TLAPS

LEMMA LeastNat == ASSUME NEW T \in SUBSET Nat, T # {} PROVE \E x \in T : \A y \in T : x <= y
<1>1. IsWellFoundedOn(OpToRel(<, Nat), Nat)
  BY Zenon, NatLessThanWellFounded
<1>2. PICK x \in T : \A y \in T : ~ (<<y, x>> \in OpToRel(<, Nat))
  BY Zenon, <1>1, WFMin
<1>3. \A y \in T : ~ (y < x)
  BY <1>2 DEF OpToRel
<1> QED
  BY <1>3

\* The sizes of the instance are those of the theorems on finite sets.
LEMMA DiskSizes == /\ \A S : Disk!IsFiniteSet(S) <=> IsFiniteSet(S)
                   /\ \A S : Disk!Cardinality(S) = Cardinality(S)
<1>1. \A S : Disk!IsFiniteSet(S) <=> IsFiniteSet(S)
  BY Zenon DEF Disk!IsFiniteSet, IsFiniteSet
<1>2. \A S : Disk!Cardinality(S) = Cardinality(S)
  BY Zenon DEF Disk!Cardinality, Cardinality
<1> QED
  BY <1>1, <1>2

LEMMA OneSize ==
    /\ \A x : Disk!IsFiniteSet({x}) /\ Disk!Cardinality({x}) = 1
    /\ \A S : Disk!IsFiniteSet(S) => (Disk!Cardinality(S) = 1 <=> \E x: S = {x})
BY DiskSizes, FS_Singleton

LEMMA IntervalSize ==
    ASSUME NEW a \in Int, NEW b \in Int
    PROVE  /\ Disk!IsFiniteSet(a..b)
           /\ Disk!Cardinality(a..b) = IF a > b THEN 0 ELSE b-a+1
BY DiskSizes, FS_Interval

LEMMA ProductSize ==
    ASSUME NEW S, Disk!IsFiniteSet(S),
           NEW T, Disk!IsFiniteSet(T)
    PROVE  /\ Disk!IsFiniteSet(S \X T)
           /\ Disk!Cardinality(S \X T) = Disk!Cardinality(S) * Disk!Cardinality(T)
BY DiskSizes, FS_Product

LEMMA OntoSize ==
    ASSUME NEW S, NEW T, NEW f \in Surjection(S,T), Disk!IsFiniteSet(S)
    PROVE  /\ Disk!IsFiniteSet(T)
           /\ Disk!Cardinality(T) <= Disk!Cardinality(S)
           /\ Disk!Cardinality(T) = Disk!Cardinality(S) <=> f \in Injection(S,T)
BY DiskSizes, FS_Surjection

LEMMA UnionsFinite ==
    ASSUME NEW S, Disk!IsFiniteSet(S), \A T \in S : Disk!IsFiniteSet(T)
    PROVE  Disk!IsFiniteSet(UNION S)
BY DiskSizes, FS_UNION

LEMMA SizeIsNat ==
    ASSUME NEW S, Disk!IsFiniteSet(S)
    PROVE  /\ Disk!Cardinality(S) \in Nat
           /\ ExistsBijection(1..Disk!Cardinality(S), S)
BY DiskSizes, FS_CardinalityType

LEMMA UnionSize ==
    ASSUME NEW S, Disk!IsFiniteSet(S),
           NEW T, Disk!IsFiniteSet(T)
    PROVE  /\ Disk!IsFiniteSet(S \cup T)
           /\ Disk!Cardinality(S \cup T) =
                 Disk!Cardinality(S) + Disk!Cardinality(T) - Disk!Cardinality(S \cap T)
BY DiskSizes, FS_Union

LEMMA EmptySize ==
    /\ Disk!IsFiniteSet({})
    /\ Disk!Cardinality({}) = 0
    /\ \A S : Disk!IsFiniteSet(S) => (Disk!Cardinality(S) = 0 <=> S = {})
BY DiskSizes, FS_EmptySet

LEMMA PartSize ==
    ASSUME NEW S, Disk!IsFiniteSet(S), NEW T \in SUBSET S
    PROVE  /\ Disk!IsFiniteSet(T)
           /\ Disk!Cardinality(T) <= Disk!Cardinality(S)
           /\ Disk!Cardinality(S) = Disk!Cardinality(T) => S = T
BY DiskSizes, FS_Subset

LEMMA OneMoreSize ==
    ASSUME NEW S, NEW x, Disk!IsFiniteSet(S)
    PROVE  /\ Disk!IsFiniteSet(S \cup {x})
           /\ Disk!Cardinality(S \cup {x}) =
              IF x \in S THEN Disk!Cardinality(S) ELSE Disk!Cardinality(S)+1
BY DiskSizes, FS_AddElement

LEMMA IntoSize ==
    ASSUME NEW S, NEW T, NEW f \in Injection(S,T), Disk!IsFiniteSet(T)
    PROVE  /\ Disk!IsFiniteSet(S)
           /\ Disk!Cardinality(S) <= Disk!Cardinality(T)
           /\ Disk!Cardinality(S) = Disk!Cardinality(T) <=> f \in Surjection(S,T)
BY DiskSizes, FS_Injection

\* Numbers of a finite set have a sum.
LEMMA PlacesFinite ==
    ASSUME NEW S, Disk!IsFiniteSet(S), NEW f, \A x \in S : f[x] \in Nat
    PROVE  Disk!IsFiniteSet(Disk!Places(f, S))
<1> DEFINE T == {{x} \X (1 .. f[x]) : x \in S}
           g == [x \in S |-> {x} \X (1 .. f[x])]
<1>1. g \in Surjection(S, T)
  BY DEF Surjection
<1>2. Disk!IsFiniteSet(T)
  <2> HIDE DEF g, T
  <2> QED
    BY <1>1, OntoSize
<1>3. \A U \in T : Disk!IsFiniteSet(U)
  <2> SUFFICES ASSUME NEW x \in S PROVE Disk!IsFiniteSet({x} \X (1 .. f[x]))
    OBVIOUS
  <2>1. Disk!IsFiniteSet({x})
    BY OneSize
  <2>2. Disk!IsFiniteSet(1 .. f[x])
    BY IntervalSize
  <2> QED
    BY <2>1, <2>2, ProductSize
<1>4. Disk!Places(f, S) = UNION T
  BY DEF Disk!Places
<1> HIDE DEF T
<1> QED
  BY <1>2, <1>3, <1>4, UnionsFinite

LEMMA TotalNat ==
    ASSUME NEW S, Disk!IsFiniteSet(S), NEW f, \A x \in S : f[x] \in Nat
    PROVE  Disk!Total(f, S) \in Nat
<1>1. Disk!IsFiniteSet(Disk!Places(f, S))
  BY PlacesFinite
<1> QED
  BY <1>1, SizeIsNat DEF Disk!Total

LEMMA TotalSame ==
    ASSUME NEW S, NEW f, NEW g, \A x \in S : f[x] = g[x]
    PROVE  Disk!Total(f, S) = Disk!Total(g, S)
<1> DEFINE T == {{x} \X (1 .. f[x]) : x \in S}  U == {{x} \X (1 .. g[x]) : x \in S}
<1>1. T = U
  OBVIOUS
<1>2. UNION T = UNION U
  BY <1>1
<1> QED
  BY <1>2 DEF Disk!Total, Disk!Places

LEMMA TotalMono ==
    ASSUME NEW S, Disk!IsFiniteSet(S), NEW f, NEW g,
           \A x \in S : f[x] \in Nat /\ g[x] \in Nat /\ f[x] <= g[x]
    PROVE  Disk!Total(f, S) <= Disk!Total(g, S)
<1>1. Disk!IsFiniteSet(Disk!Places(g, S))
  BY PlacesFinite
<1>2. Disk!Places(f, S) \subseteq Disk!Places(g, S)
  <2>1. \A x \in S : {x} \X (1 .. f[x]) \subseteq {x} \X (1 .. g[x])
    OBVIOUS
  <2> QED
    BY <2>1 DEF Disk!Places
<1> QED
  BY <1>1, <1>2, PartSize DEF Disk!Total

\* One number apart.
LEMMA TotalSplit ==
    ASSUME NEW S, Disk!IsFiniteSet(S), NEW f, \A x \in S : f[x] \in Nat, NEW x \in S
    PROVE  Disk!Total(f, S) = Disk!Total(f, S \ {x}) + f[x]
<1> DEFINE A == Disk!Places(f, S)  B == Disk!Places(f, S \ {x})  T == 1 .. f[x]  C == {x} \X T
<1>1. A = B \cup C /\ B \cap C = {}
  BY DEF Disk!Places
<1>2. Disk!IsFiniteSet(T) /\ Disk!Cardinality(T) = f[x]
  <2>1. 1 \in Int /\ f[x] \in Int
    OBVIOUS
  <2>2. Disk!IsFiniteSet(1 .. f[x]) /\ Disk!Cardinality(1 .. f[x]) = IF 1 > f[x] THEN 0
          ELSE f[x] - 1 + 1
    BY <2>1, IntervalSize
  <2> HIDE DEF T
  <2>3. (IF 1 > f[x] THEN 0 ELSE f[x] - 1 + 1) = f[x]
    OBVIOUS
  <2> QED
    BY <2>2, <2>3 DEF T
<1>3. Disk!IsFiniteSet({x}) /\ Disk!Cardinality({x}) = 1
  BY OneSize
<1> HIDE DEF T
<1>4. Disk!IsFiniteSet(C) /\ Disk!Cardinality(C) = Disk!Cardinality({x}) * Disk!Cardinality(T)
  BY <1>2, <1>3, ProductSize
<1>5. Disk!Cardinality(C) = f[x]
  BY <1>2, <1>3, <1>4
<1>6. Disk!IsFiniteSet(A) /\ Disk!IsFiniteSet(B)
  <2>1. Disk!IsFiniteSet(S \ {x})
    BY PartSize
  <2>2. \A y \in S \ {x} : f[y] \in Nat
    OBVIOUS
  <2> QED
    BY <2>1, <2>2, PlacesFinite
<1> HIDE DEF A, B, C
<1>7. Disk!Cardinality(A) = Disk!Cardinality(B) + Disk!Cardinality(C) - Disk!Cardinality(B \cap C)
  BY <1>1, <1>4, <1>6, UnionSize
<1>8. Disk!Cardinality(B \cap C) = 0
  BY <1>1, EmptySize
<1>9. Disk!Cardinality(A) \in Nat /\ Disk!Cardinality(B) \in Nat /\ Disk!Cardinality(C) \in Nat
  BY <1>4, <1>6, SizeIsNat
<1>10. Disk!Cardinality(A) = Disk!Cardinality(B) + f[x]
  BY <1>5, <1>7, <1>8, <1>9
<1> QED
  BY <1>10 DEF Disk!Total, A, B

\* Only one number changes.
LEMMA TotalChange ==
    ASSUME NEW S, Disk!IsFiniteSet(S), NEW f, NEW g, NEW x \in S,
           \A y \in S : f[y] \in Nat /\ g[y] \in Nat,
           \A y \in S \ {x} : f[y] = g[y]
    PROVE  Disk!Total(g, S) = Disk!Total(f, S) + g[x] - f[x]
<1>1. Disk!Total(f, S) = Disk!Total(f, S \ {x}) + f[x]
  BY TotalSplit
<1>2. Disk!Total(g, S) = Disk!Total(g, S \ {x}) + g[x]
  BY TotalSplit
<1>3. Disk!Total(f, S \ {x}) = Disk!Total(g, S \ {x})
  BY TotalSame
<1>4. Disk!Total(f, S \ {x}) \in Nat
  <2>1. Disk!IsFiniteSet(S \ {x})
    BY PartSize
  <2>2. \A y \in S \ {x} : f[y] \in Nat
    OBVIOUS
  <2> QED
    BY <2>1, <2>2, TotalNat
<1>5. f[x] \in Nat /\ g[x] \in Nat
  OBVIOUS
<1> QED
  BY <1>1, <1>2, <1>3, <1>4, <1>5

\* The same number for each.
LEMMA TotalEven ==
    ASSUME NEW S, Disk!IsFiniteSet(S), NEW n \in Nat, NEW f, \A x \in S : f[x] = n
    PROVE  Disk!Total(f, S) = Disk!Cardinality(S) * n
<1> DEFINE T == 1 .. n  C == S \X T
<1>1. Disk!Places(f, S) = C
  BY DEF Disk!Places
<1>2. Disk!IsFiniteSet(T) /\ Disk!Cardinality(T) = n
  <2>1. 1 \in Int /\ n \in Int
    OBVIOUS
  <2>2. Disk!IsFiniteSet(1 .. n) /\ Disk!Cardinality(1 .. n) = IF 1 > n THEN 0 ELSE n - 1 + 1
    BY <2>1, IntervalSize
  <2> HIDE DEF T
  <2>3. (IF 1 > n THEN 0 ELSE n - 1 + 1) = n
    OBVIOUS
  <2> QED
    BY <2>2, <2>3 DEF T
<1> HIDE DEF T
<1>3. Disk!Cardinality(C) = Disk!Cardinality(S) * Disk!Cardinality(T)
  BY <1>2, ProductSize
<1> HIDE DEF C
<1> QED
  BY <1>1, <1>2, <1>3 DEF Disk!Total

\* A part of the sum.
LEMMA TotalPart ==
    ASSUME NEW S, Disk!IsFiniteSet(S), NEW f, \A x \in S : f[x] \in Nat, NEW x \in S
    PROVE  f[x] <= Disk!Total(f, S)
<1>1. Disk!Total(f, S) = Disk!Total(f, S \ {x}) + f[x]
  BY TotalSplit
<1>2. Disk!Total(f, S \ {x}) \in Nat
  <2>1. Disk!IsFiniteSet(S \ {x})
    BY PartSize
  <2>2. \A y \in S \ {x} : f[y] \in Nat
    OBVIOUS
  <2> QED
    BY <2>1, <2>2, TotalNat
<1> QED
  BY <1>1, <1>2

\* The numbers of the tier, of any table and any writers.
Load(table) == Disk!Total(Disk!SizeOf(table), Keys)
Rooms(wr) == Disk!Total([w \in Writers |-> wr[w].room], Writers)
Held(wr, S) ==
    Disk!Total([w \in Writers |-> IF w \in S THEN Disk!Body ELSE Disk!Pledge(wr[w])], Writers)
Looks(wr) == {w \in Writers : wr[w].pc \in {"check", "slack"}}
Bound == Disk!Max(Capacities) + (Disk!Cardinality(Writers) - 1) * Disk!Body
Fits(b, wr, S) ==
    \/ b + Held(wr, S) <= Bound
    \/ \E w \in S : b + Held(wr, S) <= wr[w].seen + Disk!Cardinality(Writers) * Disk!Body
RoomFor(b, wr) == \A S \in SUBSET Looks(wr) : Fits(b, wr, S)
Tables == [Keys -> Disk!Entry \cup {None}]
Disks == [Keys \X BOOLEAN -> Disk!File \cup {None}]
Asking(wr) == wr \in [Writers -> Disk!WriterStates] /\ \A w \in Writers : Disk!AsksWithin(wr[w])
Serving(us) == us \in [Users -> Disk!UserStates] /\ \A u \in Users : Disk!KnowsEntry(us[u])
Assumed == Disk!SizeAssumption /\ Disk!TimeAssumption /\ Disk!TierAssumption

LEMMA Constants ==
    ASSUME Assumed
    PROVE  /\ Disk!Body \in Nat /\ Disk!Cardinality(Writers) \in Nat \ {0}
           /\ Disk!IsFiniteSet(Writers) /\ Disk!IsFiniteSet(Keys)
           /\ Disk!Max(Capacities) \in Nat /\ \A c \in Capacities : c \in Nat /\ c
                <= Disk!Max(Capacities)
           /\ Bound \in Int /\ Bound
                = Disk!Max(Capacities) + Disk!Cardinality(Writers) * Disk!Body - Disk!Body
<1> USE DEF Assumed
<1>1. Disk!Body \in Nat
  BY DEF Disk!SizeAssumption, Disk!Body
<1>2. Disk!IsFiniteSet(Writers) /\ Disk!IsFiniteSet(Keys) /\ Writers # {}
  BY DEF Disk!TierAssumption
<1>3. Disk!Cardinality(Writers) \in Nat \ {0}
  <2>1. Disk!Cardinality(Writers) \in Nat
    BY <1>2, SizeIsNat
  <2>2. Disk!Cardinality(Writers) # 0
    BY <1>2, EmptySize
  <2> QED
    BY <2>1, <2>2
<1>4. Disk!Max(Capacities) \in Nat /\ \A c \in Capacities : c \in Nat /\ c <= Disk!Max(Capacities)
  <2>1. PICK m \in Capacities : \A c \in Capacities : c <= m
    BY DEF Disk!TierAssumption
  <2>2. \A c \in Capacities : m >= c /\ c \in Nat
    BY <2>1 DEF Disk!SizeAssumption
  <2>3. Disk!Max(Capacities) \in Capacities /\ \A c \in Capacities : Disk!Max(Capacities) >= c
    BY <2>2 DEF Disk!Max
  <2> QED
    BY <2>2, <2>3
<1> DEFINE n == Disk!Cardinality(Writers)  m == Disk!Max(Capacities)  y == Disk!Body
<1> HIDE DEF n, m, y
<1>5. n \in Nat /\ m \in Nat /\ y \in Nat
  BY <1>1, <1>3, <1>4 DEF n, m, y
<1>6. m + (n - 1) * y \in Int /\ m + (n - 1) * y = m + n * y - y
  BY <1>5
<1>7. Bound \in Int /\ Bound = Disk!Max(Capacities) + Disk!Cardinality(Writers) * Disk!Body
        - Disk!Body
  BY <1>6 DEF n, m, y, Bound
<1> QED
  BY <1>1, <1>2, <1>3, <1>4, <1>7

LEMMA PledgeFits ==
    ASSUME Assumed, NEW r \in Disk!WriterStates, Disk!AsksWithin(r)
    PROVE  Disk!Pledge(r) \in Nat /\ Disk!Pledge(r) <= Disk!Body
<1>1. MaxObject \in Nat /\ RoomStep \in Nat /\ Disk!Body = MaxObject + RoomStep
  BY DEF Assumed, Disk!SizeAssumption, Disk!Body
<1>2. r.room \in Nat /\ r.need \in Nat /\ r.cap \in Nat /\ r.written \in Nat
  BY DEF Disk!WriterStates
<1>3. CASE r.pc = "reserve"
  BY <1>1, <1>2, <1>3 DEF Disk!AsksWithin, Disk!Pledge
<1>4. CASE r.pc = "keep"
  BY <1>1, <1>2, <1>4 DEF Disk!AsksWithin, Disk!Pledge
<1>5. CASE r.pc = "release"
  BY <1>1, <1>2, <1>5 DEF Disk!AsksWithin, Disk!Pledge
<1>6. CASE r.pc \notin {"reserve", "keep", "release"}
  BY <1>1, <1>2, <1>6 DEF Disk!AsksWithin, Disk!Pledge
<1> QED
  BY <1>3, <1>4, <1>5, <1>6

LEMMA HeldNat ==
    ASSUME Assumed, NEW wr, Asking(wr), NEW S
    PROVE  Held(wr, S) \in Nat /\ Held(wr, S) <= Disk!Cardinality(Writers) * Disk!Body
<1> DEFINE f == [w \in Writers |-> IF w \in S THEN Disk!Body ELSE Disk!Pledge(wr[w])]
           g == [w \in Writers |-> Disk!Body]
<1>1. Disk!Body \in Nat /\ Disk!IsFiniteSet(Writers)
  BY Constants
<1>2. \A w \in Writers : Disk!Pledge(wr[w]) \in Nat /\ Disk!Pledge(wr[w]) <= Disk!Body
  <2> SUFFICES ASSUME NEW w \in Writers PROVE Disk!Pledge(wr[w]) \in Nat /\ Disk!Pledge(wr[w])
                        <= Disk!Body
    OBVIOUS
  <2>1. wr[w] \in Disk!WriterStates /\ Disk!AsksWithin(wr[w])
    BY DEF Asking
  <2> QED
    BY <2>1, PledgeFits
<1>3. \A w \in Writers : f[w] \in Nat /\ g[w] \in Nat /\ f[w] <= g[w] /\ g[w] = Disk!Body
  BY <1>1, <1>2
<1> HIDE DEF f, g
<1>4. Disk!Total(f, Writers) \in Nat
  BY <1>1, <1>3, TotalNat
<1>5. Disk!Total(f, Writers) <= Disk!Total(g, Writers)
  BY <1>1, <1>3, TotalMono
<1>6. Disk!Total(g, Writers) = Disk!Cardinality(Writers) * Disk!Body
  BY <1>1, <1>3, TotalEven
<1> QED
  BY <1>4, <1>5, <1>6 DEF Held, f

LEMMA HeldChange ==
    ASSUME Assumed, NEW wr, NEW sr, Asking(wr), Asking(sr), NEW S, NEW w \in Writers, w \notin S,
           \A x \in Writers \ {w} : sr[x] = wr[x]
    PROVE  Held(sr, S) = Held(wr, S) + Disk!Pledge(sr[w]) - Disk!Pledge(wr[w])
<1> DEFINE f == [x \in Writers |-> IF x \in S THEN Disk!Body ELSE Disk!Pledge(wr[x])]
           g == [x \in Writers |-> IF x \in S THEN Disk!Body ELSE Disk!Pledge(sr[x])]
<1>1. Disk!Body \in Nat /\ Disk!IsFiniteSet(Writers)
  BY Constants
<1>2. \A x \in Writers : Disk!Pledge(wr[x]) \in Nat /\ Disk!Pledge(sr[x]) \in Nat
  <2> SUFFICES ASSUME NEW x \in Writers PROVE Disk!Pledge(wr[x]) \in Nat
                      /\ Disk!Pledge(sr[x]) \in Nat
    OBVIOUS
  <2>1. wr[x] \in Disk!WriterStates /\ Disk!AsksWithin(wr[x]) /\ sr[x] \in Disk!WriterStates
        /\ Disk!AsksWithin(sr[x])
    BY DEF Asking
  <2> QED
    BY <2>1, PledgeFits
<1>3. \A x \in Writers : f[x] \in Nat /\ g[x] \in Nat
  BY <1>1, <1>2
<1>4. \A x \in Writers \ {w} : f[x] = g[x]
  OBVIOUS
<1>5. f[w] = Disk!Pledge(wr[w]) /\ g[w] = Disk!Pledge(sr[w])
  OBVIOUS
<1> HIDE DEF f, g
<1>6. Disk!Total(g, Writers) = Disk!Total(f, Writers) + g[w] - f[w]
  BY <1>1, <1>3, <1>4, TotalChange
<1> QED
  BY <1>5, <1>6 DEF Held, f, g

\* A writer of which all is counted may take what it likes.
LEMMA HeldAll ==
    ASSUME NEW wr, NEW sr, NEW S, NEW w \in S, \A x \in Writers \ {w} : sr[x] = wr[x]
    PROVE  Held(sr, S) = Held(wr, S)
<1> DEFINE f == [x \in Writers |-> IF x \in S THEN Disk!Body ELSE Disk!Pledge(wr[x])]
           g == [x \in Writers |-> IF x \in S THEN Disk!Body ELSE Disk!Pledge(sr[x])]
<1>1. \A x \in Writers : f[x] = g[x]
  OBVIOUS
<1> HIDE DEF f, g
<1>2. Disk!Total(f, Writers) = Disk!Total(g, Writers)
  BY <1>1, TotalSame
<1> QED
  BY <1>2 DEF Held, f, g

LEMMA HeldWith ==
    ASSUME Assumed, NEW wr, Asking(wr), NEW S, NEW w \in Writers, w \notin S
    PROVE  Held(wr, S \cup {w}) = Held(wr, S) + Disk!Body - Disk!Pledge(wr[w])
<1> DEFINE f == [x \in Writers |-> IF x \in S THEN Disk!Body ELSE Disk!Pledge(wr[x])]
           g == [x \in Writers |-> IF x \in S \cup {w} THEN Disk!Body ELSE Disk!Pledge(wr[x])]
<1>1. Disk!Body \in Nat /\ Disk!IsFiniteSet(Writers)
  BY Constants
<1>2. \A x \in Writers : Disk!Pledge(wr[x]) \in Nat
  <2> SUFFICES ASSUME NEW x \in Writers PROVE Disk!Pledge(wr[x]) \in Nat
    OBVIOUS
  <2>1. wr[x] \in Disk!WriterStates /\ Disk!AsksWithin(wr[x])
    BY DEF Asking
  <2> QED
    BY <2>1, PledgeFits
<1>3. \A x \in Writers : f[x] \in Nat /\ g[x] \in Nat
  BY <1>1, <1>2
<1>4. \A x \in Writers \ {w} : f[x] = g[x]
  OBVIOUS
<1>5. f[w] = Disk!Pledge(wr[w]) /\ g[w] = Disk!Body
  OBVIOUS
<1> HIDE DEF f, g
<1>6. Disk!Total(g, Writers) = Disk!Total(f, Writers) + g[w] - f[w]
  BY <1>1, <1>3, <1>4, TotalChange
<1> QED
  BY <1>5, <1>6 DEF Held, f, g

LEMMA RoomsChange ==
    ASSUME Assumed, NEW wr, NEW sr, Asking(wr), Asking(sr), NEW w \in Writers,
           \A x \in Writers \ {w} : sr[x] = wr[x]
    PROVE  Rooms(sr) = Rooms(wr) + sr[w].room - wr[w].room
<1> DEFINE f == [x \in Writers |-> wr[x].room]  g == [x \in Writers |-> sr[x].room]
<1>1. Disk!IsFiniteSet(Writers)
  BY Constants
<1>2. \A x \in Writers : f[x] \in Nat /\ g[x] \in Nat
  BY DEF Asking, Disk!WriterStates
<1>3. \A x \in Writers \ {w} : f[x] = g[x]
  OBVIOUS
<1>4. f[w] = wr[w].room /\ g[w] = sr[w].room
  OBVIOUS
<1> HIDE DEF f, g
<1>5. Disk!Total(g, Writers) = Disk!Total(f, Writers) + g[w] - f[w]
  BY <1>1, <1>2, <1>3, TotalChange
<1> QED
  BY <1>4, <1>5 DEF Rooms, f, g

LEMMA RoomsNat ==
    ASSUME Assumed, NEW wr, Asking(wr)
    PROVE  Rooms(wr) \in Nat /\ \A w \in Writers : wr[w].room \in Nat /\ wr[w].room <= Rooms(wr)
<1> DEFINE f == [x \in Writers |-> wr[x].room]
<1>1. Disk!IsFiniteSet(Writers)
  BY Constants
<1>2. \A x \in Writers : f[x] \in Nat /\ f[x] = wr[x].room
  BY DEF Asking, Disk!WriterStates
<1> HIDE DEF f
<1>3. Disk!Total(f, Writers) \in Nat
  BY <1>1, <1>2, TotalNat
<1>4. \A x \in Writers : f[x] <= Disk!Total(f, Writers)
  BY <1>1, <1>2, TotalPart
<1> QED
  BY <1>2, <1>3, <1>4 DEF Rooms, f

\* A writer goes on and takes no more than it might; so does the index.
LEMMA QuietStep ==
    ASSUME Assumed, NEW wr, NEW sr, Asking(wr), Asking(sr), NEW w \in Writers,
           \A x \in Writers \ {w} : sr[x] = wr[x], sr[w].pc \notin {"check", "slack"},
           NEW b \in Nat, NEW c \in Nat, c + Disk!Pledge(sr[w]) <= b + Disk!Pledge(wr[w]),
             RoomFor(b, wr)
    PROVE  RoomFor(c, sr)
<1> SUFFICES ASSUME NEW S \in SUBSET Looks(sr) PROVE Fits(c, sr, S)
  BY DEF RoomFor
<1>1. w \notin S /\ S \in SUBSET Looks(wr)
  BY DEF Looks
<1>2. Fits(b, wr, S)
  BY <1>1 DEF RoomFor
<1>3. Held(sr, S) = Held(wr, S) + Disk!Pledge(sr[w]) - Disk!Pledge(wr[w])
  BY <1>1, HeldChange
<1>4. Held(wr, S) \in Nat /\ Held(sr, S) \in Nat
  BY HeldNat
<1>5. Disk!Pledge(sr[w]) \in Nat /\ Disk!Pledge(wr[w]) \in Nat
  BY PledgeFits DEF Asking
<1>6. c + Held(sr, S) <= b + Held(wr, S)
  BY <1>3, <1>4, <1>5
<1>7. ASSUME b + Held(wr, S) <= Bound PROVE Fits(c, sr, S)
  <2>1. Bound \in Int
    BY Constants
  <2>2. c + Held(sr, S) <= Bound
    BY <1>4, <1>6, <1>7, <2>1
  <2> QED
    BY <2>2 DEF Fits
<1>8. ASSUME NEW x \in S, b + Held(wr, S) <= wr[x].seen + Disk!Cardinality(Writers) * Disk!Body
      PROVE Fits(c, sr, S)
  <2>1. sr[x] = wr[x] /\ wr[x].seen \in Nat
    BY <1>1 DEF Looks, Asking, Disk!WriterStates
  <2> DEFINE most == Disk!Cardinality(Writers) * Disk!Body
  <2>2. most \in Nat
    <3>1. Disk!Cardinality(Writers) \in Nat /\ Disk!Body \in Nat
      BY Constants
    <3> QED
      BY <3>1
  <2>3. b + Held(wr, S) <= wr[x].seen + most
    BY <1>8
  <2> HIDE DEF most
  <2>4. c + Held(sr, S) <= sr[x].seen + most
    BY <1>4, <1>6, <2>1, <2>2, <2>3
  <2> QED
    BY <2>4 DEF Fits, most
<1> QED
  BY <1>2, <1>7, <1>8 DEF Fits

\* A writer looks at the bytes of the index.
LEMMA LookStep ==
    ASSUME Assumed, NEW wr, NEW sr, Asking(wr), Asking(sr), NEW w \in Writers,
           \A x \in Writers \ {w} : sr[x] = wr[x], wr[w].pc \notin {"check", "slack"},
           Disk!Pledge(sr[w]) = Disk!Pledge(wr[w]), NEW b \in Nat, sr[w].seen = b, RoomFor(b, wr)
    PROVE  RoomFor(b, sr)
<1> SUFFICES ASSUME NEW S \in SUBSET Looks(sr) PROVE Fits(b, sr, S)
  BY DEF RoomFor
<1>1. Held(wr, S) \in Nat /\ Held(sr, S) \in Nat /\ Held(sr, S)
        <= Disk!Cardinality(Writers) * Disk!Body
  BY HeldNat
<1>2. CASE w \in S
  <2> DEFINE most == Disk!Cardinality(Writers) * Disk!Body
  <2>1. most \in Nat
    <3>1. Disk!Cardinality(Writers) \in Nat /\ Disk!Body \in Nat
      BY Constants
    <3> QED
      BY <3>1
  <2>2. Held(sr, S) <= most
    BY <1>1
  <2> HIDE DEF most
  <2>3. b + Held(sr, S) <= sr[w].seen + most
    BY <1>1, <2>1, <2>2
  <2> QED
    BY <1>2, <2>3 DEF Fits, most
<1>3. CASE w \notin S
  <2>1. S \in SUBSET Looks(wr) /\ \A x \in S : sr[x] = wr[x]
    BY <1>3 DEF Looks
  <2>2. Fits(b, wr, S)
    BY <2>1 DEF RoomFor
  <2>3. Held(sr, S) = Held(wr, S) + Disk!Pledge(sr[w]) - Disk!Pledge(wr[w])
    BY <1>3, HeldChange
  <2>4. Disk!Pledge(sr[w]) \in Nat /\ Disk!Pledge(wr[w]) \in Nat
    BY PledgeFits DEF Asking
  <2>5. Held(sr, S) = Held(wr, S)
    BY <1>1, <2>3, <2>4
  <2> QED
    BY <2>1, <2>2, <2>5 DEF Fits
<1> QED
  BY <1>2, <1>3

\* A writer that looked finds room for what it pledges.
LEMMA FoundStep ==
    ASSUME Assumed, NEW wr, NEW sr, Asking(wr), Asking(sr), NEW w \in Writers,
           \A x \in Writers \ {w} : sr[x] = wr[x], wr[w].pc \in {"check", "slack"},
           sr[w].pc \notin {"check", "slack"}, wr[w].seen + Disk!Pledge(sr[w])
             <= Disk!Max(Capacities),
           NEW b \in Nat, RoomFor(b, wr)
    PROVE  RoomFor(b, sr)
<1> SUFFICES ASSUME NEW S \in SUBSET Looks(sr) PROVE Fits(b, sr, S)
  BY DEF RoomFor
<1> DEFINE T == S \cup {w}
<1>1. w \notin S /\ T \in SUBSET Looks(wr) /\ \A x \in S : sr[x] = wr[x] /\ x \in Writers
  BY DEF Looks
<1>2. Fits(b, wr, T)
  BY <1>1 DEF RoomFor
<1>3. Held(wr, T) = Held(wr, S) + Disk!Body - Disk!Pledge(wr[w])
  BY <1>1, HeldWith
<1>4. Held(sr, S) = Held(wr, S) + Disk!Pledge(sr[w]) - Disk!Pledge(wr[w])
  BY <1>1, HeldChange
<1>5. Held(wr, S) \in Nat /\ Held(sr, S) \in Nat /\ Held(wr, T) \in Nat
  BY HeldNat
<1>6. Disk!Pledge(sr[w]) \in Nat /\ Disk!Pledge(wr[w]) \in Nat /\ Disk!Pledge(sr[w]) <= Disk!Body
  BY PledgeFits DEF Asking
<1>7. Disk!Body \in Nat /\ Disk!Cardinality(Writers) \in Nat /\ Disk!Max(Capacities) \in Nat
  BY Constants
<1> DEFINE most == Disk!Cardinality(Writers) * Disk!Body  n == Disk!Max(Capacities)
<1>8. most \in Nat
  BY <1>7
<1>9. Bound = n + most - Disk!Body
  BY Constants
<1>10. Held(sr, S) = Held(wr, T) + Disk!Pledge(sr[w]) - Disk!Body
  BY <1>3, <1>4, <1>5, <1>6, <1>7
<1> HIDE DEF T
<1>11. ASSUME b + Held(wr, T) <= Bound PROVE Fits(b, sr, S)
  <2> HIDE DEF most, n
  <2>1. b + Held(sr, S) <= b + Held(wr, T)
    BY <1>5, <1>6, <1>7, <1>10
  <2>2. b + Held(sr, S) <= Bound
    <3>1. Bound \in Int
      BY Constants
    <3> QED
      BY <1>5, <1>11, <2>1, <3>1
  <2> QED
    BY <2>2 DEF Fits
<1>12. ASSUME NEW x \in T, b + Held(wr, T) <= wr[x].seen + most PROVE Fits(b, sr, S)
  <2>1. wr[x].seen \in Nat
    BY <1>1 DEF T, Asking, Disk!WriterStates, Looks
  <2>2. CASE x = w
    <3> HIDE DEF most, n
    <3>1. wr[w].seen + Disk!Pledge(sr[w]) <= n /\ n \in Nat
      BY <1>7 DEF n
    <3>2. b + Held(wr, T) <= wr[w].seen + most
      BY <1>12, <2>2
    <3>3. b + Held(sr, S) <= n + most - Disk!Body
      BY <1>5, <1>6, <1>7, <1>8, <1>10, <2>1, <2>2, <3>1, <3>2
    <3> QED
      BY <1>9, <3>3 DEF Fits
  <2>3. CASE x # w
    <3> HIDE DEF most, n
    <3>1. x \in S /\ sr[x] = wr[x]
      BY <1>1, <2>3 DEF T
    <3>2. b + Held(sr, S) <= sr[x].seen + most
      BY <1>5, <1>6, <1>7, <1>8, <1>10, <1>12, <2>1, <3>1
    <3> QED
      BY <3>1, <3>2 DEF Fits, most
  <2> QED
    BY <2>2, <2>3
<1> QED
  BY <1>2, <1>11, <1>12 DEF Fits

\* Entries go.
LEMMA LessBytes ==
    ASSUME Assumed, NEW wr, Asking(wr), NEW b \in Nat, NEW c \in Nat, c <= b, RoomFor(b, wr)
    PROVE  RoomFor(c, wr)
<1> SUFFICES ASSUME NEW S \in SUBSET Looks(wr) PROVE Fits(c, wr, S)
  BY DEF RoomFor
<1>1. Fits(b, wr, S)
  BY DEF RoomFor
<1>2. Held(wr, S) \in Nat
  BY HeldNat
<1>3. Bound \in Int /\ Disk!Cardinality(Writers) \in Nat /\ Disk!Body \in Nat
  BY Constants
<1> DEFINE most == Disk!Cardinality(Writers) * Disk!Body
<1>4. most \in Nat
  BY <1>3
<1>5. \A w \in S : wr[w].seen \in Nat
  BY DEF Looks, Asking, Disk!WriterStates
<1>6. b + Held(wr, S) <= Bound \/ \E w \in S : b + Held(wr, S) <= wr[w].seen + most
  BY <1>1 DEF Fits
<1> HIDE DEF most
<1>7. c + Held(wr, S) <= Bound \/ \E w \in S : c + Held(wr, S) <= wr[w].seen + most
  BY <1>2, <1>3, <1>4, <1>5, <1>6
<1> QED
  BY <1>7 DEF Fits, most

\* What the index takes.
LEMMA SizesAre ==
    ASSUME Assumed, NEW t \in Tables, NEW k \in Keys
    PROVE  /\ Disk!SizeOf(t)[k] \in Nat
           /\ t[k] = None => Disk!SizeOf(t)[k] = 0
           /\ t[k] # None => Disk!SizeOf(t)[k] = t[k].size /\ t[k] \in Disk!Entry
<1>1. CASE t[k] = None
  BY <1>1 DEF Disk!SizeOf
<1>2. CASE t[k] # None
  <2>1. t[k] \in Disk!Entry
    BY <1>2 DEF Tables
  <2> QED
    BY <1>2, <2>1 DEF Disk!SizeOf, Disk!Entry
<1> QED
  BY <1>1, <1>2

LEMMA LoadNat == ASSUME Assumed, NEW t \in Tables PROVE Load(t) \in Nat
<1>1. Disk!IsFiniteSet(Keys)
  BY Constants
<1>2. \A k \in Keys : Disk!SizeOf(t)[k] \in Nat
  BY SizesAre
<1> QED
  BY <1>1, <1>2, TotalNat DEF Load

LEMMA DroppedIs ==
    ASSUME Assumed, NEW t \in Tables, NEW S
    PROVE  /\ Disk!Dropped(t, S) \in Tables /\ Load(Disk!Dropped(t, S)) <= Load(t)
           /\ \A k \in Keys : Disk!Dropped(t, S)[k] = IF k \in S THEN None ELSE t[k]
<1>1. \A k \in Keys : Disk!Dropped(t, S)[k] = IF k \in S THEN None ELSE t[k]
  BY DEF Disk!Dropped
<1>2. Disk!Dropped(t, S) \in Tables
  BY DEF Disk!Dropped, Tables
<1>3. \A k \in Keys : Disk!SizeOf(Disk!Dropped(t, S))[k] <= Disk!SizeOf(t)[k]
  <2> SUFFICES ASSUME NEW k \in Keys PROVE Disk!SizeOf(Disk!Dropped(t, S))[k] <= Disk!SizeOf(t)[k]
    BY Zenon
  <2>1. Disk!SizeOf(t)[k] \in Nat /\ Disk!SizeOf(Disk!Dropped(t, S))[k] \in Nat
    BY <1>2, SizesAre
  <2>2. CASE k \in S
    <3>1. Disk!SizeOf(Disk!Dropped(t, S))[k] = 0
      BY <1>1, <1>2, <2>2, SizesAre
    <3> QED
      BY <2>1, <3>1
  <2>3. CASE k \notin S
    <3>1. Disk!SizeOf(Disk!Dropped(t, S))[k] = Disk!SizeOf(t)[k]
      BY <1>1, <2>3 DEF Disk!SizeOf
    <3> QED
      BY <2>1, <3>1
  <2> QED
    BY <2>2, <2>3
<1>4. Disk!IsFiniteSet(Keys)
  BY Constants
<1>5. \A k \in Keys : Disk!SizeOf(t)[k] \in Nat /\ Disk!SizeOf(Disk!Dropped(t, S))[k] \in Nat
  BY <1>2, SizesAre
<1>6. Load(Disk!Dropped(t, S)) <= Load(t)
  BY <1>3, <1>4, <1>5, TotalMono DEF Load
<1> QED
  BY <1>1, <1>2, <1>6

\* Each entry takes what it took but one, which takes at most n more.
LEMMA LoadGrows ==
    ASSUME Assumed, NEW t \in Tables, NEW u \in Tables, NEW j \in Keys, NEW n \in Nat,
           \A k \in Keys : u[k] # None => \/ t[k] # None /\ u[k].size = t[k].size
                                          \/ k = j /\ u[k].size = n
    PROVE  Load(u) <= Load(t) + n
<1> DEFINE f == Disk!SizeOf(t)  g == Disk!SizeOf(u)  h ==
             [k \in Keys |-> IF k = j THEN f[k] + n ELSE f[k]]
<1>1. \A k \in Keys : f[k] \in Nat /\ g[k] \in Nat
  BY Zenon, SizesAre
<1>2. \A k \in Keys : h[k] \in Nat
  <2> SUFFICES ASSUME NEW k \in Keys PROVE h[k] \in Nat
    BY Zenon
  <2>1. f[k] \in Nat
    BY Zenon, <1>1
  <2> HIDE DEF f
  <2> QED
    BY <2>1
<1>3. \A k \in Keys : g[k] <= h[k]
  <2> SUFFICES ASSUME NEW k \in Keys PROVE g[k] <= h[k]
    BY Zenon
  <2>1. CASE u[k] = None
    <3>1. g[k] = 0
      BY <2>1, SizesAre
    <3> QED
      BY <1>2, <3>1
  <2>2. CASE u[k] # None /\ t[k] # None /\ u[k].size = t[k].size
    <3>1. g[k] = f[k]
      BY <2>2, SizesAre
    <3> HIDE DEF f, g
    <3> QED
      BY <1>1, <3>1
  <2>3. CASE u[k] # None /\ k = j /\ u[k].size = n
    <3>1. g[k] = n
      BY <2>3, SizesAre
    <3> HIDE DEF f, g
    <3> QED
      BY <1>1, <2>3, <3>1
  <2> QED
    BY <2>1, <2>2, <2>3
<1>4. \A k \in Keys \ {j} : f[k] = h[k]
  BY Zenon
<1>5. h[j] = f[j] + n
  OBVIOUS
<1>6. Disk!IsFiniteSet(Keys)
  BY Constants
<1> HIDE DEF f, g, h
<1>7. Disk!Total(h, Keys) = Disk!Total(f, Keys) + h[j] - f[j]
  BY <1>1, <1>2, <1>4, <1>6, TotalChange
<1>8. Disk!Total(g, Keys) <= Disk!Total(h, Keys)
  BY <1>1, <1>2, <1>3, <1>6, TotalMono
<1>9. Disk!Total(f, Keys) \in Nat /\ Disk!Total(g, Keys) \in Nat
  BY <1>1, <1>6, TotalNat
<1>10. f[j] \in Nat
  BY <1>1
<1>11. Disk!Total(g, Keys) <= Disk!Total(f, Keys) + n
  BY <1>5, <1>7, <1>8, <1>9, <1>10
<1> QED
  BY <1>11 DEF Load, f, g

\* The table and the disk tell the same.
Told(t, d) ==
    \A k \in Keys, v \in BOOLEAN :
        IF t[k] # None /\ t[k].validators = v
        THEN d[<<k, v>>] # None /\ d[<<k, v>>].ver = t[k].ver /\ d[<<k, v>>].size = t[k].size
        ELSE d[<<k, v>>] = None

LEMMA UnlinkedIs ==
    ASSUME Assumed, NEW t \in Tables, NEW d \in Disks, Told(t, d), NEW S
    PROVE  Disk!Unlinked(d, t, S) \in Disks /\ Told(Disk!Dropped(t, S), Disk!Unlinked(d, t, S))
<1> DEFINE e == Disk!Unlinked(d, t, S)  u == Disk!Dropped(t, S)
<1>1. e \in Disks
  BY DEF Disks, Disk!Unlinked
<1>2. \A k \in Keys, v \in BOOLEAN : e[<<k, v>>] = IF k \in S /\ t[k].validators = v THEN None
        ELSE d[<<k, v>>]
  BY DEF Disk!Unlinked
<1>3. \A k \in Keys : u[k] = IF k \in S THEN None ELSE t[k]
  BY DroppedIs
<1>4. ASSUME NEW k \in Keys, NEW v \in BOOLEAN
      PROVE  IF u[k] # None /\ u[k].validators = v
             THEN e[<<k, v>>] # None /\ e[<<k, v>>].ver = u[k].ver /\ e[<<k, v>>].size = u[k].size
             ELSE e[<<k, v>>] = None
  <2> HIDE DEF e, u
  <2>1. IF t[k] # None /\ t[k].validators = v
        THEN d[<<k, v>>] # None /\ d[<<k, v>>].ver = t[k].ver /\ d[<<k, v>>].size = t[k].size
        ELSE d[<<k, v>>] = None
    BY DEF Told
  <2>2. CASE k \in S
    <3>1. u[k] = None /\ (t[k].validators = v => e[<<k, v>>] = None)
           /\ (t[k].validators # v => e[<<k, v>>] = d[<<k, v>>])
      BY <1>2, <1>3, <2>2
    <3>2. e[<<k, v>>] = None
      BY <2>1, <3>1
    <3> QED
      BY <3>1, <3>2
  <2>3. CASE k \notin S
    <3>1. u[k] = t[k] /\ e[<<k, v>>] = d[<<k, v>>]
      BY <1>2, <1>3, <2>3
    <3> QED
      BY <2>1, <3>1
  <2> QED
    BY <2>2, <2>3
<1> HIDE DEF e, u
<1>5. Told(u, e)
  BY ZenonT(30), <1>4 DEF Told
<1> QED
  BY <1>1, <1>5 DEF e, u

\* Fewer keys have an entry.
LEMMA FewerEntries ==
    ASSUME Assumed, NEW t, NEW u, \A k \in Keys : u[k] # None => t[k] # None
    PROVE  /\ Disk!Cardinality({k \in Keys : u[k] # None})
                <= Disk!Cardinality({k \in Keys : t[k] # None})
           /\ Disk!Cardinality({k \in Keys : u[k] # None}) \in Nat
              /\ Disk!Cardinality({k \in Keys : t[k] # None}) \in Nat
<1> DEFINE A == {k \in Keys : u[k] # None}  B == {k \in Keys : t[k] # None}
<1>1. A \subseteq B /\ B \subseteq Keys
  OBVIOUS
<1>2. Disk!IsFiniteSet(Keys)
  BY Constants
<1> HIDE DEF A, B
<1>3. Disk!IsFiniteSet(B) /\ Disk!IsFiniteSet(A) /\ Disk!Cardinality(A) <= Disk!Cardinality(B)
  <2>1. Disk!IsFiniteSet(B)
    BY <1>1, <1>2, PartSize
  <2> QED
    BY <1>1, <2>1, PartSize
<1>4. Disk!Cardinality(A) \in Nat /\ Disk!Cardinality(B) \in Nat
  BY <1>3, SizeIsNat
<1> QED
  BY <1>3, <1>4 DEF A, B

\* The invariant, part by part.
Given == Assumed /\ Disk!DiskInv

LEMMA Parts ==
    ASSUME Given
    PROVE  /\ v1 \in Tables /\ v2 \in Disks /\ Told(v1, v2)
           /\ Asking(v6) /\ Serving(v7)
           /\ v3 \in Capacities /\ v5 \in EntryCaps /\ v4 \in Nat
           /\ v8 \in 0 .. MaxNow /\ v9 \in 0 .. MaxStores
           /\ v4 = Rooms(v6) /\ RoomFor(Load(v1), v6)
           /\ Disk!Cardinality({k \in Keys : v1[k] # None}) <= v5
           /\ Disk!Bytes = Load(v1) /\ Load(v1) \in Nat
<1> DEFINE index == v1  files == v2  capacity == v3  inFlight == v4  maxEntries == v5
           writer == v6  user == v7  now == v8  stores == v9
<1>1. index \in Tables
  BY DEF Given, Disk!DiskInv, Disk!TypeOK, Tables
<1>2. files \in Disks
  BY DEF Given, Disk!DiskInv, Disk!TypeOK, Disks
<1>3. Told(index, files)
  BY ZenonT(30) DEF Given, Disk!DiskInv, Disk!FilesIndexed, Told
<1>4. Asking(writer)
  BY DEF Given, Disk!DiskInv, Disk!TypeOK, Asking
<1>5. /\ Serving(user)
      /\ capacity \in Capacities /\ maxEntries \in EntryCaps /\ inFlight \in Nat
      /\ now \in 0 .. MaxNow /\ stores \in 0 .. MaxStores
  BY DEF Given, Disk!DiskInv, Disk!TypeOK, Serving
<1>6. inFlight = Rooms(writer)
  BY DEF Given, Disk!DiskInv, Disk!RoomAccounted, Rooms
<1>7. Disk!Bytes = Load(index)
  BY DEF Disk!Bytes, Load
<1>8. RoomFor(Load(index), writer)
  <2>1. Disk!RoomForEach
    BY DEF Given, Disk!DiskInv
  <2>2. Disk!Looking = Looks(writer)
    BY DEF Disk!Looking, Looks
  <2>3. \A S : Disk!Grown(S) = Load(index) + Held(writer, S)
    BY <1>7 DEF Disk!Grown, Held
  <2> QED
    BY <2>1, <2>2, <2>3 DEF Disk!RoomForEach, RoomFor, Fits, Bound
<1>9. Disk!Cardinality({k \in Keys : index[k] # None}) <= maxEntries
  BY DEF Given, Disk!DiskInv, Disk!Indexed
<1>10. Load(index) \in Nat
  BY <1>1, LoadNat DEF Given
<1> QED
  BY <1>1, <1>2, <1>3, <1>4, <1>5, <1>6, <1>7, <1>8, <1>9, <1>10

LEMMA Together ==
    ASSUME v1' \in Tables, v2' \in Disks, Told(v1', v2'),
           Asking(v6'), Serving(v7'),
           v3' \in Capacities, v5' \in EntryCaps, v4' \in Nat,
           v8' \in 0 .. MaxNow, v9' \in 0 .. MaxStores,
           v4' = Rooms(v6'), RoomFor(Load(v1'), v6'),
           Disk!Cardinality({k \in Keys : v1'[k] # None}) <= v5'
    PROVE  Disk!DiskInv'
<1> DEFINE index == v1  maxEntries == v5  writer == v6  user == v7
<1>1. Disk!TypeOK' /\ \A u \in Users : Disk!KnowsEntry(user'[u])
  BY DEF Disk!TypeOK, Tables, Disks, Asking, Serving
<1>2. Disk!RoomAccounted'
  BY DEF Disk!RoomAccounted, Rooms
<1>3. Disk!FilesIndexed'
  BY ZenonT(30) DEF Disk!FilesIndexed, Told
<1>4. Disk!Cardinality(Disk!Indexed') <= maxEntries'
  BY DEF Disk!Indexed
<1>5. \A w \in Writers : Disk!AsksWithin(writer'[w])
  BY DEF Asking
<1>6. Disk!RoomForEach'
  <2>1. Disk!Looking' = Looks(writer')
    BY DEF Disk!Looking, Looks
  <2>2. \A S : Disk!Grown(S)' = Load(index') + Held(writer', S)
    BY DEF Disk!Grown, Held, Load, Disk!Bytes
  <2> QED
    BY <2>1, <2>2 DEF Disk!RoomForEach, RoomFor, Fits, Bound
<1> QED
  BY <1>1, <1>2, <1>3, <1>4, <1>5, <1>6 DEF Disk!DiskInv

LEMMA OthersStay ==
    ASSUME Asking(v6), NEW w \in Writers, NEW r \in Disk!WriterStates, Disk!AsksWithin(r),
             Disk!Step(w, r)
    PROVE  Asking(v6') /\ v6'[w] = r /\ \A x \in Writers \ {w} : v6'[x] = v6[x]
BY DEF Asking, Disk!Step

\* A writer goes on, index and files stay.
LEMMA WriterGoes ==
    ASSUME Given, NEW w \in Writers, NEW r \in Disk!WriterStates, Disk!AsksWithin(r),
             Disk!Step(w, r),
           UNCHANGED <<Disk!books, v3, v7, Disk!ambient>>,
           v4' = v4 + r.room - v6[w].room, RoomFor(Load(v1), v6')
    PROVE  Disk!DiskInv'
<1> DEFINE index == v1  files == v2  capacity == v3  inFlight == v4  maxEntries == v5
           writer == v6  user == v7  now == v8  stores == v9
<1>1. /\ index \in Tables /\ files \in Disks /\ Told(index, files)
      /\ Asking(writer) /\ Serving(user)
      /\ capacity \in Capacities /\ maxEntries \in EntryCaps /\ inFlight \in Nat
      /\ now \in 0 .. MaxNow /\ stores \in 0 .. MaxStores
      /\ inFlight = Rooms(writer)
      /\ Disk!Cardinality({k \in Keys : index[k] # None}) <= maxEntries
  BY Parts
<1>2. /\ index' = index /\ files' = files /\ capacity' = capacity /\ user' = user
      /\ maxEntries' = maxEntries /\ now' = now /\ stores' = stores
  BY DEF Disk!books, Disk!ambient
<1>4. Asking(writer') /\ writer'[w] = r /\ \A x \in Writers \ {w} : writer'[x] = writer[x]
  BY <1>1, OthersStay
<1>5. Rooms(writer') = Rooms(writer) + r.room - writer[w].room
  BY <1>1, <1>4, RoomsChange DEF Given
<1>6. Rooms(writer') \in Nat
  BY <1>4, RoomsNat DEF Given
<1>7. inFlight' = Rooms(writer') /\ inFlight' \in Nat
  BY <1>1, <1>5, <1>6
<1> QED
  BY <1>1, <1>2, <1>4, <1>7, Together

\* It takes no more than it might have taken.
LEMMA QuietGoes ==
    ASSUME Given, NEW w \in Writers, NEW r \in Disk!WriterStates, Disk!AsksWithin(r),
             Disk!Step(w, r),
           UNCHANGED <<Disk!books, v3, v7, Disk!ambient>>,
           v4' = v4 + r.room - v6[w].room,
           r.pc \notin {"check", "slack"}, Disk!Pledge(r) <= Disk!Pledge(v6[w])
    PROVE  Disk!DiskInv'
<1> DEFINE index == v1  writer == v6
<1>1. Asking(writer) /\ RoomFor(Load(index), writer) /\ Load(index) \in Nat
  BY Parts
<1>3. Asking(writer') /\ writer'[w] = r /\ \A x \in Writers \ {w} : writer'[x] = writer[x]
  BY <1>1, OthersStay
<1>4. Disk!Pledge(r) \in Nat /\ Disk!Pledge(writer[w]) \in Nat
  BY <1>1, PledgeFits DEF Asking, Given
<1>5. Load(index) + Disk!Pledge(writer'[w]) <= Load(index) + Disk!Pledge(writer[w])
  BY <1>1, <1>3, <1>4
<1>6. RoomFor(Load(index), writer')
  BY <1>1, <1>3, <1>5, QuietStep DEF Given
<1> QED
  BY <1>6, WriterGoes

\* Entries go, the writers stay.
LEMMA IndexGoes ==
    ASSUME Given, v1' \in Tables, v2' \in Disks, Told(v1', v2'),
           Load(v1') <= Load(v1), \A k \in Keys : v1'[k] # None => v1[k] # None,
           Serving(v7'), v3' \in Capacities, v8' \in 0 .. MaxNow,
           UNCHANGED <<v4, v6, v5, v9>>
    PROVE  Disk!DiskInv'
<1> DEFINE index == v1  inFlight == v4  maxEntries == v5  writer == v6  stores == v9
<1>1. /\ Asking(writer) /\ maxEntries \in EntryCaps /\ inFlight \in Nat
      /\ stores \in 0 .. MaxStores
      /\ inFlight = Rooms(writer) /\ RoomFor(Load(index), writer) /\ Load(index) \in Nat
      /\ Disk!Cardinality({k \in Keys : index[k] # None}) <= maxEntries
  BY Parts
<1>2. Load(index') \in Nat
  BY LoadNat DEF Given
<1>3. RoomFor(Load(index'), writer')
  BY <1>1, <1>2, LessBytes DEF Given
<1>4. Disk!Cardinality({k \in Keys : index'[k] # None}) <= maxEntries'
  <2>1. /\ Disk!Cardinality({k \in Keys : index'[k] # None})
             <= Disk!Cardinality({k \in Keys : index[k] # None})
        /\ Disk!Cardinality({k \in Keys : index'[k] # None}) \in Nat
           /\ Disk!Cardinality({k \in Keys : index[k] # None}) \in Nat
    BY FewerEntries DEF Given
  <2>2. maxEntries \in Nat
    BY <1>1 DEF Given, Assumed, Disk!SizeAssumption
  <2> QED
    BY <1>1, <2>1, <2>2
<1> QED
  BY <1>1, <1>3, <1>4, Together

\* Only a thread goes on.
LEMMA UserGoes ==
    ASSUME Given, NEW u \in Users, NEW r \in Disk!UserStates, Disk!KnowsEntry(r),
             Disk!Become(u, r), v3' \in Capacities,
           UNCHANGED <<Disk!books, v4, v6, Disk!ambient>>
    PROVE  Disk!DiskInv'
<1> DEFINE index == v1  files == v2  inFlight == v4  maxEntries == v5  writer == v6
           user == v7  now == v8  stores == v9
<1>1. /\ index \in Tables /\ files \in Disks /\ Told(index, files)
      /\ Serving(user) /\ now \in 0 .. MaxNow /\ Load(index) \in Nat
  BY Parts
<1>2. Serving(user')
  BY <1>1 DEF Disk!Become, Serving
<1>3. /\ index' = index /\ files' = files /\ now' = now
      /\ UNCHANGED <<inFlight, writer, maxEntries, stores>>
  BY DEF Disk!books, Disk!ambient
<1>4. Load(index') <= Load(index)
  BY <1>1, <1>3
<1> QED
  BY <1>1, <1>2, <1>3, <1>4, IndexGoes

-----------------------------------------------------------------------------
\* The steps of the writers.
LEMMA WriterIs ==
    ASSUME Given, NEW w \in Writers
    PROVE  /\ v6[w] \in Disk!WriterStates /\ Disk!AsksWithin(v6[w])
           /\ v6[w].room \in Nat /\ v6[w].room <= v4 /\ v4 \in Nat
<1> DEFINE inFlight == v4  writer == v6
<1>1. Asking(writer) /\ inFlight = Rooms(writer)
  BY Parts
<1>2. Rooms(writer) \in Nat /\ \A x \in Writers : writer[x].room \in Nat /\ writer[x].room
        <= Rooms(writer)
  BY <1>1, RoomsNat DEF Given
<1> QED
  BY <1>1, <1>2 DEF Asking

LEMMA PopIs ==
    ASSUME Given, NEW k \in Keys, Disk!PopLru(k)
    PROVE  /\ v1' \in Tables /\ v2' \in Disks /\ Told(v1', v2')
           /\ Load(v1') <= Load(v1) /\ \A j \in Keys : v1'[j] # None => v1[j] # None
<1> DEFINE index == v1  files == v2
<1>1. index \in Tables /\ files \in Disks /\ Told(index, files)
  BY Parts
<1>2. index' = Disk!Dropped(index, {k}) /\ files' = Disk!Unlinked(files, index, {k})
  BY DEF Disk!PopLru
<1>3. /\ Disk!Dropped(index, {k}) \in Tables /\ Load(Disk!Dropped(index, {k})) <= Load(index)
      /\ \A j \in Keys : Disk!Dropped(index, {k})[j] = IF j \in {k} THEN None ELSE index[j]
  BY <1>1, DroppedIs DEF Given
<1>4. Disk!Unlinked(files, index, {k}) \in Disks
      /\ Told(Disk!Dropped(index, {k}), Disk!Unlinked(files, index, {k}))
  BY <1>1, UnlinkedIs DEF Given
<1> QED
  BY <1>2, <1>3, <1>4

LEMMA EnsureIs ==
    ASSUME Given, NEW r \in Disk!WriterStates, Disk!AsksWithin(r), r.pc \in {"idle", "write"},
           NEW need \in Nat, r.room < need
    PROVE  LET e == Disk!EnsureRoom(r, need) IN
           /\ e \in Disk!WriterStates /\ Disk!AsksWithin(e) /\ e.room = r.room
           /\ e.pc \notin {"check", "slack"} /\ Disk!Pledge(e) <= Disk!Pledge(r)
<1> DEFINE capacity == v3
<1>1. capacity \in Nat
  BY Parts DEF Given, Assumed, Disk!SizeAssumption
<1>2. MaxObject \in Nat /\ r.limit <= MaxObject /\ r.limit \in Nat /\ r.written <= r.room
      /\ r.written \in Nat /\ r.room \in Nat
  BY DEF Given, Assumed, Disk!SizeAssumption, Disk!AsksWithin, Disk!WriterStates
<1>3. Disk!Pledge(r) = r.room
  BY DEF Disk!Pledge
<1>4. CASE need > r.limit \/ need > capacity
  <2> DEFINE e == [r EXCEPT !.pc = "release"]
  <2>1. Disk!EnsureRoom(r, need) = e
    BY <1>4 DEF Disk!EnsureRoom
  <2>2. e \in Disk!WriterStates /\ Disk!AsksWithin(e) /\ e.room = r.room /\ e.pc = "release"
        /\ e.written = r.written
    BY DEF Disk!WriterStates, Disk!AsksWithin
  <2>3. Disk!Pledge(e) = r.written
    BY <2>2 DEF Disk!Pledge
  <2> QED
    BY <1>2, <1>3, <2>1, <2>2, <2>3
<1>5. CASE ~ (need > r.limit \/ need > capacity)
  <2> DEFINE e == [r EXCEPT !.pc = "evict", !.need = need, !.cap = capacity]
  <2>1. Disk!EnsureRoom(r, need) = e
    BY <1>5 DEF Disk!EnsureRoom
  <2>2. e \in Disk!WriterStates /\ e.room = r.room /\ e.pc = "evict"
    BY <1>1 DEF Disk!WriterStates
  <2>3. need <= MaxObject
    BY <1>1, <1>2, <1>5
  <2>4. Disk!AsksWithin(e)
    BY <2>3 DEF Disk!AsksWithin, Disk!WriterStates
  <2>5. Disk!Pledge(e) = r.room
    BY <2>2 DEF Disk!Pledge
  <2> QED
    BY <1>2, <1>3, <2>1, <2>2, <2>4, <2>5
<1> QED
  BY <1>4, <1>5

LEMMA BeginKeeps ==
    ASSUME Given, NEW w \in Writers, NEW n \in Lengths \cup {None}, Disk!Begin(w, n)
    PROVE  Disk!DiskInv'
<1> DEFINE capacity == v3  inFlight == v4  writer == v6  user == v7
<1> DEFINE m == IF n = None THEN Disk!Min({MaxObject, capacity \div 4}) ELSE MaxObject
           need == 1 + IF n = None THEN 0 ELSE n
           r == [Disk!NewWriter EXCEPT !.limit = m]
           e == Disk!EnsureRoom(r, need)
<1>1. capacity \in Nat /\ MaxObject \in Nat /\ Lengths \subseteq Nat /\ capacity \div 4 \in Nat
  <2>1. capacity \in Nat /\ MaxObject \in Nat /\ Lengths \subseteq Nat
    BY Parts DEF Given, Assumed, Disk!SizeAssumption
  <2>2. capacity \div 4 \in Nat
    BY <2>1
  <2> QED
    BY <2>1, <2>2
<1>2. m \in Nat /\ m <= MaxObject
  <2> DEFINE a == capacity \div 4
  <2>1. a \in Nat
    BY <1>1
  <2> HIDE DEF a
  <2>2. Disk!Min({MaxObject, a}) \in Nat /\ Disk!Min({MaxObject, a}) <= MaxObject
    <3>1. CASE MaxObject <= a
      <4>1. MaxObject \in {MaxObject, a} /\ \A y \in {MaxObject, a} : MaxObject <= y
        BY <1>1, <2>1, <3>1
      <4>2. Disk!Min({MaxObject, a}) \in {MaxObject, a} /\ \A y \in {MaxObject, a} :
              Disk!Min({MaxObject, a}) <= y
        BY <4>1 DEF Disk!Min
      <4> QED
        BY <1>1, <2>1, <4>2
    <3>2. CASE a <= MaxObject
      <4>1. a \in {MaxObject, a} /\ \A y \in {MaxObject, a} : a <= y
        BY <1>1, <2>1, <3>2
      <4>2. Disk!Min({MaxObject, a}) \in {MaxObject, a} /\ \A y \in {MaxObject, a} :
              Disk!Min({MaxObject, a}) <= y
        BY <4>1 DEF Disk!Min
      <4> QED
        BY <1>1, <2>1, <4>2
    <3> QED
      BY <1>1, <2>1, <3>1, <3>2
  <2> QED
    BY <1>1, <2>2 DEF a
<1>3. need \in Nat /\ 0 < need
  BY <1>1
<1> HIDE DEF m, need
<1>4. r \in Disk!WriterStates /\ r.pc = "idle" /\ r.room = 0 /\ r.written = 0 /\ r.limit = m
  BY <1>2 DEF Disk!WriterStates, Disk!NewWriter
<1>5. Disk!AsksWithin(r)
  <2>1. Disk!Body \in Nat
    BY Constants DEF Given
  <2> QED
    BY <1>2, <1>4, <2>1 DEF Disk!AsksWithin
<1> HIDE DEF r
<1>6. /\ e \in Disk!WriterStates /\ Disk!AsksWithin(e) /\ e.room = r.room
      /\ e.pc \notin {"check", "slack"} /\ Disk!Pledge(e) <= Disk!Pledge(r)
  BY <1>3, <1>4, <1>5, EnsureIs
<1>7. Disk!Pledge(r) = 0
  BY <1>4 DEF Disk!Pledge
<1>8. Disk!Step(w, e) /\ UNCHANGED <<Disk!books, capacity, inFlight, user, Disk!ambient>>
      /\ writer[w].pc = "idle"
  BY DEF Disk!Begin, Disk!At, r, m, need
<1> HIDE DEF e
<1>9. writer[w] \in Disk!WriterStates /\ Disk!AsksWithin(writer[w]) /\ inFlight \in Nat
  BY WriterIs
<1>10. writer[w].room = 0 /\ Disk!Pledge(writer[w]) = 0
  BY <1>8, <1>9 DEF Disk!AsksWithin, Disk!Pledge
<1>11. inFlight' = inFlight + e.room - writer[w].room
  BY <1>4, <1>6, <1>8, <1>9, <1>10
<1>12. Disk!Pledge(e) <= Disk!Pledge(writer[w])
  BY <1>6, <1>7, <1>10
<1> QED
  BY <1>6, <1>8, <1>11, <1>12, QuietGoes

LEMMA EvictKeeps == ASSUME Given, NEW w \in Writers, Disk!Evict(w) PROVE Disk!DiskInv'
<1> DEFINE index == v1  files == v2  capacity == v3  inFlight == v4  maxEntries == v5
           writer == v6  user == v7  now == v8  stores == v9
<1>1. writer[w] \in Disk!WriterStates /\ Disk!AsksWithin(writer[w]) /\ inFlight \in Nat
      /\ writer[w].room \in Nat
  BY WriterIs
<1>2. UNCHANGED <<capacity, inFlight, user, Disk!ambient>> /\ writer[w].pc = "evict"
  BY DEF Disk!Evict, Disk!At
<1>3. ASSUME Disk!Go(w, "usage"), UNCHANGED Disk!books PROVE Disk!DiskInv'
  <2> DEFINE r == [writer[w] EXCEPT !.pc = "usage"]
  <2>1. Disk!Step(w, r)
    BY <1>3 DEF Disk!Go
  <2>2. r \in Disk!WriterStates /\ r.pc = "usage" /\ r.room = writer[w].room
    BY <1>1 DEF Disk!WriterStates
  <2>3. Disk!AsksWithin(r)
    BY <1>1, <1>2 DEF Disk!AsksWithin, Disk!WriterStates
  <2>4. Disk!Pledge(r) = writer[w].room /\ Disk!Pledge(writer[w]) = writer[w].room
    BY <1>2, <2>2 DEF Disk!Pledge
  <2> HIDE DEF r
  <2>5. inFlight' = inFlight + r.room - writer[w].room /\ Disk!Pledge(r) <= Disk!Pledge(writer[w])
    BY <1>1, <1>2, <2>2, <2>4
  <2>6. UNCHANGED <<Disk!books, capacity, user, Disk!ambient>>
    BY <1>2, <1>3
  <2> QED
    BY <2>1, <2>2, <2>3, <2>5, <2>6, QuietGoes
<1>4. ASSUME NEW k \in Disk!Indexed, Disk!PopLru(k), UNCHANGED writer PROVE Disk!DiskInv'
  <2>1. k \in Keys
    BY DEF Disk!Indexed
  <2>2. /\ index' \in Tables /\ files' \in Disks /\ Told(index', files')
        /\ Load(index') <= Load(index) /\ \A j \in Keys : index'[j] # None => index[j] # None
    BY <1>4, <2>1, PopIs
  <2>3. Serving(user') /\ capacity' \in Capacities /\ now' \in 0 .. MaxNow
    BY <1>2, Parts DEF Disk!ambient
  <2>4. UNCHANGED <<inFlight, writer, maxEntries, stores>>
    BY <1>2, <1>4 DEF Disk!ambient
  <2> QED
    BY <2>2, <2>3, <2>4, IndexGoes
<1> QED
  BY <1>3, <1>4 DEF Disk!Evict

LEMMA ReadUsageKeeps == ASSUME Given, NEW w \in Writers, Disk!ReadUsage(w) PROVE Disk!DiskInv'
<1> DEFINE index == v1  capacity == v3  inFlight == v4  writer == v6  user == v7
<1> DEFINE r == [writer[w] EXCEPT !.pc = "check", !.seen = Disk!Bytes]
<1>1. writer[w] \in Disk!WriterStates /\ Disk!AsksWithin(writer[w]) /\ inFlight \in Nat
      /\ writer[w].room \in Nat
  BY WriterIs
<1>2. UNCHANGED <<Disk!books, capacity, inFlight, user, Disk!ambient>> /\ writer[w].pc = "usage"
        /\ Disk!Step(w, r)
  BY DEF Disk!ReadUsage, Disk!At
<1>3. Disk!Bytes = Load(index) /\ Load(index) \in Nat /\ Asking(writer)
      /\ RoomFor(Load(index), writer)
  BY Parts
<1>4. r \in Disk!WriterStates /\ r.pc = "check" /\ r.room = writer[w].room /\ r.seen = Load(index)
  BY <1>1, <1>3 DEF Disk!WriterStates
<1>5. Disk!AsksWithin(r)
  BY <1>1, <1>2 DEF Disk!AsksWithin, Disk!WriterStates
<1>6. Disk!Pledge(r) = Disk!Pledge(writer[w])
  BY <1>2, <1>4 DEF Disk!Pledge
<1> HIDE DEF r
<1>7. Asking(writer') /\ writer'[w] = r /\ \A x \in Writers \ {w} : writer'[x] = writer[x]
  BY <1>2, <1>3, <1>4, <1>5, OthersStay
<1>8. RoomFor(Load(index), writer')
  BY <1>2, <1>3, <1>4, <1>6, <1>7, LookStep DEF Given
<1>9. inFlight' = inFlight + r.room - writer[w].room
  BY <1>1, <1>2, <1>4
<1> QED
  BY <1>2, <1>4, <1>5, <1>8, <1>9, WriterGoes

LEMMA CheckKeeps == ASSUME Given, NEW w \in Writers, Disk!Check(w) PROVE Disk!DiskInv'
<1> DEFINE index == v1  capacity == v3  inFlight == v4  writer == v6  user == v7
<1> DEFINE full == writer[w].seen + inFlight + writer[w].need - writer[w].room > capacity
           r == [writer[w] EXCEPT !.seen = 0, !.pc = IF full THEN "release" ELSE "reserve"]
<1>1. writer[w] \in Disk!WriterStates /\ Disk!AsksWithin(writer[w]) /\ inFlight \in Nat
      /\ writer[w].room \in Nat
      /\ writer[w].room <= inFlight
  BY WriterIs
<1>2. UNCHANGED <<Disk!books, capacity, inFlight, user, Disk!ambient>> /\ writer[w].pc = "check"
        /\ Disk!Step(w, r)
  BY DEF Disk!Check, Disk!At
<1>3. Load(index) \in Nat /\ Asking(writer) /\ RoomFor(Load(index), writer)
      /\ capacity \in Capacities
  BY Parts
<1>4. writer[w].need \in Nat /\ writer[w].seen \in Nat /\ writer[w].written \in Nat
  BY <1>1 DEF Disk!WriterStates
<1>5. r \in Disk!WriterStates /\ r.room = writer[w].room /\ r.need = writer[w].need /\ r.written
        = writer[w].written
      /\ r.pc = IF full THEN "release" ELSE "reserve"
  <2> HIDE DEF full
  <2> QED
    BY <1>1 DEF Disk!WriterStates
<1>6. Disk!AsksWithin(r)
  <2> HIDE DEF full
  <2> QED
    BY <1>1, <1>2 DEF Disk!AsksWithin, Disk!WriterStates
<1>7. inFlight' = inFlight + r.room - writer[w].room
  BY <1>1, <1>2, <1>5
<1> HIDE DEF r
<1>8. CASE full
  <2>1. Disk!Pledge(r) = writer[w].written /\ Disk!Pledge(writer[w]) = writer[w].room
    BY <1>2, <1>5, <1>8 DEF Disk!Pledge
  <2>2. Disk!Pledge(r) <= Disk!Pledge(writer[w])
    BY <1>1, <2>1 DEF Disk!AsksWithin
  <2>3. r.pc \notin {"check", "slack"}
    BY <1>5, <1>8
  <2> QED
    BY <1>2, <1>5, <1>6, <1>7, <2>2, <2>3, QuietGoes
<1>9. CASE ~ full
  <2>1. Disk!Pledge(r) = writer[w].need /\ r.pc = "reserve"
    BY <1>5, <1>9 DEF Disk!Pledge
  <2>2. capacity \in Nat /\ Disk!Max(Capacities) \in Nat /\ capacity <= Disk!Max(Capacities)
    BY <1>3, Constants DEF Given
  <2>3. writer[w].seen + Disk!Pledge(r) <= Disk!Max(Capacities)
    BY <1>1, <1>4, <1>9, <2>1, <2>2
  <2>4. Asking(writer') /\ writer'[w] = r /\ \A x \in Writers \ {w} : writer'[x] = writer[x]
    BY <1>2, <1>3, <1>5, <1>6, OthersStay
  <2>5. RoomFor(Load(index), writer')
    BY <1>2, <1>3, <2>1, <2>3, <2>4, FoundStep DEF Given
  <2> QED
    BY <1>2, <1>5, <1>6, <1>7, <2>5, WriterGoes
<1> QED
  BY <1>8, <1>9

LEMMA ReserveKeeps == ASSUME Given, NEW w \in Writers, Disk!Reserve(w) PROVE Disk!DiskInv'
<1> DEFINE capacity == v3  inFlight == v4  writer == v6  user == v7
<1> DEFINE r == [writer[w] EXCEPT !.pc = "spare", !.room = writer[w].need]
<1>1. writer[w] \in Disk!WriterStates /\ Disk!AsksWithin(writer[w]) /\ inFlight \in Nat
      /\ writer[w].room \in Nat
  BY WriterIs
<1>2. UNCHANGED <<Disk!books, capacity, user, Disk!ambient>> /\ writer[w].pc = "reserve"
        /\ Disk!Step(w, r)
      /\ inFlight' = inFlight + writer[w].need - writer[w].room
  BY DEF Disk!Reserve, Disk!At
<1>3. r \in Disk!WriterStates /\ r.pc = "spare" /\ r.room = writer[w].need
      /\ writer[w].need \in Nat
  BY <1>1 DEF Disk!WriterStates
<1>4. Disk!AsksWithin(r)
  <2>1. MaxObject \in Nat /\ RoomStep \in Nat
    BY DEF Given, Assumed, Disk!SizeAssumption
  <2> QED
    BY <1>1, <1>2, <2>1 DEF Disk!AsksWithin, Disk!WriterStates, Disk!Body
<1>5. Disk!Pledge(r) = writer[w].need /\ Disk!Pledge(writer[w]) = writer[w].need
  BY <1>2, <1>3 DEF Disk!Pledge
<1> HIDE DEF r
<1>6. inFlight' = inFlight + r.room - writer[w].room /\ Disk!Pledge(r) <= Disk!Pledge(writer[w])
  BY <1>2, <1>3, <1>5
<1> QED
  BY <1>2, <1>3, <1>4, <1>6, QuietGoes

LEMMA ReadSpareKeeps == ASSUME Given, NEW w \in Writers, Disk!ReadSpare(w) PROVE Disk!DiskInv'
<1> DEFINE index == v1  capacity == v3  inFlight == v4  writer == v6  user == v7
<1> DEFINE r == [writer[w] EXCEPT !.pc = "slack", !.seen = Disk!Bytes, !.cap = capacity]
<1>1. writer[w] \in Disk!WriterStates /\ Disk!AsksWithin(writer[w]) /\ inFlight \in Nat
      /\ writer[w].room \in Nat
  BY WriterIs
<1>2. UNCHANGED <<Disk!books, capacity, inFlight, user, Disk!ambient>> /\ writer[w].pc = "spare"
        /\ Disk!Step(w, r)
  BY DEF Disk!ReadSpare, Disk!At
<1>3. Disk!Bytes = Load(index) /\ Load(index) \in Nat /\ Asking(writer)
      /\ RoomFor(Load(index), writer)
      /\ capacity \in Capacities
  BY Parts
<1>4. capacity \in Nat
  BY <1>3 DEF Given, Assumed, Disk!SizeAssumption
<1>5. r \in Disk!WriterStates /\ r.pc = "slack" /\ r.room = writer[w].room /\ r.seen = Load(index)
  BY <1>1, <1>3, <1>4 DEF Disk!WriterStates
<1>6. Disk!AsksWithin(r)
  BY <1>1, <1>2, <1>3 DEF Disk!AsksWithin, Disk!WriterStates
<1>7. Disk!Pledge(r) = Disk!Pledge(writer[w])
  BY <1>2, <1>5 DEF Disk!Pledge
<1> HIDE DEF r
<1>8. Asking(writer') /\ writer'[w] = r /\ \A x \in Writers \ {w} : writer'[x] = writer[x]
  BY <1>2, <1>3, <1>5, <1>6, OthersStay
<1>9. RoomFor(Load(index), writer')
  BY <1>2, <1>3, <1>5, <1>7, <1>8, LookStep DEF Given
<1>10. inFlight' = inFlight + r.room - writer[w].room
  BY <1>1, <1>2, <1>5
<1> QED
  BY <1>2, <1>5, <1>6, <1>9, <1>10, WriterGoes

LEMMA SlackKeeps == ASSUME Given, NEW w \in Writers, Disk!Slack(w) PROVE Disk!DiskInv'
<1> DEFINE index == v1  capacity == v3  inFlight == v4  writer == v6  user == v7
<1> DEFINE left == Disk!Less(Disk!Less(writer[w].cap, writer[w].seen), inFlight)
           slack == Disk!Min({left, RoomStep})
           r == [writer[w] EXCEPT !.pc = IF slack > 0 THEN "keep" ELSE "put", !.cap = slack,
             !.seen = 0]
<1>1. writer[w] \in Disk!WriterStates /\ Disk!AsksWithin(writer[w]) /\ inFlight \in Nat
      /\ writer[w].room \in Nat
      /\ writer[w].room <= inFlight
  BY WriterIs
<1>2. UNCHANGED <<Disk!books, capacity, inFlight, user, Disk!ambient>> /\ writer[w].pc = "slack"
        /\ Disk!Step(w, r)
  BY DEF Disk!Slack, Disk!At
<1>3. Load(index) \in Nat /\ Asking(writer) /\ RoomFor(Load(index), writer)
  BY Parts
<1>4. writer[w].cap \in Nat /\ writer[w].seen \in Nat /\ RoomStep \in Nat
      /\ writer[w].cap \in Capacities
      /\ writer[w].cap <= Disk!Max(Capacities) /\ Disk!Max(Capacities) \in Nat
  <2>1. writer[w].cap \in Nat /\ writer[w].seen \in Nat /\ writer[w].cap \in Capacities
    BY <1>1, <1>2 DEF Disk!WriterStates, Disk!AsksWithin
  <2> QED
    BY <2>1, Constants DEF Given, Assumed, Disk!SizeAssumption
<1>5. \A m, n \in Nat : Disk!Less(m, n) \in Nat
      /\ (Disk!Less(m, n) > 0 => Disk!Less(m, n) + n = m) /\ Disk!Less(m, n) <= m
  <2> SUFFICES ASSUME NEW m \in Nat, NEW n \in Nat
               PROVE  Disk!Less(m, n) \in Nat
                      /\ (Disk!Less(m, n) > 0 => Disk!Less(m, n) + n = m) /\ Disk!Less(m, n) <= m
    OBVIOUS
  <2>1. CASE m - n >= 0
    <3>1. m - n \in {m - n, 0} /\ \A y \in {m - n, 0} : m - n >= y
      BY <2>1
    <3>2. Disk!Max({m - n, 0}) \in {m - n, 0} /\ \A y \in {m - n, 0} : Disk!Max({m - n, 0}) >= y
      BY <3>1 DEF Disk!Max
    <3> QED
      BY <2>1, <3>2 DEF Disk!Less
  <2>2. CASE m - n < 0
    <3>1. 0 \in {m - n, 0} /\ \A y \in {m - n, 0} : 0 >= y
      BY <2>2
    <3>2. Disk!Max({m - n, 0}) \in {m - n, 0} /\ \A y \in {m - n, 0} : Disk!Max({m - n, 0}) >= y
      BY <3>1 DEF Disk!Max
    <3> QED
      BY <2>2, <3>2 DEF Disk!Less
  <2> QED
    BY <2>1, <2>2
<1>6. left \in Nat /\ (left > 0 => left + inFlight + writer[w].seen = writer[w].cap)
  <2> DEFINE first == Disk!Less(writer[w].cap, writer[w].seen)
  <2>1. first \in Nat /\ (first > 0 => first + writer[w].seen = writer[w].cap)
    BY <1>4, <1>5
  <2> HIDE DEF first
  <2>2. Disk!Less(first, inFlight) \in Nat
        /\ (Disk!Less(first, inFlight) > 0 => Disk!Less(first, inFlight) + inFlight = first)
    BY <1>1, <1>5, <2>1
  <2> DEFINE second == Disk!Less(first, inFlight)
  <2>3. left = second
    BY DEF first
  <2> HIDE DEF left, second
  <2>4. second \in Nat /\ (second > 0 => second + inFlight = first)
    BY <2>2 DEF second
  <2> QED
    BY <1>1, <1>4, <2>1, <2>3, <2>4
<1> HIDE DEF left
<1>7. slack \in Nat /\ slack <= left /\ slack <= RoomStep
  <2>1. CASE left <= RoomStep
    <3>1. left \in {left, RoomStep} /\ \A y \in {left, RoomStep} : left <= y
      BY <1>4, <1>6, <2>1
    <3>2. Disk!Min({left, RoomStep}) \in {left, RoomStep} /\ \A y \in {left, RoomStep} :
            Disk!Min({left, RoomStep}) <= y
      BY <3>1 DEF Disk!Min
    <3> QED
      BY <1>4, <1>6, <3>2
  <2>2. CASE RoomStep <= left
    <3>1. RoomStep \in {left, RoomStep} /\ \A y \in {left, RoomStep} : RoomStep <= y
      BY <1>4, <1>6, <2>2
    <3>2. Disk!Min({left, RoomStep}) \in {left, RoomStep} /\ \A y \in {left, RoomStep} :
            Disk!Min({left, RoomStep}) <= y
      BY <3>1 DEF Disk!Min
    <3> QED
      BY <1>4, <1>6, <3>2
  <2> QED
    BY <1>4, <1>6, <2>1, <2>2
<1> HIDE DEF slack
<1>8. r \in Disk!WriterStates /\ r.room = writer[w].room /\ r.cap = slack
      /\ r.pc = IF slack > 0 THEN "keep" ELSE "put"
  BY <1>1, <1>7 DEF Disk!WriterStates
<1>9. Disk!AsksWithin(r)
  BY <1>1, <1>2, <1>7 DEF Disk!AsksWithin, Disk!WriterStates
<1>10. inFlight' = inFlight + r.room - writer[w].room
  BY <1>1, <1>2, <1>8
<1>11. Disk!Pledge(writer[w]) = writer[w].room
  BY <1>2 DEF Disk!Pledge
<1> HIDE DEF r
<1>12. CASE slack > 0
  <2>1. r.pc = "keep" /\ Disk!Pledge(r) = writer[w].room + slack
    BY <1>8, <1>12 DEF Disk!Pledge
  <2>2. writer[w].seen + Disk!Pledge(r) <= Disk!Max(Capacities)
    BY <1>1, <1>4, <1>6, <1>7, <1>12, <2>1
  <2>3. Asking(writer') /\ writer'[w] = r /\ \A x \in Writers \ {w} : writer'[x] = writer[x]
    BY <1>2, <1>3, <1>8, <1>9, OthersStay
  <2>4. RoomFor(Load(index), writer')
    BY <1>2, <1>3, <2>1, <2>2, <2>3, FoundStep DEF Given
  <2> QED
    BY <1>2, <1>8, <1>9, <1>10, <2>4, WriterGoes
<1>13. CASE ~ (slack > 0)
  <2>1. r.pc = "put" /\ Disk!Pledge(r) = writer[w].room
    BY <1>8, <1>13 DEF Disk!Pledge
  <2>2. Disk!Pledge(r) <= Disk!Pledge(writer[w])
    BY <1>1, <1>11, <2>1
  <2> QED
    BY <1>2, <1>8, <1>9, <1>10, <2>1, <2>2, QuietGoes
<1> QED
  BY <1>12, <1>13

LEMMA KeepKeeps == ASSUME Given, NEW w \in Writers, Disk!Keep(w) PROVE Disk!DiskInv'
<1> DEFINE capacity == v3  inFlight == v4  writer == v6  user == v7
<1> DEFINE r == [writer[w] EXCEPT !.pc = "put", !.room = @ + writer[w].cap, !.cap = 0]
<1>1. writer[w] \in Disk!WriterStates /\ Disk!AsksWithin(writer[w]) /\ inFlight \in Nat
      /\ writer[w].room \in Nat
  BY WriterIs
<1>2. UNCHANGED <<Disk!books, capacity, user, Disk!ambient>> /\ writer[w].pc = "keep"
        /\ Disk!Step(w, r)
      /\ inFlight' = inFlight + writer[w].cap
  BY DEF Disk!Keep, Disk!At
<1>3. writer[w].cap \in Nat /\ writer[w].need \in Nat /\ writer[w].written \in Nat
      /\ MaxObject \in Nat /\ RoomStep \in Nat
  BY <1>1 DEF Disk!WriterStates, Given, Assumed, Disk!SizeAssumption
<1>4. r \in Disk!WriterStates /\ r.pc = "put" /\ r.room = writer[w].room + writer[w].cap
      /\ r.need = writer[w].need /\ r.written = writer[w].written /\ r.limit = writer[w].limit
  <2> DEFINE sum == writer[w].room + writer[w].cap
             s == [writer[w] EXCEPT !.pc = "put", !.room = sum, !.cap = 0]
  <2>1. r = s
    OBVIOUS
  <2>2. sum \in Nat
    BY <1>1, <1>3
  <2> HIDE DEF sum, r
  <2>3. s \in Disk!WriterStates /\ s.pc = "put" /\ s.room = sum
        /\ s.need = writer[w].need /\ s.written = writer[w].written /\ s.limit = writer[w].limit
    BY <1>1, <2>2 DEF Disk!WriterStates
  <2> QED
    BY <2>1, <2>3 DEF sum
<1> HIDE DEF r
<1>5. Disk!AsksWithin(r)
  BY <1>1, <1>2, <1>3, <1>4 DEF Disk!AsksWithin, Disk!Body
<1>6. Disk!Pledge(r) = Disk!Pledge(writer[w])
  BY <1>2, <1>4 DEF Disk!Pledge
<1>7. Disk!Pledge(writer[w]) \in Nat
  BY <1>1, PledgeFits DEF Given
<1>8. inFlight' = inFlight + r.room - writer[w].room /\ Disk!Pledge(r) <= Disk!Pledge(writer[w])
  BY <1>1, <1>2, <1>3, <1>4, <1>6, <1>7
<1> QED
  BY <1>2, <1>4, <1>5, <1>8, QuietGoes

LEMMA PutKeeps == ASSUME Given, NEW w \in Writers, Disk!Put(w) PROVE Disk!DiskInv'
<1> DEFINE capacity == v3  inFlight == v4  writer == v6  user == v7
<1> DEFINE r == [writer[w] EXCEPT !.pc = "write", !.need = 0, !.written = IF @ = 0 THEN 1
             ELSE writer[w].need]
           q == [writer[w] EXCEPT !.pc = "release", !.written = 0]
<1>1. writer[w] \in Disk!WriterStates /\ Disk!AsksWithin(writer[w]) /\ inFlight \in Nat
      /\ writer[w].room \in Nat
  BY WriterIs
<1>2. UNCHANGED <<Disk!books, capacity, inFlight, user, Disk!ambient>> /\ writer[w].pc = "put"
        /\ (Disk!Step(w, r) \/ Disk!Step(w, q))
  BY DEF Disk!Put, Disk!At
<1>3. Disk!Pledge(writer[w]) = writer[w].room
  BY <1>2 DEF Disk!Pledge
<1>4. writer[w].need \in Nat /\ writer[w].written \in Nat
  BY <1>1 DEF Disk!WriterStates
<1>5. CASE Disk!Step(w, r)
  <2>1. r \in Disk!WriterStates /\ r.pc = "write" /\ r.room = writer[w].room
        /\ r.written = (IF writer[w].written = 0 THEN 1 ELSE writer[w].need) /\ r.limit
             = writer[w].limit
    BY <1>1, <1>4 DEF Disk!WriterStates
  <2> HIDE DEF r
  <2>2. Disk!AsksWithin(r)
    BY <1>1, <1>2, <1>4, <2>1 DEF Disk!AsksWithin
  <2>3. Disk!Pledge(r) = writer[w].room
    BY <2>1 DEF Disk!Pledge
  <2>4. inFlight' = inFlight + r.room - writer[w].room /\ Disk!Pledge(r) <= Disk!Pledge(writer[w])
    BY <1>1, <1>2, <1>3, <2>1, <2>3
  <2> QED
    BY <1>2, <1>5, <2>1, <2>2, <2>4, QuietGoes
<1>6. CASE Disk!Step(w, q)
  <2>1. q \in Disk!WriterStates /\ q.pc = "release" /\ q.room = writer[w].room
        /\ q.written = 0 /\ q.limit = writer[w].limit
    BY <1>1, <1>4 DEF Disk!WriterStates
  <2> HIDE DEF q
  <2>2. Disk!AsksWithin(q)
    BY <1>1, <1>2, <1>4, <2>1 DEF Disk!AsksWithin
  <2>3. Disk!Pledge(q) = 0
    BY <2>1 DEF Disk!Pledge
  <2>4. inFlight' = inFlight + q.room - writer[w].room /\ Disk!Pledge(q) <= Disk!Pledge(writer[w])
    BY <1>1, <1>2, <1>3, <2>1, <2>3
  <2> QED
    BY <1>2, <1>6, <2>1, <2>2, <2>4, QuietGoes
<1> QED
  BY <1>2, <1>5, <1>6

LEMMA WriteKeeps == ASSUME Given, NEW w \in Writers, Disk!Write(w) PROVE Disk!DiskInv'
<1> DEFINE capacity == v3  inFlight == v4  writer == v6  user == v7
<1> DEFINE next == writer[w].written + 1
           r == [writer[w] EXCEPT !.pc = "put", !.need = next]
           e == Disk!EnsureRoom(writer[w], next)
<1>1. writer[w] \in Disk!WriterStates /\ Disk!AsksWithin(writer[w]) /\ inFlight \in Nat
      /\ writer[w].room \in Nat
  BY WriterIs
<1>2. UNCHANGED <<Disk!books, capacity, inFlight, user, Disk!ambient>> /\ writer[w].pc = "write"
      /\ Disk!Step(w, IF next <= writer[w].room THEN r ELSE e)
  BY DEF Disk!Write, Disk!At
<1>3. Disk!Pledge(writer[w]) = writer[w].room
  BY <1>2 DEF Disk!Pledge
<1>4. writer[w].written \in Nat /\ next \in Nat /\ next > 0
  BY <1>1 DEF Disk!WriterStates
<1>5. CASE next <= writer[w].room
  <2>1. Disk!Step(w, r)
    BY <1>2, <1>5
  <2>2. r \in Disk!WriterStates /\ r.pc = "put" /\ r.room = writer[w].room /\ r.need = next
        /\ r.written = writer[w].written /\ r.limit = writer[w].limit
    BY <1>1, <1>4 DEF Disk!WriterStates
  <2> HIDE DEF r
  <2>3. Disk!AsksWithin(r)
    BY <1>1, <1>4, <1>5, <2>2 DEF Disk!AsksWithin
  <2>4. Disk!Pledge(r) = writer[w].room
    BY <2>2 DEF Disk!Pledge
  <2>5. inFlight' = inFlight + r.room - writer[w].room /\ Disk!Pledge(r) <= Disk!Pledge(writer[w])
    BY <1>1, <1>2, <1>3, <2>2, <2>4
  <2> QED
    BY <1>2, <2>1, <2>2, <2>3, <2>5, QuietGoes
<1>6. CASE ~ (next <= writer[w].room)
  <2>1. Disk!Step(w, e)
    BY <1>2, <1>6
  <2>2. writer[w].room < next
    BY <1>1, <1>4, <1>6
  <2>3. /\ e \in Disk!WriterStates /\ Disk!AsksWithin(e) /\ e.room = writer[w].room
        /\ e.pc \notin {"check", "slack"} /\ Disk!Pledge(e) <= Disk!Pledge(writer[w])
    BY <1>1, <1>2, <1>4, <2>2, EnsureIs
  <2> HIDE DEF e
  <2>4. inFlight' = inFlight + e.room - writer[w].room
    BY <1>1, <1>2, <2>3
  <2> QED
    BY <1>2, <2>1, <2>3, <2>4, QuietGoes
<1> QED
  BY <1>5, <1>6

LEMMA AbortKeeps == ASSUME Given, NEW w \in Writers, Disk!Abort(w) PROVE Disk!DiskInv'
<1> DEFINE capacity == v3  inFlight == v4  writer == v6  user == v7
<1> DEFINE q == [writer[w] EXCEPT !.pc = "release", !.written = 0]
<1>1. writer[w] \in Disk!WriterStates /\ Disk!AsksWithin(writer[w]) /\ inFlight \in Nat
      /\ writer[w].room \in Nat
  BY WriterIs
<1>2. UNCHANGED <<Disk!books, capacity, inFlight, user, Disk!ambient>> /\ writer[w].pc = "write"
        /\ Disk!Step(w, q)
  BY DEF Disk!Abort, Disk!At
<1>3. Disk!Pledge(writer[w]) = writer[w].room
  BY <1>2 DEF Disk!Pledge
<1>4. q \in Disk!WriterStates /\ q.pc = "release" /\ q.room = writer[w].room
      /\ q.written = 0 /\ q.limit = writer[w].limit
  BY <1>1 DEF Disk!WriterStates
<1> HIDE DEF q
<1>5. Disk!AsksWithin(q)
  BY <1>1, <1>4 DEF Disk!AsksWithin
<1>6. Disk!Pledge(q) = 0
  BY <1>4 DEF Disk!Pledge
<1>7. inFlight' = inFlight + q.room - writer[w].room /\ Disk!Pledge(q) <= Disk!Pledge(writer[w])
  BY <1>1, <1>2, <1>3, <1>4, <1>6
<1> QED
  BY <1>2, <1>4, <1>5, <1>7, QuietGoes

LEMMA ReleaseKeeps == ASSUME Given, NEW w \in Writers, Disk!Release(w) PROVE Disk!DiskInv'
<1> DEFINE capacity == v3  inFlight == v4  writer == v6  user == v7
<1>1. writer[w] \in Disk!WriterStates /\ Disk!AsksWithin(writer[w]) /\ inFlight \in Nat
      /\ writer[w].room \in Nat
  BY WriterIs
<1>2. UNCHANGED <<Disk!books, capacity, user, Disk!ambient>> /\ writer[w].pc = "release"
        /\ Disk!Step(w, Disk!NewWriter)
      /\ inFlight' = inFlight - writer[w].room
  BY DEF Disk!Release, Disk!At
<1>3. Disk!NewWriter \in Disk!WriterStates /\ Disk!NewWriter.pc = "idle" /\ Disk!NewWriter.room
        = 0 /\ Disk!NewWriter.written = 0
      /\ Disk!NewWriter.limit = 0
  BY DEF Disk!WriterStates, Disk!NewWriter
<1>4. Disk!AsksWithin(Disk!NewWriter)
  <2>1. Disk!Body \in Nat /\ MaxObject \in Nat
    BY Constants DEF Given, Assumed, Disk!SizeAssumption
  <2> QED
    BY <1>3, <2>1 DEF Disk!AsksWithin
<1>5. Disk!Pledge(Disk!NewWriter) = 0 /\ Disk!Pledge(writer[w]) \in Nat
  BY <1>1, <1>3, PledgeFits DEF Disk!Pledge, Given
<1>6. inFlight' = inFlight + Disk!NewWriter.room - writer[w].room /\ Disk!Pledge(Disk!NewWriter)
        <= Disk!Pledge(writer[w])
  BY <1>1, <1>2, <1>3, <1>5
<1> QED
  BY <1>2, <1>3, <1>4, <1>6, QuietGoes

\* The file and the entry of a body that is complete, and what goes for it.
LEMMA EnteredIs ==
    ASSUME Given, NEW w \in Writers, NEW k \in Keys, NEW meta \in Metas, v9 < MaxStores
    PROVE  LET entered == [v1 EXCEPT ![k] = Disk!NewEntry(w, meta)]
               placed == Disk!Replaced(w, k, meta) IN
           /\ entered \in Tables /\ placed \in Disks /\ Told(entered, placed)
           /\ Load(entered) <= Load(v1) + v6[w].written
           /\ Disk!Renamed(w, k, meta) \in Disks
<1> DEFINE index == v1  files == v2  writer == v6  stores == v9
<1> DEFINE entered == [index EXCEPT ![k] = Disk!NewEntry(w, meta)]
           renamed == Disk!Renamed(w, k, meta)
           placed == Disk!Replaced(w, k, meta)
           new == Disk!NewFile(w, meta)
           old == Disk!NewEntry(w, meta)
<1>1. index \in Tables /\ files \in Disks /\ Told(index, files) /\ stores \in 0 .. MaxStores
  BY Parts
<1>2. writer[w].written \in Nat /\ MaxStores \in Nat
      /\ meta.expires \in Nat /\ meta.validators \in BOOLEAN
  BY WriterIs DEF Disk!WriterStates, Given, Assumed, Disk!TimeAssumption
<1>3. old \in Disk!Entry /\ new \in Disk!File /\ new.ver = old.ver /\ new.size = old.size
      /\ old.size = writer[w].written /\ old.validators = meta.validators
  <2>1. stores + 1 \in 0 .. MaxStores
    BY <1>1, <1>2
  <2> QED
    BY <1>2, <2>1 DEF Disk!NewEntry, Disk!NewFile, Disk!Entry, Disk!File
<1>4. old # None /\ new # None
  BY <1>3 DEF Given, Assumed, Disk!TierAssumption
<1> HIDE DEF old, new
<1>5. entered \in Tables /\ \A j \in Keys : entered[j] = IF j = k THEN old ELSE index[j]
  BY <1>1, <1>3 DEF Tables, old
<1>6. renamed \in Disks
      /\ \A f \in Keys \X BOOLEAN : renamed[f] = IF f = <<k, meta.validators>> THEN new
           ELSE files[f]
  BY <1>1, <1>2, <1>3 DEF Disk!Renamed, Disks, new
<1> HIDE DEF renamed
<1>7. ASSUME index[k] = None \/ index[k].validators = meta.validators
      PROVE  placed \in Disks /\ Told(entered, placed)
  <2>1. placed = renamed
    BY <1>7 DEF Disk!Replaced, renamed
  <2>2. \A f \in Keys \X BOOLEAN : placed[f] = IF f = <<k, meta.validators>> THEN new
          ELSE files[f]
    BY <1>6, <2>1
  <2>3. \A v \in BOOLEAN : v # meta.validators => files[<<k, v>>] = None
    <3>1. \A v \in BOOLEAN : ~(index[k] # None /\ index[k].validators = v) => files[<<k, v>>]
            = None
      BY ZenonT(30), <1>1 DEF Told
    <3> QED
      BY <1>7, <3>1
  <2> HIDE DEF placed, entered
  <2>4. ASSUME NEW j \in Keys, NEW v \in BOOLEAN
        PROVE  IF entered[j] # None /\ entered[j].validators = v
               THEN placed[<<j, v>>] # None /\ placed[<<j, v>>].ver = entered[j].ver
                    /\ placed[<<j, v>>].size = entered[j].size
               ELSE placed[<<j, v>>] = None
    <3>1. IF index[j] # None /\ index[j].validators = v
          THEN files[<<j, v>>] # None /\ files[<<j, v>>].ver = index[j].ver
               /\ files[<<j, v>>].size = index[j].size
          ELSE files[<<j, v>>] = None
      BY ZenonT(30), <1>1 DEF Told
    <3>2. placed[<<j, v>>] = IF j = k /\ v = meta.validators THEN new ELSE files[<<j, v>>]
      BY <2>2
    <3>3. CASE j = k
      <4>1. entered[j] = old
        BY <1>5, <3>3
      <4>2. CASE v = meta.validators
        <5>1. placed[<<j, v>>] = new
          BY <3>2, <3>3, <4>2
        <5> QED
          BY <1>3, <1>4, <4>1, <4>2, <5>1
      <4>3. CASE v # meta.validators
        <5>1. placed[<<j, v>>] = None
          BY <2>3, <3>2, <3>3, <4>3
        <5> QED
          BY <1>3, <4>1, <4>3, <5>1
      <4> QED
        BY <4>2, <4>3
    <3>4. CASE j # k
      <4>1. entered[j] = index[j] /\ placed[<<j, v>>] = files[<<j, v>>]
        BY <1>5, <3>2, <3>4
      <4> QED
        BY <3>1, <4>1
    <3> QED
      BY <3>3, <3>4
  <2>5. Told(entered, placed)
    BY ZenonT(30), <2>4 DEF Told
  <2>6. placed \in Disks
    BY <1>6, <2>1
  <2> QED
    BY <2>5, <2>6
<1>8. ASSUME index[k] # None, index[k].validators # meta.validators
      PROVE  placed \in Disks /\ Told(entered, placed)
  <2>1. placed = [renamed EXCEPT ![<<k, ~meta.validators>>] = None]
    BY <1>8 DEF Disk!Replaced, renamed
  <2>2. placed \in Disks /\ \A f \in Keys \X BOOLEAN :
            placed[f] = IF f = <<k, ~meta.validators>> THEN None ELSE renamed[f]
    BY <1>2, <1>6, <2>1 DEF Disks
  <2> HIDE DEF placed, entered
  <2>3. ASSUME NEW j \in Keys, NEW v \in BOOLEAN
        PROVE  IF entered[j] # None /\ entered[j].validators = v
               THEN placed[<<j, v>>] # None /\ placed[<<j, v>>].ver = entered[j].ver
                    /\ placed[<<j, v>>].size = entered[j].size
               ELSE placed[<<j, v>>] = None
    <3>1. IF index[j] # None /\ index[j].validators = v
          THEN files[<<j, v>>] # None /\ files[<<j, v>>].ver = index[j].ver
               /\ files[<<j, v>>].size = index[j].size
          ELSE files[<<j, v>>] = None
      BY ZenonT(30), <1>1 DEF Told
    <3>2. placed[<<j, v>>] = IF j = k THEN (IF v = meta.validators THEN new ELSE None)
            ELSE files[<<j, v>>]
      BY <1>2, <1>6, <2>2
    <3>3. CASE j = k
      <4>1. entered[j] = old
        BY <1>5, <3>3
      <4> QED
        BY <1>3, <1>4, <3>2, <3>3, <4>1
    <3>4. CASE j # k
      <4>1. entered[j] = index[j] /\ placed[<<j, v>>] = files[<<j, v>>]
        BY <1>5, <3>2, <3>4
      <4> QED
        BY <3>1, <4>1
    <3> QED
      BY <3>3, <3>4
  <2>4. Told(entered, placed)
    BY ZenonT(30), <2>3 DEF Told
  <2> QED
    BY <2>2, <2>4
<1>9. Load(entered) <= Load(index) + writer[w].written
  <2> HIDE DEF entered
  <2>1. \A j \in Keys : entered[j] # None => \/ index[j] # None /\ entered[j].size = index[j].size
                                             \/ j = k /\ entered[j].size = writer[w].written
    BY <1>3, <1>5
  <2> QED
    BY <1>1, <1>2, <1>5, <2>1, LoadGrows DEF Given
<1> QED
  BY <1>5, <1>6, <1>7, <1>8, <1>9 DEF renamed

\* The index keeps to its number of entries.
LEMMA SurplusGoes ==
    ASSUME Assumed, NEW t \in Tables, v5 \in EntryCaps, NEW S \in Disk!Surplus(t)
    PROVE  Disk!Cardinality({k \in Keys : Disk!Dropped(t, S)[k] # None}) <= v5
<1> DEFINE maxEntries == v5
<1> DEFINE many == {k \in Keys : t[k] # None}  n == Disk!Cardinality(many)
           left == {k \in Keys : Disk!Dropped(t, S)[k] # None}
<1>1. S \in SUBSET many /\ Disk!Cardinality(S) = Disk!Less(n, maxEntries)
  BY DEF Disk!Surplus, Disk!kSubset
<1>2. left = many \ S
  BY Zenon DEF Disk!Dropped
<1>3. Disk!IsFiniteSet(many)
  <2>1. Disk!IsFiniteSet(Keys) /\ many \subseteq Keys
    BY Constants
  <2> QED
    BY <2>1, PartSize
<1> HIDE DEF many, left
<1>4. Disk!IsFiniteSet(S) /\ Disk!IsFiniteSet(many \ S) /\ many \ S \subseteq many
  BY <1>1, <1>3, PartSize
<1>5. Disk!Cardinality(many) = Disk!Cardinality(S) + Disk!Cardinality(many \ S)
        - Disk!Cardinality(S \cap (many \ S))
  <2>1. many = S \cup (many \ S)
    BY <1>1
  <2> QED
    BY <1>4, <2>1, UnionSize
<1>6. Disk!Cardinality(S \cap (many \ S)) = 0
  <2>1. S \cap (many \ S) = {}
    OBVIOUS
  <2> QED
    BY <2>1, EmptySize
<1>7. Disk!Cardinality(many) \in Nat /\ Disk!Cardinality(S) \in Nat
      /\ Disk!Cardinality(many \ S) \in Nat
  BY <1>3, <1>4, SizeIsNat
<1>8. maxEntries \in Nat
  BY DEF Assumed, Disk!SizeAssumption
<1> HIDE DEF n
<1>9. n \in Nat /\ n = Disk!Cardinality(S) + Disk!Cardinality(many \ S)
  BY <1>5, <1>6, <1>7 DEF n
<1>10. CASE n <= maxEntries
  <2>1. Disk!Cardinality(many \ S) <= maxEntries
    BY <1>7, <1>8, <1>9, <1>10
  <2> QED
    BY <1>2, <2>1 DEF left
<1>11. CASE n > maxEntries
  <2>1. n - maxEntries \in {n - maxEntries, 0} /\ \A y \in {n - maxEntries, 0} : n
          - maxEntries >= y
    BY <1>8, <1>9, <1>11
  <2>2. Disk!Max({n - maxEntries, 0}) \in {n - maxEntries, 0}
        /\ \A y \in {n - maxEntries, 0} : Disk!Max({n - maxEntries, 0}) >= y
    BY <2>1 DEF Disk!Max
  <2>3. Disk!Less(n, maxEntries) = n - maxEntries
    BY <1>8, <1>9, <1>11, <2>2 DEF Disk!Less
  <2>4. Disk!Cardinality(many \ S) = maxEntries
    BY <1>1, <1>7, <1>8, <1>9, <2>3
  <2> QED
    BY <1>2, <1>8, <2>4 DEF left
<1> QED
  BY <1>8, <1>9, <1>10, <1>11

LEMMA CommitKeeps ==
    ASSUME Given, NEW w \in Writers, NEW k \in Keys, NEW meta \in Metas, Disk!Commit(w, k, meta)
    PROVE  Disk!DiskInv'
<1> DEFINE index == v1  files == v2  capacity == v3  inFlight == v4  maxEntries == v5
           writer == v6  user == v7  now == v8  stores == v9
<1> DEFINE entered == [index EXCEPT ![k] = Disk!NewEntry(w, meta)]
           placed == Disk!Replaced(w, k, meta)
           q == [writer[w] EXCEPT !.pc = "release", !.written = 0]
<1>1. writer[w] \in Disk!WriterStates /\ Disk!AsksWithin(writer[w]) /\ inFlight \in Nat
      /\ writer[w].room \in Nat
  BY WriterIs
<1>2. /\ Asking(writer) /\ Serving(user)
      /\ capacity \in Capacities /\ maxEntries \in EntryCaps
      /\ now \in 0 .. MaxNow /\ stores \in 0 .. MaxStores
      /\ inFlight = Rooms(writer) /\ RoomFor(Load(index), writer) /\ Load(index) \in Nat
  BY Parts
<1>3. writer[w].pc = "write" /\ stores < MaxStores /\ stores' = stores + 1 /\ Disk!Step(w, q)
      /\ UNCHANGED <<capacity, inFlight, user, maxEntries, now>>
  BY DEF Disk!Commit, Disk!At
<1>4. PICK S \in Disk!Surplus(entered) :
         index' = Disk!Dropped(entered, S) /\ files' = Disk!Unlinked(placed, entered, S)
  BY DEF Disk!Commit
<1>5. /\ entered \in Tables /\ placed \in Disks /\ Told(entered, placed)
      /\ Load(entered) <= Load(index) + writer[w].written
  BY <1>3, EnteredIs
<1> HIDE DEF entered, placed
<1>6. index' \in Tables /\ Load(index') <= Load(entered)
  BY <1>4, <1>5, DroppedIs DEF Given
<1>7. files' \in Disks /\ Told(index', files')
  BY <1>4, <1>5, UnlinkedIs DEF Given
<1>8. Disk!Cardinality({j \in Keys : index'[j] # None}) <= maxEntries'
  BY <1>2, <1>3, <1>4, <1>5, SurplusGoes DEF Given
<1>9. q \in Disk!WriterStates /\ q.pc = "release" /\ q.room = writer[w].room
      /\ q.written = 0 /\ q.limit = writer[w].limit
  BY <1>1 DEF Disk!WriterStates
<1> HIDE DEF q
<1>10. Disk!AsksWithin(q)
  BY <1>1, <1>9 DEF Disk!AsksWithin
<1>11. Asking(writer') /\ writer'[w] = q /\ \A x \in Writers \ {w} : writer'[x] = writer[x]
  BY <1>2, <1>3, <1>9, <1>10, OthersStay
<1>12. Rooms(writer') = Rooms(writer)
  <2>1. Rooms(writer') = Rooms(writer) + q.room - writer[w].room
    BY <1>2, <1>11, RoomsChange DEF Given
  <2> QED
    BY <1>1, <1>2, <1>9, <2>1
<1>13. RoomFor(Load(index'), writer')
  <2>1. Load(index') \in Nat /\ Load(entered) \in Nat /\ writer[w].written \in Nat
    BY <1>1, <1>5, <1>6, LoadNat DEF Given, Disk!WriterStates
  <2>2. Disk!Pledge(q) = 0 /\ Disk!Pledge(writer[w]) = writer[w].room /\ writer[w].written
          <= writer[w].room
    BY <1>1, <1>3, <1>9 DEF Disk!Pledge, Disk!AsksWithin
  <2>3. Load(index') + Disk!Pledge(writer'[w]) <= Load(index) + Disk!Pledge(writer[w])
    BY <1>1, <1>2, <1>5, <1>6, <1>11, <2>1, <2>2
  <2> QED
    BY <1>2, <1>9, <1>11, <2>1, <2>3, QuietStep DEF Given
<1>14. stores' \in 0 .. MaxStores
  BY <1>2, <1>3 DEF Given, Assumed, Disk!TimeAssumption
<1>15. capacity' = capacity /\ inFlight' = inFlight /\ user' = user /\ maxEntries' = maxEntries
       /\ now' = now
  BY <1>3
<1>16. inFlight' = Rooms(writer') /\ inFlight' \in Nat
  BY <1>1, <1>2, <1>12, <1>15
<1> QED
  BY <1>2, <1>6, <1>7, <1>8, <1>11, <1>13, <1>14, <1>15, <1>16, Together

-----------------------------------------------------------------------------
\* The other threads.
LEMMA UserIs ==
    ASSUME Given, NEW u \in Users
    PROVE  /\ v7[u] \in Disk!UserStates /\ Disk!KnowsEntry(v7[u])
           /\ Disk!NewUser \in Disk!UserStates /\ Disk!KnowsEntry(Disk!NewUser)
           /\ v8 \in 0 .. MaxNow /\ v3 \in Capacities
<1> DEFINE capacity == v3  user == v7  now == v8
<1>1. Serving(user) /\ now \in 0 .. MaxNow /\ capacity \in Capacities
  BY Parts
<1>2. MaxNow \in Nat
  BY DEF Given, Assumed, Disk!TimeAssumption
<1>3. Disk!NewUser \in Disk!UserStates /\ Disk!KnowsEntry(Disk!NewUser)
  BY <1>2 DEF Disk!NewUser, Disk!UserStates, Disk!KnowsEntry
<1> QED
  BY <1>1, <1>3 DEF Serving

\* A thread goes on, nothing else does.
LEMMA BecomeKeeps ==
    ASSUME Given, NEW u \in Users, NEW r \in Disk!UserStates, Disk!KnowsEntry(r),
             Disk!Become(u, r),
           UNCHANGED <<Disk!books, v3, v4, v6, Disk!ambient>>
    PROVE  Disk!DiskInv'
<1> DEFINE capacity == v3  inFlight == v4  writer == v6
<1>1. capacity' \in Capacities /\ UNCHANGED <<Disk!books, inFlight, writer, Disk!ambient>>
  BY UserIs
<1> QED
  BY <1>1, UserGoes

LEMMA DoomKeeps ==
    ASSUME Given, NEW u \in Users, NEW S \in SUBSET Keys, Disk!Doom(u, S),
           UNCHANGED <<Disk!books, v3, v4, v6, Disk!ambient>>
    PROVE  Disk!DiskInv'
<1> DEFINE r == [Disk!NewUser EXCEPT !.pc = "drop", !.todo = S]
<1>1. Disk!NewUser \in Disk!UserStates
  BY UserIs
<1>2. r \in Disk!UserStates /\ r.pc = "drop"
  BY <1>1 DEF Disk!UserStates
<1>3. Disk!Become(u, r)
  BY DEF Disk!Doom
<1> HIDE DEF r
<1>4. Disk!KnowsEntry(r)
  BY <1>2 DEF Disk!KnowsEntry
<1> QED
  BY <1>2, <1>3, <1>4, BecomeKeeps

LEMMA MetaIs ==
    ASSUME Given, NEW k \in Keys, v1[k] # None
    PROVE  v1[k] \in Disk!Entry /\ Disk!MetaOf(v1[k]) \in Disk!Meta
<1> DEFINE index == v1
<1>1. index[k] \in Disk!Entry
  BY Parts DEF Tables
<1> QED
  BY <1>1 DEF Disk!Entry, Disk!Meta, Disk!MetaOf

LEMMA GetKeeps == ASSUME Given, NEW u \in Users, NEW k \in Keys, Disk!Get(u, k)
PROVE Disk!DiskInv'
<1> DEFINE capacity == v3  inFlight == v4  writer == v6  now == v8
<1> DEFINE r == [Disk!NewUser EXCEPT !.pc = "open", !.key = k, !.time = now]
<1>1. Disk!NewUser \in Disk!UserStates /\ now \in 0 .. MaxNow
  BY UserIs
<1>2. r \in Disk!UserStates /\ r.pc = "open" /\ r.key = k
  BY <1>1 DEF Disk!UserStates
<1>3. UNCHANGED <<Disk!books, capacity, inFlight, writer, Disk!ambient>>
      /\ (Disk!Become(u, r) \/ Disk!Doom(u, {k}))
  BY DEF Disk!Get
<1> HIDE DEF r
<1>4. Disk!KnowsEntry(r)
  BY <1>2 DEF Disk!KnowsEntry
<1> QED
  BY <1>2, <1>3, <1>4, BecomeKeeps, DoomKeeps

LEMMA LookKeeps == ASSUME Given, NEW u \in Users, Disk!Look(u) PROVE Disk!DiskInv'
<1> DEFINE index == v1  capacity == v3  inFlight == v4  writer == v6  user == v7
<1> DEFINE k == user[u].key
           r == [user[u] EXCEPT !.pc = "file", !.snap = Disk!MetaOf(index[k])]
<1>1. user[u] \in Disk!UserStates /\ Disk!KnowsEntry(user[u])
  BY UserIs
<1>2. UNCHANGED <<Disk!books, capacity, inFlight, writer, Disk!ambient>>
      /\ (IF index[k] = None THEN Disk!Doom(u, {k}) ELSE Disk!Become(u, r)) /\ user[u].pc = "open"
  BY DEF Disk!Look, Disk!Is
<1>3. k \in Keys
  BY <1>1, <1>2 DEF Disk!KnowsEntry
<1> HIDE DEF k
<1>4. CASE index[k] = None
  BY <1>2, <1>3, <1>4, DoomKeeps
<1>5. CASE index[k] # None
  <2>1. Disk!MetaOf(index[k]) \in Disk!Meta
    BY <1>3, <1>5, MetaIs
  <2>2. r \in Disk!UserStates /\ r.pc = "file" /\ r.key = k /\ r.snap \in Disk!Meta
    BY <1>1, <2>1 DEF Disk!UserStates, k
  <2>3. Disk!Become(u, r)
    BY <1>2, <1>5
  <2> HIDE DEF r
  <2>4. Disk!KnowsEntry(r)
    BY <1>3, <2>2 DEF Disk!KnowsEntry
  <2> QED
    BY <1>2, <2>2, <2>3, <2>4, BecomeKeeps
<1> QED
  BY <1>4, <1>5

LEMMA OpenKeeps == ASSUME Given, NEW u \in Users, Disk!Open(u) PROVE Disk!DiskInv'
<1> DEFINE capacity == v3  inFlight == v4  writer == v6  user == v7
<1>1. user[u] \in Disk!UserStates /\ Disk!KnowsEntry(user[u])
      /\ Disk!NewUser \in Disk!UserStates /\ Disk!KnowsEntry(Disk!NewUser)
  BY UserIs
<1>2. UNCHANGED <<Disk!books, capacity, inFlight, writer, Disk!ambient>>
      /\ (Disk!Become(u, Disk!NewUser) \/ Disk!Doom(u, {user[u].key})) /\ user[u].pc = "file"
  BY DEF Disk!Open, Disk!Is
<1>3. {user[u].key} \in SUBSET Keys
  BY <1>1, <1>2 DEF Disk!KnowsEntry
<1> QED
  BY <1>1, <1>2, <1>3, BecomeKeeps, DoomKeeps

LEMMA SweepKeeps == ASSUME Given, NEW u \in Users, Disk!Sweep(u) PROVE Disk!DiskInv'
<1> DEFINE index == v1  capacity == v3  inFlight == v4  writer == v6
<1> DEFINE garbage == {k \in Disk!Indexed : Disk!Garbage(index[k])}
<1>1. UNCHANGED <<Disk!books, capacity, inFlight, writer, Disk!ambient>> /\ Disk!Doom(u, garbage)
  BY DEF Disk!Sweep
<1>2. garbage \in SUBSET Keys
  BY DEF Disk!Indexed
<1> HIDE DEF garbage
<1> QED
  BY <1>1, <1>2, DoomKeeps

\* Without an entry there is no file.
LEMMA RemovedIs ==
    ASSUME Given, NEW k \in Keys, Disk!RemoveKey(k)
    PROVE  /\ v1' \in Tables /\ v2' \in Disks /\ Told(v1', v2')
           /\ Load(v1') <= Load(v1) /\ \A j \in Keys : v1'[j] # None => v1[j] # None
<1> DEFINE index == v1  files == v2
<1>1. index \in Tables /\ files \in Disks /\ Told(index, files)
  BY Parts
<1>2. index' = Disk!Dropped(index, {k})
  BY DEF Disk!RemoveKey
<1>3. /\ Disk!Dropped(index, {k}) \in Tables /\ Load(Disk!Dropped(index, {k})) <= Load(index)
      /\ \A j \in Keys : Disk!Dropped(index, {k})[j] = IF j \in {k} THEN None ELSE index[j]
  BY <1>1, DroppedIs DEF Given
<1>4. CASE index[k] # None
  <2>1. files' = Disk!Unlinked(files, index, {k})
    BY <1>4 DEF Disk!RemoveKey
  <2>2. Disk!Unlinked(files, index, {k}) \in Disks
        /\ Told(Disk!Dropped(index, {k}), Disk!Unlinked(files, index, {k}))
    BY <1>1, UnlinkedIs DEF Given
  <2> QED
    BY <1>2, <1>3, <2>1, <2>2
<1>5. CASE index[k] = None
  <2>1. \A v \in BOOLEAN : files[<<k, v>>] = None
    BY ZenonT(30), <1>1, <1>5 DEF Told
  <2>2. files' = [files EXCEPT ![<<k, TRUE>>] = None, ![<<k, FALSE>>] = None]
    BY <1>5 DEF Disk!RemoveKey
  <2>3. files' = files
    BY <1>1, <2>1, <2>2 DEF Disks
  <2>4. index' = index
    <3>1. \A j \in Keys : Disk!Dropped(index, {k})[j] = index[j]
      BY Zenon, <1>3, <1>5
    <3> QED
      BY <1>1, <1>2, <1>3, <3>1 DEF Tables
  <2> QED
    BY <1>1, <1>2, <1>3, <2>3, <2>4
<1> QED
  BY <1>4, <1>5

LEMMA DropKeeps == ASSUME Given, NEW u \in Users, Disk!Drop(u) PROVE Disk!DiskInv'
<1> DEFINE index == v1  files == v2  capacity == v3  inFlight == v4  maxEntries == v5
           writer == v6  user == v7  now == v8  stores == v9
<1>1. user[u] \in Disk!UserStates /\ Disk!NewUser \in Disk!UserStates
      /\ Disk!KnowsEntry(Disk!NewUser) /\ Serving(user)
      /\ capacity \in Capacities /\ now \in 0 .. MaxNow
  BY UserIs, Parts
<1>2. user[u].pc = "drop" /\ UNCHANGED <<capacity, inFlight, writer, Disk!ambient>>
  BY DEF Disk!Drop, Disk!Is
<1>3. PICK k \in user[u].todo :
        /\ Disk!RemoveKey(k)
        /\ IF user[u].todo = {k} THEN Disk!Become(u, Disk!NewUser)
           ELSE Disk!Become(u, [user[u] EXCEPT !.todo = @ \ {k}])
  BY Zenon DEF Disk!Drop
<1>4. k \in Keys
  BY <1>1 DEF Disk!UserStates
<1> DEFINE r == [user[u] EXCEPT !.todo = @ \ {k}]
<1>5. r \in Disk!UserStates /\ r.pc = "drop"
  BY <1>1, <1>2 DEF Disk!UserStates
<1>6. Disk!Become(u, Disk!NewUser) \/ Disk!Become(u, r)
  BY <1>3
<1> HIDE DEF r
<1>7. Disk!KnowsEntry(r)
  BY <1>5 DEF Disk!KnowsEntry
<1>8. Serving(user')
  BY <1>1, <1>5, <1>6, <1>7 DEF Serving, Disk!Become
<1>9. /\ index' \in Tables /\ files' \in Disks /\ Told(index', files')
      /\ Load(index') <= Load(index) /\ \A j \in Keys : index'[j] # None => index[j] # None
  BY <1>3, <1>4, RemovedIs
<1>10. capacity' \in Capacities /\ now' \in 0 .. MaxNow
       /\ UNCHANGED <<inFlight, writer, maxEntries, stores>>
  BY <1>1, <1>2 DEF Disk!ambient
<1> QED
  BY <1>8, <1>9, <1>10, IndexGoes

LEMMA InvalidateKeeps == ASSUME Given, NEW u \in Users, NEW k \in Keys, Disk!Invalidate(u, k)
PROVE Disk!DiskInv'
<1> DEFINE index == v1  files == v2  capacity == v3  inFlight == v4  maxEntries == v5
           writer == v6  user == v7  now == v8  stores == v9
<1>1. Serving(user) /\ capacity \in Capacities /\ now \in 0 .. MaxNow
  BY Parts
<1>2. Disk!RemoveKey(k) /\ UNCHANGED <<capacity, inFlight, writer, user, Disk!ambient>>
  BY DEF Disk!Invalidate
<1>3. /\ index' \in Tables /\ files' \in Disks /\ Told(index', files')
      /\ Load(index') <= Load(index) /\ \A j \in Keys : index'[j] # None => index[j] # None
  BY <1>2, RemovedIs
<1>4. user' = user
  BY <1>2
<1>5. Serving(user') /\ capacity' \in Capacities /\ now' \in 0 .. MaxNow
      /\ UNCHANGED <<inFlight, writer, maxEntries, stores>>
  BY <1>1, <1>2, <1>4 DEF Disk!ambient
<1> QED
  BY <1>3, <1>5, IndexGoes

LEMMA ClearKeeps == ASSUME Given, NEW u \in Users, Disk!Clear(u) PROVE Disk!DiskInv'
<1> DEFINE index == v1  files == v2  capacity == v3  inFlight == v4  maxEntries == v5
           writer == v6  user == v7  now == v8  stores == v9
<1>1. Serving(user) /\ capacity \in Capacities /\ now \in 0 .. MaxNow
      /\ index \in Tables /\ files \in Disks /\ Told(index, files)
  BY Parts
<1>2. index' = Disk!Dropped(index, Keys) /\ files' = Disk!Unlinked(files, index, Disk!Indexed)
      /\ UNCHANGED <<capacity, inFlight, writer, user, Disk!ambient>>
  BY DEF Disk!Clear
<1>3. /\ Disk!Dropped(index, Keys) \in Tables /\ Load(Disk!Dropped(index, Keys)) <= Load(index)
      /\ \A j \in Keys : Disk!Dropped(index, Keys)[j] = IF j \in Keys THEN None ELSE index[j]
  BY <1>1, DroppedIs DEF Given
<1>4. Disk!Unlinked(files, index, Disk!Indexed) \in Disks
      /\ Told(Disk!Dropped(index, Disk!Indexed), Disk!Unlinked(files, index, Disk!Indexed))
  BY <1>1, UnlinkedIs DEF Given
<1>5. Disk!Dropped(index, Disk!Indexed) = Disk!Dropped(index, Keys)
  BY DEF Disk!Dropped, Disk!Indexed
<1>6. user' = user
  BY <1>2
<1>7. Serving(user') /\ capacity' \in Capacities /\ now' \in 0 .. MaxNow
      /\ UNCHANGED <<inFlight, writer, maxEntries, stores>>
  BY <1>1, <1>2, <1>6 DEF Disk!ambient
<1>8. \A j \in Keys : index'[j] # None => index[j] # None
  BY <1>2, <1>3
<1> QED
  BY <1>2, <1>3, <1>4, <1>5, <1>7, <1>8, IndexGoes

LEMMA RevalidateKeeps == ASSUME Given, NEW u \in Users, NEW k \in Keys, Disk!Revalidate(u, k)
PROVE Disk!DiskInv'
<1> DEFINE capacity == v3  inFlight == v4  writer == v6
<1> DEFINE r == [Disk!NewUser EXCEPT !.pc = "ask", !.key = k]
<1>1. Disk!NewUser \in Disk!UserStates
  BY UserIs
<1>2. r \in Disk!UserStates /\ r.pc = "ask" /\ r.key = k
  BY <1>1 DEF Disk!UserStates
<1>3. UNCHANGED <<Disk!books, capacity, inFlight, writer, Disk!ambient>> /\ Disk!Become(u, r)
  BY DEF Disk!Revalidate
<1> HIDE DEF r
<1>4. Disk!KnowsEntry(r)
  BY <1>2 DEF Disk!KnowsEntry
<1> QED
  BY <1>2, <1>3, <1>4, BecomeKeeps

LEMMA RefreshKeeps ==
    ASSUME Given, NEW u \in Users, NEW e \in Nat, Disk!Refresh(u, e) PROVE Disk!DiskInv'
<1> DEFINE index == v1  files == v2  capacity == v3  inFlight == v4  maxEntries == v5
           writer == v6  user == v7  now == v8  stores == v9
<1> DEFINE k == user[u].key
<1>1. /\ user[u] \in Disk!UserStates /\ Disk!KnowsEntry(user[u])
      /\ Disk!NewUser \in Disk!UserStates /\ Disk!KnowsEntry(Disk!NewUser)
      /\ Serving(user) /\ capacity \in Capacities /\ now \in 0 .. MaxNow
      /\ index \in Tables /\ files \in Disks /\ Told(index, files) /\ Load(index) \in Nat
  BY UserIs, Parts
<1>2. user[u].pc = "ask" /\ UNCHANGED <<files, capacity, inFlight, writer, Disk!ambient>>
      /\ (IF index[k] = None THEN index' = index /\ Disk!Become(u, Disk!NewUser)
          ELSE /\ index' = [index EXCEPT ![k].expires = e]
               /\ Disk!Become(u,
                    [user[u] EXCEPT !.pc = "mtime", !.snap = Disk!MetaOf(index'[k])]))
  BY DEF Disk!Refresh, Disk!Is
<1>3. k \in Keys
  BY <1>1, <1>2 DEF Disk!KnowsEntry
<1> HIDE DEF k
<1>4. CASE index[k] = None
  <2>1. UNCHANGED <<Disk!books, capacity, inFlight, writer, Disk!ambient>>
        /\ Disk!Become(u, Disk!NewUser)
    BY <1>2, <1>4 DEF Disk!books
  <2> QED
    BY <1>1, <2>1, BecomeKeeps
<1>5. CASE index[k] # None
  <2> DEFINE new == [index[k] EXCEPT !.expires = e]
             r == [user[u] EXCEPT !.pc = "mtime", !.snap = Disk!MetaOf(index'[k])]
  <2>1. index[k] \in Disk!Entry
    BY <1>3, <1>5, MetaIs
  <2>2. new \in Disk!Entry /\ new.size = index[k].size /\ new.ver = index[k].ver
        /\ new.validators = index[k].validators
    BY <2>1 DEF Disk!Entry
  <2>3. new # None
    BY <2>2 DEF Given, Assumed, Disk!TierAssumption
  <2> HIDE DEF new
  <2>4. index' = [index EXCEPT ![k] = new]
    BY <1>2, <1>5 DEF new
  <2>5. index' \in Tables /\ \A j \in Keys : index'[j] = IF j = k THEN new ELSE index[j]
    BY <1>1, <2>2, <2>4 DEF Tables
  <2>6. Load(index') <= Load(index) + 0
    <3>1. \A j \in Keys : index'[j] # None => \/ index[j] # None /\ index'[j].size = index[j].size
                                              \/ j = k /\ index'[j].size = 0
      BY <1>5, <2>2, <2>5
    <3>2. 0 \in Nat
      OBVIOUS
    <3> QED
      BY <1>1, <1>3, <2>5, <3>1, <3>2, LoadGrows DEF Given
  <2>7. Load(index') <= Load(index)
    <3>1. Load(index') \in Nat
      BY <2>5, LoadNat DEF Given
    <3> QED
      BY <1>1, <2>6, <3>1
  <2>8. \A j \in Keys : index'[j] # None => index[j] # None
    BY <1>5, <2>5
  <2>9. files' = files
    BY <1>2
  <2>10. Told(index', files')
    <3>1. ASSUME NEW j \in Keys, NEW v \in BOOLEAN
          PROVE  IF index'[j] # None /\ index'[j].validators = v
                 THEN files'[<<j, v>>] # None /\ files'[<<j, v>>].ver = index'[j].ver
                      /\ files'[<<j, v>>].size = index'[j].size
                 ELSE files'[<<j, v>>] = None
      <4>1. IF index[j] # None /\ index[j].validators = v
            THEN files[<<j, v>>] # None /\ files[<<j, v>>].ver = index[j].ver
                 /\ files[<<j, v>>].size = index[j].size
            ELSE files[<<j, v>>] = None
        BY ZenonT(30), <1>1 DEF Told
      <4>2. CASE j = k
        BY <1>5, <2>2, <2>3, <2>5, <2>9, <4>1, <4>2
      <4>3. CASE j # k
        BY <2>5, <2>9, <4>1, <4>3
      <4> QED
        BY <4>2, <4>3
    <3> QED
      BY ZenonT(30), <3>1 DEF Told
  <2>11. Disk!MetaOf(index'[k]) \in Disk!Meta
    <3>1. index'[k] = new
      BY <1>3, <2>5
    <3> QED
      BY <2>2, <3>1 DEF Disk!MetaOf, Disk!Meta, Disk!Entry
  <2>12. r \in Disk!UserStates /\ r.pc = "mtime" /\ r.key = k /\ r.snap \in Disk!Meta
    BY <1>1, <2>11 DEF Disk!UserStates, k
  <2>13. Disk!Become(u, r)
    BY <1>2, <1>5
  <2> HIDE DEF r
  <2>14. Disk!KnowsEntry(r)
    BY <1>3, <2>12 DEF Disk!KnowsEntry
  <2>15. Serving(user')
    BY <1>1, <2>12, <2>13, <2>14 DEF Serving, Disk!Become
  <2>16. files' \in Disks /\ capacity' \in Capacities /\ now' \in 0 .. MaxNow
         /\ UNCHANGED <<inFlight, writer, maxEntries, stores>>
    BY <1>1, <1>2 DEF Disk!ambient
  <2> QED
    BY <2>5, <2>7, <2>8, <2>10, <2>15, <2>16, IndexGoes
<1> QED
  BY <1>4, <1>5

LEMMA SetMtimeKeeps == ASSUME Given, NEW u \in Users, Disk!SetMtime(u) PROVE Disk!DiskInv'
<1> DEFINE index == v1  files == v2  capacity == v3  inFlight == v4  maxEntries == v5
           writer == v6  user == v7  now == v8  stores == v9
<1> DEFINE f == <<user[u].key, user[u].snap.validators>>
           t == user[u].snap.expires
<1>1. /\ user[u] \in Disk!UserStates /\ Disk!KnowsEntry(user[u])
      /\ Disk!NewUser \in Disk!UserStates /\ Disk!KnowsEntry(Disk!NewUser)
      /\ Serving(user) /\ capacity \in Capacities /\ now \in 0 .. MaxNow
      /\ index \in Tables /\ files \in Disks /\ Told(index, files) /\ Load(index) \in Nat
  BY UserIs, Parts
<1>2. user[u].pc = "mtime" /\ UNCHANGED <<index, capacity, inFlight, writer, Disk!ambient>>
      /\ Disk!Become(u, Disk!NewUser)
      /\ files' = (IF files[f] = None THEN files ELSE [files EXCEPT ![f].mtime = t])
  BY DEF Disk!SetMtime, Disk!Is
<1>3. f \in Keys \X BOOLEAN /\ t \in Nat
  BY <1>1, <1>2 DEF Disk!KnowsEntry, Disk!Meta
<1> HIDE DEF f, t
<1>4. /\ files' \in Disks
      /\ \A g \in Keys \X BOOLEAN : /\ files'[g] = None <=> files[g] = None
                                    /\ files[g] # None => files'[g].ver = files[g].ver
                                       /\ files'[g].size = files[g].size
  <2>1. CASE files[f] = None
    BY <1>1, <1>2, <2>1
  <2>2. CASE files[f] # None
    <3> DEFINE new == [files[f] EXCEPT !.mtime = t]
    <3>1. files[f] \in Disk!File
      BY <1>1, <1>3, <2>2 DEF Disks
    <3>2. new \in Disk!File /\ new.ver = files[f].ver /\ new.size = files[f].size
      BY <1>3, <3>1 DEF Disk!File
    <3>3. new # None
      BY <3>2 DEF Given, Assumed, Disk!TierAssumption
    <3> HIDE DEF new
    <3>4. files' = [files EXCEPT ![f] = new]
      BY <1>2, <2>2 DEF new
    <3>5. files' \in Disks /\ \A g \in Keys \X BOOLEAN : files'[g] = IF g = f THEN new
            ELSE files[g]
      BY <1>1, <3>2, <3>4 DEF Disks
    <3> QED
      BY <2>2, <3>2, <3>3, <3>5
  <2> QED
    BY <2>1, <2>2
<1>5. index' = index
  BY <1>2
<1>6. Told(index', files')
  <2>1. ASSUME NEW j \in Keys, NEW v \in BOOLEAN
        PROVE  IF index'[j] # None /\ index'[j].validators = v
               THEN files'[<<j, v>>] # None /\ files'[<<j, v>>].ver = index'[j].ver
                    /\ files'[<<j, v>>].size = index'[j].size
               ELSE files'[<<j, v>>] = None
    <3>1. IF index[j] # None /\ index[j].validators = v
          THEN files[<<j, v>>] # None /\ files[<<j, v>>].ver = index[j].ver
               /\ files[<<j, v>>].size = index[j].size
          ELSE files[<<j, v>>] = None
      BY ZenonT(30), <1>1 DEF Told
    <3>2. <<j, v>> \in Keys \X BOOLEAN
      OBVIOUS
    <3> QED
      BY <1>4, <1>5, <3>1, <3>2
  <2> QED
    BY ZenonT(30), <2>1 DEF Told
<1>7. Serving(user')
  BY <1>1, <1>2 DEF Serving, Disk!Become
<1>8. capacity' \in Capacities /\ now' \in 0 .. MaxNow
      /\ UNCHANGED <<inFlight, writer, maxEntries, stores>>
  BY <1>1, <1>2 DEF Disk!ambient
<1>9. index' \in Tables /\ Load(index') <= Load(index) /\ \A j \in Keys : index'[j] # None
        => index[j] # None
  BY <1>1, <1>5
<1> QED
  BY <1>4, <1>6, <1>7, <1>8, <1>9, IndexGoes

LEMMA SetCapacityKeeps == ASSUME Given, NEW u \in Users, NEW c \in Capacities,
    Disk!SetCapacity(u, c) PROVE Disk!DiskInv'
<1> DEFINE capacity == v3  inFlight == v4  writer == v6
<1> DEFINE r == [Disk!NewUser EXCEPT !.pc = "enforce", !.cap = c]
<1>1. Disk!NewUser \in Disk!UserStates /\ c \in Nat
  BY UserIs DEF Given, Assumed, Disk!SizeAssumption
<1>2. r \in Disk!UserStates /\ r.pc = "enforce"
  BY <1>1 DEF Disk!UserStates
<1>3. UNCHANGED <<Disk!books, inFlight, writer, Disk!ambient>> /\ Disk!Become(u, r)
        /\ capacity' \in Capacities
  BY DEF Disk!SetCapacity
<1> HIDE DEF r
<1>4. Disk!KnowsEntry(r)
  BY <1>2 DEF Disk!KnowsEntry
<1> QED
  BY <1>2, <1>3, <1>4, UserGoes

LEMMA EnforceKeeps == ASSUME Given, NEW u \in Users, Disk!Enforce(u) PROVE Disk!DiskInv'
<1> DEFINE index == v1  files == v2  capacity == v3  inFlight == v4  maxEntries == v5
           writer == v6  user == v7  now == v8  stores == v9
<1>1. Disk!NewUser \in Disk!UserStates /\ Disk!KnowsEntry(Disk!NewUser) /\ Serving(user)
      /\ capacity \in Capacities /\ now \in 0 .. MaxNow
  BY UserIs, Parts
<1>2. UNCHANGED <<capacity, inFlight, writer, Disk!ambient>>
  BY DEF Disk!Enforce
<1>3. ASSUME Disk!Become(u, Disk!NewUser), UNCHANGED Disk!books PROVE Disk!DiskInv'
  <2>1. UNCHANGED <<Disk!books, capacity, inFlight, writer, Disk!ambient>>
    BY <1>2, <1>3
  <2> QED
    BY <1>1, <1>3, <2>1, BecomeKeeps
<1>4. ASSUME NEW k \in Disk!Indexed, Disk!PopLru(k), UNCHANGED user PROVE Disk!DiskInv'
  <2>1. k \in Keys
    BY DEF Disk!Indexed
  <2>2. /\ index' \in Tables /\ files' \in Disks /\ Told(index', files')
        /\ Load(index') <= Load(index) /\ \A j \in Keys : index'[j] # None => index[j] # None
    BY <1>4, <2>1, PopIs
  <2>3. user' = user
    BY <1>4
  <2>4. Serving(user') /\ capacity' \in Capacities /\ now' \in 0 .. MaxNow
        /\ UNCHANGED <<inFlight, writer, maxEntries, stores>>
    BY <1>1, <1>2, <2>3 DEF Disk!ambient
  <2> QED
    BY <2>2, <2>4, IndexGoes
<1> QED
  BY <1>3, <1>4 DEF Disk!Enforce

LEMMA TickKeeps == ASSUME Given, Disk!Tick PROVE Disk!DiskInv'
<1> DEFINE index == v1  files == v2  capacity == v3  inFlight == v4  maxEntries == v5
           writer == v6  user == v7  now == v8  stores == v9
<1>1. Serving(user) /\ capacity \in Capacities /\ now \in 0 .. MaxNow
      /\ index \in Tables /\ files \in Disks /\ Told(index, files) /\ Load(index) \in Nat
  BY Parts
<1>2. now < MaxNow /\ now' = now + 1
      /\ UNCHANGED <<Disk!books, capacity, inFlight, writer, user, maxEntries, stores>>
  BY DEF Disk!Tick
<1>3. index' = index /\ files' = files /\ user' = user
  BY <1>2 DEF Disk!books
<1>4. now' \in 0 .. MaxNow /\ capacity' \in Capacities
      /\ UNCHANGED <<inFlight, writer, maxEntries, stores>>
  BY <1>1, <1>2 DEF Given, Assumed, Disk!TimeAssumption
<1>5. Load(index') <= Load(index)
  BY <1>1, <1>3
<1> QED
  BY <1>1, <1>3, <1>4, <1>5, IndexGoes

LEMMA RestKeeps == ASSUME Given, UNCHANGED Disk!vars PROVE Disk!DiskInv'
<1> DEFINE index == v1  files == v2  capacity == v3  inFlight == v4  maxEntries == v5
           writer == v6  user == v7  now == v8  stores == v9
<1>1. Serving(user) /\ capacity \in Capacities /\ now \in 0 .. MaxNow
      /\ index \in Tables /\ files \in Disks /\ Told(index, files) /\ Load(index) \in Nat
  BY Parts
<1>2. UNCHANGED <<index, files, capacity, inFlight, writer, user, maxEntries, now, stores>>
  BY DEF Disk!vars, Disk!books, Disk!ambient
<1>3. index' = index /\ files' = files /\ user' = user /\ now' = now /\ capacity' = capacity
      /\ UNCHANGED <<inFlight, writer, maxEntries, stores>>
  BY <1>2
<1>4. Load(index') <= Load(index)
  BY <1>1, <1>3
<1> QED
  BY <1>1, <1>3, <1>4, IndexGoes


-----------------------------------------------------------------------------
\* The scan of a start.

\* The files of D have been read: what is left of them is in the index, and whatever was fresh
\* among them has its key in the index, unless that is full.
Names == Keys \X BOOLEAN
Scans == [index : Tables, files : Disks, cap : Nat]
Count(t) == Disk!Cardinality({k \in Keys : t[k] # None})
Backed(s, D) ==
    \A k \in Keys : s.index[k] # None =>
        LET f == <<k, s.index[k].validators>>
        IN  f \in D /\ s.files[f] # None /\ s.files[f].ver = s.index[k].ver /\ s.files[f].size
          = s.index[k].size
Noted(s, D) == \A f \in D : s.files[f] # None => s.index[f[1]] # None
    /\ s.index[f[1]].validators = f[2]
ScanOK(s, disk, cap, D) ==
    /\ s \in Scans /\ s.cap = cap
    /\ \A f \in Names : s.files[f] # None => s.files[f] = disk[f]
    /\ \A f \in Names \ D : s.files[f] = disk[f]
    /\ Backed(s, D) /\ Noted(s, D)
    /\ Count(s.index) <= cap
    /\ (\A f \in D : disk[f].expires > v8 => s.index[f[1]] # None) \/ Count(s.index) >= cap

\* What one file does: it goes, or it comes into the index.
Leaves(s, f, t) ==
    /\ s.files[f].expires <= v8 \/ Count(s.index) >= s.cap \/ s.index[f[1]] # None
    /\ t = [s EXCEPT !.files = [s.files EXCEPT ![f] = None]]
Enters(s, k, v, t) ==
    \E new \in Disk!Entry :
      /\ new.ver = s.files[<<k, v>>].ver /\ new.size = s.files[<<k, v>>].size /\ new.validators
           = v
      /\ \/ /\ s.index[k] = None /\ Count(s.index) < s.cap
            /\ t = [s EXCEPT !.index = [s.index EXCEPT ![k] = new]]
         \/ /\ s.index[k] # None
            /\ t = [s EXCEPT !.index = [s.index EXCEPT ![k] = new], !.files
                 = [s.files EXCEPT ![<<k, ~v>>] = None]]

LEMMA ScanFileIs ==
    ASSUME Assumed, v8 \in Nat, NEW s \in Scans, NEW k \in Keys, NEW v \in BOOLEAN,
             s.files[<<k, v>>] # None
    PROVE  Leaves(s, <<k, v>>, Disk!ScanFile(s, <<k, v>>))
           \/ Enters(s, k, v, Disk!ScanFile(s, <<k, v>>))
<1> DEFINE now == v8
<1> DEFINE f == <<k, v>>  g == <<k, ~v>>
           old == s.files[f]  cl == Disk!Classify(old, v)  new == Disk!EntryOf(cl, v)
           without == [s.files EXCEPT ![f] = None]
<1>1. f \in Names /\ f[1] = k /\ f[2] = v
  BY DEF Names
<1>2. old \in Disk!File
  BY <1>1 DEF Scans, Disks, Names
<1>3. cl \in Disk!File /\ cl.ver = old.ver /\ cl.size = old.size
      /\ (cl.expires <= now => old.expires <= now)
  BY <1>2 DEF Disk!Classify, Disk!File
<1> HIDE DEF cl
<1>4. new \in Disk!Entry /\ new.ver = old.ver /\ new.size = old.size /\ new.validators = v
      /\ new.expires = cl.expires
  BY <1>2, <1>3 DEF Disk!EntryOf, Disk!Entry, Disk!File
<1>5. Disk!Garbage(new) => old.expires <= now
  BY <1>3, <1>4 DEF Disk!Garbage
<1> DEFINE full == Count(s.index) >= s.cap
<1>6. ~full => Count(s.index) < s.cap
  <2>1. Disk!IsFiniteSet({x \in Keys : s.index[x] # None})
    <3>1. Disk!IsFiniteSet(Keys)
      BY Constants
    <3> QED
      BY <3>1, PartSize
  <2>2. Count(s.index) \in Nat /\ s.cap \in Nat
    BY <2>1, SizeIsNat DEF Count, Scans
  <2> QED
    BY <2>2
<1> DEFINE t == Disk!ScanFile(s, f)
<1>7. t = IF Disk!Garbage(new) \/ full THEN [s EXCEPT !.files[f] = None]
          ELSE IF s.index[k] = None THEN [s EXCEPT !.index[k] = new]
          ELSE IF s.index[k].expires > new.expires THEN [s EXCEPT !.files[f] = None]
          ELSE [s EXCEPT !.index[k] = new, !.files[<<k, ~v>>] = None]
  BY <1>1 DEF Disk!ScanFile, cl, Count
<1>8. [s EXCEPT !.files[f] = None] = [s EXCEPT !.files = without]
  OBVIOUS
<1>9. [s EXCEPT !.index[k] = new] = [s EXCEPT !.index = [s.index EXCEPT ![k] = new]]
  OBVIOUS
<1>10. [s EXCEPT !.index[k] = new, !.files[<<k, ~v>>] = None]
       = [s EXCEPT !.index = [s.index EXCEPT ![k] = new], !.files = [s.files EXCEPT ![g] = None]]
  BY DEF Scans
<1> DEFINE T1 == [s EXCEPT !.files = without]
           T2 == [s EXCEPT !.index = [s.index EXCEPT ![k] = new]]
           T3 == [s EXCEPT !.index = [s.index EXCEPT ![k] = new], !.files
             = [s.files EXCEPT ![g] = None]]
<1>12. t = IF Disk!Garbage(new) \/ full THEN T1
          ELSE IF s.index[k] = None THEN T2
          ELSE IF s.index[k].expires > new.expires THEN T1
          ELSE T3
  BY <1>7, <1>8, <1>9, <1>10
<1> HIDE DEF T1, T2, T3, new, t, full
<1>13. \/ (old.expires <= now \/ full \/ s.index[k] # None) /\ t = T1
       \/ s.index[k] = None /\ ~full /\ t = T2
       \/ s.index[k] # None /\ t = T3
  BY Zenon, <1>5, <1>12
<1>14. ASSUME old.expires <= now \/ full \/ s.index[k] # None, t = T1 PROVE Leaves(s, f, t)
  BY Zenon, <1>1, <1>14 DEF Leaves, T1, full
<1>15. ASSUME \/ s.index[k] = None /\ ~full /\ t = T2
              \/ s.index[k] # None /\ t = T3
      PROVE  Enters(s, k, v, t)
  BY Zenon, <1>4, <1>6, <1>15 DEF Enters, T2, T3, full
<1> QED
  BY <1>13, <1>14, <1>15, Zenon DEF t

LEMMA CountIs ==
    ASSUME Assumed, NEW t, NEW u, \A k \in Keys : t[k] # None => u[k] # None
    PROVE  Count(t) \in Nat /\ Count(u) \in Nat /\ Count(t) <= Count(u)
BY Zenon, FewerEntries DEF Count

\* One more key.
LEMMA CountNext ==
    ASSUME Assumed, NEW t, NEW u, NEW k \in Keys, t[k] = None, \A j \in Keys \ {k} : u[j] = t[j]
    PROVE  Count(u) <= Count(t) + 1
<1> DEFINE A == {j \in Keys : t[j] # None}  B == {j \in Keys : u[j] # None}
<1>1. B \subseteq A \cup {k} /\ k \notin A /\ A \subseteq Keys
  OBVIOUS
<1>2. Disk!IsFiniteSet(Keys)
  BY Constants
<1> HIDE DEF A, B
<1>3. Disk!IsFiniteSet(A)
  BY <1>1, <1>2, PartSize
<1>4. Disk!IsFiniteSet(A \cup {k}) /\ Disk!Cardinality(A \cup {k}) = Disk!Cardinality(A) + 1
  BY <1>1, <1>3, OneMoreSize
<1>5. Disk!Cardinality(B) <= Disk!Cardinality(A \cup {k})
  BY <1>1, <1>4, PartSize
<1> QED
  BY <1>4, <1>5 DEF Count, A, B

\* A file that is removed, or one that comes for a key that has one already.
LEMMA ScanGone ==
    ASSUME Assumed, v8 \in Nat, NEW disk, NEW cap \in Nat, NEW D \in SUBSET Names, NEW s,
             ScanOK(s, disk, cap, D),
           NEW f \in Names, f \notin D, s.files[f] # None,
           NEW t, Leaves(s, f, t)
    PROVE  ScanOK(t, disk, cap, D \cup {f})
<1> DEFINE now == v8
<1> DEFINE E == D \cup {f}
<1>1. s \in Scans /\ s.cap = cap
  BY DEF ScanOK
<1>1a. /\ s.files[f].expires <= now \/ Count(s.index) >= s.cap \/ s.index[f[1]] # None
       /\ t = [s EXCEPT !.files = [s.files EXCEPT ![f] = None]]
  BY DEF Leaves
<1>2. t \in Scans /\ t.cap = cap /\ t.index = s.index
      /\ \A g \in Names : t.files[g] = IF g = f THEN None ELSE s.files[g]
  BY <1>1, <1>1a DEF Scans, Disks, Names
<1>3. s.files[f] = disk[f]
  BY DEF ScanOK
<1>4. \A g \in Names : t.files[g] # None => t.files[g] = disk[g]
  BY <1>2 DEF ScanOK
<1>5. \A g \in Names \ E : t.files[g] = disk[g]
  BY <1>2 DEF ScanOK
<1>6. Backed(t, E)
  <2> SUFFICES ASSUME NEW k \in Keys, t.index[k] # None, NEW g, g = <<k, t.index[k].validators>>
               PROVE  g \in E /\ t.files[g] # None /\ t.files[g].ver = t.index[k].ver
                      /\ t.files[g].size = t.index[k].size
    BY DEF Backed
  <2>1. g \in D /\ s.files[g] # None /\ s.files[g].ver = s.index[k].ver /\ s.files[g].size
          = s.index[k].size
    BY <1>2 DEF ScanOK, Backed
  <2>2. t.files[g] = s.files[g]
    BY <1>2, <2>1
  <2> QED
    BY <1>2, <2>1, <2>2
<1>7. Noted(t, E)
  BY <1>2 DEF ScanOK, Noted
<1>8. Count(t.index) <= cap
  BY <1>2 DEF ScanOK
<1>9. (\A g \in E : disk[g].expires > now => t.index[g[1]] # None) \/ Count(t.index) >= cap
  <2>1. (\A g \in D : disk[g].expires > now => s.index[g[1]] # None) \/ Count(s.index) >= cap
    BY DEF ScanOK
  <2>2. s.files[f] \in Disk!File
    BY <1>1 DEF Scans, Disks, Names
  <2>3. disk[f].expires > now => s.index[f[1]] # None \/ Count(s.index) >= cap
    BY <1>1, <1>1a, <1>3, <2>2 DEF Disk!File
  <2> QED
    BY <1>2, <2>1, <2>3
<1> QED
  BY <1>2, <1>4, <1>5, <1>6, <1>7, <1>8, <1>9 DEF ScanOK

\* A file that comes into the index, in the place of the one of its key with the other name.
LEMMA ScanNew ==
    ASSUME Assumed, NEW disk, NEW cap \in Nat, NEW D \in SUBSET Names, NEW s,
             ScanOK(s, disk, cap, D),
           NEW k \in Keys, NEW v \in BOOLEAN, NEW f, f = <<k, v>>, f \notin D, s.files[f] # None,
           NEW t, Enters(s, k, v, t)
    PROVE  ScanOK(t, disk, cap, D \cup {f})
<1> DEFINE now == v8
<1> DEFINE E == D \cup {f}  g == <<k, ~v>>
<1>a. PICK new \in Disk!Entry :
      /\ new.ver = s.files[<<k, v>>].ver /\ new.size = s.files[<<k, v>>].size /\ new.validators
           = v
      /\ \/ /\ s.index[k] = None /\ Count(s.index) < s.cap
            /\ t = [s EXCEPT !.index = [s.index EXCEPT ![k] = new]]
         \/ /\ s.index[k] # None
            /\ t = [s EXCEPT !.index = [s.index EXCEPT ![k] = new], !.files
                 = [s.files EXCEPT ![g] = None]]
  BY Zenon DEF Enters
<1>b. new.ver = s.files[f].ver /\ new.size = s.files[f].size /\ new.validators = v
  BY Zenon, <1>a
<1>c. \/ /\ s.index[k] = None /\ Count(s.index) < s.cap
         /\ t = [s EXCEPT !.index = [s.index EXCEPT ![k] = new]]
      \/ /\ s.index[k] # None
         /\ t = [s EXCEPT !.index = [s.index EXCEPT ![k] = new], !.files
              = [s.files EXCEPT ![g] = None]]
  BY Zenon, <1>a
<1>0. f \in Names /\ g \in Names /\ f # g /\ new # None
      /\ \A h \in Names : h[1] = k => h = f \/ h = g
  <2>1. f \in Names /\ g \in Names /\ f # g
    BY DEF Names
  <2>2. new # None
    BY DEF Assumed, Disk!TierAssumption
  <2>3. ASSUME NEW h \in Names, h[1] = k PROVE h = f \/ h = g
    <3>1. PICK j \in Keys, x \in BOOLEAN : h = <<j, x>>
      BY DEF Names
    <3>2. j = k /\ (x = v \/ x = ~v)
      BY <2>3, <3>1
    <3> QED
      BY <3>1, <3>2
  <2> QED
    BY <2>1, <2>2, <2>3
<1>1. s \in Scans /\ s.cap = cap
  BY DEF ScanOK
<1>2. t \in Scans /\ t.cap = cap
      /\ \A j \in Keys : t.index[j] = IF j = k THEN new ELSE s.index[j]
  <2> DEFINE ix == [s.index EXCEPT ![k] = new]  fs == [s.files EXCEPT ![g] = None]
  <2>1. ix \in Tables /\ \A j \in Keys : ix[j] = IF j = k THEN new ELSE s.index[j]
    BY <1>1 DEF Scans, Tables
  <2>2. fs \in Disks
    BY <1>1 DEF Scans, Disks
  <2> HIDE DEF ix, fs
  <2>3. t = [s EXCEPT !.index = ix] \/ t = [s EXCEPT !.index = ix, !.files = fs]
    BY <1>c DEF ix, fs
  <2>4. t \in Scans /\ t.cap = cap /\ t.index = ix
    BY <1>1, <2>1, <2>2, <2>3 DEF Scans
  <2> QED
    BY <2>1, <2>4
<1>3. \A h \in Names : t.files[h] = IF h = g /\ s.index[k] # None THEN None ELSE s.files[h]
  <2> DEFINE ix == [s.index EXCEPT ![k] = new]  fs == [s.files EXCEPT ![g] = None]
  <2>1. \A h \in Names : fs[h] = IF h = g THEN None ELSE s.files[h]
    BY <1>1 DEF Scans, Disks, Names
  <2> HIDE DEF ix, fs
  <2>2. \/ s.index[k] = None /\ t = [s EXCEPT !.index = ix]
        \/ s.index[k] # None /\ t = [s EXCEPT !.index = ix, !.files = fs]
    BY <1>c DEF ix, fs
  <2>3. \/ s.index[k] = None /\ t.files = s.files
        \/ s.index[k] # None /\ t.files = fs
    BY <1>1, <2>2 DEF Scans
  <2> QED
    BY <2>1, <2>3
<1>3a. t.files[f] = s.files[f]
  BY <1>0, <1>3
<1>3b. s.index[k] # None => g \in D
  <2> SUFFICES ASSUME s.index[k] # None PROVE g \in D
    OBVIOUS
  <2>1. s.index[k] \in Disk!Entry
    BY <1>1 DEF Scans, Tables
  <2>2. <<k, s.index[k].validators>> \in D
    BY DEF ScanOK, Backed
  <2>3. s.index[k].validators \in BOOLEAN
    BY <2>1 DEF Disk!Entry
  <2> QED
    BY <2>2, <2>3
<1>4. \A h \in Names : t.files[h] # None => t.files[h] = disk[h]
  BY <1>3 DEF ScanOK
<1>5. \A h \in Names \ E : t.files[h] = disk[h]
  BY <1>3, <1>3b DEF ScanOK
<1>6. Backed(t, E)
  <2> SUFFICES ASSUME NEW j \in Keys, t.index[j] # None, NEW h, h = <<j, t.index[j].validators>>
               PROVE  h \in E /\ t.files[h] # None /\ t.files[h].ver = t.index[j].ver
                      /\ t.files[h].size = t.index[j].size
    BY DEF Backed
  <2>1. CASE j = k
    <3>1. t.index[j] = new /\ h = f
      BY <1>b, <1>2, <2>1
    <3> QED
      BY <1>3a, <1>b, <3>1
  <2>2. CASE j # k
    <3>1. t.index[j] = s.index[j]
      BY <1>2, <2>2
    <3>2. h \in D /\ s.files[h] # None /\ s.files[h].ver = s.index[j].ver /\ s.files[h].size
            = s.index[j].size
      BY <3>1 DEF ScanOK, Backed
    <3>3. h # g
      BY <2>2
    <3>4. t.files[h] = s.files[h]
      BY <1>3, <3>2, <3>3
    <3> QED
      BY <3>1, <3>2, <3>4
  <2> QED
    BY <2>1, <2>2
<1>7. Noted(t, E)
  <2> SUFFICES ASSUME NEW h \in E, t.files[h] # None
               PROVE  t.index[h[1]] # None /\ t.index[h[1]].validators = h[2]
    BY DEF Noted
  <2>0. h \in Names /\ h[1] \in Keys
    BY <1>0 DEF Names
  <2>1. CASE h = f
    BY <1>0, <1>b, <1>2, <2>1
  <2>2. CASE h \in D /\ h[1] # k
    <3>1. t.index[h[1]] = s.index[h[1]] /\ t.files[h] = s.files[h]
      BY <1>2, <1>3, <2>0, <2>2
    <3> QED
      BY <2>2, <3>1 DEF ScanOK, Noted
  <2>3. CASE h \in D /\ h[1] = k
    <3>1. h = g
      BY <1>0, <2>0, <2>3
    <3>2. s.index[k] = None /\ t.files[h] = s.files[h]
      BY <1>3, <2>0, <3>1
    <3>3. s.index[k] # None
      BY <2>3, <3>2 DEF ScanOK, Noted
    <3> QED
      BY <3>2, <3>3
  <2> QED
    BY <2>1, <2>2, <2>3
<1>8. Count(s.index) \in Nat /\ Count(t.index) \in Nat /\ Count(s.index) <= Count(t.index)
  <2>1. \A j \in Keys : s.index[j] # None => t.index[j] # None
    BY <1>0, <1>2
  <2> QED
    BY <2>1, CountIs
<1>9. Count(t.index) <= cap
  <2>1. CASE s.index[k] = None
    <3>1. \A j \in Keys \ {k} : t.index[j] = s.index[j]
      BY Zenon, <1>2
    <3>2. Count(t.index) <= Count(s.index) + 1
      BY <2>1, <3>1, CountNext
    <3> QED
      BY <1>1, <1>8, <1>c, <2>1, <3>2
  <2>2. CASE s.index[k] # None
    <3>1. \A j \in Keys : t.index[j] # None => s.index[j] # None
      BY <1>2, <2>2
    <3>2. Count(t.index) <= Count(s.index)
      BY <3>1, CountIs
    <3>3. Count(s.index) <= cap
      BY DEF ScanOK
    <3> QED
      BY <1>8, <3>2, <3>3
  <2> QED
    BY <2>1, <2>2
<1>10. (\A h \in E : disk[h].expires > now => t.index[h[1]] # None) \/ Count(t.index) >= cap
  <2>1. (\A h \in D : disk[h].expires > now => s.index[h[1]] # None) \/ Count(s.index) >= cap
    BY DEF ScanOK
  <2>2. t.index[f[1]] # None /\ \A h \in D : s.index[h[1]] # None => t.index[h[1]] # None
    <3>1. \A h \in D : h[1] \in Keys
      BY DEF Names
    <3> QED
      BY <1>0, <1>2, <3>1
  <2> QED
    BY <1>8, <2>1, <2>2
<1> QED
  BY <1>2, <1>4, <1>5, <1>6, <1>7, <1>9, <1>10 DEF ScanOK

LEMMA ScanStep ==
    ASSUME Assumed, v8 \in Nat, NEW disk, NEW cap \in Nat, NEW D \in SUBSET Names, NEW s,
             ScanOK(s, disk, cap, D),
           NEW f \in Names, f \notin D, disk[f] # None
    PROVE  ScanOK(Disk!ScanFile(s, f), disk, cap, D \cup {f})
<1>1. PICK k \in Keys, v \in BOOLEAN : f = <<k, v>>
  BY DEF Names
<1>2. s \in Scans /\ s.files[f] # None /\ f[1] = k
  BY <1>1 DEF ScanOK
<1> DEFINE t == Disk!ScanFile(s, f)
<1>3. Leaves(s, f, t) \/ Enters(s, k, v, t)
  BY Zenon, <1>1, <1>2, ScanFileIs
<1> HIDE DEF t
<1>4. ASSUME Leaves(s, f, t) PROVE ScanOK(t, disk, cap, D \cup {f})
  BY Zenon, <1>2, <1>4, ScanGone
<1>5. ASSUME Enters(s, k, v, t) PROVE ScanOK(t, disk, cap, D \cup {f})
  BY <1>1, <1>2, <1>5, ScanNew
<1> QED
  BY Zenon, <1>3, <1>4, <1>5 DEF t

\* The recursive function of the scan is there for an order of any length.
ScanBy(f, start, order, n) ==
    f = [i \in 0 .. n |-> IF i = 0 THEN start ELSE Disk!ScanFile(f[i - 1], order[i])]
LEMMA ScanDefined ==
    ASSUME NEW start, NEW order, NEW n \in Nat
    PROVE  \E f : ScanBy(f, start, order, n)
<1> DEFINE T == {m \in Nat : ~ \E f : ScanBy(f, start, order, m)}
<1>1. SUFFICES ASSUME T # {} PROVE FALSE
  OBVIOUS
<1>2. PICK m \in T : \A y \in T : m <= y
  <2>1. T \in SUBSET Nat
    OBVIOUS
  <2> HIDE DEF T
  <2> QED
    BY <1>1, <2>1, LeastNat
<1>3. m \in Nat /\ \A f : ~ ScanBy(f, start, order, m)
  OBVIOUS
<1>4. CASE m = 0
  <2> DEFINE f == [i \in 0 .. 0 |-> start]
  <2>1. ScanBy(f, start, order, 0)
    BY DEF ScanBy
  <2> QED
    BY <1>3, <1>4, <2>1
<1>5. CASE m # 0
  <2>1. m - 1 \in Nat /\ m - 1 \notin T
    BY <1>2, <1>3, <1>5
  <2>2. PICK g : ScanBy(g, start, order, m - 1)
    BY <2>1
  <2> DEFINE h == [i \in 0 .. m |-> IF i = 0 THEN start ELSE Disk!ScanFile(g[i - 1], order[i])]
  <2>3. \A i \in 0 .. m - 1 : g[i] = IF i = 0 THEN start ELSE Disk!ScanFile(g[i - 1], order[i])
    BY <2>2 DEF ScanBy
  <2>4. \A i \in 0 .. m - 1 : h[i] = g[i]
    BY <1>3, <2>3
  <2>5. \A i \in 0 .. m : h[i] = IF i = 0 THEN start ELSE Disk!ScanFile(g[i - 1], order[i])
    OBVIOUS
  <2>6. \A i \in 0 .. m : i # 0 => h[i - 1] = g[i - 1]
    BY <1>3, <2>4
  <2>7. h = [i \in 0 .. m |-> h[i]]
    OBVIOUS
  <2> HIDE DEF h
  <2>8. \A i \in 0 .. m : h[i] = IF i = 0 THEN start ELSE Disk!ScanFile(h[i - 1], order[i])
    BY <2>5, <2>6
  <2>9. ScanBy(h, start, order, m)
    BY <2>7, <2>8 DEF ScanBy
  <2> QED
    BY <1>3, <2>9
<1> QED
  BY <1>4, <1>5

\* An order of a set has every element of it, and each once.
Lists(order, P) ==
    /\ Len(order) \in Nat
    /\ \A i \in 1 .. Len(order) : order[i] \in P
    /\ \A i, j \in 1 .. Len(order) : i # j => order[i] # order[j]
    /\ P = {order[i] : i \in 1 .. Len(order)}
LEMMA OrderIs ==
    ASSUME NEW P, Disk!IsFiniteSet(P), NEW order \in Disk!SetToSeqs(P)
    PROVE  Lists(order, P)
<1> DEFINE n == Disk!Cardinality(P)
<1>1. n \in Nat
  BY SizeIsNat
<1>2. order \in [1 .. n -> P] /\ \A i, j \in 1 .. n : i # j => order[i] # order[j]
  BY DEF Disk!SetToSeqs
<1>3. Len(order) = n
  <2>1. order \in Seq(P)
    BY <1>1, <1>2, SeqDef
  <2>2. DOMAIN order = 1 .. Len(order) /\ Len(order) \in Nat
    BY <2>1, LenProperties
  <2> HIDE DEF n
  <2> QED
    BY <1>1, <1>2, <2>2
<1>4. P = {order[i] : i \in 1 .. n}
  <2>1. order \in Injection(1 .. n, P)
    BY <1>2 DEF Injection, IsInjective
  <2>2. Disk!Cardinality(1 .. n) = n
    <3>1. 1 \in Int /\ n \in Int
      BY <1>1
    <3>2. Disk!Cardinality(1 .. n) = IF 1 > n THEN 0 ELSE n - 1 + 1
      BY <3>1, IntervalSize
    <3> HIDE DEF n
    <3> QED
      BY <1>1, <3>2
  <2>3. order \in Surjection(1 .. n, P)
    BY <2>1, <2>2, IntoSize
  <2> HIDE DEF n
  <2> QED
    BY <1>2, <2>3 DEF Surjection
<1> HIDE DEF n
<1> QED
  BY <1>1, <1>2, <1>3, <1>4 DEF Lists

LEMMA UnreadIs ==
    ASSUME Assumed, NEW disk \in Disks, NEW cap \in Nat
    PROVE  ScanOK(Disk!Unread(disk, cap), disk, cap, {})
<1> DEFINE t == [k \in Keys |-> None]
<1>1. t \in Tables /\ \A k \in Keys : t[k] = None
  BY DEF Tables
<1>2. Disk!Unread(disk, cap) = [index |-> t, files |-> disk, cap |-> cap]
  BY DEF Disk!Unread
<1>3. Count(t) = 0
  <2>1. {k \in Keys : t[k] # None} = {}
    OBVIOUS
  <2> QED
    BY <2>1, EmptySize DEF Count
<1> HIDE DEF t
<1>4. Disk!Unread(disk, cap) \in Scans
  BY <1>1, <1>2 DEF Scans
<1>5. Disk!Unread(disk, cap).index = t /\ Disk!Unread(disk, cap).files = disk
      /\ Disk!Unread(disk, cap).cap = cap
  BY <1>2
<1>6. Backed(Disk!Unread(disk, cap), {})
  BY <1>1, <1>5 DEF Backed
<1>7. Noted(Disk!Unread(disk, cap), {})
  BY DEF Noted
<1> QED
  BY <1>3, <1>4, <1>5, <1>6, <1>7 DEF ScanOK

LEMMA ScannedIs ==
    ASSUME Assumed, v8 \in Nat, NEW disk \in Disks, NEW cap \in Nat,
           NEW P, P = {f \in Names : disk[f] # None}, NEW order \in Disk!SetToSeqs(P)
    PROVE  ScanOK(Disk!Scanned(Disk!Unread(disk, cap), order), disk, cap, P)
<1> DEFINE start == Disk!Unread(disk, cap)  n == Len(order)
           scan == CHOOSE f : ScanBy(f, start, order, n)
           Read(i) == {order[j] : j \in 1 .. i}
<1>1. Disk!IsFiniteSet(P) /\ P \subseteq Names
  <2>1. Disk!IsFiniteSet(Keys)
    BY Constants
  <2>2. Disk!IsFiniteSet(BOOLEAN)
    <3>1. Disk!IsFiniteSet({TRUE} \cup {FALSE})
      BY OneSize, UnionSize
    <3>2. BOOLEAN = {TRUE} \cup {FALSE}
      OBVIOUS
    <3> QED
      BY <3>1, <3>2
  <2>3. Disk!IsFiniteSet(Names)
    BY <2>1, <2>2, ProductSize DEF Names
  <2> QED
    BY <2>3, PartSize
<1>2. /\ n \in Nat
      /\ \A i \in 1 .. n : order[i] \in P
      /\ \A i, j \in 1 .. n : i # j => order[i] # order[j]
      /\ P = Read(n)
  <2>1. Lists(order, P)
    BY <1>1, OrderIs
  <2> QED
    BY <2>1 DEF Lists
<1>3. Disk!Scanned(start, order) = scan[n]
  BY DEF Disk!Scanned, ScanBy
<1>4. ScanBy(scan, start, order, n)
  <2>1. \E f : ScanBy(f, start, order, n)
    BY <1>2, ScanDefined
  <2> QED
    BY <2>1
<1> HIDE DEF scan, n, start
<1>5. scan[0] = start /\ \A i \in 1 .. n : scan[i] = Disk!ScanFile(scan[i - 1], order[i])
  <2>1. \A i \in 0 .. n : scan[i] = IF i = 0 THEN start ELSE Disk!ScanFile(scan[i - 1], order[i])
    BY <1>4 DEF ScanBy
  <2> QED
    BY <1>2, <2>1
<1> DEFINE T == {i \in 0 .. n : ~ ScanOK(scan[i], disk, cap, Read(i))}
<1>6. T = {}
  <2>1. SUFFICES ASSUME T # {} PROVE FALSE
    OBVIOUS
  <2>2. T \in SUBSET Nat
    BY <1>2
  <2> HIDE DEF T
  <2>3. PICK i \in T : \A y \in T : i <= y
    BY <2>1, <2>2, LeastNat
  <2> USE DEF T
  <2>4. i \in 0 .. n /\ ~ ScanOK(scan[i], disk, cap, Read(i))
    OBVIOUS
  <2>5. CASE i = 0
    <3>1. Read(0) = {}
      OBVIOUS
    <3>2. ScanOK(scan[0], disk, cap, {})
      BY <1>5, UnreadIs DEF start
    <3> QED
      BY <2>4, <2>5, <3>1, <3>2
  <2>6. CASE i # 0
    <3>1. i \in 1 .. n /\ i - 1 \in 0 .. n /\ i - 1 \notin T
      <4> HIDE DEF T, Read
      <4>1. i \in 1 .. n /\ i - 1 \in 0 .. n /\ i - 1 < i
        BY <1>2, <2>4, <2>6
      <4> QED
        BY <1>2, <2>3, <4>1
    <3>2. ScanOK(scan[i - 1], disk, cap, Read(i - 1))
      BY <3>1
    <3>3. order[i] \in Names /\ disk[order[i]] # None
      BY <1>2, <3>1
    <3>4. order[i] \notin Read(i - 1)
      BY <1>2, <3>1
    <3>5. Read(i) = Read(i - 1) \cup {order[i]}
      BY <1>2, <3>1
    <3>6. Read(i - 1) \in SUBSET Names
      BY <1>1, <1>2, <3>1
    <3> HIDE DEF Read, T
    <3>7. ScanOK(Disk!ScanFile(scan[i - 1], order[i]), disk, cap, Read(i - 1) \cup {order[i]})
      BY <3>2, <3>3, <3>4, <3>6, ScanStep
    <3> QED
      BY <1>5, <2>4, <3>1, <3>5, <3>7
  <2> QED
    BY <2>5, <2>6
<1>7. n \in 0 .. n
  BY <1>2
<1>8. ScanOK(scan[n], disk, cap, Read(n))
  BY <1>6, <1>7
<1> QED
  BY <1>2, <1>3, <1>8 DEF start

\* What was read tells the same as the disk.
Found(disk) == {f \in Names : disk[f] # None}
LEMMA ReadTells ==
    ASSUME NEW s, NEW disk, NEW cap, ScanOK(s, disk, cap, Found(disk))
    PROVE  Told(s.index, s.files)
<1>1. ASSUME NEW k \in Keys, NEW v \in BOOLEAN
      PROVE  IF s.index[k] # None /\ s.index[k].validators = v
             THEN s.files[<<k, v>>] # None /\ s.files[<<k, v>>].ver = s.index[k].ver
                  /\ s.files[<<k, v>>].size = s.index[k].size
             ELSE s.files[<<k, v>>] = None
  <2> DEFINE f == <<k, v>>
  <2>1. f \in Names /\ f[1] = k /\ f[2] = v
    BY DEF Names
  <2>2. CASE s.index[k] # None /\ s.index[k].validators = v
    BY <2>2 DEF ScanOK, Backed
  <2>3. CASE ~ (s.index[k] # None /\ s.index[k].validators = v)
    <3>1. SUFFICES ASSUME s.files[f] # None PROVE FALSE
      BY <2>3
    <3>2. s.files[f] = disk[f]
      BY <2>1, <3>1 DEF ScanOK
    <3>3. f \in Found(disk)
      BY <2>1, <3>1, <3>2 DEF Found
    <3> QED
      BY <2>1, <2>3, <3>1, <3>3 DEF ScanOK, Noted
  <2> QED
    BY <2>2, <2>3
<1> QED
  BY ZenonT(30), <1>1 DEF Told

\* An entry of the index has a file of its size, and that was on the disk.
LEMMA ReadSizes ==
    ASSUME NEW s, NEW disk, NEW cap, ScanOK(s, disk, cap, Found(disk)), NEW k \in Keys,
             s.index[k] # None
    PROVE  \E v \in BOOLEAN : disk[<<k, v>>] # None /\ disk[<<k, v>>].size = s.index[k].size
<1> DEFINE v == s.index[k].validators  f == <<k, v>>
<1>1. v \in BOOLEAN
  <2>1. s.index \in Tables
    BY DEF ScanOK, Scans
  <2>2. s.index[k] \in Disk!Entry
    BY <2>1 DEF Tables
  <2> QED
    BY <2>2 DEF Disk!Entry
<1>2. s.files[f] # None /\ s.files[f].size = s.index[k].size
  BY DEF ScanOK, Backed
<1>3. f \in Names
  BY <1>1 DEF Names
<1>4. s.files[f] = disk[f]
  BY <1>2, <1>3 DEF ScanOK
<1> QED
  BY <1>1, <1>2, <1>4

\* What an earlier process leaves: its files, or with one more of a writer.
Leaving(w, disk) ==
    \E k \in Keys, meta \in Metas :
      /\ v6[w].pc = "write" /\ meta.validators \in BOOLEAN /\ Disk!NewFile(w, meta) \in Disk!File
      /\ \A f \in Names : disk[f] = IF f = <<k, meta.validators>> THEN Disk!NewFile(w, meta)
           ELSE v2[f]
LEMMA LeftIs ==
    ASSUME Given, NEW left \in Disk!Left
    PROVE  /\ left.files \in Disks /\ left.stores \in 0 .. MaxStores
           /\ left.files = v2 \/ \E w \in Writers : Leaving(w, left.files)
<1> DEFINE files == v2  writer == v6  stores == v9
<1>1. files \in Disks /\ stores \in 0 .. MaxStores
  BY Parts
<1>2. CASE left = [files |-> files, stores |-> stores]
  BY <1>1, <1>2
<1>3. ASSUME NEW w \in Writers, NEW k \in Keys, NEW meta \in Metas, Disk!At(w, "write"),
               stores < MaxStores,
             left = [files |-> Disk!Renamed(w, k, meta), stores |-> stores + 1]
      PROVE  left.files \in Disks /\ left.stores \in 0 .. MaxStores /\ Leaving(w, left.files)
  <2>1. meta.expires \in Nat /\ meta.validators \in BOOLEAN /\ MaxStores \in Nat
    BY DEF Given, Assumed, Disk!TimeAssumption
  <2>2. Disk!Renamed(w, k, meta) \in Disks
    BY <1>3, EnteredIs
  <2>3. \A f \in Names : Disk!Renamed(w, k, meta)[f] = IF f = <<k, meta.validators>>
          THEN Disk!NewFile(w, meta) ELSE files[f]
    BY <1>1, <2>1 DEF Disk!Renamed, Disks, Names
  <2>4. writer[w].pc = "write"
    BY <1>3 DEF Disk!At
  <2>5. left.files = Disk!Renamed(w, k, meta) /\ left.stores = stores + 1
    BY <1>3
  <2>6. left.stores \in 0 .. MaxStores
    BY <1>1, <1>3, <2>1, <2>5
  <2>7. Disk!NewFile(w, meta) \in Disk!File
    <3>1. writer[w].written \in Nat
      BY WriterIs DEF Disk!WriterStates
    <3> QED
      BY <2>1, <2>5, <2>6, <3>1 DEF Disk!NewFile, Disk!File
  <2>8. Leaving(w, left.files)
    BY <2>1, <2>3, <2>4, <2>5, <2>7 DEF Leaving
  <2> QED
    BY <2>2, <2>5, <2>6, <2>8
<1> QED
  BY <1>2, <1>3 DEF Disk!Left

\* The tables of the new process.
LEMMA RestartIs ==
    ASSUME Given, Disk!Restart
    PROVE  \E disk \in Disks, cap \in EntryCaps, s \in Scans :
             /\ disk = v2 \/ \E w \in Writers : Leaving(w, disk)
             /\ ScanOK(s, disk, cap, Found(disk))
             /\ v1' = s.index /\ v2' = s.files /\ v5' = cap /\ v9' \in 0 .. MaxStores
<1> DEFINE index == v1  files == v2  maxEntries == v5  now == v8  stores == v9
<1>1. PICK left \in Disk!Left, cap \in EntryCaps :
        \E order \in Disk!SetToSeqs({f \in Keys \X BOOLEAN : left.files[f] # None}) :
          LET scanned == Disk!Scanned(Disk!Unread(left.files, cap), order)
          IN index' = scanned.index /\ files' = scanned.files /\ maxEntries' = cap
             /\ stores' = left.stores
  BY Zenon DEF Disk!Restart
<1> DEFINE disk == left.files
<1>2. PICK order \in Disk!SetToSeqs(Found(disk)) :
          /\ index' = Disk!Scanned(Disk!Unread(disk, cap), order).index
          /\ files' = Disk!Scanned(Disk!Unread(disk, cap), order).files
          /\ maxEntries' = cap /\ stores' = left.stores
  BY Zenon, <1>1 DEF Found, Names
<1> DEFINE s == Disk!Scanned(Disk!Unread(disk, cap), order)
<1>3. /\ disk \in Disks /\ left.stores \in 0 .. MaxStores
      /\ disk = files \/ \E w \in Writers : Leaving(w, disk)
  BY LeftIs
<1>4. Assumed /\ now \in Nat /\ cap \in Nat
  <2>1. now \in 0 .. MaxNow
    BY Parts
  <2> QED
    BY <2>1 DEF Given, Assumed, Disk!TimeAssumption, Disk!SizeAssumption
<1> HIDE DEF disk
<1>5. ScanOK(s, disk, cap, Found(disk))
  BY <1>3, <1>4, ScannedIs DEF Found
<1> HIDE DEF s
<1>6. index' = s.index /\ files' = s.files /\ maxEntries' = cap /\ stores' \in 0 .. MaxStores
  BY Zenon, <1>2, <1>3 DEF s
<1>7. s \in Scans
  BY Zenon, <1>5 DEF ScanOK
<1> QED
  BY Zenon, <1>3, <1>5, <1>6, <1>7

\* Nobody holds anything.
LEMMA NoneHolds ==
    ASSUME Assumed, NEW sr, sr = [w \in Writers |-> Disk!NewWriter]
    PROVE  Asking(sr) /\ Rooms(sr) = 0 /\ Held(sr, {}) = 0 /\ Looks(sr) = {}
<1>1. Disk!IsFiniteSet(Writers) /\ Disk!Cardinality(Writers) \in Nat /\ MaxObject \in Nat
      /\ Disk!Body \in Nat
  BY Constants DEF Assumed, Disk!SizeAssumption
<1>2. Disk!NewWriter \in Disk!WriterStates /\ Disk!NewWriter.pc = "idle" /\ Disk!NewWriter.room
        = 0 /\ Disk!NewWriter.written = 0
      /\ Disk!NewWriter.limit = 0
  BY DEF Disk!NewWriter, Disk!WriterStates
<1>3. Disk!AsksWithin(Disk!NewWriter) /\ Disk!Pledge(Disk!NewWriter) = 0
  BY <1>1, <1>2 DEF Disk!AsksWithin, Disk!Pledge
<1> HIDE DEF Disk!NewWriter
<1>4. Asking(sr)
  BY <1>2, <1>3 DEF Asking
<1>5. Looks(sr) = {}
  BY <1>2 DEF Looks
<1>6. Rooms(sr) = Disk!Cardinality(Writers) * 0
  <2> DEFINE f == [w \in Writers |-> sr[w].room]
  <2>1. \A w \in Writers : f[w] = 0
    BY <1>2
  <2> HIDE DEF f
  <2>2. Disk!Total(f, Writers) = Disk!Cardinality(Writers) * 0
    BY <1>1, <2>1, TotalEven
  <2> QED
    BY <2>2 DEF Rooms, f
<1>7. Held(sr, {}) = Disk!Cardinality(Writers) * 0
  <2> DEFINE f == [w \in Writers |-> IF w \in {} THEN Disk!Body ELSE Disk!Pledge(sr[w])]
  <2>1. \A w \in Writers : f[w] = 0
    BY <1>3
  <2> HIDE DEF f
  <2>2. Disk!Total(f, Writers) = Disk!Cardinality(Writers) * 0
    BY <1>1, <2>1, TotalEven
  <2> QED
    BY <2>2 DEF Held, f
<1> QED
  BY <1>1, <1>4, <1>5, <1>6, <1>7

LEMMA HeldPart ==
    ASSUME Assumed, NEW wr, Asking(wr), NEW w \in Writers
    PROVE  Disk!Pledge(wr[w]) <= Held(wr, {}) /\ Disk!Pledge(wr[w]) \in Nat
           /\ Held(wr, {}) \in Nat
<1> DEFINE f == [x \in Writers |-> IF x \in {} THEN Disk!Body ELSE Disk!Pledge(wr[x])]
<1>1. Disk!IsFiniteSet(Writers)
  BY Constants
<1>2. \A x \in Writers : f[x] = Disk!Pledge(wr[x]) /\ f[x] \in Nat
  <2> SUFFICES ASSUME NEW x \in Writers PROVE Disk!Pledge(wr[x]) \in Nat
    OBVIOUS
  <2>1. wr[x] \in Disk!WriterStates /\ Disk!AsksWithin(wr[x])
    BY DEF Asking
  <2> QED
    BY <2>1, PledgeFits
<1> HIDE DEF f
<1>3. Disk!Total(f, Writers) \in Nat /\ f[w] <= Disk!Total(f, Writers)
  BY <1>1, <1>2, TotalNat, TotalPart
<1> QED
  BY <1>2, <1>3 DEF Held, f

LEMMA LoadLess ==
    ASSUME Assumed, NEW t \in Tables, NEW u \in Tables,
           \A k \in Keys : u[k] # None => t[k] # None /\ u[k].size = t[k].size
    PROVE  Load(u) <= Load(t)
<1>1. Load(t) \in Nat /\ Load(u) \in Nat
  BY LoadNat
<1>2. CASE Keys = {}
  <2>1. t = u
    BY <1>2 DEF Tables
  <2> QED
    BY <1>1, <2>1
<1>3. CASE Keys # {}
  <2>1. PICK j \in Keys : TRUE
    BY <1>3
  <2>2. 0 \in Nat
    OBVIOUS
  <2>3. Load(u) <= Load(t) + 0
    BY <2>1, <2>2, LoadGrows
  <2> QED
    BY <1>1, <2>3
<1> QED
  BY <1>2, <1>3

\* The index of the new process takes no more than the old one and its writers held.
LEMMA RestartLoad ==
    ASSUME Given, NEW disk \in Disks, NEW cap, NEW s, ScanOK(s, disk, cap, Found(disk)),
           disk = v2 \/ \E w \in Writers : Leaving(w, disk)
    PROVE  s.index \in Tables /\ Load(s.index) <= Load(v1) + Held(v6, {})
<1> DEFINE index == v1  files == v2  writer == v6
<1>1. /\ index \in Tables /\ Told(index, files) /\ Asking(writer) /\ Load(index) \in Nat
  BY Parts
<1>2. s.index \in Tables
  BY DEF ScanOK, Scans
<1>3. Load(s.index) \in Nat /\ Held(writer, {}) \in Nat /\ Assumed
  BY <1>1, <1>2, LoadNat, HeldNat DEF Given
<1>4. ASSUME NEW k \in Keys, NEW v \in BOOLEAN, files[<<k, v>>] # None
      PROVE  index[k] # None /\ files[<<k, v>>].size = index[k].size
  BY ZenonT(30), <1>1, <1>4 DEF Told
<1>5. ASSUME disk = files PROVE Load(s.index) <= Load(index)
  <2>1. ASSUME NEW k \in Keys, s.index[k] # None PROVE index[k] # None /\ s.index[k].size
                 = index[k].size
    <3>1. PICK v \in BOOLEAN : disk[<<k, v>>] # None /\ disk[<<k, v>>].size = s.index[k].size
      BY <2>1, ReadSizes
    <3> QED
      BY <1>4, <1>5, <3>1
  <2> QED
    BY <1>1, <1>2, <1>3, <2>1, LoadLess
<1>6. ASSUME NEW w \in Writers, Leaving(w, disk) PROVE Load(s.index)
               <= Load(index) + writer[w].written
  <2>1. PICK j \in Keys, meta \in Metas :
      /\ meta.validators \in BOOLEAN
      /\ \A f \in Names : disk[f] = IF f = <<j, meta.validators>> THEN Disk!NewFile(w, meta)
           ELSE files[f]
    BY <1>6 DEF Leaving
  <2>2. Disk!NewFile(w, meta).size = writer[w].written
    BY DEF Disk!NewFile
  <2>3. ASSUME NEW k \in Keys, s.index[k] # None
        PROVE  \/ index[k] # None /\ s.index[k].size = index[k].size
               \/ k = j /\ s.index[k].size = writer[w].written
    <3>1. PICK v \in BOOLEAN : disk[<<k, v>>] # None /\ disk[<<k, v>>].size = s.index[k].size
      BY <2>3, ReadSizes
    <3>2. <<k, v>> \in Names
      BY DEF Names
    <3>3. CASE <<k, v>> = <<j, meta.validators>>
      BY <2>1, <2>2, <3>1, <3>2, <3>3
    <3>4. CASE <<k, v>> # <<j, meta.validators>>
      <4>1. disk[<<k, v>>] = files[<<k, v>>]
        BY <2>1, <3>2, <3>4
      <4> QED
        BY <1>4, <3>1, <4>1
    <3> QED
      BY <3>3, <3>4
  <2>4. writer[w].written \in Nat
    BY <1>1 DEF Asking, Disk!WriterStates
  <2> QED
    BY <1>1, <1>2, <1>3, <2>3, <2>4, LoadGrows
<1>7. ASSUME NEW w \in Writers, Leaving(w, disk) PROVE writer[w].written <= Held(writer, {})
             /\ writer[w].written \in Nat
  <2>1. writer[w].pc = "write" /\ writer[w] \in Disk!WriterStates /\ Disk!AsksWithin(writer[w])
    BY <1>1, <1>7 DEF Leaving, Asking
  <2>2. Disk!Pledge(writer[w]) = writer[w].room /\ writer[w].written <= writer[w].room
    BY <2>1 DEF Disk!Pledge, Disk!AsksWithin
  <2>3. Disk!Pledge(writer[w]) <= Held(writer, {})
    BY <1>1, <1>3, HeldPart
  <2>4. writer[w].written \in Nat /\ writer[w].room \in Nat
    BY <2>1 DEF Disk!WriterStates
  <2> QED
    BY <1>3, <2>2, <2>3, <2>4
<1>8. CASE disk = files
  BY <1>1, <1>2, <1>3, <1>5, <1>8
<1>9. ASSUME NEW w \in Writers, Leaving(w, disk) PROVE Load(s.index)
               <= Load(index) + Held(writer, {})
  <2>1. writer[w].written <= Held(writer, {}) /\ writer[w].written \in Nat
    BY <1>7, <1>9
  <2>2. Load(s.index) <= Load(index) + writer[w].written
    BY <1>6, <1>9
  <2> QED
    BY <1>1, <1>3, <2>1, <2>2
<1> QED
  BY <1>2, <1>8, <1>9

LEMMA RestartKeeps == ASSUME Given, Disk!Restart PROVE Disk!DiskInv'
<1> DEFINE index == v1  files == v2  capacity == v3  inFlight == v4  maxEntries == v5
           writer == v6  user == v7  now == v8  stores == v9
<1>1. PICK disk \in Disks, cap \in EntryCaps, s \in Scans :
             /\ disk = files \/ \E w \in Writers : Leaving(w, disk)
             /\ ScanOK(s, disk, cap, Found(disk))
             /\ index' = s.index /\ files' = s.files /\ maxEntries' = cap
             /\ stores' \in 0 .. MaxStores
  BY Zenon, RestartIs
<1>2. /\ inFlight' = 0 /\ capacity' \in Capacities /\ now' = now
      /\ writer' = [w \in Writers |-> Disk!NewWriter] /\ user' = [u \in Users |-> Disk!NewUser]
  BY DEF Disk!Restart
<1>3. /\ Asking(writer) /\ Serving(user) /\ now \in 0 .. MaxNow /\ Load(index) \in Nat
      /\ RoomFor(Load(index), writer)
  BY Parts
<1>4. Asking(writer') /\ Rooms(writer') = 0 /\ Held(writer', {}) = 0 /\ Looks(writer') = {}
  BY <1>2, NoneHolds DEF Given
<1>5. s.index \in Tables /\ Load(s.index) <= Load(index) + Held(writer, {})
  BY <1>1, RestartLoad
<1>6. RoomFor(Load(s.index), writer')
  <2>1. Fits(Load(index), writer, {})
    BY <1>3 DEF RoomFor
  <2>2. Load(index) + Held(writer, {}) <= Bound
    BY <2>1 DEF Fits
  <2>3. Load(s.index) \in Nat /\ Held(writer, {}) \in Nat /\ Bound \in Int
    BY <1>3, <1>5, LoadNat, HeldNat, Constants DEF Given
  <2>4. Load(s.index) + Held(writer', {}) <= Bound
    <3> DEFINE h == Held(writer', {})  a == Load(s.index)  b == Load(index)  c == Held(writer, {})
    <3>1. h = 0 /\ a <= b + c /\ b + c <= Bound /\ a \in Nat /\ b \in Nat /\ c \in Nat
          /\ Bound \in Int
      BY <1>3, <1>4, <1>5, <2>2, <2>3
    <3> HIDE DEF h, a, b, c
    <3>2. a + h <= Bound
      BY <3>1
    <3> QED
      BY <3>2 DEF a, h
  <2>5. Fits(Load(s.index), writer', {})
    BY <2>4 DEF Fits
  <2> QED
    BY <1>4, <2>5 DEF RoomFor
<1>7. s.files \in Disks /\ Told(s.index, s.files)
  BY <1>1, ReadTells DEF ScanOK, Scans
<1>8. Serving(user')
  <2>1. MaxNow \in Nat
    BY DEF Given, Assumed, Disk!TimeAssumption
  <2>2. Disk!NewUser \in Disk!UserStates /\ Disk!KnowsEntry(Disk!NewUser)
    BY <2>1 DEF Disk!NewUser, Disk!UserStates, Disk!KnowsEntry
  <2> QED
    BY <1>2, <2>2 DEF Serving
<1>9. Disk!Cardinality({k \in Keys : index'[k] # None}) <= maxEntries'
  BY <1>1 DEF ScanOK, Count
<1>10. inFlight' = Rooms(writer') /\ inFlight' \in Nat
  BY <1>2, <1>4
<1> QED
  BY <1>1, <1>2, <1>3, <1>4, <1>5, <1>6, <1>7, <1>8, <1>9, <1>10, Together

\* What is fresh survives.
LEMMA SurvivesIs ==
    ASSUME Given, NEW disk \in Disks, disk = v2 \/ \E w \in Writers : Leaving(w, disk),
           NEW k \in Disk!Survives, NEW f, f = <<k, v1[k].validators>>
    PROVE  f \in Found(disk) /\ disk[f].expires > v8 /\ f[1] = k /\ k \in Keys
<1> DEFINE index == v1  files == v2  writer == v6  now == v8
<1>1. /\ index \in Tables /\ files \in Disks /\ Told(index, files) /\ now \in 0 .. MaxNow
  BY Parts
<1>2. /\ k \in Keys /\ index[k] # None /\ files[f].expires > now
      /\ (\E w \in Writers : Disk!At(w, "write")) => \A meta \in Metas : meta.expires > now
  BY DEF Disk!Survives, Disk!Indexed
<1>3. f \in Names /\ files[f] # None
  <2>1. index[k].validators \in BOOLEAN
    BY <1>1, <1>2 DEF Tables, Disk!Entry
  <2>2. files[<<k, index[k].validators>>] # None
    BY ZenonT(30), <1>1, <1>2, <2>1 DEF Told
  <2> QED
    BY <1>2, <2>1, <2>2 DEF Names
<1>4. CASE disk = files
  BY <1>2, <1>3, <1>4 DEF Found
<1>5. ASSUME NEW w \in Writers, Leaving(w, disk) PROVE disk[f] # None /\ disk[f].expires > now
  <2>1. PICK j \in Keys, meta \in Metas :
      /\ writer[w].pc = "write" /\ Disk!NewFile(w, meta) \in Disk!File
      /\ \A g \in Names : disk[g] = IF g = <<j, meta.validators>> THEN Disk!NewFile(w, meta)
           ELSE files[g]
    BY <1>5 DEF Leaving
  <2>2. meta.expires > now
    BY <1>2, <2>1 DEF Disk!At
  <2>3. CASE f = <<j, meta.validators>>
    <3>1. disk[f] = Disk!NewFile(w, meta)
      BY <1>3, <2>1, <2>3
    <3>2. Disk!NewFile(w, meta).expires = meta.expires
      BY DEF Disk!NewFile
    <3>3. disk[f] # None
      BY <2>1, <3>1 DEF Given, Assumed, Disk!TierAssumption
    <3> QED
      BY <2>2, <3>1, <3>2, <3>3
  <2>4. CASE f # <<j, meta.validators>>
    BY <1>2, <1>3, <2>1, <2>4
  <2> QED
    BY <2>3, <2>4
<1> QED
  BY <1>2, <1>3, <1>4, <1>5 DEF Found

LEMMA FreshKept == ASSUME Given, Disk!Restart
PROVE ~ (Disk!Cardinality(Disk!Indexed') < Disk!Min({v5', Disk!Cardinality(Disk!Survives)}))
<1> DEFINE index == v1  files == v2  maxEntries == v5  now == v8  stores == v9
<1>1. PICK disk \in Disks, cap \in EntryCaps, s \in Scans :
             /\ disk = files \/ \E w \in Writers : Leaving(w, disk)
             /\ ScanOK(s, disk, cap, Found(disk))
             /\ index' = s.index /\ files' = s.files /\ maxEntries' = cap
             /\ stores' \in 0 .. MaxStores
  BY Zenon, RestartIs
<1>2. Disk!IsFiniteSet(Keys) /\ cap \in Nat
  BY Constants DEF Given, Assumed, Disk!SizeAssumption
<1>3. Disk!Indexed' = {k \in Keys : s.index[k] # None}
  BY <1>1 DEF Disk!Indexed
<1>4. Disk!Survives \subseteq Keys /\ Disk!Indexed' \subseteq Keys
  BY <1>3 DEF Disk!Survives, Disk!Indexed
<1> DEFINE n == Disk!Cardinality(Disk!Indexed')  m == Disk!Cardinality(Disk!Survives)
<1>5. Disk!IsFiniteSet(Disk!Survives) /\ Disk!IsFiniteSet(Disk!Indexed')
  BY <1>2, <1>4, PartSize
<1>6. n \in Nat /\ m \in Nat
  BY <1>5, SizeIsNat
<1>7. n = Count(s.index)
  BY <1>3 DEF Count
<1>8. (\A f \in Found(disk) : disk[f].expires > now => s.index[f[1]] # None)
      \/ Count(s.index) >= cap
  BY <1>1 DEF ScanOK
<1>9. n >= m \/ n >= cap
  <2>1. SUFFICES ASSUME \A f \in Found(disk) : disk[f].expires > now => s.index[f[1]] # None
        PROVE n >= m
    BY <1>7, <1>8
  <2>2. ASSUME NEW k \in Disk!Survives PROVE k \in Disk!Indexed'
    <3> DEFINE f == <<k, index[k].validators>>
    <3>1. f \in Found(disk) /\ disk[f].expires > now /\ f[1] = k /\ k \in Keys
      BY Zenon, <1>1, <2>2, SurvivesIs
    <3> QED
      BY <1>3, <2>1, <3>1
  <2>3. Disk!Survives \subseteq Disk!Indexed'
    BY <2>2
  <2>4. m <= n
    BY <1>5, <2>3, PartSize
  <2> QED
    BY <1>6, <2>4
<1> DEFINE low == Disk!Min({cap, m})
<1>10. low \in {cap, m} /\ \A y \in {cap, m} : low <= y
  <2> HIDE DEF m
  <2>1. \E x \in {cap, m} : \A y \in {cap, m} : x <= y
    BY <1>2, <1>6
  <2> QED
    BY <2>1 DEF Disk!Min
<1> HIDE DEF n, m, low
<1>11. low <= cap /\ low <= m /\ low \in Nat
  BY <1>2, <1>6, <1>10
<1>12. ~ (n < low)
  BY <1>2, <1>6, <1>9, <1>11
<1>13. maxEntries' = cap
  BY <1>1
<1> QED
  BY <1>12, <1>13 DEF n, m, low

-----------------------------------------------------------------------------
\* The start.
LEMMA Whole ==
    ASSUME v1 \in Tables, v2 \in Disks, Told(v1, v2),
           Asking(v6), Serving(v7),
           v3 \in Capacities, v5 \in EntryCaps, v4 \in Nat,
           v8 \in 0 .. MaxNow, v9 \in 0 .. MaxStores,
           v4 = Rooms(v6), RoomFor(Load(v1), v6),
           Disk!Cardinality({k \in Keys : v1[k] # None}) <= v5
    PROVE  Disk!DiskInv
<1> DEFINE index == v1  maxEntries == v5  writer == v6  user == v7
<1>1. Disk!TypeOK /\ \A u \in Users : Disk!KnowsEntry(user[u])
  BY DEF Disk!TypeOK, Tables, Disks, Asking, Serving
<1>2. Disk!RoomAccounted
  BY DEF Disk!RoomAccounted, Rooms
<1>3. Disk!FilesIndexed
  BY ZenonT(30) DEF Disk!FilesIndexed, Told
<1>4. Disk!Cardinality(Disk!Indexed) <= maxEntries
  BY DEF Disk!Indexed
<1>5. \A w \in Writers : Disk!AsksWithin(writer[w])
  BY DEF Asking
<1>6. Disk!RoomForEach
  <2>1. Disk!Looking = Looks(writer)
    BY DEF Disk!Looking, Looks
  <2>2. \A S : Disk!Grown(S) = Load(index) + Held(writer, S)
    BY DEF Disk!Grown, Held, Load, Disk!Bytes
  <2> QED
    BY <2>1, <2>2 DEF Disk!RoomForEach, RoomFor, Fits, Bound
<1> QED
  BY <1>1, <1>2, <1>3, <1>4, <1>5, <1>6 DEF Disk!DiskInv

\* What is there before anything is stored.
LEMMA StartIs ==
    ASSUME Assumed, Disk!Init
    PROVE  /\ v1 \in Tables /\ v2 \in Disks /\ Told(v1, v2)
           /\ v8 \in 0 .. MaxNow /\ v9 \in 0 .. MaxStores
<1> DEFINE index == v1  files == v2  now == v8  stores == v9
<1> DEFINE E == {[ver |-> 0, size |-> 1 + n, expires |-> meta.expires,
             validators |-> meta.validators] :
                   n \in Lengths, meta \in Metas}
<1>1. E \subseteq Disk!Entry
  BY DEF Assumed, Disk!SizeAssumption, Disk!TimeAssumption, Disk!Entry
<1>2. index \in [Keys -> {None} \cup E] /\ now = 0 /\ stores = 0
  BY DEF Disk!Init
<1> HIDE DEF E
<1>3. index \in Tables
  BY <1>1, <1>2 DEF Tables
<1>4. 0 \in 0 .. MaxNow /\ 0 \in 0 .. MaxStores
  BY DEF Assumed, Disk!TimeAssumption
<1> DEFINE F(e) == [ver |-> 0, size |-> e.size, expires |-> e.expires, mtime |-> e.expires]
           file(f) == IF index[f[1]] = None THEN None ELSE IF index[f[1]].validators # f[2]
             THEN None ELSE F(index[f[1]])
<1>5. files = [f \in Keys \X BOOLEAN |-> file(f)]
  BY DEF Disk!Init
<1>6. ASSUME NEW e \in Disk!Entry PROVE F(e) \in Disk!File /\ F(e).size = e.size /\ F(e).ver = 0
             /\ F(e) # None
  <2>1. F(e) \in Disk!File
    BY <1>4 DEF Disk!Entry, Disk!File
  <2> QED
    BY <2>1 DEF Assumed, Disk!TierAssumption
<1>7. ASSUME NEW k \in Keys, index[k] # None PROVE index[k] \in Disk!Entry /\ index[k].ver = 0
  <2>1. index[k] \in E
    BY <1>2, <1>7
  <2> QED
    BY <1>1, <2>1 DEF E
<1> HIDE DEF F
<1>8. ASSUME NEW k \in Keys, NEW v \in BOOLEAN
      PROVE  files[<<k, v>>] = IF index[k] # None /\ index[k].validators = v THEN F(index[k])
               ELSE None
  BY <1>5
<1>9. files \in Disks
  <2>1. \A f \in Keys \X BOOLEAN : files[f] \in Disk!File \cup {None}
    <3> SUFFICES ASSUME NEW k \in Keys, NEW v \in BOOLEAN PROVE files[<<k, v>>] \in Disk!File
                          \cup {None}
      OBVIOUS
    <3> QED
      BY <1>6, <1>7, <1>8
  <2> QED
    BY <1>5, <2>1 DEF Disks
<1>10. ASSUME NEW k \in Keys, NEW v \in BOOLEAN
       PROVE  IF index[k] # None /\ index[k].validators = v
              THEN files[<<k, v>>] # None /\ files[<<k, v>>].ver = index[k].ver
                   /\ files[<<k, v>>].size = index[k].size
              ELSE files[<<k, v>>] = None
  <2>1. files[<<k, v>>] = IF index[k] # None /\ index[k].validators = v THEN F(index[k]) ELSE None
    BY <1>8
  <2> QED
    BY <1>6, <1>7, <2>1
<1>11. Told(index, files)
  BY ZenonT(30), <1>10 DEF Told
<1> QED
  BY <1>2, <1>3, <1>4, <1>9, <1>11

LEMMA DiskStarts == ASSUME Assumed, Disk!Init PROVE Disk!DiskInv
<1> DEFINE index == v1  files == v2  capacity == v3  inFlight == v4  maxEntries == v5
           writer == v6  user == v7  now == v8  stores == v9
<1>1. /\ index \in Tables /\ files \in Disks /\ Told(index, files)
      /\ now \in 0 .. MaxNow /\ stores \in 0 .. MaxStores
  BY StartIs
<1>2. /\ capacity \in Capacities /\ maxEntries \in EntryCaps /\ inFlight = 0
      /\ Disk!Bytes <= capacity /\ Disk!Cardinality(Disk!Indexed) <= maxEntries
      /\ writer = [w \in Writers |-> Disk!NewWriter] /\ user = [u \in Users |-> Disk!NewUser]
  BY DEF Disk!Init
<1>3. Asking(writer) /\ Rooms(writer) = 0 /\ Held(writer, {}) = 0 /\ Looks(writer) = {}
  BY <1>2, NoneHolds
<1>4. Serving(user)
  <2>1. MaxNow \in Nat
    BY DEF Assumed, Disk!TimeAssumption
  <2>2. Disk!NewUser \in Disk!UserStates /\ Disk!KnowsEntry(Disk!NewUser)
    BY <2>1 DEF Disk!NewUser, Disk!UserStates, Disk!KnowsEntry
  <2> QED
    BY <1>2, <2>2 DEF Serving
<1>5. RoomFor(Load(index), writer)
  <2> DEFINE a == Load(index)  h == Held(writer, {})  m == Disk!Max(Capacities)  n ==
               Disk!Cardinality(Writers)  y == Disk!Body
  <2>1. a <= capacity /\ a \in Nat
    BY <1>1, <1>2, LoadNat DEF Disk!Bytes, Load
  <2>2. capacity \in Nat /\ capacity <= m /\ m \in Nat /\ n \in Nat \ {0} /\ y \in Nat
    BY <1>2, Constants
  <2>3. h = 0
    BY <1>3
  <2> HIDE DEF a, h, m, n, y
  <2>4. (n - 1) * y \in Nat
    <3>1. n - 1 \in Nat
      BY <2>2
    <3> QED
      BY <2>2, <3>1
  <2> DEFINE p == (n - 1) * y
  <2> HIDE DEF p
  <2>5. a + h <= m + p
    BY <2>1, <2>2, <2>3, <2>4 DEF p
  <2>6. a + h <= Bound
    BY <2>5 DEF Bound, m, n, y, p
  <2>7. Fits(a, writer, {})
    BY <2>6 DEF Fits, h
  <2> QED
    BY <1>3, <2>7 DEF RoomFor, a
<1>6. Disk!Cardinality({k \in Keys : index[k] # None}) <= maxEntries
  BY <1>2 DEF Disk!Indexed
<1>7. inFlight = Rooms(writer) /\ inFlight \in Nat
  BY <1>2, <1>3
<1> QED
  BY <1>1, <1>2, <1>3, <1>4, <1>5, <1>6, <1>7, Whole

\* Every step keeps the invariant.
LEMMA WriterKeeps ==
    ASSUME Given, NEW w \in Writers,
           \/ \E n \in Lengths \cup {None} : Disk!Begin(w, n)
           \/ \E k \in Keys, meta \in Metas : Disk!Commit(w, k, meta)
           \/ Disk!Evict(w) \/ Disk!ReadUsage(w) \/ Disk!Check(w) \/ Disk!Reserve(w)
              \/ Disk!ReadSpare(w) \/ Disk!Slack(w)
           \/ Disk!Keep(w) \/ Disk!Put(w) \/ Disk!Write(w) \/ Disk!Abort(w) \/ Disk!Release(w)
    PROVE  Disk!DiskInv'
BY Zenon, BeginKeeps, CommitKeeps, EvictKeeps, ReadUsageKeeps, CheckKeeps, ReserveKeeps,
    ReadSpareKeeps,
   SlackKeeps, KeepKeeps, PutKeeps, WriteKeeps, AbortKeeps, ReleaseKeeps

LEMMA UserKeeps ==
    ASSUME Given, NEW u \in Users,
           \/ \E k \in Keys : Disk!Get(u, k) \/ Disk!Invalidate(u, k) \/ Disk!Revalidate(u, k)
           \/ \E meta \in Metas : Disk!Refresh(u, meta.expires)
           \/ Disk!Look(u) \/ Disk!Open(u) \/ Disk!Sweep(u) \/ Disk!Drop(u) \/ Disk!Clear(u)
              \/ Disk!SetMtime(u)
           \/ \E c \in Capacities : Disk!SetCapacity(u, c)
           \/ Disk!Enforce(u)
    PROVE  Disk!DiskInv'
<1>1. ASSUME NEW meta \in Metas, Disk!Refresh(u, meta.expires) PROVE Disk!DiskInv'
  <2>1. meta.expires \in Nat
    BY DEF Given, Assumed, Disk!TimeAssumption
  <2> QED
    BY <1>1, <2>1, RefreshKeeps
<1> QED
  BY Zenon, <1>1, GetKeeps, InvalidateKeeps, RevalidateKeeps, LookKeeps, OpenKeeps, SweepKeeps,
    DropKeeps,
     ClearKeeps, SetMtimeKeeps, SetCapacityKeeps, EnforceKeeps

LEMMA DiskKeeps == ASSUME Given, [Disk!Next]_(Disk!vars) PROVE Disk!DiskInv'
BY Zenon, WriterKeeps, UserKeeps, TickKeeps, RestartKeeps, RestKeeps DEF Disk!Next

\* What the run checks follows.
LEMMA DiskAccountedIs == ASSUME Given PROVE Disk!TypeOK /\ Disk!RoomAccounted
    /\ Disk!FilesIndexed /\ Disk!UsedBounded
<1> DEFINE index == v1  maxEntries == v5  writer == v6
<1>1. Disk!TypeOK /\ Disk!RoomAccounted /\ Disk!FilesIndexed /\ Disk!Cardinality(Disk!Indexed)
        <= maxEntries
  BY DEF Given, Disk!DiskInv
<1>2. Asking(writer) /\ RoomFor(Load(index), writer) /\ Disk!Bytes = Load(index)
      /\ Load(index) \in Nat
  BY Parts
<1>3. \A w \in Writers : writer[w].written <= writer[w].room
  BY <1>2 DEF Asking, Disk!AsksWithin
<1> DEFINE f == [w \in Writers |-> writer[w].written]
           g == [w \in Writers |-> IF w \in {} THEN Disk!Body ELSE Disk!Pledge(writer[w])]
<1>4. ASSUME NEW w \in Writers PROVE f[w] \in Nat /\ g[w] \in Nat /\ f[w] <= g[w]
  <2> DEFINE r == writer[w]
  <2>1. r \in Disk!WriterStates /\ Disk!AsksWithin(r)
    BY <1>2 DEF Asking
  <2>2. Disk!Pledge(r) \in Nat
    BY <2>1, PledgeFits DEF Given
  <2>3. f[w] = r.written /\ g[w] = Disk!Pledge(r)
    OBVIOUS
  <2> HIDE DEF r, f, g
  <2>4. r.written \in Nat /\ r.room \in Nat /\ r.need \in Nat /\ r.cap \in Nat /\ r.written
          <= r.room
    BY <2>1 DEF Disk!WriterStates, Disk!AsksWithin
  <2>5. r.written <= Disk!Pledge(r)
    <3>1. CASE r.pc = "reserve"
      BY <2>1, <2>4, <3>1 DEF Disk!Pledge, Disk!AsksWithin
    <3>2. CASE r.pc = "keep"
      BY <2>4, <3>2 DEF Disk!Pledge
    <3>3. CASE r.pc = "release"
      BY <2>4, <3>3 DEF Disk!Pledge
    <3>4. CASE r.pc \notin {"reserve", "keep", "release"}
      BY <2>4, <3>4 DEF Disk!Pledge
    <3> QED
      BY <3>1, <3>2, <3>3, <3>4
  <2> QED
    BY <2>2, <2>3, <2>4, <2>5
<1> HIDE DEF f, g
<1>5. Disk!Total(f, Writers) <= Disk!Total(g, Writers) /\ Disk!Total(f, Writers) \in Nat
      /\ Disk!Total(g, Writers) \in Nat
  <2>1. Disk!IsFiniteSet(Writers)
    BY Constants DEF Given
  <2> QED
    BY <1>4, <2>1, TotalMono, TotalNat
<1>6. Load(index) + Disk!Total(g, Writers) <= Bound
  <2>1. Fits(Load(index), writer, {})
    BY <1>2 DEF RoomFor
  <2>2. Load(index) + Held(writer, {}) <= Bound
    BY <2>1 DEF Fits
  <2> QED
    BY <2>2 DEF Held, g
<1>7. Disk!Used = Load(index) + Disk!Total(f, Writers)
  BY <1>2 DEF Disk!Used, f
<1>8. Disk!Used <= Bound
  <2>1. Bound \in Int
    BY Constants DEF Given
  <2> QED
    BY <1>2, <1>5, <1>6, <1>7, <2>1
<1>9. Disk!UsedBounded
  BY <1>1, <1>3, <1>8 DEF Disk!UsedBounded, Bound, Disk!Body
<1> QED
  BY <1>1, <1>9

LEMMA FreshStep == ASSUME Given PROVE Disk!FreshSurviveStep
BY Zenon, FreshKept DEF Disk!FreshSurviveStep

-----------------------------------------------------------------------------
\* The part of the sum.
DiskPartInv == part = "disk" => Disk!DiskInv

LEMMA DiskGiven == Assumed
BY DiskAssumption DEF Assumed

LEMMA DiskPartStep == ASSUME DiskPartInv, [Next]_vars PROVE DiskPartInv'
<1> SUFFICES ASSUME part' = "disk" PROVE Disk!DiskInv'
  BY DEF DiskPartInv
<1>1. part = "disk" /\ [Disk!Next]_(Disk!vars)
  BY DEF Next, DiskStep, RecentStep, AllocationStep, HostFileStep, SettingsStep, ListedStep,
         NumbersStep, DailyStep, vars, Disk!vars, Disk!books, Disk!ambient
<1>2. Given
  BY <1>1, DiskGiven DEF DiskPartInv, Given
<1> QED
  BY <1>1, <1>2, DiskKeeps

LEMMA DiskInductive == Spec => []DiskPartInv
<1>1. Init => DiskPartInv
  BY DiskGiven, DiskStarts DEF Init, DiskPartInv
<1>2. DiskPartInv /\ [Next]_vars => DiskPartInv'
  BY DiskPartStep
<1> QED
  BY <1>1, <1>2, PTL DEF Spec

\* The bytes in flight are the room the writers hold, an entry of the index has its file and there
\* is no other, and the tier fills no more of the disk than the largest capacity it was given and
\* one body for every other writer (writer.rs, lib.rs of cachedisk).
THEOREM DiskAlwaysAccounted == Spec => []DiskAccounted
<1>1. DiskPartInv => DiskAccounted
  BY DiskGiven, DiskAccountedIs DEF DiskPartInv, DiskAccounted, Given
<1> QED
  BY <1>1, DiskInductive, PTL

\* A crash, inside a commit as well, loses no fresh entry, in whatever order the files are found,
\* as long as the index may hold them (scan.rs).
THEOREM FreshAlwaysSurvives == Spec => FreshSurvive
<1>1. DiskPartInv => [part = "disk" => Disk!FreshSurviveStep]_vars
  BY DiskGiven, FreshStep DEF DiskPartInv, Given
<1> QED
  BY <1>1, DiskInductive, PTL DEF Spec, FreshSurvive

-----------------------------------------------------------------------------
LEMMA SettingsBegin ==
    ASSUME Settings!ReloadAssumption
    PROVE  Settings!Init => Settings!ReloadInv
<1> DEFINE file == v1  stamp == v2  writing == v3  pending == v4  watching == v5  pc == v6
           seen == v7  event == v8  loaded == v9  boot == v10  state == v13  missed == v14
<1> SUFFICES ASSUME Settings!Init PROVE Settings!ReloadInv
  OBVIOUS
<1>1. Settings!Empty \in Settings!Contents /\ file \in Settings!Contents /\ file.broken = FALSE
  BY DEF Settings!Init, Settings!Contents, Settings!Empty, Settings!ReloadAssumption
<1>2. Settings!ReloadTypes
  <2>1. /\ loaded = file /\ boot = file /\ stamp = 0 /\ seen = -1 /\ watching = "no" /\ pc
             = "start"
        /\ writing = FALSE /\ pending = FALSE /\ event = FALSE /\ missed = FALSE
        /\ state = [error |-> FALSE, restart |-> FALSE]
    BY DEF Settings!Init
  <2>2. state \in [error : BOOLEAN, restart : BOOLEAN]
    BY <2>1
  <2>3. /\ writing \in BOOLEAN /\ pending \in BOOLEAN /\ event \in BOOLEAN /\ missed \in BOOLEAN
        /\ watching \in {"no", "inotify", "poll"}
        /\ pc \in {"start", "first", "wait", "look", "load", "apply"}
    BY <2>1
  <2>4. stamp \in Nat /\ seen \in {-1} \cup Nat /\ seen <= stamp
    BY <2>1
  <2> QED
    BY <1>1, <2>1, <2>2, <2>3, <2>4, Zenon DEF Settings!ReloadTypes
<1>3. Settings!WillBeRead
  BY DEF Settings!Init, Settings!WillBeRead
<1>4. Settings!InForce
  BY <1>1 DEF Settings!Init, Settings!InForce, Settings!Live
<1> QED
  BY <1>2, <1>3, <1>4 DEF Settings!ReloadInv

\* Whoever edits the file.
LEMMA EditsKeepSettings ==
    ASSUME Settings!ReloadAssumption, Settings!ReloadInv, Settings!Replace \/ Settings!Truncate
           \/ Settings!Finish
    PROVE  Settings!ReloadInv'
<1> DEFINE file == v1  stamp == v2  writing == v3  pending == v4  watching == v5  pc == v6
           seen == v7  event == v8  loaded == v9  boot == v10  current == v11
           component == v12  state == v13  missed == v14
<1>0. Settings!ReloadTypes /\ Settings!WillBeRead /\ Settings!InForce
  BY DEF Settings!ReloadInv
<1>1. PICK c \in Settings!Contents, reports \in BOOLEAN :
        /\ Settings!Changed(c, reports)
        /\ writing' \in BOOLEAN /\ (reports \/ writing')
  <2>1. CASE Settings!Replace
    BY <1>0, <2>1 DEF Settings!Replace, Settings!ReloadTypes
  <2>2. CASE Settings!Truncate
    <3>1. Settings!Empty \in Settings!Contents
      BY DEF Settings!Empty, Settings!Contents, Settings!ReloadAssumption
    <3> QED
      BY <2>2, <3>1 DEF Settings!Truncate
  <2>3. CASE Settings!Finish
    BY <2>3 DEF Settings!Finish
  <2> QED
    BY <2>1, <2>2, <2>3
<1>2. /\ file' = c /\ stamp' = stamp + 1
      /\ pending' = (pending \/ (reports /\ watching = "inotify"))
      /\ missed' = (missed \/ (seen = -1 /\ watching # "inotify"))
      /\ UNCHANGED <<watching, pc, seen, event, loaded, boot, current, component, state>>
  BY <1>1, Zenon DEF Settings!Changed
<1>3. Settings!ReloadTypes'
  BY <1>0, <1>1, <1>2 DEF Settings!ReloadTypes
<1>4. Settings!WillBeRead'
  <2>1. CASE seen # -1
    BY <1>0, <1>2, <2>1 DEF Settings!ReloadTypes, Settings!WillBeRead
  <2>2. CASE seen = -1 /\ watching # "inotify"
    BY <1>2, <2>2 DEF Settings!WillBeRead
  <2>3. CASE watching = "inotify"
    BY <1>1, <1>2, <2>3 DEF Settings!WillBeRead
  <2> QED
    BY <2>1, <2>2, <2>3
<1>5. Settings!InForce'
  BY <1>0, <1>2 DEF Settings!InForce, Settings!Live
<1> QED
  BY <1>3, <1>4, <1>5 DEF Settings!ReloadInv

\* The thread, up to the reading of the file.
LEMMA LooksKeepSettings ==
    ASSUME Settings!ReloadInv, Settings!Open \/ Settings!First \/ Settings!Wait \/ Settings!Look
    PROVE  Settings!ReloadInv'
<1> DEFINE file == v1  stamp == v2  writing == v3  pending == v4  watching == v5  pc == v6
           seen == v7  event == v8  loaded == v9  boot == v10  current == v11
           component == v12  state == v13  missed == v14
<1>0. Settings!ReloadTypes /\ Settings!WillBeRead /\ Settings!InForce
  BY DEF Settings!ReloadInv
<1>1. /\ UNCHANGED <<file, stamp, writing, loaded, boot, current, component, state, missed>>
      /\ pc # "apply" /\ pc' # "apply"
  BY DEF Settings!Open, Settings!First, Settings!Wait, Settings!Look, Settings!Outside
<1>2. Settings!InForce'
  BY <1>0, <1>1 DEF Settings!InForce, Settings!Live
<1>3. CASE Settings!Open
  BY <1>0, <1>1, <1>2, <1>3 DEF Settings!Open, Settings!ReloadInv, Settings!ReloadTypes,
     Settings!WillBeRead
<1>4. CASE Settings!First
  BY <1>0, <1>1, <1>2, <1>4 DEF Settings!First, Settings!ReloadInv, Settings!ReloadTypes,
     Settings!WillBeRead
<1>5. CASE Settings!Wait
  <2>1. /\ pc = "wait" /\ pc' = "look" /\ UNCHANGED <<watching, seen>>
        /\ event' \in BOOLEAN /\ pending' \in BOOLEAN
        /\ pending => (pending' \/ event')
    <3>1. CASE pending /\ event' = TRUE /\ pending' = FALSE
      BY <1>0, <1>5, <3>1 DEF Settings!Wait, Settings!ReloadTypes
    <3>2. CASE event' = FALSE /\ UNCHANGED pending
      BY <1>0, <1>5, <3>2 DEF Settings!Wait, Settings!ReloadTypes
    <3> QED
      BY <1>5, <3>1, <3>2 DEF Settings!Wait
  <2>2. Settings!ReloadTypes'
    <3>1. seen # -1 /\ pc' \in {"start", "first", "wait", "look", "load", "apply"}
      BY <1>0, <2>1 DEF Settings!ReloadTypes
    <3>2. (seen' = -1 <=> pc' \in {"start", "first"}) /\ pc' # "start"
      BY <2>1, <3>1
    <3> QED
      BY <1>0, <1>1, <2>1, <3>1, <3>2, Zenon DEF Settings!ReloadTypes
  <2>3. Settings!WillBeRead'
    <3>1. CASE pending
      BY <2>1, <3>1 DEF Settings!WillBeRead
    <3>2. CASE ~pending
      BY <1>0, <1>1, <2>1, <3>2 DEF Settings!WillBeRead
    <3> QED
      BY <3>1, <3>2
  <2> QED
    BY <1>2, <2>2, <2>3 DEF Settings!ReloadInv
<1>6. CASE Settings!Look
  <2>1. CASE event \/ stamp # seen
    BY <1>0, <1>1, <1>2, <1>6, <2>1
       DEF Settings!Look, Settings!ReloadInv, Settings!ReloadTypes, Settings!WillBeRead
  <2>2. CASE ~(event \/ stamp # seen)
    BY <1>0, <1>1, <1>2, <1>6, <2>2
       DEF Settings!Look, Settings!ReloadInv, Settings!ReloadTypes, Settings!WillBeRead
  <2> QED
    BY <2>1, <2>2
<1> QED
  BY <1>3, <1>4, <1>5, <1>6

LEMMA LoadKeepsSettings ==
    ASSUME Settings!ReloadInv, Settings!Load
    PROVE  Settings!ReloadInv'
<1> DEFINE file == v1  stamp == v2  writing == v3  pending == v4  watching == v5  pc == v6
           seen == v7  event == v8  loaded == v9  boot == v10  current == v11
           component == v12  state == v13  missed == v14
<1>0. Settings!ReloadTypes /\ Settings!WillBeRead /\ Settings!InForce
  BY DEF Settings!ReloadInv
<1>1. /\ pc = "load" /\ loaded' = file /\ pc' \in {"wait", "apply"} /\ missed' = FALSE
      /\ UNCHANGED <<file, stamp, writing, pending, watching, seen, event, boot, current,
                     component, state>>
      /\ pc' # "apply" => loaded' = loaded
  BY DEF Settings!Load, Settings!Outside
<1>2. Settings!ReloadTypes'
  BY <1>0, <1>1 DEF Settings!ReloadTypes
<1>3. Settings!WillBeRead'
  BY <1>1 DEF Settings!WillBeRead
<1>4. Settings!InForce'
  BY <1>0, <1>1 DEF Settings!InForce, Settings!Live
<1> QED
  BY <1>2, <1>3, <1>4 DEF Settings!ReloadInv

LEMMA ApplyKeepsSettings ==
    ASSUME Settings!ReloadInv, Settings!Apply
    PROVE  Settings!ReloadInv'
<1> DEFINE file == v1  stamp == v2  writing == v3  pending == v4  watching == v5  pc == v6
           seen == v7  event == v8  loaded == v9  boot == v10  current == v11
           component == v12  state == v13  missed == v14
<1>0. Settings!ReloadTypes /\ Settings!WillBeRead /\ Settings!InForce
  BY DEF Settings!ReloadInv
<1>1. /\ pc = "apply" /\ pc' = "wait"
      /\ UNCHANGED <<file, stamp, writing, pending, watching, seen, event, loaded, boot, missed>>
  BY DEF Settings!Apply, Settings!SeenAfter, Settings!Outside
<1>2. Settings!ReloadTypes'
  <2>1. state' \in [error : BOOLEAN, restart : BOOLEAN]
    <3>1. loaded.broken \in BOOLEAN /\ (loaded.fixed # boot.fixed) \in BOOLEAN
      BY <1>0 DEF Settings!ReloadTypes, Settings!Contents
    <3>2. CASE loaded.broken
      BY <1>0, <3>2 DEF Settings!Apply, Settings!ReloadTypes
    <3>3. CASE ~loaded.broken
      <4>1. state' = [error |-> FALSE, restart |-> loaded.fixed # boot.fixed]
        BY <3>3 DEF Settings!Apply, Settings!Accepted, Settings!RestartRequired
      <4> QED
        BY <3>1, <4>1
    <3> QED
      BY <3>2, <3>3
  <2> QED
    BY <1>0, <1>1, <2>1 DEF Settings!ReloadTypes
<1>3. Settings!WillBeRead'
  BY <1>0, <1>1 DEF Settings!WillBeRead
<1>4. Settings!InForce'
  <2>1. CASE loaded.broken
    <3>1. state' = [state EXCEPT !.error = TRUE] /\ UNCHANGED <<current, component>>
      BY <2>1 DEF Settings!Apply
    <3> QED
      BY <1>0, <1>1, <2>1, <3>1 DEF Settings!InForce, Settings!Live, Settings!ReloadTypes
  <2>2. CASE ~loaded.broken
    <3>1. /\ state' = [error |-> FALSE, restart |-> loaded.fixed # boot.fixed]
          /\ current' = [live |-> loaded.live, handed |-> loaded.handed]
          /\ component' = IF loaded.handed # current.handed THEN loaded.handed ELSE component
      BY <2>2 DEF Settings!Apply, Settings!Accepted, Settings!RestartRequired, Settings!Merge,
         Settings!Live
    <3>2. component' = loaded.handed
      BY <1>0, <3>1 DEF Settings!InForce
    <3>3. loaded.broken = FALSE
      BY <1>0, <2>2 DEF Settings!ReloadTypes, Settings!Contents
    <3> QED
      BY <1>1, <2>2, <3>1, <3>2, <3>3 DEF Settings!InForce, Settings!Live
  <2> QED
    BY <2>1, <2>2
<1> QED
  BY <1>2, <1>3, <1>4 DEF Settings!ReloadInv

LEMMA SettingsKept ==
    ASSUME Settings!ReloadAssumption
    PROVE  Settings!ReloadInv /\ [Settings!Next]_(Settings!vars) => Settings!ReloadInv'
<1> SUFFICES ASSUME Settings!ReloadInv, [Settings!Next]_(Settings!vars) PROVE Settings!ReloadInv'
  OBVIOUS
<1>1. CASE Settings!Next
  BY <1>1, EditsKeepSettings, LooksKeepSettings, LoadKeepsSettings, ApplyKeepsSettings,
     Zenon DEF Settings!Next
<1>2. CASE UNCHANGED Settings!vars
  BY <1>2 DEF Settings!vars, Settings!ReloadInv, Settings!ReloadTypes, Settings!WillBeRead,
     Settings!InForce, Settings!Live
<1> QED
  BY <1>1, <1>2

LEMMA SettingsPromise ==
    ASSUME Settings!ReloadInv
    PROVE  Settings!SettingsFollowFile /\ Settings!HandedOn
<1> DEFINE file == v1  loaded == v9  boot == v10  current == v11  component == v12
           state == v13  missed == v14
<1>0. Settings!ReloadTypes /\ Settings!WillBeRead /\ Settings!InForce
  BY DEF Settings!ReloadInv
<1>1. Settings!SettingsFollowFile
  <2> SUFFICES ASSUME Settings!AtRest, ~missed
               PROVE  /\ loaded = file /\ state.error = file.broken
                      /\ ~file.broken => /\ current = Settings!Live(file) /\ component
                                              = file.handed
                                         /\ state.restart = (file.fixed # boot.fixed)
    BY DEF Settings!SettingsFollowFile
  <2>1. loaded = file
    BY <1>0 DEF Settings!AtRest, Settings!WillBeRead
  <2> QED
    BY <1>0, <2>1 DEF Settings!AtRest, Settings!InForce
<1>2. Settings!HandedOn
  BY <1>0 DEF Settings!InForce, Settings!HandedOn
<1> QED
  BY <1>1, <1>2

-----------------------------------------------------------------------------
LEMMA ListConstants ==
    ASSUME Listed!BlocklistAssumption
    PROVE  /\ Retry \in Nat /\ BeginAt \in Nat /\ MaxEdits \in Nat /\ MaxReloads \in Nat
           /\ ListStarts \in Nat
           /\ \A r \in Refreshes : r \in Nat /\ r >= 1 /\ r < BeginAt
           /\ None \notin Urls /\ None \notin Nat
<1>1. /\ Refreshes \subseteq Nat \ {0} /\ {Retry, CheckInterval} \subseteq Nat \ {0}
      /\ {BeginAt, ListEnd, MaxEdits, MaxReloads, ListStarts} \subseteq Nat
      /\ \A r \in Refreshes : r < BeginAt
      /\ None \notin Urls \cup Nat
  BY DEF Listed!BlocklistAssumption
<1> QED
  BY <1>1

\* A thread that has just been started, or could not be.
New(t) ==
    /\ t \in Listed!Threads /\ t.at \in {"none", "top"} /\ t.readAt = 0 /\ t.seen = None
    /\ t.due = FALSE

LEMMA NewThreads ==
    ASSUME NEW t \in {Listed!Asleep} \cup Listed!Started
    PROVE  New(t)
<1>1. Listed!Asleep \in Listed!Threads /\ [Listed!Asleep EXCEPT !.at = "top"] \in Listed!Threads
  BY DEF Listed!Asleep, Listed!Threads, Listed!Places
<1>2. New(Listed!Asleep)
  BY <1>1 DEF Listed!Asleep, New
<1>3. New([Listed!Asleep EXCEPT !.at = "top"])
  BY <1>1 DEF Listed!Asleep, New
<1> QED
  BY <1>2, <1>3 DEF Listed!Started

\* What holds of a process that has just been started.
LEMMA ListFresh ==
    ASSUME Listed!BlocklistAssumption, NEW s \in Listed!Settings, v1 = s, v2
             = ~Listed!IsEmpty(s), v3 = 0,
           v4 = None, v5 = ~Listed!IsEmpty(s), New(v6), Listed!IsEmpty(s) => v6 = Listed!Asleep,
             v10 = <<>>,
           v7 \in {None} \cup [edit : Nat, mtime : Nat], v7 # None => v7.mtime <= v9,
           v8 \in {None} \cup [url : Urls, mtime : Nat], v9 \in Nat, v9 >= BeginAt,
           v11 \in [edits : Nat, reloads : Nat, restarts : Nat]
    PROVE  Listed!BlocklistInv
<1> DEFINE dirty == v2  running == v5  thread == v6
<1>1. dirty \in BOOLEAN /\ running \in BOOLEAN /\ (~dirty => Listed!IsEmpty(s))
  BY DEF Listed!IsEmpty
<1>2. Listed!BlocklistTypes
  <2>1. ~running => thread.at = "none"
    <3>1. Listed!Asleep.at = "none"
      BY DEF Listed!Asleep
    <3> QED
      BY <3>1, Zenon
  <2> QED
    BY <1>1, <2>1 DEF Listed!BlocklistTypes, Listed!Working, New
<1>3. Listed!ListFollows
  BY <1>1 DEF Listed!ListFollows, Listed!Working, Listed!IsEmpty, New
<1>4. Listed!TriesRecorded /\ Listed!FetchesAreSpaced
  BY DEF Listed!TriesRecorded, Listed!FetchesAreSpaced, New
<1> QED
  BY <1>2, <1>3, <1>4 DEF Listed!BlocklistInv

LEMMA ListBegins ==
    ASSUME Listed!BlocklistAssumption
    PROVE  Listed!Init => Listed!BlocklistInv
<1> DEFINE sources == v1  dirty == v2  fetched_at == v3  set == v4  running == v5
           thread == v6  file == v7  saved == v8  now == v9  tries == v10  left == v11
<1> SUFFICES ASSUME Listed!Init PROVE Listed!BlocklistInv
  OBVIOUS
<1>1. PICK s \in Listed!Settings :
        /\ sources = s /\ dirty = ~Listed!IsEmpty(s) /\ fetched_at = 0 /\ set = None
        /\ running = ~Listed!IsEmpty(s)
        /\ thread \in IF Listed!IsEmpty(s) THEN {Listed!Asleep} ELSE Listed!Started
        /\ tries = <<>>
        /\ file \in {None, [edit |-> 0, mtime |-> BeginAt - 1]}
        /\ saved = None /\ now = BeginAt
        /\ left = [edits |-> MaxEdits, reloads |-> MaxReloads, restarts |-> ListStarts]
  BY Zenon DEF Listed!Init
<1>2. BeginAt - 1 \in Nat /\ BeginAt \in Nat
  <2>1. s.refresh \in Refreshes
    BY DEF Listed!Settings
  <2> QED
    BY <2>1, ListConstants
<1>3. New(thread) /\ (Listed!IsEmpty(s) => thread = Listed!Asleep)
  BY <1>1, NewThreads, Zenon
<1>4. file \in {None} \cup [edit : Nat, mtime : Nat] /\ (file # None => file.mtime <= now)
  BY <1>1, <1>2
<1>5. left \in [edits : Nat, reloads : Nat, restarts : Nat]
  BY <1>1, ListConstants
<1> QED
  BY <1>1, <1>2, <1>3, <1>4, <1>5, ListFresh

LEMMA RestartBeginsList ==
    ASSUME Listed!BlocklistAssumption, Listed!BlocklistInv, Listed!Restart
    PROVE  Listed!BlocklistInv'
<1> DEFINE sources == v1  dirty == v2  fetched_at == v3  set == v4  running == v5
           thread == v6  file == v7  saved == v8  now == v9  tries == v10  left == v11
<1>1. PICK s \in Listed!Settings : Listed!Boots(s)
  BY DEF Listed!Restart
<1>2. New(thread)'
  <2>1. thread' \in {Listed!Asleep} \cup Listed!Started
    BY <1>1, Zenon DEF Listed!Boots
  <2>2. New(thread')
    BY <2>1, NewThreads
  <2> QED
    BY <2>2 DEF New
<1>3. /\ file' = file /\ saved' = saved /\ now' = now /\ left' = [left EXCEPT !.restarts = @ - 1]
      /\ left.restarts > 0
  BY DEF Listed!Restart
<1>4. /\ sources' = s /\ dirty' = ~Listed!IsEmpty(s) /\ fetched_at' = 0 /\ set' = None
      /\ running' = ~Listed!IsEmpty(s) /\ tries' = <<>>
  BY <1>1, Zenon DEF Listed!Boots
<1>5. Listed!BlocklistTypes
  BY DEF Listed!BlocklistInv
<1>6. left' \in [edits : Nat, reloads : Nat, restarts : Nat]
  BY <1>3, <1>5 DEF Listed!BlocklistTypes
<1>7. dirty' \in BOOLEAN /\ running' \in BOOLEAN /\ (~dirty' => Listed!IsEmpty(s))
  BY <1>4 DEF Listed!IsEmpty
<1>8. Listed!BlocklistTypes'
  <2>1. ~running' => thread'.at = "none"
    <3>1. Listed!IsEmpty(s) => thread' = Listed!Asleep
      BY <1>1, Zenon DEF Listed!Boots
    <3>2. Listed!Asleep.at = "none"
      BY DEF Listed!Asleep
    <3> QED
      BY <1>4, <3>1, <3>2, Zenon
  <2> QED
    BY <1>2, <1>3, <1>4, <1>5, <1>6, <1>7, <2>1 DEF Listed!BlocklistTypes, Listed!Working, New
<1>9. Listed!ListFollows'
  BY <1>2, <1>4, <1>7 DEF Listed!ListFollows, Listed!Working, Listed!IsEmpty, New
<1>10. Listed!TriesRecorded' /\ Listed!FetchesAreSpaced'
  BY <1>2, <1>4 DEF Listed!TriesRecorded, Listed!FetchesAreSpaced, New
<1> QED
  BY <1>8, <1>9, <1>10 DEF Listed!BlocklistInv

\* What the thread keeps over a wait, field by field.
LEMMA WaitingIs ==
    ASSUME NEW t \in Listed!Threads, v9 \in Nat
    PROVE  /\ Listed!Waiting(t) \in Listed!Threads
           /\ Listed!Waiting(t).at = "wait" /\ Listed!Waiting(t).seen = t.seen
           /\ Listed!Waiting(t).readAt = t.readAt
<1>1. t.seen \in Nat \cup {None} /\ t.readAt \in Nat
  BY DEF Listed!Threads
<1>2. Listed!Waiting(t) \in Listed!Threads
  BY <1>1 DEF Listed!Waiting, Listed!Asleep, Listed!Threads, Listed!Places
<1>3. Listed!Waiting(t).at = "wait" /\ Listed!Waiting(t).seen = t.seen
      /\ Listed!Waiting(t).readAt = t.readAt
  BY DEF Listed!Waiting, Listed!Asleep
<1> QED
  BY <1>2, <1>3

LEMMA StillLater ==
    ASSUME NEW a \in Nat, NEW q \in Int, NEW m \in Nat, NEW n \in Nat, m >= n, n - a >= q
    PROVE  m - a >= q
OBVIOUS

\* What leaves the thread and its tries alone, and does not put the clock back.
LEMMA OthersKeepTries ==
    ASSUME Listed!BlocklistAssumption, Listed!BlocklistInv, UNCHANGED <<v10, v3, v6>>,
             v9' \in Nat, v9' >= v9
    PROVE  Listed!TriesRecorded' /\ Listed!FetchesAreSpaced'
<1> DEFINE now == v9  tries == v10
<1>1. Listed!BlocklistTypes /\ Listed!TriesRecorded /\ Listed!FetchesAreSpaced
  BY DEF Listed!BlocklistInv
<1>3. tries # <<>> /\ now - tries[2].at >= Listed!Pause(tries[2]) => now'
        - tries[2].at >= Listed!Pause(tries[2])
  <2> SUFFICES ASSUME tries # <<>>, now - tries[2].at >= Listed!Pause(tries[2])
               PROVE  now' - tries[2].at >= Listed!Pause(tries[2])
    OBVIOUS
  <2>1. tries[2].at \in Nat /\ now \in Nat /\ tries[2].refresh \in Refreshes
    BY <1>1 DEF Listed!BlocklistTypes, Listed!Tries
  <2>2. Listed!Pause(tries[2]) \in Int
    BY <2>1, ListConstants DEF Listed!Pause, Listed!Smaller
  <2> QED
    BY <2>1, <2>2, StillLater, Zenon
<1>4. Listed!FetchesAreSpaced'
  BY <1>1 DEF Listed!FetchesAreSpaced
<1>5. Listed!Pause(tries[2])' = Listed!Pause(tries[2])
  BY DEF Listed!Pause
<1>6. Listed!TriesRecorded'
  BY <1>1, <1>3, <1>5, Zenon DEF Listed!TriesRecorded
<1> QED
  BY <1>4, <1>6

LEMMA OutsideKeepsList ==
    ASSUME Listed!BlocklistAssumption, Listed!BlocklistInv, Listed!Edit \/ Listed!Elapse
    PROVE  Listed!BlocklistInv'
<1> DEFINE sources == v1  dirty == v2  fetched_at == v3  set == v4  running == v5
           thread == v6  file == v7  saved == v8  now == v9  tries == v10  left == v11
<1>1. Listed!BlocklistTypes /\ Listed!ListFollows
  BY DEF Listed!BlocklistInv
<1>2. UNCHANGED <<sources, dirty, fetched_at, set, running, thread, saved, tries>>
  BY DEF Listed!Edit, Listed!Elapse
<1>3. /\ now' \in Nat /\ now' >= now
      /\ left' \in [edits : Nat, reloads : Nat, restarts : Nat]
      /\ file' \in {None} \cup [edit : Nat, mtime : Nat]
      /\ file' = file \/ file' = None \/ file'.mtime = now
      /\ file' # None => file'.mtime <= now'
  <2>1. CASE Listed!Edit
    <3>1. now' = now /\ left' = [left EXCEPT !.edits = @ - 1] /\ left.edits \in Nat
          /\ left.edits > 0
      BY <1>1, <2>1 DEF Listed!Edit, Listed!BlocklistTypes
    <3>2. file' = None \/ file' = [edit |-> left.edits, mtime |-> now]
      BY <2>1 DEF Listed!Edit
    <3> QED
      BY <1>1, <3>1, <3>2 DEF Listed!BlocklistTypes
  <2>2. CASE Listed!Elapse
    BY <1>1, <2>2 DEF Listed!Elapse, Listed!BlocklistTypes
  <2> QED
    BY <2>1, <2>2
<1>4. Listed!TriesRecorded' /\ Listed!FetchesAreSpaced'
  BY <1>2, <1>3, OthersKeepTries
<1>5. Listed!BlocklistTypes'
  <2>1. tries # <<>> => tries[2] \in Listed!Tries /\ tries[2].at >= BeginAt /\ tries[2].at <= now'
    <3>1. tries # <<>> => tries[2].at \in Nat /\ tries[2].at <= now
      BY <1>1 DEF Listed!BlocklistTypes, Listed!Tries
    <3> QED
      BY <1>1, <1>3, <3>1 DEF Listed!BlocklistTypes
  <2>2. now' >= BeginAt /\ thread.readAt <= now'
    <3>1. now >= BeginAt /\ thread.readAt <= now /\ thread.readAt \in Nat /\ now \in Nat
      BY <1>1 DEF Listed!BlocklistTypes, Listed!Threads
    <3> QED
      BY <1>3, <3>1, ListConstants
  <2> QED
    BY <1>1, <1>2, <1>3, <2>1, <2>2, Zenon DEF Listed!BlocklistTypes
<1>6. Listed!ListFollows'
  <2>1. \A e : file # None /\ Listed!AsRead(e) /\ file' # None => Listed!AsRead(e)'
    BY <1>1, <1>2, <1>3 DEF Listed!AsRead, Listed!BlocklistTypes
  <2> QED
    BY <1>1, <1>2, <1>3, <2>1 DEF Listed!ListFollows, Listed!AsRead, Listed!BlocklistTypes,
       Listed!Threads
<1> QED
  BY <1>4, <1>5, <1>6 DEF Listed!BlocklistInv

LEMMA ConfigureKeepsList ==
    ASSUME Listed!BlocklistAssumption, Listed!BlocklistInv, Listed!Configure
    PROVE  Listed!BlocklistInv'
<1> DEFINE sources == v1  dirty == v2  fetched_at == v3  set == v4  running == v5
           thread == v6  file == v7  saved == v8  now == v9  tries == v10  left == v11
<1>1. Listed!BlocklistTypes /\ Listed!ListFollows /\ Listed!TriesRecorded
      /\ Listed!FetchesAreSpaced
  BY DEF Listed!BlocklistInv
<1>2. /\ sources' \in Listed!Settings /\ dirty' = TRUE
      /\ UNCHANGED <<fetched_at, set, file, saved, now, tries>>
      /\ left' = [left EXCEPT !.reloads = @ - 1] /\ left.reloads > 0
  BY DEF Listed!Configure
<1>3. left' \in [edits : Nat, reloads : Nat, restarts : Nat]
  BY <1>1, <1>2 DEF Listed!BlocklistTypes
<1>4. CASE thread' = thread /\ running' = running
  <2>1. Listed!BlocklistTypes'
    BY <1>1, <1>2, <1>3, <1>4, Zenon DEF Listed!BlocklistTypes
  <2>2. Listed!ListFollows'
    BY <1>1, <1>2, <1>4 DEF Listed!ListFollows, Listed!AsRead
  <2>3. Listed!TriesRecorded' /\ Listed!FetchesAreSpaced'
    BY <1>1, <1>2, <1>4, OthersKeepTries DEF Listed!BlocklistTypes
  <2> QED
    BY <2>1, <2>2, <2>3 DEF Listed!BlocklistInv
<1>5. CASE ~running /\ running' = TRUE /\ thread' \in Listed!Started
  <2>1. New(thread)'
    <3>1. New(thread')
      BY <1>5, NewThreads, Zenon
    <3> QED
      BY <3>1 DEF New
  <2>2. thread.at = "none"
    BY <1>1, <1>5 DEF Listed!BlocklistTypes
  <2>3. Listed!BlocklistTypes'
    BY <1>1, <1>2, <1>3, <1>5, <2>1 DEF Listed!BlocklistTypes, New, Listed!Working
  <2>4. Listed!ListFollows'
    BY <1>2, <2>1 DEF Listed!ListFollows, New, Listed!Working
  <2>5. Listed!FetchesAreSpaced'
    BY <1>1, <1>2 DEF Listed!FetchesAreSpaced
  <2>6. Listed!TriesRecorded'
    BY <1>1, <1>2, <2>1, <2>2 DEF Listed!TriesRecorded, Listed!Pause, New
  <2> QED
    BY <2>3, <2>4, <2>5, <2>6 DEF Listed!BlocklistInv
<1> QED
  BY <1>4, <1>5, Zenon DEF Listed!Configure

\* A step of the thread that leaves its tries alone, and does not begin a fetch.
LEMMA IdleKeepsTries ==
    ASSUME Listed!BlocklistInv, UNCHANGED <<v10, v3>>,
           v6.at # "publish", v6'.at \notin {"rebuild", "file", "url", "publish"}
    PROVE  Listed!TriesRecorded' /\ Listed!FetchesAreSpaced'
<1> DEFINE fetched_at == v3  tries == v10
<1>1. Listed!TriesRecorded /\ Listed!FetchesAreSpaced
  BY DEF Listed!BlocklistInv
<1>2. Listed!FetchesAreSpaced'
  BY <1>1 DEF Listed!FetchesAreSpaced
<1>3. Listed!TriesRecorded'
  <2>1. tries # <<>> => fetched_at >= tries[2].at - tries[2].refresh + Listed!Pause(tries[2])
    BY <1>1 DEF Listed!TriesRecorded
  <2> QED
    BY <2>1 DEF Listed!TriesRecorded, Listed!Pause
<1> QED
  BY <1>2, <1>3

LEMMA WakeKeepsList ==
    ASSUME Listed!BlocklistInv, Listed!Wake
    PROVE  Listed!BlocklistInv'
<1> DEFINE sources == v1  dirty == v2  fetched_at == v3  set == v4  running == v5
           thread == v6  file == v7  saved == v8  now == v9  tries == v10  left == v11
<1>1. Listed!BlocklistTypes /\ Listed!ListFollows
  BY DEF Listed!BlocklistInv
<1>2. /\ thread.at = "wait" /\ thread' = [thread EXCEPT !.at = "top"]
      /\ UNCHANGED <<sources, dirty, fetched_at, set, running, file, saved, now, tries, left>>
  BY DEF Listed!Wake
<1>3. /\ thread' \in Listed!Threads /\ thread'.at = "top" /\ thread'.seen = thread.seen
      /\ thread'.readAt = thread.readAt
  BY <1>1, <1>2 DEF Listed!BlocklistTypes, Listed!Threads, Listed!Places
<1>4. Listed!BlocklistTypes'
  BY <1>1, <1>2, <1>3 DEF Listed!BlocklistTypes, Listed!Working
<1>5. Listed!ListFollows'
  BY <1>1, <1>2, <1>3 DEF Listed!ListFollows, Listed!Working, Listed!AsRead
<1>6. Listed!TriesRecorded' /\ Listed!FetchesAreSpaced'
  BY <1>2, <1>3, IdleKeepsTries
<1> QED
  BY <1>4, <1>5, <1>6 DEF Listed!BlocklistInv

LEMMA TopKeepsList ==
    ASSUME Listed!BlocklistInv, Listed!Top
    PROVE  Listed!BlocklistInv'
<1> DEFINE sources == v1  dirty == v2  fetched_at == v3  set == v4  running == v5
           thread == v6  file == v7  saved == v8  now == v9  tries == v10  left == v11
<1>1. Listed!BlocklistTypes /\ Listed!ListFollows
  BY DEF Listed!BlocklistInv
<1>2. /\ thread.at = "top" /\ dirty' = FALSE
      /\ UNCHANGED <<sources, fetched_at, running, file, saved, now, tries, left>>
  BY DEF Listed!Top
<1>3. CASE Listed!IsEmpty(sources)
  <2>1. set' = (IF dirty THEN None ELSE set) /\ thread' = Listed!Waiting(thread)
    BY <1>3 DEF Listed!Top
  <2>2. /\ thread' \in Listed!Threads /\ thread'.at = "wait" /\ thread'.seen = thread.seen
        /\ thread'.readAt = thread.readAt
    BY <1>1, <2>1, WaitingIs DEF Listed!BlocklistTypes
  <2>3. Listed!BlocklistTypes'
    BY <1>1, <1>2, <2>2 DEF Listed!BlocklistTypes, Listed!Working
  <2>4. set' = None
    BY <1>1, <1>2, <1>3, <2>1 DEF Listed!ListFollows, Listed!BlocklistTypes
  <2>5. sources.file = FALSE
    BY <1>1, <1>3 DEF Listed!IsEmpty, Listed!BlocklistTypes, Listed!Settings
  <2>6. Listed!ListFollows'
    BY <1>1, <1>2, <2>2, <2>4, <2>5 DEF Listed!ListFollows, Listed!Working
  <2>7. Listed!TriesRecorded' /\ Listed!FetchesAreSpaced'
    BY <1>2, <2>2, IdleKeepsTries
  <2> QED
    BY <2>3, <2>6, <2>7 DEF Listed!BlocklistInv
<1>4. CASE ~Listed!IsEmpty(sources)
  <2>1. set' = set /\ thread' = [thread EXCEPT !.at = "look", !.src = sources, !.dirty = dirty]
    BY <1>4 DEF Listed!Top
  <2>2. /\ thread' \in Listed!Threads /\ thread'.at = "look" /\ thread'.seen = thread.seen
        /\ thread'.readAt = thread.readAt /\ thread'.src = sources /\ thread'.dirty = dirty
    BY <1>1, <2>1 DEF Listed!BlocklistTypes, Listed!Threads, Listed!Places
  <2>3. Listed!BlocklistTypes'
    BY <1>1, <1>2, <2>2 DEF Listed!BlocklistTypes, Listed!Working
  <2>4. Listed!IsEmpty(sources)' = Listed!IsEmpty(sources)
    BY <1>2 DEF Listed!IsEmpty
  <2>5. Listed!ListFollows'
    BY <1>1, <1>2, <1>4, <2>1, <2>2, <2>4 DEF Listed!ListFollows, Listed!Working, Listed!AsRead
  <2>6. Listed!TriesRecorded' /\ Listed!FetchesAreSpaced'
    BY <1>2, <2>2, IdleKeepsTries
  <2> QED
    BY <2>3, <2>5, <2>6 DEF Listed!BlocklistInv
<1> QED
  BY <1>3, <1>4

LEMMA DueIsSpaced ==
    ASSUME NEW n \in Nat, NEW f \in Int, NEW x \in Nat, NEW r \in Nat, NEW a \in Nat,
             NEW q \in Int,
           n - Listed!Larger(f, x) >= r, f >= a - r + q
    PROVE  n - a >= q
BY DEF Listed!Larger

LEMMA LookKeepsList ==
    ASSUME Listed!BlocklistAssumption, Listed!BlocklistInv, Listed!Look
    PROVE  Listed!BlocklistInv'
<1> DEFINE sources == v1  dirty == v2  fetched_at == v3  set == v4  running == v5
           thread == v6  file == v7  saved == v8  now == v9  tries == v10  left == v11
<1> DEFINE s == thread.src
           mtime == IF s.file THEN Listed!Mtime(file) ELSE None
           x == IF saved = None THEN 0 ELSE saved.mtime
           d == Listed!Due(s)
           u == (s.url # None)
           t == [thread EXCEPT !.seen = mtime, !.due = d, !.refresh = s.refresh, !.asks = u,
                             !.savedAt = x]
<1>1. Listed!BlocklistTypes /\ Listed!ListFollows /\ Listed!TriesRecorded
      /\ Listed!FetchesAreSpaced
  BY DEF Listed!BlocklistInv
<1>2. /\ thread.at = "look"
      /\ UNCHANGED <<sources, dirty, fetched_at, set, running, file, saved, now, tries, left>>
      /\ thread' = IF thread.dirty \/ mtime # thread.seen \/ d
                   THEN [t EXCEPT !.at = "rebuild"] ELSE Listed!Waiting(t)
  BY Zenon DEF Listed!Look
<1>3. s \in Listed!Settings /\ s.refresh \in Refreshes /\ s.refresh \in Nat /\ d \in BOOLEAN
      /\ u \in BOOLEAN
  <2>1. s \in Listed!Settings
    BY <1>1, <1>2 DEF Listed!BlocklistTypes, Listed!Working
  <2>2. s.refresh \in Refreshes
    BY <2>1 DEF Listed!Settings
  <2> HIDE DEF s
  <2>3. Listed!Due(s) \in BOOLEAN
    BY DEF Listed!Due
  <2> QED
    BY <2>1, <2>2, <2>3, ListConstants
<1>4. mtime \in Nat \cup {None} /\ x \in Nat
  BY <1>1 DEF Listed!BlocklistTypes, Listed!Mtime
<1>5. t \in Listed!Threads /\ t.seen = mtime /\ t.readAt = thread.readAt /\ t.src = s /\ t.due = d
      /\ t.refresh = s.refresh
  <2>1. thread \in Listed!Threads /\ s = thread.src
    BY <1>1 DEF Listed!BlocklistTypes
  <2> HIDE DEF mtime, s, x, d, u
  <2>2. t \in Listed!Threads
    BY <1>3, <1>4, <2>1 DEF Listed!Threads
  <2> QED
    BY <2>1, <2>2 DEF Listed!Threads
<1> HIDE DEF t
<1>6. CASE ~(thread.dirty \/ mtime # thread.seen \/ d)
  <2>1. thread' = Listed!Waiting(t) /\ mtime = thread.seen
    BY <1>2, <1>6, Zenon
  <2>2. /\ thread' \in Listed!Threads /\ thread'.at = "wait" /\ thread'.seen = thread.seen
        /\ thread'.readAt = thread.readAt
    BY <1>1, <1>5, <2>1, WaitingIs DEF Listed!BlocklistTypes
  <2>3. Listed!BlocklistTypes'
    BY <1>1, <1>2, <2>2 DEF Listed!BlocklistTypes, Listed!Working
  <2>4. thread.dirty = FALSE
    BY <1>1, <1>6 DEF Listed!BlocklistTypes, Listed!Threads
  <2>5. Listed!ListFollows'
    BY <1>1, <1>2, <2>2, <2>4 DEF Listed!ListFollows, Listed!Working, Listed!AsRead
  <2>6. Listed!TriesRecorded' /\ Listed!FetchesAreSpaced'
    BY <1>2, <2>2, IdleKeepsTries
  <2> QED
    BY <2>3, <2>5, <2>6 DEF Listed!BlocklistInv
<1>7. CASE thread.dirty \/ mtime # thread.seen \/ d
  <2>1. thread' = [t EXCEPT !.at = "rebuild"]
    BY <1>2, <1>7, Zenon
  <2>2. /\ thread' \in Listed!Threads /\ thread'.at = "rebuild" /\ thread'.seen = mtime
        /\ thread'.readAt = thread.readAt /\ thread'.src = s /\ thread'.due = d
        /\ thread'.refresh = s.refresh
    <3> HIDE DEF mtime, s, x, d
    <3> QED
      BY <1>5, <2>1 DEF Listed!Threads, Listed!Places
  <2>3. Listed!BlocklistTypes'
    BY <1>1, <1>2, <1>3, <2>2 DEF Listed!BlocklistTypes, Listed!Working
  <2>4. mtime = None \/ mtime <= now
    BY <1>1 DEF Listed!BlocklistTypes, Listed!Mtime
  <2>5. Listed!ListFollows'
    BY <1>1, <1>2, <2>2, <2>4 DEF Listed!ListFollows, Listed!Working
  <2>6. Listed!FetchesAreSpaced'
    BY <1>1, <1>2 DEF Listed!FetchesAreSpaced
  <2>7. Listed!TriesRecorded'
    <3>1. tries # <<>> => fetched_at >= tries[2].at - tries[2].refresh + Listed!Pause(tries[2])
      BY <1>1, <1>2 DEF Listed!TriesRecorded
    <3>2. ASSUME tries # <<>>, d, tries[2].refresh = s.refresh
          PROVE  now - tries[2].at >= Listed!Pause(tries[2])
      <4>1. /\ tries[2].at \in Nat /\ now \in Nat /\ tries[2].refresh \in Refreshes
            /\ fetched_at \in Int
        BY <1>1, <3>2 DEF Listed!BlocklistTypes, Listed!Tries
      <4>2. Listed!Pause(tries[2]) \in Int /\ tries[2].refresh \in Nat
        BY <4>1, ListConstants DEF Listed!Pause, Listed!Smaller
      <4>3. now - Listed!Larger(fetched_at, x) >= tries[2].refresh
        BY <3>2 DEF Listed!Due
      <4>4. fetched_at >= tries[2].at - tries[2].refresh + Listed!Pause(tries[2])
        BY <3>1, <3>2
      <4> DEFINE a == tries[2].at  r == tries[2].refresh  q == Listed!Pause(tries[2])
      <4>5. /\ a \in Nat /\ r \in Nat /\ q \in Int /\ now - Listed!Larger(fetched_at, x) >= r
            /\ fetched_at >= a - r + q
        BY <4>1, <4>2, <4>3, <4>4, Zenon
      <4> HIDE DEF a, r, q, x
      <4>6. now - a >= q
        BY <1>4, <4>1, <4>5, DueIsSpaced, Zenon
      <4> QED
        BY <4>6 DEF a, q
    <3> HIDE DEF mtime, s, x, d
    <3> QED
      BY <1>2, <2>2, <3>1, <3>2 DEF Listed!TriesRecorded, Listed!Pause
  <2> QED
    BY <2>3, <2>5, <2>6, <2>7 DEF Listed!BlocklistInv
<1> QED
  BY <1>6, <1>7, Zenon

\* A step of the thread on its way to a fetch.
LEMMA OnTheWayKeepsTries ==
    ASSUME Listed!BlocklistInv, UNCHANGED <<v10, v3, v9>>,
           v6.at \in {"rebuild", "file", "url"}, v6'.at \in {"file", "url"},
           v6'.due = v6.due,
           v6'.refresh = v6.refresh
    PROVE  Listed!TriesRecorded' /\ Listed!FetchesAreSpaced'
<1> DEFINE tries == v10
<1>1. Listed!TriesRecorded /\ Listed!FetchesAreSpaced
  BY DEF Listed!BlocklistInv
<1>2. Listed!FetchesAreSpaced'
  BY <1>1 DEF Listed!FetchesAreSpaced
<1>3. Listed!Pause(tries[2])' = Listed!Pause(tries[2])
  BY DEF Listed!Pause
<1>4. Listed!TriesRecorded'
  BY <1>1, <1>3 DEF Listed!TriesRecorded
<1> QED
  BY <1>2, <1>4

LEMMA TakeSourcesKeepsList ==
    ASSUME Listed!BlocklistInv, Listed!TakeSources
    PROVE  Listed!BlocklistInv'
<1> DEFINE sources == v1  dirty == v2  fetched_at == v3  set == v4  running == v5
           thread == v6  file == v7  saved == v8  now == v9  tries == v10  left == v11
<1>1. Listed!BlocklistTypes /\ Listed!ListFollows
  BY DEF Listed!BlocklistInv
<1>2. /\ thread.at = "rebuild" /\ thread' = [thread EXCEPT !.at = "file", !.src = sources]
      /\ UNCHANGED <<sources, dirty, fetched_at, set, running, file, saved, now, tries, left>>
  BY DEF Listed!TakeSources
<1>3. /\ thread' \in Listed!Threads /\ thread'.at = "file" /\ thread'.seen = thread.seen
      /\ thread'.readAt = thread.readAt /\ thread'.src = sources /\ thread'.due = thread.due
      /\ thread'.refresh = thread.refresh
  BY <1>1, <1>2 DEF Listed!BlocklistTypes, Listed!Threads, Listed!Places
<1>4. Listed!BlocklistTypes'
  BY <1>1, <1>2, <1>3 DEF Listed!BlocklistTypes, Listed!Working
<1>5. Listed!IsEmpty(sources)' = Listed!IsEmpty(sources)
  BY <1>2 DEF Listed!IsEmpty
<1>6. Listed!ListFollows'
  BY <1>1, <1>2, <1>3, <1>5 DEF Listed!ListFollows, Listed!Working
<1>7. Listed!TriesRecorded' /\ Listed!FetchesAreSpaced'
  BY <1>2, <1>3, OnTheWayKeepsTries
<1> QED
  BY <1>4, <1>6, <1>7 DEF Listed!BlocklistInv

LEMMA LoadFileKeepsList ==
    ASSUME Listed!BlocklistInv, Listed!LoadFile
    PROVE  Listed!BlocklistInv'
<1> DEFINE sources == v1  dirty == v2  fetched_at == v3  set == v4  running == v5
           thread == v6  file == v7  saved == v8  now == v9  tries == v10  left == v11
<1> DEFINE e == IF thread.src.file /\ file # None THEN file.edit ELSE None
<1>1. Listed!BlocklistTypes /\ Listed!ListFollows
  BY DEF Listed!BlocklistInv
<1>2. /\ thread.at = "file" /\ thread' = [thread EXCEPT !.at = "url", !.readAt = now, !.edit = e]
      /\ UNCHANGED <<sources, dirty, fetched_at, set, running, file, saved, now, tries, left>>
  BY DEF Listed!LoadFile
<1>3. e \in Nat \cup {None} /\ (thread.src.file /\ file # None => e = file.edit)
  BY <1>1 DEF Listed!BlocklistTypes
<1> HIDE DEF e
<1>4. /\ thread' \in Listed!Threads /\ thread'.at = "url" /\ thread'.seen = thread.seen
      /\ thread'.readAt = now /\ thread'.edit = e /\ thread'.src = thread.src
      /\ thread'.due = thread.due /\ thread'.refresh = thread.refresh
  BY <1>1, <1>2, <1>3 DEF Listed!BlocklistTypes, Listed!Threads, Listed!Places
<1>5. Listed!BlocklistTypes'
  BY <1>1, <1>2, <1>4 DEF Listed!BlocklistTypes, Listed!Working
<1>6. Listed!IsEmpty(sources)' = Listed!IsEmpty(sources)
  BY <1>2 DEF Listed!IsEmpty
<1>7. Listed!ListFollows'
  BY <1>1, <1>2, <1>3, <1>4, <1>6 DEF Listed!ListFollows, Listed!Working, Listed!AsRead
<1>8. Listed!TriesRecorded' /\ Listed!FetchesAreSpaced'
  BY <1>2, <1>4, OnTheWayKeepsTries
<1> QED
  BY <1>5, <1>7, <1>8 DEF Listed!BlocklistInv

LEMMA LoadUrlKeepsList ==
    ASSUME Listed!BlocklistAssumption, Listed!BlocklistInv, Listed!LoadUrl
    PROVE  Listed!BlocklistInv'
<1> DEFINE sources == v1  dirty == v2  fetched_at == v3  set == v4  running == v5
           thread == v6  file == v7  saved == v8  now == v9  tries == v10  left == v11
<1> DEFINE url == thread.src.url
           fetches == thread.due /\ url # None
           new == [at |-> now, refresh |-> thread.src.refresh, due |-> thread.refresh]
           old == IF tries = <<>> THEN None ELSE tries[2]
<1>1. Listed!BlocklistTypes /\ Listed!ListFollows /\ Listed!TriesRecorded
      /\ Listed!FetchesAreSpaced
  BY DEF Listed!BlocklistInv
<1>2. /\ thread.at = "url"
      /\ UNCHANGED <<sources, dirty, fetched_at, set, running, file, now, left>>
      /\ tries' = IF fetches THEN <<old, new>> ELSE tries
  BY Zenon DEF Listed!LoadUrl
<1>3. \/ /\ fetches /\ saved' \in {saved, [url |-> url, mtime |-> now]}
         /\ thread' = [thread EXCEPT !.at = "publish", !.text = url, !.fetched = TRUE]
      \/ /\ saved' = saved
         /\ thread' = [thread EXCEPT !.at = "publish", !.fetched = FALSE,
                                     !.text = IF url = None THEN None ELSE Listed!SavedText]
  BY Zenon DEF Listed!LoadUrl
<1>4. thread.src \in Listed!Settings /\ url \in Urls \cup {None}
      /\ thread.src.refresh \in Refreshes
  <2>1. thread.src \in Listed!Settings
    BY <1>1, <1>2 DEF Listed!BlocklistTypes, Listed!Working
  <2> QED
    BY <2>1 DEF Listed!Settings
<1>5. /\ thread' \in Listed!Threads /\ thread'.at = "publish" /\ thread'.seen = thread.seen
      /\ thread'.readAt = thread.readAt /\ thread'.edit = thread.edit /\ thread'.src = thread.src
      /\ thread'.due = thread.due
      /\ saved' \in {None} \cup [url : Urls, mtime : Nat]
  <2> DEFINE text == IF url = None THEN None ELSE Listed!SavedText
  <2>1. text \in Urls \cup {None}
    BY <1>1 DEF Listed!BlocklistTypes, Listed!SavedText
  <2>2. thread \in Listed!Threads /\ now \in Nat /\ saved \in {None}
          \cup [url : Urls, mtime : Nat]
    BY <1>1 DEF Listed!BlocklistTypes
  <2> HIDE DEF url, text
  <2>3. CASE /\ fetches /\ saved' \in {saved, [url |-> url, mtime |-> now]}
             /\ thread' = [thread EXCEPT !.at = "publish", !.text = url, !.fetched = TRUE]
    <3>1. url \in Urls
      BY <1>4, <2>3
    <3>2. saved' \in {None} \cup [url : Urls, mtime : Nat]
      <4>1. [url |-> url, mtime |-> now] \in [url : Urls, mtime : Nat]
        BY <2>2, <3>1
      <4> QED
        BY <2>2, <2>3, <4>1, Zenon
    <3>3. thread' = [thread EXCEPT !.at = "publish", !.text = url, !.fetched = TRUE]
      BY <2>3
    <3> QED
      BY <1>4, <2>2, <3>2, <3>3 DEF Listed!Threads, Listed!Places
  <2>4. CASE /\ saved' = saved
             /\ thread' = [thread EXCEPT !.at = "publish", !.fetched = FALSE, !.text = text]
    BY <2>1, <2>2, <2>4 DEF Listed!Threads, Listed!Places
  <2> QED
    BY <1>3, <2>3, <2>4, Zenon DEF text
<1>6. new \in Listed!Tries /\ new.at = now /\ new.refresh = thread.src.refresh /\ new.due
        = thread.refresh
  BY <1>1, <1>4 DEF Listed!BlocklistTypes, Listed!Tries, Listed!Threads
<1> HIDE DEF new, old
<1>7. (~fetches /\ tries' = tries) \/ (fetches /\ tries' = <<old, new>>)
  BY <1>2, Zenon
<1>8. tries' = <<old, new>> => tries'[1] = old /\ tries'[2] = new
  OBVIOUS
<1>9. Listed!BlocklistTypes'
  <2>1. tries' # <<>> => /\ tries'[2] \in Listed!Tries /\ tries'[2].at >= BeginAt
                         /\ tries'[2].at <= now
    BY <1>1, <1>6, <1>7, <1>8 DEF Listed!BlocklistTypes
  <2>2. thread'.at \in Listed!Working => thread'.src \in Listed!Settings
    BY <1>4, <1>5
  <2>3. thread'.readAt <= now /\ (~running => thread'.at = "none")
    BY <1>1, <1>2, <1>5 DEF Listed!BlocklistTypes
  <2> QED
    BY <1>1, <1>2, <1>5, <2>1, <2>2, <2>3, Zenon DEF Listed!BlocklistTypes
<1>10. Listed!IsEmpty(sources)' = Listed!IsEmpty(sources)
  BY <1>2 DEF Listed!IsEmpty
<1>11. Listed!ListFollows'
  BY <1>1, <1>2, <1>5, <1>10 DEF Listed!ListFollows, Listed!Working, Listed!AsRead
<1>12. Listed!TriesRecorded'
  <2>1. CASE ~fetches /\ tries' = tries
    <3>1. tries # <<>> => fetched_at >= tries[2].at - tries[2].refresh + Listed!Pause(tries[2])
      BY <1>1, <1>2 DEF Listed!TriesRecorded
    <3> QED
      BY <1>2, <1>5, <2>1, <3>1 DEF Listed!TriesRecorded, Listed!Pause
  <2>2. CASE fetches /\ tries' = <<old, new>>
    BY <1>2, <1>5, <1>6, <1>8, <2>2 DEF Listed!TriesRecorded
  <2> QED
    BY <1>7, <2>1, <2>2
<1>13. Listed!FetchesAreSpaced'
  <2>1. CASE ~fetches /\ tries' = tries
    BY <1>1, <2>1 DEF Listed!FetchesAreSpaced
  <2>2. CASE fetches /\ tries' = <<old, new>>
    <3> SUFFICES ASSUME old # None, old.refresh = new.due
                 PROVE  new.at - old.at >= Listed!Smaller(Retry, old.refresh)
      BY <1>8, <2>2, Zenon DEF Listed!FetchesAreSpaced
    <3>1. tries # <<>> /\ old = tries[2]
      BY DEF old
    <3>2. now - tries[2].at >= Listed!Pause(tries[2])
      BY <1>1, <1>2, <1>6, <2>2, <3>1 DEF Listed!TriesRecorded
    <3> QED
      BY <1>6, <3>1, <3>2, Zenon DEF Listed!Pause
  <2> QED
    BY <1>7, <2>1, <2>2
<1> QED
  BY <1>9, <1>11, <1>12, <1>13 DEF Listed!BlocklistInv

\* What Publish makes of fetched_at keeps the pause of the last try.
LEMMA PublishRecords ==
    ASSUME Listed!BlocklistAssumption, Listed!BlocklistInv, Listed!Publish
    PROVE  /\ v3' \in Int
           /\ v10 # <<>> => v3' >= v10[2].at - v10[2].refresh + Listed!Pause(v10[2])
<1> DEFINE fetched_at == v3  thread == v6  now == v9  tries == v10
<1> DEFINE at == Listed!NextFetchAt(thread)
<1>1. Listed!BlocklistTypes /\ Listed!TriesRecorded
  BY DEF Listed!BlocklistInv
<1>2. /\ thread.at = "publish"
      /\ fetched_at' = IF ~thread.due /\ thread.asks /\ at = 0 THEN thread.savedAt ELSE at
  BY DEF Listed!Publish
<1>3. /\ fetched_at \in Int /\ now \in Nat /\ thread.savedAt \in Nat /\ thread.src.refresh \in Nat
      /\ Retry \in Nat
  <2>1. thread.src \in Listed!Settings /\ thread \in Listed!Threads
    BY <1>1, <1>2 DEF Listed!BlocklistTypes, Listed!Working
  <2>2. thread.src.refresh \in Refreshes /\ thread.savedAt \in Nat
    BY <2>1 DEF Listed!Settings, Listed!Threads
  <2> QED
    BY <1>1, <2>2, ListConstants DEF Listed!BlocklistTypes
<1>4. \/ thread.fetched /\ at = now
      \/ ~thread.fetched /\ thread.due /\ thread.src.url # None /\ at = now
           - thread.src.refresh + Retry
      \/ ~thread.fetched /\ ~(thread.due /\ thread.src.url # None) /\ at = fetched_at
  BY DEF Listed!NextFetchAt
<1> HIDE DEF at
<1>5. at \in Int
  BY <1>3, <1>4
<1>6. fetched_at' \in Int
  BY <1>2, <1>3, <1>5
<1>7. ASSUME tries # <<>>
      PROVE  fetched_at' >= tries[2].at - tries[2].refresh + Listed!Pause(tries[2])
  <2> DEFINE a == tries[2].at  r == tries[2].refresh  q == Listed!Pause(tries[2])
  <2>1. a \in Nat /\ a <= now /\ a >= BeginAt /\ r \in Refreshes
    BY <1>1, <1>7 DEF Listed!BlocklistTypes, Listed!Tries
  <2>2. r \in Nat /\ r >= 1 /\ r < BeginAt /\ BeginAt \in Nat
    BY <2>1, ListConstants
  <2>3. q \in Int /\ q <= r /\ q <= Retry /\ q >= 0
    BY <1>3, <2>2 DEF Listed!Pause, Listed!Smaller
  <2>4. /\ fetched_at >= a - r + q \/ (thread.due /\ thread.src.url # None)
        /\ thread.due /\ thread.src.url # None => thread.src.refresh = r
    BY <1>1, <1>2, <1>7 DEF Listed!TriesRecorded
  <2> HIDE DEF a, r, q
  <2>5. at >= a - r + q
    <3>1. CASE thread.fetched /\ at = now
      BY <1>3, <2>1, <2>2, <2>3, <3>1
    <3>2. CASE thread.due /\ thread.src.url # None /\ at = now - thread.src.refresh + Retry
      BY <1>3, <2>1, <2>2, <2>3, <2>4, <3>2
    <3>3. CASE ~(thread.due /\ thread.src.url # None) /\ at = fetched_at
      BY <2>4, <3>3
    <3> QED
      BY <1>4, <3>1, <3>2, <3>3
  <2>6. at # 0
    BY <1>5, <2>1, <2>2, <2>3, <2>5
  <2>7. fetched_at' >= a - r + q
    BY <1>2, <2>5, <2>6
  <2> QED
    BY <2>7 DEF a, r, q
<1> QED
  BY <1>6, <1>7

LEMMA PublishKeepsList ==
    ASSUME Listed!BlocklistAssumption, Listed!BlocklistInv, Listed!Publish
    PROVE  Listed!BlocklistInv'
<1> DEFINE sources == v1  dirty == v2  fetched_at == v3  set == v4  running == v5
           thread == v6  file == v7  saved == v8  now == v9  tries == v10  left == v11
<1>1. Listed!BlocklistTypes /\ Listed!ListFollows /\ Listed!TriesRecorded
      /\ Listed!FetchesAreSpaced
  BY DEF Listed!BlocklistInv
<1>2. /\ thread.at = "publish" /\ set' = [file |-> thread.edit, url |-> thread.text]
      /\ thread' = Listed!Waiting(thread)
      /\ UNCHANGED <<sources, dirty, running, file, saved, now, tries, left>>
  BY DEF Listed!Publish
<1>3. /\ thread' \in Listed!Threads /\ thread'.at = "wait" /\ thread'.seen = thread.seen
      /\ thread'.readAt = thread.readAt
  BY <1>1, <1>2, WaitingIs DEF Listed!BlocklistTypes
<1>4. /\ fetched_at' \in Int
      /\ tries # <<>> => fetched_at' >= tries[2].at - tries[2].refresh + Listed!Pause(tries[2])
  BY PublishRecords
<1>5. Listed!BlocklistTypes'
  BY <1>1, <1>2, <1>3, <1>4 DEF Listed!BlocklistTypes, Listed!Working
<1>6. set'.file = thread.edit
  BY <1>2
<1>7. Listed!ListFollows'
  BY <1>1, <1>2, <1>3, <1>6 DEF Listed!ListFollows, Listed!Working, Listed!AsRead,
     Listed!IsEmpty
<1>8. Listed!FetchesAreSpaced'
  BY <1>1, <1>2 DEF Listed!FetchesAreSpaced
<1>9. Listed!TriesRecorded'
  BY <1>2, <1>3, <1>4 DEF Listed!TriesRecorded, Listed!Pause
<1> QED
  BY <1>5, <1>7, <1>8, <1>9 DEF Listed!BlocklistInv

LEMMA ListKept ==
    ASSUME Listed!BlocklistAssumption
    PROVE  Listed!BlocklistInv /\ [Listed!Next]_(Listed!vars) => Listed!BlocklistInv'
<1> DEFINE sources == v1  dirty == v2  fetched_at == v3  set == v4  running == v5
           thread == v6  file == v7  saved == v8  now == v9  tries == v10  left == v11
<1> SUFFICES ASSUME Listed!BlocklistInv, [Listed!Next]_(Listed!vars) PROVE Listed!BlocklistInv'
  OBVIOUS
<1>1. CASE Listed!Next
  BY <1>1, ConfigureKeepsList, OutsideKeepsList, RestartBeginsList, TopKeepsList, LookKeepsList,
     TakeSourcesKeepsList, LoadFileKeepsList, LoadUrlKeepsList, PublishKeepsList, WakeKeepsList,
     Zenon DEF Listed!Next
<1>2. CASE UNCHANGED Listed!vars
  <2>1. UNCHANGED <<sources, dirty, fetched_at, set, running, thread, file, saved, now, tries,
          left>>
    BY <1>2 DEF Listed!vars
  <2>2. Listed!BlocklistTypes'
    BY <2>1, Zenon DEF Listed!BlocklistInv, Listed!BlocklistTypes
  <2>3. Listed!ListFollows'
    BY <2>1, Zenon DEF Listed!BlocklistInv, Listed!ListFollows, Listed!AsRead, Listed!IsEmpty
  <2>4. Listed!TriesRecorded' /\ Listed!FetchesAreSpaced'
    BY <2>1, Zenon DEF Listed!BlocklistInv, Listed!TriesRecorded, Listed!FetchesAreSpaced,
       Listed!Pause
  <2> QED
    BY <2>2, <2>3, <2>4 DEF Listed!BlocklistInv
<1> QED
  BY <1>1, <1>2

LEMMA ListPromise ==
    ASSUME Listed!BlocklistAssumption, Listed!BlocklistInv
    PROVE  Listed!ChangeIsNoticed /\ Listed!NothingIsLeft /\ Listed!FetchesAreSpaced
<1> DEFINE sources == v1  set == v4  thread == v6  file == v7
<1>1. Listed!BlocklistTypes /\ Listed!ListFollows /\ Listed!FetchesAreSpaced
  BY DEF Listed!BlocklistInv
<1>2. Listed!ChangeIsNoticed
  <2> SUFFICES ASSUME Listed!AtRest, sources.file, file # None
               PROVE  set.file = file.edit \/ file.mtime # thread.seen \/ file.mtime
                        = thread.readAt
    BY DEF Listed!ChangeIsNoticed
  <2>1. Listed!AsRead(set.file) /\ (thread.seen = None \/ thread.seen <= thread.readAt)
    BY <1>1 DEF Listed!AtRest, Listed!ListFollows
  <2>2. file.mtime \in Nat /\ thread.readAt \in Nat /\ thread.seen \in Nat \cup {None}
    BY <1>1 DEF Listed!BlocklistTypes, Listed!Threads
  <2>3. CASE file.mtime >= thread.readAt
    <3>1. CASE thread.seen = None
      BY <2>2, <3>1, ListConstants
    <3>2. CASE thread.seen # None /\ thread.seen <= thread.readAt
      BY <2>2, <2>3, <3>2
    <3> QED
      BY <2>1, <3>1, <3>2
  <2>4. CASE set.file = file.edit
    BY <2>4
  <2> QED
    BY <2>1, <2>3, <2>4, Zenon DEF Listed!AsRead
<1>3. Listed!NothingIsLeft
  BY <1>1 DEF Listed!NothingIsLeft, Listed!AtRest, Listed!ListFollows
<1> QED
  BY <1>1, <1>2, <1>3

-----------------------------------------------------------------------------
LEMMA ProbeConstants ==
    ASSUME Allocation!DiskProbeAssumption
    PROVE  /\ FirstSize \in Nat /\ SizeStep \in Nat /\ Floor \in Nat /\ Confirm \in Nat
           /\ MaxSlack \in Nat
           /\ Floor >= 1 /\ Floor < FirstSize /\ MaxSlack < Confirm /\ Confirm > 0
           /\ \A l \in Limits : l \in Nat /\ l >= Floor
           /\ None \notin Nat
           /\ MaxStops \in Nat /\ MaxFaults \in Nat
<1>1. /\ {FirstSize, SizeStep, Floor, Confirm, Heartbeat, StallTicks, Relearn} \subseteq Nat \ {0}
      /\ Floor < FirstSize
      /\ \A l \in Limits : l \in Nat /\ l >= Floor
      /\ {LastNow, MaxStops, MaxFaults, MaxSlack} \subseteq Nat /\ MaxSlack < Confirm
      /\ None \notin Nat
  BY DEF Allocation!DiskProbeAssumption
<1> QED
  BY <1>1

\* A size that the host does not grant was not asked for as long as it takes to confirm it.
LEMMA NotConfirmed ==
    ASSUME Allocation!DiskProbeAssumption, Allocation!ProbeTypes, NEW t \in Nat,
             Allocation!AskedSince(t)
    PROVE  v9 - t < Confirm
<1> DEFINE ticked == v8  now == v9  left == v10
<1> DEFINE extra == IF ticked /\ ~Allocation!TooMuch THEN 1 ELSE 0
<1>1. extra \in Nat
  OBVIOUS
<1>2. now - t + extra <= MaxSlack - left.slack
  BY DEF Allocation!AskedSince
<1>3. now \in Nat /\ left.slack \in Nat
  BY DEF Allocation!ProbeTypes
<1> HIDE DEF extra
<1> QED
  BY <1>1, <1>2, <1>3, ProbeConstants

\* What is remembered when nothing is known.
LEMMA FreshIs ==
    ASSUME Allocation!DiskProbeAssumption, NEW t \in Nat
    PROVE  /\ Allocation!Fresh(t) \in Allocation!Probes
           /\ Allocation!Fresh(t).mode = "fast" /\ Allocation!Fresh(t).learned = None
           /\ Allocation!Fresh(t).found = None
           /\ Allocation!Fresh(t).confirmed = FirstSize /\ Allocation!Fresh(t).cap = FirstSize
           /\ Allocation!Fresh(t).raised_at = t
           /\ Allocation!Fresh(t).started_at = t /\ Allocation!Fresh(t).alive = t
BY ProbeConstants DEF Allocation!Fresh, Allocation!Probes

LEMMA BlankIs ==
    ASSUME Allocation!DiskProbeAssumption
    PROVE  Allocation!Blank \in Allocation!Probes /\ Allocation!Sound(Allocation!Blank)
<1>1. Allocation!Fresh(0) \in Allocation!Probes /\ Allocation!Fresh(0).mode = "fast"
      /\ Allocation!Fresh(0).learned = None
  BY FreshIs
<1>2. Allocation!Blank \in Allocation!Probes /\ Allocation!Blank.mode = "fast"
      /\ Allocation!Blank.learned = None
  BY <1>1 DEF Allocation!Blank, Allocation!Probes
<1> QED
  BY <1>2 DEF Allocation!Sound

LEMMA SettledIs ==
    ASSUME NEW p \in Allocation!Probes, NEW size \in Nat, NEW t \in Nat
    PROVE  /\ Allocation!Settled(p, size, t) \in Allocation!Probes
           /\ Allocation!Settled(p, size, t)
                = [p EXCEPT !.learned = size, !.learned_at = t, !.confirmed = size,
                                              !.cap = size]
BY DEF Allocation!Settled, Allocation!Probes

\* A process that begins at time t.
Begun(q, t) ==
    /\ q \in Allocation!Probes /\ Allocation!Sound(q)
    /\ q.raised_at = t /\ q.started_at = t /\ q.alive = t /\ q.found = None
    /\ q.mode = "fast" /\ q.learned = None => q.confirmed = FirstSize /\ q.cap = FirstSize

\* What the slow mode makes of a process that went further than the host grants.
LEMMA LearnSlowBegins ==
    ASSUME Allocation!DiskProbeAssumption, v1.limit \in Limits, v9 \in Nat \ {0},
           NEW s \in Allocation!Probes, Allocation!Sound(s), s.mode = "slow"
    PROVE  Begun(Allocation!LearnSlow(s, [Allocation!Fresh(v9) EXCEPT !.mode = s.mode]), v9)
<1> DEFINE host == v1  now == v9
<1> DEFINE p == [Allocation!Fresh(now) EXCEPT !.mode = s.mode]
           size == Allocation!Larger(Allocation!Larger(s.cap, s.confirmed), Floor)
<1>1. p \in Allocation!Probes /\ p.mode = "slow" /\ p.learned = None /\ p.found = None
      /\ p.confirmed = FirstSize
      /\ p.cap = FirstSize /\ p.raised_at = now /\ p.started_at = now /\ p.alive = now
  BY FreshIs DEF Allocation!Probes
<1>2. /\ s.confirmed \in Nat /\ s.cap \in Nat /\ s.raised_at \in Nat /\ s.started_at \in Nat
      /\ s.alive \in Nat /\ s.early_stops \in Nat /\ s.learned \in Nat \cup {None}
  BY DEF Allocation!Probes
<1>3. /\ host.limit \in Nat /\ host.limit >= Floor /\ Floor \in Nat /\ FirstSize \in Nat
      /\ Confirm \in Nat
      /\ Floor < FirstSize
  BY ProbeConstants
<1> HIDE DEF p
<1>4. CASE Allocation!StoppedAfterRaise(s)
  <2>1. s.confirmed >= FirstSize /\ s.confirmed <= host.limit
    BY <1>4 DEF Allocation!StoppedAfterRaise, Allocation!Sound
  <2> DEFINE q == Allocation!Settled(p, s.confirmed, now)
  <2>2. q = [p EXCEPT !.learned = s.confirmed, !.learned_at = now, !.confirmed = s.confirmed,
                      !.cap = s.confirmed] /\ q \in Allocation!Probes
    <3>1. p \in Allocation!Probes /\ s.confirmed \in Nat /\ now \in Nat
      BY <1>1, <1>2
    <3>2. q \in Allocation!Probes
      BY <3>1, SettledIs, Zenon
    <3> QED
      BY <3>2 DEF q, Allocation!Settled
  <2> HIDE DEF q
  <2>3. /\ q.mode = "slow" /\ q.learned = s.confirmed /\ q.confirmed = s.confirmed
        /\ q.cap = s.confirmed /\ q.raised_at = now /\ q.started_at = now /\ q.alive = now
        /\ q.found = None
    BY <1>1, <2>2 DEF Allocation!Probes
  <2>4. Begun(q, now)
    BY <1>2, <1>3, <2>1, <2>2, <2>3 DEF Begun, Allocation!Sound
  <2>5. Allocation!LearnSlow(s, p) = q
    BY <1>4 DEF Allocation!LearnSlow, q
  <2> QED
    BY <2>4, <2>5 DEF p
<1>5. CASE ~Allocation!StoppedAfterRaise(s) /\ Allocation!StoppedEarly(s)
           /\ s.confirmed < FirstSize
  <2>1. CASE s.early_stops >= 1
    <3> DEFINE o == [p EXCEPT !.early_stops = s.early_stops + 1]
               q == Allocation!Settled(o, Floor, now)
    <3>1. o \in Allocation!Probes /\ o.mode = "slow" /\ o.found = None /\ o.raised_at = now
          /\ o.started_at = now /\ o.alive = now
      BY <1>1, <1>2 DEF Allocation!Probes
    <3> HIDE DEF o
    <3>2. q = [o EXCEPT !.learned = Floor, !.learned_at = now, !.confirmed = Floor, !.cap = Floor]
          /\ q \in Allocation!Probes
      <4>1. o \in Allocation!Probes /\ Floor \in Nat /\ now \in Nat
        BY <1>3, <3>1
      <4> QED
        BY <4>1, SettledIs, Zenon
    <3> HIDE DEF q
    <3>3. /\ q.mode = "slow" /\ q.learned = Floor /\ q.confirmed = Floor /\ q.cap = Floor
          /\ q.raised_at = now /\ q.started_at = now /\ q.alive = now /\ q.found = None
      BY <3>1, <3>2 DEF Allocation!Probes
    <3>4. Begun(q, now)
      BY <1>3, <3>2, <3>3 DEF Begun, Allocation!Sound
    <3>5. Allocation!LearnSlow(s, p) = q
      BY <1>5, <2>1 DEF Allocation!LearnSlow, q, o
    <3> QED
      BY <3>4, <3>5 DEF p
  <2>2. CASE ~(s.early_stops >= 1)
    <3> DEFINE q == [p EXCEPT !.early_stops = 1, !.confirmed = 0]
    <3>1. /\ q \in Allocation!Probes /\ q.mode = "slow" /\ q.learned = None /\ q.confirmed = 0
          /\ q.raised_at = now /\ q.started_at = now /\ q.alive = now /\ q.found = None
      BY <1>1 DEF Allocation!Probes
    <3> HIDE DEF q
    <3>2. Begun(q, now)
      BY <1>3, <3>1, ProbeConstants DEF Begun, Allocation!Sound
    <3>3. Allocation!LearnSlow(s, p) = q
      BY <1>5, <2>2 DEF Allocation!LearnSlow, q
    <3> QED
      BY <3>2, <3>3 DEF p
  <2> QED
    BY <2>1, <2>2
<1>6. CASE ~Allocation!StoppedAfterRaise(s)
           /\ ~(Allocation!StoppedEarly(s) /\ s.confirmed < FirstSize)
  <2>1. size \in Nat /\ size \in {s.cap, s.confirmed, Floor} /\ size >= s.cap
        /\ size >= s.confirmed
    BY <1>2, <1>3 DEF Allocation!Larger
  <2> HIDE DEF size
  <2>2. size >= FirstSize => size <= host.limit
    <3> SUFFICES ASSUME size >= FirstSize, size > host.limit PROVE FALSE
      BY <1>3, <2>1
    <3>1. size = s.cap /\ s.cap > s.confirmed
      BY <1>2, <1>3, <2>1 DEF Allocation!Sound
    <3>2. s.alive - s.raised_at < Confirm /\ s.started_at > 0 /\ s.alive >= s.started_at
          /\ s.raised_at > 0
      BY <3>1 DEF Allocation!Sound
    <3>3. CASE s.confirmed >= FirstSize
      BY <1>6, <3>1, <3>2, <3>3 DEF Allocation!Sound, Allocation!StoppedAfterRaise
    <3>4. CASE s.confirmed < FirstSize
      BY <1>6, <3>1, <3>2, <3>4 DEF Allocation!Sound, Allocation!StoppedEarly
    <3> QED
      BY <1>2, <1>3, <3>3, <3>4
  <2> DEFINE q == [p EXCEPT !.confirmed = size, !.cap = size]
  <2>3. /\ q \in Allocation!Probes /\ q.mode = "slow" /\ q.learned = None /\ q.confirmed = size
        /\ q.cap = size
        /\ q.raised_at = now /\ q.started_at = now /\ q.alive = now /\ q.found = None
    BY <1>1, <2>1 DEF Allocation!Probes
  <2> HIDE DEF q
  <2>4. Begun(q, now)
    BY <1>3, <2>1, <2>2, <2>3, ProbeConstants DEF Begun, Allocation!Sound
  <2>5. Allocation!LearnSlow(s, p) = q
    BY <1>6 DEF Allocation!LearnSlow, q, size
  <2> QED
    BY <2>4, <2>5 DEF p
<1> QED
  BY <1>4, <1>5, <1>6

LEMMA LearnBegins ==
    ASSUME Allocation!DiskProbeAssumption, v1.limit \in Limits, v9 \in Nat \ {0},
             NEW s \in Allocation!Probes, Allocation!Sound(s)
    PROVE  Begun(Allocation!Learn(s), v9)
<1> DEFINE host == v1  now == v9
<1> DEFINE p == [Allocation!Fresh(now) EXCEPT !.mode = s.mode]
<1>1. p \in Allocation!Probes /\ p.mode = s.mode /\ p.learned = None /\ p.found = None
      /\ p.confirmed = FirstSize
      /\ p.cap = FirstSize /\ p.raised_at = now /\ p.started_at = now /\ p.alive = now
  BY FreshIs DEF Allocation!Probes
<1>2. s.mode \in {"fast", "slow"} /\ s.learned \in Nat \cup {None} /\ s.learned_at \in Nat
  BY DEF Allocation!Probes
<1>3. /\ host.limit \in Nat /\ FirstSize \in Nat /\ Confirm \in Nat
  BY ProbeConstants
<1> HIDE DEF p
<1>4. CASE Allocation!Knows(s)
  <2> DEFINE q == Allocation!Settled(p, s.learned, s.learned_at)
  <2>1. s.learned \in Nat /\ s.learned <= host.limit
    BY <1>2, <1>4 DEF Allocation!Knows, Allocation!Sound
  <2>2. q = [p EXCEPT !.learned = s.learned, !.learned_at = s.learned_at, !.confirmed = s.learned,
                      !.cap = s.learned] /\ q \in Allocation!Probes
    <3>1. p \in Allocation!Probes /\ s.learned \in Nat /\ s.learned_at \in Nat
      BY <1>1, <1>2, <2>1
    <3> QED
      BY <3>1, SettledIs, Zenon
  <2> HIDE DEF q
  <2>3. /\ q.learned = s.learned /\ q.confirmed = s.learned /\ q.cap = s.learned
        /\ q.raised_at = now /\ q.started_at = now /\ q.alive = now /\ q.found = None
    BY <1>1, <2>2 DEF Allocation!Probes
  <2>4. Begun(q, now)
    BY <1>3, <2>1, <2>2, <2>3, ProbeConstants DEF Begun, Allocation!Sound
  <2>5. Allocation!Learn(s) = q
    BY <1>4 DEF Allocation!Learn, q, p
  <2> QED
    BY <2>4, <2>5
<1>5. CASE ~Allocation!Knows(s) /\ s.mode = "slow"
  <2>1. Allocation!Learn(s) = Allocation!LearnSlow(s, p)
    BY <1>5 DEF Allocation!Learn, p
  <2> QED
    BY <1>5, <2>1, LearnSlowBegins DEF p
<1>6. CASE ~Allocation!Knows(s) /\ s.mode = "fast" /\ Allocation!StoppedEarly(s)
  <2> DEFINE q == [p EXCEPT !.mode = "slow", !.confirmed = 0]
  <2>1. /\ q \in Allocation!Probes /\ q.mode = "slow" /\ q.learned = None /\ q.confirmed = 0
        /\ q.raised_at = now /\ q.started_at = now /\ q.alive = now /\ q.found = None
    BY <1>1 DEF Allocation!Probes
  <2> HIDE DEF q
  <2>2. Begun(q, now)
    BY <1>3, <2>1, ProbeConstants DEF Begun, Allocation!Sound
  <2>3. Allocation!Learn(s) = q
    BY <1>6 DEF Allocation!Learn, q, p
  <2> QED
    BY <2>2, <2>3
<1>7. CASE ~Allocation!Knows(s) /\ s.mode = "fast" /\ ~Allocation!StoppedEarly(s)
  <2>1. Allocation!Learn(s) = p
    BY <1>7 DEF Allocation!Learn, p
  <2>2. Begun(p, now)
    BY <1>1, <1>7 DEF Begun, Allocation!Sound
  <2> QED
    BY <2>1, <2>2
<1> QED
  BY <1>2, <1>4, <1>5, <1>6, <1>7

LEMMA LoadKeepsProbe ==
    ASSUME Allocation!DiskProbeAssumption, Allocation!ProbeInv, Allocation!Load
    PROVE  Allocation!ProbeInv'
<1> DEFINE host == v1  probe == v2  file == v3  data == v4  ballast == v5  refused == v6
           seen == v7  ticked == v8  now == v9  left == v10
<1> SUFFICES ASSUME (host.kind = "wings")'
             PROVE  (/\ Allocation!ProbeTypes
                     /\ probe # None => Allocation!Running(probe) /\ Allocation!LetPass(probe)
                     /\ file # None => Allocation!Sound(file))'
  BY DEF Allocation!ProbeInv
<1>1. host' = host /\ data' = data /\ now' = now /\ ballast' = 0 /\ refused' = FALSE
      /\ ticked' = FALSE /\ seen' = [owned |-> 0, stalled |-> 0]
  BY DEF Allocation!Load
<1>2. Allocation!ProbeTypes /\ (file # None => Allocation!Sound(file))
  BY <1>1 DEF Allocation!ProbeInv
<1>3. host.limit \in Limits /\ now \in Nat \ {0} /\ now \in Nat
  BY <1>2 DEF Allocation!ProbeTypes
<1>4. Begun(probe', now)
  <2>1. CASE file = None
    <3>1. probe' = Allocation!Fresh(now)
      BY <2>1 DEF Allocation!Load
    <3> QED
      BY <1>3, <3>1, FreshIs DEF Begun, Allocation!Sound
  <2>2. CASE file # None
    <3>1. probe' = Allocation!Learn(file) /\ file \in Allocation!Probes /\ Allocation!Sound(file)
      BY <1>2, <2>2 DEF Allocation!Load, Allocation!ProbeTypes
    <3> QED
      BY <1>3, <3>1, LearnBegins
  <2> QED
    BY <2>1, <2>2
<1>5. /\ file' \in {probe', file, Allocation!Blank}
      /\ left' \in [stops : Nat, faults : Nat, slack : Nat] /\ left'.slack = left.slack
  <2>1. Allocation!Save(probe') /\ left \in [stops : Nat, faults : Nat, slack : Nat]
    BY <1>2 DEF Allocation!Load, Allocation!ProbeTypes
  <2> QED
    BY <2>1 DEF Allocation!Save
<1>6. probe' \in Allocation!Probes /\ Allocation!Sound(probe') /\ Allocation!Sound(probe)'
  BY <1>1, <1>4 DEF Begun, Allocation!Sound
<1>7. file' \in Allocation!Probes \cup {None} /\ (file # None => Allocation!Sound(file))'
  <2>1. file' \in Allocation!Probes \cup {None} /\ (file' # None => Allocation!Sound(file'))
    BY <1>2, <1>5, <1>6, BlankIs DEF Allocation!ProbeTypes
  <2> QED
    BY <1>1, <2>1 DEF Allocation!Sound
<1>8. Allocation!ProbeTypes'
  BY <1>1, <1>2, <1>5, <1>6, <1>7 DEF Allocation!ProbeTypes
<1>9. Allocation!Running(probe)'
  <2>1. Allocation!AskedSince(now)'
    BY <1>1, <1>2, <1>5, ProbeConstants DEF Allocation!AskedSince, Allocation!ProbeTypes
  <2>2. probe'.raised_at = now /\ probe'.started_at = now /\ probe'.alive = now /\ probe'.found
          = None
        /\ (probe'.mode = "fast" /\ probe'.learned = None => probe'.confirmed = FirstSize)
    BY <1>4 DEF Begun
  <2>3. (Allocation!AskedSince(probe.raised_at))'
    BY <1>1, <2>1, <2>2 DEF Allocation!AskedSince
  <2> QED
    BY <1>1, <1>3, <1>6, <2>2, <2>3 DEF Allocation!Running
<1>10. Allocation!LetPass(probe)'
  BY <1>4 DEF Begun, Allocation!LetPass
<1> QED
  BY <1>7, <1>8, <1>9, <1>10
-----------------------------------------------------------------------------
\* The time it was last alive is noted now and then.
LEMMA AliveIs ==
    ASSUME NEW p \in Allocation!Probes, v9 \in Nat
    PROVE  /\ Allocation!Alive(p) \in Allocation!Probes
           /\ Allocation!Alive(p).alive \in {p.alive, v9}
           /\ Allocation!Alive(p).mode = p.mode /\ Allocation!Alive(p).confirmed = p.confirmed
           /\ Allocation!Alive(p).cap = p.cap
           /\ Allocation!Alive(p).raised_at = p.raised_at /\ Allocation!Alive(p).started_at
                = p.started_at
           /\ Allocation!Alive(p).learned = p.learned /\ Allocation!Alive(p).learned_at
                = p.learned_at
           /\ Allocation!Alive(p).found = p.found /\ Allocation!Alive(p).found_at = p.found_at
<1> DEFINE now == v9
<1> DEFINE beat == IF now - p.alive >= Heartbeat THEN [p EXCEPT !.alive = now] ELSE p
<1>1. /\ beat \in Allocation!Probes /\ beat.alive \in {p.alive, now}
      /\ beat.mode = p.mode /\ beat.confirmed = p.confirmed /\ beat.cap = p.cap
      /\ beat.raised_at = p.raised_at /\ beat.started_at = p.started_at
      /\ beat.learned = p.learned /\ beat.learned_at = p.learned_at
      /\ beat.found = p.found /\ beat.found_at = p.found_at
  BY DEF Allocation!Probes
<1>2. Allocation!Alive(p) \in {beat, [beat EXCEPT !.early_stops = 0]}
  BY DEF Allocation!Alive
<1> HIDE DEF beat
<1> QED
  BY <1>1, <1>2 DEF Allocation!Probes

LEMMA AliveRuns ==
    ASSUME Allocation!DiskProbeAssumption, Allocation!ProbeTypes, ~v8,
             NEW p \in Allocation!Probes, Allocation!Running(p)
    PROVE  Allocation!Running(Allocation!Alive(p))
<1> DEFINE host == v1  now == v9
<1> DEFINE q == Allocation!Alive(p)
<1>1. now \in Nat
  BY DEF Allocation!ProbeTypes
<1>2. /\ q.alive \in {p.alive, now}
      /\ q.mode = p.mode /\ q.confirmed = p.confirmed /\ q.cap = p.cap
      /\ q.raised_at = p.raised_at /\ q.started_at = p.started_at
      /\ q.learned = p.learned /\ q.found = p.found /\ q.found_at = p.found_at
  BY <1>1, AliveIs
<1>3. /\ p.alive \in Nat /\ p.raised_at \in Nat /\ p.started_at \in Nat /\ p.cap \in Nat
      /\ p.confirmed \in Nat
  BY DEF Allocation!Probes
<1>4. p.mode = "slow" /\ p.cap > host.limit => now - p.raised_at < Confirm
  BY <1>3, NotConfirmed DEF Allocation!Running
<1> HIDE DEF q
<1>5. Allocation!Sound(q)
  BY <1>1, <1>2, <1>3, <1>4 DEF Allocation!Running, Allocation!Sound
<1> QED
  BY <1>1, <1>2, <1>3, <1>5 DEF Allocation!Running, q

\* In the fast mode the size is learned that was owned for long enough.
LEMMA TickFastRuns ==
    ASSUME Allocation!DiskProbeAssumption, Allocation!ProbeTypes, ~v8,
             NEW p \in Allocation!Probes, Allocation!Running(p), Allocation!LetPass(p),
           p.mode = "fast", p.learned = None
    PROVE  Allocation!TickFast(p) \in Allocation!Probes
           /\ Allocation!Running(Allocation!TickFast(p))
<1> DEFINE host == v1  refused == v6  now == v9  left == v10
<1>1. /\ p.alive \in Nat /\ p.raised_at \in Nat /\ p.started_at \in Nat /\ p.cap \in Nat
      /\ p.confirmed \in Nat /\ p.found \in Nat \cup {None} /\ p.found_at \in Nat
  BY DEF Allocation!Probes
<1>2. /\ now \in Nat /\ now > 0 /\ Allocation!Owned \in Nat /\ refused = FALSE
      /\ left.slack \in Nat
      /\ left.slack <= MaxSlack /\ host.limit \in Nat /\ FirstSize \in Nat /\ SizeStep \in Nat
      /\ Confirm \in Nat
      /\ None \notin Nat /\ MaxSlack \in Nat
  BY ProbeConstants DEF Allocation!ProbeTypes, Allocation!Owned
<1>3. /\ p.started_at > 0 /\ p.alive >= p.started_at /\ p.raised_at > 0
      /\ p.alive <= now /\ p.raised_at <= now /\ p.started_at <= now /\ p.confirmed = FirstSize
      /\ (p.found # None => p.found <= host.limit
         \/ (p.cap = p.found /\ Allocation!AskedSince(p.found_at)))
  BY DEF Allocation!Running
<1>4. CASE p.found # None /\ now - p.found_at >= Confirm
  <2> DEFINE q == Allocation!Settled(p, p.found, now)
  <2>1. p.found \in Nat /\ p.found <= host.limit
    <3>1. p.found \in Nat /\ p.found_at \in Nat
      BY <1>1, <1>4
    <3>2. ~Allocation!AskedSince(p.found_at)
      BY <1>2, <1>4, <3>1, NotConfirmed
    <3> QED
      BY <1>3, <1>4, <3>1, <3>2
  <2>2. q \in Allocation!Probes /\ q
          = [p EXCEPT !.learned = p.found, !.learned_at = now, !.confirmed = p.found,
                                      !.cap = p.found]
    BY <1>2, <2>1, SettledIs, Zenon
  <2> HIDE DEF q
  <2>3. /\ q.mode = "fast" /\ q.learned = p.found /\ q.confirmed = p.found /\ q.cap = p.found
        /\ q.raised_at = p.raised_at /\ q.started_at = p.started_at /\ q.alive = p.alive
    BY <2>2 DEF Allocation!Probes
  <2>4. Allocation!Running(q)
    BY <1>2, <1>3, <2>1, <2>3 DEF Allocation!Running, Allocation!Sound
  <2>5. Allocation!TickFast(p) = q
    BY <1>4 DEF Allocation!TickFast, q
  <2> QED
    BY <2>2, <2>4, <2>5
<1>5. CASE p.found # None /\ ~(now - p.found_at >= Confirm)
  BY <1>5 DEF Allocation!TickFast
<1>6. CASE p.found = None /\ Allocation!AtEnd(p)
  <2> DEFINE size == Allocation!Larger(Allocation!Owned, FirstSize)
             q == [p EXCEPT !.found = size, !.found_at = now, !.cap = size]
  <2>1. Allocation!Owned <= host.limit
    BY <1>1, <1>2, <1>6 DEF Allocation!AtEnd, Allocation!LetPass
  <2>2. size \in Nat /\ size \in {Allocation!Owned, FirstSize}
    BY <1>2 DEF Allocation!Larger
  <2>3. Allocation!AskedSince(now)
    BY <1>2 DEF Allocation!AskedSince
  <2> HIDE DEF size
  <2>4. /\ q \in Allocation!Probes /\ q.mode = "fast" /\ q.learned = None /\ q.confirmed
             = p.confirmed
        /\ q.cap = size /\ q.found = size /\ q.found_at = now
        /\ q.raised_at = p.raised_at /\ q.started_at = p.started_at /\ q.alive = p.alive
    BY <1>2, <2>2 DEF Allocation!Probes
  <2>5. Allocation!TickFast(p) = q
    BY <1>6 DEF Allocation!TickFast, size
  <2> HIDE DEF q
  <2>6. Allocation!Running(q)
    <3>1. Allocation!Sound(q)
      BY <2>4, <1>4 DEF Allocation!Sound
    <3>2. q.cap = q.found /\ Allocation!AskedSince(q.found_at)
      BY <2>3, <2>4
    <3> QED
      BY <1>3, <2>4, <3>1, <3>2 DEF Allocation!Running
  <2> QED
    BY <2>4, <2>5, <2>6
<1>7. CASE p.found = None /\ ~Allocation!AtEnd(p) /\ Allocation!Followed(p)
  <2> DEFINE q == [p EXCEPT !.cap = @ + SizeStep, !.raised_at = now]
  <2>1. /\ q \in Allocation!Probes /\ q.mode = "fast" /\ q.learned = None /\ q.confirmed
             = p.confirmed
        /\ q.found = None
        /\ q.raised_at = now /\ q.started_at = p.started_at /\ q.alive = p.alive
    <3> DEFINE more == p.cap + SizeStep
    <3>1. more \in Nat /\ q = [p EXCEPT !.cap = more, !.raised_at = now]
      BY <1>1, <1>2
    <3> HIDE DEF q, more
    <3> QED
      BY <1>2, <1>7, <3>1 DEF Allocation!Probes
  <2>2. Allocation!TickFast(p) = q
    BY <1>7 DEF Allocation!TickFast
  <2> HIDE DEF q
  <2>3. Allocation!Running(q)
    BY <1>2, <1>3, <2>1 DEF Allocation!Running, Allocation!Sound
  <2> QED
    BY <2>1, <2>2, <2>3
<1>8. CASE p.found = None /\ ~Allocation!AtEnd(p) /\ ~Allocation!Followed(p)
  <2>1. Allocation!TickFast(p) = p
    BY <1>8 DEF Allocation!TickFast
  <2> QED
    BY <2>1
<1> QED
  BY <1>4, <1>5, <1>6, <1>7, <1>8

\* In the slow mode a size is confirmed that was asked for long enough, and then raised.
LEMMA TickSlowRuns ==
    ASSUME Allocation!DiskProbeAssumption, Allocation!ProbeTypes, ~v8,
             NEW p \in Allocation!Probes, Allocation!Running(p),
           p.mode = "slow", p.learned = None
    PROVE  Allocation!TickSlow(p) \in Allocation!Probes
           /\ Allocation!Running(Allocation!TickSlow(p))
<1> DEFINE host == v1  now == v9  left == v10
<1>1. /\ p.alive \in Nat /\ p.raised_at \in Nat /\ p.started_at \in Nat /\ p.cap \in Nat
      /\ p.confirmed \in Nat
  BY DEF Allocation!Probes
<1>2. /\ now \in Nat /\ now > 0 /\ left.slack \in Nat
      /\ left.slack <= MaxSlack /\ host.limit \in Nat /\ FirstSize \in Nat /\ SizeStep \in Nat
      /\ Confirm \in Nat
      /\ MaxSlack \in Nat /\ Confirm > 0
  BY ProbeConstants DEF Allocation!ProbeTypes
<1> DEFINE q == Allocation!Confirmed(p)
<1>3. /\ q \in Allocation!Probes /\ q.mode = "slow" /\ q.learned = None /\ q.cap = p.cap
      /\ q.raised_at = p.raised_at /\ q.started_at = p.started_at /\ q.alive = p.alive
      /\ q.confirmed \in {p.confirmed, p.cap}
      /\ q.confirmed # p.confirmed => p.cap > p.confirmed /\ now - p.raised_at >= Confirm
  BY <1>1 DEF Allocation!Confirmed, Allocation!Probes
<1>4. p.cap > host.limit => now - p.raised_at < Confirm
  BY <1>1, NotConfirmed DEF Allocation!Running
<1> HIDE DEF q
<1>5. Allocation!Running(q)
  BY <1>1, <1>2, <1>3, <1>4 DEF Allocation!Running, Allocation!Sound
<1>6. CASE q.cap = q.confirmed /\ q.confirmed >= FirstSize
  <2> DEFINE r == [q EXCEPT !.cap = @ + SizeStep, !.raised_at = now, !.alive = now]
  <2>1. /\ r \in Allocation!Probes /\ r.mode = "slow" /\ r.learned = None /\ r.confirmed
             = q.confirmed
        /\ r.raised_at = now /\ r.started_at = q.started_at /\ r.alive = now
    <3> DEFINE more == q.cap + SizeStep
    <3>1. more \in Nat /\ r = [q EXCEPT !.cap = more, !.raised_at = now, !.alive = now]
      BY <1>1, <1>2, <1>3
    <3> HIDE DEF r, more
    <3> QED
      BY <1>2, <1>3, <3>1 DEF Allocation!Probes
  <2>2. Allocation!TickSlow(p) = r
    BY <1>6 DEF Allocation!TickSlow, Allocation!Raised, q
  <2> HIDE DEF r
  <2>3. q.started_at > 0 /\ q.started_at <= now /\ q.confirmed <= host.limit
    BY <1>3, <1>5, <1>6 DEF Allocation!Running, Allocation!Sound
  <2>4. Allocation!Sound(r)
    BY <1>1, <1>2, <1>3, <1>6, <2>1, <2>3 DEF Allocation!Sound
  <2>5. Allocation!AskedSince(now)
    BY <1>2 DEF Allocation!AskedSince
  <2>6. Allocation!Running(r)
    BY <1>2, <2>1, <2>3, <2>4, <2>5 DEF Allocation!Running
  <2> QED
    BY <2>1, <2>2, <2>6
<1>7. CASE ~(q.cap = q.confirmed /\ q.confirmed >= FirstSize)
  <2>1. Allocation!TickSlow(p) = q
    BY <1>7 DEF Allocation!TickSlow, Allocation!Raised, q
  <2> QED
    BY <1>3, <1>5, <2>1
<1> QED
  BY <1>6, <1>7

LEMMA TickedRuns ==
    ASSUME Allocation!DiskProbeAssumption, Allocation!ProbeTypes, ~v8,
             NEW p \in Allocation!Probes, Allocation!Running(p), Allocation!LetPass(p)
    PROVE  Allocation!Ticked(p) \in Allocation!Probes /\ Allocation!Running(Allocation!Ticked(p))
<1> DEFINE q == Allocation!Alive(p)
<1>1. /\ q \in Allocation!Probes /\ q.mode = p.mode /\ q.learned = p.learned /\ q.found = p.found
      /\ q.cap = p.cap
  BY AliveIs DEF Allocation!ProbeTypes
<1>2. Allocation!Running(q) /\ Allocation!LetPass(q)
  BY <1>1, AliveRuns DEF Allocation!LetPass
<1>3. q.mode \in {"fast", "slow"}
  BY <1>1 DEF Allocation!Probes
<1>4. /\ q.learned # None => Allocation!Ticked(p) = q
      /\ q.learned = None /\ q.mode = "fast" => Allocation!Ticked(p) = Allocation!TickFast(q)
      /\ q.learned = None /\ q.mode = "slow" => Allocation!Ticked(p) = Allocation!TickSlow(q)
  BY DEF Allocation!Ticked
<1> HIDE DEF q
<1> QED
  BY <1>1, <1>2, <1>3, <1>4, TickFastRuns, TickSlowRuns

\* AskedSince of the next state, for a time of this one.
StillAskedSince(t) ==
    v9' - t + (IF v8' /\ ~Allocation!TooMuch' THEN 1 ELSE 0) <= MaxSlack - v10'.slack

LEMMA TickKeepsProbe ==
    ASSUME Allocation!DiskProbeAssumption, Allocation!ProbeInv, Allocation!Tick
    PROVE  Allocation!ProbeInv'
<1> DEFINE host == v1  probe == v2  file == v3  data == v4  ballast == v5  refused == v6
           seen == v7  ticked == v8  now == v9  left == v10
<1> SUFFICES ASSUME (host.kind = "wings")'
             PROVE  (/\ Allocation!ProbeTypes
                     /\ probe # None => Allocation!Running(probe) /\ Allocation!LetPass(probe)
                     /\ file # None => Allocation!Sound(file))'
  BY DEF Allocation!ProbeInv
<1>1. host' = host /\ now' = now /\ probe # None /\ ~ticked /\ ticked' = TRUE
      /\ probe' = Allocation!Ticked(probe)
  BY DEF Allocation!Tick
<1>2. /\ Allocation!ProbeTypes /\ Allocation!Running(probe) /\ Allocation!LetPass(probe)
      /\ (file # None => Allocation!Sound(file))
      /\ host.kind = "wings"
  BY <1>1 DEF Allocation!ProbeInv
<1>3. /\ probe \in Allocation!Probes /\ file \in Allocation!Probes \cup {None} /\ data \in Nat
      /\ ballast \in Nat
      /\ refused = FALSE /\ seen \in [owned : Nat, stalled : Nat] /\ now \in Nat \ {0}
      /\ left \in [stops : Nat, faults : Nat, slack : Nat] /\ left.slack <= MaxSlack
      /\ host.limit \in Limits
  BY <1>1, <1>2 DEF Allocation!ProbeTypes
<1> DEFINE p == Allocation!Ticked(probe)
           size == Allocation!Size(p)
           used == Allocation!Smaller(data, Allocation!Smaller(p.confirmed, size))
<1>4. p \in Allocation!Probes /\ Allocation!Running(p)
  BY <1>1, <1>2, <1>3, TickedRuns
<1>5. size = p.cap /\ p.cap \in Nat /\ p.confirmed \in Nat
  BY <1>2, <1>4 DEF Allocation!Size, Allocation!Probes
<1>6. used \in Nat /\ used <= p.cap
  BY <1>3, <1>5 DEF Allocation!Smaller
<1>7. /\ data' = used
      /\ \/ /\ ballast' = Allocation!Larger(size - used, 0) /\ refused' = FALSE
            /\ file' \in {file, p, Allocation!Blank}
            /\ left' \in [stops : Nat, faults : Nat, slack : Nat]
            /\ left'.slack = left.slack
         \/ /\ left.slack > 0 /\ left' = [left EXCEPT !.slack = @ - 1] /\ file' = p
            /\ ballast' = Allocation!Smaller(ballast, Allocation!Larger(size - used, 0))
            /\ refused' = FALSE
  <2>1. CASE Allocation!Fill(size, used)
             /\ (IF p = probe THEN UNCHANGED <<file, left>> ELSE Allocation!Save(p))
    <3>1. ballast' = Allocation!Larger(size - used, 0) /\ refused' = FALSE
      BY <1>2, <2>1 DEF Allocation!Fill
    <3>2. /\ file' \in {file, p, Allocation!Blank}
          /\ left' \in [stops : Nat, faults : Nat, slack : Nat]
          /\ left'.slack = left.slack
      BY <1>3, <2>1 DEF Allocation!Save
    <3>3. data' = used
      BY DEF Allocation!Tick
    <3> QED
      BY <3>1, <3>2, <3>3
  <2>2. CASE /\ left.slack > 0 /\ left' = [left EXCEPT !.slack = @ - 1] /\ file' = p
             /\ ballast' = Allocation!Smaller(ballast, Allocation!Larger(size - used, 0))
             /\ refused' = FALSE
    <3>1. data' = used
      BY DEF Allocation!Tick
    <3> QED
      BY <2>2, <3>1
  <2> QED
    BY <2>1, <2>2 DEF Allocation!Tick
<1> HIDE DEF used, size
<1>8. Allocation!Sound(p)
  BY <1>4 DEF Allocation!Running
<1> HIDE DEF p
<1>9. ballast' \in Nat /\ refused' = FALSE
  BY <1>3, <1>5, <1>6, <1>7 DEF Allocation!Larger, Allocation!Smaller
<1>10. left' \in [stops : Nat, faults : Nat, slack : Nat] /\ left'.slack <= MaxSlack
  BY <1>3, <1>7, ProbeConstants
<1>11. file' \in Allocation!Probes \cup {None} /\ (file # None => Allocation!Sound(file))'
  <2>1. file' \in Allocation!Probes \cup {None} /\ (file' # None => Allocation!Sound(file'))
    BY <1>2, <1>3, <1>4, <1>7, <1>8, BlankIs
  <2> QED
    BY <1>1, <2>1 DEF Allocation!Sound
<1>12. seen' \in [owned : Nat, stalled : Nat]
  <2>1. Allocation!Owned \in Nat /\ Allocation!Stalled(probe) \in Nat
    BY <1>3 DEF Allocation!Owned, Allocation!Stalled
  <2>2. seen' \in {[owned |-> Allocation!Owned, stalled |-> Allocation!Stalled(probe)], seen}
    BY DEF Allocation!Tick
  <2> QED
    BY <1>3, <2>1, <2>2
<1>13. Allocation!ProbeTypes'
  <2>1. probe' = p
    BY <1>1 DEF p
  <2> QED
    BY <1>1, <1>3, <1>4, <1>6, <1>7, <1>9, <1>10, <1>11, <1>12, <2>1 DEF Allocation!ProbeTypes
<1>14. ASSUME NEW t \in Nat, Allocation!AskedSince(t), p.cap > host.limit
       PROVE  StillAskedSince(t)
  <2>1. now - t <= MaxSlack - left.slack
    BY <1>1, <1>3, <1>14 DEF Allocation!AskedSince
  <2>2. CASE /\ ballast' = Allocation!Larger(size - used, 0) /\ left'.slack = left.slack
    <3>1. Allocation!Owned' = p.cap
      BY <1>5, <1>6, <1>7, <2>2 DEF Allocation!Owned, Allocation!Larger
    <3>2. Allocation!TooMuch'
      BY <1>1, <1>2, <1>14, <3>1 DEF Allocation!TooMuch
    <3> QED
      BY <1>1, <1>3, <2>1, <2>2, <3>2, ProbeConstants DEF StillAskedSince
  <2>3. CASE left.slack > 0 /\ left' = [left EXCEPT !.slack = @ - 1]
    <3>1. left'.slack = left.slack - 1
      BY <1>3, <2>3
    <3> QED
      BY <1>1, <1>3, <2>1, <3>1, ProbeConstants DEF StillAskedSince
  <2> QED
    BY <1>7, <2>2, <2>3
<1>15. Allocation!Running(probe)'
  <2>1. /\ p.raised_at \in Nat /\ p.found_at \in Nat /\ p.found \in Nat \cup {None}
        /\ host.limit \in Nat
    BY <1>3, <1>4, ProbeConstants DEF Allocation!Probes
  <2>2. probe' = p /\ now' = now
    BY <1>1 DEF p
  <2>3. p.mode = "slow" /\ p.cap > host.limit => StillAskedSince(p.raised_at)
    <3>1. p.mode = "slow" /\ p.cap > host.limit => Allocation!AskedSince(p.raised_at)
      BY <1>4 DEF Allocation!Running
    <3> QED
      BY <1>14, <2>1, <3>1, Zenon
  <2>4. p.mode = "fast" /\ p.learned = None =>
           /\ p.confirmed = FirstSize
           /\ p.found # None => p.found <= host.limit
              \/ (p.cap = p.found /\ StillAskedSince(p.found_at))
    <3>1. p.mode = "fast" /\ p.learned = None =>
             /\ p.confirmed = FirstSize
             /\ p.found # None => p.found <= host.limit
                \/ (p.cap = p.found /\ Allocation!AskedSince(p.found_at))
      BY <1>4 DEF Allocation!Running
    <3>2. Allocation!AskedSince(p.found_at) /\ p.cap > host.limit => StillAskedSince(p.found_at)
      BY <1>14, <2>1, Zenon
    <3>3. p.found # None /\ ~(p.found <= host.limit) /\ p.cap = p.found => p.cap > host.limit
      BY <1>5, <2>1
    <3> QED
      BY <3>1, <3>2, <3>3, Zenon
  <2>5. /\ p.started_at > 0 /\ p.alive >= p.started_at /\ p.raised_at > 0
        /\ p.alive <= now /\ p.raised_at <= now /\ p.started_at <= now
    BY <1>4 DEF Allocation!Running
  <2>6. Allocation!Sound(probe)'
    BY <1>1, <1>8, <2>2 DEF Allocation!Sound
  <2>7. (Allocation!AskedSince(probe.raised_at)' <=> StillAskedSince(p.raised_at))
        /\ (Allocation!AskedSince(probe.found_at)' <=> StillAskedSince(p.found_at))
    BY <2>2 DEF Allocation!AskedSince, StillAskedSince
  <2> QED
    BY <1>1, <2>2, <2>3, <2>4, <2>5, <2>6, <2>7 DEF Allocation!Running
<1>16. Allocation!LetPass(probe)'
  BY <1>1 DEF Allocation!LetPass
<1> QED
  BY <1>11, <1>13, <1>15, <1>16

\* What only lets less be owned, or stops the process, changes nothing the invariant knows of.
LEMMA UseKeepsProbe ==
    ASSUME Allocation!DiskProbeAssumption, Allocation!ProbeInv, Allocation!Use
    PROVE  Allocation!ProbeInv'
<1> DEFINE host == v1  probe == v2  file == v3  data == v4  ballast == v5  refused == v6
           seen == v7  ticked == v8  now == v9  left == v10
<1> SUFFICES ASSUME (host.kind = "wings")'
             PROVE  (/\ Allocation!ProbeTypes
                     /\ probe # None => Allocation!Running(probe) /\ Allocation!LetPass(probe)
                     /\ file # None => Allocation!Sound(file))'
  BY DEF Allocation!ProbeInv
<1>1. /\ host' = host /\ probe' = probe /\ file' = file /\ refused' = refused /\ seen' = seen
      /\ ticked' = ticked /\ now' = now /\ probe # None /\ ticked /\ ~Allocation!TooMuch
      /\ ballast' = Allocation!Smaller(ballast,
           Allocation!Larger(Allocation!Size(probe) - data', 0))
  BY DEF Allocation!Use
<1>2. /\ Allocation!ProbeTypes /\ Allocation!Running(probe)
      /\ (file # None => Allocation!Sound(file)) /\ host.kind = "wings"
  BY <1>1 DEF Allocation!ProbeInv
<1>3. /\ probe \in Allocation!Probes /\ data \in Nat /\ ballast \in Nat /\ now \in Nat \ {0}
      /\ left \in [stops : Nat, faults : Nat, slack : Nat] /\ left.slack <= MaxSlack
      /\ probe.cap \in Nat /\ probe.confirmed \in Nat
  BY <1>1, <1>2 DEF Allocation!ProbeTypes, Allocation!Probes
<1>4. Allocation!Size(probe) = probe.cap
  BY <1>2 DEF Allocation!Size
<1>5. /\ data' \in Nat /\ left' \in [stops : Nat, faults : Nat, slack : Nat]
      /\ left'.slack <= left.slack
  <2>1. CASE data' = Allocation!Smaller(probe.confirmed, IF host.kind = "quota" THEN host.limit
               - ballast
                                              ELSE Allocation!Size(probe)) /\ left' = left
    BY <1>2, <1>3, <1>4, <2>1 DEF Allocation!Smaller
  <2>2. CASE data' = 0 /\ left.slack > 0 /\ left' = [left EXCEPT !.slack = @ - 1]
    BY <1>3, <2>2
  <2> QED
    BY <2>1, <2>2 DEF Allocation!Use
<1>6. ballast' \in Nat
  <2>1. Allocation!Larger(Allocation!Size(probe) - data', 0) \in Nat
    BY <1>3, <1>4, <1>5 DEF Allocation!Larger
  <2> QED
    BY <1>1, <1>3, <2>1 DEF Allocation!Smaller
<1>7. Allocation!ProbeTypes'
  BY <1>1, <1>2, <1>3, <1>5, <1>6, ProbeConstants DEF Allocation!ProbeTypes
<1>8. ASSUME NEW t \in Nat, Allocation!AskedSince(t)
      PROVE  StillAskedSince(t)
  <2>1. now - t + 1 <= MaxSlack - left.slack
    BY <1>1, <1>8 DEF Allocation!AskedSince
  <2>2. now - t + 1 <= MaxSlack - left'.slack /\ now - t <= MaxSlack - left'.slack
    BY <1>3, <1>5, <2>1, ProbeConstants
  <2> QED
    <3> DEFINE extra == IF ticked' /\ ~Allocation!TooMuch' THEN 1 ELSE 0
    <3>1. extra \in {0, 1}
      OBVIOUS
    <3>2. StillAskedSince(t) <=> now - t + extra <= MaxSlack - left'.slack
      BY <1>1 DEF StillAskedSince
    <3> HIDE DEF extra
    <3> QED
      BY <1>3, <2>2, <3>1, <3>2
<1>9. Allocation!Running(probe)'
  <2>1. probe.raised_at \in Nat /\ probe.found_at \in Nat
    BY <1>3 DEF Allocation!Probes
  <2>2. Allocation!Sound(probe)'
    BY <1>1, <1>2 DEF Allocation!Running, Allocation!Sound
  <2>3. /\ Allocation!AskedSince(probe.raised_at) => Allocation!AskedSince(probe.raised_at)'
        /\ Allocation!AskedSince(probe.found_at) => Allocation!AskedSince(probe.found_at)'
    <3>1. /\ Allocation!AskedSince(probe.raised_at) => StillAskedSince(probe.raised_at)
          /\ Allocation!AskedSince(probe.found_at) => StillAskedSince(probe.found_at)
      BY <1>8, <2>1, Zenon
    <3> QED
      BY <1>1, <3>1 DEF Allocation!AskedSince, StillAskedSince
  <2> QED
    BY <1>1, <1>2, <2>2, <2>3 DEF Allocation!Running
<1>10. (file # None => Allocation!Sound(file))' /\ Allocation!LetPass(probe)'
  BY <1>1, <1>2 DEF Allocation!Sound, Allocation!LetPass
<1> QED
  BY <1>7, <1>9, <1>10

LEMMA DownKeepsProbe ==
    ASSUME Allocation!DiskProbeAssumption, Allocation!ProbeInv, Allocation!Kill \/ Allocation!Stop
    PROVE  Allocation!ProbeInv'
<1> DEFINE host == v1  probe == v2  file == v3  data == v4  ballast == v5  refused == v6
           seen == v7  ticked == v8  now == v9  left == v10
<1> SUFFICES ASSUME (host.kind = "wings")'
             PROVE  Allocation!ProbeTypes' /\ probe' = None
                    /\ (file # None => Allocation!Sound(file))'
  BY DEF Allocation!ProbeInv
<1>1. /\ probe' = None /\ ballast' = 0 /\ host' = host /\ data' = data /\ refused' = refused
      /\ seen' = seen /\ ticked' = ticked /\ now' = now
  BY DEF Allocation!Kill, Allocation!Stop, Allocation!Down
<1>2. Allocation!ProbeTypes /\ (file # None => Allocation!Sound(file))
  BY <1>1 DEF Allocation!ProbeInv
<1>3. left \in [stops : Nat, faults : Nat, slack : Nat]
  BY <1>2 DEF Allocation!ProbeTypes
<1>4. /\ file' \in {file, Allocation!Blank} /\ left' \in [stops : Nat, faults : Nat, slack : Nat]
      /\ left'.slack = left.slack
  <2>1. CASE Allocation!Kill
    BY <1>3, <2>1 DEF Allocation!Kill
  <2>2. CASE Allocation!Stop
    <3>1. CASE file' = file /\ left' = [left EXCEPT !.stops = @ - 1]
      BY <1>3, <2>2, <3>1 DEF Allocation!Stop
    <3>2. CASE file' = Allocation!Blank /\ left.faults > 0
               /\ left' = [left EXCEPT !.stops = @ - 1, !.faults = @ - 1]
      <4> DEFINE less == left.stops - 1
                 fewer == left.faults - 1
      <4>1. less \in Nat /\ fewer \in Nat
        BY <1>3, <2>2, <3>2 DEF Allocation!Stop
      <4>2. left' = [left EXCEPT !.stops = less, !.faults = fewer]
        BY <3>2
      <4> HIDE DEF less, fewer
      <4> QED
        BY <1>3, <3>2, <4>1, <4>2
    <3> QED
      BY <2>2, <3>1, <3>2 DEF Allocation!Stop
  <2> QED
    BY <2>1, <2>2
<1>5. file' \in Allocation!Probes \cup {None} /\ (file # None => Allocation!Sound(file))'
  <2>1. file' \in Allocation!Probes \cup {None} /\ (file' # None => Allocation!Sound(file'))
    BY <1>2, <1>4, BlankIs DEF Allocation!ProbeTypes
  <2> QED
    BY <1>1, <2>1 DEF Allocation!Sound
<1> QED
  BY <1>1, <1>2, <1>4, <1>5 DEF Allocation!ProbeTypes

LEMMA ElapseKeepsProbe ==
    ASSUME Allocation!DiskProbeAssumption, Allocation!ProbeInv, Allocation!Elapse
    PROVE  Allocation!ProbeInv'
<1> DEFINE host == v1  probe == v2  file == v3  data == v4  ballast == v5  refused == v6
           seen == v7  ticked == v8  now == v9  left == v10
<1> SUFFICES ASSUME (host.kind = "wings")'
             PROVE  (/\ Allocation!ProbeTypes
                     /\ probe # None => Allocation!Running(probe) /\ Allocation!LetPass(probe)
                     /\ file # None => Allocation!Sound(file))'
  BY DEF Allocation!ProbeInv
<1>1. /\ host' = host /\ probe' = probe /\ file' = file /\ data' = data /\ ballast' = ballast
      /\ refused' = refused /\ seen' = seen /\ left' = left /\ now' = now + 1 /\ ticked' = FALSE
      /\ (probe # None => ticked /\ ~Allocation!TooMuch)
  BY DEF Allocation!Elapse
<1>2. Allocation!ProbeTypes /\ (probe # None => Allocation!Running(probe))
      /\ (file # None => Allocation!Sound(file))
      /\ host.kind = "wings"
  BY <1>1 DEF Allocation!ProbeInv
<1>3. now \in Nat \ {0} /\ probe \in Allocation!Probes \cup {None} /\ data \in Nat
      /\ ballast \in Nat
      /\ left \in [stops : Nat, faults : Nat, slack : Nat] /\ host.limit \in Nat
  BY <1>2, ProbeConstants DEF Allocation!ProbeTypes
<1>4. Allocation!ProbeTypes'
  <2>1. now' \in Nat \ {0}
    BY <1>1, <1>3
  <2>2. ticked' \in BOOLEAN
    BY <1>1, Zenon
  <2> QED
    BY <1>1, <1>2, <2>1, <2>2 DEF Allocation!ProbeTypes
<1>5. (file # None => Allocation!Sound(file))'
  BY <1>1, <1>2 DEF Allocation!Sound
<1>6. ASSUME probe # None
      PROVE  Allocation!Running(probe)' /\ Allocation!LetPass(probe)'
  <2>1. probe \in Allocation!Probes /\ ticked /\ ~Allocation!TooMuch /\ Allocation!Running(probe)
    BY <1>1, <1>2, <1>3, <1>6
  <2>2. probe.raised_at \in Nat /\ probe.found_at \in Nat /\ probe.alive \in Nat
        /\ probe.started_at \in Nat
    BY <2>1 DEF Allocation!Probes
  <2>3. ASSUME NEW t \in Nat, Allocation!AskedSince(t)
        PROVE  Allocation!AskedSince(t)'
    <3>1. now - t + 1 <= MaxSlack - left.slack
      BY <2>1, <2>3 DEF Allocation!AskedSince
    <3>2. (now + 1) - t + 0 <= MaxSlack - left.slack
      BY <1>3, <3>1, ProbeConstants
    <3> QED
      BY <1>1, <3>2 DEF Allocation!AskedSince
  <2>4. Allocation!Sound(probe)'
    BY <1>1, <2>1 DEF Allocation!Running, Allocation!Sound
  <2>5. /\ Allocation!AskedSince(probe.raised_at) => Allocation!AskedSince(probe.raised_at)'
        /\ Allocation!AskedSince(probe.found_at) => Allocation!AskedSince(probe.found_at)'
    BY <1>1, <2>2, <2>3 DEF Allocation!AskedSince
  <2>6. Allocation!Running(probe)'
    BY <1>1, <1>3, <2>1, <2>2, <2>4, <2>5 DEF Allocation!Running
  <2>7. Allocation!LetPass(probe)'
    <3>1. Allocation!Owned <= host.limit /\ Allocation!Owned' = Allocation!Owned
      BY <1>1, <1>2, <1>3, <2>1 DEF Allocation!TooMuch, Allocation!Owned
    <3> QED
      BY <1>1, <3>1 DEF Allocation!LetPass
  <2> QED
    BY <2>6, <2>7
<1> QED
  BY <1>1, <1>4, <1>5, <1>6

LEMMA ProbeBegins ==
    ASSUME Allocation!DiskProbeAssumption, Allocation!Init
    PROVE  Allocation!ProbeInv
<1> DEFINE host == v1  probe == v2  file == v3  data == v4  ballast == v5  refused == v6
           seen == v7  ticked == v8  now == v9  left == v10
<1>1. host.limit \in Limits
  BY DEF Allocation!Init
<1>2. left = [stops |-> MaxStops, faults |-> MaxFaults, slack |-> MaxSlack]
  BY DEF Allocation!Init
<1>3. left \in [stops : Nat, faults : Nat, slack : Nat] /\ left.slack <= MaxSlack
  BY <1>2, ProbeConstants
<1>4. /\ probe = None /\ file = None /\ data = 0 /\ ballast = 0 /\ refused = FALSE
      /\ seen = [owned |-> 0, stalled |-> 0] /\ ticked = FALSE /\ now = 1
  BY DEF Allocation!Init
<1>5. Allocation!ProbeTypes
  <2>1. seen \in [owned : Nat, stalled : Nat] /\ now \in Nat \ {0} /\ data \in Nat
        /\ ballast \in Nat
    BY <1>4
  <2>2. ticked \in BOOLEAN /\ probe \in Allocation!Probes \cup {None}
        /\ file \in Allocation!Probes \cup {None}
    BY <1>4, Zenon
  <2> QED
    BY <1>1, <1>3, <1>4, <2>1, <2>2 DEF Allocation!ProbeTypes
<1> QED
  BY <1>4, <1>5 DEF Allocation!ProbeInv

LEMMA ProbeKept ==
    ASSUME Allocation!DiskProbeAssumption, Allocation!ProbeInv,
             [Allocation!Next]_(Allocation!vars)
    PROVE  Allocation!ProbeInv'
<1>1. CASE Allocation!Next
  BY <1>1, LoadKeepsProbe, TickKeepsProbe, UseKeepsProbe, DownKeepsProbe, ElapseKeepsProbe
     DEF Allocation!Next
<1>2. CASE UNCHANGED Allocation!vars
  BY <1>2 DEF Allocation!vars, Allocation!ProbeInv, Allocation!ProbeTypes, Allocation!Running,
     Allocation!Sound, Allocation!LetPass, Allocation!AskedSince, Allocation!TooMuch,
     Allocation!Owned, Allocation!Knows
<1> QED
  BY <1>1, <1>2

LEMMA ProbePromise ==
    ASSUME Allocation!DiskProbeAssumption, Allocation!ProbeInv
    PROVE  Allocation!LearnedFits
<1> DEFINE host == v1  probe == v2
<1> SUFFICES ASSUME host.kind = "wings", probe # None
             PROVE  /\ probe.learned # None => probe.learned <= host.limit
                    /\ probe.confirmed <= Allocation!Larger(host.limit, FirstSize)
  BY DEF Allocation!LearnedFits
<1>1. probe \in Allocation!Probes /\ Allocation!Running(probe) /\ Allocation!Sound(probe)
      /\ host.limit \in Limits
  BY DEF Allocation!ProbeInv, Allocation!ProbeTypes, Allocation!Running
<1>2. /\ probe.learned \in Nat \cup {None} /\ probe.confirmed \in Nat /\ host.limit \in Nat
      /\ FirstSize \in Nat /\ probe.mode \in {"fast", "slow"}
  BY <1>1, ProbeConstants DEF Allocation!Probes
<1>3. CASE probe.learned # None
  BY <1>1, <1>2, <1>3 DEF Allocation!Sound, Allocation!Larger
<1>4. CASE probe.learned = None
  BY <1>1, <1>2, <1>4 DEF Allocation!Running, Allocation!Sound, Allocation!Larger
<1> QED
  BY <1>3, <1>4

-----------------------------------------------------------------------------
\* The other parts of the sum that are proved about.
KeptPartsInv ==
    /\ part = "settings" => Settings!ReloadInv
    /\ part = "listed" => Listed!BlocklistInv
    /\ part = "allocation" => Allocation!ProbeInv

LEMMA KeptGiven ==
    Settings!ReloadAssumption /\ Listed!BlocklistAssumption /\ Allocation!DiskProbeAssumption
BY KeptAssumption

LEMMA KeptPartsBegin == ASSUME Init PROVE KeptPartsInv
<1>1. ASSUME part = "settings" PROVE Settings!ReloadInv
  BY <1>1, KeptGiven, SettingsBegin DEF Init
<1>2. ASSUME part = "listed" PROVE Listed!BlocklistInv
  BY <1>2, KeptGiven, ListBegins DEF Init
<1>3. ASSUME part = "allocation" PROVE Allocation!ProbeInv
  BY <1>3, KeptGiven, ProbeBegins DEF Init
<1> QED
  BY <1>1, <1>2, <1>3 DEF KeptPartsInv

\* A step is one of its part, and the part stays.
LEMMA KeptSteps ==
    ASSUME [Next]_vars
    PROVE  /\ part' = part
           /\ part = "settings" => [Settings!Next]_(Settings!vars)
           /\ part = "listed" => [Listed!Next]_(Listed!vars)
           /\ part = "allocation" => [Allocation!Next]_(Allocation!vars)
<1>1. CASE UNCHANGED vars
  BY <1>1 DEF vars, Settings!vars, Listed!vars, Allocation!vars
<1>2. CASE Next
  BY <1>2 DEF Next, DiskStep, RecentStep, AllocationStep, HostFileStep, SettingsStep,
     ListedStep,
         NumbersStep, DailyStep
<1> QED
  BY <1>1, <1>2

LEMMA KeptPartsStep == ASSUME KeptPartsInv, [Next]_vars PROVE KeptPartsInv'
<1>1. part' = part
  BY KeptSteps
<1>2. ASSUME part = "settings" PROVE Settings!ReloadInv'
  <2>1. Settings!ReloadInv /\ [Settings!Next]_(Settings!vars)
    BY <1>2, KeptSteps DEF KeptPartsInv
  <2> QED
    BY <2>1, KeptGiven, SettingsKept
<1>3. ASSUME part = "listed" PROVE Listed!BlocklistInv'
  <2>1. Listed!BlocklistInv /\ [Listed!Next]_(Listed!vars)
    BY <1>3, KeptSteps DEF KeptPartsInv
  <2> QED
    BY <2>1, KeptGiven, ListKept
<1>4. ASSUME part = "allocation" PROVE Allocation!ProbeInv'
  <2>1. Allocation!ProbeInv /\ [Allocation!Next]_(Allocation!vars)
    BY <1>4, KeptSteps DEF KeptPartsInv
  <2> QED
    BY <2>1, KeptGiven, ProbeKept
<1> QED
  BY <1>1, <1>2, <1>3, <1>4 DEF KeptPartsInv

LEMMA KeptPartsInductive == Spec => []KeptPartsInv
<1>1. Init => KeptPartsInv
  BY KeptPartsBegin
<1>2. KeptPartsInv /\ [Next]_vars => KeptPartsInv'
  BY KeptPartsStep
<1> QED
  BY <1>1, <1>2, PTL DEF Spec

SettingsFollow == part = "settings" => Settings!SettingsFollowFile /\ Settings!HandedOn

\* When the thread that reads the file of the settings rests, nothing is on its way and no change
\* came before the thread first looked, what is loaded is what the file says: the settings and
\* what waits for a restart if it can be read, an error if it cannot.  The settings in force and
\* what the parts of the process were handed belong together at any time (reload.rs).
THEOREM SettingsAlwaysFollow == Spec => []SettingsFollow
<1>1. KeptPartsInv => SettingsFollow
  BY KeptGiven, SettingsPromise DEF KeptPartsInv, SettingsFollow
<1> QED
  BY <1>1, KeptPartsInductive, PTL

ListFollows ==
    part = "listed" => Listed!ChangeIsNoticed /\ Listed!NothingIsLeft /\ Listed!FetchesAreSpaced

\* When the thread of the list rests, the file of domains is listed as it is, or its time tells
\* that it differs, or it was changed in the second it was read in; nothing is listed when no
\* source is left; and a fetch of the URL comes the refresh or the retry after the one before,
\* unless the refresh was changed before it was found due (mod.rs of the blocklist).
THEOREM ListAlwaysFollows == Spec => []ListFollows
<1>1. KeptPartsInv => ListFollows
  BY KeptGiven, ListPromise DEF KeptPartsInv, ListFollows
<1> QED
  BY <1>1, KeptPartsInductive, PTL

SizeFits == part = "allocation" => Allocation!LearnedFits

\* On a host that stops a process which takes more than it may, the size learned and, beyond the
\* first size, the size entries may take are sizes the host grants, whatever stops, saves that
\* fail and reservations held back come in between (diskprobe.rs).
THEOREM LearnedAlwaysFits == Spec => []SizeFits
<1>1. KeptPartsInv => SizeFits
  BY KeptGiven, ProbePromise DEF KeptPartsInv, SizeFits
<1> QED
  BY <1>1, KeptPartsInductive, PTL

\* What the process goes by agrees with what is outside, in every part that says so.
THEOREM AlwaysAgreesWithDisk == Spec => []DiskAgrees
<1>1. DiskAccounted /\ SettingsFollow /\ ListFollows /\ SizeFits => DiskAgrees
  BY DEF DiskAgrees, SettingsFollow, ListFollows, SizeFits
<1> QED
  BY <1>1, DiskAlwaysAccounted, SettingsAlwaysFollow, ListAlwaysFollows, LearnedAlwaysFits, PTL

===============================================================================
