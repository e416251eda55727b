---------------------------- MODULE BudgetProofs ----------------------------
(***************************************************************************)
(* Theorems about the parts of MCTables that say how much the cache takes: *)
(* the memory tier and the budget.  The other parts are in TablesProofs.   *)
(***************************************************************************)
EXTENDS MCTables, WellFoundedInduction, FiniteSetTheorems, SequenceTheorems, TLAPS

MemInv == part = "memory" => Mem!MemInv
MoneyInv == part = "budget" => Money!BudgetInv

-----------------------------------------------------------------------------
\* No step goes from one part to another.
LEMMA SamePart == [Next]_vars => part' = part
BY DEF Next, MemStep, FiltersStep, DoorStep, ShotsStep, AnswersStep, RowStep, MoneyStep,
   PoolStep,
       ResolverStep, DnsStep, RaceStep, PolicyStep, RelayStep, vars

-----------------------------------------------------------------------------
\* The memory tier.
LEMMA MemSizes ==
    /\ \A S : Mem!IsFiniteSet(S) <=> IsFiniteSet(S)
    /\ \A S : Mem!Cardinality(S) = Cardinality(S)
<1>1. \A S : Mem!IsFiniteSet(S) <=> IsFiniteSet(S)
  BY Zenon DEF Mem!IsFiniteSet, IsFiniteSet
<1>2. \A S : Mem!Cardinality(S) = Cardinality(S)
  BY Zenon DEF Mem!Cardinality, Cardinality
<1> QED
  BY <1>1, <1>2

LEMMA LeastNat == ASSUME NEW T \in SUBSET Nat, T # {} PROVE \E x \in T : \A y \in T : x <= y
<1>1. IsWellFoundedOn(OpToRel(<, Nat), Nat)
  BY Zenon, NatLessThanWellFounded
<1>2. PICK x \in T : \A y \in T : ~ (<<y, x>> \in OpToRel(<, Nat))
  BY Zenon, <1>1, WFMin
<1>3. \A y \in T : ~ (y < x)
  BY <1>2 DEF OpToRel
<1> QED
  BY <1>3

LEMMA MemMaxIs == ASSUME NEW S, NEW x \in S, \A y \in S : x >= y PROVE Mem!Max(S) \in S
    /\ \A y \in S : Mem!Max(S) >= y
BY DEF Mem!Max

LEMMA MemMinIs == ASSUME NEW S, NEW x \in S, \A y \in S : x <= y PROVE Mem!Min(S) \in S
    /\ \A y \in S : Mem!Min(S) <= y
BY DEF Mem!Min

LEMMA MemBoundedMax ==
    ASSUME NEW n \in Nat, NEW S \in SUBSET (0 .. n), S # {}
    PROVE  Mem!Max(S) \in S /\ \A y \in S : Mem!Max(S) >= y
<1> DEFINE U == {m \in Nat : \A y \in S : m >= y}
<1>1. n \in U
  OBVIOUS
<1>2. PICK m \in U : \A k \in U : m <= k
  <2> HIDE DEF U
  <2>1. U \in SUBSET Nat
    BY DEF U
  <2> QED
    BY <1>1, <2>1, LeastNat
<1>3. m \in S
  <2> SUFFICES ASSUME m \notin S PROVE FALSE
    OBVIOUS
  <2>1. \A y \in S : m > y /\ y \in Nat
    BY <1>2
  <2>2. m > 0 /\ m \in Nat
    <3>1. PICK y \in S : TRUE
      OBVIOUS
    <3>2. m > y /\ y \in Nat /\ m \in Nat
      BY <1>2, <2>1, <3>1
    <3> QED
      BY <3>2
  <2>3. m - 1 \in U
    BY <2>1, <2>2
  <2> QED
    BY <1>2, <2>3
<1> QED
  BY <1>2, <1>3, MemMaxIs

\* From here it is of the memory tier.
\* What some entries take is a number, and adds up.
LEMMA UnitsFinite ==
    ASSUME Mem!MemTierAssumption, NEW s, s.entries \in [Keys -> Mem!Entries \cup {None}],
             NEW ks \in SUBSET Mem!Present(s)
    PROVE  Mem!IsFiniteSet(UNION {{k} \X (1 .. s.entries[k].size) : k \in ks})
<1> DEFINE S == {{k} \X (1 .. s.entries[k].size) : k \in ks}
           f == [k \in ks |-> {k} \X (1 .. s.entries[k].size)]
<1>1. ks \subseteq Keys /\ \A k \in ks : s.entries[k].size \in Nat
  BY DEF Mem!Present, Mem!Entries
<1>2. Mem!IsFiniteSet(ks)
  <2>1. Mem!IsFiniteSet(Keys)
    BY DEF Mem!MemTierAssumption
  <2> QED
    BY MemSizes, <1>1, <2>1, FS_Subset
<1>3. f \in Surjection(ks, S)
  BY DEF Surjection
<1>4. Mem!IsFiniteSet(S)
  <2> HIDE DEF f, S
  <2> QED
    BY MemSizes, <1>2, <1>3, FS_Surjection
<1>5. \A T \in S : Mem!IsFiniteSet(T)
  <2> SUFFICES ASSUME NEW k \in ks PROVE Mem!IsFiniteSet({k} \X (1 .. s.entries[k].size))
    OBVIOUS
  <2>1. Mem!IsFiniteSet({k})
    BY MemSizes, FS_Singleton
  <2>2. Mem!IsFiniteSet(1 .. s.entries[k].size)
    BY MemSizes, <1>1, FS_Interval
  <2> QED
    BY MemSizes, <2>1, <2>2, FS_Product
<1> HIDE DEF S
<1>6. Mem!IsFiniteSet(UNION S)
  BY MemSizes, <1>4, <1>5, FS_UNION
<1> QED
  BY <1>6 DEF S

LEMMA LoadParts ==
    ASSUME Mem!MemTierAssumption, NEW s, s.entries \in [Keys -> Mem!Entries \cup {None}],
           NEW ks \in SUBSET Mem!Present(s), NEW js \in SUBSET ks
    PROVE  /\ Mem!Load(s, ks) \in Nat /\ Mem!Load(s, js) \in Nat /\ Mem!Load(s, js)
                <= Mem!Load(s, ks)
           /\ Mem!Load(s, ks \ js) = Mem!Load(s, ks) - Mem!Load(s, js)
<1> DEFINE U(hs) == UNION {{k} \X (1 .. s.entries[k].size) : k \in hs}
           A == U(ks)  B == U(js)  C == U(ks \ js)
<1>1. Mem!IsFiniteSet(A) /\ Mem!IsFiniteSet(B) /\ Mem!IsFiniteSet(C)
  <2>1. ks \in SUBSET Mem!Present(s) /\ js \in SUBSET Mem!Present(s)
        /\ ks \ js \in SUBSET Mem!Present(s)
    OBVIOUS
  <2> QED
    BY <2>1, UnitsFinite
<1>2. A = B \cup C /\ B \cap C = {} /\ B \subseteq A
  <2>1. A = B \cup C
    OBVIOUS
  <2>2. B \cap C = {}
    OBVIOUS
  <2> QED
    BY <2>1, <2>2
<1>3. Mem!Load(s, ks) = Mem!Cardinality(A) /\ Mem!Load(s, js) = Mem!Cardinality(B)
      /\ Mem!Load(s, ks \ js) = Mem!Cardinality(C)
  BY DEF Mem!Load
<1> HIDE DEF A, B, C, U
<1>4. Mem!Cardinality(A) = Mem!Cardinality(B) + Mem!Cardinality(C) - Mem!Cardinality(B \cap C)
  BY MemSizes, <1>1, <1>2, FS_Union
<1>5. Mem!Cardinality(B \cap C) = 0
  BY MemSizes, <1>2, FS_EmptySet
<1>6. Mem!Cardinality(A) \in Nat /\ Mem!Cardinality(B) \in Nat /\ Mem!Cardinality(C) \in Nat
  BY MemSizes, <1>1, FS_CardinalityType
<1>7. Mem!Cardinality(A) = Mem!Cardinality(B) + Mem!Cardinality(C)
  BY <1>4, <1>5, <1>6
<1> QED
  BY <1>3, <1>6, <1>7

LEMMA LoadOne ==
    ASSUME NEW s, NEW k, NEW n \in Nat, s.entries[k].size = n
    PROVE  Mem!Load(s, {k}) = n
<1> DEFINE T == 1 .. n  S == {k} \X T
<1>1. Mem!IsFiniteSet(T) /\ Mem!Cardinality(T) = n
  <2>1. 1 \in Int /\ n \in Int
    OBVIOUS
  <2>2. Mem!IsFiniteSet(1 .. n) /\ Mem!Cardinality(1 .. n) = IF 1 > n THEN 0 ELSE n - 1 + 1
    BY MemSizes, <2>1, FS_Interval
  <2> HIDE DEF T
  <2>3. (IF 1 > n THEN 0 ELSE n - 1 + 1) = n
    OBVIOUS
  <2> QED
    BY <2>2, <2>3 DEF T
<1>2. Mem!IsFiniteSet({k}) /\ Mem!Cardinality({k}) = 1
  BY MemSizes, FS_Singleton
<1>3. UNION {{j} \X (1 .. s.entries[j].size) : j \in {k}} = S
  OBVIOUS
<1> HIDE DEF T
<1>4. Mem!Cardinality(S) = Mem!Cardinality({k}) * Mem!Cardinality(T)
  BY MemSizes, <1>1, <1>2, FS_Product
<1> HIDE DEF S
<1>5. Mem!Cardinality(S) = n
  BY <1>1, <1>2, <1>4
<1> QED
  BY <1>3, <1>5 DEF Mem!Load

\* The same entries take the same.
LEMMA LoadSame ==
    ASSUME NEW s, NEW r, NEW ks, \A k \in ks : s.entries[k].size = r.entries[k].size
    PROVE  Mem!Load(s, ks) = Mem!Load(r, ks)
<1> DEFINE S == {{k} \X (1 .. s.entries[k].size) : k \in ks}  R ==
             {{k} \X (1 .. r.entries[k].size) : k \in ks}
<1>1. S = R
  OBVIOUS
<1>2. UNION S = UNION R
  BY <1>1
<1> QED
  BY <1>2 DEF Mem!Load

\* Places and entries are as many as each other: each knows the other.
LEMMA PlacesAreKeys ==
    ASSUME Mem!MemTierAssumption, NEW s, Mem!Sound(s)
    PROVE  /\ Mem!IsFiniteSet(Mem!Places(s)) /\ Mem!Cardinality(Mem!Places(s))
                = Mem!Cardinality(Mem!Present(s)) /\ DOMAIN s.order = Mem!Places(s)
           /\ Mem!Cardinality(Mem!Places(s)) <= Mem!Cardinality(Keys)
           /\ Mem!Cardinality(Keys) \in Nat
           /\ Mem!Places(s) \subseteq Nat /\ Mem!IsFiniteSet(Mem!Present(s))
           /\ \A k, j \in Mem!Present(s) : s.entries[k].used = s.entries[j].used => k = j
<1>1. /\ s.entries \in [Keys -> Mem!Entries \cup {None}] /\ s.order \in [Mem!Places(s) -> Keys]
      /\ \A k \in Mem!Present(s) : s.order[s.entries[k].used] = k
  BY DEF Mem!Sound
<1>2. Mem!IsFiniteSet(Keys) /\ Mem!Present(s) \subseteq Keys
  BY DEF Mem!MemTierAssumption, Mem!Present
<1>3. Mem!IsFiniteSet(Mem!Present(s)) /\ Mem!Cardinality(Mem!Present(s))
        <= Mem!Cardinality(Keys) /\ Mem!Cardinality(Keys) \in Nat
  BY MemSizes, <1>2, FS_Subset, FS_CardinalityType
<1> DEFINE f == [k \in Mem!Present(s) |-> s.entries[k].used]
<1>4. f \in Surjection(Mem!Present(s), Mem!Places(s))
  BY DEF Surjection, Mem!Places
<1>5. \A k, j \in Mem!Present(s) : s.entries[k].used = s.entries[j].used => k = j
  BY <1>1
<1>6. f \in Injection(Mem!Present(s), Mem!Places(s))
  BY <1>4, <1>5 DEF Injection, Surjection, IsInjective
<1> HIDE DEF f
<1>7. Mem!IsFiniteSet(Mem!Places(s)) /\ Mem!Cardinality(Mem!Places(s))
        = Mem!Cardinality(Mem!Present(s))
  BY MemSizes, <1>3, <1>4, <1>6, FS_Surjection
<1>8. Mem!Places(s) \subseteq Nat
  BY <1>1 DEF Mem!Places, Mem!Present, Mem!Entries
<1>9. DOMAIN s.order = Mem!Places(s)
  BY <1>1
<1> QED
  BY <1>2, <1>3, <1>5, <1>7, <1>8, <1>9

\* Entries go with their places.
Used(s, ks) == {s.entries[k].used : k \in ks}
LEMMA ForgetIs ==
    ASSUME Mem!MemTierAssumption, NEW s, Mem!Sound(s), NEW ks \in SUBSET Mem!Present(s),
           NEW ps, ps = Used(s, ks)
    PROVE  /\ Mem!Sound(Mem!Forget(s, ks, ps)) /\ Mem!Places(Mem!Forget(s, ks, ps))
                = Mem!Places(s) \ ps
           /\ Mem!Present(Mem!Forget(s, ks, ps)) = Mem!Present(s) \ ks
           /\ Mem!Forget(s, ks, ps).bytes \in Nat /\ Mem!Forget(s, ks, ps).bytes <= s.bytes
           /\ s.bytes \in Nat
           /\ \A k \in Keys : Mem!Forget(s, ks, ps).entries[k] = IF k \in ks THEN None
                ELSE s.entries[k]
<1> DEFINE r == Mem!Forget(s, ks, ps)
<1>1. /\ s.entries \in [Keys -> Mem!Entries \cup {None}] /\ s.order \in [Mem!Places(s) -> Keys]
      /\ \A k \in Mem!Present(s) : s.order[s.entries[k].used] = k
      /\ s.bytes = Mem!Load(s, Mem!Present(s))
  BY DEF Mem!Sound
<1>2. \A k, j \in Mem!Present(s) : s.entries[k].used = s.entries[j].used => k = j
  BY PlacesAreKeys
<1>3. /\ r.entries = [k \in Keys |-> IF k \in ks THEN None ELSE s.entries[k]]
      /\ r.order = [m \in DOMAIN s.order \ ps |-> s.order[m]]
      /\ r.bytes = s.bytes - Mem!Load(s, ks)
  BY DEF Mem!Forget, Mem!Without
<1> HIDE DEF r
<1>4. r.entries \in [Keys -> Mem!Entries \cup {None}] /\ \A k \in Keys : r.entries[k]
        = IF k \in ks THEN None ELSE s.entries[k]
  BY <1>1, <1>3
<1>5. Mem!Present(r) = Mem!Present(s) \ ks
  BY <1>4 DEF Mem!Present
<1>6. \A k \in Mem!Present(r) : r.entries[k] = s.entries[k] /\ k \in Mem!Present(s)
  BY <1>4, <1>5 DEF Mem!Present
<1>7. Mem!Places(r) = Mem!Places(s) \ ps
  <2>3. ps = {s.entries[k].used : k \in ks}
    BY DEF Used
  <2>1. ASSUME NEW n \in Mem!Places(r) PROVE n \in Mem!Places(s) \ ps
    <3>1. PICK k \in Mem!Present(r) : n = r.entries[k].used
      BY DEF Mem!Places
    <3>2. k \in Mem!Present(s) /\ k \notin ks /\ n = s.entries[k].used
      BY <1>5, <1>6, <3>1
    <3> QED
      BY <1>2, <2>3, <3>2 DEF Mem!Places
  <2>2. ASSUME NEW n \in Mem!Places(s) \ ps PROVE n \in Mem!Places(r)
    <3>1. PICK k \in Mem!Present(s) : n = s.entries[k].used
      BY DEF Mem!Places
    <3>2. k \in Mem!Present(r)
      BY <1>5, <2>3, <3>1
    <3> QED
      BY <1>6, <3>1, <3>2 DEF Mem!Places
  <2> QED
    BY <2>1, <2>2
<1>8. r.order \in [Mem!Places(r) -> Keys]
  BY <1>1, <1>3, <1>7
<1>9. \A k \in Mem!Present(r) : r.order[r.entries[k].used] = k
  <2> SUFFICES ASSUME NEW k \in Mem!Present(r) PROVE r.order[r.entries[k].used] = k
    OBVIOUS
  <2>1. r.entries[k].used \in Mem!Places(r) /\ k \in Mem!Present(s) /\ r.entries[k] = s.entries[k]
    BY <1>6 DEF Mem!Places
  <2>2. r.entries[k].used \in DOMAIN s.order \ ps
    BY <1>1, <1>7, <2>1
  <2> QED
    BY <1>1, <1>3, <2>1, <2>2
<1>10. /\ r.bytes = Mem!Load(r, Mem!Present(r)) /\ r.bytes \in Nat /\ r.bytes <= s.bytes
       /\ s.bytes \in Nat
  <2>1. /\ Mem!Load(s, Mem!Present(s)) \in Nat /\ Mem!Load(s, ks) \in Nat /\ Mem!Load(s, ks)
             <= Mem!Load(s, Mem!Present(s))
        /\ Mem!Load(s, Mem!Present(s) \ ks) = Mem!Load(s, Mem!Present(s)) - Mem!Load(s, ks)
    BY <1>1, LoadParts
  <2>2. Mem!Load(r, Mem!Present(r)) = Mem!Load(s, Mem!Present(s) \ ks)
    <3>1. \A k \in Mem!Present(r) : r.entries[k].size = s.entries[k].size
      BY <1>6
    <3> QED
      BY <1>5, <3>1, LoadSame
  <2> QED
    BY <1>1, <1>3, <2>1, <2>2
<1>11. Mem!Sound(r)
  BY <1>4, <1>8, <1>9, <1>10 DEF Mem!Sound
<1> QED
  BY <1>4, <1>5, <1>7, <1>10, <1>11 DEF r

LEMMA RemoveIs ==
    ASSUME Mem!MemTierAssumption, NEW s, Mem!Sound(s), NEW k \in Keys
    PROVE  /\ Mem!Sound(Mem!Remove(s, k)) /\ Mem!Places(Mem!Remove(s, k)) \subseteq Mem!Places(s)
           /\ Mem!Present(Mem!Remove(s, k)) = Mem!Present(s) \ {k}
           /\ Mem!Remove(s, k).bytes \in Nat /\ Mem!Remove(s, k).bytes <= s.bytes
           /\ s.bytes \in Nat
           /\ \A j \in Keys : Mem!Remove(s, k).entries[j] = IF j = k THEN None ELSE s.entries[j]
<1>1. CASE s.entries[k] = None
  <2>1. Mem!Remove(s, k) = s
    BY <1>1 DEF Mem!Remove
  <2>2. k \notin Mem!Present(s)
    BY <1>1 DEF Mem!Present
  <2>3. Mem!Load(s, Mem!Present(s)) \in Nat /\ s.bytes = Mem!Load(s, Mem!Present(s))
    BY LoadParts DEF Mem!Sound
  <2> QED
    BY <1>1, <2>1, <2>2, <2>3
<1>2. CASE s.entries[k] # None
  <2> DEFINE ks == {k}  ps == {s.entries[k].used}
  <2>1. ks \in SUBSET Mem!Present(s) /\ ps = Used(s, ks)
    BY <1>2 DEF Mem!Present, Used
  <2>2. Mem!Remove(s, k) = Mem!Forget(s, ks, ps)
    BY <1>2 DEF Mem!Remove
  <2>3. \A j \in Keys : j \in ks <=> j = k
    OBVIOUS
  <2> HIDE DEF ks, ps
  <2>4. /\ Mem!Sound(Mem!Forget(s, ks, ps)) /\ Mem!Places(Mem!Forget(s, ks, ps))
             = Mem!Places(s) \ ps
        /\ Mem!Present(Mem!Forget(s, ks, ps)) = Mem!Present(s) \ ks
        /\ Mem!Forget(s, ks, ps).bytes \in Nat /\ Mem!Forget(s, ks, ps).bytes <= s.bytes
        /\ s.bytes \in Nat
    BY <2>1, ForgetIs
  <2>6. \A j \in Keys : Mem!Forget(s, ks, ps).entries[j] = IF j \in ks THEN None ELSE s.entries[j]
    BY DEF Mem!Forget
  <2>5. Mem!Present(s) \ ks = Mem!Present(s) \ {k}
    BY DEF ks
  <2> QED
    BY <2>2, <2>3, <2>4, <2>5, <2>6
<1> QED
  BY <1>1, <1>2

\* An entry comes in with a number that is new.
LEMMA InsertIs ==
    ASSUME Mem!MemTierAssumption, NEW s, Mem!Sound(s), NEW k \in Keys, NEW size \in Nat,
             NEW n \in Nat, n \notin Mem!Places(s)
    PROVE  /\ Mem!Sound(Mem!Insert(s, k, size, n)) /\ Mem!Places(Mem!Insert(s, k, size, n))
                \subseteq Mem!Places(s) \cup {n}
           /\ \A j \in Keys : j # k => Mem!Insert(s, k, size, n).entries[j] = s.entries[j]
<1> DEFINE r == Mem!Remove(s, k)  q == Mem!Insert(s, k, size, n)  e == [size |-> size, used |-> n]
<1>1. /\ Mem!Sound(r) /\ Mem!Places(r) \subseteq Mem!Places(s) /\ Mem!Present(r)
           = Mem!Present(s) \ {k} /\ r.bytes \in Nat
      /\ \A j \in Keys : r.entries[j] = IF j = k THEN None ELSE s.entries[j]
  BY RemoveIs
<1> HIDE DEF r
<1>2. /\ q.entries = [r.entries EXCEPT ![k] = e]
      /\ q.order = [m \in DOMAIN r.order \cup {n} |-> IF m = n THEN k ELSE r.order[m]]
      /\ q.bytes = r.bytes + size
  BY DEF Mem!Insert, Mem!With, r
<1> HIDE DEF q
<1>3. /\ r.entries \in [Keys -> Mem!Entries \cup {None}] /\ r.order \in [Mem!Places(r) -> Keys]
      /\ \A j \in Mem!Present(r) : r.order[r.entries[j].used] = j
      /\ r.bytes = Mem!Load(r, Mem!Present(r))
  BY <1>1 DEF Mem!Sound
<1>4. e \in Mem!Entries /\ e # None /\ e.used = n /\ e.size = size
  BY DEF Mem!Entries, Mem!MemTierAssumption
<1> HIDE DEF e
<1>5. /\ q.entries \in [Keys -> Mem!Entries \cup {None}] /\ q.entries[k] = e
      /\ \A j \in Keys : j # k => q.entries[j] = r.entries[j] /\ q.entries[j] = s.entries[j]
  BY <1>1, <1>2, <1>3, <1>4
<1>6. Mem!Present(q) = Mem!Present(r) \cup {k} /\ k \notin Mem!Present(r)
  BY <1>1, <1>4, <1>5 DEF Mem!Present
<1>7. \A j \in Mem!Present(r) : q.entries[j] = r.entries[j] /\ j # k
  BY <1>1, <1>5, <1>6 DEF Mem!Present
<1>8. Mem!Places(q) = Mem!Places(r) \cup {n} /\ n \notin Mem!Places(r)
  <2>1. \A j \in Mem!Present(q) : q.entries[j].used = IF j = k THEN n ELSE r.entries[j].used
    BY <1>4, <1>5, <1>6, <1>7
  <2>2. Mem!Places(q) = Mem!Places(r) \cup {n}
    BY <1>6, <1>7, <2>1 DEF Mem!Places
  <2> QED
    BY <1>1, <2>2
<1>9. q.order \in [Mem!Places(q) -> Keys]
  BY <1>2, <1>3, <1>8
<1>10. \A j \in Mem!Present(q) : q.order[q.entries[j].used] = j
  <2>1. q.order[n] = k
    BY <1>2
  <2>2. ASSUME NEW j \in Mem!Present(r) PROVE q.order[q.entries[j].used] = j
    <3>1. r.entries[j].used \in Mem!Places(r) /\ r.entries[j].used # n
      BY <1>8 DEF Mem!Places
    <3>2. q.order[r.entries[j].used] = r.order[r.entries[j].used]
      BY <1>2, <1>3, <3>1
    <3> QED
      BY <1>3, <1>7, <3>2
  <2> QED
    BY <1>4, <1>5, <1>6, <2>1, <2>2
<1>11. q.bytes = Mem!Load(q, Mem!Present(q))
  <2>1. Mem!Present(q) \in SUBSET Mem!Present(q) /\ {k} \in SUBSET Mem!Present(q)
        /\ Mem!Present(q) \ {k} = Mem!Present(r)
    BY <1>6
  <2>2. /\ Mem!Load(q, Mem!Present(q)) \in Nat /\ Mem!Load(q, {k}) \in Nat
        /\ Mem!Load(q, Mem!Present(r)) = Mem!Load(q, Mem!Present(q)) - Mem!Load(q, {k})
    BY <1>5, <2>1, LoadParts
  <2>3. Mem!Load(q, {k}) = size
    BY <1>4, <1>5, LoadOne
  <2>4. Mem!Load(q, Mem!Present(r)) = Mem!Load(r, Mem!Present(r))
    BY <1>7, LoadSame
  <2> QED
    BY <1>1, <1>2, <1>3, <2>2, <2>3, <2>4
<1>12. Mem!Sound(q)
  BY <1>5, <1>9, <1>10, <1>11 DEF Mem!Sound
<1> QED
  BY <1>1, <1>5, <1>8, <1>12 DEF q

\* An entry is used again.
LEMMA TouchIs ==
    ASSUME Mem!MemTierAssumption, NEW s, s
             = [entries |-> s.entries, order |-> s.order, bytes |-> s.bytes],
           Mem!Sound(s), NEW k \in Keys, NEW n \in Nat, n \notin Mem!Places(s)
    PROVE  /\ Mem!Sound(Mem!Touch(s, k, n)) /\ Mem!Places(Mem!Touch(s, k, n))
                \subseteq Mem!Places(s) \cup {n}
           /\ Mem!Touch(s, k, n).bytes = s.bytes /\ s.bytes \in Nat
<1> DEFINE q == Mem!Touch(s, k, n)  e == [s.entries[k] EXCEPT !.used = n]
<1>1. /\ s.entries \in [Keys -> Mem!Entries \cup {None}] /\ s.order \in [Mem!Places(s) -> Keys]
      /\ \A j \in Mem!Present(s) : s.order[s.entries[j].used] = j
      /\ s.bytes = Mem!Load(s, Mem!Present(s))
  BY DEF Mem!Sound
<1>2. s.bytes \in Nat
  <2>1. Mem!Present(s) \in SUBSET Mem!Present(s)
    OBVIOUS
  <2>2. Mem!Load(s, Mem!Present(s)) \in Nat
    BY <1>1, <2>1, LoadParts
  <2> QED
    BY <1>1, <2>2
<1>3. CASE s.entries[k] = None
  <2>1. q = s
    BY <1>3 DEF Mem!Touch
  <2> QED
    BY <1>2, <2>1
<1>4. CASE s.entries[k] # None
  <2> DEFINE o == s.entries[k].used
             w == [m \in (DOMAIN s.order \ {o}) \cup {n} |-> IF m = n THEN k ELSE s.order[m]]
             g == [s.entries EXCEPT ![k] = e]
  <2>1. q = [entries |-> g, order |-> w, bytes |-> s.bytes]
    <3>1. q = [s EXCEPT !.order = Mem!With(Mem!Without(s.order, {o}), n, k), !.entries = g]
      BY <1>4 DEF Mem!Touch
    <3>2. Mem!With(Mem!Without(s.order, {o}), n, k) = w
      <4>1. DOMAIN Mem!Without(s.order, {o}) = DOMAIN s.order \ {o}
        BY DEF Mem!Without
      <4>2. \A m \in DOMAIN s.order \ {o} : Mem!Without(s.order, {o})[m] = s.order[m]
        BY DEF Mem!Without
      <4> QED
        BY <4>1, <4>2 DEF Mem!With
    <3> HIDE DEF w, g, q
    <3> QED
      BY <3>1, <3>2
  <2>2. q.entries = g /\ q.order = w /\ q.bytes = s.bytes
    BY <2>1
  <2> HIDE DEF q
  <2>3. k \in Mem!Present(s) /\ s.entries[k] \in Mem!Entries /\ e \in Mem!Entries /\ e.used = n
        /\ e.size = s.entries[k].size
    BY <1>1, <1>4 DEF Mem!Present, Mem!Entries
  <2>4. e # None
    BY <2>3 DEF Mem!Entries, Mem!MemTierAssumption
  <2> HIDE DEF e
  <2>5. /\ q.entries \in [Keys -> Mem!Entries \cup {None}] /\ q.entries[k] = e
        /\ \A j \in Keys : j # k => q.entries[j] = s.entries[j]
    BY <1>1, <2>2, <2>3
  <2>6. Mem!Present(q) = Mem!Present(s)
    BY <2>3, <2>4, <2>5 DEF Mem!Present
  <2>7. \A j \in Mem!Present(s) : j \in Keys /\ q.entries[j].used = IF j = k THEN n
          ELSE s.entries[j].used
    BY <2>3, <2>5 DEF Mem!Present
  <2>8. \A j, i \in Mem!Present(s) : s.entries[j].used = s.entries[i].used => j = i
    BY PlacesAreKeys
  <2>9. Mem!Places(q) = (Mem!Places(s) \ {o}) \cup {n}
    <3>1. Mem!Places(s) = {s.entries[j].used : j \in Mem!Present(s)}
      BY DEF Mem!Places
    <3>2. Mem!Places(q) = {IF j = k THEN n ELSE s.entries[j].used : j \in Mem!Present(s)}
      BY <2>6, <2>7 DEF Mem!Places
    <3>3. ASSUME NEW m \in Mem!Places(q) PROVE m \in (Mem!Places(s) \ {o}) \cup {n}
      BY <2>3, <2>8, <3>1, <3>2
    <3>4. ASSUME NEW m \in (Mem!Places(s) \ {o}) \cup {n} PROVE m \in Mem!Places(q)
      BY <2>3, <2>8, <3>1, <3>2
    <3> QED
      BY <3>3, <3>4
  <2>10. q.order \in [Mem!Places(q) -> Keys]
    BY <1>1, <2>2, <2>9
  <2>11. \A j \in Mem!Present(q) : q.order[q.entries[j].used] = j
    <3>1. q.order[n] = k
      BY <2>2
    <3>2. ASSUME NEW j \in Mem!Present(s), j # k PROVE q.order[q.entries[j].used] = j
      <4>1. s.entries[j].used \in Mem!Places(s) /\ s.entries[j].used # n /\ s.entries[j].used # o
        BY <2>3, <2>8, <3>2 DEF Mem!Places
      <4>2. q.order[s.entries[j].used] = s.order[s.entries[j].used]
        BY <1>1, <2>2, <4>1
      <4> QED
        BY <1>1, <2>7, <3>2, <4>2
    <3> QED
      BY <2>3, <2>6, <2>7, <3>1, <3>2
  <2>12. q.bytes = Mem!Load(q, Mem!Present(q))
    <3>1. \A j \in Mem!Present(s) : q.entries[j].size = s.entries[j].size
      BY <2>3, <2>5 DEF Mem!Present
    <3>2. Mem!Load(q, Mem!Present(s)) = Mem!Load(s, Mem!Present(s))
      BY Zenon, <3>1, LoadSame
    <3> QED
      BY <1>1, <2>2, <2>6, <3>2
  <2>13. Mem!Sound(q)
    BY <2>5, <2>10, <2>11, <2>12 DEF Mem!Sound
  <2> QED
    BY <1>2, <2>2, <2>9, <2>13 DEF q
<1> QED
  BY <1>3, <1>4

\* What goes first are the lowest numbers.
LEMMA FirstIs ==
    ASSUME Mem!MemTierAssumption, NEW s, Mem!Sound(s), NEW i \in Nat
    PROVE  /\ Mem!First(s, i) \subseteq Mem!Places(s)
           /\ \A n \in Mem!First(s, i), m \in Mem!Places(s) : m < n => m \in Mem!First(s, i)
           /\ i >= Mem!Cardinality(Mem!Places(s)) => Mem!First(s, i) = Mem!Places(s)
<1> DEFINE B(n) == {m \in Mem!Places(s) : m < n}
<1>1. Mem!IsFiniteSet(Mem!Places(s)) /\ DOMAIN s.order = Mem!Places(s) /\ Mem!Places(s)
        \subseteq Nat
  BY PlacesAreKeys
<1>2. \A n : n \in Mem!First(s, i) <=> n \in Mem!Places(s) /\ Mem!Cardinality(B(n)) < i
  BY <1>1 DEF Mem!First
<1>3. \A n : Mem!IsFiniteSet(B(n)) /\ Mem!Cardinality(B(n)) \in Nat
  <2> SUFFICES ASSUME NEW n PROVE Mem!IsFiniteSet(B(n)) /\ Mem!Cardinality(B(n)) \in Nat
    OBVIOUS
  <2>1. B(n) \subseteq Mem!Places(s)
    OBVIOUS
  <2> HIDE DEF B
  <2> QED
    BY MemSizes, <1>1, <2>1, FS_Subset, FS_CardinalityType
<1>4. ASSUME NEW n \in Mem!First(s, i), NEW m \in Mem!Places(s), m < n PROVE m \in Mem!First(s, i)
  <2>1. n \in Mem!Places(s) /\ n \in Nat /\ m \in Nat
    BY <1>1, <1>2
  <2>2. B(m) \subseteq B(n)
    BY <1>1, <1>4, <2>1
  <2> HIDE DEF B
  <2>3. Mem!Cardinality(B(m)) <= Mem!Cardinality(B(n))
    BY MemSizes, <1>3, <2>2, FS_Subset
  <2> QED
    BY <1>2, <1>3, <2>3
<1>5. ASSUME i >= Mem!Cardinality(Mem!Places(s)), NEW n \in Mem!Places(s)
      PROVE n \in Mem!First(s, i)
  <2>1. n \notin B(n) /\ n \in Mem!Places(s) /\ B(n) \subseteq Mem!Places(s)
        /\ B(n) # Mem!Places(s)
    BY <1>1, <1>5
  <2> HIDE DEF B
  <2>2. Mem!Cardinality(B(n)) < Mem!Cardinality(Mem!Places(s))
    <3> DEFINE P == Mem!Places(s)  C == B(n)
    <3>1. Mem!IsFiniteSet(P) /\ C \in SUBSET P /\ C # P
      BY <1>1, <2>1
    <3> HIDE DEF P, C
    <3>2. Mem!Cardinality(C) <= Mem!Cardinality(P)
          /\ (Mem!Cardinality(C) = Mem!Cardinality(P) => C = P)
      BY MemSizes, <3>1, FS_Subset
    <3>3. Mem!Cardinality(C) \in Nat /\ Mem!Cardinality(P) \in Nat
      BY MemSizes, <3>1, FS_Subset, FS_CardinalityType
    <3>4. Mem!Cardinality(C) < Mem!Cardinality(P)
      BY <3>1, <3>2, <3>3
    <3> QED
      BY <3>4 DEF P, C
  <2>3. Mem!Cardinality(Mem!Places(s)) \in Nat
    BY MemSizes, <1>1, FS_CardinalityType
  <2> QED
    BY <1>2, <1>3, <1>5, <2>2, <2>3
<1>6. Mem!First(s, i) \subseteq Mem!Places(s)
  BY <1>2
<1> QED
  BY <1>4, <1>5, <1>6

LEMMA PoppedIs ==
    ASSUME Mem!MemTierAssumption, NEW s, Mem!Sound(s), NEW i \in Nat
    PROVE  /\ Mem!Sound(Mem!Popped(s, i)) /\ Mem!Places(Mem!Popped(s, i)) \subseteq Mem!Places(s)
           /\ Mem!Popped(s, i).bytes \in Nat /\ s.bytes \in Nat /\ Mem!Popped(s, i).bytes
                <= s.bytes
           /\ \A k \in Keys : Mem!Popped(s, i).entries[k] # None => Mem!Popped(s, i).entries[k]
                = s.entries[k]
           /\ \A k, j \in Keys : s.entries[k] # None /\ Mem!Popped(s, i).entries[k] = None
              /\ Mem!Popped(s, i).entries[j] # None
                                    => s.entries[k].used < s.entries[j].used
           /\ i >= Mem!Cardinality(Mem!Places(s)) => Mem!Popped(s, i).bytes = 0
<1> DEFINE ps == Mem!First(s, i)  ks ==
             {s.order[n] : n \in Mem!First(s, i)} \cap Mem!Present(s)  r == Mem!Popped(s, i)
<1>1. /\ s.entries \in [Keys -> Mem!Entries \cup {None}] /\ s.order \in [Mem!Places(s) -> Keys]
      /\ \A k \in Mem!Present(s) : s.order[s.entries[k].used] = k
      /\ s.bytes = Mem!Load(s, Mem!Present(s))
  BY DEF Mem!Sound
<1>2. ps \subseteq Mem!Places(s) /\ \A n \in ps, m \in Mem!Places(s) : m < n => m \in ps
  BY FirstIs
<1>3. i >= Mem!Cardinality(Mem!Places(s)) => ps = Mem!Places(s)
  BY FirstIs
<1>4. \A k \in Mem!Present(s) : k \in ks <=> s.entries[k].used \in ps
  <2>1. ASSUME NEW k \in Mem!Present(s), k \in ks PROVE s.entries[k].used \in ps
    <3>1. PICK n \in ps : k = s.order[n]
      BY <2>1
    <3>2. PICK j \in Mem!Present(s) : n = s.entries[j].used
      BY <1>2, <3>1 DEF Mem!Places
    <3> QED
      BY <1>1, <3>1, <3>2
  <2>2. ASSUME NEW k \in Mem!Present(s), s.entries[k].used \in ps PROVE k \in ks
    BY <1>1, <2>2
  <2> QED
    BY <2>1, <2>2
<1>5. ks \in SUBSET Mem!Present(s)
  OBVIOUS
<1>6. r = Mem!Forget(s, ks, ps)
  BY DEF Mem!Popped
<1> HIDE DEF ps, ks, r
<1>7. ps = Used(s, ks)
  <2>1. ASSUME NEW n \in ps PROVE n \in Used(s, ks)
    <3>1. PICK j \in Mem!Present(s) : n = s.entries[j].used
      BY <1>2 DEF Mem!Places
    <3> QED
      BY <1>4, <3>1 DEF Used
  <2>2. ASSUME NEW n \in Used(s, ks) PROVE n \in ps
    BY <1>4, <1>5 DEF Used
  <2> QED
    BY <2>1, <2>2
<1>8. /\ Mem!Sound(r) /\ Mem!Places(r) = Mem!Places(s) \ ps /\ r.bytes \in Nat
      /\ s.bytes \in Nat /\ r.bytes <= s.bytes
  BY <1>5, <1>6, <1>7, ForgetIs
<1>9. /\ \A k \in Keys : r.entries[k] = IF k \in ks THEN None ELSE s.entries[k]
      /\ r.bytes = s.bytes - Mem!Load(s, ks)
  BY <1>6 DEF Mem!Forget
<1>10. ASSUME NEW k \in Keys, NEW j \in Keys, s.entries[k] # None, r.entries[k] = None,
                r.entries[j] # None
       PROVE  s.entries[k].used < s.entries[j].used
  <2>1. k \in ks /\ j \notin ks /\ k \in Mem!Present(s) /\ j \in Mem!Present(s)
    BY <1>9, <1>10 DEF Mem!Present
  <2>2. s.entries[k].used \in ps /\ s.entries[j].used \notin ps
    BY <1>4, <2>1
  <2>3. s.entries[k].used \in Mem!Places(s) /\ s.entries[j].used \in Mem!Places(s)
    BY <2>1 DEF Mem!Places
  <2>4. s.entries[k].used \in Nat /\ s.entries[j].used \in Nat
    BY <2>3, PlacesAreKeys
  <2>5. s.entries[j].used < s.entries[k].used => s.entries[j].used \in ps
    BY <1>2, <2>2, <2>3
  <2> QED
    BY <2>2, <2>4, <2>5
<1>11. ASSUME i >= Mem!Cardinality(Mem!Places(s)) PROVE r.bytes = 0
  <2>1. ks = Mem!Present(s)
    BY <1>3, <1>4, <1>5, <1>11 DEF Mem!Places
  <2> QED
    BY <1>1, <1>8, <1>9, <2>1
<1>12. \A k \in Keys : r.entries[k] # None => r.entries[k] = s.entries[k]
  BY <1>9
<1>13. Mem!Places(r) \subseteq Mem!Places(s)
  BY <1>8
<1> QED
  BY <1>8, <1>10, <1>11, <1>12, <1>13 DEF r

\* pop_lru comes down to the capacity, if it may go on for as long as there are keys.
LEMMA PopIs ==
    ASSUME Mem!MemTierAssumption, NEW s, Mem!Sound(s), NEW cap \in Nat, NEW most \in Nat
    PROVE  \E i \in Nat :
              /\ Mem!PopLru(s, cap, most) = Mem!Popped(s, i)
              /\ most >= Mem!Cardinality(Mem!Places(s)) => Mem!Popped(s, i).bytes <= cap
<1> DEFINE S == {i \in 0 .. most : i = most \/ Mem!Popped(s, i).bytes <= cap \/ i
             = Mem!Cardinality(DOMAIN s.order)}
           i == Mem!Min(S)
<1>1. S \in SUBSET Nat /\ most \in S
  OBVIOUS
<1>2. Mem!PopLru(s, cap, most) = Mem!Popped(s, i)
  BY DEF Mem!PopLru
<1>3. \A j \in S : j \in Nat
      /\ (j = most \/ Mem!Popped(s, j).bytes <= cap \/ j = Mem!Cardinality(Mem!Places(s)))
  BY PlacesAreKeys
<1> HIDE DEF S
<1>4. PICK j \in S : \A n \in S : j <= n
  BY <1>1, LeastNat
<1>5. i \in S
  BY <1>4, MemMinIs
<1> HIDE DEF i
<1>6. i \in Nat
      /\ (i = most \/ Mem!Popped(s, i).bytes <= cap \/ i = Mem!Cardinality(Mem!Places(s)))
  BY <1>3, <1>5
<1>7. ASSUME most >= Mem!Cardinality(Mem!Places(s)) PROVE Mem!Popped(s, i).bytes <= cap
  <2>1. CASE Mem!Popped(s, i).bytes <= cap
    BY <2>1
  <2>2. CASE i = most \/ i = Mem!Cardinality(Mem!Places(s))
    <3>1. Mem!Cardinality(Mem!Places(s)) \in Nat
      BY MemSizes, PlacesAreKeys, FS_CardinalityType
    <3>2. i >= Mem!Cardinality(Mem!Places(s))
      BY <1>7, <2>2, <3>1
    <3>3. Mem!Popped(s, i).bytes = 0
      BY <1>6, <3>2, PoppedIs
    <3> QED
      BY <3>3
  <2> QED
    BY <1>6, <2>1, <2>2
<1> QED
  BY <1>2, <1>6, <1>7

\* Chunks go until what is left fits, or there is none.
LEMMA ReleasedIs ==
    ASSUME Mem!MemTierAssumption, Mem!TypeOK, NEW used \in Nat, NEW cap \in Nat
    PROVE  /\ Mem!Released(used, cap) \in Nat /\ Mem!Released(used, cap) <= v5
           /\ Mem!Released(used, cap) = 0 \/ used + Mem!Released(used, cap) * Chunk <= cap
<1> DEFINE chunks == v5
<1> DEFINE S == {0} \cup {n \in 0 .. chunks : used + n * Chunk <= cap}
<1>1. chunks \in Nat
  BY DEF Mem!TypeOK
<1>2. S \in SUBSET (0 .. chunks) /\ S # {}
  BY <1>1
<1>3. \A n \in S : n \in Nat /\ n <= chunks /\ (n = 0 \/ used + n * Chunk <= cap)
  BY <1>1
<1>4. Mem!Released(used, cap) = Mem!Max(S)
  BY DEF Mem!Released
<1> HIDE DEF S
<1>5. Mem!Max(S) \in S
  BY <1>1, <1>2, MemBoundedMax
<1> QED
  BY <1>3, <1>4, <1>5

\* What a store is does not depend on how it was made.
LEMMA StoreIs ==
    ASSUME NEW s, Mem!Sound(s), NEW e, NEW o, NEW b, e = s.entries, o = s.order, b = s.bytes
    PROVE  /\ Mem!Sound([entries |-> e, order |-> o, bytes |-> b])
           /\ Mem!Places([entries |-> e, order |-> o, bytes |-> b]) = Mem!Places(s)
<1> DEFINE r == [entries |-> e, order |-> o, bytes |-> b]
<1>1. r.entries = s.entries /\ r.order = s.order /\ r.bytes = s.bytes
  OBVIOUS
<1> HIDE DEF r
<1>2. Mem!Present(r) = Mem!Present(s)
  BY <1>1 DEF Mem!Present
<1>3. Mem!Places(r) = Mem!Places(s)
  BY <1>1, <1>2 DEF Mem!Places
<1>4. Mem!Load(r, Mem!Present(r)) = Mem!Load(s, Mem!Present(s))
  BY <1>1, <1>2 DEF Mem!Load
<1>5. Mem!Sound(r)
  BY <1>1, <1>2, <1>3, <1>4 DEF Mem!Sound
<1> QED
  BY <1>3, <1>5 DEF r

LEMMA Later ==
    ASSUME NEW s, Mem!Sound(s), Mem!Becomes(s)
    PROVE  Mem!Sound(Mem!TheStore)' /\ Mem!Places(Mem!TheStore)' = Mem!Places(s)
<1> DEFINE entries == v1  order == v2  bytes == v3
<1>1. entries' = s.entries /\ order' = s.order /\ bytes' = s.bytes
  BY DEF Mem!Becomes
<1>2. /\ Mem!Sound([entries |-> entries', order |-> order', bytes |-> bytes'])
      /\ Mem!Places([entries |-> entries', order |-> order', bytes |-> bytes']) = Mem!Places(s)
  BY <1>1, StoreIs
<1> QED
  BY <1>2 DEF Mem!TheStore

LEMMA Before ==
    ASSUME Mem!MemTierAssumption, Mem!Sound(Mem!TheStore)
    PROVE  /\ Mem!TheStore
                = [entries |-> Mem!TheStore.entries, order |-> Mem!TheStore.order,
                  bytes |-> Mem!TheStore.bytes]
           /\ Mem!TheStore.entries = v1 /\ Mem!TheStore.order = v2 /\ Mem!TheStore.bytes = v3
           /\ v3 \in Nat /\ v1 \in [Keys -> Mem!Entries \cup {None}]
<1> DEFINE entries == v1  order == v2  bytes == v3
<1>1. /\ Mem!TheStore
           = [entries |-> Mem!TheStore.entries, order |-> Mem!TheStore.order,
             bytes |-> Mem!TheStore.bytes]
      /\ Mem!TheStore.entries = entries /\ Mem!TheStore.order = order /\ Mem!TheStore.bytes
           = bytes
  BY DEF Mem!TheStore
<1>2. Mem!TheStore.entries \in [Keys -> Mem!Entries \cup {None}] /\ Mem!TheStore.bytes
        = Mem!Load(Mem!TheStore, Mem!Present(Mem!TheStore))
  BY DEF Mem!Sound
<1>3. Mem!Present(Mem!TheStore) \in SUBSET Mem!Present(Mem!TheStore)
  OBVIOUS
<1>4. Mem!Load(Mem!TheStore, Mem!Present(Mem!TheStore)) \in Nat
  BY <1>2, <1>3, LoadParts
<1> QED
  BY <1>1, <1>2, <1>4

\* A step uses the number of the thread that makes it, or none.
LEMMA NewStays ==
    ASSUME Mem!NumbersAreNew, v7' = v7, NEW ns, Mem!Places(Mem!TheStore)'
             \subseteq Mem!Places(Mem!TheStore) \cup ns,
           \A n \in ns : n < v7,
           \A u \in Threads : Mem!Draws(u)' => Mem!Draws(u) /\ v8'[u] = v8[u]
           /\ v8[u].seq \notin ns
    PROVE  Mem!NumbersAreNew'
<1> DEFINE clock == v7  op == v8
<1> DEFINE P == Mem!Places(Mem!TheStore)  Q == Mem!Places(Mem!TheStore)'
<1>1. /\ \A n \in P : n < clock
      /\ \A t \in Threads : Mem!Draws(t) => op[t].key \in Keys /\ op[t].seq < clock
         /\ op[t].seq \notin P
      /\ \A t, u \in Threads : t # u /\ Mem!Draws(t) /\ Mem!Draws(u) => op[t].seq # op[u].seq
  BY Zenon DEF Mem!NumbersAreNew
<1>2. Q \subseteq P \cup ns
  OBVIOUS
<1> HIDE DEF P, Q
<1>3. \A n \in Q : n < clock
  BY <1>1, <1>2
<1>4. \A t \in Threads : Mem!Draws(t)' => op'[t].key \in Keys /\ op'[t].seq < clock'
      /\ op'[t].seq \notin Q
  BY <1>1, <1>2
<1>5. \A t, u \in Threads : t # u /\ Mem!Draws(t)' /\ Mem!Draws(u)' => op'[t].seq # op'[u].seq
  BY <1>1
<1>6. \A n \in Q : n < clock'
  BY <1>3
<1> QED
  BY Zenon, <1>4, <1>5, <1>6 DEF Mem!NumbersAreNew, Q

\* Entries go: what fits, fits.
LEMMA RoomStays ==
    ASSUME Mem!RoomIsMade, v3 \in Nat, v3' \in Nat, v5 \in Nat, Chunk \in Nat, v4 \in Nat,
           v8 \in [Threads -> Mem!Operations], v3' <= v3, v5' = v5, v4' = v4, v10' = v10,
           v9' = v9, v9 \in Mem!Probing,
           \A u \in Threads : v8[u].pc = "make_room" \/ v8'[u].pc = "make_room" => v8'[u] = v8[u]
    PROVE  Mem!RoomIsMade'
<1> DEFINE bytes == v3  capacity == v4  chunks == v5  op == v8  probe == v9  lag == v10
<1> DEFINE b == chunks * Chunk
<1>1. b \in Int /\ Mem!Ballast = b /\ Mem!Ballast' = b
  BY DEF Mem!Ballast
<1> HIDE DEF b
<1>6. Mem!Fits <=> bytes + b <= capacity
  BY <1>1 DEF Mem!Fits
<1>7. Mem!Fits' <=> bytes' + b <= capacity
  BY <1>1 DEF Mem!Fits
<1>2. Mem!Fits => Mem!Fits'
  <2> DEFINE x == bytes  y == bytes'  c == capacity
  <2>1. x \in Int /\ y \in Int /\ c \in Int /\ y <= x
    OBVIOUS
  <2> HIDE DEF x, y, c
  <2>2. x + b <= c => y + b <= c
    BY <1>1, <2>1
  <2> QED
    BY Zenon, <1>6, <1>7, <2>2 DEF x, y, c
<1>3. \A t \in Threads : Mem!MakesRoom(t) => Mem!MakesRoom(t)'
  BY DEF Mem!MakesRoom, Mem!Operations
<1>4. \A t \in Threads : op'[t].pc = "make_room" => op'[t].used <= op'[t].cap
  BY DEF Mem!RoomIsMade
<1>5. bytes <= probe.used => bytes' <= probe'.used
  BY DEF Mem!Probing
<1>8. lag' <=> lag
  OBVIOUS
<1>9. /\ probe.pc = "release" => probe'.pc = "release"
      /\ probe.pc = "release_again" /\ bytes <= probe.used => probe'.pc = "release_again"
         /\ bytes' <= probe'.used
      /\ probe.pc = "enforce" /\ chunks = 0 => probe'.pc = "enforce" /\ chunks' = 0
  BY <1>5
<1> QED
  BY Zenon, <1>2, <1>3, <1>4, <1>8, <1>9 DEF Mem!RoomIsMade

LEMMA Product ==
    ASSUME NEW n \in Nat, NEW m \in Nat, NEW c \in Nat
    PROVE  /\ n * c \in Nat /\ m * c \in Nat /\ (m <= n => m * c <= n * c)
           /\ (n + 1) * c = n * c + c /\ 0 * c = 0
<1>1. n * c \in Nat /\ m * c \in Nat /\ (n + 1) * c = n * c + c /\ 0 * c = 0
  BY Z3
<1>2. m <= n => m * c <= n * c
  <2> SUFFICES ASSUME m <= n PROVE m * c <= n * c
    OBVIOUS
  <2>1. n - m \in Nat /\ n = m + (n - m)
    OBVIOUS
  <2>2. (m + (n - m)) * c = m * c + (n - m) * c /\ (n - m) * c \in Nat
    BY <2>1, Z3
  <2> QED
    BY <1>1, <2>1, <2>2
<1> QED
  BY <1>1, <1>2

\* Each step keeps the invariant.
Given == Mem!MemTierAssumption /\ Mem!MemInv

LEMMA Known ==
    ASSUME Given
    PROVE  /\ Mem!MemTierAssumption /\ Mem!TypeOK /\ Mem!Sound(Mem!TheStore)
           /\ Mem!NumbersAreNew /\ Mem!RoomIsMade
           /\ v3 \in Nat /\ v5 \in Nat /\ Chunk \in Nat /\ v4 \in Nat /\ v7 \in Nat
           /\ v8 \in [Threads -> Mem!Operations] /\ v9 \in Mem!Probing
           /\ v1 \in [Keys -> Mem!Entries \cup {None}]
           /\ Mem!TheStore
                = [entries |-> Mem!TheStore.entries, order |-> Mem!TheStore.order,
                  bytes |-> Mem!TheStore.bytes]
           /\ Mem!TheStore.entries = v1 /\ Mem!TheStore.order = v2 /\ Mem!TheStore.bytes = v3
<1> DEFINE entries == v1  order == v2  bytes == v3  capacity == v4  chunks == v5  clock == v7
           op == v8  probe == v9
<1>1. Mem!MemTierAssumption /\ Mem!TypeOK /\ Mem!Sound(Mem!TheStore) /\ Mem!NumbersAreNew
      /\ Mem!RoomIsMade
  BY DEF Given, Mem!MemInv
<1>2. /\ bytes \in Nat /\ entries \in [Keys -> Mem!Entries \cup {None}]
      /\ Mem!TheStore
           = [entries |-> Mem!TheStore.entries, order |-> Mem!TheStore.order,
             bytes |-> Mem!TheStore.bytes]
      /\ Mem!TheStore.entries = entries /\ Mem!TheStore.order = order /\ Mem!TheStore.bytes
           = bytes
  BY <1>1, Before
<1>3. /\ chunks \in Nat /\ Chunk \in Nat /\ capacity \in Nat /\ clock \in Nat
      /\ op \in [Threads -> Mem!Operations] /\ probe \in Mem!Probing
  BY <1>1 DEF Mem!TypeOK, Mem!MemTierAssumption
<1> QED
  BY <1>1, <1>2, <1>3

\* The store stays as it is.
LEMMA SameStore ==
    ASSUME Mem!Sound(Mem!TheStore), UNCHANGED Mem!store
    PROVE  Mem!Sound(Mem!TheStore)' /\ Mem!Places(Mem!TheStore)' = Mem!Places(Mem!TheStore)
<1>1. Mem!TheStore' = Mem!TheStore
  BY DEF Mem!TheStore, Mem!store
<1>2. Mem!Sound(Mem!TheStore') /\ Mem!Places(Mem!TheStore') = Mem!Places(Mem!TheStore)
  BY <1>1
<1> QED
  BY <1>2

LEMMA DrawnIs ==
    ASSUME Given, NEW t \in Threads, Mem!Draws(t)
    PROVE  v8[t].key \in Keys /\ v8[t].seq \in Nat /\ v8[t].seq < v7
           /\ v8[t].seq \notin Mem!Places(Mem!TheStore)
<1> DEFINE clock == v7  op == v8
<1>1. Mem!NumbersAreNew /\ op[t] \in Mem!Operations
  BY Known
<1>2. op[t].key \in Keys /\ op[t].seq < clock /\ op[t].seq \notin Mem!Places(Mem!TheStore)
  BY <1>1 DEF Mem!NumbersAreNew
<1> QED
  BY <1>1, <1>2 DEF Mem!Operations

\* A thread is done with a number that it has drawn.
LEMMA Finished ==
    ASSUME Given, NEW t \in Threads, Mem!Draws(t), NEW o \in Mem!Operations, v8'
             = [v8 EXCEPT ![t] = o],
           o.pc \notin {"get", "refresh", "insert"}, v7' = v7,
           Mem!Places(Mem!TheStore)' \subseteq Mem!Places(Mem!TheStore) \cup {v8[t].seq}
    PROVE  Mem!NumbersAreNew' /\ v8' \in [Threads -> Mem!Operations]
<1> DEFINE clock == v7  op == v8
<1>1. op \in [Threads -> Mem!Operations] /\ Mem!NumbersAreNew
  BY Known
<1>2. op' \in [Threads -> Mem!Operations] /\ op'[t] = o /\ \A u \in Threads : u # t => op'[u]
        = op[u]
  BY <1>1
<1>3. \A n \in {op[t].seq} : n < clock
  BY DrawnIs
<1>4. \A u \in Threads : Mem!Draws(u)' => Mem!Draws(u) /\ op'[u] = op[u]
      /\ op[u].seq \notin {op[t].seq}
  <2> SUFFICES ASSUME NEW u \in Threads, Mem!Draws(u)' PROVE Mem!Draws(u) /\ op'[u] = op[u]
                      /\ op[u].seq # op[t].seq
    OBVIOUS
  <2>1. op'[u].pc \in {"get", "refresh", "insert"}
    BY DEF Mem!Draws
  <2>2. u # t /\ op'[u] = op[u]
    BY <1>2, <2>1
  <2>3. Mem!Draws(u)
    BY <2>1, <2>2 DEF Mem!Draws
  <2> QED
    BY <1>1, <2>2, <2>3 DEF Mem!NumbersAreNew
<1>5. Mem!NumbersAreNew'
  BY <1>1, <1>3, <1>4, NewStays
<1> QED
  BY <1>2, <1>5

LEMMA IdleIs == Mem!Idle \in Mem!Operations /\ Mem!Idle.pc = "idle"
BY DEF Mem!Idle, Mem!Operations

LEMMA CallKeeps ==
    ASSUME Given, NEW t \in Threads, NEW pc \in {"get", "refresh", "insert"}, NEW k \in Keys,
             NEW z \in Nat,
           Mem!Call(t, pc, k, z)
    PROVE  Mem!MemInv'
<1> DEFINE bytes == v3  capacity == v4  chunks == v5  failed == v6  clock == v7  op == v8
           probe == v9  lag == v10
<1> DEFINE o == [pc |-> pc, key |-> k, size |-> z, seq |-> clock, cap |-> capacity, used |-> 0]
<1>1. /\ op[t].pc = "idle" /\ clock' = clock + 1 /\ op' = [op EXCEPT ![t] = o]
      /\ UNCHANGED <<Mem!store, capacity, chunks, failed, probe, lag>>
  BY DEF Mem!Call
<1>2. /\ Mem!TypeOK /\ Mem!Sound(Mem!TheStore) /\ Mem!NumbersAreNew /\ Mem!RoomIsMade
      /\ bytes \in Nat /\ chunks \in Nat /\ Chunk \in Nat
      /\ capacity \in Nat /\ clock \in Nat /\ op \in [Threads -> Mem!Operations]
      /\ probe \in Mem!Probing
  BY Known
<1>3. o \in Mem!Operations /\ o.pc = pc /\ o.key = k /\ o.seq = clock
  BY <1>2 DEF Mem!Operations
<1> HIDE DEF o
<1>4. op' \in [Threads -> Mem!Operations] /\ op'[t] = o /\ \A u \in Threads : u # t => op'[u]
        = op[u]
  BY <1>1, <1>2, <1>3
<1>5. Mem!Sound(Mem!TheStore)' /\ Mem!Places(Mem!TheStore)' = Mem!Places(Mem!TheStore)
  BY <1>1, <1>2, SameStore
<1>6. Mem!TypeOK'
  BY <1>1, <1>2, <1>4 DEF Mem!TypeOK
<1>7. Mem!NumbersAreNew'
  <2> DEFINE P == Mem!Places(Mem!TheStore)  Q == Mem!Places(Mem!TheStore)'
  <2>1. /\ \A n \in P : n < clock
        /\ \A u \in Threads : Mem!Draws(u) => op[u].key \in Keys /\ op[u].seq < clock
           /\ op[u].seq \notin P
        /\ \A u, v \in Threads : u # v /\ Mem!Draws(u) /\ Mem!Draws(v) => op[u].seq # op[v].seq
    BY Zenon, <1>2 DEF Mem!NumbersAreNew
  <2>2. P \subseteq Nat
    BY <1>2, Known, PlacesAreKeys
  <2>3. Q = P
    BY <1>5
  <2> HIDE DEF P, Q
  <2>4. \A n \in Q : n < clock'
    BY <1>1, <1>2, <2>1, <2>2, <2>3
  <2>5. clock \notin P
    BY <1>2, <2>1
  <2>6. \A u \in Threads : u # t /\ Mem!Draws(u)' => Mem!Draws(u) /\ op'[u] = op[u]
    BY <1>4 DEF Mem!Draws
  <2>7. \A u \in Threads : Mem!Draws(u)' => op'[u].key \in Keys /\ op'[u].seq < clock'
        /\ op'[u].seq \notin Q
    <3>1. \A u \in Threads : op[u].seq \in Nat
      BY <1>2 DEF Mem!Operations
    <3> QED
      BY <1>1, <1>2, <1>3, <1>4, <2>1, <2>3, <2>5, <2>6, <3>1
  <2>8. \A u, v \in Threads : u # v /\ Mem!Draws(u)' /\ Mem!Draws(v)' => op'[u].seq # op'[v].seq
    <3>1. \A u \in Threads : u # t /\ Mem!Draws(u)' => op'[u].seq # clock
      BY <1>2, <2>1, <2>6
    <3> QED
      BY <1>3, <1>4, <2>1, <2>6, <3>1
  <2> QED
    BY Zenon, <2>4, <2>7, <2>8 DEF Mem!NumbersAreNew, Q
<1>8. \A u \in Threads : op[u].pc = "make_room" \/ op'[u].pc = "make_room" => op'[u] = op[u]
  BY <1>1, <1>3, <1>4
<1>9. bytes' = bytes /\ bytes' \in Nat /\ bytes' <= bytes
  BY <1>1, <1>2 DEF Mem!store
<1>10. Mem!RoomIsMade'
  BY <1>1, <1>2, <1>8, <1>9, RoomStays
<1> QED
  BY <1>5, <1>6, <1>7, <1>10 DEF Mem!MemInv

\* A thread uses its number, nothing comes in, and it is done.
LEMMA UsesOnly ==
    ASSUME Given, NEW t \in Threads, Mem!Draws(t), NEW s, Mem!Sound(s), Mem!Becomes(s),
             Mem!Done(t),
           Mem!Places(s) \subseteq Mem!Places(Mem!TheStore) \cup {v8[t].seq}, s.bytes \in Nat,
             s.bytes <= v3,
           UNCHANGED <<v4, v5, v6, v7, v9, v10>>
    PROVE  Mem!MemInv'
<1> DEFINE bytes == v3  capacity == v4  chunks == v5  clock == v7  op == v8  probe == v9
<1>1. /\ Mem!TypeOK /\ Mem!RoomIsMade /\ bytes \in Nat /\ chunks \in Nat /\ Chunk \in Nat
      /\ capacity \in Nat /\ clock \in Nat /\ op \in [Threads -> Mem!Operations]
      /\ probe \in Mem!Probing
  BY Known
<1>2. Mem!Sound(Mem!TheStore)' /\ Mem!Places(Mem!TheStore)' = Mem!Places(s)
  BY Later
<1>3. op' = [op EXCEPT ![t] = Mem!Idle] /\ Mem!Idle \in Mem!Operations /\ Mem!Idle.pc = "idle"
  BY IdleIs DEF Mem!Done
<1>4. Mem!Places(Mem!TheStore)' \subseteq Mem!Places(Mem!TheStore) \cup {op[t].seq}
  BY <1>2
<1>5. Mem!Idle.pc \notin {"get", "refresh", "insert"}
  BY <1>3
<1>6. Mem!NumbersAreNew' /\ op' \in [Threads -> Mem!Operations]
  BY <1>3, <1>4, <1>5, Finished
<1>7. Mem!TypeOK'
  BY <1>1, <1>6 DEF Mem!TypeOK
<1>8. bytes' \in Nat /\ bytes' <= bytes
  BY DEF Mem!Becomes
<1>9. \A u \in Threads : op[u].pc = "make_room" \/ op'[u].pc = "make_room" => op'[u] = op[u]
  <2>1. op[t].pc # "make_room"
    BY DEF Mem!Draws
  <2> QED
    BY <1>1, <1>3, <2>1
<1>10. Mem!RoomIsMade'
  BY <1>1, <1>8, <1>9, RoomStays
<1> QED
  BY <1>2, <1>6, <1>7, <1>10 DEF Mem!MemInv

LEMMA DrawnStore ==
    ASSUME Given, NEW t \in Threads, Mem!Draws(t)
    PROVE  /\ Mem!Sound(Mem!Touch(Mem!TheStore, v8[t].key, v8[t].seq))
           /\ Mem!Places(Mem!Touch(Mem!TheStore, v8[t].key, v8[t].seq))
                \subseteq Mem!Places(Mem!TheStore) \cup {v8[t].seq}
           /\ Mem!Touch(Mem!TheStore, v8[t].key, v8[t].seq).bytes = v3
<1> DEFINE bytes == v3  op == v8
<1> DEFINE s == Mem!TheStore  k == op[t].key  n == op[t].seq
<1>1. /\ Mem!MemTierAssumption /\ s
           = [entries |-> s.entries, order |-> s.order, bytes |-> s.bytes]
      /\ Mem!Sound(s) /\ s.bytes = bytes
  BY Known
<1>2. k \in Keys /\ n \in Nat /\ n \notin Mem!Places(s)
  BY DrawnIs
<1> HIDE DEF s, k, n
<1>3. Mem!Sound(Mem!Touch(s, k, n)) /\ Mem!Places(Mem!Touch(s, k, n)) \subseteq Mem!Places(s)
        \cup {n} /\ Mem!Touch(s, k, n).bytes = s.bytes
  BY <1>1, <1>2, TouchIs
<1> QED
  BY <1>1, <1>3 DEF s, k, n

LEMMA GetKeeps == ASSUME Given, NEW t \in Threads, Mem!Get(t) PROVE Mem!MemInv'
<1> DEFINE bytes == v3  capacity == v4  chunks == v5  failed == v6  clock == v7  op == v8
           probe == v9  lag == v10
<1>1. Mem!Draws(t) /\ Mem!Done(t) /\ UNCHANGED <<capacity, chunks, failed, clock, probe, lag>>
  BY DEF Mem!Get, Mem!Draws
<1>2. bytes \in Nat /\ Mem!MemTierAssumption /\ Mem!Sound(Mem!TheStore) /\ Mem!TheStore.bytes
        = bytes
  BY Known
<1>3. CASE Mem!Becomes(Mem!Touch(Mem!TheStore, op[t].key, op[t].seq))
  <2> DEFINE s == Mem!Touch(Mem!TheStore, op[t].key, op[t].seq)
  <2>1. /\ Mem!Sound(s) /\ Mem!Places(s) \subseteq Mem!Places(Mem!TheStore) \cup {op[t].seq}
        /\ s.bytes = bytes
    BY <1>1, DrawnStore
  <2>2. s.bytes \in Nat /\ s.bytes <= bytes /\ Mem!Becomes(s)
    BY <1>2, <1>3, <2>1
  <2> HIDE DEF s
  <2> QED
    BY <1>1, <2>1, <2>2, UsesOnly
<1>4. CASE Mem!Becomes(Mem!Remove(Mem!TheStore, op[t].key))
  <2> DEFINE s == Mem!Remove(Mem!TheStore, op[t].key)
  <2>1. op[t].key \in Keys
    BY <1>1, DrawnIs
  <2>2. Mem!Sound(s) /\ Mem!Places(s) \subseteq Mem!Places(Mem!TheStore) /\ s.bytes \in Nat
        /\ s.bytes <= bytes
    BY <1>2, <2>1, RemoveIs
  <2>3. Mem!Becomes(s) /\ Mem!Places(s) \subseteq Mem!Places(Mem!TheStore) \cup {op[t].seq}
    BY <1>4, <2>2
  <2> HIDE DEF s
  <2> QED
    BY <1>1, <2>2, <2>3, UsesOnly
<1> QED
  BY <1>3, <1>4 DEF Mem!Get

LEMMA RefreshKeeps == ASSUME Given, NEW t \in Threads, Mem!Refresh(t) PROVE Mem!MemInv'
<1> DEFINE bytes == v3  capacity == v4  chunks == v5  failed == v6  clock == v7  op == v8
           probe == v9  lag == v10
<1>1. Mem!Draws(t) /\ Mem!Done(t) /\ UNCHANGED <<capacity, chunks, failed, clock, probe, lag>>
  BY DEF Mem!Refresh, Mem!Draws
<1>2. bytes \in Nat
  BY Known
<1> DEFINE s == Mem!Touch(Mem!TheStore, op[t].key, op[t].seq)
<1>3. /\ Mem!Sound(s) /\ Mem!Places(s) \subseteq Mem!Places(Mem!TheStore) \cup {op[t].seq}
      /\ s.bytes = bytes
  BY <1>1, DrawnStore
<1>4. s.bytes \in Nat /\ s.bytes <= bytes /\ Mem!Becomes(s)
  BY <1>2, <1>3 DEF Mem!Refresh
<1> HIDE DEF s
<1> QED
  BY <1>1, <1>3, <1>4, UsesOnly

\* An insertion fits the capacity that it has read.
LEMMA InsertedIs ==
    ASSUME Given, NEW t \in Threads, v8[t].pc = "insert"
    PROVE  LET q == Mem!Insert(Mem!TheStore, v8[t].key, v8[t].size, v8[t].seq)
               s == Mem!PopLru(q, v8[t].cap, Mem!Cardinality(Keys)) IN
           /\ Mem!Sound(q) /\ \A j \in Keys : j # v8[t].key => q.entries[j] = v1[j]
           /\ \E i \in Nat : s = Mem!Popped(q, i)
           /\ Mem!Sound(s) /\ Mem!Places(s) \subseteq Mem!Places(Mem!TheStore) \cup {v8[t].seq}
           /\ s.bytes \in Nat /\ s.bytes <= v8[t].cap
<1> DEFINE entries == v1  op == v8
<1> DEFINE k == op[t].key  n == op[t].seq  z == op[t].size  c == op[t].cap
           q == Mem!Insert(Mem!TheStore, k, z, n)  s == Mem!PopLru(q, c, Mem!Cardinality(Keys))
<1>1. Mem!MemTierAssumption /\ Mem!Sound(Mem!TheStore) /\ Mem!TheStore.entries = entries
      /\ op[t] \in Mem!Operations
  BY Known
<1>2. k \in Keys /\ n \in Nat /\ n \notin Mem!Places(Mem!TheStore)
  BY DrawnIs DEF Mem!Draws
<1>3. z \in Nat /\ c \in Nat
  BY <1>1 DEF Mem!Operations
<1> HIDE DEF k, n, z, c
<1>4. /\ Mem!Sound(q) /\ Mem!Places(q) \subseteq Mem!Places(Mem!TheStore) \cup {n}
      /\ \A j \in Keys : j # k => q.entries[j] = Mem!TheStore.entries[j]
  BY <1>1, <1>2, <1>3, InsertIs
<1> HIDE DEF q
<1>5. Mem!Cardinality(Mem!Places(q)) <= Mem!Cardinality(Keys) /\ Mem!Cardinality(Keys) \in Nat
  BY <1>1, <1>4, PlacesAreKeys
<1>6. Mem!IsFiniteSet(Mem!Places(q))
  BY <1>1, <1>4, PlacesAreKeys
<1>7. Mem!Cardinality(Mem!Places(q)) \in Nat
  BY MemSizes, <1>6, FS_CardinalityType
<1>8. PICK i \in Nat :
         /\ s = Mem!Popped(q, i)
         /\ Mem!Cardinality(Keys) >= Mem!Cardinality(Mem!Places(q)) => Mem!Popped(q, i).bytes <= c
  BY <1>1, <1>3, <1>4, <1>5, PopIs
<1>9. Mem!Sound(s) /\ Mem!Places(s) \subseteq Mem!Places(q) /\ s.bytes \in Nat
  BY <1>1, <1>4, <1>8, PoppedIs
<1>10. s.bytes <= c
  BY <1>5, <1>7, <1>8
<1>11. Mem!Places(s) \subseteq Mem!Places(Mem!TheStore) \cup {n}
  BY <1>4, <1>9
<1>12. \A j \in Keys : j # k => q.entries[j] = entries[j]
  BY <1>1, <1>4
<1>13. \E j \in Nat : s = Mem!Popped(q, j)
  BY <1>8
<1> HIDE DEF s
<1> QED
  BY <1>4, <1>9, <1>10, <1>11, <1>12, <1>13 DEF q, s, k, n, z, c

LEMMA PutKeeps == ASSUME Given, NEW t \in Threads, Mem!PutAndEvict(t) PROVE Mem!MemInv'
<1> DEFINE bytes == v3  capacity == v4  chunks == v5  failed == v6  clock == v7  op == v8
           probe == v9  lag == v10
<1>1. op[t].pc = "insert" /\ Mem!Draws(t) /\ UNCHANGED <<capacity, chunks, failed, clock, probe>>
  BY DEF Mem!PutAndEvict, Mem!Draws
<1>2. /\ Mem!MemTierAssumption /\ Mem!TypeOK /\ Mem!Sound(Mem!TheStore) /\ Mem!RoomIsMade
      /\ Mem!TheStore.bytes = bytes
      /\ bytes \in Nat /\ chunks \in Nat /\ capacity \in Nat /\ op \in [Threads -> Mem!Operations]
  BY Known
<1>3. CASE Mem!Done(t) /\ UNCHANGED <<Mem!store, lag>>
  <2>1. Mem!Becomes(Mem!TheStore)
    BY <1>3 DEF Mem!Becomes, Mem!TheStore, Mem!store
  <2>2. Mem!TheStore.bytes \in Nat /\ Mem!TheStore.bytes <= bytes
    BY <1>2
  <2>3. Mem!Places(Mem!TheStore) \subseteq Mem!Places(Mem!TheStore) \cup {op[t].seq}
    OBVIOUS
  <2>4. UNCHANGED <<capacity, chunks, failed, clock, probe, lag>>
    BY <1>1, <1>3
  <2> DEFINE s == Mem!TheStore
  <2>5. Mem!Becomes(s) /\ Mem!Sound(s) /\ s.bytes \in Nat /\ s.bytes <= bytes /\ Mem!Places(s)
          \subseteq Mem!Places(Mem!TheStore) \cup {op[t].seq}
    BY <1>2, <2>1, <2>2, <2>3
  <2> HIDE DEF s
  <2> QED
    BY <1>1, <1>3, <2>4, <2>5, UsesOnly
<1>4. CASE op[t].size <= op[t].cap /\ ~ (Mem!Done(t) /\ UNCHANGED <<Mem!store, lag>>)
  <2> DEFINE q == Mem!Insert(Mem!TheStore, op[t].key, op[t].size, op[t].seq)
             s == Mem!PopLru(q, op[t].cap, Mem!Cardinality(Keys))
             o == [op[t] EXCEPT !.pc = "make_room", !.used = s.bytes]
  <2>1. Mem!Sound(s) /\ Mem!Places(s) \subseteq Mem!Places(Mem!TheStore) \cup {op[t].seq}
        /\ s.bytes \in Nat /\ s.bytes <= op[t].cap
    BY <1>1, InsertedIs
  <2>2. Mem!Becomes(s) /\ op' = [op EXCEPT ![t].pc = "make_room", ![t].used = s.bytes] /\ lag'
          = (lag \/ op[t].cap # capacity)
    BY <1>4 DEF Mem!PutAndEvict
  <2> HIDE DEF s
  <2>3. op[t] \in Mem!Operations
    BY <1>2
  <2>4. op' = [op EXCEPT ![t] = o]
    BY <1>2, <2>2, <2>3 DEF Mem!Operations
  <2>5. o \in Mem!Operations
    BY <2>1, <2>3 DEF Mem!Operations
  <2>6. o.pc = "make_room" /\ o.cap = op[t].cap /\ o.used = s.bytes
    BY <2>3 DEF Mem!Operations
  <2> HIDE DEF o
  <2>7. Mem!Sound(Mem!TheStore)' /\ Mem!Places(Mem!TheStore)' = Mem!Places(s)
    BY <2>1, <2>2, Later
  <2>8. Mem!Places(Mem!TheStore)' \subseteq Mem!Places(Mem!TheStore) \cup {op[t].seq}
    BY <2>1, <2>7
  <2>9. o.pc \notin {"get", "refresh", "insert"} /\ clock' = clock
    BY <1>1, <2>6
  <2>10. Mem!NumbersAreNew' /\ op' \in [Threads -> Mem!Operations]
    BY <1>1, <2>4, <2>5, <2>8, <2>9, Finished
  <2>11. Mem!TypeOK'
    BY <1>1, <1>2, <2>2, <2>10 DEF Mem!TypeOK
  <2>12. op'[t] = o /\ \A u \in Threads : u # t => op'[u] = op[u]
    BY <1>2, <2>4
  <2>13. \A u \in Threads : op'[u].pc = "make_room" => op'[u].used <= op'[u].cap
    BY <1>2, <2>1, <2>6, <2>12 DEF Mem!RoomIsMade
  <2>14. bytes' = s.bytes
    BY <2>2 DEF Mem!Becomes
  <2>15. ~ lag' => Mem!MakesRoom(t)'
    <3> SUFFICES ASSUME ~ lag' PROVE Mem!MakesRoom(t)'
      OBVIOUS
    <3>1. op[t].cap = capacity /\ capacity' = capacity
      BY <1>1, <2>2
    <3>2. op'[t].pc = "make_room" /\ op'[t].cap = capacity' /\ op'[t].used = bytes'
      BY <2>6, <2>12, <2>14, <3>1
    <3>3. bytes' \in Nat
      BY <2>1, <2>14
    <3>4. op'[t].used >= bytes'
      BY <3>2, <3>3
    <3> QED
      BY <3>2, <3>4 DEF Mem!MakesRoom
  <2>16. Mem!RoomIsMade'
    BY Zenon, <2>13, <2>15 DEF Mem!RoomIsMade
  <2> QED
    BY <2>7, <2>10, <2>11, <2>16 DEF Mem!MemInv
<1> QED
  BY <1>3, <1>4 DEF Mem!PutAndEvict

\* What fits still fits when there is less.
LEMMA LessFits ==
    ASSUME Given, v3' \in Nat, v3' <= v3, v5' \in Nat, v5' <= v5, v4' = v4
    PROVE  Mem!Fits => Mem!Fits'
<1> DEFINE bytes == v3  capacity == v4  chunks == v5
<1> DEFINE x == bytes  y == bytes'  c == capacity  n == chunks  m == chunks'
<1>1. x \in Nat /\ y \in Nat /\ c \in Nat /\ n \in Nat /\ m \in Nat /\ Chunk \in Nat /\ y <= x
      /\ m <= n
  BY Known
<1>2. (Mem!Fits <=> x + n * Chunk <= c) /\ (Mem!Fits' <=> y + m * Chunk <= c)
  BY DEF Mem!Fits, Mem!Ballast
<1> HIDE DEF x, y, c, n, m
<1>3. n * Chunk \in Nat /\ m * Chunk \in Nat /\ m * Chunk <= n * Chunk
  BY <1>1, Product
<1> QED
  BY <1>1, <1>2, <1>3

\* A step that draws no number and of which nothing comes in.
LEMMA Quiet ==
    ASSUME Given, NEW s, Mem!Sound(s), Mem!Becomes(s), Mem!Places(s)
             \subseteq Mem!Places(Mem!TheStore), v7' = v7,
           \A u \in Threads : Mem!Draws(u)' => Mem!Draws(u) /\ v8'[u] = v8[u]
    PROVE  Mem!Sound(Mem!TheStore)' /\ Mem!NumbersAreNew'
<1> DEFINE clock == v7  op == v8
<1> DEFINE ns == {}
<1>1. Mem!Sound(Mem!TheStore)' /\ Mem!Places(Mem!TheStore)' = Mem!Places(s)
  BY Later
<1>2. /\ Mem!NumbersAreNew /\ Mem!Places(Mem!TheStore)' \subseteq Mem!Places(Mem!TheStore) \cup ns
      /\ \A n \in ns : n < clock
      /\ \A u \in Threads : Mem!Draws(u)' => Mem!Draws(u) /\ op'[u] = op[u] /\ op[u].seq \notin ns
  BY <1>1, Known
<1> HIDE DEF ns
<1>3. Mem!NumbersAreNew'
  BY <1>2, NewStays
<1> QED
  BY <1>1, <1>3

LEMMA StayingStore ==
    ASSUME Given, UNCHANGED Mem!store
    PROVE  /\ Mem!Sound(Mem!TheStore) /\ Mem!Becomes(Mem!TheStore) /\ Mem!Places(Mem!TheStore)
                \subseteq Mem!Places(Mem!TheStore)
           /\ v3' = v3 /\ v3 \in Nat
<1> DEFINE bytes == v3
<1>1. Mem!Sound(Mem!TheStore) /\ bytes \in Nat
  BY Known
<1>2. Mem!Becomes(Mem!TheStore) /\ bytes' = bytes
  BY DEF Mem!Becomes, Mem!TheStore, Mem!store
<1> QED
  BY <1>1, <1>2

\* Chunks are given back for `used' and `cap'.
LEMMA ChunksGo ==
    ASSUME Given, NEW used \in Nat, NEW cap \in Nat, v5' = Mem!Released(used, cap),
             UNCHANGED <<Mem!store, v4>>
    PROVE  /\ v5' \in Nat /\ v5' <= v5 /\ (Mem!Fits => Mem!Fits')
           /\ cap = v4 /\ used >= v3 /\ (v5' # 0 \/ used <= cap) => Mem!Fits'
<1> DEFINE bytes == v3  capacity == v4  chunks == v5
<1>1. Mem!MemTierAssumption /\ Mem!TypeOK /\ Chunk \in Nat /\ bytes \in Nat /\ capacity \in Nat
  BY Known
<1> DEFINE m == chunks'  x == bytes  c == capacity
<1>2. m \in Nat /\ m <= chunks /\ (m = 0 \/ used + m * Chunk <= cap)
  BY <1>1, ReleasedIs
<1>3. bytes' = x /\ capacity' = c /\ x \in Nat /\ c \in Nat
  BY <1>1 DEF Mem!store
<1>4. Mem!Fits' <=> x + m * Chunk <= c
  BY <1>3 DEF Mem!Fits, Mem!Ballast
<1>5. Mem!Fits => Mem!Fits'
  BY <1>1, <1>2, <1>3, LessFits
<1>6. m <= chunks
  BY <1>2
<1> HIDE DEF m, x, c
<1>7. m * Chunk \in Nat /\ 0 * Chunk = 0
  BY <1>1, <1>2, Product
<1>8. cap = c /\ used >= x /\ (m # 0 \/ used <= cap) => x + m * Chunk <= c
  <2> SUFFICES ASSUME cap = c, used >= x, m # 0 \/ used <= cap PROVE x + m * Chunk <= c
    OBVIOUS
  <2>1. CASE m = 0
    BY <1>3, <1>7, <2>1
  <2>2. CASE m # 0
    BY <1>2, <1>3, <1>7, <2>2
  <2> QED
    BY <2>1, <2>2
<1> QED
  BY <1>2, <1>4, <1>5, <1>6, <1>8 DEF m, x, c

LEMMA MakeRoomKeeps == ASSUME Given, NEW t \in Threads, Mem!MakeRoom(t) PROVE Mem!MemInv'
<1> DEFINE bytes == v3  capacity == v4  chunks == v5  failed == v6  clock == v7  op == v8
           probe == v9  lag == v10
<1>1. /\ op[t].pc = "make_room" /\ chunks' = Mem!Released(op[t].used, op[t].cap) /\ op'
           = [op EXCEPT ![t] = Mem!Idle]
      /\ UNCHANGED <<Mem!store, capacity, failed, clock, probe, lag>>
  BY DEF Mem!MakeRoom, Mem!Done
<1>2. /\ Mem!TypeOK /\ Mem!RoomIsMade /\ bytes \in Nat /\ chunks \in Nat /\ capacity \in Nat
      /\ op \in [Threads -> Mem!Operations]
  BY Known
<1>3. op[t].used \in Nat /\ op[t].cap \in Nat /\ op[t].used <= op[t].cap
  BY <1>1, <1>2 DEF Mem!Operations, Mem!RoomIsMade
<1>4. Mem!Idle \in Mem!Operations /\ Mem!Idle.pc = "idle"
  BY IdleIs
<1>5. op' \in [Threads -> Mem!Operations] /\ op'[t] = Mem!Idle /\ \A u \in Threads : u # t
        => op'[u] = op[u]
  BY <1>1, <1>2, <1>4
<1>6. \A u \in Threads : Mem!Draws(u)' => Mem!Draws(u) /\ op'[u] = op[u]
  BY <1>4, <1>5 DEF Mem!Draws
<1>7. Mem!Sound(Mem!TheStore)' /\ Mem!NumbersAreNew'
  BY <1>1, <1>6, StayingStore, Quiet
<1>8. /\ chunks' \in Nat /\ chunks' <= chunks /\ (Mem!Fits => Mem!Fits')
      /\ op[t].cap = capacity /\ op[t].used >= bytes => Mem!Fits'
  BY <1>1, <1>3, ChunksGo
<1>9. Mem!TypeOK'
  BY <1>1, <1>2, <1>5, <1>8 DEF Mem!TypeOK
<1>10. bytes' = bytes /\ chunks = 0 => chunks' = 0
  BY <1>2, <1>8
<1>11. \A u \in Threads : Mem!MakesRoom(u) => Mem!MakesRoom(u)' \/ Mem!Fits'
  <2>1. bytes' = bytes /\ capacity' = capacity
    BY <1>1 DEF Mem!store
  <2>2. \A u \in Threads : u # t /\ Mem!MakesRoom(u) => Mem!MakesRoom(u)'
    BY <1>5, <2>1 DEF Mem!MakesRoom
  <2>3. Mem!MakesRoom(t) => Mem!Fits'
    BY <1>8 DEF Mem!MakesRoom
  <2> QED
    BY <2>2, <2>3
<1>12. \A u \in Threads : op'[u].pc = "make_room" => op'[u].used <= op'[u].cap
  BY <1>2, <1>4, <1>5 DEF Mem!RoomIsMade
<1>13. /\ probe' = probe /\ (lag' <=> lag) /\ bytes' = bytes
       /\ (chunks = 0 => chunks' = 0)
  BY <1>1, <1>2, <1>8 DEF Mem!store
<1>14. Mem!RoomIsMade'
  <2>1. ~ lag' =>
           \/ Mem!Fits'
           \/ \E u \in Threads : Mem!MakesRoom(u)'
           \/ probe'.pc = "release"
           \/ probe'.pc = "release_again" /\ bytes' <= probe'.used
           \/ probe'.pc = "enforce" /\ chunks' = 0
    <3>1. /\ probe.pc = "release" => probe'.pc = "release"
          /\ probe.pc = "release_again" /\ bytes <= probe.used => probe'.pc = "release_again"
             /\ bytes' <= probe'.used
          /\ probe.pc = "enforce" /\ chunks = 0 => probe'.pc = "enforce" /\ chunks' = 0
      BY <1>13
    <3>2. Mem!Fits => Mem!Fits'
      BY <1>8
    <3> QED
      BY Zenon, <1>2, <1>11, <1>13, <3>1, <3>2 DEF Mem!RoomIsMade
  <2> QED
    BY Zenon, <1>12, <2>1 DEF Mem!RoomIsMade
<1> QED
  BY <1>7, <1>9, <1>14 DEF Mem!MemInv

\* Entries go, and nothing else happens.
LEMMA GoesOnly ==
    ASSUME Given, NEW s, Mem!Sound(s), Mem!Becomes(s), Mem!Places(s)
             \subseteq Mem!Places(Mem!TheStore), s.bytes \in Nat, s.bytes <= v3,
           UNCHANGED <<v4, v5, v6, v7, v8, v9, v10>>
    PROVE  Mem!MemInv'
<1> DEFINE bytes == v3  capacity == v4  chunks == v5  clock == v7  op == v8  probe == v9
<1>1. /\ Mem!TypeOK /\ Mem!RoomIsMade /\ bytes \in Nat /\ chunks \in Nat /\ Chunk \in Nat
      /\ capacity \in Nat /\ clock \in Nat /\ op \in [Threads -> Mem!Operations]
      /\ probe \in Mem!Probing
  BY Known
<1>2. \A u \in Threads : Mem!Draws(u)' => Mem!Draws(u) /\ op'[u] = op[u]
  BY DEF Mem!Draws
<1>3. Mem!Sound(Mem!TheStore)' /\ Mem!NumbersAreNew'
  BY <1>2, Quiet
<1>4. Mem!TypeOK'
  BY <1>1 DEF Mem!TypeOK
<1>5. bytes' \in Nat /\ bytes' <= bytes
  BY DEF Mem!Becomes
<1>6. Mem!RoomIsMade'
  BY <1>1, <1>5, RoomStays
<1> QED
  BY <1>3, <1>4, <1>6 DEF Mem!MemInv

LEMMA RemoveKeyKeeps == ASSUME Given, NEW k \in Keys, Mem!RemoveKey(k) PROVE Mem!MemInv'
<1> DEFINE bytes == v3  capacity == v4  chunks == v5  failed == v6  clock == v7  op == v8
           probe == v9  lag == v10
<1> DEFINE s == Mem!Remove(Mem!TheStore, k)
<1>1. Mem!Becomes(s) /\ UNCHANGED <<capacity, chunks, failed, clock, op, probe, lag>>
  BY DEF Mem!RemoveKey
<1>2. Mem!MemTierAssumption /\ Mem!Sound(Mem!TheStore) /\ Mem!TheStore.bytes = bytes
  BY Known
<1>3. Mem!Sound(s) /\ Mem!Places(s) \subseteq Mem!Places(Mem!TheStore) /\ s.bytes \in Nat
      /\ s.bytes <= bytes
  BY <1>2, RemoveIs
<1> HIDE DEF s
<1> QED
  BY <1>1, <1>3, GoesOnly

LEMMA EmptyIs ==
    LET s == [entries |-> [k \in Keys |-> None], order |-> [n \in {} |-> None], bytes |-> 0] IN
    Mem!Sound(s) /\ Mem!Places(s) = {}
<1> DEFINE s == [entries |-> [k \in Keys |-> None], order |-> [n \in {} |-> None], bytes |-> 0]
<1>1. s.entries = [k \in Keys |-> None] /\ s.order = [n \in {} |-> None] /\ s.bytes = 0
  OBVIOUS
<1> HIDE DEF s
<1>2. s.entries \in [Keys -> Mem!Entries \cup {None}] /\ Mem!Present(s) = {}
  BY <1>1 DEF Mem!Present
<1>3. Mem!Places(s) = {}
  BY <1>2 DEF Mem!Places
<1>4. s.order \in [{} -> Keys]
  BY <1>1
<1>5. Mem!Load(s, {}) = 0
  <2>1. UNION {{k} \X (1 .. s.entries[k].size) : k \in {}} = {}
    OBVIOUS
  <2> QED
    BY MemSizes, <2>1, FS_EmptySet DEF Mem!Load
<1>6. Mem!Sound(s)
  BY <1>1, <1>2, <1>3, <1>4, <1>5 DEF Mem!Sound
<1> QED
  BY <1>3, <1>6 DEF s

LEMMA ClearKeeps == ASSUME Given, Mem!Clear PROVE Mem!MemInv'
<1> DEFINE bytes == v3  capacity == v4  chunks == v5  failed == v6  clock == v7  op == v8
           probe == v9  lag == v10
<1> DEFINE s == [entries |-> [k \in Keys |-> None], order |-> [n \in {} |-> None], bytes |-> 0]
<1>1. Mem!Becomes(s) /\ UNCHANGED <<capacity, chunks, failed, clock, op, probe, lag>>
  BY DEF Mem!Clear
<1>2. bytes \in Nat
  BY Known
<1>3. Mem!Sound(s) /\ Mem!Places(s) = {}
  BY EmptyIs
<1>4. s.bytes \in Nat /\ s.bytes <= bytes
  BY <1>2
<1>5. Mem!Places(s) \subseteq Mem!Places(Mem!TheStore)
  BY <1>3
<1> HIDE DEF s
<1> QED
  BY <1>1, <1>3, <1>4, <1>5, GoesOnly

LEMMA SetBudgetKeeps == ASSUME Given, NEW c \in Capacities, Mem!SetBudget(c) PROVE Mem!MemInv'
<1> DEFINE bytes == v3  capacity == v4  chunks == v5  failed == v6  clock == v7  op == v8
           probe == v9  lag == v10
<1>1. /\ probe.pc = "home" /\ capacity' = c /\ lag' = FALSE
      /\ UNCHANGED <<Mem!store, chunks, failed, clock, op>>
      /\ probe' = [pc |-> "release", rounds |-> probe.rounds + 1, cap |-> Mem!Ceiling(bytes, c),
           used |-> bytes]
  BY DEF Mem!SetBudget
<1>2. /\ Mem!MemTierAssumption /\ Mem!TypeOK /\ Mem!RoomIsMade /\ bytes \in Nat
      /\ probe \in Mem!Probing /\ op \in [Threads -> Mem!Operations]
  BY Known
<1>3. c \in Nat
  BY <1>2 DEF Mem!MemTierAssumption
<1>4. Mem!Ceiling(bytes, c) \in Nat
  <2>1. Mem!Min({c, 2 * bytes}) \in Nat
    <3>1. 2 * bytes \in Nat /\ c \in Nat
      BY <1>2, <1>3
    <3> DEFINE d == 2 * bytes
    <3> HIDE DEF d
    <3>2. c \in {c, d} /\ d \in {c, d} /\ c \in Nat /\ d \in Nat
      BY <3>1 DEF d
    <3>3. CASE c <= d
      <4>1. \A y \in {c, d} : c <= y
        BY <3>2, <3>3
      <4>2. Mem!Min({c, d}) \in {c, d}
        BY <3>2, <4>1, MemMinIs
      <4> QED
        BY <3>2, <4>2 DEF d
    <3>4. CASE d <= c
      <4>1. \A y \in {c, d} : d <= y
        BY <3>2, <3>4
      <4>2. Mem!Min({c, d}) \in {c, d}
        BY <3>2, <4>1, MemMinIs
      <4> QED
        BY <3>2, <4>2 DEF d
    <3> QED
      BY <3>2, <3>3, <3>4
  <2> QED
    BY <1>2, <1>3, <2>1 DEF Mem!Ceiling
<1>5. probe.rounds + 1 \in Nat
  BY <1>2 DEF Mem!Probing
<1>6. probe' \in Mem!Probing /\ probe'.pc = "release"
  <2> DEFINE x == Mem!Ceiling(bytes, c)
  <2>1. x \in Nat
    BY <1>4
  <2> HIDE DEF x
  <2>2. probe' = [pc |-> "release", rounds |-> probe.rounds + 1, cap |-> x, used |-> bytes]
    BY <1>1 DEF x
  <2> QED
    BY <1>2, <1>5, <2>1, <2>2 DEF Mem!Probing
<1>7. \A u \in Threads : Mem!Draws(u)' => Mem!Draws(u) /\ op'[u] = op[u]
  BY <1>1 DEF Mem!Draws
<1>8. Mem!Sound(Mem!TheStore)' /\ Mem!NumbersAreNew'
  BY <1>1, <1>7, StayingStore, Quiet
<1>9. Mem!TypeOK'
  BY <1>1, <1>2, <1>3, <1>6 DEF Mem!TypeOK
<1>10. \A u \in Threads : op'[u].pc = "make_room" => op'[u].used <= op'[u].cap
  BY <1>1, <1>2 DEF Mem!RoomIsMade
<1>11. Mem!RoomIsMade'
  BY Zenon, <1>6, <1>10 DEF Mem!RoomIsMade
<1> QED
  BY <1>8, <1>9, <1>11 DEF Mem!MemInv

LEMMA ProbeReleaseKeeps == ASSUME Given, Mem!ProbeRelease PROVE Mem!MemInv'
<1> DEFINE bytes == v3  capacity == v4  chunks == v5  failed == v6  clock == v7  op == v8
           probe == v9  lag == v10
<1> DEFINE c == IF probe.pc = "release" THEN probe.cap ELSE capacity
           pc == IF probe.pc = "release" THEN "release_again" ELSE "enforce"
<1>1. /\ probe.pc \in {"release", "release_again"} /\ chunks' = Mem!Released(probe.used, c)
      /\ probe' = [probe EXCEPT !.pc = pc, !.used = bytes]
      /\ UNCHANGED <<Mem!store, capacity, failed, clock, op, lag>>
  BY Zenon DEF Mem!ProbeRelease
<1>2. /\ Mem!TypeOK /\ Mem!RoomIsMade /\ bytes \in Nat /\ chunks \in Nat /\ capacity \in Nat
      /\ probe \in Mem!Probing
      /\ op \in [Threads -> Mem!Operations]
  BY Known
<1>3. probe.used \in Nat /\ c \in Nat
  BY <1>2 DEF Mem!Probing
<1>4. pc \in {"release_again", "enforce"} /\ (pc = "release_again" <=> probe.pc = "release")
  OBVIOUS
<1> HIDE DEF pc
<1>5. probe' \in Mem!Probing /\ probe'.pc = pc /\ probe'.used = bytes
  BY <1>1, <1>2, <1>4 DEF Mem!Probing
<1>6. c = capacity \/ probe.pc = "release"
  OBVIOUS
<1> HIDE DEF c
<1>7. UNCHANGED <<Mem!store, capacity>> /\ bytes' = bytes
  BY <1>1 DEF Mem!store
<1>8. /\ chunks' \in Nat /\ chunks' <= chunks /\ (Mem!Fits => Mem!Fits')
      /\ c = capacity /\ probe.used >= bytes /\ (chunks' # 0 \/ probe.used <= c) => Mem!Fits'
  BY <1>1, <1>3, <1>7, ChunksGo
<1>9. \A u \in Threads : Mem!Draws(u)' => Mem!Draws(u) /\ op'[u] = op[u]
  BY <1>1 DEF Mem!Draws
<1>10. Mem!Sound(Mem!TheStore)' /\ Mem!NumbersAreNew'
  BY <1>1, <1>9, StayingStore, Quiet
<1>11. Mem!TypeOK'
  BY <1>1, <1>2, <1>5, <1>8 DEF Mem!TypeOK
<1>12. \A u \in Threads : op'[u].pc = "make_room" => op'[u].used <= op'[u].cap
  BY <1>1, <1>2 DEF Mem!RoomIsMade
<1>13. \A u \in Threads : Mem!MakesRoom(u) => Mem!MakesRoom(u)'
  BY <1>1, <1>7 DEF Mem!MakesRoom
<1>14. CASE probe.pc = "release"
  <2>1. probe'.pc = "release_again" /\ bytes' <= probe'.used
    BY <1>2, <1>4, <1>5, <1>7, <1>14
  <2>2. Mem!RoomIsMade'
    BY Zenon, <1>12, <2>1 DEF Mem!RoomIsMade
  <2> QED
    BY <1>10, <1>11, <2>2 DEF Mem!MemInv
<1>15. CASE probe.pc = "release_again"
  <2>1. probe'.pc = "enforce" /\ c = capacity
    BY <1>4, <1>5, <1>6, <1>15
  <2>2. bytes <= probe.used => Mem!Fits' \/ chunks' = 0
    BY <1>2, <1>3, <1>8, <2>1
  <2>3. lag' <=> lag
    BY <1>1
  <2>4. Mem!RoomIsMade
          => (~ lag => Mem!Fits \/ (\E u \in Threads : Mem!MakesRoom(u)) \/ bytes <= probe.used)
    BY <1>15 DEF Mem!RoomIsMade
  <2>5. ~ lag' => Mem!Fits' \/ (\E u \in Threads : Mem!MakesRoom(u)') \/ chunks' = 0
    BY Zenon, <1>2, <1>8, <1>13, <2>2, <2>3, <2>4
  <2>6. Mem!RoomIsMade'
    BY Zenon, <1>12, <2>1, <2>5 DEF Mem!RoomIsMade
  <2> QED
    BY <1>10, <1>11, <2>6 DEF Mem!MemInv
<1> QED
  BY <1>1, <1>14, <1>15

\* Room is made at other places of the prober, if it was made without it.
LEMMA RoomWithout ==
    ASSUME Given, UNCHANGED <<v8, v4, v10>>, v3' \in Nat, v3' <= v3, v5' = v5,
           ~ v10 => Mem!Fits \/ (\E t \in Threads : Mem!MakesRoom(t))
    PROVE  Mem!RoomIsMade'
<1> DEFINE bytes == v3  capacity == v4  chunks == v5  op == v8  lag == v10
<1>1. Mem!RoomIsMade /\ chunks \in Nat /\ bytes \in Nat /\ op \in [Threads -> Mem!Operations]
  BY Known
<1>2. chunks' \in Nat /\ chunks' <= chunks
  BY <1>1
<1>3. Mem!Fits => Mem!Fits'
  BY <1>2, LessFits
<1>4. \A t \in Threads : Mem!MakesRoom(t) => Mem!MakesRoom(t)'
  <2> SUFFICES ASSUME NEW t \in Threads, Mem!MakesRoom(t) PROVE Mem!MakesRoom(t)'
    OBVIOUS
  <2>1. op[t].used \in Nat
    BY <1>1 DEF Mem!Operations
  <2>2. op[t].used >= bytes' /\ op[t].cap = capacity' /\ op'[t] = op[t] /\ op[t].pc = "make_room"
    BY <1>1, <2>1 DEF Mem!MakesRoom
  <2> QED
    BY <2>2 DEF Mem!MakesRoom
<1>5. \A t \in Threads : op'[t].pc = "make_room" => op'[t].used <= op'[t].cap
  BY <1>1 DEF Mem!RoomIsMade
<1>6. lag' <=> lag
  OBVIOUS
<1> QED
  BY Zenon, <1>3, <1>4, <1>5, <1>6 DEF Mem!RoomIsMade

LEMMA MemEnforceKeeps == ASSUME Given, Mem!Enforce PROVE Mem!MemInv'
<1> DEFINE bytes == v3  capacity == v4  chunks == v5  failed == v6  clock == v7  op == v8
           probe == v9  lag == v10
<1>1. probe.pc = "enforce" /\ UNCHANGED <<capacity, chunks, failed, clock, op, lag>>
  BY DEF Mem!Enforce
<1>2. /\ Mem!MemTierAssumption /\ Mem!TypeOK /\ Mem!RoomIsMade /\ bytes \in Nat
      /\ chunks \in Nat /\ Chunk \in Nat /\ capacity \in Nat
      /\ probe \in Mem!Probing /\ Mem!Sound(Mem!TheStore) /\ Mem!TheStore.bytes = bytes
      /\ op \in [Threads -> Mem!Operations]
  BY Known
<1>3. CASE Mem!Becomes(Mem!PopLru(Mem!TheStore, capacity, EvictBatch)) /\ UNCHANGED probe
  <2> DEFINE s == Mem!PopLru(Mem!TheStore, capacity, EvictBatch)
  <2>1. EvictBatch \in Nat
    BY <1>2 DEF Mem!MemTierAssumption
  <2>2. PICK i \in Nat : s = Mem!Popped(Mem!TheStore, i)
    BY <1>2, <2>1, PopIs
  <2>3. Mem!Sound(s) /\ Mem!Places(s) \subseteq Mem!Places(Mem!TheStore) /\ s.bytes \in Nat
        /\ s.bytes <= bytes
    BY <1>2, <2>2, PoppedIs
  <2>4. Mem!Becomes(s) /\ UNCHANGED <<capacity, chunks, failed, clock, op, probe, lag>>
    BY <1>1, <1>3
  <2> HIDE DEF s
  <2> QED
    BY <2>3, <2>4, GoesOnly
<1>4. CASE bytes <= capacity /\ probe' = [probe EXCEPT !.pc = "sweep"] /\ UNCHANGED Mem!store
  <2>1. probe' \in Mem!Probing
    BY <1>2, <1>4 DEF Mem!Probing
  <2>2. \A u \in Threads : Mem!Draws(u)' => Mem!Draws(u) /\ op'[u] = op[u]
    BY <1>1 DEF Mem!Draws
  <2>3. Mem!Sound(Mem!TheStore)' /\ Mem!NumbersAreNew' /\ bytes' = bytes
    BY <1>1, <1>4, <2>2, StayingStore, Quiet
  <2>4. Mem!TypeOK'
    BY <1>1, <1>2, <2>1 DEF Mem!TypeOK
  <2>5. chunks = 0 => Mem!Fits
    <3>1. 0 * Chunk = 0
      BY <1>2, Product
    <3>2. chunks = 0 => Mem!Ballast = 0
      BY <3>1 DEF Mem!Ballast
    <3> QED
      BY <1>2, <1>4, <3>2 DEF Mem!Fits
  <2>6. Mem!RoomIsMade
          => (~ lag => Mem!Fits \/ (\E t \in Threads : Mem!MakesRoom(t)) \/ chunks = 0)
    BY <1>1 DEF Mem!RoomIsMade
  <2>7. ~ lag => Mem!Fits \/ (\E t \in Threads : Mem!MakesRoom(t))
    BY Zenon, <1>2, <2>5, <2>6
  <2>8. bytes' \in Nat /\ bytes' <= bytes /\ chunks' = chunks /\ UNCHANGED <<op, capacity, lag>>
    BY <1>1, <1>2, <2>3
  <2>9. Mem!RoomIsMade'
    BY <2>7, <2>8, RoomWithout
  <2> QED
    BY <2>3, <2>4, <2>9 DEF Mem!MemInv
<1> QED
  BY <1>3, <1>4 DEF Mem!Enforce

LEMMA SweepKeeps == ASSUME Given, Mem!Sweep PROVE Mem!MemInv'
<1> DEFINE entries == v1  bytes == v3  capacity == v4  chunks == v5  failed == v6  clock == v7
           op == v8  probe == v9  lag == v10
<1>1. probe.pc = "sweep" /\ probe' = [probe EXCEPT !.pc = "fill"]
      /\ UNCHANGED <<capacity, chunks, failed, clock, op, lag>>
  BY DEF Mem!Sweep
<1>2. /\ Mem!MemTierAssumption /\ Mem!TypeOK /\ Mem!RoomIsMade /\ bytes \in Nat
      /\ probe \in Mem!Probing
      /\ Mem!Sound(Mem!TheStore) /\ Mem!TheStore.bytes = bytes /\ Mem!TheStore.entries = entries
  BY Known
<1>3. PICK garbage \in SUBSET Mem!Present(Mem!TheStore) :
             Mem!Becomes(Mem!Forget(Mem!TheStore, garbage, {entries[k].used : k \in garbage}))
  BY DEF Mem!Sweep
<1> DEFINE ps == {entries[k].used : k \in garbage}  s == Mem!Forget(Mem!TheStore, garbage, ps)
<1>4. ps = Used(Mem!TheStore, garbage)
  BY <1>2 DEF Used
<1>5. Mem!Becomes(s)
  BY <1>3
<1> HIDE DEF ps
<1>6. Mem!Sound(s) /\ Mem!Places(s) \subseteq Mem!Places(Mem!TheStore) /\ s.bytes \in Nat
      /\ s.bytes <= bytes
  BY <1>2, <1>4, ForgetIs
<1> HIDE DEF s
<1>7. probe' \in Mem!Probing
  BY <1>1, <1>2 DEF Mem!Probing
<1>8. \A u \in Threads : Mem!Draws(u)' => Mem!Draws(u) /\ op'[u] = op[u]
  BY <1>1 DEF Mem!Draws
<1>9. Mem!Sound(Mem!TheStore)' /\ Mem!NumbersAreNew'
  BY <1>1, <1>5, <1>6, <1>8, Quiet
<1>10. Mem!TypeOK'
  BY <1>1, <1>2, <1>7 DEF Mem!TypeOK
<1>11. ~ lag => Mem!Fits \/ (\E t \in Threads : Mem!MakesRoom(t))
  BY <1>1, <1>2 DEF Mem!RoomIsMade
<1>12. bytes' \in Nat /\ bytes' <= bytes /\ chunks' = chunks /\ UNCHANGED <<op, capacity, lag>>
  BY <1>1, <1>5, <1>6 DEF Mem!Becomes
<1>13. Mem!RoomIsMade'
  BY <1>11, <1>12, RoomWithout
<1> QED
  BY <1>9, <1>10, <1>13 DEF Mem!MemInv

\* The prober goes on within its filling.
LEMMA ProbeGoes ==
    ASSUME v9 \in Mem!Probing,
           \/ v9' = [v9 EXCEPT !.pc = "home", !.cap = 0, !.used = 0]
           \/ v9' = [v9 EXCEPT !.pc = "push"]
           \/ v9' = [v9 EXCEPT !.pc = "fill"]
    PROVE  v9' \in Mem!Probing
<1> DEFINE probe == v9
<1>1. CASE probe' = [probe EXCEPT !.pc = "home", !.cap = 0, !.used = 0]
  <2>1. /\ probe'.pc = "home" /\ probe'.rounds = probe.rounds /\ probe'.cap = 0 /\ probe'.used = 0
        /\ probe' = [x \in {"pc", "rounds", "cap", "used"} |-> probe'[x]]
    BY <1>1 DEF Mem!Probing
  <2>2. probe.rounds \in Nat
    BY DEF Mem!Probing
  <2> QED
    BY <2>1, <2>2 DEF Mem!Probing
<1>2. CASE probe' = [probe EXCEPT !.pc = "push"]
  BY <1>2 DEF Mem!Probing
<1>3. CASE probe' = [probe EXCEPT !.pc = "fill"]
  BY <1>3 DEF Mem!Probing
<1> QED
  BY <1>1, <1>2, <1>3

LEMMA FillKeeps == ASSUME Given, Mem!Fill PROVE Mem!MemInv'
<1> DEFINE bytes == v3  capacity == v4  chunks == v5  failed == v6  clock == v7  op == v8
           probe == v9  lag == v10
<1>1. probe.pc = "fill" /\ UNCHANGED <<Mem!store, capacity, chunks, failed, clock, op, lag>>
  BY DEF Mem!Fill
<1>2. /\ Mem!TypeOK /\ Mem!RoomIsMade /\ bytes \in Nat /\ probe \in Mem!Probing
  BY Known
<1>3. probe' \in Mem!Probing
  BY Zenon, <1>2, ProbeGoes DEF Mem!Fill
<1>4. \A u \in Threads : Mem!Draws(u)' => Mem!Draws(u) /\ op'[u] = op[u]
  BY <1>1 DEF Mem!Draws
<1>5. Mem!Sound(Mem!TheStore)' /\ Mem!NumbersAreNew' /\ bytes' = bytes
  BY <1>1, <1>4, StayingStore, Quiet
<1>6. Mem!TypeOK'
  BY <1>1, <1>2, <1>3 DEF Mem!TypeOK
<1>7. ~ lag => Mem!Fits \/ (\E t \in Threads : Mem!MakesRoom(t))
  BY <1>1, <1>2 DEF Mem!RoomIsMade
<1>8. bytes' \in Nat /\ bytes' <= bytes /\ chunks' = chunks /\ UNCHANGED <<op, capacity, lag>>
  BY <1>1, <1>2, <1>5
<1>9. Mem!RoomIsMade'
  BY <1>7, <1>8, RoomWithout
<1> QED
  BY <1>5, <1>6, <1>9 DEF Mem!MemInv

LEMMA PushKeeps == ASSUME Given, Mem!Push PROVE Mem!MemInv'
<1> DEFINE bytes == v3  capacity == v4  chunks == v5  failed == v6  clock == v7  op == v8
           probe == v9  lag == v10
<1>1. probe.pc = "push" /\ UNCHANGED <<Mem!store, capacity, clock, op>>
  BY DEF Mem!Push
<1>2. /\ Mem!TypeOK /\ Mem!RoomIsMade /\ bytes \in Nat /\ chunks \in Nat /\ Chunk \in Nat
      /\ probe \in Mem!Probing
      /\ capacity \in Nat /\ op \in [Threads -> Mem!Operations]
  BY Known
<1>3. probe' \in Mem!Probing
  BY Zenon, <1>2, ProbeGoes DEF Mem!Push
<1>4. \A u \in Threads : Mem!Draws(u)' => Mem!Draws(u) /\ op'[u] = op[u]
  BY <1>1 DEF Mem!Draws
<1>5. Mem!Sound(Mem!TheStore)' /\ Mem!NumbersAreNew' /\ bytes' = bytes
  BY <1>1, <1>4, StayingStore, Quiet
<1>6. CASE chunks' = chunks + 1 /\ lag' = (lag \/ bytes + Mem!Ballast + Chunk > capacity)
           /\ UNCHANGED failed
  <2>1. Mem!TypeOK'
    BY <1>1, <1>2, <1>3, <1>6 DEF Mem!TypeOK
  <2>2. (chunks + 1) * Chunk = chunks * Chunk + Chunk /\ chunks * Chunk \in Nat
    BY <1>2, Product
  <2>3. ~ lag' => Mem!Fits'
    <3> SUFFICES ASSUME ~ lag' PROVE Mem!Fits'
      OBVIOUS
    <3> DEFINE x == bytes  c == capacity  b == chunks * Chunk
    <3>1. ~ (x + b + Chunk > c)
      BY <1>6 DEF Mem!Ballast
    <3>2. Mem!Fits' <=> x + (chunks + 1) * Chunk <= c
      BY <1>1, <1>5, <1>6 DEF Mem!Fits, Mem!Ballast
    <3>3. (chunks + 1) * Chunk = b + Chunk /\ b \in Nat /\ x \in Nat /\ c \in Nat /\ Chunk \in Nat
      BY <1>2, <2>2
    <3> HIDE DEF x, c, b
    <3>4. x + (b + Chunk) <= c
      BY <3>1, <3>3
    <3>5. Mem!Fits' <=> x + (b + Chunk) <= c
      BY <3>2, <3>3
    <3> QED
      BY <3>4, <3>5
  <2>4. \A u \in Threads : op'[u].pc = "make_room" => op'[u].used <= op'[u].cap
    BY <1>1, <1>2 DEF Mem!RoomIsMade
  <2>5. Mem!RoomIsMade'
    BY Zenon, <2>3, <2>4 DEF Mem!RoomIsMade
  <2> QED
    BY <1>5, <2>1, <2>5 DEF Mem!MemInv
<1>7. CASE failed' = TRUE /\ UNCHANGED <<chunks, lag>>
  <2>1. Mem!TypeOK'
    BY <1>1, <1>2, <1>3, <1>7 DEF Mem!TypeOK
  <2>2. ~ lag => Mem!Fits \/ (\E t \in Threads : Mem!MakesRoom(t))
    BY <1>1, <1>2 DEF Mem!RoomIsMade
  <2>3. bytes' \in Nat /\ bytes' <= bytes /\ chunks' = chunks /\ UNCHANGED <<op, capacity, lag>>
    BY <1>1, <1>2, <1>5, <1>7
  <2>4. Mem!RoomIsMade'
    BY <2>2, <2>3, RoomWithout
  <2> QED
    BY <1>5, <2>1, <2>4 DEF Mem!MemInv
<1> QED
  BY <1>6, <1>7 DEF Mem!Push

LEMMA RestKeeps == ASSUME Given, UNCHANGED Mem!vars PROVE Mem!MemInv'
<1> DEFINE bytes == v3  capacity == v4  chunks == v5  failed == v6  clock == v7  op == v8
           probe == v9  lag == v10
<1>1. UNCHANGED <<capacity, chunks, failed, clock, op, probe, lag>> /\ UNCHANGED Mem!store
  BY DEF Mem!vars, Mem!store
<1>2. Mem!Sound(Mem!TheStore) /\ Mem!Becomes(Mem!TheStore) /\ Mem!TheStore.bytes = bytes
      /\ bytes \in Nat
  BY <1>1, StayingStore, Known
<1> DEFINE s == Mem!TheStore
<1>3. Mem!Sound(s) /\ Mem!Becomes(s) /\ Mem!Places(s) \subseteq Mem!Places(Mem!TheStore)
      /\ s.bytes \in Nat /\ s.bytes <= bytes
  BY <1>2
<1> HIDE DEF s
<1> QED
  BY <1>1, <1>3, GoesOnly

LEMMA MemStarts == ASSUME Mem!MemTierAssumption, Mem!Init PROVE Mem!MemInv
<1> DEFINE bytes == v3  capacity == v4  chunks == v5  failed == v6  clock == v7  op == v8
           probe == v9  lag == v10
<1>1. /\ Mem!TheStore
           = [entries |-> [k \in Keys |-> None], order |-> [n \in {} |-> None], bytes |-> 0]
      /\ capacity \in Nat /\ bytes = 0 /\ chunks = 0 /\ failed = FALSE /\ clock = 1
      /\ op = [t \in Threads |-> Mem!Idle] /\ probe = Mem!AtHome /\ lag = FALSE
  BY DEF Mem!Init, Mem!TheStore, Mem!MemTierAssumption
<1>2. Mem!Sound(Mem!TheStore) /\ Mem!Places(Mem!TheStore) = {}
  BY <1>1, EmptyIs
<1>3. Mem!Idle \in Mem!Operations /\ Mem!Idle.pc = "idle"
  BY IdleIs
<1>4. \A t \in Threads : op[t].pc = "idle"
  <2>1. \A t \in Threads : op[t] = Mem!Idle
    BY Zenon, <1>1
  <2> QED
    BY Zenon, <1>3, <2>1
<1>5. Mem!TypeOK
  <2>1. probe \in Mem!Probing
    BY <1>1 DEF Mem!AtHome, Mem!Probing
  <2>2. op \in [Threads -> Mem!Operations]
    BY <1>1, <1>3
  <2> QED
    BY <1>1, <2>1, <2>2 DEF Mem!TypeOK
<1>6. Mem!NumbersAreNew
  BY <1>2, <1>4 DEF Mem!NumbersAreNew, Mem!Draws
<1>7. Mem!RoomIsMade
  <2>1. Chunk \in Nat
    BY DEF Mem!MemTierAssumption
  <2>2. 0 * Chunk = 0
    BY <2>1, Product
  <2>3. Mem!Fits
    BY <1>1, <2>2 DEF Mem!Fits, Mem!Ballast
  <2> QED
    BY <1>4, <2>3 DEF Mem!RoomIsMade
<1> QED
  BY <1>2, <1>5, <1>6, <1>7 DEF Mem!MemInv

LEMMA MemKept == ASSUME Mem!MemTierAssumption, Mem!MemInv, [Mem!Next]_(Mem!vars) PROVE Mem!MemInv'
<1>1. Given
  BY DEF Given
<1>2. ASSUME NEW t \in Threads, Mem!Serve(t) PROVE Mem!MemInv'
  <2>1. ASSUME NEW k \in Keys, Mem!Call(t, "get", k, 0) \/ Mem!Call(t, "refresh", k, 0)
        PROVE Mem!MemInv'
    BY <1>1, <2>1, CallKeeps
  <2>2. ASSUME NEW k \in Keys, NEW z \in Sizes, Mem!Call(t, "insert", k, z) PROVE Mem!MemInv'
    <3>1. z \in Nat
      BY DEF Mem!MemTierAssumption
    <3> QED
      BY <1>1, <2>2, <3>1, CallKeeps
  <2>3. Mem!Get(t) \/ Mem!Refresh(t) \/ Mem!PutAndEvict(t) \/ Mem!MakeRoom(t) => Mem!MemInv'
    BY <1>1, GetKeeps, RefreshKeeps, PutKeeps, MakeRoomKeeps
  <2> QED
    BY <1>2, <2>1, <2>2, <2>3 DEF Mem!Serve
<1>3. ASSUME NEW k \in Keys, Mem!RemoveKey(k) PROVE Mem!MemInv'
  BY <1>1, <1>3, RemoveKeyKeeps
<1>4. Mem!Clear => Mem!MemInv'
  BY <1>1, ClearKeeps
<1>5. ASSUME Mem!Probe PROVE Mem!MemInv'
  <2>1. ASSUME NEW c \in Capacities, Mem!SetBudget(c) PROVE Mem!MemInv'
    BY <1>1, <2>1, SetBudgetKeeps
  <2>2. Mem!ProbeRelease \/ Mem!Enforce \/ Mem!Sweep \/ Mem!Fill \/ Mem!Push => Mem!MemInv'
    BY <1>1, ProbeReleaseKeeps, MemEnforceKeeps, SweepKeeps, FillKeeps, PushKeeps
  <2> QED
    BY <1>5, <2>1, <2>2 DEF Mem!Probe
<1>6. Mem!Rest \/ UNCHANGED Mem!vars => Mem!MemInv'
  BY <1>1, RestKeeps DEF Mem!Rest
<1> QED
  BY Zenon, <1>2, <1>3, <1>4, <1>5, <1>6 DEF Mem!Next

\* What the tier promises.
LEMMA MemAgrees == ASSUME Mem!MemTierAssumption, Mem!MemInv PROVE Mem!StoreAgrees
    /\ Mem!WithinBudgetAtRest
<1> DEFINE entries == v1  order == v2  bytes == v3
<1>1. Given
  BY DEF Given
<1>2. /\ Mem!Sound(Mem!TheStore) /\ Mem!RoomIsMade
      /\ Mem!TheStore.entries = entries /\ Mem!TheStore.order = order /\ Mem!TheStore.bytes
           = bytes
  BY <1>1, Known
<1>3. /\ DOMAIN order = Mem!Places(Mem!TheStore) /\ Mem!Cardinality(Mem!Places(Mem!TheStore))
           = Mem!Cardinality(Mem!Present(Mem!TheStore))
  BY <1>2, PlacesAreKeys
<1>4. \A k \in Keys : entries[k] # None => k \in Mem!Present(Mem!TheStore)
  BY <1>2 DEF Mem!Present
<1>5. \A k \in Mem!Present(Mem!TheStore) : entries[k].used \in Mem!Places(Mem!TheStore)
      /\ order[entries[k].used] = k
  BY <1>2 DEF Mem!Places, Mem!Sound
<1>6. bytes = Mem!Load(Mem!TheStore, Mem!Present(Mem!TheStore))
  BY <1>2 DEF Mem!Sound
<1>7. Mem!StoreAgrees
  BY <1>3, <1>4, <1>5, <1>6 DEF Mem!StoreAgrees
<1>8. Mem!WithinBudgetAtRest
  BY <1>2 DEF Mem!WithinBudgetAtRest, Mem!RoomIsMade, Mem!MakesRoom, Mem!Fits
<1> QED
  BY <1>7, <1>8

LEMMA LeastRecent == ASSUME Mem!MemTierAssumption, Mem!MemInv, Mem!Next PROVE Mem!LruFirstStep
<1> DEFINE entries == v1  capacity == v4  op == v8
<1>1. Given
  BY DEF Given
<1>2. /\ Mem!MemTierAssumption /\ Mem!Sound(Mem!TheStore) /\ Mem!TheStore.entries = entries
      /\ capacity \in Nat
  BY <1>1, Known
<1>3. SUFFICES ASSUME NEW k \in Keys, NEW j \in Keys, Mem!Enforce
                      \/ (\E t \in Threads : Mem!PutAndEvict(t)),
                      entries[k] # None, entries'[k] = None, entries'[j] # None,
                      \A t \in Threads : Mem!PutAndEvict(t) => op[t].key # k
               PROVE  entries[k].used < entries'[j].used
  BY DEF Mem!LruFirstStep
<1>4. CASE Mem!Enforce
  <2>1. CASE UNCHANGED Mem!store
    BY <1>3, <2>1 DEF Mem!store
  <2>2. CASE Mem!Becomes(Mem!PopLru(Mem!TheStore, capacity, EvictBatch))
    <3> DEFINE s == Mem!PopLru(Mem!TheStore, capacity, EvictBatch)
    <3>1. EvictBatch \in Nat
      BY <1>2 DEF Mem!MemTierAssumption
    <3>2. PICK i \in Nat : s = Mem!Popped(Mem!TheStore, i)
      BY <1>2, <3>1, PopIs
    <3>3. entries' = s.entries
      BY <2>2 DEF Mem!Becomes
    <3> HIDE DEF s
    <3>4. /\ \A h \in Keys : s.entries[h] # None => s.entries[h] = Mem!TheStore.entries[h]
          /\ \A h, g \in Keys : Mem!TheStore.entries[h] # None /\ s.entries[h] = None
             /\ s.entries[g] # None
                                   => Mem!TheStore.entries[h].used < Mem!TheStore.entries[g].used
      BY <1>2, <3>2, PoppedIs
    <3> QED
      BY <1>2, <1>3, <3>3, <3>4
  <2> QED
    BY <1>4, <2>1, <2>2 DEF Mem!Enforce
<1>5. ASSUME NEW t \in Threads, Mem!PutAndEvict(t) PROVE entries[k].used < entries'[j].used
  <2>1. op[t].pc = "insert" /\ op[t].key # k
    BY <1>3, <1>5 DEF Mem!PutAndEvict
  <2>2. CASE UNCHANGED Mem!store
    BY <1>3, <2>2 DEF Mem!store
  <2>3. CASE Mem!Becomes(Mem!PopLru(Mem!Insert(Mem!TheStore, op[t].key, op[t].size, op[t].seq),
               op[t].cap, Mem!Cardinality(Keys)))
    <3> DEFINE q == Mem!Insert(Mem!TheStore, op[t].key, op[t].size, op[t].seq)
               s == Mem!PopLru(q, op[t].cap, Mem!Cardinality(Keys))
    <3>1. /\ Mem!Sound(q) /\ \A h \in Keys : h # op[t].key => q.entries[h] = entries[h]
          /\ \E i \in Nat : s = Mem!Popped(q, i)
      BY <1>1, <2>1, InsertedIs
    <3>2. entries' = s.entries
      BY <2>3 DEF Mem!Becomes
    <3> HIDE DEF s, q
    <3>3. PICK i \in Nat : s = Mem!Popped(q, i)
      BY <3>1
    <3>4. /\ \A h \in Keys : s.entries[h] # None => s.entries[h] = q.entries[h]
          /\ \A h, g \in Keys : q.entries[h] # None /\ s.entries[h] = None /\ s.entries[g] # None
                                   => q.entries[h].used < q.entries[g].used
      BY <1>2, <3>1, <3>3, PoppedIs
    <3> QED
      BY <1>3, <2>1, <3>1, <3>2, <3>4
  <2> QED
    BY <1>5, <2>2, <2>3 DEF Mem!PutAndEvict
<1> QED
  BY <1>3, <1>4, <1>5

LEMMA MemInductive == Spec => []MemInv
<1>1. Init => MemInv
  BY MemAssumption, MemStarts DEF Init, MemInv
<1>2. MemInv /\ [Next]_vars => MemInv'
  <2> SUFFICES ASSUME MemInv, [Next]_vars, part' = "memory" PROVE Mem!MemInv'
    BY DEF MemInv
  <2>1. part = "memory"
    BY SamePart
  <2>2. [Mem!Next]_(Mem!vars)
    BY <2>1
       DEF Next, MemStep, FiltersStep, DoorStep, ShotsStep, AnswersStep, RowStep, MoneyStep,
           PoolStep, ResolverStep, DnsStep, RaceStep, PolicyStep, RelayStep, vars, Mem!vars
  <2>3. Mem!MemInv
    BY <2>1 DEF MemInv
  <2> QED
    BY MemAssumption, <2>2, <2>3, MemKept
<1> QED
  BY <1>1, <1>2, PTL DEF Spec

\* The index, the order of use and the sum of the memory tier say the same after every operation, and
\* the entries and the ballast are within the budget when nobody is inside, unless something was
\* decided on a capacity or a use of the past (insert, evict_over, release, probe_tick).
THEOREM MemoryAlwaysAgrees == Spec => []MemoryAgrees
<1>1. MemInv /\ part = "memory" => Mem!StoreAgrees /\ Mem!WithinBudgetAtRest
  BY MemAssumption, MemAgrees DEF MemInv
<1>2. MemInv => MemoryAgrees
  BY <1>1 DEF MemoryAgrees
<1> QED
  BY <1>2, MemInductive, PTL

\* What is evicted was used before whatever stays, although the numbers of the operations come in any
\* order (pop_lru, evict_over, enforce).
THEOREM EvictsLeastRecent == Spec => LruFirst
<1>1. MemInv /\ [Next]_vars => [part = "memory" => Mem!LruFirstStep]_vars
  <2> SUFFICES ASSUME MemInv, Next, part = "memory" PROVE Mem!LruFirstStep
    OBVIOUS
  <2>1. Mem!Next
    BY DEF Next, MemStep, FiltersStep, DoorStep, ShotsStep, AnswersStep, RowStep, MoneyStep,
           PoolStep, ResolverStep, DnsStep, RaceStep, PolicyStep, RelayStep
  <2> QED
    BY MemAssumption, <2>1, LeastRecent DEF MemInv
<1> QED
  BY <1>1, MemInductive, PTL DEF Spec, LruFirst

-----------------------------------------------------------------------------
\* How much the cache may own.
\* The largest of some numbers.
LEMMA MaxIs == ASSUME NEW S, NEW x \in S, \A y \in S : x >= y PROVE Money!Max(S) \in S
    /\ \A y \in S : Money!Max(S) >= y
BY DEF Money!Max

LEMMA MinIs == ASSUME NEW S, NEW x \in S, \A y \in S : x <= y PROVE Money!Min(S) \in S
    /\ \A y \in S : Money!Min(S) <= y
BY DEF Money!Min

LEMMA BoundedMax ==
    ASSUME NEW n \in Nat, NEW S \in SUBSET (0 .. n), S # {}
    PROVE  Money!Max(S) \in S /\ \A y \in S : Money!Max(S) >= y
<1> DEFINE U == {m \in Nat : \A y \in S : m >= y}
<1>1. n \in U
  OBVIOUS
<1>2. PICK m \in U : \A k \in U : m <= k
  <2> HIDE DEF U
  <2>1. U \in SUBSET Nat
    BY DEF U
  <2> QED
    BY <1>1, <2>1, LeastNat
<1>3. m \in S
  <2> SUFFICES ASSUME m \notin S PROVE FALSE
    OBVIOUS
  <2>1. \A y \in S : m > y /\ y \in Nat
    BY <1>2
  <2>2. m > 0 /\ m \in Nat
    <3>1. PICK y \in S : TRUE
      OBVIOUS
    <3>2. m > y /\ y \in Nat /\ m \in Nat
      BY <1>2, <2>1, <3>1
    <3> QED
      BY <3>2
  <2>3. m - 1 \in U
    BY <2>1, <2>2
  <2> QED
    BY <1>2, <2>3
<1> QED
  BY <1>2, <1>3, MaxIs

LEMMA MaxOfTwo == ASSUME NEW a \in Int, NEW b \in Int PROVE Money!Max({a, b}) = IF a >= b THEN a
    ELSE b
<1>1. CASE a >= b
  <2>1. \A y \in {a, b} : a >= y
    BY <1>1
  <2> QED
    BY <1>1, <2>1, MaxIs
<1>2. CASE b > a
  <2>1. \A y \in {a, b} : b >= y
    BY <1>2
  <2> QED
    BY <1>2, <2>1, MaxIs
<1> QED
  BY <1>1, <1>2

LEMMA MinOfTwo == ASSUME NEW a \in Int, NEW b \in Int PROVE Money!Min({a, b}) = IF a <= b THEN a
    ELSE b
<1>1. CASE a <= b
  <2>1. \A y \in {a, b} : a <= y
    BY <1>1
  <2> QED
    BY <1>1, <2>1, MinIs
<1>2. CASE b < a
  <2>1. b \in {a, b} /\ \A y \in {a, b} : b <= y
    BY <1>2
  <2>2. Money!Min({a, b}) \in {a, b} /\ \A y \in {a, b} : Money!Min({a, b}) <= y
    BY Zenon, <2>1, MinIs
  <2>3. Money!Min({a, b}) <= b
    BY <2>2
  <2> QED
    BY <1>2, <2>2, <2>3
<1> QED
  BY <1>1, <1>2

LEMMA MaxOfFive ==
    ASSUME NEW a \in Int, NEW b \in Int, NEW c \in Int, NEW d \in Int, NEW e \in Int
    PROVE  /\ Money!Max({a, b, c, d, e}) \in Int /\ Money!Max({a, b, c, d, e}) >= a
           /\ Money!Max({a, b, c, d, e}) >= b
           /\ Money!Max({a, b, c, d, e}) >= c /\ Money!Max({a, b, c, d, e}) >= d
           /\ Money!Max({a, b, c, d, e}) >= e
<1> DEFINE S == {a, b, c, d, e}
<1>1. \E x \in S : \A y \in S : x >= y
  OBVIOUS
<1>2. S \subseteq Int /\ a \in S /\ b \in S /\ c \in S /\ d \in S /\ e \in S
  OBVIOUS
<1> HIDE DEF S
<1>3. Money!Max(S) \in S /\ \A y \in S : Money!Max(S) >= y
  BY <1>1, MaxIs
<1>4. Money!Max(S) \in Int /\ Money!Max(S) >= a /\ Money!Max(S) >= b /\ Money!Max(S) >= c
      /\ Money!Max(S) >= d /\ Money!Max(S) >= e
  BY <1>2, <1>3
<1> QED
  BY <1>4 DEF S

LEMMA OverIs == ASSUME NEW a \in Int, NEW b \in Int PROVE Money!Over(a, b) = IF a >= b THEN a
    - b ELSE 0
<1>1. a - b \in Int
  OBVIOUS
<1>2. Money!Max({a - b, 0}) = IF a - b >= 0 THEN a - b ELSE 0
  BY <1>1, MaxOfTwo
<1> QED
  BY <1>2 DEF Money!Over

LEMMA MoneyConstants ==
    ASSUME Money!BudgetAssumption
    PROVE  /\ Total \in Nat /\ Part \in Nat /\ Floor \in Nat /\ ManualFloor \in Nat
           /\ Percent \in Nat
           /\ Window \in Nat /\ Decay \in Nat \ {0} /\ Escalate \in Nat \ {0} /\ Slow \in Nat
           /\ Pause \in Nat \ {0}
           /\ Jump \in Nat /\ Actives \subseteq Nat /\ Part <= Total /\ Part >= 2
           /\ Decay >= Escalate /\ Window >= 2
BY DEF Money!BudgetAssumption

LEMMA SlideIs ==
    ASSUME NEW S, NEW s \in Seq(S), NEW x \in S, Money!BudgetAssumption
    PROVE  Money!Slide(s, x) \in Seq(S) /\ Len(Money!Slide(s, x)) > 0
           /\ Money!Newest(Money!Slide(s, x)) = x
<1> DEFINE r == IF Len(s) >= Window THEN Tail(s) ELSE s
<1>1. r \in Seq(S)
  <2>1. CASE Len(s) >= Window
    <3>1. s # <<>>
      <4>1. Window >= 2 /\ Window \in Nat
        BY MoneyConstants
      <4>2. Len(s) # 0
        BY <2>1, <4>1
      <4> QED
        BY <4>2, EmptySeq
    <3> QED
      BY <2>1, <3>1
  <2> QED
    BY <2>1
<1> HIDE DEF r
<1>2. /\ Append(r, x) \in Seq(S) /\ Len(Append(r, x)) = Len(r) + 1 /\ Len(r) \in Nat
      /\ Append(r, x)[Len(r) + 1] = x
  BY <1>1
<1>3. Money!Slide(s, x) = Append(r, x)
  BY DEF Money!Slide, r
<1> QED
  BY <1>2, <1>3 DEF Money!Newest

LEMMA ApartIs == ASSUME NEW n \in Nat, NEW a \in 0 .. n, NEW b \in 0 .. n
PROVE Money!Apart(a, b) \in 0 .. n
<1>1. a - b \in Int /\ b - a \in Int
  OBVIOUS
<1>2. Money!Max({a - b, b - a}) = IF a - b >= b - a THEN a - b ELSE b - a
  BY <1>1, MaxOfTwo
<1> QED
  BY <1>2 DEF Money!Apart

\* The largest step is one of them, and they are numbers.
LEMMA StepIs == ASSUME NEW n \in Nat, NEW s \in Seq(0 .. n) PROVE Money!LargestStep(s) \in 0 .. n
<1> DEFINE S == {0} \cup {Money!Apart(s[i], s[i + 1]) : i \in 1 .. Len(s) - 1}
<1>1. \A i \in 1 .. Len(s) - 1 : Money!Apart(s[i], s[i + 1]) \in 0 .. n
  <2> TAKE i \in 1 .. Len(s) - 1
  <2>1. i \in 1 .. Len(s) /\ i + 1 \in 1 .. Len(s)
    <3>1. Len(s) \in Nat
      OBVIOUS
    <3> QED
      BY <3>1
  <2>2. s[i] \in 0 .. n /\ s[i + 1] \in 0 .. n
    BY <2>1, ElementOfSeq
  <2> QED
    BY <2>2, ApartIs
<1>2. S \in SUBSET (0 .. n) /\ S # {}
  <2>1. 0 \in S
    OBVIOUS
  <2>2. ASSUME NEW x \in S PROVE x \in 0 .. n
    <3>1. CASE x = 0
      BY <3>1, SMT
    <3>2. CASE \E i \in 1 .. Len(s) - 1 : x = Money!Apart(s[i], s[i + 1])
      BY <1>1, <3>2, Zenon
    <3>3. x = 0 \/ \E i \in 1 .. Len(s) - 1 : x = Money!Apart(s[i], s[i + 1])
      BY <2>2, Zenon
    <3> QED
      BY <3>1, <3>2, <3>3, Zenon
  <2> HIDE DEF S
  <2> QED
    BY <2>1, <2>2, Zenon
<1>3. Money!LargestStep(s) = Money!Max(S)
  BY DEF Money!LargestStep
<1> HIDE DEF S
<1> QED
  BY <1>2, <1>3, BoundedMax

LEMMA PercentIs ==
    ASSUME Money!BudgetAssumption
    PROVE  /\ \A t \in Nat : Money!PercentOf(t, Percent) \in Nat /\ Money!FloorFor(t) \in Nat
           /\ Money!PercentOf(Part, Percent) >= 1 /\ Money!PercentOf(Total, Percent) >= 1
<1>1. ASSUME NEW t \in Nat PROVE Money!PercentOf(t, Percent) \in Nat /\ Money!FloorFor(t) \in Nat
  <2>1. t * Percent \in Nat /\ Floor \in Nat
    BY MoneyConstants
  <2>2. t \div 100 \in Nat /\ t \div 10 \in Nat
    BY SMT
  <2>3. Money!Min({Floor, t \div 10}) \in Nat
    BY <2>1, <2>2, MinOfTwo
  <2>4. Money!Max({t \div 100, Money!Min({Floor, t \div 10})}) \in Nat
    BY <2>2, <2>3, MaxOfTwo
  <2> DEFINE p == t * Percent
  <2>5. p \in Nat
    BY <2>1
  <2> HIDE DEF p
  <2>6. p \div 100 \in Nat
    BY <2>5, SMT
  <2> QED
    BY <2>4, <2>6 DEF Money!PercentOf, Money!FloorFor, p
<1>2. ASSUME NEW t \in Nat, t >= Part PROVE Money!PercentOf(t, Percent) >= 1
  <2>1. Part * Percent >= 100 /\ Part \in Nat /\ Percent \in Nat
    BY MoneyConstants DEF Money!BudgetAssumption
  <2>2. t * Percent >= Part * Percent /\ t * Percent \in Nat /\ Part * Percent \in Nat
    BY <1>2, <2>1
  <2> DEFINE p == t * Percent  q == Part * Percent
  <2>3. p \in Nat /\ q \in Nat /\ p >= q /\ q >= 100
    BY <2>1, <2>2
  <2> HIDE DEF p, q
  <2>4. p \div 100 >= 1
    BY <2>3, SMT
  <2> QED
    BY <2>4 DEF Money!PercentOf, p
<1> QED
  BY <1>1, <1>2, MoneyConstants

LEMMA LeastIs ==
    ASSUME Money!BudgetAssumption, NEW t \in {Part, Total}
    PROVE  /\ t \in Nat /\ Money!Least(t) \in Nat /\ Money!Least(t) >= 1 /\ t \div 2 \in Nat
           /\ Money!PercentOf(t, Percent) \in Nat /\ Money!Least(t)
                <= Money!PercentOf(t, Percent) /\ Money!Least(t) <= t \div 2
<1>1. t \in Nat /\ t >= 2 /\ Money!PercentOf(t, Percent) \in Nat
      /\ Money!PercentOf(t, Percent) >= 1
  BY MoneyConstants, PercentIs
<1>2. t \div 2 \in Nat /\ t \div 2 >= 1
  BY <1>1, SMT
<1> QED
  BY <1>1, <1>2, MinOfTwo DEF Money!Least

LEMMA FieldsOf ==
    ASSUME Money!BudgetAssumption, NEW m \in Money!Margins
    PROVE  /\ m.backoff \in Nat /\ m.calm \in Nat /\ m.since \in Nat /\ m.since <= Escalate
           /\ m.raises \in SUBSET Nat /\ m.history \in Seq(Money!Readings)
           /\ (m.hot # None => m.hot \in Nat) /\ \A a \in m.raises : a \in Nat
<1>1. /\ m.backoff \in Nat /\ m.calm \in Nat /\ m.since \in Money!Rounds
      /\ m.raises \in SUBSET Nat
      /\ m.hot \in Money!Times /\ m.history \in Seq(Money!Readings)
  BY DEF Money!Margins
<1>2. Escalate \in Nat
  BY MoneyConstants
<1> QED
  BY <1>1, <1>2 DEF Money!Rounds, Money!Times

\* What both outcomes of a round keep of a margin.
LEMMA PressureSettles ==
    ASSUME Money!BudgetAssumption, NEW m \in Money!Margins, NEW t \in {Part, Total},
             NEW initial \in Nat,
           initial >= Money!PercentOf(t, Percent), v8 \in Nat, Money!Settled(m, t, v8 - 1)
    PROVE  Money!OnPressure(m, initial, t) \in Money!Margins
           /\ Money!Settled(Money!OnPressure(m, initial, t), t, v8)
<1> DEFINE ticks == v8
<1> DEFINE r == Money!OnPressure(m, initial, t)  b ==
             Money!Min({Money!Max({2 * m.backoff, initial}), t \div 2})
<1>1. /\ m.backoff \in Nat /\ m.calm \in Nat /\ m.since \in Nat /\ m.since <= Escalate
      /\ Decay \in Nat /\ Escalate \in Nat /\ Escalate >= 1 /\ Decay >= Escalate
  <2>1. m.backoff \in Nat /\ m.calm \in Nat /\ m.since \in Nat /\ m.since <= Escalate
    BY FieldsOf
  <2> QED
    BY <2>1, MoneyConstants
<1>0. \A a \in m.raises : a \in Nat
  BY FieldsOf
<1>9. m.hot # None => m.hot \in Nat
  BY FieldsOf
<1>2. Money!Least(t) \in Nat /\ Money!Least(t) >= 1 /\ Money!Least(t)
        <= Money!PercentOf(t, Percent) /\ Money!Least(t) <= t \div 2 /\ t \div 2 \in Nat
      /\ Money!PercentOf(t, Percent) \in Nat
  BY LeastIs
<1>3. b \in Nat /\ b >= Money!Least(t)
  <2> DEFINE x == Money!Max({2 * m.backoff, initial})
  <2>1. x \in Nat /\ x >= initial
    BY <1>1, MaxOfTwo
  <2> HIDE DEF x
  <2>2. Money!Min({x, t \div 2}) \in Nat /\ Money!Min({x, t \div 2}) >= Money!Least(t)
    BY <1>2, <2>1, MinOfTwo
  <2> QED
    BY <2>2 DEF x
<1>4. /\ \A a \in m.raises : a + m.since <= ticks - 1
      /\ \A a, c \in m.raises : a < c => c - a >= Escalate
      /\ m.backoff = 0 => m.since = Escalate
      /\ m.since < Escalate => m.backoff >= Money!Least(t)
  BY DEF Money!Settled
<1> HIDE DEF b
<1>5. CASE m.backoff > 0 /\ m.since + 1 < Escalate
  <2>1. r = [m EXCEPT !.calm = 0, !.since = @ + 1, !.hot = ticks]
    BY <1>5 DEF Money!OnPressure
  <2>2. /\ r.history = m.history /\ r.backoff = m.backoff /\ r.calm = 0 /\ r.since = m.since + 1
        /\ r.raises = m.raises
        /\ r.hot = ticks
    BY <2>1 DEF Money!Margins
  <2>3. r \in Money!Margins
    <3>1. m.since + 1 \in Money!Rounds /\ ticks \in Money!Times
      BY <1>1, <1>5 DEF Money!Rounds, Money!Times
    <3>2. m.history \in Seq(Money!Readings) /\ m.backoff \in Nat /\ m.raises \in SUBSET Nat
      BY FieldsOf
    <3>3. r = [history |-> m.history, backoff |-> m.backoff, calm |-> 0, since |-> m.since + 1,
               raises |-> m.raises, hot |-> ticks]
      BY <2>1 DEF Money!Margins
    <3> HIDE DEF r
    <3> QED
      BY <3>1, <3>2, <3>3 DEF Money!Margins
  <2> HIDE DEF r
  <2>4. m.backoff >= Money!Least(t)
    BY <1>1, <1>4, <1>5
  <2>5. \A a \in r.raises : a + r.since <= ticks
    BY <1>0, <1>1, <1>4, <2>2
  <2>6. Money!Settled(r, t, ticks)
    <3>1. \A a, c \in r.raises : a < c => c - a >= Escalate
      BY <1>4, <2>2
    <3>2. r.backoff = 0 => r.since = Escalate
      BY <1>1, <1>2, <2>2, <2>4
    <3>3. r.backoff >= Money!Least(t) /\ r.since >= r.calm
      BY <1>1, <2>2, <2>4
    <3>4. r.calm < Decay /\ r.hot + r.calm = ticks
      BY <1>1, <2>2
    <3> QED
      BY <2>5, <3>1, <3>2, <3>3, <3>4, Zenon DEF Money!Settled
  <2> QED
    BY <2>3, <2>6 DEF r
<1>6. CASE ~ (m.backoff > 0 /\ m.since + 1 < Escalate)
  <2>1. r = [m EXCEPT !.calm = 0, !.since = 0, !.hot = ticks, !.raises = @ \cup {ticks},
          !.backoff = b]
    BY <1>6 DEF Money!OnPressure, b
  <2>2. /\ r.history = m.history /\ r.backoff = b /\ r.calm = 0 /\ r.since = 0 /\ r.raises
             = m.raises \cup {ticks}
        /\ r.hot = ticks
    BY <2>1 DEF Money!Margins
  <2>3. r \in Money!Margins
    <3>1. 0 \in Money!Rounds /\ ticks \in Money!Times /\ m.raises \cup {ticks} \in SUBSET Nat
      BY <1>0, <1>1 DEF Money!Rounds, Money!Times
    <3>2. m.history \in Seq(Money!Readings)
      BY FieldsOf
    <3>3. r = [history |-> m.history, backoff |-> b, calm |-> 0, since |-> 0,
               raises |-> m.raises \cup {ticks}, hot |-> ticks]
      BY <2>1 DEF Money!Margins
    <3> HIDE DEF r
    <3> QED
      BY <1>3, <3>1, <3>2, <3>3 DEF Money!Margins
  <2> HIDE DEF r
  <2>4. m.since + 1 >= Escalate
    BY <1>1, <1>4, <1>6
  <2>5. \A a \in m.raises : a < ticks /\ ticks - a >= Escalate
    BY <1>0, <1>1, <1>4, <2>4
  <2>6. \A a \in r.raises : a + r.since <= ticks
    BY <1>0, <1>1, <2>2, <2>5
  <2>7. \A a, c \in r.raises : a < c => c - a >= Escalate
    BY <1>0, <1>1, <1>4, <2>2, <2>5
  <2>8. Money!Settled(r, t, ticks)
    <3>1. r.backoff = 0 => r.since = Escalate
      BY <1>1, <1>2, <1>3, <2>2
    <3>2. r.backoff >= Money!Least(t) /\ r.since >= r.calm
      BY <1>1, <1>3, <2>2
    <3>3. r.calm < Decay /\ r.hot + r.calm = ticks
      BY <1>1, <2>2
    <3> QED
      BY <2>6, <2>7, <3>1, <3>2, <3>3, Zenon DEF Money!Settled
  <2> QED
    BY <2>3, <2>8 DEF r
<1> QED
  BY <1>5, <1>6

LEMMA DecayIs == ASSUME NEW d \in Nat \ {0}, NEW c \in Nat, (c + 1) % d = 0 PROVE c + 1 >= d
<1>1. CASE c + 1 < d
  <2>1. (c + 1) % d = c + 1
    BY <1>1, SMT
  <2> QED
    BY <2>1
<1> QED
  BY <1>1

LEMMA CalmSettles ==
    ASSUME Money!BudgetAssumption, NEW m \in Money!Margins, NEW t \in {Part, Total}, v8 \in Nat,
             Money!Settled(m, t, v8 - 1)
    PROVE  Money!OnCalm(m) \in Money!Margins /\ Money!Settled(Money!OnCalm(m), t, v8)
<1> DEFINE ticks == v8
<1> DEFINE r == Money!OnCalm(m)  s == Money!Min({m.since + 1, Escalate})
           b == IF (m.calm + 1) % Decay = 0 THEN (m.backoff * 3) \div 4 ELSE m.backoff
<1>1. /\ m.backoff \in Nat /\ m.calm \in Nat /\ m.since \in Nat /\ m.since <= Escalate
      /\ Decay \in Nat /\ Escalate \in Nat /\ Escalate >= 1 /\ Decay >= Escalate
  <2>1. m.backoff \in Nat /\ m.calm \in Nat /\ m.since \in Nat /\ m.since <= Escalate
    BY FieldsOf
  <2> QED
    BY <2>1, MoneyConstants
<1>0. \A a \in m.raises : a \in Nat
  BY FieldsOf
<1>9. m.hot # None => m.hot \in Nat
  BY FieldsOf
<1>2. Money!Least(t) \in Nat /\ Money!Least(t) >= 1
  BY LeastIs
<1>3. s \in 0 .. Escalate /\ (s = m.since + 1 \/ (s = Escalate /\ s <= m.since + 1))
  BY <1>1, MinOfTwo
<1>4. /\ \A a \in m.raises : a + m.since <= ticks - 1
      /\ \A a, c \in m.raises : a < c => c - a >= Escalate
      /\ m.backoff = 0 => m.since = Escalate
      /\ m.since < Escalate => m.backoff >= Money!Least(t)
      /\ m.since >= m.calm \/ m.since = Escalate
      /\ m.hot # None =>
          \/ m.calm < Decay /\ m.backoff >= Money!Least(t) /\ m.hot + m.calm = ticks - 1
          \/ m.calm >= Decay /\ m.hot + Decay <= ticks - 1
  BY DEF Money!Settled
<1>5. b \in Nat /\ (b # m.backoff => m.calm + 1 >= Decay)
  <2>1. (m.backoff * 3) \div 4 \in Nat
    BY <1>1, SMT
  <2>2. (m.calm + 1) % Decay = 0 => m.calm + 1 >= Decay
    BY <1>1, DecayIs
  <2> QED
    BY <1>1, <2>1, <2>2
<1> HIDE DEF b, s
<1>6. \A a \in m.raises : a + s <= ticks
  BY <1>0, <1>1, <1>3, <1>4
<1>7. CASE m.backoff = 0
  <2>1. r = [m EXCEPT !.since = s]
    BY <1>7 DEF Money!OnCalm, s
  <2>2. /\ r.history = m.history /\ r.backoff = 0 /\ r.calm = m.calm /\ r.since = s /\ r.raises
             = m.raises
        /\ r.hot = m.hot
    BY <1>7, <2>1 DEF Money!Margins
  <2>3. r \in Money!Margins
    <3>1. s \in Money!Rounds
      BY <1>3 DEF Money!Rounds
    <3> QED
      BY <2>1, <3>1 DEF Money!Margins
  <2> HIDE DEF r
  <2>4. s = Escalate
    BY <1>1, <1>3, <1>4, <1>7
  <2>5. m.hot # None => m.calm >= Decay /\ m.hot + Decay <= ticks
    BY <1>1, <1>2, <1>4, <1>7, <1>9
  <2>6. Money!Settled(r, t, ticks)
    BY <1>1, <1>2, <1>4, <1>6, <2>2, <2>4, <2>5 DEF Money!Settled
  <2> QED
    BY <2>3, <2>6 DEF r
<1>8. CASE m.backoff # 0
  <2>1. r = [m EXCEPT !.since = s, !.calm = @ + 1, !.backoff = b]
    BY <1>8 DEF Money!OnCalm, s, b
  <2>2. /\ r.history = m.history /\ r.backoff = b /\ r.calm = m.calm + 1 /\ r.since = s
        /\ r.raises = m.raises
        /\ r.hot = m.hot
    BY <2>1 DEF Money!Margins
  <2>3. r \in Money!Margins
    <3>1. m.calm + 1 \in Nat /\ s \in Money!Rounds
      BY <1>1, <1>3 DEF Money!Rounds
    <3> QED
      BY <1>5, <2>1, <3>1 DEF Money!Margins
  <2> HIDE DEF r
  <2>4. s >= m.calm + 1 \/ s = Escalate
    BY <1>0, <1>1, <1>3, <1>4
  <2>5. b # m.backoff => s = Escalate
    BY <1>1, <1>3, <1>5, <2>4
  <2>6. s < Escalate => b >= Money!Least(t)
    BY <1>1, <1>3, <1>4, <2>5
  <2>7. b = 0 => s = Escalate
    BY <1>1, <1>8, <2>5
  <2>8. m.hot # None =>
          \/ m.calm + 1 < Decay /\ b >= Money!Least(t) /\ m.hot + (m.calm + 1) = ticks
          \/ m.calm + 1 >= Decay /\ m.hot + Decay <= ticks
    BY <1>1, <1>2, <1>4, <1>5, <1>9
  <2>9. Money!Settled(r, t, ticks)
    BY <1>4, <1>6, <2>2, <2>4, <2>6, <2>7, <2>8 DEF Money!Settled
  <2> QED
    BY <2>3, <2>9 DEF r
<1> QED
  BY <1>7, <1>8

LEMMA KeepFreeIs ==
    ASSUME Money!BudgetAssumption, NEW m \in Money!Margins, NEW floor \in Nat, NEW hot \in Nat
    PROVE  Money!LargestStep(m.history) \in Nat /\ Money!KeepFree(m, floor, hot) \in Nat
           /\ Money!KeepFree(m, floor, hot) >= 2 * Money!LargestStep(m.history)
<1> DEFINE l == Money!LargestStep(m.history)
<1>1. l \in Nat
  <2>1. 2 * Total \in Nat
    BY MoneyConstants
  <2>2. m.history \in Seq(0 .. 2 * Total)
    BY FieldsOf DEF Money!Readings
  <2>3. l \in 0 .. 2 * Total
    <3> DEFINE n == 2 * Total
    <3>1. n \in Nat /\ m.history \in Seq(0 .. n)
      BY <2>1, <2>2
    <3> HIDE DEF n
    <3>2. l \in 0 .. n
      BY <3>1, StepIs
    <3> QED
      BY <3>2 DEF n
  <2> QED
    BY <2>1, <2>3
<1> HIDE DEF l
<1>2. m.backoff \in Nat /\ ManualFloor \in Nat
  BY FieldsOf, MoneyConstants
<1> DEFINE k == 2 * l  b == m.backoff
<1>3. k \in Nat /\ b \in Nat
  BY <1>1, <1>2
<1> HIDE DEF k, b
<1>4. /\ Money!Max({ManualFloor, floor, hot, k, b}) \in Int
      /\ Money!Max({ManualFloor, floor, hot, k, b}) >= k
      /\ Money!Max({ManualFloor, floor, hot, k, b}) >= b
  <2>1. ManualFloor \in Int /\ floor \in Int /\ hot \in Int /\ k \in Int /\ b \in Int
    BY <1>2, <1>3
  <2> QED
    BY <2>1, MaxOfFive
<1>5. Money!KeepFree(m, floor, hot) = Money!Max({ManualFloor, floor, hot, k, b})
  BY DEF Money!KeepFree, k, b, l
<1> QED
  BY <1>1, <1>3, <1>4, <1>5 DEF k, l

\* What fits, when n is used by others.
LEMMA RoomIs ==
    ASSUME NEW total \in Nat, NEW keep \in Nat, NEW used \in Nat, NEW own \in Nat
    PROVE  /\ own + Money!Headroom(total, keep, used) \in Int
           /\ Money!Headroom(total, keep, used) \in Int
           /\ \A n \in Nat : used = own + n /\ own + Money!Headroom(total, keep, used) > 0 =>
                 own + Money!Headroom(total, keep, used) + n + keep <= total
<1>1. Money!Over(total, keep) = IF total >= keep THEN total - keep ELSE 0
  BY OverIs
<1> QED
  BY <1>1 DEF Money!Headroom

LEMMA MemBudgetIs ==
    ASSUME Money!BudgetAssumption, Money!TypeOK, NEW h \in Nat, NEW g \in Nat
    PROVE  /\ Money!MemBudget(h, g) \in Nat
           /\ \A n, o \in Nat : Money!MemBudget(h, g) > 0 /\ v10.used = v4 + n /\ v10.part
                = v4 + o =>
                 Money!MemBudget(h, g) + n + h <= Total /\ Money!MemBudget(h, g) + o + g <= Part
<1> DEFINE owned == v4  read == v10
<1> DEFINE a == Money!Headroom(Total, h, read.used)  b ==
             Money!Headroom(Part, g, read.part)  x == owned + Money!Min({a, b})
<1>1. Total \in Nat /\ Part \in Nat /\ read.used \in Nat /\ read.part \in Nat /\ owned \in Nat
  <2>1. 2 * Total \in Nat /\ Total \in Nat
    BY MoneyConstants
  <2> QED
    BY <2>1, MoneyConstants DEF Money!TypeOK, Money!Readings, Money!Shares
<1>2. /\ a \in Int /\ b \in Int
      /\ \A n \in Nat : read.used = owned + n /\ owned + a > 0 => owned + a + n + h <= Total
      /\ \A n \in Nat : read.part = owned + n /\ owned + b > 0 => owned + b + n + g <= Part
  BY <1>1, RoomIs
<1> HIDE DEF a, b
<1>3. x \in Int /\ x <= owned + a /\ x <= owned + b
  BY <1>1, <1>2, MinOfTwo
<1>4. Money!MemBudget(h, g) = Money!Over(x, 0)
  BY DEF Money!MemBudget, a, b
<1> HIDE DEF x
<1>5. Money!Over(x, 0) = IF x >= 0 THEN x ELSE 0
  BY <1>3, OverIs
<1> QED
  BY <1>1, <1>2, <1>3, <1>4, <1>5

LEMMA DiskBudgetIs ==
    ASSUME Money!BudgetAssumption, Money!TypeOK, NEW m \in Money!Margins, NEW real \in BOOLEAN
    PROVE  /\ Money!DiskBudget(m, real) \in Nat
           /\ \A n \in Nat : Money!DiskBudget(m, real) > 0 /\ v10.used = v4 + n =>
                 Money!DiskBudget(m, real) + n + 2 * Money!LargestStep(m.history) <= Money!Limit
<1> DEFINE kind == v1  owned == v4  read == v10
<1> DEFINE l == Money!LargestStep(m.history)  h ==
             Money!KeepFree(m, Money!FloorFor(Total), 0)  g ==
               Money!KeepFree(m, Money!FloorFor(Part), 0)
<1>1. Total \in Nat /\ Part \in Nat /\ read.used \in Nat /\ owned \in Nat /\ Money!Used \in Nat
  <2>1. 2 * Total \in Nat /\ Total \in Nat
    BY MoneyConstants
  <2> QED
    BY <2>1, MoneyConstants DEF Money!TypeOK, Money!Readings, Money!Used
<1>2. l \in Nat /\ h \in Nat /\ h >= 2 * l /\ g \in Nat /\ g >= 2 * l
  BY <1>1, PercentIs, KeepFreeIs
<1> HIDE DEF l, h, g
<1> DEFINE a == owned + Money!Headroom(Part, g, read.used)  b ==
             owned + Money!Headroom(Total, h, Money!Used)
           c == owned + Money!Headroom(Total, h, read.used)  d == IF real THEN Money!Min({a, b})
             ELSE a
<1>3. /\ a \in Int /\ b \in Int /\ c \in Int
      /\ \A n \in Nat : read.used = owned + n /\ a > 0 => a + n + g <= Part
      /\ \A n \in Nat : read.used = owned + n /\ c > 0 => c + n + h <= Total
  BY <1>1, <1>2, RoomIs
<1> HIDE DEF a, b, c
<1>4. d \in Int /\ d <= a
  BY <1>3, MinOfTwo
<1> HIDE DEF d
<1>5. /\ kind = "quota" => Money!DiskBudget(m, real) = Money!Over(d, 0)
      /\ kind # "quota" => Money!DiskBudget(m, real) = Money!Over(c, 0)
  <2>1. (IF real THEN Money!Min({a, b}) ELSE a) = Money!Min({a} \cup (IF real THEN {b} ELSE {}))
    <3>1. CASE real
      <4>1. {a} \cup {b} = {a, b}
        OBVIOUS
      <4> QED
        BY <3>1, <4>1
    <3>2. CASE ~real
      <4>1. {a} \cup {} = {a, a}
        OBVIOUS
      <4>2. Money!Min({a, a}) = a
        BY <1>3, MinOfTwo
      <4> QED
        BY <3>2, <4>1, <4>2
    <3> QED
      BY <3>1, <3>2
  <2> QED
    BY <2>1 DEF Money!DiskBudget, a, b, c, d, g, h
<1>6. Money!Over(d, 0) = (IF d >= 0 THEN d ELSE 0) /\ Money!Over(c, 0) = IF c >= 0 THEN c ELSE 0
  BY <1>3, <1>4, OverIs
<1>7. CASE kind = "quota"
  <2>1. Money!DiskBudget(m, real) = (IF d >= 0 THEN d ELSE 0) /\ Money!Limit = Part
    BY <1>5, <1>6, <1>7 DEF Money!Limit
  <2>2. \A n \in Nat : Money!DiskBudget(m, real) > 0 /\ read.used = owned + n
          => Money!DiskBudget(m, real) + n + 2 * l <= Money!Limit
    BY <1>1, <1>2, <1>3, <1>4, <2>1
  <2> QED
    BY <1>4, <2>1, <2>2 DEF l
<1>8. CASE kind # "quota"
  <2>1. Money!DiskBudget(m, real) = (IF c >= 0 THEN c ELSE 0) /\ Money!Limit = Total
    BY <1>5, <1>6, <1>8 DEF Money!Limit
  <2>2. \A n \in Nat : Money!DiskBudget(m, real) > 0 /\ read.used = owned + n
          => Money!DiskBudget(m, real) + n + 2 * l <= Money!Limit
    BY <1>1, <1>2, <1>3, <2>1
  <2> QED
    BY <1>3, <2>1, <2>2 DEF l
<1> QED
  BY <1>7, <1>8

-----------------------------------------------------------------------------
LEMMA MoneyNumbers ==
    ASSUME Money!BudgetAssumption, Money!TypeOK
    PROVE  /\ v2 \in Nat /\ v3 \in Nat /\ v4 \in Nat /\ v5 \in Nat /\ v8 \in Nat
           /\ Money!Used \in Nat
           /\ Money!Used = v2 + v3 + v4 /\ Money!Used <= Total /\ Total \in Nat
           /\ v10.used \in Nat /\ v10.part \in Nat /\ v10.active \in Nat
           /\ v11.known \in Nat /\ v11.known <= Total /\ v11.fs \in Nat /\ v11.grown \in Nat
           /\ v11.at \in Nat /\ v11.hurry \in Nat /\ v14.hidden \in Nat /\ v14.raced \in BOOLEAN
           /\ v12.enospc \in BOOLEAN /\ v12.seen \in BOOLEAN /\ v12.until \in Nat
<1> DEFINE others == v2  aside == v3  owned == v4  cap == v5  ticks == v8  read == v10
           usage == v11  strain == v12  past == v14
<1>1. Total \in Nat /\ 2 * Total \in Nat
  BY MoneyConstants
<1>2. /\ usage.known \in 0 .. Total /\ usage.fs \in Nat /\ usage.grown \in Nat /\ usage.at \in Nat
      /\ usage.hurry \in Nat /\ past.hidden \in Nat /\ past.raced \in BOOLEAN
      /\ strain.enospc \in BOOLEAN /\ strain.seen \in BOOLEAN /\ strain.until \in Nat
      /\ read.used \in Money!Readings /\ read.part \in 0 .. Total /\ read.active \in Nat
  BY DEF Money!TypeOK, Money!Usages, Money!Strains, Money!Pasts, Money!Shares
<1>3. others \in Nat /\ aside \in Nat /\ owned \in Nat /\ cap \in Nat /\ ticks \in Nat
      /\ Money!Used <= Total
  BY DEF Money!TypeOK
<1> QED
  BY <1>1, <1>2, <1>3 DEF Money!Readings, Money!Used

LEMMA MoneyLater ==
    ASSUME Money!BudgetAssumption, Money!TypeOK'
    PROVE  /\ v2' \in Nat /\ v3' \in Nat /\ v4' \in Nat /\ v5' \in Nat /\ Money!Used' \in Nat
           /\ v14'.hidden \in Nat
<1> DEFINE others == v2  aside == v3  owned == v4  cap == v5  past == v14
<1>1. others' \in Nat /\ aside' \in Nat /\ owned' \in Nat /\ cap' \in Nat
  BY DEF Money!TypeOK
<1>2. past'.hidden \in Nat
  BY DEF Money!TypeOK, Money!Pasts
<1>3. Money!Used' \in Nat
  <2> DEFINE x == others'  y == aside'  z == owned'
  <2>1. x \in Nat /\ y \in Nat /\ z \in Nat
    BY <1>1
  <2>2. Money!Used' = x + y + z
    BY Zenon DEF Money!Used
  <2> HIDE DEF x, y, z
  <2> QED
    BY <2>1, <2>2
<1> QED
  BY <1>1, <1>2, <1>3

LEMMA HideIs ==
    ASSUME Money!BudgetAssumption, Money!TypeOK, NEW n \in Int, v14.hidden + n >= 0, Money!Hide(n)
    PROVE  /\ v14' \in Money!Pasts /\ v14'.whole = v14.whole /\ v14'.part = v14.part
           /\ v14'.raced = v14.raced
           /\ v14'.strained = v14.strained /\ v14'.filled = v14.filled
           /\ v1 = "quota" => v14'.hidden = v14.hidden + n
<1> DEFINE kind == v1  past == v14
<1> DEFINE h == IF kind = "quota" THEN past.hidden + n ELSE 0
<1>1. past \in Money!Pasts /\ past.hidden \in Nat
  BY MoneyNumbers DEF Money!TypeOK
<1>2. h \in Nat /\ (kind = "quota" => h = past.hidden + n)
  BY <1>1
<1>3. past' = [past EXCEPT !.hidden = h]
  BY DEF Money!Hide
<1> HIDE DEF h
<1> QED
  BY <1>1, <1>2, <1>3 DEF Money!Pasts

LEMMA RaceIs ==
    ASSUME Money!BudgetAssumption, Money!TypeOK, NEW n \in Nat, Money!Race(n)
    PROVE  /\ v14' \in Money!Pasts /\ v14'.whole = v14.whole /\ v14'.part = v14.part
           /\ v14'.strained = v14.strained /\ v14'.filled = v14.filled
           /\ v14'.raced = (v14.raced \/ v9 = "decide")
           /\ v1 = "quota" => v14'.hidden = v14.hidden + n
<1> DEFINE kind == v1  pc == v9  past == v14
<1> DEFINE h == IF kind = "quota" THEN past.hidden + n ELSE 0
           r == past.raced \/ pc = "decide"
<1>1. past \in Money!Pasts /\ past.hidden \in Nat /\ past.raced \in BOOLEAN
  BY MoneyNumbers DEF Money!TypeOK
<1>2. h \in Nat /\ (kind = "quota" => h = past.hidden + n) /\ r \in BOOLEAN
  BY <1>1
<1>3. past' = [past EXCEPT !.raced = r, !.hidden = h]
  BY Zenon DEF Money!Race
<1> HIDE DEF h, r
<1>4. /\ past' \in Money!Pasts /\ past'.whole = past.whole /\ past'.part = past.part
      /\ past'.strained = past.strained /\ past'.filled = past.filled /\ past'.raced = r
      /\ past'.hidden = h
  BY <1>1, <1>2, <1>3 DEF Money!Pasts
<1> QED
  BY <1>2, <1>4 DEF r

\* What others and requests do leaves alone what the thread has settled.
LEMMA SideSteps ==
    ASSUME Money!BudgetAssumption, Money!BudgetInv, UNCHANGED <<v1, v5, v6, v7, v8, v9, v10>>,
           v12'.until = v12.until, v14'.whole = v14.whole, v14'.part = v14.part,
           v14'.strained = v14.strained, v14'.filled = v14.filled, v14.raced => v14'.raced,
           v9 = "decide" => v14'.raced \/ v4' = v4, v9 = "home" => v4' <= v5
    PROVE  Money!MarginsSettled' /\ Money!Remembered' /\ Money!CapFits' /\ Money!Waits'
           /\ Money!RefillWaits'
<1>1. Money!MarginsSettled /\ Money!Remembered /\ Money!CapFits /\ Money!Waits
      /\ Money!RefillWaits
  BY DEF Money!BudgetInv
<1>2. Money!Decided' = Money!Decided /\ Money!Ended' = Money!Ended /\ Money!Limit' = Money!Limit
  BY DEF Money!Decided, Money!Ended, Money!Limit
<1>3. Money!MarginsSettled'
  BY <1>1, <1>2 DEF Money!MarginsSettled, Money!Settled
<1>4. Money!Remembered'
  BY <1>1 DEF Money!Remembered
<1>5. Money!CapFits'
  BY <1>1, <1>2 DEF Money!CapFits
<1>6. Money!Waits' /\ Money!RefillWaits'
  BY <1>1, <1>2 DEF Money!Waits, Money!RefillWaits
<1> QED
  BY <1>3, <1>4, <1>5, <1>6

\* Growth stays accounted for, if what nobody will see is noted.
LEMMA SeenSteps ==
    ASSUME Money!BudgetAssumption, Money!BudgetInv, Money!TypeOK', v1' = v1, v11' = v11,
           v9' = v9 \/ (v9 \notin {"walk", "walked"} /\ v9' \notin {"walk", "walked"}),
           v1 = "quota" =>
               /\ v9 = "walked" \/ v11.fs = 0 => v2' + v14.hidden <= v2 + v14'.hidden
               /\ v2' + Money!Used + v14.hidden <= v2 + Money!Used' + v14'.hidden
    PROVE  Money!Seen'
<1> DEFINE kind == v1  others == v2  pc == v9  usage == v11  past == v14
<1>1. Money!TypeOK /\ Money!Seen
  BY DEF Money!BudgetInv
<1>2. /\ others \in Nat /\ Money!Used \in Nat /\ past.hidden \in Nat
      /\ usage.known \in Nat /\ usage.fs \in Nat /\ usage.grown \in Nat
  BY <1>1, MoneyNumbers
<1>3. others' \in Nat /\ Money!Used' \in Nat /\ past'.hidden \in Nat
  BY MoneyLater
<1> DEFINE a == Money!Used  b == Money!Used'  c == past.hidden  d == past'.hidden  x == others'
<1>4. /\ a \in Nat /\ b \in Nat /\ c \in Nat /\ d \in Nat /\ x \in Nat
  BY <1>2, <1>3
<1> SUFFICES ASSUME kind = "quota", pc # "walk"
    PROVE  /\ pc = "walked" => x <= usage.known + d
           /\ usage.fs = 0 => x <= usage.known + usage.grown + d
           /\ pc # "walked" /\ usage.fs # 0 => x + usage.fs
                <= usage.known + usage.grown + b + 1 + d
  BY DEF Money!Seen
<1>5. /\ pc = "walked" => others <= usage.known + c
      /\ usage.fs = 0 => others <= usage.known + usage.grown + c
      /\ pc # "walked" /\ usage.fs # 0 => others + usage.fs
           <= usage.known + usage.grown + a + 1 + c
      /\ pc = "walked" \/ usage.fs = 0 => x + c <= others + d
      /\ x + a + c <= others + b + d
  BY <1>1 DEF Money!Seen
<1> HIDE DEF a, b, c, d, x
<1>6. pc = "walked" => x <= usage.known + d
  BY <1>2, <1>4, <1>5
<1>7. usage.fs = 0 => x <= usage.known + usage.grown + d
  BY <1>2, <1>4, <1>5
<1>8. pc # "walked" /\ usage.fs # 0 => x + usage.fs <= usage.known + usage.grown + b + 1 + d
  BY <1>2, <1>4, <1>5
<1> QED
  BY <1>6, <1>7, <1>8

\* Others come and go.
LEMMA OthersKeep == ASSUME Money!BudgetAssumption, Money!BudgetInv, Money!OthersMove
PROVE Money!BudgetInv'
<1> DEFINE kind == v1  others == v2  aside == v3  owned == v4  cap == v5  whole == v6
           group == v7  ticks == v8  pc == v9  read == v10  usage == v11  strain == v12
           moves == v13  past == v14
<1>1. Money!TypeOK /\ Money!CapFits
  BY DEF Money!BudgetInv
<1>2. UNCHANGED <<kind, owned, cap, whole, group, ticks, pc, read, usage, strain>> /\ moves'
        = moves + 1
  BY DEF Money!OthersMove, Money!Moved
<1>3. /\ others \in Nat /\ aside \in Nat /\ owned \in Nat /\ Money!Used \in Nat /\ Money!Used
           = others + aside + owned
      /\ past.hidden \in Nat /\ Money!Used <= Total /\ Total \in Nat
  BY <1>1, MoneyNumbers
<1> DEFINE Room == others' \in Nat /\ aside' \in Nat /\ others' + aside' + owned <= Total
           Past == /\ past' \in Money!Pasts /\ past'.whole = past.whole /\ past'.part
                        = past.part /\ past'.raced = past.raced
                   /\ past'.strained = past.strained /\ past'.filled = past.filled
           Grows == kind = "quota" =>
               /\ pc = "walked" \/ usage.fs = 0 => others' + past.hidden <= others + past'.hidden
               /\ others' + (others + aside + owned) + past.hidden
                    <= others + (others' + aside' + owned) + past'.hidden
<1>4. ASSUME NEW n \in 1 .. Jump, Money!Used + n <= Total, others' = others + n, aside' = aside,
             Money!Hide(IF pc = "walked" \/ usage.fs = 0 THEN n ELSE 0)
      PROVE  Room /\ Past /\ Grows
  <2> DEFINE k == IF pc = "walked" \/ usage.fs = 0 THEN n ELSE 0
  <2>1. n \in Nat /\ k \in Nat /\ (pc = "walked" \/ usage.fs = 0 => k = n)
    BY MoneyConstants
  <2>2. Money!Hide(k) /\ past.hidden + k >= 0 /\ k \in Int
    BY <1>3, <1>4, <2>1
  <2> HIDE DEF k
  <2>3. Past /\ (kind = "quota" => past'.hidden = past.hidden + k)
    BY <1>1, <2>2, HideIs
  <2>4. Room
    BY <1>3, <1>4, <2>1
  <2>5. Grows
    BY <1>3, <1>4, <2>1, <2>3
  <2> QED
    BY <2>3, <2>4, <2>5
<1>5. ASSUME NEW n \in 1 .. Jump, Money!Hide(n),
             \/ others >= n /\ others' = others - n /\ aside' = aside
             \/ aside >= n /\ aside' = aside - n /\ others' = others
      PROVE  Room /\ Past /\ Grows
  <2>1. n \in Nat /\ n \in Int /\ past.hidden + n >= 0
    BY <1>3, MoneyConstants
  <2>2. Past /\ (kind = "quota" => past'.hidden = past.hidden + n)
    BY <1>1, <1>5, <2>1, HideIs
  <2>3. Room
    BY <1>3, <1>5, <2>1
  <2>4. Grows
    BY <1>3, <1>5, <2>1, <2>2
  <2> QED
    BY <2>2, <2>3, <2>4
<1>6. ASSUME NEW n \in 1 .. Jump, Money!Used + n <= Total, aside' = aside + n, others' = others,
               past' = past
      PROVE  Room /\ Past /\ Grows
  <2>1. n \in Nat
    BY MoneyConstants
  <2>2. Past
    BY <1>1, <1>6 DEF Money!TypeOK
  <2>3. Room
    BY <1>3, <1>6, <2>1
  <2>4. Grows
    BY <1>3, <1>6, <2>1
  <2> QED
    BY <2>2, <2>3, <2>4
<1>7. Room /\ Past /\ Grows
  <2> HIDE DEF Room, Past, Grows
  <2>1. \E n \in 1 .. Jump :
            \/ /\ Money!Used + n <= Total /\ others' = others + n /\ aside' = aside
               /\ Money!Hide(IF pc = "walked" \/ usage.fs = 0 THEN n ELSE 0)
            \/ others >= n /\ others' = others - n /\ Money!Hide(n) /\ aside' = aside
            \/ kind \in {"memory", "quota"} /\ Money!Used + n <= Total /\ aside' = aside + n
               /\ others' = others /\ past' = past
            \/ aside >= n /\ aside' = aside - n /\ Money!Hide(n) /\ others' = others
    BY Zenon DEF Money!OthersMove
  <2> QED
    BY Zenon, <1>4, <1>5, <1>6, <2>1
<1>8. Money!TypeOK'
  <2>1. others' \in Nat /\ aside' \in Nat /\ Money!Used' <= Total /\ past' \in Money!Pasts
    BY <1>2, <1>7 DEF Money!Used
  <2>2. moves' \in Nat
    BY <1>1, <1>2 DEF Money!TypeOK
  <2> QED
    BY <1>1, <1>2, <2>1, <2>2 DEF Money!TypeOK
<1>9. Money!MarginsSettled' /\ Money!Remembered' /\ Money!CapFits' /\ Money!Waits'
      /\ Money!RefillWaits'
  <2>1. strain'.until = strain.until /\ (pc = "home" => owned' <= cap)
    BY <1>1, <1>2 DEF Money!CapFits
  <2> QED
    BY <1>2, <1>7, <2>1, SideSteps
<1>10. Money!Seen'
  <2>1. kind = "quota" =>
               /\ pc = "walked" \/ usage.fs = 0 => others' + past.hidden <= others + past'.hidden
               /\ others' + Money!Used + past.hidden <= others + Money!Used' + past'.hidden
    BY <1>2, <1>7 DEF Money!Used
  <2> QED
    BY <1>2, <1>8, <2>1, SeenSteps
<1> QED
  BY <1>8, <1>9, <1>10 DEF Money!BudgetInv

\* A request stores; or finds the device full.
LEMMA StoreKeeps == ASSUME Money!BudgetAssumption, Money!BudgetInv, Money!Store
PROVE Money!BudgetInv'
<1> DEFINE kind == v1  others == v2  aside == v3  owned == v4  cap == v5  whole == v6
           group == v7  ticks == v8  pc == v9  read == v10  usage == v11  strain == v12
           moves == v13  past == v14
<1>1. Money!TypeOK /\ Money!CapFits
  BY DEF Money!BudgetInv
<1>2. UNCHANGED <<kind, others, aside, cap, whole, group, ticks, pc, read, usage>> /\ moves'
        = moves + 1 /\ owned < cap
  BY DEF Money!Store, Money!Moved
<1>3. /\ others \in Nat /\ aside \in Nat /\ owned \in Nat /\ cap \in Nat /\ Money!Used \in Nat
      /\ Money!Used = others + aside + owned
      /\ past.hidden \in Nat /\ Money!Used <= Total /\ Total \in Nat
  BY <1>1, MoneyNumbers
<1>4. CASE Money!Used < Total /\ owned' = owned + 1 /\ Money!Race(0) /\ strain' = strain
  <2>1. /\ past' \in Money!Pasts /\ past'.whole = past.whole /\ past'.part = past.part
        /\ past'.strained = past.strained /\ past'.filled = past.filled
        /\ past'.raced = (past.raced \/ pc = "decide")
        /\ kind = "quota" => past'.hidden = past.hidden + 0
    BY <1>1, <1>4, RaceIs
  <2>2. Money!Used' = others + aside + (owned + 1) /\ owned' = owned + 1
    BY <1>2, <1>4 DEF Money!Used
  <2>3. Money!TypeOK'
    <3>1. Money!Used' <= Total /\ owned' \in Nat
      BY <1>3, <1>4, <2>2
    <3>2. moves' \in Nat
      BY <1>1, <1>2 DEF Money!TypeOK
    <3> QED
      BY <1>1, <1>2, <1>4, <2>1, <3>1, <3>2 DEF Money!TypeOK
  <2>4. Money!MarginsSettled' /\ Money!Remembered' /\ Money!CapFits' /\ Money!Waits'
        /\ Money!RefillWaits'
    <3>1. owned' <= cap
      BY <1>2, <1>3, <2>2
    <3>2. strain'.until = strain.until /\ (past.raced => past'.raced)
          /\ (pc = "decide" => past'.raced)
      BY <1>4, <2>1
    <3> QED
      BY <1>2, <2>1, <3>1, <3>2, SideSteps
  <2>5. Money!Seen'
    <3>1. kind = "quota" =>
               /\ pc = "walked" \/ usage.fs = 0 => others' + past.hidden <= others + past'.hidden
               /\ others' + Money!Used + past.hidden <= others + Money!Used' + past'.hidden
      <4> DEFINE x == others'  b == Money!Used'  d == past'.hidden
      <4>1. x = others /\ b = others + aside + (owned + 1) /\ (kind = "quota" => d = past.hidden)
        BY <1>2, <1>3, <2>1, <2>2
      <4> HIDE DEF x, b, d
      <4>2. kind = "quota" =>
               /\ pc = "walked" \/ usage.fs = 0 => x + past.hidden <= others + d
               /\ x + Money!Used + past.hidden <= others + b + d
        BY <1>3, <4>1
      <4> QED
        BY <4>2 DEF x, b, d
    <3> QED
      BY <1>2, <2>3, <3>1, SeenSteps
  <2> QED
    BY <2>3, <2>4, <2>5 DEF Money!BudgetInv
<1>5. CASE strain' = [strain EXCEPT !.enospc = ~Money!OfMemory] /\ owned' = owned /\ past' = past
  <2>1. strain' \in Money!Strains /\ strain'.until = strain.until
    BY <1>1, <1>5 DEF Money!TypeOK, Money!Strains, Money!OfMemory
  <2>2. Money!Used' = Money!Used
    BY <1>2, <1>5 DEF Money!Used
  <2>3. Money!TypeOK'
    <3>1. moves' \in Nat
      BY <1>1, <1>2 DEF Money!TypeOK
    <3> QED
      BY <1>1, <1>2, <1>5, <2>1, <2>2, <3>1 DEF Money!TypeOK
  <2>4. Money!MarginsSettled' /\ Money!Remembered' /\ Money!CapFits' /\ Money!Waits'
        /\ Money!RefillWaits'
    <3>1. pc = "home" => owned' <= cap
      BY <1>1, <1>5 DEF Money!CapFits
    <3> QED
      BY <1>2, <1>5, <2>1, <3>1, SideSteps
  <2>5. Money!Seen'
    BY <1>2, <1>5, <2>2 DEF Money!BudgetInv, Money!Seen
  <2> QED
    BY <2>3, <2>4, <2>5 DEF Money!BudgetInv
<1> QED
  BY Zenon, <1>4, <1>5 DEF Money!Store

\* A request removes an entry.
LEMMA RemoveKeeps == ASSUME Money!BudgetAssumption, Money!BudgetInv, Money!Remove
PROVE Money!BudgetInv'
<1> DEFINE kind == v1  others == v2  aside == v3  owned == v4  cap == v5  whole == v6
           group == v7  ticks == v8  pc == v9  read == v10  usage == v11  strain == v12
           moves == v13  past == v14
<1>1. Money!TypeOK /\ Money!CapFits
  BY DEF Money!BudgetInv
<1>2. /\ UNCHANGED <<kind, others, aside, cap, whole, group, ticks, pc, read, usage, strain>>
      /\ moves' = moves + 1
      /\ owned > 0 /\ owned' = owned - 1 /\ Money!Race(1)
  BY DEF Money!Remove, Money!Moved
<1>3. /\ others \in Nat /\ aside \in Nat /\ owned \in Nat /\ cap \in Nat /\ Money!Used \in Nat
      /\ Money!Used = others + aside + owned
      /\ past.hidden \in Nat /\ Money!Used <= Total /\ Total \in Nat
  BY <1>1, MoneyNumbers
<1>4. /\ past' \in Money!Pasts /\ past'.whole = past.whole /\ past'.part = past.part
      /\ past'.strained = past.strained /\ past'.filled = past.filled
      /\ past'.raced = (past.raced \/ pc = "decide")
      /\ kind = "quota" => past'.hidden = past.hidden + 1
  BY <1>1, <1>2, RaceIs
<1>5. Money!Used' = others + aside + (owned - 1)
  BY <1>2 DEF Money!Used
<1>6. Money!TypeOK'
  <2>1. Money!Used' <= Total /\ owned' \in Nat
    BY <1>2, <1>3, <1>5
  <2>2. moves' \in Nat
    BY <1>1, <1>2 DEF Money!TypeOK
  <2> QED
    BY <1>1, <1>2, <1>4, <2>1, <2>2 DEF Money!TypeOK
<1>7. Money!MarginsSettled' /\ Money!Remembered' /\ Money!CapFits' /\ Money!Waits'
      /\ Money!RefillWaits'
  <2>1. pc = "home" => owned' <= cap
    <3>1. pc = "home" => owned <= cap
      BY <1>1 DEF Money!CapFits
    <3> QED
      BY <1>1, <1>2, <1>3, <3>1 DEF Money!TypeOK
  <2>2. strain'.until = strain.until /\ (past.raced => past'.raced)
        /\ (pc = "decide" => past'.raced)
    BY <1>2, <1>4
  <2> QED
    BY <1>2, <1>4, <2>1, <2>2, SideSteps
<1>8. Money!Seen'
  <2>1. kind = "quota" =>
             /\ pc = "walked" \/ usage.fs = 0 => others' + past.hidden <= others + past'.hidden
             /\ others' + Money!Used + past.hidden <= others + Money!Used' + past'.hidden
    <3> DEFINE x == others'  b == Money!Used'  d == past'.hidden
    <3>1. x = others /\ b = others + aside + (owned - 1)
          /\ (kind = "quota" => d = past.hidden + 1)
      BY <1>2, <1>4, <1>5
    <3> HIDE DEF x, b, d
    <3>2. kind = "quota" =>
             /\ pc = "walked" \/ usage.fs = 0 => x + past.hidden <= others + d
             /\ x + Money!Used + past.hidden <= others + b + d
      BY <1>3, <3>1
    <3> QED
      BY <3>2 DEF x, b, d
  <2> QED
    BY <1>2, <1>6, <2>1, SeenSteps
<1> QED
  BY <1>6, <1>7, <1>8 DEF Money!BudgetInv

\* A round begins.
LEMMA TickKeeps == ASSUME Money!BudgetAssumption, Money!BudgetInv, Money!Tick
PROVE Money!BudgetInv'
<1> DEFINE kind == v1  others == v2  aside == v3  owned == v4  cap == v5  whole == v6
           group == v7  ticks == v8  pc == v9  read == v10  usage == v11  strain == v12
           moves == v13  past == v14
<1>1. Money!TypeOK /\ Money!MarginsSettled /\ Money!Remembered /\ Money!CapFits /\ Money!Waits
      /\ Money!RefillWaits /\ Money!Seen
  BY DEF Money!BudgetInv
<1>2. /\ UNCHANGED <<kind, others, aside, owned, cap, whole, group, read, usage, strain, moves,
           past>>
      /\ pc = "home" /\ ticks' = ticks + 1 /\ pc' \in {"walk", "take"} /\ ticks \in Nat
  BY <1>1 DEF Money!Tick, Money!TypeOK
<1>3. Money!Decided' = Money!Decided /\ Money!Ended' = Money!Ended /\ Money!Limit' = Money!Limit
      /\ Money!Used' = Money!Used
  BY <1>2 DEF Money!Decided, Money!Ended, Money!Limit, Money!Used
<1>4. Money!TypeOK'
  BY <1>1, <1>2, <1>3 DEF Money!TypeOK
<1>5. Money!MarginsSettled'
  BY <1>1, <1>2, <1>3 DEF Money!MarginsSettled, Money!Settled
<1>6. Money!Remembered' /\ Money!CapFits'
  BY <1>1, <1>2, <1>3 DEF Money!Remembered, Money!CapFits
<1>7. Money!Waits' /\ Money!RefillWaits'
  BY <1>1, <1>2, <1>3 DEF Money!Waits, Money!RefillWaits
<1>8. Money!Seen'
  BY <1>1, <1>2, <1>3 DEF Money!Seen
<1> QED
  BY <1>4, <1>5, <1>6, <1>7, <1>8 DEF Money!BudgetInv

\* The directory is walked.
LEMMA WalkKeeps == ASSUME Money!BudgetAssumption, Money!BudgetInv, Money!Walk
PROVE Money!BudgetInv'
<1> DEFINE kind == v1  others == v2  aside == v3  owned == v4  cap == v5  whole == v6
           group == v7  ticks == v8  pc == v9  read == v10  usage == v11  strain == v12
           moves == v13  past == v14
<1>1. Money!TypeOK /\ Money!MarginsSettled /\ Money!Remembered /\ Money!CapFits /\ Money!Waits
      /\ Money!RefillWaits
  BY DEF Money!BudgetInv
<1>2. /\ UNCHANGED <<kind, others, aside, owned, cap, whole, group, ticks, read, strain, moves>>
      /\ pc = "walk" /\ pc' = "walked" /\ usage' = [usage EXCEPT !.known = others]
      /\ Money!Hide(-past.hidden)
  BY DEF Money!Walk
<1>3. /\ others \in Nat /\ aside \in Nat /\ owned \in Nat /\ Money!Used = others + aside + owned
      /\ Money!Used <= Total
      /\ past.hidden \in Nat /\ Total \in Nat
  BY <1>1, MoneyNumbers
<1>4. /\ past' \in Money!Pasts /\ past'.whole = past.whole /\ past'.part = past.part
      /\ past'.raced = past.raced
      /\ past'.strained = past.strained /\ past'.filled = past.filled
  <2> DEFINE n == -past.hidden
  <2>1. n \in Int /\ past.hidden + n >= 0
    BY <1>3
  <2>2. Money!Hide(n)
    BY <1>2
  <2> HIDE DEF n
  <2> QED
    BY <1>1, <2>1, <2>2, HideIs
<1>5. usage' \in Money!Usages /\ usage'.known = others /\ usage'.fs = usage.fs /\ usage'.grown
        = usage.grown
  <2>1. others \in Money!Shares /\ usage \in Money!Usages
    BY <1>1, <1>3 DEF Money!Shares, Money!TypeOK
  <2> QED
    BY <1>2, <2>1 DEF Money!Usages
<1>6. Money!Decided' = Money!Decided /\ Money!Ended' = Money!Ended /\ Money!Limit' = Money!Limit
      /\ Money!Used' = Money!Used
  BY <1>2 DEF Money!Decided, Money!Ended, Money!Limit, Money!Used
<1>7. Money!TypeOK'
  BY <1>1, <1>2, <1>4, <1>5, <1>6 DEF Money!TypeOK
<1>8. Money!MarginsSettled'
  BY <1>1, <1>2, <1>6 DEF Money!MarginsSettled, Money!Settled
<1>9. Money!Remembered' /\ Money!CapFits'
  BY <1>1, <1>2, <1>4, <1>6 DEF Money!Remembered, Money!CapFits
<1>10. Money!Waits' /\ Money!RefillWaits'
  BY <1>1, <1>2, <1>4, <1>6 DEF Money!Waits, Money!RefillWaits
<1>11. Money!Seen'
  <2> DEFINE d == past'.hidden  g == usage.grown
  <2>1. d \in Nat /\ g \in Nat
    BY <1>1, <1>7, MoneyLater, MoneyNumbers
  <2> HIDE DEF d, g
  <2>2. others <= others + d /\ others <= others + g + d
    BY <1>3, <2>1
  <2> QED
    BY <1>2, <1>5, <2>2 DEF Money!Seen, d, g
<1> QED
  BY <1>7, <1>8, <1>9, <1>10, <1>11 DEF Money!BudgetInv

\* The filesystem is looked at after the walk.
LEMMA WalkedKeeps == ASSUME Money!BudgetAssumption, Money!BudgetInv, Money!Walked
PROVE Money!BudgetInv'
<1> DEFINE kind == v1  others == v2  aside == v3  owned == v4  cap == v5  whole == v6
           group == v7  ticks == v8  pc == v9  read == v10  usage == v11  strain == v12
           moves == v13  past == v14
<1>1. Money!TypeOK /\ Money!MarginsSettled /\ Money!Remembered /\ Money!CapFits /\ Money!Waits
      /\ Money!RefillWaits /\ Money!Seen
  BY DEF Money!BudgetInv
<1>2. PICK fs \in {0, Money!Used} :
      /\ UNCHANGED <<kind, others, aside, owned, cap, whole, group, ticks, read, strain, moves,
           past>>
      /\ pc = "walked" /\ pc' = "take" /\ usage'
           = [usage EXCEPT !.fs = fs, !.grown = 0, !.at = ticks]
  BY Zenon DEF Money!Walked
<1>3. /\ others \in Nat /\ aside \in Nat /\ owned \in Nat /\ Money!Used = others + aside + owned
      /\ Money!Used <= Total
      /\ past.hidden \in Nat /\ Total \in Nat /\ fs \in Nat /\ ticks \in Nat
      /\ usage.known \in Nat
  BY <1>1, MoneyNumbers
<1>4. usage' \in Money!Usages /\ usage'.known = usage.known /\ usage'.fs = fs /\ usage'.grown = 0
  <2>1. usage \in Money!Usages
    BY <1>1 DEF Money!TypeOK
  <2> QED
    BY <1>2, <1>3, <2>1 DEF Money!Usages
<1>5. Money!Decided' = Money!Decided /\ Money!Ended' = Money!Ended /\ Money!Limit' = Money!Limit
      /\ Money!Used' = Money!Used
  BY <1>2 DEF Money!Decided, Money!Ended, Money!Limit, Money!Used
<1>6. Money!TypeOK'
  BY <1>1, <1>2, <1>4, <1>5 DEF Money!TypeOK
<1>7. Money!MarginsSettled'
  BY <1>1, <1>2, <1>5 DEF Money!MarginsSettled, Money!Settled
<1>8. Money!Remembered' /\ Money!CapFits'
  BY <1>1, <1>2, <1>5 DEF Money!Remembered, Money!CapFits
<1>9. Money!Waits' /\ Money!RefillWaits'
  BY <1>1, <1>2, <1>5 DEF Money!Waits, Money!RefillWaits
<1>10. Money!Seen'
  <2>1. kind = "quota" => others <= usage.known + past.hidden
    BY <1>1, <1>2 DEF Money!Seen
  <2> DEFINE k == usage.known  h == past.hidden  u == Money!Used
  <2>2. kind = "quota" =>
            /\ others <= k + 0 + h
            /\ fs # 0 => others + fs <= k + 0 + u + 1 + h
    <3>1. k \in Nat /\ h \in Nat /\ u \in Nat /\ fs \in {0, u}
          /\ (kind = "quota" => others <= k + h)
      BY <1>3, <2>1
    <3> HIDE DEF k, h, u
    <3> QED
      BY <1>3, <3>1
  <2>3. /\ pc' = "take" /\ usage'.known = k /\ usage'.grown = 0 /\ usage'.fs = fs /\ past'
             = past /\ others' = others
        /\ Money!Used' = u /\ kind' = kind
    BY <1>2, <1>4, <1>5
  <2> QED
    BY <2>2, <2>3 DEF Money!Seen
<1> QED
  BY <1>6, <1>7, <1>8, <1>9, <1>10 DEF Money!BudgetInv

\* What is used is read.
LEMMA TakeKeeps == ASSUME Money!BudgetAssumption, Money!BudgetInv, Money!Take
PROVE Money!BudgetInv'
<1> DEFINE kind == v1  others == v2  aside == v3  owned == v4  cap == v5  whole == v6
           group == v7  ticks == v8  pc == v9  read == v10  usage == v11  strain == v12
           moves == v13  past == v14
<1>1. Money!TypeOK /\ Money!MarginsSettled /\ Money!Remembered /\ Money!CapFits /\ Money!Waits
      /\ Money!RefillWaits /\ Money!Seen
  BY DEF Money!BudgetInv
<1>2. /\ UNCHANGED <<kind, others, aside, owned, cap, whole, group, ticks, usage, strain, moves>>
      /\ pc = "take" /\ pc' = "decide"
  BY DEF Money!Take
<1>3. /\ others \in Nat /\ aside \in Nat /\ owned \in Nat /\ Money!Used = others + aside + owned
      /\ Money!Used <= Total
      /\ Total \in Nat /\ usage.known \in Nat /\ usage.known <= Total
  BY <1>1, MoneyNumbers
<1> DEFINE now == IF kind = "quota" THEN usage.known ELSE others + aside
<1>4. now \in 0 .. Total /\ aside \in 0 .. Total /\ now + owned <= 2 * Total /\ aside + owned
        <= Total
      /\ (kind # "quota" => Money!Used = owned + now)
  BY <1>3
<1>5. PICK a \in (IF Money!OfMemory THEN Actives ELSE {0}) :
         read' = [used |-> IF kind = "quota" THEN usage.known + owned ELSE Money!Used,
           part |-> aside + owned, active |-> a]
  BY Zenon DEF Money!Take
<1>6. a \in Nat
  BY <1>5, MoneyConstants
<1>7. /\ read'.used = owned + now /\ read'.part = owned + aside
      /\ read' \in [used : Money!Readings, part : Money!Shares, active : Nat]
  <2>1. (IF kind = "quota" THEN usage.known + owned ELSE Money!Used) = owned + now
    BY <1>3, <1>4
  <2>2. owned + now \in Money!Readings /\ aside + owned \in Money!Shares
    BY <1>3, <1>4 DEF Money!Readings, Money!Shares
  <2>3. read' = [used |-> owned + now, part |-> aside + owned, active |-> a]
    BY <1>5, <2>1
  <2>4. aside + owned = owned + aside
    BY <1>3
  <2> HIDE DEF now
  <2> QED
    BY <1>6, <2>2, <2>3, <2>4
<1> DEFINE w == Money!Slide(past.whole, now)
           p == IF kind = "memory" THEN Money!Slide(past.part, aside) ELSE past.part
<1>8. past' = [past EXCEPT !.whole = w, !.part = p]
  BY Zenon DEF Money!Take
<1>9. past \in Money!Pasts /\ past.whole \in Seq(Money!Shares) /\ past.part \in Seq(Money!Shares)
  BY <1>1 DEF Money!TypeOK, Money!Pasts
<1>10. w \in Seq(Money!Shares) /\ p \in Seq(Money!Shares)
       /\ (kind = "memory" => p = Money!Slide(past.part, aside))
  <2>1. now \in Money!Shares /\ aside \in Money!Shares
    BY <1>4 DEF Money!Shares
  <2> HIDE DEF now
  <2> QED
    BY <1>9, <2>1, SlideIs
<1> HIDE DEF now, p
<1>11. /\ past' \in Money!Pasts /\ past'.whole = w /\ past'.part = p /\ past'.raced = past.raced
       /\ past'.strained = past.strained /\ past'.filled = past.filled /\ past'.hidden
            = past.hidden
  <2> HIDE DEF w
  <2> QED
    BY <1>8, <1>9, <1>10 DEF Money!Pasts
<1>12. Money!Decided' = Money!Decided /\ Money!Ended' = Money!Ended /\ Money!Limit'
         = Money!Limit /\ Money!Used' = Money!Used
  BY <1>2 DEF Money!Decided, Money!Ended, Money!Limit, Money!Used
<1>13. Money!TypeOK'
  BY <1>1, <1>2, <1>7, <1>11, <1>12 DEF Money!TypeOK
<1>14. Money!MarginsSettled'
  BY <1>1, <1>2, <1>12 DEF Money!MarginsSettled, Money!Settled
<1>15. Money!Remembered'
  <2> SUFFICES ASSUME ~past.raced
      PROVE  /\ \E n \in 0 .. Total : w = Money!Slide(whole.history, n) /\ read'.used = owned + n
             /\ kind = "memory" => \E n \in 0 .. Total : p = Money!Slide(group.history, n)
                /\ read'.part = owned + n
    BY <1>2, <1>11 DEF Money!Remembered
  <2>1. past.whole = whole.history /\ (kind = "memory" => past.part = group.history)
    BY <1>1, <1>2 DEF Money!Remembered
  <2> QED
    BY <1>4, <1>7, <1>10, <2>1
<1>16. Money!CapFits'
  BY <1>2 DEF Money!CapFits
<1>17. Money!Waits' /\ Money!RefillWaits'
  BY <1>1, <1>2, <1>11, <1>12 DEF Money!Waits, Money!RefillWaits
<1>18. Money!Seen'
  BY <1>1, <1>2, <1>11, <1>12 DEF Money!Seen
<1> QED
  BY <1>13, <1>14, <1>15, <1>16, <1>17, <1>18 DEF Money!BudgetInv

LEMMA ObserveIs ==
    ASSUME Money!BudgetAssumption, NEW m \in Money!Margins, NEW used \in Money!Readings, NEW t,
             NEW d, Money!Settled(m, t, d)
    PROVE  /\ Money!Observe(m, used) \in Money!Margins
           /\ Money!Settled(Money!Observe(m, used), t, d)
           /\ Money!Observe(m, used).history = Money!Slide(m.history, used)
<1> DEFINE q == Money!Slide(m.history, used)
<1>1. q \in Seq(Money!Readings)
  BY FieldsOf, SlideIs
<1>2. Money!Observe(m, used) = [m EXCEPT !.history = q]
  BY Zenon DEF Money!Observe
<1> HIDE DEF q
<1>3. Money!Observe(m, used) \in Money!Margins /\ Money!Observe(m, used).history = q
  BY <1>1, <1>2 DEF Money!Margins
<1>4. /\ Money!Observe(m, used).raises = m.raises /\ Money!Observe(m, used).since = m.since
      /\ Money!Observe(m, used).hot = m.hot
      /\ Money!Observe(m, used).calm = m.calm /\ Money!Observe(m, used).backoff = m.backoff
  BY <1>2 DEF Money!Margins
<1>5. Money!Settled(Money!Observe(m, used), t, d)
  BY <1>4 DEF Money!Settled
<1> QED
  BY <1>3, <1>5 DEF q

LEMMA SettleIs ==
    ASSUME Money!BudgetAssumption, NEW m \in Money!Margins, NEW t \in {Part, Total},
             NEW initial \in Nat,
           initial >= Money!PercentOf(t, Percent), NEW hot \in BOOLEAN, v8 \in Nat,
             Money!Settled(m, t, v8 - 1)
    PROVE  /\ Money!Settle(m, hot, initial, t) \in Money!Margins
           /\ Money!Settled(Money!Settle(m, hot, initial, t), t, v8)
           /\ Money!Settle(m, hot, initial, t).history = m.history
<1> DEFINE ticks == v8
<1>1. Money!OnPressure(m, initial, t) \in Money!Margins
      /\ Money!Settled(Money!OnPressure(m, initial, t), t, ticks)
  BY PressureSettles
<1>2. Money!OnCalm(m) \in Money!Margins /\ Money!Settled(Money!OnCalm(m), t, ticks)
  BY CalmSettles
<1>3. Money!OnPressure(m, initial, t).history = m.history
  BY DEF Money!OnPressure, Money!Margins
<1>4. Money!OnCalm(m).history = m.history
  BY DEF Money!OnCalm, Money!Margins
<1>5. Money!Settle(m, hot, initial, t) \in {Money!OnPressure(m, initial, t), Money!OnCalm(m)}
  BY DEF Money!Settle
<1> QED
  BY <1>1, <1>2, <1>3, <1>4, <1>5

LEMMA OthersOfIs ==
    ASSUME Money!BudgetAssumption, Money!TypeOK, NEW u \in Money!Readings
    PROVE  Money!OthersOf(u) \in Money!Readings /\ \A n \in Nat : u = v4 + n
             => Money!OthersOf(u) = n
<1> DEFINE owned == v4
<1>1. u \in Nat /\ u <= 2 * Total /\ 2 * Total \in Nat /\ owned \in Nat
  BY MoneyConstants, MoneyNumbers DEF Money!Readings
<1>2. Money!Over(u, owned) = IF u >= owned THEN u - owned ELSE 0
  BY <1>1, OverIs
<1> QED
  BY <1>1, <1>2 DEF Money!OthersOf, Money!Readings

\* What a round without a race leaves free of what was measured.
LEMMA WholeFits ==
    ASSUME Money!BudgetAssumption, NEW s \in Seq(Money!Readings), NEW q, NEW n \in 0 .. Total, q
             = Money!Slide(s, n)
    PROVE  Len(q) > 0 /\ Money!Newest(q) = n
<1>1. n \in Money!Readings
  <2>1. Total \in Nat
    BY MoneyConstants
  <2>2. n \in 0 .. 2 * Total
    BY <2>1
  <2> QED
    BY <2>2 DEF Money!Readings
<1> QED
  BY <1>1, SlideIs

\* The budget of the memory is settled.
LEMMA DecideMemIs ==
    ASSUME Money!BudgetAssumption, Money!BudgetInv, v9 = "decide", NEW hostHot \in BOOLEAN,
             NEW groupHot \in BOOLEAN,
           Money!DecideMem(hostHot, groupHot)
    PROVE  /\ v1 = "memory" /\ v6' \in Money!Margins /\ v7' \in Money!Margins /\ v5' \in Nat
           /\ Money!Settled(v6', Total, v8) /\ Money!Settled(v7', Part, v8)
           /\ ~v14.raced /\ v5' > 0 =>
                 /\ Len(v14.whole) > 0
                 /\ v5' + Money!Newest(v14.whole) + 2 * Money!LargestStep(v14.whole) <= Total
                 /\ Len(v14.part) > 0
                 /\ v5' + Money!Newest(v14.part) + 2 * Money!LargestStep(v14.part) <= Part
           /\ ~v14.raced => v14.whole = v6'.history /\ v14.part = v7'.history
<1> DEFINE kind == v1  owned == v4  cap == v5  whole == v6  group == v7  ticks == v8
           read == v10  past == v14
<1> DEFINE x == Money!Observe(whole, Money!OthersOf(read.used))  y ==
             Money!Observe(group, Money!OthersOf(read.part))
           p == Money!PercentOf(Total, Percent)  q == Money!PercentOf(Part, Percent)
           h == Money!Settle(x, hostHot, p, Total)  g == Money!Settle(y, groupHot, q, Part)
           j == Money!KeepFree(h, Money!FloorFor(Total), read.active)  k ==
             Money!KeepFree(g, Money!FloorFor(Part), 0)
<1>1. Money!TypeOK /\ Money!MarginsSettled /\ Money!Remembered /\ kind = "memory"
  BY DEF Money!BudgetInv, Money!DecideMem
<1>2. whole' = h /\ group' = g /\ cap' = Money!MemBudget(j, k)
  BY Zenon DEF Money!DecideMem
<1>3. /\ whole \in Money!Margins /\ group \in Money!Margins /\ read.used \in Money!Readings
      /\ read.part \in Money!Readings
      /\ ticks \in Nat /\ read.active \in Nat /\ Total \in Nat /\ Part \in Nat
      /\ Total \in {Part, Total} /\ Part \in {Part, Total}
  <2>1. read.part \in Money!Shares
    BY <1>1 DEF Money!TypeOK
  <2>2. read.part \in Money!Readings
    <3>1. Total \in Nat
      BY MoneyConstants
    <3> QED
      BY <2>1, <3>1 DEF Money!Shares, Money!Readings
  <2> QED
    BY <1>1, <2>2, MoneyConstants, MoneyNumbers DEF Money!TypeOK
<1>4. Money!Limit = Total /\ Money!Decided = ticks - 1
  BY <1>1 DEF Money!Limit, Money!Decided
<1>5. Money!Settled(whole, Total, ticks - 1) /\ Money!Settled(group, Part, ticks - 1)
  BY <1>1, <1>4 DEF Money!MarginsSettled
<1>6. Money!OthersOf(read.used) \in Money!Readings /\ Money!OthersOf(read.part) \in Money!Readings
  BY <1>1, <1>3, OthersOfIs
<1>7. /\ x \in Money!Margins /\ Money!Settled(x, Total, ticks - 1) /\ x.history
           = Money!Slide(whole.history, Money!OthersOf(read.used))
      /\ y \in Money!Margins /\ Money!Settled(y, Part, ticks - 1) /\ y.history
           = Money!Slide(group.history, Money!OthersOf(read.part))
  BY <1>3, <1>5, <1>6, ObserveIs
<1>8. p \in Nat /\ p >= Money!PercentOf(Total, Percent) /\ q \in Nat
      /\ q >= Money!PercentOf(Part, Percent)
  <2>1. p \in Nat /\ q \in Nat
    BY <1>3, PercentIs
  <2> QED
    BY <2>1
<1> HIDE DEF x, y, p, q
<1>9. h \in Money!Margins /\ Money!Settled(h, Total, ticks) /\ h.history = x.history
  BY <1>3, <1>7, <1>8, SettleIs
<1>10. g \in Money!Margins /\ Money!Settled(g, Part, ticks) /\ g.history = y.history
  BY <1>3, <1>7, <1>8, SettleIs
<1> HIDE DEF h, g
<1>11. /\ Money!LargestStep(h.history) \in Nat /\ j \in Nat
       /\ j >= 2 * Money!LargestStep(h.history)
       /\ Money!LargestStep(g.history) \in Nat /\ k \in Nat
       /\ k >= 2 * Money!LargestStep(g.history)
  <2>1. Money!FloorFor(Total) \in Nat /\ Money!FloorFor(Part) \in Nat
    BY <1>3, PercentIs
  <2> QED
    BY <1>3, <1>9, <1>10, <2>1, KeepFreeIs
<1> HIDE DEF j, k
<1>12. cap' \in Nat
  BY <1>1, <1>2, <1>11, MemBudgetIs
<1>13. ASSUME ~past.raced
       PROVE  /\ past.whole = h.history /\ past.part = g.history
              /\ cap' > 0 =>
                    /\ Len(past.whole) > 0
                    /\ cap' + Money!Newest(past.whole) + 2 * Money!LargestStep(past.whole)
                         <= Total
                    /\ Len(past.part) > 0
                    /\ cap' + Money!Newest(past.part) + 2 * Money!LargestStep(past.part) <= Part
  <2>1. PICK n \in 0 .. Total : past.whole = Money!Slide(whole.history, n) /\ read.used
               = owned + n
    BY <1>1, <1>13 DEF Money!Remembered
  <2>2. PICK o \in 0 .. Total : past.part = Money!Slide(group.history, o) /\ read.part = owned + o
    BY <1>1, <1>13 DEF Money!Remembered
  <2>3. n \in Nat /\ o \in Nat
    BY <1>3
  <2>4. Money!OthersOf(read.used) = n /\ Money!OthersOf(read.part) = o
    BY <1>1, <1>3, <2>1, <2>2, <2>3, OthersOfIs
  <2>5. past.whole = h.history /\ past.part = g.history
    BY <1>7, <1>9, <1>10, <2>1, <2>2, <2>4
  <2>6. whole.history \in Seq(Money!Readings) /\ group.history \in Seq(Money!Readings)
    BY <1>3, FieldsOf
  <2>7. Len(past.whole) > 0 /\ Money!Newest(past.whole) = n /\ Len(past.part) > 0
        /\ Money!Newest(past.part) = o
    BY <2>1, <2>2, <2>6, WholeFits
  <2> DEFINE c == cap'  l == Money!LargestStep(h.history)  e == Money!LargestStep(g.history)
  <2>8. c > 0 => c + n + j <= Total /\ c + o + k <= Part
    BY <1>1, <1>2, <1>11, <2>1, <2>2, <2>3, MemBudgetIs
  <2>9. c \in Nat /\ l \in Nat /\ e \in Nat /\ j \in Nat /\ k \in Nat /\ j >= 2 * l /\ k >= 2 * e
    BY <1>11, <1>12
  <2> HIDE DEF c, l, e
  <2>10. c > 0 => c + n + 2 * l <= Total /\ c + o + 2 * e <= Part
    BY <1>3, <2>3, <2>8, <2>9
  <2> QED
    BY <2>5, <2>7, <2>10 DEF c, l, e
<1> QED
  BY <1>1, <1>2, <1>9, <1>10, <1>12, <1>13

\* The budget of a disk is settled.
LEMMA DecideDiskIs ==
    ASSUME Money!BudgetAssumption, Money!BudgetInv, v9 = "decide", NEW real \in BOOLEAN,
             Money!DecideDisk(real)
    PROVE  /\ ~Money!OfMemory /\ v6' \in Money!Margins /\ v5' \in Nat
           /\ Money!Settled(v6', Money!Limit, v8)
           /\ ~v14.raced /\ v5' > 0 =>
                 Len(v14.whole) > 0
                 /\ v5' + Money!Newest(v14.whole) + 2 * Money!LargestStep(v14.whole)
                      <= Money!Limit
           /\ ~v14.raced => v14.whole = v6'.history
<1> DEFINE owned == v4  cap == v5  whole == v6  ticks == v8  read == v10  strain == v12
           past == v14
<1> DEFINE x == Money!Observe(whole, Money!OthersOf(read.used))
           p == Money!Max({Money!PercentOf(Money!Limit, Percent), Money!FloorFor(Money!Limit)})
           h == Money!Settle(x, strain.enospc, p, Money!Limit)
<1>1. Money!TypeOK /\ Money!MarginsSettled /\ Money!Remembered /\ ~Money!OfMemory
  BY DEF Money!BudgetInv, Money!DecideDisk
<1>2. whole' = h /\ cap' = Money!DiskBudget(h, real)
  BY Zenon DEF Money!DecideDisk, Money!Limit
<1>3. /\ whole \in Money!Margins /\ read.used \in Money!Readings /\ ticks \in Nat
      /\ Money!Limit \in Nat /\ Money!Limit \in {Part, Total}
      /\ strain.enospc \in BOOLEAN /\ Total \in Nat
  <2>1. Money!Limit \in Nat /\ Money!Limit \in {Part, Total}
    BY MoneyConstants DEF Money!Limit
  <2> QED
    BY <1>1, <2>1, MoneyConstants, MoneyNumbers DEF Money!TypeOK
<1>4. Money!Decided = ticks - 1
  BY DEF Money!Decided
<1>5. Money!Settled(whole, Money!Limit, ticks - 1)
  BY <1>1, <1>4 DEF Money!MarginsSettled
<1>6. Money!OthersOf(read.used) \in Money!Readings
  BY <1>1, <1>3, OthersOfIs
<1>7. x \in Money!Margins /\ Money!Settled(x, Money!Limit, ticks - 1) /\ x.history
        = Money!Slide(whole.history, Money!OthersOf(read.used))
  BY <1>3, <1>5, <1>6, ObserveIs
<1>8. p \in Nat /\ p >= Money!PercentOf(Money!Limit, Percent)
  <2>1. Money!PercentOf(Money!Limit, Percent) \in Nat /\ Money!FloorFor(Money!Limit) \in Nat
    BY <1>3, PercentIs
  <2> QED
    BY <2>1, MaxOfTwo
<1> HIDE DEF x, p
<1>9. h \in Money!Margins /\ Money!Settled(h, Money!Limit, ticks) /\ h.history = x.history
  BY <1>3, <1>7, <1>8, SettleIs
<1> HIDE DEF h
<1>10. /\ cap' \in Nat
       /\ \A n \in Nat : cap' > 0 /\ read.used = owned + n
            => cap' + n + 2 * Money!LargestStep(h.history) <= Money!Limit
  BY <1>1, <1>2, <1>9, DiskBudgetIs
<1>11. ASSUME ~past.raced
       PROVE  /\ past.whole = h.history
              /\ cap' > 0 =>
                    Len(past.whole) > 0
                    /\ cap' + Money!Newest(past.whole) + 2 * Money!LargestStep(past.whole)
                         <= Money!Limit
  <2>1. PICK n \in 0 .. Total : past.whole = Money!Slide(whole.history, n) /\ read.used
               = owned + n
    BY <1>1, <1>11 DEF Money!Remembered
  <2>2. n \in Nat
    BY <1>3
  <2>3. Money!OthersOf(read.used) = n
    BY <1>1, <1>3, <2>1, <2>2, OthersOfIs
  <2>4. past.whole = h.history
    BY <1>7, <1>9, <2>1, <2>3
  <2>5. whole.history \in Seq(Money!Readings)
    BY <1>3, FieldsOf
  <2>6. Len(past.whole) > 0 /\ Money!Newest(past.whole) = n
    BY <2>1, <2>5, WholeFits
  <2> QED
    BY <1>10, <2>1, <2>2, <2>4, <2>6
<1> QED
  BY <1>1, <1>2, <1>9, <1>10, <1>11

\* The budget of the memory is settled where there is no control group.
LEMMA DecideHostIs ==
    ASSUME Money!BudgetAssumption, Money!BudgetInv, v9 = "decide", NEW hostHot \in BOOLEAN,
             Money!DecideHost(hostHot)
    PROVE  /\ v1 = "host" /\ v6' \in Money!Margins /\ v5' \in Nat
           /\ Money!Settled(v6', Money!Limit, v8)
           /\ ~v14.raced /\ v5' > 0 =>
                 Len(v14.whole) > 0
                 /\ v5' + Money!Newest(v14.whole) + 2 * Money!LargestStep(v14.whole)
                      <= Money!Limit
           /\ ~v14.raced => v14.whole = v6'.history
<1> DEFINE kind == v1  owned == v4  cap == v5  whole == v6  ticks == v8  read == v10
           past == v14
<1> DEFINE x == Money!Observe(whole, Money!OthersOf(read.used))
           p == Money!PercentOf(Total, Percent)
           h == Money!Settle(x, hostHot, p, Total)
           k == Money!KeepFree(h, Money!FloorFor(Total), read.active)
           a == owned + Money!Headroom(Total, k, read.used)
<1>1. Money!TypeOK /\ Money!MarginsSettled /\ Money!Remembered /\ kind = "host"
  BY DEF Money!BudgetInv, Money!DecideHost
<1>2. whole' = h /\ cap' = Money!Over(a, 0)
  BY Zenon DEF Money!DecideHost
<1>3. /\ whole \in Money!Margins /\ read.used \in Money!Readings /\ read.used \in Nat
      /\ read.active \in Nat
      /\ ticks \in Nat /\ Money!Limit = Total /\ Total \in Nat /\ Total \in {Part, Total}
      /\ owned \in Nat
  <2>1. Money!Limit = Total
    BY <1>1 DEF Money!Limit
  <2>2. 2 * Total \in Nat /\ Total \in Nat
    BY MoneyConstants
  <2> QED
    BY <1>1, <2>1, <2>2, MoneyNumbers DEF Money!TypeOK, Money!Readings
<1>4. Money!Decided = ticks - 1
  BY DEF Money!Decided
<1>5. Money!Settled(whole, Total, ticks - 1)
  BY <1>1, <1>3, <1>4 DEF Money!MarginsSettled
<1>6. Money!OthersOf(read.used) \in Money!Readings
  BY <1>1, <1>3, OthersOfIs
<1>7. x \in Money!Margins /\ Money!Settled(x, Total, ticks - 1) /\ x.history
        = Money!Slide(whole.history, Money!OthersOf(read.used))
  BY <1>3, <1>5, <1>6, ObserveIs
<1>8. p \in Nat /\ p >= Money!PercentOf(Total, Percent) /\ Money!FloorFor(Total) \in Nat
  <2>1. p \in Nat /\ Money!FloorFor(Total) \in Nat
    BY <1>3, PercentIs
  <2> QED
    BY <2>1
<1> HIDE DEF x, p
<1>9. h \in Money!Margins /\ Money!Settled(h, Total, ticks) /\ h.history = x.history
  BY <1>3, <1>7, <1>8, SettleIs
<1> HIDE DEF h
<1> DEFINE l == Money!LargestStep(h.history)
<1>10. l \in Nat /\ k \in Nat /\ k >= 2 * l
  BY <1>3, <1>8, <1>9, KeepFreeIs
<1> HIDE DEF k, l
<1>11. /\ a \in Int
       /\ \A n \in Nat : read.used = owned + n /\ a > 0 => a + n + k <= Total
  BY <1>3, <1>10, RoomIs
<1> HIDE DEF a
<1>12. Money!Over(a, 0) = IF a >= 0 THEN a ELSE 0
  BY <1>11, OverIs
<1> DEFINE c == cap'
<1>13. c \in Nat /\ (c > 0 => c = a)
  BY <1>2, <1>11, <1>12
<1> HIDE DEF c
<1>14. ASSUME ~past.raced
       PROVE  /\ past.whole = h.history
              /\ c > 0 =>
                    Len(past.whole) > 0
                    /\ c + Money!Newest(past.whole) + 2 * Money!LargestStep(past.whole)
                         <= Money!Limit
  <2>1. PICK n \in 0 .. Total : past.whole = Money!Slide(whole.history, n) /\ read.used
               = owned + n
    BY <1>1, <1>14 DEF Money!Remembered
  <2>2. n \in Nat
    BY <1>3
  <2>3. Money!OthersOf(read.used) = n
    BY <1>1, <1>3, <2>1, <2>2, OthersOfIs
  <2>4. past.whole = h.history
    BY <1>7, <1>9, <2>1, <2>3
  <2>5. whole.history \in Seq(Money!Readings)
    BY <1>3, FieldsOf
  <2>6. Len(past.whole) > 0 /\ Money!Newest(past.whole) = n
    BY <2>1, <2>5, WholeFits
  <2>7. c > 0 => c + n + 2 * l <= Money!Limit
    BY <1>3, <1>10, <1>11, <1>13, <2>1, <2>2
  <2> QED
    BY <2>4, <2>6, <2>7 DEF l
<1> QED
  BY <1>1, <1>2, <1>3, <1>9, <1>13, <1>14 DEF c

\* What a round notes of the filesystem under a quota.
LEMMA GrownIs ==
    ASSUME Money!BudgetAssumption, Money!TypeOK, Money!Seen, v1 = "quota", v9 = "decide"
    PROVE  /\ Money!Max({Money!Used, 1}) \in Nat /\ Money!Max({Money!Used, 1}) # 0
           /\ Money!Grown(Money!Used) \in Nat
           /\ v2 + Money!Max({Money!Used, 1})
                <= v11.known + Money!Grown(Money!Used) + Money!Used + 1 + v14.hidden
<1> DEFINE others == v2  aside == v3  owned == v4  usage == v11  past == v14
<1> DEFINE u == Money!Used  f == usage.fs  g == usage.grown  k == usage.known  h ==
             past.hidden  m == Money!Max({u, 1})
<1>1. /\ u \in Nat /\ f \in Nat /\ g \in Nat /\ k \in Nat /\ h \in Nat /\ others \in Nat
      /\ others <= u
  <2>1. others \in Nat /\ aside \in Nat /\ owned \in Nat /\ Money!Used = others + aside + owned
    BY MoneyNumbers
  <2>2. others <= Money!Used
    BY <2>1
  <2> QED
    BY <2>2, MoneyNumbers
<1>2. /\ f = 0 => others <= k + g + h
      /\ f # 0 => others + f <= k + g + u + 1 + h
  BY DEF Money!Seen
<1>3. Money!Grown(u) = g + IF f # 0 THEN Money!Over(u, f) ELSE 0
  BY DEF Money!Grown
<1> HIDE DEF u, f, g, k, h
<1>4. m = IF u >= 1 THEN u ELSE 1
  BY <1>1, MaxOfTwo
<1>5. Money!Over(u, f) = IF u >= f THEN u - f ELSE 0
  BY <1>1, OverIs
<1> DEFINE w == Money!Grown(u)
<1>6. w = IF f # 0 THEN g + (IF u >= f THEN u - f ELSE 0) ELSE g
  BY <1>1, <1>3, <1>5
<1> HIDE DEF m, w
<1>7. m \in Nat /\ m # 0 /\ w \in Nat /\ others + m <= k + w + u + 1 + h
  BY <1>1, <1>2, <1>4, <1>6
<1> QED
  BY <1>7 DEF m, w, u, k, h

\* The thread settles the margin, and the capacity with it.
LEMMA DecideKeeps == ASSUME Money!BudgetAssumption, Money!BudgetInv, Money!Decide
PROVE Money!BudgetInv'
<1> DEFINE kind == v1  others == v2  aside == v3  owned == v4  cap == v5  whole == v6
           group == v7  ticks == v8  pc == v9  read == v10  usage == v11  strain == v12
           moves == v13  past == v14
<1>1. Money!TypeOK /\ Money!MarginsSettled /\ Money!Remembered /\ Money!CapFits /\ Money!Waits
      /\ Money!RefillWaits /\ Money!Seen
  BY DEF Money!BudgetInv
<1>2. PICK hostHot \in BOOLEAN, groupHot \in BOOLEAN, real \in BOOLEAN :
         /\ pc = "decide" /\ read' = Money!Unread
         /\ UNCHANGED <<kind, others, aside, owned, ticks, moves, past>>
         /\ Money!DecideMem(hostHot, groupHot) \/ Money!DecideHost(hostHot)
            \/ Money!DecideDisk(real)
         /\ pc' = IF Money!UnderPressure(hostHot, groupHot) THEN "short" ELSE "enforce"
  BY Zenon DEF Money!Decide
<1>3. pc' \in {"short", "enforce"} /\ Money!Limit' = Money!Limit /\ Money!Used' = Money!Used
  BY <1>2 DEF Money!Limit, Money!Used
<1>4. Money!Decided' = ticks /\ Money!Ended' = Money!Ended
  BY <1>2, <1>3 DEF Money!Decided, Money!Ended
<1>5. read' \in [used : Money!Readings, part : Money!Shares, active : Nat]
  <2>1. Total \in Nat
    BY MoneyConstants
  <2>2. 0 \in 0 .. 2 * Total /\ 0 \in 0 .. Total
    BY <2>1
  <2> QED
    BY <1>2, <2>2 DEF Money!Unread, Money!Readings, Money!Shares
<1> DEFINE Typed == whole' \in Money!Margins /\ group' \in Money!Margins /\ cap' \in Nat
           /\ usage' \in Money!Usages /\ strain' \in Money!Strains
           Fits == /\ ~past.raced /\ cap' > 0 =>
                         /\ Len(past.whole) > 0
                         /\ cap' + Money!Newest(past.whole) + 2 * Money!LargestStep(past.whole)
                              <= Money!Limit
                         /\ kind = "memory" =>
                               Len(past.part) > 0
                               /\ cap' + Money!Newest(past.part) + 2 * Money!LargestStep(past.part) <= Part
                   /\ ~past.raced => past.whole = whole'.history
                      /\ (kind = "memory" => past.part = group'.history)
           Even == Money!Settled(whole', Money!Limit, ticks)
           /\ Money!Settled(group', Part, ticks) /\ (kind # "memory" => group' = Money!Fresh)
           Notes == strain'.until = strain.until /\ (kind = "quota" => Money!Seen')
<1>6. ASSUME Money!DecideMem(hostHot, groupHot) PROVE Typed /\ Fits /\ Even /\ Notes
  <2>1. usage' = usage /\ strain' = strain /\ kind = "memory"
    BY <1>6 DEF Money!DecideMem
  <2>2. Money!Limit = Total
    BY <2>1 DEF Money!Limit
  <2>3. /\ whole' \in Money!Margins /\ group' \in Money!Margins /\ cap' \in Nat
        /\ Money!Settled(whole', Total, ticks) /\ Money!Settled(group', Part, ticks)
        /\ ~past.raced /\ cap' > 0 =>
              /\ Len(past.whole) > 0
              /\ cap' + Money!Newest(past.whole) + 2 * Money!LargestStep(past.whole) <= Total
              /\ Len(past.part) > 0
              /\ cap' + Money!Newest(past.part) + 2 * Money!LargestStep(past.part) <= Part
        /\ ~past.raced => past.whole = whole'.history /\ past.part = group'.history
    BY <1>2, <1>6, DecideMemIs
  <2>4. Typed
    BY <1>1, <2>1, <2>3 DEF Money!TypeOK
  <2>5. Fits
    BY <2>2, <2>3
  <2>6. Even
    BY <2>1, <2>2, <2>3
  <2> QED
    BY <2>1, <2>4, <2>5, <2>6
<1>7. ASSUME Money!DecideDisk(real) PROVE Typed /\ Fits /\ Even /\ Notes
  <2>0. ~Money!OfMemory
    BY <1>2, <1>7, DecideDiskIs
  <2>1. /\ kind # "memory" /\ whole' \in Money!Margins /\ cap' \in Nat
        /\ Money!Settled(whole', Money!Limit, ticks)
        /\ ~past.raced /\ cap' > 0 =>
              Len(past.whole) > 0
              /\ cap' + Money!Newest(past.whole) + 2 * Money!LargestStep(past.whole)
                   <= Money!Limit
        /\ ~past.raced => past.whole = whole'.history
    BY <1>2, <1>7, <2>0, DecideDiskIs DEF Money!OfMemory
  <2>2. /\ group' = group /\ strain'
             = [strain EXCEPT !.enospc = FALSE, !.seen = @ \/ strain.enospc]
        /\ usage' = IF kind = "disk" THEN usage
                    ELSE [usage EXCEPT !.fs = IF real THEN Money!Max({Money!Used, 1}) ELSE @,
                                       !.grown = IF real THEN Money!Grown(Money!Used) ELSE @,
                                       !.hurry = IF strain.enospc THEN ticks + Slow ELSE @]
    BY <1>7 DEF Money!DecideDisk
  <2>3. group = Money!Fresh /\ group \in Money!Margins
    BY <1>1, <2>1 DEF Money!MarginsSettled, Money!TypeOK
  <2>4. Money!Settled(group', Part, ticks)
    BY <2>2, <2>3, MoneyConstants, LeastIs DEF Money!Settled, Money!Fresh
  <2>5. strain' \in Money!Strains /\ strain'.until = strain.until
    <3> DEFINE z == strain.seen \/ strain.enospc
    <3>1. z \in BOOLEAN /\ strain \in Money!Strains
      BY <1>1 DEF Money!TypeOK
    <3>2. strain' = [strain EXCEPT !.enospc = FALSE, !.seen = z]
      BY Zenon, <2>2
    <3> HIDE DEF z
    <3> QED
      BY <3>1, <3>2 DEF Money!Strains
  <2>6. usage' \in Money!Usages /\ (kind = "quota" => Money!Seen')
    <3>1. CASE kind = "quota"
      <4> DEFINE m == Money!Max({Money!Used, 1})  w == Money!Grown(Money!Used)
                 y == IF strain.enospc THEN ticks + Slow ELSE usage.hurry
      <4>1. /\ m \in Nat /\ m # 0 /\ w \in Nat
            /\ others + m <= usage.known + w + Money!Used + 1 + past.hidden
        BY <1>1, <1>2, <3>1, GrownIs
      <4>2. y \in Nat /\ usage \in Money!Usages
        <5>1. Slow \in Nat /\ ticks \in Nat /\ usage.hurry \in Nat
          BY <1>1, MoneyConstants, MoneyNumbers
        <5> QED
          BY <1>1, <5>1 DEF Money!TypeOK
      <4>3. usage' = [usage EXCEPT !.fs = IF real THEN m ELSE @, !.grown = IF real THEN w
              ELSE @, !.hurry = y]
        BY Zenon, <2>2, <3>1
      <4> HIDE DEF m, w, y
      <4>4. CASE real
        <5>1. usage' \in Money!Usages /\ usage'.fs = m /\ usage'.grown = w /\ usage'.known
                = usage.known
          BY <4>1, <4>2, <4>3, <4>4 DEF Money!Usages
        <5>2. Money!Seen'
          BY <1>2, <1>3, <4>1, <5>1 DEF Money!Seen
        <5> QED
          BY <5>1, <5>2
      <4>5. CASE ~real
        <5>1. /\ usage' \in Money!Usages
              /\ usage'.fs = usage.fs /\ usage'.grown = usage.grown /\ usage'.known = usage.known
          BY <4>2, <4>3, <4>5 DEF Money!Usages
        <5>2. Money!Seen'
          BY <1>1, <1>2, <1>3, <5>1 DEF Money!Seen
        <5> QED
          BY <5>1, <5>2
      <4> QED
        BY <4>4, <4>5
    <3>2. CASE kind # "quota"
      <4>1. kind = "disk"
        BY <1>1, <2>0, <3>2 DEF Money!TypeOK, Money!OfMemory
      <4> QED
        BY <1>1, <2>2, <4>1 DEF Money!TypeOK
    <3> QED
      BY <3>1, <3>2
  <2>7. Typed
    BY <2>1, <2>2, <2>3, <2>5, <2>6
  <2>8. Fits
    BY <2>1
  <2>9. Even
    BY <2>1, <2>2, <2>3, <2>4
  <2> QED
    BY <2>5, <2>6, <2>7, <2>8, <2>9
<1>8. ASSUME Money!DecideHost(hostHot) PROVE Typed /\ Fits /\ Even /\ Notes
  <2>1. /\ kind = "host" /\ whole' \in Money!Margins /\ cap' \in Nat
        /\ Money!Settled(whole', Money!Limit, ticks)
        /\ ~past.raced /\ cap' > 0 =>
              Len(past.whole) > 0
              /\ cap' + Money!Newest(past.whole) + 2 * Money!LargestStep(past.whole)
                   <= Money!Limit
        /\ ~past.raced => past.whole = whole'.history
    BY <1>2, <1>8, DecideHostIs
  <2>2. group' = group /\ strain' = strain /\ usage' = usage
    BY <1>8 DEF Money!DecideHost
  <2>3. group = Money!Fresh /\ group \in Money!Margins
    BY <1>1, <2>1 DEF Money!MarginsSettled, Money!TypeOK
  <2>4. Money!Settled(group', Part, ticks)
    BY <2>2, <2>3, MoneyConstants, LeastIs DEF Money!Settled, Money!Fresh
  <2>5. Typed
    BY <1>1, <2>1, <2>2, <2>3 DEF Money!TypeOK
  <2>6. Fits
    BY <2>1
  <2>7. Even
    BY <2>1, <2>2, <2>3, <2>4
  <2> QED
    BY <2>1, <2>2, <2>5, <2>6, <2>7
<1>9. Typed /\ Fits /\ Even /\ Notes
  <2> HIDE DEF Typed, Fits, Even, Notes
  <2> QED
    BY Zenon, <1>2, <1>6, <1>7, <1>8
<1>10. Money!TypeOK'
  BY <1>1, <1>2, <1>3, <1>5, <1>9 DEF Money!TypeOK
<1>11. Money!MarginsSettled'
  BY <1>2, <1>3, <1>4, <1>9 DEF Money!MarginsSettled
<1>12. Money!Remembered' /\ Money!CapFits'
  BY <1>2, <1>3, <1>9 DEF Money!Remembered, Money!CapFits
<1>13. Money!Waits' /\ Money!RefillWaits'
  BY <1>1, <1>2, <1>4, <1>9 DEF Money!Waits, Money!RefillWaits
<1>14. Money!Seen'
  <2>1. kind # "quota" => Money!Seen'
    BY <1>2 DEF Money!Seen
  <2> QED
    BY <1>9, <2>1
<1> QED
  BY <1>10, <1>11, <1>12, <1>13, <1>14 DEF Money!BudgetInv

\* What the end of a round leaves the cache with.
LEMMA ShareIs ==
    ASSUME Money!BudgetAssumption, Money!TypeOK, NEW kept, kept = Money!Min({v4, v5}),
           NEW n \in {kept, Money!Max({kept, Money!Min({v5, v4 + Total - Money!Used})})}
    PROVE  /\ kept \in Nat /\ kept <= v4 /\ n \in Nat /\ n <= v5 /\ n >= kept /\ v2 + v3 + n
                <= Total
<1> DEFINE others == v2  aside == v3  owned == v4  cap == v5
<1> DEFINE room == owned + Total - Money!Used  x == Money!Min({cap, room})  y ==
             Money!Max({kept, x})
<1>1. /\ others \in Nat /\ aside \in Nat /\ owned \in Nat /\ cap \in Nat /\ Money!Used \in Nat
      /\ Total \in Nat
      /\ Money!Used = others + aside + owned /\ Money!Used <= Total
  BY MoneyNumbers
<1>2. kept = IF owned <= cap THEN owned ELSE cap
  BY <1>1, MinOfTwo
<1>3. room \in Nat /\ others + aside + room = Total
  BY <1>1
<1> HIDE DEF room
<1>4. x = IF cap <= room THEN cap ELSE room
  BY <1>1, <1>3, MinOfTwo
<1> HIDE DEF x
<1>5. kept \in Nat /\ x \in Nat /\ kept <= owned /\ kept <= cap /\ x <= cap /\ x <= room
  BY <1>1, <1>2, <1>3, <1>4
<1>6. y = IF kept >= x THEN kept ELSE x
  <2>1. kept \in Int /\ x \in Int
    BY <1>5
  <2>2. Money!Max({kept, x}) = IF kept >= x THEN kept ELSE x
    BY <2>1, MaxOfTwo
  <2> QED
    BY <2>2
<1>7. n = kept \/ n = y
  BY DEF y, x, room
<1> HIDE DEF y
<1> QED
  BY <1>1, <1>3, <1>5, <1>6, <1>7

\* What is over goes, and the ballast may grow.
LEMMA EnforceKeeps == ASSUME Money!BudgetAssumption, Money!BudgetInv, Money!Enforce
PROVE Money!BudgetInv'
<1> DEFINE kind == v1  others == v2  aside == v3  owned == v4  cap == v5  whole == v6
           group == v7  ticks == v8  pc == v9  read == v10  usage == v11  strain == v12
           moves == v13  past == v14
<1> DEFINE strained == pc = "short" \/ strain.seen
           until == IF strained THEN ticks + Pause ELSE strain.until
           kept == Money!Min({owned, cap})
<1>1. Money!TypeOK /\ Money!MarginsSettled /\ Money!Remembered /\ Money!CapFits /\ Money!Waits
      /\ Money!RefillWaits /\ Money!Seen
  BY DEF Money!BudgetInv
<1>2. /\ UNCHANGED <<kind, others, aside, cap, whole, group, ticks, read, usage, moves>>
      /\ pc \in {"short", "enforce"} /\ pc' = "home"
      /\ strain' = IF ticks = 0 THEN strain
           ELSE [strain EXCEPT !.until = until, !.seen = @ /\ pc = "short"]
  BY DEF Money!Enforce
<1>3. PICK n \in {kept}
             \cup (IF ticks > 0 /\ Money!MayFill(until)
               THEN {Money!Max({kept, Money!Min({cap, owned + Total - Money!Used})})} ELSE {}) :
         /\ owned' = n
         /\ past' = [past EXCEPT !.hidden = IF kind = "quota" THEN @ + owned - kept ELSE 0,
                                 !.strained = IF strained /\ ticks > 0 THEN ticks ELSE @,
                                 !.filled = IF n > kept THEN ticks ELSE @]
  BY Zenon DEF Money!Enforce
<1>4. /\ others \in Nat /\ aside \in Nat /\ owned \in Nat /\ cap \in Nat /\ Money!Used \in Nat
      /\ Total \in Nat
      /\ Money!Used = others + aside + owned /\ Money!Used <= Total /\ past.hidden \in Nat
      /\ ticks \in Nat
      /\ strain.until \in Nat /\ strain.seen \in BOOLEAN
  BY <1>1, MoneyNumbers
<1>5. Pause \in Nat /\ Pause > 0
  BY MoneyConstants
<1>6. /\ kept \in Nat /\ kept <= owned /\ n \in Nat /\ n <= cap /\ n >= kept
      /\ others + aside + n <= Total
  <2>1. n \in {kept, Money!Max({kept, Money!Min({cap, owned + Total - Money!Used})})}
    BY <1>3
  <2> QED
    BY <1>1, <2>1, ShareIs
<1>7. n > kept => ticks > 0 /\ ticks >= until
  <2>1. n = kept \/ (ticks > 0 /\ Money!MayFill(until))
    BY <1>3
  <2> QED
    BY <1>6, <2>1 DEF Money!MayFill
<1> HIDE DEF kept
<1>8. until \in Nat /\ strained \in BOOLEAN /\ (strained => until = ticks + Pause)
      /\ (~strained => until = strain.until)
  BY <1>4, <1>5
<1> HIDE DEF until, strained
<1> DEFINE h == IF kind = "quota" THEN past.hidden + owned - kept ELSE 0
           s == IF strained /\ ticks > 0 THEN ticks ELSE past.strained
           f == IF n > kept THEN ticks ELSE past.filled
<1>9. h \in Nat /\ s \in Money!Times /\ f \in Money!Times
      /\ (kind = "quota" => h = past.hidden + (owned - kept))
  <2>1. past.strained \in Money!Times /\ past.filled \in Money!Times /\ ticks \in Money!Times
    BY <1>1, <1>4 DEF Money!TypeOK, Money!Pasts, Money!Times
  <2>2. h \in Nat /\ (kind = "quota" => h = past.hidden + (owned - kept))
    BY <1>4, <1>6
  <2> QED
    BY <2>1, <2>2
<1>10. past' = [past EXCEPT !.hidden = h, !.strained = s, !.filled = f]
  BY Zenon, <1>3
<1> HIDE DEF h, s, f
<1>11. /\ past' \in Money!Pasts /\ past'.whole = past.whole /\ past'.part = past.part
       /\ past'.raced = past.raced
       /\ past'.strained = s /\ past'.filled = f /\ past'.hidden = h
  <2>1. past \in Money!Pasts
    BY <1>1 DEF Money!TypeOK
  <2> QED
    BY <1>9, <1>10, <2>1 DEF Money!Pasts
<1>12. strain' \in Money!Strains /\ strain'.until = IF ticks = 0 THEN strain.until ELSE until
  <2> DEFINE z == strain.seen /\ pc = "short"
  <2>1. z \in BOOLEAN /\ strain \in Money!Strains
    BY <1>1, <1>4 DEF Money!TypeOK
  <2>2. strain' = IF ticks = 0 THEN strain ELSE [strain EXCEPT !.until = until, !.seen = z]
    BY Zenon, <1>2
  <2> HIDE DEF z
  <2> QED
    BY <1>8, <2>1, <2>2 DEF Money!Strains
<1>13. Money!Decided' = Money!Decided /\ Money!Ended' = ticks /\ Money!Ended = ticks - 1
       /\ Money!Limit' = Money!Limit
  BY <1>2 DEF Money!Decided, Money!Ended, Money!Limit
<1>14. Money!Used' = others + aside + n /\ owned' = n
  BY <1>2, <1>3 DEF Money!Used
<1>15. Money!TypeOK'
  BY <1>1, <1>2, <1>6, <1>11, <1>12, <1>14 DEF Money!TypeOK
<1>16. Money!MarginsSettled'
  BY <1>1, <1>2, <1>13 DEF Money!MarginsSettled, Money!Settled
<1>17. Money!Remembered'
  BY <1>1, <1>2, <1>11 DEF Money!Remembered
<1>18. Money!CapFits'
  BY <1>1, <1>2, <1>6, <1>11, <1>13, <1>14 DEF Money!CapFits
<1>19. /\ s = past.strained \/ (s = ticks /\ strained /\ ticks > 0)
       /\ f = past.filled \/ (f = ticks /\ n > kept)
  BY DEF s, f
<1>20. /\ past.strained # None => past.strained \in Nat
       /\ past.filled # None => past.filled \in Nat
  BY <1>1 DEF Money!TypeOK, Money!Pasts, Money!Times
<1>21. /\ past.strained # None => strain.until >= past.strained + Pause /\ past.strained
            <= ticks - 1
       /\ past.filled # None => past.filled <= ticks - 1
       /\ past.strained # None /\ past.filled # None =>
             past.filled < past.strained \/ past.filled >= past.strained + Pause
  BY <1>1, <1>13 DEF Money!Waits, Money!RefillWaits
<1>22. Money!Waits'
  <2> DEFINE u == strain'.until
  <2>1. u = IF ticks = 0 THEN strain.until ELSE until
    BY <1>12
  <2> HIDE DEF u
  <2>2. s # None => u >= s + Pause /\ s <= ticks
    BY <1>4, <1>5, <1>8, <1>19, <1>20, <1>21, <2>1
  <2>3. f # None => f <= ticks
    BY <1>4, <1>19, <1>20, <1>21
  <2> QED
    BY <1>11, <1>13, <2>2, <2>3 DEF Money!Waits, u
<1>23. Money!RefillWaits'
  <2>1. CASE f = past.filled
    <3>1. s # None /\ f # None => f < s \/ f >= s + Pause
      BY <1>4, <1>19, <1>20, <1>21, <2>1
    <3> QED
      BY <1>11, <3>1 DEF Money!RefillWaits
  <2>2. CASE f = ticks /\ n > kept
    <3>1. ~strained
      BY <1>4, <1>5, <1>7, <1>8, <2>2
    <3>2. s # None => f >= s + Pause
      BY <1>4, <1>5, <1>7, <1>8, <1>19, <1>20, <1>21, <2>2, <3>1
    <3> QED
      BY <1>11, <3>2 DEF Money!RefillWaits
  <2> QED
    BY <1>19, <2>1, <2>2
<1>24. Money!Seen'
  <2>1. pc \notin {"walk", "walked"} /\ pc' \notin {"walk", "walked"} /\ kind' = kind /\ usage'
          = usage
    BY <1>2
  <2>2. kind = "quota" =>
             /\ pc = "walked" \/ usage.fs = 0 => others' + past.hidden <= others + past'.hidden
             /\ others' + Money!Used + past.hidden <= others + Money!Used' + past'.hidden
    <3> DEFINE x == others'  b == Money!Used'  d == past'.hidden
    <3>1. x = others /\ b = others + aside + n /\ d = h
      BY <1>2, <1>11, <1>14
    <3> HIDE DEF x, b, d
    <3>2. kind = "quota" =>
             /\ pc = "walked" \/ usage.fs = 0 => x + past.hidden <= others + d
             /\ x + Money!Used + past.hidden <= others + b + d
      BY <1>4, <1>6, <1>9, <3>1
    <3> QED
      BY <3>2 DEF x, b, d
  <2> QED
    BY <1>15, <2>1, <2>2, SeenSteps
<1> QED
  BY <1>15, <1>16, <1>17, <1>18, <1>22, <1>23, <1>24 DEF Money!BudgetInv

\* At the start nothing was measured.
LEMMA BudgetStarts == ASSUME Money!BudgetAssumption, Money!Init PROVE Money!BudgetInv
<1> DEFINE kind == v1  others == v2  aside == v3  owned == v4  cap == v5  whole == v6
           group == v7  ticks == v8  pc == v9  read == v10  usage == v11  strain == v12
           moves == v13  past == v14
<1>1. Total \in Nat /\ Total >= 2 /\ Escalate \in Nat /\ 2 * Total \in Nat
  <2>1. Total \in Nat /\ Part \in Nat /\ Part >= 2 /\ Part <= Total /\ Escalate \in Nat
    BY MoneyConstants
  <2> QED
    BY <2>1
<1>2. /\ kind \in {"memory", "host", "disk", "quota"} /\ others = 1 /\ aside = 0
      /\ owned \in 0 .. 1 /\ cap = 0
      /\ whole = Money!Fresh /\ group = Money!Fresh /\ ticks = 0 /\ pc \in {"walk", "take"}
      /\ (kind = "quota" => pc = "walk")
      /\ read = Money!Unread /\ usage
           = [known |-> 0, fs |-> 0, grown |-> 0, at |-> 0, hurry |-> 0]
      /\ strain = [enospc |-> FALSE, seen |-> FALSE, until |-> 0] /\ moves = 0
      /\ past = [whole |-> <<>>, part |-> <<>>, hidden |-> 0, raced |-> FALSE,
           strained |-> None, filled |-> None]
  BY DEF Money!Init
<1>3. Money!Fresh \in Money!Margins
  <2>1. <<>> \in Seq(Money!Readings) /\ Escalate \in Money!Rounds /\ None \in Money!Times
        /\ {} \in SUBSET Nat
    BY <1>1 DEF Money!Rounds, Money!Times
  <2> QED
    BY <2>1 DEF Money!Fresh, Money!Margins
<1>4. Money!TypeOK
  <2>1. Money!Used <= Total /\ owned \in Nat
    BY <1>1, <1>2 DEF Money!Used
  <2>2. 0 \in Money!Readings /\ 0 \in Money!Shares
    BY <1>1 DEF Money!Readings, Money!Shares
  <2>3. read \in [used : Money!Readings, part : Money!Shares, active : Nat]
        /\ usage \in Money!Usages /\ strain \in Money!Strains
    BY <1>2, <2>2 DEF Money!Unread, Money!Usages, Money!Strains
  <2>4. past \in Money!Pasts
    <3>1. <<>> \in Seq(Money!Shares) /\ None \in Money!Times
      BY DEF Money!Times
    <3> QED
      BY <1>2, <3>1 DEF Money!Pasts
  <2> QED
    BY <1>2, <1>3, <2>1, <2>3, <2>4 DEF Money!TypeOK
<1>5. Money!MarginsSettled
  <2>1. \A t, d : Money!Settled(Money!Fresh, t, d)
    BY <1>1 DEF Money!Settled, Money!Fresh
  <2> QED
    BY <1>2, <2>1 DEF Money!MarginsSettled
<1>6. Money!Remembered /\ Money!CapFits
  BY <1>2 DEF Money!Remembered, Money!CapFits, Money!Fresh
<1>7. Money!Waits /\ Money!RefillWaits
  BY <1>2 DEF Money!Waits, Money!RefillWaits
<1>8. Money!Seen
  BY <1>2 DEF Money!Seen
<1> QED
  BY <1>4, <1>5, <1>6, <1>7, <1>8 DEF Money!BudgetInv

LEMMA BudgetKept == ASSUME Money!BudgetAssumption, Money!BudgetInv, [Money!Next]_(Money!vars)
PROVE Money!BudgetInv'
<1> DEFINE kind == v1  others == v2  aside == v3  owned == v4  cap == v5  whole == v6
           group == v7  ticks == v8  pc == v9  read == v10  usage == v11  strain == v12
           moves == v13  past == v14
<1>1. CASE Money!Next
  BY <1>1, OthersKeep, StoreKeeps, RemoveKeeps, TickKeeps, WalkKeeps, WalkedKeeps, TakeKeeps,
     DecideKeeps,
     EnforceKeeps DEF Money!Next
<1>2. CASE UNCHANGED Money!vars
  <2>1. /\ UNCHANGED <<kind, others, aside, owned, cap, whole, group, ticks, pc, read, usage,
             strain, moves, past>>
    BY <1>2 DEF Money!vars
  <2>2. Money!TypeOK /\ Money!MarginsSettled /\ Money!Remembered /\ Money!CapFits /\ Money!Waits
        /\ Money!RefillWaits /\ Money!Seen
    BY DEF Money!BudgetInv
  <2>3. Money!Decided' = Money!Decided /\ Money!Ended' = Money!Ended /\ Money!Limit'
          = Money!Limit /\ Money!Used' = Money!Used
    BY <2>1 DEF Money!Decided, Money!Ended, Money!Limit, Money!Used
  <2>4. Money!TypeOK' /\ Money!MarginsSettled'
    BY <2>1, <2>2, <2>3 DEF Money!TypeOK, Money!MarginsSettled, Money!Settled
  <2>5. Money!Remembered' /\ Money!CapFits' /\ Money!Waits' /\ Money!RefillWaits'
    BY <2>1, <2>2, <2>3 DEF Money!Remembered, Money!CapFits, Money!Waits, Money!RefillWaits
  <2>6. Money!Seen'
    BY <2>1, <2>2, <2>3 DEF Money!Seen
  <2> QED
    BY <2>4, <2>5, <2>6, <2>2 DEF Money!BudgetInv, Money!RefillWaits
<1> QED
  BY <1>1, <1>2

\* What the invariant promises.
LEMMA GivesWay == ASSUME Money!BudgetAssumption, Money!BudgetInv PROVE Money!CacheGivesWay
<1> DEFINE kind == v1  others == v2  aside == v3  owned == v4  cap == v5  pc == v9
           past == v14
<1>1. Money!TypeOK /\ Money!CapFits
  BY DEF Money!BudgetInv
<1>2. /\ others \in Nat /\ aside \in Nat /\ owned \in Nat /\ cap \in Nat /\ Money!Used
           = others + aside + owned
      /\ Total \in Nat /\ Part \in Nat
  BY <1>1, MoneyNumbers, MoneyConstants
<1>3. past.whole \in Seq(Money!Shares) /\ past.part \in Seq(Money!Shares)
  BY <1>1 DEF Money!TypeOK, Money!Pasts
<1>4. ASSUME NEW s \in Seq(Money!Shares) PROVE Money!LargestStep(s) \in Nat
             /\ (Len(s) > 0 => Money!Newest(s) \in Nat)
  <2>1. s \in Seq(0 .. Total)
    BY <1>4 DEF Money!Shares
  <2>2. Money!LargestStep(s) \in 0 .. Total
    BY <1>2, <2>1, StepIs
  <2>3. Len(s) > 0 => s[Len(s)] \in Nat
    <3>1. Len(s) \in Nat
      BY <2>1
    <3>2. Len(s) > 0 => Len(s) \in 1 .. Len(s)
      BY <3>1
    <3>3. Len(s) > 0 => s[Len(s)] \in 0 .. Total
      BY <2>1, <3>2, ElementOfSeq
    <3> QED
      BY <1>2, <3>3
  <2> QED
    BY <1>2, <2>2, <2>3 DEF Money!Newest
<1> DEFINE w == Money!Newest(past.whole)  l == Money!LargestStep(past.whole)  p ==
             Money!Newest(past.part)  k == Money!LargestStep(past.part)
<1> SUFFICES ASSUME pc = "home", ~past.raced, owned > 0
    PROVE  /\ kind = "memory" /\ aside - p <= 2 * k => aside + owned <= Part
           /\ kind = "quota" /\ others - w <= 2 * l => others + owned <= Part
           /\ kind # "quota" => owned + w + 2 * l <= Total
  BY DEF Money!CacheGivesWay, Money!Steady
<1>5. owned <= cap /\ cap > 0
  BY <1>1, <1>2 DEF Money!CapFits
<1>6. /\ Len(past.whole) > 0 /\ cap + w + 2 * l <= Money!Limit
      /\ kind = "memory" => Len(past.part) > 0 /\ cap + p + 2 * k <= Part
  BY <1>1, <1>5 DEF Money!CapFits
<1>7. l \in Nat /\ w \in Nat /\ k \in Nat /\ (kind = "memory" => p \in Nat)
  BY <1>3, <1>4, <1>6
<1>8. Money!Limit = IF kind = "quota" THEN Part ELSE Total
  BY DEF Money!Limit
<1> HIDE DEF w, l, p, k
<1>9. kind = "memory" /\ aside - p <= 2 * k => aside + owned <= Part
  BY <1>2, <1>5, <1>6, <1>7
<1>10. kind = "quota" /\ others - w <= 2 * l => others + owned <= Part
  BY <1>2, <1>5, <1>6, <1>7, <1>8
<1>11. kind # "quota" => owned + w + 2 * l <= Total
  BY <1>2, <1>5, <1>6, <1>7, <1>8
<1> QED
  BY <1>9, <1>10, <1>11

LEMMA MarginsStay == ASSUME Money!BudgetAssumption, Money!BudgetInv PROVE Money!BackedOff
    /\ Money!RaisesSpaced
<1> DEFINE whole == v6  group == v7  ticks == v8
<1>1. Money!TypeOK /\ Money!MarginsSettled
  BY DEF Money!BudgetInv
<1>2. ticks \in Nat /\ Decay \in Nat /\ whole \in Money!Margins /\ group \in Money!Margins
  BY <1>1, MoneyConstants DEF Money!TypeOK
<1>3. Money!Decided <= ticks /\ Money!Decided \in Int
  BY <1>2 DEF Money!Decided
<1>4. Money!Settled(whole, Money!Limit, Money!Decided)
      /\ Money!Settled(group, Part, Money!Decided)
  BY <1>1 DEF Money!MarginsSettled
<1>5. ASSUME NEW m \in Money!Margins, NEW t, Money!Settled(m, t, Money!Decided), m.hot # None,
               ticks - m.hot < Decay
      PROVE  m.backoff >= Money!Least(t)
  <2>1. m.hot \in Nat /\ m.calm \in Nat
    BY <1>5, FieldsOf
  <2>2. \/ m.backoff >= Money!Least(t)
        \/ m.hot + Decay <= Money!Decided
    BY <1>5 DEF Money!Settled
  <2> QED
    BY <1>2, <1>3, <1>5, <2>1, <2>2
<1>6. Money!BackedOff
  BY <1>2, <1>4, <1>5 DEF Money!BackedOff, Money!Limit, Money!Least
<1>7. Money!RaisesSpaced
  BY <1>4 DEF Money!RaisesSpaced, Money!Settled
<1> QED
  BY <1>6, <1>7

LEMMA GrowthSeen == ASSUME Money!BudgetAssumption, Money!BudgetInv PROVE Money!GrowthIsSeen
<1> DEFINE kind == v1  others == v2  pc == v9  usage == v11  past == v14
<1>1. Money!TypeOK /\ Money!Seen
  BY DEF Money!BudgetInv
<1> DEFINE u == Money!Used  f == usage.fs  g == usage.grown  k == usage.known  h == past.hidden
<1>2. u \in Nat /\ f \in Nat /\ g \in Nat /\ k \in Nat /\ h \in Nat /\ others \in Nat
  BY <1>1, MoneyNumbers
<1>3. kind = "quota" /\ pc \notin {"walk", "walked"} /\ f # 0 => others + f <= k + g + u + 1 + h
  BY <1>1 DEF Money!Seen
<1> DEFINE o == Money!Over(u, f)
<1>4. o = IF u >= f THEN u - f ELSE 0
  BY <1>2, OverIs
<1> HIDE DEF u, f, g, k, h, o
<1>5. kind = "quota" /\ pc \notin {"walk", "walked"} /\ f # 0 => others <= k + g + o + 1 + h
  BY <1>2, <1>3, <1>4
<1> QED
  BY <1>5 DEF Money!GrowthIsSeen, u, f, g, k, h, o

LEMMA MoneyInductive == Spec => []MoneyInv
<1>1. Init => MoneyInv
  BY MoneyAssumption, BudgetStarts DEF Init, MoneyInv
<1>2. MoneyInv /\ [Next]_vars => MoneyInv'
  <2> SUFFICES ASSUME MoneyInv, [Next]_vars, part' = "budget" PROVE Money!BudgetInv'
    BY DEF MoneyInv
  <2>1. part = "budget"
    BY SamePart
  <2>2. [Money!Next]_(Money!vars)
    BY <2>1
       DEF Next, MemStep, FiltersStep, DoorStep, ShotsStep, AnswersStep, RowStep, MoneyStep,
           PoolStep, ResolverStep, DnsStep, RaceStep, PolicyStep, RelayStep, vars, Money!vars
  <2>3. Money!BudgetInv
    BY <2>1 DEF MoneyInv
  <2> QED
    BY MoneyAssumption, <2>2, <2>3, BudgetKept
<1> QED
  BY <1>1, <1>2, PTL DEF Spec

\* The cache leaves free what others have shown to need, or gives all it had; it stays away for a while
\* after a shortage, raises its margin once in a while only, fills nothing again too early, and sees
\* what is written under its quota, whoever stores, removes or writes meanwhile (probe_tick, Margin).
THEOREM BudgetAlwaysHolds == Spec => []BudgetHolds
<1>1. MoneyInv /\ part = "budget" =>
        Money!CacheGivesWay /\ Money!BackedOff /\ Money!RaisesSpaced /\ Money!RefillWaits
        /\ Money!GrowthIsSeen
  BY MoneyAssumption, GivesWay, MarginsStay, GrowthSeen DEF MoneyInv, Money!BudgetInv
<1>2. MoneyInv => BudgetHolds
  BY <1>1 DEF BudgetHolds
<1> QED
  BY <1>2, MoneyInductive, PTL

=============================================================================
