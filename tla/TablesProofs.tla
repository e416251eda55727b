---------------------------- MODULE TablesProofs ----------------------------
(***************************************************************************)
(* Theorems about the parts of MCTables: what is proved of a component     *)
(* holds of the behaviours that are one of it, and the others leave its    *)
(* properties alone.                                                       *)
(***************************************************************************)
EXTENDS MCTables, FiniteSetTheorems, SequenceTheorems, TLAPS

FiltersInv == part = "filters" => Filters!FiltersInv
DoorInv == part = "door" => Door!DoorInv
ShotsInv == part = "shots" => Shots!BurstsInv
AnswersInv == part = "answers" => Answers!FreshnessInv
RowInv == part = "row" => Row!RowInv
ResolverInv == part = "resolver" => Resolver!ResolverInv
PoolInv == part = "pool" => Pool!PoolInv
DnsInv == part = "names" => Dns!DnsInv
RaceInv == part = "race" => Race!RaceInv
PolicyInv == part = "policy" => Policy!PolicyInv
RelayInv == part = "tunnel" => Relay!TunnelInv

-----------------------------------------------------------------------------
\* No step goes from one part to another.
LEMMA SamePart == [Next]_vars => part' = part
BY DEF Next, MemStep, FiltersStep, DoorStep, ShotsStep, AnswersStep, RowStep, MoneyStep,
   PoolStep,
       ResolverStep, DnsStep, RaceStep, PolicyStep, RelayStep, vars

-----------------------------------------------------------------------------
\* The filters of keys that are not stored.
LEMMA FiltersStarts == Filters!NotStoredAssumption /\ Filters!Init => Filters!FiltersInv
BY DEF Filters!NotStoredAssumption, Filters!Init, Filters!FiltersInv, Filters!FiltersTypes,
   Filters!Counts, Filters!Full, Filters!Other, Filters!TurnIsDue, Filters!Idle

LEMMA FiltersKept ==
    ASSUME Filters!NotStoredAssumption, Filters!FiltersInv, [Filters!Next]_(Filters!vars)
    PROVE Filters!FiltersInv'
<1> DEFINE filters == v1  current == v2  rotate_at == v3  inserted == v4  holder == v5
           now == v6  op == v7  since == v8
<1>0. Period \in Nat /\ Period > 0 /\ None \notin Threads /\ None \notin Nat
  BY DEF Filters!NotStoredAssumption
<1> USE DEF Filters!FiltersInv, Filters!FiltersTypes, Filters!Counts, Filters!Full,
      Filters!Other, Filters!TurnIsDue
<1>1. ASSUME NEW t \in Threads, Filters!Contains(t) PROVE Filters!FiltersInv'
  <2>1. /\ op[t].pc = "idle" /\ rotate_at # 0 /\ now >= rotate_at
        /\ op' = [op EXCEPT ![t] = [pc |-> "rotate", key |-> None, now |-> now, adds |-> FALSE]]
        /\ UNCHANGED <<filters, current, rotate_at, inserted, holder, now, since>>
    BY <1>1 DEF Filters!Contains
  <2>2. op[t].pc # "switch" /\ \A u \in Threads \ {t} : op'[u] = op[u]
    BY <2>1
  <2> QED
    BY <2>1, <2>2
<1>2. ASSUME NEW t \in Threads, NEW k \in FewKeys, Filters!Remember(t, k)
      PROVE Filters!FiltersInv'
  BY <1>2 DEF Filters!Remember
<1>3. ASSUME NEW t \in Threads, Filters!LockToRotate(t) PROVE Filters!FiltersInv'
  <2>2. CASE rotate_at # 0 /\ op[t].now >= rotate_at
    BY <1>0, <1>3, <2>2 DEF Filters!LockToRotate, Filters!Go
  <2>3. CASE ~ (rotate_at # 0 /\ op[t].now >= rotate_at)
    <3>1. op' = [op EXCEPT ![t] = [pc |-> "idle", key |-> None, now |-> 0, adds |-> FALSE]]
          /\ holder' = holder
      BY <1>3, <2>3 DEF Filters!LockToRotate, Filters!Done, Filters!Idle
    <3> QED
      BY <1>0, <1>3, <3>1 DEF Filters!LockToRotate
  <2> QED
    BY <2>2, <2>3
<1>4. ASSUME NEW t \in Threads, Filters!LockToRemember(t) PROVE Filters!FiltersInv'
  BY <1>0, <1>4 DEF Filters!LockToRemember, Filters!Go
<1>5. ASSUME NEW t \in Threads, Filters!Clear(t) PROVE Filters!FiltersInv'
  BY <1>0, <1>5 DEF Filters!Clear, Filters!Go
<1>6. ASSUME NEW t \in Threads, Filters!Switch(t) PROVE Filters!FiltersInv'
  <2>1. /\ op[t].pc = "switch" /\ holder = t /\ current' = 1 - current /\ inserted' = 0
        /\ rotate_at' = IF inserted = 0 THEN 0 ELSE op[t].now + Period
        /\ UNCHANGED <<filters, now, since>>
    BY <1>6 DEF Filters!Switch
  <2>2. filters[1 - current] = {} /\ rotate_at # 0 /\ Filters!TurnIsDue(t) /\ op[t].now \in Nat
    BY <2>1
  <2>3. current' \in 0 .. 1 /\ 1 - current' = current
    <3>1. current = 0 \/ current = 1
      OBVIOUS
    <3> QED
      BY <2>1, <3>1
  <2>4. rotate_at' \in Nat /\ (rotate_at' = 0 <=> inserted = 0)
        /\ (inserted # 0 => rotate_at' = op[t].now + Period)
    BY <1>0, <2>1, <2>2
  <2>5. /\ inserted' = 0 <=> filters'[current'] = {}
        /\ rotate_at' = 0 <=> ~Filters!Full'
    BY <2>1, <2>2, <2>3, <2>4
  <2>6. ASSUME NEW k \in FewKeys, Filters!Counts(k)'
        PROVE  k \in filters'[1 - current'] /\ since'[k] + Period <= rotate_at'
    <3>1. since[k] \in Nat /\ since[k] # None /\ now < since[k] + Period
      BY <2>1, <2>6
    <3>2. k \in filters[current] /\ since[k] < rotate_at
      BY <2>2, <3>1
    <3>3. op[t].now >= rotate_at
      BY <2>2, <3>1
    <3>4. inserted # 0
      BY <3>2
    <3> QED
      BY <1>0, <2>1, <2>2, <2>3, <2>4, <3>1, <3>2, <3>3, <3>4
  <2>7. CASE op[t].adds
    <3>1. op' = [op EXCEPT ![t].pc = "add"] /\ holder' = holder /\ op[t].key \in FewKeys
      BY <1>6, <2>7 DEF Filters!Switch, Filters!Go
    <3>2. /\ \A u \in Threads \ {t} : op'[u] = op[u] /\ op[u].pc \notin {"clear", "switch", "add"}
          /\ op'[t].pc = "add" /\ op'[t].key = op[t].key /\ op'[t].now = op[t].now
      BY <2>1, <3>1
    <3>3. Filters!FiltersTypes'
      BY <2>1, <2>3, <2>4, <3>1
    <3>4. rotate_at' = 0 \/ op'[t].now < rotate_at'
      BY <1>0, <2>2, <2>4, <3>2
    <3> QED
      BY <2>1, <2>5, <2>6, <3>1, <3>2, <3>3, <3>4
  <2>8. CASE ~ op[t].adds
    <3>1. op' = [op EXCEPT ![t] = [pc |-> "idle", key |-> None, now |-> 0, adds |-> FALSE]]
          /\ holder' = None
      BY <1>6, <2>8 DEF Filters!Switch, Filters!Done, Filters!Idle
    <3> QED
      BY <1>0, <2>1, <2>2, <2>3, <2>4, <2>5, <2>6, <3>1
  <2> QED
    BY <2>7, <2>8
<1>7. ASSUME NEW t \in Threads, Filters!Add(t) PROVE Filters!FiltersInv'
  BY <1>0, <1>7 DEF Filters!Add, Filters!Done, Filters!Idle, Filters!Brings
<1>8. CASE Filters!Tick
  BY <1>0, <1>8 DEF Filters!Tick
<1>9. CASE UNCHANGED Filters!vars
  BY <1>9 DEF Filters!vars
<1> QED
  BY <1>1, <1>2, <1>3, <1>4, <1>5, <1>6, <1>7, <1>8, <1>9 DEF Filters!Next

LEMMA FiltersPromise ==
    ASSUME Filters!NotStoredAssumption, Filters!FiltersInv PROVE Filters!ClockRunsWhileFull
           /\ Filters!KnownForAPeriod
BY DEF Filters!NotStoredAssumption, Filters!FiltersInv, Filters!FiltersTypes, Filters!Counts,
   Filters!Full, Filters!Other, Filters!ClockRunsWhileFull, Filters!KnownForAPeriod,
   Filters!Known

LEMMA FiltersInductive == Spec => []FiltersInv
<1>1. Init => FiltersInv
  BY FiltersAssumption, FiltersStarts DEF Init, FiltersInv
<1>2. FiltersInv /\ [Next]_vars => FiltersInv'
  <2> SUFFICES ASSUME FiltersInv, [Next]_vars, part' = "filters" PROVE Filters!FiltersInv'
    BY DEF FiltersInv
  <2>1. part = "filters"
    BY SamePart
  <2>2. [Filters!Next]_(Filters!vars)
    BY <2>1
       DEF Next, MemStep, FiltersStep, DoorStep, ShotsStep, AnswersStep, RowStep, MoneyStep,
           PoolStep, ResolverStep, DnsStep, RaceStep, PolicyStep, RelayStep, vars, Filters!vars
  <2>3. Filters!FiltersInv
    BY <2>1 DEF FiltersInv
  <2> QED
    BY FiltersAssumption, <2>2, <2>3, FiltersKept
<1> QED
  BY <1>1, <1>2, PTL DEF Spec

-----------------------------------------------------------------------------
\* The doorkeeper.
LEMMA DoorStarts == Door!DoorkeeperAssumption /\ Door!Init => Door!DoorInv
BY DEF Door!DoorkeeperAssumption, Door!Init, Door!DoorInv

LEMMA DoorKept ==
    ASSUME Door!DoorkeeperAssumption, Door!DoorInv, [Door!Next]_(Door!vars) PROVE Door!DoorInv'
<1> DEFINE door == v1  after == v2
<1>0. RotateAfter \in Nat /\ RotateAfter > 0 /\ None \notin Nat
  BY DEF Door!DoorkeeperAssumption
<1>1. ASSUME NEW k \in Keys, Door!Seen(k) PROVE Door!DoorInv'
  <2>1. /\ k \notin door.current /\ k \notin door.previous
        /\ door \in [current : SUBSET Keys, previous : SUBSET Keys, inserted : Nat]
    BY <1>1 DEF Door!Seen, Door!SeenBefore, Door!DoorInv
  <2>2. PICK ks \in Door!Brings(k) :
           door' = IF door.inserted + 1 >= RotateAfter
                   THEN [current |-> {}, previous |-> door.current \cup ks, inserted |-> 0]
                   ELSE [door EXCEPT !.current = @ \cup ks, !.inserted = @ + 1]
    BY <1>1, Zenon DEF Door!Seen
  <2>3. k \in ks /\ ks \subseteq Keys
    BY <2>2 DEF Door!Brings
  <2>4. /\ after' \in [Keys -> Nat \cup {None}] /\ after'[k] = 0
        /\ \A x \in Keys : x # k /\ after'[x] # None =>
              after[x] # None /\ after'[x] = after[x] + 1 /\ after'[x] <= RotateAfter - 1
    BY <1>0, <1>1 DEF Door!Seen, Door!Met, Door!DoorInv
  <2>5. CASE door.inserted + 1 >= RotateAfter
    <3>1. door' = [current |-> {}, previous |-> door.current \cup ks, inserted |-> 0]
      BY <2>2, <2>5
    <3> QED
      BY <1>0, <2>1, <2>3, <2>4, <2>5, <3>1 DEF Door!DoorInv
  <2>6. CASE ~ (door.inserted + 1 >= RotateAfter)
    <3>1. door' = [current |-> door.current \cup ks, previous |-> door.previous,
                   inserted |-> door.inserted + 1]
      BY <2>1, <2>2, <2>6
    <3> QED
      BY <1>0, <2>1, <2>3, <2>4, <2>6, <3>1 DEF Door!DoorInv
  <2> QED
    BY <2>5, <2>6
<1> QED
  BY <1>1 DEF Door!Next, Door!vars, Door!DoorInv

LEMMA DoorInductive == Spec => []DoorInv
<1>1. Init => DoorInv
  BY DoorAssumption, DoorStarts DEF Init, DoorInv
<1>2. DoorInv /\ [Next]_vars => DoorInv'
  <2> SUFFICES ASSUME DoorInv, [Next]_vars, part' = "door" PROVE Door!DoorInv'
    BY DEF DoorInv
  <2>1. part = "door"
    BY SamePart
  <2>2. [Door!Next]_(Door!vars)
    BY <2>1
       DEF Next, MemStep, FiltersStep, DoorStep, ShotsStep, AnswersStep, RowStep, MoneyStep,
           PoolStep, ResolverStep, DnsStep, RaceStep, PolicyStep, RelayStep, vars, Door!vars
  <2>3. Door!DoorInv
    BY <2>1 DEF DoorInv
  <2> QED
    BY DoorAssumption, <2>2, <2>3, DoorKept
<1> QED
  BY <1>1, <1>2, PTL DEF Spec

\* A key that is not stored is known for a whole period and forgotten some time, whoever turns the
\* filters over meanwhile, and one that comes again soon is let in, whatever comes in between
\* (NotStored, Doorkeeper).
THEOREM KeysAlwaysRemembered == Spec => []KeysAreRemembered
<1>1. FiltersInv /\ part = "filters" => Filters!ClockRunsWhileFull /\ Filters!KnownForAPeriod
  BY FiltersAssumption, FiltersPromise DEF FiltersInv
<1>2. DoorInv /\ part = "door" => Door!SecondTimeIsSeen
  BY DEF DoorInv, Door!DoorInv, Door!SecondTimeIsSeen, Door!SeenBefore
<1>3. FiltersInv /\ DoorInv => KeysAreRemembered
  BY <1>1, <1>2 DEF KeysAreRemembered
<1> QED
  BY <1>3, FiltersInductive, DoorInductive, PTL

-----------------------------------------------------------------------------
\* How fresh an entry is.
\* What an answer says itself.
LEMMA ExplicitType ==
    ASSUME Answers!FreshnessAssumption, v1 \in Nat, NEW h \in Answers!Heads
    PROVE  /\ Answers!Explicit(h) \in Nat \cup {None}
           /\ Answers!Explicit(h) = None <=> h.s_maxage = None /\ h.max_age = None /\ h.expires
                = None
<1> DEFINE now == v1
<1>1. /\ h.s_maxage \in Nat \cup {None} /\ h.max_age \in Nat \cup {None}
      /\ h.expires \in Nat \cup {None} /\ h.date \in Nat \cup {None} /\ None \notin Nat
  BY DEF Answers!Heads, Answers!MaybeNat, Answers!FreshnessAssumption
<1>2. \A x, y \in Nat : Answers!Minus(x, y) \in Nat
  BY DEF Answers!Minus, Answers!Max2
<1>3. h.expires # None => Answers!Minus(h.expires, IF h.date = None THEN now ELSE h.date) \in Nat
  BY <1>1, <1>2
<1> QED
  BY <1>1, <1>3 DEF Answers!Explicit

LEMMA HeuristicBounds ==
    ASSUME Answers!FreshnessAssumption, v1 \in Nat, NEW h \in Answers!Heads
    PROVE  /\ Answers!HeuristicTtl(h) \in Nat /\ Answers!HeuristicTtl(h)
                <= Answers!Max2(DefaultTtl, HeuristicMax)
           /\ h.modified = None => Answers!HeuristicTtl(h) = DefaultTtl
<1> DEFINE now == v1
<1>1. /\ DefaultTtl \in Nat /\ HeuristicMax \in Nat /\ HeuristicPercent \in Nat
      /\ h.modified \in Nat \cup {None}
  BY DEF Answers!Heads, Answers!MaybeNat, Answers!FreshnessAssumption
<1> DEFINE ceiling == Answers!Max2(HeuristicMax, DefaultTtl)
           old == Answers!Minus(now, h.modified)
           ttl == (old * HeuristicPercent) \div 100
<1>2. CASE h.modified = None \/ HeuristicPercent = 0
  BY <1>1, <1>2 DEF Answers!HeuristicTtl, Answers!Max2
<1>3. CASE ~ (h.modified = None \/ HeuristicPercent = 0)
  <2>1. old \in Nat
    BY <1>1, <1>3 DEF Answers!Minus, Answers!Max2
  <2> HIDE DEF old
  <2>2. old * HeuristicPercent \in Nat
    BY <1>1, <2>1
  <2>3. ttl \in Int
    BY <2>2
  <2> HIDE DEF ttl
  <2>4. Answers!HeuristicTtl(h) = Answers!Max2(DefaultTtl, IF ttl > ceiling THEN ceiling ELSE ttl)
    BY <1>3 DEF Answers!HeuristicTtl, ttl, old
  <2> QED
    BY <1>1, <1>3, <2>3, <2>4 DEF Answers!Max2
<1> QED
  BY <1>2, <1>3

\* No answer lasts longer than its origin gave it.
LEMMA TtlBounds ==
    ASSUME Answers!FreshnessAssumption, v1 \in Nat, NEW h \in Answers!Heads,
             NEW status \in {"found", "negative"}
    PROVE  /\ Answers!Ttl(status, h) \in Nat /\ Answers!Longest(status, h) \in Nat
           /\ Answers!Ttl(status, h) <= Answers!Longest(status, h)
           /\ h.no_cache => Answers!Ttl(status, h) = 0
<1>1. DefaultTtl \in Nat /\ HeuristicMax \in Nat /\ NegativeTtl \in Nat
  BY DEF Answers!FreshnessAssumption
<1>2. /\ Answers!HeuristicTtl(h) \in Nat /\ Answers!HeuristicTtl(h)
           <= Answers!Max2(DefaultTtl, HeuristicMax)
      /\ h.modified = None => Answers!HeuristicTtl(h) = DefaultTtl
  BY HeuristicBounds
<1>3. Answers!Explicit(h) \in Nat \cup {None}
  BY ExplicitType
<1> QED
  BY <1>1, <1>2, <1>3 DEF Answers!Ttl, Answers!Longest, Answers!Max2, Answers!Min2

LEMMA AgeType ==
    ASSUME v1 \in Nat, NEW h \in Answers!Heads PROVE Answers!Age(h) \in Nat
BY DEF Answers!Age, Answers!Heads, Answers!MaybeNat, Answers!Minus, Answers!Max2

\* What is put in for how long: not at all, or no longer than from its age on.
LEMMA FreshForBounds ==
    ASSUME v1 \in Nat, NEW p, p.ttl \in Nat, p.age \in Nat
    PROVE  /\ Answers!FreshFor(p).stored \in Nat /\ Answers!FreshFor(p).expires \in Nat
           /\ \/ Answers!FreshFor(p).expires <= v1
              \/ Answers!FreshFor(p).expires = v1 + p.ttl - p.age /\ p.ttl > 0
<1> DEFINE now == v1
<1>1. /\ Answers!FreshFor(p).stored = Answers!Minus(now, p.age) /\ Answers!FreshFor(p).expires
           = now + Answers!Minus(p.ttl, p.age)
  BY DEF Answers!FreshFor
<1> DEFINE t == p.ttl
           a == p.age
<1>2. t \in Nat /\ a \in Nat
  OBVIOUS
<1> HIDE DEF t, a
<1>3. /\ Answers!Minus(now, a) \in Nat /\ now + Answers!Minus(t, a) \in Nat
      /\ \/ now + Answers!Minus(t, a) <= now
         \/ now + Answers!Minus(t, a) = now + t - a /\ t > 0
  <2>1. CASE t - a > 0
    BY <1>2, <2>1 DEF Answers!Minus, Answers!Max2
  <2>2. CASE ~ (t - a > 0)
    BY <1>2, <2>2 DEF Answers!Minus, Answers!Max2
  <2> QED
    BY <2>1, <2>2
<1> QED
  BY <1>1, <1>3 DEF t, a

\* How long a head lasts comes from five of its lines.
LEMMA SameLines ==
    ASSUME NEW g, NEW h, NEW status,
           g.s_maxage = h.s_maxage, g.max_age = h.max_age, g.expires = h.expires, g.date = h.date,
           g.modified = h.modified
    PROVE  Answers!Longest(status, g) = Answers!Longest(status, h)
BY DEF Answers!Longest, Answers!Explicit

LEMMA SilentIsHead == Answers!Silent \in Answers!Heads
BY DEF Answers!Silent, Answers!Heads, Answers!MaybeNat, Answers!Etags

LEMMA AnswersStart == Answers!FreshnessAssumption /\ Answers!Init => Answers!FreshnessInv
BY DEF Answers!FreshnessAssumption, Answers!Init, Answers!FreshnessInv, Answers!HitIsVouched,
   Answers!StaleIsLetAlone

-----------------------------------------------------------------------------
\* A new answer.
LEMMA AnswerKept ==
    ASSUME Answers!FreshnessAssumption, Answers!FreshnessInv, Answers!Answer
    PROVE Answers!FreshnessInv'
<1> DEFINE now == v1  entry == v2  served == v3  word == v4  left == v5
<1>1. PICK s \in Answers!Affordable, etag \in {None, "e"}, status \in {"found", "negative"},
           asks \in {"plain", "cookie"} \cup (IF entry = None THEN {} ELSE {"background"}) :
        LET h == [s.head EXCEPT !.etag = etag]
            cookie == asks = "cookie"
            background == asks = "background"
            p == Answers!Policy(status, h, cookie) IN
        /\ s.head.etag = None /\ left' = left - s.lines - 1
        /\ IF p # None THEN entry' = Answers!Entry(status, h, p) /\ word'
             = Answers!Heard(status, h, cookie)
           ELSE IF background \/ status = "found" THEN entry' = None /\ word' = Answers!Nothing
           ELSE UNCHANGED <<entry, word>>
        /\ served' = None /\ UNCHANGED now
  BY Zenon DEF Answers!Answer
<1> DEFINE h == [s.head EXCEPT !.etag = etag]
           cookie == asks = "cookie"
           p == Answers!Policy(status, h, cookie)
<1>2. now' = now /\ served' = None /\ now \in Nat
  BY <1>1 DEF Answers!FreshnessInv
<1>3. Answers!HitIsVouched' /\ Answers!StaleIsLetAlone'
  BY <1>2 DEF Answers!HitIsVouched, Answers!StaleIsLetAlone, Answers!FreshnessAssumption
<1>4. h \in Answers!Heads
  <2>1. s.head \in Answers!Heads /\ etag \in Answers!Etags
    BY DEF Answers!FreshnessAssumption, Answers!Affordable, Answers!Etags
  <2> QED
    BY <2>1 DEF Answers!Heads
<1> HIDE DEF h
<1>5. CASE p # None
  <2>1. entry' = Answers!Entry(status, h, p) /\ word' = Answers!Heard(status, h, cookie)
    BY <1>1, <1>5 DEF h
  <2>2. /\ p = [ttl |-> Answers!Ttl(status, h), age |-> Answers!Age(h)] /\ ~ h.cookie
        /\ ~ h.forbids
        /\ ~ (cookie /\ Answers!Explicit(h) = None /\ ~ h.public)
    BY <1>5, Zenon DEF Answers!Policy
  <2>3. /\ Answers!Ttl(status, h) \in Nat /\ Answers!Longest(status, h) \in Nat
        /\ Answers!Ttl(status, h) <= Answers!Longest(status, h)
        /\ h.no_cache => Answers!Ttl(status, h) = 0
    BY <1>2, <1>4, TtlBounds
  <2>4. Answers!Age(h) \in Nat
    BY <1>2, <1>4, AgeType
  <2> HIDE DEF p
  <2>5. p.ttl = Answers!Ttl(status, h) /\ p.age = Answers!Age(h)
    BY <2>2
  <2>6. /\ Answers!FreshFor(p).stored \in Nat /\ Answers!FreshFor(p).expires \in Nat
        /\ \/ Answers!FreshFor(p).expires <= now
           \/ Answers!FreshFor(p).expires = now + p.ttl - p.age /\ p.ttl > 0
    BY <1>2, <2>3, <2>4, <2>5, FreshForBounds
  <2>7. /\ entry' = [head |-> [h EXCEPT !.age = 0], status |-> status,
             stored |-> Answers!FreshFor(p).stored,
                     expires |-> Answers!FreshFor(p).expires,
                       validators |-> Answers!Validators(h)]
        /\ word'.flags = h /\ word'.life = Answers!Longest(status, h) /\ word'.base = now
             - Answers!Age(h)
        /\ word'.private = (cookie /\ ~ h.public /\ {h.s_maxage, h.max_age, h.expires} = {None})
    BY <2>1 DEF Answers!Entry, Answers!Heard
  <2>8. [h EXCEPT !.age = 0] \in Answers!Heads /\ Answers!Validators(h) \in BOOLEAN
    BY <1>4 DEF Answers!Heads, Answers!Validators
  <2>9. entry' \in Answers!Entries /\ word' \in Answers!Words
    <3>1. entry' \in Answers!Entries
      BY <2>6, <2>7, <2>8 DEF Answers!Entries
    <3>2. h.public \in BOOLEAN
      BY <1>4 DEF Answers!Heads
    <3> QED
      BY <1>2, <1>4, <2>1, <2>3, <2>4, <3>1, <3>2 DEF Answers!Words, Answers!Heard
  <2>10. Answers!SaysTheSame' /\ ~ entry'.head.forbids /\ ~ entry'.head.cookie
    BY <1>4, <2>2, <2>7 DEF Answers!SaysTheSame, Answers!Heads
  <2>11. ~ word'.private
    <3>1. {h.s_maxage, h.max_age, h.expires} = {None} => Answers!Explicit(h) = None
      BY <1>2, <1>4, ExplicitType
    <3> QED
      BY <2>2, <2>7, <3>1
  <2>12. Answers!LivesAsLong'
    <3>1. entry'.expires = Answers!FreshFor(p).expires
      BY <2>7
    <3> QED
      BY <1>2, <2>3, <2>4, <2>5, <2>6, <2>7, <3>1 DEF Answers!LivesAsLong
  <2> QED
    BY <1>2, <1>3, <2>9, <2>10, <2>11, <2>12 DEF Answers!FreshnessInv
<1>6. CASE p = None
  <2>1. entry' = None \/ UNCHANGED <<entry, word>>
    BY <1>1, <1>6 DEF h
  <2> QED
    BY <1>2, <1>3, <2>1 DEF Answers!FreshnessInv, Answers!SaysTheSame, Answers!LivesAsLong
<1> QED
  BY <1>5, <1>6
-----------------------------------------------------------------------------
\* What a 304 does to what is stored.
LEMMA FilledBounds ==
    ASSUME v1 \in Nat, NEW old \in Answers!Heads, NEW h \in Answers!Heads
    PROVE  Answers!Filled(old, h) \in Answers!Heads
           /\ Answers!Age(Answers!Filled(old, h)) >= Answers!Age(h)
<1> DEFINE silent == ~ Answers!HasCacheControl(h) /\ h.expires = None
           lines == IF silent THEN old ELSE h
           date == IF silent /\ h.date = None THEN old.date ELSE h.date
           modified == IF h.modified # None THEN h.modified ELSE old.modified
           etag == IF h.etag # None THEN h.etag ELSE old.etag
<1>1. /\ lines \in Answers!Heads /\ h.age \in Nat /\ date \in Answers!MaybeNat
      /\ modified \in Answers!MaybeNat /\ etag \in Answers!Etags
      /\ h.date \in Answers!MaybeNat /\ (date = h.date \/ h.date = None)
  BY DEF Answers!Heads
<1>2. Answers!Filled(old, h)
        = [lines EXCEPT !.cookie = FALSE, !.age = h.age, !.date = date, !.modified = modified,
                                     !.etag = etag]
  BY DEF Answers!Filled
<1> HIDE DEF lines, date, modified, etag
<1>3. Answers!Filled(old, h) \in Answers!Heads /\ Answers!Filled(old, h).age = h.age
      /\ Answers!Filled(old, h).date = date
  BY <1>1, <1>2 DEF Answers!Heads
<1> QED
  BY <1>1, <1>3 DEF Answers!Age, Answers!Minus, Answers!Max2, Answers!MaybeNat

\* How long the entry lives then is what the origin has given it.
LEMMA FilledSaysTheSame ==
    ASSUME Answers!FreshnessInv, v2 # None, NEW h \in Answers!Heads
    PROVE  /\ Answers!HeardAgain(h).life = Answers!Longest("found", Answers!Filled(v2.head, h))
           /\ Answers!Filled(v2.head, h).no_cache => Answers!HeardAgain(h).flags.no_cache
           /\ Answers!HeardAgain(h).flags.no_cache /\ ~ Answers!Filled(v2.head, h).no_cache
                => Answers!HeardAgain(h).extended
<1> DEFINE entry == v2  word == v4
<1> DEFINE old == entry.head
           flags == word.flags
           silent == ~ Answers!HasCacheControl(h) /\ h.expires = None
           modified == IF h.modified # None THEN h.modified ELSE old.modified
           date == IF h.date # None THEN h.date ELSE old.date
           F == Answers!Filled(old, h)
<1>1. old \in Answers!Heads /\ flags \in Answers!Heads /\ Answers!SaysTheSame
  BY DEF Answers!FreshnessInv, Answers!Entries, Answers!Words
<1>2. CASE silent
  <2>1. /\ F.s_maxage = old.s_maxage /\ F.max_age = old.max_age /\ F.expires = old.expires
        /\ F.date = date /\ F.modified = modified /\ F.no_cache = old.no_cache
    BY <1>1, <1>2 DEF Answers!Filled, Answers!Heads
  <2> DEFINE known == [[flags EXCEPT !.expires = old.expires] EXCEPT !.modified = modified,
               !.date = date]
  <2>2. /\ known.s_maxage = flags.s_maxage /\ known.max_age = flags.max_age /\ known.expires
             = old.expires
        /\ known.date = date /\ known.modified = modified
    BY <1>1 DEF Answers!Heads
  <2>3. Answers!HeardAgain(h).life = Answers!Longest("found", known)
        /\ Answers!HeardAgain(h).flags = flags
    BY <1>2 DEF Answers!HeardAgain
  <2> HIDE DEF known, F
  <2>4. Answers!Longest("found", known) = Answers!Longest("found", F)
    BY <1>1, <2>1, <2>2, SameLines DEF Answers!SaysTheSame
  <2> QED
    BY <1>1, <2>1, <2>3, <2>4 DEF Answers!SaysTheSame, F
<1>3. CASE ~ silent
  <2>1. /\ F.s_maxage = h.s_maxage /\ F.max_age = h.max_age /\ F.expires = h.expires
        /\ F.date = h.date /\ F.modified = modified /\ F.no_cache = h.no_cache
    BY <1>1, <1>3 DEF Answers!Filled, Answers!Heads
  <2> DEFINE known == [h EXCEPT !.modified = modified, !.date = date]
             again == [known EXCEPT !.date = h.date]
  <2>2. /\ again.s_maxage = h.s_maxage /\ again.max_age = h.max_age /\ again.expires = h.expires
        /\ again.date = h.date /\ again.modified = modified
    BY <1>1 DEF Answers!Heads
  <2>3. Answers!HeardAgain(h).life = Answers!Longest("found", again)
    BY <1>3 DEF Answers!HeardAgain
  <2>4. Answers!HeardAgain(h).flags = (IF Answers!HasCacheControl(h) THEN h ELSE flags)
    BY DEF Answers!HeardAgain
  <2>5. ~ Answers!HasCacheControl(h) => Answers!HeardAgain(h).extended
    BY <1>3 DEF Answers!HeardAgain
  <2>6. ~ Answers!HasCacheControl(h) => ~ h.no_cache
    BY DEF Answers!HasCacheControl
  <2> HIDE DEF known, again, F
  <2>7. Answers!Longest("found", again) = Answers!Longest("found", F)
    BY <2>1, <2>2, SameLines
  <2> QED
    BY <2>1, <2>3, <2>4, <2>5, <2>6, <2>7 DEF F
<1> QED
  BY <1>2, <1>3

LEMMA RevalidatedKept ==
    ASSUME Answers!FreshnessAssumption, Answers!FreshnessInv, v2 # None,
             NEW h \in Answers!Heads, ~ h.forbids, v1' = v1,
           v2' = [v2 EXCEPT !.head = Answers!Merged(v2.head, h),
                           !.stored = Answers!FreshFor(Answers!Revalidated(v2.head, h)).stored,
                           !.expires = Answers!FreshFor(Answers!Revalidated(v2.head, h)).expires],
           v4' = Answers!HeardAgain(h), v3' \in {None, "REVALIDATED"}
    PROVE  Answers!FreshnessInv'
<1> DEFINE now == v1  entry == v2  word == v4
<1> DEFINE old == entry.head
           F == Answers!Filled(old, h)
           p == Answers!Revalidated(old, h)
<1>1. /\ old \in Answers!Heads /\ entry \in Answers!Entries /\ word \in Answers!Words
      /\ Answers!SaysTheSame /\ now \in Nat
      /\ ~ old.forbids /\ ~ word.private
  BY DEF Answers!FreshnessInv, Answers!Entries
<1>2. F \in Answers!Heads /\ Answers!Age(F) >= Answers!Age(h) /\ Answers!Age(F) \in Nat
      /\ Answers!Age(h) \in Nat
  BY <1>1, FilledBounds, AgeType
<1>3. /\ Answers!HeardAgain(h).life = Answers!Longest("found", F)
      /\ F.no_cache => Answers!HeardAgain(h).flags.no_cache
      /\ Answers!HeardAgain(h).flags.no_cache /\ ~ F.no_cache => Answers!HeardAgain(h).extended
  BY FilledSaysTheSame
<1> HIDE DEF F
<1>4. /\ Answers!Ttl("found", F) \in Nat /\ Answers!Longest("found", F) \in Nat
      /\ Answers!Ttl("found", F) <= Answers!Longest("found", F)
      /\ F.no_cache => Answers!Ttl("found", F) = 0
  BY <1>1, <1>2, TtlBounds
<1>5. /\ p.ttl \in Nat /\ p.age \in Nat /\ p.ttl <= Answers!Longest("found", F)
      /\ (F.no_cache => p.ttl = 0)
      /\ p.ttl = 0 \/ p.age = Answers!Age(F)
  <2> DEFINE q == Answers!Policy("found", F, FALSE)
  <2>1. q = None \/ q = [ttl |-> Answers!Ttl("found", F), age |-> Answers!Age(F)]
    BY Zenon DEF Answers!Policy
  <2>2. p = IF q # None THEN q ELSE [ttl |-> 0, age |-> 0]
    BY Zenon DEF Answers!Revalidated, F
  <2> HIDE DEF q, p
  <2>3. p = [ttl |-> 0, age |-> 0] \/ p
          = [ttl |-> Answers!Ttl("found", F), age |-> Answers!Age(F)]
    BY <2>1, <2>2
  <2> QED
    BY <1>2, <1>4, <2>3
<1> HIDE DEF p
<1>6. /\ Answers!FreshFor(p).stored \in Nat /\ Answers!FreshFor(p).expires \in Nat
      /\ \/ Answers!FreshFor(p).expires <= now
         \/ Answers!FreshFor(p).expires = now + p.ttl - p.age /\ p.ttl > 0
  BY <1>1, <1>5, FreshForBounds
<1>7. Answers!Merged(old, h) \in Answers!Heads /\ ~ Answers!Merged(old, h).cookie
      /\ ~ Answers!Merged(old, h).forbids
  <2> DEFINE lines == IF Answers!HasCacheControl(h) THEN h ELSE old
             expires == IF h.expires # None THEN h.expires ELSE old.expires
             date == IF h.date # None THEN h.date ELSE old.date
             modified == IF h.modified # None THEN h.modified ELSE old.modified
             etag == IF h.etag # None THEN h.etag ELSE old.etag
  <2>1. /\ lines \in Answers!Heads /\ ~ lines.forbids /\ expires \in Answers!MaybeNat
        /\ date \in Answers!MaybeNat
        /\ modified \in Answers!MaybeNat /\ etag \in Answers!Etags
    BY <1>1 DEF Answers!Heads
  <2>2. Answers!Merged(old, h)
          = [Answers!Silent EXCEPT !.forbids = lines.forbids, !.public = lines.public,
            !.no_cache = lines.no_cache, !.must = lines.must, !.s_maxage = lines.s_maxage,
            !.max_age = lines.max_age, !.expires = expires, !.date = date, !.modified
              = modified, !.etag = etag]
    BY DEF Answers!Merged
  <2> HIDE DEF lines, expires, date, modified, etag
  <2>3. Answers!Merged(old, h)
          = [forbids |-> lines.forbids, cookie |-> FALSE, public |-> lines.public,
            no_cache |-> lines.no_cache, must |-> lines.must, s_maxage |-> lines.s_maxage,
            max_age |-> lines.max_age, expires |-> expires, date |-> date, age |-> 0,
            modified |-> modified, etag |-> etag]
    BY <2>2 DEF Answers!Silent
  <2> QED
    BY <2>1, <2>3 DEF Answers!Heads
<1>8. /\ entry'.expires = Answers!FreshFor(p).expires
      /\ entry' = [head |-> Answers!Merged(old, h), status |-> entry.status,
           stored |-> Answers!FreshFor(p).stored,
                   expires |-> Answers!FreshFor(p).expires, validators |-> entry.validators]
      /\ entry.status \in {"found", "negative"} /\ entry.validators \in BOOLEAN
  BY <1>1 DEF Answers!Entries, p
<1>9. entry' \in Answers!Entries
  BY <1>6, <1>7, <1>8 DEF Answers!Entries
<1>10. /\ word'.base = now - Answers!Age(h) /\ word'.private = word.private /\ word'.life
            = Answers!Longest("found", F)
       /\ word'.flags = (IF Answers!HasCacheControl(h) THEN h ELSE word.flags)
       /\ word' \in Answers!Words
  <2>1. /\ word.flags \in Answers!Heads /\ word.extended \in BOOLEAN /\ word.private \in BOOLEAN
    BY <1>1 DEF Answers!Words
  <2>2. /\ Answers!HeardAgain(h).base = now - Answers!Age(h) /\ Answers!HeardAgain(h).private
             = word.private
        /\ Answers!HeardAgain(h).flags = (IF Answers!HasCacheControl(h) THEN h ELSE word.flags)
        /\ Answers!HeardAgain(h).extended \in BOOLEAN
    BY <2>1 DEF Answers!HeardAgain
  <2>3. Answers!HeardAgain(h)
          = [status |-> "found", flags |-> Answers!HeardAgain(h).flags,
            life |-> Answers!HeardAgain(h).life,
                         base |-> Answers!HeardAgain(h).base,
                           extended |-> Answers!HeardAgain(h).extended,
                         private |-> Answers!HeardAgain(h).private]
    BY DEF Answers!HeardAgain
  <2>4. Answers!HeardAgain(h).flags \in Answers!Heads
    BY <2>1, <2>2
  <2>5. now - Answers!Age(h) \in Int
    BY <1>1, <1>2
  <2>6. Answers!HeardAgain(h) \in Answers!Words
    BY <1>3, <1>4, <2>1, <2>2, <2>3, <2>4, <2>5 DEF Answers!Words
  <2> QED
    BY <1>3, <2>2, <2>6
<1>11. Answers!SaysTheSame'
  <2>1. /\ Answers!Merged(old, h).forbids
             = (IF Answers!HasCacheControl(h) THEN h ELSE old).forbids
        /\ Answers!Merged(old, h).public = (IF Answers!HasCacheControl(h) THEN h ELSE old).public
        /\ Answers!Merged(old, h).no_cache
             = (IF Answers!HasCacheControl(h) THEN h ELSE old).no_cache
        /\ Answers!Merged(old, h).must = (IF Answers!HasCacheControl(h) THEN h ELSE old).must
        /\ Answers!Merged(old, h).s_maxage
             = (IF Answers!HasCacheControl(h) THEN h ELSE old).s_maxage
        /\ Answers!Merged(old, h).max_age
             = (IF Answers!HasCacheControl(h) THEN h ELSE old).max_age
    BY DEF Answers!Merged, Answers!Silent
  <2>2. entry'.head = Answers!Merged(old, h)
    BY <1>8
  <2> QED
    BY <1>1, <1>10, <2>1, <2>2 DEF Answers!SaysTheSame
<1>12. Answers!LivesAsLong'
  <2>1. entry'.expires = Answers!FreshFor(p).expires
    BY <1>8
  <2>2. CASE Answers!FreshFor(p).expires <= now
    BY <2>1, <2>2 DEF Answers!LivesAsLong
  <2>3. CASE Answers!FreshFor(p).expires = now + p.ttl - p.age /\ p.ttl > 0
    <3>1. Answers!FreshFor(p).expires <= word'.base + word'.life
      BY <1>1, <1>2, <1>4, <1>5, <1>10, <2>3
    <3>2. ~ word'.flags.no_cache \/ word'.extended
      BY <1>3, <1>5, <2>3
    <3> QED
      BY <2>1, <3>1, <3>2 DEF Answers!LivesAsLong
  <2> QED
    BY <1>6, <2>2, <2>3
<1>13. Answers!HitIsVouched' /\ Answers!StaleIsLetAlone'
  BY DEF Answers!HitIsVouched, Answers!StaleIsLetAlone, Answers!FreshnessAssumption
<1>14. ~ entry'.head.forbids /\ ~ entry'.head.cookie /\ ~ word'.private
  BY <1>1, <1>7, <1>8, <1>10
<1> QED
  BY <1>1, <1>9, <1>10, <1>11, <1>12, <1>13, <1>14 DEF Answers!FreshnessInv

LEMMA AnswersKept ==
    ASSUME Answers!FreshnessAssumption, Answers!FreshnessInv, [Answers!Next]_(Answers!vars)
    PROVE Answers!FreshnessInv'
<1> DEFINE now == v1  entry == v2  served == v3  word == v4
<1>0. None \notin {"HIT", "STALE", "REFRESHING", "REVALIDATED"} /\ now \in Nat
  BY DEF Answers!FreshnessAssumption, Answers!FreshnessInv
<1>1. CASE Answers!Tick
  <2>1. now' = now + 1 /\ served' = None /\ UNCHANGED <<entry, word>>
    BY <1>1 DEF Answers!Tick
  <2>2. entry # None => entry.expires \in Nat /\ (Answers!LivesAsLong => Answers!LivesAsLong')
    BY <1>0, <2>1 DEF Answers!FreshnessInv, Answers!Entries, Answers!LivesAsLong
  <2> QED
    BY <1>0, <2>1, <2>2 DEF Answers!FreshnessInv, Answers!SaysTheSame, Answers!HitIsVouched,
       Answers!StaleIsLetAlone
<1>2. CASE Answers!Answer
  BY <1>2, AnswerKept
<1>3. CASE Answers!NotModified
  <2>1. PICK s \in Answers!Affordable, background \in BOOLEAN :
           IF Answers!Conflicts(entry.head, s.head)
           THEN entry' = None /\ served' = None
           ELSE /\ served' = IF background THEN None ELSE "REVALIDATED"
                /\ IF s.head.forbids THEN entry' = None
                   ELSE /\ entry' = [entry EXCEPT !.head = Answers!Merged(entry.head, s.head),
                                       !.stored = Answers!FreshFor(Answers!Revalidated(entry.head, s.head)).stored,
                                       !.expires
                                         = Answers!FreshFor(Answers!Revalidated(entry.head,
                                           s.head)).expires]
                        /\ word' = Answers!HeardAgain(s.head)
    BY <1>3, Zenon DEF Answers!NotModified
  <2>2. s.head \in Answers!Heads /\ now' = now /\ entry # None
    BY <1>3 DEF Answers!FreshnessAssumption, Answers!Affordable, Answers!NotModified
  <2>3. CASE entry' = None
    <3>1. served' \in {None, "REVALIDATED"}
      BY <2>1
    <3> QED
      BY <1>0, <2>2, <2>3, <3>1 DEF Answers!FreshnessInv, Answers!HitIsVouched,
         Answers!StaleIsLetAlone
  <2>4. CASE entry' # None
    <3>1. /\ ~ s.head.forbids /\ served' \in {None, "REVALIDATED"} /\ word'
               = Answers!HeardAgain(s.head)
          /\ entry' = [entry EXCEPT !.head = Answers!Merged(entry.head, s.head),
                             !.stored = Answers!FreshFor(Answers!Revalidated(entry.head,
                               s.head)).stored,
                             !.expires
                               = Answers!FreshFor(Answers!Revalidated(entry.head,
                                 s.head)).expires]
      BY <2>1, <2>4, Zenon
    <3> QED
      BY <2>2, <3>1, RevalidatedKept, Zenon
  <2> QED
    BY <2>3, <2>4
<1>4. CASE Answers!ClientNotModified
  <2>1. PICK s \in Answers!Affordable :
           IF s.head.forbids THEN entry' = None
           ELSE /\ entry' = [entry EXCEPT !.head = Answers!Merged(entry.head, s.head),
                               !.stored = Answers!FreshFor(Answers!Revalidated(entry.head,
                                 s.head)).stored,
                               !.expires
                                 = Answers!FreshFor(Answers!Revalidated(entry.head,
                                   s.head)).expires]
                /\ word' = Answers!HeardAgain(s.head)
    BY <1>4, Zenon DEF Answers!ClientNotModified
  <2>2. s.head \in Answers!Heads /\ now' = now /\ entry # None /\ served' = None
    BY <1>4 DEF Answers!FreshnessAssumption, Answers!Affordable, Answers!ClientNotModified
  <2>3. CASE s.head.forbids
    BY <1>0, <2>1, <2>2, <2>3 DEF Answers!FreshnessInv, Answers!HitIsVouched,
       Answers!StaleIsLetAlone
  <2>4. CASE ~ s.head.forbids
    <3>1. /\ served' \in {None, "REVALIDATED"} /\ word' = Answers!HeardAgain(s.head)
          /\ entry' = [entry EXCEPT !.head = Answers!Merged(entry.head, s.head),
                             !.stored = Answers!FreshFor(Answers!Revalidated(entry.head,
                               s.head)).stored,
                             !.expires
                               = Answers!FreshFor(Answers!Revalidated(entry.head,
                                 s.head)).expires]
      BY <2>1, <2>2, <2>4, Zenon
    <3> QED
      BY <2>2, <2>4, <3>1, RevalidatedKept, Zenon
  <2> QED
    BY <2>3, <2>4
<1>5. CASE Answers!Hit
  <2>1. /\ entry # None /\ entry.expires > now /\ served' = "HIT"
        /\ UNCHANGED <<now, entry, word>>
    BY <1>5 DEF Answers!Hit
  <2>2. /\ entry.expires \in Nat /\ word.base \in Int /\ word.life \in Nat /\ Answers!LivesAsLong
    BY <2>1 DEF Answers!FreshnessInv, Answers!Entries, Answers!Words
  <2>3. now - word.base < word.life /\ (~ word.flags.no_cache \/ word.extended)
    BY <1>0, <2>1, <2>2 DEF Answers!LivesAsLong
  <2> QED
    BY <2>1, <2>3 DEF Answers!FreshnessInv, Answers!SaysTheSame, Answers!LivesAsLong,
       Answers!HitIsVouched, Answers!StaleIsLetAlone
<1>6. CASE Answers!Refreshing \/ Answers!Stale
  <2>1. /\ entry # None /\ Answers!MayServeStale(entry.head)
        /\ served' \in {"REFRESHING", "STALE"}
        /\ UNCHANGED <<now, entry, word>>
    BY <1>6 DEF Answers!Refreshing, Answers!Stale
  <2>2. ~ word.flags.must /\ ~ word.flags.no_cache /\ word.flags.s_maxage = None
    BY <2>1 DEF Answers!FreshnessInv, Answers!SaysTheSame, Answers!MayServeStale
  <2> QED
    BY <2>1, <2>2 DEF Answers!FreshnessInv, Answers!SaysTheSame, Answers!LivesAsLong,
       Answers!HitIsVouched, Answers!StaleIsLetAlone
<1>7. CASE UNCHANGED Answers!vars
  BY <1>7 DEF Answers!vars, Answers!FreshnessInv, Answers!SaysTheSame, Answers!LivesAsLong,
     Answers!HitIsVouched, Answers!StaleIsLetAlone
<1> QED
  BY <1>1, <1>2, <1>3, <1>4, <1>5, <1>6, <1>7 DEF Answers!Next

LEMMA AnswersInductive == Spec => []AnswersInv
<1>1. Init => AnswersInv
  BY AnswersAssumption, AnswersStart DEF Init, AnswersInv
<1>2. AnswersInv /\ [Next]_vars => AnswersInv'
  <2> SUFFICES ASSUME AnswersInv, [Next]_vars, part' = "answers" PROVE Answers!FreshnessInv'
    BY DEF AnswersInv
  <2>1. part = "answers"
    BY SamePart
  <2>2. [Answers!Next]_(Answers!vars)
    BY <2>1
       DEF Next, MemStep, FiltersStep, DoorStep, ShotsStep, AnswersStep, RowStep, MoneyStep,
           PoolStep, ResolverStep, DnsStep, RaceStep, PolicyStep, RelayStep, vars, Answers!vars
  <2>3. Answers!FreshnessInv
    BY <2>1 DEF AnswersInv
  <2> QED
    BY AnswersAssumption, <2>2, <2>3, AnswersKept
<1> QED
  BY <1>1, <1>2, PTL DEF Spec

\* What comes out of the cache is as fresh as its origin last said, or as old as it lets it be, and
\* nothing is kept that it forbids to keep, whatever it answers to revalidations in between
\* (freshness, lookup, handle_not_modified).
THEOREM AnswersAlwaysFresh == Spec => []AnswersAreFresh
<1>1. AnswersInv /\ part = "answers" =>
        Answers!HitIsVouched /\ Answers!StaleIsLetAlone /\ Answers!KeptIsAllowed
  BY DEF AnswersInv, Answers!FreshnessInv, Answers!SaysTheSame, Answers!KeptIsAllowed
<1>2. AnswersInv => AnswersAreFresh
  BY <1>1 DEF AnswersAreFresh
<1> QED
  BY <1>2, AnswersInductive, PTL

-----------------------------------------------------------------------------
\* The pictures of bursts.
LEMMA ShotsStart == Shots!BurstsAssumption /\ Shots!Init => Shots!BurstsInv
BY DEF Shots!BurstsAssumption, Shots!Init, Shots!BurstsInv, Shots!BurstsTypes

LEMMA ShotsKept == ASSUME Shots!BurstsAssumption, Shots!BurstsInv, [Shots!Next]_(Shots!vars)
PROVE Shots!BurstsInv'
<1> DEFINE burst_at == v1  open == v2  active == v3  armed == v4  threshold == v6
           accepting == v7
<1>0. /\ Thresholds \subseteq Nat \ {0}
      /\ None \notin [at : {"seen", "taken", "set"}, n : Nat]
  BY DEF Shots!BurstsAssumption
<1> USE DEF Shots!BurstsInv, Shots!BurstsTypes
<1>1. ASSUME Shots!Accept PROVE Shots!BurstsInv'
  <2>1. CASE open + 1 > burst_at /\ armed
    <3>1. accepting' = [at |-> "seen", n |-> open + 1] /\ open' = open + 1
          /\ UNCHANGED <<burst_at, active, armed, threshold>>
      BY <1>1, <2>1 DEF Shots!Accept
    <3> QED
      BY <1>0, <2>1, <3>1
  <2>2. CASE ~ (open + 1 > burst_at /\ armed)
    <3>1. accepting' = None /\ open' = open + 1 /\ accepting = None
          /\ UNCHANGED <<burst_at, active, armed, threshold>>
      BY <1>1, <2>2 DEF Shots!Accept
    <3> QED
      BY <3>1
  <2> QED
    BY <2>1, <2>2
<1>2. ASSUME Shots!Claim PROVE Shots!BurstsInv'
  <2>1. accepting # None /\ accepting.at = "seen" /\ armed
    BY <1>2 DEF Shots!Claim
  <2>2. accepting' = [at |-> "taken", n |-> accepting.n] /\ accepting.n \in Nat
        /\ UNCHANGED <<burst_at, open, active, threshold>> /\ armed' = FALSE
    BY <1>2, <2>1 DEF Shots!Claim
  <2>3. accepting' \in [at : {"seen", "taken", "set"}, n : Nat] /\ accepting'.at = "taken"
    BY <2>2
  <2>4. accepting' # None
    BY <1>0, <2>3, Zenon
  <2> QED
    BY <2>2, <2>3, <2>4
<1>3. ASSUME Shots!StoreThreshold PROVE Shots!BurstsInv'
  <2>1. accepting # None /\ accepting' = [at |-> "set", n |-> accepting.n] /\ accepting.n \in Nat
        /\ UNCHANGED <<burst_at, open, active, armed>> /\ threshold' = burst_at
    BY <1>3 DEF Shots!StoreThreshold
  <2> QED
    BY <1>0, <2>1
<1>4. ASSUME Shots!StorePending PROVE Shots!BurstsInv'
  BY <1>4 DEF Shots!StorePending
<1>5. ASSUME Shots!Begin PROVE Shots!BurstsInv'
  <2>1. active' = active + 1 /\ active < open
        /\ UNCHANGED <<burst_at, open, armed, threshold, accepting>>
    BY <1>5 DEF Shots!Begin
  <2> QED
    BY <2>1
<1>6. ASSUME Shots!End PROVE Shots!BurstsInv'
  <2>1. active > 0 /\ active' = active - 1 /\ open' = open - 1
        /\ UNCHANGED <<burst_at, armed, threshold, accepting>>
    BY <1>6 DEF Shots!End
  <2> QED
    BY <2>1
<1>7. ASSUME Shots!Reload PROVE Shots!BurstsInv'
  BY <1>7 DEF Shots!Reload
<1>8. ASSUME Shots!ReadActive \/ Shots!TakePending \/ UNCHANGED Shots!vars PROVE Shots!BurstsInv'
  <2>1. UNCHANGED <<burst_at, open, active, armed, threshold, accepting>>
    BY <1>8, Zenon DEF Shots!ReadActive, Shots!TakePending, Shots!vars
  <2> QED
    BY <2>1
<1>9. ASSUME Shots!RearmIfCalm PROVE Shots!BurstsInv'
  <2>1. (armed' = TRUE \/ armed' = armed)
        /\ UNCHANGED <<burst_at, open, active, threshold, accepting>>
    BY <1>9, Zenon DEF Shots!RearmIfCalm
  <2> QED
    BY <2>1
<1> QED
  BY <1>1, <1>2, <1>3, <1>4, <1>5, <1>6, <1>7, <1>8, <1>9 DEF Shots!Next

LEMMA ShotsPromise == Shots!BurstsInv => Shots!FlagComesBack
BY DEF Shots!BurstsInv, Shots!FlagComesBack

LEMMA ShotsInductive == Spec => []ShotsInv
<1>1. Init => ShotsInv
  BY ShotsAssumption, ShotsStart DEF Init, ShotsInv
<1>2. ShotsInv /\ [Next]_vars => ShotsInv'
  <2> SUFFICES ASSUME ShotsInv, [Next]_vars, part' = "shots" PROVE Shots!BurstsInv'
    BY DEF ShotsInv
  <2>1. part = "shots"
    BY SamePart
  <2>2. [Shots!Next]_(Shots!vars)
    BY <2>1
       DEF Next, MemStep, FiltersStep, DoorStep, ShotsStep, AnswersStep, RowStep, MoneyStep,
           PoolStep, ResolverStep, DnsStep, RaceStep, PolicyStep, RelayStep, vars, Shots!vars
  <2>3. Shots!BurstsInv
    BY <2>1 DEF ShotsInv
  <2> QED
    BY ShotsAssumption, <2>2, <2>3, ShotsKept
<1> QED
  BY <1>1, <1>2, PTL DEF Spec

-----------------------------------------------------------------------------
\* The row of a connection.
LEMMA RowConstants == Row!ConnRowAssumption => Interval \in Nat /\ Interval > 0 /\ None \notin Nat
BY DEF Row!ConnRowAssumption

LEMMA RowStarts == Row!ConnRowAssumption /\ Row!Init => Row!RowInv
<1> DEFINE entry == v7
<1>1. ASSUME Row!ConnRowAssumption, Row!Init PROVE Row!RowTypes
  BY <1>1, RowConstants DEF Row!Init, Row!RowTypes, Row!Rows, Row!Reals
<1>2. ASSUME Row!ConnRowAssumption, Row!Init PROVE Row!RowIsCurrent /\ Row!RowTells
  BY <1>2, RowConstants DEF Row!Init, Row!RowIsCurrent, Row!RowTells
<1>3. ASSUME Row!ConnRowAssumption, Row!Init PROVE Row!RateFits /\ Row!EntryIsTrue /\ entry = None
  BY <1>3, RowConstants DEF Row!Init, Row!RateFits, Row!EntryIsTrue
<1> QED
  BY <1>1, <1>2, <1>3 DEF Row!RowInv

\* A step of the thread or of the lot, as far as the rates are concerned.
LEMMA RateKept ==
    ASSUME Row!ConnRowAssumption, Row!RowTypes, Row!RateFits, v6'.bytes \in Nat,
             v6'.bytes >= v6.bytes,
           v6'.bytes_prev = v6.bytes_prev, v6'.idle = v6.idle, v5' => v5,
           UNCHANGED <<v1, v2>>,
           v8'.moved = IF v6'.bytes = v6.bytes THEN v8.moved ELSE v1
    PROVE  Row!RateFits'
<1> DEFINE now == v1  ticked == v2  row == v6  real == v8
<1>0. Interval \in Nat
  BY RowConstants
<1>1. /\ now \in Nat /\ ticked \in Int /\ row.bytes \in Nat /\ row.bytes_prev \in Nat
      /\ row.idle \in Int /\ real.moved \in Nat
  BY DEF Row!RowTypes, Row!Rows, Row!Reals
<1> QED
  BY <1>0, <1>1 DEF Row!RateFits

LEMMA PassKeeps == ASSUME Row!ConnRowAssumption, Row!RowInv, Row!Pass PROVE Row!RowInv'
<1> DEFINE now == v1  ticked == v2  at == v3  on == v4  listed == v5  row == v6  entry == v7
           real == v8
<1>0. Interval \in Nat
  BY RowConstants
<1>1. now' = now + 1 /\ UNCHANGED <<ticked, at, on, listed, row, entry, real>> /\ now' - ticked
        <= Interval
  BY DEF Row!Pass
<1>2. Row!RowTypes'
  BY <1>1 DEF Row!RowInv, Row!RowTypes
<1>3. Row!RowIsCurrent' /\ Row!EntryIsTrue' /\ (entry # None => at = "gone")'
  BY <1>1 DEF Row!RowInv, Row!RowIsCurrent, Row!EntryIsTrue
<1>4. now \in Nat /\ ticked \in Int /\ real.moved \in Nat /\ row.parked_at \in {None} \cup Nat
  BY DEF Row!RowInv, Row!RowTypes, Row!Rows, Row!Reals
<1>5. Row!RowTells' /\ Row!RateFits'
  BY <1>0, <1>1, <1>4 DEF Row!RowInv, Row!RowTells, Row!RateFits
<1> QED
  BY <1>2, <1>3, <1>5 DEF Row!RowInv

LEMMA RequestKeeps == ASSUME Row!ConnRowAssumption, Row!RowInv, Row!Request PROVE Row!RowInv'
<1> DEFINE now == v1  ticked == v2  at == v3  on == v4  listed == v5  row == v6  entry == v7
           real == v8
<1>1. PICK n \in row.bytes .. MaxBytes :
        /\ row' = [row EXCEPT !.target = IF @ = None THEN "http" ELSE @, !.bytes = n, !.requests
             = @ + 1]
        /\ real' = [Row!Moved(row, n) EXCEPT !.first = IF @ = None THEN "http" ELSE @]
  BY Zenon DEF Row!Request
<1>2. at = "thread" /\ ~ row.connect /\ UNCHANGED <<now, at, ticked, on, listed, entry>>
      /\ entry = None
  BY DEF Row!Request, Row!unlisted, Row!RowInv
<1>3. /\ Row!RowTypes /\ MaxBytes \in Nat /\ row.bytes \in Nat
  BY DEF Row!RowInv, Row!ConnRowAssumption, Row!RowTypes, Row!Rows, Row!Reals
<1>4. n \in Nat /\ n >= row.bytes
  BY <1>3
<1> DEFINE f == IF row.target = None THEN "http" ELSE row.target  q == row.requests + 1
           m == IF row.bytes = n THEN real.moved ELSE now
<1>10. /\ f \in {None, "http", "tunnel"} /\ q \in Nat /\ m \in Nat
       /\ row.target = real.first
  BY <1>3 DEF Row!RowTypes, Row!Rows, Row!Reals, Row!RowInv, Row!RowTells
<1>11. row' = [row EXCEPT !.target = f, !.bytes = n, !.requests = q]
  BY <1>1
<1>12. real' = [real EXCEPT !.moved = m, !.first = f]
  BY <1>1, <1>3, <1>10 DEF Row!Moved, Row!RowTypes, Row!Reals
<1> HIDE DEF f, q, m
<1>5. Row!RowTypes'
  <2>1. row' \in Row!Rows
    BY <1>3, <1>4, <1>10, <1>11 DEF Row!RowTypes, Row!Rows
  <2>2. real' \in Row!Reals
    BY <1>3, <1>10, <1>12 DEF Row!RowTypes, Row!Reals
  <2> QED
    BY <1>2, <1>3, <2>1, <2>2 DEF Row!RowTypes
<1>6. /\ row'.bytes = n /\ row'.bytes_prev = row.bytes_prev /\ row'.idle = row.idle
      /\ real'.moved = IF n = row.bytes THEN real.moved ELSE now
  BY <1>1, <1>3 DEF Row!RowTypes, Row!Rows, Row!Reals, Row!Moved
<1>7. Row!RateFits'
  BY <1>2, <1>3, <1>4, <1>6, RateKept DEF Row!RowInv
<1>8. Row!RowTells'
  BY <1>1, <1>2, <1>3 DEF Row!RowInv, Row!RowTypes, Row!Rows, Row!Reals, Row!RowTells, Row!Moved
<1>9. Row!RowIsCurrent'
  BY <1>1, <1>2, <1>3 DEF Row!RowInv, Row!RowTypes, Row!Rows, Row!Reals, Row!RowIsCurrent
<1> QED
  BY <1>2, <1>5, <1>7, <1>8, <1>9 DEF Row!RowInv, Row!EntryIsTrue

LEMMA TunnelKeeps == ASSUME Row!ConnRowAssumption, Row!RowInv, Row!Tunnel PROVE Row!RowInv'
<1> DEFINE now == v1  ticked == v2  at == v3  on == v4  listed == v5  row == v6  entry == v7
           real == v8
<1>1. /\ row' = [row EXCEPT !.target = "tunnel", !.connect = TRUE, !.state = "relaying"]
      /\ real' = [real EXCEPT !.first = "tunnel"]
  BY DEF Row!Tunnel
<1>2. at = "thread" /\ UNCHANGED <<now, at, ticked, on, listed, entry>> /\ entry = None
  BY DEF Row!Tunnel, Row!unlisted, Row!RowInv
<1>3. Row!RowTypes /\ row.bytes \in Nat
  BY DEF Row!RowInv, Row!RowTypes, Row!Rows, Row!Reals
<1>5. Row!RowTypes'
  <2>1. row' \in Row!Rows
    BY <1>1, <1>2, <1>3 DEF Row!RowTypes, Row!Rows
  <2>2. real' \in Row!Reals
    BY <1>1, <1>2, <1>3 DEF Row!RowTypes, Row!Reals
  <2> QED
    BY <1>1, <1>2, <1>3, <2>1, <2>2 DEF Row!RowTypes
<1>6. /\ row'.bytes = row.bytes /\ row'.bytes_prev = row.bytes_prev /\ row'.idle = row.idle
      /\ real'.moved = real.moved
  BY <1>1, <1>3 DEF Row!RowTypes, Row!Rows, Row!Reals
<1>7. Row!RateFits'
  BY <1>2, <1>3, <1>6, RateKept DEF Row!RowInv
<1>8. Row!RowTells'
  BY <1>1, <1>2, <1>3 DEF Row!RowInv, Row!RowTypes, Row!Rows, Row!Reals, Row!RowTells
<1>9. Row!RowIsCurrent'
  BY <1>1, <1>2, <1>3 DEF Row!RowInv, Row!RowTypes, Row!Rows, Row!Reals, Row!RowIsCurrent
<1> QED
  BY <1>2, <1>5, <1>7, <1>8, <1>9 DEF Row!RowInv, Row!EntryIsTrue

LEMMA RelaysKeeps == ASSUME Row!ConnRowAssumption, Row!RowInv, Row!Relays PROVE Row!RowInv'
<1> DEFINE now == v1  ticked == v2  at == v3  on == v4  listed == v5  row == v6  entry == v7
           real == v8
<1>1. PICK n \in row.bytes .. MaxBytes : row' = Row!Set(row, "bytes", n) /\ real'
             = Row!Moved(row, n)
  BY Zenon DEF Row!Relays
<1>2. at = "thread" /\ UNCHANGED <<now, at, ticked, on, listed, entry>> /\ entry = None
  BY DEF Row!Relays, Row!unlisted, Row!RowInv
<1>3. /\ Row!RowTypes /\ MaxBytes \in Nat /\ row.bytes \in Nat
  BY DEF Row!RowInv, Row!ConnRowAssumption, Row!RowTypes, Row!Rows, Row!Reals
<1>4. n \in Nat /\ n >= row.bytes
  BY <1>3
<1>5. Row!RowTypes'
  <2>1. row' \in Row!Rows
    BY <1>1, <1>2, <1>3, <1>4 DEF Row!RowTypes, Row!Rows, Row!Set
  <2>2. real' \in Row!Reals
    BY <1>1, <1>2, <1>3, <1>4 DEF Row!RowTypes, Row!Reals, Row!Moved
  <2> QED
    BY <1>1, <1>2, <1>3, <1>4, <2>1, <2>2 DEF Row!RowTypes
<1>6. /\ row'.bytes = n /\ row'.bytes_prev = row.bytes_prev /\ row'.idle = row.idle
      /\ real'.moved = IF n = row.bytes THEN real.moved ELSE now
  BY <1>1, <1>3 DEF Row!RowTypes, Row!Rows, Row!Reals, Row!Moved, Row!Set
<1>7. Row!RateFits'
  BY <1>2, <1>3, <1>4, <1>6, RateKept DEF Row!RowInv
<1>8. Row!RowTells'
  BY <1>1, <1>2, <1>3 DEF Row!RowInv, Row!RowTypes, Row!Rows, Row!Reals, Row!RowTells,
     Row!Moved, Row!Set
<1>9. Row!RowIsCurrent'
  BY <1>1, <1>2, <1>3 DEF Row!RowInv, Row!RowTypes, Row!Rows, Row!Reals, Row!RowIsCurrent,
     Row!Set
<1> QED
  BY <1>2, <1>5, <1>7, <1>8, <1>9 DEF Row!RowInv, Row!EntryIsTrue

LEMMA HalfCloseKeeps == ASSUME Row!ConnRowAssumption, Row!RowInv, Row!HalfClose PROVE Row!RowInv'
<1> DEFINE now == v1  ticked == v2  at == v3  on == v4  listed == v5  row == v6  entry == v7
           real == v8
<1>1. PICK side \in {"client", "origin"} :
        /\ row' = IF row.half = None THEN Row!Set(row, "half", <<side, now>>) ELSE row
        /\ real' = IF real.side = None THEN [real EXCEPT !.side = <<side, now>>] ELSE real
  BY Zenon DEF Row!HalfClose
<1>2. at = "thread" /\ UNCHANGED <<now, at, ticked, on, listed, entry>> /\ entry = None
  BY DEF Row!HalfClose, Row!unlisted, Row!RowInv
<1>3. Row!RowTypes /\ row.bytes \in Nat /\ <<side, now>> \in Row!Sides /\ row.half = real.side
  BY DEF Row!RowInv, Row!RowTypes, Row!Rows, Row!Reals, Row!Sides, Row!RowTells
<1> HIDE DEF Row!Sides
<1>4. CASE row.half = None
  <2>1. row' = [row EXCEPT !.half = <<side, now>>] /\ real' = [real EXCEPT !.side = <<side, now>>]
    BY <1>1, <1>3, <1>4 DEF Row!Set
  <2>5. Row!RowTypes'
    <3>1. row' \in Row!Rows
      BY <2>1, <1>2, <1>3 DEF Row!RowTypes, Row!Rows
    <3>2. real' \in Row!Reals
      BY <2>1, <1>2, <1>3 DEF Row!RowTypes, Row!Reals
    <3> QED
      BY <2>1, <1>2, <1>3, <3>1, <3>2 DEF Row!RowTypes
  <2>6. /\ row'.bytes = row.bytes /\ row'.bytes_prev = row.bytes_prev /\ row'.idle = row.idle
        /\ real'.moved = real.moved
    BY <2>1, <1>3 DEF Row!RowTypes, Row!Rows, Row!Reals
  <2>7. Row!RateFits'
    BY <1>2, <1>3, <2>6, RateKept DEF Row!RowInv
  <2>8. Row!RowTells'
    BY <2>1, <1>2, <1>3 DEF Row!RowInv, Row!RowTypes, Row!Rows, Row!Reals, Row!RowTells
  <2>9. Row!RowIsCurrent'
    BY <2>1, <1>2, <1>3 DEF Row!RowInv, Row!RowTypes, Row!Rows, Row!Reals, Row!RowIsCurrent
  <2> QED
    BY <1>2, <2>5, <2>7, <2>8, <2>9 DEF Row!RowInv, Row!EntryIsTrue
<1>5. CASE row.half # None
  <2>1. UNCHANGED Row!vars
    BY <1>1, <1>2, <1>3, <1>5 DEF Row!vars
  <2> QED
    BY <2>1 DEF Row!vars, Row!RowInv, Row!RowTypes, Row!RowTells, Row!RateFits,
       Row!RowIsCurrent, Row!EntryIsTrue
<1> QED
  BY <1>4, <1>5

LEMMA ParkKeeps == ASSUME Row!ConnRowAssumption, Row!RowInv, Row!Park PROVE Row!RowInv'
<1> DEFINE now == v1  ticked == v2  at == v3  on == v4  listed == v5  row == v6  entry == v7
           real == v8
<1>1. /\ row' = [row EXCEPT !.state = "parked", !.tid = FALSE, !.parks = @ + 1, !.parked_at = now]
      /\ real' = [real EXCEPT !.parks = @ + 1, !.since = now]
  BY DEF Row!Park
<1>2. at = "thread" /\ at' = "lot" /\ UNCHANGED <<now, ticked, on, listed, entry>> /\ entry = None
  BY DEF Row!Park, Row!unlisted, Row!RowInv
<1>3. Row!RowTypes /\ row.bytes \in Nat /\ now \in Nat /\ None \notin Nat
  BY RowConstants DEF Row!RowInv, Row!RowTypes, Row!Rows, Row!Reals
<1> DEFINE p == row.parks + 1
<1>10. p \in Nat /\ row.parks = real.parks
  BY <1>3 DEF Row!RowTypes, Row!Rows, Row!RowInv, Row!RowTells
<1>11. /\ row' = [row EXCEPT !.state = "parked", !.tid = FALSE, !.parks = p, !.parked_at = now]
       /\ real' = [real EXCEPT !.parks = p, !.since = now]
  BY <1>1, <1>10
<1> HIDE DEF p
<1>5. Row!RowTypes'
  <2>1. row' \in Row!Rows
    BY <1>3, <1>10, <1>11 DEF Row!RowTypes, Row!Rows
  <2>2. real' \in Row!Reals
    BY <1>3, <1>10, <1>11 DEF Row!RowTypes, Row!Reals
  <2> QED
    BY <1>1, <1>2, <1>3, <2>1, <2>2 DEF Row!RowTypes
<1>6. /\ row'.bytes = row.bytes /\ row'.bytes_prev = row.bytes_prev /\ row'.idle = row.idle
      /\ real'.moved = real.moved
  BY <1>1, <1>3 DEF Row!RowTypes, Row!Rows, Row!Reals
<1>7. Row!RateFits'
  BY <1>2, <1>3, <1>6, RateKept DEF Row!RowInv
<1>8. Row!RowTells'
  BY <1>1, <1>2, <1>3 DEF Row!RowInv, Row!RowTypes, Row!Rows, Row!Reals, Row!RowTells
<1>9. Row!RowIsCurrent'
  BY <1>1, <1>2, <1>3 DEF Row!RowTypes, Row!Rows, Row!Reals, Row!RowIsCurrent
<1> QED
  BY <1>2, <1>5, <1>7, <1>8, <1>9 DEF Row!RowInv, Row!EntryIsTrue

LEMMA ParkRefusedKeeps == ASSUME Row!ConnRowAssumption, Row!RowInv, Row!ParkRefused
PROVE Row!RowInv'
<1> DEFINE now == v1  ticked == v2  at == v3  on == v4  listed == v5  row == v6  entry == v7
           real == v8
<1>1. row' = [row EXCEPT !.state = "reading"]
  BY DEF Row!ParkRefused, Row!Set
<1>2. at = "thread" /\ UNCHANGED <<now, at, ticked, on, listed, entry, real>> /\ entry = None
  BY DEF Row!ParkRefused, Row!unlisted, Row!RowInv
<1>3. Row!RowTypes /\ row.bytes \in Nat
  BY DEF Row!RowInv, Row!RowTypes, Row!Rows, Row!Reals
<1>5. Row!RowTypes'
  <2>1. row' \in Row!Rows
    BY <1>1, <1>2, <1>3 DEF Row!RowTypes, Row!Rows
  <2>2. real' \in Row!Reals
    BY <1>1, <1>2, <1>3 DEF Row!RowTypes, Row!Reals
  <2> QED
    BY <1>1, <1>2, <1>3, <2>1, <2>2 DEF Row!RowTypes
<1>6. /\ row'.bytes = row.bytes /\ row'.bytes_prev = row.bytes_prev /\ row'.idle = row.idle
      /\ real'.moved = real.moved
  BY <1>1, <1>2, <1>3 DEF Row!RowTypes, Row!Rows, Row!Reals
<1>7. Row!RateFits'
  BY <1>2, <1>3, <1>6, RateKept DEF Row!RowInv
<1>8. Row!RowTells'
  BY <1>1, <1>2, <1>3 DEF Row!RowInv, Row!RowTypes, Row!Rows, Row!Reals, Row!RowTells
<1>9. Row!RowIsCurrent'
  BY <1>1, <1>2, <1>3 DEF Row!RowInv, Row!RowTypes, Row!Rows, Row!Reals, Row!RowIsCurrent
<1> QED
  BY <1>2, <1>5, <1>7, <1>8, <1>9 DEF Row!RowInv, Row!EntryIsTrue

\* The stay in the lot that ends is counted, in the row and in what happened.
LEMMA StayEnds ==
    ASSUME Row!ConnRowAssumption, Row!RowInv, v3 = "lot"
    PROVE  LET d == v1 - v6.parked_at IN
           /\ d \in Nat /\ v6.parked_at \in Nat /\ v6.parked + d \in Nat
           /\ Row!Unpark(v6) = [v6 EXCEPT !.parked = v6.parked + d, !.parked_at = None]
           /\ Row!Outside = [v8 EXCEPT !.parked = v6.parked + d, !.since = None]
<1> DEFINE now == v1  row == v6  real == v8
<1>1. /\ row.parked_at # None /\ row.parked_at \in Nat /\ row.parked_at <= now /\ now \in Nat
      /\ row.parked \in Nat /\ real.parked = row.parked /\ real.since = row.parked_at
  BY DEF Row!RowInv, Row!RowTypes, Row!Rows, Row!Reals, Row!RowTells, Row!RowIsCurrent
<1> QED
  BY <1>1 DEF Row!Unpark, Row!Outside

LEMMA WakeKeeps == ASSUME Row!ConnRowAssumption, Row!RowInv, Row!Wake PROVE Row!RowInv'
<1> DEFINE now == v1  ticked == v2  at == v3  on == v4  listed == v5  row == v6  entry == v7
           real == v8
<1> DEFINE p == row.parked + (now - row.parked_at)
<1>2. at = "lot" /\ at' = "queue" /\ UNCHANGED <<now, ticked, on, listed, entry>> /\ entry = None
  BY DEF Row!Wake, Row!unlisted, Row!RowInv
<1>0. /\ p \in Nat
      /\ Row!Unpark(row) = [row EXCEPT !.parked = p, !.parked_at = None]
      /\ Row!Outside = [real EXCEPT !.parked = p, !.since = None]
  BY <1>2, StayEnds
<1> HIDE DEF p
<1>3. Row!RowTypes /\ row.bytes \in Nat /\ now \in Nat
  BY DEF Row!RowInv, Row!RowTypes, Row!Rows, Row!Reals
<1>1. /\ row' = [row EXCEPT !.parked = p, !.parked_at = None, !.state = "queued"]
      /\ real' = [real EXCEPT !.parked = p, !.since = None]
  BY <1>0, <1>3 DEF Row!Wake, Row!Set, Row!RowTypes, Row!Rows, Row!Reals
<1>5. Row!RowTypes'
  <2>1. row' \in Row!Rows
    BY <1>0, <1>1, <1>2, <1>3 DEF Row!RowTypes, Row!Rows
  <2>2. real' \in Row!Reals
    BY <1>0, <1>1, <1>2, <1>3 DEF Row!RowTypes, Row!Reals
  <2> QED
    BY <1>0, <1>1, <1>2, <1>3, <2>1, <2>2 DEF Row!RowTypes
<1>6. /\ row'.bytes = row.bytes /\ row'.bytes_prev = row.bytes_prev /\ row'.idle = row.idle
      /\ real'.moved = real.moved
  BY <1>1, <1>3 DEF Row!RowTypes, Row!Rows, Row!Reals
<1>7. Row!RateFits'
  BY <1>2, <1>3, <1>6, RateKept DEF Row!RowInv
<1>8. Row!RowTells'
  BY <1>1, <1>2, <1>3 DEF Row!RowInv, Row!RowTypes, Row!Rows, Row!Reals, Row!RowTells
<1>9. Row!RowIsCurrent'
  BY <1>1, <1>2, <1>3 DEF Row!RowTypes, Row!Rows, Row!Reals, Row!RowIsCurrent
<1> QED
  BY <1>2, <1>5, <1>7, <1>8, <1>9 DEF Row!RowInv, Row!EntryIsTrue

LEMMA ResumeKeeps == ASSUME Row!ConnRowAssumption, Row!RowInv, Row!Resume PROVE Row!RowInv'
<1> DEFINE now == v1  ticked == v2  at == v3  on == v4  listed == v5  row == v6  entry == v7
           real == v8
<1> DEFINE s == IF row.connect THEN "relaying" ELSE "serving"
<1>1. row' = [row EXCEPT !.state = s, !.tid = TRUE] /\ s \in {"relaying", "serving"}
  BY DEF Row!Resume
<1> HIDE DEF s
<1>2. at = "queue" /\ at' = "thread" /\ UNCHANGED <<now, ticked, on, listed, entry, real>>
      /\ entry = None
  BY DEF Row!Resume, Row!unlisted, Row!RowInv
<1>3. Row!RowTypes /\ row.bytes \in Nat
  BY DEF Row!RowInv, Row!RowTypes, Row!Rows, Row!Reals
<1>5. Row!RowTypes'
  <2>1. row' \in Row!Rows
    BY <1>1, <1>2, <1>3 DEF Row!RowTypes, Row!Rows
  <2>2. real' \in Row!Reals
    BY <1>1, <1>2, <1>3 DEF Row!RowTypes, Row!Reals
  <2> QED
    BY <1>1, <1>2, <1>3, <2>1, <2>2 DEF Row!RowTypes
<1>6. /\ row'.bytes = row.bytes /\ row'.bytes_prev = row.bytes_prev /\ row'.idle = row.idle
      /\ real'.moved = real.moved
  BY <1>1, <1>2, <1>3 DEF Row!RowTypes, Row!Rows, Row!Reals
<1>7. Row!RateFits'
  BY <1>2, <1>3, <1>6, RateKept DEF Row!RowInv
<1>8. Row!RowTells'
  BY <1>1, <1>2, <1>3 DEF Row!RowInv, Row!RowTypes, Row!Rows, Row!Reals, Row!RowTells
<1>9. Row!RowIsCurrent'
  BY <1>1, <1>2, <1>3 DEF Row!RowInv, Row!RowTypes, Row!Rows, Row!Reals, Row!RowIsCurrent
<1> QED
  BY <1>2, <1>5, <1>7, <1>8, <1>9 DEF Row!RowInv, Row!EntryIsTrue

\* The first reason stays, here and there.
LEMMA ReasonStays ==
    ASSUME NEW r, NEW g, NEW reason, r.close = g.reason,
           r = [r EXCEPT !.close = r.close], g = [g EXCEPT !.reason = g.reason]
    PROVE  \E c \in {r.close, reason} :
              Row!Close(r, reason) = [r EXCEPT !.close = c] /\ Row!Told(g, reason)
                = [g EXCEPT !.reason = c]
<1>1. CASE r.close = None
  BY <1>1 DEF Row!Close, Row!Told, Row!Set
<1>2. CASE r.close # None
  BY <1>2 DEF Row!Close, Row!Told
<1> QED
  BY <1>1, <1>2

LEMMA TakeOutKeeps == ASSUME Row!ConnRowAssumption, Row!RowInv, Row!TakeOut PROVE Row!RowInv'
<1> DEFINE now == v1  ticked == v2  at == v3  on == v4  listed == v5  row == v6  entry == v7
           real == v8
<1> DEFINE p == row.parked + (now - row.parked_at)
<1>2. at = "lot" /\ at' = "ending" /\ UNCHANGED <<now, ticked, on, listed, entry>> /\ entry = None
  BY DEF Row!TakeOut, Row!unlisted, Row!RowInv
<1>0. /\ p \in Nat
      /\ Row!Unpark(row) = [row EXCEPT !.parked = p, !.parked_at = None]
      /\ Row!Outside = [real EXCEPT !.parked = p, !.since = None]
  BY <1>2, StayEnds
<1> HIDE DEF p
<1>3. Row!RowTypes /\ row.bytes \in Nat /\ now \in Nat
  BY DEF Row!RowInv, Row!RowTypes, Row!Rows, Row!Reals
<1>4. PICK reason \in {"evicted", "expired", "shutdown"} :
        row' = Row!Close(Row!Unpark(row), reason) /\ real' = Row!Told(Row!Outside, reason)
  BY Zenon DEF Row!TakeOut
<1>5. /\ Row!Unpark(row).close = row.close /\ Row!Outside.reason = real.reason /\ row.close
           = real.reason
      /\ Row!Unpark(row) = [Row!Unpark(row) EXCEPT !.close = Row!Unpark(row).close]
      /\ Row!Outside = [Row!Outside EXCEPT !.reason = Row!Outside.reason]
  BY <1>0, <1>3 DEF Row!RowTypes, Row!Rows, Row!Reals, Row!RowInv, Row!RowTells
<1>6. PICK c \in {row.close, reason} :
        Row!Close(Row!Unpark(row), reason) = [Row!Unpark(row) EXCEPT !.close = c]
        /\ Row!Told(Row!Outside, reason) = [Row!Outside EXCEPT !.reason = c]
  BY <1>5, ReasonStays
<1>7. c \in {None} \cup Row!Reasons
  BY <1>3 DEF Row!RowTypes, Row!Rows, Row!Reals, Row!Reasons
<1>8. /\ row' = [row EXCEPT !.parked = p, !.parked_at = None, !.close = c]
      /\ real' = [real EXCEPT !.parked = p, !.since = None, !.reason = c]
  BY <1>0, <1>3, <1>4, <1>6 DEF Row!RowTypes, Row!Rows, Row!Reals
<1> HIDE DEF Row!Reasons
<1>9. Row!RowTypes'
  <2>1. row' \in Row!Rows
    BY <1>0, <1>2, <1>3, <1>7, <1>8 DEF Row!RowTypes, Row!Rows
  <2>2. real' \in Row!Reals
    BY <1>0, <1>2, <1>3, <1>7, <1>8 DEF Row!RowTypes, Row!Reals
  <2> QED
    BY <1>0, <1>2, <1>3, <1>7, <1>8, <2>1, <2>2 DEF Row!RowTypes
<1>10. /\ row'.bytes = row.bytes /\ row'.bytes_prev = row.bytes_prev /\ row'.idle = row.idle
       /\ real'.moved = real.moved
  BY <1>8, <1>3 DEF Row!RowTypes, Row!Rows, Row!Reals
<1>11. Row!RateFits'
  BY <1>2, <1>3, <1>10, RateKept DEF Row!RowInv
<1>12. Row!RowTells'
  BY <1>8, <1>2, <1>3 DEF Row!RowInv, Row!RowTypes, Row!Rows, Row!Reals, Row!RowTells
<1>13. Row!RowIsCurrent'
  BY <1>8, <1>2, <1>3 DEF Row!RowTypes, Row!Rows, Row!Reals, Row!RowIsCurrent
<1> QED
  BY <1>2, <1>9, <1>11, <1>12, <1>13 DEF Row!RowInv, Row!EntryIsTrue

LEMMA FinishKeeps == ASSUME Row!ConnRowAssumption, Row!RowInv, Row!Finish PROVE Row!RowInv'
<1> DEFINE now == v1  ticked == v2  at == v3  on == v4  listed == v5  row == v6  entry == v7
           real == v8
<1>2. /\ at \in {"thread", "ending"} /\ at' = "finished" /\ entry = None
      /\ UNCHANGED <<now, ticked, on, listed, entry>>
  BY DEF Row!Finish, Row!unlisted, Row!RowInv
<1>3. Row!RowTypes /\ row.bytes \in Nat /\ now \in Nat
  BY DEF Row!RowInv, Row!RowTypes, Row!Rows, Row!Reals
<1>5. /\ row.close = real.reason
      /\ row = [row EXCEPT !.close = row.close]
      /\ real = [real EXCEPT !.reason = real.reason]
  BY <1>3 DEF Row!RowTypes, Row!Rows, Row!Reals, Row!RowInv, Row!RowTells
<1>6. PICK c \in {row.close, "done"} :
        Row!Close(row, "done") = [row EXCEPT !.close = c] /\ Row!Told(real, "done")
          = [real EXCEPT !.reason = c]
  BY <1>5, ReasonStays
<1>7. c \in {None} \cup Row!Reasons
  BY <1>3 DEF Row!RowTypes, Row!Rows, Row!Reals, Row!Reasons
<1>8. row' = [row EXCEPT !.close = c] /\ real' = [real EXCEPT !.reason = c]
  BY <1>6 DEF Row!Finish
<1> HIDE DEF Row!Reasons
<1>9. Row!RowTypes'
  <2>1. row' \in Row!Rows
    BY <1>2, <1>3, <1>7, <1>8 DEF Row!RowTypes, Row!Rows
  <2>2. real' \in Row!Reals
    BY <1>2, <1>3, <1>7, <1>8 DEF Row!RowTypes, Row!Reals
  <2> QED
    BY <1>2, <1>3, <1>7, <1>8, <2>1, <2>2 DEF Row!RowTypes
<1>10. /\ row'.bytes = row.bytes /\ row'.bytes_prev = row.bytes_prev /\ row'.idle = row.idle
       /\ real'.moved = real.moved
  BY <1>8, <1>3 DEF Row!RowTypes, Row!Rows, Row!Reals
<1>11. Row!RateFits'
  BY <1>2, <1>3, <1>10, RateKept DEF Row!RowInv
<1>12. Row!RowTells'
  BY <1>8, <1>2, <1>3 DEF Row!RowInv, Row!RowTypes, Row!Rows, Row!Reals, Row!RowTells
<1>13. Row!RowIsCurrent'
  BY <1>8, <1>2, <1>3 DEF Row!RowInv, Row!RowTypes, Row!Rows, Row!Reals, Row!RowIsCurrent
<1> QED
  BY <1>2, <1>9, <1>11, <1>12, <1>13 DEF Row!RowInv, Row!EntryIsTrue

LEMMA LostKeeps == ASSUME Row!ConnRowAssumption, Row!RowInv, Row!Lost PROVE Row!RowInv'
<1> DEFINE now == v1  ticked == v2  at == v3  on == v4  listed == v5  row == v6  entry == v7
           real == v8
<1>1. /\ at = "queue" /\ at' = "finished" /\ entry = None
      /\ UNCHANGED <<now, ticked, on, listed, entry, row, real>>
  BY DEF Row!Lost, Row!unlisted, Row!RowInv
<1>2. Row!RowTypes'
  BY <1>1 DEF Row!RowInv, Row!RowTypes
<1>3. Row!RateFits'
  BY <1>1 DEF Row!RowInv, Row!RateFits
<1> QED
  BY <1>1, <1>2, <1>3 DEF Row!RowInv, Row!RowTells, Row!RowIsCurrent, Row!EntryIsTrue

LEMMA UnregisterKeeps == ASSUME Row!ConnRowAssumption, Row!RowInv, Row!Unregister
PROVE Row!RowInv'
<1> DEFINE now == v1  ticked == v2  at == v3  on == v4  listed == v5  row == v6  entry == v7
           real == v8
<1>1. /\ at = "finished" /\ at' = "gone" /\ listed' = FALSE
      /\ UNCHANGED <<now, ticked, on, row, real>>
      /\ entry' = IF on /\ listed THEN Row!ClosedEntry(row) ELSE None
  BY DEF Row!Unregister
<1>2. Row!RowTypes'
  BY <1>1 DEF Row!RowInv, Row!RowTypes
<1>6. Row!RateFits'
  BY <1>1 DEF Row!RowInv, Row!RateFits
<1>3. row.parked_at = None /\ row.parked \in Nat
  BY <1>1 DEF Row!RowInv, Row!RowIsCurrent, Row!RowTypes, Row!Rows, Row!Reals
<1>4. Row!EntryIsTrue'
  BY <1>1, <1>3 DEF Row!EntryIsTrue, Row!ClosedEntry, Row!RowInv, Row!RowTells
<1>5. Row!RowIsCurrent' /\ Row!RowTells'
  BY <1>1 DEF Row!RowInv, Row!RowTells, Row!RowIsCurrent
<1> QED
  BY <1>1, <1>2, <1>4, <1>5, <1>6 DEF Row!RowInv

LEMMA TickKeeps == ASSUME Row!ConnRowAssumption, Row!RowInv, Row!Tick PROVE Row!RowInv'
<1> DEFINE now == v1  ticked == v2  at == v3  on == v4  listed == v5  row == v6  entry == v7
           real == v8
<1>0. Interval \in Nat
  BY RowConstants
<1>1. /\ now - ticked > 0 /\ ticked' = now /\ UNCHANGED <<now, at, on, listed, entry, real>>
  BY DEF Row!Tick
<1>2. /\ Row!RowTypes /\ now \in Nat /\ ticked \in Int /\ row.bytes \in Nat
      /\ row.bytes_prev \in Nat
      /\ row.idle \in Int /\ real.moved \in Nat
  BY DEF Row!RowInv, Row!RowTypes, Row!Rows, Row!Reals
<1>3. CASE ~ listed
  <2>1. row' = row
    BY <1>3 DEF Row!Tick
  <2>2. Row!RowTypes'
    BY <1>1, <1>2, <2>1 DEF Row!RowTypes
  <2>3. Row!RateFits'
    BY <1>0, <1>1, <1>2, <1>3, <2>1 DEF Row!RowInv, Row!RateFits
  <2> QED
    BY <1>1, <2>1, <2>2, <2>3 DEF Row!RowInv, Row!RowTells, Row!RowIsCurrent, Row!EntryIsTrue
<1>4. CASE listed
  <2> DEFINE i == IF row.bytes = row.bytes_prev THEN row.idle + (now - ticked) ELSE 0
  <2>1. row' = [row EXCEPT !.bytes_prev = row.bytes, !.idle = i] /\ i \in Int
    BY <1>2, <1>4 DEF Row!Tick, Row!RowTypes, Row!Rows, Row!Reals
  <2>2. /\ i <= now - real.moved + (IF real.moved = 0 THEN Interval ELSE 0)
        /\ i >= now - real.moved - Interval
    BY <1>0, <1>1, <1>2, <1>4 DEF Row!RowInv, Row!RateFits
  <2> HIDE DEF i
  <2>3. Row!RowTypes'
    <3>1. row' \in Row!Rows
      BY <1>1, <1>2, <2>1 DEF Row!RowTypes, Row!Rows
    <3>2. real' \in Row!Reals
      BY <1>1, <1>2, <2>1 DEF Row!RowTypes, Row!Reals
    <3> QED
      BY <1>1, <1>2, <2>1, <3>1, <3>2 DEF Row!RowTypes
  <2>4. row'.bytes = row.bytes /\ row'.bytes_prev = row.bytes /\ row'.idle = i
    BY <1>2, <2>1 DEF Row!RowTypes, Row!Rows, Row!Reals
  <2>5. Row!RateFits'
    BY <1>0, <1>1, <1>2, <2>2, <2>4 DEF Row!RowInv, Row!RateFits
  <2>6. Row!RowTells' /\ Row!RowIsCurrent'
    BY <1>1, <1>2, <2>1 DEF Row!RowInv, Row!RowTypes, Row!Rows, Row!Reals, Row!RowTells,
       Row!RowIsCurrent
  <2> QED
    BY <1>1, <2>3, <2>5, <2>6 DEF Row!RowInv, Row!EntryIsTrue
<1> QED
  BY <1>3, <1>4, <1>2 DEF Row!RowTypes, Row!Rows, Row!Reals

LEMMA SwitchKeeps == ASSUME Row!ConnRowAssumption, Row!RowInv, Row!Switch PROVE Row!RowInv'
<1> DEFINE now == v1  ticked == v2  at == v3  on == v4  listed == v5  row == v6  entry == v7
           real == v8
<1>1. /\ listed' \in BOOLEAN /\ on' \in BOOLEAN
      /\ listed' => listed
      /\ UNCHANGED <<now, ticked, at, row, entry, real>>
  BY DEF Row!Switch, Row!RowInv, Row!RowTypes, Row!Rows, Row!Reals
<1>2. Row!RowTypes'
  BY <1>1 DEF Row!RowInv, Row!RowTypes
<1>3. Row!RateFits'
  BY <1>1 DEF Row!RowInv, Row!RateFits
<1> QED
  BY <1>1, <1>2, <1>3 DEF Row!RowInv, Row!RowTells, Row!RowIsCurrent, Row!EntryIsTrue

LEMMA RowKept == ASSUME Row!ConnRowAssumption, Row!RowInv, [Row!Next]_(Row!vars) PROVE Row!RowInv'
<1>1. CASE UNCHANGED Row!vars
  BY <1>1 DEF Row!vars, Row!RowInv, Row!RowTypes, Row!RowTells, Row!RateFits, Row!RowIsCurrent,
     Row!EntryIsTrue
<1> QED
  BY <1>1, PassKeeps, RequestKeeps, TunnelKeeps, RelaysKeeps, HalfCloseKeeps, ParkKeeps,
     ParkRefusedKeeps, WakeKeeps, ResumeKeeps, TakeOutKeeps, FinishKeeps, LostKeeps,
     UnregisterKeeps, TickKeeps, SwitchKeeps DEF Row!Next

\* At a tick nothing can have moved since the last one without being seen.
LEMMA RowPromise == Row!RowInv => Row!RowIsCurrent /\ Row!EntryIsTrue /\ Row!IdleIsReal
<1> DEFINE now == v1  ticked == v2  row == v6  real == v8
<1> SUFFICES ASSUME Row!RowInv PROVE Row!IdleIsReal
  BY DEF Row!RowInv
<1>1. /\ now \in Nat /\ ticked \in Int /\ row.bytes \in Nat /\ row.bytes_prev \in Nat
      /\ row.idle \in Int /\ real.moved \in Nat
  BY DEF Row!RowInv, Row!RowTypes, Row!Rows, Row!Reals
<1> QED
  BY <1>1 DEF Row!RowInv, Row!RateFits, Row!IdleIsReal

LEMMA RowInductive == Spec => []RowInv
<1>1. Init => RowInv
  BY RowAssumption, RowStarts DEF Init, RowInv
<1>2. RowInv /\ [Next]_vars => RowInv'
  <2> SUFFICES ASSUME RowInv, [Next]_vars, part' = "row" PROVE Row!RowInv'
    BY DEF RowInv
  <2>1. part = "row"
    BY SamePart
  <2>2. [Row!Next]_(Row!vars)
    BY <2>1
       DEF Next, MemStep, FiltersStep, DoorStep, ShotsStep, AnswersStep, RowStep, MoneyStep,
           PoolStep, ResolverStep, DnsStep, RaceStep, PolicyStep, RelayStep, vars, Row!vars
  <2>3. Row!RowInv
    BY <2>1 DEF RowInv
  <2> QED
    BY RowAssumption, <2>2, <2>3, RowKept
<1> QED
  BY <1>1, <1>2, PTL DEF Spec

\* After a burst the next one is seen again, whichever step of the accepting thread the history
\* thread falls between; a row says at any moment where its connection is, whoever of thread, lot and
\* tick writes to it, the record of the connection tells who ended it, which side was silent first and
\* how long it was parked, and the time without a byte is right at a tick but for one interval
\* (BurstRing, ConnSlot, closed_entry, update_rates).
THEOREM ShownIsAlwaysTrue == Spec => []ShownIsTrue
<1>1. ShotsInv /\ part = "shots" => Shots!FlagComesBack
  BY ShotsPromise DEF ShotsInv
<1>2. RowInv /\ part = "row" => Row!RowIsCurrent /\ Row!EntryIsTrue /\ Row!IdleIsReal
  BY RowPromise DEF RowInv
<1>3. ShotsInv /\ RowInv => ShownIsTrue
  BY <1>1, <1>2 DEF ShownIsTrue
<1> QED
  BY <1>3, ShotsInductive, RowInductive, PTL

-----------------------------------------------------------------------------
\* The pool of connections to origins.
LEMMA PoolSizes ==
    /\ \A S : Pool!IsFiniteSet(S) <=> IsFiniteSet(S)
    /\ \A S : Pool!Cardinality(S) = Cardinality(S)
<1>1. \A S : Pool!IsFiniteSet(S) <=> IsFiniteSet(S)
  BY Zenon DEF Pool!IsFiniteSet, IsFiniteSet
<1>2. \A S : Pool!Cardinality(S) = Cardinality(S)
  BY Zenon DEF Pool!Cardinality, Cardinality
<1> QED
  BY <1>1, <1>2

LEMMA ModRange == ASSUME NEW w \in Nat \ {0}, NEW x \in Int PROVE x % w \in 0 .. w - 1
BY SMT

LEMMA ModDiv == ASSUME NEW x \in Int, NEW w \in Nat \ {0} PROVE x \div w \in Int /\ x
    = w * (x \div w) + (x % w)
BY SMTT(60)
LEMMA Less == ASSUME NEW w \in Nat \ {0}, NEW d \in Int, d >= 1 PROVE w * d >= w /\ w * d \in Int
BY SMT
LEMMA ModShift == ASSUME NEW x \in Int, NEW n \in Int, NEW w \in Nat \ {0}
PROVE ((x % w) + n) % w = (x+n) % w
<1> DEFINE r == x % w  q == x \div w  y == r + n  s == y % w  p == y \div w  z == x + n  u ==
             z % w  v == z \div w
<1>1. r \in 0 .. w - 1 /\ s \in 0 .. w - 1 /\ u \in 0 .. w - 1 /\ y \in Int /\ z \in Int
  BY ModRange
<1>2. q \in Int /\ p \in Int /\ v \in Int /\ x = w * q + r /\ y = w * p + s /\ z = w * v + u
  BY <1>1, ModDiv
<1> DEFINE d == q + p - v
<1>3. w * d = w * q + w * p - w * v /\ d \in Int
  BY <1>2
<1>4. w * q \in Int /\ w * p \in Int /\ w * v \in Int
  BY <1>2
<1>5. u - s = w * d
  <2> HIDE DEF d, q, p, v, s, u, r
  <2> DEFINE a == w * q  b == w * p  c == w * v  e == w * d
  <2>1. a \in Int /\ b \in Int /\ c \in Int /\ e = a + b - c
    BY <1>3, <1>4
  <2>2. x = a + r /\ r + n = b + s /\ x + n = c + u
    BY <1>2
  <2> HIDE DEF a, b, c, e
  <2>3. u - s = e
    BY <2>1, <2>2, <1>1
  <2> QED BY <2>3 DEF e
<1>6. d < 1
  <2> SUFFICES ASSUME d >= 1 PROVE FALSE
    BY <1>3
  <2>1. w * d >= w /\ w * d \in Int
    BY <1>3, Less
  <2> QED
    <3> DEFINE e == w * d
    <3>1. e >= w /\ e \in Int /\ u - s = e
      BY <2>1, <1>5
    <3> HIDE DEF e, u, s
    <3> QED BY <3>1, <1>1
<1>7. d > -1
  <2> SUFFICES ASSUME -d >= 1 PROVE FALSE
    BY <1>3
  <2>1. w * (-d) >= w /\ w * (-d) \in Int /\ w * (-d) = -(w * d)
    BY <1>3, Less
  <2> QED
    <3> DEFINE e == w * d
    <3>1. -e >= w /\ e \in Int /\ u - s = e
      BY <2>1, <1>5, <1>1
    <3> HIDE DEF e, u, s
    <3> QED BY <3>1, <1>1
<1>8. d = 0
  BY <1>6, <1>7, <1>3
<1>9. u - s = w * 0
  BY <1>8, <1>5
<1> QED BY <1>9, <1>1

\* The number of the members of a set that is finite, of its parts and of what is added to it.
LEMMA Counts ==
    ASSUME NEW A, Pool!IsFiniteSet(A), NEW S \in SUBSET A
    PROVE  Pool!IsFiniteSet(S) /\ Pool!Cardinality(S) \in Nat /\ Pool!Cardinality(S)
             <= Pool!Cardinality(A)
BY PoolSizes, FS_Subset, FS_CardinalityType

LEMMA MoreCount ==
    ASSUME NEW S, Pool!IsFiniteSet(S), NEW T, Pool!IsFiniteSet(T), S \cap T = {}
    PROVE  Pool!IsFiniteSet(S \cup T) /\ Pool!Cardinality(S \cup T)
             = Pool!Cardinality(S) + Pool!Cardinality(T)
<1>1. Pool!IsFiniteSet(S \cup T) /\ Pool!Cardinality(S \cup T)
        = Pool!Cardinality(S) + Pool!Cardinality(T) - Pool!Cardinality({})
  BY PoolSizes, FS_Union
<1>2. Pool!Cardinality({}) = 0
  BY PoolSizes, FS_EmptySet
<1>3. Pool!Cardinality(S) \in Nat /\ Pool!Cardinality(T) \in Nat
  BY PoolSizes, FS_CardinalityType
<1> QED
  BY <1>1, <1>2, <1>3

LEMMA LessCount ==
    ASSUME NEW S, Pool!IsFiniteSet(S), NEW T \in SUBSET S
    PROVE  Pool!Cardinality(S \ T) = Pool!Cardinality(S) - Pool!Cardinality(T)
<1>1. Pool!IsFiniteSet(T) /\ Pool!IsFiniteSet(S \ T)
  BY PoolSizes, FS_Subset
<1>2. (S \ T) \cup T = S /\ (S \ T) \cap T = {}
  OBVIOUS
<1>4. Pool!Cardinality(S) = Pool!Cardinality(S \ T) + Pool!Cardinality(T)
  BY <1>1, <1>2, MoreCount
<1>3. Pool!Cardinality(S \ T) \in Nat /\ Pool!Cardinality(T) \in Nat
  BY PoolSizes, <1>1, FS_CardinalityType
<1> QED
  BY <1>3, <1>4

LEMMA OneCounts ==
    ASSUME NEW x PROVE Pool!IsFiniteSet({x}) /\ Pool!Cardinality({x}) = 1
BY PoolSizes, FS_Singleton

-----------------------------------------------------------------------------
\* The n-th member of a set of positions is the one with n members up to it.
LEMMA Ranks ==
    ASSUME NEW m \in Nat, NEW P \in SUBSET (1 .. m)
    PROVE  /\ Pool!IsFiniteSet(P) /\ Pool!Cardinality(P) \in 0 .. m
           /\ \A i \in P : Pool!Cardinality({j \in P : j <= i}) \in 1 .. Pool!Cardinality(P)
           /\ \A i, k \in P : Pool!Cardinality({j \in P : j <= i})
                = Pool!Cardinality({j \in P : j <= k}) => i = k
           /\ \A n \in 1 .. Pool!Cardinality(P) : \E i \in P :
                Pool!Cardinality({j \in P : j <= i}) = n
<1> DEFINE upto(i) == {j \in P : j <= i}
<1>1. Pool!IsFiniteSet(1 .. m) /\ Pool!Cardinality(1 .. m) = m
  BY PoolSizes, FS_Interval
<1>2. Pool!IsFiniteSet(P) /\ Pool!Cardinality(P) \in Nat /\ Pool!Cardinality(P) <= m
  BY <1>1, Counts
<1>3. ASSUME NEW i \in P PROVE Pool!Cardinality(upto(i)) \in 1 .. Pool!Cardinality(P)
  <2>1. Pool!IsFiniteSet(upto(i)) /\ Pool!Cardinality(upto(i)) \in Nat
        /\ Pool!Cardinality(upto(i)) <= Pool!Cardinality(P)
    BY <1>2, Counts
  <2>2. {i} \in SUBSET upto(i)
    OBVIOUS
  <2>3. Pool!Cardinality({i}) <= Pool!Cardinality(upto(i))
    BY <2>1, <2>2, Counts
  <2>4. Pool!Cardinality({i}) = 1
    BY OneCounts
  <2> QED
    BY <1>2, <2>1, <2>3, <2>4
<1>4. ASSUME NEW i \in P, NEW k \in P, i < k
      PROVE Pool!Cardinality(upto(i)) < Pool!Cardinality(upto(k))
  <2>1. Pool!IsFiniteSet(upto(k)) /\ Pool!IsFiniteSet(upto(i))
        /\ Pool!Cardinality(upto(i)) \in Nat /\ Pool!Cardinality(upto(k)) \in Nat
    BY <1>2, Counts
  <2>2. upto(i) \cup {k} \in SUBSET upto(k) /\ upto(i) \cap {k} = {}
    <3>1. i \in Int /\ k \in Int /\ \A j \in P : j \in Int
      OBVIOUS
    <3>2. \A j \in upto(i) : j \in upto(k) /\ j # k
      BY <1>4, <3>1
    <3>3. k \in upto(k)
      BY <3>1
    <3> HIDE DEF upto
    <3> QED
      BY <3>2, <3>3
  <2>3. Pool!Cardinality(upto(i) \cup {k}) = Pool!Cardinality(upto(i)) + 1
    <3>1. Pool!IsFiniteSet({k}) /\ Pool!Cardinality({k}) = 1
      BY OneCounts
    <3>2. Pool!Cardinality(upto(i) \cup {k}) = Pool!Cardinality(upto(i)) + Pool!Cardinality({k})
      BY <2>1, <2>2, <3>1, MoreCount
    <3> QED
      BY <3>1, <3>2
  <2>4. Pool!Cardinality(upto(i) \cup {k}) <= Pool!Cardinality(upto(k))
    BY <2>1, <2>2, Counts
  <2> QED
    BY <2>1, <2>3, <2>4
<1>5. ASSUME NEW i \in P, NEW k \in P, Pool!Cardinality(upto(i)) = Pool!Cardinality(upto(k))
      PROVE i = k
  <2>1. i \in Int /\ k \in Int
    OBVIOUS
  <2>2. Pool!Cardinality(upto(i)) \in Int /\ Pool!Cardinality(upto(k)) \in Int
    BY <1>3
  <2>3. ~ (i < k)
    BY <1>4, <1>5, <2>2
  <2>4. ~ (k < i)
    BY <1>4, <1>5, <2>2
  <2> QED
    BY <2>1, <2>3, <2>4
<1>6. ASSUME NEW n \in 1 .. Pool!Cardinality(P) PROVE \E i \in P : Pool!Cardinality(upto(i)) = n
  <2> DEFINE T == 1 .. Pool!Cardinality(P)
             f == [i \in P |-> Pool!Cardinality(upto(i))]
  <2>1. f \in [P -> T]
    BY <1>3
  <2>2. f \in Injection(P, T)
    BY <1>5, <2>1 DEF Injection, IsInjective
  <2>3. Pool!IsFiniteSet(T) /\ Pool!Cardinality(T) = Pool!Cardinality(P)
    BY PoolSizes, <1>2, FS_Interval
  <2>4. f \in Surjection(P, T)
    BY PoolSizes, <2>2, <2>3, FS_Injection
  <2>5. \E i \in P : f[i] = n
    BY <2>4 DEF Surjection
  <2> QED
    BY <2>5
<1> QED
  BY <1>2, <1>3, <1>5, <1>6

\* A row after retain: the connections that stay, each once, in their order.
LEMMA KeptRow ==
    ASSUME NEW q \in Seq(Conns)
    PROVE  /\ Pool!Kept(q) \in Seq(Conns) /\ Len(Pool!Kept(q)) <= Len(q)
           /\ Pool!Range1(Pool!Kept(q)) = Pool!Range1(q) \ v8
           /\ \E f \in [DOMAIN Pool!Kept(q) -> DOMAIN q] :
                 /\ \A n \in DOMAIN Pool!Kept(q) : Pool!Kept(q)[n] = q[f[n]]
                 /\ \A n, k \in DOMAIN Pool!Kept(q) : f[n] = f[k] => n = k
<1> DEFINE stale == v8
<1> DEFINE P == {i \in DOMAIN q : q[i] \notin stale}
           size == Pool!Cardinality(P)
           upto(i) == Pool!Cardinality({j \in P : j <= i})
           nth(n) == CHOOSE i \in P : upto(i) = n
           f == [n \in 1 .. size |-> nth(n)]
<1>1. DOMAIN q = 1 .. Len(q) /\ Len(q) \in Nat /\ \A i \in DOMAIN q : q[i] \in Conns
  OBVIOUS
<1>2. P \in SUBSET (1 .. Len(q))
  BY <1>1
<1>3. /\ size \in 0 .. Len(q)
      /\ \A i \in P : upto(i) \in 1 .. size
      /\ \A i, k \in P : upto(i) = upto(k) => i = k
      /\ \A n \in 1 .. size : \E i \in P : upto(i) = n
  <2> HIDE DEF P
  <2> QED
    BY <1>1, <1>2, Ranks
<1>4. Pool!Kept(q) = [n \in 1 .. size |-> q[nth(n)]]
  BY DEF Pool!Kept
<1> HIDE DEF size, upto
<1>5. \A n \in 1 .. size : nth(n) \in P /\ upto(nth(n)) = n
  BY <1>3
<1>6. \A i \in P : nth(upto(i)) = i
  BY <1>3
<1> HIDE DEF nth
<1>7. DOMAIN Pool!Kept(q) = 1 .. size /\ \A n \in 1 .. size : Pool!Kept(q)[n] = q[nth(n)]
  BY <1>4
<1>8. Pool!Kept(q) \in Seq(Conns) /\ Len(Pool!Kept(q)) = size
  <2>1. \A n \in 1 .. size : q[nth(n)] \in Conns
    BY <1>1, <1>2, <1>5
  <2>2. size \in Nat
    BY <1>1, <1>3
  <2> QED
    BY <1>4, <2>1, <2>2
<1>9. \A c : c \in Pool!Range1(Pool!Kept(q)) <=> c \in Pool!Range1(q) \ stale
  <2>1. ASSUME NEW n \in 1 .. size PROVE q[nth(n)] \in Pool!Range1(q) \ stale
    BY <1>5 DEF Pool!Range1
  <2>2. ASSUME NEW i \in P PROVE upto(i) \in DOMAIN Pool!Kept(q) /\ Pool!Kept(q)[upto(i)] = q[i]
    BY <1>3, <1>6, <1>7
  <2>3. \A c \in Pool!Range1(q) \ stale : \E i \in P : c = q[i]
    BY DEF Pool!Range1
  <2> HIDE DEF P
  <2> QED
    BY <1>7, <2>1, <2>2, <2>3 DEF Pool!Range1
<1>10. /\ f \in [DOMAIN Pool!Kept(q) -> DOMAIN q]
       /\ \A n \in DOMAIN Pool!Kept(q) : Pool!Kept(q)[n] = q[f[n]]
       /\ \A n, k \in DOMAIN Pool!Kept(q) : f[n] = f[k] => n = k
  BY <1>5, <1>7
<1>11. size <= Len(q)
  BY <1>1, <1>3
<1> QED
  BY <1>8, <1>9, <1>10, <1>11

\* A row after its newest connection was taken, and after one was put behind it.
LEMMA TakenRow ==
    ASSUME NEW q \in Seq(Conns), q # <<>>
    PROVE  LET r == SubSeq(q, 1, Len(q) - 1) IN
           /\ r \in Seq(Conns) /\ Len(r) = Len(q) - 1 /\ Len(q) \in DOMAIN q
           /\ q[Len(q)] \in Conns
           /\ \A i \in DOMAIN r : i \in DOMAIN q \ {Len(q)} /\ r[i] = q[i]
           /\ \A i \in DOMAIN q \ {Len(q)} : i \in DOMAIN r
<1>1. Len(q) \in Nat /\ Len(q) > 0 /\ DOMAIN q = 1 .. Len(q) /\ \A i \in 1 .. Len(q) :
        q[i] \in Conns
  BY EmptySeq
<1> DEFINE r == SubSeq(q, 1, Len(q) - 1)
<1>2. r \in Seq(Conns) /\ Len(r) = Len(q) - 1 /\ \A i \in 1 .. Len(q) - 1 : r[i] = q[i]
  BY <1>1, SubSeqProperties
<1>3. DOMAIN r = 1 .. Len(q) - 1
  BY <1>2
<1> HIDE DEF r
<1>4. /\ \A i \in DOMAIN r : i \in DOMAIN q \ {Len(q)} /\ r[i] = q[i]
      /\ \A i \in DOMAIN q \ {Len(q)} : i \in DOMAIN r
  BY <1>1, <1>2, <1>3
<1> QED
  BY <1>1, <1>2, <1>4 DEF r

LEMMA PushedRow ==
    ASSUME NEW q \in Seq(Conns), NEW d \in 0 .. Len(q), NEW c \in Conns
    PROVE  LET r == Append(SubSeq(q, d + 1, Len(q)), c) IN
           /\ r \in Seq(Conns) /\ Len(r) = Len(q) - d + 1
           /\ r[Len(q) - d + 1] = c
           /\ \A i \in 1 .. Len(q) - d : r[i] = q[i + d]
<1>1. Len(q) \in Nat /\ DOMAIN q = 1 .. Len(q) /\ \A i \in 1 .. Len(q) : q[i] \in Conns
  OBVIOUS
<1> DEFINE m == SubSeq(q, d + 1, Len(q))
<1>2. m \in Seq(Conns) /\ Len(m) = Len(q) - d /\ \A i \in 1 .. Len(q) - d : m[i] = q[i + d]
  <2>1. d + 1 \in 1 .. Len(q) + 1 /\ Len(q) \in (d + 1) - 1 .. Len(q)
    BY <1>1
  <2>2. /\ m \in Seq(Conns) /\ Len(m) = Len(q) - (d + 1) + 1
        /\ \A i \in 1 .. Len(q) - (d + 1) + 1 : m[i] = q[(d + 1) + i - 1]
    BY <2>1, SubSeqProperties
  <2>3. Len(q) - (d + 1) + 1 = Len(q) - d /\ \A i \in Int : (d + 1) + i - 1 = i + d
    BY <1>1
  <2> HIDE DEF m
  <2>4. ASSUME NEW i \in 1 .. Len(q) - d PROVE m[i] = q[i + d]
    <3>1. i \in 1 .. Len(q) - (d + 1) + 1 /\ i \in Int
      BY <1>1, <2>3
    <3>2. m[i] = q[(d + 1) + i - 1] /\ (d + 1) + i - 1 = i + d
      BY <2>2, <2>3, <3>1, Zenon
    <3> QED
      BY <3>2, Zenon
  <2> QED
    BY <2>2, <2>3, <2>4, Zenon
<1> HIDE DEF m
<1>3. /\ Append(m, c) \in Seq(Conns) /\ Len(Append(m, c)) = Len(q) - d + 1
      /\ Append(m, c)[Len(q) - d + 1] = c
      /\ \A i \in 1 .. Len(q) - d : Append(m, c)[i] = m[i]
  BY <1>1, <1>2
<1> QED
  BY <1>2, <1>3 DEF m

-----------------------------------------------------------------------------
LEMMA TypesKept ==
    ASSUME Pool!TypeOK, Pool!InHands, Pool!SweeperAssumption, Pool!ConnsAssumption,
             Pool!LimitsAssumption, [Pool!Next]_(Pool!vars)
    PROVE  Pool!TypeOK' /\ Pool!InHands'
<1> DEFINE rows == v1  entries == v2  total == v3  pc == v4  conn == v5  host == v6
           pend == v7  stale == v8  unusable == v9
<1> USE DEF Pool!Everyone
<1>0. Wrap \in Nat \ {0} /\ total \in Int
  BY DEF Pool!TypeOK, Pool!LimitsAssumption
<1>1. ASSUME NEW n \in Int PROVE (total + n) % Wrap \in 0 .. Wrap - 1
             /\ (total - n) % Wrap \in 0 .. Wrap - 1
  BY <1>0, ModRange
<1>2. CASE UNCHANGED Pool!vars
  BY <1>2 DEF Pool!vars, Pool!TypeOK, Pool!InHands, Pool!Pcs
<1>3. ASSUME NEW t \in Threads, NEW h \in Hosts, Pool!Get(t, h) PROVE Pool!TypeOK'
             /\ Pool!InHands'
  BY <1>3 DEF Pool!Get, Pool!TypeOK, Pool!InHands, Pool!Pcs, Pool!SweeperAssumption
<1>4. ASSUME NEW t \in Threads, Pool!TakeNewest(t) PROVE Pool!TypeOK' /\ Pool!InHands'
  <2> DEFINE q == rows[host[t]]
  <2>1. q \in Seq(Conns) /\ q # <<>>
    BY <1>4 DEF Pool!TypeOK, Pool!TakeNewest
  <2>2. SubSeq(q, 1, Len(q) - 1) \in Seq(Conns) /\ q[Len(q)] \in Conns
    BY <2>1, TakenRow
  <2>3. total' \in 0 .. Wrap - 1 /\ entries' \subseteq Hosts
    BY <1>1, <1>4 DEF Pool!TakeNewest, Pool!Minus, Pool!TypeOK
  <2>4. rows' \in [Hosts -> Seq(Conns)]
    BY <1>4, <2>2 DEF Pool!TakeNewest, Pool!TypeOK
  <2>5. /\ pc[t] = "get" /\ conn' = [conn EXCEPT ![t] = q[Len(q)]] /\ pc'
             = [pc EXCEPT ![t] = "check"]
        /\ UNCHANGED <<host, pend, stale, unusable>>
    BY <1>4 DEF Pool!TakeNewest
  <2> HIDE DEF q
  <2> QED
    BY <2>2, <2>3, <2>4, <2>5 DEF Pool!TypeOK, Pool!InHands, Pool!Pcs, Pool!SweeperAssumption,
       Pool!ConnsAssumption
<1>5. ASSUME NEW t \in Threads, Pool!FindNone(t) PROVE Pool!TypeOK' /\ Pool!InHands'
  BY <1>5 DEF Pool!FindNone, Pool!TypeOK, Pool!InHands, Pool!Pcs, Pool!SweeperAssumption
<1>6. ASSUME NEW t \in Threads, Pool!Check(t) PROVE Pool!TypeOK' /\ Pool!InHands'
  BY <1>6 DEF Pool!Check, Pool!TypeOK, Pool!InHands, Pool!Pcs, Pool!SweeperAssumption
<1>7. ASSUME NEW t \in Threads, Pool!Dial(t) PROVE Pool!TypeOK' /\ Pool!InHands'
  <2>1. CASE pc' = [pc EXCEPT ![t] = "home"] /\ UNCHANGED <<conn, stale, unusable>>
    BY <1>7, <2>1 DEF Pool!Dial, Pool!TypeOK, Pool!InHands, Pool!Pcs, Pool!SweeperAssumption,
       Pool!ConnsAssumption
  <2>2. ASSUME NEW c \in Conns, conn' = [conn EXCEPT ![t] = c], pc' = [pc EXCEPT ![t] = "using"],
               stale' = stale \ {c} /\ unusable' = unusable \ {c}
        PROVE  Pool!TypeOK' /\ Pool!InHands'
    BY <1>7, <2>2 DEF Pool!Dial, Pool!TypeOK, Pool!InHands, Pool!Pcs, Pool!SweeperAssumption,
       Pool!ConnsAssumption
  <2> QED
    BY <1>7, <2>1, <2>2 DEF Pool!Dial
<1>8. ASSUME NEW t \in Threads, Pool!Close(t) \/ Pool!Put(t) PROVE Pool!TypeOK' /\ Pool!InHands'
  BY <1>8 DEF Pool!Close, Pool!Put, Pool!TypeOK, Pool!InHands, Pool!Pcs, Pool!SweeperAssumption
<1>9. ASSUME NEW t \in Threads, Pool!Push(t) PROVE Pool!TypeOK' /\ Pool!InHands'
  <2> DEFINE q == rows[host[t]]
             dropped == IF Len(q) < MaxPerHost THEN 0 ELSE Len(q) - MaxPerHost + 1
             r == Append(SubSeq(q, dropped + 1, Len(q)), conn[t])
             d == {q[i] : i \in 1 .. dropped}
  <2>1. q \in Seq(Conns) /\ conn[t] \in Conns /\ Len(q) \in Nat
    BY <1>9 DEF Pool!TypeOK, Pool!InHands, Pool!Push
  <2>2. dropped \in 0 .. Len(q)
    <3>1. MaxPerHost \in Nat \ {0}
      BY DEF Pool!LimitsAssumption
    <3>2. CASE Len(q) < MaxPerHost
      BY <2>1, <3>2
    <3>3. CASE ~ (Len(q) < MaxPerHost)
      BY <2>1, <3>1, <3>3
    <3> QED
      BY <3>2, <3>3
  <2>3. d \subseteq Conns
    BY <2>1, <2>2
  <2>4. r \in Seq(Conns)
    <3> HIDE DEF dropped, q
    <3> QED
      BY <2>1, <2>2, PushedRow
  <2>5. /\ rows' = [rows EXCEPT ![host[t]] = r] /\ pend' = [pend EXCEPT ![t] = d]
        /\ pc[t] = "push" /\ pc' = [pc EXCEPT ![t] = "add"] /\ conn' = [conn EXCEPT ![t] = None]
        /\ entries' = entries \cup {host[t]} /\ stale' = stale \ {conn[t]}
        /\ UNCHANGED <<total, host, unusable>>
    BY <1>9 DEF Pool!Push
  <2> HIDE DEF d, r
  <2> QED
    BY <2>3, <2>4, <2>5 DEF Pool!TypeOK, Pool!InHands, Pool!Pcs, Pool!SweeperAssumption
<1>10. ASSUME NEW t \in Threads, Pool!Add(t) PROVE Pool!TypeOK' /\ Pool!InHands'
  <2>1. total' \in 0 .. Wrap - 1
    BY <1>1, <1>10 DEF Pool!Add, Pool!Plus
  <2>2. PICK next \in {"sub", "home"} : pc' = [pc EXCEPT ![t] = next]
             /\ (pend[t] # {} => next = "sub")
    BY <1>10 DEF Pool!Add
  <2> QED
    BY <1>10, <2>1, <2>2 DEF Pool!Add, Pool!TypeOK, Pool!InHands, Pool!Pcs,
       Pool!SweeperAssumption
<1>11. ASSUME NEW t \in Pool!Everyone, Pool!Sub(t) PROVE Pool!TypeOK' /\ Pool!InHands'
  <2>1. Pool!IsFiniteSet(pend[t])
    BY Counts DEF Pool!TypeOK, Pool!ConnsAssumption
  <2>2. Pool!Cardinality(pend[t]) \in Int
    BY PoolSizes, <2>1, FS_CardinalityType
  <2> QED
    BY <1>1, <1>11, <2>2 DEF Pool!Sub, Pool!Minus, Pool!TypeOK, Pool!InHands, Pool!Pcs,
       Pool!SweeperAssumption
<1>12. CASE Pool!Sweep
  <2>1. \A h \in Hosts : Pool!Kept(rows[h]) \in Seq(Conns)
    BY KeptRow DEF Pool!TypeOK
  <2> QED
    BY <1>12, <2>1 DEF Pool!Sweep, Pool!TypeOK, Pool!InHands, Pool!Pcs, Pool!SweeperAssumption
<1>13. ASSUME NEW c \in Conns, Pool!Age(c) \/ Pool!PeerActs(c) PROVE Pool!TypeOK' /\ Pool!InHands'
  BY <1>13 DEF Pool!Age, Pool!PeerActs, Pool!TypeOK, Pool!InHands, Pool!Pcs
<1> QED
  BY <1>2, <1>3, <1>4, <1>5, <1>6, <1>7, <1>8, <1>9, <1>10, <1>11, <1>12, <1>13
     DEF Pool!Next, Pool!Step

-----------------------------------------------------------------------------
\* No connection is in two places of the rows.
Apart(R) ==
    \A g, h \in Hosts : \A i \in DOMAIN R[g], j \in DOMAIN R[h] : R[g][i] = R[h][j] => g = h
    /\ i = j
In(R) == UNION {Pool!Range1(R[h]) : h \in Hosts}

LEMMA IsIn == ASSUME NEW R, NEW c PROVE c \in In(R) <=> \E h \in Hosts : \E i \in DOMAIN R[h] :
    c = R[h][i]
BY DEF In, Pool!Range1

\* Rows that have lost some connections.
LEMMA RowsShrink ==
    ASSUME NEW R, NEW S, Apart(R),
           \A h \in Hosts : \E f \in [DOMAIN S[h] -> DOMAIN R[h]] :
               /\ \A n \in DOMAIN S[h] : S[h][n] = R[h][f[n]]
               /\ \A n, k \in DOMAIN S[h] : f[n] = f[k] => n = k
    PROVE  Apart(S)
<1> SUFFICES ASSUME NEW g \in Hosts, NEW h \in Hosts, NEW i \in DOMAIN S[g],
                      NEW j \in DOMAIN S[h],
                    S[g][i] = S[h][j]
             PROVE  g = h /\ i = j
  BY DEF Apart
<1>1. PICK f \in [DOMAIN S[g] -> DOMAIN R[g]] :
         /\ \A n \in DOMAIN S[g] : S[g][n] = R[g][f[n]]
         /\ \A n, k \in DOMAIN S[g] : f[n] = f[k] => n = k
  OBVIOUS
<1>2. PICK e \in [DOMAIN S[h] -> DOMAIN R[h]] :
         /\ \A n \in DOMAIN S[h] : S[h][n] = R[h][e[n]]
         /\ \A n, k \in DOMAIN S[h] : e[n] = e[k] => n = k
  OBVIOUS
<1>3. R[g][f[i]] = R[h][e[j]]
  BY <1>1, <1>2
<1>4. g = h
  BY <1>1, <1>2, <1>3 DEF Apart
<1>5. S[g][j] = R[g][f[j]] /\ j \in DOMAIN S[g]
  BY <1>1, <1>4
<1>6. f[i] = f[j]
  BY <1>1, <1>3, <1>4, <1>5 DEF Apart
<1> QED
  BY <1>1, <1>4, <1>5, <1>6

LEMMA TakenRows ==
    ASSUME NEW R \in [Hosts -> Seq(Conns)], Apart(R), NEW g \in Hosts, NEW S,
           R[g] # <<>>, S = [R EXCEPT ![g] = SubSeq(R[g], 1, Len(R[g]) - 1)]
    PROVE  LET c == R[g][Len(R[g])] IN
           Apart(S) /\ In(S) = In(R) \ {c} /\ c \in In(R) /\ c \in Conns
<1> DEFINE q == R[g]  r == SubSeq(q, 1, Len(q) - 1)  c == q[Len(q)]
<1>1. q \in Seq(Conns) /\ q # <<>>
  OBVIOUS
<1>2. /\ r \in Seq(Conns) /\ Len(q) \in DOMAIN q /\ c \in Conns
      /\ \A i \in DOMAIN r : i \in DOMAIN q \ {Len(q)} /\ r[i] = q[i]
      /\ \A i \in DOMAIN q \ {Len(q)} : i \in DOMAIN r
  BY <1>1, TakenRow
<1>3. S[g] = r /\ \A h \in Hosts \ {g} : S[h] = R[h]
  OBVIOUS
<1> HIDE DEF r
<1>4. \A h \in Hosts : \A n \in DOMAIN S[h] : n \in DOMAIN R[h] /\ S[h][n] = R[h][n]
  BY <1>2, <1>3
<1>5. Apart(S)
  BY <1>4 DEF Apart
<1>6. \A x : x \in In(S) <=> x \in In(R) /\ x # c
  <2>1. ASSUME NEW x, x \in In(S) PROVE x \in In(R) /\ x # c
    <3>1. PICK h \in Hosts : \E i \in DOMAIN S[h] : x = S[h][i]
      BY <2>1 DEF In, Pool!Range1
    <3>2. PICK i \in DOMAIN S[h] : x = S[h][i]
      BY <3>1
    <3>3. x = R[h][i] /\ i \in DOMAIN R[h]
      BY <1>4, <3>2
    <3>4. x # c
      BY <1>2, <1>3, <3>2, <3>3 DEF Apart
    <3> QED
      BY <3>3, <3>4, IsIn
  <2>2. ASSUME NEW x, x \in In(R), x # c PROVE x \in In(S)
    <3>1. PICK h \in Hosts : \E i \in DOMAIN R[h] : x = R[h][i]
      BY <2>2, IsIn
    <3>2. PICK i \in DOMAIN R[h] : x = R[h][i]
      BY <3>1
    <3>3. i \in DOMAIN S[h] /\ S[h][i] = x
      BY <1>2, <1>3, <2>2, <3>2
    <3> QED
      BY <3>3, IsIn
  <2> QED
    BY <2>1, <2>2
<1>7. c \in In(R)
  BY <1>2, IsIn
<1> QED
  BY <1>2, <1>5, <1>6, <1>7

\* The rows after a connection was put into that of `g', which had too many by `n'.
Pushed(R, g, n, c) == [R EXCEPT ![g] = Append(SubSeq(R[g], n + 1, Len(R[g])), c)]
Oldest(R, g, n) == {R[g][i] : i \in 1 .. n}

LEMMA PushedRows ==
    ASSUME NEW R \in [Hosts -> Seq(Conns)], Apart(R), NEW g \in Hosts, NEW c \in Conns \ In(R),
           NEW n \in 0 .. Len(R[g])
    PROVE  /\ Apart(Pushed(R, g, n, c)) /\ Oldest(R, g, n) \subseteq In(R)
           /\ In(Pushed(R, g, n, c)) = (In(R) \ Oldest(R, g, n)) \cup {c}
<1> DEFINE q == R[g]  r == Append(SubSeq(q, n + 1, Len(q)), c)  m == Len(q) - n
           S == Pushed(R, g, n, c)  d == Oldest(R, g, n)
<1>0. S = [R EXCEPT ![g] = r] /\ d = {q[i] : i \in 1 .. n}
  BY DEF Pushed, Oldest
<1> HIDE DEF S, d
<1>1. q \in Seq(Conns) /\ Len(q) \in Nat /\ DOMAIN q = 1 .. Len(q) /\ n \in Nat /\ n <= Len(q)
      /\ m \in Nat
  OBVIOUS
<1>2. r \in Seq(Conns) /\ Len(r) = m + 1 /\ r[m + 1] = c /\ \A i \in 1 .. m : r[i] = q[i + n]
  <2>1. q \in Seq(Conns) /\ n \in 0 .. Len(q) /\ c \in Conns
    OBVIOUS
  <2> HIDE DEF q
  <2> QED
    BY <2>1, PushedRow
<1>3. S[g] = r /\ \A h \in Hosts \ {g} : S[h] = R[h]
  BY <1>0
<1> HIDE DEF r
<1>4. DOMAIN r = 1 .. m + 1
  BY <1>2
<1>5. \A i \in 1 .. m : i + n \in DOMAIN q /\ i + n > n
  BY <1>1
<1>6. \A i \in DOMAIN q : i > n => i - n \in 1 .. m /\ (i - n) + n = i
  BY <1>1
<1>7. \A i \in DOMAIN r : i = m + 1 \/ i \in 1 .. m
  BY <1>1, <1>4
<1> HIDE DEF m
<1>8. \A h \in Hosts : \A i \in DOMAIN R[h] : R[h][i] # c
  BY IsIn
<1>9. Apart(S)
  <2> SUFFICES ASSUME NEW a \in Hosts, NEW b \in Hosts, NEW i \in DOMAIN S[a],
                        NEW j \in DOMAIN S[b],
                      S[a][i] = S[b][j]
               PROVE  a = b /\ i = j
    BY DEF Apart
  <2>1. CASE a # g /\ b # g
    BY <1>3, <2>1 DEF Apart
  <2>2. CASE a = g /\ b # g
    <3>1. S[b][j] = R[b][j] /\ j \in DOMAIN R[b] /\ i \in DOMAIN r /\ S[a][i] = r[i]
      BY <1>3, <2>2
    <3>2. i \in 1 .. m
      BY <1>2, <1>7, <1>8, <3>1
    <3> QED
      BY <1>2, <1>5, <2>2, <3>1, <3>2 DEF Apart
  <2>3. CASE a # g /\ b = g
    <3>1. S[a][i] = R[a][i] /\ i \in DOMAIN R[a] /\ j \in DOMAIN r /\ S[b][j] = r[j]
      BY <1>3, <2>3
    <3>2. j \in 1 .. m
      BY <1>2, <1>7, <1>8, <3>1
    <3> QED
      BY <1>2, <1>5, <2>3, <3>1, <3>2 DEF Apart
  <2>4. CASE a = g /\ b = g
    <3>1. i \in DOMAIN r /\ j \in DOMAIN r /\ r[i] = r[j]
      BY <1>3, <2>4
    <3>2. CASE i \in 1 .. m /\ j \in 1 .. m
      <4>1. i + n = j + n
        BY <1>2, <1>5, <3>1, <3>2 DEF Apart
      <4> QED
        BY <1>1, <2>4, <3>2, <4>1
    <3>3. CASE i \notin 1 .. m \/ j \notin 1 .. m
      BY <1>2, <1>5, <1>7, <1>8, <2>4, <3>1, <3>3
    <3> QED
      BY <3>2, <3>3
  <2> QED
    BY <2>1, <2>2, <2>3, <2>4
<1>10. \A x \in In(S) : x \in (In(R) \ d) \cup {c}
  <2> SUFFICES ASSUME NEW x \in In(S), x # c PROVE x \in In(R) \ d
    OBVIOUS
  <2>1. PICK h \in Hosts : \E i \in DOMAIN S[h] : x = S[h][i]
    BY DEF In, Pool!Range1
  <2>2. PICK i \in DOMAIN S[h] : x = S[h][i]
    BY <2>1
  <2>3. CASE h # g
    <3>1. i \in DOMAIN R[h] /\ x = R[h][i]
      BY <1>3, <2>2, <2>3
    <3>2. ASSUME NEW k \in 1 .. n, x = q[k] PROVE FALSE
      <4>1. k \in DOMAIN q
        BY <1>1
      <4>2. R[h][i] = R[g][k]
        BY <3>1, <3>2
      <4>3. h = g
        BY <3>1, <4>1, <4>2 DEF Apart
      <4> QED
        BY <2>3, <4>3
    <3> QED
      BY <1>0, <3>1, <3>2, IsIn
  <2>4. CASE h = g
    <3>1. i \in 1 .. m /\ x = q[i + n] /\ i + n \in DOMAIN q /\ i + n > n
      BY <1>2, <1>3, <1>5, <1>7, <2>2, <2>4
    <3>2. ASSUME NEW k \in 1 .. n, x = q[k] PROVE FALSE
      <4>1. k \in DOMAIN q /\ k <= n /\ k \in Int
        BY <1>1
      <4>2. k = i + n
        BY <3>1, <3>2, <4>1 DEF Apart
      <4> QED
        BY <1>1, <3>1, <4>1, <4>2
    <3> QED
      BY <1>0, <3>1, <3>2, IsIn
  <2> QED
    BY <2>3, <2>4
<1>11. \A x \in (In(R) \ d) \cup {c} : x \in In(S)
  <2>1. c \in In(S)
    <3>1. m + 1 \in DOMAIN r
      BY <1>1, <1>4 DEF m
    <3> QED
      BY <1>2, <1>3, <3>1, IsIn
  <2>2. ASSUME NEW x \in In(R) \ d PROVE x \in In(S)
    <3>1. PICK h \in Hosts : \E i \in DOMAIN R[h] : x = R[h][i]
      BY IsIn
    <3>2. PICK i \in DOMAIN R[h] : x = R[h][i]
      BY <3>1
    <3>3. CASE h # g
      BY <1>3, <3>2, <3>3, IsIn
    <3>4. CASE h = g
      <4>1. i > n
        BY <1>0, <1>1, <3>2, <3>4
      <4>2. i - n \in 1 .. m /\ (i - n) + n = i
        BY <1>6, <3>2, <3>4, <4>1
      <4>3. i - n \in DOMAIN r /\ r[i - n] = x
        BY <1>1, <1>2, <1>4, <3>2, <3>4, <4>2 DEF m
      <4> QED
        BY <1>3, <4>3, IsIn
    <3> QED
      BY <3>3, <3>4
  <2> QED
    BY <2>1, <2>2
<1>12. d \subseteq In(R)
  BY <1>0, <1>1, IsIn
<1> QED
  BY <1>9, <1>10, <1>11, <1>12 DEF S, d

LEMMA SweptRows ==
    ASSUME NEW R \in [Hosts -> Seq(Conns)], Apart(R), NEW S, S = [h \in Hosts |-> Pool!Kept(R[h])]
    PROVE  Apart(S) /\ In(S) = In(R) \ v8
<1> DEFINE stale == v8
<1>1. \A h \in Hosts : /\ Pool!Range1(S[h]) = Pool!Range1(R[h]) \ stale
                       /\ \E f \in [DOMAIN S[h] -> DOMAIN R[h]] :
                             /\ \A n \in DOMAIN S[h] : S[h][n] = R[h][f[n]]
                             /\ \A n, k \in DOMAIN S[h] : f[n] = f[k] => n = k
  <2> SUFFICES ASSUME NEW h \in Hosts
               PROVE  /\ Pool!Range1(Pool!Kept(R[h])) = Pool!Range1(R[h]) \ stale
                      /\ \E f \in [DOMAIN Pool!Kept(R[h]) -> DOMAIN R[h]] :
                            /\ \A n \in DOMAIN Pool!Kept(R[h]) : Pool!Kept(R[h])[n] = R[h][f[n]]
                            /\ \A n, k \in DOMAIN Pool!Kept(R[h]) : f[n] = f[k] => n = k
    OBVIOUS
  <2>1. R[h] \in Seq(Conns)
    OBVIOUS
  <2> QED
    BY Zenon, <2>1, KeptRow
<1>2. Apart(S)
  BY <1>1, RowsShrink
<1>3. In(S) = In(R) \ stale
  BY <1>1 DEF In
<1> QED
  BY <1>2, <1>3

-----------------------------------------------------------------------------
\* What each step that changes a row does to the connections that are pooled.
LEMMA HolderFrom ==
    ASSUME Apart(v1'), \A v, u \in Threads : v5'[v] = v5'[u] /\ v5'[v] # None => v = u,
           Pool!Pooled' \cap Pool!Held' = {}
    PROVE  Pool!SingleHolder'
<1> DEFINE rows == v1
<1>1. \A g, h \in Hosts : \A i \in DOMAIN rows'[g], j \in DOMAIN rows'[h] :
          rows'[g][i] = rows'[h][j] => g = h /\ i = j
  BY DEF Apart
<1> QED
  BY <1>1 DEF Pool!SingleHolder

LEMMA TakenHolder ==
    ASSUME Pool!TypeOK, Pool!InHands, Pool!SingleHolder, NEW t \in Threads, Pool!TakeNewest(t)
    PROVE  /\ Pool!SingleHolder' /\ v5'[t] \in Pool!Pooled /\ Pool!Pooled'
                = Pool!Pooled \ {v5'[t]}
<1> DEFINE rows == v1  conn == v5  host == v6
<1> DEFINE g == host[t]  c == rows[g][Len(rows[g])]
<1>1. /\ rows \in [Hosts -> Seq(Conns)] /\ g \in Hosts /\ rows[g] # <<>>
      /\ rows' = [rows EXCEPT ![g] = SubSeq(rows[g], 1, Len(rows[g]) - 1)]
      /\ conn \in [Threads -> Conns \cup {None}] /\ conn' = [conn EXCEPT ![t] = c]
  BY DEF Pool!TypeOK, Pool!TakeNewest
<1>2. /\ Apart(rows) /\ Pool!Pooled = In(rows) /\ Pool!Pooled' = In(rows')
  <2>1. Apart(rows)
    BY DEF Pool!SingleHolder, Apart
  <2>2. Pool!Pooled = In(rows) /\ Pool!Pooled' = In(rows')
    BY Zenon DEF Pool!Pooled, In, Pool!Range1
  <2> QED
    BY <2>1, <2>2
<1>3. Apart(rows') /\ In(rows') = In(rows) \ {c} /\ c \in In(rows)
  <2> HIDE DEF g
  <2> QED
    BY <1>1, <1>2, TakenRows
<1>4. \A u \in Threads : conn[u] = c => c = None
  BY <1>1, <1>2, <1>3 DEF Pool!SingleHolder, Pool!Held
<1> HIDE DEF c
<1>5. \A v, u \in Threads : conn'[v] = conn'[u] /\ conn'[v] # None => v = u
  BY <1>1, <1>4 DEF Pool!SingleHolder
<1>6. Pool!Pooled' \cap Pool!Held' = {}
  <2>1. \A x \in Pool!Held' : x = c \/ x \in Pool!Held
    BY <1>1 DEF Pool!Held
  <2>2. \A x \in Pool!Held : x \notin Pool!Pooled
    BY DEF Pool!SingleHolder
  <2> QED
    BY <1>2, <1>3, <2>1, <2>2
<1>7. conn'[t] = c
  BY <1>1
<1>8. Pool!SingleHolder'
  BY <1>3, <1>5, <1>6, HolderFrom
<1> QED
  BY <1>2, <1>3, <1>7, <1>8

LEMMA PushedHolder ==
    ASSUME Pool!TypeOK, Pool!InHands, Pool!SingleHolder, Pool!ConnsAssumption,
             Pool!LimitsAssumption, NEW t \in Threads, Pool!Push(t)
    PROVE  /\ Pool!SingleHolder' /\ v7'[t] \subseteq Pool!Pooled /\ v5[t] \in Conns \ Pool!Pooled
           /\ Pool!Pooled' = (Pool!Pooled \ v7'[t]) \cup {v5[t]}
           /\ \A h \in Hosts : Len(v1[h]) <= MaxPerHost => Len(v1'[h]) <= MaxPerHost
           /\ v1'[v6[t]] # <<>> /\ \A h \in Hosts \ {v6[t]} : v1'[h] = v1[h]
<1> DEFINE rows == v1  conn == v5  host == v6  pend == v7
<1> DEFINE g == host[t]  q == rows[g]  c == conn[t]
           n == IF Len(q) < MaxPerHost THEN 0 ELSE Len(q) - MaxPerHost + 1
           d == {q[i] : i \in 1 .. n}
           r == Append(SubSeq(q, n + 1, Len(q)), c)
<1>1. /\ rows \in [Hosts -> Seq(Conns)] /\ g \in Hosts /\ conn \in [Threads -> Conns \cup {None}]
      /\ rows' = [rows EXCEPT ![g] = r] /\ pend' = [pend EXCEPT ![t] = d]
      /\ conn' = [conn EXCEPT ![t] = None] /\ pend \in [Pool!Everyone -> SUBSET Conns]
      /\ t \in Pool!Everyone
  BY DEF Pool!TypeOK, Pool!Push, Pool!Everyone
<1>2. c \in Conns /\ c # None
  BY <1>1 DEF Pool!InHands, Pool!Push
<1>3. c \in Conns \ In(rows)
  BY <1>1, <1>2 DEF Pool!SingleHolder, Pool!Held, Pool!Pooled, In
<1>4. q \in Seq(Conns) /\ Len(q) \in Nat /\ MaxPerHost \in Nat \ {0}
  BY <1>1 DEF Pool!LimitsAssumption
<1>5. n \in 0 .. Len(q) /\ (Len(q) <= MaxPerHost => Len(q) - n + 1 <= MaxPerHost)
  <2>1. CASE Len(q) < MaxPerHost
    BY <1>4, <2>1
  <2>2. CASE ~ (Len(q) < MaxPerHost)
    BY <1>4, <2>2
  <2> QED
    BY <2>1, <2>2
<1> HIDE DEF n
<1>6. r \in Seq(Conns) /\ Len(r) = Len(q) - n + 1
  <2> HIDE DEF q, c
  <2> QED
    BY <1>2, <1>4, <1>5, PushedRow
<1>7. /\ Apart(rows) /\ Pool!Pooled = In(rows) /\ Pool!Pooled' = In(rows')
  <2>1. Apart(rows)
    BY DEF Pool!SingleHolder, Apart
  <2>2. Pool!Pooled = In(rows) /\ Pool!Pooled' = In(rows')
    BY Zenon DEF Pool!Pooled, In, Pool!Range1
  <2> QED
    BY <2>1, <2>2
<1>8. Apart(rows') /\ In(rows') = (In(rows) \ d) \cup {c} /\ d \subseteq In(rows)
  <2>1. n \in 0 .. Len(rows[g]) /\ d = Oldest(rows, g, n) /\ rows' = Pushed(rows, g, n, c)
    BY <1>1, <1>5 DEF Oldest, Pushed
  <2>2. /\ rows \in [Hosts -> Seq(Conns)] /\ g \in Hosts /\ Apart(rows) /\ c \in Conns \ In(rows)
    BY <1>1, <1>3, <1>7
  <2> HIDE DEF g, c, d, q, r
  <2> QED
    BY <2>1, <2>2, PushedRows
<1> HIDE DEF d, r
<1>9. \A v, u \in Threads : conn'[v] = conn'[u] /\ conn'[v] # None => v = u
  BY <1>1 DEF Pool!SingleHolder
<1>10. Pool!Pooled' \cap Pool!Held' = {}
  <2>1. \A x \in Pool!Held' : x \in Pool!Held /\ x # c
    <3> SUFFICES ASSUME NEW u \in Threads, conn'[u] # None PROVE conn'[u] \in Pool!Held
                        /\ conn'[u] # c
      BY DEF Pool!Held
    <3>1. u # t /\ conn'[u] = conn[u]
      BY <1>1
    <3> QED
      BY <1>2, <3>1 DEF Pool!SingleHolder, Pool!Held
  <2>2. \A x \in Pool!Held : x \notin Pool!Pooled
    BY DEF Pool!SingleHolder
  <2> QED
    BY <1>7, <1>8, <2>1, <2>2
<1>11. pend'[t] = d /\ rows'[g] = r /\ \A h \in Hosts \ {g} : rows'[h] = rows[h]
  BY <1>1
<1>12. r # <<>>
  <2>1. Len(q) - n + 1 > 0
    BY <1>4, <1>5
  <2> QED
    BY <1>6, <2>1
<1>13. \A h \in Hosts : Len(rows[h]) <= MaxPerHost => Len(rows'[h]) <= MaxPerHost
  BY <1>5, <1>6, <1>11
<1>14. Pool!SingleHolder'
  BY <1>8, <1>9, <1>10, HolderFrom
<1> QED
  BY <1>3, <1>7, <1>8, <1>11, <1>12, <1>13, <1>14

LEMMA SweptHolder ==
    ASSUME Pool!TypeOK, Pool!SingleHolder, Pool!Sweep
    PROVE  /\ Pool!SingleHolder' /\ Pool!Pooled' = Pool!Pooled \ v8
           /\ \A h \in Hosts : Len(v1'[h]) <= Len(v1[h]) /\ Len(v1'[h]) \in Nat
              /\ Len(v1[h]) \in Nat
           /\ \A h \in Hosts : v1[h] = <<>> => v1'[h] = <<>>
<1> DEFINE rows == v1  conn == v5  stale == v8
<1>1. /\ rows \in [Hosts -> Seq(Conns)] /\ rows' = [h \in Hosts |-> Pool!Kept(rows[h])] /\ conn'
           = conn
  BY DEF Pool!TypeOK, Pool!Sweep
<1>2. /\ Apart(rows) /\ Pool!Pooled = In(rows) /\ Pool!Pooled' = In(rows')
  <2>1. Apart(rows)
    BY DEF Pool!SingleHolder, Apart
  <2>2. Pool!Pooled = In(rows) /\ Pool!Pooled' = In(rows')
    BY Zenon DEF Pool!Pooled, In, Pool!Range1
  <2> QED
    BY <2>1, <2>2
<1>3. Apart(rows') /\ In(rows') = In(rows) \ stale
  BY <1>1, <1>2, SweptRows
<1>4. Pool!SingleHolder'
  <2>1. Pool!Held' = Pool!Held /\ \A v, u \in Threads : conn'[v] = conn'[u] /\ conn'[v] # None
          => v = u
    BY <1>1 DEF Pool!Held, Pool!SingleHolder
  <2>2. Pool!Pooled' \cap Pool!Held' = {}
    BY <1>2, <1>3, <2>1 DEF Pool!SingleHolder
  <2> QED
    BY <1>3, <2>1, <2>2, HolderFrom
<1>5. ASSUME NEW h \in Hosts
      PROVE  /\ Len(rows'[h]) <= Len(rows[h]) /\ Len(rows'[h]) \in Nat /\ Len(rows[h]) \in Nat
             /\ rows[h] = <<>> => rows'[h] = <<>>
  <2>1. rows[h] \in Seq(Conns) /\ rows'[h] = Pool!Kept(rows[h])
    BY <1>1
  <2>2. rows'[h] \in Seq(Conns) /\ Len(rows'[h]) <= Len(rows[h])
    BY <2>1, KeptRow
  <2> QED
    BY <2>1, <2>2
<1> QED
  BY <1>2, <1>3, <1>4, <1>5

LEMMA HolderKept ==
    ASSUME Pool!TypeOK, Pool!InHands, Pool!SingleHolder, Pool!SweeperAssumption,
             Pool!ConnsAssumption, Pool!LimitsAssumption, [Pool!Next]_(Pool!vars)
    PROVE  Pool!SingleHolder'
<1> DEFINE rows == v1  conn == v5
<1>1. CASE UNCHANGED <<rows, conn>>
  BY <1>1 DEF Pool!SingleHolder, Pool!Pooled, Pool!Held
<1>2. ASSUME NEW t \in Threads, UNCHANGED rows, conn' = [conn EXCEPT ![t] = None]
      PROVE Pool!SingleHolder'
  <2>1. conn \in [Threads -> Conns \cup {None}] /\ Pool!Pooled' = Pool!Pooled /\ rows' = rows
    BY <1>2 DEF Pool!TypeOK, Pool!Pooled
  <2>2. \A u \in Threads : conn'[u] # None => conn'[u] = conn[u]
    BY <1>2, <2>1
  <2>3. Pool!Held' \subseteq Pool!Held
    BY <2>2 DEF Pool!Held
  <2>4. \A v, u \in Threads : conn'[v] = conn'[u] /\ conn'[v] # None => v = u
    BY <2>2 DEF Pool!SingleHolder
  <2> QED
    BY <2>1, <2>3, <2>4 DEF Pool!SingleHolder
<1>3. ASSUME NEW t \in Threads, Pool!Dial(t) PROVE Pool!SingleHolder'
  <2>1. ASSUME NEW c \in Conns \ (Pool!Pooled \cup Pool!Held), conn' = [conn EXCEPT ![t] = c]
        PROVE Pool!SingleHolder'
    <3>1. rows' = rows /\ conn \in [Threads -> Conns \cup {None}] /\ Pool!Pooled' = Pool!Pooled
      BY <1>3 DEF Pool!Dial, Pool!TypeOK, Pool!Pooled
    <3>2. \A u \in Threads : conn[u] # c
      BY <2>1, <3>1 DEF Pool!Held, Pool!ConnsAssumption
    <3>3. \A v, u \in Threads : conn'[v] = conn'[u] /\ conn'[v] # None => v = u
      BY <2>1, <3>1, <3>2 DEF Pool!SingleHolder
    <3>4. Pool!Held' \subseteq Pool!Held \cup {c}
      BY <2>1, <3>1 DEF Pool!Held
    <3>5. Pool!Pooled' \cap Pool!Held' = {}
      BY <2>1, <3>1, <3>4 DEF Pool!SingleHolder
    <3> QED
      BY <3>1, <3>3, <3>5 DEF Pool!SingleHolder
  <2> QED
    BY <1>1, <1>3, <2>1 DEF Pool!Dial
<1>4. CASE Pool!Sweep
  BY <1>4, SweptHolder
<1>5. ASSUME NEW t \in Threads, Pool!Step(t) PROVE Pool!SingleHolder'
  BY <1>1, <1>2, <1>3, <1>5, TakenHolder, PushedHolder
     DEF Pool!Step, Pool!Get, Pool!FindNone, Pool!Check, Pool!Close, Pool!Put, Pool!Add
<1> QED
  BY <1>1, <1>4, <1>5 DEF Pool!Next, Pool!Sub, Pool!Age, Pool!PeerActs, Pool!vars

-----------------------------------------------------------------------------
\* The numbers that the total is about.
OwedIn(p) == {o \in Pool!Everyone \X Conns : o[2] \in p[o[1]]}
InRows == Pool!Cardinality(Pool!Pooled)
ToAdd == Pool!Cardinality(Pool!Adding)
ToTake == Pool!Cardinality(Pool!Owed)
Putting == Pool!Cardinality({t \in Threads : v4[t] = "push"})

LEMMA PoolNumbers ==
    ASSUME Pool!TypeOK, Pool!SweeperAssumption, Pool!ConnsAssumption, Pool!LimitsAssumption
    PROVE  /\ InRows \in Nat /\ ToAdd \in Nat /\ ToTake \in Nat /\ Putting \in Nat
           /\ Pool!Cardinality(Threads) \in Nat /\ ToAdd + Putting <= Pool!Cardinality(Threads)
           /\ Pool!IsFiniteSet(Pool!Pooled) /\ Pool!IsFiniteSet(Pool!Adding)
           /\ Pool!IsFiniteSet(Pool!Owed) /\ Pool!IsFiniteSet(v2)
           /\ Pool!IsFiniteSet({t \in Threads : v4[t] = "push"})
           /\ InRows - ToAdd + ToTake < Wrap - MaxTotal /\ Wrap \in Nat \ {0}
           /\ MaxTotal \in Nat \ {0}
<1> DEFINE rows == v1  entries == v2  pc == v4
<1> DEFINE T == Pool!Cardinality(Threads)  C == Pool!Cardinality(Conns)
           pushers == {t \in Threads : pc[t] = "push"}
<1>1. T \in Nat /\ C \in Nat /\ Pool!IsFiniteSet(Threads) /\ Pool!IsFiniteSet(Conns)
      /\ Sweeper \notin Threads
  BY PoolSizes, FS_CardinalityType DEF Pool!SweeperAssumption, Pool!ConnsAssumption
<1>2. /\ Wrap \in Nat \ {0} /\ MaxTotal \in Nat \ {0} /\ Wrap > MaxTotal + C * (T + 2)
  BY <1>1 DEF Pool!LimitsAssumption
<1>3. Pool!IsFiniteSet(Pool!Everyone) /\ Pool!Cardinality(Pool!Everyone) = T + 1
  <2>1. Threads \cap {Sweeper} = {}
    BY <1>1
  <2>2. Pool!IsFiniteSet({Sweeper}) /\ Pool!Cardinality({Sweeper}) = 1
    BY OneCounts
  <2>3. /\ Pool!IsFiniteSet(Threads \cup {Sweeper})
        /\ Pool!Cardinality(Threads \cup {Sweeper})
             = Pool!Cardinality(Threads) + Pool!Cardinality({Sweeper})
    BY <1>1, <2>1, <2>2, MoreCount
  <2> QED
    BY <2>2, <2>3 DEF Pool!Everyone
<1>4. Pool!Pooled \in SUBSET Conns
  <2>1. ASSUME NEW h \in Hosts, NEW i \in DOMAIN rows[h] PROVE rows[h][i] \in Conns
    <3>1. rows[h] \in Seq(Conns)
      BY DEF Pool!TypeOK
    <3> QED
      BY <3>1
  <2> QED
    BY <2>1 DEF Pool!Pooled, Pool!Range1
<1>5. Pool!IsFiniteSet(Pool!Pooled) /\ InRows \in Nat /\ InRows <= C
  BY <1>1, <1>4, Counts DEF InRows
<1>6. /\ Pool!IsFiniteSet(Pool!Adding) /\ ToAdd \in Nat /\ Pool!IsFiniteSet(pushers)
      /\ Putting \in Nat
      /\ ToAdd + Putting <= T
  <2>1. Pool!Adding \in SUBSET Threads /\ pushers \in SUBSET Threads /\ Pool!Adding
          \cup pushers \in SUBSET Threads
        /\ Pool!Adding \cap pushers = {}
    BY DEF Pool!Adding
  <2>2. Pool!IsFiniteSet(Pool!Adding) /\ ToAdd \in Nat /\ Pool!IsFiniteSet(pushers)
        /\ Putting \in Nat
    BY <1>1, <2>1, Counts DEF ToAdd, Putting
  <2>3. Pool!Cardinality(Pool!Adding \cup pushers) = ToAdd + Putting
    BY <2>1, <2>2, MoreCount DEF ToAdd, Putting
  <2>4. Pool!Cardinality(Pool!Adding \cup pushers) <= T
    BY <1>1, <2>1, Counts
  <2> QED
    BY <2>2, <2>3, <2>4
<1>7. Pool!IsFiniteSet(Pool!Owed) /\ ToTake \in Nat /\ ToTake <= (T + 1) * C
  <2>1. Pool!IsFiniteSet(Pool!Everyone \X Conns) /\ Pool!Cardinality(Pool!Everyone \X Conns)
          = (T + 1) * C
    BY PoolSizes, <1>1, <1>3, FS_Product
  <2>2. Pool!Owed \in SUBSET (Pool!Everyone \X Conns)
    BY DEF Pool!Owed
  <2> QED
    BY <2>1, <2>2, Counts DEF ToTake
<1>8. Pool!IsFiniteSet(entries)
  BY Counts DEF Pool!TypeOK, Pool!ConnsAssumption
<1>9. InRows - ToAdd + ToTake < Wrap - MaxTotal
  <2> DEFINE a == (T + 1) * C  b == C * (T + 2)
  <2>1. a \in Int /\ b = a + C
    BY <1>1
  <2>2. InRows <= C /\ ToTake <= a /\ Wrap > MaxTotal + b
    BY <1>2, <1>5, <1>7
  <2> HIDE DEF a, b, T, C
  <2> QED
    BY <1>1, <1>2, <1>5, <1>6, <1>7, <2>1, <2>2
<1> QED
  BY <1>1, <1>2, <1>5, <1>6, <1>7, <1>8, <1>9

\* One more, or one less, of those who do something.
LEMMA CountMoves ==
    ASSUME NEW S, Pool!IsFiniteSet(S), NEW x
    PROVE  /\ x \notin S => Pool!IsFiniteSet(S \cup {x}) /\ Pool!Cardinality(S \cup {x})
                = Pool!Cardinality(S) + 1
           /\ x \in S => Pool!Cardinality(S \ {x}) = Pool!Cardinality(S) - 1
<1>1. CASE x \notin S
  <2>1. S \cap {x} = {}
    BY <1>1
  <2> QED
    BY <1>1, <2>1, MoreCount, OneCounts
<1>2. CASE x \in S
  <2>1. {x} \in SUBSET S
    BY <1>2
  <2> QED
    BY <1>2, <2>1, LessCount, OneCounts
<1> QED
  BY <1>1, <1>2

LEMMA OwesMore ==
    ASSUME Pool!ConnsAssumption, NEW p, NEW t \in Pool!Everyone, NEW d \in SUBSET Conns,
             p \in [Pool!Everyone -> SUBSET Conns],
           p[t] = {}, Pool!IsFiniteSet(OwedIn(p))
    PROVE  Pool!Cardinality(OwedIn([p EXCEPT ![t] = d]))
             = Pool!Cardinality(OwedIn(p)) + Pool!Cardinality(d)
<1> DEFINE r == [p EXCEPT ![t] = d]
<1>1. r[t] = d /\ \A u \in Pool!Everyone \ {t} : r[u] = p[u]
  OBVIOUS
<1> HIDE DEF r
<1>2. \A o \in Pool!Everyone \X Conns : o[2] \in r[o[1]] <=> o[2] \in p[o[1]]
      \/ (o[1] = t /\ o[2] \in d)
  BY <1>1
<1>3. OwedIn(r) = OwedIn(p) \cup ({t} \X d)
  BY <1>2 DEF OwedIn
<1>4. OwedIn(p) \cap ({t} \X d) = {}
  BY DEF OwedIn
<1>5. Pool!IsFiniteSet(d) /\ Pool!Cardinality(d) \in Nat
  BY Counts DEF Pool!ConnsAssumption
<1>6. Pool!IsFiniteSet({t} \X d) /\ Pool!Cardinality({t} \X d) = 1 * Pool!Cardinality(d)
  <2>1. Pool!IsFiniteSet({t}) /\ Pool!Cardinality({t}) = 1
    BY OneCounts
  <2>2. /\ Pool!IsFiniteSet({t} \X d)
        /\ Pool!Cardinality({t} \X d) = Pool!Cardinality({t}) * Pool!Cardinality(d)
    BY PoolSizes, <1>5, <2>1, FS_Product
  <2> QED
    BY <2>1, <2>2
<1>7. Pool!Cardinality(OwedIn(r)) = Pool!Cardinality(OwedIn(p)) + Pool!Cardinality(d)
  BY <1>3, <1>4, <1>5, <1>6, MoreCount
<1> QED
  BY <1>7 DEF r

LEMMA OwesLess ==
    ASSUME Pool!ConnsAssumption, NEW p, NEW t \in Pool!Everyone,
             p \in [Pool!Everyone -> SUBSET Conns], Pool!IsFiniteSet(OwedIn(p))
    PROVE  Pool!Cardinality(OwedIn([p EXCEPT ![t] = {}])) = Pool!Cardinality(OwedIn(p))
             - Pool!Cardinality(p[t])
<1> DEFINE r == [p EXCEPT ![t] = {}]
<1>1. r \in [Pool!Everyone -> SUBSET Conns] /\ r[t] = {} /\ p = [r EXCEPT ![t] = p[t]]
  OBVIOUS
<1>2. \A o \in OwedIn(r) : o \in OwedIn(p)
  BY DEF OwedIn
<1> HIDE DEF r
<1>3. Pool!IsFiniteSet(OwedIn(r))
  BY PoolSizes, <1>2, FS_Subset
<1>4. Pool!Cardinality(OwedIn(p)) = Pool!Cardinality(OwedIn(r)) + Pool!Cardinality(p[t])
  BY <1>1, <1>3, OwesMore
<1>5. Pool!Cardinality(OwedIn(r)) \in Nat /\ Pool!Cardinality(p[t]) \in Nat
  BY PoolSizes, <1>1, <1>3, FS_CardinalityType, Counts DEF Pool!ConnsAssumption
<1> QED
  BY <1>4, <1>5 DEF r

\* What a thread does moves it among those who have to add and those who are about to put.
LEMMA ThreadMoves ==
    ASSUME Pool!TypeOK, Pool!TypeOK', Pool!SweeperAssumption, Pool!ConnsAssumption,
             Pool!LimitsAssumption,
           NEW t \in Threads, NEW next, v4' = [v4 EXCEPT ![t] = next]
    PROVE  /\ v4[t] # "add" /\ next = "add" => ToAdd' = ToAdd + 1
           /\ v4[t] = "add" /\ next # "add" => ToAdd' = ToAdd - 1
           /\ (v4[t] = "add" <=> next = "add") => ToAdd' = ToAdd
           /\ v4[t] # "push" /\ next = "push" => Putting' = Putting + 1
           /\ v4[t] = "push" /\ next # "push" => Putting' = Putting - 1
           /\ (v4[t] = "push" <=> next = "push") => Putting' = Putting
<1> DEFINE pc == v4
<1> DEFINE pushers == {u \in Threads : pc[u] = "push"}
<1>1. pc'[t] = next /\ \A u \in Threads \ {t} : pc'[u] = pc[u]
  BY DEF Pool!TypeOK, Pool!Everyone
<1>2. Pool!IsFiniteSet(Pool!Adding) /\ Pool!IsFiniteSet(pushers)
  BY PoolNumbers
<1>3. ToAdd = Pool!Cardinality(Pool!Adding) /\ ToAdd' = Pool!Cardinality(Pool!Adding')
      /\ Putting = Pool!Cardinality(pushers)
      /\ Putting' = Pool!Cardinality(pushers')
  BY DEF ToAdd, Putting
<1>4. pc[t] # "add" /\ next = "add" => t \notin Pool!Adding /\ Pool!Adding' = Pool!Adding \cup {t}
  BY <1>1 DEF Pool!Adding
<1>5. pc[t] = "add" /\ next # "add" => t \in Pool!Adding /\ Pool!Adding' = Pool!Adding \ {t}
  BY <1>1 DEF Pool!Adding
<1>6. (pc[t] = "add" <=> next = "add") => Pool!Adding' = Pool!Adding
  BY <1>1 DEF Pool!Adding
<1>7. pc[t] # "push" /\ next = "push" => t \notin pushers /\ pushers' = pushers \cup {t}
  BY <1>1
<1>8. pc[t] = "push" /\ next # "push" => t \in pushers /\ pushers' = pushers \ {t}
  BY <1>1
<1>9. (pc[t] = "push" <=> next = "push") => pushers' = pushers
  BY <1>1
<1> HIDE DEF pushers
<1> QED
  BY <1>2, <1>3, <1>4, <1>5, <1>6, <1>7, <1>8, <1>9, CountMoves

\* The number that the total stands for, and what each step does to it.
Standing == InRows - ToAdd + ToTake

LEMMA NumbersLater ==
    ASSUME Pool!TypeOK', Pool!SweeperAssumption, Pool!ConnsAssumption, Pool!LimitsAssumption
    PROVE  /\ InRows' \in Nat /\ ToAdd' \in Nat /\ ToTake' \in Nat /\ Putting' \in Nat
           /\ Pool!IsFiniteSet(Pool!Adding') /\ ToAdd' + Putting' <= Pool!Cardinality(Threads)
           /\ InRows' - ToAdd' + ToTake' < Wrap - MaxTotal
<1>1. (Pool!TypeOK /\ Pool!SweeperAssumption /\ Pool!ConnsAssumption /\ Pool!LimitsAssumption =>
         /\ InRows \in Nat /\ ToAdd \in Nat /\ ToTake \in Nat /\ Putting \in Nat
         /\ Pool!IsFiniteSet(Pool!Adding) /\ ToAdd + Putting <= Pool!Cardinality(Threads)
         /\ InRows - ToAdd + ToTake < Wrap - MaxTotal)'
  BY PoolNumbers, PTL
<1> QED
  BY <1>1

LEMMA TakeMoves ==
    ASSUME Pool!PoolInv, Pool!TypeOK', Pool!SweeperAssumption, Pool!ConnsAssumption,
             Pool!LimitsAssumption, NEW t \in Threads, Pool!TakeNewest(t)
    PROVE  Standing' = Standing - 1 /\ v3' = (v3 - 1) % Wrap /\ InRows' = InRows - 1 /\ Putting'
             = Putting
<1> DEFINE total == v3  pc == v4  conn == v5
<1>1. Pool!TypeOK /\ Pool!InHands /\ Pool!SingleHolder
  BY DEF Pool!PoolInv
<1>2. conn'[t] \in Pool!Pooled /\ Pool!Pooled' = Pool!Pooled \ {conn'[t]}
  BY <1>1, TakenHolder
<1>3. Pool!IsFiniteSet(Pool!Pooled) /\ InRows \in Nat /\ ToAdd \in Nat /\ ToTake \in Nat
  BY <1>1, PoolNumbers
<1>4. InRows' = InRows - 1
  BY <1>2, <1>3, CountMoves DEF InRows
<1>5. ToAdd' = ToAdd /\ Putting' = Putting
  <2>1. pc[t] = "get"
    BY DEF Pool!TakeNewest
  <2>2. PICK next \in {"check"} : pc' = [pc EXCEPT ![t] = next]
    BY Zenon DEF Pool!TakeNewest
  <2> QED
    BY <1>1, <2>1, <2>2, ThreadMoves
<1>6. ToTake' = ToTake
  BY DEF ToTake, Pool!Owed, Pool!TakeNewest
<1>7. total' = (total - 1) % Wrap
  BY DEF Pool!TakeNewest, Pool!Minus
<1> QED
  BY <1>3, <1>4, <1>5, <1>6, <1>7 DEF Standing

LEMMA PushMoves ==
    ASSUME Pool!PoolInv, Pool!TypeOK', Pool!SweeperAssumption, Pool!ConnsAssumption,
             Pool!LimitsAssumption, NEW t \in Threads, Pool!Push(t)
    PROVE  Standing' = Standing /\ v3' = v3 /\ InRows' + Putting' <= InRows + Putting
<1> DEFINE total == v3  pc == v4  conn == v5  pend == v7
<1>1. Pool!TypeOK /\ Pool!InHands /\ Pool!SingleHolder
  BY DEF Pool!PoolInv
<1> DEFINE d == pend'[t]  c == conn[t]
<1>2. d \subseteq Pool!Pooled /\ c \notin Pool!Pooled /\ Pool!Pooled' = (Pool!Pooled \ d) \cup {c}
  BY <1>1, PushedHolder
<1>3. Pool!IsFiniteSet(Pool!Pooled) /\ InRows \in Nat /\ ToAdd \in Nat /\ ToTake \in Nat
      /\ Putting \in Nat
      /\ Pool!IsFiniteSet(Pool!Owed)
  BY <1>1, PoolNumbers
<1>4. /\ pend' = [pend EXCEPT ![t] = d] /\ d \in SUBSET Conns /\ pend[t] = {}
      /\ t \in Pool!Everyone
      /\ pend \in [Pool!Everyone -> SUBSET Conns] /\ pc' = [pc EXCEPT ![t] = "add"] /\ pc[t]
           = "push" /\ total' = total
  <2>1. pend \in [Pool!Everyone -> SUBSET Conns] /\ pend' \in [Pool!Everyone -> SUBSET Conns]
        /\ t \in Pool!Everyone
    BY <1>1 DEF Pool!TypeOK, Pool!Everyone
  <2>2. pend' = [pend EXCEPT ![t] = d]
    BY <2>1, Zenon DEF Pool!Push
  <2>3. pc' = [pc EXCEPT ![t] = "add"] /\ pc[t] = "push" /\ total' = total
    BY DEF Pool!Push
  <2>4. pend[t] = {}
    BY <1>1, <2>1, <2>3 DEF Pool!InHands
  <2> QED
    BY <2>1, <2>2, <2>3, <2>4
<1> HIDE DEF d, c
<1>5. Pool!IsFiniteSet(d) /\ Pool!Cardinality(d) \in Nat
  BY <1>4, Counts DEF Pool!ConnsAssumption
<1>6. InRows' = InRows - Pool!Cardinality(d) + 1
  <2>1. d \in SUBSET Pool!Pooled
    BY <1>2
  <2>2. Pool!Cardinality(Pool!Pooled \ d) = Pool!Cardinality(Pool!Pooled) - Pool!Cardinality(d)
        /\ Pool!IsFiniteSet(Pool!Pooled \ d)
    BY PoolSizes, <1>3, <2>1, LessCount, FS_Subset
  <2>3. c \notin Pool!Pooled \ d
    BY <1>2
  <2>4. Pool!Cardinality((Pool!Pooled \ d) \cup {c}) = Pool!Cardinality(Pool!Pooled \ d) + 1
    BY <2>2, <2>3, CountMoves
  <2> QED
    BY <1>2, <2>2, <2>4 DEF InRows
<1>7. ToAdd' = ToAdd + 1 /\ Putting' = Putting - 1
  <2>1. PICK next \in {"add"} : pc' = [pc EXCEPT ![t] = next]
    BY <1>4
  <2> QED
    BY <1>1, <1>4, <2>1, ThreadMoves
<1>8. ToTake' = ToTake + Pool!Cardinality(d)
  <2>1. Pool!Owed = OwedIn(pend) /\ Pool!Owed' = OwedIn(pend')
    BY DEF Pool!Owed, OwedIn
  <2> QED
    BY <1>3, <1>4, <2>1, OwesMore DEF ToTake
<1> QED
  BY <1>3, <1>4, <1>5, <1>6, <1>7, <1>8 DEF Standing

LEMMA SweepMoves ==
    ASSUME Pool!PoolInv, Pool!TypeOK', Pool!SweeperAssumption, Pool!ConnsAssumption,
             Pool!LimitsAssumption, Pool!Sweep
    PROVE  Standing' = Standing /\ v3' = v3 /\ InRows' + Putting' <= InRows + Putting
<1> DEFINE total == v3  pc == v4  pend == v7  stale == v8
<1>1. Pool!TypeOK /\ Pool!InHands /\ Pool!SingleHolder
  BY DEF Pool!PoolInv
<1> DEFINE d == Pool!Pooled \cap stale
<1>2. Pool!Pooled' = Pool!Pooled \ stale
  BY <1>1, SweptHolder
<1>3. Pool!IsFiniteSet(Pool!Pooled) /\ InRows \in Nat /\ ToAdd \in Nat /\ ToTake \in Nat
      /\ Putting \in Nat
      /\ Pool!IsFiniteSet(Pool!Owed)
  BY <1>1, PoolNumbers
<1>4. /\ pend' = [pend EXCEPT ![Sweeper] = d] /\ d \in SUBSET Conns /\ pend[Sweeper] = {}
      /\ Sweeper \in Pool!Everyone
      /\ pend \in [Pool!Everyone -> SUBSET Conns] /\ total' = total /\ \A t \in Threads : pc'[t]
           = pc[t]
  BY <1>1 DEF Pool!Sweep, Pool!TypeOK, Pool!Everyone, Pool!InHands, Pool!SweeperAssumption
<1>5. d \in SUBSET Pool!Pooled /\ Pool!Pooled \ stale = Pool!Pooled \ d
  OBVIOUS
<1> HIDE DEF d
<1>6. Pool!IsFiniteSet(d) /\ Pool!Cardinality(d) \in Nat
  BY <1>4, Counts DEF Pool!ConnsAssumption
<1>7. InRows' = InRows - Pool!Cardinality(d)
  <2>1. Pool!Cardinality(Pool!Pooled \ d) = Pool!Cardinality(Pool!Pooled) - Pool!Cardinality(d)
    BY <1>3, <1>5, LessCount
  <2> QED
    BY <1>2, <1>5, <2>1 DEF InRows
<1>8. ToAdd' = ToAdd /\ Putting' = Putting
  <2>1. Pool!Adding' = Pool!Adding
    BY <1>4 DEF Pool!Adding
  <2>2. {t \in Threads : pc[t] = "push"}' = {t \in Threads : pc[t] = "push"}
    BY <1>4
  <2> QED
    BY <2>1, <2>2 DEF ToAdd, Putting
<1>9. ToTake' = ToTake + Pool!Cardinality(d)
  <2>1. Pool!Owed = OwedIn(pend) /\ Pool!Owed' = OwedIn(pend')
    BY DEF Pool!Owed, OwedIn
  <2> QED
    BY <1>3, <1>4, <2>1, OwesMore DEF ToTake
<1> QED
  BY <1>3, <1>4, <1>6, <1>7, <1>8, <1>9 DEF Standing

LEMMA SubMoves ==
    ASSUME Pool!PoolInv, Pool!TypeOK', Pool!SweeperAssumption, Pool!ConnsAssumption,
             Pool!LimitsAssumption, NEW t \in Pool!Everyone, Pool!Sub(t)
    PROVE  \E n \in Int : Standing' = Standing + n /\ v3' = (v3 + n) % Wrap
                          /\ InRows' = InRows /\ Putting' = Putting
<1> DEFINE rows == v1  total == v3  pc == v4  pend == v7
<1>1. Pool!TypeOK /\ Pool!InHands
  BY DEF Pool!PoolInv
<1> DEFINE k == Pool!Cardinality(pend[t])
<1>2. Pool!IsFiniteSet(Pool!Pooled) /\ InRows \in Nat /\ ToAdd \in Nat /\ ToTake \in Nat
      /\ Putting \in Nat
      /\ Pool!IsFiniteSet(Pool!Owed)
  BY <1>1, PoolNumbers
<1>3. /\ pend \in [Pool!Everyone -> SUBSET Conns] /\ pend' = [pend EXCEPT ![t] = {}]
      /\ pc' = [pc EXCEPT ![t] = "home"] /\ pc[t] = "sub" /\ rows' = rows /\ total'
           = (total - k) % Wrap
  BY <1>1 DEF Pool!Sub, Pool!TypeOK, Pool!Minus
<1>4. k \in Nat
  <2>1. pend[t] \in SUBSET Conns
    BY <1>3
  <2> QED
    BY <2>1, Counts DEF Pool!ConnsAssumption
<1>5. ToTake' = ToTake - k
  <2>1. Pool!Owed = OwedIn(pend) /\ Pool!Owed' = OwedIn(pend')
    BY DEF Pool!Owed, OwedIn
  <2> QED
    BY <1>2, <1>3, <2>1, OwesLess DEF ToTake
<1>6. InRows' = InRows
  BY <1>3 DEF InRows, Pool!Pooled
<1>7. ToAdd' = ToAdd /\ Putting' = Putting
  <2>1. \A u \in Threads : (pc'[u] = "add" <=> pc[u] = "add")
        /\ (pc'[u] = "push" <=> pc[u] = "push")
    BY <1>1, <1>3 DEF Pool!TypeOK, Pool!Everyone
  <2>2. Pool!Adding' = Pool!Adding
    BY <2>1 DEF Pool!Adding
  <2>3. {u \in Threads : pc[u] = "push"}' = {u \in Threads : pc[u] = "push"}
    BY <2>1
  <2> QED
    BY <2>2, <2>3 DEF ToAdd, Putting
<1> HIDE DEF k
<1>8. -k \in Int /\ Standing' = Standing + (-k) /\ total + (-k) = total - k
  BY <1>1, <1>2, <1>4, <1>5, <1>6, <1>7 DEF Standing, Pool!TypeOK, Pool!LimitsAssumption
<1> QED
  BY <1>3, <1>6, <1>7, <1>8

\* The steps that leave the rows and what is owed alone.
LEMMA StayMoves ==
    ASSUME Pool!PoolInv, Pool!TypeOK', Pool!SweeperAssumption, Pool!ConnsAssumption,
             Pool!LimitsAssumption, UNCHANGED <<v1, v7>>
    PROVE  /\ InRows' = InRows /\ ToTake' = ToTake
           /\ v4' = v4 => ToAdd' = ToAdd /\ Putting' = Putting
<1> DEFINE pc == v4
<1>1. Pool!Pooled' = Pool!Pooled /\ Pool!Owed' = Pool!Owed
  BY DEF Pool!Pooled, Pool!Owed
<1>2. pc' = pc => Pool!Adding' = Pool!Adding
  BY DEF Pool!Adding
<1> QED
  BY <1>1, <1>2 DEF InRows, ToTake, ToAdd, Putting

LEMMA OtherMoves ==
    ASSUME Pool!PoolInv, Pool!TypeOK', Pool!SweeperAssumption, Pool!ConnsAssumption,
             Pool!LimitsAssumption, NEW t \in Threads,
           \/ \E h \in Hosts : Pool!Get(t, h)
           \/ Pool!FindNone(t) \/ Pool!Check(t) \/ Pool!Dial(t) \/ Pool!Close(t)
              \/ (Pool!Put(t) /\ v4'[t] # "push")
    PROVE  Standing' = Standing /\ v3' = v3 /\ InRows' = InRows /\ Putting' = Putting
<1> DEFINE rows == v1  total == v3  pc == v4  pend == v7
<1>1. Pool!TypeOK
  BY DEF Pool!PoolInv
<1>2. UNCHANGED <<rows, pend, total>> /\ pc[t] \in {"home", "get", "check", "dial", "using"}
  BY DEF Pool!Get, Pool!FindNone, Pool!Check, Pool!Dial, Pool!Close, Pool!Put
<1>3. PICK next \in {"home", "get", "check", "dial", "using"} : pc' = [pc EXCEPT ![t] = next]
  <2>1. pc \in [Pool!Everyone -> Pool!Pcs] /\ t \in Pool!Everyone
    BY <1>1 DEF Pool!TypeOK, Pool!Everyone
  <2>2. CASE Pool!Put(t) /\ pc'[t] # "push"
    BY <2>1, <2>2 DEF Pool!Put
  <2>3. CASE (\E h \in Hosts : Pool!Get(t, h)) \/ Pool!FindNone(t) \/ Pool!Check(t)
             \/ Pool!Dial(t) \/ Pool!Close(t)
    BY <2>3, Zenon DEF Pool!Get, Pool!FindNone, Pool!Check, Pool!Dial, Pool!Close
  <2> QED
    BY <2>2, <2>3
<1>4. ToAdd' = ToAdd /\ Putting' = Putting
  BY <1>1, <1>2, <1>3, ThreadMoves
<1>5. InRows' = InRows /\ ToTake' = ToTake
  BY <1>2, StayMoves
<1> QED
  BY <1>2, <1>4, <1>5 DEF Standing

LEMMA AddMoves ==
    ASSUME Pool!PoolInv, Pool!TypeOK', Pool!SweeperAssumption, Pool!ConnsAssumption,
             Pool!LimitsAssumption, NEW t \in Threads, Pool!Add(t)
    PROVE  Standing' = Standing + 1 /\ v3' = (v3 + 1) % Wrap /\ InRows' = InRows /\ Putting'
             = Putting
<1> DEFINE rows == v1  total == v3  pc == v4  pend == v7
<1>1. Pool!TypeOK
  BY DEF Pool!PoolInv
<1>2. UNCHANGED <<rows, pend>> /\ total' = (total + 1) % Wrap /\ pc[t] = "add"
  BY DEF Pool!Add, Pool!Plus
<1>3. PICK next \in {"home", "sub"} : pc' = [pc EXCEPT ![t] = next]
  BY Zenon DEF Pool!Add
<1>4. ToAdd' = ToAdd - 1 /\ Putting' = Putting
  BY <1>1, <1>2, <1>3, ThreadMoves
<1>5. InRows' = InRows /\ ToTake' = ToTake
  BY <1>2, StayMoves
<1>6. InRows \in Nat /\ ToAdd \in Nat /\ ToTake \in Nat
  BY <1>1, PoolNumbers
<1> QED
  BY <1>2, <1>4, <1>5, <1>6 DEF Standing

\* A put that found room: its thread is neither adding nor putting yet.
LEMMA PutMoves ==
    ASSUME Pool!PoolInv, Pool!TypeOK', Pool!SweeperAssumption, Pool!ConnsAssumption,
             Pool!LimitsAssumption, NEW t \in Threads,
           Pool!Put(t), v4'[t] = "push"
    PROVE  /\ Standing' = Standing /\ v3' = v3 /\ InRows' = InRows /\ Putting' = Putting + 1
           /\ v3 < MaxTotal /\ ToAdd' + Putting' <= Pool!Cardinality(Threads)
<1> DEFINE rows == v1  total == v3  pc == v4  pend == v7
<1>1. Pool!TypeOK
  BY DEF Pool!PoolInv
<1>2. UNCHANGED <<rows, pend, total>> /\ pc[t] = "using" /\ pc' = [pc EXCEPT ![t] = "push"]
        /\ total < MaxTotal
  BY <1>1 DEF Pool!Put, Pool!TypeOK, Pool!Everyone
<1>3. ToAdd' = ToAdd /\ Putting' = Putting + 1
  BY <1>1, <1>2, ThreadMoves
<1>4. InRows' = InRows /\ ToTake' = ToTake
  BY <1>2, StayMoves
<1>5. ToAdd' + Putting' <= Pool!Cardinality(Threads)
  <2>1. /\ Pool!IsFiniteSet(Pool!Adding') /\ ToAdd' \in Nat /\ Putting' \in Nat
        /\ ToAdd' + Putting' <= Pool!Cardinality(Threads)
    BY NumbersLater
  <2> QED
    BY <2>1
<1> QED
  BY <1>2, <1>3, <1>4, <1>5 DEF Standing

LEMMA StandingMoves ==
    ASSUME Pool!PoolInv, Pool!TypeOK', Pool!SweeperAssumption, Pool!ConnsAssumption,
             Pool!LimitsAssumption, [Pool!Next]_(Pool!vars)
    PROVE  /\ \/ Standing' = Standing /\ v3' = v3
              \/ \E n \in Int : Standing' = Standing + n /\ v3' = (v3 + n) % Wrap
           /\ \/ InRows' + Putting' <= InRows + Putting
              \/ /\ v3 < MaxTotal /\ InRows' = InRows /\ Putting' = Putting + 1
                 /\ Standing' = Standing /\ ToAdd' + Putting' <= Pool!Cardinality(Threads)
<1> DEFINE rows == v1  total == v3  pc == v4  pend == v7
<1> DEFINE Goal == /\ \/ Standing' = Standing /\ total' = total
                      \/ \E n \in Int : Standing' = Standing + n /\ total' = (total + n) % Wrap
                   /\ \/ InRows' + Putting' <= InRows + Putting
                      \/ /\ total < MaxTotal /\ InRows' = InRows /\ Putting' = Putting + 1
                         /\ Standing' = Standing /\ ToAdd' + Putting' <= Pool!Cardinality(Threads)
<1>1. Pool!TypeOK
  BY DEF Pool!PoolInv
<1>2. /\ InRows \in Nat /\ ToAdd \in Nat /\ ToTake \in Nat /\ Putting \in Nat
      /\ Standing \in Int /\ total \in Int
  BY <1>1, PoolNumbers DEF Standing, Pool!TypeOK, Pool!LimitsAssumption
<1>3. CASE UNCHANGED <<rows, pend, pc, total>>
  <2>1. InRows' = InRows /\ ToTake' = ToTake /\ ToAdd' = ToAdd /\ Putting' = Putting /\ total'
          = total
    BY <1>3, StayMoves
  <2> QED
    BY <1>2, <2>1 DEF Standing
<1>4. ASSUME NEW t \in Threads, Pool!Step(t) PROVE Goal
  <2>1. CASE Pool!TakeNewest(t)
    <3>1. Standing' = Standing - 1 /\ total' = (total - 1) % Wrap /\ InRows' = InRows - 1
          /\ Putting' = Putting
      BY <2>1, TakeMoves
    <3>2. Standing' = Standing + (-1) /\ total' = (total + (-1)) % Wrap /\ InRows' + Putting'
            <= InRows + Putting
      BY <1>2, <3>1
    <3> QED
      BY <3>2
  <2>2. CASE Pool!Push(t)
    BY <2>2, PushMoves
  <2>3. CASE Pool!Add(t)
    <3>1. Standing' = Standing + 1 /\ total' = (total + 1) % Wrap /\ InRows' = InRows
          /\ Putting' = Putting
      BY <2>3, AddMoves
    <3>2. InRows' + Putting' <= InRows + Putting
      BY <1>2, <3>1
    <3> QED
      BY <3>1, <3>2
  <2>4. ASSUME \/ \E h \in Hosts : Pool!Get(t, h)
               \/ Pool!FindNone(t) \/ Pool!Check(t) \/ Pool!Dial(t) \/ Pool!Close(t)
                  \/ (Pool!Put(t) /\ pc'[t] # "push")
        PROVE  Goal
    <3>1. Standing' = Standing /\ total' = total /\ InRows' = InRows /\ Putting' = Putting
      BY <2>4, OtherMoves
    <3>2. InRows' + Putting' <= InRows + Putting
      BY <1>2, <3>1
    <3> QED
      BY <3>1, <3>2
  <2>5. CASE Pool!Put(t)
    <3>1. CASE pc'[t] = "push"
      BY <2>5, <3>1, PutMoves
    <3> QED
      BY <2>4, <2>5, <3>1
  <2> HIDE DEF Goal
  <2> QED
    BY <1>4, <2>1, <2>2, <2>3, <2>4, <2>5 DEF Pool!Step
<1>5. ASSUME NEW t \in Pool!Everyone, Pool!Sub(t) PROVE Goal
  <2>1. PICK n \in Int : Standing' = Standing + n /\ total' = (total + n) % Wrap /\ InRows'
               = InRows /\ Putting' = Putting
    BY <1>5, SubMoves
  <2>2. InRows' + Putting' <= InRows + Putting
    BY <1>2, <2>1
  <2> QED
    BY <2>1, <2>2
<1>6. CASE Pool!Sweep
  BY <1>6, SweepMoves
<1> QED
  BY <1>3, <1>4, <1>5, <1>6 DEF Pool!Next, Pool!Age, Pool!PeerActs, Pool!vars

\* The total stands for the same number after a step as before.
LEMMA TotalKept ==
    ASSUME Pool!PoolInv, Pool!TypeOK', Pool!SweeperAssumption, Pool!ConnsAssumption,
             Pool!LimitsAssumption, [Pool!Next]_(Pool!vars)
    PROVE  Pool!TotalAccounted'
<1> DEFINE total == v3
<1>1. Pool!TypeOK /\ total = Standing % Wrap
  BY DEF Pool!PoolInv, Pool!TotalAccounted, Standing, InRows, ToAdd, ToTake
<1>2. Standing \in Int /\ Wrap \in Nat \ {0}
  BY <1>1, PoolNumbers DEF Standing
<1>3. CASE Standing' = Standing /\ total' = total
  BY <1>1, <1>3 DEF Pool!TotalAccounted, Standing, InRows, ToAdd, ToTake
<1>4. ASSUME NEW n \in Int, Standing' = Standing + n, total' = (total + n) % Wrap
      PROVE Pool!TotalAccounted'
  <2>1. ((Standing % Wrap) + n) % Wrap = (Standing + n) % Wrap
    BY <1>2, ModShift
  <2>2. total' = Standing' % Wrap
    BY <1>1, <1>4, <2>1
  <2> QED
    BY <2>2 DEF Pool!TotalAccounted, Standing, InRows, ToAdd, ToTake
<1> QED
  BY <1>3, <1>4, StandingMoves

LEMMA ModSmall == ASSUME NEW w \in Nat, NEW x \in 0 .. w - 1 PROVE x % w = x
BY SMT

\* A put that finds room leaves room for those who put with it.
LEMMA OvershootKept ==
    ASSUME Pool!PoolInv, Pool!TypeOK', Pool!SweeperAssumption, Pool!ConnsAssumption,
             Pool!LimitsAssumption, [Pool!Next]_(Pool!vars)
    PROVE  InRows' + Putting' <= MaxTotal - 1 + Pool!Cardinality(Threads)
<1> DEFINE total == v3
<1>1. Pool!TypeOK /\ InRows + Putting <= MaxTotal - 1 + Pool!Cardinality(Threads)
  BY DEF Pool!PoolInv, Pool!OvershootBounded, InRows, Putting
<1>6. total = Standing % Wrap
  BY DEF Pool!PoolInv, Pool!TotalAccounted, Standing, InRows, ToAdd, ToTake
<1>2. /\ InRows \in Nat /\ ToAdd \in Nat /\ ToTake \in Nat /\ Putting \in Nat
      /\ Pool!Cardinality(Threads) \in Nat /\ Standing \in Int /\ Standing < Wrap - MaxTotal
      /\ Wrap \in Nat \ {0} /\ MaxTotal \in Nat \ {0}
  BY <1>1, PoolNumbers DEF Standing
<1>3. InRows' \in Nat /\ Putting' \in Nat /\ ToAdd' \in Nat /\ ToTake' \in Nat
  BY NumbersLater
<1>4. CASE InRows' + Putting' <= InRows + Putting
  <2> DEFINE a == InRows'  b == Putting'  c == InRows  d == Putting  e ==
               Pool!Cardinality(Threads)
  <2>1. a \in Nat /\ b \in Nat /\ c \in Nat /\ d \in Nat /\ e \in Nat /\ MaxTotal \in Nat
    BY <1>2, <1>3
  <2>2. a + b <= c + d /\ c + d <= MaxTotal - 1 + e
    BY <1>1, <1>4
  <2> HIDE DEF a, b, c, d, e
  <2>3. a + b <= MaxTotal - 1 + e
    BY <2>1, <2>2
  <2> QED
    BY <2>3 DEF a, b, e
<1>5. CASE /\ total < MaxTotal /\ InRows' = InRows /\ Putting' = Putting + 1
           /\ Standing' = Standing /\ ToAdd' + Putting' <= Pool!Cardinality(Threads)
  <2>1. Standing < MaxTotal
    <3>1. CASE Standing \in 0 .. Wrap - 1
      BY <1>2, <1>5, <1>6, <3>1, ModSmall
    <3>2. CASE Standing < 0
      BY <1>2, <3>2
    <3> QED
      BY <1>2, <3>1, <3>2
  <2> DEFINE a == InRows'  b == Putting'  c == ToAdd'  d == ToTake'  e ==
               Pool!Cardinality(Threads)
  <2>2. a \in Nat /\ b \in Nat /\ c \in Nat /\ d \in Nat /\ e \in Nat /\ MaxTotal \in Nat
    BY <1>2, <1>3
  <2>3. a - c + d < MaxTotal /\ c + b <= e
    BY <1>5, <2>1 DEF Standing
  <2> HIDE DEF a, b, c, d, e
  <2>4. a + b <= MaxTotal - 1 + e
    BY <2>2, <2>3
  <2> QED
    BY <2>4 DEF a, b, e
<1> QED
  BY <1>4, <1>5, StandingMoves

\* The cap of a row is looked at under the lock.
LEMMA RowCapKept ==
    ASSUME Pool!PoolInv, Pool!SweeperAssumption, Pool!ConnsAssumption, Pool!LimitsAssumption,
             [Pool!Next]_(Pool!vars)
    PROVE  \A h \in Hosts : Len(v1'[h]) <= MaxPerHost
<1> DEFINE rows == v1  host == v6
<1>1. Pool!TypeOK /\ Pool!InHands /\ Pool!SingleHolder /\ \A h \in Hosts : Len(rows[h])
        <= MaxPerHost
  BY DEF Pool!PoolInv, Pool!OvershootBounded
<1>2. MaxPerHost \in Nat
  BY DEF Pool!LimitsAssumption
<1>3. CASE rows' = rows
  BY <1>1, <1>3
<1>4. ASSUME NEW t \in Threads, Pool!TakeNewest(t), NEW h \in Hosts PROVE Len(rows'[h])
               <= MaxPerHost
  <2> DEFINE g == host[t]  q == rows[g]
  <2>1. /\ rows \in [Hosts -> Seq(Conns)] /\ g \in Hosts /\ q # <<>>
        /\ rows' = [rows EXCEPT ![g] = SubSeq(q, 1, Len(q) - 1)]
    BY <1>1, <1>4 DEF Pool!TypeOK, Pool!TakeNewest
  <2>2. CASE h = g
    <3>1. q \in Seq(Conns) /\ Len(q) \in Nat /\ Len(q) <= MaxPerHost /\ rows'[h]
            = SubSeq(q, 1, Len(q) - 1)
      BY <1>1, <2>1, <2>2
    <3>2. Len(SubSeq(q, 1, Len(q) - 1)) = Len(q) - 1
      BY <2>1, <3>1, TakenRow
    <3> QED
      BY <1>2, <3>1, <3>2
  <2>3. CASE h # g
    BY <1>1, <2>1, <2>3
  <2> QED
    BY <2>2, <2>3
<1>5. ASSUME NEW t \in Threads, Pool!Push(t) PROVE \A h \in Hosts : Len(rows'[h]) <= MaxPerHost
  BY <1>1, <1>5, PushedHolder
<1>6. CASE Pool!Sweep
  BY <1>1, <1>2, <1>6, SweptHolder
<1>7. ASSUME NEW t \in Threads, Pool!Step(t) PROVE \A h \in Hosts : Len(rows'[h]) <= MaxPerHost
  BY <1>3, <1>4, <1>5, <1>7 DEF Pool!Step, Pool!Get, Pool!FindNone, Pool!Check, Pool!Dial,
     Pool!Close, Pool!Put, Pool!Add
<1> QED
  BY <1>3, <1>6, <1>7 DEF Pool!Next, Pool!Sub, Pool!Age, Pool!PeerActs, Pool!vars

\* The rows without connections.
Empties == {h \in v2 : v1[h] = <<>>}

LEMMA EmptiesKept ==
    ASSUME Pool!PoolInv, Pool!TypeOK', Pool!SweeperAssumption, Pool!ConnsAssumption,
             Pool!LimitsAssumption, [Pool!Next]_(Pool!vars)
    PROVE  Pool!EmptyRowsBounded'
<1> DEFINE rows == v1  entries == v2  host == v6
<1>1. Pool!TypeOK /\ Pool!InHands /\ Pool!SingleHolder
      /\ (\A h \in Hosts \ entries : rows[h] = <<>>) /\ Pool!Cardinality(Empties) <= MaxTotal
  BY DEF Pool!PoolInv, Pool!EmptyRowsBounded, Empties
<1>2. Pool!IsFiniteSet(entries) /\ Pool!IsFiniteSet(Empties)
      /\ Pool!Cardinality(entries) \in Nat /\ Pool!Cardinality(Empties) \in Nat
      /\ MaxTotal \in Nat
  <2>1. Pool!IsFiniteSet(entries) /\ MaxTotal \in Nat
    BY <1>1, PoolNumbers
  <2>2. Empties \in SUBSET entries
    BY DEF Empties
  <2> QED
    BY PoolSizes, <2>1, <2>2, Counts, FS_CardinalityType
<1>3. SUFFICES /\ \A h \in Hosts \ entries' : rows'[h] = <<>>
               /\ Pool!Cardinality(Empties') <= MaxTotal
  BY DEF Pool!EmptyRowsBounded, Empties
<1>4. ASSUME Empties' \in SUBSET Empties PROVE Pool!Cardinality(Empties') <= MaxTotal
  BY <1>1, <1>2, <1>4, Counts
<1>5. CASE UNCHANGED <<rows, entries>>
  <2>1. Empties' = Empties
    BY <1>5 DEF Empties
  <2> QED
    BY <1>1, <1>5, <2>1
<1>6. ASSUME NEW t \in Threads, Pool!TakeNewest(t)
      PROVE  (\A h \in Hosts \ entries' : rows'[h] = <<>>) /\ Pool!Cardinality(Empties')
               <= MaxTotal
  <2> DEFINE g == host[t]  q == rows[g]  r == SubSeq(q, 1, Len(q) - 1)
  <2>1. /\ rows \in [Hosts -> Seq(Conns)] /\ g \in Hosts /\ q # <<>> /\ rows'
             = [rows EXCEPT ![g] = r]
        /\ entries' = IF Len(q) = 1 /\ Pool!Cardinality(entries) > MaxTotal THEN entries \ {g}
             ELSE entries
    BY <1>1, <1>6 DEF Pool!TypeOK, Pool!TakeNewest
  <2>2. r \in Seq(Conns) /\ Len(r) = Len(q) - 1 /\ Len(q) \in Nat
    BY <2>1, TakenRow
  <2>3. r = <<>> <=> Len(q) = 1
    <3>1. r = <<>> <=> Len(r) = 0
      BY <2>2, EmptySeq
    <3> HIDE DEF r
    <3> QED
      BY <2>2, <3>1
  <2>4. g \in entries
    BY <1>1, <2>1
  <2>5. rows'[g] = r /\ \A h \in Hosts \ {g} : rows'[h] = rows[h]
    BY <2>1
  <2> HIDE DEF q, r, g
  <2>6. CASE Len(q) = 1 /\ Pool!Cardinality(entries) > MaxTotal
    <3>1. entries' = entries \ {g} /\ rows'[g] = <<>>
      BY <2>1, <2>3, <2>5, <2>6
    <3>2. Empties' \in SUBSET Empties
      BY <1>1, <2>5, <3>1 DEF Empties, Pool!TypeOK
    <3> QED
      BY <1>1, <1>4, <2>5, <3>1, <3>2
  <2>7. CASE Len(q) = 1 /\ ~ (Pool!Cardinality(entries) > MaxTotal)
    <3>1. entries' = entries /\ Empties' \in SUBSET entries
      BY <2>1, <2>7 DEF Empties
    <3>2. Pool!Cardinality(Empties') \in Nat /\ Pool!Cardinality(Empties')
            <= Pool!Cardinality(entries)
      BY <1>2, <3>1, Counts
    <3> QED
      BY <1>1, <1>2, <2>4, <2>5, <2>7, <3>1, <3>2
  <2>8. CASE Len(q) # 1
    <3>1. entries' = entries /\ rows'[g] # <<>>
      BY <2>1, <2>3, <2>5, <2>8
    <3>2. Empties' \in SUBSET Empties
      BY <1>1, <2>5, <3>1 DEF Empties, Pool!TypeOK
    <3> QED
      BY <1>1, <1>4, <2>4, <2>5, <3>1, <3>2
  <2> QED
    BY <2>6, <2>7, <2>8
<1>7. ASSUME NEW t \in Threads, Pool!FindNone(t)
      PROVE  (\A h \in Hosts \ entries' : rows'[h] = <<>>) /\ Pool!Cardinality(Empties')
               <= MaxTotal
  <2>1. rows' = rows /\ rows[host[t]] = <<>> /\ entries' \subseteq entries /\ entries
          \subseteq entries' \cup {host[t]}
    BY <1>7 DEF Pool!FindNone
  <2>2. Empties' \in SUBSET Empties
    BY <2>1 DEF Empties
  <2> QED
    BY <1>1, <1>4, <2>1, <2>2
<1>8. ASSUME NEW t \in Threads, Pool!Push(t)
      PROVE  (\A h \in Hosts \ entries' : rows'[h] = <<>>) /\ Pool!Cardinality(Empties')
               <= MaxTotal
  <2>1. rows'[host[t]] # <<>> /\ \A h \in Hosts \ {host[t]} : rows'[h] = rows[h]
    BY <1>1, <1>8, PushedHolder
  <2>2. entries' = entries \cup {host[t]} /\ entries \subseteq Hosts /\ host[t] \in Hosts
    BY <1>1, <1>8 DEF Pool!Push, Pool!TypeOK
  <2>3. Empties' \in SUBSET Empties
    BY <2>1, <2>2 DEF Empties
  <2> QED
    BY <1>1, <1>4, <2>1, <2>2, <2>3
<1>9. ASSUME Pool!Sweep
      PROVE  (\A h \in Hosts \ entries' : rows'[h] = <<>>) /\ Pool!Cardinality(Empties')
               <= MaxTotal
  <2>1. \A h \in Hosts : rows[h] = <<>> => rows'[h] = <<>>
    BY <1>1, <1>9, SweptHolder
  <2>2. entries' = {h \in entries : rows'[h] # <<>>} /\ entries \subseteq Hosts
    BY <1>1, <1>9 DEF Pool!Sweep, Pool!TypeOK
  <2>3. Empties' \in SUBSET Empties
    BY <2>2 DEF Empties
  <2> QED
    BY <1>1, <1>4, <2>1, <2>2, <2>3
<1>10. ASSUME NEW t \in Threads, Pool!Step(t)
       PROVE  (\A h \in Hosts \ entries' : rows'[h] = <<>>) /\ Pool!Cardinality(Empties')
                <= MaxTotal
  BY <1>5, <1>6, <1>7, <1>8, <1>10
     DEF Pool!Step, Pool!Get, Pool!Check, Pool!Dial, Pool!Close, Pool!Put, Pool!Add
<1> QED
  BY <1>5, <1>9, <1>10 DEF Pool!Next, Pool!Sub, Pool!Age, Pool!PeerActs, Pool!vars

LEMMA PoolStarts ==
    ASSUME Pool!SweeperAssumption, Pool!ConnsAssumption, Pool!LimitsAssumption, Pool!Init
    PROVE  Pool!PoolInv
<1> DEFINE rows == v1  entries == v2  total == v3  pc == v4  conn == v5  pend == v7
<1>1. Pool!TypeOK
  <2>1. 0 \in 0 .. Wrap - 1
    <3>1. Pool!Cardinality(Conns) \in Nat /\ Pool!Cardinality(Threads) \in Nat
      BY PoolSizes, FS_CardinalityType DEF Pool!SweeperAssumption, Pool!ConnsAssumption
    <3>2. Pool!Cardinality(Conns) * (Pool!Cardinality(Threads) + 2) \in Nat
      BY <3>1
    <3> HIDE DEF Pool!Cardinality
    <3> QED
      BY <3>2 DEF Pool!LimitsAssumption
  <2>2. total = 0 /\ rows \in [Hosts -> Seq(Conns)]
    BY DEF Pool!Init
  <2> QED
    BY <2>1, <2>2 DEF Pool!Init, Pool!TypeOK, Pool!Pcs
<1>2. \A h \in Hosts : rows[h] = <<>> /\ Len(rows[h]) = 0 /\ DOMAIN rows[h] = {}
  BY DEF Pool!Init
<1>4. \A t \in Pool!Everyone : pend[t] = {} /\ pc[t] = "home"
  <2>1. pend = [t \in Pool!Everyone |-> {}] /\ pc = [t \in Pool!Everyone |-> "home"]
    BY Zenon DEF Pool!Init
  <2> QED
    BY <2>1
<1>3. \A t \in Threads : conn[t] = None /\ pc[t] = "home" /\ t \in Pool!Everyone
  <2>1. conn = [t \in Threads |-> None]
    BY Zenon DEF Pool!Init
  <2>2. \A t \in Threads : t \in Pool!Everyone
    BY DEF Pool!Everyone
  <2> QED
    BY Zenon, <1>4, <2>1, <2>2
<1>5. Sweeper \in Pool!Everyone
  BY DEF Pool!Everyone
<1>6. Pool!InHands
  BY <1>3, <1>4, <1>5 DEF Pool!InHands
<1>7. Pool!Pooled = {} /\ Pool!Adding = {} /\ Pool!Owed = {} /\ {t \in Threads : pc[t] = "push"}
        = {}
  <2>1. Pool!Pooled = {}
    BY <1>2 DEF Pool!Pooled, Pool!Range1
  <2> QED
    BY <1>3, <1>4, <2>1 DEF Pool!Adding, Pool!Owed
<1>8. Pool!SingleHolder
  BY <1>2, <1>3, <1>7 DEF Pool!SingleHolder
<1>9. Pool!Cardinality({}) = 0 /\ Pool!IsFiniteSet({})
  BY PoolSizes, FS_EmptySet
<1>10. Wrap \in Nat \ {0} /\ Pool!Cardinality(Threads) \in Nat /\ MaxTotal \in Nat \ {0}
       /\ MaxPerHost \in Nat
  BY <1>1, PoolNumbers DEF Pool!LimitsAssumption
<1>11. Pool!TotalAccounted
  <2>1. 0 % Wrap = 0
    BY <1>10, ModSmall
  <2>2. total = 0
    BY DEF Pool!Init
  <2> QED
    BY <1>7, <1>9, <2>1, <2>2 DEF Pool!TotalAccounted
<1>12. Pool!OvershootBounded
  <2>1. Pool!Cardinality(Pool!Pooled) = 0 /\ Pool!Cardinality({t \in Threads : pc[t] = "push"})
          = 0
    BY <1>7, <1>9
  <2>2. 0 + 0 <= MaxTotal - 1 + Pool!Cardinality(Threads) /\ 0 <= MaxPerHost
    BY <1>10
  <2> QED
    BY <1>2, <2>1, <2>2 DEF Pool!OvershootBounded
<1>13. Pool!EmptyRowsBounded
  <2>1. {h \in entries : rows[h] = <<>>} = {}
    BY DEF Pool!Init
  <2> QED
    <3>1. Pool!Cardinality({h \in entries : rows[h] = <<>>}) = 0
      BY <1>9, <2>1
    <3>2. 0 <= MaxTotal
      BY <1>10
    <3> QED
      BY <1>2, <3>1, <3>2 DEF Pool!EmptyRowsBounded
<1> QED
  BY <1>1, <1>6, <1>8, <1>11, <1>12, <1>13 DEF Pool!PoolInv

LEMMA PoolKept ==
    ASSUME Pool!SweeperAssumption, Pool!ConnsAssumption, Pool!LimitsAssumption, Pool!PoolInv,
             [Pool!Next]_(Pool!vars)
    PROVE  Pool!PoolInv'
<1>1. Pool!TypeOK /\ Pool!InHands /\ Pool!SingleHolder
  BY DEF Pool!PoolInv
<1>2. Pool!TypeOK' /\ Pool!InHands'
  BY <1>1, TypesKept
<1>3. Pool!SingleHolder'
  BY <1>1, HolderKept
<1>4. Pool!TotalAccounted'
  BY <1>2, TotalKept
<1>5. Pool!OvershootBounded'
  BY <1>2, RowCapKept, OvershootKept DEF Pool!OvershootBounded, InRows, Putting
<1>6. Pool!EmptyRowsBounded'
  BY <1>2, EmptiesKept
<1> QED
  BY <1>2, <1>3, <1>4, <1>5, <1>6 DEF Pool!PoolInv

LEMMA PoolInductive == Spec => []PoolInv
<1>1. Init => PoolInv
  BY PoolAssumption, PoolStarts DEF Init, PoolInv
<1>2. PoolInv /\ [Next]_vars => PoolInv'
  <2> SUFFICES ASSUME PoolInv, [Next]_vars, part' = "pool" PROVE Pool!PoolInv'
    BY DEF PoolInv
  <2>1. part = "pool"
    BY SamePart
  <2>2. [Pool!Next]_(Pool!vars)
    BY <2>1
       DEF Next, MemStep, FiltersStep, DoorStep, ShotsStep, AnswersStep, RowStep, MoneyStep,
           PoolStep, ResolverStep, DnsStep, RaceStep, PolicyStep, RelayStep, vars, Pool!vars
  <2>3. Pool!PoolInv
    BY <2>1 DEF PoolInv
  <2> QED
    BY PoolAssumption, <2>2, <2>3, PoolKept
<1> QED
  BY <1>1, <1>2, PTL DEF Spec

\* A connection has one holder, the total is exact up to the threads that are about to correct it, no
\* row exceeds its cap and all of them exceed theirs by less than one for each thread, and rows without
\* connections do not pile up, whatever is taken, given back, swept or closed meanwhile (get, put, sweep).
THEOREM PoolAlwaysAccounted == Spec => []PoolAccounted
<1>1. PoolInv => PoolAccounted
  BY DEF PoolInv, PoolAccounted, Pool!PoolInv
<1> QED
  BY <1>1, PoolInductive, PTL
-----------------------------------------------------------------------------
\* The threads that resolve names.
LEMMA ResolverSizes ==
    /\ \A S : Resolver!IsFiniteSet(S) <=> IsFiniteSet(S)
    /\ \A S : Resolver!Cardinality(S) = Cardinality(S)
<1>1. \A S : Resolver!IsFiniteSet(S) <=> IsFiniteSet(S)
  BY Zenon DEF Resolver!IsFiniteSet, IsFiniteSet
<1>2. \A S : Resolver!Cardinality(S) = Cardinality(S)
  BY Zenon DEF Resolver!Cardinality, Cardinality
<1> QED
  BY <1>1, <1>2

\* The numbers of threads and callers that are counted.
Free == Resolver!Cardinality(Resolver!WorkersAt({"top", "waiting", "woken", "expired"}))
Busy == Resolver!Cardinality(Resolver!WorkersAt({"resolving"}))
Waits == Resolver!Cardinality(Resolver!WorkersAt({"waiting", "woken", "expired"}))
Alive == Resolver!Cardinality(Workers \ Resolver!WorkersAt({"none"}))
Asking == Resolver!Cardinality(Resolver!CallersAt({"busy", "counted", "refused"}))
Counted == Resolver!Cardinality(Resolver!CallersAt({"counted"}))

Books ==
    /\ v2 = Len(v3) + Busy + Asking
    /\ \E n \in Limits : Len(v3) + Busy + Counted <= n
    /\ Len(v3) > 0 => v5 > 0
    /\ Len(v3) > Free => v10
    /\ v4 = Waits /\ v5 = Alive

\* How a number changes when one member moves.
LEMMA OneMoves ==
    ASSUME NEW A, Resolver!IsFiniteSet(A), NEW S \in SUBSET A, NEW T \in SUBSET A, NEW x \in A,
           \A y \in A \ {x} : y \in S <=> y \in T
    PROVE  /\ Resolver!Cardinality(S) \in Nat /\ Resolver!Cardinality(T) \in Nat
           /\ x \in S /\ x \notin T => Resolver!Cardinality(T) = Resolver!Cardinality(S) - 1
           /\ x \notin S /\ x \in T => Resolver!Cardinality(T) = Resolver!Cardinality(S) + 1
           /\ (x \in S <=> x \in T) => Resolver!Cardinality(T) = Resolver!Cardinality(S)
<1>1. /\ Resolver!IsFiniteSet(S) /\ Resolver!IsFiniteSet(T)
      /\ Resolver!Cardinality(S) \in Nat /\ Resolver!Cardinality(T) \in Nat
  BY ResolverSizes, FS_Subset, FS_CardinalityType
<1>2. ASSUME x \in S, x \notin T PROVE Resolver!Cardinality(T) = Resolver!Cardinality(S) - 1
  <2>1. T = S \ {x}
    BY <1>2
  <2> QED
    BY ResolverSizes, <1>1, <1>2, <2>1, FS_RemoveElement
<1>3. ASSUME x \notin S, x \in T PROVE Resolver!Cardinality(T) = Resolver!Cardinality(S) + 1
  <2>1. T = S \cup {x}
    BY <1>3
  <2> QED
    BY ResolverSizes, <1>1, <1>3, <2>1, FS_AddElement
<1>4. ASSUME x \in S <=> x \in T PROVE Resolver!Cardinality(T) = Resolver!Cardinality(S)
  <2>1. T = S
    BY <1>4
  <2> QED
    BY <2>1
<1> QED
  BY <1>1, <1>2, <1>3, <1>4

\* Whoever is counted asks, and a channel that changes stays one.
LEMMA CountedAsk == ASSUME Resolver!ResolverPoolAssumption PROVE Counted <= Asking
<1>1. Resolver!CallersAt({"counted"}) \subseteq Resolver!CallersAt({"busy", "counted", "refused"})
  BY DEF Resolver!CallersAt
<1>2. Resolver!IsFiniteSet(Resolver!CallersAt({"busy", "counted", "refused"}))
  <2>1. Resolver!CallersAt({"busy", "counted", "refused"}) \subseteq Callers
    BY DEF Resolver!CallersAt
  <2> QED
    BY ResolverSizes, <2>1, FS_Subset DEF Resolver!ResolverPoolAssumption
<1> QED
  BY ResolverSizes, <1>1, <1>2, FS_Subset DEF Counted, Asking

LEMMA ChannelStays ==
    ASSUME NEW S, NEW f \in Seq(S), NEW i, NEW x \in S PROVE [f EXCEPT ![i] = x] \in Seq(S)
<1>1. Len(f) \in Nat /\ f \in [1 .. Len(f) -> S]
  OBVIOUS
<1>2. [f EXCEPT ![i] = x] \in [1 .. Len(f) -> S]
  BY <1>1
<1> QED
  BY <1>1, <1>2

\* How the numbers change when one thread goes from a step to another.
Among(pc, pcs) == IF pc \in pcs THEN 1 ELSE 0
Moves(before, after) ==
    /\ Free' = Free - Among(before, {"top", "waiting", "woken", "expired"})
                    + Among(after, {"top", "waiting", "woken", "expired"})
    /\ Busy' = Busy - Among(before, {"resolving"}) + Among(after, {"resolving"})
    /\ Waits' = Waits - Among(before, {"waiting", "woken", "expired"})
                      + Among(after, {"waiting", "woken", "expired"})
    /\ Alive' = Alive - Among(before, Resolver!WorkerPcs \ {"none"})
                      + Among(after, Resolver!WorkerPcs \ {"none"})

Numbers ==
    /\ {Free, Busy, Waits, Alive, Asking, Counted} \subseteq Nat
    /\ Waits <= Free /\ Free <= Alive

LEMMA NumbersAre == ASSUME Resolver!ResolverPoolAssumption, Resolver!ResolverTypes PROVE Numbers
<1>1. Resolver!IsFiniteSet(Workers) /\ Resolver!IsFiniteSet(Callers)
  BY DEF Resolver!ResolverPoolAssumption
<1>2. \A P : /\ Resolver!WorkersAt(P) \subseteq Workers /\ Resolver!CallersAt(P) \subseteq Callers
             /\ Resolver!IsFiniteSet(Resolver!WorkersAt(P))
             /\ Resolver!IsFiniteSet(Resolver!CallersAt(P))
  BY ResolverSizes, <1>1, FS_Subset DEF Resolver!WorkersAt, Resolver!CallersAt
<1>3. Resolver!IsFiniteSet(Workers \ Resolver!WorkersAt({"none"}))
  BY ResolverSizes, <1>1, FS_Subset
<1>4. Resolver!WorkersAt({"waiting", "woken", "expired"})
        \subseteq Resolver!WorkersAt({"top", "waiting", "woken", "expired"})
  BY DEF Resolver!WorkersAt
<1>5. Resolver!WorkersAt({"top", "waiting", "woken", "expired"})
        \subseteq Workers \ Resolver!WorkersAt({"none"})
  BY DEF Resolver!WorkersAt
<1>6. /\ Free \in Nat /\ Busy \in Nat /\ Waits \in Nat /\ Alive \in Nat /\ Asking \in Nat
      /\ Counted \in Nat
  BY ResolverSizes, <1>2, <1>3, FS_CardinalityType DEF Free, Busy, Waits, Alive, Asking, Counted
<1>7. Waits <= Free
  BY ResolverSizes, <1>2, <1>4, FS_Subset DEF Waits, Free
<1>8. Free <= Alive
  BY ResolverSizes, <1>3, <1>5, FS_Subset DEF Free, Alive
<1> QED
  BY <1>6, <1>7, <1>8 DEF Numbers

LEMMA NumbersKept == ASSUME Resolver!ResolverPoolAssumption PROVE Numbers'
<1>1. Resolver!IsFiniteSet(Workers) /\ Resolver!IsFiniteSet(Callers)
  BY DEF Resolver!ResolverPoolAssumption
<1>2. \A P : /\ Resolver!WorkersAt(P)' \subseteq Workers /\ Resolver!CallersAt(P)'
                  \subseteq Callers
             /\ Resolver!IsFiniteSet(Resolver!WorkersAt(P)')
             /\ Resolver!IsFiniteSet(Resolver!CallersAt(P)')
  BY ResolverSizes, <1>1, FS_Subset DEF Resolver!WorkersAt, Resolver!CallersAt
<1>3. Resolver!IsFiniteSet(Workers \ Resolver!WorkersAt({"none"})')
  BY ResolverSizes, <1>1, FS_Subset
<1>4. Resolver!WorkersAt({"waiting", "woken", "expired"})'
        \subseteq Resolver!WorkersAt({"top", "waiting", "woken", "expired"})'
  BY DEF Resolver!WorkersAt
<1>5. Resolver!WorkersAt({"top", "waiting", "woken", "expired"})'
        \subseteq Workers \ Resolver!WorkersAt({"none"})'
  BY DEF Resolver!WorkersAt
<1> QED
  BY ResolverSizes, <1>2, <1>3, <1>4, <1>5, FS_Subset, FS_CardinalityType
     DEF Numbers, Free, Busy, Waits, Alive, Asking, Counted

LEMMA WorkerMoves ==
    ASSUME Resolver!ResolverPoolAssumption, Resolver!ResolverTypes, Resolver!ResolverTypes',
             NEW w \in Workers,
           \A y \in Workers \ {w} : \/ v6'[y].pc = v6[y].pc
                                    \/ v6[y].pc = "waiting" /\ v6'[y].pc = "woken"
    PROVE  Moves(v6[w].pc, v6'[w].pc)
<1> DEFINE worker == v6
<1>1. Resolver!IsFiniteSet(Workers)
  BY DEF Resolver!ResolverPoolAssumption
<1>2. ASSUME NEW P, "waiting" \in P <=> "woken" \in P
      PROVE  Resolver!Cardinality(Resolver!WorkersAt(P)')
               = Resolver!Cardinality(Resolver!WorkersAt(P)) - Among(worker[w].pc, P)
                                            + Among(worker'[w].pc, P)
  <2>1. Resolver!WorkersAt(P) \in SUBSET Workers /\ Resolver!WorkersAt(P)' \in SUBSET Workers
    BY DEF Resolver!WorkersAt
  <2>2. \A y \in Workers \ {w} : y \in Resolver!WorkersAt(P) <=> y \in Resolver!WorkersAt(P)'
    BY <1>2 DEF Resolver!WorkersAt
  <2>3. /\ w \in Resolver!WorkersAt(P) <=> worker[w].pc \in P
        /\ w \in Resolver!WorkersAt(P)' <=> worker'[w].pc \in P
    BY DEF Resolver!WorkersAt
  <2>4. /\ Resolver!Cardinality(Resolver!WorkersAt(P)) \in Nat
        /\ Resolver!Cardinality(Resolver!WorkersAt(P)') \in Nat
        /\ w \in Resolver!WorkersAt(P) /\ w \notin Resolver!WorkersAt(P)' =>
              Resolver!Cardinality(Resolver!WorkersAt(P)')
                = Resolver!Cardinality(Resolver!WorkersAt(P)) - 1
        /\ w \notin Resolver!WorkersAt(P) /\ w \in Resolver!WorkersAt(P)' =>
              Resolver!Cardinality(Resolver!WorkersAt(P)')
                = Resolver!Cardinality(Resolver!WorkersAt(P)) + 1
        /\ (w \in Resolver!WorkersAt(P) <=> w \in Resolver!WorkersAt(P)') =>
              Resolver!Cardinality(Resolver!WorkersAt(P)')
                = Resolver!Cardinality(Resolver!WorkersAt(P))
    BY <1>1, <2>1, <2>2, OneMoves
  <2> QED
    BY <2>3, <2>4 DEF Among
<1>3. /\ Free' = Free - Among(worker[w].pc, {"top", "waiting", "woken", "expired"})
                    + Among(worker'[w].pc, {"top", "waiting", "woken", "expired"})
      /\ Busy' = Busy - Among(worker[w].pc, {"resolving"}) + Among(worker'[w].pc, {"resolving"})
      /\ Waits' = Waits - Among(worker[w].pc, {"waiting", "woken", "expired"})
                      + Among(worker'[w].pc, {"waiting", "woken", "expired"})
  BY <1>2 DEF Free, Busy, Waits
<1>4. /\ Workers \ Resolver!WorkersAt({"none"})
           = Resolver!WorkersAt(Resolver!WorkerPcs \ {"none"})
      /\ Workers \ Resolver!WorkersAt({"none"})'
           = Resolver!WorkersAt(Resolver!WorkerPcs \ {"none"})'
  BY DEF Resolver!WorkersAt, Resolver!ResolverTypes
<1>5. Alive' = Alive - Among(worker[w].pc, Resolver!WorkerPcs \ {"none"})
                     + Among(worker'[w].pc, Resolver!WorkerPcs \ {"none"})
  <2>1. "waiting" \in Resolver!WorkerPcs \ {"none"} <=> "woken" \in Resolver!WorkerPcs \ {"none"}
    BY DEF Resolver!WorkerPcs
  <2> QED
    BY <1>2, <1>4, <2>1, Zenon DEF Alive
<1> QED
  BY <1>3, <1>5 DEF Moves

\* What each place of a worker counts for.
LEMMA Weights ==
    /\ \A pc \in {"top", "waiting", "woken", "expired"} :
          Among(pc, {"top", "waiting", "woken", "expired"}) = 1
    /\ \A pc \in {"none", "resolving", "send"} :
          Among(pc, {"top", "waiting", "woken", "expired"}) = 0
    /\ Among("resolving", {"resolving"}) = 1
    /\ \A pc \in {"none", "top", "waiting", "woken", "expired", "send"} :
         Among(pc, {"resolving"}) = 0
    /\ \A pc \in {"waiting", "woken", "expired"} : Among(pc, {"waiting", "woken", "expired"}) = 1
    /\ \A pc \in {"none", "top", "resolving", "send"} :
          Among(pc, {"waiting", "woken", "expired"}) = 0
    /\ \A pc \in {"top", "waiting", "woken", "expired", "resolving", "send"} :
          Among(pc, Resolver!WorkerPcs \ {"none"}) = 1
    /\ Among("none", Resolver!WorkerPcs \ {"none"}) = 0
BY DEF Among, Resolver!WorkerPcs

LEMMA WorkersStay ==
    ASSUME \A y \in Workers : \/ v6'[y].pc = v6[y].pc
                              \/ v6[y].pc = "waiting" /\ v6'[y].pc = "woken"
    PROVE  Free' = Free /\ Busy' = Busy /\ Waits' = Waits /\ Alive' = Alive
<1>1. ASSUME NEW P, "waiting" \in P <=> "woken" \in P
      PROVE  Resolver!WorkersAt(P)' = Resolver!WorkersAt(P)
  BY <1>1 DEF Resolver!WorkersAt
<1>2. /\ Resolver!WorkersAt({"top", "waiting", "woken", "expired"})'
           = Resolver!WorkersAt({"top", "waiting", "woken", "expired"})
      /\ Resolver!WorkersAt({"resolving"})' = Resolver!WorkersAt({"resolving"})
      /\ Resolver!WorkersAt({"waiting", "woken", "expired"})'
           = Resolver!WorkersAt({"waiting", "woken", "expired"})
      /\ Resolver!WorkersAt({"none"})' = Resolver!WorkersAt({"none"})
  BY <1>1
<1> QED
  BY <1>2 DEF Free, Busy, Waits, Alive

\* How the numbers change when one caller goes on.
Asks(before, after) ==
    /\ Asking' = Asking - Among(before, {"busy", "counted", "refused"})
                        + Among(after, {"busy", "counted", "refused"})
    /\ Counted' = Counted - Among(before, {"counted"}) + Among(after, {"counted"})

LEMMA CallerMoves ==
    ASSUME Resolver!ResolverPoolAssumption, NEW c \in Callers,
           \A y \in Callers \ {c} : v7'[y].pc = v7[y].pc
    PROVE  Asks(v7[c].pc, v7'[c].pc)
<1> DEFINE caller == v7
<1>1. Resolver!IsFiniteSet(Callers)
  BY DEF Resolver!ResolverPoolAssumption
<1>2. ASSUME NEW P
      PROVE  Resolver!Cardinality(Resolver!CallersAt(P)')
               = Resolver!Cardinality(Resolver!CallersAt(P)) - Among(caller[c].pc, P)
                                             + Among(caller'[c].pc, P)
  <2>2. Resolver!CallersAt(P) \in SUBSET Callers /\ Resolver!CallersAt(P)' \in SUBSET Callers
    BY DEF Resolver!CallersAt
  <2>3. \A y \in Callers \ {c} : y \in Resolver!CallersAt(P) <=> y \in Resolver!CallersAt(P)'
    BY DEF Resolver!CallersAt
  <2>4. /\ c \in Resolver!CallersAt(P) <=> caller[c].pc \in P
        /\ c \in Resolver!CallersAt(P)' <=> caller'[c].pc \in P
    BY DEF Resolver!CallersAt
  <2>5. /\ Resolver!Cardinality(Resolver!CallersAt(P)) \in Nat
        /\ Resolver!Cardinality(Resolver!CallersAt(P)') \in Nat
        /\ c \in Resolver!CallersAt(P) /\ c \notin Resolver!CallersAt(P)' =>
              Resolver!Cardinality(Resolver!CallersAt(P)')
                = Resolver!Cardinality(Resolver!CallersAt(P)) - 1
        /\ c \notin Resolver!CallersAt(P) /\ c \in Resolver!CallersAt(P)' =>
              Resolver!Cardinality(Resolver!CallersAt(P)')
                = Resolver!Cardinality(Resolver!CallersAt(P)) + 1
        /\ (c \in Resolver!CallersAt(P) <=> c \in Resolver!CallersAt(P)') =>
              Resolver!Cardinality(Resolver!CallersAt(P)')
                = Resolver!Cardinality(Resolver!CallersAt(P))
    BY <1>1, <2>2, <2>3, OneMoves
  <2> QED
    BY <2>4, <2>5 DEF Among
<1> QED
  BY <1>2 DEF Asks, Asking, Counted

LEMMA CallersStay == ASSUME v7' = v7 PROVE Asking' = Asking /\ Counted' = Counted
BY DEF Asking, Counted, Resolver!CallersAt

\* The invariant is what the books say.
LEMMA BooksAreKept ==
    ASSUME Resolver!ResolverInv
    PROVE  Resolver!ResolverTypes /\ Books
BY DEF Resolver!ResolverInv, Resolver!ResolverTypes, Books, Resolver!InFlightAccounted,
   Resolver!JobHasThread, Free, Busy, Waits, Alive,
       Asking, Counted

LEMMA ResolverStarts == Resolver!ResolverPoolAssumption /\ Resolver!Init => Resolver!ResolverInv
<1> DEFINE limit == v1  in_flight == v2  queue == v3  waiting == v4  spawned == v5
           worker == v6  caller == v7  channel == v8  short == v10
<1> SUFFICES ASSUME Resolver!ResolverPoolAssumption, Resolver!Init PROVE Resolver!ResolverInv
  OBVIOUS
<1>1. Resolver!ResolverTypes
  <2>1. queue \in Seq(Nat) /\ channel \in Seq({"open", "sent", "closed"}) /\ short \in BOOLEAN
    BY EmptySeq DEF Resolver!Init
  <2>2. /\ worker \in [Workers -> [pc : Resolver!WorkerPcs, job : Nat \cup {None}]]
        /\ caller \in [Callers -> [pc : Resolver!CallerPcs, job : Nat \cup {None}]]
    BY DEF Resolver!Init, Resolver!WorkerPcs, Resolver!CallerPcs, Resolver!NoThread,
       Resolver!Out
  <2>3. limit \in Limits /\ {in_flight, waiting, spawned} \subseteq Int
    BY DEF Resolver!Init
  <2> QED
    BY <2>1, <2>2, <2>3 DEF Resolver!ResolverTypes
<1>2. /\ \A P : "none" \notin P => Resolver!WorkersAt(P) = {}
      /\ \A P : "out" \notin P => Resolver!CallersAt(P) = {}
      /\ Workers \ Resolver!WorkersAt({"none"}) = {}
  BY DEF Resolver!Init, Resolver!WorkersAt, Resolver!CallersAt, Resolver!NoThread, Resolver!Out
<1>3. Resolver!Cardinality({}) = 0
  BY ResolverSizes, FS_EmptySet
<1>4. limit \in Limits /\ limit \in Nat /\ Len(queue) = 0 /\ queue = <<>> /\ in_flight = 0
        /\ waiting = 0 /\ spawned = 0
  BY DEF Resolver!Init, Resolver!ResolverPoolAssumption
<1>5. /\ Resolver!WorkersAt({"top", "waiting", "woken", "expired"}) = {}
      /\ Resolver!WorkersAt({"resolving"}) = {}
      /\ Resolver!WorkersAt({"waiting", "woken", "expired"}) = {}
      /\ Resolver!CallersAt({"busy", "counted", "refused"}) = {}
      /\ Resolver!CallersAt({"counted"}) = {}
  BY <1>2
<1>6. Resolver!InFlightAccounted
  <2>1. in_flight = Len(queue) + 0 + 0 /\ \E n \in Limits : Len(queue) + 0 + 0 <= n
    BY <1>4
  <2> QED
    BY <1>3, <1>5, <2>1, Zenon DEF Resolver!InFlightAccounted
<1>7. Resolver!JobHasThread
  <2>1. /\ queue # <<>> => spawned > 0
        /\ Len(queue) > 0 => short
        /\ waiting = 0 /\ spawned = 0
    BY <1>4
  <2> QED
    BY <1>2, <1>3, <1>5, <2>1, Zenon DEF Resolver!JobHasThread
<1> QED
  BY <1>1, <1>6, <1>7 DEF Resolver!ResolverInv

LEMMA ResolverKept ==
    ASSUME Resolver!ResolverPoolAssumption, Resolver!ResolverInv,
             [Resolver!Next]_(Resolver!vars) PROVE Resolver!ResolverInv'
<1> DEFINE limit == v1  in_flight == v2  queue == v3  waiting == v4  spawned == v5
           worker == v6  caller == v7  channel == v8  short == v10
<1>0. Resolver!ResolverTypes /\ Books /\ Numbers
  BY BooksAreKept, NumbersAre
<1>1. /\ Free \in Nat /\ Busy \in Nat /\ Waits \in Nat /\ Alive \in Nat /\ Asking \in Nat
      /\ Counted \in Nat
      /\ Waits <= Free /\ Free <= Alive
      /\ in_flight = Len(queue) + Busy + Asking
      /\ Len(queue) > 0 => spawned > 0
      /\ Len(queue) > Free => short
      /\ waiting = Waits /\ spawned = Alive
  BY <1>0 DEF Numbers, Books
<1>2. PICK most \in Limits : Len(queue) + Busy + Counted <= most
  BY <1>0 DEF Books
<1>3. /\ limit \in Limits /\ limit \in Nat /\ limit > 0 /\ most \in Nat /\ Len(queue) \in Nat
      /\ queue \in Seq(Nat)
  BY <1>0 DEF Resolver!ResolverPoolAssumption, Resolver!ResolverTypes
<1>4. SUFFICES Resolver!ResolverTypes' /\ Books'
  <2>1. queue' \in Seq(Nat) => (queue' # <<>> <=> Len(queue') > 0)
    OBVIOUS
  <2>2. ASSUME Resolver!ResolverTypes', Books' PROVE Resolver!InFlightAccounted'
    BY <2>2, Zenon DEF Resolver!InFlightAccounted, Books, Busy, Asking, Counted
  <2>3. ASSUME Resolver!ResolverTypes', Books' PROVE Resolver!JobHasThread'
    BY <2>1, <2>3 DEF Resolver!JobHasThread, Books, Free, Waits, Alive, Resolver!ResolverTypes
  <2> QED
    BY <2>2, <2>3 DEF Resolver!ResolverInv
<1>a. ASSUME NEW c \in Callers, Resolver!CountIn(c) PROVE Resolver!ResolverTypes' /\ Books'
  <2>0. PICK cap \in Limits :
           caller' = [caller EXCEPT ![c].pc = IF in_flight >= cap THEN "busy" ELSE "counted"]
    BY <1>a, Zenon DEF Resolver!CountIn
  <2>1. /\ caller[c].pc = "out" /\ in_flight' = in_flight + 1
        /\ UNCHANGED <<limit, queue, waiting, spawned, worker, short, channel>>
        /\ caller' \in [Callers -> [pc : Resolver!CallerPcs, job : Nat \cup {None}]]
        /\ in_flight >= cap => caller'[c].pc = "busy"
        /\ ~ in_flight >= cap => caller'[c].pc = "counted"
        /\ \A y \in Callers \ {c} : caller'[y].pc = caller[y].pc
    <3>1. /\ caller[c].pc = "out" /\ in_flight' = in_flight + 1
          /\ UNCHANGED <<limit, queue, waiting, spawned, worker, short, channel>>
      BY <1>a, Zenon DEF Resolver!CountIn, Resolver!pool
    <3>2. CASE in_flight >= cap
      <4>1. caller' = [caller EXCEPT ![c].pc = "busy"]
        BY <2>0, <3>2, Zenon
      <4> QED
        BY <1>0, <3>1, <3>2, <4>1 DEF Resolver!ResolverTypes, Resolver!CallerPcs
    <3>3. CASE ~ in_flight >= cap
      <4>1. caller' = [caller EXCEPT ![c].pc = "counted"]
        BY <2>0, <3>3, Zenon
      <4> QED
        BY <1>0, <3>1, <3>3, <4>1 DEF Resolver!ResolverTypes, Resolver!CallerPcs
    <3> QED
      BY <3>2, <3>3
  <2>2. Asks(caller[c].pc, caller'[c].pc)
    BY <2>1, CallerMoves
  <2>3. Free' = Free /\ Busy' = Busy /\ Waits' = Waits /\ Alive' = Alive
    BY <2>1, WorkersStay
  <2>4. Resolver!ResolverTypes'
    BY <1>0, <2>1 DEF Resolver!ResolverTypes
  <2>a. cap \in Nat
    BY DEF Resolver!ResolverPoolAssumption
  <2>5. CASE in_flight >= cap
    <3>1. Asking' = Asking + 1 /\ Counted' = Counted
      BY <1>1, <2>1, <2>2, <2>5 DEF Asks, Among
    <3> QED
      BY <1>1, <1>2, <1>3, <2>1, <2>3, <2>4, <3>1 DEF Books
  <2>6. CASE ~ in_flight >= cap
    <3>1. Asking' = Asking + 1 /\ Counted' = Counted + 1
      BY <1>1, <2>1, <2>2, <2>6 DEF Asks, Among
    <3>2. Counted <= Asking
      BY CountedAsk
    <3>3. Len(queue') + Busy' + Counted' <= cap
      BY <1>1, <1>3, <2>a, <2>1, <2>3, <2>6, <3>1, <3>2
    <3> QED
      BY <1>1, <1>3, <2>1, <2>3, <2>4, <3>1, <3>3 DEF Books
  <2> QED
    BY <2>5, <2>6
<1>b. ASSUME NEW c \in Callers, Resolver!BusyOut(c) \/ Resolver!Receive(c) \/ Resolver!GiveUp(c)
             \/ Resolver!Leave(c)
      PROVE  Resolver!ResolverTypes' /\ Books'
  <2>1. /\ caller[c].pc \in {"busy", "refused", "receiving", "leaving"}
        /\ in_flight' = in_flight - (IF caller[c].pc \in {"busy", "refused"} THEN 1 ELSE 0)
        /\ caller'[c].pc \in {"out", "leaving"}
        /\ caller' \in [Callers -> [pc : Resolver!CallerPcs, job : Nat \cup {None}]]
        /\ UNCHANGED <<limit, queue, waiting, spawned, worker, short>>
        /\ \A y \in Callers \ {c} : caller'[y].pc = caller[y].pc
    <3>1. CASE Resolver!BusyOut(c)
      BY <1>0, <3>1 DEF Resolver!BusyOut, Resolver!Out, Resolver!ResolverTypes,
         Resolver!CallerPcs, Resolver!pool
    <3>2. CASE Resolver!Receive(c)
      BY <1>0, <3>2 DEF Resolver!Receive, Resolver!Out, Resolver!ResolverTypes,
         Resolver!CallerPcs, Resolver!pool
    <3>3. CASE Resolver!GiveUp(c)
      BY <1>0, <3>3 DEF Resolver!GiveUp, Resolver!ResolverTypes, Resolver!CallerPcs,
         Resolver!pool
    <3>4. CASE Resolver!Leave(c)
      BY <1>0, <3>4 DEF Resolver!Leave, Resolver!Out, Resolver!ResolverTypes,
         Resolver!CallerPcs, Resolver!pool
    <3> QED
      BY <1>b, <3>1, <3>2, <3>3, <3>4
  <2>2. channel' \in Seq({"open", "sent", "closed"})
    <3>1. channel \in Seq({"open", "sent", "closed"})
      BY <1>0 DEF Resolver!ResolverTypes
    <3>2. CASE channel' = channel
      BY <3>1, <3>2
    <3>3. CASE channel' = [channel EXCEPT ![caller[c].job] = "closed"]
      BY <3>1, <3>3, ChannelStays
    <3> QED
      BY <1>b, <3>2, <3>3 DEF Resolver!BusyOut, Resolver!Receive, Resolver!GiveUp,
         Resolver!Leave
  <2>3. Resolver!ResolverTypes'
    BY <1>0, <1>1, <2>1, <2>2 DEF Resolver!ResolverTypes
  <2>4. Asks(caller[c].pc, caller'[c].pc)
    BY <2>1, CallerMoves
  <2>5. Free' = Free /\ Busy' = Busy /\ Waits' = Waits /\ Alive' = Alive
    BY <2>1, WorkersStay
  <2>6. Counted' = Counted /\ in_flight' = in_flight - (Asking - Asking') /\ Asking' \in Int
    BY <1>1, <2>1, <2>4 DEF Asks, Among
  <2> QED
    BY <1>1, <1>2, <1>3, <2>1, <2>3, <2>5, <2>6 DEF Books
<1>c. ASSUME NEW c \in Callers, NEW starts \in BOOLEAN, Resolver!Submit(c, starts)
      PROVE Resolver!ResolverTypes'
             /\ Books'
  <2> DEFINE job == Len(channel) + 1
             Notified == IF Resolver!WorkersAt({"waiting"}) = {} THEN {worker}
                         ELSE {[worker EXCEPT ![w].pc = "woken"] :
                           w \in Resolver!WorkersAt({"waiting"})}
             wants == Len(queue) + 1 > waiting /\ spawned < limit
             dropped == wants /\ ~starts /\ spawned = 0
  <2>1. /\ caller[c].pc = "counted" /\ (~starts => wants)
        /\ queue' = IF dropped THEN queue ELSE Append(queue, job)
        /\ channel' = Append(channel, IF dropped THEN "closed" ELSE "open")
        /\ caller' = [caller EXCEPT ![c] = IF dropped THEN [pc |-> "refused", job |-> None]
                                           ELSE [pc |-> "receiving", job |-> job]]
        /\ short' = (~dropped /\ (short \/ (Len(queue) + 1 > waiting /\ ~(wants /\ starts))))
        /\ UNCHANGED <<limit, in_flight, waiting>>
    BY <1>c, Zenon DEF Resolver!Submit
  <2>2. PICK ws \in Notified :
           IF wants /\ starts
           THEN \E w \in Resolver!WorkersAt({"none"}) : worker' = [ws EXCEPT ![w].pc = "top"]
           /\ spawned' = spawned + 1
           ELSE worker' = ws /\ UNCHANGED spawned
    BY <1>c, Zenon DEF Resolver!Submit
  <2>3. /\ ws \in [Workers -> [pc : Resolver!WorkerPcs, job : Nat \cup {None}]]
        /\ \A y \in Workers : ws[y].pc = worker[y].pc \/ (worker[y].pc = "waiting"
           /\ ws[y].pc = "woken")
    <3>1. CASE ws = worker
      BY <1>0, <3>1 DEF Resolver!ResolverTypes
    <3>2. ASSUME NEW w \in Workers, worker[w].pc = "waiting",
                 ws = [worker EXCEPT ![w].pc = "woken"]
          PROVE  <2>3!1 /\ <2>3!2
      BY <1>0, <3>2 DEF Resolver!ResolverTypes, Resolver!WorkerPcs
    <3>3. \/ ws = worker
          \/ \E w \in Workers : worker[w].pc = "waiting" /\ ws = [worker EXCEPT ![w].pc = "woken"]
      BY DEF Resolver!WorkersAt
    <3> QED
      BY <3>1, <3>2, <3>3
  <2> HIDE DEF Notified
  <2>4. job \in Nat /\ channel \in Seq({"open", "sent", "closed"})
    BY <1>0 DEF Resolver!ResolverTypes
  <2> HIDE DEF job
  <2>5. CASE dropped
    <3>1. /\ queue' = queue /\ channel' = Append(channel, "closed") /\ short' = FALSE
          /\ caller' = [caller EXCEPT ![c] = [pc |-> "refused", job |-> None]]
          /\ worker' = ws /\ spawned' = spawned /\ spawned = 0
      BY <2>1, <2>2, <2>5
    <3> HIDE DEF dropped
    <3>2. channel' \in Seq({"open", "sent", "closed"})
      BY <2>4, <3>1
    <3>3. /\ caller' \in [Callers -> [pc : Resolver!CallerPcs, job : Nat \cup {None}]]
          /\ caller'[c].pc = "refused" /\ \A y \in Callers \ {c} : caller'[y].pc = caller[y].pc
      BY <1>0, <3>1 DEF Resolver!ResolverTypes, Resolver!CallerPcs
    <3>4. Resolver!ResolverTypes'
      BY <1>0, <2>1, <2>3, <3>1, <3>2, <3>3 DEF Resolver!ResolverTypes
    <3>5. Free' = Free /\ Busy' = Busy /\ Waits' = Waits /\ Alive' = Alive
      BY <2>3, <3>1, WorkersStay
    <3>6. Asks("counted", "refused")
      BY <2>1, <3>3, CallerMoves
    <3>7. Asking' = Asking /\ Counted' = Counted - 1
      BY <1>1, <3>6 DEF Asks, Among
    <3>p. in_flight' = Len(queue') + Busy' + Asking'
      BY <1>1, <1>2, <1>3, <2>1, <3>1, <3>5, <3>7
    <3>q. Len(queue') + Busy' + Counted' <= most /\ most \in Limits
      BY <1>1, <1>2, <1>3, <2>1, <3>1, <3>5, <3>7
    <3>r. Len(queue') > 0 => spawned' > 0
      BY <1>1, <1>2, <1>3, <2>1, <3>1, <3>5, <3>7
    <3>s. Len(queue') > Free' => short'
      BY <1>1, <1>2, <1>3, <2>1, <3>1, <3>5, <3>7
    <3>t. waiting' = Waits' /\ spawned' = Alive'
      BY <1>1, <1>2, <1>3, <2>1, <3>1, <3>5, <3>7
    <3> QED
      BY <3>4, <3>p, <3>q, <3>r, <3>s, <3>t DEF Books
  <2>6. CASE ~ dropped
    <3>1. /\ queue' = Append(queue, job) /\ channel' = Append(channel, "open")
          /\ caller' = [caller EXCEPT ![c] = [pc |-> "receiving", job |-> job]]
          /\ short' = (short \/ (Len(queue) + 1 > waiting /\ ~(wants /\ starts)))
      BY <2>1, <2>6
    <3>n. spawned = 0 => ~ wants \/ starts
      BY <2>6
    <3> HIDE DEF dropped
    <3>2. /\ channel' \in Seq({"open", "sent", "closed"}) /\ queue' \in Seq(Nat)
          /\ Len(queue') = Len(queue) + 1
      BY <1>3, <2>4, <3>1
    <3>3. /\ caller' \in [Callers -> [pc : Resolver!CallerPcs, job : Nat \cup {None}]]
          /\ caller'[c].pc = "receiving" /\ \A y \in Callers \ {c} : caller'[y].pc = caller[y].pc
      BY <1>0, <2>4, <3>1 DEF Resolver!ResolverTypes, Resolver!CallerPcs
    <3>4. Asks("counted", "receiving")
      BY <2>1, <3>3, CallerMoves
    <3>5. Asking' = Asking - 1 /\ Counted' = Counted - 1
      BY <1>1, <3>4 DEF Asks, Among
    <3>6. CASE wants /\ starts
      <4>1. PICK w \in Resolver!WorkersAt({"none"}) : worker' = [ws EXCEPT ![w].pc = "top"]
            /\ spawned' = spawned + 1
        BY <2>2, <3>6
      <4>2. w \in Workers /\ worker[w].pc = "none"
        BY DEF Resolver!WorkersAt
      <4>3. /\ worker' \in [Workers -> [pc : Resolver!WorkerPcs, job : Nat \cup {None}]]
            /\ worker'[w].pc = "top"
            /\ \A y \in Workers \ {w} : \/ worker'[y].pc = worker[y].pc
                                        \/ worker[y].pc = "waiting" /\ worker'[y].pc = "woken"
        BY <2>3, <4>1, <4>2 DEF Resolver!WorkerPcs
      <4>4. Resolver!ResolverTypes' /\ short' = short
        <5>1. short' = short
          BY <1>0, <3>1, <3>6 DEF Resolver!ResolverTypes
        <5>2. {in_flight', waiting', spawned'} \subseteq Int /\ limit' \in Limits
          BY <1>0, <2>1, <4>1 DEF Resolver!ResolverTypes
        <5> QED
          BY <1>0, <3>2, <3>3, <4>3, <5>1, <5>2 DEF Resolver!ResolverTypes
      <4>5. Moves("none", "top")
        BY <1>0, <4>2, <4>3, <4>4, WorkerMoves
      <4>6. Free' = Free + 1 /\ Busy' = Busy /\ Waits' = Waits /\ Alive' = Alive + 1
        BY <1>1, <4>5 DEF Moves, Among, Resolver!WorkerPcs
      <4>7. in_flight' = in_flight /\ waiting' = waiting /\ spawned' = spawned + 1
            /\ short' = short
        BY <2>1, <4>1, <4>4
      <4>8. Len(queue') = Len(queue) + 1
        BY <3>2
      <4>p. in_flight' = Len(queue') + Busy' + Asking'
        BY <1>1, <1>2, <1>3, <3>5, <4>6, <4>7, <4>8
      <4>q. Len(queue') + Busy' + Counted' <= most /\ most \in Limits
        BY <1>1, <1>2, <1>3, <3>5, <4>6, <4>7, <4>8
      <4>r. Len(queue') > 0 => spawned' > 0
        BY <1>1, <1>2, <1>3, <3>5, <4>6, <4>7, <4>8
      <4>s. Len(queue') > Free' => short'
        BY <1>1, <1>2, <1>3, <3>5, <4>6, <4>7, <4>8
      <4>t. waiting' = Waits' /\ spawned' = Alive'
        BY <1>1, <1>2, <1>3, <3>5, <4>6, <4>7, <4>8
      <4> QED
        BY <4>4, <4>p, <4>q, <4>r, <4>s, <4>t DEF Books
    <3>7. CASE ~ (wants /\ starts)
      <4>1. worker' = ws /\ spawned' = spawned
        BY <2>2, <3>7
      <4>2. Resolver!ResolverTypes' /\ short' = (short \/ Len(queue) + 1 > waiting)
        BY <1>0, <1>1, <2>1, <2>3, <3>1, <3>2, <3>3, <3>7, <4>1 DEF Resolver!ResolverTypes
      <4>3. Free' = Free /\ Busy' = Busy /\ Waits' = Waits /\ Alive' = Alive
        BY <2>3, <4>1, WorkersStay
      <4>4. spawned > 0
        BY <1>1, <1>3, <2>1, <3>7, <3>n
      <4>5. in_flight' = in_flight /\ waiting' = waiting /\ spawned' = spawned
        BY <2>1, <4>1
      <4>6. Len(queue') = Len(queue) + 1
        BY <3>2
      <4>p. in_flight' = Len(queue') + Busy' + Asking'
        BY <1>1, <1>2, <1>3, <3>5, <4>2, <4>3, <4>4, <4>5, <4>6
      <4>q. Len(queue') + Busy' + Counted' <= most /\ most \in Limits
        BY <1>1, <1>2, <1>3, <3>5, <4>2, <4>3, <4>4, <4>5, <4>6
      <4>r. Len(queue') > 0 => spawned' > 0
        BY <1>1, <1>2, <1>3, <3>5, <4>2, <4>3, <4>4, <4>5, <4>6
      <4>7. Len(queue) + 1 > waiting => short'
        BY <4>2, Zenon
      <4>s. Len(queue') > Free' => short'
        BY <1>1, <1>3, <4>3, <4>6, <4>7
      <4>t. waiting' = Waits' /\ spawned' = Alive'
        BY <1>1, <1>2, <1>3, <3>5, <4>2, <4>3, <4>4, <4>5, <4>6
      <4> QED
        BY <4>2, <4>p, <4>q, <4>r, <4>s, <4>t DEF Books
    <3> QED
      BY <3>6, <3>7
  <2> QED
    BY <2>5, <2>6
<1>d. ASSUME NEW w \in Workers, Resolver!Top(w) \/ Resolver!Woken(w) \/ Resolver!Expired(w)
      PROVE Resolver!ResolverTypes' /\ Books'
  <2>1. PICK idle \in {"waiting", "none"} :
           /\ Resolver!PopOr(w, idle) /\ worker[w].pc \in {"top", "woken", "expired"}
           /\ idle = "none" <=> worker[w].pc = "expired"
           /\ UNCHANGED <<limit, in_flight, caller, channel>>
    BY <1>d DEF Resolver!Top, Resolver!Woken, Resolver!Expired
  <2>2. Asking' = Asking /\ Counted' = Counted
    BY <2>1, CallersStay
  <2>3. CASE queue # <<>>
    <3>1. /\ worker' = [worker EXCEPT ![w] = [pc |-> "resolving", job |-> Head(queue)]]
          /\ queue' = Tail(queue) /\ short' = (short /\ Tail(queue) # <<>>)
          /\ waiting' = IF worker[w].pc = "top" THEN waiting ELSE waiting - 1
          /\ spawned' = spawned
      BY <2>1, <2>3, Zenon DEF Resolver!PopOr
    <3>2. /\ queue' \in Seq(Nat) /\ Head(queue) \in Nat /\ Len(queue') = Len(queue) - 1
          /\ Tail(queue) # <<>> => Len(queue') > 0
          /\ Len(queue') > 0 => Tail(queue) # <<>>
          /\ Len(queue) > 0
      <4>1. queue' \in Seq(Nat) /\ Head(queue) \in Nat /\ Len(queue') = Len(queue) - 1
            /\ Len(queue) > 0
        <5>1. queue' = Tail(queue) /\ queue \in Seq(Nat) /\ queue # <<>>
          BY <1>3, <2>3, <3>1
        <5>2. Head(queue) \in Nat /\ Tail(queue) \in Seq(Nat) /\ Len(Tail(queue)) = Len(queue) - 1
          BY <5>1, HeadTailProperties
        <5>3. Len(queue) > 0
          BY <5>1
        <5> QED
          BY <5>1, <5>2, <5>3
      <4>2. queue' # <<>> <=> Len(queue') > 0
        BY <4>1
      <4> QED
        BY <3>1, <4>1, <4>2
    <3>3. /\ worker' \in [Workers -> [pc : Resolver!WorkerPcs, job : Nat \cup {None}]]
          /\ worker'[w].pc = "resolving" /\ \A y \in Workers \ {w} : worker'[y].pc = worker[y].pc
      BY <1>0, <3>1, <3>2 DEF Resolver!ResolverTypes, Resolver!WorkerPcs
    <3>4. Resolver!ResolverTypes'
      BY <1>0, <1>1, <2>1, <3>1, <3>2, <3>3 DEF Resolver!ResolverTypes
    <3>5. Moves(worker[w].pc, "resolving")
      BY <1>0, <3>3, <3>4, WorkerMoves
    <3>6. Busy' = Busy + 1 /\ Alive' = Alive /\ Free' = Free - 1
      <4> DEFINE pc == worker[w].pc
      <4>1. pc \in {"top", "woken", "expired"}
        BY <2>1
      <4>2. /\ Among(pc, {"top", "waiting", "woken", "expired"}) = 1 /\ Among(pc, {"resolving"})
                 = 0
            /\ Among(pc, Resolver!WorkerPcs \ {"none"}) = 1
        BY <4>1, Weights
      <4>3. /\ Among("resolving", {"top", "waiting", "woken", "expired"}) = 0
            /\ Among("resolving", {"resolving"}) = 1
            /\ Among("resolving", Resolver!WorkerPcs \ {"none"}) = 1
        BY Weights
      <4>4. Moves(pc, "resolving")
        BY <3>5
      <4> HIDE DEF pc
      <4>5. Free' = Free - 1 + 0 /\ Busy' = Busy - 0 + 1 /\ Alive' = Alive - 1 + 1
        BY <4>2, <4>3, <4>4, Zenon DEF Moves
      <4> QED
        BY <1>1, <4>5
    <3>7. Waits' = waiting'
      <4>1. CASE worker[w].pc = "top"
        BY <1>1, <3>1, <3>5, <4>1 DEF Moves, Among
      <4>2. CASE worker[w].pc \in {"woken", "expired"}
        BY <1>1, <3>1, <3>5, <4>2 DEF Moves, Among
      <4> QED
        BY <2>1, <4>1, <4>2
    <3>p. in_flight' = Len(queue') + Busy' + Asking'
      BY <1>1, <1>2, <1>3, <2>1, <2>2, <3>1, <3>2, <3>6, <3>7
    <3>q. Len(queue') + Busy' + Counted' <= most /\ most \in Limits
      BY <1>1, <1>2, <1>3, <2>1, <2>2, <3>1, <3>2, <3>6, <3>7
    <3>r. Len(queue') > 0 => spawned' > 0
      BY <1>1, <1>2, <1>3, <2>1, <2>2, <3>1, <3>2, <3>6, <3>7
    <3>8. short /\ Tail(queue) # <<>> => short'
      BY <3>1, Zenon
    <3>s. Len(queue') > Free' => short'
      <4>1. Free' >= 0
        BY <3>4, NumbersKept DEF Numbers
      <4>2. ASSUME Len(queue') > Free' PROVE short'
        <5>1. Len(queue) > Free
          BY <1>1, <1>3, <3>2, <3>6, <4>2
        <5>2. Len(queue') > 0
          BY <1>1, <1>3, <3>2, <3>6, <4>1, <4>2
        <5>3. short /\ Tail(queue) # <<>>
          BY <1>1, <3>2, <5>1, <5>2
        <5> QED
          BY <3>8, <5>3
      <4> QED
        BY <4>2
    <3>t. waiting' = Waits' /\ spawned' = Alive'
      BY <1>1, <1>2, <1>3, <2>1, <2>2, <3>1, <3>2, <3>6, <3>7
    <3> QED
      BY <3>4, <3>p, <3>q, <3>r, <3>s, <3>t DEF Books
  <2>4. CASE queue = <<>>
    <3>1. /\ worker' = [worker EXCEPT ![w] = [pc |-> idle, job |-> None]]
          /\ waiting' = CASE worker[w].pc = "top" -> waiting + 1
                          [] worker[w].pc # "top" /\ idle = "none" -> waiting - 1
                          [] OTHER -> waiting
          /\ spawned' = IF idle = "none" THEN spawned - 1 ELSE spawned
          /\ queue' = queue /\ short' = short
      BY <2>1, <2>4, Zenon DEF Resolver!PopOr
    <3>2. Len(queue) = 0
      BY <2>4
    <3>3. /\ worker' \in [Workers -> [pc : Resolver!WorkerPcs, job : Nat \cup {None}]]
          /\ worker'[w].pc = idle /\ \A y \in Workers \ {w} : worker'[y].pc = worker[y].pc
      BY <1>0, <3>1 DEF Resolver!ResolverTypes, Resolver!WorkerPcs
    <3>4. waiting' = IF worker[w].pc = "top" THEN waiting + 1 ELSE IF idle = "none" THEN waiting
          - 1 ELSE waiting
      BY <3>1
    <3>5. Resolver!ResolverTypes'
      <4>1. spawned' \in {spawned, spawned - 1}
            /\ waiting' \in {waiting, waiting + 1, waiting - 1}
        BY <3>1, <3>4
      <4>2. {in_flight', waiting', spawned'} \subseteq Int
        BY <1>1, <1>3, <2>1, <4>1
      <4>3. queue' = queue /\ short' = short
        BY <3>1
      <4> QED
        BY <1>0, <2>1, <3>3, <4>2, <4>3 DEF Resolver!ResolverTypes
    <3>6. Moves(worker[w].pc, idle)
      BY <1>0, <3>3, <3>5, WorkerMoves
    <3>7. /\ Free' \in Nat /\ Busy' = Busy
          /\ Alive' = IF idle = "none" THEN Alive - 1 ELSE Alive
          /\ Waits' = IF worker[w].pc = "top" THEN Waits + 1 ELSE IF idle = "none" THEN Waits
             - 1 ELSE Waits
      <4>1. Numbers'
        BY <3>5, NumbersKept
      <4> DEFINE pc == worker[w].pc
      <4>2. /\ pc \in {"top", "woken", "expired"} /\ idle \in {"waiting", "none"}
            /\ idle = "none" <=> pc = "expired"
        BY <2>1
      <4>3. Moves(pc, idle)
        BY <3>6
      <4> HIDE DEF pc
      <4>4. Busy' = Busy - 0 + 0
        <5>1. Among(pc, {"resolving"}) = 0 /\ Among(idle, {"resolving"}) = 0
          BY <4>2, Weights
        <5> QED
          BY <4>3, <5>1, Zenon DEF Moves
      <4>5. Alive' = Alive - 1 + (IF idle = "none" THEN 0 ELSE 1)
        <5>1. Among(pc, Resolver!WorkerPcs \ {"none"}) = 1
          BY <4>2, Weights
        <5>2. Among(idle, Resolver!WorkerPcs \ {"none"}) = IF idle = "none" THEN 0 ELSE 1
          BY <4>2, Weights
        <5> QED
          BY <4>3, <5>1, <5>2, Zenon DEF Moves
      <4>6. Waits' = Waits - (IF pc = "top" THEN 0 ELSE 1) + (IF idle = "none" THEN 0 ELSE 1)
        <5>1. Among(pc, {"waiting", "woken", "expired"}) = IF pc = "top" THEN 0 ELSE 1
          BY <4>2, Weights
        <5>2. Among(idle, {"waiting", "woken", "expired"}) = IF idle = "none" THEN 0 ELSE 1
          BY <4>2, Weights
        <5> QED
          BY <4>3, <5>1, <5>2, Zenon DEF Moves
      <4>7. Free' \in Nat
        BY <4>1 DEF Numbers
      <4>8. Waits' = IF pc = "top" THEN Waits + 1 ELSE IF idle = "none" THEN Waits - 1 ELSE Waits
        <5>1. CASE idle = "none"
          BY <1>1, <4>2, <4>6, <5>1
        <5>2. CASE idle # "none" /\ pc = "top"
          BY <1>1, <4>6, <5>2
        <5>3. CASE idle # "none" /\ pc # "top"
          BY <1>1, <4>6, <5>3
        <5> QED
          BY <5>1, <5>2, <5>3
      <4>9. Busy' = Busy
        BY <1>1, <4>4
      <4>10. Alive' = IF idle = "none" THEN Alive - 1 ELSE Alive
        <5>1. CASE idle = "none"
          BY <1>1, <4>5, <5>1
        <5>2. CASE idle # "none"
          BY <1>1, <4>5, <5>2
        <5> QED
          BY <5>1, <5>2
      <4> QED
        BY <4>7, <4>8, <4>9, <4>10, Zenon DEF pc
    <3>p. in_flight' = Len(queue') + Busy' + Asking'
      BY <1>1, <1>2, <1>3, <2>1, <2>2, <3>1, <3>2, <3>4, <3>7
    <3>q. Len(queue') + Busy' + Counted' <= most /\ most \in Limits
      BY <1>1, <1>2, <1>3, <2>1, <2>2, <3>1, <3>2, <3>4, <3>7
    <3>r. Len(queue') > 0 => spawned' > 0
      BY <1>1, <1>2, <1>3, <2>1, <2>2, <3>1, <3>2, <3>4, <3>7
    <3>s. Len(queue') > Free' => short'
      BY <1>1, <1>2, <1>3, <2>1, <2>2, <3>1, <3>2, <3>4, <3>7
    <3>t. waiting' = Waits' /\ spawned' = Alive'
      BY <1>1, <1>2, <1>3, <2>1, <2>2, <3>1, <3>2, <3>4, <3>7
    <3> QED
      BY <3>5, <3>p, <3>q, <3>r, <3>s, <3>t DEF Books
  <2> QED
    BY <2>3, <2>4
<1>e. ASSUME NEW w \in Workers, Resolver!Wake(w) \/ Resolver!Expire(w)
      PROVE Resolver!ResolverTypes' /\ Books'
  <2>1. /\ worker[w].pc = "waiting" /\ worker'[w].pc \in {"woken", "expired"}
        /\ \A y \in Workers \ {w} : worker'[y].pc = worker[y].pc
        /\ worker' \in [Workers -> [pc : Resolver!WorkerPcs, job : Nat \cup {None}]]
        /\ UNCHANGED <<limit, in_flight, queue, waiting, spawned, caller, channel, short>>
    BY <1>0, <1>e DEF Resolver!Wake, Resolver!Expire, Resolver!At, Resolver!ResolverTypes,
       Resolver!WorkerPcs
  <2>2. Resolver!ResolverTypes'
    BY <1>0, <2>1 DEF Resolver!ResolverTypes
  <2>3. Moves("waiting", worker'[w].pc)
    BY <1>0, <2>1, <2>2, WorkerMoves
  <2>4. Free' = Free /\ Busy' = Busy /\ Waits' = Waits /\ Alive' = Alive
    BY <1>1, <2>1, <2>3 DEF Moves, Among, Resolver!WorkerPcs
  <2>5. Asking' = Asking /\ Counted' = Counted
    BY <2>1, CallersStay
  <2> QED
    <3>p. in_flight' = Len(queue') + Busy' + Asking'
      BY <1>1, <1>2, <1>3, <2>1, <2>4, <2>5
    <3>q. Len(queue') + Busy' + Counted' <= most /\ most \in Limits
      BY <1>1, <1>2, <1>3, <2>1, <2>4, <2>5
    <3>r. Len(queue') > 0 => spawned' > 0
      BY <1>1, <1>2, <1>3, <2>1, <2>4, <2>5
    <3>s. Len(queue') > Free' => short'
      BY <1>1, <1>2, <1>3, <2>1, <2>4, <2>5
    <3>t. waiting' = Waits' /\ spawned' = Alive'
      BY <1>1, <1>2, <1>3, <2>1, <2>4, <2>5
    <3> QED
      BY <2>2, <3>p, <3>q, <3>r, <3>s, <3>t DEF Books
<1>f. ASSUME NEW w \in Workers, Resolver!Resolved(w) PROVE Resolver!ResolverTypes' /\ Books'
  <2>1. /\ worker[w].pc = "resolving" /\ worker'[w].pc = "send" /\ in_flight' = in_flight - 1
        /\ \A y \in Workers \ {w} : worker'[y].pc = worker[y].pc
        /\ worker' \in [Workers -> [pc : Resolver!WorkerPcs, job : Nat \cup {None}]]
        /\ UNCHANGED <<limit, queue, waiting, spawned, caller, channel, short>>
    BY <1>0, <1>f DEF Resolver!Resolved, Resolver!At, Resolver!ResolverTypes, Resolver!WorkerPcs
  <2>2. Resolver!ResolverTypes'
    BY <1>0, <1>1, <2>1 DEF Resolver!ResolverTypes
  <2>3. Moves("resolving", "send")
    BY <1>0, <2>1, <2>2, WorkerMoves
  <2>4. Free' = Free /\ Busy' = Busy - 1 /\ Waits' = Waits /\ Alive' = Alive
    BY <1>1, <2>3 DEF Moves, Among, Resolver!WorkerPcs
  <2>5. Asking' = Asking /\ Counted' = Counted
    BY <2>1, CallersStay
  <2> QED
    <3>p. in_flight' = Len(queue') + Busy' + Asking'
      BY <1>1, <1>2, <1>3, <2>1, <2>4, <2>5
    <3>q. Len(queue') + Busy' + Counted' <= most /\ most \in Limits
      BY <1>1, <1>2, <1>3, <2>1, <2>4, <2>5
    <3>r. Len(queue') > 0 => spawned' > 0
      BY <1>1, <1>2, <1>3, <2>1, <2>4, <2>5
    <3>s. Len(queue') > Free' => short'
      BY <1>1, <1>2, <1>3, <2>1, <2>4, <2>5
    <3>t. waiting' = Waits' /\ spawned' = Alive'
      BY <1>1, <1>2, <1>3, <2>1, <2>4, <2>5
    <3> QED
      BY <2>2, <3>p, <3>q, <3>r, <3>s, <3>t DEF Books
<1>g. ASSUME NEW w \in Workers, Resolver!Send(w) PROVE Resolver!ResolverTypes' /\ Books'
  <2>1. /\ worker[w].pc = "send" /\ worker'[w].pc = "top"
        /\ \A y \in Workers \ {w} : worker'[y].pc = worker[y].pc
        /\ worker' \in [Workers -> [pc : Resolver!WorkerPcs, job : Nat \cup {None}]]
        /\ UNCHANGED <<limit, in_flight, queue, waiting, spawned, caller, short>>
    BY <1>0, <1>g DEF Resolver!Send, Resolver!ResolverTypes, Resolver!WorkerPcs
  <2>2. channel' \in Seq({"open", "sent", "closed"})
    <3>1. channel' = [channel EXCEPT ![worker[w].job] = IF channel[worker[w].job] = "open"
            THEN "sent" ELSE "closed"]
      BY <1>g, Zenon DEF Resolver!Send
    <3>2. channel \in Seq({"open", "sent", "closed"})
      BY <1>0 DEF Resolver!ResolverTypes
    <3>3. CASE channel[worker[w].job] = "open"
      <4>1. channel' = [channel EXCEPT ![worker[w].job] = "sent"]
        BY <3>1, <3>3, Zenon
      <4> QED
        BY <3>2, <4>1, ChannelStays
    <3>4. CASE channel[worker[w].job] # "open"
      <4>1. channel' = [channel EXCEPT ![worker[w].job] = "closed"]
        BY <3>1, <3>4, Zenon
      <4> QED
        BY <3>2, <4>1, ChannelStays
    <3> QED
      BY <3>3, <3>4
  <2>3. Resolver!ResolverTypes'
    BY <1>0, <2>1, <2>2 DEF Resolver!ResolverTypes
  <2>4. Moves("send", "top")
    BY <1>0, <2>1, <2>3, WorkerMoves
  <2>5. Free' = Free + 1 /\ Busy' = Busy /\ Waits' = Waits /\ Alive' = Alive
    BY <1>1, <2>4 DEF Moves, Among, Resolver!WorkerPcs
  <2>6. Asking' = Asking /\ Counted' = Counted
    BY <2>1, CallersStay
  <2> QED
    BY <1>1, <1>2, <1>3, <2>1, <2>3, <2>5, <2>6 DEF Books
<1>h. CASE Resolver!SetLimit \/ UNCHANGED Resolver!vars
  <2>1. /\ limit' \in Limits /\ UNCHANGED <<in_flight, queue, waiting, spawned, worker, caller,
           channel, short>>
    BY <1>3, <1>h DEF Resolver!SetLimit, Resolver!vars, Resolver!pool
  <2>2. Resolver!ResolverTypes'
    BY <1>0, <2>1 DEF Resolver!ResolverTypes
  <2>3. Free' = Free /\ Busy' = Busy /\ Waits' = Waits /\ Alive' = Alive
    BY <2>1, WorkersStay
  <2>4. Asking' = Asking /\ Counted' = Counted
    BY <2>1, CallersStay
  <2> QED
    BY <1>1, <1>2, <1>3, <2>1, <2>2, <2>3, <2>4 DEF Books
<1> QED
  BY <1>a, <1>b, <1>c, <1>d, <1>e, <1>f, <1>g, <1>h DEF Resolver!Next

LEMMA ResolverInductive == Spec => []ResolverInv
<1>1. Init => ResolverInv
  BY ResolverAssumption, ResolverStarts DEF Init, ResolverInv
<1>2. ResolverInv /\ [Next]_vars => ResolverInv'
  <2> SUFFICES ASSUME ResolverInv, [Next]_vars, part' = "resolver" PROVE Resolver!ResolverInv'
    BY DEF ResolverInv
  <2>1. part = "resolver"
    BY SamePart
  <2>2. [Resolver!Next]_(Resolver!vars)
    BY <2>1
       DEF Next, MemStep, FiltersStep, DoorStep, ShotsStep, AnswersStep, RowStep, MoneyStep,
           PoolStep, ResolverStep, DnsStep, RaceStep, PolicyStep, RelayStep, vars, Resolver!vars
  <2>3. Resolver!ResolverInv
    BY <2>1 DEF ResolverInv
  <2> QED
    BY ResolverAssumption, <2>2, <2>3, ResolverKept
<1> QED
  BY <1>1, <1>2, PTL DEF Spec

-----------------------------------------------------------------------------
\* The table of names.
LEMMA DnsSizes ==
    /\ \A S : Dns!IsFiniteSet(S) <=> IsFiniteSet(S)
    /\ \A S : Dns!Cardinality(S) = Cardinality(S)
<1>1. \A S : Dns!IsFiniteSet(S) <=> IsFiniteSet(S)
  BY Zenon DEF Dns!IsFiniteSet, IsFiniteSet
<1>2. \A S : Dns!Cardinality(S) = Cardinality(S)
  BY Zenon DEF Dns!Cardinality, Cardinality
<1> QED
  BY <1>1, <1>2

\* Of a table of names, and of its queue.
IsTable(t) == t \in [Names -> Dns!Row \cup {None}]
Placed(t, places) == \A k \in Names : t[k] # None /\ t[k].warm => \E p \in places : p.key = k
IsQueue(places) ==
    /\ places \subseteq [at : Nat, key : Names] /\ Dns!IsFiniteSet(places)
    /\ \A p, q \in places : p.key = q.key => p = q
    /\ Dns!Cardinality(places) <= MaxWarm

\* The invariant, told of the table and the queue.
Held(t, places) ==
    /\ IsTable(t) /\ IsQueue(places) /\ Placed(t, places)
    /\ Dns!Cardinality({k \in Names : t[k] # None}) <= MaxEntries

LEMMA RowIsNotNone == ASSUME Dns!DnsTableAssumption PROVE None \notin Dns!Row /\ None \notin Names
BY DEF Dns!DnsTableAssumption

LEMMA IsHeld == ASSUME Dns!DnsInv PROVE Dns!DnsTypes /\ Dns!RefreshIsComing /\ Held(v1, v2)
<1> DEFINE table == v1  warm_queue == v2
<1>1. Dns!DnsTypes /\ Dns!OnePlace /\ Dns!RefreshIsComing /\ Dns!WarmHasPlace
  BY DEF Dns!DnsInv
<1>2. IsTable(table) /\ IsQueue(warm_queue)
  BY <1>1 DEF Dns!DnsTypes, Dns!OnePlace, Dns!WarmHasPlace, IsTable, IsQueue
<1>3. Placed(table, warm_queue)
  BY <1>1 DEF Dns!WarmHasPlace, Dns!Entries, Dns!Places, Placed
<1>4. Dns!Cardinality({k \in Names : table[k] # None}) <= MaxEntries
  BY <1>1, Zenon DEF Dns!WarmHasPlace, Dns!Entries
<1> QED
  BY <1>1, <1>2, <1>3, <1>4 DEF Held

LEMMA AtMostOne ==
    ASSUME NEW Q, \A p, q \in Q : p = q
    PROVE  Dns!Cardinality(Q) <= 1
<1>1. CASE Q = {}
  BY DnsSizes, <1>1, FS_EmptySet
<1>2. ASSUME NEW p \in Q PROVE Dns!Cardinality(Q) <= 1
  <2>1. Q = {p}
    OBVIOUS
  <2>2. Dns!Cardinality({p}) = 1
    BY DnsSizes, FS_Singleton
  <2> QED
    BY <2>1, <2>2
<1> QED
  BY <1>1, <1>2

\* What a step has to keep besides the table and the queue.
Others ==
    /\ v4 \in Seq(Names)
    /\ v6 \in [pc : Dns!RefresherPcs, host : Names \cup {None}]
    /\ v6.pc = "idle" <=> v6.host = None
    /\ v7 \in [Askers -> [pc : Dns!AskerPcs, host : Names \cup {None}]]
    /\ \A c \in Askers : v7[c].pc = "rest" <=> v7[c].host = None
    /\ v8 \in Nat

\* Somebody refreshes this name.
Coming(k) ==
    \/ \E c \in Askers : v7[c] = [pc |-> "ask", host |-> k]
    \/ \E i \in DOMAIN v4 : v4[i] = k
    \/ v6.host = k

LEMMA OthersAre == ASSUME Dns!DnsTypes PROVE Others
BY DEF Dns!DnsTypes, Others

LEMMA HeldIsKept ==
    ASSUME Others', Held(v1', v2'),
           \A k \in Names : v1'[k] # None /\ v1'[k].refreshing => Coming(k)'
    PROVE  Dns!DnsInv'
<1> DEFINE table == v1  warm_queue == v2
<1>1. Dns!DnsTypes' /\ Dns!OnePlace'
  BY DEF Held, IsTable, IsQueue, Others, Dns!DnsTypes, Dns!OnePlace
<1>2. Dns!RefreshIsComing'
  <2>1. ASSUME NEW k \in Dns!Entries', table'[k].refreshing PROVE Coming(k)'
    BY <2>1 DEF Dns!Entries
  <2> QED
    BY <2>1, Zenon DEF Dns!RefreshIsComing, Coming
<1>3. Dns!WarmHasPlace'
  <2>1. \A h \in Dns!Entries' : table'[h].warm => Dns!Places(h)' # {}
    BY DEF Held, Placed, Dns!Entries, Dns!Places
  <2>2. ASSUME NEW h \in Names PROVE Dns!Cardinality(Dns!Places(h)') <= 1
    <3>1. \A p, q \in Dns!Places(h)' : p = q
      BY DEF Held, IsQueue, Dns!Places
    <3> QED
      BY <3>1, AtMostOne
  <2>3. Dns!Cardinality(warm_queue') <= MaxWarm
    BY DEF Held, IsQueue
  <2>4. Dns!Cardinality(Dns!Entries') <= MaxEntries
    BY Zenon DEF Held, Dns!Entries
  <2> QED
    BY <2>1, <2>2, <2>3, <2>4 DEF Dns!WarmHasPlace
<1> QED
  BY <1>1, <1>2, <1>3 DEF Dns!DnsInv

\* A table that remembers no more and marks no more is held as well.
LEMMA HeldLess ==
    ASSUME Dns!DnsTableAssumption, NEW t, NEW places, Held(t, places), NEW u, IsTable(u),
           \A k \in Names : u[k] # None => t[k] # None /\ (u[k].warm => t[k].warm)
    PROVE  Held(u, places)
<1>1. Placed(u, places)
  BY DEF Held, Placed
<1>2. Dns!Cardinality({k \in Names : u[k] # None}) <= Dns!Cardinality({k \in Names : t[k] # None})
  <2>1. {k \in Names : u[k] # None} \subseteq {k \in Names : t[k] # None}
    OBVIOUS
  <2>2. Dns!IsFiniteSet({k \in Names : t[k] # None})
    <3>1. {k \in Names : t[k] # None} \subseteq Names
      OBVIOUS
    <3> QED
      BY DnsSizes, <3>1, FS_Subset DEF Dns!DnsTableAssumption
  <2> QED
    BY DnsSizes, <2>1, <2>2, FS_Subset
<1>3. /\ Dns!Cardinality({k \in Names : u[k] # None}) \in Nat
         /\ Dns!Cardinality({k \in Names : t[k] # None}) \in Nat
      /\ MaxEntries \in Nat
  <2>1. \A S \in SUBSET Names : Dns!Cardinality(S) \in Nat
    BY DnsSizes, FS_Subset, FS_CardinalityType DEF Dns!DnsTableAssumption
  <2> QED
    BY <2>1 DEF Dns!DnsTableAssumption
<1>4. Dns!Cardinality({k \in Names : u[k] # None}) <= MaxEntries
  BY <1>2, <1>3 DEF Held
<1> QED
  BY <1>1, <1>4 DEF Held

\* An entry is put into the table: with room, or in the place of another.
LEMMA PutIsHeld ==
    ASSUME Dns!DnsTableAssumption, Dns!DnsTypes, Held(v1, v2), NEW h \in Names,
             NEW t \in Dns!WithRoom(h),
           NEW e \in Dns!Row, e.warm => t[h] # None /\ t[h].warm
    PROVE  /\ IsTable(t) /\ Held([t EXCEPT ![h] = e], v2)
           /\ \A k \in Names : t[k] = v1[k] \/ (t[k] = None /\ k # h)
<1> DEFINE table == v1  warm_queue == v2
<1>0. None \notin Dns!Row /\ IsTable(table) /\ Dns!IsFiniteSet(Names) /\ MaxEntries \in Nat
  BY RowIsNotNone DEF Held, Dns!DnsTableAssumption
<1> DEFINE known == {k \in Names : table[k] # None}
           after == {k \in Names : [t EXCEPT ![h] = e][k] # None}
<1>1. /\ known \subseteq Names /\ Dns!IsFiniteSet(known) /\ Dns!Cardinality(known) \in Nat
      /\ Dns!Cardinality(known) <= MaxEntries
  <2>1. known \subseteq Names
    OBVIOUS
  <2>2. Dns!IsFiniteSet(known) /\ Dns!Cardinality(known) \in Nat
    BY DnsSizes, <1>0, <2>1, FS_Subset, FS_CardinalityType
  <2> QED
    BY <2>1, <2>2 DEF Held
<1>2. CASE t = table /\ (table[h] # None \/ Dns!Cardinality(Dns!Entries) < MaxEntries)
  <2>1. IsTable(t) /\ \A k \in Names : t[k] = table[k]
    BY <1>0, <1>2
  <2>2. IsTable([t EXCEPT ![h] = e]) /\ after = known \cup {h}
    BY <1>0, <1>2 DEF IsTable
  <2>3. Dns!Cardinality(after) <= MaxEntries
    <3>1. CASE h \in known
      <4>1. after = known
        BY <2>2, <3>1
      <4> QED
        BY <1>1, <4>1
    <3>2. CASE h \notin known
      <4>1. Dns!Entries = known
        BY DEF Dns!Entries
      <4>2. Dns!Cardinality(known) < MaxEntries
        BY <1>2, <3>2, <4>1
      <4>3. Dns!Cardinality(after) = Dns!Cardinality(known) + 1
        BY DnsSizes, <1>1, <2>2, <3>2, FS_AddElement
      <4> QED
        BY <1>0, <1>1, <4>2, <4>3
    <3> QED
      BY <3>1, <3>2
  <2>4. Placed([t EXCEPT ![h] = e], warm_queue)
    BY <1>0, <1>2 DEF Held, Placed, IsTable
  <2> QED
    BY <2>1, <2>2, <2>3, <2>4 DEF Held
<1>3. ASSUME NEW v \in Dns!Victims, t = [table EXCEPT ![v] = None], table[h] = None
      PROVE  /\ IsTable(t) /\ Held([t EXCEPT ![h] = e], warm_queue)
             /\ \A k \in Names : t[k] = table[k] \/ (t[k] = None /\ k # h)
  <2>1. v \in known /\ v # h /\ v \in Names
    BY <1>3 DEF Dns!Victims, Dns!Entries
  <2>2. IsTable(t) /\ \A k \in Names : t[k] = table[k] \/ (t[k] = None /\ k # h)
    BY <1>0, <1>3, <2>1 DEF IsTable
  <2>3. IsTable([t EXCEPT ![h] = e]) /\ after = (known \ {v}) \cup {h}
    BY <1>0, <1>3, <2>1 DEF IsTable
  <2>4. Dns!Cardinality(after) = Dns!Cardinality(known)
    <3>1. Dns!IsFiniteSet(known \ {v}) /\ Dns!Cardinality(known \ {v}) = Dns!Cardinality(known)
            - 1
      BY DnsSizes, <1>1, <2>1, FS_RemoveElement
    <3>2. h \notin known \ {v}
      BY <1>3
    <3>3. Dns!Cardinality(after) = Dns!Cardinality(known \ {v}) + 1
      BY DnsSizes, <2>3, <3>1, <3>2, FS_AddElement
    <3> QED
      BY <1>1, <3>1, <3>3
  <2>5. Placed([t EXCEPT ![h] = e], warm_queue)
    BY <1>0, <1>3, <2>1 DEF Held, Placed, IsTable
  <2> QED
    BY <1>1, <2>2, <2>3, <2>4, <2>5 DEF Held
<1> QED
  <2>1. \/ t = table /\ (table[h] # None \/ Dns!Cardinality(Dns!Entries) < MaxEntries)
        \/ table[h] = None /\ \E v \in Dns!Victims : t = [table EXCEPT ![v] = None]
    BY Zenon DEF Dns!WithRoom
  <2> QED
    BY <1>2, <1>3, <2>1

\* A name gets its place in the queue.
LEMMA PromotionHolds ==
    ASSUME Dns!DnsTableAssumption, v8 \in Nat, NEW t, Held(t, v2), NEW h \in Names, t[h] # None,
           NEW r \in Dns!Promoted(t, h)
    PROVE  /\ Held(r.t, r.q)
           /\ \A k \in Names : /\ r.t[k] = None <=> t[k] = None
                               /\ t[k] # None => r.t[k].refreshing = t[k].refreshing
<1> DEFINE warm_queue == v2  now == v8
<1> DEFINE kept == {p \in warm_queue : p.key # h}
           mine == [at |-> now + After, key |-> h]
<1>0. None \notin Dns!Row /\ IsTable(t) /\ IsQueue(warm_queue) /\ MaxWarm \in Nat \ {0}
      /\ After \in Nat
  BY RowIsNotNone DEF Held, Dns!DnsTableAssumption
<1>1. /\ kept \subseteq warm_queue /\ Dns!IsFiniteSet(kept) /\ Dns!Cardinality(kept) \in Nat
      /\ Dns!Cardinality(kept) <= MaxWarm /\ mine \in [at : Nat, key : Names]
  <2>1. kept \subseteq warm_queue /\ Dns!IsFiniteSet(warm_queue)
        /\ mine \in [at : Nat, key : Names]
    BY <1>0 DEF IsQueue
  <2>2. /\ Dns!IsFiniteSet(kept) /\ Dns!Cardinality(kept) <= Dns!Cardinality(warm_queue)
        /\ Dns!Cardinality(kept) \in Nat /\ Dns!Cardinality(warm_queue) \in Nat
    BY DnsSizes, <2>1, FS_Subset, FS_CardinalityType
  <2> QED
    BY <1>0, <2>1, <2>2 DEF IsQueue
<1>2. PICK room : /\ r.q = room.q \cup {mine} /\ r.t = [room.t EXCEPT ![h].warm = TRUE]
                  /\ \/ Dns!Cardinality(kept) < MaxWarm /\ room = [q |-> kept, t |-> t]
                     \/ /\ ~ Dns!Cardinality(kept) < MaxWarm
                        /\ \E v \in kept : room = [q |-> kept \ {v},
                              t |-> IF t[v.key] = None THEN t
                                ELSE [t EXCEPT ![v.key].warm = FALSE]]
  <2> DEFINE Gone(v) ==
               [q |-> kept \ {v}, t |-> IF t[v.key] = None THEN t
                 ELSE [t EXCEPT ![v.key].warm = FALSE]]
             rooms == IF Dns!Cardinality(kept) < MaxWarm THEN {[q |-> kept, t |-> t]}
               ELSE {Gone(v) : v \in kept}
  <2>1. r \in {[q |-> m.q \cup {mine}, t |-> [m.t EXCEPT ![h].warm = TRUE]] : m \in rooms}
    BY Zenon DEF Dns!Promoted
  <2>2. PICK m \in rooms : r = [q |-> m.q \cup {mine}, t |-> [m.t EXCEPT ![h].warm = TRUE]]
    BY <2>1
  <2>3. \/ Dns!Cardinality(kept) < MaxWarm /\ m = [q |-> kept, t |-> t]
        \/ ~ Dns!Cardinality(kept) < MaxWarm /\ \E v \in kept : m = Gone(v)
    BY <2>2, Zenon
  <2> HIDE DEF rooms, kept, mine
  <2> QED
    BY <2>2, <2>3, Zenon
<1> DEFINE Fits ==
        /\ IsTable(room.t) /\ room.q \subseteq kept /\ Dns!IsFiniteSet(room.q)
        /\ Dns!Cardinality(room.q) \in Nat
        /\ Dns!Cardinality(room.q) + 1 <= MaxWarm
        /\ \A k \in Names : /\ room.t[k] = None <=> t[k] = None
                            /\ t[k] # None => room.t[k].refreshing = t[k].refreshing
                            /\ t[k] # None /\ room.t[k].warm /\ k # h => \E p \in room.q : p.key
                                 = k
<1>3. Fits
  <2>1. \A k \in Names : t[k] # None /\ t[k].warm /\ k # h => \E p \in kept : p.key = k
    BY DEF Held, Placed
  <2>2. CASE Dns!Cardinality(kept) < MaxWarm /\ room = [q |-> kept, t |-> t]
    <3>1. room.q = kept /\ room.t = t /\ Dns!Cardinality(kept) + 1 <= MaxWarm
      BY <1>0, <1>1, <2>2
    <3> HIDE DEF kept
    <3> QED
      BY <1>0, <1>1, <2>1, <3>1
  <2>3. ASSUME ~ Dns!Cardinality(kept) < MaxWarm, NEW v \in kept,
               room = [q |-> kept \ {v}, t |-> IF t[v.key] = None THEN t
                 ELSE [t EXCEPT ![v.key].warm = FALSE]]
        PROVE  Fits
    <3>1. v.key \in Names /\ v \in warm_queue
      BY <1>0, <1>1 DEF IsQueue
    <3>2. room.q = kept \ {v}
      BY <2>3
    <3>3. /\ IsTable(room.t)
          /\ \A k \in Names : /\ room.t[k] = None <=> t[k] = None
                              /\ t[k] # None => room.t[k].refreshing = t[k].refreshing
                              /\ t[k] # None /\ room.t[k].warm => t[k].warm /\ k # v.key
      <4>1. CASE t[v.key] = None
        <5>1. room.t = t
          BY <2>3, <4>1
        <5> QED
          BY <1>0, <4>1, <5>1
      <4>2. CASE t[v.key] # None
        <5>1. room.t = [t EXCEPT ![v.key].warm = FALSE]
          BY <2>3, <4>2
        <5> QED
          <6>1. t[v.key] \in Dns!Row
            BY <1>0, <3>1, <4>2 DEF IsTable
          <6>2. [t[v.key] EXCEPT !.warm = FALSE] \in Dns!Row
            BY <6>1 DEF Dns!Row
          <6>3. room.t = [t EXCEPT ![v.key] = [t[v.key] EXCEPT !.warm = FALSE]]
            BY <5>1
          <6>4. IsTable(room.t)
            BY <1>0, <3>1, <6>2, <6>3 DEF IsTable
          <6>5. \A k \in Names : room.t[k] = IF k = v.key THEN [t[v.key] EXCEPT !.warm = FALSE]
                  ELSE t[k]
            BY <1>0, <6>3 DEF IsTable
          <6> QED
            BY <1>0, <3>1, <4>2, <6>1, <6>2, <6>4, <6>5 DEF Dns!Row
      <4> QED
        BY <4>1, <4>2
    <3>4. /\ Dns!IsFiniteSet(kept \ {v}) /\ Dns!Cardinality(kept \ {v}) = Dns!Cardinality(kept)
               - 1
      BY DnsSizes, <1>1, FS_RemoveElement
    <3> HIDE DEF kept
    <3>5. Dns!Cardinality(room.q) \in Nat /\ Dns!Cardinality(room.q) + 1 <= MaxWarm
      BY DnsSizes, <1>0, <1>1, <3>2, <3>4, FS_CardinalityType
    <3>6. ASSUME NEW k \in Names, t[k] # None, room.t[k].warm, k # h PROVE \E p \in room.q :
                   p.key = k
      BY <2>1, <3>2, <3>3, <3>6
    <3> QED
      BY <3>2, <3>3, <3>4, <3>5, <3>6
  <2> QED
    BY <1>2, <2>2, <2>3
<1>4. /\ IsTable(r.t)
      /\ \A k \in Names : /\ r.t[k] = None <=> t[k] = None
                          /\ t[k] # None => r.t[k].refreshing = t[k].refreshing
                          /\ t[k] # None /\ r.t[k].warm /\ k # h => room.t[k].warm
  <2>1. room.t[h] \in Dns!Row
    BY <1>0, <1>3 DEF IsTable
  <2>2. [room.t[h] EXCEPT !.warm = TRUE] \in Dns!Row
        /\ [room.t[h] EXCEPT !.warm = TRUE].refreshing = room.t[h].refreshing
    BY <2>1 DEF Dns!Row
  <2>3. r.t = [room.t EXCEPT ![h] = [room.t[h] EXCEPT !.warm = TRUE]]
    BY <1>2
  <2>4. IsTable(r.t)
    BY <1>3, <2>2, <2>3 DEF IsTable
  <2>5. \A k \in Names : r.t[k] = IF k = h THEN [room.t[h] EXCEPT !.warm = TRUE] ELSE room.t[k]
    BY <1>3, <2>3 DEF IsTable
  <2> QED
    BY <1>0, <1>3, <2>1, <2>2, <2>4, <2>5
<1>5. IsQueue(r.q)
  <2>1. r.q = room.q \cup {mine} /\ r.q \subseteq [at : Nat, key : Names]
    BY <1>0, <1>1, <1>2, <1>3 DEF IsQueue
  <2>2. \A p, q \in r.q : p.key = q.key => p = q
    BY <1>0, <1>3, <2>1 DEF IsQueue
  <2>3. Dns!IsFiniteSet(r.q) /\ Dns!Cardinality(r.q) <= MaxWarm
    <3>1. mine \notin room.q
      BY <1>3
    <3>2. Dns!IsFiniteSet(r.q) /\ Dns!Cardinality(r.q) = Dns!Cardinality(room.q) + 1
      <4>1. Dns!IsFiniteSet(room.q)
        BY <1>3
      <4> HIDE DEF mine, Fits
      <4>2. /\ Dns!IsFiniteSet(room.q \cup {mine})
            /\ Dns!Cardinality(room.q \cup {mine}) = Dns!Cardinality(room.q) + 1
        BY DnsSizes, <3>1, <4>1, FS_AddElement
      <4> QED
        BY <2>1, <4>2, Zenon
    <3> QED
      BY <1>3, <3>2
  <2> QED
    BY <2>1, <2>2, <2>3 DEF IsQueue
<1>6. Placed(r.t, r.q)
  <2>1. mine \in r.q /\ mine.key = h /\ room.q \subseteq r.q
    BY <1>2
  <2> HIDE DEF mine
  <2> QED
    BY <1>3, <1>4, <2>1 DEF Placed
<1>7. Dns!Cardinality({k \in Names : r.t[k] # None}) <= MaxEntries
  <2>1. {k \in Names : r.t[k] # None} = {k \in Names : t[k] # None}
    BY <1>4
  <2> QED
    BY <2>1 DEF Held
<1> QED
  BY <1>4, <1>5, <1>6, <1>7 DEF Held

\* A place goes, or gets its next time.
LEMMA PlaceGoes ==
    ASSUME Dns!DnsTableAssumption, NEW Q, IsQueue(Q), NEW p \in Q PROVE IsQueue(Q \ {p})
<1>1. Dns!IsFiniteSet(Q \ {p}) /\ Dns!Cardinality(Q \ {p}) = Dns!Cardinality(Q) - 1
      /\ Dns!Cardinality(Q) \in Nat
  BY DnsSizes, FS_RemoveElement, FS_CardinalityType DEF IsQueue
<1>2. Dns!Cardinality(Q \ {p}) <= MaxWarm /\ MaxWarm \in Nat
  BY <1>1 DEF IsQueue, Dns!DnsTableAssumption
<1> QED
  BY <1>1, <1>2 DEF IsQueue

LEMMA PlaceTurns ==
    ASSUME Dns!DnsTableAssumption, NEW Q, IsQueue(Q), NEW p \in Q,
             NEW d \in [at : Nat, key : Names], d.key = p.key
    PROVE  IsQueue((Q \ {p}) \cup {d})
<1>1. /\ Dns!IsFiniteSet(Q \ {p}) /\ Dns!Cardinality(Q \ {p}) = Dns!Cardinality(Q) - 1
      /\ Dns!Cardinality(Q) \in Nat /\ Dns!Cardinality(Q) <= MaxWarm
  BY DnsSizes, FS_RemoveElement, FS_CardinalityType DEF IsQueue
<1>2. d \notin Q \ {p}
  BY DEF IsQueue
<1>3. Dns!IsFiniteSet((Q \ {p}) \cup {d}) /\ Dns!Cardinality((Q \ {p}) \cup {d})
        = Dns!Cardinality(Q \ {p}) + 1
  BY DnsSizes, <1>1, <1>2, FS_AddElement
<1>4. Dns!Cardinality((Q \ {p}) \cup {d}) <= MaxWarm
  BY <1>1, <1>3
<1> QED
  BY <1>3, <1>4 DEF IsQueue

\* What is put into the table keeps the marks of the name it is put for.
LEMMA PutIsKept ==
    ASSUME Dns!DnsTableAssumption, Dns!DnsTypes, Held(v1, v2), v2' = v2,
           NEW h \in Names, NEW t \in Dns!WithRoom(h), NEW e \in Dns!Row, v1'
             = [t EXCEPT ![h] = e],
           t[h] # None => (e.warm <=> t[h].warm) /\ (e.refreshing <=> t[h].refreshing),
           t[h] = None => ~ e.warm /\ ~ e.refreshing
    PROVE  /\ Held(v1', v2')
           /\ \A k \in Names : v1'[k] # None /\ v1'[k].refreshing => v1[k] # None
              /\ v1[k].refreshing
<1> DEFINE table == v1  warm_queue == v2
<1>1. /\ IsTable(t) /\ Held([t EXCEPT ![h] = e], warm_queue)
      /\ \A k \in Names : t[k] = table[k] \/ (t[k] = None /\ k # h)
  BY PutIsHeld
<1>2. \A k \in Names : table'[k] = IF k = h THEN e ELSE t[k]
  BY <1>1 DEF IsTable
<1> QED
  BY <1>1, <1>2

Before(t, h) == IF t[h] = None THEN Dns!Empty ELSE t[h]
IsPut(t, h, e, after) ==
    /\ e = Before(t, h)
    /\ after \in {[t EXCEPT ![h] = [e EXCEPT !.addrs = TRUE, !.failed = FALSE]],
                  [t EXCEPT ![h] = [e EXCEPT !.failed = TRUE]], [t EXCEPT ![h] = e]}
PutDone ==
    /\ Held(v1', v2')
    /\ \A k \in Names : v1'[k] # None /\ v1'[k].refreshing => v1[k] # None /\ v1[k].refreshing

LEMMA PutGood ==
    ASSUME Dns!DnsTableAssumption, Dns!DnsTypes, Held(v1, v2), v2' = v2,
           NEW h \in Names, NEW t \in Dns!WithRoom(h), NEW e, IsPut(t, h, e, v1')
    PROVE  PutDone
<1> DEFINE table == v1
<1>1. Dns!Empty \in Dns!Row /\ ~ Dns!Empty.warm /\ ~ Dns!Empty.refreshing
  BY DEF Dns!Empty, Dns!Row
<1>2. IsTable(t)
  BY <1>1, PutIsHeld
<1>3. /\ e \in Dns!Row
      /\ t[h] # None => e = t[h]
      /\ t[h] = None => ~ e.warm /\ ~ e.refreshing
  <2>1. e = Before(t, h)
    BY DEF IsPut
  <2>2. CASE t[h] = None
    BY <1>1, <2>1, <2>2 DEF Before
  <2>3. CASE t[h] # None
    BY <1>2, <2>1, <2>3 DEF IsTable, Before
  <2> QED
    BY <2>2, <2>3
<1>4. PICK f \in {[e EXCEPT !.addrs = TRUE, !.failed = FALSE], [e EXCEPT !.failed = TRUE], e} :
         table' = [t EXCEPT ![h] = f]
  BY Zenon DEF IsPut
<1>5. f \in Dns!Row /\ (f.warm <=> e.warm) /\ (f.refreshing <=> e.refreshing)
  BY <1>3, <1>4 DEF Dns!Row
<1> QED
  BY <1>3, <1>4, <1>5, PutIsKept DEF PutDone

LEMMA DnsStarts == Dns!DnsTableAssumption /\ Dns!Init => Dns!DnsInv
<1> DEFINE table == v1  warm_queue == v2  msgs == v4  refresher == v6  caller == v7  now == v8
<1> SUFFICES ASSUME Dns!DnsTableAssumption, Dns!Init PROVE Dns!DnsInv
  OBVIOUS
<1>1. Dns!Entries = {} /\ warm_queue = {} /\ Dns!Cardinality({}) = 0 /\ Dns!IsFiniteSet({})
      /\ MaxWarm \in Nat /\ MaxEntries \in Nat
  BY DnsSizes, FS_EmptySet DEF Dns!Init, Dns!Entries, Dns!DnsTableAssumption
<1>2. Dns!DnsTypes
  <2>1. msgs \in Seq(Names)
    BY EmptySeq DEF Dns!Init
  <2>2. /\ refresher \in [pc : Dns!RefresherPcs, host : Names \cup {None}]
        /\ refresher.pc = "idle" /\ refresher.host = None
    BY DEF Dns!Init, Dns!NoWork, Dns!RefresherPcs
  <2>3. /\ caller \in [Askers -> [pc : Dns!AskerPcs, host : Names \cup {None}]]
        /\ \A c \in Askers : caller[c].pc = "rest" /\ caller[c].host = None
    BY DEF Dns!Init, Dns!Rest, Dns!AskerPcs
  <2>4. table \in [Names -> Dns!Row \cup {None}] /\ now \in Nat
    BY DEF Dns!Init
  <2> QED
    BY <1>1, <2>1, <2>2, <2>3, <2>4 DEF Dns!DnsTypes
<1>3. Dns!OnePlace /\ Dns!RefreshIsComing
  BY <1>1 DEF Dns!OnePlace, Dns!RefreshIsComing
<1>4. Dns!WarmHasPlace
  <2>1. \A h \in Names : Dns!Places(h) = {}
    BY <1>1 DEF Dns!Places
  <2> QED
    BY <1>1, <2>1 DEF Dns!WarmHasPlace
<1> QED
  BY <1>2, <1>3, <1>4 DEF Dns!DnsInv

\* Who is about to refresh a name goes on being so, when a request that rests or resolves goes on.
LEMMA ComingStays ==
    ASSUME NEW c \in Askers, v7[c].pc # "ask", \A d \in Askers \ {c} : v7'[d] = v7[d],
           v4' = v4, v6' = v6
    PROVE  \A k \in Names : Coming(k) => Coming(k)'
BY DEF Coming

LEMMA DnsKept == ASSUME Dns!DnsTableAssumption, Dns!DnsInv, [Dns!Next]_(Dns!vars)
PROVE Dns!DnsInv'
<1> DEFINE table == v1  warm_queue == v2  warm_on == v3  msgs == v4  thread == v5
           refresher == v6  caller == v7  now == v8
<1>1. /\ Dns!DnsTypes /\ Others /\ Dns!RefreshIsComing /\ Held(table, warm_queue)
      /\ IsTable(table) /\ IsQueue(warm_queue) /\ Placed(table, warm_queue)
  BY IsHeld, OthersAre DEF Held
<1>2. \A k \in Names : table[k] # None /\ table[k].refreshing => Coming(k)
  <2>1. ASSUME NEW k \in Names, table[k] # None, table[k].refreshing PROVE Coming(k)
    <3>1. k \in Dns!Entries
      BY <2>1 DEF Dns!Entries
    <3> QED
      BY <1>1, <2>1, <3>1, Zenon DEF Dns!RefreshIsComing, Coming
  <2> QED
    BY <2>1
<1>3. None \notin Dns!Row /\ None \notin Names /\ After \in Nat /\ now \in Nat
  BY <1>1, RowIsNotNone DEF Dns!DnsTableAssumption, Others
<1> DEFINE Done == Others' /\ Held(table', warm_queue')
                   /\ \A k \in Names : table'[k] # None /\ table'[k].refreshing => Coming(k)'
<1>4. SUFFICES Done
  BY HeldIsKept
<1>a. ASSUME NEW c \in Askers, NEW h \in Names, Dns!Look(c, h) PROVE Done
  <2> DEFINE e == IF table[h] = None THEN Dns!Empty ELSE table[h]
  <2>1. PICK found \in {"hit", "aged", "refused", "served", "miss"}, promote \in BOOLEAN :
           LET ask == found \in {"aged", "served"} /\ ~e.refreshing
               asked == IF table[h] = None THEN table
                 ELSE [table EXCEPT ![h].refreshing = @ \/ ask]
           IN
           /\ caller[c].pc = "rest"
           /\ Dns!CanFind(e, found) /\ (promote => e.addrs /\ ~e.warm)
           /\ IF promote THEN \E r \in Dns!Promoted(asked, h) : table' = r.t /\ warm_queue' = r.q
                         ELSE table' = asked /\ UNCHANGED warm_queue
           /\ caller' = [caller EXCEPT ![c] = IF found = "miss"
                THEN [pc |-> "resolve", host |-> h]
                                              ELSE IF ask THEN [pc |-> "ask", host |-> h]
                                                ELSE Dns!Rest]
           /\ UNCHANGED <<warm_on, msgs, refresher, now>>
    BY <1>a, Zenon DEF Dns!Look
  <2> DEFINE ask == found \in {"aged", "served"} /\ ~e.refreshing
             asked == IF table[h] = None THEN table ELSE [table EXCEPT ![h].refreshing = @ \/ ask]
  <2>2. /\ caller[c].pc = "rest" /\ Dns!CanFind(e, found) /\ (promote => e.addrs /\ ~e.warm)
        /\ promote => \E r \in Dns!Promoted(asked, h) : table' = r.t /\ warm_queue' = r.q
        /\ ~promote => table' = asked /\ warm_queue' = warm_queue
        /\ caller' = [caller EXCEPT ![c] = IF found = "miss" THEN [pc |-> "resolve", host |-> h]
                                           ELSE IF ask THEN [pc |-> "ask", host |-> h]
                                             ELSE Dns!Rest]
        /\ msgs' = msgs /\ refresher' = refresher /\ now' = now
    BY <2>1, Zenon
  <2>3. found = "miss" => ~ask
    OBVIOUS
  <2>4. table[h] = None => ~ask /\ ~promote
    <3>1. ASSUME table[h] = None PROVE ~e.addrs
      BY <3>1 DEF Dns!Empty
    <3> QED
      BY <2>2, <3>1 DEF Dns!CanFind
  <2>5. /\ IsTable(asked)
        /\ \A k \in Names : /\ asked[k] = None <=> table[k] = None
                            /\ asked[k] # None => (asked[k].warm <=> table[k].warm)
                            /\ asked[k] # None /\ asked[k].refreshing => table[k].refreshing
                               \/ (k = h /\ ask)
    <3>1. CASE table[h] = None
      <4>1. asked = table
        BY <3>1
      <4> QED
        BY <1>1, <4>1
    <3>2. CASE table[h] # None
      <4>1. table[h] \in Dns!Row
        BY <1>1, <3>2 DEF IsTable
      <4> DEFINE marked == [table[h] EXCEPT !.refreshing = table[h].refreshing \/ ask]
      <4>2. asked = [table EXCEPT ![h] = marked]
        BY <3>2, Zenon
      <4>3. ask \in BOOLEAN
        OBVIOUS
      <4> HIDE DEF ask, asked
      <4>4. marked \in Dns!Row /\ (marked.warm <=> table[h].warm)
            /\ (marked.refreshing <=> table[h].refreshing \/ ask)
        BY <4>1, <4>3 DEF Dns!Row
      <4> HIDE DEF marked
      <4>5. IsTable(asked) /\ \A k \in Names : asked[k] = IF k = h THEN marked ELSE table[k]
        BY <1>1, <4>2, <4>4 DEF IsTable
      <4> QED
        BY <1>3, <3>2, <4>4, <4>5
    <3> QED
      BY <3>1, <3>2
  <2>6. caller'[c] = [pc |-> "ask", host |-> h] \/ ~ask
    <3> HIDE DEF ask
    <3> QED
      BY <1>1, <2>2, <2>3 DEF Others
  <2>7. \A d \in Askers \ {c} : caller'[d] = caller[d]
    BY <1>1, <2>2 DEF Others
  <2>8. Others'
    <3>1. \/ caller' = [caller EXCEPT ![c] = [pc |-> "resolve", host |-> h]]
          \/ caller' = [caller EXCEPT ![c] = [pc |-> "ask", host |-> h]]
          \/ caller' = [caller EXCEPT ![c] = Dns!Rest]
      <4> HIDE DEF ask
      <4> QED
        BY <2>2
    <3> HIDE DEF ask, asked, e
    <3> QED
      BY <1>1, <1>3, <2>2, <3>1 DEF Others, Dns!Rest, Dns!AskerPcs
  <2>9. \A k \in Names : Coming(k) => Coming(k)'
    BY <2>2, <2>7, ComingStays
  <2>10. ask => Coming(h)'
    <3> HIDE DEF ask
    <3> QED
      BY <2>6 DEF Coming
  <2> HIDE DEF ask, asked, e
  <2>11. Held(asked, warm_queue)
    BY <1>1, <2>5, HeldLess
  <2>12. CASE ~promote
    BY <1>2, <2>2, <2>5, <2>8, <2>9, <2>10, <2>11, <2>12
  <2>13. CASE promote
    <3>1. PICK r \in Dns!Promoted(asked, h) : table' = r.t /\ warm_queue' = r.q
      BY <2>2, <2>13
    <3>2. asked[h] # None
      BY <2>4, <2>5, <2>13
    <3>3. /\ Held(r.t, r.q)
          /\ \A k \in Names : /\ r.t[k] = None <=> asked[k] = None
                              /\ asked[k] # None => r.t[k].refreshing = asked[k].refreshing
      BY <1>3, <2>11, <3>1, <3>2, PromotionHolds
    <3> QED
      BY <1>2, <2>5, <2>8, <2>9, <2>10, <3>1, <3>3
  <2> QED
    BY <2>12, <2>13
<1>b. ASSUME NEW c \in Askers, Dns!AskRefresh(c) PROVE Done
  <2> DEFINE h == caller[c].host
  <2>1. /\ caller[c].pc = "ask" /\ caller' = [caller EXCEPT ![c] = Dns!Rest]
        /\ warm_queue' = warm_queue /\ refresher' = refresher /\ now' = now
        /\ thread' = "runs" => msgs' = Append(msgs, h) /\ table' = table
        /\ thread' # "runs" => /\ table' = IF table[h] = None THEN table
                                    ELSE [table EXCEPT ![h].refreshing = FALSE]
                               /\ msgs' = msgs
    BY <1>b, Zenon DEF Dns!AskRefresh
  <2>2. h \in Names /\ msgs \in Seq(Names)
    BY <1>1, <2>1 DEF Others
  <2>3. \A d \in Askers \ {c} : caller'[d] = caller[d]
    BY <1>1, <2>1 DEF Others
  <2>4. Others'
    <3>1. msgs' \in Seq(Names)
      <4>1. msgs' = msgs \/ msgs' = Append(msgs, h)
        BY <2>1, Zenon
      <4> HIDE DEF h
      <4> QED
        BY <2>2, <4>1
    <3> QED
      BY <1>1, <1>3, <2>1, <3>1 DEF Others, Dns!Rest, Dns!AskerPcs
  <2>5. \A k \in Names : Coming(k) => Coming(k)' \/ (k = h /\ thread' # "runs")
    <3>1. ASSUME NEW k \in Names, NEW i \in DOMAIN msgs, msgs[i] = k
          PROVE \E j \in DOMAIN msgs' : msgs'[j] = k
      <4>1. msgs' = msgs \/ msgs' = Append(msgs, h)
        BY <2>1
      <4>2. i \in DOMAIN Append(msgs, h) /\ Append(msgs, h)[i] = k
        BY <2>2, <3>1
      <4> QED
        BY <3>1, <4>1, <4>2
    <3>2. ASSUME thread' = "runs" PROVE \E j \in DOMAIN msgs' : msgs'[j] = h
      <4>1. Len(msgs) + 1 \in DOMAIN Append(msgs, h) /\ Append(msgs, h)[Len(msgs) + 1] = h
        BY <2>2
      <4> QED
        BY <2>1, <3>2, <4>1
    <3>3. ASSUME NEW k \in Names, NEW d \in Askers, caller[d] = [pc |-> "ask", host |-> k]
          PROVE  (\E d2 \in Askers : caller'[d2] = [pc |-> "ask", host |-> k]) \/ k = h
      BY <2>3, <3>3
    <3> HIDE DEF h
    <3> QED
      BY <2>1, <3>1, <3>2, <3>3, Zenon DEF Coming
  <2>6. CASE thread' = "runs"
    BY <1>1, <1>2, <2>1, <2>4, <2>5, <2>6
  <2>7. CASE thread' # "runs"
    <3>1. /\ IsTable(table')
          /\ \A k \in Names : /\ table'[k] # None => table[k] # None
                                   /\ (table'[k].warm => table[k].warm)
                              /\ table'[k] # None /\ table'[k].refreshing => table[k].refreshing
                                 /\ k # h
      <4>1. CASE table[h] = None
        <5>1. table' = table
          BY <2>1, <2>7, <4>1
        <5> QED
          BY <1>1, <4>1, <5>1
      <4>2. CASE table[h] # None
        <5>1. table' = [table EXCEPT ![h] = [table[h] EXCEPT !.refreshing = FALSE]]
          BY <2>1, <2>7, <4>2
        <5>2. table[h] \in Dns!Row
          BY <1>1, <2>2, <4>2 DEF IsTable
        <5> HIDE DEF h
        <5>3. [table[h] EXCEPT !.refreshing = FALSE] \in Dns!Row
          BY <5>2 DEF Dns!Row
        <5>4. IsTable(table') /\ \A k \in Names : table'[k] = IF k = h
                THEN [table[h] EXCEPT !.refreshing = FALSE] ELSE table[k]
          BY <1>1, <2>2, <5>1, <5>3 DEF IsTable
        <5> QED
          BY <1>3, <2>2, <4>2, <5>2, <5>4 DEF Dns!Row
      <4> QED
        BY <4>1, <4>2
    <3>2. Held(table', warm_queue')
      BY <1>1, <2>1, <3>1, HeldLess
    <3> QED
      BY <1>2, <2>4, <2>5, <3>1, <3>2
  <2> QED
    BY <2>6, <2>7
<1>c. ASSUME NEW c \in Askers, Dns!Answer(c) PROVE Done
  <2>1. /\ caller[c].pc = "resolve" /\ caller' = [caller EXCEPT ![c] = Dns!Rest]
        /\ warm_queue' = warm_queue /\ msgs' = msgs /\ refresher' = refresher /\ now' = now
    BY <1>c, Zenon DEF Dns!Answer
  <2>2. caller[c].host \in Names
    BY <1>1, <2>1 DEF Others
  <2>3. PutDone
    <3>1. CASE table' = table
      BY <1>1, <2>1, <3>1 DEF PutDone
    <3>2. ASSUME NEW t \in Dns!WithRoom(caller[c].host), NEW e,
                 e = IF t[caller[c].host] = None THEN Dns!Empty ELSE t[caller[c].host],
                 \/ table' = [t EXCEPT ![caller[c].host]
                      = [e EXCEPT !.addrs = TRUE, !.failed = FALSE]]
                 \/ table' = [t EXCEPT ![caller[c].host] = [e EXCEPT !.failed = TRUE]]
          PROVE  PutDone
      <4>1. IsPut(t, caller[c].host, e, table')
        BY <3>2, Zenon DEF IsPut, Before
      <4> QED
        BY <1>1, <2>1, <2>2, <3>2, <4>1, PutGood
    <3> QED
      BY <1>c, <3>1, <3>2, Zenon DEF Dns!Answer, Dns!Put
  <2>4. \A d \in Askers \ {c} : caller'[d] = caller[d]
    BY <1>1, <2>1 DEF Others
  <2>5. \A k \in Names : Coming(k) => Coming(k)'
    BY <2>1, <2>4, ComingStays
  <2>6. Others'
    BY <1>1, <1>3, <2>1 DEF Others, Dns!Rest, Dns!AskerPcs
  <2> QED
    BY <1>2, <2>3, <2>5, <2>6 DEF PutDone
<1>d. ASSUME NEW h \in Names, Dns!StoreLate(h) \/ Dns!RememberFamily(h) \/ Dns!Relookup(h)
      PROVE Done
  <2>1. warm_queue' = warm_queue /\ msgs' = msgs /\ refresher' = refresher /\ now' = now
        /\ caller' = caller
    BY <1>d, Zenon DEF Dns!StoreLate, Dns!RememberFamily, Dns!Relookup
  <2>2. PutDone
    <3>1. ASSUME NEW t \in Dns!WithRoom(h), NEW e, e = IF t[h] = None THEN Dns!Empty ELSE t[h],
                 table' = [t EXCEPT ![h] = [e EXCEPT !.addrs = TRUE, !.failed = FALSE]]
                 \/ table' = [t EXCEPT ![h] = e]
          PROVE  PutDone
      <4>1. IsPut(t, h, e, table')
        BY <3>1, Zenon DEF IsPut, Before
      <4> QED
        BY <1>1, <2>1, <3>1, <4>1, PutGood
    <3>2. CASE Dns!StoreLate(h) \/ Dns!RememberFamily(h)
      BY <3>1, <3>2, Zenon DEF Dns!StoreLate, Dns!RememberFamily, Dns!Put
    <3>3. CASE Dns!Relookup(h)
      <4>1. table[h] # None /\ table'
              = [table EXCEPT ![h] = [table[h] EXCEPT !.addrs = TRUE, !.failed = FALSE]]
        BY <3>3 DEF Dns!Relookup
      <4>2. table[h] \in Dns!Row
        BY <1>1, <4>1 DEF IsTable
      <4>3. [table[h] EXCEPT !.addrs = TRUE, !.failed = FALSE] \in Dns!Row
        BY <4>2 DEF Dns!Row
      <4>4. IsTable(table') /\ \A k \in Names : table'[k] = IF k = h
              THEN [table[h] EXCEPT !.addrs = TRUE, !.failed = FALSE] ELSE table[k]
        BY <1>1, <4>1, <4>3 DEF IsTable
      <4>5. \A k \in Names : table'[k] # None =>
                /\ table[k] # None /\ (table'[k].warm => table[k].warm)
                /\ table'[k].refreshing => table[k].refreshing
        BY <4>1, <4>2, <4>4 DEF Dns!Row
      <4>6. Held(table', warm_queue)
        BY <1>1, <4>4, <4>5, HeldLess
      <4> QED
        BY <2>1, <4>5, <4>6 DEF PutDone
    <3> QED
      BY <1>d, <3>2, <3>3
  <2>3. Others' /\ \A k \in Names : Coming(k)' <=> Coming(k)
    BY <1>1, <2>1 DEF Others, Coming
  <2> QED
    BY <1>2, <2>2, <2>3 DEF PutDone
<1>e. CASE Dns!WarmNext
  <2>1. PICK p \in warm_queue, used \in BOOLEAN :
          LET h == p.key
              due == [at |-> now + After, key |-> h]
          IN
          /\ p.at <= now /\ \A q \in warm_queue : p.at <= q.at
          /\ CASE table[h] = None ->
                    warm_queue' = warm_queue \ {p} /\ UNCHANGED <<table, refresher>>
               [] table[h] # None /\ (~table[h].warm \/ ~used) ->
                    /\ warm_queue' = warm_queue \ {p}
                    /\ table' = [table EXCEPT ![h].warm = FALSE]
                    /\ UNCHANGED refresher
               [] OTHER ->
                    /\ warm_queue' = (warm_queue \ {p}) \cup {due}
                    /\ IF table[h].refreshing THEN UNCHANGED <<table, refresher>>
                       ELSE /\ table' = [table EXCEPT ![h].refreshing = TRUE]
                            /\ refresher' = [pc |-> "warm", host |-> h]
    BY <1>e, Zenon DEF Dns!WarmNext
  <2> DEFINE h == p.key
             due == [at |-> now + After, key |-> h]
             Turns == warm_queue' = (warm_queue \ {p}) \cup {due}
  <2>2. \/ table[h] = None /\ warm_queue' = warm_queue \ {p} /\ table' = table /\ refresher'
             = refresher
        \/ /\ table[h] # None /\ warm_queue' = warm_queue \ {p} /\ refresher' = refresher
           /\ table' = [table EXCEPT ![h] = [table[h] EXCEPT !.warm = FALSE]]
        \/ table[h] # None /\ Turns /\ table' = table /\ refresher' = refresher
        \/ /\ table[h] # None /\ Turns /\ refresher' = [pc |-> "warm", host |-> h]
           /\ table' = [table EXCEPT ![h] = [table[h] EXCEPT !.refreshing = TRUE]]
    BY <2>1
  <2>3. /\ h \in Names /\ due \in [at : Nat, key : Names] /\ due.key = p.key
        /\ p \in warm_queue /\ p.key = h /\ \A q \in warm_queue : q.key = h => q = p
    BY <1>1, <1>3 DEF IsQueue
  <2>4. msgs' = msgs /\ caller' = caller /\ now' = now /\ refresher.pc = "idle"
        /\ refresher.host = None
    BY <1>1, <1>e DEF Dns!WarmNext, Others
  <2>5. \A k \in Names : Coming(k) => Coming(k)'
    BY <1>3, <2>4 DEF Coming
  <2>6. IsQueue(warm_queue \ {p}) /\ IsQueue((warm_queue \ {p}) \cup {due})
    <3> HIDE DEF due
    <3> QED
      BY <1>1, <2>3, PlaceGoes, PlaceTurns
  <2>7. Others'
    <3>1. refresher' = refresher \/ refresher' = [pc |-> "warm", host |-> h]
      BY <2>2, Zenon
    <3> HIDE DEF h
    <3> QED
      BY <1>1, <1>3, <2>3, <2>4, <3>1 DEF Others, Dns!RefresherPcs
  <2>8. refresher' = [pc |-> "warm", host |-> h] => Coming(h)'
    BY DEF Coming
  <2> HIDE DEF h, due, Turns
  <2>9. CASE table[h] = None /\ warm_queue' = warm_queue \ {p} /\ table' = table
    <3>1. Placed(table, warm_queue \ {p})
      BY <1>1, <2>3, <2>9 DEF Placed
    <3>2. Held(table', warm_queue')
      BY <1>1, <2>6, <2>9, <3>1 DEF Held
    <3> QED
      BY <1>2, <2>5, <2>7, <2>9, <3>2
  <2>10. CASE /\ table[h] # None /\ warm_queue' = warm_queue \ {p}
              /\ table' = [table EXCEPT ![h] = [table[h] EXCEPT !.warm = FALSE]]
    <3>1. table[h] \in Dns!Row
      BY <1>1, <2>3, <2>10 DEF IsTable
    <3>2. [table[h] EXCEPT !.warm = FALSE] \in Dns!Row
      BY <3>1 DEF Dns!Row
    <3>3. IsTable(table') /\ \A k \in Names : table'[k] = IF k = h
            THEN [table[h] EXCEPT !.warm = FALSE] ELSE table[k]
      BY <1>1, <2>3, <2>10, <3>2 DEF IsTable
    <3>4. \A k \in Names : table'[k] # None =>
              /\ table[k] # None /\ (table'[k].warm => table[k].warm /\ k # h)
              /\ table'[k].refreshing => table[k].refreshing
      BY <2>10, <3>1, <3>3 DEF Dns!Row
    <3>5. Held(table', warm_queue)
      BY <1>1, <3>3, <3>4, HeldLess
    <3>6. Placed(table', warm_queue \ {p})
      BY <1>1, <2>3, <3>4 DEF Placed
    <3>7. Held(table', warm_queue')
      BY <2>6, <2>10, <3>5, <3>6 DEF Held
    <3> QED
      BY <1>2, <2>5, <2>7, <3>4, <3>7
  <2>11. ASSUME table[h] # None, Turns,
                \/ table' = table
                \/ /\ refresher' = [pc |-> "warm", host |-> h]
                   /\ table' = [table EXCEPT ![h] = [table[h] EXCEPT !.refreshing = TRUE]]
         PROVE  Done
    <3>1. /\ IsTable(table')
          /\ \A k \in Names :
                 /\ table'[k] # None => table[k] # None /\ (table'[k].warm => table[k].warm)
                 /\ table'[k] # None /\ table'[k].refreshing =>
                       table[k].refreshing \/ (k = h /\ refresher' = [pc |-> "warm", host |-> h])
      <4>1. CASE table' = table
        BY <1>1, <4>1
      <4>2. CASE /\ refresher' = [pc |-> "warm", host |-> h]
                 /\ table' = [table EXCEPT ![h] = [table[h] EXCEPT !.refreshing = TRUE]]
        <5>1. table[h] \in Dns!Row
          BY <1>1, <2>3, <2>11 DEF IsTable
        <5>2. [table[h] EXCEPT !.refreshing = TRUE] \in Dns!Row
          BY <5>1 DEF Dns!Row
        <5>3. IsTable(table') /\ \A k \in Names : table'[k] = IF k = h
                THEN [table[h] EXCEPT !.refreshing = TRUE] ELSE table[k]
          BY <1>1, <2>3, <4>2, <5>2 DEF IsTable
        <5> QED
          BY <2>11, <4>2, <5>1, <5>3 DEF Dns!Row
      <4> QED
        BY <2>11, <4>1, <4>2
    <3>2. Held(table', warm_queue)
      BY <1>1, <3>1, HeldLess
    <3>3. warm_queue' = (warm_queue \ {p}) \cup {due}
      BY <2>11 DEF Turns
    <3>4. Placed(table', warm_queue')
      BY <1>1, <2>3, <3>1, <3>3 DEF Placed, h
    <3>5. Held(table', warm_queue')
      BY <2>6, <3>2, <3>3, <3>4 DEF Held
    <3> QED
      BY <1>2, <2>5, <2>7, <2>8, <3>1, <3>5
  <2> QED
    BY <2>2, <2>9, <2>10, <2>11
<1>f. CASE Dns!TakeMessage
  <2>1. /\ refresher.pc = "idle" /\ refresher.host = None /\ msgs # <<>> /\ msgs \in Seq(Names)
        /\ refresher' = [pc |-> "asked", host |-> Head(msgs)] /\ msgs' = Tail(msgs)
        /\ UNCHANGED <<table, warm_queue, caller, now>>
    BY <1>1, <1>f DEF Dns!TakeMessage, Others
  <2>2. Head(msgs) \in Names /\ Tail(msgs) \in Seq(Names)
    BY <2>1, HeadTailProperties
  <2>3. Others'
    BY <1>1, <1>3, <2>1, <2>2 DEF Others, Dns!RefresherPcs
  <2>4. ASSUME NEW k \in Names, Coming(k) PROVE Coming(k)'
    <3>1. ASSUME NEW i \in DOMAIN msgs, msgs[i] = k PROVE refresher'.host = k
                 \/ \E j \in DOMAIN msgs' : msgs'[j] = k
      <4>1. CASE i = 1
        BY <2>1, <3>1, <4>1
      <4>2. CASE i # 1
        <5>1. i - 1 \in DOMAIN Tail(msgs) /\ Tail(msgs)[i - 1] = msgs[i]
          BY <2>1, <3>1, <4>2
        <5> QED
          BY <2>1, <3>1, <5>1
      <4> QED
        BY <4>1, <4>2
    <3> QED
      BY <1>3, <2>1, <2>4, <3>1 DEF Coming
  <2> QED
    BY <1>1, <1>2, <2>1, <2>3, <2>4
<1>g. CASE Dns!Refreshed
  <2> DEFINE h == refresher.host
  <2>1. /\ refresher.pc # "idle" /\ h \in Names /\ refresher' = Dns!NoWork
        /\ UNCHANGED <<warm_queue, msgs, caller, now>>
    BY <1>1, <1>g DEF Dns!Refreshed, Others
  <2>2. \/ table' = table /\ (table[h] = None \/ ~table[h].refreshing)
        \/ /\ table[h] # None
           /\ \/ table' = [table EXCEPT ![h].refreshing = FALSE, ![h].addrs = TRUE, ![h].failed
                   = FALSE]
              \/ table' = [table EXCEPT ![h].refreshing = FALSE]
    BY <1>g, Zenon DEF Dns!Refreshed
  <2>3. Others'
    BY <1>1, <2>1 DEF Others, Dns!NoWork, Dns!RefresherPcs
  <2>4. \A k \in Names : Coming(k) => Coming(k)' \/ k = h
    BY <2>1 DEF Coming
  <2>5. /\ IsTable(table')
        /\ \A k \in Names : table'[k] # None =>
              /\ table[k] # None /\ (table'[k].warm => table[k].warm)
              /\ table'[k].refreshing => table[k].refreshing /\ k # h
    <3> HIDE DEF h
    <3>1. CASE table' = table /\ (table[h] = None \/ ~table[h].refreshing)
      BY <1>1, <3>1
    <3>2. ASSUME table[h] # None, NEW e \in Dns!Row, ~ e.refreshing, e.warm = table[h].warm,
                 table' = [table EXCEPT ![h] = e]
          PROVE  <2>5
      <4>1. IsTable(table') /\ \A k \in Names : table'[k] = IF k = h THEN e ELSE table[k]
        BY <1>1, <2>1, <3>2 DEF IsTable
      <4> QED
        BY <3>2, <4>1
    <3>3. ASSUME table[h] # None PROVE table[h] \in Dns!Row
      BY <1>1, <2>1, <3>3 DEF IsTable
    <3>4. CASE table[h] # None /\ table' = [table EXCEPT ![h].refreshing = FALSE]
      <4>1. table' = [table EXCEPT ![h] = [table[h] EXCEPT !.refreshing = FALSE]]
        BY <3>4
      <4>2. /\ [table[h] EXCEPT !.refreshing = FALSE] \in Dns!Row
            /\ ~ [table[h] EXCEPT !.refreshing = FALSE].refreshing
            /\ [table[h] EXCEPT !.refreshing = FALSE].warm = table[h].warm
        BY <3>3, <3>4 DEF Dns!Row
      <4> QED
        BY <3>2, <3>4, <4>1, <4>2
    <3>5. CASE table[h] # None /\ table'
                 = [table EXCEPT ![h].refreshing = FALSE, ![h].addrs = TRUE, ![h].failed = FALSE]
      <4> DEFINE good == [table[h] EXCEPT !.refreshing = FALSE, !.addrs = TRUE, !.failed = FALSE]
      <4>1. table' = [table EXCEPT ![h] = good]
        BY <1>1, <2>1, <3>3, <3>5 DEF IsTable, Dns!Row
      <4>2. good \in Dns!Row /\ ~ good.refreshing /\ good.warm = table[h].warm
        BY <3>3, <3>5 DEF Dns!Row
      <4> HIDE DEF good
      <4> QED
        BY <3>2, <3>5, <4>1, <4>2
    <3> QED
      BY <2>2, <3>1, <3>4, <3>5
  <2>6. Held(table', warm_queue')
    BY <1>1, <2>1, <2>5, HeldLess
  <2> QED
    BY <1>2, <2>3, <2>4, <2>5, <2>6
<1>h. CASE Dns!SetWarmWindow
  <2>1. UNCHANGED <<msgs, refresher, caller, now>>
    BY <1>h DEF Dns!SetWarmWindow
  <2>2. Others' /\ \A k \in Names : Coming(k)' <=> Coming(k)
    BY <1>1, <2>1 DEF Others, Coming
  <2>3. CASE warm_on
    <3>1. /\ warm_queue' = {}
          /\ table' = [k \in Names |-> IF table[k] # None /\ Dns!Places(k) # {}
                                       THEN [table[k] EXCEPT !.warm = FALSE] ELSE table[k]]
      BY <1>h, <2>3, Zenon DEF Dns!SetWarmWindow
    <3>2. ASSUME NEW k \in Names
          PROVE  /\ table'[k] \in Dns!Row \cup {None}
                 /\ table'[k] # None => /\ table[k] # None /\ ~ table'[k].warm
                                        /\ table'[k].refreshing => table[k].refreshing
      <4>1. table'[k] = IF table[k] # None /\ Dns!Places(k) # {}
              THEN [table[k] EXCEPT !.warm = FALSE] ELSE table[k]
        BY <3>1, Zenon
      <4>2. CASE table[k] # None /\ Dns!Places(k) # {}
        <5>1. table'[k] = [table[k] EXCEPT !.warm = FALSE] /\ table[k] \in Dns!Row
          BY <1>1, <4>1, <4>2 DEF IsTable
        <5> QED
          BY <4>2, <5>1 DEF Dns!Row
      <4>3. CASE ~ (table[k] # None /\ Dns!Places(k) # {})
        <5>1. table'[k] = table[k]
          BY <4>1, <4>3
        <5>2. table[k] # None => ~ table[k].warm
          BY <1>1, <4>3 DEF Placed, Dns!Places
        <5> QED
          BY <1>1, <5>1, <5>2 DEF IsTable
      <4> QED
        BY <4>2, <4>3
    <3>3. IsTable(table')
      <4>1. table' = [k \in Names |-> table'[k]]
        BY <3>1, Zenon
      <4> QED
        BY <3>2, <4>1 DEF IsTable
    <3>4. Held(table', warm_queue)
      BY <1>1, <3>2, <3>3, HeldLess
    <3>5. IsQueue({}) /\ Placed(table', {})
      <4>1. Dns!IsFiniteSet({}) /\ Dns!Cardinality({}) = 0 /\ MaxWarm \in Nat
        BY DnsSizes, FS_EmptySet DEF Dns!DnsTableAssumption
      <4> QED
        BY <3>2, <4>1 DEF IsQueue, Placed
    <3>6. Held(table', warm_queue')
      BY <3>1, <3>4, <3>5 DEF Held
    <3> QED
      BY <1>2, <2>2, <3>2, <3>6
  <2>4. CASE ~ warm_on
    <3>1. table' = table /\ warm_queue' = warm_queue
      BY <1>h, <2>4 DEF Dns!SetWarmWindow
    <3> QED
      BY <1>1, <1>2, <2>2, <3>1
  <2> QED
    BY <2>3, <2>4
<1>i. CASE Dns!ClearAll
  <2>1. /\ table' = [k \in Names |-> None] /\ warm_queue' = {}
        /\ UNCHANGED <<msgs, refresher, caller, now>>
    BY <1>i DEF Dns!ClearAll
  <2>2. Others'
    BY <1>1, <2>1 DEF Others
  <2>3. Held(table', {})
    <3>1. Dns!IsFiniteSet({}) /\ Dns!Cardinality({}) = 0 /\ MaxWarm \in Nat /\ MaxEntries \in Nat
      BY DnsSizes, FS_EmptySet DEF Dns!DnsTableAssumption
    <3>2. {k \in Names : table'[k] # None} = {}
      BY <2>1
    <3>3. Dns!Cardinality({k \in Names : table'[k] # None}) <= MaxEntries
      <4> DEFINE known == {k \in Names : table'[k] # None}
      <4>1. known = {}
        BY <3>2
      <4> HIDE DEF known
      <4>2. Dns!Cardinality(known) <= MaxEntries
        BY <3>1, <4>1
      <4> QED
        BY <4>2 DEF known
    <3>4. IsTable(table') /\ IsQueue({}) /\ Placed(table', {})
      BY <2>1, <3>1 DEF IsTable, IsQueue, Placed
    <3> QED
      BY <3>3, <3>4 DEF Held
  <2> QED
    BY <2>1, <2>2, <2>3
<1>j. CASE Dns!Tick \/ UNCHANGED Dns!vars
  <2>1. UNCHANGED <<table, warm_queue, msgs, refresher, caller>> /\ now' \in Nat
    BY <1>3, <1>j DEF Dns!Tick, Dns!vars
  <2>2. Others' /\ \A k \in Names : Coming(k)' <=> Coming(k)
    BY <1>1, <2>1 DEF Others, Coming
  <2> QED
    BY <1>1, <1>2, <2>1, <2>2
<1> QED
  BY <1>a, <1>b, <1>c, <1>d, <1>e, <1>f, <1>g, <1>h, <1>i, <1>j DEF Dns!Next

LEMMA DnsInductive == Spec => []DnsInv
<1>1. Init => DnsInv
  BY DnsAssumption, DnsStarts DEF Init, DnsInv
<1>2. DnsInv /\ [Next]_vars => DnsInv'
  <2> SUFFICES ASSUME DnsInv, [Next]_vars, part' = "names" PROVE Dns!DnsInv'
    BY DEF DnsInv
  <2>1. part = "names"
    BY SamePart
  <2>2. [Dns!Next]_(Dns!vars)
    BY <2>1
       DEF Next, MemStep, FiltersStep, DoorStep, ShotsStep, AnswersStep, RowStep, MoneyStep,
           PoolStep, ResolverStep, DnsStep, RaceStep, PolicyStep, RelayStep, vars, Dns!vars
  <2>3. Dns!DnsInv
    BY <2>1 DEF DnsInv
  <2> QED
    BY DnsAssumption, <2>2, <2>3, DnsKept
<1> QED
  BY <1>1, <1>2, PTL DEF Spec

\* The count of lookups on the way is exact and within a limit, no job waits without a thread while
\* one could be had, a name that is marked as being refreshed will be, and a warm one has its one
\* place, whoever gives up, clears or evicts meanwhile (resolve, submit, worker; dns-refresh).
THEOREM NamesAlwaysServed == Spec => []NamesAreServed
<1>1. ResolverInv /\ part = "resolver" => Resolver!InFlightAccounted /\ Resolver!JobHasThread
  BY DEF ResolverInv, Resolver!ResolverInv
<1>2. DnsInv /\ part = "names" => Dns!RefreshIsComing /\ Dns!WarmHasPlace
  BY DEF DnsInv, Dns!DnsInv
<1>3. ResolverInv /\ DnsInv => NamesAreServed
  BY <1>1, <1>2 DEF NamesAreServed
<1> QED
  BY <1>3, ResolverInductive, DnsInductive, PTL

-----------------------------------------------------------------------------
\* A race of connection attempts; the operators on finite sets are those of its instance.
LEMMA RaceSizes ==
    /\ \A S : Race!IsFiniteSet(S) <=> IsFiniteSet(S)
    /\ \A S : Race!Cardinality(S) = Cardinality(S)
<1>1. \A S : Race!IsFiniteSet(S) <=> IsFiniteSet(S)
  BY Zenon DEF Race!IsFiniteSet, IsFiniteSet
<1>2. \A S : Race!Cardinality(S) = Cardinality(S)
  BY Zenon DEF Race!Cardinality, Cardinality
<1> QED
  BY <1>1, <1>2

\* What is tried is a sequence of addresses.
LEMMA ListsAreSequences ==
    ASSUME NEW V, Race!IsFiniteSet(V), NEW f \in Race!Lists(V) PROVE f \in Seq(V)
<1>1. PICK S \in SUBSET V : f \in [1 .. Race!Cardinality(S) -> S]
  BY DEF Race!Lists
<1>2. Race!Cardinality(S) \in Nat
  BY RaceSizes, FS_Subset, FS_CardinalityType
<1> QED
  BY <1>1, <1>2

LEMMA InterleavedIsSequence ==
    ASSUME NEW V, NEW six \in Seq(V), NEW four \in Seq(V), NEW v6_first \in BOOLEAN
    PROVE  Race!InterleaveFrom(six, four, v6_first) \in Seq(V)
<1> DEFINE a == IF v6_first THEN six ELSE four
           b == IF v6_first THEN four ELSE six
           both == IF Len(a) < Len(b) THEN Len(a) ELSE Len(b)
           turns == [i \in 1 .. 2 * both |-> IF i % 2 = 1 THEN a[(i + 1) \div 2] ELSE b[i \div 2]]
<1>1. a \in Seq(V) /\ b \in Seq(V)
  OBVIOUS
<1> HIDE DEF a, b
<1>2. both \in Nat /\ both <= Len(a) /\ both <= Len(b) /\ Len(a) \in Nat /\ Len(b) \in Nat
  BY <1>1
<1> HIDE DEF both
<1>3. \A i \in 1 .. 2 * both :
         /\ i % 2 = 1 => (i + 1) \div 2 \in 1 .. both
         /\ i % 2 # 1 => i \div 2 \in 1 .. both
  BY <1>2
<1>4. \A i \in 1 .. both : a[i] \in V /\ b[i] \in V
  BY <1>1, <1>2
<1>5. turns \in [1 .. 2 * both -> V]
  BY <1>3, <1>4
<1>6. turns \in Seq(V)
  BY <1>2, <1>5
<1>7. SubSeq(a, both + 1, Len(a)) \in Seq(V) /\ SubSeq(b, both + 1, Len(b)) \in Seq(V)
  <2>1. SubSeq(a, both + 1, Len(a)) \in Seq(V)
    BY <1>1, <1>2
  <2>2. SubSeq(b, both + 1, Len(b)) \in Seq(V)
    BY <1>1, <1>2
  <2> QED
    BY <2>1, <2>2
<1> HIDE DEF turns
<1>8. (turns \o SubSeq(a, both + 1, Len(a))) \o SubSeq(b, both + 1, Len(b)) \in Seq(V)
  BY <1>6, <1>7
<1> QED
  BY <1>8 DEF Race!InterleaveFrom, turns, both, a, b

LEMMA CandidatesAreAddresses ==
    ASSUME Race!HappyEyeballsAssumption, NEW list \in Race!Candidates
    PROVE  list \in Seq(V6 \cup V4) /\ Len(list) > 0
<1>1. PICK six \in Race!Lists(V6), four \in Race!Lists(V4), v6_first \in BOOLEAN :
         list = Race!UpTo(MaxCandidates, Race!InterleaveFrom(six, four, v6_first)) /\ list # <<>>
  BY DEF Race!Candidates
<1>2. six \in Seq(V6) /\ four \in Seq(V4)
  BY ListsAreSequences DEF Race!HappyEyeballsAssumption
<1>3. six \in Seq(V6 \cup V4) /\ four \in Seq(V6 \cup V4)
  BY <1>2
<1> DEFINE all == Race!InterleaveFrom(six, four, v6_first)
<1>4. all \in Seq(V6 \cup V4)
  BY <1>3, InterleavedIsSequence
<1> HIDE DEF all
<1>5. Race!UpTo(MaxCandidates, all) \in Seq(V6 \cup V4)
  BY <1>4 DEF Race!UpTo, Race!HappyEyeballsAssumption
<1>6. list \in Seq(V6 \cup V4) /\ list # <<>>
  BY <1>1, <1>5 DEF all
<1> QED
  BY <1>6

LEMMA RaceStarts == Race!HappyEyeballsAssumption /\ Race!Init => Race!RaceInv
<1> DEFINE addrs == v4
<1> SUFFICES ASSUME Race!HappyEyeballsAssumption, Race!Init PROVE Race!RaceInv
  OBVIOUS
<1>1. addrs \in Seq(V6 \cup V4) /\ Len(addrs) > 0
  BY CandidatesAreAddresses DEF Race!Init
<1>2. Race!Cardinality({}) = 0
  BY RaceSizes, FS_EmptySet
<1>3. None \notin {"error", "timeout"}
  BY DEF Race!HappyEyeballsAssumption
<1> QED
  BY <1>1, <1>2, <1>3 DEF Race!Init, Race!RaceInv, Race!RaceTypes, Race!FailsForCause,
     Race!WaitCanEnd, Race!PendingAccounted, Race!TimerSet

LEMMA RaceKept ==
    ASSUME Race!HappyEyeballsAssumption, Race!RaceInv, [Race!Next]_(Race!vars) PROVE Race!RaceInv'
<1> DEFINE pc == v1  round == v2  stale == v3  addrs == v4  deadline == v5  launched == v6
           pending == v7  trying == v8  rx == v9  failed == v10  stagger_over == v11
           deadline_over == v12  result == v13
<1>0. /\ None \notin {"error", "timeout"} /\ \A a \in V6 \cup V4 : a \notin {"error", "timeout"}
  BY DEF Race!HappyEyeballsAssumption
<1>t. Race!IsFiniteSet(trying) /\ Race!Cardinality(trying) \in Nat
      /\ (Race!Cardinality(trying) = 0 => trying = {})
  <2>1. Race!IsFiniteSet(1 .. launched)
    BY RaceSizes, FS_Interval DEF Race!RaceInv, Race!RaceTypes
  <2> QED
    BY RaceSizes, <2>1, FS_Subset, FS_CardinalityType, FS_EmptySet
       DEF Race!RaceInv, Race!RaceTypes
<1>1. CASE Race!Launch
  <2>1. CASE Race!ShouldLaunch
    <3>1. /\ pc = "loop" /\ pc' = "wait" /\ trying' = trying \cup {launched + 1} /\ launched'
               = launched + 1
          /\ pending' = pending + 1
          /\ UNCHANGED <<round, stale, addrs, deadline, rx, failed, deadline_over, result>>
      BY <1>1, <2>1 DEF Race!Launch
    <3>2. launched + 1 \in 1 .. Len(addrs) /\ launched + 1 \notin trying
      BY <2>1 DEF Race!RaceInv, Race!RaceTypes, Race!ShouldLaunch
    <3>3. Race!Cardinality(trying') = Race!Cardinality(trying) + 1
      BY RaceSizes, <1>t, <3>1, <3>2, FS_AddElement
    <3>4. Race!RaceTypes'
      <4>1. launched' \in 0 .. Len(addrs) /\ trying' \subseteq 1 .. launched' /\ failed
              \subseteq 1 .. launched'
        BY <3>1, <3>2 DEF Race!RaceInv, Race!RaceTypes
      <4>2. \A j \in DOMAIN rx : rx[j].index \in 1 .. launched'
        BY <3>1 DEF Race!RaceInv, Race!RaceTypes
      <4>3. pending' \in Int
        BY <3>1 DEF Race!RaceInv, Race!RaceTypes
      <4> QED
        BY <3>1, <4>1, <4>2, <4>3 DEF Race!RaceInv, Race!RaceTypes
    <3>5. Race!PendingAccounted' /\ pending' > 0
      <4>1. pending = Race!Cardinality(trying) + Len(rx) /\ Len(rx) \in Nat
        BY <3>1 DEF Race!RaceInv, Race!RaceTypes, Race!PendingAccounted
      <4>2. pending' = Race!Cardinality(trying') + Len(rx') /\ pending' > 0
        BY <1>t, <3>1, <3>3, <4>1
      <4> QED
        BY <4>2 DEF Race!PendingAccounted
    <3>6. \A i \in 1 .. launched' : i \in trying' \/ i \in failed' \/ Race!Sent(i)'
      BY <3>1 DEF Race!RaceInv, Race!RaceTypes, Race!Sent
    <3> QED
      BY <1>0, <3>1, <3>4, <3>5, <3>6 DEF Race!RaceInv, Race!FailsForCause, Race!WaitCanEnd
  <2>2. CASE ~ Race!ShouldLaunch
    BY <1>1, <2>2 DEF Race!Launch, Race!RaceInv, Race!RaceTypes, Race!FailsForCause,
       Race!WaitCanEnd, Race!TimerSet, Race!PendingAccounted, Race!Sent
  <2> QED
    BY <2>1, <2>2
<1>2. CASE Race!Receive
  <2>1. /\ pc = "wait" /\ rx # <<>> /\ rx' = Tail(rx)
        /\ UNCHANGED <<round, stale, addrs, deadline, launched, trying, stagger_over,
             deadline_over>>
    BY <1>2 DEF Race!Receive
  <2>2. /\ rx' \in Seq([index : Nat, ok : BOOLEAN]) /\ Len(rx) \in Nat /\ Len(rx) > 0
        /\ DOMAIN rx = 1 .. Len(rx) /\ DOMAIN rx' = 1 .. Len(rx) - 1
        /\ Len(rx') = Len(rx) - 1 /\ \A j \in 1 .. Len(rx) - 1 : rx'[j] = rx[j + 1]
        /\ Head(rx) = rx[1] /\ rx[1].index \in 1 .. launched
        /\ \A j \in DOMAIN rx' : rx'[j].index \in 1 .. launched
    <3>1. rx \in Seq([index : Nat, ok : BOOLEAN])
      BY DEF Race!RaceInv, Race!RaceTypes
    <3>2. /\ rx' \in Seq([index : Nat, ok : BOOLEAN]) /\ Len(rx) \in Nat /\ Len(rx) > 0
          /\ DOMAIN rx = 1 .. Len(rx) /\ DOMAIN rx' = 1 .. Len(rx) - 1
          /\ Len(rx') = Len(rx) - 1 /\ \A j \in 1 .. Len(rx) - 1 : rx'[j] = rx[j + 1]
          /\ Head(rx) = rx[1]
      BY <2>1, <3>1
    <3>3. \A j \in 1 .. Len(rx) : rx[j].index \in 1 .. launched
      BY <3>2 DEF Race!RaceInv, Race!RaceTypes
    <3>4. \A j \in DOMAIN rx' : j + 1 \in 1 .. Len(rx) /\ rx'[j] = rx[j + 1]
      <4> DEFINE n == Len(rx)
      <4>1. n \in Nat /\ DOMAIN rx' = 1 .. n - 1 /\ \A j \in 1 .. n - 1 : rx'[j] = rx[j + 1]
        BY <3>2
      <4> HIDE DEF n
      <4>2. \A j \in 1 .. n - 1 : j + 1 \in 1 .. n
        BY <4>1
      <4> QED
        BY <4>1, <4>2 DEF n
    <3> QED
      BY <3>2, <3>3, <3>4
  <2>3. CASE Head(rx).ok
    <3>1. pc' = "done" /\ result' = addrs[Head(rx).index] /\ UNCHANGED <<pending, failed>>
      BY <1>2, <2>3 DEF Race!Receive
    <3>2. addrs[Head(rx).index] \in V6 \cup V4
      BY <2>2 DEF Race!RaceInv, Race!RaceTypes
    <3>3. Race!FailsForCause'
      BY <1>0, <3>1, <3>2 DEF Race!FailsForCause
    <3> QED
      BY <2>1, <2>2, <3>1, <3>3 DEF Race!RaceInv, Race!RaceTypes, Race!WaitCanEnd,
         Race!PendingAccounted
  <2>4. CASE ~ Head(rx).ok
    <3>1. /\ pending' = pending - 1 /\ failed' = failed \cup {Head(rx).index}
          /\ IF pending' = 0 /\ launched = Len(addrs)
             THEN pc' = "failed" /\ result' = "error" ELSE pc' = "loop" /\ UNCHANGED result
      BY <1>2, <2>4 DEF Race!Receive
    <3>2. pending' = Race!Cardinality(trying') + Len(rx') /\ pending' \in Nat
      BY <1>t, <2>1, <2>2, <3>1 DEF Race!RaceInv, Race!RaceTypes, Race!PendingAccounted
    <3>3. \A i \in 1 .. launched' : i \in trying' \/ i \in failed' \/ Race!Sent(i)'
      <4>1. SUFFICES ASSUME NEW i \in 1 .. launched, Race!Sent(i), i # rx[1].index
            PROVE Race!Sent(i)'
        BY <2>1, <2>2, <3>1 DEF Race!RaceInv
      <4>2. PICK j \in DOMAIN rx : rx[j].index = i
        BY <4>1 DEF Race!Sent
      <4>3. j - 1 \in DOMAIN rx' /\ rx'[j - 1] = rx[j]
        BY <2>2, <4>1, <4>2
      <4> QED
        BY <4>2, <4>3 DEF Race!Sent
    <3>4. Race!RaceTypes'
      <4>1. failed' \subseteq 1 .. launched /\ pc' \in {"failed", "loop"}
        BY <2>2, <3>1 DEF Race!RaceInv, Race!RaceTypes
      <4> QED
        BY <2>1, <2>2, <3>2, <4>1 DEF Race!RaceInv, Race!RaceTypes
    <3>5. CASE pending' = 0 /\ launched = Len(addrs)
      <4>1. trying' = {} /\ Len(rx') = 0
        BY <1>t, <2>1, <2>2, <3>2, <3>5
      <4>2. DOMAIN rx' = {}
        BY <2>2, <4>1
      <4>3. \A i \in 1 .. launched : i \in failed'
        BY <2>1, <3>3, <4>1, <4>2 DEF Race!Sent
      <4>4. failed' = 1 .. launched
        BY <2>1, <3>4, <4>3 DEF Race!RaceTypes
      <4>5. pc' = "failed" /\ result' = "error"
        BY <3>1, <3>5
      <4> QED
        BY <2>1, <3>4, <3>5, <4>4, <4>5
           DEF Race!RaceInv, Race!FailsForCause, Race!WaitCanEnd, Race!PendingAccounted
    <3>6. CASE ~ (pending' = 0 /\ launched = Len(addrs))
      <4>1. pc' = "loop" /\ result' = None
        BY <2>1, <3>1, <3>6 DEF Race!RaceInv
      <4>2. pending' > 0 \/ launched' < Len(addrs')
        BY <2>1, <3>2, <3>6 DEF Race!RaceInv, Race!RaceTypes
      <4> QED
        BY <1>0, <3>2, <3>3, <3>4, <4>1, <4>2
           DEF Race!RaceInv, Race!FailsForCause, Race!WaitCanEnd, Race!PendingAccounted
    <3> QED
      BY <3>5, <3>6
  <2> QED
    BY <2>3, <2>4
<1>3. CASE Race!WaitIsOver
  <2>1. /\ pc = "wait" /\ (launched < Len(addrs) \/ (deadline /\ deadline_over))
        /\ IF deadline /\ deadline_over THEN pc' = "failed" /\ result' = "timeout"
           ELSE pc' = "loop" /\ UNCHANGED result
        /\ UNCHANGED <<round, stale, addrs, deadline, launched, pending, trying, rx, failed,
             stagger_over, deadline_over>>
    BY <1>3 DEF Race!WaitIsOver
  <2> QED
    BY <2>1 DEF Race!RaceInv, Race!RaceTypes, Race!FailsForCause, Race!WaitCanEnd,
       Race!PendingAccounted, Race!Sent
<1>4. CASE Race!Fail
  BY <1>4 DEF Race!Fail, Race!RaceInv, Race!RaceTypes, Race!FailsForCause, Race!WaitCanEnd,
     Race!PendingAccounted
<1>5. CASE Race!TimePasses
  BY <1>5 DEF Race!TimePasses, Race!RaceInv, Race!RaceTypes, Race!FailsForCause,
     Race!WaitCanEnd, Race!TimerSet, Race!PendingAccounted, Race!Sent
<1>6. ASSUME NEW list \in Race!Candidates, Race!Retry(list) PROVE Race!RaceInv'
  <2>1. list \in Seq(V6 \cup V4) /\ Len(list) > 0
    BY CandidatesAreAddresses
  <2>2. Race!Cardinality({}) = 0
    BY RaceSizes, FS_EmptySet
  <2> QED
    BY <1>0, <1>6, <2>1, <2>2
       DEF Race!Retry, Race!Race, Race!RaceInv, Race!RaceTypes, Race!FailsForCause,
         Race!WaitCanEnd, Race!PendingAccounted
<1>7. ASSUME NEW i \in trying, NEW ok \in BOOLEAN, Race!AttemptEnds(i, ok) PROVE Race!RaceInv'
  <2>1. /\ trying' = trying \ {i}
        /\ rx' = IF pc \in {"done", "failed"} THEN rx ELSE Append(rx, [index |-> i, ok |-> ok])
        /\ UNCHANGED <<pc, round, stale, addrs, deadline, launched, pending, failed,
             stagger_over, deadline_over, result>>
    BY <1>7 DEF Race!AttemptEnds
  <2>2. Race!Cardinality(trying') = Race!Cardinality(trying) - 1
    BY RaceSizes, <1>t, <2>1, FS_RemoveElement
  <2>3. i \in 1 .. launched /\ i \in Nat /\ rx \in Seq([index : Nat, ok : BOOLEAN])
    BY DEF Race!RaceInv, Race!RaceTypes
  <2>4. CASE pc \in {"done", "failed"}
    BY <2>1, <2>4 DEF Race!RaceInv, Race!RaceTypes, Race!FailsForCause, Race!WaitCanEnd,
       Race!TimerSet, Race!PendingAccounted
  <2>5. CASE pc \notin {"done", "failed"}
    <3>1. rx' = Append(rx, [index |-> i, ok |-> ok])
      BY <2>1, <2>5
    <3>2. /\ rx' \in Seq([index : Nat, ok : BOOLEAN]) /\ Len(rx') = Len(rx) + 1 /\ DOMAIN rx'
               = 1 .. Len(rx) + 1
          /\ Len(rx) \in Nat /\ rx'[Len(rx) + 1].index = i
          /\ \A j \in DOMAIN rx : j \in DOMAIN rx' /\ rx'[j] = rx[j]
      BY <2>3, <3>1
    <3>3. Len(rx) + 1 \in DOMAIN rx'
      BY <3>2
    <3>4. \A k \in 1 .. launched : k \in trying' \/ k \in failed' \/ Race!Sent(k)'
      BY <2>1, <2>5, <3>2, <3>3 DEF Race!RaceInv, Race!RaceTypes, Race!Sent
    <3>5. Race!PendingAccounted'
      BY <1>t, <2>1, <2>2, <3>2 DEF Race!RaceInv, Race!RaceTypes, Race!PendingAccounted
    <3>6. \A j \in DOMAIN rx' : rx'[j].index \in 1 .. launched
      <4>1. DOMAIN rx = 1 .. Len(rx) /\ \A j \in DOMAIN rx : rx[j].index \in 1 .. launched
        BY <2>3 DEF Race!RaceInv, Race!RaceTypes
      <4>2. \A j \in DOMAIN rx' : j \in DOMAIN rx \/ j = Len(rx) + 1
        BY <3>2, <4>1
      <4> QED
        BY <2>3, <3>2, <4>1, <4>2
    <3>7. Race!RaceTypes'
      BY <2>1, <3>2, <3>6 DEF Race!RaceInv, Race!RaceTypes
    <3> QED
      BY <2>1, <2>5, <3>4, <3>5, <3>7
         DEF Race!RaceInv, Race!FailsForCause, Race!WaitCanEnd, Race!TimerSet
  <2> QED
    BY <2>4, <2>5
<1>8. CASE UNCHANGED Race!vars
  BY <1>8 DEF Race!vars, Race!RaceInv, Race!RaceTypes, Race!FailsForCause, Race!WaitCanEnd,
     Race!TimerSet, Race!PendingAccounted, Race!Sent
<1> QED
  BY <1>1, <1>2, <1>3, <1>4, <1>5, <1>6, <1>7, <1>8 DEF Race!Next

LEMMA RaceInductive == Spec => []RaceInv
<1>1. Init => RaceInv
  BY RaceAssumption, RaceStarts DEF Init, RaceInv
<1>2. RaceInv /\ [Next]_vars => RaceInv'
  <2> SUFFICES ASSUME RaceInv, [Next]_vars, part' = "race" PROVE Race!RaceInv'
    BY DEF RaceInv
  <2>1. part = "race"
    BY SamePart
  <2>2. [Race!Next]_(Race!vars)
    BY <2>1
       DEF Next, MemStep, FiltersStep, DoorStep, ShotsStep, AnswersStep, RowStep, MoneyStep,
           PoolStep, ResolverStep, DnsStep, RaceStep, PolicyStep, RelayStep, vars, Race!vars
  <2>3. Race!RaceInv
    BY <2>1 DEF RaceInv
  <2> QED
    BY RaceAssumption, <2>2, <2>3, RaceKept
<1> QED
  BY <1>1, <1>2, PTL DEF Spec

-----------------------------------------------------------------------------
\* For or against IPv6.
LEMMA PolicyStarts == Policy!Ipv6PolicyAssumption /\ Policy!Init => Policy!PolicyInv
BY DEF Policy!Ipv6PolicyAssumption, Policy!Init, Policy!PolicyInv, Policy!PolicyTypes,
   Policy!Falling, Policy!Rest

LEMMA PolicyKept ==
    ASSUME Policy!Ipv6PolicyAssumption, Policy!PolicyInv, [Policy!Next]_(Policy!vars)
    PROVE Policy!PolicyInv'
<1> DEFINE wins == v1  loss_streak == v2  probe_at == v3  canary_at == v4  canary_ok == v5
           now == v6  op == v7  probes == v8
<1> USE DEF Policy!PolicyInv, Policy!PolicyTypes, Policy!Falling, Policy!Fallen
<1>0. LossLimit \in Nat /\ ProbeSecs \in Nat /\ LossLimit > 0 /\ ProbeSecs > 0
  BY DEF Policy!Ipv6PolicyAssumption
<1>1. ASSUME NEW t \in Threads, Policy!Win(t) PROVE Policy!PolicyInv'
  BY <1>0, <1>1 DEF Policy!Win
<1>2. ASSUME NEW t \in Threads, Policy!Won(t) PROVE Policy!PolicyInv'
  BY <1>0, <1>2 DEF Policy!Won, Policy!Rest
<1>3. ASSUME NEW t \in Threads, Policy!Loss(t) PROVE Policy!PolicyInv'
  <2>1. /\ op[t].pc = "rest" /\ UNCHANGED <<wins, probe_at, canary_at, now, probes>>
        /\ loss_streak' = IF loss_streak > LossLimit THEN loss_streak ELSE loss_streak + 1
    BY <1>3 DEF Policy!Loss
  <2>2. loss_streak' \in Nat /\ (Policy!Fallen => Policy!Fallen')
    BY <1>0, <2>1
  <2>3. CASE loss_streak + 1 = LossLimit /\ wins = 0
    <3>1. ~ Policy!Fallen /\ Policy!Fallen'
      BY <1>0, <2>1, <2>3
    <3>2. Policy!Falling = {} /\ probes.last = 0 /\ probes.early = 0
      BY <3>1
    <3>3. op' = [op EXCEPT ![t] = [pc |-> "fell", now |-> now, at |-> 0]]
      BY <1>3, <2>3 DEF Policy!Loss
    <3> HIDE DEF Policy!Fallen
    <3>4. Policy!Falling' = {t} /\ \A u \in Threads \ {t} : op'[u] = op[u]
      BY <3>2, <3>3
    <3> QED
      BY <2>1, <2>2, <3>1, <3>2, <3>3, <3>4
  <2>4. CASE ~ (loss_streak + 1 = LossLimit /\ wins = 0)
    <3>1. op' = op /\ Policy!Falling' = Policy!Falling
      BY <1>3, <2>4 DEF Policy!Loss
    <3> HIDE DEF Policy!Fallen
    <3> QED
      BY <2>1, <2>2, <3>1
  <2> QED
    BY <2>3, <2>4
<1>4. ASSUME NEW t \in Threads, Policy!Fell(t) PROVE Policy!PolicyInv'
  <2>1. probes.early = 0 /\ Policy!Falling' = {}
    BY <1>4 DEF Policy!Fell, Policy!Rest
  <2> QED
    BY <1>0, <1>4, <2>1 DEF Policy!Fell, Policy!Rest
<1>5. ASSUME NEW t \in Threads, Policy!Look(t) \/ Policy!Clock(t) PROVE Policy!PolicyInv'
  BY <1>0, <1>5 DEF Policy!Look, Policy!V4First, Policy!Clock
<1>10. ASSUME NEW t \in Threads, Policy!AskCanary(t) PROVE Policy!PolicyInv'
  <2>1. \/ op' = [op EXCEPT ![t] = Policy!Rest]
        \/ op' = [op EXCEPT ![t] = [op[t] EXCEPT !.pc = "load"]]
    BY <1>10 DEF Policy!AskCanary
  <2> QED
    BY <1>0, <1>10, <2>1 DEF Policy!AskCanary, Policy!Rest
<1>11. ASSUME NEW t \in Threads, Policy!LoadAt(t) PROVE Policy!PolicyInv'
  <2>1. /\ op[t].pc = "load"
        /\ UNCHANGED <<wins, loss_streak, probe_at, canary_at, canary_ok, now, probes>>
        /\ op' = [op EXCEPT ![t] = IF op[t].now < probe_at THEN Policy!Rest
                                   ELSE [op[t] EXCEPT !.pc = "probe", !.at = probe_at]]
    BY <1>11, Zenon DEF Policy!LoadAt
  <2>2. CASE op[t].now < probe_at
    <3>1. op' = [op EXCEPT ![t] = Policy!Rest]
      BY <2>1, <2>2
    <3> QED
      BY <1>0, <2>1, <3>1 DEF Policy!Rest
  <2>3. CASE ~ (op[t].now < probe_at)
    <3>1. op' = [op EXCEPT ![t] = [op[t] EXCEPT !.pc = "probe", !.at = probe_at]]
      BY <2>1, <2>3
    <3>2. op[t].now \in Nat /\ probe_at \in Nat /\ op[t].now >= probe_at
      BY <2>3
    <3> DEFINE it == [op[t] EXCEPT !.pc = "probe", !.at = probe_at]
    <3>3. /\ it \in [pc : {"rest", "won", "fell", "look", "clock", "load", "probe"}, now : Nat,
               at : Nat]
          /\ it.pc = "probe" /\ it.now = op[t].now /\ it.at = probe_at
      BY <3>2
    <3>4. op' = [op EXCEPT ![t] = it] /\ Policy!Fallen /\ op[t].now > 0
      BY <2>1, <3>1
    <3> HIDE DEF it
    <3> QED
      BY <1>0, <2>1, <3>2, <3>3, <3>4
  <2> QED
    BY <2>2, <2>3
<1>6. ASSUME NEW t \in Threads, Policy!Reserve(t) PROVE Policy!PolicyInv'
  <2>1. CASE probe_at = op[t].at
    <3>1. Policy!Falling' = Policy!Falling
      BY <1>6 DEF Policy!Reserve, Policy!Rest
    <3>2. probes' = [last |-> op[t].now,
                     early |-> IF probes.last # 0 /\ op[t].now < probes.last + ProbeSecs
                               THEN probes.early + 1 ELSE probes.early]
      BY <1>6, <2>1 DEF Policy!Reserve, Policy!Probed
    <3>3. op[t].now \in Nat /\ op[t].now >= probe_at /\ op[t].now > 0 /\ Policy!Fallen
      BY <1>6, <2>1 DEF Policy!Reserve
    <3>4. probe_at' = op[t].now + ProbeSecs /\ probes'.last = op[t].now
      BY <1>6, <2>1, <3>2 DEF Policy!Reserve
    <3>5. /\ probes'.early \in Nat /\ probes'.early <= 1
          /\ Policy!Falling # {} => probes'.early = 0
      BY <1>0, <3>2, <3>3
    <3> QED
      BY <1>0, <1>6, <3>1, <3>2, <3>3, <3>4, <3>5 DEF Policy!Reserve, Policy!Rest
  <2>2. CASE probe_at # op[t].at
    BY <1>0, <1>6, <2>2 DEF Policy!Reserve, Policy!Rest
  <2> QED
    BY <2>1, <2>2
<1>7. ASSUME NEW connected \in BOOLEAN, Policy!Canary(connected) PROVE Policy!PolicyInv'
  BY <1>7 DEF Policy!Canary
<1>8. CASE Policy!Tick
  BY <1>8 DEF Policy!Tick
<1>9. CASE UNCHANGED Policy!vars
  BY <1>9 DEF Policy!vars
<1> QED
  BY <1>1, <1>2, <1>3, <1>4, <1>5, <1>6, <1>7, <1>8, <1>9, <1>10, <1>11 DEF Policy!Next

LEMMA PolicyInductive == Spec => []PolicyInv
<1>1. Init => PolicyInv
  BY PolicyAssumption, PolicyStarts DEF Init, PolicyInv
<1>2. PolicyInv /\ [Next]_vars => PolicyInv'
  <2> SUFFICES ASSUME PolicyInv, [Next]_vars, part' = "policy" PROVE Policy!PolicyInv'
    BY DEF PolicyInv
  <2>1. part = "policy"
    BY SamePart
  <2>2. [Policy!Next]_(Policy!vars)
    BY <2>1
       DEF Next, MemStep, FiltersStep, DoorStep, ShotsStep, AnswersStep, RowStep, MoneyStep,
           PoolStep, ResolverStep, DnsStep, RaceStep, PolicyStep, RelayStep, vars, Policy!vars
  <2>3. Policy!PolicyInv
    BY <2>1 DEF PolicyInv
  <2> QED
    BY PolicyAssumption, <2>2, <2>3, PolicyKept
<1> QED
  BY <1>1, <1>2, PTL DEF Spec

\* A race of attempts fails for cause only, however its results and its timers come, and every wait of
\* it can end; and however many threads connect at a time, requests are made to wait for IPv6 once in
\* a while only, but for one of them ever (race, Ipv6Policy).
THEOREM RaceAlwaysFair == Spec => []RaceIsFair
<1>1. RaceInv /\ part = "race" => Race!FailsForCause /\ Race!WaitCanEnd /\ Race!PendingAccounted
  BY DEF RaceInv, Race!RaceInv
<1>2. PolicyInv /\ part = "policy" => Policy!ProbesAreSpaced
  BY DEF PolicyInv, Policy!PolicyInv, Policy!ProbesAreSpaced
<1>3. RaceInv /\ PolicyInv => RaceIsFair
  BY <1>1, <1>2 DEF RaceIsFair
<1> QED
  BY <1>3, RaceInductive, PolicyInductive, PTL

-----------------------------------------------------------------------------
\* Tunnels.
LEMMA RelayStarts == Relay!Init => Relay!TunnelInv
BY DEF Relay!Init, Relay!TunnelInv, Relay!TunnelTypes, Relay!NothingToPassOn, Relay!Sides,
   Relay!Other

LEMMA RelayPromise ==
    ASSUME Relay!TunnelInv PROVE Relay!EndComesLast /\ Relay!ParkedIsQuiet /\ Relay!WaitsForAll
<1> DEFINE pc == v1  pending == v4  src_eof == v6  done == v7  shut == v18
<1> USE DEF Relay!Sides, Relay!Other
<1>1. Relay!EndComesLast
  BY DEF Relay!TunnelInv, Relay!TunnelTypes, Relay!EndComesLast
<1>2. Relay!ParkedIsQuiet
  <2> SUFFICES ASSUME pc \in {"idle", "parked"}
               PROVE  \A d \in {0, 1} : pending[d] = 0 /\ (src_eof[d] => done[d]) /\ shut = {}
    BY DEF Relay!ParkedIsQuiet
  <2>1. \A d \in {0, 1} : ~done[d] /\ ~src_eof[d] /\ pending[d] = 0
        /\ (done[d] <=> 1 - d \in shut)
    BY DEF Relay!TunnelInv
  <2>2. 0 \notin shut /\ 1 \notin shut /\ shut \subseteq {0, 1}
    BY <2>1 DEF Relay!TunnelInv, Relay!TunnelTypes
  <2> QED
    BY <2>1, <2>2
<1>3. Relay!WaitsForAll
  BY DEF Relay!TunnelInv, Relay!TunnelTypes, Relay!WaitsForAll, Relay!NothingToPassOn,
     Relay!Reads, Relay!Writes
<1> QED
  BY <1>1, <1>2, <1>3

LEMMA RelayKept ==
    ASSUME Relay!TunnelAssumption, Relay!TunnelInv, [Relay!Next]_(Relay!vars)
    PROVE Relay!TunnelInv'
<1> DEFINE pc == v1  dir == v2  moving == v3  pending == v4  readable == v5  src_eof == v6
           done == v7  sent == v11  inbox == v12  fin == v13  broken == v14  room == v15
           moved == v16  dropped == v17  shut == v18
<1> USE DEF Relay!Sides, Relay!Other, Relay!TunnelInv, Relay!TunnelTypes, Relay!NothingToPassOn,
      Relay!dirs, Relay!conf, Relay!peers, Relay!ghost
<1>0. PipeBytes \in Nat
  BY DEF Relay!TunnelAssumption
<1>1. ASSUME NEW s \in Relay!Sides, Relay!PeerSends(s) PROVE Relay!TunnelInv'
  BY <1>0, <1>1 DEF Relay!PeerSends
<1>2. ASSUME NEW s \in Relay!Sides, Relay!PeerEnds(s) PROVE Relay!TunnelInv'
  <2>1. CASE ~fin[s] /\ fin' = [fin EXCEPT ![s] = TRUE] /\ UNCHANGED <<inbox, broken>>
    BY <1>2, <2>1 DEF Relay!PeerEnds
  <2>2. CASE broken' = [broken EXCEPT ![s] = TRUE] /\ UNCHANGED <<inbox, fin>>
    BY <1>2, <2>2 DEF Relay!PeerEnds
  <2> QED
    BY <1>2, <2>1, <2>2 DEF Relay!PeerEnds
<1>3. ASSUME NEW s \in Relay!Sides, Relay!PeerReads(s) PROVE Relay!TunnelInv'
  BY <1>3 DEF Relay!PeerReads
<1>4. CASE Relay!Open
  BY <1>0, <1>4 DEF Relay!Open
<1>5. CASE Relay!Fill
  <2> DEFINE d == dir
             reads == ~done[d] /\ ~src_eof[d] /\ pending[d] = 0 /\ readable[d]
  <2>1. /\ pc = "fill" /\ pc' = "drain"
        /\ UNCHANGED <<dir, done, sent, fin, broken, room, moved, dropped, shut>>
    BY <1>5 DEF Relay!Fill
  <2>2. CASE /\ reads /\ inbox[d] > 0 /\ ~broken[d]
             /\ \E n \in 1 .. inbox[d] :
                  pending' = [pending EXCEPT ![d] = n] /\ inbox' = [inbox EXCEPT ![d] = @ - n]
             /\ moving' = TRUE /\ UNCHANGED <<readable, src_eof>>
    <3>1. PICK n \in 1 .. inbox[d] :
             pending' = [pending EXCEPT ![d] = n] /\ inbox' = [inbox EXCEPT ![d] = @ - n]
      BY <2>2
    <3>2. inbox'[d] = inbox[d] - n /\ inbox'[d] \in Nat /\ pending'[d] = n /\ n \in Nat /\ n > 0
      BY <3>1
    <3> QED
      BY <2>1, <2>2, <3>1, <3>2
  <2>3. CASE /\ reads /\ (broken[d] \/ (fin[d] /\ inbox[d] = 0))
             /\ src_eof' = [src_eof EXCEPT ![d] = TRUE]
             /\ moving' = TRUE /\ UNCHANGED <<readable, pending, inbox>>
    BY <2>1, <2>3
  <2>4. CASE /\ reads /\ readable' = [readable EXCEPT ![d] = FALSE]
             /\ UNCHANGED <<moving, pending, src_eof, inbox>>
    BY <2>1, <2>4
  <2>5. CASE ~reads /\ UNCHANGED <<moving, pending, readable, src_eof, inbox>>
    BY <2>1, <2>5
  <2> QED
    BY <1>5, <2>2, <2>3, <2>4, <2>5 DEF Relay!Fill
<1>6. CASE Relay!Drain
  <2> DEFINE d == dir
             to == 1 - dir
  <2>1. /\ pc = "drain" /\ UNCHANGED <<dir, readable, done, sent, inbox, fin, broken, shut>>
    BY <1>6 DEF Relay!Drain
  <2>2. CASE /\ pending[d] > 0 /\ broken[to]
             /\ dropped' = [dropped EXCEPT ![d] = @ + pending[d]]
             /\ pending' = [pending EXCEPT ![d] = 0]
             /\ src_eof' = [src_eof EXCEPT ![d] = TRUE]
             /\ pc' = "finish" /\ UNCHANGED <<room, moved>>
    BY <2>1, <2>2
  <2>3. CASE /\ pending[d] > 0 /\ ~broken[to]
             /\ \E n \in 1 .. pending[d], full \in BOOLEAN :
                  /\ pending' = [pending EXCEPT ![d] = @ - n]
                  /\ moved' = [moved EXCEPT ![d] = @ + n]
                  /\ room' = [room EXCEPT ![to] = ~full]
             /\ UNCHANGED <<pc, src_eof, dropped>>
    <3>1. PICK n \in 1 .. pending[d], full \in BOOLEAN :
             /\ pending' = [pending EXCEPT ![d] = @ - n]
             /\ moved' = [moved EXCEPT ![d] = @ + n]
             /\ room' = [room EXCEPT ![to] = ~full]
      BY <2>3
    <3>2. pending'[d] = pending[d] - n /\ pending'[d] \in Nat /\ moved'[d] = moved[d] + n
          /\ moved'[d] \in Nat
      BY <3>1
    <3>3. ~done[d]
      BY <2>3
    <3> QED
      BY <2>1, <2>3, <3>1, <3>2, <3>3
  <2>4. CASE pc' = "finish" /\ UNCHANGED <<moving, pending, src_eof, room, moved, dropped>>
    BY <2>1, <2>4
  <2> QED
    BY <1>6, <2>2, <2>3, <2>4 DEF Relay!Drain
<1>7. CASE Relay!Finish
  <2> DEFINE ends == ~done[dir] /\ src_eof[dir] /\ pending[dir] = 0
  <2>1. /\ pc = "finish"
        /\ UNCHANGED <<pending, readable, src_eof, sent, inbox, fin, broken, room, moved,
             dropped>>
        /\ IF ends THEN shut' = shut \cup {1 - dir} /\ done' = [done EXCEPT ![dir] = TRUE]
                   ELSE UNCHANGED <<shut, done>>
    BY <1>7 DEF Relay!Finish
  <2>2. /\ done' \in [Relay!Sides -> BOOLEAN] /\ shut' \subseteq Relay!Sides
        /\ \A d \in Relay!Sides : (done'[d] <=> 1 - d \in shut')
           /\ (done'[d] => src_eof[d] /\ pending[d] = 0)
        /\ ~done'[dir] /\ src_eof[dir] => pending[dir] > 0
        /\ \A d \in Relay!Sides \ {dir} : done'[d] = done[d]
    <3>1. CASE ends
      <4>1. shut' = shut \cup {1 - dir} /\ done' = [done EXCEPT ![dir] = TRUE]
        BY <2>1, <3>1
      <4>2. \A d \in Relay!Sides : 1 - d \in Relay!Sides /\ (1 - d = 1 - dir <=> d = dir)
        OBVIOUS
      <4>3. done' \in [Relay!Sides -> BOOLEAN] /\ done'[dir] = TRUE
            /\ \A d \in Relay!Sides \ {dir} : done'[d] = done[d]
        BY <4>1
      <4>4. shut' \subseteq Relay!Sides /\ \A d \in Relay!Sides : 1 - d \in shut' <=> 1
              - d \in shut \/ d = dir
        BY <4>1, <4>2
      <4>5. \A d \in Relay!Sides : (done[d] <=> 1 - d \in shut)
            /\ (done[d] => src_eof[d] /\ pending[d] = 0)
        OBVIOUS
      <4> QED
        BY <3>1, <4>3, <4>4, <4>5
    <3>2. CASE ~ends
      <4>1. shut' = shut /\ done' = done
        BY <2>1, <3>2
      <4>2. ~done[dir] /\ src_eof[dir] => pending[dir] > 0
        BY <3>2
      <4> QED
        BY <4>1, <4>2
    <3> QED
      BY <3>1, <3>2
  <2>3. CASE dir = 0
    <3>1. pc' = "fill" /\ dir' = 1
      BY <1>7, <2>3 DEF Relay!Finish
    <3> QED
      BY <2>1, <2>2, <2>3, <3>1
  <2>4. CASE dir # 0
    <3>1. dir = 1 /\ dir' = 0 /\ pc' \in {"closed", "fill", "poll"}
      BY <1>7, <2>4 DEF Relay!Finish
    <3>2. \A d \in Relay!Sides : Relay!NothingToPassOn(d)'
      BY <2>1, <2>2, <3>1
    <3>3. \A d \in Relay!Sides :
             /\ sent[d] = inbox[d] + pending[d] + moved[d] + dropped[d]
             /\ dropped[d] > 0 => broken[Relay!Other(d)]
             /\ src_eof[d] => broken[d] \/ broken[Relay!Other(d)] \/ (fin[d] /\ inbox[d] = 0)
      OBVIOUS
    <3>4. Relay!TunnelTypes'
      BY <2>1, <2>2, <3>1
    <3> HIDE DEF Relay!NothingToPassOn, Relay!TunnelTypes
    <3> QED
      BY <2>1, <2>2, <3>1, <3>2, <3>3, <3>4
  <2> QED
    BY <2>3, <2>4
<1>8. CASE Relay!PollReady
  BY <1>8 DEF Relay!PollReady
<1>9. CASE Relay!PollTimesOut
  BY <1>9 DEF Relay!PollTimesOut, Relay!Parkable, Relay!Quiet
<1>10. CASE Relay!Park
  BY <1>10 DEF Relay!Park
<1>11. CASE Relay!Resume
  BY <1>11 DEF Relay!Resume
<1>12. CASE Relay!Expire
  BY <1>12 DEF Relay!Expire
<1>13. CASE UNCHANGED Relay!vars
  BY <1>13 DEF Relay!vars
<1> QED
  BY <1>1, <1>2, <1>3, <1>4, <1>5, <1>6, <1>7, <1>8, <1>9, <1>10, <1>11, <1>12, <1>13
     DEF Relay!Next

LEMMA RelayInductive == Spec => []RelayInv
<1>1. Init => RelayInv
  BY RelayAssumption, RelayStarts DEF Init, RelayInv
<1>2. RelayInv /\ [Next]_vars => RelayInv'
  <2> SUFFICES ASSUME RelayInv, [Next]_vars, part' = "tunnel" PROVE Relay!TunnelInv'
    BY DEF RelayInv
  <2>1. part = "tunnel"
    BY SamePart
  <2>2. [Relay!Next]_(Relay!vars)
    BY <2>1
       DEF Next, MemStep, FiltersStep, DoorStep, ShotsStep, AnswersStep, RowStep, MoneyStep,
           PoolStep, ResolverStep, DnsStep, RaceStep, PolicyStep, RelayStep, vars, Relay!vars,
           Relay!dirs, Relay!conf, Relay!peers, Relay!ghost
  <2>3. Relay!TunnelInv
    BY <2>1 DEF RelayInv
  <2> QED
    BY RelayAssumption, <2>2, <2>3, RelayKept
<1> QED
  BY <1>1, <1>2, PTL DEF Spec

\* A tunnel passes on all bytes of each direction and then its end, and is parked only when it holds
\* none, whatever both peers send, take or break off (pump, relay).
THEOREM TunnelAlwaysTransparent == Spec => []TunnelIsTransparent
<1>1. RelayInv => TunnelIsTransparent
  BY RelayPromise DEF RelayInv, TunnelIsTransparent
<1> QED
  BY <1>1, RelayInductive, PTL

=============================================================================
