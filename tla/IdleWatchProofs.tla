-------------------------- MODULE IdleWatchProofs --------------------------
(***************************************************************************)
(* Theorems of module IdleWatch, for every lot of connections, every set   *)
(* of lifetimes, every batch size and every choice of faults.              *)
(*                                                                         *)
(* The lot is described by four tables that have to agree and by the place *)
(* of each connection.  A step leaves the lot alone, takes keys out of it  *)
(* or parks one connection: LotKept covers the first two kinds, and each   *)
(* action has only to show of which kind it is.                            *)
(***************************************************************************)
EXTENDS IdleWatch, FiniteSetTheorems, WellFoundedInduction, TLAPS

\* Among naturals there is a smallest one.
LEMMA SmallestOf ==
    ASSUME NEW T, T \subseteq Nat, T # {}
    PROVE  \E x \in T : \A y \in T : x <= y
<1> DEFINE R == StrictSubsetOrdering(Nat)
           F == {0..x : x \in T}
<1>1. F \subseteq FiniteSubsetsOf(Nat) /\ F # {}
  <2>1. \A x \in T : IsFiniteSet(0..x) /\ 0..x \subseteq Nat
    BY FS_Interval
  <2> QED
    BY <2>1 DEF FiniteSubsetsOf
<1>2. PICK I \in F : \A J \in F : <<J, I>> \notin R
  <2>1. IsWellFoundedOn(R, FiniteSubsetsOf(Nat))
    BY FS_StrictSubsetOrderingWellFounded
  <2> HIDE DEF R, F
  <2> QED
    BY <1>1, <2>1, WFMin
<1>3. PICK x \in T : I = 0..x
  BY <1>2
<1>4. ASSUME NEW y \in T PROVE x <= y
  <2>1. SUFFICES ASSUME y < x PROVE FALSE
    BY <1>3, <1>4
  <2>2. 0..y \subseteq 0..x /\ x \in 0..x /\ x \notin 0..y /\ 0..x \subseteq Nat
    BY <2>1
  <2>3. <<0..y, 0..x>> \in R
    BY <2>2 DEF StrictSubsetOrdering
  <2> QED
    BY <2>3, <1>2, <1>3
<1> QED
  BY <1>4

\* The earliest deadline is one of them, and no other is before it (BTreeSet::first).
LEMMA FirstIsFirst ==
    ASSUME NEW S, S \subseteq Nat \X Keys, S # {}
    PROVE  /\ First(S) \in S
           /\ \A q \in S : First(S)[1] <= q[1]
<1>0. Keys \subseteq Nat
  BY BatchAssumption DEF Keys
<1> DEFINE Times == {p[1] : p \in S}
<1>1. Times \subseteq Nat /\ Times # {}
  OBVIOUS
<1>2. PICK t \in Times : \A y \in Times : t <= y
  BY <1>1, SmallestOf
<1> DEFINE Named == {p[2] : p \in {q \in S : q[1] = t}}
<1>3. Named \subseteq Nat /\ Named # {}
  BY <1>0
<1>4. PICK k \in Named : \A y \in Named : k <= y
  BY <1>3, SmallestOf
<1>5. PICK p \in S : p[1] = t /\ p[2] = k
  BY <1>4
<1>6. \A q \in S : p = q \/ Earlier(p, q)
  <2> SUFFICES ASSUME NEW q \in S PROVE p = q \/ Earlier(p, q)
    OBVIOUS
  <2>1. p \in Nat \X Nat /\ q \in Nat \X Nat
    BY <1>0
  <2>2. p[1] <= q[1]
    BY <1>2, <1>5
  <2>3. p[1] = q[1] => p[2] <= q[2]
    BY <1>4, <1>5
  <2> HIDE DEF Times, Named
  <2> QED
    BY <2>1, <2>2, <2>3 DEF Earlier
<1>7. First(S) \in S /\ \A q \in S : First(S) = q \/ Earlier(First(S), q)
  BY <1>6 DEF First
<1>8. ASSUME NEW q \in S PROVE First(S)[1] <= q[1]
  <2>1. First(S) \in Nat \X Nat /\ q \in Nat \X Nat
    BY <1>0, <1>7
  <2> QED
    BY <1>7, <2>1 DEF Earlier
<1> QED
  BY <1>7, <1>8

-----------------------------------------------------------------------------
Places == {"worker", "parked", "handed", "expiring", "closed"}

EntriesTyped ==
    /\ DOMAIN entries \subseteq Keys
    /\ \A k \in DOMAIN entries : entries[k] \in [what : Conn, deadline : Nat]
    /\ nextKey \in 1..(MaxKey + 1)

ConnTyped ==
    /\ at \in [Conn -> Places] /\ signal \in [Fd -> {"none", "data", "gone"}]
    /\ fixed \subseteq Conn

WatcherTyped ==
    /\ watcher \in {"measure", "wait", "events", "expire", "down", "dead"}
    /\ until \in Nat \cup {None}

EventsTyped ==
    events \subseteq [key : Keys \cup {WakeToken}, fd : Fd \cup {None}, gone : BOOLEAN]

ClockTyped == ringing \subseteq Keys /\ now \in 0..MaxNow

FlagsTyped ==
    /\ alive \in BOOLEAN /\ bell \in BOOLEAN /\ flag \in BOOLEAN
    /\ starter \in {"starting", "started"}

\* A key is used once: what is parked, and the events of earlier stays, have older ones.
KeysAreOld ==
    /\ \A k \in DOMAIN entries : k < nextKey
    /\ \A e \in events : e.key < nextKey

\* The event of a connection that is still parked is about one of its own descriptors, and
\* what caused it is still there.
Caused ==
    \A e \in events : e.key \in DOMAIN entries =>
        e.fd \in FdsOf(entries[e.key].what) /\ signal[e.fd] # "none"

AliveIsKnown == (watcher = "dead" => ~alive) /\ (watcher # "dead" => alive)

Lot == EntriesTyped /\ BooksAgree /\ OneCustodian /\ KeysAreOld /\ Caused
Types == ConnTyped /\ WatcherTyped /\ EventsTyped /\ ClockTyped /\ FlagsTyped
LInv == Types /\ Lot /\ StoppedHoldsNothing /\ AliveIsKnown

\* The connections of some entries.
Left(keys) == {entries[k].what : k \in keys}

-----------------------------------------------------------------------------
\* What the books contain, row by row.
LEMMA BooksRows ==
    ASSUME BooksAgree
    PROVE  /\ \A p \in deadlines : p[2] \in DOMAIN entries /\ p = <<entries[p[2]].deadline, p[2]>>
           /\ \A k \in DOMAIN entries : <<entries[k].deadline, k>> \in deadlines
           /\ \A r \in epoll : r[2] \in DOMAIN entries /\ r[1] \in FdsOf(entries[r[2]].what)
                               /\ r = <<r[1], r[2]>>
<1>1. \A p \in deadlines : p[2] \in DOMAIN entries /\ p = <<entries[p[2]].deadline, p[2]>>
  BY DEF BooksAgree
<1>2. \A k \in DOMAIN entries : <<entries[k].deadline, k>> \in deadlines
  BY DEF BooksAgree
<1>3. ASSUME NEW r \in epoll
      PROVE  /\ r[2] \in DOMAIN entries /\ r[1] \in FdsOf(entries[r[2]].what)
             /\ r = <<r[1], r[2]>>
  <2>1. PICK k \in DOMAIN entries : r \in FdsOf(entries[k].what) \X {k}
    BY <1>3 DEF BooksAgree
  <2> QED
    BY <2>1
<1> QED
  BY <1>1, <1>2, <1>3

\* The tables of the lot have the types of their rows.
LEMMA LotTypes ==
    ASSUME LInv
    PROVE  TypeOK
<1> USE DEF LInv, Types, Lot, EntriesTyped
<1>0. Keys \subseteq Nat /\ IsFiniteSet(DOMAIN entries)
  <2>1. IsFiniteSet(Keys) /\ Keys \subseteq Nat
    BY FS_Interval, BatchAssumption DEF Keys
  <2> QED
    BY <2>1, FS_Subset
<1>1. deadlines \subseteq Nat \X Keys
  BY BooksRows
<1>2. epoll \subseteq Fd \X Keys
  <2> SUFFICES ASSUME NEW r \in epoll PROVE r \in Fd \X Keys
    OBVIOUS
  <2>1. r[2] \in Keys /\ r[1] \in FdsOf(entries[r[2]].what) /\ r = <<r[1], r[2]>>
    BY BooksRows
  <2>2. entries[r[2]].what \in Conn
    BY BooksRows
  <2>3. r[1] \in Fd
    BY <2>1, <2>2 DEF FdsOf, Side, Fd
  <2> QED
    BY <2>1, <2>3
<1>3. tunnels \in Nat
  <2>1. IsFiniteSet({k \in DOMAIN entries : entries[k].what \in Tunnel})
    BY <1>0, FS_Subset
  <2> QED
    BY <2>1, FS_CardinalityType DEF BooksAgree
<1>4. ringing \subseteq Keys /\ now \in 0..MaxNow
  BY DEF ClockTyped
<1>5. alive \in BOOLEAN /\ bell \in BOOLEAN /\ flag \in BOOLEAN /\ starter \in {"starting", "started"}
  BY Zenon DEF FlagsTyped
<1> QED
  BY <1>1, <1>2, <1>3, <1>4, <1>5 DEF TypeOK, ConnTyped, WatcherTyped, EventsTyped, Places

\* A step that takes keys out of the lot, or none: what stays is looked after as before.
LEMMA LotKept ==
    ASSUME Lot, ConnTyped, NEW keys \in SUBSET DOMAIN entries,
           DOMAIN entries' = DOMAIN entries \ keys,
           \A k \in DOMAIN entries' : entries'[k] = entries[k],
           BooksAgree', nextKey' = nextKey, events' \subseteq events,
           \A c \in Left(keys) : at'[c] # "parked",
           \A c \in Conn \ Left(keys) : at'[c] = "parked" <=> at[c] = "parked",
           \A c \in Conn \ Left(keys) : at[c] = "parked" =>
               \A f \in FdsOf(c) : signal[f] # "none" => signal'[f] # "none"
    PROVE  Lot'
<1> USE DEF Lot
<1>1. EntriesTyped'
  BY DEF EntriesTyped
<1>2. \A k \in DOMAIN entries' : /\ k \in DOMAIN entries /\ k \notin keys
                                 /\ entries[k].what \in Conn \ Left(keys)
                                 /\ entries'[k] = entries[k]
  <2> SUFFICES ASSUME NEW k \in DOMAIN entries'
               PROVE  entries[k].what \in Conn \ Left(keys)
    OBVIOUS
  <2>1. entries[k].what \in Conn
    BY DEF EntriesTyped
  <2>2. \A l \in keys : entries[l].what # entries[k].what
    BY DEF OneCustodian
  <2> QED
    BY <2>1, <2>2 DEF Left
<1>3. OneCustodian'
  <2>1. ASSUME NEW c \in Conn, at'[c] = "parked"
        PROVE  \E k \in DOMAIN entries' : entries'[k].what = c
    <3>1. c \notin Left(keys) /\ at[c] = "parked"
      BY <2>1
    <3>2. PICK k \in DOMAIN entries : entries[k].what = c
      BY <3>1 DEF OneCustodian
    <3>3. k \notin keys
      BY <3>1, <3>2 DEF Left
    <3> QED
      BY <3>2, <3>3
  <2>2. ASSUME NEW k \in DOMAIN entries' PROVE at'[entries'[k].what] = "parked"
    <3>1. at[entries[k].what] = "parked"
      BY <1>2, <2>2 DEF OneCustodian
    <3> QED
      BY <1>2, <2>2, <3>1
  <2>3. \A k, l \in DOMAIN entries' : entries'[k].what = entries'[l].what => k = l
    BY <1>2 DEF OneCustodian
  <2> QED
    BY <2>1, <2>2, <2>3 DEF OneCustodian
<1>4. KeysAreOld'
  BY DEF KeysAreOld
<1>5. Caused'
  <2> SUFFICES ASSUME NEW e \in events', e.key \in DOMAIN entries'
               PROVE  e.fd \in FdsOf(entries'[e.key].what) /\ signal'[e.fd] # "none"
    BY DEF Caused
  <2>1. e.fd \in FdsOf(entries[e.key].what) /\ signal[e.fd] # "none"
    BY DEF Caused
  <2>2. at[entries[e.key].what] = "parked" /\ entries[e.key].what \in Conn \ Left(keys)
    BY <1>2 DEF OneCustodian
  <2> QED
    BY <1>2, <2>1, <2>2
<1> QED
  BY <1>1, <1>3, <1>4, <1>5

\* The special case of a step that leaves the lot and its connections alone.
LEMMA LotUntouched ==
    ASSUME Lot, ConnTyped, UNCHANGED <<inner, epoll, at, signal>>, events' \subseteq events
    PROVE  Lot'
<1>1. UNCHANGED <<entries, deadlines, nextKey, tunnels>>
  BY DEF inner
<1>2. BooksAgree'
  BY <1>1 DEF Lot, BooksAgree
<1>3. Left({}) = {}
  BY DEF Left
<1> QED
  BY <1>1, <1>2, <1>3, LotKept

\* Removing keys keeps the books.
LEMMA RemoveKeepsBooks ==
    ASSUME BooksAgree, EntriesTyped, NEW keys \in SUBSET DOMAIN entries, Remove(keys)
    PROVE  /\ BooksAgree' /\ DOMAIN entries' = DOMAIN entries \ keys
           /\ \A k \in DOMAIN entries' : entries'[k] = entries[k]
           /\ UNCHANGED <<alive, nextKey>>
<1>1. /\ entries' = [k \in DOMAIN entries \ keys |-> entries[k]]
      /\ deadlines' = {p \in deadlines : p[2] \notin keys}
      /\ epoll' = {r \in epoll : r[2] \notin keys}
      /\ tunnels' = tunnels - Cardinality({k \in keys : entries[k].what \in Tunnel})
      /\ UNCHANGED <<alive, nextKey>>
  BY DEF Remove
<1>2. DOMAIN entries' = DOMAIN entries \ keys /\ \A k \in DOMAIN entries' : entries'[k] = entries[k]
  BY <1>1
<1>3. deadlines' = {<<entries'[k].deadline, k>> : k \in DOMAIN entries'}
  <2>1. ASSUME NEW p \in deadlines' PROVE p \in {<<entries'[k].deadline, k>> : k \in DOMAIN entries'}
    <3>1. p[2] \in DOMAIN entries' /\ p = <<entries[p[2]].deadline, p[2]>>
      BY <1>1, <1>2, <2>1, BooksRows
    <3> QED
      BY <1>2, <3>1
  <2>2. ASSUME NEW k \in DOMAIN entries' PROVE <<entries'[k].deadline, k>> \in deadlines'
    BY <1>1, <1>2, <2>2, BooksRows
  <2> QED
    BY <2>1, <2>2
<1>4. epoll' = UNION {FdsOf(entries'[k].what) \X {k} : k \in DOMAIN entries'}
  <2>1. ASSUME NEW r \in epoll'
        PROVE  \E k \in DOMAIN entries' : r \in FdsOf(entries'[k].what) \X {k}
    <3>1. /\ r[2] \in DOMAIN entries' /\ r[1] \in FdsOf(entries[r[2]].what)
          /\ r = <<r[1], r[2]>>
      BY <1>1, <1>2, <2>1, BooksRows
    <3> QED
      BY <1>2, <3>1
  <2>2. ASSUME NEW k \in DOMAIN entries', NEW r \in FdsOf(entries'[k].what) \X {k}
        PROVE  r \in epoll'
    <3>1. r \in FdsOf(entries[k].what) \X {k} /\ k \in DOMAIN entries
      BY <1>2, <2>2
    <3>2. r \in epoll
      BY <3>1 DEF BooksAgree
    <3>3. r[2] \notin keys
      BY <1>2, <2>2
    <3> QED
      BY <1>1, <3>2, <3>3
  <2> QED
    BY <2>1, <2>2
<1>5. tunnels' = Cardinality({k \in DOMAIN entries' : entries'[k].what \in Tunnel})
  <2> DEFINE All == {k \in DOMAIN entries : entries[k].what \in Tunnel}
             Gone == {k \in keys : entries[k].what \in Tunnel}
  <2>1. IsFiniteSet(All)
    <3>1. IsFiniteSet(Keys)
      BY FS_Interval, BatchAssumption DEF Keys
    <3>2. All \subseteq Keys
      BY DEF EntriesTyped
    <3> QED
      BY <3>1, <3>2, FS_Subset
  <2>2. {k \in DOMAIN entries' : entries'[k].what \in Tunnel} = All \ Gone
    BY <1>2
  <2>3. All \cap Gone = Gone
    OBVIOUS
  <2>4. tunnels = Cardinality(All)
    BY DEF BooksAgree
  <2>5. tunnels' = tunnels - Cardinality(Gone)
    BY <1>1
  <2> HIDE DEF All, Gone
  <2>6. Cardinality(All \ Gone) = Cardinality(All) - Cardinality(All \cap Gone)
    BY <2>1, FS_Difference
  <2> QED
    BY <2>2, <2>3, <2>4, <2>5, <2>6
<1> QED
  BY <1>1, <1>2, <1>3, <1>4, <1>5 DEF BooksAgree

\* Placing connections, and dropping their sockets, keeps the types.
LEMMA PlaceTyped ==
    ASSUME at \in [Conn -> Places], NEW cs, NEW place \in Places, Place(cs, place)
    PROVE  /\ at' \in [Conn -> Places]
           /\ \A c \in Conn : at'[c] = IF c \in cs THEN place ELSE at[c]
BY DEF Place

LEMMA SilenceTyped ==
    ASSUME signal \in [Fd -> {"none", "data", "gone"}], NEW cs
    PROVE  /\ Silence(cs) \in [Fd -> {"none", "data", "gone"}]
           /\ \A f \in Fd : f[1] \notin cs => Silence(cs)[f] = signal[f]
BY DEF Silence

\* The descriptors of a connection are its own.
LEMMA OwnFds ==
    ASSUME NEW c \in Conn, NEW f \in FdsOf(c)
    PROVE  f \in Fd /\ f[1] = c
BY DEF FdsOf, Side, Fd


-----------------------------------------------------------------------------
\* Nobody is parked, and nothing is registered, at the start.
LEMMA LotStarts == Init => LInv
<1> SUFFICES ASSUME Init PROVE LInv
  OBVIOUS
<1>1. /\ entries = [k \in {} |-> {}] /\ deadlines = {} /\ nextKey = 1 /\ tunnels = 0 /\ epoll = {}
      /\ ringing = {} /\ watcher = "measure" /\ until = None /\ events = {}
      /\ at = [c \in Conn |-> "worker"] /\ signal = [f \in Fd |-> "none"] /\ fixed = {} /\ now = 0
  BY DEF Init
<1>2. alive = TRUE /\ bell = FALSE /\ flag \in BOOLEAN /\ starter \in {"starting", "started"}
  BY Zenon DEF Init
<1>3. DOMAIN entries = {}
  BY <1>1
<1>4. EntriesTyped /\ KeysAreOld /\ Caused
  BY <1>1, <1>3, BatchAssumption DEF EntriesTyped, KeysAreOld, Caused
<1>5. ConnTyped
  BY <1>1 DEF ConnTyped, Places
<1>6. OneCustodian
  BY <1>1, <1>3 DEF OneCustodian
<1>7. BooksAgree
  <2>1. {k \in DOMAIN entries : entries[k].what \in Tunnel} = {}
    BY <1>3
  <2>2. tunnels = Cardinality({k \in DOMAIN entries : entries[k].what \in Tunnel})
    BY <1>1, <2>1, FS_EmptySet
  <2> QED
    BY <1>1, <1>3, <2>2 DEF BooksAgree
<1>8. WatcherTyped /\ EventsTyped
  BY <1>1 DEF WatcherTyped, EventsTyped
<1>9. ClockTyped
  BY <1>1, TimeAssumption DEF ClockTyped
<1>10. FlagsTyped
  BY <1>2, Zenon DEF FlagsTyped
<1>11. StoppedHoldsNothing /\ AliveIsKnown
  BY <1>1, <1>2 DEF StoppedHoldsNothing, AliveIsKnown
<1> QED
  BY <1>4, <1>5, <1>6, <1>7, <1>8, <1>9, <1>10, <1>11 DEF LInv, Lot, Types

\* The steps that leave the lot and the connections alone: of the watcher between two wakes, of a
\* parker that rings, of the clock.
QuietStep ==
    \/ Measure \/ Handled \/ Interrupted \/ Fails \/ Started \/ Tick
    \/ \E e \in events : Drain(e) \/ Stale(e)
    \/ \E k \in ringing : Ring(k)
    \/ UNCHANGED vars

LEMMA QuietKeeps ==
    ASSUME LInv, QuietStep
    PROVE  LInv'
<1> USE DEF LInv, Types
<1>1. UNCHANGED <<inner, epoll, at, signal, fixed>> /\ events' \subseteq events
  BY DEF QuietStep, Measure, Handled, Interrupted, Fails, Started, Tick, Drain, Stale, Ring,
     conns,
         loop, vars
<1>2. Lot' /\ ConnTyped'
  BY <1>1, LotUntouched DEF ConnTyped
<1>3. WatcherTyped'
  <2>1. ASSUME Measure PROVE WatcherTyped'
    <3>1. CASE deadlines = {}
      BY <2>1, <3>1 DEF Measure, WatcherTyped
    <3>2. CASE deadlines # {}
      <4>1. deadlines \subseteq Nat \X Keys
        BY LotTypes DEF TypeOK
      <4>2. First(deadlines)[1] \in Nat
        BY <3>2, <4>1, FirstIsFirst
      <4> QED
        BY <2>1, <3>2, <4>2 DEF Measure, WatcherTyped
    <3> QED
      BY <3>1, <3>2
  <2>2. ASSUME ~Measure PROVE WatcherTyped'
    BY <2>2 DEF QuietStep, Handled, Interrupted, Fails, Started, Tick, Drain, Stale, Ring,
       loop, vars,
       WatcherTyped
  <2> QED
    BY <2>1, <2>2
<1>4. EventsTyped'
  BY <1>1 DEF EventsTyped
<1>5. ClockTyped'
  <2>1. ringing' \subseteq ringing
    BY DEF QuietStep, Measure, Handled, Interrupted, Fails, Started, Tick, Drain, Stale, Ring,
       vars
  <2>2. now' = now \/ (now < MaxNow /\ now' = now + 1)
    BY DEF QuietStep, Measure, Handled, Interrupted, Fails, Started, Tick, Drain, Stale, Ring,
       vars
  <2> QED
    BY <2>1, <2>2, TimeAssumption DEF ClockTyped
<1>6. FlagsTyped'
  BY Zenon DEF QuietStep, Measure, Handled, Interrupted, Fails, Started, Tick, Drain, Stale,
     Ring,
     vars, inner, FlagsTyped
<1>7. (watcher' = "dead" <=> watcher = "dead") /\ alive' = alive /\ entries' = entries
  BY DEF QuietStep, Measure, Handled, Interrupted, Fails, Started, Tick, Drain, Stale, Ring,
     loop,
         vars, inner
<1>8. StoppedHoldsNothing' /\ AliveIsKnown'
  BY <1>7, Zenon DEF StoppedHoldsNothing, AliveIsKnown
<1> QED
  BY <1>2, <1>3, <1>4, <1>5, <1>6, <1>8

\* What epoll_wait returns is about what is parked now.
LEMMA WakeKeeps ==
    ASSUME LInv, Wake
    PROVE  LInv'
<1> USE DEF LInv, Types, Lot
<1>1. /\ UNCHANGED <<entries, deadlines, nextKey, tunnels, epoll, at, signal, fixed, ringing, now>>
      /\ events' \subseteq Ready /\ watcher = "wait" /\ watcher' = "events" /\ until' = None
  BY DEF Wake, inner, conns, kSubset
<1>2. UNCHANGED <<alive, bell, flag, starter>>
  BY Zenon DEF Wake, inner
<1>3. ASSUME NEW e \in events'
      PROVE  \/ e = [key |-> WakeToken, fd |-> None, gone |-> FALSE]
             \/ \E r \in epoll : /\ signal[r[1]] # "none"
                                 /\ e = [key |-> r[2], fd |-> r[1], gone |-> signal[r[1]] = "gone"]
  BY <1>1, <1>3 DEF Ready
<1>4. ASSUME NEW r \in epoll
      PROVE  /\ r[2] \in DOMAIN entries /\ r[1] \in FdsOf(entries[r[2]].what)
             /\ r[1] \in Fd /\ r[2] \in Keys
  <2>1. epoll \subseteq Fd \X Keys
    BY LotTypes DEF TypeOK
  <2> QED
    BY <2>1, BooksRows
<1>5. EventsTyped'
  <2> SUFFICES ASSUME NEW e \in events'
               PROVE  e \in [key : Keys \cup {WakeToken}, fd : Fd \cup {None}, gone : BOOLEAN]
    BY DEF EventsTyped
  <2>1. CASE e = [key |-> WakeToken, fd |-> None, gone |-> FALSE]
    BY <2>1
  <2>2. ASSUME NEW r \in epoll, e = [key |-> r[2], fd |-> r[1], gone |-> signal[r[1]] = "gone"]
        PROVE  e \in [key : Keys \cup {WakeToken}, fd : Fd \cup {None}, gone : BOOLEAN]
    BY <1>4, <2>2
  <2> QED
    BY <1>3, <2>1, <2>2
<1>6. KeysAreOld'
  <2>1. \A e \in events' : e.key = 0 \/ e.key \in DOMAIN entries
    BY <1>3, <1>4 DEF WakeToken
  <2> QED
    BY <1>1, <2>1 DEF KeysAreOld, EntriesTyped
<1>7. Caused'
  <2> SUFFICES ASSUME NEW e \in events', e.key \in DOMAIN entries
               PROVE  e.fd \in FdsOf(entries[e.key].what) /\ signal[e.fd] # "none"
    BY <1>1 DEF Caused
  <2>1. 0 \notin DOMAIN entries
    BY BatchAssumption DEF EntriesTyped, Keys
  <2>2. PICK r \in epoll : signal[r[1]] # "none" /\ e.key = r[2] /\ e.fd = r[1]
    BY <1>3, <2>1 DEF WakeToken
  <2> QED
    BY <1>4, <2>2
<1>8. EntriesTyped' /\ BooksAgree' /\ OneCustodian'
  BY <1>1 DEF EntriesTyped, BooksAgree, OneCustodian
<1>9. ConnTyped' /\ WatcherTyped' /\ ClockTyped'
  BY <1>1 DEF ConnTyped, WatcherTyped, ClockTyped
<1>10. FlagsTyped'
  BY <1>2, Zenon DEF FlagsTyped
<1>11. StoppedHoldsNothing' /\ AliveIsKnown'
  BY <1>1, <1>2, Zenon DEF StoppedHoldsNothing, AliveIsKnown
<1> QED
  BY <1>5, <1>6, <1>7, <1>8, <1>9, <1>10, <1>11

\* A step of a thread or a peer that moves no connection into the lot or out of it.
LEMMA OutsideKeeps ==
    ASSUME LInv, UNCHANGED <<inner, epoll, bell, ringing, loop, fixed, now, starter, flag>>,
           ConnTyped',
           \A c \in Conn : at'[c] = "parked" <=> at[c] = "parked",
           \A c \in Conn : at[c] = "parked" =>
               \A f \in FdsOf(c) : signal[f] # "none" => signal'[f] # "none"
    PROVE  LInv'
<1> USE DEF LInv, Types
<1>1. UNCHANGED <<entries, deadlines, nextKey, tunnels, epoll, watcher, until, events, ringing, now>>
  BY DEF inner, loop
<1>2. UNCHANGED <<alive, bell, flag, starter>>
  BY Zenon DEF inner
<1>3. BooksAgree'
  BY <1>1 DEF Lot, BooksAgree
<1>4. Left({}) = {}
  BY DEF Left
<1>5. Lot'
  BY <1>1, <1>3, <1>4, LotKept
<1>6. WatcherTyped' /\ EventsTyped' /\ ClockTyped'
  BY <1>1 DEF WatcherTyped, EventsTyped, ClockTyped
<1>7. FlagsTyped'
  BY <1>2, Zenon DEF FlagsTyped
<1>8. StoppedHoldsNothing' /\ AliveIsKnown'
  BY <1>1, <1>2, Zenon DEF StoppedHoldsNothing, AliveIsKnown
<1> QED
  BY <1>5, <1>6, <1>7, <1>8

LEMMA PeerKeeps ==
    ASSUME LInv, NEW f \in Fd, NEW what \in PeerActions, PeerActs(f, what)
    PROVE  LInv'
<1>1. what \in {"data", "gone"}
  BY PeerAssumption
<1>2. /\ signal' = [signal EXCEPT ![f] = what] /\ at' = at /\ fixed' = fixed
      /\ UNCHANGED <<inner, epoll, bell, ringing, loop, fixed, now, starter, flag>>
  BY DEF PeerActs
<1>3. ConnTyped'
  BY <1>1, <1>2 DEF LInv, Types, ConnTyped
<1>4. \A g \in Fd : signal[g] # "none" => signal'[g] # "none"
  BY <1>1, <1>2 DEF LInv, Types, ConnTyped
<1>5. \A c \in Conn : at[c] = "parked" =>
          \A g \in FdsOf(c) : signal[g] # "none" => signal'[g] # "none"
  BY <1>4, OwnFds
<1> QED
  BY <1>2, <1>3, <1>5, OutsideKeeps

\* A thread has the connection: nothing changes for those that are parked.
LEMMA WorkerKeeps ==
    ASSUME LInv, NEW c \in Conn, Serve(c) \/ Finish(c) \/ Resume(c)
    PROVE  LInv'
<1> USE DEF LInv, Types, ConnTyped
<1>1. /\ at[c] # "parked"
      /\ UNCHANGED <<inner, epoll, bell, ringing, loop, fixed, now, starter, flag>>
  BY DEF Serve, Finish, Resume
<1>2. PICK place \in Places \ {"parked"} : at' = at \/ Place({c}, place)
  BY DEF Serve, Finish, Resume, Places
<1>3. at' \in [Conn -> Places] /\ \A d \in Conn : at'[d] = "parked" <=> at[d] = "parked"
  BY <1>1, <1>2, PlaceTyped
<1>4. signal' = signal \/ signal' = Silence({c})
  BY DEF Serve, Finish, Resume
<1>5. /\ signal' \in [Fd -> {"none", "data", "gone"}]
      /\ \A f \in Fd : f[1] # c => signal'[f] = signal[f]
  BY <1>4, SilenceTyped
<1>6. \A d \in Conn : at[d] = "parked" =>
          \A f \in FdsOf(d) : signal[f] # "none" => signal'[f] # "none"
  BY <1>1, <1>5, OwnFds
<1>7. ConnTyped'
  BY <1>1, <1>3, <1>5
<1> QED
  BY <1>1, <1>3, <1>6, <1>7, OutsideKeeps


\* A connection that is parked gets a key of its own, a row in every table, and no event of an
\* earlier stay is about it.
LEMMA AdmitKeeps ==
    ASSUME LInv, NEW c \in Conn, at[c] = "worker", nextKey \in Keys, NEW deadline \in Nat,
           Admit(c, deadline), UNCHANGED <<loop, signal>>
    PROVE  Lot' /\ ConnTyped' /\ ringing' \subseteq Keys
<1> USE DEF LInv, Types, Lot
<1>1. /\ entries' = [k \in DOMAIN entries \cup {nextKey} |->
                       IF k = nextKey THEN [what |-> c, deadline |-> deadline] ELSE entries[k]]
      /\ deadlines' = deadlines \cup {<<deadline, nextKey>>}
      /\ nextKey' = nextKey + 1
      /\ tunnels' = tunnels + (IF c \in Tunnel THEN 1 ELSE 0)
      /\ epoll' = epoll \cup (FdsOf(c) \X {nextKey})
      /\ Place({c}, "parked") /\ fixed' = fixed
      /\ events' = events /\ signal' = signal
  BY DEF Admit, loop
<1>2. nextKey \notin DOMAIN entries /\ nextKey \in Nat
  BY BatchAssumption DEF KeysAreOld, Keys
<1>3. /\ DOMAIN entries' = DOMAIN entries \cup {nextKey}
      /\ \A k \in DOMAIN entries : entries'[k] = entries[k]
      /\ entries'[nextKey] = [what |-> c, deadline |-> deadline]
  BY <1>1, <1>2
<1>4. EntriesTyped'
  BY <1>1, <1>3, BatchAssumption DEF EntriesTyped, Keys
<1>5. \A d \in Conn : at'[d] = IF d = c THEN "parked" ELSE at[d]
  BY <1>1, PlaceTyped DEF ConnTyped, Places
<1>6. ConnTyped'
  BY <1>1, PlaceTyped DEF ConnTyped, Places
<1>7. \A k \in DOMAIN entries : entries[k].what \in Conn /\ entries[k].what # c
  BY DEF OneCustodian, EntriesTyped
<1>8. OneCustodian'
  <2>1. ASSUME NEW d \in Conn, at'[d] = "parked"
        PROVE  \E k \in DOMAIN entries' : entries'[k].what = d
    <3>1. CASE d = c
      BY <1>3, <3>1
    <3>2. CASE d # c
      BY <1>3, <1>5, <2>1, <3>2 DEF OneCustodian
    <3> QED
      BY <3>1, <3>2
  <2>2. ASSUME NEW k \in DOMAIN entries' PROVE at'[entries'[k].what] = "parked"
    <3>1. CASE k = nextKey
      BY <1>3, <1>5, <3>1
    <3>2. CASE k # nextKey
      BY <1>3, <1>5, <1>7, <2>2, <3>2 DEF OneCustodian
    <3> QED
      BY <3>1, <3>2
  <2>3. \A k, l \in DOMAIN entries' : entries'[k].what = entries'[l].what => k = l
    BY <1>3, <1>7 DEF OneCustodian
  <2> QED
    BY <2>1, <2>2, <2>3 DEF OneCustodian
<1>9. BooksAgree'
  <2>1. deadlines' = {<<entries'[k].deadline, k>> : k \in DOMAIN entries'}
    <3>1. {<<entries'[k].deadline, k>> : k \in DOMAIN entries'}
            = {<<entries[k].deadline, k>> : k \in DOMAIN entries} \cup {<<deadline, nextKey>>}
      BY <1>3
    <3> QED
      BY <1>1, <3>1 DEF BooksAgree
  <2>2. epoll' = UNION {FdsOf(entries'[k].what) \X {k} : k \in DOMAIN entries'}
    <3>1. ASSUME NEW x, x \in epoll'
          PROVE  \E k \in DOMAIN entries' : x \in FdsOf(entries'[k].what) \X {k}
      <4>1. CASE x \in epoll
        <5>1. PICK k \in DOMAIN entries : x \in FdsOf(entries[k].what) \X {k}
          BY <4>1 DEF BooksAgree
        <5> QED
          BY <1>3, <5>1
      <4>2. CASE x \in FdsOf(c) \X {nextKey}
        BY <1>3, <4>2
      <4> QED
        BY <1>1, <3>1, <4>1, <4>2
    <3>2. ASSUME NEW x, NEW k \in DOMAIN entries', x \in FdsOf(entries'[k].what) \X {k}
          PROVE  x \in epoll'
      <4>1. CASE k = nextKey
        BY <1>1, <1>3, <3>2, <4>1
      <4>2. CASE k # nextKey
        <5>1. k \in DOMAIN entries /\ x \in FdsOf(entries[k].what) \X {k}
          BY <1>3, <3>2, <4>2
        <5>2. x \in epoll
          BY <5>1 DEF BooksAgree
        <5> QED
          BY <1>1, <5>2
      <4> QED
        BY <4>1, <4>2
    <3> QED
      BY <3>1, <3>2
  <2>3. tunnels' = Cardinality({k \in DOMAIN entries' : entries'[k].what \in Tunnel})
    <3> DEFINE All == {k \in DOMAIN entries : entries[k].what \in Tunnel}
    <3>1. IsFiniteSet(All)
      <4>1. IsFiniteSet(Keys)
        BY FS_Interval, BatchAssumption DEF Keys
      <4>2. All \subseteq Keys
        BY DEF EntriesTyped
      <4> QED
        BY <4>1, <4>2, FS_Subset
    <3>2. tunnels = Cardinality(All) /\ nextKey \notin All
      BY <1>2 DEF BooksAgree
    <3>3. {k \in DOMAIN entries' : entries'[k].what \in Tunnel}
            = IF c \in Tunnel THEN All \cup {nextKey} ELSE All
      BY <1>3, <1>2
    <3> HIDE DEF All
    <3>4. Cardinality(All \cup {nextKey}) = Cardinality(All) + 1 /\ Cardinality(All) \in Nat
      BY <3>1, <3>2, FS_AddElement, FS_CardinalityType
    <3>5. CASE c \in Tunnel
      BY <1>1, <3>2, <3>3, <3>4, <3>5
    <3>6. CASE c \notin Tunnel
      <4>1. tunnels' = tunnels + 0
        BY <1>1, <3>6
      <4> QED
        BY <3>2, <3>3, <3>4, <3>6, <4>1
    <3> QED
      BY <3>5, <3>6
  <2> QED
    BY <2>1, <2>2, <2>3 DEF BooksAgree
<1>10. KeysAreOld'
  BY <1>1, <1>2, <1>3, <1>4 DEF KeysAreOld, EntriesTyped, EventsTyped, Keys, WakeToken
<1>11. Caused'
  <2> SUFFICES ASSUME NEW e \in events, e.key \in DOMAIN entries'
               PROVE  e.fd \in FdsOf(entries'[e.key].what) /\ signal[e.fd] # "none"
    BY <1>1 DEF Caused
  <2>1. e.key # nextKey
    BY <1>2 DEF KeysAreOld
  <2> QED
    BY <1>3, <2>1 DEF Caused
<1>12. ringing' \subseteq Keys
  BY DEF Admit, ClockTyped
<1> QED
  BY <1>4, <1>6, <1>8, <1>9, <1>10, <1>11, <1>12

LEMMA ParkKeeps ==
    ASSUME LInv, NEW c \in Conn, Park(c)
    PROVE  LInv'
<1> USE DEF LInv, Types
<1>1. /\ at[c] = "worker" /\ nextKey <= MaxKey
      /\ UNCHANGED <<loop, signal, now, watcher, until, events>>
      /\ \/ \E life \in Lifetimes : Admit(c, now + life)
         \/ nextKey' \in {nextKey, nextKey + 1} /\ Refuse(c)
  BY DEF Park, loop
<1>2. UNCHANGED <<bell, starter, flag>>
  BY Zenon DEF Park
<1>3. alive' = alive
  BY Zenon DEF Park, Admit, Refuse
<1>4. nextKey \in Keys
  BY <1>1, BatchAssumption DEF Lot, EntriesTyped, Keys
<1>5. Lot' /\ ConnTyped' /\ ringing' \subseteq Keys
  <2>1. ASSUME NEW life \in Lifetimes, Admit(c, now + life)
        PROVE  Lot' /\ ConnTyped' /\ ringing' \subseteq Keys
    <3>1. now + life \in Nat
      BY TimeAssumption DEF ClockTyped
    <3> QED
      BY <1>1, <1>4, <2>1, <3>1, AdmitKeeps
  <2>2. ASSUME nextKey' \in {nextKey, nextKey + 1}, Refuse(c)
        PROVE  Lot' /\ ConnTyped' /\ ringing' \subseteq Keys
    <3>1. /\ UNCHANGED <<entries, deadlines, tunnels, epoll, ringing, at, signal, events>>
          /\ fixed' = fixed \cup {c}
      BY <1>1, <2>2 DEF Refuse
    <3>2. nextKey' \in 1..(MaxKey + 1) /\ nextKey <= nextKey' /\ nextKey' \in Int /\ nextKey \in Int
      BY <1>1, <2>2, BatchAssumption DEF Lot, EntriesTyped
    <3>3. EntriesTyped'
      BY <3>1, <3>2 DEF Lot, EntriesTyped
    <3>4. KeysAreOld'
      BY <3>1, <3>2 DEF Lot, KeysAreOld, EntriesTyped, EventsTyped, Keys, WakeToken
    <3>5. BooksAgree' /\ OneCustodian' /\ Caused'
      BY <3>1 DEF Lot, BooksAgree, OneCustodian, Caused
    <3>6. ConnTyped' /\ ringing' \subseteq Keys
      BY <3>1 DEF ConnTyped, ClockTyped
    <3> QED
      BY <3>3, <3>4, <3>5, <3>6 DEF Lot
  <2> QED
    BY <1>1, <2>1, <2>2
<1>6. WatcherTyped' /\ EventsTyped' /\ ClockTyped'
  BY <1>1, <1>5 DEF WatcherTyped, EventsTyped, ClockTyped
<1>7. FlagsTyped' /\ AliveIsKnown'
  BY <1>1, <1>2, <1>3, Zenon DEF FlagsTyped, AliveIsKnown
<1>8. StoppedHoldsNothing'
  <2>1. ASSUME watcher = "dead" PROVE entries' = entries /\ ~alive'
    BY <1>3, <2>1 DEF Park, Refuse, AliveIsKnown
  <2> QED
    BY <1>1, <2>1 DEF StoppedHoldsNothing
<1> QED
  BY <1>5, <1>6, <1>7, <1>8

\* A step that takes keys out of the lot and moves their connections on, and drops no socket but
\* theirs.
LEMMA LeaveKeeps ==
    ASSUME Lot, ConnTyped, NEW keys \in SUBSET DOMAIN entries, Remove(keys), events' \subseteq events,
           at' \in [Conn -> Places],
           \A c \in Left(keys) : at'[c] # "parked",
           \A c \in Conn \ Left(keys) : at'[c] = at[c],
           signal' = signal \/ signal' = Silence(Left(keys)),
           fixed' = fixed
    PROVE  Lot' /\ ConnTyped' /\ alive' = alive
<1>1. /\ BooksAgree' /\ DOMAIN entries' = DOMAIN entries \ keys
      /\ \A k \in DOMAIN entries' : entries'[k] = entries[k]
      /\ UNCHANGED <<alive, nextKey>>
  BY RemoveKeepsBooks DEF Lot
<1>2. /\ signal' \in [Fd -> {"none", "data", "gone"}]
      /\ \A f \in Fd : f[1] \notin Left(keys) => signal'[f] = signal[f]
  BY SilenceTyped DEF ConnTyped
<1>3. \A c \in Conn \ Left(keys) : at[c] = "parked" =>
          \A f \in FdsOf(c) : signal[f] # "none" => signal'[f] # "none"
  BY <1>2, OwnFds
<1>4. Lot'
  BY <1>1, <1>3, LotKept
<1>5. ConnTyped'
  BY <1>2 DEF ConnTyped
<1>6. alive' = alive
  BY Zenon DEF Remove
<1> QED
  BY <1>4, <1>5, <1>6

\* The rest of the state in such a step: while the watcher lives, nothing else depends on it.
LEMMA LeaveRest ==
    ASSUME LInv, Lot', ConnTyped', alive' = alive, watcher # "dead", watcher' # "dead",
           events' \subseteq events, WatcherTyped',
           UNCHANGED <<ringing, now, bell, starter, flag>>
    PROVE  LInv'
<1> USE DEF LInv, Types
<1>1. EventsTyped' /\ ClockTyped'
  BY DEF EventsTyped, ClockTyped
<1>2. FlagsTyped' /\ AliveIsKnown' /\ StoppedHoldsNothing'
  BY Zenon DEF FlagsTyped, AliveIsKnown, StoppedHoldsNothing
<1> QED
  BY <1>1, <1>2

\* An eviction takes a key that is there, of a tunnel.
LEMMA EvictTakes ==
    ASSUME LInv, Evict
    PROVE  \E key \in DOMAIN entries :
               /\ entries[key].what \in Tunnel /\ Remove({key})
               /\ Place({entries[key].what}, "closed") /\ signal' = Silence({entries[key].what})
<1> DEFINE parked == {p \in deadlines : entries[p[2]].what \in Tunnel}
           key == First(parked)[2]
<1>1. /\ parked # {} /\ Remove({key})
      /\ Place({entries[key].what}, "closed") /\ signal' = Silence({entries[key].what})
  BY DEF Evict
<1>2. parked \subseteq Nat \X Keys
  BY LotTypes DEF TypeOK
<1>3. First(parked) \in parked
  <2> HIDE DEF parked
  <2> QED
    BY <1>1, <1>2, FirstIsFirst
<1>4. key \in DOMAIN entries /\ entries[key].what \in Tunnel
  BY <1>3, BooksRows DEF LInv, Lot
<1> HIDE DEF key, parked
<1> QED
  BY <1>1, <1>4

LEMMA EvictKeeps ==
    ASSUME LInv, Evict
    PROVE  LInv'
<1>1. PICK key \in DOMAIN entries :
               /\ entries[key].what \in Tunnel /\ Remove({key})
               /\ Place({entries[key].what}, "closed") /\ signal' = Silence({entries[key].what})
  BY EvictTakes
<1>2. Left({key}) = {entries[key].what} /\ entries[key].what \in Conn
  BY DEF Left, LInv, Lot, EntriesTyped
<1>3. /\ at' \in [Conn -> Places]
      /\ \A c \in Conn : at'[c] = IF c = entries[key].what THEN "closed" ELSE at[c]
  BY <1>1, PlaceTyped DEF LInv, Types, ConnTyped, Places
<1>4. UNCHANGED <<ringing, now, watcher, until, events, fixed>>
  BY DEF Evict, loop
<1>5. UNCHANGED <<bell, starter, flag>>
  BY Zenon DEF Evict
<1>6. watcher # "dead"
  <2>1. DOMAIN entries # {}
    BY <1>1
  <2> QED
    BY <2>1 DEF LInv, StoppedHoldsNothing
<1>7. Lot' /\ ConnTyped' /\ alive' = alive
  BY <1>1, <1>2, <1>3, <1>4, LeaveKeeps DEF LInv, Types
<1>8. WatcherTyped'
  BY <1>4 DEF LInv, Types, WatcherTyped
<1> QED
  BY <1>4, <1>5, <1>6, <1>7, <1>8, LeaveRest

LEMMA HandleKeeps ==
    ASSUME LInv, NEW e \in events, Handle(e)
    PROVE  LInv'
<1> DEFINE c == entries[e.key].what
<1>1. /\ watcher = "events" /\ e.key \in DOMAIN entries /\ Remove({e.key})
      /\ events' \subseteq events
      /\ UNCHANGED <<ringing, now, watcher, until, fixed>>
  BY DEF Handle
<1>2. UNCHANGED <<bell, starter, flag>>
  BY Zenon DEF Handle
<1>3. PICK place \in {"handed", "closed"} : Place({c}, place)
  BY DEF Handle, Hand
<1>4. signal' = signal \/ signal' = Silence({c})
  BY DEF Handle, Hand
<1>5. Left({e.key}) = {c} /\ c \in Conn
  BY <1>1 DEF Left, LInv, Lot, EntriesTyped
<1>6. at' \in [Conn -> Places] /\ \A d \in Conn : at'[d] = IF d = c THEN place ELSE at[d]
  BY <1>3, PlaceTyped DEF LInv, Types, ConnTyped, Places
<1> HIDE DEF c
<1>7. Lot' /\ ConnTyped' /\ alive' = alive
  BY <1>1, <1>4, <1>5, <1>6, LeaveKeeps DEF LInv, Types
<1>8. WatcherTyped'
  BY <1>1 DEF LInv, Types, WatcherTyped
<1> QED
  BY <1>1, <1>2, <1>7, <1>8, LeaveRest

\* What is due, as a set of keys: each is there, and its own deadline has passed.
LEMMA ExpireTakes ==
    ASSUME LInv, Expire
    PROVE  \E keys \in SUBSET DOMAIN entries :
               /\ \A k \in keys : entries[k].deadline <= now
               /\ Remove(keys) /\ signal' = Silence(Left(keys))
               /\ at' \in [Conn -> Places]
               /\ \A c \in Left(keys) : at'[c] \in {"closed", "expiring"}
               /\ \A c \in Conn \ Left(keys) : at'[c] = at[c]
<1> DEFINE batch == {p \in Due : Cardinality({q \in Due : Earlier(q, p)}) < ExpireBatch}
           keys == {p[2] : p \in batch}
<1>1. Remove(keys) /\ signal' = Silence(Left(keys))
  BY DEF Expire, Left
<1>2. PICK refused \in SUBSET (Left(keys) \cap Tunnel) :
          at' = [c \in Conn |-> IF c \in (Left(keys) \cap Http) \cup refused THEN "closed"
                                ELSE IF c \in Left(keys) THEN "expiring" ELSE at[c]]
  BY DEF Expire, Left
<1>3. keys \subseteq DOMAIN entries /\ \A k \in keys : entries[k].deadline <= now
  <2> SUFFICES ASSUME NEW k \in keys
               PROVE  k \in DOMAIN entries /\ entries[k].deadline <= now
    OBVIOUS
  <2>1. PICK p \in batch : k = p[2]
    OBVIOUS
  <2>2. p \in deadlines /\ p[1] <= now
    BY DEF Due
  <2>3. p[2] \in DOMAIN entries /\ p = <<entries[p[2]].deadline, p[2]>>
    BY <2>2, BooksRows DEF LInv, Lot
  <2>4. p[1] = entries[p[2]].deadline
    BY <2>3
  <2> QED
    BY <2>1, <2>2, <2>3, <2>4
<1> HIDE DEF batch, keys
<1>4. Left(keys) \subseteq Conn
  BY <1>3 DEF Left, LInv, Lot, EntriesTyped
<1>5. /\ at' \in [Conn -> Places]
      /\ \A c \in Left(keys) : at'[c] \in {"closed", "expiring"}
      /\ \A c \in Conn \ Left(keys) : at'[c] = at[c]
  BY <1>2, <1>4 DEF LInv, Types, ConnTyped, Places
<1> QED
  BY <1>1, <1>3, <1>5

LEMMA ExpireKeeps ==
    ASSUME LInv, Expire
    PROVE  LInv'
<1>1. PICK keys \in SUBSET DOMAIN entries :
               /\ \A k \in keys : entries[k].deadline <= now
               /\ Remove(keys) /\ signal' = Silence(Left(keys))
               /\ at' \in [Conn -> Places]
               /\ \A c \in Left(keys) : at'[c] \in {"closed", "expiring"}
               /\ \A c \in Conn \ Left(keys) : at'[c] = at[c]
  BY ExpireTakes
<1>2. watcher = "expire" /\ watcher' = "measure" /\ UNCHANGED <<ringing, now, until, events, fixed>>
  BY DEF Expire
<1>3. UNCHANGED <<bell, starter, flag>>
  BY Zenon DEF Expire
<1>4. Lot' /\ ConnTyped' /\ alive' = alive
  BY <1>1, <1>2, LeaveKeeps DEF LInv, Types
<1>5. WatcherTyped'
  BY <1>2 DEF LInv, Types, WatcherTyped
<1> QED
  BY <1>2, <1>3, <1>4, <1>5, LeaveRest

\* The lot is emptied once and for all.
LEMMA ShutDownKeeps ==
    ASSUME LInv, ShutDown
    PROVE  LInv'
<1> USE DEF LInv, Types
<1> DEFINE left == Left(DOMAIN entries)
<1>1. /\ watcher = "down" /\ watcher' = "dead"
      /\ Place(left, "closed") /\ signal' = Silence(left)
      /\ entries' = [k \in {} |-> {}] /\ deadlines' = {} /\ tunnels' = 0 /\ epoll' = {}
      /\ UNCHANGED <<nextKey, ringing, until, events, fixed, now>>
  BY DEF ShutDown, Left
<1>2. alive' = FALSE /\ flag' = FALSE /\ UNCHANGED <<bell, starter>>
  BY Zenon DEF ShutDown
<1> HIDE DEF left
<1>3. DOMAIN entries' = {}
  BY <1>1
<1>4. BooksAgree'
  <2>1. {k \in DOMAIN entries' : entries'[k].what \in Tunnel} = {}
    BY <1>3
  <2>2. tunnels' = Cardinality({k \in DOMAIN entries' : entries'[k].what \in Tunnel})
    BY <1>1, <2>1, FS_EmptySet
  <2> QED
    BY <1>1, <1>3, <2>2 DEF BooksAgree
<1>5. at' \in [Conn -> Places] /\ \A c \in Conn : at'[c] = IF c \in left THEN "closed" ELSE at[c]
  BY <1>1, PlaceTyped DEF ConnTyped, Places
<1>6. /\ signal' \in [Fd -> {"none", "data", "gone"}]
      /\ \A f \in Fd : f[1] \notin left => signal'[f] = signal[f]
  BY <1>1, SilenceTyped DEF ConnTyped
<1>7. \A c \in Conn \ left : at[c] = "parked" =>
          \A f \in FdsOf(c) : signal[f] # "none" => signal'[f] # "none"
  BY <1>6, OwnFds
<1>8. Lot'
  <2>1. DOMAIN entries' = DOMAIN entries \ DOMAIN entries
    BY <1>3
  <2>2. \A k \in DOMAIN entries' : entries'[k] = entries[k]
    BY <1>3
  <2>3. /\ \A c \in left : at'[c] # "parked"
        /\ \A c \in Conn \ left : at'[c] = "parked" <=> at[c] = "parked"
    <3>1. left \subseteq Conn
      BY DEF left, Left, Lot, EntriesTyped
    <3> QED
      BY <1>5, <3>1
  <2> QED
    BY <1>1, <1>4, <1>7, <2>1, <2>2, <2>3, LotKept DEF left
<1>9. ConnTyped' /\ WatcherTyped' /\ EventsTyped' /\ ClockTyped'
  BY <1>1, <1>5, <1>6 DEF ConnTyped, WatcherTyped, EventsTyped, ClockTyped
<1>10. FlagsTyped' /\ AliveIsKnown'
  BY <1>1, <1>2, Zenon DEF FlagsTyped, AliveIsKnown
<1>11. StoppedHoldsNothing'
  BY <1>1, <1>2 DEF StoppedHoldsNothing
<1> QED
  BY <1>8, <1>9, <1>10, <1>11

-----------------------------------------------------------------------------
\* Every step of the watcher, the threads, the peers and the clock keeps the lot.
LEMMA LotStep ==
    ASSUME LInv, [Next]_vars
    PROVE  LInv'
<1>1. CASE QuietStep
  BY <1>1, QuietKeeps
<1>2. CASE Wake
  BY <1>2, WakeKeeps
<1>3. CASE Expire
  BY <1>3, ExpireKeeps
<1>4. CASE ShutDown
  BY <1>4, ShutDownKeeps
<1>5. ASSUME NEW e \in events, Handle(e) PROVE LInv'
  BY <1>5, HandleKeeps
<1>6. CASE Evict
  BY <1>6, EvictKeeps
<1>7. ASSUME NEW f \in Fd, NEW what \in PeerActions, PeerActs(f, what) PROVE LInv'
  BY <1>7, PeerKeeps
<1>8. ASSUME NEW c \in Conn, Serve(c) \/ Finish(c) \/ Resume(c) PROVE LInv'
  BY <1>8, WorkerKeeps
<1>9. ASSUME NEW c \in Conn, Park(c) PROVE LInv'
  BY <1>9, ParkKeeps
<1> QED
  BY <1>1, <1>2, <1>3, <1>4, <1>5, <1>6, <1>7, <1>8, <1>9, Zenon DEF Next, Watch, QuietStep

LEMMA LotInductive == Spec => []LInv
<1>1. Init => LInv
  BY LotStarts
<1>2. LInv /\ [Next]_vars => LInv'
  BY LotStep
<1> QED
  BY <1>1, <1>2, PTL DEF Spec

\* The tables of the lot agree with each other and with who has the connections, a connection is
\* in one place, and a watcher that has gone leaves nothing behind and lets nothing in
\* (idle.rs:193, park_any, shut_down).
THEOREM LotAlwaysAccounted == Spec => []LotAccounted
<1>1. LInv => LotAccounted
  BY LotTypes DEF LInv, Lot, LotAccounted
<1> QED
  BY <1>1, LotInductive, PTL

\* A thread is woken for a parked connection only by its own peers, whatever events of earlier
\* stays are still in hand: a key is used once (idle.rs, next_key).
THEOREM WokenOnlyForCause == Spec => WokenForCause
<1>1. ASSUME LInv, [Next]_vars, NEW c \in Conn, at[c] = "parked", at'[c] = "handed"
      PROVE  \E f \in FdsOf(c) : signal[f] # "none"
  <2>1. PICK e \in events : Handle(e)
    <3>1. at' # at
      BY <1>1
    <3>2. ~ QuietStep /\ ~ Wake /\ ~ (\E f \in Fd, what \in PeerActions : PeerActs(f, what))
      BY <3>1 DEF QuietStep, Measure, Handled, Interrupted, Fails, Started, Tick, Drain, Stale,
                  Ring, conns, vars, Wake, PeerActs
    <3>3. ~ Expire
      BY <1>1, ExpireTakes
    <3>4. ~ ShutDown /\ ~ Evict
      <4>1. ASSUME NEW cs, Place(cs, "closed") PROVE FALSE
        BY <1>1, <4>1 DEF Place
      <4> QED
        BY <4>1 DEF ShutDown, Evict
    <3>5. ASSUME NEW d \in Conn, Serve(d) \/ Finish(d) \/ Resume(d) \/ Park(d) PROVE FALSE
      <4>1. PICK place \in {"worker", "parked", "closed"} : at' = at \/ Place({d}, place)
        BY <3>5 DEF Serve, Finish, Resume, Park, Admit, Refuse
      <4> QED
        BY <1>1, <4>1 DEF Place
    <3> QED
      BY <1>1, <3>2, <3>3, <3>4, <3>5, Zenon DEF Next, Watch, QuietStep
  <2>2. e.key \in DOMAIN entries /\ entries[e.key].what = c
    <3>1. PICK place \in {"handed", "closed"} : Place({entries[e.key].what}, place)
      BY <2>1 DEF Handle, Hand
    <3>2. c \in {entries[e.key].what}
      BY <1>1, <3>1 DEF Place
    <3> QED
      BY <2>1, <3>2 DEF Handle
  <2> QED
    BY <1>1, <2>2 DEF LInv, Lot, Caused
<1>2. LInv /\ [Next]_vars =>
          [\A c \in Conn : at[c] = "parked" /\ at'[c] = "handed" =>
              \E f \in FdsOf(c) : signal[f] # "none"]_vars
  BY <1>1
<1> QED
  BY <1>2, LotInductive, PTL DEF Spec, WokenForCause

\* A parked keep-alive connection whose client is silent and there is closed by nobody before its
\* deadline, unless the watcher goes down (close_expired, evict_oldest_tunnel).
THEOREM ParkedIsKeptUntilDue == Spec => KeptUntilDue
<1>1. ASSUME LInv, [Next]_vars, NEW c \in Http, at[c] = "parked", at'[c] = "closed",
             watcher # "down", signal[<<c, 0>>] = "none"
      PROVE  \E k \in DOMAIN entries : entries[k].what = c /\ entries[k].deadline <= now
  <2>0. c \in Conn /\ c \notin Tunnel /\ FdsOf(c) = {<<c, 0>>}
    BY ConnAssumption DEF Conn, FdsOf, Side
  <2>1. at' # at
    BY <1>1
  <2>2. ~ QuietStep /\ ~ Wake /\ ~ (\E f \in Fd, what \in PeerActions : PeerActs(f, what))
    BY <2>1 DEF QuietStep, Measure, Handled, Interrupted, Fails, Started, Tick, Drain, Stale,
                Ring, conns, vars, Wake, PeerActs
  <2>3. ~ ShutDown
    BY <1>1 DEF ShutDown
  <2>4. ~ Evict
    <3>1. ASSUME NEW key \in DOMAIN entries, entries[key].what \in Tunnel,
                 Place({entries[key].what}, "closed")
          PROVE  FALSE
      BY <1>1, <2>0, <3>1 DEF Place
    <3> QED
      BY <1>1, <3>1, EvictTakes, Zenon
  <2>5. ASSUME NEW d \in Conn, Serve(d) \/ Finish(d) \/ Resume(d) \/ Park(d) PROVE FALSE
    <3>1. at[d] # "parked"
      BY <2>5 DEF Serve, Finish, Resume, Park
    <3>2. PICK place : at' = at \/ Place({d}, place)
      BY <2>5 DEF Serve, Finish, Resume, Park, Admit, Refuse
    <3> QED
      BY <1>1, <2>0, <3>1, <3>2 DEF Place
  <2>6. ASSUME NEW e \in events, Handle(e) PROVE FALSE
    <3>1. PICK place : Place({entries[e.key].what}, place)
      BY <2>6 DEF Handle, Hand
    <3>2. e.key \in DOMAIN entries /\ entries[e.key].what = c
      BY <1>1, <2>0, <2>6, <3>1 DEF Place, Handle
    <3>3. e.fd = <<c, 0>> /\ signal[e.fd] # "none"
      BY <1>1, <2>0, <3>2 DEF LInv, Lot, Caused
    <3> QED
      BY <1>1, <3>3
  <2>7. Expire
    BY <1>1, <2>2, <2>3, <2>4, <2>5, <2>6, Zenon DEF Next, Watch, QuietStep
  <2>8. PICK keys \in SUBSET DOMAIN entries :
               /\ \A k \in keys : entries[k].deadline <= now
               /\ \A d \in Conn \ Left(keys) : at'[d] = at[d]
    BY <1>1, <2>7, ExpireTakes
  <2>9. c \in Left(keys)
    BY <1>1, <2>0, <2>8
  <2> QED
    BY <2>8, <2>9 DEF Left
<1>2. LInv /\ [Next]_vars =>
          [\A c \in Http : at[c] = "parked" /\ at'[c] = "closed" =>
              \/ signal[<<c, 0>>] # "none" \/ watcher = "down"
              \/ \E k \in DOMAIN entries : entries[k].what = c /\ entries[k].deadline <= now]_vars
  BY <1>1
<1> QED
  BY <1>2, LotInductive, PTL DEF Spec, KeptUntilDue

-----------------------------------------------------------------------------
\* While the watcher sleeps it will wake in time for all that is parked, or the bell will tell it.
WakesInTime ==
    watcher = "wait" =>
        \/ until # None /\ \A p \in deadlines : until <= p[1]
        \/ deadlines = {} \/ bell \/ ringing # {}

LEMMA WakesInTimeStep ==
    ASSUME LInv, WakesInTime, [Next]_vars
    PROVE  WakesInTime'
<1>0. deadlines \subseteq Nat \X Keys /\ until \in Nat \cup {None}
  BY LotTypes DEF TypeOK
<1>1. CASE Measure
  <2>1. CASE deadlines = {}
    BY <1>1, <2>1 DEF Measure, inner, WakesInTime
  <2>2. CASE deadlines # {}
    <3>1. First(deadlines) \in deadlines /\ \A p \in deadlines : First(deadlines)[1] <= p[1]
      BY <1>0, <2>2, FirstIsFirst
    <3>2. until' = First(deadlines)[1] /\ deadlines' = deadlines
      BY <1>1, <2>2 DEF Measure, inner
    <3>3. until' # None
      BY <1>0, <3>1, <3>2, TimeAssumption
    <3> QED
      BY <3>1, <3>2, <3>3 DEF WakesInTime
  <2> QED
    BY <2>1, <2>2
<1>2. CASE watcher' # "wait"
  BY <1>2 DEF WakesInTime
<1>3. ASSUME ~ Measure, watcher' = "wait"
      PROVE  watcher = "wait" /\ until' = until
  BY <1>3 DEF Next, Watch, Wake, Handled, Expire, ShutDown, Drain, Handle, Stale, Interrupted,
     Fails,
              Started, Tick, Evict, PeerActs, Serve, Finish, Park, Resume, Ring, loop, vars
<1>4. ASSUME watcher = "wait", watcher' = "wait", bell
      PROVE  bell'
  BY <1>4, Zenon DEF Next, Watch, Measure, Wake, Handled, Expire, ShutDown, Drain, Handle,
     Stale,
              Interrupted, Fails, Started, Tick, Evict, PeerActs, Serve, Finish, Park, Resume, Ring, vars
<1>5. ASSUME ringing # {}
      PROVE  bell' \/ ringing' # {}
  BY <1>5 DEF Next, Watch, Measure, Wake, Handled, Expire, ShutDown, Drain, Handle, Stale,
              Interrupted, Fails, Started, Tick, Evict, PeerActs, Serve, Finish, Park, Admit, Refuse,
              Resume, Ring, vars
<1>6. ASSUME watcher' = "wait"
      PROVE  \/ deadlines' \subseteq deadlines
             \/ ringing' # {}
             \/ \E d \in Nat : /\ deadlines' = deadlines \cup {<<d, nextKey>>}
                               /\ \E p \in deadlines : p[1] <= d
  <2>1. ASSUME NEW c \in Conn, NEW life \in Lifetimes, Admit(c, now + life)
        PROVE  \/ ringing' # {}
               \/ \E d \in Nat : /\ deadlines' = deadlines \cup {<<d, nextKey>>}
                                 /\ \E p \in deadlines : p[1] <= d
    <3>1. now + life \in Nat
      BY TimeAssumption DEF LInv, Types, ClockTyped
    <3>2. CASE IsEarliest(now + life)
      BY <2>1, <3>2 DEF Admit
    <3>3. CASE ~ IsEarliest(now + life)
      <4>1. PICK p \in deadlines : ~ (now + life < p[1])
        BY <3>3 DEF IsEarliest
      <4>2. p[1] <= now + life
        BY <1>0, <3>1, <4>1
      <4>3. deadlines' = deadlines \cup {<<now + life, nextKey>>}
        BY <2>1 DEF Admit
      <4> QED
        BY <3>1, <4>2, <4>3
    <3> QED
      BY <3>2, <3>3
  <2>2. ASSUME NEW c \in Conn, Park(c)
        PROVE  deadlines' = deadlines \/ \E life \in Lifetimes : Admit(c, now + life)
    BY <2>2 DEF Park, Refuse
  <2>3. ASSUME ~ (\E c \in Conn : Park(c))
        PROVE  deadlines' \subseteq deadlines
    <3>1. ASSUME NEW keys, Remove(keys) PROVE deadlines' \subseteq deadlines
      BY <3>1 DEF Remove
    <3>2. ASSUME Evict PROVE deadlines' \subseteq deadlines
      BY <3>1, <3>2, EvictTakes
    <3>3. ASSUME Expire PROVE deadlines' \subseteq deadlines
      BY <3>1, <3>3, ExpireTakes
    <3>4. ASSUME NEW e \in events, Handle(e) PROVE deadlines' \subseteq deadlines
      BY <3>1, <3>4 DEF Handle
    <3>5. ASSUME NEW c \in Conn, Serve(c) \/ Finish(c) \/ Resume(c)
          PROVE  deadlines' = deadlines
      BY <3>5 DEF Serve, Finish, Resume, inner
    <3>6. ASSUME QuietStep \/ Wake \/ ShutDown
                   \/ \E f \in Fd, what \in PeerActions : PeerActs(f, what)
          PROVE  deadlines' \subseteq deadlines
      BY <3>6 DEF QuietStep, Measure, Handled, Interrupted, Fails, Started, Tick, Drain, Stale,
                  Ring, Wake, ShutDown, PeerActs, inner, vars
    <3> QED
      BY <2>3, <3>2, <3>3, <3>4, <3>5, <3>6 DEF Next, Watch, QuietStep
  <2> QED
    BY <2>1, <2>2, <2>3
<1>7. ASSUME ~ Measure, watcher' = "wait"
      PROVE  \/ until' # None /\ \A p \in deadlines' : until' <= p[1]
             \/ deadlines' = {} \/ bell' \/ ringing' # {}
  <2>1. watcher = "wait" /\ until' = until
    BY <1>3, <1>7
  <2>2. CASE bell \/ ringing # {}
    BY <1>4, <1>5, <1>7, <2>1, <2>2
  <2>3. CASE deadlines = {}
    BY <1>6, <1>7, <2>3
  <2>4. CASE until # None /\ \A p \in deadlines : until <= p[1]
    <3>1. until \in Nat
      BY <1>0, <2>4
    <3>2. ASSUME NEW d \in Nat, deadlines' = deadlines \cup {<<d, nextKey>>},
                 NEW q \in deadlines, q[1] <= d
          PROVE  \A p \in deadlines' : until <= p[1]
      <4>1. q[1] \in Nat /\ until <= q[1]
        BY <1>0, <2>4
      <4>2. until <= d
        BY <3>1, <3>2, <4>1
      <4> QED
        BY <2>4, <3>2, <4>2
    <3> QED
      BY <1>6, <1>7, <2>1, <2>4, <3>2
  <2> QED
    BY <2>1, <2>2, <2>3, <2>4 DEF WakesInTime
<1> QED
  BY <1>1, <1>2, <1>7 DEF WakesInTime

\* The watcher never sleeps past a deadline: whoever parks a connection that is due earlier rings
\* after it has let go of the lock (park_any, next_timeout).
THEOREM NoWakeIsLost == Spec => []NoLostWake
<1>1. Init => WakesInTime
  BY DEF Init, WakesInTime
<1>2. LInv /\ WakesInTime /\ [Next]_vars => WakesInTime'
  BY WakesInTimeStep
<1>3. LInv /\ WakesInTime => NoLostWake
  <2> SUFFICES ASSUME LInv, WakesInTime, watcher = "wait", deadlines # {}, ~ bell, ringing = {}
               PROVE  until # None /\ until <= First(deadlines)[1]
    BY DEF NoLostWake
  <2>1. deadlines \subseteq Nat \X Keys
    BY LotTypes DEF TypeOK
  <2>2. First(deadlines) \in deadlines
    BY <2>1, FirstIsFirst
  <2> QED
    BY <2>2 DEF WakesInTime
<1> QED
  BY <1>1, <1>2, <1>3, LotInductive, PTL DEF Spec

=============================================================================
