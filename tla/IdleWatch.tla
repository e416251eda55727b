----------------------------- MODULE IdleWatch -----------------------------
(***************************************************************************)
(* The parking lot of idle connections (crates/server/src/idle.rs) with    *)
(* the threads that park into it (conn.rs, proxy-tunnel).                  *)
(*                                                                         *)
(* A worker that has nothing to read on a connection leaves it with one    *)
(* watcher thread, which sleeps in epoll_wait until a descriptor is ready, *)
(* the earliest deadline passes or a bell (an eventfd) is rung, and then   *)
(* hands the connection back to the thread pool or closes it.  An          *)
(* accepting thread at the connection limit evicts the oldest tunnel.      *)
(*                                                                         *)
(* Time is the natural number now; one unit is the millisecond to which    *)
(* next_timeout rounds up.  The thread pool is abstract: what it accepts   *)
(* is run some time later (module Workers models it).                      *)
(***************************************************************************)
EXTENDS Integers, FiniteSets, FiniteSetsExt

CONSTANTS
    Http,         \* keep-alive client connections: one descriptor each
    Tunnel,       \* CONNECT tunnels: two descriptors each
    Lifetimes,    \* keepalive and tunnel idle times (a reload changes them)
    ExpireBatch,  \* EXPIRE_BATCH
    MaxEvents,    \* MAX_EVENTS
    Faults,       \* which of "epoll_add", "epoll_wait", "panic", "refuse" occur;
                  \* "slow_start": the watcher runs before start has returned
    PeerActions,  \* which of "data", "gone" the peers do
    MaxNow,       \* bound: time stops here
    MaxKey,       \* bound: how often connections are parked
    None          \* no deadline: epoll_wait sleeps for ever

ASSUME ConnAssumption == Http \cap Tunnel = {} /\ IsFiniteSet(Http \cup Tunnel)
ASSUME TimeAssumption == Lifetimes \subseteq Nat /\ MaxNow \in Nat /\ None \notin Nat
ASSUME PeerAssumption == PeerActions \subseteq {"data", "gone"}
ASSUME BatchAssumption == ExpireBatch \in Nat \ {0} /\ MaxEvents \in Nat \ {0} /\ MaxKey \in Nat

Conn == Http \cup Tunnel
Side(c) == IF c \in Tunnel THEN {0, 1} ELSE {0}
Fd == {<<c, s>> : c \in Conn, s \in {0, 1}}
FdsOf(c) == {c} \X Side(c)
WakeToken == 0
Keys == 1..MaxKey

VARIABLES
    alive,      \* Inner.alive: the watcher still looks after what is parked
    entries,    \* Inner.entries: key -> the connection and its deadline
    deadlines,  \* Inner.deadlines: the set of <<deadline, key>>
    nextKey,    \* Inner.next_key
    tunnels,    \* Inner.tunnels: how many of the entries are tunnels
    epoll,      \* <<descriptor, key>> registered with epoll
    bell,       \* the eventfd is readable
    ringing,    \* the keys whose parker has yet to ring the bell
    watcher,    \* where the watcher thread is
    until,      \* the time its epoll_wait ends, or None
    events,     \* what epoll_wait returned and is not handled yet
    at,         \* who has each connection
    signal,     \* what the peer of each descriptor has done
    fixed,      \* connections that were refused and stay with their thread
    now,
    starter,    \* whether IdleWatch::start has returned
    flag        \* metrics.park_watcher_alive

inner == <<alive, entries, deadlines, nextKey, tunnels>>
loop == <<watcher, until, events>>
conns == <<at, signal, fixed>>
vars == <<inner, epoll, bell, ringing, loop, conns, now, starter, flag>>

TypeOK ==
    /\ alive \in BOOLEAN /\ bell \in BOOLEAN /\ flag \in BOOLEAN
    /\ DOMAIN entries \subseteq Keys
    /\ \A k \in DOMAIN entries : entries[k] \in [what : Conn, deadline : Nat]
    /\ deadlines \subseteq Nat \X Keys
    /\ nextKey \in 1..(MaxKey + 1) /\ tunnels \in Nat
    /\ epoll \subseteq Fd \X Keys
    /\ ringing \subseteq Keys
    /\ watcher \in {"measure", "wait", "events", "expire", "down", "dead"}
    /\ until \in Nat \cup {None}
    /\ events \subseteq [key : Keys \cup {WakeToken}, fd : Fd \cup {None}, gone : BOOLEAN]
    /\ at \in [Conn -> {"worker", "parked", "handed", "expiring", "closed"}]
    /\ signal \in [Fd -> {"none", "data", "gone"}]
    /\ fixed \subseteq Conn
    /\ now \in 0..MaxNow
    /\ starter \in {"starting", "started"}

Init ==
    /\ alive = TRUE /\ entries = [k \in {} |-> {}] /\ deadlines = {}
    /\ nextKey = 1 /\ tunnels = 0 /\ epoll = {}
    /\ bell = FALSE /\ ringing = {}
    /\ watcher = "measure" /\ until = None /\ events = {}
    /\ at = [c \in Conn |-> "worker"] /\ signal = [f \in Fd |-> "none"] /\ fixed = {}
    /\ now = 0
    /\ IF "slow_start" \in Faults THEN starter = "starting" /\ flag = FALSE
       ELSE starter = "started" /\ flag = TRUE

-----------------------------------------------------------------------------
\* Helpers under the lock.

Earlier(p, q) == p[1] < q[1] \/ (p[1] = q[1] /\ p[2] < q[2])
First(S) == CHOOSE p \in S : \A q \in S : p = q \/ Earlier(p, q)

\* Variant: the bell is only rung for the first connection of an empty lot.
IsEarliest_OnlyIntoEmpty(deadline) == deadlines = {}

\* The connection comes before everything that is parked: the watcher, which
\* may sleep until a later time, has to measure again.
IsEarliest(deadline) == \A p \in deadlines : deadline < p[1]

\* Variant: the deadline of the entry is left behind.
Remove_KeepsDeadline(keys) ==
    /\ entries' = [k \in DOMAIN entries \ keys |-> entries[k]]
    /\ epoll' = {r \in epoll : r[2] \notin keys}
    /\ tunnels' = tunnels - Cardinality({k \in keys : entries[k].what \in Tunnel})
    /\ UNCHANGED <<alive, nextKey, deadlines>>

\* Variant: the tunnels of an eviction or expiry are subtracted twice.
Remove_CountsTwice(keys) ==
    /\ entries' = [k \in DOMAIN entries \ keys |-> entries[k]]
    /\ deadlines' = {p \in deadlines : p[2] \notin keys}
    /\ epoll' = {r \in epoll : r[2] \notin keys}
    /\ tunnels' = tunnels - 2 * Cardinality({k \in keys : entries[k].what \in Tunnel})
    /\ UNCHANGED <<alive, nextKey>>

\* Taking keys out of the lot always clears the deadline, the descriptors and
\* the count of tunnels with the entry.
Remove(keys) ==
    /\ entries' = [k \in DOMAIN entries \ keys |-> entries[k]]
    /\ deadlines' = {p \in deadlines : p[2] \notin keys}
    /\ epoll' = {r \in epoll : r[2] \notin keys}
    /\ tunnels' = tunnels - Cardinality({k \in keys : entries[k].what \in Tunnel})
    /\ UNCHANGED <<alive, nextKey>>

Place(cs, place) == at' = [c \in Conn |-> IF c \in cs THEN place ELSE at[c]]

\* What dropping a connection does to its sockets.
Silence(cs) == [f \in Fd |-> IF f[1] \in cs THEN "none" ELSE signal[f]]

-----------------------------------------------------------------------------
\* Workers and peers.

\* The peer sends something, closes or resets.
PeerActs(f, what) ==
    /\ f[2] \in Side(f[1]) /\ at[f[1]] \notin {"expiring", "closed"}
    /\ signal[f] # "gone" /\ signal[f] # what
    /\ signal' = [signal EXCEPT ![f] = what]
    /\ UNCHANGED <<inner, epoll, bell, ringing, loop, at, fixed, now, starter, flag>>

\* A worker reads what is there: it serves it, or finds that a peer has gone.
Serve(c) ==
    /\ at[c] = "worker"
    /\ \E f \in FdsOf(c) : signal[f] # "none"
    /\ IF \E f \in FdsOf(c) : signal[f] = "gone" THEN Place({c}, "closed") ELSE UNCHANGED at
    /\ signal' = Silence({c})
    /\ UNCHANGED <<inner, epoll, bell, ringing, loop, fixed, now, starter, flag>>

\* The request or the tunnel ends while its worker has it.
Finish(c) ==
    /\ at[c] = "worker"
    /\ Place({c}, "closed") /\ signal' = Silence({c})
    /\ UNCHANGED <<inner, epoll, bell, ringing, loop, fixed, now, starter, flag>>

\* Variant: only the first descriptor of a connection is registered.
Admit_HalfWatched(c, deadline) ==
    /\ entries' = [k \in DOMAIN entries \cup {nextKey} |->
                     IF k = nextKey THEN [what |-> c, deadline |-> deadline] ELSE entries[k]]
    /\ deadlines' = deadlines \cup {<<deadline, nextKey>>}
    /\ nextKey' = nextKey + 1
    /\ tunnels' = tunnels + (IF c \in Tunnel THEN 1 ELSE 0)
    /\ epoll' = epoll \cup {<<<<c, 0>>, nextKey>>}
    /\ ringing' = IF IsEarliest(deadline) THEN ringing \cup {nextKey} ELSE ringing
    /\ Place({c}, "parked")
    /\ UNCHANGED <<alive, fixed>>

Admit(c, deadline) ==
    /\ entries' = [k \in DOMAIN entries \cup {nextKey} |->
                     IF k = nextKey THEN [what |-> c, deadline |-> deadline] ELSE entries[k]]
    /\ deadlines' = deadlines \cup {<<deadline, nextKey>>}
    /\ nextKey' = nextKey + 1
    /\ tunnels' = tunnels + (IF c \in Tunnel THEN 1 ELSE 0)
    /\ epoll' = epoll \cup (FdsOf(c) \X {nextKey})
    /\ ringing' = IF IsEarliest(deadline) THEN ringing \cup {nextKey} ELSE ringing
    /\ Place({c}, "parked")
    /\ UNCHANGED <<alive, fixed>>

\* The thread keeps a connection the lot does not take, and never tries again.
Refuse(c) ==
    /\ fixed' = fixed \cup {c}
    /\ UNCHANGED <<alive, entries, deadlines, tunnels, epoll, ringing, at>>

\* Variant: whether the watcher lives is not looked at under the lock.
Park_Unguarded(c) ==
    /\ at[c] = "worker" /\ c \notin fixed
    /\ nextKey <= MaxKey
    /\ \E life \in Lifetimes : Admit(c, now + life)
    /\ UNCHANGED <<bell, loop, signal, now, starter, flag>>

\* park_any: one critical section.  A key is used up even if epoll refuses.
Park(c) ==
    /\ at[c] = "worker" /\ c \notin fixed
    /\ nextKey <= MaxKey
    /\ \/ alive /\ \E life \in Lifetimes : Admit(c, now + life)
       \/ alive /\ "epoll_add" \in Faults /\ nextKey' = nextKey + 1 /\ Refuse(c)
       \/ ~alive /\ Refuse(c) /\ UNCHANGED nextKey
    /\ UNCHANGED <<bell, loop, signal, now, starter, flag>>

\* The parker rings after it has let go of the lock.  By then the connection
\* may be anywhere.
Ring(k) ==
    /\ k \in ringing
    /\ ringing' = ringing \ {k} /\ bell' = TRUE
    /\ UNCHANGED <<inner, epoll, loop, conns, now, starter, flag>>

\* A pool thread runs what it was handed: run_conn, tunnel::resume or expire.
Resume(c) ==
    /\ at[c] \in {"handed", "expiring"}
    /\ IF at[c] = "handed" THEN Place({c}, "worker") ELSE Place({c}, "closed")
    /\ UNCHANGED <<inner, epoll, bell, ringing, loop, signal, fixed, now, starter, flag>>

\* Variant: whatever is due first is closed, a keep-alive connection too.
Evict_AnyKind ==
    /\ deadlines # {}
    /\ LET key == First(deadlines)[2]
       IN  /\ Remove({key})
           /\ Place({entries[key].what}, "closed") /\ signal' = Silence({entries[key].what})
    /\ UNCHANGED <<bell, ringing, loop, fixed, now, starter, flag>>

\* An accepting thread at the limit closes the parked tunnel that is due first.
Evict ==
    LET parked == {p \in deadlines : entries[p[2]].what \in Tunnel}
    IN  /\ parked # {}
        /\ LET key == First(parked)[2]
           IN  /\ Remove({key})
               /\ Place({entries[key].what}, "closed") /\ signal' = Silence({entries[key].what})
        /\ UNCHANGED <<bell, ringing, loop, fixed, now, starter, flag>>

-----------------------------------------------------------------------------
\* The watcher thread.

\* next_timeout: measured under the lock, slept without it.
Measure ==
    /\ watcher = "measure"
    /\ watcher' = "wait"
    /\ until' = IF deadlines = {} THEN None ELSE First(deadlines)[1]
    /\ UNCHANGED <<inner, epoll, bell, ringing, events, conns, now, starter, flag>>

Ready ==
    {[key |-> r[2], fd |-> r[1], gone |-> signal[r[1]] = "gone"] :
        r \in {x \in epoll : signal[x[1]] # "none"}}
    \cup (IF bell THEN {[key |-> WakeToken, fd |-> None, gone |-> FALSE]} ELSE {})

\* epoll_wait returns as many of the ready descriptors as fit, or none when the
\* time is over.
Wake ==
    /\ watcher = "wait"
    /\ Ready # {} \/ (until # None /\ now >= until)
    /\ IF Cardinality(Ready) <= MaxEvents THEN events' = Ready
       ELSE events' \in kSubset(MaxEvents, Ready)
    /\ watcher' = "events" /\ until' = None
    /\ UNCHANGED <<inner, epoll, bell, ringing, conns, now, starter, flag>>

\* A signal interrupts epoll_wait, which happens only while nothing is ready:
\* no event, and the loop goes round.
Interrupted ==
    /\ watcher = "wait" /\ Ready = {}
    /\ watcher' = "events" /\ until' = None
    /\ UNCHANGED <<inner, epoll, bell, ringing, events, conns, now, starter, flag>>

Drain(e) ==
    /\ watcher = "events" /\ e \in events /\ e.key = WakeToken
    /\ bell' = FALSE /\ events' = events \ {e}
    /\ UNCHANGED <<inner, epoll, ringing, watcher, until, conns, now, starter, flag>>

\* Variant: what the pool refuses is forgotten instead of dropped.
Hand_Forgets(c) ==
    \/ Place({c}, "handed") /\ UNCHANGED signal
    \/ "refuse" \in Faults /\ UNCHANGED <<at, signal>>

\* The pool takes a job, or gives it back and what is in it is dropped.
Hand(c) ==
    \/ Place({c}, "handed") /\ UNCHANGED signal
    \/ "refuse" \in Faults /\ Place({c}, "closed") /\ signal' = Silence({c})

\* Variant: connections are looked up by descriptor and not by key.
Handle_ByDescriptor(e) ==
    /\ watcher = "events" /\ e \in events /\ e.key # WakeToken
    /\ \E k \in DOMAIN entries :
         /\ entries[k].what = e.fd[1]
         /\ IF e.fd[1] \in Http /\ e.gone
            THEN Place({e.fd[1]}, "closed") /\ signal' = Silence({e.fd[1]})
            ELSE Hand(e.fd[1])
         /\ Remove({k})
    /\ events' = events \ {e}
    /\ UNCHANGED <<bell, ringing, watcher, until, fixed, now, starter, flag>>

\* The event of a connection that is still parked: a keep-alive connection
\* whose client is gone is closed here, all others go to the pool.
Handle(e) ==
    /\ watcher = "events" /\ e \in events /\ e.key \in DOMAIN entries
    /\ LET c == entries[e.key].what
       IN  IF c \in Http /\ e.gone
           THEN Place({c}, "closed") /\ signal' = Silence({c})
           ELSE Hand(c)
    /\ Remove({e.key})
    /\ events' = events \ {e}
    /\ UNCHANGED <<bell, ringing, watcher, until, fixed, now, starter, flag>>

\* The entry has left meanwhile (evicted, or the other descriptor came first).
Stale(e) ==
    /\ watcher = "events" /\ e \in events
    /\ e.key # WakeToken /\ e.key \notin DOMAIN entries
    /\ events' = events \ {e}
    /\ UNCHANGED <<inner, epoll, bell, ringing, watcher, until, conns, now, starter, flag>>

Handled ==
    /\ watcher = "events" /\ events = {}
    /\ watcher' = "expire"
    /\ UNCHANGED <<inner, epoll, bell, ringing, until, events, conns, now, starter, flag>>

Due == {p \in deadlines : p[1] <= now}

\* expire and close_expired: the first of what is due, at most a batch.
\* Keep-alive connections are closed here, tunnels on a thread of the pool.
Expire ==
    /\ watcher = "expire"
    /\ watcher' = "measure"
    /\ LET batch == {p \in Due : Cardinality({q \in Due : Earlier(q, p)}) < ExpireBatch}
           keys == {p[2] : p \in batch}
           out == {entries[k].what : k \in keys}
       IN  /\ Remove(keys)
           /\ \E refused \in IF "refuse" \in Faults THEN SUBSET (out \cap Tunnel) ELSE {{}} :
                at' = [c \in Conn |-> IF c \in (out \cap Http) \cup refused THEN "closed"
                                      ELSE IF c \in out THEN "expiring" ELSE at[c]]
           /\ signal' = Silence(out)
    /\ UNCHANGED <<bell, ringing, until, events, fixed, now, starter, flag>>

\* epoll_wait fails, or the loop panics.
Fails ==
    /\ \/ watcher = "wait" /\ "epoll_wait" \in Faults
       \/ watcher \in {"measure", "wait", "events", "expire"} /\ "panic" \in Faults
    /\ watcher' = "down" /\ until' = None /\ events' = {}
    /\ UNCHANGED <<inner, epoll, bell, ringing, conns, now, starter, flag>>

\* shut_down: what is parked is closed, and nothing is taken in again.
ShutDown ==
    /\ watcher = "down"
    /\ watcher' = "dead"
    /\ LET left == {entries[k].what : k \in DOMAIN entries}
       IN  Place(left, "closed") /\ signal' = Silence(left)
    /\ alive' = FALSE /\ entries' = [k \in {} |-> {}] /\ deadlines' = {} /\ tunnels' = 0
    /\ epoll' = {} /\ flag' = FALSE
    /\ UNCHANGED <<nextKey, bell, ringing, until, events, fixed, now, starter>>

\* The last step of IdleWatch::start, after the watcher is spawned.
Started ==
    /\ starter = "starting"
    /\ starter' = "started" /\ flag' = TRUE
    /\ UNCHANGED <<inner, epoll, bell, ringing, loop, conns, now>>

Tick ==
    /\ now < MaxNow
    /\ now' = now + 1
    /\ UNCHANGED <<inner, epoll, bell, ringing, loop, conns, starter, flag>>

Watch ==
    \/ Measure \/ Wake \/ Handled \/ Expire \/ ShutDown
    \/ \E e \in events : Drain(e) \/ Handle(e) \/ Stale(e)

Next ==
    \/ Watch \/ Interrupted \/ Fails \/ Started \/ Tick \/ Evict
    \/ \E f \in Fd, what \in PeerActions : PeerActs(f, what)
    \/ \E c \in Conn : Serve(c) \/ Finish(c) \/ Park(c) \/ Resume(c)
    \/ \E k \in ringing : Ring(k)

Spec == Init /\ [][Next]_vars

\* The watcher thread, the parkers and the clock go on.  Nothing is assumed of
\* peers, of evictions, or of workers that have a connection.
FairSpec ==
    /\ Spec
    /\ WF_vars(Watch) /\ WF_vars(Tick)
    /\ \A k \in Keys : WF_vars(Ring(k))

-----------------------------------------------------------------------------
\* The books of the lot agree: every entry has its one deadline and its
\* descriptors in epoll and nothing else has, and the tunnels are counted
\* (idle.rs:193, "the two always have the same set of keys").
BooksAgree ==
    /\ deadlines = {<<entries[k].deadline, k>> : k \in DOMAIN entries}
    /\ epoll = UNION {FdsOf(entries[k].what) \X {k} : k \in DOMAIN entries}
    /\ tunnels = Cardinality({k \in DOMAIN entries : entries[k].what \in Tunnel})

\* A connection is parked under one key or somebody else has it, never both.
OneCustodian ==
    /\ \A c \in Conn : at[c] = "parked" <=> \E k \in DOMAIN entries : entries[k].what = c
    /\ \A k, l \in DOMAIN entries : entries[k].what = entries[l].what => k = l

\* The watcher never sleeps past the first deadline: it wakes in time, the bell
\* stands, or a parker is about to ring it.
NoLostWake ==
    watcher = "wait" /\ deadlines # {} =>
        \/ until # None /\ until <= First(deadlines)[1]
        \/ bell \/ ringing # {}

\* Once the watcher has gone nothing is left parked, or comes in.
StoppedHoldsNothing == watcher = "dead" => entries = [k \in {} |-> {}] /\ ~alive

\* The lot as a whole: the books agree with each other and with who has the
\* connections, and a watcher that is gone has none.
LotAccounted == TypeOK /\ BooksAgree /\ OneCustodian /\ StoppedHoldsNothing

\* A parked connection is handed to a worker only if one of its own peers did
\* something, whatever events of earlier stays are still being handled.
WokenForCause ==
    [][\A c \in Conn : at[c] = "parked" /\ at'[c] = "handed" =>
          \E f \in FdsOf(c) : signal[f] # "none"]_vars

\* A parked keep-alive connection whose client may still send is never closed
\* before its time: not by an eviction, and not by the watcher.
KeptUntilDue ==
    [][\A c \in Http : at[c] = "parked" /\ at'[c] = "closed" =>
          \/ signal[<<c, 0>>] # "none" \/ watcher = "down"
          \/ \E k \in DOMAIN entries : entries[k].what = c /\ entries[k].deadline <= now]_vars

\* What is parked past its deadline leaves the lot.
DueIsReleased ==
    \A c \in Conn :
        (\E k \in DOMAIN entries : entries[k].what = c /\ entries[k].deadline <= now)
            ~> at[c] # "parked"

\* What is parked and ready leaves the lot.
ReadyIsReleased ==
    \A c \in Conn : (at[c] = "parked" /\ \E f \in FdsOf(c) : signal[f] # "none")
        ~> at[c] # "parked"

=============================================================================
