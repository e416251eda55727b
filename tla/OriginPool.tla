------------------------------ MODULE OriginPool ------------------------------
(***************************************************************************)
(* The pool of idle connections to origins (crates/origin/src/pool.rs) and *)
(* the connection threads that take from it and give back to it.           *)
(*                                                                         *)
(* The rows are behind a lock, the number of pooled connections is an      *)
(* atomic next to it that is changed inside the lock by `get' and outside  *)
(* of it by `put' and `sweep'; an atomic operation is a step of its own    *)
(* wherever other threads can run between it and the lock.                 *)
(***************************************************************************)
EXTENDS Integers, Sequences, FiniteSets

CONSTANTS
    Threads,     \* connection threads
    Sweeper,     \* the thread that reloads .env and sweeps
    Hosts,       \* keys scheme://host:port
    Conns,       \* sockets
    MaxPerHost,  \* max_per_host, not 0: the pool is enabled
    MaxTotal,    \* max_total
    Wrap,        \* the number of values of a usize
    None

SweeperAssumption == Sweeper \notin Threads /\ IsFiniteSet(Threads)
ConnsAssumption == None \notin Conns /\ IsFiniteSet(Conns) /\ IsFiniteSet(Hosts)
\* A word counts more than the connections that all threads together could hold.
LimitsAssumption == /\ MaxPerHost \in Nat \ {0} /\ MaxTotal \in Nat \ {0} /\ Wrap \in Nat
                    /\ Wrap > MaxTotal + Cardinality(Conns) * (Cardinality(Threads) + 2)

VARIABLES
    rows,        \* idle: the connections of each host, the newest last
    entries,     \* the hosts that have a row, an empty one perhaps
    total,       \* the atomic count
    pc, conn, host,
    pend,        \* the connections that each thread has still to subtract from total
    stale,       \* connections idle for longer than idle_timeout
    unusable     \* closed by the peer, or with bytes nobody read

vars == <<rows, entries, total, pc, conn, host, pend, stale, unusable>>

Everyone == Threads \cup {Sweeper}
Range1(s) == {s[i] : i \in DOMAIN s}
Pooled == UNION {Range1(rows[h]) : h \in Hosts}
Held == {conn[t] : t \in Threads} \ {None}

Plus(n) == (total + n) % Wrap       \* fetch_add
\* Variant: a signed counter.
Minus_NoWrap(n) == total - n

Minus(n) == (total - n) % Wrap      \* fetch_sub

Init ==
    /\ rows = [h \in Hosts |-> <<>>]
    /\ entries = {}
    /\ total = 0
    /\ pc = [t \in Everyone |-> "home"]
    /\ conn = [t \in Threads |-> None]
    /\ host \in [Threads -> Hosts]
    /\ pend = [t \in Everyone |-> {}]
    /\ stale = {} /\ unusable = {}

-----------------------------------------------------------------------------
(***************************************************************************)
(* get: a thread looks for a connection, dials when there is none.         *)
(***************************************************************************)
Get(t, h) ==
    /\ pc[t] = "home"
    /\ host' = [host EXCEPT ![t] = h]
    /\ pc' = [pc EXCEPT ![t] = "get"]
    /\ UNCHANGED <<rows, entries, total, conn, pend, stale, unusable>>

\* The row loses its newest connection and the total is lowered, both under
\* the lock; a row that becomes empty is only removed when there are more
\* rows than connections the pool may hold.
\* Variant: the empty row is left, however many there are.
TakeNewest_KeepsRow(t) ==
    LET q == rows[host[t]] IN
    /\ pc[t] = "get" /\ q # <<>>
    /\ conn' = [conn EXCEPT ![t] = q[Len(q)]]
    /\ rows' = [rows EXCEPT ![host[t]] = SubSeq(q, 1, Len(q) - 1)]
    /\ total' = Minus(1)
    /\ pc' = [pc EXCEPT ![t] = "check"]
    /\ UNCHANGED <<entries, host, pend, stale, unusable>>

TakeNewest(t) ==
    LET q == rows[host[t]] IN
    /\ pc[t] = "get" /\ q # <<>>
    /\ conn' = [conn EXCEPT ![t] = q[Len(q)]]
    /\ rows' = [rows EXCEPT ![host[t]] = SubSeq(q, 1, Len(q) - 1)]
    /\ total' = Minus(1)
    /\ entries' = IF Len(q) = 1 /\ Cardinality(entries) > MaxTotal
                  THEN entries \ {host[t]} ELSE entries
    /\ pc' = [pc EXCEPT ![t] = "check"]
    /\ UNCHANGED <<host, pend, stale, unusable>>

FindNone(t) ==
    /\ pc[t] = "get" /\ rows[host[t]] = <<>>
    /\ entries' = IF host[t] \in entries /\ Cardinality(entries) > MaxTotal
                  THEN entries \ {host[t]} ELSE entries
    /\ pc' = [pc EXCEPT ![t] = "dial"]
    /\ UNCHANGED <<rows, total, conn, host, pend, stale, unusable>>

\* The age and the peek, outside of the lock; then a set_timeouts that may
\* fail, which closes the connection and ends the search.
Check(t) ==
    /\ pc[t] = "check"
    /\ \/ /\ conn[t] \notin stale \cup unusable
          /\ \/ pc' = [pc EXCEPT ![t] = "using"] /\ UNCHANGED conn
             \/ pc' = [pc EXCEPT ![t] = "dial"] /\ conn' = [conn EXCEPT ![t] = None]
       \/ /\ conn[t] \in stale \cup unusable
          /\ pc' = [pc EXCEPT ![t] = "get"]
          /\ conn' = [conn EXCEPT ![t] = None]
    /\ UNCHANGED <<rows, entries, total, host, pend, stale, unusable>>

\* A new connection, or an origin that cannot be reached.
Dial(t) ==
    /\ pc[t] = "dial"
    /\ \/ \E c \in Conns \ (Pooled \cup Held) :
            /\ conn' = [conn EXCEPT ![t] = c]
            /\ stale' = stale \ {c} /\ unusable' = unusable \ {c}
            /\ pc' = [pc EXCEPT ![t] = "using"]
       \/ pc' = [pc EXCEPT ![t] = "home"] /\ UNCHANGED <<conn, stale, unusable>>
    /\ UNCHANGED <<rows, entries, total, host, pend>>

-----------------------------------------------------------------------------
(***************************************************************************)
(* put: the response has been read.  A connection with bytes left in its   *)
(* buffer, or one that must not be reused, is closed instead.              *)
(***************************************************************************)
Close(t) ==
    /\ pc[t] = "using"
    /\ conn' = [conn EXCEPT ![t] = None]
    /\ pc' = [pc EXCEPT ![t] = "home"]
    /\ UNCHANGED <<rows, entries, total, host, pend, stale, unusable>>

\* The cap on all the connections is looked at before the lock is taken.
\* Variant: the count is compared with the cap the wrong way round by one.
Put_OneTooMany(t) ==
    /\ pc[t] = "using"
    /\ \/ /\ total > MaxTotal
          /\ conn' = [conn EXCEPT ![t] = None]
          /\ pc' = [pc EXCEPT ![t] = "home"]
       \/ /\ total <= MaxTotal
          /\ pc' = [pc EXCEPT ![t] = "push"]
          /\ UNCHANGED conn
    /\ UNCHANGED <<rows, entries, total, host, pend, stale, unusable>>

Put(t) ==
    /\ pc[t] = "using"
    /\ \/ /\ total >= MaxTotal
          /\ conn' = [conn EXCEPT ![t] = None]
          /\ pc' = [pc EXCEPT ![t] = "home"]
       \/ /\ total < MaxTotal
          /\ pc' = [pc EXCEPT ![t] = "push"]
          /\ UNCHANGED conn
    /\ UNCHANGED <<rows, entries, total, host, pend, stale, unusable>>

\* Variants: the connections pushed out are not counted; the thread goes on
\* using the connection it has given back.
Push_ForgetsDropped(t) ==
    LET q == rows[host[t]]
        dropped == IF Len(q) < MaxPerHost THEN 0 ELSE Len(q) - MaxPerHost + 1
    IN
    /\ pc[t] = "push"
    /\ rows' = [rows EXCEPT ![host[t]] = Append(SubSeq(q, dropped + 1, Len(q)), conn[t])]
    /\ entries' = entries \cup {host[t]}
    /\ stale' = stale \ {conn[t]}
    /\ conn' = [conn EXCEPT ![t] = None]
    /\ pc' = [pc EXCEPT ![t] = "add"]
    /\ UNCHANGED <<total, host, pend, unusable>>

Push_KeepsHold(t) ==
    /\ pc[t] = "push"
    /\ rows' = [rows EXCEPT ![host[t]] = Append(SubSeq(rows[host[t]], 1, MaxPerHost - 1), conn[t])]
    /\ entries' = entries \cup {host[t]}
    /\ pc' = [pc EXCEPT ![t] = "add"]
    /\ UNCHANGED <<total, conn, host, pend, stale, unusable>>

\* The oldest connections make room under the lock; the counter follows after it.
Push(t) ==
    LET q == rows[host[t]]
        dropped == IF Len(q) < MaxPerHost THEN 0 ELSE Len(q) - MaxPerHost + 1
    IN
    /\ pc[t] = "push"
    /\ rows' = [rows EXCEPT ![host[t]] = Append(SubSeq(q, dropped + 1, Len(q)), conn[t])]
    /\ entries' = entries \cup {host[t]}
    /\ stale' = stale \ {conn[t]}
    /\ conn' = [conn EXCEPT ![t] = None]
    /\ pend' = [pend EXCEPT ![t] = {q[i] : i \in 1 .. dropped}]
    /\ pc' = [pc EXCEPT ![t] = "add"]
    /\ UNCHANGED <<total, host, unusable>>

Add(t) ==
    /\ pc[t] = "add"
    /\ total' = Plus(1)
    /\ pc' = [pc EXCEPT ![t] = IF pend[t] # {} THEN "sub" ELSE "home"]
    /\ UNCHANGED <<rows, entries, conn, host, pend, stale, unusable>>

Sub(t) ==
    /\ pc[t] = "sub"
    /\ total' = Minus(Cardinality(pend[t]))
    /\ pend' = [pend EXCEPT ![t] = {}]
    /\ pc' = [pc EXCEPT ![t] = "home"]
    /\ UNCHANGED <<rows, entries, conn, host, stale, unusable>>

-----------------------------------------------------------------------------
(***************************************************************************)
(* sweep: under the lock the expired connections and the empty rows go,    *)
(* then the total is lowered.                                              *)
(***************************************************************************)
\* retain: what is left of a row, in its order.
Kept(q) ==
    LET fresh == {i \in DOMAIN q : q[i] \notin stale}
        nth(n) == CHOOSE i \in fresh : Cardinality({j \in fresh : j <= i}) = n
    IN [n \in 1 .. Cardinality(fresh) |-> q[nth(n)]]

Sweep ==
    /\ pc[Sweeper] = "home"
    /\ rows' = [h \in Hosts |-> Kept(rows[h])]
    /\ entries' = {h \in entries : rows'[h] # <<>>}
    /\ pend' = [pend EXCEPT ![Sweeper] = Pooled \cap stale]
    /\ pc' = [pc EXCEPT ![Sweeper] = IF Pooled \cap stale = {} THEN "home" ELSE "sub"]
    /\ UNCHANGED <<total, conn, host, stale, unusable>>

-----------------------------------------------------------------------------
\* A pooled connection gets old; a peer closes, or sends what nobody asked.
Age(c) ==
    /\ c \in Pooled \ stale
    /\ stale' = stale \cup {c}
    /\ UNCHANGED <<rows, entries, total, pc, conn, host, pend, unusable>>

PeerActs(c) ==
    /\ c \in (Pooled \cup Held) \ unusable
    /\ unusable' = unusable \cup {c}
    /\ UNCHANGED <<rows, entries, total, pc, conn, host, pend, stale>>

Step(t) ==
    \/ \E h \in Hosts : Get(t, h)
    \/ TakeNewest(t) \/ FindNone(t) \/ Check(t) \/ Dial(t)
    \/ Close(t) \/ Put(t) \/ Push(t) \/ Add(t)

Next ==
    \/ \E t \in Threads : Step(t)
    \/ \E t \in Everyone : Sub(t)
    \/ Sweep
    \/ \E c \in Conns : Age(c) \/ PeerActs(c)

Spec == Init /\ [][Next]_vars

-----------------------------------------------------------------------------
(***************************************************************************)
(* Properties.                                                             *)
(***************************************************************************)
Pcs == {"home", "get", "check", "dial", "using", "push", "add", "sub"}

\* The variables have their types.
TypeOK ==
    /\ rows \in [Hosts -> Seq(Conns)]
    /\ entries \subseteq Hosts
    /\ total \in 0 .. Wrap - 1
    /\ pc \in [Everyone -> Pcs]
    /\ conn \in [Threads -> Conns \cup {None}]
    /\ host \in [Threads -> Hosts]
    /\ pend \in [Everyone -> SUBSET Conns]
    /\ stale \subseteq Conns /\ unusable \subseteq Conns

\* A connection is in one place of one row, or in the hands of one thread:
\* two requests never share one, and none is used after it was given back.
SingleHolder ==
    /\ \A g, h \in Hosts : \A i \in DOMAIN rows[g], j \in DOMAIN rows[h] :
           rows[g][i] = rows[h][j] => g = h /\ i = j
    /\ \A t, u \in Threads : conn[t] = conn[u] /\ conn[t] # None => t = u
    /\ Pooled \cap Held = {}

\* What is still to be added to and subtracted from the total.
Adding == {t \in Threads : pc[t] = "add"}
Owed == {o \in Everyone \X Conns : o[2] \in pend[o[1]]}

\* The total is the number of pooled connections up to the additions and
\* subtractions under way, modulo the word; with nobody inside it is exact.
TotalAccounted ==
    total = (Cardinality(Pooled) - Cardinality(Adding) + Cardinality(Owed)) % Wrap

\* A row never exceeds its cap, which is looked at under the lock.  The cap in total,
\* which is looked at before, is exceeded by puts that were checked together, and by
\* no more than one for every other thread.
OvershootBounded ==
    /\ \A h \in Hosts : Len(rows[h]) <= MaxPerHost
    /\ Cardinality(Pooled) + Cardinality({t \in Threads : pc[t] = "push"})
          <= MaxTotal - 1 + Cardinality(Threads)

\* Every connection is in a row that exists, and rows without connections are
\* at most max_total, so the map cannot grow when nobody sweeps.
EmptyRowsBounded ==
    /\ \A h \in Hosts \ entries : rows[h] = <<>>
    /\ Cardinality({h \in entries : rows[h] = <<>>}) <= MaxTotal

\* The inductive invariant: a thread holds a connection exactly while it looks at it, uses it or
\* gives it back, and owes the total something only on its way out.
InHands ==
    /\ \A t \in Threads : conn[t] # None <=> pc[t] \in {"check", "using", "push"}
    /\ \A t \in Everyone : pend[t] # {} => pc[t] \in {"add", "sub"}
    /\ pc[Sweeper] \in {"home", "sub"}

PoolInv ==
    TypeOK /\ InHands /\ SingleHolder /\ TotalAccounted /\ OvershootBounded /\ EmptyRowsBounded
=============================================================================
