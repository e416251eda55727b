----------------------------- MODULE Admission -----------------------------
(***************************************************************************)
(* How a connection is let in and how its shares come back: serve, admit   *)
(* and spawn_connection (crates/server/src/lib.rs), the guards of conn.rs, *)
(* and the count of connections per client (metrics-recent, conn_table.rs).*)
(*                                                                         *)
(* Every listening socket has a thread that accepts.  It looks at the      *)
(* number of open connections, closes an idle tunnel to make room or takes *)
(* one of a few overflow slots, and only then counts the connection in.    *)
(* The connection is entered in the table of clients when a worker starts  *)
(* it.  A closing connection gives its shares back one by one.             *)
(***************************************************************************)
EXTENDS Integers, FiniteSets

CONSTANTS
    Listeners,      \* accepting threads
    Conns,          \* identities of connections; a closed one comes again
    Clients,        \* remote addresses
    MaxConns,       \* values of PROXY_MAX_CONNS a reload may set; 0: no limit
    PerClient,      \* values of PROXY_MAX_CONNS_PER_CLIENT; 0: no limit
    OverflowSlots,  \* OVERFLOW_SLOTS
    Lites,          \* whether it runs with --lite: connections get no slot then
    None

LimitAssumption ==
    /\ MaxConns \subseteq Nat /\ (\E m \in MaxConns : \A n \in MaxConns : n <= m)
    /\ IsFiniteSet(Listeners) /\ Listeners # {} /\ IsFiniteSet(Conns)
    /\ PerClient \subseteq Nat /\ PerClient # {}
    /\ OverflowSlots \in Nat /\ Lites \subseteq BOOLEAN /\ Lites # {}
NoneAssumption == None \notin Conns \cup Clients

VARIABLES
    max, per,       \* the configuration in force
    lite,           \* chosen at the start
    open,           \* Limiter.open
    overflow,       \* Limiter.overflow
    pc,             \* where each accepting thread is
    conn,           \* the connection it has accepted
    snap,           \* the limits it took for it: config_of()
    victim,         \* the tunnel it evicts
    st,             \* the life of each connection
    client,         \* where each connection comes from
    guards,         \* the shares it carries
    counting,       \* ConnTable.counting
    slots,          \* Conns.slots: connections with a slot
    counted,        \* Conns.client_of: connections counted for their client
    perClient       \* Conns.per_client; 0 is the absent row

config == <<max, per, lite>>
limiter == <<open, overflow>>
acceptor == <<pc, conn, snap, victim>>
life == <<st, client, guards>>
table == <<counting, slots, counted, perClient>>
vars == <<config, limiter, acceptor, life, table>>

Guard == {"overflow", "open", "active"}

\* The types but for the numbers.
Shape ==
    /\ max \in MaxConns /\ per \in PerClient /\ lite \in Lites
    /\ pc \in [Listeners -> {"idle", "client", "slot_client", "total", "evict", "drop",
                             "slot_total", "acquire"}]
    /\ conn \in [Listeners -> Conns \cup {None}] /\ victim \in [Listeners -> Conns \cup {None}]
    /\ snap \in [Listeners -> [max : MaxConns, per : PerClient]]
    /\ st \in [Conns -> {"away", "accepted", "queued", "live", "tunnel", "parked", "closing"}]
    /\ client \in [Conns -> Clients \cup {None}]
    /\ guards \in [Conns -> SUBSET Guard]
    /\ counting \in BOOLEAN /\ slots \subseteq Conns /\ counted \subseteq Conns

LimiterOK == open \in Nat /\ overflow \in 0..OverflowSlots
RowsOK == perClient \in [Clients -> Nat]

TypeOK == Shape /\ LimiterOK /\ RowsOK

Init ==
    /\ max \in MaxConns /\ per \in PerClient /\ lite \in Lites
    /\ open = 0 /\ overflow = 0
    /\ pc = [l \in Listeners |-> "idle"] /\ conn = [l \in Listeners |-> None]
    /\ victim = [l \in Listeners |-> None]
    /\ snap = [l \in Listeners |-> [max |-> max, per |-> per]]
    /\ st = [c \in Conns |-> "away"] /\ client = [c \in Conns |-> None]
    /\ guards = [c \in Conns |-> {}]
    /\ counting = FALSE /\ slots = {} /\ counted = {} /\ perClient = [k \in Clients |-> 0]

-----------------------------------------------------------------------------
\* The table of clients: each operation is one critical section.

Of(S, k) == {c \in S : client[c] = k}
Limited(l) == perClient[client[conn[l]]] >= snap[l].per

\* add_client and register: a slot unless --lite, a count while counting.
Register(c) ==
    /\ slots' = IF lite THEN slots ELSE slots \cup {c}
    /\ IF counting
       THEN counted' = counted \cup {c} /\ perClient' = [perClient EXCEPT ![client[c]] = @ + 1]
       ELSE UNCHANGED <<counted, perClient>>
    /\ UNCHANGED counting

\* Variant: a connection is subtracted whether or not it was counted.
Unregister_Blindly(c) ==
    /\ slots' = slots \ {c}
    /\ counted' = counted \ {c}
    /\ perClient' = IF counting THEN [perClient EXCEPT ![client[c]] = @ - 1] ELSE perClient
    /\ UNCHANGED counting

\* unregister and drop_client: only what was counted is subtracted.
Unregister(c) ==
    /\ slots' = slots \ {c}
    /\ IF counting /\ c \in counted
       THEN counted' = counted \ {c} /\ perClient' = [perClient EXCEPT ![client[c]] = @ - 1]
       ELSE UNCHANGED <<counted, perClient>>
    /\ UNCHANGED counting

\* at_client_limit, first call: start from the connections that have a slot.
Recount ==
    /\ counting' = TRUE
    /\ counted' = slots /\ perClient' = [k \in Clients |-> Cardinality(Of(slots, k))]
    /\ UNCHANGED slots

\* stop_counting_clients.
StopCounting ==
    /\ counting' = FALSE
    /\ counted' = {} /\ perClient' = [k \in Clients |-> 0]
    /\ UNCHANGED slots

-----------------------------------------------------------------------------
\* The accepting threads.

Goto(l, where) == pc' = [pc EXCEPT ![l] = where]

Reload ==
    /\ max' \in MaxConns /\ per' \in PerClient
    /\ UNCHANGED <<lite, limiter, acceptor, life, table>>

Accept(l, c, k) ==
    /\ pc[l] = "idle" /\ st[c] = "away"
    /\ Goto(l, "client")
    /\ conn' = [conn EXCEPT ![l] = c]
    /\ snap' = [snap EXCEPT ![l] = [max |-> max, per |-> per]]
    /\ st' = [st EXCEPT ![c] = "accepted"] /\ client' = [client EXCEPT ![c] = k]
    /\ UNCHANGED <<config, limiter, victim, guards, table>>

\* The limit per client is 0: stop counting if need be.
SkipClient(l) ==
    /\ pc[l] = "client" /\ snap[l].per = 0
    /\ IF counting THEN StopCounting ELSE UNCHANGED table
    /\ Goto(l, "total")
    /\ UNCHANGED <<config, limiter, conn, snap, victim, life>>

StartCounting(l) ==
    /\ pc[l] = "client" /\ snap[l].per > 0 /\ ~counting
    /\ Recount
    /\ Goto(l, IF Cardinality(Of(slots, client[conn[l]])) >= snap[l].per
               THEN "slot_client" ELSE "total")
    /\ UNCHANGED <<config, limiter, conn, snap, victim, life>>

CheckClient(l) ==
    /\ pc[l] = "client" /\ snap[l].per > 0 /\ counting
    /\ Goto(l, IF Limited(l) THEN "slot_client" ELSE "total")
    /\ UNCHANGED <<config, limiter, conn, snap, victim, life, table>>

\* Variant: the slots are compared with <= .
TakeSlot_OneTooMany(l) ==
    /\ pc[l] \in {"slot_client", "slot_total"} /\ overflow <= OverflowSlots
    /\ overflow' = overflow + 1
    /\ guards' = [guards EXCEPT ![conn[l]] = @ \cup {"overflow"}]
    /\ Goto(l, IF pc[l] = "slot_client" THEN "total" ELSE "acquire")
    /\ UNCHANGED <<config, open, conn, snap, victim, st, client, table>>

\* OverflowGuard::try_acquire: a compare-and-swap, so one step.
TakeSlot(l) ==
    /\ pc[l] \in {"slot_client", "slot_total"} /\ overflow < OverflowSlots
    /\ overflow' = overflow + 1
    /\ guards' = [guards EXCEPT ![conn[l]] = @ \cup {"overflow"}]
    /\ Goto(l, IF pc[l] = "slot_client" THEN "total" ELSE "acquire")
    /\ UNCHANGED <<config, open, conn, snap, victim, st, client, table>>

\* No slot is left: 503 without a thread.
Reject(l) ==
    /\ pc[l] \in {"slot_client", "slot_total"} /\ overflow >= OverflowSlots
    /\ Goto(l, "idle") /\ conn' = [conn EXCEPT ![l] = None]
    /\ st' = [st EXCEPT ![conn[l]] = "away"] /\ client' = [client EXCEPT ![conn[l]] = None]
    /\ UNCHANGED <<config, limiter, snap, victim, guards, table>>

\* Variant: the limit itself is not yet too many.
CheckTotal_OffByOne(l) ==
    /\ pc[l] = "total"
    /\ Goto(l, IF snap[l].max > 0 /\ open > snap[l].max THEN "evict" ELSE "acquire")
    /\ UNCHANGED <<config, limiter, conn, snap, victim, life, table>>

\* The number of open connections is read, and used some steps later.
CheckTotal(l) ==
    /\ pc[l] = "total"
    /\ Goto(l, IF snap[l].max > 0 /\ open >= snap[l].max THEN "evict" ELSE "acquire")
    /\ UNCHANGED <<config, limiter, conn, snap, victim, life, table>>

\* evict_oldest_tunnel takes a parked tunnel out of the lot.
Evict(l) ==
    /\ pc[l] = "evict"
    /\ \E c \in Conns :
         /\ st[c] = "parked"
         /\ st' = [st EXCEPT ![c] = "closing"] /\ victim' = [victim EXCEPT ![l] = c]
    /\ Goto(l, "drop")
    /\ UNCHANGED <<config, limiter, conn, snap, client, guards, table>>

\* Nothing to evict: a slot, unless the limit per client has taken one already.
NoRoom(l) ==
    /\ pc[l] = "evict" /\ \A c \in Conns : st[c] # "parked"
    /\ Goto(l, IF "overflow" \in guards[conn[l]] THEN "acquire" ELSE "slot_total")
    /\ UNCHANGED <<config, limiter, conn, snap, victim, life, table>>

\* The accepting thread drops the tunnel itself: its shares are back before
\* it goes on.
Evicted(l) ==
    /\ pc[l] = "drop" /\ guards[victim[l]] = {}
    /\ Goto(l, "acquire") /\ victim' = [victim EXCEPT ![l] = None]
    /\ UNCHANGED <<config, limiter, conn, snap, life, table>>

\* spawn_connection: the connection is counted and handed to the pool; if the
\* pool cannot take it, it is dropped with its guards.
Acquire(l) ==
    /\ pc[l] = "acquire"
    /\ open' = open + 1
    /\ guards' = [guards EXCEPT ![conn[l]] = @ \cup {"open"}]
    /\ \E there \in {"queued", "closing"} : st' = [st EXCEPT ![conn[l]] = there]
    /\ Goto(l, "idle") /\ conn' = [conn EXCEPT ![l] = None]
    /\ UNCHANGED <<config, overflow, snap, victim, client, table>>

-----------------------------------------------------------------------------
\* Workers and the lot.

Become(c, there) == st' = [st EXCEPT ![c] = there]

\* Conn::new succeeds, and the connection appears in the table.
Start(c) ==
    /\ st[c] = "queued" /\ Become(c, "live")
    /\ guards' = [guards EXCEPT ![c] = @ \cup {"active"}]
    /\ Register(c)
    /\ UNCHANGED <<config, limiter, acceptor, client>>

\* Variant: the share is only returned by a complete connection.
StartFails_Leaks(c) ==
    /\ st[c] = "queued" /\ Become(c, "closing")
    /\ guards' = [guards EXCEPT ![c] = {}]
    /\ UNCHANGED <<config, limiter, acceptor, client, table>>

\* Conn::new fails: what it was given is dropped.
StartFails(c) ==
    /\ st[c] = "queued" /\ Become(c, "closing")
    /\ UNCHANGED <<config, limiter, acceptor, client, guards, table>>

\* Variant: the connection's share is not moved into the tunnel.
Connect_DropsShare(c) ==
    /\ st[c] = "live" /\ "overflow" \notin guards[c] /\ Become(c, "tunnel")
    /\ open' = open - 1 /\ guards' = [guards EXCEPT ![c] = @ \ {"open"}]
    /\ UNCHANGED <<config, overflow, acceptor, client, table>>

\* A CONNECT moves the shares into a tunnel; an overflow connection that is not
\* for the proxy itself is refused before that.
Connect(c) ==
    /\ st[c] = "live" /\ "overflow" \notin guards[c] /\ Become(c, "tunnel")
    /\ UNCHANGED <<config, limiter, acceptor, client, guards, table>>

ParkTunnel(c) ==
    /\ \/ st[c] = "tunnel" /\ Become(c, "parked")
       \/ st[c] = "parked" /\ Become(c, "tunnel")
    /\ UNCHANGED <<config, limiter, acceptor, client, guards, table>>

Finish(c) ==
    /\ st[c] \in {"live", "tunnel", "parked"} /\ Become(c, "closing")
    /\ UNCHANGED <<config, limiter, acceptor, client, guards, table>>

\* The guards drop in the order of the fields: overflow, open, active.
DropOverflow(c) ==
    /\ st[c] = "closing" /\ "overflow" \in guards[c]
    /\ overflow' = overflow - 1 /\ guards' = [guards EXCEPT ![c] = @ \ {"overflow"}]
    /\ UNCHANGED <<config, open, acceptor, st, client, table>>

DropOpen(c) ==
    /\ st[c] = "closing" /\ "overflow" \notin guards[c] /\ "open" \in guards[c]
    /\ open' = open - 1 /\ guards' = [guards EXCEPT ![c] = @ \ {"open"}]
    /\ UNCHANGED <<config, overflow, acceptor, st, client, table>>

DropActive(c) ==
    /\ st[c] = "closing" /\ guards[c] = {"active"}
    /\ Unregister(c) /\ guards' = [guards EXCEPT ![c] = {}]
    /\ UNCHANGED <<config, limiter, acceptor, st, client>>

Gone(c) ==
    /\ st[c] = "closing" /\ guards[c] = {} /\ \A l \in Listeners : victim[l] # c
    /\ Become(c, "away") /\ client' = [client EXCEPT ![c] = None]
    /\ UNCHANGED <<config, limiter, acceptor, guards, table>>

Next ==
    \/ Reload
    \/ \E l \in Listeners :
         \/ \E c \in Conns, k \in Clients : Accept(l, c, k)
         \/ SkipClient(l) \/ StartCounting(l) \/ CheckClient(l)
         \/ TakeSlot(l) \/ Reject(l) \/ CheckTotal(l)
         \/ Evict(l) \/ NoRoom(l) \/ Evicted(l) \/ Acquire(l)
    \/ \E c \in Conns :
         \/ Start(c) \/ StartFails(c) \/ Connect(c) \/ ParkTunnel(c) \/ Finish(c)
         \/ DropOverflow(c) \/ DropOpen(c) \/ DropActive(c) \/ Gone(c)

Spec == Init /\ [][Next]_vars

-----------------------------------------------------------------------------
Holding(g) == {c \in Conns : g \in guards[c]}

\* The counters are the shares held: none is lost or returned twice on any way
\* a connection ends (T9.6: OpenGuard and OverflowGuard).
SharesAccounted ==
    open = Cardinality(Holding("open")) /\ overflow = Cardinality(Holding("overflow"))

\* A connection counts against the limit as long as it lives, in a tunnel and
\* in the lot as well.
LivingHoldShares ==
    \A c \in Conns : st[c] \in {"queued", "live", "tunnel", "parked"} => "open" \in guards[c]

\* Connections let in that are not being closed.  (Limiter.open may be higher: a
\* closing connection returns its overflow slot before its share.)
Serving == {c \in Holding("open") : st[c] # "closing"}
TopMax == CHOOSE m \in MaxConns : \A n \in MaxConns : n <= m

\* The connections served exceed the limit by the overflow slots and by one for
\* every other accepting thread, which may have looked before this one counted.
ServingBounded ==
    0 \notin MaxConns =>
        Cardinality(Serving) <= TopMax + OverflowSlots + Cardinality(Listeners) - 1

\* While clients are counted, the numbers are those of the connections counted,
\* these are living ones that will be subtracted, and every connection with a slot
\* is among them, though the limit may have been switched on while it was open.
ClientsAccounted ==
    /\ \A k \in Clients : perClient[k] = Cardinality(Of(counted, k))
    /\ \A c \in counted : "active" \in guards[c] /\ counting
    /\ counting => slots \subseteq counted

-----------------------------------------------------------------------------
\* What the properties rest on.

\* An accepting thread has a connection of its own, that has no overflow slot
\* where one may be taken, and the tunnel it drops is being closed.
HandsApart ==
    \A l \in Listeners :
        /\ pc[l] = "idle" => conn[l] = None
        /\ pc[l] # "idle" => conn[l] \in Conns /\ st[conn[l]] = "accepted"
        /\ pc[l] \in {"client", "slot_client", "slot_total"} => "overflow" \notin guards[conn[l]]
        /\ pc[l] = "drop" => victim[l] \in Conns /\ st[victim[l]] = "closing"
        /\ \A m \in Listeners : conn[l] = conn[m] /\ conn[l] # None => l = m

\* The shares a connection carries at each stage of its life.
SharesByStage ==
    \A c \in Conns :
        /\ st[c] = "away" => guards[c] = {}
        /\ st[c] = "accepted" => guards[c] \subseteq {"overflow"} /\ client[c] \in Clients
        /\ st[c] = "queued" =>
               "open" \in guards[c] /\ "active" \notin guards[c] /\ client[c] \in Clients
        /\ st[c] \in {"live", "tunnel", "parked"} => {"open", "active"} \subseteq guards[c]
        /\ st[c] \in {"tunnel", "parked"} => "overflow" \notin guards[c]

\* The connections that are served within the limit, and the threads that have
\* found room for one more.
Plain == {c \in Serving : "overflow" \notin guards[c]}
Promised == {l \in Listeners : pc[l] \in {"drop", "acquire"} /\ "overflow" \notin guards[conn[l]]}

PlainBounded ==
    0 \notin MaxConns =>
        Cardinality(Plain) + Cardinality(Promised) <= TopMax + Cardinality(Listeners) - 1

\* Connections with a slot are open.
TableOfLiving == slots \subseteq Holding("active")

\* What a step may do to the shares: nothing, or give one, or take one back.
Steady == UNCHANGED <<guards, open, overflow>>

Gains(c, g) ==
    /\ g \in Guard /\ g \notin guards[c] /\ guards' = [guards EXCEPT ![c] = @ \cup {g}]
    /\ open' = IF g = "open" THEN open + 1 ELSE open
    /\ overflow' = IF g = "overflow" THEN overflow + 1 ELSE overflow
    /\ g = "overflow" => overflow < OverflowSlots

Returns(c, g) ==
    /\ g \in Guard /\ g \in guards[c] /\ guards' = [guards EXCEPT ![c] = @ \ {g}]
    /\ open' = IF g = "open" THEN open - 1 ELSE open
    /\ overflow' = IF g = "overflow" THEN overflow - 1 ELSE overflow

AdmissionInv ==
    /\ TypeOK /\ HandsApart /\ SharesByStage /\ SharesAccounted
    /\ PlainBounded /\ ClientsAccounted /\ TableOfLiving

\* Bound: with --lite, which differs in the table of clients alone, no more than
\* two connections are looked at.
LiteIsSmall == lite => Cardinality({c \in Conns : st[c] # "away"}) <= 2

=============================================================================
