------------------------------ MODULE DnsTable ------------------------------
(***************************************************************************)
(* The table of resolved names and its background refresh                  *)
(* (crates/net-dns/src/dns/{lookup,entry,warm,resolved}.rs and dns.rs):    *)
(* requests look names up under the lock of TABLE, resolve without it and  *)
(* store the answer; one thread, dns-refresh, resolves again what requests *)
(* ask for and the names in WARM_QUEUE when their time comes.  The ages    *)
(* of answers and failures are left to chance; the clock is only that of   *)
(* WARM_QUEUE.                                                             *)
(***************************************************************************)
EXTENDS Integers, Sequences, FiniteSets

CONSTANTS
    Hosts, Callers,
    MaxEntries, MaxWarm,    \* MAX_ENTRIES, MAX_WARM
    After,                  \* refresh_after(ttl)
    MaxNow,                 \* bound of the clock
    MaxMsgs,                \* bound of the messages that wait
    None

\* An entry of the table.
Row == [addrs : BOOLEAN, warm : BOOLEAN, refreshing : BOOLEAN, failed : BOOLEAN]

DnsTableAssumption ==
    /\ {MaxEntries, MaxWarm, After, MaxNow, MaxMsgs} \subseteq Nat \ {0}
    /\ IsFiniteSet(Hosts) /\ None \notin Hosts \cup Row

VARIABLES
    table,      \* TABLE: host -> None or its entry
    warm_queue, \* WARM_QUEUE: places [at, key]
    warm_on,    \* the warm window is not zero
    msgs,       \* what dns-refresh has not read
    thread,     \* dns-refresh: "none", "failed" (it could not be started) or running
    refresher,  \* what it resolves
    caller,     \* what each request is doing
    now

vars == <<table, warm_queue, warm_on, msgs, thread, refresher, caller, now>>

Rest == [pc |-> "rest", host |-> None]
NoWork == [pc |-> "idle", host |-> None]
Empty == [addrs |-> FALSE, warm |-> FALSE, refreshing |-> FALSE, failed |-> FALSE]
Entries == {h \in Hosts : table[h] # None}
Places(h) == {p \in warm_queue : p.key = h}

Init ==
    /\ table = [h \in Hosts |-> None] /\ warm_queue = {} /\ warm_on = TRUE
    /\ msgs = <<>> /\ thread = "none" /\ refresher = NoWork
    /\ caller = [c \in Callers |-> Rest]
    /\ now = 0

\* evict_oldest: an entry without an answer first.
Victims == LET empty == {h \in Entries : ~table[h].addrs} IN IF empty = {} THEN Entries ELSE empty
WithRoom(h) ==
    IF table[h] # None \/ Cardinality(Entries) < MaxEntries THEN {table}
    ELSE {[table EXCEPT ![v] = None] : v \in Victims}
\* The entry of h after `change', made when it is not there.
Put(h, Change(_)) ==
    \E t \in WithRoom(h) :
        table' = [t EXCEPT ![h] = Change(IF t[h] = None THEN Empty ELSE t[h])]

-----------------------------------------------------------------------------
(* resolve_host_marked.                                                    *)

\* warm_promote, under the same lock: one place per name; with too many, the place goes whose
\* name is gone or was used the longest ago.
Promoted(t, h) ==
    LET kept == {p \in warm_queue : p.key # h}
        Gone(v) == [q |-> kept \ {v}, t |-> IF t[v.key] = None THEN t ELSE [t EXCEPT ![v.key].warm = FALSE]]
        rooms == IF Cardinality(kept) < MaxWarm THEN {[q |-> kept, t |-> t]} ELSE {Gone(v) : v \in kept}
    IN {[q |-> r.q \cup {[at |-> now + After, key |-> h]}, t |-> [r.t EXCEPT ![h].warm = TRUE]] : r \in rooms}

\* Entry::look: an answer within its TTL, old enough to be refreshed or not; a failure that
\* still counts; an old answer that may be served; or nothing.  The window is read before
\* the lock: it may be closed by now.
\* A name that becomes warm wakes the thread, and starts it.
CanFind(e, found) ==
    CASE found \in {"hit", "aged", "served"} -> e.addrs
      [] found = "refused" -> e.failed
      [] OTHER -> TRUE
Look(c, h) ==
    \E found \in {"hit", "aged", "refused", "served", "miss"}, promote \in BOOLEAN :
        LET e == IF table[h] = None THEN Empty ELSE table[h]
            ask == found \in {"aged", "served"} /\ ~e.refreshing
            asked == IF table[h] = None THEN table ELSE [table EXCEPT ![h].refreshing = @ \/ ask]
        IN
        /\ caller[c].pc = "rest"
        /\ CanFind(e, found) /\ (promote => e.addrs /\ ~e.warm)
        /\ IF promote THEN \E r \in Promoted(asked, h) : table' = r.t /\ warm_queue' = r.q
                      ELSE table' = asked /\ UNCHANGED warm_queue
        /\ caller' = [caller EXCEPT ![c] = IF found = "miss" THEN [pc |-> "resolve", host |-> h]
                                           ELSE IF ask THEN [pc |-> "ask", host |-> h] ELSE Rest]
        /\ thread' \in IF promote /\ thread = "none" THEN {"runs", "failed"} ELSE {thread}
        /\ UNCHANGED <<warm_on, msgs, refresher, now>>

\* Variant: nobody takes the mark back when there is no thread to refresh the name.
AskRefresh_KeepsMark(c) ==
    /\ caller[c].pc = "ask" /\ Len(msgs) < MaxMsgs
    /\ \E started \in BOOLEAN : thread' = IF thread # "none" THEN thread ELSE IF started THEN "runs" ELSE "failed"
    /\ msgs' = IF thread' = "runs" THEN Append(msgs, caller[c].host) ELSE msgs
    /\ caller' = [caller EXCEPT ![c] = Rest]
    /\ UNCHANGED <<table, warm_queue, warm_on, refresher, now>>

\* request_refresh: the first one starts the thread; with none the mark goes again.
AskRefresh(c) ==
    LET h == caller[c].host IN
    /\ caller[c].pc = "ask" /\ Len(msgs) < MaxMsgs
    /\ \E started \in BOOLEAN : thread' = IF thread # "none" THEN thread ELSE IF started THEN "runs" ELSE "failed"
    /\ IF thread' = "runs" THEN msgs' = Append(msgs, h) /\ UNCHANGED table
       ELSE /\ table' = IF table[h] = None THEN table ELSE [table EXCEPT ![h].refreshing = FALSE]
            /\ UNCHANGED msgs
    /\ caller' = [caller EXCEPT ![c] = Rest]
    /\ UNCHANGED <<warm_queue, warm_on, refresher, now>>

\* pool::resolve came back; store_answer remembers it, but for a resolver that was busy.
Answer(c) ==
    LET Good(e) == [e EXCEPT !.addrs = TRUE, !.failed = FALSE]
        Bad(e) == [e EXCEPT !.failed = TRUE]
    IN
    /\ caller[c].pc = "resolve"
    /\ \/ Put(caller[c].host, Good)
       \/ Put(caller[c].host, Bad)
       \/ UNCHANGED table
    /\ caller' = [caller EXCEPT ![c] = Rest]
    /\ UNCHANGED <<warm_queue, warm_on, msgs, thread, refresher, now>>

\* An answer that came late (store_late), a family that won (remember_family), or a new
\* lookup after a stale address failed (relookup_sync, which makes no entry).
StoreLate(h) ==
    /\ LET Good(e) == [e EXCEPT !.addrs = TRUE, !.failed = FALSE] IN Put(h, Good)
    /\ UNCHANGED <<warm_queue, warm_on, msgs, thread, refresher, caller, now>>
RememberFamily(h) ==
    /\ table[h] = None
    /\ LET Same(e) == e IN Put(h, Same)
    /\ UNCHANGED <<warm_queue, warm_on, msgs, thread, refresher, caller, now>>
Relookup(h) ==
    /\ table[h] # None
    /\ table' = [table EXCEPT ![h].addrs = TRUE, ![h].failed = FALSE]
    /\ UNCHANGED <<warm_queue, warm_on, msgs, thread, refresher, caller, now>>

-----------------------------------------------------------------------------
(* dns-refresh.  A thread that could not be started never runs; `Wake'     *)
(* messages only make it look again.                                       *)

\* warm_next: the place that is due first; a name that is warm no more loses its place,
\* one that is being refreshed waits for its next turn.  The window is read before the
\* lock and may be another by now: whether it says the name is in use is left to chance.
WarmNext ==
    /\ thread = "runs" /\ refresher.pc = "idle"
    /\ \E p \in warm_queue, used \in BOOLEAN :
        LET h == p.key
            due == [at |-> now + After, key |-> h]
        IN
        /\ p.at <= now /\ \A q \in warm_queue : p.at <= q.at
        /\ CASE table[h] = None ->
                  warm_queue' = warm_queue \ {p} /\ UNCHANGED <<table, refresher>>
             [] table[h] # None /\ (~table[h].warm \/ ~used) ->
                  /\ warm_queue' = warm_queue \ {p}
                  /\ table' = [table EXCEPT ![h].warm = FALSE]
                  /\ UNCHANGED refresher
             [] OTHER ->
                  /\ warm_queue' = (warm_queue \ {p}) \cup {due}
                  /\ IF table[h].refreshing THEN UNCHANGED <<table, refresher>>
                     ELSE /\ table' = [table EXCEPT ![h].refreshing = TRUE]
                          /\ refresher' = [pc |-> "warm", host |-> h]
    /\ UNCHANGED <<warm_on, msgs, thread, caller, now>>

TakeMessage ==
    /\ thread = "runs" /\ refresher.pc = "idle" /\ msgs # <<>>
    /\ \A p \in warm_queue : p.at > now
    /\ refresher' = [pc |-> "asked", host |-> Head(msgs)]
    /\ msgs' = Tail(msgs)
    /\ UNCHANGED <<table, warm_queue, warm_on, thread, caller, now>>

\* Variant: a failed refresh leaves the mark.
Refreshed_OnlyGood ==
    LET h == refresher.host IN
    /\ refresher.pc # "idle"
    /\ \E ok \in BOOLEAN :
         table' = IF table[h] # None /\ ok
                  THEN [table EXCEPT ![h].refreshing = FALSE, ![h].addrs = TRUE, ![h].failed = FALSE] ELSE table
    /\ refresher' = NoWork
    /\ UNCHANGED <<warm_queue, warm_on, msgs, thread, caller, now>>

\* refresh_one, from its answer on: an entry that went meanwhile stays gone, one that
\* was made again since a request asked keeps its own.
Refreshed ==
    LET h == refresher.host IN
    /\ refresher.pc # "idle"
    /\ \E ok \in BOOLEAN :
         table' = IF table[h] = None THEN table
                  ELSE IF refresher.pc = "asked" /\ ~table[h].refreshing THEN table
                  ELSE IF ok THEN [table EXCEPT ![h].refreshing = FALSE, ![h].addrs = TRUE, ![h].failed = FALSE]
                  ELSE [table EXCEPT ![h].refreshing = FALSE]
    /\ refresher' = NoWork
    /\ UNCHANGED <<warm_queue, warm_on, msgs, thread, caller, now>>

-----------------------------------------------------------------------------

\* set_warm_window; at zero every place and mark goes (warm_clear).
SetWarmWindow ==
    /\ warm_on' = ~warm_on
    /\ IF warm_on
       THEN /\ warm_queue' = {}
            /\ table' = [h \in Hosts |-> IF table[h] # None /\ Places(h) # {}
                                         THEN [table[h] EXCEPT !.warm = FALSE] ELSE table[h]]
       ELSE UNCHANGED <<warm_queue, table>>
    /\ UNCHANGED <<msgs, thread, refresher, caller, now>>

ClearAll ==
    /\ table' = [h \in Hosts |-> None] /\ warm_queue' = {}
    /\ UNCHANGED <<warm_on, msgs, thread, refresher, caller, now>>

Tick ==
    /\ now < MaxNow /\ now' = now + 1
    /\ UNCHANGED <<table, warm_queue, warm_on, msgs, thread, refresher, caller>>

Next ==
    \/ \E c \in Callers : AskRefresh(c) \/ Answer(c) \/ \E h \in Hosts : Look(c, h)
    \/ \E h \in Hosts : StoreLate(h) \/ RememberFamily(h) \/ Relookup(h)
    \/ WarmNext \/ TakeMessage \/ Refreshed
    \/ SetWarmWindow \/ ClearAll \/ Tick

Spec == Init /\ [][Next]_vars

-----------------------------------------------------------------------------
(* A name that is marked as being refreshed is one that somebody will      *)
(* refresh: a request about to ask, a message or the thread; a mark that   *)
(* stayed would keep its answer from ever being refreshed again (`look',   *)
(* `request_refresh', `refresh_one', and `clear' in between).              *)
RefreshIsComing ==
    \A h \in Entries : table[h].refreshing =>
        \/ \E c \in Callers : caller[c] = [pc |-> "ask", host |-> h]
        \/ \E i \in DOMAIN msgs : msgs[i] = h
        \/ refresher.host = h

(* A warm name has its place in the queue, no name has two, and there are  *)
(* no more than MAX_WARM, whatever was evicted or cleared meanwhile        *)
(* (`warm_promote', `warm_next', `warm_clear', `evict_oldest').            *)
WarmHasPlace ==
    /\ \A h \in Entries : table[h].warm => Places(h) # {}
    /\ \A h \in Hosts : Cardinality(Places(h)) <= 1
    /\ Cardinality(warm_queue) <= MaxWarm
    /\ Cardinality(Entries) <= MaxEntries

\* The inductive invariant: a place is told by its name alone.
RefresherPcs == {"idle", "asked", "warm"}
AskerPcs == {"rest", "ask", "resolve"}

DnsTypes ==
    /\ table \in [Hosts -> Row \cup {None}]
    /\ warm_queue \subseteq [at : Nat, key : Hosts] /\ IsFiniteSet(warm_queue)
    /\ msgs \in Seq(Hosts)
    /\ refresher \in [pc : RefresherPcs, host : Hosts \cup {None}]
    /\ refresher.pc = "idle" <=> refresher.host = None
    /\ caller \in [Callers -> [pc : AskerPcs, host : Hosts \cup {None}]]
    /\ \A c \in Callers : caller[c].pc = "rest" <=> caller[c].host = None
    /\ now \in Nat

OnePlace == \A p, q \in warm_queue : p.key = q.key => p = q

DnsInv == DnsTypes /\ OnePlace /\ RefreshIsComing /\ WarmHasPlace
=============================================================================
