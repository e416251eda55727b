---------------------------- MODULE ResolverPool ----------------------------
(***************************************************************************)
(* The threads that resolve names (crates/net-dns/src/dns/pool.rs): a      *)
(* caller counts itself in IN_FLIGHT, puts a job under the lock of POOL,   *)
(* and waits on its channel no longer than the timeout; a worker takes the *)
(* jobs, leaves when nothing came for IDLE_EXIT, and keeps an answer that  *)
(* nobody waits for any more.                                              *)
(***************************************************************************)
EXTENDS Integers, Sequences, FiniteSets

CONSTANTS
    Callers,
    Workers,    \* as many threads as can ever be running
    Limits,     \* the values set_limit may store
    MaxJobs,    \* bound of the lookups
    None

ResolverPoolAssumption ==
    /\ Limits \subseteq Nat \ {0} /\ MaxJobs \in Nat
    /\ IsFiniteSet(Callers) /\ IsFiniteSet(Workers)

VARIABLES
    limit, in_flight,
    queue, waiting, spawned,    \* POOL
    worker,                     \* "none", "top", "waiting", "woken", "expired", "resolving" or "send"
    caller,                     \* what each caller is doing, and its job
    channel,                    \* of each job: "open", "sent", "closed"
    asked,
    short                       \* ghost: a job of this queue found no thread, by the limit or the system

vars == <<limit, in_flight, queue, waiting, spawned, worker, caller, channel, asked, short>>
pool == <<queue, waiting, spawned, worker, short>>

Out == [pc |-> "out", job |-> None]
NoThread == [pc |-> "none", job |-> None]
At(w, pc) == worker' = [worker EXCEPT ![w].pc = pc]
WorkersAt(pcs) == {w \in Workers : worker[w].pc \in pcs}
CallersAt(pcs) == {c \in Callers : caller[c].pc \in pcs}

Init ==
    /\ limit \in Limits /\ in_flight = 0
    /\ queue = <<>> /\ waiting = 0 /\ spawned = 0
    /\ worker = [w \in Workers |-> NoThread]
    /\ caller = [c \in Callers |-> Out]
    /\ channel = <<>> /\ asked = 0 /\ short = FALSE

-----------------------------------------------------------------------------
(* resolve.                                                                *)

\* The limit is read before the count: it may be another one by now.
CountIn(c) ==
    /\ caller[c].pc = "out" /\ asked < MaxJobs
    /\ asked' = asked + 1
    /\ in_flight' = in_flight + 1
    /\ \E cap \in Limits :
          caller' = [caller EXCEPT ![c].pc = IF in_flight >= cap THEN "busy" ELSE "counted"]
    /\ UNCHANGED <<limit, pool, channel>>

\* Variant: the caller that is over the limit leaves its count behind.
BusyOut_KeepsCount(c) ==
    /\ caller[c].pc \in {"busy", "refused"}
    /\ in_flight' = IF caller[c].pc = "busy" THEN in_flight ELSE in_flight - 1
    /\ caller' = [caller EXCEPT ![c] = Out]
    /\ UNCHANGED <<limit, pool, channel, asked>>

\* Over the limit, or no thread at all: the count goes back before the caller
\* fails, or resolves by itself.
BusyOut(c) ==
    /\ caller[c].pc \in {"busy", "refused"}
    /\ in_flight' = in_flight - 1
    /\ caller' = [caller EXCEPT ![c] = Out]
    /\ UNCHANGED <<limit, pool, channel, asked>>

\* `submit', whole under the lock; `starts' is what the system says to a new thread.
Submit(c, starts) ==
    LET job == Len(channel) + 1
        \* notify_one wakes one of those that wait, if there is one
        Notified == IF WorkersAt({"waiting"}) = {} THEN {worker}
                    ELSE {[worker EXCEPT ![w].pc = "woken"] : w \in WorkersAt({"waiting"})}
        wants == Len(queue) + 1 > waiting /\ spawned < limit
        dropped == wants /\ ~starts /\ spawned = 0
    IN
    /\ caller[c].pc = "counted"
    /\ ~starts => wants
    /\ \E ws \in Notified :
          IF wants /\ starts
          THEN \E w \in WorkersAt({"none"}) : worker' = [ws EXCEPT ![w].pc = "top"] /\ spawned' = spawned + 1
          ELSE worker' = ws /\ UNCHANGED spawned
    /\ queue' = IF dropped THEN queue ELSE Append(queue, job)
    /\ channel' = Append(channel, IF dropped THEN "closed" ELSE "open")
    /\ caller' = [caller EXCEPT ![c] = IF dropped THEN [pc |-> "refused", job |-> None]
                                       ELSE [pc |-> "receiving", job |-> job]]
    /\ short' = (~dropped /\ (short \/ (Len(queue) + 1 > waiting /\ ~(wants /\ starts))))
    /\ UNCHANGED <<limit, in_flight, waiting, asked>>

Receive(c) ==
    /\ caller[c].pc = "receiving" /\ channel[caller[c].job] = "sent"
    /\ caller' = [caller EXCEPT ![c] = Out]
    /\ UNCHANGED <<limit, in_flight, pool, channel, asked>>

\* recv_timeout gives up; the channel stays open until `resolve' returns.
GiveUp(c) ==
    /\ caller[c].pc = "receiving" /\ channel[caller[c].job] = "open"
    /\ caller' = [caller EXCEPT ![c].pc = "leaving"]
    /\ UNCHANGED <<limit, in_flight, pool, channel, asked>>
Leave(c) ==
    /\ caller[c].pc = "leaving"
    /\ channel' = [channel EXCEPT ![caller[c].job] = "closed"]
    /\ caller' = [caller EXCEPT ![c] = Out]
    /\ UNCHANGED <<limit, in_flight, pool, asked>>

-----------------------------------------------------------------------------
(* worker: the lock is held from its wake-up to the pop or the next wait.  *)

\* What follows under the lock: a job is popped, or the thread waits (again), or ends.
PopOr(w, idle) ==
    IF queue # <<>>
    THEN /\ worker' = [worker EXCEPT ![w] = [pc |-> "resolving", job |-> Head(queue)]]
         /\ queue' = Tail(queue)
         /\ short' = (short /\ Tail(queue) # <<>>)
         /\ waiting' = IF worker[w].pc = "top" THEN waiting ELSE waiting - 1
         /\ UNCHANGED spawned
    ELSE /\ worker' = [worker EXCEPT ![w] = [pc |-> idle, job |-> None]]
         /\ waiting' = CASE worker[w].pc = "top" -> waiting + 1
                         [] worker[w].pc # "top" /\ idle = "none" -> waiting - 1
                         [] OTHER -> waiting
         /\ spawned' = IF idle = "none" THEN spawned - 1 ELSE spawned
         /\ UNCHANGED <<queue, short>>

Top(w) ==
    /\ worker[w].pc = "top" /\ PopOr(w, "waiting")
    /\ UNCHANGED <<limit, in_flight, caller, channel, asked>>

\* The wait ends by a notice, for no reason, or by time; the lock is not held yet.
Wake(w) ==
    /\ worker[w].pc = "waiting" /\ At(w, "woken")
    /\ UNCHANGED <<limit, in_flight, queue, waiting, spawned, caller, channel, asked, short>>
Expire(w) ==
    /\ worker[w].pc = "waiting" /\ At(w, "expired")
    /\ UNCHANGED <<limit, in_flight, queue, waiting, spawned, caller, channel, asked, short>>

Woken(w) ==
    /\ worker[w].pc = "woken" /\ PopOr(w, "waiting")
    /\ UNCHANGED <<limit, in_flight, caller, channel, asked>>

\* Variant: a wait that ran out ends the thread, whatever came meanwhile.
Expired_Leaves(w) ==
    /\ worker[w].pc = "expired"
    /\ worker' = [worker EXCEPT ![w] = NoThread] /\ waiting' = waiting - 1 /\ spawned' = spawned - 1
    /\ UNCHANGED <<limit, in_flight, queue, caller, channel, asked, short>>

Expired(w) ==
    /\ worker[w].pc = "expired" /\ PopOr(w, "none")
    /\ UNCHANGED <<limit, in_flight, caller, channel, asked>>

\* system_resolve came back: the count goes down first, then the answer is sent.
Resolved(w) ==
    /\ worker[w].pc = "resolving"
    /\ in_flight' = in_flight - 1
    /\ At(w, "send")
    /\ UNCHANGED <<limit, queue, waiting, spawned, caller, channel, asked, short>>

\* Nobody receives: the answer goes into the table (store_late).
Send(w) ==
    /\ worker[w].pc = "send"
    /\ channel' = [channel EXCEPT ![worker[w].job] = IF @ = "open" THEN "sent" ELSE "closed"]
    /\ worker' = [worker EXCEPT ![w] = [pc |-> "top", job |-> None]]
    /\ UNCHANGED <<limit, in_flight, queue, waiting, spawned, caller, asked, short>>

SetLimit ==
    /\ \E n \in Limits \ {limit} : limit' = n
    /\ UNCHANGED <<in_flight, pool, caller, channel, asked>>

Next ==
    \/ \E c \in Callers : \/ CountIn(c) \/ BusyOut(c) \/ Receive(c) \/ GiveUp(c) \/ Leave(c)
                          \/ \E starts \in BOOLEAN : Submit(c, starts)
    \/ \E w \in Workers : \/ Top(w) \/ Wake(w) \/ Expire(w) \/ Woken(w) \/ Expired(w)
                          \/ Resolved(w) \/ Send(w)
    \/ SetLimit

Spec == Init /\ [][Next]_vars

-----------------------------------------------------------------------------
(* IN_FLIGHT is the callers between their count and their job, the jobs in *)
(* the queue and those in a thread, whoever gave up meanwhile; no more     *)
(* lookups than the limit are ever on the way.  A count that leaks closes  *)
(* the resolver for good (`resolve', `worker').                            *)
InFlightAccounted ==
    LET jobs == Len(queue) + Cardinality(WorkersAt({"resolving"})) IN
    /\ in_flight = jobs + Cardinality(CallersAt({"busy", "counted", "refused"}))
    /\ \E n \in Limits : jobs + Cardinality(CallersAt({"counted"})) <= n

(* No job waits for a busy thread while another could be had: there is one *)
(* free for it,   or the threads were at the limit or the system refused   *)
(* one; and no job is ever without any thread (`submit' against the exit   *)
(* of `worker').                                                           *)
JobHasThread ==
    /\ queue # <<>> => spawned > 0
    /\ Len(queue) > Cardinality(WorkersAt({"top", "waiting", "woken", "expired"})) => short
    /\ waiting = Cardinality(WorkersAt({"waiting", "woken", "expired"}))
    /\ spawned = Cardinality(Workers \ WorkersAt({"none"}))

\* The inductive invariant: what is counted is so in every state.
WorkerPcs == {"none", "top", "waiting", "woken", "expired", "resolving", "send"}
CallerPcs == {"out", "busy", "counted", "refused", "receiving", "leaving"}

ResolverTypes ==
    /\ limit \in Limits /\ {in_flight, waiting, spawned} \subseteq Int
    /\ queue \in Seq(Nat)
    /\ worker \in [Workers -> [pc : WorkerPcs, job : Nat \cup {None}]]
    /\ caller \in [Callers -> [pc : CallerPcs, job : Nat \cup {None}]]
    /\ channel \in Seq({"open", "sent", "closed"})
    /\ short \in BOOLEAN

ResolverInv == ResolverTypes /\ InFlightAccounted /\ JobHasThread
=============================================================================
