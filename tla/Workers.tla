------------------------------- MODULE Workers -------------------------------
(***************************************************************************)
(* The pool of connection threads (crates/workers/src/workers.rs).         *)
(*                                                                         *)
(* Callers (accept threads, the idle watcher, refreshers) hand jobs to the *)
(* pool with run, try_run or run_outside and change the limit on live      *)
(* threads with set_limit.  Every section the code runs under the lock of  *)
(* `Inner' is one action; sends, spawns and receives are steps of their    *)
(* own, because other threads run between them and the lock.               *)
(*                                                                         *)
(* A member of Threads is one thread and its channel.  It may be used      *)
(* again only when no sender to the channel is left, so a stale sender in  *)
(* the idle stack never reaches a younger thread.                          *)
(***************************************************************************)
EXTENDS Naturals, Sequences, FiniteSets

CONSTANTS
    Callers,    \* threads outside the pool that call it
    Threads,    \* identities for pool threads and their channels
    Jobs,       \* the boxed closures
    MaxIdle,    \* MAX_IDLE
    Ops,        \* which of run, try_run and run_outside the callers use
    Limits,     \* the values max_live may take (0 is "unlimited")
    Faults,     \* which of "panic", "spawn" the environment may inflict
    None        \* no job, no thread

ASSUME NoneAssumption == None \notin Jobs \cup Threads
ASSUME ThreadsAssumption == Callers \cap Threads = {}
ASSUME BoundsAssumption == MaxIdle \in Nat /\ Limits \subseteq Nat
ASSUME OpsAssumption == Ops \subseteq {"run", "try_run", "run_outside"}
ASSUME FaultsAssumption == Faults \subseteq {"panic", "spawn"}

VARIABLES
    idle,       \* Inner.idle: stack of senders, the top is the last
    queue,      \* Inner.queue
    live,       \* Inner.live
    max_live,   \* Workers.max_live
    chan,       \* the job in the channel of each thread
    pc,         \* where each caller and each pool thread is
    hand,       \* the job each of them holds
    respawn,    \* the queued job `release' is starting a thread for
    call,       \* the operation each caller is in
    sender,     \* the sender a caller popped from idle
    outside,    \* jobs run by threads that are outside of the limit
    outcome     \* what has become of each job that left the pool

vars == <<idle, queue, live, max_live, chan, pc, hand, respawn, call, sender,
          outside, outcome>>
inner == <<idle, queue, live>>

Runs == {"run", "try_run", "run_outside"}
CallerPcs == {"home", "submit", "send", "start", "release", "respawn", "err",
              "outside", "drain"}
ThreadPcs == {"none", "starting", "running", "looking", "idle", "timedOut",
              "release", "respawn"}

\* The receiver of w is alive: a send to it succeeds.
Receives(w) == pc[w] \in {"starting", "running", "looking", "idle", "timedOut"}

\* w can be a new thread: it has ended and every sender to it is gone.
Free(w) == /\ pc[w] = "none"
           /\ \A i \in DOMAIN idle : idle[i] # w
           /\ \A c \in Callers : sender[c] # w

\* Variant: the limit is compared with <=.
Room_OffByOne == max_live = 0 \/ live <= max_live

Room == max_live = 0 \/ live < max_live

-----------------------------------------------------------------------------
Init ==
    /\ idle = <<>> /\ queue = <<>> /\ live = 0
    /\ max_live \in Limits
    /\ chan = [w \in Threads |-> None]
    /\ pc = [t \in Callers \cup Threads |-> IF t \in Callers THEN "home" ELSE "none"]
    /\ hand = [t \in Callers \cup Threads |-> None]
    /\ respawn = [t \in Callers \cup Threads |-> None]
    /\ call = [c \in Callers |-> "run"]
    /\ sender = [c \in Callers |-> None]
    /\ outside = {}
    /\ outcome = [j \in Jobs |-> "new"]

(***************************************************************************)
(* run, try_run, run_outside: a caller submits a job.  A job that has run, *)
(* came back or was dropped may be submitted anew (as a later connection). *)
(***************************************************************************)
Submit(c, j, op) ==
    /\ pc[c] = "home" /\ outcome[j] # "pending"
    /\ pc' = [pc EXCEPT ![c] = "submit"]
    /\ hand' = [hand EXCEPT ![c] = j]
    /\ call' = [call EXCEPT ![c] = op]
    /\ outcome' = [outcome EXCEPT ![j] = "pending"]
    /\ UNCHANGED <<inner, max_live, chan, respawn, sender, outside>>

\* Variant: the sender is looked at and stays in the stack.
PopIdle_Peeks(c) ==
    /\ pc[c] = "submit" /\ idle # <<>>
    /\ sender' = [sender EXCEPT ![c] = idle[Len(idle)]]
    /\ pc' = [pc EXCEPT ![c] = "send"]
    /\ UNCHANGED <<inner, max_live, chan, hand, respawn, call, outside, outcome>>

PopIdle(c) ==
    /\ pc[c] = "submit" /\ idle # <<>>
    /\ sender' = [sender EXCEPT ![c] = idle[Len(idle)]]
    /\ idle' = SubSeq(idle, 1, Len(idle) - 1)
    /\ pc' = [pc EXCEPT ![c] = "send"]
    /\ UNCHANGED <<queue, live, max_live, chan, hand, respawn, call, outside, outcome>>

\* Variant: the seat is not counted under the lock.
TakeSeat_Uncounted(c) ==
    /\ pc[c] = "submit" /\ idle = <<>> /\ Room
    /\ pc' = [pc EXCEPT ![c] = "start"]
    /\ UNCHANGED <<inner, max_live, chan, hand, respawn, call, sender, outside, outcome>>

TakeSeat(c) ==
    /\ pc[c] = "submit" /\ idle = <<>> /\ Room
    /\ live' = live + 1
    /\ pc' = [pc EXCEPT ![c] = "start"]
    /\ UNCHANGED <<idle, queue, max_live, chan, hand, respawn, call, sender, outside, outcome>>

Refuse(c) ==
    /\ pc[c] = "submit" /\ idle = <<>> /\ ~Room
    /\ call[c] # "run"
    /\ pc' = [pc EXCEPT ![c] = "err"]
    /\ UNCHANGED <<inner, max_live, chan, hand, respawn, call, sender, outside, outcome>>

Enqueue(c) ==
    /\ pc[c] = "submit" /\ idle = <<>> /\ ~Room
    /\ call[c] = "run"
    /\ queue' = Append(queue, hand[c])
    /\ hand' = [hand EXCEPT ![c] = None]
    /\ pc' = [pc EXCEPT ![c] = "home"]
    /\ UNCHANGED <<idle, live, max_live, chan, respawn, call, sender, outside, outcome>>

\* tx.send outside the lock; it fails, and the loop goes on, only when the
\* receiver is gone already.
Send(c) ==
    /\ pc[c] = "send"
    /\ sender' = [sender EXCEPT ![c] = None]
    /\ \/ /\ Receives(sender[c])
          /\ chan' = [chan EXCEPT ![sender[c]] = hand[c]]
          /\ hand' = [hand EXCEPT ![c] = None]
          /\ pc' = [pc EXCEPT ![c] = "home"]
       \/ /\ ~Receives(sender[c])
          /\ pc' = [pc EXCEPT ![c] = "submit"]
          /\ UNCHANGED <<chan, hand>>
    /\ UNCHANGED <<inner, max_live, respawn, call, outside, outcome>>

-----------------------------------------------------------------------------
(***************************************************************************)
(* start, spawn: the seat has been taken, the thread is created next.      *)
(***************************************************************************)
Start(c, w) ==
    /\ pc[c] = "start" /\ Free(w)
    /\ chan' = [chan EXCEPT ![w] = hand[c]]
    /\ hand' = [hand EXCEPT ![c] = None]
    /\ pc' = [pc EXCEPT ![w] = "starting",
                        ![c] = IF call[c] = "set_limit" THEN "drain" ELSE "home"]
    /\ UNCHANGED <<inner, max_live, respawn, call, sender, outside, outcome>>

\* Variant: a failed spawn does not give its seat back.
StartFails_Leaks(c) ==
    /\ pc[c] = "start" /\ "spawn" \in Faults
    /\ pc' = [pc EXCEPT ![c] = "err"]
    /\ UNCHANGED <<inner, max_live, chan, hand, respawn, call, sender, outside, outcome>>

StartFails(c) ==
    /\ pc[c] = "start" /\ "spawn" \in Faults
    /\ pc' = [pc EXCEPT ![c] = "release"]
    /\ UNCHANGED <<inner, max_live, chan, hand, respawn, call, sender, outside, outcome>>

\* Err(job): run and try_run give the job back, set_limit drops it and stops,
\* run_outside goes on to a thread outside of the limit.
ReturnErr(c) ==
    /\ pc[c] = "err"
    /\ \/ /\ call[c] = "run_outside"
          /\ pc' = [pc EXCEPT ![c] = "outside"]
          /\ UNCHANGED <<hand, outcome>>
       \/ /\ call[c] # "run_outside"
          /\ pc' = [pc EXCEPT ![c] = "home"]
          /\ hand' = [hand EXCEPT ![c] = None]
          /\ outcome' = [outcome EXCEPT ![hand[c]] =
                           IF call[c] = "set_limit" THEN "dropped" ELSE "returned"]
    /\ UNCHANGED <<inner, max_live, chan, respawn, call, sender, outside>>

StartOutside(c) ==
    /\ pc[c] = "outside"
    /\ \/ outside' = outside \cup {hand[c]} /\ UNCHANGED outcome
       \/ /\ "spawn" \in Faults
          /\ outcome' = [outcome EXCEPT ![hand[c]] = "returned"]
          /\ UNCHANGED outside
    /\ pc' = [pc EXCEPT ![c] = "home"]
    /\ hand' = [hand EXCEPT ![c] = None]
    /\ UNCHANGED <<inner, max_live, chan, respawn, call, sender>>

\* A thread outside of the limit ends with its job.
FinishOutside(j) ==
    /\ j \in outside
    /\ outside' = outside \ {j}
    /\ outcome' = [outcome EXCEPT ![j] = "done"]
    /\ UNCHANGED <<inner, max_live, chan, pc, hand, respawn, call, sender>>

-----------------------------------------------------------------------------
(***************************************************************************)
(* release: a seat is given back, by a caller whose spawn failed or by     *)
(* the Drop of Live in a thread that ends.                                 *)
(***************************************************************************)
Released(t) == IF t \in Callers THEN "err" ELSE "none"

\* Variant: no replacement for the last thread.
Release_NoReplacement(t) ==
    /\ pc[t] = "release"
    /\ live' = live - 1
    /\ pc' = [pc EXCEPT ![t] = Released(t)]
    /\ UNCHANGED <<idle, queue, max_live, chan, hand, respawn, call, sender, outside, outcome>>

Release(t) ==
    /\ pc[t] = "release"
    /\ \/ /\ live > 1 \/ queue = <<>>
          /\ live' = live - 1
          /\ pc' = [pc EXCEPT ![t] = Released(t)]
          /\ UNCHANGED <<queue, respawn>>
       \/ /\ live <= 1 /\ queue # <<>>
          /\ live' = (live - 1) + 1
          /\ queue' = Tail(queue)
          /\ respawn' = [respawn EXCEPT ![t] = Head(queue)]
          /\ pc' = [pc EXCEPT ![t] = "respawn"]
    /\ UNCHANGED <<idle, max_live, chan, hand, call, sender, outside, outcome>>

Respawn(t, w) ==
    /\ pc[t] = "respawn" /\ Free(w)
    /\ chan' = [chan EXCEPT ![w] = respawn[t]]
    /\ respawn' = [respawn EXCEPT ![t] = None]
    /\ pc' = [pc EXCEPT ![w] = "starting", ![t] = Released(t)]
    /\ UNCHANGED <<inner, max_live, hand, call, sender, outside, outcome>>

RespawnFails(t) ==
    /\ pc[t] = "respawn" /\ "spawn" \in Faults
    /\ outcome' = [outcome EXCEPT ![respawn[t]] = "dropped"]
    /\ respawn' = [respawn EXCEPT ![t] = None]
    /\ pc' = [pc EXCEPT ![t] = "release"]
    /\ UNCHANGED <<inner, max_live, chan, hand, call, sender, outside>>

-----------------------------------------------------------------------------
(***************************************************************************)
(* set_limit: the swap, then start_queued until it answers false.          *)
(***************************************************************************)
SetLimit(c, n) ==
    /\ pc[c] = "home" /\ n # max_live
    /\ max_live' = n
    /\ call' = [call EXCEPT ![c] = "set_limit"]
    /\ pc' = [pc EXCEPT ![c] = "drain"]
    /\ UNCHANGED <<inner, chan, hand, respawn, sender, outside, outcome>>

StartQueued(c) ==
    /\ pc[c] = "drain"
    /\ \/ /\ ~Room \/ queue = <<>>
          /\ pc' = [pc EXCEPT ![c] = "home"]
          /\ UNCHANGED <<queue, live, hand>>
       \/ /\ Room /\ queue # <<>>
          /\ hand' = [hand EXCEPT ![c] = Head(queue)]
          /\ queue' = Tail(queue)
          /\ live' = live + 1
          /\ pc' = [pc EXCEPT ![c] = "start"]
    /\ UNCHANGED <<idle, max_live, chan, respawn, call, sender, outside, outcome>>

-----------------------------------------------------------------------------
(***************************************************************************)
(* worker_loop.                                                            *)
(***************************************************************************)
\* rx.recv of the first job, rx.recv_timeout of a later one.
Receive(w) ==
    /\ pc[w] \in {"starting", "idle"} /\ chan[w] # None
    /\ hand' = [hand EXCEPT ![w] = chan[w]]
    /\ chan' = [chan EXCEPT ![w] = None]
    /\ pc' = [pc EXCEPT ![w] = "running"]
    /\ UNCHANGED <<inner, max_live, respawn, call, sender, outside, outcome>>

\* The job returns, or panics: then rx and Live are dropped by the unwinding.
Finish(w) ==
    /\ pc[w] = "running"
    /\ \/ pc' = [pc EXCEPT ![w] = "looking"]
       \/ "panic" \in Faults /\ pc' = [pc EXCEPT ![w] = "release"]
    /\ outcome' = [outcome EXCEPT ![hand[w]] = "done"]
    /\ hand' = [hand EXCEPT ![w] = None]
    /\ UNCHANGED <<inner, max_live, chan, respawn, call, sender, outside>>

\* Variants: the newest job is taken; the job stays in the queue.
TakeNext_Newest(w) ==
    /\ pc[w] = "looking" /\ queue # <<>>
    /\ hand' = [hand EXCEPT ![w] = queue[Len(queue)]]
    /\ queue' = SubSeq(queue, 1, Len(queue) - 1)
    /\ pc' = [pc EXCEPT ![w] = "running"]
    /\ UNCHANGED <<idle, live, max_live, chan, respawn, call, sender, outside, outcome>>

TakeNext_Copies(w) ==
    /\ pc[w] = "looking" /\ queue # <<>>
    /\ hand' = [hand EXCEPT ![w] = Head(queue)]
    /\ pc' = [pc EXCEPT ![w] = "running"]
    /\ UNCHANGED <<inner, max_live, chan, respawn, call, sender, outside, outcome>>

TakeNext(w) ==
    /\ pc[w] = "looking" /\ queue # <<>>
    /\ hand' = [hand EXCEPT ![w] = Head(queue)]
    /\ queue' = Tail(queue)
    /\ pc' = [pc EXCEPT ![w] = "running"]
    /\ UNCHANGED <<idle, live, max_live, chan, respawn, call, sender, outside, outcome>>

Surplus == (max_live # 0 /\ live > max_live) \/ Len(idle) >= MaxIdle

Leave(w) ==
    /\ pc[w] = "looking" /\ queue = <<>> /\ Surplus
    /\ pc' = [pc EXCEPT ![w] = "release"]
    /\ UNCHANGED <<inner, max_live, chan, hand, respawn, call, sender, outside, outcome>>

\* Variant: the queue was looked at in an earlier critical section.
Park_Blind(w) ==
    /\ pc[w] = "looking" /\ ~Surplus
    /\ idle' = Append(idle, w)
    /\ pc' = [pc EXCEPT ![w] = "idle"]
    /\ UNCHANGED <<queue, live, max_live, chan, hand, respawn, call, sender, outside, outcome>>

Park(w) ==
    /\ pc[w] = "looking" /\ queue = <<>> /\ ~Surplus
    /\ idle' = Append(idle, w)
    /\ pc' = [pc EXCEPT ![w] = "idle"]
    /\ UNCHANGED <<queue, live, max_live, chan, hand, respawn, call, sender, outside, outcome>>

\* recv_timeout answers Timeout.  The receiver is dropped a moment later.
TimeOut(w) ==
    /\ pc[w] = "idle" /\ chan[w] = None
    /\ pc' = [pc EXCEPT ![w] = "timedOut"]
    /\ UNCHANGED <<inner, max_live, chan, hand, respawn, call, sender, outside, outcome>>

\* The receiver goes, with the job that was sent to it in the meantime.
DropReceiver(w) ==
    /\ pc[w] = "timedOut"
    /\ pc' = [pc EXCEPT ![w] = "release"]
    /\ chan' = [chan EXCEPT ![w] = None]
    /\ outcome' = IF chan[w] = None THEN outcome
                                    ELSE [outcome EXCEPT ![chan[w]] = "dropped"]
    /\ UNCHANGED <<inner, max_live, hand, respawn, call, sender, outside>>

-----------------------------------------------------------------------------
CallerStep(c) ==
    \/ PopIdle(c) \/ TakeSeat(c) \/ Refuse(c) \/ Enqueue(c) \/ Send(c)
    \/ \E w \in Threads : Start(c, w)
    \/ StartFails(c) \/ ReturnErr(c) \/ StartOutside(c) \/ StartQueued(c)

ReleaseStep(t) ==
    Release(t) \/ (\E w \in Threads : Respawn(t, w)) \/ RespawnFails(t)

ThreadStep(w) ==
    Receive(w) \/ Finish(w) \/ TakeNext(w) \/ Leave(w) \/ Park(w) \/ DropReceiver(w)

Next ==
    \/ \E c \in Callers, j \in Jobs, op \in Ops : Submit(c, j, op)
    \/ \E c \in Callers, n \in Limits : SetLimit(c, n)
    \/ \E c \in Callers : CallerStep(c)
    \/ \E t \in Callers \cup Threads : ReleaseStep(t)
    \/ \E w \in Threads : ThreadStep(w) \/ TimeOut(w)
    \/ \E j \in Jobs : FinishOutside(j)

Spec == Init /\ [][Next]_vars

(***************************************************************************)
(* The operating system schedules every thread; a job comes to an end (the *)
(* connection it serves has timeouts); nobody is obliged to submit, to     *)
(* change the limit or to let an idle thread time out.                     *)
(***************************************************************************)
Fairness ==
    /\ \A c \in Callers : WF_vars(CallerStep(c))
    /\ \A t \in Callers \cup Threads : WF_vars(ReleaseStep(t))
    /\ \A w \in Threads : WF_vars(ThreadStep(w))

FairSpec == Spec /\ Fairness

-----------------------------------------------------------------------------
(***************************************************************************)
(* Properties.                                                             *)
(***************************************************************************)
Everyone == Callers \cup Threads
JobOrNone == Jobs \cup {None}

\* The variables have their types: the data under the lock, where everyone
\* is, and what everyone holds.
InnerType == /\ idle \in Seq(Threads) /\ queue \in Seq(Jobs)
             /\ live \in Nat /\ max_live \in Limits
PcType == /\ pc \in [Everyone -> CallerPcs \cup ThreadPcs]
          /\ \A c \in Callers : pc[c] \in CallerPcs
          /\ \A w \in Threads : pc[w] \in ThreadPcs
HeldType == /\ chan \in [Threads -> JobOrNone]
            /\ hand \in [Everyone -> JobOrNone]
            /\ respawn \in [Everyone -> JobOrNone]
            /\ call \in [Callers -> Runs \cup {"set_limit"}]
            /\ sender \in [Callers -> Threads \cup {None}]
            /\ outside \subseteq Jobs
            /\ outcome \in [Jobs -> {"new", "pending", "done", "returned", "dropped"}]
TypeOK == InnerType /\ PcType /\ HeldType

(***************************************************************************)
(* A seat is held by a pool thread from its creation until its release, by *)
(* a caller between taking the seat and the thread that gets it (or the    *)
(* release after a failed spawn), and by whoever starts the replacement of *)
(* the last thread.                                                        *)
(***************************************************************************)
SeatPcs == {"start", "release", "respawn", "starting", "running", "looking",
            "idle", "timedOut"}
SeatHolders == {t \in Everyone : pc[t] \in SeatPcs}

\* Inner.live counts the threads that exist or are about to: no path through
\* a panic, a failed spawn or a changed limit loses a seat or gives one back
\* twice (release would then hide it behind saturating_sub).
SeatsAccounted == live = Cardinality(SeatHolders)

\* Where job j is: each element is one place that owns the closure.
Places(j) == {<<"queue", i>> : i \in {k \in DOMAIN queue : queue[k] = j}}
             \cup {<<"chan", w>> : w \in {v \in Threads : chan[v] = j}}
             \cup {<<"hand", t>> : t \in {u \in Everyone : hand[u] = j}}
             \cup {<<"respawn", t>> : t \in {u \in Everyone : respawn[u] = j}}
             \cup {<<"outside", k>> : k \in outside \cap {j}}

\* A job submitted and not yet run, returned or dropped is in exactly one
\* place, and in none afterwards: it cannot run twice, nor both run and come
\* back to the caller as Err.
OneOwner == \A j \in Jobs : Cardinality(Places(j)) = IF outcome[j] = "pending" THEN 1 ELSE 0

\* A sender is in the stack, or popped, at most once; a popped one is that of
\* a thread which has nothing in its channel, so that no send ever queues a
\* second job behind the first one.
InFlight(w) == {c \in Callers : sender[c] = w}
StackedAt(w) == {i \in DOMAIN idle : idle[i] = w}
OneSender == \A w \in Threads :
    /\ Cardinality(StackedAt(w)) + Cardinality(InFlight(w)) <= 1
    /\ StackedAt(w) # {} \/ InFlight(w) # {} =>
           chan[w] = None /\ pc[w] \notin {"starting", "running", "looking"}

\* Every job has one owner and every idle thread one sender, whatever is sent,
\* taken, thrown away or given up by a panic.
JobsAccounted == TypeOK /\ OneOwner /\ OneSender

\* A thread that sleeps in recv_timeout and that nobody can reach: it does
\* not look at the queue before its time is out.
Sleeps(w) == pc[w] = "idle" /\ chan[w] = None /\ InFlight(w) = {}

\* While a job waits there is a thread, or one about to be, that will look at
\* the queue without being woken: "the job that was queued is picked up by
\* someone" of the module's comment, including exits, panics and failed
\* spawns that happen after it was queued.
QueueIsWatched == queue # <<>> => \E t \in SeatHolders : t \in Callers \/ ~Sleeps(t)

\* No job waits while a thread sits in the idle stack.
NoIdleWhileQueued == queue = <<>> \/ idle = <<>>

\* A seat is only added while the threads stay within the limit; lowering
\* the limit kills nobody.
SeatsWithinLimit ==
    [][ Cardinality(SeatHolders') > Cardinality(SeatHolders)
          => max_live = 0 \/ Cardinality(SeatHolders') <= max_live ]_vars

\* A queued job does not wait for ever when jobs come to an end.
QueuedIsTaken == \A j \in Jobs : (\E i \in DOMAIN queue : queue[i] = j)
                                   ~> ~(\E i \in DOMAIN queue : queue[i] = j)

\* The comment in worker_loop: a sender left behind by a thread that timed
\* out makes the next send fail, so the job is kept.  (Without spawn faults
\* nothing else may drop a job.)
AcceptedIsKept == \A j \in Jobs : outcome[j] # "dropped"

\* What the pool promises, whatever its threads do (see JobPool).
Status(j) ==
    IF outcome[j] # "pending" THEN outcome[j]
    ELSE IF j \in outside THEN "running"
    ELSE IF \E w \in Threads : hand[w] = j THEN "running"
    ELSE IF \E c \in Callers : hand[c] = j /\ call[c] # "set_limit" THEN "offered"
    ELSE "accepted"

Pool == INSTANCE JobPool WITH status <- [j \in Jobs |-> Status(j)], waiting <- queue

\* The pool of threads implements the pool of jobs.
ImplementsJobPool == Pool!Spec
=============================================================================
