---------------------------- MODULE WorkersProofs ----------------------------
(***************************************************************************)
(* The pool of connection threads, for every set of callers, threads and   *)
(* jobs, every limit and every fault: its seats are accounted for and only *)
(* added below the limit, a queued job always has a thread that will look  *)
(* at the queue, every job has one owner and every idle thread one sender, *)
(* and the whole implements the pool of jobs of `JobPool'.                 *)
(***************************************************************************)
EXTENDS Workers, TLAPS, FiniteSetTheorems, SequenceTheorems

\* Who is past the point where a job, a sender or a seat was taken holds it.
HandOK ==
    /\ \A c \in Callers :
          /\ pc[c] \in {"submit", "send", "start", "release", "respawn", "err", "outside"}
                => hand[c] \in Jobs
          /\ pc[c] = "send" => sender[c] \in Threads
          /\ pc[c] # "send" => sender[c] = None
    /\ \A w \in Threads :
          /\ pc[w] = "running" => hand[w] \in Jobs
          /\ pc[w] = "starting" => chan[w] \in Jobs
    /\ \A t \in Everyone : pc[t] = "respawn" => respawn[t] \in Jobs

Seats == IsFiniteSet(SeatHolders) /\ SeatsAccounted

\* A thread in recv_timeout has a job, a sender that somebody popped, or a
\* sender in the stack.
Reachable == \A w \in Threads :
    pc[w] = "idle" => chan[w] # None \/ InFlight(w) # {} \/ StackedAt(w) # {}

QueueHasSeat == queue # <<>> => live > 0

IInv == TypeOK /\ HandOK /\ Seats
WInv == IInv /\ NoIdleWhileQueued /\ Reachable /\ QueueHasSeat

-----------------------------------------------------------------------------
\* A seat that is held is counted.
LEMMA SeatIsCounted ==
    ASSUME TypeOK, Seats, NEW t \in Everyone, pc[t] \in SeatPcs
    PROVE  live >= 1
<1>1. t \in SeatHolders
  BY DEF SeatHolders
<1>2. Cardinality(SeatHolders) # 0
  BY <1>1, FS_EmptySet DEF Seats
<1> QED
  BY <1>2 DEF Seats, SeatsAccounted, TypeOK, InnerType

\* Removing the top of a non-empty stack leaves a stack.
LEMMA PopIsSeq ==
    ASSUME NEW S, NEW s \in Seq(S), s # <<>>
    PROVE  SubSeq(s, 1, Len(s) - 1) \in Seq(S) /\ s[Len(s)] \in S
  OBVIOUS

\* Taking the first of the waiting jobs.
LEMMA HeadTail ==
    ASSUME NEW S, NEW s \in Seq(S), s # <<>>
    PROVE  Head(s) \in S /\ Tail(s) \in Seq(S)
  OBVIOUS

\* A thread or a caller moves to a place of its own kind.
LEMMA PcMove ==
    ASSUME ThreadsAssumption, PcType, NEW t \in Everyone, NEW v,
           t \in Callers => v \in CallerPcs, t \in Threads => v \in ThreadPcs,
           pc' = [pc EXCEPT ![t] = v]
    PROVE  PcType'
<1>1. v \in CallerPcs \cup ThreadPcs
  BY DEF Everyone
<1> QED
  BY <1>1 DEF PcType, Everyone

\* The same while thread w is created.
LEMMA PcCreate ==
    ASSUME ThreadsAssumption, PcType, NEW w \in Threads, NEW t \in Everyone, NEW v,
           t \in Callers => v \in CallerPcs, t \in Threads => v \in ThreadPcs,
           pc' = [pc EXCEPT ![w] = "starting", ![t] = v]
    PROVE  PcType'
<1>1. v \in CallerPcs \cup ThreadPcs /\ "starting" \in ThreadPcs /\ w \notin Callers
  BY DEF Everyone, ThreadPcs
<1> QED
  BY <1>1 DEF PcType, Everyone

\* Every step keeps the types and the holdings.
LEMMA TypeStep ==
    ASSUME IInv, [Next]_vars
    PROVE  TypeOK' /\ HandOK'
<1> USE NoneAssumption, ThreadsAssumption, BoundsAssumption
        DEF IInv, TypeOK, InnerType, PcType, HeldType, HandOK, Everyone, JobOrNone, inner,
            CallerPcs, ThreadPcs, Runs
<1>1. ASSUME NEW c \in Callers, NEW j \in Jobs, NEW op \in Ops, Submit(c, j, op)
      PROVE TypeOK' /\ HandOK'
  BY <1>1, OpsAssumption DEF Submit
<1>2. ASSUME NEW c \in Callers, NEW n \in Limits, SetLimit(c, n)
      PROVE TypeOK' /\ HandOK'
  BY <1>2 DEF SetLimit
<1>3. ASSUME NEW c \in Callers, CallerStep(c)
      PROVE TypeOK' /\ HandOK'
  <2>1. CASE PopIdle(c)
    BY <2>1, PopIsSeq DEF PopIdle
  <2>2. CASE TakeSeat(c)
    BY <2>2 DEF TakeSeat
  <2>3. CASE Refuse(c)
    BY <2>3 DEF Refuse
  <2>4. CASE Enqueue(c)
    BY <2>4 DEF Enqueue
  <2>5. CASE Send(c)
    <3>1. CASE Receives(sender[c])
      <4>1. /\ pc' = [pc EXCEPT ![c] = "home"]
            /\ hand' = [hand EXCEPT ![c] = None]
            /\ chan' = [chan EXCEPT ![sender[c]] = hand[c]]
            /\ sender' = [sender EXCEPT ![c] = None]
            /\ pc[c] = "send" /\ hand[c] \in Jobs /\ sender[c] \in Threads
            /\ UNCHANGED <<idle, queue, live, max_live, respawn, call, outside, outcome>>
        BY <2>5, <3>1 DEF Send
      <4>p. PcType'
        BY <4>1, PcMove
      <4>t. InnerType' /\ HeldType'
        BY <4>1
      <4>h. HandOK'
        BY <4>1
      <4> QED
        BY <4>p, <4>t, <4>h DEF TypeOK
    <3>2. CASE ~Receives(sender[c])
      <4>1. /\ pc' = [pc EXCEPT ![c] = "submit"]
            /\ sender' = [sender EXCEPT ![c] = None]
            /\ pc[c] = "send" /\ hand[c] \in Jobs
            /\ UNCHANGED <<idle, queue, live, max_live, hand, chan, respawn, call, outside,
              outcome>>
        BY <2>5, <3>2 DEF Send
      <4>p. PcType'
        BY <4>1, PcMove
      <4>t. InnerType' /\ HeldType'
        BY <4>1
      <4>h. HandOK'
        BY <4>1
      <4> QED
        BY <4>p, <4>t, <4>h DEF TypeOK
    <3> QED
      BY <3>1, <3>2
  <2>6. CASE StartFails(c)
    BY <2>6 DEF StartFails
  <2>7. CASE ReturnErr(c)
    <3>1. CASE call[c] = "run_outside"
      <4>1. /\ pc' = [pc EXCEPT ![c] = "outside"]
            /\ pc[c] = "err"
            /\ UNCHANGED <<idle, queue, live, max_live, hand, chan, respawn, call, sender,
              outside, outcome>>
        BY <2>7, <3>1 DEF ReturnErr
      <4>p. PcType'
        BY <4>1, PcMove
      <4>t. InnerType' /\ HeldType'
        BY <4>1
      <4>h. HandOK'
        BY <4>1
      <4> QED
        BY <4>p, <4>t, <4>h DEF TypeOK
    <3>2. CASE call[c] # "run_outside"
      <4>1. /\ pc' = [pc EXCEPT ![c] = "home"]
            /\ hand' = [hand EXCEPT ![c] = None]
            /\ outcome' = [outcome EXCEPT ![hand[c]] =
                             IF call[c] = "set_limit" THEN "dropped" ELSE "returned"]
            /\ pc[c] = "err" /\ hand[c] \in Jobs
            /\ UNCHANGED <<idle, queue, live, max_live, chan, respawn, call, sender, outside>>
        BY <2>7, <3>2 DEF ReturnErr
      <4>p. PcType'
        BY <4>1, PcMove
      <4>t. InnerType' /\ HeldType'
        BY <4>1
      <4>h. HandOK'
        BY <4>1
      <4> QED
        BY <4>p, <4>t, <4>h DEF TypeOK
    <3> QED
      BY <3>1, <3>2
  <2>8. CASE StartOutside(c)
    BY <2>8 DEF StartOutside
  <2>9. CASE StartQueued(c)
    <3>1. CASE ~Room \/ queue = <<>>
      <4>1. /\ pc' = [pc EXCEPT ![c] = "home"]
            /\ pc[c] = "drain"
            /\ UNCHANGED <<idle, queue, live, max_live, hand, chan, respawn, call, sender,
              outside, outcome>>
        BY <2>9, <3>1 DEF StartQueued
      <4>p. PcType'
        BY <4>1, PcMove
      <4>t. InnerType' /\ HeldType'
        BY <4>1
      <4>h. HandOK'
        BY <4>1
      <4> QED
        BY <4>p, <4>t, <4>h DEF TypeOK
    <3>2. CASE Room /\ queue # <<>>
      <4>1. /\ pc' = [pc EXCEPT ![c] = "start"]
            /\ hand' = [hand EXCEPT ![c] = Head(queue)]
            /\ queue' = Tail(queue)
            /\ live' = live + 1
            /\ pc[c] = "drain"
            /\ UNCHANGED <<idle, max_live, chan, respawn, call, sender, outside, outcome>>
        BY <2>9, <3>2 DEF StartQueued
      <4>2. Head(queue) \in Jobs /\ Tail(queue) \in Seq(Jobs)
        BY <3>2, HeadTail
      <4>p. PcType'
        BY <4>1, PcMove
      <4>t. InnerType' /\ HeldType'
        BY <4>1, <4>2
      <4>h. HandOK'
        BY <4>1, <4>2
      <4> QED
        BY <4>p, <4>t, <4>h DEF TypeOK
    <3> QED
      BY <3>1, <3>2
  <2>10. ASSUME NEW w \in Threads, Start(c, w)
       PROVE TypeOK' /\ HandOK'
    <3>i. InnerType'
      BY <2>10 DEF Start, Free
    <3>p. PcType'
      BY <2>10 DEF Start, Free
    <3>t. HeldType'
      BY <2>10 DEF Start, Free
    <3>h. HandOK'
      BY <2>10 DEF Start, Free
    <3> QED
      BY <3>i, <3>p, <3>t, <3>h DEF TypeOK
  <2> QED
    BY <1>3, <2>1, <2>2, <2>3, <2>4, <2>5, <2>6, <2>7, <2>8, <2>9, <2>10 DEF CallerStep
<1>4. ASSUME NEW t \in Everyone, ReleaseStep(t)
      PROVE TypeOK' /\ HandOK'
  <2>1. CASE Release(t)
    <3>1. live >= 1
      BY <2>1, SeatIsCounted DEF Release, SeatPcs
    <3>2. CASE live > 1 \/ queue = <<>>
      <4>1. /\ pc' = [pc EXCEPT ![t] = Released(t)]
            /\ live' = live - 1
            /\ pc[t] = "release"
            /\ UNCHANGED <<idle, queue, max_live, chan, hand, respawn, call, sender, outside,
              outcome>>
        BY <2>1, <3>1, <3>2 DEF Release
      <4>p. PcType'
        BY <4>1, PcMove DEF Released
      <4>t. InnerType' /\ HeldType'
        BY <4>1, <3>1
      <4>h. HandOK'
        BY <4>1 DEF Released
      <4> QED
        BY <4>p, <4>t, <4>h DEF TypeOK
    <3>3. CASE ~(live > 1 \/ queue = <<>>)
      <4>1. /\ pc' = [pc EXCEPT ![t] = "respawn"]
            /\ live' = (live - 1) + 1
            /\ queue' = Tail(queue)
            /\ respawn' = [respawn EXCEPT ![t] = Head(queue)]
            /\ pc[t] = "release"
            /\ UNCHANGED <<idle, max_live, chan, hand, call, sender, outside, outcome>>
        BY <2>1, <3>3 DEF Release
      <4>2. Head(queue) \in Jobs /\ Tail(queue) \in Seq(Jobs)
        BY <3>3, HeadTail
      <4>p. PcType'
        BY <4>1, PcMove
      <4>t. InnerType' /\ HeldType'
        BY <4>1, <4>2, <3>1
      <4>h. HandOK'
        BY <4>1, <4>2
      <4> QED
        BY <4>p, <4>t, <4>h DEF TypeOK
    <3> QED
      BY <3>2, <3>3
  <2>2. ASSUME NEW w \in Threads, Respawn(t, w)
        PROVE TypeOK' /\ HandOK'
    <3>i. InnerType'
      BY <2>2 DEF Respawn, Released, Free
    <3>p. PcType'
      BY <2>2, PcCreate DEF Respawn, Released
    <3>t. HeldType'
      BY <2>2 DEF Respawn, Released, Free
    <3>h. HandOK'
      BY <2>2 DEF Respawn, Released, Free
    <3> QED
      BY <3>i, <3>p, <3>t, <3>h DEF TypeOK
  <2>3. CASE RespawnFails(t)
    BY <2>3 DEF RespawnFails
  <2> QED
    BY <1>4, <2>1, <2>2, <2>3 DEF ReleaseStep
<1>5. ASSUME NEW w \in Threads, ThreadStep(w) \/ TimeOut(w)
      PROVE TypeOK' /\ HandOK'
  <2>1. CASE Receive(w)
    BY <2>1 DEF Receive
  <2>2. CASE Finish(w)
    <3>i. InnerType'
      BY <2>2 DEF Finish
    <3>p. PcType'
      <4>1. \/ pc' = [pc EXCEPT ![w] = "looking"]
            \/ pc' = [pc EXCEPT ![w] = "release"]
        BY <2>2 DEF Finish
      <4> QED
        BY <4>1, PcMove
    <3>t. HeldType'
      BY <2>2 DEF Finish
    <3>h. HandOK'
      BY <2>2 DEF Finish
    <3> QED
      BY <3>i, <3>p, <3>t, <3>h DEF TypeOK
  <2>3. CASE TakeNext(w)
    BY <2>3, HeadTail DEF TakeNext
  <2>4. CASE Leave(w)
    BY <2>4 DEF Leave
  <2>5. CASE Park(w)
    BY <2>5 DEF Park
  <2>6. CASE TimeOut(w)
    BY <2>6 DEF TimeOut
  <2>7. CASE DropReceiver(w)
    BY <2>7 DEF DropReceiver
  <2> QED
    BY <1>5, <2>1, <2>2, <2>3, <2>4, <2>5, <2>6, <2>7 DEF ThreadStep
<1>6. ASSUME NEW j \in Jobs, FinishOutside(j)
      PROVE TypeOK' /\ HandOK'
  BY <1>6 DEF FinishOutside
<1>7. CASE UNCHANGED vars
  BY <1>7 DEF vars
<1> HIDE DEF TypeOK, InnerType, PcType, HeldType, HandOK, inner, CallerPcs, ThreadPcs
<1> QED
  BY <1>1, <1>2, <1>3, <1>4, <1>5, <1>6, <1>7 DEF Next

-----------------------------------------------------------------------------
(***************************************************************************)
(* The four ways a step can treat the seats.                               *)
(***************************************************************************)
LEMMA SeatKept ==
    ASSUME TypeOK, Seats, NEW t \in Everyone, NEW v, pc' = [pc EXCEPT ![t] = v],
           v \in SeatPcs <=> pc[t] \in SeatPcs, live' = live
    PROVE  Seats'
<1>1. SeatHolders' = SeatHolders
  BY DEF SeatHolders, TypeOK, PcType
<1> QED
  BY <1>1 DEF Seats, SeatsAccounted

\* Somebody takes a seat.
LEMMA SeatTaken ==
    ASSUME TypeOK, Seats, NEW t \in Everyone, NEW v, pc' = [pc EXCEPT ![t] = v],
           v \in SeatPcs, pc[t] \notin SeatPcs, live' = live + 1
    PROVE  Seats'
<1>1. SeatHolders' = SeatHolders \cup {t} /\ t \notin SeatHolders
  BY DEF SeatHolders, TypeOK, PcType
<1> QED
  BY <1>1, FS_AddElement DEF Seats, SeatsAccounted

\* Somebody gives his seat back.
LEMMA SeatGivenBack ==
    ASSUME TypeOK, Seats, NEW t \in Everyone, NEW v, pc' = [pc EXCEPT ![t] = v],
           v \notin SeatPcs, pc[t] \in SeatPcs, live' = live - 1
    PROVE  Seats'
<1>1. SeatHolders' = SeatHolders \ {t} /\ t \in SeatHolders
  BY DEF SeatHolders, TypeOK, PcType
<1> QED
  BY <1>1, FS_RemoveElement DEF Seats, SeatsAccounted

\* A new thread gets the seat of the one who creates it.
LEMMA SeatPassedOn ==
    ASSUME TypeOK, Seats, NEW w \in Threads, NEW t \in Everyone, NEW v,
           pc' = [pc EXCEPT ![w] = "starting", ![t] = v],
           pc[w] = "none", v \notin SeatPcs, pc[t] \in SeatPcs, live' = live
    PROVE  Seats'
<1>1. "starting" \in SeatPcs /\ "none" \notin SeatPcs
  BY DEF SeatPcs
<1>2. /\ SeatHolders' = (SeatHolders \ {t}) \cup {w}
      /\ t \in SeatHolders /\ w \notin SeatHolders \ {t}
  BY <1>1 DEF SeatHolders, TypeOK, PcType, Everyone
<1>3. /\ IsFiniteSet(SeatHolders \ {t})
      /\ Cardinality(SeatHolders \ {t}) = live - 1
  BY <1>2, FS_RemoveElement DEF Seats, SeatsAccounted
<1>4. live \in Nat
  BY DEF TypeOK, InnerType
<1> QED
  BY <1>2, <1>3, <1>4, FS_AddElement DEF Seats, SeatsAccounted

\* Every step keeps the account of the seats.
LEMMA SeatStep ==
    ASSUME IInv, [Next]_vars
    PROVE  Seats'
<1> USE ThreadsAssumption DEF IInv, SeatPcs, inner
<1>1. ASSUME NEW c \in Callers, NEW j \in Jobs, NEW op \in Ops, Submit(c, j, op)
      PROVE Seats'
  BY <1>1, SeatKept DEF Submit, Everyone
<1>2. ASSUME NEW c \in Callers, NEW n \in Limits, SetLimit(c, n)
      PROVE Seats'
  BY <1>2, SeatKept DEF SetLimit, Everyone
<1>3. ASSUME NEW c \in Callers, CallerStep(c)
      PROVE Seats'
  <2>0. c \in Everyone
    BY DEF Everyone
  <2>1. CASE PopIdle(c)
    BY <2>0, <2>1, SeatKept DEF PopIdle
  <2>2. CASE Refuse(c)
    BY <2>0, <2>2, SeatKept DEF Refuse
  <2>3. CASE Enqueue(c)
    BY <2>0, <2>3, SeatKept DEF Enqueue
  <2>4. CASE Send(c)
    BY <2>0, <2>4, SeatKept DEF Send
  <2>5. CASE StartFails(c)
    BY <2>0, <2>5, SeatKept DEF StartFails
  <2>6. CASE ReturnErr(c)
    BY <2>0, <2>6, SeatKept DEF ReturnErr
  <2>7. CASE StartOutside(c)
    BY <2>0, <2>7, SeatKept DEF StartOutside
  <2>8. CASE TakeSeat(c)
    BY <2>0, <2>8, SeatTaken DEF TakeSeat
  <2>9. CASE StartQueued(c)
    BY <2>0, <2>9, SeatKept, SeatTaken DEF StartQueued
  <2>10. ASSUME NEW w \in Threads, Start(c, w)
        PROVE Seats'
    BY <2>0, <2>10, SeatPassedOn DEF Start, Free
  <2> QED
    BY <1>3, <2>1, <2>2, <2>3, <2>4, <2>5, <2>6, <2>7, <2>8, <2>9, <2>10 DEF CallerStep
<1>4. ASSUME NEW t \in Everyone, ReleaseStep(t)
      PROVE Seats'
  <2>1. CASE Release(t)
    <3>1. live \in Nat
      BY DEF TypeOK, InnerType
    <3>2. CASE live > 1 \/ queue = <<>>
      <4>1. /\ pc' = [pc EXCEPT ![t] = Released(t)]
            /\ live' = live - 1
            /\ pc[t] = "release"
        BY <2>1, <3>1, <3>2 DEF Release
      <4>2. Released(t) \notin SeatPcs
        BY DEF Released
      <4> QED
        BY <4>1, <4>2, SeatGivenBack
    <3>3. CASE ~(live > 1 \/ queue = <<>>)
      <4>1. /\ pc' = [pc EXCEPT ![t] = "respawn"]
            /\ live' = (live - 1) + 1
            /\ pc[t] = "release"
        BY <2>1, <3>3 DEF Release
      <4>2. live' = live
        BY <3>1, <4>1
      <4> QED
        BY <4>1, <4>2, SeatKept
    <3> QED
      BY <3>2, <3>3
  <2>2. ASSUME NEW w \in Threads, Respawn(t, w)
        PROVE Seats'
    BY <2>2, SeatPassedOn DEF Respawn, Released, Free
  <2>3. CASE RespawnFails(t)
    BY <2>3, SeatKept DEF RespawnFails
  <2> QED
    BY <1>4, <2>1, <2>2, <2>3 DEF ReleaseStep
<1>5. ASSUME NEW w \in Threads, ThreadStep(w) \/ TimeOut(w)
      PROVE Seats'
  <2>0. w \in Everyone
    BY DEF Everyone
  <2>1. CASE Receive(w)
    BY <2>0, <2>1, SeatKept DEF Receive
  <2>2. CASE Finish(w)
    BY <2>0, <2>2, SeatKept DEF Finish
  <2>3. CASE TakeNext(w)
    BY <2>0, <2>3, SeatKept DEF TakeNext
  <2>4. CASE Leave(w)
    BY <2>0, <2>4, SeatKept DEF Leave
  <2>5. CASE Park(w)
    BY <2>0, <2>5, SeatKept DEF Park
  <2>6. CASE TimeOut(w)
    BY <2>0, <2>6, SeatKept DEF TimeOut
  <2>7. CASE DropReceiver(w)
    BY <2>0, <2>7, SeatKept DEF DropReceiver
  <2> QED
    BY <1>5, <2>1, <2>2, <2>3, <2>4, <2>5, <2>6, <2>7 DEF ThreadStep
<1>6. ASSUME NEW j \in Jobs, FinishOutside(j)
      PROVE Seats'
  BY <1>6 DEF FinishOutside, Seats, SeatsAccounted, SeatHolders
<1>7. CASE UNCHANGED vars
  BY <1>7 DEF vars, Seats, SeatsAccounted, SeatHolders
<1> QED
  BY <1>1, <1>2, <1>3, <1>4, <1>5, <1>6, <1>7 DEF Next, Everyone

-----------------------------------------------------------------------------
\* Nothing is taken at first.
LEMMA InitOK == Init => IInv
<1> SUFFICES ASSUME Init PROVE IInv
  OBVIOUS
<1>1. TypeOK /\ HandOK
  BY NoneAssumption, ThreadsAssumption
     DEF Init, TypeOK, InnerType, PcType, HeldType, HandOK, Everyone, JobOrNone,
         CallerPcs, ThreadPcs, Runs
<1>2. SeatHolders = {}
  BY DEF Init, SeatHolders, SeatPcs, Everyone
<1> QED
  BY <1>1, <1>2, FS_EmptySet DEF IInv, Seats, SeatsAccounted, Init

\* Types, holdings and seats hold in every reachable state.
LEMMA Inductive == Spec => []IInv
<1>1. IInv /\ [Next]_vars => IInv'
  BY TypeStep, SeatStep DEF IInv
<1> QED
  BY <1>1, InitOK, PTL DEF Spec

\* The variables keep their types, whatever the sets of callers, threads and
\* jobs, the limits and the faults.
THEOREM TypeCorrect == Spec => []TypeOK
<1>1. IInv => TypeOK
  BY DEF IInv
<1> QED
  BY <1>1, Inductive, PTL

\* The counter `live' of workers.rs is the number of seats held: a panic, a
\* failed spawn, a timeout or a new limit never leaks a seat and never gives
\* one back twice.
THEOREM SeatsAlwaysAccounted == Spec => []SeatsAccounted
<1>1. IInv => SeatsAccounted
  BY DEF IInv, Seats
<1> QED
  BY <1>1, Inductive, PTL

-----------------------------------------------------------------------------
(***************************************************************************)
(* A queued job is watched.  Nobody parks while jobs wait and no job is    *)
(* queued while somebody is parked; a thread asleep in recv_timeout is in  *)
(* the idle stack or about to be sent a job; so every thread that holds a  *)
(* seat while a job waits is going to look at the queue.                   *)
(***************************************************************************)
LEMMA QuietStep ==
    ASSUME IInv, NoIdleWhileQueued, [Next]_vars
    PROVE  NoIdleWhileQueued'
<1> USE DEF NoIdleWhileQueued, inner
<1>1. ASSUME NEW c \in Callers, CallerStep(c)
      PROVE NoIdleWhileQueued'
  BY <1>1 DEF CallerStep, PopIdle, TakeSeat, Refuse, Enqueue, Send, Start,
              StartFails, ReturnErr, StartOutside, StartQueued
<1>2. ASSUME NEW t \in Everyone, ReleaseStep(t)
      PROVE NoIdleWhileQueued'
  BY <1>2 DEF ReleaseStep, Release, Respawn, RespawnFails
<1>3. ASSUME NEW w \in Threads, ThreadStep(w) \/ TimeOut(w)
      PROVE NoIdleWhileQueued'
  BY <1>3 DEF ThreadStep, Receive, Finish, TakeNext, Leave, Park, TimeOut, DropReceiver
<1> QED
  BY <1>1, <1>2, <1>3 DEF Next, Everyone, Submit, SetLimit, FinishOutside, vars

\* A job is queued only when the seats are taken, and the last seat is not given back while
\* one waits.
LEMMA SeatForQueueStep ==
    ASSUME IInv, IInv', QueueHasSeat, [Next]_vars
    PROVE  QueueHasSeat'
<1> USE DEF QueueHasSeat, inner
<1>0. /\ live \in Nat /\ live' \in Nat /\ max_live \in Nat
      /\ queue \in Seq(Jobs)
  BY BoundsAssumption DEF IInv, TypeOK, InnerType
<1>1. ASSUME NEW c \in Callers, CallerStep(c)
      PROVE QueueHasSeat'
  BY <1>0, <1>1 DEF CallerStep, PopIdle, TakeSeat, Refuse, Enqueue, Send, Start, Room,
              StartFails, ReturnErr, StartOutside, StartQueued
<1>2. ASSUME NEW t \in Everyone, ReleaseStep(t)
      PROVE QueueHasSeat'
  BY <1>0, <1>2 DEF ReleaseStep, Release, Respawn, RespawnFails
<1>3. ASSUME NEW w \in Threads, ThreadStep(w) \/ TimeOut(w)
      PROVE QueueHasSeat'
  BY <1>0, <1>3 DEF ThreadStep, Receive, Finish, TakeNext, Leave, Park, TimeOut, DropReceiver
<1> QED
  BY <1>1, <1>2, <1>3 DEF Next, Everyone, Submit, SetLimit, FinishOutside, vars

\* A thread that goes to sleep leaves its sender in the stack; who pops it sends.
LEMMA ReachableStep ==
    ASSUME IInv, Reachable, [Next]_vars
    PROVE  Reachable'
<1> SUFFICES ASSUME NEW w \in Threads, pc'[w] = "idle"
             PROVE  (chan[w] # None \/ InFlight(w) # {} \/ StackedAt(w) # {})'
  BY DEF Reachable
<1>0. /\ idle \in Seq(Threads) /\ w \in Everyone /\ w \notin Callers /\ w # None
      /\ pc \in [Everyone -> CallerPcs \cup ThreadPcs] /\ chan \in [Threads -> JobOrNone]
      /\ sender \in [Callers -> Threads \cup {None}]
  BY NoneAssumption, ThreadsAssumption DEF IInv, TypeOK, InnerType, PcType, HeldType, Everyone
<1>1. pc[w] = "idle" => chan[w] # None \/ InFlight(w) # {} \/ StackedAt(w) # {}
  BY DEF Reachable
<1>2. ASSUME NEW c \in Callers, PopIdle(c)
      PROVE  (InFlight(w) # {} \/ StackedAt(w) # {} \/ chan[w] # None)'
  <2>1. /\ pc[w] = "idle" /\ sender[c] = None /\ chan' = chan
        /\ sender' = [sender EXCEPT ![c] = idle[Len(idle)]]
        /\ idle' = SubSeq(idle, 1, Len(idle) - 1) /\ idle # <<>>
    BY <1>0, <1>2 DEF PopIdle, IInv, HandOK
  <2>2. CASE \E d \in Callers : sender[d] = w
    BY <1>0, <2>1, <2>2 DEF InFlight
  <2>3. ASSUME NEW i \in DOMAIN idle, idle[i] = w
        PROVE  InFlight(w)' # {} \/ StackedAt(w)' # {}
    <3>1. CASE i = Len(idle)
      BY <1>0, <2>1, <2>3, <3>1 DEF InFlight
    <3>2. CASE i # Len(idle)
      <4>1. i \in DOMAIN idle' /\ idle'[i] = w
        BY <1>0, <2>1, <2>3, <3>2
      <4> QED
        BY <4>1 DEF StackedAt
    <3> QED
      BY <3>1, <3>2
  <2> QED
    BY <1>1, <2>1, <2>2, <2>3 DEF InFlight, StackedAt
<1>3. ASSUME NEW c \in Callers, Send(c)
      PROVE  (InFlight(w) # {} \/ StackedAt(w) # {} \/ chan[w] # None)'
  <2>1. /\ pc[w] = "idle" /\ idle' = idle /\ hand[c] \in Jobs /\ None \notin Jobs
        /\ sender' = [sender EXCEPT ![c] = None] /\ pc[c] = "send"
    BY <1>0, <1>3, NoneAssumption DEF Send, inner, IInv, HandOK
  <2>2. CASE sender[c] = w
    <3>1. chan' = [chan EXCEPT ![w] = hand[c]]
      BY <1>3, <2>1, <2>2 DEF Send, Receives
    <3> QED
      BY <1>0, <2>1, <3>1
  <2>3. CASE sender[c] # w
    <3>1. chan'[w] = chan[w]
      BY <1>0, <1>3, <2>3 DEF Send
    <3>2. InFlight(w)' = InFlight(w)
      BY <1>0, <2>1, <2>3 DEF InFlight
    <3>3. StackedAt(w)' = StackedAt(w)
      BY <2>1 DEF StackedAt
    <3> QED
      BY <1>1, <2>1, <3>1, <3>2, <3>3
  <2> QED
    BY <2>2, <2>3
<1>4. ASSUME NEW v \in Threads, Park(v)
      PROVE  (InFlight(w) # {} \/ StackedAt(w) # {} \/ chan[w] # None)'
  <2>1. idle' = Append(idle, v) /\ chan' = chan /\ sender' = sender
        /\ pc' = [pc EXCEPT ![v] = "idle"]
    BY <1>4 DEF Park
  <2>2. CASE v = w
    <3>1. Len(idle) + 1 \in DOMAIN idle' /\ idle'[Len(idle) + 1] = w
      BY <1>0, <2>1, <2>2
    <3> QED
      BY <3>1 DEF StackedAt
  <2>3. CASE v # w
    <3>1. StackedAt(w) # {} => StackedAt(w)' # {}
      <4>1. \A i \in DOMAIN idle : i \in DOMAIN idle' /\ idle'[i] = idle[i]
        BY <1>0, <2>1
      <4> QED
        BY <4>1 DEF StackedAt
    <3>2. InFlight(w)' = InFlight(w)
      BY <2>1 DEF InFlight
    <3> QED
      BY <1>0, <1>1, <2>1, <2>3, <3>1, <3>2
  <2> QED
    BY <2>2, <2>3
<1>5. ASSUME idle' = idle, sender' = sender, pc'[w] = pc[w], chan'[w] = chan[w]
      PROVE  (InFlight(w) # {} \/ StackedAt(w) # {} \/ chan[w] # None)'
  <2>1. InFlight(w)' = InFlight(w) /\ StackedAt(w)' = StackedAt(w)
    BY <1>5 DEF InFlight, StackedAt
  <2> QED
    BY <1>1, <1>5, <2>1
<1>6. ASSUME NEW c \in Callers, CallerStep(c)
      PROVE  (InFlight(w) # {} \/ StackedAt(w) # {} \/ chan[w] # None)'
  BY <1>0, <1>2, <1>3, <1>5, <1>6
     DEF CallerStep, TakeSeat, Refuse, Enqueue, Start, StartFails, ReturnErr,
         StartOutside, StartQueued, inner
<1>7. ASSUME NEW t \in Everyone, ReleaseStep(t)
      PROVE  (InFlight(w) # {} \/ StackedAt(w) # {} \/ chan[w] # None)'
  BY <1>0, <1>5, <1>7 DEF ReleaseStep, Release, Released, Respawn, RespawnFails, inner
<1>8. ASSUME NEW v \in Threads, ThreadStep(v) \/ TimeOut(v)
      PROVE  (InFlight(w) # {} \/ StackedAt(w) # {} \/ chan[w] # None)'
  BY <1>0, <1>4, <1>5, <1>8
     DEF ThreadStep, Receive, Finish, TakeNext, Leave, TimeOut, DropReceiver, inner
<1> QED
  BY <1>0, <1>5, <1>6, <1>7, <1>8
     DEF Next, Everyone, Submit, SetLimit, FinishOutside, vars, inner

\* The watched queue holds in every reachable state.
LEMMA WInductive == Spec => []WInv
<1>1. Init => NoIdleWhileQueued /\ Reachable /\ QueueHasSeat
  BY ThreadsAssumption DEF Init, NoIdleWhileQueued, Reachable, QueueHasSeat
<1>2. WInv /\ [Next]_vars => WInv'
  BY TypeStep, SeatStep, QuietStep, SeatForQueueStep, ReachableStep DEF WInv, IInv
<1> QED
  BY <1>1, <1>2, InitOK, PTL DEF Spec, WInv

\* No job waits in the queue while a thread sits in the idle stack.
THEOREM NeverIdleWhileQueued == Spec => []NoIdleWhileQueued
<1>1. WInv => NoIdleWhileQueued
  BY DEF WInv
<1> QED
  BY <1>1, WInductive, PTL

\* As long as a job waits, some seat holder is going to look at the queue
\* without being woken: the comment at the head of workers.rs that no queued
\* job is left to nobody, for every number of threads and every fault.
THEOREM QueueAlwaysWatched == Spec => []QueueIsWatched
<1>1. WInv => QueueIsWatched
  <2> SUFFICES ASSUME WInv, queue # <<>>
               PROVE  \E t \in SeatHolders : t \in Callers \/ ~Sleeps(t)
    BY DEF QueueIsWatched
  <2>1. idle = <<>> /\ live > 0
    BY DEF WInv, NoIdleWhileQueued, QueueHasSeat
  <2>2. PICK t \in SeatHolders : TRUE
    BY <2>1, FS_EmptySet DEF WInv, IInv, Seats, SeatsAccounted
  <2>3. t \in Everyone
    BY DEF SeatHolders
  <2>4. t \in Threads => ~Sleeps(t)
    BY <2>1 DEF WInv, Reachable, Sleeps, StackedAt
  <2> QED
    BY <2>3, <2>4 DEF Everyone
<1> QED
  BY <1>1, WInductive, PTL
-----------------------------------------------------------------------------
(***************************************************************************)
(* Every job has one owner.  Places are compared pairwise; who is where    *)
(* tells what he holds.                                                    *)
(***************************************************************************)
Pending(j) == outcome[j] = "pending"

\* Nothing is in hand, in a channel or kept for a replacement but at the steps that say so.
EmptyHands ==
    /\ \A c \in Callers :
          /\ pc[c] \in {"home", "drain"} => hand[c] = None
          /\ pc[c] = "drain" => call[c] = "set_limit"
          /\ pc[c] \in {"submit", "send", "outside"} => call[c] # "set_limit"
    /\ \A w \in Threads :
          /\ hand[w] # None => pc[w] = "running"
          /\ chan[w] # None => pc[w] \in {"starting", "idle", "timedOut"}
    /\ \A t \in Everyone : respawn[t] # None => pc[t] = "respawn"

\* No two places hold the same job.
Apart ==
    /\ \A i, k \in DOMAIN queue : queue[i] = queue[k] => i = k
    /\ \A v, w \in Threads : chan[v] # None /\ chan[v] = chan[w] => v = w
    /\ \A t, u \in Everyone : hand[t] # None /\ hand[t] = hand[u] => t = u
    /\ \A t, u \in Everyone : respawn[t] # None /\ respawn[t] = respawn[u] => t = u
    /\ \A i \in DOMAIN queue, w \in Threads : queue[i] # chan[w]
    /\ \A i \in DOMAIN queue, t \in Everyone : queue[i] # hand[t] /\ queue[i] # respawn[t]
    /\ \A w \in Threads, t \in Everyone :
          chan[w] # None => chan[w] # hand[t] /\ chan[w] # respawn[t]
    /\ \A t, u \in Everyone : hand[t] # None => hand[t] # respawn[u]
    /\ \A i \in DOMAIN queue : queue[i] \notin outside
    /\ \A w \in Threads : chan[w] \notin outside
    /\ \A t \in Everyone : hand[t] \notin outside /\ respawn[t] \notin outside

\* A job is held as long as it is pending, and no longer.
Queued(j) == \E i \in DOMAIN queue : queue[i] = j
Sent(j) == \E w \in Threads : chan[w] = j
Carried(j) == \E t \in Everyone : hand[t] = j
Kept(j) == \E t \in Everyone : respawn[t] = j
Held(j) == Queued(j) \/ Sent(j) \/ Carried(j) \/ Kept(j) \/ j \in outside
HeldIsPending == \A j \in Jobs : Held(j) <=> Pending(j)

\* A sender is in one place, and its thread has nothing to do.
SendersApart ==
    /\ \A i, k \in DOMAIN idle : idle[i] = idle[k] => i = k
    /\ \A c, d \in Callers : sender[c] # None /\ sender[c] = sender[d] => c = d
    /\ \A i \in DOMAIN idle, c \in Callers : idle[i] # sender[c]
    /\ \A w \in Threads :
          (\E i \in DOMAIN idle : idle[i] = w) \/ (\E c \in Callers : sender[c] = w)
              => chan[w] = None /\ pc[w] \notin {"starting", "running", "looking"}

JInv == IInv /\ EmptyHands /\ Apart /\ HeldIsPending /\ SendersApart

\* The first of the line and those behind it, by their places.
LEMMA TailPlaces ==
    ASSUME NEW S, NEW s \in Seq(S), s # <<>>
    PROVE  /\ Head(s) = s[1] /\ 1 \in DOMAIN s /\ Tail(s) \in Seq(S)
           /\ \A i \in DOMAIN Tail(s) : i + 1 \in DOMAIN s /\ i + 1 # 1 /\ Tail(s)[i] = s[i + 1]
           /\ \A i \in DOMAIN s : i # 1 => i - 1 \in DOMAIN Tail(s) /\ Tail(s)[i - 1] = s[i]
           /\ \A i, k \in DOMAIN s : i \in Int /\ k \in Int /\ (i + 1 = k + 1 => i = k)
<1> USE DEF Tail, Head
<1> QED
  OBVIOUS

\* What is in hand, sent, kept and queued after a step that moves one job.
LEMMA HandMoves ==
    ASSUME HeldType, Apart, NEW t \in Everyone, NEW v, hand' = [hand EXCEPT ![t] = v],
           NEW k \in Jobs
    PROVE  Carried(k)' <=> k = v \/ (Carried(k) /\ hand[t] # k)
  BY NoneAssumption DEF HeldType, Apart, Carried

\* The same of the channels.
LEMMA ChanMoves ==
    ASSUME HeldType, Apart, NEW w \in Threads, NEW v, chan' = [chan EXCEPT ![w] = v],
           NEW k \in Jobs
    PROVE  Sent(k)' <=> k = v \/ (Sent(k) /\ chan[w] # k)
  BY NoneAssumption DEF HeldType, Apart, Sent

\* The same of the replacements.
LEMMA KeptMoves ==
    ASSUME HeldType, Apart, NEW t \in Everyone, NEW v, respawn' = [respawn EXCEPT ![t] = v],
           NEW k \in Jobs
    PROVE  Kept(k)' <=> k = v \/ (Kept(k) /\ respawn[t] # k)
  BY NoneAssumption DEF HeldType, Apart, Kept

\* A job joins the queue at its end.
LEMMA QueueJoined ==
    ASSUME InnerType, NEW v \in Jobs, queue' = Append(queue, v), NEW k \in Jobs
    PROVE  Queued(k)' <=> k = v \/ Queued(k)
<1>1. /\ \A i \in DOMAIN queue' : i \in DOMAIN queue \/ i = Len(queue) + 1
      /\ \A i \in DOMAIN queue : i \in DOMAIN queue' /\ queue'[i] = queue[i]
      /\ Len(queue) + 1 \in DOMAIN queue' /\ queue'[Len(queue) + 1] = v
  BY DEF InnerType
<1> QED
  BY <1>1 DEF Queued

\* The first of the queue leaves it.
LEMMA QueueLeft ==
    ASSUME InnerType, Apart, queue # <<>>, queue' = Tail(queue), NEW k \in Jobs
    PROVE  Queued(k)' <=> Queued(k) /\ k # Head(queue)
<1>1. queue \in Seq(Jobs)
  BY DEF InnerType
<1>2. ASSUME Queued(k), k # Head(queue) PROVE Queued(k)'
  <2>1. PICK i \in DOMAIN queue : queue[i] = k
    BY <1>2 DEF Queued
  <2>2. i # 1 /\ i - 1 \in DOMAIN queue' /\ queue'[i - 1] = k
    BY <1>1, <1>2, <2>1, TailPlaces
  <2> QED
    BY <2>2 DEF Queued
<1>3. ASSUME Queued(k)' PROVE Queued(k) /\ k # Head(queue)
  <2>1. PICK i \in DOMAIN queue' : queue'[i] = k
    BY <1>3 DEF Queued
  <2>2. /\ i + 1 \in DOMAIN queue /\ queue[i + 1] = k
        /\ i + 1 # 1 /\ 1 \in DOMAIN queue /\ Head(queue) = queue[1]
    BY <1>1, <2>1, TailPlaces
  <2> QED
    BY <2>2 DEF Queued, Apart
<1> QED
  BY <1>2, <1>3

\* What it tells to find job k in one of the places.
PlacesOf(k) ==
    /\ \A t \in Everyone : hand[t] = k =>
          Carried(k) /\ ~Queued(k) /\ ~Sent(k) /\ ~Kept(k) /\ k \notin outside
    /\ \A w \in Threads : chan[w] = k =>
          Sent(k) /\ ~Queued(k) /\ ~Carried(k) /\ ~Kept(k) /\ k \notin outside
    /\ \A t \in Everyone : respawn[t] = k =>
          Kept(k) /\ ~Queued(k) /\ ~Sent(k) /\ ~Carried(k) /\ k \notin outside
    /\ queue # <<>> /\ Head(queue) = k =>
          Queued(k) /\ ~Sent(k) /\ ~Carried(k) /\ ~Kept(k) /\ k \notin outside
    /\ k \in outside => ~Queued(k) /\ ~Sent(k) /\ ~Carried(k) /\ ~Kept(k)

\* A job in one place is in no other.
LEMMA HeldApart ==
    ASSUME InnerType, HeldType, Apart, NEW k \in Jobs
    PROVE  PlacesOf(k)
<1>1. k # None
  BY NoneAssumption
<1>2. queue # <<>> => 1 \in DOMAIN queue /\ Head(queue) = queue[1]
  BY DEF InnerType
<1> QED
  BY <1>1, <1>2 DEF PlacesOf, Apart, HeldType, Carried, Queued, Sent, Kept, Everyone

\* Nobody holds anything but where the code gives it to him.
LEMMA EmptyHandsStep ==
    ASSUME JInv, [Next]_vars
    PROVE  EmptyHands'
<1> USE NoneAssumption, ThreadsAssumption, OpsAssumption DEF JInv, IInv, TypeOK, InnerType,
        PcType, HeldType, HandOK, Everyone, JobOrNone, inner, EmptyHands
<1>1. ASSUME NEW c \in Callers, NEW j \in Jobs, NEW op \in Ops, Submit(c, j, op)
      PROVE  EmptyHands'
  BY <1>1 DEF Submit
<1>2. ASSUME NEW c \in Callers, NEW n \in Limits, SetLimit(c, n)
      PROVE  EmptyHands'
  BY <1>2 DEF SetLimit
<1>3. ASSUME NEW c \in Callers, CallerStep(c)
      PROVE  EmptyHands'
  <2>1. CASE PopIdle(c)
    BY <2>1, PopIsSeq DEF PopIdle
  <2>2. CASE TakeSeat(c)
    BY <2>2 DEF TakeSeat
  <2>3. CASE Refuse(c)
    BY <2>3 DEF Refuse
  <2>4. CASE Enqueue(c)
    BY <2>4 DEF Enqueue
  <2>5. CASE Send(c)
    <3>1. CASE Receives(sender[c])
      <4>1. /\ pc' = [pc EXCEPT ![c] = "home"]
            /\ hand' = [hand EXCEPT ![c] = None]
            /\ chan' = [chan EXCEPT ![sender[c]] = hand[c]]
            /\ sender' = [sender EXCEPT ![c] = None]
            /\ pc[c] = "send" /\ hand[c] \in Jobs /\ sender[c] \in Threads
            /\ UNCHANGED <<idle, queue, live, max_live, respawn, call, outside, outcome>>
        BY <2>5, <3>1 DEF Send
      <4> QED
        BY <4>1, <3>1 DEF SendersApart, Receives
    <3>2. CASE ~Receives(sender[c])
      <4>1. /\ pc' = [pc EXCEPT ![c] = "submit"]
            /\ sender' = [sender EXCEPT ![c] = None]
            /\ pc[c] = "send" /\ hand[c] \in Jobs
            /\ UNCHANGED <<idle, queue, live, max_live, hand, chan, respawn, call, outside,
              outcome>>
        BY <2>5, <3>2 DEF Send
      <4> QED
        BY <4>1
    <3> QED
      BY <3>1, <3>2
  <2>6. CASE StartFails(c)
    BY <2>6 DEF StartFails
  <2>7. CASE ReturnErr(c)
    <3>1. CASE call[c] = "run_outside"
      <4>1. /\ pc' = [pc EXCEPT ![c] = "outside"]
            /\ pc[c] = "err"
            /\ UNCHANGED <<idle, queue, live, max_live, hand, chan, respawn, call, sender,
              outside, outcome>>
        BY <2>7, <3>1 DEF ReturnErr
      <4> QED
        BY <4>1, <3>1
    <3>2. CASE call[c] # "run_outside"
      <4>1. /\ pc' = [pc EXCEPT ![c] = "home"]
            /\ hand' = [hand EXCEPT ![c] = None]
            /\ outcome' = [outcome EXCEPT ![hand[c]] =
                             IF call[c] = "set_limit" THEN "dropped" ELSE "returned"]
            /\ pc[c] = "err" /\ hand[c] \in Jobs
            /\ UNCHANGED <<idle, queue, live, max_live, chan, respawn, call, sender, outside>>
        BY <2>7, <3>2 DEF ReturnErr
      <4> QED
        BY <4>1
    <3> QED
      BY <3>1, <3>2
  <2>8. CASE StartOutside(c)
    BY <2>8 DEF StartOutside
  <2>9. CASE StartQueued(c)
    <3>1. CASE ~Room \/ queue = <<>>
      <4>1. /\ pc' = [pc EXCEPT ![c] = "home"]
            /\ pc[c] = "drain"
            /\ UNCHANGED <<idle, queue, live, max_live, hand, chan, respawn, call, sender,
              outside, outcome>>
        BY <2>9, <3>1 DEF StartQueued
      <4> QED
        BY <4>1
    <3>2. CASE Room /\ queue # <<>>
      <4>1. /\ pc' = [pc EXCEPT ![c] = "start"]
            /\ hand' = [hand EXCEPT ![c] = Head(queue)]
            /\ queue' = Tail(queue)
            /\ live' = live + 1
            /\ pc[c] = "drain"
            /\ UNCHANGED <<idle, max_live, chan, respawn, call, sender, outside, outcome>>
        BY <2>9, <3>2 DEF StartQueued
      <4> QED
        BY <4>1, HeadTail
    <3> QED
      BY <3>1, <3>2
  <2>10. ASSUME NEW w \in Threads, Start(c, w)
         PROVE  EmptyHands'
    BY <2>10 DEF Start, Free
  <2> QED
    BY <1>3, <2>1, <2>2, <2>3, <2>4, <2>5, <2>6, <2>7, <2>8, <2>9, <2>10 DEF CallerStep
<1>4. ASSUME NEW t \in Everyone, ReleaseStep(t)
      PROVE  EmptyHands'
  <2>1. CASE Release(t)
    <3>1. CASE live > 1 \/ queue = <<>>
      <4>1. /\ pc' = [pc EXCEPT ![t] = Released(t)]
            /\ live' = live - 1
            /\ pc[t] = "release"
            /\ UNCHANGED <<idle, queue, max_live, chan, hand, respawn, call, sender, outside,
              outcome>>
        BY <2>1, <3>1 DEF Release
      <4> QED
        BY <4>1 DEF Released
    <3>2. CASE live <= 1 /\ queue # <<>>
      <4>1. /\ pc' = [pc EXCEPT ![t] = "respawn"]
            /\ live' = (live - 1) + 1
            /\ queue' = Tail(queue)
            /\ respawn' = [respawn EXCEPT ![t] = Head(queue)]
            /\ pc[t] = "release"
            /\ UNCHANGED <<idle, max_live, chan, hand, call, sender, outside, outcome>>
        BY <2>1, <3>2 DEF Release
      <4> QED
        BY <4>1
    <3>3. live \in Nat
      OBVIOUS
    <3> QED
      BY <2>1, <3>1, <3>2, <3>3
  <2>2. ASSUME NEW w \in Threads, Respawn(t, w)
        PROVE  EmptyHands'
    BY <2>2 DEF Respawn, Free, Released
  <2>3. CASE RespawnFails(t)
    BY <2>3 DEF RespawnFails
  <2> QED
    BY <1>4, <2>1, <2>2, <2>3 DEF ReleaseStep
<1>5. ASSUME NEW w \in Threads, ThreadStep(w) \/ TimeOut(w)
      PROVE  EmptyHands'
  <2>1. CASE Receive(w)
    BY <2>1 DEF Receive
  <2>2. CASE Finish(w)
    BY <2>2 DEF Finish
  <2>3. CASE TakeNext(w)
    BY <2>3 DEF TakeNext
  <2>4. CASE Leave(w)
    BY <2>4 DEF Leave
  <2>5. CASE Park(w)
    BY <2>5 DEF Park
  <2>6. CASE TimeOut(w)
    BY <2>6 DEF TimeOut
  <2>7. CASE DropReceiver(w)
    BY <2>7 DEF DropReceiver
  <2> QED
    BY <1>5, <2>1, <2>2, <2>3, <2>4, <2>5, <2>6, <2>7 DEF ThreadStep
<1>6. ASSUME NEW j \in Jobs, FinishOutside(j)
      PROVE  EmptyHands'
  BY <1>6 DEF FinishOutside
<1>7. CASE UNCHANGED vars
  BY <1>7 DEF vars, Held, Queued, Sent, Carried, Kept, Pending
<1> QED
  BY <1>1, <1>2, <1>3, <1>4, <1>5, <1>6, <1>7 DEF Next, Everyone

\* A sender is popped by one caller, and its thread stays without a job until the send.
LEMMA SendersStep ==
    ASSUME JInv, [Next]_vars
    PROVE  SendersApart'
<1> USE NoneAssumption, ThreadsAssumption DEF JInv, IInv, TypeOK, InnerType, PcType, HeldType,
        HandOK, Everyone, JobOrNone, inner, SendersApart, EmptyHands
<1>1. ASSUME NEW c \in Callers, NEW j \in Jobs, NEW op \in Ops, Submit(c, j, op)
      PROVE  SendersApart'
  BY <1>1 DEF Submit
<1>2. ASSUME NEW c \in Callers, NEW n \in Limits, SetLimit(c, n)
      PROVE  SendersApart'
  BY <1>2 DEF SetLimit
<1>3. ASSUME NEW c \in Callers, CallerStep(c)
      PROVE  SendersApart'
  <2>1. CASE PopIdle(c)
    BY <2>1, PopIsSeq DEF PopIdle
  <2>2. CASE TakeSeat(c)
    BY <2>2 DEF TakeSeat
  <2>3. CASE Refuse(c)
    BY <2>3 DEF Refuse
  <2>4. CASE Enqueue(c)
    BY <2>4 DEF Enqueue
  <2>5. CASE Send(c)
    <3>1. CASE Receives(sender[c])
      <4>1. /\ pc' = [pc EXCEPT ![c] = "home"]
            /\ hand' = [hand EXCEPT ![c] = None]
            /\ chan' = [chan EXCEPT ![sender[c]] = hand[c]]
            /\ sender' = [sender EXCEPT ![c] = None]
            /\ pc[c] = "send" /\ hand[c] \in Jobs /\ sender[c] \in Threads
            /\ UNCHANGED <<idle, queue, live, max_live, respawn, call, outside, outcome>>
        BY <2>5, <3>1 DEF Send
      <4> QED
        BY <4>1
    <3>2. CASE ~Receives(sender[c])
      <4>1. /\ pc' = [pc EXCEPT ![c] = "submit"]
            /\ sender' = [sender EXCEPT ![c] = None]
            /\ pc[c] = "send" /\ hand[c] \in Jobs
            /\ UNCHANGED <<idle, queue, live, max_live, hand, chan, respawn, call, outside,
              outcome>>
        BY <2>5, <3>2 DEF Send
      <4> QED
        BY <4>1
    <3> QED
      BY <3>1, <3>2
  <2>6. CASE StartFails(c)
    BY <2>6 DEF StartFails
  <2>7. CASE ReturnErr(c)
    <3>1. CASE call[c] = "run_outside"
      <4>1. /\ pc' = [pc EXCEPT ![c] = "outside"]
            /\ pc[c] = "err"
            /\ UNCHANGED <<idle, queue, live, max_live, hand, chan, respawn, call, sender,
              outside, outcome>>
        BY <2>7, <3>1 DEF ReturnErr
      <4> QED
        BY <4>1
    <3>2. CASE call[c] # "run_outside"
      <4>1. /\ pc' = [pc EXCEPT ![c] = "home"]
            /\ hand' = [hand EXCEPT ![c] = None]
            /\ outcome' = [outcome EXCEPT ![hand[c]] =
                             IF call[c] = "set_limit" THEN "dropped" ELSE "returned"]
            /\ pc[c] = "err" /\ hand[c] \in Jobs
            /\ UNCHANGED <<idle, queue, live, max_live, chan, respawn, call, sender, outside>>
        BY <2>7, <3>2 DEF ReturnErr
      <4> QED
        BY <4>1
    <3> QED
      BY <3>1, <3>2
  <2>8. CASE StartOutside(c)
    BY <2>8 DEF StartOutside
  <2>9. CASE StartQueued(c)
    <3>1. CASE ~Room \/ queue = <<>>
      <4>1. /\ pc' = [pc EXCEPT ![c] = "home"]
            /\ pc[c] = "drain"
            /\ UNCHANGED <<idle, queue, live, max_live, hand, chan, respawn, call, sender,
              outside, outcome>>
        BY <2>9, <3>1 DEF StartQueued
      <4> QED
        BY <4>1
    <3>2. CASE Room /\ queue # <<>>
      <4>1. /\ pc' = [pc EXCEPT ![c] = "start"]
            /\ hand' = [hand EXCEPT ![c] = Head(queue)]
            /\ queue' = Tail(queue)
            /\ live' = live + 1
            /\ pc[c] = "drain"
            /\ UNCHANGED <<idle, max_live, chan, respawn, call, sender, outside, outcome>>
        BY <2>9, <3>2 DEF StartQueued
      <4> QED
        BY <4>1
    <3> QED
      BY <3>1, <3>2
  <2>10. ASSUME NEW w \in Threads, Start(c, w)
         PROVE  SendersApart'
    BY <2>10 DEF Start, Free
  <2> QED
    BY <1>3, <2>1, <2>2, <2>3, <2>4, <2>5, <2>6, <2>7, <2>8, <2>9, <2>10 DEF CallerStep
<1>4. ASSUME NEW t \in Everyone, ReleaseStep(t)
      PROVE  SendersApart'
  <2>1. CASE Release(t)
    <3>1. CASE live > 1 \/ queue = <<>>
      <4>1. /\ pc' = [pc EXCEPT ![t] = Released(t)]
            /\ live' = live - 1
            /\ pc[t] = "release"
            /\ UNCHANGED <<idle, queue, max_live, chan, hand, respawn, call, sender, outside,
              outcome>>
        BY <2>1, <3>1 DEF Release
      <4> QED
        BY <4>1 DEF Released
    <3>2. CASE live <= 1 /\ queue # <<>>
      <4>1. /\ pc' = [pc EXCEPT ![t] = "respawn"]
            /\ live' = (live - 1) + 1
            /\ queue' = Tail(queue)
            /\ respawn' = [respawn EXCEPT ![t] = Head(queue)]
            /\ pc[t] = "release"
            /\ UNCHANGED <<idle, max_live, chan, hand, call, sender, outside, outcome>>
        BY <2>1, <3>2 DEF Release
      <4> QED
        BY <4>1
    <3>3. live \in Nat
      OBVIOUS
    <3> QED
      BY <2>1, <3>1, <3>2, <3>3
  <2>2. ASSUME NEW w \in Threads, Respawn(t, w)
        PROVE  SendersApart'
    BY <2>2 DEF Respawn, Free, Released
  <2>3. CASE RespawnFails(t)
    BY <2>3 DEF RespawnFails
  <2> QED
    BY <1>4, <2>1, <2>2, <2>3 DEF ReleaseStep
<1>5. ASSUME NEW w \in Threads, ThreadStep(w) \/ TimeOut(w)
      PROVE  SendersApart'
  <2>1. CASE Receive(w)
    BY <2>1 DEF Receive
  <2>2. CASE Finish(w)
    BY <2>2 DEF Finish
  <2>3. CASE TakeNext(w)
    BY <2>3 DEF TakeNext
  <2>4. CASE Leave(w)
    BY <2>4 DEF Leave
  <2>5. CASE Park(w)
    BY <2>5 DEF Park
  <2>6. CASE TimeOut(w)
    BY <2>6 DEF TimeOut
  <2>7. CASE DropReceiver(w)
    BY <2>7 DEF DropReceiver
  <2> QED
    BY <1>5, <2>1, <2>2, <2>3, <2>4, <2>5, <2>6, <2>7 DEF ThreadStep
<1>6. ASSUME NEW j \in Jobs, FinishOutside(j)
      PROVE  SendersApart'
  BY <1>6 DEF FinishOutside
<1>7. CASE UNCHANGED vars
  BY <1>7 DEF vars, Held, Queued, Sent, Carried, Kept, Pending
<1> QED
  BY <1>1, <1>2, <1>3, <1>4, <1>5, <1>6, <1>7 DEF Next, Everyone

\* A job that moves leaves the place it was in.
LEMMA ApartStep ==
    ASSUME JInv, [Next]_vars
    PROVE  Apart'
<1> USE NoneAssumption, ThreadsAssumption DEF JInv, IInv, TypeOK, InnerType, PcType, HeldType,
        HandOK, Everyone, JobOrNone, inner, Apart, EmptyHands, HeldIsPending, Held, Pending,
          Queued, Sent, Carried, Kept, SendersApart
<1>1. ASSUME NEW c \in Callers, NEW j \in Jobs, NEW op \in Ops, Submit(c, j, op)
      PROVE  Apart'
  BY <1>1 DEF Submit
<1>2. ASSUME NEW c \in Callers, NEW n \in Limits, SetLimit(c, n)
      PROVE  Apart'
  BY <1>2 DEF SetLimit
<1>3. ASSUME NEW c \in Callers, CallerStep(c)
      PROVE  Apart'
  <2>1. CASE PopIdle(c)
    BY <2>1 DEF PopIdle
  <2>2. CASE TakeSeat(c)
    BY <2>2 DEF TakeSeat
  <2>3. CASE Refuse(c)
    BY <2>3 DEF Refuse
  <2>4. CASE Enqueue(c)
    BY <2>4 DEF Enqueue
  <2>5. CASE Send(c)
    <3>1. CASE Receives(sender[c])
      <4>1. /\ pc' = [pc EXCEPT ![c] = "home"]
            /\ hand' = [hand EXCEPT ![c] = None]
            /\ chan' = [chan EXCEPT ![sender[c]] = hand[c]]
            /\ sender' = [sender EXCEPT ![c] = None]
            /\ pc[c] = "send" /\ hand[c] \in Jobs /\ sender[c] \in Threads
            /\ UNCHANGED <<idle, queue, live, max_live, respawn, call, outside, outcome>>
        BY <2>5, <3>1 DEF Send
      <4> QED
        BY <4>1
    <3>2. CASE ~Receives(sender[c])
      <4>1. /\ pc' = [pc EXCEPT ![c] = "submit"]
            /\ sender' = [sender EXCEPT ![c] = None]
            /\ pc[c] = "send" /\ hand[c] \in Jobs
            /\ UNCHANGED <<idle, queue, live, max_live, hand, chan, respawn, call, outside,
              outcome>>
        BY <2>5, <3>2 DEF Send
      <4> QED
        BY <4>1
    <3> QED
      BY <3>1, <3>2
  <2>6. CASE StartFails(c)
    BY <2>6 DEF StartFails
  <2>7. CASE ReturnErr(c)
    <3>1. CASE call[c] = "run_outside"
      <4>1. /\ pc' = [pc EXCEPT ![c] = "outside"]
            /\ pc[c] = "err"
            /\ UNCHANGED <<idle, queue, live, max_live, hand, chan, respawn, call, sender,
              outside, outcome>>
        BY <2>7, <3>1 DEF ReturnErr
      <4> QED
        BY <4>1
    <3>2. CASE call[c] # "run_outside"
      <4>1. /\ pc' = [pc EXCEPT ![c] = "home"]
            /\ hand' = [hand EXCEPT ![c] = None]
            /\ outcome' = [outcome EXCEPT ![hand[c]] =
                             IF call[c] = "set_limit" THEN "dropped" ELSE "returned"]
            /\ pc[c] = "err" /\ hand[c] \in Jobs
            /\ UNCHANGED <<idle, queue, live, max_live, chan, respawn, call, sender, outside>>
        BY <2>7, <3>2 DEF ReturnErr
      <4> QED
        BY <4>1
    <3> QED
      BY <3>1, <3>2
  <2>8. CASE StartOutside(c)
    BY <2>8 DEF StartOutside
  <2>9. CASE StartQueued(c)
    <3>1. CASE ~Room \/ queue = <<>>
      <4>1. /\ pc' = [pc EXCEPT ![c] = "home"]
            /\ pc[c] = "drain"
            /\ UNCHANGED <<idle, queue, live, max_live, hand, chan, respawn, call, sender,
              outside, outcome>>
        BY <2>9, <3>1 DEF StartQueued
      <4> QED
        BY <4>1
    <3>2. CASE Room /\ queue # <<>>
      <4>1. /\ pc' = [pc EXCEPT ![c] = "start"]
            /\ hand' = [hand EXCEPT ![c] = Head(queue)]
            /\ queue' = Tail(queue)
            /\ live' = live + 1
            /\ pc[c] = "drain"
            /\ UNCHANGED <<idle, max_live, chan, respawn, call, sender, outside, outcome>>
        BY <2>9, <3>2 DEF StartQueued
      <4> QED
        BY <4>1, <3>2, TailPlaces
    <3> QED
      BY <3>1, <3>2
  <2>10. ASSUME NEW w \in Threads, Start(c, w)
         PROVE  Apart'
    BY <2>10 DEF Start, Free
  <2> QED
    BY <1>3, <2>1, <2>2, <2>3, <2>4, <2>5, <2>6, <2>7, <2>8, <2>9, <2>10 DEF CallerStep
<1>4. ASSUME NEW t \in Everyone, ReleaseStep(t)
      PROVE  Apart'
  <2>1. CASE Release(t)
    <3>1. CASE live > 1 \/ queue = <<>>
      <4>1. /\ pc' = [pc EXCEPT ![t] = Released(t)]
            /\ live' = live - 1
            /\ pc[t] = "release"
            /\ UNCHANGED <<idle, queue, max_live, chan, hand, respawn, call, sender, outside,
              outcome>>
        BY <2>1, <3>1 DEF Release
      <4> QED
        BY <4>1 DEF Released
    <3>2. CASE live <= 1 /\ queue # <<>>
      <4>1. /\ pc' = [pc EXCEPT ![t] = "respawn"]
            /\ live' = (live - 1) + 1
            /\ queue' = Tail(queue)
            /\ respawn' = [respawn EXCEPT ![t] = Head(queue)]
            /\ pc[t] = "release"
            /\ UNCHANGED <<idle, max_live, chan, hand, call, sender, outside, outcome>>
        BY <2>1, <3>2 DEF Release
      <4> QED
        BY <4>1, <3>2, TailPlaces
    <3>3. live \in Nat
      OBVIOUS
    <3> QED
      BY <2>1, <3>1, <3>2, <3>3
  <2>2. ASSUME NEW w \in Threads, Respawn(t, w)
        PROVE  Apart'
    BY <2>2 DEF Respawn, Free, Released
  <2>3. CASE RespawnFails(t)
    BY <2>3 DEF RespawnFails
  <2> QED
    BY <1>4, <2>1, <2>2, <2>3 DEF ReleaseStep
<1>5. ASSUME NEW w \in Threads, ThreadStep(w) \/ TimeOut(w)
      PROVE  Apart'
  <2>1. CASE Receive(w)
    BY <2>1 DEF Receive
  <2>2. CASE Finish(w)
    BY <2>2 DEF Finish
  <2>3. CASE TakeNext(w)
    BY <2>3 DEF TakeNext
  <2>4. CASE Leave(w)
    BY <2>4 DEF Leave
  <2>5. CASE Park(w)
    BY <2>5 DEF Park
  <2>6. CASE TimeOut(w)
    BY <2>6 DEF TimeOut
  <2>7. CASE DropReceiver(w)
    BY <2>7 DEF DropReceiver
  <2> QED
    BY <1>5, <2>1, <2>2, <2>3, <2>4, <2>5, <2>6, <2>7 DEF ThreadStep
<1>6. ASSUME NEW j \in Jobs, FinishOutside(j)
      PROVE  Apart'
  BY <1>6 DEF FinishOutside
<1>7. CASE UNCHANGED vars
  BY <1>7 DEF vars, Held, Queued, Sent, Carried, Kept, Pending
<1> QED
  BY <1>1, <1>2, <1>3, <1>4, <1>5, <1>6, <1>7 DEF Next, Everyone

\* A job is held from its submission until it has run, come back or been dropped.
LEMMA HeldStep ==
    ASSUME JInv, [Next]_vars
    PROVE  HeldIsPending'
<1> SUFFICES ASSUME NEW k \in Jobs PROVE Held(k)' <=> Pending(k)'
  BY DEF HeldIsPending
<1>0. Held(k) <=> Pending(k)
  BY DEF JInv, HeldIsPending
<1>p. k # None /\ PlacesOf(k)
  BY HeldApart, NoneAssumption DEF JInv, IInv, TypeOK, PlacesOf
<1>t. InnerType /\ HeldType /\ Apart /\ EmptyHands /\ SendersApart
  BY DEF JInv, IInv, TypeOK
<1> USE <1>t, NoneAssumption, ThreadsAssumption DEF JInv, IInv, HandOK, InnerType, Everyone,
        inner
<1>1. ASSUME NEW c \in Callers, NEW j \in Jobs, NEW op \in Ops, Submit(c, j, op)
      PROVE  Held(k)' <=> Pending(k)'
  <2>m1. Carried(k)' <=> k = j \/ (Carried(k) /\ hand[c] # k)
    BY <1>1, HandMoves DEF Submit
  <2>m2. (Sent(k)' <=> Sent(k)) /\ (Kept(k)' <=> Kept(k)) /\ (Queued(k)' <=> Queued(k))
    BY <1>1 DEF Submit, Sent, Kept, Queued
  <2> QED
    BY <1>1, <2>m1, <2>m2, <1>0, <1>p DEF Submit, Held, Pending, PlacesOf, HeldType, EmptyHands
<1>2. ASSUME NEW c \in Callers, NEW n \in Limits, SetLimit(c, n)
      PROVE  Held(k)' <=> Pending(k)'
  <2>m1. (Carried(k)' <=> Carried(k)) /\ (Sent(k)' <=> Sent(k)) /\ (Kept(k)' <=> Kept(k))
         /\ (Queued(k)' <=> Queued(k))
    BY <1>2 DEF SetLimit, Carried, Sent, Kept, Queued
  <2> QED
    BY <1>2, <2>m1, <1>0, <1>p DEF SetLimit, Held, Pending, PlacesOf, HeldType, EmptyHands
<1>3. ASSUME NEW c \in Callers, CallerStep(c)
      PROVE  Held(k)' <=> Pending(k)'
  <2>1. CASE PopIdle(c)
    <3>m1. (Carried(k)' <=> Carried(k)) /\ (Sent(k)' <=> Sent(k)) /\ (Kept(k)' <=> Kept(k))
           /\ (Queued(k)' <=> Queued(k))
      BY <2>1 DEF PopIdle, Carried, Sent, Kept, Queued
    <3> QED
      BY <2>1, <3>m1, <1>0, <1>p DEF PopIdle, Held, Pending, PlacesOf, HeldType, EmptyHands
  <2>2. CASE TakeSeat(c)
    <3>m1. (Carried(k)' <=> Carried(k)) /\ (Sent(k)' <=> Sent(k)) /\ (Kept(k)' <=> Kept(k))
           /\ (Queued(k)' <=> Queued(k))
      BY <2>2 DEF TakeSeat, Carried, Sent, Kept, Queued
    <3> QED
      BY <2>2, <3>m1, <1>0, <1>p DEF TakeSeat, Held, Pending, PlacesOf, HeldType, EmptyHands
  <2>3. CASE Refuse(c)
    <3>m1. (Carried(k)' <=> Carried(k)) /\ (Sent(k)' <=> Sent(k)) /\ (Kept(k)' <=> Kept(k))
           /\ (Queued(k)' <=> Queued(k))
      BY <2>3 DEF Refuse, Carried, Sent, Kept, Queued
    <3> QED
      BY <2>3, <3>m1, <1>0, <1>p DEF Refuse, Held, Pending, PlacesOf, HeldType, EmptyHands
  <2>4. CASE Enqueue(c)
    <3>m1. Carried(k)' <=> Carried(k) /\ hand[c] # k
      BY <2>4, HandMoves DEF Enqueue
    <3>m2. Queued(k)' <=> k = hand[c] \/ Queued(k)
      BY QueueJoined, <2>4 DEF Enqueue
    <3>m3. (Sent(k)' <=> Sent(k)) /\ (Kept(k)' <=> Kept(k))
      BY <2>4 DEF Enqueue, Sent, Kept
    <3> QED
      BY <2>4, <3>m1, <3>m2, <3>m3, <1>0, <1>p
         DEF Enqueue, Held, Pending, PlacesOf, HeldType, EmptyHands
  <2>5. CASE Send(c)
    <3>1. CASE Receives(sender[c])
      <4>1. /\ pc' = [pc EXCEPT ![c] = "home"]
            /\ hand' = [hand EXCEPT ![c] = None]
            /\ chan' = [chan EXCEPT ![sender[c]] = hand[c]]
            /\ sender' = [sender EXCEPT ![c] = None]
            /\ pc[c] = "send" /\ hand[c] \in Jobs /\ sender[c] \in Threads
            /\ UNCHANGED <<idle, queue, live, max_live, respawn, call, outside, outcome>>
        BY <2>5, <3>1 DEF Send
      <4>m1. Carried(k)' <=> Carried(k) /\ hand[c] # k
        BY HandMoves, <4>1, <3>1
      <4>m2. Sent(k)' <=> k = hand[c] \/ (Sent(k) /\ chan[sender[c]] # k)
        BY ChanMoves, <4>1, <3>1
      <4>m3. (Kept(k)' <=> Kept(k)) /\ (Queued(k)' <=> Queued(k))
        BY <4>1, <3>1 DEF Kept, Queued
      <4> QED
        BY <4>1, <3>1, <4>m1, <4>m2, <4>m3, <1>0, <1>p
           DEF Held, Pending, PlacesOf, HeldType, EmptyHands, SendersApart
    <3>2. CASE ~Receives(sender[c])
      <4>1. /\ pc' = [pc EXCEPT ![c] = "submit"]
            /\ sender' = [sender EXCEPT ![c] = None]
            /\ pc[c] = "send" /\ hand[c] \in Jobs
            /\ UNCHANGED <<idle, queue, live, max_live, hand, chan, respawn, call, outside,
              outcome>>
        BY <2>5, <3>2 DEF Send
      <4>m1. (Carried(k)' <=> Carried(k)) /\ (Sent(k)' <=> Sent(k))
             /\ (Kept(k)' <=> Kept(k)) /\ (Queued(k)' <=> Queued(k))
        BY <4>1, <3>2 DEF Carried, Sent, Kept, Queued
      <4> QED
        BY <4>1, <3>2, <4>m1, <1>0, <1>p
           DEF Held, Pending, PlacesOf, HeldType, EmptyHands, SendersApart
    <3> QED
      BY <3>1, <3>2
  <2>6. CASE StartFails(c)
    <3>m1. (Carried(k)' <=> Carried(k)) /\ (Sent(k)' <=> Sent(k)) /\ (Kept(k)' <=> Kept(k))
           /\ (Queued(k)' <=> Queued(k))
      BY <2>6 DEF StartFails, Carried, Sent, Kept, Queued
    <3> QED
      BY <2>6, <3>m1, <1>0, <1>p DEF StartFails, Held, Pending, PlacesOf, HeldType, EmptyHands
  <2>7. CASE ReturnErr(c)
    <3>1. CASE call[c] = "run_outside"
      <4>1. /\ pc' = [pc EXCEPT ![c] = "outside"]
            /\ pc[c] = "err"
            /\ UNCHANGED <<idle, queue, live, max_live, hand, chan, respawn, call, sender,
              outside, outcome>>
        BY <2>7, <3>1 DEF ReturnErr
      <4>m1. (Carried(k)' <=> Carried(k)) /\ (Sent(k)' <=> Sent(k))
             /\ (Kept(k)' <=> Kept(k)) /\ (Queued(k)' <=> Queued(k))
        BY <4>1, <3>1 DEF Carried, Sent, Kept, Queued
      <4> QED
        BY <4>1, <3>1, <4>m1, <1>0, <1>p DEF Held, Pending, PlacesOf, HeldType, EmptyHands
    <3>2. CASE call[c] # "run_outside"
      <4>1. /\ pc' = [pc EXCEPT ![c] = "home"]
            /\ hand' = [hand EXCEPT ![c] = None]
            /\ outcome' = [outcome EXCEPT ![hand[c]] =
                             IF call[c] = "set_limit" THEN "dropped" ELSE "returned"]
            /\ pc[c] = "err" /\ hand[c] \in Jobs
            /\ UNCHANGED <<idle, queue, live, max_live, chan, respawn, call, sender, outside>>
        BY <2>7, <3>2 DEF ReturnErr
      <4>m1. Carried(k)' <=> Carried(k) /\ hand[c] # k
        BY HandMoves, <4>1, <3>2
      <4>m2. (Sent(k)' <=> Sent(k)) /\ (Kept(k)' <=> Kept(k)) /\ (Queued(k)' <=> Queued(k))
        BY <4>1, <3>2 DEF Sent, Kept, Queued
      <4> QED
        BY <4>1, <3>2, <4>m1, <4>m2, <1>0, <1>p
           DEF Held, Pending, PlacesOf, HeldType, EmptyHands
    <3> QED
      BY <3>1, <3>2
  <2>8. CASE StartOutside(c)
    <3>m1. Carried(k)' <=> Carried(k) /\ hand[c] # k
      BY <2>8, HandMoves DEF StartOutside
    <3>m2. (Sent(k)' <=> Sent(k)) /\ (Kept(k)' <=> Kept(k)) /\ (Queued(k)' <=> Queued(k))
      BY <2>8 DEF StartOutside, Sent, Kept, Queued
    <3> QED
      BY <2>8, <3>m1, <3>m2, <1>0, <1>p
         DEF StartOutside, Held, Pending, PlacesOf, HeldType, EmptyHands
  <2>9. CASE StartQueued(c)
    <3>1. CASE ~Room \/ queue = <<>>
      <4>1. /\ pc' = [pc EXCEPT ![c] = "home"]
            /\ pc[c] = "drain"
            /\ UNCHANGED <<idle, queue, live, max_live, hand, chan, respawn, call, sender,
              outside, outcome>>
        BY <2>9, <3>1 DEF StartQueued
      <4>m1. (Carried(k)' <=> Carried(k)) /\ (Sent(k)' <=> Sent(k))
             /\ (Kept(k)' <=> Kept(k)) /\ (Queued(k)' <=> Queued(k))
        BY <4>1, <3>1 DEF Carried, Sent, Kept, Queued
      <4> QED
        BY <4>1, <3>1, <4>m1, <1>0, <1>p DEF Held, Pending, PlacesOf, HeldType, EmptyHands
    <3>2. CASE Room /\ queue # <<>>
      <4>1. /\ pc' = [pc EXCEPT ![c] = "start"]
            /\ hand' = [hand EXCEPT ![c] = Head(queue)]
            /\ queue' = Tail(queue)
            /\ live' = live + 1
            /\ pc[c] = "drain"
            /\ UNCHANGED <<idle, max_live, chan, respawn, call, sender, outside, outcome>>
        BY <2>9, <3>2 DEF StartQueued
      <4>m1. Carried(k)' <=> k = Head(queue) \/ (Carried(k) /\ hand[c] # k)
        BY HandMoves, <4>1, <3>2
      <4>m2. Queued(k)' <=> Queued(k) /\ k # Head(queue)
        BY QueueLeft, <4>1, <3>2
      <4>m3. (Sent(k)' <=> Sent(k)) /\ (Kept(k)' <=> Kept(k))
        BY <4>1, <3>2 DEF Sent, Kept
      <4> QED
        BY <4>1, <3>2, <4>m1, <4>m2, <4>m3, <1>0, <1>p
           DEF Held, Pending, PlacesOf, HeldType, EmptyHands
    <3> QED
      BY <3>1, <3>2
  <2>10. ASSUME NEW w \in Threads, Start(c, w)
         PROVE  Held(k)' <=> Pending(k)'
    <3>m1. Carried(k)' <=> Carried(k) /\ hand[c] # k
      BY <2>10, HandMoves DEF Start
    <3>m2. Sent(k)' <=> k = hand[c] \/ (Sent(k) /\ chan[w] # k)
      BY <2>10, ChanMoves DEF Start
    <3>m3. (Kept(k)' <=> Kept(k)) /\ (Queued(k)' <=> Queued(k))
      BY <2>10 DEF Start, Kept, Queued
    <3> QED
      BY <2>10, <3>m1, <3>m2, <3>m3, <1>0, <1>p
         DEF Start, Held, Pending, PlacesOf, HeldType, EmptyHands, Free
  <2> QED
    BY <1>3, <2>1, <2>2, <2>3, <2>4, <2>5, <2>6, <2>7, <2>8, <2>9, <2>10 DEF CallerStep
<1>4. ASSUME NEW t \in Everyone, ReleaseStep(t)
      PROVE  Held(k)' <=> Pending(k)'
  <2>1. CASE Release(t)
    <3>1. CASE live > 1 \/ queue = <<>>
      <4>1. /\ pc' = [pc EXCEPT ![t] = Released(t)]
            /\ live' = live - 1
            /\ pc[t] = "release"
            /\ UNCHANGED <<idle, queue, max_live, chan, hand, respawn, call, sender, outside,
              outcome>>
        BY <2>1, <3>1 DEF Release
      <4>m1. (Carried(k)' <=> Carried(k)) /\ (Sent(k)' <=> Sent(k))
             /\ (Kept(k)' <=> Kept(k)) /\ (Queued(k)' <=> Queued(k))
        BY <4>1, <3>1 DEF Carried, Sent, Kept, Queued
      <4> QED
        BY <4>1, <3>1, <4>m1, <1>0, <1>p DEF Held, Pending, PlacesOf, HeldType, EmptyHands
    <3>2. CASE live <= 1 /\ queue # <<>>
      <4>1. /\ pc' = [pc EXCEPT ![t] = "respawn"]
            /\ live' = (live - 1) + 1
            /\ queue' = Tail(queue)
            /\ respawn' = [respawn EXCEPT ![t] = Head(queue)]
            /\ pc[t] = "release"
            /\ UNCHANGED <<idle, max_live, chan, hand, call, sender, outside, outcome>>
        BY <2>1, <3>2 DEF Release
      <4>m1. Kept(k)' <=> k = Head(queue) \/ (Kept(k) /\ respawn[t] # k)
        BY KeptMoves, <4>1, <3>2
      <4>m2. Queued(k)' <=> Queued(k) /\ k # Head(queue)
        BY QueueLeft, <4>1, <3>2
      <4>m3. (Carried(k)' <=> Carried(k)) /\ (Sent(k)' <=> Sent(k))
        BY <4>1, <3>2 DEF Carried, Sent
      <4> QED
        BY <4>1, <3>2, <4>m1, <4>m2, <4>m3, <1>0, <1>p
           DEF Held, Pending, PlacesOf, HeldType, EmptyHands
    <3>3. live \in Nat
      OBVIOUS
    <3> QED
      BY <2>1, <3>1, <3>2, <3>3
  <2>2. ASSUME NEW w \in Threads, Respawn(t, w)
        PROVE  Held(k)' <=> Pending(k)'
    <3>m1. Sent(k)' <=> k = respawn[t] \/ (Sent(k) /\ chan[w] # k)
      BY <2>2, ChanMoves DEF Respawn
    <3>m2. Kept(k)' <=> Kept(k) /\ respawn[t] # k
      BY <2>2, KeptMoves DEF Respawn
    <3>m3. (Carried(k)' <=> Carried(k)) /\ (Queued(k)' <=> Queued(k))
      BY <2>2 DEF Respawn, Carried, Queued
    <3> QED
      BY <2>2, <3>m1, <3>m2, <3>m3, <1>0, <1>p
         DEF Respawn, Held, Pending, PlacesOf, HeldType, EmptyHands, Free
  <2>3. CASE RespawnFails(t)
    <3>m1. Kept(k)' <=> Kept(k) /\ respawn[t] # k
      BY <2>3, KeptMoves DEF RespawnFails
    <3>m2. (Carried(k)' <=> Carried(k)) /\ (Sent(k)' <=> Sent(k)) /\ (Queued(k)' <=> Queued(k))
      BY <2>3 DEF RespawnFails, Carried, Sent, Queued
    <3> QED
      BY <2>3, <3>m1, <3>m2, <1>0, <1>p
         DEF RespawnFails, Held, Pending, PlacesOf, HeldType, EmptyHands
  <2> QED
    BY <1>4, <2>1, <2>2, <2>3 DEF ReleaseStep
<1>5. ASSUME NEW w \in Threads, ThreadStep(w) \/ TimeOut(w)
      PROVE  Held(k)' <=> Pending(k)'
  <2>1. CASE Receive(w)
    <3>m1. Carried(k)' <=> k = chan[w] \/ (Carried(k) /\ hand[w] # k)
      BY <2>1, HandMoves DEF Receive
    <3>m2. Sent(k)' <=> Sent(k) /\ chan[w] # k
      BY <2>1, ChanMoves DEF Receive
    <3>m3. (Kept(k)' <=> Kept(k)) /\ (Queued(k)' <=> Queued(k))
      BY <2>1 DEF Receive, Kept, Queued
    <3> QED
      BY <2>1, <3>m1, <3>m2, <3>m3, <1>0, <1>p
         DEF Receive, Held, Pending, PlacesOf, HeldType, EmptyHands
  <2>2. CASE Finish(w)
    <3>m1. Carried(k)' <=> Carried(k) /\ hand[w] # k
      BY <2>2, HandMoves DEF Finish
    <3>m2. (Sent(k)' <=> Sent(k)) /\ (Kept(k)' <=> Kept(k)) /\ (Queued(k)' <=> Queued(k))
      BY <2>2 DEF Finish, Sent, Kept, Queued
    <3> QED
      BY <2>2, <3>m1, <3>m2, <1>0, <1>p
         DEF Finish, Held, Pending, PlacesOf, HeldType, EmptyHands
  <2>3. CASE TakeNext(w)
    <3>m1. Carried(k)' <=> k = Head(queue) \/ (Carried(k) /\ hand[w] # k)
      BY <2>3, HandMoves DEF TakeNext
    <3>m2. Queued(k)' <=> Queued(k) /\ k # Head(queue)
      BY QueueLeft, <2>3 DEF TakeNext
    <3>m3. (Sent(k)' <=> Sent(k)) /\ (Kept(k)' <=> Kept(k))
      BY <2>3 DEF TakeNext, Sent, Kept
    <3> QED
      BY <2>3, <3>m1, <3>m2, <3>m3, <1>0, <1>p
         DEF TakeNext, Held, Pending, PlacesOf, HeldType, EmptyHands
  <2>4. CASE Leave(w)
    <3>m1. (Carried(k)' <=> Carried(k)) /\ (Sent(k)' <=> Sent(k)) /\ (Kept(k)' <=> Kept(k))
           /\ (Queued(k)' <=> Queued(k))
      BY <2>4 DEF Leave, Carried, Sent, Kept, Queued
    <3> QED
      BY <2>4, <3>m1, <1>0, <1>p DEF Leave, Held, Pending, PlacesOf, HeldType, EmptyHands
  <2>5. CASE Park(w)
    <3>m1. (Carried(k)' <=> Carried(k)) /\ (Sent(k)' <=> Sent(k)) /\ (Kept(k)' <=> Kept(k))
           /\ (Queued(k)' <=> Queued(k))
      BY <2>5 DEF Park, Carried, Sent, Kept, Queued
    <3> QED
      BY <2>5, <3>m1, <1>0, <1>p DEF Park, Held, Pending, PlacesOf, HeldType, EmptyHands
  <2>6. CASE TimeOut(w)
    <3>m1. (Carried(k)' <=> Carried(k)) /\ (Sent(k)' <=> Sent(k)) /\ (Kept(k)' <=> Kept(k))
           /\ (Queued(k)' <=> Queued(k))
      BY <2>6 DEF TimeOut, Carried, Sent, Kept, Queued
    <3> QED
      BY <2>6, <3>m1, <1>0, <1>p DEF TimeOut, Held, Pending, PlacesOf, HeldType, EmptyHands
  <2>7. CASE DropReceiver(w)
    <3>m1. Sent(k)' <=> Sent(k) /\ chan[w] # k
      BY <2>7, ChanMoves DEF DropReceiver
    <3>m2. (Carried(k)' <=> Carried(k)) /\ (Kept(k)' <=> Kept(k)) /\ (Queued(k)' <=> Queued(k))
      BY <2>7 DEF DropReceiver, Carried, Kept, Queued
    <3> QED
      BY <2>7, <3>m1, <3>m2, <1>0, <1>p
         DEF DropReceiver, Held, Pending, PlacesOf, HeldType, EmptyHands
  <2> QED
    BY <1>5, <2>1, <2>2, <2>3, <2>4, <2>5, <2>6, <2>7 DEF ThreadStep
<1>6. ASSUME NEW j \in Jobs, FinishOutside(j)
      PROVE  Held(k)' <=> Pending(k)'
  <2>m1. (Carried(k)' <=> Carried(k)) /\ (Sent(k)' <=> Sent(k)) /\ (Kept(k)' <=> Kept(k))
         /\ (Queued(k)' <=> Queued(k))
    BY <1>6 DEF FinishOutside, Carried, Sent, Kept, Queued
  <2> QED
    BY <1>6, <2>m1, <1>0, <1>p DEF FinishOutside, Held, Pending, PlacesOf, HeldType, EmptyHands
<1>7. CASE UNCHANGED vars
  BY <1>0, <1>7 DEF vars, Held, Queued, Sent, Carried, Kept, Pending
<1> QED
  BY <1>1, <1>2, <1>3, <1>4, <1>5, <1>6, <1>7 DEF Next, Everyone

\* Nothing is held at first.
LEMMA JInit == Init => JInv
<1> SUFFICES ASSUME Init PROVE JInv
  OBVIOUS
<1> USE NoneAssumption, ThreadsAssumption DEF Init, Everyone
<1>1. EmptyHands
  BY DEF EmptyHands
<1>2. Apart
  BY DEF Apart
<1>3. HeldIsPending
  BY DEF HeldIsPending, Held, Queued, Sent, Carried, Kept, Pending
<1>4. SendersApart
  BY DEF SendersApart
<1> QED
  BY <1>1, <1>2, <1>3, <1>4, InitOK DEF JInv

\* Types, seats, holdings, owners and senders hold in every reachable state.
LEMMA JInductive == Spec => []JInv
<1>1. JInv /\ [Next]_vars => JInv'
  BY TypeStep, SeatStep, EmptyHandsStep, ApartStep, HeldStep, SendersStep DEF JInv, IInv
<1> QED
  BY <1>1, JInit, PTL DEF Spec

\* The places of a job are as many as its state says.
LEMMA OneOwnerHolds == JInv => OneOwner
<1> SUFFICES ASSUME JInv, NEW j \in Jobs
             PROVE  Cardinality(Places(j)) = IF outcome[j] = "pending" THEN 1 ELSE 0
  BY DEF OneOwner
<1>0. Held(j) <=> outcome[j] = "pending"
  BY DEF JInv, HeldIsPending, Pending
<1>a. Apart /\ j # None
  BY NoneAssumption DEF JInv
<1>1. CASE ~Held(j)
  <2>1. Places(j) = {}
    BY <1>1 DEF Places, Held, Queued, Sent, Carried, Kept
  <2> QED
    BY <1>0, <1>1, <2>1, FS_EmptySet
<1>2. CASE Held(j)
  <2>1. CASE Queued(j)
    <3>1. PICK i \in DOMAIN queue : queue[i] = j
      BY <2>1 DEF Queued
    <3>2. {k \in DOMAIN queue : queue[k] = j} = {i}
      BY <1>a, <3>1 DEF Apart
    <3>3. /\ \A w \in Threads : chan[w] # j
          /\ \A t \in Everyone : hand[t] # j /\ respawn[t] # j
          /\ outside \cap {j} = {}
      BY <1>a, <3>1 DEF Apart
    <3>4. Places(j) = {<<"queue", i>>}
      BY <3>2, <3>3 DEF Places
    <3> QED
      BY <1>0, <1>2, <3>4, FS_Singleton
  <2>2. CASE Sent(j)
    <3>1. PICK w \in Threads : chan[w] = j
      BY <2>2 DEF Sent
    <3>2. {v \in Threads : chan[v] = j} = {w}
      BY <1>a, <3>1 DEF Apart
    <3>3. /\ \A i \in DOMAIN queue : queue[i] # j
          /\ \A t \in Everyone : hand[t] # j /\ respawn[t] # j
          /\ outside \cap {j} = {}
      BY <1>a, <3>1 DEF Apart
    <3>4. Places(j) = {<<"chan", w>>}
      BY <3>2, <3>3 DEF Places
    <3> QED
      BY <1>0, <1>2, <3>4, FS_Singleton
  <2>3. CASE Carried(j)
    <3>1. PICK t \in Everyone : hand[t] = j
      BY <2>3 DEF Carried
    <3>2. {u \in Everyone : hand[u] = j} = {t}
      BY <1>a, <3>1 DEF Apart
    <3>3. /\ \A i \in DOMAIN queue : queue[i] # j
          /\ \A w \in Threads : chan[w] # j
          /\ \A u \in Everyone : respawn[u] # j
          /\ outside \cap {j} = {}
      BY <1>a, <3>1 DEF Apart
    <3>4. Places(j) = {<<"hand", t>>}
      BY <3>2, <3>3 DEF Places
    <3> QED
      BY <1>0, <1>2, <3>4, FS_Singleton
  <2>4. CASE Kept(j)
    <3>1. PICK t \in Everyone : respawn[t] = j
      BY <2>4 DEF Kept
    <3>2. {u \in Everyone : respawn[u] = j} = {t}
      BY <1>a, <3>1 DEF Apart
    <3>3. /\ \A i \in DOMAIN queue : queue[i] # j
          /\ \A w \in Threads : chan[w] # j
          /\ \A u \in Everyone : hand[u] # j
          /\ outside \cap {j} = {}
      BY <1>a, <3>1 DEF Apart
    <3>4. Places(j) = {<<"respawn", t>>}
      BY <3>2, <3>3 DEF Places
    <3> QED
      BY <1>0, <1>2, <3>4, FS_Singleton
  <2>5. CASE j \in outside
    <3>1. /\ \A i \in DOMAIN queue : queue[i] # j
          /\ \A w \in Threads : chan[w] # j
          /\ \A t \in Everyone : hand[t] # j /\ respawn[t] # j
      BY <1>a, <2>5 DEF Apart
    <3>2. Places(j) = {<<"outside", j>>}
      BY <2>5, <3>1 DEF Places
    <3> QED
      BY <1>0, <1>2, <3>2, FS_Singleton
  <2> QED
    BY <1>2, <2>1, <2>2, <2>3, <2>4, <2>5 DEF Held
<1> QED
  BY <1>1, <1>2

\* The senders to a thread are as many as its state allows.
LEMMA OneSenderHolds == JInv => OneSender
<1> SUFFICES ASSUME JInv, NEW w \in Threads
             PROVE  /\ Cardinality(StackedAt(w)) + Cardinality(InFlight(w)) <= 1
                    /\ StackedAt(w) # {} \/ InFlight(w) # {} =>
                           chan[w] = None /\ pc[w] \notin {"starting", "running", "looking"}
  BY DEF OneSender
<1>a. SendersApart /\ w # None
  BY NoneAssumption DEF JInv
<1>1. CASE StackedAt(w) # {}
  <2>1. PICK i \in DOMAIN idle : idle[i] = w
    BY <1>1 DEF StackedAt
  <2>2. StackedAt(w) = {i} /\ InFlight(w) = {}
    BY <1>a, <2>1 DEF StackedAt, InFlight, SendersApart
  <2>3. Cardinality(StackedAt(w)) = 1 /\ Cardinality(InFlight(w)) = 0
    BY <2>2, FS_Singleton, FS_EmptySet
  <2> QED
    BY <1>a, <2>1, <2>3 DEF SendersApart
<1>2. CASE InFlight(w) # {}
  <2>1. PICK c \in Callers : sender[c] = w
    BY <1>2 DEF InFlight
  <2>2. StackedAt(w) = {} /\ InFlight(w) = {c}
    BY <1>a, <2>1 DEF StackedAt, InFlight, SendersApart
  <2>3. Cardinality(StackedAt(w)) = 0 /\ Cardinality(InFlight(w)) = 1
    BY <2>2, FS_Singleton, FS_EmptySet
  <2> QED
    BY <1>a, <2>1, <2>3 DEF SendersApart
<1>3. CASE StackedAt(w) = {} /\ InFlight(w) = {}
  BY <1>3, FS_EmptySet
<1> QED
  BY <1>1, <1>2, <1>3

\* A job that was submitted has exactly one owner until it has run, come back
\* or been dropped, and none afterwards, so it is never run twice.  Dropped is
\* an end like the others: nothing is said here against it, see AcceptedIsKept
\* for the job that is lost so.  An idle thread has at most one
\* sender, and a job that is sent to it never queues up behind another:
\* whatever panics, times out, fails to start or is limited anew.
THEOREM JobsAlwaysAccounted == Spec => []JobsAccounted
<1>1. JInv => JobsAccounted
  BY OneOwnerHolds, OneSenderHolds DEF JobsAccounted, JInv, IInv
<1> QED
  BY <1>1, JInductive, PTL

-----------------------------------------------------------------------------
\* A step that adds a seat has just seen room under the lock.
LEMMA LimitStep ==
    ASSUME IInv, IInv', [Next]_vars, Cardinality(SeatHolders') > Cardinality(SeatHolders)
    PROVE  max_live = 0 \/ Cardinality(SeatHolders') <= max_live
<1>0. /\ live \in Nat /\ live' \in Nat /\ max_live \in Nat
      /\ Cardinality(SeatHolders) = live /\ Cardinality(SeatHolders') = live'
  BY BoundsAssumption DEF IInv, TypeOK, InnerType, Seats, SeatsAccounted
<1>1. live' > live
  BY <1>0
<1> USE DEF inner
<1>2. ASSUME NEW c \in Callers, CallerStep(c)
      PROVE Room /\ live' = live + 1
  BY <1>0, <1>1, <1>2 DEF CallerStep, PopIdle, TakeSeat, Refuse, Enqueue, Send, Start,
              StartFails, ReturnErr, StartOutside, StartQueued
<1>3. ASSUME NEW t \in Everyone, ReleaseStep(t)
      PROVE FALSE
  BY <1>0, <1>1, <1>3 DEF ReleaseStep, Release, Respawn, RespawnFails
<1>4. ASSUME NEW w \in Threads, ThreadStep(w) \/ TimeOut(w)
      PROVE FALSE
  BY <1>0, <1>1, <1>4 DEF ThreadStep, Receive, Finish, TakeNext, Leave, Park, TimeOut,
     DropReceiver
<1>5. Room /\ live' = live + 1
  BY <1>0, <1>1, <1>2, <1>3, <1>4 DEF Next, Everyone, Submit, SetLimit, FinishOutside, vars
<1> QED
  BY <1>0, <1>5 DEF Room

\* A seat is only added below the limit that holds at that moment, whoever
\* changes it and whenever; a lowered limit takes no seat from anybody.
THEOREM SeatsStayWithinLimit == Spec => SeatsWithinLimit
<1>1. IInv /\ IInv' /\ [Next]_vars =>
        [Cardinality(SeatHolders') > Cardinality(SeatHolders)
           => max_live = 0 \/ Cardinality(SeatHolders') <= max_live]_vars
  BY LimitStep
<1> QED
  BY <1>1, Inductive, PTL DEF Spec, SeatsWithinLimit

-----------------------------------------------------------------------------
(***************************************************************************)
(* The pool of threads implements the pool of jobs: every step is a step   *)
(* of `JobPool' or leaves the status of every job and the queue alone.     *)
(***************************************************************************)
poolVars == <<[j \in Jobs |-> Status(j)], queue>>

\* The status of a job, by the place where it is.
StatusTable == \A j \in Jobs :
    /\ \A c \in Callers : hand[c] = j =>
          Status(j) = IF call[c] = "set_limit" THEN "accepted" ELSE "offered"
    /\ Queued(j) \/ Sent(j) \/ Kept(j) => Status(j) = "accepted"
    /\ (\E w \in Threads : hand[w] = j) \/ j \in outside => Status(j) = "running"
    /\ outcome[j] # "pending" => Status(j) = outcome[j]

\* The place tells the status.
LEMMA StatusByPlace == JInv => StatusTable
<1> SUFFICES ASSUME JInv PROVE StatusTable
  OBVIOUS
<1> SUFFICES ASSUME NEW j \in Jobs
             PROVE
    /\ \A c \in Callers : hand[c] = j =>
          Status(j) = IF call[c] = "set_limit" THEN "accepted" ELSE "offered"
    /\ Queued(j) \/ Sent(j) \/ Kept(j) => Status(j) = "accepted"
    /\ (\E w \in Threads : hand[w] = j) \/ j \in outside => Status(j) = "running"
    /\ outcome[j] # "pending" => Status(j) = outcome[j]
  BY DEF StatusTable
<1>1. PlacesOf(j)
  BY HeldApart DEF JInv, IInv, TypeOK
<1>2. Held(j) <=> outcome[j] = "pending"
  BY DEF JInv, HeldIsPending, Pending
<1>3. ASSUME NEW c \in Callers, hand[c] = j
      PROVE  /\ \A d \in Callers : hand[d] = j => d = c
             /\ \A w \in Threads : hand[w] # j
  BY <1>3, NoneAssumption, ThreadsAssumption DEF JInv, Apart, Everyone
<1>4. ASSUME NEW c \in Callers, hand[c] = j
      PROVE  Status(j) = IF call[c] = "set_limit" THEN "accepted" ELSE "offered"
  <2>1. outcome[j] = "pending" /\ j \notin outside
    BY <1>1, <1>2, <1>4 DEF PlacesOf, Held, Everyone
  <2> QED
    BY <1>3, <1>4, <2>1 DEF Status
<1>5. ASSUME Queued(j) \/ Sent(j) \/ Kept(j)
      PROVE  Status(j) = "accepted"
  <2>1. outcome[j] = "pending" /\ j \notin outside /\ \A t \in Everyone : hand[t] # j
    BY <1>1, <1>2, <1>5 DEF PlacesOf, Held
  <2> QED
    BY <2>1 DEF Status, Everyone
<1>6. ASSUME (\E w \in Threads : hand[w] = j) \/ j \in outside
      PROVE  Status(j) = "running"
  <2>1. outcome[j] = "pending"
    BY <1>1, <1>2, <1>6 DEF PlacesOf, Held, Everyone
  <2> QED
    BY <1>6, <2>1 DEF Status
<1> QED
  BY <1>4, <1>5, <1>6 DEF Status

\* A job that no step touches keeps its status.
LEMMA Untouched ==
    ASSUME NEW k \in Jobs, outcome'[k] = outcome[k], k \in outside' <=> k \in outside,
           \A t \in Everyone : hand'[t] = k <=> hand[t] = k,
           \A c \in Callers : hand[c] = k => call'[c] = call[c]
    PROVE  Status(k)' = Status(k)
  BY DEF Status, Everyone

\* The same in terms of the abstract pool: nothing happens, or job x does.
LEMMA PoolStays ==
    ASSUME \A k \in Jobs : Status(k)' = Status(k), queue' = queue
    PROVE  UNCHANGED poolVars
  BY DEF poolVars

\* Job x goes from one status to another and the others stay.
LEMMA PoolMoves ==
    ASSUME NEW x \in Jobs, NEW from, NEW to, Status(x) \in from, Status(x)' = to,
           \A k \in Jobs : k # x => Status(k)' = Status(k)
    PROVE  Pool!Become(x, from, to)
  BY DEF Pool!Become

\* What each step is for the jobs.
LEMMA PoolStep ==
    ASSUME JInv, JInv', [Next]_vars
    PROVE  Pool!Next \/ UNCHANGED poolVars
<1>t. InnerType /\ HeldType /\ HandOK /\ EmptyHands /\ SendersApart /\ Apart
  BY DEF JInv, IInv, TypeOK
<1>s. StatusTable /\ StatusTable' /\ \A k \in Jobs : PlacesOf(k)
  <2>1. StatusTable'
    BY StatusByPlace, PTL
  <2> QED
    BY <1>t, <2>1, StatusByPlace, HeldApart
<1>q. queue # <<>> => Queued(Head(queue))
  BY <1>t, TailPlaces DEF InnerType, Queued
<1>r. ASSUME NEW j \in Jobs, queue' = Append(queue, j)
      PROVE  Queued(j)'
  BY <1>t, <1>r, QueueJoined
<1> USE NoneAssumption, ThreadsAssumption, OpsAssumption, <1>t, <1>s DEF InnerType, HeldType,
        HandOK, EmptyHands, Everyone, JobOrNone, Runs, inner
<1>1. ASSUME NEW c \in Callers, NEW j \in Jobs, NEW op \in Ops, Submit(c, j, op)
      PROVE  Pool!Next \/ UNCHANGED poolVars
  <2>1. j # None
    OBVIOUS
  <2>2. Status(j) \in Pool!Finished /\ Status(j)' = "offered"
    BY <1>1, <2>1 DEF Submit, StatusTable, Queued, Sent, Kept, Pool!Finished
  <2>3. \A k \in Jobs : k # j => Status(k)' = Status(k)
    BY <1>1, <2>1, Untouched DEF Submit
  <2>4. Pool!Become(j, Pool!Finished, "offered")
    BY <2>2, <2>3, PoolMoves
  <2> QED
    BY <1>1, <2>1, <2>4 DEF Submit, Pool!Next, Pool!Offer
<1>2. ASSUME NEW c \in Callers, NEW n \in Limits, SetLimit(c, n)
      PROVE  Pool!Next \/ UNCHANGED poolVars
  <2>1. \A k \in Jobs : Status(k)' = Status(k)
    BY <1>2, Untouched DEF SetLimit
  <2> QED
    BY <1>2, <2>1, PoolStays DEF SetLimit
<1>3. ASSUME NEW c \in Callers, CallerStep(c)
      PROVE  Pool!Next \/ UNCHANGED poolVars
  <2>1. CASE PopIdle(c)
    <3>1. \A k \in Jobs : Status(k)' = Status(k)
      BY <2>1, Untouched DEF PopIdle
    <3> QED
      BY <2>1, <3>1, PoolStays DEF PopIdle
  <2>2. CASE TakeSeat(c)
    <3>1. \A k \in Jobs : Status(k)' = Status(k)
      BY <2>2, Untouched DEF TakeSeat
    <3> QED
      BY <2>2, <3>1, PoolStays DEF TakeSeat
  <2>3. CASE Refuse(c)
    <3>1. \A k \in Jobs : Status(k)' = Status(k)
      BY <2>3, Untouched DEF Refuse
    <3> QED
      BY <2>3, <3>1, PoolStays DEF Refuse
  <2>4. CASE Enqueue(c)
    <3>1. PICK j \in Jobs : j = hand[c]
      BY <2>4 DEF Enqueue, PlacesOf
    <3>2. Status(j) \in {"offered"} /\ Status(j)' = "accepted"
      BY <2>4, <3>1, <1>r DEF Enqueue, StatusTable, Queued, Sent, Kept
    <3>3. \A k \in Jobs : k # j => Status(k)' = Status(k)
      BY <2>4, <3>1, Untouched DEF Enqueue
    <3>4. Pool!Become(j, {"offered"}, "accepted")
      BY <3>2, <3>3, PoolMoves
    <3> QED
      BY <2>4, <3>1, <3>4 DEF Enqueue, Pool!Next, Pool!Accept
  <2>5. CASE Send(c)
    <3>1. CASE Receives(sender[c])
      <4>1. PICK j \in Jobs : j = hand[c]
        BY <2>5, <3>1 DEF Send, PlacesOf
      <4>2. Status(j) \in {"offered"} /\ Status(j)' = "accepted"
        BY <2>5, <3>1, <4>1 DEF Send, StatusTable, Queued, Sent, Kept
      <4>3. \A k \in Jobs : k # j => Status(k)' = Status(k)
        BY <2>5, <3>1, <4>1, Untouched DEF Send
      <4>4. Pool!Become(j, {"offered"}, "accepted")
        BY <4>2, <4>3, PoolMoves
      <4> QED
        BY <2>5, <3>1, <4>1, <4>4 DEF Send, Pool!Next, Pool!Accept
    <3>2. CASE ~Receives(sender[c])
      <4>1. \A k \in Jobs : Status(k)' = Status(k)
        BY <2>5, <3>2, Untouched DEF Send
      <4> QED
        BY <2>5, <3>2, <4>1, PoolStays DEF Send
    <3> QED
      BY <3>1, <3>2
  <2>6. CASE StartFails(c)
    <3>1. \A k \in Jobs : Status(k)' = Status(k)
      BY <2>6, Untouched DEF StartFails
    <3> QED
      BY <2>6, <3>1, PoolStays DEF StartFails
  <2>7. CASE ReturnErr(c)
    <3>1. CASE call[c] = "run_outside"
      <4>1. \A k \in Jobs : Status(k)' = Status(k)
        BY <2>7, <3>1, Untouched DEF ReturnErr
      <4> QED
        BY <2>7, <3>1, <4>1, PoolStays DEF ReturnErr
    <3>2. CASE call[c] = "set_limit"
      <4>1. PICK j \in Jobs : j = hand[c]
        BY <2>7, <3>2 DEF ReturnErr, PlacesOf
      <4>2. Status(j) \in {"accepted"} /\ Status(j)' = "dropped"
        BY <2>7, <3>2, <4>1 DEF ReturnErr, StatusTable, Queued, Sent, Kept
      <4>3. \A k \in Jobs : k # j => Status(k)' = Status(k)
        BY <2>7, <3>2, <4>1, Untouched DEF ReturnErr
      <4>4. Pool!Become(j, {"accepted"}, "dropped")
        BY <4>2, <4>3, PoolMoves
      <4> QED
        BY <2>7, <3>2, <4>1, <4>4 DEF ReturnErr, Pool!Next, Pool!Drop, PlacesOf, Apart, Queued
    <3>3. CASE call[c] \notin {"run_outside", "set_limit"}
      <4>1. PICK j \in Jobs : j = hand[c]
        BY <2>7, <3>3 DEF ReturnErr, PlacesOf
      <4>2. Status(j) \in {"offered"} /\ Status(j)' = "returned"
        BY <2>7, <3>3, <4>1 DEF ReturnErr, StatusTable, Queued, Sent, Kept
      <4>3. \A k \in Jobs : k # j => Status(k)' = Status(k)
        BY <2>7, <3>3, <4>1, Untouched DEF ReturnErr
      <4>4. Pool!Become(j, {"offered"}, "returned")
        BY <4>2, <4>3, PoolMoves
      <4> QED
        BY <2>7, <3>3, <4>1, <4>4 DEF ReturnErr, Pool!Next, Pool!GiveBack
    <3> QED
      BY <3>1, <3>2, <3>3
  <2>8. CASE StartOutside(c)
    <3>1. CASE outside' = outside \cup {hand[c]} /\ UNCHANGED outcome
      <4>1. PICK j \in Jobs : j = hand[c]
        BY <2>8, <3>1 DEF StartOutside, PlacesOf
      <4>2. Status(j) \in {"offered"} /\ Status(j)' = "running"
        BY <2>8, <3>1, <4>1 DEF StartOutside, StatusTable, Queued, Sent, Kept
      <4>3. \A k \in Jobs : k # j => Status(k)' = Status(k)
        BY <2>8, <3>1, <4>1, Untouched DEF StartOutside
      <4>4. Pool!Become(j, {"offered"}, "running")
        BY <4>2, <4>3, PoolMoves
      <4> QED
        BY <2>8, <3>1, <4>1, <4>4
           DEF StartOutside, Pool!Next, Pool!RunOutside, PlacesOf, Apart, Queued
    <3>2. CASE outcome' = [outcome EXCEPT ![hand[c]] = "returned"] /\ UNCHANGED outside
      <4>1. PICK j \in Jobs : j = hand[c]
        BY <2>8, <3>2 DEF StartOutside, PlacesOf
      <4>2. Status(j) \in {"offered"} /\ Status(j)' = "returned"
        BY <2>8, <3>2, <4>1 DEF StartOutside, StatusTable, Queued, Sent, Kept
      <4>3. \A k \in Jobs : k # j => Status(k)' = Status(k)
        BY <2>8, <3>2, <4>1, Untouched DEF StartOutside
      <4>4. Pool!Become(j, {"offered"}, "returned")
        BY <4>2, <4>3, PoolMoves
      <4> QED
        BY <2>8, <3>2, <4>1, <4>4 DEF StartOutside, Pool!Next, Pool!GiveBack
    <3> QED
      BY <2>8, <3>1, <3>2 DEF StartOutside
  <2>9. CASE StartQueued(c)
    <3>1. CASE ~(Room /\ queue # <<>>)
      <4>1. \A k \in Jobs : Status(k)' = Status(k)
        BY <2>9, <3>1, Untouched DEF StartQueued
      <4> QED
        BY <2>9, <3>1, <4>1, PoolStays DEF StartQueued
    <3>2. CASE Room /\ queue # <<>>
      <4>1. PICK j \in Jobs : /\ j = Head(queue) /\ queue # <<>>
                              /\ queue' = Tail(queue)
        BY <2>9, <3>2, HeadTail DEF StartQueued
      <4>2. Status(j)' = Status(j)
        BY <2>9, <3>2, <4>1, <1>q DEF StartQueued, StatusTable
      <4>3. \A k \in Jobs : k # j => Status(k)' = Status(k)
        BY <2>9, <3>2, <4>1, Untouched DEF StartQueued
      <4>4. \A k \in Jobs : Status(k)' = Status(k)
        BY <4>2, <4>3
      <4>5. UNCHANGED [k \in Jobs |-> Status(k)]
        BY <4>4
      <4> QED
        BY <4>1, <4>5 DEF Pool!Next, Pool!Leave
    <3> QED
      BY <3>1, <3>2
  <2>10. ASSUME NEW w \in Threads, Start(c, w)
         PROVE  Pool!Next \/ UNCHANGED poolVars
    <3>1. CASE call[c] = "set_limit"
      <4>1. PICK j \in Jobs : j = hand[c]
        BY <2>10, <3>1 DEF Start
      <4>2. Status(j)' = Status(j)
        BY <2>10, <3>1, <4>1 DEF Start, StatusTable, Sent
      <4>3. \A k \in Jobs : k # j => Status(k)' = Status(k)
        BY <2>10, <3>1, <4>1, Untouched DEF Start, Free
      <4> QED
        BY <2>10, <3>1, <4>1, <4>2, <4>3, PoolStays DEF Start
    <3>2. CASE call[c] # "set_limit"
      <4>1. PICK j \in Jobs : j = hand[c]
        BY <2>10, <3>2 DEF Start, Free, PlacesOf
      <4>2. Status(j) \in {"offered"} /\ Status(j)' = "accepted"
        BY <2>10, <3>2, <4>1 DEF Start, Free, StatusTable, Queued, Sent, Kept
      <4>3. \A k \in Jobs : k # j => Status(k)' = Status(k)
        BY <2>10, <3>2, <4>1, Untouched DEF Start, Free
      <4>4. Pool!Become(j, {"offered"}, "accepted")
        BY <4>2, <4>3, PoolMoves
      <4> QED
        BY <2>10, <3>2, <4>1, <4>4 DEF Start, Free, Pool!Next, Pool!Accept
    <3> QED
      BY <3>1, <3>2
  <2> QED
    BY <1>3, <2>1, <2>2, <2>3, <2>4, <2>5, <2>6, <2>7, <2>8, <2>9, <2>10 DEF CallerStep
<1>4. ASSUME NEW t \in Everyone, ReleaseStep(t)
      PROVE  Pool!Next \/ UNCHANGED poolVars
  <2>1. CASE Release(t)
    <3>1. CASE live > 1 \/ queue = <<>>
      <4>1. \A k \in Jobs : Status(k)' = Status(k)
        BY <2>1, <3>1, Untouched DEF Release
      <4> QED
        BY <2>1, <3>1, <4>1, PoolStays DEF Release
    <3>2. CASE ~(live > 1 \/ queue = <<>>)
      <4>1. PICK j \in Jobs : /\ j = Head(queue) /\ queue # <<>>
                              /\ queue' = Tail(queue)
        BY <2>1, <3>2, HeadTail DEF Release
      <4>2. \A k \in Jobs : Status(k)' = Status(k)
        BY <2>1, <3>2, Untouched DEF Release
      <4>4. \A k \in Jobs : Status(k)' = Status(k)
        BY <4>2
      <4>5. UNCHANGED [k \in Jobs |-> Status(k)]
        BY <4>4
      <4> QED
        BY <4>1, <4>5 DEF Pool!Next, Pool!Leave
    <3> QED
      BY <3>1, <3>2
  <2>2. ASSUME NEW w \in Threads, Respawn(t, w)
        PROVE  Pool!Next \/ UNCHANGED poolVars
    <3>1. \A k \in Jobs : Status(k)' = Status(k)
      BY <2>2, Untouched DEF Respawn, Free
    <3> QED
      BY <2>2, <3>1, PoolStays DEF Respawn, Free
  <2>3. CASE RespawnFails(t)
    <3>1. PICK j \in Jobs : j = respawn[t]
      BY <2>3 DEF RespawnFails, PlacesOf
    <3>2. Status(j) \in {"accepted"} /\ Status(j)' = "dropped"
      BY <2>3, <3>1 DEF RespawnFails, StatusTable, Queued, Sent, Kept
    <3>3. \A k \in Jobs : k # j => Status(k)' = Status(k)
      BY <2>3, <3>1, Untouched DEF RespawnFails
    <3>4. Pool!Become(j, {"accepted"}, "dropped")
      BY <3>2, <3>3, PoolMoves
    <3> QED
      BY <2>3, <3>1, <3>4 DEF RespawnFails, Pool!Next, Pool!Drop, PlacesOf, Apart, Queued
  <2> QED
    BY <1>4, <2>1, <2>2, <2>3 DEF ReleaseStep
<1>5. ASSUME NEW w \in Threads, ThreadStep(w) \/ TimeOut(w)
      PROVE  Pool!Next \/ UNCHANGED poolVars
  <2>1. CASE Receive(w)
    <3>1. PICK j \in Jobs : j = chan[w]
      BY <2>1 DEF Receive, PlacesOf
    <3>2. Status(j) \in {"accepted"} /\ Status(j)' = "running"
      BY <2>1, <3>1 DEF Receive, StatusTable, Queued, Sent, Kept
    <3>3. \A k \in Jobs : k # j => Status(k)' = Status(k)
      BY <2>1, <3>1, Untouched DEF Receive
    <3>4. Pool!Become(j, {"accepted"}, "running")
      BY <3>2, <3>3, PoolMoves
    <3> QED
      BY <2>1, <3>1, <3>4 DEF Receive, Pool!Next, Pool!Run, PlacesOf, Apart, Queued
  <2>2. CASE Finish(w)
    <3>1. PICK j \in Jobs : j = hand[w]
      BY <2>2 DEF Finish, PlacesOf
    <3>2. Status(j) \in {"running"} /\ Status(j)' = "done"
      BY <2>2, <3>1 DEF Finish, StatusTable, Queued, Sent, Kept
    <3>3. \A k \in Jobs : k # j => Status(k)' = Status(k)
      BY <2>2, <3>1, Untouched DEF Finish
    <3>4. Pool!Become(j, {"running"}, "done")
      BY <3>2, <3>3, PoolMoves
    <3> QED
      BY <2>2, <3>1, <3>4 DEF Finish, Pool!Next, Pool!End
  <2>3. CASE TakeNext(w)
    <3>1. PICK j \in Jobs : /\ j = Head(queue) /\ queue # <<>>
                            /\ queue' = Tail(queue) /\ hand' = [hand EXCEPT ![w] = j]
      BY <2>3, HeadTail DEF TakeNext
    <3>2. Status(j) = "accepted" /\ Status(j)' = "running"
      BY <2>3, <3>1, <1>q DEF TakeNext, StatusTable
    <3>3. \A k \in Jobs : k # j => Status(k)' = Status(k)
      BY <2>3, <3>1, Untouched DEF TakeNext
    <3>4. Pool!Become(j, {"accepted"}, "running")
      BY <3>2, <3>3, PoolMoves
    <3> QED
      BY <3>1, <3>4 DEF Pool!Next, Pool!Leave
  <2>4. CASE Leave(w)
    <3>1. \A k \in Jobs : Status(k)' = Status(k)
      BY <2>4, Untouched DEF Leave
    <3> QED
      BY <2>4, <3>1, PoolStays DEF Leave
  <2>5. CASE Park(w)
    <3>1. \A k \in Jobs : Status(k)' = Status(k)
      BY <2>5, Untouched DEF Park
    <3> QED
      BY <2>5, <3>1, PoolStays DEF Park
  <2>6. CASE TimeOut(w)
    <3>1. \A k \in Jobs : Status(k)' = Status(k)
      BY <2>6, Untouched DEF TimeOut
    <3> QED
      BY <2>6, <3>1, PoolStays DEF TimeOut
  <2>7. CASE DropReceiver(w)
    <3>1. CASE chan[w] = None
      <4>1. \A k \in Jobs : Status(k)' = Status(k)
        BY <2>7, <3>1, Untouched DEF DropReceiver
      <4> QED
        BY <2>7, <3>1, <4>1, PoolStays DEF DropReceiver
    <3>2. CASE chan[w] # None
      <4>1. PICK j \in Jobs : j = chan[w]
        BY <2>7, <3>2 DEF DropReceiver, PlacesOf
      <4>2. Status(j) \in {"accepted"} /\ Status(j)' = "dropped"
        BY <2>7, <3>2, <4>1 DEF DropReceiver, StatusTable, Queued, Sent, Kept
      <4>3. \A k \in Jobs : k # j => Status(k)' = Status(k)
        BY <2>7, <3>2, <4>1, Untouched DEF DropReceiver
      <4>4. Pool!Become(j, {"accepted"}, "dropped")
        BY <4>2, <4>3, PoolMoves
      <4> QED
        BY <2>7, <3>2, <4>1, <4>4
           DEF DropReceiver, Pool!Next, Pool!Drop, PlacesOf, Apart, Queued
    <3> QED
      BY <3>1, <3>2
  <2> QED
    BY <1>5, <2>1, <2>2, <2>3, <2>4, <2>5, <2>6, <2>7 DEF ThreadStep
<1>6. ASSUME NEW j \in Jobs, FinishOutside(j)
      PROVE  Pool!Next \/ UNCHANGED poolVars
  <2>1. j # None
    OBVIOUS
  <2>2. Status(j) \in {"running"} /\ Status(j)' = "done"
    BY <1>6, <2>1 DEF FinishOutside, StatusTable, Queued, Sent, Kept
  <2>3. \A k \in Jobs : k # j => Status(k)' = Status(k)
    BY <1>6, <2>1, Untouched DEF FinishOutside
  <2>4. Pool!Become(j, {"running"}, "done")
    BY <2>2, <2>3, PoolMoves
  <2> QED
    BY <1>6, <2>1, <2>4 DEF FinishOutside, Pool!Next, Pool!End
<1>7. CASE UNCHANGED vars
  BY <1>7, Untouched, PoolStays DEF vars
<1> QED
  BY <1>1, <1>2, <1>3, <1>4, <1>5, <1>6, <1>7 DEF Next, Everyone

\* The jobs see the pool of `JobPool': accepted or given back, run at most
\* once, and served in the order of the waiting line, for every number of
\* threads and every fault.
THEOREM PoolIsImplemented == Spec => ImplementsJobPool
<1>1. Init => Pool!Init
  BY DEF Init, Pool!Init, Status
<1>2. JInv /\ JInv' /\ [Next]_vars => Pool!Next \/ UNCHANGED poolVars
  BY PoolStep
<1>3. JInv /\ JInv' /\ [Next]_vars => [Pool!Next]_<<[j \in Jobs |-> Status(j)], queue>>
  BY <1>2 DEF poolVars
<1> QED
  BY <1>1, <1>3, JInductive, PTL DEF Spec, ImplementsJobPool, Pool!Spec
=============================================================================
