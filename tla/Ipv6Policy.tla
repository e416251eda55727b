----------------------------- MODULE Ipv6Policy -----------------------------
(***************************************************************************)
(* Which family a new host is tried with first                             *)
(* (crates/net-conn/src/net/ipv6.rs): counters that every connection       *)
(* writes without a lock.  After LOSS_LIMIT losses and no win IPv4 goes    *)
(* first, and IPv6 is probed once in PROBE_SECS by a request, unless the   *)
(* canary does it.                                                         *)
(***************************************************************************)
EXTENDS Integers

CONSTANTS Threads, LossLimit, ProbeSecs, MaxNow, None

Ipv6PolicyAssumption == {LossLimit, ProbeSecs, MaxNow} \subseteq Nat \ {0}

VARIABLES
    wins, loss_streak, probe_at, canary_at, canary_ok,  \* capped: wins at 1, loss_streak at LossLimit + 1
    now,
    op,         \* what each thread is between two of its atomic steps
    probes      \* ghost: when a request probed last, 0 if none did, and how many came too early

vars == <<wins, loss_streak, probe_at, canary_at, canary_ok, now, op, probes>>
Rest == [pc |-> "rest", now |-> 0, at |-> 0]

Init ==
    /\ wins = 0 /\ loss_streak = 0 /\ probe_at = 0 /\ canary_at = 0 /\ canary_ok = FALSE
    /\ now = 1
    /\ op = [t \in Threads |-> Rest]
    /\ probes = [last |-> 0, early |-> 0]

V4First == wins = 0 /\ loss_streak >= LossLimit /\ ~canary_ok

\* note_win: the count, then the streak.
Win(t) ==
    /\ op[t].pc = "rest"
    /\ wins' = 1
    /\ op' = [op EXCEPT ![t].pc = "won"]
    /\ UNCHANGED <<loss_streak, probe_at, canary_at, canary_ok, now, probes>>
Won(t) ==
    /\ op[t].pc = "won"
    /\ loss_streak' = 0
    /\ op' = [op EXCEPT ![t] = Rest]
    /\ UNCHANGED <<wins, probe_at, canary_at, canary_ok, now, probes>>

\* note_loss: the one that completes the streak sets the time of the first probe, from a clock
\* that it reads in between.
Loss(t) ==
    /\ op[t].pc = "rest"
    /\ loss_streak' = IF loss_streak > LossLimit THEN loss_streak ELSE loss_streak + 1
    /\ IF loss_streak + 1 = LossLimit /\ wins = 0
       THEN op' = [op EXCEPT ![t] = [pc |-> "fell", now |-> now, at |-> 0]]
       ELSE UNCHANGED op
    /\ UNCHANGED <<wins, probe_at, canary_at, canary_ok, now, probes>>
Fell(t) ==
    /\ op[t].pc = "fell"
    /\ \E read \in op[t].now .. now : probe_at' = read + ProbeSecs
    /\ op' = [op EXCEPT ![t] = Rest]
    /\ UNCHANGED <<wins, loss_streak, canary_at, canary_ok, now, probes>>

\* note_canary.
Canary(connected) ==
    /\ canary_at' = now /\ canary_ok' = (canary_ok \/ connected)
    /\ UNCHANGED <<wins, loss_streak, probe_at, now, op, probes>>
ProbeByCanary(at) == canary_at # 0 /\ at - canary_at < ProbeSecs

\* first_for_new_host: v4_first, the clock, the canary, the load of probe_at and its
\* compare_exchange; who finds that it need not probe is at rest again.
Look(t) ==
    /\ op[t].pc = "rest" /\ V4First
    /\ op' = [op EXCEPT ![t].pc = "look"]
    /\ UNCHANGED <<wins, loss_streak, probe_at, canary_at, canary_ok, now, probes>>
Clock(t) ==
    /\ op[t].pc = "look"
    /\ op' = [op EXCEPT ![t] = [pc |-> "clock", now |-> now, at |-> 0]]
    /\ UNCHANGED <<wins, loss_streak, probe_at, canary_at, canary_ok, now, probes>>
AskCanary(t) ==
    /\ op[t].pc = "clock"
    /\ op' = [op EXCEPT ![t] = IF ProbeByCanary(@.now) THEN Rest ELSE [@ EXCEPT !.pc = "load"]]
    /\ UNCHANGED <<wins, loss_streak, probe_at, canary_at, canary_ok, now, probes>>
LoadAt(t) ==
    /\ op[t].pc = "load"
    /\ op' = [op EXCEPT ![t] = IF @.now < probe_at THEN Rest ELSE [@ EXCEPT !.pc = "probe", !.at = probe_at]]
    /\ UNCHANGED <<wins, loss_streak, probe_at, canary_at, canary_ok, now, probes>>

Probed(at) ==
    probes' = [last |-> at,
               early |-> IF probes.last # 0 /\ at < probes.last + ProbeSecs THEN probes.early + 1 ELSE probes.early]

\* Variant: the time of the next probe is stored, whoever did so meanwhile.
Reserve_Stores(t) ==
    /\ op[t].pc = "probe"
    /\ probe_at' = op[t].now + ProbeSecs
    /\ Probed(op[t].now)
    /\ op' = [op EXCEPT ![t] = Rest]
    /\ UNCHANGED <<wins, loss_streak, canary_at, canary_ok, now>>

Reserve(t) ==
    /\ op[t].pc = "probe"
    /\ IF probe_at = op[t].at
       THEN /\ probe_at' = op[t].now + ProbeSecs
            /\ Probed(op[t].now)
       ELSE UNCHANGED <<probe_at, probes>>
    /\ op' = [op EXCEPT ![t] = Rest]
    /\ UNCHANGED <<wins, loss_streak, canary_at, canary_ok, now>>

Tick == now < MaxNow /\ now' = now + 1 /\ UNCHANGED <<wins, loss_streak, probe_at, canary_at, canary_ok, op, probes>>

Next ==
    \/ \E t \in Threads : Win(t) \/ Won(t) \/ Loss(t) \/ Fell(t)
    \/ \E t \in Threads : Look(t) \/ Clock(t) \/ AskCanary(t) \/ LoadAt(t) \/ Reserve(t)
    \/ \E connected \in BOOLEAN : Canary(connected)
    \/ Tick

Spec == Init /\ [][Next]_vars

-----------------------------------------------------------------------------
(* A request is made to wait for a probe at most once in PROBE_SECS; the   *)
(* one exception, ever, is the probe after one that came between the last  *)
(* loss and the store of its time (`first_for_new_host' against            *)
(* `note_loss').                                                           *)
ProbesAreSpaced == probes.early <= 1

\* The inductive invariant: one thread at most is about to store the time of the first probe, and
\* until it has done so, and while no probe came after it, none was too early.
Falling == {t \in Threads : op[t].pc = "fell"}
Fallen == wins = 1 \/ loss_streak >= LossLimit

PolicyTypes ==
    /\ wins \in {0, 1} /\ {loss_streak, probe_at, canary_at, now} \subseteq Nat /\ now > 0
    /\ op \in [Threads -> [pc : {"rest", "won", "fell", "look", "clock", "load", "probe"}, now : Nat, at : Nat]]
    /\ probes \in [last : Nat, early : Nat]

PolicyInv ==
    /\ PolicyTypes
    /\ \A t, u \in Falling : t = u
    /\ \A t \in Threads :
          /\ op[t].pc = "won" => wins = 1
          /\ op[t].pc \in {"fell", "look", "clock", "load", "probe"} => Fallen
          /\ op[t].pc \in {"fell", "clock", "load", "probe"} => op[t].now > 0
          /\ op[t].pc = "probe" => op[t].now >= op[t].at
    /\ probes.last # 0 => Fallen
    /\ probes.last # 0 /\ Falling # {} => probe_at = probes.last + ProbeSecs
    /\ probes.early <= 1
    /\ probes.last = 0 \/ Falling # {} \/ probe_at # probes.last + ProbeSecs => probes.early = 0
=============================================================================
