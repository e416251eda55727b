---------------------------- MODULE HappyEyeballs ----------------------------
(***************************************************************************)
(* One connection to a host with several addresses                         *)
(* (crates/net-conn/src/net/{connect,happy_eyeballs,addrs}.rs): the        *)
(* addresses of both families in turn, an attempt each in a thread of its  *)
(* own, the next one when the stagger is over or nothing is pending, the   *)
(* first that connects wins; when they were stale, once more with others.  *)
(* The clock is left to chance: the stagger and the deadline are over when *)
(* they are.                                                               *)
(***************************************************************************)
EXTENDS Integers, Sequences, FiniteSets

CONSTANTS
    V6, V4,         \* the addresses a name may have
    MaxCandidates,
    None

HappyEyeballsAssumption ==
    /\ MaxCandidates \in Nat \ {0} /\ V6 \cap V4 = {} /\ IsFiniteSet(V6) /\ IsFiniteSet(V4)
    /\ {None, "error", "timeout"} \cap (V6 \cup V4) = {} /\ None \notin {"error", "timeout"}

VARIABLES
    pc, round, stale,
    addrs,          \* the candidates, in the order they are tried
    deadline,       \* there is a time limit
    launched, pending,
    trying,         \* the attempts in their threads
    rx,             \* what they have sent, in order
    failed,         \* ghost: the addresses of this round that were found not to connect
    stagger_over, deadline_over,
    result

vars == <<pc, round, stale, addrs, deadline, launched, pending, trying, rx, failed,
          stagger_over, deadline_over, result>>

\* interleave_from: the two families in turn, the rest of the longer one after them.
InterleaveFrom(six, four, v6_first) ==
    LET a == IF v6_first THEN six ELSE four
        b == IF v6_first THEN four ELSE six
        both == IF Len(a) < Len(b) THEN Len(a) ELSE Len(b)
    IN [i \in 1 .. 2 * both |-> IF i % 2 = 1 THEN a[(i + 1) \div 2] ELSE b[i \div 2]]
       \o SubSeq(a, both + 1, Len(a)) \o SubSeq(b, both + 1, Len(b))

\* usable_family (without IPv6 there is nothing of V6), and connect_candidates up to the race; the
\* resolver gives the addresses of a family in any order.
Lists(V) ==
    UNION {{f \in [1 .. Cardinality(S) -> S] : \A i, j \in 1 .. Cardinality(S) : f[i] = f[j] => i = j}
           : S \in SUBSET V}
UpTo(n, list) == SubSeq(list, 1, IF Len(list) < n THEN Len(list) ELSE n)
Candidates ==
    {UpTo(MaxCandidates, InterleaveFrom(six, four, v6_first)) :
        six \in Lists(V6), four \in Lists(V4), v6_first \in BOOLEAN} \ {<<>>}

Race(list) ==
    /\ addrs' = list /\ launched' = 0 /\ pending' = 0 /\ trying' = {} /\ rx' = <<>> /\ failed' = {}
    /\ stagger_over' = TRUE /\ deadline_over' = FALSE
    /\ pc' = "loop"

Init ==
    /\ pc = "loop" /\ round = 1 /\ stale \in BOOLEAN
    /\ addrs \in Candidates /\ deadline \in BOOLEAN
    /\ launched = 0 /\ pending = 0 /\ trying = {} /\ rx = <<>> /\ failed = {}
    /\ stagger_over = TRUE /\ deadline_over = FALSE
    /\ result = None

ShouldLaunch == launched < Len(addrs) /\ (pending = 0 \/ stagger_over)

Launch ==
    /\ pc = "loop"
    /\ pc' = "wait"
    /\ IF ShouldLaunch
       THEN /\ trying' = trying \cup {launched + 1}
            /\ launched' = launched + 1 /\ pending' = pending + 1
            /\ stagger_over' = FALSE
       ELSE UNCHANGED <<launched, pending, trying, stagger_over>>
    /\ UNCHANGED <<round, stale, addrs, deadline, rx, failed, deadline_over, result>>

\* An attempt ends in its thread, when the race is over too: then its stream is dropped.
AttemptEnds(i, ok) ==
    /\ i \in trying
    /\ trying' = trying \ {i}
    /\ rx' = IF pc \in {"done", "failed"} THEN rx ELSE Append(rx, [index |-> i, ok |-> ok])
    /\ UNCHANGED <<pc, round, stale, addrs, deadline, launched, pending, failed, stagger_over, deadline_over, result>>

\* Variant: the race ends when nothing is pending, whatever is left to try.
Receive_EndsEarly ==
    /\ pc = "wait" /\ rx # <<>>
    /\ rx' = Tail(rx)
    /\ IF Head(rx).ok
       THEN pc' = "done" /\ result' = addrs[Head(rx).index] /\ UNCHANGED <<pending, failed>>
       ELSE /\ pending' = pending - 1 /\ failed' = failed \cup {Head(rx).index}
            /\ IF pending' = 0
               THEN pc' = "failed" /\ result' = "error" ELSE pc' = "loop" /\ UNCHANGED result
    /\ UNCHANGED <<round, stale, addrs, deadline, launched, trying, stagger_over, deadline_over>>

\* Variant: the last failure is counted after the check that ends the race.
Receive_CountsLate ==
    /\ pc = "wait" /\ rx # <<>>
    /\ rx' = Tail(rx)
    /\ IF Head(rx).ok
       THEN pc' = "done" /\ result' = addrs[Head(rx).index] /\ UNCHANGED <<pending, failed>>
       ELSE /\ pending' = pending - 1 /\ failed' = failed \cup {Head(rx).index}
            /\ IF pending = 0 /\ launched = Len(addrs)
               THEN pc' = "failed" /\ result' = "error" ELSE pc' = "loop" /\ UNCHANGED result
    /\ UNCHANGED <<round, stale, addrs, deadline, launched, trying, stagger_over, deadline_over>>

\* A result: the first success wins; the race is lost when all were tried and failed.
Receive ==
    /\ pc = "wait" /\ rx # <<>>
    /\ rx' = Tail(rx)
    /\ IF Head(rx).ok
       THEN pc' = "done" /\ result' = addrs[Head(rx).index] /\ UNCHANGED <<pending, failed>>
       ELSE /\ pending' = pending - 1 /\ failed' = failed \cup {Head(rx).index}
            /\ IF pending' = 0 /\ launched = Len(addrs)
               THEN pc' = "failed" /\ result' = "error" ELSE pc' = "loop" /\ UNCHANGED result
    /\ UNCHANGED <<round, stale, addrs, deadline, launched, trying, stagger_over, deadline_over>>

\* What `wait' waits for beside a result: the next start, or at the end the deadline.
TimerSet == launched < Len(addrs) \/ deadline
WaitIsOver ==
    /\ pc = "wait" /\ rx = <<>>
    /\ IF launched < Len(addrs) THEN stagger_over ELSE deadline /\ deadline_over
    /\ IF deadline /\ deadline_over THEN pc' = "failed" /\ result' = "timeout"
       ELSE pc' = "loop" /\ UNCHANGED result
    /\ UNCHANGED <<round, stale, addrs, deadline, launched, pending, trying, rx, failed, stagger_over, deadline_over>>

\* retry_after_stale: once, for an error that another address may cure, when a
\* new lookup gives other addresses.
Retry(list) ==
    /\ pc = "failed" /\ stale /\ round = 1
    /\ round' = 2 /\ result' = None
    /\ Race(list)
    /\ UNCHANGED <<stale, deadline>>
Fail ==
    /\ pc = "failed"
    /\ pc' = "done"
    /\ UNCHANGED <<round, stale, addrs, deadline, launched, pending, trying, rx, failed, stagger_over, deadline_over, result>>

TimePasses ==
    /\ \/ stagger_over' = TRUE /\ UNCHANGED deadline_over
       \/ deadline /\ deadline_over' = TRUE /\ UNCHANGED stagger_over
    /\ UNCHANGED <<pc, round, stale, addrs, deadline, launched, pending, trying, rx, failed, result>>

Next ==
    \/ Launch \/ Receive \/ WaitIsOver \/ Fail \/ TimePasses
    \/ \E list \in Candidates : Retry(list)
    \/ \E i \in trying, ok \in BOOLEAN : AttemptEnds(i, ok)

Spec == Init /\ [][Next]_vars

-----------------------------------------------------------------------------
(* A connection fails only after every candidate was tried and failed, or  *)
(* after its deadline: one bad family never hides a good one (`run').      *)
FailsForCause ==
    /\ result = "error" => failed = 1 .. Len(addrs)
    /\ result = "timeout" => deadline_over

(* Whenever the race waits, something can end the wait: an attempt, a      *)
(* result that is there already, the next start or the deadline (`wait').  *)
WaitCanEnd == pc = "wait" => pending > 0 \/ TimerSet
PendingAccounted == pc \in {"loop", "wait"} => pending = Cardinality(trying) + Len(rx)

\* The inductive invariant: every attempt that was launched is under way, has sent its result or
\* has failed, and a race that is not over has something to wait for or to launch.
Sent(i) == \E j \in DOMAIN rx : rx[j].index = i

RaceTypes ==
    /\ pc \in {"loop", "wait", "failed", "done"}
    /\ addrs \in Seq(V6 \cup V4) /\ Len(addrs) > 0
    /\ launched \in 0 .. Len(addrs) /\ pending \in Int
    /\ trying \subseteq 1 .. launched /\ failed \subseteq 1 .. launched
    /\ rx \in Seq([index : Nat, ok : BOOLEAN]) /\ \A j \in DOMAIN rx : rx[j].index \in 1 .. launched

RaceInv ==
    /\ RaceTypes /\ FailsForCause /\ WaitCanEnd /\ PendingAccounted
    /\ pc \in {"loop", "wait"} =>
          result = None /\ \A i \in 1 .. launched : i \in trying \/ i \in failed \/ Sent(i)
    /\ pc = "loop" => pending > 0 \/ launched < Len(addrs)
=============================================================================
