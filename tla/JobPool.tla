------------------------------- MODULE JobPool -------------------------------
(***************************************************************************)
(* What `Workers' promises its callers about a job, without any thread: it *)
(* is accepted or given back, an accepted one runs at most once, and jobs  *)
(* that have to wait leave the waiting line in the order they joined it.   *)
(* "dropped" stands for the accepted jobs the pool loses (no thread can be *)
(* created any more, or the receiver went away under the job).             *)
(***************************************************************************)
EXTENDS Sequences, Naturals

CONSTANT Jobs

VARIABLES status,   \* what has become of each job
          waiting   \* the accepted jobs in the waiting line

Finished == {"new", "done", "returned", "dropped"}

Init == /\ status = [j \in Jobs |-> "new"]
        /\ waiting = <<>>

Become(j, from, to) == status[j] \in from /\ status' = [status EXCEPT ![j] = to]

Offer(j) == Become(j, Finished, "offered") /\ UNCHANGED waiting
GiveBack(j) == Become(j, {"offered"}, "returned") /\ UNCHANGED waiting
Accept(j) == Become(j, {"offered"}, "accepted") /\ waiting' \in {waiting, Append(waiting, j)}
RunOutside(j) == Become(j, {"offered"}, "running") /\ UNCHANGED waiting
Run(j) == /\ j \notin {waiting[i] : i \in DOMAIN waiting}
          /\ Become(j, {"accepted"}, "running")
          /\ UNCHANGED waiting
End(j) == Become(j, {"running"}, "done") /\ UNCHANGED waiting
Drop(j) == /\ j \notin {waiting[i] : i \in DOMAIN waiting}
           /\ Become(j, {"accepted"}, "dropped")
           /\ UNCHANGED waiting

\* The first of the line leaves it: to a thread that runs it at once, or to
\* one that is being created for it.
Leave == /\ waiting # <<>>
         /\ waiting' = Tail(waiting)
         /\ \/ UNCHANGED status
            \/ Become(Head(waiting), {"accepted"}, "running")

Next == \/ \E j \in Jobs : \/ Offer(j) \/ GiveBack(j) \/ Accept(j) \/ RunOutside(j)
                           \/ Run(j) \/ End(j) \/ Drop(j)
        \/ Leave

Spec == Init /\ [][Next]_<<status, waiting>>
=============================================================================
