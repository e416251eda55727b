----------------------------- MODULE NotStored -----------------------------
(***************************************************************************)
(* The keys that are known not to be stored (crates/cachemem/notstored.rs) *)
(* two Bloom filters, the current one and the one before it, read without  *)
(* a lock and turned over when their time has come or the current one is   *)
(* full.  A filter is the set of the keys that it says yes to; a key that  *)
(* is put in may bring another with it.                                    *)
(***************************************************************************)
EXTENDS Integers, FiniteSets

CONSTANTS
    Threads,
    Keys,
    Period,         \* PROXY_CACHE_TTL_SECS, clamped
    RotateAfter,    \* ROTATE_AFTER
    MaxNow,         \* bound of the clock
    Start,          \* epoch seconds are not 0
    None

NotStoredAssumption ==
    /\ {Period, RotateAfter, Start} \subseteq Nat \ {0} /\ MaxNow \in Nat /\ MaxNow >= Start
    /\ None \notin Threads /\ None \notin Nat

VARIABLES
    filters, current, rotate_at,    \* NotStored
    inserted, holder,               \* the count, and who holds its lock
    now,
    op,                             \* what each thread is doing
    since                           \* ghost: when each key was remembered last, None after a period

vars == <<filters, current, rotate_at, inserted, holder, now, op, since>>
Idle == [pc |-> "idle", key |-> None, now |-> 0, adds |-> FALSE]

Init ==
    /\ filters = [i \in 0 .. 1 |-> {}] /\ current = 0 /\ rotate_at = 0
    /\ inserted = 0 /\ holder = None
    /\ now = Start
    /\ op = [t \in Threads |-> Idle]
    /\ since = [k \in Keys |-> None]

Known(k) == k \in filters[0] \cup filters[1]
Go(t, pc) == op' = [op EXCEPT ![t].pc = pc]
Done(t) == op' = [op EXCEPT ![t] = Idle]
\* A key that goes into a filter; its two bits may complete another key's.
Brings(k) == {{k}} \cup {{k, x} : x \in Keys}

-----------------------------------------------------------------------------
(* The time is the caller's: read before, and late when the lock is taken. *)

\* `contains', up to `rotate': a stopped clock says no at once.
Contains(t) ==
    /\ op[t].pc = "idle" /\ rotate_at # 0 /\ now >= rotate_at
    /\ op' = [op EXCEPT ![t] = [pc |-> "rotate", key |-> None, now |-> now, adds |-> FALSE]]
    /\ UNCHANGED <<filters, current, rotate_at, inserted, holder, now, since>>

\* `remember', up to its lock.
Remember(t, k) ==
    /\ op[t].pc = "idle"
    /\ op' = [op EXCEPT ![t] = [pc |-> "remember", key |-> k, now |-> now, adds |-> TRUE]]
    /\ UNCHANGED <<filters, current, rotate_at, inserted, holder, now, since>>

\* Variant: `rotate' does not look at the time again under the lock.
LockToRotate_Unchecked(t) ==
    /\ op[t].pc = "rotate" /\ holder = None
    /\ holder' = t /\ Go(t, "clear")
    /\ UNCHANGED <<filters, current, rotate_at, inserted, now, since>>

LockToRotate(t) ==
    /\ op[t].pc = "rotate" /\ holder = None
    /\ IF rotate_at # 0 /\ op[t].now >= rotate_at
       THEN holder' = t /\ Go(t, "clear")
       ELSE Done(t) /\ UNCHANGED holder
    /\ UNCHANGED <<filters, current, rotate_at, inserted, now, since>>

\* A full filter is turned over before its time: nothing is promised then.
LockToRemember(t) ==
    /\ op[t].pc = "remember" /\ holder = None
    /\ holder' = t
    /\ LET due == op[t].now >= rotate_at IN
       /\ Go(t, IF rotate_at # 0 /\ (due \/ inserted >= RotateAfter) THEN "clear" ELSE "add")
       /\ since' = IF rotate_at # 0 /\ ~due /\ inserted >= RotateAfter THEN [k \in Keys |-> None] ELSE since
    /\ UNCHANGED <<filters, current, rotate_at, inserted, now>>

\* rotate_locked: the filter before the last is emptied and becomes the current one.
Clear(t) ==
    /\ op[t].pc = "clear"
    /\ filters' = [filters EXCEPT ![1 - current] = {}]
    /\ Go(t, "switch")
    /\ UNCHANGED <<current, rotate_at, inserted, holder, now, since>>

\* Variant: the clock stops one turn early, when the filter that was emptied held nothing.
Switch_StopsEarly(t) ==
    /\ op[t].pc = "switch"
    /\ current' = 1 - current /\ inserted' = 0
    /\ rotate_at' = IF filters[1 - current] = {} THEN 0 ELSE op[t].now + Period
    /\ IF op[t].adds THEN Go(t, "add") /\ UNCHANGED holder ELSE Done(t) /\ holder' = None
    /\ UNCHANGED <<filters, now, since>>

\* With nothing in either filter the clock stops.
Switch(t) ==
    /\ op[t].pc = "switch"
    /\ current' = 1 - current /\ inserted' = 0
    /\ rotate_at' = IF inserted = 0 THEN 0 ELSE op[t].now + Period
    /\ IF op[t].adds THEN Go(t, "add") /\ UNCHANGED holder ELSE Done(t) /\ holder' = None
    /\ UNCHANGED <<filters, now, since>>

\* The rest of `remember'.
Add(t) ==
    /\ op[t].pc = "add"
    /\ IF op[t].key \in filters[current]
       THEN UNCHANGED <<filters, inserted, rotate_at>>
       ELSE /\ \E ks \in Brings(op[t].key) : filters' = [filters EXCEPT ![current] = @ \cup ks]
            /\ inserted' = inserted + 1
            /\ rotate_at' = IF rotate_at = 0 THEN op[t].now + Period ELSE rotate_at
    /\ since' = [since EXCEPT ![op[t].key] = op[t].now]
    /\ Done(t) /\ holder' = None
    /\ UNCHANGED <<current, now>>

-----------------------------------------------------------------------------
Tick ==
    /\ now < MaxNow
    /\ now' = now + 1
    /\ since' = [k \in Keys |-> IF since[k] # None /\ since[k] + Period <= now' THEN None ELSE since[k]]
    /\ UNCHANGED <<filters, current, rotate_at, inserted, holder, op>>

Next ==
    \/ \E t \in Threads : \/ Contains(t) \/ LockToRotate(t) \/ LockToRemember(t)
                          \/ Clear(t) \/ Switch(t) \/ Add(t)
                          \/ \E k \in Keys : Remember(t, k)
    \/ Tick

Spec == Init /\ [][Next]_vars

-----------------------------------------------------------------------------
(* With the clock stopped `contains' answers no without a look, so nothing *)
(* may be in the filters then, and nothing may stay for ever: the clock    *)
(* runs whenever a filter holds a key and nobody is turning it.            *)
ClockRunsWhileFull ==
    holder = None => (rotate_at = 0 <=> filters[0] \cup filters[1] = {})

(* A key that was found not to be stored is known for a whole period from  *)
(* then, whoever turns the filters over and however late, unless a filter  *)
(* filled up; or every request for it would wait for a leader in vain      *)
(* (the two filters of `rotate_locked').                                   *)
KnownForAPeriod ==
    \A k \in Keys : since[k] # None /\ now < since[k] + Period => Known(k)

\* The inductive invariant.  A key that still counts is in the current filter, and was remembered
\* before its turn is due, or in the other one, and has had its period when the next turn is due;
\* whoever turns the filters over does so when that is due, or no key counts.
Counts(k) == since[k] # None /\ now < since[k] + Period
Full == filters[0] \cup filters[1] # {}
Other == filters[1 - current]

FiltersTypes ==
    /\ filters \in [0 .. 1 -> SUBSET Keys] /\ current \in 0 .. 1
    /\ {rotate_at, inserted, now} \subseteq Nat /\ now > 0
    /\ holder \in Threads \cup {None}
    /\ op \in [Threads -> [pc : {"idle", "rotate", "remember", "clear", "switch", "add"},
                           key : Keys \cup {None}, now : Nat, adds : BOOLEAN]]
    /\ since \in [Keys -> Nat \cup {None}]

TurnIsDue(t) == op[t].now >= rotate_at \/ \A k \in Keys : since[k] = None

FiltersInv ==
    /\ FiltersTypes
    /\ inserted = 0 <=> filters[current] = {}
    /\ rotate_at = 0 => ~Full
    /\ ~Full => rotate_at = 0 \/ \E t \in Threads : op[t].pc = "switch"
    /\ \A k \in Keys : Counts(k) =>
          \/ k \in filters[current] /\ since[k] < rotate_at
          \/ k \in Other /\ since[k] + Period <= rotate_at
    /\ \A t \in Threads :
          /\ op[t].pc \in {"clear", "switch", "add"} <=> holder = t
          /\ op[t].now <= now
          /\ op[t].pc \in {"remember", "add"} \/ op[t].adds => op[t].key \in Keys
          /\ op[t].pc \in {"clear", "switch"} => rotate_at # 0 /\ TurnIsDue(t)
          /\ op[t].pc = "switch" => Other = {}
          /\ op[t].pc = "add" => rotate_at = 0 \/ op[t].now < rotate_at
=============================================================================
