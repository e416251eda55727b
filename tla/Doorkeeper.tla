----------------------------- MODULE Doorkeeper -----------------------------
(***************************************************************************)
(* The doorkeeper of the cache (crates/cachemem/admission.rs): a key is    *)
(* let in the second time it comes.  Two Bloom filters, each the set of    *)
(* the keys that it says yes to, turned over by the number of new keys.    *)
(***************************************************************************)
EXTENDS Integers

CONSTANTS Keys, RotateAfter, None

DoorkeeperAssumption == RotateAfter \in Nat \ {0} /\ None \notin Nat

VARIABLES
    door,
    after       \* ghost: the new keys met after each key, None when it was not met or too many came

vars == <<door, after>>

Init ==
    /\ door = [current |-> {}, previous |-> {}, inserted |-> 0]
    /\ after = [k \in Keys |-> None]

SeenBefore(k) == k \in door.current \cup door.previous
\* A key that goes into a filter; its two bits may complete another key's.
Brings(k) == {{k, x} : x \in Keys}
Met(k) == after' = [x \in Keys |-> IF x = k THEN 0
                                  ELSE IF after[x] \in 0 .. RotateAfter - 2 THEN after[x] + 1 ELSE None]

\* Variant: both filters go when the current one is full.
Seen_ForgetsBoth(k) ==
    /\ ~SeenBefore(k)
    /\ \E ks \in Brings(k) :
          door' = IF door.inserted + 1 >= RotateAfter
                  THEN [current |-> {}, previous |-> {}, inserted |-> 0]
                  ELSE [door EXCEPT !.current = @ \cup ks, !.inserted = @ + 1]
    /\ Met(k)

\* `seen' of a key that is new; of another it changes nothing.
Seen(k) ==
    /\ ~SeenBefore(k)
    /\ \E ks \in Brings(k) :
          door' = IF door.inserted + 1 >= RotateAfter
                  THEN [current |-> {}, previous |-> door.current \cup ks, inserted |-> 0]
                  ELSE [door EXCEPT !.current = @ \cup ks, !.inserted = @ + 1]
    /\ Met(k)

Next == \E k \in Keys : Seen(k)
Spec == Init /\ [][Next]_vars

(* The doorkeeper lets a key in when it comes again before RotateAfter     *)
(* others came: at worst it moved to the previous filter in between.       *)
SecondTimeIsSeen == \A k \in Keys : after[k] # None => SeenBefore(k)

\* The inductive invariant: a key that was met is in the current filter, or in the previous one with
\* no more new keys after the turn than after itself.
DoorInv ==
    /\ door \in [current : SUBSET Keys, previous : SUBSET Keys, inserted : Nat]
    /\ after \in [Keys -> Nat \cup {None}]
    /\ \A k \in Keys : after[k] # None =>
          /\ after[k] <= RotateAfter - 1
          /\ k \in door.current \/ (k \in door.previous /\ door.inserted <= after[k])
=============================================================================
