------------------------------- MODULE Bursts --------------------------------
(***************************************************************************)
(* The picture that is taken when many connections are open at once: the   *)
(* accepting thread asks for it with atomics only, the history thread      *)
(* takes it every five seconds, and asks are ignored until the hill is     *)
(* over.  Sources: crates/metrics-recent/src/recent/burst.rs,              *)
(* crates/metrics-core/src/metrics/records.rs, crates/server/src/lib.rs.   *)
(***************************************************************************)
EXTENDS Integers

CONSTANTS
    Thresholds,     \* burst_at before and after a reload
    MaxOpen,        \* bound of the open connections
    MaxShots,       \* bound of the pictures
    None

BurstsAssumption ==
    /\ Thresholds \subseteq 1 .. MaxOpen /\ {MaxOpen, MaxShots} \subseteq Nat
    /\ None \notin [at : {"seen", "taken", "set"}, n : Nat]

VARIABLES
    burst_at,   \* Config.burst_at
    open,       \* Limiter.open
    active,     \* Metrics.active_connections: those of them that have begun
    armed, pending, threshold,
    accepting,  \* how far request is: None, "seen", "taken", "set", with the number it saw
    history,    \* what take_burst_shot has read: None, or [active, at]
    shots,      \* BurstRing.total
    hill        \* ghost: pictures since the connections were last few, in both counters

vars == <<burst_at, open, active, armed, pending, threshold, accepting, history, shots, hill>>

Init ==
    /\ burst_at \in Thresholds
    /\ open = 0 /\ active = 0
    /\ armed = TRUE /\ pending = 0 /\ threshold = 0
    /\ accepting = None /\ history = None /\ shots = 0 /\ hill = 0

-----------------------------------------------------------------------------
(* The accepting thread.                                                   *)

\* spawn_connection: the connection counts as open; above the threshold request is called,
\* which looks at the flag first.
Accept ==
    /\ accepting = None /\ open < MaxOpen
    /\ open' = open + 1
    /\ accepting' = IF open + 1 > burst_at /\ armed THEN [at |-> "seen", n |-> open + 1] ELSE None
    /\ UNCHANGED <<burst_at, active, armed, pending, threshold, history, shots, hill>>

Claim ==
    /\ accepting # None /\ accepting.at = "seen"
    /\ armed' = FALSE
    /\ accepting' = IF armed THEN [accepting EXCEPT !.at = "taken"] ELSE None
    /\ UNCHANGED <<burst_at, open, active, pending, threshold, history, shots, hill>>

\* A variant: only a threshold that changed is stored, and 0 is taken for none.
StoreThreshold_OnChange ==
    /\ accepting # None /\ accepting.at = "taken"
    /\ threshold' = IF threshold = 0 THEN 0 ELSE burst_at
    /\ accepting' = [accepting EXCEPT !.at = "set"]
    /\ UNCHANGED <<burst_at, open, active, armed, pending, history, shots, hill>>

StoreThreshold ==
    /\ accepting # None /\ accepting.at = "taken"
    /\ threshold' = burst_at
    /\ accepting' = [accepting EXCEPT !.at = "set"]
    /\ UNCHANGED <<burst_at, open, active, armed, pending, history, shots, hill>>

StorePending ==
    /\ accepting # None /\ accepting.at = "set"
    /\ pending' = accepting.n
    /\ accepting' = None
    /\ UNCHANGED <<burst_at, open, active, armed, threshold, history, shots, hill>>

\* Conn::new, and the end of a connection: OpenGuard and ActiveGuard are dropped.
Begin ==
    /\ active < open - (IF accepting = None THEN 0 ELSE 1)
    /\ active' = active + 1
    /\ UNCHANGED <<burst_at, open, armed, pending, threshold, accepting, history, shots, hill>>

Calm(n, limit) == n * 100 < limit * 80

End ==
    /\ active > 0
    /\ active' = active - 1 /\ open' = open - 1
    /\ hill' = IF accepting = None /\ threshold # 0 /\ Calm(open - 1, threshold) THEN 0 ELSE hill
    /\ UNCHANGED <<burst_at, armed, pending, threshold, accepting, history, shots>>

\* A reload, which the accepting thread sees with the next connection.
Reload ==
    /\ accepting = None
    /\ burst_at' \in Thresholds \ {burst_at}
    /\ UNCHANGED <<open, active, armed, pending, threshold, accepting, history, shots, hill>>

-----------------------------------------------------------------------------
(* The history thread: take_burst_shot.                                    *)

ReadActive ==
    /\ history = None
    /\ history' = [active |-> active, at |-> "read"]
    /\ UNCHANGED <<burst_at, open, active, armed, pending, threshold, accepting, shots, hill>>

\* take_pending: a picture that was asked for is taken of the table as it is now.
TakePending ==
    /\ history # None /\ history.at = "read"
    /\ shots < MaxShots
    /\ pending' = 0
    /\ IF pending # 0
       THEN shots' = shots + 1 /\ hill' = hill + 1 /\ history' = None
       ELSE UNCHANGED <<shots, hill>> /\ history' = [history EXCEPT !.at = "none asked"]
    /\ UNCHANGED <<burst_at, open, active, armed, threshold, accepting>>

\* The number of connections that decides is the one that was read first.
RearmIfCalm ==
    /\ history # None /\ history.at = "none asked"
    /\ IF threshold # 0 /\ pending = 0 /\ Calm(history.active, threshold)
       THEN armed' = TRUE ELSE UNCHANGED armed
    /\ history' = None
    /\ UNCHANGED <<burst_at, open, active, pending, threshold, accepting, shots, hill>>

Next ==
    \/ Accept \/ Claim \/ StoreThreshold \/ StorePending \/ Begin \/ End \/ Reload
    \/ ReadActive \/ TakePending \/ RearmIfCalm

Spec == Init /\ [][Next]_vars

-----------------------------------------------------------------------------
(* Properties.                                                             *)

\* A flag that is down comes up again once the connections are few: somebody is about to ask
\* for the picture, or it has been asked for, or the number to compare with is known
\* (rearm_if_calm returns at once while threshold is 0).
FlagComesBack == ~ armed => accepting # None \/ pending # 0 \/ threshold # 0

\* What burst.rs says: one picture for one hill.  The number the history thread compares is
\* read before it looks whether a picture was asked for, and counts the connections that have
\* begun, not those that are open.
OneShotPerHill == hill <= 1

-----------------------------------------------------------------------------
(* What is inductive.                                                      *)

BurstsTypes ==
    /\ burst_at \in Thresholds /\ armed \in BOOLEAN /\ threshold \in Nat
    /\ open \in Nat /\ active \in Nat /\ active <= open
    /\ accepting \in {None} \cup [at : {"seen", "taken", "set"}, n : Nat]

\* Only the accepting thread takes the flag down, and it stores the threshold before it is
\* through, which is not taken back.
BurstsInv ==
    /\ BurstsTypes
    /\ accepting # None /\ accepting.at = "seen" => armed
    /\ accepting # None /\ accepting.at = "set" => threshold # 0
    /\ ~ armed => accepting # None \/ threshold # 0

=============================================================================
