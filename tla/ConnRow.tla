------------------------------- MODULE ConnRow --------------------------------
(***************************************************************************)
(* The row of one connection in the table of connections: the thread that  *)
(* serves it, the lot where it is parked and the tick of the history write *)
(* to it, each its own part, pages read it at any moment, and the record   *)
(* of the closed connection is made from it when it is gone.               *)
(* Source: crates/metrics-recent/src/recent/conn_slot.rs, conn_table.rs.   *)
(***************************************************************************)
EXTENDS Integers

CONSTANTS
    Interval,       \* of the tick of the history
    MaxNow,         \* bound of the clock
    MaxBytes,       \* bound of the bytes
    MaxParks,       \* bound of the times it is parked
    None

ConnRowAssumption ==
    /\ Interval \in Nat \ {0} /\ {MaxNow, MaxBytes, MaxParks} \subseteq Nat
    /\ None \notin Nat

VARIABLES
    now,        \* started.elapsed() on the connection's clock
    ticked,     \* when the last tick was; negative before the connection came
    at,         \* who has the connection: "thread", "lot", "queue", "gone"
    on,         \* the table is kept
    listed,     \* the row is in the table
    row,        \* ConnSlot, see Init
    entry,      \* RecentEntry of the closed connection
    real        \* ghost: what really happened: [parks, parked, since, reason, side, moved, targets]

vars == <<now, ticked, at, on, listed, row, entry, real>>

Init ==
    /\ now = 0 /\ ticked \in {0 - Interval + 1, 0} /\ at = "thread" /\ on \in BOOLEAN /\ listed = on
    /\ row = [state |-> "serving", tid |-> TRUE, target |-> None, connect |-> FALSE, bytes |-> 0,
              bytes_prev |-> 0, idle |-> 0, close |-> None, half |-> None, parks |-> 0,
              parked |-> 0, parked_at |-> None, requests |-> 0]
    /\ entry = None
    /\ real = [parks |-> 0, parked |-> 0, since |-> None, reason |-> None, side |-> None, moved |-> 0,
               first |-> None]

Set(r, f, v) == [r EXCEPT ![f] = v]
unlisted == <<ticked, on, listed, entry>>

\* Bound: a tick is never late.
Pass ==
    /\ now < MaxNow /\ now' = now + 1
    /\ now' - ticked <= Interval
    /\ UNCHANGED <<ticked, at, on, listed, row, entry, real>>

-----------------------------------------------------------------------------
(* The thread.                                                             *)

Moved(r, n) == IF r.bytes = n THEN real ELSE [real EXCEPT !.moved = now]

\* A request and its answer: set_first_target, and set_bytes before the next one is awaited.
Request ==
    /\ at = "thread" /\ ~ row.connect /\ row.requests < 2
    /\ \E n \in row.bytes .. MaxBytes :
        /\ row' = [row EXCEPT !.target = IF @ = None THEN "http" ELSE @, !.bytes = n, !.requests = @ + 1]
        /\ real' = [Moved(row, n) EXCEPT !.first = IF @ = None THEN "http" ELSE @]
    /\ UNCHANGED <<now, at>> /\ UNCHANGED unlisted

\* begin_tunnel, or failed_tunnel, after which the connection ends.
Tunnel ==
    /\ at = "thread" /\ ~ row.connect
    /\ row' = [row EXCEPT !.target = "tunnel", !.connect = TRUE, !.state = "relaying"]
    /\ real' = [real EXCEPT !.first = "tunnel"]
    /\ UNCHANGED <<now, at>> /\ UNCHANGED unlisted

\* set_relaying: what went through, when the tunnel has to wait.
Relays ==
    /\ at = "thread" /\ row.connect
    /\ \E n \in row.bytes .. MaxBytes : row' = Set(row, "bytes", n) /\ real' = Moved(row, n)
    /\ UNCHANGED <<now, at>> /\ UNCHANGED unlisted

HalfClose_Last ==       \* a variant: the side that ended last
    /\ at = "thread" /\ row.connect
    /\ \E side \in {"client", "origin"} :
        /\ row' = Set(row, "half", <<side, now>>)
        /\ real' = IF real.side = None THEN [real EXCEPT !.side = <<side, now>>] ELSE real
    /\ UNCHANGED <<now, at>> /\ UNCHANGED unlisted

\* set_half_closed: the side that ends first, by compare_exchange.
HalfClose ==
    /\ at = "thread" /\ row.connect
    /\ \E side \in {"client", "origin"} :
        /\ row' = IF row.half = None THEN Set(row, "half", <<side, now>>) ELSE row
        /\ real' = IF real.side = None THEN [real EXCEPT !.side = <<side, now>>] ELSE real
    /\ UNCHANGED <<now, at>> /\ UNCHANGED unlisted

\* Under the lock of the lot: set_state, clear_tid, on_park.
Park ==
    /\ at = "thread" /\ row.parks < MaxParks /\ (row.connect => row.half = None)
    /\ at' = "lot"
    /\ row' = [row EXCEPT !.state = "parked", !.tid = FALSE, !.parks = @ + 1, !.parked_at = now]
    /\ real' = [real EXCEPT !.parks = @ + 1, !.since = now]
    /\ UNCHANGED now /\ UNCHANGED unlisted

\* park_now of an HTTP connection that the lot refuses.
ParkRefused ==
    /\ at = "thread" /\ ~ row.connect /\ row' = Set(row, "state", "reading")
    /\ UNCHANGED <<now, at, real>> /\ UNCHANGED unlisted

-----------------------------------------------------------------------------
(* The lot.                                                                *)

Unpark_KeepsStart(r) == [r EXCEPT !.parked = @ + (now - r.parked_at)]   \* a variant: no swap

\* on_unpark: the start is taken out, so that a second one adds nothing.
Unpark(r) ==
    IF r.parked_at = None THEN r ELSE [r EXCEPT !.parked = @ + (now - r.parked_at), !.parked_at = None]

Outside == [real EXCEPT !.parked = @ + (now - real.since), !.since = None]

\* take, resume_conn, resume_tunnel.
Wake ==
    /\ at = "lot" /\ at' = "queue"
    /\ row' = Set(Unpark(row), "state", "queued") /\ real' = Outside
    /\ UNCHANGED now /\ UNCHANGED unlisted

\* run_conn, tunnel::resume.
Resume ==
    /\ at = "queue" /\ at' = "thread"
    /\ row' = [row EXCEPT !.state = IF row.connect THEN "relaying" ELSE "serving", !.tid = TRUE]
    /\ UNCHANGED <<now, real>> /\ UNCHANGED unlisted

Close_Last(r, reason) == Set(r, "close", reason)    \* a variant: whoever comes last

\* set_close: the first reason stays.
Close(r, reason) == IF r.close = None THEN Set(r, "close", reason) ELSE r

Told(g, reason) == IF g.reason = None THEN [g EXCEPT !.reason = reason] ELSE g

\* Evicted, expired, or the watch stops: whoever holds it only closes it.
TakeOut ==
    /\ at = "lot" /\ at' = "ending"
    /\ \E reason \in {"evicted", "expired", "shutdown"} :
        row' = Close(Unpark(row), reason) /\ real' = Told(Outside, reason)
    /\ UNCHANGED now /\ UNCHANGED unlisted

\* finish, from wherever it was lost: the thread says why, unless somebody has.
Finish ==
    /\ at \in {"thread", "ending"} /\ at' = "finished"
    /\ row' = Close(row, "done") /\ real' = Told(real, "done")
    /\ UNCHANGED now /\ UNCHANGED unlisted

\* No thread can be had for it: it is dropped as it is.
Lost ==
    /\ at = "queue" /\ at' = "finished" /\ UNCHANGED <<now, row, real>> /\ UNCHANGED unlisted

\* closed_entry: the record of a connection that was used; a stay in the lot that has not ended counts.
ClosedEntry(r) ==
    IF r.target = None THEN None
    ELSE [target |-> r.target, reason |-> r.close, parks |-> r.parks, half |-> r.half,
          parked |-> r.parked + (IF r.parked_at = None THEN 0 ELSE now - r.parked_at)]

\* ActiveGuard::drop: unregister, and the record of a row that was in the table.
Unregister ==
    /\ at = "finished" /\ at' = "gone" /\ listed' = FALSE
    /\ entry' = IF on /\ listed THEN ClosedEntry(row) ELSE None
    /\ UNCHANGED <<now, ticked, on, row, real>>

-----------------------------------------------------------------------------

\* update_rates: bytes since the last tick, and how long nothing has moved.
Tick_KeepsPrev ==       \* a variant: what was seen is not noted
    /\ now - ticked > 0 /\ ticked' = now
    /\ row' = IF ~ listed THEN row
              ELSE [row EXCEPT !.idle = IF row.bytes = row.bytes_prev THEN @ + (now - ticked) ELSE 0]
    /\ UNCHANGED <<now, at, on, listed, entry, real>>

Tick ==
    /\ now - ticked > 0 /\ ticked' = now
    /\ row' = IF ~ listed THEN row
              ELSE [row EXCEPT !.bytes_prev = row.bytes,
                               !.idle = IF row.bytes = row.bytes_prev THEN @ + (now - ticked) ELSE 0]
    /\ UNCHANGED <<now, at, on, listed, entry, real>>

\* set_enabled: without the table there are no rows.
Switch ==
    /\ on' = ~ on /\ listed' = (listed /\ ~ on)
    /\ UNCHANGED <<now, ticked, at, row, entry, real>>

Next ==
    \/ Pass \/ Request \/ Tunnel \/ Relays \/ HalfClose \/ Park \/ ParkRefused \/ Wake \/ Resume
    \/ TakeOut \/ Finish \/ Lost \/ Unregister \/ Tick \/ Switch

Spec == Init /\ [][Next]_vars

-----------------------------------------------------------------------------
(* Properties.                                                             *)

\* What is shown of a connection fits whoever has it: it is parked if and only if the lot has it,
\* and then no thread is named.
RowIsCurrent ==
    /\ at = "lot" <=> row.parked_at # None
    /\ at = "lot" => row.state = "parked" /\ ~ row.tid
    /\ at = "thread" => row.tid /\ row.state \notin {"parked", "queued"}

\* The record of a closed connection tells what happened: who ended it first, which side of a tunnel
\* was the first to be silent and when, and how often and how long it was parked, however it went
\* back and forth between threads and lot.
EntryIsTrue ==
    entry # None =>
        /\ entry.reason = real.reason /\ entry.half = real.side /\ entry.target = real.first
        /\ entry.parks = real.parks /\ entry.parked = real.parked

\* At a tick, the time without a byte is right but for the tick in which the last one moved and the one
\* in which the connection came (`sweep_rate' adds whole intervals, for a new connection too).
IdleIsReal ==
    listed /\ now = ticked /\ real.moved < now =>
        LET silent == now - real.moved IN
        /\ row.idle <= silent + (IF real.moved = 0 THEN Interval ELSE 0)
        /\ row.idle >= silent - Interval

-----------------------------------------------------------------------------
(* What is inductive.                                                      *)

Reasons == {"evicted", "expired", "shutdown", "done"}
Sides == {"client", "origin"} \X Nat

Rows ==
    [state : {"serving", "relaying", "parked", "reading", "queued"}, tid : BOOLEAN,
     target : {None, "http", "tunnel"}, connect : BOOLEAN, bytes : Nat, bytes_prev : Nat,
     idle : Int, close : {None} \cup Reasons, half : {None} \cup Sides, parks : Nat,
     parked : Nat, parked_at : {None} \cup Nat, requests : Nat]

Reals ==
    [parks : Nat, parked : Nat, since : {None} \cup Nat, reason : {None} \cup Reasons,
     side : {None} \cup Sides, moved : Nat, first : {None, "http", "tunnel"}]

RowTypes ==
    /\ now \in Nat /\ ticked \in Int /\ on \in BOOLEAN /\ listed \in BOOLEAN
    /\ at \in {"thread", "lot", "queue", "ending", "finished", "gone"}
    /\ row \in Rows /\ real \in Reals

\* The row tells what happened at any moment, not only in the record of the closed connection.
RowTells ==
    /\ row.close = real.reason /\ row.half = real.side /\ row.target = real.first
    /\ row.parks = real.parks /\ row.parked = real.parked /\ row.parked_at = real.since
    /\ row.parked_at # None => row.parked_at <= now

\* The time without a byte is right at the last tick, while none has moved since.
RateFits ==
    /\ ticked <= now /\ now - ticked <= Interval
    /\ row.bytes_prev <= row.bytes /\ real.moved <= now
    /\ listed /\ row.bytes = row.bytes_prev =>
          /\ row.idle <= ticked - real.moved + (IF real.moved = 0 THEN Interval ELSE 0)
          /\ row.idle >= ticked - real.moved - Interval
    /\ listed /\ row.bytes # row.bytes_prev => real.moved >= ticked

RowInv ==
    /\ RowTypes /\ RowIsCurrent /\ RowTells /\ RateFits
    /\ EntryIsTrue /\ (entry # None => at = "gone")

=============================================================================
