------------------------------- MODULE Tunnel -------------------------------
(***************************************************************************)
(* One CONNECT tunnel (crates/tunnel/src/tunnel): opened to the origin,    *)
(* then relayed both ways by one thread over non-blocking sockets.  Each   *)
(* direction reads a chunk, writes it out before the next, and passes the  *)
(* end on when it came; a tunnel that stays quiet is parked without its    *)
(* pipes and thread.  Direction d reads side d and writes side 1 - d: 0 is *)
(* the client, 1 the origin.  A byte counts, its value does not.           *)
(***************************************************************************)
EXTENDS Integers

CONSTANTS MaxBytes    \* what each peer sends at most

TunnelAssumption == MaxBytes \in Nat

Sides == {0, 1}
Other(s) == 1 - s

VARIABLES
    pc,         \* "open", "refused", "fill", "drain", "finish", "poll", "idle", "parked", "closed"
    dir,        \* the direction that is pumped
    moving,     \* something moved since both directions were last pumped
    pending, readable, src_eof, done,   \* Dir, by direction
    parks, waits, guarded,              \* a tunnel may be parked, end by idle time, end by its rate
    sent, inbox, fin, broken, room,     \* the peers, by side: sent, not yet read, ended, gone, takes more
    moved, dropped,                     \* ghost, by direction: delivered, and lost with the peer
    shut                                \* sides that were told the end

vars == <<pc, dir, moving, pending, readable, src_eof, done, parks, waits, guarded,
          sent, inbox, fin, broken, room, moved, dropped, shut>>
peers == <<sent, inbox, fin, broken, room>>
dirs == <<pending, readable, src_eof, done>>
conf == <<parks, waits, guarded>>
ghost == <<moved, dropped>>

Init ==
    /\ pc = "open" /\ dir = 0 /\ moving = FALSE
    /\ pending = [d \in Sides |-> 0] /\ readable = [d \in Sides |-> FALSE]
    /\ src_eof = [d \in Sides |-> FALSE] /\ done = [d \in Sides |-> FALSE]
    /\ parks \in BOOLEAN /\ waits \in BOOLEAN /\ guarded \in BOOLEAN
    /\ sent = [s \in Sides |-> 0] /\ inbox = [s \in Sides |-> 0]
    /\ fin = [s \in Sides |-> FALSE] /\ broken = [s \in Sides |-> FALSE] /\ room = [s \in Sides |-> TRUE]
    /\ moved = [d \in Sides |-> 0] /\ dropped = [d \in Sides |-> 0]
    /\ shut = {}

-----------------------------------------------------------------------------
(* The peers.                                                              *)

PeerSends(s) ==
    /\ sent[s] < MaxBytes /\ ~fin[s] /\ ~broken[s]
    /\ sent' = [sent EXCEPT ![s] = @ + 1] /\ inbox' = [inbox EXCEPT ![s] = @ + 1]
    /\ UNCHANGED <<pc, dir, moving, dirs, conf, fin, broken, room, ghost, shut>>
PeerEnds(s) ==
    /\ ~broken[s]
    /\ \/ ~fin[s] /\ fin' = [fin EXCEPT ![s] = TRUE] /\ UNCHANGED <<inbox, broken>>
       \/ broken' = [broken EXCEPT ![s] = TRUE] /\ UNCHANGED <<inbox, fin>>
    /\ UNCHANGED <<pc, dir, moving, dirs, conf, sent, room, ghost, shut>>
PeerReads(s) ==
    /\ ~room[s] /\ room' = [room EXCEPT ![s] = TRUE]
    /\ UNCHANGED <<pc, dir, moving, dirs, conf, sent, inbox, fin, broken, ghost, shut>>

-----------------------------------------------------------------------------
(* open and start: the client hears 200 before anything is relayed; what   *)
(* came with its request goes to the origin first.                         *)

Open ==
    /\ pc = "open"
    /\ \/ pc' = "refused" /\ UNCHANGED <<sent, moved>>
       \/ /\ pc' = "fill"
          /\ \E prefix \in 0 .. 1 :
               /\ prefix <= MaxBytes - sent[0]
               /\ sent' = [sent EXCEPT ![0] = @ + prefix] /\ moved' = [moved EXCEPT ![0] = @ + prefix]
    /\ UNCHANGED <<dir, moving, dirs, conf, inbox, fin, broken, room, dropped, shut>>

-----------------------------------------------------------------------------
(* Dir::pump, for one direction after the other.                           *)

\* `fill': a chunk, the end, nothing yet, an error, or a pipe that the system does not splice
\* (then a buffer takes its place, and the next poll tells whether there is something to read).
Fill ==
    LET d == dir
        reads == ~done[d] /\ ~src_eof[d] /\ pending[d] = 0 /\ readable[d]
    IN
    /\ pc = "fill"
    /\ pc' = "drain"
    /\ \/ /\ reads /\ inbox[d] > 0 /\ ~broken[d]
          /\ \E n \in 1 .. inbox[d] :
               pending' = [pending EXCEPT ![d] = n] /\ inbox' = [inbox EXCEPT ![d] = @ - n]
          /\ moving' = TRUE /\ UNCHANGED <<readable, src_eof>>
       \/ /\ reads /\ (broken[d] \/ (fin[d] /\ inbox[d] = 0))
          /\ src_eof' = [src_eof EXCEPT ![d] = TRUE]
          /\ moving' = TRUE /\ UNCHANGED <<readable, pending, inbox>>
       \/ /\ reads
          /\ readable' = [readable EXCEPT ![d] = FALSE]
          /\ UNCHANGED <<moving, pending, src_eof, inbox>>
       \/ ~reads /\ UNCHANGED <<moving, pending, readable, src_eof, inbox>>
    /\ UNCHANGED <<dir, done, conf, sent, fin, broken, room, ghost, shut>>

\* `drain' until the chunk is out, the socket is full, or its peer is gone.
Drain ==
    LET d == dir
        to == Other(dir)
    IN
    /\ pc = "drain"
    /\ \/ /\ pending[d] > 0 /\ broken[to]
          /\ dropped' = [dropped EXCEPT ![d] = @ + pending[d]]
          /\ pending' = [pending EXCEPT ![d] = 0]
          /\ src_eof' = [src_eof EXCEPT ![d] = TRUE]
          /\ moving' = TRUE /\ pc' = "finish"
          /\ UNCHANGED <<room, moved>>
       \/ /\ pending[d] > 0 /\ ~broken[to] /\ room[to]
          /\ \E n \in 1 .. pending[d], full \in BOOLEAN :
               /\ pending' = [pending EXCEPT ![d] = @ - n]
               /\ moved' = [moved EXCEPT ![d] = @ + n]
               /\ room' = [room EXCEPT ![to] = ~full]
          /\ moving' = TRUE
          /\ UNCHANGED <<pc, src_eof, dropped>>
       \/ /\ pending[d] = 0 \/ (~broken[to] /\ ~room[to])
          /\ pc' = "finish"
          /\ UNCHANGED <<moving, pending, src_eof, room, moved, dropped>>
    /\ UNCHANGED <<dir, readable, done, conf, sent, inbox, fin, broken, shut>>

\* Variant: the end of one direction ends the other one too.
Finish_BothWays ==
    LET ends == ~done[dir] /\ (src_eof[dir] \/ src_eof[Other(dir)]) /\ pending[dir] = 0 IN
    /\ pc = "finish"
    /\ IF ends THEN shut' = shut \cup {Other(dir)} /\ done' = [done EXCEPT ![dir] = TRUE]
               ELSE UNCHANGED <<shut, done>>
    /\ IF dir = 0 THEN pc' = "fill" /\ dir' = 1 /\ moving' = (moving \/ ends)
       ELSE /\ dir' = 0 /\ moving' = FALSE
            /\ pc' = IF \A d \in Sides : done'[d] THEN "closed" ELSE IF moving \/ ends THEN "fill" ELSE "poll"
    /\ UNCHANGED <<pending, readable, src_eof, conf, peers, ghost>>

\* The client was found to be gone, by a read or a write: that it timed out ends the tunnel at once.
ClientGone == broken[0] /\ (src_eof[0] \/ dropped[1] > 0)

\* The end is passed on when everything before it is out; after both directions the tunnel
\* is over, or pumped again as long as something moves.
Finish ==
    LET ends == ~done[dir] /\ src_eof[dir] /\ pending[dir] = 0 IN
    /\ pc = "finish"
    /\ IF ends THEN shut' = shut \cup {Other(dir)} /\ done' = [done EXCEPT ![dir] = TRUE]
               ELSE UNCHANGED <<shut, done>>
    /\ IF dir = 0 THEN pc' = "fill" /\ dir' = 1 /\ moving' = (moving \/ ends)
       ELSE /\ dir' = 0 /\ moving' = FALSE
            /\ \/ pc' = IF \A d \in Sides : done'[d] THEN "closed" ELSE IF moving \/ ends THEN "fill" ELSE "poll"
               \/ ClientGone /\ pc' = "closed"
    /\ UNCHANGED <<pending, readable, src_eof, conf, peers, ghost>>

-----------------------------------------------------------------------------
(* The wait of run_until_idle.                                             *)

\* interest: a side that nobody waits for is not polled at all.
Reads(s) == ~done[s] /\ ~src_eof[s] /\ pending[s] = 0
Writes(s) == ~done[Other(s)] /\ pending[Other(s)] > 0
Ready(s) ==
    \/ Reads(s) /\ (inbox[s] > 0 \/ fin[s])
    \/ Writes(s) /\ room[s]
    \/ (Reads(s) \/ Writes(s)) /\ broken[s]

Quiet(d) == pending[d] = 0 /\ ~src_eof[d] /\ ~done[d]
Parkable == parks /\ \A d \in Sides : Quiet(d)

PollReady ==
    /\ pc = "poll" /\ \E s \in Sides : Ready(s)
    /\ pc' = "fill"
    /\ readable' = [d \in Sides |-> readable[d] \/ (Ready(d) /\ (inbox[d] > 0 \/ fin[d] \/ broken[d]))]
    /\ UNCHANGED <<dir, moving, pending, src_eof, done, conf, peers, ghost, shut>>

\* Nothing within the wait: parked when both directions are quiet, else closed by idle time;
\* a stalled write that falls under the minimum rate closes it in any case (wait_budget,
\* charge_stall).  A poll that fails closes it too.
PollTimesOut ==
    /\ pc = "poll"
    /\ \/ Parkable /\ (\A s \in Sides : ~Ready(s)) /\ pc' = "idle"
       \/ ~Parkable /\ waits /\ (\A s \in Sides : ~Ready(s)) /\ pc' = "closed"
       \/ guarded /\ (\E s \in Sides : Writes(s)) /\ pc' = "closed"
       \/ pc' = "closed"
    /\ UNCHANGED <<dir, moving, dirs, conf, peers, ghost, shut>>

\* drive: the pipes are given back; a watch that refuses leaves the thread to it.
Park ==
    /\ pc = "idle"
    /\ readable' = [d \in Sides |-> FALSE]
    /\ \/ pc' = "parked" /\ UNCHANGED parks
       \/ pc' = "fill" /\ parks' = FALSE
    /\ UNCHANGED <<dir, moving, pending, src_eof, done, waits, guarded, peers, ghost, shut>>
\* resume by the watch, for something to read; expire and the end of the process close it.
Resume ==
    /\ pc = "parked" /\ \E s \in Sides : inbox[s] > 0 \/ fin[s] \/ broken[s]
    /\ pc' = "fill"
    /\ UNCHANGED <<dir, moving, dirs, conf, peers, ghost, shut>>
Expire ==
    /\ pc = "parked" /\ waits
    /\ pc' = "closed"
    /\ UNCHANGED <<dir, moving, dirs, conf, peers, ghost, shut>>

Next ==
    \/ \E s \in Sides : PeerSends(s) \/ PeerEnds(s) \/ PeerReads(s)
    \/ Open \/ Fill \/ Drain \/ Finish \/ PollReady \/ PollTimesOut \/ Park \/ Resume \/ Expire

Spec == Init /\ [][Next]_vars

-----------------------------------------------------------------------------
(* No byte is lost or made up in a tunnel, and a peer is told the end only *)
(* after all that came before it, unless one of the two is gone (`pump').  *)
EndComesLast ==
    \A d \in Sides :
        /\ sent[d] = inbox[d] + pending[d] + moved[d] + dropped[d]
        /\ dropped[d] > 0 => broken[Other(d)]
        /\ Other(d) \in shut => broken[d] \/ broken[Other(d)] \/ (fin[d] /\ moved[d] = sent[d])

(* A parked tunnel has nothing inside and no end to pass on: nobody would  *)
(* see to it until the other side moves (`quiet').                         *)
ParkedIsQuiet ==
    pc \in {"idle", "parked"} => \A d \in Sides : pending[d] = 0 /\ (src_eof[d] => done[d]) /\ shut = {}

(* A thread that waits has something to wait for in every direction that   *)
(* is not over, so the end or the loss of a peer always gets through       *)
(* (`interest').                                                           *)
WaitsForAll ==
    pc = "poll" => \A d \in Sides : ~done[d] => Reads(d) \/ Writes(Other(d))

\* The inductive invariant.  Who has read an end has lost a peer or read all there was before it; who
\* has passed it on has nothing left; and after the first direction was pumped it has nothing to pass on.
TunnelTypes ==
    /\ pc \in {"open", "refused", "fill", "drain", "finish", "poll", "idle", "parked", "closed"}
    /\ dir \in Sides
    /\ pending \in [Sides -> Nat] /\ sent \in [Sides -> Nat] /\ inbox \in [Sides -> Nat]
    /\ moved \in [Sides -> Nat] /\ dropped \in [Sides -> Nat]
    /\ src_eof \in [Sides -> BOOLEAN] /\ done \in [Sides -> BOOLEAN]
    /\ fin \in [Sides -> BOOLEAN] /\ broken \in [Sides -> BOOLEAN] /\ room \in [Sides -> BOOLEAN]
    /\ readable \in [Sides -> BOOLEAN] /\ shut \subseteq Sides

NothingToPassOn(d) == src_eof[d] /\ ~done[d] => pending[d] > 0

TunnelInv ==
    /\ TunnelTypes
    /\ \A d \in Sides :
          /\ sent[d] = inbox[d] + pending[d] + moved[d] + dropped[d]
          /\ dropped[d] > 0 => broken[Other(d)]
          /\ src_eof[d] => broken[d] \/ broken[Other(d)] \/ (fin[d] /\ inbox[d] = 0)
          /\ done[d] <=> Other(d) \in shut
          /\ done[d] => src_eof[d] /\ pending[d] = 0
          /\ pc \in {"open", "idle", "parked"} => ~done[d] /\ ~src_eof[d] /\ pending[d] = 0
          /\ pc = "poll" => NothingToPassOn(d)
    /\ pc \notin {"fill", "drain", "finish"} => dir = 0
    /\ dir = 1 => NothingToPassOn(0)
=============================================================================
