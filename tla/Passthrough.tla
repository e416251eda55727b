----------------------------- MODULE Passthrough -----------------------------
(***************************************************************************)
(* Bodies that go from the origin to the client inside the kernel: a       *)
(* thread borrows a pipe, moves the body through it, and gives the pipe    *)
(* back however the transfer ends.  A pipe is what it holds: a sequence    *)
(* that names, piece by piece, the transfer it was filled by.              *)
(* Source: crates/http/src/http/passthrough.rs.                            *)
(***************************************************************************)
EXTENDS Integers, Sequences, SequencesExt

CONSTANTS
    Threads,
    Capacity,       \* PIPE_CAPACITY
    Longest,        \* bound of the length of a body
    PoolMax,        \* POOL_MAX
    MaxTransfers,   \* bound of the transfers
    None

PassthroughAssumption == {Capacity, Longest, PoolMax} \subseteq Nat \ {0} /\ MaxTransfers \in Nat

VARIABLES
    pool,       \* POOL: the pipes nobody uses
    relay,      \* relay of a thread: [id, pipe, left, out], None outside of it
    got,        \* ghost: the pieces the client of each transfer has
    started,    \* ghost: transfers so far
    cut         \* ghost: a transfer has ended with an error

vars == <<pool, relay, got, started, cut>>

Init ==
    /\ pool = <<>> /\ relay = [t \in Threads |-> None]
    /\ got = [i \in 1 .. MaxTransfers |-> <<>>] /\ started = 0 /\ cut = FALSE

\* Borrowed::take: the pipe that came back last, or a new one.
Borrow(t) ==
    /\ relay[t] = None /\ started < MaxTransfers
    /\ started' = started + 1
    /\ \E n \in 1 .. Longest :
        relay' = [relay EXCEPT ![t] = [id |-> started + 1, left |-> n, out |-> 0,
                                       pipe |-> IF pool = <<>> THEN <<>> ELSE Last(pool)]]
    /\ pool' = IF pool = <<>> THEN pool ELSE Front(pool)
    /\ UNCHANGED <<got, cut>>

\* Borrowed::drop: the pipe goes back as it is, while there is a place for it.
GiveBack(t) ==
    /\ relay' = [relay EXCEPT ![t] = None]
    /\ pool' = IF Len(pool) < PoolMax THEN Append(pool, relay[t].pipe) ELSE pool

\* splice_block from the origin, when all that was read before is out.  Blocks while the pipe
\* is full.
Fill(t) ==
    /\ relay[t] # None /\ relay[t].out = 0
    /\ \E n \in 1 .. Capacity - Len(relay[t].pipe) :
        /\ n <= relay[t].left
        /\ relay' = [relay EXCEPT ![t].out = n,
                                  ![t].pipe = @ \o [i \in 1 .. n |-> relay[t].id]]
    /\ UNCHANGED <<pool, got, started, cut>>

\* The origin closes before the length it named, or the read fails.
OriginEnds(t) ==
    /\ relay[t] # None /\ relay[t].out = 0
    /\ GiveBack(t)
    /\ UNCHANGED <<got, started>> /\ cut' \in {cut, TRUE}

\* A variant: what one call did not take is left in the pipe.
Drain_Once(t) ==
    /\ relay[t] # None /\ relay[t].out > 0
    /\ \E w \in 1 .. relay[t].out :
        /\ got' = [got EXCEPT ![relay[t].id] = @ \o SubSeq(relay[t].pipe, 1, w)]
        /\ IF relay[t].left = w THEN GiveBack(t)
           ELSE /\ relay' = [relay EXCEPT ![t].out = 0, ![t].left = @ - w,
                                          ![t].pipe = SubSeq(@, w + 1, Len(@))]
                /\ UNCHANGED pool
    /\ UNCHANGED <<started, cut>>

\* splice_block or to_client: the client takes what comes first out of the pipe; after the last
\* piece the pipe goes back.
Drain(t) ==
    /\ relay[t] # None /\ relay[t].out > 0
    /\ \E w \in 1 .. relay[t].out :
        LET rest == SubSeq(relay[t].pipe, w + 1, Len(relay[t].pipe)) IN
        /\ got' = [got EXCEPT ![relay[t].id] = @ \o SubSeq(relay[t].pipe, 1, w)]
        /\ IF relay[t].left = w
           THEN /\ relay' = [relay EXCEPT ![t] = None]
                /\ pool' = IF Len(pool) < PoolMax THEN Append(pool, rest) ELSE pool
           ELSE /\ relay' = [relay EXCEPT ![t].out = @ - w, ![t].left = @ - w, ![t].pipe = rest]
                /\ UNCHANGED pool
    /\ UNCHANGED <<started, cut>>

\* The client is gone, or too slow (to_client: the guard of the rate, or timeout).
ClientFails(t) ==
    /\ relay[t] # None /\ relay[t].out > 0
    /\ GiveBack(t) /\ cut' = TRUE
    /\ UNCHANGED <<got, started>>

Next == \E t \in Threads : Borrow(t) \/ Fill(t) \/ OriginEnds(t) \/ Drain(t) \/ ClientFails(t)

Spec == Init /\ [][Next]_vars

-----------------------------------------------------------------------------
(* Properties.                                                             *)

Only(s, x) == \A k \in DOMAIN s : s[k] = x
Own(i) == Only(got[i], i)

\* As long as every client reads to the end, the pipes that are reused are empty and each client
\* has pieces of its own body alone, whoever had its pipe before (`relay').
OwnUntilCut ==
    ~ cut => Only(pool, <<>>) /\ \A i \in DOMAIN got : Own(i)

\* "途中で失敗したらパイプに残ったバイトは失われる" (passthrough.rs, `relay'): what a failed transfer
\* has left in its pipe reaches nobody.
LeftoversAreLost == \A i \in DOMAIN got : Own(i)

-----------------------------------------------------------------------------
\* What OwnUntilCut rests on: as long as nobody broke off, the pipe of a transfer holds what it
\* was filled with and the client has not got yet, which is no more than is left of the body.
Relay == [id : 1 .. MaxTransfers, pipe : Seq(Nat), left : Nat, out : Nat]

PipesTyped ==
    /\ pool \in Seq(Seq(Nat)) /\ started \in Nat /\ cut \in BOOLEAN
    /\ got \in [1 .. MaxTransfers -> Seq(Nat)]
    /\ relay \in [Threads -> {None} \cup Relay]

PipesOwn ==
    \A t \in Threads : relay[t] # None =>
        /\ relay[t].out <= Len(relay[t].pipe) /\ relay[t].out <= relay[t].left
        /\ ~ cut => Len(relay[t].pipe) = relay[t].out /\ Only(relay[t].pipe, relay[t].id)

PipesInv == PipesTyped /\ PipesOwn /\ OwnUntilCut

=============================================================================
