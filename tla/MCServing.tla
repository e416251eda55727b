------------------------------ MODULE MCServing -------------------------------
(***************************************************************************)
(* How a client is served, side by side: a behaviour of this module is one *)
(* of the connections being let in, of the life of one connection, of one  *)
(* body being read, of one answer being passed on, of the pipes that       *)
(* bodies go through in the kernel, or of the parts of an entry that its   *)
(* readers ask for.  They share no state.                                  *)
(***************************************************************************)
EXTENDS TLC

CONSTANTS
    Listeners, Conns, Clients, MaxConns, PerClient, OverflowSlots, Lites,
    Timeouts, HeaderTimeouts, Keepalives, Graces, OverflowTimeout,
    MaxRequests, MaxPieces, MaxNow, MaxLength, MaxChunks, MaxTrailers,
    MaxBody, Small, Threads, Capacity, PoolMax, MaxTransfers, MaxLen,
    MaxVersions, MaxGets, None

\* part names the component of this behaviour, the rest are its variables.
VARIABLES part, v1, v2, v3, v4, v5, v6, v7, v8, v9, v10, v11, v12, v13, v14,
    v15, v16, v17

vars == <<part, v1, v2, v3, v4, v5, v6, v7, v8, v9, v10, v11, v12, v13, v14,
          v15, v16, v17>>

Entry == INSTANCE Admission WITH
    max <- v1, per <- v2, lite <- v3, open <- v4, overflow <- v5, pc <- v6,
    conn <- v7, snap <- v8, victim <- v9, st <- v10, client <- v11, guards <- v12,
    counting <- v13, slots <- v14, counted <- v15, perClient <- v16

Loop == INSTANCE ConnLoop WITH
    conf <- v1, park <- v2, pc <- v3, served <- v4, sock <- v5, known <- v6,
    buffered <- v7, sent <- v8, eof <- v9, head <- v10, clock <- v11,
    extended <- v12, since <- v13, now <- v14, first <- v15, budget <- v16,
    reason <- v17

Body == INSTANCE Bodies WITH
    head <- v1, no_body <- v2, framing <- v3, sent <- v4, wire <- v5, pos <- v6,
    chunk <- v7, left <- v8, done <- v9, truncated <- v10, trailers <- v11,
    error <- v12

Answer == INSTANCE Delivery WITH
    r <- v1, origin <- v2, pc <- v3, read <- v4, clean <- v5, client <- v6,
    sink <- v7, flight <- v8, remembered <- v9, old <- v10, target <- v11,
    pooled <- v12, keep <- v13

Pipes == INSTANCE Passthrough WITH
    Longest <- MaxBody, pool <- v1, relay <- v2, got <- v3, started <- v4, cut <- v5

Parts == INSTANCE Ranges WITH
    versions <- v1, entry <- v2, copy <- v3, reply <- v4, left <- v5

Init ==
    \/ part = "entry" /\ Entry!Init /\ v17 = None
    \/ part = "loop" /\ Loop!Init
    \/ part = "body" /\ Body!Init /\ v13 = None /\ v14 = None /\ v15 = None /\ v16 = None
           /\ v17 = None
    \/ part = "answer" /\ Answer!Init /\ v14 = None /\ v15 = None /\ v16 = None
           /\ v17 = None
    \/ part = "pipes" /\ Pipes!Init /\ v6 = None /\ v7 = None /\ v8 = None /\ v9 = None
           /\ v10 = None /\ v11 = None /\ v12 = None /\ v13 = None /\ v14 = None
           /\ v15 = None /\ v16 = None /\ v17 = None
    \/ part = "parts" /\ Parts!Init /\ v6 = None /\ v7 = None /\ v8 = None /\ v9 = None
           /\ v10 = None /\ v11 = None /\ v12 = None /\ v13 = None /\ v14 = None
           /\ v15 = None /\ v16 = None /\ v17 = None

EntryStep == part = "entry" /\ Entry!Next /\ UNCHANGED <<part, v17>>
LoopStep == part = "loop" /\ Loop!Next /\ UNCHANGED <<part>>
BodyStep == part = "body" /\ Body!Next /\ UNCHANGED <<part, v13, v14, v15, v16, v17>>
AnswerStep == part = "answer" /\ Answer!Next /\ UNCHANGED <<part, v14, v15, v16, v17>>
PipesStep == part = "pipes" /\ Pipes!Next /\ UNCHANGED <<part, v6, v7, v8, v9, v10, v11,
    v12, v13, v14, v15, v16, v17>>
PartsStep == part = "parts" /\ Parts!Next /\ UNCHANGED <<part, v6, v7, v8, v9, v10, v11,
    v12, v13, v14, v15, v16, v17>>

Next == EntryStep \/ LoopStep \/ BodyStep \/ AnswerStep \/ PipesStep \/ PartsStep
Spec == Init /\ [][Next]_vars

ASSUME EntryAssumption == Entry!LimitAssumption /\ Entry!NoneAssumption
ASSUME LoopAssumption == Loop!ConnLoopAssumption
ASSUME BodyAssumption == Body!BodiesAssumption
ASSUME AnswerAssumption == Answer!DeliveryAssumption
ASSUME PipesAssumption == Pipes!PassthroughAssumption
ASSUME PartsAssumption == Parts!RangesAssumption

Symmetric == Permutations(Listeners) \cup Permutations(Conns) \cup Permutations(Clients)

\* Bound: with --lite, which differs in the table of clients alone, no more than
\* two connections are looked at.
LiteIsSmall == part = "entry" => Entry!LiteIsSmall
-------------------------------------------------------------------------------
\* The counters, in total and per client, are the shares held by the
\* connections alive, and what is served keeps to the limit.
SharesAccounted ==
    part = "entry" => Entry!TypeOK /\ Entry!SharesAccounted /\ Entry!LivingHoldShares /\ Entry!ServingBounded /\ Entry!ClientsAccounted

\* A head takes no longer than its timeout, and nobody waits without end for a
\* silent client.
WaitsEnd ==
    part = "loop" => Loop!HeadIsTimely /\ Loop!WaitsEnd

\* A parked connection has nothing in its buffers.
ParkedIsClean == part = "loop" => Loop!ParkedIsClean

\* No part of a head is forgotten when a connection is parked.
HeadPartIsKept == [][part = "loop" => Loop!HeadPartIsKeptStep]_vars

\* Whoever waits for a key is told the truth about it, and what an answer
\* replaces is gone before the client sees it.
WaitersAreTold ==
    part = "answer" => Answer!WaitersAreTold /\ Answer!ReplacedIsGone

\* What is taken for a complete body is one: read to its very end and by its
\* only length, passed on and stored in one piece, and nobody else's; a part is
\* as long as it says, and of one version with what the client has already.
BodiesAreWhole ==
    /\ part = "body" => Body!CleanMeansAligned /\ Body!LengthIsTheOnlyOne
    /\ part = "answer" => Answer!CompleteIsWhole /\ Answer!LeftWhole
    /\ part = "pipes" => Pipes!OwnUntilCut
    /\ part = "parts" => Parts!OfOneVersion /\ Parts!PromisedIsSent /\
        Parts!NotModifiedIsTrue

===============================================================================
