------------------------------- MODULE MCTables -------------------------------
(***************************************************************************)
(* Tables and the ways to another machine, side by side: a behaviour of    *)
(* this module is one of the memory tier, of the filter of keys that are   *)
(* not stored, of the doorkeeper, of what the cache may own, of the        *)
(* pictures taken on a burst, of how fresh an entry is, of the row of a    *)
(* connection, of the pool of idle connections, of the threads that        *)
(* resolve names, of the table of names, of one race of connection         *)
(* attempts, of the decision for or against IPv6, or of a tunnel.  They    *)
(* share no state, so one run checks each of them on a small instance.     *)
(***************************************************************************)
EXTENDS Integers, TLC

CONSTANTS
    Threads, Keys, FewKeys, Sizes, Capacities, ReserveMode, Chunk, EvictBatch,
    MaxTick, MaxProbes, Period, RotateAfter, ClockEnd, Start, Thresholds,
    MaxOpen, MaxShots, DefaultTtl, NegativeTtl, HeuristicPercent,
    HeuristicMax, Grace, FirstNow, LastNow, Sayings, MaxSaid, Interval,
    MaxBytes, MaxParks, Sweeper, Hosts, Conns, MaxPerHost, MaxTotal, Wrap,
    Callers, Workers, Limits, MaxJobs, Names, Askers, MaxEntries, MaxWarm,
    After, MaxNow, MaxMsgs, V6, V4, MaxCandidates, LossLimit, ProbeSecs,
    PolicyEnd, PipeBytes, Total, Part, Floor, ManualFloor, Actives, Percent,
    Window, Decay, Escalate, Fast, Slow, Near, Pause, Jump, MaxRounds,
    MaxMoves, None

\* part names the component of this behaviour, the rest are its variables.
VARIABLES part, v1, v2, v3, v4, v5, v6, v7, v8, v9, v10, v11, v12, v13, v14,
    v15, v16, v17, v18

vars == <<part, v1, v2, v3, v4, v5, v6, v7, v8, v9, v10, v11, v12, v13, v14,
          v15, v16, v17, v18>>

Mem == INSTANCE MemTier WITH
    Reserve <- ReserveMode, entries <- v1, order <- v2, bytes <- v3, capacity <- v4,
    chunks <- v5, failed <- v6, clock <- v7, op <- v8, probe <- v9, lag <- v10

Filters == INSTANCE NotStored WITH
    Keys <- FewKeys, MaxNow <- ClockEnd, filters <- v1, current <- v2,
    rotate_at <- v3, inserted <- v4, holder <- v5, now <- v6, op <- v7, since <- v8

Door == INSTANCE Doorkeeper WITH
    door <- v1, after <- v2

Shots == INSTANCE Bursts WITH
    burst_at <- v1, open <- v2, active <- v3, armed <- v4, pending <- v5,
    threshold <- v6, accepting <- v7, history <- v8, shots <- v9, hill <- v10

Answers == INSTANCE Freshness WITH
    Start <- FirstNow, MaxNow <- LastNow, now <- v1, entry <- v2, served <- v3,
    word <- v4, left <- v5

Row == INSTANCE ConnRow WITH
    MaxNow <- MaxTick, now <- v1, ticked <- v2, at <- v3, on <- v4, listed <- v5,
    row <- v6, entry <- v7, real <- v8

Money == INSTANCE Budget WITH
    MaxTicks <- MaxRounds, kind <- v1, others <- v2, aside <- v3, owned <- v4,
    cap <- v5, whole <- v6, group <- v7, ticks <- v8, pc <- v9, read <- v10,
    usage <- v11, strain <- v12, moves <- v13, past <- v14

Pool == INSTANCE OriginPool WITH
    rows <- v1, entries <- v2, total <- v3, pc <- v4, conn <- v5, host <- v6,
    pend <- v7, stale <- v8, unusable <- v9

Resolver == INSTANCE ResolverPool WITH
    limit <- v1, in_flight <- v2, queue <- v3, waiting <- v4, spawned <- v5,
    worker <- v6, caller <- v7, channel <- v8, asked <- v9, short <- v10

Dns == INSTANCE DnsTable WITH
    Hosts <- Names, Callers <- Askers, table <- v1, warm_queue <- v2, warm_on <- v3,
    msgs <- v4, thread <- v5, refresher <- v6, caller <- v7, now <- v8

Race == INSTANCE HappyEyeballs WITH
    pc <- v1, round <- v2, stale <- v3, addrs <- v4, deadline <- v5, launched <- v6,
    pending <- v7, trying <- v8, rx <- v9, failed <- v10, stagger_over <- v11,
    deadline_over <- v12, result <- v13

Policy == INSTANCE Ipv6Policy WITH
    MaxNow <- PolicyEnd, wins <- v1, loss_streak <- v2, probe_at <- v3,
    canary_at <- v4, canary_ok <- v5, now <- v6, op <- v7, probes <- v8

Relay == INSTANCE Tunnel WITH
    MaxBytes <- PipeBytes, pc <- v1, dir <- v2, moving <- v3, pending <- v4,
    readable <- v5, src_eof <- v6, done <- v7, parks <- v8, waits <- v9,
    guarded <- v10, sent <- v11, inbox <- v12, fin <- v13, broken <- v14,
    room <- v15, moved <- v16, dropped <- v17, shut <- v18

Init ==
    \/ part = "memory" /\ Mem!Init /\ v11 = None /\ v12 = None /\ v13 = None /\ v14 = None
           /\ v15 = None /\ v16 = None /\ v17 = None /\ v18 = None
    \/ part = "filters" /\ Filters!Init /\ v9 = None /\ v10 = None /\ v11 = None
           /\ v12 = None /\ v13 = None /\ v14 = None /\ v15 = None /\ v16 = None
           /\ v17 = None /\ v18 = None
    \/ part = "door" /\ Door!Init /\ v3 = None /\ v4 = None /\ v5 = None /\ v6 = None
           /\ v7 = None /\ v8 = None /\ v9 = None /\ v10 = None /\ v11 = None
           /\ v12 = None /\ v13 = None /\ v14 = None /\ v15 = None /\ v16 = None
           /\ v17 = None /\ v18 = None
    \/ part = "shots" /\ Shots!Init /\ v11 = None /\ v12 = None /\ v13 = None
           /\ v14 = None /\ v15 = None /\ v16 = None /\ v17 = None /\ v18 = None
    \/ part = "answers" /\ Answers!Init /\ v6 = None /\ v7 = None /\ v8 = None
           /\ v9 = None /\ v10 = None /\ v11 = None /\ v12 = None /\ v13 = None
           /\ v14 = None /\ v15 = None /\ v16 = None /\ v17 = None /\ v18 = None
    \/ part = "row" /\ Row!Init /\ v9 = None /\ v10 = None /\ v11 = None /\ v12 = None
           /\ v13 = None /\ v14 = None /\ v15 = None /\ v16 = None /\ v17 = None
           /\ v18 = None
    \/ part = "budget" /\ Money!Init /\ v15 = None /\ v16 = None /\ v17 = None
           /\ v18 = None
    \/ part = "pool" /\ Pool!Init /\ v10 = None /\ v11 = None /\ v12 = None /\ v13 = None
           /\ v14 = None /\ v15 = None /\ v16 = None /\ v17 = None /\ v18 = None
    \/ part = "resolver" /\ Resolver!Init /\ v11 = None /\ v12 = None /\ v13 = None
           /\ v14 = None /\ v15 = None /\ v16 = None /\ v17 = None /\ v18 = None
    \/ part = "names" /\ Dns!Init /\ v9 = None /\ v10 = None /\ v11 = None /\ v12 = None
           /\ v13 = None /\ v14 = None /\ v15 = None /\ v16 = None /\ v17 = None
           /\ v18 = None
    \/ part = "race" /\ Race!Init /\ v14 = None /\ v15 = None /\ v16 = None /\ v17 = None
           /\ v18 = None
    \/ part = "policy" /\ Policy!Init /\ v9 = None /\ v10 = None /\ v11 = None
           /\ v12 = None /\ v13 = None /\ v14 = None /\ v15 = None /\ v16 = None
           /\ v17 = None /\ v18 = None
    \/ part = "tunnel" /\ Relay!Init

MemStep == part = "memory" /\ Mem!Next /\ UNCHANGED <<part, v11, v12, v13, v14, v15, v16,
    v17, v18>>
FiltersStep == part = "filters" /\ Filters!Next /\ UNCHANGED <<part, v9, v10, v11, v12,
    v13, v14, v15, v16, v17, v18>>
DoorStep == part = "door" /\ Door!Next /\ UNCHANGED <<part, v3, v4, v5, v6, v7, v8, v9,
    v10, v11, v12, v13, v14, v15, v16, v17, v18>>
ShotsStep == part = "shots" /\ Shots!Next /\ UNCHANGED <<part, v11, v12, v13, v14, v15,
    v16, v17, v18>>
AnswersStep == part = "answers" /\ Answers!Next /\ UNCHANGED <<part, v6, v7, v8, v9, v10,
    v11, v12, v13, v14, v15, v16, v17, v18>>
RowStep == part = "row" /\ Row!Next /\ UNCHANGED <<part, v9, v10, v11, v12, v13, v14, v15,
    v16, v17, v18>>
MoneyStep == part = "budget" /\ Money!Next /\ UNCHANGED <<part, v15, v16, v17, v18>>
PoolStep == part = "pool" /\ Pool!Next /\ UNCHANGED <<part, v10, v11, v12, v13, v14, v15,
    v16, v17, v18>>
ResolverStep == part = "resolver" /\ Resolver!Next /\ UNCHANGED <<part, v11, v12, v13,
    v14, v15, v16, v17, v18>>
DnsStep == part = "names" /\ Dns!Next /\ UNCHANGED <<part, v9, v10, v11, v12, v13, v14,
    v15, v16, v17, v18>>
RaceStep == part = "race" /\ Race!Next /\ UNCHANGED <<part, v14, v15, v16, v17, v18>>
PolicyStep == part = "policy" /\ Policy!Next /\ UNCHANGED <<part, v9, v10, v11, v12, v13,
    v14, v15, v16, v17, v18>>
RelayStep == part = "tunnel" /\ Relay!Next /\ UNCHANGED <<part>>

Next == MemStep \/ FiltersStep \/ DoorStep \/ ShotsStep \/ AnswersStep \/ RowStep \/
    MoneyStep \/ PoolStep \/ ResolverStep \/ DnsStep \/ RaceStep \/ PolicyStep \/
    RelayStep
Spec == Init /\ [][Next]_vars

ASSUME MemAssumption == Mem!MemTierAssumption
ASSUME FiltersAssumption == Filters!NotStoredAssumption
ASSUME DoorAssumption == Door!DoorkeeperAssumption
ASSUME ShotsAssumption == Shots!BurstsAssumption
ASSUME AnswersAssumption == Answers!FreshnessAssumption
ASSUME RowAssumption == Row!ConnRowAssumption
ASSUME MoneyAssumption == Money!BudgetAssumption
ASSUME PoolAssumption == Pool!SweeperAssumption /\ Pool!ConnsAssumption /\ Pool!LimitsAssumption
ASSUME ResolverAssumption == Resolver!ResolverPoolAssumption
ASSUME DnsAssumption == Dns!DnsTableAssumption
ASSUME RaceAssumption == Race!HappyEyeballsAssumption
ASSUME PolicyAssumption == Policy!Ipv6PolicyAssumption
ASSUME RelayAssumption == Relay!TunnelAssumption

\* The heads of up to two lines.
Line == {<<"forbids", TRUE>>, <<"cookie", TRUE>>, <<"public", TRUE>>, <<"no_cache", TRUE>>,
         <<"must", TRUE>>, <<"s_maxage", 2>>, <<"max_age", 0>>, <<"max_age", 2>>,
         <<"expires", 0>>, <<"expires", FirstNow + 2>>, <<"date", FirstNow - 1>>,
         <<"date", FirstNow + 1>>, <<"age", 1>>, <<"modified", 0>>, <<"etag", "e">>, <<"etag", "f">>}

With(head, line) == [head EXCEPT ![line[1]] = line[2]]

FewSayings ==
    LET two == {With(With(Answers!Silent, l), m) : l \in Line, m \in Line}
        one == {With(Answers!Silent, l) : l \in Line}
    IN  {[head |-> Answers!Silent, lines |-> 0]} \cup {[head |-> h, lines |-> 1] : h \in one}
            \cup {[head |-> h, lines |-> 2] : h \in two \ one}

Symmetric == Permutations(Threads) \cup Permutations(Keys)
-------------------------------------------------------------------------------
\* Index, order and sum of the memory tier agree, and at rest entries and
\* ballast fit the budget.
MemoryAgrees ==
    part = "memory" => Mem!StoreAgrees /\ Mem!WithinBudgetAtRest

\* Nothing that goes was used after something that stays.
LruFirst == [][part = "memory" => Mem!LruFirstStep]_vars

\* What comes out of the cache is as fresh as its origin last said, or as old
\* as it lets it be, and nothing is kept that it forbids to keep.
AnswersAreFresh ==
    part = "answers" => Answers!HitIsVouched /\ Answers!StaleIsLetAlone /\ Answers!KeptIsAllowed

\* The cache gives way to what others use and keeps away for a while after a
\* shortage, and what others take under a quota is seen.
BudgetHolds ==
    part = "budget" => Money!CacheGivesWay /\ Money!BackedOff /\ Money!RaisesSpaced /\ Money!RefillWaits /\ Money!GrowthIsSeen

\* A pooled connection has one holder, and the total is right up to what is
\* under way.
PoolAccounted ==
    part = "pool" => Pool!TypeOK /\ Pool!SingleHolder /\ Pool!TotalAccounted /\ Pool!OvershootBounded /\ Pool!EmptyRowsBounded

\* A tunnel passes on all bytes and then the end, and is parked only when it is
\* empty.
TunnelIsTransparent ==
    part = "tunnel" => Relay!EndComesLast /\ Relay!ParkedIsQuiet /\ Relay!WaitsForAll

\* A key that is not stored is known for a whole period and forgotten some
\* time, and one that comes again soon is let in.
KeysAreRemembered ==
    /\ part = "filters" => Filters!ClockRunsWhileFull /\ Filters!KnownForAPeriod
    /\ part = "door" => Door!SecondTimeIsSeen

\* After a burst the next one is seen again; a row of a connection fits whoever
\* has it, and its record tells what happened.
ShownIsTrue ==
    /\ part = "shots" => Shots!FlagComesBack
    /\ part = "row" => Row!RowIsCurrent /\ Row!EntryIsTrue /\ Row!IdleIsReal

\* No lookup leaks from the count of those under way and none waits while a
\* thread could be had; a name that is being refreshed will be, and a warm one
\* has its place.
NamesAreServed ==
    /\ part = "resolver" => Resolver!InFlightAccounted /\ Resolver!JobHasThread
    /\ part = "names" => Dns!RefreshIsComing /\ Dns!WarmHasPlace

\* A race of attempts fails for cause only and every wait of it can end, and
\* requests are made to wait for IPv6 once in a while only.
RaceIsFair ==
    /\ part = "race" => Race!FailsForCause /\ Race!WaitCanEnd /\
        Race!PendingAccounted
    /\ part = "policy" => Policy!ProbesAreSpaced

===============================================================================
