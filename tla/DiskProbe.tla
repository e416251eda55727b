------------------------------ MODULE DiskProbe ------------------------------
(***************************************************************************)
(* How the proxy finds out how much disk its host grants it, when the host *)
(* does not say so and stops whoever takes more (crates/diskprobe, driven  *)
(* by the cache's probe).  The reservation is extended little by little;   *)
(* what the process was doing when it was stopped is read from a small     *)
(* file at the next start, and the allocation is learned from that.        *)
(*                                                                         *)
(* Sizes are in units of half of FAST_STEP or so, times in probe ticks.    *)
(* A host is "wings" (it stops a process that owns more than its limit),   *)
(* "df" (statvfs shows the limit) or "quota" (fallocate fails beyond it).  *)
(***************************************************************************)
EXTENDS Integers

CONSTANTS
    Start, Step, Floor,                              \* START, FAST_STEP, FLOOR
    Confirm, Heartbeat, StallTicks, Relearn,         \* CONFIRM_SECS and so on
    Limits,                                          \* the hosts' limits
    MaxNow, MaxStops, MaxFaults, MaxSlack,           \* bounds
    None

VARIABLES
    host,       \* its kind and limit, fixed
    probe,      \* DiskProbe of the running process, None while it is down
    file,       \* what disk_probe.state holds, None while there is none
    data,       \* bytes of entries
    ballast,    \* bytes reserved for more
    refused,    \* DiskTier.fill_failed
    seen,       \* prev_owned and stalled
    ticked,     \* the probe of this moment has run
    now,
    left,       \* bounds: stops, faults of the file and times of slack left
    kills       \* how often the host stopped the process since it last knew nothing

vars == <<host, probe, file, data, ballast, refused, seen, ticked, now, left, kills>>

DiskProbeAssumption ==
    /\ {Start, Step, Floor, Confirm, Heartbeat, StallTicks, Relearn} \subseteq Nat \ {0}
    /\ Floor < Start /\ Heartbeat < Confirm /\ Confirm < Relearn
    /\ \A l \in Limits : l \in Nat /\ l >= Floor
    /\ {MaxNow, MaxStops, MaxFaults, MaxSlack} \subseteq Nat /\ MaxSlack < Confirm
    /\ None \notin Nat

Larger(a, b) == IF a < b THEN b ELSE a
Smaller(a, b) == IF a < b THEN a ELSE b

Owned == data + ballast

\* The host sees to it at once.
TooMuch == host.kind = "wings" /\ Owned > host.limit
-----------------------------------------------------------------------------
\* What is remembered when nothing is known at time t.
Fresh(t) ==
    [mode |-> "fast", confirmed |-> Start, cap |-> Start, raised_at |-> t,
     started_at |-> t, alive |-> t, learned |-> None, learned_at |-> 0,
     early_stops |-> 0, found |-> None, found_at |-> 0]

\* What a file that was cut to nothing reads as.
Blank == [Fresh(0) EXCEPT !.confirmed = 0]

StoppedEarly(s) == s.started_at > 0 /\ s.alive >= s.started_at /\ s.alive - s.started_at < Confirm

StoppedAfterRaise(s) ==
    /\ s.cap > s.confirmed /\ s.confirmed >= Start
    /\ s.raised_at > 0 /\ s.alive >= s.raised_at /\ s.alive - s.raised_at < Confirm

Knows(s) == s.learned # None /\ now - s.learned_at < Relearn

\* p with the allocation learned at time t.
Settled(p, size, t) ==
    [p EXCEPT !.learned = size, !.learned_at = t, !.confirmed = size, !.cap = size]

LearnSlow_TrustsLast(s, p) ==
    LET size == Larger(Larger(s.cap, s.confirmed), Floor)
    IN  [p EXCEPT !.confirmed = size, !.cap = size]

LearnSlow(s, p) ==
    IF StoppedAfterRaise(s) THEN Settled(p, s.confirmed, now)
    ELSE IF StoppedEarly(s) /\ s.confirmed < Start
    THEN IF s.early_stops >= 1
         THEN Settled([p EXCEPT !.early_stops = s.early_stops + 1], Floor, now)
         ELSE [p EXCEPT !.early_stops = 1, !.confirmed = 0]
    ELSE LET size == Larger(Larger(s.cap, s.confirmed), Floor)
         IN  [p EXCEPT !.confirmed = size, !.cap = size]

\* What a start makes of what the run before it left behind.
Learn(s) ==
    LET p == [Fresh(now) EXCEPT !.mode = s.mode]
    IN  CASE Knows(s) -> Settled(p, s.learned, s.learned_at)
          [] ~Knows(s) /\ s.mode = "slow" -> LearnSlow(s, p)
          [] ~Knows(s) /\ s.mode = "fast" /\ StoppedEarly(s) ->
                 [p EXCEPT !.mode = "slow", !.confirmed = 0]
          [] OTHER -> p
-----------------------------------------------------------------------------
\* fs::write: it succeeds, it fails and leaves the file, or it is cut off with
\* nothing in it.  Bound: MaxFaults of the latter two.
Save(p) ==
    \/ file' = p /\ UNCHANGED left
    \/ /\ left.faults > 0 /\ left' = [left EXCEPT !.faults = @ - 1]
       /\ file' \in {file, Blank}

Init ==
    /\ host \in [kind : {"wings", "df", "quota"}, limit : Limits]
    /\ probe = None /\ file = None /\ data = 0 /\ ballast = 0 /\ refused = FALSE
    /\ seen = [owned |-> 0, stalled |-> 0] /\ ticked = FALSE /\ now = 1 /\ kills = 0
    /\ left = [stops |-> MaxStops, faults |-> MaxFaults, slack |-> MaxSlack]

KnowsNothing == file \in {None, Blank} \/ (file.learned # None /\ ~Knows(file))

Load ==
    /\ probe = None
    /\ probe' = IF file = None THEN Fresh(now) ELSE Learn(file)
    /\ Save(probe')
    /\ kills' = IF KnowsNothing THEN 0 ELSE kills
    /\ ballast' = 0 /\ refused' = FALSE /\ ticked' = FALSE
    /\ seen' = [owned |-> 0, stalled |-> 0]
    /\ UNCHANGED <<host, data, now>>
-----------------------------------------------------------------------------
Followed(p) == Owned + (Step \div 2) >= p.cap

Stalled(p) == IF ~Followed(p) /\ Owned <= seen.owned THEN seen.stalled + 1 ELSE 0

\* The reservation cannot be extended any more.
AtEnd(p) == refused \/ (p.cap > Start /\ ~Followed(p) /\ Stalled(p) >= StallTicks)

TickFast(p) ==
    CASE p.found # None ->
            IF now - p.found_at >= Confirm THEN Settled(p, p.found, now) ELSE p
      [] p.found = None /\ AtEnd(p) ->
            LET size == Larger(Owned, Start)
            IN  [p EXCEPT !.found = size, !.found_at = now, !.cap = size]
      [] p.found = None /\ ~AtEnd(p) /\ Followed(p) ->
            [p EXCEPT !.cap = @ + Step, !.raised_at = now]
      [] OTHER -> p

Confirmed(p) ==
    IF p.cap > p.confirmed /\ now - p.raised_at >= Confirm THEN [p EXCEPT !.confirmed = p.cap] ELSE p

Raised_Silently(p) ==
    IF p.cap = p.confirmed /\ p.confirmed >= Start
    THEN [p EXCEPT !.cap = @ + Step, !.raised_at = now]
    ELSE p

Raised(p) ==
    IF p.cap = p.confirmed /\ p.confirmed >= Start
    THEN [p EXCEPT !.cap = @ + Step, !.raised_at = now, !.alive = now]
    ELSE p

TickSlow(p) == Raised(Confirmed(p))

Alive(p) ==
    LET beat == IF now - p.alive >= Heartbeat THEN [p EXCEPT !.alive = now] ELSE p
    IN  IF now - p.started_at >= Confirm THEN [beat EXCEPT !.early_stops = 0] ELSE beat

Ticked(p) ==
    LET q == Alive(p)
    IN  CASE q.learned # None -> q
          [] q.learned = None /\ q.mode = "fast" -> TickFast(q)
          [] OTHER -> TickSlow(q)

\* The reservation grows to what the entries leave of the size, if the host has it.
\* Bound: MaxSlack times it does not grow, as after memory was short, or entries
\* are dropped.
Fill(size, used) ==
    LET have == Smaller(ballast, Larger(size - used, 0))
        want == Larger(size - used, 0)
        room == host.limit - used
    IN  IF host.kind = "quota" /\ want > room
        THEN ballast' \in {have, Larger(have, room)} /\ refused' = TRUE
        ELSE ballast' = want /\ refused' = FALSE

\* No more than the filesystem shows to be free.
Size(p) == IF host.kind = "df" THEN Smaller(p.cap, host.limit) ELSE p.cap

\* A tick of the cache's probe: the probe, the sizes it decides, the eviction of
\* what is too much, the reservation.
Tick ==
    LET p == Ticked(probe)
        size == Size(p)
        used == Smaller(data, Smaller(p.confirmed, size))
    IN  /\ probe # None /\ ~ticked
        /\ probe' = p /\ ticked' = TRUE /\ data' = used
        /\ seen' = IF Alive(probe).learned = None /\ probe.mode = "fast" /\ probe.found = None
                   THEN [owned |-> Owned, stalled |-> Stalled(probe)]
                   ELSE seen
        /\ \/ /\ Fill(size, used)
              /\ IF p = probe THEN UNCHANGED <<file, left>> ELSE Save(p)
           \/ /\ left.slack > 0 /\ left' = [left EXCEPT !.slack = @ - 1]
              /\ file' = p
              /\ ballast' = Smaller(ballast, Larger(size - used, 0)) /\ refused' = FALSE
        /\ UNCHANGED <<host, now, kills>>

\* Entries are stored, up to what is confirmed, or dropped; the reservation gives way
\* to the former.
Use ==
    LET most == Smaller(probe.confirmed,
                        IF host.kind = "quota" THEN host.limit - ballast ELSE Size(probe))
    IN  /\ probe # None /\ ticked /\ ~TooMuch
        /\ \/ data < most /\ data' = most /\ UNCHANGED left
           \/ /\ data > 0 /\ left.slack > 0
              /\ data' = 0 /\ left' = [left EXCEPT !.slack = @ - 1]
        /\ ballast' = Smaller(ballast, Larger(Size(probe) - data', 0))
        /\ UNCHANGED <<host, probe, file, refused, seen, ticked, now, kills>>
-----------------------------------------------------------------------------
\* The host stops the process, or its operator does; the reservation is given back
\* on the way out.  A stop may fall into a save.
Down == probe' = None /\ ballast' = 0 /\ UNCHANGED <<host, data, refused, seen, ticked, now>>

Kill == probe # None /\ ticked /\ TooMuch /\ Down /\ kills' = kills + 1 /\ UNCHANGED <<file, left>>

Stop ==
    /\ probe # None /\ left.stops > 0
    /\ \/ file' = file /\ left' = [left EXCEPT !.stops = @ - 1]
       \/ file' = Blank /\ left.faults > 0
              /\ left' = [left EXCEPT !.stops = @ - 1, !.faults = @ - 1]
    /\ Down /\ UNCHANGED kills

\* Time goes on; the host does not wait when it is owned too much of.
Elapse ==
    /\ now < MaxNow /\ now' = now + 1
    /\ probe # None => ticked /\ ~TooMuch
    /\ ticked' = FALSE
    /\ UNCHANGED <<host, probe, file, data, ballast, refused, seen, left, kills>>

Next == Load \/ Tick \/ Use \/ Kill \/ Stop \/ Elapse
Spec == Init /\ [][Next]_vars
-----------------------------------------------------------------------------
\* diskprobe.rs, the module comment: what is learned, and what entries may take
\* beyond the first size, is what the host lets the process have.  It survives
\* stops, lost saves and a reservation that is held back for less than Confirm
\* (MaxSlack below that).
LearnedFits ==
    host.kind = "wings" /\ probe # None =>
        /\ probe.learned # None => probe.learned <= host.limit
        /\ probe.confirmed <= Larger(host.limit, Start)

\* The host stops a process that knew nothing no more than three times: in the
\* fast mode, and then once after a raise or twice at the first size.  A save that
\* is lost, or a reservation held back, costs at most one more.
KillsBounded == kills <= 3 + (MaxFaults - left.faults) + (MaxSlack - left.slack)
-----------------------------------------------------------------------------
Probes ==
    [mode : {"fast", "slow"}, confirmed : Nat, cap : Nat, raised_at : Nat, started_at : Nat,
     alive : Nat, learned : Nat \cup {None}, learned_at : Nat, early_stops : Nat,
     found : Nat \cup {None}, found_at : Nat]

ProbeTypes ==
    /\ host.limit \in Limits /\ probe \in Probes \cup {None} /\ file \in Probes \cup {None}
    /\ data \in Nat /\ ballast \in Nat /\ refused = FALSE /\ ticked \in BOOLEAN
    /\ seen \in [owned : Nat, stalled : Nat] /\ now \in Nat \ {0}
    /\ left \in [stops : Nat, faults : Nat, slack : Nat] /\ left.slack <= MaxSlack

\* A size the host does not grant has been asked for since t: at each tick it was either owned,
\* and the host stopped the process, or the reservation was held back.
AskedSince(t) == now - t + (IF ticked /\ ~TooMuch THEN 1 ELSE 0) <= MaxSlack - left.slack

\* What may be learned from s: what was confirmed is granted, and a process that went beyond what
\* is granted was stopped early.
Sound(s) ==
    /\ s.learned # None => s.learned <= host.limit /\ s.confirmed = s.learned /\ s.cap = s.learned
    /\ s.mode = "slow" =>
          /\ s.started_at > 0 /\ s.alive >= s.started_at /\ s.raised_at > 0
          /\ s.confirmed >= Start => s.confirmed <= host.limit
          /\ s.confirmed < Start => s.raised_at = s.started_at
          /\ s.confirmed >= Start /\ s.cap > s.confirmed => s.alive >= s.raised_at
          /\ s.cap > host.limit => s.alive - s.raised_at < Confirm

Running(p) ==
    /\ Sound(p)
    /\ p.started_at > 0 /\ p.alive >= p.started_at /\ p.raised_at > 0
    /\ p.alive <= now /\ p.raised_at <= now /\ p.started_at <= now
    /\ p.mode = "slow" /\ p.cap > host.limit => AskedSince(p.raised_at)
    /\ p.mode = "fast" /\ p.learned = None =>
          /\ p.confirmed = Start
          /\ p.found # None => p.found <= host.limit \/ (p.cap = p.found /\ AskedSince(p.found_at))

\* The fast mode looks at what is owned only when the host has let that pass.
LetPass(p) ==
    p.mode = "fast" /\ p.learned = None /\ p.found = None /\ ~ticked =>
        Owned <= host.limit \/ p.cap = Start

ProbeInv ==
    host.kind = "wings" =>
        /\ ProbeTypes
        /\ probe # None => Running(probe) /\ LetPass(probe)
        /\ file # None => Sound(file)
=============================================================================
