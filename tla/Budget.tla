------------------------------ MODULE Budget ------------------------------
(***************************************************************************)
(* How much the cache may own (crates/cache/src/cache/probe.rs,            *)
(* crates/capacity/src/budget.rs, margin.rs).  A thread measures, every    *)
(* few seconds, what others use, keeps a margin free that follows how much *)
(* that moves and how often the machine was short, and evicts what is      *)
(* over.  The requests store and the others grow between its steps.  One   *)
(* behaviour is the budget of one tier: of memory, within a control group  *)
(* or without one, of a disk, or of a directory with a quota, where what   *)
(* others have is walked only seldom.                                      *)
(* The entries and the ballast are one number here.                        *)
(***************************************************************************)
EXTENDS Integers, Sequences, FiniteSetsExt

CONSTANTS
    Total,          \* size of the host's memory, or of the filesystem
    Part,           \* limit of the control group, or the quota
    Floor,          \* MEM_FLOOR, DISK_FLOOR
    ManualFloor,    \* PROXY_CACHE_*_KEEP_FREE
    Actives,        \* page cache in use (active_file), as it may be measured
    Percent,        \* BACKOFF_PERCENT
    Window, Decay, Escalate,    \* WINDOW_SECS, DECAY_SECS, ESCALATE_SECS in ticks
    Fast, Slow, Near,           \* OTHERS_INTERVAL_SECS, OTHERS_SLOW_SECS, OTHERS_NEAR_PERCENT
    Pause,          \* PRESSURE_BACKOFF_SECS in ticks
    Jump,           \* bound: what others grow by at once
    MaxTicks,       \* bound: rounds of the thread
    MaxMoves,       \* bound: times that others, or the requests, change something
    None

BudgetAssumption ==
    /\ {Total, Part, Floor, ManualFloor, Percent, Jump, MaxTicks, MaxMoves} \subseteq Nat
    /\ Actives \subseteq Nat /\ Part <= Total /\ Part >= 2 /\ Part * Percent >= 100
    /\ {Window, Decay, Escalate, Fast, Slow, Near, Pause} \subseteq Nat \ {0}
    /\ Decay >= Escalate /\ Slow >= Fast /\ Window >= 2

VARIABLES
    kind,           \* "memory" (in a control group), "host" (memory without one), "disk" or "quota"
    others,         \* used by others: of the memory, of the disk, under the quota
    aside,          \* used by others in the control group, or outside the quota
    owned,          \* MemTier::owned, DiskTier::owned
    cap,            \* capacity of the tier
    whole, group,   \* Margins: of the host or the disk, and of the control group
    ticks, pc, read,
    usage,          \* other_disk_usage, fs_used, fs_grown, others_walked_at, others_hurry_until
    strain,         \* the counter of ENOSPC, disk_enospc_seen, backoff_until
    moves,
    past            \* ghost: what others used at the last measurements, what was hidden from them

vars == <<kind, others, aside, owned, cap, whole, group, ticks, pc, read, usage, strain, moves, past>>

\* raises and hot are of the proof only: when the backoff rose, and when it was last asked for.
Fresh == [history |-> <<>>, backoff |-> 0, calm |-> 0, since |-> Escalate, raises |-> {}, hot |-> None]

OfMemory == kind \in {"memory", "host"}

Unread == [used |-> 0, part |-> 0, active |-> 0]

Init ==
    /\ kind \in {"memory", "host", "disk", "quota"}
    /\ others = 1 /\ aside = 0 /\ owned \in (IF OfMemory THEN {0} ELSE 0 .. 1) /\ cap = 0
    /\ whole = Fresh /\ group = Fresh
    /\ ticks = 0 /\ pc = (IF kind = "quota" THEN "walk" ELSE "take")
    /\ read = Unread
    /\ usage = [known |-> 0, fs |-> 0, grown |-> 0, at |-> 0, hurry |-> 0]
    /\ strain = [enospc |-> FALSE, seen |-> FALSE, until |-> 0]
    /\ moves = 0
    /\ past = [whole |-> <<>>, part |-> <<>>, hidden |-> 0, raced |-> FALSE, strained |-> None, filled |-> None]

-----------------------------------------------------------------------------
(* Margin.                                                                 *)

Over(a, b) == Max({a - b, 0})
PercentOf(total, percent) == (total * percent) \div 100
FloorFor(total) == Max({total \div 100, Min({Floor, total \div 10})})
Apart(a, b) == Max({a - b, b - a})
\* The newest Window of a sequence, with one more.
Slide(s, x) == Append(IF Len(s) >= Window THEN Tail(s) ELSE s, x)
LargestStep(s) == Max({0} \cup {Apart(s[i], s[i + 1]) : i \in 1 .. Len(s) - 1})

Observe(m, used) == [m EXCEPT !.history = Slide(@, used)]

\* Variant: the backoff doubles whenever the machine is found short.
OnPressure_EachTime(m, initial, total) ==
    [m EXCEPT !.calm = 0, !.since = 0, !.hot = ticks, !.raises = @ \cup {ticks},
              !.backoff = Min({Max({2 * @, initial}), total \div 2})]
OnPressure(m, initial, total) ==
    IF m.backoff > 0 /\ m.since + 1 < Escalate
    THEN [m EXCEPT !.calm = 0, !.since = @ + 1, !.hot = ticks]
    ELSE [m EXCEPT !.calm = 0, !.since = 0, !.hot = ticks, !.raises = @ \cup {ticks},
                   !.backoff = Min({Max({2 * @, initial}), total \div 2})]

\* Variant: the backoff shrinks at once.
OnCalm_AtOnce(m) == [m EXCEPT !.since = Min({@ + 1, Escalate}), !.calm = @ + 1, !.backoff = (@ * 3) \div 4]

OnCalm(m) ==
    IF m.backoff = 0 THEN [m EXCEPT !.since = Min({@ + 1, Escalate})]
    ELSE [m EXCEPT !.since = Min({@ + 1, Escalate}), !.calm = @ + 1,
                   !.backoff = IF (m.calm + 1) % Decay = 0 THEN (@ * 3) \div 4 ELSE @]

\* Variant: how much the others move is left out.
KeepFree_Unmoved(m, floor, hot) == Max({ManualFloor, floor, hot, m.backoff})
KeepFree(m, floor, hot) == Max({ManualFloor, floor, hot, 2 * LargestStep(m.history), m.backoff})

\* target_bytes with a percentage of 100, less what is used: the headroom.
Headroom(total, keep, used) == Over(total, keep) - used

-----------------------------------------------------------------------------
(* The others and the requests.                                            *)

Used == others + aside + owned
Moved == moves < MaxMoves /\ moves' = moves + 1
Hide(n) == past' = [past EXCEPT !.hidden = IF kind = "quota" THEN @ + n ELSE 0]

\* Others grow or shrink, under the quota and elsewhere.  What shrinks may hide what grows until
\* the filesystem is looked at, and what grows while the directory is walked, or after the
\* filesystem could not be looked at, may be missed.
OthersMove ==
    /\ Moved
    /\ \E n \in 1 .. Jump :
         \/ Used + n <= Total /\ others' = others + n /\ Hide(IF pc = "walked" \/ usage.fs = 0 THEN n ELSE 0) /\ UNCHANGED aside
         \/ others >= n /\ others' = others - n /\ Hide(n) /\ UNCHANGED aside
         \/ kind \in {"memory", "quota"} /\ Used + n <= Total /\ aside' = aside + n /\ UNCHANGED <<others, past>>
         \/ aside >= n /\ aside' = aside - n /\ Hide(n) /\ UNCHANGED others
    /\ UNCHANGED <<kind, owned, cap, whole, group, ticks, pc, read, usage, strain>>

\* Between the two times that the thread reads what the cache owns, a request takes or frees room.
Race(n) == past' = [past EXCEPT !.raced = @ \/ pc = "decide", !.hidden = IF kind = "quota" THEN @ + n ELSE 0]

Store ==
    /\ Moved /\ owned < cap
    /\ IF Used < Total
       THEN owned' = owned + 1 /\ Race(0) /\ UNCHANGED strain
       ELSE strain' = [strain EXCEPT !.enospc = ~OfMemory] /\ UNCHANGED <<owned, past>>
    /\ UNCHANGED <<kind, others, aside, cap, whole, group, ticks, pc, read, usage>>

Remove ==
    /\ Moved /\ owned > 0 /\ owned' = owned - 1 /\ Race(1)
    /\ UNCHANGED <<kind, others, aside, cap, whole, group, ticks, pc, read, usage, strain>>

-----------------------------------------------------------------------------
(* One round of the thread.  The first is made by Cache::new.              *)

\* others_due: is it time to walk the directory?
Due(tick) ==
    LET since == tick - usage.at
        estimate == usage.known + usage.grown + owned
    IN  kind = "quota"
        /\ (since >= Slow \/ (since >= Fast /\ (tick < usage.hurry \/ estimate * 100 >= Part * Near)))

Tick ==
    /\ pc = "home" /\ ticks < MaxTicks
    /\ ticks' = ticks + 1
    /\ pc' = IF Due(ticks + 1) THEN "walk" ELSE "take"
    /\ UNCHANGED <<kind, others, aside, owned, cap, whole, group, read, usage, strain, moves, past>>

\* refresh_other_disk_usage: the walk, and then a look at the filesystem, which may fail.
Walk ==
    /\ pc = "walk" /\ pc' = "walked"
    /\ usage' = [usage EXCEPT !.known = others]
    /\ Hide(-past.hidden)
    /\ UNCHANGED <<kind, others, aside, owned, cap, whole, group, ticks, read, strain, moves>>

Walked ==
    /\ pc = "walked" /\ pc' = "take"
    /\ \E fs \in {0, Used} : usage' = [usage EXCEPT !.fs = fs, !.grown = 0, !.at = ticks]
    /\ UNCHANGED <<kind, others, aside, owned, cap, whole, group, ticks, read, strain, moves, past>>

\* budget::take
Take ==
    /\ pc = "take" /\ pc' = "decide"
    /\ \E a \in (IF OfMemory THEN Actives ELSE {0}) :
         read' = [used |-> IF kind = "quota" THEN usage.known + owned ELSE Used, part |-> aside + owned, active |-> a]
    /\ past' = [past EXCEPT !.whole = Slide(@, IF kind = "quota" THEN usage.known ELSE others + aside),
                            !.part = IF kind = "memory" THEN Slide(@, aside) ELSE @]
    /\ UNCHANGED <<kind, others, aside, owned, cap, whole, group, ticks, usage, strain, moves>>

\* What others use of what is used.
OthersOf(used) == Over(used, owned)

\* Variant: the control group is not looked at.
MemBudget_HostOnly(hostKeep, groupKeep) == Over(owned + Headroom(Total, hostKeep, read.used), 0)
\* mem_budget: the least headroom counts.
MemBudget(hostKeep, groupKeep) ==
    Over(owned + Min({Headroom(Total, hostKeep, read.used), Headroom(Part, groupKeep, read.part)}), 0)

Settle(m, hot, initial, total) == IF hot THEN OnPressure(m, initial, total) ELSE OnCalm(m)

\* decide_mem, mem_budget_for: the pressure of the host counts for the host; for the group that of
\* the group, or of the host where the group has none to read.
DecideMem(hostHot, groupHot) ==
    LET h == Settle(Observe(whole, OthersOf(read.used)), hostHot, PercentOf(Total, Percent), Total)
        g == Settle(Observe(group, OthersOf(read.part)), groupHot, PercentOf(Part, Percent), Part)
    IN  /\ kind = "memory"
        /\ whole' = h /\ group' = g
        /\ cap' = MemBudget(KeepFree(h, FloorFor(Total), read.active), KeepFree(g, FloorFor(Part), 0))
        /\ UNCHANGED <<usage, strain>>

\* mem_budget_for without a control group.
DecideHost(hostHot) ==
    LET h == Settle(Observe(whole, OthersOf(read.used)), hostHot, PercentOf(Total, Percent), Total)
    IN  /\ kind = "host"
        /\ whole' = h
        /\ cap' = Over(owned + Headroom(Total, KeepFree(h, FloorFor(Total), read.active), read.used), 0)
        /\ UNCHANGED <<group, usage, strain>>

\* Variant: only the last growth is kept.
Grown_Last(fs) == IF usage.fs # 0 THEN Over(fs, usage.fs) ELSE 0
\* What the filesystem has grown by since the walk, as the rounds have seen it.
Grown(fs) == usage.grown + IF usage.fs # 0 THEN Over(fs, usage.fs) ELSE 0

\* disk_budget_for: under a quota the room of the filesystem itself counts too, if it can be read.
DiskBudget(m, real) ==
    LET Fits(total, used) == owned + Headroom(total, KeepFree(m, FloorFor(total), 0), used)
    IN  IF kind = "quota"
        THEN Over(Min({Fits(Part, read.used)} \cup (IF real THEN {Fits(Total, Used)} ELSE {})), 0)
        ELSE Over(Fits(Total, read.used), 0)

\* decide_disk: under a quota the look at the filesystem itself (real) may fail.
DecideDisk(real) ==
    LET total == IF kind = "quota" THEN Part ELSE Total
        m == Settle(Observe(whole, OthersOf(read.used)), strain.enospc, Max({PercentOf(total, Percent), FloorFor(total)}), total)
    IN  /\ ~OfMemory
        /\ whole' = m
        /\ cap' = DiskBudget(m, real)
        /\ usage' = IF kind = "disk" THEN usage
                    ELSE [usage EXCEPT !.fs = IF real THEN Max({Used, 1}) ELSE @,
                                       !.grown = IF real THEN Grown(Used) ELSE @,
                                       !.hurry = IF strain.enospc THEN ticks + Slow ELSE @]
        /\ strain' = [strain EXCEPT !.enospc = FALSE, !.seen = @ \/ strain.enospc]
        /\ UNCHANGED group

\* under_pressure: within a control group a host that is short of memory is the neighbours' affair,
\* unless the group has no pressure of its own to read.  A disk waits for the memory too.
UnderPressure(hostHot, groupHot) == IF kind = "memory" THEN groupHot ELSE hostHot

Decide ==
    /\ pc = "decide" /\ read' = Unread
    /\ \E hostHot, groupHot, real \in BOOLEAN :
         /\ DecideMem(hostHot, groupHot) \/ DecideHost(hostHot) \/ DecideDisk(real)
         /\ pc' = IF UnderPressure(hostHot, groupHot) THEN "short" ELSE "enforce"
    /\ UNCHANGED <<kind, others, aside, owned, ticks, moves, past>>

\* Variant: the ballast grows before what was found in this round is noted.
MayFill_Before(until) == ticks >= strain.until
MayFill(until) == ticks >= until

\* The rest of probe_tick: what is over goes; the ballast grows again unless the machine was short
\* lately.  An ENOSPC stays noted for the next round when memory is short in this one.
Enforce ==
    LET strained == pc = "short" \/ strain.seen
        until == IF strained THEN ticks + Pause ELSE strain.until
        kept == Min({owned, cap})
    IN  /\ pc \in {"short", "enforce"} /\ pc' = "home"
        /\ \E n \in {kept} \cup (IF ticks > 0 /\ MayFill(until) THEN {Max({kept, Min({cap, owned + Total - Used})})} ELSE {}) :
             /\ owned' = n
             /\ past' = [past EXCEPT !.hidden = IF kind = "quota" THEN @ + owned - kept ELSE 0,
                                     !.strained = IF strained /\ ticks > 0 THEN ticks ELSE @,
                                     !.filled = IF n > kept THEN ticks ELSE @]
        /\ strain' = IF ticks = 0 THEN strain
                     ELSE [strain EXCEPT !.until = until, !.seen = @ /\ pc = "short"]
        /\ UNCHANGED <<kind, others, aside, cap, whole, group, ticks, read, usage, moves>>

Next == OthersMove \/ Store \/ Remove \/ Tick \/ Walk \/ Walked \/ Take \/ Decide \/ Enforce

Spec == Init /\ [][Next]_vars

-----------------------------------------------------------------------------
(* Properties.                                                             *)

Newest(s) == s[Len(s)]
\* The others have grown, since they were measured, by no more than twice their largest step among
\* the measurements in the window.
Steady(seen, now) == now - Newest(seen) <= 2 * LargestStep(seen)

\* margin.rs ~6, "an amount that absorbs what the others grow by until the next probe": as long as
\* they stay within that, what they use and what the cache owns fit together in a quota and in a
\* control group, or the cache has given all it had; and it leaves that much free of the memory
\* and of a disk.  Nothing is said of a round in which a request stored or freed
\* something between the two readings of what the cache owns, or of those after it.
CacheGivesWay ==
    pc = "home" /\ ~past.raced /\ owned > 0 =>
        /\ kind = "memory" /\ Steady(past.part, aside) => aside + owned <= Part
        /\ kind = "quota" /\ Steady(past.whole, others) => others + owned <= Part
        /\ kind # "quota" => owned + Newest(past.whole) + 2 * LargestStep(past.whole) <= Total

\* After the machine was short the margin stays for a while: it does not decay before Decay
\* rounds of calm, and it never takes more than half.
BackedOff ==
    LET Stays(m, total) ==
            m.hot # None /\ ticks - m.hot < Decay =>
                m.backoff >= Min({PercentOf(total, Percent), total \div 2})
    IN  Stays(whole, IF kind = "quota" THEN Part ELSE Total) /\ Stays(group, Part)

\* However long the machine stays short, the backoff is raised once in Escalate rounds.
RaisesSpaced == \A m \in {whole, group} : \A a, b \in m.raises : a < b => b - a >= Escalate

\* What was taken for full is not filled again for a while.  In a control group whose own pressure
\* is low a host that is short widens the margin, and nothing waits for it.
RefillWaits ==
    past.strained # None /\ past.filled # None =>
        past.filled < past.strained \/ past.filled >= past.strained + Pause

\* probe.rs ~292, "what may have been written under the quota is not lost sight of": what others
\* have there is at most what the walk found, what the filesystem has grown by since, and what
\* was hidden: by something that shrank, by the time the walk took, or by a failed look.
GrowthIsSeen ==
    kind = "quota" /\ pc \notin {"walk", "walked"} /\ usage.fs # 0 =>
        others <= usage.known + usage.grown + Over(Used, usage.fs) + 1 + past.hidden

-----------------------------------------------------------------------------
(* The inductive invariant.                                                *)

Limit == IF kind = "quota" THEN Part ELSE Total
\* The last round in which the margins were settled, and the last that has ended.
Decided == IF pc \in {"walk", "walked", "take", "decide"} THEN ticks - 1 ELSE ticks
Ended == IF pc = "home" THEN ticks ELSE ticks - 1

Readings == 0 .. 2 * Total
Rounds == 0 .. Escalate
Times == Nat \cup {None}
Margins ==
    [history : Seq(Readings), backoff : Nat, calm : Nat, since : Rounds, raises : SUBSET Nat, hot : Times]
Shares == 0 .. Total
Pasts ==
    [whole : Seq(Shares), part : Seq(Shares), hidden : Nat, raced : BOOLEAN, strained : Times, filled : Times]
Usages == [known : Shares, fs : Nat, grown : Nat, at : Nat, hurry : Nat]
Strains == [enospc : BOOLEAN, seen : BOOLEAN, until : Nat]
TypeOK ==
    /\ kind \in {"memory", "host", "disk", "quota"}
    /\ others \in Nat /\ aside \in Nat /\ owned \in Nat /\ cap \in Nat /\ Used <= Total
    /\ whole \in Margins /\ group \in Margins
    /\ ticks \in Nat /\ pc \in {"home", "walk", "walked", "take", "decide", "short", "enforce"}
    /\ read \in [used : Readings, part : Shares, active : Nat]
    /\ usage \in Usages /\ strain \in Strains /\ moves \in Nat /\ past \in Pasts

\* What the backoff is at least, once it was asked for.
Least(total) == Min({PercentOf(total, Percent), total \div 2})
\* A margin, settled last in round d.
Settled(m, total, d) ==
    /\ \A a \in m.raises : a + m.since <= d
    /\ \A a, b \in m.raises : a < b => b - a >= Escalate
    /\ m.backoff = 0 => m.since = Escalate
    /\ m.since < Escalate => m.backoff >= Least(total)
    /\ m.since >= m.calm \/ m.since = Escalate
    /\ m.hot # None =>
          \/ m.calm < Decay /\ m.backoff >= Least(total) /\ m.hot + m.calm = d
          \/ m.calm >= Decay /\ m.hot + Decay <= d
MarginsSettled ==
    Settled(whole, Limit, Decided) /\ Settled(group, Part, Decided) /\ (kind # "memory" => group = Fresh)

\* Unless a request came in between, the margins remember what others used.
Remembered ==
    ~past.raced =>
        /\ pc = "decide" =>
              /\ \E n \in 0 .. Total : past.whole = Slide(whole.history, n) /\ read.used = owned + n
              /\ kind = "memory" =>
                    \E n \in 0 .. Total : past.part = Slide(group.history, n) /\ read.part = owned + n
        /\ pc # "decide" => past.whole = whole.history /\ (kind = "memory" => past.part = group.history)

\* The capacity leaves the margin free.
CapFits ==
    /\ ~past.raced /\ cap > 0 /\ pc \in {"short", "enforce", "home"} =>
          /\ Len(past.whole) > 0 /\ cap + Newest(past.whole) + 2 * LargestStep(past.whole) <= Limit
          /\ kind = "memory" =>
                Len(past.part) > 0 /\ cap + Newest(past.part) + 2 * LargestStep(past.part) <= Part
    /\ pc = "home" => owned <= cap

Waits ==
    /\ past.strained # None => strain.until >= past.strained + Pause /\ past.strained <= Ended
    /\ past.filled # None => past.filled <= Ended

\* Growth is hidden while nobody looks at the filesystem, and then what the filesystem says counts.
Seen ==
    kind = "quota" /\ pc # "walk" =>
        /\ pc = "walked" => others <= usage.known + past.hidden
        /\ usage.fs = 0 => others <= usage.known + usage.grown + past.hidden
        /\ pc # "walked" /\ usage.fs # 0 =>
              others + usage.fs <= usage.known + usage.grown + Used + 1 + past.hidden

BudgetInv == TypeOK /\ MarginsSettled /\ Remembered /\ CapFits /\ Waits /\ RefillWaits /\ Seen
===========================================================================
