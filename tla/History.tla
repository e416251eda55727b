------------------------------ MODULE History -------------------------------
(***************************************************************************)
(* The history of the proxy's numbers: a sample every few seconds, folded  *)
(* into one per minute and those into one per hour (crates/metrics-window/ *)
(* src/history.rs, history/sample.rs), three rings in memory of which each *)
(* sample is written to a ring of the state file (crates/metrics/src/      *)
(* persist.rs, tick.rs, crates/rrd/src/rrd), and a file of the version     *)
(* before that is converted when it is opened.  The process may stop at    *)
(* any point and reads the file back when it starts.                       *)
(*                                                                         *)
(* What a sample counts is told by the ticks it covers.  The clock does    *)
(* not go back.                                                            *)
(***************************************************************************)
EXTENDS Integers, Sequences, FiniteSets

CONSTANTS
    Minute, Hour,   \* RESOLUTIONS: the seconds of a sample of the second and third ring
    Fine, Minutes, Hours,   \* records in the three regions of the file
    Capacity,       \* CAPACITY: samples of the first ring in memory
    MaxNow,         \* bound: the clock
    MaxCrashes,     \* bound: times the process stops
    MaxFaults,      \* bound: writes that fail
    None

Slots == <<Fine, Minutes, Hours>>
Regions == 1 .. 3

HistoryAssumption ==
    /\ {Fine, Minutes, Hours, Minute, Hour} \subseteq Nat \ {0} /\ Hour % Minute = 0
    /\ Capacity \in Nat /\ Capacity >= Fine
    /\ {MaxNow, MaxCrashes, MaxFaults} \subseteq Nat

VARIABLES
    now, ticked,    \* the clock, and when it was read for the last sample
    rings,          \* History::rings
    pending,        \* Pushed: what write_samples has still to write, and where
    magic,          \* the first bytes of the file: "v2", "v3" or "none"
    disk, next,     \* the records that a reader accepts, and Ring::next
    pc,
    carried,        \* what read_v2 has read
    taken,          \* ghost: every tick, with its time
    lost,           \* ghost: ticks whose sample a stop has lost
    written,        \* ghost: per region, what was written, in order
    ran,            \* ghost: the file was written to since it was converted
    left            \* bounds: stops and faults left

vars == <<now, ticked, rings, pending, magic, disk, next, pc, carried, taken, lost, written, ran, left>>

Nothing == [r \in Regions |-> [i \in 0 .. Slots[r] - 1 |-> None]]
NoRings == [r \in Regions |-> <<>>]

-----------------------------------------------------------------------------
(* A file of version 2: a minute, and two samples of the next one.         *)

Begin == 2 * Hour
Ticks(from, to) == {<<t, 0>> : t \in from .. to - 1}
Before ==
    [Nothing EXCEPT ![1][0] = [t |-> Begin - 2, of |-> Ticks(Begin - 2, Begin - 1)],
                    ![1][1] = [t |-> Begin - 1, of |-> Ticks(Begin - 1, Begin)],
                    ![2][0] = [t |-> Begin - 2 * Minute, of |-> Ticks(Begin - 2 * Minute, Begin - Minute)]]

Init ==
    /\ now = Begin /\ ticked = None /\ rings = NoRings /\ pending = <<>>
    /\ magic \in {"none", "v2"} /\ disk = (IF magic = "v2" THEN Before ELSE Nothing)
    /\ next = [r \in Regions |-> 0] /\ pc = "stopped" /\ carried = None
    /\ taken = (IF magic = "v2" THEN Ticks(Begin - 2 * Minute, Begin) ELSE {})
    /\ lost = {} /\ written = NoRings /\ ran = FALSE
    /\ left = [crashes |-> MaxCrashes, faults |-> MaxFaults]

-----------------------------------------------------------------------------
(* Rrd::open.                                                              *)

InMemory == UNCHANGED <<now, ticked, rings, pending, next, taken, lost, ran, left>>

\* read_v2, and the first look of Fixed::open.
Open ==
    /\ pc = "stopped"
    /\ carried' = IF magic = "v2" THEN disk ELSE None
    /\ pc' = IF magic = "v3" THEN "load" ELSE "create"
    /\ UNCHANGED <<magic, disk, written>> /\ InMemory

\* The file is made anew, as zeros.
Create ==
    /\ pc = "create" /\ pc' = "stamp"
    /\ magic' = "none" /\ disk' = Nothing /\ written' = NoRings
    /\ UNCHANGED carried /\ InMemory

Stamp ==
    /\ pc = "stamp" /\ magic' = "v3"
    /\ pc' = IF carried = None THEN "load" ELSE "unstamp"
    /\ UNCHANGED <<disk, carried, written>> /\ InMemory

\* Variant: the mark stays while the records are written.
Unstamp_Not ==
    /\ pc = "unstamp" /\ pc' = "copy"
    /\ UNCHANGED <<magic, disk, carried, written>> /\ InMemory

\* set_magic with zeros: a file that is not complete is none.
Unstamp ==
    /\ pc = "unstamp" /\ pc' = "copy" /\ magic' = "none"
    /\ UNCHANGED <<disk, carried, written>> /\ InMemory

\* A region at a time; the last one is followed by the mark.
Copy ==
    /\ pc = "copy"
    /\ \E r \in Regions :
        /\ disk[r] # carried[r] /\ \A q \in 1 .. r - 1 : disk[q] = carried[q]
        /\ disk' = [disk EXCEPT ![r] = carried[r]]
    /\ UNCHANGED <<magic, pc, carried, written>> /\ InMemory

\* The records of a region in the order of their time, those of one second by place.
Earlier(r, i, j) ==
    disk[r][i].t < disk[r][j].t \/ (disk[r][i].t = disk[r][j].t /\ i < j)
Used(r) == {i \in DOMAIN disk[r] : disk[r][i] # None}
Places(r) == CHOOSE s \in [1 .. Cardinality(Used(r)) -> Used(r)] :
                \A a, b \in DOMAIN s : a < b => Earlier(r, s[a], s[b])
Records(r) == [k \in DOMAIN Places(r) |-> disk[r][Places(r)[k]]]

Restamp ==
    /\ pc = "copy" /\ disk = carried
    /\ pc' = "load" /\ magic' = "v3" /\ written' = [r \in Regions |-> Records(r)]
    /\ UNCHANGED <<disk, carried>> /\ InMemory

\* A write fails: the process goes on without a state file.
OpenFails ==
    /\ pc \in {"create", "stamp", "unstamp", "copy"} /\ left.faults > 0
    /\ pc' = "off" /\ left' = [left EXCEPT !.faults = @ - 1]
    /\ UNCHANGED <<now, ticked, rings, pending, magic, disk, next, carried, taken, lost, written, ran>>

-----------------------------------------------------------------------------
(* persist::start.                                                         *)

\* Variant: the place after the last record in the region.
NextPlace_LastUsed(r) == IF Used(r) = {} THEN 0
                         ELSE (CHOOSE i \in Used(r) : \A j \in Used(r) : j <= i) + 1

\* Ring::load: the place after the newest.
NextPlace(r) == LET p == Places(r) IN IF p = <<>> THEN 0 ELSE p[Len(p)] + 1

Load ==
    /\ pc = "load" /\ pc' = "run"
    /\ next' = [r \in Regions |-> NextPlace(r) % Slots[r]]
    /\ rings' = [r \in Regions |-> Records(r)]
    /\ UNCHANGED <<now, ticked, pending, magic, disk, carried, taken, lost, written, ran, left>>

-----------------------------------------------------------------------------
(* Tick::run.                                                              *)

Elapse ==
    /\ pc \in {"run", "stopped"} /\ pending = <<>> /\ now < MaxNow /\ now' = now + 1
    /\ UNCHANGED <<ticked, rings, pending, magic, disk, next, pc, carried, taken, lost, written, ran, left>>

\* History::append.
Cut(s, cap) == IF Len(s) > cap THEN Tail(s) ELSE s

Downsample(window, t) == [t |-> t, of |-> UNION {x.of : x \in window}]

\* Variant: whether the sample is there already is not looked at.
Roll_Anew(from, to, step) ==
    LET start == (now \div step) * step
        window == {from[i] : i \in {j \in DOMAIN from : from[j].t >= start - step /\ from[j].t < start}}
    IN  IF window = {} THEN None ELSE Downsample(window, start - step)

\* History::roll: the window before the one that the clock is in, unless it is there.
Roll(from, to, step) ==
    LET start == (now \div step) * step
        window == {from[i] : i \in {j \in DOMAIN from : from[j].t >= start - step /\ from[j].t < start}}
    IN  IF (to # <<>> /\ to[Len(to)].t >= start - step) \/ window = {} THEN None
        ELSE Downsample(window, start - step)

With(s, x) == IF x = None THEN s ELSE Append(s, x)

\* Variant: the hour is folded before the minute that ends it is there.
HourOf_Before(fine, minutes, minute) == IF minute = None THEN None ELSE Roll(rings[2], rings[3], Hour)

\* Only a new minute can end an hour.
HourOf(fine, minutes, minute) == IF minute = None THEN None ELSE Roll(minutes, rings[3], Hour)

\* History::push, and write_samples is next.
Push ==
    /\ pc = "run" /\ pending = <<>> /\ ticked # now
    /\ ticked' = now
    /\ LET tick == <<now, Cardinality({k \in taken : k[1] = now})>>
           sample == [t |-> now, of |-> {tick}]
           fine == Cut(Append(rings[1], sample), Capacity)
           minute == Roll(fine, rings[2], Minute)
           minutes == Cut(With(rings[2], minute), Minutes)
           hour == HourOf(fine, minutes, minute)
       IN  /\ taken' = taken \cup {tick}
           /\ rings' = <<fine, minutes, Cut(With(rings[3], hour), Hours)>>
           /\ pending' = With(With(<<[in |-> 1, s |-> sample]>>, IF minute = None THEN None ELSE [in |-> 2, s |-> minute]),
                              IF hour = None THEN None ELSE [in |-> 3, s |-> hour])
    /\ UNCHANGED <<now, magic, disk, next, pc, carried, lost, written, ran, left>>

\* Ring::push.
Write ==
    /\ pc = "run" /\ pending # <<>> /\ pending' = Tail(pending) /\ ran' = TRUE
    /\ LET r == pending[1].in IN
        /\ disk' = [disk EXCEPT ![r][next[r]] = pending[1].s]
        /\ next' = [next EXCEPT ![r] = (@ + 1) % Slots[r]]
        /\ written' = [written EXCEPT ![r] = Append(@, pending[1].s)]
    /\ UNCHANGED <<now, ticked, rings, magic, pc, carried, taken, lost, left>>

\* What a write that was not completed leaves: the record as it was, or one whose CRC is wrong.
Cuts == {disk} \cup (IF pending = <<>> THEN {}
                     ELSE {[disk EXCEPT ![pending[1].in][next[pending[1].in]] = None]})

WriteFails ==
    /\ pc = "run" /\ pending # <<>> /\ pending' = Tail(pending)
    /\ left.faults > 0 /\ left' = [left EXCEPT !.faults = @ - 1]
    /\ disk' \in Cuts
    /\ UNCHANGED <<now, ticked, rings, magic, next, pc, carried, taken, lost, written, ran>>

\* The process stops, in the middle of a write for instance.
Stop ==
    /\ pc # "stopped" /\ pc' = "stopped"
    /\ left.crashes > 0 /\ left' = [left EXCEPT !.crashes = @ - 1]
    /\ disk' \in Cuts
    /\ ticked' = None /\ rings' = NoRings /\ pending' = <<>> /\ carried' = None
    /\ next' = [r \in Regions |-> 0]
    /\ lost' = taken \ UNION {disk'[1][i].of : i \in {j \in DOMAIN disk'[1] : disk'[1][j] # None}}
    /\ UNCHANGED <<now, magic, taken, written, ran>>

Next ==
    \/ Open \/ Create \/ Stamp \/ Unstamp \/ Copy \/ Restamp \/ OpenFails \/ Load
    \/ Elapse \/ Push \/ Write \/ WriteFails \/ Stop

Spec == Init /\ [][Next]_vars

-----------------------------------------------------------------------------
(* Properties.                                                             *)

\* The samples of a ring are in the order of their time, also after they were read back, and
\* there is one of a minute and one of an hour.
InOrder ==
    \A r \in Regions : \A i \in 1 .. Len(rings[r]) - 1 :
        IF r = 1 THEN rings[r][i].t <= rings[r][i + 1].t ELSE rings[r][i].t < rings[r][i + 1].t

Within(t, step) == {k \in taken : k[1] >= t /\ k[1] < t + step}

\* A minute counts all of its ticks but those that a stop has lost, and no other; an hour counts
\* what its minutes count.
AggregatesAreTrue ==
    /\ \A i \in DOMAIN rings[2] :
        LET m == rings[2][i] IN
        m.of \subseteq Within(m.t, Minute) /\ Within(m.t, Minute) \ lost \subseteq m.of
    /\ \A i \in DOMAIN rings[3] :
        LET h == rings[3][i] IN
        /\ h.of \subseteq Within(h.t, Hour)
        /\ \A k \in DOMAIN rings[2] :
            rings[2][k].t >= h.t /\ rings[2][k].t < h.t + Hour => rings[2][k].of \subseteq h.of

\* The file has the newest of what was written to it, all but the one record that a write in
\* progress takes the place of; of two records of one second it may be the older that stays.
FileKeepsNewest ==
    magic = "v3" /\ pc \in {"load", "run", "stopped"} =>
        \A r \in Regions : \A i \in DOMAIN written[r] :
            \/ Len(written[r]) - i >= Slots[r] - 1
            \/ \E k \in Used(r) : disk[r][k].t = written[r][i].t

\* mod.rs, Rrd::open: no file is left that is half of the old version.
NoMixture == pc = "load" /\ ~ran => disk \in {Before, Nothing}

=============================================================================
