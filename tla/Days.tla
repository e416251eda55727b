-------------------------------- MODULE Days --------------------------------
(***************************************************************************)
(* What is kept per day: a line in a file that is only appended to         *)
(* (crates/metrics-slo/src/daily) and a snapshot in a file of its own      *)
(* (crates/metrics-slo/src/snapshots), both written by the thread of the   *)
(* history at the first sample of another day (day_rollover.rs), and a     *)
(* snapshot when the process has started and one when it is told to stop.  *)
(* After a restart the day so far is put together from the rows of a       *)
(* minute in the history.                                                  *)
(*                                                                         *)
(* A sample is told by its time; what a line counts is the set of its      *)
(* samples.  Every sample but the first of a process counts a request.     *)
(* The history is taken to be saved with each sample (History models       *)
(* that).  The clock may be set, the process may stop at any point.        *)
(***************************************************************************)
EXTENDS Integers, Sequences, FiniteSets

CONSTANTS
    Day, Minute,    \* SECS_PER_DAY and RESOLUTIONS[SEED_RES], in samples
    FileLines,      \* MAX_BYTES: lines that fit the file
    Keep,           \* days: snapshots to keep
    StartAfter,     \* baseline_after_secs, in samples
    MaxNow,         \* bound: the clock
    MaxStops, MaxFaults, MaxSets,   \* bounds: stops, writes that fail, settings of the clock
    MaxTroubles,    \* bound: of these together
    None

DaysAssumption ==
    /\ {Day, Minute, FileLines, Keep, StartAfter} \subseteq Nat \ {0}
    /\ Minute > 1 /\ Day % Minute = 0
    /\ {MaxNow, MaxStops, MaxFaults, MaxSets, MaxTroubles} \subseteq Nat

VARIABLES
    now, ticked,    \* the clock, and when it was read for the last sample
    pc,
    daily,          \* daily::Writer: seeded, acc, rollover
    count,          \* samples of this process
    done,           \* the day that is finished
    file,           \* the lines of the file, each the records that were appended to it
    rows,           \* history["60"]
    snaps,          \* snapshots::Writer: rollover
    kept, moments,  \* the files of the days, and those of the moments
    taken, firsts,  \* ghost: every sample; those that a process began with
    ends,           \* ghost: the time of the last sample of a process
    made,           \* ghost: the days whose snapshot was written
    left            \* bounds

vars == <<now, ticked, pc, daily, count, done, file, rows, snaps, kept, moments, taken, firsts, ends, made, left>>

\* The process begins late in the first day.
FirstTime == 2 * Day - Minute
DayOf(t) == t \div Day
Times(s) == {k[1] : k \in s}
Highest(s) == IF s = {} THEN 0 ELSE CHOOSE x \in s : \A y \in s : y <= x

Trouble(kind) ==
    /\ left[kind] > 0 /\ left.all > 0
    /\ left' = [left EXCEPT ![kind] = @ - 1, !.all = @ - 1]

\* DayRollover.
Remembers(last) == [day |-> 0, last |-> last]

Init ==
    /\ now = FirstTime /\ ticked = None /\ pc = "stopped"
    /\ daily = [seeded |-> FALSE, acc |-> None, roll |-> Remembers(0)]
    /\ count = 0 /\ done = None /\ file = <<>> /\ rows = <<>>
    /\ snaps = Remembers(0) /\ kept = {} /\ moments = {}
    /\ taken = {} /\ firsts = {} /\ ends = {} /\ made = {}
    /\ left = [stops |-> MaxStops, faults |-> MaxFaults, sets |-> MaxSets, all |-> MaxTroubles]

-----------------------------------------------------------------------------
(* The file of lines: a record may be cut before, in or after its field t, *)
(* or lack the end of its line, and the next one is put behind it.         *)

Cuts == {"before", "in", "after", "end"}

\* is_line: the text of two records is not too long for a line.
IsLine(l) == Len(l) <= 2 /\ l[Len(l)].cut \in {None, "end"}

\* field: the first t of the line, if it is a number.
FieldOf(l) == LET i == IF l[1].cut = "before" /\ Len(l) > 1 THEN 2 ELSE 1
              IN  IF l[i].cut \in {"before", "in"} THEN 0 ELSE l[i].day

ReadLines(f) == SelectSeq(f, IsLine)

\* Variant: what the file has is not looked at.
LastDay_None(f) == 0

\* last_day.
LastDay(f) == LET r == ReadLines(f) IN IF r = <<>> THEN 0 ELSE FieldOf(r[Len(r)])

Ended(l) == l[Len(l)].cut = None

\* The bytes of append.
With(f, record) ==
    IF f # <<>> /\ ~Ended(f[Len(f)])
    THEN [f EXCEPT ![Len(f)] = Append(@, record)]
    ELSE Append(f, <<record>>)

Size(f) == Len(f)

-----------------------------------------------------------------------------
(* Start and end of the process.                                           *)

\* Both configure, and what persist::start reads back.
Run ==
    /\ pc = "stopped" /\ pc' = "run"
    /\ daily' = [seeded |-> FALSE, acc |-> None, roll |-> Remembers(LastDay(file))]
    /\ snaps' = Remembers(Highest(kept))
    /\ ticked' = None /\ count' = 0 /\ done' = None
    /\ UNCHANGED <<now, file, rows, kept, moments, taken, firsts, ends, made, left>>

\* stale_moments: the surplus of the oldest, and those out of their time.
Stale(mine, t) ==
    {m \in mine : Cardinality({o \in mine : o >= m}) > Keep \/ m < t - Keep * Day}

\* write_moment.
WithMoment(kind) ==
    LET mine == {m[1] : m \in {n \in moments : n[2] = kind}} \cup {now}
    IN  {m \in moments : m[2] # kind} \cup {<<t, kind>> : t \in mine \ Stale(mine, now)}

EndOfProcess ==
    /\ Trouble("stops")
    /\ pc' = "stopped"
    /\ ends' = IF ticked = None THEN ends ELSE ends \cup {ticked}
    /\ UNCHANGED <<now, ticked, daily, count, done, rows, snaps, kept, taken, firsts, made>>

\* take_shutdown waits for the thread of the history to be out of the writer.
ShutDown ==
    /\ pc \notin {"stopped", "put", "prune"}
    /\ moments' = WithMoment("shutdown")
    /\ UNCHANGED file /\ EndOfProcess

\* The process is killed, in the middle of append for instance.
Kill ==
    /\ pc # "stopped" /\ UNCHANGED moments
    /\ \/ UNCHANGED file
       \/ /\ pc = "append"
          /\ \E c \in Cuts \cup {None} : file' = With(file, [done EXCEPT !.cut = c])
    /\ EndOfProcess

Elapse ==
    /\ pc = "stopped" \/ (pc = "run" /\ ticked = now)
    /\ now < MaxNow /\ now' = now + 1
    /\ UNCHANGED <<ticked, pc, daily, count, done, file, rows, snaps, kept, moments, taken, firsts, ends, made, left>>

\* The clock is set, back or ahead, by a day.
SetClock ==
    /\ pc = "run" /\ Trouble("sets")
    /\ now' \in {now - Day, now + Day} /\ now' >= Day /\ now' <= MaxNow
    /\ UNCHANGED <<ticked, pc, daily, count, done, file, rows, snaps, kept, moments, taken, firsts, ends, made>>

-----------------------------------------------------------------------------
(* daily::tick.                                                            *)

\* DayRollover::cross: the day that is finished.
Crossed(roll, t) == IF roll.day \notin {0, DayOf(t)} THEN roll.day ELSE None

OnDay(roll, t) == [roll EXCEPT !.day = DayOf(t)]

\* DayRollover::written.
Written(roll, day) == day <= roll.last

\* Acc::start_at.
StartAt(t, at) ==
    [day |-> DayOf(t), of |-> {}, samples |-> 0, seeded |-> 0, from |-> at, to |-> at]

\* Acc::add: the sample, and where the counter of the requests is.
Add(acc, k, at) == [acc EXCEPT !.of = @ \cup {k}, !.samples = @ + 1, !.to = at]

\* Variant: the rows of the day before are taken too.
SeedRows_All(t) == {i \in DOMAIN rows : rows[i].t < t - 1}

\* The rows of today that were there before the first sample.
SeedRows(t) == {i \in DOMAIN rows : rows[i].t >= DayOf(t) * Day /\ rows[i].t < t - 1}

\* Writer::seed, with Acc::add_seed for each row.
Seeded(t) ==
    LET use == SeedRows(t)
        of == UNION {rows[i].of : i \in use}
    IN  IF use = {} THEN None
        ELSE [StartAt(t, 0) EXCEPT !.of = of, !.samples = Cardinality(of), !.seeded = Cardinality(of \ firsts)]

Line(acc) == [day |-> acc.day, of |-> acc.of, samples |-> acc.samples,
              requests |-> acc.seeded + acc.to - acc.from, cut |-> None]

\* Variant: the sample that ends a day belongs to the next one, whose requests it begins.
NextDay_Late(old, k, t, at) == Add(StartAt(t, at), k, at)

\* The sample of the border has been added to the day that ends.
NextDay(old, k, t, at) == StartAt(t, at)

\* Writer::add and the first half of finish.
Tick ==
    /\ pc = "run" /\ ticked # now /\ ticked' = now /\ count' = count + 1
    /\ LET k == <<now, Cardinality({x \in taken : x[1] = now})>>
           before == IF daily.seeded THEN daily.acc ELSE Seeded(now)
           open == IF before = None THEN StartAt(now, count) ELSE before
           over == Crossed(daily.roll, now)
           sum == Add(open, k, count)
           finished == before # None /\ over # None
       IN  /\ taken' = taken \cup {k}
           /\ firsts' = IF count = 0 THEN firsts \cup {k} ELSE firsts
           /\ done' = IF finished THEN Line(sum) ELSE None
           /\ daily' = [seeded |-> TRUE, roll |-> OnDay(daily.roll, now),
                        acc |-> IF finished THEN NextDay(sum, k, now, count) ELSE sum]
           /\ pc' = IF finished /\ ~Written(daily.roll, sum.day) THEN "append" ELSE "cross"
    /\ UNCHANGED <<now, file, rows, snaps, kept, moments, ends, made, left>>

\* append, and mark_written when it did not fail.
AppendLine ==
    /\ pc = "append" /\ file' = With(file, done)
    /\ IF Size(file') > FileLines
       THEN pc' = "trim" /\ UNCHANGED daily
       ELSE pc' = "cross" /\ daily' = [daily EXCEPT !.roll.last = done.day]
    /\ UNCHANGED <<now, ticked, count, done, rows, snaps, kept, moments, taken, firsts, ends, made, left>>

AppendFails ==
    /\ pc = "append" /\ pc' = "cross"
    /\ Trouble("faults")
    /\ \/ UNCHANGED file
       \/ \E c \in Cuts : file' = With(file, [done EXCEPT !.cut = c])
    /\ UNCHANGED <<now, ticked, daily, count, done, rows, snaps, kept, moments, taken, firsts, ends, made>>

Newest(f, n) == SubSeq(f, IF Len(f) > n THEN Len(f) - n + 1 ELSE 1, Len(f))

\* trim, and mark_written.
Trim ==
    /\ pc = "trim" /\ pc' = "cross"
    /\ file' = Newest(ReadLines(file), FileLines)
    /\ daily' = [daily EXCEPT !.roll.last = done.day]
    /\ UNCHANGED <<now, ticked, count, done, rows, snaps, kept, moments, taken, firsts, ends, made, left>>

\* The line is there, and is not known to be.
TrimFails ==
    /\ pc = "trim" /\ pc' = "cross"
    /\ Trouble("faults")
    /\ UNCHANGED <<now, ticked, daily, count, done, file, rows, snaps, kept, moments, taken, firsts, ends, made>>

-----------------------------------------------------------------------------
(* snapshots::tick, and the rest of the sample.                            *)

\* snapshots Writer::add up to its file.
Cross ==
    /\ pc = "cross" /\ snaps' = OnDay(snaps, now)
    /\ LET over == Crossed(snaps, now) IN
        IF over # None /\ ~Written(snaps, over)
        THEN pc' = "put" /\ done' = over
        ELSE pc' = "push" /\ done' = None
    /\ UNCHANGED <<now, ticked, daily, count, file, rows, kept, moments, taken, firsts, ends, made, left>>

\* put: another name and a rename.
Put ==
    /\ pc = "put" /\ pc' = "prune"
    /\ kept' = kept \cup {done} /\ made' = made \cup {done}
    /\ snaps' = [snaps EXCEPT !.last = done]
    /\ UNCHANGED <<now, ticked, daily, count, done, file, rows, moments, taken, firsts, ends, left>>

\* It is too large, there is no room or the write fails; there is no second try.
PutFails ==
    /\ pc = "put" /\ pc' = "push"
    /\ Trouble("faults")
    /\ UNCHANGED <<now, ticked, daily, count, done, file, rows, snaps, kept, moments, taken, firsts, ends, made>>

\* Variant: one more is kept.
Surplus_More == {d \in kept : Cardinality({e \in kept : e >= d}) > Keep + 1}

\* prune: by their names, the oldest first.
Surplus == {d \in kept : Cardinality({e \in kept : e >= d}) > Keep}

Prune ==
    /\ pc = "prune" /\ pc' = "push" /\ kept' = kept \ Surplus
    /\ UNCHANGED <<now, ticked, daily, count, done, file, rows, snaps, moments, taken, firsts, ends, made, left>>

\* History::push rolls the minute that is over, and take_start_if_due.
Push ==
    /\ pc = "push" /\ pc' = "run"
    /\ LET t == (ticked \div Minute) * Minute - Minute
           of == {k \in taken : k[1] >= t /\ k[1] < t + Minute}
       IN  rows' = IF of = {} \/ (rows # <<>> /\ rows[Len(rows)].t >= t) THEN rows
                   ELSE Append(rows, [t |-> t, of |-> of])
    /\ moments' = IF count = StartAfter THEN WithMoment("start") ELSE moments
    /\ UNCHANGED <<now, ticked, daily, count, done, file, snaps, kept, taken, firsts, ends, made, left>>

Next ==
    \/ Run \/ ShutDown \/ Kill \/ Elapse \/ SetClock
    \/ Tick \/ AppendLine \/ AppendFails \/ Trim \/ TrimFails
    \/ Cross \/ Put \/ PutFails \/ Prune \/ Push

Spec == Init /\ [][Next]_vars

-----------------------------------------------------------------------------
(* Properties.                                                             *)

Records == UNION {{file[i][j] : j \in DOMAIN file[i]} : i \in DOMAIN file}
Complete == {r \in Records : r.cut \in {None, "end"}}
Wild == left.sets < MaxSets
Hurt == left.faults < MaxFaults \/ \E r \in Records : r.cut # None

\* daily/mod.rs:15: a day is not written twice, over restarts, and the lines are in the order of
\* the days; it takes a write that failed and a clock that was set back to have it otherwise.
\* The writer knows the day of the last one.
OneLineADay ==
    /\ Hurt \/ pc \in {"stopped", "append", "trim"} \/ daily.roll.last = LastDay(file)
    /\ (Wild /\ Hurt) \/
      LET r == ReadLines(file)
          Last(l) == l[Len(l)].day
      IN  \A i \in 1 .. Len(r) - 1 : Last(r[i]) < Last(r[i + 1])

\* A line counts each of its samples once, and no sample of another day but the one that ended
\* its own; only such a sample may be in two lines.
LinesAreTrue ==
    \A r \in Complete :
        /\ r.samples = Cardinality(r.of) /\ r.requests = Cardinality(r.of \ firsts)
        /\ Wild \/ \A k \in r.of : DayOf(k[1]) # r.day =>
                        DayOf(k[1]) > r.day /\ \A x \in r.of : x[1] <= k[1]
        /\ Wild \/ \A q \in Complete : q.day > r.day =>
                        Cardinality(r.of \cap q.of) <= 1 /\ \A k \in r.of \cap q.of : DayOf(k[1]) = q.day

\* What a line lacks of its day is of the minute in which a process stopped or of the one before
\* it, which that process may not have come to fold, or ended the day before.
WholeDay ==
    \A r \in Complete :
        Wild \/
        \A k \in taken : DayOf(k[1]) = r.day /\ k \notin r.of =>
            \/ \E t \in ends : t \div Minute - k[1] \div Minute \in {0, 1}
            \/ \A x \in taken : DayOf(x[1]) = r.day => x[1] >= k[1]

\* A snapshot has the name of a day that is over.  None is lost of the newest that were written,
\* and neither is that of the start of this process; no more are kept than are to be,
\* but for a process that stopped before it took the oldest away.
DaysAreKept ==
    /\ Wild \/ \A d \in made : d < DayOf(now)
    /\ Wild \/ pc # "run" \/ count < StartAfter \/ \E m \in moments : m[2] = "start"
    /\ \A d \in made : Cardinality({e \in made : e >= d}) <= Keep => d \in kept
    /\ pc = "run" => Cardinality(kept) <= Keep + MaxStops - left.stops
    /\ \A kind \in {"start", "shutdown"} : Cardinality({m \in moments : m[2] = kind}) <= Keep

=============================================================================
