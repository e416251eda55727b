----------------------------- MODULE RecentFile ------------------------------
(***************************************************************************)
(* The individual records (closed connections, errors, shots, events, log  *)
(* lines): a ring in memory every thread pushes to, of which the history   *)
(* thread appends what is new to a circular region of the file .recent,    *)
(* each record under a serial number.  The process may stop at any point   *)
(* and reads the region back when it starts.                               *)
(* Sources: crates/metrics-recent/src/recent/{ringbuf,ring,errors}.rs,     *)
(* events.rs, crates/metrics/src/persist_recent.rs, crates/rrd/src/rrd.    *)
(***************************************************************************)
EXTENDS Integers, FiniteSets, Sequences, SequencesExt

CONSTANTS
    Causes,         \* what tells one failure from another (ErrorEntry::same_failure)
    Cap,            \* CAP: the rows the ring keeps
    MergeWindow,    \* MERGE_WINDOW
    TickMax,        \* TICK_ERRORS and its likes: records written in one period
    SlotCount,      \* the slots of the region, more than a ring holds
    MaxRecords,     \* bound of the records that are pushed
    MaxFaults,      \* bound of the writes that fail
    MaxCrashes,     \* bound of the restarts
    None

RecentFileAssumption ==
    /\ {Cap, MergeWindow, TickMax, SlotCount} \subseteq Nat \ {0} /\ SlotCount > Cap
    /\ {MaxRecords, MaxFaults, MaxCrashes} \subseteq Nat

Slots == 0 .. SlotCount - 1

VARIABLES
    merges,     \* the ring is ErrorRing, which merges repeated failures
    recording,  \* records::recording(), off with PROXY_RECORDS=off
    buf,        \* FixedRing.buf, oldest first: [id, cause]
    total,      \* FixedRing.total: everything pushed, merged or not
    added,      \* Ring.rows: the rows added
    written,    \* FixedRing.written: the mark up to which rows were taken to be written
    dropped,    \* RecentFile.dropped
    batch,      \* what write_new took and has not written
    disk,       \* the records of the region that a reader accepts: [seq, id, cause], or None
    next,       \* rrd::Ring.next
    seq,        \* Rings.seq
    ids,        \* ghost: the rows that were ever made
    stored,     \* ghost: the ids that were written well, in this order
    faults, crashes

ring == <<merges, recording, buf, total, added, written>>
file == <<disk, next, seq, stored>>
vars == <<merges, recording, buf, total, added, written, dropped, batch, disk, next, seq, ids,
          stored, faults, crashes>>

Init ==
    /\ merges \in BOOLEAN /\ recording \in BOOLEAN
    /\ buf = <<>> /\ total = 0 /\ added = 0 /\ written = 0 /\ dropped = 0
    /\ batch = <<>> /\ disk = [i \in Slots |-> None] /\ next = 0 /\ seq = 1
    /\ ids = 0 /\ stored = <<>> /\ faults = 0 /\ crashes = 0

Smaller(a, b) == IF a < b THEN a ELSE b
Newest(s, n) == SubSeq(s, Len(s) - Smaller(n, Len(s)) + 1, Len(s))

-----------------------------------------------------------------------------
(* The ring in memory.                                                     *)

\* push_wrapping: a full ring loses its oldest row.
Appended(s, row) == Newest(Append(s, row), Cap)

\* Ring::merge looks at the newest rows only.  That it counts the repetition in the row, and
\* moves its time, is left out.
Mergeable(cause) == \E k \in DOMAIN Newest(buf, MergeWindow) : Newest(buf, MergeWindow)[k].cause = cause

\* RecentRing::push, ErrorRing::push.
Push(cause) ==
    /\ recording /\ ids < MaxRecords
    /\ total' = total + 1
    /\ IF merges /\ Mergeable(cause)
       THEN total < MaxRecords + 2 /\ UNCHANGED <<buf, added, ids>>
       ELSE /\ buf' = Appended(buf, [id |-> ids + 1, cause |-> cause])
            /\ added' = added + 1 /\ ids' = ids + 1
    /\ UNCHANGED <<merges, recording, written, dropped, batch, file, faults, crashes>>

Mark_Total == total     \* a variant

\* ErrorRing marks with the rows, the others with everything pushed.
Mark == IF merges THEN added ELSE total

\* take_unwritten: of the rows above the mark that the ring still has, the newest TickMax;
\* the others are counted, and stay in the ring only.
TakeUnwritten ==
    /\ batch = <<>> /\ Mark # written
    /\ LET pending == Smaller(Mark - written, Len(buf)) IN
       /\ batch' = Newest(buf, Smaller(pending, TickMax))
       /\ dropped' = dropped + pending - Smaller(pending, TickMax)
    /\ written' = Mark
    /\ UNCHANGED <<merges, recording, buf, total, added, file, ids, faults, crashes>>

-----------------------------------------------------------------------------
(* The file.                                                               *)

\* write_new, one record: its number is used up whatever happens; after an error the next
\* record goes into the same slot, whose content may be spoiled.
WriteRecord(ok) ==
    /\ batch # <<>>
    /\ batch' = Tail(batch) /\ seq' = seq + 1
    /\ IF ok
       THEN /\ disk' = [disk EXCEPT ![next] = [seq |-> seq, id |-> Head(batch).id, cause |-> Head(batch).cause]]
            /\ next' = (next + 1) % SlotCount
            /\ stored' = Append(stored, Head(batch).id)
            /\ UNCHANGED faults
       ELSE /\ faults < MaxFaults /\ faults' = faults + 1
            /\ disk' \in {disk, [disk EXCEPT ![next] = None]}
            /\ UNCHANGED <<next, stored>>
    /\ UNCHANGED <<ring, dropped, ids, crashes>>

\* rrd::Ring::load: the slots with a record, in the order of their numbers.
Loaded ==
    SetToSortSeq({i \in Slots : disk[i] # None},
                 LAMBDA i, j : disk[i].seq < disk[j].seq \/ (disk[i].seq = disk[j].seq /\ i < j))

\* The process stops, perhaps while it writes a record, and starts: RecentFile::open,
\* decode_tail, Restored::install and finish_restore.  The errors come back as rows of their
\* own.  PROXY_RECORDS may have been changed, and then nothing is put back.
Restart(on, torn) ==
    /\ crashes < MaxCrashes /\ crashes' = crashes + 1
    /\ torn => batch # <<>>
    /\ disk' = IF torn THEN [disk EXCEPT ![next] = None] ELSE disk
    /\ LET order == Loaded'
           tail == Newest(order, Cap)
           back == IF on
                   THEN [k \in DOMAIN tail |->
                         [id |-> disk'[tail[k]].id, cause |-> disk'[tail[k]].cause]]
                   ELSE <<>>
       IN
       /\ next' = IF order = <<>> THEN 0 ELSE (Last(order) + 1) % SlotCount
       /\ seq' = IF order = <<>> THEN 1 ELSE disk'[Last(order)].seq + 1
       /\ buf' = back /\ total' = Len(back) /\ added' = Len(back) /\ written' = Len(back)
    /\ recording' = on /\ dropped' = 0 /\ batch' = <<>>
    /\ UNCHANGED <<merges, ids, stored, faults>>

Next ==
    \/ \E c \in Causes : Push(c)
    \/ TakeUnwritten
    \/ \E b \in BOOLEAN : WriteRecord(b)
    \/ \E on, torn \in BOOLEAN : Restart(on, torn)

Spec == Init /\ [][Next]_vars

-----------------------------------------------------------------------------
(* Properties.                                                             *)

ReadBack == [k \in DOMAIN Loaded |-> disk[Loaded[k]].id]

\* However often the process restarted, and whatever write failed: reading the region gives the
\* records in the order they were made, and none of them twice (Ring::load, next_seq, the marks
\* of take_unwritten and finish_restore).
FileInOrder == \A a, b \in DOMAIN ReadBack : a < b => ReadBack[a] < ReadBack[b]

\* A record that was written is in the region until as many newer ones are written as it has
\* slots, but one: the slot that is being overwritten may be spoiled (Ring::push, Ring::load).
NewestAreKept ==
    \A k \in DOMAIN stored :
        k > Len(stored) - (SlotCount - 1) => \E i \in Slots : disk[i] # None /\ disk[i].id = stored[k]

RecentFileSound == FileInOrder /\ NewestAreKept

=============================================================================
