------------------------------ MODULE StateFile ------------------------------
(***************************************************************************)
(* A table of statistics and its region of the state file (.rrd): the      *)
(* thread `persist' writes the rows that changed, each into the slot of    *)
(* its name, and clears the slots nobody has any more.  The process may    *)
(* stop between any two writes and in the middle of one; a write may fail. *)
(* Sources: crates/metrics/src/persist.rs, persist/slots.rs,               *)
(* crates/rrd/src/rrd/mod.rs.                                              *)
(***************************************************************************)
EXTENDS Integers, FiniteSets, Sequences, SequencesExt

CONSTANTS
    Names,
    Slots,          \* 1 .. count: the slots of the region
    MaxCount,       \* bound of what a row counts
    MaxFaults,      \* bound of the writes that fail
    MaxCrashes,     \* bound of the restarts
    None

StateFileAssumption == Slots = 1 .. Cardinality(Slots) /\ {MaxCount, MaxFaults, MaxCrashes} \subseteq Nat

VARIABLES
    rows,       \* HostTable.map: name -> what it counts, None without a row
    slots,      \* Slots.slots: name and hash, hash 0 when nobody knows the content
    by_name,    \* Slots.by_name
    disk,       \* the records a reader accepts; None: empty, or its CRC is wrong
    writes, clears,     \* what is left of the plan
    newest,     \* ghost: what was written last for each name
    faults, crashes

vars == <<rows, slots, by_name, disk, writes, clears, newest, faults, crashes>>

Init ==
    /\ rows = [n \in Names |-> None] /\ by_name = [n \in Names |-> None]
    /\ newest = [n \in Names |-> None]
    /\ slots = [i \in Slots |-> None] /\ disk = [i \in Slots |-> None]
    /\ writes = <<>> /\ clears = <<>> /\ faults = 0 /\ crashes = 0

Present == {n \in Names : rows[n] # None}

-----------------------------------------------------------------------------
(* The requests.                                                           *)

CountOne(n) ==
    /\ IF rows[n] = None THEN rows' = [rows EXCEPT ![n] = 1]
       ELSE rows[n] < MaxCount /\ rows' = [rows EXCEPT ![n] = @ + 1]
    /\ UNCHANGED <<slots, by_name, disk, writes, clears, newest, faults, crashes>>

\* evict_oldest_host: the row goes into `other', which is left out here.
EvictHost(n) ==
    /\ rows[n] # None
    /\ rows' = [rows EXCEPT ![n] = None]
    /\ UNCHANGED <<slots, by_name, disk, writes, clears, newest, faults, crashes>>

-----------------------------------------------------------------------------
(* The thread `persist'.                                                   *)

\* visit_top_hosts: as many rows as there are slots, those that count most.
Tops ==
    {T \in SUBSET Present :
        /\ Cardinality(T) = (IF Cardinality(Present) < Cardinality(Slots)
                             THEN Cardinality(Present) ELSE Cardinality(Slots))
        /\ \A a \in T, b \in Present \ T : rows[a] >= rows[b]}

\* plan: the rows whose content changed, in any order, a row without a slot into the lowest
\* free one; the names that dropped out lose their place; the free slots that are left.
Plan ==
    /\ writes = <<>> /\ clears = <<>>
    /\ \E T \in Tops :
        LET placed == {n \in T : by_name[n] # None}
            gone == {i \in Slots : slots[i] = None \/ i \notin {by_name[n] : n \in placed}}
            changed == {n \in T : n \in placed => slots[by_name[n]].hash # rows[n]}
        IN
        \E order \in SetToSeqs(changed) :
            LET fresh == SelectSeq(order, LAMBDA n : n \notin placed)
                free == SetToSortSeq(gone, <)
                place(n) == IF n \in placed THEN by_name[n]
                            ELSE free[CHOOSE k \in DOMAIN fresh : fresh[k] = n]
            IN
            /\ by_name' = [n \in Names |->
                    IF \E i \in gone : slots[i] # None /\ slots[i].name = n THEN None ELSE by_name[n]]
            /\ writes' = [k \in DOMAIN order |->
                    [slot |-> place(order[k]), name |-> order[k], content |-> rows[order[k]]]]
            /\ clears' = Reverse(SubSeq(free, Len(fresh) + 1, Len(free)))
    /\ UNCHANGED <<rows, slots, disk, newest, faults, crashes>>

\* A variant: what is known of the slot is not taken back when the write fails.
Write_Trusts(ok) ==
    /\ writes # <<>>
    /\ LET w == Head(writes) IN
       /\ by_name' = [by_name EXCEPT ![w.name] = w.slot]
       /\ slots' = [slots EXCEPT ![w.slot] = [name |-> w.name, hash |-> w.content]]
       /\ IF ok
          THEN /\ disk' = [disk EXCEPT ![w.slot] = [name |-> w.name, content |-> w.content]]
               /\ newest' = [newest EXCEPT ![w.name] = w.content]
               /\ UNCHANGED faults
          ELSE /\ faults < MaxFaults /\ faults' = faults + 1
               /\ disk' \in {disk, [disk EXCEPT ![w.slot] = None]}
               /\ UNCHANGED newest
    /\ writes' = Tail(writes)
    /\ UNCHANGED <<rows, clears, crashes>>

\* write_table: a record, and what is known of its slot now.  A write that fails may have
\* spoiled it.
Write(ok) ==
    /\ writes # <<>>
    /\ LET w == Head(writes) IN
       /\ by_name' = [by_name EXCEPT ![w.name] = w.slot]
       /\ slots' = [slots EXCEPT ![w.slot] = [name |-> w.name, hash |-> IF ok THEN w.content ELSE 0]]
       /\ IF ok
          THEN /\ disk' = [disk EXCEPT ![w.slot] = [name |-> w.name, content |-> w.content]]
               /\ newest' = [newest EXCEPT ![w.name] = w.content]
               /\ UNCHANGED faults
          ELSE /\ faults < MaxFaults /\ faults' = faults + 1
               /\ disk' \in {disk, [disk EXCEPT ![w.slot] = None]}
               /\ UNCHANGED newest
    /\ writes' = Tail(writes)
    /\ UNCHANGED <<rows, clears, crashes>>

Stale(i) == slots[i] # None /\ by_name[slots[i].name] # i

\* The slots that are left, when all rows are written: the stale ones are cleared.
ClearSlot(ok) ==
    /\ writes = <<>> /\ clears # <<>>
    /\ LET i == Head(clears) IN
       IF ~ Stale(i) THEN ok /\ UNCHANGED <<slots, disk, faults>>
       ELSE IF ok
       THEN /\ slots' = [slots EXCEPT ![i] = None] /\ disk' = [disk EXCEPT ![i] = None]
            /\ UNCHANGED faults
       ELSE /\ faults < MaxFaults /\ faults' = faults + 1
            /\ disk' \in {disk, [disk EXCEPT ![i] = None]}
            /\ UNCHANGED slots
    /\ clears' = Tail(clears)
    /\ UNCHANGED <<rows, by_name, writes, newest, crashes>>

-----------------------------------------------------------------------------
(* The process stops, perhaps within a write, and starts again.            *)

\* from_loaded: the first record of a name has its slot.
FirstOf(d, n) ==
    LET at == {i \in Slots : d[i] # None /\ d[i].name = n}
    IN IF at = {} THEN None ELSE CHOOSE i \in at : \A j \in at : i <= j

\* Metrics::restore puts the records into the map one after the other: the last one stays.
LastOf(d, n) ==
    LET at == {i \in Slots : d[i] # None /\ d[i].name = n}
    IN IF at = {} THEN None ELSE d[CHOOSE i \in at : \A j \in at : i >= j].content

Restart ==
    /\ crashes < MaxCrashes /\ crashes' = crashes + 1
    /\ \E d \in {disk} \cup (IF writes = <<>> THEN {} ELSE {[disk EXCEPT ![Head(writes).slot] = None]}) :
        /\ disk' = d
        /\ rows' = [n \in Names |-> LastOf(d, n)]
        /\ by_name' = [n \in Names |-> FirstOf(d, n)]
        /\ slots' = [i \in Slots |->
                IF d[i] # None /\ FirstOf(d, d[i].name) = i
                THEN [name |-> d[i].name, hash |-> d[i].content] ELSE None]
    /\ writes' = <<>> /\ clears' = <<>>
    /\ UNCHANGED <<newest, faults>>

Next ==
    \/ \E n \in Names : CountOne(n) \/ EvictHost(n)
    \/ Plan \/ \E ok \in BOOLEAN : Write(ok) \/ ClearSlot(ok)
    \/ Restart

Spec == Init /\ [][Next]_vars

-----------------------------------------------------------------------------
\* A row that is taken to be in the file is there, with that very content, whatever failed
\* and whenever the process stopped: it is not written again (`plan', `wrote', `from_loaded').
SkippedIsOnDisk ==
    \A n \in Names : by_name[n] # None /\ ~(\E k \in DOMAIN writes : writes[k].slot = by_name[n]) =>
        LET s == slots[by_name[n]] IN
        /\ s # None /\ s.name = n
        /\ s.hash # 0 => disk[by_name[n]] = [name |-> n, content |-> s.hash]

\* As long as no write has failed a name has one record at most, so that what comes back
\* after a restart is what was written last for it (`plan', `write_table', `open').
RestoredIsNewest ==
    faults = 0 =>
        \A i, j \in Slots :
            /\ disk[i] # None => disk[i].content = newest[disk[i].name]
            /\ i # j /\ disk[i] # None /\ disk[j] # None => disk[i].name # disk[j].name

\* slots.rs: of two records of a name the later one counts as empty.
FirstRecordCounts == [][Restart => \A n \in Names : by_name'[n] # None => rows'[n] = disk'[by_name'[n]].content]_vars

=============================================================================
