----------------------------- MODULE DiskTier ------------------------------
(***************************************************************************)
(* The disk tier of the cache (crates/cachedisk): an index in memory under *)
(* one lock, a file per entry, and bodies that are written while they      *)
(* arrive.                                                                 *)
(*                                                                         *)
(* An entry of key k that can be revalidated is the file <<k, TRUE>>       *)
(* (.vcache), another one <<k, FALSE>> (.cache).  A writer reserves room   *)
(* in an atomic counter before it writes to its temporary file, evicts     *)
(* entries for it, and renames the file and enters it in the index in one  *)
(* critical section.  A reader looks into the index first and opens the    *)
(* file after it has let the lock go.  The expiry of an entry is kept in   *)
(* the index, in the header of its file and in the file's mtime, from      *)
(* which a restart builds the index again.                                 *)
(*                                                                         *)
(* Sizes count units; a header is one.  The ballast file is left out       *)
(* (PROXY_CACHE_RESERVE off), and any entry may be the least recently used.*)
(***************************************************************************)
EXTENDS Integers, FiniteSets, FiniteSetsExt, SequencesExt

CONSTANTS
    Keys,
    Writers,        \* threads that store a body
    Users,          \* threads that do anything else
    Capacities,     \* values the budget gives entry_capacity
    MaxObject,      \* PROXY_CACHE_MAX_OBJECT, what one body may take
    Lengths,        \* values of Content-Length
    RoomStep,       \* ROOM_STEP: what is reserved ahead
    EntryCaps,      \* values of max_entries a start of the process may set
    Metas,          \* what bodies are stored with: when they expire, and whether
                    \* they have a validator
    MaxStale,       \* how long a stale entry is kept for revalidation
    MaxNow,         \* bound of the clock
    MaxStores,      \* bound of the number of bodies committed
    None

Meta == [expires : Nat, validators : BOOLEAN]
Entry == [ver : 0..MaxStores, size : Nat, expires : Nat, validators : BOOLEAN]
File == [ver : 0..MaxStores, size : Nat, expires : Nat, mtime : Nat]

SizeAssumption ==
    /\ Capacities \subseteq Nat /\ Capacities # {} /\ Lengths \subseteq Nat
    /\ MaxObject \in Nat /\ RoomStep \in Nat
    /\ EntryCaps \subseteq Nat \ {0} /\ EntryCaps # {}
TimeAssumption ==
    /\ Metas \subseteq [expires : Nat, validators : BOOLEAN]
    /\ MaxStale \in Nat /\ MaxNow \in Nat /\ MaxStores \in Nat
\* There is a largest capacity: it is a machine integer.
TierAssumption ==
    /\ IsFiniteSet(Keys) /\ IsFiniteSet(Writers) /\ Writers # {}
    /\ \E most \in Capacities : \A c \in Capacities : c <= most
    /\ None \notin Keys \cup Nat \cup Entry \cup File \cup Meta

VARIABLES
    index,          \* DiskTier.index: the entries
    files,          \* the entry files on the disk
    capacity,       \* DiskTier.entry_capacity
    inFlight,       \* DiskTier.in_flight
    maxEntries,     \* DiskTier.max_entries
    writer,         \* DiskWriter and where its thread is
    user,           \* where the other threads are
    now,            \* the clock
    stores          \* bodies committed so far: names the content of a file

books == <<index, files>>
ambient == <<maxEntries, now, stores>>
vars == <<books, capacity, inFlight, writer, user, ambient>>

NewWriter == [pc |-> "idle", limit |-> 0, written |-> 0, room |-> 0, need |-> 0, cap |-> 0,
              seen |-> 0]
NewUser == [pc |-> "idle", key |-> None, snap |-> None, todo |-> {}, cap |-> 0,
            time |-> 0]

Indexed == {k \in Keys : index[k] # None}
\* The sum of the numbers size[x]: so many places there are, size[x] of them for each x.
Places(size, S) == UNION {{x} \X (1 .. size[x]) : x \in S}
Total(size, S) == Cardinality(Places(size, S))
SizeOf(table) == [k \in Keys |-> IF table[k] = None THEN 0 ELSE table[k].size]
Bytes == Total(SizeOf(index), Keys)         \* index.bytes()
Less(m, n) == Max({m - n, 0})               \* saturating_sub

MetaOf(e) == [expires |-> e.expires, validators |-> e.validators]

\* format.rs: is_servable and is_garbage.
Servable(m, t) == m.expires > t \/ m.validators
Garbage(m) == m.expires <= now /\ (~m.validators \/ m.expires + MaxStale <= now)

WriterStates ==
    [pc : {"idle", "evict", "usage", "check", "reserve", "spare", "slack", "keep", "put",
           "write", "release"},
     limit : Nat, written : Nat, room : Nat, need : Nat, cap : Nat, seen : Nat]
UserStates ==
    [pc : {"idle", "open", "file", "drop", "ask", "mtime", "enforce"},
     key : Keys \cup {None}, snap : Meta \cup {None},
     todo : SUBSET Keys, cap : Nat, time : 0..MaxNow]

TypeOK ==
    /\ index \in [Keys -> Entry \cup {None}]
    /\ files \in [Keys \X BOOLEAN -> File \cup {None}]
    /\ capacity \in Capacities /\ maxEntries \in EntryCaps /\ inFlight \in Nat
    /\ now \in 0..MaxNow /\ stores \in 0..MaxStores
    /\ writer \in [Writers -> WriterStates] /\ user \in [Users -> UserStates]

\* A start with whatever an earlier process has left.
Init ==
    /\ capacity \in Capacities /\ maxEntries \in EntryCaps /\ inFlight = 0
    /\ now = 0 /\ stores = 0
    /\ index \in [Keys -> {None} \cup
         {[ver |-> 0, size |-> 1 + n, expires |-> meta.expires, validators |-> meta.validators] :
             n \in Lengths, meta \in Metas}]
    /\ Bytes <= capacity /\ Cardinality(Indexed) <= maxEntries
    /\ files = [f \in Keys \X BOOLEAN |->
                 LET e == index[f[1]] IN
                 IF e = None THEN None ELSE IF e.validators # f[2] THEN None
                 ELSE [ver |-> 0, size |-> e.size, expires |-> e.expires, mtime |-> e.expires]]
    /\ writer = [w \in Writers |-> NewWriter] /\ user = [u \in Users |-> NewUser]

-----------------------------------------------------------------------------
\* Critical sections of the index lock.

\* The entries of S go, with their files.
Dropped(table, S) == [k \in Keys |-> IF k \in S THEN None ELSE table[k]]
Unlinked(disk, table, S) ==
    [f \in Keys \X BOOLEAN |->
        IF f[1] \in S /\ table[f[1]].validators = f[2] THEN None ELSE disk[f]]

\* pop_lru and the removal of the file.
PopLru(k) == index' = Dropped(index, {k}) /\ files' = Unlinked(files, index, {k})

\* remove: without an entry, both names are tried.
RemoveKey(k) ==
    /\ index' = Dropped(index, {k})
    /\ files' = IF index[k] = None THEN [files EXCEPT ![<<k, TRUE>>] = None, ![<<k, FALSE>>] = None]
                ELSE Unlinked(files, index, {k})

-----------------------------------------------------------------------------
\* The writer.

Step(w, r) == writer' = [writer EXCEPT ![w] = r]
At(w, pc) == writer[w].pc = pc
Go(w, pc) == Step(w, [writer[w] EXCEPT !.pc = pc])

\* ensure_room, its first checks: what cannot fit is given up.
EnsureRoom(r, need) ==
    IF need > r.limit \/ need > capacity THEN [r EXCEPT !.pc = "release"]
    ELSE [r EXCEPT !.pc = "evict", !.need = need, !.cap = capacity]

\* begin and open; a body of unknown length may take a quarter of the capacity.
Begin(w, length) ==
    /\ At(w, "idle") /\ stores < MaxStores
    /\ Step(w, EnsureRoom(
         [NewWriter EXCEPT !.limit = IF length = None THEN Min({MaxObject, capacity \div 4})
                                     ELSE MaxObject],
         1 + IF length = None THEN 0 ELSE length))
    /\ UNCHANGED <<books, capacity, inFlight, user, ambient>>

\* make_room, one round of its loop: each takes the lock anew.
Evict(w) ==
    LET extra == writer[w].need - writer[w].room IN
    /\ At(w, "evict")
    /\ \/ /\ Bytes + inFlight + extra <= writer[w].cap \/ Indexed = {}
          /\ Go(w, "usage")
          /\ UNCHANGED books
       \/ /\ Bytes + inFlight + extra > writer[w].cap
          /\ \E k \in Indexed : PopLru(k)
          /\ UNCHANGED writer
    /\ UNCHANGED <<capacity, inFlight, user, ambient>>

\* ensure_room, its second check: the bytes of the index first, the atomic
\* counters after the lock.
ReadUsage(w) ==
    /\ At(w, "usage")
    /\ Step(w, [writer[w] EXCEPT !.pc = "check", !.seen = Bytes])
    /\ UNCHANGED <<books, capacity, inFlight, user, ambient>>

Check(w) ==
    /\ At(w, "check")
    /\ Step(w, [writer[w] EXCEPT !.seen = 0,
                 !.pc = IF writer[w].seen + inFlight + writer[w].need - writer[w].room > capacity
                        THEN "release" ELSE "reserve"])
    /\ UNCHANGED <<books, capacity, inFlight, user, ambient>>

\* The room is reserved some steps after the check.
Reserve(w) ==
    /\ At(w, "reserve")
    /\ inFlight' = inFlight + writer[w].need - writer[w].room
    /\ Step(w, [writer[w] EXCEPT !.pc = "spare", !.room = writer[w].need])
    /\ UNCHANGED <<books, capacity, user, ambient>>

\* free_room: the capacity and the bytes of the index, then the counter.
ReadSpare(w) ==
    /\ At(w, "spare")
    /\ Step(w, [writer[w] EXCEPT !.pc = "slack", !.seen = Bytes, !.cap = capacity])
    /\ UNCHANGED <<books, capacity, inFlight, user, ambient>>

\* Room for later chunks, if there is any.
Slack(w) ==
    LET slack == Min({Less(Less(writer[w].cap, writer[w].seen), inFlight), RoomStep}) IN
    /\ At(w, "slack")
    /\ Step(w, [writer[w] EXCEPT !.pc = IF slack > 0 THEN "keep" ELSE "put",
                                 !.cap = slack, !.seen = 0])
    /\ UNCHANGED <<books, capacity, inFlight, user, ambient>>

\* Variant: the room kept ahead is not entered in the writer.
Keep_Unnoted(w) ==
    /\ At(w, "keep")
    /\ inFlight' = inFlight + writer[w].cap
    /\ Go(w, "put")
    /\ UNCHANGED <<books, capacity, user, ambient>>

Keep(w) ==
    /\ At(w, "keep")
    /\ inFlight' = inFlight + writer[w].cap
    /\ Step(w, [writer[w] EXCEPT !.pc = "put", !.room = @ + writer[w].cap, !.cap = 0])
    /\ UNCHANGED <<books, capacity, user, ambient>>

\* The temporary file is created and gets its header, or a chunk is written.
Put(w) ==
    /\ At(w, "put")
    /\ \/ Step(w, [writer[w] EXCEPT !.pc = "write", !.need = 0,
                                    !.written = IF @ = 0 THEN 1 ELSE writer[w].need])
       \/ Step(w, [writer[w] EXCEPT !.pc = "release", !.written = 0])    \* no space left
    /\ UNCHANGED <<books, capacity, inFlight, user, ambient>>

\* A chunk arrives.
Write(w) ==
    LET next == writer[w].written + 1 IN
    /\ At(w, "write")
    /\ Step(w, IF next <= writer[w].room THEN [writer[w] EXCEPT !.pc = "put", !.need = next]
               ELSE EnsureRoom(writer[w], next))
    /\ UNCHANGED <<books, capacity, inFlight, user, ambient>>

\* The body is cut off, or finish cannot write it or rename it.
Abort(w) ==
    /\ At(w, "write")
    /\ Step(w, [writer[w] EXCEPT !.pc = "release", !.written = 0])
    /\ UNCHANGED <<books, capacity, inFlight, user, ambient>>

\* What a writer has in hand.  The key and the meta of a body are decided when it
\* begins and play no part before its file is renamed: they are chosen there.
NewEntry(w, meta) == [ver |-> stores + 1, size |-> writer[w].written,
                      expires |-> meta.expires, validators |-> meta.validators]
NewFile(w, meta) == [ver |-> stores + 1, size |-> writer[w].written,
                     expires |-> meta.expires, mtime |-> meta.expires]

\* The rename puts the file in the place of one with the same name ...
Renamed(w, k, meta) == [files EXCEPT ![<<k, meta.validators>>] = NewFile(w, meta)]
\* Variant: only the file of the new name is looked after.
Replaced_LeavesTwin(w, k, meta) == Renamed(w, k, meta)

\* ... and the one with the other name is removed, if the index knew the key by that.
Replaced(w, k, meta) ==
    IF index[k] = None \/ index[k].validators = meta.validators THEN Renamed(w, k, meta)
    ELSE [Renamed(w, k, meta) EXCEPT ![<<k, ~meta.validators>>] = None]

\* Variant: the entry cap is not looked at.
Surplus_None(entered) == {{}}

\* enforce_entry_cap: what may be evicted to keep to max_entries.
Surplus(entered) ==
    LET many == {k \in Keys : entered[k] # None} IN
    kSubset(Less(Cardinality(many), maxEntries), many)

\* commit: rename, insert, removal of the file of the other name and
\* enforce_entry_cap are one critical section; the room is still reserved.
Commit(w, k, meta) ==
    LET entered == [index EXCEPT ![k] = NewEntry(w, meta)] IN
    /\ At(w, "write") /\ stores < MaxStores
    /\ \E S \in Surplus(entered) :
         /\ index' = Dropped(entered, S)
         /\ files' = Unlinked(Replaced(w, k, meta), entered, S)
    /\ stores' = stores + 1
    /\ Step(w, [writer[w] EXCEPT !.pc = "release", !.written = 0])
    /\ UNCHANGED <<capacity, inFlight, user, maxEntries, now>>

\* Variant: the room is returned by finish and again by drop.
Release_Twice(w) ==
    /\ At(w, "release")
    /\ inFlight' = inFlight - 2 * writer[w].room
    /\ Step(w, NewWriter)
    /\ UNCHANGED <<books, capacity, user, ambient>>

\* release_room, on every way out.
Release(w) ==
    /\ At(w, "release")
    /\ inFlight' = inFlight - writer[w].room
    /\ Step(w, NewWriter)
    /\ UNCHANGED <<books, capacity, user, ambient>>

-----------------------------------------------------------------------------
\* Everything else: requests, the sweeper, the prober of the budget.

Become(u, r) == user' = [user EXCEPT ![u] = r]
Is(u, pc) == user[u].pc = pc
Doom(u, S) == Become(u, [NewUser EXCEPT !.pc = "drop", !.todo = S])

\* open_disk_hit, with the time of the request: an entry that cannot be served is
\* removed later on.
Get(u, k) ==
    /\ Is(u, "idle") /\ index[k] # None
    /\ IF Servable(index[k], now)
       THEN Become(u, [NewUser EXCEPT !.pc = "open", !.key = k, !.time = now])
       ELSE Doom(u, {k})
    /\ UNCHANGED <<books, capacity, inFlight, writer, ambient>>

\* open looks into the index a second time.
Look(u) ==
    LET k == user[u].key IN
    /\ Is(u, "open")
    /\ IF index[k] = None THEN Doom(u, {k})
       ELSE Become(u, [user[u] EXCEPT !.pc = "file", !.snap = MetaOf(index[k])])
    /\ UNCHANGED <<books, capacity, inFlight, writer, ambient>>

\* The file is opened without the lock, its header is read, and it is served.  A
\* file that is not there, or an entry that cannot be served by the later one of
\* the two expiries, is removed later on; an error that may pass is not.
Open(u) ==
    LET snap == user[u].snap
        file == files[<<user[u].key, snap.validators>>]
        expires == Max({file.expires, snap.expires}) IN
    /\ Is(u, "file")
    /\ \/ Become(u, NewUser)
       \/ /\ IF file = None THEN TRUE ELSE ~Servable([snap EXCEPT !.expires = expires], user[u].time)
          /\ Doom(u, {user[u].key})
    /\ UNCHANGED <<books, capacity, inFlight, writer, ambient>>

\* sweep collects the garbage under the lock and removes it key by key.
Sweep(u) ==
    LET garbage == {k \in Indexed : Garbage(index[k])} IN
    /\ Is(u, "idle") /\ garbage # {}
    /\ Doom(u, garbage)
    /\ UNCHANGED <<books, capacity, inFlight, writer, ambient>>

\* The removal a reader or the sweeper has decided on; the entry may be a newer one
\* by now.
Drop(u) ==
    /\ Is(u, "drop")
    /\ \E k \in user[u].todo :
         /\ RemoveKey(k)
         /\ IF user[u].todo = {k} THEN Become(u, NewUser)
            ELSE Become(u, [user[u] EXCEPT !.todo = @ \ {k}])
    /\ UNCHANGED <<capacity, inFlight, writer, ambient>>

\* invalidate
Invalidate(u, k) ==
    /\ Is(u, "idle") /\ RemoveKey(k)
    /\ UNCHANGED <<capacity, inFlight, writer, user, ambient>>

Clear(u) ==
    /\ Is(u, "idle") /\ Indexed # {}
    /\ index' = Dropped(index, Keys) /\ files' = Unlinked(files, index, Indexed)
    /\ UNCHANGED <<capacity, inFlight, writer, user, ambient>>

\* A stale entry that has validators is sent to the origin for revalidation.
Revalidate(u, k) ==
    /\ Is(u, "idle") /\ index[k] # None /\ index[k].validators
    /\ Become(u, [NewUser EXCEPT !.pc = "ask", !.key = k])
    /\ UNCHANGED <<books, capacity, inFlight, writer, ambient>>

\* refresh when the 304 comes: the index under the lock, the mtime after it.
Refresh(u, e) ==
    LET k == user[u].key IN
    /\ Is(u, "ask") /\ e >= now
    /\ IF index[k] = None THEN index' = index /\ Become(u, NewUser)
       ELSE /\ index' = [index EXCEPT ![k].expires = e]
            /\ Become(u, [user[u] EXCEPT !.pc = "mtime", !.snap = MetaOf(index'[k])])
    /\ UNCHANGED <<files, capacity, inFlight, writer, ambient>>

SetMtime(u) ==
    LET f == <<user[u].key, user[u].snap.validators>> IN
    /\ Is(u, "mtime")
    /\ files' = IF files[f] = None THEN files
                ELSE [files EXCEPT ![f].mtime = user[u].snap.expires]
    /\ Become(u, NewUser)
    /\ UNCHANGED <<index, capacity, inFlight, writer, ambient>>

\* The budget changes, and enforce makes room for it.
SetCapacity(u, c) ==
    /\ Is(u, "idle") /\ capacity' = c
    /\ Become(u, [NewUser EXCEPT !.pc = "enforce", !.cap = c])
    /\ UNCHANGED <<books, inFlight, writer, ambient>>

Enforce(u) ==
    /\ Is(u, "enforce")
    /\ \/ /\ Bytes + inFlight <= user[u].cap \/ Indexed = {}
          /\ Become(u, NewUser)
          /\ UNCHANGED books
       \/ /\ Bytes + inFlight > user[u].cap
          /\ \E k \in Indexed : PopLru(k)
          /\ UNCHANGED user
    /\ UNCHANGED <<capacity, inFlight, writer, ambient>>

Tick ==
    /\ now < MaxNow /\ now' = now + 1
    /\ UNCHANGED <<books, capacity, inFlight, writer, user, maxEntries, stores>>

-----------------------------------------------------------------------------
\* The process dies and starts again.

\* The files it may leave: a crash may come inside a commit.
Left ==
    {[files |-> files, stores |-> stores]} \cup
    {[files |-> Renamed(w, k, meta), stores |-> stores + 1] :
        w \in {x \in Writers : At(x, "write") /\ stores < MaxStores}, k \in Keys, meta \in Metas}

\* Variant: an mtime that has passed is taken for the expiry.
Classify_ByMtime(file, v) == [file EXCEPT !.expires = file.mtime]

\* classify: an mtime in the future is the expiry, otherwise the header is read.
Classify(file, v) == IF file.mtime > now THEN [file EXCEPT !.expires = file.mtime] ELSE file

EntryOf(file, v) == [ver |-> file.ver, size |-> file.size, expires |-> file.expires,
                     validators |-> v]

\* scan_shard, one file: garbage and what exceeds max_entries is removed, and of
\* two files of one key the one that lives longer stays.
ScanFile(s, f) ==
    LET k == f[1]
        v == f[2]
        new == EntryOf(Classify(s.files[f], v), v)
        old == s.index[k]
        full == Cardinality({x \in Keys : s.index[x] # None}) >= s.cap
        without == [s EXCEPT !.files[f] = None] IN
    IF s.files[f] = None THEN s
    ELSE IF Garbage(new) \/ full THEN without
    ELSE IF old = None THEN [s EXCEPT !.index[k] = new]
    ELSE IF old.expires > new.expires THEN without
    ELSE [s EXCEPT !.index[k] = new, !.files[<<k, ~v>>] = None]

\* scan_shard: the files one after the other.
Unread(disk, cap) == [index |-> [k \in Keys |-> None], files |-> disk, cap |-> cap]
Scanned(start, order) ==
    LET scan[i \in 0 .. Len(order)] ==
            IF i = 0 THEN start ELSE ScanFile(scan[i - 1], order[i])
    IN  scan[Len(order)]

\* init of the new process, before it serves: the temporary files are removed,
\* the directory is read in any order.
Restart ==
    /\ inFlight' = 0 /\ capacity' \in Capacities /\ UNCHANGED now
    /\ writer' = [w \in Writers |-> NewWriter] /\ user' = [u \in Users |-> NewUser]
    /\ \E left \in Left, cap \in EntryCaps :
       \E order \in SetToSeqs({f \in Keys \X BOOLEAN : left.files[f] # None}) :
         LET scanned == Scanned(Unread(left.files, cap), order)
         IN index' = scanned.index /\ files' = scanned.files /\ maxEntries' = cap
         /\ stores' = left.stores

Next ==
    \/ \E w \in Writers :
         \/ \E n \in Lengths \cup {None} : Begin(w, n)
         \/ \E k \in Keys, meta \in Metas : Commit(w, k, meta)
         \/ Evict(w) \/ ReadUsage(w) \/ Check(w) \/ Reserve(w) \/ ReadSpare(w) \/ Slack(w)
         \/ Keep(w) \/ Put(w) \/ Write(w) \/ Abort(w) \/ Release(w)
    \/ \E u \in Users :
         \/ \E k \in Keys : Get(u, k) \/ Invalidate(u, k) \/ Revalidate(u, k)
         \/ \E meta \in Metas : Refresh(u, meta.expires)
         \/ Look(u) \/ Open(u) \/ Sweep(u) \/ Drop(u) \/ Clear(u) \/ SetMtime(u)
         \/ \E c \in Capacities : SetCapacity(u, c)
         \/ Enforce(u)
    \/ Tick
    \/ Restart

Spec == Init /\ [][Next]_vars

-----------------------------------------------------------------------------
\* The counter of bytes in flight is the room the writers hold, whether a body
\* is committed, cut off, too large or cannot be written.
RoomAccounted == inFlight = Total([w \in Writers |-> writer[w].room], Writers)

\* Index and disk tell the same story whenever the lock is free, after a crash
\* in a commit as well: an entry has its file, of its content and size, and
\* there is no file that nobody would ever remove.  So a reader that finds the
\* file has opened the entry the index has at that moment.
FilesIndexed ==
    \A k \in Keys, v \in BOOLEAN :
        IF index[k] # None /\ index[k].validators = v
        THEN files[<<k, v>>] # None /\ files[<<k, v>>].ver = index[k].ver
                                    /\ files[<<k, v>>].size = index[k].size
        ELSE files[<<k, v>>] = None

Used == Bytes + Total([w \in Writers |-> writer[w].written], Writers)

\* The tier fills no more of the disk than the largest capacity it was given and
\* one body for every other writer, which may have checked before this one
\* reserved; its index keeps to max_entries.  The bound is reached.
UsedBounded ==
    /\ Cardinality(Indexed) <= maxEntries
    /\ \A w \in Writers : writer[w].written <= writer[w].room
    /\ Used <= Max(Capacities) + (Cardinality(Writers) - 1) * (MaxObject + RoomStep)

\* A crash, inside a commit as well, loses no entry that is fresh by its file, in
\* whatever order the files are found, as long as the index may hold them; one
\* that a commit under way may replace counts only if what comes is fresh too.
Survives ==
    {k \in Indexed :
        /\ files[<<k, index[k].validators>>].expires > now
        /\ (\E w \in Writers : At(w, "write")) => \A meta \in Metas : meta.expires > now}
FreshSurviveStep ==
    Cardinality(Indexed') < Min({maxEntries', Cardinality(Survives)}) => ~Restart
FreshSurvive == [][FreshSurviveStep]_vars

\* README.md:832: no object of the tier is larger than PROXY_CACHE_MAX_OBJECT_MB, and
\* writer.rs:57: one of unknown length takes no more than a quarter of it.
BodyWithinLimit == \A w \in Writers : writer[w].written <= writer[w].limit

\* README.md:811-812: whoever stores keeps to the capacity, so it is never exceeded.
WithinCapacity == Used <= Max(Capacities)

-----------------------------------------------------------------------------
\* The inductive invariant.

\* What a body takes at most.
Body == MaxObject + RoomStep

\* What a writer may fill without another look at the books; the temporary file of one that
\* gives up is there until it is removed.
Pledge(r) ==
    IF r.pc = "reserve" THEN r.need
    ELSE IF r.pc = "keep" THEN r.room + r.cap
    ELSE IF r.pc = "release" THEN r.written
    ELSE r.room

\* A writer knows what it asked for, and asks for no more than a body may take.
AsksWithin(r) ==
    /\ r.written <= r.room /\ r.limit <= MaxObject /\ r.room <= Body
    /\ r.pc = "idle" => r.room = 0 /\ r.written = 0
    /\ r.pc \in {"evict", "usage", "check", "reserve"} => r.room < r.need /\ r.need <= MaxObject
    /\ r.pc \in {"spare", "slack", "keep", "put"} => 0 < r.need /\ r.need <= r.room
    /\ r.pc \in {"spare", "slack", "keep"} => r.room <= MaxObject
    /\ r.pc = "slack" => r.cap \in Capacities
    /\ r.pc = "keep" => r.cap <= RoomStep

\* The writers that have read the bytes of the index and are about to read the counter.
Looking == {w \in Writers : writer[w].pc \in {"check", "slack"}}

\* What there will be when each of S has taken as much as a body may.
Grown(S) ==
    Bytes + Total([w \in Writers |-> IF w \in S THEN Body ELSE Pledge(writer[w])], Writers)

\* Whichever of those that look find room, the bound is kept; or one of them has looked so late
\* that what it saw keeps the bound when it finds room.
RoomForEach ==
    \A S \in SUBSET Looking :
        \/ Grown(S) <= Max(Capacities) + (Cardinality(Writers) - 1) * Body
        \/ \E w \in S : Grown(S) <= writer[w].seen + Cardinality(Writers) * Body

\* A thread at an entry has its key, one at a file what the index said of it.
KnowsEntry(r) ==
    /\ r.pc \in {"open", "file", "ask", "mtime"} => r.key \in Keys
    /\ r.pc \in {"file", "mtime"} => r.snap \in Meta

DiskInv ==
    /\ TypeOK /\ RoomAccounted /\ FilesIndexed
    /\ Cardinality(Indexed) <= maxEntries
    /\ \A w \in Writers : AsksWithin(writer[w])
    /\ \A u \in Users : KnowsEntry(user[u])
    /\ RoomForEach

=============================================================================
