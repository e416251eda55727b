------------------------------- MODULE Cache -------------------------------
(***************************************************************************)
(* The cache as requests use it (crates/cache, crates/cachemem/inflight,   *)
(* http/lookup.rs, refresh.rs, the parts of deliver.rs and reply.rs that   *)
(* store): two tiers, the table of variants of a URL, the coalescing of    *)
(* misses and the revalidation in the background.                          *)
(*                                                                         *)
(* One URL is followed, with its key and those of its variants.  A version *)
(* is a representation at the origin; an entry is a head and a body, each  *)
(* of some version.  One action is one lock of one tier or table; what a   *)
(* handler does between two of them with its own variables belongs to the  *)
(* first.  Evictions may hit any entry at any time: which one, and how     *)
(* much room there is, are the subject of MemTier and DiskTier.            *)
(***************************************************************************)
EXTENDS Integers, FiniteSets

CONSTANTS
    Handlers,       \* threads that serve requests
    Jobs,           \* threads of the pool that are free for background work
    Bare,           \* the key of the URL itself
    Variants,       \* the keys of its variants (Accept-Encoding)
    Kinds,          \* the kinds of GET that are sent
    Shapes,         \* what answers may be: small enough for memory, with validators
    PruneDue,       \* may the table of variants be full? a set of BOOLEAN
    MaxRevalidations,
    MaxVersion, MaxAsked,   \* bounds: versions at the origin, requests
    None

Keys == Variants \cup {Bare}
Actors == Handlers \cup Jobs
Versions == 1 .. MaxVersion
Kind == [lookup : BOOLEAN, storable : BOOLEAN, force : BOOLEAN, conditional : BOOLEAN, onlyIfCached : BOOLEAN]
Shape == [small : BOOLEAN, validators : BOOLEAN]

ASSUME CacheAssumption ==
    /\ Bare \notin Variants /\ None \notin Keys \cup Actors
    /\ Handlers \cap Jobs = {}
    /\ Kinds \subseteq Kind /\ Shapes \subseteq Shape /\ PruneDue \subseteq BOOLEAN
    /\ {MaxRevalidations, MaxVersion, MaxAsked} \subseteq Nat

Entry == [head : Versions, body : Versions, shape : Shapes]

ASSUME NoneAssumption ==
    MaxVersion >= 1 /\ None \notin Entry \cup {"stored", "not_stored", "judge", "sink"}

VARIABLES
    mem, disk,      \* the tiers: the entry of each key
    variants,       \* the row of the URL: keys to be purged with it
    flight,         \* InFlightTable: who fetches a key
    revalidating,   \* keys with a background revalidation
    current,        \* the version the origin has
    asked,          \* requests so far
    op,             \* what each thread is doing
    gone            \* ghost: what invalidations have removed

tiers == <<mem, disk>>
tables == <<variants, flight, revalidating>>
vars == <<mem, disk, variants, flight, revalidating, current, asked, op, gone>>

NoOp == [pc |-> "idle", key |-> None, kind |-> None, hit |-> None, stale |-> None, new |-> None,
         store |-> FALSE, role |-> "none", of |-> None, outcome |-> None, todo |-> {}, then |-> None]

Init ==
    /\ mem = [k \in Keys |-> None] /\ disk = [k \in Keys |-> None]
    /\ variants = {} /\ flight = [k \in Keys |-> None] /\ revalidating = {}
    /\ current = 1 /\ asked = 0
    /\ op = [a \in Actors |-> NoOp]
    /\ gone = {}

-----------------------------------------------------------------------------
(* Meta::is_fresh and is_servable.  Whenever an entry is looked at it is   *)
(* fresh, within its grace or past it, by chance: the expiry and what      *)
(* `refresh' and the rewritten heads make of it are left out.              *)

Ages == {"fresh", "grace", "old"}
IsServable(e, age) == age = "fresh" \/ e.shape.validators
Absent(e, age) == IF e = None THEN TRUE ELSE ~ IsServable(e, age)

At(a, pc) == op[a].pc = pc
Key(a) == op[a].key
Go(a, pc) == op' = [op EXCEPT ![a].pc = pc]
Arrives(h) == At(h, "idle") /\ asked < MaxAsked /\ asked' = asked + 1
Answered(a) == op' = [op EXCEPT ![a] = NoOp]

\* Where a handler goes on after Cache::get: one that has waited for a leader serves what
\* is fresh and fetches otherwise, the others judge the entry.
NotFound(h) == IF op[h].role = "follower" THEN "fetch" ELSE "missed"
Found(h, e, age) ==
    op' = [op EXCEPT ![h] =
        IF @.role # "follower" THEN [@ EXCEPT !.pc = IF Key(h) = Bare THEN "judge" ELSE "remember", !.hit = e]
        ELSE IF age = "fresh" THEN NoOp ELSE [@ EXCEPT !.pc = "fetch", !.hit = None]]

-----------------------------------------------------------------------------
(* Cache::get.                                                             *)

\* A GET arrives; a request that may not use the cache goes on at once.
Ask(h, k, q) ==
    /\ Arrives(h)
    /\ op' = [op EXCEPT ![h] = [NoOp EXCEPT !.pc = IF q.lookup THEN "mem" ELSE "missed",
                                            !.key = k, !.kind = q]]
    /\ UNCHANGED <<tiers, tables, current, gone>>

\* MemTier::get drops what can be neither served nor revalidated.
LookMem(h) ==
    /\ At(h, "mem")
    /\ \E age \in Ages :
          LET e == mem[Key(h)] IN
          \/ ~ Absent(e, age) /\ Found(h, e, age) /\ UNCHANGED mem
          \/ /\ Absent(e, age)
             /\ mem' = [mem EXCEPT ![Key(h)] = None]
             /\ Go(h, "disk")
    /\ UNCHANGED <<disk, tables, current, asked, gone>>

\* get_from_disk up to the read of the file: it may be unreadable for now (skipped) or for
\* good (removed, as is what cannot be served).
OpenDisk(h) ==
    /\ At(h, "disk")
    /\ LET e == disk[Key(h)] IN
       \/ Go(h, NotFound(h))
       \/ e # None /\ Go(h, "drop")
       \/ e # None /\ e.shape.small /\ op' = [op EXCEPT ![h].pc = "promote", ![h].hit = e]
       \/ e # None /\ ~ e.shape.small /\ \E age \in Ages : IsServable(e, age) /\ Found(h, e, age)
    /\ UNCHANGED <<tiers, tables, current, asked, gone>>

DropUnreadable(h) ==
    /\ At(h, "drop")
    /\ disk' = [disk EXCEPT ![Key(h)] = None]
    /\ Go(h, NotFound(h))
    /\ UNCHANGED <<mem, tables, current, asked, gone>>

Promote(h) ==
    /\ At(h, "promote")
    /\ mem' = [mem EXCEPT ![Key(h)] = op[h].hit]
    /\ \E age \in Ages : Found(h, op[h].hit, age)
    /\ UNCHANGED <<disk, tables, current, asked, gone>>

-----------------------------------------------------------------------------
(* The table of variants.                                                  *)

\* remember_variant: on a hit, and before a body is stored; the key of the URL has no row.
Remember(a) ==
    /\ At(a, "remember") \/ At(a, "begin")
    /\ variants' = variants \cup {Key(a)}
    /\ LET next == IF At(a, "remember") THEN "judge" ELSE "sink" IN
       \E full \in PruneDue :
          op' = [op EXCEPT ![a].pc = IF full THEN "take" ELSE next, ![a].then = IF full THEN next ELSE @]
    /\ UNCHANGED <<tiers, flight, revalidating, current, asked, gone>>

\* prune_variants: takes the table, looks at the tiers without it, and puts it back.
PruneTake(a) ==
    /\ At(a, "take")
    /\ op' = [op EXCEPT ![a].pc = "retain", ![a].todo = variants]
    /\ variants' = {}
    /\ UNCHANGED <<tiers, flight, revalidating, current, asked, gone>>

PruneRetain(a) ==
    /\ At(a, "retain")
    /\ op' = [op EXCEPT ![a].pc = "putback", ![a].todo = {k \in @ : mem[k] # None \/ disk[k] # None}]
    /\ UNCHANGED <<tiers, tables, current, asked, gone>>

PrunePutBack(a) ==
    /\ At(a, "putback")
    /\ variants' = variants \cup op[a].todo
    /\ op' = [op EXCEPT ![a] = [@ EXCEPT !.pc = op[a].then, !.then = None, !.todo = {}]]
    /\ UNCHANGED <<tiers, flight, revalidating, current, asked, gone>>

-----------------------------------------------------------------------------
(* consult: what to do with a hit.                                         *)

\* begin_revalidation: within the grace, one ticket for a key and so many in all.
MayRevalidate(h, age) ==
    /\ ~ op[h].kind.conditional /\ ~ op[h].kind.force
    /\ age = "grace" /\ op[h].hit.shape.validators
    /\ Key(h) \notin revalidating /\ Cardinality(revalidating) < MaxRevalidations

\* One out of date is kept for revalidation, unless the client sends conditions of its own:
\* then the origin's 304 may only refresh it.
KeepStale(h, pc) ==
    op' = [op EXCEPT ![h].pc = pc, ![h].hit = None,
                     ![h].stale = IF ~ op[h].kind.conditional \/ op[h].hit.shape.validators
                                  THEN op[h].hit ELSE None]

\* A fresh entry is served.  One out of date is served too, with a ticket, and revalidated
\* meanwhile.
Judge(h) ==
    /\ At(h, "judge")
    /\ \E age \in Ages :
         \/ /\ age = "fresh" /\ ~ op[h].kind.force
            /\ Answered(h) /\ UNCHANGED revalidating
         \/ /\ age # "fresh" \/ op[h].kind.force
            /\ \/ /\ MayRevalidate(h, age) /\ KeepStale(h, "spawn")
                  /\ revalidating' = revalidating \cup {Key(h)}
               \/ /\ ~ MayRevalidate(h, age) /\ KeepStale(h, "missed")
                  /\ UNCHANGED revalidating
    /\ UNCHANGED <<tiers, variants, flight, current, asked, gone>>

\* Workers::try_run starts the job and the entry is served out of date...
SpawnJob(h, j) ==
    /\ At(h, "spawn") /\ At(j, "idle")
    /\ op' = [op EXCEPT ![h] = NoOp,
                        ![j] = [NoOp EXCEPT !.pc = "fetch", !.key = Key(h), !.stale = op[h].stale,
                                            !.store = TRUE]]
    /\ UNCHANGED <<tiers, tables, current, asked, gone>>

\* Variant: end_revalidation is only called by the job.
SpawnRefused_KeepsTicket(h) ==
    /\ At(h, "spawn")
    /\ Go(h, "missed")
    /\ UNCHANGED <<tiers, tables, current, asked, gone>>

\* ... or gives it back, and the ticket that it holds is dropped with it.
SpawnRefused(h) ==
    /\ At(h, "spawn")
    /\ revalidating' = revalidating \ {Key(h)}
    /\ Go(h, "missed")
    /\ UNCHANGED <<tiers, variants, flight, current, asked, gone>>

\* What is to be revalidated by the handler itself; whether an answer may be stored: both
\* filters, what is known not to be stored and admission, may say either.
Revalidates(h) == op[h].stale # None /\ ~ op[h].kind.conditional
Stores(h, known, admitted) == op[h].kind.storable /\ (Revalidates(h) \/ known \/ admitted)

Fetch(h, store) == op' = [op EXCEPT ![h].pc = "fetch", ![h].store = store] /\ UNCHANGED flight

\* InFlightTable::begin: the first one leads, the others wait for it.
Begin(h) ==
    \/ /\ flight[Key(h)] = None
       /\ flight' = [flight EXCEPT ![Key(h)] = h]
       /\ op' = [op EXCEPT ![h].pc = "fetch", ![h].store = TRUE, ![h].role = "leader"]
    \/ /\ flight[Key(h)] # None
       /\ op' = [op EXCEPT ![h].pc = "wait", ![h].store = TRUE, ![h].role = "follower",
                           ![h].of = flight[Key(h)]]
       /\ UNCHANGED flight

\* The rest of `consult`: 504 for only-if-cached; a miss that may be stored is coalesced.
GoToOrigin(h) ==
    /\ At(h, "missed")
    /\ \/ op[h].kind.onlyIfCached /\ Answered(h) /\ UNCHANGED flight
       \/ /\ ~ op[h].kind.onlyIfCached
          /\ \E known, admitted \in BOOLEAN :
                IF Stores(h, known, admitted) /\ ~ Revalidates(h) /\ ~ known
                THEN Begin(h) ELSE Fetch(h, Stores(h, known, admitted))
    /\ UNCHANGED <<tiers, variants, revalidating, current, asked, gone>>

-----------------------------------------------------------------------------
(* InFlight and LeaderGuard.                                               *)

\* InFlight::wait returns the outcome, and a stored entry is looked up again.
Woken(h) ==
    /\ At(h, "wait") /\ op[h].outcome # None
    /\ Go(h, IF op[h].outcome = "stored" THEN "mem" ELSE "fetch")
    /\ UNCHANGED <<tiers, tables, current, asked, gone>>

GiveUp(h) ==
    /\ At(h, "wait") /\ op[h].outcome = None
    /\ Go(h, "fetch")
    /\ UNCHANGED <<tiers, tables, current, asked, gone>>

\* InFlightTable::finish: the row goes first, then the followers are told.
Finish(h) ==
    /\ At(h, "finish")
    /\ flight' = [flight EXCEPT ![Key(h)] = None]
    /\ Go(h, "notify")
    /\ UNCHANGED <<tiers, variants, revalidating, current, asked, gone>>

Notify(h) ==
    /\ At(h, "notify")
    /\ op' = [a \in Actors |-> IF a = h THEN NoOp
                               ELSE IF op[a].pc = "wait" /\ op[a].of = h
                               THEN [op[a] EXCEPT !.outcome = op[h].outcome] ELSE op[a]]
    /\ UNCHANGED <<tiers, tables, current, asked, gone>>

-----------------------------------------------------------------------------
(* The answer of the origin.                                               *)

\* How a request ends: a leader completes its flight, a job drops its ticket.
Settled(a, outcome) ==
    op' = [op EXCEPT ![a] =
        IF a \in Jobs THEN [NoOp EXCEPT !.pc = "release", !.key = Key(a)]
        ELSE IF @.role = "leader" THEN [NoOp EXCEPT !.pc = "finish", !.key = Key(a), !.role = "leader", !.outcome = outcome]
        ELSE NoOp]

\* 304: the origin has the version of the head in hand.  It may name another one or forbid
\* storing, extend the entry, or change its head (reply.rs, apply_not_modified).
NotModified(a) ==
    /\ At(a, "fetch") /\ op[a].stale # None
    /\ op[a].stale.head = current
    /\ \/ Settled(a, "not_stored")
       \/ \E next \in {"remove", "merge"} :
             op' = [op EXCEPT ![a].pc = next, ![a].new = op[a].stale, ![a].stale = None]
    /\ UNCHANGED <<tiers, tables, current, asked, gone>>

\* The representation that the origin has now.
Latest(shape) == [head |-> current, body |-> current, shape |-> shape]

\* A new representation that is stored, or one that is not: then an entry that was to be
\* revalidated goes.
NewVersion(a) ==
    /\ At(a, "fetch")
    /\ \/ /\ op[a].store
          /\ \E s \in Shapes :
                op' = [op EXCEPT ![a].pc = IF Key(a) = Bare THEN "sink" ELSE "begin", ![a].stale = None,
                                 ![a].new = Latest(s)]
       \/ IF op[a].stale # None /\ (a \in Jobs \/ ~ op[a].kind.conditional)
          THEN op' = [op EXCEPT ![a].pc = "remove", ![a].stale = None] ELSE Settled(a, "not_stored")
    /\ UNCHANGED <<tiers, tables, current, asked, gone>>

\* Variant: a guard that does nothing when it is dropped.
NothingNew_KeepsFlight(a) ==
    /\ At(a, "fetch") \/ At(a, "sink")
    /\ IF a \in Jobs THEN Settled(a, "not_stored") ELSE Answered(a)
    /\ UNCHANGED <<tiers, tables, current, asked, gone>>

\* No answer, an answer of 5xx, a 304 that selects nothing, a broken body of the client:
\* nothing is stored and what is there stays.  A panic ends the same way, since guards
\* and tickets are dropped.
NothingNew(a) ==
    /\ At(a, "fetch") \/ At(a, "sink")
    /\ Settled(a, "not_stored")
    /\ UNCHANGED <<tiers, tables, current, asked, gone>>

-----------------------------------------------------------------------------
(* StoreSink::finish: memory, then disk; either may fail to take the body. *)

StoreMem(a) ==
    /\ At(a, "sink")
    /\ \/ op[a].new.shape.small /\ mem' = [mem EXCEPT ![Key(a)] = op[a].new]
       \/ ~ op[a].new.shape.small /\ UNCHANGED mem
    /\ Go(a, "commit")
    /\ UNCHANGED <<disk, tables, current, asked, gone>>

StoreDisk(a) ==
    /\ At(a, "commit")
    /\ \/ /\ disk' = [disk EXCEPT ![Key(a)] = op[a].new]
          /\ Settled(a, "stored")
       \/ /\ Settled(a, IF op[a].new.shape.small THEN "stored" ELSE "not_stored")
          /\ UNCHANGED disk
    /\ UNCHANGED <<mem, tables, current, asked, gone>>

-----------------------------------------------------------------------------
(* refresh and refresh_with_head.                                          *)

\* The merged head is put before the body that memory has now, under another lock.
MergeMem(a) ==
    /\ At(a, "merge")
    /\ \E age \in Ages :
          LET e == mem[Key(a)] IN
          \/ /\ ~ Absent(e, age)
             /\ op' = [op EXCEPT ![a].pc = "merge_put", ![a].hit = [e EXCEPT !.head = op[a].new.head]]
             /\ UNCHANGED mem
          \/ /\ Absent(e, age)
             /\ mem' = [mem EXCEPT ![Key(a)] = None]
             /\ Go(a, "merge_disk")
    /\ UNCHANGED <<disk, tables, current, asked, gone>>

MergePut(a) ==
    /\ At(a, "merge_put")
    /\ mem' = [mem EXCEPT ![Key(a)] = op[a].hit]
    /\ op' = [op EXCEPT ![a].pc = "merge_disk", ![a].hit = None]
    /\ UNCHANGED <<disk, tables, current, asked, gone>>

\* replace_disk_head: a copy of the body that the disk has now; without it, only the
\* expiry changes.
MergeDisk(a) ==
    /\ At(a, "merge_disk")
    /\ LET e == disk[Key(a)] IN
       \/ /\ e # None
          /\ op' = [op EXCEPT ![a].pc = "merge_commit", ![a].hit = [e EXCEPT !.head = op[a].new.head]]
       \/ Settled(a, "not_stored")
    /\ UNCHANGED <<tiers, tables, current, asked, gone>>

MergeCommit(a) ==
    /\ At(a, "merge_commit")
    /\ \/ disk' = [disk EXCEPT ![Key(a)] = op[a].hit]
       \/ UNCHANGED disk
    /\ Settled(a, "not_stored")
    /\ UNCHANGED <<mem, tables, current, asked, gone>>

\* Cache::remove.
RemoveMem(a) ==
    /\ At(a, "remove")
    /\ mem' = [mem EXCEPT ![Key(a)] = None]
    /\ Go(a, "remove_disk")
    /\ UNCHANGED <<disk, tables, current, asked, gone>>

RemoveDisk(a) ==
    /\ At(a, "remove_disk")
    /\ disk' = [disk EXCEPT ![Key(a)] = None]
    /\ Settled(a, "not_stored")
    /\ UNCHANGED <<mem, tables, current, asked, gone>>

\* Revalidating::drop.
Release(j) ==
    /\ At(j, "release")
    /\ revalidating' = revalidating \ {Key(j)}
    /\ Answered(j)
    /\ UNCHANGED <<tiers, variants, flight, current, asked, gone>>

-----------------------------------------------------------------------------
(* Cache::invalidate after a request that changes the origin, and clear_all.*)

\* The row is taken under the lock of the table, the keys are removed without it.
Invalidate(h) ==
    /\ Arrives(h) /\ current < MaxVersion
    /\ current' = current + 1
    /\ op' = [op EXCEPT ![h].pc = "purge", ![h].todo = variants \cup {Bare},
                        ![h].then = current']
    /\ variants' = {}
    /\ UNCHANGED <<tiers, flight, revalidating, gone>>

PurgeMem(h, k) ==
    /\ At(h, "purge") /\ k \in op[h].todo
    /\ mem' = [mem EXCEPT ![k] = None]
    /\ op' = [op EXCEPT ![h].pc = "purge_disk", ![h].key = k]
    /\ UNCHANGED <<disk, tables, current, asked, gone>>

InHand(k, v) ==
    \E a \in Actors : Key(a) = k /\ \E e \in {op[a].hit, op[a].stale, op[a].new} : e # None /\ e.body = v

\* Variant: what was found in memory is not looked for on disk.
PurgeDisk_ShortCircuit(h) ==
    /\ At(h, "purge_disk")
    /\ LET k == Key(h) IN
       /\ disk' = IF mem[k] = None /\ disk[k] # None THEN disk ELSE [disk EXCEPT ![k] = None]
       /\ gone' = gone \cup {kv \in {k} \X Versions : kv[2] < op[h].then /\ ~ InHand(k, kv[2])}
       /\ op' = [op EXCEPT ![h].pc = "purge", ![h].key = None, ![h].todo = @ \ {k}]
    /\ UNCHANGED <<mem, tables, current, asked>>

\* What is older than the invalidation and in nobody's hands cannot come back.
PurgeDisk(h) ==
    /\ At(h, "purge_disk")
    /\ LET k == Key(h) IN
       /\ disk' = [disk EXCEPT ![k] = None]
       /\ gone' = gone \cup {kv \in {k} \X Versions : kv[2] < op[h].then /\ ~ InHand(k, kv[2])}
       /\ op' = [op EXCEPT ![h].pc = "purge", ![h].key = None, ![h].todo = @ \ {k}]
    /\ UNCHANGED <<mem, tables, current, asked>>

Purged(h) ==
    /\ At(h, "purge") /\ op[h].todo = {}
    /\ Answered(h)
    /\ UNCHANGED <<tiers, tables, current, asked, gone>>

ClearMem(h) ==
    /\ Arrives(h)
    /\ mem' = [k \in Keys |-> None]
    /\ Go(h, "clear")
    /\ UNCHANGED <<disk, tables, current, gone>>

ClearDisk(h) ==
    /\ At(h, "clear")
    /\ disk' = [k \in Keys |-> None]
    /\ Go(h, "clear_variants")
    /\ UNCHANGED <<mem, tables, current, asked, gone>>

ClearVariants(h) ==
    /\ At(h, "clear_variants")
    /\ variants' = {}
    /\ Answered(h)
    /\ UNCHANGED <<tiers, flight, revalidating, current, asked, gone>>

-----------------------------------------------------------------------------
(* The rest of the world.                                                  *)

\* LRU, sweeps and shrinking budgets.
Evict(k) ==
    /\ \/ mem[k] # None /\ mem' = [mem EXCEPT ![k] = None] /\ UNCHANGED disk
       \/ disk[k] # None /\ disk' = [disk EXCEPT ![k] = None] /\ UNCHANGED mem
    /\ UNCHANGED <<tables, current, asked, op, gone>>

OriginChanges ==
    /\ current < MaxVersion
    /\ current' = current + 1
    /\ UNCHANGED <<tiers, tables, asked, op, gone>>

Get(h) == LookMem(h) \/ OpenDisk(h) \/ DropUnreadable(h) \/ Promote(h)
Prune(a) == PruneTake(a) \/ PruneRetain(a) \/ PrunePutBack(a)
Consult(h) == Judge(h) \/ (\E j \in Jobs : SpawnJob(h, j)) \/ SpawnRefused(h) \/ GoToOrigin(h)
Coalesce(h) == Woken(h) \/ Finish(h) \/ Notify(h)
Answer(a) == NotModified(a) \/ NewVersion(a) \/ NothingNew(a)
Store(a) == StoreMem(a) \/ StoreDisk(a)
Refresh(a) == MergeMem(a) \/ MergePut(a) \/ MergeDisk(a) \/ MergeCommit(a)
Remove(a) == RemoveMem(a) \/ RemoveDisk(a)
Purge(h) == (\E k \in Keys : PurgeMem(h, k)) \/ PurgeDisk(h) \/ Purged(h)
Clear(h) == ClearDisk(h) \/ ClearVariants(h)

\* What a thread does until its request is answered.
Proceed(a) ==
    \/ Remember(a) \/ Prune(a) \/ Answer(a) \/ Store(a) \/ Refresh(a) \/ Remove(a)
    \/ a \in Jobs /\ Release(a)
    \/ a \in Handlers /\ (Get(a) \/ Consult(a) \/ Coalesce(a) \/ Purge(a) \/ Clear(a))

Arrive(h) == (\E k \in Keys, q \in Kinds : Ask(h, k, q)) \/ Invalidate(h) \/ ClearMem(h)

\* The bound on requests is reached and all are answered.
Rest ==
    /\ asked = MaxAsked /\ \A a \in Actors : At(a, "idle")
    /\ UNCHANGED vars

Next ==
    \/ \E a \in Actors : Proceed(a)
    \/ \E h \in Handlers : Arrive(h) \/ GiveUp(h)
    \/ \E k \in Keys : Evict(k)
    \/ OriginChanges
    \/ Rest

Spec == Init /\ [][Next]_vars

-----------------------------------------------------------------------------
(* Properties.                                                             *)

\* LeaderGuard, over every way out of `fetch` (an error, a panic, an answer that is not
\* stored): a key is in the table exactly while one handler leads it, and whoever waits,
\* waits for a leader of that key that has yet to tell the outcome: nobody needs a timeout.
FlightHasLeader ==
    /\ \A h \in Handlers, k \in Keys :
          flight[k] = h <=> op[h].role = "leader" /\ Key(h) = k /\ ~ At(h, "notify")
    /\ \A h \in Handlers : At(h, "wait") /\ op[h].outcome = None
          => op[op[h].of].role = "leader" /\ Key(op[h].of) = Key(h)

\* begin_revalidation and end_revalidation pair up over a refused job, an error and a
\* panic: a key is in the set exactly while one thread owns its ticket, so no key is
\* barred for ever and no two jobs revalidate one key.
TicketsPaired ==
    \A k \in Keys :
        LET owners == {h \in Handlers : At(h, "spawn") /\ Key(h) = k}
                      \cup {j \in Jobs : ~ At(j, "idle") /\ Key(j) = k}
        IN  Cardinality(owners) = IF k \in revalidating THEN 1 ELSE 0

\* What an invalidation removed of the URL itself does not come back to the disk,
\* whatever stores, promotions and rewritten heads it meets.  Only an operation that had
\* the body in its hands when the file was removed may put it back.
PurgedFromDisk == disk[Bare] # None => <<Bare, disk[Bare].body>> \notin gone

\* "URL のすべてのバリアントを消す" (ops.rs, `invalidate`): the same of every key that was in
\* the row and of both tiers.
PurgedFromBoth ==
    \A k \in Keys, tier \in {mem, disk} : tier[k] # None => <<k, tier[k].body>> \notin gone

=============================================================================
