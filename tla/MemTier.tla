------------------------------ MODULE MemTier ------------------------------
(***************************************************************************)
(* The memory tier (crates/cachemem/src/memory.rs, lru.rs, memory/         *)
(* ballast.rs): an LRU store under one lock, a capacity that the prober    *)
(* sets, and the ballast, chunks of memory that hold what the entries do   *)
(* not use.  The order of use is a number that every operation draws       *)
(* before it takes the lock; the capacity is read before the lock too.     *)
(***************************************************************************)
EXTENDS Integers, FiniteSets, FiniteSetsExt

CONSTANTS
    Threads,        \* threads that serve requests
    Keys,
    Sizes,          \* of bodies
    Capacities,     \* what the budget may allow
    Reserve,        \* PROXY_CACHE_RESERVE: "off", "staged" or "eager"
    Chunk,          \* BALLAST_CHUNK
    EvictBatch,     \* EVICT_BATCH
    MaxTick,        \* bound: operations
    MaxProbes,      \* bound: rounds of the prober
    None

MemTierAssumption ==
    /\ Sizes \subseteq Nat \ {0} /\ Capacities \subseteq Nat /\ 0 \in Capacities
    /\ Reserve \in {"off", "staged", "eager"}
    /\ {Chunk, EvictBatch} \subseteq Nat \ {0} /\ {MaxTick, MaxProbes} \subseteq Nat
    /\ IsFiniteSet(Keys) /\ None \notin Keys /\ None \notin [size : Nat, used : Nat]

VARIABLES
    entries,        \* Store::entries: size and last_used of each key
    order,          \* Store::order: a key for each number
    bytes,          \* Store::bytes
    capacity,
    chunks,         \* how many the ballast has
    failed,         \* alloc_failed
    clock,          \* the next number
    op,             \* what each thread is doing
    probe,          \* what the prober is doing
    lag             \* ghost: something was decided on a capacity or a use of the past

store == <<entries, order, bytes>>
vars == <<entries, order, bytes, capacity, chunks, failed, clock, op, probe, lag>>

Idle == [pc |-> "idle", key |-> None, size |-> 0, seq |-> 0, cap |-> 0, used |-> 0]
AtHome == [pc |-> "home", rounds |-> 0, cap |-> 0, used |-> 0]

Init ==
    /\ entries = [k \in Keys |-> None] /\ order = [n \in {} |-> None] /\ bytes = 0
    /\ capacity \in Capacities       \* the round of the prober within Cache::new is over
    /\ chunks = 0 /\ failed = FALSE
    /\ clock = 1
    /\ op = [t \in Threads |-> Idle] /\ probe = AtHome
    /\ lag = FALSE

-----------------------------------------------------------------------------
(* Store.                                                                  *)

Ballast == chunks * Chunk
Present(s) == {k \in Keys : s.entries[k] # None}
TheStore == [entries |-> entries, order |-> order, bytes |-> bytes]
Becomes(s) == entries' = s.entries /\ order' = s.order /\ bytes' = s.bytes
Without(f, places) == [m \in DOMAIN f \ places |-> f[m]]
With(f, n, k) == [m \in DOMAIN f \cup {n} |-> IF m = n THEN k ELSE f[m]]
\* What some entries take: a byte is told by its key and its position.
Load(s, keys) == Cardinality(UNION {{k} \X (1 .. s.entries[k].size) : k \in keys})

\* Entries and places in the order go, and what the entries take is taken off.
Forget(s, keys, places) ==
    [entries |-> [k \in Keys |-> IF k \in keys THEN None ELSE s.entries[k]],
     order |-> Without(s.order, places), bytes |-> s.bytes - Load(s, keys)]

Remove(s, k) == IF s.entries[k] = None THEN s ELSE Forget(s, {k}, {s.entries[k].used})

Touch(s, k, n) ==
    IF s.entries[k] = None THEN s
    ELSE [s EXCEPT !.order = With(Without(@, {s.entries[k].used}), n, k), !.entries[k].used = n]

\* Variant: the place of the entry that is replaced stays in the order.
Insert_KeepsPlace(s, k, size, n) ==
    [entries |-> [s.entries EXCEPT ![k] = [size |-> size, used |-> n]],
     order |-> With(s.order, n, k), bytes |-> Remove(s, k).bytes + size]

Insert(s, k, size, n) ==
    LET r == Remove(s, k) IN
    [entries |-> [r.entries EXCEPT ![k] = [size |-> size, used |-> n]],
     order |-> With(r.order, n, k), bytes |-> r.bytes + size]

\* pop_lru, i times: the lowest numbers go, and what still has an entry with them.
First(s, i) == {n \in DOMAIN s.order : Cardinality({m \in DOMAIN s.order : m < n}) < i}
Popped(s, i) == Forget(s, {s.order[n] : n \in First(s, i)} \cap Present(s), First(s, i))

\* pop_lru as often as needed to come down to `cap' and at most `most' times.
PopLru(s, cap, most) ==
    Popped(s, Min({i \in 0 .. most : i = most \/ Popped(s, i).bytes <= cap \/ i = Cardinality(DOMAIN s.order)}))

-----------------------------------------------------------------------------
(* Threads.  The number is drawn, and `insert' reads the capacity, before  *)
(* the lock.                                                               *)

Go(t, pc) == op' = [op EXCEPT ![t].pc = pc]
Done(t) == op' = [op EXCEPT ![t] = Idle]

Call(t, pc, k, size) ==
    /\ op[t].pc = "idle" /\ clock <= MaxTick
    /\ clock' = clock + 1
    /\ op' = [op EXCEPT ![t] = [pc |-> pc, key |-> k, size |-> size, seq |-> clock, cap |-> capacity, used |-> 0]]
    /\ UNCHANGED <<store, capacity, chunks, failed, probe, lag>>

\* MemTier::get: a hit is touched, an entry that is of no use any more is removed.
Get(t) ==
    /\ op[t].pc = "get"
    /\ \/ Becomes(Touch(TheStore, op[t].key, op[t].seq))
       \/ Becomes(Remove(TheStore, op[t].key))
    /\ Done(t)
    /\ UNCHANGED <<capacity, chunks, failed, clock, probe, lag>>

Refresh(t) ==
    /\ op[t].pc = "refresh"
    /\ Becomes(Touch(TheStore, op[t].key, op[t].seq))
    /\ Done(t)
    /\ UNCHANGED <<capacity, chunks, failed, clock, probe, lag>>

\* MemTier::insert with evict_over; then the ballast makes room for what there is.
PutAndEvict(t) ==
    /\ op[t].pc = "insert"
    /\ \/ op[t].size > op[t].cap /\ Done(t) /\ UNCHANGED <<store, lag>>
       \/ /\ op[t].size <= op[t].cap
          /\ LET s == PopLru(Insert(TheStore, op[t].key, op[t].size, op[t].seq), op[t].cap, Cardinality(Keys)) IN
             /\ Becomes(s)
             /\ op' = [op EXCEPT ![t].pc = "make_room", ![t].used = s.bytes]
          /\ lag' = (lag \/ op[t].cap # capacity)
    /\ UNCHANGED <<capacity, chunks, failed, clock, probe>>

\* Variant: the entries are not counted.
Released_BallastOnly(used, cap) == Max({0} \cup {n \in 0 .. chunks : n * Chunk <= cap})

\* MemBallast::release: chunks go while the entries and the ballast do not fit.
Released(used, cap) == Max({0} \cup {n \in 0 .. chunks : used + n * Chunk <= cap})

MakeRoom(t) ==
    /\ op[t].pc = "make_room"
    /\ chunks' = Released(op[t].used, op[t].cap)
    /\ Done(t)
    /\ UNCHANGED <<store, capacity, failed, clock, probe, lag>>

RemoveKey(k) ==
    /\ entries[k] # None
    /\ Becomes(Remove(TheStore, k))
    /\ UNCHANGED <<capacity, chunks, failed, clock, op, probe, lag>>

Clear ==
    /\ bytes > 0
    /\ Becomes([entries |-> [k \in Keys |-> None], order |-> [n \in {} |-> None], bytes |-> 0])
    /\ UNCHANGED <<capacity, chunks, failed, clock, op, probe, lag>>

-----------------------------------------------------------------------------
(* Cache::probe_tick, as far as it is about this tier.                     *)

\* reserve_ceiling: what the entries and the ballast may be together.  With "staged" the
\* ballast is as large as what is in use.
Ceiling(used, cap) ==
    CASE Reserve = "off" -> 0
      [] Reserve = "eager" -> cap
      [] OTHER -> Min({cap, 2 * used})

\* refresh_budget; the use is read for the ceiling.
SetBudget(c) ==
    /\ probe.pc = "home" /\ probe.rounds < MaxProbes
    /\ capacity' = c
    /\ probe' = [pc |-> "release", rounds |-> probe.rounds + 1, cap |-> Ceiling(bytes, c), used |-> bytes]
    /\ lag' = FALSE
    /\ UNCHANGED <<store, chunks, failed, clock, op>>

\* release_ballast to the ceiling, and `enforce' once more to the capacity.
ProbeRelease ==
    /\ probe.pc \in {"release", "release_again"}
    /\ chunks' = Released(probe.used, IF probe.pc = "release" THEN probe.cap ELSE capacity)
    /\ probe' = [probe EXCEPT !.pc = IF @ = "release" THEN "release_again" ELSE "enforce", !.used = bytes]
    /\ UNCHANGED <<store, capacity, failed, clock, op, lag>>

\* Variant: one batch, and no more.
Enforce_OneBatch ==
    /\ probe.pc = "enforce"
    /\ Becomes(PopLru(TheStore, capacity, EvictBatch))
    /\ probe' = [probe EXCEPT !.pc = "sweep"]
    /\ UNCHANGED <<capacity, chunks, failed, clock, op, lag>>

\* enforce: one batch under each lock, until there is nothing to evict.
Enforce ==
    /\ probe.pc = "enforce"
    /\ \/ bytes > capacity /\ Becomes(PopLru(TheStore, capacity, EvictBatch)) /\ UNCHANGED probe
       \/ bytes <= capacity /\ probe' = [probe EXCEPT !.pc = "sweep"] /\ UNCHANGED store
    /\ UNCHANGED <<capacity, chunks, failed, clock, op, lag>>

\* sweep: whatever can be neither served nor revalidated, at the rounds when it is due.
Sweep ==
    /\ probe.pc = "sweep"
    /\ \E garbage \in SUBSET Present(TheStore) :
          Becomes(Forget(TheStore, garbage, {entries[k].used : k \in garbage}))
    /\ probe' = [probe EXCEPT !.pc = "fill"]
    /\ UNCHANGED <<capacity, chunks, failed, clock, op, lag>>

\* fill_ballast: the capacity and the use are read for every chunk; under pressure, or when
\* an allocation has failed, nothing is added.
Fill ==
    /\ probe.pc = "fill"
    /\ \/ probe' = [probe EXCEPT !.pc = "home", !.cap = 0, !.used = 0]
       \/ /\ Reserve # "off" /\ ~ failed
          /\ bytes + Ballast + Chunk <= Min({capacity, probe.cap})
          /\ probe' = [probe EXCEPT !.pc = "push"]
    /\ UNCHANGED <<store, capacity, chunks, failed, clock, op, lag>>

Push ==
    /\ probe.pc = "push"
    /\ \/ /\ chunks' = chunks + 1
          /\ lag' = (lag \/ bytes + Ballast + Chunk > capacity)
          /\ probe' = [probe EXCEPT !.pc = "fill"]
          /\ UNCHANGED failed
       \/ /\ failed' = TRUE
          /\ probe' = [probe EXCEPT !.pc = "home", !.cap = 0, !.used = 0]
          /\ UNCHANGED <<chunks, lag>>
    /\ UNCHANGED <<store, capacity, clock, op>>

Serve(t) ==
    \/ \E k \in Keys : Call(t, "get", k, 0) \/ Call(t, "refresh", k, 0) \/ \E z \in Sizes : Call(t, "insert", k, z)
    \/ Get(t) \/ Refresh(t) \/ PutAndEvict(t) \/ MakeRoom(t)
Probe == (\E c \in Capacities : SetBudget(c)) \/ ProbeRelease \/ Enforce \/ Sweep \/ Fill \/ Push

\* The bounds are reached.
Rest ==
    /\ clock > MaxTick /\ probe.pc = "home" /\ probe.rounds = MaxProbes
    /\ \A t \in Threads : op[t].pc = "idle"
    /\ UNCHANGED vars

Next ==
    \/ \E t \in Threads : Serve(t)
    \/ \E k \in Keys : RemoveKey(k)
    \/ Clear \/ Probe \/ Rest

Spec == Init /\ [][Next]_vars

-----------------------------------------------------------------------------
(* Properties.                                                             *)

\* Store: the index, the order and the sum are changed apart, by operations whose numbers
\* come in any order, and say the same after each.
StoreAgrees ==
    /\ \A k \in Keys : entries[k] # None => entries[k].used \in DOMAIN order /\ order[entries[k].used] = k
    /\ Cardinality(DOMAIN order) = Cardinality(Present(TheStore))
    /\ bytes = Load(TheStore, Present(TheStore))

\* evict_over and enforce take what was used least recently: nothing that goes was used
\* after something that stays.
LruFirstStep ==
    Enforce \/ (\E t \in Threads : PutAndEvict(t)) =>
      \A k, j \in Keys :
         entries[k] # None /\ entries'[k] = None /\ entries'[j] # None
         /\ (\A t \in Threads : PutAndEvict(t) => op[t].key # k)
         => entries[k].used < entries'[j].used
LruFirst == [][LruFirstStep]_vars

\* memory.rs: the entries and the ballast stay within the budget.  That is so at rest,
\* unless something was decided on a capacity or a use that had changed meanwhile: an
\* insertion that has read the capacity before the prober sets it, a chunk that is added
\* while an entry comes in.
WithinBudgetAtRest ==
    (~ lag /\ probe.pc = "home" /\ \A t \in Threads : op[t].pc = "idle") => bytes + Ballast <= capacity

-----------------------------------------------------------------------------
(* The inductive invariant.                                                *)

Entries == [size : Nat, used : Nat]
Operations ==
    [pc : {"idle", "get", "refresh", "insert", "make_room"}, key : Keys \cup {None}, size : Nat, seq : Nat,
     cap : Nat, used : Nat]
Probing ==
    [pc : {"home", "release", "release_again", "enforce", "sweep", "fill", "push"}, rounds : Nat, cap : Nat, used : Nat]
TypeOK ==
    /\ capacity \in Nat /\ chunks \in Nat /\ failed \in BOOLEAN /\ clock \in Nat
    /\ op \in [Threads -> Operations] /\ probe \in Probing /\ lag \in BOOLEAN

\* A store of which the parts say the same.
Places(s) == {s.entries[k].used : k \in Present(s)}
Sound(s) ==
    /\ s.entries \in [Keys -> Entries \cup {None}] /\ s.order \in [Places(s) -> Keys]
    /\ \A k \in Present(s) : s.order[s.entries[k].used] = k
    /\ s.bytes = Load(s, Present(s))

\* The numbers that were drawn and not used yet are new.
Draws(t) == op[t].pc \in {"get", "refresh", "insert"}
NumbersAreNew ==
    /\ \A n \in Places(TheStore) : n < clock
    /\ \A t \in Threads : Draws(t) => op[t].key \in Keys /\ op[t].seq < clock /\ op[t].seq \notin Places(TheStore)
    /\ \A t, u \in Threads : t # u /\ Draws(t) /\ Draws(u) => op[t].seq # op[u].seq

\* Who has stored something that may not fit is about to make room for it.
Fits == bytes + Ballast <= capacity
MakesRoom(t) == op[t].pc = "make_room" /\ op[t].cap = capacity /\ op[t].used >= bytes
RoomIsMade ==
    /\ \A t \in Threads : op[t].pc = "make_room" => op[t].used <= op[t].cap
    /\ ~ lag =>
          \/ Fits
          \/ \E t \in Threads : MakesRoom(t)
          \/ probe.pc = "release"
          \/ probe.pc = "release_again" /\ bytes <= probe.used
          \/ probe.pc = "enforce" /\ chunks = 0

MemInv == TypeOK /\ Sound(TheStore) /\ NumbersAreNew /\ RoomIsMade
=============================================================================
