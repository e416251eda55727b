------------------------------ MODULE CacheProofs ------------------------------
(***************************************************************************)
(* The coalescing of misses, the tickets of revalidations and the purge of *)
(* a URL, for every number of handlers, jobs, variants, versions and       *)
(* requests, every kind of request and every shape of answer.              *)
(***************************************************************************)
EXTENDS Cache, TLAPS, FiniteSetTheorems

\* Who is where: the steps of a lookup, of a fetch and its answer, of a purge.
LookPcs == {"mem", "disk", "drop", "promote"}
HitPcs == {"remember", "judge", "spawn", "missed"}
AnswerPcs == {"fetch", "begin", "sink", "commit", "merge", "merge_put", "merge_disk",
              "merge_commit", "remove", "remove_disk"}
PrunePcs == {"take", "retain", "putback"}
PurgePcs == {"purge", "purge_disk", "clear", "clear_variants"}
Pcs == LookPcs \cup HitPcs \cup AnswerPcs \cup PrunePcs \cup PurgePcs
       \cup {"idle", "wait", "finish", "notify", "release"}

Op == [pc : Pcs, key : Keys \cup {None}, kind : Kind \cup {None},
       hit : Entry \cup {None}, stale : Entry \cup {None}, new : Entry \cup {None},
       store : BOOLEAN, role : {"none", "leader", "follower"}, of : Handlers \cup {None},
       outcome : {None, "stored", "not_stored"}, todo : SUBSET Keys,
       then : Nat \cup {None, "judge", "sink"}]

DataTyped ==
    /\ mem \in [Keys -> Entry \cup {None}] /\ disk \in [Keys -> Entry \cup {None}]
    /\ variants \subseteq Keys /\ flight \in [Keys -> Handlers \cup {None}]
    /\ revalidating \subseteq Keys /\ current \in Versions /\ asked \in Nat

\* What a thread holds at a step: the key, the entries, and its part in a flight.
HasKey(o) == o.pc \notin {"idle", "purge", "clear", "clear_variants"} => o.key \in Keys
HasEntries(o) ==
    /\ o.pc \in {"promote", "remember", "judge", "merge_put", "merge_commit"} => o.hit \in Entry
    /\ o.pc \in {"begin", "sink", "commit", "merge", "merge_put", "merge_disk"} => o.new \in Entry
    /\ o.pc \in PrunePcs =>
          (o.then = "judge" /\ o.hit \in Entry) \/ (o.then = "sink" /\ o.new \in Entry)
HasRole(o) ==
    /\ o.pc \in LookPcs => o.role # "leader"
    /\ o.pc \in HitPcs \cup PurgePcs \cup {"idle", "release"} => o.role = "none"
    /\ o.pc \in PrunePcs /\ o.then = "judge" => o.role = "none"
    /\ o.pc = "wait" => o.role = "follower" /\ o.of \in Handlers
    /\ o.pc \in {"finish", "notify"} => o.role = "leader" /\ o.outcome # None
IsJob(o) == o.role = "none" /\ o.pc \in AnswerPcs \cup PrunePcs \cup {"idle", "release"}
            /\ o.then # "judge"
Purging(o) == o.pc \in {"purge", "purge_disk"} => o.then \in Nat /\ o.then <= current

Fits(a, o) ==
    /\ HasKey(o) /\ HasEntries(o) /\ HasRole(o) /\ Purging(o)
    /\ a \in Handlers => o.pc # "release"
    /\ a \in Jobs => IsJob(o)
OpsOK == op \in [Actors -> Op] /\ \A a \in Actors : Fits(a, op[a])
CInv == DataTyped /\ OpsOK

\* A ticket is owned by the handler that is about to start the job, then by the job.
Owns(a, k) == /\ Key(a) = k
              /\ \/ a \in Handlers /\ At(a, "spawn")
                 \/ a \in Jobs /\ ~ At(a, "idle")
Tickets ==
    /\ \A k \in Keys : k \in revalidating <=> \E a \in Actors : Owns(a, k)
    /\ \A k \in Keys : \A a, b \in Actors : Owns(a, k) /\ Owns(b, k) => a = b

\* The bodies that are on their way to the disk.
ToDisk(o, v) == \/ o.pc \in {"begin", "sink", "commit"} /\ o.new.body = v
                \/ o.pc = "merge_commit" /\ o.hit.body = v
                \/ o.pc \in PrunePcs /\ o.then = "sink" /\ o.new.body = v
NotBack == \A v \in Versions : <<Bare, v>> \in gone =>
    /\ v < current
    /\ disk[Bare] # None => disk[Bare].body # v
    /\ \A a \in Actors : Key(a) = Bare => ~ ToDisk(op[a], v)
GoneType == gone \subseteq Keys \X Versions


\* A step of one thread that leaves it holding what its step needs keeps the invariant.
LEMMA AloneFits ==
    ASSUME CInv, NEW a \in Actors, NEW r \in Op, op' = [op EXCEPT ![a] = r],
           Fits(a, r), DataTyped', current' >= current
    PROVE  CInv'
<1>0. current \in Int /\ current' \in Int
  BY DEF CInv, DataTyped, Versions
<1>1. op' \in [Actors -> Op] /\ \A b \in Actors : op'[b] = IF b = a THEN r ELSE op[b]
  BY DEF CInv, OpsOK
<1>2. \A b \in Actors : Fits(b, op'[b])
  BY <1>1 DEF CInv, OpsOK
<1>3. \A b \in Actors : op'[b].pc \in {"purge", "purge_disk"} =>
                          op'[b].then \in Nat /\ op'[b].then <= current'
  BY <1>0, <1>2 DEF Fits, Purging
<1>4. \A b \in Actors : Fits(b, op[b])'
  BY <1>2, <1>3 DEF Fits, Purging, HasKey, HasEntries, HasRole, IsJob
<1> QED
  BY <1>1, <1>4 DEF CInv, OpsOK

\* A thread that is through with its request holds nothing.
LEMMA NoOpFits ==
    ASSUME NEW a \in Actors
    PROVE  NoOp \in Op /\ Fits(a, NoOp)
<1> USE CacheAssumption, NoneAssumption DEF NoOp, Actors
<1>1. NoOp \in Op
  BY DEF Op, Pcs
<1>2. Fits(a, NoOp)
  BY DEF Fits, HasKey, HasEntries, HasRole, IsJob, Purging, LookPcs, HitPcs, PurgePcs,
     PrunePcs, AnswerPcs, Keys
<1> QED
  BY <1>1, <1>2

\* So does one that goes on to complete its flight or to drop its ticket.
LEMMA SettledFits ==
    ASSUME CInv, NEW a \in Actors, Key(a) \in Keys, NEW outcome \in {"stored", "not_stored"},
           op[a].pc \in AnswerPcs, Settled(a, outcome), DataTyped', current' >= current
    PROVE  CInv'
<1> USE CacheAssumption, NoneAssumption DEF NoOp, Actors
<1>0. op \in [Actors -> Op] /\ op[a] \in Op /\ Fits(a, op[a])
  BY DEF CInv, OpsOK
<1>1. CASE a \in Jobs
  <2> DEFINE r == [NoOp EXCEPT !.pc = "release", !.key = Key(a)]
  <2>1. op' = [op EXCEPT ![a] = r]
    BY <1>0, <1>1 DEF Settled
  <2>2. r \in Op
    BY DEF Op, Pcs, Key
  <2>3. Fits(a, r)
    BY <1>1 DEF Fits, HasKey, HasEntries, HasRole, IsJob, Purging, LookPcs, HitPcs, PurgePcs,
       PrunePcs, AnswerPcs
  <2> QED
    BY <2>1, <2>2, <2>3, AloneFits
<1>2. CASE a \notin Jobs /\ op[a].role = "leader"
  <2> DEFINE r == [NoOp EXCEPT !.pc = "finish", !.key = Key(a), !.role = "leader", !.outcome = outcome]
  <2>1. op' = [op EXCEPT ![a] = r]
    BY <1>0, <1>2 DEF Settled
  <2>2. r \in Op
    BY DEF Op, Pcs, Key
  <2>3. Fits(a, r)
    BY <1>2 DEF Fits, HasKey, HasEntries, HasRole, IsJob, Purging, LookPcs, HitPcs, PurgePcs,
       PrunePcs, AnswerPcs
  <2> QED
    BY <2>1, <2>2, <2>3, AloneFits
<1>3. CASE a \notin Jobs /\ op[a].role # "leader"
  <2>1. op' = [op EXCEPT ![a] = NoOp]
    BY <1>0, <1>3 DEF Settled
  <2> QED
    BY <2>1, AloneFits, NoOpFits
<1> QED
  BY <1>1, <1>2, <1>3

\* So does one that has found an entry.
LEMMA FoundFits ==
    ASSUME CInv, NEW h \in Handlers, op[h].pc \in LookPcs, NEW e \in Entry, NEW age,
           Found(h, e, age), DataTyped', current' >= current
    PROVE  CInv'
<1> USE CacheAssumption, NoneAssumption DEF Actors, HasKey, HasEntries, HasRole, IsJob, Purging,
        LookPcs, HitPcs, PurgePcs, PrunePcs, AnswerPcs
<1>0. op \in [Actors -> Op] /\ op[h] \in Op /\ Fits(h, op[h])
  BY DEF CInv, OpsOK
<1>1. CASE op[h].role # "follower"
  <2> DEFINE next == IF Key(h) = Bare THEN "judge" ELSE "remember"
  <2> DEFINE r == [op[h] EXCEPT !.pc = next, !.hit = e]
  <2>1. op' = [op EXCEPT ![h] = r]
    BY <1>0, <1>1 DEF Found
  <2>0. next \in Pcs
    BY DEF Pcs
  <2>2. r \in Op
    <3> HIDE DEF next
    <3> QED
      BY <1>0, <2>0 DEF Op
  <2>3. Fits(h, r)
    BY <1>0, <1>1 DEF Fits, Op
  <2> QED
    BY <2>1, <2>2, <2>3, AloneFits
<1>2. CASE op[h].role = "follower" /\ age = "fresh"
  <2>1. op' = [op EXCEPT ![h] = NoOp]
    BY <1>0, <1>2 DEF Found
  <2> QED
    BY <2>1, AloneFits, NoOpFits
<1>3. CASE op[h].role = "follower" /\ age # "fresh"
  <2> DEFINE r == [op[h] EXCEPT !.pc = "fetch", !.hit = None]
  <2>1. op' = [op EXCEPT ![h] = r]
    BY <1>0, <1>3 DEF Found
  <2>0. {"judge", "remember", "fetch"} \subseteq Pcs
    BY DEF Pcs
  <2>2. r \in Op
    BY <1>0, <2>0 DEF Op
  <2>3. Fits(h, r)
    BY <1>0, <1>3 DEF Fits, Op
  <2> QED
    BY <2>1, <2>2, <2>3, AloneFits
<1> QED
  BY <1>1, <1>2, <1>3


\* Every step keeps the types, and what everyone holds at his step.
LEMMA TypedStep ==
    ASSUME CInv, [Next]_vars
    PROVE  CInv'
<1>0. CInv
  OBVIOUS
<1>t. DataTyped /\ op \in [Actors -> Op] /\ \A x \in Actors : op[x] \in Op /\ Fits(x, op[x])
  BY DEF CInv, OpsOK
<1> USE CacheAssumption, NoneAssumption
<1>1. ASSUME NEW a \in Actors, Proceed(a)
      PROVE  CInv'
  <2>1. CASE Remember(a)
    <3>1. DataTyped'
      BY <2>1, <1>t DEF Remember, At, Key, DataTyped, Versions, tiers, Op, Actors, Fits,
         HasKey, HasEntries, LookPcs, HitPcs, AnswerPcs, PrunePcs, PurgePcs
    <3>2. op' \in [Actors -> Op]
      BY <2>1, <1>t DEF Remember, tiers, At, Key, Op, Kind, Keys, DataTyped, Versions, Pcs,
         LookPcs, HitPcs, AnswerPcs, PrunePcs, PurgePcs, Actors
    <3>3. \A b \in Actors : Fits(b, op[b])'
      BY <2>1, <1>t DEF Remember, tiers, At, Key, Op, Fits, HasKey, HasEntries, HasRole, IsJob,
         Purging, Actors, DataTyped, LookPcs, HitPcs, AnswerPcs, PrunePcs, PurgePcs
    <3> QED
      BY <3>1, <3>2, <3>3 DEF CInv, OpsOK
  <2>2. CASE PruneTake(a)
    <3>1. DataTyped'
      BY <2>2, <1>t DEF PruneTake, At, Key, DataTyped, Versions, tiers, Op, Actors, Fits,
         HasKey, HasEntries, LookPcs, HitPcs, AnswerPcs, PrunePcs, PurgePcs
    <3>2. op' \in [Actors -> Op]
      BY <2>2, <1>t DEF PruneTake, tiers, At, Key, Op, Kind, Keys, DataTyped, Versions, Pcs,
         LookPcs, HitPcs, AnswerPcs, PrunePcs, PurgePcs, Actors
    <3>3. \A b \in Actors : Fits(b, op[b])'
      BY <2>2, <1>t DEF PruneTake, tiers, At, Key, Op, Fits, HasKey, HasEntries, HasRole,
         IsJob, Purging, Actors, DataTyped, LookPcs, HitPcs, AnswerPcs, PrunePcs, PurgePcs
    <3> QED
      BY <3>1, <3>2, <3>3 DEF CInv, OpsOK
  <2>3. CASE PruneRetain(a)
    <3> DEFINE kept == {k \in op[a].todo : mem[k] # None \/ disk[k] # None}
    <3>kept. kept \in SUBSET Keys
      BY <2>3, <1>t DEF PruneRetain, Op
    <3> DEFINE r == [op[a] EXCEPT !.pc = "putback", !.todo = kept]
    <3>0. op[a] \in Op /\ Fits(a, op[a]) /\ "putback" \in Pcs
      BY <2>3, <1>t DEF PruneRetain, At, Key, DataTyped, Fits, HasKey, HasEntries, HasRole,
         IsJob, Actors, Versions, Pcs, LookPcs, HitPcs, AnswerPcs, PrunePcs, PurgePcs
    <3>1. op' = [op EXCEPT ![a] = r]
      BY <2>3, <1>t DEF PruneRetain, tiers, tables, At
    <3>2. r \in Op
      <4> HIDE DEF kept
      <4> QED
        BY <3>kept, <3>0 DEF Op, Key
    <3>3. Fits(a, r)
      BY <2>3, <3>0 DEF PruneRetain, At, Key, Op, Fits, HasKey, HasEntries, HasRole, IsJob,
         Purging, Actors, DataTyped, LookPcs, HitPcs, AnswerPcs, PrunePcs, PurgePcs
    <3>4. DataTyped' /\ current' >= current
      BY <2>3, <3>0, <1>t DEF PruneRetain, At, Key, DataTyped, Versions, tiers, tables, Op,
         Actors, Fits, HasKey, HasEntries, LookPcs, HitPcs, AnswerPcs, PrunePcs, PurgePcs
    <3> HIDE DEF r
    <3> QED
      BY <3>1, <3>2, <3>3, <3>4, <1>0, AloneFits DEF Actors
  <2>4. CASE PrunePutBack(a)
    <3> DEFINE r == [op[a] EXCEPT !.pc = op[a].then, !.then = None, !.todo = {}]
    <3>0. op[a] \in Op /\ Fits(a, op[a]) /\ op[a].then \in Pcs
      BY <2>4, <1>t DEF PrunePutBack, At, Key, DataTyped, Fits, HasKey, HasEntries, HasRole,
         IsJob, Actors, Versions, Pcs, LookPcs, HitPcs, AnswerPcs, PrunePcs, PurgePcs, Purging
    <3>1. op' = [op EXCEPT ![a] = r]
      BY <2>4, <1>t DEF PrunePutBack, tiers, At
    <3>2. r \in Op
      BY <3>0 DEF Op, Key
    <3>3. Fits(a, r)
      BY <2>4, <3>0 DEF PrunePutBack, At, Key, Op, Fits, HasKey, HasEntries, HasRole, IsJob,
         Purging, Actors, DataTyped, LookPcs, HitPcs, AnswerPcs, PrunePcs, PurgePcs
    <3>4. DataTyped' /\ current' >= current
      BY <2>4, <3>0, <1>t DEF PrunePutBack, At, Key, DataTyped, Versions, tiers, Op, Actors,
         Fits, HasKey, HasEntries, LookPcs, HitPcs, AnswerPcs, PrunePcs, PurgePcs
    <3> HIDE DEF r
    <3> QED
      BY <3>1, <3>2, <3>3, <3>4, <1>0, AloneFits DEF Actors
  <2>5. CASE NotModified(a)
    <3>1. CASE Settled(a, "not_stored")
      <4>1. DataTyped' /\ current' >= current
        BY <2>5, <3>1, <1>t DEF NotModified, At, Key, DataTyped, Versions, tiers, tables, Op,
           Actors, Fits, HasKey, HasEntries, LookPcs, HitPcs, AnswerPcs, PrunePcs, PurgePcs
      <4>2. Key(a) \in Keys /\ op[a].pc \in AnswerPcs /\ Settled(a, "not_stored")
        BY <2>5, <3>1, <1>t DEF NotModified, At, Key, Fits, HasKey, AnswerPcs
      <4> QED
        BY <4>1, <4>2, <1>0, SettledFits
    <3>2. ASSUME NEW next \in {"remove", "merge"},
            op' = [op EXCEPT ![a].pc = next, ![a].new = op[a].stale, ![a].stale = None]
         PROVE  CInv'
      <4> DEFINE r == [op[a] EXCEPT !.pc = next, !.new = op[a].stale, !.stale = None]
      <4>0. op[a] \in Op /\ Fits(a, op[a]) /\ next \in Pcs
        BY <2>5, <3>2, <1>t DEF NotModified, At, Key, DataTyped, Fits, HasKey, HasEntries,
           HasRole, IsJob, Actors, Versions, Pcs, LookPcs, HitPcs, AnswerPcs, PrunePcs, PurgePcs
      <4>1. op' = [op EXCEPT ![a] = r]
        BY <2>5, <3>2, <1>t DEF NotModified, tiers, tables, At
      <4>2. r \in Op
        BY <4>0 DEF Op, Key
      <4>3. Fits(a, r)
        BY <2>5, <3>2, <4>0 DEF NotModified, At, Key, Op, Fits, HasKey, HasEntries, HasRole,
           IsJob, Purging, Actors, DataTyped, LookPcs, HitPcs, AnswerPcs, PrunePcs, PurgePcs
      <4>4. DataTyped' /\ current' >= current
        BY <2>5, <3>2, <4>0, <1>t
           DEF NotModified, At, Key, DataTyped, Versions, tiers, tables, Op, Actors, Fits,
           HasKey, HasEntries, LookPcs, HitPcs, AnswerPcs, PrunePcs, PurgePcs
      <4> HIDE DEF r
      <4> QED
        BY <4>1, <4>2, <4>3, <4>4, <1>0, AloneFits DEF Actors
    <3> QED
      BY <2>5, <3>1, <3>2 DEF NotModified
  <2>6. CASE NewVersion(a)
    <3>1. ASSUME NEW s \in Shapes,
            op' = [op EXCEPT ![a].pc = IF Key(a) = Bare THEN "sink" ELSE "begin", ![a].stale = None,
                                     ![a].new = Latest(s)]
         PROVE  CInv'
      <4> DEFINE next == IF Key(a) = Bare THEN "sink" ELSE "begin"
      <4>next. next \in Pcs
        BY DEF Pcs, AnswerPcs
      <4> DEFINE r == [op[a] EXCEPT !.pc = next, !.stale = None, !.new = Latest(s)]
      <4>0. op[a] \in Op /\ Fits(a, op[a]) /\ Latest(s) \in Entry
        BY <2>6, <3>1, <1>t DEF NewVersion, At, Key, DataTyped, Fits, HasKey, HasEntries,
           HasRole, IsJob, Actors, Versions, Pcs, LookPcs, HitPcs, AnswerPcs, PrunePcs,
           PurgePcs, Latest, Entry
      <4>1. op' = [op EXCEPT ![a] = r]
        BY <3>1, <1>t DEF At
      <4>2. r \in Op
        <5> HIDE DEF next
        <5> QED
          BY <4>next, <4>0 DEF Op, Key
      <4>3. Fits(a, r)
        BY <2>6, <3>1, <4>0 DEF NewVersion, At, Key, Op, Fits, HasKey, HasEntries, HasRole,
           IsJob, Purging, Actors, DataTyped, LookPcs, HitPcs, AnswerPcs, PrunePcs, PurgePcs
      <4>4. DataTyped' /\ current' >= current
        BY <2>6, <3>1, <4>0, <1>t
           DEF NewVersion, At, Key, DataTyped, Versions, tiers, tables, Op, Actors, Fits,
           HasKey, HasEntries, LookPcs, HitPcs, AnswerPcs, PrunePcs, PurgePcs
      <4> HIDE DEF r
      <4> QED
        BY <4>1, <4>2, <4>3, <4>4, <1>0, AloneFits DEF Actors
    <3>2. CASE op' = [op EXCEPT ![a].pc = "remove", ![a].stale = None]
      <4> DEFINE r == [op[a] EXCEPT !.pc = "remove", !.stale = None]
      <4>0. op[a] \in Op /\ Fits(a, op[a]) /\ "remove" \in Pcs
        BY <2>6, <3>2, <1>t DEF NewVersion, At, Key, DataTyped, Fits, HasKey, HasEntries,
           HasRole, IsJob, Actors, Versions, Pcs, LookPcs, HitPcs, AnswerPcs, PrunePcs, PurgePcs
      <4>1. op' = [op EXCEPT ![a] = r]
        BY <3>2, <1>t DEF At
      <4>2. r \in Op
        BY <4>0 DEF Op, Key
      <4>3. Fits(a, r)
        BY <2>6, <3>2, <4>0 DEF NewVersion, At, Key, Op, Fits, HasKey, HasEntries, HasRole,
           IsJob, Purging, Actors, DataTyped, LookPcs, HitPcs, AnswerPcs, PrunePcs, PurgePcs
      <4>4. DataTyped' /\ current' >= current
        BY <2>6, <3>2, <4>0, <1>t
           DEF NewVersion, At, Key, DataTyped, Versions, tiers, tables, Op, Actors, Fits,
           HasKey, HasEntries, LookPcs, HitPcs, AnswerPcs, PrunePcs, PurgePcs
      <4> HIDE DEF r
      <4> QED
        BY <4>1, <4>2, <4>3, <4>4, <1>0, AloneFits DEF Actors
    <3>3. CASE Settled(a, "not_stored")
      <4>1. DataTyped' /\ current' >= current
        BY <2>6, <3>3, <1>t DEF NewVersion, At, Key, DataTyped, Versions, tiers, tables, Op,
           Actors, Fits, HasKey, HasEntries, LookPcs, HitPcs, AnswerPcs, PrunePcs, PurgePcs
      <4>2. Key(a) \in Keys /\ op[a].pc \in AnswerPcs /\ Settled(a, "not_stored")
        BY <2>6, <3>3, <1>t DEF NewVersion, At, Key, Fits, HasKey, AnswerPcs
      <4> QED
        BY <4>1, <4>2, <1>0, SettledFits
    <3> QED
      BY <2>6, <3>1, <3>2, <3>3 DEF NewVersion
  <2>7. CASE NothingNew(a)
    <3>1. DataTyped' /\ current' >= current
      BY <2>7, <1>t DEF NothingNew, At, Key, DataTyped, Versions, tiers, tables, Op, Actors,
         Fits, HasKey, HasEntries, LookPcs, HitPcs, AnswerPcs, PrunePcs, PurgePcs
    <3>2. Key(a) \in Keys /\ op[a].pc \in AnswerPcs /\ Settled(a, "not_stored")
      BY <2>7, <1>t DEF NothingNew, At, Key, Fits, HasKey, AnswerPcs
    <3> QED
      BY <3>1, <3>2, <1>0, SettledFits
  <2>8. CASE StoreMem(a)
    <3>1. DataTyped'
      BY <2>8, <1>t DEF StoreMem, At, Key, DataTyped, Versions, tables, Op, Actors, Fits,
         HasKey, HasEntries, LookPcs, HitPcs, AnswerPcs, PrunePcs, PurgePcs
    <3>2. op' \in [Actors -> Op]
      BY <2>8, <1>t DEF StoreMem, Go, tables, At, Key, Op, Kind, Keys, DataTyped, Versions,
         Pcs, LookPcs, HitPcs, AnswerPcs, PrunePcs, PurgePcs, Actors
    <3>3. \A b \in Actors : Fits(b, op[b])'
      BY <2>8, <1>t DEF StoreMem, Go, tables, At, Key, Op, Fits, HasKey, HasEntries, HasRole,
         IsJob, Purging, Actors, DataTyped, LookPcs, HitPcs, AnswerPcs, PrunePcs, PurgePcs
    <3> QED
      BY <3>1, <3>2, <3>3 DEF CInv, OpsOK
  <2>9. CASE StoreDisk(a)
    <3>1. CASE Settled(a, "stored")
      <4>1. DataTyped' /\ current' >= current
        BY <2>9, <3>1, <1>t DEF StoreDisk, At, Key, DataTyped, Versions, tables, Op, Actors,
           Fits, HasKey, HasEntries, LookPcs, HitPcs, AnswerPcs, PrunePcs, PurgePcs
      <4>2. Key(a) \in Keys /\ op[a].pc \in AnswerPcs /\ Settled(a, "stored")
        BY <2>9, <3>1, <1>t DEF StoreDisk, At, Key, Fits, HasKey, AnswerPcs
      <4> QED
        BY <4>1, <4>2, <1>0, SettledFits
    <3>2. CASE Settled(a, "not_stored")
      <4>1. DataTyped' /\ current' >= current
        BY <2>9, <3>2, <1>t DEF StoreDisk, At, Key, DataTyped, Versions, tables, Op, Actors,
           Fits, HasKey, HasEntries, LookPcs, HitPcs, AnswerPcs, PrunePcs, PurgePcs
      <4>2. Key(a) \in Keys /\ op[a].pc \in AnswerPcs /\ Settled(a, "not_stored")
        BY <2>9, <3>2, <1>t DEF StoreDisk, At, Key, Fits, HasKey, AnswerPcs
      <4> QED
        BY <4>1, <4>2, <1>0, SettledFits
    <3> QED
      BY <2>9, <3>1, <3>2 DEF StoreDisk
  <2>10. CASE MergeMem(a)
    <3>1. ASSUME NEW age \in Ages, ~ Absent(mem[Key(a)], age), UNCHANGED mem,
            op' = [op EXCEPT ![a].pc = "merge_put",
                                     ![a].hit = [mem[Key(a)] EXCEPT !.head = op[a].new.head]]
         PROVE  CInv'
      <4> DEFINE r == [op[a] EXCEPT !.pc = "merge_put",
                   !.hit = [mem[Key(a)] EXCEPT !.head = op[a].new.head]]
      <4>0. op[a] \in Op /\ Fits(a, op[a]) /\ "merge_put" \in Pcs /\ [mem[Key(a)] EXCEPT !.head = op[a].new.head] \in Entry
        BY <2>10, <3>1, <1>t DEF MergeMem, At, Key, DataTyped, Fits, HasKey, HasEntries,
           HasRole, IsJob, Actors, Versions, Absent, Pcs, LookPcs, HitPcs, AnswerPcs, PrunePcs,
           PurgePcs, Entry, Op
      <4>1. op' = [op EXCEPT ![a] = r]
        BY <2>10, <3>1, <1>t DEF MergeMem, Go, tables, At
      <4>2. r \in Op
        BY <4>0 DEF Op, Key
      <4>3. Fits(a, r)
        BY <2>10, <3>1, <4>0 DEF MergeMem, At, Key, Op, Fits, HasKey, HasEntries, HasRole,
           IsJob, Purging, Actors, DataTyped, LookPcs, HitPcs, AnswerPcs, PrunePcs, PurgePcs
      <4>4. DataTyped' /\ current' >= current
        BY <2>10, <3>1, <4>0, <1>t
           DEF MergeMem, At, Key, DataTyped, Versions, tables, Op, Actors, Fits, HasKey,
           HasEntries, LookPcs, HitPcs, AnswerPcs, PrunePcs, PurgePcs
      <4> HIDE DEF r
      <4> QED
        BY <4>1, <4>2, <4>3, <4>4, <1>0, AloneFits DEF Actors
    <3>2. CASE mem' = [mem EXCEPT ![Key(a)] = None] /\ Go(a, "merge_disk")
      <4> DEFINE r == [op[a] EXCEPT !.pc = "merge_disk"]
      <4>0. op[a] \in Op /\ Fits(a, op[a]) /\ "merge_disk" \in Pcs
        BY <2>10, <3>2, <1>t DEF MergeMem, At, Key, DataTyped, Fits, HasKey, HasEntries,
           HasRole, IsJob, Actors, Versions, Absent, Pcs, LookPcs, HitPcs, AnswerPcs, PrunePcs,
           PurgePcs
      <4>1. op' = [op EXCEPT ![a] = r]
        BY <2>10, <3>2, <1>t DEF MergeMem, Go, tables, At
      <4>2. r \in Op
        BY <4>0 DEF Op, Key
      <4>3. Fits(a, r)
        BY <2>10, <3>2, <4>0 DEF MergeMem, At, Key, Op, Fits, HasKey, HasEntries, HasRole,
           IsJob, Purging, Actors, DataTyped, LookPcs, HitPcs, AnswerPcs, PrunePcs, PurgePcs
      <4>4. DataTyped' /\ current' >= current
        BY <2>10, <3>2, <4>0, <1>t
           DEF MergeMem, At, Key, DataTyped, Versions, tables, Op, Actors, Fits, HasKey,
           HasEntries, LookPcs, HitPcs, AnswerPcs, PrunePcs, PurgePcs
      <4> HIDE DEF r
      <4> QED
        BY <4>1, <4>2, <4>3, <4>4, <1>0, AloneFits DEF Actors
    <3> QED
      BY <2>10, <3>1, <3>2 DEF MergeMem
  <2>11. CASE MergePut(a)
    <3>1. DataTyped'
      BY <2>11, <1>t DEF MergePut, At, Key, DataTyped, Versions, tables, Op, Actors, Fits,
         HasKey, HasEntries, LookPcs, HitPcs, AnswerPcs, PrunePcs, PurgePcs
    <3>2. op' \in [Actors -> Op]
      BY <2>11, <1>t DEF MergePut, tables, At, Key, Op, Kind, Keys, DataTyped, Versions, Pcs,
         LookPcs, HitPcs, AnswerPcs, PrunePcs, PurgePcs, Actors
    <3>3. \A b \in Actors : Fits(b, op[b])'
      BY <2>11, <1>t DEF MergePut, tables, At, Key, Op, Fits, HasKey, HasEntries, HasRole,
         IsJob, Purging, Actors, DataTyped, LookPcs, HitPcs, AnswerPcs, PrunePcs, PurgePcs
    <3> QED
      BY <3>1, <3>2, <3>3 DEF CInv, OpsOK
  <2>12. CASE MergeDisk(a)
    <3>1. CASE Settled(a, "not_stored")
      <4>1. DataTyped' /\ current' >= current
        BY <2>12, <3>1, <1>t DEF MergeDisk, At, Key, DataTyped, Versions, tiers, tables, Op,
           Actors, Fits, HasKey, HasEntries, LookPcs, HitPcs, AnswerPcs, PrunePcs, PurgePcs
      <4>2. Key(a) \in Keys /\ op[a].pc \in AnswerPcs /\ Settled(a, "not_stored")
        BY <2>12, <3>1, <1>t DEF MergeDisk, At, Key, Fits, HasKey, AnswerPcs
      <4> QED
        BY <4>1, <4>2, <1>0, SettledFits
    <3>2. ASSUME disk[Key(a)] # None,
            op' = [op EXCEPT ![a].pc = "merge_commit",
                                     ![a].hit = [disk[Key(a)] EXCEPT !.head = op[a].new.head]]
         PROVE  CInv'
      <4> DEFINE r == [op[a] EXCEPT !.pc = "merge_commit",
                   !.hit = [disk[Key(a)] EXCEPT !.head = op[a].new.head]]
      <4>0. op[a] \in Op /\ Fits(a, op[a]) /\ "merge_commit" \in Pcs /\ [disk[Key(a)] EXCEPT !.head = op[a].new.head] \in Entry
        BY <2>12, <3>2, <1>t DEF MergeDisk, At, Key, DataTyped, Fits, HasKey, HasEntries,
           HasRole, IsJob, Actors, Versions, Pcs, LookPcs, HitPcs, AnswerPcs, PrunePcs,
           PurgePcs, Entry, Op
      <4>1. op' = [op EXCEPT ![a] = r]
        BY <2>12, <3>2, <1>t DEF MergeDisk, tiers, tables, At
      <4>2. r \in Op
        BY <4>0 DEF Op, Key
      <4>3. Fits(a, r)
        BY <2>12, <3>2, <4>0 DEF MergeDisk, At, Key, Op, Fits, HasKey, HasEntries, HasRole,
           IsJob, Purging, Actors, DataTyped, LookPcs, HitPcs, AnswerPcs, PrunePcs, PurgePcs
      <4>4. DataTyped' /\ current' >= current
        BY <2>12, <3>2, <4>0, <1>t
           DEF MergeDisk, At, Key, DataTyped, Versions, tiers, tables, Op, Actors, Fits,
           HasKey, HasEntries, LookPcs, HitPcs, AnswerPcs, PrunePcs, PurgePcs
      <4> HIDE DEF r
      <4> QED
        BY <4>1, <4>2, <4>3, <4>4, <1>0, AloneFits DEF Actors
    <3> QED
      BY <2>12, <3>1, <3>2 DEF MergeDisk
  <2>13. CASE MergeCommit(a)
    <3>1. DataTyped' /\ current' >= current
      BY <2>13, <1>t DEF MergeCommit, At, Key, DataTyped, Versions, tables, Op, Actors, Fits,
         HasKey, HasEntries, LookPcs, HitPcs, AnswerPcs, PrunePcs, PurgePcs
    <3>2. Key(a) \in Keys /\ op[a].pc \in AnswerPcs /\ Settled(a, "not_stored")
      BY <2>13, <1>t DEF MergeCommit, At, Key, Fits, HasKey, AnswerPcs
    <3> QED
      BY <3>1, <3>2, <1>0, SettledFits
  <2>14. CASE RemoveMem(a)
    <3>1. DataTyped'
      BY <2>14, <1>t DEF RemoveMem, At, Key, DataTyped, Versions, tables, Op, Actors, Fits,
         HasKey, HasEntries, LookPcs, HitPcs, AnswerPcs, PrunePcs, PurgePcs
    <3>2. op' \in [Actors -> Op]
      BY <2>14, <1>t DEF RemoveMem, Go, tables, At, Key, Op, Kind, Keys, DataTyped, Versions,
         Pcs, LookPcs, HitPcs, AnswerPcs, PrunePcs, PurgePcs, Actors
    <3>3. \A b \in Actors : Fits(b, op[b])'
      BY <2>14, <1>t DEF RemoveMem, Go, tables, At, Key, Op, Fits, HasKey, HasEntries, HasRole,
         IsJob, Purging, Actors, DataTyped, LookPcs, HitPcs, AnswerPcs, PrunePcs, PurgePcs
    <3> QED
      BY <3>1, <3>2, <3>3 DEF CInv, OpsOK
  <2>15. CASE RemoveDisk(a)
    <3>1. DataTyped' /\ current' >= current
      BY <2>15, <1>t DEF RemoveDisk, At, Key, DataTyped, Versions, tables, Op, Actors, Fits,
         HasKey, HasEntries, LookPcs, HitPcs, AnswerPcs, PrunePcs, PurgePcs
    <3>2. Key(a) \in Keys /\ op[a].pc \in AnswerPcs /\ Settled(a, "not_stored")
      BY <2>15, <1>t DEF RemoveDisk, At, Key, Fits, HasKey, AnswerPcs
    <3> QED
      BY <3>1, <3>2, <1>0, SettledFits
  <2>16. ASSUME a \in Jobs, Release(a)
         PROVE  CInv'
    <3>1. op' = [op EXCEPT ![a] = NoOp]
      BY <2>16, <1>t DEF Release, Answered, tiers, At
    <3>2. DataTyped' /\ current' >= current
      BY <2>16, <1>t DEF Release, At, Key, DataTyped, Versions, tiers, Op, Actors, Fits,
         HasKey, HasEntries, LookPcs, HitPcs, AnswerPcs, PrunePcs, PurgePcs
    <3> QED
      BY <3>1, <3>2, <1>0, AloneFits, NoOpFits DEF Actors
  <2>17. ASSUME a \in Handlers, Get(a) \/ Consult(a) \/ Coalesce(a) \/ Purge(a) \/ Clear(a)
         PROVE  CInv'
    <3>1. CASE LookMem(a)
      <4>1. ASSUME NEW age \in Ages, ~ Absent(mem[Key(a)], age), Found(a, mem[Key(a)], age), UNCHANGED mem
           PROVE  CInv'
        <5> DEFINE e == mem[Key(a)]
        <5>1. DataTyped' /\ current' >= current
          BY <3>1, <4>1, <1>t DEF LookMem, At, Key, DataTyped, Versions, tables, Op, Actors,
             Fits, HasKey, HasEntries, LookPcs, HitPcs, AnswerPcs, PrunePcs, PurgePcs
        <5>2. a \in Handlers /\ op[a].pc \in LookPcs /\ e \in Entry /\ Found(a, e, age)
          BY <2>17, <3>1, <4>1, <1>t
             DEF LookMem, At, Key, Fits, HasKey, HasEntries, DataTyped, LookPcs, Actors, Absent
        <5> HIDE DEF e
        <5> QED
          BY <5>1, <5>2, <1>0, FoundFits
      <4>2. CASE mem' = [mem EXCEPT ![Key(a)] = None] /\ Go(a, "disk")
        <5> DEFINE r == [op[a] EXCEPT !.pc = "disk"]
        <5>0. op[a] \in Op /\ Fits(a, op[a]) /\ "disk" \in Pcs
          BY <3>1, <4>2, <1>t DEF LookMem, At, Key, DataTyped, Fits, HasKey, HasEntries,
             HasRole, IsJob, Actors, Versions, Absent, Pcs, LookPcs, HitPcs, AnswerPcs,
             PrunePcs, PurgePcs
        <5>1. op' = [op EXCEPT ![a] = r]
          BY <3>1, <4>2, <1>t DEF LookMem, Go, tables, At
        <5>2. r \in Op
          BY <5>0 DEF Op, Key
        <5>3. Fits(a, r)
          BY <3>1, <4>2, <5>0 DEF LookMem, At, Key, Op, Fits, HasKey, HasEntries, HasRole,
             IsJob, Purging, Actors, DataTyped, LookPcs, HitPcs, AnswerPcs, PrunePcs, PurgePcs
        <5>4. DataTyped' /\ current' >= current
          BY <3>1, <4>2, <5>0, <1>t
             DEF LookMem, At, Key, DataTyped, Versions, tables, Op, Actors, Fits, HasKey,
             HasEntries, LookPcs, HitPcs, AnswerPcs, PrunePcs, PurgePcs
        <5> HIDE DEF r
        <5> QED
          BY <5>1, <5>2, <5>3, <5>4, <1>0, AloneFits DEF Actors
      <4> QED
        BY <3>1, <4>1, <4>2 DEF LookMem
    <3>2. CASE OpenDisk(a)
      <4>1. CASE Go(a, NotFound(a))
        <5> DEFINE r == [op[a] EXCEPT !.pc = NotFound(a)]
        <5>0. op[a] \in Op /\ Fits(a, op[a]) /\ NotFound(a) \in Pcs
          BY <3>2, <4>1, <1>t DEF OpenDisk, At, Key, NotFound, DataTyped, Fits, HasKey,
             HasEntries, HasRole, IsJob, Actors, Versions, Pcs, LookPcs, HitPcs, AnswerPcs,
             PrunePcs, PurgePcs
        <5>1. op' = [op EXCEPT ![a] = r]
          BY <3>2, <4>1, <1>t DEF OpenDisk, Go, NotFound, tiers, tables, At
        <5>2. r \in Op
          BY <5>0 DEF Op, Key, NotFound
        <5>3. Fits(a, r)
          BY <3>2, <4>1, <5>0 DEF OpenDisk, At, Key, Op, NotFound, Fits, HasKey, HasEntries,
             HasRole, IsJob, Purging, Actors, DataTyped, LookPcs, HitPcs, AnswerPcs, PrunePcs,
             PurgePcs
        <5>4. DataTyped' /\ current' >= current
          BY <3>2, <4>1, <5>0, <1>t
             DEF OpenDisk, At, Key, DataTyped, Versions, tiers, tables, Op, Actors, Fits,
             HasKey, HasEntries, LookPcs, HitPcs, AnswerPcs, PrunePcs, PurgePcs
        <5> HIDE DEF r
        <5> QED
          BY <5>1, <5>2, <5>3, <5>4, <1>0, AloneFits DEF Actors
      <4>2. CASE Go(a, "drop")
        <5> DEFINE r == [op[a] EXCEPT !.pc = "drop"]
        <5>0. op[a] \in Op /\ Fits(a, op[a]) /\ "drop" \in Pcs
          BY <3>2, <4>2, <1>t DEF OpenDisk, At, Key, NotFound, DataTyped, Fits, HasKey,
             HasEntries, HasRole, IsJob, Actors, Versions, Pcs, LookPcs, HitPcs, AnswerPcs,
             PrunePcs, PurgePcs
        <5>1. op' = [op EXCEPT ![a] = r]
          BY <3>2, <4>2, <1>t DEF OpenDisk, Go, NotFound, tiers, tables, At
        <5>2. r \in Op
          BY <5>0 DEF Op, Key
        <5>3. Fits(a, r)
          BY <3>2, <4>2, <5>0 DEF OpenDisk, At, Key, Op, NotFound, Fits, HasKey, HasEntries,
             HasRole, IsJob, Purging, Actors, DataTyped, LookPcs, HitPcs, AnswerPcs, PrunePcs,
             PurgePcs
        <5>4. DataTyped' /\ current' >= current
          BY <3>2, <4>2, <5>0, <1>t
             DEF OpenDisk, At, Key, DataTyped, Versions, tiers, tables, Op, Actors, Fits,
             HasKey, HasEntries, LookPcs, HitPcs, AnswerPcs, PrunePcs, PurgePcs
        <5> HIDE DEF r
        <5> QED
          BY <5>1, <5>2, <5>3, <5>4, <1>0, AloneFits DEF Actors
      <4>3. CASE disk[Key(a)] # None /\ op' = [op EXCEPT ![a].pc = "promote", ![a].hit = disk[Key(a)]]
        <5> DEFINE r == [op[a] EXCEPT !.pc = "promote", !.hit = disk[Key(a)]]
        <5>0. op[a] \in Op /\ Fits(a, op[a]) /\ "promote" \in Pcs /\ disk[Key(a)] \in Entry
          BY <3>2, <4>3, <1>t DEF OpenDisk, At, Key, NotFound, DataTyped, Fits, HasKey,
             HasEntries, HasRole, IsJob, Actors, Versions, Pcs, LookPcs, HitPcs, AnswerPcs,
             PrunePcs, PurgePcs
        <5>1. op' = [op EXCEPT ![a] = r]
          BY <3>2, <4>3, <1>t DEF OpenDisk, Go, NotFound, tiers, tables, At
        <5>2. r \in Op
          BY <5>0 DEF Op, Key
        <5>3. Fits(a, r)
          BY <3>2, <4>3, <5>0 DEF OpenDisk, At, Key, Op, NotFound, Fits, HasKey, HasEntries,
             HasRole, IsJob, Purging, Actors, DataTyped, LookPcs, HitPcs, AnswerPcs, PrunePcs,
             PurgePcs
        <5>4. DataTyped' /\ current' >= current
          BY <3>2, <4>3, <5>0, <1>t
             DEF OpenDisk, At, Key, DataTyped, Versions, tiers, tables, Op, Actors, Fits,
             HasKey, HasEntries, LookPcs, HitPcs, AnswerPcs, PrunePcs, PurgePcs
        <5> HIDE DEF r
        <5> QED
          BY <5>1, <5>2, <5>3, <5>4, <1>0, AloneFits DEF Actors
      <4>4. ASSUME NEW age \in Ages, disk[Key(a)] # None, Found(a, disk[Key(a)], age)
           PROVE  CInv'
        <5> DEFINE e == disk[Key(a)]
        <5>1. DataTyped' /\ current' >= current
          BY <3>2, <4>4, <1>t DEF OpenDisk, At, Key, DataTyped, Versions, tiers, tables, Op,
             Actors, Fits, HasKey, HasEntries, LookPcs, HitPcs, AnswerPcs, PrunePcs, PurgePcs
        <5>2. a \in Handlers /\ op[a].pc \in LookPcs /\ e \in Entry /\ Found(a, e, age)
          BY <2>17, <3>2, <4>4, <1>t
             DEF OpenDisk, At, Key, Fits, HasKey, HasEntries, DataTyped, LookPcs, Actors
        <5> HIDE DEF e
        <5> QED
          BY <5>1, <5>2, <1>0, FoundFits
      <4> QED
        BY <3>2, <4>1, <4>2, <4>3, <4>4 DEF OpenDisk
    <3>3. CASE DropUnreadable(a)
      <4>1. DataTyped'
        BY <3>3, <1>t DEF DropUnreadable, At, Key, DataTyped, Versions, tables, Op, Actors,
           Fits, HasKey, HasEntries, LookPcs, HitPcs, AnswerPcs, PrunePcs, PurgePcs
      <4>2. op' \in [Actors -> Op]
        BY <3>3, <1>t DEF DropUnreadable, Go, NotFound, tables, At, Key, Op, Kind, Keys,
           DataTyped, Versions, Pcs, LookPcs, HitPcs, AnswerPcs, PrunePcs, PurgePcs, Actors
      <4>3. \A b \in Actors : Fits(b, op[b])'
        BY <3>3, <1>t DEF DropUnreadable, Go, NotFound, tables, At, Key, Op, Fits, HasKey,
           HasEntries, HasRole, IsJob, Purging, Actors, DataTyped, LookPcs, HitPcs, AnswerPcs,
           PrunePcs, PurgePcs
      <4> QED
        BY <4>1, <4>2, <4>3 DEF CInv, OpsOK
    <3>4. CASE Promote(a)
      <4>1. ASSUME NEW age \in Ages, Found(a, op[a].hit, age)
           PROVE  CInv'
        <5> DEFINE e == op[a].hit
        <5>1. DataTyped' /\ current' >= current
          BY <3>4, <4>1, <1>t DEF Promote, At, Key, DataTyped, Versions, tables, Op, Actors,
             Fits, HasKey, HasEntries, LookPcs, HitPcs, AnswerPcs, PrunePcs, PurgePcs
        <5>2. a \in Handlers /\ op[a].pc \in LookPcs /\ e \in Entry /\ Found(a, e, age)
          BY <2>17, <3>4, <4>1, <1>t
             DEF Promote, At, Key, Fits, HasKey, HasEntries, DataTyped, LookPcs, Actors
        <5> HIDE DEF e
        <5> QED
          BY <5>1, <5>2, <1>0, FoundFits
      <4> QED
        BY <3>4, <4>1 DEF Promote
    <3>5. CASE Judge(a)
      <4>1. CASE Answered(a) /\ UNCHANGED revalidating
        <5>1. op' = [op EXCEPT ![a] = NoOp]
          BY <3>5, <4>1, <1>t DEF Judge, Answered, tiers, At, KeepStale
        <5>2. DataTyped' /\ current' >= current
          BY <3>5, <4>1, <1>t DEF Judge, At, Key, DataTyped, Versions, tiers, Op, Actors, Fits,
             HasKey, HasEntries, LookPcs, HitPcs, AnswerPcs, PrunePcs, PurgePcs
        <5> QED
          BY <5>1, <5>2, <1>0, AloneFits, NoOpFits DEF Actors
      <4>2. ASSUME NEW pc \in {"spawn", "missed"}, KeepStale(a, pc)
           PROVE  CInv'
        <5> DEFINE kept == IF ~ op[a].kind.conditional \/ op[a].hit.shape.validators THEN op[a].hit ELSE None
        <5>kept. kept \in Entry \cup {None}
          BY <3>5, <4>2, <1>t DEF Judge, Op
        <5> DEFINE r == [op[a] EXCEPT !.pc = pc, !.hit = None,
                   !.stale = kept]
        <5>0. op[a] \in Op /\ Fits(a, op[a]) /\ pc \in Pcs
          BY <3>5, <4>2, <1>t DEF Judge, At, Key, DataTyped, Fits, HasKey, HasEntries, HasRole,
             IsJob, Actors, NoOp, Versions, Pcs, LookPcs, HitPcs, AnswerPcs, PrunePcs, PurgePcs
        <5>1. op' = [op EXCEPT ![a] = r]
          BY <3>5, <4>2, <1>t DEF Judge, Answered, tiers, At, KeepStale
        <5>2. r \in Op
          <6> HIDE DEF kept
          <6> QED
            BY <5>kept, <5>0 DEF Op, Key
        <5>3. Fits(a, r)
          BY <3>5, <4>2, <5>0 DEF Judge, At, Key, Op, Fits, HasKey, HasEntries, HasRole, IsJob,
             Purging, Actors, DataTyped, LookPcs, HitPcs, AnswerPcs, PrunePcs, PurgePcs
        <5>4. DataTyped' /\ current' >= current
          BY <3>5, <4>2, <5>0, <1>t
             DEF Judge, At, Key, DataTyped, Versions, tiers, Op, Actors, Fits, HasKey,
             HasEntries, LookPcs, HitPcs, AnswerPcs, PrunePcs, PurgePcs
        <5> HIDE DEF r
        <5> QED
          BY <5>1, <5>2, <5>3, <5>4, <1>0, AloneFits DEF Actors
      <4> QED
        BY <3>5, <4>1, <4>2 DEF Judge
    <3>6. CASE SpawnRefused(a)
      <4>1. DataTyped'
        BY <3>6, <1>t DEF SpawnRefused, At, Key, DataTyped, Versions, tiers, Op, Actors, Fits,
           HasKey, HasEntries, LookPcs, HitPcs, AnswerPcs, PrunePcs, PurgePcs
      <4>2. op' \in [Actors -> Op]
        BY <3>6, <1>t DEF SpawnRefused, Go, tiers, At, Key, Op, Kind, Keys, DataTyped,
           Versions, Pcs, LookPcs, HitPcs, AnswerPcs, PrunePcs, PurgePcs, Actors
      <4>3. \A b \in Actors : Fits(b, op[b])'
        BY <3>6, <1>t DEF SpawnRefused, Go, tiers, At, Key, Op, Fits, HasKey, HasEntries,
           HasRole, IsJob, Purging, Actors, DataTyped, LookPcs, HitPcs, AnswerPcs, PrunePcs,
           PurgePcs
      <4> QED
        BY <4>1, <4>2, <4>3 DEF CInv, OpsOK
    <3>7. CASE GoToOrigin(a)
      <4>1. CASE Answered(a) /\ UNCHANGED flight
        <5>1. op' = [op EXCEPT ![a] = NoOp]
          BY <4>1, <1>t DEF Answered, At
        <5>2. DataTyped' /\ current' >= current
          BY <3>7, <4>1, <1>t DEF GoToOrigin, At, Key, DataTyped, Versions, tiers, Op, Actors,
             Fits, HasKey, HasEntries, Fetch, Begin, LookPcs, HitPcs, AnswerPcs, PrunePcs,
             PurgePcs
        <5> QED
          BY <5>1, <5>2, <1>0, AloneFits, NoOpFits DEF Actors
      <4>2. ASSUME NEW s \in BOOLEAN, Fetch(a, s)
           PROVE  CInv'
        <5> DEFINE r == [op[a] EXCEPT !.pc = "fetch", !.store = s]
        <5>0. op[a] \in Op /\ Fits(a, op[a]) /\ "fetch" \in Pcs
          BY <3>7, <4>2, <1>t DEF GoToOrigin, At, Key, DataTyped, Fits, HasKey, HasEntries,
             HasRole, IsJob, Actors, NoOp, Versions, Pcs, LookPcs, HitPcs, AnswerPcs, PrunePcs,
             PurgePcs
        <5>1. op' = [op EXCEPT ![a] = r]
          BY <4>2, <1>t DEF Answered, At, Fetch
        <5>2. r \in Op
          BY <5>0 DEF Op, Key
        <5>3. Fits(a, r)
          BY <3>7, <4>2, <5>0 DEF GoToOrigin, At, Key, Op, Fits, HasKey, HasEntries, HasRole,
             IsJob, Purging, Actors, DataTyped, LookPcs, HitPcs, AnswerPcs, PrunePcs, PurgePcs
        <5>4. DataTyped' /\ current' >= current
          BY <3>7, <4>2, <5>0, <1>t
             DEF GoToOrigin, At, Key, DataTyped, Versions, tiers, Op, Actors, Fits, HasKey,
             HasEntries, Fetch, Begin, LookPcs, HitPcs, AnswerPcs, PrunePcs, PurgePcs
        <5> HIDE DEF r
        <5> QED
          BY <5>1, <5>2, <5>3, <5>4, <1>0, AloneFits DEF Actors
      <4>3. CASE /\ flight' = [flight EXCEPT ![Key(a)] = a]
          /\ op' = [op EXCEPT ![a].pc = "fetch", ![a].store = TRUE, ![a].role = "leader"]
        <5> DEFINE r == [op[a] EXCEPT !.pc = "fetch", !.store = TRUE, !.role = "leader"]
        <5>0. op[a] \in Op /\ Fits(a, op[a]) /\ "fetch" \in Pcs
          BY <3>7, <4>3, <1>t DEF GoToOrigin, At, Key, DataTyped, Fits, HasKey, HasEntries,
             HasRole, IsJob, Actors, Versions, Pcs, LookPcs, HitPcs, AnswerPcs, PrunePcs,
             PurgePcs
        <5>1. op' = [op EXCEPT ![a] = r]
          BY <4>3, <1>t DEF At
        <5>2. r \in Op
          BY <5>0 DEF Op, Key
        <5>3. Fits(a, r)
          BY <3>7, <4>3, <5>0 DEF GoToOrigin, At, Key, Op, Fits, HasKey, HasEntries, HasRole,
             IsJob, Purging, Actors, DataTyped, LookPcs, HitPcs, AnswerPcs, PrunePcs, PurgePcs
        <5>4. DataTyped' /\ current' >= current
          BY <3>7, <4>3, <5>0, <1>t
             DEF GoToOrigin, At, Key, DataTyped, Versions, tiers, Op, Actors, Fits, HasKey,
             HasEntries, Fetch, Begin, LookPcs, HitPcs, AnswerPcs, PrunePcs, PurgePcs
        <5> HIDE DEF r
        <5> QED
          BY <5>1, <5>2, <5>3, <5>4, <1>0, AloneFits DEF Actors
      <4>4. CASE /\ flight[Key(a)] # None /\ UNCHANGED flight
          /\ op' = [op EXCEPT ![a].pc = "wait", ![a].store = TRUE, ![a].role = "follower",
                                      ![a].of = flight[Key(a)]]
        <5> DEFINE r == [op[a] EXCEPT !.pc = "wait", !.store = TRUE, !.role = "follower",
                   !.of = flight[Key(a)]]
        <5>0. op[a] \in Op /\ Fits(a, op[a]) /\ "wait" \in Pcs /\ flight[Key(a)] \in Handlers
          BY <3>7, <4>4, <1>t DEF GoToOrigin, At, Key, DataTyped, Fits, HasKey, HasEntries,
             HasRole, IsJob, Actors, Versions, Pcs, LookPcs, HitPcs, AnswerPcs, PrunePcs,
             PurgePcs
        <5>1. op' = [op EXCEPT ![a] = r]
          BY <4>4, <1>t DEF At
        <5>2. r \in Op
          BY <5>0 DEF Op, Key
        <5>3. Fits(a, r)
          BY <3>7, <4>4, <5>0 DEF GoToOrigin, At, Key, Op, Fits, HasKey, HasEntries, HasRole,
             IsJob, Purging, Actors, DataTyped, LookPcs, HitPcs, AnswerPcs, PrunePcs, PurgePcs
        <5>4. DataTyped' /\ current' >= current
          BY <3>7, <4>4, <5>0, <1>t
             DEF GoToOrigin, At, Key, DataTyped, Versions, tiers, Op, Actors, Fits, HasKey,
             HasEntries, Fetch, Begin, LookPcs, HitPcs, AnswerPcs, PrunePcs, PurgePcs
        <5> HIDE DEF r
        <5> QED
          BY <5>1, <5>2, <5>3, <5>4, <1>0, AloneFits DEF Actors
      <4> QED
        BY <3>7, <4>1, <4>2, <4>3, <4>4 DEF GoToOrigin, Begin, Stores, Revalidates
    <3>8. CASE Woken(a)
      <4>1. DataTyped'
        BY <3>8, <1>t DEF Woken, At, Key, DataTyped, Versions, tiers, tables, Op, Actors, Fits,
           HasKey, HasEntries, LookPcs, HitPcs, AnswerPcs, PrunePcs, PurgePcs
      <4>2. op' \in [Actors -> Op]
        BY <3>8, <1>t DEF Woken, Go, tiers, tables, At, Key, Op, Kind, Keys, DataTyped,
           Versions, Pcs, LookPcs, HitPcs, AnswerPcs, PrunePcs, PurgePcs, Actors
      <4>3. \A b \in Actors : Fits(b, op[b])'
        BY <3>8, <1>t DEF Woken, Go, tiers, tables, At, Key, Op, Fits, HasKey, HasEntries,
           HasRole, IsJob, Purging, Actors, DataTyped, LookPcs, HitPcs, AnswerPcs, PrunePcs,
           PurgePcs
      <4> QED
        BY <4>1, <4>2, <4>3 DEF CInv, OpsOK
    <3>9. CASE Finish(a)
      <4>1. DataTyped'
        BY <3>9, <1>t DEF Finish, At, Key, DataTyped, Versions, tiers, Op, Actors, Fits,
           HasKey, HasEntries, LookPcs, HitPcs, AnswerPcs, PrunePcs, PurgePcs
      <4>2. op' \in [Actors -> Op]
        BY <3>9, <1>t DEF Finish, Go, tiers, At, Key, Op, Kind, Keys, DataTyped, Versions, Pcs,
           LookPcs, HitPcs, AnswerPcs, PrunePcs, PurgePcs, Actors
      <4>3. \A b \in Actors : Fits(b, op[b])'
        BY <3>9, <1>t DEF Finish, Go, tiers, At, Key, Op, Fits, HasKey, HasEntries, HasRole,
           IsJob, Purging, Actors, DataTyped, LookPcs, HitPcs, AnswerPcs, PrunePcs, PurgePcs
      <4> QED
        BY <4>1, <4>2, <4>3 DEF CInv, OpsOK
    <3>10. CASE Notify(a)
      <4>1. DataTyped'
        BY <3>10, <1>t DEF Notify, At, Key, DataTyped, Versions, tiers, tables, Op, Actors,
           Fits, HasKey, HasEntries, LookPcs, HitPcs, AnswerPcs, PrunePcs, PurgePcs
      <4>2. op' \in [Actors -> Op]
        BY <3>10, <1>t DEF Notify, tiers, tables, At, Key, Op, Kind, NoOp, Keys, DataTyped,
           Versions, Pcs, LookPcs, HitPcs, AnswerPcs, PrunePcs, PurgePcs, Actors
      <4>3. \A b \in Actors : Fits(b, op[b])'
        BY <3>10, <1>t DEF Notify, tiers, tables, At, Key, Op, NoOp, Fits, HasKey, HasEntries,
           HasRole, IsJob, Purging, Actors, DataTyped, LookPcs, HitPcs, AnswerPcs, PrunePcs,
           PurgePcs
      <4> QED
        BY <4>1, <4>2, <4>3 DEF CInv, OpsOK
    <3>11. CASE PurgeDisk(a)
      <4> DEFINE left == op[a].todo \ {Key(a)}
      <4>left. left \in SUBSET Keys
        BY <3>11, <1>t DEF PurgeDisk, Op
      <4> DEFINE r == [op[a] EXCEPT !.pc = "purge", !.key = None, !.todo = left]
      <4>0. op[a] \in Op /\ Fits(a, op[a]) /\ "purge" \in Pcs
        BY <3>11, <1>t DEF PurgeDisk, At, Key, DataTyped, Fits, HasKey, HasEntries, HasRole,
           IsJob, Actors, Versions, Pcs, LookPcs, HitPcs, AnswerPcs, PrunePcs, PurgePcs
      <4>1. op' = [op EXCEPT ![a] = r]
        BY <3>11, <1>t DEF PurgeDisk, tables, At
      <4>2. r \in Op
        <5> HIDE DEF left
        <5> QED
          BY <4>left, <4>0 DEF Op, Key
      <4>3. Fits(a, r)
        BY <3>11, <4>0 DEF PurgeDisk, At, Key, Op, Fits, HasKey, HasEntries, HasRole, IsJob,
           Purging, Actors, DataTyped, LookPcs, HitPcs, AnswerPcs, PrunePcs, PurgePcs
      <4>4. DataTyped' /\ current' >= current
        BY <3>11, <4>0, <1>t DEF PurgeDisk, At, Key, DataTyped, Versions, tables, Op, Actors,
           Fits, HasKey, HasEntries, LookPcs, HitPcs, AnswerPcs, PrunePcs, PurgePcs
      <4> HIDE DEF r
      <4> QED
        BY <4>1, <4>2, <4>3, <4>4, <1>0, AloneFits DEF Actors
    <3>12. CASE Purged(a)
      <4>1. DataTyped'
        BY <3>12, <1>t DEF Purged, At, Key, DataTyped, Versions, tiers, tables, Op, Actors,
           Fits, HasKey, HasEntries, LookPcs, HitPcs, AnswerPcs, PrunePcs, PurgePcs
      <4>2. op' \in [Actors -> Op]
        BY <3>12, <1>t DEF Purged, Answered, tiers, tables, At, Key, Op, Kind, NoOp, Keys,
           DataTyped, Versions, Pcs, LookPcs, HitPcs, AnswerPcs, PrunePcs, PurgePcs, Actors
      <4>3. \A b \in Actors : Fits(b, op[b])'
        BY <3>12, <1>t DEF Purged, Answered, tiers, tables, At, Key, Op, NoOp, Fits, HasKey,
           HasEntries, HasRole, IsJob, Purging, Actors, DataTyped, LookPcs, HitPcs, AnswerPcs,
           PrunePcs, PurgePcs
      <4> QED
        BY <4>1, <4>2, <4>3 DEF CInv, OpsOK
    <3>13. CASE ClearDisk(a)
      <4>1. DataTyped'
        BY <3>13, <1>t DEF ClearDisk, At, Key, DataTyped, Versions, tables, Op, Actors, Fits,
           HasKey, HasEntries, LookPcs, HitPcs, AnswerPcs, PrunePcs, PurgePcs
      <4>2. op' \in [Actors -> Op]
        BY <3>13, <1>t DEF ClearDisk, Go, tables, At, Key, Op, Kind, Keys, DataTyped, Versions,
           Pcs, LookPcs, HitPcs, AnswerPcs, PrunePcs, PurgePcs, Actors
      <4>3. \A b \in Actors : Fits(b, op[b])'
        BY <3>13, <1>t DEF ClearDisk, Go, tables, At, Key, Op, Fits, HasKey, HasEntries,
           HasRole, IsJob, Purging, Actors, DataTyped, LookPcs, HitPcs, AnswerPcs, PrunePcs,
           PurgePcs
      <4> QED
        BY <4>1, <4>2, <4>3 DEF CInv, OpsOK
    <3>14. CASE ClearVariants(a)
      <4>1. DataTyped'
        BY <3>14, <1>t DEF ClearVariants, At, Key, DataTyped, Versions, tiers, Op, Actors,
           Fits, HasKey, HasEntries, LookPcs, HitPcs, AnswerPcs, PrunePcs, PurgePcs
      <4>2. op' \in [Actors -> Op]
        BY <3>14, <1>t DEF ClearVariants, Answered, tiers, At, Key, Op, Kind, NoOp, Keys,
           DataTyped, Versions, Pcs, LookPcs, HitPcs, AnswerPcs, PrunePcs, PurgePcs, Actors
      <4>3. \A b \in Actors : Fits(b, op[b])'
        BY <3>14, <1>t DEF ClearVariants, Answered, tiers, At, Key, Op, NoOp, Fits, HasKey,
           HasEntries, HasRole, IsJob, Purging, Actors, DataTyped, LookPcs, HitPcs, AnswerPcs,
           PrunePcs, PurgePcs
      <4> QED
        BY <4>1, <4>2, <4>3 DEF CInv, OpsOK
    <3>15. ASSUME NEW j \in Jobs, SpawnJob(a, j)
           PROVE  CInv'
      <4> DEFINE r == [NoOp EXCEPT !.pc = "fetch", !.key = Key(a), !.stale = op[a].stale, !.store = TRUE]
      <4>0. a \in Actors /\ j \in Actors /\ a # j /\ op[a] \in Op /\ Fits(a, op[a]) /\ Key(a) \in Keys
        BY <2>17, <3>15, <1>t DEF SpawnJob, At, Key, Fits, HasKey, Actors
      <4>1. op' = [op EXCEPT ![a] = NoOp, ![j] = r]
        BY <3>15 DEF SpawnJob
      <4>2. r \in Op
        <5>1. "fetch" \in Pcs /\ NoOp \in Op
          BY <4>0, NoOpFits DEF Pcs, AnswerPcs
        <5>2. PICK e \in Entry \cup {None} : e = op[a].stale
          BY <4>0 DEF Op
        <5> DEFINE o == [NoOp EXCEPT !.pc = "fetch", !.key = Key(a)]
        <5>3. o \in Op
          BY <4>0, <5>1 DEF Op, NoOp
        <5>4. r = [o EXCEPT !.stale = e, !.store = TRUE]
          BY <5>2
        <5> HIDE DEF o, r
        <5>5. [o EXCEPT !.stale = e, !.store = TRUE] \in Op
          BY <5>3 DEF Op
        <5> QED
          BY <5>4, <5>5
      <4>3. Fits(j, r)
        BY <4>0, <2>17 DEF NoOp, Fits, HasKey, HasEntries, HasRole, IsJob, Purging, LookPcs,
           HitPcs, PurgePcs, PrunePcs,
           AnswerPcs
      <4>4. DataTyped' /\ current' >= current
        BY <3>15, <1>t DEF SpawnJob, DataTyped, tiers, tables, Versions
      <4> HIDE DEF r
      <4>5. CInv
        BY <1>0
      <4>6. NoOp \in Op /\ Fits(a, NoOp)
        BY <4>0, NoOpFits
      <4>7. op' \in [Actors -> Op]
            /\ \A b \in Actors : op'[b] = IF b = j THEN r ELSE IF b = a THEN NoOp ELSE op[b]
        BY <4>0, <4>1, <4>2, <4>6, <1>t
      <4>8. \A b \in Actors : Fits(b, op'[b])
        BY <4>3, <4>6, <4>7, <1>t
      <4>9. current' = current
        BY <3>15 DEF SpawnJob
      <4>10. \A b \in Actors : Fits(b, op[b])'
        BY <4>8, <4>9 DEF Fits, HasKey, HasEntries, HasRole, IsJob, Purging
      <4> QED
        BY <4>4, <4>7, <4>10 DEF CInv, OpsOK
    <3>16. ASSUME NEW k \in Keys, PurgeMem(a, k)
           PROVE  CInv'
      <4> DEFINE r == [op[a] EXCEPT !.pc = "purge_disk", !.key = k]
      <4>0. op[a] \in Op /\ Fits(a, op[a]) /\ "purge_disk" \in Pcs
        BY <3>16, <1>t DEF PurgeMem, At, Key, DataTyped, Fits, HasKey, HasEntries, HasRole,
           IsJob, Actors, NoOp, Versions, Pcs, LookPcs, HitPcs, AnswerPcs, PrunePcs, PurgePcs
      <4>1. op' = [op EXCEPT ![a] = r]
        BY <3>16, <1>t DEF PurgeMem, tables, At
      <4>2. r \in Op
        BY <4>0 DEF Op, Key
      <4>3. Fits(a, r)
        BY <3>16, <4>0 DEF PurgeMem, At, Key, Op, Fits, HasKey, HasEntries, HasRole, IsJob,
           Purging, Actors, DataTyped, LookPcs, HitPcs, AnswerPcs, PrunePcs, PurgePcs
      <4>4. DataTyped' /\ current' >= current
        BY <3>16, <4>0, <1>t DEF PurgeMem, At, Key, DataTyped, Versions, tables, Op, Actors,
           Fits, HasKey, HasEntries, LookPcs, HitPcs, AnswerPcs, PrunePcs, PurgePcs
      <4> HIDE DEF r
      <4> QED
        BY <4>1, <4>2, <4>3, <4>4, <1>0, AloneFits DEF Actors
    <3> QED
      BY <2>17, <3>1, <3>2, <3>3, <3>4, <3>5, <3>6, <3>7, <3>8, <3>9, <3>10, <3>11, <3>12,
         <3>13, <3>14, <3>15, <3>16
         DEF Get, Consult, Coalesce, Purge, Clear
  <2> QED
    BY <1>1, <2>1, <2>2, <2>3, <2>4, <2>5, <2>6, <2>7, <2>8, <2>9, <2>10, <2>11, <2>12, <2>13,
       <2>14, <2>15, <2>16, <2>17
       DEF Proceed, Prune, Answer, Store, Refresh, Remove
<1>2. ASSUME NEW h \in Handlers, Arrive(h) \/ GiveUp(h)
      PROVE  CInv'
  <2>1. ASSUME NEW k \in Keys, NEW q \in Kinds, Ask(h, k, q)
        PROVE  CInv'
    <3> DEFINE first == IF q.lookup THEN "mem" ELSE "missed"
    <3>first. first \in Pcs
      BY <2>1, <1>t DEF Ask, Pcs, LookPcs, HitPcs
    <3> DEFINE r == [NoOp EXCEPT !.pc = first, !.key = k, !.kind = q]
    <3>0. op[h] \in Op /\ Fits(h, op[h]) /\ "mem" \in Pcs /\ "missed" \in Pcs /\ NoOp \in Op /\ q \in Kind
      BY <2>1, <1>t DEF Kind, Keys, Ask, At, Key, DataTyped, Fits, HasKey, HasEntries, HasRole,
         IsJob, Actors, NoOp, Versions, Arrives, Pcs, LookPcs, HitPcs, AnswerPcs, PrunePcs,
         PurgePcs, Op
    <3>1. op' = [op EXCEPT ![h] = r]
      BY <2>1, <1>t DEF Ask, Arrives, tiers, tables, At
    <3>2. r \in Op
      <4> HIDE DEF first
      <4> QED
        BY <3>first, <3>0 DEF Op, Key, NoOp
    <3>3. Fits(h, r)
      BY <2>1, <3>0 DEF Ask, At, Key, Op, NoOp, Fits, HasKey, HasEntries, HasRole, IsJob,
         Purging, Actors, DataTyped, LookPcs, HitPcs, AnswerPcs, PrunePcs, PurgePcs
    <3>4. DataTyped' /\ current' >= current
      BY <2>1, <3>0, <1>t DEF Ask, At, Key, DataTyped, Versions, tiers, tables, Op, Actors,
         Arrives, Fits, HasKey, HasEntries, LookPcs, HitPcs, AnswerPcs, PrunePcs, PurgePcs
    <3> HIDE DEF r
    <3> QED
      BY <3>1, <3>2, <3>3, <3>4, <1>0, AloneFits DEF Actors
  <2>2. CASE Invalidate(h)
    <3>0. op[h] \in Op /\ Fits(h, op[h]) /\ current + 1 \in Versions /\ current \in Int
      BY <2>2, <1>t DEF Invalidate, DataTyped, Versions, Actors
    <3>1. PICK v \in Versions : v = current + 1
      BY <3>0
    <3> DEFINE r == [op[h] EXCEPT !.pc = "purge", !.todo = variants \cup {Bare}, !.then = v]
    <3>2. op' = [op EXCEPT ![h] = r] /\ current' = v
      BY <2>2, <3>0, <3>1, <1>t DEF Invalidate
    <3>3. r \in Op
      <4>1. "purge" \in Pcs /\ v \in Nat /\ variants \cup {Bare} \in SUBSET Keys
        BY <1>t DEF Pcs, PurgePcs, DataTyped, Keys, Versions
      <4> QED
        BY <3>0, <4>1 DEF Op
    <3>4. DataTyped' /\ current' >= current
      BY <2>2, <3>0, <3>1, <1>t DEF Invalidate, DataTyped, Arrives, tiers, Versions
    <3>5. op' \in [Actors -> Op] /\ \A b \in Actors : op'[b] = IF b = h THEN r ELSE op[b]
      BY <3>2, <3>3, <1>t
    <3>6. \A b \in Actors : Fits(b, op[b])'
      BY <2>2, <3>0, <3>1, <3>2, <3>5, <1>t
         DEF Invalidate, Arrives, At, Fits, HasKey, HasEntries, HasRole,
         IsJob, Purging, LookPcs, HitPcs, PurgePcs, PrunePcs, AnswerPcs, Op, Actors, Versions, DataTyped
    <3> QED
      BY <3>4, <3>5, <3>6 DEF CInv, OpsOK
  <2>3. CASE ClearMem(h)
    <3>1. DataTyped'
      BY <2>3, <1>t DEF ClearMem, At, Key, DataTyped, Versions, tables, Op, Actors, Arrives,
         Fits, HasKey, HasEntries, LookPcs, HitPcs, AnswerPcs, PrunePcs, PurgePcs
    <3>2. op' \in [Actors -> Op]
      BY <2>3, <1>t DEF ClearMem, Go, Arrives, tables, At, Key, Op, Kind, Keys, DataTyped,
         Versions, Pcs, LookPcs, HitPcs, AnswerPcs, PrunePcs, PurgePcs, Actors
    <3>3. \A b \in Actors : Fits(b, op[b])'
      BY <2>3, <1>t DEF ClearMem, Go, Arrives, tables, At, Key, Op, Fits, HasKey, HasEntries,
         HasRole, IsJob, Purging, Actors, DataTyped, LookPcs, HitPcs, AnswerPcs, PrunePcs,
         PurgePcs
    <3> QED
      BY <3>1, <3>2, <3>3 DEF CInv, OpsOK
  <2>4. CASE GiveUp(h)
    <3>1. DataTyped'
      BY <2>4, <1>t DEF GiveUp, At, Key, DataTyped, Versions, tiers, tables, Op, Actors, Fits,
         HasKey, HasEntries, LookPcs, HitPcs, AnswerPcs, PrunePcs, PurgePcs
    <3>2. op' \in [Actors -> Op]
      BY <2>4, <1>t DEF GiveUp, Go, tiers, tables, At, Key, Op, Kind, Keys, DataTyped,
         Versions, Pcs, LookPcs, HitPcs, AnswerPcs, PrunePcs, PurgePcs, Actors
    <3>3. \A b \in Actors : Fits(b, op[b])'
      BY <2>4, <1>t DEF GiveUp, Go, tiers, tables, At, Key, Op, Fits, HasKey, HasEntries,
         HasRole, IsJob, Purging, Actors, DataTyped, LookPcs, HitPcs, AnswerPcs, PrunePcs,
         PurgePcs
    <3> QED
      BY <3>1, <3>2, <3>3 DEF CInv, OpsOK
  <2> QED
    BY <1>2, <2>1, <2>2, <2>3, <2>4 DEF Arrive
<1>3. ASSUME NEW k \in Keys, Evict(k)
      PROVE  CInv'
  <2>1. DataTyped'
    BY <1>3, <1>t DEF Evict, At, Key, DataTyped, Versions, tables, Op, Actors, Fits, HasKey,
       HasEntries, LookPcs, HitPcs, AnswerPcs, PrunePcs, PurgePcs
  <2>2. OpsOK'
    BY <1>3, <1>t DEF Evict, At, Key, DataTyped, Versions, tables, Op, Actors, Fits, HasKey,
       HasEntries, LookPcs, HitPcs, AnswerPcs, PrunePcs, PurgePcs, OpsOK, HasRole, IsJob,
       Purging
  <2> QED
    BY <2>1, <2>2 DEF CInv
<1>4. CASE OriginChanges
  <2>1. DataTyped'
    BY <1>4, <1>t DEF OriginChanges, At, Key, DataTyped, Versions, tiers, tables, Op, Actors,
       Fits, HasKey, HasEntries, LookPcs, HitPcs, AnswerPcs, PrunePcs, PurgePcs
  <2>2. OpsOK'
    BY <1>4, <1>t DEF OriginChanges, At, Key, DataTyped, Versions, tiers, tables, Op, Actors,
       Fits, HasKey, HasEntries, LookPcs, HitPcs, AnswerPcs, PrunePcs, PurgePcs, OpsOK,
       HasRole, IsJob, Purging
  <2> QED
    BY <2>1, <2>2 DEF CInv
<1>5. CASE UNCHANGED vars
  <2>1. DataTyped'
    BY <1>5, <1>t DEF vars, At, Key, DataTyped, Versions, Op, Actors, Fits, HasKey, HasEntries,
       LookPcs, HitPcs, AnswerPcs, PrunePcs, PurgePcs
  <2>2. OpsOK'
    BY <1>5, <1>t DEF vars, At, Key, DataTyped, Versions, Op, Actors, Fits, HasKey, HasEntries,
       LookPcs, HitPcs, AnswerPcs, PrunePcs, PurgePcs, OpsOK, HasRole, IsJob, Purging
  <2> QED
    BY <2>1, <2>2 DEF CInv
<1> QED
  BY <1>1, <1>2, <1>3, <1>4, <1>5 DEF Next, Rest


(***************************************************************************)
(* What one step does to the flights, to the tickets and to the bodies on  *)
(* their way to the disk.                                                  *)
(***************************************************************************)

\* The others stay where they are.
Alone(a) == \A b \in Actors : b # a => op'[b] = op[b]

\* Who leads goes on to lead the same key; nobody begins to wait.
FlightCalm(o, r) ==
    /\ o.role = "leader" \/ r.role = "leader" =>
          r.role = o.role /\ r.key = o.key /\ o.pc # "notify" /\ r.pc # "notify"
    /\ r.pc # "wait"

\* No ticket is taken or dropped.
TicketCalm(a, o, r) ==
    /\ a \in Handlers => o.pc # "spawn" /\ r.pc # "spawn"
    /\ a \in Jobs => o.pc # "idle" /\ r.pc # "idle" /\ r.key = o.key

\* A body that is on its way to the disk was so before, or it is what the origin or the
\* disk has now.
DiskCalm(o, r) ==
    r.key = Bare => \A v \in Versions : ToDisk(r, v) =>
        \/ o.key = Bare /\ ToDisk(o, v)
        \/ v = current
        \/ disk[Bare] # None /\ v = disk[Bare].body
DiskKept(a) == disk'[Bare] # None =>
    \/ disk'[Bare] = disk[Bare]
    \/ Key(a) = Bare /\ ToDisk(op[a], disk'[Bare].body)

Calm(a) ==
    FlightCalm(op[a], op'[a]) /\ TicketCalm(a, op[a], op'[a]) /\ DiskCalm(op[a], op'[a])
Quiet(a) ==
    /\ Alone(a) /\ Calm(a) /\ DiskKept(a)
    /\ UNCHANGED <<flight, revalidating, gone>> /\ current' >= current

\* The steps that are about flights, tickets or files.
TakesTicket(h) ==
    /\ At(h, "judge") /\ Key(h) \notin revalidating /\ KeepStale(h, "spawn")
    /\ revalidating' = revalidating \cup {Key(h)}
    /\ UNCHANGED <<tiers, variants, flight, current, asked, gone>>
Begins(h) ==
    /\ At(h, "missed") /\ Begin(h)
    /\ UNCHANGED <<tiers, variants, revalidating, current, asked, gone>>
Special(h) ==
    \/ TakesTicket(h) \/ (\E j \in Jobs : SpawnJob(h, j)) \/ SpawnRefused(h)
    \/ Begins(h) \/ Finish(h) \/ Notify(h) \/ PurgeDisk(h)
World == /\ UNCHANGED <<op, flight, revalidating, gone>> /\ current' >= current
         /\ disk'[Bare] # None => disk'[Bare] = disk[Bare]
StepKinds ==
    \/ World
    \/ \E a \in Actors : Quiet(a)
    \/ \E h \in Handlers : Special(h)
    \/ \E j \in Jobs : Release(j)

\* Who is through with the answer keeps its flight or its ticket for now.
LEMMA SettledCalm ==
    ASSUME NEW a \in Actors, op \in [Actors -> Op], Fits(a, op[a]), op[a].pc \in AnswerPcs, NEW outcome,
           Settled(a, outcome)
    PROVE  Calm(a)
<1> USE CacheAssumption DEF Settled, Fits, HasRole, IsJob, NoOp, Key, Actors, AnswerPcs, PrunePcs, LookPcs,
        HitPcs, PurgePcs
<1>1. op[a] \in Op
  OBVIOUS
<1>2. FlightCalm(op[a], op'[a])
  BY <1>1 DEF FlightCalm
<1>3. TicketCalm(a, op[a], op'[a])
  BY <1>1 DEF TicketCalm
<1>4. DiskCalm(op[a], op'[a])
  BY <1>1 DEF DiskCalm, ToDisk
<1> QED
  BY <1>2, <1>3, <1>4 DEF Calm

\* Who finds an entry leads nothing.
LEMMA FoundCalm ==
    ASSUME NEW h \in Handlers, op \in [Actors -> Op], Fits(h, op[h]), op[h].pc \in LookPcs, NEW e, NEW age,
           Found(h, e, age)
    PROVE  Calm(h)
<1> USE CacheAssumption DEF Found, Fits, HasRole, IsJob, NoOp, Key, Actors, AnswerPcs, PrunePcs, LookPcs,
        HitPcs, PurgePcs
<1>1. op[h] \in Op
  OBVIOUS
<1>2. FlightCalm(op[h], op'[h])
  BY <1>1 DEF FlightCalm
<1>3. TicketCalm(h, op[h], op'[h])
  BY <1>1 DEF TicketCalm
<1>4. DiskCalm(op[h], op'[h])
  BY <1>1 DEF DiskCalm, ToDisk
<1> QED
  BY <1>2, <1>3, <1>4 DEF Calm

\* Every step is one of these.
LEMMA EveryStep ==
    ASSUME CInv, [Next]_vars
    PROVE  StepKinds
<1>t. DataTyped /\ op \in [Actors -> Op] /\ \A x \in Actors : op[x] \in Op /\ Fits(x, op[x])
  BY DEF CInv, OpsOK
<1> USE CacheAssumption, NoneAssumption
<1>1. ASSUME NEW a \in Actors, Proceed(a)
      PROVE  StepKinds
  <2>1. CASE Remember(a)
    <3>1. Alone(a)
      BY <2>1, <1>t DEF Remember, Alone
    <3>4. UNCHANGED <<flight, revalidating, gone>> /\ current' >= current
      BY <2>1, <1>t DEF Remember, tiers, DataTyped, Versions
    <3>5. DiskKept(a)
      BY <2>1, <1>t DEF Remember, At, Key, tiers, DiskKept, ToDisk, DataTyped, Keys, Fits,
         HasKey, HasEntries, Op, Entry
    <3>2. FlightCalm(op[a], op'[a]) /\ TicketCalm(a, op[a], op'[a])
      BY <2>1, <1>t DEF Remember, At, Key, Op, tiers, Fits, HasKey, HasEntries, HasRole, IsJob,
         Actors, LookPcs, HitPcs, AnswerPcs, PrunePcs, PurgePcs, FlightCalm, TicketCalm
    <3>3. DiskCalm(op[a], op'[a])
      BY <2>1, <1>t DEF Remember, At, Key, Op, tiers, Fits, HasKey, HasEntries, HasRole, IsJob,
         Actors, LookPcs, HitPcs, AnswerPcs, PrunePcs, PurgePcs, DiskCalm, ToDisk, DataTyped,
         Versions, Entry
    <3> QED
      BY <3>1, <3>2, <3>3, <3>4, <3>5 DEF Quiet, Calm, StepKinds
  <2>2. CASE PruneTake(a)
    <3>1. Alone(a)
      BY <2>2, <1>t DEF PruneTake, Alone
    <3>4. UNCHANGED <<flight, revalidating, gone>> /\ current' >= current
      BY <2>2, <1>t DEF PruneTake, tiers, DataTyped, Versions
    <3>5. DiskKept(a)
      BY <2>2, <1>t DEF PruneTake, At, Key, tiers, DiskKept, ToDisk, DataTyped, Keys, Fits,
         HasKey, HasEntries, Op, Entry
    <3>2. FlightCalm(op[a], op'[a]) /\ TicketCalm(a, op[a], op'[a])
      BY <2>2, <1>t DEF PruneTake, At, Key, Op, tiers, Fits, HasKey, HasEntries, HasRole,
         IsJob, Actors, LookPcs, HitPcs, AnswerPcs, PrunePcs, PurgePcs, FlightCalm, TicketCalm
    <3>3. DiskCalm(op[a], op'[a])
      BY <2>2, <1>t DEF PruneTake, At, Key, Op, tiers, Fits, HasKey, HasEntries, HasRole,
         IsJob, Actors, LookPcs, HitPcs, AnswerPcs, PrunePcs, PurgePcs, DiskCalm, ToDisk,
         DataTyped, Versions, Entry
    <3> QED
      BY <3>1, <3>2, <3>3, <3>4, <3>5 DEF Quiet, Calm, StepKinds
  <2>3. CASE PruneRetain(a)
    <3>1. Alone(a)
      BY <2>3, <1>t DEF PruneRetain, Alone
    <3>4. UNCHANGED <<flight, revalidating, gone>> /\ current' >= current
      BY <2>3, <1>t DEF PruneRetain, tiers, tables, DataTyped, Versions
    <3>5. DiskKept(a)
      BY <2>3, <1>t DEF PruneRetain, At, Key, tiers, DiskKept, ToDisk, DataTyped, Keys, Fits,
         HasKey, HasEntries, Op, Entry
    <3>2. FlightCalm(op[a], op'[a]) /\ TicketCalm(a, op[a], op'[a])
      BY <2>3, <1>t DEF PruneRetain, At, Key, Op, tiers, tables, Fits, HasKey, HasEntries,
         HasRole, IsJob, Actors, LookPcs, HitPcs, AnswerPcs, PrunePcs, PurgePcs, FlightCalm,
         TicketCalm
    <3>3. DiskCalm(op[a], op'[a])
      BY <2>3, <1>t DEF PruneRetain, At, Key, Op, tiers, tables, Fits, HasKey, HasEntries,
         HasRole, IsJob, Actors, LookPcs, HitPcs, AnswerPcs, PrunePcs, PurgePcs, DiskCalm,
         ToDisk, DataTyped, Versions, Entry
    <3> QED
      BY <3>1, <3>2, <3>3, <3>4, <3>5 DEF Quiet, Calm, StepKinds
  <2>4. CASE PrunePutBack(a)
    <3>1. Alone(a)
      BY <2>4, <1>t DEF PrunePutBack, Alone
    <3>4. UNCHANGED <<flight, revalidating, gone>> /\ current' >= current
      BY <2>4, <1>t DEF PrunePutBack, tiers, DataTyped, Versions
    <3>5. DiskKept(a)
      BY <2>4, <1>t DEF PrunePutBack, At, Key, tiers, DiskKept, ToDisk, DataTyped, Keys, Fits,
         HasKey, HasEntries, Op, Entry
    <3>2. FlightCalm(op[a], op'[a]) /\ TicketCalm(a, op[a], op'[a])
      BY <2>4, <1>t DEF PrunePutBack, At, Key, Op, tiers, Fits, HasKey, HasEntries, HasRole,
         IsJob, Actors, LookPcs, HitPcs, AnswerPcs, PrunePcs, PurgePcs, FlightCalm, TicketCalm
    <3>3. DiskCalm(op[a], op'[a])
      BY <2>4, <1>t DEF PrunePutBack, At, Key, Op, tiers, Fits, HasKey, HasEntries, HasRole,
         IsJob, Actors, LookPcs, HitPcs, AnswerPcs, PrunePcs, PurgePcs, DiskCalm, ToDisk,
         DataTyped, Versions, Entry
    <3> QED
      BY <3>1, <3>2, <3>3, <3>4, <3>5 DEF Quiet, Calm, StepKinds
  <2>5. CASE NotModified(a)
    <3>1. Alone(a)
      BY <2>5, <1>t DEF NotModified, Alone, Settled
    <3>4. UNCHANGED <<flight, revalidating, gone>> /\ current' >= current
      BY <2>5, <1>t DEF NotModified, tiers, tables, DataTyped, Versions
    <3>5. DiskKept(a)
      BY <2>5, <1>t DEF NotModified, At, Key, tiers, DiskKept, ToDisk, DataTyped, Keys, Fits,
         HasKey, HasEntries, Op, Entry
    <3>0. op[a] \in Op /\ Fits(a, op[a])
      BY <1>t DEF Actors
    <3>6. op[a].pc = "fetch"
      BY <2>5 DEF NotModified, At
    <3>2. Calm(a)
      <4>1. CASE Settled(a, "not_stored")
        BY <3>0, <3>6, <4>1, <1>t, SettledCalm DEF AnswerPcs
      <4>2. ASSUME NEW next \in {"remove", "merge"},
                op' = [op EXCEPT ![a].pc = next, ![a].new = op[a].stale, ![a].stale = None]
           PROVE  Calm(a)
        BY <3>0, <3>6, <4>2, <1>t
           DEF At, Key, Op, NoOp, Settled, Fits, HasKey, HasEntries, HasRole, IsJob, Actors,
           LookPcs, HitPcs, AnswerPcs, PrunePcs, PurgePcs, Calm, FlightCalm, TicketCalm,
           DiskCalm, ToDisk, DataTyped, Versions, Entry
      <4> QED
        BY <2>5, <4>1, <4>2 DEF NotModified
    <3> QED
      BY <3>1, <3>2, <3>4, <3>5 DEF Quiet, Calm, StepKinds
  <2>6. CASE NewVersion(a)
    <3>1. Alone(a)
      BY <2>6, <1>t DEF NewVersion, Alone, Settled
    <3>4. UNCHANGED <<flight, revalidating, gone>> /\ current' >= current
      BY <2>6, <1>t DEF NewVersion, tiers, tables, DataTyped, Versions
    <3>5. DiskKept(a)
      BY <2>6, <1>t DEF NewVersion, At, Key, tiers, DiskKept, ToDisk, DataTyped, Keys, Fits,
         HasKey, HasEntries, Op, Entry
    <3>0. op[a] \in Op /\ Fits(a, op[a])
      BY <1>t DEF Actors
    <3>6. op[a].pc = "fetch"
      BY <2>6 DEF NewVersion, At
    <3>2. Calm(a)
      <4>1. ASSUME NEW s \in Shapes,
                op' = [op EXCEPT ![a].pc = IF Key(a) = Bare THEN "sink" ELSE "begin", ![a].stale = None,
                                         ![a].new = Latest(s)]
           PROVE  Calm(a)
        BY <3>0, <3>6, <4>1, <1>t
           DEF At, Key, Op, Fits, HasKey, HasEntries, HasRole, IsJob, Actors, LookPcs, HitPcs,
           AnswerPcs, PrunePcs, PurgePcs, Calm, FlightCalm, TicketCalm, DiskCalm, ToDisk,
           DataTyped, Versions, Entry, Latest
      <4>2. CASE op' = [op EXCEPT ![a].pc = "remove", ![a].stale = None]
        BY <3>0, <3>6, <4>2, <1>t
           DEF At, Key, Op, Fits, HasKey, HasEntries, HasRole, IsJob, Actors, LookPcs, HitPcs,
           AnswerPcs, PrunePcs, PurgePcs, Calm, FlightCalm, TicketCalm, DiskCalm, ToDisk,
           DataTyped, Versions, Entry, Latest
      <4>3. CASE Settled(a, "not_stored")
        BY <3>0, <3>6, <4>3, <1>t, SettledCalm DEF AnswerPcs
      <4> QED
        BY <2>6, <4>1, <4>2, <4>3 DEF NewVersion
    <3> QED
      BY <3>1, <3>2, <3>4, <3>5 DEF Quiet, Calm, StepKinds
  <2>7. CASE NothingNew(a)
    <3>1. Alone(a)
      BY <2>7, <1>t DEF NothingNew, Alone, Settled
    <3>4. UNCHANGED <<flight, revalidating, gone>> /\ current' >= current
      BY <2>7, <1>t DEF NothingNew, tiers, tables, DataTyped, Versions
    <3>5. DiskKept(a)
      BY <2>7, <1>t DEF NothingNew, At, Key, tiers, DiskKept, ToDisk, DataTyped, Keys, Fits,
         HasKey, HasEntries, Op, Entry
    <3>2. FlightCalm(op[a], op'[a]) /\ TicketCalm(a, op[a], op'[a])
      BY <2>7, <1>t DEF NothingNew, At, Key, Op, NoOp, Settled, tiers, tables, Fits, HasKey,
         HasEntries, HasRole, IsJob, Actors, LookPcs, HitPcs, AnswerPcs, PrunePcs, PurgePcs,
         FlightCalm, TicketCalm
    <3>3. DiskCalm(op[a], op'[a])
      BY <2>7, <1>t DEF NothingNew, At, Key, Op, NoOp, Settled, tiers, tables, Fits, HasKey,
         HasEntries, HasRole, IsJob, Actors, LookPcs, HitPcs, AnswerPcs, PrunePcs, PurgePcs,
         DiskCalm, ToDisk, DataTyped, Versions, Entry
    <3> QED
      BY <3>1, <3>2, <3>3, <3>4, <3>5 DEF Quiet, Calm, StepKinds
  <2>8. CASE StoreMem(a)
    <3>1. Alone(a)
      BY <2>8, <1>t DEF StoreMem, Alone, Go
    <3>4. UNCHANGED <<flight, revalidating, gone>> /\ current' >= current
      BY <2>8, <1>t DEF StoreMem, tables, DataTyped, Versions
    <3>5. DiskKept(a)
      BY <2>8, <1>t DEF StoreMem, At, Key, DiskKept, ToDisk, DataTyped, Keys, Fits, HasKey,
         HasEntries, Op, Entry
    <3>2. FlightCalm(op[a], op'[a]) /\ TicketCalm(a, op[a], op'[a])
      BY <2>8, <1>t DEF StoreMem, At, Key, Op, Go, tables, Fits, HasKey, HasEntries, HasRole,
         IsJob, Actors, LookPcs, HitPcs, AnswerPcs, PrunePcs, PurgePcs, FlightCalm, TicketCalm
    <3>3. DiskCalm(op[a], op'[a])
      BY <2>8, <1>t DEF StoreMem, At, Key, Op, Go, tables, Fits, HasKey, HasEntries, HasRole,
         IsJob, Actors, LookPcs, HitPcs, AnswerPcs, PrunePcs, PurgePcs, DiskCalm, ToDisk,
         DataTyped, Versions, Entry
    <3> QED
      BY <3>1, <3>2, <3>3, <3>4, <3>5 DEF Quiet, Calm, StepKinds
  <2>9. CASE StoreDisk(a)
    <3>1. Alone(a)
      BY <2>9, <1>t DEF StoreDisk, Alone, Settled
    <3>4. UNCHANGED <<flight, revalidating, gone>> /\ current' >= current
      BY <2>9, <1>t DEF StoreDisk, tables, DataTyped, Versions
    <3>5. DiskKept(a)
      BY <2>9, <1>t DEF StoreDisk, At, Key, DiskKept, ToDisk, DataTyped, Keys, Fits, HasKey,
         HasEntries, Op, Entry
    <3>0. op[a] \in Op /\ Fits(a, op[a])
      BY <1>t DEF Actors
    <3>6. op[a].pc = "commit"
      BY <2>9 DEF StoreDisk, At
    <3>2. Calm(a)
      <4>1. CASE Settled(a, "stored")
        BY <3>0, <3>6, <4>1, <1>t, SettledCalm DEF AnswerPcs
      <4>2. CASE Settled(a, "not_stored")
        BY <3>0, <3>6, <4>2, <1>t, SettledCalm DEF AnswerPcs
      <4> QED
        BY <2>9, <4>1, <4>2 DEF StoreDisk
    <3> QED
      BY <3>1, <3>2, <3>4, <3>5 DEF Quiet, Calm, StepKinds
  <2>10. CASE MergeMem(a)
    <3>1. Alone(a)
      BY <2>10, <1>t DEF MergeMem, Alone, Settled, Go
    <3>4. UNCHANGED <<flight, revalidating, gone>> /\ current' >= current
      BY <2>10, <1>t DEF MergeMem, tables, DataTyped, Versions
    <3>5. DiskKept(a)
      BY <2>10, <1>t DEF MergeMem, At, Key, DiskKept, ToDisk, DataTyped, Keys, Fits, HasKey,
         HasEntries, Op, Entry
    <3>2. FlightCalm(op[a], op'[a]) /\ TicketCalm(a, op[a], op'[a])
      BY <2>10, <1>t DEF MergeMem, At, Key, Op, NoOp, Settled, Go, tables, Fits, HasKey,
         HasEntries, HasRole, IsJob, Actors, Absent, LookPcs, HitPcs, AnswerPcs, PrunePcs,
         PurgePcs, FlightCalm, TicketCalm
    <3>3. DiskCalm(op[a], op'[a])
      BY <2>10, <1>t DEF MergeMem, At, Key, Op, Go, tables, Fits, HasKey, HasEntries, HasRole,
         IsJob, Actors, Absent, LookPcs, HitPcs, AnswerPcs, PrunePcs, PurgePcs, DiskCalm,
         ToDisk, DataTyped, Versions, Entry
    <3> QED
      BY <3>1, <3>2, <3>3, <3>4, <3>5 DEF Quiet, Calm, StepKinds
  <2>11. CASE MergePut(a)
    <3>1. Alone(a)
      BY <2>11, <1>t DEF MergePut, Alone
    <3>4. UNCHANGED <<flight, revalidating, gone>> /\ current' >= current
      BY <2>11, <1>t DEF MergePut, tables, DataTyped, Versions
    <3>5. DiskKept(a)
      BY <2>11, <1>t DEF MergePut, At, Key, DiskKept, ToDisk, DataTyped, Keys, Fits, HasKey,
         HasEntries, Op, Entry
    <3>2. FlightCalm(op[a], op'[a]) /\ TicketCalm(a, op[a], op'[a])
      BY <2>11, <1>t DEF MergePut, At, Key, Op, tables, Fits, HasKey, HasEntries, HasRole,
         IsJob, Actors, LookPcs, HitPcs, AnswerPcs, PrunePcs, PurgePcs, FlightCalm, TicketCalm
    <3>3. DiskCalm(op[a], op'[a])
      BY <2>11, <1>t DEF MergePut, At, Key, Op, tables, Fits, HasKey, HasEntries, HasRole,
         IsJob, Actors, LookPcs, HitPcs, AnswerPcs, PrunePcs, PurgePcs, DiskCalm, ToDisk,
         DataTyped, Versions, Entry
    <3> QED
      BY <3>1, <3>2, <3>3, <3>4, <3>5 DEF Quiet, Calm, StepKinds
  <2>12. CASE MergeDisk(a)
    <3>1. Alone(a)
      BY <2>12, <1>t DEF MergeDisk, Alone, Settled
    <3>4. UNCHANGED <<flight, revalidating, gone>> /\ current' >= current
      BY <2>12, <1>t DEF MergeDisk, tiers, tables, DataTyped, Versions
    <3>5. DiskKept(a)
      BY <2>12, <1>t DEF MergeDisk, At, Key, tiers, DiskKept, ToDisk, DataTyped, Keys, Fits,
         HasKey, HasEntries, Op, Entry
    <3>0. op[a] \in Op /\ Fits(a, op[a])
      BY <1>t DEF Actors
    <3>6. op[a].pc = "merge_disk"
      BY <2>12 DEF MergeDisk, At
    <3>2. Calm(a)
      <4>1. CASE Settled(a, "not_stored")
        BY <3>0, <3>6, <4>1, <1>t, SettledCalm DEF AnswerPcs
      <4>2. ASSUME disk[Key(a)] # None,
                op' = [op EXCEPT ![a].pc = "merge_commit",
                                         ![a].hit = [disk[Key(a)] EXCEPT !.head = op[a].new.head]]
           PROVE  Calm(a)
        BY <3>0, <3>6, <4>2, <1>t
           DEF At, Key, Op, NoOp, Settled, Fits, HasKey, HasEntries, HasRole, IsJob, Actors,
           LookPcs, HitPcs, AnswerPcs, PrunePcs, PurgePcs, Calm, FlightCalm, TicketCalm,
           DiskCalm, ToDisk, DataTyped, Versions, Entry
      <4> QED
        BY <2>12, <4>1, <4>2 DEF MergeDisk
    <3> QED
      BY <3>1, <3>2, <3>4, <3>5 DEF Quiet, Calm, StepKinds
  <2>13. CASE MergeCommit(a)
    <3>1. Alone(a)
      BY <2>13, <1>t DEF MergeCommit, Alone, Settled
    <3>4. UNCHANGED <<flight, revalidating, gone>> /\ current' >= current
      BY <2>13, <1>t DEF MergeCommit, tables, DataTyped, Versions
    <3>5. DiskKept(a)
      BY <2>13, <1>t DEF MergeCommit, At, Key, DiskKept, ToDisk, DataTyped, Keys, Fits, HasKey,
         HasEntries, Op, Entry
    <3>2. FlightCalm(op[a], op'[a]) /\ TicketCalm(a, op[a], op'[a])
      BY <2>13, <1>t DEF MergeCommit, At, Key, Op, NoOp, Settled, tables, Fits, HasKey,
         HasEntries, HasRole, IsJob, Actors, LookPcs, HitPcs, AnswerPcs, PrunePcs, PurgePcs,
         FlightCalm, TicketCalm
    <3>3. DiskCalm(op[a], op'[a])
      BY <2>13, <1>t DEF MergeCommit, At, Key, Op, NoOp, Settled, tables, Fits, HasKey,
         HasEntries, HasRole, IsJob, Actors, LookPcs, HitPcs, AnswerPcs, PrunePcs, PurgePcs,
         DiskCalm, ToDisk, DataTyped, Versions, Entry
    <3> QED
      BY <3>1, <3>2, <3>3, <3>4, <3>5 DEF Quiet, Calm, StepKinds
  <2>14. CASE RemoveMem(a)
    <3>1. Alone(a)
      BY <2>14, <1>t DEF RemoveMem, Alone, Go
    <3>4. UNCHANGED <<flight, revalidating, gone>> /\ current' >= current
      BY <2>14, <1>t DEF RemoveMem, tables, DataTyped, Versions
    <3>5. DiskKept(a)
      BY <2>14, <1>t DEF RemoveMem, At, Key, DiskKept, ToDisk, DataTyped, Keys, Fits, HasKey,
         HasEntries, Op, Entry
    <3>2. FlightCalm(op[a], op'[a]) /\ TicketCalm(a, op[a], op'[a])
      BY <2>14, <1>t DEF RemoveMem, At, Key, Op, Go, tables, Fits, HasKey, HasEntries, HasRole,
         IsJob, Actors, LookPcs, HitPcs, AnswerPcs, PrunePcs, PurgePcs, FlightCalm, TicketCalm
    <3>3. DiskCalm(op[a], op'[a])
      BY <2>14, <1>t DEF RemoveMem, At, Key, Op, Go, tables, Fits, HasKey, HasEntries, HasRole,
         IsJob, Actors, LookPcs, HitPcs, AnswerPcs, PrunePcs, PurgePcs, DiskCalm, ToDisk,
         DataTyped, Versions, Entry
    <3> QED
      BY <3>1, <3>2, <3>3, <3>4, <3>5 DEF Quiet, Calm, StepKinds
  <2>15. CASE RemoveDisk(a)
    <3>1. Alone(a)
      BY <2>15, <1>t DEF RemoveDisk, Alone, Settled
    <3>4. UNCHANGED <<flight, revalidating, gone>> /\ current' >= current
      BY <2>15, <1>t DEF RemoveDisk, tables, DataTyped, Versions
    <3>5. DiskKept(a)
      BY <2>15, <1>t DEF RemoveDisk, At, Key, DiskKept, ToDisk, DataTyped, Keys, Fits, HasKey,
         HasEntries, Op, Entry
    <3>2. FlightCalm(op[a], op'[a]) /\ TicketCalm(a, op[a], op'[a])
      BY <2>15, <1>t DEF RemoveDisk, At, Key, Op, NoOp, Settled, tables, Fits, HasKey,
         HasEntries, HasRole, IsJob, Actors, LookPcs, HitPcs, AnswerPcs, PrunePcs, PurgePcs,
         FlightCalm, TicketCalm
    <3>3. DiskCalm(op[a], op'[a])
      BY <2>15, <1>t DEF RemoveDisk, At, Key, Op, NoOp, Settled, tables, Fits, HasKey,
         HasEntries, HasRole, IsJob, Actors, LookPcs, HitPcs, AnswerPcs, PrunePcs, PurgePcs,
         DiskCalm, ToDisk, DataTyped, Versions, Entry
    <3> QED
      BY <3>1, <3>2, <3>3, <3>4, <3>5 DEF Quiet, Calm, StepKinds
  <2>16. ASSUME a \in Jobs, Release(a)
         PROVE  StepKinds
    <3> QED
      BY <2>16 DEF StepKinds
  <2>17. ASSUME a \in Handlers, Get(a) \/ Consult(a) \/ Coalesce(a) \/ Purge(a) \/ Clear(a)
         PROVE  StepKinds
    <3>1. CASE LookMem(a)
      <4>1. Alone(a)
        BY <3>1, <1>t DEF LookMem, Alone, Go, Found
      <4>4. UNCHANGED <<flight, revalidating, gone>> /\ current' >= current
        BY <3>1, <1>t DEF LookMem, tables, DataTyped, Versions
      <4>5. DiskKept(a)
        BY <3>1, <1>t DEF LookMem, At, Key, DiskKept, ToDisk, DataTyped, Keys, Fits, HasKey,
           HasEntries, Op, Entry
      <4>0. op[a] \in Op /\ Fits(a, op[a])
        BY <1>t DEF Actors
      <4>6. a \in Handlers /\ op[a].pc = "mem"
        BY <2>17, <3>1 DEF LookMem, At
      <4>2. Calm(a)
        <5>1. ASSUME NEW age \in Ages, ~ Absent(mem[Key(a)], age), Found(a, mem[Key(a)], age), UNCHANGED mem
             PROVE  Calm(a)
          BY <4>0, <4>6, <5>1, <1>t, FoundCalm DEF Absent, LookPcs
        <5>2. CASE mem' = [mem EXCEPT ![Key(a)] = None] /\ Go(a, "disk")
          BY <4>0, <4>6, <5>2, <1>t
             DEF At, Key, Op, NoOp, Found, Go, Fits, HasKey, HasEntries, HasRole, IsJob,
             Actors, Absent, LookPcs, HitPcs, AnswerPcs, PrunePcs, PurgePcs, Calm, FlightCalm,
             TicketCalm, DiskCalm, ToDisk, DataTyped, Versions, Entry
        <5> QED
          BY <3>1, <5>1, <5>2 DEF LookMem
      <4> QED
        BY <4>1, <4>2, <4>4, <4>5 DEF Quiet, Calm, StepKinds
    <3>2. CASE OpenDisk(a)
      <4>1. Alone(a)
        BY <3>2, <1>t DEF OpenDisk, Alone, Go, Found
      <4>4. UNCHANGED <<flight, revalidating, gone>> /\ current' >= current
        BY <3>2, <1>t DEF OpenDisk, tiers, tables, DataTyped, Versions
      <4>5. DiskKept(a)
        BY <3>2, <1>t DEF OpenDisk, At, Key, tiers, DiskKept, ToDisk, DataTyped, Keys, Fits,
           HasKey, HasEntries, Op, Entry
      <4>0. op[a] \in Op /\ Fits(a, op[a])
        BY <1>t DEF Actors
      <4>6. a \in Handlers /\ op[a].pc = "disk"
        BY <2>17, <3>2 DEF OpenDisk, At
      <4>2. Calm(a)
        <5>1. CASE Go(a, NotFound(a))
          BY <4>0, <4>6, <5>1, <1>t
             DEF At, Key, Op, NotFound, Go, Fits, HasKey, HasEntries, HasRole, IsJob, Actors,
             LookPcs, HitPcs, AnswerPcs, PrunePcs, PurgePcs, Calm, FlightCalm, TicketCalm,
             DiskCalm, ToDisk, DataTyped, Versions, Entry
        <5>2. CASE Go(a, "drop")
          BY <4>0, <4>6, <5>2, <1>t
             DEF At, Key, Op, NotFound, Go, Fits, HasKey, HasEntries, HasRole, IsJob, Actors,
             LookPcs, HitPcs, AnswerPcs, PrunePcs, PurgePcs, Calm, FlightCalm, TicketCalm,
             DiskCalm, ToDisk, DataTyped, Versions, Entry
        <5>3. CASE disk[Key(a)] # None /\ op' = [op EXCEPT ![a].pc = "promote", ![a].hit = disk[Key(a)]]
          BY <4>0, <4>6, <5>3, <1>t
             DEF At, Key, Op, NotFound, Go, Fits, HasKey, HasEntries, HasRole, IsJob, Actors,
             LookPcs, HitPcs, AnswerPcs, PrunePcs, PurgePcs, Calm, FlightCalm, TicketCalm,
             DiskCalm, ToDisk, DataTyped, Versions, Entry
        <5>4. ASSUME NEW age \in Ages, disk[Key(a)] # None, Found(a, disk[Key(a)], age)
             PROVE  Calm(a)
          BY <4>0, <4>6, <5>4, <1>t, FoundCalm DEF LookPcs
        <5> QED
          BY <3>2, <5>1, <5>2, <5>3, <5>4 DEF OpenDisk
      <4> QED
        BY <4>1, <4>2, <4>4, <4>5 DEF Quiet, Calm, StepKinds
    <3>3. CASE DropUnreadable(a)
      <4>1. Alone(a)
        BY <3>3, <1>t DEF DropUnreadable, Alone, Go, Found
      <4>4. UNCHANGED <<flight, revalidating, gone>> /\ current' >= current
        BY <3>3, <1>t DEF DropUnreadable, tables, DataTyped, Versions
      <4>5. DiskKept(a)
        BY <3>3, <1>t DEF DropUnreadable, At, Key, DiskKept, ToDisk, DataTyped, Keys, Fits,
           HasKey, HasEntries, Op, Entry
      <4>2. FlightCalm(op[a], op'[a]) /\ TicketCalm(a, op[a], op'[a])
        BY <2>17, <3>3, <1>t DEF DropUnreadable, At, Key, Op, NotFound, Go, tables, Fits,
           HasKey, HasEntries, HasRole, IsJob, Actors, LookPcs, HitPcs, AnswerPcs, PrunePcs,
           PurgePcs, FlightCalm, TicketCalm
      <4>3. DiskCalm(op[a], op'[a])
        BY <3>3, <1>t DEF DropUnreadable, At, Key, Op, NotFound, Go, tables, Fits, HasKey,
           HasEntries, HasRole, IsJob, Actors, LookPcs, HitPcs, AnswerPcs, PrunePcs, PurgePcs,
           DiskCalm, ToDisk, DataTyped, Versions, Entry
      <4> QED
        BY <4>1, <4>2, <4>3, <4>4, <4>5 DEF Quiet, Calm, StepKinds
    <3>4. CASE Promote(a)
      <4>1. Alone(a)
        BY <3>4, <1>t DEF Promote, Alone, Found
      <4>4. UNCHANGED <<flight, revalidating, gone>> /\ current' >= current
        BY <3>4, <1>t DEF Promote, tables, DataTyped, Versions
      <4>5. DiskKept(a)
        BY <3>4, <1>t DEF Promote, At, Key, DiskKept, ToDisk, DataTyped, Keys, Fits, HasKey,
           HasEntries, Op, Entry
      <4>2. FlightCalm(op[a], op'[a]) /\ TicketCalm(a, op[a], op'[a])
        BY <2>17, <3>4, <1>t DEF Promote, At, Key, Op, NoOp, Found, tables, Fits, HasKey,
           HasEntries, HasRole, IsJob, Actors, LookPcs, HitPcs, AnswerPcs, PrunePcs, PurgePcs,
           FlightCalm, TicketCalm
      <4>3. DiskCalm(op[a], op'[a])
        BY <3>4, <1>t DEF Promote, At, Key, Op, NoOp, Found, tables, Fits, HasKey, HasEntries,
           HasRole, IsJob, Actors, LookPcs, HitPcs, AnswerPcs, PrunePcs, PurgePcs, DiskCalm,
           ToDisk, DataTyped, Versions, Entry
      <4> QED
        BY <4>1, <4>2, <4>3, <4>4, <4>5 DEF Quiet, Calm, StepKinds
    <3>5. CASE Judge(a)
      <4>1. CASE MayRevalidate(a, "grace") /\ KeepStale(a, "spawn") /\ revalidating' = revalidating \cup {Key(a)}
        BY <2>17, <3>5, <4>1 DEF Judge, MayRevalidate, TakesTicket, StepKinds, Special
      <4>2. CASE UNCHANGED revalidating /\ (Answered(a) \/ KeepStale(a, "missed"))
        <5>1. Alone(a)
          BY <3>5, <4>2, <1>t DEF Judge, Alone, Answered, KeepStale
        <5>4. UNCHANGED <<flight, revalidating, gone>> /\ current' >= current
          BY <3>5, <4>2, <1>t DEF Judge, tiers, DataTyped, Versions
        <5>5. DiskKept(a)
          BY <3>5, <4>2, <1>t DEF Judge, At, Key, tiers, DiskKept, ToDisk, DataTyped, Keys,
             Fits, HasKey, HasEntries, Op, Entry
        <5>2. FlightCalm(op[a], op'[a]) /\ TicketCalm(a, op[a], op'[a])
          BY <2>17, <3>5, <4>2, <1>t
             DEF Judge, At, Key, Op, NoOp, Answered, KeepStale, tiers, Fits, HasKey,
             HasEntries, HasRole, IsJob, Actors, LookPcs, HitPcs, AnswerPcs, PrunePcs,
             PurgePcs, FlightCalm, TicketCalm
        <5>3. DiskCalm(op[a], op'[a])
          BY <3>5, <4>2, <1>t DEF Judge, At, Key, Op, NoOp, Answered, KeepStale, tiers, Fits,
             HasKey, HasEntries, HasRole, IsJob, Actors, LookPcs, HitPcs, AnswerPcs, PrunePcs,
             PurgePcs, DiskCalm, ToDisk, DataTyped, Versions, Entry
        <5> QED
          BY <5>1, <5>2, <5>3, <5>4, <5>5 DEF Quiet, Calm, StepKinds
      <4> QED
        BY <3>5, <4>1, <4>2 DEF Judge, MayRevalidate
    <3>6. CASE SpawnRefused(a)
      BY <2>17, <3>6 DEF StepKinds, Special
    <3>7. CASE GoToOrigin(a)
      <4>0. op[a] \in Op /\ Fits(a, op[a]) /\ op[a].pc = "missed" /\ a \in Handlers
        BY <2>17, <3>7, <1>t DEF GoToOrigin, At
      <4>4. UNCHANGED <<disk, revalidating, gone>> /\ current' >= current
        BY <3>7, <1>t DEF GoToOrigin, tiers, DataTyped, Versions
      <4>1. CASE Begin(a)
        BY <2>17, <3>7, <4>1 DEF GoToOrigin, Begins, StepKinds, Special
      <4>2. CASE Answered(a) /\ UNCHANGED flight
        <5>1. Alone(a) /\ UNCHANGED flight
          BY <4>2, <1>t DEF Alone, Answered
        <5>2. Calm(a)
          BY <4>0, <4>2, <1>t DEF Calm, Alone, FlightCalm, TicketCalm, DiskCalm, ToDisk, At,
             Key, Op, NoOp, Answered, Fits, HasKey, HasEntries, HasRole, IsJob, Actors,
             LookPcs, HitPcs, AnswerPcs, PrunePcs, PurgePcs
        <5> QED
          BY <4>4, <5>1, <5>2 DEF Quiet, StepKinds, DiskKept
      <4>3. ASSUME NEW s \in BOOLEAN, Fetch(a, s)
           PROVE  StepKinds
        <5>1. Alone(a) /\ UNCHANGED flight
          BY <4>3, <1>t DEF Alone, Answered, Fetch
        <5>2. Calm(a)
          BY <4>0, <4>3, <1>t DEF Calm, Alone, FlightCalm, TicketCalm, DiskCalm, ToDisk, At,
             Key, Op, NoOp, Answered, Fetch, Fits, HasKey, HasEntries, HasRole, IsJob, Actors,
             LookPcs, HitPcs, AnswerPcs, PrunePcs, PurgePcs
        <5> QED
          BY <4>4, <5>1, <5>2 DEF Quiet, StepKinds, DiskKept
      <4> QED
        BY <3>7, <4>1, <4>2, <4>3 DEF GoToOrigin, Stores, Revalidates
    <3>8. CASE Woken(a)
      <4>1. Alone(a)
        BY <3>8, <1>t DEF Woken, Alone, Go, Fetch
      <4>4. UNCHANGED <<flight, revalidating, gone>> /\ current' >= current
        BY <3>8, <1>t DEF Woken, tiers, tables, Fetch, DataTyped, Versions
      <4>5. DiskKept(a)
        BY <3>8, <1>t DEF Woken, At, Key, tiers, DiskKept, ToDisk, DataTyped, Keys, Fits,
           HasKey, HasEntries, Op, Entry
      <4>2. FlightCalm(op[a], op'[a]) /\ TicketCalm(a, op[a], op'[a])
        BY <2>17, <3>8, <1>t DEF Woken, At, Key, Op, Go, tiers, tables, Fits, HasKey,
           HasEntries, HasRole, IsJob, Actors, LookPcs, HitPcs, AnswerPcs, PrunePcs, PurgePcs,
           FlightCalm, TicketCalm
      <4>3. DiskCalm(op[a], op'[a])
        BY <3>8, <1>t DEF Woken, At, Key, Op, Go, tiers, tables, Fits, HasKey, HasEntries,
           HasRole, IsJob, Actors, LookPcs, HitPcs, AnswerPcs, PrunePcs, PurgePcs, DiskCalm,
           ToDisk, DataTyped, Versions, Entry
      <4> QED
        BY <4>1, <4>2, <4>3, <4>4, <4>5 DEF Quiet, Calm, StepKinds
    <3>9. CASE Finish(a)
      BY <2>17, <3>9 DEF StepKinds, Special
    <3>10. CASE Notify(a)
      BY <2>17, <3>10 DEF StepKinds, Special
    <3>11. CASE PurgeDisk(a)
      BY <2>17, <3>11 DEF StepKinds, Special
    <3>12. CASE Purged(a)
      <4>1. Alone(a)
        BY <3>12, <1>t DEF Purged, Alone, Answered
      <4>4. UNCHANGED <<flight, revalidating, gone>> /\ current' >= current
        BY <3>12, <1>t DEF Purged, tiers, tables, DataTyped, Versions
      <4>5. DiskKept(a)
        BY <3>12, <1>t DEF Purged, At, Key, tiers, DiskKept, ToDisk, DataTyped, Keys, Fits,
           HasKey, HasEntries, Op, Entry
      <4>2. FlightCalm(op[a], op'[a]) /\ TicketCalm(a, op[a], op'[a])
        BY <2>17, <3>12, <1>t DEF Purged, At, Key, Op, NoOp, Answered, tiers, tables, Fits,
           HasKey, HasEntries, HasRole, IsJob, Actors, LookPcs, HitPcs, AnswerPcs, PrunePcs,
           PurgePcs, FlightCalm, TicketCalm
      <4>3. DiskCalm(op[a], op'[a])
        BY <3>12, <1>t DEF Purged, At, Key, Op, NoOp, Answered, tiers, tables, Fits, HasKey,
           HasEntries, HasRole, IsJob, Actors, LookPcs, HitPcs, AnswerPcs, PrunePcs, PurgePcs,
           DiskCalm, ToDisk, DataTyped, Versions, Entry
      <4> QED
        BY <4>1, <4>2, <4>3, <4>4, <4>5 DEF Quiet, Calm, StepKinds
    <3>13. CASE ClearDisk(a)
      <4>1. Alone(a)
        BY <3>13, <1>t DEF ClearDisk, Alone, Go
      <4>4. UNCHANGED <<flight, revalidating, gone>> /\ current' >= current
        BY <3>13, <1>t DEF ClearDisk, tables, DataTyped, Versions
      <4>5. DiskKept(a)
        BY <3>13, <1>t DEF ClearDisk, At, Key, DiskKept, ToDisk, DataTyped, Keys, Fits, HasKey,
           HasEntries, Op, Entry
      <4>2. FlightCalm(op[a], op'[a]) /\ TicketCalm(a, op[a], op'[a])
        BY <2>17, <3>13, <1>t DEF ClearDisk, At, Key, Op, Go, tables, Fits, HasKey, HasEntries,
           HasRole, IsJob, Actors, LookPcs, HitPcs, AnswerPcs, PrunePcs, PurgePcs, FlightCalm,
           TicketCalm
      <4>3. DiskCalm(op[a], op'[a])
        BY <3>13, <1>t DEF ClearDisk, At, Key, Op, Go, tables, Fits, HasKey, HasEntries,
           HasRole, IsJob, Actors, LookPcs, HitPcs, AnswerPcs, PrunePcs, PurgePcs, DiskCalm,
           ToDisk, DataTyped, Versions, Entry
      <4> QED
        BY <4>1, <4>2, <4>3, <4>4, <4>5 DEF Quiet, Calm, StepKinds
    <3>14. CASE ClearVariants(a)
      <4>1. Alone(a)
        BY <3>14, <1>t DEF ClearVariants, Alone, Answered
      <4>4. UNCHANGED <<flight, revalidating, gone>> /\ current' >= current
        BY <3>14, <1>t DEF ClearVariants, tiers, DataTyped, Versions
      <4>5. DiskKept(a)
        BY <3>14, <1>t DEF ClearVariants, At, Key, tiers, DiskKept, ToDisk, DataTyped, Keys,
           Fits, HasKey, HasEntries, Op, Entry
      <4>2. FlightCalm(op[a], op'[a]) /\ TicketCalm(a, op[a], op'[a])
        BY <2>17, <3>14, <1>t DEF ClearVariants, At, Key, Op, NoOp, Answered, tiers, Fits,
           HasKey, HasEntries, HasRole, IsJob, Actors, LookPcs, HitPcs, AnswerPcs, PrunePcs,
           PurgePcs, FlightCalm, TicketCalm
      <4>3. DiskCalm(op[a], op'[a])
        BY <3>14, <1>t DEF ClearVariants, At, Key, Op, NoOp, Answered, tiers, Fits, HasKey,
           HasEntries, HasRole, IsJob, Actors, LookPcs, HitPcs, AnswerPcs, PrunePcs, PurgePcs,
           DiskCalm, ToDisk, DataTyped, Versions, Entry
      <4> QED
        BY <4>1, <4>2, <4>3, <4>4, <4>5 DEF Quiet, Calm, StepKinds
    <3>15. ASSUME NEW j \in Jobs, SpawnJob(a, j)
           PROVE  StepKinds
      BY <2>17, <3>15 DEF StepKinds, Special
    <3>16. ASSUME NEW k \in Keys, PurgeMem(a, k)
           PROVE  StepKinds
      <4>1. Alone(a)
        BY <3>16, <1>t DEF PurgeMem, Alone
      <4>4. UNCHANGED <<flight, revalidating, gone>> /\ current' >= current
        BY <3>16, <1>t DEF PurgeMem, tables, DataTyped, Versions
      <4>5. DiskKept(a)
        BY <3>16, <1>t DEF PurgeMem, At, Key, DiskKept, ToDisk, DataTyped, Keys, Fits, HasKey,
           HasEntries, Op, Entry
      <4>2. FlightCalm(op[a], op'[a]) /\ TicketCalm(a, op[a], op'[a])
        BY <3>16, <1>t DEF PurgeMem, At, Key, Op, tables, Fits, HasKey, HasEntries, HasRole,
           IsJob, Actors, LookPcs, HitPcs, AnswerPcs, PrunePcs, PurgePcs, FlightCalm, TicketCalm
      <4>3. DiskCalm(op[a], op'[a])
        BY <3>16, <1>t DEF PurgeMem, At, Key, Op, tables, Fits, HasKey, HasEntries, HasRole,
           IsJob, Actors, LookPcs, HitPcs, AnswerPcs, PrunePcs, PurgePcs, DiskCalm, ToDisk,
           DataTyped, Versions, Entry
      <4> QED
        BY <4>1, <4>2, <4>3, <4>4, <4>5 DEF Quiet, Calm, StepKinds
    <3> QED
      BY <2>17, <3>1, <3>2, <3>3, <3>4, <3>5, <3>6, <3>7, <3>8, <3>9, <3>10, <3>11, <3>12,
         <3>13, <3>14, <3>15, <3>16
         DEF Get, Consult, Coalesce, Purge, Clear
  <2> QED
    BY <1>1, <2>1, <2>2, <2>3, <2>4, <2>5, <2>6, <2>7, <2>8, <2>9, <2>10, <2>11, <2>12, <2>13,
       <2>14, <2>15, <2>16, <2>17
       DEF Proceed, Prune, Answer, Store, Refresh, Remove
<1>2. ASSUME NEW h \in Handlers, Arrive(h) \/ GiveUp(h)
      PROVE  StepKinds
  <2>1. ASSUME NEW k \in Keys, NEW q \in Kinds, Ask(h, k, q)
        PROVE  StepKinds
    <3>1. Alone(h)
      BY <2>1, <1>t DEF Ask, Alone
    <3>4. UNCHANGED <<flight, revalidating, gone>> /\ current' >= current
      BY <2>1, <1>t DEF Ask, tiers, tables, Arrives, DataTyped, Versions
    <3>5. DiskKept(h)
      BY <2>1, <1>t DEF Ask, At, Key, tiers, DiskKept, ToDisk, DataTyped, Keys, Fits, HasKey,
         HasEntries, Op, Entry, Arrives
    <3>2. FlightCalm(op[h], op'[h]) /\ TicketCalm(h, op[h], op'[h])
      BY <2>1, <1>t DEF Ask, At, Key, Op, NoOp, Arrives, tiers, tables, Fits, HasKey,
         HasEntries, HasRole, IsJob, Actors, LookPcs, HitPcs, AnswerPcs, PrunePcs, PurgePcs,
         FlightCalm, TicketCalm
    <3>3. DiskCalm(op[h], op'[h])
      BY <2>1, <1>t DEF Ask, At, Key, Op, NoOp, Arrives, tiers, tables, Fits, HasKey,
         HasEntries, HasRole, IsJob, Actors, LookPcs, HitPcs, AnswerPcs, PrunePcs, PurgePcs,
         DiskCalm, ToDisk, DataTyped, Versions, Entry
    <3> QED
      BY <3>1, <3>2, <3>3, <3>4, <3>5 DEF Quiet, Calm, StepKinds, Actors
  <2>2. CASE Invalidate(h)
    <3>1. Alone(h)
      BY <2>2, <1>t DEF Invalidate, Alone
    <3>4. UNCHANGED <<flight, revalidating, gone>> /\ current' >= current
      BY <2>2, <1>t DEF Invalidate, tiers, Arrives, DataTyped, Versions
    <3>5. DiskKept(h)
      BY <2>2, <1>t DEF Invalidate, At, Key, tiers, DiskKept, ToDisk, DataTyped, Keys, Fits,
         HasKey, HasEntries, Op, Entry, Arrives
    <3>2. FlightCalm(op[h], op'[h]) /\ TicketCalm(h, op[h], op'[h])
      BY <2>2, <1>t DEF Invalidate, At, Key, Op, Arrives, tiers, Fits, HasKey, HasEntries,
         HasRole, IsJob, Actors, LookPcs, HitPcs, AnswerPcs, PrunePcs, PurgePcs, FlightCalm,
         TicketCalm
    <3>3. DiskCalm(op[h], op'[h])
      BY <2>2, <1>t DEF Invalidate, At, Key, Op, Arrives, tiers, Fits, HasKey, HasEntries,
         HasRole, IsJob, Actors, LookPcs, HitPcs, AnswerPcs, PrunePcs, PurgePcs, DiskCalm,
         ToDisk, DataTyped, Versions, Entry
    <3> QED
      BY <3>1, <3>2, <3>3, <3>4, <3>5 DEF Quiet, Calm, StepKinds, Actors
  <2>3. CASE ClearMem(h)
    <3>1. Alone(h)
      BY <2>3, <1>t DEF ClearMem, Alone, Go
    <3>4. UNCHANGED <<flight, revalidating, gone>> /\ current' >= current
      BY <2>3, <1>t DEF ClearMem, tables, Arrives, DataTyped, Versions
    <3>5. DiskKept(h)
      BY <2>3, <1>t DEF ClearMem, At, Key, DiskKept, ToDisk, DataTyped, Keys, Fits, HasKey,
         HasEntries, Op, Entry, Arrives
    <3>2. FlightCalm(op[h], op'[h]) /\ TicketCalm(h, op[h], op'[h])
      BY <2>3, <1>t DEF ClearMem, At, Key, Op, Go, Arrives, tables, Fits, HasKey, HasEntries,
         HasRole, IsJob, Actors, LookPcs, HitPcs, AnswerPcs, PrunePcs, PurgePcs, FlightCalm,
         TicketCalm
    <3>3. DiskCalm(op[h], op'[h])
      BY <2>3, <1>t DEF ClearMem, At, Key, Op, Go, Arrives, tables, Fits, HasKey, HasEntries,
         HasRole, IsJob, Actors, LookPcs, HitPcs, AnswerPcs, PrunePcs, PurgePcs, DiskCalm,
         ToDisk, DataTyped, Versions, Entry
    <3> QED
      BY <3>1, <3>2, <3>3, <3>4, <3>5 DEF Quiet, Calm, StepKinds, Actors
  <2>4. CASE GiveUp(h)
    <3>1. Alone(h)
      BY <2>4, <1>t DEF GiveUp, Alone, Go
    <3>4. UNCHANGED <<flight, revalidating, gone>> /\ current' >= current
      BY <2>4, <1>t DEF GiveUp, tiers, tables, DataTyped, Versions
    <3>5. DiskKept(h)
      BY <2>4, <1>t DEF GiveUp, At, Key, tiers, DiskKept, ToDisk, DataTyped, Keys, Fits,
         HasKey, HasEntries, Op, Entry
    <3>2. FlightCalm(op[h], op'[h]) /\ TicketCalm(h, op[h], op'[h])
      BY <2>4, <1>t DEF GiveUp, At, Key, Op, Go, tiers, tables, Fits, HasKey, HasEntries,
         HasRole, IsJob, Actors, LookPcs, HitPcs, AnswerPcs, PrunePcs, PurgePcs, FlightCalm,
         TicketCalm
    <3>3. DiskCalm(op[h], op'[h])
      BY <2>4, <1>t DEF GiveUp, At, Key, Op, Go, tiers, tables, Fits, HasKey, HasEntries,
         HasRole, IsJob, Actors, LookPcs, HitPcs, AnswerPcs, PrunePcs, PurgePcs, DiskCalm,
         ToDisk, DataTyped, Versions, Entry
    <3> QED
      BY <3>1, <3>2, <3>3, <3>4, <3>5 DEF Quiet, Calm, StepKinds, Actors
  <2> QED
    BY <1>2, <2>1, <2>2, <2>3, <2>4 DEF Arrive
<1>3. ASSUME NEW k \in Keys, Evict(k)
      PROVE  StepKinds
  BY <1>3, <1>t DEF Evict, StepKinds, World, tables, DataTyped, Versions, Keys
<1>4. CASE OriginChanges
  BY <1>4, <1>t DEF OriginChanges, StepKinds, World, tiers, tables, DataTyped, Versions, Keys
<1>5. CASE UNCHANGED vars
  BY <1>5, <1>t DEF vars, StepKinds, World, DataTyped, Versions, Keys
<1> QED
  BY <1>1, <1>2, <1>3, <1>4, <1>5 DEF Next, Rest, StepKinds

\* Steps that are calm for everyone keep the flights.
LEMMA FlightKept ==
    ASSUME CInv, CInv', FlightHasLeader, flight' = flight,
           \A b \in Actors : op'[b] = op[b] \/ FlightCalm(op[b], op'[b])
    PROVE  FlightHasLeader'
<1> USE DEF At, Key
<1>1. \A h \in Handlers : h \in Actors /\ (At(h, "wait") => op[h].of \in Handlers)
  BY DEF CInv, OpsOK, Fits, HasRole, Actors
<1>2. \A h \in Handlers, k \in Keys :
        (flight[k] = h)' <=> (op[h].role = "leader" /\ Key(h) = k /\ ~ At(h, "notify"))'
  BY <1>1 DEF FlightHasLeader, FlightCalm
<1>3. ASSUME NEW h \in Handlers, At(h, "wait")', (op[h].outcome = None)'
      PROVE  (op[op[h].of].role = "leader" /\ Key(op[h].of) = Key(h))'
  <2>1. op'[h] = op[h]
    BY <1>1, <1>3 DEF FlightCalm
  <2>2. PICK l \in Handlers : l = op[h].of
    BY <1>1, <1>3, <2>1
  <2>3. op[l].role = "leader" /\ op[l].key = op[h].key
    BY <1>3, <2>1, <2>2 DEF FlightHasLeader
  <2>4. op'[l].role = "leader" /\ op'[l].key = op[l].key
    BY <1>1, <2>3 DEF FlightCalm
  <2> QED
    BY <2>1, <2>2, <2>3, <2>4
<1> QED
  BY <1>2, <1>3 DEF FlightHasLeader

\* Every step keeps a leader for each key in the table, and for everyone who waits for it.
LEMMA FlightStep ==
    ASSUME CInv, CInv', FlightHasLeader, StepKinds
    PROVE  FlightHasLeader'
<1> USE CacheAssumption, NoneAssumption DEF At, Key
<1>t. op \in [Actors -> Op] /\ \A x \in Actors : op[x] \in Op /\ Fits(x, op[x])
  BY DEF CInv, OpsOK
<1>f. flight \in [Keys -> Handlers \cup {None}] /\ flight' \in [Keys -> Handlers \cup {None}]
  BY DEF CInv, DataTyped
<1>h. \A h \in Handlers : h \in Actors /\ h # None /\ (At(h, "wait") => op[h].of \in Handlers)
  BY <1>t DEF Fits, HasRole, Actors
<1>1. CASE World
  BY <1>1, FlightKept DEF World
<1>2. ASSUME NEW a \in Actors, Quiet(a)
      PROVE  FlightHasLeader'
  BY <1>2, FlightKept DEF Quiet, Calm, Alone
<1>3. ASSUME NEW h \in Handlers, TakesTicket(h)
      PROVE  FlightHasLeader'
  <2>1. \A b \in Actors : op'[b] = op[b] \/ FlightCalm(op[b], op'[b])
    BY <1>3, <1>t, <1>h DEF TakesTicket, KeepStale, FlightCalm, Fits, HasRole, HitPcs
  <2>2. flight' = flight
    BY <1>3 DEF TakesTicket
  <2> QED
    BY <2>1, <2>2, FlightKept
<1>4. ASSUME NEW h \in Handlers, NEW j \in Jobs, SpawnJob(h, j)
      PROVE  FlightHasLeader'
  <2>0. op[h].role = "none" /\ op[j].role = "none" /\ h # j /\ j \in Actors
    BY <1>4, <1>t, <1>h DEF SpawnJob, Fits, HasRole, HitPcs, IsJob, Actors
  <2>1. \A b \in Actors : op'[b] = op[b] \/ FlightCalm(op[b], op'[b])
    BY <1>4, <1>t, <1>h, <2>0 DEF SpawnJob, FlightCalm, NoOp
  <2>2. flight' = flight
    BY <1>4 DEF SpawnJob, tables
  <2> QED
    BY <2>1, <2>2, FlightKept
<1>5. ASSUME NEW h \in Handlers, SpawnRefused(h)
      PROVE  FlightHasLeader'
  <2>1. \A b \in Actors : op'[b] = op[b] \/ FlightCalm(op[b], op'[b])
    BY <1>5, <1>t, <1>h DEF SpawnRefused, Go, FlightCalm, Fits, HasRole, HitPcs
  <2>2. flight' = flight
    BY <1>5 DEF SpawnRefused
  <2> QED
    BY <2>1, <2>2, FlightKept
<1>6. ASSUME NEW h \in Handlers, PurgeDisk(h)
      PROVE  FlightHasLeader'
  <2>1. \A b \in Actors : op'[b] = op[b] \/ FlightCalm(op[b], op'[b])
    BY <1>6, <1>t, <1>h DEF PurgeDisk, FlightCalm, Fits, HasRole, PurgePcs
  <2>2. flight' = flight
    BY <1>6 DEF PurgeDisk, tables
  <2> QED
    BY <2>1, <2>2, FlightKept
<1>7. ASSUME NEW j \in Jobs, Release(j)
      PROVE  FlightHasLeader'
  <2>1. \A b \in Actors : op'[b] = op[b] \/ FlightCalm(op[b], op'[b])
    BY <1>7, <1>t, <1>h DEF Release, Answered, FlightCalm, Fits, IsJob, Actors, NoOp
  <2>2. flight' = flight
    BY <1>7 DEF Release
  <2> QED
    BY <2>1, <2>2, FlightKept
<1>8. ASSUME NEW h \in Handlers, Begins(h)
      PROVE  FlightHasLeader'
  <2>0. op[h].role = "none" /\ op[h].pc = "missed" /\ op[h].key \in Keys
    BY <1>8, <1>t, <1>h DEF Begins, Fits, HasRole, HasKey, HitPcs
  <2>k. PICK k \in Keys : k = op[h].key
    BY <2>0
  <2>1. CASE flight[Key(h)] = None
    <3>1. flight' = [flight EXCEPT ![k] = h]
          /\ op' = [op EXCEPT ![h].pc = "fetch", ![h].store = TRUE, ![h].role = "leader"]
      BY <1>8, <2>1, <2>k DEF Begins, Begin
    <3>2. /\ op'[h].role = "leader" /\ op'[h].pc = "fetch" /\ op'[h].key = k
          /\ \A b \in Actors : b # h => op'[b] = op[b]
      BY <3>1, <2>k, <1>t, <1>h
    <3>3. \A g \in Handlers : ~ (op[g].role = "leader" /\ op[g].key = k /\ op[g].pc # "notify")
      BY <2>1, <2>k, <1>h DEF FlightHasLeader
    <3>4. \A g \in Handlers, q \in Keys :
            (flight[q] = g)' <=> (op[g].role = "leader" /\ Key(g) = q /\ ~ At(g, "notify"))'
      <4> TAKE g \in Handlers, q \in Keys
      <4>1. flight'[q] = IF q = k THEN h ELSE flight[q]
        BY <3>1, <1>f
      <4>2. CASE g = h
        BY <4>1, <4>2, <3>2, <2>0, <1>h DEF FlightHasLeader
      <4>3. CASE g # h
        BY <4>1, <4>3, <3>2, <3>3, <1>h DEF FlightHasLeader
      <4> QED
        BY <4>2, <4>3
    <3>5. ASSUME NEW g \in Handlers, At(g, "wait")', (op[g].outcome = None)'
          PROVE  (op[op[g].of].role = "leader" /\ Key(op[g].of) = Key(g))'
      <4>1. op'[g] = op[g] /\ op[g].of \in Handlers
        BY <3>2, <3>5, <1>h
      <4>2. PICK l \in Handlers : l = op[g].of
        BY <4>1
      <4>3. op[l].role = "leader" /\ op[l].key = op[g].key
        BY <4>1, <4>2, <3>5 DEF FlightHasLeader
      <4>4. op'[l] = op[l]
        BY <4>3, <3>2, <2>0, <1>h
      <4> QED
        BY <4>1, <4>2, <4>3, <4>4
    <3> QED
      BY <3>4, <3>5 DEF FlightHasLeader
  <2>2. CASE flight[Key(h)] # None
    <3>0. PICK l \in Handlers : l = flight[k]
      BY <2>2, <2>k, <1>f
    <3>1. flight' = flight
          /\ op' = [op EXCEPT ![h].pc = "wait", ![h].store = TRUE, ![h].role = "follower", ![h].of = l]
      BY <1>8, <2>2, <2>k, <3>0 DEF Begins, Begin
    <3>2. /\ op'[h].role = "follower" /\ op'[h].pc = "wait" /\ op'[h].key = k /\ op'[h].of = l
          /\ \A b \in Actors : b # h => op'[b] = op[b]
      BY <3>1, <2>k, <1>t, <1>h
    <3>3. op[l].role = "leader" /\ op[l].key = k /\ l # h
      BY <3>0, <2>0 DEF FlightHasLeader
    <3>4. \A g \in Handlers, q \in Keys :
            (flight[q] = g)' <=> (op[g].role = "leader" /\ Key(g) = q /\ ~ At(g, "notify"))'
      <4> TAKE g \in Handlers, q \in Keys
      <4>1. flight'[q] = flight[q]
        BY <3>1
      <4>2. CASE g = h
        BY <4>1, <4>2, <3>2, <2>0, <1>h DEF FlightHasLeader
      <4>3. CASE g # h
        BY <4>1, <4>3, <3>2, <1>h DEF FlightHasLeader
      <4> QED
        BY <4>2, <4>3
    <3>5. ASSUME NEW g \in Handlers, At(g, "wait")', (op[g].outcome = None)'
          PROVE  (op[op[g].of].role = "leader" /\ Key(op[g].of) = Key(g))'
      <4>1. CASE g = h
        BY <4>1, <3>2, <3>3, <1>h
      <4>2. CASE g # h
        <5>1. op'[g] = op[g] /\ op[g].of \in Handlers
          BY <3>2, <3>5, <4>2, <1>h
        <5>2. PICK m \in Handlers : m = op[g].of
          BY <5>1
        <5>3. op[m].role = "leader" /\ op[m].key = op[g].key
          BY <5>1, <5>2, <3>5 DEF FlightHasLeader
        <5>4. op'[m] = op[m]
          BY <5>3, <3>2, <2>0, <1>h
        <5> QED
          BY <5>1, <5>2, <5>3, <5>4
      <4> QED
        BY <4>1, <4>2
    <3> QED
      BY <3>4, <3>5 DEF FlightHasLeader
  <2> QED
    BY <2>1, <2>2
<1>9. ASSUME NEW h \in Handlers, Finish(h)
      PROVE  FlightHasLeader'
  <2>0. op[h].role = "leader" /\ op[h].pc = "finish" /\ op[h].key \in Keys
    BY <1>9, <1>t, <1>h DEF Finish, Fits, HasRole, HasKey
  <2>k. PICK k \in Keys : k = op[h].key
    BY <2>0
  <2>1. flight' = [flight EXCEPT ![k] = None] /\ op' = [op EXCEPT ![h].pc = "notify"]
    BY <1>9, <2>k DEF Finish, Go
  <2>2. /\ op'[h].role = "leader" /\ op'[h].pc = "notify" /\ op'[h].key = k
        /\ \A b \in Actors : b # h => op'[b] = op[b]
    BY <2>0, <2>1, <2>k, <1>t, <1>h
  <2>3. flight[k] = h
    BY <2>0, <2>k DEF FlightHasLeader
  <2>4. \A g \in Handlers, q \in Keys :
          (flight[q] = g)' <=> (op[g].role = "leader" /\ Key(g) = q /\ ~ At(g, "notify"))'
    BY <2>0, <2>1, <2>2, <2>3, <2>k, <1>f, <1>h DEF FlightHasLeader
  <2>5. ASSUME NEW g \in Handlers, At(g, "wait")', (op[g].outcome = None)'
        PROVE  (op[op[g].of].role = "leader" /\ Key(op[g].of) = Key(g))'
    <3>1. op'[g] = op[g] /\ op[g].of \in Handlers
      BY <2>2, <2>5, <1>h
    <3>2. PICK l \in Handlers : l = op[g].of
      BY <3>1
    <3>3. op[l].role = "leader" /\ op[l].key = op[g].key
      BY <3>1, <3>2, <2>5 DEF FlightHasLeader
    <3>4. op'[l].role = "leader" /\ op'[l].key = op[l].key
      BY <3>3, <2>0, <2>2, <2>k, <1>h
    <3> QED
      BY <3>1, <3>2, <3>3, <3>4
  <2> QED
    BY <2>4, <2>5 DEF FlightHasLeader
<1>10. ASSUME NEW h \in Handlers, Notify(h)
       PROVE  FlightHasLeader'
  <2>0. op[h].role = "leader" /\ op[h].pc = "notify" /\ op[h].outcome # None
    BY <1>10, <1>t, <1>h DEF Notify, Fits, HasRole
  <2>1. flight' = flight
    BY <1>10 DEF Notify, tables
  <2>2. \A b \in Actors : op'[b] = IF b = h THEN NoOp
                                   ELSE IF op[b].pc = "wait" /\ op[b].of = h
                                   THEN [op[b] EXCEPT !.outcome = op[h].outcome] ELSE op[b]
    BY <1>10 DEF Notify
  <2>3. \A b \in Actors : b # h => /\ op'[b].role = op[b].role /\ op'[b].key = op[b].key
                                   /\ op'[b].pc = op[b].pc /\ op'[b].of = op[b].of
    <3> TAKE b \in Actors
    <3>1. op[b] \in Op
      BY <1>t
    <3>2. CASE b # h /\ op[b].pc = "wait" /\ op[b].of = h
      <4>1. op'[b] = [op[b] EXCEPT !.outcome = op[h].outcome]
        BY <3>2, <2>2
      <4> QED
        BY <4>1, <3>1 DEF Op
    <3>3. CASE b # h /\ ~ (op[b].pc = "wait" /\ op[b].of = h)
      BY <3>3, <2>2
    <3> QED
      BY <3>2, <3>3
  <2>4. op'[h].role = "none" /\ op'[h].pc = "idle"
    <3>1. op'[h] = NoOp
      BY <2>2, <1>h
    <3> QED
      BY <3>1 DEF NoOp
  <2>5. \A g \in Handlers, q \in Keys :
          (flight[q] = g)' <=> (op[g].role = "leader" /\ Key(g) = q /\ ~ At(g, "notify"))'
    BY <2>0, <2>1, <2>3, <2>4, <1>h DEF FlightHasLeader
  <2>6. ASSUME NEW g \in Handlers, At(g, "wait")', (op[g].outcome = None)'
        PROVE  (op[op[g].of].role = "leader" /\ Key(op[g].of) = Key(g))'
    <3>1. g # h /\ op[g].pc = "wait" /\ op[g].of \in Handlers
      BY <2>3, <2>4, <2>6, <1>h
    <3>2. op[g].of # h /\ op[g].outcome = None
      <4>1. CASE op[g].of = h
        <5>1. op'[g] = [op[g] EXCEPT !.outcome = op[h].outcome] /\ op[g] \in Op
          BY <4>1, <3>1, <2>2, <1>t, <1>h
        <5>2. op'[g].outcome = op[h].outcome
          BY <5>1 DEF Op
        <5> QED
          BY <5>2, <2>0, <2>6
      <4>2. CASE op[g].of # h
        BY <4>2, <3>1, <2>2, <2>6, <1>h
      <4> QED
        BY <4>1, <4>2
    <3>3. PICK l \in Handlers : l = op[g].of
      BY <3>1
    <3>4. op[l].role = "leader" /\ op[l].key = op[g].key /\ l # h
      BY <3>1, <3>2, <3>3 DEF FlightHasLeader
    <3>5. op'[g].of = l /\ op'[g].key = op[g].key /\ op'[l].role = op[l].role /\ op'[l].key = op[l].key
      BY <3>1, <3>3, <3>4, <2>3, <1>h
    <3> QED
      BY <3>4, <3>5
  <2> QED
    BY <2>5, <2>6 DEF FlightHasLeader
<1> QED
  BY <1>1, <1>2, <1>3, <1>4, <1>5, <1>6, <1>7, <1>8, <1>9, <1>10 DEF StepKinds, Special

\* Steps that are calm for everyone keep the tickets.
LEMMA TicketsKept ==
    ASSUME CInv, Tickets, revalidating' = revalidating,
           \A b \in Actors : op'[b] = op[b] \/ TicketCalm(b, op[b], op'[b])
    PROVE  Tickets'
<1>1. ASSUME NEW a \in Actors, NEW k \in Keys
      PROVE  Owns(a, k)' <=> Owns(a, k)
  BY <1>1, CacheAssumption DEF Owns, At, Key, TicketCalm, Actors
<1> QED
  BY <1>1 DEF Tickets

\* Every step keeps one owner for each ticket.
LEMMA TicketStep ==
    ASSUME CInv, CInv', Tickets, StepKinds
    PROVE  Tickets'
<1> USE CacheAssumption, NoneAssumption DEF At, Key
<1>t. op \in [Actors -> Op] /\ \A x \in Actors : op[x] \in Op /\ Fits(x, op[x])
  BY DEF CInv, OpsOK
<1>h. /\ \A h \in Handlers : h \in Actors /\ h \notin Jobs
      /\ \A j \in Jobs : j \in Actors /\ j \notin Handlers
  BY DEF Actors
<1>1. CASE World
  BY <1>1, TicketsKept DEF World
<1>2. ASSUME NEW a \in Actors, Quiet(a)
      PROVE  Tickets'
  BY <1>2, TicketsKept DEF Quiet, Calm, Alone
<1>3. ASSUME NEW h \in Handlers, Begins(h)
      PROVE  Tickets'
  <2>1. \A b \in Actors : op'[b] = op[b] \/ TicketCalm(b, op[b], op'[b])
    <3>0. op[h].pc = "missed" /\ op[h] \in Op /\ h \in Actors
      BY <1>3, <1>t, <1>h DEF Begins
    <3>1. CASE op' = [op EXCEPT ![h].pc = "fetch", ![h].store = TRUE, ![h].role = "leader"]
      <4>1. op'[h].pc = "fetch" /\ \A b \in Actors : b # h => op'[b] = op[b]
        BY <3>0, <3>1, <1>t
      <4> QED
        BY <3>0, <4>1, <1>h DEF TicketCalm
    <3>2. ASSUME NEW l, op' = [op EXCEPT ![h].pc = "wait", ![h].store = TRUE, ![h].role = "follower",
                                         ![h].of = l]
          PROVE  \A b \in Actors : op'[b] = op[b] \/ TicketCalm(b, op[b], op'[b])
      <4>1. op'[h].pc = "wait" /\ \A b \in Actors : b # h => op'[b] = op[b]
        BY <3>0, <3>2, <1>t
      <4> QED
        BY <3>0, <4>1, <1>h DEF TicketCalm
    <3> QED
      BY <1>3, <3>1, <3>2 DEF Begins, Begin
  <2>2. revalidating' = revalidating
    BY <1>3 DEF Begins
  <2> QED
    BY <2>1, <2>2, TicketsKept
<1>4. ASSUME NEW h \in Handlers, Finish(h)
      PROVE  Tickets'
  <2>1. \A b \in Actors : op'[b] = op[b] \/ TicketCalm(b, op[b], op'[b])
    BY <1>4, <1>t, <1>h DEF Finish, Go, TicketCalm
  <2>2. revalidating' = revalidating
    BY <1>4 DEF Finish
  <2> QED
    BY <2>1, <2>2, TicketsKept
<1>5. ASSUME NEW h \in Handlers, Notify(h)
      PROVE  Tickets'
  <2>1. ASSUME NEW b \in Actors
        PROVE  op'[b] = op[b] \/ TicketCalm(b, op[b], op'[b])
    <3>0. op[b] \in Op /\ (b \in Jobs => op[b].pc # "wait") /\ op[h].pc = "notify"
      BY <1>5, <1>t DEF Notify, Fits, IsJob, AnswerPcs, PrunePcs
    <3>1. op'[b] = IF b = h THEN NoOp
                   ELSE IF op[b].pc = "wait" /\ op[b].of = h
                   THEN [op[b] EXCEPT !.outcome = op[h].outcome] ELSE op[b]
      BY <1>5 DEF Notify
    <3>2. CASE b = h
      BY <3>0, <3>1, <3>2, <1>h DEF TicketCalm, NoOp
    <3>3. CASE b # h /\ op[b].pc = "wait" /\ op[b].of = h
      <4>1. op'[b] = [op[b] EXCEPT !.outcome = op[h].outcome]
        BY <3>1, <3>3
      <4>2. op'[b].pc = "wait"
        BY <4>1, <3>0, <3>3 DEF Op
      <4> QED
        BY <4>2, <3>0, <3>3 DEF TicketCalm
    <3>4. CASE b # h /\ ~ (op[b].pc = "wait" /\ op[b].of = h)
      BY <3>1, <3>4
    <3> QED
      BY <3>2, <3>3, <3>4
  <2>2. revalidating' = revalidating
    BY <1>5 DEF Notify, tables
  <2> QED
    BY <2>1, <2>2, TicketsKept
<1>6. ASSUME NEW h \in Handlers, PurgeDisk(h)
      PROVE  Tickets'
  <2>1. \A b \in Actors : op'[b] = op[b] \/ TicketCalm(b, op[b], op'[b])
    BY <1>6, <1>t, <1>h DEF PurgeDisk, TicketCalm
  <2>2. revalidating' = revalidating
    BY <1>6 DEF PurgeDisk, tables
  <2> QED
    BY <2>1, <2>2, TicketsKept
<1>7. ASSUME NEW h \in Handlers, TakesTicket(h)
      PROVE  Tickets'
  <2>0. op[h].pc = "judge" /\ op[h].key \in Keys /\ op[h].key \notin revalidating
        /\ revalidating' = revalidating \cup {op[h].key}
    BY <1>7, <1>t, <1>h DEF TakesTicket, Fits, HasKey
  <2>1. op'[h].pc = "spawn" /\ op'[h].key = op[h].key /\ \A b \in Actors : b # h => op'[b] = op[b]
    BY <1>7, <1>t, <1>h DEF TakesTicket, KeepStale
  <2>2. ASSUME NEW a \in Actors, NEW k \in Keys
        PROVE  Owns(a, k)' <=> Owns(a, k) \/ (a = h /\ k = op[h].key)
    BY <2>0, <2>1, <1>h DEF Owns
  <2>3. \A a \in Actors : ~ Owns(a, op[h].key)
    BY <2>0 DEF Tickets
  <2> QED
    BY <2>0, <2>2, <2>3, <1>h DEF Tickets
<1>8. ASSUME NEW h \in Handlers, SpawnRefused(h)
      PROVE  Tickets'
  <2>0. op[h].pc = "spawn" /\ op[h].key \in Keys /\ revalidating' = revalidating \ {op[h].key}
    BY <1>8, <1>t, <1>h DEF SpawnRefused, Fits, HasKey
  <2>1. op'[h].pc = "missed" /\ op'[h].key = op[h].key /\ \A b \in Actors : b # h => op'[b] = op[b]
    BY <1>8, <1>t, <1>h DEF SpawnRefused, Go
  <2>2. ASSUME NEW a \in Actors, NEW k \in Keys
        PROVE  Owns(a, k)' <=> Owns(a, k) /\ a # h
    BY <2>0, <2>1, <1>h DEF Owns
  <2>3. Owns(h, op[h].key)
    BY <2>0, <1>h DEF Owns
  <2>4. \A k \in Keys : Owns(h, k) => k = op[h].key
    BY DEF Owns
  <2> QED
    BY <2>0, <2>2, <2>3, <2>4, <1>h DEF Tickets
<1>9. ASSUME NEW h \in Handlers, NEW j \in Jobs, SpawnJob(h, j)
      PROVE  Tickets'
  <2>0. op[h].pc = "spawn" /\ op[j].pc = "idle" /\ op[h].key \in Keys /\ h # j
        /\ revalidating' = revalidating
    BY <1>9, <1>t, <1>h DEF SpawnJob, Fits, HasKey, tables
  <2>1. /\ op'[h].pc = "idle" /\ op'[j].pc = "fetch" /\ op'[j].key = op[h].key
        /\ \A b \in Actors : b # h /\ b # j => op'[b] = op[b]
    BY <1>9, <1>t, <1>h, <2>0 DEF SpawnJob, NoOp
  <2>2. ASSUME NEW a \in Actors, NEW k \in Keys
        PROVE  Owns(a, k)' <=> (Owns(a, k) /\ a # h) \/ (a = j /\ k = op[h].key)
    BY <2>0, <2>1, <1>h DEF Owns
  <2>3. Owns(h, op[h].key)
    BY <2>0, <1>h DEF Owns
  <2>4. \A k \in Keys : Owns(h, k) => k = op[h].key
    BY DEF Owns
  <2>5. ASSUME NEW k \in Keys
        PROVE  (k \in revalidating)' <=> (\E a \in Actors : Owns(a, k))'
    BY <2>0, <2>2, <2>3, <2>4, <1>h DEF Tickets
  <2>6. ASSUME NEW k \in Keys, NEW a \in Actors, NEW b \in Actors, Owns(a, k)', Owns(b, k)'
        PROVE  a = b
    BY <2>2, <2>3, <2>6, <1>h DEF Tickets
  <2> QED
    BY <2>5, <2>6 DEF Tickets
<1>10. ASSUME NEW j \in Jobs, Release(j)
       PROVE  Tickets'
  <2>0. op[j].pc = "release" /\ op[j].key \in Keys /\ revalidating' = revalidating \ {op[j].key}
    BY <1>10, <1>t, <1>h DEF Release, Fits, HasKey
  <2>1. op'[j].pc = "idle" /\ \A b \in Actors : b # j => op'[b] = op[b]
    BY <1>10, <1>t, <1>h DEF Release, Answered, NoOp
  <2>2. ASSUME NEW a \in Actors, NEW k \in Keys
        PROVE  Owns(a, k)' <=> Owns(a, k) /\ a # j
    BY <2>0, <2>1, <1>h DEF Owns
  <2>3. Owns(j, op[j].key)
    BY <2>0, <1>h DEF Owns
  <2>4. \A k \in Keys : Owns(j, k) => k = op[j].key
    BY DEF Owns
  <2> QED
    BY <2>0, <2>2, <2>3, <2>4, <1>h DEF Tickets
<1> QED
  BY <1>1, <1>2, <1>3, <1>4, <1>5, <1>6, <1>7, <1>8, <1>9, <1>10 DEF StepKinds, Special

\* Steps that are calm for everyone bring nothing back.
LEMMA NotBackKept ==
    ASSUME CInv, NotBack, gone' = gone, current' >= current, current' \in Versions,
           \A b \in Actors : op'[b] = op[b] \/ DiskCalm(op[b], op'[b]),
           disk'[Bare] # None =>
              \/ disk'[Bare] = disk[Bare]
              \/ \E a \in Actors : Key(a) = Bare /\ ToDisk(op[a], disk'[Bare].body)
    PROVE  NotBack'
<1> SUFFICES ASSUME NEW v \in Versions, <<Bare, v>> \in gone
             PROVE  /\ v < current'
                    /\ disk'[Bare] # None => disk'[Bare].body # v
                    /\ \A a \in Actors : op'[a].key = Bare => ~ ToDisk(op'[a], v)
  BY DEF NotBack, Key
<1>0. current \in Int /\ current' \in Int /\ v \in Int
  BY CacheAssumption DEF CInv, DataTyped, Versions
<1>1. /\ v < current
      /\ disk[Bare] # None => disk[Bare].body # v
      /\ \A a \in Actors : op[a].key = Bare => ~ ToDisk(op[a], v)
  BY DEF NotBack, Key
<1>2. v < current' /\ v # current
  BY <1>0, <1>1
<1>3. disk'[Bare] # None => disk'[Bare].body # v
  BY <1>1 DEF Key
<1>4. ASSUME NEW a \in Actors, op'[a].key = Bare, ToDisk(op'[a], v)
      PROVE  FALSE
  BY <1>1, <1>2, <1>4 DEF DiskCalm
<1> QED
  BY <1>2, <1>3, <1>4

\* No step brings back what has been removed, nor takes it in hand.
LEMMA NotBackStep ==
    ASSUME CInv, CInv', NotBack, StepKinds
    PROVE  NotBack'
<1> USE CacheAssumption, NoneAssumption DEF At, Key
<1>t. op \in [Actors -> Op] /\ \A x \in Actors : op[x] \in Op /\ Fits(x, op[x])
  BY DEF CInv, OpsOK
<1>h. (\A h \in Handlers : h \in Actors) /\ (\A j \in Jobs : j \in Actors)
  BY DEF Actors
<1>c. current' \in Versions /\ current \in Versions /\ \A v, w \in Versions : v = w => v >= w
  BY DEF CInv, DataTyped, Versions
<1>1. CASE World
  BY <1>1, <1>c, NotBackKept DEF World
<1>2. ASSUME NEW a \in Actors, Quiet(a)
      PROVE  NotBack'
  BY <1>2, <1>c, NotBackKept DEF Quiet, Calm, Alone, DiskKept
<1>3. ASSUME NEW h \in Handlers, TakesTicket(h)
      PROVE  NotBack'
  <2>1. \A b \in Actors : op'[b] = op[b] \/ DiskCalm(op[b], op'[b])
    BY <1>3, <1>t, <1>h DEF TakesTicket, KeepStale, DiskCalm, ToDisk, PrunePcs
  <2>2. gone' = gone /\ disk' = disk /\ current' = current
    BY <1>3 DEF TakesTicket, tiers
  <2> QED
    BY <2>1, <2>2, <1>c, NotBackKept
<1>4. ASSUME NEW h \in Handlers, NEW j \in Jobs, SpawnJob(h, j)
      PROVE  NotBack'
  <2>1. \A b \in Actors : op'[b] = op[b] \/ DiskCalm(op[b], op'[b])
    BY <1>4, <1>t, <1>h DEF SpawnJob, NoOp, DiskCalm, ToDisk, PrunePcs
  <2>2. gone' = gone /\ disk' = disk /\ current' = current
    BY <1>4 DEF SpawnJob, tiers
  <2> QED
    BY <2>1, <2>2, <1>c, NotBackKept
<1>5. ASSUME NEW h \in Handlers, SpawnRefused(h)
      PROVE  NotBack'
  <2>1. \A b \in Actors : op'[b] = op[b] \/ DiskCalm(op[b], op'[b])
    BY <1>5, <1>t, <1>h DEF SpawnRefused, Go, DiskCalm, ToDisk, PrunePcs
  <2>2. gone' = gone /\ disk' = disk /\ current' = current
    BY <1>5 DEF SpawnRefused, tiers
  <2> QED
    BY <2>1, <2>2, <1>c, NotBackKept
<1>6. ASSUME NEW h \in Handlers, Begins(h)
      PROVE  NotBack'
  <2>1. \A b \in Actors : op'[b] = op[b] \/ DiskCalm(op[b], op'[b])
    <3>0. op[h].pc = "missed" /\ op[h] \in Op /\ h \in Actors
      BY <1>6, <1>t, <1>h DEF Begins
    <3>1. CASE op' = [op EXCEPT ![h].pc = "fetch", ![h].store = TRUE, ![h].role = "leader"]
      <4>1. op'[h].pc = "fetch" /\ \A b \in Actors : b # h => op'[b] = op[b]
        BY <3>0, <3>1, <1>t
      <4> QED
        BY <3>0, <4>1, <1>h DEF DiskCalm, ToDisk, PrunePcs
    <3>2. ASSUME NEW l, op' = [op EXCEPT ![h].pc = "wait", ![h].store = TRUE, ![h].role = "follower",
                                         ![h].of = l]
          PROVE  \A b \in Actors : op'[b] = op[b] \/ DiskCalm(op[b], op'[b])
      <4>1. op'[h].pc = "wait" /\ \A b \in Actors : b # h => op'[b] = op[b]
        BY <3>0, <3>2, <1>t
      <4> QED
        BY <3>0, <4>1, <1>h DEF DiskCalm, ToDisk, PrunePcs
    <3> QED
      BY <1>6, <3>1, <3>2 DEF Begins, Begin
  <2>2. gone' = gone /\ disk' = disk /\ current' = current
    BY <1>6 DEF Begins, tiers
  <2> QED
    BY <2>1, <2>2, <1>c, NotBackKept
<1>7. ASSUME NEW h \in Handlers, Finish(h)
      PROVE  NotBack'
  <2>1. \A b \in Actors : op'[b] = op[b] \/ DiskCalm(op[b], op'[b])
    BY <1>7, <1>t, <1>h DEF Finish, Go, DiskCalm, ToDisk, PrunePcs
  <2>2. gone' = gone /\ disk' = disk /\ current' = current
    BY <1>7 DEF Finish, tiers
  <2> QED
    BY <2>1, <2>2, <1>c, NotBackKept
<1>8. ASSUME NEW h \in Handlers, Notify(h)
      PROVE  NotBack'
  <2>1. ASSUME NEW b \in Actors
        PROVE  op'[b] = op[b] \/ DiskCalm(op[b], op'[b])
    <3>0. op[b] \in Op
      BY <1>t
    <3>1. op'[b] = IF b = h THEN NoOp
                   ELSE IF op[b].pc = "wait" /\ op[b].of = h
                   THEN [op[b] EXCEPT !.outcome = op[h].outcome] ELSE op[b]
      BY <1>8 DEF Notify
    <3>2. CASE b = h
      BY <3>1, <3>2 DEF DiskCalm, ToDisk, NoOp, PrunePcs
    <3>3. CASE b # h /\ op[b].pc = "wait" /\ op[b].of = h
      <4>1. op'[b] = [op[b] EXCEPT !.outcome = op[h].outcome]
        BY <3>1, <3>3
      <4>2. op'[b].pc = "wait"
        BY <4>1, <3>0, <3>3 DEF Op
      <4> QED
        BY <4>2 DEF DiskCalm, ToDisk, PrunePcs
    <3>4. CASE b # h /\ ~ (op[b].pc = "wait" /\ op[b].of = h)
      BY <3>1, <3>4
    <3> QED
      BY <3>2, <3>3, <3>4
  <2>2. gone' = gone /\ disk' = disk /\ current' = current
    BY <1>8 DEF Notify, tiers
  <2> QED
    BY <2>1, <2>2, <1>c, NotBackKept
<1>9. ASSUME NEW j \in Jobs, Release(j)
      PROVE  NotBack'
  <2>1. \A b \in Actors : op'[b] = op[b] \/ DiskCalm(op[b], op'[b])
    BY <1>9, <1>t, <1>h DEF Release, Answered, NoOp, DiskCalm, ToDisk, PrunePcs
  <2>2. gone' = gone /\ disk' = disk /\ current' = current
    BY <1>9 DEF Release, tiers
  <2> QED
    BY <2>1, <2>2, <1>c, NotBackKept
<1>10. ASSUME NEW h \in Handlers, PurgeDisk(h)
       PROVE  NotBack'
  <2> SUFFICES ASSUME NEW v \in Versions, <<Bare, v>> \in gone'
               PROVE  /\ v < current'
                      /\ disk'[Bare] # None => disk'[Bare].body # v
                      /\ \A a \in Actors : op'[a].key = Bare => ~ ToDisk(op'[a], v)
    BY DEF NotBack
  <2>0. /\ current' = current /\ op[h].key \in Keys /\ op[h].then \in Nat /\ op[h].then <= current
        /\ disk \in [Keys -> Entry \cup {None}] /\ Bare \in Keys /\ current \in Int
    BY <1>10, <1>t, <1>h DEF PurgeDisk, tables, Fits, HasKey, Purging, CInv, DataTyped, Keys,
       Versions
  <2>1. disk' = [disk EXCEPT ![op[h].key] = None]
    BY <1>10 DEF PurgeDisk
  <2>2. gone' = gone \cup {kv \in {op[h].key} \X Versions : kv[2] < op[h].then /\ ~ InHand(op[h].key, kv[2])}
    BY <1>10 DEF PurgeDisk
  <2>3. op'[h].pc = "purge" /\ \A b \in Actors : b # h => op'[b] = op[b]
    BY <1>10, <1>t, <1>h DEF PurgeDisk
  <2>4. \A e : ~ ToDisk(op'[h], e)
    BY <2>3 DEF ToDisk, PrunePcs
  <2>5. CASE <<Bare, v>> \in gone
    <3>1. /\ v < current
          /\ disk[Bare] # None => disk[Bare].body # v
          /\ \A a \in Actors : op[a].key = Bare => ~ ToDisk(op[a], v)
      BY <2>5 DEF NotBack
    <3>2. disk'[Bare] # None => disk'[Bare].body # v
      BY <3>1, <2>0, <2>1
    <3>3. \A a \in Actors : op'[a].key = Bare => ~ ToDisk(op'[a], v)
      BY <3>1, <2>3, <2>4
    <3> QED
      BY <3>1, <3>2, <3>3, <2>0
  <2>6. CASE <<Bare, v>> \notin gone
    <3>1. op[h].key = Bare /\ v < op[h].then /\ ~ InHand(Bare, v)
      BY <2>2, <2>6
    <3>2. v < current
      BY <3>1, <2>0 DEF Versions
    <3>3. disk'[Bare] = None
      BY <3>1, <2>0, <2>1
    <3>4. ASSUME NEW a \in Actors, op[a].key = Bare, ToDisk(op[a], v)
          PROVE  FALSE
      <4>1. \A e \in {op[a].hit, op[a].stale, op[a].new} : ~ (e # None /\ e.body = v)
        BY <3>1, <3>4 DEF InHand
      <4>2. (op[a].new \in Entry /\ op[a].new.body = v) \/ (op[a].hit \in Entry /\ op[a].hit.body = v)
        BY <3>4, <1>t DEF ToDisk, Fits, HasEntries
      <4> QED
        BY <4>1, <4>2
    <3>5. \A a \in Actors : op'[a].key = Bare => ~ ToDisk(op'[a], v)
      BY <3>4, <2>3, <2>4
    <3> QED
      BY <3>2, <3>3, <3>5, <2>0
  <2> QED
    BY <2>5, <2>6
<1> QED
  BY <1>1, <1>2, <1>3, <1>4, <1>5, <1>6, <1>7, <1>8, <1>9, <1>10 DEF StepKinds, Special

\* The inductive invariant.
CacheInv == CInv /\ FlightHasLeader /\ Tickets /\ NotBack

\* An empty cache, with nobody at work.
LEMMA CacheStarts ==
    ASSUME Init
    PROVE  CacheInv
<1> USE CacheAssumption, NoneAssumption
<1>1. DataTyped
  BY DEF Init, DataTyped, Versions
<1>2. OpsOK
  <2>1. \A a \in Actors : op[a] = NoOp
    BY DEF Init
  <2>2. op \in [Actors -> Op]
    BY NoOpFits DEF Init
  <2> QED
    BY <2>1, <2>2, NoOpFits DEF OpsOK
<1>3. \A a \in Actors : op[a].pc = "idle" /\ op[a].role = "none"
  BY DEF Init, NoOp
<1>4. FlightHasLeader
  BY <1>3 DEF Init, FlightHasLeader, At, Key, Actors
<1>5. Tickets
  BY <1>3 DEF Init, Tickets, Owns, At
<1>6. NotBack
  BY DEF Init, NotBack
<1> QED
  BY <1>1, <1>2, <1>4, <1>5, <1>6 DEF CacheInv, CInv

\* The invariant is inductive.
LEMMA CacheKeeps ==
    ASSUME CacheInv, [Next]_vars
    PROVE  CacheInv'
<1>1. CInv'
  BY TypedStep DEF CacheInv
<1>2. StepKinds
  BY EveryStep DEF CacheInv
<1> QED
  BY <1>1, <1>2, FlightStep, TicketStep, NotBackStep DEF CacheInv

\* What is held at each step, the flights, the tickets and the purge, together.
THEOREM CacheInvariant == Spec => []CacheInv
<1>1. Init => CacheInv
  BY CacheStarts
<1>2. CacheInv /\ [Next]_vars => CacheInv'
  BY CacheKeeps
<1> QED
  BY <1>1, <1>2, PTL DEF Spec

\* Every thread has at each step of its request what that step uses: the key, the entry that
\* it found, the one that it stores, and its part in a flight (lookup.rs, deliver.rs, reply.rs).
THEOREM CacheTypeCorrect == Spec => []CInv
<1>1. CacheInv => CInv
  BY DEF CacheInv
<1> QED
  BY <1>1, CacheInvariant, PTL

\* LeaderGuard (inflight.rs): whatever becomes of the answer, a key is in the table exactly
\* while a handler leads it, and nobody waits for a flight that nobody completes.
THEOREM FlightAlwaysHasLeader == Spec => []FlightHasLeader
<1>1. CacheInv => FlightHasLeader
  BY DEF CacheInv
<1> QED
  BY <1>1, CacheInvariant, PTL

\* The tickets, counted.
LEMMA OwnersAreOne ==
    ASSUME Tickets
    PROVE  TicketsPaired
<1> USE DEF At, Key
<1>1. ASSUME NEW k \in Keys
      PROVE  LET owners == {h \in Handlers : At(h, "spawn") /\ Key(h) = k}
                           \cup {j \in Jobs : ~ At(j, "idle") /\ Key(j) = k}
             IN  Cardinality(owners) = IF k \in revalidating THEN 1 ELSE 0
  <2> DEFINE owners == {h \in Handlers : At(h, "spawn") /\ Key(h) = k}
                       \cup {j \in Jobs : ~ At(j, "idle") /\ Key(j) = k}
  <2>1. \A a : a \in owners <=> a \in Actors /\ Owns(a, k)
    BY DEF Owns, Actors
  <2> HIDE DEF owners
  <2>2. CASE k \in revalidating
    <3>1. PICK a \in Actors : Owns(a, k)
      BY <2>2 DEF Tickets
    <3>2. owners = {a}
      BY <3>1, <2>1 DEF Tickets
    <3> QED
      BY <2>2, <3>2, FS_Singleton DEF owners
  <2>3. CASE k \notin revalidating
    <3>1. owners = {}
      BY <2>1, <2>3 DEF Tickets
    <3> QED
      BY <2>3, <3>1, FS_EmptySet DEF owners
  <2> QED
    BY <2>2, <2>3
<1> QED
  BY <1>1 DEF TicketsPaired

\* begin_revalidation and end_revalidation pair up: a key in the set has one owner, the
\* handler that is about to start the job or the job.
THEOREM TicketsAlwaysPaired == Spec => []TicketsPaired
<1>1. CacheInv => TicketsPaired
  BY OwnersAreOne DEF CacheInv
<1> QED
  BY <1>1, CacheInvariant, PTL

\* Cache::invalidate: what it removed of the URL itself from the disk, and nobody had in
\* hand, does not come back to the disk.
THEOREM PurgedStaysOffDisk == Spec => []PurgedFromDisk
<1>1. CacheInv => PurgedFromDisk
  <2> SUFFICES ASSUME CacheInv, disk[Bare] # None, <<Bare, disk[Bare].body>> \in gone
               PROVE  FALSE
    BY DEF PurgedFromDisk
  <2>1. disk[Bare] \in Entry
    BY DEF CacheInv, CInv, DataTyped, Keys
  <2>2. disk[Bare].body \in Versions
    BY <2>1 DEF Entry
  <2> QED
    BY <2>2 DEF CacheInv, NotBack
<1> QED
  BY <1>1, CacheInvariant, PTL

=============================================================================
