------------------------------ MODULE Freshness ------------------------------
(***************************************************************************)
(* How long an answer may be given again: one entry of the cache over the  *)
(* answers of its origin, which say how long they last, the revalidations  *)
(* that mix a 304 into what is stored, and the requests that ask for it.   *)
(* A head is a record of what its lines say; None stands for no such line. *)
(* Source: crates/freshness/src/freshness/, crates/http/src/http/lookup.rs *)
(* and reply.rs.                                                           *)
(***************************************************************************)
EXTENDS Integers

CONSTANTS
    DefaultTtl, NegativeTtl, HeuristicPercent, HeuristicMax, Grace,     \* CacheConfig
    Start, MaxNow,      \* bounds of the clock
    Sayings,            \* what the origin says: [head, lines], see Silent; an answer may have an ETag too
    MaxSaid,            \* bound of the lines of all heads, with their first ones
    None

\* What a head may say, see Silent.
MaybeNat == Nat \cup {None}
Etags == {s.head.etag : s \in Sayings} \cup {None, "e"}
Heads == [forbids : BOOLEAN, cookie : BOOLEAN, public : BOOLEAN, no_cache : BOOLEAN, must : BOOLEAN,
          s_maxage : MaybeNat, max_age : MaybeNat, expires : MaybeNat, date : MaybeNat, age : Nat,
          modified : MaybeNat, etag : Etags]

FreshnessAssumption ==
    /\ {DefaultTtl, NegativeTtl, HeuristicPercent, HeuristicMax, Grace, MaxSaid} \subseteq Nat
    /\ Start \in Nat /\ MaxNow \in Nat /\ Start <= MaxNow
    /\ \A s \in Sayings : s.head \in Heads /\ s.lines \in Nat
    /\ None \notin Nat /\ None \notin {"HIT", "STALE", "REFRESHING", "REVALIDATED"}

VARIABLES
    now,
    entry,      \* what is stored: [head, status, stored, expires, validators], None if nothing
    served,     \* ghost: label of the answer that came out of the cache just now, or None
    word,       \* ghost: what the origin has said of the entry, see Heard
    left        \* lines that heads may still have

vars == <<now, entry, served, word, left>>

Max2(a, b) == IF a > b THEN a ELSE b
Min2(a, b) == IF a < b THEN a ELSE b
Minus(a, b) == Max2(a - b, 0)       \* saturating_sub

\* What a head says.  forbids: no-store or private; an expires of 0 also stands for one that cannot
\* be read, a max_age of 0 for one without a number (`directive').
Silent == [forbids |-> FALSE, cookie |-> FALSE, public |-> FALSE, no_cache |-> FALSE, must |-> FALSE,
           s_maxage |-> None, max_age |-> None, expires |-> None, date |-> None, age |-> 0,
           modified |-> None, etag |-> None]

HasCacheControl(h) ==
    h.forbids \/ h.public \/ h.no_cache \/ h.must \/ h.s_maxage # None \/ h.max_age # None

-----------------------------------------------------------------------------

Explicit(h) ==
    IF h.s_maxage # None THEN h.s_maxage
    ELSE IF h.max_age # None THEN h.max_age
    ELSE IF h.expires # None THEN Minus(h.expires, IF h.date = None THEN now ELSE h.date)
    ELSE None

HeuristicTtl(h) ==
    LET ceiling == Max2(HeuristicMax, DefaultTtl)
        ttl == (Minus(now, h.modified) * HeuristicPercent) \div 100
    IN  IF h.modified = None \/ HeuristicPercent = 0 THEN DefaultTtl
        ELSE Max2(DefaultTtl, IF ttl > ceiling THEN ceiling ELSE ttl)

Ttl(status, h) ==
    IF h.no_cache THEN 0
    ELSE IF Explicit(h) # None THEN Explicit(h)
    ELSE IF status = "negative" THEN Min2(HeuristicTtl(h), NegativeTtl) ELSE HeuristicTtl(h)

Age(h) == IF h.date = None THEN h.age ELSE Max2(h.age, Minus(now, h.date))

Validators(h) == h.etag # None \/ h.modified # None

\* response_policy_lines: None, or how long from when.
Policy_AnyCookie(status, h, request_cookie) ==      \* a variant: whoever asked does not matter
    IF h.cookie \/ h.forbids \/ (Ttl(status, h) = 0 /\ ~ Validators(h)) THEN None
    ELSE [ttl |-> Ttl(status, h), age |-> Age(h)]

Policy(status, h, request_cookie) ==
    IF \/ h.cookie \/ h.forbids
       \/ request_cookie /\ Explicit(h) = None /\ ~ h.public
       \/ Ttl(status, h) = 0 /\ ~ Validators(h)
    THEN None ELSE [ttl |-> Ttl(status, h), age |-> Age(h)]

\* Meta::fresh_for.
FreshFor_Anew(p) == [stored |-> now, expires |-> now + p.ttl]   \* a variant: the age is forgotten
FreshFor(p) == [stored |-> Minus(now, p.age), expires |-> now + Minus(p.ttl, p.age)]

Entry(status, h, p) ==
    [head |-> [h EXCEPT !.age = 0], status |-> status, stored |-> FreshFor(p).stored,
     expires |-> FreshFor(p).expires, validators |-> Validators(h)]

\* merge_not_modified: a line of the 304 takes the place of the stored ones of its name.
Merged(old, h) ==
    LET lines == IF HasCacheControl(h) THEN h ELSE old IN
    [Silent EXCEPT !.forbids = lines.forbids, !.public = lines.public, !.no_cache = lines.no_cache,
        !.must = lines.must, !.s_maxage = lines.s_maxage, !.max_age = lines.max_age,
        !.expires = IF h.expires # None THEN h.expires ELSE old.expires,
        !.date = IF h.date # None THEN h.date ELSE old.date,
        !.modified = IF h.modified # None THEN h.modified ELSE old.modified,
        !.etag = IF h.etag # None THEN h.etag ELSE old.etag]

\* What revalidated_policy looks at: how long it lasts comes from the 304 if that says so.
Filled_Never(old, h) ==     \* a variant: the 304 speaks for itself
    [h EXCEPT !.cookie = FALSE]

Filled(old, h) ==
    LET silent == ~ HasCacheControl(h) /\ h.expires = None
        lines == IF silent THEN old ELSE h
    IN  [lines EXCEPT !.cookie = FALSE, !.age = h.age,
            !.date = IF silent /\ h.date = None THEN old.date ELSE h.date,
            !.modified = IF h.modified # None THEN h.modified ELSE old.modified,
            !.etag = IF h.etag # None THEN h.etag ELSE old.etag]

Revalidated(old, h) ==
    LET p == Policy("found", Filled(old, h), FALSE)
    IN  IF p # None THEN p ELSE [ttl |-> 0, age |-> 0]

\* not_modified_conflicts: the 304 is about another representation.
Conflicts(old, h) ==
    IF h.etag # None /\ old.etag # None THEN h.etag # old.etag
    ELSE h.modified # None /\ old.modified # None /\ h.modified # old.modified

\* not_modified_selects: the 304 to a condition of the client is about this one.
Selects(old, h) ==
    IF h.etag # None THEN h.etag = old.etag ELSE h.modified # None /\ h.modified = old.modified

\* CachedHead::may_serve_stale.
MayServeStale(h) == ~ h.must /\ ~ h.no_cache /\ h.s_maxage = None

-----------------------------------------------------------------------------

Nothing == [status |-> None, flags |-> Silent, life |-> 0, base |-> 0, extended |-> FALSE, private |-> FALSE]

Init ==
    /\ now = Start /\ entry = None /\ served = None /\ word = Nothing /\ left = MaxSaid

Tick ==
    /\ now < MaxNow /\ now' = now + 1 /\ served' = None
    /\ UNCHANGED <<entry, word, left>>

\* Ghost: what the origin has said so far: the last Cache-Control, the time it gives the entry at
\* most, from when that runs, whether an Expires alone came after the Cache-Control, and whether
\* the answer may be for one client alone: asked for with a Cookie, with no word on who may have it.
Longest(status, h) ==
    IF Explicit(h) # None THEN Explicit(h)
    ELSE IF status = "negative" THEN NegativeTtl
    ELSE IF h.modified = None THEN DefaultTtl ELSE Max2(DefaultTtl, HeuristicMax)

Heard(status, h, cookie) ==
    [status |-> status, flags |-> h, life |-> Longest(status, h), base |-> now - Age(h), extended |-> FALSE,
     private |-> cookie /\ ~ h.public /\ {h.s_maxage, h.max_age, h.expires} = {None}]

HeardAgain(h) ==
    LET speaks == HasCacheControl(h) \/ h.expires # None
        lines == IF speaks THEN h ELSE [word.flags EXCEPT !.expires = entry.head.expires]
        known == [lines EXCEPT !.modified = IF h.modified # None THEN h.modified ELSE entry.head.modified,
                               !.date = IF h.date # None THEN h.date ELSE entry.head.date]
    IN  [status |-> "found",
         flags |-> IF HasCacheControl(h) THEN h ELSE word.flags,
         life |-> Longest("found", IF speaks THEN [known EXCEPT !.date = h.date] ELSE known),
         base |-> now - Age(h),
         extended |-> IF HasCacheControl(h) THEN FALSE ELSE word.extended \/ h.expires # None,
         private |-> word.private]

Affordable == {s \in Sayings : s.lines < left}

\* An answer with a body (storage_plan, revalidate): it takes the place of what is stored, or puts an
\* end to it, unless it is an error.
Answer ==
    \E s \in Affordable, etag \in {None, "e"}, status \in {"found", "negative"},
       asks \in {"plain", "cookie"} \cup (IF entry = None THEN {} ELSE {"background"}) :
        LET h == [s.head EXCEPT !.etag = etag]
            cookie == asks = "cookie"
            background == asks = "background"
            p == Policy(status, h, cookie) IN
        /\ s.head.etag = None /\ left' = left - s.lines - 1
        /\ IF p # None THEN entry' = Entry(status, h, p) /\ word' = Heard(status, h, cookie)
           ELSE IF background \/ status = "found" THEN entry' = None /\ word' = Nothing
           ELSE UNCHANGED <<entry, word>>
        /\ served' = None /\ UNCHANGED now

NotModified_KeepsForbidden ==   \* a variant: whatever the 304 says the entry lives on
    /\ entry # None /\ entry.validators
    /\ \E s \in Affordable :
        LET h == s.head IN
        /\ left' = left - s.lines - 1 /\ ~ Conflicts(entry.head, h)
        /\ entry' = [entry EXCEPT !.head = Merged(entry.head, h),
                           !.stored = FreshFor(Revalidated(entry.head, h)).stored,
                           !.expires = FreshFor(Revalidated(entry.head, h)).expires]
        /\ word' = HeardAgain(h)
        /\ served' = "REVALIDATED"
    /\ UNCHANGED now

\* A 304 to a condition of the cache (serve_revalidated, apply_not_modified): it lengthens the life of
\* the entry, unless it is about another one or forbids to store it.
NotModified ==
    /\ entry # None /\ entry.validators
    /\ \E s \in Affordable, background \in BOOLEAN :
        LET h == s.head IN
        /\ left' = left - s.lines - 1
        /\ IF Conflicts(entry.head, h)
           THEN /\ background      \* otherwise it is asked for once more, without a condition
                /\ entry' = None /\ word' = Nothing /\ served' = None
           ELSE LET meta == FreshFor(Revalidated(entry.head, h)) IN
                /\ served' = IF background THEN None ELSE "REVALIDATED"
                /\ IF h.forbids THEN entry' = None /\ word' = Nothing
                   ELSE /\ entry' = [entry EXCEPT !.head = Merged(entry.head, h),
                                           !.stored = meta.stored, !.expires = meta.expires]
                        /\ word' = HeardAgain(h)
    /\ UNCHANGED now

\* A 304 to a condition of the client (refresh_for_client_conditional).
ClientNotModified ==
    /\ entry # None /\ entry.validators
    /\ \E s \in Affordable :
        LET h == s.head
            meta == FreshFor(Revalidated(entry.head, h)) IN
        /\ left' = left - s.lines - 1 /\ Selects(entry.head, h)
        /\ IF h.forbids THEN entry' = None /\ word' = Nothing
           ELSE /\ entry' = [entry EXCEPT !.head = Merged(entry.head, h),
                                   !.stored = meta.stored, !.expires = meta.expires]
                /\ word' = HeardAgain(h)
    /\ served' = None /\ UNCHANGED now

\* consult: a fresh entry is the answer; force is no-cache, max-age or min-fresh of the request.
Hit ==
    /\ entry # None /\ entry.expires > now
    /\ served' = "HIT" /\ UNCHANGED <<now, entry, word, left>>

\* grace_for, try_refreshing: an old one is, while it is fetched anew.  A stale-while-revalidate of
\* any length may stand in its Cache-Control; what it says is not kept.
Refreshing ==
    /\ entry # None /\ entry.expires <= now
    /\ entry.validators /\ MayServeStale(entry.head)
    /\ \/ entry.expires > entry.stored /\ Grace > 0 /\ now - entry.expires <= Grace
       \/ HasCacheControl(entry.head)
    /\ served' = "REFRESHING" /\ UNCHANGED <<now, entry, word, left>>

\* The origin cannot be reached or answers 5xx (can_serve_stale).
Stale_Always ==     \* a variant: something old is better than nothing
    /\ entry # None /\ served' = "STALE" /\ UNCHANGED <<now, entry, word, left>>

Stale ==
    /\ entry # None /\ MayServeStale(entry.head)
    /\ served' = "STALE" /\ UNCHANGED <<now, entry, word, left>>

Next == Tick \/ Answer \/ NotModified \/ ClientNotModified \/ Hit \/ Refreshing \/ Stale

Spec == Init /\ [][Next]_vars

-----------------------------------------------------------------------------
(* Properties.                                                             *)

\* What is given as fresh has not outlived what the origin gave it when it last spoke of it, the time
\* it spent in other caches and on its way included; and it is never given so against a no-cache,
\* unless an Expires came after that (`revalidated_policy': "304 が明示的に延ばさない限り TTL 0 のまま").
HitIsVouched ==
    served = "HIT" =>
        /\ now - word.base < word.life
        /\ ~ word.flags.no_cache \/ word.extended

\* What is old is given only as long as the last Cache-Control of the origin lets it, however many
\* 304s without one came after it (`may_serve_stale').
StaleIsLetAlone ==
    served \in {"STALE", "REFRESHING"} => ~ word.flags.must /\ ~ word.flags.no_cache /\ word.flags.s_maxage = None

\* Nothing is kept that the origin forbids to keep, neither in its answer nor in a later 304, that
\* may be meant for one client, or with the Set-Cookie of one.
KeptIsAllowed == entry # None => ~ word.flags.forbids /\ ~ word.private /\ ~ entry.head.cookie

\* The inductive invariant.  What is stored says the same as the last Cache-Control of the origin, may
\* be kept, and is over, or not for longer than the origin gave it.
Entries == [head : Heads, status : {"found", "negative"}, stored : Nat, expires : Nat, validators : BOOLEAN]
Words == [status : {"found", "negative"}, flags : Heads, life : Nat, base : Int, extended : BOOLEAN,
          private : BOOLEAN]

SaysTheSame ==
    /\ entry.head.forbids = word.flags.forbids /\ entry.head.public = word.flags.public
    /\ entry.head.no_cache = word.flags.no_cache /\ entry.head.must = word.flags.must
    /\ entry.head.s_maxage = word.flags.s_maxage /\ entry.head.max_age = word.flags.max_age

LivesAsLong ==
    \/ entry.expires <= now
    \/ entry.expires <= word.base + word.life /\ (~ word.flags.no_cache \/ word.extended)

FreshnessInv ==
    /\ now \in Nat
    /\ entry # None =>
          /\ entry \in Entries /\ word \in Words
          /\ SaysTheSame /\ LivesAsLong
          /\ ~ entry.head.forbids /\ ~ entry.head.cookie /\ ~ word.private
    /\ HitIsVouched /\ StaleIsLetAlone
=============================================================================
