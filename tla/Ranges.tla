------------------------------- MODULE Ranges -------------------------------
(***************************************************************************)
(* A part of a stored answer for a client that asks for one, or none of it *)
(* for a client that has it (crates/http/src/http/serve.rs and             *)
(* crates/msg/src/body/range.rs), and a client that puts what it gets      *)
(* together, while the origin publishes anew and the cache follows.        *)
(*                                                                         *)
(* A representation is told by its place in versions.  Its bytes carry     *)
(* that place, so that what is put together shows where it is from.        *)
(***************************************************************************)
EXTENDS Integers, Sequences

CONSTANTS
    MaxLen, MaxVersions, MaxGets,   \* bounds
    None

VARIABLES
    versions,   \* what the origin has published, the newest last
    entry,      \* what is stored: a place in versions, or 0
    copy,       \* the client's copy: of what it is, its bytes, how they were joined
    reply,      \* the last answer
    left        \* requests left

vars == <<versions, entry, copy, reply, left>>

RangesAssumption == MaxLen \in Nat \ {0} /\ {MaxVersions, MaxGets} \subseteq Nat

Versions == [len : 0..MaxLen, modified : 0..MaxVersions, tag : {"strong", "weak", "none"}]

Smaller(a, b) == IF a < b THEN a ELSE b
\* saturating_sub.
Minus(a, b) == IF a < b THEN 0 ELSE a - b

NoCopy == [of |-> 0, bytes |-> <<>>, by |-> "tag"]

Init ==
    /\ versions \in {<<v>> : v \in {w \in Versions : w.modified = 1}}
    /\ entry = 0 /\ copy = NoCopy /\ reply = None /\ left = MaxGets
-----------------------------------------------------------------------------
(* What a client may ask for: bytes=a-b, bytes=a-, bytes=-n, or something  *)
(* that is no range of one part.                                           *)
Specs ==
    [kind : {"from"}, a : 0..MaxLen, b : (0..MaxLen) \cup {None}]
        \cup [kind : {"last"}, n : 0..MaxLen + 1] \cup {[kind |-> "other"]}

Part(first, last, total) ==
    IF total = 0 \/ first >= total THEN [is |-> "unsatisfiable"]
    ELSE [is |-> "bytes", first |-> first, last |-> last]

\* Not a range of one part, or one that ends before it begins.
Malformed(s) == s.kind = "other" \/ (s.kind = "from" /\ s.b # None /\ s.b < s.a)

\* Mutant: the end is what the client says.
ParseRange_NotCut(s, total) ==
    CASE Malformed(s) -> [is |-> "ignore"]
      [] s.kind = "last" -> IF s.n = 0 THEN [is |-> "unsatisfiable"]
                            ELSE Part(Minus(total, s.n), Minus(total, 1), total)
      [] OTHER -> Part(s.a, IF s.b = None THEN Minus(total, 1) ELSE s.b, total)

\* parse_range.
ParseRange(s, total) ==
    CASE Malformed(s) -> [is |-> "ignore"]
      [] s.kind = "last" -> IF s.n = 0 THEN [is |-> "unsatisfiable"]
                            ELSE Part(Minus(total, s.n), Minus(total, 1), total)
      [] OTHER -> Part(s.a, IF s.b = None THEN Minus(total, 1)
                            ELSE Smaller(s.b, Minus(total, 1)), total)

(* What names a version: its tag, if it has one, and the second of it.  A  *)
(* weak tag names all versions that are alike, so all of them here.        *)
TagOf(v) == [by |-> versions[v].tag, is |-> IF versions[v].tag = "weak" THEN 0 ELSE v]
DateOf(v) == [by |-> "date", is |-> versions[v].modified]

Names(v) == {DateOf(v)} \cup (IF versions[v].tag = "none" THEN {} ELSE {TagOf(v)})

\* Mutant: a weak tag is good enough to join bytes.
IfRangeMatches_Weakly(cond, v) ==
    CASE cond = None -> TRUE
      [] cond # None /\ cond.by \in {"strong", "weak"} -> cond = TagOf(v)
      [] OTHER -> cond.is = versions[v].modified

\* if_range_matches: a strong tag, or the date; a weak tag never.
IfRangeMatches(cond, v) ==
    CASE cond = None -> TRUE
      [] cond # None /\ cond.by = "strong" -> cond = TagOf(v)
      [] cond # None /\ cond.by = "weak" -> FALSE
      [] OTHER -> cond.is = versions[v].modified

\* Mutant: the date is asked when the tag says no.
ClientNotModified_EitherWay(names, v) ==
    \E n \in names : n = TagOf(v) \/ (n.by = "date" /\ versions[v].modified <= n.is)

\* client_not_modified: the tags, compared weakly, or else the dates.
ClientNotModified(names, v) ==
    IF \E n \in names : n.by # "date" THEN TagOf(v) \in names
    ELSE \E n \in names : n.by = "date" /\ versions[v].modified <= n.is

\* range_plan: what is sent of version v, whose body has total bytes.
Plan(range, total) ==
    CASE range.is = "bytes" ->
           [status |-> 206, start |-> range.first, len |-> range.last - range.first + 1]
      [] range.is = "unsatisfiable" -> [status |-> 416, start |-> 0, len |-> 0]
      [] OTHER -> [status |-> 200, start |-> 0, len |-> total]

\* memory_range, into_body_range: what there is of so many bytes from start on.
BodyRange(v, start, len) == Smaller(len, Minus(versions[v].len, start))

\* write_cached_response: of a head alone nothing follows.
WriteCachedResponse(v, range, head) ==
    LET plan == Plan(range, versions[v].len)
    IN  [status |-> plan.status, of |-> v, start |-> plan.start,
         promised |-> IF head THEN 0 ELSE plan.len,
         sent |-> IF head THEN 0 ELSE BodyRange(v, plan.start, plan.len)]

WriteNotModified(v) == [status |-> 304, of |-> v, start |-> 0, promised |-> 0, sent |-> 0]

\* serve_cached: names are If-None-Match and If-Modified-Since, cond is If-Range.
ServeCached(v, asked, cond, names, head) ==
    IF ClientNotModified(names, v) THEN WriteNotModified(v)
    ELSE WriteCachedResponse(v, IF asked # None /\ ~head /\ IfRangeMatches(cond, v)
                                THEN ParseRange(asked, versions[v].len) ELSE [is |-> "ignore"], head)
-----------------------------------------------------------------------------
(* The client keeps a copy and asks for what it lacks.                     *)

\* A 206 is joined to the copy it was asked for; a 200 takes its place.
Joined(c, r, cond) ==
    CASE r.status = 206 /\ c.of # 0 /\ cond # None ->
           [of |-> c.of, by |-> IF cond.by = "date" THEN "date" ELSE c.by,
            bytes |-> [p \in DOMAIN c.bytes \cup {r.start + i : i \in 0..r.sent - 1} |->
                          IF p \in DOMAIN c.bytes THEN c.bytes[p] ELSE r.of]]
      [] r.status = 206 /\ c.of = 0 ->
           [of |-> r.of, by |-> "tag", bytes |-> [p \in {r.start + i : i \in 0..r.sent - 1} |-> r.of]]
      [] r.status = 200 ->
           [of |-> r.of, by |-> "tag", bytes |-> [p \in 0..r.sent - 1 |-> r.of]]
      [] OTHER -> c

Get ==
    /\ entry # 0 /\ left > 0 /\ left' = left - 1
    /\ \E asked \in Specs \cup {None}, head \in BOOLEAN :
       \E cond \in {None} \cup (IF copy.of = 0 THEN {} ELSE Names(copy.of)),
          names \in IF copy.of = 0 THEN {{}} ELSE {{}, Names(copy.of)} :
        LET r == ServeCached(entry, asked, cond, names, head)
        IN  /\ reply' = [answer |-> r, had |-> copy.of]
            /\ copy' = IF head THEN copy ELSE Joined(copy, r, cond)
    /\ UNCHANGED <<versions, entry>>

\* The client begins anew.
Forget == copy.of # 0 /\ copy' = NoCopy /\ reply' = None /\ UNCHANGED <<versions, entry, left>>

Publish ==
    /\ Len(versions) < MaxVersions
    /\ LET last == versions[Len(versions)].modified IN
       \E v \in Versions :
          /\ v.modified \in {last, last + 1}
          /\ versions' = Append(versions, v)
    /\ reply' = None /\ UNCHANGED <<entry, copy, left>>

\* The cache stores what the origin has now, or loses it.
Store ==
    /\ entry' \in {0, Len(versions)} \ {entry} /\ reply' = None
    /\ UNCHANGED <<versions, copy, left>>

Next == Get \/ Forget \/ Publish \/ Store
Spec == Init /\ [][Next]_vars
-----------------------------------------------------------------------------
\* serve.rs, if_range_matches: what a client joins is of one version, or, when it
\* joined by date, of one second.
OfOneVersion ==
    \A p \in DOMAIN copy.bytes :
        \/ copy.bytes[p] = copy.of
        \/ /\ copy.by = "date"
           /\ versions[copy.bytes[p]].modified = versions[copy.of].modified

\* serve.rs, write_cached_response: as many bytes follow a head as its Content-Length says.
PromisedIsSent == reply # None => reply.answer.promised = reply.answer.sent

\* serve.rs, client_not_modified: a client with a tag is told that it has the stored version
\* only if it has; one with a date alone, if what it has is no older.
NotModifiedIsTrue ==
    reply # None /\ reply.answer.status = 304 =>
        \/ TagOf(reply.had) = TagOf(reply.answer.of)
        \/ /\ versions[reply.had].tag = "none"
           /\ versions[reply.answer.of].modified <= versions[reply.had].modified

-----------------------------------------------------------------------------
\* What the properties rest on: a copy and a reply are of what was published, and an empty copy
\* has no bytes.
PartsTyped ==
    /\ versions \in Seq(Versions) /\ Len(versions) >= 1
    /\ entry \in 0..Len(versions) /\ copy.of \in 0..Len(versions)
    /\ \A p \in DOMAIN copy.bytes : copy.bytes[p] \in 1..Len(versions) /\ copy.of # 0

\* What an answer says of version v.
Tells(r, v, cond, names) ==
    /\ r.of = v /\ r.promised = r.sent
    /\ r.status = 304 => ClientNotModified(names, v)
    /\ r.status = 206 => IfRangeMatches(cond, v)

PartsInv == PartsTyped /\ OfOneVersion /\ PromisedIsSent /\ NotModifiedIsTrue
=============================================================================
