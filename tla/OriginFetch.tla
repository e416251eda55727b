---------------------------- MODULE OriginFetch ----------------------------
(***************************************************************************)
(* How one request is carried to the origin: fetch, send_request, judge    *)
(* and connect_failed (crates/http/src/http/fetch.rs), acquire_origin      *)
(* (upstream.rs) and the first decisions about the answer (reply.rs).      *)
(*                                                                         *)
(* The origin may close any connection at any time: between the look at a  *)
(* pooled connection and its first use, and after it has acted on the      *)
(* request.  The handler cannot tell the two apart, so what it may do      *)
(* again depends on the request and on what the client has seen.           *)
(***************************************************************************)
EXTENDS Integers, Sequences, FiniteSets

CONSTANTS
    Conns,       \* connections to the origin; a closed one comes again
    None

VARIABLES
    req,         \* the request: safe (GET or HEAD), body, expect (100-continue), http11, force (no-cache)
    stale,       \* CacheState.stale: "none", "usable" or "barred" (must-revalidate)
    stored,      \* the cache has the entry
    pool,        \* idle connections to the origin
    closed,      \* connections the origin has closed or written late bytes to
    pc, attempt, server, reused, interim_sent, body_cut, result,
    send_continue,
    conditional, \* the request head carries the validators of the entry
    unread,      \* part of the client's body has not been read
    keep,        \* the client's connection goes on to its next request
    \* What happened, as the two sides see it.
    tries,       \* connections the request went to
    acted,       \* times the origin had the whole request
    refetched,   \* a 304 was about another representation
    interims,    \* tries a 1xx of which reached the client
    out          \* answers to the client

connection == <<attempt, server, reused>>
sending == <<send_continue, body_cut, unread>>
cache == <<stale, stored, conditional>>
history == <<tries, acted, refetched, interims, out>>
vars == <<req, cache, pool, closed, pc, connection, interim_sent, result, sending, keep, history>>

\* 2xx and the like, 5xx, 408 or 421, the 304 of the entry and that of another.
Status == {"ok", "bad", "again", "same", "other"}
\* is_stale_conn_error, a timeout, ClientBodyError, the client is gone.
Error == {"dead", "timeout", "body", "client"}
ASSUME NoneAssumption == None \notin Conns \cup Status \cup Error

Answer == {"100", "response", "stale", "revalidated", "400", "502"}

RequestTypes ==
    /\ req \in [safe : BOOLEAN, body : BOOLEAN, expect : BOOLEAN, http11 : BOOLEAN, force : BOOLEAN]
    /\ stale \in {"none", "usable", "barred"} /\ stored \in BOOLEAN /\ conditional \in BOOLEAN
    /\ pool \subseteq Conns /\ closed \subseteq Conns

HandlerTypes ==
    /\ pc \in {"acquire", "send", "read", "judge", "examine", "done"}
    /\ attempt \in 0..2 /\ server \in Conns \cup {None} /\ reused \in BOOLEAN
    /\ interim_sent \in BOOLEAN /\ result \in Status \cup Error \cup {None}

BodyTypes ==
    /\ send_continue \in BOOLEAN /\ body_cut \in BOOLEAN /\ unread \in BOOLEAN
    /\ keep \in BOOLEAN

HistoryTypes ==
    /\ tries \in Nat /\ acted \in Nat /\ refetched \in BOOLEAN
    /\ interims \subseteq Nat /\ out \in Seq(Answer)

TypeOK == RequestTypes /\ HandlerTypes /\ BodyTypes /\ HistoryTypes

\* retryable: GET or HEAD, without a body.  Nothing else looks into the cache.
Repeatable == req.safe /\ ~req.body

Init ==
    /\ req \in [safe : BOOLEAN, body : BOOLEAN, expect : BOOLEAN, http11 : BOOLEAN, force : BOOLEAN]
    /\ req.expect => req.body /\ req.http11
    /\ stale \in IF Repeatable THEN {"none", "usable", "barred"} ELSE {"none"}
    /\ stored = (stale # "none") /\ conditional = (stale # "none")
    /\ pool \in SUBSET Conns /\ closed = {}
    /\ pc = "acquire" /\ attempt = 0 /\ server = None /\ reused = FALSE /\ result = None
    /\ interim_sent = FALSE /\ send_continue = req.expect /\ body_cut = FALSE
    /\ unread = req.body /\ keep = FALSE
    /\ tries = 0 /\ acted = 0 /\ refetched = FALSE /\ interims = {} /\ out = <<>>

-----------------------------------------------------------------------------
\* A connection.

\* The request is over.
End(answer, goesOn) ==
    /\ pc' = "done" /\ out' = Append(out, answer) /\ keep' = goesOn

\* can_serve_stale, unless the client asked for a fresh answer.
MayServe == stale = "usable" /\ ~req.force

\* Variant: an entry that has to be revalidated is served all the same.
Fallback_Always ==
    \/ stale = "usable" /\ \E goesOn \in BOOLEAN : End("stale", goesOn)
    \/ stale # "usable" /\ End("502", FALSE)

\* A failure: the stale entry if that may be served, or else an error.
Fallback ==
    \/ MayServe /\ \E goesOn \in BOOLEAN : End("stale", goesOn)
    \/ ~MayServe /\ End("502", FALSE)

Take(c, fromPool) ==
    /\ server' = c /\ reused' = fromPool /\ attempt' = attempt + 1
    /\ tries' = tries + 1 /\ pc' = "send"

\* pool.get: what it can see to be closed is thrown away.
Reuse ==
    /\ pc = "acquire"
    /\ \E c \in pool \ closed : Take(c, TRUE) /\ pool' = (pool \ closed) \ {c}
    /\ UNCHANGED <<req, cache, closed, interim_sent, result, sending, keep,
                   acted, refetched, interims, out>>

Dial ==
    /\ pc = "acquire" /\ pool \subseteq closed
    /\ \E c \in Conns \ {server} : Take(c, FALSE) /\ closed' = closed \ {c}
    /\ pool' = {}
    /\ UNCHANGED <<req, cache, interim_sent, result, sending, keep,
                   acted, refetched, interims, out>>

\* Variant: the handler goes on after it has answered for an origin it cannot
\* reach.
ConnectFailed_GoesOn ==
    /\ pc = "acquire" /\ pool \subseteq closed
    /\ pool' = {} /\ attempt' = attempt + 1
    /\ out' = Append(out, IF MayServe THEN "stale" ELSE "502")
    /\ UNCHANGED <<pc, keep, req, cache, closed, server, reused, interim_sent, result, sending,
                   tries, acted, refetched, interims>>

\* Nothing pooled, and no new connection: 502, or 504 if it was the name.
ConnectFailed ==
    /\ pc = "acquire" /\ pool \subseteq closed
    /\ pool' = {} /\ attempt' = attempt + 1
    /\ Fallback
    /\ UNCHANGED <<req, cache, closed, server, reused, interim_sent, result, sending,
                   tries, acted, refetched, interims>>

-----------------------------------------------------------------------------
\* The request.

\* The head is written: 100 Continue goes out, once.
Continue ==
    /\ send_continue' = FALSE
    /\ out' = IF send_continue THEN Append(out, "100") ELSE out

\* The origin gets all of the request.
Send ==
    /\ pc = "send" /\ server \notin closed
    /\ Continue /\ acted' = acted + 1 /\ unread' = FALSE
    /\ pc' = "read"
    /\ UNCHANGED <<req, cache, pool, closed, connection, interim_sent, result, body_cut, keep,
                   tries, refetched, interims>>

\* The writes go into the socket of a connection that is closed.
SendUnseen ==
    /\ pc = "send" /\ server \in closed
    /\ Continue /\ unread' = FALSE
    /\ pc' = "read"
    /\ UNCHANGED <<req, cache, pool, closed, connection, interim_sent, result, body_cut, keep,
                   tries, acted, refetched, interims>>

\* The body cannot be written any more (EPIPE, ECONNRESET), or all of it may
\* not even have been asked for: the origin may have answered before.
SendCut ==
    /\ pc = "send" /\ server \in closed /\ req.body
    /\ \/ Continue
       \/ UNCHANGED <<send_continue, out>>
    /\ body_cut' = TRUE /\ pc' = "read"
    /\ UNCHANGED <<req, cache, pool, closed, connection, interim_sent, result, unread, keep,
                   tries, acted, refetched, interims>>

\* The writes fail: without a body, because the connection is closed; with one,
\* because the client's body is broken or the origin does not take it in time.
SendFails ==
    /\ pc = "send"
    /\ IF req.body
       THEN Continue /\ result' \in {"body", "timeout"}
       ELSE server \in closed /\ result' = "dead" /\ UNCHANGED <<send_continue, out>>
    /\ pc' = "judge"
    /\ UNCHANGED <<req, cache, pool, closed, connection, interim_sent, body_cut, unread, keep,
                   tries, acted, refetched, interims>>

\* The client does not take the 100 Continue.
ContinueFails ==
    /\ pc = "send" /\ send_continue
    /\ pc' = "done" /\ result' = "client" /\ send_continue' = FALSE
    /\ UNCHANGED <<req, cache, pool, closed, connection, interim_sent, body_cut, unread, keep,
                   history>>

-----------------------------------------------------------------------------
\* The answer.

\* A 1xx goes to a client of HTTP/1.1 at once; one of a try stands for many.
\* If it cannot be written, that ends the reading.
Interim ==
    /\ pc = "read" /\ req.http11 /\ tries \notin interims
    /\ interim_sent' = TRUE
    /\ \/ interims' = interims \cup {tries} /\ UNCHANGED <<pc, result>>
       \/ pc' = "judge" /\ result' = "client" /\ UNCHANGED interims
    /\ UNCHANGED <<req, cache, pool, closed, connection, sending, keep,
                   tries, acted, refetched, out>>

\* The head of the answer, which a closed connection may still hold, or
\* rubbish, or nothing.
Read ==
    /\ pc = "read"
    /\ result' \in {"ok", "bad", "again", "dead"}
                   \cup (IF conditional THEN {"same", "other"} ELSE {})
                   \cup (IF server \in closed THEN {} ELSE {"timeout"})
    /\ pc' = "judge"
    /\ UNCHANGED <<req, cache, pool, closed, connection, interim_sent, sending, keep, history>>

\* Variant: whatever the request is, it is repeated.
Again_AnyRequest == reused /\ ~interim_sent /\ attempt = 1

\* Variant: what the client has seen is not looked at.
Again_AfterInterim == reused /\ Repeatable /\ attempt = 1

\* Variant: the attempts are not counted.
Again_Uncounted == reused /\ Repeatable /\ ~interim_sent

\* Once more only for GET and HEAD without a body, on a reused connection, the
\* first time, when the client has seen no 1xx.
Again == reused /\ Repeatable /\ ~interim_sent /\ attempt = 1

\* Drop the connection and acquire another.
Retry ==
    /\ pc = "judge" /\ Again /\ result \in {"again", "dead"}
    /\ pc' = "acquire" /\ result' = None
    /\ UNCHANGED <<req, cache, pool, closed, connection, interim_sent, sending, keep, history>>

\* The 304 is about another representation: the entry is removed, and the
\* request sent again without conditions.
Refetch ==
    /\ pc = "judge" /\ result = "other"
    /\ pc' = "acquire" /\ attempt' = 0 /\ result' = None
    /\ stale' = "none" /\ stored' = FALSE /\ conditional' = FALSE /\ refetched' = TRUE
    /\ UNCHANGED <<req, pool, closed, server, reused, interim_sent, sending, keep, tries, acted,
                   interims, out>>

Use ==
    /\ pc = "judge" /\ result \in Status \ {"other"}
    /\ ~(Again /\ result = "again")
    /\ pc' = "examine"
    /\ UNCHANGED <<req, cache, pool, closed, connection, interim_sent, result, sending, keep,
                   history>>

\* No answer: 400 for a body that could not be read, or the entry, or an error.
\* What is written to a client that is gone is not an answer.
Fail ==
    /\ pc = "judge" /\ result \in Error /\ ~(Again /\ result = "dead")
    /\ \/ result = "body" /\ End("400", FALSE)
       \/ result = "client" /\ pc' = "done" /\ UNCHANGED <<out, keep>>
       \/ result \in {"dead", "timeout"} /\ Fallback
    /\ UNCHANGED <<req, cache, pool, closed, connection, interim_sent, result, sending,
                   tries, acted, refetched, interims>>

\* Variant: the answer to a body that was cut leaves the connection open.
Examine_IgnoresCut ==
    /\ pc = "examine"
    /\ \/ End("502", FALSE)
       \/ \E goesOn \in BOOLEAN :
            \/ result = "same" /\ End("revalidated", goesOn)
            \/ result = "bad" /\ MayServe /\ End("stale", goesOn)
            \/ result # "same" /\ ~(result = "bad" /\ MayServe) /\ End("response", goesOn)
    /\ UNCHANGED <<req, cache, pool, closed, connection, interim_sent, result, sending,
                   tries, acted, refetched, interims>>

\* examine_head: 502 for a length that cannot be read or a 101 nobody asked for;
\* a 304 renews the entry, a server error is covered up with it; a body that
\* was cut ends the connection.
Examine ==
    /\ pc = "examine"
    /\ \/ End("502", FALSE)
       \/ \E goesOn \in IF body_cut THEN {FALSE} ELSE BOOLEAN :
            \/ result = "same" /\ End("revalidated", goesOn)
            \/ result = "bad" /\ MayServe /\ End("stale", goesOn)
            \/ result # "same" /\ ~(result = "bad" /\ MayServe) /\ End("response", goesOn)
    /\ UNCHANGED <<req, cache, pool, closed, connection, interim_sent, result, sending,
                   tries, acted, refetched, interims>>

-----------------------------------------------------------------------------
\* The origin closes connections.
Close ==
    /\ pc # "done"
    /\ \E c \in (pool \cup {server}) \ (closed \cup {None}) : closed' = closed \cup {c}
    /\ UNCHANGED <<req, cache, pool, pc, connection, interim_sent, result, sending, keep, history>>

\* Other requests give connections back.
PutBack ==
    /\ pc # "done"
    /\ \E c \in Conns \ (pool \cup {server}) : pool' = pool \cup {c} /\ closed' = closed \ {c}
    /\ UNCHANGED <<req, cache, pc, connection, interim_sent, result, sending, keep, history>>

Over == pc = "done" /\ UNCHANGED vars

Next ==
    \/ Reuse \/ Dial \/ ConnectFailed
    \/ Send \/ SendUnseen \/ SendCut \/ SendFails \/ ContinueFails
    \/ Interim \/ Read \/ Retry \/ Refetch \/ Use \/ Fail \/ Examine
    \/ Close \/ PutBack \/ Over

Spec == Init /\ [][Next]_vars

-----------------------------------------------------------------------------
Final == {i \in DOMAIN out : out[i] # "100"}

\* A request with a body, and one that is neither GET nor HEAD, reaches the
\* origin at most once, whatever fails (upstream.rs:182: repeating what may have
\* arrived would send it twice).
ActedOnOnce == Repeatable \/ acted <= 1

\* The request goes to at most two connections, and once more to at most two
\* when the entry turned out to be about something else.
TriesBounded == tries <= IF refetched THEN 4 ELSE 2

\* A 1xx is passed on from one try only: a retry never repeats it to a client
\* that has begun to read an answer.
InterimFromOneTry == refetched \/ Cardinality(interims) <= 1

\* The client gets exactly one answer, after at most one 100 Continue, unless it
\* has gone away.
OneAnswer ==
    /\ Cardinality(Final) <= 1 /\ Cardinality(DOMAIN out \ Final) <= 1
    /\ \A i \in Final : i = Len(out)
    /\ pc = "done" => result = "client" \/ Final # {}

\* The stale entry is served only if it may be, and never once a 304 has shown
\* that it is out of date; then it is gone from the cache as well.
StaleIsAllowed ==
    /\ \A i \in Final : out[i] = "stale" => stale = "usable" /\ ~req.force /\ stored
    /\ refetched => ~stored /\ \A i \in Final : out[i] \notin {"stale", "revalidated"}

\* What the client gets is one answer, and one that it may be given.
AnswerAllowed == OneAnswer /\ StaleIsAllowed

\* The client's connection goes on only if all of the body has been read: its
\* next bytes are those of the next request.
NextRequestAligned == keep => ~unread

=============================================================================
