------------------------------ MODULE Delivery -------------------------------
(***************************************************************************)
(* One answer of the origin on its way to the client: what is decided when *)
(* its head is there, the head and the body that go out, what is stored of *)
(* it meanwhile, and how the connections, the cache and the requests that  *)
(* wait for the same key are left.  The origin may end, hang or break its  *)
(* framing after any piece, and the client may go away.                    *)
(* Source: crates/http/src/http/deliver.rs.                                *)
(***************************************************************************)
EXTENDS Integers

CONSTANTS
    MaxBody,        \* bound of the pieces of a body
    Small,          \* COPY_BUF_SIZE: bodies up to it are read before the head goes out
    None

DeliveryAssumption ==
    /\ MaxBody \in Nat /\ Small \in Nat
    /\ None \notin {"none", "length", "chunked", "close", "502"}

VARIABLES
    r,              \* the answer and the request it is for, see Answers
    origin,         \* what the origin sends: [sends, ends]
    pc, read, clean,
    client,         \* what the client has: [head, bytes, last]
    sink,           \* StoreSink: "none", "open", "lost", "stored", "aborted"
    flight,         \* of the key: "none", "led", "stored", "not_stored"
    remembered,     \* remember_not_stored
    old, target,    \* the stored representation; that of the target of an unsafe method
    pooled, keep

vars == <<r, origin, pc, read, clean, client, sink, flight, remembered, old, target, pooled, keep>>
answer == <<r, origin>>
store == <<sink, flight, remembered, old, target>>

\* What reply and the lookup hand over (HeadFacts, CacheState).
Answers ==
    {a \in [framing : {"none", "length", "chunked", "close"}, total : 0 .. MaxBody,
            unframed : BOOLEAN,     \* Transfer-Encoding that does not end in chunked
            reusable : BOOLEAN, http11 : BOOLEAN, storable : BOOLEAN,
            led : BOOLEAN, stale : BOOLEAN, unsafe : BOOLEAN,
            status : {"full", "partial", "error"}] :
        /\ a.framing # "length" => a.total = 0
        /\ a.unframed => a.framing = "close" /\ a.http11 /\ ~ a.storable
        /\ a.framing = "close" => ~ a.reusable
        /\ a.unsafe => ~ a.storable /\ ~ a.stale /\ ~ a.led
        /\ a.led => ~ a.stale}

\* "end": the body ends as its framing says; "eof": too early, by a reset or a timeout, too;
\* "broken": a read fails in another way; "bad": the framing of chunks is broken.
Sent(a) ==
    {o \in [sends : 0 .. MaxBody, ends : {"end", "eof", "broken", "bad"}] :
        /\ a.framing = "none" => o.sends = 0 /\ o.ends = "end"
        /\ a.framing = "length" => \/ o.sends < a.total /\ o.ends \in {"eof", "broken"}
                                   \/ o.sends = a.total /\ o.ends = "end"
        /\ a.framing = "close" => o.ends # "bad"}

Init ==
    /\ r \in Answers /\ origin \in Sent(r)
    /\ pc = "plan" /\ read = 0 /\ clean = TRUE
    /\ client = [head |-> None, bytes |-> 0, last |-> FALSE]
    /\ sink = "none" /\ flight = (IF r.led THEN "led" ELSE "none")
    /\ remembered = FALSE /\ old = r.stale /\ target = r.unsafe
    /\ pooled = FALSE /\ keep \in BOOLEAN

-----------------------------------------------------------------------------

\* client_framing: a length stays, the rest becomes chunks for a client that knows them.
ClientFraming ==
    IF r.framing \in {"none", "length"} THEN r.framing
    ELSE IF r.unframed \/ ~ r.http11 THEN "close" ELSE "chunked"

ReadsFirst == r.framing = "length" /\ r.total <= Small

Good == r.status \in {"full", "partial"}

\* storage_plan, invalidate_targets, begin_store: a new representation that is not stored removes
\* the old one, an unsafe method that succeeded removes its target.
Plan ==
    /\ pc = "plan"
    /\ old' = (old /\ ~ (~ r.storable /\ r.stale /\ r.status = "full"))
    /\ target' = (target /\ ~ (r.unsafe /\ Good))
    /\ IF r.storable THEN sink' \in {"open", "lost"} ELSE sink' = "none"
    /\ keep' = (keep /\ ClientFraming # "close")
    /\ pc' = IF ReadsFirst THEN "early" ELSE "head"
    /\ UNCHANGED <<answer, read, clean, client, flight, remembered, pooled>>

\* What is left of the sink and of the guard is dropped.
Dropped ==
    /\ sink' = (IF sink \in {"open", "lost"} THEN "aborted" ELSE sink)
    /\ flight' = (IF flight = "led" THEN "not_stored" ELSE flight)
    /\ keep' = FALSE
    /\ UNCHANGED <<answer, remembered, old, target, pooled>>

\* StoreSink::write: the store may give up, which shows when it is finished.
Store == sink' = sink \/ (sink = "open" /\ sink' = "lost")

\* read_small_body_first: nothing has gone out yet, so a body that ends early becomes a 502.
ReadEarly ==
    /\ pc = "early"
    /\ IF read < origin.sends
       THEN /\ read' = read + 1
            /\ UNCHANGED <<answer, pc, clean, client, store, pooled, keep>>
       ELSE IF origin.ends = "end"
       THEN /\ pc' = "head" /\ Store
            /\ UNCHANGED <<answer, read, clean, client, flight, remembered, old, target, pooled, keep>>
       ELSE /\ Dropped
            /\ IF origin.ends = "eof" THEN pc' = "done" /\ client' = [client EXCEPT !.head = "502"]
               ELSE pc' = "failed" /\ UNCHANGED client
            /\ UNCHANGED <<read, clean>>

\* build_client_head, and the body that was read with it.
WriteHead ==
    /\ pc = "head" /\ pc' = "relay"
    /\ client' = [client EXCEPT !.head = ClientFraming, !.bytes = read]
    /\ UNCHANGED <<answer, read, clean, store, pooled, keep>>

\* relay_body, splice_body: the rest, piece by piece, to the client and into the store.
RelayPiece ==
    /\ pc = "relay" /\ ~ (ReadsFirst /\ read > 0) /\ read < origin.sends
    /\ read' = read + 1 /\ client' = [client EXCEPT !.bytes = @ + 1]
    /\ Store
    /\ UNCHANGED <<answer, pc, clean, flight, remembered, old, target, pooled, keep>>

RelayEnds ==
    /\ pc = "relay" /\ read = origin.sends
    /\ IF origin.ends = "broken"
       THEN Dropped /\ pc' = "failed" /\ UNCHANGED clean
       ELSE /\ clean' = (origin.ends = "end") /\ pc' = "last"
            /\ UNCHANGED <<answer, store, pooled, keep>>
    /\ UNCHANGED <<read, client>>

LastChunk_Always ==     \* a variant: the last chunk is written in any case
    /\ pc = "last" /\ pc' = "pool"
    /\ client' = [client EXCEPT !.last = (ClientFraming = "chunked")]
    /\ UNCHANGED <<answer, read, clean, store, pooled, keep>>

LastChunk ==
    /\ pc = "last" /\ pc' = "pool"
    /\ client' = [client EXCEPT !.last = (clean /\ ClientFraming = "chunked")]
    /\ UNCHANGED <<answer, read, clean, store, pooled, keep>>

GiveBack ==
    /\ pc = "pool" /\ pc' = "finish"
    /\ pooled' = (clean /\ r.reusable)
    /\ UNCHANGED <<answer, read, clean, client, store, keep>>

\* A variant: whoever waits is told by whether the body was whole.
Finish_ByClean ==
    /\ pc = "finish" /\ pc' = "done"
    /\ sink' = (IF sink = "none" THEN "none" ELSE IF clean /\ sink # "lost" THEN "stored" ELSE "aborted")
    /\ keep' = (keep /\ clean)
    /\ flight' = IF flight # "led" THEN flight ELSE IF clean THEN "stored" ELSE "not_stored"
    /\ remembered' = FALSE
    /\ UNCHANGED <<answer, read, clean, client, old, target, pooled>>

\* finish: the store is closed or thrown away, and whoever waits for the key is told; a key that
\* turned out not to be stored is remembered, one whose body was cut is not.
Finish ==
    /\ pc = "finish" /\ pc' = "done"
    /\ sink' = (IF sink = "none" THEN "none" ELSE IF clean /\ sink # "lost" THEN "stored" ELSE "aborted")
    /\ keep' = (keep /\ clean)
    /\ IF flight # "led" THEN UNCHANGED <<flight, remembered>>
       ELSE /\ flight' = (IF sink' = "stored" THEN "stored" ELSE "not_stored")
            /\ remembered' = (clean /\ sink' # "stored")
    /\ UNCHANGED <<answer, read, clean, client, old, target, pooled>>

\* A write to the client fails: deliver returns.
ClientFails ==
    /\ pc \in {"head", "relay", "last"}
    /\ Dropped /\ pc' = "failed"
    /\ client' = client \/ (pc = "head" /\ client' = [client EXCEPT !.head = ClientFraming])
    /\ UNCHANGED <<read, clean>>

Next == Plan \/ ReadEarly \/ WriteHead \/ RelayPiece \/ RelayEnds \/ LastChunk \/ GiveBack \/ Finish
        \/ ClientFails

Spec == Init /\ [][Next]_vars

-----------------------------------------------------------------------------
(* Properties.                                                             *)

Whole == origin.ends = "end" /\ read = origin.sends

LooksComplete == client.last \/ (client.head = "length" /\ client.bytes = r.total)

\* What the client takes for a complete body is one, whatever framing it came in and left in, and
\* its connection goes on only after such a body (`relay_body', `finish').
CompleteIsWhole ==
    /\ LooksComplete => Whole /\ client.bytes = read
    /\ pc = "done" /\ keep => Whole /\ (client.head = "none" \/ LooksComplete)

\* What stays behind is whole too: an entry of the cache, and a connection in the pool, which has
\* nothing of this answer left to send.
LeftWhole == sink = "stored" \/ pooled => Whole

\* Whoever waits for the key is told, and told the truth: to look it up if it is there, not to
\* wait the next time only if it is known not to be stored (`finish', LeaderGuard).
WaitersAreTold ==
    pc \in {"done", "failed"} /\ r.led =>
        /\ flight = (IF sink = "stored" THEN "stored" ELSE "not_stored")
        /\ remembered => Whole /\ sink # "stored"

\* Once the client sees the head, what it replaces is out of the cache (RFC 9111 4.4).
ReplacedIsGone ==
    client.head \notin {None, "502"} =>
        /\ target => r.unsafe /\ ~ Good
        /\ old => r.storable \/ r.status # "full"

-----------------------------------------------------------------------------
(* The inductive invariant.                                                *)

Started == pc \notin {"plan", "early", "head"}
Ended == pc \in {"last", "pool", "finish"}
Stopped == pc \in {"done", "failed"}

AnswerTyped ==
    /\ r \in Answers /\ origin \in Sent(r)
    /\ pc \in {"plan", "early", "head", "relay", "last", "pool", "finish", "done", "failed"}
    /\ read \in Nat /\ read <= origin.sends

ClientTyped ==
    client \in [head : {None, "none", "length", "chunked", "close", "502"}, bytes : Nat,
                last : BOOLEAN]

\* How far the answer has been passed on.
Passed ==
    /\ ~ Started => clean /\ client.head = None /\ ~ client.last /\ client.bytes = 0
    /\ pc = "plan" => read = 0
    /\ pc = "early" => ReadsFirst
    /\ pc = "head" /\ ~ ReadsFirst => read = 0
    /\ pc \in {"head", "relay"} /\ ReadsFirst => Whole
    /\ pc = "relay" => clean /\ ~ client.last
    /\ Ended => read = origin.sends /\ (clean <=> origin.ends = "end")
    /\ pc \in {"relay", "last", "pool", "finish"} =>
           client.head = ClientFraming /\ client.bytes = read
    /\ pc = "last" => ~ client.last
    /\ pc \in {"pool", "finish"} => (client.last <=> clean /\ ClientFraming = "chunked")
    /\ ~ Stopped /\ pc # "plan" /\ keep => ClientFraming # "close"

\* What a client sees whose answer was given up.
GivenUp ==
    /\ Stopped =>
        \/ client.head \in {None, "502"} /\ ~ client.last
        \/ client.head = ClientFraming /\ (client.last => Whole /\ client.bytes = read)
           /\ (client.bytes = read \/ client.bytes = 0)
    /\ pc = "failed" => ~ keep
    /\ pc = "done" /\ keep =>
        /\ Whole /\ client.head = ClientFraming /\ client.head # "close" /\ client.bytes = read
        /\ client.head = "chunked" => client.last

\* The store and the pool, and whoever waits for the key.
Behind ==
    /\ sink \in {"none", "open", "lost", "stored", "aborted"}
    /\ ~ Stopped => sink \notin {"stored", "aborted"} /\ ~ remembered
    /\ ~ Stopped /\ r.led => flight = "led"
    /\ sink = "stored" => Whole
    /\ pooled => Whole
    /\ Stopped /\ r.led /\ sink = "stored" => flight = "stored"
    /\ Stopped /\ r.led /\ sink # "stored" => flight = "not_stored"
    /\ remembered => Whole /\ sink # "stored"

\* What the answer replaces.
Replaced ==
    /\ target => r.unsafe
    /\ old => r.stale
    /\ pc # "plan" => (target => ~ Good) /\ (old => r.storable \/ r.status # "full")

DInv == AnswerTyped /\ ClientTyped /\ Passed /\ GivenUp /\ Behind /\ Replaced
=============================================================================
