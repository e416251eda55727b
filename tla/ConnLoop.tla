------------------------------ MODULE ConnLoop -------------------------------
(***************************************************************************)
(* One client connection from accept to its end: the thread that serves it *)
(* reads a request head under three timeouts that share one socket option, *)
(* answers or refuses it, and between two requests hands the connection to *)
(* the watcher, which wakes a thread when bytes come or the time is up.    *)
(* A head is three pieces: part of its first line, the rest of the line,   *)
(* and the fields.  Time passes while the thread waits, not while it runs. *)
(* Sources: crates/server/src/conn.rs, crates/server/src/conn/*.rs,        *)
(* crates/server/src/idle.rs, crates/msg/src/clientio.rs.                  *)
(***************************************************************************)
EXTENDS Integers

CONSTANTS
    Timeouts,           \* values of timeout (0: none)
    HeaderTimeouts,     \* values of header_timeout (0: none)
    Keepalives,         \* values of keepalive (0: one request per connection)
    Graces,             \* values of park_grace (0: the connection is parked at once)
    OverflowTimeout,    \* OVERFLOW_READ_TIMEOUT
    MaxRequests,        \* max_requests_per_conn
    MaxPieces,          \* bound of what the client sends
    MaxNow,             \* bound of the clock
    None

ConnLoopAssumption ==
    /\ Timeouts \cup HeaderTimeouts \cup Keepalives \cup Graces \subseteq Nat
    /\ {OverflowTimeout, MaxRequests} \subseteq Nat \ {0} /\ {MaxPieces, MaxNow} \subseteq Nat
    /\ None \notin Nat

VARIABLES
    conf,       \* Config, and whether the connection was taken above the limit
    park,       \* Conn.park is there
    pc,         \* where the connection is
    served,     \* Conn.served
    sock,       \* the read timeout the socket has
    known,      \* Conn.read_timeout: what the thread believes it is, None at first
    buffered,   \* pieces in ClientBuf
    sent, eof,  \* pieces in the kernel; the client sends no more
    head,       \* pieces of the head that are in Scratch
    clock,      \* HeaderClock: [started, deadline]
    extended,   \* the grace was exchanged for keepalive
    since,      \* when the thread or the watcher began to wait
    now,
    first,      \* ghost: when the first byte of this head was consumed
    budget,     \* pieces the client may still send
    reason      \* ConnSlot.close: the first reason that was written

vars == <<conf, park, pc, served, sock, known, buffered, sent, eof, head, clock, extended, since,
          now, first, budget, reason>>
input == <<buffered, sent, eof, budget>>
timing == <<sock, known, clock, extended, since, first>>

FirstReadTimeout(c) ==
    IF c.header = 0 THEN c.timeout
    ELSE IF c.timeout = 0 \/ c.header < c.timeout THEN c.header ELSE c.timeout

\* Conn::new: the accepted socket inherited the timeout of the listener, or has none yet.
Init ==
    /\ conf \in [timeout : Timeouts, header : HeaderTimeouts, keepalive : Keepalives,
                 grace : Graces, overflow : BOOLEAN]
    /\ park \in BOOLEAN
    /\ \/ sock = 0 /\ known = None
       \/ sock = FirstReadTimeout(conf) /\ known = sock
    /\ pc = "top" /\ served = 0 /\ buffered = 0 /\ sent = 0 /\ eof = FALSE /\ head = 0
    /\ clock = [started |-> FALSE, deadline |-> None] /\ extended = FALSE
    /\ since = 0 /\ now = 0 /\ first = None /\ budget = MaxPieces /\ reason = None

\* Conn::finish, and the end of the connection.
Close(why) == pc' = "closed" /\ reason' = IF reason = None THEN why ELSE reason

-----------------------------------------------------------------------------
(* Reading the head: serve_one, first_line_wait, HeaderClock.              *)

UsesGrace == served > 0 /\ park /\ conf.grace # 0 /\ conf.keepalive # 0

FirstLineWait ==
    IF UsesGrace THEN conf.grace
    ELSE IF served > 0 THEN conf.keepalive
    ELSE LET t == FirstReadTimeout(conf) IN
         IF ~ conf.overflow THEN t
         ELSE IF t = 0 \/ OverflowTimeout < t THEN OverflowTimeout ELSE t

\* The option is set only when it is not what the thread believes it to be.
ServeOne ==
    /\ pc = "top"
    /\ IF known = FirstLineWait THEN UNCHANGED <<sock, known>>
       ELSE sock' = FirstLineWait /\ known' = FirstLineWait
    /\ clock' = [started |-> FALSE, deadline |-> None]
    /\ extended' = FALSE /\ head' = 0 /\ first' = None
    /\ pc' = "read"
    /\ UNCHANGED <<conf, park, served, input, since, now, reason>>

\* Timed::consume.
Consume ==
    /\ pc = "read" /\ buffered > 0
    /\ buffered' = buffered - 1 /\ head' = head + 1
    /\ clock' = [clock EXCEPT !.started = TRUE]
    /\ first' = IF first = None THEN now ELSE first
    /\ pc' = CASE head + 1 = 2 -> "line" [] head + 1 = 3 -> "head" [] OTHER -> "read"
    /\ UNCHANGED <<conf, park, served, sock, known, sent, eof, budget, extended, since, now, reason>>

Expired == clock.deadline # None /\ now >= clock.deadline

\* A variant: the option is changed and nobody writes it down.
BeforeRecv_Forgets ==
    /\ pc = "read" /\ buffered = 0
    /\ IF conf.header = 0 \/ ~ clock.started
       THEN pc' = "recv" /\ UNCHANGED <<sock, known, clock>>
       ELSE LET deadline == IF clock.deadline = None THEN now + conf.header ELSE clock.deadline
                left == deadline - now
            IN
            /\ clock' = [clock EXCEPT !.deadline = deadline]
            /\ pc' = IF left <= 0 THEN "timed_out" ELSE "recv"
            /\ IF left > 0 /\ (known = None \/ known = 0 \/ known > left)
               THEN sock' = left /\ known' = known ELSE UNCHANGED <<sock, known>>
    /\ since' = now
    /\ UNCHANGED <<conf, park, served, input, head, extended, now, first, reason>>

\* before_recv: from the first byte on, no wait goes beyond the deadline of the head.
BeforeRecv ==
    /\ pc = "read" /\ buffered = 0
    /\ IF conf.header = 0 \/ ~ clock.started
       THEN pc' = "recv" /\ UNCHANGED <<sock, known, clock>>
       ELSE LET deadline == IF clock.deadline = None THEN now + conf.header ELSE clock.deadline
                left == deadline - now
            IN
            /\ clock' = [clock EXCEPT !.deadline = deadline]
            /\ pc' = IF left <= 0 THEN "timed_out" ELSE "recv"
            /\ IF left > 0 /\ (known = None \/ known = 0 \/ known > left)
               THEN sock' = left /\ known' = left ELSE UNCHANGED <<sock, known>>
    /\ since' = now
    /\ UNCHANGED <<conf, park, served, input, head, extended, now, first, reason>>

Recv ==
    /\ pc = "recv" /\ sent > 0
    /\ buffered' = sent /\ sent' = 0
    /\ pc' = "read"
    /\ UNCHANGED <<conf, park, served, eof, budget, head, timing, now, reason>>

\* A read that returns nothing: nothing of a line, the connection is over; part of a first line
\* counts as the line; and the fields end where the input ends.
RecvEnd ==
    /\ pc = "recv" /\ sent = 0 /\ eof
    /\ IF head = 0 \/ (head = 1 /\ extended) THEN Close("ClientEof")
       ELSE pc' = (IF head = 1 THEN "line" ELSE "head") /\ UNCHANGED reason
    /\ head' = IF head = 1 /\ ~ extended THEN 2 ELSE head
    /\ UNCHANGED <<conf, park, served, input, timing, now>>

RecvFails ==
    /\ pc = "recv"
    /\ Close(IF head < 2 /\ served > 0 THEN "KeepaliveTimeout" ELSE "Error")
    /\ UNCHANGED <<conf, park, served, input, head, timing, now>>

Due == sock # 0 /\ now >= since + sock

\* A variant: the connection is parked with part of a head in hand.
WaitOn_WithPart ==
    /\ (pc = "recv" /\ sent = 0 /\ ~ eof /\ Due) \/ pc = "timed_out"
    /\ UsesGrace /\ ~ extended /\ ~ Expired
    /\ pc' = "park"
    /\ UNCHANGED <<conf, park, served, input, head, sock, known, extended, clock, since, now, first, reason>>

\* read_line_or_idle: during the grace a connection without a byte is parked, one with part of a
\* head waits on, once, as long as keepalive.
WaitOn ==
    /\ (pc = "recv" /\ sent = 0 /\ ~ eof /\ Due) \/ pc = "timed_out"
    /\ UsesGrace /\ ~ extended /\ ~ Expired
    /\ IF head = 0
       THEN pc' = "park" /\ UNCHANGED <<sock, known, extended>>
       ELSE /\ pc' = "read" /\ extended' = TRUE
            /\ sock' = conf.keepalive /\ known' = conf.keepalive
    /\ UNCHANGED <<conf, park, served, input, head, clock, since, now, first, reason>>

\* end_of_first_line and read_headers: what a timeout means.  408, the end of keep-alive, 503
\* for a silent connection above the limit, a silent close.
TimedOut ==
    /\ (pc = "recv" /\ sent = 0 /\ ~ eof /\ Due) \/ pc = "timed_out"
    /\ ~ (UsesGrace /\ ~ extended /\ ~ Expired)
    /\ LET header == conf.header # 0 /\ (served = 0 \/ Expired) IN
       Close(CASE head < 2 /\ Expired -> "HeaderTimeout"
               [] head < 2 /\ ~ Expired /\ served > 0 -> "KeepaliveTimeout"
               [] head < 2 /\ ~ Expired /\ served = 0 /\ conf.overflow -> "Shutdown"
               [] head < 2 /\ ~ Expired /\ served = 0 /\ ~ conf.overflow /\ header ->
                    IF clock.started THEN "HeaderTimeout" ELSE "IdleTimeout"
               [] head >= 2 /\ header -> "HeaderTimeout"
               [] OTHER -> "Error")
    /\ UNCHANGED <<conf, park, served, input, head, timing, now>>

-----------------------------------------------------------------------------
(* The request.                                                            *)

\* The first line: a blank one is skipped, one that is too long or no request line is refused
\* (check_request_line, refuse_request_line).
BlankLine == pc = "line" /\ pc' = "next" /\ head' = 0
             /\ UNCHANGED <<conf, park, served, input, timing, now, reason>>

Refuse ==
    /\ pc \in {"line", "head"}
    /\ Close("Shutdown")
    /\ UNCHANGED <<conf, park, served, input, head, timing, now>>

RequestLine == pc = "line" /\ pc' = "read"
               /\ UNCHANGED <<conf, park, served, input, head, timing, now, reason>>

\* The body is read under timeout; then the checks in their order: Via, own endpoint, overload,
\* the target, the access rules (all in Refuse), and the request is forwarded or tunnelled.
Begin ==
    /\ pc = "head"
    /\ \E body \in BOOLEAN :
        IF body /\ known # conf.timeout THEN sock' = conf.timeout /\ known' = conf.timeout
        ELSE UNCHANGED <<sock, known>>
    /\ ~ conf.overflow
    /\ pc' \in {"serving", "tunnel"}
    \* the rest of the input goes into the prefix of the tunnel
    /\ buffered' = IF pc' = "tunnel" THEN 0 ELSE buffered
    /\ head' = 0
    /\ UNCHANGED <<conf, park, served, sent, eof, budget, clock, extended, since, first, now, reason>>

\* handle_http_parsed: the connection is kept unless this was the last request, keep-alive is
\* off, or the exchange does not allow it.
Served ==
    /\ pc = "serving"
    /\ served' = served + 1
    /\ \/ /\ served + 1 < MaxRequests /\ conf.keepalive # 0
          /\ pc' = "next" /\ UNCHANGED reason
       \/ Close(IF served + 1 >= MaxRequests THEN "Limit" ELSE "ClientEof")
    /\ UNCHANGED <<conf, park, input, head, timing, now>>

ServeFails == pc = "serving" /\ Close("Error")
              /\ UNCHANGED <<conf, park, served, input, head, timing, now>>

-----------------------------------------------------------------------------
(* Between two requests: pump, park_now, the watcher.                      *)

NextStep ==
    /\ pc = "next"
    /\ pc' = IF park /\ conf.grace = 0 THEN "park" ELSE "top"
    /\ UNCHANGED <<conf, park, served, input, head, timing, now, reason>>

ParkNow_Blindly ==      \* a variant: what was read ahead is not looked at
    /\ pc = "park"
    /\ IF conf.keepalive = 0 \/ ~ park THEN pc' = "top" /\ UNCHANGED <<park, head, since>>
       ELSE \/ pc' = "parked" /\ head' = 0 /\ since' = now /\ UNCHANGED park
            \/ pc' = "top" /\ park' = FALSE /\ head' = 0 /\ UNCHANGED since
    /\ UNCHANGED <<conf, served, input, sock, known, clock, extended, first, now, reason>>

\* Bytes that are here need no waiting; a watcher that refuses is not asked again.  The lines
\* that were read are given back (release_idle_buffers).
ParkNow ==
    /\ pc = "park"
    /\ IF buffered > 0 \/ conf.keepalive = 0 \/ ~ park
       THEN pc' = "top" /\ UNCHANGED <<park, head, since>>
       ELSE \/ pc' = "parked" /\ head' = 0 /\ since' = now /\ UNCHANGED park
            \/ pc' = "top" /\ park' = FALSE /\ head' = 0 /\ UNCHANGED since
    /\ UNCHANGED <<conf, served, input, sock, known, clock, extended, first, now, reason>>

\* on_http_event: bytes, or the end of the input, wake a thread; run_conn goes on.  Without a
\* thread the connection is dropped, with no reason.
Wake ==
    /\ pc = "parked" /\ (sent > 0 \/ eof)
    /\ \/ pc' = "top" /\ UNCHANGED reason
       \/ pc' = "closed" /\ UNCHANGED reason
    /\ UNCHANGED <<conf, park, served, input, head, timing, now>>

\* The client is gone, the time is up (expire writes the reason, close_expired finishes), or the
\* watcher stops.
LeavesParked ==
    /\ pc = "parked"
    /\ \/ sent = 0 /\ eof /\ Close("ClientEof")
       \/ Close("ClientDead")
       \/ now >= since + conf.keepalive /\ Close("KeepaliveTimeout")
       \/ Close("Shutdown")
    /\ UNCHANGED <<conf, park, served, input, head, timing, now>>

-----------------------------------------------------------------------------
(* The client and the clock.                                               *)

Send ==
    /\ ~ eof /\ budget > 0 /\ pc # "closed"
    /\ sent' = sent + 1 /\ budget' = budget - 1
    /\ UNCHANGED <<conf, park, pc, served, buffered, eof, head, timing, now, reason>>

SendsNoMore ==
    /\ ~ eof /\ pc # "closed" /\ eof' = TRUE
    /\ UNCHANGED <<conf, park, pc, served, buffered, sent, budget, head, timing, now, reason>>

Tick ==
    /\ now < MaxNow
    /\ \/ pc = "recv" /\ sent = 0 /\ ~ eof /\ ~ Due
       \/ pc = "serving"
       \/ pc = "parked" /\ now < since + conf.keepalive
    /\ now' = now + 1
    /\ UNCHANGED <<conf, park, pc, served, input, head, timing, reason>>

Next ==
    \/ ServeOne \/ Consume \/ BeforeRecv \/ Recv \/ RecvEnd \/ RecvFails \/ WaitOn \/ TimedOut
    \/ BlankLine \/ Refuse \/ RequestLine \/ Begin \/ Served \/ ServeFails
    \/ NextStep \/ ParkNow \/ Wake \/ LeavesParked \/ Send \/ SendsNoMore \/ Tick

Spec == Init /\ [][Next]_vars

-----------------------------------------------------------------------------
(* Properties.                                                             *)

\* However its bytes are spread, and whatever timeout was in force before: from its first byte a
\* head takes no longer than header_timeout (HeaderClock).
HeadIsTimely ==
    conf.header # 0 /\ first # None /\ pc \in {"read", "recv", "timed_out", "line"}
        => now - first <= conf.header

\* What the thread believes of the socket is so, and a connection that says nothing is waited for
\* without end only if neither timeout is set.
WaitsEnd ==
    /\ known # None => sock = known
    /\ pc = "recv" /\ sock = 0 => conf.timeout = 0 /\ conf.header = 0

\* A connection the watcher has got has nothing of a request in its buffers: that would be
\* forgotten there, or wait for bytes that need not come (park_now, Line::Idle).
ParkedIsClean == pc = "parked" => buffered = 0

\* Nor has the thread part of a head in its hands.
HeadPartIsKeptStep == pc = "park" /\ pc' = "parked" => head = 0
HeadPartIsKept == [][HeadPartIsKeptStep]_vars

-----------------------------------------------------------------------------
(* The inductive invariant.                                                *)

\* While a head is read.
Reading == pc \in {"read", "recv", "timed_out", "line", "head"}

Typed ==
    /\ conf.timeout \in Nat /\ conf.header \in Nat /\ conf.keepalive \in Nat /\ conf.grace \in Nat
    /\ sock \in Nat /\ known \in Nat \cup {None} /\ first \in Nat \cup {None}
    /\ served \in Nat /\ head \in Nat /\ buffered \in Nat /\ sent \in Nat
    /\ since \in Nat /\ now \in Nat
    /\ clock \in [started : BOOLEAN, deadline : Nat \cup {None}]

\* Only a connection that is kept alive gets to a second request.
KeptAlive == served > 0 /\ pc # "closed" => conf.keepalive # 0

\* What the thread knows of the socket, and that a wait has an end.
SocketKnown ==
    /\ known # None => sock = known
    /\ Reading => known # None /\ (sock = 0 => conf.timeout = 0 /\ conf.header = 0)

\* The deadline of a head is settled at its first byte, and no wait goes beyond it.
HeadClock ==
    Reading =>
        /\ clock.started <=> first # None
        /\ clock.deadline # None =>
              /\ conf.header # 0 /\ first # None /\ clock.deadline = first + conf.header
              /\ now <= clock.deadline
        /\ conf.header # 0 /\ first # None /\ clock.deadline = None => now = first
        /\ pc = "recv" /\ conf.header # 0 /\ first # None =>
              clock.deadline # None /\ sock # 0 /\ since + sock <= clock.deadline

\* Between two requests no part of a head is in hand, and the watcher gets nothing that was read.
HandsEmpty ==
    /\ pc \in {"next", "park", "serving", "tunnel"} => head = 0
    /\ pc = "parked" => buffered = 0

LoopInv == Typed /\ KeptAlive /\ SocketKnown /\ HeadClock /\ HandsEmpty

=============================================================================
