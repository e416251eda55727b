------------------------------- MODULE Bodies -------------------------------
(***************************************************************************)
(* Where a message's body ends (crates/msg/src/body): the framing that the *)
(* head names, and the reader that hands out exactly that much.  What      *)
(* comes over the connection is a sequence of pieces: data bytes "d", the  *)
(* end of a chunk's data "nl", the size lines of chunks "size", trailer    *)
(* lines "t", the empty line "e", lines that are none of these "bad", and  *)
(* the first byte of the next message "next".                              *)
(***************************************************************************)
EXTENDS Integers, Sequences

CONSTANTS
    MaxLength,      \* the bytes of a body, or of a chunk, at most
    MaxChunks,      \* bound of the chunks of a body
    MaxTrailers     \* MAX_TRAILER_BYTES, in lines

BodiesAssumption == {MaxLength, MaxChunks, MaxTrailers} \subseteq Nat \ {0}

-----------------------------------------------------------------------------
(* The framing of a response head: its lines, by what matters of them.     *)

Codings == {"chunked", "gzip"}
Lengths == 0 .. MaxLength
BadLength == -1
Line == [te : Codings \cup {"empty"}] \cup [cl : Lengths \cup {BadLength}]
Heads == UNION {[1 .. n -> Line] : n \in 0 .. 3}

\* Te::add, over the lines: the last coding that is named counts.
Coding(line) == IF "te" \in DOMAIN line THEN line.te ELSE "empty"
Counts(lines, te) ==
    \E i \in DOMAIN lines :
        /\ Coding(lines[i]) = te
        /\ \A j \in DOMAIN lines : j > i => Coding(lines[j]) = "empty"
TeOf(lines) ==
    IF Counts(lines, "chunked") THEN "chunked" ELSE IF Counts(lines, "gzip") THEN "gzip" ELSE "absent"

LengthsOf(lines) == {lines[i].cl : i \in {j \in DOMAIN lines : "cl" \in DOMAIN lines[j]}}
Frame(kind) == [kind |-> kind, length |-> 0]

\* Variant: the last Content-Length counts, as in `of_headers'.
ScanResponseHead_LastLength(lines, no_body) ==
    LET te == TeOf(lines)
        cls == {j \in DOMAIN lines : "cl" \in DOMAIN lines[j]}
        last == lines[CHOOSE i \in cls : \A j \in cls : j <= i].cl
    IN CASE te = "chunked" -> Frame("chunked")
         [] te = "gzip" /\ ~no_body -> Frame("close")
         [] no_body -> Frame("none")
         [] cls = {} -> Frame("close")
         [] OTHER -> IF last = BadLength THEN Frame("refused") ELSE [kind |-> "length", length |-> last]

\* scan_response_head: chunked wins; another coding lasts to the end of the connection;
\* lengths that differ or are none are refused, of a response without a body too.
ScanResponseHead(lines, no_body) ==
    LET te == TeOf(lines)
        ls == LengthsOf(lines)
    IN IF te = "chunked" THEN Frame("chunked")
       ELSE IF te = "gzip" /\ ~no_body THEN Frame("close")
       ELSE IF BadLength \in ls \/ \E l, m \in ls : l # m THEN Frame("refused")
       ELSE IF no_body THEN Frame("none")
       ELSE IF ls = {} THEN Frame("close")
       ELSE [kind |-> "length", length |-> CHOOSE l \in ls : TRUE]

-----------------------------------------------------------------------------
(* What an origin sends: a body as its own head frames it, whole, cut off, *)
(* in the middle of a line maybe, or with a line that does not belong      *)
(* there.  A chunked body is told by where its size lines are; the last of *)
(* them ends its chunks, and trailers and an empty line follow.            *)

\* Between two size lines are g bytes of data and their end.
IsGap(lines, i, g) == i + g + 2 \in lines /\ \A j \in i + 1 .. i + g + 1 : j \notin lines
Gap(lines, i) == CHOOSE g \in 1 .. MaxLength : IsGap(lines, i, g)

WellFramed(lines, last) ==
    /\ 1 \in lines /\ last \in lines /\ lines \subseteq 1 .. last
    /\ \A i \in lines : i # last => \E g \in 1 .. MaxLength : IsGap(lines, i, g)

Bodies ==
    {[lines |-> {}, last |-> 0, length |-> n] : n \in Lengths}
    \cup UNION {{[lines |-> lines, last |-> last, length |-> last + t + 1]
                    : lines \in {s \in SUBSET (1 .. last) : WellFramed(s, last)}, t \in 0 .. MaxTrailers + 1}
                : last \in 1 .. MaxChunks * (MaxLength + 2) + 1}

Bare(kind) == [is |-> kind, n |-> 0]
PieceAt(b, i) ==
    IF i > b.length THEN Bare("next")
    ELSE IF b.lines = {} THEN Bare("d")
    ELSE IF i = b.last THEN Bare("size")
    ELSE IF i \in b.lines THEN [is |-> "size", n |-> Gap(b.lines, i)]
    ELSE IF i + 1 \in b.lines THEN Bare("nl")
    ELSE IF i < b.last THEN Bare("d")
    ELSE IF i < b.length THEN Bare("t") ELSE Bare("e")

\* What a line is taken for whose end has not come: `frame_line' reads it as it is.
Torn(piece) ==
    CASE piece.is = "size" -> {[is |-> "size", n |-> n] : n \in Lengths}
      [] piece.is = "nl" -> {Bare("bad")}
      [] piece.is \in {"t", "e"} -> {piece}
      [] OTHER -> {}

VARIABLES
    head, no_body, framing,     \* the head and what the scan made of it, when that is asked
    sent,                       \* ghost: the body, and what has happened to it on its way
    wire, pos,                  \* what comes, read up to pos
    chunk, left, done, truncated, trailers, error  \* BodyReader

vars == <<head, no_body, framing, sent, wire, pos, chunk, left, done, truncated, trailers, error>>
input == <<head, no_body, framing, sent, wire>>

\* Nothing is cut off, nothing is bad.
Arrived(b, whole, torn, bad) == [body |-> b, whole |-> whole, torn |-> torn, bad |-> bad]
NoBody == [lines |-> {}, last |-> 0, length |-> 0]

\* What has come of body b.
Comes(b) ==
    \/ /\ sent = Arrived(b, TRUE, FALSE, 0)
       /\ wire = [i \in 1 .. b.length + 1 |-> PieceAt(b, i)]
    \/ \E k \in 1 .. b.length :
        \/ /\ sent = Arrived(b, FALSE, FALSE, 0)
           /\ wire = [i \in 1 .. k - 1 |-> PieceAt(b, i)]
        \/ /\ sent = Arrived(b, FALSE, TRUE, 0)
           /\ \E p \in Torn(PieceAt(b, k)) :
                wire = [i \in 1 .. k |-> IF i = k THEN p ELSE PieceAt(b, i)]
        \/ /\ sent = Arrived(b, TRUE, FALSE, k) /\ PieceAt(b, k).is # "d"
           /\ wire = [i \in 1 .. b.length + 1 |-> IF i = k THEN Bare("bad") ELSE PieceAt(b, i)]

\* BodyReader::new.
Init ==
    /\ pos = 0 /\ chunk = "size" /\ truncated = FALSE /\ trailers = 0 /\ error = FALSE
    /\ \/ /\ head \in Heads /\ no_body \in BOOLEAN /\ framing = Frame("unknown")
          /\ wire = <<Bare("next")>> /\ sent = Arrived(NoBody, TRUE, FALSE, 0) /\ left = 0 /\ done = FALSE
       \/ /\ head = <<>> /\ no_body = FALSE
          /\ \E b \in Bodies :
                /\ Comes(b)
                /\ framing = IF b.lines = {} THEN [kind |-> "length", length |-> b.length]
                             ELSE Frame("chunked")
          /\ left = framing.length
          /\ done = (framing = [kind |-> "length", length |-> 0])

Scan ==
    /\ framing.kind = "unknown"
    /\ framing' = ScanResponseHead(head, no_body)
    /\ done' = TRUE
    /\ UNCHANGED <<head, no_body, sent, wire, pos, chunk, left, truncated, trailers, error>>

-----------------------------------------------------------------------------
(* BodyReader::read; after an error nobody reads on.                       *)

Reading(kind) == framing.kind = kind /\ ~done /\ ~error
AtEnd == pos = Len(wire)
Piece == wire[pos + 1]
Truncate == truncated' = TRUE /\ done' = TRUE /\ error' = TRUE /\ UNCHANGED <<pos, chunk, left, trailers>>
Bad == error' = TRUE /\ UNCHANGED <<pos, chunk, left, done, truncated, trailers>>
\* Data as one read hands out, n bytes: never more than is left.
Take(n) == pos' = pos + n /\ left' = left - n
CanTake(n) == n <= left /\ pos + n <= Len(wire) /\ \A i \in 1 .. n : wire[pos + i].is \in {"d", "next"}

\* Variant: the end of the connection ends the body, whatever was promised.
ReadLength_EndsAnywhere ==
    /\ Reading("length")
    /\ IF AtEnd THEN done' = TRUE /\ UNCHANGED <<pos, left>>
       ELSE \E n \in 1 .. MaxLength : CanTake(n) /\ Take(n) /\ done' = (left - n = 0)
    /\ UNCHANGED <<input, chunk, truncated, trailers, error>>

ReadLength ==
    /\ Reading("length")
    /\ \/ AtEnd /\ Truncate
       \/ /\ ~AtEnd
          /\ \E n \in 1 .. MaxLength : CanTake(n) /\ Take(n) /\ done' = (left - n = 0)
          /\ UNCHANGED <<chunk, truncated, trailers, error>>
    /\ UNCHANGED input

ChunkSize ==
    /\ Reading("chunked") /\ chunk = "size"
    /\ \/ AtEnd /\ Truncate
       \/ ~AtEnd /\ Piece.is # "size" /\ Bad
       \/ /\ ~AtEnd /\ Piece.is = "size"
          /\ chunk' = IF Piece.n = 0 THEN "trailers" ELSE "data"
          /\ left' = Piece.n /\ pos' = pos + 1
          /\ UNCHANGED <<done, truncated, trailers, error>>
    /\ UNCHANGED input

ChunkData ==
    /\ Reading("chunked") /\ chunk = "data"
    /\ \/ AtEnd /\ Truncate
       \/ /\ ~AtEnd
          /\ \E n \in 1 .. MaxLength :
                CanTake(n) /\ Take(n) /\ chunk' = IF left - n = 0 THEN "crlf" ELSE "data"
          /\ UNCHANGED <<done, truncated, trailers, error>>
    /\ UNCHANGED input

ChunkEnd ==
    /\ Reading("chunked") /\ chunk = "crlf"
    /\ \/ AtEnd /\ Truncate
       \/ ~AtEnd /\ Piece.is # "nl" /\ Bad
       \/ /\ ~AtEnd /\ Piece.is = "nl"
          /\ chunk' = "size" /\ pos' = pos + 1 /\ UNCHANGED <<left, done, truncated, trailers, error>>
    /\ UNCHANGED input

\* Variant: the last chunk ends the body; the trailers are left on the connection.
Trailer_NotRead ==
    /\ Reading("chunked") /\ chunk = "trailers"
    /\ chunk' = "done" /\ done' = TRUE /\ UNCHANGED <<pos, trailers, error, left, truncated>>
    /\ UNCHANGED input

\* A line of the trailers, whatever is in it, as long as they are not too many.
Trailer ==
    /\ Reading("chunked") /\ chunk = "trailers"
    /\ \/ AtEnd /\ Truncate
       \/ /\ ~AtEnd
          /\ trailers' = trailers + 1 /\ pos' = pos + 1
          /\ \/ trailers + 1 > MaxTrailers + 1 /\ error' = TRUE /\ UNCHANGED <<chunk, done>>
             \/ /\ trailers + 1 <= MaxTrailers + 1 /\ Piece.is = "e"
                /\ chunk' = "done" /\ done' = TRUE /\ UNCHANGED error
             \/ /\ trailers + 1 <= MaxTrailers + 1 /\ Piece.is # "e"
                /\ UNCHANGED <<chunk, done, error>>
          /\ UNCHANGED <<left, truncated>>
    /\ UNCHANGED input

Next == Scan \/ ReadLength \/ ChunkSize \/ ChunkData \/ ChunkEnd \/ Trailer

Spec == Init /\ [][Next]_vars

-----------------------------------------------------------------------------
(* A body that is reported complete was read to its very end and not one   *)
(* byte further: the next message starts there.  One that was cut off      *)
(* before its last line or spoiled before its trailers is never complete,  *)
(* so it is not stored as if it were, and the connection is not used again *)
(* (`finished_cleanly').  One that came as it was sent is refused for its  *)
(* trailers alone.                                                         *)
CleanMeansAligned ==
    framing.kind \in {"length", "chunked"} =>
        /\ done /\ ~truncated =>
            /\ pos = sent.body.length /\ (sent.whole \/ sent.torn)
            /\ sent.bad # 0 => sent.bad > sent.body.last /\ sent.bad < sent.body.length
        /\ error => ~sent.whole \/ sent.bad # 0
                    \/ sent.body.length - sent.body.last - 1 > MaxTrailers

(* A response whose head names its length twice is never cut by one of     *)
(* them (RFC 9112 6.3): either every length named is the one used, or the  *)
(* transfer coding rules, or it is refused (`scan_response_head').         *)
LengthIsTheOnlyOne ==
    framing.kind = "length" /\ head # <<>> =>
        /\ LengthsOf(head) = {framing.length}
        /\ TeOf(head) = "absent" \/ no_body

-----------------------------------------------------------------------------
(* What CleanMeansAligned rests on.                                        *)

Pieces == [is : {"d", "nl", "size", "t", "e", "bad", "next"}, n : Lengths]

BodiesTyped ==
    /\ sent.body \in Bodies /\ sent.bad \in 0 .. sent.body.length
    /\ wire \in Seq(Pieces) /\ pos \in 0 .. Len(wire) /\ left \in Nat /\ trailers \in Nat

\* What comes is the body, up to where it is cut, but for one line.
AsSent ==
    /\ sent.whole => Len(wire) = sent.body.length + 1 /\ ~sent.torn
    /\ ~sent.whole => sent.bad = 0 /\ Len(wire) <= sent.body.length
    /\ ~sent.whole /\ ~sent.torn => Len(wire) < sent.body.length
    /\ \A i \in 1 .. Len(wire) :
        \/ wire[i] = PieceAt(sent.body, i) /\ i # sent.bad
        \/ wire[i] = Bare("bad") /\ i = sent.bad
        \/ wire[i] \in Torn(PieceAt(sent.body, i)) /\ sent.torn /\ i = Len(wire)

\* Where a reader is that is between two chunks, in one, or in the trailers.
AtSize == chunk = "size" /\ trailers = 0 /\ pos + 1 \in sent.body.lines
InData == chunk = "data" /\ trailers = 0 /\ left > 0 /\ IsGap(sent.body.lines, pos, left)
AtCrlf == chunk = "crlf" /\ trailers = 0 /\ IsGap(sent.body.lines, pos, 0)
InTrailers ==
    /\ chunk = "trailers" /\ pos >= sent.body.last /\ trailers = pos - sent.body.last
    /\ pos < sent.body.length \/ sent.bad = sent.body.length
NotYetBad == sent.bad = 0 \/ sent.bad > pos \/ sent.bad > sent.body.last

InPlace ==
    /\ framing.kind = "unknown" => pos = sent.body.length /\ sent.whole /\ sent.bad = 0 /\ ~error
    /\ Reading("length") =>
        /\ sent.body.lines = {} /\ sent.bad = 0 /\ ~sent.torn
        /\ left > 0 /\ pos + left = sent.body.length
    /\ Reading("chunked") =>
        /\ WellFramed(sent.body.lines, sent.body.last) /\ sent.body.last < sent.body.length
        /\ \/ sent.torn /\ pos = Len(wire)
           \/ NotYetBad /\ (AtSize \/ InData \/ AtCrlf \/ InTrailers)

BodiesInv == BodiesTyped /\ AsSent /\ InPlace /\ CleanMeansAligned /\ LengthIsTheOnlyOne
=============================================================================
