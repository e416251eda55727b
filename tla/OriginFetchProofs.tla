------------------------- MODULE OriginFetchProofs -------------------------
(***************************************************************************)
(* Theorems about OriginFetch: how often a request is sent, what a client  *)
(* sees of it and when its connection goes on, for any number of           *)
(* connections to the origin.                                              *)
(***************************************************************************)
EXTENDS OriginFetch, FiniteSetTheorems, TLAPS

\* There is room for another attempt whenever one begins.
Room == pc = "acquire" => attempt \in {0, 1}

\* The attempts are counted from the last refetch, of which there is one only,
\* because the head that follows it has no conditions.
Attempts ==
    /\ tries <= IF refetched THEN attempt + 2 ELSE attempt
    /\ result = "other" => conditional /\ pc = "judge"
    /\ conditional => ~refetched

\* What a request that must not be repeated goes through.
OneTry ==
    ~Repeatable =>
        /\ ~conditional /\ stale = "none" /\ tries <= 1 /\ acted <= 1
        /\ pc = "acquire" => tries = 0 /\ acted = 0
        /\ pc = "send" => acted = 0

\* A 1xx has come from the current try, and no other follows it.
OneSource ==
    ~refetched =>
        /\ pc = "acquire" => ~interim_sent
        /\ ~interim_sent => interims = {}
        /\ interims # {} => interims = {tries}

\* What is left of the body is remembered until the answer is chosen.
Remembered ==
    /\ unread => req.body
    /\ pc \in {"read", "examine"} /\ unread => body_cut
    /\ pc = "judge" /\ unread /\ result \in Status => body_cut
    /\ keep => pc = "done" /\ ~unread

FInv == Attempts /\ OneTry /\ OneSource /\ Remembered

-----------------------------------------------------------------------------
USE DEF vars, connection, sending, cache, history, Repeatable

\* The types at the start: the Boolean equations of Init one by one.
LEMMA InitTyped == ASSUME Init PROVE TypeOK
<1>1. req \in [safe : BOOLEAN, body : BOOLEAN, expect : BOOLEAN, http11 : BOOLEAN, force : BOOLEAN]
  BY Zenon DEF Init
<1>2. RequestTypes
  <2>1. stored \in BOOLEAN /\ conditional \in BOOLEAN
    BY Zenon DEF Init
  <2>2. stale \in {"none", "usable", "barred"} /\ pool \subseteq Conns /\ closed \subseteq Conns
    BY DEF Init
  <2> QED
    BY <1>1, <2>1, <2>2 DEF RequestTypes
<1>3. HandlerTypes
  <2>1. /\ pc = "acquire" /\ attempt = 0 /\ server = None /\ reused = FALSE /\ result = None
        /\ interim_sent = FALSE
    BY Zenon DEF Init
  <2>2. reused \in BOOLEAN /\ interim_sent \in BOOLEAN
    BY <2>1, Zenon
  <2>3. /\ pc \in {"acquire", "send", "read", "judge", "examine", "done"}
        /\ server \in Conns \cup {None} /\ result \in Status \cup Error \cup {None}
    BY <2>1, Zenon
  <2>4. attempt \in 0..2
    BY <2>1
  <2> QED
    BY <2>2, <2>3, <2>4, Zenon DEF HandlerTypes
<1>4. BodyTypes
  <2>1. req.expect \in BOOLEAN /\ req.body \in BOOLEAN
    BY <1>1
  <2>2. send_continue = req.expect /\ unread = req.body /\ body_cut = FALSE /\ keep = FALSE
    BY Zenon DEF Init
  <2> QED
    BY <2>1, <2>2 DEF BodyTypes
<1>5. HistoryTypes
  <2>1. tries = 0 /\ acted = 0 /\ refetched = FALSE /\ interims = {} /\ out = <<>>
    BY Zenon DEF Init
  <2>2. refetched \in BOOLEAN
    BY <2>1, Zenon
  <2>3. tries \in Nat /\ acted \in Nat /\ interims \subseteq Nat /\ out \in Seq(Answer)
    BY <2>1
  <2> QED
    BY <2>2, <2>3, Zenon DEF HistoryTypes
<1> QED
  BY <1>2, <1>3, <1>4, <1>5 DEF TypeOK

\* A retry is for the first attempt only, and a refetch starts anew.
LEMMA FetchRoom == Spec => []Room
<1>1. Init => Room
  BY DEF Init, Room
<1>2. Room /\ [Next]_vars => Room'
  BY DEF Room, Next, Reuse, Dial, ConnectFailed, Take, Fallback, End, Send, SendUnseen, SendCut,
         SendFails, ContinueFails, Interim, Read, Retry, Refetch, Use, Fail, Examine, Close,
         PutBack, Over, Again
<1> QED
  BY <1>1, <1>2, PTL DEF Spec

\* The variables keep their types, whatever the origin and the client do
\* (fetch.rs:66-312).
THEOREM FetchTyped == Spec => []TypeOK
<1>1. Init => TypeOK
  BY InitTyped
<1>2. TypeOK /\ Room /\ [Next]_vars => TypeOK'
  <2> SUFFICES ASSUME TypeOK, Room, [Next]_vars PROVE TypeOK'
    OBVIOUS
  <2> USE DEF TypeOK
  <2>1. CASE Reuse
    <3>1. RequestTypes'
      BY <2>1 DEF Reuse, Take, RequestTypes
    <3>2. HandlerTypes'
      BY <2>1 DEF Reuse, Take, HandlerTypes, Room, RequestTypes
    <3>3. BodyTypes'
      BY <2>1 DEF Reuse, Take, BodyTypes
    <3>4. HistoryTypes'
      BY <2>1 DEF Reuse, Take, HistoryTypes, Answer
    <3> QED
      BY <3>1, <3>2, <3>3, <3>4
  <2>2. CASE Dial
    <3>1. RequestTypes'
      BY <2>2 DEF Dial, Take, RequestTypes
    <3>2. HandlerTypes'
      <4>1. attempt' \in 0..2
        BY <2>2 DEF Dial, Take, HandlerTypes, Room
      <4>2. pc' = "send" /\ server' \in Conns /\ reused' = FALSE
        BY <2>2 DEF Dial, Take
      <4>3. UNCHANGED <<interim_sent, result>>
        BY <2>2 DEF Dial
      <4> QED
        BY <4>1, <4>2, <4>3 DEF HandlerTypes
    <3>3. BodyTypes'
      BY <2>2 DEF Dial, Take, BodyTypes
    <3>4. HistoryTypes'
      BY <2>2 DEF Dial, Take, HistoryTypes, Answer
    <3> QED
      BY <3>1, <3>2, <3>3, <3>4
  <2>3. CASE ConnectFailed
    <3>1. RequestTypes'
      BY <2>3 DEF ConnectFailed, Fallback, End, RequestTypes
    <3>2. HandlerTypes'
      BY <2>3 DEF ConnectFailed, Fallback, End, HandlerTypes, Room
    <3>3. BodyTypes'
      BY <2>3 DEF ConnectFailed, Fallback, End, BodyTypes
    <3>4. HistoryTypes'
      BY <2>3 DEF ConnectFailed, Fallback, End, HistoryTypes, Answer
    <3> QED
      BY <3>1, <3>2, <3>3, <3>4
  <2>4. CASE Send
    <3>1. RequestTypes'
      BY <2>4 DEF Send, Continue, RequestTypes
    <3>2. HandlerTypes'
      BY <2>4 DEF Send, Continue, HandlerTypes, Status, Error
    <3>3. BodyTypes'
      BY <2>4 DEF Send, Continue, BodyTypes
    <3>4. HistoryTypes'
      BY <2>4 DEF Send, Continue, HistoryTypes, Answer
    <3> QED
      BY <3>1, <3>2, <3>3, <3>4
  <2>5. CASE SendUnseen
    <3>1. RequestTypes'
      BY <2>5 DEF SendUnseen, Continue, RequestTypes
    <3>2. HandlerTypes'
      BY <2>5 DEF SendUnseen, Continue, HandlerTypes, Status, Error
    <3>3. BodyTypes'
      BY <2>5 DEF SendUnseen, Continue, BodyTypes
    <3>4. HistoryTypes'
      BY <2>5 DEF SendUnseen, Continue, HistoryTypes, Answer
    <3> QED
      BY <3>1, <3>2, <3>3, <3>4
  <2>6. CASE SendCut
    <3>1. RequestTypes'
      BY <2>6 DEF SendCut, Continue, RequestTypes
    <3>2. HandlerTypes'
      BY <2>6 DEF SendCut, Continue, HandlerTypes, Status, Error
    <3>3. BodyTypes'
      BY <2>6 DEF SendCut, Continue, BodyTypes
    <3>4. HistoryTypes'
      BY <2>6 DEF SendCut, Continue, HistoryTypes, Answer
    <3> QED
      BY <3>1, <3>2, <3>3, <3>4
  <2>7. CASE SendFails
    <3>1. RequestTypes'
      BY <2>7 DEF SendFails, Continue, RequestTypes
    <3>2. HandlerTypes'
      BY <2>7 DEF SendFails, Continue, HandlerTypes, Status, Error
    <3>3. BodyTypes'
      BY <2>7 DEF SendFails, Continue, BodyTypes
    <3>4. HistoryTypes'
      BY <2>7 DEF SendFails, Continue, HistoryTypes, Answer
    <3> QED
      BY <3>1, <3>2, <3>3, <3>4
  <2>8. CASE ContinueFails
    <3>1. RequestTypes'
      BY <2>8 DEF ContinueFails, RequestTypes
    <3>2. HandlerTypes'
      BY <2>8 DEF ContinueFails, HandlerTypes, Status, Error
    <3>3. BodyTypes'
      BY <2>8 DEF ContinueFails, BodyTypes
    <3>4. HistoryTypes'
      BY <2>8 DEF ContinueFails, HistoryTypes, Answer
    <3> QED
      BY <3>1, <3>2, <3>3, <3>4
  <2>9. CASE Interim
    <3>1. RequestTypes'
      BY <2>9 DEF Interim, RequestTypes
    <3>2. HandlerTypes'
      BY <2>9 DEF Interim, HandlerTypes, Status, Error
    <3>3. BodyTypes'
      BY <2>9 DEF Interim, BodyTypes
    <3>4. HistoryTypes'
      BY <2>9 DEF Interim, HistoryTypes, Answer
    <3> QED
      BY <3>1, <3>2, <3>3, <3>4
  <2>10. CASE Read
    <3>1. RequestTypes'
      BY <2>10 DEF Read, RequestTypes
    <3>2. HandlerTypes'
      BY <2>10 DEF Read, HandlerTypes, Status, Error
    <3>3. BodyTypes'
      BY <2>10 DEF Read, BodyTypes
    <3>4. HistoryTypes'
      BY <2>10 DEF Read, HistoryTypes, Answer
    <3> QED
      BY <3>1, <3>2, <3>3, <3>4
  <2>11. CASE Retry
    <3>1. RequestTypes'
      BY <2>11 DEF Retry, RequestTypes
    <3>2. HandlerTypes'
      BY <2>11 DEF Retry, HandlerTypes, Status, Error
    <3>3. BodyTypes'
      BY <2>11 DEF Retry, BodyTypes
    <3>4. HistoryTypes'
      BY <2>11 DEF Retry, HistoryTypes, Answer
    <3> QED
      BY <3>1, <3>2, <3>3, <3>4
  <2>12. CASE Refetch
    <3>1. RequestTypes'
      BY <2>12 DEF Refetch, RequestTypes
    <3>2. HandlerTypes'
      BY <2>12 DEF Refetch, HandlerTypes, Status, Error
    <3>3. BodyTypes'
      BY <2>12 DEF Refetch, BodyTypes
    <3>4. HistoryTypes'
      BY <2>12 DEF Refetch, HistoryTypes, Answer
    <3> QED
      BY <3>1, <3>2, <3>3, <3>4
  <2>13. CASE Use
    <3>1. RequestTypes'
      BY <2>13 DEF Use, RequestTypes
    <3>2. HandlerTypes'
      BY <2>13 DEF Use, HandlerTypes, Status, Error
    <3>3. BodyTypes'
      BY <2>13 DEF Use, BodyTypes
    <3>4. HistoryTypes'
      BY <2>13 DEF Use, HistoryTypes, Answer
    <3> QED
      BY <3>1, <3>2, <3>3, <3>4
  <2>14. CASE Fail
    <3>1. RequestTypes'
      BY <2>14 DEF Fail, Fallback, End, RequestTypes
    <3>2. HandlerTypes'
      BY <2>14 DEF Fail, Fallback, End, HandlerTypes, Status, Error
    <3>3. BodyTypes'
      BY <2>14 DEF Fail, Fallback, End, BodyTypes
    <3>4. HistoryTypes'
      <4>1. out' = out \/ \E a \in Answer : out' = Append(out, a)
        BY <2>14, Zenon DEF Fail, Fallback, End, Answer
      <4>2. UNCHANGED <<tries, acted, refetched, interims>>
        BY <2>14 DEF Fail
      <4>3. out' \in Seq(Answer)
        BY <4>1 DEF HistoryTypes
      <4> QED
        BY <4>2, <4>3 DEF HistoryTypes
    <3> QED
      BY <3>1, <3>2, <3>3, <3>4
  <2>15. CASE Examine
    <3>1. RequestTypes'
      BY <2>15 DEF Examine, End, RequestTypes
    <3>2. HandlerTypes'
      BY <2>15 DEF Examine, End, HandlerTypes, Status, Error
    <3>3. BodyTypes'
      BY <2>15 DEF Examine, End, BodyTypes
    <3>4. HistoryTypes'
      <4>1. PICK a \in Answer : out' = Append(out, a)
        BY <2>15, Zenon DEF Examine, End, Answer
      <4>2. UNCHANGED <<tries, acted, refetched, interims>>
        BY <2>15 DEF Examine
      <4> QED
        BY <4>1, <4>2 DEF HistoryTypes
    <3> QED
      BY <3>1, <3>2, <3>3, <3>4
  <2>16. CASE Close
    <3>1. RequestTypes'
      BY <2>16 DEF Close, RequestTypes, HandlerTypes
    <3>2. HandlerTypes'
      BY <2>16 DEF Close, HandlerTypes, Status, Error
    <3>3. BodyTypes'
      BY <2>16 DEF Close, BodyTypes
    <3>4. HistoryTypes'
      BY <2>16 DEF Close, HistoryTypes, Answer
    <3> QED
      BY <3>1, <3>2, <3>3, <3>4
  <2>17. CASE PutBack
    <3>1. RequestTypes'
      BY <2>17 DEF PutBack, RequestTypes
    <3>2. HandlerTypes'
      BY <2>17 DEF PutBack, HandlerTypes, Status, Error
    <3>3. BodyTypes'
      BY <2>17 DEF PutBack, BodyTypes
    <3>4. HistoryTypes'
      BY <2>17 DEF PutBack, HistoryTypes, Answer
    <3> QED
      BY <3>1, <3>2, <3>3, <3>4
  <2>18. CASE Over
    <3>1. RequestTypes'
      BY <2>18 DEF Over, RequestTypes
    <3>2. HandlerTypes'
      BY <2>18 DEF Over, HandlerTypes, Status, Error
    <3>3. BodyTypes'
      BY <2>18 DEF Over, BodyTypes
    <3>4. HistoryTypes'
      BY <2>18 DEF Over, HistoryTypes, Answer
    <3> QED
      BY <3>1, <3>2, <3>3, <3>4
  <2>19. CASE UNCHANGED vars
    <3>1. RequestTypes'
      BY <2>19 DEF RequestTypes
    <3>2. HandlerTypes'
      BY <2>19 DEF HandlerTypes, Status, Error
    <3>3. BodyTypes'
      BY <2>19 DEF BodyTypes
    <3>4. HistoryTypes'
      BY <2>19 DEF HistoryTypes, Answer
    <3> QED
      BY <3>1, <3>2, <3>3, <3>4
  <2> QED
    BY <2>1, <2>2, <2>3, <2>4, <2>5, <2>6, <2>7, <2>8, <2>9, <2>10,
       <2>11, <2>12, <2>13, <2>14, <2>15, <2>16, <2>17, <2>18, <2>19 DEF Next
<1> QED
  BY <1>1, <1>2, FetchRoom, PTL DEF Spec

\* The strengthening is inductive: every step of the handler, the origin and the
\* other requests keeps it.
LEMMA FetchInductive == Spec => []FInv
<1>1. Init => FInv
  <2> SUFFICES ASSUME Init PROVE FInv
    OBVIOUS
  <2>1. TypeOK
    BY InitTyped
  <2>2. /\ pc = "acquire" /\ attempt = 0 /\ tries = 0 /\ acted = 0 /\ result = None
        /\ refetched = FALSE /\ interim_sent = FALSE /\ interims = {} /\ keep = FALSE
        /\ unread = req.body
    BY Zenon DEF Init
  <2>3. ~Repeatable => stale = "none" /\ ~conditional
    BY Zenon DEF Init
  <2>4. Attempts
    BY <2>2, NoneAssumption DEF Attempts, Status
  <2>5. OneTry
    BY <2>2, <2>3 DEF OneTry
  <2>6. OneSource
    BY <2>2 DEF OneSource
  <2>7. Remembered
    BY <2>2, Zenon DEF Remembered
  <2> QED
    BY <2>4, <2>5, <2>6, <2>7 DEF FInv
<1>2. TypeOK /\ FInv /\ [Next]_vars => FInv'
  <2> SUFFICES ASSUME TypeOK, FInv, [Next]_vars PROVE FInv'
    OBVIOUS
  <2> USE DEF TypeOK, FInv
  <2>1. CASE Reuse
    <3>1. Attempts'
      BY <2>1 DEF Reuse, Take, Attempts, HandlerTypes, HistoryTypes
    <3>2. OneTry'
      BY <2>1 DEF Reuse, Take, OneTry, Attempts, HistoryTypes
    <3>3. OneSource'
      BY <2>1 DEF Reuse, Take, OneSource, HistoryTypes
    <3>4. Remembered'
      BY <2>1 DEF Reuse, Take, Remembered, OneTry, BodyTypes, Status, Error
    <3> QED
      BY <3>1, <3>2, <3>3, <3>4
  <2>2. CASE Dial
    <3>1. Attempts'
      BY <2>2 DEF Dial, Take, Attempts, HandlerTypes, HistoryTypes
    <3>2. OneTry'
      BY <2>2 DEF Dial, Take, OneTry, Attempts, HistoryTypes
    <3>3. OneSource'
      BY <2>2 DEF Dial, Take, OneSource, HistoryTypes
    <3>4. Remembered'
      BY <2>2 DEF Dial, Take, Remembered, OneTry, BodyTypes, Status, Error
    <3> QED
      BY <3>1, <3>2, <3>3, <3>4
  <2>3. CASE ConnectFailed
    <3>1. Attempts'
      BY <2>3 DEF ConnectFailed, Fallback, End, Attempts, HandlerTypes, HistoryTypes
    <3>2. OneTry'
      BY <2>3 DEF ConnectFailed, Fallback, End, OneTry, Attempts, HistoryTypes
    <3>3. OneSource'
      BY <2>3 DEF ConnectFailed, Fallback, End, OneSource, HistoryTypes
    <3>4. Remembered'
      BY <2>3 DEF ConnectFailed, Fallback, End, Remembered, OneTry, BodyTypes, Status, Error,
         MayServe
    <3> QED
      BY <3>1, <3>2, <3>3, <3>4
  <2>4. CASE Send
    <3>1. Attempts'
      BY <2>4 DEF Send, Continue, Attempts, HandlerTypes, HistoryTypes
    <3>2. OneTry'
      BY <2>4 DEF Send, Continue, OneTry, Attempts, HistoryTypes
    <3>3. OneSource'
      BY <2>4 DEF Send, Continue, OneSource, HistoryTypes
    <3>4. Remembered'
      BY <2>4 DEF Send, Continue, Remembered, OneTry, BodyTypes, Status, Error
    <3> QED
      BY <3>1, <3>2, <3>3, <3>4
  <2>5. CASE SendUnseen
    <3>1. Attempts'
      BY <2>5 DEF SendUnseen, Continue, Attempts, HandlerTypes, HistoryTypes
    <3>2. OneTry'
      BY <2>5 DEF SendUnseen, Continue, OneTry, Attempts, HistoryTypes
    <3>3. OneSource'
      BY <2>5 DEF SendUnseen, Continue, OneSource, HistoryTypes
    <3>4. Remembered'
      BY <2>5 DEF SendUnseen, Continue, Remembered, OneTry, BodyTypes, Status, Error
    <3> QED
      BY <3>1, <3>2, <3>3, <3>4
  <2>6. CASE SendCut
    <3>1. Attempts'
      BY <2>6 DEF SendCut, Continue, Attempts, HandlerTypes, HistoryTypes
    <3>2. OneTry'
      BY <2>6 DEF SendCut, Continue, OneTry, Attempts, HistoryTypes
    <3>3. OneSource'
      BY <2>6 DEF SendCut, Continue, OneSource, HistoryTypes
    <3>4. Remembered'
      BY <2>6 DEF SendCut, Continue, Remembered, OneTry, BodyTypes, Status, Error
    <3> QED
      BY <3>1, <3>2, <3>3, <3>4
  <2>7. CASE SendFails
    <3>1. Attempts'
      BY <2>7 DEF SendFails, Continue, Attempts, HandlerTypes, HistoryTypes
    <3>2. OneTry'
      BY <2>7 DEF SendFails, Continue, OneTry, Attempts, HistoryTypes
    <3>3. OneSource'
      BY <2>7 DEF SendFails, Continue, OneSource, HistoryTypes
    <3>4. Remembered'
      BY <2>7 DEF SendFails, Continue, Remembered, OneTry, BodyTypes, Status, Error
    <3> QED
      BY <3>1, <3>2, <3>3, <3>4
  <2>8. CASE ContinueFails
    <3>1. Attempts'
      BY <2>8 DEF ContinueFails, Attempts, HandlerTypes, HistoryTypes
    <3>2. OneTry'
      BY <2>8 DEF ContinueFails, OneTry, Attempts, HistoryTypes
    <3>3. OneSource'
      BY <2>8 DEF ContinueFails, OneSource, HistoryTypes
    <3>4. Remembered'
      BY <2>8 DEF ContinueFails, Remembered, OneTry, BodyTypes, Status, Error
    <3> QED
      BY <3>1, <3>2, <3>3, <3>4
  <2>9. CASE Interim
    <3>1. Attempts'
      BY <2>9 DEF Interim, Attempts, HandlerTypes, HistoryTypes
    <3>2. OneTry'
      BY <2>9 DEF Interim, OneTry, Attempts, HistoryTypes
    <3>3. OneSource'
      BY <2>9 DEF Interim, OneSource, HistoryTypes
    <3>4. Remembered'
      BY <2>9 DEF Interim, Remembered, OneTry, BodyTypes, Status, Error
    <3> QED
      BY <3>1, <3>2, <3>3, <3>4
  <2>10. CASE Read
    <3>1. Attempts'
      BY <2>10 DEF Read, Attempts, HandlerTypes, HistoryTypes
    <3>2. OneTry'
      BY <2>10 DEF Read, OneTry, Attempts, HistoryTypes
    <3>3. OneSource'
      BY <2>10 DEF Read, OneSource, HistoryTypes
    <3>4. Remembered'
      BY <2>10 DEF Read, Remembered, OneTry, BodyTypes, Status, Error
    <3> QED
      BY <3>1, <3>2, <3>3, <3>4
  <2>11. CASE Retry
    <3>1. Attempts'
      BY <2>11, NoneAssumption DEF Status, Retry, Attempts, HandlerTypes, HistoryTypes, Again
    <3>2. OneTry'
      BY <2>11 DEF Retry, OneTry, Attempts, HistoryTypes, Again
    <3>3. OneSource'
      BY <2>11 DEF Retry, OneSource, HistoryTypes, Again
    <3>4. Remembered'
      BY <2>11 DEF Retry, Remembered, OneTry, BodyTypes, Status, Error
    <3> QED
      BY <3>1, <3>2, <3>3, <3>4
  <2>12. CASE Refetch
    <3>1. Attempts'
      BY <2>12, NoneAssumption DEF Status, Refetch, Attempts, HandlerTypes, HistoryTypes
    <3>2. OneTry'
      BY <2>12 DEF Refetch, OneTry, Attempts, HistoryTypes
    <3>3. OneSource'
      BY <2>12 DEF Refetch, OneSource, HistoryTypes
    <3>4. Remembered'
      BY <2>12 DEF Refetch, Remembered, OneTry, BodyTypes, Status, Error
    <3> QED
      BY <3>1, <3>2, <3>3, <3>4
  <2>13. CASE Use
    <3>1. Attempts'
      BY <2>13 DEF Use, Attempts, HandlerTypes, HistoryTypes
    <3>2. OneTry'
      BY <2>13 DEF Use, OneTry, Attempts, HistoryTypes
    <3>3. OneSource'
      BY <2>13 DEF Use, OneSource, HistoryTypes
    <3>4. Remembered'
      BY <2>13 DEF Use, Remembered, OneTry, BodyTypes, Status, Error
    <3> QED
      BY <3>1, <3>2, <3>3, <3>4
  <2>14. CASE Fail
    <3>1. Attempts'
      BY <2>14 DEF Fail, Fallback, End, Attempts, HandlerTypes, HistoryTypes
    <3>2. OneTry'
      BY <2>14 DEF Fail, Fallback, End, OneTry, Attempts, HistoryTypes
    <3>3. OneSource'
      BY <2>14 DEF Fail, Fallback, End, OneSource, HistoryTypes
    <3>4. Remembered'
      BY <2>14 DEF Fail, Fallback, End, Remembered, OneTry, BodyTypes, Status, Error, MayServe
    <3> QED
      BY <3>1, <3>2, <3>3, <3>4
  <2>15. CASE Examine
    <3>1. Attempts'
      BY <2>15 DEF Examine, End, Attempts, HandlerTypes, HistoryTypes
    <3>2. OneTry'
      BY <2>15 DEF Examine, End, OneTry, Attempts, HistoryTypes
    <3>3. OneSource'
      BY <2>15 DEF Examine, End, OneSource, HistoryTypes
    <3>4. Remembered'
      BY <2>15 DEF Examine, End, Remembered, OneTry, BodyTypes, Status, Error, MayServe
    <3> QED
      BY <3>1, <3>2, <3>3, <3>4
  <2>16. CASE Close
    <3>1. Attempts'
      BY <2>16 DEF Close, Attempts, HandlerTypes, HistoryTypes
    <3>2. OneTry'
      BY <2>16 DEF Close, OneTry, Attempts, HistoryTypes
    <3>3. OneSource'
      BY <2>16 DEF Close, OneSource, HistoryTypes
    <3>4. Remembered'
      BY <2>16 DEF Close, Remembered, OneTry, BodyTypes, Status, Error
    <3> QED
      BY <3>1, <3>2, <3>3, <3>4
  <2>17. CASE PutBack
    <3>1. Attempts'
      BY <2>17 DEF PutBack, Attempts, HandlerTypes, HistoryTypes
    <3>2. OneTry'
      BY <2>17 DEF PutBack, OneTry, Attempts, HistoryTypes
    <3>3. OneSource'
      BY <2>17 DEF PutBack, OneSource, HistoryTypes
    <3>4. Remembered'
      BY <2>17 DEF PutBack, Remembered, OneTry, BodyTypes, Status, Error
    <3> QED
      BY <3>1, <3>2, <3>3, <3>4
  <2>18. CASE Over
    <3>1. Attempts'
      BY <2>18 DEF Over, Attempts, HandlerTypes, HistoryTypes
    <3>2. OneTry'
      BY <2>18 DEF Over, OneTry, Attempts, HistoryTypes
    <3>3. OneSource'
      BY <2>18 DEF Over, OneSource, HistoryTypes
    <3>4. Remembered'
      BY <2>18 DEF Over, Remembered, OneTry, BodyTypes, Status, Error
    <3> QED
      BY <3>1, <3>2, <3>3, <3>4
  <2>19. CASE UNCHANGED vars
    <3>1. Attempts'
      BY <2>19 DEF Attempts, HandlerTypes, HistoryTypes
    <3>2. OneTry'
      BY <2>19 DEF OneTry, Attempts, HistoryTypes
    <3>3. OneSource'
      BY <2>19 DEF OneSource, HistoryTypes
    <3>4. Remembered'
      BY <2>19 DEF Remembered, OneTry, BodyTypes, Status, Error
    <3> QED
      BY <3>1, <3>2, <3>3, <3>4
  <2> QED
    BY <2>1, <2>2, <2>3, <2>4, <2>5, <2>6, <2>7, <2>8, <2>9, <2>10,
       <2>11, <2>12, <2>13, <2>14, <2>15, <2>16, <2>17, <2>18, <2>19 DEF Next
<1> QED
  BY <1>1, <1>2, FetchTyped, PTL DEF Spec

\* The request goes to at most two connections, and to at most two more after a
\* refetch (the condition again of fetch.rs:178).
THEOREM FetchTriesBounded == Spec => []TriesBounded
<1>1. TypeOK /\ FInv => TriesBounded
  BY DEF TypeOK, HandlerTypes, HistoryTypes, FInv, Attempts, TriesBounded
<1> QED
  BY <1>1, FetchTyped, FetchInductive, PTL

\* A request with a body, or another method than GET and HEAD, reaches the origin at most once
\* (upstream.rs:182, fetch.rs:109).
THEOREM FetchActsOnce == Spec => []ActedOnOnce
<1>1. FInv => ActedOnOnce
  BY DEF FInv, OneTry, ActedOnOnce
<1> QED
  BY <1>1, FetchInductive, PTL

\* A 1xx is passed on from one try only (fetch.rs:105-106).
THEOREM FetchInterimOnce == Spec => []InterimFromOneTry
<1>1. FInv => InterimFromOneTry
  <2> SUFFICES ASSUME FInv, ~refetched PROVE Cardinality(interims) <= 1
    BY DEF InterimFromOneTry
  <2>1. interims = {} \/ interims = {tries}
    BY DEF FInv, OneSource
  <2>2. Cardinality({}) = 0 /\ Cardinality({tries}) = 1
    BY FS_EmptySet, FS_Singleton
  <2> QED
    BY <2>1, <2>2
<1> QED
  BY <1>1, FetchInductive, PTL

\* The client's connection goes on only after the whole body has been read
\* (reply.rs:73-75).
THEOREM FetchAligned == Spec => []NextRequestAligned
<1>1. FInv => NextRequestAligned
  BY DEF FInv, Remembered, NextRequestAligned
<1> QED
  BY <1>1, FetchInductive, PTL

\* What the client has been told: at most one 100 Continue while the request is under way,
\* then at most one answer, and that one allowed.
Begun == out \in {<<>>, <<"100">>}
Underway == Begun /\ (send_continue => out = <<>>)
Allowed(a) ==
    /\ a = "stale" => stale = "usable" /\ ~ req.force /\ stored
    /\ refetched => a \notin {"stale", "revalidated"}
Finished ==
    \/ Begun /\ result = "client"
    \/ \E a \in Answer \ {"100"} : out \in {<<a>>, <<"100", a>>} /\ Allowed(a)
Told == (pc # "done" => Underway) /\ (pc = "done" => Finished)

\* The entry in hand is one that the cache has; after a refetch there is none.
EntryInHand ==
    /\ stale # "none" => stored
    /\ refetched => ~ stored /\ stale = "none"
    /\ result = "same" => conditional

AInv == Told /\ EntryInHand

\* An answer ends the request, after what had been said before.
LEMMA EndsTold ==
    ASSUME NEW a \in Answer \ {"100"}, NEW goesOn, Begun, Allowed(a), End(a, goesOn),
           UNCHANGED <<req, cache, refetched>>
    PROVE  Told'
<1>1. pc' = "done" /\ out' = Append(out, a)
  BY DEF End
<1>2. out' \in {<<a>>, <<"100", a>>}
  <2>1. CASE out = <<>>
    <3>1. Append(<<>>, a) = <<a>>
      OBVIOUS
    <3> QED
      BY <1>1, <2>1, <3>1, Zenon
  <2>2. CASE out = <<"100">>
    <3>1. <<"100">> \in Seq(Answer) /\ Len(<<"100">>) = 1
      BY DEF Answer
    <3>2. Len(out') = 2 /\ out' \in Seq(Answer) /\ out'[1] = "100" /\ out'[2] = a
      BY <1>1, <2>2, <3>1
    <3> QED
      BY <3>2
  <2> QED
    BY <2>1, <2>2 DEF Begun
<1>3. Allowed(a)'
  BY DEF Allowed, cache
<1>4. Finished'
  BY <1>2, <1>3 DEF Finished
<1> QED
  BY <1>1, <1>4 DEF Told

\* So does a failure.
LEMMA FallbackTold ==
    ASSUME EntryInHand, Begun, Fallback, UNCHANGED <<req, cache, refetched>>
    PROVE  Told'
<1>1. ASSUME NEW g \in BOOLEAN, MayServe, End("stale", g)
      PROVE  Told'
  <2>1. Allowed("stale") /\ "stale" \in Answer \ {"100"}
    BY <1>1 DEF MayServe, EntryInHand, Allowed, Answer
  <2> QED
    BY <1>1, <2>1, EndsTold, Zenon
<1>2. CASE End("502", FALSE)
  <2>1. Allowed("502") /\ "502" \in Answer \ {"100"}
    BY DEF Allowed, Answer
  <2> QED
    BY <1>2, <2>1, EndsTold, Zenon
<1> QED
  BY <1>1, <1>2 DEF Fallback

\* The 100 Continue goes out once.
LEMMA ContinueTold ==
    ASSUME Underway, Continue
    PROVE  Underway'
<1>1. CASE send_continue
  <2>1. out = <<>> /\ out' = Append(out, "100")
    BY <1>1, Zenon DEF Underway, Continue
  <2>2. out' = <<"100">>
    BY <2>1
  <2> QED
    BY <2>2, Zenon DEF Underway, Begun, Continue
<1>2. CASE ~ send_continue
  <2>1. out' = out /\ ~ send_continue'
    BY <1>2, Zenon DEF Continue
  <2> QED
    BY <2>1, Zenon DEF Underway, Begun
<1> QED
  BY <1>1, <1>2

\* The client hears one answer, whatever happens to the request.
LEMMA AnswersInductive == Spec => []AInv
<1>1. Init => AInv
  <2> SUFFICES ASSUME Init PROVE AInv
    OBVIOUS
  <2>1. pc = "acquire" /\ out = <<>> /\ refetched = FALSE /\ result = None
    BY Zenon DEF Init
  <2>2. stored <=> stale # "none"
    BY Zenon DEF Init
  <2> QED
    BY <2>1, <2>2, NoneAssumption DEF AInv, Told, Underway, Begun, EntryInHand, Status
<1>2. TypeOK /\ FInv /\ AInv /\ [Next]_vars => AInv'
  <2> SUFFICES ASSUME TypeOK, FInv, AInv, [Next]_vars PROVE AInv'
    OBVIOUS
  <2>0. Told /\ EntryInHand /\ (pc # "done" => Underway /\ Begun)
    BY DEF AInv, Told, Underway
  <2>e. conditional => ~ refetched
    BY DEF FInv, Attempts
  <2>1. CASE Reuse
    <3>1. Told'
      BY <2>1, <2>0 DEF Reuse, Take, Told, Underway, Finished, Begun, Allowed
    <3>2. EntryInHand'
      BY <2>1, <2>0 DEF Reuse, Take, EntryInHand, FInv, Attempts
    <3> QED
      BY <3>1, <3>2 DEF AInv
  <2>2. CASE Dial
    <3>1. Told'
      BY <2>2, <2>0 DEF Dial, Take, Told, Underway, Finished, Begun, Allowed
    <3>2. EntryInHand'
      BY <2>2, <2>0 DEF Dial, Take, EntryInHand, FInv, Attempts
    <3> QED
      BY <3>1, <3>2 DEF AInv
  <2>3. CASE Interim
    <3>1. Told'
      BY <2>3, <2>0 DEF Interim, Told, Underway, Finished, Begun, Allowed
    <3>2. EntryInHand'
      BY <2>3, <2>0 DEF Interim, EntryInHand, FInv, Attempts
    <3> QED
      BY <3>1, <3>2 DEF AInv
  <2>4. CASE Read
    <3>1. Told'
      BY <2>4, <2>0 DEF Read, Told, Underway, Finished, Begun, Allowed
    <3>2. EntryInHand'
      BY <2>4, <2>0 DEF Read, EntryInHand, FInv, Attempts
    <3> QED
      BY <3>1, <3>2 DEF AInv
  <2>5. CASE Retry
    <3>1. Told'
      BY <2>5, <2>0 DEF Retry, Told, Underway, Finished, Begun, Allowed
    <3>2. EntryInHand'
      BY <2>5, <2>0, NoneAssumption DEF Retry, EntryInHand, FInv, Attempts, Status
    <3> QED
      BY <3>1, <3>2 DEF AInv
  <2>6. CASE Use
    <3>1. Told'
      BY <2>6, <2>0 DEF Use, Told, Underway, Finished, Begun, Allowed
    <3>2. EntryInHand'
      BY <2>6, <2>0 DEF Use, EntryInHand, FInv, Attempts
    <3> QED
      BY <3>1, <3>2 DEF AInv
  <2>7. CASE Refetch
    <3>1. Told'
      BY <2>7, <2>0 DEF Refetch, Told, Underway, Finished, Begun, Allowed
    <3>2. EntryInHand'
      BY <2>7, <2>0, NoneAssumption DEF Refetch, EntryInHand, FInv, Attempts, Status
    <3> QED
      BY <3>1, <3>2 DEF AInv
  <2>8. CASE Close
    <3>1. Told'
      BY <2>8, <2>0 DEF Close, Told, Underway, Finished, Begun, Allowed
    <3>2. EntryInHand'
      BY <2>8, <2>0 DEF Close, EntryInHand, FInv, Attempts
    <3> QED
      BY <3>1, <3>2 DEF AInv
  <2>9. CASE PutBack
    <3>1. Told'
      BY <2>9, <2>0 DEF PutBack, Told, Underway, Finished, Begun, Allowed
    <3>2. EntryInHand'
      BY <2>9, <2>0 DEF PutBack, EntryInHand, FInv, Attempts
    <3> QED
      BY <3>1, <3>2 DEF AInv
  <2>10. CASE Over
    <3>1. Told'
      BY <2>10, <2>0 DEF Over, Told, Underway, Finished, Begun, Allowed
    <3>2. EntryInHand'
      BY <2>10, <2>0 DEF Over, EntryInHand, FInv, Attempts
    <3> QED
      BY <3>1, <3>2 DEF AInv
  <2>11. CASE UNCHANGED vars
    <3>1. Told'
      BY <2>11, <2>0 DEF Told, Underway, Finished, Begun, Allowed
    <3>2. EntryInHand'
      BY <2>11, <2>0 DEF EntryInHand, FInv, Attempts
    <3> QED
      BY <3>1, <3>2 DEF AInv
  <2>12. CASE Send
    <3>1. pc' = "read" /\ Underway
      BY <2>12, <2>0 DEF Send
    <3>2. Underway'
      BY <2>12, <3>1, ContinueTold, Zenon DEF Send
    <3>3. Told'
      BY <3>1, <3>2 DEF Told
    <3>4. EntryInHand'
      BY <2>12, <2>0, NoneAssumption DEF Send, EntryInHand, Status, Error
    <3> QED
      BY <3>3, <3>4 DEF AInv
  <2>13. CASE SendUnseen
    <3>1. pc' = "read" /\ Underway
      BY <2>13, <2>0 DEF SendUnseen
    <3>2. Underway'
      BY <2>13, <3>1, ContinueTold, Zenon DEF SendUnseen
    <3>3. Told'
      BY <3>1, <3>2 DEF Told
    <3>4. EntryInHand'
      BY <2>13, <2>0, NoneAssumption DEF SendUnseen, EntryInHand, Status, Error
    <3> QED
      BY <3>3, <3>4 DEF AInv
  <2>14. CASE SendCut
    <3>1. pc' = "read" /\ Underway
      BY <2>14, <2>0 DEF SendCut
    <3>2. Underway'
      <4>1. ASSUME Continue PROVE Underway'
        BY <3>1, <4>1, ContinueTold, Zenon
      <4>2. ASSUME UNCHANGED <<send_continue, out>> PROVE Underway'
        BY <3>1, <4>2, Zenon DEF Underway, Begun
      <4> QED
        BY <2>14, <4>1, <4>2, Zenon DEF SendCut
    <3>3. Told'
      BY <3>1, <3>2 DEF Told
    <3>4. EntryInHand'
      BY <2>14, <2>0, NoneAssumption DEF SendCut, EntryInHand, Status, Error
    <3> QED
      BY <3>3, <3>4 DEF AInv
  <2>15. CASE SendFails
    <3>1. pc' = "judge" /\ Underway
      BY <2>15, <2>0 DEF SendFails
    <3>2. Underway'
      <4>1. ASSUME Continue PROVE Underway'
        BY <3>1, <4>1, ContinueTold, Zenon
      <4>2. ASSUME UNCHANGED <<send_continue, out>> PROVE Underway'
        BY <3>1, <4>2, Zenon DEF Underway, Begun
      <4> QED
        BY <2>15, <4>1, <4>2, Zenon DEF SendFails
    <3>3. Told'
      BY <3>1, <3>2 DEF Told
    <3>4. EntryInHand'
      BY <2>15, <2>0, NoneAssumption DEF SendFails, EntryInHand, Status, Error
    <3> QED
      BY <3>3, <3>4 DEF AInv
  <2>16. CASE ContinueFails
    <3>1. Told'
      BY <2>16, <2>0 DEF ContinueFails, Told, Begun, Finished
    <3>2. EntryInHand'
      BY <2>16, <2>0 DEF ContinueFails, EntryInHand
    <3> QED
      BY <3>1, <3>2 DEF AInv
  <2>17. CASE ConnectFailed
    <3>1. Told'
      BY <2>17, <2>0, FallbackTold DEF ConnectFailed
    <3>2. EntryInHand'
      BY <2>17, <2>0 DEF ConnectFailed, EntryInHand
    <3> QED
      BY <3>1, <3>2 DEF AInv
  <2>18. CASE Fail
    <3>0. Begun /\ UNCHANGED <<req, cache, refetched, result>>
      BY <2>18, <2>0 DEF Fail
    <3>1. ASSUME End("400", FALSE) PROVE Told'
      <4>1. Allowed("400") /\ "400" \in Answer \ {"100"}
        BY DEF Allowed, Answer
      <4> QED
        BY <3>0, <3>1, <4>1, EndsTold, Zenon
    <3>2. ASSUME result = "client", pc' = "done", UNCHANGED <<out, keep>> PROVE Told'
      <4>1. Finished'
        BY <3>0, <3>2, Zenon DEF Finished, Begun
      <4> QED
        BY <3>2, <4>1 DEF Told
    <3>3. ASSUME Fallback PROVE Told'
      BY <2>0, <3>0, <3>3, FallbackTold, Zenon
    <3>4. Told'
      BY <2>18, <3>1, <3>2, <3>3, Zenon DEF Fail
    <3>5. EntryInHand'
      BY <2>0, <3>0 DEF EntryInHand, cache
    <3> QED
      BY <3>4, <3>5 DEF AInv
  <2>19. CASE Examine
    <3>0. Begun /\ UNCHANGED <<req, cache, refetched, result>>
      BY <2>19, <2>0 DEF Examine
    <3>1. ASSUME End("502", FALSE) PROVE Told'
      <4>1. Allowed("502") /\ "502" \in Answer \ {"100"}
        BY DEF Allowed, Answer
      <4> QED
        BY <3>0, <3>1, <4>1, EndsTold, Zenon
    <3>2. ASSUME NEW g \in BOOLEAN, result = "same", End("revalidated", g)
          PROVE  Told'
      <4>1. ~ refetched
        BY <2>0, <2>e, <3>2 DEF EntryInHand
      <4>2. Allowed("revalidated") /\ "revalidated" \in Answer \ {"100"}
        BY <4>1 DEF Allowed, Answer
      <4> QED
        BY <3>0, <3>2, <4>2, EndsTold, Zenon
    <3>3. ASSUME NEW g \in BOOLEAN, MayServe, End("stale", g)
          PROVE  Told'
      <4>1. Allowed("stale") /\ "stale" \in Answer \ {"100"}
        BY <2>0, <3>3 DEF MayServe, EntryInHand, Allowed, Answer
      <4> QED
        BY <3>0, <3>3, <4>1, EndsTold, Zenon
    <3>4. ASSUME NEW g \in BOOLEAN, End("response", g)
          PROVE  Told'
      <4>1. Allowed("response") /\ "response" \in Answer \ {"100"}
        BY DEF Allowed, Answer
      <4> QED
        BY <3>0, <3>4, <4>1, EndsTold, Zenon
    <3>5. Told'
      <4>1. \/ End("502", FALSE)
            \/ \E g \in BOOLEAN : \/ result = "same" /\ End("revalidated", g)
                                  \/ MayServe /\ End("stale", g)
                                  \/ End("response", g)
        BY <2>19, Zenon DEF Examine
      <4> QED
        BY <3>1, <3>2, <3>3, <3>4, <4>1, Zenon
    <3>6. EntryInHand'
      BY <2>0, <3>0 DEF EntryInHand
    <3> QED
      BY <3>5, <3>6 DEF AInv
  <2> QED
    BY <2>1, <2>2, <2>3, <2>4, <2>5, <2>6, <2>7, <2>8, <2>9, <2>10, <2>11, <2>12, <2>13, <2>14,
       <2>15, <2>16, <2>17, <2>18, <2>19 DEF Next
<1> QED
  BY <1>1, <1>2, FetchTyped, FetchInductive, PTL DEF Spec

\* The answers among what is written, counted.
LEMMA ToldIsOne ==
    ASSUME AInv
    PROVE  OneAnswer
<1>1. CASE out = <<>>
  <2>1. Final = {} /\ DOMAIN out \ Final = {}
    BY <1>1 DEF Final
  <2>2. pc = "done" => result = "client"
    BY <1>1 DEF AInv, Told, Underway, Finished, Answer
  <2>3. Cardinality(Final) <= 1 /\ Cardinality(DOMAIN out \ Final) <= 1
    BY <2>1, FS_EmptySet
  <2> QED
    BY <2>1, <2>2, <2>3 DEF OneAnswer
<1>2. CASE out = <<"100">>
  <2>1. Final = {} /\ DOMAIN out \ Final = {1}
    BY <1>2 DEF Final
  <2>2. pc = "done" => result = "client"
    BY <1>2 DEF AInv, Told, Underway, Finished, Answer
  <2>3. Cardinality({}) = 0 /\ Cardinality({1}) = 1
    BY FS_EmptySet, FS_Singleton
  <2>4. Cardinality(Final) <= 1 /\ Cardinality(DOMAIN out \ Final) <= 1
    BY <2>1, <2>3
  <2> QED
    BY <2>1, <2>2, <2>4 DEF OneAnswer
<1>3. ASSUME NEW a \in Answer \ {"100"}, out = <<a>>
      PROVE  OneAnswer
  <2>1. Final = {1} /\ DOMAIN out \ Final = {} /\ Len(out) = 1
    BY <1>3 DEF Final
  <2>2. Cardinality({}) = 0 /\ Cardinality({1}) = 1
    BY FS_EmptySet, FS_Singleton
  <2>3. Cardinality(Final) <= 1 /\ Cardinality(DOMAIN out \ Final) <= 1
    BY <2>1, <2>2
  <2> QED
    BY <2>1, <2>3 DEF OneAnswer
<1>4. ASSUME NEW a \in Answer \ {"100"}, out = <<"100", a>>
      PROVE  OneAnswer
  <2>1. Final = {2} /\ DOMAIN out \ Final = {1} /\ Len(out) = 2
    BY <1>4 DEF Final
  <2> QED
    BY <2>1, FS_Singleton DEF OneAnswer
<1> QED
  BY <1>1, <1>2, <1>3, <1>4 DEF AInv, Told, Underway, Finished, Begun

\* The client gets exactly one answer, after at most one 100 Continue, and the stale entry
\* only when that may be served and no 304 has shown that it is out of date
\* (fetch.rs:66-312, reply.rs, can_serve_stale).
THEOREM FetchAnswersOnce == Spec => []AnswerAllowed
<1>1. AInv => AnswerAllowed
  <2> SUFFICES ASSUME AInv PROVE AnswerAllowed
    OBVIOUS
  <2>1. OneAnswer
    BY ToldIsOne
  <2>2. ASSUME NEW i \in Final
        PROVE  Allowed(out[i])
    <3>1. out # <<>> /\ out # <<"100">>
      BY <2>2 DEF Final
    <3>2. PICK a \in Answer \ {"100"} : out \in {<<a>>, <<"100", a>>} /\ Allowed(a)
      BY <3>1 DEF AInv, Told, Underway, Finished, Begun
    <3>3. out[i] = a
      BY <2>2, <3>2 DEF Final
    <3> QED
      BY <3>2, <3>3
  <2>3. StaleIsAllowed
    BY <2>2 DEF StaleIsAllowed, Allowed, AInv, EntryInHand
  <2> QED
    BY <2>1, <2>3 DEF AnswerAllowed
<1> QED
  BY <1>1, AnswersInductive, PTL

=============================================================================
