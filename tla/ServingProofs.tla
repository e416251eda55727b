---------------------------- MODULE ServingProofs ----------------------------
(***************************************************************************)
(* Theorems about the parts of MCServing: a component is alone in the      *)
(* behaviours that are one of it, and the others leave its properties      *)
(* alone.  Each part has its inductive invariant, in the module of the     *)
(* component; what is proved here is about its instance in the sum.        *)
(***************************************************************************)
EXTENDS MCServing, FiniteSetTheorems, SequenceTheorems, TLAPS

EntryInv == part = "entry" => Entry!AdmissionInv
ConnInv == part = "loop" => Loop!LoopInv
AnswerInv == part = "answer" => Answer!DInv
BodyInv == part = "body" => Body!BodiesInv
PipesInv == part = "pipes" => Pipes!PipesInv
PartsInv == part = "parts" => Parts!PartsInv

-----------------------------------------------------------------------------
\* No step goes from one part to another.
LEMMA SamePart == [Next]_vars => part' = part
BY DEF Next, EntryStep, LoopStep, BodyStep, AnswerStep, PipesStep, PartsStep, vars

-----------------------------------------------------------------------------
\* The limits on connections.
\* The sizes of the instance are those of the theorems on finite sets.
LEMMA SameSize == /\ \A S : Entry!IsFiniteSet(S) <=> IsFiniteSet(S)
                  /\ \A S : Entry!Cardinality(S) = Cardinality(S)
<1>1. \A S : Entry!IsFiniteSet(S) <=> IsFiniteSet(S)
  BY Zenon DEF Entry!IsFiniteSet, IsFiniteSet
<1>2. \A S : Entry!Cardinality(S) = Cardinality(S)
  BY Zenon DEF Entry!Cardinality, Cardinality
<1> QED
  BY <1>1, <1>2

LEMMA Subsets == ASSUME Entry!LimitAssumption, NEW S \in SUBSET Conns
                 PROVE  Entry!IsFiniteSet(S) /\ Entry!Cardinality(S) \in Nat
BY SameSize, FS_Subset, FS_CardinalityType DEF Entry!LimitAssumption

\* Who has which connection, and its shares at each stage.
LEMMA ShapeStep ==
    ASSUME Entry!LimitAssumption, Entry!NoneAssumption, Entry!Shape, Entry!HandsApart,
           Entry!SharesByStage, [Entry!Next]_(Entry!vars)
    PROVE  Entry!Shape' /\ Entry!HandsApart' /\ Entry!SharesByStage'
<1> DEFINE overflow == v5  pc == v6  conn == v7  snap == v8  victim == v9  st == v10
           client == v11  guards == v12
<1> USE DEF Entry!NoneAssumption, Entry!Shape, Entry!HandsApart, Entry!SharesByStage,
    Entry!Goto, Entry!Become,
            Entry!config, Entry!limiter, Entry!acceptor, Entry!life, Entry!table, Entry!Guard
<1>1. CASE Entry!Reload
  BY <1>1 DEF Entry!Reload
<1>2. CASE \E l \in Listeners, c \in Conns, k \in Clients : Entry!Accept(l, c, k)
  <2>0. PICK l \in Listeners, c \in Conns, k \in Clients : Entry!Accept(l, c, k)
    BY <1>2
  <2>1. Entry!Shape'
    BY <2>0 DEF Entry!Accept
  <2>2. Entry!SharesByStage'
    BY <2>0 DEF Entry!Accept
  <2>3. Entry!HandsApart'
    <3>1. \A m \in Listeners : conn[m] # c /\ (pc[m] = "drop" => victim[m] # c)
      BY <2>0 DEF Entry!Accept
    <3>2. conn' = [conn EXCEPT ![l] = c] /\ pc' = [pc EXCEPT ![l] = "client"]
          /\ st' = [st EXCEPT ![c] = "accepted"] /\ guards' = guards /\ victim' = victim
          /\ st[c] = "away"
      BY <2>0 DEF Entry!Accept
    <3>3. guards[c] = {} /\ c # None /\ conn \in [Listeners -> Conns \cup {None}]
          /\ pc \in [Listeners -> {"idle", "client", "slot_client", "total", "evict", "drop",
                                   "slot_total", "acquire"}]
          /\ st \in [Conns -> {"away", "accepted", "queued", "live", "tunnel", "parked",
             "closing"}]
      BY <3>2, <2>0
    <3> QED
      BY <3>1, <3>2, <3>3
  <2> QED
    BY <2>1, <2>2, <2>3
<1>3. CASE \E l \in Listeners : Entry!SkipClient(l)
  <2>0. PICK l \in Listeners : Entry!SkipClient(l)
    BY <1>3
  <2>1. Entry!Shape'
    BY <2>0 DEF Entry!SkipClient, Entry!StopCounting
  <2>2. Entry!HandsApart' /\ Entry!SharesByStage'
    BY <2>0 DEF Entry!SkipClient
  <2> QED
    BY <2>1, <2>2
<1>4. CASE \E l \in Listeners : Entry!StartCounting(l)
  BY <1>4 DEF Entry!StartCounting, Entry!Recount, Entry!Of
<1>5. CASE \E l \in Listeners : Entry!CheckClient(l)
  BY <1>5 DEF Entry!CheckClient
<1>6. CASE \E l \in Listeners : Entry!TakeSlot(l)
  BY <1>6 DEF Entry!TakeSlot
<1>7. CASE \E l \in Listeners : Entry!Reject(l)
  BY <1>7 DEF Entry!Reject
<1>8. CASE \E l \in Listeners : Entry!CheckTotal(l)
  BY <1>8 DEF Entry!CheckTotal
<1>9. CASE \E l \in Listeners : Entry!Evict(l)
  BY <1>9 DEF Entry!Evict
<1>10. CASE \E l \in Listeners : Entry!NoRoom(l)
  BY <1>10 DEF Entry!NoRoom
<1>11. CASE \E l \in Listeners : Entry!Evicted(l)
  BY <1>11 DEF Entry!Evicted
<1>12. CASE \E l \in Listeners : Entry!Acquire(l)
  <2>0. PICK l \in Listeners : Entry!Acquire(l)
    BY <1>12
  <2>1. PICK there \in {"queued", "closing"} : st' = [st EXCEPT ![conn[l]] = there]
    BY <2>0 DEF Entry!Acquire
  <2>2. conn[l] \in Conns /\ st[conn[l]] = "accepted"
    BY <2>0 DEF Entry!Acquire
  <2>3. guards' = [guards EXCEPT ![conn[l]] = @ \cup {"open"}] /\ pc' = [pc EXCEPT ![l] = "idle"]
        /\ conn' = [conn EXCEPT ![l] = None]
        /\ UNCHANGED <<Entry!config, overflow, snap, victim, client, Entry!table>>
    BY <2>0 DEF Entry!Acquire
  <2>4. Entry!Shape'
    <3>1. guards' \in [Conns -> SUBSET Entry!Guard]
      BY <2>3, <2>2
    <3>2. st' \in [Conns -> {"away", "accepted", "queued", "live", "tunnel", "parked", "closing"}]
      BY <2>1, <2>2
    <3> QED
      BY <2>3, <3>1, <3>2
  <2>5. Entry!HandsApart'
    BY <2>1, <2>2, <2>3
  <2>6. Entry!SharesByStage'
    BY <2>1, <2>2, <2>3
  <2> QED
    BY <2>4, <2>5, <2>6
<1>13. CASE \E c \in Conns : Entry!Start(c)
  BY <1>13 DEF Entry!Start, Entry!Register
<1>14. CASE \E c \in Conns : Entry!StartFails(c)
  BY <1>14 DEF Entry!StartFails
<1>15. CASE \E c \in Conns : Entry!Connect(c)
  BY <1>15 DEF Entry!Connect
<1>16. CASE \E c \in Conns : Entry!ParkTunnel(c)
  BY <1>16 DEF Entry!ParkTunnel
<1>17. CASE \E c \in Conns : Entry!Finish(c)
  BY <1>17 DEF Entry!Finish
<1>18. CASE \E c \in Conns : Entry!DropOverflow(c)
  BY <1>18 DEF Entry!DropOverflow
<1>19. CASE \E c \in Conns : Entry!DropOpen(c)
  BY <1>19 DEF Entry!DropOpen
<1>20. CASE \E c \in Conns : Entry!DropActive(c)
  BY <1>20 DEF Entry!DropActive, Entry!Unregister
<1>21. CASE \E c \in Conns : Entry!Gone(c)
  BY <1>21 DEF Entry!Gone
<1>22. CASE UNCHANGED Entry!vars
  BY <1>22 DEF Entry!vars
<1> QED
  BY <1>1, <1>2, <1>3, <1>4, <1>5, <1>6, <1>7, <1>8, <1>9, <1>10, <1>11, <1>12, <1>13, <1>14,
     <1>15, <1>16, <1>17, <1>18, <1>19, <1>20, <1>21, <1>22 DEF Entry!Next

-----------------------------------------------------------------------------
\* What a step may do to the shares: nothing, or give one, or take one back.
LEMMA HoldingStep ==
    ASSUME Entry!Shape, Entry!HandsApart, Entry!SharesByStage, [Entry!Next]_(Entry!vars)
    PROVE  \/ Entry!Steady
           \/ \E c \in Conns, g \in Entry!Guard : Entry!Gains(c, g)
           \/ \E c \in Conns, g \in Entry!Guard : Entry!Returns(c, g)
<1> DEFINE conn == v7  guards == v12
<1> USE DEF Entry!Guard
<1>1. ASSUME NEW l \in Listeners, Entry!TakeSlot(l) PROVE conn[l] \in Conns
             /\ Entry!Gains(conn[l], "overflow")
  BY <1>1 DEF Entry!TakeSlot, Entry!HandsApart, Entry!Gains
<1>2. ASSUME NEW l \in Listeners, Entry!Acquire(l) PROVE conn[l] \in Conns
             /\ Entry!Gains(conn[l], "open")
  BY <1>2 DEF Entry!Acquire, Entry!HandsApart, Entry!SharesByStage, Entry!Gains
<1>3. ASSUME NEW c \in Conns, Entry!Start(c) PROVE Entry!Gains(c, "active")
  BY <1>3 DEF Entry!Start, Entry!SharesByStage, Entry!limiter, Entry!Gains
<1>4. ASSUME NEW c \in Conns, Entry!DropOverflow(c) PROVE Entry!Returns(c, "overflow")
  BY <1>4 DEF Entry!DropOverflow, Entry!Returns
<1>5. ASSUME NEW c \in Conns, Entry!DropOpen(c) PROVE Entry!Returns(c, "open")
  BY <1>5 DEF Entry!DropOpen, Entry!Returns
<1>6. ASSUME NEW c \in Conns, Entry!DropActive(c) PROVE Entry!Returns(c, "active")
  <2>1. guards[c] = {"active"} /\ guards' = [guards EXCEPT ![c] = {}]
        /\ {} = {"active"} \ {"active"}
    BY <1>6 DEF Entry!DropActive
  <2> QED
    BY <1>6, <2>1 DEF Entry!DropActive, Entry!limiter, Entry!Returns
<1>7. CASE Entry!Steady
  BY <1>7
<1> QED
  BY <1>1, <1>2, <1>3, <1>4, <1>5, <1>6, <1>7
     DEF Entry!Next, Entry!Steady, Entry!Reload, Entry!Accept, Entry!SkipClient,
     Entry!StartCounting, Entry!CheckClient, Entry!Reject, Entry!CheckTotal,
         Entry!Evict, Entry!NoRoom, Entry!Evicted, Entry!StartFails, Entry!Connect,
         Entry!ParkTunnel, Entry!Finish, Entry!Gone,
         Entry!limiter, Entry!life, Entry!vars

\* The counters keep to the shares.
LEMMA SharesStep ==
    ASSUME Entry!LimitAssumption, Entry!Shape, Entry!HandsApart, Entry!SharesByStage,
           Entry!LimiterOK, Entry!SharesAccounted, [Entry!Next]_(Entry!vars)
    PROVE  Entry!SharesAccounted' /\ Entry!LimiterOK'
<1> USE DEF Entry!Guard, Entry!LimiterOK
<1>1. \A g : /\ Entry!IsFiniteSet(Entry!Holding(g)) /\ Entry!Cardinality(Entry!Holding(g)) \in Nat
             /\ Entry!IsFiniteSet(Entry!Holding(g)')
                /\ Entry!Cardinality(Entry!Holding(g)') \in Nat
  BY Subsets DEF Entry!Holding
<1>2. CASE Entry!Steady
  <2>1. \A g : Entry!Holding(g)' = Entry!Holding(g)
    BY <1>2 DEF Entry!Holding, Entry!Steady
  <2> QED
    BY <1>1, <1>2, <2>1 DEF Entry!SharesAccounted, Entry!LimitAssumption, Entry!Steady
<1>3. ASSUME NEW c \in Conns, NEW g \in Entry!Guard, Entry!Gains(c, g)
      PROVE  Entry!SharesAccounted' /\ Entry!LimiterOK'
  <2>1. Entry!Holding(g)' = Entry!Holding(g) \cup {c} /\ c \notin Entry!Holding(g)
    BY <1>3 DEF Entry!Holding, Entry!Shape, Entry!Gains
  <2>2. \A h : h # g => Entry!Holding(h)' = Entry!Holding(h)
    BY <1>3 DEF Entry!Holding, Entry!Shape, Entry!Gains
  <2>3. Entry!Cardinality(Entry!Holding(g)') = Entry!Cardinality(Entry!Holding(g)) + 1
    BY <1>1, <2>1, SameSize, FS_AddElement
  <2> QED
    BY <1>1, <1>3, <2>2, <2>3 DEF Entry!SharesAccounted, Entry!LimitAssumption, Entry!Gains
<1>4. ASSUME NEW c \in Conns, NEW g \in Entry!Guard, Entry!Returns(c, g)
      PROVE  Entry!SharesAccounted' /\ Entry!LimiterOK'
  <2>1. Entry!Holding(g)' = Entry!Holding(g) \ {c} /\ c \in Entry!Holding(g)
    BY <1>4 DEF Entry!Holding, Entry!Shape, Entry!Returns
  <2>2. \A h : h # g => Entry!Holding(h)' = Entry!Holding(h)
    BY <1>4 DEF Entry!Holding, Entry!Shape, Entry!Returns
  <2>3. Entry!Cardinality(Entry!Holding(g)') = Entry!Cardinality(Entry!Holding(g)) - 1
    BY <1>1, <2>1, SameSize, FS_RemoveElement
  <2> QED
    BY <1>1, <1>4, <2>2, <2>3 DEF Entry!SharesAccounted, Entry!LimitAssumption, Entry!Returns
<1> QED
  BY <1>2, <1>3, <1>4, HoldingStep

\* TopMax is the largest limit there is.
LEMMA TopIsTop ==
    ASSUME Entry!LimitAssumption
    PROVE  Entry!TopMax \in MaxConns /\ Entry!TopMax \in Nat /\ \A m \in MaxConns : m
           <= Entry!TopMax
BY DEF Entry!LimitAssumption, Entry!TopMax

LEMMA OneMore ==
    ASSUME NEW S, NEW x, Entry!IsFiniteSet(S)
    PROVE  /\ Entry!IsFiniteSet(S \cup {x}) /\ Entry!Cardinality(S \cup {x}) \in Nat
           /\ Entry!Cardinality(S \cup {x}) <= Entry!Cardinality(S) + 1
<1>1. Entry!IsFiniteSet(S \cup {x}) /\ Entry!Cardinality(S) \in Nat /\ Entry!Cardinality(S
      \cup {x}) \in Nat
  BY SameSize, FS_AddElement, FS_CardinalityType
<1>2. Entry!Cardinality(S
      \cup {x}) = IF x \in S THEN Entry!Cardinality(S) ELSE Entry!Cardinality(S) + 1
  BY SameSize, FS_AddElement
<1> QED
  BY <1>1, <1>2

\* A step that neither finds room nor uses it leaves the bound alone.
LEMMA NoRoomFound ==
    ASSUME Entry!LimitAssumption, Entry!Shape, Entry!HandsApart, Entry!SharesByStage,
           [Entry!Next]_(Entry!vars),
           \A l \in Listeners : ~ Entry!CheckTotal(l) /\ ~ Entry!Evict(l) /\ ~ Entry!Acquire(l)
    PROVE  Entry!Plain' \subseteq Entry!Plain /\ Entry!Promised' \subseteq Entry!Promised
<1> USE DEF Entry!Plain, Entry!Promised, Entry!Serving, Entry!Holding, Entry!Shape, Entry!Goto,
    Entry!Become
<1>1. CASE Entry!Reload
  BY <1>1 DEF Entry!Reload, Entry!HandsApart, Entry!SharesByStage, Entry!life, Entry!acceptor
<1>2. CASE \E l \in Listeners, c \in Conns, k \in Clients : Entry!Accept(l, c, k)
  BY <1>2 DEF Entry!Accept, Entry!HandsApart, Entry!SharesByStage, Entry!life, Entry!acceptor
<1>3. CASE \E l \in Listeners : Entry!SkipClient(l)
  BY <1>3 DEF Entry!SkipClient, Entry!HandsApart, Entry!SharesByStage, Entry!life,
     Entry!acceptor
<1>4. CASE \E l \in Listeners : Entry!StartCounting(l)
  BY <1>4 DEF Entry!StartCounting, Entry!HandsApart, Entry!SharesByStage, Entry!life,
     Entry!acceptor
<1>5. CASE \E l \in Listeners : Entry!CheckClient(l)
  BY <1>5 DEF Entry!CheckClient, Entry!HandsApart, Entry!SharesByStage, Entry!life,
     Entry!acceptor
<1>6. CASE \E l \in Listeners : Entry!TakeSlot(l)
  BY <1>6 DEF Entry!TakeSlot, Entry!HandsApart, Entry!SharesByStage, Entry!life, Entry!acceptor
<1>7. CASE \E l \in Listeners : Entry!Reject(l)
  BY <1>7 DEF Entry!Reject, Entry!HandsApart, Entry!SharesByStage, Entry!life, Entry!acceptor
<1>8. CASE \E l \in Listeners : Entry!NoRoom(l)
  BY <1>8 DEF Entry!NoRoom, Entry!HandsApart, Entry!SharesByStage, Entry!life, Entry!acceptor
<1>9. CASE \E l \in Listeners : Entry!Evicted(l)
  BY <1>9 DEF Entry!Evicted, Entry!HandsApart, Entry!SharesByStage, Entry!life, Entry!acceptor
<1>10. CASE \E c \in Conns : Entry!Start(c)
  BY <1>10 DEF Entry!Start, Entry!HandsApart, Entry!SharesByStage, Entry!life, Entry!acceptor
<1>11. CASE \E c \in Conns : Entry!StartFails(c)
  BY <1>11 DEF Entry!StartFails, Entry!HandsApart, Entry!SharesByStage, Entry!life,
     Entry!acceptor
<1>12. CASE \E c \in Conns : Entry!Connect(c)
  BY <1>12 DEF Entry!Connect, Entry!HandsApart, Entry!SharesByStage, Entry!life, Entry!acceptor
<1>13. CASE \E c \in Conns : Entry!ParkTunnel(c)
  BY <1>13 DEF Entry!ParkTunnel, Entry!HandsApart, Entry!SharesByStage, Entry!life,
     Entry!acceptor
<1>14. CASE \E c \in Conns : Entry!Finish(c)
  BY <1>14 DEF Entry!Finish, Entry!HandsApart, Entry!SharesByStage, Entry!life, Entry!acceptor
<1>15. CASE \E c \in Conns : Entry!DropOverflow(c)
  BY <1>15 DEF Entry!DropOverflow, Entry!HandsApart, Entry!SharesByStage, Entry!life,
     Entry!acceptor
<1>16. CASE \E c \in Conns : Entry!DropOpen(c)
  BY <1>16 DEF Entry!DropOpen, Entry!HandsApart, Entry!SharesByStage, Entry!life, Entry!acceptor
<1>17. CASE \E c \in Conns : Entry!DropActive(c)
  BY <1>17 DEF Entry!DropActive, Entry!HandsApart, Entry!SharesByStage, Entry!life,
     Entry!acceptor
<1>18. CASE \E c \in Conns : Entry!Gone(c)
  BY <1>18 DEF Entry!Gone, Entry!HandsApart, Entry!SharesByStage, Entry!life, Entry!acceptor
<1>19. CASE UNCHANGED Entry!vars
  BY <1>19 DEF Entry!vars, Entry!life, Entry!acceptor
<1> QED
  BY <1>1, <1>2, <1>3, <1>4, <1>5, <1>6, <1>7, <1>8, <1>9, <1>10, <1>11, <1>12, <1>13, <1>14,
     <1>15, <1>16, <1>17, <1>18, <1>19, Zenon DEF Entry!Next

\* Room is found within the limit, or made, before it is used.
LEMMA PlainStep ==
    ASSUME Entry!LimitAssumption, Entry!NoneAssumption, Entry!AdmissionInv,
           [Entry!Next]_(Entry!vars)
    PROVE  Entry!PlainBounded'
<1> DEFINE per == v2  open == v4  pc == v6  conn == v7  snap == v8  st == v10  guards == v12
<1> SUFFICES ASSUME 0 \notin MaxConns
             PROVE  Entry!Cardinality(Entry!Plain') + Entry!Cardinality(Entry!Promised')
                      <= Entry!TopMax + Entry!Cardinality(Listeners) - 1
  BY DEF Entry!PlainBounded
<1> USE DEF Entry!AdmissionInv, Entry!TypeOK, Entry!LimiterOK
<1>1. Entry!Cardinality(Entry!Plain) + Entry!Cardinality(Entry!Promised)
      <= Entry!TopMax + Entry!Cardinality(Listeners) - 1
  BY DEF Entry!PlainBounded
<1>2. /\ Entry!Plain \subseteq Conns /\ Entry!IsFiniteSet(Entry!Plain)
         /\ Entry!Cardinality(Entry!Plain) \in Nat
      /\ Entry!IsFiniteSet(Entry!Plain') /\ Entry!Cardinality(Entry!Plain') \in Nat
  BY Subsets DEF Entry!Plain, Entry!Serving, Entry!Holding
<1>3. /\ Entry!IsFiniteSet(Listeners) /\ Entry!Cardinality(Listeners) \in Nat
      /\ Entry!IsFiniteSet(Entry!Promised) /\ Entry!Cardinality(Entry!Promised) \in Nat
      /\ Entry!IsFiniteSet(Entry!Promised') /\ Entry!Cardinality(Entry!Promised') \in Nat
      /\ Entry!Cardinality(Entry!Promised') <= Entry!Cardinality(Listeners)
  BY SameSize, FS_Subset, FS_CardinalityType DEF Entry!Promised, Entry!LimitAssumption
<1>4. Entry!TopMax \in Nat /\ \A m \in MaxConns : m <= Entry!TopMax
  BY TopIsTop
<1>5. \A S, T : Entry!IsFiniteSet(T) /\ S \subseteq T => Entry!Cardinality(S)
      <= Entry!Cardinality(T)
  BY SameSize, FS_Subset
<1>6. CASE Entry!Plain' \subseteq Entry!Plain /\ Entry!Promised' \subseteq Entry!Promised
  BY <1>1, <1>2, <1>3, <1>4, <1>5, <1>6
<1>7. ASSUME NEW l \in Listeners, Entry!CheckTotal(l)
      PROVE  Entry!Cardinality(Entry!Plain') + Entry!Cardinality(Entry!Promised')
             <= Entry!TopMax + Entry!Cardinality(Listeners) - 1
  <2>1. Entry!Plain' = Entry!Plain
    BY <1>7 DEF Entry!CheckTotal, Entry!Plain, Entry!Serving, Entry!Holding, Entry!life
  <2>2. CASE snap[l].max > 0 /\ open >= snap[l].max
    <3>1. Entry!Promised' \subseteq Entry!Promised
      BY <1>7, <2>2 DEF Entry!CheckTotal, Entry!Goto, Entry!Promised, Entry!life, Entry!Shape
    <3> QED
      BY <2>1, <3>1, <1>6
  <2>3. CASE ~ (snap[l].max > 0 /\ open >= snap[l].max)
    <3>1. snap[l].max \in MaxConns /\ snap[l].max \in Nat \ {0}
      <4>1. snap[l] \in [max : MaxConns, per : PerClient]
        BY DEF Entry!Shape
      <4> QED
        BY <4>1 DEF Entry!LimitAssumption
    <3>2. open < Entry!TopMax
      BY <2>3, <3>1, <1>4 DEF Entry!TypeOK
    <3>3. Entry!Cardinality(Entry!Plain) <= open
      <4>1. Entry!IsFiniteSet(Entry!Holding("open"))
        BY Subsets DEF Entry!Holding
      <4> QED
        BY <4>1, <1>5 DEF Entry!Plain, Entry!Serving, Entry!SharesAccounted
    <3> QED
      BY <2>1, <3>2, <3>3, <1>2, <1>3, <1>4 DEF Entry!TypeOK
  <2> QED
    BY <2>2, <2>3
<1>8. ASSUME NEW l \in Listeners, Entry!Evict(l)
      PROVE  Entry!Cardinality(Entry!Plain') + Entry!Cardinality(Entry!Promised')
             <= Entry!TopMax + Entry!Cardinality(Listeners) - 1
  <2>1. PICK c \in Conns : st[c] = "parked" /\ st' = [st EXCEPT ![c] = "closing"]
    BY <1>8 DEF Entry!Evict
  <2>2. c \in Entry!Plain /\ Entry!Plain' = Entry!Plain \ {c}
    BY <1>8, <2>1 DEF Entry!Evict, Entry!Plain, Entry!Serving, Entry!Holding,
       Entry!SharesByStage, Entry!Shape
  <2>3. Entry!Promised' \subseteq Entry!Promised \cup {l}
    BY <1>8 DEF Entry!Evict, Entry!Goto, Entry!Promised, Entry!Shape
  <2>4. Entry!Cardinality(Entry!Plain') = Entry!Cardinality(Entry!Plain) - 1
    BY <1>2, <2>2, SameSize, FS_RemoveElement
  <2>5. Entry!Cardinality(Entry!Promised') <= Entry!Cardinality(Entry!Promised) + 1
    <3>1. /\ Entry!IsFiniteSet(Entry!Promised \cup {l}) /\ Entry!Cardinality(Entry!Promised
             \cup {l}) \in Nat
          /\ Entry!Cardinality(Entry!Promised \cup {l}) <= Entry!Cardinality(Entry!Promised) + 1
      BY <1>3, OneMore
    <3> QED
      BY <1>3, <1>5, <2>3, <3>1
  <2> QED
    BY <1>1, <1>2, <1>3, <1>4, <2>4, <2>5
<1>9. ASSUME NEW l \in Listeners, Entry!Acquire(l)
      PROVE  Entry!Cardinality(Entry!Plain') + Entry!Cardinality(Entry!Promised')
             <= Entry!TopMax + Entry!Cardinality(Listeners) - 1
  <2>1. /\ conn[l] \in Conns /\ st[conn[l]] = "accepted" /\ pc[l] = "acquire"
        /\ guards' = [guards EXCEPT ![conn[l]] = @ \cup {"open"}]
        /\ pc' = [pc EXCEPT ![l] = "idle"] /\ conn' = [conn EXCEPT ![l] = None]
        /\ \E there \in {"queued", "closing"} : st' = [st EXCEPT ![conn[l]] = there]
    BY <1>9 DEF Entry!Acquire, Entry!Goto, Entry!HandsApart
  <2>2. \A m \in Listeners : m # l => conn[m] # conn[l]
    BY <2>1 DEF Entry!HandsApart, Entry!NoneAssumption
  <2>3. CASE "overflow" \in guards[conn[l]]
    <3>1. Entry!Plain' \subseteq Entry!Plain
      BY <2>1, <2>3 DEF Entry!Plain, Entry!Serving, Entry!Holding, Entry!Shape
    <3>2. Entry!Promised' \subseteq Entry!Promised
      BY <2>1, <2>2 DEF Entry!Promised, Entry!Shape
    <3> QED
      BY <3>1, <3>2, <1>6
  <2>4. CASE "overflow" \notin guards[conn[l]]
    <3>1. Entry!Plain' \subseteq Entry!Plain \cup {conn[l]}
      BY <2>1 DEF Entry!Plain, Entry!Serving, Entry!Holding, Entry!Shape
    <3>2. l \in Entry!Promised /\ Entry!Promised' \subseteq Entry!Promised \ {l}
      BY <2>1, <2>2, <2>4 DEF Entry!Promised, Entry!Shape
    <3>3. Entry!Cardinality(Entry!Plain') <= Entry!Cardinality(Entry!Plain) + 1
      <4>1. /\ Entry!IsFiniteSet(Entry!Plain \cup {conn[l]}) /\ Entry!Cardinality(Entry!Plain
               \cup {conn[l]}) \in Nat
            /\ Entry!Cardinality(Entry!Plain \cup {conn[l]}) <= Entry!Cardinality(Entry!Plain) + 1
        BY <1>2, OneMore
      <4> QED
        BY <1>2, <1>5, <3>1, <4>1
    <3>4. Entry!Cardinality(Entry!Promised') <= Entry!Cardinality(Entry!Promised) - 1
      <4>1. /\ Entry!IsFiniteSet(Entry!Promised \ {l})
            /\ Entry!Cardinality(Entry!Promised \ {l}) = Entry!Cardinality(Entry!Promised) - 1
        BY <1>3, <3>2, SameSize, FS_RemoveElement
      <4> QED
        BY <1>5, <3>2, <4>1
    <3> QED
      BY <1>1, <1>2, <1>3, <1>4, <3>3, <3>4
  <2> QED
    BY <2>3, <2>4
<1> QED
  BY <1>6, <1>7, <1>8, <1>9, NoRoomFound

\* The bound that is promised follows.
LEMMA ServingKept ==
    ASSUME Entry!LimitAssumption, Entry!AdmissionInv
    PROVE  Entry!ServingBounded
<1> SUFFICES ASSUME 0 \notin MaxConns
             PROVE  Entry!Cardinality(Entry!Serving)
                      <= Entry!TopMax + OverflowSlots + Entry!Cardinality(Listeners) - 1
  BY DEF Entry!ServingBounded
<1> USE DEF Entry!AdmissionInv, Entry!TypeOK, Entry!LimiterOK
<1> DEFINE Over == Entry!Holding("overflow")
<1>1. /\ Entry!IsFiniteSet(Entry!Plain) /\ Entry!Cardinality(Entry!Plain) \in Nat
      /\ Entry!IsFiniteSet(Over) /\ Entry!Cardinality(Over) \in Nat
      /\ Entry!Cardinality(Entry!Serving) \in Nat
  BY Subsets DEF Entry!Plain, Entry!Serving, Entry!Holding
<1>2. Entry!Serving \subseteq Entry!Plain \cup Over
  BY DEF Entry!Plain, Entry!Serving, Entry!Holding
<1>3. /\ Entry!IsFiniteSet(Entry!Plain \cup Over)
      /\ Entry!Cardinality(Entry!Plain \cup Over)
         <= Entry!Cardinality(Entry!Plain) + Entry!Cardinality(Over)
      /\ Entry!Cardinality(Entry!Plain \cup Over) \in Nat
  <2>1. Entry!Cardinality(Entry!Plain \cap Over) \in Nat
    BY <1>1, SameSize, FS_Intersection, FS_CardinalityType
  <2> HIDE DEF Over
  <2>2. Entry!IsFiniteSet(Entry!Plain \cup Over)
        /\ Entry!Cardinality(Entry!Plain \cup Over)
             = Entry!Cardinality(Entry!Plain) + Entry!Cardinality(Over)
             - Entry!Cardinality(Entry!Plain \cap Over)
    BY <1>1, SameSize, FS_Union
  <2>3. Entry!Cardinality(Entry!Plain \cup Over) \in Nat
    BY <2>2, SameSize, FS_CardinalityType
  <2> QED
    BY <1>1, <2>1, <2>2, <2>3
<1>4. Entry!Cardinality(Entry!Serving) <= Entry!Cardinality(Entry!Plain \cup Over)
  BY <1>2, <1>3, SameSize, FS_Subset
<1>5. Entry!Cardinality(Over) <= OverflowSlots
  BY DEF Entry!SharesAccounted, Entry!TypeOK, Entry!LimitAssumption
<1>6. /\ Entry!Cardinality(Listeners) \in Nat /\ Entry!TopMax \in Nat /\ OverflowSlots \in Nat
      /\ Entry!Cardinality(Entry!Promised) \in Nat
  <2>1. Entry!IsFiniteSet(Listeners) /\ Entry!IsFiniteSet(Entry!Promised)
    BY SameSize, FS_Subset DEF Entry!LimitAssumption, Entry!Promised
  <2> QED
    BY <2>1, TopIsTop, SameSize, FS_CardinalityType DEF Entry!LimitAssumption
<1>7. Entry!Cardinality(Entry!Plain) + Entry!Cardinality(Entry!Promised)
      <= Entry!TopMax + Entry!Cardinality(Listeners) - 1
  BY DEF Entry!PlainBounded
<1> HIDE DEF Over
<1> QED
  BY <1>1, <1>3, <1>4, <1>5, <1>6, <1>7

-----------------------------------------------------------------------------
\* The table of clients counts what it will subtract.
LEMMA TableStep ==
    ASSUME Entry!LimitAssumption, Entry!NoneAssumption, Entry!AdmissionInv,
           [Entry!Next]_(Entry!vars)
    PROVE  Entry!ClientsAccounted' /\ Entry!TableOfLiving' /\ Entry!RowsOK'
<1> DEFINE conn == v7  st == v10  client == v11  guards == v12  counting == v13  slots == v14
           counted == v15  perClient == v16
<1> USE DEF Entry!AdmissionInv, Entry!TypeOK, Entry!RowsOK
<1>1. /\ slots \subseteq Entry!Holding("active") /\ counted \subseteq Entry!Holding("active")
      /\ counting \/ counted = {}
      /\ counting => slots \subseteq counted
      /\ \A k \in Clients : perClient[k] = Entry!Cardinality(Entry!Of(counted, k))
      /\ perClient \in [Clients -> Nat]
  BY DEF Entry!TableOfLiving, Entry!ClientsAccounted, Entry!Holding, Entry!Shape, Entry!TypeOK
<1>2. \A c \in Conns : "active" \in guards[c] => st[c] \notin {"away", "accepted", "queued"}
  BY DEF Entry!SharesByStage
\* A step that changes neither the table nor what its connections are.
<1>3. ASSUME UNCHANGED Entry!table,
             \A c \in Entry!Holding("active") : "active" \in guards'[c] /\ client'[c] = client[c]
      PROVE  Entry!ClientsAccounted' /\ Entry!TableOfLiving' /\ Entry!RowsOK'
  <2>1. \A k : Entry!Of(counted, k)' = Entry!Of(counted, k)
    BY <1>1, <1>3 DEF Entry!Of, Entry!table
  <2> QED
    BY <1>1, <1>3, <2>1 DEF Entry!ClientsAccounted, Entry!TableOfLiving, Entry!Holding,
       Entry!table
<1>4. ASSUME NEW l \in Listeners, NEW c \in Conns, NEW k \in Clients, Entry!Accept(l, c, k)
      PROVE  Entry!ClientsAccounted' /\ Entry!TableOfLiving' /\ Entry!RowsOK'
  <2>1. c \notin Entry!Holding("active") /\ UNCHANGED <<guards, Entry!table>>
        /\ client' = [client EXCEPT ![c] = k]
    BY <1>2, <1>4 DEF Entry!Accept, Entry!Holding
  <2> QED
    BY <1>3, <2>1 DEF Entry!Shape, Entry!Holding
<1>5. ASSUME NEW l \in Listeners, Entry!Reject(l)
      PROVE  Entry!ClientsAccounted' /\ Entry!TableOfLiving' /\ Entry!RowsOK'
  <2>1. conn[l] \notin Entry!Holding("active") /\ UNCHANGED <<guards, Entry!table>>
        /\ client' = [client EXCEPT ![conn[l]] = None]
    BY <1>2, <1>5 DEF Entry!Reject, Entry!Holding, Entry!HandsApart
  <2> QED
    BY <1>3, <2>1 DEF Entry!Shape, Entry!Holding
<1>6. ASSUME NEW c \in Conns, Entry!Gone(c)
      PROVE  Entry!ClientsAccounted' /\ Entry!TableOfLiving' /\ Entry!RowsOK'
  <2>1. c \notin Entry!Holding("active") /\ UNCHANGED <<guards, Entry!table>>
        /\ client' = [client EXCEPT ![c] = None]
    BY <1>6 DEF Entry!Gone, Entry!Holding
  <2> QED
    BY <1>3, <2>1 DEF Entry!Shape, Entry!Holding
<1>7. ASSUME guards' = guards, client' = client, Entry!StopCounting
      PROVE  Entry!ClientsAccounted' /\ Entry!TableOfLiving' /\ Entry!RowsOK'
  <2>1. \A k : Entry!Of(counted, k)' = {}
    BY <1>7 DEF Entry!StopCounting, Entry!Of
  <2>2. perClient' = [k \in Clients |-> 0] /\ slots' = slots /\ counted' = {} /\ counting' = FALSE
    BY <1>7 DEF Entry!StopCounting
  <2> QED
    BY <1>1, <1>7, <2>1, <2>2, SameSize, FS_EmptySet
       DEF Entry!ClientsAccounted, Entry!TableOfLiving, Entry!Holding
<1>8. ASSUME guards' = guards, client' = client, Entry!Recount
      PROVE  Entry!ClientsAccounted' /\ Entry!TableOfLiving' /\ Entry!RowsOK'
  <2>1. \A k : Entry!Of(counted, k)' = Entry!Of(slots, k)
    BY <1>8 DEF Entry!Recount, Entry!Of
  <2>2. /\ perClient' = [k \in Clients |-> Entry!Cardinality(Entry!Of(slots, k))]
        /\ slots' = slots /\ counted' = slots /\ counting' = TRUE
    BY <1>8 DEF Entry!Recount
  <2>3. \A k : Entry!Cardinality(Entry!Of(slots, k)) \in Nat
    BY Subsets DEF Entry!Of, Entry!Shape
  <2>4. \A c \in slots : "active" \in guards[c]
    BY <1>1 DEF Entry!Holding
  <2> QED
    BY <1>1, <1>8, <2>1, <2>2, <2>3, <2>4
       DEF Entry!ClientsAccounted, Entry!TableOfLiving, Entry!Holding

<1>9. ASSUME NEW c \in Conns, Entry!Start(c)
      PROVE  Entry!ClientsAccounted' /\ Entry!TableOfLiving' /\ Entry!RowsOK'
  <2>1. c \notin counted /\ client[c] \in Clients /\ client' = client
        /\ guards' = [guards EXCEPT ![c] = @ \cup {"active"}] /\ counting' = counting
    BY <1>1, <1>9 DEF Entry!Start, Entry!Register, Entry!SharesByStage, Entry!Holding
  <2>2. slots' \subseteq slots \cup {c}
    BY <1>9 DEF Entry!Start, Entry!Register
  <2>3. Entry!Holding("active")' = Entry!Holding("active") \cup {c}
    BY <2>1 DEF Entry!Holding, Entry!Shape
  <2>4. Entry!TableOfLiving'
    BY <1>1, <2>2, <2>3 DEF Entry!TableOfLiving
  <2>5. CASE ~ counting
    <3>1. counted' = counted /\ perClient' = perClient
      BY <1>9, <2>5 DEF Entry!Start, Entry!Register
    <3>2. \A k : Entry!Of(counted, k)' = Entry!Of(counted, k)
      BY <2>1, <3>1 DEF Entry!Of
    <3> QED
      BY <1>1, <2>1, <2>4, <2>5, <3>1, <3>2 DEF Entry!ClientsAccounted
  <2>6. CASE counting
    <3>1. counted' = counted \cup {c} /\ perClient' = [perClient EXCEPT ![client[c]] = @ + 1]
      BY <1>9, <2>6 DEF Entry!Start, Entry!Register
    <3>2. \A k : k # client[c] => Entry!Of(counted, k)' = Entry!Of(counted, k)
      BY <2>1, <3>1 DEF Entry!Of
    <3>3. Entry!Of(counted, client[c])' = Entry!Of(counted, client[c]) \cup {c}
          /\ c \notin Entry!Of(counted, client[c])
      BY <2>1, <3>1 DEF Entry!Of
    <3>4. Entry!IsFiniteSet(Entry!Of(counted, client[c]))
      BY Subsets DEF Entry!Of, Entry!Shape
    <3>5. Entry!Cardinality(Entry!Of(counted, client[c])') = Entry!Cardinality(Entry!Of(counted,
          client[c])) + 1
      BY <3>3, <3>4, SameSize, FS_AddElement
    <3>6. \A k \in Clients : perClient'[k] = Entry!Cardinality(Entry!Of(counted, k)')
      BY <1>1, <2>1, <3>1, <3>2, <3>5
    <3>7. counted' \subseteq Entry!Holding("active")' /\ slots' \subseteq counted'
      BY <1>1, <2>2, <2>3, <2>6, <3>1
    <3>8. perClient' \in [Clients -> Nat]
      BY <1>1, <2>1, <3>1
    <3> QED
      BY <2>1, <2>4, <2>6, <3>6, <3>7, <3>8 DEF Entry!ClientsAccounted, Entry!Holding
  <2> QED
    BY <2>5, <2>6
<1>10. ASSUME NEW c \in Conns, Entry!DropActive(c)
      PROVE  Entry!ClientsAccounted' /\ Entry!TableOfLiving' /\ Entry!RowsOK'
  <2>1. client' = client /\ guards' = [guards EXCEPT ![c] = {}] /\ counting' = counting
        /\ slots' = slots \ {c}
    BY <1>10 DEF Entry!DropActive, Entry!Unregister
  <2>2. Entry!Holding("active")' = Entry!Holding("active") \ {c}
    BY <2>1 DEF Entry!Holding, Entry!Shape
  <2>3. Entry!TableOfLiving'
    BY <1>1, <2>1, <2>2 DEF Entry!TableOfLiving
  <2>4. CASE ~ (counting /\ c \in counted)
    <3>1. counted' = counted /\ perClient' = perClient /\ c \notin counted
      BY <1>1, <1>10, <2>4 DEF Entry!DropActive, Entry!Unregister
    <3>2. \A k : Entry!Of(counted, k)' = Entry!Of(counted, k)
      BY <2>1, <3>1 DEF Entry!Of
    <3> QED
      BY <1>1, <2>1, <2>2, <2>3, <2>4, <3>1, <3>2 DEF Entry!ClientsAccounted, Entry!Holding
  <2>5. CASE counting /\ c \in counted
    <3>1. counted' = counted \ {c} /\ perClient' = [perClient EXCEPT ![client[c]] = @ - 1]
      BY <1>10, <2>5 DEF Entry!DropActive, Entry!Unregister
    <3>2. \A k : k # client[c] => Entry!Of(counted, k)' = Entry!Of(counted, k)
      BY <2>1, <3>1 DEF Entry!Of
    <3>3. Entry!Of(counted, client[c])' = Entry!Of(counted, client[c]) \ {c}
          /\ c \in Entry!Of(counted, client[c])
      BY <2>1, <2>5, <3>1 DEF Entry!Of
    <3>4. Entry!IsFiniteSet(Entry!Of(counted, client[c]))
      BY Subsets DEF Entry!Of, Entry!Shape
    <3>5. Entry!Cardinality(Entry!Of(counted, client[c])') = Entry!Cardinality(Entry!Of(counted,
          client[c])) - 1
      BY <3>3, <3>4, SameSize, FS_RemoveElement
    <3>6. Entry!Cardinality(Entry!Of(counted, client[c])') \in Nat
      BY <3>3, <3>4, SameSize, FS_RemoveElement, FS_CardinalityType
    <3>7. \A k \in Clients : perClient'[k] = Entry!Cardinality(Entry!Of(counted, k)')
          /\ perClient'[k] \in Nat
      BY <1>1, <2>1, <3>1, <3>2, <3>5, <3>6
    <3> QED
      BY <1>1, <2>1, <2>2, <2>3, <2>5, <3>1, <3>7 DEF Entry!ClientsAccounted, Entry!Holding
  <2> QED
    BY <2>4, <2>5
<1>11. ASSUME NEW l \in Listeners, Entry!SkipClient(l) \/ Entry!StartCounting(l)
      PROVE  Entry!ClientsAccounted' /\ Entry!TableOfLiving' /\ Entry!RowsOK'
  <2>1. guards' = guards /\ client' = client /\ (Entry!StopCounting \/ UNCHANGED Entry!table
        \/ Entry!Recount)
    BY <1>11 DEF Entry!SkipClient, Entry!StartCounting, Entry!life
  <2> QED
    BY <1>3, <1>7, <1>8, <2>1 DEF Entry!Holding
<1>12. ASSUME UNCHANGED <<guards, client, Entry!table>>
       PROVE  Entry!ClientsAccounted' /\ Entry!TableOfLiving' /\ Entry!RowsOK'
  BY <1>3, <1>12 DEF Entry!Holding
<1>13. ASSUME NEW l \in Listeners, Entry!TakeSlot(l) \/ Entry!Acquire(l)
       PROVE  Entry!ClientsAccounted' /\ Entry!TableOfLiving' /\ Entry!RowsOK'
  <2>1. /\ UNCHANGED <<client, Entry!table>>
        /\ \E g \in Entry!Guard : guards' = [guards EXCEPT ![conn[l]] = @ \cup {g}]
    BY <1>13 DEF Entry!TakeSlot, Entry!Acquire, Entry!Guard
  <2> QED
    BY <1>3, <2>1 DEF Entry!Holding, Entry!Shape
<1>14. ASSUME NEW c \in Conns, Entry!DropOverflow(c) \/ Entry!DropOpen(c)
       PROVE  Entry!ClientsAccounted' /\ Entry!TableOfLiving' /\ Entry!RowsOK'
  <2>1. /\ UNCHANGED <<client, Entry!table>>
        /\ \E g \in {"overflow", "open"} : guards' = [guards EXCEPT ![c] = @ \ {g}]
    BY <1>14 DEF Entry!DropOverflow, Entry!DropOpen
  <2> QED
    BY <1>3, <2>1 DEF Entry!Holding, Entry!Shape
<1> QED
  <2>1. \/ \E l \in Listeners : \/ \E c \in Conns, k \in Clients : Entry!Accept(l, c, k)
                                \/ Entry!Reject(l) \/ Entry!SkipClient(l)
                                   \/ Entry!StartCounting(l)
                                \/ Entry!TakeSlot(l) \/ Entry!Acquire(l)
        \/ \E c \in Conns : Entry!Start(c) \/ Entry!DropOverflow(c) \/ Entry!DropOpen(c)
           \/ Entry!DropActive(c) \/ Entry!Gone(c)
        \/ UNCHANGED <<guards, client, Entry!table>>
    BY Zenon DEF Entry!Next, Entry!Reload, Entry!CheckClient, Entry!CheckTotal, Entry!Evict,
       Entry!NoRoom, Entry!Evicted, Entry!StartFails, Entry!Connect,
                 Entry!ParkTunnel, Entry!Finish, Entry!life, Entry!vars
  <2> QED
    BY <1>4, <1>5, <1>6, <1>9, <1>10, <1>11, <1>12, <1>13, <1>14, <2>1

-----------------------------------------------------------------------------
LEMMA AdmissionStarts ==
    ASSUME Entry!LimitAssumption, Entry!NoneAssumption
    PROVE  Entry!Init => Entry!AdmissionInv
<1> DEFINE per == v2  open == v4  overflow == v5  pc == v6  conn == v7  snap == v8  st == v10
           guards == v12  counting == v13  slots == v14  counted == v15  perClient == v16
<1> SUFFICES ASSUME Entry!Init PROVE Entry!AdmissionInv
  OBVIOUS
<1>1. guards = [c \in Conns |-> {}] /\ pc = [l \in Listeners |-> "idle"]
      /\ conn = [l \in Listeners |-> None] /\ st = [c \in Conns |-> "away"]
      /\ slots = {} /\ counted = {} /\ counting = FALSE /\ perClient = [k \in Clients |-> 0]
      /\ open = 0 /\ overflow = 0
  BY DEF Entry!Init
<1>2. Entry!TypeOK
  <2>1. Entry!LimiterOK /\ Entry!RowsOK
    BY <1>1 DEF Entry!LimiterOK, Entry!RowsOK, Entry!LimitAssumption
  <2>2. snap \in [Listeners -> [max : MaxConns, per : PerClient]]
    BY DEF Entry!Init
  <2>3. Entry!Shape
    BY <1>1, <2>2, ZenonT(30) DEF Entry!Shape, Entry!Init
  <2> QED
    BY <2>1, <2>3 DEF Entry!TypeOK
<1>3. Entry!HandsApart /\ Entry!SharesByStage /\ Entry!TableOfLiving
  BY <1>1 DEF Entry!HandsApart, Entry!SharesByStage, Entry!TableOfLiving
<1>4. /\ Entry!Holding("open") = {} /\ Entry!Holding("overflow") = {} /\ Entry!Plain = {}
         /\ Entry!Promised = {}
      /\ \A k : Entry!Of(counted, k) = {}
  BY <1>1 DEF Entry!Holding, Entry!Plain, Entry!Serving, Entry!Promised, Entry!Of
<1>5. Entry!SharesAccounted /\ Entry!ClientsAccounted
  BY <1>1, <1>4, SameSize, FS_EmptySet DEF Entry!SharesAccounted, Entry!ClientsAccounted
<1>6. Entry!PlainBounded
  <2>1. Entry!Cardinality(Listeners) \in Nat \ {0}
    BY SameSize, FS_CardinalityType, FS_EmptySet DEF Entry!LimitAssumption
  <2> QED
    BY <1>4, <2>1, TopIsTop, SameSize, FS_EmptySet DEF Entry!PlainBounded
<1> QED
  BY <1>2, <1>3, <1>5, <1>6 DEF Entry!AdmissionInv

LEMMA AdmissionStep ==
    ASSUME Entry!LimitAssumption, Entry!NoneAssumption, Entry!AdmissionInv,
           [Entry!Next]_(Entry!vars)
    PROVE  Entry!AdmissionInv'
<1>1. Entry!Shape' /\ Entry!HandsApart' /\ Entry!SharesByStage'
  BY ShapeStep DEF Entry!AdmissionInv, Entry!TypeOK
<1>2. Entry!SharesAccounted' /\ Entry!LimiterOK'
  BY SharesStep DEF Entry!AdmissionInv, Entry!TypeOK
<1>3. Entry!PlainBounded' /\ Entry!ClientsAccounted' /\ Entry!TableOfLiving' /\ Entry!RowsOK'
  BY PlainStep, TableStep
<1> QED
  BY <1>1, <1>2, <1>3 DEF Entry!AdmissionInv, Entry!TypeOK

\* While it lives, a connection has its share.
LEMMA LivingKept == Entry!SharesByStage => Entry!LivingHoldShares
BY DEF Entry!SharesByStage, Entry!LivingHoldShares

LEMMA EntryInductive == Spec => []EntryInv
<1>1. Entry!LimitAssumption /\ Entry!NoneAssumption
  BY EntryAssumption
<1>2. Init => EntryInv
  BY <1>1, AdmissionStarts DEF Init, EntryInv
<1>3. EntryInv /\ [Next]_vars => EntryInv'
  <2> SUFFICES ASSUME EntryInv, [Next]_vars, part' = "entry" PROVE Entry!AdmissionInv'
    BY DEF EntryInv
  <2>1. part = "entry"
    BY SamePart
  <2>2. [Entry!Next]_(Entry!vars)
    BY <2>1 DEF Next, EntryStep, LoopStep, BodyStep, AnswerStep, PipesStep, PartsStep, vars,
       Entry!vars,
           Entry!config, Entry!limiter, Entry!acceptor, Entry!life, Entry!table
  <2>3. Entry!AdmissionInv
    BY <2>1 DEF EntryInv
  <2> QED
    BY <1>1, <2>2, <2>3, AdmissionStep
<1> QED
  BY <1>2, <1>3, PTL DEF Spec

\* What the limiter says is open, over the limit and of each client is what the connections hold,
\* and no more are served than the limit and its overflow allow, whatever is reloaded meanwhile
\* (ConnLimiter, ClientTable, ConnGuard, accept_loop).
THEOREM SharesAlwaysAccounted == Spec => []SharesAccounted
<1>1. EntryInv => SharesAccounted
  <2> SUFFICES ASSUME EntryInv, part = "entry"
               PROVE  /\ Entry!TypeOK /\ Entry!SharesAccounted /\ Entry!LivingHoldShares
                      /\ Entry!ServingBounded /\ Entry!ClientsAccounted
    BY DEF SharesAccounted
  <2>1. Entry!LimitAssumption
    BY EntryAssumption
  <2>2. Entry!AdmissionInv
    BY DEF EntryInv
  <2>3. Entry!LivingHoldShares
    BY <2>2, LivingKept DEF Entry!AdmissionInv
  <2>4. Entry!ServingBounded
    BY <2>1, <2>2, ServingKept
  <2> QED
    BY <2>2, <2>3, <2>4 DEF Entry!AdmissionInv
<1> QED
  BY <1>1, EntryInductive, PTL

-----------------------------------------------------------------------------
\* The life of a connection.
LEMMA FirstLineIsWait ==
    ASSUME Loop!ConnLoopAssumption, Loop!Typed, Loop!KeptAlive, v3 = "top"
    PROVE  Loop!FirstLineWait \in Nat /\ Loop!FirstLineWait # None
           /\ (Loop!FirstLineWait = 0 => v1.timeout = 0 /\ v1.header = 0)
<1> DEFINE conf == v1  served == v4
<1> USE DEF Loop!Typed, Loop!ConnLoopAssumption
<1>1. CASE Loop!UsesGrace
  BY <1>1 DEF Loop!FirstLineWait, Loop!UsesGrace
<1>2. CASE ~ Loop!UsesGrace /\ served > 0
  BY <1>2 DEF Loop!FirstLineWait, Loop!KeptAlive
<1>3. CASE ~ Loop!UsesGrace /\ ~ (served > 0)
  <2> DEFINE t == Loop!FirstReadTimeout(conf)
  <2>1. t \in Nat /\ (t = 0 => conf.timeout = 0 /\ conf.header = 0)
    BY DEF Loop!FirstReadTimeout
  <2>2. Loop!FirstLineWait = IF ~ conf.overflow THEN t
                        ELSE IF t = 0 \/ OverflowTimeout < t THEN OverflowTimeout ELSE t
    BY <1>3, Zenon DEF Loop!FirstLineWait
  <2> HIDE DEF t
  <2> QED
    BY <2>1, <2>2
<1> QED
  BY <1>1, <1>2, <1>3

\* The grace is for connections that are kept alive.
LEMMA GraceKeeps == Loop!UsesGrace => v1.keepalive # 0
BY DEF Loop!UsesGrace

LEMMA LoopStarts == ASSUME Loop!ConnLoopAssumption PROVE Loop!Init => Loop!LoopInv
<1> DEFINE conf == v1  pc == v3  served == v4  sock == v5  known == v6  buffered == v7
           sent == v8  head == v10  clock == v11  since == v13  now == v14  first == v15
<1> SUFFICES ASSUME Loop!Init PROVE Loop!LoopInv
  OBVIOUS
<1>1. /\ conf.timeout \in Nat /\ conf.header \in Nat /\ conf.keepalive \in Nat
      /\ conf.grace \in Nat
  BY DEF Loop!Init, Loop!ConnLoopAssumption
<1>2. /\ pc = "top" /\ served = 0 /\ buffered = 0 /\ head = 0 /\ since = 0 /\ now = 0
      /\ first = None /\ sent = 0
      /\ clock = [started |-> FALSE, deadline |-> None]
      /\ (sock = 0 /\ known = None) \/ (sock = Loop!FirstReadTimeout(conf) /\ known = sock)
  BY Zenon DEF Loop!Init
<1>3. Loop!FirstReadTimeout(conf) \in Nat
  BY <1>1 DEF Loop!FirstReadTimeout
<1>4. Loop!Typed
  BY <1>1, <1>2, <1>3 DEF Loop!Typed
<1>5. Loop!KeptAlive /\ Loop!SocketKnown /\ Loop!HeadClock /\ Loop!HandsEmpty
  BY <1>2 DEF Loop!KeptAlive, Loop!SocketKnown, Loop!HeadClock, Loop!HandsEmpty, Loop!Reading
<1> QED
  BY <1>4, <1>5 DEF Loop!LoopInv

LEMMA LoopKeeps ==
    ASSUME Loop!ConnLoopAssumption, Loop!LoopInv, [Loop!Next]_(Loop!vars)
    PROVE  Loop!LoopInv'
<1> DEFINE conf == v1  park == v2  pc == v3  served == v4  sock == v5  known == v6
           buffered == v7  sent == v8  head == v10  clock == v11  since == v13  now == v14
           first == v15
<1> USE DEF Loop!LoopInv, Loop!ConnLoopAssumption
<1>1. CASE Loop!ServeOne
  <2>1. CASE known = Loop!FirstLineWait
    <3>1. /\ pc = "top"
          /\ pc' = "read"
          /\ clock' = [started |-> FALSE, deadline |-> None]
          /\ head' = 0 /\ first' = None
          /\ conf' = conf /\ served' = served /\ buffered' = buffered /\ sent' = sent
          /\ sock' = sock /\ known' = known /\ since' = since /\ now' = now
      BY <1>1, <2>1, Zenon DEF Loop!ServeOne, Loop!input
    <3>2. Loop!Typed'
      BY <3>1, <2>1, FirstLineIsWait DEF Loop!Typed
    <3>3. Loop!KeptAlive'
      BY <3>1, <2>1, FirstLineIsWait DEF Loop!KeptAlive, Loop!Typed
    <3>4. Loop!SocketKnown'
      BY <3>1, <2>1, FirstLineIsWait DEF Loop!SocketKnown, Loop!Reading, Loop!Typed,
        Loop!KeptAlive
    <3>5. Loop!HeadClock'
      BY <3>1, <2>1, FirstLineIsWait DEF Loop!HeadClock, Loop!Reading, Loop!Typed
    <3>6. Loop!HandsEmpty'
      BY <3>1, <2>1, FirstLineIsWait DEF Loop!HandsEmpty, Loop!Typed
    <3> QED
      BY <3>2, <3>3, <3>4, <3>5, <3>6
  <2>2. CASE known # Loop!FirstLineWait
    <3>1. /\ pc = "top"
          /\ pc' = "read"
          /\ clock' = [started |-> FALSE, deadline |-> None]
          /\ head' = 0 /\ first' = None
          /\ sock' = Loop!FirstLineWait /\ known' = Loop!FirstLineWait
          /\ conf' = conf /\ served' = served /\ buffered' = buffered /\ sent' = sent
          /\ since' = since /\ now' = now
      BY <1>1, <2>2, Zenon DEF Loop!ServeOne, Loop!input
    <3>2. Loop!Typed'
      BY <3>1, <2>2, FirstLineIsWait DEF Loop!Typed
    <3>3. Loop!KeptAlive'
      BY <3>1, <2>2, FirstLineIsWait DEF Loop!KeptAlive, Loop!Typed
    <3>4. Loop!SocketKnown'
      BY <3>1, <2>2, FirstLineIsWait DEF Loop!SocketKnown, Loop!Reading, Loop!Typed,
        Loop!KeptAlive
    <3>5. Loop!HeadClock'
      BY <3>1, <2>2, FirstLineIsWait DEF Loop!HeadClock, Loop!Reading, Loop!Typed
    <3>6. Loop!HandsEmpty'
      BY <3>1, <2>2, FirstLineIsWait DEF Loop!HandsEmpty, Loop!Typed
    <3> QED
      BY <3>2, <3>3, <3>4, <3>5, <3>6
  <2> QED
    BY <2>1, <2>2
<1>2. CASE Loop!Consume
  <2>1. /\ pc = "read" /\ buffered > 0
        /\ buffered' = buffered - 1 /\ head' = head + 1
        /\ clock' = [clock EXCEPT !.started = TRUE]
        /\ first = None => first' = now
        /\ first # None => first' = first
        /\ conf' = conf /\ served' = served /\ sent' = sent /\ sock' = sock /\ known' = known
        /\ since' = since /\ now' = now
    BY <1>2, Zenon DEF Loop!Consume
  <2>2. pc' \in {"read", "line", "head"}
    BY <1>2 DEF Loop!Consume
  <2>3. /\ clock'.started /\ clock'.deadline = clock.deadline
        /\ clock' = [started |-> TRUE, deadline |-> clock.deadline]
    BY <2>1 DEF Loop!Typed
  <2>4. buffered' \in Nat /\ head' \in Nat
    BY <2>1 DEF Loop!Typed
  <2>5. first' \in Nat \cup {None}
    BY <2>1 DEF Loop!Typed
  <2>6. clock' \in [started : BOOLEAN, deadline : Nat \cup {None}]
    BY <2>3 DEF Loop!Typed
  <2>7. Loop!Typed'
    BY <2>1, <2>2, <2>3, <2>4, <2>5, <2>6 DEF Loop!Typed
  <2>8. Loop!KeptAlive'
    BY <2>1, <2>2, <2>3, <2>4, <2>5, <2>6 DEF Loop!KeptAlive, Loop!Typed
  <2>9. Loop!SocketKnown'
    BY <2>1, <2>2, <2>3, <2>4, <2>5, <2>6 DEF Loop!SocketKnown, Loop!Reading, Loop!Typed,
      Loop!KeptAlive
  <2>10. Loop!HeadClock'
    BY <2>1, <2>2, <2>3, <2>4, <2>5, <2>6 DEF Loop!HeadClock, Loop!Reading, Loop!Typed
  <2>11. Loop!HandsEmpty'
    BY <2>1, <2>2, <2>3, <2>4, <2>5, <2>6 DEF Loop!HandsEmpty, Loop!Typed
  <2> QED
    BY <2>7, <2>8, <2>9, <2>10, <2>11
<1>3. CASE Loop!BeforeRecv
  <2>1. CASE conf.header = 0 \/ ~ clock.started
    <3>1. /\ pc = "read" /\ pc' = "recv"
          /\ since' = now
          /\ conf' = conf /\ served' = served /\ head' = head /\ buffered' = buffered
          /\ sent' = sent /\ sock' = sock /\ known' = known /\ clock' = clock /\ first' = first
          /\ now' = now
      BY <1>3, <2>1, Zenon DEF Loop!BeforeRecv, Loop!input
    <3>2. Loop!Typed'
      BY <2>1, <3>1 DEF Loop!Typed
    <3>3. Loop!KeptAlive'
      BY <2>1, <3>1 DEF Loop!KeptAlive, Loop!Typed
    <3>4. Loop!SocketKnown'
      BY <2>1, <3>1 DEF Loop!SocketKnown, Loop!Reading, Loop!Typed, Loop!KeptAlive
    <3>5. Loop!HeadClock'
      BY <2>1, <3>1 DEF Loop!HeadClock, Loop!Reading, Loop!Typed
    <3>6. Loop!HandsEmpty'
      BY <2>1, <3>1 DEF Loop!HandsEmpty, Loop!Typed
    <3> QED
      BY <3>2, <3>3, <3>4, <3>5, <3>6
  <2>2. CASE ~ (conf.header = 0 \/ ~ clock.started)
    <3> DEFINE deadline == IF clock.deadline = None THEN now + conf.header ELSE clock.deadline
    <3>1. deadline = first + conf.header /\ now <= deadline /\ first \in Nat
          /\ conf.header \in Nat /\ pc = "read"
      BY <1>3, <2>2 DEF Loop!BeforeRecv, Loop!Typed, Loop!HeadClock, Loop!Reading
    <3>2. /\ pc = "read"
          /\ since' = now
          /\ conf' = conf /\ served' = served /\ head' = head /\ buffered' = buffered
          /\ sent' = sent /\ now' = now /\ first' = first
      BY <1>3, <2>2, Zenon DEF Loop!BeforeRecv, Loop!input
    <3>3. clock' = [clock EXCEPT !.deadline = deadline]
      BY <1>3, <2>2, Zenon DEF Loop!BeforeRecv
    <3>4. pc' = IF deadline - now <= 0 THEN "timed_out" ELSE "recv"
      BY <1>3, <2>2, Zenon DEF Loop!BeforeRecv
    <3>5. IF deadline - now > 0 /\ (known = None \/ known = 0 \/ known > deadline - now)
          THEN sock' = deadline - now /\ known' = deadline - now
          ELSE sock' = sock /\ known' = known
      BY <1>3, <2>2, Zenon DEF Loop!BeforeRecv
    <3> HIDE DEF deadline
    <3>6. known \in Nat /\ sock = known
      BY <3>2 DEF Loop!Typed, Loop!SocketKnown, Loop!Reading
    <3>7. /\ pc' \in {"timed_out", "recv"} /\ sock' \in Nat /\ known' = sock'
          /\ pc' = "recv" => sock' # 0 /\ now + sock' <= deadline
          /\ sock' = 0 => sock = 0
      <4>1. CASE deadline - now > 0 /\ (known = None \/ known = 0 \/ known > deadline - now)
        BY <3>4, <3>5, <3>6, <3>1, <4>1 DEF Loop!Typed
      <4>2. CASE ~ (deadline - now > 0 /\ (known = None \/ known = 0 \/ known > deadline - now))
        BY <3>4, <3>5, <3>6, <3>1, <4>2 DEF Loop!Typed
      <4> QED
        BY <4>1, <4>2
    <3>8. deadline \in Nat /\ deadline # None
      BY <3>1
    <3>9. clock.started /\ clock \in [started : BOOLEAN, deadline : Nat \cup {None}]
      BY <2>2 DEF Loop!Typed
    <3>10. clock'.started /\ clock'.deadline = deadline
      BY <3>9, <3>3
    <3>11. clock' \in [started : BOOLEAN, deadline : Nat \cup {None}]
      BY <3>9, <3>3, <3>8
    <3>12. Loop!Typed'
      BY <2>2, <3>6, <3>7, <3>8, <3>1, <3>2, <3>10, <3>11 DEF Loop!Typed
    <3>13. Loop!KeptAlive'
      BY <2>2, <3>6, <3>7, <3>8, <3>1, <3>2, <3>10, <3>11 DEF Loop!KeptAlive, Loop!Typed
    <3>14. Loop!SocketKnown'
      BY <2>2, <3>6, <3>7, <3>8, <3>1, <3>2, <3>10, <3>11
         DEF Loop!SocketKnown, Loop!Reading, Loop!Typed, Loop!KeptAlive
    <3>15. Loop!HeadClock'
      BY <2>2, <3>6, <3>7, <3>8, <3>1, <3>2, <3>10, <3>11 DEF Loop!HeadClock, Loop!Reading,
        Loop!Typed
    <3>16. Loop!HandsEmpty'
      BY <2>2, <3>6, <3>7, <3>8, <3>1, <3>2, <3>10, <3>11 DEF Loop!HandsEmpty, Loop!Typed
    <3> QED
      BY <3>12, <3>13, <3>14, <3>15, <3>16
  <2> QED
    BY <2>1, <2>2
<1>4. CASE Loop!Recv
  <2>1. /\ pc = "recv" /\ pc' = "read"
        /\ buffered' = sent
        /\ sent' = 0
        /\ conf' = conf /\ served' = served /\ head' = head /\ sock' = sock /\ known' = known
        /\ clock' = clock /\ first' = first /\ since' = since /\ now' = now
    BY <1>4, Zenon DEF Loop!Recv, Loop!timing
  <2>2. Loop!Typed'
    BY <2>1 DEF Loop!Typed
  <2>3. Loop!KeptAlive'
    BY <2>1 DEF Loop!KeptAlive, Loop!Typed
  <2>4. Loop!SocketKnown'
    BY <2>1 DEF Loop!SocketKnown, Loop!Reading, Loop!Typed, Loop!KeptAlive
  <2>5. Loop!HeadClock'
    BY <2>1 DEF Loop!HeadClock, Loop!Reading, Loop!Typed
  <2>6. Loop!HandsEmpty'
    BY <2>1 DEF Loop!HandsEmpty, Loop!Typed
  <2> QED
    BY <2>2, <2>3, <2>4, <2>5, <2>6
<1>5. CASE Loop!RecvEnd
  <2>1. /\ pc = "recv" /\ pc' \in {"closed", "line", "head"}
        /\ head' = 2 \/ head' = head
        /\ conf' = conf /\ served' = served /\ buffered' = buffered /\ sent' = sent
        /\ sock' = sock /\ known' = known /\ clock' = clock /\ first' = first /\ since' = since
        /\ now' = now
    BY <1>5, Zenon DEF Loop!RecvEnd, Loop!Close, Loop!input, Loop!timing
  <2>2. Loop!Typed'
    BY <2>1 DEF Loop!Typed
  <2>3. Loop!KeptAlive'
    BY <2>1 DEF Loop!KeptAlive, Loop!Typed
  <2>4. Loop!SocketKnown'
    BY <2>1 DEF Loop!SocketKnown, Loop!Reading, Loop!Typed, Loop!KeptAlive
  <2>5. Loop!HeadClock'
    BY <2>1 DEF Loop!HeadClock, Loop!Reading, Loop!Typed
  <2>6. Loop!HandsEmpty'
    BY <2>1 DEF Loop!HandsEmpty, Loop!Typed
  <2> QED
    BY <2>2, <2>3, <2>4, <2>5, <2>6
<1>6. CASE Loop!RecvFails
  <2>1. /\ pc' = "closed"
        /\ conf' = conf /\ served' = served /\ head' = head /\ buffered' = buffered
        /\ sent' = sent /\ sock' = sock /\ known' = known /\ clock' = clock /\ first' = first
        /\ since' = since /\ now' = now
    BY <1>6, Zenon DEF Loop!RecvFails, Loop!Close, Loop!input, Loop!timing
  <2>2. Loop!Typed'
    BY <2>1 DEF Loop!Typed
  <2>3. Loop!KeptAlive'
    BY <2>1 DEF Loop!KeptAlive, Loop!Typed
  <2>4. Loop!SocketKnown'
    BY <2>1 DEF Loop!SocketKnown, Loop!Reading, Loop!Typed, Loop!KeptAlive
  <2>5. Loop!HeadClock'
    BY <2>1 DEF Loop!HeadClock, Loop!Reading, Loop!Typed
  <2>6. Loop!HandsEmpty'
    BY <2>1 DEF Loop!HandsEmpty, Loop!Typed
  <2> QED
    BY <2>2, <2>3, <2>4, <2>5, <2>6
<1>7. CASE Loop!WaitOn
  <2>1. CASE head = 0
    <3>1. /\ Loop!UsesGrace
          /\ pc \in {"recv", "timed_out"}
          /\ pc' = "park"
          /\ conf' = conf /\ served' = served /\ head' = head /\ buffered' = buffered
          /\ sent' = sent /\ sock' = sock /\ known' = known /\ clock' = clock /\ first' = first
          /\ since' = since /\ now' = now
      BY <1>7, <2>1, Zenon DEF Loop!WaitOn, Loop!input
    <3>2. Loop!Typed'
      BY <3>1, <2>1, GraceKeeps DEF Loop!Typed
    <3>3. Loop!KeptAlive'
      BY <3>1, <2>1, GraceKeeps DEF Loop!KeptAlive, Loop!Typed
    <3>4. Loop!SocketKnown'
      BY <3>1, <2>1, GraceKeeps DEF Loop!SocketKnown, Loop!Reading, Loop!Typed, Loop!KeptAlive
    <3>5. Loop!HeadClock'
      BY <3>1, <2>1, GraceKeeps DEF Loop!HeadClock, Loop!Reading, Loop!Typed
    <3>6. Loop!HandsEmpty'
      BY <3>1, <2>1, GraceKeeps DEF Loop!HandsEmpty, Loop!Typed
    <3> QED
      BY <3>2, <3>3, <3>4, <3>5, <3>6
  <2>2. CASE head # 0
    <3>1. /\ Loop!UsesGrace
          /\ pc \in {"recv", "timed_out"}
          /\ pc' = "read"
          /\ sock' = conf.keepalive /\ known' = conf.keepalive
          /\ conf' = conf /\ served' = served /\ head' = head /\ buffered' = buffered
          /\ sent' = sent /\ clock' = clock /\ first' = first /\ since' = since /\ now' = now
      BY <1>7, <2>2, Zenon DEF Loop!WaitOn, Loop!input
    <3>2. Loop!Typed'
      BY <3>1, <2>2, GraceKeeps DEF Loop!Typed
    <3>3. Loop!KeptAlive'
      BY <3>1, <2>2, GraceKeeps DEF Loop!KeptAlive, Loop!Typed
    <3>4. Loop!SocketKnown'
      BY <3>1, <2>2, GraceKeeps DEF Loop!SocketKnown, Loop!Reading, Loop!Typed, Loop!KeptAlive
    <3>5. Loop!HeadClock'
      BY <3>1, <2>2, GraceKeeps DEF Loop!HeadClock, Loop!Reading, Loop!Typed
    <3>6. Loop!HandsEmpty'
      BY <3>1, <2>2, GraceKeeps DEF Loop!HandsEmpty, Loop!Typed
    <3> QED
      BY <3>2, <3>3, <3>4, <3>5, <3>6
  <2> QED
    BY <2>1, <2>2
<1>8. CASE Loop!TimedOut
  <2>1. /\ pc' = "closed"
        /\ conf' = conf /\ served' = served /\ head' = head /\ buffered' = buffered
        /\ sent' = sent /\ sock' = sock /\ known' = known /\ clock' = clock /\ first' = first
        /\ since' = since /\ now' = now
    BY <1>8, Zenon DEF Loop!TimedOut, Loop!Close, Loop!input, Loop!timing
  <2>2. Loop!Typed'
    BY <2>1 DEF Loop!Typed
  <2>3. Loop!KeptAlive'
    BY <2>1 DEF Loop!KeptAlive, Loop!Typed
  <2>4. Loop!SocketKnown'
    BY <2>1 DEF Loop!SocketKnown, Loop!Reading, Loop!Typed, Loop!KeptAlive
  <2>5. Loop!HeadClock'
    BY <2>1 DEF Loop!HeadClock, Loop!Reading, Loop!Typed
  <2>6. Loop!HandsEmpty'
    BY <2>1 DEF Loop!HandsEmpty, Loop!Typed
  <2> QED
    BY <2>2, <2>3, <2>4, <2>5, <2>6
<1>9. CASE Loop!BlankLine
  <2>1. /\ pc = "line"
        /\ pc' = "next"
        /\ head' = 0
        /\ conf' = conf /\ served' = served /\ buffered' = buffered /\ sent' = sent
        /\ sock' = sock /\ known' = known /\ clock' = clock /\ first' = first /\ since' = since
        /\ now' = now
    BY <1>9, Zenon DEF Loop!BlankLine, Loop!input, Loop!timing
  <2>2. Loop!Typed'
    BY <2>1 DEF Loop!Typed
  <2>3. Loop!KeptAlive'
    BY <2>1 DEF Loop!KeptAlive, Loop!Typed
  <2>4. Loop!SocketKnown'
    BY <2>1 DEF Loop!SocketKnown, Loop!Reading, Loop!Typed, Loop!KeptAlive
  <2>5. Loop!HeadClock'
    BY <2>1 DEF Loop!HeadClock, Loop!Reading, Loop!Typed
  <2>6. Loop!HandsEmpty'
    BY <2>1 DEF Loop!HandsEmpty, Loop!Typed
  <2> QED
    BY <2>2, <2>3, <2>4, <2>5, <2>6
<1>10. CASE Loop!Refuse
  <2>1. /\ pc' = "closed"
        /\ conf' = conf /\ served' = served /\ head' = head /\ buffered' = buffered
        /\ sent' = sent /\ sock' = sock /\ known' = known /\ clock' = clock /\ first' = first
        /\ since' = since /\ now' = now
    BY <1>10, Zenon DEF Loop!Refuse, Loop!Close, Loop!input, Loop!timing
  <2>2. Loop!Typed'
    BY <2>1 DEF Loop!Typed
  <2>3. Loop!KeptAlive'
    BY <2>1 DEF Loop!KeptAlive, Loop!Typed
  <2>4. Loop!SocketKnown'
    BY <2>1 DEF Loop!SocketKnown, Loop!Reading, Loop!Typed, Loop!KeptAlive
  <2>5. Loop!HeadClock'
    BY <2>1 DEF Loop!HeadClock, Loop!Reading, Loop!Typed
  <2>6. Loop!HandsEmpty'
    BY <2>1 DEF Loop!HandsEmpty, Loop!Typed
  <2> QED
    BY <2>2, <2>3, <2>4, <2>5, <2>6
<1>11. CASE Loop!RequestLine
  <2>1. /\ pc = "line"
        /\ pc' = "read"
        /\ conf' = conf /\ served' = served /\ head' = head /\ buffered' = buffered
        /\ sent' = sent /\ sock' = sock /\ known' = known /\ clock' = clock /\ first' = first
        /\ since' = since /\ now' = now
    BY <1>11, Zenon DEF Loop!RequestLine, Loop!input, Loop!timing
  <2>2. Loop!Typed'
    BY <2>1 DEF Loop!Typed
  <2>3. Loop!KeptAlive'
    BY <2>1 DEF Loop!KeptAlive, Loop!Typed
  <2>4. Loop!SocketKnown'
    BY <2>1 DEF Loop!SocketKnown, Loop!Reading, Loop!Typed, Loop!KeptAlive
  <2>5. Loop!HeadClock'
    BY <2>1 DEF Loop!HeadClock, Loop!Reading, Loop!Typed
  <2>6. Loop!HandsEmpty'
    BY <2>1 DEF Loop!HandsEmpty, Loop!Typed
  <2> QED
    BY <2>2, <2>3, <2>4, <2>5, <2>6
<1>12. CASE Loop!Begin
  <2>1. /\ pc = "head"
        /\ head' = 0
        /\ conf' = conf /\ served' = served /\ sent' = sent /\ clock' = clock /\ first' = first
        /\ since' = since /\ now' = now
    BY <1>12 DEF Loop!Begin
  <2>2. pc' \in {"serving", "tunnel"}
    BY <1>12, Zenon DEF Loop!Begin
  <2>3. \/ sock' = conf.timeout /\ known' = conf.timeout
        \/ sock' = sock /\ known' = known
    BY <1>12, Zenon DEF Loop!Begin
  <2>4. buffered' = 0 \/ buffered' = buffered
    BY <1>12, Zenon DEF Loop!Begin
  <2>5. Loop!Typed'
    BY <2>2, <2>1, <2>3, <2>4 DEF Loop!Typed
  <2>6. Loop!KeptAlive'
    BY <2>2, <2>1, <2>3, <2>4 DEF Loop!KeptAlive, Loop!Typed
  <2>7. Loop!SocketKnown'
    BY <2>2, <2>1, <2>3, <2>4 DEF Loop!SocketKnown, Loop!Reading, Loop!Typed, Loop!KeptAlive
  <2>8. Loop!HeadClock'
    BY <2>2, <2>1, <2>3, <2>4 DEF Loop!HeadClock, Loop!Reading, Loop!Typed
  <2>9. Loop!HandsEmpty'
    BY <2>2, <2>1, <2>3, <2>4 DEF Loop!HandsEmpty, Loop!Typed
  <2> QED
    BY <2>5, <2>6, <2>7, <2>8, <2>9
<1>13. CASE Loop!Served
  <2>1. /\ pc = "serving"
        /\ served' = served + 1
        /\ conf' = conf /\ head' = head /\ buffered' = buffered /\ sent' = sent /\ sock' = sock
        /\ known' = known /\ clock' = clock /\ first' = first /\ since' = since /\ now' = now
    BY <1>13 DEF Loop!Served, Loop!input, Loop!timing
  <2>2. /\ pc' = "closed" \/ (pc' = "next" /\ conf.keepalive # 0)
    BY <1>13, Zenon DEF Loop!Served, Loop!Close
  <2>3. Loop!Typed'
    BY <2>1, <2>2 DEF Loop!Typed
  <2>4. Loop!KeptAlive'
    BY <2>1, <2>2 DEF Loop!KeptAlive, Loop!Typed
  <2>5. Loop!SocketKnown'
    BY <2>1, <2>2 DEF Loop!SocketKnown, Loop!Reading, Loop!Typed, Loop!KeptAlive
  <2>6. Loop!HeadClock'
    BY <2>1, <2>2 DEF Loop!HeadClock, Loop!Reading, Loop!Typed
  <2>7. Loop!HandsEmpty'
    BY <2>1, <2>2 DEF Loop!HandsEmpty, Loop!Typed
  <2> QED
    BY <2>3, <2>4, <2>5, <2>6, <2>7
<1>14. CASE Loop!ServeFails
  <2>1. /\ pc' = "closed"
        /\ conf' = conf /\ served' = served /\ head' = head /\ buffered' = buffered
        /\ sent' = sent /\ sock' = sock /\ known' = known /\ clock' = clock /\ first' = first
        /\ since' = since /\ now' = now
    BY <1>14, Zenon DEF Loop!ServeFails, Loop!Close, Loop!input, Loop!timing
  <2>2. Loop!Typed'
    BY <2>1 DEF Loop!Typed
  <2>3. Loop!KeptAlive'
    BY <2>1 DEF Loop!KeptAlive, Loop!Typed
  <2>4. Loop!SocketKnown'
    BY <2>1 DEF Loop!SocketKnown, Loop!Reading, Loop!Typed, Loop!KeptAlive
  <2>5. Loop!HeadClock'
    BY <2>1 DEF Loop!HeadClock, Loop!Reading, Loop!Typed
  <2>6. Loop!HandsEmpty'
    BY <2>1 DEF Loop!HandsEmpty, Loop!Typed
  <2> QED
    BY <2>2, <2>3, <2>4, <2>5, <2>6
<1>15. CASE Loop!NextStep
  <2>1. /\ pc = "next"
        /\ pc' \in {"park", "top"}
        /\ conf' = conf /\ served' = served /\ head' = head /\ buffered' = buffered
        /\ sent' = sent /\ sock' = sock /\ known' = known /\ clock' = clock /\ first' = first
        /\ since' = since /\ now' = now
    BY <1>15, Zenon DEF Loop!NextStep, Loop!input, Loop!timing
  <2>2. Loop!Typed'
    BY <2>1 DEF Loop!Typed
  <2>3. Loop!KeptAlive'
    BY <2>1 DEF Loop!KeptAlive, Loop!Typed
  <2>4. Loop!SocketKnown'
    BY <2>1 DEF Loop!SocketKnown, Loop!Reading, Loop!Typed, Loop!KeptAlive
  <2>5. Loop!HeadClock'
    BY <2>1 DEF Loop!HeadClock, Loop!Reading, Loop!Typed
  <2>6. Loop!HandsEmpty'
    BY <2>1 DEF Loop!HandsEmpty, Loop!Typed
  <2> QED
    BY <2>2, <2>3, <2>4, <2>5, <2>6
<1>16. CASE Loop!ParkNow
  <2>1. /\ pc = "park"
        /\ conf' = conf /\ served' = served /\ buffered' = buffered /\ sent' = sent
        /\ sock' = sock /\ known' = known /\ clock' = clock /\ first' = first /\ now' = now
    BY <1>16 DEF Loop!ParkNow, Loop!input
  <2>2. \/ pc' = "top" /\ head' \in Nat /\ since' = since
        \/ pc' = "parked" /\ head' = 0 /\ since' = now /\ ~ (buffered > 0)
    <3>1. CASE buffered > 0 \/ conf.keepalive = 0 \/ ~ park
      <4>1. pc' = "top" /\ head' = head /\ since' = since
        BY <1>16, <3>1, Zenon DEF Loop!ParkNow
      <4> QED
        BY <4>1 DEF Loop!Typed
    <3>2. CASE ~ (buffered > 0 \/ conf.keepalive = 0 \/ ~ park)
      <4>1. \/ pc' = "parked" /\ head' = 0 /\ since' = now
            \/ pc' = "top" /\ head' = 0 /\ since' = since
        BY <1>16, <3>2, Zenon DEF Loop!ParkNow
      <4> QED
        BY <3>2, <4>1
    <3> QED
      BY <3>1, <3>2
  <2>3. Loop!Typed'
    BY <2>1, <2>2 DEF Loop!Typed
  <2>4. Loop!KeptAlive'
    BY <2>1, <2>2 DEF Loop!KeptAlive, Loop!Typed
  <2>5. Loop!SocketKnown'
    BY <2>1, <2>2 DEF Loop!SocketKnown, Loop!Reading, Loop!Typed, Loop!KeptAlive
  <2>6. Loop!HeadClock'
    BY <2>1, <2>2 DEF Loop!HeadClock, Loop!Reading, Loop!Typed
  <2>7. Loop!HandsEmpty'
    BY <2>1, <2>2 DEF Loop!HandsEmpty, Loop!Typed
  <2> QED
    BY <2>3, <2>4, <2>5, <2>6, <2>7
<1>17. CASE Loop!Wake
  <2>1. /\ pc = "parked"
        /\ pc' \in {"top", "closed"}
        /\ conf' = conf /\ served' = served /\ head' = head /\ buffered' = buffered
        /\ sent' = sent /\ sock' = sock /\ known' = known /\ clock' = clock /\ first' = first
        /\ since' = since /\ now' = now
    BY <1>17, Zenon DEF Loop!Wake, Loop!input, Loop!timing
  <2>2. Loop!Typed'
    BY <2>1 DEF Loop!Typed
  <2>3. Loop!KeptAlive'
    BY <2>1 DEF Loop!KeptAlive, Loop!Typed
  <2>4. Loop!SocketKnown'
    BY <2>1 DEF Loop!SocketKnown, Loop!Reading, Loop!Typed, Loop!KeptAlive
  <2>5. Loop!HeadClock'
    BY <2>1 DEF Loop!HeadClock, Loop!Reading, Loop!Typed
  <2>6. Loop!HandsEmpty'
    BY <2>1 DEF Loop!HandsEmpty, Loop!Typed
  <2> QED
    BY <2>2, <2>3, <2>4, <2>5, <2>6
<1>18. CASE Loop!LeavesParked
  <2>1. /\ pc' = "closed"
        /\ conf' = conf /\ served' = served /\ head' = head /\ buffered' = buffered
        /\ sent' = sent /\ sock' = sock /\ known' = known /\ clock' = clock /\ first' = first
        /\ since' = since /\ now' = now
    BY <1>18, Zenon DEF Loop!LeavesParked, Loop!Close, Loop!input, Loop!timing
  <2>2. Loop!Typed'
    BY <2>1 DEF Loop!Typed
  <2>3. Loop!KeptAlive'
    BY <2>1 DEF Loop!KeptAlive, Loop!Typed
  <2>4. Loop!SocketKnown'
    BY <2>1 DEF Loop!SocketKnown, Loop!Reading, Loop!Typed, Loop!KeptAlive
  <2>5. Loop!HeadClock'
    BY <2>1 DEF Loop!HeadClock, Loop!Reading, Loop!Typed
  <2>6. Loop!HandsEmpty'
    BY <2>1 DEF Loop!HandsEmpty, Loop!Typed
  <2> QED
    BY <2>2, <2>3, <2>4, <2>5, <2>6
<1>19. CASE Loop!Send
  <2>1. /\ pc' = pc
        /\ sent' = sent + 1
        /\ conf' = conf /\ served' = served /\ head' = head /\ buffered' = buffered
        /\ sock' = sock /\ known' = known /\ clock' = clock /\ first' = first /\ since' = since
        /\ now' = now
    BY <1>19, Zenon DEF Loop!Send, Loop!timing
  <2>2. Loop!Typed'
    BY <2>1 DEF Loop!Typed
  <2>3. Loop!KeptAlive'
    BY <2>1 DEF Loop!KeptAlive, Loop!Typed
  <2>4. Loop!SocketKnown'
    BY <2>1 DEF Loop!SocketKnown, Loop!Reading, Loop!Typed, Loop!KeptAlive
  <2>5. Loop!HeadClock'
    BY <2>1 DEF Loop!HeadClock, Loop!Reading, Loop!Typed
  <2>6. Loop!HandsEmpty'
    BY <2>1 DEF Loop!HandsEmpty, Loop!Typed
  <2> QED
    BY <2>2, <2>3, <2>4, <2>5, <2>6
<1>20. CASE Loop!SendsNoMore
  <2>1. /\ pc' = pc
        /\ conf' = conf /\ served' = served /\ head' = head /\ buffered' = buffered
        /\ sent' = sent /\ sock' = sock /\ known' = known /\ clock' = clock /\ first' = first
        /\ since' = since /\ now' = now
    BY <1>20, Zenon DEF Loop!SendsNoMore, Loop!timing
  <2>2. Loop!Typed'
    BY <2>1 DEF Loop!Typed
  <2>3. Loop!KeptAlive'
    BY <2>1 DEF Loop!KeptAlive, Loop!Typed
  <2>4. Loop!SocketKnown'
    BY <2>1 DEF Loop!SocketKnown, Loop!Reading, Loop!Typed, Loop!KeptAlive
  <2>5. Loop!HeadClock'
    BY <2>1 DEF Loop!HeadClock, Loop!Reading, Loop!Typed
  <2>6. Loop!HandsEmpty'
    BY <2>1 DEF Loop!HandsEmpty, Loop!Typed
  <2> QED
    BY <2>2, <2>3, <2>4, <2>5, <2>6
<1>21. CASE Loop!Tick
  <2>1. /\ pc' = pc /\ now' = now + 1
        /\ conf' = conf /\ served' = served /\ head' = head /\ buffered' = buffered
        /\ sent' = sent /\ sock' = sock /\ known' = known /\ clock' = clock /\ first' = first
        /\ since' = since
    BY <1>21 DEF Loop!Tick, Loop!input, Loop!timing
  <2>2. /\ pc \in {"serving", "parked"} \/ (pc = "recv" /\ (sock = 0 \/ ~ (now >= since + sock)))
    BY <1>21 DEF Loop!Tick, Loop!Due
  <2>3. Loop!Typed'
    BY <2>1, <2>2 DEF Loop!Typed
  <2>4. Loop!KeptAlive'
    BY <2>1, <2>2 DEF Loop!KeptAlive, Loop!Typed
  <2>5. Loop!SocketKnown'
    BY <2>1, <2>2 DEF Loop!SocketKnown, Loop!Reading, Loop!Typed, Loop!KeptAlive
  <2>6. Loop!HeadClock'
    BY <2>1, <2>2 DEF Loop!HeadClock, Loop!Reading, Loop!Typed
  <2>7. Loop!HandsEmpty'
    BY <2>1, <2>2 DEF Loop!HandsEmpty, Loop!Typed
  <2> QED
    BY <2>3, <2>4, <2>5, <2>6, <2>7
<1>22. CASE UNCHANGED Loop!vars
  <2>1. /\ pc' = pc
        /\ conf' = conf /\ served' = served /\ head' = head /\ buffered' = buffered
        /\ sent' = sent /\ sock' = sock /\ known' = known /\ clock' = clock /\ first' = first
        /\ since' = since /\ now' = now
    BY <1>22, Zenon DEF Loop!vars
  <2>2. Loop!Typed'
    BY <2>1 DEF Loop!Typed
  <2>3. Loop!KeptAlive'
    BY <2>1 DEF Loop!KeptAlive, Loop!Typed
  <2>4. Loop!SocketKnown'
    BY <2>1 DEF Loop!SocketKnown, Loop!Reading, Loop!Typed, Loop!KeptAlive
  <2>5. Loop!HeadClock'
    BY <2>1 DEF Loop!HeadClock, Loop!Reading, Loop!Typed
  <2>6. Loop!HandsEmpty'
    BY <2>1 DEF Loop!HandsEmpty, Loop!Typed
  <2> QED
    BY <2>2, <2>3, <2>4, <2>5, <2>6
<1> QED
  BY <1>1, <1>2, <1>3, <1>4, <1>5, <1>6, <1>7, <1>8, <1>9, <1>10, <1>11, <1>12, <1>13, <1>14,
     <1>15, <1>16, <1>17, <1>18, <1>19, <1>20, <1>21, <1>22 DEF Loop!Next

\* From its first byte a head takes no longer than its timeout, and a wait without end is for a
\* connection without timeouts.
LEMMA WaitsAreBounded ==
    ASSUME Loop!ConnLoopAssumption, Loop!LoopInv
    PROVE  Loop!HeadIsTimely /\ Loop!WaitsEnd
<1>1. Loop!HeadIsTimely
  BY DEF Loop!LoopInv, Loop!Typed, Loop!HeadClock, Loop!Reading, Loop!HeadIsTimely,
    Loop!ConnLoopAssumption
<1>2. Loop!WaitsEnd
  BY DEF Loop!LoopInv, Loop!SocketKnown, Loop!Reading, Loop!WaitsEnd
<1> QED
  BY <1>1, <1>2

\* What the watcher gets has nothing in its buffers, nor part of a head in a hand.
LEMMA ParkedHoldsNothing ==
    ASSUME Loop!LoopInv
    PROVE  Loop!ParkedIsClean /\ Loop!HeadPartIsKeptStep
BY DEF Loop!LoopInv, Loop!HandsEmpty, Loop!ParkedIsClean, Loop!HeadPartIsKeptStep

LEMMA LoopInductive == Spec => []ConnInv
<1>1. Init => ConnInv
  BY LoopAssumption, LoopStarts DEF Init, ConnInv
<1>2. ConnInv /\ [Next]_vars => ConnInv'
  <2> SUFFICES ASSUME ConnInv, [Next]_vars, part' = "loop" PROVE Loop!LoopInv'
    BY DEF ConnInv
  <2>1. part = "loop"
    BY SamePart
  <2>2. [Loop!Next]_(Loop!vars)
    BY <2>1
       DEF Next, EntryStep, LoopStep, BodyStep, AnswerStep, PipesStep, PartsStep, vars,
       Loop!vars
  <2>3. Loop!LoopInv
    BY <2>1 DEF ConnInv
  <2> QED
    BY LoopAssumption, <2>2, <2>3, LoopKeeps
<1> QED
  BY <1>1, <1>2, PTL DEF Spec

\* However its bytes are spread, a head takes no longer than its timeout, and nobody waits without
\* end for a silent client unless no timeout is set (HeaderClock, serve_one, before_recv).
THEOREM WaitsAlwaysEnd == Spec => []WaitsEnd
<1>1. ConnInv => WaitsEnd
  BY LoopAssumption, WaitsAreBounded DEF ConnInv, WaitsEnd
<1> QED
  BY <1>1, LoopInductive, PTL

\* What the watcher holds has nothing of a request in its buffers (park_now).
THEOREM ParkedAlwaysClean == Spec => []ParkedIsClean
<1>1. ConnInv => ParkedIsClean
  BY ParkedHoldsNothing DEF ConnInv, ParkedIsClean
<1> QED
  BY <1>1, LoopInductive, PTL

\* No part of a head is forgotten when a connection is parked (Line::Idle, release_idle_buffers).
THEOREM HeadPartAlwaysKept == Spec => HeadPartIsKept
<1>1. ConnInv => [part = "loop" => Loop!HeadPartIsKeptStep]_vars
  BY ParkedHoldsNothing DEF ConnInv
<1> QED
  BY <1>1, LoopInductive, PTL DEF Spec, HeadPartIsKept

-----------------------------------------------------------------------------
\* The delivery of an answer.
\* A body of known length is whole as soon as so many bytes are there.
LEMMA LengthIsWhole ==
    ASSUME Answer!AnswerTyped, v1.framing = "length", v4 = v1.total
    PROVE  Answer!Whole
BY DEF Answer!AnswerTyped, Answer!Sent, Answer!Answers, Answer!Whole

\* ... and a whole one has so many bytes.
LEMMA WholeHasLength ==
    ASSUME Answer!AnswerTyped, v1.framing = "length", Answer!Whole
    PROVE  v4 = v1.total
BY DEF Answer!AnswerTyped, Answer!Sent, Answer!Answers, Answer!Whole

\* The amounts are numbers.
LEMMA Amounts ==
    ASSUME Answer!AnswerTyped
    PROVE  /\ v2.sends \in Nat /\ v1.total \in Nat /\ v4 \in Nat /\ v4 <= v2.sends
           /\ v1.framing = "length" => v2.sends <= v1.total
BY DEF Answer!AnswerTyped, Answer!Sent, Answer!Answers

\* The framing towards the client follows from that of the origin.
LEMMA Framings ==
    ASSUME Answer!AnswerTyped
    PROVE  /\ Answer!ClientFraming \in {"none", "length", "chunked", "close"}
           /\ Answer!ClientFraming = "none" <=> v1.framing = "none"
           /\ Answer!ClientFraming = "length" <=> v1.framing = "length"
           /\ Answer!ReadsFirst => v1.framing = "length"
<1> DEFINE r == v1
<1>1. r.framing \in {"none", "length", "chunked", "close"}
  BY DEF Answer!AnswerTyped, Answer!Answers
<1> QED
  BY <1>1 DEF Answer!ClientFraming, Answer!ReadsFirst

\* ... and is settled with the head of the answer.
LEMMA Settled ==
    ASSUME UNCHANGED <<v1, v2>>
    PROVE  Answer!ClientFraming' = Answer!ClientFraming
           /\ (Answer!ReadsFirst' <=> Answer!ReadsFirst) /\ (Answer!Good' <=> Answer!Good)
BY DEF Answer!ClientFraming, Answer!ReadsFirst, Answer!Good

\* An answer that is dropped leaves neither an entry nor anybody waiting.
LEMMA DropsBehind ==
    ASSUME Answer!Dropped
    PROVE  /\ v1' = v1 /\ v2' = v2 /\ v10' = v10 /\ v11' = v11
           /\ v7 \in {"open", "lost"} => v7' = "aborted"
           /\ v7 \notin {"open", "lost"} => v7' = v7
           /\ v8 = "led" => v8' = "not_stored"
           /\ v8 # "led" => v8' = v8
           /\ (v9' <=> v9) /\ (v12' <=> v12) /\ ~ v13'
<1> DEFINE r == v1  origin == v2  sink == v7  flight == v8  remembered == v9  old == v10
           target == v11  pooled == v12  keep == v13
<1>1. /\ r' = r /\ origin' = origin /\ old' = old /\ target' = target
      /\ remembered' = remembered /\ pooled' = pooled
  BY Zenon DEF Answer!Dropped, Answer!answer
<1>2. /\ sink \in {"open", "lost"} => sink' = "aborted"
      /\ sink \notin {"open", "lost"} => sink' = sink
  BY Zenon DEF Answer!Dropped
<1>3. /\ flight = "led" => flight' = "not_stored"
      /\ flight # "led" => flight' = flight
  BY Zenon DEF Answer!Dropped
<1>4. ~ keep'
  BY Zenon DEF Answer!Dropped
<1> QED
  BY <1>1, <1>2, <1>3, <1>4, Zenon

-----------------------------------------------------------------------------
LEMMA DeliveryStarts == ASSUME Answer!DeliveryAssumption PROVE Answer!Init => Answer!DInv
<1> DEFINE r == v1  origin == v2  pc == v3  read == v4  clean == v5  client == v6  sink == v7
           flight == v8  remembered == v9  old == v10  target == v11  pooled == v12
<1> SUFFICES ASSUME Answer!Init PROVE Answer!DInv
  OBVIOUS
<1>1. /\ r \in Answer!Answers /\ origin \in Answer!Sent(r) /\ pc = "plan" /\ read = 0
      /\ client = [head |-> None, bytes |-> 0, last |-> FALSE]
      /\ sink = "none" /\ (r.led => flight = "led")
  BY Zenon DEF Answer!Init
<1>2. clean = TRUE /\ remembered = FALSE /\ old = r.stale /\ target = r.unsafe /\ pooled = FALSE
  BY Zenon DEF Answer!Init
<1>3. Answer!AnswerTyped
  BY <1>1 DEF Answer!AnswerTyped, Answer!Sent
<1>4. Answer!ClientTyped
  BY <1>1 DEF Answer!ClientTyped
<1>5. Answer!Passed /\ Answer!GivenUp
  BY <1>1, <1>2 DEF Answer!Passed, Answer!GivenUp, Answer!Started, Answer!Ended, Answer!Stopped
<1>6. Answer!Behind
  BY <1>1, <1>2 DEF Answer!Behind, Answer!Stopped
<1>7. Answer!Replaced
  BY <1>1, <1>2, Zenon DEF Answer!Replaced
<1> QED
  BY <1>3, <1>4, <1>5, <1>6, <1>7 DEF Answer!DInv

LEMMA DeliveryStep ==
    ASSUME Answer!DeliveryAssumption, Answer!DInv, [Answer!Next]_(Answer!vars)
    PROVE  Answer!DInv'
<1> DEFINE r == v1  origin == v2  pc == v3  read == v4  clean == v5  client == v6  sink == v7
           flight == v8  remembered == v9  old == v10  target == v11  pooled == v12
           keep == v13
<1> USE DEF Answer!DInv
<1>1. CASE Answer!Plan
  <2>1. /\ pc = "plan"
        /\ (pc' = "early" /\ Answer!ReadsFirst) \/ (pc' = "head" /\ ~ Answer!ReadsFirst)
        /\ sink' \in {"open", "lost"} \/ sink' = "none"
        /\ keep' => Answer!ClientFraming # "close"
        /\ old' => old /\ ~ (~ r.storable /\ r.stale /\ r.status = "full")
        /\ target' => target /\ ~ (r.unsafe /\ Answer!Good)
        /\ r' = r /\ origin' = origin /\ read' = read /\ (clean' <=> clean)
        /\ client' = client /\ flight' = flight /\ (remembered' <=> remembered)
        /\ (pooled' <=> pooled)
    BY <1>1, Zenon DEF Answer!Plan, Answer!answer
  <2>2. Answer!AnswerTyped'
    BY <2>1, Amounts
       DEF Answer!AnswerTyped
  <2>3. Answer!ClientTyped'
    BY <2>1, Settled, Framings, Amounts
       DEF Answer!ClientTyped, Answer!AnswerTyped
  <2>4. Answer!Passed'
    BY <2>1, Settled, Framings, Amounts, LengthIsWhole, WholeHasLength
       DEF Answer!Passed, Answer!Started, Answer!Ended, Answer!Stopped, Answer!Whole,
         Answer!AnswerTyped, Answer!ClientTyped
  <2>5. Answer!GivenUp'
    BY <2>1, Settled, Framings, Amounts, LengthIsWhole, WholeHasLength
       DEF Answer!GivenUp, Answer!Passed, Answer!Started, Answer!Ended, Answer!Stopped,
         Answer!Whole, Answer!AnswerTyped, Answer!ClientTyped
  <2>6. Answer!Behind'
    BY <2>1, Settled, Amounts
       DEF Answer!Behind, Answer!Passed, Answer!Started, Answer!Ended, Answer!Stopped,
         Answer!Whole
  <2>7. Answer!Replaced'
    BY <2>1, Settled
       DEF Answer!Replaced, Answer!Started
  <2> QED
    BY <2>2, <2>3, <2>4, <2>5, <2>6, <2>7
<1>2. CASE Answer!ReadEarly
  <2>1. CASE read < origin.sends
    <3>1. /\ pc = "early"
          /\ read < origin.sends
          /\ read' = read + 1
          /\ pc' = pc
          /\ r' = r /\ origin' = origin /\ (clean' <=> clean) /\ client' = client
          /\ sink' = sink /\ flight' = flight /\ (remembered' <=> remembered)
          /\ (old' <=> old) /\ (target' <=> target) /\ (pooled' <=> pooled)
          /\ (keep' <=> keep)
      BY <1>2, <2>1, Zenon DEF Answer!ReadEarly, Answer!answer, Answer!store
    <3>2. Answer!AnswerTyped'
      BY <3>1, Amounts
         DEF Answer!AnswerTyped
    <3>3. Answer!ClientTyped'
      BY <3>1, Settled, Framings, Amounts
         DEF Answer!ClientTyped, Answer!AnswerTyped
    <3>4. Answer!Passed'
      BY <3>1, Settled, Framings, Amounts, LengthIsWhole, WholeHasLength
         DEF Answer!Passed, Answer!Started, Answer!Ended, Answer!Stopped, Answer!Whole,
           Answer!AnswerTyped, Answer!ClientTyped
    <3>5. Answer!GivenUp'
      BY <3>1, Settled, Framings, Amounts, LengthIsWhole, WholeHasLength
         DEF Answer!GivenUp, Answer!Passed, Answer!Started, Answer!Ended, Answer!Stopped,
           Answer!Whole, Answer!AnswerTyped, Answer!ClientTyped
    <3>6. Answer!Behind'
      BY <3>1, Settled, Amounts
         DEF Answer!Behind, Answer!Passed, Answer!Started, Answer!Ended, Answer!Stopped,
           Answer!Whole
    <3>7. Answer!Replaced'
      BY <3>1, Settled
         DEF Answer!Replaced, Answer!Started
    <3> QED
      BY <3>2, <3>3, <3>4, <3>5, <3>6, <3>7
  <2>2. CASE ~ (read < origin.sends) /\ origin.ends = "end"
    <3>1. /\ pc = "early"
          /\ ~ (read < origin.sends)
          /\ origin.ends = "end"
          /\ pc' = "head"
          /\ sink' = sink \/ (sink = "open" /\ sink' = "lost")
          /\ r' = r /\ origin' = origin /\ read' = read /\ (clean' <=> clean)
          /\ client' = client /\ flight' = flight /\ (remembered' <=> remembered)
          /\ (old' <=> old) /\ (target' <=> target) /\ (pooled' <=> pooled)
          /\ (keep' <=> keep)
      BY <1>2, <2>2, Zenon DEF Answer!ReadEarly, Answer!Store, Answer!answer, Answer!store
    <3>2. Answer!AnswerTyped'
      BY <3>1, Amounts
         DEF Answer!AnswerTyped
    <3>3. Answer!ClientTyped'
      BY <3>1, Settled, Framings, Amounts
         DEF Answer!ClientTyped, Answer!AnswerTyped
    <3>4. Answer!Passed'
      BY <3>1, Settled, Framings, Amounts, LengthIsWhole, WholeHasLength
         DEF Answer!Passed, Answer!Started, Answer!Ended, Answer!Stopped, Answer!Whole,
           Answer!AnswerTyped, Answer!ClientTyped
    <3>5. Answer!GivenUp'
      BY <3>1, Settled, Framings, Amounts, LengthIsWhole, WholeHasLength
         DEF Answer!GivenUp, Answer!Passed, Answer!Started, Answer!Ended, Answer!Stopped,
           Answer!Whole, Answer!AnswerTyped, Answer!ClientTyped
    <3>6. Answer!Behind'
      BY <3>1, Settled, Amounts
         DEF Answer!Behind, Answer!Passed, Answer!Started, Answer!Ended, Answer!Stopped,
           Answer!Whole
    <3>7. Answer!Replaced'
      BY <3>1, Settled
         DEF Answer!Replaced, Answer!Started
    <3> QED
      BY <3>2, <3>3, <3>4, <3>5, <3>6, <3>7
  <2>3. CASE ~ (read < origin.sends) /\ origin.ends # "end"
    <3>1. /\ pc = "early"
          /\ Answer!Dropped
          /\ \/ pc' = "done" /\ client' = [client EXCEPT !.head = "502"]
             \/ pc' = "failed" /\ client' = client
          /\ read' = read /\ (clean' <=> clean)
      BY <1>2, <2>3, Zenon DEF Answer!ReadEarly
    <3>2. Answer!AnswerTyped'
      BY <3>1, DropsBehind, Amounts
         DEF Answer!AnswerTyped
    <3>3. Answer!ClientTyped'
      BY <3>1, DropsBehind, Settled, Framings, Amounts
         DEF Answer!ClientTyped, Answer!AnswerTyped
    <3>4. Answer!Passed'
      BY <3>1, DropsBehind, Settled, Framings, Amounts, LengthIsWhole, WholeHasLength
         DEF Answer!Passed, Answer!Started, Answer!Ended, Answer!Stopped, Answer!Whole,
           Answer!AnswerTyped, Answer!ClientTyped
    <3>5. Answer!GivenUp'
      BY <3>1, DropsBehind, Settled, Framings, Amounts, LengthIsWhole, WholeHasLength
         DEF Answer!GivenUp, Answer!Passed, Answer!Started, Answer!Ended, Answer!Stopped,
           Answer!Whole, Answer!AnswerTyped, Answer!ClientTyped
    <3>6. Answer!Behind'
      BY <3>1, DropsBehind, Settled, Amounts
         DEF Answer!Behind, Answer!Passed, Answer!Started, Answer!Ended, Answer!Stopped,
           Answer!Whole
    <3>7. Answer!Replaced'
      BY <3>1, DropsBehind, Settled
         DEF Answer!Replaced, Answer!Started
    <3> QED
      BY <3>2, <3>3, <3>4, <3>5, <3>6, <3>7
  <2> QED
    BY <2>1, <2>2, <2>3
<1>3. CASE Answer!WriteHead
  <2>1. /\ pc = "head"
        /\ pc' = "relay"
        /\ client' = [client EXCEPT !.head = Answer!ClientFraming, !.bytes = read]
        /\ r' = r /\ origin' = origin /\ read' = read /\ (clean' <=> clean)
        /\ sink' = sink /\ flight' = flight /\ (remembered' <=> remembered)
        /\ (old' <=> old) /\ (target' <=> target) /\ (pooled' <=> pooled)
        /\ (keep' <=> keep)
    BY <1>3, Zenon DEF Answer!WriteHead, Answer!answer, Answer!store
  <2>2. Answer!AnswerTyped'
    BY <2>1, Amounts
       DEF Answer!AnswerTyped
  <2>3. Answer!ClientTyped'
    BY <2>1, Settled, Framings, Amounts
       DEF Answer!ClientTyped, Answer!AnswerTyped
  <2>4. Answer!Passed'
    BY <2>1, Settled, Framings, Amounts, LengthIsWhole, WholeHasLength
       DEF Answer!Passed, Answer!Started, Answer!Ended, Answer!Stopped, Answer!Whole,
         Answer!AnswerTyped, Answer!ClientTyped
  <2>5. Answer!GivenUp'
    BY <2>1, Settled, Framings, Amounts, LengthIsWhole, WholeHasLength
       DEF Answer!GivenUp, Answer!Passed, Answer!Started, Answer!Ended, Answer!Stopped,
         Answer!Whole, Answer!AnswerTyped, Answer!ClientTyped
  <2>6. Answer!Behind'
    BY <2>1, Settled, Amounts
       DEF Answer!Behind, Answer!Passed, Answer!Started, Answer!Ended, Answer!Stopped,
         Answer!Whole
  <2>7. Answer!Replaced'
    BY <2>1, Settled
       DEF Answer!Replaced, Answer!Started
  <2> QED
    BY <2>2, <2>3, <2>4, <2>5, <2>6, <2>7
<1>4. CASE Answer!RelayPiece
  <2>1. /\ pc = "relay"
        /\ pc' = pc
        /\ ~ (Answer!ReadsFirst /\ read > 0)
        /\ read < origin.sends
        /\ read' = read + 1
        /\ client' = [client EXCEPT !.bytes = @ + 1]
        /\ sink' = sink \/ (sink = "open" /\ sink' = "lost")
        /\ r' = r /\ origin' = origin /\ (clean' <=> clean) /\ flight' = flight
        /\ (remembered' <=> remembered) /\ (old' <=> old) /\ (target' <=> target)
        /\ (pooled' <=> pooled) /\ (keep' <=> keep)
    BY <1>4, Zenon DEF Answer!RelayPiece, Answer!Store, Answer!answer
  <2>2. /\ client'.head = client.head /\ client'.last = client.last
        /\ client'.bytes = client.bytes + 1
    BY <2>1 DEF Answer!ClientTyped
  <2>3. Answer!AnswerTyped'
    BY <2>2, <2>1, Amounts
       DEF Answer!AnswerTyped
  <2>4. Answer!ClientTyped'
    BY <2>2, <2>1, Settled, Framings, Amounts
       DEF Answer!ClientTyped, Answer!AnswerTyped
  <2>5. Answer!Passed'
    BY <2>2, <2>1, Settled, Framings, Amounts, LengthIsWhole, WholeHasLength
       DEF Answer!Passed, Answer!Started, Answer!Ended, Answer!Stopped, Answer!Whole,
         Answer!AnswerTyped, Answer!ClientTyped
  <2>6. Answer!GivenUp'
    BY <2>2, <2>1, Settled, Framings, Amounts, LengthIsWhole, WholeHasLength
       DEF Answer!GivenUp, Answer!Passed, Answer!Started, Answer!Ended, Answer!Stopped,
         Answer!Whole, Answer!AnswerTyped, Answer!ClientTyped
  <2>7. Answer!Behind'
    BY <2>2, <2>1, Settled, Amounts
       DEF Answer!Behind, Answer!Passed, Answer!Started, Answer!Ended, Answer!Stopped,
         Answer!Whole
  <2>8. Answer!Replaced'
    BY <2>2, <2>1, Settled
       DEF Answer!Replaced, Answer!Started
  <2> QED
    BY <2>3, <2>4, <2>5, <2>6, <2>7, <2>8
<1>5. CASE Answer!RelayEnds
  <2>1. CASE origin.ends = "broken"
    <3>1. /\ pc = "relay"
          /\ pc' = "failed"
          /\ Answer!Dropped
          /\ read' = read /\ client' = client /\ (clean' <=> clean)
      BY <1>5, <2>1, Zenon DEF Answer!RelayEnds
    <3>2. Answer!AnswerTyped'
      BY <3>1, DropsBehind, Amounts
         DEF Answer!AnswerTyped
    <3>3. Answer!ClientTyped'
      BY <3>1, DropsBehind, Settled, Framings, Amounts
         DEF Answer!ClientTyped, Answer!AnswerTyped
    <3>4. Answer!Passed'
      BY <3>1, DropsBehind, Settled, Framings, Amounts, LengthIsWhole, WholeHasLength
         DEF Answer!Passed, Answer!Started, Answer!Ended, Answer!Stopped, Answer!Whole,
           Answer!AnswerTyped, Answer!ClientTyped
    <3>5. Answer!GivenUp'
      BY <3>1, DropsBehind, Settled, Framings, Amounts, LengthIsWhole, WholeHasLength
         DEF Answer!GivenUp, Answer!Passed, Answer!Started, Answer!Ended, Answer!Stopped,
           Answer!Whole, Answer!AnswerTyped, Answer!ClientTyped
    <3>6. Answer!Behind'
      BY <3>1, DropsBehind, Settled, Amounts
         DEF Answer!Behind, Answer!Passed, Answer!Started, Answer!Ended, Answer!Stopped,
           Answer!Whole
    <3>7. Answer!Replaced'
      BY <3>1, DropsBehind, Settled
         DEF Answer!Replaced, Answer!Started
    <3> QED
      BY <3>2, <3>3, <3>4, <3>5, <3>6, <3>7
  <2>2. CASE origin.ends # "broken"
    <3>1. /\ pc = "relay"
          /\ pc' = "last"
          /\ read = origin.sends
          /\ clean' <=> origin.ends = "end"
          /\ r' = r /\ origin' = origin /\ read' = read /\ client' = client /\ sink' = sink
          /\ flight' = flight /\ (remembered' <=> remembered) /\ (old' <=> old)
          /\ (target' <=> target) /\ (pooled' <=> pooled) /\ (keep' <=> keep)
      BY <1>5, <2>2, Zenon DEF Answer!RelayEnds, Answer!answer, Answer!store
    <3>2. Answer!AnswerTyped'
      BY <3>1, Amounts
         DEF Answer!AnswerTyped
    <3>3. Answer!ClientTyped'
      BY <3>1, Settled, Framings, Amounts
         DEF Answer!ClientTyped, Answer!AnswerTyped
    <3>4. Answer!Passed'
      BY <3>1, Settled, Framings, Amounts, LengthIsWhole, WholeHasLength
         DEF Answer!Passed, Answer!Started, Answer!Ended, Answer!Stopped, Answer!Whole,
           Answer!AnswerTyped, Answer!ClientTyped
    <3>5. Answer!GivenUp'
      BY <3>1, Settled, Framings, Amounts, LengthIsWhole, WholeHasLength
         DEF Answer!GivenUp, Answer!Passed, Answer!Started, Answer!Ended, Answer!Stopped,
           Answer!Whole, Answer!AnswerTyped, Answer!ClientTyped
    <3>6. Answer!Behind'
      BY <3>1, Settled, Amounts
         DEF Answer!Behind, Answer!Passed, Answer!Started, Answer!Ended, Answer!Stopped,
           Answer!Whole
    <3>7. Answer!Replaced'
      BY <3>1, Settled
         DEF Answer!Replaced, Answer!Started
    <3> QED
      BY <3>2, <3>3, <3>4, <3>5, <3>6, <3>7
  <2> QED
    BY <2>1, <2>2
<1>6. CASE Answer!LastChunk
  <2>1. /\ pc = "last"
        /\ pc' = "pool"
        /\ client' = [client EXCEPT !.last = (clean /\ Answer!ClientFraming = "chunked")]
        /\ r' = r /\ origin' = origin /\ read' = read /\ (clean' <=> clean)
        /\ sink' = sink /\ flight' = flight /\ (remembered' <=> remembered)
        /\ (old' <=> old) /\ (target' <=> target) /\ (pooled' <=> pooled)
        /\ (keep' <=> keep)
    BY <1>6, Zenon DEF Answer!LastChunk, Answer!answer, Answer!store
  <2>2. /\ client'.head = client.head /\ client'.bytes = client.bytes /\ client'.last \in BOOLEAN
        /\ client'.last <=> (clean /\ Answer!ClientFraming = "chunked")
        /\ client' = [head |-> client'.head, bytes |-> client'.bytes, last |-> client'.last]
    BY <2>1 DEF Answer!ClientTyped
  <2>3. Answer!AnswerTyped'
    BY <2>2, <2>1, Amounts
       DEF Answer!AnswerTyped
  <2>4. Answer!ClientTyped'
    BY <2>2, <2>1, Settled, Framings, Amounts
       DEF Answer!ClientTyped, Answer!AnswerTyped
  <2>5. Answer!Passed'
    BY <2>2, <2>1, Settled, Framings, Amounts, LengthIsWhole, WholeHasLength
       DEF Answer!Passed, Answer!Started, Answer!Ended, Answer!Stopped, Answer!Whole,
         Answer!AnswerTyped, Answer!ClientTyped
  <2>6. Answer!GivenUp'
    BY <2>2, <2>1, Settled, Framings, Amounts, LengthIsWhole, WholeHasLength
       DEF Answer!GivenUp, Answer!Passed, Answer!Started, Answer!Ended, Answer!Stopped,
         Answer!Whole, Answer!AnswerTyped, Answer!ClientTyped
  <2>7. Answer!Behind'
    BY <2>2, <2>1, Settled, Amounts
       DEF Answer!Behind, Answer!Passed, Answer!Started, Answer!Ended, Answer!Stopped,
         Answer!Whole
  <2>8. Answer!Replaced'
    BY <2>2, <2>1, Settled
       DEF Answer!Replaced, Answer!Started
  <2> QED
    BY <2>3, <2>4, <2>5, <2>6, <2>7, <2>8
<1>7. CASE Answer!GiveBack
  <2>1. /\ pc = "pool"
        /\ pc' = "finish"
        /\ pooled' <=> (clean /\ r.reusable)
        /\ r' = r /\ origin' = origin /\ read' = read /\ (clean' <=> clean)
        /\ client' = client /\ sink' = sink /\ flight' = flight
        /\ (remembered' <=> remembered) /\ (old' <=> old) /\ (target' <=> target)
        /\ (keep' <=> keep)
    BY <1>7, Zenon DEF Answer!GiveBack, Answer!answer, Answer!store
  <2>2. Answer!AnswerTyped'
    BY <2>1, Amounts
       DEF Answer!AnswerTyped
  <2>3. Answer!ClientTyped'
    BY <2>1, Settled, Framings, Amounts
       DEF Answer!ClientTyped, Answer!AnswerTyped
  <2>4. Answer!Passed'
    BY <2>1, Settled, Framings, Amounts, LengthIsWhole, WholeHasLength
       DEF Answer!Passed, Answer!Started, Answer!Ended, Answer!Stopped, Answer!Whole,
         Answer!AnswerTyped, Answer!ClientTyped
  <2>5. Answer!GivenUp'
    BY <2>1, Settled, Framings, Amounts, LengthIsWhole, WholeHasLength
       DEF Answer!GivenUp, Answer!Passed, Answer!Started, Answer!Ended, Answer!Stopped,
         Answer!Whole, Answer!AnswerTyped, Answer!ClientTyped
  <2>6. Answer!Behind'
    BY <2>1, Settled, Amounts
       DEF Answer!Behind, Answer!Passed, Answer!Started, Answer!Ended, Answer!Stopped,
         Answer!Whole
  <2>7. Answer!Replaced'
    BY <2>1, Settled
       DEF Answer!Replaced, Answer!Started
  <2> QED
    BY <2>2, <2>3, <2>4, <2>5, <2>6, <2>7
<1>8. CASE Answer!Finish
  <2>1. /\ pc = "finish"
        /\ pc' = "done"
        /\ keep' => keep /\ clean
        /\ r' = r /\ origin' = origin /\ read' = read /\ (clean' <=> clean)
        /\ client' = client /\ (old' <=> old) /\ (target' <=> target)
        /\ (pooled' <=> pooled)
    BY <1>8, Zenon DEF Answer!Finish, Answer!answer
  <2>2. /\ sink = "none" => sink' = "none"
        /\ sink # "none" /\ (~ clean \/ sink = "lost") => sink' = "aborted"
        /\ sink # "none" /\ clean /\ sink # "lost" => sink' = "stored"
    BY <1>8, Zenon DEF Answer!Finish
  <2>3. /\ flight # "led" => flight' = flight /\ (remembered' <=> remembered)
        /\ flight = "led" /\ sink' = "stored" => flight' = "stored"
        /\ flight = "led" /\ sink' # "stored" => flight' = "not_stored"
        /\ flight = "led" => (remembered' <=> clean /\ sink' # "stored")
    BY <1>8, Zenon DEF Answer!Finish
  <2>4. Answer!AnswerTyped'
    BY <2>1, <2>2, <2>3, Amounts
       DEF Answer!AnswerTyped
  <2>5. Answer!ClientTyped'
    BY <2>1, <2>2, <2>3, Settled, Framings, Amounts
       DEF Answer!ClientTyped, Answer!AnswerTyped
  <2>6. Answer!Passed'
    BY <2>1, <2>2, <2>3, Settled, Framings, Amounts, LengthIsWhole, WholeHasLength
       DEF Answer!Passed, Answer!Started, Answer!Ended, Answer!Stopped, Answer!Whole,
         Answer!AnswerTyped, Answer!ClientTyped
  <2>7. Answer!GivenUp'
    BY <2>1, <2>2, <2>3, Settled, Framings, Amounts, LengthIsWhole, WholeHasLength
       DEF Answer!GivenUp, Answer!Passed, Answer!Started, Answer!Ended, Answer!Stopped,
         Answer!Whole, Answer!AnswerTyped, Answer!ClientTyped
  <2>8. Answer!Behind'
    BY <2>1, <2>2, <2>3, Settled, Amounts
       DEF Answer!Behind, Answer!Passed, Answer!Started, Answer!Ended, Answer!Stopped,
         Answer!Whole
  <2>9. Answer!Replaced'
    BY <2>1, <2>2, <2>3, Settled
       DEF Answer!Replaced, Answer!Started
  <2> QED
    BY <2>4, <2>5, <2>6, <2>7, <2>8, <2>9
<1>9. CASE Answer!ClientFails
  <2>1. /\ pc \in {"head", "relay", "last"}
        /\ pc' = "failed"
        /\ Answer!Dropped
        /\ client' = client
           \/ (pc = "head" /\ client' = [client EXCEPT !.head = Answer!ClientFraming])
        /\ read' = read /\ (clean' <=> clean)
    BY <1>9, Zenon DEF Answer!ClientFails
  <2>2. Answer!AnswerTyped'
    BY <2>1, DropsBehind, Amounts
       DEF Answer!AnswerTyped
  <2>3. Answer!ClientTyped'
    BY <2>1, DropsBehind, Settled, Framings, Amounts
       DEF Answer!ClientTyped, Answer!AnswerTyped
  <2>4. Answer!Passed'
    BY <2>1, DropsBehind, Settled, Framings, Amounts, LengthIsWhole, WholeHasLength
       DEF Answer!Passed, Answer!Started, Answer!Ended, Answer!Stopped, Answer!Whole,
         Answer!AnswerTyped, Answer!ClientTyped
  <2>5. Answer!GivenUp'
    BY <2>1, DropsBehind, Settled, Framings, Amounts, LengthIsWhole, WholeHasLength
       DEF Answer!GivenUp, Answer!Passed, Answer!Started, Answer!Ended, Answer!Stopped,
         Answer!Whole, Answer!AnswerTyped, Answer!ClientTyped
  <2>6. Answer!Behind'
    BY <2>1, DropsBehind, Settled, Amounts
       DEF Answer!Behind, Answer!Passed, Answer!Started, Answer!Ended, Answer!Stopped,
         Answer!Whole
  <2>7. Answer!Replaced'
    BY <2>1, DropsBehind, Settled
       DEF Answer!Replaced, Answer!Started
  <2> QED
    BY <2>2, <2>3, <2>4, <2>5, <2>6, <2>7
<1>10. CASE UNCHANGED Answer!vars
  <2>1. /\ pc' = pc
        /\ r' = r /\ origin' = origin /\ read' = read /\ (clean' <=> clean)
        /\ client' = client /\ sink' = sink /\ flight' = flight
        /\ (remembered' <=> remembered) /\ (old' <=> old) /\ (target' <=> target)
        /\ (pooled' <=> pooled) /\ (keep' <=> keep)
    BY <1>10, Zenon DEF Answer!vars
  <2>2. Answer!AnswerTyped'
    BY <2>1, Amounts
       DEF Answer!AnswerTyped
  <2>3. Answer!ClientTyped'
    BY <2>1, Settled, Framings, Amounts
       DEF Answer!ClientTyped, Answer!AnswerTyped
  <2>4. Answer!Passed'
    BY <2>1, Settled, Framings, Amounts, LengthIsWhole, WholeHasLength
       DEF Answer!Passed, Answer!Started, Answer!Ended, Answer!Stopped, Answer!Whole,
         Answer!AnswerTyped, Answer!ClientTyped
  <2>5. Answer!GivenUp'
    BY <2>1, Settled, Framings, Amounts, LengthIsWhole, WholeHasLength
       DEF Answer!GivenUp, Answer!Passed, Answer!Started, Answer!Ended, Answer!Stopped,
         Answer!Whole, Answer!AnswerTyped, Answer!ClientTyped
  <2>6. Answer!Behind'
    BY <2>1, Settled, Amounts
       DEF Answer!Behind, Answer!Passed, Answer!Started, Answer!Ended, Answer!Stopped,
         Answer!Whole
  <2>7. Answer!Replaced'
    BY <2>1, Settled
       DEF Answer!Replaced, Answer!Started
  <2> QED
    BY <2>2, <2>3, <2>4, <2>5, <2>6, <2>7
<1> QED
  BY <1>1, <1>2, <1>3, <1>4, <1>5, <1>6, <1>7, <1>8, <1>9, <1>10 DEF Answer!Next

\* The invariant says that whoever waits is told the truth.
LEMMA TruthIsTold ==
    ASSUME Answer!DInv
    PROVE  Answer!WaitersAreTold /\ Answer!ReplacedIsGone
<1>1. Answer!WaitersAreTold
  BY DEF Answer!DInv, Answer!Behind, Answer!WaitersAreTold, Answer!Stopped
<1>2. Answer!ReplacedIsGone
  BY DEF Answer!DInv, Answer!Passed, Answer!Replaced, Answer!ReplacedIsGone, Answer!Started
<1> QED
  BY <1>1, <1>2

\* ... and that only whole bodies count.
LEMMA WholeCounts ==
    ASSUME Answer!DeliveryAssumption, Answer!DInv
    PROVE  Answer!CompleteIsWhole /\ Answer!LeftWhole
<1> DEFINE r == v1  pc == v3  read == v4  client == v6  keep == v13
<1> USE DEF Answer!DInv
<1>1. Answer!LeftWhole
  BY DEF Answer!Behind, Answer!LeftWhole
<1>2. ASSUME client.last PROVE Answer!Whole /\ client.bytes = read
  BY <1>2 DEF Answer!AnswerTyped, Answer!Passed, Answer!GivenUp, Answer!Started, Answer!Ended,
     Answer!Stopped, Answer!Whole
<1>3. ASSUME client.head = "length", client.bytes = r.total PROVE Answer!Whole /\ client.bytes
               = read
  <2>1. client.head = Answer!ClientFraming /\ (client.bytes = read \/ client.bytes = 0)
    BY <1>3 DEF Answer!DeliveryAssumption, Answer!AnswerTyped, Answer!Passed, Answer!GivenUp,
       Answer!Started, Answer!Ended, Answer!Stopped
  <2>2. r.framing = "length" /\ client.bytes = read
    BY <1>3, <2>1, Framings, Amounts
  <2> QED
    BY <1>3, <2>2, LengthIsWhole
<1>4. pc = "done" /\ keep => Answer!Whole /\ (client.head = "none" \/ Answer!LooksComplete)
  BY Framings, Amounts, LengthIsWhole, WholeHasLength
     DEF Answer!DeliveryAssumption, Answer!LooksComplete, Answer!AnswerTyped,
       Answer!ClientTyped, Answer!Passed, Answer!GivenUp, Answer!Started,
         Answer!Ended, Answer!Stopped
<1> QED
  BY <1>1, <1>2, <1>3, <1>4 DEF Answer!CompleteIsWhole, Answer!LooksComplete

LEMMA AnswerInductive == Spec => []AnswerInv
<1>1. Init => AnswerInv
  BY AnswerAssumption, DeliveryStarts DEF Init, AnswerInv
<1>2. AnswerInv /\ [Next]_vars => AnswerInv'
  <2> SUFFICES ASSUME AnswerInv, [Next]_vars, part' = "answer" PROVE Answer!DInv'
    BY DEF AnswerInv
  <2>1. part = "answer"
    BY SamePart
  <2>2. [Answer!Next]_(Answer!vars)
    BY <2>1
       DEF Next, EntryStep, LoopStep, BodyStep, AnswerStep, PipesStep, PartsStep, vars,
         Answer!vars
  <2>3. Answer!DInv
    BY <2>1 DEF AnswerInv
  <2> QED
    BY AnswerAssumption, <2>2, <2>3, DeliveryStep
<1> QED
  BY <1>1, <1>2, PTL DEF Spec

\* Whoever waits for the key of an answer is told whether it is stored, and told the truth, and
\* what the answer replaces is out of the cache before the client sees its head (finish,
\* LeaderGuard, storage_plan).
THEOREM WaitersAlwaysTold == Spec => []WaitersAreTold
<1>1. AnswerInv => WaitersAreTold
  BY TruthIsTold DEF AnswerInv, WaitersAreTold
<1> QED
  BY <1>1, AnswerInductive, PTL

-----------------------------------------------------------------------------
\* Bodies that are read.
\* A sequence that is given by its pieces.
LEMMA Spelled ==
    ASSUME NEW S, NEW n \in Nat, NEW f, f = [i \in 1 .. n |-> f[i]],
           \A i \in 1 .. n : f[i] \in S
    PROVE  f \in Seq(S) /\ Len(f) = n
OBVIOUS

\* The piece at each place of a body.
LEMMA PieceTyped ==
    ASSUME Body!BodiesAssumption, NEW b \in Body!Bodies, NEW i \in Nat
    PROVE  Body!PieceAt(b, i) \in Body!Pieces
<1>1. 0 \in Body!Lengths /\ \A g \in 1 .. MaxLength : g \in Body!Lengths
  BY DEF Body!Lengths, Body!BodiesAssumption
<1>2. \A kind \in {"d", "nl", "size", "t", "e", "bad", "next"} : Body!Bare(kind) \in Body!Pieces
  BY <1>1 DEF Body!Bare, Body!Pieces
<1>3. ASSUME i \in b.lines, i # b.last
      PROVE  [is |-> "size", n |-> Body!Gap(b.lines, i)] \in Body!Pieces
  <2>1. b.lines # {} => Body!WellFramed(b.lines, b.last)
    BY DEF Body!Bodies
  <2>2. \E g \in 1 .. MaxLength : Body!IsGap(b.lines, i, g)
    BY <1>3, <2>1 DEF Body!WellFramed
  <2>3. Body!Gap(b.lines, i) \in 1 .. MaxLength
    BY <2>2 DEF Body!Gap
  <2> QED
    BY <1>1, <2>3 DEF Body!Pieces
<1> QED
  BY <1>2, <1>3, Zenon DEF Body!PieceAt

\* What a torn line is taken for is a piece, and an empty line only if it was one.
LEMMA TornTyped ==
    ASSUME Body!BodiesAssumption, NEW p \in Body!Pieces, NEW q \in Body!Torn(p)
    PROVE  /\ q \in Body!Pieces /\ p.is \in {"size", "nl", "t", "e"}
           /\ q.is = "e" => q = p
<1>1. 0 \in Body!Lengths /\ p.is \in {"d", "nl", "size", "t", "e", "bad", "next"}
  BY DEF Body!Lengths, Body!BodiesAssumption, Body!Pieces
<1>2. CASE p.is = "size"
  <2>1. Body!Torn(p) = {[is |-> "size", n |-> n] : n \in Body!Lengths}
    BY <1>2 DEF Body!Torn
  <2> QED
    BY <1>2, <2>1 DEF Body!Pieces
<1>3. CASE p.is = "nl"
  <2>1. Body!Torn(p) = {Body!Bare("bad")}
    BY <1>3 DEF Body!Torn
  <2> QED
    BY <1>1, <1>3, <2>1 DEF Body!Pieces, Body!Bare
<1>4. CASE p.is \in {"t", "e"}
  <2>1. Body!Torn(p) = {p}
    BY <1>4 DEF Body!Torn
  <2> QED
    BY <1>4, <2>1
<1>5. CASE p.is \in {"d", "bad", "next"}
  <2>1. Body!Torn(p) = {}
    BY <1>5 DEF Body!Torn
  <2> QED
    BY <2>1
<1> QED
  BY <1>1, <1>2, <1>3, <1>4, <1>5

\* What kind of piece is where.
LEMMA PieceIs ==
    ASSUME NEW b, b.length \in Nat, b.last \in Nat, NEW i \in Nat \ {0}
    PROVE  /\ i > b.length => Body!PieceAt(b, i) = Body!Bare("next")
           /\ i <= b.length /\ b.lines = {} => Body!PieceAt(b, i) = Body!Bare("d")
           /\ Body!WellFramed(b.lines, b.last) /\ b.last < b.length =>
                /\ i \in b.lines <=> Body!PieceAt(b, i).is = "size"
                /\ i = b.last => Body!PieceAt(b, i).n = 0
                /\ i \in b.lines /\ i # b.last =>
                     Body!PieceAt(b, i).n \in Nat \ {0} /\ Body!IsGap(b.lines, i,
                     Body!PieceAt(b, i).n)
                /\ i \notin b.lines /\ i + 1 \in b.lines => Body!PieceAt(b, i).is = "nl"
                /\ i > b.last => (Body!PieceAt(b, i).is = "e" <=> i = b.length)
<1>1. i > b.length => Body!PieceAt(b, i) = Body!Bare("next")
  BY DEF Body!PieceAt
<1>2. i <= b.length /\ b.lines = {} => Body!PieceAt(b, i) = Body!Bare("d")
  BY DEF Body!PieceAt
<1>3. ASSUME Body!WellFramed(b.lines, b.last), b.last < b.length
      PROVE  /\ i \in b.lines <=> Body!PieceAt(b, i).is = "size"
             /\ i = b.last => Body!PieceAt(b, i).n = 0
             /\ i \in b.lines /\ i # b.last =>
                  Body!PieceAt(b, i).n \in Nat \ {0} /\ Body!IsGap(b.lines, i, Body!PieceAt(b,
                  i).n)
             /\ i \notin b.lines /\ i + 1 \in b.lines => Body!PieceAt(b, i).is = "nl"
             /\ i > b.last => (Body!PieceAt(b, i).is = "e" <=> i = b.length)
  <2>1. b.last \in b.lines /\ b.lines # {} /\ \A j \in b.lines : j <= b.last
    BY <1>3 DEF Body!WellFramed
  <2>2. \A kind : Body!Bare(kind).is = kind /\ Body!Bare(kind).n = 0
    BY DEF Body!Bare
  <2>3. CASE i > b.length
    <3>1. Body!PieceAt(b, i) = Body!Bare("next")
      BY <1>1, <2>3
    <3> QED
      BY <1>3, <2>1, <2>2, <2>3, <3>1
  <2>4. CASE i <= b.length /\ i = b.last
    <3>1. Body!PieceAt(b, i) = Body!Bare("size")
      BY <2>1, <2>4 DEF Body!PieceAt
    <3> QED
      BY <1>3, <2>1, <2>2, <2>4, <3>1
  <2>5. CASE i <= b.length /\ i # b.last /\ i \in b.lines
    <3>1. Body!PieceAt(b, i) = [is |-> "size", n |-> Body!Gap(b.lines, i)]
      BY <2>1, <2>5 DEF Body!PieceAt
    <3>2. Body!Gap(b.lines, i) \in 1 .. MaxLength /\ Body!IsGap(b.lines, i, Body!Gap(b.lines, i))
      BY <1>3, <2>5 DEF Body!Gap, Body!WellFramed
    <3> QED
      BY <2>1, <2>5, <3>1, <3>2
  <2>6. CASE i <= b.length /\ i # b.last /\ i \notin b.lines /\ i + 1 \in b.lines
    <3>1. Body!PieceAt(b, i) = Body!Bare("nl")
      BY <2>1, <2>6 DEF Body!PieceAt
    <3> QED
      BY <2>1, <2>2, <2>6, <3>1
  <2>7. CASE i <= b.length /\ i # b.last /\ i \notin b.lines /\ i + 1 \notin b.lines
    <3>1. Body!PieceAt(b, i) = IF i < b.last THEN Body!Bare("d")
                          ELSE IF i < b.length THEN Body!Bare("t") ELSE Body!Bare("e")
      BY <2>1, <2>7 DEF Body!PieceAt
    <3> QED
      BY <2>1, <2>2, <2>7, <3>1
  <2> QED
    BY <2>3, <2>4, <2>5, <2>6, <2>7
<1> QED
  BY <1>1, <1>2, <1>3

-----------------------------------------------------------------------------
\* Whatever happens to a body on its way, what comes is what is said of it.
LEMMA BodyComes ==
    ASSUME Body!BodiesAssumption, NEW b \in Body!Bodies, Body!Comes(b), v6 = 0, v8 \in Nat,
           v11 = 0
    PROVE  /\ v4.body = b /\ Body!BodiesTyped /\ Body!AsSent /\ v4.whole \in BOOLEAN
           /\ b.lines = {} => v4.bad = 0 /\ ~ v4.torn
<1> DEFINE sent == v4  wire == v5
<1>1. /\ b.length \in Nat /\ b.last \in Nat
      /\ b.lines = {} \/ (Body!WellFramed(b.lines, b.last) /\ b.last < b.length)
  BY DEF Body!Bodies, Body!Lengths, Body!NoBody
<1>2. \A i \in Nat : Body!PieceAt(b, i) \in Body!Pieces
  BY PieceTyped
<1>3. \A i \in Nat \ {0} : i <= b.length /\ b.lines = {} => Body!PieceAt(b, i).is = "d"
  BY <1>1, PieceIs DEF Body!Bare
\* What has come is so many pieces.
<1>4. ASSUME NEW n \in Nat, wire = [i \in 1 .. n |-> wire[i]],
             \A i \in 1 .. n : wire[i] \in Body!Pieces,
             sent.body = b, sent.bad \in 0 .. b.length
      PROVE  Len(wire) = n /\ Body!BodiesTyped
  <2>1. wire \in Seq(Body!Pieces) /\ Len(wire) = n
    BY <1>4, Spelled
  <2> QED
    BY <1>1, <1>4, <2>1 DEF Body!BodiesTyped
<1>5. CASE /\ sent = Body!Arrived(b, TRUE, FALSE, 0)
           /\ wire = [i \in 1 .. b.length + 1 |-> Body!PieceAt(b, i)]
  <2>1. \A i \in 1 .. b.length + 1 : wire[i] = Body!PieceAt(b, i) /\ wire[i] \in Body!Pieces
    BY <1>1, <1>2, <1>5
  <2>2. /\ sent.body = b /\ sent.whole /\ ~ sent.torn /\ sent.whole \in BOOLEAN
        /\ sent.bad = 0 /\ sent.bad \in 0 .. b.length
    BY <1>1, <1>5 DEF Body!Arrived
  <2>3. b.length + 1 \in Nat /\ wire = [i \in 1 .. b.length + 1 |-> wire[i]]
    BY <1>1, <1>5
  <2>4. Len(wire) = b.length + 1 /\ Body!BodiesTyped
    BY <1>4, <2>1, <2>2, <2>3
  <2>5. Body!AsSent
    BY <1>1, <2>1, <2>2, <2>4 DEF Body!AsSent
  <2> QED
    BY <1>3, <2>2, <2>4, <2>5
<1>6. ASSUME NEW k \in 1 .. b.length, sent = Body!Arrived(b, FALSE, FALSE, 0),
             wire = [i \in 1 .. k - 1 |-> Body!PieceAt(b, i)]
      PROVE  /\ sent.body = b /\ Body!BodiesTyped /\ Body!AsSent /\ sent.whole \in BOOLEAN
             /\ b.lines = {} => sent.bad = 0 /\ ~ sent.torn
  <2>1. /\ k - 1 \in Nat
        /\ \A i \in 1 .. k - 1 : wire[i] = Body!PieceAt(b, i) /\ wire[i] \in Body!Pieces
    BY <1>1, <1>2, <1>6
  <2>2. /\ sent.body = b /\ ~ sent.whole /\ ~ sent.torn /\ sent.whole \in BOOLEAN
        /\ sent.bad = 0 /\ sent.bad \in 0 .. b.length
    BY <1>1, <1>6 DEF Body!Arrived
  <2>3. k - 1 \in Nat /\ wire = [i \in 1 .. k - 1 |-> wire[i]]
    BY <1>1, <1>6
  <2>4. Len(wire) = k - 1 /\ Body!BodiesTyped
    BY <1>4, <2>1, <2>2, <2>3
  <2>5. Body!AsSent
    BY <1>1, <2>1, <2>2, <2>4 DEF Body!AsSent
  <2> QED
    BY <1>3, <2>2, <2>4, <2>5
<1>7. ASSUME NEW k \in 1 .. b.length, sent = Body!Arrived(b, FALSE, TRUE, 0),
             NEW p \in Body!Torn(Body!PieceAt(b, k)),
             wire = [i \in 1 .. k |-> IF i = k THEN p ELSE Body!PieceAt(b, i)]
      PROVE  /\ sent.body = b /\ Body!BodiesTyped /\ Body!AsSent /\ sent.whole \in BOOLEAN
             /\ b.lines = {} => sent.bad = 0 /\ ~ sent.torn
  <2>1. Body!PieceAt(b, k) \in Body!Pieces
    BY <1>1, <1>2
  <2>2. p \in Body!Pieces /\ Body!PieceAt(b, k).is # "d"
    BY <2>1, TornTyped
  <2>3. /\ k \in Nat
        /\ \A i \in 1 .. k : /\ wire[i] = (IF i = k THEN p ELSE Body!PieceAt(b, i))
                             /\ wire[i] \in Body!Pieces
    BY <1>1, <1>2, <1>7, <2>2
  <2>4. /\ sent.body = b /\ ~ sent.whole /\ sent.torn /\ sent.whole \in BOOLEAN
        /\ sent.bad = 0 /\ sent.bad \in 0 .. b.length
    BY <1>1, <1>7 DEF Body!Arrived
  <2>5. k \in Nat /\ wire = [i \in 1 .. k |-> wire[i]]
    BY <1>1, <1>7
  <2>6. Len(wire) = k /\ Body!BodiesTyped
    BY <1>4, <2>3, <2>4, <2>5
  <2>7. Body!AsSent
    <3>1. /\ wire[k] \in Body!Torn(Body!PieceAt(b, k))
          /\ \A i \in 1 .. k : i # k => wire[i] = Body!PieceAt(b, i)
      BY <2>3
    <3> QED
      BY <1>1, <2>4, <2>6, <3>1 DEF Body!AsSent
  <2> QED
    BY <1>3, <2>2, <2>4, <2>6, <2>7
<1>8. ASSUME NEW k \in 1 .. b.length, sent = Body!Arrived(b, TRUE, FALSE, k),
             Body!PieceAt(b, k).is # "d",
             wire = [i \in 1 .. b.length + 1 |->
                       IF i = k THEN Body!Bare("bad") ELSE Body!PieceAt(b, i)]
      PROVE  /\ sent.body = b /\ Body!BodiesTyped /\ Body!AsSent /\ sent.whole \in BOOLEAN
             /\ b.lines = {} => sent.bad = 0 /\ ~ sent.torn
  <2>1. Body!Bare("bad") \in Body!Pieces
    BY DEF Body!Bare, Body!Pieces, Body!Lengths, Body!BodiesAssumption
  <2>2. \A i \in 1 .. b.length + 1 :
           /\ wire[i] = (IF i = k THEN Body!Bare("bad") ELSE Body!PieceAt(b, i))
           /\ wire[i] \in Body!Pieces
    BY <1>1, <1>2, <1>8, <2>1
  <2>3. /\ sent.body = b /\ sent.whole /\ ~ sent.torn /\ sent.whole \in BOOLEAN
        /\ sent.bad = k /\ sent.bad \in 0 .. b.length
    BY <1>1, <1>8 DEF Body!Arrived
  <2>4. b.length + 1 \in Nat /\ wire = [i \in 1 .. b.length + 1 |-> wire[i]]
    BY <1>1, <1>8
  <2>5. Len(wire) = b.length + 1 /\ Body!BodiesTyped
    BY <1>4, <2>2, <2>3, <2>4
  <2>6. Body!AsSent
    BY <1>1, <1>8, <2>2, <2>3, <2>5 DEF Body!AsSent
  <2> QED
    <3>1. b.lines # {}
      BY <1>1, <1>3, <1>8
    <3> QED
      BY <2>3, <2>5, <2>6, <3>1
<1> QED
  BY <1>5, <1>6, <1>7, <1>8 DEF Body!Comes

LEMMA BodyBegin == ASSUME Body!BodiesAssumption PROVE Body!Init => Body!BodiesInv
<1> DEFINE head == v1  framing == v3  sent == v4  wire == v5  pos == v6  chunk == v7
           left == v8  done == v9  truncated == v10  trailers == v11  error == v12
<1> SUFFICES ASSUME Body!Init PROVE Body!BodiesInv
  OBVIOUS
<1>1. pos = 0 /\ chunk = "size" /\ truncated = FALSE /\ trailers = 0 /\ error = FALSE
  BY DEF Body!Init
<1>2. CASE /\ framing = Body!Frame("unknown") /\ wire = <<Body!Bare("next")>> /\ left = 0
           /\ sent = Body!Arrived(Body!NoBody, TRUE, FALSE, 0)
  <2>1. Body!NoBody \in Body!Bodies
    <3>1. 0 \in Body!Lengths
      BY DEF Body!Lengths, Body!BodiesAssumption
    <3>2. Body!NoBody \in {[lines |-> {}, last |-> 0, length |-> n] : n \in Body!Lengths}
      BY <3>1 DEF Body!NoBody
    <3> DEFINE OfLength == {[lines |-> {}, last |-> 0, length |-> n] : n \in Body!Lengths}
               Chunked(last) ==
                   {[lines |-> lines, last |-> last, length |-> last + t + 1]
                      : lines \in {s \in SUBSET (1 .. last) : Body!WellFramed(s, last)},
                        t \in 0 .. MaxTrailers + 1}
               OfChunks == UNION {Chunked(last) : last \in 1 .. MaxChunks * (MaxLength + 2) + 1}
    <3>3. Body!Bodies = OfLength \cup OfChunks
      BY SMT DEF Body!Bodies
    <3> HIDE DEF OfChunks
    <3> QED
      BY <3>2, <3>3
  <2>2. Body!Bare("next") \in Body!Pieces
    BY DEF Body!Bare, Body!Pieces, Body!Lengths, Body!BodiesAssumption
  <2>3. wire \in Seq(Body!Pieces) /\ Len(wire) = 1 /\ wire[1] = Body!Bare("next")
    BY <1>2, <2>2
  <2>4. sent.body = Body!NoBody /\ sent.whole /\ ~ sent.torn /\ sent.bad = 0
        /\ Body!NoBody.length = 0 /\ Body!NoBody.last = 0
    BY <1>2 DEF Body!Arrived, Body!NoBody
  <2>5. left \in Nat
    BY <1>2
  <2>6. Body!BodiesTyped
    BY <1>1, <2>1, <2>3, <2>4, <2>5 DEF Body!BodiesTyped
  <2>7. Body!AsSent
    BY <2>3, <2>4 DEF Body!AsSent, Body!PieceAt
  <2>8. framing.kind = "unknown"
    BY <1>2 DEF Body!Frame
  <2> QED
    BY <1>1, <2>4, <2>6, <2>7, <2>8
       DEF Body!BodiesInv, Body!InPlace, Body!Reading, Body!CleanMeansAligned,
       Body!LengthIsTheOnlyOne
<1>3. ASSUME NEW b \in Body!Bodies, Body!Comes(b), head = <<>>, left = framing.length,
             framing = IF b.lines = {} THEN [kind |-> "length", length |-> b.length]
                       ELSE Body!Frame("chunked"),
             done = (framing = [kind |-> "length", length |-> 0])
      PROVE  Body!BodiesInv
  <2>1. /\ b.length \in Nat /\ b.last \in Nat
        /\ \/ b.lines = {} /\ b.last = 0
           \/ b.lines # {} /\ Body!WellFramed(b.lines, b.last) /\ b.last < b.length
    <3>1. b.length \in Nat /\ b.last \in Nat
      BY DEF Body!Bodies, Body!Lengths
    <3>2. \/ b.lines = {} /\ b.last = 0
          \/ Body!WellFramed(b.lines, b.last) /\ b.last < b.length
      BY DEF Body!Bodies
    <3>3. Body!WellFramed(b.lines, b.last) => b.lines # {}
      BY DEF Body!WellFramed
    <3> QED
      BY <3>1, <3>2, <3>3
  <2>2. left \in Nat
    BY <1>3, <2>1 DEF Body!Frame
  <2>3. /\ sent.body = b /\ Body!BodiesTyped /\ Body!AsSent /\ sent.whole \in BOOLEAN
        /\ b.lines = {} => sent.bad = 0 /\ ~ sent.torn
    BY <1>1, <1>3, <2>2, BodyComes
  <2>4. CASE b.lines = {}
    <3>1. /\ framing.kind = "length" /\ left = b.length /\ (done <=> b.length = 0)
          /\ framing.kind # "chunked"
      BY <1>3, <2>4
    <3>2. b.length = 0 => sent.whole
      BY <2>1, <2>3 DEF Body!AsSent, Body!BodiesTyped
    <3> QED
      BY <1>1, <1>3, <2>1, <2>3, <2>4, <3>1, <3>2
         DEF Body!BodiesInv, Body!InPlace, Body!Reading, Body!CleanMeansAligned,
         Body!LengthIsTheOnlyOne
  <2>5. CASE b.lines # {}
    <3>1. framing.kind = "chunked" /\ ~ done
      BY <1>3, <2>5 DEF Body!Frame
    <3>2. 1 \in b.lines /\ sent.bad >= 0
      BY <2>1, <2>3, <2>5 DEF Body!WellFramed, Body!BodiesTyped
    <3>3. Body!NotYetBad /\ Body!AtSize
      BY <1>1, <2>3, <3>2 DEF Body!NotYetBad, Body!AtSize, Body!BodiesTyped
    <3> QED
      BY <1>1, <1>3, <2>1, <2>3, <2>5, <3>1, <3>3
         DEF Body!BodiesInv, Body!InPlace, Body!Reading, Body!CleanMeansAligned,
         Body!LengthIsTheOnlyOne
  <2> QED
    BY <2>4, <2>5
<1> QED
  BY <1>2, <1>3 DEF Body!Init

\* All lengths that a response names are the one it is read by.
LEMMA OneLength ==
    ASSUME NEW lines, NEW nb, NEW f, f = Body!ScanResponseHead(lines, nb)
    PROVE  /\ f.kind # "unknown"
           /\ f.kind = "length" =>
                Body!LengthsOf(lines) = {f.length} /\ Body!TeOf(lines) = "absent"
<1> DEFINE te == Body!TeOf(lines)
           ls == Body!LengthsOf(lines)
           differ == Body!BadLength \in ls \/ \E l, m \in ls : l # m
<1>1. te \in {"chunked", "gzip", "absent"}
  BY DEF Body!TeOf
<1>2. f = IF te = "chunked" THEN Body!Frame("chunked")
          ELSE IF te = "gzip" /\ ~nb THEN Body!Frame("close")
          ELSE IF differ THEN Body!Frame("refused")
          ELSE IF nb THEN Body!Frame("none")
          ELSE IF ls = {} THEN Body!Frame("close")
          ELSE [kind |-> "length", length |-> CHOOSE l \in ls : TRUE]
  BY Zenon DEF Body!ScanResponseHead
<1> HIDE DEF te, differ
<1>3. \A kind : Body!Frame(kind).kind = kind
  BY DEF Body!Frame
<1>4. CASE te = "chunked" \/ (te = "gzip" /\ ~nb) \/ differ \/ nb \/ ls = {}
  <2>1. \E kind \in {"chunked", "close", "refused", "none"} : f = Body!Frame(kind)
    BY <1>2, <1>4, Zenon
  <2> QED
    BY <1>3, <2>1
<1>5. CASE ~ (te = "chunked" \/ (te = "gzip" /\ ~nb) \/ differ \/ nb \/ ls = {})
  <2>1. f = [kind |-> "length", length |-> CHOOSE l \in ls : TRUE]
    BY <1>2, <1>5, Zenon
  <2>2. (CHOOSE l \in ls : TRUE) \in ls
    BY <1>5, Zenon
  <2>3. f.length \in ls /\ f.kind = "length"
    BY <2>1, <2>2
  <2>4. \A l \in ls : l = f.length
    BY <1>5, <2>3, Zenon DEF differ
  <2>5. te = "absent"
    BY <1>1, <1>5, Zenon
  <2> QED
    BY <2>3, <2>4, <2>5 DEF te
<1> QED
  BY <1>4, <1>5

-----------------------------------------------------------------------------
\* The next piece is what was sent, or the bad line, or the torn one.
LEMMA NextPiece ==
    ASSUME Body!BodiesAssumption, Body!BodiesTyped, Body!AsSent, ~ Body!AtEnd,
           NEW p, p = Body!PieceAt(v4.body, v6 + 1),
           p \in Body!Pieces
    PROVE  /\ v6 + 1 \in 1 .. Len(v5) /\ Body!Piece \in Body!Pieces
           /\ \/ Body!Piece = p /\ v6 + 1 # v4.bad
              \/ Body!Piece.is = "bad" /\ v6 + 1 = v4.bad
              \/ /\ v4.torn /\ ~ v4.whole /\ v6 + 1 = Len(v5)
                 /\ Body!Piece \in Body!Torn(p)
                 /\ p.is \in {"size", "nl", "t", "e"}
                 /\ Body!Piece.is = "e" => p.is = "e"
<1> DEFINE sent == v4  wire == v5  pos == v6
<1>1. Len(wire) \in Nat /\ pos \in Nat /\ pos + 1 \in 1 .. Len(wire) /\ Body!Piece \in Body!Pieces
  <2>1. Len(wire) \in Nat /\ pos \in 0 .. Len(wire) /\ pos # Len(wire)
    BY LenProperties DEF Body!BodiesTyped, Body!AtEnd
  <2>2. pos + 1 \in 1 .. Len(wire)
    BY <2>1
  <2> QED
    BY <2>1, <2>2, ElementOfSeq DEF Body!BodiesTyped, Body!Piece
<1>2. \/ Body!Piece = p /\ pos + 1 # sent.bad
      \/ Body!Piece = Body!Bare("bad") /\ pos + 1 = sent.bad
      \/ Body!Piece \in Body!Torn(p) /\ sent.torn /\ pos + 1 = Len(wire)
  BY <1>1 DEF Body!AsSent, Body!Piece
<1>3. CASE Body!Piece \in Body!Torn(p) /\ sent.torn /\ pos + 1 = Len(wire)
  <2>1. ~ sent.whole
    BY <1>3 DEF Body!AsSent
  <2>2. p.is \in {"size", "nl", "t", "e"} /\ (Body!Piece.is = "e" => Body!Piece = p)
    BY <1>3, TornTyped
  <2> QED
    BY <1>1, <1>3, <2>1, <2>2
<1> QED
  BY <1>1, <1>2, <1>3 DEF Body!Bare

\* Every step of a reader keeps what is claimed of it.
LEMMA ReaderKept ==
    ASSUME Body!BodiesAssumption, Body!BodiesInv, UNCHANGED Body!input,
           Body!ReadLength \/ Body!ChunkSize \/ Body!ChunkData \/ Body!ChunkEnd \/ Body!Trailer
    PROVE  Body!BodiesInv'
<1> DEFINE head == v1  no_body == v2  framing == v3  sent == v4  wire == v5  pos == v6
           chunk == v7  left == v8  done == v9  truncated == v10  trailers == v11
           error == v12
<1> DEFINE b == sent.body
<1>1. /\ b.length \in Nat /\ b.last \in Nat /\ sent.bad \in Nat /\ sent.bad <= b.length
      /\ Len(wire) \in Nat /\ pos \in Nat /\ pos <= Len(wire)
      /\ left \in Nat /\ trailers \in Nat
  BY LenProperties DEF Body!BodiesInv, Body!BodiesTyped, Body!Bodies, Body!Lengths
<1>2. /\ sent.whole => Len(wire) = b.length + 1 /\ ~sent.torn
      /\ ~sent.whole => sent.bad = 0 /\ Len(wire) <= b.length
      /\ ~sent.whole /\ ~sent.torn => Len(wire) < b.length
  BY DEF Body!BodiesInv, Body!AsSent
<1>3. sent' = sent /\ wire' = wire /\ framing' = framing /\ head' = head /\ no_body' = no_body
  BY DEF Body!input
<1>4. Body!AsSent' /\ Body!LengthIsTheOnlyOne'
  <2>1. Body!AsSent'
    BY <1>3 DEF Body!BodiesInv, Body!AsSent
  <2>2. Body!LengthIsTheOnlyOne'
    BY <1>3 DEF Body!BodiesInv, Body!LengthIsTheOnlyOne
  <2> QED
    BY <2>1, <2>2
\* What is to be shown of the step.
<1>5. ASSUME pos' \in 0 .. Len(wire), left' \in Nat, trailers' \in Nat,
             Body!InPlace', Body!CleanMeansAligned'
      PROVE  Body!BodiesInv'
  <2>1. Body!BodiesTyped'
    BY <1>3, <1>5 DEF Body!BodiesInv, Body!BodiesTyped
  <2> QED
    BY <1>4, <1>5, <2>1 DEF Body!BodiesInv
\* The connection ends, or a line is none: nothing is read any more, and that is told truly.
<1>6. ASSUME Body!Truncate \/ Body!Bad, ~ sent.whole \/ sent.bad # 0, ~ done,
             framing.kind # "unknown"
      PROVE  Body!BodiesInv'
  <2>1. /\ pos' = pos /\ left' = left /\ trailers' = trailers /\ error' = TRUE
        /\ done' = done \/ (done' = TRUE /\ truncated' = TRUE)
    BY <1>6 DEF Body!Truncate, Body!Bad
  <2>2. Body!InPlace' /\ Body!CleanMeansAligned'
    BY <1>3, <1>6, <2>1 DEF Body!InPlace, Body!Reading, Body!CleanMeansAligned
  <2> QED
    BY <1>1, <1>5, <2>1, <2>2
<1>7. CASE Body!ReadLength
  <2>1. /\ framing.kind = "length" /\ framing.kind # "chunked" /\ ~ done /\ ~ error
        /\ b.lines = {} /\ sent.bad = 0 /\ ~sent.torn /\ left > 0 /\ pos + left = b.length
    BY <1>7 DEF Body!ReadLength, Body!Reading, Body!BodiesInv, Body!InPlace
  <2>2. CASE Body!AtEnd /\ Body!Truncate
    <3>1. ~ sent.whole
      BY <1>1, <1>2, <2>1, <2>2 DEF Body!AtEnd
    <3> QED
      BY <1>6, <2>1, <2>2, <3>1
  <2>3. CASE ~ (Body!AtEnd /\ Body!Truncate)
    <3>1. PICK n \in 1 .. MaxLength : Body!CanTake(n) /\ Body!Take(n) /\ done' = (left - n = 0)
      BY <1>7, <2>3 DEF Body!ReadLength
    <3>2. UNCHANGED <<chunk, truncated, trailers, error>>
      BY <1>7, <2>3 DEF Body!ReadLength
    <3>3. /\ n \in Nat \ {0} /\ n <= left /\ pos + n <= Len(wire)
          /\ pos' = pos + n /\ left' = left - n
      BY <3>1 DEF Body!CanTake, Body!Take, Body!BodiesAssumption
    <3>4. /\ pos' \in 0 .. Len(wire) /\ left' \in Nat /\ trailers' \in Nat
          /\ pos' + left' = b.length
      BY <1>1, <2>1, <3>2, <3>3
    <3>5. Body!InPlace'
      <4>1. ~ done' => left' > 0
        <5>1. ~ done' => left' # 0
          BY <3>1, <3>3
        <5> QED
          BY <3>4, <5>1
      <4> QED
        BY <1>3, <2>1, <3>4, <4>1 DEF Body!InPlace, Body!Reading
    <3>6. done' /\ ~ truncated' => pos' = b.length /\ sent.whole
      <4>1. done' => left' = 0
        BY <3>1, <3>3
      <4> QED
        BY <1>1, <1>2, <2>1, <3>3, <3>4, <4>1
    <3>7. Body!CleanMeansAligned'
      BY <1>3, <2>1, <3>2, <3>6 DEF Body!CleanMeansAligned
    <3> QED
      BY <1>5, <3>4, <3>5, <3>7
  <2> QED
    BY <2>2, <2>3
\* A reader of chunks knows where it is, as long as a line follows.
<1>8. ASSUME Body!Reading("chunked")
      PROVE  /\ framing.kind = "chunked" /\ framing.kind # "length" /\ ~ done /\ ~ error
             /\ Body!WellFramed(b.lines, b.last) /\ b.last < b.length
             /\ b.last \in b.lines /\ \A i \in b.lines : i \in Nat \ {0} /\ i <= b.last
             /\ \/ Body!AtEnd /\ sent.torn
                \/ Body!NotYetBad /\ (Body!AtSize \/ Body!InData \/ Body!AtCrlf
                   \/ Body!InTrailers)
  BY <1>8 DEF Body!Reading, Body!BodiesInv, Body!InPlace, Body!AtEnd, Body!WellFramed
<1>9. ASSUME Body!Reading("chunked"), Body!AtEnd PROVE ~ sent.whole \/ sent.bad # 0
  <2>1. CASE sent.torn
    BY <1>2, <2>1
  <2>2. CASE Body!AtSize \/ Body!InData \/ Body!AtCrlf
    <3>1. PICK i \in b.lines : pos < i
      BY <1>1, <2>2 DEF Body!AtSize, Body!InData, Body!AtCrlf, Body!IsGap
    <3> QED
      BY <1>1, <1>2, <1>8, <1>9, <3>1 DEF Body!AtEnd
  <2>3. CASE Body!InTrailers
    BY <1>1, <1>2, <1>8, <1>9, <2>3 DEF Body!AtEnd, Body!InTrailers
  <2> QED
    BY <1>8, <1>9, <2>1, <2>2, <2>3
\* What is shown of a reader of chunks that goes on.
<1>10. ASSUME Body!Reading("chunked"), pos' \in 0 .. Len(wire), left' \in Nat, trailers' \in Nat,
              error' = error, done' = done,
              \/ sent.torn /\ pos' = Len(wire)
              \/ Body!NotYetBad' /\ (Body!AtSize' \/ Body!InData' \/ Body!AtCrlf'
                 \/ Body!InTrailers')
       PROVE  Body!BodiesInv'
  <2>1. Body!InPlace'
    BY <1>3, <1>8, <1>10 DEF Body!InPlace, Body!Reading
  <2>2. Body!CleanMeansAligned'
    BY <1>3, <1>8, <1>10 DEF Body!CleanMeansAligned
  <2> QED
    BY <1>5, <1>10, <2>1, <2>2
<1>11. ASSUME Body!Reading("chunked"), ~ Body!AtEnd
       PROVE  /\ Body!PieceAt(b, pos + 1) \in Body!Pieces
              /\ pos + 1 \in Nat \ {0} /\ pos + 1 <= Len(wire)
              /\ Body!NotYetBad /\ (Body!AtSize \/ Body!InData \/ Body!AtCrlf \/ Body!InTrailers)
  <2>1. Body!PieceAt(b, pos + 1) \in Body!Pieces
    <3>1. b \in Body!Bodies /\ pos + 1 \in Nat
      BY <1>1 DEF Body!BodiesInv, Body!BodiesTyped
    <3> QED
      BY <3>1, PieceTyped
  <2> QED
    BY <1>1, <1>8, <1>11, <2>1 DEF Body!AtEnd
<1>12. CASE Body!ChunkSize
  <2>1. Body!Reading("chunked") /\ chunk = "size"
    BY <1>12 DEF Body!ChunkSize
  <2>2. CASE Body!AtEnd /\ Body!Truncate
    BY <1>6, <1>8, <1>9, <2>1, <2>2
  <2>3. CASE ~ Body!AtEnd
    <3> DEFINE p == Body!PieceAt(b, pos + 1)
    <3>1. /\ p \in Body!Pieces /\ pos + 1 \in Nat \ {0} /\ pos + 1 <= Len(wire)
          /\ Body!NotYetBad /\ pos + 1 \in b.lines /\ trailers = 0
      BY <1>11, <2>1, <2>3 DEF Body!AtSize, Body!InData, Body!AtCrlf, Body!InTrailers
    <3>2. /\ p.is = "size" /\ (pos + 1 = b.last => p.n = 0)
          /\ pos + 1 # b.last => p.n \in Nat \ {0} /\ Body!IsGap(b.lines, pos + 1, p.n)
      BY <1>1, <1>8, <2>1, <3>1, PieceIs
    <3> HIDE DEF p
    <3>3. /\ Body!Piece \in Body!Pieces
          /\ \/ Body!Piece = p /\ pos + 1 # sent.bad
             \/ Body!Piece.is = "bad" /\ pos + 1 = sent.bad
             \/ sent.torn /\ ~ sent.whole /\ pos + 1 = Len(wire)
      BY <2>3, <3>1, NextPiece DEF p, Body!BodiesInv
    <3>4. CASE Body!Piece.is # "size" /\ Body!Bad
      <4>1. ~ sent.whole \/ sent.bad # 0
        BY <1>1, <3>1, <3>2, <3>3, <3>4
      <4> QED
        BY <1>6, <1>8, <2>1, <3>4, <4>1
    <3>5. CASE ~ (Body!Piece.is # "size" /\ Body!Bad)
      <4>1. /\ Body!Piece.is = "size"
               /\ chunk' = (IF Body!Piece.n = 0 THEN "trailers" ELSE "data")
            /\ left' = Body!Piece.n /\ pos' = pos + 1
            /\ UNCHANGED <<done, truncated, trailers, error>>
        BY <1>12, <2>3, <3>5 DEF Body!ChunkSize
      <4>2. pos' \in 0 .. Len(wire) /\ left' \in Nat /\ trailers' \in Nat
        BY <1>1, <3>1, <3>3, <4>1 DEF Body!Pieces, Body!Lengths
      <4>3. CASE sent.torn /\ ~ sent.whole /\ pos + 1 = Len(wire)
        BY <1>10, <2>1, <4>1, <4>2, <4>3
      <4>4. CASE Body!Piece = p /\ pos + 1 # sent.bad
        <5>1. Body!NotYetBad'
          BY <1>1, <1>3, <3>1, <4>1, <4>4 DEF Body!NotYetBad
        <5>2. CASE pos + 1 = b.last
          <6>1. chunk' = "trailers" /\ trailers' = 0
            BY <3>1, <3>2, <4>1, <4>4, <5>2
          <6>2. Body!InTrailers'
            BY <1>1, <1>3, <1>8, <2>1, <4>1, <5>2, <6>1 DEF Body!InTrailers
          <6> QED
            BY <1>10, <2>1, <4>1, <4>2, <5>1, <6>2
        <5>3. CASE pos + 1 # b.last
          <6>1. Body!InData'
            BY <1>1, <1>3, <3>1, <3>2, <4>1, <4>4, <5>3 DEF Body!InData
          <6> QED
            BY <1>10, <2>1, <4>1, <4>2, <5>1, <6>1
        <5> QED
          BY <5>2, <5>3
      <4> QED
        BY <3>3, <4>1, <4>3, <4>4
    <3> QED
      BY <3>4, <3>5
  <2> QED
    BY <1>12, <2>2, <2>3 DEF Body!ChunkSize
<1>13. CASE Body!ChunkData
  <2>1. Body!Reading("chunked") /\ chunk = "data"
    BY <1>13 DEF Body!ChunkData
  <2>2. CASE Body!AtEnd /\ Body!Truncate
    BY <1>6, <1>8, <1>9, <2>1, <2>2
  <2>3. CASE ~ Body!AtEnd
    <3>1. Body!NotYetBad /\ left > 0 /\ trailers = 0 /\ Body!IsGap(b.lines, pos, left)
      BY <1>11, <2>1, <2>3 DEF Body!AtSize, Body!InData, Body!AtCrlf, Body!InTrailers
    <3>2. CASE Body!AtEnd /\ Body!Truncate
      BY <2>3, <3>2
    <3>3. CASE ~ (Body!AtEnd /\ Body!Truncate)
      <4>1. PICK n \in 1 .. MaxLength :
               Body!CanTake(n) /\ Body!Take(n) /\ chunk' = IF left - n = 0 THEN "crlf" ELSE "data"
        BY <1>13, <3>3 DEF Body!ChunkData
      <4>2. UNCHANGED <<done, truncated, trailers, error>>
        BY <1>13, <3>3 DEF Body!ChunkData
      <4>3. /\ n \in Nat \ {0} /\ n <= left /\ pos + n <= Len(wire)
            /\ pos' = pos + n /\ left' = left - n
        BY <4>1 DEF Body!CanTake, Body!Take, Body!BodiesAssumption
      <4>4. pos' \in 0 .. Len(wire) /\ left' \in Nat /\ trailers' \in Nat
        BY <1>1, <4>2, <4>3
      <4>5. Body!IsGap(b.lines, pos', left')
        BY <1>1, <3>1, <4>3 DEF Body!IsGap
      <4>6. Body!NotYetBad'
        <5>1. SUFFICES ASSUME sent.bad > pos, sent.bad <= pos + n PROVE FALSE
          BY <1>1, <1>3, <3>1, <4>3 DEF Body!NotYetBad
        <5>2. /\ sent.bad - pos \in 1 .. n /\ pos + (sent.bad - pos) = sent.bad
              /\ sent.bad \in 1 .. Len(wire)
          <6>1. sent.bad \in Nat /\ pos \in Nat /\ n \in Nat /\ Len(wire) \in Nat
            BY <1>1, <4>3
          <6> DEFINE at == sent.bad
          <6>2. at \in Nat /\ at > pos /\ at <= pos + n /\ pos + n <= Len(wire)
            BY <4>3, <5>1, <6>1
          <6> HIDE DEF at
          <6>3. at - pos \in 1 .. n
            BY <6>1, <6>2
          <6>4. pos + (at - pos) = at
            BY <6>1, <6>2
          <6>5. at \in 1 .. Len(wire)
            BY <6>1, <6>2
          <6> QED
            BY <6>3, <6>4, <6>5 DEF at
        <5>3. wire[sent.bad].is \in {"d", "next"}
          BY <4>1, <5>2 DEF Body!CanTake
        <5>4. wire[sent.bad] = Body!Bare("bad")
          <6>1. ~ sent.torn
            BY <1>1, <1>2, <5>1
          <6> QED
            BY <5>2, <6>1 DEF Body!BodiesInv, Body!AsSent
        <5> QED
          BY <5>3, <5>4 DEF Body!Bare
      <4>7. Body!AtCrlf' \/ Body!InData'
        <5>1. CASE left - n = 0
          <6>1. left' = 0 /\ chunk' = "crlf"
            BY <4>1, <4>3, <5>1
          <6> QED
            BY <1>3, <3>1, <4>2, <4>5, <6>1 DEF Body!AtCrlf
        <5>2. CASE left - n # 0
          <6>1. left' > 0 /\ chunk' = "data"
            BY <1>1, <4>1, <4>3, <5>2
          <6> QED
            BY <1>3, <3>1, <4>2, <4>5, <6>1 DEF Body!InData
        <5> QED
          BY <5>1, <5>2
      <4> QED
        BY <1>10, <2>1, <4>2, <4>4, <4>6, <4>7
    <3> QED
      BY <3>2, <3>3
  <2> QED
    BY <1>13, <2>2, <2>3 DEF Body!ChunkData
<1>14. CASE Body!ChunkEnd
  <2>1. Body!Reading("chunked") /\ chunk = "crlf"
    BY <1>14 DEF Body!ChunkEnd
  <2>2. CASE Body!AtEnd /\ Body!Truncate
    BY <1>6, <1>8, <1>9, <2>1, <2>2
  <2>3. CASE ~ Body!AtEnd
    <3> DEFINE p == Body!PieceAt(b, pos + 1)
    <3>1. /\ p \in Body!Pieces /\ pos + 1 \in Nat \ {0} /\ pos + 1 <= Len(wire)
          /\ Body!NotYetBad /\ trailers = 0 /\ pos + 2 \in b.lines /\ pos + 1 \notin b.lines
      BY <1>1, <1>11, <2>1, <2>3 DEF Body!AtSize, Body!InData, Body!AtCrlf, Body!InTrailers,
         Body!IsGap
    <3>2. p.is = "nl"
      <4>1. (pos + 1) + 1 \in b.lines
        BY <1>1, <3>1
      <4> QED
        BY <1>1, <1>8, <2>1, <3>1, <4>1, PieceIs
    <3> HIDE DEF p
    <3>3. /\ Body!Piece \in Body!Pieces
          /\ \/ Body!Piece = p /\ pos + 1 # sent.bad
             \/ Body!Piece.is = "bad" /\ pos + 1 = sent.bad
             \/ sent.torn /\ ~ sent.whole /\ pos + 1 = Len(wire)
      BY <2>3, <3>1, NextPiece DEF p, Body!BodiesInv
    <3>4. CASE Body!Piece.is # "nl" /\ Body!Bad
      <4>1. ~ sent.whole \/ sent.bad # 0
        BY <1>1, <3>1, <3>2, <3>3, <3>4
      <4> QED
        BY <1>6, <1>8, <2>1, <3>4, <4>1
    <3>5. CASE ~ (Body!Piece.is # "nl" /\ Body!Bad)
      <4>1. /\ Body!Piece.is = "nl" /\ chunk' = "size" /\ pos' = pos + 1
            /\ UNCHANGED <<left, done, truncated, trailers, error>>
        BY <1>14, <2>3, <3>5 DEF Body!ChunkEnd
      <4>2. pos' \in 0 .. Len(wire) /\ left' \in Nat /\ trailers' \in Nat
        BY <1>1, <3>1, <4>1
      <4>3. CASE sent.torn /\ ~ sent.whole /\ pos + 1 = Len(wire)
        BY <1>10, <2>1, <4>1, <4>2, <4>3
      <4>4. CASE Body!Piece = p /\ pos + 1 # sent.bad
        <5>1. Body!NotYetBad' /\ Body!AtSize'
          <6>1. pos' + 1 \in b.lines
            BY <1>1, <3>1, <4>1
          <6> QED
            BY <1>1, <1>3, <3>1, <4>1, <4>4, <6>1 DEF Body!NotYetBad, Body!AtSize
        <5> QED
          BY <1>10, <2>1, <4>1, <4>2, <5>1
      <4> QED
        BY <3>3, <4>1, <4>3, <4>4
    <3> QED
      BY <3>4, <3>5
  <2> QED
    BY <1>14, <2>2, <2>3 DEF Body!ChunkEnd
<1>15. CASE Body!Trailer
  <2>1. Body!Reading("chunked") /\ chunk = "trailers"
    BY <1>15 DEF Body!Trailer
  <2>2. CASE Body!AtEnd /\ Body!Truncate
    BY <1>6, <1>8, <1>9, <2>1, <2>2
  <2>3. CASE ~ Body!AtEnd
    <3> DEFINE p == Body!PieceAt(b, pos + 1)
    <3>1. /\ p \in Body!Pieces /\ pos + 1 \in Nat \ {0} /\ pos + 1 <= Len(wire)
          /\ Body!NotYetBad /\ Body!InTrailers
      BY <1>11, <2>1, <2>3 DEF Body!AtSize, Body!InData, Body!AtCrlf, Body!InTrailers
    <3>2. trailers = pos - b.last
      BY <3>1 DEF Body!InTrailers
    <3>3. pos >= b.last
      BY <3>1 DEF Body!InTrailers
    <3>4. pos \in Nat /\ Len(wire) \in Nat /\ pos + 1 <= Len(wire)
      BY <1>1, <3>1
    <3>5. pos < b.length \/ sent.bad = b.length
      BY <3>1 DEF Body!InTrailers
    <3>6. sent.bad = 0 \/ sent.bad > pos \/ sent.bad > b.last
      BY <3>1 DEF Body!NotYetBad
    <3>7. b.last \in Nat /\ b.length \in Nat /\ sent.bad \in Nat /\ sent.bad <= b.length
      BY <1>1
    <3>8. p.is = "e" <=> pos + 1 = b.length
      BY <1>1, <1>8, <2>1, <3>1, <3>3, PieceIs
    <3> HIDE DEF p
    <3>9. /\ Body!Piece \in Body!Pieces
          /\ \/ Body!Piece = p /\ pos + 1 # sent.bad
             \/ Body!Piece.is = "bad" /\ pos + 1 = sent.bad
             \/ /\ sent.torn /\ ~ sent.whole /\ pos + 1 = Len(wire)
                /\ Body!Piece.is = "e" => p.is = "e"
      BY <2>3, <3>1, NextPiece DEF p, Body!BodiesInv
    <3>10. pos' = pos + 1
      BY <1>15, <2>3 DEF Body!Trailer
    <3>11. trailers' = trailers + 1 /\ left' = left /\ truncated' = truncated
      BY <1>15, <2>3 DEF Body!Trailer
    <3>12. \/ trailers + 1 > MaxTrailers + 1 /\ error' = TRUE /\ UNCHANGED <<chunk, done>>
           \/ Body!Piece.is = "e" /\ chunk' = "done" /\ done' = TRUE /\ UNCHANGED error
           \/ Body!Piece.is # "e" /\ UNCHANGED <<chunk, done, error>>
      BY <1>15, <2>3 DEF Body!Trailer
    <3>13. pos' \in 0 .. Len(wire) /\ left' \in Nat /\ trailers' \in Nat
      <4>1. pos' \in 0 .. Len(wire)
        BY <3>4, <3>10
      <4>2. left' \in Nat /\ trailers' \in Nat
        BY <1>1, <3>11
      <4> QED
        BY <4>1, <4>2
    <3>14. CASE trailers + 1 > MaxTrailers + 1 /\ error' = TRUE /\ UNCHANGED <<chunk, done>>
      <4>1. sent.bad # 0 \/ b.length - b.last - 1 > MaxTrailers
        <5>1. MaxTrailers \in Nat
          BY DEF Body!BodiesAssumption
        <5>2. b.last \in Nat /\ b.length \in Nat /\ trailers \in Nat /\ pos \in Nat
          BY <1>1
        <5>3. b.last < b.length /\ trailers > MaxTrailers /\ trailers = pos - b.last
          <6>1. trailers > MaxTrailers
            BY <3>14, <5>1, <5>2
          <6> QED
            BY <1>8, <2>1, <3>2, <6>1
        <5>4. CASE pos < b.length
          <6> HIDE DEF b
          <6> QED
            BY <5>1, <5>2, <5>3, <5>4
        <5>5. CASE sent.bad = b.length
          <6>1. b.length > 0
            BY <5>2, <5>3
          <6> QED
            BY <5>5, <6>1
        <5> QED
          BY <3>5, <5>4, <5>5
      <4>2. Body!InPlace' /\ Body!CleanMeansAligned'
        BY <1>3, <1>8, <2>1, <3>14, <4>1 DEF Body!InPlace, Body!Reading, Body!CleanMeansAligned
      <4> QED
        BY <1>5, <3>13, <4>2
    <3>15. CASE Body!Piece.is = "e" /\ chunk' = "done" /\ done' = TRUE /\ UNCHANGED error
      <4>1. pos' = b.length /\ pos' <= Len(wire) /\ (sent.bad # 0 => pos + 1 # sent.bad)
        BY <1>2, <3>4, <3>7, <3>8, <3>9, <3>10, <3>15
      <4>2. sent.whole \/ sent.torn
        BY <1>1, <1>2, <4>1
      <4>3. sent.bad # 0 => sent.bad > b.last /\ sent.bad < b.length
        BY <3>3, <3>4, <3>6, <3>7, <3>10, <4>1
      <4>4. Body!InPlace' /\ Body!CleanMeansAligned'
        BY <1>3, <1>8, <2>1, <3>15, <4>1, <4>2, <4>3
           DEF Body!InPlace, Body!Reading, Body!CleanMeansAligned
      <4> QED
        BY <1>5, <3>13, <4>4
    <3>16. CASE Body!Piece.is # "e" /\ UNCHANGED <<chunk, done, error>>
      <4>1. CASE sent.torn /\ ~ sent.whole /\ pos + 1 = Len(wire)
        BY <1>10, <2>1, <3>10, <3>13, <3>16, <4>1
      <4>2. CASE \/ Body!Piece = p /\ pos + 1 # sent.bad
                 \/ Body!Piece.is = "bad" /\ pos + 1 = sent.bad
        <5>1. Body!NotYetBad'
          BY <1>3, <3>3, <3>4, <3>6, <3>7, <3>10, <4>2 DEF Body!NotYetBad
        <5>2. pos' < b.length \/ sent.bad = b.length
          BY <3>4, <3>5, <3>7, <3>8, <3>10, <3>16, <4>2
        <5>3. Body!InTrailers'
          <6>1. chunk' = "trailers"
            BY <2>1, <3>16
          <6>2. pos' >= b.last
            BY <3>3, <3>4, <3>7, <3>10
          <6>3. trailers' = pos' - b.last
            <7> DEFINE last == b.last
            <7>1. trailers' = (pos - last) + 1
              BY <3>2, <3>11
            <7>2. pos \in Nat /\ last \in Nat
              BY <3>4, <3>7
            <7> HIDE DEF last
            <7>3. trailers' = pos' - last
              BY <3>10, <7>1, <7>2
            <7> QED
              BY <7>3 DEF last
          <6> QED
            BY <1>3, <5>2, <6>1, <6>2, <6>3 DEF Body!InTrailers
        <5> QED
          BY <1>10, <2>1, <3>10, <3>13, <3>16, <5>1, <5>3
      <4> QED
        BY <3>9, <4>1, <4>2
    <3> QED
      BY <3>12, <3>14, <3>15, <3>16
  <2> QED
    BY <1>15, <2>2, <2>3 DEF Body!Trailer
<1> QED
  BY <1>7, <1>12, <1>13, <1>14, <1>15

LEMMA BodyKept ==
    ASSUME Body!BodiesAssumption, Body!BodiesInv, [Body!Next]_(Body!vars)
    PROVE  Body!BodiesInv'
<1> DEFINE head == v1  no_body == v2  framing == v3  sent == v4  wire == v5  pos == v6
           chunk == v7  left == v8  done == v9  truncated == v10  trailers == v11
           error == v12
<1>1. CASE Body!Scan
  <2>1. UNCHANGED <<head, no_body, sent, wire, pos, chunk, left, truncated, trailers, error>>
        /\ framing' = Body!ScanResponseHead(head, no_body) /\ done' = TRUE
    BY <1>1 DEF Body!Scan
  <2>2. framing.kind = "unknown"
    BY <1>1 DEF Body!Scan
  <2>3. pos = sent.body.length /\ sent.whole /\ sent.bad = 0 /\ ~error
    BY <2>2 DEF Body!BodiesInv, Body!InPlace
  <2>4. Body!BodiesTyped' /\ Body!AsSent'
    BY <2>1 DEF Body!BodiesInv, Body!BodiesTyped, Body!AsSent
  <2>5. framing'.kind # "unknown"
    BY <2>1, OneLength
  <2>6. Body!InPlace' /\ Body!CleanMeansAligned'
    BY <2>1, <2>3, <2>5 DEF Body!InPlace, Body!Reading, Body!CleanMeansAligned
  <2>7. Body!LengthIsTheOnlyOne'
    <3>1. framing'.kind = "length" =>
            Body!LengthsOf(head) = {framing'.length} /\ Body!TeOf(head) = "absent"
      BY <2>1, OneLength
    <3> QED
      BY <2>1, <3>1 DEF Body!LengthIsTheOnlyOne
  <2> QED
    BY <2>4, <2>6, <2>7 DEF Body!BodiesInv
<1>2. CASE Body!ReadLength \/ Body!ChunkSize \/ Body!ChunkData \/ Body!ChunkEnd \/ Body!Trailer
  <2>1. UNCHANGED Body!input
    BY <1>2 DEF Body!ReadLength, Body!ChunkSize, Body!ChunkData, Body!ChunkEnd, Body!Trailer
  <2> QED
    BY <1>2, <2>1, ReaderKept
<1>3. CASE UNCHANGED Body!vars
  BY <1>3 DEF Body!vars, Body!BodiesInv, Body!BodiesTyped, Body!AsSent, Body!InPlace,
     Body!Reading, Body!NotYetBad, Body!AtSize,
              Body!InData,
              Body!AtCrlf, Body!InTrailers, Body!CleanMeansAligned, Body!LengthIsTheOnlyOne
<1> QED
  BY <1>1, <1>2, <1>3 DEF Body!Next

LEMMA BodyInductive == Spec => []BodyInv
<1>1. Init => BodyInv
  BY BodyAssumption, BodyBegin DEF Init, BodyInv
<1>2. BodyInv /\ [Next]_vars => BodyInv'
  <2> SUFFICES ASSUME BodyInv, [Next]_vars, part' = "body" PROVE Body!BodiesInv'
    BY DEF BodyInv
  <2>1. part = "body"
    BY SamePart
  <2>2. [Body!Next]_(Body!vars)
    BY <2>1 DEF Next, EntryStep, LoopStep, BodyStep, AnswerStep, PipesStep, PartsStep, vars,
       Body!vars
  <2>3. Body!BodiesInv
    BY <2>1 DEF BodyInv
  <2> QED
    BY BodyAssumption, <2>2, <2>3, BodyKept
<1> QED
  BY <1>1, <1>2, PTL DEF Spec

-----------------------------------------------------------------------------
\* Bodies inside the kernel.
\* What the operations on sequences keep of "nothing but x".
LEMMA OnlyEmpty == \A x : Pipes!Only(<<>>, x)
BY DEF Pipes!Only

LEMMA OnlyAppend ==
    ASSUME NEW S, NEW s \in Seq(S), NEW e \in S
    PROVE  Append(s, e) \in Seq(S) /\ \A x : Pipes!Only(s, x) /\ e = x => Pipes!Only(Append(s,
           e), x)
<1>1. /\ Append(s, e) \in Seq(S) /\ Len(Append(s, e)) = Len(s) + 1
      /\ \A i \in 1 .. Len(s) : Append(s, e)[i] = s[i]
      /\ Append(s, e)[Len(s) + 1] = e
  BY AppendProperties
<1>2. DOMAIN Append(s, e) = 1 .. Len(s) + 1 /\ DOMAIN s = 1 .. Len(s) /\ Len(s) \in Nat
  BY <1>1, LenProperties
<1> QED
  BY <1>1, <1>2 DEF Pipes!Only

LEMMA OnlyConcat ==
    ASSUME NEW S, NEW s \in Seq(S), NEW t \in Seq(S)
    PROVE  /\ s \o t \in Seq(S) /\ Len(s \o t) = Len(s) + Len(t)
           /\ \A x : Pipes!Only(s, x) /\ Pipes!Only(t, x) => Pipes!Only(s \o t, x)
<1>1. /\ s \o t \in Seq(S) /\ Len(s \o t) = Len(s) + Len(t)
      /\ \A i \in 1 .. Len(s) + Len(t) : (s \o t)[i] = IF i <= Len(s) THEN s[i] ELSE t[i - Len(s)]
  BY ConcatProperties, Zenon
<1>2. /\ DOMAIN (s \o t) = 1 .. Len(s) + Len(t)
      /\ DOMAIN s = 1 .. Len(s) /\ Len(s) \in Nat /\ DOMAIN t = 1 .. Len(t) /\ Len(t) \in Nat
  BY <1>1, LenProperties
<1> DEFINE st == s \o t
<1>3. DOMAIN st = 1 .. Len(s) + Len(t)
      /\ \A i \in 1 .. Len(s) + Len(t) : st[i] = IF i <= Len(s) THEN s[i] ELSE t[i - Len(s)]
  BY <1>1, <1>2
<1> HIDE DEF st
<1>4. \A x : Pipes!Only(s, x) /\ Pipes!Only(t, x) => Pipes!Only(st, x)
  <2> SUFFICES ASSUME NEW x, Pipes!Only(s, x), Pipes!Only(t, x), NEW i \in DOMAIN st
                      PROVE st[i] = x
    BY DEF Pipes!Only
  <2>1. CASE i <= Len(s)
    BY <1>2, <1>3, <2>1 DEF Pipes!Only
  <2>2. CASE ~ (i <= Len(s))
    <3>1. i - Len(s) \in 1 .. Len(t)
      BY <1>2, <1>3, <2>2
    <3> QED
      BY <1>2, <1>3, <2>2, <3>1 DEF Pipes!Only
  <2> QED
    BY <2>1, <2>2
<1> QED
  BY <1>1, <1>4 DEF st

LEMMA OnlySubSeq ==
    ASSUME NEW S, NEW s \in Seq(S), NEW m \in Nat \ {0}, NEW n \in Nat, n <= Len(s)
    PROVE  /\ SubSeq(s, m, n) \in Seq(S)
           /\ Len(SubSeq(s, m, n)) = IF m <= n THEN n - m + 1 ELSE 0
           /\ \A x : Pipes!Only(s, x) => Pipes!Only(SubSeq(s, m, n), x)
<1>1. DOMAIN s = 1 .. Len(s) /\ Len(s) \in Nat /\ \A i \in 1 .. Len(s) : s[i] \in S
  BY LenProperties
<1>2. \A i \in m .. n : s[i] \in S
  BY <1>1
<1> DEFINE sub == SubSeq(s, m, n)
<1>3. /\ sub \in Seq(S) /\ Len(sub) = IF m <= n THEN n - m + 1 ELSE 0
      /\ \A i \in 1 .. n - m + 1 : sub[i] = s[m + i - 1]
  BY <1>2, SubSeqProperties
<1>4. DOMAIN sub = 1 .. Len(sub)
  BY <1>3, LenProperties
<1> HIDE DEF sub
<1>5. \A x : Pipes!Only(s, x) => Pipes!Only(sub, x)
  <2> SUFFICES ASSUME NEW x, Pipes!Only(s, x), NEW i \in DOMAIN sub PROVE sub[i] = x
    BY DEF Pipes!Only
  <2>1. i \in 1 .. n - m + 1 /\ m + i - 1 \in 1 .. Len(s)
    <3>1. m <= n /\ i \in 1 .. n - m + 1
      BY <1>3, <1>4
    <3> QED
      BY <1>1, <3>1
  <2> QED
    BY <1>1, <1>3, <2>1 DEF Pipes!Only
<1> QED
  BY <1>3, <1>5 DEF sub

LEMMA OnlyRepeat ==
    ASSUME NEW n \in Nat, NEW x \in Nat
    PROVE  /\ [i \in 1 .. n |-> x] \in Seq(Nat) /\ Len([i \in 1 .. n |-> x]) = n
           /\ Pipes!Only([i \in 1 .. n |-> x], x)
BY DEF Pipes!Only

-----------------------------------------------------------------------------
LEMMA PipesBegin == ASSUME Pipes!PassthroughAssumption PROVE Pipes!Init => Pipes!PipesInv
<1> DEFINE pool == v1  relay == v2  got == v3  started == v4  cut == v5
<1> SUFFICES ASSUME Pipes!Init PROVE Pipes!PipesInv
  OBVIOUS
<1>1. pool = <<>> /\ relay = [t \in Threads |-> None] /\ started = 0 /\ cut = FALSE
      /\ got = [i \in 1 .. MaxTransfers |-> <<>>]
  BY DEF Pipes!Init
<1>2. Pipes!PipesTyped
  <2>1. <<>> \in Seq(Nat) /\ <<>> \in Seq(Seq(Nat))
    BY EmptySeq
  <2> QED
    BY <1>1, <2>1 DEF Pipes!PipesTyped
<1>3. Pipes!PipesOwn
  BY <1>1 DEF Pipes!PipesOwn
<1>4. Pipes!OwnUntilCut
  BY <1>1, OnlyEmpty DEF Pipes!OwnUntilCut, Pipes!Own
<1> QED
  BY <1>2, <1>3, <1>4 DEF Pipes!PipesInv

LEMMA PipesKept ==
    ASSUME Pipes!PassthroughAssumption, Pipes!PipesInv, [Pipes!Next]_(Pipes!vars)
    PROVE  Pipes!PipesInv'
<1> DEFINE pool == v1  relay == v2  got == v3  started == v4  cut == v5
<1>1. /\ pool \in Seq(Seq(Nat)) /\ started \in Nat /\ cut \in BOOLEAN
      /\ got \in [1 .. MaxTransfers -> Seq(Nat)]
      /\ relay \in [Threads -> {None} \cup Pipes!Relay]
  BY DEF Pipes!PipesInv, Pipes!PipesTyped
<1>2. ASSUME NEW t \in Threads, relay[t] # None
      PROVE  /\ relay[t].id \in 1 .. MaxTransfers /\ relay[t].pipe \in Seq(Nat)
             /\ relay[t].left \in Nat /\ relay[t].out \in Nat
             /\ relay[t].out <= Len(relay[t].pipe) /\ relay[t].out <= relay[t].left
             /\ ~ cut => Len(relay[t].pipe) = relay[t].out /\ Pipes!Only(relay[t].pipe,
                relay[t].id)
  <2>1. relay[t] \in Pipes!Relay
    BY <1>1, <1>2
  <2> QED
    BY <1>2, <2>1 DEF Pipes!Relay, Pipes!PipesInv, Pipes!PipesOwn
<1>3. ~ cut => Pipes!Only(pool, <<>>) /\ \A i \in 1 .. MaxTransfers : Pipes!Only(got[i], i)
  BY <1>1 DEF Pipes!PipesInv, Pipes!OwnUntilCut, Pipes!Own
\* A step of one thread.
<1>4. ASSUME NEW t \in Threads, NEW new,
             relay' = [relay EXCEPT ![t] = new], cut' \in BOOLEAN, ~ cut' => ~ cut,
             pool' \in Seq(Seq(Nat)), started' \in Nat, got' \in [1 .. MaxTransfers -> Seq(Nat)],
             ~ cut' => Pipes!Only(pool', <<>>)
             /\ \A i \in 1 .. MaxTransfers : Pipes!Only(got'[i], i),
             \/ new = None
             \/ /\ new \in Pipes!Relay /\ new.out <= Len(new.pipe) /\ new.out <= new.left
                /\ ~ cut' => Len(new.pipe) = new.out /\ Pipes!Only(new.pipe, new.id)
      PROVE  Pipes!PipesInv'
  <2>1. relay' \in [Threads -> {None} \cup Pipes!Relay] /\ relay'[t] = new
        /\ \A s \in Threads : s # t => relay'[s] = relay[s]
    BY <1>1, <1>4
  <2>2. Pipes!PipesTyped'
    BY <1>4, <2>1, Zenon DEF Pipes!PipesTyped
  <2>3. Pipes!PipesOwn'
    BY <1>2, <1>4, <2>1 DEF Pipes!PipesOwn
  <2>4. Pipes!OwnUntilCut'
    BY <1>4 DEF Pipes!OwnUntilCut, Pipes!Own
  <2> QED
    BY <2>2, <2>3, <2>4 DEF Pipes!PipesInv
<1>5. ASSUME NEW e \in Seq(Nat), ~ cut => e = <<>>, pool' = pool \/ pool' = Append(pool, e)
      PROVE  pool' \in Seq(Seq(Nat)) /\ (~ cut => Pipes!Only(pool', <<>>))
  <2>1. Append(pool, e) \in Seq(Seq(Nat))
        /\ \A x : Pipes!Only(pool, x) /\ e = x => Pipes!Only(Append(pool, e), x)
    BY <1>1, OnlyAppend
  <2> QED
    BY <1>1, <1>3, <1>5, <2>1
<1>6. ASSUME NEW t \in Threads, Pipes!Borrow(t) PROVE Pipes!PipesInv'
  <2> DEFINE p == IF pool = <<>> THEN <<>> ELSE Pipes!Last(pool)
  <2>1. PICK n \in 1 .. MaxBody :
           relay' = [relay EXCEPT ![t] = [id |-> started + 1, left |-> n, out |-> 0, pipe |-> p]]
    BY <1>6, Zenon DEF Pipes!Borrow
  <2>2. started < MaxTransfers /\ started' = started + 1 /\ got' = got /\ cut' = cut
        /\ (pool = <<>> => pool' = pool)
        /\ (pool # <<>> => pool' = SubSeq(pool, 1, Len(pool) - 1))
    BY <1>6, Zenon DEF Pipes!Borrow, Pipes!Front
  <2>3. pool # <<>> => Len(pool) \in Nat \ {0} /\ Len(pool) \in DOMAIN pool
        /\ pool[Len(pool)] \in Seq(Nat)
    BY <1>1, EmptySeq, LenProperties
  <2>4. p \in Seq(Nat) /\ (~ cut => p = <<>>)
    <3>1. <<>> \in Seq(Nat)
      BY EmptySeq
    <3> QED
      BY <1>3, <2>3, <3>1 DEF Pipes!Last, Pipes!Only
  <2>5. pool' \in Seq(Seq(Nat)) /\ (~ cut => Pipes!Only(pool', <<>>))
    <3>1. CASE pool = <<>>
      BY <1>1, <1>3, <2>2, <3>1
    <3>2. CASE pool # <<>>
      <4>1. Len(pool) - 1 \in Nat /\ Len(pool) - 1 <= Len(pool) /\ 1 \in Nat \ {0}
        BY <2>3, <3>2
      <4>2. /\ SubSeq(pool, 1, Len(pool) - 1) \in Seq(Seq(Nat))
            /\ \A x : Pipes!Only(pool, x) => Pipes!Only(SubSeq(pool, 1, Len(pool) - 1), x)
        <5> DEFINE m == Len(pool) - 1
        <5>1. m \in Nat /\ m <= Len(pool)
          BY <4>1
        <5> HIDE DEF m
        <5>2. /\ SubSeq(pool, 1, m) \in Seq(Seq(Nat))
              /\ \A x : Pipes!Only(pool, x) => Pipes!Only(SubSeq(pool, 1, m), x)
          BY <1>1, <4>1, <5>1, OnlySubSeq
        <5> QED
          BY <5>2 DEF m
      <4> QED
        BY <1>3, <2>2, <3>2, <4>2
    <3> QED
      BY <3>1, <3>2
  <2> DEFINE new == [id |-> started + 1, left |-> n, out |-> 0, pipe |-> p]
  <2> HIDE DEF p
  <2>6. /\ new \in Pipes!Relay /\ new.out <= Len(new.pipe) /\ new.out <= new.left
        /\ ~ cut => Len(new.pipe) = new.out /\ Pipes!Only(new.pipe, new.id)
    <3>1. started + 1 \in 1 .. MaxTransfers /\ n \in Nat
      BY <1>1, <2>2 DEF Pipes!PassthroughAssumption
    <3>2. Len(p) \in Nat /\ (~ cut => Len(p) = 0 /\ Pipes!Only(p, started + 1))
      BY <2>4, OnlyEmpty, EmptySeq, LenProperties
    <3> QED
      BY <2>4, <3>1, <3>2 DEF Pipes!Relay
  <2> HIDE DEF new
  <2>7. relay' = [relay EXCEPT ![t] = new]
    BY <2>1 DEF new
  <2>8. /\ cut' \in BOOLEAN /\ (~ cut' => ~ cut) /\ pool' \in Seq(Seq(Nat)) /\ started' \in Nat
        /\ got' \in [1 .. MaxTransfers -> Seq(Nat)]
        /\ ~ cut' => Pipes!Only(pool', <<>>) /\ \A i \in 1 .. MaxTransfers : Pipes!Only(got'[i],
           i)
        /\ ~ cut' => Len(new.pipe) = new.out /\ Pipes!Only(new.pipe, new.id)
    BY <1>1, <1>3, <2>2, <2>5, <2>6
  <2> QED
    BY <1>4, <2>6, <2>7, <2>8
<1>7. ASSUME NEW t \in Threads, Pipes!Fill(t) PROVE Pipes!PipesInv'
  <2>1. relay[t] # None /\ relay[t].out = 0 /\ UNCHANGED <<pool, got, started, cut>>
    BY <1>7 DEF Pipes!Fill
  <2>2. PICK n \in 1 .. Capacity - Len(relay[t].pipe) :
           /\ n <= relay[t].left
           /\ relay' = [relay EXCEPT ![t].out = n,
                                     ![t].pipe = @ \o [i \in 1 .. n |-> relay[t].id]]
    BY <1>7 DEF Pipes!Fill
  <2> DEFINE more == [i \in 1 .. n |-> relay[t].id]
             pipe == relay[t].pipe \o more
             new == [relay[t] EXCEPT !.out = n, !.pipe = pipe]
  <2>3. n \in Nat \ {0}
    BY <2>2
  <2>4. more \in Seq(Nat) /\ Len(more) = n /\ Pipes!Only(more, relay[t].id)
    <3>1. relay[t].id \in Nat
      BY <1>2, <2>1 DEF Pipes!PassthroughAssumption
    <3> QED
      BY <2>3, <3>1, OnlyRepeat
  <2>5. relay' = [relay EXCEPT ![t] = new]
    BY <1>1, <2>1, <2>2
  <2> HIDE DEF more
  <2>6. pipe \in Seq(Nat) /\ Len(pipe) = Len(relay[t].pipe) + n
        /\ (~ cut => Pipes!Only(pipe, relay[t].id))
    BY <1>2, <2>1, <2>4, OnlyConcat
  <2>7. Len(relay[t].pipe) \in Nat /\ (~ cut => Len(relay[t].pipe) = 0)
    BY <1>2, <2>1, LenProperties
  <2> HIDE DEF pipe
  <2>8. relay[t] \in Pipes!Relay /\ relay[t].left \in Nat /\ n <= relay[t].left
    BY <1>1, <1>2, <2>1, <2>2
  <2>9. new \in Pipes!Relay /\ new.out = n /\ new.pipe = pipe /\ new.left = relay[t].left
        /\ new.id = relay[t].id
    BY <2>3, <2>6, <2>8 DEF Pipes!Relay
  <2> HIDE DEF new
  <2>10. new.out <= Len(new.pipe) /\ new.out <= new.left
    BY <2>3, <2>6, <2>7, <2>8, <2>9
  <2>11. /\ cut' \in BOOLEAN /\ (~ cut' => ~ cut) /\ pool' \in Seq(Seq(Nat)) /\ started' \in Nat
         /\ got' \in [1 .. MaxTransfers -> Seq(Nat)]
         /\ ~ cut' => Pipes!Only(pool', <<>>)
            /\ \A i \in 1 .. MaxTransfers : Pipes!Only(got'[i], i)
         /\ ~ cut' => Len(new.pipe) = new.out /\ Pipes!Only(new.pipe, new.id)
    <3>1. ~ cut => Len(pipe) = n /\ Pipes!Only(pipe, relay[t].id)
      BY <2>3, <2>6, <2>7
    <3>2. ~ cut => Len(new.pipe) = new.out /\ Pipes!Only(new.pipe, new.id)
      BY <2>9, <3>1
    <3> QED
      BY <1>1, <1>3, <2>1, <3>2
  <2> QED
    BY <1>4, <2>5, <2>9, <2>10, <2>11
<1>8. ASSUME NEW t \in Threads, Pipes!OriginEnds(t) \/ Pipes!ClientFails(t) PROVE Pipes!PipesInv'
  <2>1. /\ relay[t] # None /\ UNCHANGED <<got, started>>
        /\ relay' = [relay EXCEPT ![t] = None]
        /\ pool' = pool \/ pool' = Append(pool, relay[t].pipe)
        /\ cut' \in BOOLEAN /\ (~ cut' => ~ cut /\ relay[t].out = 0)
    BY <1>1, <1>8 DEF Pipes!OriginEnds, Pipes!ClientFails, Pipes!GiveBack
  <2>2. relay[t].pipe \in Seq(Nat) /\ (~ cut' => relay[t].pipe = <<>>)
    BY <1>2, <2>1, EmptySeq
  <2>3. pool' \in Seq(Seq(Nat)) /\ (~ cut' => Pipes!Only(pool', <<>>))
    <3>1. Append(pool, relay[t].pipe) \in Seq(Seq(Nat))
          /\ \A x : Pipes!Only(pool, x) /\ relay[t].pipe = x => Pipes!Only(Append(pool,
             relay[t].pipe), x)
      BY <1>1, <2>2, OnlyAppend
    <3> QED
      BY <1>1, <1>3, <2>1, <2>2, <3>1
  <2> QED
    BY <1>1, <1>3, <1>4, <2>1, <2>3
<1>9. ASSUME NEW t \in Threads, Pipes!Drain(t) PROVE Pipes!PipesInv'
  <2> DEFINE old == relay[t]
             rest(w) == SubSeq(old.pipe, w + 1, Len(old.pipe))
             taken(w) == SubSeq(old.pipe, 1, w)
  <2>1. old # None /\ started' = started /\ cut' = cut
    BY <1>9 DEF Pipes!Drain
  <2>2. PICK w \in 1 .. old.out :
           /\ got' = [got EXCEPT ![old.id] = @ \o taken(w)]
           /\ old.left = w =>
                relay' = [relay EXCEPT ![t] = None]
                /\ (pool' = pool \/ pool' = Append(pool, rest(w)))
           /\ old.left # w =>
                relay' = [relay EXCEPT ![t].out = @ - w, ![t].left = @ - w, ![t].pipe = rest(w)]
                /\ pool' = pool
    BY <1>9, Zenon DEF Pipes!Drain
  <2>3. /\ old.id \in 1 .. MaxTransfers /\ old.pipe \in Seq(Nat) /\ old \in Pipes!Relay
        /\ old.left \in Nat /\ old.out \in Nat /\ Len(old.pipe) \in Nat
        /\ old.out <= Len(old.pipe) /\ old.out <= old.left
        /\ ~ cut => Len(old.pipe) = old.out /\ Pipes!Only(old.pipe, old.id)
    BY <1>1, <1>2, <2>1, LenProperties
  <2>4. w \in Nat \ {0} /\ w <= old.out /\ w <= Len(old.pipe) /\ w <= old.left
    <3>1. w \in 1 .. old.out
      BY <2>2
    <3>2. /\ old.left \in Nat /\ old.out \in Nat /\ Len(old.pipe) \in Nat
          /\ old.out <= Len(old.pipe) /\ old.out <= old.left
      BY <2>3
    <3> QED
      BY <3>1, <3>2
  <2>5. /\ rest(w) \in Seq(Nat) /\ Len(rest(w)) = Len(old.pipe) - w
        /\ ~ cut => Pipes!Only(rest(w), old.id)
    <3>1. w + 1 \in Nat \ {0} /\ Len(old.pipe) <= Len(old.pipe)
      BY <2>3, <2>4
    <3>2. /\ rest(w) \in Seq(Nat)
          /\ Len(rest(w)) = IF w + 1 <= Len(old.pipe) THEN Len(old.pipe) - (w + 1) + 1 ELSE 0
          /\ \A x : Pipes!Only(old.pipe, x) => Pipes!Only(rest(w), x)
      BY <2>3, <3>1, OnlySubSeq
    <3> QED
      BY <2>3, <2>4, <3>2
  <2>6. taken(w) \in Seq(Nat) /\ (~ cut => Pipes!Only(taken(w), old.id))
    <3>1. 1 \in Nat \ {0} /\ w \in Nat /\ w <= Len(old.pipe)
      BY <2>4
    <3>2. /\ taken(w) \in Seq(Nat)
          /\ \A x : Pipes!Only(old.pipe, x) => Pipes!Only(taken(w), x)
      BY <2>3, <3>1, OnlySubSeq
    <3> QED
      BY <2>3, <3>2
  <2> HIDE DEF rest, taken
  <2>7. /\ got' \in [1 .. MaxTransfers -> Seq(Nat)]
        /\ ~ cut => \A i \in 1 .. MaxTransfers : Pipes!Only(got'[i], i)
    <3>1. /\ got[old.id] \o taken(w) \in Seq(Nat)
          /\ ~ cut => Pipes!Only(got[old.id] \o taken(w), old.id)
      BY <1>1, <1>3, <2>3, <2>6, OnlyConcat
    <3> DEFINE all == got[old.id] \o taken(w)
    <3>2. got' = [got EXCEPT ![old.id] = all]
      BY <2>2
    <3> HIDE DEF all
    <3> QED
      BY <1>1, <1>3, <2>3, <3>1, <3>2 DEF all
  <2>8. CASE old.left = w
    <3>1. ~ cut => rest(w) = <<>>
      <4>1. ~ cut => Len(rest(w)) = 0
        <5> DEFINE a == Len(old.pipe)
                   b == old.out
                   c == Len(rest(w))
        <5>1. a \in Nat /\ b \in Nat /\ w \in Nat /\ b <= w /\ w <= b /\ c = a - w
          BY <2>3, <2>4, <2>5, <2>8
        <5>2. ~ cut => a = b
          BY <2>3
        <5> HIDE DEF a, b, c
        <5>3. ~ cut => c = 0
          BY <5>1, <5>2
        <5> QED
          BY <5>3 DEF c
      <4> QED
        BY <2>5, <4>1, EmptySeq
    <3>2. pool' \in Seq(Seq(Nat)) /\ (~ cut => Pipes!Only(pool', <<>>))
      BY <1>5, <2>2, <2>5, <2>8, <3>1
    <3> QED
      BY <1>1, <1>4, <2>1, <2>2, <2>7, <2>8, <3>2
  <2>9. CASE old.left # w
    <3> DEFINE new == [old EXCEPT !.out = old.out - w, !.left = old.left - w, !.pipe = rest(w)]
    <3>1. relay' = [relay EXCEPT ![t] = new] /\ pool' = pool
      BY <1>1, <2>2, <2>9
    <3>2. /\ new \in Pipes!Relay /\ new.out = old.out - w /\ new.left = old.left - w
          /\ new.pipe = rest(w) /\ new.id = old.id
      <4>1. old.out - w \in Nat /\ old.left - w \in Nat
        <5> DEFINE a == old.out
                   b == old.left
        <5>1. a \in Nat /\ b \in Nat /\ w \in Nat /\ w <= a /\ w <= b
          BY <2>3, <2>4
        <5> HIDE DEF a, b
        <5>2. a - w \in Nat /\ b - w \in Nat
          BY <5>1
        <5> QED
          BY <5>2 DEF a, b
      <4> DEFINE out == old.out - w
                 left == old.left - w
                 pipe == rest(w)
      <4> HIDE DEF out, left, pipe
      <4>2. out \in Nat /\ left \in Nat /\ pipe \in Seq(Nat)
        BY <2>5, <4>1 DEF out, left, pipe
      <4>3. [old EXCEPT !.out = out, !.left = left, !.pipe = pipe] \in Pipes!Relay
        BY <2>3, <4>2 DEF Pipes!Relay
      <4> QED
        BY <2>3, <4>3 DEF out, left, pipe, Pipes!Relay
    <3>3. new.out <= Len(new.pipe) /\ new.out <= new.left
      <4> DEFINE a == old.out
                 b == old.left
                 n == Len(old.pipe)
      <4>1. a \in Nat /\ b \in Nat /\ n \in Nat /\ w \in Nat /\ a <= n /\ a <= b
        BY <2>3, <2>4
      <4>2. new.out = a - w /\ new.left = b - w /\ Len(new.pipe) = n - w
        BY <2>5, <3>2
      <4> HIDE DEF a, b, n, new
      <4> QED
        BY <4>1, <4>2
    <3> HIDE DEF new
    <3>4. /\ cut' \in BOOLEAN /\ (~ cut' => ~ cut) /\ pool' \in Seq(Seq(Nat)) /\ started' \in Nat
          /\ got' \in [1 .. MaxTransfers -> Seq(Nat)]
          /\ ~ cut' => Pipes!Only(pool', <<>>)
             /\ \A i \in 1 .. MaxTransfers : Pipes!Only(got'[i], i)
          /\ ~ cut' => Len(new.pipe) = new.out /\ Pipes!Only(new.pipe, new.id)
      BY <1>1, <1>3, <2>1, <2>3, <2>5, <2>7, <3>1, <3>2
    <3> QED
      BY <1>4, <3>1, <3>2, <3>3, <3>4
  <2> QED
    BY <2>8, <2>9
<1>10. CASE UNCHANGED Pipes!vars
  BY <1>10 DEF Pipes!vars, Pipes!PipesInv, Pipes!PipesTyped, Pipes!PipesOwn, Pipes!OwnUntilCut,
     Pipes!Own
<1> QED
  BY <1>6, <1>7, <1>8, <1>9, <1>10 DEF Pipes!Next

LEMMA PipesInductive == Spec => []PipesInv
<1>1. Init => PipesInv
  BY PipesAssumption, PipesBegin DEF Init, PipesInv
<1>2. PipesInv /\ [Next]_vars => PipesInv'
  <2> SUFFICES ASSUME PipesInv, [Next]_vars, part' = "pipes" PROVE Pipes!PipesInv'
    BY DEF PipesInv
  <2>1. part = "pipes"
    BY SamePart
  <2>2. [Pipes!Next]_(Pipes!vars)
    BY <2>1 DEF Next, EntryStep, LoopStep, BodyStep, AnswerStep, PipesStep, PartsStep, vars,
       Pipes!vars
  <2>3. Pipes!PipesInv
    BY <2>1 DEF PipesInv
  <2> QED
    BY PipesAssumption, <2>2, <2>3, PipesKept
<1> QED
  BY <1>1, <1>2, PTL DEF Spec

-----------------------------------------------------------------------------
\* Parts of stored answers.
\* A range that is given to somebody lies within the body.
LEMMA RangeWithin ==
    ASSUME Parts!RangesAssumption, NEW s \in Parts!Specs, NEW total \in Nat
    PROVE  LET range == Parts!ParseRange(s, total)
           IN  /\ range.is \in {"ignore", "unsatisfiable", "bytes"}
               /\ range.is = "bytes" =>
                      /\ range.first \in Nat /\ range.last \in Nat
                      /\ range.first <= range.last /\ range.last < total
<1> DEFINE range == Parts!ParseRange(s, total)
<1>1. ASSUME NEW first \in Nat, NEW last \in Nat,
             total # 0 /\ first < total => first <= last /\ last < total
      PROVE  /\ Parts!Part(first, last, total).is \in {"unsatisfiable", "bytes"}
             /\ Parts!Part(first, last, total).is = "bytes" =>
                    /\ Parts!Part(first, last, total).first \in Nat /\ Parts!Part(first, last,
                       total).last \in Nat
                    /\ Parts!Part(first, last, total).first <= Parts!Part(first, last, total).last
                    /\ Parts!Part(first, last, total).last < total
  <2>1. CASE total = 0 \/ first >= total
    BY <2>1 DEF Parts!Part
  <2>2. CASE ~ (total = 0 \/ first >= total)
    BY <1>1, <2>2 DEF Parts!Part
  <2> QED
    BY <2>1, <2>2
<1>2. CASE Parts!Malformed(s)
  <2>1. range = [is |-> "ignore"]
    BY <1>2 DEF Parts!ParseRange, Parts!Malformed, Parts!Specs
  <2> QED
    BY <2>1
<1>3. CASE ~ Parts!Malformed(s) /\ s.kind = "last"
  <2>1. s.n \in Nat
    BY <1>3 DEF Parts!Specs
  <2>2. CASE s.n = 0
    <3>1. range = [is |-> "unsatisfiable"]
      BY <1>3, <2>2 DEF Parts!ParseRange
    <3> QED
      BY <3>1
  <2>3. CASE s.n # 0
    <3>1. range = Parts!Part(Parts!Minus(total, s.n), Parts!Minus(total, 1), total)
      BY <1>3, <2>3 DEF Parts!ParseRange
    <3> DEFINE first == Parts!Minus(total, s.n)
               last == Parts!Minus(total, 1)
    <3>2. /\ first \in Nat /\ last \in Nat
          /\ total # 0 /\ first < total => first <= last /\ last < total
      BY <2>1, <2>3 DEF Parts!Minus
    <3> HIDE DEF first, last
    <3> QED
      BY <1>1, <3>1, <3>2 DEF first, last
  <2> QED
    BY <2>2, <2>3
<1>4. CASE ~ Parts!Malformed(s) /\ s.kind # "last"
  <2>1. s.a \in Nat /\ s.kind = "from" /\ (s.b # None => s.b \in Nat /\ s.b >= s.a)
    BY <1>4 DEF Parts!Specs, Parts!Malformed
  <2> DEFINE last == IF s.b = None THEN Parts!Minus(total, 1) ELSE Parts!Smaller(s.b,
      Parts!Minus(total, 1))
  <2>2. range = Parts!Part(s.a, last, total)
    BY <1>4 DEF Parts!ParseRange
  <2>3. last \in Nat /\ (total # 0 /\ s.a < total => s.a <= last /\ last < total)
    BY <2>1 DEF Parts!Minus, Parts!Smaller
  <2> HIDE DEF last
  <2> QED
    BY <1>1, <2>1, <2>2, <2>3
<1> QED
  BY <1>2, <1>3, <1>4

\* What an answer says of the version it is of.
LEMMA AnswerTells ==
    ASSUME Parts!RangesAssumption, v1 \in Seq(Parts!Versions), NEW v \in 1..Len(v1),
           NEW asked \in Parts!Specs \cup {None}, NEW cond, NEW names, NEW head \in BOOLEAN
    PROVE  Parts!Tells(Parts!ServeCached(v, asked, cond, names, head), v, cond, names)
<1> DEFINE versions == v1
<1> DEFINE total == versions[v].len
           range == IF asked # None /\ ~head /\ Parts!IfRangeMatches(cond, v)
                    THEN Parts!ParseRange(asked, total) ELSE [is |-> "ignore"]
           plan == Parts!Plan(range, total)
           r == Parts!ServeCached(v, asked, cond, names, head)
<1>1. total \in Nat
  <2>1. versions[v] \in Parts!Versions
    BY ElementOfSeq
  <2> QED
    BY <2>1 DEF Parts!Versions
<1>2. /\ range.is = "bytes" =>
            /\ Parts!IfRangeMatches(cond, v)
            /\ range.first \in Nat /\ range.last \in Nat
            /\ range.first <= range.last /\ range.last < total
      /\ range.is \in {"ignore", "unsatisfiable", "bytes"}
  <2>1. CASE asked # None /\ ~head /\ Parts!IfRangeMatches(cond, v)
    BY <1>1, <2>1, RangeWithin
  <2>2. CASE ~ (asked # None /\ ~head /\ Parts!IfRangeMatches(cond, v))
    BY <2>2
  <2> QED
    BY <2>1, <2>2
<1> HIDE DEF range, total
<1>3. CASE Parts!ClientNotModified(names, v)
  <2>1. r = Parts!WriteNotModified(v)
    BY <1>3 DEF Parts!ServeCached
  <2> QED
    BY <1>3, <2>1 DEF Parts!WriteNotModified, Parts!Tells
<1>4. CASE ~ Parts!ClientNotModified(names, v)
  <2>1. r = Parts!WriteCachedResponse(v, range, head)
    BY <1>4, Zenon DEF Parts!ServeCached, range, total
  <2>2. /\ plan.status \in {200, 206, 416} /\ plan.start \in Nat /\ plan.len \in Nat
        /\ plan.status = 206 => range.is = "bytes"
        /\ plan.len = Parts!Smaller(plan.len, Parts!Minus(total, plan.start))
    <3>1. CASE range.is = "bytes"
      <4>1. plan = [status |-> 206, start |-> range.first, len |-> range.last - range.first + 1]
        BY <3>1, Zenon DEF Parts!Plan
      <4>2. plan.start = range.first /\ plan.len = range.last - range.first + 1
            /\ plan.status = 206
        BY <4>1
      <4> HIDE DEF plan
      <4>3. Parts!Minus(total, range.first) = total - range.first
        BY <1>1, <1>2, <3>1 DEF Parts!Minus
      <4>4. plan.len = Parts!Smaller(plan.len, total - range.first)
        BY <1>1, <1>2, <3>1, <4>2 DEF Parts!Smaller
      <4> QED
        BY <1>1, <1>2, <3>1, <4>2, <4>3, <4>4
    <3>2. CASE range.is = "unsatisfiable"
      <4>1. plan = [status |-> 416, start |-> 0, len |-> 0]
        BY <3>2 DEF Parts!Plan
      <4> QED
        BY <1>1, <3>2, <4>1 DEF Parts!Smaller, Parts!Minus
    <3>3. CASE range.is = "ignore"
      <4>1. plan = [status |-> 200, start |-> 0, len |-> total]
        BY <3>3 DEF Parts!Plan
      <4> QED
        BY <1>1, <3>3, <4>1 DEF Parts!Smaller, Parts!Minus
    <3> QED
      BY <1>2, <3>1, <3>2, <3>3
  <2>3. r = [status |-> plan.status, of |-> v, start |-> plan.start,
             promised |-> IF head THEN 0 ELSE plan.len,
             sent |-> IF head THEN 0 ELSE Parts!Smaller(plan.len, Parts!Minus(total, plan.start))]
    BY <2>1, Zenon DEF Parts!WriteCachedResponse, Parts!BodyRange, total
  <2> HIDE DEF plan, r
  <2>4. r.of = v /\ r.promised = r.sent /\ r.status = plan.status
    BY <2>2, <2>3
  <2> QED
    BY <1>2, <2>2, <2>4 DEF r, Parts!Tells
<1> QED
  BY <1>3, <1>4

-----------------------------------------------------------------------------
LEMMA PartsBegin == ASSUME Parts!RangesAssumption PROVE Parts!Init => Parts!PartsInv
<1> DEFINE versions == v1  entry == v2  copy == v3  reply == v4
<1> SUFFICES ASSUME Parts!Init PROVE Parts!PartsInv
  OBVIOUS
<1>1. PICK w \in Parts!Versions : versions = <<w>>
  BY DEF Parts!Init
<1>2. entry = 0 /\ copy.of = 0 /\ copy.bytes = <<>> /\ reply = None
  BY DEF Parts!Init, Parts!NoCopy
<1>3. versions \in Seq(Parts!Versions) /\ Len(versions) = 1
  BY <1>1
<1>4. Parts!PartsTyped /\ Parts!OfOneVersion
  BY <1>2, <1>3 DEF Parts!PartsTyped, Parts!OfOneVersion
<1> QED
  BY <1>2, <1>4 DEF Parts!PartsInv, Parts!PromisedIsSent, Parts!NotModifiedIsTrue

LEMMA PartsKept ==
    ASSUME Parts!RangesAssumption, Parts!PartsInv, [Parts!Next]_(Parts!vars)
    PROVE  Parts!PartsInv'
<1> DEFINE versions == v1  entry == v2  copy == v3  reply == v4
<1>1. /\ versions \in Seq(Parts!Versions) /\ Len(versions) \in Nat /\ Len(versions) >= 1
      /\ entry \in 0..Len(versions) /\ copy.of \in 0..Len(versions)
      /\ \A p \in DOMAIN copy.bytes : copy.bytes[p] \in 1..Len(versions) /\ copy.of # 0
      /\ Parts!OfOneVersion
  BY LenProperties DEF Parts!PartsInv, Parts!PartsTyped
<1>2. ASSUME Parts!Get PROVE Parts!PartsInv'
  <2>1. PICK asked \in Parts!Specs \cup {None}, head \in BOOLEAN :
        \E cond \in {None} \cup (IF copy.of = 0 THEN {} ELSE Parts!Names(copy.of)),
           names \in IF copy.of = 0 THEN {{}} ELSE {{}, Parts!Names(copy.of)} :
          LET r == Parts!ServeCached(entry, asked, cond, names, head)
          IN  /\ reply' = [answer |-> r, had |-> copy.of]
              /\ copy' = IF head THEN copy ELSE Parts!Joined(copy, r, cond)
    BY <1>2 DEF Parts!Get
  <2>2. PICK cond, names :
           LET r == Parts!ServeCached(entry, asked, cond, names, head)
           IN  /\ reply' = [answer |-> r, had |-> copy.of]
               /\ head => copy' = copy
               /\ ~ head => copy' = Parts!Joined(copy, r, cond)
               /\ cond # None => copy.of # 0 /\ cond \in Parts!Names(copy.of)
               /\ names # {} => copy.of # 0 /\ names = Parts!Names(copy.of)
    <3>1. PICK c \in {None} \cup (IF copy.of = 0 THEN {} ELSE Parts!Names(copy.of)),
               n \in IF copy.of = 0 THEN {{}} ELSE {{}, Parts!Names(copy.of)} :
            LET r == Parts!ServeCached(entry, asked, c, n, head)
            IN  /\ reply' = [answer |-> r, had |-> copy.of]
                /\ copy' = IF head THEN copy ELSE Parts!Joined(copy, r, c)
      BY <2>1
    <3>2. /\ c # None => copy.of # 0 /\ c \in Parts!Names(copy.of)
          /\ n # {} => copy.of # 0 /\ n = Parts!Names(copy.of)
      <4>1. CASE copy.of = 0
        BY <3>1, <4>1
      <4>2. CASE copy.of # 0
        BY <3>1, <4>2
      <4> QED
        BY <4>1, <4>2
    <3>3. LET r == Parts!ServeCached(entry, asked, c, n, head)
          IN  /\ reply' = [answer |-> r, had |-> copy.of]
              /\ head => copy' = copy
              /\ ~ head => copy' = Parts!Joined(copy, r, c)
      BY <3>1, Zenon
    <3> QED
      BY <3>2, <3>3, Zenon
  <2> DEFINE r == Parts!ServeCached(entry, asked, cond, names, head)
  <2>3. /\ reply' = [answer |-> r, had |-> copy.of]
        /\ head => copy' = copy
        /\ ~ head => copy' = Parts!Joined(copy, r, cond)
    BY <2>2, Zenon
  <2>4. /\ cond # None => copy.of # 0 /\ cond \in Parts!Names(copy.of)
        /\ names # {} => copy.of # 0 /\ names = Parts!Names(copy.of)
    BY <2>2, Zenon
  <2>5. entry \in 1..Len(versions) /\ entry' = entry /\ versions' = versions
    BY <1>1, <1>2 DEF Parts!Get
  <2>6. /\ r.of = entry /\ r.promised = r.sent
        /\ r.status = 304 => Parts!ClientNotModified(names, entry)
        /\ r.status = 206 => Parts!IfRangeMatches(cond, entry)
    <3>1. versions \in Seq(Parts!Versions) /\ asked \in Parts!Specs \cup {None}
          /\ head \in BOOLEAN
      BY <1>1
    <3>2. entry \in 1..Len(versions)
      BY <2>5
    <3>3. Parts!Tells(r, entry, cond, names)
      BY <3>1, <3>2, AnswerTells
    <3> QED
      BY <3>3 DEF Parts!Tells
  <2> HIDE DEF r
  <2>7. Parts!PromisedIsSent'
    BY <2>3, <2>6 DEF Parts!PromisedIsSent
  <2>8. \A v \in 1..Len(versions) :
           /\ versions[v].tag \in {"strong", "weak", "none"}
           /\ Parts!TagOf(v).by = versions[v].tag
           /\ Parts!DateOf(v).by = "date" /\ Parts!DateOf(v).is = versions[v].modified
           /\ versions[v].tag = "strong" => Parts!TagOf(v).is = v
           /\ versions[v].tag = "none" => Parts!Names(v) = {Parts!DateOf(v)}
           /\ versions[v].tag # "none" => Parts!Names(v) = {Parts!DateOf(v), Parts!TagOf(v)}
    <3> SUFFICES ASSUME NEW v \in 1..Len(versions)
                 PROVE  /\ versions[v].tag \in {"strong", "weak", "none"}
                        /\ Parts!TagOf(v).by = versions[v].tag
                        /\ Parts!DateOf(v).by = "date"
                           /\ Parts!DateOf(v).is = versions[v].modified
                        /\ versions[v].tag = "strong" => Parts!TagOf(v).is = v
                        /\ versions[v].tag = "none" => Parts!Names(v) = {Parts!DateOf(v)}
                        /\ versions[v].tag # "none" => Parts!Names(v) = {Parts!DateOf(v),
                           Parts!TagOf(v)}
      OBVIOUS
    <3>1. versions[v] \in Parts!Versions
      BY <1>1, ElementOfSeq
    <3>2. versions[v].tag \in {"strong", "weak", "none"}
      BY <3>1 DEF Parts!Versions
    <3>3. versions[v].tag = "none" => Parts!Names(v) = {Parts!DateOf(v)}
      BY DEF Parts!Names
    <3>4. versions[v].tag # "none" => Parts!Names(v) = {Parts!DateOf(v), Parts!TagOf(v)}
      BY DEF Parts!Names
    <3> QED
      BY <3>2, <3>3, <3>4 DEF Parts!TagOf, Parts!DateOf
  <2>9. Parts!NotModifiedIsTrue'
    <3> SUFFICES ASSUME r.status = 304
                 PROVE  \/ Parts!TagOf(copy.of) = Parts!TagOf(entry)
                        \/ /\ versions[copy.of].tag = "none"
                           /\ versions[entry].modified <= versions[copy.of].modified
      BY <2>3, <2>5, <2>6 DEF Parts!NotModifiedIsTrue, Parts!TagOf
    <3>1. Parts!ClientNotModified(names, entry)
      BY <2>6
    <3>2. names # {}
      BY <3>1 DEF Parts!ClientNotModified
    <3>3. copy.of \in 1..Len(versions) /\ names = Parts!Names(copy.of)
      BY <1>1, <2>4, <3>2
    <3>4. CASE versions[copy.of].tag = "none"
      <4>1. names = {Parts!DateOf(copy.of)} /\ Parts!DateOf(copy.of).by = "date"
            /\ Parts!DateOf(copy.of).is = versions[copy.of].modified
        BY <2>8, <3>3, <3>4
      <4> QED
        BY <3>1, <3>4, <4>1 DEF Parts!ClientNotModified
    <3>5. CASE versions[copy.of].tag # "none"
      <4>1. names = {Parts!DateOf(copy.of), Parts!TagOf(copy.of)}
            /\ Parts!DateOf(copy.of).by = "date"
            /\ Parts!TagOf(copy.of).by # "date" /\ Parts!TagOf(entry).by # "date"
        BY <2>5, <2>8, <3>3, <3>5
      <4> QED
        BY <3>1, <4>1 DEF Parts!ClientNotModified
    <3> QED
      BY <3>4, <3>5
\* The bytes that come are of the version the client's copy is of, or of its second.
  <2>10. \/ UNCHANGED copy
         \/ /\ copy'.of = entry
            /\ \A p \in DOMAIN copy'.bytes : copy'.bytes[p] = entry
         \/ /\ copy.of # 0 /\ cond # None /\ Parts!IfRangeMatches(cond, entry)
            /\ copy'.of = copy.of
            /\ \A p \in DOMAIN copy'.bytes :
                  \/ p \in DOMAIN copy.bytes /\ copy'.bytes[p] = copy.bytes[p]
                  \/ copy'.bytes[p] = entry
            /\ cond.by = "date" => copy'.by = "date"
            /\ cond.by # "date" => copy'.by = copy.by
    <3> SUFFICES ASSUME ~ head, copy' = Parts!Joined(copy, r, cond)
                 PROVE  \/ UNCHANGED copy
                        \/ /\ copy'.of = entry
                           /\ \A p \in DOMAIN copy'.bytes : copy'.bytes[p] = entry
                        \/ /\ copy.of # 0 /\ cond # None /\ Parts!IfRangeMatches(cond, entry)
                           /\ copy'.of = copy.of
                           /\ \A p \in DOMAIN copy'.bytes :
                                 \/ p \in DOMAIN copy.bytes /\ copy'.bytes[p] = copy.bytes[p]
                                 \/ copy'.bytes[p] = entry
                           /\ cond.by = "date" => copy'.by = "date"
                           /\ cond.by # "date" => copy'.by = copy.by
      BY <2>3
    <3>1. CASE r.status = 206 /\ copy.of # 0 /\ cond # None
      <4> DEFINE bytes == [p \in DOMAIN copy.bytes \cup {r.start + i : i \in 0..r.sent - 1} |->
                              IF p \in DOMAIN copy.bytes THEN copy.bytes[p] ELSE r.of]
      <4>1. copy' = [of |-> copy.of, by |-> IF cond.by = "date" THEN "date" ELSE copy.by,
                     bytes |-> bytes]
        BY <3>1, SMT DEF Parts!Joined
      <4>2. \A p \in DOMAIN bytes : \/ p \in DOMAIN copy.bytes /\ bytes[p] = copy.bytes[p]
                                    \/ bytes[p] = entry
        BY <2>6
      <4> HIDE DEF bytes
      <4> QED
        BY <2>6, <3>1, <4>1, <4>2
    <3>2. CASE r.status = 206 /\ copy.of = 0
      <4> DEFINE bytes == [p \in {r.start + i : i \in 0..r.sent - 1} |-> r.of]
      <4>1. copy' = [of |-> r.of, by |-> "tag", bytes |-> bytes]
        BY <3>2, SMT DEF Parts!Joined
      <4>2. \A p \in DOMAIN bytes : bytes[p] = entry
        BY <2>6
      <4> HIDE DEF bytes
      <4> QED
        BY <2>6, <4>1, <4>2
    <3>3. CASE r.status = 200
      <4> DEFINE bytes == [p \in 0..r.sent - 1 |-> r.of]
      <4>1. copy' = [of |-> r.of, by |-> "tag", bytes |-> bytes]
        BY <3>3, SMT DEF Parts!Joined
      <4>2. \A p \in DOMAIN bytes : bytes[p] = entry
        BY <2>6
      <4> HIDE DEF bytes
      <4> QED
        BY <2>6, <4>1, <4>2
    <3>4. CASE r.status # 200 /\ ~ (r.status = 206 /\ copy.of # 0 /\ cond # None)
               /\ ~ (r.status = 206 /\ copy.of = 0)
      BY <3>4 DEF Parts!Joined
    <3> QED
      BY <3>1, <3>2, <3>3, <3>4
  <2>11. ASSUME copy.of # 0, cond # None, Parts!IfRangeMatches(cond, entry)
         PROVE  \/ entry = copy.of
                \/ cond.by = "date" /\ versions[entry].modified = versions[copy.of].modified
    <3>1. copy.of \in 1..Len(versions) /\ cond \in Parts!Names(copy.of)
      BY <1>1, <2>4, <2>11
    <3>2. cond = Parts!DateOf(copy.of) \/ (cond = Parts!TagOf(copy.of)
          /\ versions[copy.of].tag # "none")
      BY <2>8, <3>1
    <3>3. CASE cond = Parts!DateOf(copy.of)
      <4>1. cond.by = "date" /\ cond.is = versions[copy.of].modified
        BY <2>8, <3>1, <3>3
      <4>2. cond.is = versions[entry].modified
        BY <2>11, <4>1 DEF Parts!IfRangeMatches
      <4> QED
        BY <4>1, <4>2
    <3>4. CASE cond = Parts!TagOf(copy.of) /\ versions[copy.of].tag # "none"
      <4>1. cond.by \in {"strong", "weak"} /\ (cond.by = "strong" => cond.is = copy.of)
        BY <2>8, <3>1, <3>4
      <4>2. cond.by = "strong" /\ cond = Parts!TagOf(entry)
        BY <2>11, <4>1 DEF Parts!IfRangeMatches
      <4> QED
        BY <2>5, <2>8, <4>1, <4>2
    <3> QED
      BY <3>2, <3>3, <3>4
  <2>12. Parts!PartsTyped' /\ Parts!OfOneVersion'
    BY <1>1, <2>5, <2>10, <2>11 DEF Parts!PartsTyped, Parts!OfOneVersion
  <2> QED
    BY <2>7, <2>9, <2>12 DEF Parts!PartsInv
<1>3. ASSUME Parts!Forget PROVE Parts!PartsInv'
  <2>1. copy'.of = 0 /\ copy'.bytes = <<>> /\ reply' = None /\ UNCHANGED <<versions, entry>>
    BY <1>3 DEF Parts!Forget, Parts!NoCopy
  <2> QED
    BY <1>1, <2>1 DEF Parts!PartsInv, Parts!PartsTyped, Parts!OfOneVersion,
       Parts!PromisedIsSent, Parts!NotModifiedIsTrue
<1>4. ASSUME Parts!Publish PROVE Parts!PartsInv'
  <2>1. PICK v \in Parts!Versions : versions' = Append(versions, v)
    BY <1>4 DEF Parts!Publish
  <2>2. reply' = None /\ UNCHANGED <<entry, copy>>
    BY <1>4 DEF Parts!Publish
  <2>3. /\ versions' \in Seq(Parts!Versions) /\ Len(versions') = Len(versions) + 1
        /\ \A i \in 1..Len(versions) : versions'[i] = versions[i]
    BY <1>1, <2>1, AppendProperties
  <2>4. Parts!PartsTyped'
    BY <1>1, <2>2, <2>3 DEF Parts!PartsTyped
  <2>5. Parts!OfOneVersion'
    BY <1>1, <2>2, <2>3 DEF Parts!OfOneVersion
  <2> QED
    BY <2>2, <2>4, <2>5 DEF Parts!PartsInv, Parts!PromisedIsSent, Parts!NotModifiedIsTrue
<1>5. ASSUME Parts!Store PROVE Parts!PartsInv'
  <2>1. entry' \in 0..Len(versions) /\ reply' = None /\ UNCHANGED <<versions, copy>>
    BY <1>1, <1>5 DEF Parts!Store
  <2> QED
    BY <1>1, <2>1 DEF Parts!PartsInv, Parts!PartsTyped, Parts!OfOneVersion,
       Parts!PromisedIsSent, Parts!NotModifiedIsTrue
<1>6. CASE UNCHANGED Parts!vars
  BY <1>6 DEF Parts!vars, Parts!PartsInv, Parts!PartsTyped, Parts!OfOneVersion,
     Parts!PromisedIsSent, Parts!NotModifiedIsTrue, Parts!TagOf
<1> QED
  BY <1>2, <1>3, <1>4, <1>5, <1>6 DEF Parts!Next

LEMMA PartsInductive == Spec => []PartsInv
<1>1. Init => PartsInv
  BY PartsAssumption, PartsBegin DEF Init, PartsInv
<1>2. PartsInv /\ [Next]_vars => PartsInv'
  <2> SUFFICES ASSUME PartsInv, [Next]_vars, part' = "parts" PROVE Parts!PartsInv'
    BY DEF PartsInv
  <2>1. part = "parts"
    BY SamePart
  <2>2. [Parts!Next]_(Parts!vars)
    BY <2>1 DEF Next, EntryStep, LoopStep, BodyStep, AnswerStep, PipesStep, PartsStep, vars,
       Parts!vars
  <2>3. Parts!PartsInv
    BY <2>1 DEF PartsInv
  <2> QED
    BY PartsAssumption, <2>2, <2>3, PartsKept
<1> QED
  BY <1>1, <1>2, PTL DEF Spec

-----------------------------------------------------------------------------
\* What is taken for a complete body is one, wherever bodies are handled: read to its very end and
\* by its only length, delivered and stored whole, from no pipe that holds another's bytes, and of
\* one version with what the client has (BodyReader, finish, splice, serve_range).
THEOREM BodiesAlwaysWhole == Spec => []BodiesAreWhole
<1>1. BodyInv /\ part = "body" => Body!CleanMeansAligned /\ Body!LengthIsTheOnlyOne
  BY DEF BodyInv, Body!BodiesInv
<1>2. AnswerInv /\ part = "answer" => Answer!CompleteIsWhole /\ Answer!LeftWhole
  BY AnswerAssumption, WholeCounts DEF AnswerInv
<1>3. PipesInv /\ part = "pipes" => Pipes!OwnUntilCut
  BY DEF PipesInv, Pipes!PipesInv
<1>4. PartsInv /\ part = "parts" =>
        Parts!OfOneVersion /\ Parts!PromisedIsSent /\ Parts!NotModifiedIsTrue
  BY DEF PartsInv, Parts!PartsInv
<1>5. BodyInv /\ AnswerInv /\ PipesInv /\ PartsInv => BodiesAreWhole
  BY <1>1, <1>2, <1>3, <1>4 DEF BodiesAreWhole
<1> QED
  BY <1>5, BodyInductive, AnswerInductive, PipesInductive, PartsInductive, PTL

=============================================================================
