----------------------------- MODULE IngestProofs -----------------------------
(***************************************************************************)
(* What module Ingest guarantees for any events, any number of threads,    *)
(* requests and restarts, and any sizes of the sink's queue and patience.  *)
(***************************************************************************)
EXTENDS Ingest, TLAPS, FiniteSetTheorems

Item == [event : Events, attempts : Nat \ {0}]

Stages == {"idle", "append", "project new", "project old", "write new", "write old",
           "push", "post", "landed", "queue", "lose", "start", "answer"}

Shape ==
    /\ log \in Seq(Events)
    /\ rows \in [Events -> Nat]
    /\ stage \in [Threads -> Stages]
    /\ event \in [Threads -> Events \cup {NoEvent}]
    /\ absent \in [Threads -> BOOLEAN]
    /\ queue \in Seq(Item) /\ hand \in Item \cup {NoItem}
    /\ delivered \in Nat /\ lost \in Nat /\ entered \in Nat
    /\ agent \in [Events -> Nat] /\ unheard \in [Events -> Nat]
    /\ \A t \in Threads : stage[t] # "idle" => event[t] \in Events

-----------------------------------------------------------------------------
LEMMA ItemIs == NoItem \notin Item /\ \A i \in Item : i.event \in Events
BY DEF Item, NoItem

LEMMA Appending ==
    ASSUME NEW S, NEW q \in Seq(S), NEW x \in S
    PROVE  /\ Append(q, x) \in Seq(S) /\ Len(Append(q, x)) = Len(q) + 1
           /\ \A i \in DOMAIN q : Append(q, x)[i] = q[i]
           /\ Append(q, x)[Len(q) + 1] = x
OBVIOUS

LEMMA ShapeInit == Init => Shape
BY DEF Init, Shape, Stages, Ledger!Init

LEMMA DoneShape ==
    ASSUME Shape, NEW t \in Threads, Done(t)
    PROVE  /\ stage' \in [Threads -> Stages] /\ event' \in [Threads -> Events \cup {NoEvent}]
           /\ absent' \in [Threads -> BOOLEAN]
           /\ \A u \in Threads : stage'[u] # "idle" => event'[u] \in Events
<1>1. stage' = [stage EXCEPT ![t] = "idle"] /\ event' = [event EXCEPT ![t] = NoEvent]
      /\ absent' = [absent EXCEPT ![t] = FALSE]
  BY DEF Done, To
<1>2. stage' \in [Threads -> Stages] /\ event' \in [Threads -> Events \cup {NoEvent}]
  BY <1>1 DEF Shape, Stages
<1>3. absent' \in [Threads -> BOOLEAN]
  BY <1>1 DEF Shape
<1>4. \A u \in Threads : stage'[u] # "idle" => event'[u] \in Events
  BY <1>1 DEF Shape
<1> QED BY <1>2, <1>3, <1>4

LEMMA ToShape ==
    ASSUME Shape, NEW t \in Threads, NEW s \in Stages, To(t, s), stage[t] # "idle",
           event' = event
    PROVE  /\ stage' \in [Threads -> Stages] /\ event' \in [Threads -> Events \cup {NoEvent}]
           /\ \A u \in Threads : stage'[u] # "idle" => event'[u] \in Events
BY DEF To, Shape

LEMMA ArriveShape ==
    ASSUME Shape, NEW e \in Events, NEW o \in Outcomes, Arrive(e, o)
    PROVE  agent' \in [Events -> Nat] /\ unheard' \in [Events -> Nat]
BY DEF Arrive, Shape

LEMMA ShapeStep == Shape /\ [Next]_vars => Shape'
<1> SUFFICES ASSUME Shape, [Next]_vars PROVE Shape'
  OBVIOUS
<1>1. ASSUME NEW t \in Threads, NEW e \in Events, Post(t, e) PROVE Shape'
  <2>1. stage' \in [Threads -> Stages] /\ event' \in [Threads -> Events \cup {NoEvent}]
        /\ \A u \in Threads : stage'[u] # "idle" => event'[u] \in Events
    BY <1>1 DEF Post, To, Shape, Stages
  <2> QED BY <1>1, <2>1 DEF Post, Shape, sink, peer
<1>2. ASSUME NEW t \in Threads, Insert(t) PROVE Shape'
  <2>1. event[t] \in Events /\ stage[t] # "idle"
    BY <1>2 DEF Insert, Shape
  <2>2. log' \in Seq(Events)
    BY <1>2, <2>1, Appending DEF Insert, Ledger!Append1, Shape
  <2>3. UNCHANGED <<rows, sink, peer, entered>>
    BY <1>2 DEF Insert
  <2>4. CASE Done(t)
    BY <2>2, <2>3, <2>4, DoneShape DEF Shape, sink, peer
  <2>5. CASE To(t, "project new") /\ UNCHANGED <<event, absent>>
    BY <2>1, <2>2, <2>3, <2>5, ToShape DEF Shape, sink, peer, Stages
  <2> QED BY <1>2, <2>4, <2>5 DEF Insert
<1>3. ASSUME NEW t \in Threads, Unavailable(t) \/ Answer(t) PROVE Shape'
  BY <1>3, DoneShape DEF Unavailable, Answer, Shape, sink, peer
<1>4. ASSUME NEW t \in Threads, Recognise(t) PROVE Shape'
  <2>1. stage[t] # "idle" /\ "project old" \in Stages
    BY <1>4 DEF Recognise, Stages
  <2> QED BY <1>4, <2>1, ToShape DEF Recognise, Shape, sink, peer
<1>5. ASSUME NEW t \in Threads, FindRow(t) PROVE Shape'
  <2>1. stage[t] # "idle" /\ "write new" \in Stages /\ "write old" \in Stages
    BY <1>5 DEF FindRow, Stages
  <2>2. UNCHANGED <<log, rows, event, sink, peer, entered>>
    BY <1>5 DEF FindRow
  <2>3. absent' \in [Threads -> BOOLEAN]
    BY <1>5 DEF FindRow, Shape
  <2>4. To(t, "write new") \/ To(t, "write old")
    BY <1>5 DEF FindRow
  <2> QED BY <2>1, <2>2, <2>3, <2>4, ToShape DEF Shape, sink, peer
<1>6. ASSUME NEW t \in Threads, Projected(t), stage[t] # "idle",
             UNCHANGED <<log, sink, peer, entered>>, rows' \in [Events -> Nat]
      PROVE  Shape'
  <2>1. CASE Done(t)
    BY <1>6, <2>1, DoneShape DEF Shape, sink, peer
  <2>2. CASE ~Done(t)
    <3>1. To(t, "push") /\ absent' = [absent EXCEPT ![t] = FALSE] /\ UNCHANGED event
      BY <1>6, <2>2 DEF Projected
    <3>2. absent' \in [Threads -> BOOLEAN]
      BY <3>1 DEF Shape
    <3> QED BY <1>6, <3>1, <3>2, ToShape DEF Shape, sink, peer, Stages
  <2> QED BY <2>1, <2>2
<1>7. ASSUME NEW t \in Threads, WriteRow(t) PROVE Shape'
  <2>1. rows' \in [Events -> Nat]
    <3>1. CASE rows' = rows
      BY <3>1 DEF Shape
    <3>2. CASE rows' = [rows EXCEPT ![event[t]] = @ + 1]
      <4>1. event[t] \in Events
        BY <1>7 DEF WriteRow, Shape
      <4> QED BY <3>2, <4>1 DEF Shape
    <3>3. rows' = rows \/ rows' = [rows EXCEPT ![event[t]] = @ + 1]
      BY <1>7 DEF WriteRow
    <3> QED BY <3>1, <3>2, <3>3
  <2> QED BY <1>6, <1>7, <2>1 DEF WriteRow
<1>8. ASSUME NEW t \in Threads, SkipRow(t) PROVE Shape'
  BY <1>6, <1>8 DEF SkipRow, Shape
<1>9. ASSUME NEW t \in Threads, Push(t) PROVE Shape'
  <2>1. stage[t] # "idle" /\ "post" \in Stages
    BY <1>9 DEF Push, Stages
  <2> QED BY <1>9, <2>1, ToShape DEF Push, Shape, sink, peer
<1>10. ASSUME NEW t \in Threads, PostInline(t) PROVE Shape'
  <2>1. PICK o \in Outcomes : Arrive(event[t], o)
           /\ To(t, IF o = "landed" THEN "landed"
                    ELSE IF Retryable(o) /\ Attempts > 1 THEN "queue" ELSE "lose")
    BY <1>10 DEF PostInline
  <2>2. event[t] \in Events /\ stage[t] # "idle"
    BY <1>10 DEF PostInline, Shape
  <2>3. UNCHANGED <<log, rows, event, absent, sink, entered>>
    BY <1>10 DEF PostInline
  <2>4. agent' \in [Events -> Nat] /\ unheard' \in [Events -> Nat]
    BY <2>1, <2>2, ArriveShape
  <2>5. PICK s \in Stages : To(t, s)
    BY <2>1 DEF Stages
  <2> QED BY <2>2, <2>3, <2>4, <2>5, ToShape DEF Shape, sink
<1>11. ASSUME NEW t \in Threads, Landed(t) \/ Lose(t) \/ StartWorker(t) PROVE Shape'
  <2>1. stage[t] # "idle" /\ To(t, "answer") /\ "answer" \in Stages
    BY <1>11 DEF Landed, Lose, StartWorker, Stages
  <2> QED BY <1>11, <2>1, ToShape DEF Landed, Lose, StartWorker, Shape, peer
<1>12. ASSUME NEW t \in Threads, QueueOrLose(t) PROVE Shape'
  <2>1. stage[t] # "idle" /\ event[t] \in Events
    BY <1>12 DEF QueueOrLose, Shape
  <2>2. PICK s \in Stages : To(t, s)
    BY <1>12 DEF QueueOrLose, Stages
  <2>3. queue' \in Seq(Item) /\ lost' \in Nat
    <3>1. [event |-> event[t], attempts |-> 1] \in Item
      BY <2>1 DEF Item
    <3>2. CASE Full
      BY <1>12, <3>2 DEF QueueOrLose, Shape, Overflow
    <3>3. CASE ~Full
      <4>1. /\ queue' = Append(queue, [event |-> event[t], attempts |-> 1])
            /\ lost' = lost
        BY <1>12, <3>3 DEF QueueOrLose
      <4> HIDE <1>12
      <4> QED BY <3>1, <4>1, Appending DEF Shape
    <3> QED BY <3>2, <3>3
  <2> QED BY <1>12, <2>1, <2>2, <2>3, ToShape DEF QueueOrLose, Shape, peer
<1>13. CASE Pop
  BY <1>13 DEF Pop, Shape, door, peer
<1>14. CASE Repost
  <2>1. hand \in Item
    BY <1>14 DEF Repost, Shape
  <2>2. [hand EXCEPT !.attempts = @ + 1] \in Item
    BY <2>1 DEF Item
  <2>3. PICK o \in Outcomes :
        LET spent == ~Retryable(o) \/ Spent(hand)
        IN  /\ Arrive(hand.event, o)
            /\ IF o = "landed" THEN delivered' = delivered + 1 /\ UNCHANGED <<queue, lost>>
               ELSE IF spent THEN lost' = lost + 1 /\ UNCHANGED <<queue, delivered>>
               ELSE /\ queue' = Append(queue, [hand EXCEPT !.attempts = @ + 1])
                    /\ UNCHANGED <<delivered, lost>>
    BY <1>14 DEF Repost
  <2>4. agent' \in [Events -> Nat] /\ unheard' \in [Events -> Nat]
    BY <2>1, <2>3, ItemIs, ArriveShape
  <2>5. queue' \in Seq(Item) /\ delivered' \in Nat /\ lost' \in Nat
    <3>1. /\ delivered' \in {delivered, delivered + 1} /\ lost' \in {lost, lost + 1}
          /\ queue' = queue \/ queue' = Append(queue, [hand EXCEPT !.attempts = @ + 1])
      BY <2>3
    <3>2. delivered \in Nat /\ lost \in Nat /\ queue \in Seq(Item)
      BY DEF Shape
    <3>3. Append(queue, [hand EXCEPT !.attempts = @ + 1]) \in Seq(Item)
      BY <2>2, <3>2, Appending
    <3> QED BY <3>1, <3>2, <3>3
  <2> QED BY <1>14, <2>4, <2>5 DEF Repost, Shape, door
<1>15. CASE Restart
  <2>1. /\ stage' = [t \in Threads |-> "idle"] /\ event' = [t \in Threads |-> NoEvent]
        /\ absent' = [t \in Threads |-> FALSE]
        /\ queue' = <<>> /\ hand' = NoItem /\ delivered' = 0 /\ lost' = 0 /\ entered' = 0
        /\ UNCHANGED <<log, rows, peer>>
    BY <1>15 DEF Restart
  <2>2. \A t \in Threads : stage'[t] = "idle"
    BY <2>1
  <2>3. absent' \in [Threads -> BOOLEAN]
    BY <2>1
  <2>4. queue' \in Seq(Item)
    BY <2>1
  <2> QED BY <2>1, <2>2, <2>3, <2>4 DEF Shape, Stages, peer
<1>16. CASE UNCHANGED vars
  BY <1>16 DEF vars, Shape, door, sink, peer
<1> QED BY <1>1, <1>2, <1>3, <1>4, <1>5, <1>7, <1>8, <1>9, <1>10, <1>11, <1>12,
           <1>13, <1>14, <1>15, <1>16 DEF Next, Serve, Drain

-----------------------------------------------------------------------------
(* The queue's ceiling counts what the worker has in its hand.             *)
InSink == Len(queue) + (IF hand = NoItem THEN 0 ELSE 1)
Ceiling == InSink <= MaxPending + 1

(* The steps after which every delta is where it was.                      *)
Kept == UNCHANGED <<queue, hand>>

LEMMA ServeKept ==
    ASSUME NEW t \in Threads, Serve(t), ~QueueOrLose(t)
    PROVE  Kept
BY DEF Serve, Insert, Recognise, Unavailable, FindRow, WriteRow, SkipRow, Push, PostInline,
       Landed, Lose, StartWorker, Answer, Kept, sink

LEMMA CeilingStep == Shape /\ Ceiling /\ [Next]_vars => Ceiling'
<1> SUFFICES ASSUME Shape, Ceiling, [Next]_vars PROVE Ceiling'
  OBVIOUS
<1>0. Len(queue) \in Nat /\ MaxPending \in Nat /\ queue \in Seq(Item)
  BY AttemptsAssumption DEF Shape
<1>1. CASE Kept
  BY <1>1 DEF Kept, Ceiling, InSink
<1>2. ASSUME NEW t \in Threads, QueueOrLose(t) PROVE Ceiling'
  <2>1. CASE Full
    BY <1>1, <1>2, <2>1 DEF QueueOrLose, Kept
  <2>2. CASE ~Full
    <3>1. queue' = Append(queue, [event |-> event[t], attempts |-> 1]) /\ hand' = hand
      BY <1>2, <2>2 DEF QueueOrLose
    <3>2. event[t] \in Events
      BY <1>2 DEF QueueOrLose, Shape
    <3>3. [event |-> event[t], attempts |-> 1] \in Item
      BY <3>2 DEF Item
    <3>4. Len(queue') = Len(queue) + 1
      BY <1>0, <3>1, <3>3, Appending
    <3> QED BY <1>0, <2>2, <3>1, <3>4 DEF Full, Ceiling, InSink
  <2> QED BY <2>1, <2>2
<1>3. CASE Pop
  <2>1. hand = NoItem /\ queue # <<>> /\ queue' = Tail(queue)
    BY <1>3 DEF Pop
  <2>2. Len(queue') = Len(queue) - 1
    BY <1>0, <2>1
  <2> QED BY <1>0, <2>1, <2>2 DEF Ceiling, InSink
<1>4. CASE Repost
  <2>1. hand \in Item /\ hand # NoItem /\ hand' = NoItem
    BY <1>4 DEF Repost, Shape
  <2>2. [hand EXCEPT !.attempts = @ + 1] \in Item
    BY <2>1 DEF Item
  <2>3. queue' = queue \/ queue' = Append(queue, [hand EXCEPT !.attempts = @ + 1])
    BY <1>4 DEF Repost
  <2>4. Len(queue') <= Len(queue) + 1 /\ Len(queue') \in Nat
    BY <1>0, <2>2, <2>3, Appending
  <2> QED BY <1>0, <2>1, <2>4 DEF Ceiling, InSink
<1>5. CASE Restart
  BY <1>0, <1>5 DEF Restart, Ceiling, InSink
<1>6. CASE UNCHANGED vars
  BY <1>1, <1>6 DEF vars, sink, Kept
<1>7. ASSUME NEW t \in Threads, NEW e \in Events, Post(t, e) PROVE Ceiling'
  BY <1>1, <1>7 DEF Post, sink, Kept
<1> QED BY <1>1, <1>2, <1>3, <1>4, <1>5, <1>6, <1>7, ServeKept DEF Next, Drain

(* StoreAgentSink (feedback/notify.py): _queue_or_lose checks the bound    *)
(* and _drain does not, and still, for any number of threads, what waits   *)
(* passes the bound by one at most.                                        *)
THEOREM QueueBounded == Spec => []QueueNearCeiling
<1>1. Init => Shape /\ Ceiling
  BY ShapeInit, AttemptsAssumption DEF Init, Ceiling, InSink
<1>2. Shape /\ Ceiling /\ [Next]_vars => (Shape /\ Ceiling)'
  BY ShapeStep, CeilingStep
<1>3. Shape /\ Ceiling => QueueNearCeiling
  <2> SUFFICES ASSUME Shape, Ceiling PROVE QueueNearCeiling
    OBVIOUS
  <2>1. Len(queue) \in Nat /\ MaxPending \in Nat
    BY AttemptsAssumption DEF Shape
  <2> QED BY <2>1 DEF Ceiling, InSink, QueueNearCeiling
<1> QED BY <1>1, <1>2, <1>3, PTL DEF Spec

-----------------------------------------------------------------------------
(* The threads that may still post their event's delta, or queue it.       *)
Before == {"project new", "write new", "push", "post", "queue"}
Pushing(t) == stage[t] \in Before

(* A delta that is still to be told is in one place.                       *)
Sole ==
    /\ \A t, u \in Threads : Pushing(t) /\ Pushing(u) /\ event[t] = event[u] => t = u
    /\ \A t \in Threads : Pushing(t) => /\ \A i \in DOMAIN queue : queue[i].event # event[t]
                                        /\ hand # NoItem => hand.event # event[t]
    /\ \A i, j \in DOMAIN queue : queue[i].event = queue[j].event => i = j
    /\ hand # NoItem => \A i \in DOMAIN queue : queue[i].event # hand.event

Outstanding(e) == \/ \E t \in Threads : Pushing(t) /\ event[t] = e
                  \/ \E i \in DOMAIN queue : queue[i].event = e
                  \/ hand # NoItem /\ hand.event = e

(* What the store has taken, while its delta is outstanding and after.     *)
Score(e) == /\ agent[e] <= 1 + unheard[e]
            /\ Outstanding(e) => Appended(e)
            /\ Outstanding(e) \/ ~Appended(e) => agent[e] <= unheard[e]

ToldInv == Shape /\ Sole /\ \A e \in Events : Score(e)

(* A step after which nobody holds a delta who did not hold it before.     *)
LEMMA CalmStep ==
    ASSUME Shape, Sole, \A e \in Events : Score(e),
           UNCHANGED <<log, queue, hand, agent, unheard>>,
           \A u \in Threads : Pushing(u)' => Pushing(u) /\ event'[u] = event[u]
    PROVE  Sole' /\ \A e \in Events : Score(e)'
<1>1. Sole'
  BY DEF Sole
<1>2. \A e \in Events : Outstanding(e)' => Outstanding(e)
  BY DEF Outstanding
<1>3. \A e \in Events : Appended(e)' <=> Appended(e)
  BY DEF Appended
<1> QED BY <1>1, <1>2, <1>3 DEF Score

LEMMA MoveCalm ==
    ASSUME Shape, NEW t \in Threads, NEW s, To(t, s), event' = event,
           s \in Before => Pushing(t)
    PROVE  \A u \in Threads : Pushing(u)' => Pushing(u) /\ event'[u] = event[u]
BY DEF To, Pushing, Shape

LEMMA DoneCalm ==
    ASSUME Shape, NEW t \in Threads, Done(t)
    PROVE  \A u \in Threads : Pushing(u)' => Pushing(u) /\ event'[u] = event[u]
BY DEF Done, To, Pushing, Before, Shape

LEMMA ProjectedCalm ==
    ASSUME Shape, NEW t \in Threads, Projected(t)
    PROVE  \A u \in Threads : Pushing(u)' => Pushing(u) /\ event'[u] = event[u]
<1>1. CASE New(t)
  <2>1. To(t, "push") /\ event' = event /\ Pushing(t)
    BY <1>1 DEF Projected, New, Pushing, Before
  <2> QED BY <2>1, MoveCalm
<1>2. CASE ~New(t)
  BY <1>2, DoneCalm DEF Projected
<1> QED BY <1>1, <1>2

LEMMA ServeCalm ==
    ASSUME Shape, NEW t \in Threads, Serve(t), ~Insert(t), ~PostInline(t), ~QueueOrLose(t)
    PROVE  /\ UNCHANGED <<log, queue, hand, agent, unheard>>
           /\ \A u \in Threads : Pushing(u)' => Pushing(u) /\ event'[u] = event[u]
<1>1. CASE Recognise(t) \/ Landed(t) \/ Lose(t) \/ StartWorker(t)
  <2>1. To(t, "project old") \/ To(t, "answer")
    BY <1>1 DEF Recognise, Landed, Lose, StartWorker
  <2>2. event' = event /\ UNCHANGED <<log, queue, hand, agent, unheard>>
    BY <1>1 DEF Recognise, Landed, Lose, StartWorker, sink, peer
  <2> QED BY <2>1, <2>2, MoveCalm DEF Before
<1>2. CASE Unavailable(t) \/ Answer(t)
  BY <1>2, DoneCalm DEF Unavailable, Answer, sink, peer
<1>3. CASE FindRow(t)
  <2>1. \/ To(t, "write new") /\ Pushing(t)
        \/ To(t, "write old")
    BY <1>3 DEF FindRow, Pushing, Before
  <2>2. event' = event /\ UNCHANGED <<log, queue, hand, agent, unheard>>
    BY <1>3 DEF FindRow, sink, peer
  <2> QED BY <2>1, <2>2, MoveCalm DEF Before
<1>4. CASE WriteRow(t) \/ SkipRow(t)
  BY <1>4, ProjectedCalm DEF WriteRow, SkipRow, sink, peer
<1>5. CASE Push(t)
  <2>1. To(t, "post") /\ Pushing(t) /\ event' = event
    BY <1>5 DEF Push, Pushing, Before
  <2> QED BY <1>5, <2>1, MoveCalm DEF Push, sink, peer
<1> QED BY <1>1, <1>2, <1>3, <1>4, <1>5 DEF Serve

(* The append makes the first delta of its event.                          *)
LEMMA InsertTold ==
    ASSUME ToldInv, NEW t \in Threads, Insert(t)
    PROVE  Sole' /\ \A e \in Events : Score(e)'
<1> DEFINE e0 == event[t]
<1>1. /\ e0 \in Events /\ ~Appended(e0) /\ log' = Append(log, e0) /\ ~Pushing(t)
      /\ UNCHANGED <<queue, hand, agent, unheard>>
  BY DEF ToldInv, Shape, Insert, Ledger!Append1, Id, Appended, Pushing, Before, sink, peer
<1>2. ~Outstanding(e0) /\ agent[e0] <= unheard[e0]
  BY <1>1 DEF ToldInv, Score
<1>3. \A e \in Events : Appended(e)' <=> Appended(e) \/ e = e0
  <2>1. log \in Seq(Events)
    BY DEF ToldInv, Shape
  <2> QED BY <1>1, <2>1 DEF Appended
<1>4. \A u \in Threads : u # t => (Pushing(u)' <=> Pushing(u)) /\ event'[u] = event[u]
  BY DEF ToldInv, Shape, Insert, Done, To, Pushing
<1>5. Pushing(t)' => event'[t] = e0
  BY DEF ToldInv, Shape, Insert, Done, To, Pushing, Before
<1>6. \A e \in Events : Outstanding(e)' => Outstanding(e) \/ e = e0
  BY <1>1, <1>4, <1>5 DEF Outstanding
<1> HIDE DEF e0
<1>7. Sole'
  BY <1>1, <1>2, <1>4, <1>5 DEF ToldInv, Sole, Outstanding
<1>8. \A e \in Events : Score(e)'
  BY <1>1, <1>2, <1>3, <1>6 DEF ToldInv, Score
<1> QED BY <1>7, <1>8

(* One post of a delta that was outstanding.                               *)
LEMMA ArriveScore ==
    ASSUME Shape, NEW e \in Events, NEW o \in Outcomes, Arrive(e, o), agent[e] <= unheard[e]
    PROVE  /\ agent'[e] <= 1 + unheard'[e]
           /\ o # "landed" => agent'[e] <= unheard'[e]
           /\ \A f \in Events \ {e} : agent'[f] = agent[f] /\ unheard'[f] = unheard[f]
<1>1. agent[e] \in Nat /\ unheard[e] \in Nat
  BY DEF Shape
<1>2. CASE o = "landed"
  <2>1. agent' = [agent EXCEPT ![e] = @ + 1] /\ unheard' = unheard
    BY <1>2 DEF Arrive, Taken
  <2> QED BY <1>1, <1>2, <2>1 DEF Shape
<1>3. CASE o = "unheard"
  <2>1. agent' = [agent EXCEPT ![e] = @ + 1] /\ unheard' = [unheard EXCEPT ![e] = @ + 1]
    BY <1>3 DEF Arrive, Taken
  <2> QED BY <1>1, <2>1 DEF Shape
<1>4. CASE o \notin Taken
  <2>1. agent' = agent /\ unheard' = unheard
    BY <1>4 DEF Arrive, Taken
  <2> QED BY <1>1, <2>1
<1> QED BY <1>2, <1>3, <1>4 DEF Taken

LEMMA PostTold ==
    ASSUME ToldInv, NEW t \in Threads, PostInline(t)
    PROVE  Sole' /\ \A e \in Events : Score(e)'
<1>0. PICK e0 \in Events : e0 = event[t]
  BY DEF ToldInv, Shape, PostInline
<1>1. PICK o \in Outcomes : /\ Arrive(event[t], o)
           /\ To(t, IF o = "landed" THEN "landed"
                    ELSE IF Retryable(o) /\ Attempts > 1 THEN "queue" ELSE "lose")
  BY DEF PostInline
<1>2. /\ e0 \in Events /\ Pushing(t) /\ UNCHANGED <<log, event, queue, hand>> /\ Shape
  BY <1>0 DEF ToldInv, Shape, PostInline, Pushing, Before, sink
<1>3. Outstanding(e0) /\ agent[e0] <= unheard[e0] /\ Appended(e0)
  BY <1>0, <1>2 DEF ToldInv, Score, Outstanding
<1>4. /\ agent'[e0] <= 1 + unheard'[e0]
      /\ o # "landed" => agent'[e0] <= unheard'[e0]
      /\ \A f \in Events \ {e0} : agent'[f] = agent[f] /\ unheard'[f] = unheard[f]
  BY <1>0, <1>1, <1>2, <1>3, ArriveScore
<1>5. \A u \in Threads : Pushing(u)' => Pushing(u) /\ (u = t => o # "landed")
  BY <1>1, <1>2 DEF To, Pushing, Before, Shape
<1>6. Sole'
  BY <1>2, <1>5 DEF ToldInv, Sole
<1>7. \A e \in Events : Outstanding(e)' => Outstanding(e)
  BY <1>2, <1>5 DEF Outstanding
<1>8. o = "landed" => ~Outstanding(e0)'
  <2>1. \A u \in Threads : Pushing(u)' => event'[u] # e0 \/ o # "landed"
    BY <1>0, <1>2, <1>5 DEF ToldInv, Sole
  <2>2. /\ \A i \in DOMAIN queue : queue[i].event # e0
        /\ hand # NoItem => hand.event # e0
    BY <1>0, <1>2 DEF ToldInv, Sole
  <2> QED BY <1>2, <2>1, <2>2 DEF Outstanding
<1>9. \A e \in Events : Appended(e)' <=> Appended(e)
  BY <1>2 DEF Appended
<1>10. \A e \in Events : Score(e)'
  BY <1>2, <1>3, <1>4, <1>7, <1>8, <1>9 DEF ToldInv, Score
<1> QED BY <1>6, <1>10

LEMMA QueueTold ==
    ASSUME ToldInv, NEW t \in Threads, QueueOrLose(t)
    PROVE  Sole' /\ \A e \in Events : Score(e)'
<1>0. PICK e0 \in Events : e0 = event[t]
  BY DEF ToldInv, Shape, QueueOrLose
<1> DEFINE item == [event |-> e0, attempts |-> 1]
<1>1. /\ e0 \in Events /\ Pushing(t) /\ Shape /\ queue \in Seq(Item)
      /\ UNCHANGED <<log, event, hand, agent, unheard>>
  BY <1>0 DEF ToldInv, Shape, QueueOrLose, Pushing, Before, peer
<1>2. \A u \in Threads : Pushing(u)' => Pushing(u) /\ u # t
  BY DEF ToldInv, Shape, QueueOrLose, Pushing, Before, To
<1>3. CASE queue' = queue
  BY <1>1, <1>2, <1>3, CalmStep DEF ToldInv
<1>4. CASE queue' = Append(queue, item)
  <2>1. item \in Item /\ item.event = e0
    BY <1>1 DEF Item
  <2> HIDE DEF item
  <2>2. /\ DOMAIN queue = 1..Len(queue) /\ DOMAIN queue' = 1..Len(queue) + 1
        /\ Len(queue) \in Nat
        /\ \A i \in DOMAIN queue : queue'[i] = queue[i]
        /\ queue'[Len(queue) + 1].event = e0
    BY <1>1, <1>4, <2>1, Appending
  <2>3. \A i \in DOMAIN queue' : i \in DOMAIN queue \/ i = Len(queue) + 1
    BY <2>2
  <2>4. /\ \A i \in DOMAIN queue : queue[i].event # e0
        /\ hand # NoItem => hand.event # e0
    BY <1>0, <1>1 DEF ToldInv, Sole
  <2>5. \A u \in Threads : Pushing(u)' => event[u] # e0
    BY <1>0, <1>1, <1>2 DEF ToldInv, Sole
  <2>6. Sole'
    BY <1>1, <1>2, <2>2, <2>3, <2>4, <2>5 DEF ToldInv, Sole
  <2>7. \A e \in Events : Outstanding(e)' => Outstanding(e)
    BY <1>0, <1>1, <1>2, <2>2, <2>3 DEF Outstanding
  <2>8. \A e \in Events : Appended(e)' <=> Appended(e)
    BY <1>1 DEF Appended
  <2> QED BY <1>1, <2>6, <2>7, <2>8 DEF ToldInv, Score
<1> QED BY <1>0, <1>3, <1>4 DEF QueueOrLose

LEMMA PopTold == ToldInv /\ Pop => Sole' /\ \A e \in Events : Score(e)'
<1> SUFFICES ASSUME ToldInv, Pop PROVE Sole' /\ \A e \in Events : Score(e)'
  OBVIOUS
<1>1. /\ queue \in Seq(Item) /\ queue # <<>> /\ hand = NoItem
      /\ hand' = queue[1] /\ queue' = Tail(queue)
      /\ UNCHANGED <<log, stage, event, agent, unheard>>
  BY DEF ToldInv, Shape, Pop, door, peer
<1>2. /\ Len(queue) \in Nat \ {0} /\ DOMAIN queue = 1..Len(queue)
      /\ DOMAIN queue' = 1..Len(queue) - 1
      /\ \A i \in DOMAIN queue' : queue'[i] = queue[i + 1]
  BY <1>1
<1>3. 1 \in DOMAIN queue /\ \A i \in DOMAIN queue' : i + 1 \in DOMAIN queue /\ i + 1 # 1
  BY <1>2
<1>4. \A i, j \in DOMAIN queue' : i + 1 = j + 1 => i = j
  BY <1>2
<1>5. Sole'
  <2>1. \A t \in Threads : Pushing(t)' <=> Pushing(t)
    BY <1>1 DEF Pushing
  <2>2. \A i, j \in DOMAIN queue' : queue'[i].event = queue'[j].event => i = j
    BY <1>2, <1>3, <1>4 DEF ToldInv, Sole
  <2>3. \A i \in DOMAIN queue' : queue'[i].event # hand'.event
    BY <1>1, <1>2, <1>3 DEF ToldInv, Sole
  <2>4. \A t \in Threads : Pushing(t) => /\ \A i \in DOMAIN queue' : queue'[i].event # event[t]
                                         /\ hand'.event # event[t]
    <3>1. \A t \in Threads : Pushing(t) => \A i \in DOMAIN queue : queue[i].event # event[t]
      BY DEF ToldInv, Sole
    <3> QED BY <1>1, <1>2, <1>3, <3>1
  <2> QED BY <1>1, <2>1, <2>2, <2>3, <2>4 DEF ToldInv, Sole
<1>6. \A e \in Events : Outstanding(e)' => Outstanding(e)
  BY <1>1, <1>2, <1>3 DEF Outstanding, Pushing
<1>7. \A e \in Events : Appended(e)' <=> Appended(e)
  BY <1>1 DEF Appended
<1> QED BY <1>1, <1>5, <1>6, <1>7 DEF ToldInv, Score

LEMMA RepostTold == ToldInv /\ Repost => Sole' /\ \A e \in Events : Score(e)'
<1> SUFFICES ASSUME ToldInv, Repost PROVE Sole' /\ \A e \in Events : Score(e)'
  OBVIOUS
<1> DEFINE e0 == hand.event
           item == [hand EXCEPT !.attempts = @ + 1]
<1>1. PICK o \in Outcomes :
        /\ Arrive(e0, o)
        /\ queue' = queue \/ (o # "landed" /\ queue' = Append(queue, item))
  BY DEF Repost
<1>2. /\ hand \in Item /\ hand # NoItem /\ hand' = NoItem /\ queue \in Seq(Item) /\ Shape
      /\ UNCHANGED <<log, stage, event>>
  BY DEF ToldInv, Shape, Repost, door
<1>3. e0 \in Events /\ item \in Item /\ item.event = e0
  BY <1>2 DEF Item
<1>4. agent[e0] <= unheard[e0] /\ Appended(e0)
  BY <1>2, <1>3 DEF ToldInv, Score, Outstanding
<1>5. /\ agent'[e0] <= 1 + unheard'[e0]
      /\ o # "landed" => agent'[e0] <= unheard'[e0]
      /\ \A f \in Events \ {e0} : agent'[f] = agent[f] /\ unheard'[f] = unheard[f]
  BY <1>1, <1>2, <1>3, <1>4, ArriveScore
<1>6. /\ \A i \in DOMAIN queue : queue[i].event # e0
      /\ \A t \in Threads : Pushing(t) => event[t] # e0
  BY <1>2 DEF ToldInv, Sole
<1>7. \A t \in Threads : Pushing(t)' <=> Pushing(t)
  BY <1>2 DEF Pushing
<1>8. \A e \in Events : Appended(e)' <=> Appended(e)
  BY <1>2 DEF Appended
<1> HIDE DEF e0, item
<1>9. CASE queue' = queue
  <2>1. Sole'
    BY <1>2, <1>7, <1>9 DEF ToldInv, Sole
  <2>2. \A e \in Events : Outstanding(e)' => Outstanding(e) /\ e # e0
    BY <1>2, <1>6, <1>7, <1>9 DEF Outstanding
  <2> QED BY <1>3, <1>4, <1>5, <1>8, <2>1, <2>2 DEF ToldInv, Score
<1>10. CASE o # "landed" /\ queue' = Append(queue, item)
  <2>1. /\ DOMAIN queue = 1..Len(queue) /\ DOMAIN queue' = 1..Len(queue) + 1
        /\ Len(queue) \in Nat
        /\ \A i \in DOMAIN queue : queue'[i] = queue[i]
        /\ queue'[Len(queue) + 1].event = e0
    BY <1>2, <1>3, <1>10, Appending
  <2>2. \A i \in DOMAIN queue' : i \in DOMAIN queue \/ i = Len(queue) + 1
    BY <2>1
  <2>3. Sole'
    BY <1>2, <1>6, <1>7, <2>1, <2>2 DEF ToldInv, Sole
  <2>4. \A e \in Events : Outstanding(e)' => Outstanding(e) \/ e = e0
    BY <1>2, <1>7, <2>1, <2>2 DEF Outstanding
  <2> QED BY <1>3, <1>4, <1>5, <1>8, <1>10, <2>3, <2>4 DEF ToldInv, Score
<1> QED BY <1>1, <1>9, <1>10

LEMMA RestartTold == ToldInv /\ Restart => Sole' /\ \A e \in Events : Score(e)'
<1> SUFFICES ASSUME ToldInv, Restart PROVE Sole' /\ \A e \in Events : Score(e)'
  OBVIOUS
<1>1. /\ \A t \in Threads : ~Pushing(t)'
      /\ queue' = <<>> /\ hand' = NoItem /\ UNCHANGED <<log, agent, unheard>>
  BY DEF Restart, Pushing, Before, peer
<1>2. Sole' /\ \A e \in Events : ~Outstanding(e)'
  BY <1>1 DEF Sole, Outstanding
<1>3. \A e \in Events : Appended(e)' <=> Appended(e)
  BY <1>1 DEF Appended
<1> QED BY <1>1, <1>2, <1>3 DEF ToldInv, Score

LEMMA ToldStep == ToldInv /\ [Next]_vars => ToldInv'
<1> SUFFICES ASSUME ToldInv, [Next]_vars PROVE Sole' /\ \A e \in Events : Score(e)'
  BY ShapeStep DEF ToldInv
<1>0. Shape /\ Sole /\ \A e \in Events : Score(e)
  BY DEF ToldInv
<1>1. ASSUME NEW t \in Threads, Serve(t) PROVE Sole' /\ \A e \in Events : Score(e)'
  BY <1>0, <1>1, ServeCalm, CalmStep, InsertTold, PostTold, QueueTold
<1>2. ASSUME NEW t \in Threads, NEW e \in Events, Post(t, e)
      PROVE  Sole' /\ \A f \in Events : Score(f)'
  <2>1. \A u \in Threads : Pushing(u)' => Pushing(u) /\ event'[u] = event[u]
    BY <1>0, <1>2 DEF Post, To, Pushing, Before, Shape
  <2> QED BY <1>0, <1>2, <2>1, CalmStep DEF Post, sink, peer
<1>3. CASE UNCHANGED vars
  <2>1. UNCHANGED <<log, stage, event, queue, hand, agent, unheard>>
    BY <1>3 DEF vars, door, sink, peer
  <2> QED BY <1>0, <2>1, CalmStep DEF Pushing
<1> QED BY <1>1, <1>2, <1>3, PopTold, RepostTold, RestartTold DEF Next, Drain

LEMMA ToldInit == Init => ToldInv
<1> SUFFICES ASSUME Init PROVE ToldInv
  OBVIOUS
<1>1. /\ log = <<>> /\ queue = <<>> /\ hand = NoItem
      /\ agent = [e \in Events |-> 0] /\ unheard = [e \in Events |-> 0]
      /\ \A t \in Threads : ~Pushing(t)
  BY DEF Init, Ledger!Init, Pushing, Before
<1>2. Sole /\ \A e \in Events : ~Outstanding(e)
  BY <1>1 DEF Sole, Outstanding
<1>3. \A e \in Events : Score(e)
  BY <1>1, <1>2 DEF Score
<1> QED BY <1>2, <1>3, ShapeInit DEF ToldInv

(* announce_trust_event (feedback/notify.py) over redeliveries, retries    *)
(* and restarts: for any number of them, a store is told of an event twice *)
(* only if an answer of its agent was lost, once for each.                 *)
THEOREM ToldAtMostOnce == Spec => []ToldOnce
<1>1. ToldInv => ToldOnce
  BY DEF ToldInv, Score, ToldOnce
<1> QED BY <1>1, ToldInit, ToldStep, PTL DEF Spec

-----------------------------------------------------------------------------
(* The observation lock: who is between the lookup of a row and its write. *)
Projecting(t) == stage[t] \in {"project new", "project old", "write new", "write old"}
Writing(t)    == stage[t] \in {"write new", "write old"}

RowInv ==
    /\ OneRowPerEvent
    /\ \A t \in Threads : Projecting(t) => Appended(event[t])
    /\ \A t, u \in Threads : Writing(t) /\ Writing(u) => t = u
    /\ \A t \in Threads : Writing(t) /\ absent[t] => rows[event[t]] = 0

LEMMA RowCalm ==
    ASSUME RowInv, UNCHANGED <<log, rows>>,
           \A u \in Threads : Projecting(u)' => Projecting(u) /\ event'[u] = event[u],
           \A u \in Threads : Writing(u)' => Writing(u) /\ absent'[u] = absent[u]
    PROVE  RowInv'
<1>1. \A e : Appended(e)' <=> Appended(e)
  BY DEF Appended
<1>2. OneRowPerEvent'
  BY <1>1 DEF RowInv, OneRowPerEvent
<1>3. \A t \in Threads : Projecting(t)' => Appended(event[t])'
  BY DEF RowInv, Appended
<1>4. \A t, u \in Threads : Writing(t)' /\ Writing(u)' => t = u
  BY DEF RowInv
<1>5. \A t \in Threads : Writing(t)' /\ absent'[t] => rows'[event'[t]] = 0
  BY DEF RowInv, Writing, Projecting
<1> QED BY <1>2, <1>3, <1>4, <1>5 DEF RowInv

(* A thread that leaves the projection, or was not in it.                  *)
LEMMA LeaveCalm ==
    ASSUME Shape, NEW t \in Threads, NEW s, To(t, s),
           s \notin {"project new", "project old", "write new", "write old"},
           \A u \in Threads \ {t} : event'[u] = event[u] /\ absent'[u] = absent[u]
    PROVE  /\ \A u \in Threads : Projecting(u)' => Projecting(u) /\ event'[u] = event[u] /\ u # t
           /\ \A u \in Threads : Writing(u)' => Writing(u) /\ absent'[u] = absent[u]
BY DEF Shape, To, Projecting, Writing

LEMMA DoneLeaves ==
    ASSUME Shape, NEW t \in Threads, Done(t)
    PROVE  /\ To(t, "idle")
           /\ \A u \in Threads \ {t} : event'[u] = event[u] /\ absent'[u] = absent[u]
BY DEF Done, Shape

LEMMA ProjectedLeaves ==
    ASSUME Shape, NEW t \in Threads, Projected(t)
    PROVE  /\ To(t, "idle") \/ To(t, "push")
           /\ \A u \in Threads \ {t} : event'[u] = event[u] /\ absent'[u] = absent[u]
<1>1. CASE New(t)
  BY <1>1 DEF Projected, Shape
<1>2. CASE ~New(t)
  BY <1>2, DoneLeaves DEF Projected
<1> QED BY <1>1, <1>2

LEMMA RowServe ==
    ASSUME Shape, RowInv, NEW t \in Threads, Serve(t)
    PROVE  RowInv'
<1>1. CASE Unavailable(t) \/ Answer(t)
  BY <1>1, DoneLeaves, LeaveCalm, RowCalm DEF Unavailable, Answer
<1>2. CASE Push(t) \/ PostInline(t) \/ Landed(t) \/ QueueOrLose(t) \/ Lose(t) \/ StartWorker(t)
  <2>1. \E s \in {"post", "landed", "queue", "lose", "answer", "start"} : To(t, s)
    BY <1>2 DEF Push, PostInline, Landed, QueueOrLose, Lose, StartWorker
  <2>2. UNCHANGED <<log, rows, event, absent>>
    BY <1>2 DEF Push, PostInline, Landed, QueueOrLose, Lose, StartWorker
  <2> QED BY <2>1, <2>2, LeaveCalm, RowCalm
<1>3. CASE SkipRow(t)
  BY <1>3, ProjectedLeaves, LeaveCalm, RowCalm DEF SkipRow
<1>4. CASE Insert(t)
  <2>1. log' = Append(log, event[t]) /\ rows' = rows /\ ~Projecting(t) /\ log \in Seq(Events)
        /\ event[t] \in Events
    BY <1>4 DEF Insert, Ledger!Append1, Shape, Projecting
  <2>2. \A e : Appended(e)' <=> Appended(e) \/ e = event[t]
    <3>1. /\ DOMAIN log = 1..Len(log) /\ DOMAIN log' = 1..Len(log) + 1 /\ Len(log) \in Nat
          /\ \A i \in DOMAIN log : log'[i] = log[i]
          /\ log'[Len(log) + 1] = event[t]
      BY <2>1, Appending
    <3> QED BY <3>1 DEF Appended
  <2>3. /\ \A u \in Threads : Projecting(u)' => event'[u] = event[u] /\ (Projecting(u) \/ u = t)
        /\ \A u \in Threads : Writing(u)' => Writing(u) /\ absent'[u] = absent[u] /\ Projecting(u)'
    BY <1>4 DEF Insert, Done, To, Shape, Projecting, Writing
  <2>4. OneRowPerEvent'
    BY <2>1, <2>2 DEF RowInv, OneRowPerEvent
  <2>5. \A u \in Threads : Projecting(u)' => Appended(event[u])'
    BY <2>1, <2>2, <2>3 DEF RowInv, Appended
  <2>6. \A u \in Threads : Writing(u)' /\ absent'[u] => rows'[event'[u]] = 0
    BY <2>1, <2>3 DEF RowInv
  <2> QED BY <2>3, <2>4, <2>5, <2>6 DEF RowInv
<1>5. CASE Recognise(t)
  <2>1. Appended(event[t]) /\ UNCHANGED <<log, rows, event, absent>>
    BY <1>5 DEF Recognise
  <2>2. /\ \A u \in Threads : Projecting(u)' => Projecting(u) \/ u = t
        /\ \A u \in Threads : Writing(u)' => Writing(u)
    BY <1>5 DEF Recognise, To, Shape, Projecting, Writing
  <2>3. \A e : Appended(e)' <=> Appended(e)
    BY <2>1 DEF Appended
  <2> QED BY <2>1, <2>2, <2>3 DEF RowInv, OneRowPerEvent, Appended
<1>6. CASE FindRow(t)
  <2>1. /\ UNCHANGED <<log, rows, event>> /\ Projecting(t) /\ \A u \in Threads : ~Writing(u)
    BY <1>6 DEF FindRow, LockFree, Writing, Projecting
  <2>2. /\ \A u \in Threads : Projecting(u)' => Projecting(u)
        /\ \A u \in Threads : Writing(u)' => u = t
    BY <1>6, <2>1 DEF FindRow, To, Shape, Projecting, Writing
  <2>3. absent'[t] => rows[event[t]] = 0
    BY <1>6 DEF FindRow, Shape
  <2>4. \A e : Appended(e)' <=> Appended(e)
    BY <2>1 DEF Appended
  <2> QED BY <2>1, <2>2, <2>3, <2>4 DEF RowInv, OneRowPerEvent, Appended
<1>7. CASE WriteRow(t)
  <2>1. /\ log' = log /\ Writing(t) /\ event[t] \in Events /\ Appended(event[t])
        /\ rows \in [Events -> Nat]
    BY <1>7 DEF WriteRow, Writing, Shape, RowInv, Projecting
  <2>2. /\ \A u \in Threads : Projecting(u)' => Projecting(u) /\ event'[u] = event[u] /\ u # t
        /\ \A u \in Threads : Writing(u)' => Writing(u)
    BY <1>7, ProjectedLeaves, LeaveCalm DEF WriteRow
  <2>3. \A u \in Threads : ~Writing(u)'
    BY <2>1, <2>2 DEF RowInv, Projecting, Writing
  <2>4. \A e : Appended(e)' <=> Appended(e)
    BY <2>1 DEF Appended
  <2>5. OneRowPerEvent'
    <3>1. CASE absent[t]
      <4>1. rows' = [rows EXCEPT ![event[t]] = @ + 1] /\ rows[event[t]] = 0
        BY <1>7, <2>1, <3>1 DEF WriteRow, RowInv
      <4> QED BY <2>1, <2>4, <4>1 DEF RowInv, OneRowPerEvent
    <3>2. CASE ~absent[t]
      <4>1. rows' = rows
        BY <1>7, <3>2 DEF WriteRow
      <4> QED BY <2>4, <4>1 DEF RowInv, OneRowPerEvent
    <3> QED BY <3>1, <3>2
  <2>6. \A u \in Threads : Projecting(u)' => Appended(event[u])'
    BY <2>1, <2>2 DEF RowInv, Appended
  <2> QED BY <2>3, <2>5, <2>6 DEF RowInv
<1> QED BY <1>1, <1>2, <1>3, <1>4, <1>5, <1>6, <1>7 DEF Serve

LEMMA RowStep == Shape /\ RowInv /\ [Next]_vars => RowInv'
<1> SUFFICES ASSUME Shape, RowInv, [Next]_vars PROVE RowInv'
  OBVIOUS
<1>1. ASSUME NEW t \in Threads, NEW e \in Events, Post(t, e) PROVE RowInv'
  BY <1>1, LeaveCalm, RowCalm DEF Post, Shape
<1>2. CASE Drain \/ UNCHANGED vars
  <2>1. UNCHANGED <<log, rows, stage, event, absent>>
    BY <1>2 DEF Drain, Pop, Repost, vars, door
  <2> QED BY <2>1, RowCalm DEF Projecting, Writing
<1>3. CASE Restart
  <2>1. UNCHANGED <<log, rows>> /\ \A t \in Threads : ~Projecting(t)' /\ ~Writing(t)'
    BY <1>3 DEF Restart, Projecting, Writing
  <2> QED BY <2>1, RowCalm
<1> QED BY <1>1, <1>2, <1>3, RowServe DEF Next

(* _project (events/routes.py): redelivered, raced, retried or cut off by  *)
(* a restart, the projection writes an event's row once at most, and only  *)
(* of events in the chain.                                                 *)
THEOREM OneRow == Spec => []OneRowPerEvent
<1>1. Init => Shape /\ RowInv
  <2> SUFFICES ASSUME Init PROVE RowInv
    BY ShapeInit
  <2>1. rows = [e \in Events |-> 0] /\ \A t \in Threads : ~Projecting(t) /\ ~Writing(t)
    BY DEF Init, Projecting, Writing
  <2> QED BY <2>1 DEF RowInv, OneRowPerEvent
<1>2. Shape /\ RowInv /\ [Next]_vars => (Shape /\ RowInv)'
  BY ShapeStep, RowStep
<1>3. RowInv => OneRowPerEvent
  BY DEF RowInv
<1> QED BY <1>1, <1>2, <1>3, PTL DEF Spec

-----------------------------------------------------------------------------
(* The threads with a delta in hand: finitely many, however many there are. *)
Busy == {t \in Threads : stage[t] \in {"post", "landed", "queue", "lose"}}
One  == IF hand = NoItem THEN 0 ELSE 1

CountInv ==
    /\ Shape /\ IsFiniteSet(Busy)
    /\ entered = delivered + lost + Len(queue) + Cardinality(Busy) + One

LEMMA CountIs ==
    ASSUME CountInv
    PROVE  /\ Cardinality(Busy) \in Nat /\ Len(queue) \in Nat /\ One \in {0, 1}
           /\ delivered \in Nat /\ lost \in Nat /\ entered \in Nat
BY FS_CardinalityType DEF CountInv, Shape, One

LEMMA CountUncounted == CountInv => NothingUncounted
<1> SUFFICES ASSUME CountInv PROVE NothingUncounted
  OBVIOUS
<1>1. InHand = Cardinality(Busy) + One
  BY DEF InHand, Busy, One
<1> QED BY <1>1, CountIs DEF CountInv, NothingUncounted

LEMMA CountCalm ==
    ASSUME CountInv, Shape', Busy' = Busy, UNCHANGED <<queue, hand, delivered, lost, entered>>
    PROVE  CountInv'
BY DEF CountInv, One

(* A thread that is done with its delta, which is counted where it went.   *)
LEMMA CountLeave ==
    ASSUME CountInv, Shape', NEW t \in Busy, Busy' = Busy \ {t}, UNCHANGED <<hand, entered>>,
           delivered' + lost' + Len(queue') = delivered + lost + Len(queue) + 1
    PROVE  CountInv'
<1>1. IsFiniteSet(Busy') /\ Cardinality(Busy') = Cardinality(Busy) - 1
  BY FS_RemoveElement DEF CountInv
<1>2. One' = One
  BY DEF One
<1>3. delivered' \in Nat /\ lost' \in Nat /\ Len(queue') \in Nat
  BY DEF Shape
<1> HIDE DEF One
<1>4. Cardinality(Busy) \in Nat /\ One \in {0, 1} /\ delivered + lost + Len(queue) \in Nat
  BY CountIs
<1>5. entered = (delivered + lost + Len(queue)) + Cardinality(Busy) + One
  BY DEF CountInv
<1>6. entered' = (delivered' + lost' + Len(queue')) + Cardinality(Busy') + One'
  BY <1>1, <1>2, <1>3, <1>4, <1>5
<1> QED BY <1>1, <1>6 DEF CountInv

LEMMA CountServe ==
    ASSUME CountInv, Shape', NEW t \in Threads, Serve(t)
    PROVE  CountInv'
<1>0. Shape /\ Len(queue) \in Nat /\ delivered \in Nat /\ lost \in Nat
  BY CountIs DEF CountInv
<1>1. CASE \/ Insert(t) \/ Recognise(t) \/ Unavailable(t) \/ FindRow(t)
           \/ WriteRow(t) \/ SkipRow(t) \/ StartWorker(t) \/ Answer(t)
  <2>1. t \notin Busy /\ UNCHANGED <<queue, hand, delivered, lost, entered>>
    BY <1>1 DEF Insert, Recognise, Unavailable, FindRow, WriteRow, SkipRow, StartWorker,
                Answer, Busy, sink
  <2>2. \E s \in {"idle", "project new", "project old", "write new", "write old", "push",
                  "answer"} : To(t, s)
    BY <1>1 DEF Insert, Recognise, Unavailable, FindRow, WriteRow, SkipRow, StartWorker,
                Answer, Projected, Done
  <2>3. Busy' = Busy
    BY <1>0, <2>1, <2>2 DEF To, Busy, Shape
  <2> QED BY <2>1, <2>3, CountCalm
<1>2. CASE Push(t)
  <2>1. Busy' = Busy \cup {t} /\ t \notin Busy
    BY <1>0, <1>2 DEF Push, To, Busy, Shape
  <2>2. IsFiniteSet(Busy') /\ Cardinality(Busy') = Cardinality(Busy) + 1
    BY <2>1, FS_AddElement DEF CountInv
  <2>3. entered' = entered + 1 /\ One' = One /\ UNCHANGED <<queue, delivered, lost>>
    BY <1>2 DEF Push, sink, One
  <2> HIDE DEF One
  <2> QED BY <2>2, <2>3, CountIs DEF CountInv
<1>3. CASE PostInline(t)
  <2>1. \E s \in {"landed", "queue", "lose"} : To(t, s)
    BY <1>3 DEF PostInline
  <2>2. Busy' = Busy
    BY <1>0, <1>3, <2>1 DEF PostInline, To, Busy, Shape
  <2> QED BY <1>3, <2>2, CountCalm DEF PostInline, sink
<1>4. CASE Landed(t) \/ Lose(t)
  <2>1. t \in Busy /\ Busy' = Busy \ {t}
    BY <1>0, <1>4 DEF Landed, Lose, To, Busy, Shape
  <2>2. /\ UNCHANGED <<hand, entered, queue>>
        /\ \/ delivered' = delivered + 1 /\ lost' = lost
           \/ lost' = lost + 1 /\ delivered' = delivered
    BY <1>4 DEF Landed, Lose
  <2>3. delivered' + lost' + Len(queue') = delivered + lost + Len(queue) + 1
    BY <1>0, <2>2
  <2> QED BY <2>1, <2>2, <2>3, CountLeave
<1>5. CASE QueueOrLose(t)
  <2>1. t \in Busy /\ Busy' = Busy \ {t}
    BY <1>0, <1>5 DEF QueueOrLose, To, Busy, Shape
  <2>2. UNCHANGED <<hand, entered, delivered>>
    BY <1>5 DEF QueueOrLose
  <2>3. lost' + Len(queue') = lost + Len(queue) + 1
    <3>1. CASE Full
      BY <1>0, <1>5, <3>1 DEF QueueOrLose, Overflow
    <3>2. CASE ~Full
      <4>1. [event |-> event[t], attempts |-> 1] \in Item /\ queue \in Seq(Item)
        BY <1>0, <1>5 DEF QueueOrLose, Shape, Item
      <4>2. queue' = Append(queue, [event |-> event[t], attempts |-> 1]) /\ lost' = lost
        BY <1>5, <3>2 DEF QueueOrLose
      <4>3. Len(queue') = Len(queue) + 1
        BY <4>1, <4>2, Appending
      <4> QED BY <1>0, <4>2, <4>3
    <3> QED BY <3>1, <3>2
  <2>4. lost' \in Nat /\ Len(queue') \in Nat
    BY DEF Shape
  <2>5. delivered' + lost' + Len(queue') = delivered + lost + Len(queue) + 1
    BY <1>0, <2>2, <2>3, <2>4
  <2> QED BY <2>1, <2>2, <2>5, CountLeave
<1> QED BY <1>1, <1>2, <1>3, <1>4, <1>5 DEF Serve

LEMMA CountDrain ==
    ASSUME CountInv, Shape', Drain
    PROVE  CountInv'
<1>0. Shape /\ queue \in Seq(Item) /\ Len(queue) \in Nat /\ delivered \in Nat /\ lost \in Nat
  BY CountIs DEF CountInv, Shape
<1>1. Busy' = Busy /\ entered' = entered
  BY DEF Drain, Pop, Repost, door, Busy
<1>2. CASE Pop
  <2>1. queue # <<>> /\ queue' = Tail(queue) /\ hand = NoItem /\ hand' = Head(queue)
        /\ UNCHANGED <<delivered, lost>>
    BY <1>2 DEF Pop
  <2>2. Len(queue') = Len(queue) - 1 /\ hand' \in Item
    BY <1>0, <2>1
  <2>3. One = 0 /\ One' = 1
    BY <2>1, <2>2, ItemIs DEF One
  <2> HIDE DEF One
  <2> QED BY <1>0, <1>1, <2>1, <2>2, <2>3, CountIs DEF CountInv
<1>3. CASE Repost
  <2>1. hand \in Item /\ hand # NoItem /\ hand' = NoItem
    BY <1>0, <1>3 DEF Repost, Shape
  <2>2. [hand EXCEPT !.attempts = @ + 1] \in Item
    BY <2>1 DEF Item
  <2>3. One = 1 /\ One' = 0
    BY <2>1 DEF One
  <2>4. \/ delivered' = delivered + 1 /\ UNCHANGED <<queue, lost>>
        \/ lost' = lost + 1 /\ UNCHANGED <<queue, delivered>>
        \/ /\ queue' = Append(queue, [hand EXCEPT !.attempts = @ + 1])
           /\ UNCHANGED <<delivered, lost>>
    BY <1>3 DEF Repost
  <2>5. delivered' + lost' + Len(queue') = delivered + lost + Len(queue) + 1
    BY <1>0, <2>2, <2>4, Appending
  <2>6. delivered' \in Nat /\ lost' \in Nat /\ Len(queue') \in Nat
    BY DEF Shape
  <2> HIDE DEF One
  <2>7. Cardinality(Busy) \in Nat /\ delivered + lost + Len(queue) \in Nat
    BY CountIs
  <2>8. entered = (delivered + lost + Len(queue)) + Cardinality(Busy) + One
    BY DEF CountInv
  <2>9. entered' = (delivered' + lost' + Len(queue')) + Cardinality(Busy') + One'
    BY <1>1, <2>3, <2>5, <2>6, <2>7, <2>8
  <2> QED BY <1>1, <2>9 DEF CountInv
<1> QED BY <1>2, <1>3 DEF Drain

LEMMA CountStep == CountInv /\ [Next]_vars => CountInv'
<1> SUFFICES ASSUME CountInv, [Next]_vars PROVE CountInv'
  OBVIOUS
<1>0. Shape /\ Shape'
  BY ShapeStep DEF CountInv
<1>1. ASSUME NEW t \in Threads, NEW e \in Events, Post(t, e) PROVE CountInv'
  <2>1. Busy' = Busy
    BY <1>0, <1>1 DEF Post, To, Busy, Shape
  <2> QED BY <1>0, <1>1, <2>1, CountCalm DEF Post, sink
<1>2. CASE Restart
  <2>1. Busy' = {} /\ One' = 0
    BY <1>2 DEF Restart, Busy, One
  <2>2. Len(queue') = 0 /\ delivered' = 0 /\ lost' = 0 /\ entered' = 0
    BY <1>2 DEF Restart
  <2> HIDE DEF One
  <2> QED BY <1>0, <2>1, <2>2, FS_EmptySet DEF CountInv
<1>3. CASE UNCHANGED vars
  <2>1. Busy' = Busy
    BY <1>3 DEF vars, door, Busy
  <2> QED BY <1>0, <1>3, <2>1, CountCalm DEF vars, sink
<1> QED BY <1>0, <1>1, <1>2, <1>3, CountServe, CountDrain DEF Next

(* StoreAgentSink keeps score: between any two places where its threads    *)
(* and its worker take the lock, each delta handed to it is delivered,     *)
(* lost, queued, or in one of their hands.                                 *)
THEOREM EveryDeltaCounted == Spec => []NothingUncounted
<1>1. Init => CountInv
  <2> SUFFICES ASSUME Init PROVE CountInv
    OBVIOUS
  <2>1. Busy = {} /\ One = 0
    BY DEF Init, Busy, One
  <2>2. Len(queue) = 0 /\ delivered = 0 /\ lost = 0 /\ entered = 0
    BY DEF Init
  <2> HIDE DEF One
  <2> QED BY <2>1, <2>2, FS_EmptySet, ShapeInit DEF CountInv
<1> QED BY <1>1, CountStep, CountUncounted, PTL DEF Spec

-----------------------------------------------------------------------------
(* A delta waits for another attempt only while one is left to it.         *)
Patience ==
    /\ \A t \in Threads : stage[t] = "queue" => Attempts > 1
    /\ \A i \in DOMAIN queue : queue[i].attempts \in 1..Attempts - 1
    /\ hand.attempts \in 0..Attempts - 1
    /\ worker \in BOOLEAN

(* Who goes elsewhere than to the queue leaves the patience as it is.      *)
LEMMA PatienceCalm ==
    ASSUME Shape, Patience, Kept, worker' \in BOOLEAN,
           \A u \in Threads : stage'[u] = "queue" => stage[u] = "queue" \/ Attempts > 1
    PROVE  Patience'
BY DEF Patience, Kept

LEMMA PatienceAppend ==
    ASSUME Shape, Patience, NEW x \in Item, x.attempts \in 1..Attempts - 1,
           queue' = queue \/ queue' = Append(queue, x)
    PROVE  \A i \in DOMAIN queue' : queue'[i].attempts \in 1..Attempts - 1
<1>1. CASE queue' = queue
  BY <1>1 DEF Patience
<1>2. CASE queue' = Append(queue, x)
  <2>1. queue \in Seq(Item) /\ Append(queue, x) \in Seq(Item)
        /\ Len(Append(queue, x)) = Len(queue) + 1
        /\ \A i \in DOMAIN queue : Append(queue, x)[i] = queue[i]
        /\ Append(queue, x)[Len(queue) + 1] = x
    BY Appending DEF Shape
  <2> QED BY <1>2, <2>1 DEF Patience
<1> QED BY <1>1, <1>2

LEMMA PatienceStart ==
    ASSUME \A t \in Threads : stage[t] = "idle",
           queue = <<>>, hand = NoItem, worker = FALSE
    PROVE  Patience
<1>1. DOMAIN queue = {} /\ hand.attempts = 0
  BY DEF NoItem
<1>2. worker \in BOOLEAN
  OBVIOUS
<1>3. 0 \in 0..Attempts - 1
  BY AttemptsAssumption
<1>4. \A t \in Threads : stage[t] # "queue"
  OBVIOUS
<1> QED BY <1>1, <1>2, <1>3, <1>4 DEF Patience

LEMMA PatienceStep == Shape /\ Patience /\ [Next]_vars => Patience'
<1> SUFFICES ASSUME Shape, Patience, [Next]_vars PROVE Patience'
  OBVIOUS
<1>0. worker \in BOOLEAN /\ stage \in [Threads -> Stages]
  BY DEF Patience, Shape
<1>1. ASSUME NEW t \in Threads, Done(t) PROVE \A u \in Threads : stage'[u] = "queue" => stage[u] = "queue"
  BY <1>0, <1>1 DEF Done, To
<1>2. ASSUME NEW t \in Threads, NEW s, To(t, s), s = "queue" => Attempts > 1
      PROVE  \A u \in Threads : stage'[u] = "queue" => stage[u] = "queue" \/ Attempts > 1
  BY <1>0, <1>2 DEF To
<1>3. ASSUME NEW t \in Threads, Serve(t), ~QueueOrLose(t) PROVE Patience'
  <2>1. Kept
    BY <1>3, ServeKept
  <2>2. worker' \in BOOLEAN
    <3>1. CASE StartWorker(t)
      BY <3>1 DEF StartWorker, Started
    <3>2. CASE ~StartWorker(t)
      BY <1>0, <1>3, <3>2 DEF Serve, Insert, Recognise, Unavailable, FindRow, WriteRow,
         SkipRow, Push, PostInline, Landed, Lose, Answer, sink
    <3> QED BY <3>1, <3>2
  <2>3. Done(t) \/ \E s : To(t, s) /\ (s = "queue" => Attempts > 1)
    <3> DEFINE Leads == Done(t) \/ \E s : To(t, s) /\ (s = "queue" => Attempts > 1)
    <3>a. ASSUME NEW s, To(t, s), s = "queue" => Attempts > 1 PROVE Leads
      BY <3>a
    <3>b. ASSUME Done(t) PROVE Leads
      BY <3>b
    <3> HIDE DEF Leads
    <3>1. ASSUME PostInline(t) PROVE Leads
      <4>1. PICK o \in Outcomes :
              To(t, IF o = "landed" THEN "landed"
                    ELSE IF Retryable(o) /\ Attempts > 1 THEN "queue" ELSE "lose")
        BY <3>1 DEF PostInline
      <4> QED BY <4>1, <3>a
    <3>2. ASSUME Insert(t) PROVE Leads
      BY <3>a, <3>b, <3>2 DEF Insert
    <3>3. ASSUME WriteRow(t) \/ SkipRow(t) PROVE Leads
      BY <3>a, <3>b, <3>3 DEF WriteRow, SkipRow, Projected
    <3>4. ASSUME Recognise(t) \/ Unavailable(t) \/ Answer(t) \/ Push(t) PROVE Leads
      BY <3>a, <3>b, <3>4 DEF Recognise, Unavailable, Answer, Push
    <3>5. ASSUME Landed(t) \/ Lose(t) \/ StartWorker(t) PROVE Leads
      BY <3>a, <3>5 DEF Landed, Lose, StartWorker
    <3>6. ASSUME FindRow(t) PROVE Leads
      <4>1. To(t, "write new") \/ To(t, "write old")
        BY <3>6 DEF FindRow
      <4> QED BY <4>1, <3>a
    <3>7. Leads
      BY <1>3, <3>1, <3>2, <3>3, <3>4, <3>5, <3>6 DEF Serve
    <3> QED BY <3>7 DEF Leads
  <2>4. \A u \in Threads : stage'[u] = "queue" => stage[u] = "queue" \/ Attempts > 1
    BY <1>1, <1>2, <2>3
  <2> QED BY <2>1, <2>2, <2>4, PatienceCalm
<1>4. ASSUME NEW t \in Threads, QueueOrLose(t) PROVE Patience'
  <2>1. stage[t] = "queue" /\ event[t] \in Events /\ hand' = hand /\ worker' = worker
    BY <1>4 DEF QueueOrLose, Shape
  <2>2. Attempts > 1
    BY <2>1 DEF Patience
  <2>3. PICK x : x = [event |-> event[t], attempts |-> 1]
    OBVIOUS
  <2>4. x \in Item /\ x.attempts \in 1..Attempts - 1
    BY <2>1, <2>2, <2>3, AttemptsAssumption DEF Item
  <2>5. queue' = queue \/ queue' = Append(queue, x)
    BY <1>4, <2>3 DEF QueueOrLose
  <2>6. \A i \in DOMAIN queue' : queue'[i].attempts \in 1..Attempts - 1
    BY <2>4, <2>5, PatienceAppend
  <2>7. PICK s : To(t, s) /\ s # "queue"
    BY <1>4 DEF QueueOrLose
  <2> QED BY <1>0, <1>2, <2>1, <2>2, <2>6, <2>7 DEF Patience
<1>5. CASE Pop
  <2>1. /\ queue \in Seq(Item) /\ queue # <<>> /\ hand' = Head(queue) /\ queue' = Tail(queue)
        /\ worker' = worker /\ stage' = stage
    BY <1>5 DEF Pop, Shape, door
  <2>2. 1 \in DOMAIN queue /\ Head(queue) = queue[1]
        /\ \A i \in DOMAIN Tail(queue) : i + 1 \in DOMAIN queue /\ Tail(queue)[i] = queue[i + 1]
    BY <2>1
  <2>3. hand'.attempts \in 1..Attempts - 1
    BY <2>1, <2>2 DEF Patience
  <2>4. \A i \in DOMAIN queue' : queue'[i].attempts \in 1..Attempts - 1
    BY <2>1, <2>2 DEF Patience
  <2> QED BY <1>0, <2>1, <2>3, <2>4, AttemptsAssumption DEF Patience
<1>6. CASE Repost
  <2>1. hand \in Item /\ hand' = NoItem /\ worker' = worker /\ stage' = stage
    BY <1>6 DEF Repost, Shape, door
  <2>2. PICK x : x = [hand EXCEPT !.attempts = @ + 1]
    OBVIOUS
  <2>3. hand.attempts \in Nat \ {0} /\ x \in Item /\ x.attempts = hand.attempts + 1
    BY <2>1, <2>2 DEF Item
  <2>4. queue' = queue \/ (queue' = Append(queue, x) /\ ~Spent(hand))
    BY <1>6, <2>2 DEF Repost
  <2>5. ~Spent(hand) => x.attempts \in 1..Attempts - 1
    BY <2>3, AttemptsAssumption DEF Spent
  <2>6. \A i \in DOMAIN queue' : queue'[i].attempts \in 1..Attempts - 1
    <3>1. CASE queue' = queue
      BY <3>1 DEF Patience
    <3>2. CASE queue' = Append(queue, x) /\ ~Spent(hand)
      BY <2>3, <2>5, <3>2, PatienceAppend
    <3> QED BY <2>4, <3>1, <3>2
  <2> QED BY <1>0, <2>1, <2>6, AttemptsAssumption DEF Patience, NoItem
<1>7. CASE Restart
  <2>1. /\ \A t \in Threads : stage'[t] = "idle"
        /\ queue' = <<>> /\ hand' = NoItem /\ worker' = FALSE
    BY <1>7 DEF Restart
  <2>2. DOMAIN queue' = {} /\ hand'.attempts = 0
    BY <2>1 DEF NoItem
  <2>3. worker' \in BOOLEAN
    BY <2>1
  <2>4. 0 \in 0..Attempts - 1
    BY AttemptsAssumption
  <2>5. \A t \in Threads : stage'[t] # "queue"
    BY <2>1
  <2> QED BY <2>2, <2>3, <2>4, <2>5 DEF Patience
<1>8. ASSUME NEW t \in Threads, NEW e \in Events, Post(t, e) PROVE Patience'
  <2>1. Kept /\ worker' = worker /\ To(t, "append")
    BY <1>8 DEF Post, sink, Kept
  <2> QED BY <1>0, <1>2, <2>1, PatienceCalm
<1>9. CASE UNCHANGED vars
  BY <1>0, <1>9, PatienceCalm DEF vars, sink, door, Kept
<1> QED BY <1>3, <1>4, <1>5, <1>6, <1>7, <1>8, <1>9 DEF Next, Drain

(* The chain's, the projection's and the sink's tables keep their types:   *)
(* one row at most for each event, and no delta queued or in hand that has *)
(* used up its attempts.                                                   *)
THEOREM TypeCorrect == Spec => []TypeOK
<1>1. Init => Shape /\ Patience
  <2>1. Init => Patience
    BY PatienceStart DEF Init
  <2> QED BY <2>1, ShapeInit
<1>2. Shape /\ Patience /\ [Next]_vars => (Shape /\ Patience)'
  BY ShapeStep, PatienceStep
<1>3. Shape /\ Patience /\ OneRowPerEvent => TypeOK
  <2> SUFFICES ASSUME Shape, Patience, OneRowPerEvent PROVE TypeOK
    OBVIOUS
  <2>1. \A e \in Events : rows[e] \in 0..1
    BY DEF Shape, OneRowPerEvent
  <2>2. rows \in [Events -> 0..1]
    BY <2>1 DEF Shape
  <2> QED BY <2>2 DEF Shape, Patience, TypeOK
<1> QED BY <1>1, <1>2, <1>3, OneRow, PTL DEF Spec

=============================================================================
