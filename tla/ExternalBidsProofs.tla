-------------------------- MODULE ExternalBidsProofs --------------------------
(***************************************************************************)
(* What module ExternalBids guarantees for any number of replicas and      *)
(* submissions, any terms of these, and any sizes of the queue, of the     *)
(* nonce memory and of a drain's batch.                                    *)
(***************************************************************************)
EXTENDS ExternalBids, TLAPS, FiniteSetTheorems

Places == {"idle", "depth", "push", "pop", "verify"}
Ways   == {"door", "deferred", "fault"}

(* The handler's own variables: what it has in hand and how it came by it. *)
Handler ==
    /\ at \in [Replicas -> Places]
    /\ item \in [Replicas -> Submissions \cup {Nobody}]
    /\ from \in [Replicas -> Ways]
    /\ left \in [Replicas -> 0..Batch]
    /\ \A r \in Replicas : at[r] \in {"depth", "push", "verify"} => item[r] \in Submissions
    /\ \A r \in Replicas : at[r] \in {"idle", "pop"} => from[r] = "door"

Typed == TypeOK /\ Handler

(* A step of r leaves the other replicas' handlers alone.                  *)
Aside(r) ==
    \A q \in Replicas \ {r} : at'[q] = at[q] /\ from'[q] = from[q]

Held == {r \in Replicas : Holding(r)}

-----------------------------------------------------------------------------
LEMMA Appending ==
    ASSUME NEW S, NEW q \in Seq(S), NEW x \in S
    PROVE  Append(q, x) \in Seq(S) /\ Len(Append(q, x)) = Len(q) + 1
OBVIOUS

LEMMA Popping ==
    ASSUME NEW S, NEW q \in Seq(S), q # <<>>
    PROVE  /\ Head(q) \in S /\ Tail(q) \in Seq(S) /\ Len(Tail(q)) = Len(q) - 1
OBVIOUS

(* Two finite sets that differ in r alone.                                 *)
LEMMA Counted ==
    ASSUME NEW S, NEW T, NEW r, IsFiniteSet(S), T \ {r} = S \ {r}
    PROVE  /\ IsFiniteSet(T) /\ Cardinality(S) \in Nat /\ Cardinality(T) \in Nat
           /\ Cardinality(T) + (IF r \in S THEN 1 ELSE 0)
                = Cardinality(S) + (IF r \in T THEN 1 ELSE 0)
<1>1. IsFiniteSet(S \ {r})
      /\ Cardinality(S \ {r}) = IF r \in S THEN Cardinality(S) - 1 ELSE Cardinality(S)
  BY FS_RemoveElement
<1>2. Cardinality(S) \in Nat
  BY FS_CardinalityType
<1>3. IsFiniteSet(T)
  <2>1. CASE r \in T
    <3>1. T = (S \ {r}) \cup {r}
      BY <2>1
    <3> QED BY <3>1, <1>1, FS_AddElement
  <2>2. CASE r \notin T
    <3>1. T = S \ {r}
      BY <2>2
    <3> QED BY <3>1, <1>1
  <2> QED BY <2>1, <2>2
<1>4. Cardinality(T \ {r}) = IF r \in T THEN Cardinality(T) - 1 ELSE Cardinality(T)
  BY <1>3, FS_RemoveElement
<1>5. Cardinality(T) \in Nat
  BY <1>3, FS_CardinalityType
<1> QED BY <1>1, <1>2, <1>3, <1>4, <1>5

-----------------------------------------------------------------------------
LEMMA Going ==
    ASSUME Handler, NEW r \in Replicas, NEW place \in {"idle", "pop"},
           NEW turns \in 0..Batch, Go(r, place, turns)
    PROVE  /\ Handler' /\ Aside(r) /\ at'[r] = place /\ from'[r] = "door"
<1>1. /\ at' = [at EXCEPT ![r] = place] /\ item' = [item EXCEPT ![r] = Nobody]
      /\ from' = [from EXCEPT ![r] = "door"] /\ left' = [left EXCEPT ![r] = turns]
  BY DEF Go
<1>2. /\ at' \in [Replicas -> Places] /\ item' \in [Replicas -> Submissions \cup {Nobody}]
      /\ from' \in [Replicas -> Ways] /\ left' \in [Replicas -> 0..Batch]
  BY <1>1 DEF Handler, Places, Ways
<1>3. at'[r] = place /\ from'[r] = "door" /\ Aside(r)
  BY <1>1 DEF Handler, Aside
<1>4. \A q \in Replicas :
          /\ at'[q] \in {"depth", "push", "verify"} => item'[q] \in Submissions
          /\ at'[q] \in {"idle", "pop"} => from'[q] = "door"
  BY <1>1 DEF Handler
<1> QED BY <1>2, <1>3, <1>4 DEF Handler

(* However a call is answered, the handler ends up with nothing in hand.   *)
LEMMA Answered ==
    ASSUME Handler, NEW r \in Replicas,
           PutBack(r) \/ NotPutBack(r) \/ Rest(r) \/ GoOn(r)
    PROVE  Handler' /\ Aside(r) /\ at'[r] \in {"idle", "pop"} /\ from'[r] = "door"
<1>1. 0 \in 0..Batch /\ Batch \in 0..Batch /\ left[r] \in 0..Batch
  BY BoundAssumption DEF Handler
<1>2. Go(r, "idle", 0) \/ Go(r, "pop", left[r]) \/ Go(r, "pop", Batch)
  BY DEF PutBack, NotPutBack, Rest, GoOn
<1> QED BY <1>1, <1>2, Going

(* A step that sends the handler of r somewhere with an item in hand.      *)
LEMMA Placed ==
    ASSUME Handler, NEW r \in Replicas, NEW place \in {"depth", "push", "verify"},
           at' = [at EXCEPT ![r] = place],
           item' \in [Replicas -> Submissions \cup {Nobody}], item'[r] \in Submissions,
           \A q \in Replicas \ {r} : item'[q] = item[q],
           from' \in [Replicas -> Ways],
           \A q \in Replicas \ {r} : from'[q] = from[q],
           left' \in [Replicas -> 0..Batch]
    PROVE  Handler' /\ Aside(r) /\ at'[r] = place
<1>1. at' \in [Replicas -> Places] /\ at'[r] = place /\ \A q \in Replicas \ {r} : at'[q] = at[q]
  BY DEF Handler, Places
<1> QED BY <1>1 DEF Handler, Aside

LEMMA SpendHandler ==
    ASSUME Handler, NEW r \in Replicas, NEW s \in Submissions, Spend(r, s)
    PROVE  /\ Handler' /\ Aside(r) /\ at[r] = "idle" /\ at'[r] = "depth"
           /\ from[r] = "door" /\ from'[r] = "door" /\ item'[r] = s
<1>1. /\ at' = [at EXCEPT ![r] = "depth"] /\ item' = [item EXCEPT ![r] = s]
      /\ from' = from /\ left' = left /\ at[r] = "idle"
  BY DEF Spend
<1>2. /\ item' \in [Replicas -> Submissions \cup {Nobody}] /\ item'[r] = s
      /\ \A q \in Replicas \ {r} : item'[q] = item[q]
  BY <1>1 DEF Handler
<1>3. from[r] = "door" /\ from' \in [Replicas -> Ways] /\ left' \in [Replicas -> 0..Batch]
  BY <1>1 DEF Handler
<1> QED BY <1>1, <1>2, <1>3, Placed

LEMMA DepthHandler ==
    ASSUME Handler, NEW r \in Replicas, Depth(r)
    PROVE  /\ Handler' /\ Aside(r) /\ at[r] = "depth" /\ at'[r] = "push"
           /\ from'[r] = from[r]
<1>1. /\ at' = [at EXCEPT ![r] = "push"] /\ at[r] = "depth"
      /\ item' = item /\ from' = from /\ left' = left
  BY DEF Depth
<1>2. item'[r] \in Submissions
  BY <1>1 DEF Handler
<1> QED BY <1>1, <1>2, Placed DEF Handler

LEMMA PopHandler ==
    ASSUME Typed, NEW r \in Replicas, Pop(r)
    PROVE  /\ Handler' /\ Aside(r) /\ at[r] = "pop" /\ at'[r] = "verify"
           /\ from'[r] = "door" /\ from[r] = "door"
<1>1. /\ at' = [at EXCEPT ![r] = "verify"] /\ at[r] = "pop"
      /\ item' = [item EXCEPT ![r] = Head(queue)] /\ from' = from
      /\ left[r] > 0 /\ left' = [left EXCEPT ![r] = @ - 1]
  BY DEF Pop
<1>2. Head(queue) \in Submissions
  BY Popping DEF Pop, Typed, TypeOK
<1>3. /\ item' \in [Replicas -> Submissions \cup {Nobody}] /\ item'[r] \in Submissions
      /\ \A q \in Replicas \ {r} : item'[q] = item[q]
  BY <1>1, <1>2 DEF Handler, Typed
<1>4. left' \in [Replicas -> 0..Batch]
  <2>1. left[r] - 1 \in 0..Batch
    BY <1>1, BoundAssumption DEF Handler, Typed
  <2> QED BY <1>1, <2>1 DEF Handler, Typed
<1>5. from[r] = "door" /\ from' \in [Replicas -> Ways]
  BY <1>1 DEF Handler, Typed
<1> QED BY <1>1, <1>3, <1>4, <1>5, Placed DEF Typed

LEMMA DeferHandler ==
    ASSUME Handler, NEW r \in Replicas, Defer(r)
    PROVE  /\ Handler' /\ Aside(r) /\ at[r] = "verify" /\ at'[r] = "depth"
           /\ from'[r] # "door"
<1>1. /\ at' = [at EXCEPT ![r] = "depth"] /\ at[r] = "verify"
      /\ item' = item /\ left' = left
  BY DEF Defer
<1>2. PICK reason \in {"deferred", "fault"} : from' = [from EXCEPT ![r] = reason]
  BY DEF Defer
<1>3. /\ from' \in [Replicas -> Ways] /\ from'[r] # "door"
      /\ \A q \in Replicas \ {r} : from'[q] = from[q]
  BY <1>2 DEF Handler, Ways
<1>4. item'[r] \in Submissions
  BY <1>1 DEF Handler
<1> QED BY <1>1, <1>3, <1>4, Placed DEF Handler

(* What is left: a step that answers, or one that moves no handler.        *)
LEMMA AnswerHandler ==
    ASSUME Handler, NEW r \in Replicas,
           \/ Full(r) \/ EnqueueFails(r) \/ Push(r) \/ PopLost(r)
           \/ StopDraining(r) \/ Verify(r) \/ Restart(r)
    PROVE  Handler' /\ Aside(r) /\ at'[r] \in {"idle", "pop"} /\ from'[r] = "door"
<1>1. PutBack(r) \/ NotPutBack(r) \/ Rest(r) \/ GoOn(r)
  BY DEF Full, EnqueueFails, Push, PopLost, StopDraining, Verify, Restart
<1> QED BY <1>1, Answered

LEMMA StillHandler ==
    ASSUME Handler,
           \/ Tick \/ UNCHANGED vars
           \/ \E r \in Replicas, s \in Submissions : RefuseNonce(r, s)
    PROVE  Handler' /\ at' = at /\ from' = from
<1>1. UNCHANGED <<at, item, from, left>>
  BY DEF Tick, RefuseNonce, vars
<1> QED BY <1>1 DEF Handler

-----------------------------------------------------------------------------
LEMMA TypedInit == Init => Typed
<1> SUFFICES ASSUME Init PROVE Typed
  OBVIOUS
<1>1. <<>> \in Seq(Submissions)
  OBVIOUS
<1>2. 0 \in 0..MaxTime /\ 0 \in 0..MaxFailures /\ 0 \in 0..Batch
  BY BoundAssumption
<1> QED BY <1>1, <1>2 DEF Init, Typed, TypeOK, Handler, Places, Ways

(* TypeOK without what Handler already says.                               *)
Books ==
    /\ now \in 0..MaxTime /\ failures \in 0..MaxFailures
    /\ queue \in Seq(Submissions)
    /\ spent \in [Replicas -> SUBSET Submissions]
    /\ passed \in [Replicas -> SUBSET Submissions]
    /\ owed \in Int /\ mishaps \in Nat

LEMMA TypedParts == Typed <=> Books /\ Handler
BY DEF Typed, TypeOK, Books, Handler, Places, Ways

LEMMA Failing == ASSUME failures \in 0..MaxFailures, Fails PROVE failures' \in 0..MaxFailures
BY BoundAssumption DEF Fails

LEMMA BooksStep == Typed /\ [Next]_vars => Books'
<1> SUFFICES ASSUME Typed, [Next]_vars PROVE Books'
  OBVIOUS
<1>0. Books /\ Handler
  BY TypedParts
<1>1. CASE Tick
  BY <1>0, <1>1, BoundAssumption DEF Tick, Books, door, history
<1>2. ASSUME NEW r \in Replicas, NEW s \in Submissions, Spend(r, s) \/ RefuseNonce(r, s)
      PROVE  Books'
  <2>1. Kept(r) \subseteq Submissions
    BY <1>0 DEF Kept, Books
  <2>2. spent' \in [Replicas -> SUBSET Submissions] /\ passed' \in [Replicas -> SUBSET Submissions]
    BY <1>0, <1>2, <2>1 DEF Spend, RefuseNonce, Books
  <2>3. UNCHANGED <<now, queue, failures, owed, mishaps>>
    BY <1>2 DEF Spend, RefuseNonce, history
  <2> QED BY <1>0, <2>2, <2>3 DEF Books
<1>3. ASSUME NEW r \in Replicas, Depth(r) \/ StopDraining(r) \/ Defer(r) \/ Verify(r)
      PROVE  Books'
  <2>1. UNCHANGED <<now, queue, spent, passed, failures, mishaps>>
        /\ (owed' = owed \/ owed' = owed - 1)
    BY <1>3 DEF Depth, StopDraining, Defer, Verify, door, history
  <2> QED BY <1>0, <2>1 DEF Books
<1>4. ASSUME NEW r \in Replicas, Full(r) \/ EnqueueFails(r) \/ Restart(r)
      PROVE  Books'
  <2>1. Losing(r) /\ (UNCHANGED failures \/ Fails) /\ UNCHANGED <<now, queue, owed>>
    BY <1>4 DEF Full, EnqueueFails, Restart
  <2>2. failures' \in 0..MaxFailures
    BY <1>0, <2>1, Failing DEF Books
  <2>3. mishaps' \in Nat
    BY <1>0, <2>1 DEF Books, Losing
  <2>4. spent' \in [Replicas -> SUBSET Submissions] /\ passed' \in [Replicas -> SUBSET Submissions]
    BY <1>0, <1>4 DEF Full, EnqueueFails, Restart, door, Books
  <2> QED BY <1>0, <2>1, <2>2, <2>3, <2>4 DEF Books
<1>5. ASSUME NEW r \in Replicas, Push(r)
      PROVE  Books'
  <2>1. at[r] = "push" /\ queue' = Append(queue, item[r])
        /\ UNCHANGED <<now, spent, passed, mishaps>>
    BY <1>5 DEF Push, door
  <2>2. item[r] \in Submissions
    BY <1>0, <2>1 DEF Handler
  <2>3. queue' \in Seq(Submissions)
    BY <1>0, <2>1, <2>2, Appending DEF Books
  <2>4. failures' \in 0..MaxFailures
    BY <1>0, <1>5, Failing DEF Push, Books
  <2>5. owed' \in Int
    BY <1>0, <1>5 DEF Push, Books
  <2> QED BY <1>0, <2>1, <2>3, <2>4, <2>5 DEF Books
<1>6. ASSUME NEW r \in Replicas, Pop(r) \/ PopLost(r)
      PROVE  Books'
  <2>1. queue # <<>> /\ queue' = Tail(queue) /\ UNCHANGED <<now, spent, passed, owed>>
        /\ (UNCHANGED failures \/ Fails) /\ (mishaps' = mishaps \/ mishaps' = mishaps + 1)
    BY <1>6 DEF Pop, PopLost, door, history
  <2>2. queue' \in Seq(Submissions)
    BY <1>0, <2>1, Popping DEF Books
  <2>3. failures' \in 0..MaxFailures
    BY <1>0, <2>1, Failing DEF Books
  <2> QED BY <1>0, <2>1, <2>2, <2>3 DEF Books
<1>7. CASE UNCHANGED vars
  BY <1>0, <1>7 DEF vars, door, history, Books
<1> QED BY <1>1, <1>2, <1>3, <1>4, <1>5, <1>6, <1>7 DEF Next

LEMMA HandlerStep == Typed /\ [Next]_vars => Handler'
<1> SUFFICES ASSUME Typed, [Next]_vars PROVE Handler'
  OBVIOUS
<1>0. Handler
  BY DEF Typed
<1>1. ASSUME NEW r \in Replicas, NEW s \in Submissions, Spend(r, s) PROVE Handler'
  BY <1>0, <1>1, SpendHandler
<1>2. ASSUME NEW r \in Replicas, Depth(r) \/ Pop(r) \/ Defer(r) PROVE Handler'
  BY <1>0, <1>2, DepthHandler, PopHandler, DeferHandler
<1>3. ASSUME NEW r \in Replicas,
             \/ Full(r) \/ EnqueueFails(r) \/ Push(r) \/ PopLost(r)
             \/ StopDraining(r) \/ Verify(r) \/ Restart(r)
      PROVE  Handler'
  BY <1>0, <1>3, AnswerHandler
<1>4. ASSUME \/ Tick \/ UNCHANGED vars
             \/ \E r \in Replicas, s \in Submissions : RefuseNonce(r, s)
      PROVE  Handler'
  BY <1>0, <1>4, StillHandler
<1> QED BY <1>1, <1>2, <1>3, <1>4 DEF Next

LEMMA AlwaysTyped == Spec => []Typed
<1>1. Typed /\ [Next]_vars => Typed'
  <2> SUFFICES ASSUME Typed, [Next]_vars PROVE Typed'
    OBVIOUS
  <2>1. Books' /\ Handler'
    BY BooksStep, HandlerStep
  <2> QED BY <2>1 DEF Typed, TypeOK, Books, Handler, Places, Ways
<1> QED BY TypedInit, <1>1, PTL DEF Spec

(* Whatever the handlers, their drains and the clock do, every variable    *)
(* keeps its type, a drain takes at most one batch, and what is judged,    *)
(* appended or verified is a submission (receive_bid, drain_once).         *)
THEOREM TypeCorrect == Spec => []TypeOK
<1>1. Typed => TypeOK
  BY DEF Typed
<1> QED BY AlwaysTyped, <1>1, PTL

-----------------------------------------------------------------------------
LEMMA Counts ==
    /\ IsFiniteSet(Waiting) /\ Cardinality(Waiting) \in Nat
    /\ IsFiniteSet(Held) /\ Cardinality(Held) \in Nat
    /\ Cardinality(Waiting) <= Cardinality(Replicas)
    /\ Cardinality(Replicas) \in Nat
BY ReplicaAssumption, FS_Subset, FS_CardinalityType DEF Waiting, Held

(* A step of r alone puts it among the waiting or takes it out.            *)
LEMMA WaitingMoves ==
    ASSUME NEW r \in Replicas, Aside(r)
    PROVE  /\ Cardinality(Waiting') \in Nat
           /\ Cardinality(Waiting') + (IF at[r] = "push" THEN 1 ELSE 0)
                = Cardinality(Waiting) + (IF at'[r] = "push" THEN 1 ELSE 0)
<1>1. Waiting' \ {r} = Waiting \ {r}
  BY DEF Aside, Waiting
<1>2. (r \in Waiting <=> at[r] = "push") /\ (r \in Waiting' <=> at'[r] = "push")
  BY DEF Waiting
<1> QED BY <1>1, <1>2, Counts, Counted

LEMMA HeldMoves ==
    ASSUME NEW r \in Replicas, Aside(r)
    PROVE  /\ Cardinality(Held') \in Nat
           /\ Cardinality(Held') + (IF Holding(r) THEN 1 ELSE 0)
                = Cardinality(Held) + (IF Holding(r)' THEN 1 ELSE 0)
<1>1. Held' \ {r} = Held \ {r}
  BY DEF Aside, Held, Holding
<1>2. (r \in Held <=> Holding(r)) /\ (r \in Held' <=> Holding(r)')
  BY DEF Held
<1> QED BY <1>1, <1>2, Counts, Counted

(* The LLEN is a promise to append that no reading of the list shows: the  *)
(* replicas past it are counted with the list.                             *)
LEMMA NearCeilingStep == Typed /\ QueueNearCeiling /\ [Next]_vars => QueueNearCeiling'
<1> SUFFICES ASSUME Typed, QueueNearCeiling, [Next]_vars PROVE QueueNearCeiling'
  OBVIOUS
<1>0. Handler /\ queue \in Seq(Submissions) /\ Len(queue) \in Nat /\ QueueCeiling \in Nat
  BY BoundAssumption DEF Typed, TypeOK
<1> DEFINE Room == QueueCeiling + Cardinality(Replicas) - 1
<1>a. Len(queue) + Cardinality(Waiting) <= Room
  BY DEF QueueNearCeiling
<1>1. ASSUME Waiting' = Waiting, Len(queue') = Len(queue) PROVE QueueNearCeiling'
  BY <1>1 DEF QueueNearCeiling
<1>2. ASSUME NEW r \in Replicas, Aside(r), at'[r] # "push",
             \/ Len(queue') = Len(queue) \/ Len(queue') = Len(queue) - 1
             \/ at[r] = "push" /\ Len(queue') = Len(queue) + 1
      PROVE  QueueNearCeiling'
  <2>1. Cardinality(Waiting') + (IF at[r] = "push" THEN 1 ELSE 0) = Cardinality(Waiting)
        /\ Cardinality(Waiting') \in Nat
    BY <1>2, WaitingMoves, Counts
  <2>2. Len(queue') + Cardinality(Waiting') <= Room
    BY <1>0, <1>2, <1>a, <2>1, Counts
  <2> QED BY <2>2 DEF QueueNearCeiling
<1>3. ASSUME NEW r \in Replicas, NEW s \in Submissions, Spend(r, s) PROVE QueueNearCeiling'
  BY <1>0, <1>2, <1>3, SpendHandler DEF Spend
<1>4. ASSUME NEW r \in Replicas, Depth(r) PROVE QueueNearCeiling'
  <2>1. Len(queue) < QueueCeiling /\ queue' = queue
    BY <1>4 DEF Depth
  <2>2. Cardinality(Waiting') <= Cardinality(Replicas) /\ Cardinality(Waiting') \in Nat
        /\ Cardinality(Replicas) \in Nat
    <3>1. Waiting' \in SUBSET Replicas
      BY DEF Waiting
    <3> QED BY <3>1, ReplicaAssumption, FS_Subset, FS_CardinalityType
  <2>3. Len(queue') + Cardinality(Waiting') <= Room
    BY <1>0, <2>1, <2>2
  <2> QED BY <2>3 DEF QueueNearCeiling
<1>5. ASSUME NEW r \in Replicas, Pop(r) \/ PopLost(r) PROVE QueueNearCeiling'
  <2>1. Aside(r) /\ at'[r] # "push"
    BY <1>0, <1>5, PopHandler, AnswerHandler
  <2>2. Len(queue') = Len(queue) - 1
    BY <1>0, <1>5, Popping DEF Pop, PopLost
  <2> QED BY <1>2, <2>1, <2>2
<1>6. ASSUME NEW r \in Replicas, Push(r) PROVE QueueNearCeiling'
  <2>1. Aside(r) /\ at'[r] # "push" /\ at[r] = "push" /\ item[r] \in Submissions
    BY <1>0, <1>6, AnswerHandler DEF Push, Handler
  <2>2. Len(queue') = Len(queue) + 1
    BY <1>0, <1>6, <2>1, Appending DEF Push
  <2> QED BY <1>2, <2>1, <2>2
<1>7. ASSUME NEW r \in Replicas, Defer(r) PROVE QueueNearCeiling'
  BY <1>0, <1>2, <1>7, DeferHandler DEF Defer
<1>8. ASSUME NEW r \in Replicas,
             Full(r) \/ EnqueueFails(r) \/ StopDraining(r) \/ Verify(r) \/ Restart(r)
      PROVE  QueueNearCeiling'
  <2>1. queue' = queue
    BY <1>8 DEF Full, EnqueueFails, StopDraining, Verify, Restart
  <2>2. Aside(r) /\ at'[r] # "push"
    BY <1>0, <1>8, AnswerHandler
  <2> QED BY <1>2, <2>1, <2>2
<1>9. ASSUME \/ Tick \/ UNCHANGED vars
             \/ \E r \in Replicas, s \in Submissions : RefuseNonce(r, s)
      PROVE  QueueNearCeiling'
  <2>1. at' = at /\ queue' = queue
    BY <1>9 DEF Tick, RefuseNonce, vars
  <2> QED BY <1>1, <2>1 DEF Waiting
<1> QED BY <1>3, <1>4, <1>5, <1>6, <1>7, <1>8, <1>9 DEF Next

(* enqueue reads the depth and appends in two commands, so the ceiling can *)
(* be passed; however many replicas, submissions and drains interleave, it *)
(* is passed by fewer items than there are replicas.                       *)
THEOREM CeilingKept == Spec => []QueueNearCeiling
<1>1. Init => QueueNearCeiling
  <2> SUFFICES ASSUME Init PROVE QueueNearCeiling
    OBVIOUS
  <2>1. Waiting = {} /\ Len(queue) = 0
    BY DEF Init, Waiting
  <2>2. Cardinality(Waiting) = 0
    BY <2>1, FS_EmptySet
  <2>3. Cardinality(Replicas) \in Nat
    BY Counts
  <2> QED BY <2>1, <2>2, <2>3, BoundAssumption DEF QueueNearCeiling
<1> QED BY <1>1, AlwaysTyped, NearCeilingStep, PTL DEF Spec

-----------------------------------------------------------------------------
LEMMA DroppedIs ==
    NothingDropped <=> /\ Len(queue) + Cardinality(Held) <= owed
                       /\ owed <= Len(queue) + Cardinality(Held) + mishaps
BY DEF NothingDropped, Held

(* An item leaves the queue for a drain's hands, comes back from there, or *)
(* is paid for by a verdict or by a mishap.                                *)
LEMMA NothingDroppedStep == Typed /\ NothingDropped /\ [Next]_vars => NothingDropped'
<1> SUFFICES ASSUME Typed, NothingDropped, [Next]_vars PROVE NothingDropped'
  OBVIOUS
<1>0. /\ Handler /\ queue \in Seq(Submissions) /\ Len(queue) \in Nat
      /\ owed \in Int /\ mishaps \in Nat
  BY DEF Typed, TypeOK
<1>a. /\ Len(queue) + Cardinality(Held) <= owed
      /\ owed <= Len(queue) + Cardinality(Held) + mishaps
  BY DroppedIs
<1>b. NothingDropped' <=> /\ Len(queue') + Cardinality(Held') <= owed'
                          /\ owed' <= Len(queue') + Cardinality(Held') + mishaps'
  BY DEF NothingDropped, Held
<1>1. ASSUME at' = at, from' = from, UNCHANGED <<queue, owed, mishaps>> PROVE NothingDropped'
  <2>1. Held' = Held
    BY <1>1 DEF Held, Holding
  <2> QED BY <1>a, <1>b, <1>1, <2>1
<1>2. ASSUME NEW r \in Replicas, Aside(r), Holding(r) <=> Holding(r)',
             UNCHANGED <<queue, owed, mishaps>>
      PROVE  NothingDropped'
  <2>1. Cardinality(Held') = Cardinality(Held)
    BY <1>2, HeldMoves, Counts
  <2> QED BY <1>a, <1>b, <1>2, <2>1
<1>3. ASSUME NEW r \in Replicas, NEW s \in Submissions, Spend(r, s) PROVE NothingDropped'
  <2>1. UNCHANGED <<queue, owed, mishaps>> /\ ~Holding(r) /\ ~Holding(r)' /\ Aside(r)
    BY <1>0, <1>3, SpendHandler DEF Spend, history, Holding
  <2> QED BY <1>2, <2>1
<1>4. ASSUME NEW r \in Replicas, Depth(r) PROVE NothingDropped'
  <2>1. UNCHANGED <<queue, owed, mishaps>> /\ (Holding(r) <=> Holding(r)') /\ Aside(r)
    BY <1>0, <1>4, DepthHandler DEF Depth, history, Holding
  <2> QED BY <1>2, <2>1
<1>5. ASSUME NEW r \in Replicas, Defer(r) PROVE NothingDropped'
  <2>1. UNCHANGED <<queue, owed, mishaps>> /\ Holding(r) /\ Holding(r)' /\ Aside(r)
    BY <1>0, <1>5, DeferHandler DEF Defer, history, Holding
  <2> QED BY <1>2, <2>1
<1>6. ASSUME NEW r \in Replicas, Pop(r) PROVE NothingDropped'
  <2>1. ~Holding(r) /\ Holding(r)' /\ Aside(r)
    BY <1>6, PopHandler DEF Holding
  <2>2. Len(queue') = Len(queue) - 1 /\ UNCHANGED <<owed, mishaps>>
    BY <1>0, <1>6, Popping DEF Pop, history
  <2>3. Cardinality(Held') = Cardinality(Held) + 1
    BY <2>1, HeldMoves, Counts
  <2> QED BY <1>0, <1>a, <1>b, <2>2, <2>3, Counts
<1>7. ASSUME NEW r \in Replicas, Aside(r), ~Holding(r)' PROVE
         /\ Holding(r) => Cardinality(Held') = Cardinality(Held) - 1
         /\ ~Holding(r) => Cardinality(Held') = Cardinality(Held)
  BY <1>7, HeldMoves, Counts
<1>8. ASSUME NEW r \in Replicas,
             \/ Full(r) \/ EnqueueFails(r) \/ Push(r) \/ PopLost(r)
             \/ StopDraining(r) \/ Verify(r) \/ Restart(r)
      PROVE  Aside(r) /\ ~Holding(r)'
  BY <1>0, <1>8, AnswerHandler DEF Holding
<1>9. ASSUME NEW r \in Replicas, PopLost(r) PROVE NothingDropped'
  <2>1. ~Holding(r) /\ Len(queue') = Len(queue) - 1 /\ owed' = owed /\ mishaps' = mishaps + 1
    BY <1>0, <1>9, Popping DEF PopLost, Holding
  <2> QED BY <1>0, <1>7, <1>8, <1>9, <1>a, <1>b, <2>1, Counts
<1>10. ASSUME NEW r \in Replicas, Full(r) \/ EnqueueFails(r) \/ Restart(r)
       PROVE  NothingDropped'
  <2>1. queue' = queue /\ owed' = owed
        /\ mishaps' = mishaps + (IF Holding(r) THEN 1 ELSE 0)
    BY <1>10 DEF Full, EnqueueFails, Restart, Losing
  <2> QED BY <1>0, <1>7, <1>8, <1>10, <1>a, <1>b, <2>1, Counts
<1>11. ASSUME NEW r \in Replicas, StopDraining(r) PROVE NothingDropped'
  <2>1. ~Holding(r) /\ UNCHANGED <<queue, owed, mishaps>>
    BY <1>11 DEF StopDraining, history, Holding
  <2> QED BY <1>2, <1>8, <1>11, <2>1
<1>12. ASSUME NEW r \in Replicas, Verify(r) PROVE NothingDropped'
  <2>1. Holding(r) /\ owed' = owed - 1 /\ UNCHANGED <<queue, mishaps>>
    BY <1>12 DEF Verify, Holding
  <2> QED BY <1>0, <1>7, <1>8, <1>12, <1>a, <1>b, <2>1, Counts
<1>13. ASSUME NEW r \in Replicas, Push(r) PROVE NothingDropped'
  <2>1. at[r] = "push" /\ item[r] \in Submissions
    BY <1>0, <1>13 DEF Push, Handler
  <2>2. Len(queue') = Len(queue) + 1 /\ mishaps' = mishaps
        /\ owed' = owed + (IF from[r] = "door" THEN 1 ELSE 0)
    BY <1>0, <1>13, <2>1, Appending DEF Push
  <2>3. Holding(r) <=> from[r] # "door"
    BY <2>1 DEF Holding
  <2> QED BY <1>0, <1>7, <1>8, <1>13, <1>a, <1>b, <2>2, <2>3, Counts
<1>14. ASSUME \/ Tick \/ UNCHANGED vars
              \/ \E r \in Replicas, s \in Submissions : RefuseNonce(r, s)
       PROVE  NothingDropped'
  <2>1. at' = at /\ from' = from /\ UNCHANGED <<queue, owed, mishaps>>
    BY <1>14 DEF Tick, RefuseNonce, vars, history
  <2> QED BY <1>1, <2>1
<1> QED BY <1>3, <1>4, <1>5, <1>6, <1>9, <1>10, <1>11, <1>12, <1>13, <1>14 DEF Next

(* Every item the door put in the queue is waiting, in a drain's hands,    *)
(* verified, or accounted for by a crash, a failed call or a refused       *)
(* put-back; none is verified twice, whatever drains run at once           *)
(* (drain_once, _requeue).                                                 *)
THEOREM NoneDropped == Spec => []NothingDropped
<1>1. Init => NothingDropped
  <2> SUFFICES ASSUME Init PROVE NothingDropped
    OBVIOUS
  <2>1. Held = {} /\ Len(queue) = 0 /\ owed = 0 /\ mishaps = 0
    BY DEF Init, Held, Holding
  <2>2. Cardinality(Held) = 0
    BY <2>1, FS_EmptySet
  <2> QED BY <2>1, <2>2, DroppedIs
<1> QED BY <1>1, AlwaysTyped, NothingDroppedStep, PTL DEF Spec

-----------------------------------------------------------------------------
(* What a replica has let past and no longer remembers is past the time it *)
(* had to remember it.                                                     *)
Remembered ==
    \A r \in Replicas : \A s \in passed[r] : s \in spent[r] \/ now > Retention(s)

LEMMA RetentionType == \A s \in Submissions : Retention(s) \in Nat
BY TermsAssumption, BoundAssumption DEF Retention

(* The retention outlives the gates before it: what may be forgotten is    *)
(* stale, or its auction is closed.                                        *)
LEMMA RetentionEnough ==
    ASSUME NEW s \in Submissions, now \in Nat, now > Retention(s)
    PROVE  ~Fresh(s) \/ ~Open(s)
<1>1. CASE Deadline[s] # NoDeadline
  BY <1>1, TermsAssumption DEF Retention, Open
<1>2. CASE Deadline[s] = NoDeadline
  BY <1>2, TermsAssumption, BoundAssumption DEF Retention, Fresh
<1> QED BY <1>1, <1>2

LEMMA RememberedStep == Typed /\ Remembered /\ [Next]_vars => Remembered'
<1> SUFFICES ASSUME Typed, Remembered, [Next]_vars PROVE Remembered'
  OBVIOUS
<1>0. /\ now \in Nat /\ spent \in [Replicas -> SUBSET Submissions]
      /\ passed \in [Replicas -> SUBSET Submissions]
  BY BoundAssumption DEF Typed, TypeOK
<1>r. \A s : Retention(s)' = Retention(s)
  BY DEF Retention
<1>1. ASSUME NEW r \in Replicas, NEW s \in Submissions, now' = now,
             \/ passed' = [passed EXCEPT ![r] = @ \cup {s}]
                /\ spent' = [spent EXCEPT ![r] = Kept(r) \cup {s}]
             \/ passed' = passed /\ spent' = [spent EXCEPT ![r] = Kept(r)]
      PROVE  Remembered'
  <2> SUFFICES ASSUME NEW q \in Replicas, NEW p \in passed'[q]
               PROVE  p \in spent'[q] \/ now' > Retention(p)'
    BY DEF Remembered
  <2>1. CASE q # r
    BY <1>0, <1>1, <1>r, <2>1 DEF Remembered
  <2>2. CASE q = r
    <3>0. \/ spent'[r] = Kept(r) \cup {s} /\ passed'[r] = passed[r] \cup {s}
          \/ spent'[r] = Kept(r) /\ passed'[r] = passed[r]
      BY <1>0, <1>1
    <3>1. p \in passed[r] \/ (p = s /\ p \in spent'[r])
      BY <2>2, <3>0
    <3>2. Kept(r) \subseteq spent'[r]
      BY <3>0
    <3>3. CASE p \in passed[r]
      <4>1. p \in spent[r] \/ now > Retention(p)
        BY <3>3 DEF Remembered
      <4>2. p \in Submissions /\ Retention(p) \in Nat
        BY <1>0, <3>3, RetentionType
      <4>3. p \in Kept(r) \/ now > Retention(p)
        BY <1>0, <4>1, <4>2 DEF Kept
      <4> QED BY <1>1, <1>r, <2>2, <3>2, <4>3
    <3> QED BY <2>2, <3>1, <3>3
  <2> QED BY <2>1, <2>2
<1>2. ASSUME UNCHANGED door, now' \in Nat, now' >= now PROVE Remembered'
  <2> SUFFICES ASSUME NEW q \in Replicas, NEW p \in passed'[q]
               PROVE  p \in spent'[q] \/ now' > Retention(p)'
    BY DEF Remembered
  <2>1. p \in Submissions /\ (p \in spent'[q] \/ now > Retention(p))
    BY <1>0, <1>2 DEF door, Remembered
  <2> QED BY <1>0, <1>2, <1>r, <2>1, RetentionType
<1>3. ASSUME NEW r \in Replicas, NEW s \in Submissions, Spend(r, s) \/ RefuseNonce(r, s)
      PROVE  Remembered'
  BY <1>1, <1>3 DEF Spend, RefuseNonce
<1>4. ASSUME NEW r \in Replicas, Restart(r) PROVE Remembered'
  BY <1>0, <1>4, <1>r DEF Restart, Remembered
<1>5. CASE Tick
  BY <1>0, <1>2, <1>5 DEF Tick
<1>6. ASSUME \/ UNCHANGED vars
             \/ \E r \in Replicas :
                   \/ Depth(r) \/ Full(r) \/ EnqueueFails(r) \/ Push(r)
                   \/ Pop(r) \/ PopLost(r) \/ StopDraining(r)
                   \/ Verify(r) \/ Defer(r)
      PROVE  Remembered'
  <2>1. UNCHANGED <<now, door>>
    BY <1>6 DEF vars, Depth, Full, EnqueueFails, Push, Pop, PopLost, StopDraining, Verify, Defer
  <2> QED BY <1>0, <1>2, <2>1
<1> QED BY <1>3, <1>4, <1>5, <1>6 DEF Next

LEMMA AlwaysRemembered == Spec => []Remembered
<1>1. Init => Remembered
  BY DEF Init, Remembered
<1> QED BY <1>1, AlwaysTyped, RememberedStep, PTL DEF Spec

(* However often a signed submission is delivered, and at whatever times,  *)
(* a replica that has not restarted lets it past the nonce gate once: the  *)
(* gates before it refuse what _nonce_retention let it forget.             *)
THEOREM ReplayRefused == Spec => NoReplay
<1>1. Typed /\ Remembered /\ [Next]_vars
        => [\A r \in Replicas : at[r] = "idle" /\ at'[r] = "depth"
                                   => item'[r] \notin passed[r]]_vars
  <2> SUFFICES ASSUME Typed, Remembered, [Next]_vars, NEW r \in Replicas,
                      at[r] = "idle", at'[r] = "depth"
               PROVE  item'[r] \notin passed[r]
    OBVIOUS
  <2>0. Handler /\ now \in Nat /\ passed \in [Replicas -> SUBSET Submissions]
    BY BoundAssumption DEF Typed, TypeOK
  <2>1. \E s \in Submissions : Spend(r, s)
    <3>1. ASSUME NEW q \in Replicas, Aside(q), q # r PROVE FALSE
      BY <3>1 DEF Aside
    <3>2. ASSUME NEW q \in Replicas, NEW s \in Submissions, Spend(q, s)
          PROVE  Spend(r, s)
      BY <2>0, <3>1, <3>2, SpendHandler
    <3>3. ASSUME NEW q \in Replicas, Depth(q) \/ Pop(q) \/ Defer(q) PROVE FALSE
      BY <2>0, <3>1, <3>3, DepthHandler, PopHandler, DeferHandler
    <3>4. ASSUME NEW q \in Replicas,
                 \/ Full(q) \/ EnqueueFails(q) \/ Push(q) \/ PopLost(q)
                 \/ StopDraining(q) \/ Verify(q) \/ Restart(q)
          PROVE  FALSE
      BY <2>0, <3>1, <3>4, AnswerHandler
    <3>5. ASSUME \/ Tick \/ UNCHANGED vars
                 \/ \E q \in Replicas, s \in Submissions : RefuseNonce(q, s)
          PROVE  FALSE
      BY <2>0, <3>5, StillHandler
    <3> QED BY <3>2, <3>3, <3>4, <3>5 DEF Next
  <2>2. PICK s \in Submissions : Spend(r, s)
    BY <2>1
  <2>3. item'[r] = s /\ Fresh(s) /\ Open(s) /\ s \notin Kept(r)
    BY <2>0, <2>2, SpendHandler DEF Spend
  <2>4. CASE s \in passed[r]
    <3>1. ~(now > Retention(s)) /\ Retention(s) \in Nat
      BY <2>0, <2>3, RetentionEnough, RetentionType
    <3>2. s \in spent[r]
      BY <2>4, <3>1 DEF Remembered
    <3> QED BY <2>0, <2>3, <3>1, <3>2 DEF Kept
  <2> QED BY <2>3, <2>4
<1> QED BY AlwaysTyped, AlwaysRemembered, <1>1, PTL DEF Spec, NoReplay

=============================================================================
