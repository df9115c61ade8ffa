-------------------------------- MODULE Ingest --------------------------------
(***************************************************************************)
(* POST /events of the trust service around the append: the observation    *)
(* row the event projects to, the one notification of the store it is      *)
(* about, and StoreAgentSink, which posts it, queues what did not land and *)
(* retries it on a thread of its own.                                      *)
(*                                                                         *)
(* The append is the abstract log's, which Chain implements.  Every event  *)
(* here carries an observation about a store whose agent is addressed.     *)
(* Backing off is not timed: the retry worker may take its queue's head at *)
(* any moment.                                                             *)
(***************************************************************************)
EXTENDS Integers, Sequences, FiniteSets

CONSTANTS
    Events,      \* the event ids
    Threads,     \* of the door's thread pool
    Attempts,    \* DEFAULT_RETRY_ATTEMPTS, the inline one among them
    MaxPending,  \* MAX_PENDING_TRUST_EVENTS
    MaxPosts,    \* bound: requests served
    MaxRestarts  \* bound: restarts of the service

ASSUME AttemptsAssumption == Attempts \in Nat \ {0} /\ MaxPending \in Nat

NoEvent == "no event"
NoItem  == [event |-> NoEvent, attempts |-> 0]

VARIABLES
    log,        \* the ledger
    rows,       \* trust_observations: the rows of each event's seq
    stage,      \* how far each request has come
    event,      \* what it delivers
    absent,     \* its projection found no row
    queue,      \* the sink's deltas that wait for another attempt
    hand,       \* the one its worker has taken
    worker,     \* there is a worker
    delivered, lost,
    agent,      \* how often the store's agent took each event's delta
    unheard,    \* history: deltas taken whose answer did not come back
    entered,    \* history: deltas this process has begun to push
    posts, restarts

door   == <<stage, event, absent>>
sink   == <<queue, hand, worker, delivered, lost>>
peer   == <<agent, unheard>>
bounds == <<posts, restarts>>
vars   == <<log, rows, door, sink, peer, entered, bounds>>

(* Redeliveries carry the same content: an event is its own id.            *)
Id(e)  == e
Ledger == INSTANCE EventLog WITH IdOf <- Id

Appended(e) == \E i \in DOMAIN log : log[i] = e
To(t, s)    == stage' = [stage EXCEPT ![t] = s]

(* The request is answered, and its locals are gone.                       *)
Done(t) ==
    /\ To(t, "idle") /\ event' = [event EXCEPT ![t] = NoEvent]
    /\ absent' = [absent EXCEPT ![t] = FALSE]

-----------------------------------------------------------------------------
(* A request, from a producer that may be sending the event again.         *)
Post(t, e) ==
    /\ stage[t] = "idle" /\ posts < MaxPosts
    /\ posts' = posts + 1
    /\ To(t, "append") /\ event' = [event EXCEPT ![t] = e]
    /\ UNCHANGED <<log, rows, absent, sink, peer, entered, restarts>>

(* The append answers 201, or 503 although it landed, or 503.              *)
Insert(t) ==
    /\ stage[t] = "append"
    /\ Ledger!Append1(event[t])
    /\ Done(t) \/ (To(t, "project new") /\ UNCHANGED <<event, absent>>)
    /\ UNCHANGED <<rows, sink, peer, entered, bounds>>

(* The id is in the chain: the request goes on with the stored event.      *)
Recognise(t) ==
    /\ stage[t] = "append" /\ Appended(event[t])
    /\ To(t, "project old")
    /\ UNCHANGED <<log, rows, event, absent, sink, peer, entered, bounds>>

Unavailable(t) ==
    /\ stage[t] = "append"
    /\ Done(t)
    /\ UNCHANGED <<log, rows, sink, peer, entered, bounds>>

(* _project, on every request: under its own lock, is there a row of this  *)
(* seq already?                                                            *)
Unlocked(t) == TRUE  \* mutant: the lock is not taken

LockFree(t) == \A u \in Threads : stage[u] \notin {"write new", "write old"}

FindRow(t) ==
    /\ stage[t] \in {"project new", "project old"} /\ LockFree(t)
    /\ absent' = [absent EXCEPT ![t] = rows[event[t]] = 0]
    /\ To(t, IF stage[t] = "project new" THEN "write new" ELSE "write old")
    /\ UNCHANGED <<log, rows, event, sink, peer, entered, bounds>>

(* Only an insert is announced.                                            *)
NewOrOld(t) == TRUE  \* mutant: a redelivery is announced again

New(t) == stage[t] \in {"project new", "write new"}

Projected(t) ==
    IF New(t) THEN /\ To(t, "push") /\ absent' = [absent EXCEPT ![t] = FALSE]
                   /\ UNCHANGED event
    ELSE Done(t)

WriteRow(t) ==
    /\ stage[t] \in {"write new", "write old"}
    /\ rows' = IF absent[t] THEN [rows EXCEPT ![event[t]] = @ + 1] ELSE rows
    /\ Projected(t)
    /\ UNCHANGED <<log, sink, peer, entered, bounds>>

(* No connection, or a database that refuses: the append still stands.     *)
SkipRow(t) ==
    /\ stage[t] \in {"project new", "project old", "write new", "write old"}
    /\ Projected(t)
    /\ UNCHANGED <<log, rows, sink, peer, entered, bounds>>

-----------------------------------------------------------------------------
(* announce_trust_event: the delta is handed to the sink.                  *)
Push(t) ==
    /\ stage[t] = "push"
    /\ entered' = entered + 1
    /\ To(t, "post")
    /\ UNCHANGED <<log, rows, event, absent, sink, peer, bounds>>

(* What one POST to the agent comes to: taken and answered, taken with the *)
(* answer lost, answered 5xx or not reached, refused for good.             *)
Outcomes == {"landed", "unheard", "failed", "refused"}
Taken    == {"landed", "unheard"}

Arrive(e, outcome) ==
    /\ agent' = IF outcome \in Taken THEN [agent EXCEPT ![e] = @ + 1] ELSE agent
    /\ unheard' = IF outcome = "unheard" THEN [unheard EXCEPT ![e] = @ + 1] ELSE unheard

Retryable(outcome) == outcome \in {"unheard", "failed"}

PostInline(t) ==
    /\ stage[t] = "post"
    /\ \E outcome \in Outcomes :
           /\ Arrive(event[t], outcome)
           /\ To(t, IF outcome = "landed" THEN "landed"
                    ELSE IF Retryable(outcome) /\ Attempts > 1 THEN "queue" ELSE "lose")
    /\ UNCHANGED <<log, rows, event, absent, sink, entered, bounds>>

Landed(t) ==
    /\ stage[t] = "landed"
    /\ delivered' = delivered + 1
    /\ To(t, "answer")
    /\ UNCHANGED <<log, rows, event, absent, queue, hand, worker, lost, peer,
                   entered, bounds>>

(* _queue_or_lose: on the queue, or counted lost if it is full.            *)
FullLate == Len(queue) > MaxPending  \* mutant

Full == Len(queue) >= MaxPending

FullUncounted == 0  \* mutant: an overflow is only dropped

Overflow == 1

QueueOrLose(t) ==
    /\ stage[t] = "queue"
    /\ IF Full
       THEN lost' = lost + Overflow /\ To(t, "answer") /\ UNCHANGED queue
       ELSE /\ queue' = Append(queue, [event |-> event[t], attempts |-> 1])
            /\ To(t, "start") /\ UNCHANGED lost
    /\ UNCHANGED <<log, rows, event, absent, hand, worker, delivered, peer,
                   entered, bounds>>

Lose(t) ==
    /\ stage[t] = "lose"
    /\ lost' = lost + 1
    /\ To(t, "answer")
    /\ UNCHANGED <<log, rows, event, absent, queue, hand, worker, delivered,
                   peer, entered, bounds>>

(* _start_worker, if there is none.                                        *)
Started == TRUE

StartWorker(t) ==
    /\ stage[t] = "start"
    /\ worker' = Started
    /\ To(t, "answer")
    /\ UNCHANGED <<log, rows, event, absent, queue, hand, delivered, lost, peer,
                   entered, bounds>>

(* The request is answered, whatever its notification came to.              *)
Answer(t) ==
    /\ stage[t] = "answer"
    /\ Done(t)
    /\ UNCHANGED <<log, rows, sink, peer, entered, bounds>>

-----------------------------------------------------------------------------
(* The retry worker: the oldest delta, one more post, and what came of it. *)
Pop ==
    /\ worker /\ hand = NoItem /\ queue # <<>>
    /\ hand' = Head(queue) /\ queue' = Tail(queue)
    /\ UNCHANGED <<log, rows, door, worker, delivered, lost, peer, entered, bounds>>

SpentLate(item) == item.attempts >= Attempts  \* mutant

Spent(item) == item.attempts + 1 >= Attempts

Repost ==
    /\ hand # NoItem
    /\ \E outcome \in Outcomes :
        LET spent == ~Retryable(outcome) \/ Spent(hand)
        IN  /\ Arrive(hand.event, outcome)
            /\ IF outcome = "landed" THEN delivered' = delivered + 1 /\ UNCHANGED <<queue, lost>>
               ELSE IF spent THEN lost' = lost + 1 /\ UNCHANGED <<queue, delivered>>
               ELSE /\ queue' = Append(queue, [hand EXCEPT !.attempts = @ + 1])
                    /\ UNCHANGED <<delivered, lost>>
    /\ hand' = NoItem
    /\ UNCHANGED <<log, rows, door, worker, entered, bounds>>

(* The process restarts: the ledger and its tables are all that is kept.   *)
Restart ==
    /\ restarts < MaxRestarts
    /\ restarts' = restarts + 1
    /\ stage' = [t \in Threads |-> "idle"] /\ event' = [t \in Threads |-> NoEvent]
    /\ absent' = [t \in Threads |-> FALSE]
    /\ queue' = <<>> /\ hand' = NoItem /\ worker' = FALSE
    /\ delivered' = 0 /\ lost' = 0 /\ entered' = 0
    /\ UNCHANGED <<log, rows, peer, posts>>

-----------------------------------------------------------------------------
Init ==
    /\ Ledger!Init
    /\ rows = [e \in Events |-> 0]
    /\ stage = [t \in Threads |-> "idle"] /\ event = [t \in Threads |-> NoEvent]
    /\ absent = [t \in Threads |-> FALSE]
    /\ queue = <<>> /\ hand = NoItem /\ worker = FALSE
    /\ delivered = 0 /\ lost = 0
    /\ agent = [e \in Events |-> 0] /\ unheard = [e \in Events |-> 0]
    /\ entered = 0 /\ posts = 0 /\ restarts = 0

Serve(t) ==
    \/ Insert(t) \/ Recognise(t) \/ Unavailable(t)
    \/ FindRow(t) \/ WriteRow(t) \/ SkipRow(t)
    \/ Push(t) \/ PostInline(t) \/ Landed(t) \/ QueueOrLose(t) \/ Lose(t)
    \/ StartWorker(t) \/ Answer(t)

Drain == Pop \/ Repost

Next ==
    \/ \E t \in Threads : Serve(t) \/ \E e \in Events : Post(t, e)
    \/ Drain
    \/ Restart

Spec == Init /\ [][Next]_vars

-----------------------------------------------------------------------------
TypeOK ==
    /\ log \in Seq(Events)
    /\ rows \in [Events -> 0..1]
    /\ event \in [Threads -> Events \cup {NoEvent}]
    /\ absent \in [Threads -> BOOLEAN]
    /\ \A i \in DOMAIN queue : queue[i].attempts \in 1..Attempts - 1
    /\ hand.attempts \in 0..Attempts - 1
    /\ worker \in BOOLEAN
    /\ delivered \in Nat /\ lost \in Nat /\ entered \in Nat
    /\ agent \in [Events -> Nat] /\ unheard \in [Events -> Nat]

(* The projection's promise, over concurrent redeliveries, failures and    *)
(* restarts: one row at most for an event, and of an event in the chain.   *)
OneRowPerEvent == \A e \in Events : rows[e] <= 1 /\ (rows[e] = 1 => Appended(e))

(* The sink keeps score: each delta it was handed in this process is       *)
(* delivered, lost, queued, or in exactly one thread's hands.              *)
InHand == Cardinality({t \in Threads : stage[t] \in {"post", "landed", "queue", "lose"}})
          + (IF hand = NoItem THEN 0 ELSE 1)

NothingUncounted == entered = delivered + lost + Len(queue) + InHand

(* The bound on the queue is checked by requests only; the worker puts its *)
(* item back unchecked, so it is passed by one, and never by more.         *)
QueueNearCeiling == Len(queue) <= MaxPending + 1

(* "Exactly once": a second delivery of an event, a retry or a restart     *)
(* never has a store told twice, except when an answer of its agent was    *)
(* lost; and each lost answer costs it one more telling at most.           *)
ToldOnce == \A e \in Events : agent[e] <= 1 + unheard[e]
=============================================================================
