----------------------------- MODULE Solicitation -----------------------------
(***************************************************************************)
(* How an auction asks its stores: solicit_bids' gate, parallel_fan_out    *)
(* over the one bounded pool of the process, and collect_bids' account of  *)
(* every row of the roster.                                                *)
(*                                                                         *)
(* create_auction blocks the event loop for as long as its fan-out takes,  *)
(* so the process is at one auction at a time; what auctions share is the  *)
(* pool, where the stores that earlier ones gave up on still hold slots.   *)
(* A row is a place in the roster; a store may have several, which name    *)
(* one product.                                                            *)
(***************************************************************************)
EXTENDS Integers, Sequences, FiniteSets

CONSTANTS
    Stores,
    Rosters,     \* what requests may ask for: sequences of stores
    Endpoint,    \* stores the solicitor holds a bid endpoint for
    MaxWorkers,  \* MAX_FAN_OUT_WORKERS, of the process and of one call
    Window       \* the bid window, in ticks of the exchange's clock

ASSUME RosterAssumption == Rosters \subseteq Seq(Stores) /\ Endpoint \subseteq Stores
ASSUME WindowAssumption == MaxWorkers \in Nat \ {0} /\ Window \in Nat

(* What a store's worker comes back with: a bid that can be ranked, one    *)
(* the price or provenance wall refuses, a decline or a bad status, None,  *)
(* an exception.                                                           *)
Replies == {"offer", "walled", "refusal", "silent", "error"}
NoReply == "no reply"

VARIABLES
    phase,     \* how far the auction has come
    roster,    \* its rows
    elapsed,   \* ticks since its window opened
    free,      \* the pool's semaphore
    stragglers,\* slots held by stores that earlier auctions gave up on
    cleared,   \* the rows the eligibility gate let through
    pending,   \* the rows the fan-out has yet to submit
    task,      \* where each row's worker is
    reply,     \* what its store answered
    stamp,     \* received_at: the exchange's own clock at that moment
    heard,     \* what the fan-out has made of the row's future
    result     \* the entries: a reason, or the bid, of each row

slots   == <<free, stragglers>>
gated   == <<roster, cleared>>
workers == <<task, reply, stamp>>
vars    == <<phase, elapsed, slots, gated, pending, workers, heard, result>>

-----------------------------------------------------------------------------
Rows == DOMAIN roster

(* The rows whose store is asked: an endpoint raises a tier-0 row, and a   *)
(* row of any tier without one is not dialled.                             *)
Askable == {i \in cleared : roster[i] \in Endpoint}

Dialled == {i \in Rows : task[i] # "none"}
InStore == {i \in Rows : task[i] = "asking"}

-----------------------------------------------------------------------------
(* The next request reaches the loop, and its window opens.  A worker of   *)
(* the last auction still inside its store goes on holding its slot.       *)
Start(rows) ==
    /\ phase = "closed"
    /\ phase' = "gate" /\ roster' = rows /\ elapsed' = 0
    /\ stragglers' = stragglers + Cardinality(InStore)
    /\ cleared' = {} /\ pending' = {}
    /\ task'  = [i \in DOMAIN rows |-> "none"]
    /\ reply' = [i \in DOMAIN rows |-> NoReply]
    /\ stamp' = [i \in DOMAIN rows |-> 0]
    /\ heard' = [i \in DOMAIN rows |-> "unread"]
    /\ result' = <<>>
    /\ UNCHANGED free

(* An eligibility read of every row; one that raises denies its row, and   *)
(* an interface the exchange does not speak denies them all.               *)
Gate ==
    /\ phase = "gate"
    /\ cleared' \in SUBSET Rows
    /\ pending' = {i \in cleared' : roster[i] \in Endpoint}
    /\ phase' = "submit"
    /\ UNCHANGED <<roster, elapsed, slots, workers, heard, result>>

(* The call's own cap is reached, or no worker of the process is free.     *)
NoMore == Cardinality(Dialled) >= MaxWorkers \/ free = 0

Submit(i) ==
    /\ phase = "submit" /\ ~NoMore
    /\ i \in pending /\ \A j \in pending : i <= j
    /\ free' = free - 1
    /\ task' = [task EXCEPT ![i] = "asking"]
    /\ pending' = pending \ {i}
    /\ UNCHANGED <<phase, elapsed, stragglers, gated, reply, stamp, heard, result>>

(* Rows that are still pending are not asked.                              *)
Submitted ==
    /\ phase = "submit" /\ (pending = {} \/ NoMore)
    /\ phase' = "wait"
    /\ UNCHANGED <<elapsed, slots, gated, pending, workers, heard, result>>

(* wait returns: every future is done, or the window has shut.             *)
WaitForAll == \A i \in Dialled : task[i] = "done"  \* mutant: no timeout

WaitOver == elapsed >= Window \/ \A i \in Dialled : task[i] = "done"

Wait ==
    /\ phase = "wait" /\ WaitOver
    /\ phase' = "read"
    /\ UNCHANGED <<elapsed, slots, gated, pending, workers, heard, result>>

(* The futures in turn: one that is not done by now is abandoned, and one  *)
(* that raised or came back with None leaves no response.                  *)
Unread == {i \in Dialled : heard[i] = "unread"}

FutureOrNothing(i) ==  \* mutant: an abandoned future leaves no trace
    IF task[i] # "done" \/ reply[i] \in {"silent", "error"}
    THEN "nothing" ELSE reply[i]

Future(i) ==
    IF task[i] # "done" THEN "timed_out"
    ELSE IF reply[i] \in {"silent", "error"} THEN "nothing" ELSE reply[i]

Read(i) ==
    /\ phase = "read" /\ i \in Unread /\ \A j \in Unread : i <= j
    /\ heard' = [heard EXCEPT ![i] = Future(i)]
    /\ UNCHANGED <<phase, elapsed, slots, gated, pending, workers, result>>

-----------------------------------------------------------------------------
(* A bid that arrived, and before the close.                               *)
Arrived(i) == heard[i] \in {"offer", "walled"}
AnyTime(i) == Arrived(i)  \* mutant: the arrival is not judged

OnTime(i)  == Arrived(i) /\ stamp[i] <= Window

(* _unusable_because: the marker the fan-out minted for the row, a         *)
(* refusal, or a bid stamped past the close.                               *)
Unusable(i) ==
    IF i \in pending THEN "not_asked" ELSE IF Arrived(i) THEN "late" ELSE heard[i]

(* collect_bids: a store's first on-time answer stands for all its rows,   *)
(* and without one the first reason there is.                              *)
Verdict(i) ==
    LET same   == {j \in Askable : roster[j] = roster[i]}
        good   == {j \in same : OnTime(j)}
        faults == {j \in same : j \in pending \/ heard[j] # "nothing"}
        First(rows) == CHOOSE j \in rows : \A k \in rows : j <= k
    IN  IF same = {} THEN "no_agent"
        ELSE IF good # {} THEN heard[First(good)]
        ELSE IF faults # {} THEN Unusable(First(faults))
        ELSE "no_response"

Collect ==
    /\ phase = "read" /\ Unread = {}
    /\ result' = [i \in cleared |-> Verdict(i)]
    /\ phase' = "closed"
    /\ UNCHANGED <<elapsed, slots, gated, pending, workers, heard>>

-----------------------------------------------------------------------------
(* A store comes back, in its own time; the worker stamps what it brings   *)
(* and gives its slot back, whatever that is.                              *)
GivesBackUnlessRaised(r) == IF r = "error" THEN 0 ELSE 1  \* mutant: no finally
GivesBackTwice(r) == IF r = "error" THEN 2 ELSE 1  \* mutant: in finally and handler

GivesBack(r) == 1

Answer(i, r) ==
    /\ task[i] = "asking"
    /\ task'  = [task EXCEPT ![i] = "answered"]
    /\ reply' = [reply EXCEPT ![i] = r]
    /\ stamp' = [stamp EXCEPT ![i] = elapsed]
    /\ free'  = free + GivesBack(r)
    /\ UNCHANGED <<phase, elapsed, stragglers, gated, pending, heard, result>>

(* The executor sets the future's result once the task has returned.       *)
Finish(i) ==
    /\ task[i] = "answered"
    /\ task' = [task EXCEPT ![i] = "done"]
    /\ UNCHANGED <<phase, elapsed, slots, gated, pending, reply, stamp, heard, result>>

(* A straggler comes back to an auction that is over: nobody reads it.     *)
Straggle ==
    /\ stragglers > 0
    /\ \E r \in Replies : free' = free + GivesBack(r)
    /\ stragglers' = stragglers - 1
    /\ UNCHANGED <<phase, elapsed, gated, pending, workers, heard, result>>

(* One tick past the window, the clock has nothing more to tell.           *)
Tick ==
    /\ phase # "closed" /\ elapsed <= Window
    /\ elapsed' = elapsed + 1
    /\ UNCHANGED <<phase, slots, gated, pending, workers, heard, result>>

-----------------------------------------------------------------------------
Init ==
    /\ phase = "closed" /\ roster = <<>> /\ elapsed = 0
    /\ free = MaxWorkers /\ stragglers = 0
    /\ cleared = {} /\ pending = {}
    /\ task = <<>> /\ reply = <<>> /\ stamp = <<>> /\ heard = <<>>
    /\ result = <<>>

Serve ==
    \/ Gate \/ Submitted \/ Wait \/ Collect
    \/ \E i \in Rows : Submit(i) \/ Read(i)

Answered(i) == \E r \in Replies : Answer(i, r)

Next ==
    \/ \E rows \in Rosters : Start(rows)
    \/ Serve
    \/ \E i \in Rows : Answered(i) \/ Finish(i)
    \/ Straggle
    \/ Tick

(* The event loop, the clock and an executor thread that has its answer go *)
(* on.  Nothing is asked of the stores: one may never answer.              *)
Fairness ==
    /\ WF_vars(Serve)
    /\ WF_vars(Tick)
    /\ WF_vars(\E i \in Rows : Finish(i))

Spec == Init /\ [][Next]_vars /\ Fairness

-----------------------------------------------------------------------------
TypeOK ==
    /\ phase \in {"gate", "submit", "wait", "read", "closed"}
    /\ roster \in Rosters \cup {<<>>} /\ elapsed \in 0..Window + 1
    /\ free \in 0..MaxWorkers /\ stragglers \in 0..MaxWorkers
    /\ cleared \subseteq Rows /\ pending \subseteq cleared
    /\ task \in [Rows -> {"none", "asking", "answered", "done"}]
    /\ reply \in [Rows -> Replies \cup {NoReply}]
    /\ stamp \in [Rows -> 0..Window + 1]
    /\ heard \in [Rows -> Replies \cup {"unread", "timed_out", "nothing"}]
    /\ DOMAIN result = IF phase = "closed" THEN cleared ELSE {}

(* BoundedFanOutPool: each of its workers is free, inside a store of this  *)
(* auction, or inside one that an earlier auction gave up on; no slot is   *)
(* lost or given back twice, over any number of auctions.                  *)
SlotsAccounted == free + Cardinality(InStore) + stragglers = MaxWorkers

(* What the auction says of a store, over its rows, its stamps and the     *)
(* race between the end of the wait and the reading of the futures: a bid  *)
(* is judged on its merits only if the store made it inside the window; a  *)
(* store is called silent only if it came back with nothing each time it   *)
(* was dialled, and was dialled for each of its rows; and only one that    *)
(* was not dialled for all of them is said not to have been asked.         *)
VerdictsTrue ==
    \A i \in DOMAIN result :
        LET same == {j \in cleared : roster[j] = roster[i]}
        IN  /\ result[i] \in {"offer", "walled"} =>
                   \E j \in same : reply[j] = result[i] /\ stamp[j] <= Window
            /\ result[i] = "no_response" =>
                   \A j \in same : reply[j] \in {"silent", "error"}
            /\ result[i] = "not_asked" => \E j \in same : j \notin Dialled

(* R10's hard timeout: an auction the loop has taken up ends, though the   *)
(* stores it asked may never answer.                                       *)
HardTimeout == phase = "gate" ~> phase = "closed"

(* The pool's residual risk and its cure: if a store that was dialled      *)
(* comes back in the end, which the solicitor's wall-clock limit sees to,  *)
(* an exhausted pool never stays exhausted.                                *)
StoresComeBack ==
    /\ \A i \in 1..MaxWorkers + 1 : WF_vars(i \in Rows /\ Answered(i))
    /\ WF_vars(Straggle)

CapacityReturns == StoresComeBack => (free = 0 ~> free > 0)
=============================================================================
