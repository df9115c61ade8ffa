----------------------------- MODULE ExternalBids -----------------------------
(***************************************************************************)
(* The signed door for external bids and the verification queue behind it: *)
(* receive_bid from its freshness gate on, the replicas' own NonceStores,  *)
(* the queue they share in Redis, and the drain an admission sets off.     *)
(*                                                                         *)
(* The handler never awaits once it has read the body, so a replica is at  *)
(* one submission at a time, and judging it up to the nonce is one step.   *)
(* Each Redis command is a step; any of them can raise, and one that       *)
(* raises may have taken effect.  A submission refused before the nonce    *)
(* (signature, boundary, blacklist) changes nothing and is left out.       *)
(***************************************************************************)
EXTENDS Integers, Sequences, FiniteSets

CONSTANTS
    Replicas,        \* processes that serve the door
    Submissions,     \* the signed bids, each with a nonce of its own
    Issued,          \* when each says it was issued
    Deadline,        \* when its auction closes, or NoDeadline
    NoDeadline,
    Window,          \* freshness_window_seconds
    NonceCeiling,    \* MAX_TRACKED_NONCES
    QueueCeiling,    \* MAX_QUEUED_WORK_ITEMS
    Batch,           \* DRAIN_BATCH_SIZE
    MaxTime,         \* bound on the clock
    MaxFailures      \* bound on the restarts and the calls that raise

ASSUME ReplicaAssumption == Replicas # {} /\ IsFiniteSet(Replicas)
ASSUME TermsAssumption   ==
    /\ NoDeadline \notin Nat
    /\ Issued \in [Submissions -> Nat]
    /\ Deadline \in [Submissions -> Nat \cup {NoDeadline}]
ASSUME BoundAssumption   ==
    /\ Window \in Nat /\ MaxTime \in Nat /\ MaxFailures \in Nat
    /\ NonceCeiling \in Nat \ {0} /\ QueueCeiling \in Nat \ {0}
    /\ Batch \in Nat \ {0}

Nobody == "nobody"  \* no submission in hand

VARIABLES
    now,
    queue,     \* the Redis list of work items
    spent,     \* each replica's NonceStore
    at,        \* where each replica's handler is
    item,      \* the submission it has in hand
    from,      \* and how it came by it: the door, or a drain that puts it back
    left,      \* the items its drain may still take
    failures,  \* restarts and calls that raised, to bound them
    passed,    \* history: the submissions past gate 6 since the replica started
    owed,      \* history: items the door has put in the queue, less those verified
    mishaps    \* history: crashes, calls and put-backs that cost an item

door    == <<spent, passed>>
history == <<owed, mishaps>>
vars    == <<now, queue, door, at, item, from, left, failures, history>>

-----------------------------------------------------------------------------
(* Gates 4a and 4b: recent on either side of now, and not after the close. *)
Fresh(s) == now - Issued[s] <= Window /\ Issued[s] - now <= Window

Open(s) == Deadline[s] # NoDeadline => now <= Deadline[s]

(* _nonce_retention                                                        *)
Retention(s) == IF Deadline[s] # NoDeadline
                THEN Deadline[s] ELSE Issued[s] + Window

KeptTooBriefly(r) == {s \in spent[r] : now < Retention(s)}  \* mutant: <=

(* purge_expired: what is still remembered now.                            *)
Kept(r) == {s \in spent[r] : now <= Retention(s)}

(* An item is out of the queue and not yet verified or put back.           *)
Holding(r) == \/ at[r] = "verify"
              \/ at[r] \in {"depth", "push"} /\ from[r] # "door"

(* The handler goes on with nothing in hand.                               *)
Go(r, place, turns) ==
    /\ at' = [at EXCEPT ![r] = place]
    /\ item' = [item EXCEPT ![r] = Nobody]
    /\ from' = [from EXCEPT ![r] = "door"]
    /\ left' = [left EXCEPT ![r] = turns]

Rest(r) == Go(r, "idle", 0)
GoOn(r) == Go(r, "pop", left[r])

-----------------------------------------------------------------------------
(* The nonce is unspent and there is room to remember it.                  *)
Spend(r, s) ==
    /\ at[r] = "idle" /\ Fresh(s) /\ Open(s)
    /\ s \notin Kept(r) /\ Cardinality(Kept(r)) < NonceCeiling
    /\ spent' = [spent EXCEPT ![r] = Kept(r) \cup {s}]
    /\ passed' = [passed EXCEPT ![r] = @ \cup {s}]
    /\ at' = [at EXCEPT ![r] = "depth"]
    /\ item' = [item EXCEPT ![r] = s]
    /\ UNCHANGED <<now, queue, from, left, failures, history>>

(* replayed_nonce, or replay_memory_exhausted.  The sweep has happened.    *)
RefuseNonce(r, s) ==
    /\ at[r] = "idle" /\ Fresh(s) /\ Open(s)
    /\ s \in Kept(r) \/ Cardinality(Kept(r)) >= NonceCeiling
    /\ spent' = [spent EXCEPT ![r] = Kept(r)]
    /\ UNCHANGED <<now, queue, passed, at, item, from, left, failures, history>>

-----------------------------------------------------------------------------
(* enqueue has answered: the door drains, a drain goes on or stops.        *)
PutBack(r) ==
    \/ from[r] = "door" /\ Go(r, "pop", Batch)
    \/ from[r] = "deferred" /\ GoOn(r)
    \/ from[r] = "fault" /\ Rest(r)

(* enqueue has raised: the door refuses, and the nonce stays spent; a      *)
(* drain swallows it and goes on or stops without the item.                *)
NotPutBack(r) == IF from[r] = "deferred" THEN GoOn(r) ELSE Rest(r)

(* A call raises, and is not made again.                                   *)
Fails == failures < MaxFailures /\ failures' = failures + 1

Losing(r) == mishaps' = mishaps + (IF Holding(r) THEN 1 ELSE 0)

DepthPastCeiling(r) ==  \* mutant: > for >=
    /\ at[r] = "depth" /\ Len(queue) <= QueueCeiling
    /\ at' = [at EXCEPT ![r] = "push"]
    /\ UNCHANGED <<now, queue, door, item, from, left, failures, history>>

(* LLEN: below the ceiling the RPUSH follows.                              *)
Depth(r) ==
    /\ at[r] = "depth" /\ Len(queue) < QueueCeiling
    /\ at' = [at EXCEPT ![r] = "push"]
    /\ UNCHANGED <<now, queue, door, item, from, left, failures, history>>

(* VerificationQueueFull                                                   *)
Full(r) ==
    /\ at[r] = "depth" /\ Len(queue) >= QueueCeiling
    /\ NotPutBack(r) /\ Losing(r)
    /\ UNCHANGED <<now, queue, door, failures, owed>>

(* The LLEN or the RPUSH raises, and nothing is appended.                  *)
EnqueueFails(r) ==
    /\ at[r] \in {"depth", "push"}
    /\ Fails /\ NotPutBack(r) /\ Losing(r)
    /\ UNCHANGED <<now, queue, door, owed>>

(* The RPUSH lands; its reply may be lost.                                 *)
Push(r) ==
    /\ at[r] = "push"
    /\ queue' = Append(queue, item[r])
    /\ owed' = owed + (IF from[r] = "door" THEN 1 ELSE 0)
    /\ \/ PutBack(r) /\ UNCHANGED failures
       \/ NotPutBack(r) /\ Fails
    /\ UNCHANGED <<now, door, mishaps>>

-----------------------------------------------------------------------------
PopOnceMore(r) ==  \* mutant: a batch of one item too many
    /\ at[r] = "pop" /\ left[r] >= 0 /\ queue # <<>>
    /\ queue' = Tail(queue)
    /\ left' = [left EXCEPT ![r] = @ - 1]
    /\ at' = [at EXCEPT ![r] = "verify"]
    /\ item' = [item EXCEPT ![r] = Head(queue)]
    /\ UNCHANGED <<now, door, from, failures, history>>

(* LPOP.                                                                   *)
Pop(r) ==
    /\ at[r] = "pop" /\ left[r] > 0 /\ queue # <<>>
    /\ queue' = Tail(queue)
    /\ left' = [left EXCEPT ![r] = @ - 1]
    /\ at' = [at EXCEPT ![r] = "verify"]
    /\ item' = [item EXCEPT ![r] = Head(queue)]
    /\ UNCHANGED <<now, door, from, failures, history>>

(* The LPOP took the item and its reply was lost: queue_unreadable.        *)
PopLost(r) ==
    /\ at[r] = "pop" /\ left[r] > 0 /\ queue # <<>>
    /\ queue' = Tail(queue)
    /\ Fails /\ mishaps' = mishaps + 1
    /\ Rest(r)
    /\ UNCHANGED <<now, door, owed>>

(* The batch or the queue is exhausted, or the drain is not wired or       *)
(* cannot read the queue.                                                  *)
StopDraining(r) ==
    /\ at[r] = "pop"
    /\ Rest(r)
    /\ UNCHANGED <<now, queue, door, failures, history>>

(* verify_work_item announced its verdict.                                 *)
Verify(r) ==
    /\ at[r] = "verify"
    /\ owed' = owed - 1
    /\ GoOn(r)
    /\ UNCHANGED <<now, queue, door, failures, mishaps>>

DeferDropping(r) ==  \* mutant: a store without a snapshot is skipped
    /\ at[r] = "verify"
    /\ GoOn(r)
    /\ UNCHANGED <<now, queue, door, failures, history>>

(* No snapshot of the store ("deferred"), or the verifier raised           *)
(* ("fault"): _requeue puts the item back at the tail.                     *)
Defer(r) ==
    /\ at[r] = "verify"
    /\ at' = [at EXCEPT ![r] = "depth"]
    /\ \E reason \in {"deferred", "fault"} : from' = [from EXCEPT ![r] = reason]
    /\ UNCHANGED <<now, queue, door, item, left, failures, history>>

-----------------------------------------------------------------------------
(* A replica is restarted, and its NonceStore starts empty.                *)
Restart(r) ==
    /\ Fails
    /\ spent' = [spent EXCEPT ![r] = {}]
    /\ passed' = [passed EXCEPT ![r] = {}]
    /\ Losing(r) /\ Rest(r)
    /\ UNCHANGED <<now, queue, owed>>

Tick ==
    /\ now < MaxTime
    /\ now' = now + 1
    /\ UNCHANGED <<queue, door, at, item, from, left, failures, history>>

Init ==
    /\ now = 0 /\ queue = <<>>
    /\ spent = [r \in Replicas |-> {}]
    /\ passed = [r \in Replicas |-> {}]
    /\ at = [r \in Replicas |-> "idle"]
    /\ item = [r \in Replicas |-> Nobody]
    /\ from = [r \in Replicas |-> "door"]
    /\ left = [r \in Replicas |-> 0]
    /\ failures = 0 /\ owed = 0 /\ mishaps = 0

Next ==
    \/ Tick
    \/ \E r \in Replicas, s \in Submissions : Spend(r, s) \/ RefuseNonce(r, s)
    \/ \E r \in Replicas :
          \/ Depth(r) \/ Full(r) \/ EnqueueFails(r) \/ Push(r)
          \/ Pop(r) \/ PopLost(r) \/ StopDraining(r)
          \/ Verify(r) \/ Defer(r)
          \/ Restart(r)

Spec == Init /\ [][Next]_vars

-----------------------------------------------------------------------------
(* The state's types; the room for what a drain may still take is one batch. *)
TypeOK ==
    /\ now \in 0..MaxTime /\ failures \in 0..MaxFailures
    /\ queue \in Seq(Submissions)
    /\ spent \in [Replicas -> SUBSET Submissions]
    /\ passed \in [Replicas -> SUBSET Submissions]
    /\ at \in [Replicas -> {"idle", "depth", "push", "pop", "verify"}]
    /\ item \in [Replicas -> Submissions \cup {Nobody}]
    /\ from \in [Replicas -> {"door", "deferred", "fault"}]
    /\ left \in [Replicas -> 0..Batch]
    /\ owed \in Int /\ mishaps \in Nat

Waiting == {r \in Replicas : at[r] = "push"}

(* The ceiling is read before the append and not with it, so it can be     *)
(* passed, but by fewer items than there are replicas, counting the        *)
(* appends still to come: enqueue says the excess is bounded by the        *)
(* concurrent submissions, and the drains' put-backs go the same way.      *)
QueueNearCeiling ==
    Len(queue) + Cardinality(Waiting) <= QueueCeiling + Cardinality(Replicas) - 1

(* Between two restarts a replica admits a signed submission once, however *)
(* often it is delivered: a nonce is forgotten only when an earlier gate   *)
(* already refuses its replay (_nonce_retention, purge_expired).           *)
NoReplay ==
    [][\A r \in Replicas : at[r] = "idle" /\ at'[r] = "depth"
                               => item'[r] \notin passed[r]]_vars

(* A work item the door queued is waiting, in a drain's hands or verified; *)
(* one goes missing only by a crash, a failed call or a refused put-back,  *)
(* and none is verified twice (the rules of draining.py).                  *)
NothingDropped ==
    LET found == Len(queue) + Cardinality({r \in Replicas : Holding(r)})
    IN  found <= owed /\ owed <= found + mishaps

(* A submission the queue refuses is refused with its nonce intact         *)
(* (verification_queue.py, of a full queue).                               *)
NonceIntact ==
    [][\A r \in Replicas :
          at[r] = "depth" /\ from[r] = "door" /\ at'[r] = "idle"
              => item[r] \notin spent'[r]]_vars
=============================================================================
