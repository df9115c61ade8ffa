-------------------------------- MODULE Chain --------------------------------
(***************************************************************************)
(* The trust ledger's hash chain: append_event under the transaction-wide  *)
(* advisory lock, PostgresEventStore's reading of what the database        *)
(* refuses, the table's own backstops against a writer that skips the      *)
(* library, and the paged walk that verifies the chain against its anchor. *)
(*                                                                         *)
(* SHA-256 over canonical JSON behind the previous digest is taken to be   *)
(* injective: a digest is the sequence of the contents it commits to.      *)
(***************************************************************************)
EXTENDS Integers, Sequences, FiniteSets, SequencesExt, Enumeration

CONSTANTS
    Events,     \* contents, among them two of one event_id
    IdOf(_),    \* the event_id of a content, the idempotency_key of its row
    Frail,      \* contents that jsonb does not give back as they were written
    Library,    \* writers that append through append_event
    Reckless,   \* writers that seal their own rows and take no lock
    Chunk,      \* LEDGER_SCAN_CHUNK
    MaxSends,   \* bound: appends attempted
    MaxOutages  \* bound: connections that die under a library writer

ASSUME WritersAssumption == Library \cap Reckless = {} /\ Frail \subseteq Events
ASSUME ChunkAssumption == Chunk \in Nat \ {0}
ASSUME BoundsAssumption == MaxSends \in Nat /\ MaxOutages \in Nat

Writers == Library \cup Reckless
Genesis == <<>>
NoEvent == "no event"

Stages  == {"idle", "queued", "missed", "linked", "drawn", "guarded",
            "written", "found", "landed", "refused"}
Answers == {"inserted", "present", "conflict", "invalid", "forked", "unavailable"}

VARIABLES
    table,    \* the committed rows of commerce_events, by seq
    anchor,   \* the row of chain_head
    serial,   \* the sequence behind seq: never rolled back
    queue,    \* the chain lock: its holder, and who waits for it
    stage,    \* how far each writer's append has come
    body,     \* what it appends
    prev,     \* the prev_hash it has computed
    seq,      \* the seq its row has drawn
    sent,     \* appends so far
    told,     \* history: what senders of an event were answered
    firsts,   \* history: and how many of them "inserted"
    outages,
    walk      \* the verifier: its anchor, its cursor, what it read, its verdict

mine  == <<stage, body, prev, seq>>
heard == <<told, firsts>>
vars  == <<table, anchor, serial, queue, mine, sent, heard, outages, walk>>

-----------------------------------------------------------------------------
Rows == DOMAIN table

(* The tail: the highest seq there is.                                     *)
Highest(S) == CHOOSE n \in S : \A m \in S : m <= n
Head_(t) == IF DOMAIN t = {} THEN Genesis ELSE t[Highest(DOMAIN t)].hash

Holding(e) == {n \in Rows : IdOf(table[n].body) = IdOf(e)}

(* Leaving the transaction, committed or not, lets go of the lock.         *)
ReleaseNever(w) == queue  \* mutant: a session lock, not a transaction's

Release(w) == RemoveFirst(queue, w)

To(w, s) == stage' = [stage EXCEPT ![w] = s]

(* The append is over, and its locals with it.                              *)
Over(w) ==
    /\ To(w, "idle")
    /\ body' = [body EXCEPT ![w] = NoEvent] /\ prev' = [prev EXCEPT ![w] = Genesis]
    /\ seq' = [seq EXCEPT ![w] = 0]

Settle(w, answer) ==
    /\ Over(w)
    /\ IF w \in Library
       THEN /\ told' = told \cup {<<body[w], answer>>}
            /\ firsts' = IF answer = "inserted" THEN [firsts EXCEPT ![IdOf(body[w])] = @ + 1]
                         ELSE firsts
       ELSE UNCHANGED heard

-----------------------------------------------------------------------------
(* append: the transaction opens and asks for the lock.  A reckless writer *)
(* goes straight to the tail.                                              *)
Send(w, e) ==
    /\ stage[w] = "idle" /\ sent < MaxSends
    /\ w \in Reckless => e \notin Frail
    /\ body' = [body EXCEPT ![w] = e]
    /\ sent' = sent + 1
    /\ IF w \in Library THEN To(w, "queued") /\ queue' = Append(queue, w)
       ELSE To(w, "missed") /\ UNCHANGED queue
    /\ UNCHANGED <<table, anchor, serial, prev, seq, heard, outages, walk>>

NoLock(w) == TRUE  \* mutant: nobody waits

Holds(w) == queue # <<>> /\ Head(queue) = w

(* Under the lock, the row of the same idempotency key.                    *)
SameId(n, e) == TRUE  \* mutant: the content is not compared

SameEvent(n, e) == table[n].body = e

Lookup(w) ==
    /\ stage[w] = "queued" /\ Holds(w)
    /\ IF Holding(body[w]) = {} THEN To(w, "missed") /\ UNCHANGED queue
       ELSE /\ queue' = Release(w)
            /\ To(w, IF \E n \in Holding(body[w]) : SameEvent(n, body[w])
                     THEN "found" ELSE "refused")
    /\ UNCHANGED <<table, anchor, serial, body, prev, seq, sent, heard,
                   outages, walk>>

(* The tail as it is committed now, without FOR UPDATE.                    *)
Link(w) ==
    /\ stage[w] = "missed"
    /\ prev' = [prev EXCEPT ![w] = Head_(table)]
    /\ To(w, "linked")
    /\ UNCHANGED <<table, anchor, serial, queue, body, seq, sent, heard,
                   outages, walk>>

(* The insert: a seq is drawn for the row, then the BEFORE trigger runs.   *)
Draw(w) ==
    /\ stage[w] = "linked"
    /\ serial' = serial + 1 /\ seq' = [seq EXCEPT ![w] = serial + 1]
    /\ To(w, "drawn")
    /\ UNCHANGED <<table, anchor, queue, body, prev, sent, heard, outages,
                   walk>>

(* commerce_events_chain_guard.                                            *)
Guard(w) ==
    /\ stage[w] = "drawn"
    /\ IF prev[w] = Head_(table)
       THEN To(w, "guarded") /\ UNCHANGED <<queue, body, prev, seq, heard>>
       ELSE Settle(w, "forked") /\ queue' = Release(w)
    /\ UNCHANGED <<table, anchor, serial, sent, outages, walk>>

(* The unique indexes, idempotency_key before prev_hash.  A key of a row   *)
(* whose transaction is still open makes the insert wait for its outcome.  *)
SameKey(v, w) == IdOf(body[v]) = IdOf(body[w]) \/ prev[v] = prev[w]
Open(w) == {v \in Writers \ {w} : stage[v] = "written" /\ SameKey(v, w)}

NoBranchCheck(w) == FALSE  \* mutant: prev_hash is not unique
NoKeyCheck(w)    == {}     \* mutant: idempotency_key is not unique

Branches(w) == \E n \in Rows : table[n].prev = prev[w]
Taken(w)    == Holding(body[w])

Index(w) ==
    /\ stage[w] = "guarded" /\ Open(w) = {}
    /\ IF Taken(w) # {}
       THEN IF w \in Library   \* _append_on starts over
            THEN /\ To(w, "queued") /\ queue' = Append(Release(w), w)
                 /\ prev' = [prev EXCEPT ![w] = Genesis] /\ seq' = [seq EXCEPT ![w] = 0]
                 /\ UNCHANGED <<body, heard>>
            ELSE Settle(w, "conflict") /\ UNCHANGED queue
       ELSE IF Branches(w)
       THEN Settle(w, "forked") /\ queue' = Release(w)
       ELSE To(w, "written") /\ UNCHANGED <<queue, body, prev, seq, heard>>
    /\ UNCHANGED <<table, anchor, serial, sent, outages, walk>>

(* The row as RETURNING gives it back no longer hashes to its digest.      *)
NotRehashed(w) == FALSE  \* mutant

Renormalised(w) == body[w] \in Frail

Rehash(w) ==
    /\ stage[w] = "written" /\ Renormalised(w)
    /\ To(w, "refused") /\ queue' = Release(w)
    /\ UNCHANGED <<table, anchor, serial, body, prev, seq, sent, heard,
                   outages, walk>>

(* The row and the anchor its AFTER trigger advanced, in one commit.       *)
Commit(w) ==
    /\ stage[w] = "written" /\ ~Renormalised(w)
    /\ LET row == [body |-> body[w], prev |-> prev[w],
                   hash |-> Append(prev[w], body[w]), by |-> w]
       IN /\ table' = [n \in Rows \cup {seq[w]} |-> IF n = seq[w] THEN row ELSE table[n]]
          /\ anchor' = [head |-> row.hash, length |-> anchor.length + 1, last |-> seq[w]]
    /\ queue' = Release(w)
    /\ IF w \in Library THEN To(w, "landed") /\ UNCHANGED <<body, prev, seq>>
       ELSE Over(w)
    /\ UNCHANGED <<serial, sent, heard, outages, walk>>

(* The door's answer: append's last act is to read the anchor's length.    *)
Answer(w) ==
    /\ \/ stage[w] = "landed" /\ Settle(w, "inserted")
       \/ stage[w] = "found" /\ Settle(w, "present")
    /\ UNCHANGED <<table, anchor, serial, queue, sent, outages, walk>>

(* A LedgerError is a conflict if the id is there, an invalid event if not. *)
Refuse(w) ==
    /\ stage[w] = "refused"
    /\ Settle(w, IF Holding(body[w]) = {} THEN "invalid" ELSE "conflict")
    /\ UNCHANGED <<table, anchor, serial, queue, sent, outages, walk>>

-----------------------------------------------------------------------------
(* The connection dies: what is not committed is rolled back, and the      *)
(* caller hears 503 either way.                                            *)
Outage(w) ==
    /\ w \in Library /\ stage[w] # "idle" /\ outages < MaxOutages
    /\ outages' = outages + 1
    /\ Settle(w, "unavailable") /\ queue' = Release(w)
    /\ UNCHANGED <<table, anchor, serial, sent, walk>>

(* A reckless writer rolls back whenever it likes.                         *)
Rollback(w) ==
    /\ w \in Reckless /\ stage[w] # "idle"
    /\ Over(w)
    /\ UNCHANGED <<table, anchor, serial, queue, sent, heard, outages, walk>>

-----------------------------------------------------------------------------
(* _anchored_report: the anchor first, then the chain page by page, each   *)
(* page a statement of its own.                                            *)
StartWalk ==
    /\ walk.verdict # "walking"
    /\ walk' = [anchor |-> anchor, cursor |-> 0, read |-> <<>>, verdict |-> "walking"]
    /\ UNCHANGED <<table, anchor, serial, queue, mine, sent, heard, outages>>

Smallest(S) == {n \in S : Cardinality({m \in S : m < n}) < Chunk}

Window == Smallest({n \in Rows : n > walk.cursor})

DenseCursor(order) == walk.cursor + Len(order)  \* mutant: no holes in seq

Cursor(order) == IF order = <<>> THEN walk.cursor ELSE order[Len(order)]

Linked(rows) == \A i \in DOMAIN rows :
    rows[i].prev = (IF i = 1 THEN Genesis ELSE rows[i - 1].hash)
Sealed(rows) == \A i \in DOMAIN rows : rows[i].hash = Append(rows[i].prev, rows[i].body)

(* verify_chain's verdict on what was read, against the anchor.            *)
Report(rows) ==
    IF ~Linked(rows) THEN "broken_link"
    ELSE IF ~Sealed(rows) THEN "tampered"
    ELSE IF rows = <<>> /\ walk.anchor.length > 0 THEN "empty"
    ELSE IF Len(rows) # walk.anchor.length THEN "truncated"
    ELSE IF rows # <<>> /\ rows[Len(rows)].hash # walk.anchor.head THEN "head_mismatch"
    ELSE "ok"

OnePage(window) == TRUE  \* mutant: only the first window is read

LastPage(window) == Cardinality(window) < Chunk

Page ==
    /\ walk.verdict = "walking"
    /\ LET order == InOrder(Window)
           rows  == walk.read \o InTurn(table, Window)
       IN walk' = [walk EXCEPT
              !.cursor  = Cursor(order),
              !.read    = rows,
              !.verdict = IF LastPage(Window) THEN Report(rows) ELSE @]
    /\ UNCHANGED <<table, anchor, serial, queue, mine, sent, heard, outages>>

-----------------------------------------------------------------------------
Init ==
    /\ table = <<>> /\ anchor = [head |-> Genesis, length |-> 0, last |-> 0]
    /\ serial = 0 /\ queue = <<>> /\ sent = 0 /\ told = {} /\ outages = 0
    /\ firsts = [id \in {IdOf(e) : e \in Events} |-> 0]
    /\ stage = [w \in Writers |-> "idle"] /\ body = [w \in Writers |-> NoEvent]
    /\ prev = [w \in Writers |-> Genesis] /\ seq = [w \in Writers |-> 0]
    /\ walk = [anchor |-> anchor, cursor |-> 0, read |-> <<>>, verdict |-> "none"]

Step(w) ==
    \/ Lookup(w) \/ Link(w) \/ Draw(w) \/ Guard(w) \/ Index(w) \/ Rehash(w)
    \/ Commit(w) \/ Answer(w) \/ Refuse(w)

Next ==
    \/ \E w \in Writers : Step(w) \/ Outage(w) \/ Rollback(w) \/ \E e \in Events : Send(w, e)
    \/ StartWalk \/ Page

(* A library writer is a request being served; nothing is asked of the     *)
(* reckless, nor that anybody sends.                                       *)
Fairness == \A w \in Library : WF_vars(Step(w))

Spec == Init /\ [][Next]_vars /\ Fairness
-----------------------------------------------------------------------------
TypeOK ==
    /\ Rows \subseteq 1..serial /\ serial \in Nat
    /\ \A n \in Rows : table[n].body \in Events \ Frail /\ table[n].by \in Writers
    /\ anchor.length \in Nat /\ anchor.last \in 0..serial
    /\ queue \in Seq(Library)
    /\ stage \in [Writers -> Stages] /\ body \in [Writers -> Events \cup {NoEvent}]
    /\ prev \in [Writers -> Seq(Events)] /\ seq \in [Writers -> 0..serial]
    /\ sent \in 0..MaxSends
    /\ told \subseteq Events \X Answers /\ \A id \in DOMAIN firsts : firsts[id] \in 0..MaxSends
    /\ outages \in 0..MaxOutages
    /\ walk.verdict \in {"none", "walking", "ok", "truncated"} \cup
           {"broken_link", "tampered", "empty", "head_mismatch"}

(* The table up to a row.                                                  *)
Before(n) == [m \in {k \in Rows : k < n} |-> table[m]]

(* The chain is one chain, whoever writes and whatever rolls back: each    *)
(* row seals its content behind the row before it in seq order, and the    *)
(* anchor commits to exactly the rows there are.                           *)
ChainIntact ==
    /\ \A n \in Rows : /\ table[n].prev = Head_(Before(n))
                       /\ table[n].hash = Append(table[n].prev, table[n].body)
    /\ anchor = [head |-> Head_(table), length |-> Cardinality(Rows),
                 last |-> IF Rows = {} THEN 0 ELSE Highest(Rows)]

(* What makes paging on seq sound: a row that is still to be committed     *)
(* lies past every row that is, though seqs are drawn outside transactions *)
(* and by writers that take no lock; chain_head_guard's own refusal of a   *)
(* seq that is not past the last never fires.                              *)
CommitsInSeqOrder ==
    \A w \in Writers : stage[w] = "written" => \A n \in Rows : n < seq[w]

(* "a hole in the sequence steps over": the walk has read every committed  *)
(* row up to its cursor, in order, across pages, holes and appends.        *)
WalkMissesNothing ==
    walk.read = InTurn(table, {n \in Rows : n <= walk.cursor})

(* A verification that races appends accuses the ledger of one thing only, *)
(* "truncated", and only if an append did commit since it read the anchor. *)
VerdictTrue ==
    /\ walk.verdict \in {"none", "walking", "ok", "truncated"}
    /\ walk.verdict = "truncated" => anchor.length > walk.anchor.length

(* append's answers, against the table: what a caller is told was stored   *)
(* or was already there is there with the content it sent; a conflict      *)
(* means the id is there with another; and of all the deliveries of an id, *)
(* by any number of writers, one at most is told "inserted".               *)
AnswersTrue ==
    /\ \A e \in Events :
           LET stored == {table[n].body : n \in Holding(e)}
           IN  /\ <<e, "inserted">> \in told \/ <<e, "present">> \in told => stored = {e}
               /\ <<e, "conflict">> \in told => stored # {} /\ e \notin stored
    /\ \A id \in DOMAIN firsts : firsts[id] <= 1

(* The advisory lock serialises the library's writers: a fork is refused   *)
(* to one of them only when a writer outside the library got in between.   *)
ForkedByReckless ==
    (\E e \in Events : <<e, "forked">> \in told) => \E n \in Rows : table[n].by \in Reckless

(* The chain implements the promise made of it: what its head commits to   *)
(* is a log that grows at its end, one entry per event id.                 *)
Promise == INSTANCE EventLog WITH log <- Head_(table), Events <- Events, IdOf <- IdOf
IsEventLog == Promise!Spec

(* An append is answered: no refusal, restart or rollback leaves the lock  *)
(* or an index entry behind to stall the writers after it, given that      *)
(* transactions opened outside the library are not left open for ever.     *)
RecklessSettle == \A w \in Reckless : WF_vars(Step(w))

EveryAppendAnswered ==
    RecklessSettle => \A w \in Library : stage[w] # "idle" ~> stage[w] = "idle"
=============================================================================
