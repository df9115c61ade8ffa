# ProxyShop in TLA+

Specifications of the parts of ProxyShop where several actors, failures and
clocks meet: TLA+ modules translated from the source, TLC runs that check them
on small instances, and proofs that TLAPS checks for every instance. Paths in
this file are relative to the repository; `state.py` alone is
`apps/exchange/src/auction/state.py`.

    tlc -workers 2 -config AuctionRecord.cfg MCAuction      # and so on, see "Runs"
    tlapm AuctionProofs.tla                                 # likewise the other ...Proofs modules

## 1. The system

ProxyShop answers a shopper's request with an auction: the **exchange** solicits
bids from store agents, ranks them, and when the shopper accepts one it asks the
**merchant** service for a single-use discount code. Everything worth auditing
goes to the **trust** ledger, from which stores are scored. The **buyer** service
faces the shopper.

| component | state it keeps | operations | talks to |
|---|---|---|---|
| exchange: auction record (`auction/state.py`) | Redis `auction:{id}` with a TTL, `auction:{id}:reserved:{name}` with a TTL; or one process's bounded dictionaries | create, open, close, accept, expire; store load, save, reserve, release, absence | ledger sink |
| exchange: creation (`auction/routes.py`, `fanout.py`, `collect.py`) | bid book, a process-wide bounded thread pool | create the auction, solicit in parallel until a deadline, close, record the bids | store agents, auction record |
| exchange: acceptance (`accept/`) | the claim (a reservation named `accept`) | gate, claim, checkout, keep or give back the claim, stamp, file events, fold into the bandit | auction record, checkout, trust snapshot |
| exchange: checkout (`checkout/`) | none of its own | validate, mint, hand back a permalink or an orphan | merchant `POST /codes` |
| exchange: external bids (`external_bids/`, `packages/store-agent/src/external`) | nonce memory per process, verification queue in Redis | admit a signed bid, drain the queue after an admission | auction record, verifier |
| exchange: policy (`policy/`) | posteriors in Redis, a fallback in the process | record an outcome, sample | accept |
| exchange: ranking, retrieval, eligibility, reports | none that outlives a request | rank, filter, look up | graph, trust |
| trust: ledger (`apps/trust/src/ledger`) | hash-chained table | append, replay, verify | Postgres |
| trust: events, reconcile, scoring, snapshot | event tables, scores, blacklist | ingest, reconcile, score, publish a snapshot | ledger |
| trust: feedback and notify | bounded retry queue in the process | push a delta, retry, give up | store agents |
| merchant: codes (`apps/merchant/svc/src/codes`) | issued codes, redemptions | mint, redeem, expire | order webhooks |
| merchant: envelope, bidding | envelope versions, a kill switch | approve, activate, kill | mint |
| merchant: install, onboarding, collector, dashboard | tokens, forms | OAuth handshake, views | Shopify |
| buyer: auth, vault | pending links, sessions, pseudonyms | request a link, redeem, rotate, log out | mail |
| buyer: accept, feedback, livecheck, chat, pitch, ... | deferred live checks, conversation state | call the exchange, phrase the answer | exchange, LLM |
| store agent (`packages/store-agent/src`) | learning state, rings of played and credited auctions | bid, receive a trust event, credit an arm | trust |
| ingest (`services/ingest/src`) | schedule on disk, the graph | tick, refresh, persist | the web |
| verification, contracts, llm; stubs, simulator, front ends | none relevant | pure checks, schemas, views | |

### What is hard

* **Several replicas, one store, no transactions.** A transition is load,
  `SET NX`, load, `SET`, ledger: five calls between which other requests run.
  Its only lock is a reservation, which expires.
* **Two clocks.** A record's TTL is refreshed by each save; a reservation's is
  set once. Whether a reservation outlives what it protects is an argument over
  the order of calls, nowhere written down as one.
* **Money before the record.** The merchant mints before the auction is stamped:
  a crash, a refused stamp, a lost reply fall between the two.
* **Failures that may have happened.** A store or merchant call that raises may
  have taken effect.
* **Bounded memories.** The in-process store, its tombstones, the nonce memory,
  the queue, the fan-out pool, the retry queue and the rings of the store agent all evict or refuse.
* **Redelivery.** Signed bids, order webhooks, trust events and magic links
  come twice, late or out of order.

### What makes each part correct

* Auction record: it moves forward through its published states, is awarded once,
  and the append-only ledger is told the outcome the record has, once, after the
  close. A request that fails leaves nothing reserved that stands for nothing.
* Acceptance: one auction, one live code, for the bid the auction is accepted on.
* In-process store: bounded; its caps never hand one exit to two callers; what
  it says of an absent auction is true.
* External bids: a nonce is good for one admission, an admitted bid is verified or
  still queued, the queue's ceiling holds up to the concurrency.
* Creation: every row of the roster is accounted for by what its store did, by the
  deadline; no slot of the shared pool is lost, whatever the stores do.
* Trust ledger: one chain, each event once, in the order of its rows; a sender is
  told what became of its event; a verification that races appends does not accuse them.
* Trust ingest: one observation row an event, and its store told once.
* Redemption: a code is redeemed once, also when its webhook is redelivered.
* Magic links: one session per link, none from a superseded link, and a refused
  redemption costs no link.
* Notify and credit: a delta is delivered or counted lost; an outcome is credited once.
* Scheduler: a refresh is missed never, repeated only after a crash.

`PROJECT.json` lists the hazards one by one, each at its line, with the property
that watches it or the reason none does yet.

## 2. Modules

    AuctionLifecycle   what outsiders are promised of one auction
      ^ implemented by (Lifecycle == INSTANCE ... WITH state <- record.state, winner <- record.bid)
    AuctionStore       what is promised of any store of records and reservations
      ^ implemented by (Contract == INSTANCE ... WITH live <- ..., held <- ...) the next one and AuctionMemory
    Auction            one auction, all its requests, the shared store       MCAuction
      ^ extended by
    AuctionProofs      its theorems
    AuctionMemory      many auctions in one process's bounded store          MCAuctionMemory
      ^ extended by
    AuctionMemoryProofs its theorems
    Solicitation       the fan-out of one process's auctions over its pool   MCSolicitation
      ^ extended by
    SolicitationProofs its theorems
    ExternalBids       the signed door, nonces, queue and drain              MCExternalBids
      ^ extended by
    ExternalBidsProofs its theorems
    EventLog           what the trust ledger promises its senders
      ^ implemented by (Promise == INSTANCE ... WITH log <- Head_(table))
    Chain              the hash-chained table, its writers, its verifier     MCChain
      ^ extended by
    ChainProofs        its theorems
    Ingest             POST /events over EventLog: projection, notification  MCIngest
      ^ extended by
    IngestProofs       its theorems
    MagicLink          links, sessions and pseudonyms of the buyer service   MCMagicLink
      ^ extended by
    MagicLinkProofs    its theorems
    Enumeration        sets of numbers in their order, for Chain's pages and AuctionMemory's tables
      ^ extended by
    EnumerationProofs  lemmas for ChainProofs and AuctionMemoryProofs

`Auction` and `AuctionMemory` share the store between them: keys of different
auctions meet only where one process's bounds make them, so `Auction` takes one
auction with an unbounded store, and `AuctionMemory` takes many auctions under
the bounds, with callers left free to call anything in any order. That both are the same
store to their callers is what `AuctionStore` is for: it is the protocol class of `state.py` with what
its docstrings say of it, and each of the two is proved to implement it. `Solicitation`
is what happens inside a creation, between `Auction`'s create and its close.
`Ingest` is composed with the ledger through its promise: its appends are
`EventLog`'s `Append1`, and that `Chain` keeps the promise is both checked and proved.

### Auction

A request is a process with a `pc`; each action is one call on the store, the
merchant or the ledger, together with the code up to the next one.

| in the module | in the code |
|---|---|
| `record` with `until` | `auction:{id}`: state and `accepted_bid_ref`, and its TTL |
| `holds[n]` | the reservation `n`: `create`, `accept`, or `exit:{state}` |
| `source`, `target`, `bid`, `seen` | locals of `_transition` and `accept_bid` |
| `codes`, `orphans` | live codes at merchants; those whose checkout was refused after the mint |
| `filed` | what the ledger sink was handed |
| `CreateReserve`, `CreateSave`, `CreateFails` | `AuctionStateMachine.create` |
| `Read`, `ReserveExit`, `Reread`, `SaveRecord`, `FileMove` and their refusals | `_transition` |
| `SaveFails`, `GiveBack`, `Delete` | the `except BaseException` and `release`'s GET, then DEL |
| `AcceptStart`, `GatePassed`, `Claim`, `Mint...`, `Bridge` | `accept_bid`, `accept_offer`, `accept`, the checkout |
| `ExpireStart` | `expire`, which no service calls today: a caller is assumed |
| `Die` | a crash, or a call that raises where the code gives nothing back |

`holds[n].by` is ghost state: the code remembers a token, not the caller;
`release` compares tokens in the model too. Two constants name what the code
cannot promise: `UnreportedMints` (a merchant that minted and whose answer did not
arrive) and `StraddlingReads` (a record that lapses between an accept's read
and its claim). For the second to cost a live code, the first accept's claim must lapse
before the second claims. The record ends a TTL after its last save and the claim a TTL after it was
taken, so when the first accept died before its stamp, the pause needed at that place is
only the distance between the two: as short as the claim was prompt.

### AuctionStore

`live` and `held` are the records and reservations that have not lapsed, each with its end; the store in Redis
and the dictionaries in memory both come down to these two sets. `Forgetful` says whether the store has a cap.
A store with a cap may lose more than time takes: a save that adds a record may cost one other record, with its reservations;
a save that rewrites one costs none; and a reservation may cost one that has no record behind it. A store without a cap
may do none of that. `Reserve` is won by one, `Release` takes the reservation that carries the token it names, in one step.

### AuctionMemory

Methods run under one lock, so a call is a step. `records`, `reservations` and
`gone` are sequences, oldest first, as the ordered dictionaries of the code are;
ages are compared with `>=` or `<` as in the code. `Pop` is an ordered dictionary's
`pop` of a set of places, `NextOf` the `next(generator, default)` that picks an eviction's victim and
the backstop's orphan, `Forget` the ring being written. `fate` is ghost state: how an auction
really left the table, against which `Absence` is judged. The number of `Names` stands for
`RESERVATION_NAMES_PER_AUCTION`, which the ceiling of reservations is a multiple of.

### Solicitation

`create_auction` blocks its event loop while it fans out, so a process is at one
auction at a time; what its auctions share is the thread pool. A row is a place of the roster,
because `collect_bids` answers per row and a store may have several.

| in the module | in the code |
|---|---|
| `phase`, `pending`, `heard`, `result` | locals of `solicit_bids`, `parallel_fan_out` and `collect_bids` |
| `free` | the semaphore of `BoundedFanOutPool` |
| `task`, `reply`, `stamp` | a row's worker thread, what its store answered, `received_at` |
| `stragglers` | workers of earlier auctions that are still inside a store |
| `Gate` | the eligibility read of each row, and which rows have an endpoint |
| `Submit`, `Submitted` | the submission loop with its two reasons to stop |
| `Wait`, `Read` | `wait` with its timeout, and then the futures, one at a time: a store can answer between the two |
| `Answer`, `Finish` | the worker stamps and gives its slot back, and only then is its future done |
| `Collect`, `Verdict`, `Unusable` | `collect_bids`, `_unusable_because` |
| `Straggle` | a worker nobody waits for any more comes back |

### Chain

A writer is an `append_event` in its own transaction, with one action per
statement: another writer's commit can fall between any two. `Library` writers
take the advisory lock; `Reckless` ones are what the triggers and unique indexes
are there for: they compute a seal of their own from a tail they read, insert, and commit or roll back
when they like. A digest is the sequence of contents it commits to: SHA-256 over canonical JSON is taken
to be injective, and nothing else is assumed of it.

| in the module | in the code |
|---|---|
| `table`, `serial` | `commerce_events` by `seq`, and the sequence behind `seq`, which a rollback does not rewind |
| `anchor` | the row of `chain_head` |
| `queue` | `pg_advisory_xact_lock`: its holder first |
| `Lookup`, `Link`, `Draw`, `Guard`, `Index`, `Rehash`, `Commit` | the idempotency lookup, the tail, the insert's default, its BEFORE trigger, its unique indexes, the check of what RETURNING gave back, the commit with the AFTER trigger's anchor |
| `Answer`, `Refuse`, `told`, `firsts` | what `PostgresEventStore` makes of the outcome, and what senders were told so far (history) |
| `Outage`, `Rollback` | a connection that dies; a writer that gives up |
| `StartWalk`, `Page`, `Report` | the anchored verification: the anchor, then pages of `LEDGER_SCAN_CHUNK`, each a statement of its own, then `verify_chain` |

### Ingest

A thread of the door's pool serves one request; `stage[t]` is where it is. The
append is one step of `EventLog`, with the answers the store can give. Every event carries an
observation about a store whose agent has an address: the others end earlier
and share nothing.

| in the module | in the code |
|---|---|
| `FindRow`, `WriteRow`, `SkipRow` | `_project`: the observation lock, the lookup by `seq`, the insert, and every failure in between |
| `Push`, `PostInline`, `Landed`, `QueueOrLose`, `Lose`, `StartWorker` | `announce_trust_event` and `StoreAgentSink`: each place where it takes its lock is a step |
| `Pop`, `Repost` | its retry worker; the backoff is untimed |
| `Restart` | a crash: the log and the rows stay, the queue and the counters go |
| `agent`, `unheard`, `entered` | history: what the store's agent took, which of its answers were lost, what the sink was handed |

### ExternalBids

The handler does not await once it has read the body, so a replica has one submission in hand;
replicas interleave at each Redis command. Gates before freshness change
nothing and are left out. `passed`, `owed` and `mishaps` are history variables.
Each replica has its own nonce memory, lost at its restart (the documented
durable one is not bound).

### MagicLink

One process, whose thread pool runs requests at once: `job[t]` is where a
thread is and what it has read. A link is its issue number and a pseudonym its
row, so `owner` is both `_sequence` and the addresses, and the length of `rows`
the next pseudonym.

| in the module | in the code |
|---|---|
| `Ask`, then `Issue` or `Throttle` | `request_login`: the clock is read before the lock is taken |
| `Redeem`, then `Consume` or `RefuseLink` | `redeem` up to the end of its first critical section |
| `Retire`, `Record`, `VaultFails` | `vault.issue`: two statements, in memory and in Postgres, and no transaction |
| `Admit`, `Redraw`, `RefuseRetired`, `AdmitFails` | `SessionStore.admit` and the loop of `redeem` around it |
| `BeginSweep` ... `DropFails` | `_forget_expired`: an iteration, then deletions, without a lock |
| `BelowCeiling`, `Exhausted`, `Insert` | the rest of `open` |
| `Rearm` | the handler of `redeem` that gives the link back |
| `SignOut`, `LookUp` | `close`, and `get` of a session that has run out |

The iteration fails as a CPython dictionary's does: when its size has changed
by the next element, which it can as soon as there is one, because each element
calls `expired`. `opened` and `broken` are history variables. The rows stand in
insertion order, as in memory; Postgres orders them by `issued_at`, which is the
same unless two draws for one buyer read the clock in the opposite order.
`Straddling` lets the clock tick between a request's reading and its critical
section.

## 3. Runs

| run | instance | shows | distinct states |
|---|---|---|---|
| `AuctionRecord` | a creator, 2 buyers, 1 sweeper, an offer and a list-price fallback, TTL 2, clock to 3, both flags on | `TypeOK`, `OneOutcome`, `AcceptedAfterClosed`, `NoWedge`, and that `Auction` implements `AuctionLifecycle` | 2.9 M |
| `AuctionCodes` | the same, both flags off | `AtMostOneLiveCode`, `CodeMatchesStamp` | 1.8 M |
| `AuctionLostReply` | `UnreportedMints` on | **violated**: `AtMostOneLiveCode` | |
| `AuctionCodeOnFile` | both flags off | **violated**: `CodesOnFile` | |
| `AuctionMemory` | 3 auctions, 2 reservation names, room for 2, TTL 1, clock to 2 | `Bounded`, `AbsenceTruthful`, `MintingProtected`, and that `AuctionMemory` implements `AuctionStore` (`StoreKept`) | 379 K |
| `Solicitation` | rosters of 3 rows over 2 stores and of 2 rows with one store unreachable, pool of 2, window 1, any number of auctions | `TypeOK`, `SlotsAccounted`, `VerdictsTrue`, `HardTimeout`, `CapacityReturns` | 93 K |
| `Chain` | 2 library writers, a reckless one, 3 contents (two of one id, one of which jsonb renormalises), 3 appends, 1 outage, pages of 1, any number of walks | `TypeOK`, `ChainIntact`, `CommitsInSeqOrder`, `WalkMissesNothing`, `VerdictTrue`, `AnswersTrue`, `ForkedByReckless`, `EveryAppendAnswered`, and that `Chain` implements `EventLog` | 276 K |
| `Ingest` | 2 threads, 3 events, 3 requests, 3 attempts, room for 1 delta, 1 restart | `TypeOK`, `OneRowPerEvent`, `NothingUncounted`, `QueueNearCeiling`, `ToldOnce` | 1.2 M |
| `ExternalBids` | 2 replicas, 3 submissions (deadline before the window's end, after it, none), window 1, ceilings 2, batch 2, clock to 3, 1 failure | `TypeOK`, `QueueNearCeiling`, `NothingDropped`, `NoReplay` | 4.0 M |
| `ExternalBidsNonce` | the same | **violated**: `NonceIntact` | |
| `MagicLink` | 2 threads, 2 addresses, 3 links, 3 pseudonyms and one more a thread in hand, room for 2 links and 1 session, TTLs 2 and 1, clock to 2, 1 failure, `Straddling` off | `TypeOK`, `OneSessionPerLink`, `SupersededStaysDead`, `NothingBurned`, `SessionsNearCeiling`, `NoEviction` | 2.6 M |
| `MagicLinkBurned` | the same, no failure | **violated**: `ConsumedForASession` | |

**Why the bounds are enough.** In `Auction` a clock of 3 with a TTL of 2 lets a
record and every kind of reservation be taken, expire and be taken again; two
buyers and a sweeper are all the roles that compete for one exit, and the two
bids all that differ (one mints, one does not). In `AuctionMemory` three
auctions against room for two make eviction, its exemption for a minting
auction, the wrap of the ring and the backstop happen; a record is live or has aged out, and nothing in the
store asks for how long, so a TTL of 1 tells apart what is to be told, and a clock of 2 lets it pass twice. In `ExternalBids` two
appends overshoot the ceiling, a drain puts items back into a full queue, a
nonce memory of two fills up, and both sides of each deadline are reached. In
`Solicitation` a pool smaller than the roster is exhausted by one auction and by
the stragglers of several, a store has two rows of which one is asked and the
other is not, and answers fall before, at and after the end of the window, and between
the wait and the reading. In `Chain` three appends are a fork, a retry after a
conflict, or two rows with holes between them that a walk reads in three pages while they are written; a
third writer's commit can fall between any two statements of the first. In
`Ingest` the third delta meets a queue that is full and a worker that puts back what it holds, an
item is retried until it is spent, and an event is sent again before, during and after a restart. In
`MagicLink` two redemptions of one buyer rotate each other's pseudonym away
before and after the redraw, a link is replaced while it is redeemed, both
tables fill up and empty again, and two sweeps meet over one expired session.
`MaxDraws` bounds how often links are redeemed again; without it a link that is
given back is tried for ever.

**Deadlock** is checked in `Solicitation` and `Chain`, where a new auction or a
new walk can always begin. It is not checked where all requests end or the
bounded clock and failures run out (`CHECK_DEADLOCK FALSE` in the configurations
of `Auction`, `AuctionMemory`, `ExternalBids`, `Ingest` and `MagicLink`).

**Fairness.** `Solicitation` assumes weak fairness of three things: the event loop's
own next step, the clock, and an executor thread that has its answer. None of
them waits for a store, so `HardTimeout` holds although stores may never answer.
`CapacityReturns` is about the pool and does need them: its hypothesis
`StoresComeBack` says that a store that was dialled comes back in the end, which is
what the solicitor's wall-clock limit sees to
(`apps/exchange/src/composition.py:644-660`). `Chain` assumes weak fairness of
each library writer, a request that is being served; whoever waits for the lock or an index
is not enabled, so this promises no one the lock. `EveryAppendAnswered` has the hypothesis
`RecklessSettle`, that a transaction opened outside the library is not left
open for ever: with it left open, PostgreSQL makes the writers behind it wait as long. No
fairness is asked of senders, or of a reckless writer except as said. The other
modules assume none: requests may die at any step, and no property of theirs depends on one
going on.

**Symmetry** is used for buyers, auctions, replicas, threads, addresses and, in `Ingest`, events: no definition
distinguishes them, and the runs that use it check only safety properties, for which TLC's
symmetry reduction is sound. `Solicitation` and `Chain`, which check liveness, use none.

Each property has a mutant in `PROJECT.json`: a plausible slip in the code (a second
read that does not compare, an orphan that gives its claim back, a backstop
that drops the oldest reservation instead of an orphan, a boundary that is `<`
for `<=`) with which TLC finds the property violated.

### What the runs found

* **A lost reply mints twice** (`AuctionLostReply`). A `POST /codes` whose answer is lost or
  unreadable is an ordinary refusal to `accept` (`checkout/providers.py:304-331`,
  `accept/offer.py:1071-1077`): the claim is released and the next accept mints
  a second live code. `accept/claims.py:113-120` says that what decides is
  whether a code exists.
* **An orphaned code is on no ledger** (`AuctionCodeOnFile`). `accept_bid`
  answers a refusal without forwarding `result.events`
  (`accept/routes.py:1099-1100`), and the race with `expire` returns before the bridge; the comment at
  `accept/routes.py:1125-1127` says the events are filed, one further down
  (1139-1142) calls it a known gap.
* **A full queue spends the nonce** (`ExternalBidsNonce`).
  `verification_queue.py:31-33` and 78-80 promise the nonce intact; the door
  consumes it first and says so (`door.py:812-823`).

* **A link spent for nothing** (`MagicLinkBurned`). The session store has no
  lock: its sweep raises `RuntimeError` when another request inserts or drops a
  session meanwhile, and `KeyError` when the session it wants to delete is
  gone (`auth/sessions.py:361-365`). Neither is a `SessionError`, so `redeem`
  supposes a session may exist and keeps the link used, though "a link is consumed for
  a session, and only for a session" (`auth/magic_link.py:391`). A vault that
  cannot be reached from inside `admit` does the same. `NothingBurned`, which
  holds, says these are the only ways.

Also seen, without a run: with `Straddling` on, `SupersededStaysDead` is violated:
a request that reads the clock and takes the lock a link's lifetime later
files a link that is swept before the one it replaced, and `_superseded`
compares with the table only. A pseudonym can be rotated away between `admit` and the insert, so a
session can begin under a retired one. With `StraddlingReads` on, `AtMostOneLiveCode` is
violated by an accept that reads a closed record shortly before its end, is still there when
the record and then the first accept's claim have lapsed, and then claims. `draining.py:171-181` calls
a full queue the one case in which an admitted item is lost; a failed Redis call or a crash with the item
popped loses it too, and `NothingDropped` counts those as mishaps.

Read in the code while modelling it, without a run:

* `solicited` is written before the fan-out "so it cannot name a store no socket was ever
  opened to" (`orchestration/solicitation.py:330-333`), yet rows that the fan-out never submitted,
  for want of a worker (`auction/fanout.py:532-543`), stay in it.
* `announce_trust_event` reads whether its delta landed off the sink's shared
  `delivered` counter, before and after (`feedback/notify.py:1148`, 1163). Another
  request's delta, or the retry worker's, that lands in between makes a failed push
  look delivered.
* `dropped` is documented as "distinct from `lost`" (`feedback/notify.py:319`), but an
  overflow counts in both. `NothingUncounted` therefore leaves it out.
* A publisher's comment has the events door answer 409 for an id it already holds
  (`proxyshop_support/trust_ledger.py:213`); for the same content it answers 200.
* After a kill and a revive the agent is to stay off "until the merchant signs the
  terms again" (`onboarding/routes.py:342-372` of the merchant service). What is
  signed is a digest of the version and the terms, which neither act changes, so the approval
  that was on file before the kill activates the envelope again.

## 4. Proofs

### The auction

`AuctionProofs` proves, for any sets of requests and bids, any TTL and any clock
(the assumptions are those named in `Auction`: the roles are disjoint, `NoBid` is
no bid, TTL is positive):

| theorem | says |
|---|---|
| `TypeCorrect` | `Spec => []TypeOK` |
| `RecordInvariant` | `Spec => []RecordInv`, the inductive invariant |
| `OutcomeDecidedOnce` | `Spec => []OneOutcome` |
| `AcceptedInOrder` | `Spec => []AcceptedAfterClosed` |
| `NothingWedged` | `Spec => []NoWedge` |
| `LifecycleImplemented` | `Spec => LifecycleKept`: `Auction` implements `AuctionLifecycle` |
| `StoreImplemented` | `Spec => StoreKept`: the store under the requests implements `AuctionStore` without a cap |
| `ReleaseIsAtomic` | `Spec /\ [][Timely]_vars => ReleaseAsPromised` |
| `OneMint` | `Spec => []AtMostOneLiveCode`, if no mint goes unreported and no read straddles its record's end |
| `CodeIsTheAcceptedOne` | `Spec => []CodeMatchesStamp`, under the same two assumptions |

**The argument.** `OneOutcome` is not inductive: it says nothing of requests
half-way. `RecordInv` adds, conjunct by conjunct, why a reservation works as a lock although it expires:

* `Fresh`: nothing expires later than one TTL from now. A reservation just taken
  therefore outlives the record it protects.
* `Ranked`: states are only left forwards, so a request that read a state and
  waited never meets that state again after it was left.
* `ExitKept`: whoever is past its reservation and still sees its source
  state owns that exit until the record lapses, or the record has lapsed.
* `OneSaver`: hence one request at most is about to save, and the record is
  what it read. This is where the re-read of `_transition` is needed.
* `Final`, `FiledBy`: hence the one who moved the record to a terminal state is alone,
  the record still says so, and what is filed is what it did.
* `Beginning`, `Roles`: which request can be where, with which target.

`AcceptedAfterClosed` follows from `Announced`: an accept is past its gate only when the
bid book knew its bid, and the creating request writes the book after both filings. `NoWedge` is one
invariant for each kind of reservation (`CreateStands`, `AcceptStands`, `ExitStands`): a holder has not
ended, has died, or what it holds stands. The last of them leans on `RecordInv`: a request that keeps
its exit has moved the record out of it, and no one moves it back (`Ranked`).

`LifecycleImplemented` uses `RecordInv` at the one action that writes: by
`OneSaver` a write is a legal move of `AuctionLifecycle`, and other steps stutter.

`StoreImplemented` maps a `SET` to the contract's save, a `SET NX EX` to its reserve and the `DEL` to a release *of whatever
token it finds there*. That this is the releaser's own token is another matter, since `release` compares with a `GET`
and deletes in a second call. Its docstring argues that a reservation cannot change hands "except by the TTL expiring -
fifteen minutes, against a release that follows its reservation within one request" (`state.py:716-724`).
`ReleaseIsAtomic` is that argument: `Timely` says that no tick ends a reservation that a request has in hand, and then
`Owned`, that each such request still holds what it reserved, is an invariant, so the `DEL` is the
release the contract describes. `Timely` is a hypothesis of this theorem only, none of the others needs it; without it
TLC finds a `DEL` that takes another's reservation. Both properties were checked with TLC and then proved;
no run is kept for them.

`CodeInv` extends it to the claim: an accept that took the claim and has not
given it back still owns it (`ClaimKept`), because while the record says
`closed` it is not written, so every accept has read the same expiry
(`ReadsInTime`) and no claim taken meanwhile lapses before it. `Issued` and
`Stamped` tie codes and the stamp to that one claimant. Both assumptions are needed: each
dropped alone gives a run that violates the property.

The invariants were model-checked before they were proved. Each is preserved
by a lemma of its own (`FreshStep`, `RankedStep`, ..., `StampedStep`), one step
per group of actions; `Cases` splits `Next` once for all of them.

### The in-memory store

`AuctionMemoryProofs` proves, for any auctions, reservation names and tokens, any
capacity and TTL, and callers that call anything in any order:

| theorem | says |
|---|---|
| `StoreBounded` | `Spec => []Bounded` |
| `AbsenceHonest` | `Spec => []AbsenceTruthful` |
| `ReservationsKept` | `Spec => ReservationsFollowRecords` |
| `MintingSpared` | `Spec => MintingProtected` |
| `MemoryImplementsStore` | `Spec => StoreKept`: `AuctionMemory` implements `AuctionStore` with a cap |

All five rest on `MemInv`: the tables fit their bounds (`Fits`), hold one entry per key (`Once`), no
auction is both in the table and on the ring (`Elsewhere`), and the ring and the flag tell the
truth (`Told`). One operation of the tables after the other has a lemma that says what it leaves
(`Popped`, `Evicts`, `Reaps`, `Forgets`, `SaveDoes`, `ReserveDoes`, `LoadDoes`, `ReleaseDoes`), and
the theorems are about those, not about positions. Three arguments are not obvious:

* **The backstop always finds an orphan** (`CrowdHasOrphan`). The ceiling is capacity times the number
  of names; with every reservation on a record and one per record and name, more than the ceiling of
  them would need more pairs than there are. So no reservation that is in use is ever taken.
* **A save reaps, then evicts.** What is reaped is a front of the table and the victims are taken from the
  rest, so the two batches written to the ring name different auctions (`SplitJoins`,
  `ApartJoins`), each with its own reason.
* **What the ring forgets** falls back on `evicted`, which once true stays true; hence "not evicted" is
  never said of an auction that was (`FatesTold`).

`MemoryImplementsStore` has one lemma per call (`SaveSaves`, `LoadReaps`, `ReserveTakes`, `ReleaseReleases`,
`TickTicks`). The save is the one that is not obvious. It may forget many records at once, and the
contract allows it one: the others have aged out, hence are no part of what the contract sees, and at most one entry
of those dropped is young (`EvictsOne`). And a save of a record that is in the table leaves it no longer than it was,
so that it evicts none: an auction's own transitions never displace another auction, only creations do.

### The ledger

`ChainProofs` proves, for any contents, ids, writers of either kind, and any
number of appends, rollbacks and outages:

| theorem | says |
|---|---|
| `ChainInvariant` | `Spec => []ChainInv`, the inductive invariant |
| `ChainKept` | `Spec => []ChainIntact` |
| `SeqOrder` | `Spec => []CommitsInSeqOrder` |
| `TypeCorrect` | `Spec => []TypeOK` |
| `AnswersHold` | `Spec => []AnswersTrue` |
| `WalkReadsAll` | `Spec => []WalkMissesNothing` |
| `VerdictHonest` | `Spec => []VerdictTrue` |
| `ForksFromOutside` | `Spec => []ForkedByReckless` |
| `LogImplemented` | `Spec => IsEventLog`: `Chain` implements `EventLog` |

**The argument** for all but the last two rows does not use the advisory lock, and so covers writers that do not take it.
Digests grow with the chain, so a writer whose `prev_hash` is as long as the head
has read the head, and nothing was committed since it read; the `seq` it drew
afterwards is past every row (`InLine`). A writer that passed the guard and was then overtaken
carries a `prev_hash` that some row has by now, and the unique index refuses it
(the third part of `InLine`). The same index lets one open transaction at a time
carry the head (`OneOpen`), and so whoever commits is in line. `Tip` says that the anchor is the highest
row, `Sealing` that rows are linked, and `Listed`, that the head commits to no content without
a row, is what the refinement needs for "each id once".

*Answers.* `AnswerInv` adds that an id is in the table once (`OneEach`), that a writer that
found its event or wrote it was served by a row that is there (`Served`), and that while a writer
that landed an id has not answered, nobody was told "inserted" of it (`FirstInv`). Rows never change, so what was true
when it was said stays true.

*The walk* (`WalkInv`). A commit appends to the rows in order of `seq`, by `SeqOrder`,
so the rows up to a cursor do not change under a walk that is past them, and the next page is what comes
after them in order. That a page appends to what was read is a fact about enumerations of sets of numbers
(`EnumerationProofs`: an enumeration in order is unique, and that of a set with a later one
joined to it is the two in a row). The rows read form a chain, by `ChainIntact`, and the anchor read first is
one of its prefixes; so the only complaint left is that the walk saw more than the anchor counts.

*The lock* is there for the library's writers to be served instead of refused. `ForkInv` says so: who is inside
`append` heads the queue (`Locking`), so between its read of the tail and its insert only a
reckless writer can have committed (`Recent`, `Behind`).

### The fan-out

`SolicitationProofs` proves, for any rosters, pool and window, and any number of
auctions whose stores answer late or never:

| theorem | says |
|---|---|
| `SlotsConserved` | `Spec => []SlotsAccounted` |
| `VerdictsKept` | `Spec => []VerdictsTrue` |
| `TypeCorrect` | `Spec => []TypeOK` |

`SlotsAccounted` rests on rows being submitted once (`Once`), so that a submission adds
one worker and an answer removes one. `VerdictsTrue` needs what a future tells the
reader (`Report`: what was heard is what the worker brought, and "nothing" only after the worker was done)
and, in `VerdictFrom`, that the verdict is taken from a row of the same store.

### The events door

`IngestProofs` proves, for any events, threads, requests and restarts, and any
size of the queue:

| theorem | says |
|---|---|
| `ToldAtMostOnce` | `Spec => []ToldOnce` |
| `QueueBounded` | `Spec => []QueueNearCeiling` |
| `OneRow` | `Spec => []OneRowPerEvent` |
| `EveryDeltaCounted` | `Spec => []NothingUncounted` |
| `TypeCorrect` | `Spec => []TypeOK` |

A delta that may still be told is in one place, a thread, the queue or the
worker's hand (`Sole`); while it is there the store has taken no more of it than
answers were lost, and none is made for an event that was in the log before
(`Score`). The queue is bounded together with the worker's hand (`Ceiling`),
because the worker puts back only what it took. A row's lookup stays true until its write because one thread
at a time holds the observation lock (`RowInv`).

### External bids

`ExternalBidsProofs` proves, for any replicas, submissions, deadlines, windows and
ceilings, any batch, and any number of failures, restarts and lost connections:

| theorem | says |
|---|---|
| `TypeCorrect` | `Spec => []TypeOK` |
| `CeilingKept` | `Spec => []QueueNearCeiling` |
| `NoneDropped` | `Spec => []NothingDropped` |
| `ReplayRefused` | `Spec => NoReplay` |

The ceiling is read, then the item appended: counted together with the replicas about to append the
queue is inductive, since who is about to append read a queue below the ceiling. An owed item is
waiting or in one drain's hands, and each step that takes it out of both adds to `mishaps`
or is its verification. `NoReplay` needs `Remembered`: what a replica let past and has since forgotten is past its
retention, and `RetentionEnough`: past its retention a submission is stale or its auction is
closed, so an earlier gate refuses it. The retention is one end only, the deadline if there is one; the proof
shows that one suffices.

### Magic links

`MagicLinkProofs` proves, for any threads, addresses, ceilings, lifetimes and
failures (the bounds on links and draws are parameters):

| theorem | says |
|---|---|
| `TypeCorrect` | `Spec => []TypeOK` |
| `OpensOnce` | `Spec => []OneSessionPerLink` |
| `BurnsNothing` | `Spec => []NothingBurned` |
| `EvictsNone` | `Spec => NoEviction` |
| `SessionsBounded` | `Spec => []SessionsNearCeiling` |
| `SupersededDead` | `Spec => []SupersededStaysDead`, if `Straddling` is off |

`LinksInv`: a marked link is in the hands of one thread (`OneTaker`, `Marked`) that has not opened
anything yet (`Unopened`), and a link that opened a session is marked as long as it is in the table
(`OpenedUsed`), so that no one takes it again, restored or not. `NothingBurned` follows the link
out of that thread's hands. `NoEviction` needs `Room`, the bound on the table: the code
sweeps before it looks whether there is room, so a shed request must have found nothing to sweep, which a table
within its bound implies. `OrderInv` is the argument of `_superseded`: while a request's reading of the clock and its
critical section are at one time (`Prompt`), links expire in the order of their issue (`Dated`, `Ordered`), so a
link still in the table has the one that replaced it beside it (`Shown`). Without the assumption the property is
false, see "What the runs found".

### What the proofs changed in the models

* `Auction`'s `Mine`, a `CASE` with overlapping guards, let TLC take the first that holds
  while TLA+ promises no order: the prover could not tell which, and it is now an `IF` chain.
* `Release` in `Chain`, its walk, and the tables of `AuctionMemory` were written with `SelectSeq` and
  `FoldLeft`, which are recursive underneath, so that the prover knows nothing about them. They are now written with
  `RemoveFirst` and with the operators of `Enumeration`, which are definitions by cardinality.
  The runs found as many distinct states as before.

### What stays with TLC

Every safety invariant and action property of the passing runs is a theorem. Liveness
under fairness is out of the prover's reach, so `HardTimeout`, `CapacityReturns` and
`EveryAppendAnswered` are model-checked only, as are, of course, the promises the code does not keep. So are `ENABLED`, induction
over data, and recursive operators, none of which the proofs need. The assumptions the theorems make
are the named `ASSUME`s of the modules, which TLC evaluates in each run, and those stated in the theorems
(`UnreportedMints`, `StraddlingReads` and `Straddling` off).

### What the properties leave out

* `NoWedge` lets the dead keep what they hold, and a store call that raises counts as a
  death. So it says nothing of a `release` that fails and is swallowed
  (`accept/offer.py:1075-1081`): the caller lives, the claim stays until its TTL ends, and the auction is refused
  meanwhile, "the fail-closed direction" of the comment there.
* `AnswersTrue` is about what is answered inserted, already there, or in conflict. It says
  nothing of an append answered `unavailable`.
* `ChainIntact` takes a writer outside the library to seal its row honestly: it skips the
  lock, not the hash.
* `VerdictsTrue` covers what each row is told, not the `solicited` field.
* `HardTimeout` takes the eligibility read before the fan-out to return.
* `OneRowPerEvent` covers the door of `POST /events`. Reconciliation writes its
  observations under another lock, on rows the repository holds to be disjoint.
* In `ToldOnce` an agent that took the delta and answered 5xx is counted with
  the answers that were lost (`unheard`).
* `NothingUncounted` sees a shutdown as a restart: queue and counters go together, so what is lost
  there shows as counters back at zero only.

## 5. Not modelled, and why

* Event payloads, refusal wording, permalinks, signatures, redaction: data the
  properties do not tell apart.
* The reasons for a refusal before the claim: one action, `GateRefused`.
* The bandit fold after an accept, the ledger's own failures (`LedgerRecorder`
  remembers them in the process).
* In the fan-out: the sequential strategy, which has no concurrency, the pool's
  shutdown, and what the price and provenance walls compare.
* In the ledger: appends joined to a caller's transaction (tests only), the
  sanctioned reset, replay, the in-memory store. In the notification: the
  exchange's half, which is the same class, the ring of reasons, the arithmetic of a delta,
  and what the request answers about its push.
* Mail delivery, the account directory and the profile of a buyer; the login
  door's rate limiter.
* Ranking, retrieval, verification of a pitch, extraction: pure functions of data, or
  of an LLM's answer.
* Two creations of one id: ids are `uuid4`.
* The merchant's codes: `on_redemption` has no caller outside the tests, so how
  webhooks are delivered cannot be read in the code. Its envelopes: every caller is a
  coroutine that does not await between its reads and its writes, which makes them sequential.
* Posteriors, the store agent's rings, the ingest scheduler, trust scores and snapshots: not
  modelled yet.

`PROJECT.json` lists the hazards that matter most. Known besides, without a property:

* `auction/fanout.py:532`: with the pool taken, the rest of the roster goes unasked, though a
  slot may come free while the rest is skipped.
* `auction/state.py:906`: a creation whose save took effect and whose reply was lost
  gives its reservation back and is reported as failed.
* `accept/routes.py:1121`, 1127: only an illegal transition is caught around the
  stamp, and a fallback whose stamp is refused keeps its claim for a TTL
  although nothing was minted.
* `accept/offer.py:1075`: a claim whose `release` fails stays taken, though nothing was minted.
* `accept/gate.py:149`: a store is blacklisted between the bid and the accept, or the
  snapshot the gate reads is stale.
* `auction/ledger.py:362`: a sink that refuses is remembered in the process only.
* `external_bids/routes.py:391`: the nonce memory is per process.
* `modes/runner.py:731` of the store agent: the ring of credited auctions forgets its
  oldest, which a late redelivery then credits again.
* `scheduler/cycle.py:408` of the ingest service: one save ends a tick, so a crash
  before it repeats every refresh of that tick.

## 6. Plan

More of the code is to be modelled: `Posteriors` (`policy/durable.py`: no
outcome of a kept pair lost, no orphaned field), `Redemption` (merchant `codes/`, once a webhook calls it),
`Standing` (blacklist, snapshot, the gate's read: no store served past one
snapshot), `Credit` and `Refresh` (`modes/runner.py`, `scheduler/cycle.py`: credited once,
repeated only after a crash), `LoginDoor` (the rate limiter's budget). Runs are kept few: a new module
brings one passing run, and two modules that answer one question share it. Its properties are
written to be proved: one action per operation, tables as functions or as sequences with their places, no
recursion.
