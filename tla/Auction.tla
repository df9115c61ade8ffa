------------------------------- MODULE Auction -------------------------------
(***************************************************************************)
(* One auction of the exchange, served by several requests at once over    *)
(* the shared store of apps/exchange/src/auction/state.py, from its        *)
(* creation to the discount code it is accepted with.                      *)
(*                                                                         *)
(* A request is a process that takes one step per call on the store, on    *)
(* the merchant or on the ledger.  Requests of different replicas (and     *)
(* threads of one) interleave between those calls, time passes between     *)
(* them, and a request may die at any of them.                             *)
(*                                                                         *)
(* Everything in the store is keyed by the auction's id, so one auction is *)
(* modelled; what auctions share in one process is module AuctionMemory.   *)
(*                                                                         *)
(* Simplifications.  The id is a uuid4, so one request creates it and never *)
(* finds it taken.  A reservation remembers the request that took it       *)
(* (`by`), which the code does not: it is read by the properties only,     *)
(* release compares the token as the code does.  A store call that raises, *)
(* or whose reply is lost, leaves the request's reservations to their TTL  *)
(* unless the code gives them back: Die, at any step, stands for it.       *)
(***************************************************************************)
EXTENDS Integers

CONSTANTS
    Creator,          \* the request that serves POST /auctions
    Acceptors,        \* requests that serve POST /auctions/{id}/accept
    Expirers,         \* callers of AuctionStateMachine.expire
    Bids,             \* the bids the auction collected
    Fallbacks,        \* those of them that are list-price fallbacks
    NoBid,
    NoOne,
    TTL,              \* AUCTION_TTL_SECONDS, in ticks of the clock
    MaxTime,          \* bound on the clock
    UnreportedMints,  \* may the merchant mint and the exchange not learn it?
    StraddlingReads   \* may a record lapse between accept's read and its claim?

Requests == {Creator} \cup Acceptors \cup Expirers

States == {"none", "created", "open", "closed", "accepted", "expired"}

ASSUME TTLAssumption == TTL \in Nat \ {0}
ASSUME TimeAssumption == MaxTime \in Nat
ASSUME BidAssumption == NoBid \notin Bids /\ Fallbacks \subseteq Bids
                          /\ Bids \cap States = {}
ASSUME RoleAssumption == /\ Creator \notin Acceptors \cup Expirers
                         /\ Acceptors \cap Expirers = {}
                         /\ NoOne \notin Requests
ASSUME FlagAssumption == /\ UnreportedMints \in BOOLEAN
                         /\ StraddlingReads \in BOOLEAN

VARIABLES
    now,     \* the clock the store's expiries run on
    record,  \* auction:{id}: its state, its accepted_bid_ref, when it lapses
    holds,   \* auction:{id}:reserved:{name}: who, with which token, until when
    pc,      \* where each request is
    source,  \* the state a transition read before it reserved the exit
    target,  \* the state a transition moves to
    bid,     \* the bid an accept names
    seen,    \* when the record an accept read at its start lapses
    book,    \* are the auction's bids in the bid book?
    codes,   \* the requests for which a merchant issued a live code
    orphans, \* those of them whose checkout was refused after the mint
    filed    \* what was handed to the ledger: kinds, with the request

vars == <<now, record, holds, pc, source, target, bid, seen, book, codes,
          orphans, filed>>

local  == <<source, target, bid, seen>>
money  == <<codes, orphans>>

-----------------------------------------------------------------------------
(* The store.                                                              *)

Exit(s) == CASE s = "created" -> "exit:created"
             [] s = "open"    -> "exit:open"
             [] s = "closed"  -> "exit:closed"
             [] OTHER         -> "exit:none"

Names == {"create", "exit:created", "exit:open", "exit:closed", "exit:none",
          "accept"}

TransitionsOutOfAccepted(s) ==  \* mutant: an accepted auction may still expire
    CASE s = "created" -> {"open", "expired"}
      [] s = "open"    -> {"closed", "expired"}
      [] s = "closed"  -> {"accepted", "expired"}
      [] s = "accepted" -> {"expired"}
      [] OTHER         -> {}

Transitions(s) ==
    CASE s = "created" -> {"open", "expired"}
      [] s = "open"    -> {"closed", "expired"}
      [] s = "closed"  -> {"accepted", "expired"}
      [] OTHER         -> {}

Free == [by |-> NoOne, token |-> NoBid, until |-> 0]

(* load answers None once the TTL ran out, at the very instant it does.    *)
Present == now < record.until

Held(n) == now < holds[n].until

(* SET key token NX EX ttl: taken only when nothing live is there, and its *)
(* expiry is set once.                                                     *)
Reserve(n, r, token) ==
    /\ ~Held(n)
    /\ holds' = [holds EXCEPT ![n] = [by |-> r, token |-> token,
                                      until |-> now + TTL]]

(* save refreshes the record's TTL, whatever it writes.                    *)
Save(s, b) == record' = [state |-> s, bid |-> b, until |-> now + TTL]

(* What a request gives back when it fails, and the token it compares: the *)
(* exit it reserved, the id it creates, or the claim on the acceptance.    *)
Mine(r) == IF source[r] # "none" THEN Exit(source[r])
           ELSE IF r = Creator THEN "create" ELSE "accept"

Token(r) == IF source[r] # "none" THEN target[r] ELSE bid[r]

-----------------------------------------------------------------------------
Goto(r, from, to) == pc[r] = from /\ pc' = [pc EXCEPT ![r] = to]

File(kind, r) == filed' = filed \cup {<<kind, r>>}

(* AuctionStateMachine.create: reserve the id first, then look and save.   *)
CreateReserve ==
    /\ Goto(Creator, "start", "create")
    /\ Reserve("create", Creator, NoBid)
    /\ UNCHANGED <<now, record, local, book, money, filed>>

CreateSave ==
    /\ Goto(Creator, "create", "read")
    /\ ~Present
    /\ Save("created", NoBid)
    /\ target' = [target EXCEPT ![Creator] = "open"]
    /\ UNCHANGED <<now, holds, source, bid, seen, book, money, filed>>

(* ... and give the id back when the save raised; it may have landed.      *)
CreateFails ==
    /\ Goto(Creator, "create", "release")
    /\ Save("created", NoBid) \/ UNCHANGED record
    /\ UNCHANGED <<now, holds, local, book, money, filed>>

(* A caller of expire.  Nothing under apps/ or services/ calls it today.   *)
ExpireStart(r) ==
    /\ r \in Expirers
    /\ Goto(r, "start", "read")
    /\ target' = [target EXCEPT ![r] = "expired"]
    /\ UNCHANGED <<now, record, holds, source, bid, seen, book, money, filed>>

-----------------------------------------------------------------------------
(* release is a GET and then a DEL: only what still carries our token.     *)

GiveBack(r) ==
    /\ Goto(r, "release", IF Held(Mine(r)) /\ holds[Mine(r)].token = Token(r)
                            THEN "delete" ELSE "done")
    /\ UNCHANGED <<now, record, holds, local, book, money, filed>>

Delete(r) ==
    /\ Goto(r, "delete", "done")
    /\ holds' = [holds EXCEPT ![Mine(r)] = Free]
    /\ UNCHANGED <<now, record, local, book, money, filed>>

-----------------------------------------------------------------------------
(* AuctionStateMachine._transition, one step per call on the store.        *)

Read(r) ==
    /\ Present /\ target[r] \in Transitions(record.state)
    /\ Goto(r, "read", "reserve")
    /\ source' = [source EXCEPT ![r] = record.state]
    /\ UNCHANGED <<now, record, holds, target, bid, seen, book, money, filed>>

(* UnknownAuction, or IllegalAuctionTransition.                            *)
ReadRefused(r) ==
    /\ ~(Present /\ target[r] \in Transitions(record.state))
    /\ Goto(r, "read", "done")
    /\ UNCHANGED <<now, record, holds, local, book, money, filed>>

ReserveExit(r) ==
    /\ Goto(r, "reserve", "reread")
    /\ Reserve(Exit(source[r]), r, target[r])
    /\ UNCHANGED <<now, record, local, book, money, filed>>

ReserveLost(r) ==
    /\ Held(Exit(source[r]))
    /\ Goto(r, "reserve", "done")
    /\ UNCHANGED <<now, record, holds, local, book, money, filed>>

Unmoved(r) == Present /\ record.state = source[r]

RereadBlind(r) ==  \* mutant: the state is not compared again
    /\ Present
    /\ Goto(r, "reread", "save")
    /\ UNCHANGED <<now, record, holds, local, book, money, filed>>

Reread(r) ==
    /\ Unmoved(r)
    /\ Goto(r, "reread", "save")
    /\ UNCHANGED <<now, record, holds, local, book, money, filed>>

RereadRefused(r) ==
    /\ ~Unmoved(r)
    /\ Goto(r, "reread", "release")
    /\ UNCHANGED <<now, record, holds, local, book, money, filed>>

(* The copy read behind the reservation, with its new state, is written    *)
(* back.                                                                   *)
Write(r) == Save(target[r], IF target[r] = "accepted" THEN bid[r] ELSE record.bid)

SaveRecord(r) ==
    /\ Goto(r, "save", "file")
    /\ Write(r)
    /\ UNCHANGED <<now, holds, local, book, money, filed>>

SaveFailsHolding(r) ==  \* mutant: the reservation is not given back
    /\ Goto(r, "save", "done")
    /\ Write(r) \/ UNCHANGED record
    /\ UNCHANGED <<now, holds, local, book, money, filed>>

(* A save that raises, and may have landed all the same.                   *)
SaveFails(r) ==
    /\ Goto(r, "save", "release")
    /\ Write(r) \/ UNCHANGED record
    /\ UNCHANGED <<now, holds, local, book, money, filed>>

KindNamedAfterState(t) == t  \* mutant: the event is named after the state

Kind(t) == CASE t = "open"     -> "auction_opened"
             [] t = "accepted" -> "accepted"
             [] OTHER          -> "auction_closed"

(* The event of the move, after the move.  create_auction goes on to its   *)
(* close, accept_bid to the checkout's other two events.                   *)
FileMove(r) ==
    /\ Goto(r, "file", CASE target[r] = "open"     -> "read"
                         [] target[r] = "closed"   -> "book"
                         [] target[r] = "accepted" -> "bridge"
                         [] OTHER                  -> "done")
    /\ File(Kind(target[r]), r)
    /\ target' = IF target[r] = "open" THEN [target EXCEPT ![r] = "closed"]
                                       ELSE target
    /\ UNCHANGED <<now, record, holds, source, bid, seen, book, money>>

(* create_auction records the collected bids after the close.              *)
RecordBids ==
    /\ Goto(Creator, "book", "done")
    /\ book' = TRUE
    /\ UNCHANGED <<now, record, holds, local, money, filed>>

-----------------------------------------------------------------------------
(* accept_bid.                                                             *)

AcceptStart(r, b) ==
    /\ r \in Acceptors
    /\ Present /\ "accepted" \in Transitions(record.state)
    /\ Goto(r, "start", "gate")
    /\ bid'  = [bid EXCEPT ![r] = b]
    /\ seen' = [seen EXCEPT ![r] = record.until]
    /\ UNCHANGED <<now, record, holds, source, target, book, money, filed>>

(* 404, or 409 auction_not_acceptable.                                     *)
AcceptRefused(r) ==
    /\ r \in Acceptors
    /\ ~(Present /\ "accepted" \in Transitions(record.state))
    /\ Goto(r, "start", "done")
    /\ UNCHANGED <<now, record, holds, local, book, money, filed>>

GatePassedUnrecorded(r) ==  \* mutant: the bids are there before the close is
    /\ Goto(r, "gate", "claim")
    /\ UNCHANGED <<now, record, holds, local, book, money, filed>>

(* accept_offer and the head of accept(): the bid is in this replica's     *)
(* bid book, its store is still eligible, a checkout can be requested...   *)
GatePassed(r) ==
    /\ book
    /\ Goto(r, "gate", "claim")
    /\ UNCHANGED <<now, record, holds, local, book, money, filed>>

(* ... or one of those is refused, before anything was taken.              *)
GateRefused(r) ==
    /\ Goto(r, "gate", "done")
    /\ UNCHANGED <<now, record, holds, local, book, money, filed>>

ClaimUnlessFallback(r) ==  \* mutant: a handoff takes no claim
    /\ Goto(r, "claim", IF bid[r] \in Fallbacks THEN "read" ELSE "mint")
    /\ IF bid[r] \in Fallbacks THEN UNCHANGED holds ELSE Reserve("accept", r, bid[r])
    /\ target' = [target EXCEPT ![r] = "accepted"]
    /\ UNCHANGED <<now, record, source, bid, seen, book, money, filed>>

(* The claim, taken before the merchant is asked.  A fallback is a handoff *)
(* to the store's own checkout: nothing is minted for it.                  *)
Claim(r) ==
    /\ Goto(r, "claim", IF bid[r] \in Fallbacks THEN "read" ELSE "mint")
    /\ Reserve("accept", r, bid[r])
    /\ target' = [target EXCEPT ![r] = "accepted"]
    /\ UNCHANGED <<now, record, source, bid, seen, book, money, filed>>

ClaimLost(r) ==
    /\ Held("accept")
    /\ Goto(r, "claim", "done")
    /\ UNCHANGED <<now, record, holds, local, book, money, filed>>

Mint(r) ==
    /\ Goto(r, "mint", "read")
    /\ codes' = codes \cup {r}
    /\ UNCHANGED <<now, record, holds, local, book, orphans, filed>>

(* Nothing was minted: the claim goes back, so the buyer can take the next *)
(* slot.                                                                   *)
MintFails(r) ==
    /\ Goto(r, "mint", "release")
    /\ UNCHANGED <<now, record, holds, local, book, money, filed>>

MintOrphansReleases(r) ==  \* mutant: an orphan gives the claim back
    /\ Goto(r, "mint", "release")
    /\ codes'   = codes \cup {r}
    /\ orphans' = orphans \cup {r}
    /\ UNCHANGED <<now, record, holds, local, book, filed>>

(* A code exists and the checkout was refused after it: the claim stays.   *)
(* accept() hands the code's event back on the result, and accept_bid      *)
(* answers the refusal without forwarding it.                              *)
MintOrphans(r) ==
    /\ Goto(r, "mint", "done")
    /\ codes'   = codes \cup {r}
    /\ orphans' = orphans \cup {r}
    /\ UNCHANGED <<now, record, holds, local, book, filed>>

(* The merchant minted and its answer was lost, or was not one the         *)
(* exchange can read: an ordinary refusal here, which gives the claim back.*)
MintUnreported(r) ==
    /\ UnreportedMints
    /\ Goto(r, "mint", "release")
    /\ codes' = codes \cup {r}
    /\ UNCHANGED <<now, record, holds, local, book, orphans, filed>>

(* _record_checkout_bridge: code_created and checkout_redirect.            *)
Bridge(r) ==
    /\ Goto(r, "bridge", "done")
    /\ filed' = filed \cup {<<"checkout_redirect", r>>}
                      \cup (IF r \in codes THEN {<<"code_created", r>>} ELSE {})
    /\ UNCHANGED <<now, record, holds, local, book, money>>

-----------------------------------------------------------------------------
Ended == {"done", "died"}

Steps == {"start", "create", "read", "reserve", "reread", "save", "file", "book",
          "gate", "claim", "mint", "bridge", "release", "delete"} \cup Ended

EventKinds == {"auction_opened", "auction_closed", "accepted", "code_created",
               "checkout_redirect"}

Die(r) ==
    /\ pc[r] \notin Ended \cup {"start"}
    /\ pc' = [pc EXCEPT ![r] = "died"]
    /\ UNCHANGED <<now, record, holds, local, book, money, filed>>

(* Time passes.  Unless StraddlingReads, not over the end of a record that *)
(* an accept has read and not yet claimed.                                 *)
Tick ==
    /\ now < MaxTime
    /\ \/ StraddlingReads
       \/ \A r \in Requests : pc[r] \in {"gate", "claim"} => now + 1 < seen[r]
    /\ now' = now + 1
    /\ UNCHANGED <<record, holds, pc, local, book, money, filed>>

Init ==
    /\ now = 0
    /\ record = [state |-> "none", bid |-> NoBid, until |-> 0]
    /\ holds = [n \in Names |-> Free]
    /\ pc = [r \in Requests |-> "start"]
    /\ source = [r \in Requests |-> "none"]
    /\ target = [r \in Requests |-> "none"]
    /\ bid = [r \in Requests |-> NoBid]
    /\ seen = [r \in Requests |-> 0]
    /\ book = FALSE
    /\ codes = {} /\ orphans = {} /\ filed = {}

Transition(r) ==
    \/ Read(r) \/ ReadRefused(r)
    \/ ReserveExit(r) \/ ReserveLost(r)
    \/ Reread(r) \/ RereadRefused(r)
    \/ SaveRecord(r) \/ SaveFails(r)
    \/ GiveBack(r) \/ Delete(r)
    \/ FileMove(r)

Accept(r) ==
    \/ \E b \in Bids : AcceptStart(r, b)
    \/ AcceptRefused(r)
    \/ GatePassed(r) \/ GateRefused(r)
    \/ Claim(r) \/ ClaimLost(r)
    \/ Mint(r) \/ MintFails(r) \/ MintOrphans(r) \/ MintUnreported(r)
    \/ Bridge(r)

Create == CreateReserve \/ CreateSave \/ CreateFails \/ RecordBids

Next ==
    \/ Create
    \/ \E r \in Requests : Transition(r) \/ Accept(r) \/ ExpireStart(r) \/ Die(r)
    \/ Tick

Spec == Init /\ [][Next]_vars

-----------------------------------------------------------------------------
(* The shape of the state: every variable holds what the code could have   *)
(* put there, and no expiry is further away than one TTL.                  *)
TypeOK ==
    /\ now \in Nat
    /\ record \in [state : States, bid : Bids \cup {NoBid}, until : Nat]
    /\ holds \in [Names -> [by    : Requests \cup {NoOne},
                            token : States \cup Bids \cup {NoBid},
                            until : Nat]]
    /\ pc \in [Requests -> Steps]
    /\ source \in [Requests -> States]
    /\ target \in [Requests -> States]
    /\ bid \in [Requests -> Bids \cup {NoBid}]
    /\ seen \in [Requests -> Nat]
    /\ book \in BOOLEAN
    /\ codes \subseteq Requests /\ orphans \subseteq codes
    /\ filed \subseteq EventKinds \X Requests

(* T-158, "one auction, one mint": however many buyers press accept on     *)
(* however many replicas, and whichever of them fail half-way, the auction *)
(* has at most one live discount code.  Keeping it takes the claim before  *)
(* the mint, the claim kept by an orphan, and a claim that outlives the    *)
(* record everyone who might mint has read.                                *)
AtMostOneLiveCode == \A r, q \in codes : r = q

(* An auction stamped accepted on a bid has no live code for another bid,  *)
(* nor an orphaned one: the code a buyer was denied and the acceptance the *)
(* record tells never coexist.                                             *)
CodeMatchesStamp ==
    record.state = "accepted" =>
        \A r \in codes : bid[r] = record.bid /\ r \notin orphans

(* accept and expire race for the one move out of closed: the append-only  *)
(* ledger is told of one outcome, and an acceptance it was told of is the  *)
(* one the record carries.                                                 *)
Outcomes == {f \in filed : \/ f[1] = "accepted"
                           \/ f[1] = "auction_closed" /\ f[2] \in Expirers}

OneOutcome ==
    /\ \A f, g \in Outcomes : f = g
    /\ \A f \in filed : f[1] = "accepted" =>
          record.state = "accepted" /\ record.bid = bid[f[2]]

(* The ledger hears of an acceptance after it heard that the auction       *)
(* opened and closed, although those come from another request: the bid    *)
(* book an accept looks its bid up in is written after both.               *)
AcceptedAfterClosed ==
    \A r \in Requests : <<"accepted", r>> \in filed =>
        {<<"auction_opened", Creator>>, <<"auction_closed", Creator>>} \subseteq filed

(* No wedge: a live reservation of a request that ended without dying      *)
(* stands for something that happened - the record was created, the exit   *)
(* was left, a code is live.  (A fallback mints nothing; one whose stamp   *)
(* is refused keeps its claim, see accept/routes.py.)                      *)
Stands(n) ==
    LET h == holds[n].by
    IN  CASE n = "create" -> record.state # "none"
          [] n = "accept" -> h \in codes \/ bid[h] \in Fallbacks
          [] OTHER        -> n # Exit(record.state) \/ ~Present

NoWedge == \A n \in Names : Held(n) /\ pc[holds[n].by] = "done" => Stands(n)

(* "accept() has filed the events that name it": a live code whose request *)
(* was answered, with a permalink or with a denial, is in the ledger for   *)
(* the reconciler to find.                                                 *)
CodesOnFile ==
    \A r \in codes : pc[r] = "done" => <<"code_created", r>> \in filed

(* Outsiders see one auction that moves forward only and is awarded once:  *)
(* the record, with all its requests, implements AuctionLifecycle.         *)
Lifecycle == INSTANCE AuctionLifecycle WITH state <- record.state,
                                            winner <- record.bid

LifecycleKept == Lifecycle!Spec

(* The store under these requests is an AuctionStore with no cap.          *)
LiveRecord == IF Present THEN {[auction |-> "this one", until |-> record.until]} ELSE {}

LiveHolds == {[auction |-> "this one", name |-> n, token |-> holds[n].token,
               until |-> holds[n].until] : n \in {m \in Names : Held(m)}}

Contract == INSTANCE AuctionStore WITH Auctions <- {"this one"},
                                       Tokens <- States \cup Bids \cup {NoBid},
                                       live <- LiveRecord, held <- LiveHolds,
                                       Forgetful <- FALSE

StoreKept == Contract!Spec

(* release is one call in the contract and two here.  "It is still ours    *)
(* cannot become false under us except by the TTL expiring - fifteen       *)
(* minutes, against a release that follows its reservation within one      *)
(* request": as long as nothing lapses under the request that took it and  *)
(* may still give it back, the DEL does what the contract's release does,  *)
(* and takes no reservation that carries another token.                    *)
InHand(r) == pc[r] \in {"create", "mint", "reread", "save", "release", "delete"}

Timely == Tick => \A r \in Requests : InHand(r) => now' < holds[Mine(r)].until

ReleaseStep == \A r \in Requests :
    Delete(r) => Contract!Release("this one", Mine(r), Token(r))

ReleaseAsPromised == [][ReleaseStep]_vars
=============================================================================
