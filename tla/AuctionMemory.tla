---------------------------- MODULE AuctionMemory ----------------------------
(***************************************************************************)
(* InMemoryAuctionStore: the store of an exchange that runs alone, holding *)
(* all its auctions at once in a bounded table.  Module Auction takes the  *)
(* store one auction at a time and unbounded; this one is about what its   *)
(* auctions do to each other when the table is full.                       *)
(*                                                                         *)
(* Every method runs under one lock, so it is one step.  Who calls what is *)
(* left open: any request may save, reserve or release for any auction,    *)
(* also for one whose record is gone.  What a record says is immaterial.   *)
(* `fate` is no part of the code: how each auction really left the table.  *)
(***************************************************************************)
EXTENDS Integers, SequencesExt, Enumeration

CONSTANTS
    Auctions,         \* the ids that are created
    Names,            \* the reservation names one auction can hold
    Tokens,           \* what callers write into a reservation
    Capacity,         \* DEFAULT_AUCTION_CAPACITY
    TTL,              \* AUCTION_TTL_SECONDS
    MaxTime           \* bound on the clock

Accept == "accept"    \* ACCEPTANCE_RESERVATION_NAME

ASSUME BoundAssumption == /\ Capacity \in Nat \ {0}
                          /\ TTL \in Nat \ {0} /\ MaxTime \in Nat
ASSUME NameAssumption  == Accept \in Names /\ IsFiniteSet(Names)

VARIABLES
    now,
    records,       \* oldest write first: the auction and when it was written
    reservations,  \* oldest first: auction, name, token and when it was taken
    gone,          \* the last auctions forgotten, and the reason given
    evicted,       \* has this store ever evicted?
    fate

vars == <<now, records, reservations, gone, evicted, fate>>

Keys(seq) == {seq[i].key : i \in DOMAIN seq}

(* A table without the entries at some places, or of some auctions.        *)
Pop(seq, places) == IF places = {} THEN seq ELSE InTurn(seq, DOMAIN seq \ places)

Without(seq, keys) == Pop(seq, {i \in DOMAIN seq : seq[i].key \in keys})

(* next(places, default): the first of them, if there is one.              *)
NextOf(places, default) == IF places # {} THEN Min(places) ELSE default

Aged(record) == now - record.at >= TTL

Live(held) == now - held.at < TTL

-----------------------------------------------------------------------------
(* _claimed: is a merchant minting against the auction?                    *)
Claimed(key) == \E h \in ToSet(reservations) :
                    h.key = key /\ h.name = Accept /\ Live(h)

ReasonIsTheCap(record) == "evicted"  \* mutant: over the cap means evicted

(* What each forgotten record is reported as.                              *)
Reason(record) == IF Aged(record) THEN "expired" ELSE "evicted"

RingWithoutEnd(seq) == seq  \* mutant: every forgotten id is remembered

(* The ring remembers the last Capacity ids.                               *)
LastOnes(seq) ==
    IF Len(seq) > Capacity THEN SubSeq(seq, Len(seq) - Capacity + 1, Len(seq)) ELSE seq

(* _forget, for each record of a sequence: the record, all its             *)
(* reservations, and the reason remembered.  No two of the ids are alike,  *)
(* so popping the ring once leaves what popping it after each id does.     *)
Forget(dropped, told) ==
    LET tombs == [i \in DOMAIN dropped |->
                     [key |-> dropped[i].key, reason |-> Reason(dropped[i])]]
    IN  /\ reservations' = Without(reservations, Keys(dropped))
        /\ gone' = LastOnes(Without(told, Keys(dropped)) \o tombs)
        /\ evicted' = (evicted \/ \E e \in ToSet(dropped) : Reason(e) = "evicted")
        /\ fate' = [a \in Auctions |->
                       IF \E e \in ToSet(dropped) : e.key = a
                       THEN IF \E e \in ToSet(dropped) : e.key = a /\ Aged(e)
                            THEN "expired" ELSE "evicted"
                       ELSE fate[a]]

OldestFirst(table) == 1  \* mutant: the oldest goes, claimed or not

(* _evict, when the table is over the cap - by one record, save adds no    *)
(* more: the oldest that no merchant is minting against, or the oldest.    *)
Victim(table) == NextOf({i \in DOMAIN table : ~Claimed(table[i].key)}, 1)

(* _evict reaps from the front what has aged out, up to the first that has *)
(* not, before it looks at the cap.                                        *)
Save(key) ==
    LET table == Append(Without(records, {key}), [key |-> key, at |-> now])
        aged  == NextOf({i \in DOMAIN table : ~Aged(table[i])}, Len(table) + 1) - 1
        fresh == SubSeq(table, aged + 1, Len(table))
        full  == Len(fresh) > Capacity
        over  == IF full THEN <<fresh[Victim(fresh)]>> ELSE <<>>
    IN  /\ records' = IF full THEN Pop(fresh, {Victim(fresh)}) ELSE fresh
        /\ Forget(SubSeq(table, 1, aged) \o over, Without(gone, {key}))
        /\ UNCHANGED now

(* load forgets a record that has aged out.                                *)
Load(key) ==
    \E i \in DOMAIN records :
        /\ records[i].key = key /\ Aged(records[i])
        /\ records' = Pop(records, {i})
        /\ Forget(<<records[i]>>, gone)
        /\ UNCHANGED now

OldestReservation(table) == 1  \* mutant: the first draft of the backstop

(* The backstop of the reservation table: orphans first.                   *)
Backstop(table) == NextOf({i \in DOMAIN table : table[i].key \notin Keys(records)}, 1)

Ceiling == Capacity * Cardinality(Names)

Reserve(key, name, token) ==
    LET same(h) == h.key = key /\ h.name = name
        table   == Append(Pop(reservations, {i \in DOMAIN reservations : same(reservations[i])}),
                          [key |-> key, name |-> name, token |-> token, at |-> now])
    IN  /\ ~\E h \in ToSet(reservations) : same(h) /\ Live(h)
        /\ reservations' = IF Len(table) > Ceiling
                           THEN Pop(table, {Backstop(table)})
                           ELSE table
        /\ UNCHANGED <<now, records, gone, evicted, fate>>

Release(key, name, token) ==
    /\ \E i \in DOMAIN reservations :
         /\ reservations[i].key = key /\ reservations[i].name = name
         /\ reservations[i].token = token
         /\ reservations' = Pop(reservations, {i})
    /\ UNCHANGED <<now, records, gone, evicted, fate>>

Tick == /\ now < MaxTime
        /\ now' = now + 1
        /\ UNCHANGED <<records, reservations, gone, evicted, fate>>

Init == /\ now = 0
        /\ records = <<>> /\ reservations = <<>> /\ gone = <<>>
        /\ evicted = FALSE
        /\ fate = [a \in Auctions |-> "never created"]

Next == \/ \E key \in Auctions :
             \/ Save(key) \/ Load(key)
             \/ \E name \in Names, token \in Tokens :
                  Reserve(key, name, token) \/ Release(key, name, token)
        \/ Tick

Spec == Init /\ [][Next]_vars

-----------------------------------------------------------------------------
(* absence: what a 404 says of an auction that is not in the table.        *)
Absence(key) ==
    IF key \in Keys(gone)
    THEN (CHOOSE g \in ToSet(gone) : g.key = key).reason
    ELSE IF evicted THEN "perhaps evicted" ELSE "not evicted"

(* The store is bounded whatever its callers do, and holds an auction, a   *)
(* reservation of one name and a tombstone once.                           *)
Bounded ==
    /\ Len(records) =< Capacity /\ Len(reservations) =< Ceiling
    /\ Len(gone) =< Capacity
    /\ Cardinality(Keys(records)) = Len(records)
    /\ Cardinality(Keys(gone)) = Len(gone)
    /\ Keys(records) \cap Keys(gone) = {}
    /\ \A g, h \in ToSet(reservations) :
          g.key = h.key /\ g.name = h.name => g = h

(* As long as its record is in the table, a live reservation is lost to    *)
(* its release only: no burst of other auctions, and no ceiling on         *)
(* reservations, hands a second caller the exit that makes an accept       *)
(* happen once.                                                            *)
ReservationStep ==
    \A h \in ToSet(reservations) :
        /\ Live(h) /\ h.key \in Keys(records) /\ h.key \in Keys(records')
        /\ h \notin ToSet(reservations')
        => Release(h.key, h.name, h.token)

ReservationsFollowRecords == [][ReservationStep]_vars

(* The cap takes the auction a merchant is minting for only when every     *)
(* auction it could keep instead is being minted for too.                  *)
MintingStep ==
    \A e \in ToSet(records) :
        Claimed(e.key) /\ ~Aged(e) /\ e.key \notin Keys(records')
        => \A k \in Keys(records') : Claimed(k)

MintingProtected == [][MintingStep]_vars

(* The 404 never blames the wrong bound: who is told of an eviction was    *)
(* evicted, who is told of the TTL aged out, also after the ring forgot.   *)
AbsenceTruthful ==
    \A a \in Auctions \ Keys(records) :
        /\ Absence(a) \in {"evicted", "expired"} => fate[a] = Absence(a)
        /\ Absence(a) = "not evicted" => fate[a] # "evicted"

(* For the auctions that are not forgotten this store is any AuctionStore: *)
(* what is in its tables and has not lapsed is what the contract says, and *)
(* neither the cap on records nor the ceiling on reservations ever takes   *)
(* more than the contract lets them.                                       *)
LiveRecords == {[auction |-> r.key, until |-> r.at + TTL] :
                   r \in {e \in ToSet(records) : ~Aged(e)}}

LiveHolds == {[auction |-> h.key, name |-> h.name, token |-> h.token, until |-> h.at + TTL] :
                 h \in {g \in ToSet(reservations) : Live(g)}}

Contract == INSTANCE AuctionStore WITH live <- LiveRecords, held <- LiveHolds,
                                       Forgetful <- TRUE

StoreKept == Contract!Spec
=============================================================================
