----------------------------- MODULE AuctionStore -----------------------------
(***************************************************************************)
(* What the exchange relies on in any AuctionStore, Redis or in memory,    *)
(* after the protocol class and its docstrings: a record lives for a TTL   *)
(* from its last save, a reservation for a TTL from when it was taken, and *)
(* both are gone at the instant it ends.  A reservation is won by one, and *)
(* ends before its time only with a release that names its token.          *)
(*                                                                         *)
(* A store with a cap may lose more: the record of some other auction when *)
(* a new one is saved, always with the reservations on it, and now and     *)
(* then reservations with no record behind them.  It loses no reservation  *)
(* whose record it keeps.                                                  *)
(***************************************************************************)
EXTENDS Integers

CONSTANTS
    Auctions, Names, Tokens,
    TTL,        \* AUCTION_TTL_SECONDS
    Forgetful   \* has the store a cap?

VARIABLES
    now,
    live,   \* the records there are: of which auction, until when
    held    \* the reservations: on what, with which token, until when

store == <<now, live, held>>

Alive(a) == \E r \in live : r.auction = a

Saved(a) == [auction |-> a, until |-> now + TTL]

Taken(a, n, t) == [auction |-> a, name |-> n, token |-> t, until |-> now + TTL]

(* The auctions lost to a save are all but one of them gone already, and   *)
(* writing a record again displaces none.                                  *)
Save(a) ==
    /\ now' = now
    /\ \E lost \in SUBSET Auctions :
         LET displaced == {b \in lost : b = a \/ Alive(b)}
         IN  /\ held' = {h \in held : h.auction \notin lost}
             /\ live' = {r \in live : r.auction \notin lost \cup {a}}
                            \cup {Saved(b) : b \in {a} \ lost}
             /\ lost # {} => Forgetful
             /\ \A b, c \in displaced : b = c
             /\ displaced # {} => ~Alive(a)

(* A record that has aged out is found so, and leaves nothing behind.      *)
Reap(a) ==
    /\ Forgetful /\ ~Alive(a)
    /\ held' = {h \in held : h.auction # a}

(* One reservation too many costs one its place that constrains nothing.   *)
Reserve(a, n, t) ==
    /\ ~\E h \in held : h.auction = a /\ h.name = n
    /\ LET all == held \cup {Taken(a, n, t)}
       IN  /\ held' \subseteq all
           /\ \A g \in all \ held' : Forgetful /\ ~Alive(g.auction)
           /\ \A g, h \in all \ held' : g = h

Release(a, n, t) ==
    held' = {h \in held : ~(h.auction = a /\ h.name = n /\ h.token = t)}

Tick ==
    /\ now' = now + 1
    /\ live' = {r \in live : now + 1 < r.until}
    /\ held' = {h \in held : now + 1 < h.until}

Init == now = 0 /\ live = {} /\ held = {}

(* Whatever is done about a reservation leaves every record as it was.     *)
Next ==
    \/ /\ UNCHANGED <<now, live>>
       /\ \E a \in Auctions :
            \/ \E n \in Names, t \in Tokens : Reserve(a, n, t) \/ Release(a, n, t)
            \/ Reap(a)
    \/ \E a \in Auctions : Save(a)
    \/ Tick

Spec == Init /\ [][Next]_store
=============================================================================
