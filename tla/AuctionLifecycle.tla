--------------------------- MODULE AuctionLifecycle ---------------------------
(***************************************************************************)
(* What an auction promises to everybody who is not serving it: it walks   *)
(* once through its published states, and when it is accepted it is        *)
(* accepted on one bid, for good.  The store, the reservations and the     *)
(* replicas of module Auction are how the exchange keeps this promise.     *)
(***************************************************************************)
CONSTANTS Bids, NoBid

VARIABLES state, winner

(* auction/state.py, TRANSITIONS: the legal moves out of each state.       *)
Transitions(s) ==
    CASE s = "created" -> {"open", "expired"}
      [] s = "open"    -> {"closed", "expired"}
      [] s = "closed"  -> {"accepted", "expired"}
      [] OTHER         -> {}

Init == state = "none" /\ winner = NoBid

Begin == state = "none" /\ state' = "created" /\ UNCHANGED winner

Move == /\ state' \in Transitions(state) \ {"accepted"}
        /\ UNCHANGED winner

Award == /\ "accepted" \in Transitions(state)
         /\ state' = "accepted"
         /\ winner' \in Bids

Next == Begin \/ Move \/ Award

Spec == Init /\ [][Next]_<<state, winner>>
=============================================================================
