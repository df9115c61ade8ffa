------------------------------ MODULE MCAuction ------------------------------
(***************************************************************************)
(* Model checking Auction: one creation, buyers who press accept, one      *)
(* caller of expire, a bid that mints a code and the list-price fallback.  *)
(* The buyers are interchangeable: no definition tells them apart.         *)
(***************************************************************************)
EXTENDS Auction, TLC

Buyers == Permutations(Acceptors)
=============================================================================
