--------------------------- MODULE MCAuctionMemory ---------------------------
(***************************************************************************)
(* Model checking AuctionMemory: more auctions than the table holds, the   *)
(* claim and one other reservation name.  Auctions are interchangeable.    *)
(***************************************************************************)
EXTENDS AuctionMemory

Interchangeable == Permutations(Auctions)
=============================================================================
