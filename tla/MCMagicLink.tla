------------------------------ MODULE MCMagicLink ------------------------------
(* Addresses and threads are interchangeable.                              *)
EXTENDS MagicLink, TLC

Alike == Permutations(Threads) \cup Permutations(Emails)
=============================================================================
