---------------------------- MODULE MCExternalBids ----------------------------
(* Three submissions: one whose auction closes before its window does, one *)
(* whose auction outlives it, and one with no deadline at all.             *)
EXTENDS ExternalBids, TLC

CONSTANTS tight, loose, undated

MCSubmissions == {tight, loose, undated}

MCIssued   == tight :> 0 @@ loose :> 1 @@ undated :> 1
MCDeadline == tight :> 1 @@ loose :> 3 @@ undated :> NoDeadline

Alike == Permutations(Replicas)
=============================================================================
