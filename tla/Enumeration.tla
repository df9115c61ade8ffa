----------------------------- MODULE Enumeration -----------------------------
(***************************************************************************)
(* Sets of numbers taken in their order, and the entries of a table or of  *)
(* a sequence that they are the places of.  (SelectSeq and FoldLeft say    *)
(* the same of a sequence, but nothing can be proved about them here.)     *)
(***************************************************************************)
EXTENDS Integers, FiniteSets

InOrder(S) == [i \in 1..Cardinality(S) |->
                  CHOOSE k \in S : Cardinality({j \in S : j <= k}) = i]

InTurn(t, S) == LET order == InOrder(S) IN [i \in DOMAIN order |-> t[order[i]]]
=============================================================================
