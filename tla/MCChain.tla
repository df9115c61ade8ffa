------------------------------- MODULE MCChain -------------------------------
EXTENDS Chain

CONSTANTS l1, l2, r1

(* Two deliveries of one id with different contents, the second a payload  *)
(* jsonb renormalises, and a second event.                                 *)
MCEvents == {"a", "A", "b"}
MCIdOf(e) == CASE e = "A" -> "a" [] OTHER -> e
MCFrail == {"A"}
=============================================================================
