------------------------------- MODULE EventLog -------------------------------
(***************************************************************************)
(* What the trust ledger promises whoever sends it an event: a log that    *)
(* only grows at its end, that nobody can reorder, and that holds an event *)
(* id once, with the content of whichever delivery got there first.        *)
(***************************************************************************)
EXTENDS Sequences

CONSTANTS Events, IdOf(_)   \* an event's content, and its idempotency key

VARIABLE log

Init == log = <<>>

Append1(e) ==
    /\ \A i \in DOMAIN log : IdOf(log[i]) # IdOf(e)
    /\ log' = Append(log, e)

Next == \E e \in Events : Append1(e)

Spec == Init /\ [][Next]_log
=============================================================================
