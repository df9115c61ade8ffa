-------------------------- MODULE SolicitationProofs --------------------------
(***************************************************************************)
(* What module Solicitation guarantees for any rosters, any size of the    *)
(* pool, any window, and any number of auctions whose stores answer late   *)
(* or never.                                                               *)
(***************************************************************************)
EXTENDS Solicitation, TLAPS, FiniteSetTheorems, WellFoundedInduction

Places == {"none", "asking", "answered", "done"}
Phases == {"gate", "submit", "wait", "read", "closed"}

Shape ==
    /\ roster \in Seq(Stores) /\ phase \in Phases
    /\ task \in [Rows -> Places]
    /\ free \in Nat /\ stragglers \in Nat
    /\ cleared \subseteq Rows /\ pending \subseteq cleared

(* A row is submitted once: only rows that are not dialled are pending.    *)
Once == /\ \A i \in pending : task[i] = "none"
        /\ phase = "gate" => \A i \in Rows : task[i] = "none"

SlotInv == Shape /\ Once /\ SlotsAccounted

-----------------------------------------------------------------------------
LEMMA RowsFinite ==
    ASSUME Shape
    PROVE  /\ Rows \subseteq Nat /\ IsFiniteSet(Rows)
           /\ InStore \subseteq Rows /\ IsFiniteSet(InStore)
           /\ Cardinality(InStore) \in Nat
<1>1. Rows = 1..Len(roster) /\ Len(roster) \in Nat
  BY DEF Shape, Rows
<1>2. IsFiniteSet(Rows) /\ Rows \subseteq Nat
  BY <1>1, FS_Interval
<1>3. InStore \subseteq Rows
  BY DEF InStore
<1> QED BY <1>2, <1>3, FS_Subset, FS_CardinalityType

LEMMA SlotInit == Init => SlotInv
<1> SUFFICES ASSUME Init PROVE SlotInv
  OBVIOUS
<1>1. Rows = {} /\ InStore = {}
  BY DEF Init, Rows, InStore
<1>2. Shape /\ Once
  BY <1>1, WindowAssumption DEF Init, Shape, Once, Phases
<1> QED BY <1>1, <1>2, FS_EmptySet, WindowAssumption DEF Init, SlotInv, SlotsAccounted

LEMMA ShapeStep == SlotInv /\ [Next]_vars => Shape' /\ Once'
<1> SUFFICES ASSUME SlotInv, [Next]_vars PROVE Shape' /\ Once'
  OBVIOUS
<1>0. Shape /\ Once /\ Cardinality(InStore) \in Nat
  BY RowsFinite DEF SlotInv
<1>1. ASSUME NEW rows \in Rosters, Start(rows) PROVE Shape' /\ Once'
  <2>1. rows \in Seq(Stores)
    BY RosterAssumption
  <2> QED BY <1>0, <1>1, <2>1 DEF Start, Shape, Once, Rows, Places, Phases
<1>2. CASE Gate
  BY <1>0, <1>2 DEF Gate, Shape, Once, Rows, Phases, slots, workers
<1>3. CASE Submitted \/ Wait
  BY <1>0, <1>3 DEF Submitted, Wait, Shape, Once, Rows, Phases, slots, gated, workers
<1>4. CASE Collect
  BY <1>0, <1>4 DEF Collect, Shape, Once, Rows, Phases, slots, gated, workers
<1>5. ASSUME NEW i \in Rows, Submit(i) PROVE Shape' /\ Once'
  BY <1>0, <1>5 DEF Submit, NoMore, Shape, Once, Rows, Places, gated
<1>6. ASSUME NEW i \in Rows, Read(i) PROVE Shape' /\ Once'
  BY <1>0, <1>6 DEF Read, Shape, Once, Rows, slots, gated, workers
<1>7. ASSUME NEW i \in Rows, Answered(i) PROVE Shape' /\ Once'
  BY <1>0, <1>7 DEF Answered, Answer, GivesBack, Shape, Once, Rows, Places, gated
<1>8. ASSUME NEW i \in Rows, Finish(i) PROVE Shape' /\ Once'
  BY <1>0, <1>8 DEF Finish, Shape, Once, Rows, Places, slots, gated
<1>9. CASE Straggle
  BY <1>0, <1>9 DEF Straggle, GivesBack, Shape, Once, Rows, gated, workers
<1>10. CASE Tick \/ UNCHANGED vars
  BY <1>0, <1>10 DEF Tick, vars, Shape, Once, Rows, slots, gated, workers
<1> QED BY <1>1, <1>2, <1>3, <1>4, <1>5, <1>6, <1>7, <1>8, <1>9, <1>10 DEF Next, Serve

LEMMA SlotsStep == SlotInv /\ [Next]_vars => SlotsAccounted'
<1> SUFFICES ASSUME SlotInv, [Next]_vars PROVE SlotsAccounted'
  OBVIOUS
<1>0. /\ Shape /\ Once /\ SlotsAccounted
      /\ IsFiniteSet(InStore) /\ Cardinality(InStore) \in Nat
      /\ MaxWorkers \in Nat
  BY RowsFinite, WindowAssumption DEF SlotInv
<1>1. ASSUME NEW rows \in Rosters, Start(rows) PROVE SlotsAccounted'
  <2>1. InStore' = {}
    BY <1>1 DEF Start, InStore, Rows
  <2> QED BY <1>0, <1>1, <2>1, FS_EmptySet DEF Start, SlotsAccounted, Shape
<1>2. CASE UNCHANGED <<roster, task, free, stragglers>>
  BY <1>0, <1>2 DEF SlotsAccounted, InStore, Rows
<1>3. CASE Gate \/ Submitted \/ Wait \/ Collect \/ Tick \/ UNCHANGED vars
  BY <1>2, <1>3 DEF Gate, Submitted, Wait, Collect, Tick, vars, slots, gated, workers
<1>4. ASSUME NEW i \in Rows, Submit(i) PROVE SlotsAccounted'
  <2>1. InStore' = InStore \cup {i} /\ i \notin InStore
    BY <1>0, <1>4 DEF Submit, Once, InStore, Rows, Shape, gated
  <2>2. Cardinality(InStore') = Cardinality(InStore) + 1
    BY <1>0, <2>1, FS_AddElement
  <2>3. free' = free - 1 /\ stragglers' = stragglers
    BY <1>4 DEF Submit
  <2> QED BY <1>0, <2>2, <2>3 DEF SlotsAccounted, Shape
<1>5. ASSUME NEW i \in Rows, Answered(i) PROVE SlotsAccounted'
  <2>1. InStore' = InStore \ {i} /\ i \in InStore
    BY <1>0, <1>5 DEF Answered, Answer, InStore, Rows, Shape, gated
  <2>2. Cardinality(InStore') = Cardinality(InStore) - 1
    BY <1>0, <2>1, FS_RemoveElement
  <2>3. free' = free + 1 /\ stragglers' = stragglers
    BY <1>5 DEF Answered, Answer, GivesBack
  <2> QED BY <1>0, <2>2, <2>3 DEF SlotsAccounted, Shape
<1>6. ASSUME NEW i \in Rows, Read(i) \/ Finish(i) PROVE SlotsAccounted'
  <2>1. InStore' = InStore /\ UNCHANGED <<free, stragglers>>
    BY <1>0, <1>6 DEF Read, Finish, InStore, Rows, Shape, slots, gated, workers
  <2> QED BY <1>0, <2>1 DEF SlotsAccounted
<1>7. CASE Straggle
  <2>1. /\ InStore' = InStore /\ stragglers' = stragglers - 1
        /\ free' = free + 1
    BY <1>7 DEF Straggle, GivesBack, InStore, Rows, gated, workers
  <2> QED BY <1>0, <2>1 DEF SlotsAccounted, Shape
<1> QED BY <1>1, <1>3, <1>4, <1>5, <1>6, <1>7 DEF Next, Serve

(* BoundedFanOutPool (auction/fanout.py): whatever its stores do, however  *)
(* many auctions give up on them, every slot of the pool is free or inside *)
(* one store.                                                              *)
THEOREM SlotsConserved == Spec => []SlotsAccounted
<1>1. SlotInv /\ [Next]_vars => SlotInv'
  BY ShapeStep, SlotsStep DEF SlotInv
<1>2. SlotInv => SlotsAccounted
  BY DEF SlotInv
<1> QED BY <1>1, <1>2, SlotInit, PTL DEF Spec

-----------------------------------------------------------------------------
(* What the fan-out has heard is what the worker brought, once it is done. *)
Answers == Replies \cup {"unread", "timed_out", "nothing"}

Report ==
    /\ reply \in [Rows -> Replies \cup {NoReply}]
    /\ stamp \in [Rows -> Nat] /\ elapsed \in Nat
    /\ heard \in [Rows -> Answers]
    /\ \A i \in Rows : task[i] \in {"none", "asking"} <=> reply[i] = NoReply
    /\ \A i \in Rows : heard[i] \in {"offer", "walled"} => reply[i] = heard[i]
    /\ \A i \in Rows : heard[i] = "nothing" => reply[i] \in {"silent", "error"}
    /\ DOMAIN result = IF phase = "closed" THEN cleared ELSE {}

VerdictInv == Shape /\ Once /\ Report /\ VerdictsTrue

LEMMA ReportInit == Init => Report /\ VerdictsTrue
BY DEF Init, Report, VerdictsTrue, Rows

LEMMA ReportStep == Shape /\ Once /\ Report /\ [Next]_vars => Report'
<1> SUFFICES ASSUME Shape, Once, Report, [Next]_vars PROVE Report'
  OBVIOUS
<1>1. ASSUME NEW rows \in Rosters, Start(rows) PROVE Report'
  BY <1>1 DEF Start, Report, Rows, Answers
<1>2. CASE Gate \/ Submitted \/ Wait
  BY <1>2 DEF Gate, Submitted, Wait, Report, Rows, gated, workers
<1>3. CASE Collect
  BY <1>3 DEF Collect, Report, Rows, gated, workers
<1>4. ASSUME NEW i \in Rows, Submit(i) PROVE Report'
  <2>1. task[i] = "none" /\ phase = "submit"
    BY <1>4 DEF Submit, Once
  <2> QED BY <1>4, <2>1 DEF Submit, Shape, Report, Rows, gated
<1>5. ASSUME NEW i \in Rows, Read(i) PROVE Report'
  <2>1. task[i] = "done" => reply[i] \in Replies
    BY DEF Report
  <2>2. /\ Future(i) \in Answers
        /\ Future(i) \in {"offer", "walled"} => reply[i] = Future(i)
        /\ Future(i) = "nothing" => reply[i] \in {"silent", "error"}
    BY <2>1 DEF Future, Answers, Replies
  <2>3. /\ heard' = [heard EXCEPT ![i] = Future(i)]
        /\ UNCHANGED <<phase, elapsed, roster, cleared, task, reply, stamp, result>>
    BY <1>5 DEF Read, gated, workers
  <2> QED BY <2>2, <2>3 DEF Report, Rows
<1>6. ASSUME NEW i \in Rows, NEW r \in Replies, Answer(i, r) PROVE Report'
  <2>1. r # NoReply
    BY DEF Replies, NoReply
  <2>2. reply[i] = NoReply /\ NoReply \notin {"offer", "walled", "silent", "error"}
    BY <1>6 DEF Answer, Report, NoReply
  <2>3. heard[i] \notin {"offer", "walled", "nothing"}
    BY <2>2 DEF Report
  <2>4. /\ task' = [task EXCEPT ![i] = "answered"] /\ reply' = [reply EXCEPT ![i] = r]
        /\ stamp' = [stamp EXCEPT ![i] = elapsed]
        /\ UNCHANGED <<phase, elapsed, roster, cleared, heard, result>>
    BY <1>6 DEF Answer, gated
  <2> QED BY <2>1, <2>3, <2>4 DEF Report, Rows, Shape
<1>7. ASSUME NEW i \in Rows, Finish(i) PROVE Report'
  BY <1>7 DEF Finish, Report, Rows, Shape, gated
<1>8. CASE Straggle \/ Tick \/ UNCHANGED vars
  BY <1>8 DEF Straggle, Tick, vars, Report, Rows, gated, workers
<1> QED BY <1>1, <1>2, <1>3, <1>4, <1>5, <1>6, <1>7, <1>8 DEF Next, Serve, Answered

(* The first row of some rows.                                             *)
LEMMA FirstIs ==
    ASSUME NEW S \in SUBSET Nat, S # {}
    PROVE  (CHOOSE j \in S : \A k \in S : j <= k) \in S
<1> DEFINE Less == {ss \in Nat \X Nat : ss[1] < ss[2]}
<1>1. IsWellFoundedOn(Less, Nat)
  BY NatLessThanWellFounded DEF OpToRel
<1> HIDE DEF Less
<1>2. PICK j \in S : \A k \in S : <<k, j>> \notin Less
  BY <1>1, WFMin
<1>3. \A k \in S : j <= k
  <2> SUFFICES ASSUME NEW k \in S, k < j PROVE FALSE
    OBVIOUS
  <2>1. <<k, j>> \in Nat \X Nat /\ <<k, j>>[1] < <<k, j>>[2]
    OBVIOUS
  <2>2. <<k, j>> \in Less
    BY <2>1 DEF Less
  <2> QED BY <1>2, <2>2
<1> QED BY <1>3

(* What collect_bids makes of a row comes from the answers of its store's  *)
(* other rows, or from there being none.                                   *)
LEMMA VerdictFrom ==
    ASSUME Shape, Once, Report, NEW i \in cleared
    PROVE  LET same == {j \in cleared : roster[j] = roster[i]}
           IN  /\ Verdict(i) \in {"offer", "walled"} =>
                      \E j \in same : reply[j] = Verdict(i) /\ stamp[j] <= Window
               /\ Verdict(i) = "no_response" =>
                      \A j \in same : reply[j] \in {"silent", "error"}
               /\ Verdict(i) = "not_asked" => \E j \in same : j \notin Dialled
<1> DEFINE all == {j \in cleared : roster[j] = roster[i]}
           same == {j \in Askable : roster[j] = roster[i]}
           good == {j \in same : OnTime(j)}
           faults == {j \in same : j \in pending \/ heard[j] # "nothing"}
           First(rows) == CHOOSE j \in rows : \A k \in rows : j <= k
<1>1. /\ same \subseteq all /\ all \subseteq Rows /\ Rows \subseteq Nat
      /\ good \subseteq same /\ faults \subseteq same
  BY RowsFinite DEF Askable, Shape
<1>2. same # {} => same = all
  BY DEF Askable
<1>3. good # {} => First(good) \in good
  BY <1>1, FirstIs
<1>4. faults # {} => First(faults) \in faults
  BY <1>1, FirstIs
<1>5. Verdict(i) = IF same = {} THEN "no_agent"
                   ELSE IF good # {} THEN heard[First(good)]
                   ELSE IF faults # {} THEN Unusable(First(faults))
                   ELSE "no_response"
  BY DEF Verdict
<1> DEFINE g == First(good)
           f == First(faults)
<1>6. \A j \in Rows : heard[j] \in Answers
  BY DEF Report
<1> HIDE DEF First
<1>7. CASE same # {} /\ good # {}
  <2>1. g \in all /\ Arrived(g) /\ stamp[g] <= Window
    BY <1>1, <1>3, <1>7 DEF OnTime
  <2>2. reply[g] = heard[g]
    BY <1>1, <2>1 DEF Arrived, Report
  <2>3. Verdict(i) = heard[g] /\ heard[g] \in {"offer", "walled"}
    BY <1>5, <1>7, <2>1 DEF Arrived
  <2> HIDE DEF g, same, good, faults
  <2> QED BY <2>1, <2>2, <2>3
<1>8. CASE same # {} /\ good = {} /\ faults # {}
  <2>1. f \in all /\ f \in faults
    BY <1>1, <1>4, <1>8
  <2>2. Verdict(i) = Unusable(f)
    BY <1>5, <1>8
  <2>3. heard[f] \in Answers
    BY <1>1, <1>6, <2>1
  <2>4. f \in pending => f \notin Dialled
    BY DEF Once, Dialled
  <2> HIDE DEF f, same, good, faults
  <2>5. Unusable(f) \notin {"offer", "walled", "no_response"}
    BY <2>3 DEF Unusable, Arrived, Answers, Replies
  <2>6. Unusable(f) = "not_asked" => f \in pending
    BY <2>3 DEF Unusable, Answers, Replies
  <2> QED BY <2>1, <2>2, <2>4, <2>5, <2>6
<1>9. CASE same # {} /\ good = {} /\ faults = {}
  <2>1. \A j \in all : heard[j] = "nothing"
    BY <1>2, <1>9
  <2>2. \A j \in all : reply[j] \in {"silent", "error"}
    BY <1>1, <2>1 DEF Report
  <2>3. Verdict(i) = "no_response"
    BY <1>5, <1>9
  <2> QED BY <2>2, <2>3
<1>10. CASE same = {}
  BY <1>5, <1>10
<1> QED BY <1>7, <1>8, <1>9, <1>10

LEMMA VerdictsStep == VerdictInv /\ [Next]_vars => VerdictsTrue'
<1> SUFFICES ASSUME VerdictInv, [Next]_vars PROVE VerdictsTrue'
  OBVIOUS
<1>0. Shape /\ Once /\ Report /\ VerdictsTrue
  BY DEF VerdictInv
<1>1. CASE DOMAIN result' = {}
  BY <1>1 DEF VerdictsTrue
<1>2. CASE Collect
  <2>1. /\ result' = [i \in cleared |-> Verdict(i)]
        /\ UNCHANGED <<roster, cleared, task, reply, stamp>>
    BY <1>2 DEF Collect, gated, workers
  <2> QED BY <1>0, <2>1, VerdictFrom DEF VerdictsTrue, Dialled, Rows
<1>3. ASSUME UNCHANGED <<roster, cleared, task, reply, stamp, result>>
      PROVE  VerdictsTrue'
  BY <1>0, <1>3 DEF VerdictsTrue, Dialled, Rows
<1>4. ASSUME NEW rows \in Rosters, Start(rows) PROVE VerdictsTrue'
  BY <1>1, <1>4 DEF Start
<1>5. CASE phase # "closed" /\ result' = result
  BY <1>0, <1>1, <1>5 DEF Report
<1>6. CASE Gate \/ Submitted \/ Wait
  BY <1>5, <1>6 DEF Gate, Submitted, Wait
<1>7. ASSUME NEW i \in Rows, Submit(i) \/ Read(i) PROVE VerdictsTrue'
  BY <1>5, <1>7 DEF Submit, Read
<1>8. ASSUME NEW i \in Rows, NEW r \in Replies, Answer(i, r) PROVE VerdictsTrue'
  <2>1. reply[i] = NoReply /\ i \in Dialled
    BY <1>0, <1>8 DEF Answer, Report, Dialled
  <2>2. /\ task' = [task EXCEPT ![i] = "answered"] /\ reply' = [reply EXCEPT ![i] = r]
        /\ stamp' = [stamp EXCEPT ![i] = elapsed]
        /\ UNCHANGED <<roster, cleared, result>>
    BY <1>8 DEF Answer, gated
  <2>3. Dialled' = Dialled
    BY <1>0, <2>1, <2>2 DEF Dialled, Rows, Shape
  <2>4. \A j \in Rows : reply[j] \in Replies => reply'[j] = reply[j] /\ stamp'[j] = stamp[j]
    BY <1>0, <2>1, <2>2 DEF Report, Replies, NoReply
  <2>5. cleared \subseteq Rows
    BY <1>0 DEF Shape
  <2> QED BY <1>0, <2>2, <2>3, <2>4, <2>5 DEF VerdictsTrue, Replies
<1>9. ASSUME NEW i \in Rows, Finish(i) PROVE VerdictsTrue'
  <2>1. Dialled' = Dialled
    BY <1>0, <1>9 DEF Finish, Dialled, Rows, Shape, gated
  <2> QED BY <1>0, <1>9, <2>1 DEF Finish, VerdictsTrue, gated
<1>10. CASE Straggle \/ Tick \/ UNCHANGED vars
  BY <1>3, <1>10 DEF Straggle, Tick, vars, gated, workers
<1> QED BY <1>2, <1>4, <1>6, <1>7, <1>8, <1>9, <1>10 DEF Next, Serve, Answered

(* collect_bids (auction/collect.py): for any roster, with a store on any  *)
(* number of its rows, an auction's account of it is the truth: a bid is   *)
(* judged on its merits only when it was made inside the window, silence   *)
(* is a store that was dialled for every row and brought nothing, and a    *)
(* store said not to have been asked was not dialled for some row.         *)
THEOREM VerdictsKept == Spec => []VerdictsTrue
<1>1. SlotInv /\ Report /\ VerdictsTrue /\ [Next]_vars
        => (SlotInv /\ Report /\ VerdictsTrue)'
  BY ShapeStep, SlotsStep, ReportStep, VerdictsStep DEF SlotInv, VerdictInv
<1> QED BY <1>1, SlotInit, ReportInit, PTL DEF Spec

-----------------------------------------------------------------------------
(* The clock goes one tick past the window, and no stamp is later.         *)
Timed ==
    /\ roster \in Rosters \cup {<<>>}
    /\ elapsed \in 0..Window + 1
    /\ \A i \in Rows : stamp[i] \in 0..Window + 1

LEMMA TimedStep == Shape /\ Report /\ Timed /\ [Next]_vars => Timed'
<1> SUFFICES ASSUME Shape, Report, Timed, [Next]_vars PROVE Timed'
  OBVIOUS
<1>0. 0 \in 0..Window + 1
  BY WindowAssumption
<1>1. ASSUME NEW rows \in Rosters, Start(rows) PROVE Timed'
  BY <1>0, <1>1 DEF Start, Timed, Rows
<1>2. CASE UNCHANGED <<roster, elapsed, stamp>>
  BY <1>2 DEF Timed, Rows
<1>3. ASSUME NEW i \in Rows, NEW r \in Replies, Answer(i, r) PROVE Timed'
  <2>1. stamp' = [stamp EXCEPT ![i] = elapsed] /\ roster' = roster /\ elapsed' = elapsed
    BY <1>3 DEF Answer, gated
  <2>2. \A j \in Rows : stamp'[j] \in {stamp[j], elapsed}
    BY <2>1 DEF Report
  <2> QED BY <2>1, <2>2 DEF Timed, Rows
<1>4. CASE Tick
  <2>1. elapsed' = elapsed + 1 /\ elapsed <= Window /\ roster' = roster /\ stamp' = stamp
    BY <1>4 DEF Tick, gated, workers
  <2>2. elapsed' \in 0..Window + 1
    BY <2>1, WindowAssumption DEF Report
  <2> QED BY <2>1, <2>2 DEF Timed, Rows
<1>5. ASSUME NEW i \in Rows, Submit(i) \/ Read(i) \/ Finish(i) PROVE Timed'
  BY <1>2, <1>5 DEF Submit, Read, Finish, gated, workers
<1>6. CASE Gate \/ Submitted \/ Wait \/ Collect \/ Straggle \/ UNCHANGED vars
  BY <1>2, <1>6 DEF Gate, Submitted, Wait, Collect, Straggle, vars, gated, workers
<1> QED BY <1>1, <1>3, <1>4, <1>5, <1>6 DEF Next, Serve, Answered

(* The fan-out's tables are about the roster the auction was asked for,    *)
(* the pool never has more slots than workers, the clock stops a tick      *)
(* after the window, and there is an entry for each cleared row and for    *)
(* none before the auction is over.                                        *)
THEOREM TypeCorrect == Spec => []TypeOK
<1>1. Init => SlotInv /\ Report /\ Timed
  <2> SUFFICES ASSUME Init PROVE Timed
    BY SlotInit, ReportInit
  <2>1. Rows = {} /\ elapsed = 0 /\ roster = <<>>
    BY DEF Init, Rows
  <2> QED BY <2>1, WindowAssumption DEF Timed
<1>2. SlotInv /\ Report /\ Timed /\ [Next]_vars => (SlotInv /\ Report /\ Timed)'
  BY ShapeStep, SlotsStep, ReportStep, TimedStep DEF SlotInv
<1>3. SlotInv /\ Report /\ Timed => TypeOK
  <2> SUFFICES ASSUME SlotInv, Report, Timed PROVE TypeOK
    OBVIOUS
  <2>1. Shape /\ SlotsAccounted /\ Cardinality(InStore) \in Nat
    BY RowsFinite DEF SlotInv
  <2>2. free \in 0..MaxWorkers /\ stragglers \in 0..MaxWorkers
    BY <2>1, WindowAssumption DEF SlotsAccounted, Shape
  <2>3. stamp \in [Rows -> 0..Window + 1]
    BY DEF Report, Timed
  <2> QED BY <2>1, <2>2, <2>3 DEF Shape, Phases, Places, Report, Answers, Timed, TypeOK
<1> QED BY <1>1, <1>2, <1>3, PTL DEF Spec

=============================================================================
