----------------------------- MODULE ChainProofs -----------------------------
(***************************************************************************)
(* What module Chain guarantees for any events, any writers of either      *)
(* kind, and any number of appends, rollbacks and outages.                 *)
(*                                                                         *)
(* That the rows are one chain needs no advisory lock: it holds for        *)
(* writers that never take it (ForksFromOutside is about what the lock     *)
(* saves).  The argument rests on digests growing with the chain: a        *)
(* writer whose prev_hash is as long as the head has seen the head, and    *)
(* nothing was committed since, so the seq it drew afterwards is past      *)
(* every row (InLine); and one that passed the guard before another        *)
(* committed carries a prev_hash that is taken (the third part of InLine). *)
(***************************************************************************)
EXTENDS Chain, EnumerationProofs

RowType == [body : Events, prev : Seq(Events), hash : Seq(Events), by : Writers]

Rowed == /\ Rows \subseteq Nat /\ IsFiniteSet(Rows)
         /\ table = [n \in Rows |-> table[n]]
         /\ \A n \in Rows : table[n] \in RowType

Local == /\ stage \in [Writers -> Stages]
         /\ body \in [Writers -> Events \cup {NoEvent}]
         /\ prev \in [Writers -> Seq(Events)]
         /\ seq \in [Writers -> Nat] /\ serial \in Nat
         /\ \A w \in Writers : stage[w] # "idle" => body[w] \in Events

(* The anchor is the tail.                                                 *)
Tip == /\ anchor \in [head : Seq(Events), length : Nat, last : Nat]
       /\ anchor.last <= serial
       /\ \A n \in Rows : n <= anchor.last
       /\ anchor.length = Cardinality(Rows)
       /\ Rows = {} => anchor.last = 0 /\ anchor.head = Genesis
       /\ Rows # {} => anchor.last \in Rows /\ anchor.head = table[anchor.last].hash

Sealing == \A n \in Rows : /\ table[n].prev = Head_(Before(n))
                           /\ table[n].hash = Append(table[n].prev, table[n].body)

Listed == \A i \in DOMAIN anchor.head : \E n \in Rows : table[n].body = anchor.head[i]

InLine(w) ==
    /\ stage[w] \in {"linked", "drawn", "guarded", "written"} =>
         /\ Len(prev[w]) <= Len(anchor.head)
         /\ Len(prev[w]) = Len(anchor.head) => prev[w] = anchor.head
    /\ stage[w] \in {"drawn", "guarded", "written"} =>
         /\ seq[w] <= serial
         /\ prev[w] = anchor.head => anchor.last < seq[w]
    /\ stage[w] = "guarded" =>
         prev[w] = anchor.head \/ \E n \in Rows : table[n].prev = prev[w]
    /\ stage[w] = "written" => prev[w] = anchor.head /\ Holding(body[w]) = {}

OneOpen == \A v, w \in Writers : stage[v] = "written" /\ stage[w] = "written" => v = w

ChainInv == /\ Rowed /\ Local /\ Tip /\ Sealing /\ Listed
            /\ (\A w \in Writers : InLine(w)) /\ OneOpen

-----------------------------------------------------------------------------
(* The highest of a set of numbers, where there is one.                    *)
LEMMA HighestIs ==
    ASSUME NEW S \in SUBSET Nat, NEW h \in S, \A m \in S : m <= h
    PROVE  Highest(S) = h
<1>1. \A m \in S : m <= Highest(S)
  BY DEF Highest
<1>2. Highest(S) \in S
  BY DEF Highest
<1>3. PICK k \in Nat : k = Highest(S)
  BY <1>2
<1>4. h <= k /\ k <= h /\ h \in Nat
  BY <1>1, <1>2, <1>3
<1> QED BY <1>3, <1>4

(* The tail that a writer reads is the anchor's head.                      *)
LEMMA TailIsAnchor == Rowed /\ Tip => Head_(table) = anchor.head
<1> SUFFICES ASSUME Rowed, Tip PROVE Head_(table) = anchor.head
  OBVIOUS
<1>1. CASE Rows = {}
  BY <1>1 DEF Tip, Head_, Rows
<1>2. CASE Rows # {}
  <2>1. Highest(Rows) = anchor.last
    BY <1>2, HighestIs DEF Rowed, Tip
  <2> QED BY <1>2, <2>1 DEF Tip, Head_, Rows
<1> QED BY <1>1, <1>2

(* Only a commit writes the table or the anchor.                           *)
Moves(w) == Step(w) \/ Outage(w) \/ Rollback(w) \/ \E e \in Events : Send(w, e)

LEMMA MovesQuiet ==
    ASSUME Local, NEW w \in Writers, Moves(w), ~Commit(w)
    PROVE  UNCHANGED <<table, anchor>> /\ serial' \in Nat /\ serial <= serial'
<1>1. CASE Step(w)
  BY <1>1 DEF Step, Lookup, Link, Draw, Guard, Index, Rehash, Answer, Refuse, Local
<1>2. CASE Outage(w) \/ Rollback(w) \/ \E e \in Events : Send(w, e)
  BY <1>2 DEF Outage, Rollback, Send, Local
<1> QED BY <1>1, <1>2 DEF Moves

LEMMA Quiet ==
    Local /\ Next => \/ \E w \in Writers : Commit(w)
                     \/ UNCHANGED <<table, anchor>> /\ serial' \in Nat /\ serial <= serial'
<1> SUFFICES ASSUME Local, Next, \A w \in Writers : ~Commit(w)
             PROVE  UNCHANGED <<table, anchor>> /\ serial' \in Nat /\ serial <= serial'
  OBVIOUS
<1>1. ASSUME StartWalk \/ Page PROVE UNCHANGED <<table, anchor, serial>>
  BY <1>1 DEF StartWalk, Page
<1> QED BY <1>1, MovesQuiet DEF Next, Moves, Local

-----------------------------------------------------------------------------
LEMMA LocalInit == Init => Local
BY DEF Init, Local, Stages, Genesis

LEMMA OverLocal ==
    ASSUME Local, NEW w \in Writers, Over(w), serial' = serial
    PROVE  Local'
<1>1. Genesis \in Seq(Events)
  BY DEF Genesis
<1>2. stage' \in [Writers -> Stages] /\ stage' = [stage EXCEPT ![w] = "idle"]
  BY DEF Over, To, Local, Stages
<1>3. body' \in [Writers -> Events \cup {NoEvent}] /\ body' = [body EXCEPT ![w] = NoEvent]
  BY DEF Over, Local
<1>4. prev' \in [Writers -> Seq(Events)] /\ seq' \in [Writers -> Nat]
  BY <1>1 DEF Over, Local
<1>5. \A v \in Writers : stage'[v] # "idle" => body'[v] \in Events
  BY <1>2, <1>3 DEF Local
<1> QED BY <1>2, <1>3, <1>4, <1>5 DEF Local

LEMMA LocalStep == Rowed /\ Tip /\ Local /\ [Next]_vars => Local'
<1> SUFFICES ASSUME Rowed, Tip, Local, [Next]_vars PROVE Local'
  OBVIOUS
<1>1. Head_(table) \in Seq(Events) /\ Genesis \in Seq(Events)
  BY TailIsAnchor DEF Tip, Genesis
<1>2. CASE UNCHANGED vars
  BY <1>2 DEF Local, vars, mine
<1>3. ASSUME NEW w \in Writers, Step(w) PROVE Local'
  <2>1. CASE Lookup(w) \/ Rehash(w)
    BY <2>1 DEF Lookup, Rehash, To, Local, Stages
  <2>2. CASE Link(w)
    BY <2>2, <1>1 DEF Link, To, Local, Stages
  <2>3. CASE Draw(w)
    BY <2>3 DEF Draw, To, Local, Stages
  <2>4. CASE Guard(w)
    <3>1. CASE prev[w] = Head_(table)
      BY <2>4, <3>1 DEF Guard, To, Local, Stages
    <3>2. CASE prev[w] # Head_(table)
      BY <2>4, <3>2, OverLocal DEF Guard, Settle
    <3> QED BY <3>1, <3>2
  <2>5. CASE Index(w)
    <3>1. CASE Taken(w) # {} /\ w \in Library
      <4>1. /\ stage' = [stage EXCEPT ![w] = "queued"] /\ body' = body
            /\ prev' = [prev EXCEPT ![w] = Genesis] /\ seq' = [seq EXCEPT ![w] = 0]
            /\ serial' = serial /\ stage[w] = "guarded"
        BY <2>5, <3>1 DEF Index, To
      <4> QED BY <4>1, <1>1 DEF Local, Stages
    <3>2. CASE Taken(w) = {} /\ ~Branches(w)
      BY <2>5, <3>2 DEF Index, To, Local, Stages
    <3>3. CASE Over(w)
      BY <2>5, <3>3, OverLocal DEF Index
    <3> QED BY <2>5, <3>1, <3>2, <3>3 DEF Index, Settle
  <2>6. CASE Commit(w)
    <3>1. CASE w \in Library
      BY <2>6, <3>1 DEF Commit, To, Local, Stages
    <3>2. CASE w \notin Library
      BY <2>6, <3>2, OverLocal DEF Commit
    <3> QED BY <3>1, <3>2
  <2>7. CASE Answer(w) \/ Refuse(w)
    BY <2>7, OverLocal DEF Answer, Refuse, Settle
  <2> QED BY <1>3, <2>1, <2>2, <2>3, <2>4, <2>5, <2>6, <2>7 DEF Step
<1>4. ASSUME NEW w \in Writers, Outage(w) \/ Rollback(w) PROVE Local'
  BY <1>4, OverLocal DEF Outage, Rollback, Settle
<1>5. ASSUME NEW w \in Writers, NEW e \in Events, Send(w, e) PROVE Local'
  BY <1>5 DEF Send, To, Local, Stages
<1>6. CASE StartWalk \/ Page
  <2>1. UNCHANGED <<stage, body, prev, seq, serial>>
    BY <1>6 DEF StartWalk, Page, mine
  <2> QED BY <2>1 DEF Local
<1> QED BY <1>2, <1>3, <1>4, <1>5, <1>6 DEF Next

-----------------------------------------------------------------------------
(* What a commit writes: a row past every row, behind the head.            *)
Written(w) ==
    /\ seq[w] \in Nat /\ anchor.last < seq[w] /\ seq[w] <= serial /\ serial' = serial
    /\ seq[w] \notin Rows /\ Rows' = Rows \cup {seq[w]}
    /\ \A n \in Rows : table'[n] = table[n] /\ n < seq[w]
    /\ prev[w] = anchor.head /\ body[w] \in Events
    /\ table'[seq[w]] = [body |-> body[w], prev |-> anchor.head,
                         hash |-> Append(anchor.head, body[w]), by |-> w]
    /\ anchor' = [head |-> Append(anchor.head, body[w]),
                  length |-> anchor.length + 1, last |-> seq[w]]
    /\ table' = [n \in Rows' |-> table'[n]]
    /\ Holding(body[w]) = {}

LEMMA CommitWrites ==
    ASSUME ChainInv, NEW w \in Writers, Commit(w)
    PROVE  Written(w)
<1>1. stage[w] = "written" /\ InLine(w)
  BY DEF Commit, ChainInv
<1>2. /\ prev[w] = anchor.head /\ anchor.last < seq[w] /\ seq[w] <= serial
      /\ seq[w] \in Nat /\ body[w] \in Events /\ Holding(body[w]) = {}
  BY <1>1 DEF InLine, ChainInv, Local
<1>3. Rows \subseteq Nat /\ anchor.last \in Nat /\ \A n \in Rows : n <= anchor.last
  BY DEF ChainInv, Tip, Rowed
<1>4. seq[w] \notin Rows /\ \A n \in Rows : n < seq[w]
  BY <1>2, <1>3
<1> DEFINE row == [body |-> body[w], prev |-> prev[w],
                   hash |-> Append(prev[w], body[w]), by |-> w]
<1>5. /\ table' = [n \in Rows \cup {seq[w]} |-> IF n = seq[w] THEN row ELSE table[n]]
      /\ anchor' = [head |-> row.hash, length |-> anchor.length + 1, last |-> seq[w]]
      /\ serial' = serial
  BY DEF Commit
<1>6. Rows' = Rows \cup {seq[w]}
  BY <1>5 DEF Rows
<1>7. \A n \in Rows : table'[n] = table[n]
  BY <1>4, <1>5
<1>8. table'[seq[w]] = row
  BY <1>5
<1>9. table' = [n \in Rows' |-> table'[n]]
  BY <1>5, <1>6
<1> QED BY <1>2, <1>4, <1>5, <1>6, <1>7, <1>8, <1>9 DEF Written

LEMMA RowedStep == ChainInv /\ [Next]_vars => Rowed'
<1> SUFFICES ASSUME ChainInv, [Next]_vars PROVE Rowed'
  OBVIOUS
<1>1. CASE UNCHANGED <<table, anchor>>
  BY <1>1 DEF Rowed, Rows, ChainInv
<1>2. ASSUME NEW w \in Writers, Commit(w) PROVE Rowed'
  <2>0. Written(w) /\ Rowed /\ Tip
    BY <1>2, CommitWrites DEF ChainInv
  <2>1. IsFiniteSet(Rows \cup {seq[w]}) /\ Rows' = Rows \cup {seq[w]}
    BY <2>0, FS_AddElement DEF Written, Rowed
  <2>2. table'[seq[w]] \in RowType
    BY <2>0 DEF Written, RowType, Tip
  <2>3. \A n \in Rows' : table'[n] \in RowType
    BY <2>0, <2>2 DEF Written, Rowed
  <2>4. Rows' \subseteq Nat /\ table' = [n \in Rows' |-> table'[n]]
    BY <2>0 DEF Written, Rowed
  <2> QED BY <2>1, <2>3, <2>4 DEF Rowed
<1>3. CASE UNCHANGED vars
  BY <1>1, <1>3 DEF vars
<1> QED BY <1>1, <1>2, <1>3, Quiet DEF ChainInv

LEMMA TipStep == ChainInv /\ [Next]_vars => Tip'
<1> SUFFICES ASSUME ChainInv, [Next]_vars PROVE Tip'
  OBVIOUS
<1>1. CASE UNCHANGED <<table, anchor>> /\ serial' \in Nat /\ serial <= serial'
  <2>1. Tip /\ serial \in Nat /\ anchor.last \in Nat
    BY DEF ChainInv, Local, Tip
  <2> QED BY <1>1, <2>1 DEF Tip, Rows
<1>2. ASSUME NEW w \in Writers, Commit(w) PROVE Tip'
  <2>0. Written(w) /\ Rowed /\ Tip
    BY <1>2, CommitWrites DEF ChainInv
  <2>1. Cardinality(Rows \cup {seq[w]}) = Cardinality(Rows) + 1
    BY <2>0, FS_AddElement DEF Written, Rowed
  <2>2. anchor' \in [head : Seq(Events), length : Nat, last : Nat]
    BY <2>0 DEF Written, Tip
  <2>3. \A n \in Rows' : n <= anchor'.last
    BY <2>0 DEF Written, Tip, Rowed
  <2>4. /\ anchor'.last \in Rows' /\ anchor'.head = table'[anchor'.last].hash
        /\ anchor'.last <= serial' /\ anchor'.length = Cardinality(Rows')
    BY <2>0, <2>1 DEF Written, Tip
  <2> QED BY <2>2, <2>3, <2>4 DEF Tip
<1>3. CASE UNCHANGED vars
  BY <1>3 DEF Tip, Rows, ChainInv, vars
<1> QED BY <1>1, <1>2, <1>3, Quiet DEF ChainInv

-----------------------------------------------------------------------------
(* The rows before a row are the rows before it after a commit too.        *)
LEMMA SealingStep == ChainInv /\ [Next]_vars => Sealing'
<1> SUFFICES ASSUME ChainInv, [Next]_vars PROVE Sealing'
  OBVIOUS
<1>0. Rowed /\ Tip /\ Sealing
  BY DEF ChainInv
<1>1. CASE UNCHANGED table
  BY <1>0, <1>1 DEF Sealing, Rows, Before, Head_
<1>2. ASSUME NEW w \in Writers, Commit(w) PROVE Sealing'
  <2>0. Written(w)
    BY <1>2, CommitWrites
  <2>1. ASSUME NEW n \in Rows
        PROVE  Before(n)' = Before(n)
    <3>1. \A k \in Nat : k < n => k # seq[w]
      BY <2>0, <1>0 DEF Written, Rowed
    <3>2. {k \in Rows' : k < n} = {k \in Rows : k < n}
      BY <2>0, <3>1, <1>0 DEF Written, Rowed
    <3> QED BY <2>0, <3>2 DEF Written, Before
  <2>2. PICK s \in Nat : s = seq[w]
    BY <2>0 DEF Written
  <2>3. Before(s)' = table
    <3>1. {k \in Rows' : k < s} = Rows
      BY <2>0, <2>2, <1>0 DEF Written, Rowed
    <3>2. Before(s)' = [m \in Rows |-> table[m]]
      BY <2>0, <3>1 DEF Written, Before
    <3> QED BY <3>2, <1>0 DEF Rowed
  <2>4. Head_(Before(s))' = anchor.head
    BY <2>3, <1>0, TailIsAnchor DEF Head_
  <2>5. ASSUME NEW n \in Rows
        PROVE  /\ table'[n].prev = Head_(Before(n))'
               /\ table'[n].hash = Append(table'[n].prev, table'[n].body)
    <3>1. Head_(Before(n))' = Head_(Before(n))
      BY <2>1 DEF Head_
    <3> QED BY <2>0, <3>1, <1>0 DEF Sealing, Written
  <2>6. /\ table'[s].prev = Head_(Before(s))'
        /\ table'[s].hash = Append(table'[s].prev, table'[s].body)
    BY <2>0, <2>2, <2>4 DEF Written
  <2> QED BY <2>0, <2>2, <2>5, <2>6 DEF Sealing, Written
<1>3. CASE UNCHANGED vars
  BY <1>1, <1>3 DEF vars
<1> QED BY <1>1, <1>2, <1>3, Quiet DEF ChainInv

(* Every event the head commits to has its row.                            *)
LEMMA ListedStep == ChainInv /\ [Next]_vars => Listed'
<1> SUFFICES ASSUME ChainInv, [Next]_vars PROVE Listed'
  OBVIOUS
<1>1. CASE UNCHANGED <<table, anchor>>
  BY <1>1 DEF ChainInv, Listed, Rows
<1>2. ASSUME NEW w \in Writers, Commit(w) PROVE Listed'
  <2>0. Written(w) /\ Tip /\ Listed
    BY <1>2, CommitWrites DEF ChainInv
  <2>1. /\ anchor.head \in Seq(Events) /\ anchor'.head = Append(anchor.head, body[w])
        /\ body[w] \in Events
    BY <2>0 DEF Written, Tip
  <2>2. ASSUME NEW i \in DOMAIN anchor'.head
        PROVE  \E n \in Rows' : table'[n].body = anchor'.head[i]
    <3>1. CASE i \in DOMAIN anchor.head
      <4>1. anchor'.head[i] = anchor.head[i]
        BY <2>1, <3>1
      <4>2. PICK n \in Rows : table[n].body = anchor.head[i]
        BY <2>0, <3>1 DEF Listed
      <4> QED BY <2>0, <4>1, <4>2 DEF Written
    <3>2. CASE i = Len(anchor.head) + 1
      <4>1. anchor'.head[i] = body[w]
        BY <2>1, <3>2
      <4>2. seq[w] \in Rows' /\ table'[seq[w]].body = body[w]
        BY <2>0 DEF Written
      <4> QED BY <4>1, <4>2
    <3> QED BY <2>1, <3>1, <3>2
  <2> QED BY <2>2 DEF Listed
<1>3. CASE UNCHANGED vars
  BY <1>1, <1>3 DEF vars
<1> QED BY <1>1, <1>2, <1>3, Quiet DEF ChainInv

-----------------------------------------------------------------------------
(* One writer's step leaves the append of every other where it was.        *)
Still(v) == /\ stage'[v] = stage[v] /\ body'[v] = body[v]
            /\ prev'[v] = prev[v] /\ seq'[v] = seq[v]

Places == {"linked", "drawn", "guarded", "written"}

LEMMA OverStill ==
    ASSUME Local, NEW w \in Writers, Over(w), NEW v \in Writers \ {w}
    PROVE  Still(v)
BY DEF Over, To, Still, Local

LEMMA OthersStill ==
    ASSUME Local, NEW w \in Writers, Moves(w), NEW v \in Writers \ {w}
    PROVE  Still(v)
<1>1. CASE Lookup(w) \/ Rehash(w)
  BY <1>1 DEF Lookup, Rehash, To, Still, Local
<1>2. CASE Link(w) \/ Draw(w)
  BY <1>2 DEF Link, Draw, To, Still, Local
<1>3. CASE Guard(w) \/ Commit(w)
  BY <1>3, OverStill DEF Guard, Commit, Settle, To, Still, Local
<1>4. CASE Index(w)
  <2>1. CASE Over(w)
    BY <2>1, OverStill
  <2>2. CASE ~Over(w)
    BY <1>4, <2>2 DEF Index, Settle, To, Still, Local
  <2> QED BY <2>1, <2>2
<1>5. CASE Answer(w) \/ Refuse(w) \/ Outage(w) \/ Rollback(w)
  BY <1>5, OverStill DEF Answer, Refuse, Outage, Rollback, Settle
<1>6. CASE \E e \in Events : Send(w, e)
  BY <1>6 DEF Send, To, Still, Local
<1> QED BY <1>1, <1>2, <1>3, <1>4, <1>5, <1>6 DEF Moves, Step

(* And of the writer's own steps, four lead to or along the tail.          *)
LEMMA OverLeaves ==
    ASSUME Local, NEW w \in Writers, Over(w)
    PROVE  stage'[w] \notin Places
BY DEF Over, To, Places, Local

LEMMA OwnSteps ==
    ASSUME Local, NEW w \in Writers, Moves(w), stage'[w] \in Places
    PROVE  \/ Link(w) /\ stage'[w] = "linked"
           \/ Draw(w) /\ stage'[w] = "drawn"
           \/ Guard(w) /\ stage'[w] = "guarded" /\ prev[w] = Head_(table)
           \/ Index(w) /\ stage'[w] = "written" /\ ~Branches(w) /\ Taken(w) = {}
<1>1. CASE Lookup(w) \/ Rehash(w)
  BY <1>1 DEF Lookup, Rehash, To, Places, Local
<1>2. CASE Link(w) \/ Draw(w)
  BY <1>2 DEF Link, Draw, To, Local
<1>3. CASE Guard(w)
  BY <1>3, OverLeaves DEF Guard, Settle, To, Local
<1>4. CASE Commit(w)
  BY <1>4, OverLeaves DEF Commit, To, Places, Local
<1>5. CASE Index(w)
  <2>1. ~Over(w)
    BY OverLeaves
  <2> QED BY <1>5, <2>1 DEF Index, Settle, To, Places, Local
<1>6. CASE Answer(w) \/ Refuse(w) \/ Outage(w) \/ Rollback(w)
  BY <1>6, OverLeaves DEF Answer, Refuse, Outage, Rollback, Settle
<1>7. CASE \E e \in Events : Send(w, e)
  BY <1>7 DEF Send, To, Places, Local
<1> QED BY <1>1, <1>2, <1>3, <1>4, <1>5, <1>6, <1>7 DEF Moves, Step

(* A writer that stands still while nothing is committed stays in line.    *)
LEMMA InLineStill ==
    ASSUME Rowed, Local, Tip, NEW v \in Writers, InLine(v), Still(v),
           UNCHANGED <<table, anchor>>, serial' \in Nat, serial <= serial'
    PROVE  InLine(v)'
<1>1. Rows' = Rows /\ Holding(body[v])' = Holding(body[v])
  BY DEF Rows, Holding, Still
<1>2. seq[v] \in Nat /\ serial \in Nat
  BY DEF Local
<1> QED BY <1>1, <1>2 DEF InLine, Still

LEMMA InLineOwn ==
    ASSUME Rowed, Local, Tip, NEW w \in Writers, InLine(w), Moves(w), ~Commit(w),
           UNCHANGED <<table, anchor>>
    PROVE  InLine(w)'
<1>0. Head_(table) = anchor.head /\ anchor.head \in Seq(Events)
      /\ anchor.last \in Nat /\ anchor.last <= serial /\ serial \in Nat
      /\ Rows' = Rows
  BY TailIsAnchor DEF Tip, Local, Rows
<1>1. CASE stage'[w] \notin Places
  BY <1>1 DEF InLine, Places
<1>2. CASE Link(w) /\ stage'[w] = "linked"
  <2>1. prev'[w] = anchor.head
    BY <1>0, <1>2 DEF Link, Local
  <2> QED BY <1>0, <1>2, <2>1 DEF InLine
<1>3. CASE Draw(w) /\ stage'[w] = "drawn"
  <2>1. /\ stage[w] = "linked" /\ prev' = prev /\ seq'[w] = serial + 1
        /\ serial' = serial + 1
    BY <1>3 DEF Draw, Local
  <2> QED BY <1>0, <1>3, <2>1 DEF InLine
<1>4. CASE Guard(w) /\ stage'[w] = "guarded" /\ prev[w] = Head_(table)
  <2>1. stage[w] = "drawn" /\ UNCHANGED <<prev, seq, serial>>
    BY <1>4 DEF Guard
  <2> QED BY <1>0, <1>4, <2>1 DEF InLine
<1>5. CASE Index(w) /\ stage'[w] = "written" /\ ~Branches(w) /\ Taken(w) = {}
  <2>1. stage[w] = "guarded" /\ UNCHANGED <<body, prev, seq, serial>>
    BY <1>5 DEF Index
  <2>2. prev[w] = anchor.head
    BY <1>5, <2>1 DEF InLine, Branches
  <2>3. Holding(body[w])' = {}
    BY <1>5, <2>1 DEF Taken, Holding, Rows
  <2> QED BY <1>0, <1>5, <2>1, <2>2, <2>3 DEF InLine
<1> QED BY <1>1, <1>2, <1>3, <1>4, <1>5, OwnSteps

(* The others when one commits: whoever saw the old tail is behind now.    *)
LEMMA InLineCommit ==
    ASSUME ChainInv, NEW w \in Writers, Commit(w), NEW v \in Writers \ {w}, Still(v)
    PROVE  InLine(v)'
<1>0. Written(w) /\ InLine(v) /\ Tip /\ stage[v] # "written"
  BY CommitWrites DEF ChainInv, OneOpen, Commit
<1>1. /\ anchor.head \in Seq(Events) /\ anchor'.head \in Seq(Events)
      /\ Len(anchor'.head) = Len(anchor.head) + 1 /\ Len(anchor.head) \in Nat
  BY <1>0 DEF Written, Tip
<1>2. prev[v] \in Seq(Events) /\ Len(prev[v]) \in Nat
  BY DEF ChainInv, Local
<1>3. ASSUME stage[v] \in Places
      PROVE  Len(prev[v]) < Len(anchor'.head) /\ prev[v] # anchor'.head
  BY <1>0, <1>1, <1>2, <1>3 DEF InLine, Places
<1>4. ASSUME stage[v] = "guarded"
      PROVE  \E n \in Rows' : table'[n].prev = prev[v]
  <2>1. CASE prev[v] = anchor.head
    BY <1>0, <2>1 DEF Written
  <2>2. CASE \E n \in Rows : table[n].prev = prev[v]
    BY <1>0, <2>2 DEF Written
  <2> QED BY <1>0, <1>4, <2>1, <2>2 DEF InLine
<1>5. stage[v] \in {"drawn", "guarded", "written"} => seq[v] <= serial'
  BY <1>0 DEF InLine, Written
<1> QED BY <1>0, <1>1, <1>2, <1>3, <1>4, <1>5 DEF InLine, Still, Places

LEMMA InLineStep == ChainInv /\ [Next]_vars => \A v \in Writers : InLine(v)'
<1> SUFFICES ASSUME ChainInv, [Next]_vars, NEW v \in Writers PROVE InLine(v)'
  OBVIOUS
<1>0. Rowed /\ Local /\ Tip /\ InLine(v)
  BY DEF ChainInv
<1>1. CASE UNCHANGED <<table, anchor, serial, mine>>
  BY <1>0, <1>1, InLineStill DEF Still, mine, Local
<1>2. CASE StartWalk \/ Page \/ UNCHANGED vars
  BY <1>1, <1>2 DEF StartWalk, Page, vars
<1>3. ASSUME NEW w \in Writers, Moves(w) PROVE InLine(v)'
  <2>1. CASE Commit(w) /\ v = w
    <3>1. stage'[w] \notin Places
      BY <2>1, <1>0, OwnSteps, <1>3 DEF Commit, Link, Draw, Guard, Index
    <3> QED BY <2>1, <3>1 DEF InLine, Places
  <2>2. CASE Commit(w) /\ v # w
    BY <1>0, <1>3, <2>2, InLineCommit, OthersStill
  <2>3. CASE ~Commit(w)
    <3>1. UNCHANGED <<table, anchor>> /\ serial' \in Nat /\ serial <= serial'
      BY <1>0, <1>3, <2>3, MovesQuiet
    <3>2. CASE v = w
      BY <1>0, <1>3, <2>3, <3>1, <3>2, InLineOwn
    <3>3. CASE v # w
      BY <1>0, <1>3, <3>1, <3>3, InLineStill, OthersStill
    <3> QED BY <3>2, <3>3
  <2> QED BY <2>1, <2>2, <2>3
<1> QED BY <1>2, <1>3 DEF Next, Moves

(* The unique index on prev_hash lets one transaction in at the head.      *)
LEMMA OneOpenStep == ChainInv /\ [Next]_vars => OneOpen'
<1> SUFFICES ASSUME ChainInv, [Next]_vars PROVE OneOpen'
  OBVIOUS
<1>0. Rowed /\ Local /\ Tip /\ OneOpen /\ \A v \in Writers : InLine(v)
  BY DEF ChainInv
<1>1. CASE UNCHANGED stage
  BY <1>0, <1>1 DEF OneOpen
<1>2. CASE StartWalk \/ Page \/ UNCHANGED vars
  BY <1>1, <1>2 DEF StartWalk, Page, vars, mine
<1>3. ASSUME NEW w \in Writers, Moves(w) PROVE OneOpen'
  <2>1. \A v \in Writers \ {w} : stage'[v] = stage[v]
    BY <1>0, <1>3, OthersStill DEF Still
  <2>2. CASE stage'[w] # "written"
    BY <1>0, <2>1, <2>2 DEF OneOpen
  <2>3. CASE stage'[w] = "written"
    <3>1. Index(w) /\ ~Branches(w)
      BY <1>0, <1>3, <2>3, OwnSteps DEF Places
    <3>2. prev[w] = anchor.head
      BY <1>0, <3>1 DEF Index, InLine, Branches
    <3>3. \A v \in Writers \ {w} : stage[v] # "written"
      BY <1>0, <3>1, <3>2 DEF Index, InLine, Open, SameKey
    <3> QED BY <2>1, <3>3 DEF OneOpen
  <2> QED BY <2>2, <2>3
<1> QED BY <1>2, <1>3 DEF Next, Moves

-----------------------------------------------------------------------------
LEMMA ChainInit == Init => ChainInv
<1> SUFFICES ASSUME Init PROVE ChainInv
  OBVIOUS
<1>1. /\ table = <<>> /\ Rows = {} /\ anchor = [head |-> Genesis, length |-> 0, last |-> 0]
      /\ serial = 0 /\ \A w \in Writers : stage[w] = "idle"
  BY DEF Init, Rows
<1>2. Rowed
  BY <1>1, FS_EmptySet DEF Rowed
<1>3. Tip
  BY <1>1, FS_EmptySet DEF Tip, Genesis
<1>4. Sealing /\ Listed
  BY <1>1 DEF Sealing, Listed, Genesis
<1>5. OneOpen /\ \A w \in Writers : InLine(w)
  BY <1>1 DEF OneOpen, InLine
<1> QED BY <1>2, <1>3, <1>4, <1>5, LocalInit DEF ChainInv

(* The rows, the anchor and every open append of module Chain stay in the  *)
(* relation that append_event's reads, the guard trigger and the unique    *)
(* index on prev_hash keep them in.                                        *)
THEOREM ChainInvariant == Spec => []ChainInv
<1>1. ChainInv /\ [Next]_vars => ChainInv'
  <2> SUFFICES ASSUME ChainInv, [Next]_vars PROVE ChainInv'
    OBVIOUS
  <2>1. Rowed' /\ Tip' /\ Sealing' /\ Listed' /\ OneOpen'
    BY RowedStep, TipStep, SealingStep, ListedStep, OneOpenStep
  <2>2. Local'
    BY LocalStep DEF ChainInv
  <2>3. (\A w \in Writers : InLine(w))'
    <3>1. Writers' = Writers
      BY DEF Writers
    <3> QED BY <3>1, InLineStep
  <2> QED BY <2>1, <2>2, <2>3 DEF ChainInv
<1> QED BY <1>1, ChainInit, PTL DEF Spec

(* ledger/store.py and the schema's triggers: whatever writers do and      *)
(* whatever rolls back, the rows are one chain, each sealing its content   *)
(* behind the row before it, and the anchor commits to exactly those rows. *)
THEOREM ChainKept == Spec => []ChainIntact
<1>1. ChainInv => ChainIntact
  <2> SUFFICES ASSUME ChainInv PROVE ChainIntact
    OBVIOUS
  <2>1. Rowed /\ Tip /\ Sealing /\ Head_(table) = anchor.head
    BY TailIsAnchor DEF ChainInv
  <2>2. anchor.last = IF Rows = {} THEN 0 ELSE Highest(Rows)
    BY <2>1, HighestIs DEF Tip, Rowed
  <2>3. anchor = [head |-> anchor.head, length |-> anchor.length, last |-> anchor.last]
    BY <2>1 DEF Tip
  <2>4. anchor = [head |-> Head_(table), length |-> Cardinality(Rows),
                  last |-> IF Rows = {} THEN 0 ELSE Highest(Rows)]
    BY <2>1, <2>2, <2>3 DEF Tip
  <2> QED BY <2>1, <2>4 DEF ChainIntact, Sealing
<1> QED BY <1>1, ChainInvariant, PTL

(* The verifier pages the chain by seq, which is drawn outside the         *)
(* transaction: a row still to be committed lies past every row that is.   *)
THEOREM SeqOrder == Spec => []CommitsInSeqOrder
<1>1. ChainInv => CommitsInSeqOrder
  <2> SUFFICES ASSUME ChainInv, NEW w \in Writers, stage[w] = "written", NEW n \in Rows
               PROVE  n < seq[w]
    BY DEF CommitsInSeqOrder
  <2>1. Rowed /\ Local /\ Tip /\ InLine(w)
    BY DEF ChainInv
  <2>2. n \in Nat /\ anchor.last \in Nat /\ seq[w] \in Nat /\ n <= anchor.last
    BY <2>1 DEF Rowed, Local, Tip
  <2>3. anchor.last < seq[w]
    BY <2>1 DEF InLine
  <2> QED BY <2>2, <2>3
<1> QED BY <1>1, ChainInvariant, PTL

(* What append_event and the database's backstops keep is the log that     *)
(* module EventLog promises: what the head commits to only grows at its    *)
(* end, by an event whose id it does not hold.                             *)
THEOREM LogImplemented == Spec => IsEventLog
<1>1. Init => Promise!Init
  BY DEF Init, Promise!Init, Head_, Genesis
<1>2. ChainInv /\ ChainInv' /\ [Next]_vars => [Promise!Next]_(Head_(table))
  <2> SUFFICES ASSUME ChainInv, ChainInv', [Next]_vars
               PROVE  [Promise!Next]_(Head_(table))
    OBVIOUS
  <2>1. CASE UNCHANGED table
    BY <2>1 DEF Head_
  <2>2. ASSUME NEW w \in Writers, Commit(w) PROVE Promise!Next
    <3>1. Written(w) /\ Listed
      BY <2>2, CommitWrites DEF ChainInv
    <3>2. Head_(table) = anchor.head
      BY TailIsAnchor DEF ChainInv
    <3>3. Head_(table)' = anchor'.head
      <4>1. (Rowed /\ Tip => Head_(table) = anchor.head)'
        BY TailIsAnchor, PTL
      <4> QED BY <4>1 DEF ChainInv
    <3>4. \A i \in DOMAIN anchor.head : IdOf(anchor.head[i]) # IdOf(body[w])
      BY <3>1 DEF Listed, Written, Holding
    <3>5. Head_(table)' = Append(Head_(table), body[w]) /\ body[w] \in Events
      BY <3>1, <3>2, <3>3 DEF Written
    <3>6. Promise!Append1(body[w])
      BY <3>2, <3>4, <3>5 DEF Promise!Append1
    <3> QED BY <3>5, <3>6 DEF Promise!Next
  <2>3. CASE UNCHANGED vars
    BY <2>1, <2>3 DEF vars
  <2> QED BY <2>1, <2>2, <2>3, Quiet DEF ChainInv
<1> QED BY <1>1, <1>2, ChainInvariant, PTL DEF Spec, IsEventLog, Promise!Spec

-----------------------------------------------------------------------------
(* What callers are told, against the rows.  A content that is stored      *)
(* stays stored, and an id that another content holds stays held by it.    *)
Stored(e)  == \E n \in Rows : table[n].body = e
Clashes(e) == Holding(e) # {} /\ \A n \in Holding(e) : table[n].body # e

Unfrail == \A n \in Rows : table[n].body \notin Frail
OneEach == \A n, m \in Rows : IdOf(table[n].body) = IdOf(table[m].body) => n = m

(* What a writer that has its answer will say.                             *)
Served(w) ==
    /\ stage[w] \in {"landed", "found"} => Stored(body[w])
    /\ stage[w] = "refused" => body[w] \in Frail \/ Clashes(body[w])

ToldInv == \A e \in Events :
    /\ <<e, "inserted">> \in told \/ <<e, "present">> \in told => Stored(e)
    /\ <<e, "conflict">> \in told => Clashes(e)

(* An id is somebody's first once: while a writer that landed it has not   *)
(* answered, nobody was told so and nobody else has landed it.             *)
Landed(w) == stage[w] = "landed"
FirstInv ==
    /\ firsts \in [{IdOf(e) : e \in Events} -> Nat]
    /\ \A id \in DOMAIN firsts : /\ firsts[id] <= 1
                                 /\ firsts[id] > 0 => \E n \in Rows : IdOf(table[n].body) = id
    /\ \A w \in Writers : Landed(w) => firsts[IdOf(body[w])] = 0
    /\ \A v, w \in Writers : Landed(v) /\ Landed(w) /\ IdOf(body[v]) = IdOf(body[w]) => v = w

AnswerInv == Unfrail /\ OneEach /\ (\A w \in Writers : Served(w)) /\ ToldInv /\ FirstInv

LEMMA RowsKept ==
    ASSUME ChainInv, UNCHANGED table \/ \E w \in Writers : Commit(w)
    PROVE  /\ Rows \subseteq Rows' /\ \A n \in Rows : table'[n] = table[n]
           /\ \A e : Stored(e) => Stored(e)'
           /\ \A e : Clashes(e) => Clashes(e)'
<1>1. CASE UNCHANGED table
  BY <1>1 DEF Rows, Stored, Clashes, Holding
<1>2. ASSUME NEW w \in Writers, Commit(w)
      PROVE  /\ Rows \subseteq Rows' /\ \A n \in Rows : table'[n] = table[n]
             /\ \A e : Stored(e) => Stored(e)'
             /\ \A e : Clashes(e) => Clashes(e)'
  <2>1. Written(w)
    BY <1>2, CommitWrites
  <2>2. /\ Rows' = Rows \cup {seq[w]} /\ \A n \in Rows : table'[n] = table[n]
        /\ table'[seq[w]].body = body[w] /\ Holding(body[w]) = {}
    BY <2>1 DEF Written
  <2>3. ASSUME NEW e, Clashes(e) PROVE Clashes(e)'
    <3>1. IdOf(body[w]) # IdOf(e)
      BY <2>2, <2>3 DEF Clashes, Holding
    <3>2. Holding(e)' = Holding(e)
      BY <2>2, <3>1 DEF Holding
    <3> QED BY <2>2, <2>3, <3>2 DEF Clashes, Holding
  <2> QED BY <2>2, <2>3 DEF Stored
<1> QED BY <1>1, <1>2

(* Where a writer gets its answer from, and what it makes of it.           *)
LEMMA Serves ==
    ASSUME Local, NEW w \in Writers, Moves(w)
    PROVE  /\ stage'[w] = "landed" => Commit(w)
           /\ stage'[w] = "found" => Lookup(w) /\ \E n \in Holding(body[w]) : SameEvent(n, body[w])
           /\ stage'[w] = "refused" =>
                 \/ Rehash(w)
                 \/ Lookup(w) /\ Holding(body[w]) # {}
                              /\ ~\E n \in Holding(body[w]) : SameEvent(n, body[w])
<1>0. stage'[w] = "idle" => stage'[w] \notin {"landed", "found", "refused"}
  OBVIOUS
<1>a. Over(w) => stage'[w] = "idle"
  BY DEF Over, To, Local
<1>1. CASE Lookup(w) \/ Rehash(w)
  BY <1>1 DEF Lookup, Rehash, To, Local
<1>2. CASE Link(w) \/ Draw(w)
  BY <1>2 DEF Link, Draw, To, Local
<1>3. CASE Guard(w)
  BY <1>0, <1>a, <1>3 DEF Guard, Settle, To, Local
<1>4. CASE Commit(w)
  BY <1>0, <1>a, <1>4 DEF Commit, To, Local
<1>5. CASE Index(w)
  BY <1>0, <1>a, <1>5 DEF Index, Settle, To, Local
<1>6. CASE Answer(w) \/ Refuse(w) \/ Outage(w) \/ Rollback(w)
  BY <1>0, <1>a, <1>6 DEF Answer, Refuse, Outage, Rollback, Settle
<1>7. CASE \E e \in Events : Send(w, e)
  BY <1>7 DEF Send, To, Local
<1> QED BY <1>1, <1>2, <1>3, <1>4, <1>5, <1>6, <1>7 DEF Moves, Step

Tells(w, answer) == told' = told \cup {<<body[w], answer>>}

LEMMA Telling ==
    ASSUME Local, NEW w \in Writers, Moves(w)
    PROVE  \/ UNCHANGED heard
           \/ /\ firsts' = firsts
              /\ \/ Tells(w, "forked") \/ Tells(w, "invalid") \/ Tells(w, "unavailable")
                 \/ Tells(w, "present") /\ stage[w] = "found"
                 \/ Tells(w, "conflict") /\ stage[w] = "refused" /\ Holding(body[w]) # {}
           \/ /\ Tells(w, "inserted") /\ stage[w] = "landed" /\ stage'[w] = "idle"
              /\ firsts' = [firsts EXCEPT ![IdOf(body[w])] = @ + 1]
<1>1. CASE Lookup(w) \/ Rehash(w) \/ Link(w) \/ Draw(w) \/ Commit(w) \/ Rollback(w)
  BY <1>1 DEF Lookup, Rehash, Link, Draw, Commit, Rollback, heard
<1>2. CASE Guard(w) \/ Outage(w)
  BY <1>2 DEF Guard, Outage, Settle, Tells
<1>3. CASE Index(w)
  BY <1>3 DEF Index, Settle, Tells, heard
<1>4. CASE Answer(w)
  <2>1. CASE stage[w] = "landed" /\ Settle(w, "inserted")
    <3>1. stage'[w] = "idle"
      BY <2>1 DEF Settle, Over, To, Local
    <3> QED BY <2>1, <3>1 DEF Settle, Tells
  <2>2. CASE stage[w] = "found" /\ Settle(w, "present")
    BY <2>2 DEF Settle, Tells
  <2> QED BY <1>4, <2>1, <2>2 DEF Answer
<1>5. CASE Refuse(w)
  BY <1>5 DEF Refuse, Settle, Tells
<1>6. CASE \E e \in Events : Send(w, e)
  BY <1>6 DEF Send
<1> QED BY <1>1, <1>2, <1>3, <1>4, <1>5, <1>6 DEF Moves, Step

LEMMA KeysStep == ChainInv /\ AnswerInv /\ [Next]_vars => Unfrail' /\ OneEach'
<1> SUFFICES ASSUME ChainInv, AnswerInv, [Next]_vars PROVE Unfrail' /\ OneEach'
  OBVIOUS
<1>1. CASE UNCHANGED table
  BY <1>1 DEF AnswerInv, Unfrail, OneEach, Rows
<1>2. ASSUME NEW w \in Writers, Commit(w) PROVE Unfrail' /\ OneEach'
  <2>1. Written(w) /\ body[w] \notin Frail
    BY <1>2, CommitWrites DEF Commit, Renormalised
  <2>2. /\ Rows' = Rows \cup {seq[w]} /\ \A n \in Rows : table'[n] = table[n]
        /\ table'[seq[w]].body = body[w]
        /\ \A n \in Rows : IdOf(table[n].body) # IdOf(body[w])
    BY <2>1 DEF Written, Holding
  <2> QED BY <2>1, <2>2 DEF AnswerInv, Unfrail, OneEach
<1> QED BY <1>1, <1>2, Quiet DEF ChainInv, vars

LEMMA ServedStep == ChainInv /\ AnswerInv /\ [Next]_vars => \A v \in Writers : Served(v)'
<1> SUFFICES ASSUME ChainInv, AnswerInv, [Next]_vars, NEW v \in Writers PROVE Served(v)'
  OBVIOUS
<1>0. Local /\ Served(v)
  BY DEF ChainInv, AnswerInv
<1>1. /\ \A e : Stored(e) => Stored(e)'
      /\ \A e : Clashes(e) => Clashes(e)'
  BY Quiet, RowsKept DEF ChainInv, vars
<1>2. CASE Still(v)
  BY <1>0, <1>1, <1>2 DEF Served, Still
<1>3. CASE StartWalk \/ Page \/ UNCHANGED vars
  BY <1>2, <1>3 DEF StartWalk, Page, vars, mine, Still
<1>4. ASSUME Moves(v) PROVE Served(v)'
  <2>1. CASE stage'[v] = "landed"
    <3>1. Written(v) /\ Commit(v)
      BY <1>0, <1>4, <2>1, Serves, CommitWrites
    <3>2. seq[v] \in Rows' /\ table'[seq[v]].body = body[v]
      BY <3>1 DEF Written
    <3>3. body'[v] = body[v]
      BY <1>0, <2>1, <3>1 DEF Commit, Over, To, Local
    <3> QED BY <2>1, <3>2, <3>3 DEF Served, Stored
  <2>2. CASE stage'[v] = "found"
    <3>1. Lookup(v) /\ Stored(body[v])
      BY <1>0, <1>4, <2>2, Serves DEF SameEvent, Stored, Holding
    <3> QED BY <1>1, <2>2, <3>1 DEF Served, Lookup
  <2>3. CASE stage'[v] = "refused"
    <3>1. CASE Rehash(v)
      BY <2>3, <3>1 DEF Served, Rehash, Renormalised
    <3>2. CASE Lookup(v) /\ Holding(body[v]) # {}
                         /\ ~\E n \in Holding(body[v]) : SameEvent(n, body[v])
      <4>1. Clashes(body[v])
        BY <3>2 DEF Clashes, SameEvent
      <4> QED BY <1>1, <2>3, <3>2, <4>1 DEF Served, Lookup
    <3> QED BY <1>0, <1>4, <2>3, <3>1, <3>2, Serves
  <2> QED BY <2>1, <2>2, <2>3 DEF Served
<1>5. ASSUME NEW w \in Writers, Moves(w) PROVE Served(v)'
  BY <1>0, <1>2, <1>4, <1>5, OthersStill
<1> QED BY <1>3, <1>5 DEF Next, Moves

LEMMA ToldStep == ChainInv /\ AnswerInv /\ [Next]_vars => ToldInv'
<1> SUFFICES ASSUME ChainInv, AnswerInv, [Next]_vars, NEW e \in Events
             PROVE  /\ <<e, "inserted">> \in told' \/ <<e, "present">> \in told' => Stored(e)'
                    /\ <<e, "conflict">> \in told' => Clashes(e)'
  BY DEF ToldInv
<1>1. /\ \A x : Stored(x) => Stored(x)'
      /\ \A x : Clashes(x) => Clashes(x)'
  BY Quiet, RowsKept DEF ChainInv, vars
<1>2. /\ <<e, "inserted">> \in told \/ <<e, "present">> \in told => Stored(e)
      /\ <<e, "conflict">> \in told => Clashes(e)
  BY DEF AnswerInv, ToldInv
<1>3. CASE told' = told
  BY <1>1, <1>2, <1>3
<1>4. CASE StartWalk \/ Page \/ UNCHANGED vars
  BY <1>3, <1>4 DEF StartWalk, Page, vars, heard
<1>5. ASSUME NEW w \in Writers, Moves(w)
      PROVE  /\ <<e, "inserted">> \in told' \/ <<e, "present">> \in told' => Stored(e)'
             /\ <<e, "conflict">> \in told' => Clashes(e)'
  <2>1. Served(w) /\ Unfrail
    BY DEF AnswerInv
  <2>2. CASE UNCHANGED heard
    BY <1>3, <2>2 DEF heard
  <2>3. CASE Tells(w, "forked") \/ Tells(w, "invalid") \/ Tells(w, "unavailable")
    BY <1>1, <1>2, <2>3 DEF Tells
  <2>4. CASE (Tells(w, "inserted") /\ stage[w] = "landed")
             \/ (Tells(w, "present") /\ stage[w] = "found")
    <3>1. Stored(body[w])
      BY <2>1, <2>4 DEF Served
    <3> QED BY <1>1, <1>2, <2>4, <3>1 DEF Tells
  <2>5. CASE Tells(w, "conflict") /\ stage[w] = "refused" /\ Holding(body[w]) # {}
    <3>1. Clashes(body[w])
      BY <2>1, <2>5 DEF Served, Unfrail, Clashes, Holding
    <3> QED BY <1>1, <1>2, <2>5, <3>1 DEF Tells
  <2> QED BY <1>5, <2>2, <2>3, <2>4, <2>5, Telling DEF ChainInv
<1> QED BY <1>4, <1>5 DEF Next, Moves

LEMMA FirstStep == ChainInv /\ AnswerInv /\ [Next]_vars => FirstInv'
<1> SUFFICES ASSUME ChainInv, AnswerInv, [Next]_vars PROVE FirstInv'
  OBVIOUS
<1>0. Local /\ FirstInv /\ \A v \in Writers : Served(v)
  BY DEF ChainInv, AnswerInv
<1>1. Rows \subseteq Rows' /\ \A n \in Rows : table'[n] = table[n]
  BY Quiet, RowsKept DEF ChainInv, vars
<1>2. ASSUME firsts' = firsts,
             \A v \in Writers : Landed(v)' => Landed(v) /\ body'[v] = body[v]
      PROVE  FirstInv'
  BY <1>0, <1>1, <1>2 DEF FirstInv
<1>3. CASE StartWalk \/ Page \/ UNCHANGED vars
  BY <1>2, <1>3 DEF StartWalk, Page, vars, heard, mine, Landed
<1>4. ASSUME NEW w \in Writers, Moves(w) PROVE FirstInv'
  <2>1. \A v \in Writers \ {w} : Still(v)
    BY <1>0, <1>4, OthersStill
  <2>2. \A v \in Writers \ {w} : Landed(v)' => Landed(v) /\ body'[v] = body[v]
    BY <2>1 DEF Still, Landed
  <2>3. CASE Commit(w) /\ Landed(w)'
    <3>1. Written(w) /\ UNCHANGED firsts /\ body'[w] = body[w]
      BY <1>0, <2>3, CommitWrites DEF Commit, heard, Landed, Over, To, Local
    <3>2. \A n \in Rows : IdOf(table[n].body) # IdOf(body[w])
      BY <3>1 DEF Written, Holding
    <3>3. \A v \in Writers \ {w} : Landed(v)' => IdOf(body'[v]) # IdOf(body'[w])
      BY <1>0, <2>2, <3>1, <3>2 DEF Served, Stored, Landed
    <3>4. IdOf(body[w]) \in DOMAIN firsts /\ firsts[IdOf(body[w])] \in Nat
      BY <1>0, <3>1 DEF FirstInv, Written
    <3>5. firsts[IdOf(body[w])] = 0
      BY <1>0, <3>2, <3>4 DEF FirstInv
    <3>6. \A v \in Writers : Landed(v)' => firsts'[IdOf(body'[v])] = 0
      BY <1>0, <2>2, <3>1, <3>5 DEF FirstInv
    <3>7. \A v, u \in Writers :
             Landed(v)' /\ Landed(u)' /\ IdOf(body'[v]) = IdOf(body'[u]) => v = u
      BY <1>0, <2>2, <3>3 DEF FirstInv
    <3> QED BY <1>0, <1>1, <3>1, <3>6, <3>7 DEF FirstInv
  <2>4. CASE ~Landed(w)' /\ firsts' = firsts
    BY <1>2, <2>2, <2>4
  <2>5. CASE /\ stage[w] = "landed" /\ stage'[w] = "idle"
             /\ firsts' = [firsts EXCEPT ![IdOf(body[w])] = @ + 1]
    <3>1. PICK id : id = IdOf(body[w])
      OBVIOUS
    <3>2. body[w] \in Events /\ Landed(w) /\ ~Landed(w)'
      BY <1>0, <2>5 DEF Landed, Local
    <3>3. id \in DOMAIN firsts /\ firsts[id] = 0
      BY <1>0, <3>1, <3>2 DEF FirstInv
    <3>4. /\ firsts' \in [{IdOf(e) : e \in Events} -> Nat] /\ firsts'[id] = 1
          /\ \A j \in DOMAIN firsts \ {id} : firsts'[j] = firsts[j]
      BY <1>0, <2>5, <3>1, <3>3 DEF FirstInv
    <3>5. \E n \in Rows' : IdOf(table'[n].body) = id
      BY <1>0, <1>1, <3>1, <3>2 DEF Served, Stored, Landed
    <3>6. \A v \in Writers : Landed(v)' => IdOf(body[v]) # id /\ body'[v] = body[v] /\ Landed(v)
      BY <1>0, <2>2, <3>1, <3>2 DEF FirstInv
    <3>7. \A v \in Writers : Landed(v)' => firsts'[IdOf(body'[v])] = 0
      <4>1. ASSUME NEW v \in Writers, Landed(v)' PROVE firsts'[IdOf(body'[v])] = 0
        <5>1. body[v] \in Events
          BY <1>0, <3>6, <4>1 DEF Local, Landed
        <5> QED BY <1>0, <3>4, <3>6, <4>1, <5>1 DEF FirstInv
      <4> QED BY <4>1
    <3>8. \A j \in DOMAIN firsts' :
             firsts'[j] <= 1 /\ (firsts'[j] > 0 => \E n \in Rows' : IdOf(table'[n].body) = j)
      BY <1>0, <1>1, <3>4, <3>5 DEF FirstInv
    <3>9. \A v, u \in Writers :
             Landed(v)' /\ Landed(u)' /\ IdOf(body'[v]) = IdOf(body'[u]) => v = u
      BY <1>0, <3>6 DEF FirstInv
    <3> QED BY <3>4, <3>7, <3>8, <3>9 DEF FirstInv
  <2>6. Landed(w)' => Commit(w)
    BY <1>0, <1>4, Serves DEF Landed
  <2> QED BY <1>0, <1>4, <2>3, <2>4, <2>5, <2>6, Telling DEF heard, Landed
<1> QED BY <1>3, <1>4 DEF Next, Moves

LEMMA AnswerInit == Init => AnswerInv
BY DEF Init, AnswerInv, Unfrail, OneEach, Served, ToldInv, FirstInv, Landed, Rows

LEMMA AlwaysAnswers == Spec => []AnswerInv
<1>1. ChainInv /\ AnswerInv /\ [Next]_vars => AnswerInv'
  <2> SUFFICES ASSUME ChainInv, AnswerInv, [Next]_vars PROVE AnswerInv'
    OBVIOUS
  <2>1. (\A w \in Writers : Served(w))'
    <3>1. Writers' = Writers
      BY DEF Writers
    <3> QED BY <3>1, ServedStep
  <2> QED BY <2>1, KeysStep, ToldStep, FirstStep DEF AnswerInv
<1> QED BY <1>1, AnswerInit, ChainInvariant, PTL DEF Spec

(* append (ledger/store.py): a caller that is told "stored" or "already    *)
(* there" has its own content in the chain, one that is told of a conflict *)
(* has another's in its place, and one delivery of an id at most hears     *)
(* "inserted", over retries, outages and writers outside the library.      *)
THEOREM AnswersHold == Spec => []AnswersTrue
<1>1. AnswerInv => AnswersTrue
  <2> SUFFICES ASSUME AnswerInv PROVE AnswersTrue
    OBVIOUS
  <2>1. ASSUME NEW e \in Events, Stored(e)
        PROVE  {table[n].body : n \in Holding(e)} = {e}
    <3>1. PICK n \in Rows : table[n].body = e
      BY <2>1 DEF Stored
    <3>2. Holding(e) = {n}
      BY <3>1 DEF Holding, AnswerInv, OneEach
    <3> QED BY <3>1, <3>2
  <2>2. ASSUME NEW e \in Events, Clashes(e)
        PROVE  LET stored == {table[n].body : n \in Holding(e)}
               IN  stored # {} /\ e \notin stored
    BY <2>2 DEF Clashes
  <2>3. \A id \in DOMAIN firsts : firsts[id] <= 1
    BY DEF AnswerInv, FirstInv
  <2> QED BY <2>1, <2>2, <2>3 DEF AnswersTrue, AnswerInv, ToldInv
<1> QED BY <1>1, AlwaysAnswers, PTL

-----------------------------------------------------------------------------
(* The queue for the chain lock: whoever leaves it leaves its head to the  *)
(* holder, as long as that is another.                                     *)
LEMMA ReleaseIs ==
    ASSUME NEW S, queue \in Seq(S), NEW w
    PROVE  /\ Release(w) \in Seq(S)
           /\ \A v : v # w /\ Holds(v) => Release(w) # <<>> /\ Head(Release(w)) = v
<1> DEFINE places == {i \in 1..Len(queue) : queue[i] = w}
<1>1. CASE places = {}
  <2>1. ~\E i \in 1..Len(queue) : queue[i] = w
    BY <1>1
  <2>2. Release(w) = queue
    BY <2>1 DEF Release, RemoveFirst
  <2> QED BY <2>2 DEF Holds
<1>2. CASE places # {}
  <2>1. \E i \in 1..Len(queue) : queue[i] = w
    BY <1>2
  <2>2. PICK i : i = SelectInSeq(queue, LAMBDA v : v = w)
    OBVIOUS
  <2>3. Release(w) = RemoveAt(queue, i)
    BY <2>1, <2>2 DEF Release, RemoveFirst
  <2>4. i = Min(places)
    BY <1>2, <2>2 DEF SelectInSeq
  <2>5. Min(places) \in places
    <3>1. places \in SUBSET Nat
      OBVIOUS
    <3>2. PICK j \in places : \A k \in places : j <= k
      BY <1>2, <3>1, LeastIs
    <3> QED BY <3>2 DEF Min
  <2>6. i \in 1..Len(queue) /\ queue[i] = w
    BY <2>4, <2>5
  <2> HIDE DEF places
  <2>7. Release(w) = SubSeq(queue, 1, i - 1) \o SubSeq(queue, i + 1, Len(queue))
    BY <2>3 DEF RemoveAt
  <2>8. SubSeq(queue, 1, i - 1) \in Seq(S) /\ SubSeq(queue, i + 1, Len(queue)) \in Seq(S)
    BY <2>6
  <2>9. Release(w) \in Seq(S)
    BY <2>7, <2>8
  <2>10. ASSUME NEW v, v # w, Holds(v) PROVE Release(w) # <<>> /\ Head(Release(w)) = v
    <3>1. queue[1] = v /\ i # 1
      BY <2>6, <2>10 DEF Holds
    <3>2. Len(SubSeq(queue, 1, i - 1)) = i - 1 /\ SubSeq(queue, 1, i - 1)[1] = v
      BY <2>6, <3>1
    <3> DEFINE front == SubSeq(queue, 1, i - 1)
               back  == SubSeq(queue, i + 1, Len(queue))
    <3>3. front \in Seq(S) /\ back \in Seq(S) /\ front[1] = v /\ Len(front) >= 1
      BY <2>6, <2>8, <3>1, <3>2
    <3>4. Release(w) = front \o back
      BY <2>7
    <3> HIDE DEF front, back
    <3>5. Len(front \o back) >= 1 /\ (front \o back)[1] = v
      BY <3>3
    <3> QED BY <2>9, <3>4, <3>5
  <2> QED BY <2>9, <2>10
<1> QED BY <1>1, <1>2

(* No step of a writer takes the lock from another that holds it.          *)
LEMMA QueueSteps ==
    ASSUME queue \in Seq(Library), NEW w \in Writers, Moves(w)
    PROVE  /\ queue' \in Seq(Library)
           /\ \A v \in Library : v # w /\ Holds(v) => Holds(v)'
<1>0. /\ Release(w) \in Seq(Library)
      /\ \A v : v # w /\ Holds(v) => Release(w) # <<>> /\ Head(Release(w)) = v
  BY ReleaseIs
<1>1. \A q \in Seq(Library), v \in Library :
         /\ Append(q, v) \in Seq(Library)
         /\ q # <<>> => Append(q, v) # <<>> /\ Head(Append(q, v)) = Head(q)
  OBVIOUS
<1>2. CASE queue' = queue
  BY <1>2 DEF Holds
<1>3. CASE queue' = Release(w)
  BY <1>0, <1>3 DEF Holds
<1>4. CASE queue' = Append(queue, w) /\ w \in Library
  BY <1>1, <1>4 DEF Holds
<1>5. CASE queue' = Append(Release(w), w) /\ w \in Library
  <2>1. queue' \in Seq(Library)
    BY <1>0, <1>1, <1>5
  <2>2. ASSUME NEW v \in Library, v # w, Holds(v) PROVE Holds(v)'
    <3>1. Release(w) # <<>> /\ Head(Release(w)) = v
      BY <1>0, <2>2
    <3>2. queue' # <<>> /\ Head(queue') = v
      BY <1>0, <1>1, <1>5, <3>1
    <3> QED BY <3>2 DEF Holds
  <2> QED BY <2>1, <2>2
<1>6. CASE Step(w)
  BY <1>2, <1>3, <1>5, <1>6 DEF Step, Lookup, Link, Draw, Guard, Index, Rehash,
     Commit, Answer, Refuse
<1>7. CASE Outage(w) \/ Rollback(w) \/ \E e \in Events : Send(w, e)
  BY <1>2, <1>3, <1>4, <1>7 DEF Outage, Rollback, Send
<1> QED BY <1>6, <1>7 DEF Moves

-----------------------------------------------------------------------------
(* The advisory lock, for the writers that take it: from its lookup to its *)
(* commit a library writer holds it, so the tail it linked to is the tail  *)
(* still, unless a writer outside the library has committed.               *)
Inside == {"missed"} \cup Places

Intruded == \E n \in Rows : table[n].by \in Reckless

Locking == queue \in Seq(Library) /\ \A w \in Library : stage[w] \in Inside => Holds(w)
Recent  == \A w \in Library : stage[w] \in Places => prev[w] = anchor.head \/ Intruded
Behind  == \A n \in Rows : Len(table[n].prev) < Len(anchor.head)
ForkTold == \A e \in Events : <<e, "forked">> \in told => Intruded

ForkInv == Locking /\ Recent /\ Behind /\ ForkTold

LEMMA GoingInside ==
    ASSUME Local, NEW w \in Library, Moves(w), stage'[w] \in Inside
    PROVE  /\ queue' = queue /\ ~Commit(w)
           /\ stage[w] \in Inside \/ Holds(w)
           /\ stage'[w] \in Places =>
                \/ prev'[w] = Head_(table)
                \/ stage[w] \in Places /\ prev'[w] = prev[w]
<1>0. w \in Writers /\ w \notin Reckless
  BY WritersAssumption DEF Writers
<1>1. stage'[w] \notin {"idle", "queued", "found", "refused", "landed"}
  BY DEF Inside, Places
<1>2. ~Over(w) /\ ~Commit(w)
  BY <1>0, <1>1 DEF Over, To, Local, Commit
<1>3. CASE Lookup(w)
  BY <1>0, <1>1, <1>2, <1>3 DEF Lookup, To, Local, Places
<1>4. CASE Link(w) \/ Draw(w)
  BY <1>0, <1>2, <1>4 DEF Link, Draw, To, Local, Inside, Places
<1>5. CASE Guard(w)
  <2>1. ~Settle(w, "forked")
    BY <1>2 DEF Settle
  <2> QED BY <1>0, <1>2, <1>5, <2>1 DEF Guard, To, Local, Inside, Places
<1>6. CASE Index(w)
  <2>1. ~Settle(w, "forked") /\ ~Settle(w, "conflict")
    BY <1>2 DEF Settle
  <2>2. ~To(w, "queued")
    BY <1>0, <1>1 DEF To, Local
  <2> QED BY <1>0, <1>2, <1>6, <2>1, <2>2 DEF Index, Local, Inside, Places
<1>7. CASE Rehash(w)
  BY <1>0, <1>1, <1>7 DEF Rehash, To, Local
<1>8. CASE Answer(w) \/ Refuse(w) \/ Outage(w) \/ Rollback(w)
  BY <1>2, <1>8 DEF Answer, Refuse, Outage, Rollback, Settle
<1>9. CASE \E e \in Events : Send(w, e)
  BY <1>0, <1>1, <1>9 DEF Send, To, Local
<1> QED BY <1>2, <1>3, <1>4, <1>5, <1>6, <1>7, <1>8, <1>9 DEF Moves, Step

LEMMA IntrusionsStay ==
    ASSUME ChainInv, [Next]_vars
    PROVE  Intruded => Intruded'
<1>1. Rows \subseteq Rows' /\ \A n \in Rows : table'[n] = table[n]
  BY Quiet, RowsKept DEF ChainInv, vars
<1> QED BY <1>1 DEF Intruded

(* Who is told of a fork: a writer of the library, past its reading of the *)
(* tail, whose prev_hash is not the head's or is a row's already.          *)
LEMMA TellingForks ==
    ASSUME Local, NEW w \in Writers, Moves(w),
           NEW e \in Events, <<e, "forked">> \in told', <<e, "forked">> \notin told
    PROVE  /\ w \in Library /\ stage[w] \in Places
           /\ prev[w] # Head_(table) \/ Branches(w)
<1>0. ~UNCHANGED told
  OBVIOUS
<1>1. CASE Lookup(w) \/ Rehash(w) \/ Link(w) \/ Draw(w) \/ Commit(w) \/ Rollback(w)
  BY <1>0, <1>1 DEF Lookup, Rehash, Link, Draw, Commit, Rollback, heard
<1>2. CASE Guard(w)
  BY <1>0, <1>2 DEF Guard, Settle, Places, heard
<1>3. CASE Index(w)
  <2>1. CASE Settle(w, "forked") /\ Branches(w)
    BY <1>0, <1>3, <2>1 DEF Index, Settle, Places, heard
  <2>2. CASE Settle(w, "conflict") \/ UNCHANGED heard
    BY <1>0, <2>2 DEF Settle, heard
  <2> QED BY <1>3, <2>1, <2>2 DEF Index
<1>4. CASE Answer(w) \/ Outage(w)
  BY <1>0, <1>4 DEF Answer, Outage, Settle, heard
<1>5. CASE Refuse(w)
  BY <1>0, <1>5 DEF Refuse, Settle, heard
<1>6. CASE \E d \in Events : Send(w, d)
  BY <1>0, <1>6 DEF Send, heard
<1> QED BY <1>1, <1>2, <1>3, <1>4, <1>5, <1>6 DEF Moves, Step

LEMMA LockingStep == ChainInv /\ ForkInv /\ [Next]_vars => Locking'
<1> SUFFICES ASSUME ChainInv, ForkInv, [Next]_vars PROVE Locking'
  OBVIOUS
<1>0. Local /\ Locking /\ Library \subseteq Writers
  BY DEF ChainInv, ForkInv, Writers
<1>1. CASE StartWalk \/ Page \/ UNCHANGED vars
  <2>1. UNCHANGED <<queue, stage>>
    BY <1>1 DEF StartWalk, Page, vars, mine
  <2> QED BY <1>0, <2>1 DEF Locking, Holds
<1>2. ASSUME NEW w \in Writers, Moves(w) PROVE Locking'
  <2>1. /\ queue' \in Seq(Library)
        /\ \A v \in Library : v # w /\ Holds(v) => Holds(v)'
    BY <1>0, <1>2, QueueSteps DEF Locking
  <2>2. ASSUME NEW v \in Library, stage'[v] \in Inside PROVE Holds(v)'
    <3>1. CASE v = w
      BY <1>0, <1>2, <2>2, <3>1, GoingInside DEF Locking, Holds
    <3>2. CASE v # w
      BY <1>0, <1>2, <2>1, <2>2, <3>2, OthersStill DEF Locking, Still
    <3> QED BY <3>1, <3>2
  <2> QED BY <2>1, <2>2 DEF Locking
<1> QED BY <1>1, <1>2 DEF Next, Moves

(* Two writers of the library are not inside at once, so what commits      *)
(* while one is comes from outside.                                        *)
LEMMA RecentStep == ChainInv /\ ForkInv /\ [Next]_vars => Recent'
<1> SUFFICES ASSUME ChainInv, ForkInv, [Next]_vars,
                    NEW v \in Library, stage'[v] \in Places
             PROVE  prev'[v] = anchor'.head \/ Intruded'
  BY DEF Recent
<1>0. /\ Local /\ Rowed /\ Tip /\ Locking /\ Recent /\ v \in Writers
      /\ Intruded => Intruded'
  BY IntrusionsStay DEF ChainInv, ForkInv, Writers
<1>1. CASE StartWalk \/ Page \/ UNCHANGED vars
  <2>1. UNCHANGED <<anchor, stage, prev>>
    BY <1>1 DEF StartWalk, Page, vars, mine
  <2> QED BY <1>0, <2>1 DEF Recent
<1>2. ASSUME Moves(v) PROVE prev'[v] = anchor'.head \/ Intruded'
  <2>1. /\ ~Commit(v)
        /\ prev'[v] = Head_(table) \/ (stage[v] \in Places /\ prev'[v] = prev[v])
    <3>1. stage'[v] \in Inside
      BY DEF Inside
    <3> QED BY <1>0, <1>2, <3>1, GoingInside
  <2>2. anchor' = anchor /\ Head_(table) = anchor.head
    BY <1>0, <1>2, <2>1, MovesQuiet, TailIsAnchor
  <2> QED BY <1>0, <2>1, <2>2 DEF Recent
<1>3. ASSUME NEW w \in Writers, Moves(w), w # v PROVE prev'[v] = anchor'.head \/ Intruded'
  <2>1. Still(v)
    BY <1>0, <1>3, OthersStill
  <2>2. stage[v] \in Places /\ prev'[v] = prev[v] /\ Holds(v)
    BY <1>0, <2>1 DEF Still, Locking, Inside
  <2>3. CASE Commit(w)
    <3>1. w \notin Library
      <4>1. stage[w] = "written"
        BY <2>3 DEF Commit
      <4>2. w \in Library => Holds(w)
        BY <1>0, <4>1 DEF Locking, Inside, Places
      <4> QED BY <1>3, <2>2, <4>2 DEF Holds
    <3>2. Written(w)
      BY <2>3, CommitWrites
    <3>3. seq[w] \in Rows' /\ table'[seq[w]].by = w /\ w \in Reckless
      BY <3>1, <3>2 DEF Written, Writers
    <3> QED BY <3>3 DEF Intruded
  <2>4. CASE ~Commit(w)
    <3>1. anchor' = anchor
      BY <1>0, <1>3, <2>4, MovesQuiet
    <3> QED BY <1>0, <2>2, <3>1 DEF Recent
  <2> QED BY <2>3, <2>4
<1> QED BY <1>1, <1>2, <1>3 DEF Next, Moves

LEMMA BehindStep == ChainInv /\ ForkInv /\ [Next]_vars => Behind'
<1> SUFFICES ASSUME ChainInv, ForkInv, [Next]_vars PROVE Behind'
  OBVIOUS
<1>0. Behind /\ Rowed /\ Tip
  BY DEF ChainInv, ForkInv
<1>1. CASE UNCHANGED <<table, anchor>>
  BY <1>0, <1>1 DEF Behind, Rows
<1>2. ASSUME NEW w \in Writers, Commit(w) PROVE Behind'
  <2>1. Written(w)
    BY <1>2, CommitWrites
  <2>2. PICK h \in Seq(Events) : h = anchor.head
    BY <1>0 DEF Tip
  <2>3. PICK b \in Events : b = body[w]
    BY <2>1 DEF Written
  <2>4. Len(Append(h, b)) = Len(h) + 1 /\ Len(h) \in Nat
    OBVIOUS
  <2>5. /\ Rows' = Rows \cup {seq[w]} /\ \A n \in Rows : table'[n] = table[n]
        /\ table'[seq[w]].prev = h /\ anchor'.head = Append(h, b)
    BY <2>1, <2>2, <2>3 DEF Written
  <2>6. \A n \in Rows : Len(table[n].prev) \in Nat /\ Len(table[n].prev) < Len(h)
    BY <1>0, <2>2 DEF Behind, Rowed, RowType
  <2>7. ASSUME NEW n \in Rows' PROVE Len(table'[n].prev) < Len(anchor'.head)
    <3>1. CASE n \in Rows
      BY <2>4, <2>5, <2>6, <3>1
    <3>2. CASE n = seq[w]
      BY <2>4, <2>5, <3>2
    <3> QED BY <2>5, <2>7, <3>1, <3>2
  <2> QED BY <2>7 DEF Behind
<1> QED BY <1>1, <1>2, Quiet DEF ChainInv, vars

LEMMA ForkToldStep == ChainInv /\ ForkInv /\ [Next]_vars => ForkTold'
<1> SUFFICES ASSUME ChainInv, ForkInv, [Next]_vars,
                    NEW e \in Events, <<e, "forked">> \in told'
             PROVE  Intruded'
  BY DEF ForkTold
<1>0. /\ Local /\ Rowed /\ Tip /\ Recent /\ Behind
      /\ Intruded => Intruded'
      /\ <<e, "forked">> \in told => Intruded
  BY IntrusionsStay DEF ChainInv, ForkInv, ForkTold
<1>1. CASE StartWalk \/ Page \/ UNCHANGED vars
  BY <1>0, <1>1 DEF StartWalk, Page, vars, heard
<1>2. ASSUME NEW w \in Writers, Moves(w), <<e, "forked">> \notin told PROVE Intruded
  <2>1. /\ w \in Library /\ stage[w] \in Places
        /\ prev[w] # Head_(table) \/ Branches(w)
    BY <1>0, <1>2, TellingForks
  <2>2. prev[w] = anchor.head => prev[w] = Head_(table) /\ ~Branches(w)
    <3>1. Head_(table) = anchor.head
      BY <1>0, TailIsAnchor
    <3>2. ASSUME prev[w] = anchor.head, NEW n \in Rows, table[n].prev = prev[w] PROVE FALSE
      <4>1. Len(table[n].prev) < Len(anchor.head) /\ Len(anchor.head) \in Nat
        BY <1>0 DEF Behind, Tip
      <4> QED BY <3>2, <4>1
    <3> QED BY <3>1, <3>2 DEF Branches
  <2> QED BY <1>0, <2>1, <2>2 DEF Recent
<1> QED BY <1>0, <1>1, <1>2 DEF Next, Moves

LEMMA AlwaysForkInv == Spec => []ForkInv
<1>1. Init => ForkInv
  BY DEF Init, ForkInv, Locking, Recent, Behind, ForkTold, Rows, Inside, Places, Writers
<1>2. ChainInv /\ ForkInv /\ [Next]_vars => ForkInv'
  BY LockingStep, RecentStep, BehindStep, ForkToldStep DEF ForkInv
<1> QED BY <1>1, <1>2, ChainInvariant, PTL DEF Spec

(* pg_advisory_xact_lock (ledger/store.py): a fork is refused to a writer  *)
(* that takes the lock only if one that does not has committed a row.      *)
THEOREM ForksFromOutside == Spec => []ForkedByReckless
<1>1. ForkInv => ForkedByReckless
  <2> SUFFICES ASSUME ForkInv, NEW e \in Events, <<e, "forked">> \in told PROVE Intruded
    BY DEF ForkedByReckless, Intruded
  <2> QED BY DEF ForkInv, ForkTold
<1> QED BY <1>1, AlwaysForkInv, PTL

-----------------------------------------------------------------------------
(* What the types rest on: nothing is under way or committed before an     *)
(* append was sent, and a seq was drawn before it is used.                 *)
Verdicts == {"none", "walking", "ok", "truncated",
             "broken_link", "tampered", "empty", "head_mismatch"}

Started == (\E w \in Writers : stage[w] # "idle") \/ Rows # {} => 1 <= sent
Counted == sent \in 0..MaxSends /\ outages \in 0..MaxOutages /\ Started
Numbered == (\A n \in Rows : 1 <= n) /\ \A w \in Writers : seq[w] <= serial
Walked == DOMAIN walk = {"anchor", "cursor", "read", "verdict"} /\ walk.verdict \in Verdicts
Recorded == told \subseteq Events \X Answers

TypedInv == Counted /\ Numbered /\ Walked /\ Recorded

LEMMA CountedStep == ChainInv /\ TypedInv /\ [Next]_vars => Counted'
<1> SUFFICES ASSUME ChainInv, TypedInv, [Next]_vars PROVE Counted'
  OBVIOUS
<1>0. Local /\ Counted
  BY DEF ChainInv, TypedInv
<1>1. CASE StartWalk \/ Page \/ UNCHANGED vars
  <2>1. UNCHANGED <<table, stage, sent, outages>>
    BY <1>1 DEF StartWalk, Page, vars, mine
  <2> QED BY <1>0, <2>1 DEF Counted, Started, Rows
<1>2. ASSUME NEW w \in Writers, NEW e \in Events, Send(w, e) PROVE Counted'
  BY <1>0, <1>2, BoundsAssumption DEF Send, Counted, Started, Local
<1>3. ASSUME NEW w \in Writers, Step(w) \/ Outage(w) \/ Rollback(w) PROVE Counted'
  <2>1. stage[w] # "idle"
    BY <1>3 DEF Step, Lookup, Link, Draw, Guard, Index, Rehash, Commit, Answer, Refuse,
       Outage, Rollback
  <2>2. sent' = sent
    BY <1>3 DEF Step, Lookup, Link, Draw, Guard, Index, Rehash, Commit, Answer, Refuse,
       Outage, Rollback
  <2>3. outages' \in 0..MaxOutages
    <3>1. CASE Outage(w)
      BY <1>0, <3>1, BoundsAssumption DEF Outage, Counted
    <3>2. CASE ~Outage(w)
      <4>1. outages' = outages
        BY <1>3, <3>2 DEF Step, Lookup, Link, Draw, Guard, Index, Rehash, Commit, Answer,
           Refuse, Rollback
      <4> QED BY <1>0, <4>1 DEF Counted
    <3> QED BY <3>1, <3>2
  <2> QED BY <1>0, <2>1, <2>2, <2>3 DEF Counted, Started
<1> QED BY <1>1, <1>2, <1>3 DEF Next

LEMMA NumberedStep == ChainInv /\ TypedInv /\ [Next]_vars => Numbered'
<1> SUFFICES ASSUME ChainInv, TypedInv, [Next]_vars PROVE Numbered'
  OBVIOUS
<1>0. Local /\ Rowed /\ Tip /\ Numbered
  BY DEF ChainInv, TypedInv
<1>1. \A n \in Rows' : 1 <= n
  <2>1. CASE UNCHANGED table
    BY <1>0, <2>1 DEF Numbered, Rows
  <2>2. ASSUME NEW w \in Writers, Commit(w) PROVE \A n \in Rows' : 1 <= n
    <3>1. Written(w)
      BY <2>2, CommitWrites
    <3>2. Rows' = Rows \cup {seq[w]} /\ 1 <= seq[w]
      BY <1>0, <3>1 DEF Written, Tip
    <3> QED BY <1>0, <3>2 DEF Numbered
  <2> QED BY <2>1, <2>2, Quiet DEF ChainInv, vars
<1>2. ASSUME NEW v \in Writers PROVE seq'[v] <= serial'
  <2>0. seq[v] \in Nat /\ seq[v] <= serial /\ serial \in Nat
    BY <1>0 DEF Numbered, Local
  <2>1. CASE StartWalk \/ Page \/ UNCHANGED vars
    <3>1. UNCHANGED <<seq, serial>>
      BY <2>1 DEF StartWalk, Page, vars, mine
    <3> QED BY <2>0, <3>1
  <2>2. ASSUME NEW w \in Writers, Moves(w) PROVE seq'[v] <= serial'
    <3>1. serial' \in Nat /\ serial <= serial'
      <4>1. CASE Commit(w)
        BY <2>0, <4>1 DEF Commit
      <4>2. CASE ~Commit(w)
        BY <1>0, <2>2, <4>2, MovesQuiet
      <4> QED BY <4>1, <4>2
    <3>2. CASE seq'[v] = seq[v]
      BY <2>0, <3>1, <3>2
    <3>3. CASE Draw(w)
      BY <1>0, <2>0, <3>3 DEF Draw, Local
    <3>4. seq' = seq \/ seq' = [seq EXCEPT ![w] = 0] \/ Draw(w)
      <4>1. Over(w) => seq' = [seq EXCEPT ![w] = 0]
        BY DEF Over
      <4>2. CASE Lookup(w) \/ Link(w) \/ Rehash(w)
        BY <4>2 DEF Lookup, Link, Rehash
      <4>3. CASE Guard(w)
        BY <4>1, <4>3 DEF Guard, Settle
      <4>4. CASE Index(w)
        BY <4>1, <4>4 DEF Index, Settle
      <4>5. CASE Commit(w) \/ Answer(w) \/ Refuse(w)
        BY <4>1, <4>5 DEF Commit, Answer, Refuse, Settle
      <4>6. CASE Outage(w) \/ Rollback(w) \/ \E e \in Events : Send(w, e)
        BY <4>1, <4>6 DEF Outage, Rollback, Send, Settle
      <4> QED BY <2>2, <4>2, <4>3, <4>4, <4>5, <4>6 DEF Moves, Step
    <3>5. CASE seq' = [seq EXCEPT ![w] = 0]
      <4>1. seq'[v] = seq[v] \/ seq'[v] = 0
        BY <1>0, <3>5 DEF Local
      <4> QED BY <2>0, <3>1, <4>1
    <3> QED BY <3>2, <3>3, <3>4, <3>5
  <2> QED BY <2>1, <2>2 DEF Next, Moves
<1> QED BY <1>1, <1>2 DEF Numbered

LEMMA ReportIs == \A rows : Report(rows) \in Verdicts
BY DEF Report, Verdicts

LEMMA WalkedStep == Walked /\ [Next]_vars => Walked'
<1> SUFFICES ASSUME Walked, [Next]_vars PROVE Walked'
  OBVIOUS
<1>1. CASE walk' = walk
  BY <1>1 DEF Walked
<1>2. CASE StartWalk
  BY <1>2 DEF StartWalk, Walked, Verdicts
<1>3. CASE Page
  BY <1>3, ReportIs DEF Page, Walked
<1>4. ASSUME NEW w \in Writers, Moves(w) PROVE walk' = walk
  BY <1>4 DEF Moves, Step, Lookup, Link, Draw, Guard, Index, Rehash, Commit, Answer, Refuse,
     Outage, Rollback, Send
<1> QED BY <1>1, <1>2, <1>3, <1>4 DEF Next, Moves, vars

LEMMA RecordedStep == ChainInv /\ TypedInv /\ [Next]_vars => Recorded'
<1> SUFFICES ASSUME ChainInv, TypedInv, [Next]_vars PROVE Recorded'
  OBVIOUS
<1>0. Local /\ Recorded
  BY DEF ChainInv, TypedInv
<1>1. CASE told' = told
  BY <1>0, <1>1 DEF Recorded
<1>2. CASE StartWalk \/ Page \/ UNCHANGED vars
  BY <1>1, <1>2 DEF StartWalk, Page, vars, heard
<1>3. ASSUME NEW w \in Writers, Moves(w), told' # told PROVE Recorded'
  <2>1. stage[w] # "idle"
    BY <1>3 DEF Moves, Step, Lookup, Link, Draw, Guard, Index, Rehash, Commit, Answer, Refuse,
       Outage, Rollback, Send, heard
  <2>2. \E answer \in Answers : told' = told \cup {<<body[w], answer>>}
    BY <1>0, <1>3, Telling DEF Tells, Answers, heard
  <2> QED BY <1>0, <2>1, <2>2 DEF Recorded, Local
<1> QED BY <1>1, <1>2, <1>3 DEF Next, Moves

LEMMA AlwaysTyped == Spec => []TypedInv
<1>1. Init => TypedInv
  BY BoundsAssumption DEF Init, TypedInv, Counted, Started, Numbered, Walked, Recorded, Rows,
     Verdicts
<1>2. ChainInv /\ TypedInv /\ [Next]_vars => TypedInv'
  BY CountedStep, NumberedStep, WalkedStep, RecordedStep DEF TypedInv
<1> QED BY <1>1, <1>2, ChainInvariant, PTL DEF Spec

(* The tables and locals of append and of the walk hold what they are      *)
(* declared to (commerce_events and chain_head, ledger/store.py, chain.py). *)
THEOREM TypeCorrect == Spec => []TypeOK
<1>1. ChainInv /\ AnswerInv /\ ForkInv /\ TypedInv => TypeOK
  <2> SUFFICES ASSUME ChainInv, AnswerInv, ForkInv, TypedInv PROVE TypeOK
    OBVIOUS
  <2>0. Rowed /\ Tip /\ Local /\ Unfrail /\ FirstInv /\ Locking
        /\ Counted /\ Numbered /\ Walked /\ Recorded
    BY DEF ChainInv, AnswerInv, ForkInv, TypedInv
  <2>1. Rows \subseteq 1..serial
    BY <2>0 DEF Rowed, Tip, Numbered, Local
  <2>2. \A n \in Rows : table[n].body \in Events \ Frail /\ table[n].by \in Writers
    BY <2>0 DEF Rowed, RowType, Unfrail
  <2>3. anchor.length \in Nat /\ anchor.last \in 0..serial
    BY <2>0 DEF Tip, Local
  <2>4. seq \in [Writers -> 0..serial]
    BY <2>0 DEF Local, Numbered
  <2>5. \A id \in DOMAIN firsts : firsts[id] \in 0..MaxSends
    <3> SUFFICES ASSUME NEW id \in DOMAIN firsts PROVE firsts[id] \in 0..MaxSends
      OBVIOUS
    <3>1. firsts[id] \in {0, 1}
      BY <2>0 DEF FirstInv
    <3>2. CASE firsts[id] = 1
      <4>1. Rows # {}
        BY <2>0, <3>2 DEF FirstInv
      <4> QED BY <2>0, <3>2, <4>1, BoundsAssumption DEF Counted, Started
    <3> QED BY <3>1, <3>2, BoundsAssumption
  <2> QED BY <2>0, <2>1, <2>2, <2>3, <2>4, <2>5
          DEF TypeOK, Local, Locking, Counted, Walked, Verdicts, Recorded
<1> QED BY <1>1, ChainInvariant, AlwaysAnswers, AlwaysForkInv, AlwaysTyped, PTL

-----------------------------------------------------------------------------
(* The paged walk.  A set of seqs has one increasing enumeration, so what  *)
(* was read of the rows up to the cursor is a matter of which rows they    *)
(* are.  Two facts then carry it: a commit lies past every row, so none    *)
(* slips in behind the cursor; and the rows of a page are the next ones,   *)
(* so none is left out between two pages.                                  *)
LEMMA ReadingIs ==
    ASSUME NEW t, NEW S \in SUBSET Nat, IsFiniteSet(S), \A s \in S : t[s] \in RowType,
           NEW o, o = InOrder(S), NEW n, n = Cardinality(S), NEW a, a = InTurn(t, S)
    PROVE  /\ a \in Seq(RowType) /\ Len(a) = n
           /\ \A i \in 1..n : a[i] = t[o[i]]
<1>1. n \in Nat /\ DOMAIN o = 1..n /\ \A i \in 1..n : o[i] \in S
  BY Ordered
<1>2. a = [i \in 1..n |-> t[o[i]]]
  BY <1>1 DEF InTurn
<1>3. a \in [1..n -> RowType]
  BY <1>1, <1>2
<1> QED BY <1>1, <1>2, <1>3

LEMMA Joined ==
    ASSUME NEW a \in Seq(RowType), NEW b \in Seq(RowType)
    PROVE  /\ a \o b \in Seq(RowType) /\ Len(a \o b) = Len(a) + Len(b)
           /\ \A i \in 1..Len(a) : (a \o b)[i] = a[i]
           /\ \A i \in 1..Len(b) : (a \o b)[Len(a) + i] = b[i]
OBVIOUS

LEMMA ReadingJoins ==
    ASSUME NEW t, NEW S \in SUBSET Nat, IsFiniteSet(S), \A s \in S : t[s] \in RowType,
           NEW T \in SUBSET Nat, IsFiniteSet(T), \A s \in T : t[s] \in RowType,
           \A s \in S, r \in T : s < r
    PROVE  InTurn(t, S \cup T) = InTurn(t, S) \o InTurn(t, T)
<1>1. PICK m, n : m = Cardinality(S) /\ n = Cardinality(T)
  OBVIOUS
<1>2. PICK o, p : o = InOrder(S) /\ p = InOrder(T)
  OBVIOUS
<1>3. PICK a, b, c : a = InTurn(t, S) /\ b = InTurn(t, T) /\ c = InTurn(t, S \cup T)
  OBVIOUS
<1>4. m \in Nat /\ n \in Nat
  BY <1>1, FS_CardinalityType
<1>5. /\ a \in Seq(RowType) /\ Len(a) = m /\ \A i \in 1..m : a[i] = t[o[i]]
      /\ b \in Seq(RowType) /\ Len(b) = n /\ \A i \in 1..n : b[i] = t[p[i]]
  <2>1. a \in Seq(RowType) /\ Len(a) = m /\ \A i \in 1..m : a[i] = t[o[i]]
    BY <1>1, <1>2, <1>3, ReadingIs
  <2>2. b \in Seq(RowType) /\ Len(b) = n /\ \A i \in 1..n : b[i] = t[p[i]]
    BY <1>1, <1>2, <1>3, ReadingIs
  <2> QED BY <2>1, <2>2
<1>6. /\ Cardinality(S \cup T) = m + n /\ IsFiniteSet(S \cup T)
      /\ InOrder(S \cup T) = [i \in 1..(m + n) |-> IF i <= m THEN o[i] ELSE p[i - m]]
  BY <1>1, <1>2, InOrderJoins
<1> DEFINE q == [i \in 1..(m + n) |-> IF i <= m THEN o[i] ELSE p[i - m]]
<1>a. \A i \in 1..(m + n) : q[i] = IF i <= m THEN o[i] ELSE p[i - m]
  OBVIOUS
<1> HIDE DEF q
<1>7. c \in Seq(RowType) /\ Len(c) = m + n /\ \A i \in 1..(m + n) : c[i] = t[q[i]]
  <2>1. S \cup T \in SUBSET Nat /\ \A s \in S \cup T : t[s] \in RowType
    OBVIOUS
  <2>2. q = InOrder(S \cup T)
    BY <1>6 DEF q
  <2>3. PICK U, k : U = S \cup T /\ k = m + n
    OBVIOUS
  <2>4. /\ U \in SUBSET Nat /\ IsFiniteSet(U) /\ \A s \in U : t[s] \in RowType
        /\ q = InOrder(U) /\ k = Cardinality(U) /\ c = InTurn(t, U)
    BY <1>3, <1>6, <2>1, <2>2, <2>3
  <2>5. c \in Seq(RowType) /\ Len(c) = k /\ \A i \in 1..k : c[i] = t[q[i]]
    BY <2>4, ReadingIs
  <2> QED BY <2>3, <2>5
<1>8. PICK e : e = a \o b
  OBVIOUS
<1>9. /\ e \in Seq(RowType) /\ Len(e) = m + n
      /\ \A i \in 1..m : e[i] = a[i]
      /\ \A i \in 1..n : e[m + i] = b[i]
  BY <1>4, <1>5, <1>8, Joined
<1>10. ASSUME NEW i \in 1..(m + n) PROVE c[i] = e[i]
  <2>1. CASE i <= m
    <3>1. i \in 1..m
      BY <1>4, <2>1
    <3>2. q[i] = o[i] /\ e[i] = a[i]
      BY <1>a, <1>9, <2>1, <3>1
    <3> QED BY <1>5, <1>7, <3>1, <3>2
  <2>2. CASE ~(i <= m)
    <3>1. i - m \in 1..n
      BY <1>4, <2>2
    <3>2. q[i] = p[i - m] /\ e[m + (i - m)] = b[i - m] /\ m + (i - m) = i
      BY <1>4, <1>a, <1>9, <2>2, <3>1
    <3> QED BY <1>5, <1>7, <3>1, <3>2
  <2> QED BY <2>1, <2>2
<1>11. c = e
  BY <1>4, <1>7, <1>9, <1>10
<1> QED BY <1>3, <1>8, <1>11

-----------------------------------------------------------------------------
(* A page: the next rows past the cursor, and all of them if it is short.  *)
Under(S, n) == {m \in S : m < n}

LEMMA SmallestIs ==
    ASSUME NEW S \in SUBSET Nat, IsFiniteSet(S)
    PROVE  /\ Smallest(S) \in SUBSET S
           /\ \A n \in Smallest(S), m \in S : m < n => m \in Smallest(S)
           /\ Cardinality(Smallest(S)) < Chunk => Smallest(S) = S
<1>1. \A n : n \in Smallest(S) <=> n \in S /\ Cardinality(Under(S, n)) < Chunk
  BY Zenon DEF Smallest, Under
<1>2. \A T \in SUBSET S : IsFiniteSet(T) /\ Cardinality(T) \in Nat
  BY FS_Subset, FS_CardinalityType
<1>3. ASSUME NEW T \in SUBSET S, NEW U \in SUBSET T, Cardinality(T) < Chunk
      PROVE  Cardinality(U) < Chunk
  <2>1. Cardinality(U) <= Cardinality(T)
    BY <1>2, FS_Subset
  <2>2. Cardinality(U) \in Nat /\ Cardinality(T) \in Nat
    BY <1>2
  <2> QED BY <1>3, <2>1, <2>2, ChunkAssumption
<1>4. ASSUME NEW n \in Smallest(S), NEW m \in S, m < n PROVE m \in Smallest(S)
  <2>1. Under(S, n) \in SUBSET S /\ Under(S, m) \in SUBSET Under(S, n)
    <3>1. n \in Nat /\ m \in Nat
      BY <1>1
    <3>2. \A k \in S : k < m => k < n
      BY <1>4, <3>1
    <3> QED BY <3>2 DEF Under
  <2>2. Cardinality(Under(S, n)) < Chunk
    BY <1>1
  <2> QED BY <1>1, <1>3, <2>1, <2>2
<1>5. ASSUME Cardinality(Smallest(S)) < Chunk PROVE Smallest(S) = S
  <2> DEFINE rest == S \ Smallest(S)
  <2> SUFFICES ASSUME rest # {} PROVE FALSE
    BY <1>1
  <2>1. PICK n \in rest : \A k \in rest : n <= k
    BY LeastIs
  <2>2. Under(S, n) \in SUBSET Smallest(S)
    <3> SUFFICES ASSUME NEW m \in S, m < n, m \in rest PROVE FALSE
      BY DEF Under
    <3> QED BY <2>1
  <2>3. Smallest(S) \in SUBSET S
    BY <1>1
  <2>4. Cardinality(Under(S, n)) < Chunk
    BY <1>3, <1>5, <2>2, <2>3
  <2> QED BY <1>1, <2>4
<1> QED BY <1>1, <1>4, <1>5

Passed(c) == {n \in Rows : n <= c}

LEMMA RowsFinite ==
    ASSUME Rowed, NEW S \in SUBSET Rows
    PROVE  S \in SUBSET Nat /\ IsFiniteSet(S) /\ \A s \in S : table[s] \in RowType
BY FS_Subset DEF Rowed

LEMMA WindowIs ==
    ASSUME Rowed, walk.cursor \in Nat
    PROVE  /\ Window \in SUBSET Rows
           /\ \A n \in Window : walk.cursor < n
           /\ \A n \in Window, m \in Rows : walk.cursor < m /\ m < n => m \in Window
           /\ LastPage(Window) => \A n \in Rows : walk.cursor < n => n \in Window
<1> DEFINE S == {n \in Rows : n > walk.cursor}
<1>1. S \in SUBSET Nat /\ IsFiniteSet(S)
  BY RowsFinite
<1>2. Window = Smallest(S)
  BY DEF Window
<1>3. /\ Window \in SUBSET S
      /\ \A n \in Window, m \in S : m < n => m \in Window
      /\ LastPage(Window) => Window = S
  BY <1>1, <1>2, SmallestIs DEF LastPage
<1>4. \A n \in Rows : n \in S <=> walk.cursor < n
  BY DEF Rowed
<1> QED BY <1>3, <1>4

LEMMA PageReads ==
    ASSUME Rowed, walk.cursor \in Rows \cup {0},
           walk.read = InTurn(table, Passed(walk.cursor)),
           NEW order, order = InOrder(Window), NEW c, c = Cursor(order)
    PROVE  /\ c \in Rows \cup {0}
           /\ walk.read \o InTurn(table, Window) = InTurn(table, Passed(c))
           /\ LastPage(Window) => Passed(c) = Rows
<1>1. walk.cursor \in Nat /\ Rows \in SUBSET Nat
  BY DEF Rowed
<1>2. /\ Window \in SUBSET Rows
      /\ \A n \in Window : walk.cursor < n
      /\ \A n \in Window, m \in Rows : walk.cursor < m /\ m < n => m \in Window
      /\ LastPage(Window) => \A n \in Rows : walk.cursor < n => n \in Window
  BY <1>1, WindowIs
<1>3. PICK W, n : W = Window /\ n = Cardinality(W)
  OBVIOUS
<1>4. W \in SUBSET Nat /\ IsFiniteSet(W) /\ \A s \in W : table[s] \in RowType
  BY <1>2, <1>3, RowsFinite
<1>5. /\ n \in Nat /\ order \in Seq(Nat) /\ Len(order) = n
      /\ \A i \in 1..n : order[i] \in W
      /\ \A i, j \in 1..n : i < j => order[i] < order[j]
      /\ \A s \in W : \E i \in 1..n : order[i] = s
  BY <1>3, <1>4, Ordered
<1>6. c \in Rows \cup {0} /\ Passed(c) = Passed(walk.cursor) \cup W
  <2>1. CASE n = 0
    <3>1. W = {} /\ order = <<>>
      BY <1>5, <2>1
    <3>2. c = walk.cursor
      BY <3>1 DEF Cursor
    <3> QED BY <3>1, <3>2
  <2>2. CASE n # 0
    <3>1. order # <<>> /\ n \in 1..n
      BY <1>5, <2>2
    <3>2. c = order[n] /\ c \in W
      BY <1>5, <3>1 DEF Cursor
    <3>3. \A s \in W : s <= c
      BY <1>4, <1>5, <3>1, <3>2
    <3>4. c \in Nat /\ walk.cursor < c
      BY <1>2, <1>3, <1>4, <3>2
    <3>5. ASSUME NEW m \in Rows PROVE m <= c <=> m <= walk.cursor \/ m \in W
      <4>1. m \in Nat
        BY <1>1
      <4>2. walk.cursor < m /\ m < c => m \in W
        BY <1>2, <1>3, <3>2
      <4> QED BY <1>1, <3>2, <3>3, <3>4, <4>1, <4>2
    <3> QED BY <1>2, <1>3, <3>2, <3>5 DEF Passed
  <2> QED BY <2>1, <2>2
<1>7. InTurn(table, Window) = InTurn(table, W)
  BY <1>3
<1>8. PICK U : U = Passed(walk.cursor)
  OBVIOUS
<1>9. U \in SUBSET Nat /\ IsFiniteSet(U) /\ \A s \in U : table[s] \in RowType
  BY <1>8, RowsFinite DEF Passed
<1>10. \A s \in U, r \in W : s < r
  <2> SUFFICES ASSUME NEW s \in U, NEW r \in W PROVE s < r
    OBVIOUS
  <2>1. s <= walk.cursor /\ walk.cursor < r
    BY <1>2, <1>3, <1>8 DEF Passed
  <2>2. s \in Nat /\ r \in Nat
    BY <1>4, <1>9
  <2> QED BY <1>1, <2>1, <2>2
<1>11. InTurn(table, U \cup W) = InTurn(table, U) \o InTurn(table, W)
  BY <1>4, <1>9, <1>10, ReadingJoins
<1>12. LastPage(Window) => Passed(c) = Rows
  <2> SUFFICES ASSUME LastPage(Window), NEW m \in Rows PROVE m \in Passed(c)
    BY DEF Passed
  <2>1. m <= walk.cursor \/ walk.cursor < m
    BY <1>1
  <2> QED BY <1>2, <1>3, <1>6, <2>1 DEF Passed
<1> QED BY <1>6, <1>7, <1>8, <1>11, <1>12

-----------------------------------------------------------------------------
(* verify_chain finds nothing wrong in the chain as it is, and nothing but *)
(* its length can differ from an anchor that was the chain's.              *)
LEMMA PreviousIs ==
    ASSUME Rowed, NEW n \in Rows
    PROVE  /\ (\A m \in Rows : ~(m < n)) => Head_(Before(n)) = Genesis
           /\ \A k \in Rows : k < n /\ (\A m \in Rows : m < n => m <= k) =>
                 Head_(Before(n)) = table[k].hash
<1> DEFINE S == {m \in Rows : m < n}
<1>1. DOMAIN Before(n) = S /\ \A m \in S : Before(n)[m] = table[m]
  BY DEF Before
<1>2. ASSUME \A m \in Rows : ~(m < n) PROVE Head_(Before(n)) = Genesis
  BY <1>1, <1>2 DEF Head_
<1>3. ASSUME NEW k \in Rows, k < n, \A m \in Rows : m < n => m <= k
      PROVE  Head_(Before(n)) = table[k].hash
  <2>1. k \in S /\ S \in SUBSET Nat /\ \A m \in S : m <= k
    BY <1>3 DEF Rowed
  <2>2. Highest(S) = k
    BY <2>1, HighestIs
  <2> QED BY <1>1, <2>1, <2>2 DEF Head_
<1> QED BY <1>2, <1>3

LEMMA ReadsTrue ==
    ASSUME ChainInv, NEW rows, rows = InTurn(table, Rows), NEW n, n = Cardinality(Rows)
    PROVE  /\ rows \in Seq(RowType) /\ Len(rows) = n /\ n \in Nat
           /\ Linked(rows) /\ Sealed(rows)
           /\ n > 0 => rows[n].hash = anchor.head
<1>0. Rowed /\ Tip /\ Sealing
  BY DEF ChainInv
<1>1. Rows \in SUBSET Nat /\ IsFiniteSet(Rows) /\ \A s \in Rows : table[s] \in RowType
  BY <1>0 DEF Rowed
<1>2. PICK o : o = InOrder(Rows)
  OBVIOUS
<1>3. /\ n \in Nat
      /\ \A i \in 1..n : o[i] \in Rows
      /\ \A i, j \in 1..n : i < j => o[i] < o[j]
      /\ \A s \in Rows : \E i \in 1..n : o[i] = s
  <2>1. PICK R : R = Rows
    OBVIOUS
  <2>2. R \in SUBSET Nat /\ IsFiniteSet(R) /\ o = InOrder(R) /\ n = Cardinality(R)
    BY <1>1, <1>2, <2>1
  <2>3. /\ n \in Nat
        /\ \A i \in 1..n : o[i] \in R
        /\ \A i, j \in 1..n : i < j => o[i] < o[j]
        /\ \A s \in R : \E i \in 1..n : o[i] = s
    BY <2>2, Ordered
  <2> QED BY <2>1, <2>3
<1>4. rows \in Seq(RowType) /\ Len(rows) = n /\ \A i \in 1..n : rows[i] = table[o[i]]
  BY <1>1, <1>2, ReadingIs
<1>5. DOMAIN rows = 1..n
  BY <1>3, <1>4
<1>6. Sealed(rows)
  <2>1. \A i \in 1..n : rows[i].hash = Append(rows[i].prev, rows[i].body)
    BY <1>0, <1>3, <1>4 DEF Sealing
  <2> QED BY <1>5, <2>1 DEF Sealed
<1>7. ASSUME NEW i \in 1..n
      PROVE  rows[i].prev = IF i = 1 THEN Genesis ELSE rows[i - 1].hash
  <2>1. o[i] \in Rows /\ rows[i].prev = Head_(Before(o[i]))
    BY <1>0, <1>3, <1>4 DEF Sealing
  <2>2. ASSUME NEW m \in Rows, m < o[i]
        PROVE  \E j \in 1..n : o[j] = m /\ j < i
    <3>1. PICK j \in 1..n : o[j] = m
      BY <1>3
    <3>2. o[i] \in Nat /\ m \in Nat
      BY <1>1, <2>1
    <3>3. ~(i < j) /\ i # j
      BY <1>3, <2>2, <3>1, <3>2
    <3> QED BY <1>3, <3>1, <3>3
  <2>3. CASE i = 1
    <3>1. \A m \in Rows : ~(m < o[i])
      BY <1>3, <2>2, <2>3
    <3> QED BY <1>0, <2>1, <2>3, <3>1, PreviousIs
  <2>4. CASE i # 1
    <3>1. i - 1 \in 1..n /\ i - 1 < i
      BY <1>3, <2>4
    <3>2. o[i - 1] \in Rows /\ o[i - 1] < o[i] /\ rows[i - 1] = table[o[i - 1]]
      BY <1>3, <1>4, <3>1
    <3>3. ASSUME NEW m \in Rows, m < o[i] PROVE m <= o[i - 1]
      <4>1. PICK j \in 1..n : o[j] = m /\ j < i
        BY <2>2, <3>3
      <4>2. j = i - 1 \/ j < i - 1
        BY <1>3, <4>1
      <4>3. m \in Nat /\ o[i - 1] \in Nat
        BY <1>1, <3>2
      <4> QED BY <1>3, <3>1, <4>1, <4>2, <4>3
    <3>4. Head_(Before(o[i])) = table[o[i - 1]].hash
      BY <1>0, <2>1, <3>2, <3>3, PreviousIs
    <3> QED BY <2>1, <2>4, <3>2, <3>4
  <2> QED BY <2>3, <2>4
<1>8. Linked(rows)
  BY <1>5, <1>7 DEF Linked
<1>9. ASSUME n > 0 PROVE rows[n].hash = anchor.head
  <2>1. n \in 1..n /\ o[n] \in Rows
    BY <1>3, <1>9
  <2>2. anchor.last \in Rows /\ anchor.head = table[anchor.last].hash /\ o[n] <= anchor.last
    BY <1>0, <2>1 DEF Tip
  <2>3. PICK j \in 1..n : o[j] = anchor.last
    BY <1>3, <2>2
  <2>4. ~(j < n)
    <3>1. o[n] \in Nat /\ o[j] \in Nat
      BY <1>1, <2>1, <2>2, <2>3
    <3> QED BY <1>3, <2>1, <2>2, <2>3, <3>1
  <2>5. j = n
    BY <1>3, <2>4
  <2> QED BY <1>4, <2>1, <2>2, <2>3, <2>5
<1> QED BY <1>3, <1>4, <1>6, <1>8, <1>9

LEMMA ReportTrue ==
    ASSUME ChainInv, NEW rows, rows = InTurn(table, Rows),
           walk.anchor.length \in Nat, walk.anchor.length <= anchor.length,
           walk.anchor.length = anchor.length => walk.anchor.head = anchor.head
    PROVE  /\ Report(rows) \in {"ok", "truncated"}
           /\ Report(rows) = "truncated" => walk.anchor.length < anchor.length
<1>1. PICK n : n = Cardinality(Rows)
  OBVIOUS
<1>2. /\ rows \in Seq(RowType) /\ Len(rows) = n /\ n \in Nat
      /\ Linked(rows) /\ Sealed(rows)
      /\ n > 0 => rows[n].hash = anchor.head
  BY <1>1, ReadsTrue
<1>3. anchor.length = n
  BY <1>1 DEF ChainInv, Tip
<1>4. rows = <<>> <=> n = 0
  BY <1>2
<1> QED BY <1>2, <1>3, <1>4 DEF Report

-----------------------------------------------------------------------------
(* The walk has read the rows up to its cursor, which is a row's seq, and  *)
(* the anchor it started from was the chain's: it is the chain's still, or *)
(* the chain has grown.                                                    *)
Anchored == /\ walk.anchor.length \in Nat /\ walk.anchor.length <= anchor.length
            /\ walk.anchor.length = anchor.length => walk.anchor.head = anchor.head
HasRead  == walk.read = InTurn(table, Passed(walk.cursor))
WalkInv  == walk.cursor \in Rows \cup {0} /\ HasRead /\ Anchored /\ VerdictTrue

LEMMA ReadingKept ==
    ASSUME NEW t, NEW u, NEW S \in SUBSET Nat, IsFiniteSet(S), \A s \in S : t[s] = u[s]
    PROVE  InTurn(t, S) = InTurn(u, S)
<1>1. PICK o, n : o = InOrder(S) /\ n = Cardinality(S)
  OBVIOUS
<1>2. DOMAIN o = 1..n /\ \A i \in 1..n : o[i] \in S
  BY <1>1, Ordered
<1>3. \A i \in DOMAIN o : t[o[i]] = u[o[i]]
  BY <1>2
<1> QED BY <1>1, <1>3 DEF InTurn

LEMMA ReadsNothing == InTurn(table, {}) = <<>>
<1>1. PICK a : a = InTurn(table, {})
  OBVIOUS
<1>2. a \in Seq(RowType) /\ Len(a) = 0
  BY <1>1, ReadingIs, FS_EmptySet
<1> QED BY <1>1, <1>2

(* A commit lies past the cursor, and past the anchor.                     *)
LEMMA WalkCommit ==
    ASSUME ChainInv, Numbered, WalkInv, NEW w \in Writers, Commit(w)
    PROVE  WalkInv'
<1>0. Written(w) /\ walk' = walk /\ Rowed /\ Tip
  BY CommitWrites DEF Commit, ChainInv
<1>1. /\ Rows' = Rows \cup {seq[w]} /\ seq[w] \in Nat /\ \A n \in Rows : table'[n] = table[n]
      /\ anchor'.length = anchor.length + 1 /\ anchor.length \in Nat
      /\ \A n \in Rows : n < seq[w]
      /\ 0 < seq[w]
  BY <1>0 DEF Written, Tip
<1>2. PICK c : c = walk.cursor
  OBVIOUS
<1>3. c \in Rows \cup {0} /\ c < seq[w] /\ c \in Nat
  BY <1>0, <1>1, <1>2 DEF WalkInv, Rowed
<1>4. Passed(c)' = Passed(c)
  <2>1. ~(seq[w] <= c)
    BY <1>1, <1>3
  <2> QED BY <1>1, <2>1 DEF Passed
<1>5. InTurn(table', Passed(c)) = InTurn(table, Passed(c))
  <2>1. Passed(c) \in SUBSET Rows
    BY DEF Passed
  <2>2. Passed(c) \in SUBSET Nat /\ IsFiniteSet(Passed(c)) /\ \A s \in Passed(c) : table'[s] = table[s]
    BY <1>0, <1>1, <2>1, RowsFinite
  <2> QED BY <2>2, ReadingKept
<1>6. HasRead'
  BY <1>0, <1>2, <1>4, <1>5 DEF HasRead, WalkInv
<1>7. Anchored' /\ VerdictTrue'
  BY <1>0, <1>1 DEF WalkInv, Anchored, VerdictTrue
<1> QED BY <1>0, <1>1, <1>2, <1>3, <1>6, <1>7 DEF WalkInv

LEMMA WalkStart ==
    ASSUME ChainInv, Numbered, WalkInv, StartWalk
    PROVE  WalkInv'
<1>1. /\ walk' = [anchor |-> anchor, cursor |-> 0, read |-> <<>>, verdict |-> "walking"]
      /\ table' = table /\ anchor' = anchor /\ Tip /\ Rowed
  BY DEF StartWalk, ChainInv
<1>2. Passed(0)' = {}
  BY <1>1 DEF Passed, Numbered, Rows, Rowed
<1>3. HasRead'
  BY <1>1, <1>2, ReadsNothing DEF HasRead
<1>4. Anchored' /\ VerdictTrue'
  BY <1>1 DEF Anchored, VerdictTrue, Tip
<1> QED BY <1>1, <1>3, <1>4 DEF WalkInv

LEMMA WalkPage ==
    ASSUME ChainInv, Walked, WalkInv, Page
    PROVE  WalkInv'
<1>0. Rowed /\ table' = table /\ anchor' = anchor /\ Rows' = Rows
  BY DEF Page, ChainInv, Rows
<1>1. PICK order, c : order = InOrder(Window) /\ c = Cursor(order)
  OBVIOUS
<1>2. PICK rows : rows = walk.read \o InTurn(table, Window)
  OBVIOUS
<1>3. /\ c \in Rows \cup {0}
      /\ rows = InTurn(table, Passed(c))
      /\ LastPage(Window) => Passed(c) = Rows
  BY <1>0, <1>1, <1>2, PageReads DEF WalkInv, HasRead
<1>4. PICK v : v = IF LastPage(Window) THEN Report(rows) ELSE walk.verdict
  OBVIOUS
<1>5. walk' = [walk EXCEPT !.cursor = c, !.read = rows, !.verdict = v]
  BY <1>1, <1>2, <1>4 DEF Page
<1>6. /\ walk'.cursor = c /\ walk'.read = rows /\ walk'.verdict = v
      /\ walk'.anchor = walk.anchor
  BY <1>5 DEF Walked
<1>7. HasRead'
  <2>1. Passed(c)' = Passed(c)
    BY <1>0 DEF Passed
  <2> QED BY <1>0, <1>3, <1>6, <2>1 DEF HasRead
<1>8. Anchored'
  BY <1>0, <1>6 DEF WalkInv, Anchored
<1>9. VerdictTrue'
  <2>1. CASE LastPage(Window)
    <3>1. rows = InTurn(table, Rows)
      BY <1>3, <2>1
    <3>2. /\ Report(rows) \in {"ok", "truncated"}
          /\ Report(rows) = "truncated" => walk.anchor.length < anchor.length
      BY <3>1, ReportTrue DEF WalkInv, Anchored
    <3> QED BY <1>0, <1>4, <1>6, <2>1, <3>2 DEF VerdictTrue
  <2>2. CASE ~LastPage(Window)
    BY <1>0, <1>4, <1>6, <2>2 DEF WalkInv, VerdictTrue
  <2> QED BY <2>1, <2>2
<1> QED BY <1>0, <1>3, <1>6, <1>7, <1>8, <1>9 DEF WalkInv

LEMMA AlwaysWalks == Spec => []WalkInv
<1>1. Init => WalkInv
  <2> SUFFICES ASSUME Init PROVE WalkInv
    OBVIOUS
  <2>1. Passed(0) = {}
    BY DEF Init, Passed, Rows
  <2>2. /\ walk = [anchor |-> anchor, cursor |-> 0, read |-> <<>>, verdict |-> "none"]
        /\ anchor.length = 0
    BY DEF Init
  <2>3. /\ walk.anchor = anchor /\ walk.cursor = 0 /\ walk.read = <<>>
        /\ walk.verdict = "none"
    BY <2>2
  <2>4. HasRead
    BY <2>1, <2>3, ReadsNothing DEF HasRead
  <2>5. Anchored /\ VerdictTrue
    BY <2>2, <2>3 DEF Anchored, VerdictTrue
  <2> QED BY <2>3, <2>4, <2>5 DEF WalkInv
<1>2. ChainInv /\ TypedInv /\ WalkInv /\ [Next]_vars => WalkInv'
  <2> SUFFICES ASSUME ChainInv, TypedInv, WalkInv, [Next]_vars PROVE WalkInv'
    OBVIOUS
  <2>0. Numbered /\ Walked /\ Local
    BY DEF TypedInv, ChainInv
  <2>1. CASE UNCHANGED <<table, anchor, walk>>
    BY <2>1 DEF WalkInv, HasRead, Passed, Rows, Anchored, VerdictTrue
  <2>2. ASSUME NEW w \in Writers, Moves(w) PROVE WalkInv'
    <3>1. CASE Commit(w)
      BY <2>0, <3>1, WalkCommit
    <3>2. CASE ~Commit(w)
      <4>1. UNCHANGED <<table, anchor>>
        BY <2>0, <2>2, <3>2, MovesQuiet
      <4>2. walk' = walk
        BY <2>2 DEF Moves, Step, Lookup, Link, Draw, Guard, Index, Rehash, Commit, Answer,
           Refuse, Outage, Rollback, Send
      <4> QED BY <2>1, <4>1, <4>2
    <3> QED BY <3>1, <3>2
  <2>3. CASE StartWalk
    BY <2>0, <2>3, WalkStart
  <2>4. CASE Page
    BY <2>0, <2>4, WalkPage
  <2> QED BY <2>1, <2>2, <2>3, <2>4 DEF Next, Moves, vars
<1> QED BY <1>1, <1>2, ChainInvariant, AlwaysTyped, PTL DEF Spec

(* _anchored_report (ledger/store.py): paging by seq, a page a statement,  *)
(* reads every committed row up to the cursor once and in order, whatever  *)
(* is appended, rolled back or left as a hole between two pages.           *)
THEOREM WalkReadsAll == Spec => []WalkMissesNothing
<1>1. WalkInv => WalkMissesNothing
  BY DEF WalkInv, HasRead, Passed, WalkMissesNothing
<1> QED BY <1>1, AlwaysWalks, PTL

(* verify_chain (ledger/chain.py): a walk that races appends finds the     *)
(* chain sound, or shorter in its anchor than in its rows, and says the    *)
(* latter only if an append was committed since it read the anchor.        *)
THEOREM VerdictHonest == Spec => []VerdictTrue
<1>1. WalkInv => VerdictTrue
  BY DEF WalkInv
<1> QED BY <1>1, AlwaysWalks, PTL

=============================================================================
