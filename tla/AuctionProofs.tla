---------------------------- MODULE AuctionProofs ----------------------------
(***************************************************************************)
(* What module Auction guarantees for any number of requests, any bids,    *)
(* any TTL and clocks without bound.                                       *)
(*                                                                         *)
(* The argument rests on three facts the code nowhere states together.  A  *)
(* reservation is taken for a whole TTL after the record was last written, *)
(* so it outlives that record (Fresh, ExitKept).  A state is never entered *)
(* twice, so nobody who waits for a reservation finds the state it wants   *)
(* to leave again (Ranked).  And while the record says closed it is never  *)
(* written, so every accept has read the same expiry (ClaimKept).          *)
(***************************************************************************)
EXTENDS Auction, TLAPS

Rank(s) == CASE s = "none"    -> 0
             [] s = "created" -> 1
             [] s = "open"    -> 2
             [] s = "closed"  -> 3
             [] OTHER         -> 4

Fresh == /\ record.until =< now + TTL
         /\ \A n \in Names : holds[n].until =< now + TTL
         /\ \A r \in Requests : seen[r] =< now + TTL

Beginning == pc[Creator] \in {"start", "create"} =>
                record = [state |-> "none", bid |-> NoBid, until |-> 0]

Ranked == \A r \in Requests :
            /\ Rank(source[r]) =< Rank(record.state)
            /\ source[r] \in {"none", "created", "open", "closed"}
            /\ bid[r] # NoBid => Rank(record.state) >= 3

Moving(r) == \/ pc[r] \in {"reserve", "reread", "save"}
             \/ pc[r] \in {"release", "delete"} /\ source[r] # "none"

Roles ==
    /\ \A r \in Requests : Moving(r) => target[r] \in Transitions(source[r])
    /\ /\ bid[Creator] = NoBid
       /\ target[Creator] \in {"none", "open", "closed"}
       /\ pc[Creator] \notin {"gate", "claim", "mint", "bridge"}
       /\ pc[Creator] \in {"start", "create"} => source[Creator] = "none"
    /\ \A r \in Expirers :
         /\ bid[r] = NoBid
         /\ target[r] \in {"none", "expired"}
         /\ pc[r] # "start" => target[r] = "expired"
         /\ pc[r] \notin {"create", "book", "gate", "claim", "mint", "bridge"}
         /\ pc[r] \in {"release", "delete"} => source[r] # "none"
    /\ \A r \in Acceptors :
         /\ target[r] \in {"none", "accepted"}
         /\ pc[r] \notin {"create", "book"}
         /\ pc[r] \in {"gate", "claim"} \/ target[r] = "accepted" => bid[r] \in Bids
         /\ pc[r] \in {"start", "gate", "claim"} => target[r] = "none"
         /\ pc[r] \in {"start", "gate", "claim", "mint"} => source[r] = "none"
         /\ pc[r] \notin {"start", "gate", "claim", "done", "died"}
               => target[r] = "accepted"

(* The reservation of the exit a request is leaving by is its own, or the  *)
(* record it wanted to move has lapsed.                                    *)
ExitKept ==
    \A r \in Requests :
        pc[r] \in {"reread", "save", "release", "delete"}
            /\ source[r] # "none" /\ source[r] = record.state =>
          \/ now >= record.until
          \/ /\ holds[Exit(source[r])].by = r
             /\ holds[Exit(source[r])].until >= record.until

OneSaver == \A r \in Requests : pc[r] = "save" =>
                /\ record.state = source[r]
                /\ \A q \in Requests : pc[q] = "save" => q = r

(* Whoever moved the record into a terminal state is alone, and the record *)
(* still says so.                                                          *)
Ends(r) == \/ pc[r] = "file" /\ target[r] \in {"accepted", "expired"}
           \/ \E f \in Outcomes : f[2] = r

Final == \A r \in Requests : Ends(r) =>
            /\ target[r] \in {"accepted", "expired"}
            /\ record.state = target[r]
            /\ target[r] = "accepted" => record.bid = bid[r]
            /\ \A q \in Requests : Ends(q) => q = r

FiledBy == \A f \in filed : /\ f[1] = "accepted" => target[f[2]] = "accepted"
                            /\ f[2] \in Expirers => target[f[2]] = "expired"

RecordInv == /\ TypeOK /\ Fresh /\ Beginning /\ Ranked /\ Roles
             /\ ExitKept /\ OneSaver /\ Final /\ FiledBy

(* An accept that took the claim and has not given it back.                *)
Claimed(r) == /\ r \in Acceptors /\ target[r] = "accepted"
              /\ \/ r \in codes
                 \/ source[r] # "none"
                 \/ pc[r] \in {"mint", "read", "release", "delete"}

ClaimKept ==
    \A r \in Requests : Claimed(r) =>
        /\ holds["accept"].by = r
        /\ record.state = "closed" => record.until =< holds["accept"].until
        /\ \A q \in Requests : pc[q] \in {"gate", "claim"} =>
             seen[q] =< holds["accept"].until

ReadsInTime == \A q \in Requests : pc[q] \in {"gate", "claim"} =>
                  /\ now < seen[q]
                  /\ record.state = "closed" => seen[q] = record.until

Issued ==
    /\ \A r \in codes : r \in Acceptors /\ target[r] = "accepted"
    /\ \A r \in Acceptors :
         /\ pc[r] = "mint" => r \notin codes
         /\ pc[r] \in {"release", "delete"} /\ source[r] = "none" => r \notin codes
    /\ \A r \in orphans : pc[r] = "done" /\ source[r] = "none"

Stamped ==
    record.state = "accepted" =>
        \E w \in Acceptors : /\ Claimed(w) /\ source[w] # "none"
                             /\ bid[w] = record.bid

CodeInv == RecordInv /\ ClaimKept /\ ReadsInTime /\ Issued /\ Stamped

-----------------------------------------------------------------------------
(* The steps that end a request and change nothing else: a refusal before  *)
(* anything was taken, or a death.                                         *)
Quits(r) == /\ pc[r] \notin Ended /\ (pc[r] = "start" => r \in Acceptors)
            /\ \E e \in Ended :
                  /\ pc' = [pc EXCEPT ![r] = e]
                  /\ e = "done" => pc[r] \in {"start", "read", "reserve", "gate", "claim"}
            /\ UNCHANGED <<now, record, holds, local, book, money, filed>>

ByRequest(r) ==
    \/ ExpireStart(r) \/ Read(r) \/ ReserveExit(r)
    \/ Reread(r) \/ RereadRefused(r) \/ SaveRecord(r)
    \/ SaveFails(r) \/ GiveBack(r) \/ Delete(r)
    \/ FileMove(r) \/ GatePassed(r) \/ Claim(r)
    \/ Mint(r) \/ MintFails(r) \/ MintOrphans(r)
    \/ MintUnreported(r) \/ Bridge(r) \/ Quits(r)
    \/ \E b \in Bids : AcceptStart(r, b)

LEMMA Cases ==
    Next => \/ CreateReserve \/ CreateSave \/ CreateFails \/ RecordBids \/ Tick
            \/ \E r \in Requests : ByRequest(r)
<1>1. ASSUME NEW r,
             \/ ReadRefused(r) \/ ReserveLost(r) \/ AcceptRefused(r)
             \/ GateRefused(r) \/ ClaimLost(r) \/ Die(r)
      PROVE  Quits(r)
    BY <1>1 DEF ReadRefused, ReserveLost, AcceptRefused, GateRefused, ClaimLost, Die,
                Quits, Goto, Ended
<1>2. ASSUME NEW r, Transition(r) \/ Accept(r) \/ ExpireStart(r) \/ Die(r)
      PROVE  ByRequest(r)
    <2>1. CASE Transition(r) BY <1>1, <2>1 DEF Transition, ByRequest
    <2>2. CASE Accept(r) BY <1>1, <2>2 DEF Accept, ByRequest
    <2>3. CASE ExpireStart(r) BY <2>3 DEF ByRequest
    <2>4. CASE Die(r) BY <1>1, <2>4 DEF ByRequest
    <2> QED BY <1>2, <2>1, <2>2, <2>3, <2>4
<1> QED BY <1>2 DEF Next, Create

(* Every variable keeps the shape the code gives it.                       *)
LEMMA TypeStep == TypeOK /\ [Next]_vars => TypeOK'
<1> SUFFICES ASSUME TypeOK, [Next]_vars PROVE TypeOK'
    OBVIOUS
<1> USE TTLAssumption, RoleAssumption, BidAssumption
       DEF TypeOK, Requests, States, Names, Steps, Ended, EventKinds, Goto,
           local, money, Exit, Transitions
<1>1. CASE CreateReserve BY <1>1 DEF CreateReserve, Reserve, Held
<1>2. CASE CreateSave BY <1>2 DEF CreateSave, Save, Present
<1>3. CASE CreateFails BY <1>3 DEF CreateFails, Save
<1>4. CASE RecordBids BY <1>4 DEF RecordBids
<1>5. CASE Tick BY <1>5 DEF Tick
<1>6. ASSUME NEW r \in Requests, ByRequest(r) PROVE TypeOK'
  <2>1. CASE ExpireStart(r) BY <2>1 DEF ExpireStart
  <2>2. CASE Read(r) BY <2>2 DEF Read, Present
  <2>3. CASE ReserveExit(r) BY <2>3 DEF ReserveExit, Reserve, Held
  <2>4. CASE Reread(r) BY <2>4 DEF Reread, Unmoved, Present
  <2>5. CASE RereadRefused(r) BY <2>5 DEF RereadRefused, Unmoved, Present
  <2>6. CASE SaveRecord(r) BY <2>6 DEF SaveRecord, Write, Save
  <2>7. CASE SaveFails(r) BY <2>7 DEF SaveFails, Write, Save
  <2>8. CASE GiveBack(r) BY <2>8 DEF GiveBack, Held, Mine, Token
  <2>9. CASE Delete(r) BY <2>9 DEF Delete, Mine, Free
  <2>10. CASE FileMove(r) BY <2>10 DEF FileMove, File, Kind
  <2>11. CASE GatePassed(r) BY <2>11 DEF GatePassed
  <2>12. CASE Claim(r) BY <2>12 DEF Claim, Reserve, Held
  <2>13. CASE Mint(r) BY <2>13 DEF Mint
  <2>14. CASE MintFails(r) BY <2>14 DEF MintFails
  <2>15. CASE MintOrphans(r) BY <2>15 DEF MintOrphans
  <2>16. CASE MintUnreported(r) BY <2>16 DEF MintUnreported
  <2>17. CASE Bridge(r) BY <2>17 DEF Bridge
  <2>18. CASE Quits(r) BY <2>18 DEF Quits
  <2>19. ASSUME NEW b \in Bids, AcceptStart(r, b) PROVE TypeOK'
      BY <2>19 DEF AcceptStart, Present
  <2> QED BY <1>6, <2>1, <2>2, <2>3, <2>4, <2>5, <2>6, <2>7, <2>8, <2>9, <2>10, <2>11,
         <2>12, <2>13, <2>14, <2>15, <2>16, <2>17, <2>18, <2>19 DEF ByRequest
<1>7. CASE UNCHANGED vars BY <1>7 DEF vars
<1> QED BY <1>1, <1>2, <1>3, <1>4, <1>5, <1>6, <1>7, Cases

LEMMA TypeInit == Init => TypeOK
<1> SUFFICES ASSUME Init PROVE TypeOK
    OBVIOUS
<1> USE RoleAssumption, BidAssumption DEF Init
<1>1. now \in Nat /\ book \in BOOLEAN /\ codes \subseteq Requests
        /\ orphans \subseteq codes /\ filed \subseteq EventKinds \X Requests
    OBVIOUS
<1>2. record \in [state : States, bid : Bids \cup {NoBid}, until : Nat]
    BY DEF States
<1>3. holds \in [Names -> [by : Requests \cup {NoOne},
                          token : States \cup Bids \cup {NoBid}, until : Nat]]
    BY DEF Free
<1>4. /\ pc \in [Requests -> Steps]
      /\ source \in [Requests -> States]
      /\ target \in [Requests -> States]
      /\ bid \in [Requests -> Bids \cup {NoBid}]
      /\ seen \in [Requests -> Nat]
    BY DEF Steps, States
<1> QED BY <1>1, <1>2, <1>3, <1>4 DEF TypeOK

(* Type correctness of Auction, for every value of its constants.          *)
THEOREM TypeCorrect == Spec => []TypeOK
<1>1. Init => TypeOK
    BY TypeInit
<1>2. TypeOK /\ [Next]_vars => TypeOK'
    BY TypeStep
<1> QED BY <1>1, <1>2, PTL DEF Spec

(* No expiry is further away than one TTL: a reservation taken now lasts   *)
(* at least as long as the record it is about.                             *)
LEMMA FreshStep == RecordInv /\ [Next]_vars => Fresh'
<1> SUFFICES ASSUME RecordInv, [Next]_vars PROVE Fresh'
    OBVIOUS
<1> USE TTLAssumption, RoleAssumption, BidAssumption
       DEF RecordInv, TypeOK, Requests, States, Names, Steps, Ended, Goto, local,
           money, Exit, Transitions, Rank, 
           Fresh
<1>1. CASE CreateReserve BY <1>1 DEF CreateReserve, Reserve, Held
<1>2. CASE CreateSave BY <1>2 DEF CreateSave, Save, Present
<1>3. CASE CreateFails BY <1>3 DEF CreateFails, Save
<1>4. CASE RecordBids BY <1>4 DEF RecordBids
<1>5. CASE Tick BY <1>5 DEF Tick
<1>6. ASSUME NEW r \in Requests, ByRequest(r) PROVE Fresh'
  <2>1. CASE ExpireStart(r) BY <2>1 DEF ExpireStart
  <2>2. CASE Read(r) BY <2>2 DEF Read, Present
  <2>3. CASE ReserveExit(r) BY <2>3 DEF ReserveExit, Reserve, Held
  <2>4. CASE Reread(r) BY <2>4 DEF Reread, Unmoved, Present
  <2>5. CASE RereadRefused(r) BY <2>5 DEF RereadRefused, Unmoved, Present
  <2>6. CASE SaveRecord(r) BY <2>6 DEF SaveRecord, Write, Save
  <2>7. CASE SaveFails(r) BY <2>7 DEF SaveFails, Write, Save
  <2>8. CASE GiveBack(r) BY <2>8 DEF GiveBack, Held, Mine, Token
  <2>9. CASE Delete(r) BY <2>9 DEF Delete, Mine, Free
  <2>10. CASE FileMove(r) BY <2>10 DEF FileMove, File, Kind
  <2>11. CASE GatePassed(r) BY <2>11 DEF GatePassed
  <2>12. CASE Claim(r) BY <2>12 DEF Claim, Reserve, Held
  <2>13. CASE Mint(r) BY <2>13 DEF Mint
  <2>14. CASE MintFails(r) BY <2>14 DEF MintFails
  <2>15. CASE MintOrphans(r) BY <2>15 DEF MintOrphans
  <2>16. CASE MintUnreported(r) BY <2>16 DEF MintUnreported
  <2>17. CASE Bridge(r) BY <2>17 DEF Bridge
  <2>18. CASE Quits(r) BY <2>18 DEF Quits
  <2>19. ASSUME NEW b \in Bids, AcceptStart(r, b) PROVE Fresh'
      BY <2>19 DEF AcceptStart, Present
  <2> QED BY <1>6, <2>1, <2>2, <2>3, <2>4, <2>5, <2>6, <2>7, <2>8, <2>9, <2>10, <2>11,
         <2>12, <2>13, <2>14, <2>15, <2>16, <2>17, <2>18, <2>19 DEF ByRequest
<1>7. CASE UNCHANGED vars BY <1>7 DEF vars
<1> QED BY <1>1, <1>2, <1>3, <1>4, <1>5, <1>6, <1>7, Cases

(* Nobody touches the record before it is created.                         *)
LEMMA BeginningStep == RecordInv /\ [Next]_vars => Beginning'
<1> SUFFICES ASSUME RecordInv, [Next]_vars PROVE Beginning'
    OBVIOUS
<1> USE TTLAssumption, RoleAssumption, BidAssumption
       DEF RecordInv, TypeOK, Requests, States, Names, Steps, Ended, Goto, local,
           money, Exit, Transitions, Rank, 
           Beginning, Roles, Present, Moving, OneSaver
<1>1. CASE CreateReserve BY <1>1 DEF CreateReserve, Reserve, Held
<1>2. CASE CreateSave BY <1>2 DEF CreateSave, Save, Present
<1>3. CASE CreateFails BY <1>3 DEF CreateFails, Save
<1>4. CASE RecordBids BY <1>4 DEF RecordBids
<1>5. CASE Tick BY <1>5 DEF Tick
<1>6. ASSUME NEW r \in Requests, ByRequest(r) PROVE Beginning'
  <2>1. CASE ExpireStart(r) BY <2>1 DEF ExpireStart
  <2>2. CASE Read(r) BY <2>2 DEF Read, Present
  <2>3. CASE ReserveExit(r) BY <2>3 DEF ReserveExit, Reserve, Held
  <2>4. CASE Reread(r) BY <2>4 DEF Reread, Unmoved, Present
  <2>5. CASE RereadRefused(r) BY <2>5 DEF RereadRefused, Unmoved, Present
  <2>6. CASE SaveRecord(r) BY <2>6 DEF SaveRecord, Write, Save
  <2>7. CASE SaveFails(r) BY <2>7 DEF SaveFails, Write, Save
  <2>8. CASE GiveBack(r) BY <2>8 DEF GiveBack, Held, Mine, Token
  <2>9. CASE Delete(r) BY <2>9 DEF Delete, Mine, Free
  <2>10. CASE FileMove(r) BY <2>10 DEF FileMove, File, Kind
  <2>11. CASE GatePassed(r) BY <2>11 DEF GatePassed
  <2>12. CASE Claim(r) BY <2>12 DEF Claim, Reserve, Held
  <2>13. CASE Mint(r) BY <2>13 DEF Mint
  <2>14. CASE MintFails(r) BY <2>14 DEF MintFails
  <2>15. CASE MintOrphans(r) BY <2>15 DEF MintOrphans
  <2>16. CASE MintUnreported(r) BY <2>16 DEF MintUnreported
  <2>17. CASE Bridge(r) BY <2>17 DEF Bridge
  <2>18. CASE Quits(r) BY <2>18 DEF Quits
  <2>19. ASSUME NEW b \in Bids, AcceptStart(r, b) PROVE Beginning'
      BY <2>19 DEF AcceptStart, Present
  <2> QED BY <1>6, <2>1, <2>2, <2>3, <2>4, <2>5, <2>6, <2>7, <2>8, <2>9, <2>10, <2>11,
         <2>12, <2>13, <2>14, <2>15, <2>16, <2>17, <2>18, <2>19 DEF ByRequest
<1>7. CASE UNCHANGED vars BY <1>7 DEF vars
<1> QED BY <1>1, <1>2, <1>3, <1>4, <1>5, <1>6, <1>7, Cases

(* The record moves forward only.                                          *)
LEMMA RankedStep == RecordInv /\ [Next]_vars => Ranked'
<1> SUFFICES ASSUME RecordInv, [Next]_vars PROVE Ranked'
    OBVIOUS
<1> USE TTLAssumption, RoleAssumption, BidAssumption
       DEF RecordInv, TypeOK, Requests, States, Names, Steps, Ended, Goto, local,
           money, Exit, Transitions, Rank, 
           Ranked, OneSaver, Roles, Moving, Beginning, Present
<1>1. CASE CreateReserve BY <1>1 DEF CreateReserve, Reserve, Held
<1>2. CASE CreateSave BY <1>2 DEF CreateSave, Save, Present
<1>3. CASE CreateFails BY <1>3 DEF CreateFails, Save
<1>4. CASE RecordBids BY <1>4 DEF RecordBids
<1>5. CASE Tick BY <1>5 DEF Tick
<1>6. ASSUME NEW r \in Requests, ByRequest(r) PROVE Ranked'
  <2>1. CASE ExpireStart(r) BY <2>1 DEF ExpireStart
  <2>2. CASE Read(r) BY <2>2 DEF Read, Present
  <2>3. CASE ReserveExit(r) BY <2>3 DEF ReserveExit, Reserve, Held
  <2>4. CASE Reread(r) BY <2>4 DEF Reread, Unmoved, Present
  <2>5. CASE RereadRefused(r) BY <2>5 DEF RereadRefused, Unmoved, Present
  <2>6. CASE SaveRecord(r) BY <2>6 DEF SaveRecord, Write, Save
  <2>7. CASE SaveFails(r) BY <2>7 DEF SaveFails, Write, Save
  <2>8. CASE GiveBack(r) BY <2>8 DEF GiveBack, Held, Mine, Token
  <2>9. CASE Delete(r) BY <2>9 DEF Delete, Mine, Free
  <2>10. CASE FileMove(r) BY <2>10 DEF FileMove, File, Kind
  <2>11. CASE GatePassed(r) BY <2>11 DEF GatePassed
  <2>12. CASE Claim(r) BY <2>12 DEF Claim, Reserve, Held
  <2>13. CASE Mint(r) BY <2>13 DEF Mint
  <2>14. CASE MintFails(r) BY <2>14 DEF MintFails
  <2>15. CASE MintOrphans(r) BY <2>15 DEF MintOrphans
  <2>16. CASE MintUnreported(r) BY <2>16 DEF MintUnreported
  <2>17. CASE Bridge(r) BY <2>17 DEF Bridge
  <2>18. CASE Quits(r) BY <2>18 DEF Quits
  <2>19. ASSUME NEW b \in Bids, AcceptStart(r, b) PROVE Ranked'
      BY <2>19 DEF AcceptStart, Present
  <2> QED BY <1>6, <2>1, <2>2, <2>3, <2>4, <2>5, <2>6, <2>7, <2>8, <2>9, <2>10, <2>11,
         <2>12, <2>13, <2>14, <2>15, <2>16, <2>17, <2>18, <2>19 DEF ByRequest
<1>7. CASE UNCHANGED vars BY <1>7 DEF vars
<1> QED BY <1>1, <1>2, <1>3, <1>4, <1>5, <1>6, <1>7, Cases

(* What each kind of request may be doing.                                 *)
LEMMA RolesStep == RecordInv /\ [Next]_vars => Roles'
<1> SUFFICES ASSUME RecordInv, [Next]_vars PROVE Roles'
    OBVIOUS
<1> USE TTLAssumption, RoleAssumption, BidAssumption
       DEF RecordInv, TypeOK, Requests, States, Names, Steps, Ended, Goto, local,
           money, Exit, Transitions, Rank, 
           Roles, Ranked, Moving
<1>1. CASE CreateReserve BY <1>1 DEF CreateReserve, Reserve, Held
<1>2. CASE CreateSave BY <1>2 DEF CreateSave, Save, Present
<1>3. CASE CreateFails BY <1>3 DEF CreateFails, Save
<1>4. CASE RecordBids BY <1>4 DEF RecordBids
<1>5. CASE Tick BY <1>5 DEF Tick
<1>6. ASSUME NEW r \in Requests, ByRequest(r) PROVE Roles'
  <2>1. CASE ExpireStart(r) BY <2>1 DEF ExpireStart
  <2>2. CASE Read(r) BY <2>2 DEF Read, Present
  <2>3. CASE ReserveExit(r) BY <2>3 DEF ReserveExit, Reserve, Held
  <2>4. CASE Reread(r) BY <2>4 DEF Reread, Unmoved, Present
  <2>5. CASE RereadRefused(r) BY <2>5 DEF RereadRefused, Unmoved, Present
  <2>6. CASE SaveRecord(r) BY <2>6 DEF SaveRecord, Write, Save
  <2>7. CASE SaveFails(r) BY <2>7 DEF SaveFails, Write, Save
  <2>8. CASE GiveBack(r) BY <2>8 DEF GiveBack, Held, Mine, Token
  <2>9. CASE Delete(r) BY <2>9 DEF Delete, Mine, Free
  <2>10. CASE FileMove(r) BY <2>10 DEF FileMove, File, Kind
  <2>11. CASE GatePassed(r) BY <2>11 DEF GatePassed
  <2>12. CASE Claim(r) BY <2>12 DEF Claim, Reserve, Held
  <2>13. CASE Mint(r) BY <2>13 DEF Mint
  <2>14. CASE MintFails(r) BY <2>14 DEF MintFails
  <2>15. CASE MintOrphans(r) BY <2>15 DEF MintOrphans
  <2>16. CASE MintUnreported(r) BY <2>16 DEF MintUnreported
  <2>17. CASE Bridge(r) BY <2>17 DEF Bridge
  <2>18. CASE Quits(r) BY <2>18 DEF Quits
  <2>19. ASSUME NEW b \in Bids, AcceptStart(r, b) PROVE Roles'
      BY <2>19 DEF AcceptStart, Present
  <2> QED BY <1>6, <2>1, <2>2, <2>3, <2>4, <2>5, <2>6, <2>7, <2>8, <2>9, <2>10, <2>11,
         <2>12, <2>13, <2>14, <2>15, <2>16, <2>17, <2>18, <2>19 DEF ByRequest
<1>7. CASE UNCHANGED vars BY <1>7 DEF vars
<1> QED BY <1>1, <1>2, <1>3, <1>4, <1>5, <1>6, <1>7, Cases

(* A reserved exit stays reserved while the record stands where it was.    *)
LEMMA ExitKeptStep == RecordInv /\ [Next]_vars => ExitKept'
<1> SUFFICES ASSUME RecordInv, [Next]_vars PROVE ExitKept'
    OBVIOUS
<1> USE TTLAssumption, RoleAssumption, BidAssumption
       DEF RecordInv, TypeOK, Requests, States, Names, Steps, Ended, Goto, local,
           money, Exit, Transitions, Rank, 
           ExitKept, Fresh, OneSaver, Roles, Ranked, Moving, Beginning
<1>1. CASE CreateReserve BY <1>1 DEF CreateReserve, Reserve, Held
<1>2. CASE CreateSave BY <1>2 DEF CreateSave, Save, Present
<1>3. CASE CreateFails BY <1>3 DEF CreateFails, Save
<1>4. CASE RecordBids BY <1>4 DEF RecordBids
<1>5. CASE Tick BY <1>5 DEF Tick
<1>6. ASSUME NEW r \in Requests, ByRequest(r) PROVE ExitKept'
  <2>1. CASE ExpireStart(r) BY <2>1 DEF ExpireStart
  <2>2. CASE Read(r) BY <2>2 DEF Read, Present
  <2>3. CASE ReserveExit(r) BY <2>3 DEF ReserveExit, Reserve, Held
  <2>4. CASE Reread(r) BY <2>4 DEF Reread, Unmoved, Present
  <2>5. CASE RereadRefused(r) BY <2>5 DEF RereadRefused, Unmoved, Present
  <2>6. CASE SaveRecord(r) BY <2>6 DEF SaveRecord, Write, Save
  <2>7. CASE SaveFails(r) BY <2>7 DEF SaveFails, Write, Save
  <2>8. CASE GiveBack(r) BY <2>8 DEF GiveBack, Held, Mine, Token
  <2>9. CASE Delete(r) BY <2>9 DEF Delete, Mine, Free
  <2>10. CASE FileMove(r) BY <2>10 DEF FileMove, File, Kind
  <2>11. CASE GatePassed(r) BY <2>11 DEF GatePassed
  <2>12. CASE Claim(r) BY <2>12 DEF Claim, Reserve, Held
  <2>13. CASE Mint(r) BY <2>13 DEF Mint
  <2>14. CASE MintFails(r) BY <2>14 DEF MintFails
  <2>15. CASE MintOrphans(r) BY <2>15 DEF MintOrphans
  <2>16. CASE MintUnreported(r) BY <2>16 DEF MintUnreported
  <2>17. CASE Bridge(r) BY <2>17 DEF Bridge
  <2>18. CASE Quits(r) BY <2>18 DEF Quits
  <2>19. ASSUME NEW b \in Bids, AcceptStart(r, b) PROVE ExitKept'
      BY <2>19 DEF AcceptStart, Present
  <2> QED BY <1>6, <2>1, <2>2, <2>3, <2>4, <2>5, <2>6, <2>7, <2>8, <2>9, <2>10, <2>11,
         <2>12, <2>13, <2>14, <2>15, <2>16, <2>17, <2>18, <2>19 DEF ByRequest
<1>7. CASE UNCHANGED vars BY <1>7 DEF vars
<1> QED BY <1>1, <1>2, <1>3, <1>4, <1>5, <1>6, <1>7, Cases

(* Hence one request at most is about to write, and nothing moved the      *)
(* record since it looked.                                                 *)
LEMMA OneSaverStep == RecordInv /\ [Next]_vars => OneSaver'
<1> SUFFICES ASSUME RecordInv, [Next]_vars PROVE OneSaver'
    OBVIOUS
<1> USE TTLAssumption, RoleAssumption, BidAssumption
       DEF RecordInv, TypeOK, Requests, States, Names, Steps, Ended, Goto, local,
           money, Exit, Transitions, Rank, 
           OneSaver, ExitKept, Present, Ranked, Roles, Moving, Beginning
<1>1. CASE CreateReserve BY <1>1 DEF CreateReserve, Reserve, Held
<1>2. CASE CreateSave BY <1>2 DEF CreateSave, Save, Present
<1>3. CASE CreateFails BY <1>3 DEF CreateFails, Save
<1>4. CASE RecordBids BY <1>4 DEF RecordBids
<1>5. CASE Tick BY <1>5 DEF Tick
<1>6. ASSUME NEW r \in Requests, ByRequest(r) PROVE OneSaver'
  <2>1. CASE ExpireStart(r) BY <2>1 DEF ExpireStart
  <2>2. CASE Read(r) BY <2>2 DEF Read, Present
  <2>3. CASE ReserveExit(r) BY <2>3 DEF ReserveExit, Reserve, Held
  <2>4. CASE Reread(r) BY <2>4 DEF Reread, Unmoved, Present
  <2>5. CASE RereadRefused(r) BY <2>5 DEF RereadRefused, Unmoved, Present
  <2>6. CASE SaveRecord(r) BY <2>6 DEF SaveRecord, Write, Save
  <2>7. CASE SaveFails(r) BY <2>7 DEF SaveFails, Write, Save
  <2>8. CASE GiveBack(r) BY <2>8 DEF GiveBack, Held, Mine, Token
  <2>9. CASE Delete(r) BY <2>9 DEF Delete, Mine, Free
  <2>10. CASE FileMove(r) BY <2>10 DEF FileMove, File, Kind
  <2>11. CASE GatePassed(r) BY <2>11 DEF GatePassed
  <2>12. CASE Claim(r) BY <2>12 DEF Claim, Reserve, Held
  <2>13. CASE Mint(r) BY <2>13 DEF Mint
  <2>14. CASE MintFails(r) BY <2>14 DEF MintFails
  <2>15. CASE MintOrphans(r) BY <2>15 DEF MintOrphans
  <2>16. CASE MintUnreported(r) BY <2>16 DEF MintUnreported
  <2>17. CASE Bridge(r) BY <2>17 DEF Bridge
  <2>18. CASE Quits(r) BY <2>18 DEF Quits
  <2>19. ASSUME NEW b \in Bids, AcceptStart(r, b) PROVE OneSaver'
      BY <2>19 DEF AcceptStart, Present
  <2> QED BY <1>6, <2>1, <2>2, <2>3, <2>4, <2>5, <2>6, <2>7, <2>8, <2>9, <2>10, <2>11,
         <2>12, <2>13, <2>14, <2>15, <2>16, <2>17, <2>18, <2>19 DEF ByRequest
<1>7. CASE UNCHANGED vars BY <1>7 DEF vars
<1> QED BY <1>1, <1>2, <1>3, <1>4, <1>5, <1>6, <1>7, Cases

(* A filed move is an outcome of the request that filed it.                *)
LEMMA FiledOutcome ==
    \A r, q : FileMove(r) /\ (\E f \in Outcomes' : f[2] = q) =>
        \/ \E f \in Outcomes : f[2] = q
        \/ /\ q = r
           /\ \/ Kind(target[r]) = "accepted"
              \/ Kind(target[r]) = "auction_closed" /\ r \in Expirers
<1> SUFFICES ASSUME NEW r, NEW q, FileMove(r), \E f \in Outcomes' : f[2] = q
             PROVE  \/ \E f \in Outcomes : f[2] = q
                    \/ /\ q = r
                       /\ \/ Kind(target[r]) = "accepted"
                          \/ Kind(target[r]) = "auction_closed" /\ r \in Expirers
    OBVIOUS
<1>1. PICK f \in Outcomes' : f[2] = q
    OBVIOUS
<1>2. /\ f \in filed'
      /\ f[1] = "accepted" \/ (f[1] = "auction_closed" /\ f[2] \in Expirers)
    BY <1>1 DEF Outcomes
<1>3. f \in filed \/ f = <<Kind(target[r]), r>>
    BY <1>2 DEF FileMove, File
<1>4. CASE f \in filed
    BY <1>1, <1>2, <1>4 DEF Outcomes
<1>5. CASE f = <<Kind(target[r]), r>>
    <2>1. f[1] = Kind(target[r]) /\ f[2] = r
        BY <1>5
    <2> QED BY <1>1, <1>2, <2>1
<1> QED BY <1>3, <1>4, <1>5

(* Hence the outcome is decided once.                                      *)
LEMMA FinalStep == RecordInv /\ [Next]_vars => Final'
<1> SUFFICES ASSUME RecordInv, [Next]_vars PROVE Final'
    OBVIOUS
<1> USE TTLAssumption, RoleAssumption, BidAssumption
       DEF RecordInv, TypeOK, Requests, States, Names, Steps, Ended, Goto, local,
           money, Exit, Transitions, Rank, 
           Final, Ends, Outcomes, Roles, OneSaver, FiledBy, Moving, Beginning
<1>1. CASE CreateReserve BY <1>1 DEF CreateReserve, Reserve, Held
<1>2. CASE CreateSave BY <1>2 DEF CreateSave, Save, Present
<1>3. CASE CreateFails BY <1>3 DEF CreateFails, Save
<1>4. CASE RecordBids BY <1>4 DEF RecordBids
<1>5. CASE Tick BY <1>5 DEF Tick
<1>6. ASSUME NEW r \in Requests, ByRequest(r) PROVE Final'
  <2>1. CASE ExpireStart(r) BY <2>1 DEF ExpireStart
  <2>2. CASE Read(r) BY <2>2 DEF Read, Present
  <2>3. CASE ReserveExit(r) BY <2>3 DEF ReserveExit, Reserve, Held
  <2>4. CASE Reread(r) BY <2>4 DEF Reread, Unmoved, Present
  <2>5. CASE RereadRefused(r) BY <2>5 DEF RereadRefused, Unmoved, Present
  <2>6. CASE SaveRecord(r) BY <2>6 DEF SaveRecord, Write, Save
  <2>7. CASE SaveFails(r) BY <2>7 DEF SaveFails, Write, Save
  <2>8. CASE GiveBack(r) BY <2>8 DEF GiveBack, Held, Mine, Token
  <2>9. CASE Delete(r) BY <2>9 DEF Delete, Mine, Free
  <2>10. CASE FileMove(r)
    <3>1. /\ filed' = filed \cup {<<Kind(target[r]), r>>}
          /\ pc[r] = "file" /\ pc' = [pc EXCEPT ![r] = pc'[r]] /\ pc'[r] # "file"
          /\ target' = IF target[r] = "open" THEN [target EXCEPT ![r] = "closed"] ELSE target
          /\ UNCHANGED <<record, bid>>
        BY <2>10 DEF FileMove, File
    <3>2. \A q \in Requests : Ends(q)' => Ends(q)
        <4> SUFFICES ASSUME NEW q \in Requests, Ends(q)', ~Ends(q) PROVE FALSE
            OBVIOUS
        <4>1. ~(pc'[q] = "file" /\ target'[q] \in {"accepted", "expired"})
            BY <3>1 DEF Ends
        <4>2. /\ q = r
              /\ \/ Kind(target[r]) = "accepted"
                 \/ Kind(target[r]) = "auction_closed" /\ r \in Expirers
            <5> HIDE DEF Outcomes, RecordInv, Ends
            <5>1. \E f \in Outcomes' : f[2] = q
                BY <4>1 DEF Ends
            <5>2. ~ \E f \in Outcomes : f[2] = q
                BY DEF Ends
            <5> QED BY <2>10, <5>1, <5>2, FiledOutcome
        <4>3. target[r] \in {"accepted", "expired"}
            BY <3>1, <4>2 DEF Kind
        <4> QED BY <3>1, <4>2, <4>3 DEF Ends
    <3>3. \A q \in Requests : Ends(q) => target'[q] = target[q]
        BY <3>1
    <3> QED BY <3>1, <3>2, <3>3
  <2>11. CASE GatePassed(r) BY <2>11 DEF GatePassed
  <2>12. CASE Claim(r) BY <2>12 DEF Claim, Reserve, Held
  <2>13. CASE Mint(r) BY <2>13 DEF Mint
  <2>14. CASE MintFails(r) BY <2>14 DEF MintFails
  <2>15. CASE MintOrphans(r) BY <2>15 DEF MintOrphans
  <2>16. CASE MintUnreported(r) BY <2>16 DEF MintUnreported
  <2>17. CASE Bridge(r) BY <2>17 DEF Bridge
  <2>18. CASE Quits(r) BY <2>18 DEF Quits
  <2>19. ASSUME NEW b \in Bids, AcceptStart(r, b) PROVE Final'
      BY <2>19 DEF AcceptStart, Present
  <2> QED BY <1>6, <2>1, <2>2, <2>3, <2>4, <2>5, <2>6, <2>7, <2>8, <2>9, <2>10, <2>11,
         <2>12, <2>13, <2>14, <2>15, <2>16, <2>17, <2>18, <2>19 DEF ByRequest
<1>7. CASE UNCHANGED vars BY <1>7 DEF vars
<1> QED BY <1>1, <1>2, <1>3, <1>4, <1>5, <1>6, <1>7, Cases

(* Who files which outcome.                                                *)
LEMMA FiledByStep == RecordInv /\ [Next]_vars => FiledBy'
<1> SUFFICES ASSUME RecordInv, [Next]_vars PROVE FiledBy'
    OBVIOUS
<1> USE TTLAssumption, RoleAssumption, BidAssumption
       DEF RecordInv, TypeOK, Requests, States, Names, Steps, Ended, Goto, local,
           money, Exit, Transitions, Rank, 
           FiledBy, Roles
<1>1. CASE CreateReserve BY <1>1 DEF CreateReserve, Reserve, Held
<1>2. CASE CreateSave BY <1>2 DEF CreateSave, Save, Present
<1>3. CASE CreateFails BY <1>3 DEF CreateFails, Save
<1>4. CASE RecordBids BY <1>4 DEF RecordBids
<1>5. CASE Tick BY <1>5 DEF Tick
<1>6. ASSUME NEW r \in Requests, ByRequest(r) PROVE FiledBy'
  <2>1. CASE ExpireStart(r) BY <2>1 DEF ExpireStart
  <2>2. CASE Read(r) BY <2>2 DEF Read, Present
  <2>3. CASE ReserveExit(r) BY <2>3 DEF ReserveExit, Reserve, Held
  <2>4. CASE Reread(r) BY <2>4 DEF Reread, Unmoved, Present
  <2>5. CASE RereadRefused(r) BY <2>5 DEF RereadRefused, Unmoved, Present
  <2>6. CASE SaveRecord(r) BY <2>6 DEF SaveRecord, Write, Save
  <2>7. CASE SaveFails(r) BY <2>7 DEF SaveFails, Write, Save
  <2>8. CASE GiveBack(r) BY <2>8 DEF GiveBack, Held, Mine, Token
  <2>9. CASE Delete(r) BY <2>9 DEF Delete, Mine, Free
  <2>10. CASE FileMove(r)
    <3>1. /\ filed' = filed \cup {<<Kind(target[r]), r>>}
          /\ pc[r] = "file" /\ pc' = [pc EXCEPT ![r] = pc'[r]] /\ pc'[r] # "file"
          /\ target' = IF target[r] = "open" THEN [target EXCEPT ![r] = "closed"] ELSE target
          /\ UNCHANGED <<record, bid>>
        BY <2>10 DEF FileMove, File
    <3>2. ASSUME NEW f \in filed
          PROVE  /\ f[1] = "accepted" => target'[f[2]] = "accepted"
                 /\ f[2] \in Expirers => target'[f[2]] = "expired"
        <4>1. f[2] \in Requests
            BY DEF EventKinds
        <4>2. target'[f[2]] = IF f[2] = r /\ target[r] = "open" THEN "closed"
                                                              ELSE target[f[2]]
            BY <3>1, <4>1
        <4>3. /\ f[1] = "accepted" => target[f[2]] = "accepted"
              /\ f[2] \in Expirers => target[f[2]] = "expired"
            BY DEF FiledBy
        <4> QED BY <4>2, <4>3
    <3>3. ASSUME NEW f, f = <<Kind(target[r]), r>>
          PROVE  /\ f[1] = "accepted" => target'[f[2]] = "accepted"
                 /\ f[2] \in Expirers => target'[f[2]] = "expired"
        <4>1. f[1] = Kind(target[r]) /\ f[2] = r
            BY <3>3
        <4>2. f[1] = "accepted" => target[r] = "accepted"
            BY <4>1 DEF Kind
        <4> QED BY <3>1, <4>1, <4>2
    <3> QED BY <3>1, <3>2, <3>3
  <2>11. CASE GatePassed(r) BY <2>11 DEF GatePassed
  <2>12. CASE Claim(r) BY <2>12 DEF Claim, Reserve, Held
  <2>13. CASE Mint(r) BY <2>13 DEF Mint
  <2>14. CASE MintFails(r) BY <2>14 DEF MintFails
  <2>15. CASE MintOrphans(r) BY <2>15 DEF MintOrphans
  <2>16. CASE MintUnreported(r) BY <2>16 DEF MintUnreported
  <2>17. CASE Bridge(r) BY <2>17 DEF Bridge
  <2>18. CASE Quits(r) BY <2>18 DEF Quits
  <2>19. ASSUME NEW b \in Bids, AcceptStart(r, b) PROVE FiledBy'
      BY <2>19 DEF AcceptStart, Present
  <2> QED BY <1>6, <2>1, <2>2, <2>3, <2>4, <2>5, <2>6, <2>7, <2>8, <2>9, <2>10, <2>11,
         <2>12, <2>13, <2>14, <2>15, <2>16, <2>17, <2>18, <2>19 DEF ByRequest
<1>7. CASE UNCHANGED vars BY <1>7 DEF vars
<1> QED BY <1>1, <1>2, <1>3, <1>4, <1>5, <1>6, <1>7, Cases

(* The claim stays with whoever took it, past every reading of the record. *)
LEMMA ClaimKeptStep ==
    ASSUME ~UnreportedMints, ~StraddlingReads, CodeInv, [Next]_vars
    PROVE  ClaimKept'
<1> USE TTLAssumption, RoleAssumption, BidAssumption
       DEF CodeInv, RecordInv, TypeOK, Requests, States, Names, Steps, Ended, Goto, local,
           money, Exit, Transitions, Rank, 
           Claimed, ClaimKept, Fresh, Roles, ReadsInTime, Issued, Ranked, OneSaver, Moving, Beginning
<1>1. CASE CreateReserve BY <1>1 DEF CreateReserve, Reserve, Held
<1>2. CASE CreateSave BY <1>2 DEF CreateSave, Save, Present
<1>3. CASE CreateFails BY <1>3 DEF CreateFails, Save
<1>4. CASE RecordBids BY <1>4 DEF RecordBids
<1>5. CASE Tick BY <1>5 DEF Tick
<1>6. ASSUME NEW r \in Requests, ByRequest(r) PROVE ClaimKept'
  <2>1. CASE ExpireStart(r) BY <2>1 DEF ExpireStart
  <2>2. CASE Read(r) BY <2>2 DEF Read, Present
  <2>3. CASE ReserveExit(r) BY <2>3 DEF ReserveExit, Reserve, Held
  <2>4. CASE Reread(r) BY <2>4 DEF Reread, Unmoved, Present
  <2>5. CASE RereadRefused(r) BY <2>5 DEF RereadRefused, Unmoved, Present
  <2>6. CASE SaveRecord(r) BY <2>6 DEF SaveRecord, Write, Save
  <2>7. CASE SaveFails(r) BY <2>7 DEF SaveFails, Write, Save
  <2>8. CASE GiveBack(r) BY <2>8 DEF GiveBack, Held, Mine, Token
  <2>9. CASE Delete(r) BY <2>9 DEF Delete, Mine, Free
  <2>10. CASE FileMove(r) BY <2>10 DEF FileMove, File, Kind
  <2>11. CASE GatePassed(r) BY <2>11 DEF GatePassed
  <2>12. CASE Claim(r) BY <2>12 DEF Claim, Reserve, Held
  <2>13. CASE Mint(r) BY <2>13 DEF Mint
  <2>14. CASE MintFails(r) BY <2>14 DEF MintFails
  <2>15. CASE MintOrphans(r) BY <2>15 DEF MintOrphans
  <2>16. CASE MintUnreported(r) BY <2>16 DEF MintUnreported
  <2>17. CASE Bridge(r) BY <2>17 DEF Bridge
  <2>18. CASE Quits(r) BY <2>18 DEF Quits
  <2>19. ASSUME NEW b \in Bids, AcceptStart(r, b) PROVE ClaimKept'
      BY <2>19 DEF AcceptStart, Present
  <2> QED BY <1>6, <2>1, <2>2, <2>3, <2>4, <2>5, <2>6, <2>7, <2>8, <2>9, <2>10, <2>11,
         <2>12, <2>13, <2>14, <2>15, <2>16, <2>17, <2>18, <2>19 DEF ByRequest
<1>7. CASE UNCHANGED vars BY <1>7 DEF vars
<1> QED BY <1>1, <1>2, <1>3, <1>4, <1>5, <1>6, <1>7, Cases

(* Every accept that has not claimed yet read the record that is there.    *)
LEMMA ReadsInTimeStep ==
    ASSUME ~UnreportedMints, ~StraddlingReads, CodeInv, [Next]_vars
    PROVE  ReadsInTime'
<1> USE TTLAssumption, RoleAssumption, BidAssumption
       DEF CodeInv, RecordInv, TypeOK, Requests, States, Names, Steps, Ended, Goto, local,
           money, Exit, Transitions, Rank, 
           ReadsInTime, Ranked, OneSaver, Roles, Moving, Beginning
<1>1. CASE CreateReserve BY <1>1 DEF CreateReserve, Reserve, Held
<1>2. CASE CreateSave BY <1>2 DEF CreateSave, Save, Present
<1>3. CASE CreateFails BY <1>3 DEF CreateFails, Save
<1>4. CASE RecordBids BY <1>4 DEF RecordBids
<1>5. CASE Tick BY <1>5 DEF Tick
<1>6. ASSUME NEW r \in Requests, ByRequest(r) PROVE ReadsInTime'
  <2>1. CASE ExpireStart(r) BY <2>1 DEF ExpireStart
  <2>2. CASE Read(r) BY <2>2 DEF Read, Present
  <2>3. CASE ReserveExit(r) BY <2>3 DEF ReserveExit, Reserve, Held
  <2>4. CASE Reread(r) BY <2>4 DEF Reread, Unmoved, Present
  <2>5. CASE RereadRefused(r) BY <2>5 DEF RereadRefused, Unmoved, Present
  <2>6. CASE SaveRecord(r) BY <2>6 DEF SaveRecord, Write, Save
  <2>7. CASE SaveFails(r) BY <2>7 DEF SaveFails, Write, Save
  <2>8. CASE GiveBack(r) BY <2>8 DEF GiveBack, Held, Mine, Token
  <2>9. CASE Delete(r) BY <2>9 DEF Delete, Mine, Free
  <2>10. CASE FileMove(r) BY <2>10 DEF FileMove, File, Kind
  <2>11. CASE GatePassed(r) BY <2>11 DEF GatePassed
  <2>12. CASE Claim(r) BY <2>12 DEF Claim, Reserve, Held
  <2>13. CASE Mint(r) BY <2>13 DEF Mint
  <2>14. CASE MintFails(r) BY <2>14 DEF MintFails
  <2>15. CASE MintOrphans(r) BY <2>15 DEF MintOrphans
  <2>16. CASE MintUnreported(r) BY <2>16 DEF MintUnreported
  <2>17. CASE Bridge(r) BY <2>17 DEF Bridge
  <2>18. CASE Quits(r) BY <2>18 DEF Quits
  <2>19. ASSUME NEW b \in Bids, AcceptStart(r, b) PROVE ReadsInTime'
      BY <2>19 DEF AcceptStart, Present
  <2> QED BY <1>6, <2>1, <2>2, <2>3, <2>4, <2>5, <2>6, <2>7, <2>8, <2>9, <2>10, <2>11,
         <2>12, <2>13, <2>14, <2>15, <2>16, <2>17, <2>18, <2>19 DEF ByRequest
<1>7. CASE UNCHANGED vars BY <1>7 DEF vars
<1> QED BY <1>1, <1>2, <1>3, <1>4, <1>5, <1>6, <1>7, Cases

(* Only a request with the claim has a code, and it keeps the claim.       *)
LEMMA IssuedStep ==
    ASSUME ~UnreportedMints, ~StraddlingReads, CodeInv, [Next]_vars
    PROVE  Issued'
<1> USE TTLAssumption, RoleAssumption, BidAssumption
       DEF CodeInv, RecordInv, TypeOK, Requests, States, Names, Steps, Ended, Goto, local,
           money, Exit, Transitions, Rank, 
           Issued, Roles, Moving
<1>1. CASE CreateReserve BY <1>1 DEF CreateReserve, Reserve, Held
<1>2. CASE CreateSave BY <1>2 DEF CreateSave, Save, Present
<1>3. CASE CreateFails BY <1>3 DEF CreateFails, Save
<1>4. CASE RecordBids BY <1>4 DEF RecordBids
<1>5. CASE Tick BY <1>5 DEF Tick
<1>6. ASSUME NEW r \in Requests, ByRequest(r) PROVE Issued'
  <2>1. CASE ExpireStart(r) BY <2>1 DEF ExpireStart
  <2>2. CASE Read(r) BY <2>2 DEF Read, Present
  <2>3. CASE ReserveExit(r) BY <2>3 DEF ReserveExit, Reserve, Held
  <2>4. CASE Reread(r) BY <2>4 DEF Reread, Unmoved, Present
  <2>5. CASE RereadRefused(r) BY <2>5 DEF RereadRefused, Unmoved, Present
  <2>6. CASE SaveRecord(r) BY <2>6 DEF SaveRecord, Write, Save
  <2>7. CASE SaveFails(r) BY <2>7 DEF SaveFails, Write, Save
  <2>8. CASE GiveBack(r) BY <2>8 DEF GiveBack, Held, Mine, Token
  <2>9. CASE Delete(r) BY <2>9 DEF Delete, Mine, Free
  <2>10. CASE FileMove(r) BY <2>10 DEF FileMove, File, Kind
  <2>11. CASE GatePassed(r) BY <2>11 DEF GatePassed
  <2>12. CASE Claim(r) BY <2>12 DEF Claim, Reserve, Held
  <2>13. CASE Mint(r) BY <2>13 DEF Mint
  <2>14. CASE MintFails(r) BY <2>14 DEF MintFails
  <2>15. CASE MintOrphans(r) BY <2>15 DEF MintOrphans
  <2>16. CASE MintUnreported(r) BY <2>16 DEF MintUnreported
  <2>17. CASE Bridge(r) BY <2>17 DEF Bridge
  <2>18. CASE Quits(r) BY <2>18 DEF Quits
  <2>19. ASSUME NEW b \in Bids, AcceptStart(r, b) PROVE Issued'
      BY <2>19 DEF AcceptStart, Present
  <2> QED BY <1>6, <2>1, <2>2, <2>3, <2>4, <2>5, <2>6, <2>7, <2>8, <2>9, <2>10, <2>11,
         <2>12, <2>13, <2>14, <2>15, <2>16, <2>17, <2>18, <2>19 DEF ByRequest
<1>7. CASE UNCHANGED vars BY <1>7 DEF vars
<1> QED BY <1>1, <1>2, <1>3, <1>4, <1>5, <1>6, <1>7, Cases

(* The acceptance the record carries is that of a request with the claim.  *)
LEMMA StampedStep ==
    ASSUME ~UnreportedMints, ~StraddlingReads, CodeInv, [Next]_vars
    PROVE  Stamped'
<1> USE TTLAssumption, RoleAssumption, BidAssumption
       DEF CodeInv, RecordInv, TypeOK, Requests, States, Names, Steps, Ended, Goto, local,
           money, Exit, Transitions, Rank, 
           Stamped, Claimed, Roles, OneSaver, Moving, Issued, Beginning
<1>1. CASE CreateReserve BY <1>1 DEF CreateReserve, Reserve, Held
<1>2. CASE CreateSave BY <1>2 DEF CreateSave, Save, Present
<1>3. CASE CreateFails BY <1>3 DEF CreateFails, Save
<1>4. CASE RecordBids BY <1>4 DEF RecordBids
<1>5. CASE Tick BY <1>5 DEF Tick
<1>6. ASSUME NEW r \in Requests, ByRequest(r) PROVE Stamped'
  <2>1. CASE ExpireStart(r) BY <2>1 DEF ExpireStart
  <2>2. CASE Read(r) BY <2>2 DEF Read, Present
  <2>3. CASE ReserveExit(r) BY <2>3 DEF ReserveExit, Reserve, Held
  <2>4. CASE Reread(r) BY <2>4 DEF Reread, Unmoved, Present
  <2>5. CASE RereadRefused(r) BY <2>5 DEF RereadRefused, Unmoved, Present
  <2>6. CASE SaveRecord(r) BY <2>6 DEF SaveRecord, Write, Save
  <2>7. CASE SaveFails(r) BY <2>7 DEF SaveFails, Write, Save
  <2>8. CASE GiveBack(r) BY <2>8 DEF GiveBack, Held, Mine, Token
  <2>9. CASE Delete(r) BY <2>9 DEF Delete, Mine, Free
  <2>10. CASE FileMove(r) BY <2>10 DEF FileMove, File, Kind
  <2>11. CASE GatePassed(r) BY <2>11 DEF GatePassed
  <2>12. CASE Claim(r) BY <2>12 DEF Claim, Reserve, Held
  <2>13. CASE Mint(r) BY <2>13 DEF Mint
  <2>14. CASE MintFails(r) BY <2>14 DEF MintFails
  <2>15. CASE MintOrphans(r) BY <2>15 DEF MintOrphans
  <2>16. CASE MintUnreported(r) BY <2>16 DEF MintUnreported
  <2>17. CASE Bridge(r) BY <2>17 DEF Bridge
  <2>18. CASE Quits(r) BY <2>18 DEF Quits
  <2>19. ASSUME NEW b \in Bids, AcceptStart(r, b) PROVE Stamped'
      BY <2>19 DEF AcceptStart, Present
  <2> QED BY <1>6, <2>1, <2>2, <2>3, <2>4, <2>5, <2>6, <2>7, <2>8, <2>9, <2>10, <2>11,
         <2>12, <2>13, <2>14, <2>15, <2>16, <2>17, <2>18, <2>19 DEF ByRequest
<1>7. CASE UNCHANGED vars BY <1>7 DEF vars
<1> QED BY <1>1, <1>2, <1>3, <1>4, <1>5, <1>6, <1>7, Cases

-----------------------------------------------------------------------------
LEMMA RecordInit == Init => RecordInv
<1> SUFFICES ASSUME Init PROVE RecordInv
    OBVIOUS
<1> USE TTLAssumption, RoleAssumption, BidAssumption DEF Init, Requests
<1>1. TypeOK
    BY TypeInit
<1>2. Fresh /\ Beginning
    BY DEF Fresh, Beginning, Free
<1>3. Ranked /\ Roles /\ ExitKept /\ OneSaver
    BY DEF Ranked, Rank, Roles, Moving, ExitKept, OneSaver
<1>4. Final /\ FiledBy
    BY DEF Final, Ends, Outcomes, FiledBy
<1> QED BY <1>1, <1>2, <1>3, <1>4 DEF RecordInv

LEMMA RecordStep == RecordInv /\ [Next]_vars => RecordInv'
BY TypeStep, FreshStep, BeginningStep, RankedStep, RolesStep, ExitKeptStep,
   OneSaverStep, FinalStep, FiledByStep DEF RecordInv

(* The record's invariant, for every value of the constants: nothing in it *)
(* depends on how long a request takes or on what the merchant answers.    *)
THEOREM RecordInvariant == Spec => []RecordInv
<1>1. Init => RecordInv
    BY RecordInit
<1>2. RecordInv /\ [Next]_vars => RecordInv'
    BY RecordStep
<1> QED BY <1>1, <1>2, PTL DEF Spec

(* accept and expire race for the one move out of closed, and the ledger   *)
(* is told of one outcome, which the record carries.                       *)
THEOREM OutcomeDecidedOnce == Spec => []OneOutcome
<1>1. ASSUME RecordInv PROVE OneOutcome
    <2> USE <1>1 DEF RecordInv, TypeOK
    <2>1. ASSUME NEW f \in Outcomes PROVE f[2] \in Requests /\ Ends(f[2])
        BY <2>1 DEF Outcomes, EventKinds, Ends
    <2>2. \A f, g \in Outcomes : f[2] = g[2]
        BY <2>1 DEF Final
    <2>3. ASSUME NEW f \in Outcomes
          PROVE  /\ f = <<f[1], f[2]>>
                 /\ f[1] = IF target[f[2]] = "accepted" THEN "accepted"
                                                        ELSE "auction_closed"
        <3>1. f = <<f[1], f[2]>> /\ f \in filed
            BY <2>3 DEF Outcomes
        <3>2. f[1] = "accepted" => target[f[2]] = "accepted"
            BY <3>1 DEF FiledBy
        <3>3. f[2] \in Expirers => target[f[2]] = "expired"
            BY <3>1 DEF FiledBy
        <3>4. f[1] = "accepted" \/ (f[1] = "auction_closed" /\ f[2] \in Expirers)
            BY <2>3 DEF Outcomes
        <3> QED BY <3>1, <3>2, <3>3, <3>4
    <2>4. \A f, g \in Outcomes : f = g
        BY <2>2, <2>3
    <2>5. ASSUME NEW f \in filed, f[1] = "accepted"
          PROVE  record.state = "accepted" /\ record.bid = bid[f[2]]
        <3>1. f \in Outcomes
            BY <2>5 DEF Outcomes
        <3>2. target[f[2]] = "accepted"
            BY <2>5 DEF FiledBy
        <3> QED BY <2>1, <3>1, <3>2 DEF Final
    <2> QED BY <2>4, <2>5 DEF OneOutcome
<1> QED BY <1>1, RecordInvariant, PTL

(* A write of the record is a move of the lifecycle: it leaves the state   *)
(* the record is in, and only an acceptance changes the winner.            *)
LEMMA WriteMoves ==
    ASSUME RecordInv, NEW r \in Requests, pc[r] = "save", Write(r)
    PROVE  Lifecycle!Next
<1> USE DEF RecordInv, TypeOK, Requests
<1>1. record.state = source[r] /\ target[r] \in Transitions(record.state)
    BY DEF OneSaver, Roles, Moving
<1>2. record'.state = target[r]
      /\ record'.bid = IF target[r] = "accepted" THEN bid[r] ELSE record.bid
    BY DEF Write, Save
<1>3. Lifecycle!Transitions(record.state) = Transitions(record.state)
    BY DEF Transitions, Lifecycle!Transitions
<1>4. CASE target[r] = "accepted"
    <2>1. bid[r] \in Bids
        BY <1>4 DEF Roles
    <2> QED BY <1>1, <1>2, <1>3, <1>4, <2>1 DEF Lifecycle!Next, Lifecycle!Award
<1>5. CASE target[r] # "accepted"
    BY <1>1, <1>2, <1>3, <1>5 DEF Lifecycle!Next, Lifecycle!Move
<1> QED BY <1>4, <1>5

LEMMA LifecycleStep ==
    RecordInv /\ [Next]_vars => [Lifecycle!Next]_<<record.state, record.bid>>
<1> SUFFICES ASSUME RecordInv, [Next]_vars
             PROVE  [Lifecycle!Next]_<<record.state, record.bid>>
    OBVIOUS
<1>1. ASSUME pc[Creator] = "create", Save("created", NoBid)
      PROVE  Lifecycle!Next
    BY <1>1 DEF RecordInv, Beginning, Save, Lifecycle!Next, Lifecycle!Begin
<1>2. CASE CreateReserve BY <1>2 DEF CreateReserve
<1>3. CASE CreateSave BY <1>1, <1>3 DEF CreateSave, Goto
<1>4. CASE CreateFails BY <1>1, <1>4 DEF CreateFails, Goto
<1>5. CASE RecordBids BY <1>5 DEF RecordBids
<1>6. CASE Tick BY <1>6 DEF Tick
<1>7. ASSUME NEW r \in Requests, ByRequest(r)
      PROVE  [Lifecycle!Next]_<<record.state, record.bid>>
    <2>1. CASE SaveRecord(r) BY <2>1, WriteMoves DEF SaveRecord, Goto
    <2>2. CASE SaveFails(r) BY <2>2, WriteMoves DEF SaveFails, Goto
    <2>3. CASE ~SaveRecord(r) /\ ~SaveFails(r)
        BY <1>7, <2>3
        DEF ByRequest, ExpireStart, Read, ReserveExit, Reread, RereadRefused,
            GiveBack, Delete, FileMove, GatePassed, Claim, Mint, MintFails,
            MintOrphans, MintUnreported, Bridge, Quits, AcceptStart
    <2> QED BY <2>1, <2>2, <2>3
<1>8. CASE UNCHANGED vars BY <1>8 DEF vars
<1> QED BY <1>2, <1>3, <1>4, <1>5, <1>6, <1>7, <1>8, Cases

(* The record, whoever serves it, implements AuctionLifecycle: it moves    *)
(* forward through the published states and is awarded once.               *)
THEOREM LifecycleImplemented == Spec => LifecycleKept
<1>1. Init => Lifecycle!Init
    BY DEF Init, Lifecycle!Init
<1>2. RecordInv /\ [Next]_vars => [Lifecycle!Next]_<<record.state, record.bid>>
    BY LifecycleStep
<1> QED BY <1>1, <1>2, RecordInvariant, PTL DEF Spec, LifecycleKept, Lifecycle!Spec

(* With a merchant whose refusals are refusals, and accepts that do not    *)
(* straddle the end of the record they read, the claim is kept.            *)
LEMMA CodeInvariant ==
    ASSUME ~UnreportedMints, ~StraddlingReads PROVE Spec => []CodeInv
<1>1. Init => CodeInv
    <2> SUFFICES ASSUME Init PROVE CodeInv
        OBVIOUS
    <2>1. ClaimKept /\ ReadsInTime /\ Issued /\ Stamped
        BY RoleAssumption
        DEF Init, Requests, Claimed, ClaimKept, ReadsInTime, Issued, Stamped
    <2> QED BY <2>1, RecordInit DEF CodeInv
<1>2. CodeInv /\ [Next]_vars => CodeInv'
    <2> SUFFICES ASSUME CodeInv, [Next]_vars PROVE CodeInv'
        OBVIOUS
    <2>1. RecordInv'
        BY RecordStep DEF CodeInv
    <2>2. ClaimKept' /\ ReadsInTime' /\ Issued' /\ Stamped'
        BY ClaimKeptStep, ReadsInTimeStep, IssuedStep, StampedStep
    <2> QED BY <2>1, <2>2 DEF CodeInv
<1> QED BY <1>1, <1>2, PTL DEF Spec

(* "One auction, one mint": any number of buyers on any number of          *)
(* replicas, failing at any step, leave at most one live discount code.    *)
THEOREM OneMint ==
    ASSUME ~UnreportedMints, ~StraddlingReads PROVE Spec => []AtMostOneLiveCode
<1>1. CodeInv => AtMostOneLiveCode
    BY DEF CodeInv, RecordInv, TypeOK, Issued, ClaimKept, Claimed, AtMostOneLiveCode
<1> QED BY <1>1, CodeInvariant, PTL

(* An acceptance on record and a live code for another bid, or a code      *)
(* whose checkout was refused, never coexist.                              *)
THEOREM CodeIsTheAcceptedOne ==
    ASSUME ~UnreportedMints, ~StraddlingReads PROVE Spec => []CodeMatchesStamp
<1>1. ASSUME CodeInv, record.state = "accepted", NEW r \in codes
      PROVE  bid[r] = record.bid /\ r \notin orphans
    <2> USE <1>1 DEF CodeInv, RecordInv, TypeOK, Requests
    <2>1. PICK w \in Acceptors : Claimed(w) /\ source[w] # "none" /\ bid[w] = record.bid
        BY DEF Stamped
    <2>2. r \in Requests /\ Claimed(r)
        BY DEF Issued, Claimed
    <2>3. w = r
        BY <2>1, <2>2 DEF ClaimKept
    <2> QED BY <2>1, <2>3 DEF Issued
<1>2. CodeInv => CodeMatchesStamp
    BY <1>1 DEF CodeMatchesStamp
<1> QED BY <1>2, CodeInvariant, PTL

-----------------------------------------------------------------------------
(* What the ledger and the bid book are told, in the order they are told:  *)
(* nobody is past the gate of accept_bid before both events are filed.     *)
Told == {<<"auction_opened", Creator>>, <<"auction_closed", Creator>>}

Announced ==
    /\ target[Creator] = "closed" => <<"auction_opened", Creator>> \in filed
    /\ pc[Creator] = "book" \/ book => Told \subseteq filed
    /\ \A r \in Acceptors : pc[r] = "claim" \/ target[r] = "accepted" => book

(* A live reservation, and what has happened, or is still owed, behind it. *)
CreateStands ==
    /\ Held("create") => holds["create"].by = Creator /\ holds["create"].token = NoBid
    /\ pc[Creator] \notin {"start", "create", "release", "delete"} \cup Ended
          => record.state # "none"
    /\ Held("create") /\ pc[Creator] = "done" => record.state # "none"

Answerable(h) == \/ h \in codes \/ bid[h] \in Fallbacks
                 \/ pc[h] \in {"mint", "died"}
                 \/ pc[h] \in {"release", "delete"} /\ source[h] = "none"

AcceptStands ==
    Held("accept") => /\ holds["accept"].by \in Acceptors
                      /\ target[holds["accept"].by] = "accepted"
                      /\ holds["accept"].token = bid[holds["accept"].by]
                      /\ Answerable(holds["accept"].by)

Leaving(h, s) == \/ pc[h] = "died"
                 \/ /\ pc[h] \in {"reread", "save", "release", "delete"}
                    /\ source[h] = s
                    /\ holds[Exit(s)].token = target[h]

ExitStands ==
    /\ ~Held("exit:none")
    /\ \A s \in {"created", "open", "closed"} : Held(Exit(s)) =>
          /\ Rank(s) =< Rank(record.state)
          /\ holds[Exit(s)].by \in Requests
          /\ record.state = s => Leaving(holds[Exit(s)].by, s)

(* The bids are on record after both events, and an accept reads them.     *)
LEMMA AnnouncedStep == RecordInv /\ Announced /\ [Next]_vars => Announced'
<1> SUFFICES ASSUME RecordInv, Announced, [Next]_vars PROVE Announced'
    OBVIOUS
<1> USE TTLAssumption, RoleAssumption, BidAssumption
       DEF RecordInv, TypeOK, Requests, States, Names, Steps, Ended, Goto, local,
           money, Exit, Transitions, Rank,
           Announced, Told, Roles, FiledBy
<1>1. CASE CreateReserve BY <1>1 DEF CreateReserve, Reserve, Held
<1>2. CASE CreateSave BY <1>2 DEF CreateSave, Save, Present
<1>3. CASE CreateFails BY <1>3 DEF CreateFails, Save
<1>4. CASE RecordBids BY <1>4 DEF RecordBids
<1>5. CASE Tick BY <1>5 DEF Tick
<1>6. ASSUME NEW r \in Requests, ByRequest(r) PROVE Announced'
  <2>1. CASE ExpireStart(r) BY <2>1 DEF ExpireStart
  <2>2. CASE Read(r) BY <2>2 DEF Read, Present
  <2>3. CASE ReserveExit(r) BY <2>3 DEF ReserveExit, Reserve, Held
  <2>4. CASE Reread(r) BY <2>4 DEF Reread, Unmoved, Present
  <2>5. CASE RereadRefused(r) BY <2>5 DEF RereadRefused, Unmoved, Present
  <2>6. CASE SaveRecord(r) BY <2>6 DEF SaveRecord, Write, Save
  <2>7. CASE SaveFails(r) BY <2>7 DEF SaveFails, Write, Save
  <2>8. CASE GiveBack(r) BY <2>8 DEF GiveBack, Held, Mine, Token
  <2>9. CASE Delete(r) BY <2>9 DEF Delete, Mine, Free
  <2>10. CASE FileMove(r) BY <2>10 DEF FileMove, File, Kind
  <2>11. CASE GatePassed(r) BY <2>11 DEF GatePassed
  <2>12. CASE Claim(r) BY <2>12 DEF Claim, Reserve, Held
  <2>13. CASE Mint(r) BY <2>13 DEF Mint
  <2>14. CASE MintFails(r) BY <2>14 DEF MintFails
  <2>15. CASE MintOrphans(r) BY <2>15 DEF MintOrphans
  <2>16. CASE MintUnreported(r) BY <2>16 DEF MintUnreported
  <2>17. CASE Bridge(r) BY <2>17 DEF Bridge
  <2>18. CASE Quits(r) BY <2>18 DEF Quits
  <2>19. ASSUME NEW b \in Bids, AcceptStart(r, b) PROVE Announced'
      BY <2>19 DEF AcceptStart, Present
  <2> QED BY <1>6, <2>1, <2>2, <2>3, <2>4, <2>5, <2>6, <2>7, <2>8, <2>9, <2>10, <2>11,
         <2>12, <2>13, <2>14, <2>15, <2>16, <2>17, <2>18, <2>19 DEF ByRequest
<1>7. CASE UNCHANGED vars BY <1>7 DEF vars
<1> QED BY <1>1, <1>2, <1>3, <1>4, <1>5, <1>6, <1>7, Cases

(* The id is kept by a record, or given back.                              *)
LEMMA CreateStandsStep == RecordInv /\ CreateStands /\ [Next]_vars => CreateStands'
<1> SUFFICES ASSUME RecordInv, CreateStands, [Next]_vars PROVE CreateStands'
    OBVIOUS
<1> USE TTLAssumption, RoleAssumption, BidAssumption
       DEF RecordInv, TypeOK, Requests, States, Names, Steps, Ended, Goto, local,
           money, Exit, Transitions, Rank,
           CreateStands, Held, Beginning, Roles, Ranked, OneSaver, Moving
<1>1. CASE CreateReserve BY <1>1 DEF CreateReserve, Reserve, Held
<1>2. CASE CreateSave BY <1>2 DEF CreateSave, Save, Present
<1>3. CASE CreateFails BY <1>3 DEF CreateFails, Save
<1>4. CASE RecordBids BY <1>4 DEF RecordBids
<1>5. CASE Tick BY <1>5 DEF Tick
<1>6. ASSUME NEW r \in Requests, ByRequest(r) PROVE CreateStands'
  <2>1. CASE ExpireStart(r) BY <2>1 DEF ExpireStart
  <2>2. CASE Read(r) BY <2>2 DEF Read, Present
  <2>3. CASE ReserveExit(r) BY <2>3 DEF ReserveExit, Reserve, Held
  <2>4. CASE Reread(r) BY <2>4 DEF Reread, Unmoved, Present
  <2>5. CASE RereadRefused(r) BY <2>5 DEF RereadRefused, Unmoved, Present
  <2>6. CASE SaveRecord(r) BY <2>6 DEF SaveRecord, Write, Save
  <2>7. CASE SaveFails(r) BY <2>7 DEF SaveFails, Write, Save
  <2>8. CASE GiveBack(r) BY <2>8 DEF GiveBack, Held, Mine, Token
  <2>9. CASE Delete(r) BY <2>9 DEF Delete, Mine, Free
  <2>10. CASE FileMove(r) BY <2>10 DEF FileMove, File, Kind
  <2>11. CASE GatePassed(r) BY <2>11 DEF GatePassed
  <2>12. CASE Claim(r) BY <2>12 DEF Claim, Reserve, Held
  <2>13. CASE Mint(r) BY <2>13 DEF Mint
  <2>14. CASE MintFails(r) BY <2>14 DEF MintFails
  <2>15. CASE MintOrphans(r) BY <2>15 DEF MintOrphans
  <2>16. CASE MintUnreported(r) BY <2>16 DEF MintUnreported
  <2>17. CASE Bridge(r) BY <2>17 DEF Bridge
  <2>18. CASE Quits(r) BY <2>18 DEF Quits
  <2>19. ASSUME NEW b \in Bids, AcceptStart(r, b) PROVE CreateStands'
      BY <2>19 DEF AcceptStart, Present
  <2> QED BY <1>6, <2>1, <2>2, <2>3, <2>4, <2>5, <2>6, <2>7, <2>8, <2>9, <2>10, <2>11,
         <2>12, <2>13, <2>14, <2>15, <2>16, <2>17, <2>18, <2>19 DEF ByRequest
<1>7. CASE UNCHANGED vars BY <1>7 DEF vars
<1> QED BY <1>1, <1>2, <1>3, <1>4, <1>5, <1>6, <1>7, Cases

(* The claim is kept by a code or a handoff, or given back.                *)
LEMMA AcceptStandsStep == RecordInv /\ AcceptStands /\ [Next]_vars => AcceptStands'
<1> SUFFICES ASSUME RecordInv, AcceptStands, [Next]_vars PROVE AcceptStands'
    OBVIOUS
<1> USE TTLAssumption, RoleAssumption, BidAssumption
       DEF RecordInv, TypeOK, Requests, States, Names, Steps, Ended, Goto, local,
           money, Exit, Transitions, Rank,
           AcceptStands, Answerable, Held, Roles
<1>1. CASE CreateReserve BY <1>1 DEF CreateReserve, Reserve, Held
<1>2. CASE CreateSave BY <1>2 DEF CreateSave, Save, Present
<1>3. CASE CreateFails BY <1>3 DEF CreateFails, Save
<1>4. CASE RecordBids BY <1>4 DEF RecordBids
<1>5. CASE Tick BY <1>5 DEF Tick
<1>6. ASSUME NEW r \in Requests, ByRequest(r) PROVE AcceptStands'
  <2>1. CASE ExpireStart(r) BY <2>1 DEF ExpireStart
  <2>2. CASE Read(r) BY <2>2 DEF Read, Present
  <2>3. CASE ReserveExit(r) BY <2>3 DEF ReserveExit, Reserve, Held
  <2>4. CASE Reread(r) BY <2>4 DEF Reread, Unmoved, Present
  <2>5. CASE RereadRefused(r) BY <2>5 DEF RereadRefused, Unmoved, Present
  <2>6. CASE SaveRecord(r) BY <2>6 DEF SaveRecord, Write, Save
  <2>7. CASE SaveFails(r) BY <2>7 DEF SaveFails, Write, Save
  <2>8. CASE GiveBack(r) BY <2>8 DEF GiveBack, Held, Mine, Token
  <2>9. CASE Delete(r) BY <2>9 DEF Delete, Mine, Free
  <2>10. CASE FileMove(r) BY <2>10 DEF FileMove, File, Kind
  <2>11. CASE GatePassed(r) BY <2>11 DEF GatePassed
  <2>12. CASE Claim(r) BY <2>12 DEF Claim, Reserve, Held
  <2>13. CASE Mint(r) BY <2>13 DEF Mint
  <2>14. CASE MintFails(r) BY <2>14 DEF MintFails
  <2>15. CASE MintOrphans(r) BY <2>15 DEF MintOrphans
  <2>16. CASE MintUnreported(r) BY <2>16 DEF MintUnreported
  <2>17. CASE Bridge(r) BY <2>17 DEF Bridge
  <2>18. CASE Quits(r) BY <2>18 DEF Quits
  <2>19. ASSUME NEW b \in Bids, AcceptStart(r, b) PROVE AcceptStands'
      BY <2>19 DEF AcceptStart, Present
  <2> QED BY <1>6, <2>1, <2>2, <2>3, <2>4, <2>5, <2>6, <2>7, <2>8, <2>9, <2>10, <2>11,
         <2>12, <2>13, <2>14, <2>15, <2>16, <2>17, <2>18, <2>19 DEF ByRequest
<1>7. CASE UNCHANGED vars BY <1>7 DEF vars
<1> QED BY <1>1, <1>2, <1>3, <1>4, <1>5, <1>6, <1>7, Cases

LEMMA MineIs ==
    ASSUME NEW r, source[r] # "none"
    PROVE  Mine(r) = Exit(source[r]) /\ Token(r) = target[r]
BY DEF Mine, Token

(* An exit is kept by the record's having left through it, or given back.  *)
LEMMA ExitStandsStep == RecordInv /\ ExitStands /\ [Next]_vars => ExitStands'
<1> SUFFICES ASSUME RecordInv, ExitStands, [Next]_vars PROVE ExitStands'
    OBVIOUS
<1> USE TTLAssumption, RoleAssumption, BidAssumption
       DEF RecordInv, TypeOK, Requests, States, Names, Steps, Ended, Goto, local,
           money, Exit, Transitions, Rank,
           ExitStands, Leaving, Held, Beginning, Roles, Ranked, OneSaver, Moving
<1>1. CASE CreateReserve BY <1>1 DEF CreateReserve, Reserve, Held
<1>2. CASE CreateSave BY <1>2 DEF CreateSave, Save, Present
<1>3. CASE CreateFails BY <1>3 DEF CreateFails, Save
<1>4. CASE RecordBids BY <1>4 DEF RecordBids
<1>5. CASE Tick BY <1>5 DEF Tick
<1>6. ASSUME NEW r \in Requests, ByRequest(r) PROVE ExitStands'
  <2>1. CASE ExpireStart(r) BY <2>1 DEF ExpireStart
  <2>2. CASE Read(r) BY <2>2 DEF Read, Present
  <2>3. CASE ReserveExit(r) BY <2>3 DEF ReserveExit, Reserve, Held
  <2>4. CASE Reread(r) BY <2>4 DEF Reread, Unmoved, Present
  <2>5. CASE RereadRefused(r) BY <2>5 DEF RereadRefused, Unmoved, Present
  <2>6. CASE SaveRecord(r) BY <2>6 DEF SaveRecord, Write, Save
  <2>7. CASE SaveFails(r) BY <2>7 DEF SaveFails, Write, Save
  <2>8. CASE GiveBack(r)
    <3>1. /\ pc[r] = "release" /\ UNCHANGED <<now, record, holds, source, target>>
          /\ pc' = [pc EXCEPT ![r] = IF Held(Mine(r)) /\ holds[Mine(r)].token = Token(r)
                                       THEN "delete" ELSE "done"]
      BY <2>8 DEF GiveBack
    <3>2. ASSUME NEW s \in {"created", "open", "closed"}, Held(Exit(s)), record.state = s
          PROVE  Leaving(holds[Exit(s)].by, s)'
      <4>1. PICK h \in Requests : h = holds[Exit(s)].by /\ Leaving(h, s)
        BY <3>2
      <4>2. CASE h = r
        <5>1. source[r] = s /\ holds[Exit(s)].token = target[r]
          BY <3>1, <4>1, <4>2
        <5>2. Mine(r) = Exit(s) /\ Token(r) = target[r]
          BY <5>1, MineIs
        <5>3. pc'[r] = "delete"
          BY <3>1, <3>2, <5>1, <5>2
        <5> QED BY <3>1, <4>1, <4>2, <5>1, <5>3
      <4>3. CASE h # r
        BY <3>1, <4>1, <4>3
      <4> QED BY <4>2, <4>3
    <3>3. \A n \in Names : Held(n)' = Held(n)
      BY <3>1
    <3> QED BY <3>1, <3>2, <3>3
  <2>9. CASE Delete(r)
    <3>1. /\ pc[r] = "delete" /\ UNCHANGED <<now, record, source, target>>
          /\ pc' = [pc EXCEPT ![r] = "done"]
          /\ holds' = [holds EXCEPT ![Mine(r)] = Free]
      BY <2>9 DEF Delete
    <3>2. ASSUME NEW n \in Names, Held(n)' PROVE n # Mine(r) /\ Held(n) /\ holds'[n] = holds[n]
      BY <3>1, <3>2 DEF Free
    <3>3. ASSUME NEW s \in {"created", "open", "closed"}, Held(Exit(s))', record.state = s
          PROVE  Leaving(holds[Exit(s)].by, s)'
      <4>1. Exit(s) # Mine(r) /\ Held(Exit(s)) /\ holds'[Exit(s)] = holds[Exit(s)]
        BY <3>2, <3>3
      <4>2. PICK h \in Requests : h = holds[Exit(s)].by /\ Leaving(h, s)
        BY <3>3, <4>1
      <4>3. h # r
        BY <3>1, <4>1, <4>2, MineIs
      <4> QED BY <3>1, <4>1, <4>2, <4>3
    <3>4. \A s \in {"created", "open", "closed"} : Exit(s) \in Names
      OBVIOUS
    <3> QED BY <3>1, <3>2, <3>3, <3>4
  <2>10. CASE FileMove(r) BY <2>10 DEF FileMove, File, Kind
  <2>11. CASE GatePassed(r) BY <2>11 DEF GatePassed
  <2>12. CASE Claim(r) BY <2>12 DEF Claim, Reserve, Held
  <2>13. CASE Mint(r) BY <2>13 DEF Mint
  <2>14. CASE MintFails(r) BY <2>14 DEF MintFails
  <2>15. CASE MintOrphans(r) BY <2>15 DEF MintOrphans
  <2>16. CASE MintUnreported(r) BY <2>16 DEF MintUnreported
  <2>17. CASE Bridge(r) BY <2>17 DEF Bridge
  <2>18. CASE Quits(r) BY <2>18 DEF Quits
  <2>19. ASSUME NEW b \in Bids, AcceptStart(r, b) PROVE ExitStands'
      BY <2>19 DEF AcceptStart, Present
  <2> QED BY <1>6, <2>1, <2>2, <2>3, <2>4, <2>5, <2>6, <2>7, <2>8, <2>9, <2>10, <2>11,
         <2>12, <2>13, <2>14, <2>15, <2>16, <2>17, <2>18, <2>19 DEF ByRequest
<1>7. CASE UNCHANGED vars BY <1>7 DEF vars
<1> QED BY <1>1, <1>2, <1>3, <1>4, <1>5, <1>6, <1>7, Cases

LEMMA AnnouncedInv == Spec => []Announced
<1>1. Init => Announced
    BY RoleAssumption DEF Init, Announced, Requests
<1> QED BY <1>1, RecordInvariant, AnnouncedStep, PTL DEF Spec

(* The ledger hears of an acceptance after it heard that the auction       *)
(* opened and closed, although another request files those: accept_bid     *)
(* reads a bid book that create_auction writes after both.                 *)
THEOREM AcceptedInOrder == Spec => []AcceptedAfterClosed
<1>1. RecordInv /\ Announced => AcceptedAfterClosed
    <2> SUFFICES ASSUME RecordInv, Announced, NEW r \in Requests, <<"accepted", r>> \in filed
                 PROVE  Told \subseteq filed
        BY DEF AcceptedAfterClosed, Told
    <2>1. target[r] = "accepted"
        BY DEF RecordInv, FiledBy
    <2>2. r \in Acceptors
        BY <2>1 DEF RecordInv, Roles, Requests
    <2> QED BY <2>1, <2>2 DEF Announced
<1> QED BY <1>1, RecordInvariant, AnnouncedInv, PTL

LEMMA StandsInv == Spec => [](CreateStands /\ AcceptStands /\ ExitStands)
<1>1. Init => CreateStands /\ AcceptStands /\ ExitStands
    BY DEF Init, CreateStands, AcceptStands, ExitStands, Held, Free, Names, Requests, Exit
<1>2. RecordInv /\ (CreateStands /\ AcceptStands /\ ExitStands) /\ [Next]_vars
        => (CreateStands /\ AcceptStands /\ ExitStands)'
    BY CreateStandsStep, AcceptStandsStep, ExitStandsStep
<1> QED BY <1>1, <1>2, RecordInvariant, PTL DEF Spec

(* A request that ends without dying leaves no live reservation behind     *)
(* that stands for nothing: the id has a record, the exit was left, the    *)
(* claim has its code or its handoff (_transition, accept, and the finally *)
(* clauses that release what they took).                                   *)
THEOREM NothingWedged == Spec => []NoWedge
<1>1. RecordInv /\ (CreateStands /\ AcceptStands /\ ExitStands) => NoWedge
    <2> SUFFICES ASSUME RecordInv, CreateStands, AcceptStands, ExitStands,
                        NEW n \in Names, Held(n), pc[holds[n].by] = "done"
                 PROVE  Stands(n)
        BY DEF NoWedge
    <2>1. CASE n = "create"
        BY <2>1 DEF CreateStands, Stands
    <2>2. CASE n = "accept"
        BY <2>2 DEF AcceptStands, Answerable, Stands
    <2>3. CASE n = "exit:none"
        BY <2>3 DEF ExitStands
    <2>4. ASSUME NEW s \in {"created", "open", "closed"}, n = Exit(s)
          PROVE  Stands(n)
        <3>1. record.state = s => Leaving(holds[n].by, s)
            BY <2>4 DEF ExitStands
        <3>2. record.state # s
            BY <3>1 DEF Leaving
        <3>3. n # Exit(record.state)
            BY <2>4, <3>2 DEF Exit
        <3>4. n \notin {"create", "accept"}
            BY <2>4 DEF Exit
        <3> QED BY <3>3, <3>4 DEF Stands
    <2>5. n \in {"create", "accept", "exit:none"}
            \cup {Exit(s) : s \in {"created", "open", "closed"}}
        BY DEF Names, Exit
    <2> QED BY <2>1, <2>2, <2>3, <2>4, <2>5
<1> QED BY <1>1, RecordInvariant, StandsInv, PTL

-----------------------------------------------------------------------------
(* What a request has in hand is its own, and carries its token.           *)
Owned == \A r \in Requests : InHand(r) => /\ Held(Mine(r))
                                          /\ holds[Mine(r)].by = r
                                          /\ holds[Mine(r)].token = Token(r)

(* As long as nothing lapses under it.                                     *)
LEMMA OwnedStep ==
    ASSUME RecordInv, Owned, [Next]_vars, [Timely]_vars
    PROVE  Owned'
<1> USE TTLAssumption, RoleAssumption, BidAssumption
       DEF RecordInv, TypeOK, Requests, States, Names, Steps, Ended, Goto, local,
           money, Exit, Transitions, Rank, 
           Owned, InHand, Held, Mine, Token, Beginning, Roles, Ranked, Moving
<1>1. CASE CreateReserve BY <1>1 DEF CreateReserve, Reserve, Held
<1>2. CASE CreateSave BY <1>2 DEF CreateSave, Save, Present
<1>3. CASE CreateFails BY <1>3 DEF CreateFails, Save
<1>4. CASE RecordBids BY <1>4 DEF RecordBids
<1>5. CASE Tick BY <1>5 DEF Tick, Timely, vars
<1>6. ASSUME NEW r \in Requests, ByRequest(r) PROVE Owned'
  <2>1. CASE ExpireStart(r) BY <2>1 DEF ExpireStart
  <2>2. CASE Read(r) BY <2>2 DEF Read, Present
  <2>3. CASE ReserveExit(r) BY <2>3 DEF ReserveExit, Reserve, Held
  <2>4. CASE Reread(r) BY <2>4 DEF Reread, Unmoved, Present
  <2>5. CASE RereadRefused(r) BY <2>5 DEF RereadRefused, Unmoved, Present
  <2>6. CASE SaveRecord(r) BY <2>6 DEF SaveRecord, Write, Save
  <2>7. CASE SaveFails(r) BY <2>7 DEF SaveFails, Write, Save
  <2>8. CASE GiveBack(r) BY <2>8 DEF GiveBack, Held, Mine, Token
  <2>9. CASE Delete(r) BY <2>9 DEF Delete, Mine, Free
  <2>10. CASE FileMove(r) BY <2>10 DEF FileMove, File, Kind
  <2>11. CASE GatePassed(r) BY <2>11 DEF GatePassed
  <2>12. CASE Claim(r) BY <2>12 DEF Claim, Reserve, Held
  <2>13. CASE Mint(r) BY <2>13 DEF Mint
  <2>14. CASE MintFails(r) BY <2>14 DEF MintFails
  <2>15. CASE MintOrphans(r) BY <2>15 DEF MintOrphans
  <2>16. CASE MintUnreported(r) BY <2>16 DEF MintUnreported
  <2>17. CASE Bridge(r) BY <2>17 DEF Bridge
  <2>18. CASE Quits(r) BY <2>18 DEF Quits
  <2>19. ASSUME NEW b \in Bids, AcceptStart(r, b) PROVE Owned'
      BY <2>19 DEF AcceptStart, Present
  <2> QED BY <1>6, <2>1, <2>2, <2>3, <2>4, <2>5, <2>6, <2>7, <2>8, <2>9, <2>10, <2>11,
         <2>12, <2>13, <2>14, <2>15, <2>16, <2>17, <2>18, <2>19 DEF ByRequest
<1>7. CASE UNCHANGED vars BY <1>7 DEF vars
<1> QED BY <1>1, <1>2, <1>3, <1>4, <1>5, <1>6, <1>7, Cases

LEMMA OwnedInv == Spec /\ [][Timely]_vars => []Owned
<1>1. Init => Owned
    BY DEF Init, Owned, InHand
<1>2. RecordInv /\ Owned /\ [Next]_vars /\ [Timely]_vars => Owned'
    BY OwnedStep
<1> QED BY <1>1, <1>2, RecordInvariant, PTL DEF Spec

-----------------------------------------------------------------------------
(* A reservation as the contract has it.                                   *)
Reservation(n) == [auction |-> "this one", name |-> n, token |-> holds[n].token,
                   until |-> holds[n].until]

LEMMA Reserved == \A h : h \in LiveHolds <=> \E n \in Names : Held(n) /\ h = Reservation(n)
BY DEF LiveHolds, Reservation

TheRecord == [auction |-> "this one", until |-> record.until]

LEMMA Recorded ==
    /\ \A x : x \in LiveRecord <=> Present /\ x = TheRecord
    /\ TheRecord.auction = "this one" /\ TheRecord.until = record.until
BY DEF LiveRecord, TheRecord

(* What a SET does to the contract, a SET NX EX, a DEL, and the clock.     *)
LEMMA WriteSaves ==
    ASSUME TypeOK, NEW s, NEW b, Save(s, b), UNCHANGED <<now, holds>>
    PROVE  Contract!Save("this one")
<1>1. now \in Nat /\ TTL \in Nat \ {0} /\ record'.until = now + TTL /\ now' = now
    BY TTLAssumption DEF TypeOK, Save
<1>2. Present'
    BY <1>1 DEF Present
<1>3. LiveRecord' = {Contract!Saved("this one")}
    BY <1>1, <1>2 DEF LiveRecord, Contract!Saved
<1>4. LiveHolds' = LiveHolds
    BY DEF LiveHolds, Held
<1>5. PICK lost \in SUBSET {"this one"} : lost = {}
    OBVIOUS
<1>6. \A r \in LiveRecord : r.auction = "this one"
    BY Recorded
<1>7. LiveRecord' = {r \in LiveRecord : r.auction \notin lost \cup {"this one"}}
                        \cup {Contract!Saved(a) : a \in {"this one"} \ lost}
    BY <1>3, <1>5, <1>6
<1>8. LiveHolds' = {h \in LiveHolds : h.auction \notin lost}
    BY <1>4, <1>5
<1> QED BY <1>1, <1>5, <1>7, <1>8 DEF Contract!Save

LEMMA ReserveReserves ==
    ASSUME TypeOK, NEW n \in Names, NEW r, NEW t, Reserve(n, r, t), UNCHANGED now
    PROVE  Contract!Reserve("this one", n, t)
<1> DEFINE new == Contract!Taken("this one", n, t)
           all == LiveHolds \cup {new}
<1>1. now \in Nat /\ TTL \in Nat \ {0} /\ now' = now /\ ~Held(n)
    BY TTLAssumption DEF TypeOK, Reserve
<1>2. /\ holds'[n] = [by |-> r, token |-> t, until |-> now + TTL]
      /\ \A m \in Names : m # n => holds'[m] = holds[m]
    BY DEF TypeOK, Reserve
<1>3. Held(n)' /\ \A m \in Names : m # n => (Held(m)' <=> Held(m))
    BY <1>1, <1>2 DEF Held
<1>4. Reservation(n)' = new /\ \A m \in Names : m # n => Reservation(m)' = Reservation(m)
    <2>1. holds'[n].token = t /\ holds'[n].until = now + TTL
        BY <1>2
    <2>2. Reservation(n)' = new
        BY <2>1 DEF Reservation, Contract!Taken
    <2>3. \A m \in Names : m # n => Reservation(m)' = Reservation(m)
        BY <1>2 DEF Reservation
    <2> QED BY <2>2, <2>3
<1>5. \A h : h \in LiveHolds' <=> \E m \in Names : Held(m)' /\ h = Reservation(m)'
    BY DEF LiveHolds, Reservation
<1> HIDE DEF new
<1>6. LiveHolds' = all
    <2> SUFFICES ASSUME NEW h PROVE h \in LiveHolds' <=> h \in LiveHolds \/ h = new
        OBVIOUS
    <2>1. h \in LiveHolds' <=> h = new \/ \E m \in Names : m # n /\ Held(m) /\ h = Reservation(m)
        BY <1>3, <1>4, <1>5
    <2>2. h \in LiveHolds <=> \E m \in Names : m # n /\ Held(m) /\ h = Reservation(m)
        BY <1>1, Reserved
    <2> QED BY <2>1, <2>2
<1>7. \A h \in LiveHolds : ~(h.auction = "this one" /\ h.name = n)
    <2>1. \A m \in Names : Reservation(m).name = m
        BY DEF Reservation
    <2> QED BY <1>1, <2>1, Reserved
<1> USE DEF new
<1> QED BY <1>6, <1>7 DEF Contract!Reserve

(* What the DEL takes, whoever took it: nothing, or what it finds there.   *)
LEMMA DeleteReleases ==
    ASSUME TypeOK, NEW n \in Names, holds' = [holds EXCEPT ![n] = Free], UNCHANGED now
    PROVE  /\ LiveHolds' = {h \in LiveHolds : h.name # n}
           /\ Contract!Release("this one", n, holds[n].token)
<1>1. holds'[n] = Free /\ \A m \in Names : m # n => holds'[m] = holds[m]
    BY DEF TypeOK
<1>2. ~Held(n)' /\ \A m \in Names : m # n => (Held(m)' <=> Held(m))
    BY <1>1 DEF Held, Free, TypeOK
<1>3. \A m \in Names : m # n => Reservation(m)' = Reservation(m)
    BY <1>1 DEF Reservation
<1>4. \A h : h \in LiveHolds' <=> \E m \in Names : Held(m)' /\ h = Reservation(m)'
    BY DEF LiveHolds, Reservation
<1>5. \A m \in Names : /\ Reservation(m).name = m /\ Reservation(m).auction = "this one"
                       /\ Reservation(m).token = holds[m].token
    BY DEF Reservation
<1>6. ASSUME NEW h PROVE h \in LiveHolds' <=> h \in LiveHolds /\ h.name # n
    <2>1. h \in LiveHolds' <=> \E m \in Names : m # n /\ Held(m) /\ h = Reservation(m)
        BY <1>2, <1>3, <1>4
    <2>2. h \in LiveHolds <=> \E m \in Names : Held(m) /\ h = Reservation(m)
        BY Reserved
    <2> QED BY <1>5, <2>1, <2>2
<1>7. ASSUME NEW h \in LiveHolds
      PROVE  h.name # n <=> ~(h.auction = "this one" /\ h.name = n /\ h.token = holds[n].token)
    <2>1. PICK m \in Names : h = Reservation(m)
        BY Reserved
    <2> QED BY <1>5, <2>1
<1> QED BY <1>6, <1>7 DEF Contract!Release

LEMMA TickLapses ==
    ASSUME TypeOK, Tick
    PROVE  Contract!Tick
<1>1. now \in Nat /\ now' = now + 1 /\ record' = record /\ holds' = holds
    BY DEF TypeOK, Tick
<1>2. record.until \in Nat /\ \A n \in Names : holds[n].until \in Nat
    BY DEF TypeOK
<1>3. LiveRecord' = {r \in LiveRecord : now + 1 < r.until}
    <2> SUFFICES ASSUME NEW x PROVE x \in LiveRecord' <=> x \in LiveRecord /\ now + 1 < x.until
        OBVIOUS
    <2>1. x \in LiveRecord' <=> Present' /\ x = TheRecord
        BY <1>1 DEF LiveRecord, TheRecord
    <2>2. Present' <=> Present /\ now + 1 < record.until
        BY <1>1, <1>2 DEF Present
    <2> QED BY <2>1, <2>2, Recorded
<1>4. /\ \A n \in Names : Held(n)' <=> Held(n) /\ now + 1 < Reservation(n).until
      /\ \A n \in Names : Reservation(n)' = Reservation(n)
    BY <1>1, <1>2 DEF Held, Reservation
<1>5. \A h : h \in LiveHolds' <=> \E n \in Names : Held(n)' /\ h = Reservation(n)'
    BY DEF LiveHolds, Reservation
<1>6. LiveHolds' = {h \in LiveHolds : now + 1 < h.until}
    BY <1>4, <1>5, Reserved
<1> QED BY <1>1, <1>3, <1>6 DEF Contract!Tick

LEMMA Undisturbed ==
    ASSUME UNCHANGED <<now, record, holds>>
    PROVE  UNCHANGED Contract!store
BY DEF Contract!store, LiveRecord, LiveHolds, Present, Held

LEMMA SaveSteps ==
    ASSUME TypeOK, NEW s, NEW b, Save(s, b) \/ UNCHANGED record, UNCHANGED <<now, holds>>
    PROVE  [Contract!Next]_(Contract!store)
<1>1. CASE Save(s, b)
    BY <1>1, WriteSaves DEF Contract!Next
<1>2. CASE UNCHANGED record
    BY <1>2, Undisturbed
<1> QED BY <1>1, <1>2

LEMMA ReserveSteps ==
    ASSUME TypeOK, NEW n \in Names, NEW r, NEW t \in States \cup Bids \cup {NoBid},
           Reserve(n, r, t), UNCHANGED <<now, record>>
    PROVE  Contract!Next
<1>1. Contract!Reserve("this one", n, t)
    BY ReserveReserves
<1>2. UNCHANGED <<now, LiveRecord>>
    BY DEF LiveRecord, Present
<1>3. "this one" \in {"this one"}
    OBVIOUS
<1> QED BY <1>1, <1>2, <1>3 DEF Contract!Next

LEMMA MineIsAName ==
    ASSUME TypeOK, NEW r \in Requests PROVE Mine(r) \in Names
BY DEF Mine, Exit, Names

LEMMA StoreSteps == RecordInv /\ [Next]_vars => [Contract!Next]_(Contract!store)
<1> SUFFICES ASSUME RecordInv, [Next]_vars PROVE [Contract!Next]_(Contract!store)
    OBVIOUS
<1>0. TypeOK
    BY DEF RecordInv
<1>1. CASE CreateReserve
    <2>1. "create" \in Names /\ NoBid \in States \cup Bids \cup {NoBid}
        BY DEF Names
    <2> QED BY <1>0, <1>1, <2>1, ReserveSteps DEF CreateReserve
<1>2. CASE CreateSave BY <1>0, <1>2, SaveSteps DEF CreateSave
<1>3. CASE CreateFails BY <1>0, <1>3, SaveSteps DEF CreateFails
<1>4. CASE RecordBids BY <1>4, Undisturbed DEF RecordBids
<1>5. CASE Tick BY <1>0, <1>5, TickLapses DEF Contract!Next
<1>6. ASSUME NEW r \in Requests, ByRequest(r) PROVE [Contract!Next]_(Contract!store)
    <2>1. target[r] \in States /\ bid[r] \in Bids \cup {NoBid} /\ source[r] \in States
        BY <1>0, <1>6 DEF TypeOK
    <2>2. CASE ReserveExit(r)
        <3>1. Exit(source[r]) \in Names
            BY <2>1 DEF Exit, Names
        <3> QED BY <1>0, <2>1, <2>2, <3>1, ReserveSteps DEF ReserveExit
    <2>3. CASE Claim(r)
        <3>1. "accept" \in Names
            BY DEF Names
        <3> QED BY <1>0, <2>1, <2>3, <3>1, ReserveSteps DEF Claim
    <2>4. CASE SaveRecord(r) BY <1>0, <2>4, SaveSteps DEF SaveRecord, Write
    <2>5. CASE SaveFails(r) BY <1>0, <2>5, SaveSteps DEF SaveFails, Write
    <2>6. CASE Delete(r)
        <3>1. Mine(r) \in Names /\ holds' = [holds EXCEPT ![Mine(r)] = Free] /\ UNCHANGED <<now, record>>
            BY <1>0, <2>6, MineIsAName DEF Delete
        <3>2. Contract!Release("this one", Mine(r), holds[Mine(r)].token)
            BY <1>0, <3>1, DeleteReleases
        <3>3. holds[Mine(r)].token \in States \cup Bids \cup {NoBid}
            BY <1>0, <3>1 DEF TypeOK
        <3>4. UNCHANGED <<now, LiveRecord>>
            BY <3>1 DEF LiveRecord, Present
        <3>5. "this one" \in {"this one"}
            OBVIOUS
        <3> QED BY <3>1, <3>2, <3>3, <3>4, <3>5 DEF Contract!Next
    <2>7. CASE UNCHANGED <<now, record, holds>>
        BY <2>7, Undisturbed
    <2> QED
        BY <1>6, <2>2, <2>3, <2>4, <2>5, <2>6, <2>7
        DEF ByRequest, ExpireStart, Read, Reread, RereadRefused, GiveBack, FileMove, GatePassed,
            Mint, MintFails, MintOrphans, MintUnreported, Bridge, Quits, AcceptStart
<1>7. CASE UNCHANGED vars BY <1>7, Undisturbed DEF vars
<1> QED BY <1>1, <1>2, <1>3, <1>4, <1>5, <1>6, <1>7, Cases

(* The store the requests share is an AuctionStore that loses nothing:     *)
(* each of their calls, at any time, does to the records and reservations  *)
(* that have not lapsed what the contract lets a call do, or nothing.      *)
THEOREM StoreImplemented == Spec => StoreKept
<1>1. Init => Contract!Init
    <2> SUFFICES ASSUME Init PROVE Contract!Init
        OBVIOUS
    <2>1. now = 0 /\ ~Present /\ \A n \in Names : ~Held(n)
        BY DEF Init, Present, Held, Free
    <2> QED BY <2>1, Recorded, Reserved DEF Contract!Init
<1>2. RecordInv /\ [Next]_vars => [Contract!Next]_(Contract!store)
    BY StoreSteps
<1> QED BY <1>1, <1>2, RecordInvariant, PTL DEF Spec, StoreKept, Contract!Spec

(* RedisAuctionStore.release is a GET and a DEL.  If no reservation lapses *)
(* under the request that has it in hand, its DEL takes what the contract  *)
(* says a release with its token takes: never another's.                   *)
THEOREM ReleaseIsAtomic == Spec /\ [][Timely]_vars => ReleaseAsPromised
<1>1. RecordInv /\ Owned => ReleaseStep
    <2> SUFFICES ASSUME RecordInv, Owned, NEW r \in Requests, Delete(r)
                 PROVE  Contract!Release("this one", Mine(r), Token(r))
        BY DEF ReleaseStep
    <2>1. pc[r] = "delete" /\ holds' = [holds EXCEPT ![Mine(r)] = Free] /\ UNCHANGED now
        BY DEF Delete, Goto
    <2>2. holds[Mine(r)].token = Token(r)
        BY <2>1 DEF Owned, InHand
    <2>3. TypeOK /\ Mine(r) \in Names
        BY MineIsAName DEF RecordInv
    <2> QED BY <2>1, <2>2, <2>3, DeleteReleases
<1>2. RecordInv /\ Owned => [ReleaseStep]_vars
    BY <1>1
<1> QED BY <1>2, RecordInvariant, OwnedInv, PTL DEF ReleaseAsPromised
=============================================================================
