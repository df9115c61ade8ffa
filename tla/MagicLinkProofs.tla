--------------------------- MODULE MagicLinkProofs ---------------------------
(***************************************************************************)
(* What module MagicLink guarantees for any number of threads, addresses   *)
(* and links, and any ceilings and lifetimes.                              *)
(***************************************************************************)
EXTENDS MagicLink, TLAPS, FiniteSetTheorems, SequenceTheorems

(* A link was consumed and the redemption that consumed it goes on.        *)
Working  == {"retire", "record", "admit", "sweep", "scan", "drop", "check", "insert", "rearm"}
Taken(t) == job[t].at \in Working

(* The places at which a pseudonym has been drawn and not refused.         *)
Drawn == {"admit", "sweep", "scan", "drop", "check", "insert"}

JobType == [at : Places, email : Emails \cup {Nobody}, link : Issued \cup {0},
            read : 0..MaxTime, psn : DOMAIN rows \cup {0}, final : BOOLEAN,
            opens : 0..MaxTime, size : Nat, dead : SUBSET DOMAIN rows]

(* What a thread has in hand at each place.                                *)
Sound(j) ==
    /\ j \in JobType
    /\ j.read <= now
    /\ j.at \in {"idle", "ask"} => j.link = 0
    /\ j.at = "ask" => j.email \in Emails
    /\ j.at \notin {"idle", "ask"} => j.link \in Issued
    /\ j.at \in Working => j.email = owner[j.link]
    /\ j.at \in Drawn => j.psn \in DOMAIN rows

Jobs == DOMAIN job = Threads /\ job = [t \in Threads |-> job[t]]
        /\ \A t \in Threads : Sound(job[t])

Asking  == {t \in Threads : job[t].at = "ask"}
AskRoom == Len(owner) + Cardinality(Asking) <= MaxLinks

Link == [expires : LinkTtl..(MaxTime + LinkTtl), used : 0..MaxTime \cup {Unused}]

Tables ==
    /\ now \in 0..MaxTime /\ failures \in 0..MaxFailures
    /\ owner \in Seq(Emails)
    /\ DOMAIN pending \subseteq Issued
    /\ \A l \in DOMAIN pending : pending[l] \in Link
    /\ rows \in Seq([email : Emails, active : BOOLEAN])
    /\ Live \subseteq DOMAIN rows
    /\ \A p \in Live : sessions[p] \in SessionTtl..(MaxTime + SessionTtl)
    /\ opened \in [1..MaxLinks -> Nat] /\ broken \subseteq Issued

Typed == Tables /\ Jobs /\ AskRoom

-----------------------------------------------------------------------------
LEMMA Appending ==
    ASSUME NEW S, NEW q \in Seq(S), NEW x \in S
    PROVE  /\ Append(q, x) \in Seq(S) /\ Len(Append(q, x)) = Len(q) + 1
           /\ \A i \in 1..Len(q) : Append(q, x)[i] = q[i]
           /\ Append(q, x)[Len(q) + 1] = x
           /\ DOMAIN Append(q, x) = 1..(Len(q) + 1) /\ DOMAIN q = 1..Len(q)
OBVIOUS

(* The addresses and the vault's rows only grow, and the clock goes on.    *)
Grows == /\ owner \in Seq(Emails) /\ owner' \in Seq(Emails) /\ Len(owner) <= Len(owner')
         /\ \A l \in Issued : owner'[l] = owner[l]
         /\ DOMAIN rows \subseteq DOMAIN rows'
         /\ now \in Nat /\ now' \in Nat /\ now <= now'

LEMMA SoundStays == ASSUME Grows, NEW j, Sound(j) PROVE Sound(j)'
<1>1. Issued \subseteq Issued'
  BY DEF Grows, Issued
<1>2. j \in JobType'
  <2>1. j \in JobType
    BY DEF Sound
  <2> QED BY <1>1, <2>1 DEF Grows, JobType
<1>3. j.read <= now'
  <2>1. j.read \in Nat /\ j.read <= now
    BY DEF Sound, JobType
  <2> QED BY <2>1 DEF Grows
<1>4. j.link \in Issued => owner'[j.link] = owner[j.link]
  BY DEF Grows
<1>5. /\ j.at \in {"idle", "ask"} => j.link = 0
      /\ j.at = "ask" => j.email \in Emails
      /\ j.at \notin {"idle", "ask"} => j.link \in Issued
      /\ j.at \in Working => j.email = owner[j.link]
      /\ j.at \in Drawn => j.psn \in DOMAIN rows
  BY DEF Sound
<1>6. j.at \in Working => j.link \in Issued
  BY <1>5 DEF Working
<1> QED BY <1>1, <1>2, <1>3, <1>4, <1>5, <1>6 DEF Sound, Grows

LEMMA JobsStay ==
    ASSUME Jobs, Grows, NEW t \in Threads, NEW j, job' = [job EXCEPT ![t] = j], Sound(j)'
    PROVE  Jobs' /\ job'[t] = j /\ \A u \in Threads \ {t} : job'[u] = job[u]
<1>1. DOMAIN job' = Threads /\ job' = [u \in Threads |-> job'[u]]
      /\ job'[t] = j /\ \A u \in Threads \ {t} : job'[u] = job[u]
  BY DEF Jobs
<1>2. ASSUME NEW u \in Threads PROVE Sound(job[u])'
  <2>1. PICK i : i = job[u]
    OBVIOUS
  <2>2. CASE u = t
    BY <1>1, <2>2 DEF Sound, JobType
  <2>3. CASE u # t
    <3>1. Sound(i)
      BY <2>1 DEF Jobs
    <3>2. Sound(i)'
      BY <3>1, SoundStays
    <3>3. job'[u] = i
      BY <1>1, <2>1, <2>3
    <3> QED BY <3>2, <3>3 DEF Sound, JobType
  <2> QED BY <2>2, <2>3
<1> QED BY <1>1, <1>2 DEF Jobs

(* A thread goes on with what it has in hand, or with something more.      *)
LEMMA SoundIdle == ASSUME Tables PROVE Sound(Idle)
BY LimitAssumption DEF Sound, Idle, JobType, Tables, Places, Working, Drawn

LEMMA SoundGoto ==
    ASSUME NEW j, Sound(j), NEW place \in Working, j.at \in Working,
           place \in Drawn => j.psn \in DOMAIN rows
    PROVE  Sound([j EXCEPT !.at = place])
BY DEF Sound, JobType, Places, Working, Drawn

LEMMA Element == ASSUME NEW S, NEW q \in Seq(S) PROVE \A i \in DOMAIN q : q[i] \in S
OBVIOUS

LEMMA Retiring ==
    ASSUME rows \in Seq([email : Emails, active : BOOLEAN]), NEW e
    PROVE  /\ Retired(e) \in Seq([email : Emails, active : BOOLEAN])
           /\ DOMAIN Retired(e) = DOMAIN rows
<1>1. PICK n \in Nat : DOMAIN rows = 1..n /\ n = Len(rows)
  OBVIOUS
<1>2. Retired(e) \in [1..n -> [email : Emails, active : BOOLEAN]]
  <2>0. \A p \in 1..n : rows[p] \in [email : Emails, active : BOOLEAN]
    BY <1>1, Element
  <2>1. ASSUME NEW p \in 1..n
        PROVE  /\ rows[p] \in [email : Emails, active : BOOLEAN]
               /\ [rows[p] EXCEPT !.active = FALSE] \in [email : Emails, active : BOOLEAN]
    BY <2>0
  <2> QED BY <1>1, <2>1 DEF Retired
<1>3. Retired(e) \in Seq([email : Emails, active : BOOLEAN])
  BY <1>2, SeqDef
<1> QED BY <1>1, <1>2, <1>3

LEMMA Restricting ==
    ASSUME NEW f, NEW S
    PROVE  /\ DOMAIN Restrict(f, S) = S
           /\ \A x \in S : Restrict(f, S)[x] = f[x]
BY DEF Restrict

LEMMA Keeping ==
    ASSUME NEW t
    PROVE  /\ DOMAIN Kept(t) \subseteq DOMAIN pending
           /\ \A l \in DOMAIN Kept(t) : Kept(t)[l] = pending[l]
           /\ \A l \in DOMAIN pending \ DOMAIN Kept(t) :
                 \/ job[t].read >= pending[l].expires
                 \/ owner[l] = job[t].email /\ pending[l].used = Unused
           /\ \A l \in DOMAIN Kept(t) :
                 /\ ~(job[t].read >= pending[l].expires)
                 /\ ~(owner[l] = job[t].email /\ pending[l].used = Unused)
BY DEF Kept, Restrict

LEMMA Growing == Typed /\ [Next]_vars => Grows
<1> SUFFICES ASSUME Typed, [Next]_vars PROVE Grows
  OBVIOUS
<1>0. /\ owner \in Seq(Emails) /\ now \in Nat
      /\ rows \in Seq([email : Emails, active : BOOLEAN])
  BY LimitAssumption DEF Typed, Tables
<1>1. ASSUME owner' = owner, rows' = rows, now' = now \/ now' = now + 1 PROVE Grows
  BY <1>0, <1>1 DEF Grows
<1>2. CASE Tick
  BY <1>1, <1>2 DEF Tick, links
<1>3. ASSUME NEW t \in Threads, Issue(t) PROVE Grows
  <2>1. job[t].email \in Emails /\ owner' = Append(owner, job[t].email)
        /\ rows' = rows /\ now' = now
    BY <1>3 DEF Issue, Typed, Jobs, Sound
  <2>2. owner' \in Seq(Emails) /\ Len(owner') = Len(owner) + 1
        /\ \A l \in 1..Len(owner) : owner'[l] = owner[l]
    BY <1>0, <2>1, Appending
  <2> QED BY <1>0, <2>1, <2>2 DEF Grows, Issued
<1>4. ASSUME NEW t \in Threads, Retire(t) \/ Record(t) \/ VaultFails(t) PROVE Grows
  <2>1. UNCHANGED <<now, owner>>
        /\ (rows' = rows \/ rows' = Retired(job[t].email) \/ rows' = Recorded(job[t].email))
    BY <1>4 DEF Retire, Record, VaultFails, VaultRaises, links
  <2>2. DOMAIN rows \subseteq DOMAIN Append(rows, [email |-> job[t].email, active |-> TRUE])
    BY <1>0
  <2>3. DOMAIN rows \subseteq DOMAIN rows'
    BY <1>0, <2>1, <2>2, Retiring DEF Recorded
  <2> QED BY <1>0, <2>1, <2>3 DEF Grows
<1>5. ASSUME \/ \E t \in Threads, e \in Emails : Ask(t, e)
             \/ \E t \in Threads, l \in Issued : Redeem(t, l)
             \/ \E t \in Threads :
                   \/ Throttle(t) \/ Consume(t) \/ RefuseLink(t)
                   \/ Admit(t) \/ AdmitFails(t) \/ Redraw(t) \/ RefuseRetired(t)
                   \/ BeginSweep(t) \/ EndSweep(t) \/ SweepFails(t) \/ Drop(t) \/ DropFails(t)
                   \/ BelowCeiling(t) \/ Exhausted(t) \/ Insert(t)
                   \/ Rearm(t)
             \/ \E p \in Live : SignOut(p) \/ LookUp(p)
             \/ UNCHANGED vars
      PROVE  Grows
  <2>1. UNCHANGED <<now, owner, rows>>
    BY <1>5 DEF Ask, Redeem, Throttle, Consume, RefuseLink, Admit, AdmitFails, Redraw,
                RefuseRetired, BeginSweep, EndSweep, SweepFails, Drop, DropFails,
                BelowCeiling, Exhausted, Insert, Rearm, SignOut, LookUp, vars, links
  <2> QED BY <1>1, <2>1
<1> QED BY <1>2, <1>3, <1>4, <1>5 DEF Next

-----------------------------------------------------------------------------
(* The steps that take a redemption on, or end it, sorted by what they do  *)
(* to the link in hand.                                                    *)
Proceeds(t) ==
    \/ Retire(t) \/ Record(t) \/ VaultFails(t)
    \/ Admit(t) \/ Redraw(t) \/ RefuseRetired(t)
    \/ BeginSweep(t) \/ EndSweep(t) \/ Drop(t) \/ BelowCeiling(t) \/ Exhausted(t)

Burns(t) == AdmitFails(t) \/ SweepFails(t) \/ DropFails(t)

LEMMA Recording ==
    ASSUME Typed, NEW e \in Emails
    PROVE  /\ Recorded(e) \in Seq([email : Emails, active : BOOLEAN])
           /\ Len(rows) + 1 \in DOMAIN Recorded(e)
<1>1. [email |-> e, active |-> TRUE] \in [email : Emails, active : BOOLEAN]
  OBVIOUS
<1> QED BY <1>1, Appending DEF Recorded, Typed, Tables

LEMMA ProceedsJobs ==
    ASSUME Typed, Grows, NEW t \in Threads, Proceeds(t)
    PROVE  /\ Jobs' /\ Taken(t) /\ Taken(t)'
           /\ job'[t].link = job[t].link /\ job'[t].read = job[t].read
           /\ \A u \in Threads \ {t} : job'[u] = job[u]
<1>0. PICK i : i = job[t]
  OBVIOUS
<1>1. Sound(i) /\ Jobs
  BY <1>0 DEF Typed, Jobs
<1>2. ASSUME NEW j, job' = [job EXCEPT ![t] = j], Sound(j)', i.at \in Working,
             j.at \in Working, j.link = i.link, j.read = i.read
      PROVE  /\ Jobs' /\ Taken(t) /\ Taken(t)'
             /\ job'[t].link = job[t].link /\ job'[t].read = job[t].read
             /\ \A u \in Threads \ {t} : job'[u] = job[u]
  BY <1>0, <1>1, <1>2, JobsStay DEF Taken
<1> DEFINE Found == \E j : /\ job' = [job EXCEPT ![t] = j] /\ Sound(j)' /\ i.at \in Working
                           /\ j.at \in Working /\ j.link = i.link /\ j.read = i.read
<1>3. ASSUME NEW place \in Working, Goto(t, place), i.at \in Working,
             place \in Drawn => i.at \in Drawn
      PROVE  Found
  <2>1. PICK j : j = [i EXCEPT !.at = place]
    OBVIOUS
  <2>2. Sound(j)
    BY <1>1, <1>3, <2>1, SoundGoto DEF Sound
  <2>3. j.link = i.link /\ j.read = i.read /\ j.at = place
    BY <1>1, <2>1 DEF Sound, JobType
  <2> QED BY <1>0, <1>3, <2>1, <2>2, <2>3, SoundStays DEF Goto
<1>4. ASSUME Retire(t) PROVE Found
  BY <1>0, <1>3, <1>4 DEF Retire, Working, Drawn
<1>5. ASSUME VaultFails(t) PROVE Found
  BY <1>0, <1>3, <1>5 DEF VaultFails, VaultRaises, Working, Drawn
<1>6. ASSUME RefuseRetired(t) \/ Exhausted(t) \/ BelowCeiling(t) PROVE Found
  BY <1>0, <1>3, <1>6 DEF RefuseRetired, Exhausted, BelowCeiling, Working, Drawn
<1>7. ASSUME NEW j, job' = [job EXCEPT ![t] = j], Sound(j),
             i.at \in Working, j.at \in Working, j.link = i.link, j.read = i.read
      PROVE  Found
  BY <1>7, SoundStays
<1>8. ASSUME Record(t) PROVE Found
  <2>1. PICK j : j = [i EXCEPT !.at = "admit", !.psn = Len(rows) + 1]
    OBVIOUS
  <2>2. job' = [job EXCEPT ![t] = j] /\ i.at = "record" /\ rows' = Recorded(i.email)
        /\ UNCHANGED <<now, owner>>
    BY <1>0, <1>8, <2>1 DEF Record, links
  <2>3. i.email = owner[i.link] /\ i.link \in Issued
    BY <1>1, <2>2 DEF Sound, Working
  <2>4. i.email \in Emails
    BY <2>3 DEF Typed, Tables, Issued
  <2>5. Len(rows) + 1 \in DOMAIN rows'
    BY <2>2, <2>4, Recording
  <2>6. Sound(i)'
    BY <1>1, SoundStays
  <2>7. Sound(j)' /\ j.at = "admit" /\ j.link = i.link /\ j.read = i.read
    BY <2>1, <2>2, <2>3, <2>5, <2>6 DEF Sound, JobType, Places, Working, Drawn
  <2> QED BY <2>2, <2>7 DEF Working
<1>9. ASSUME Admit(t) PROVE Found
  <2>1. PICK j : j = [i EXCEPT !.at = "sweep", !.final = FALSE]
    OBVIOUS
  <2>2. job' = [job EXCEPT ![t] = j] /\ i.at = "admit"
    BY <1>0, <1>9, <2>1 DEF Admit
  <2>3. Sound(j) /\ j.at = "sweep" /\ j.link = i.link /\ j.read = i.read
    BY <1>1, <2>1, <2>2 DEF Sound, JobType, Places, Working, Drawn
  <2> QED BY <1>7, <2>2, <2>3 DEF Working
<1>10. ASSUME Redraw(t) PROVE Found
  <2>1. PICK j : j = [i EXCEPT !.at = "retire", !.final = TRUE]
    OBVIOUS
  <2>2. job' = [job EXCEPT ![t] = j] /\ i.at = "admit"
    BY <1>0, <1>10, <2>1 DEF Redraw
  <2>3. Sound(j) /\ j.at = "retire" /\ j.link = i.link /\ j.read = i.read
    BY <1>1, <2>1, <2>2 DEF Sound, JobType, Places, Working, Drawn
  <2> QED BY <1>7, <2>2, <2>3 DEF Working
<1>11. IsFiniteSet(Live) /\ Cardinality(Live) \in Nat
  <2>1. PICK n \in Nat : DOMAIN rows = 1..n
    BY DEF Typed, Tables
  <2>2. IsFiniteSet(1..n) /\ Live \in SUBSET (1..n)
    BY <2>1, FS_Interval DEF Typed, Tables
  <2> QED BY <2>2, FS_Subset, FS_CardinalityType
<1>12. ASSUME BeginSweep(t) PROVE Found
  <2>1. PICK place \in {"check", "scan"} : place = IF Live = {} THEN "check" ELSE "scan"
    OBVIOUS
  <2>2. PICK j : j = [i EXCEPT !.at = place, !.opens = now, !.size = Cardinality(Live)]
    OBVIOUS
  <2>3. job' = [job EXCEPT ![t] = j] /\ i.at = "sweep"
    BY <1>0, <1>12, <2>1, <2>2 DEF BeginSweep
  <2>4. Sound(j) /\ j.at = place /\ j.link = i.link /\ j.read = i.read
    BY <1>1, <1>11, <2>2, <2>3 DEF Sound, JobType, Places, Working, Drawn, Typed, Tables
  <2> QED BY <1>7, <2>3, <2>4 DEF Working
<1>13. ASSUME EndSweep(t) PROVE Found
  <2>1. PICK j : j = [i EXCEPT !.at = "drop", !.size = 0, !.dead = Expired(t)]
    OBVIOUS
  <2>2. job' = [job EXCEPT ![t] = j] /\ i.at = "scan"
    BY <1>0, <1>13, <2>1 DEF EndSweep
  <2>3. Expired(t) \in SUBSET DOMAIN rows
    BY DEF Expired, Typed, Tables
  <2>4. Sound(j) /\ j.at = "drop" /\ j.link = i.link /\ j.read = i.read
    BY <1>1, <2>1, <2>2, <2>3 DEF Sound, JobType, Places, Working, Drawn
  <2> QED BY <1>7, <2>2, <2>4 DEF Working
<1>14. ASSUME Drop(t) PROVE Found
  <2>1. PICK j : j = [i EXCEPT !.at = "check", !.dead = {}]
    OBVIOUS
  <2>2. job' = [job EXCEPT ![t] = j] /\ i.at = "drop"
    BY <1>0, <1>14, <2>1 DEF Drop
  <2>3. Sound(j) /\ j.at = "check" /\ j.link = i.link /\ j.read = i.read
    BY <1>1, <2>1, <2>2 DEF Sound, JobType, Places, Working, Drawn
  <2> QED BY <1>7, <2>2, <2>3 DEF Working
<1>15. Found
  BY <1>4, <1>5, <1>6, <1>8, <1>9, <1>10, <1>12, <1>13, <1>14 DEF Proceeds
<1> QED BY <1>2, <1>15

(* Who is done with its request has nothing in hand.                       *)
LEMMA FinishJobs ==
    ASSUME Typed, Grows, NEW t \in Threads, Finish(t)
    PROVE  /\ Jobs' /\ job'[t] = Idle /\ ~Taken(t)' /\ job'[t].at = "idle"
           /\ \A u \in Threads \ {t} : job'[u] = job[u]
<1>1. Sound(Idle)'
  BY SoundIdle, SoundStays DEF Typed
<1>2. job' = [job EXCEPT ![t] = Idle] /\ Idle.at = "idle"
  BY DEF Finish, Idle
<1>3. Jobs' /\ job'[t] = Idle /\ \A u \in Threads \ {t} : job'[u] = job[u]
  BY <1>1, <1>2, JobsStay DEF Typed
<1> QED BY <1>2, <1>3 DEF Taken, Working

LEMMA AskJobs ==
    ASSUME Typed, Grows, NEW t \in Threads, NEW e \in Emails, Ask(t, e)
    PROVE  /\ Jobs' /\ ~Taken(t) /\ ~Taken(t)' /\ job[t].at = "idle"
           /\ job'[t].at = "ask" /\ job'[t].read = now
           /\ \A u \in Threads \ {t} : job'[u] = job[u]
<1>0. PICK i : i = Idle
  OBVIOUS
<1>1. PICK j : j = [i EXCEPT !.at = "ask", !.email = e, !.read = now]
  OBVIOUS
<1>a. Sound(i) /\ i.link = 0
  BY <1>0, SoundIdle DEF Typed, Idle
<1>b. now \in 0..MaxTime /\ now <= now
  BY LimitAssumption DEF Typed, Tables
<1>2. job' = [job EXCEPT ![t] = j] /\ job[t].at = "idle"
  BY <1>0, <1>1 DEF Ask
<1>3. Sound(j) /\ j.at = "ask" /\ j.read = now
  BY <1>1, <1>a, <1>b DEF Sound, JobType, Places, Working, Drawn
<1>4. Jobs' /\ job'[t] = j /\ \A u \in Threads \ {t} : job'[u] = job[u]
  BY <1>2, <1>3, SoundStays, JobsStay DEF Typed
<1> QED BY <1>2, <1>3, <1>4 DEF Taken, Working

LEMMA RedeemJobs ==
    ASSUME Typed, Grows, NEW t \in Threads, NEW l \in Issued, Redeem(t, l)
    PROVE  /\ Jobs' /\ ~Taken(t) /\ ~Taken(t)' /\ job[t].at = "idle" /\ job'[t].at = "redeem"
           /\ \A u \in Threads \ {t} : job'[u] = job[u]
<1>0. PICK i : i = Idle
  OBVIOUS
<1>1. PICK j : j = [i EXCEPT !.at = "redeem", !.link = l, !.read = now]
  OBVIOUS
<1>a. Sound(i) /\ i.link = 0
  BY <1>0, SoundIdle DEF Typed, Idle
<1>b. now \in 0..MaxTime /\ now <= now
  BY LimitAssumption DEF Typed, Tables
<1>2. job' = [job EXCEPT ![t] = j] /\ job[t].at = "idle"
  BY <1>0, <1>1 DEF Redeem
<1>3. Sound(j) /\ j.at = "redeem"
  BY <1>1, <1>a, <1>b DEF Sound, JobType, Places, Working, Drawn
<1>4. Jobs' /\ job'[t] = j /\ \A u \in Threads \ {t} : job'[u] = job[u]
  BY <1>2, <1>3, SoundStays, JobsStay DEF Typed
<1> QED BY <1>2, <1>3, <1>4 DEF Taken, Working

LEMMA ConsumeJobs ==
    ASSUME Typed, Grows, NEW t \in Threads, Consume(t)
    PROVE  /\ Jobs' /\ ~Taken(t) /\ Taken(t)' /\ job[t].at = "redeem"
           /\ job'[t].at = "retire" /\ job[t].link \in Issued
           /\ job'[t].link = job[t].link /\ job'[t].read = job[t].read
           /\ job[t].read \in 0..MaxTime
           /\ \A u \in Threads \ {t} : job'[u] = job[u]
<1>0. PICK i : i = job[t]
  OBVIOUS
<1>1. Sound(i)
  BY <1>0 DEF Typed, Jobs
<1>2. PICK j : j = [i EXCEPT !.at = "retire", !.email = owner[i.link]]
  OBVIOUS
<1>3. job' = [job EXCEPT ![t] = j] /\ i.at = "redeem"
  BY <1>0, <1>2 DEF Consume
<1>4. i.link \in Issued /\ owner[i.link] \in Emails /\ i.read \in 0..MaxTime
  BY <1>1, <1>3 DEF Sound, JobType, Typed, Tables, Issued
<1>5. Sound(j) /\ j.at = "retire" /\ j.link = i.link /\ j.read = i.read
  BY <1>1, <1>2, <1>3, <1>4 DEF Sound, JobType, Places, Working, Drawn
<1>6. Jobs' /\ job'[t] = j /\ \A u \in Threads \ {t} : job'[u] = job[u]
  BY <1>3, <1>5, SoundStays, JobsStay DEF Typed
<1> QED BY <1>0, <1>3, <1>4, <1>5, <1>6 DEF Taken, Working

(* The steps that touch no thread.                                         *)
Elsewhere == Tick \/ UNCHANGED vars \/ \E p \in Live : SignOut(p) \/ LookUp(p)

LEMMA ElsewhereJobs ==
    ASSUME Typed, Grows, Elsewhere
    PROVE  /\ Jobs' /\ UNCHANGED <<job, owner, pending, rows, opened, broken>>
<1>1. UNCHANGED <<job, owner, pending, rows, opened, broken>>
  BY DEF Elsewhere, Tick, SignOut, LookUp, vars, links, history
<1>2. ASSUME NEW t \in Threads PROVE Sound(job[t])'
  <2>1. PICK i : i = job[t]
    OBVIOUS
  <2>2. Sound(i)'
    BY <2>1, SoundStays DEF Typed, Jobs
  <2> QED BY <1>1, <2>1, <2>2 DEF Sound, JobType
<1> QED BY <1>1, <1>2 DEF Jobs, Typed

(* Every step is one of these.                                             *)
LEMMA Cases ==
    [Next]_vars =>
        \/ Elsewhere
        \/ \E t \in Threads, e \in Emails : Ask(t, e)
        \/ \E t \in Threads, l \in Issued : Redeem(t, l)
        \/ \E t \in Threads :
              \/ Issue(t) \/ Throttle(t) \/ Consume(t) \/ RefuseLink(t)
              \/ Proceeds(t) \/ Burns(t) \/ Insert(t) \/ Rearm(t)
BY DEF Next, Elsewhere, Proceeds, Burns

LEMMA BurnsFinish == ASSUME NEW t, Burns(t)
                     PROVE  /\ Finish(t) /\ broken' = broken \cup {job[t].link}
                            /\ UNCHANGED <<owner, pending, rows, opened>>
BY DEF Burns, AdmitFails, SweepFails, DropFails, Burn, links

LEMMA JobsStep == Typed /\ [Next]_vars => Jobs'
<1> SUFFICES ASSUME Typed, [Next]_vars PROVE Jobs'
  OBVIOUS
<1>1. Grows
  BY Growing
<1>2. ASSUME NEW t \in Threads, Finish(t) PROVE Jobs'
  BY <1>1, <1>2, FinishJobs
<1>3. ASSUME NEW t \in Threads,
             Issue(t) \/ Throttle(t) \/ RefuseLink(t) \/ Burns(t) \/ Insert(t) \/ Rearm(t)
      PROVE  Jobs'
  BY <1>2, <1>3, BurnsFinish DEF Issue, Throttle, RefuseLink, Insert, Rearm
<1>4. ASSUME NEW t \in Threads, Consume(t) \/ Proceeds(t) PROVE Jobs'
  BY <1>1, <1>4, ConsumeJobs, ProceedsJobs
<1>5. ASSUME NEW t \in Threads, NEW e \in Emails, Ask(t, e) PROVE Jobs'
  BY <1>1, <1>5, AskJobs
<1>6. ASSUME NEW t \in Threads, NEW l \in Issued, Redeem(t, l) PROVE Jobs'
  BY <1>1, <1>6, RedeemJobs
<1>7. CASE Elsewhere
  BY <1>1, <1>7, ElsewhereJobs
<1> QED BY <1>3, <1>4, <1>5, <1>6, <1>7, Cases

-----------------------------------------------------------------------------
(* One lemma for each table: what Tables says of it.                       *)
PendingOK == /\ DOMAIN pending \subseteq Issued
             /\ \A l \in DOMAIN pending : pending[l] \in Link

LEMMA PendingStep == Typed /\ [Next]_vars => PendingOK'
<1> SUFFICES ASSUME Typed, [Next]_vars PROVE PendingOK'
  OBVIOUS
<1>0. Grows /\ PendingOK
  BY Growing DEF Typed, Tables, PendingOK
<1>1. Issued \subseteq Issued'
  BY <1>0 DEF Grows, Issued
<1>2. ASSUME DOMAIN pending' \subseteq DOMAIN pending,
             \A l \in DOMAIN pending' : pending'[l] = pending[l]
      PROVE  PendingOK'
  BY <1>0, <1>1, <1>2 DEF PendingOK, Link
<1>3. ASSUME NEW t \in Threads, Issue(t) PROVE PendingOK'
  <2>1. PICK i : i = job[t]
    OBVIOUS
  <2>2. i.at = "ask" /\ i.email \in Emails /\ i.read \in 0..MaxTime
    BY <1>3, <2>1 DEF Issue, Typed, Jobs, Sound, JobType
  <2>3. PICK new : new = Len(owner) + 1
    OBVIOUS
  <2>4. new \in Issued' /\ new \notin Issued
    BY <1>3, <2>1, <2>2, <2>3, Appending DEF Issue, Issued, Typed, Tables
  <2>5. PICK fresh : fresh = [expires |-> i.read + LinkTtl, used |-> Unused]
    OBVIOUS
  <2>6. fresh \in Link
    BY <2>2, <2>5, LimitAssumption DEF Link
  <2>7. pending' = [l \in DOMAIN Kept(t) \cup {new} |-> IF l = new THEN fresh ELSE pending[l]]
    BY <1>3, <2>1, <2>3, <2>5 DEF Issue
  <2>8. \A l \in DOMAIN Kept(t) : l \in Issued /\ pending[l] \in Link
    BY <1>0, Keeping DEF PendingOK
  <2> QED BY <1>1, <2>4, <2>6, <2>7, <2>8 DEF PendingOK, Link
<1>4. ASSUME NEW t \in Threads, Throttle(t) PROVE PendingOK'
  BY <1>2, <1>4, Keeping DEF Throttle
<1>5. ASSUME NEW l, NEW u \in 0..MaxTime \cup {Unused},
             pending' = [pending EXCEPT ![l].used = u]
      PROVE  PendingOK'
  <2>1. DOMAIN pending' = DOMAIN pending
    BY <1>5
  <2>2. ASSUME NEW k \in DOMAIN pending PROVE pending'[k] \in Link
    <3>1. PICK e : e = pending[k]
      OBVIOUS
    <3>2. pending'[k] = e \/ pending'[k] = [e EXCEPT !.used = u]
      BY <1>5, <2>2, <3>1
    <3>3. e \in Link
      BY <1>0, <2>2, <3>1 DEF PendingOK
    <3> QED BY <3>2, <3>3 DEF Link
  <2> QED BY <1>0, <1>1, <2>1, <2>2 DEF PendingOK, Link
<1>6. ASSUME NEW t \in Threads, Consume(t) PROVE PendingOK'
  BY <1>0, <1>5, <1>6, ConsumeJobs DEF Consume
<1>7. ASSUME NEW t \in Threads, Rearm(t) PROVE PendingOK'
  BY <1>2, <1>5, <1>7 DEF Rearm
<1>8. ASSUME NEW t \in Threads, RefuseLink(t) \/ Proceeds(t) \/ Burns(t) \/ Insert(t)
      PROVE  PendingOK'
  <2>1. pending' = pending
    BY <1>8 DEF RefuseLink, Insert, Proceeds, Burns, Retire, Record, VaultFails, VaultRaises,
       Admit, Redraw, RefuseRetired, BeginSweep, EndSweep, Drop, BelowCeiling, Exhausted,
       AdmitFails, SweepFails, DropFails, links
  <2> QED BY <1>2, <2>1
<1>9. ASSUME \/ Elsewhere
             \/ \E t \in Threads, e \in Emails : Ask(t, e)
             \/ \E t \in Threads, l \in Issued : Redeem(t, l)
      PROVE  PendingOK'
  <2>1. pending' = pending
    BY <1>9 DEF Ask, Redeem, Elsewhere, Tick, SignOut, LookUp, vars, links
  <2> QED BY <1>2, <2>1
<1> QED BY <1>3, <1>4, <1>6, <1>7, <1>8, <1>9, Cases

VaultOK == rows \in Seq([email : Emails, active : BOOLEAN])

LEMMA VaultStep == Typed /\ [Next]_vars => VaultOK'
<1> SUFFICES ASSUME Typed, [Next]_vars PROVE VaultOK'
  OBVIOUS
<1>0. VaultOK
  BY DEF Typed, Tables, VaultOK
<1>1. ASSUME NEW t \in Threads, Retire(t) \/ Record(t) \/ VaultFails(t) PROVE VaultOK'
  <2>1. \/ rows' = rows \/ rows' = Retired(job[t].email)
        \/ job[t].at = "record" /\ rows' = Recorded(job[t].email)
    BY <1>1 DEF Retire, Record, VaultFails, VaultRaises
  <2>2. job[t].at = "record" => job[t].email \in Emails
    BY DEF Typed, Tables, Jobs, Sound, Working, Issued
  <2> QED BY <1>0, <2>1, <2>2, Retiring, Recording DEF VaultOK
<1>2. ASSUME rows' = rows PROVE VaultOK'
  BY <1>0, <1>2 DEF VaultOK
<1> QED BY <1>1, <1>2
        DEF Next, Tick, Ask, Redeem, Issue, Throttle, Consume, RefuseLink, Admit, AdmitFails,
            Redraw, RefuseRetired, BeginSweep, EndSweep, SweepFails, Drop, DropFails,
            BelowCeiling, Exhausted, Insert, Rearm, SignOut, LookUp, vars

SessionsOK == /\ Live \subseteq DOMAIN rows
              /\ \A p \in Live : sessions[p] \in SessionTtl..(MaxTime + SessionTtl)

LEMMA SessionsStep == Typed /\ [Next]_vars => SessionsOK'
<1> SUFFICES ASSUME Typed, [Next]_vars PROVE SessionsOK'
  OBVIOUS
<1>0. Grows /\ SessionsOK
  BY Growing DEF Typed, Tables, SessionsOK
<1>1. ASSUME Live' \subseteq Live, \A p \in Live' : sessions'[p] = sessions[p]
      PROVE  SessionsOK'
  BY <1>0, <1>1 DEF Grows, SessionsOK
<1>2. ASSUME NEW S, S \subseteq Live, sessions' = Restrict(sessions, S)
      PROVE  SessionsOK'
  BY <1>1, <1>2, Restricting DEF Live
<1>3. ASSUME NEW t \in Threads, Drop(t) \/ DropFails(t) PROVE SessionsOK'
  BY <1>2, <1>3 DEF Drop, DropFails
<1>4. ASSUME NEW p \in Live, SignOut(p) \/ LookUp(p) PROVE SessionsOK'
  BY <1>2, <1>4 DEF SignOut, LookUp
<1>5. ASSUME NEW t \in Threads, Insert(t) PROVE SessionsOK'
  <2>1. PICK i : i = job[t]
    OBVIOUS
  <2>2. i.psn \in DOMAIN rows /\ i.opens \in 0..MaxTime
    BY <1>5, <2>1 DEF Insert, Typed, Jobs, Sound, JobType, Drawn
  <2>3. /\ Live' = Live \cup {i.psn}
        /\ \A p \in Live' : sessions'[p] = IF p = i.psn THEN i.opens + SessionTtl ELSE sessions[p]
    BY <1>5, <2>1 DEF Insert, Live
  <2>4. i.opens + SessionTtl \in SessionTtl..(MaxTime + SessionTtl)
    BY <2>2, LimitAssumption
  <2> QED BY <1>0, <2>2, <2>3, <2>4 DEF Grows, SessionsOK
<1>6. ASSUME sessions' = sessions PROVE SessionsOK'
  BY <1>1, <1>6 DEF Live
<1> QED BY <1>3, <1>4, <1>5, <1>6
        DEF Next, Tick, Ask, Redeem, Issue, Throttle, Consume, RefuseLink, Retire, Record,
            VaultFails, VaultRaises, Admit, AdmitFails, Redraw, RefuseRetired, BeginSweep,
            EndSweep, SweepFails, BelowCeiling, Exhausted, Rearm, vars

HistoryOK == opened \in [1..MaxLinks -> Nat] /\ broken \subseteq Issued

LEMMA LinkRoom == Typed => Issued \subseteq 1..MaxLinks
<1> SUFFICES ASSUME Typed PROVE Issued \subseteq 1..MaxLinks
  OBVIOUS
<1>1. IsFiniteSet(Asking)
  BY ThreadAssumption, FS_Subset DEF Asking
<1>2. Cardinality(Asking) \in Nat
  BY <1>1, FS_CardinalityType
<1> QED BY <1>2, LimitAssumption DEF Typed, AskRoom, Tables, Issued

LEMMA HistoryStep == Typed /\ [Next]_vars => HistoryOK'
<1> SUFFICES ASSUME Typed, [Next]_vars PROVE HistoryOK'
  OBVIOUS
<1>0. Grows /\ HistoryOK
  BY Growing DEF Typed, Tables, HistoryOK
<1>1. Issued \subseteq Issued'
  BY <1>0 DEF Grows, Issued
<1>2. ASSUME NEW t \in Threads, Burns(t) PROVE HistoryOK'
  <2>1. job[t].link \in Issued
    BY <1>2 DEF Burns, AdmitFails, SweepFails, DropFails, Typed, Jobs, Sound
  <2> QED BY <1>0, <1>1, <1>2, <2>1, BurnsFinish DEF HistoryOK
<1>3. ASSUME NEW t \in Threads, Insert(t) PROVE HistoryOK'
  <2>1. job[t].link \in 1..MaxLinks
    BY <1>3, LinkRoom DEF Insert, Typed, Jobs, Sound
  <2>2. opened' = [opened EXCEPT ![job[t].link] = @ + 1] /\ broken' = broken
    BY <1>3 DEF Insert
  <2> QED BY <1>0, <1>1, <2>1, <2>2 DEF HistoryOK
<1>4. ASSUME UNCHANGED history PROVE HistoryOK'
  BY <1>0, <1>1, <1>4 DEF HistoryOK, history
<1>5. ASSUME NEW t \in Threads,
             \/ Issue(t) \/ Throttle(t) \/ Consume(t) \/ RefuseLink(t)
             \/ Proceeds(t) \/ Rearm(t)
      PROVE  UNCHANGED history
  BY <1>5 DEF Issue, Throttle, Consume, RefuseLink, Rearm, Proceeds, Retire, Record,
     VaultFails, VaultRaises, Admit, Redraw, RefuseRetired, BeginSweep, EndSweep, Drop,
     BelowCeiling, Exhausted
<1>6. ASSUME \/ Elsewhere
             \/ \E t \in Threads, e \in Emails : Ask(t, e)
             \/ \E t \in Threads, l \in Issued : Redeem(t, l)
      PROVE  UNCHANGED history
  BY <1>6 DEF Ask, Redeem, Elsewhere, Tick, SignOut, LookUp, vars
<1> QED BY <1>2, <1>3, <1>4, <1>5, <1>6, Cases

CountersOK == now \in 0..MaxTime /\ failures \in 0..MaxFailures

LEMMA CountersStep == Typed /\ [Next]_vars => CountersOK'
<1> SUFFICES ASSUME Typed, [Next]_vars PROVE CountersOK'
  OBVIOUS
<1>0. CountersOK
  BY DEF Typed, Tables, CountersOK
<1>1. ASSUME now' = now \/ (now < MaxTime /\ now' = now + 1),
             failures' = failures \/ (failures < MaxFailures /\ failures' = failures + 1)
      PROVE  CountersOK'
  BY <1>0, <1>1, LimitAssumption DEF CountersOK
<1> QED BY <1>1
        DEF Next, Tick, Ask, Redeem, Issue, Throttle, Consume, RefuseLink, Retire, Record,
            VaultFails, VaultRaises, Admit, AdmitFails, Redraw, RefuseRetired, BeginSweep,
            EndSweep, SweepFails, Drop, DropFails, BelowCeiling, Exhausted, Insert, Rearm,
            SignOut, LookUp, vars

(* Two finite sets that differ in r alone.                                 *)
LEMMA Counted ==
    ASSUME NEW S, NEW T, NEW r, IsFiniteSet(S), T \ {r} = S \ {r}
    PROVE  /\ IsFiniteSet(T) /\ Cardinality(S) \in Nat /\ Cardinality(T) \in Nat
           /\ Cardinality(T) + (IF r \in S THEN 1 ELSE 0)
                = Cardinality(S) + (IF r \in T THEN 1 ELSE 0)
<1>1. IsFiniteSet(S \ {r})
      /\ Cardinality(S \ {r}) = IF r \in S THEN Cardinality(S) - 1 ELSE Cardinality(S)
  BY FS_RemoveElement
<1>2. Cardinality(S) \in Nat
  BY FS_CardinalityType
<1>3. T = (IF r \in T THEN (S \ {r}) \cup {r} ELSE S \ {r})
  OBVIOUS
<1>4. IsFiniteSet(T)
  BY <1>1, <1>3, FS_AddElement
<1>5. Cardinality(T \ {r}) = IF r \in T THEN Cardinality(T) - 1 ELSE Cardinality(T)
  BY <1>4, FS_RemoveElement
<1>6. Cardinality(T) \in Nat
  BY <1>4, FS_CardinalityType
<1> QED BY <1>1, <1>2, <1>4, <1>5, <1>6

(* A step of t alone takes it to a place or away from it.                  *)
LEMMA PlaceCount ==
    ASSUME NEW t \in Threads, NEW place, \A u \in Threads \ {t} : job'[u] = job[u]
    PROVE  LET here == {u \in Threads : job[u].at = place}
           IN  /\ Cardinality(here) \in Nat /\ Cardinality(here') \in Nat
               /\ Cardinality(here') + (IF job[t].at = place THEN 1 ELSE 0)
                    = Cardinality(here) + (IF job'[t].at = place THEN 1 ELSE 0)
<1> DEFINE here == {u \in Threads : job[u].at = place}
<1>1. IsFiniteSet(here) /\ here' \ {t} = here \ {t}
  BY ThreadAssumption, FS_Subset
<1>2. (t \in here <=> job[t].at = place) /\ (t \in here' <=> job'[t].at = place)
  OBVIOUS
<1> QED BY <1>1, <1>2, Counted

LEMMA AskRoomStep == Typed /\ [Next]_vars => AskRoom'
<1> SUFFICES ASSUME Typed, [Next]_vars PROVE AskRoom'
  OBVIOUS
<1>0. Grows /\ AskRoom /\ Len(owner) \in Nat /\ Len(owner') \in Nat
  BY Growing DEF Typed, Grows
<1>1. ASSUME NEW t \in Threads, \A u \in Threads \ {t} : job'[u] = job[u]
      PROVE  /\ Cardinality(Asking) \in Nat /\ Cardinality(Asking') \in Nat
             /\ Cardinality(Asking') + (IF job[t].at = "ask" THEN 1 ELSE 0)
                  = Cardinality(Asking) + (IF job'[t].at = "ask" THEN 1 ELSE 0)
  BY <1>1, PlaceCount DEF Asking
<1>2. ASSUME NEW t \in Threads, \A u \in Threads \ {t} : job'[u] = job[u],
             owner' = owner, job'[t].at # "ask"
      PROVE  AskRoom'
  <2>1. Cardinality(Asking) \in Nat /\ Cardinality(Asking') \in Nat
        /\ Cardinality(Asking') <= Cardinality(Asking)
    BY <1>1, <1>2
  <2> QED BY <1>0, <1>2, <2>1, LimitAssumption DEF AskRoom
<1>3. ASSUME NEW t \in Threads, NEW e \in Emails, Ask(t, e) PROVE AskRoom'
  <2>1. owner' = owner /\ job[t].at = "idle" /\ Len(owner) + Cardinality(Asking) < MaxLinks
        /\ \A u \in Threads \ {t} : job'[u] = job[u]
    BY <1>0, <1>3, AskJobs DEF Ask, links, Asking
  <2> QED BY <1>0, <1>1, <2>1, LimitAssumption DEF AskRoom
<1>4. ASSUME NEW t \in Threads, NEW l \in Issued, Redeem(t, l) PROVE AskRoom'
  BY <1>0, <1>2, <1>4, RedeemJobs DEF Redeem, links
<1>5. ASSUME NEW t \in Threads, Issue(t) PROVE AskRoom'
  <2>1. /\ job[t].at = "ask" /\ job'[t].at # "ask" /\ \A u \in Threads \ {t} : job'[u] = job[u]
    BY <1>0, <1>5, FinishJobs DEF Issue
  <2>2. Len(owner') = Len(owner) + 1
    BY <1>5, Appending DEF Issue, Typed, Tables, Jobs, Sound
  <2> QED BY <1>0, <1>1, <2>1, <2>2, LimitAssumption DEF AskRoom
<1>6. ASSUME NEW t \in Threads, Throttle(t) \/ RefuseLink(t) \/ Burns(t) \/ Insert(t) \/ Rearm(t)
      PROVE  AskRoom'
  <2>1. Finish(t) /\ owner' = owner
    BY <1>6, BurnsFinish DEF Throttle, RefuseLink, Insert, Rearm, links
  <2> QED BY <1>0, <1>2, <2>1, FinishJobs
<1>7. ASSUME NEW t \in Threads, Proceeds(t) PROVE AskRoom'
  <2>1. owner' = owner
    BY <1>7 DEF Proceeds, Retire, Record, VaultFails, VaultRaises, Admit, Redraw,
       RefuseRetired, BeginSweep, EndSweep, Drop, BelowCeiling, Exhausted, links
  <2> QED BY <1>0, <1>2, <1>7, <2>1, ProceedsJobs DEF Taken, Working
<1>8. ASSUME NEW t \in Threads, Consume(t) PROVE AskRoom'
  BY <1>0, <1>2, <1>8, ConsumeJobs DEF Consume
<1>9. CASE Elsewhere
  BY <1>0, <1>9, ElsewhereJobs DEF AskRoom, Asking
<1> QED BY <1>3, <1>4, <1>5, <1>6, <1>7, <1>8, <1>9, Cases

LEMMA TypedInit == Init => Typed
<1> SUFFICES ASSUME Init PROVE Typed
  OBVIOUS
<1>1. Tables
  <2>1. <<>> \in Seq(Emails) /\ <<>> \in Seq([email : Emails, active : BOOLEAN])
        /\ DOMAIN <<>> = {}
    OBVIOUS
  <2> QED BY <2>1, LimitAssumption DEF Init, Tables, Live
<1>2. Jobs
  BY <1>1, SoundIdle DEF Init, Jobs
<1>3. Asking = {} /\ Len(owner) = 0
  BY DEF Init, Asking, Idle
<1>4. AskRoom
  BY <1>3, FS_EmptySet, LimitAssumption DEF AskRoom
<1> QED BY <1>1, <1>2, <1>4 DEF Typed

LEMMA TypedStep == Typed /\ [Next]_vars => Typed'
<1> SUFFICES ASSUME Typed, [Next]_vars PROVE Typed'
  OBVIOUS
<1>1. Grows /\ PendingOK' /\ VaultOK' /\ SessionsOK' /\ HistoryOK' /\ CountersOK'
  BY Growing, PendingStep, VaultStep, SessionsStep, HistoryStep, CountersStep
<1>2. Tables'
  BY <1>1 DEF Grows, Tables, PendingOK, VaultOK, SessionsOK, HistoryOK, CountersOK
<1> QED BY <1>2, JobsStep, AskRoomStep DEF Typed

LEMMA AlwaysTyped == Spec => []Typed
BY TypedInit, TypedStep, PTL DEF Spec

(* However requests, redemptions, sign-outs and failures interleave, what  *)
(* the tables hold was issued, a session is about a pseudonym the vault    *)
(* knows, and each thread has in hand what its place calls for.            *)
THEOREM TypeCorrect == Spec => []TypeOK
<1>1. Typed => TypeOK
  <2> SUFFICES ASSUME Typed PROVE TypeOK
    OBVIOUS
  <2>1. \A t \in Threads : job[t] \in JobType
    BY DEF Typed, Jobs, Sound
  <2>2. job \in [Threads -> JobType]
    BY <2>1 DEF Typed, Jobs
  <2>3. Len(owner) <= MaxLinks
    <3>1. IsFiniteSet(Asking)
      BY ThreadAssumption, FS_Subset DEF Asking
    <3>2. Cardinality(Asking) \in Nat
      BY <3>1, FS_CardinalityType
    <3> QED BY <3>2, LimitAssumption DEF Typed, AskRoom, Tables
  <2> QED BY <2>2, <2>3 DEF Typed, Tables, TypeOK, JobType, Link
<1> QED BY AlwaysTyped, <1>1, PTL

-----------------------------------------------------------------------------
(* The redemption that consumed a link is alone with it until it ends: the *)
(* table shows the link used, at the time it read, and the link has opened *)
(* nothing yet.                                                            *)
OneTaker == \A t, u \in Threads : Taken(t) /\ Taken(u) /\ job[t].link = job[u].link => t = u

Unopened == \A t \in Threads : Taken(t) => opened[job[t].link] = 0

Marked == \A t \in Threads : Taken(t) /\ job[t].link \in DOMAIN pending
                                => pending[job[t].link].used = job[t].read

OpenedOnce == \A l \in 1..MaxLinks : opened[l] <= 1 /\ (l \notin Issued => opened[l] = 0)

OpenedUsed == \A l \in DOMAIN pending : opened[l] > 0 => pending[l].used # Unused

LinksInv == OneTaker /\ Unopened /\ Marked /\ OpenedOnce /\ OpenedUsed

LEMMA TakenLink ==
    ASSUME Typed, NEW t \in Threads, Taken(t)
    PROVE  /\ job[t].link \in Issued /\ job[t].link \in 1..MaxLinks
           /\ job[t].read \in 0..MaxTime /\ job[t].read # Unused
<1>1. job[t].link \in Issued /\ job[t].read \in 0..MaxTime
  BY DEF Typed, Jobs, Sound, JobType, Taken, Working
<1> QED BY <1>1, LinkRoom DEF Unused

LEMMA LinksCalm ==
    ASSUME Typed, LinksInv, Grows,
           DOMAIN pending' \subseteq DOMAIN pending,
           \A l \in DOMAIN pending' : pending'[l].used = pending[l].used,
           opened' = opened,
           \A t \in Threads : Taken(t)' => /\ Taken(t)
                                           /\ job'[t].link = job[t].link
                                           /\ job'[t].read = job[t].read
    PROVE  LinksInv'
<1>1. Issued \subseteq Issued'
  BY DEF Grows, Issued
<1>2. OneTaker'
  BY DEF LinksInv, OneTaker
<1>3. Unopened'
  BY DEF LinksInv, Unopened
<1>4. Marked'
  BY DEF LinksInv, Marked
<1>5. OpenedOnce' /\ OpenedUsed'
  BY <1>1 DEF LinksInv, OpenedOnce, OpenedUsed
<1> QED BY <1>2, <1>3, <1>4, <1>5 DEF LinksInv

LEMMA IssueNew ==
    ASSUME Typed, NEW t \in Threads, Issue(t)
    PROVE  /\ Len(owner) + 1 \in 1..MaxLinks
           /\ Len(owner) + 1 \notin Issued
           /\ Issued' = Issued \cup {Len(owner) + 1}
           /\ owner'[Len(owner) + 1] = job[t].email
           /\ \A l \in Issued : owner'[l] = owner[l]
<1>1. t \in Asking /\ IsFiniteSet(Asking)
  BY ThreadAssumption, FS_Subset DEF Asking, Issue
<1>2. Cardinality(Asking) \in Nat /\ Cardinality(Asking) # 0
  BY <1>1, FS_CardinalityType, FS_EmptySet
<1>3. Len(owner) \in Nat /\ Len(owner) + 1 <= MaxLinks
  BY <1>2, LimitAssumption DEF Typed, AskRoom, Tables
<1>4. job[t].email \in Emails /\ owner' = Append(owner, job[t].email)
  BY DEF Issue, Typed, Jobs, Sound
<1>5. /\ Len(owner') = Len(owner) + 1 /\ owner'[Len(owner) + 1] = job[t].email
      /\ \A l \in 1..Len(owner) : owner'[l] = owner[l]
  BY <1>4, Appending DEF Typed, Tables
<1> QED BY <1>3, <1>5, LimitAssumption DEF Issued

LEMMA IssueTable ==
    ASSUME Typed, NEW t \in Threads, Issue(t)
    PROVE  /\ DOMAIN pending' = DOMAIN Kept(t) \cup {Len(owner) + 1}
           /\ pending'[Len(owner) + 1].used = Unused
           /\ pending'[Len(owner) + 1].expires = job[t].read + LinkTtl
           /\ \A l \in DOMAIN Kept(t) : l # Len(owner) + 1 /\ pending'[l] = pending[l]
<1>1. \A l \in DOMAIN Kept(t) : l \in Issued
  BY Keeping DEF Typed, Tables
<1> QED BY <1>1, IssueNew DEF Issue

LEMMA LinksStep == Typed /\ LinksInv /\ [Next]_vars => LinksInv'
<1> SUFFICES ASSUME Typed, LinksInv, [Next]_vars PROVE LinksInv'
  OBVIOUS
<1>0. Grows
  BY Growing
<1>1. ASSUME NEW t \in Threads, Issue(t) PROVE LinksInv'
  <2>1. ~Taken(t)' /\ \A u \in Threads \ {t} : job'[u] = job[u]
    BY <1>0, <1>1, FinishJobs DEF Issue
  <2>2. opened' = opened
    BY <1>1 DEF Issue, history
  <2>3. PICK new : new = Len(owner) + 1
    OBVIOUS
  <2>4. /\ DOMAIN pending' = DOMAIN Kept(t) \cup {new} /\ pending'[new].used = Unused
        /\ \A l \in DOMAIN Kept(t) : l \in DOMAIN pending /\ l # new /\ pending'[l] = pending[l]
    BY <1>1, <2>3, IssueTable, Keeping
  <2>5. new \in 1..MaxLinks /\ new \notin Issued /\ Issued' = Issued \cup {new}
    BY <1>1, <2>3, IssueNew
  <2>6. OneTaker' /\ Unopened'
    BY <2>1, <2>2 DEF LinksInv, OneTaker, Unopened, Taken
  <2>7. Marked'
    <3> SUFFICES ASSUME NEW u \in Threads, Taken(u)', job'[u].link \in DOMAIN pending'
                 PROVE  pending'[job'[u].link].used = job'[u].read
      BY DEF Marked
    <3>1. u # t /\ job'[u] = job[u] /\ Taken(u)
      BY <2>1 DEF Taken
    <3>2. job[u].link \in Issued
      BY <3>1, TakenLink
    <3> QED BY <2>4, <2>5, <3>1, <3>2 DEF LinksInv, Marked
  <2>8. OpenedOnce' /\ OpenedUsed'
    BY <2>2, <2>4, <2>5 DEF LinksInv, OpenedOnce, OpenedUsed
  <2> QED BY <2>6, <2>7, <2>8 DEF LinksInv
<1>2. ASSUME NEW t \in Threads, Consume(t) PROVE LinksInv'
  <2>1. PICK i : i = job[t]
    OBVIOUS
  <2>2. /\ i.link \in DOMAIN pending /\ pending[i.link].used = Unused
        /\ pending' = [pending EXCEPT ![i.link].used = i.read]
        /\ owner' = owner /\ opened' = opened
    BY <1>2, <2>1 DEF Consume, Usable, Known, history
  <2>3. /\ ~Taken(t) /\ i.link \in Issued /\ i.read \in 0..MaxTime
        /\ job'[t].link = i.link /\ job'[t].read = i.read
        /\ \A u \in Threads \ {t} : job'[u] = job[u]
    BY <1>0, <1>2, <2>1, ConsumeJobs
  <2>4. /\ DOMAIN pending' = DOMAIN pending /\ pending'[i.link].used = i.read
        /\ \A l \in DOMAIN pending \ {i.link} : pending'[l] = pending[l]
    BY <2>2, Typed DEF Typed, Tables, Link
  <2>5. i.link \in 1..MaxLinks /\ opened[i.link] = 0
    <3>1. i.link \in 1..MaxLinks
      BY <2>3, LinkRoom
    <3>2. opened[i.link] \in Nat /\ ~(opened[i.link] > 0)
      BY <2>2, <3>1 DEF LinksInv, OpenedUsed, Typed, Tables
    <3> QED BY <3>1, <3>2
  <2>6. \A u \in Threads \ {t} : Taken(u) => job[u].link # i.link
    BY <2>2, TakenLink DEF LinksInv, Marked
  <2>7. \A u \in Threads \ {t} : Taken(u)' => Taken(u)
    BY <2>3 DEF Taken
  <2>8. OneTaker' /\ Unopened'
    BY <2>2, <2>3, <2>5, <2>6, <2>7 DEF LinksInv, OneTaker, Unopened
  <2>9. Marked'
    <3> SUFFICES ASSUME NEW u \in Threads, Taken(u)', job'[u].link \in DOMAIN pending'
                 PROVE  pending'[job'[u].link].used = job'[u].read
      BY DEF Marked
    <3>1. CASE u = t
      BY <2>3, <2>4, <3>1
    <3>2. CASE u # t
      <4>1. Taken(u) /\ job'[u] = job[u] /\ job[u].link # i.link
        BY <2>3, <2>6, <2>7, <3>2
      <4> QED BY <2>4, <4>1 DEF LinksInv, Marked
    <3> QED BY <3>1, <3>2
  <2>10. OpenedOnce' /\ OpenedUsed'
    BY <2>2, <2>4, <2>5 DEF LinksInv, OpenedOnce, OpenedUsed, Issued
  <2> QED BY <2>8, <2>9, <2>10 DEF LinksInv
<1>3. ASSUME NEW t \in Threads, Insert(t) PROVE LinksInv'
  <2>1. PICK l : l = job[t].link
    OBVIOUS
  <2>2. Taken(t) /\ opened' = [opened EXCEPT ![l] = @ + 1] /\ UNCHANGED <<owner, pending>>
    BY <1>3, <2>1 DEF Insert, Taken, Working, links
  <2>3. l \in Issued /\ l \in 1..MaxLinks /\ job[t].read # Unused
    BY <2>1, <2>2, TakenLink
  <2>4. opened[l] = 0
    BY <2>1, <2>2 DEF LinksInv, Unopened
  <2>5. opened'[l] = 1 /\ \A k \in 1..MaxLinks : k # l => opened'[k] = opened[k]
    BY <2>2, <2>3, <2>4 DEF Typed, Tables
  <2>6. ~Taken(t)' /\ \A u \in Threads \ {t} : job'[u] = job[u]
    BY <1>0, <1>3, FinishJobs DEF Insert
  <2>7. \A u \in Threads : Taken(u)' => /\ Taken(u) /\ u # t /\ job'[u] = job[u]
                                        /\ job[u].link # l /\ job[u].link \in 1..MaxLinks
    BY <2>1, <2>2, <2>6, TakenLink DEF Taken, LinksInv, OneTaker
  <2>8. OneTaker' /\ Unopened' /\ Marked'
    BY <2>2, <2>5, <2>7 DEF LinksInv, OneTaker, Unopened, Marked
  <2>9. l \in DOMAIN pending => pending[l].used # Unused
    BY <2>1, <2>2, <2>3 DEF LinksInv, Marked
  <2>10. OpenedOnce' /\ OpenedUsed'
    BY <2>2, <2>3, <2>5, <2>9, LinkRoom DEF LinksInv, OpenedOnce, OpenedUsed, Issued, Typed, Tables
  <2> QED BY <2>8, <2>10 DEF LinksInv
<1>4. ASSUME NEW t \in Threads, Rearm(t) PROVE LinksInv'
  <2>1. PICK l : l = job[t].link
    OBVIOUS
  <2>2. Taken(t) /\ UNCHANGED <<owner, opened>>
        /\ (pending' = pending \/ pending' = [pending EXCEPT ![l].used = Unused])
    BY <1>4, <2>1 DEF Rearm, Taken, Working, history
  <2>3. /\ DOMAIN pending' = DOMAIN pending
        /\ \A k \in DOMAIN pending \ {l} : pending'[k] = pending[k]
    BY <2>2
  <2>4. opened[l] = 0
    BY <2>1, <2>2 DEF LinksInv, Unopened
  <2>5. ~Taken(t)' /\ \A u \in Threads \ {t} : job'[u] = job[u]
    BY <1>0, <1>4, FinishJobs DEF Rearm
  <2>6. \A u \in Threads : Taken(u)' => Taken(u) /\ job'[u] = job[u] /\ job[u].link # l
    BY <2>1, <2>2, <2>5 DEF Taken, LinksInv, OneTaker
  <2>7. OneTaker' /\ Unopened' /\ Marked'
    BY <2>2, <2>3, <2>6 DEF LinksInv, OneTaker, Unopened, Marked
  <2>8. OpenedOnce' /\ OpenedUsed'
    BY <2>2, <2>3, <2>4 DEF LinksInv, OpenedOnce, OpenedUsed, Issued
  <2> QED BY <2>7, <2>8 DEF LinksInv
<1>5. ASSUME NEW t \in Threads, Throttle(t) PROVE LinksInv'
  <2>1. /\ ~Taken(t)' /\ opened' = opened /\ \A u \in Threads \ {t} : job'[u] = job[u]
    BY <1>0, <1>5, FinishJobs DEF Throttle, history
  <2>2. /\ DOMAIN pending' \subseteq DOMAIN pending
        /\ \A l \in DOMAIN pending' : pending'[l].used = pending[l].used
    BY <1>5, Keeping DEF Throttle
  <2> QED BY <1>0, <2>1, <2>2, LinksCalm DEF Taken
<1>6. ASSUME NEW t \in Threads, RefuseLink(t) \/ Burns(t) PROVE LinksInv'
  <2>1. Finish(t) /\ pending' = pending /\ opened' = opened
    BY <1>6, BurnsFinish DEF RefuseLink, links, history
  <2>2. ~Taken(t)' /\ \A u \in Threads \ {t} : job'[u] = job[u]
    BY <1>0, <2>1, FinishJobs
  <2> QED BY <1>0, <2>1, <2>2, LinksCalm DEF Taken
<1>7. ASSUME NEW t \in Threads, Proceeds(t) PROVE LinksInv'
  <2>1. pending' = pending /\ opened' = opened
    BY <1>7 DEF Proceeds, Retire, Record, VaultFails, VaultRaises, Admit, Redraw,
       RefuseRetired, BeginSweep, EndSweep, Drop, BelowCeiling, Exhausted, links, history
  <2>2. /\ Taken(t) /\ job'[t].link = job[t].link /\ job'[t].read = job[t].read
        /\ \A u \in Threads \ {t} : job'[u] = job[u]
    BY <1>0, <1>7, ProceedsJobs
  <2> QED BY <1>0, <2>1, <2>2, LinksCalm DEF Taken
<1>8. ASSUME NEW t \in Threads,
             (\E e \in Emails : Ask(t, e)) \/ (\E l \in Issued : Redeem(t, l))
      PROVE  LinksInv'
  <2>1. ~Taken(t)' /\ \A u \in Threads \ {t} : job'[u] = job[u]
    BY <1>0, <1>8, AskJobs, RedeemJobs
  <2>2. pending' = pending /\ opened' = opened
    BY <1>8 DEF Ask, Redeem, links, history
  <2> QED BY <1>0, <2>1, <2>2, LinksCalm DEF Taken
<1>9. CASE Elsewhere
  BY <1>0, <1>9, ElsewhereJobs, LinksCalm DEF Taken
<1> QED BY <1>1, <1>2, <1>3, <1>4, <1>5, <1>6, <1>7, <1>8, <1>9, Cases

LEMMA AlwaysLinks == Spec => []LinksInv
<1>1. Init => LinksInv
  BY DEF Init, LinksInv, OneTaker, Unopened, Marked, OpenedOnce, OpenedUsed, Taken, Working, Idle
<1> QED BY <1>1, AlwaysTyped, LinksStep, PTL DEF Spec

(* A magic link opens one session at most, however many requests redeem    *)
(* it at once and however often one that failed has given it back: redeem  *)
(* consumes the link under the lock and re-arms only its own.              *)
THEOREM OpensOnce == Spec => []OneSessionPerLink
<1>1. Typed /\ LinksInv => OneSessionPerLink
  BY LinkRoom DEF LinksInv, OpenedOnce, OneSessionPerLink
<1> QED BY <1>1, AlwaysTyped, AlwaysLinks, PTL

-----------------------------------------------------------------------------
(* What the history records stays recorded.                                *)
LEMMA HistoryGrows ==
    Typed /\ [Next]_vars =>
        /\ broken \subseteq broken'
        /\ \A l \in 1..MaxLinks : opened[l] > 0 => opened'[l] > 0
<1> SUFFICES ASSUME Typed, [Next]_vars
             PROVE  /\ broken \subseteq broken'
                    /\ \A l \in 1..MaxLinks : opened[l] > 0 => opened'[l] > 0
  OBVIOUS
<1>1. ASSUME NEW t \in Threads, Insert(t)
      PROVE  /\ broken' = broken
             /\ \A l \in 1..MaxLinks : opened[l] > 0 => opened'[l] > 0
  <2>1. PICK k : k = job[t].link
    OBVIOUS
  <2>2. opened \in [1..MaxLinks -> Nat] /\ opened' = [opened EXCEPT ![k] = @ + 1]
    BY <1>1, <2>1 DEF Typed, Tables, Insert
  <2>3. \A l \in 1..MaxLinks : opened[l] \in Nat /\ opened'[l] \in {opened[l], opened[l] + 1}
    BY <2>2
  <2> QED BY <1>1, <2>3 DEF Insert
<1>2. ASSUME NEW t \in Threads, Burns(t)
      PROVE  broken \subseteq broken' /\ opened' = opened
  BY <1>2, BurnsFinish
<1>3. ASSUME NEW t \in Threads,
             \/ Issue(t) \/ Throttle(t) \/ Consume(t) \/ RefuseLink(t) \/ Proceeds(t)
             \/ Rearm(t) \/ (\E e \in Emails : Ask(t, e)) \/ (\E l \in Issued : Redeem(t, l))
      PROVE  broken' = broken /\ opened' = opened
  BY <1>3 DEF Issue, Throttle, Consume, RefuseLink, Rearm, Ask, Redeem, Proceeds, Retire,
     Record, VaultFails, VaultRaises, Admit, Redraw, RefuseRetired, BeginSweep, EndSweep,
     Drop, BelowCeiling, Exhausted, history
<1>4. CASE Elsewhere
  BY <1>4 DEF Elsewhere, Tick, SignOut, LookUp, vars, history
<1> QED BY <1>1, <1>2, <1>3, <1>4, Cases

(* Why a link that nobody has in hand may show as used.                    *)
Excused(l) == opened[l] > 0 \/ Newer(l) \/ l \in broken

LEMMA NewerStays ==
    ASSUME Grows, NEW l \in Issued, Newer(l) PROVE Newer(l)'
<1>1. PICK k \in Issued : k > l /\ owner[k] = owner[l]
  BY DEF Newer
<1>2. k \in Issued' /\ owner'[k] = owner'[l]
  BY <1>1 DEF Grows, Issued
<1> QED BY <1>1, <1>2 DEF Newer

LEMMA ExcusedStays ==
    ASSUME Typed, [Next]_vars, NEW l \in Issued, Excused(l) PROVE Excused(l)'
<1>1. CASE Newer(l)
  BY <1>1, Growing, NewerStays DEF Excused
<1>2. CASE opened[l] > 0 \/ l \in broken
  BY <1>2, HistoryGrows, LinkRoom DEF Excused
<1> QED BY <1>1, <1>2 DEF Excused

(* Only the redemption that consumed a link has it in hand.                *)
LEMMA InHandTaken ==
    ASSUME Typed, NEW l \in Issued
    PROVE  InHand(l) <=> \E t \in Threads : Taken(t) /\ job[t].link = l
<1>1. ASSUME NEW t \in Threads, job[t].link = l, job[t].at # "redeem" PROVE Taken(t)
  <2>1. job[t].at \in Places /\ job[t].at \notin {"idle", "ask"}
    BY <1>1 DEF Typed, Jobs, Sound, JobType, Issued
  <2> QED BY <1>1, <2>1 DEF Taken, Working, Places
<1> QED BY <1>1 DEF InHand, Taken, Working

LEMMA BurnedStep == Typed /\ LinksInv /\ NothingBurned /\ [Next]_vars => NothingBurned'
<1> SUFFICES ASSUME Typed, LinksInv, NothingBurned, [Next]_vars,
                    NEW l \in DOMAIN pending', pending'[l].used # Unused, ~InHand(l)'
             PROVE  Excused(l)'
  BY DEF NothingBurned, Excused
<1>0. Grows /\ Typed'
  BY Growing, TypedStep
<1>1. l \in Issued'
  BY <1>0 DEF Typed, Tables
<1>2. \A u \in Threads : Taken(u)' => job'[u].link # l
  <2>1. ASSUME NEW u \in Threads, Taken(u)' PROVE job'[u].link # l
    BY <2>1 DEF InHand, Taken, Working
  <2> QED BY <2>1
<1>3. ASSUME l \in DOMAIN pending, pending'[l].used = pending[l].used,
             \A u \in Threads : Taken(u) => Taken(u)' /\ job'[u].link = job[u].link
      PROVE  Excused(l)'
  <2>1. l \in Issued /\ ~InHand(l)
    BY <1>2, <1>3, InHandTaken DEF Typed, Tables
  <2>2. Excused(l)
    BY <1>3, <2>1 DEF NothingBurned, Excused
  <2> QED BY <2>1, <2>2, ExcusedStays
<1>4. ASSUME NEW t \in Threads, l \in DOMAIN pending, pending'[l].used = pending[l].used,
             job[t].link # l, \A u \in Threads \ {t} : job'[u] = job[u]
      PROVE  Excused(l)'
  <2>1. \A u \in Threads : Taken(u) => job[u].link # l
    BY <1>2, <1>4 DEF Taken
  <2>2. l \in Issued /\ ~InHand(l)
    BY <1>4, <2>1, InHandTaken DEF Typed, Tables
  <2>3. Excused(l)
    BY <1>4, <2>2 DEF NothingBurned, Excused
  <2> QED BY <2>2, <2>3, ExcusedStays
<1>5. ASSUME NEW t \in Threads, Issue(t) PROVE Excused(l)'
  <2>1. /\ DOMAIN pending' = DOMAIN Kept(t) \cup {Len(owner) + 1}
        /\ pending'[Len(owner) + 1].used = Unused
        /\ \A k \in DOMAIN Kept(t) : pending'[k] = pending[k]
    BY <1>5, IssueTable
  <2>2. l \in DOMAIN pending /\ pending'[l] = pending[l]
    BY <2>1, Keeping
  <2>3. ~Taken(t) /\ \A u \in Threads \ {t} : job'[u] = job[u]
    BY <1>0, <1>5, FinishJobs DEF Issue, Taken, Working
  <2>4. \A u \in Threads : Taken(u) => Taken(u)' /\ job'[u].link = job[u].link
    BY <2>3 DEF Taken
  <2> QED BY <1>3, <2>2, <2>4
<1>6. ASSUME NEW t \in Threads, Throttle(t) PROVE Excused(l)'
  <2>1. l \in DOMAIN pending /\ pending'[l] = pending[l]
    BY <1>6, Keeping DEF Throttle
  <2>2. ~Taken(t) /\ \A u \in Threads \ {t} : job'[u] = job[u]
    BY <1>0, <1>6, FinishJobs DEF Throttle, Taken, Working
  <2>3. \A u \in Threads : Taken(u) => Taken(u)' /\ job'[u].link = job[u].link
    BY <2>2 DEF Taken
  <2> QED BY <1>3, <2>1, <2>3
<1>7. ASSUME NEW t \in Threads, Consume(t) PROVE Excused(l)'
  <2>1. /\ Taken(t)' /\ job'[t].link = job[t].link
        /\ \A u \in Threads \ {t} : job'[u] = job[u]
    BY <1>0, <1>7, ConsumeJobs
  <2>2. job[t].link # l /\ pending' = [pending EXCEPT ![job[t].link].used = job[t].read]
    BY <1>2, <1>7, <2>1 DEF Consume
  <2>3. l \in DOMAIN pending /\ pending'[l] = pending[l]
    BY <2>2
  <2> QED BY <1>4, <2>1, <2>2, <2>3
<1>8. ASSUME NEW t \in Threads, RefuseLink(t) PROVE Excused(l)'
  <2>1. ~Taken(t) /\ pending' = pending /\ \A u \in Threads \ {t} : job'[u] = job[u]
    BY <1>0, <1>8, FinishJobs DEF RefuseLink, Taken, Working, links
  <2>2. \A u \in Threads : Taken(u) => Taken(u)' /\ job'[u].link = job[u].link
    BY <2>1 DEF Taken
  <2> QED BY <1>3, <2>1, <2>2
<1>9. ASSUME NEW t \in Threads, Proceeds(t) PROVE Excused(l)'
  <2>1. pending' = pending
    BY <1>9 DEF Proceeds, Retire, Record, VaultFails, VaultRaises, Admit, Redraw,
       RefuseRetired, BeginSweep, EndSweep, Drop, BelowCeiling, Exhausted, links
  <2>2. /\ Taken(t)' /\ job'[t].link = job[t].link
        /\ \A u \in Threads \ {t} : job'[u] = job[u]
    BY <1>0, <1>9, ProceedsJobs
  <2>3. \A u \in Threads : Taken(u) => Taken(u)' /\ job'[u].link = job[u].link
    BY <2>2 DEF Taken
  <2> QED BY <1>3, <2>1, <2>3
<1>10. ASSUME NEW t \in Threads, Burns(t) PROVE Excused(l)'
  <2>1. /\ broken' = broken \cup {job[t].link} /\ pending' = pending
        /\ \A u \in Threads \ {t} : job'[u] = job[u]
    BY <1>0, <1>10, BurnsFinish, FinishJobs
  <2>2. CASE job[t].link = l
    BY <2>1, <2>2 DEF Excused
  <2> QED BY <1>4, <2>1, <2>2
<1>11. ASSUME NEW t \in Threads, Insert(t) PROVE Excused(l)'
  <2>1. /\ opened' = [opened EXCEPT ![job[t].link] = @ + 1] /\ pending' = pending
        /\ \A u \in Threads \ {t} : job'[u] = job[u]
    BY <1>0, <1>11, FinishJobs DEF Insert, links
  <2>2. CASE job[t].link = l
    <3>1. l \in 1..MaxLinks
      BY <1>11, <2>2, TakenLink DEF Insert, Taken, Working
    <3>2. opened[l] \in Nat /\ opened'[l] = opened[l] + 1
      BY <2>1, <2>2, <3>1 DEF Typed, Tables
    <3> QED BY <3>2 DEF Excused
  <2> QED BY <1>4, <2>1, <2>2
<1>12. ASSUME NEW t \in Threads, Rearm(t) PROVE Excused(l)'
  <2>1. PICK k : k = job[t].link
    OBVIOUS
  <2>2. /\ pending' = (IF Known(t) /\ pending[k].used = job[t].read /\ ~Superseded(k)
                       THEN [pending EXCEPT ![k].used = Unused] ELSE pending)
        /\ Taken(t) /\ \A u \in Threads \ {t} : job'[u] = job[u]
    BY <1>0, <1>12, <2>1, FinishJobs DEF Rearm, Taken, Working
  <2>3. l \in DOMAIN pending
    BY <2>2
  <2>4. CASE k # l
    <3>1. pending'[l] = pending[l]
      BY <2>2, <2>3, <2>4
    <3> QED BY <1>4, <2>1, <2>2, <2>3, <2>4, <3>1
  <2>5. CASE k = l
    <3>1. Known(t) /\ pending[l].used = job[t].read
      BY <2>1, <2>2, <2>3, <2>5 DEF Known, LinksInv, Marked
    <3>2. Superseded(l)
      BY <2>2, <2>3, <2>5, <3>1
    <3>3. Newer(l) /\ l \in Issued
      BY <2>3, <3>2 DEF Superseded, Newer, Typed, Tables
    <3> QED BY <1>0, <3>3, NewerStays DEF Excused
  <2> QED BY <2>4, <2>5
<1>13. ASSUME NEW t \in Threads,
              (\E e \in Emails : Ask(t, e)) \/ (\E k \in Issued : Redeem(t, k))
       PROVE  Excused(l)'
  <2>1. ~Taken(t) /\ \A u \in Threads \ {t} : job'[u] = job[u]
    BY <1>0, <1>13, AskJobs, RedeemJobs
  <2>2. \A u \in Threads : Taken(u) => Taken(u)' /\ job'[u].link = job[u].link
    BY <2>1 DEF Taken
  <2>3. pending' = pending
    BY <1>13 DEF Ask, Redeem, links
  <2> QED BY <1>3, <2>2, <2>3
<1>14. CASE Elsewhere
  BY <1>0, <1>3, <1>14, ElsewhereJobs DEF Taken
<1> QED BY <1>5, <1>6, <1>7, <1>8, <1>9, <1>10, <1>11, <1>12, <1>13, <1>14, Cases

(* A refusal at the ceiling, a lost rotation and a vault that fails burn   *)
(* no link: one that was consumed and opened nothing is given back, unless *)
(* the buyer has a newer one or the store raised instead of refusing.      *)
THEOREM BurnsNothing == Spec => []NothingBurned
<1>1. Init => NothingBurned
  BY DEF Init, NothingBurned
<1> QED BY <1>1, AlwaysTyped, AlwaysLinks, BurnedStep, PTL DEF Spec

-----------------------------------------------------------------------------
(* The table of pending links never holds more than its ceiling.           *)
Room == Cardinality(DOMAIN pending) <= MaxPending

(* Only a request files a link or drops one; the rest keep the table's     *)
(* entries and when they expire.                                           *)
Files == \E t \in Threads : Issue(t) \/ Throttle(t)
Stays == /\ owner' = owner /\ DOMAIN pending' = DOMAIN pending
         /\ \A l \in DOMAIN pending : pending'[l].expires = pending[l].expires

LEMMA Filing == Typed /\ [Next]_vars => Files \/ Stays
<1> SUFFICES ASSUME Typed, [Next]_vars, ~Files PROVE Stays
  OBVIOUS
<1>1. ASSUME NEW k, NEW v,
             pending' = pending \/ pending' = [pending EXCEPT ![k].used = v]
      PROVE  /\ DOMAIN pending' = DOMAIN pending
             /\ \A l \in DOMAIN pending : pending'[l].expires = pending[l].expires
  <2>1. \A l \in DOMAIN pending : pending[l] \in Link
    BY DEF Typed, Tables
  <2> QED BY <1>1, <2>1 DEF Link
<1>2. ASSUME NEW t \in Threads, Consume(t) \/ Rearm(t) PROVE Stays
  <2>1. PICK k : k = job[t].link
    OBVIOUS
  <2>2. owner' = owner /\ \E v : pending' = pending \/ pending' = [pending EXCEPT ![k].used = v]
    BY <1>2, <2>1 DEF Consume, Rearm
  <2> QED BY <1>1, <2>2 DEF Stays
<1>3. ASSUME NEW t \in Threads, Burns(t) PROVE Stays
  BY <1>3, BurnsFinish DEF Stays
<1>4. ASSUME NEW t \in Threads,
             \/ RefuseLink(t) \/ Proceeds(t) \/ Insert(t)
             \/ (\E e \in Emails : Ask(t, e)) \/ (\E l \in Issued : Redeem(t, l))
      PROVE  Stays
  BY <1>4 DEF RefuseLink, Insert, Ask, Redeem, Proceeds, Retire,
     Record, VaultFails, VaultRaises, Admit, Redraw, RefuseRetired, BeginSweep, EndSweep,
     Drop, BelowCeiling, Exhausted, links, Stays
<1>5. CASE Elsewhere
  BY <1>5 DEF Elsewhere, Tick, SignOut, LookUp, vars, links, Stays
<1> QED BY <1>2, <1>3, <1>4, <1>5, Cases DEF Files

LEMMA PendingFinite ==
    ASSUME Typed
    PROVE  IsFiniteSet(DOMAIN pending) /\ Cardinality(DOMAIN pending) \in Nat
<1>1. IsFiniteSet(Issued) /\ DOMAIN pending \subseteq Issued
  BY FS_Interval DEF Typed, Tables, Issued
<1> QED BY <1>1, FS_Subset, FS_CardinalityType

LEMMA KeptFinite ==
    ASSUME Typed, NEW t
    PROVE  IsFiniteSet(DOMAIN Kept(t)) /\ Cardinality(DOMAIN Kept(t)) \in Nat
BY PendingFinite, Keeping, FS_Subset, FS_CardinalityType

(* A request that is shed finds every entry it keeps, which is all of them. *)
LEMMA Shed ==
    ASSUME Typed, Room, NEW t, Throttle(t) PROVE DOMAIN pending' = DOMAIN pending
<1>1. DOMAIN Kept(t) \in SUBSET DOMAIN pending /\ pending' = Kept(t)
  BY Keeping DEF Throttle
<1>2. Cardinality(DOMAIN Kept(t)) >= MaxPending
  BY DEF Throttle, Full
<1>3. Cardinality(DOMAIN Kept(t)) <= Cardinality(DOMAIN pending)
  BY <1>1, PendingFinite, FS_Subset
<1>4. Cardinality(DOMAIN pending) = Cardinality(DOMAIN Kept(t))
  BY <1>2, <1>3, PendingFinite, KeptFinite, LimitAssumption DEF Room
<1> QED BY <1>1, <1>4, PendingFinite, FS_Subset

LEMMA RoomStep == Typed /\ Room /\ [Next]_vars => Room'
<1> SUFFICES ASSUME Typed, Room, [Next]_vars PROVE Room'
  OBVIOUS
<1>1. ASSUME NEW t \in Threads, Issue(t) PROVE Room'
  <2>1. DOMAIN pending' = DOMAIN Kept(t) \cup {Len(owner) + 1}
    BY <1>1, IssueTable
  <2>2. IsFiniteSet(DOMAIN Kept(t)) /\ Cardinality(DOMAIN Kept(t)) \in Nat
        /\ ~(Cardinality(DOMAIN Kept(t)) >= MaxPending)
    BY <1>1, KeptFinite DEF Issue, Full
  <2>3. Cardinality(DOMAIN pending')
          \in {Cardinality(DOMAIN Kept(t)), Cardinality(DOMAIN Kept(t)) + 1}
    BY <2>1, <2>2, FS_AddElement
  <2> QED BY <2>2, <2>3, LimitAssumption DEF Room
<1>2. ASSUME NEW t \in Threads, Throttle(t) PROVE Room'
  BY <1>2, Shed DEF Room
<1>3. CASE Stays
  BY <1>3 DEF Stays, Room
<1> QED BY <1>1, <1>2, <1>3, Filing DEF Files

LEMMA AlwaysRoom == Spec => []Room
<1>1. Init => Room
  <2> SUFFICES ASSUME Init PROVE Room
    OBVIOUS
  <2>1. DOMAIN pending = {}
    BY DEF Init
  <2> QED BY <2>1, FS_EmptySet, LimitAssumption DEF Room
<1> QED BY <1>1, AlwaysTyped, RoomStep, PTL DEF Spec

(* A link leaves the table when it has expired or when its own buyer's new *)
(* one replaces it: a request that is shed at the ceiling evicts nobody's, *)
(* because whatever it could have swept would have made room for it.       *)
THEOREM EvictsNone == Spec => NoEviction
<1>1. Typed /\ Room /\ [Next]_vars =>
        [\A l \in DOMAIN pending \ DOMAIN pending' :
            \/ now >= pending[l].expires
            \/ pending[l].used = Unused /\ Newer(l)']_vars
  <2> SUFFICES ASSUME Typed, Room, [Next]_vars, NEW l \in DOMAIN pending \ DOMAIN pending'
               PROVE  \/ now >= pending[l].expires
                      \/ pending[l].used = Unused /\ Newer(l)'
    OBVIOUS
  <2>1. PICK t \in Threads : Issue(t)
    BY Filing, Shed DEF Files, Stays
  <2>2. l \in Issued /\ pending[l] \in Link /\ l \notin DOMAIN Kept(t)
    BY <2>1, IssueTable DEF Typed, Tables
  <2>3. CASE job[t].read >= pending[l].expires
    <3>1. job[t].read \in Nat /\ job[t].read <= now /\ now \in Nat /\ pending[l].expires \in Nat
      BY <2>2, LimitAssumption DEF Typed, Tables, Jobs, Sound, JobType, Link
    <3> QED BY <2>3, <3>1
  <2>4. CASE owner[l] = job[t].email /\ pending[l].used = Unused
    <3>1. /\ Len(owner) + 1 \in Issued' /\ owner'[Len(owner) + 1] = owner[l]
          /\ owner'[l] = owner[l]
      BY <2>1, <2>2, <2>4, IssueNew
    <3>2. Len(owner) + 1 > l
      BY <2>2 DEF Issued, Typed, Tables
    <3> QED BY <2>4, <3>1, <3>2 DEF Newer
  <2> QED BY <2>2, <2>3, <2>4, Keeping
<1> QED BY <1>1, AlwaysTyped, AlwaysRoom, PTL DEF Spec, NoEviction

-----------------------------------------------------------------------------
(* When no tick comes between a request's reading of the clock and its     *)
(* lock, links expire in the order they are issued, so that a link still   *)
(* in the table has the newest one for its address beside it.              *)
Prompt  == \A t \in Threads : job[t].at = "ask" => job[t].read = now
Dated   == \A l \in DOMAIN pending : pending[l].expires <= now + LinkTtl
Ordered == \A l, k \in DOMAIN pending : l < k => pending[l].expires <= pending[k].expires
Shown   == \A l \in DOMAIN pending : Newer(l) => Superseded(l)

OrderInv == Prompt /\ Dated /\ Ordered /\ Shown /\ SupersededStaysDead

LEMMA PromptStep == ~Straddling /\ Typed /\ Prompt /\ [Next]_vars => Prompt'
<1> SUFFICES ASSUME ~Straddling, Typed, Prompt, [Next]_vars,
                    NEW u \in Threads, job'[u].at = "ask"
             PROVE  job'[u].read = now'
  BY DEF Prompt
<1>0. Grows
  BY Growing
<1>1. ASSUME job'[u] = job[u], now' = now PROVE job'[u].read = now'
  BY <1>1 DEF Prompt
<1>2. ASSUME NEW t \in Threads, job'[t].at # "ask", now' = now,
             \A v \in Threads \ {t} : job'[v] = job[v]
      PROVE  job'[u].read = now'
  BY <1>1, <1>2
<1>3. ASSUME NEW t \in Threads, NEW e \in Emails, Ask(t, e) PROVE job'[u].read = now'
  <2>1. /\ job'[t].read = now /\ now' = now
        /\ \A v \in Threads \ {t} : job'[v] = job[v]
    BY <1>0, <1>3, AskJobs DEF Ask
  <2> QED BY <1>1, <2>1
<1>4. ASSUME NEW t \in Threads, NEW l \in Issued, Redeem(t, l) PROVE job'[u].read = now'
  <2>1. now' = now /\ job'[t].at = "redeem" /\ \A v \in Threads \ {t} : job'[v] = job[v]
    BY <1>0, <1>4, RedeemJobs DEF Redeem
  <2> QED BY <1>2, <2>1
<1>5. ASSUME NEW t \in Threads, Proceeds(t) \/ Consume(t) PROVE job'[u].read = now'
  <2>1. now' = now
    BY <1>5 DEF Proceeds, Consume, Retire, Record, VaultFails, VaultRaises, Admit, Redraw,
       RefuseRetired, BeginSweep, EndSweep, Drop, BelowCeiling, Exhausted
  <2>2. Taken(t)' /\ \A v \in Threads \ {t} : job'[v] = job[v]
    BY <1>0, <1>5, ProceedsJobs, ConsumeJobs
  <2> QED BY <1>2, <2>1, <2>2 DEF Taken, Working
<1>6. ASSUME NEW t \in Threads,
             \/ Issue(t) \/ Throttle(t) \/ RefuseLink(t) \/ Burns(t) \/ Insert(t) \/ Rearm(t)
      PROVE  job'[u].read = now'
  <2>1. now' = now
    BY <1>6 DEF Issue, Throttle, RefuseLink, Burns, AdmitFails, SweepFails, DropFails,
       Insert, Rearm
  <2>2. Finish(t)
    BY <1>6, BurnsFinish DEF Issue, Throttle, RefuseLink, Insert, Rearm
  <2>3. job'[t].at = "idle" /\ \A v \in Threads \ {t} : job'[v] = job[v]
    BY <1>0, <2>2, FinishJobs
  <2> QED BY <1>2, <2>1, <2>3
<1>7. CASE Tick
  <2>1. job' = job /\ \A t \in Threads : job[t].at # "ask"
    BY <1>7 DEF Tick
  <2> QED BY <2>1
<1>8. CASE UNCHANGED vars \/ \E p \in Live : SignOut(p) \/ LookUp(p)
  BY <1>1, <1>8 DEF vars, SignOut, LookUp
<1> QED BY <1>3, <1>4, <1>5, <1>6, <1>7, <1>8, Cases DEF Elsewhere

(* What is newer than a link of before was newer already, or is the link   *)
(* this step files.                                                        *)
LEMMA NewerBefore ==
    ASSUME Typed, NEW t \in Threads, Issue(t), NEW l \in Issued, Newer(l)'
    PROVE  Newer(l) \/ owner[l] = job[t].email
<1>1. /\ Issued' = Issued \cup {Len(owner) + 1}
      /\ owner'[Len(owner) + 1] = job[t].email
      /\ \A k \in Issued : owner'[k] = owner[k]
  BY IssueNew
<1>2. PICK k \in Issued' : k > l /\ owner'[k] = owner'[l]
  BY DEF Newer
<1> QED BY <1>1, <1>2 DEF Newer

LEMMA IssueOrder ==
    ASSUME Typed, OrderInv, NEW t \in Threads, Issue(t)
    PROVE  Dated' /\ Ordered' /\ Shown' /\ SupersededStaysDead'
<1>1. PICK new : new = Len(owner) + 1
  OBVIOUS
<1>2. /\ DOMAIN pending' = DOMAIN Kept(t) \cup {new}
      /\ pending'[new].used = Unused /\ pending'[new].expires = job[t].read + LinkTtl
      /\ \A l \in DOMAIN Kept(t) : l # new /\ pending'[l] = pending[l]
  BY <1>1, IssueTable
<1>3. /\ new \notin Issued /\ Issued' = Issued \cup {new} /\ owner'[new] = job[t].email
      /\ \A l \in Issued : owner'[l] = owner[l] /\ l \in Int /\ new > l
  BY <1>1, IssueNew DEF Typed, Tables, Issued
<1>4. \A l \in DOMAIN Kept(t) :
         /\ l \in DOMAIN pending /\ l \in Issued
         /\ ~(job[t].read >= pending[l].expires)
         /\ ~(owner[l] = job[t].email /\ pending[l].used = Unused)
  BY Keeping DEF Typed, Tables
<1>5. now' = now /\ job[t].read = now /\ now \in Nat
      /\ \A l \in DOMAIN pending : pending[l].expires \in Nat
  BY LimitAssumption DEF Issue, OrderInv, Prompt, Typed, Tables, Link
<1>a. \A k \in Issued' : ~(k > new)
  BY <1>1, <1>3 DEF Typed, Tables
<1>6. Dated'
  BY <1>2, <1>4, <1>5, LimitAssumption DEF Dated, OrderInv
<1>7. Ordered'
  <2> SUFFICES ASSUME NEW l \in DOMAIN pending', NEW k \in DOMAIN pending', l < k
               PROVE  pending'[l].expires <= pending'[k].expires
    BY DEF Ordered
  <2>1. l \in DOMAIN Kept(t)
    BY <1>1, <1>2, <1>3, <1>4 DEF Typed, Tables
  <2>2. CASE k = new
    BY <1>2, <1>4, <1>5, <2>1, <2>2 DEF OrderInv, Dated
  <2>3. CASE k \in DOMAIN Kept(t)
    BY <1>2, <1>4, <2>1, <2>3 DEF OrderInv, Ordered
  <2> QED BY <1>2, <2>2, <2>3
<1>8. Shown'
  <2> SUFFICES ASSUME NEW l \in DOMAIN pending', Newer(l)' PROVE Superseded(l)'
    BY DEF Shown
  <2>1. l \in Issued' /\ new \in DOMAIN pending'
    BY <1>2, <1>3, <1>4
  <2>2. CASE l = new
    BY <1>a, <2>2 DEF Newer
  <2>3. ASSUME l \in DOMAIN Kept(t), owner[l] = job[t].email PROVE Superseded(l)'
    BY <1>3, <1>4, <2>1, <2>3 DEF Superseded
  <2>4. ASSUME l \in DOMAIN Kept(t), Newer(l) PROVE Superseded(l)'
    <3>1. PICK k \in DOMAIN pending : k > l /\ owner[k] = owner[l]
      BY <1>4, <2>4 DEF OrderInv, Shown, Superseded
    <3>2. k \in Issued /\ l \in Issued /\ k \in Int /\ l \in Int
      BY <1>3, <1>4, <2>4 DEF Typed, Tables
    <3>3. CASE k \in DOMAIN Kept(t)
      BY <1>2, <1>3, <3>1, <3>2, <3>3 DEF Superseded
    <3>4. CASE k \notin DOMAIN Kept(t)
      <4>1. pending[l].expires <= pending[k].expires
        BY <1>4, <2>4, <3>1, <3>2 DEF OrderInv, Ordered
      <4>2. ~(now >= pending[k].expires)
        BY <1>4, <1>5, <2>4, <4>1
      <4>3. owner[l] = job[t].email
        BY <1>5, <3>1, <3>4, <4>2, Keeping
      <4> QED BY <2>3, <2>4, <4>3
    <3> QED BY <3>3, <3>4
  <2> QED BY <1>2, <1>4, <2>2, <2>3, <2>4, NewerBefore
<1>9. SupersededStaysDead'
  <2> SUFFICES ASSUME NEW l \in DOMAIN pending', pending'[l].used = Unused, Newer(l)'
               PROVE  FALSE
    BY DEF SupersededStaysDead
  <2>1. CASE l = new
    BY <1>a, <2>1 DEF Newer
  <2>2. CASE l \in DOMAIN Kept(t)
    <3>1. l \in Issued /\ pending[l].used = Unused /\ owner[l] # job[t].email
      BY <1>2, <1>4, <2>2
    <3>2. Newer(l)
      BY <3>1, NewerBefore
    <3> QED BY <1>4, <2>2, <3>1, <3>2 DEF OrderInv, SupersededStaysDead
  <2> QED BY <1>2, <2>1, <2>2
<1> QED BY <1>6, <1>7, <1>8, <1>9

(* A step that files nothing leaves a link used, or re-arms one that has   *)
(* no newer one beside it.                                                 *)
LEMMA Unspent ==
    ASSUME Typed, [Next]_vars, Stays, NEW l \in DOMAIN pending', pending'[l].used = Unused
    PROVE  pending[l].used = Unused \/ ~Superseded(l)
<1>1. ASSUME NEW t \in Threads, Rearm(t)
      PROVE  pending[l].used = Unused \/ ~Superseded(l)
  <2>1. PICK k : k = job[t].link
    OBVIOUS
  <2>2. \/ pending' = pending
        \/ ~Superseded(k) /\ pending' = [pending EXCEPT ![k].used = Unused]
    BY <1>1, <2>1 DEF Rearm
  <2> QED BY <2>2 DEF Stays
<1>2. ASSUME NEW t \in Threads, Consume(t) PROVE pending[l].used = Unused
  <2>1. PICK i : i = job[t]
    OBVIOUS
  <2>2. /\ pending' = [pending EXCEPT ![i.link].used = i.read]
        /\ pending[i.link].used = Unused
    BY <1>2, <2>1 DEF Consume, Usable
  <2> QED BY <2>2 DEF Stays
<1>3. ASSUME NEW t \in Threads, Throttle(t) \/ Issue(t) PROVE pending[l].used = Unused
  <2>1. CASE Throttle(t)
    BY <2>1, Keeping DEF Throttle
  <2>2. CASE Issue(t)
    BY <2>2, IssueNew DEF Stays, Issued
  <2> QED BY <1>3, <2>1, <2>2
<1>4. ASSUME NEW t \in Threads, Burns(t) PROVE pending[l].used = Unused
  BY <1>4, BurnsFinish
<1>5. ASSUME NEW t \in Threads,
             \/ RefuseLink(t) \/ Proceeds(t) \/ Insert(t)
             \/ (\E e \in Emails : Ask(t, e)) \/ (\E k \in Issued : Redeem(t, k))
      PROVE  pending[l].used = Unused
  BY <1>5 DEF RefuseLink, Insert, Ask, Redeem, Proceeds, Retire, Record, VaultFails,
     VaultRaises, Admit, Redraw, RefuseRetired, BeginSweep, EndSweep, Drop, BelowCeiling,
     Exhausted, links
<1>6. CASE Elsewhere
  BY <1>6 DEF Elsewhere, Tick, SignOut, LookUp, vars, links
<1> QED BY <1>1, <1>2, <1>3, <1>4, <1>5, <1>6, Cases

LEMMA StaysOrder ==
    ASSUME Typed, OrderInv, [Next]_vars, Stays
    PROVE  Dated' /\ Ordered' /\ Shown' /\ SupersededStaysDead'
<1>1. Issued' = Issued /\ now \in Nat /\ now' \in Nat /\ now <= now'
  BY Growing DEF Stays, Issued, Grows
<1>2. \A l \in DOMAIN pending : pending[l].expires \in Nat
  BY LimitAssumption DEF Typed, Tables, Link
<1>3. \A l \in DOMAIN pending : (Newer(l)' <=> Newer(l)) /\ (Superseded(l)' <=> Superseded(l))
  BY <1>1 DEF Newer, Superseded, Stays
<1>4. Dated'
  BY <1>1, <1>2, LimitAssumption DEF Dated, OrderInv, Stays
<1>5. Ordered' /\ Shown'
  BY <1>3 DEF Ordered, Shown, OrderInv, Stays
<1>6. SupersededStaysDead'
  BY <1>3, Unspent DEF SupersededStaysDead, OrderInv, Shown, Stays
<1> QED BY <1>4, <1>5, <1>6

LEMMA ThrottleOrder ==
    ASSUME Typed, Room, OrderInv, [Next]_vars, NEW t \in Threads, Throttle(t)
    PROVE  Dated' /\ Ordered' /\ Shown' /\ SupersededStaysDead'
<1>1. DOMAIN pending' = DOMAIN pending /\ owner' = owner
  BY Shed DEF Throttle
<1>2. \A l \in DOMAIN pending' : pending'[l] = pending[l]
  BY Keeping DEF Throttle
<1> QED BY <1>1, <1>2, StaysOrder DEF Stays

LEMMA OrderStep == ~Straddling /\ Typed /\ Room /\ OrderInv /\ [Next]_vars => OrderInv'
<1> SUFFICES ASSUME ~Straddling, Typed, Room, OrderInv, [Next]_vars PROVE OrderInv'
  OBVIOUS
<1>1. Prompt'
  BY PromptStep DEF OrderInv
<1>2. Dated' /\ Ordered' /\ Shown' /\ SupersededStaysDead'
  BY Filing, IssueOrder, StaysOrder, ThrottleOrder DEF Files
<1> QED BY <1>1, <1>2 DEF OrderInv

(* A link the buyer has replaced never works again, not even when a        *)
(* redemption of it that was under way fails and gives it back, as long as *)
(* the clock does not tick between a request's reading and its lock: then  *)
(* the newer link is still in the table when _superseded looks for it.     *)
THEOREM SupersededDead == ASSUME ~Straddling PROVE Spec => []SupersededStaysDead
<1>1. Init => OrderInv
  BY DEF Init, OrderInv, Prompt, Dated, Ordered, Shown, SupersededStaysDead, Idle
<1>2. Typed /\ Room /\ OrderInv /\ [Next]_vars => OrderInv'
  BY OrderStep
<1>3. OrderInv => SupersededStaysDead
  BY DEF OrderInv
<1> QED BY <1>1, <1>2, <1>3, AlwaysTyped, AlwaysRoom, PTL DEF Spec

-----------------------------------------------------------------------------
(* Between the check of the ceiling and the insert a thread holds a place. *)
Inserting == {t \in Threads : job[t].at = "insert"}

LEMMA LiveFinite == Typed => IsFiniteSet(Live) /\ Cardinality(Live) \in Nat
<1> SUFFICES ASSUME Typed PROVE IsFiniteSet(Live) /\ Cardinality(Live) \in Nat
  OBVIOUS
<1>1. IsFiniteSet(1..Len(rows)) /\ Live \subseteq 1..Len(rows)
  BY FS_Interval DEF Typed, Tables
<1> QED BY <1>1, FS_Subset, FS_CardinalityType

LEMMA CeilingStep == Typed /\ SessionsNearCeiling /\ [Next]_vars => SessionsNearCeiling'
<1> SUFFICES ASSUME Typed, SessionsNearCeiling, [Next]_vars PROVE SessionsNearCeiling'
  OBVIOUS
<1>0. Grows /\ Typed'
  BY Growing, TypedStep
<1>1. /\ Cardinality(Threads) \in Nat
      /\ Cardinality(Inserting) \in Nat /\ Cardinality(Inserting') \in Nat
      /\ Cardinality(Inserting') <= Cardinality(Threads)
  <2>1. IsFiniteSet(Threads) /\ Inserting \in SUBSET Threads /\ Inserting' \in SUBSET Threads
    BY ThreadAssumption DEF Inserting
  <2> QED BY <2>1, FS_Subset, FS_CardinalityType
<1>2. Cardinality(Live) \in Nat /\ Cardinality(Live') \in Nat
  <2>1. rows' \in Seq([email : Emails, active : BOOLEAN]) /\ Live' \subseteq DOMAIN rows'
    BY <1>0 DEF Typed, Tables
  <2>2. Len(rows') \in Nat /\ Live' \subseteq 1..Len(rows')
    BY <2>1
  <2>3. IsFiniteSet(1..Len(rows'))
    BY <2>2, FS_Interval
  <2>4. IsFiniteSet(Live')
    BY <2>2, <2>3, FS_Subset
  <2> QED BY <2>4, FS_CardinalityType, LiveFinite
<1>a. ASSUME NEW t \in Threads, \A u \in Threads \ {t} : job'[u] = job[u]
      PROVE  Cardinality(Inserting') + (IF job[t].at = "insert" THEN 1 ELSE 0)
               = Cardinality(Inserting) + (IF job'[t].at = "insert" THEN 1 ELSE 0)
  BY <1>a, PlaceCount DEF Inserting
<1>3. Cardinality(Live) + Cardinality(Inserting) <= MaxSessions + Cardinality(Threads) - 1
  BY DEF SessionsNearCeiling, Inserting
<1>4. ASSUME Cardinality(Live') + Cardinality(Inserting')
                <= MaxSessions + Cardinality(Threads) - 1
      PROVE  SessionsNearCeiling'
  BY <1>4 DEF SessionsNearCeiling, Inserting
<1>5. ASSUME Live' \subseteq Live, Cardinality(Inserting') <= Cardinality(Inserting)
      PROVE  SessionsNearCeiling'
  <2>1. Cardinality(Live') <= Cardinality(Live)
    BY <1>5, LiveFinite, FS_Subset
  <2> QED BY <1>1, <1>2, <1>3, <1>4, <1>5, <2>1, LimitAssumption
<1>6. ASSUME NEW t \in Threads, \A u \in Threads \ {t} : job'[u] = job[u],
             job'[t].at # "insert"
      PROVE  Cardinality(Inserting') <= Cardinality(Inserting)
  <2>1. Cardinality(Inserting') + (IF job[t].at = "insert" THEN 1 ELSE 0)
          = Cardinality(Inserting)
    BY <1>1, <1>6, <1>a
  <2> QED BY <1>1, <2>1
<1>7. ASSUME NEW t \in Threads, BelowCeiling(t) PROVE SessionsNearCeiling'
  <2>1. Live' = Live /\ Cardinality(Live) < MaxSessions
    BY <1>7 DEF BelowCeiling, Live
  <2> QED BY <1>1, <1>2, <1>4, <2>1, LimitAssumption
<1>8. ASSUME NEW t \in Threads, Insert(t) PROVE SessionsNearCeiling'
  <2>1. Live' = Live \cup {job[t].psn} /\ job[t].at = "insert"
    BY <1>8 DEF Insert, Live
  <2>2. Cardinality(Live') \in {Cardinality(Live), Cardinality(Live) + 1}
    BY <2>1, LiveFinite, FS_AddElement
  <2>3. job'[t].at = "idle" /\ \A u \in Threads \ {t} : job'[u] = job[u]
    BY <1>0, <1>8, FinishJobs DEF Insert
  <2>4. Cardinality(Inserting') + 1 = Cardinality(Inserting)
    BY <1>1, <1>a, <2>1, <2>3
  <2> QED BY <1>1, <1>2, <1>3, <1>4, <2>2, <2>4, LimitAssumption
<1>9. ASSUME NEW t \in Threads, Proceeds(t), ~BelowCeiling(t) PROVE SessionsNearCeiling'
  <2>1. Live' \subseteq Live
    BY <1>9, Restricting DEF Proceeds, Retire, Record, VaultFails, VaultRaises, Admit, Redraw,
       RefuseRetired, BeginSweep, EndSweep, Drop, Exhausted, Live
  <2>2. \A u \in Threads \ {t} : job'[u] = job[u]
    BY <1>0, <1>9, ProceedsJobs
  <2>3. job'[t].at # "insert"
    <3>1. t \in DOMAIN job /\ job[t] \in JobType
      BY DEF Typed, Jobs, Sound
    <3>2. ASSUME NEW place, Goto(t, place) PROVE job'[t].at = place
      BY <3>1, <3>2 DEF Goto, JobType
    <3>3. CASE Retire(t) \/ VaultFails(t) \/ RefuseRetired(t) \/ Exhausted(t)
      BY <3>2, <3>3 DEF Retire, VaultFails, RefuseRetired, Exhausted
    <3>4. CASE Record(t) \/ Admit(t) \/ Redraw(t)
      BY <3>1, <3>4 DEF Record, Admit, Redraw, JobType
    <3>5. CASE BeginSweep(t) \/ EndSweep(t) \/ Drop(t)
      BY <3>1, <3>5 DEF BeginSweep, EndSweep, Drop, JobType
    <3> QED BY <1>9, <3>3, <3>4, <3>5 DEF Proceeds
  <2> QED BY <1>5, <1>6, <2>1, <2>2, <2>3
<1>10. ASSUME NEW t \in Threads, Finish(t), Live' \subseteq Live PROVE SessionsNearCeiling'
  BY <1>0, <1>5, <1>6, <1>10, FinishJobs
<1>11. ASSUME NEW t \in Threads, Burns(t) PROVE SessionsNearCeiling'
  <2>1. Live' \subseteq Live
    <3>1. CASE AdmitFails(t) \/ SweepFails(t)
      BY <3>1 DEF AdmitFails, SweepFails, Live
    <3>2. CASE DropFails(t)
      <4>1. PICK gone : sessions' = Restrict(sessions, Live \ gone)
        BY <3>2 DEF DropFails
      <4>2. DOMAIN sessions' = Live \ gone
        BY <4>1, Restricting
      <4> QED BY <4>2 DEF Live
    <3> QED BY <1>11, <3>1, <3>2 DEF Burns
  <2> QED BY <1>10, <1>11, <2>1, BurnsFinish
<1>12. ASSUME NEW t \in Threads, Issue(t) \/ Throttle(t) \/ RefuseLink(t) \/ Rearm(t)
       PROVE  SessionsNearCeiling'
  BY <1>10, <1>12 DEF Issue, Throttle, RefuseLink, Rearm, Live
<1>13. ASSUME NEW t \in Threads, Consume(t) PROVE SessionsNearCeiling'
  <2>1. Live' = Live /\ job'[t].at = "retire" /\ \A u \in Threads \ {t} : job'[u] = job[u]
    BY <1>0, <1>13, ConsumeJobs DEF Consume, Live
  <2> QED BY <1>5, <1>6, <2>1
<1>14. ASSUME NEW t \in Threads,
              (\E e \in Emails : Ask(t, e)) \/ (\E l \in Issued : Redeem(t, l))
       PROVE  SessionsNearCeiling'
  <2>1. job'[t].at \in {"ask", "redeem"} /\ \A u \in Threads \ {t} : job'[u] = job[u]
    BY <1>0, <1>14, AskJobs, RedeemJobs
  <2>2. Live' = Live
    BY <1>14 DEF Ask, Redeem, Live
  <2> QED BY <1>5, <1>6, <2>1, <2>2
<1>15. CASE Elsewhere
  <2>1. job' = job /\ Live' \subseteq Live
    BY <1>15, Restricting DEF Elsewhere, Tick, SignOut, LookUp, vars, Live
  <2>2. Inserting' = Inserting
    BY <2>1 DEF Inserting
  <2> QED BY <1>1, <1>5, <2>1, <2>2
<1> QED BY <1>7, <1>8, <1>9, <1>11, <1>12, <1>13, <1>14, <1>15, Cases

(* The ceiling on sessions is read before the insert and without a lock,   *)
(* so it can be passed, but by fewer sessions than there are threads.      *)
THEOREM SessionsBounded == Spec => []SessionsNearCeiling
<1>1. Init => SessionsNearCeiling
  <2> SUFFICES ASSUME Init PROVE SessionsNearCeiling
    OBVIOUS
  <2>1. Live = {} /\ Inserting = {}
    BY DEF Init, Live, Inserting, Idle
  <2>2. Cardinality(Threads) \in Nat /\ Cardinality(Threads) # 0
    BY ThreadAssumption, FS_CardinalityType, FS_EmptySet
  <2>3. Cardinality(Live) = 0 /\ Cardinality(Inserting) = 0
    BY <2>1, FS_EmptySet
  <2> QED BY <2>2, <2>3, LimitAssumption DEF SessionsNearCeiling, Inserting
<1> QED BY <1>1, AlwaysTyped, CeilingStep, PTL DEF Spec

=============================================================================
