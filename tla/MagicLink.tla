------------------------------- MODULE MagicLink -------------------------------
(***************************************************************************)
(* Signing a buyer in: MagicLinkAuth with the table of pending links, the  *)
(* identity vault that rotates a buyer's pseudonym, and the session store. *)
(*                                                                         *)
(* One process (more than one worker is refused), whose thread pool runs   *)
(* several requests at once.  The pending table has a lock; the session    *)
(* store and the vault have none, so what they read and what they then     *)
(* write are steps of their own.  A link is known by its issue order, a    *)
(* pseudonym by its row in the vault's history, and the generator never    *)
(* repeats itself.  Mail and the account directory keep nothing here.      *)
(***************************************************************************)
EXTENDS Integers, Sequences, FiniteSets, Functions

CONSTANTS
    Threads,       \* of the server's pool
    Emails,
    LinkTtl, SessionTtl,
    MaxPending,    \* max_pending
    MaxSessions,   \* max_sessions
    Straddling,    \* may the clock tick between a request's reading and its lock?
    MaxLinks,      \* bound on the links issued
    MaxDraws,      \* bound on the pseudonyms drawn when a redemption may begin
    MaxTime,       \* bound on the clock
    MaxFailures    \* bound on the vault's statements that raise

ASSUME ThreadAssumption == IsFiniteSet(Threads) /\ Threads # {} /\ Emails # {}
ASSUME LimitAssumption  ==
    /\ LinkTtl \in Nat \ {0} /\ SessionTtl \in Nat \ {0}
    /\ MaxPending \in Nat \ {0} /\ MaxSessions \in Nat \ {0}
    /\ Straddling \in BOOLEAN
    /\ MaxLinks \in Nat /\ MaxDraws \in Nat /\ MaxTime \in Nat /\ MaxFailures \in Nat

Unused == -1     \* used_at is None
Nobody == "nobody"

VARIABLES
    now,
    owner,     \* the address of each link, in issue order: its length is _sequence
    pending,   \* _pending: when a link expires and when it was used
    rows,      \* the vault's history
    sessions,  \* _sessions: when the session of a pseudonym runs out
    job,       \* what each thread is at
    failures,  \* statements of the vault that raised, to bound them
    opened,    \* history: the sessions each link has opened
    broken     \* history: the links whose open raised and did not refuse

links   == <<owner, pending>>
history == <<opened, broken>>
vars    == <<now, links, rows, sessions, job, failures, history>>

Issued == 1..Len(owner)

Idle == [at |-> "idle", email |-> Nobody, link |-> 0, read |-> 0, psn |-> 0,
         final |-> FALSE, opens |-> 0, size |-> 0, dead |-> {}]

Goto(t, place) == job' = [job EXCEPT ![t].at = place]
Finish(t)      == job' = [job EXCEPT ![t] = Idle]

-----------------------------------------------------------------------------
KeptForeign(t) ==  \* mutant: a redeemed link is superseded as well
    LET stale(l) == job[t].read >= pending[l].expires \/ owner[l] = job[t].email
    IN  Restrict(pending, {l \in DOMAIN pending : ~stale(l)})

(* _forget_stale: the links a new one for the address leaves in the table. *)
Kept(t) ==
    LET stale(l) == \/ job[t].read >= pending[l].expires
                    \/ owner[l] = job[t].email /\ pending[l].used = Unused
    IN  Restrict(pending, {l \in DOMAIN pending : ~stale(l)})

Full(t) == Cardinality(DOMAIN Kept(t)) >= MaxPending

(* request_login reads the clock before it asks for the lock.              *)
Ask(t, e) ==
    /\ job[t].at = "idle"
    /\ Len(owner) + Cardinality({u \in Threads : job[u].at = "ask"}) < MaxLinks
    /\ job' = [job EXCEPT ![t] = [Idle EXCEPT !.at = "ask", !.email = e, !.read = now]]
    /\ UNCHANGED <<now, links, rows, sessions, failures, history>>

(* Under the lock: the link is filed, then mailed.                         *)
Issue(t) ==
    /\ job[t].at = "ask" /\ ~Full(t)
    /\ owner' = Append(owner, job[t].email)
    /\ LET new == Len(owner) + 1
       IN  pending' = [l \in DOMAIN Kept(t) \cup {new} |->
                         IF l = new THEN [expires |-> job[t].read + LinkTtl, used |-> Unused]
                                    ELSE pending[l]]
    /\ Finish(t)
    /\ UNCHANGED <<now, rows, sessions, failures, history>>

(* MagicLinkThrottled                                                      *)
Throttle(t) ==
    /\ job[t].at = "ask" /\ Full(t)
    /\ pending' = Kept(t)
    /\ Finish(t)
    /\ UNCHANGED <<now, owner, rows, sessions, failures, history>>

-----------------------------------------------------------------------------
(* redeem reads the clock before it asks for the lock.                     *)
Redeem(t, l) ==
    /\ job[t].at = "idle" /\ Len(rows) < MaxDraws
    /\ job' = [job EXCEPT ![t] = [Idle EXCEPT !.at = "redeem", !.link = l, !.read = now]]
    /\ UNCHANGED <<now, links, rows, sessions, failures, history>>

Known(t)       == job[t].link \in DOMAIN pending
UsableTwice(t) == Known(t) /\ job[t].read < pending[job[t].link].expires  \* mutant
Usable(t) == Known(t) /\ pending[job[t].link].used = Unused
                      /\ job[t].read < pending[job[t].link].expires

Consume(t) ==
    /\ job[t].at = "redeem" /\ Usable(t)
    /\ pending' = [pending EXCEPT ![job[t].link].used = job[t].read]
    /\ job' = [job EXCEPT ![t].at = "retire", ![t].email = owner[job[t].link]]
    /\ UNCHANGED <<now, owner, rows, sessions, failures, history>>

(* MagicLinkUnknown, MagicLinkAlreadyUsed, MagicLinkExpired                *)
RefuseLink(t) ==
    /\ job[t].at = "redeem" /\ ~Usable(t)
    /\ Finish(t)
    /\ UNCHANGED <<now, links, rows, sessions, failures, history>>

-----------------------------------------------------------------------------
(* vault.issue is two statements: the address's current pseudonym is       *)
(* retired, and a fresh one is recorded.                                   *)
Retired(e) == [p \in DOMAIN rows |->
                 IF rows[p].email = e THEN [rows[p] EXCEPT !.active = FALSE] ELSE rows[p]]
Recorded(e) == Append(rows, [email |-> e, active |-> TRUE])

Retire(t) ==
    /\ job[t].at = "retire"
    /\ rows' = Retired(job[t].email)
    /\ Goto(t, "record")
    /\ UNCHANGED <<now, links, sessions, failures, history>>

RecordLost(t) ==  \* mutant: the pseudonym is handed out and not recorded
    /\ job[t].at = "record"
    /\ job' = [job EXCEPT ![t].at = "admit", ![t].psn = Len(rows) + 1]
    /\ UNCHANGED <<now, links, rows, sessions, failures, history>>

Record(t) ==
    /\ job[t].at = "record"
    /\ rows' = Recorded(job[t].email)
    /\ job' = [job EXCEPT ![t].at = "admit", ![t].psn = Len(rows) + 1]
    /\ UNCHANGED <<now, links, sessions, failures, history>>

VaultRaises(t) ==
    /\ failures < MaxFailures /\ failures' = failures + 1
    /\ \/ job[t].at = "retire" /\ rows' \in {rows, Retired(job[t].email)}
       \/ job[t].at = "record" /\ rows' \in {rows, Recorded(job[t].email)}
    /\ UNCHANGED <<now, links, sessions, history>>

VaultFailsInStore(t) ==  \* mutant: a failed redraw counts as the store's failure
    VaultRaises(t) /\ IF job[t].final THEN Finish(t) ELSE Goto(t, "rearm")

(* A statement raises, having taken effect or not; the store is not        *)
(* entered, or was left for the redraw, so the link is given back.         *)
VaultFails(t) == VaultRaises(t) /\ Goto(t, "rearm")

-----------------------------------------------------------------------------
(* The store raised and did not refuse: the link stays used.               *)
Burn(t) == broken' = broken \cup {job[t].link} /\ Finish(t)

(* vault.active: the last of the address's rows that is not retired.       *)
Current(e, p) ==
    /\ rows[p].email = e /\ rows[p].active
    /\ \A q \in DOMAIN rows : q > p => ~(rows[q].email = e /\ rows[q].active)

Admit(t) ==
    /\ job[t].at = "admit" /\ Current(job[t].email, job[t].psn)
    /\ job' = [job EXCEPT ![t].at = "sweep", ![t].final = FALSE]
    /\ UNCHANGED <<now, links, rows, sessions, failures, history>>

(* vault.resolve or vault.active raises, from inside the session store.    *)
AdmitFails(t) ==
    /\ job[t].at = "admit" /\ failures < MaxFailures
    /\ failures' = failures + 1
    /\ Burn(t)
    /\ UNCHANGED <<now, links, rows, sessions, opened>>

(* RetiredPseudonym: drawn once more, and only once.                       *)
Redraw(t) ==
    /\ job[t].at = "admit" /\ ~Current(job[t].email, job[t].psn) /\ ~job[t].final
    /\ job' = [job EXCEPT ![t].at = "retire", ![t].final = TRUE]
    /\ UNCHANGED <<now, links, rows, sessions, failures, history>>

RefuseRetired(t) ==
    /\ job[t].at = "admit" /\ ~Current(job[t].email, job[t].psn) /\ job[t].final
    /\ Goto(t, "rearm")
    /\ UNCHANGED <<now, links, rows, sessions, failures, history>>

-----------------------------------------------------------------------------
Live == DOMAIN sessions

(* _forget_expired goes through the table; with nothing in it it is over.  *)
BeginSweep(t) ==
    /\ job[t].at = "sweep"
    /\ job' = [job EXCEPT ![t].at = IF Live = {} THEN "check" ELSE "scan",
                          ![t].opens = now, ![t].size = Cardinality(Live)]
    /\ UNCHANGED <<now, links, rows, sessions, failures, history>>

Expired(t) == {p \in Live : job[t].opens >= sessions[p]}

EndSweep(t) ==
    /\ job[t].at = "scan" /\ Cardinality(Live) = job[t].size
    /\ job' = [job EXCEPT ![t].at = "drop", ![t].size = 0, ![t].dead = Expired(t)]
    /\ UNCHANGED <<now, links, rows, sessions, failures, history>>

(* RuntimeError: the table has changed size during the iteration.          *)
SweepFails(t) ==
    /\ job[t].at = "scan" /\ Cardinality(Live) # job[t].size
    /\ Burn(t)
    /\ UNCHANGED <<now, links, rows, sessions, failures, opened>>

Drop(t) ==
    /\ job[t].at = "drop" /\ job[t].dead \subseteq Live
    /\ sessions' = Restrict(sessions, Live \ job[t].dead)
    /\ job' = [job EXCEPT ![t].at = "check", ![t].dead = {}]
    /\ UNCHANGED <<now, links, rows, failures, history>>

(* KeyError: another sweep, a lookup or a sign-out was first with one; the *)
(* ones before it in the list are gone.                                    *)
DropFails(t) ==
    /\ job[t].at = "drop" /\ ~(job[t].dead \subseteq Live)
    /\ \E gone \in SUBSET (job[t].dead \cap Live) : sessions' = Restrict(sessions, Live \ gone)
    /\ Burn(t)
    /\ UNCHANGED <<now, links, rows, failures, opened>>

NoCeiling(t) ==  \* mutant: sessions without a ceiling
    /\ job[t].at = "check"
    /\ Goto(t, "insert")
    /\ UNCHANGED <<now, links, rows, sessions, failures, history>>

BelowCeiling(t) ==
    /\ job[t].at = "check" /\ Cardinality(Live) < MaxSessions
    /\ Goto(t, "insert")
    /\ UNCHANGED <<now, links, rows, sessions, failures, history>>

(* SessionsExhausted                                                       *)
Exhausted(t) ==
    /\ job[t].at = "check" /\ Cardinality(Live) >= MaxSessions
    /\ Goto(t, "rearm")
    /\ UNCHANGED <<now, links, rows, sessions, failures, history>>

Insert(t) ==
    /\ job[t].at = "insert"
    /\ sessions' = [p \in Live \cup {job[t].psn} |->
                      IF p = job[t].psn THEN job[t].opens + SessionTtl ELSE sessions[p]]
    /\ opened' = [opened EXCEPT ![job[t].link] = @ + 1]
    /\ Finish(t)
    /\ UNCHANGED <<now, links, rows, failures, broken>>

-----------------------------------------------------------------------------
SupersededByUnused(l) ==  \* mutant: a newer link that was redeemed does not count
    \E k \in DOMAIN pending : k > l /\ owner[k] = owner[l] /\ pending[k].used = Unused

Superseded(l) == \E k \in DOMAIN pending : k > l /\ owner[k] = owner[l]

(* A redemption that opened nothing gives the link back, unless the        *)
(* address has a newer one.                                                *)
Rearm(t) ==
    LET l == job[t].link IN
    /\ job[t].at = "rearm"
    /\ pending' = IF Known(t) /\ pending[l].used = job[t].read /\ ~Superseded(l)
                  THEN [pending EXCEPT ![l].used = Unused] ELSE pending
    /\ Finish(t)
    /\ UNCHANGED <<now, owner, rows, sessions, failures, history>>

-----------------------------------------------------------------------------
(* logout; the vault keeps the pseudonym retired or current as it is.      *)
SignOut(p) ==
    /\ p \in Live
    /\ sessions' = Restrict(sessions, Live \ {p})
    /\ UNCHANGED <<now, links, rows, job, failures, history>>

(* A lookup that finds its session run out drops it.                       *)
LookUp(p) ==
    /\ p \in Live /\ now >= sessions[p]
    /\ sessions' = Restrict(sessions, Live \ {p})
    /\ UNCHANGED <<now, links, rows, job, failures, history>>

Tick ==
    /\ now < MaxTime
    /\ Straddling \/ \A t \in Threads : job[t].at # "ask"
    /\ now' = now + 1
    /\ UNCHANGED <<links, rows, sessions, job, failures, history>>

Init ==
    /\ now = 0 /\ owner = <<>> /\ pending = <<>>
    /\ rows = <<>> /\ sessions = <<>>
    /\ job = [t \in Threads |-> Idle]
    /\ failures = 0
    /\ opened = [l \in 1..MaxLinks |-> 0] /\ broken = {}

Next ==
    \/ Tick
    \/ \E t \in Threads, e \in Emails : Ask(t, e)
    \/ \E t \in Threads, l \in Issued : Redeem(t, l)
    \/ \E t \in Threads :
          \/ Issue(t) \/ Throttle(t)
          \/ Consume(t) \/ RefuseLink(t)
          \/ Retire(t) \/ Record(t) \/ VaultFails(t)
          \/ Admit(t) \/ AdmitFails(t) \/ Redraw(t) \/ RefuseRetired(t)
          \/ BeginSweep(t) \/ EndSweep(t) \/ SweepFails(t) \/ Drop(t) \/ DropFails(t)
          \/ BelowCeiling(t) \/ Exhausted(t) \/ Insert(t)
          \/ Rearm(t)
    \/ \E p \in Live : SignOut(p) \/ LookUp(p)

Spec == Init /\ [][Next]_vars

-----------------------------------------------------------------------------
Places == {"idle", "ask", "redeem", "retire", "record", "admit", "sweep", "scan",
           "drop", "check", "insert", "rearm"}

(* The state's types: a session is about a pseudonym of the vault, and     *)
(* what the tables hold was issued.                                        *)
TypeOK ==
    /\ now \in 0..MaxTime /\ failures \in 0..MaxFailures
    /\ owner \in Seq(Emails) /\ Len(owner) <= MaxLinks
    /\ DOMAIN pending \subseteq Issued
    /\ \A l \in DOMAIN pending :
          pending[l] \in [expires : LinkTtl..(MaxTime + LinkTtl), used : 0..MaxTime \cup {Unused}]
    /\ rows \in Seq([email : Emails, active : BOOLEAN])
    /\ Live \subseteq DOMAIN rows
    /\ \A p \in Live : sessions[p] \in SessionTtl..(MaxTime + SessionTtl)
    /\ job \in [Threads -> [at : Places, email : Emails \cup {Nobody}, link : Issued \cup {0},
                            read : 0..MaxTime, psn : DOMAIN rows \cup {0}, final : BOOLEAN,
                            opens : 0..MaxTime, size : Nat, dead : SUBSET DOMAIN rows]]
    /\ opened \in [1..MaxLinks -> Nat] /\ broken \subseteq Issued

Newer(l)  == \E k \in Issued : k > l /\ owner[k] = owner[l]
InHand(l) == \E t \in Threads : job[t].link = l /\ job[t].at # "redeem"

(* A link opens one session at most, however its redemptions, their        *)
(* failures and the retries after a re-arm interleave (redeem).            *)
OneSessionPerLink == \A l \in Issued : opened[l] <= 1

(* A link the buyer has replaced never works again, not even when a        *)
(* redemption of it that was under way fails and gives it back             *)
(* (_superseded).  It needs the links to expire in issue order.            *)
SupersededStaysDead ==
    \A l \in DOMAIN pending : pending[l].used = Unused => ~Newer(l)

(* A link that was consumed and opened nothing is given back, unless it is *)
(* superseded or the store raised instead of refusing: a refusal at the    *)
(* ceiling, a lost rotation or a vault that fails burns none (redeem).     *)
NothingBurned ==
    \A l \in DOMAIN pending :
        pending[l].used # Unused /\ ~InHand(l)
            => opened[l] > 0 \/ Newer(l) \/ l \in broken

(* The promise of redeem as it is written: a link is consumed for a        *)
(* session, and only for a session.                                        *)
ConsumedForASession ==
    \A l \in DOMAIN pending :
        pending[l].used # Unused /\ ~InHand(l) => opened[l] > 0 \/ Newer(l)

(* The ceiling is read before the insert and without a lock, so it can be  *)
(* passed, but by fewer sessions than there are threads (open).            *)
SessionsNearCeiling ==
    Cardinality(Live) + Cardinality({t \in Threads : job[t].at = "insert"})
        <= MaxSessions + Cardinality(Threads) - 1

(* A link leaves the table when it has expired or when a newer one for its *)
(* address replaces it; a request that is shed evicts nobody's, its own    *)
(* buyer's included (request_login).                                       *)
NoEviction ==
    [][\A l \in DOMAIN pending \ DOMAIN pending' :
          \/ now >= pending[l].expires
          \/ pending[l].used = Unused /\ Newer(l)']_vars
=============================================================================
