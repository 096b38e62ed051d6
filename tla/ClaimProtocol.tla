---------------------------- MODULE ClaimProtocol ----------------------------
(***************************************************************************)
(* How scheduler processes share the due topics: the claim transaction of  *)
(* SchedulerRepository.claim_due, one statement per step, run by several   *)
(* processes against one PostgreSQL database (READ COMMITTED), and what    *)
(* the rest of the cycle does to the leases it took.                       *)
(*                                                                         *)
(* A statement reads committed rows, a transaction's writes appear at its  *)
(* commit, and a crash or an error rolls the open transaction back.  Users *)
(* edit and remove topics meanwhile.  The forum call and what is recorded  *)
(* of it are left to BumpCycle; here a finished topic may become due again *)
(* at any time.                                                            *)
(***************************************************************************)
EXTENDS Naturals, FiniteSets

CONSTANTS
  Schedulers,  \* processes that run the scheduler loop
  Topics,      \* topics.id; an id is never used twice
  DueTimes,    \* values schedule_due_at takes, a finite part of the time line
  Lease,       \* DEFAULT_LEASE_SECONDS
  ClaimLimit,  \* DEFAULT_CLAIM_LIMIT
  MaxTime,     \* bounds of the model: the clock,
  MaxEdits,    \*   and what users do
  None         \* SQL NULL

ASSUME ClaimAssumption ==
  /\ Lease \in Nat \ {0}        \* SchedulerService refuses other values
  /\ ClaimLimit \in Nat \ {0}   \* and so does claim_due
  /\ MaxTime \in Nat /\ MaxEdits \in Nat
  /\ DueTimes \subseteq Nat
  /\ None \notin Nat \cup Schedulers

VARIABLES
  clock,      \* wall clock shared by the processes
  open,       \* bumps globally enabled, API not paused, no migration running
  present,    \* topics that have a row
  enabled,    \* committed topics.auto_bump_enabled
  due,        \* committed topics.schedule_due_at
  lease,      \* committed topics.lease_until
  advisory,   \* advisory[t]: process holding the transaction-level lock of t
  pc,         \* pc[s]: where s is in its cycle
  now,        \* now[s]: the instant s began its cycle
  todo,       \* todo[s]: candidate ids s has still to try
  claimed,    \* claimed[s]: rows the open transaction of s leases
  repaired,   \* repaired[s]: rows it unschedules instead (not enabled)
  hold,       \* hold[s]: topics s has claimed and not yet finished
  late,       \* history: topics someone finished after its lease had run out
  edits

rowVars == <<present, enabled, due, lease>>
txnVars == <<advisory, todo, claimed, repaired>>
vars == <<clock, open, rowVars, txnVars, pc, now, hold, late, edits>>

Time == 0 .. MaxTime
Instant == Nat \cup {None}

TypeOK ==
  /\ clock \in Nat
  /\ open \in BOOLEAN
  /\ present \subseteq Topics
  /\ enabled \in [Topics -> BOOLEAN]
  /\ due \in [Topics -> Instant]
  /\ lease \in [Topics -> Instant]
  /\ advisory \in [Topics -> Schedulers \cup {None}]
  /\ pc \in [Schedulers -> {"idle", "gates", "select", "locking", "work"}]
  /\ now \in [Schedulers -> Nat]
  /\ todo \in [Schedulers -> SUBSET Topics]
  /\ claimed \in [Schedulers -> SUBSET Topics]
  /\ repaired \in [Schedulers -> SUBSET Topics]
  /\ hold \in [Schedulers -> SUBSET Topics]
  /\ late \subseteq Topics
  /\ edits \in Nat

Init ==
  /\ clock = 0
  /\ open = TRUE
  /\ present = Topics
  /\ enabled = [t \in Topics |-> TRUE]
  /\ due \in [Topics -> DueTimes]
  /\ lease = [t \in Topics |-> None]
  /\ advisory = [t \in Topics |-> None]
  /\ pc = [s \in Schedulers |-> "idle"]
  /\ now = [s \in Schedulers |-> 0]
  /\ todo = [s \in Schedulers |-> {}]
  /\ claimed = [s \in Schedulers |-> {}]
  /\ repaired = [s \in Schedulers |-> {}]
  /\ hold = [s \in Schedulers |-> {}]
  /\ late = {}
  /\ edits = 0

-----------------------------------------------------------------------------
(* The claim transaction.                                                  *)

IsDue(t, n) == due[t] # None /\ due[t] <= n
Unleased(t, n) == lease[t] = None \/ lease[t] <= n

\* The WHERE clause of the candidate query; claim_due repeats it per row.
Claimable(t, n) == t \in present /\ IsDue(t, n) /\ Unleased(t, n)

\* ORDER BY schedule_due_at LIMIT: the earliest due rows, at most ClaimLimit.
\* Rows of equal due time are ordered by id, an order nothing depends on.
Candidates(n) ==
  LET eligible == {t \in Topics : Claimable(t, n)}
  IN  {C \in SUBSET eligible :
         /\ \/ C = eligible /\ Cardinality(C) <= ClaimLimit
            \/ Cardinality(C) = ClaimLimit
         /\ \A t \in C, u \in eligible \ C : due[t] <= due[u]}

\* The end of a transaction of s, committed or not, releases its locks.
EndTxn(s) ==
  /\ advisory' = [t \in Topics |-> IF advisory[t] = s THEN None ELSE advisory[t]]
  /\ todo' = [todo EXCEPT ![s] = {}]
  /\ claimed' = [claimed EXCEPT ![s] = {}]
  /\ repaired' = [repaired EXCEPT ![s] = {}]

\* The loop calls run_cycle(datetime.now(UTC)).
BeginCycle(s) ==
  /\ pc[s] = "idle"
  /\ now' = [now EXCEPT ![s] = clock]
  /\ pc' = [pc EXCEPT ![s] = "gates"]
  /\ UNCHANGED <<clock, open, rowVars, txnVars, hold, late, edits>>

\* Settings and migration status, read at the head of the claim transaction.
CheckGates(s) ==
  /\ pc[s] = "gates"
  /\ pc' = [pc EXCEPT ![s] = IF open THEN "select" ELSE "idle"]
  /\ UNCHANGED <<clock, open, rowVars, txnVars, now, hold, late, edits>>

SelectCandidates(s) ==
  /\ pc[s] = "select"
  /\ \E C \in Candidates(now[s]) : todo' = [todo EXCEPT ![s] = C]
  /\ pc' = [pc EXCEPT ![s] = "locking"]
  /\ UNCHANGED <<clock, open, rowVars, advisory, claimed, repaired, now, hold, late, edits>>

\* Mutant: two sessions get the same advisory lock.
TryLockShared(s, t) ==
  /\ pc[s] = "locking"
  /\ t \in todo[s]
  /\ \A u \in todo[s] : advisory[u] # s
  /\ advisory' = [advisory EXCEPT ![t] = s]
  /\ UNCHANGED <<clock, open, rowVars, todo, claimed, repaired, pc, now, hold, late, edits>>

\* Mutant: pg_advisory_xact_lock, which waits.
TryLockBlocking(s, t) ==
  /\ pc[s] = "locking"
  /\ t \in todo[s]
  /\ \A u \in todo[s] : advisory[u] # s
  /\ advisory[t] = None
  /\ advisory' = [advisory EXCEPT ![t] = s]
  /\ UNCHANGED <<clock, open, rowVars, todo, claimed, repaired, pc, now, hold, late, edits>>

\* pg_try_advisory_xact_lock never waits: a locked candidate is skipped.  The
\* code tries candidates by due time and id; here they come in any order.
TryLock(s, t) ==
  /\ pc[s] = "locking"
  /\ t \in todo[s]
  /\ \A u \in todo[s] : advisory[u] # s
  /\ IF advisory[t] = None
       THEN advisory' = [advisory EXCEPT ![t] = s] /\ UNCHANGED todo
       ELSE todo' = [todo EXCEPT ![s] = @ \ {t}] /\ UNCHANGED advisory
  /\ UNCHANGED <<clock, open, rowVars, claimed, repaired, pc, now, hold, late, edits>>

\* Mutant: only the due time is tested again.
RecheckDueOnly(s, t) ==
  /\ pc[s] = "locking"
  /\ t \in todo[s]
  /\ advisory[t] = s
  /\ todo' = [todo EXCEPT ![s] = @ \ {t}]
  /\ claimed' = IF t \in present /\ IsDue(t, now[s]) /\ enabled[t]
                  THEN [claimed EXCEPT ![s] = @ \cup {t}] ELSE claimed
  /\ UNCHANGED <<clock, open, rowVars, advisory, repaired, pc, now, hold, late, edits>>

\* Under the lock the row is read again and its conditions are tested again.
Recheck(s, t) ==
  /\ pc[s] = "locking"
  /\ t \in todo[s]
  /\ advisory[t] = s
  /\ todo' = [todo EXCEPT ![s] = @ \ {t}]
  /\ claimed' = IF Claimable(t, now[s]) /\ enabled[t]
                  THEN [claimed EXCEPT ![s] = @ \cup {t}] ELSE claimed
  /\ repaired' = IF Claimable(t, now[s]) /\ ~enabled[t]
                   THEN [repaired EXCEPT ![s] = @ \cup {t}] ELSE repaired
  /\ UNCHANGED <<clock, open, rowVars, advisory, pc, now, hold, late, edits>>

\* flush and COMMIT: the leases appear, the locks go.  (A row is in fact written
\* by the autoflush of the statement after its Recheck; nobody sees it before
\* the commit, and the row lock it takes only delays users and is left out.)
CommitClaim(s) ==
  /\ pc[s] = "locking"
  /\ todo[s] = {}
  /\ claimed[s] \cup repaired[s] \subseteq present
  /\ lease' = [t \in Topics |-> IF t \in claimed[s] THEN now[s] + Lease
                                ELSE IF t \in repaired[s] THEN None
                                ELSE lease[t]]
  /\ due' = [t \in Topics |-> IF t \in repaired[s] THEN None ELSE due[t]]
  /\ hold' = [hold EXCEPT ![s] = claimed[s]]
  /\ pc' = [pc EXCEPT ![s] = IF claimed[s] = {} THEN "idle" ELSE "work"]
  /\ EndTxn(s)
  /\ UNCHANGED <<clock, open, present, enabled, now, late, edits>>

\* A row was deleted since it was read: its UPDATE matches nothing, flush
\* raises StaleDataError and nothing is claimed at all.
ClaimFails(s) ==
  /\ pc[s] = "locking"
  /\ todo[s] = {}
  /\ ~(claimed[s] \cup repaired[s] \subseteq present)
  /\ pc' = [pc EXCEPT ![s] = "idle"]
  /\ EndTxn(s)
  /\ UNCHANGED <<clock, open, rowVars, now, hold, late, edits>>

-----------------------------------------------------------------------------
(* The rest of the cycle, as far as leases go.                             *)

\* clear_lease does not look whose lease it clears.
DropLeases(s, T) ==
  /\ lease' = [t \in Topics |-> IF t \in T \cap present THEN None ELSE lease[t]]
  /\ hold' = [hold EXCEPT ![s] = @ \ T]
  /\ late' = IF clock >= now[s] + Lease THEN late \cup T ELSE late
  /\ pc' = [pc EXCEPT ![s] = IF hold[s] \subseteq T THEN "idle" ELSE "work"]

\* _persist_result: the result is saved with a new due time, the lease cleared.
PersistResult(s, t) ==
  /\ pc[s] = "work"
  /\ t \in hold[s]
  /\ DropLeases(s, {t})
  /\ \/ t \notin present /\ UNCHANGED due
     \/ t \in present /\ \E d \in DueTimes \cup {None} : due' = [due EXCEPT ![t] = d]
  /\ UNCHANGED <<clock, open, present, enabled, txnVars, now, edits>>

\* _release_leases: after an authorization failure the later batches give
\* their topics back.
ReleaseLeases(s) ==
  /\ pc[s] = "work"
  /\ DropLeases(s, hold[s])
  /\ UNCHANGED <<clock, open, present, enabled, due, txnVars, now, edits>>

\* The process dies, or an exception ends the cycle (the loop logs it and goes
\* on): the open transaction rolls back, claimed leases stay.
AbandonCycle(s) ==
  /\ pc[s] # "idle"
  /\ pc' = [pc EXCEPT ![s] = "idle"]
  /\ hold' = [hold EXCEPT ![s] = {}]
  /\ EndTxn(s)
  /\ UNCHANGED <<clock, open, rowVars, now, late, edits>>

-----------------------------------------------------------------------------
(* Users and time.                                                         *)

\* MaxEdits bounds what users do in a behaviour.
UserStep == edits < MaxEdits /\ edits' = edits + 1

\* A bot handler saves a topic.  Concurrent saves can leave a disabled topic
\* with a due time (module TopicStore), so the two columns vary independently.
EditTopic(t) ==
  /\ t \in present
  /\ \E e \in BOOLEAN, d \in DueTimes \cup {None} :
       /\ enabled' = [enabled EXCEPT ![t] = e]
       /\ due' = [due EXCEPT ![t] = d]
  /\ UserStep
  /\ UNCHANGED <<clock, open, present, lease, txnVars, pc, now, hold, late>>

RemoveTopic(t) ==
  /\ t \in present
  /\ present' = present \ {t}
  /\ UserStep
  /\ UNCHANGED <<clock, open, enabled, due, lease, txnVars, pc, now, hold, late>>

SetGates ==
  /\ open' = ~open
  /\ UserStep
  /\ UNCHANGED <<clock, rowVars, txnVars, pc, now, hold, late>>

Tick ==
  /\ clock < MaxTime
  /\ clock' = clock + 1
  /\ UNCHANGED <<open, rowVars, txnVars, pc, now, hold, late, edits>>

-----------------------------------------------------------------------------
ClaimStep(s) ==
  \/ CheckGates(s)
  \/ SelectCandidates(s)
  \/ \E t \in Topics : TryLock(s, t) \/ Recheck(s, t)
  \/ CommitClaim(s)
  \/ ClaimFails(s)

Next ==
  \/ \E s \in Schedulers :
       \/ BeginCycle(s)
       \/ ClaimStep(s)
       \/ \E t \in Topics : PersistResult(s, t)
       \/ ReleaseLeases(s)
       \/ AbandonCycle(s)
  \/ \E t \in Topics : EditTopic(t) \/ RemoveTopic(t)
  \/ SetGates
  \/ Tick

Spec == Init /\ [][Next]_vars

\* A process that runs keeps running: the event loop and PostgreSQL answer.
\* Nothing is assumed of users, of crashes or of the forum.
FairSpec == Spec /\ \A s \in Schedulers : WF_vars(ClaimStep(s))

-----------------------------------------------------------------------------
(* Properties.                                                             *)

Deadline(s) == now[s] + Lease

\* Two scheduler processes never both work on a topic under leases that are
\* still running, whatever the order of their statements, as long as nobody
\* has finished that topic after its own lease ran out: clear_lease would
\* then clear the lease of the process that took over.
OneLiveHolder ==
  \A t \in Topics \ late, r, s \in Schedulers :
    (t \in hold[r] /\ t \in hold[s] /\ r # s)
      => clock >= Deadline(r) \/ clock >= Deadline(s)

\* A claim in progress is alone: the rows two open claim transactions are
\* going to lease or unschedule are different ones.
OpenClaimsDisjoint ==
  \A r, s \in Schedulers :
    r # s => (claimed[r] \cup repaired[r]) \cap (claimed[s] \cup repaired[s]) = {}

\* The row still shows the lease of a live holder (or a later one), so that
\* the candidate query of every other process leaves the topic alone.
LiveHolderIsLeased ==
  \A s \in Schedulers : \A t \in (hold[s] \cap present) \ late :
    clock < Deadline(s) => lease[t] # None /\ lease[t] >= Deadline(s)

\* No step replaces a lease that is still running at the start of the cycle
\* that replaces it: it runs out or is cleared first.
LeaseReplacedOnlyWhenFree ==
  [][\A t \in Topics :
       lease'[t] # lease[t] /\ lease'[t] # None
         => lease[t] = None \/ lease[t] + Lease <= lease'[t]]_vars

\* Claiming never waits for another process's claim: a claim transaction that began
\* ends (with topics to work on, with none, or rolled back).
ClaimEnds == \A s \in Schedulers :
  pc[s] \in {"gates", "select", "locking"} ~> pc[s] \in {"idle", "work"}

\* Seen from outside, the claim transaction is one atomic step.
Table ==
  INSTANCE LeaseTable WITH
    Schedulers <- Schedulers, Topics <- Topics, Lease <- Lease, None <- None,
    clock <- clock, now <- now, lease <- lease, hold <- hold
ImplementsLeaseTable == Table!Spec
=============================================================================
