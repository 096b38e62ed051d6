------------------------------ MODULE BumpCycle ------------------------------
(***************************************************************************)
(* SchedulerService.run_cycle in the one process that runs it: claim the   *)
(* due topics, bump them in batches through the forum, record each result  *)
(* in a transaction of its own, and stop early when the forum rejects the  *)
(* account.  Users edit and remove topics and change settings at any await *)
(* of the cycle, the cycle can fail at any await, and the process can be   *)
(* killed and restarted (with the vault locked) at any time.               *)
(*                                                                         *)
(* The claim transaction is one step here (ClaimProtocol shows why it may  *)
(* be), recording a result is two: what it reads, and what it commits.     *)
(***************************************************************************)
EXTENDS TopicSchedule, FiniteSets

CONSTANTS
  Topics,      \* topics.id; an id is never used twice
  BatchSize,   \* MAX_BATCH_SIZE
  ClaimLimit,  \* DEFAULT_CLAIM_LIMIT
  Lease,       \* DEFAULT_LEASE_SECONDS
  Interval,    \* settings.global_interval_seconds
  Schedule,    \* settings.retry_schedule
  Answers,     \* outcomes the forum gives in this instance
  RetryAfter,  \* delays the forum may ask for
  MaxTime,     \* bounds of the model: the clock,
  MaxEdits,    \*   user actions,
  MaxFaults    \*   failed cycles and restarts

ASSUME CycleAssumption ==
  /\ IsFiniteSet(Topics)
  /\ BatchSize \in Nat \ {0} /\ ClaimLimit \in Nat \ {0}
  /\ Lease \in Nat \ {0} /\ Interval \in Nat \ {0}
  /\ Schedule \in Seq(Nat \ {0}) /\ Schedule # <<>>
  /\ Answers \subseteq Outcomes /\ RetryAfter \subseteq Nat
  /\ MaxTime \in Nat /\ MaxEdits \in Nat /\ MaxFaults \in Nat
  /\ None \notin Nat

VARIABLES
  clock,
  unlocked,   \* RuntimeVault.is_unlocked
  settings,   \* [global |-> global_bump_enabled, paused |-> api_paused]
  migrating,  \* an encryption migration is not idle
  topic,      \* topic[t]: the row's [enabled, custom, last, next], None if removed
  due,        \* topics.schedule_due_at
  lease,      \* topics.lease_until
  retriedAt,  \* retriedAt[t]: created_at of t's automatic RETRY attempts
  pc,         \* where the cycle is
  now,        \* current: the time run_cycle was given
  queue,      \* claimed topics of the batches not yet sent
  batch,      \* topics of the batch sent to the forum, not yet answered
  results,    \* answers not yet recorded: [topic, outcome, retryAt]
  rejected,   \* account_paused
  read,       \* what the open _persist_result read: [topic, settings, count, at]
  report,     \* status the last cycle returned, "failed" if it raised
  mine,       \* history: topics the running (or last) cycle claimed
  seen,       \* history: outcomes of the running cycle
  doubt,      \* history: lease deadline of a job sent whose result is not recorded
  streak,     \* history: automatic retries recorded since the last success
  edits, faults

dbVars == <<settings, migrating, topic, due, lease, retriedAt>>
cycleVars == <<pc, now, queue, batch, results, rejected, read, report>>
historyVars == <<mine, seen, doubt, streak>>
vars == <<clock, unlocked, dbVars, cycleVars, historyVars, edits, faults>>

Instant == Nat \cup {None}
TopicRecord == [enabled : BOOLEAN, custom : Instant, last : Instant, next : Instant]
Settings == [global : BOOLEAN, paused : BOOLEAN]
Result == [topic : Topics, outcome : Outcomes, retryAt : Instant]
Reading == [topic : TopicRecord, settings : Settings, count : Nat, at : Nat]

TypeOK ==
  /\ clock \in Nat /\ unlocked \in BOOLEAN
  /\ settings \in Settings /\ migrating \in BOOLEAN
  /\ topic \in [Topics -> TopicRecord \cup {None}]
  /\ due \in [Topics -> Instant] /\ lease \in [Topics -> Instant]
  /\ retriedAt \in [Topics -> Seq(Nat)]
  /\ pc \in {"idle", "claim", "send", "wait", "record", "save", "release"}
  /\ now \in Nat
  /\ queue \in Seq(Topics) /\ batch \in Seq(Topics) /\ results \in Seq(Result)
  /\ rejected \in BOOLEAN
  /\ read \in Reading \cup {None}
  /\ report \in {"none", "disabled", "api_paused", "migrating", "ran", "failed"}
  /\ mine \subseteq Topics /\ seen \subseteq Outcomes
  /\ doubt \in [Topics -> Instant] /\ streak \in [Topics -> Nat]
  /\ edits \in Nat /\ faults \in Nat

\* A fresh topic: TopicService.add schedules it one interval after now.
Init ==
  /\ clock = Interval
  /\ unlocked = TRUE
  /\ settings = [global |-> TRUE, paused |-> FALSE]
  /\ migrating = FALSE
  /\ topic = [t \in Topics |->
                [enabled |-> TRUE, custom |-> None, last |-> None, next |-> Interval]]
  /\ due = [t \in Topics |-> Interval]
  /\ lease = [t \in Topics |-> None]
  /\ retriedAt = [t \in Topics |-> <<>>]
  /\ pc = "idle" /\ now = 0
  /\ queue = <<>> /\ batch = <<>> /\ results = <<>>
  /\ rejected = FALSE /\ read = None /\ report = "none"
  /\ mine = {} /\ seen = {}
  /\ doubt = [t \in Topics |-> None]
  /\ streak = [t \in Topics |-> 0]
  /\ edits = 0 /\ faults = 0

Stored == {t \in Topics : topic[t] # None}

-----------------------------------------------------------------------------
(* Claiming.                                                               *)

Gate == CASE ~settings.global -> "disabled"
          [] settings.paused -> "api_paused"
          [] migrating -> "migrating"
          [] OTHER -> "ran"

\* Mutant: the lease is not looked at.
ClaimableIfDue(t, n) ==
  /\ t \in Stored
  /\ due[t] # None /\ due[t] <= n

\* Mutant: a lease is never over.
ClaimableUnleased(t, n) ==
  /\ t \in Stored
  /\ due[t] # None /\ due[t] <= n
  /\ lease[t] = None

Claimable(t, n) ==
  /\ t \in Stored
  /\ due[t] # None /\ due[t] <= n
  /\ lease[t] = None \/ lease[t] <= n

\* ORDER BY schedule_due_at, id LIMIT ClaimLimit.  Ids are random, so topics
\* due at the same time come in any order.
ClaimOrders(n) ==
  LET eligible == {t \in Topics : Claimable(t, n)}
      count == IF Cardinality(eligible) < ClaimLimit THEN Cardinality(eligible)
               ELSE ClaimLimit
  IN  {s \in [1 .. count -> eligible] :
         /\ \A i, j \in 1 .. count : i < j => s[i] # s[j] /\ due[s[i]] <= due[s[j]]
         /\ \A i \in 1 .. count, t \in eligible :
              due[t] < due[s[i]] => \E j \in 1 .. count : s[j] = t}

\* The topics of order that are in S, in the order they have there.
Among(order, S) ==
  LET at == {i \in DOMAIN order : order[i] \in S}
  IN  [k \in 1 .. Cardinality(at) |->
         order[CHOOSE i \in at : Cardinality({j \in at : j <= i}) = k]]

EndCycle(status) ==
  /\ pc' = "idle"
  /\ report' = status
  /\ queue' = <<>> /\ batch' = <<>> /\ results' = <<>>
  /\ rejected' = FALSE
  /\ read' = None

\* Mutant: an exception ends the loop too.
BeginCycleUntilFailure ==
  /\ pc = "idle"
  /\ unlocked
  /\ report # "failed"
  /\ pc' = "claim"
  /\ now' = clock
  /\ mine' = {} /\ seen' = {}
  /\ UNCHANGED <<clock, unlocked, dbVars, queue, batch, results, rejected, read,
                 report, doubt, streak, edits, faults>>

\* _scheduler_loop calls run_cycle with the current time; a locked vault ends
\* the cycle at once.
BeginCycle ==
  /\ pc = "idle"
  /\ unlocked
  /\ pc' = "claim"
  /\ now' = clock
  /\ mine' = {} /\ seen' = {}
  /\ UNCHANGED <<clock, unlocked, dbVars, queue, batch, results, rejected, read,
                 report, doubt, streak, edits, faults>>

\* _claim, when a gate is closed.
ClaimRefused ==
  /\ pc = "claim"
  /\ Gate # "ran"
  /\ EndCycle(Gate)
  /\ UNCHANGED <<clock, unlocked, dbVars, now, historyVars, edits, faults>>

\* _claim: lease the candidates that are enabled; unschedule the others (there
\* are none while every save is one step, see TopicStore for those).
Claim ==
  /\ pc = "claim"
  /\ Gate = "ran"
  /\ \E order \in ClaimOrders(now) :
       LET tried == {order[i] : i \in DOMAIN order}
           stale == {t \in tried : ~topic[t].enabled}
           taken == Among(order, tried \ stale)
       IN  /\ lease' = [t \in Topics |->
                          IF t \in tried \ stale THEN now + Lease
                          ELSE IF t \in stale THEN None ELSE lease[t]]
           /\ due' = [t \in Topics |-> IF t \in stale THEN None ELSE due[t]]
           /\ mine' = tried \ stale
           /\ IF taken = <<>>
                THEN EndCycle("ran")
                ELSE /\ pc' = "send"
                     /\ queue' = taken
                     /\ UNCHANGED <<batch, results, rejected, read, report>>
  /\ UNCHANGED <<clock, unlocked, settings, migrating, topic, retriedAt, now,
                 seen, doubt, streak, edits, faults>>

-----------------------------------------------------------------------------
(* Bumping and recording.                                                  *)

\* bump_batch sends the next batch; from here on the forum may have bumped.
SendBatch ==
  /\ pc = "send"
  /\ LET n == IF Len(queue) < BatchSize THEN Len(queue) ELSE BatchSize
     IN  /\ batch' = SubSeq(queue, 1, n)
         /\ queue' = SubSeq(queue, n + 1, Len(queue))
         /\ doubt' = [t \in Topics |->
                        IF \E i \in 1 .. n : queue[i] = t THEN now + Lease ELSE doubt[t]]
  /\ rejected' = FALSE
  /\ pc' = "wait"
  /\ UNCHANGED <<clock, unlocked, dbVars, now, results, read, report, mine,
                 seen, streak, edits, faults>>

\* The results of a batch, one per job: a job the forum leaves out, a network
\* error and an unusable body are results too (RETRY and ERROR).  ForumClient
\* gives no others (RepliesAreResults, in BumpCycle_proofs).
PossibleResults ==
  {r \in [DOMAIN batch -> [topic : Topics, outcome : Answers,
                          retryAt : {None} \cup {clock + d : d \in RetryAfter}]] :
     \A i \in DOMAIN batch : /\ r[i].topic = batch[i]
                             /\ r[i].retryAt # None => r[i].outcome = "retry"}

ReceiveAnswers ==
  /\ pc = "wait"
  /\ results' \in PossibleResults
  /\ batch' = <<>>
  /\ pc' = "record"
  /\ UNCHANGED <<clock, unlocked, dbVars, now, queue, rejected, read, report,
                 historyVars, edits, faults>>

\* Mutant: the last result of the batch alone decides whether to go on.
NextResultLastDecides ==
  LET stop == Head(results).outcome \in Rejections
  IN  /\ UNCHANGED mine
      /\ seen' = seen \cup {Head(results).outcome}
      /\ CASE Len(results) > 1 ->
                /\ results' = Tail(results) /\ rejected' = stop /\ pc' = "record"
                /\ read' = None
                /\ UNCHANGED <<queue, batch, report>>
           [] Len(results) = 1 /\ queue # <<>> ->
                /\ results' = <<>> /\ rejected' = stop
                /\ pc' = IF stop THEN "release" ELSE "send"
                /\ read' = None
                /\ UNCHANGED <<queue, batch, report>>
           [] OTHER -> EndCycle("ran")

\* The result at the head is dealt with; go on with the next one, the next
\* batch, the release of what is left, or the end of the cycle.
NextResult ==
  LET stop == rejected \/ Head(results).outcome \in Rejections
  IN  /\ UNCHANGED mine
      /\ seen' = seen \cup {Head(results).outcome}
      /\ CASE Len(results) > 1 ->
                /\ results' = Tail(results) /\ rejected' = stop /\ pc' = "record"
                /\ read' = None
                /\ UNCHANGED <<queue, batch, report>>
           [] Len(results) = 1 /\ queue # <<>> ->
                /\ results' = <<>> /\ rejected' = stop
                /\ pc' = IF stop THEN "release" ELSE "send"
                /\ read' = None
                /\ UNCHANGED <<queue, batch, report>>
           [] OTHER -> EndCycle("ran")

\* Mutant: every retry ever counts.
RetryCountEver(t, since) == Len(retriedAt[t])

\* Mutant: one too few.
RetryCountBefore(t, since) == Len(retriedAt[t]) - 1

\* AttemptRepository.retry_count: automatic RETRY attempts after last_success_at.
RetryCount(t, since) ==
  Cardinality({i \in DOMAIN retriedAt[t] : since = None \/ retriedAt[t][i] > since})

\* _persist_result, its reads.  A topic removed meanwhile has no result.
ReadForResult ==
  /\ pc = "record"
  /\ LET t == Head(results).topic
     IN  IF t \in Stored
           THEN /\ read' = [topic |-> topic[t], settings |-> settings,
                            count |-> RetryCount(t, topic[t].last), at |-> clock]
                /\ pc' = "save"
                /\ UNCHANGED <<queue, batch, results, rejected, report, historyVars>>
           ELSE /\ NextResult
                /\ UNCHANGED <<doubt, streak>>
  /\ UNCHANGED <<clock, unlocked, dbVars, now, edits, faults>>

\* _persist_result, its writes: the attempt, the whole topic record as read
\* and updated, the cleared lease and, after a rejection, the whole settings
\* record as read with the pause set, in one transaction.
CommitResult ==
  /\ pc = "save"
  /\ LET result == Head(results)
         t == result.topic
         updated == UpdatedTopic(read.topic, result.outcome, result.retryAt,
                                 Interval, Schedule, read.count, now)
     IN  /\ t \in Stored
         /\ topic' = [topic EXCEPT ![t] = updated]
         /\ due' = [due EXCEPT ![t] = DueAt(updated)]
         /\ lease' = [lease EXCEPT ![t] = None]
         /\ retriedAt' = IF result.outcome = "retry"
                           THEN [retriedAt EXCEPT ![t] = Append(@, read.at)]
                           ELSE retriedAt
         /\ settings' = IF result.outcome \in Rejections
                          THEN [read.settings EXCEPT !.paused = TRUE]
                          ELSE settings
         /\ doubt' = [doubt EXCEPT ![t] = None]
         /\ streak' = [streak EXCEPT ![t] =
                         CASE result.outcome = "success" -> 0
                           [] result.outcome = "retry" -> @ + 1
                           [] OTHER -> @]
  /\ NextResult
  /\ UNCHANGED <<clock, unlocked, migrating, now, edits, faults>>

\* The topic went between the reads and the writes: inserting its attempt
\* violates the foreign key, and the exception ends the cycle.
CommitFails ==
  /\ pc = "save"
  /\ Head(results).topic \notin Stored
  /\ EndCycle("failed")
  /\ UNCHANGED <<clock, unlocked, dbVars, now, historyVars, edits, faults>>

\* Mutant: the cycle stops without releasing anything.
StopWithoutRelease ==
  /\ pc = "release"
  /\ EndCycle("ran")
  /\ UNCHANGED <<clock, unlocked, dbVars, now, historyVars, edits, faults>>

\* _release_leases: the batches not sent give their topics back.
ReleaseLeases ==
  /\ pc = "release"
  /\ lease' = [t \in Topics |->
                 IF t \in Stored /\ \E i \in DOMAIN queue : queue[i] = t
                   THEN None ELSE lease[t]]
  /\ EndCycle("ran")
  /\ UNCHANGED <<clock, unlocked, settings, migrating, topic, due, retriedAt, now,
                 historyVars, edits, faults>>

\* An exception anywhere else in the cycle (database, token provider, answer
\* parsing): the loop logs it; what was claimed and not recorded stays leased.
CycleRaises ==
  /\ pc # "idle"
  /\ faults < MaxFaults
  /\ faults' = faults + 1
  /\ EndCycle("failed")
  /\ UNCHANGED <<clock, unlocked, dbVars, now, historyVars, edits>>

\* The process is killed and started again: memory, the vault's key included,
\* is gone, the database stays.
Restart ==
  /\ faults < MaxFaults
  /\ faults' = faults + 1
  /\ EndCycle("failed")
  /\ unlocked' = FALSE
  /\ UNCHANGED <<clock, dbVars, now, historyVars, edits>>

-----------------------------------------------------------------------------
(* Users and time.  A user action here is one transaction; overlapping     *)
(* transactions of handlers are the subject of TopicStore.                 *)

UserStep ==
  /\ edits < MaxEdits
  /\ edits' = edits + 1
  /\ UNCHANGED <<clock, cycleVars, historyVars, faults>>

\* set_enabled saves the topic record; the lease column is not part of it.
SetEnabled(t, enabled) ==
  /\ UserStep
  /\ t \in Stored
  /\ LET updated == [topic[t] EXCEPT !.enabled = enabled,
                                     !.next = IF enabled THEN clock + Interval ELSE @]
     IN  /\ topic' = [topic EXCEPT ![t] = updated]
         /\ due' = [due EXCEPT ![t] = DueAt(updated)]
  /\ UNCHANGED <<unlocked, settings, migrating, lease, retriedAt>>

\* remove deletes the row and, by ON DELETE CASCADE, its attempts.
Remove(t) ==
  /\ UserStep
  /\ t \in Stored
  /\ topic' = [topic EXCEPT ![t] = None]
  /\ due' = [due EXCEPT ![t] = None]
  /\ lease' = [lease EXCEPT ![t] = None]
  /\ retriedAt' = [retriedAt EXCEPT ![t] = <<>>]
  /\ UNCHANGED <<unlocked, settings, migrating>>

SetGlobalEnabled ==
  /\ UserStep
  /\ settings' = [settings EXCEPT !.global = ~@]
  /\ UNCHANGED <<unlocked, migrating, topic, due, lease, retriedAt>>

ClearApiPause ==
  /\ UserStep
  /\ settings.paused
  /\ settings' = [settings EXCEPT !.paused = FALSE]
  /\ UNCHANGED <<unlocked, migrating, topic, due, lease, retriedAt>>

SetMigrating ==
  /\ UserStep
  /\ migrating' = ~migrating
  /\ UNCHANGED <<unlocked, settings, topic, due, lease, retriedAt>>

\* The owner enters the password after a restart.
Unlock ==
  /\ ~unlocked
  /\ unlocked' = TRUE
  /\ UNCHANGED <<clock, dbVars, cycleVars, historyVars, edits, faults>>

Tick ==
  /\ clock < MaxTime
  /\ clock' = clock + 1
  /\ UNCHANGED <<unlocked, dbVars, cycleVars, historyVars, edits, faults>>

-----------------------------------------------------------------------------
CycleStep ==
  \/ ClaimRefused
  \/ Claim
  \/ SendBatch
  \/ ReceiveAnswers
  \/ ReadForResult
  \/ CommitResult
  \/ CommitFails
  \/ ReleaseLeases

Next ==
  \/ BeginCycle
  \/ CycleStep
  \/ CycleRaises
  \/ Restart
  \/ \E t \in Topics : \/ \E enabled \in BOOLEAN : SetEnabled(t, enabled)
                       \/ Remove(t)
  \/ SetGlobalEnabled
  \/ ClearApiPause
  \/ SetMigrating
  \/ Unlock
  \/ Tick

Spec == Init /\ [][Next]_vars

\* The loop starts cycle after cycle and a running cycle goes on: PostgreSQL
\* answers, every forum request ends (httpx timeout) and the clock moves.
\* Users, failures and restarts are not fair, and neither is unlocking.
FairSpec ==
  /\ Spec
  /\ WF_vars(BeginCycle)
  /\ WF_vars(CycleStep)
  /\ WF_vars(Tick)

-----------------------------------------------------------------------------
(* Properties.                                                             *)

InCycle == {queue[i] : i \in DOMAIN queue} \cup {batch[i] : i \in DOMAIN batch}
             \cup {results[i].topic : i \in DOMAIN results}

\* A cycle that ends by itself leaves none of its leases behind, also when it
\* stopped early or topics were removed under it.
NoLeaseLeftBehind ==
  pc = "idle" /\ report = "ran" => \A t \in mine \cap Stored : lease[t] # now + Lease

\* Once the forum has rejected the account, the cycle sends no further batch.
NoBatchAfterRejection == pc = "wait" => seen \cap Rejections = {}

\* A topic whose last job was sent and never recorded (a failure or a restart
\* came between) is sent again only when that job's lease has run out.
InDoubtWaitsForLease ==
  [][\A t \in Topics :
       doubt'[t] # doubt[t] /\ doubt'[t] # None
         => doubt[t] = None \/ doubt[t] <= now]_vars

\* The n-th automatic retry in a row waits for the n-th delay of the schedule
\* (its last one from then on), counted since the last success over cycles,
\* failures and restarts.
RetriesFollowSchedule ==
  [][\A t \in Topics :
       streak'[t] > streak[t] /\ Head(results).retryAt = None
         => topic'[t].next =
              now + Schedule[IF streak'[t] > Len(Schedule) THEN Len(Schedule)
                             ELSE streak'[t]]]_vars

\* Nothing but the cycle stands between topic t and its next bump, which comes
\* before the model's clock stops.
Servable(t) ==
  /\ unlocked /\ Gate = "ran"
  /\ due[t] # None /\ due[t] <= MaxTime
  /\ lease[t] = None \/ lease[t] <= MaxTime

\* A job that was sent and whose result was not recorded, because the removal
\* of another topic of its batch made the cycle fail, or an exception or a
\* restart ended it, does not stay in doubt: its topic is bumped and recorded
\* after all, unless from some time on it is no more to be bumped (removed or
\* unscheduled, a gate closed, the vault locked).
JobsInDoubtAreSettled ==
  \A t \in Topics :
    []<>Servable(t) => (doubt[t] # None ~> doubt[t] = None)

\* A due topic that nobody holds is not forgotten: it is leased, unscheduled
\* or removed, unless a gate is closed or the vault locked.
DueIsServed ==
  \A t \in Topics :
    Claimable(t, clock)
      ~> ~Claimable(t, clock) \/ Gate # "ran" \/ ~unlocked
=============================================================================
