# lolzup: a TLA+ model of the bump bot

lolzup is a Telegram bot that keeps topics of a forum on top: the owner and
administrators register topics, and a scheduler asks the forum to bump each of
them once per interval. This directory holds TLA+ modules translated from the
Python source, the TLC configurations that check them on small instances, and
machine-checked proofs of the properties that matter most. Paths below are
relative to `src/src/lolzup/`.

Run a check with `tlc -workers 2 -config X.cfg MCModule.tla`, a proof with
`tlapm X_proofs.tla`. `PROJECT.json` lists every run, the source lines behind
every definition, the hazards each property is for, and for each property a
mutation of the model (a plausible bug) that breaks it.

## 1. The system

One asyncio process, one PostgreSQL database, two remote services (Telegram and
the forum's HTTP API).

* aiogram handles **every update as a task of its own**; updates of one user
  overlap. The FSM state of the dialogue is read when the update arrives and
  chooses the handler; `DependencyMiddleware` then opens one SQLAlchemy session
  for the update, commits it after the handler (and its Telegram requests)
  returned, and rolls it back on any exception; inside it
  `InputTimeoutMiddleware` cancels and re-creates the timer of the dialogue.
* The **scheduler loop** runs `SchedulerService.run_cycle` every 60 s, each of
  its transactions in a session of its own, and logs and swallows exceptions.
* Two wrappers **commit in the middle of a handler**: `SessionForumClient`
  before it asks the forum, `SessionNotificationSink` before it notifies.
* `db/repositories.py` saves **whole records**. A save SELECTs the row again,
  assigns every field, and SQLAlchemy UPDATEs the columns that differ from that
  SELECT; an encrypted column always differs (fresh nonce). PostgreSQL runs at
  READ COMMITTED: an UPDATE waits for the row lock and then applies to the row
  the other transaction left; one transaction of a wait cycle is aborted.

| Component | State | Operations | Hard behaviour | What makes it correct |
|---|---|---|---|---|
| claims and leases (`scheduler/repository.py`, `scheduler/service.py`) | `topics.lease_until`, `schedule_due_at`, advisory locks | `claim_due`, `clear_lease` | several processes, statement interleavings, expiry, crashes | no topic is worked on twice under running leases; claiming never waits |
| bump cycle (`scheduler/service.py`, loop in `main.py`) | claimed batch, results, attempts, settings | `run_cycle` and its transactions | edits and removals at each await, early stop, crash between the forum's answer and the record | leases cover what is in work and nothing else; retry delays in order; a job whose result was lost is settled; due topics are served |
| schedule arithmetic (`topics/schedule.py`) | none | `effective_interval`, `next_bump_at`, `_updated_topic` | boundaries of the retry schedule | used by the modules above |
| topic service (`topics/service.py`, `db/repositories.py`) | topic rows, settings row | add, enable, disable, interval, remove, manual bump, global settings | lost updates, torn saves, deadlocks | due column agrees with the schedule; pauses stick; removed topics stay removed |
| forum client (`forum/client.py`) | request lock, blocked-until time | `bump_batch`, `get_thread` | shared lock held over sleep and request, partial answers | rate limit respected; success only if bumped; calls end |
| encryption migration (`db/migrations.py`) | migration row (status, target, cursor), all encrypted rows | `start`, `resume` and its drivers | ordinary sessions with the old codec, failures, two drivers | all rows end in the target form; the cursor moves on |
| secret setup (`security/setup.py`, `security/runtime.py`) | envelope row, vault, throttle | initialize, unlock, change password, replace token | memory changed before the commit, whole-record saves | envelope stays consistent; one data key for ever; bounded lockout |
| input dialogues (`bot/timeout.py`, `bot/states.py`, routers) | FSM state and data, timers | the handlers of inputs, `/cancel`, expiry | overlapping updates, timers, secrets in FSM data | inputs expire; a password is used once and forgotten |
| access control and users (`access/service.py`, `db/repositories.py`, `bot/routers/admins.py`) | `known_users`, `administrators`, unique indexes | `role_for`, `record_user`, add and remove administrators | check and write are two statements, names change hands, first updates of one person overlap | administrators are people the owner named; only they act; names are not overwritten |
| menu messages and handlers (`bot/menu.py`, `bot/routers/settings.py`, `main.py`) | `menu_references`, messages of the chat, connections, open transactions | render and every handler that awaits a second session | a session held over awaits of another one, the pool, a rollback after a message was sent | updates end; the menu of the chat is the one the bot edits |
| application (`main.py`) | tasks, sessions | middleware, loop, shutdown | commit points | parts of it in each module that needs them |
| crypto, policy, parser, views, logging, config, schema, scripts | none | pure functions, text, I/O | none | symbolic or left out |

The hazards behind these properties, each at its line, are in `PROJECT.json`.

## 2. Modules

```
LeaseTable     <--refines--  ClaimProtocol        <--  ClaimProtocol_proofs
TopicSchedule  <--  BumpCycle                     <--  BumpCycle_proofs
TopicSchedule  <--  TopicStore                    <--  TopicStore_proofs
TopicSchedule  <--  ForumClient                   <--  BumpCycle_proofs
                    EncryptionMigration           <--  EncryptionMigration_proofs
                    SecretSetup                   <--  SecretSetup_proofs
                    InputDialogue                 <--  InputDialogue_proofs
AdminRegister  <--refines--  AccessControl        <--  AccessControl_proofs
                    UpdateHandlers                <--  UpdateHandlers_proofs
MC<Module>: the constants of an instance for TLC
```

**LeaseTable** is what claiming promises: a scheduler takes a set of free topics
in one step. **ClaimProtocol** is `claim_due` statement by statement: the gates,
the candidate query, one `pg_try_advisory_xact_lock` per candidate, the second
look at the row, the commit; `clear_lease` does not look whose lease it clears.
`PersistResult`, `ReleaseLeases` and `AbandonCycle` are what the cycle does to
leases; `EditTopic`, `RemoveTopic` and `SetGates` are users. Instances share one
clock. A candidate's UPDATE is in fact flushed before the next candidate is
tried; nobody sees it before the commit, and the row lock it takes only delays
users, so the model writes at the commit.

**BumpCycle** is `run_cycle` in its one process. A claim is one step (justified
by the refinement), sending and answering a batch are two, and recording a
result is two (`ReadForResult`, `CommitResult`), so that users, exceptions
(`CycleRaises`) and restarts (`Restart`, which locks the vault) come between.
What the client may return is `PossibleResults`: one result per job, with a time
to retry at only for a temporary failure; that `ForumClient` gives no others is
`RepliesAreResults`, proved from both modules in BumpCycle_proofs.
`retriedAt` is the part of the attempts table that `retry_count` looks at. User
actions are whole transactions here; what overlapping ones do is TopicStore's
subject. `mine`, `seen`, `doubt` and `streak` are history variables.

**TopicSchedule** holds the outcomes and pure functions that BumpCycle, TopicStore
and ForumClient share, **TopicStore** the
operations of `TopicService` and `_persist_result` as *scripts* of statements:
`topic` and `settings` read, `load`/`write` are the SELECT and UPDATE of a save,
`forum` and `notify` commit and wait, `attempt` takes the foreign key's share
lock, `list` begins the loop of a new global interval. `toggle` stands for every
operation that saves settings and touches neither interval nor pause
(`set_global_enabled`, `set_retry_schedule`, `set_notifications`).
`owner`/`draft` are row locks and uncommitted rows, `Applied` is the UPDATE
of the columns that differ, `Encrypted` the columns the policy encrypts.
`DeadlockAbort` is PostgreSQL's detector, `Fail` any exception. The constraint
and waiting rules are external to the source and marked so in the map. `raced`
records that another commit fell between the two statements of a save (for the
settings: since the record was read).

**ForumClient** is `_request` under its `asyncio.Lock` (first come, first
served), the wait for the limit, and the way from a response to one result per
job. Points in time are kept as time left, so the model needs no clock bound.
`get_thread` goes through the same request path; what it parses is left out.

**EncryptionMigration** is `start`, `resume`, `_resume_batch` and the drivers
`_finish_migration` that call them, between sessions that write, insert and
remove rows with the codec they loaded when they began. The migration row is
saved like any other: `moved` is what a driver wants to leave, and only the
parts that differ from what it read (`seen`) are written, so two drivers may
leave the table of one and the row of the other, a torn cursor (`Torn`).
`touched` records rows written by other sessions during a migration, or with an
outdated codec; it becomes every row when a migration starts while another
driver has a transaction open or from behind the first table, and when a cursor
is torn.

**SecretSetup** is `SetupService` over sessions: the row is committed at the end
of the update, the vault and the throttle change at once. Ciphers are symbolic:
a verifier or a wrapped key records the password and salt it was derived from,
and opens with exactly these. `fresh` numbers salts, data keys and tokens.

**InputDialogue** is the dialogue with one user. FSM operations of the memory
storage do not suspend, so what a handler does between two awaits is one step.
`Enter` and `Finish` are the middleware around the handler, `Finish` also when it
raises. States are grouped by what their handler does with an answer
(`Collecting`, `LastSteps`, `Fields`).

**AccessControl** is an update from its arrival to its commit: what the
middleware looks up, the role check (`Authorize`), the person an administrator
command names (`Resolve`), and the statements of `record_user`,
`add_administrator` and `remove_administrator` with the locks and unique indexes
they meet. A save writes the name and its index each only if it differs from
what the SELECT returned (the name always, when identities are encrypted). People
rename themselves in Telegram between updates, a message to a person may fail,
and the process restarts. `sent`, `carried`, `raced` and `lapsed` are history
variables. **AdminRegister** is what the two tables promise: each update changes
the entry of one person, at once. The mapping forgets statements, locks and the
displayed name, and keeps the index, which is what a person is found by.

**UpdateHandlers** has every handler of the main menu and the settings as the
sequence of its awaits (`Handlers`), from `connect` (the first statement of the
middleware) to `commit`. `idle`, `status`, `begin`, `finish` and `batch` are
calls of the migration service, each in a session of its own that takes a second
connection while the first one stays open; `taken[p]` counts them and
`NestedWaitsFor` says which open transactions hold a row the second session
needs, the update's own included. `render` unfolds into the look-up, edit or send and
save of `MenuService.render`. Values of settings are TopicStore's subject, forms
of rows EncryptionMigration's, roles AccessControl's.

## 3. What is checked

Every run exhausts the state space given. Deadlock is only reported where the
program cannot stop (`ForumClient`), because elsewhere the bounds on operations
and time end every behaviour.

| Run | Instance and bounds | States | What it shows |
|---|---|---|---|
| `claims` | 2 processes, 2 topics, lease 1, clock to 1, 1 edit | 391,666 | no topic has two live holders, the protocol implements LeaseTable, a claim transaction ends |
| `cycle_batches` | 3 topics (symmetric), batches of 2, clock to 3, 2 edits, 1 fault; successes, rejections, errors | 1,109,798 | a cycle that ends leaves no lease, no batch after a rejection |
| `cycle_retries` | 2 topics, batches of 2, lease 2, 2 delays, clock to 3, 1 edit or removal, 1 fault; successes and retries, with and without a time the forum gave | 635,945 | an unrecorded job waits for its lease and is settled in the end, retries follow the schedule, due topics are served |
| `store` | 2 sessions, 2 topics, all operations, 2 of them, all columns encrypted, clock to 1 | 278,242 | due column and pause survive unless a save was raced, removed topics stay removed, every operation ends in spite of locks in every order |
| `forum` | 3 tasks, statuses 200, 403, 429, 503, wait 2 | 9,211 | the limit is respected, success is real, calls end |
| `migration` | 2 drivers, 1 writer, the token and two tables of one row, batches of 1; 1 start, 1 write, 1 fault | 3,262,318 | untouched rows end in the policy's form, the cursor moves on |
| `setup` | 2 sessions, 2 passwords, 4 operations, clock to 2, 1 restart | 209,260 | the envelope opens, data stays readable, an unraced password sticks, the lockout is bounded |
| `dialogue` | 5 updates, 2 at a time, of the setup, the key change and a custom interval | 370,840 | open inputs are timed, a password is used once and forgotten, serial updates leave no timer |
| `access` | 2 sessions, the owner and one other person, 1 name, names not encrypted, 3 updates, 1 change of name, 1 restart | 1,183,625 | administrators were named by the owner, only they act, unraced names stay, locks never wait in a circle, the tables implement AdminRegister |
| `handlers` | 2 updates at a time, 2 in all, 3 connections, 3 menu messages, five handlers (`LongKinds`) | 252,646 | sessions wait in a circle in the two known cases only, the menu of the chat is found, every other update ends |
| `two_drivers` | as `migration`, without writers and faults | violated | finding 1 below |
| `first_toggle` | one update | violated | finding 2 below |

**Why the bounds are enough.** Two processes and two topics are what a double
claim needs (one process overtaking another on one topic while the other topic
keeps the transaction open), and one tick ends a lease of one. Three topics in
batches of two give a full batch, a short one and a rejection in between. At the
three instants of the retry run's clock a topic can be retried, bumped and
retried again (the count starts anew), or retried three times when the forum
gave the second time itself (the last of two delays is used again). Batches of
two let the removal of one topic abort the cycle with the other one's job sent
and not recorded (`CommitFails`); a lease of two leaves an instant in which that
job must not be sent again and one in which it must. Without faults and with a
claim that never takes a lease as over, `JobsInDoubtAreSettled` fails on just
that abort. Two sessions are what a lost update, a torn save or a wait cycle
needs, and two topics are what a cycle over rows in both orders needs. In the
migration a batch size that divides the rows of the table makes the last batch
full, the boundary case of the cursor, and a table after it is what a torn
cursor needs; a second migration after the first is beyond the run and covered
by the proof. Five updates go through the setup dialogue (start, password,
confirmation, token) or the key change (button, current password, new one,
confirmation) with one message too many. Two people, one name and a change of
name let the name pass from one to the other; with names in the clear
(`NameEncrypted = FALSE`) a save writes a part of the row, which is the harder
case, while an encrypted name is new ciphertext in every save, and the proofs
hold for both, and three updates put an addition or a removal between the two
statements of a third. Two updates and the scheduler on three connections let
both updates hold their first connection while the pool is full. The proofs of
section 5 lift all of these bounds for the safety properties they cover.

**Fairness.** `ClaimProtocol`: a claim transaction that began goes on, because
PostgreSQL and the event loop answer and no statement of it waits (crashes are
actions, not fair). `BumpCycle`: the loop starts cycle after cycle, a running
cycle goes on (every forum request ends by the HTTP timeout) and the clock
moves; users, failures, restarts and unlocking are not fair. `TopicStore`: an
open session goes on when its statement can run, and wait cycles are broken
(`deadlock_timeout`). `ForumClient`: tasks that can run do, requests end, time
passes; nothing is assumed of what the forum answers. `InputDialogue`: handlers
go on and sleeps end; users need not send anything. `UpdateHandlers`: an update
whose next await can end goes on, the pool's timeout of half a minute
included (`PoolTimeout`); nothing is assumed of the scheduler giving its connection back
or of the person. All of it is weak fairness.

**Mutations.** Each property of each passing run is broken by a change of a
mapped definition such as a recheck that forgets the lease, a save that keeps
the old due time, a finally that is skipped when a handler raises, or a lock
whose waiters overtake each other. They stand beside the definitions they
change, marked `Mutant` or described as what the definition would be had the code
done otherwise, and no specification uses them.

## 4. Where code and expectation part

Two disagreements with the repository's own tests have a run each:

1. `two_drivers` (`db/migrations.py:205`): two handlers may drive one migration,
   and the UPDATE of a batch writes only the half of the cursor it changed. A
   driver that is behind leaves the row id of its table with the name of the
   next table, whose rows up to that id are never visited. The migration ends
   idle with rows in the old form, of which the integration test says there are
   none.
2. `first_toggle` (`db/migrations.py:322`): right after the set-up `app_settings`
   has no row. The middleware inserts it and keeps the transaction open over the
   handler, which awaits `status()` in a second session, which inserts the same
   row because `encryption_migrations` is empty too. The update waits for
   itself, and PostgreSQL, which sees one idle transaction, ends nothing. A unit
   test expects the button to be answered.

Stated in the modules next to the weaker form that the runs check, and not kept
by the code either:

* `ScheduleMatches` (a torn save separates due time and schedule) and
  `PauseSticks` (a settings save from a stale record ends an API pause);
* `FailedManualKeepsSchedule` (`topics/service.py:253`: a failed manual bump
  saves the record it read before the forum request and takes back what was
  committed meanwhile);
* `GlobalIntervalSparesCustom` and `GlobalIntervalReachesAll` (the global change
  works on the list it read);
* `KeepsValues` (a migration batch writes back the values it selected, such as a
  token replaced meanwhile);
* `PasswordSticks` (replacing the token from a record read before a password
  change undoes it) and `UnlockedMeansStored` (`security/setup.py:103`:
  `initialize` unlocks the vault before the transaction that stores the key has
  committed);
* `FinishedFlowUntimed` (`bot/timeout.py:42`: a timer registered by an update
  replaces one registered meanwhile without cancelling it).

It is overlaps that break all but `UnlockedMeansStored`: `ScheduleMatches`,
`PauseSticks`, `FailedManualKeepsSchedule`, `GlobalIntervalSparesCustom`,
`GlobalIntervalReachesAll` and `PasswordSticks` are proved where sessions do not
overlap (ASSUME `Serial`), `KeepsValues` where no session writes during a
migration, and `FormsMatchPolicy`, which finding 1 violates, where there is one
driver besides (ASSUME `Alone`); for `FinishedFlowUntimed` see
`SerialFlowUntimed`. Failures, rollbacks, deadlocks and restarts are part of
these proofs, so none of these properties is lost to them.

Give one of them to TLC in place of the run's properties for the behaviour. The
models show three more that no formula states: a `/start` overtaken between its
SELECT and its UPDATE may leave a person's displayed name and its index apart
(`raced` in AccessControl, the proviso of `UnracedNameKept`); applying a policy
from an update that has just replaced the menu message makes the update wait for
itself when the batch reaches `menu_references` (the second case of
`OnlyKnownCircles`); and a Telegram failure after a manual bump rolls back the
record of a bump the forum performed.

## 5. What is proved

Eight modules prove every safety property of section 3 for every value of the
constants, from the named assumptions of each module alone. These ask for types,
for values that are distinct, and where a proof counts for finite sets (topics,
rows, the updates under way); the theorems about what overlaps break say in
their own ASSUME that there are none. Every proof has the same
shape: an inductive invariant, one lemma per action or group of actions that
preserves it, and a short temporal theorem.

* **ClaimProtocol_proofs**: `TypeCorrect`, `OneLiveHolderAlways`,
  `LiveHolderIsLeasedAlways`, `OpenClaimsDisjointAlways`,
  `LeaseReplacedOnlyWhenFreeAlways` and `Refinement` (the statement-level protocol
  implements `LeaseTable`). `OneLiveHolder` is not inductive: whether a second
  process can claim depends on what the row shows and on what open claims know.
  `IInv == TypeOK /\ LocksHeld /\ OpenClaimsFree /\ LiveHolderIsLeased /\ OneLiveHolder`.
  `LocksHeld` says that a row an open claim will write is locked by that claim,
  hence (`LocksExclude`) no two open claims share one. `OpenClaimsFree` says such
  a row still shows no lease running at the claim's time: only a claim gives out
  leases, and it would need the same lock. `LiveHolderIsLeased` says that a holder
  whose lease runs is visible in the row; so a claim of that topic, whose rows
  are free at its `now`, comes after the holder's deadline. The exception `late`
  is needed: a process that finishes a topic after its lease ran out clears
  whatever lease is there. The refinement uses the same invariant for the step in
  which the commit maps to `LeaseTable!Claim`.
* **BumpCycle_proofs**: `NoBatchAfterRejectionAlways`, `NoLeaseLeftBehindAlways`,
  `InDoubtWaitsAlways`, `RetriesFollowScheduleAlways`, `TypeCorrect`. `SInv` says that the
  lists of the cycle, batches cut from the claimed list and results that follow
  the batch, never name a topic twice: a topic is in one place only. On top of
  it `RejectionKnown` follows a rejection from the answer to the early stop,
  `LeasesHeld` where the cycle's own leases are, `DoubtsLeased` why a job in doubt is
  covered by a lease, and `RetriesCounted` what the attempts table knows of a
  topic while a result is read and not yet committed.
  Of ForumClient: `LimitRespected`, `SuccessIsRealAlways`, `StatusTablesAgree`,
  `ClientTypeCorrect` and `RepliesAreResults`, the results the cycle expects.
  `LimitInv` says where the announced limit is known: in `blocked` while nobody has
  passed the wait, in the sleep of the holder during it, and nowhere needed after
  it, because it is then 0; the lock excludes. `ResultInv` follows a result that
  says success to the answer it was made of, in a batch to the status of its own
  job, and `QueueInv` says that a task queues for the lock once.
* **TopicStore_proofs**: `UnracedScheduleMatchesAlways`, `RemovedStaysRemovedAlways`,
  `UnracedPauseSticksAlways`, `TypeCorrect`. `Sane` says of every session that its
  next statements find what they use: an UPDATE comes right after its SELECT,
  what a save needs was read before (`Ordered`, `Ready`), and the values to write
  are those of the operation. `Owned` says that an uncommitted row belongs to a
  committed one or to an addition, which is why no save can bring a row back:
  the UPDATE of a deleted row finds nothing. `Scheduled` and `PauseKept` hold
  of committed and of uncommitted rows, because an unraced UPDATE makes the row
  exactly what the save computed (`AppliedUnraced`), however many columns the
  policy encrypts.
  With one session at a time: `SerialScheduleMatches`, `SerialPauseSticks`,
  `SerialFailedManualKeepsSchedule`, `SerialGlobalIntervalSparesCustom`,
  `SerialGlobalIntervalReachesAll`. `Current` says that a save under way has read
  what is stored, so that nothing is ever raced; `ScheduleKept` and `CustomSpared`
  follow what a failed bump and a global interval are going to write. `Plan` is
  for the last one: while the loop of a new interval runs, a topic waits for that
  interval or is still among those to save, and every other operation computes
  from the interval that is stored.
* **EncryptionMigration_proofs**: `UntouchedFormsMatchPolicyAlways`,
  `CursorMovesOnAlways`, `TypeCorrect`, `LoneMigrationConvertsAll`,
  `MigrationKeepsValues`. `IInv == Types /\ Locks /\ Drives` has who
  owns which row and what a driver is about to write at each step. `Settled`
  says that every cursor, stored, read or about to be written, divides the rows:
  those behind it have the form of the target. It survives two drivers because
  both re-encode for the same target and because the migration row is written
  under its lock: what a driver leaves is the cursor that was there, its own, or
  torn between the two, which is the proviso. A lone driver has read the migration
  row as it is (`LoneRead`), hence tears nothing, and without other sessions
  nothing is touched. `ValuesKept` says that a batch rewrites the values stored.
* **SecretSetup_proofs**: `EnvelopeOpensAlways`, `UnorphanedDataReadableAlways`,
  `UnracedPasswordSticksAlways`, `SerialPasswordSticks`, `LockoutBoundedAlways`,
  `TypeCorrect`. All records of the envelope, in the
  database or in the hands of a session, agree in their data key, and two of one
  salt in what was derived from it (`RecordsAgree`); so a save that mixes columns
  of two of them still opens. With one session at a time a session that has read
  the envelope has read the stored one (`ReadStays`). `ThrottleInv` ties the delay
  to the failures counted.
* **InputDialogue_proofs**: `PromptIsTimedAlways`, `PasswordUsedOnceAlways`,
  `SerialFlowUntimedAlways`, `TypeCorrect`. `UsedOrHeld` says
  that a password is passed on at most as often as it was typed, and less often
  by one while the FSM data still hold it; `Serial` says which
  timers there can be while updates do not overlap.
* **AccessControl_proofs**: every safety property of the module and
  `RegisterRefined`, that the tables implement `AdminRegister`. `TInv` says which
  statements an update of each kind can be at; `NamedInv` follows the words of
  the owner from the update to the row, `TrustInv` what a role check is worth,
  `LockInv` what an open transaction keeps from others, `FreshInv` what an
  unraced save contains, `RegisterInv` what was checked before an insertion.

* **UpdateHandlers_proofs**: `MenuIsFoundAlways`, `OnlyKnownCirclesAlways`,
  `TypeCorrect`. What the arguments need of a handler is said once (`Fits`, which
  handler awaits what; `Follows`, what may come after what) and shown of every
  handler of the program (`HandlerShapes`). `Inv == Types /\ Script /\ Held /\
  Pool /\ Menus`: what an update that awaits something has taken (`Script`), what
  one that has written a row of the settings, the person or the menu awaits no
  more and that no two have (`Held`), the connections (`Pool`), and which messages
  are on their way (`Menus`). A circle of any size is then a short argument: every
  wait is for one of four writes (`Waiting`), each with one update behind it, and
  what that update still awaits rules out all but the two cases.

**Only model-checked**: liveness (`ClaimEnds`, `JobsInDoubtAreSettled`, `DueIsServed`,
`SessionsEnd`, `CallsEnd`, `PasswordForgotten`, `UpdatesEnd`), because fairness and
ENABLED are beyond the prover, and the two findings, which are
counterexamples.

## 6. What is not modelled

* In UpdateHandlers: failures of a migration batch (EncryptionMigration has
  them), the texts and buttons of menus, several chats, a locked vault, and the
  handlers of topics and administrators beyond `render`, whose sessions nest no
  second one.
* Some row locks and statement boundaries that change no stated property. A
  claim's flushed UPDATE may wait for the row lock of another session
  (ClaimProtocol: `ClaimEnds` is about the advisory locks). In UpdateHandlers
  `Enroll` is one step where the upsert has a SELECT and an INSERT (a second
  `/start` at once ends in an IntegrityError), the UPDATE of a known person takes
  no lock, and a migration batch does not wait for rows of `known_users` and
  `topics` that other updates hold. EncryptionMigration leaves out the order in which one flush
  writes rows and the lock of `_complete` on `app_settings`. In SecretSetup an
  envelope inserted twice is refused as already initialized, where the flush
  raises an IntegrityError; both roll back.
* In AccessControl an update carries the name its sender has when it arrives;
  one queued from before a change of name is not modelled.
* Start-up order and shutdown of the process; the health of the two remote
  services beyond success, failure and delay.
* Bytes of ciphers, key derivation, texts, keyboards, parsing of topic
  references and intervals, logging, configuration, schema migrations and shell
  scripts: pure functions or I/O around the state modelled here.
* The list of attempts a view shows, and the record of a manual bump as a
  property: TopicStore has the rollback that loses it, so no property can ask
  for the record.
* The scheduler runs in one process per deployment; ClaimProtocol has several
  because the code is written for that, BumpCycle has the one.

## 7. Plan

Done, in this order: claims and their abstraction, the cycle, the store, the
forum client, migration, setup, dialogues, access control and its abstraction,
update handlers; proofs for all of them, and for what holds of them without overlaps.

What would add most next:

1. The manual bump and the automatic one for one topic, composed from TopicStore
   and BumpCycle, with what the forum has really done.
2. Failures of a batch inside UpdateHandlers, so that the loop of
   `_finish_migration` meets the pool and the menu in one module.
