--------------------------- MODULE UpdateHandlers ---------------------------
(***************************************************************************)
(* The updates of one person, from the middleware to the commit: the       *)
(* database session every update keeps open over its Telegram requests,    *)
(* the second session a handler opens to read or move the encryption       *)
(* migration, the pool both take their connections from, and the menu      *)
(* message a handler edits or replaces.                                    *)
(*                                                                         *)
(* A handler awaits the second session while the first is still open: if   *)
(* the second needs a row the first has written, the update waits for      *)
(* itself, and PostgreSQL, which sees two transactions of which one is     *)
(* idle, ends neither.  A handler is the sequence of its awaits, todo[p].  *)
(* AccessControl has the roles, TopicStore the values of the settings and  *)
(* EncryptionMigration the forms the batches write.                        *)
(***************************************************************************)
EXTENDS Naturals, Sequences, FiniteSets

CONSTANTS
  Sessions,     \* updates handled at the same time
  Kinds,        \* the handlers that are used, of DOMAIN Handlers
  PoolSize,     \* connections the engine opens at most
  None,         \* SQL NULL, and no update
  MaxUpdates,   \* bounds of the model: updates
  MaxMessages   \*   and messages that carry a menu

VARIABLES
  \* Committed rows.
  settings,   \* whether app_settings has its row
  known,      \* whether known_users has the person
  migration,  \* encryption_migrations: "absent", "idle", or the next batch
  menu,       \* menu_references: the message of the person's chat, or None
  \* Telegram.
  chat,       \* messages of the chat that carry a menu
  lastId,     \* the last message id given out
  \* Update sessions.
  job,        \* job[p]: the handler p runs, or None
  todo,       \* todo[p]: what p still awaits
  taken,      \* taken[p]: connections p holds: its own, and the second one
  cycle,      \* whether the scheduler's cycle holds a connection
  greeted,    \* greeted[p]: p knows the person's row, committed or its own
  inserted,   \* inserted[p]: p has inserted the row of app_settings
  updated,    \* updated[p]: p has updated the row of app_settings
  enrolled,   \* enrolled[p]: p has inserted the person into known_users
  found,      \* found[p]: the menu message p's render looked up
  shown,      \* shown[p]: the message p sent and has not stored yet
  stored,     \* stored[p]: the message p has written to menu_references
  \* History: messages left behind by a rollback, by a render that overlapped
  \* another one, or because Telegram would not edit them.
  left,
  updates     \* updates that arrived

database == <<settings, known, migration, menu>>
telegram == <<chat, lastId>>
writes == <<greeted, inserted, updated, enrolled, found, shown, stored>>
vars == <<database, telegram, job, todo, taken, cycle, writes, left, updates>>

Messages == 1..MaxMessages
Batches == {"settings", "menus", "complete"}

-----------------------------------------------------------------------------
(* The handlers, as what they await, one after the other.                  *)

RequireIdle == <<"idle">>
RenderSettings == <<"status", "render">>

StartBot == <<"enroll", "render", "answer">>
OpenMainMenu == <<"render">>
OpenTopics == <<"render", "answer">>
OpenSettings == RenderSettings \o <<"answer">>
BeginInput == RequireIdle \o <<"answer">>
OpenEncryption == RequireIdle \o <<"render", "answer">>
ChangeSetting == RequireIdle \o <<"change">> \o RenderSettings \o <<"answer">>
ApplyPolicy ==
  RequireIdle \o <<"begin">> \o RenderSettings \o <<"answer", "finish">> \o RenderSettings
\* ResumeMigration, had it shown the settings first, as applying a policy does.
ResumeShowsFirst == RenderSettings \o <<"answer", "finish">>
ResumeMigration == <<"answer", "finish">> \o RenderSettings

Handlers ==
  [start |-> StartBot, main |-> OpenMainMenu, topics |-> OpenTopics,
   open |-> OpenSettings, input |-> BeginInput, modes |-> OpenEncryption, toggle |-> ChangeSetting,
   apply |-> ApplyPolicy, resume |-> ResumeMigration]

\* The middleware around the handler.
Update(kind) == <<"connect">> \o Handlers[kind] \o <<"commit">>

Telegrams == {"edit", "send", "answer"}
Nested == {"idle", "status", "begin", "finish", "batch"}
Awaits ==
  Telegrams \cup Nested \cup
    {"connect", "create", "enroll", "change", "render", "save", "insert", "update", "commit"}

ASSUME HandlersAssumption ==
  /\ IsFiniteSet(Sessions)
  /\ Kinds \subseteq DOMAIN Handlers
  /\ PoolSize \in Nat \ {0}
  /\ MaxUpdates \in Nat /\ MaxMessages \in Nat \ {0}
  /\ None \notin DOMAIN Handlers \cup Nat

\* Connections in use.
Connections ==
  {c \in Sessions \X {1, 2} : c[2] <= taken[c[1]]} \cup
    (IF cycle THEN {<<"scheduler", 1>>} ELSE {})
InUse == Cardinality(Connections)

MessageOrNone == Messages \cup {None}

TypeOK ==
  /\ settings \in BOOLEAN /\ known \in BOOLEAN
  /\ migration \in Batches \cup {"absent", "idle"}
  /\ menu \in MessageOrNone
  /\ lastId \in 0..MaxMessages
  /\ chat \subseteq 1..lastId
  /\ job \in [Sessions -> Kinds \cup {None}]
  /\ todo \in [Sessions -> Seq(Awaits)]
  /\ taken \in [Sessions -> 0..2]
  /\ cycle \in BOOLEAN
  /\ greeted \in [Sessions -> BOOLEAN]
  /\ inserted \in [Sessions -> BOOLEAN]
  /\ updated \in [Sessions -> BOOLEAN]
  /\ enrolled \in [Sessions -> BOOLEAN]
  /\ found \in [Sessions -> MessageOrNone]
  /\ shown \in [Sessions -> MessageOrNone]
  /\ stored \in [Sessions -> MessageOrNone]
  /\ left \subseteq Messages
  /\ updates \in 0..MaxUpdates
  \* The pool is never overdrawn, an update that ended keeps nothing, and a
  \* session that wrote has its connection.
  /\ InUse <= PoolSize
  /\ \A p \in Sessions :
       /\ (job[p] = None) = (todo[p] = <<>>)
       /\ job[p] = None => taken[p] = 0
       /\ taken[p] = 0 => ~inserted[p] /\ ~updated[p] /\ ~enrolled[p] /\ stored[p] = None

\* The vault is unlocked.  Right after the set-up there is no row but that of the
\* owner, unless that update was rolled back; later there may be a menu message
\* and a migration, perhaps one a restart has interrupted.
Init ==
  /\ settings \in BOOLEAN /\ known \in BOOLEAN
  /\ migration \in IF settings THEN {"absent", "idle", "menus"} ELSE {"absent"}
  /\ menu \in IF settings /\ known THEN {1, None} ELSE {None}
  /\ chat = {menu} \ {None}
  /\ lastId = Cardinality(chat)
  /\ job = [p \in Sessions |-> None]
  /\ todo = [p \in Sessions |-> <<>>]
  /\ taken = [p \in Sessions |-> 0]
  /\ cycle = FALSE
  /\ greeted = [p \in Sessions |-> FALSE]
  /\ inserted = [p \in Sessions |-> FALSE]
  /\ updated = [p \in Sessions |-> FALSE]
  /\ enrolled = [p \in Sessions |-> FALSE]
  /\ found = [p \in Sessions |-> None]
  /\ shown = [p \in Sessions |-> None]
  /\ stored = [p \in Sessions |-> None]
  /\ left = {}
  /\ updates = 0

-----------------------------------------------------------------------------
(* Sessions.                                                               *)

Awaiting(p, await) == todo[p] # <<>> /\ Head(todo[p]) = await
Go(p, awaits) == todo' = [todo EXCEPT ![p] = awaits \o Tail(@)]
Proceed(p) == Go(p, <<>>)

\* Forget, had the rollback or the commit kept the connection.
ForgetKeepingConnection(p) ==
  /\ job' = [job EXCEPT ![p] = None]
  /\ todo' = [todo EXCEPT ![p] = <<>>]
  /\ greeted' = [greeted EXCEPT ![p] = FALSE]
  /\ inserted' = [inserted EXCEPT ![p] = FALSE]
  /\ updated' = [updated EXCEPT ![p] = FALSE]
  /\ enrolled' = [enrolled EXCEPT ![p] = FALSE]
  /\ found' = [found EXCEPT ![p] = None]
  /\ shown' = [shown EXCEPT ![p] = None]
  /\ stored' = [stored EXCEPT ![p] = None]
  /\ UNCHANGED taken

Forget(p) ==
  /\ job' = [job EXCEPT ![p] = None]
  /\ todo' = [todo EXCEPT ![p] = <<>>]
  /\ taken' = [taken EXCEPT ![p] = 0]
  /\ greeted' = [greeted EXCEPT ![p] = FALSE]
  /\ inserted' = [inserted EXCEPT ![p] = FALSE]
  /\ updated' = [updated EXCEPT ![p] = FALSE]
  /\ enrolled' = [enrolled EXCEPT ![p] = FALSE]
  /\ found' = [found EXCEPT ![p] = None]
  /\ shown' = [shown EXCEPT ![p] = None]
  /\ stored' = [stored EXCEPT ![p] = None]

\* The middleware rolls the update back; what it sent stays.
Rollback(p) ==
  /\ Forget(p)
  /\ left' = left \cup ({shown[p], stored[p]} \ {None})
  /\ UNCHANGED <<database, telegram, cycle, updates>>

Arrive(p) ==
  /\ job[p] = None
  /\ updates < MaxUpdates
  /\ updates' = updates + 1
  /\ \E kind \in Kinds :
       /\ job' = [job EXCEPT ![p] = kind]
       /\ todo' = [todo EXCEPT ![p] = Update(kind)]
  /\ UNCHANGED <<database, telegram, taken, cycle, writes, left>>

Commit(p) ==
  /\ Awaiting(p, "commit")
  /\ settings' = (settings \/ inserted[p])
  /\ known' = (known \/ enrolled[p])
  /\ menu' = IF stored[p] = None THEN menu ELSE stored[p]
  /\ Forget(p)
  /\ UNCHANGED <<migration, telegram, cycle, left, updates>>

-----------------------------------------------------------------------------
(* The pool.                                                               *)

PoolIsFull == InUse >= PoolSize

\* The first statement of a session takes a connection.
NeedsConnection(p) ==
  \/ Awaiting(p, "connect") /\ taken[p] = 0
  \/ taken[p] = 1 /\ \E await \in Nested : Awaiting(p, await)

Connect(p) ==
  /\ NeedsConnection(p)
  /\ ~PoolIsFull
  /\ taken' = [taken EXCEPT ![p] = @ + 1]
  /\ UNCHANGED <<database, telegram, job, todo, cycle, writes, left, updates>>

\* PoolTimeout, had only the first connection of an update a timeout.
PoolTimeoutOfFirst(p) ==
  /\ Awaiting(p, "connect") /\ taken[p] = 0
  /\ PoolIsFull
  /\ Rollback(p)

\* The pool raises TimeoutError after half a minute.
PoolTimeout(p) ==
  /\ NeedsConnection(p)
  /\ PoolIsFull
  /\ Rollback(p)

\* A cycle of the scheduler works in sessions of its own.
CycleConnects ==
  /\ ~cycle /\ ~PoolIsFull
  /\ cycle' = TRUE
  /\ UNCHANGED <<database, telegram, job, todo, taken, writes, left, updates>>

CycleReleases ==
  /\ cycle
  /\ cycle' = FALSE
  /\ UNCHANGED <<database, telegram, job, todo, taken, writes, left, updates>>

-----------------------------------------------------------------------------
(* The middleware and the statements of the update's own session.          *)

\* Other transactions that hold a row p would write.
Holding(p, wrote) == {q \in Sessions \ {p} : wrote[q]}
Storing == [q \in Sessions |-> stored[q] # None]

\* The person is looked up, and so is the row of the settings.
LookUp(p) ==
  /\ Awaiting(p, "connect") /\ taken[p] = 1
  /\ greeted' = [greeted EXCEPT ![p] = known]
  /\ Go(p, IF settings THEN <<>> ELSE <<"create">>)
  /\ UNCHANGED <<database, telegram, job, taken, cycle, inserted, updated, enrolled, found,
                 shown, stored, left, updates>>

\* get_or_create inserts a missing row; one that was committed meanwhile is an
\* IntegrityError.
CreateSettings(p) ==
  /\ Awaiting(p, "create")
  /\ Holding(p, inserted) = {}
  /\ ~settings
  /\ inserted' = [inserted EXCEPT ![p] = TRUE]
  /\ Proceed(p)
  /\ UNCHANGED <<database, telegram, job, taken, cycle, greeted, updated, enrolled, found,
                 shown, stored, left, updates>>

CreateFails(p) ==
  /\ Awaiting(p, "create")
  /\ Holding(p, inserted) = {}
  /\ settings
  /\ Rollback(p)

\* /start records the person.
Enroll(p) ==
  /\ Awaiting(p, "enroll")
  /\ Holding(p, enrolled) = {}
  /\ enrolled' = [enrolled EXCEPT ![p] = ~known]
  /\ greeted' = [greeted EXCEPT ![p] = TRUE]
  /\ Proceed(p)
  /\ UNCHANGED <<database, telegram, job, taken, cycle, inserted, updated, found, shown, stored,
                 left, updates>>

\* A handler that changes a setting.
Change(p) ==
  /\ Awaiting(p, "change")
  /\ Holding(p, updated) = {}
  /\ updated' = [updated EXCEPT ![p] = TRUE]
  /\ Proceed(p)
  /\ UNCHANGED <<database, telegram, job, taken, cycle, greeted, inserted, enrolled, found,
                 shown, stored, left, updates>>

-----------------------------------------------------------------------------
(* The second session.                                                     *)

\* What its statements wait for: the missing row of the settings while another
\* transaction has inserted one, or the rows a batch rewrites.  The transaction
\* may be the one of the same update.
NestedWaitsFor(p) ==
  {q \in Sessions :
     \/ ~Awaiting(p, "batch") /\ migration = "absent" /\ ~settings /\ inserted[q]
     \/ Awaiting(p, "batch") /\ migration = "menus" /\ menu # None /\ stored[q] # None
     \/ Awaiting(p, "batch") /\ migration \in Batches \ {"menus"} /\ updated[q]}

Ready(p) == taken[p] = 2 /\ NestedWaitsFor(p) = {}

\* It gives its connection back.
Done(p) ==
  /\ taken' = [taken EXCEPT ![p] = 1]
  /\ UNCHANGED <<telegram, job, cycle, writes, left, updates>>

\* status: the rows it inserts if they are missing are rolled back.
Status(p) ==
  /\ Awaiting(p, "status")
  /\ Ready(p)
  /\ Proceed(p)
  /\ Done(p)
  /\ UNCHANGED database

\* _require_idle: during a migration the answer is an alert.
CheckIdle(p) ==
  /\ Awaiting(p, "idle")
  /\ Ready(p)
  /\ todo' = [todo EXCEPT ![p] = IF migration \in Batches THEN <<"answer", "commit">>
                                 ELSE Tail(@)]
  /\ Done(p)
  /\ UNCHANGED database

\* EncryptionMigrationService.start; MigrationInProgressError is an alert too.
Begin(p) ==
  /\ Awaiting(p, "begin")
  /\ Ready(p)
  /\ IF migration \in Batches
       THEN /\ todo' = [todo EXCEPT ![p] = <<"answer", "commit">>]
            /\ UNCHANGED <<migration, settings>>
       ELSE /\ migration' = "settings"
            /\ settings' = TRUE
            /\ Proceed(p)
  /\ Done(p)
  /\ UNCHANGED <<known, menu>>

\* _finish_migration reads the status before every batch.
Finish(p) ==
  /\ Awaiting(p, "finish")
  /\ Ready(p)
  /\ todo' = [todo EXCEPT ![p] = IF migration \in Batches THEN <<"batch">> \o @ ELSE Tail(@)]
  /\ Done(p)
  /\ UNCHANGED database

\* EncryptionMigrationService.resume.
Batch(p) ==
  /\ Awaiting(p, "batch")
  /\ Ready(p)
  /\ migration' = CASE migration = "settings" -> "menus"
                    [] migration = "menus" -> "complete"
                    [] migration = "complete" -> "idle"
                    [] OTHER -> migration
  /\ Proceed(p)
  /\ Done(p)
  /\ UNCHANGED <<settings, known, menu>>

-----------------------------------------------------------------------------
(* MenuService.render.                                                     *)

\* The row as p's transaction sees it.
Visible(p) == IF stored[p] # None THEN stored[p] ELSE menu

LookForMenu(p) ==
  /\ Awaiting(p, "render")
  /\ LET message == IF greeted[p] THEN Visible(p) ELSE None
     IN  /\ found' = [found EXCEPT ![p] = message]
         /\ Go(p, IF message = None THEN <<"send">> ELSE <<"edit">>)
  /\ UNCHANGED <<database, telegram, job, taken, cycle, greeted, inserted, updated, enrolled,
                 shown, stored, left, updates>>

\* The message is edited, or not modified.
Edit(p) ==
  /\ Awaiting(p, "edit")
  /\ found[p] \in chat
  /\ Proceed(p)
  /\ UNCHANGED <<database, telegram, job, taken, cycle, writes, left, updates>>

\* Another TelegramBadRequest: the message is gone, or too old.
EditRefused(p) ==
  /\ Awaiting(p, "edit")
  /\ Go(p, <<"send">>)
  /\ left' = left \cup ({found[p]} \cap chat)
  /\ UNCHANGED <<database, telegram, job, taken, cycle, writes, updates>>

Send(p) ==
  /\ Awaiting(p, "send")
  /\ lastId < MaxMessages
  /\ lastId' = lastId + 1
  /\ chat' = chat \cup {lastId'}
  /\ shown' = [shown EXCEPT ![p] = lastId']
  /\ Go(p, <<"save">>)
  /\ UNCHANGED <<database, job, taken, cycle, greeted, inserted, updated, enrolled, found, stored,
                 left, updates>>

\* MenuRepository.save looks again.
LookForRow(p) ==
  /\ Awaiting(p, "save")
  /\ Go(p, IF greeted[p] /\ Visible(p) # None THEN <<"update">> ELSE <<"insert">>)
  /\ UNCHANGED <<database, telegram, job, taken, cycle, writes, left, updates>>

\* Store, had it written the message that was found instead of the one sent.
StoreFound(p) ==
  /\ stored' = [stored EXCEPT ![p] = found[p]]
  /\ shown' = [shown EXCEPT ![p] = None]
  /\ Proceed(p)
  /\ UNCHANGED <<database, telegram, job, taken, cycle, greeted, inserted, updated, enrolled,
                 found, left, updates>>

\* A render that overlapped this one may have stored another message since.
Store(p) ==
  /\ stored' = [stored EXCEPT ![p] = shown[p]]
  /\ shown' = [shown EXCEPT ![p] = None]
  /\ left' = left \cup ({Visible(p)} \ {None, found[p]})
  /\ Proceed(p)
  /\ UNCHANGED <<database, telegram, job, taken, cycle, greeted, inserted, updated, enrolled,
                 found, updates>>

InsertMenu(p) ==
  /\ Awaiting(p, "insert")
  /\ Holding(p, Storing) = {}
  /\ greeted[p] /\ menu = None
  /\ Store(p)

\* A foreign key without a person, or a second row for the chat.
InsertFails(p) ==
  /\ Awaiting(p, "insert")
  /\ ~greeted[p] \/ (Holding(p, Storing) = {} /\ menu # None)
  /\ Rollback(p)

UpdateMenu(p) ==
  /\ Awaiting(p, "update")
  /\ Holding(p, Storing) = {}
  /\ Store(p)

-----------------------------------------------------------------------------
(* Telegram.                                                               *)

Answer(p) ==
  /\ Awaiting(p, "answer")
  /\ Proceed(p)
  /\ UNCHANGED <<database, telegram, job, taken, cycle, writes, left, updates>>

\* A request fails, and its exception leaves the handler.
RequestFails(p) ==
  /\ \E await \in Telegrams : Awaiting(p, await)
  /\ Rollback(p)

\* The person deletes a message.
Delete(m) ==
  /\ chat' = chat \ {m}
  /\ UNCHANGED <<database, lastId, job, todo, taken, cycle, writes, left, updates>>

Step(p) ==
  \/ Connect(p) \/ PoolTimeout(p)
  \/ LookUp(p) \/ CreateSettings(p) \/ CreateFails(p)
  \/ Enroll(p) \/ Change(p)
  \/ Status(p) \/ CheckIdle(p) \/ Begin(p) \/ Finish(p) \/ Batch(p)
  \/ LookForMenu(p) \/ Edit(p) \/ EditRefused(p) \/ Send(p)
  \/ LookForRow(p) \/ InsertMenu(p) \/ InsertFails(p) \/ UpdateMenu(p)
  \/ Answer(p) \/ RequestFails(p)
  \/ Commit(p)

Next ==
  \/ \E p \in Sessions : Arrive(p) \/ Step(p)
  \/ CycleConnects \/ CycleReleases
  \/ \E m \in chat : Delete(m)

Spec == Init /\ [][Next]_vars

\* The event loop runs what is ready; requests, statements that wait for no lock
\* and waits for a connection end.
FairSpec == Spec /\ \A p \in Sessions : WF_vars(Step(p))

-----------------------------------------------------------------------------
(* Properties.                                                             *)

\* The updates whose locks hold up the next await of p, itself among them.
WaitsFor(p) ==
  CASE taken[p] = 2 -> NestedWaitsFor(p)
    [] Awaiting(p, "create") -> Holding(p, inserted)
    [] Awaiting(p, "enroll") -> Holding(p, enrolled)
    [] Awaiting(p, "change") -> Holding(p, updated)
    [] Awaiting(p, "insert") /\ greeted[p] -> Holding(p, Storing)
    [] Awaiting(p, "update") -> Holding(p, Storing)
    [] OTHER -> {}

Circular(W) == W # {} /\ \A p \in W : WaitsFor(p) \cap W # {}

\* Updates wait in a circle in two cases only: the update that inserted the row
\* of the settings asks for the status of a migration nobody ever started, or
\* the update that replaced the menu message and applies a policy runs the
\* batches.  Any other handler may keep its session open over its awaits.
OnlyKnownCircles ==
  \A W \in SUBSET Sessions :
    Circular(W) =>
      \E p \in W :
        /\ taken[p] = 2
        /\ \/ inserted[p] /\ migration = "absent"
           \/ job[p] = "apply" /\ stored[p] # None /\ Awaiting(p, "batch")

\* Every update ends, however the pool is exhausted, unless updates wait in a
\* circle.
UpdatesEnd ==
  \A p \in Sessions :
    job[p] # None ~> job[p] = None \/ \E W \in SUBSET Sessions : Circular(W)

\* A message of the chat that carries a menu is the one the bot will edit, or is
\* about to be, unless a rollback, an overlap or Telegram left it behind.
MenuIsFound ==
  \A m \in chat : m = menu \/ m \in left \/ \E p \in Sessions : m \in {shown[p], stored[p]}

\* A button that changes a setting is answered in the end (the test of
\* toggle_global_bump expects one answer).
ToggleEnds == \A p \in Sessions : job[p] = "toggle" ~> job[p] = None
=============================================================================
