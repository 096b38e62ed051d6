-------------------------- MODULE EncryptionMigration --------------------------
(***************************************************************************)
(* Changing the encryption policy of a running bot.  A migration goes      *)
(* through the tables in batches, one transaction each, re-encodes every   *)
(* row for the target policy and activates that policy at last.  The       *)
(* handler of the owner's button drives it batch by batch; after a failed  *)
(* batch, an exception or a restart the owner resumes it with another      *)
(* button, and two handlers may drive it at once.  Other sessions go on    *)
(* reading and writing rows with the policy that was active when they      *)
(* began.  Reading a value works in either form, whatever the policy.      *)
(*                                                                         *)
(* As in TopicStore, a flush writes the columns that differ from what the  *)
(* transaction read (a new ciphertext always does), each row under its     *)
(* lock.  A table whose fields are of several categories is one table per  *)
(* category here.                                                          *)
(***************************************************************************)
EXTENDS Naturals, Sequences, FiniteSets

CONSTANTS
  Drivers,    \* handlers running _finish_migration
  Writers,    \* sessions of other handlers and of the scheduler
  Tables,     \* MIGRATION_TABLES: the category of each table's fields, in order
  Singles,    \* tables of one row: secret_envelopes, app_settings
  Ids,        \* row ids of the other tables
  Policies,   \* sets of encrypted categories the owner may choose
  BatchSize,  \* DEFAULT_MIGRATION_BATCH_SIZE
  None,       \* SQL NULL
  MaxStarts,  \* bounds of the model: migrations,
  MaxWrites,  \*   sessions of writers,
  MaxFaults   \*   failed batches, exceptions and restarts

Last == Len(Tables)
Keys == {k \in (1 .. Last) \X Ids : k[1] \in Singles => k[2] = 1}
MigrationRow == <<0, 0>>

ASSUME MigrationAssumption ==
  /\ BatchSize \in Nat \ {0}
  /\ Ids \subseteq Nat \ {0} /\ 1 \in Ids /\ IsFiniteSet(Ids)
  /\ Last \in Nat /\ Singles \subseteq 1 .. Last
  /\ 1 \in Singles   \* secret_envelopes comes first
  /\ MaxStarts \in Nat /\ MaxWrites \in Nat /\ MaxFaults \in Nat
  /\ Drivers \cap Writers = {} /\ None \notin Drivers \cup Writers

VARIABLES
  active,     \* policy of app_settings, which new sessions use
  migration,  \* committed encryption_migrations row: [status, target, table, row]
  row,        \* row[k]: committed [value, enc] of row k, None if there is none
  owner,      \* owner[x]: session whose open transaction has written x
  draft,      \* draft[x]: x as its owner has written it
  pc,         \* pc[d]: where driver d is
  seen,       \* seen[d]: the migration row as d's transaction read it
  work,       \* work[d]: rows d re-encoded, with the content it will write
  moved,      \* moved[d]: the migration row d will leave
  task,       \* task[w]: [kind, key, codec, written] of writer w's session
  used,       \* keys ever inserted (ids are random)
  touched,    \* history: rows written by sessions during a migration or with a
              \*   policy that is not active any more; all rows, if a migration
              \*   began during the batch of another driver or behind the
              \*   first table, or if two drivers left a torn cursor
  starts, writes, faults

driverVars == <<pc, seen, work, moved>>
vars == <<active, migration, row, owner, draft, driverVars, task, used, touched,
          starts, writes, faults>>

Statuses == {"idle", "running", "failed"}
Migration == [status : Statuses, target : Policies, table : 1 .. Last + 1, row : Nat]
Content == [value : Nat, enc : BOOLEAN]
Steps == {"idle", "start", "status", "resume", "reopen", "load", "rows", "cursor"}
Tasks == [kind : {"save", "insert", "remove"}, key : Keys, codec : Policies,
          written : BOOLEAN]

ASSUME NoneAssumption == None \notin Tasks

TypeOK ==
  /\ active \in Policies
  /\ migration \in Migration
  /\ row \in [Keys -> Content \cup {None}]
  /\ owner \in [Keys \cup {MigrationRow} -> Drivers \cup Writers \cup {None}]
  /\ DOMAIN draft = Keys \cup {MigrationRow}
  /\ pc \in [Drivers -> Steps]
  /\ seen \in [Drivers -> Migration]
  /\ moved \in [Drivers -> Migration]
  /\ \A d \in Drivers : DOMAIN work[d] \subseteq Keys
  /\ task \in [Writers -> Tasks \cup {None}]
  /\ used \subseteq Keys /\ touched \subseteq Keys
  \* Locks belong to open transactions, and what they cover has been written.
  /\ \A d \in Drivers : pc[d] \in {"idle", "start", "status"}
       => \A x \in DOMAIN owner : owner[x] # d
  /\ \A x \in DOMAIN owner : owner[x] = None => draft[x] = None

Empty == [k \in {} |-> None]
Encodes(policy, k) == Tables[k[1]] \in policy

Init ==
  /\ active \in Policies
  /\ migration = [status |-> "idle", target |-> active, table |-> Last + 1, row |-> 0]
  /\ used \in {U \in SUBSET Keys : \A i \in Singles : <<i, 1>> \in U}
  /\ row = [k \in Keys |-> IF k \in used THEN [value |-> 0, enc |-> Encodes(active, k)]
                           ELSE None]
  /\ owner = [x \in Keys \cup {MigrationRow} |-> None]
  /\ draft = [x \in Keys \cup {MigrationRow} |-> None]
  /\ pc = [d \in Drivers |-> "idle"]
  /\ seen = [d \in Drivers |-> migration]
  /\ moved = [d \in Drivers |-> migration]
  /\ work = [d \in Drivers |-> Empty]
  /\ task = [w \in Writers |-> None]
  /\ touched = {}
  /\ starts = 0 /\ writes = 0 /\ faults = 0

-----------------------------------------------------------------------------
(* Transactions.                                                           *)

Free(x, p) == owner[x] \in {None, p}
Held(p) == {x \in DOMAIN owner : owner[x] = p}

\* Mutant: what was written stays behind.
ReleaseOwnership(p) ==
  /\ owner' = [x \in DOMAIN owner |-> IF owner[x] = p THEN None ELSE owner[x]]
  /\ UNCHANGED draft

\* The transaction of p ends and releases what it holds.
Release(p) ==
  /\ owner' = [x \in DOMAIN owner |-> IF owner[x] = p THEN None ELSE owner[x]]
  /\ draft' = [x \in DOMAIN draft |-> IF owner[x] = p THEN None ELSE draft[x]]

\* It commits.
Publish(p) ==
  /\ row' = [k \in Keys |-> IF owner[k] = p THEN draft[k] ELSE row[k]]
  /\ Release(p)

\* What an UPDATE leaves of the migration row as it is now, by a transaction
\* that read it as before and set it to after.
Changed(now, before, after) ==
  [c \in DOMAIN after |-> IF after[c] # before[c] THEN after[c] ELSE now[c]]

-----------------------------------------------------------------------------
(* Starting and driving a migration.                                       *)

\* EncryptionMigrationService.start reads the row and refuses if it is not
\* idle ...
BeginStart(d) ==
  /\ pc[d] = "idle"
  /\ starts < MaxStarts
  /\ migration.status = "idle"
  /\ starts' = starts + 1
  /\ seen' = [seen EXCEPT ![d] = migration]
  /\ pc' = [pc EXCEPT ![d] = "start"]
  /\ UNCHANGED <<active, migration, row, owner, draft, work, moved, task, used, touched,
                 writes, faults>>

\* ... and writes it in the same transaction, over a migration that another
\* handler started meanwhile.
CommitStart(d) ==
  /\ pc[d] = "start"
  /\ Free(MigrationRow, d)
  /\ \E target \in Policies :
       migration' = Changed(migration, seen[d],
                      [status |-> "running", target |-> target, table |-> 1, row |-> 0])
  /\ touched' = IF \/ \E e \in Drivers \ {d} : pc[e] \in {"reopen", "load", "rows"}
                   \/ migration'.table # 1
                  THEN Keys ELSE {}
  /\ pc' = [pc EXCEPT ![d] = "status"]
  /\ UNCHANGED <<active, row, owner, draft, seen, work, moved, task, used,
                 starts, writes, faults>>

\* The owner presses the button that resumes a migration.
PressResume(d) ==
  /\ pc[d] = "idle"
  /\ migration.status # "idle"
  /\ pc' = [pc EXCEPT ![d] = "status"]
  /\ UNCHANGED <<active, migration, row, owner, draft, seen, work, moved, task, used,
                 touched, starts, writes, faults>>

\* _finish_migration: status() decides whether to go on.
CheckStatus(d) ==
  /\ pc[d] = "status"
  /\ pc' = [pc EXCEPT ![d] = IF migration.status = "idle" THEN "idle" ELSE "resume"]
  /\ UNCHANGED <<active, migration, row, owner, draft, seen, work, moved, task, used,
                 touched, starts, writes, faults>>

\* resume reads the row again; another driver may have finished meanwhile.
ReadMigration(d) ==
  /\ pc[d] = "resume"
  /\ seen' = [seen EXCEPT ![d] = migration]
  /\ pc' = [pc EXCEPT ![d] = CASE migration.status = "idle" -> "status"
                               [] migration.status = "failed" -> "reopen"
                               [] OTHER -> "load"]
  /\ UNCHANGED <<active, migration, row, owner, draft, work, moved, task, used, touched,
                 starts, writes, faults>>

\* After a failed batch the status changes, and the next query flushes that.
Reopen(d) ==
  /\ pc[d] = "reopen"
  /\ Free(MigrationRow, d)
  /\ owner' = [owner EXCEPT ![MigrationRow] = d]
  /\ draft' = [draft EXCEPT ![MigrationRow] = [migration EXCEPT !.status = "running"]]
  /\ pc' = [pc EXCEPT ![d] = "load"]
  /\ UNCHANGED <<active, migration, row, seen, work, moved, task, used, touched,
                 starts, writes, faults>>

\* The next rows of table i after row n, at most BatchSize of them.
Batch(i, n) ==
  LET rest == {k \in Keys : k[1] = i /\ row[k] # None /\ (i \in Singles \/ k[2] > n)}
  IN  {k \in rest : Cardinality({j \in rest : j[2] < k[2]}) < BatchSize}

\* Mutant: a full batch does not move the cursor.
NextCursorStuck(m, B) ==
  IF m.table \notin Singles /\ Cardinality(B) = BatchSize
    THEN m
    ELSE [m EXCEPT !.table = @ + 1, !.row = 0]

\* The cursor after batch B: within the table if the batch was full.
NextCursor(m, B) ==
  IF m.table \notin Singles /\ Cardinality(B) = BatchSize
    THEN [m EXCEPT !.row = (CHOOSE k \in B : \A j \in B : j[2] <= k[2])[2]]
    ELSE [m EXCEPT !.table = @ + 1, !.row = 0]

\* The rows of B whose columns change when they are re-encoded for policy.
Reencoded(B, policy) ==
  [k \in {j \in B : Encodes(policy, j) \/ row[j].enc} |->
     [row[k] EXCEPT !.enc = Encodes(policy, k)]]

\* _resume_batch: SELECT the rows, re-encode them, move the cursor; behind the
\* last table, activate the policy.
LoadBatch(d) ==
  /\ pc[d] = "load"
  /\ LET m == [seen[d] EXCEPT !.status = "running"]
         B == Batch(m.table, m.row)
     IN  IF m.table > Last
           THEN /\ work' = [work EXCEPT ![d] = Empty]
                /\ moved' = [moved EXCEPT ![d] = [m EXCEPT !.status = "idle"]]
           ELSE /\ work' = [work EXCEPT ![d] = Reencoded(B, m.target)]
                /\ moved' = [moved EXCEPT ![d] = NextCursor(m, B)]
  /\ pc' = [pc EXCEPT ![d] = "rows"]
  /\ UNCHANGED <<active, migration, row, owner, draft, seen, task, used, touched,
                 starts, writes, faults>>

\* Mutant: a failed batch moves the cursor too.
BatchFailsMovingOn(d) ==
  /\ pc[d] = "load"
  /\ faults < MaxFaults
  /\ faults' = faults + 1
  /\ seen[d].table <= Last
  /\ moved' = [moved EXCEPT ![d] =
                 [NextCursor(seen[d], Batch(seen[d].table, seen[d].row))
                    EXCEPT !.status = "failed"]]
  /\ pc' = [pc EXCEPT ![d] = "rows"]
  /\ UNCHANGED <<active, migration, row, owner, draft, seen, work, task, used, touched,
                 starts, writes>>

\* Re-encoding a row raises: the rows before it are written all the same, the
\* status becomes failed and the cursor stays.
BatchFails(d) ==
  /\ pc[d] = "load"
  /\ faults < MaxFaults
  /\ faults' = faults + 1
  /\ seen[d].table <= Last
  /\ LET B == Batch(seen[d].table, seen[d].row)
     IN  \E k \in B :
           work' = [work EXCEPT ![d] = Reencoded({j \in B : j[2] < k[2]}, seen[d].target)]
  /\ moved' = [moved EXCEPT ![d] = [seen[d] EXCEPT !.status = "failed"]]
  /\ pc' = [pc EXCEPT ![d] = "rows"]
  /\ UNCHANGED <<active, migration, row, owner, draft, seen, task, used, touched,
                 starts, writes>>

\* A driver's handler ends with an exception.
Quit(d) ==
  /\ Release(d)
  /\ pc' = [pc EXCEPT ![d] = "idle"]
  /\ work' = [work EXCEPT ![d] = Empty]

\* flush, one row: its columns as they were read, re-encoded.  A row that was
\* deleted meanwhile makes flush raise StaleDataError.
WriteRow(d, k) ==
  /\ pc[d] = "rows"
  /\ k \in DOMAIN work[d]
  /\ Free(k, d)
  /\ IF row[k] = None
       THEN Quit(d)
       ELSE /\ owner' = [owner EXCEPT ![k] = d]
            /\ draft' = [draft EXCEPT ![k] = work[d][k]]
            /\ work' = [work EXCEPT ![d] = [j \in DOMAIN work[d] \ {k} |-> work[d][j]]]
            /\ UNCHANGED pc
  /\ UNCHANGED <<active, migration, row, seen, moved, task, used, touched,
                 starts, writes, faults>>

\* The migration row d leaves.
Leaves(d) ==
  LET now == IF owner[MigrationRow] = d THEN draft[MigrationRow] ELSE migration
      before == IF owner[MigrationRow] = d THEN [seen[d] EXCEPT !.status = "running"]
                ELSE seen[d]
  IN  Changed(now, before, moved[d])

\* Another driver has moved the cursor since d read it, and d changes the table
\* or the row of it, but not both: the rest stays as the other left it.
Torn(d) ==
  LET Cursor(m) == <<m.table, m.row>>
  IN  Cursor(Leaves(d)) \notin {Cursor(migration), Cursor(moved[d])}

\* flush, the migration row, and COMMIT.  A failed batch ends the loop.
CommitBatch(d) ==
  /\ pc[d] = "rows"
  /\ DOMAIN work[d] = {}
  /\ Free(MigrationRow, d)
  /\ migration' = Leaves(d)
  /\ touched' = IF Torn(d) THEN Keys ELSE touched
  /\ active' = IF moved[d].status = "idle" THEN moved[d].target ELSE active
  /\ Publish(d)
  /\ pc' = [pc EXCEPT ![d] = IF moved[d].status = "failed" THEN "idle" ELSE "status"]
  /\ UNCHANGED <<seen, work, moved, task, used, starts, writes, faults>>

\* The database raises in the middle of it, or aborts the transaction because
\* of a wait cycle.
DriverRaises(d) ==
  /\ pc[d] # "idle"
  /\ faults < MaxFaults
  /\ faults' = faults + 1
  /\ Quit(d)
  /\ UNCHANGED <<active, migration, row, seen, moved, task, used, touched, starts, writes>>

-----------------------------------------------------------------------------
(* Other sessions.                                                         *)

\* A session begins and loads the active policy.
OpenSession(w) ==
  /\ task[w] = None
  /\ writes < MaxWrites
  /\ writes' = writes + 1
  /\ \E kind \in {"save", "insert", "remove"}, k \in Keys :
       /\ kind = "insert" => k \notin used
       /\ kind = "remove" => k[1] \notin Singles
       /\ kind # "insert" => row[k] # None
       /\ used' = IF kind = "insert" THEN used \cup {k} ELSE used
       /\ task' = [task EXCEPT ![w] = [kind |-> kind, key |-> k, codec |-> active,
                                       written |-> FALSE]]
  /\ UNCHANGED <<active, migration, row, owner, draft, driverVars, touched, starts, faults>>

\* It writes a row: a new value in the form its policy demands.
WriteSession(w) ==
  /\ task[w] # None
  /\ ~task[w].written
  /\ LET k == task[w].key
     IN  /\ Free(k, w)
         /\ task[w].kind # "insert" => row[k] # None
         /\ owner' = [owner EXCEPT ![k] = w]
         /\ draft' = [draft EXCEPT ![k] =
              IF task[w].kind = "remove" THEN None
              ELSE [value |-> writes, enc |-> Encodes(task[w].codec, k)]]
  /\ task' = [task EXCEPT ![w].written = TRUE]
  /\ UNCHANGED <<active, migration, row, driverVars, used, touched, starts, writes, faults>>

\* It commits, Telegram requests later.
CommitSession(w) ==
  /\ task[w] # None
  /\ task[w].written
  /\ Publish(w)
  /\ touched' = IF migration.status # "idle" \/ task[w].codec # active
                  THEN touched \cup {task[w].key} ELSE touched
  /\ task' = [task EXCEPT ![w] = None]
  /\ UNCHANGED <<active, migration, driverVars, used, starts, writes, faults>>

\* It is rolled back.
AbortSession(w) ==
  /\ task[w] # None
  /\ Release(w)
  /\ task' = [task EXCEPT ![w] = None]
  /\ UNCHANGED <<active, migration, row, driverVars, used, touched, starts, writes, faults>>

\* The process is restarted: every open transaction is rolled back.
Restart ==
  /\ faults < MaxFaults
  /\ faults' = faults + 1
  /\ owner' = [x \in DOMAIN owner |-> None]
  /\ draft' = [x \in DOMAIN draft |-> None]
  /\ pc' = [d \in Drivers |-> "idle"]
  /\ work' = [d \in Drivers |-> Empty]
  /\ task' = [w \in Writers |-> None]
  /\ UNCHANGED <<active, migration, row, seen, moved, used, touched, starts, writes>>

-----------------------------------------------------------------------------
DriverStep(d) ==
  \/ CommitStart(d)
  \/ CheckStatus(d)
  \/ ReadMigration(d)
  \/ Reopen(d)
  \/ LoadBatch(d)
  \/ \E k \in Keys : WriteRow(d, k)
  \/ CommitBatch(d)

WriterStep(w) == WriteSession(w) \/ CommitSession(w) \/ AbortSession(w)

Next ==
  \/ \E d \in Drivers :
       \/ BeginStart(d)
       \/ PressResume(d)
       \/ DriverStep(d)
       \/ BatchFails(d)
       \/ DriverRaises(d)
  \/ \E w \in Writers : OpenSession(w) \/ WriterStep(w)
  \/ Restart

Spec == Init /\ [][Next]_vars

-----------------------------------------------------------------------------
(* Properties.                                                             *)

Matches(k) == row[k] # None => row[k].enc = Encodes(active, k)

\* When no migration is under way, every row has the form the active policy
\* asks for (the integration test of the migration checks the rows when the
\* status is idle again).  The code does not keep this: a session that loaded
\* the old policy may write a row the migration has passed, and, without any
\* such session, two drivers may leave the number of a row of one table with
\* the name of the next table, whose rows up to that number are never visited.
FormsMatchPolicy == migration.status = "idle" => \A k \in Keys : Matches(k)

\* It does for the rows no other session wrote during a migration, in spite
\* of failed batches, exceptions, restarts and a second driver, unless the
\* cursor was torn or the migration began while that driver was still at work
\* on a batch of the one before, or with the cursor of that one (the starting
\* handler, too, writes only what differs from what it read).
UntouchedFormsMatchPolicy ==
  migration.status = "idle" => \A k \in Keys \ touched : Matches(k)

\* A migration goes on where it was interrupted: its cursor never moves back,
\* and every batch that succeeds moves it on, so that there is an end to them.
\* (Excepted is a driver that writes what it read before another one moved on:
\* rows are then visited again, which changes nothing.)
Before(m, n) == m.table < n.table \/ (m.table = n.table /\ m.row < n.row)
CursorMovesOn ==
  [][migration.status # "idle" /\ migration'.status # "idle" =>
       /\ (\A d \in Drivers : pc[d] \in {"start", "load", "rows"} => seen[d] = migration)
            => ~Before(migration', migration)
       /\ \A d \in Drivers :
            pc[d] = "rows" /\ pc'[d] = "status" /\ seen[d] = migration
              => Before(migration, migration')]_vars

\* A migration changes the form of a value, never the value.  (Not so in the
\* code: a batch writes the values it selected, whatever was committed since.)
KeepsValues ==
  [][\A d \in Drivers : \A k \in Held(d) \cap Keys :
       row[k] # None /\ row'[k] # None => row'[k].value = row[k].value]_vars
=============================================================================
