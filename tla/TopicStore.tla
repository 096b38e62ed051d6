------------------------------ MODULE TopicStore ------------------------------
(***************************************************************************)
(* Topics and settings under concurrent transactions.  Telegram updates    *)
(* are handled concurrently and the scheduler records results meanwhile;   *)
(* each is a database session that reads records, computes new ones and    *)
(* saves them whole, TopicService and _persist_result being the programs.  *)
(*                                                                         *)
(* A save is two statements.  The repository SELECTs the row again, assigns *)
(* every field of the record, and SQLAlchemy UPDATEs the columns that then *)
(* differ from what that SELECT returned: a plain column with an equal     *)
(* value is left out, an encrypted one is always written, its nonce being  *)
(* new.  PostgreSQL (READ COMMITTED) makes the UPDATE wait for the row     *)
(* lock of another open transaction and then applies it to the row that    *)
(* transaction left behind.  A handler commits when it is done, after its  *)
(* Telegram requests; a wait cycle is broken by aborting one session.      *)
(***************************************************************************)
EXTENDS TopicSchedule, FiniteSets, SequencesExt

CONSTANTS
  Sessions,   \* database sessions open at the same time
  Topics,     \* topics.id; an id is never used twice
  Kinds,      \* operations of this instance, see Operations
  Intervals,  \* intervals users choose
  RetryWait,  \* the retry schedule's delay
  Encrypted,  \* columns the active policy encrypts
  MaxTime,    \* bounds of the model: the clock
  MaxOps      \*   and the operations started

Columns == {"enabled", "custom", "last", "next", "due"}
SettingsKey == "settings"
Keys == Topics \cup {SettingsKey}

ASSUME StoreAssumption ==
  /\ IsFiniteSet(Topics)
  /\ Intervals \subseteq Nat \ {0} /\ RetryWait \in Nat \ {0}
  /\ Encrypted \subseteq Columns \ {"due"}   \* schedule_due_at is always plain
  /\ MaxTime \in Nat /\ MaxOps \in Nat
  /\ None \notin Nat \cup Sessions
  /\ SettingsKey \notin Topics

VARIABLES
  clock,
  row,       \* row[t]: committed columns of topic t, None if there is no row
  settings,  \* committed app_settings: [global, interval, paused]
  owner,     \* owner[k]: session whose open transaction has written row k
  draft,     \* draft[k]: row k as its owner has written it
  used,      \* topic ids ever given (uuid4)
  sharers,   \* sharers[t]: sessions whose new attempts reference topic t
  op,        \* op[p]: the operation session p runs, None if it runs none
  script,    \* script[p]: statements p has still to execute
  target,    \* target[p]: topics p has still to save
  rec,       \* rec[p][t]: the row of t as p read it, None if it did not
  cfg,       \* cfg[p]: the settings as p read them
  base,      \* base[p]: what the SELECT of the save in progress returned
  new,       \* new[p]: what that save assigns
  raced,     \* history: topics whose row changed between the two statements of
             \*   a save; the settings, if they changed since their saver read them
  ops

storeVars == <<row, settings, owner, draft, sharers, used>>
sessionVars == <<op, script, target, rec, cfg, base, new>>
vars == <<clock, storeVars, sessionVars, raced, ops>>

Instant == Nat \cup {None}
Row == [enabled : BOOLEAN, custom : Instant, last : Instant, next : Instant,
        due : Instant]
Settings == [global : BOOLEAN, interval : Nat, paused : BOOLEAN]

\* What users and the scheduler do.  The forum's answer to a bump is part of
\* the operation: nothing depends on it before it arrives.
Operations ==
  LET all ==
        [kind : {"add", "enable", "disable", "remove"}, topic : Topics]
          \cup [kind : {"custom"}, topic : Topics, seconds : Intervals \cup {None}]
          \cup [kind : {"manual", "record"}, topic : Topics, outcome : Outcomes]
          \cup [kind : {"interval"}, seconds : Intervals]
          \cup [kind : {"toggle", "unpause"}]
  IN  {o \in all : o.kind \in Kinds}

ASSUME NoneAssumption == None \notin Operations /\ None \notin Row /\ None \notin Settings

Steps == {"topic", "settings", "forum", "insert", "attempt", "list", "load", "write",
          "loadSettings", "writeSettings", "notify", "delete", "commit"}

TypeOK ==
  /\ clock \in Nat
  /\ row \in [Topics -> Row \cup {None}]
  /\ settings \in Settings
  /\ owner \in [Keys -> Sessions \cup {None}]
  /\ \A t \in Topics : draft[t] \in Row \cup {None}
  /\ draft[SettingsKey] \in Settings \cup {None}
  /\ used \subseteq Topics
  /\ sharers \in [Topics -> SUBSET Sessions]
  /\ op \in [Sessions -> Operations \cup {None}]
  /\ script \in [Sessions -> Seq(Steps)]
  /\ target \in [Sessions -> Seq(Topics)]
  /\ rec \in [Sessions -> [Topics -> Row \cup {None}]]
  /\ cfg \in [Sessions -> Settings \cup {None}]
  /\ raced \subseteq Keys
  /\ ops \in Nat
  \* Uncommitted rows have an owner, idle sessions own nothing.
  /\ \A k \in Keys : owner[k] = None => draft[k] = None
  /\ \A p \in Sessions : op[p] = None => \A k \in Keys : owner[k] # p

NewRow(dueAt) ==
  [enabled |-> TRUE, custom |-> None, last |-> None, next |-> dueAt, due |-> dueAt]

Init ==
  /\ clock = 0
  /\ used \in SUBSET Topics
  /\ \E seconds \in Intervals :
       /\ row = [t \in Topics |-> IF t \in used THEN NewRow(seconds) ELSE None]
       /\ settings = [global |-> TRUE, interval |-> seconds, paused |-> FALSE]
  /\ owner = [k \in Keys |-> None]
  /\ draft = [k \in Keys |-> None]
  /\ sharers = [t \in Topics |-> {}]
  /\ op = [p \in Sessions |-> None]
  /\ script = [p \in Sessions |-> <<>>]
  /\ target = [p \in Sessions |-> <<>>]
  /\ rec = [p \in Sessions |-> [t \in Topics |-> None]]
  /\ cfg = [p \in Sessions |-> None]
  /\ base = [p \in Sessions |-> None]
  /\ new = [p \in Sessions |-> None]
  /\ raced = {}
  /\ ops = 0

-----------------------------------------------------------------------------
(* The operations as sequences of statements.                              *)

\* manual_bump: SessionForumClient commits before it asks the forum, and
\* SessionNotificationSink before it notifies the owner of a pause.
ManualScript(outcome) ==
  CASE outcome = "success" ->
         <<"topic", "forum", "attempt", "settings", "load", "write", "commit">>
    [] outcome \in Rejections ->
         <<"topic", "forum", "attempt", "settings", "loadSettings", "writeSettings",
           "notify", "load", "write", "commit">>
    [] OTHER -> <<"topic", "forum", "attempt", "load", "write", "commit">>

\* _persist_result.
RecordScript(outcome) ==
  IF outcome \in Rejections
    THEN <<"topic", "settings", "attempt", "load", "write",
           "loadSettings", "writeSettings", "commit">>
    ELSE <<"topic", "settings", "attempt", "load", "write", "commit">>

\* The statements of operation o; "list" puts a save before the commit.
Script(o) ==
  CASE o.kind = "add" -> <<"forum", "settings", "insert", "commit">>
    [] o.kind \in {"enable", "custom"} ->
         <<"topic", "settings", "load", "write", "commit">>
    [] o.kind = "disable" -> <<"topic", "load", "write", "commit">>
    [] o.kind = "remove" -> <<"topic", "delete", "commit">>
    [] o.kind = "manual" -> ManualScript(o.outcome)
    [] o.kind = "record" -> RecordScript(o.outcome)
    [] o.kind = "interval" ->
         <<"settings", "loadSettings", "writeSettings", "list", "commit">>
    [] OTHER -> <<"settings", "loadSettings", "writeSettings", "commit">>

OnTopic(o) == o.kind \in {"enable", "disable", "remove", "custom", "manual", "record"}

\* The record operation o saves for a topic it read as r, with the settings s
\* it read, at time at.
NewTopic(o, r, s, at) ==
  CASE o.kind = "enable" ->
         [r EXCEPT !.enabled = TRUE, !.next = at + EffectiveInterval(s.interval, r.custom)]
    [] o.kind = "disable" -> [r EXCEPT !.enabled = FALSE]
    [] o.kind = "custom" ->
         [r EXCEPT !.custom = o.seconds,
                   !.next = NextBumpAt(r.last, at, EffectiveInterval(s.interval, o.seconds))]
    [] o.kind = "interval" -> [r EXCEPT !.next = NextBumpAt(r.last, at, o.seconds)]
    [] o.kind = "manual" /\ o.outcome # "success" -> r
    [] OTHER -> UpdatedTopic(r, o.outcome, None, s.interval, <<RetryWait>>, 0, at)

\* Mutant: switching bumps on or off drops the pause.
NewSettingsUnpausing(o, s) ==
  CASE o.kind = "interval" -> [s EXCEPT !.interval = o.seconds]
    [] o.kind = "toggle" -> [s EXCEPT !.global = ~@, !.paused = FALSE]
    [] o.kind = "unpause" -> [s EXCEPT !.paused = FALSE]
    [] OTHER -> [s EXCEPT !.paused = TRUE]

NewSettings(o, s) ==
  CASE o.kind = "interval" -> [s EXCEPT !.interval = o.seconds]
    [] o.kind = "toggle" -> [s EXCEPT !.global = ~@]
    [] o.kind = "unpause" -> [s EXCEPT !.paused = FALSE]
    [] OTHER -> [s EXCEPT !.paused = TRUE]

-----------------------------------------------------------------------------
(* Statements.                                                             *)

At(p, step) == script[p] # <<>> /\ Head(script[p]) = step
Continue(p) == script' = [script EXCEPT ![p] = Tail(@)]

\* Mutant: the session goes on with the row it read first.
SeenRowCached(p, t) ==
  IF owner[t] = p THEN draft[t] ELSE IF rec[p][t] # None THEN rec[p][t] ELSE row[t]

\* What a statement of p reads: its own write, or the committed row.
SeenRow(p, t) == IF owner[t] = p THEN draft[t] ELSE row[t]
SeenSettings(p) == IF owner[SettingsKey] = p THEN draft[SettingsKey] ELSE settings

\* Mutant: the locks go, the uncommitted rows stay.
ReleaseOwnership(p) ==
  /\ owner' = [k \in Keys |-> IF owner[k] = p THEN None ELSE owner[k]]
  /\ sharers' = [t \in Topics |-> sharers[t] \ {p}]
  /\ UNCHANGED draft

\* The transaction of p ends: with its writes (publish) or without them.
ReleaseLocks(p) ==
  /\ owner' = [k \in Keys |-> IF owner[k] = p THEN None ELSE owner[k]]
  /\ draft' = [k \in Keys |-> IF owner[k] = p THEN None ELSE draft[k]]
  /\ sharers' = [t \in Topics |-> sharers[t] \ {p}]

Publish(p) ==
  /\ row' = [t \in Topics |-> SeenRow(p, t)]
  /\ settings' = SeenSettings(p)
  /\ ReleaseLocks(p)

EndSession(p) ==
  /\ op' = [op EXCEPT ![p] = None]
  /\ script' = [script EXCEPT ![p] = <<>>]
  /\ target' = [target EXCEPT ![p] = <<>>]
  /\ rec' = [rec EXCEPT ![p] = [t \in Topics |-> None]]
  /\ cfg' = [cfg EXCEPT ![p] = None]
  /\ base' = [base EXCEPT ![p] = None]
  /\ new' = [new EXCEPT ![p] = None]

\* Mutant: the session is dropped with its transaction open.
DropSession(p) ==
  /\ EndSession(p)
  /\ UNCHANGED <<clock, storeVars, raced, ops>>

\* An exception: the middleware rolls the session back.
Rollback(p) ==
  /\ EndSession(p)
  /\ ReleaseLocks(p)
  /\ UNCHANGED <<clock, row, settings, used, raced, ops>>

\* An update arrives, or the scheduler has a result to record.
Start(p) ==
  /\ op[p] = None
  /\ ops < MaxOps
  /\ ops' = ops + 1
  /\ \E o \in Operations :
       /\ o.kind = "add" => o.topic \notin used
       /\ used' = IF o.kind = "add" THEN used \cup {o.topic} ELSE used
       /\ op' = [op EXCEPT ![p] = o]
       /\ script' = [script EXCEPT ![p] = Script(o)]
       /\ target' = [target EXCEPT ![p] = IF OnTopic(o) THEN <<o.topic>> ELSE <<>>]
  /\ UNCHANGED <<clock, row, settings, owner, draft, sharers, rec, cfg, base, new,
                 raced>>

\* TopicRepository.get; a handler raises TopicNotFoundError, _persist_result
\* just returns.
ReadTopic(p) ==
  /\ At(p, "topic")
  /\ LET t == op[p].topic
     IN  IF SeenRow(p, t) = None
           THEN Rollback(p)
           ELSE /\ rec' = [rec EXCEPT ![p][t] = SeenRow(p, t)]
                /\ Continue(p)
                /\ UNCHANGED <<clock, storeVars, op, target, cfg, base, new, raced, ops>>

\* SettingsRepository.get_or_create; clear_api_pause stops if there is no pause.
ReadSettings(p) ==
  /\ At(p, "settings")
  /\ cfg' = [cfg EXCEPT ![p] = SeenSettings(p)]
  /\ script' = [script EXCEPT ![p] =
                  IF op[p].kind = "unpause" /\ ~SeenSettings(p).paused
                    THEN <<"commit">> ELSE Tail(@)]
  /\ UNCHANGED <<clock, storeVars, op, target, rec, base, new, raced, ops>>

\* The session commits and asks the forum, or commits and notifies the owner.
CommitAndWait(p) ==
  /\ At(p, "forum") \/ At(p, "notify")
  /\ Publish(p)
  /\ Continue(p)
  /\ UNCHANGED <<clock, used, op, target, rec, cfg, base, new, raced, ops>>

\* TopicRepository.add; nobody else sees the row before the commit.
InsertTopic(p) ==
  /\ At(p, "insert")
  /\ LET t == op[p].topic
     IN  /\ owner' = [owner EXCEPT ![t] = p]
         /\ draft' = [draft EXCEPT ![t] =
                        NewRow(clock + EffectiveInterval(cfg[p].interval, None))]
  /\ Continue(p)
  /\ UNCHANGED <<clock, row, settings, sharers, used, op, target, rec, cfg, base, new,
                 raced, ops>>

\* The foreign key of the attempt locks the topic's key: the INSERT waits for
\* a transaction that is deleting the topic, and fails if the topic is gone.
AddAttempt(p) ==
  /\ At(p, "attempt")
  /\ LET t == op[p].topic
     IN  /\ owner[t] \in {None, p} \/ draft[t] # None
         /\ IF row[t] = None
              THEN Rollback(p)
              ELSE /\ sharers' = [sharers EXCEPT ![t] = @ \cup {p}]
                   /\ Continue(p)
                   /\ UNCHANGED <<clock, row, settings, owner, draft, used, op, target,
                                  rec, cfg, base, new, raced, ops>>

\* set_global_interval lists the topics and saves those without an interval
\* of their own.
ListTopics(p) ==
  /\ At(p, "list")
  /\ LET listed == {t \in Topics : SeenRow(p, t) # None}
         chosen == {t \in listed : SeenRow(p, t).custom = None}
     IN  /\ rec' = [rec EXCEPT ![p] =
                      [t \in Topics |-> IF t \in listed THEN SeenRow(p, t) ELSE None]]
         /\ \E order \in SetToSeqs(chosen) : target' = [target EXCEPT ![p] = order]
         /\ script' = [script EXCEPT ![p] =
                         IF chosen = {} THEN Tail(@) ELSE <<"load", "write", "commit">>]
  /\ UNCHANGED <<clock, storeVars, op, cfg, base, new, raced, ops>>

\* Mutant: the save leaves the due time to others.
LoadTopicKeepingDue(p) ==
  /\ At(p, "load")
  /\ LET t == Head(target[p])
         updated == NewTopic(op[p], rec[p][t], cfg[p], clock)
     IN  IF SeenRow(p, t) = None
           THEN Rollback(p)
           ELSE /\ base' = [base EXCEPT ![p] = SeenRow(p, t)]
                /\ new' = [new EXCEPT ![p] = updated]
                /\ Continue(p)
                /\ UNCHANGED <<clock, storeVars, op, target, rec, cfg, raced, ops>>

\* TopicRepository.save, first statement.
LoadTopic(p) ==
  /\ At(p, "load")
  /\ LET t == Head(target[p])
         updated == NewTopic(op[p], rec[p][t], cfg[p], clock)
     IN  IF SeenRow(p, t) = None
           THEN Rollback(p)   \* KeyError
           ELSE /\ base' = [base EXCEPT ![p] = SeenRow(p, t)]
                /\ new' = [new EXCEPT ![p] = [updated EXCEPT !.due = DueAt(updated)]]
                /\ Continue(p)
                /\ UNCHANGED <<clock, storeVars, op, target, rec, cfg, raced, ops>>

\* A column is left out of the UPDATE when its value did not change, unless
\* it was encrypted anew; NULL is not encrypted ("custom" stands for a flag,
\* too, which is never NULL).
Written(before, after) ==
  {c \in DOMAIN after :
     before[c] # after[c] \/ (c \in Encrypted /\ (after[c] # None \/ c = "custom"))}

Applied(current, before, after) ==
  [c \in DOMAIN after |-> IF c \in Written(before, after) THEN after[c] ELSE current[c]]

\* TopicRepository.save, the UPDATE of its flush.  It needs the row lock and
\* finds the newest row; if that is gone, flush raises StaleDataError.
WriteTopic(p) ==
  /\ At(p, "write")
  /\ LET t == Head(target[p])
     IN  /\ owner[t] \in {None, p}
         /\ IF SeenRow(p, t) = None
              THEN Rollback(p)
              ELSE /\ IF Written(base[p], new[p]) = {}
                        THEN UNCHANGED <<owner, draft>>
                        ELSE /\ owner' = [owner EXCEPT ![t] = p]
                             /\ draft' = [draft EXCEPT ![t] =
                                            Applied(SeenRow(p, t), base[p], new[p])]
                   /\ raced' = IF SeenRow(p, t) # base[p] THEN raced \cup {t} ELSE raced
                   /\ target' = [target EXCEPT ![p] = Tail(@)]
                   /\ base' = [base EXCEPT ![p] = None]
                   /\ new' = [new EXCEPT ![p] = None]
                   /\ script' = [script EXCEPT ![p] =   \* the next topic of the loop
                                   IF Len(target[p]) > 1 THEN <<"load", "write", "commit">>
                                   ELSE Tail(@)]
                   /\ UNCHANGED <<clock, row, settings, sharers, used, op, rec, cfg, ops>>

\* SettingsRepository.save, first statement.
LoadSettings(p) ==
  /\ At(p, "loadSettings")
  /\ base' = [base EXCEPT ![p] = SeenSettings(p)]
  /\ new' = [new EXCEPT ![p] = NewSettings(op[p], cfg[p])]
  /\ Continue(p)
  /\ UNCHANGED <<clock, storeVars, op, target, rec, cfg, raced, ops>>

\* Of the settings, api_paused alone is always plain; with an encrypting
\* policy the other columns are always written.
WrittenSettings(before, after) ==
  {c \in DOMAIN after :
     before[c] # after[c] \/ (c # "paused" /\ "enabled" \in Encrypted)}

WriteSettings(p) ==
  /\ At(p, "writeSettings")
  /\ owner[SettingsKey] \in {None, p}
  /\ LET written == WrittenSettings(base[p], new[p])
     IN  IF written = {}
           THEN UNCHANGED <<owner, draft>>
           ELSE /\ owner' = [owner EXCEPT ![SettingsKey] = p]
                /\ draft' = [draft EXCEPT ![SettingsKey] =
                               [c \in DOMAIN settings |->
                                  IF c \in written THEN new[p][c] ELSE SeenSettings(p)[c]]]
  /\ raced' = IF SeenSettings(p) # cfg[p] THEN raced \cup {SettingsKey} ELSE raced
  /\ base' = [base EXCEPT ![p] = None]
  /\ new' = [new EXCEPT ![p] = None]
  /\ Continue(p)
  /\ UNCHANGED <<clock, row, settings, sharers, used, op, target, rec, cfg, ops>>

\* DELETE waits for writers of the row and for attempts that reference it;
\* the attempts go with it (ON DELETE CASCADE).
DeleteTopic(p) ==
  /\ At(p, "delete")
  /\ LET t == op[p].topic
     IN  /\ owner[t] \in {None, p}
         /\ sharers[t] \subseteq {p}
         /\ IF row[t] = None
              THEN UNCHANGED <<owner, draft>>
              ELSE /\ owner' = [owner EXCEPT ![t] = p]
                   /\ draft' = [draft EXCEPT ![t] = None]
  /\ Continue(p)
  /\ UNCHANGED <<clock, row, settings, sharers, used, op, target, rec, cfg, base, new,
                 raced, ops>>

Commit(p) ==
  /\ At(p, "commit")
  /\ Publish(p)
  /\ EndSession(p)
  /\ UNCHANGED <<clock, used, raced, ops>>

\* A Telegram request, the forum client or the database raises.
Fail(p) ==
  /\ op[p] # None
  /\ Rollback(p)

\* The sessions whose locks p's next statement waits for.
WaitsFor(p) ==
  IF op[p] = None THEN {}
  ELSE CASE At(p, "write") -> {owner[Head(target[p])]} \ {None, p}
         [] At(p, "writeSettings") -> {owner[SettingsKey]} \ {None, p}
         [] At(p, "delete") ->
              ({owner[op[p].topic]} \cup sharers[op[p].topic]) \ {None, p}
         [] At(p, "attempt") /\ draft[op[p].topic] = None ->
              {owner[op[p].topic]} \ {None, p}
         [] OTHER -> {}

\* PostgreSQL aborts one transaction of a wait cycle.
DeadlockAbort(p) ==
  /\ \E W \in SUBSET Sessions :
       p \in W /\ \A q \in W : WaitsFor(q) \cap W # {}
  /\ Rollback(p)

Tick ==
  /\ clock < MaxTime
  /\ clock' = clock + 1
  /\ UNCHANGED <<storeVars, sessionVars, raced, ops>>

-----------------------------------------------------------------------------
SessionStep(p) ==
  \/ ReadTopic(p)
  \/ ReadSettings(p)
  \/ CommitAndWait(p)
  \/ InsertTopic(p)
  \/ AddAttempt(p)
  \/ ListTopics(p)
  \/ LoadTopic(p)
  \/ WriteTopic(p)
  \/ LoadSettings(p)
  \/ WriteSettings(p)
  \/ DeleteTopic(p)
  \/ Commit(p)
  \/ DeadlockAbort(p)

Next ==
  \/ \E p \in Sessions : Start(p) \/ SessionStep(p) \/ Fail(p)
  \/ Tick

Spec == Init /\ [][Next]_vars

\* An open session goes on whenever its next statement can be executed, and
\* PostgreSQL resolves wait cycles (deadlock_timeout).
FairSpec == Spec /\ \A p \in Sessions : WF_vars(SessionStep(p))

-----------------------------------------------------------------------------
(* Properties.                                                             *)

\* The plain due time of the claim query and the encrypted schedule of the
\* topic are two columns for one fact.  The code does not keep them together:
\* a commit between the SELECT and the UPDATE of one save separates them.
ScheduleMatches == \A t \in Topics : row[t] # None => row[t].due = DueAt(row[t])

\* Nothing else does, not even a save from a stale record: while no save of a
\* topic was raced like that, its due time is that of its schedule.
UnracedScheduleMatches ==
  \A t \in Topics \ raced : row[t] # None => row[t].due = DueAt(row[t])

\* A removed topic is never brought back, whatever saves were under way: only
\* adding makes a row.
RemovedStaysRemoved ==
  [][\A t \in Topics : row[t] = None /\ row'[t] # None
       => \E p \in Sessions : owner[t] = p /\ op[p].kind = "add"]_vars

\* Only clear_api_pause ends an API pause.  This, too, the code does not keep:
\* a save of settings read before the pause was committed writes it away.
Unpauses(p) == owner[SettingsKey] = p /\ op[p].kind = "unpause"

PauseSticks ==
  [][settings.paused /\ ~settings'.paused => \E p \in Sessions : Unpauses(p)]_vars

\* Only such a save does: as long as nobody saves settings from a stale record,
\* a pause ends by clear_api_pause alone.
UnracedPauseSticks ==
  [][settings.paused /\ ~settings'.paused
       => SettingsKey \in raced \/ \E p \in Sessions : Unpauses(p)]_vars

\* A failed manual bump leaves the topic's schedule alone.
FailedManualKeepsSchedule ==
  [][\A p \in Sessions, t \in Topics :
       owner[t] = p /\ op[p].kind = "manual" /\ op[p].outcome # "success" /\ row[t] # None
         => row'[t].next = row[t].next]_vars

\* A new global interval leaves topics with an interval of their own alone.
\* (Not so in the code: it saves the records it listed, and an interval chosen
\* after that is overwritten.)
GlobalIntervalSparesCustom ==
  [][\A p \in Sessions, t \in Topics :
       owner[t] = p /\ op[p].kind = "interval" /\ row[t] # None /\ row[t].custom # None
         => row'[t] = row[t]]_vars

\* When nothing is under way, no topic of the global interval waits for longer
\* than that interval, or than the forum asked for.  (Not so in the code: a
\* topic added meanwhile with the interval read before is not listed.)
GlobalIntervalReachesAll ==
  (\A p \in Sessions : op[p] = None)
    => \A t \in Topics :
         row[t] # None /\ row[t].enabled /\ row[t].custom = None /\ row[t].next # None
           => \E wait \in {settings.interval, RetryWait} : row[t].next <= clock + wait

\* Every operation ends, in spite of the locks and their order.
SessionsEnd == \A p \in Sessions : op[p] # None ~> op[p] = None
=============================================================================
