---------------------------- MODULE AccessControl ----------------------------
(***************************************************************************)
(* Who is known to the bot and who may use it: known_users, administrators *)
(* and the updates that read and write them.  Every update is a database   *)
(* session of its own, handled concurrently with others, committed after   *)
(* its Telegram requests and rolled back by any exception.                 *)
(*                                                                         *)
(* A person is stored once (unique telegram_id_index), under at most one   *)
(* name, and a name belongs to at most one row (unique username_index).    *)
(* PostgreSQL makes a statement that would duplicate a key of a row        *)
(* another open transaction wrote wait for that transaction, and fail if   *)
(* the duplicate stays.  The name is kept twice, as the column shown to    *)
(* people and as the index it is found by.                                 *)
(***************************************************************************)
EXTENDS Naturals, FiniteSets

CONSTANTS
  Sessions,       \* updates handled at the same time
  Owner,          \* settings.owner_id
  Others,         \* the other people who write to the bot
  Names,          \* Telegram usernames, up to case
  NameEncrypted,  \* whether the policy encrypts telegram_identities
  None,           \* SQL NULL
  MaxUpdates,     \* bounds of the model: updates,
  MaxRenames,     \*   changes of a Telegram username
  MaxRestarts     \*   and restarts of the process

Users == Others \cup {Owner}
Name == Names \cup {None}

\* A row of known_users.
Row == [name : Name, index : Name]

\* What people do: send /start, use a topic button, or, meant for the owner
\* alone, add an administrator by Telegram id or by name, or remove one.
Updates ==
  [kind : {"start"}, by : Users, name : Name]
    \cup [kind : {"act"}, by : Others]
    \cup [kind : {"addId", "remove"}, by : Users, person : Users]
    \cup [kind : {"addName"}, by : Users, name : Names]

\* NULL is no value of any column.
ASSUME AccessAssumption ==
  /\ Owner \notin Others
  /\ None \notin Users \cup Names \cup Row \cup Updates \cup {"in", "out", "unknown"}
  /\ "unknown" \notin Names
  /\ NameEncrypted \in BOOLEAN
  /\ MaxUpdates \in Nat /\ MaxRenames \in Nat /\ MaxRestarts \in Nat

VARIABLES
  users,     \* users[u]: committed row of u in known_users, None if there is none
  admins,    \* people with a committed row in administrators
  unlocked,  \* RuntimeVault.is_unlocked
  tgName,    \* tgName[u]: the username u has in Telegram now
  job,       \* job[p]: the update session p handles, None if it is idle
  pc,        \* pc[p]: the next statement of p
  who,       \* who[p]: the person whose rows p works on
  seen,      \* seen[p]: the row of who[p] as the SELECT of upsert returned it,
             \*   until it is saved
  written,   \* written[p]: that row as p's open transaction has written it
  marked,    \* marked[p]: "in" or "out" if p has inserted or deleted who[p]'s
             \*   administrator row
  trusted,   \* trusted[p]: p passed its role check
  menu,      \* menu[p]: the middleware found the sender's row, under which the
             \*   sender's menu message is kept
  \* History: identities the owner sent, names people started the bot under,
  \* people whose row was saved after a look that was stale by then, and
  \* updates whose sender was dismissed since they arrived.
  sent, carried, raced, lapsed,
  updates, renames, restarts

database == <<users, admins>>
session == <<job, pc, who, seen, written, marked, trusted, menu>>
history == <<sent, carried, raced, lapsed>>
bounds == <<updates, renames, restarts>>
vars == <<database, unlocked, tgName, session, history, bounds>>

Statements ==
  {"idle", "authorize", "resolve", "select", "write", "contains", "insert", "delete",
   "render", "reply", "commit"}

TypeOK ==
  /\ users \in [Users -> Row \cup {None}]
  /\ admins \subseteq Users
  /\ unlocked \in BOOLEAN
  /\ tgName \in [Users -> Name]
  /\ job \in [Sessions -> Updates \cup {None}]
  /\ pc \in [Sessions -> Statements]
  /\ who \in [Sessions -> Users \cup {None}]
  /\ seen \in [Sessions -> Row \cup {None}]
  /\ written \in [Sessions -> Row \cup {None}]
  /\ marked \in [Sessions -> {None, "in", "out"}]
  /\ trusted \in [Sessions -> BOOLEAN]
  /\ menu \in [Sessions -> BOOLEAN]
  /\ sent \subseteq Users \cup Names
  /\ carried \in [Users -> SUBSET Names]
  /\ raced \subseteq Users
  /\ lapsed \subseteq Sessions
  /\ updates \in Nat /\ renames \in Nat /\ restarts \in Nat
  \* No statement is left of an update that ended, and a session that has
  \* written knows whose row it was.
  /\ \A p \in Sessions : (job[p] = None) = (pc[p] = "idle")
  /\ \A p \in Sessions : written[p] # None \/ marked[p] # None => who[p] \in Users

Stored(name) == [name |-> name, index |-> name]

\* Some people are known already.
Init ==
  /\ tgName \in {f \in [Users -> Name] :
                   \A u, v \in Users : f[u] = f[v] /\ f[u] # None => u = v}
  /\ \E met \in SUBSET Users :
       /\ users = [u \in Users |-> IF u \in met THEN Stored(tgName[u]) ELSE None]
       /\ carried = [u \in Users |-> IF u \in met THEN {tgName[u]} \ {None} ELSE {}]
  /\ admins = {}
  /\ unlocked = TRUE
  /\ job = [p \in Sessions |-> None]
  /\ pc = [p \in Sessions |-> "idle"]
  /\ who = [p \in Sessions |-> None]
  /\ seen = [p \in Sessions |-> None]
  /\ written = [p \in Sessions |-> None]
  /\ marked = [p \in Sessions |-> None]
  /\ trusted = [p \in Sessions |-> FALSE]
  /\ menu = [p \in Sessions |-> FALSE]
  /\ sent = {} /\ raced = {} /\ lapsed = {}
  /\ updates = 0 /\ renames = 0 /\ restarts = 0

-----------------------------------------------------------------------------
(* Sessions.                                                               *)

Goto(p, statement) == pc' = [pc EXCEPT ![p] = statement]

Forget(p) ==
  /\ job' = [job EXCEPT ![p] = None]
  /\ pc' = [pc EXCEPT ![p] = "idle"]
  /\ who' = [who EXCEPT ![p] = None]
  /\ seen' = [seen EXCEPT ![p] = None]
  /\ written' = [written EXCEPT ![p] = None]
  /\ marked' = [marked EXCEPT ![p] = None]
  /\ trusted' = [trusted EXCEPT ![p] = FALSE]
  /\ menu' = [menu EXCEPT ![p] = FALSE]

\* The middleware rolls the update back.
Rollback(p) ==
  /\ Forget(p)
  /\ lapsed' = lapsed \ {p}
  /\ UNCHANGED <<database, unlocked, tgName, sent, carried, raced, bounds>>

\* What RoleFor would be if every known person were an administrator.
RoleForKnown(u) ==
  IF u = Owner THEN "owner"
  ELSE IF unlocked /\ users[u] # None THEN "admin" ELSE "denied"

\* AccessService.role_for.
RoleFor(u) ==
  IF u = Owner THEN "owner"
  ELSE IF unlocked /\ users[u] # None /\ u \in admins THEN "admin"
  ELSE "denied"

\* An update arrives, and the middleware looks its sender up.
Arrive(p) ==
  /\ job[p] = None
  /\ updates < MaxUpdates
  /\ updates' = updates + 1
  /\ \E u \in Updates :
       /\ u.kind = "start" => u.name = tgName[u.by]
       /\ job' = [job EXCEPT ![p] = u]
       /\ who' = [who EXCEPT ![p] = IF u.kind = "start" THEN u.by
                                    ELSE IF u.kind \in {"addId", "remove"} THEN u.person
                                    ELSE None]
       /\ Goto(p, IF u.kind = "start" THEN "select" ELSE "authorize")
       /\ menu' = [menu EXCEPT ![p] = unlocked /\ users[u.by] # None]
       /\ sent' = sent \cup
            (IF u.by # Owner THEN {}
             ELSE IF u.kind = "addId" THEN {u.person}
             ELSE IF u.kind = "addName" THEN {u.name} ELSE {})
       /\ carried' = IF u.kind = "start"
                       THEN [carried EXCEPT ![u.by] = @ \cup ({u.name} \ {None})]
                       ELSE carried
  /\ UNCHANGED <<database, unlocked, tgName, seen, written, marked, trusted, raced,
                 lapsed, renames, restarts>>

\* Authorize, had the handler of the owner's commands no role check.
AuthorizeAnybody(p) ==
  /\ pc[p] = "authorize"
  /\ LET acts == job[p].kind = "act"
     IN  /\ trusted' = [trusted EXCEPT ![p] = ~acts \/ RoleFor(job[p].by) # "denied"]
         /\ Goto(p, IF acts THEN "reply"
                    ELSE IF job[p].kind = "remove" THEN "contains" ELSE "resolve")
  /\ UNCHANGED <<database, unlocked, tgName, job, who, seen, written, marked, menu,
                 history, bounds>>

\* require: topics are for administrators too, administrators for the owner.
Authorize(p) ==
  /\ pc[p] = "authorize"
  /\ LET role == RoleFor(job[p].by)
         acts == job[p].kind = "act" /\ role # "denied"
     IN  /\ trusted' = [trusted EXCEPT ![p] = acts \/ role = "owner"]
         /\ Goto(p, IF acts \/ role # "owner" THEN "reply"
                    ELSE IF job[p].kind = "remove" THEN "contains" ELSE "resolve")
  /\ UNCHANGED <<database, unlocked, tgName, job, who, seen, written, marked, menu,
                 history, bounds>>

\* A locked vault has no index key: the lookup raises.
ResolveLocked(p) ==
  /\ pc[p] = "resolve"
  /\ ~unlocked
  /\ Rollback(p)

\* Resolve, had it recorded every id it is given without a name.
ResolveByUpsert(p) ==
  /\ pc[p] = "resolve"
  /\ unlocked
  /\ job[p].kind = "addId"
  /\ seen' = [seen EXCEPT ![p] = users[who[p]]]
  /\ Goto(p, "select")
  /\ UNCHANGED <<database, unlocked, tgName, job, who, written, marked, trusted, menu,
                 history, bounds>>

\* _resolve_administrator: a number is a Telegram id, which is recorded without
\* a name if it is new; a name must be in the index.
Resolve(p) ==
  /\ pc[p] = "resolve"
  /\ unlocked
  /\ IF job[p].kind = "addId"
       THEN /\ Goto(p, IF users[who[p]] = None THEN "select" ELSE "contains")
            /\ UNCHANGED who
       ELSE LET found == {u \in Users : users[u] # None /\ users[u].index = job[p].name}
            IN  \/ /\ found = {}
                   /\ Goto(p, "reply")   \* UnknownAdministratorError
                   /\ UNCHANGED who
                \/ \E u \in found :
                     /\ who' = [who EXCEPT ![p] = u]
                     /\ Goto(p, "contains")
  /\ UNCHANGED <<database, unlocked, tgName, job, seen, written, marked, trusted, menu,
                 history, bounds>>

-----------------------------------------------------------------------------
(* The rows of a person.                                                   *)

\* UserRepository.upsert looks the person up.  record_user asks for an
\* unlocked vault first.
SelectUser(p) ==
  /\ pc[p] = "select"
  /\ seen' = [seen EXCEPT ![p] = IF unlocked THEN users[who[p]] ELSE None]
  /\ Goto(p, IF unlocked THEN "write" ELSE "reply")
  \* An id that was new when Resolve looked has a row by now.
  /\ raced' = IF unlocked /\ job[p].kind = "addId" /\ users[who[p]] # seen[p]
                THEN raced \cup {who[p]} ELSE raced
  /\ UNCHANGED <<database, unlocked, tgName, job, who, written, marked, trusted, menu,
                 sent, carried, lapsed, bounds>>

\* The name the update saves: an administrator added by id has none.
NameOf(p) == IF job[p].kind = "start" THEN job[p].name ELSE None

\* _write_identity and the flush: a new row, or those columns of the row, as it
\* is now, that differ from what the SELECT returned.  An encrypted name always
\* differs.
Saved(p) ==
  IF seen[p] = None THEN Stored(NameOf(p))
  ELSE [name |-> IF NameEncrypted \/ NameOf(p) # seen[p].name
                   THEN NameOf(p) ELSE users[who[p]].name,
        index |-> IF NameOf(p) # seen[p].index THEN NameOf(p) ELSE users[who[p]].index]

NothingToSave(p) == ~NameEncrypted /\ seen[p] = Stored(NameOf(p))

Changes(q, u) == written[q] # None /\ who[q] = u
IndexOf(u) == IF users[u] = None THEN None ELSE users[u].index
Rekeys(q, u) == Changes(q, u) /\ (users[u] = None \/ written[q].index # users[u].index)

\* SaveWaitsFor, had the lookup taken a shared lock of the row.
SaveWaitsForReaders(p) ==
  {q \in Sessions \ {p} :
     \/ Changes(q, who[p])
     \/ pc[q] = "write" /\ seen[q] # None /\ who[q] = who[p]}

\* The open transactions a save waits for: those that wrote the row, those that
\* wrote a row with the same index, before or after, and those whose new
\* administrator row refers to a row that gets another key.
SaveWaitsFor(p) ==
  LET new == Saved(p)
      rekeyed == seen[p] = None \/ new.index # users[who[p]].index
  IN  {q \in Sessions \ {p} :
         \/ Changes(q, who[p])
         \/ /\ rekeyed /\ new.index # None /\ written[q] # None
            /\ new.index \in {written[q].index, IndexOf(who[q])}
         \/ rekeyed /\ marked[q] = "in" /\ who[q] = who[p]}

\* IntegrityError: the person has a row by now, or another row has the name.
Duplicate(p) ==
  \/ seen[p] = None /\ users[who[p]] # None
  \/ /\ Saved(p).index # None
     /\ \E u \in Users \ {who[p]} : IndexOf(u) = Saved(p).index

AfterSave(p) == Goto(p, IF job[p].kind = "start" THEN "reply" ELSE "contains")

Write(p) ==
  /\ pc[p] = "write"
  /\ \/ /\ NothingToSave(p)
        /\ AfterSave(p)
        /\ UNCHANGED <<written, raced>>
     \/ /\ ~NothingToSave(p)
        /\ SaveWaitsFor(p) = {}
        /\ ~Duplicate(p)
        /\ written' = [written EXCEPT ![p] = Saved(p)]
        /\ AfterSave(p)
        /\ raced' = IF users[who[p]] # seen[p] THEN raced \cup {who[p]} ELSE raced
  /\ seen' = [seen EXCEPT ![p] = None]
  /\ UNCHANGED <<database, unlocked, tgName, job, who, marked, trusted, menu,
                 sent, carried, lapsed, bounds>>

WriteFails(p) ==
  /\ pc[p] = "write"
  /\ ~NothingToSave(p)
  /\ SaveWaitsFor(p) = {}
  /\ Duplicate(p)
  /\ Rollback(p)

-----------------------------------------------------------------------------
(* Administrators.                                                         *)

\* Contains, had it not refused the owner.
ContainsEvenOwner(p) ==
  /\ pc[p] = "contains"
  /\ LET member == who[p] \in admins
     IN  Goto(p, IF job[p].kind = "remove" THEN IF member THEN "delete" ELSE "reply"
                 ELSE IF member THEN "reply" ELSE "insert")
  /\ UNCHANGED <<database, unlocked, tgName, job, who, seen, written, marked, trusted,
                 menu, history, bounds>>

\* add_administrator refuses the owner and an administrator,
\* remove_administrator anybody else.
Contains(p) ==
  /\ pc[p] = "contains"
  /\ LET member == who[p] \in admins
     IN  Goto(p, IF job[p].kind = "remove" THEN IF member THEN "delete" ELSE "reply"
                 ELSE IF who[p] = Owner \/ member THEN "reply" ELSE "insert")
  /\ UNCHANGED <<database, unlocked, tgName, job, who, seen, written, marked, trusted,
                 menu, history, bounds>>

\* AdminRepository.add: the row is unique, and refers to the person's row.
InsertWaitsFor(p) ==
  {q \in Sessions \ {p} :
     who[q] = who[p] /\ (marked[q] # None \/ Rekeys(q, who[p]))}

InsertAdmin(p) ==
  /\ pc[p] = "insert"
  /\ InsertWaitsFor(p) = {}
  /\ who[p] \notin admins
  /\ marked' = [marked EXCEPT ![p] = "in"]
  /\ Goto(p, "render")
  /\ UNCHANGED <<database, unlocked, tgName, job, who, seen, written, trusted, menu,
                 history, bounds>>

InsertFails(p) ==
  /\ pc[p] = "insert"
  /\ InsertWaitsFor(p) = {}
  /\ who[p] \in admins
  /\ Rollback(p)

\* AdminRepository.remove: a row somebody else deleted meanwhile is not an error.
DeleteWaitsFor(p) == {q \in Sessions \ {p} : marked[q] = "out" /\ who[q] = who[p]}

DeleteAdmin(p) ==
  /\ pc[p] = "delete"
  /\ DeleteWaitsFor(p) = {}
  /\ marked' = [marked EXCEPT ![p] = IF who[p] \in admins THEN "out" ELSE None]
  /\ Goto(p, "render")
  /\ UNCHANGED <<database, unlocked, tgName, job, who, seen, written, trusted, menu,
                 history, bounds>>

-----------------------------------------------------------------------------
(* The end of an update.                                                   *)

\* The handler sends its answer, and before it renders the list of
\* administrators if it changed.
Reply(p) ==
  /\ pc[p] = "reply" \/ (pc[p] = "render" /\ menu[p])
  /\ Goto(p, "commit")
  /\ UNCHANGED <<database, unlocked, tgName, job, who, seen, written, marked, trusted,
                 menu, history, bounds>>

\* The message cannot be sent, or the menu has no known user to be saved under.
ReplyFails(p) ==
  /\ pc[p] \in {"reply", "render"}
  /\ Rollback(p)

Commit(p) ==
  /\ pc[p] = "commit"
  /\ users' = IF written[p] = None THEN users ELSE [users EXCEPT ![who[p]] = written[p]]
  /\ admins' = CASE marked[p] = "in" -> admins \cup {who[p]}
                 [] marked[p] = "out" -> admins \ {who[p]}
                 [] OTHER -> admins
  /\ lapsed' = {q \in Sessions \ {p} :
                  q \in lapsed \/ (marked[p] = "out" /\ job[q] # None /\ job[q].by = who[p])}
  /\ Forget(p)
  /\ UNCHANGED <<unlocked, tgName, sent, carried, raced, bounds>>

-----------------------------------------------------------------------------
(* The process and Telegram.                                               *)

\* The process stops: PostgreSQL rolls its transactions back, the key is lost.
Restart ==
  /\ restarts < MaxRestarts
  /\ restarts' = restarts + 1
  /\ unlocked' = FALSE
  /\ job' = [p \in Sessions |-> None]
  /\ pc' = [p \in Sessions |-> "idle"]
  /\ who' = [p \in Sessions |-> None]
  /\ seen' = [p \in Sessions |-> None]
  /\ written' = [p \in Sessions |-> None]
  /\ marked' = [p \in Sessions |-> None]
  /\ trusted' = [p \in Sessions |-> FALSE]
  /\ menu' = [p \in Sessions |-> FALSE]
  /\ lapsed' = {}
  /\ UNCHANGED <<database, tgName, sent, carried, raced, updates, renames>>

\* The owner enters the password.
Unlock ==
  /\ ~unlocked
  /\ unlocked' = TRUE
  /\ UNCHANGED <<database, tgName, session, history, bounds>>

\* Telegram gives a username to one person at a time.
Rename(u, n) ==
  /\ renames < MaxRenames
  /\ n # tgName[u]
  /\ n # None => \A v \in Users : tgName[v] # n
  /\ renames' = renames + 1
  /\ tgName' = [tgName EXCEPT ![u] = n]
  /\ UNCHANGED <<database, unlocked, session, history, updates, restarts>>

Step(p) ==
  \/ Authorize(p) \/ ResolveLocked(p) \/ Resolve(p)
  \/ SelectUser(p) \/ Write(p) \/ WriteFails(p)
  \/ Contains(p) \/ InsertAdmin(p) \/ InsertFails(p) \/ DeleteAdmin(p)
  \/ Reply(p) \/ ReplyFails(p) \/ Commit(p)

Next ==
  \/ \E p \in Sessions : Arrive(p) \/ Step(p)
  \/ \E u \in Users, n \in Name : Rename(u, n)
  \/ Unlock
  \/ Restart

Spec == Init /\ [][Next]_vars

-----------------------------------------------------------------------------
(* Properties.                                                             *)

\* Unless two updates overlapped, the name of a known person changes only by
\* their own /start, to the name they had when they sent it: adding them as an
\* administrator, or another person taking a name over, leaves it alone.
UnracedNameKept ==
  [][\A u \in Users :
       users[u] # None /\ users'[u] # users[u] /\ u \notin raced =>
         \E p \in Sessions :
           /\ job[p] # None /\ job[p].kind = "start" /\ job[p].by = u
           /\ users'[u] = Stored(job[p].name)]_vars

\* Every administrator is a person the owner named: by their id, or by a name
\* they started the bot under.
AdminsWereNamed ==
  \A u \in admins : u \in sent \/ carried[u] \cap sent # {}

\* A button of the topics takes effect only for an administrator, or for one
\* who was dismissed while the update was being handled.
TrustedAreAdmins ==
  [][\A p \in Sessions :
       Commit(p) /\ job[p].kind = "act" /\ trusted[p] =>
         job[p].by \in admins \/ p \in lapsed]_vars

\* The two tables follow the register of AdminRegister, whatever the overlap.
Register ==
  INSTANCE AdminRegister WITH
    Users <- Users, Owner <- Owner, Names <- Names, Unknown <- "unknown", NoName <- None,
    known <- [u \in Users |-> IF users[u] = None THEN "unknown" ELSE users[u].index],
    admins <- admins

ImplementsRegister == Register!Spec

\* The locks of concurrent updates never wait for each other in a circle, which
\* PostgreSQL would break by failing one of them.
WaitsFor(p) ==
  CASE pc[p] = "write" /\ ~NothingToSave(p) -> SaveWaitsFor(p)
    [] pc[p] = "insert" -> InsertWaitsFor(p)
    [] pc[p] = "delete" -> DeleteWaitsFor(p)
    [] OTHER -> {}

NoCircularWait ==
  \A W \in SUBSET Sessions : W # {} => \E p \in W : WaitsFor(p) \cap W = {}
=============================================================================
