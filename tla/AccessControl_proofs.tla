------------------------- MODULE AccessControl_proofs -------------------------
(***************************************************************************)
(* For any number of updates handled at once, any people and any names:    *)
(* every safety property of AccessControl, and that the two tables change  *)
(* as AdminRegister says.                                                  *)
(*                                                                         *)
(* TInv says which statements an update of each kind can be at.  On top of *)
(* it, NamedInv follows the words of the owner from the update to the row, *)
(* TrustInv what a role check is worth, LockInv what the locks of an open  *)
(* transaction keep from others, FreshInv what an unraced save contains    *)
(* and RegisterInv what add_administrator has checked.                     *)
(***************************************************************************)
EXTENDS AccessControl, TLAPS

\* What a session's update allows it to be doing.
OnTask(p) ==
  /\ job[p].kind = "start" =>
       /\ pc[p] \in {"select", "write", "reply", "commit"}
       /\ who[p] = job[p].by
       /\ marked[p] = None
       /\ ~trusted[p]
  /\ job[p].kind = "act" =>
       /\ pc[p] \in {"authorize", "reply", "commit"}
       /\ written[p] = None /\ marked[p] = None
  /\ job[p].kind = "addId" =>
       /\ pc[p] # "delete" /\ marked[p] # "out"
       /\ who[p] = job[p].person
  /\ job[p].kind = "addName" =>
       /\ pc[p] \notin {"select", "write", "delete"}
       /\ written[p] = None /\ marked[p] # "out"
       /\ pc[p] \in {"contains", "insert"} => who[p] \in Users
  /\ job[p].kind = "remove" =>
       /\ pc[p] \notin {"resolve", "select", "write", "insert"}
       /\ written[p] = None /\ marked[p] # "in"
       /\ who[p] = job[p].person
  /\ pc[p] \notin {"render", "reply", "commit"} => marked[p] = None
  /\ pc[p] \in {"authorize", "resolve", "select", "write"} => written[p] = None

Tasks == \A p \in Sessions : job[p] # None => OnTask(p)

\* The row an upsert has looked at stays in its table.
SeenExists ==
  \A p \in Sessions :
    /\ seen[p] # None => pc[p] = "write" /\ who[p] \in Users /\ users[who[p]] # None
    /\ job[p] = None => written[p] = None /\ marked[p] = None /\ ~trusted[p]

TInv == TypeOK /\ Tasks /\ SeenExists

-----------------------------------------------------------------------------
LEMMA UpdateFields ==
  ASSUME NEW u \in Updates
  PROVE  /\ u.kind \in {"start", "act", "addId", "remove", "addName"}
         /\ u.by \in Users
         /\ u # None
         /\ u.kind = "start" => u.name \in Name
         /\ u.kind = "act" => u.by # Owner
         /\ u.kind = "addName" => u.name \in Names
         /\ u.kind \in {"addId", "remove"} => u.person \in Users
<1>0. u # None
  BY AccessAssumption DEF AccessAssumption
<1>1. u.kind \in {"start", "act", "addId", "remove", "addName"} /\ u.by \in Users
  BY DEF Updates, Users
<1>. QED
  BY <1>0, <1>1, AccessAssumption DEF Updates, AccessAssumption, Users

\* A save is given a name or none.
LEMMA SavedName ==
  ASSUME TInv, NEW p \in Sessions, pc[p] = "write"
  PROVE  NameOf(p) \in Name
<1>1. job[p] # None /\ job[p] \in Updates
  BY DEF TInv, TypeOK
<1>. QED
  BY <1>1, UpdateFields DEF NameOf, Name

\* A save leaves a row.
LEMMA SavedRow ==
  ASSUME TInv, NEW p \in Sessions, pc[p] = "write"
  PROVE  Saved(p) \in Row /\ Saved(p) # None
<1>1. NameOf(p) \in Name
  BY SavedName
<1>2. seen[p] # None => who[p] \in Users /\ users[who[p]] \in Row
  BY DEF TInv, SeenExists, TypeOK
<1>3. Saved(p) \in Row
  BY <1>1, <1>2 DEF Saved, Stored, Row
<1>. QED
  BY <1>3, AccessAssumption DEF AccessAssumption

\* The statements about a person have one.
LEMMA PersonKnown ==
  ASSUME TInv, NEW p \in Sessions,
         pc[p] \in {"select", "write", "contains", "insert", "delete"}
  PROVE  who[p] \in Users
<1>1. job[p] # None /\ OnTask(p) /\ job[p] \in Updates
  BY DEF TInv, TypeOK, Tasks
<1>. QED
  BY <1>1, UpdateFields DEF OnTask

LEMMA TInvInit == Init => TInv
  BY DEF Init, TInv, TypeOK, Tasks, SeenExists, Stored, Row, Name, Statements

LEMMA TInvNext == TInv /\ [Next]_vars => TInv'
<1>. SUFFICES ASSUME TInv, [Next]_vars PROVE TInv'
  OBVIOUS
<1>. USE AccessAssumption DEF database, session, history, bounds
<1>1. ASSUME NEW p \in Sessions, Arrive(p) PROVE TInv'
  <2>1. TypeOK'
    <3>1. PICK u \in Updates :
            /\ job' = [job EXCEPT ![p] = u]
            /\ who' = [who EXCEPT ![p] = IF u.kind = "start" THEN u.by
                                         ELSE IF u.kind \in {"addId", "remove"} THEN u.person
                                         ELSE None]
            /\ Goto(p, IF u.kind = "start" THEN "select" ELSE "authorize")
            /\ menu' = [menu EXCEPT ![p] = unlocked /\ users[u.by] # None]
            /\ sent' = sent \cup
                 (IF u.by # Owner THEN {}
                  ELSE IF u.kind = "addId" THEN {u.person}
                  ELSE IF u.kind = "addName" THEN {u.name} ELSE {})
            /\ carried' = IF u.kind = "start"
                            THEN [carried EXCEPT ![u.by] = @ \cup ({u.name} \ {None})]
                            ELSE carried
      BY <1>1 DEF Arrive
    <3>2. job[p] = None /\ updates' = updates + 1
          /\ UNCHANGED <<database, unlocked, tgName, seen, written, marked, trusted, raced,
                         lapsed, renames, restarts>>
      BY <1>1 DEF Arrive
    <3>. DEFINE person == IF u.kind = "start" THEN u.by
                          ELSE IF u.kind \in {"addId", "remove"} THEN u.person ELSE None
    <3>3. person \in Users \cup {None} /\ u # None
      BY UpdateFields
    <3>4. sent' \subseteq Users \cup Names
      BY <3>1, UpdateFields DEF TInv, TypeOK
    <3>5. carried' \in [Users -> SUBSET Names]
      BY <3>1, UpdateFields DEF TInv, TypeOK, Name
    <3>. HIDE DEF person
    <3>6. who' = [who EXCEPT ![p] = person]
      BY <3>1 DEF person
    <3>. QED
      BY <3>1, <3>2, <3>3, <3>4, <3>5, <3>6 DEF Goto, TInv, TypeOK, SeenExists, Statements
  <2>2. Tasks'
    BY <1>1 DEF Arrive, Goto, TInv, TypeOK, Tasks, OnTask, SeenExists
  <2>3. SeenExists'
    BY <1>1 DEF Arrive, Goto, TInv, TypeOK, Tasks, OnTask, SeenExists
  <2>. QED
    BY <2>1, <2>2, <2>3 DEF TInv
<1>2. ASSUME NEW p \in Sessions, Authorize(p) PROVE TInv'
  <2>1. TypeOK'
    BY <1>2 DEF Authorize, Goto, RoleFor, TInv, TypeOK, Tasks, OnTask, SeenExists, Statements
  <2>2. Tasks'
    BY <1>2 DEF Authorize, Goto, RoleFor, TInv, TypeOK, Tasks, OnTask, SeenExists
  <2>3. SeenExists'
    BY <1>2 DEF Authorize, Goto, RoleFor, TInv, TypeOK, Tasks, OnTask, SeenExists
  <2>. QED
    BY <2>1, <2>2, <2>3 DEF TInv
<1>3. ASSUME NEW p \in Sessions, ResolveLocked(p) PROVE TInv'
  <2>1. TypeOK'
    BY <1>3 DEF ResolveLocked, Rollback, Forget, TInv, TypeOK, Tasks, OnTask, SeenExists, Statements
  <2>2. Tasks'
    BY <1>3 DEF ResolveLocked, Rollback, Forget, TInv, TypeOK, Tasks, OnTask, SeenExists
  <2>3. SeenExists'
    BY <1>3 DEF ResolveLocked, Rollback, Forget, TInv, TypeOK, Tasks, OnTask, SeenExists
  <2>. QED
    BY <2>1, <2>2, <2>3 DEF TInv
<1>4. ASSUME NEW p \in Sessions, Resolve(p) PROVE TInv'
  <2>1. TypeOK'
    BY <1>4 DEF Resolve, Goto, TInv, TypeOK, Tasks, OnTask, SeenExists, Statements
  <2>2. Tasks'
    BY <1>4 DEF Resolve, Goto, TInv, TypeOK, Tasks, OnTask, SeenExists
  <2>3. SeenExists'
    BY <1>4 DEF Resolve, Goto, TInv, TypeOK, Tasks, OnTask, SeenExists
  <2>. QED
    BY <2>1, <2>2, <2>3 DEF TInv
<1>5. ASSUME NEW p \in Sessions, SelectUser(p) PROVE TInv'
  <2>1. TypeOK'
    BY <1>5, PersonKnown DEF SelectUser, Goto, TInv, TypeOK, Statements
  <2>2. Tasks'
    BY <1>5 DEF SelectUser, Goto, TInv, TypeOK, Tasks, OnTask, SeenExists
  <2>3. SeenExists'
    BY <1>5, PersonKnown DEF SelectUser, Goto, TInv, TypeOK, SeenExists
  <2>. QED
    BY <2>1, <2>2, <2>3 DEF TInv
<1>6. ASSUME NEW p \in Sessions, Write(p) PROVE TInv'
  <2>1. TypeOK'
    BY <1>6, PersonKnown, SavedRow DEF Write, AfterSave, Goto, TInv, TypeOK, Statements
  <2>2. Tasks'
    BY <1>6 DEF Write, AfterSave, Goto, TInv, TypeOK, Tasks, OnTask, SeenExists
  <2>3. SeenExists'
    BY <1>6 DEF Write, AfterSave, Goto, TInv, TypeOK, Tasks, OnTask, SeenExists
  <2>. QED
    BY <2>1, <2>2, <2>3 DEF TInv
<1>7. ASSUME NEW p \in Sessions, WriteFails(p) PROVE TInv'
  <2>1. TypeOK'
    BY <1>7 DEF WriteFails, Rollback, Forget, TInv, TypeOK, Tasks, OnTask, SeenExists, Statements
  <2>2. Tasks'
    BY <1>7 DEF WriteFails, Rollback, Forget, TInv, TypeOK, Tasks, OnTask, SeenExists
  <2>3. SeenExists'
    BY <1>7 DEF WriteFails, Rollback, Forget, TInv, TypeOK, Tasks, OnTask, SeenExists
  <2>. QED
    BY <2>1, <2>2, <2>3 DEF TInv
<1>8. ASSUME NEW p \in Sessions, Contains(p) PROVE TInv'
  <2>1. TypeOK'
    BY <1>8 DEF Contains, Goto, TInv, TypeOK, Tasks, OnTask, SeenExists, Statements
  <2>2. Tasks'
    BY <1>8 DEF Contains, Goto, TInv, TypeOK, Tasks, OnTask, SeenExists
  <2>3. SeenExists'
    BY <1>8 DEF Contains, Goto, TInv, TypeOK, Tasks, OnTask, SeenExists
  <2>. QED
    BY <2>1, <2>2, <2>3 DEF TInv
<1>9. ASSUME NEW p \in Sessions, InsertAdmin(p) PROVE TInv'
  <2>1. TypeOK'
    BY <1>9, PersonKnown DEF InsertAdmin, Goto, TInv, TypeOK, Statements
  <2>2. Tasks'
    BY <1>9 DEF InsertAdmin, Goto, TInv, TypeOK, Tasks, OnTask, SeenExists
  <2>3. SeenExists'
    BY <1>9 DEF InsertAdmin, Goto, TInv, TypeOK, Tasks, OnTask, SeenExists
  <2>. QED
    BY <2>1, <2>2, <2>3 DEF TInv
<1>10. ASSUME NEW p \in Sessions, InsertFails(p) PROVE TInv'
  <2>1. TypeOK'
    BY <1>10 DEF InsertFails, Rollback, Forget, TInv, TypeOK, Tasks, OnTask, SeenExists, Statements
  <2>2. Tasks'
    BY <1>10 DEF InsertFails, Rollback, Forget, TInv, TypeOK, Tasks, OnTask, SeenExists
  <2>3. SeenExists'
    BY <1>10 DEF InsertFails, Rollback, Forget, TInv, TypeOK, Tasks, OnTask, SeenExists
  <2>. QED
    BY <2>1, <2>2, <2>3 DEF TInv
<1>11. ASSUME NEW p \in Sessions, DeleteAdmin(p) PROVE TInv'
  <2>1. TypeOK'
    BY <1>11 DEF DeleteAdmin, Goto, TInv, TypeOK, Tasks, OnTask, SeenExists, Statements
  <2>2. Tasks'
    BY <1>11 DEF DeleteAdmin, Goto, TInv, TypeOK, Tasks, OnTask, SeenExists
  <2>3. SeenExists'
    BY <1>11 DEF DeleteAdmin, Goto, TInv, TypeOK, Tasks, OnTask, SeenExists
  <2>. QED
    BY <2>1, <2>2, <2>3 DEF TInv
<1>12. ASSUME NEW p \in Sessions, Reply(p) PROVE TInv'
  <2>1. TypeOK'
    BY <1>12 DEF Reply, Goto, TInv, TypeOK, Tasks, OnTask, SeenExists, Statements
  <2>2. Tasks'
    BY <1>12 DEF Reply, Goto, TInv, TypeOK, Tasks, OnTask, SeenExists
  <2>3. SeenExists'
    BY <1>12 DEF Reply, Goto, TInv, TypeOK, Tasks, OnTask, SeenExists
  <2>. QED
    BY <2>1, <2>2, <2>3 DEF TInv
<1>13. ASSUME NEW p \in Sessions, ReplyFails(p) PROVE TInv'
  <2>1. TypeOK'
    BY <1>13 DEF ReplyFails, Rollback, Forget, TInv, TypeOK, Tasks, OnTask, SeenExists, Statements
  <2>2. Tasks'
    BY <1>13 DEF ReplyFails, Rollback, Forget, TInv, TypeOK, Tasks, OnTask, SeenExists
  <2>3. SeenExists'
    BY <1>13 DEF ReplyFails, Rollback, Forget, TInv, TypeOK, Tasks, OnTask, SeenExists
  <2>. QED
    BY <2>1, <2>2, <2>3 DEF TInv
<1>14. ASSUME NEW p \in Sessions, Commit(p) PROVE TInv'
  <2>1. TypeOK'
    BY <1>14 DEF Commit, Forget, TInv, TypeOK, Tasks, OnTask, SeenExists, Statements
  <2>2. Tasks'
    BY <1>14 DEF Commit, Forget, TInv, TypeOK, Tasks, OnTask, SeenExists
  <2>3. SeenExists'
    BY <1>14 DEF Commit, Forget, TInv, TypeOK, Tasks, OnTask, SeenExists
  <2>. QED
    BY <2>1, <2>2, <2>3 DEF TInv
<1>15. ASSUME NEW u \in Users, NEW n \in Name, Rename(u, n) PROVE TInv'
  BY <1>15 DEF Rename, TInv, TypeOK, Tasks, OnTask, SeenExists
<1>16. CASE Unlock
  BY <1>16 DEF Unlock, TInv, TypeOK, Tasks, OnTask, SeenExists
<1>17. CASE Restart
  <2>1. TypeOK'
    <3>1. /\ job' \in [Sessions -> Updates \cup {None}] /\ pc' \in [Sessions -> Statements]
          /\ who' \in [Sessions -> Users \cup {None}]
          /\ seen' \in [Sessions -> Row \cup {None}]
          /\ written' \in [Sessions -> Row \cup {None}]
          /\ marked' \in [Sessions -> {None, "in", "out"}]
          /\ trusted' \in [Sessions -> BOOLEAN] /\ menu' \in [Sessions -> BOOLEAN]
          /\ \A p \in Sessions : /\ job'[p] = None /\ pc'[p] = "idle"
                                 /\ written'[p] = None /\ marked'[p] = None
      BY <1>17 DEF Restart, Statements
    <3>2. /\ users' = users /\ admins' = admins /\ tgName' = tgName /\ unlocked' = FALSE
          /\ sent' = sent /\ carried' = carried /\ raced' = raced /\ lapsed' = {}
          /\ updates' = updates /\ renames' = renames /\ restarts' = restarts + 1
      BY <1>17 DEF Restart
    <3>3. /\ users' \in [Users -> Row \cup {None}] /\ admins' \subseteq Users
          /\ tgName' \in [Users -> Name]
          /\ sent' \subseteq Users \cup Names /\ carried' \in [Users -> SUBSET Names]
          /\ raced' \subseteq Users /\ lapsed' \subseteq Sessions
          /\ updates' \in Nat /\ renames' \in Nat /\ restarts' \in Nat
      BY <3>2 DEF TInv, TypeOK
    <3>4. unlocked' \in BOOLEAN
      BY <1>17, Zenon DEF Restart
    <3>. QED
      BY <3>1, <3>3, <3>4 DEF TypeOK
  <2>2. Tasks' /\ SeenExists'
    BY <1>17 DEF Restart, TInv, TypeOK, Tasks, SeenExists
  <2>. QED
    BY <2>1, <2>2 DEF TInv
<1>18. CASE UNCHANGED vars
  BY <1>18 DEF vars, TInv, TypeOK, Tasks, OnTask, SeenExists
<1>. QED
  BY <1>1, <1>2, <1>3, <1>4, <1>5, <1>6, <1>7, <1>8, <1>9, <1>10, <1>11, <1>12, <1>13, <1>14, <1>15, <1>16, <1>17, <1>18 DEF Next, Step

\* TypeOK, for every value of the constants.
THEOREM TypeCorrect == Spec => []TypeOK
<1>1. TInv => TypeOK
  BY DEF TInv
<1>. QED
  BY TInvInit, TInvNext, <1>1, PTL DEF Spec

-----------------------------------------------------------------------------
(* Who becomes an administrator.                                           *)

\* Whoever the bot finds by a name has started it under that name.
NamesCarried ==
  /\ \A u \in Users : users[u] # None => users[u].index \in carried[u] \cup {None}
  /\ \A p \in Sessions :
       /\ written[p] # None => written[p].index \in carried[who[p]] \cup {None}
       /\ job[p] # None /\ job[p].kind = "start" =>
            job[p].name \in carried[job[p].by] \cup {None}

\* Past the role check the owner's own words are carried out.
Carries(p) ==
  /\ job[p].by = Owner /\ job[p].kind = "addId" => job[p].person \in sent
  /\ job[p].by = Owner /\ job[p].kind = "addName" => job[p].name \in sent
  /\ /\ job[p].kind \in {"addId", "addName", "remove"}
     /\ pc[p] \notin {"authorize", "reply", "commit"} \/ marked[p] # None
     => job[p].by = Owner
  /\ job[p].kind = "addName" /\ (pc[p] \in {"contains", "insert"} \/ marked[p] = "in") =>
       job[p].name \in carried[who[p]]

WishesCarried == \A p \in Sessions : job[p] # None => Carries(p)

NamedInv == TInv /\ NamesCarried /\ WishesCarried /\ AdminsWereNamed

\* A save keeps the name of the row or puts the update's.
LEMMA SavedIndex ==
  ASSUME TInv, NEW p \in Sessions, pc[p] = "write"
  PROVE  \/ Saved(p).index = NameOf(p)
         \/ /\ seen[p] # None /\ users[who[p]] # None
            /\ Saved(p).index = users[who[p]].index
  BY DEF Saved, Stored, TInv, SeenExists

\* A name reaches a row only from its person's /start.
LEMMA NamesCarriedNext == NamedInv /\ [Next]_vars => NamesCarried'
<1>. SUFFICES ASSUME NamedInv, [Next]_vars PROVE NamesCarried'
  OBVIOUS
<1>. USE AccessAssumption DEF database, session, history, bounds
<1>1. ASSUME NEW p \in Sessions, Arrive(p) PROVE NamesCarried'
  <2>1. PICK u \in Updates :
          /\ job' = [job EXCEPT ![p] = u]
          /\ carried' = IF u.kind = "start"
                          THEN [carried EXCEPT ![u.by] = @ \cup ({u.name} \ {None})]
                          ELSE carried
    BY <1>1 DEF Arrive
  <2>2. job[p] = None /\ UNCHANGED <<users, written>>
        /\ \A q \in Sessions \ {p} : who'[q] = who[q]
    BY <1>1 DEF Arrive, NamedInv, TInv, TypeOK
  <2>3. \A v \in Users : carried[v] \subseteq carried'[v]
    BY <2>1 DEF NamedInv, TInv, TypeOK
  <2>4. u.kind = "start" => u.name \in carried'[u.by] \cup {None}
    BY <2>1, UpdateFields DEF NamedInv, TInv, TypeOK
  <2>5. written[p] = None
    BY <2>2 DEF NamedInv, TInv, SeenExists
  <2>. QED
    BY <2>1, <2>2, <2>3, <2>4, <2>5 DEF NamedInv, TInv, TypeOK, NamesCarried
<1>2. ASSUME NEW p \in Sessions, Authorize(p) PROVE NamesCarried'
  BY <1>2 DEF Authorize, Goto, RoleFor, NamedInv, TInv, TypeOK, Tasks, OnTask, SeenExists, NamesCarried
<1>3. ASSUME NEW p \in Sessions, ResolveLocked(p) PROVE NamesCarried'
  BY <1>3 DEF ResolveLocked, Rollback, Forget, NamedInv, TInv, TypeOK, Tasks, OnTask, SeenExists, NamesCarried
<1>4. ASSUME NEW p \in Sessions, Resolve(p) PROVE NamesCarried'
  BY <1>4 DEF Resolve, Goto, NamedInv, TInv, TypeOK, Tasks, OnTask, SeenExists, NamesCarried
<1>5. ASSUME NEW p \in Sessions, SelectUser(p) PROVE NamesCarried'
  BY <1>5 DEF SelectUser, Goto, NamedInv, TInv, TypeOK, Tasks, OnTask, SeenExists, NamesCarried
<1>6. ASSUME NEW p \in Sessions, Write(p) PROVE NamesCarried'
  <2>1. UNCHANGED <<users, carried, job, who>>
    BY <1>6 DEF Write
  <2>2. CASE UNCHANGED written
    BY <2>1, <2>2 DEF NamedInv, NamesCarried
  <2>3. CASE written' = [written EXCEPT ![p] = Saved(p)]
    <3>1. who[p] \in Users /\ job[p] # None /\ (job[p].kind = "start" => who[p] = job[p].by)
      BY <1>6, PersonKnown DEF Write, NamedInv, TInv, TypeOK, Tasks, OnTask
    <3>2. Saved(p).index = NameOf(p)
          \/ (users[who[p]] # None /\ Saved(p).index = users[who[p]].index)
      <4>1. pc[p] = "write" /\ TInv
        BY <1>6 DEF Write, NamedInv
      <4>. QED
        BY <4>1, SavedIndex
    <3>3. NameOf(p) \in carried[who[p]] \cup {None}
      BY <3>1 DEF NameOf, NamedInv, NamesCarried
    <3>4. Saved(p).index \in carried[who[p]] \cup {None}
      BY <3>1, <3>2, <3>3 DEF NamedInv, NamesCarried
    <3>. QED
      BY <2>1, <2>3, <3>4 DEF NamedInv, TInv, TypeOK, NamesCarried
  <2>. QED
    BY <1>6, <2>2, <2>3 DEF Write
<1>7. ASSUME NEW p \in Sessions, WriteFails(p) PROVE NamesCarried'
  BY <1>7 DEF WriteFails, Rollback, Forget, NamedInv, TInv, TypeOK, Tasks, OnTask, SeenExists, NamesCarried
<1>8. ASSUME NEW p \in Sessions, Contains(p) PROVE NamesCarried'
  BY <1>8 DEF Contains, Goto, NamedInv, TInv, TypeOK, Tasks, OnTask, SeenExists, NamesCarried
<1>9. ASSUME NEW p \in Sessions, InsertAdmin(p) PROVE NamesCarried'
  BY <1>9 DEF InsertAdmin, Goto, NamedInv, TInv, TypeOK, Tasks, OnTask, SeenExists, NamesCarried
<1>10. ASSUME NEW p \in Sessions, InsertFails(p) PROVE NamesCarried'
  BY <1>10 DEF InsertFails, Rollback, Forget, NamedInv, TInv, TypeOK, Tasks, OnTask, SeenExists, NamesCarried
<1>11. ASSUME NEW p \in Sessions, DeleteAdmin(p) PROVE NamesCarried'
  BY <1>11 DEF DeleteAdmin, Goto, NamedInv, TInv, TypeOK, Tasks, OnTask, SeenExists, NamesCarried
<1>12. ASSUME NEW p \in Sessions, Reply(p) PROVE NamesCarried'
  BY <1>12 DEF Reply, Goto, NamedInv, TInv, TypeOK, Tasks, OnTask, SeenExists, NamesCarried
<1>13. ASSUME NEW p \in Sessions, ReplyFails(p) PROVE NamesCarried'
  BY <1>13 DEF ReplyFails, Rollback, Forget, NamedInv, TInv, TypeOK, Tasks, OnTask, SeenExists, NamesCarried
<1>14. ASSUME NEW p \in Sessions, Commit(p) PROVE NamesCarried'
  BY <1>14 DEF Commit, Forget, NamedInv, TInv, TypeOK, Tasks, OnTask, SeenExists, NamesCarried
<1>15. ASSUME NEW u \in Users, NEW n \in Name, Rename(u, n) PROVE NamesCarried'
  BY <1>15 DEF Rename, NamedInv, TInv, TypeOK, Tasks, OnTask, SeenExists, NamesCarried
<1>16. CASE Unlock
  BY <1>16 DEF Unlock, NamedInv, TInv, TypeOK, Tasks, OnTask, SeenExists, NamesCarried
<1>17. CASE Restart
  BY <1>17 DEF Restart, NamedInv, TInv, TypeOK, Tasks, OnTask, SeenExists, NamesCarried
<1>18. CASE UNCHANGED vars
  BY <1>18 DEF vars, NamedInv, TInv, TypeOK, Tasks, OnTask, SeenExists, NamesCarried
<1>. QED
  BY <1>1, <1>2, <1>3, <1>4, <1>5, <1>6, <1>7, <1>8, <1>9,
     <1>10, <1>11, <1>12, <1>13, <1>14, <1>15, <1>16, <1>17, <1>18 DEF Next, Step

\* Only the owner's updates pass the role check, and they name whom they add.
LEMMA WishesCarriedNext == NamedInv /\ [Next]_vars => WishesCarried'
<1>. SUFFICES ASSUME NamedInv, [Next]_vars PROVE WishesCarried'
  OBVIOUS
<1>. USE AccessAssumption DEF database, session, history, bounds
<1>1. ASSUME NEW p \in Sessions, Arrive(p) PROVE WishesCarried'
  BY <1>1 DEF Arrive, Goto, NamedInv, TInv, TypeOK, Tasks, OnTask, SeenExists, NamesCarried, WishesCarried, Carries
<1>2. ASSUME NEW p \in Sessions, Authorize(p) PROVE WishesCarried'
  BY <1>2 DEF Authorize, Goto, RoleFor, NamedInv, TInv, TypeOK, Tasks, OnTask, SeenExists, NamesCarried, WishesCarried, Carries
<1>3. ASSUME NEW p \in Sessions, ResolveLocked(p) PROVE WishesCarried'
  BY <1>3 DEF ResolveLocked, Rollback, Forget, NamedInv, TInv, TypeOK, Tasks, OnTask, SeenExists, NamesCarried, WishesCarried, Carries
<1>4. ASSUME NEW p \in Sessions, Resolve(p) PROVE WishesCarried'
  BY <1>4 DEF Resolve, Goto, NamedInv, TInv, TypeOK, Tasks, OnTask, SeenExists, NamesCarried, WishesCarried, Carries
<1>5. ASSUME NEW p \in Sessions, SelectUser(p) PROVE WishesCarried'
  BY <1>5 DEF SelectUser, Goto, NamedInv, TInv, TypeOK, Tasks, OnTask, SeenExists, NamesCarried, WishesCarried, Carries
<1>6. ASSUME NEW p \in Sessions, Write(p) PROVE WishesCarried'
  BY <1>6 DEF Write, AfterSave, Goto, NamedInv, TInv, TypeOK, Tasks, OnTask, SeenExists, NamesCarried, WishesCarried, Carries
<1>7. ASSUME NEW p \in Sessions, WriteFails(p) PROVE WishesCarried'
  BY <1>7 DEF WriteFails, Rollback, Forget, NamedInv, TInv, TypeOK, Tasks, OnTask, SeenExists, NamesCarried, WishesCarried, Carries
<1>8. ASSUME NEW p \in Sessions, Contains(p) PROVE WishesCarried'
  BY <1>8 DEF Contains, Goto, NamedInv, TInv, TypeOK, Tasks, OnTask, SeenExists, NamesCarried, WishesCarried, Carries
<1>9. ASSUME NEW p \in Sessions, InsertAdmin(p) PROVE WishesCarried'
  BY <1>9 DEF InsertAdmin, Goto, NamedInv, TInv, TypeOK, Tasks, OnTask, SeenExists, NamesCarried, WishesCarried, Carries
<1>10. ASSUME NEW p \in Sessions, InsertFails(p) PROVE WishesCarried'
  BY <1>10 DEF InsertFails, Rollback, Forget, NamedInv, TInv, TypeOK, Tasks, OnTask, SeenExists, NamesCarried, WishesCarried, Carries
<1>11. ASSUME NEW p \in Sessions, DeleteAdmin(p) PROVE WishesCarried'
  BY <1>11 DEF DeleteAdmin, Goto, NamedInv, TInv, TypeOK, Tasks, OnTask, SeenExists, NamesCarried, WishesCarried, Carries
<1>12. ASSUME NEW p \in Sessions, Reply(p) PROVE WishesCarried'
  BY <1>12 DEF Reply, Goto, NamedInv, TInv, TypeOK, Tasks, OnTask, SeenExists, NamesCarried, WishesCarried, Carries
<1>13. ASSUME NEW p \in Sessions, ReplyFails(p) PROVE WishesCarried'
  BY <1>13 DEF ReplyFails, Rollback, Forget, NamedInv, TInv, TypeOK, Tasks, OnTask, SeenExists, NamesCarried, WishesCarried, Carries
<1>14. ASSUME NEW p \in Sessions, Commit(p) PROVE WishesCarried'
  BY <1>14 DEF Commit, Forget, NamedInv, TInv, TypeOK, Tasks, OnTask, SeenExists, NamesCarried, WishesCarried, Carries
<1>15. ASSUME NEW u \in Users, NEW n \in Name, Rename(u, n) PROVE WishesCarried'
  BY <1>15 DEF Rename, NamedInv, TInv, TypeOK, Tasks, OnTask, SeenExists, NamesCarried, WishesCarried, Carries
<1>16. CASE Unlock
  BY <1>16 DEF Unlock, NamedInv, TInv, TypeOK, Tasks, OnTask, SeenExists, NamesCarried, WishesCarried, Carries
<1>17. CASE Restart
  BY <1>17 DEF Restart, NamedInv, TInv, TypeOK, Tasks, OnTask, SeenExists, NamesCarried, WishesCarried, Carries
<1>18. CASE UNCHANGED vars
  BY <1>18 DEF vars, NamedInv, TInv, TypeOK, Tasks, OnTask, SeenExists, NamesCarried, WishesCarried, Carries
<1>. QED
  BY <1>1, <1>2, <1>3, <1>4, <1>5, <1>6, <1>7, <1>8, <1>9,
     <1>10, <1>11, <1>12, <1>13, <1>14, <1>15, <1>16, <1>17, <1>18 DEF Next, Step

\* An administrator enters with the commit of an update that carries a wish.
LEMMA AdminsWereNamedNext == NamedInv /\ [Next]_vars => AdminsWereNamed'
<1>. SUFFICES ASSUME NamedInv, [Next]_vars PROVE AdminsWereNamed'
  OBVIOUS
<1>. USE AccessAssumption DEF database, session, history, bounds
<1>1. ASSUME NEW p \in Sessions, Arrive(p) PROVE AdminsWereNamed'
  BY <1>1 DEF Arrive, Goto, NamedInv, TInv, TypeOK, Tasks, OnTask, SeenExists, NamesCarried, WishesCarried, Carries, AdminsWereNamed
<1>2. ASSUME NEW p \in Sessions, Authorize(p) PROVE AdminsWereNamed'
  BY <1>2 DEF Authorize, Goto, RoleFor, NamedInv, TInv, TypeOK, Tasks, OnTask, SeenExists, NamesCarried, WishesCarried, Carries, AdminsWereNamed
<1>3. ASSUME NEW p \in Sessions, ResolveLocked(p) PROVE AdminsWereNamed'
  BY <1>3 DEF ResolveLocked, Rollback, Forget, NamedInv, TInv, TypeOK, Tasks, OnTask, SeenExists, NamesCarried, WishesCarried, Carries, AdminsWereNamed
<1>4. ASSUME NEW p \in Sessions, Resolve(p) PROVE AdminsWereNamed'
  BY <1>4 DEF Resolve, Goto, NamedInv, TInv, TypeOK, Tasks, OnTask, SeenExists, NamesCarried, WishesCarried, Carries, AdminsWereNamed
<1>5. ASSUME NEW p \in Sessions, SelectUser(p) PROVE AdminsWereNamed'
  BY <1>5 DEF SelectUser, Goto, NamedInv, TInv, TypeOK, Tasks, OnTask, SeenExists, NamesCarried, WishesCarried, Carries, AdminsWereNamed
<1>6. ASSUME NEW p \in Sessions, Write(p) PROVE AdminsWereNamed'
  BY <1>6 DEF Write, AfterSave, Goto, NamedInv, TInv, TypeOK, Tasks, OnTask, SeenExists, NamesCarried, WishesCarried, Carries, AdminsWereNamed
<1>7. ASSUME NEW p \in Sessions, WriteFails(p) PROVE AdminsWereNamed'
  BY <1>7 DEF WriteFails, Rollback, Forget, NamedInv, TInv, TypeOK, Tasks, OnTask, SeenExists, NamesCarried, WishesCarried, Carries, AdminsWereNamed
<1>8. ASSUME NEW p \in Sessions, Contains(p) PROVE AdminsWereNamed'
  BY <1>8 DEF Contains, Goto, NamedInv, TInv, TypeOK, Tasks, OnTask, SeenExists, NamesCarried, WishesCarried, Carries, AdminsWereNamed
<1>9. ASSUME NEW p \in Sessions, InsertAdmin(p) PROVE AdminsWereNamed'
  BY <1>9 DEF InsertAdmin, Goto, NamedInv, TInv, TypeOK, Tasks, OnTask, SeenExists, NamesCarried, WishesCarried, Carries, AdminsWereNamed
<1>10. ASSUME NEW p \in Sessions, InsertFails(p) PROVE AdminsWereNamed'
  BY <1>10 DEF InsertFails, Rollback, Forget, NamedInv, TInv, TypeOK, Tasks, OnTask, SeenExists, NamesCarried, WishesCarried, Carries, AdminsWereNamed
<1>11. ASSUME NEW p \in Sessions, DeleteAdmin(p) PROVE AdminsWereNamed'
  BY <1>11 DEF DeleteAdmin, Goto, NamedInv, TInv, TypeOK, Tasks, OnTask, SeenExists, NamesCarried, WishesCarried, Carries, AdminsWereNamed
<1>12. ASSUME NEW p \in Sessions, Reply(p) PROVE AdminsWereNamed'
  BY <1>12 DEF Reply, Goto, NamedInv, TInv, TypeOK, Tasks, OnTask, SeenExists, NamesCarried, WishesCarried, Carries, AdminsWereNamed
<1>13. ASSUME NEW p \in Sessions, ReplyFails(p) PROVE AdminsWereNamed'
  BY <1>13 DEF ReplyFails, Rollback, Forget, NamedInv, TInv, TypeOK, Tasks, OnTask, SeenExists, NamesCarried, WishesCarried, Carries, AdminsWereNamed
<1>14. ASSUME NEW p \in Sessions, Commit(p) PROVE AdminsWereNamed'
  <2>1. UNCHANGED <<sent, carried>>
    BY <1>14 DEF Commit
  <2>2. admins' \subseteq admins \/ (marked[p] = "in" /\ admins' = admins \cup {who[p]})
    <3>1. admins' = CASE marked[p] = "in" -> admins \cup {who[p]}
                      [] marked[p] = "out" -> admins \ {who[p]}
                      [] OTHER -> admins
      BY <1>14 DEF Commit
    <3>2. CASE marked[p] = "in"
      BY <3>1, <3>2
    <3>3. CASE marked[p] = "out"
      BY <3>1, <3>3
    <3>4. CASE marked[p] # "in" /\ marked[p] # "out"
      BY <3>1, <3>4
    <3>. QED
      BY <3>2, <3>3, <3>4
  <2>3. ASSUME marked[p] = "in" PROVE who[p] \in sent \/ carried[who[p]] \cap sent # {}
    <3>1. job[p] # None /\ OnTask(p) /\ Carries(p) /\ job[p] \in Updates
      BY <1>14, <2>3 DEF Commit, NamedInv, TInv, TypeOK, Tasks, WishesCarried
    <3>2. job[p].kind \in {"addId", "addName"}
      BY <2>3, <3>1, UpdateFields DEF OnTask
    <3>. QED
      BY <2>3, <3>1, <3>2 DEF OnTask, Carries
  <2>. QED
    BY <2>1, <2>2, <2>3 DEF NamedInv, TInv, TypeOK, AdminsWereNamed
<1>15. ASSUME NEW u \in Users, NEW n \in Name, Rename(u, n) PROVE AdminsWereNamed'
  BY <1>15 DEF Rename, NamedInv, TInv, TypeOK, Tasks, OnTask, SeenExists, NamesCarried, WishesCarried, Carries, AdminsWereNamed
<1>16. CASE Unlock
  BY <1>16 DEF Unlock, NamedInv, TInv, TypeOK, Tasks, OnTask, SeenExists, NamesCarried, WishesCarried, Carries, AdminsWereNamed
<1>17. CASE Restart
  BY <1>17 DEF Restart, NamedInv, TInv, TypeOK, Tasks, OnTask, SeenExists, NamesCarried, WishesCarried, Carries, AdminsWereNamed
<1>18. CASE UNCHANGED vars
  BY <1>18 DEF vars, NamedInv, TInv, TypeOK, Tasks, OnTask, SeenExists, NamesCarried, WishesCarried, Carries, AdminsWereNamed
<1>. QED
  BY <1>1, <1>2, <1>3, <1>4, <1>5, <1>6, <1>7, <1>8, <1>9,
     <1>10, <1>11, <1>12, <1>13, <1>14, <1>15, <1>16, <1>17, <1>18 DEF Next, Step

\* Whoever is an administrator was named by the owner, whatever the overlap of
\* updates, changes of usernames and restarts.
THEOREM AdminsWereNamedAlways == Spec => []AdminsWereNamed
<1>1. Init => NamedInv
  <2>. SUFFICES ASSUME Init PROVE NamedInv
    OBVIOUS
  <2>1. PICK met \in SUBSET Users :
          /\ users = [u \in Users |-> IF u \in met THEN Stored(tgName[u]) ELSE None]
          /\ carried = [u \in Users |-> IF u \in met THEN {tgName[u]} \ {None} ELSE {}]
    BY DEF Init
  <2>2. NamesCarried
    BY <2>1 DEF Init, NamesCarried, Stored
  <2>. QED
    BY <2>2, TInvInit DEF Init, NamedInv, WishesCarried, AdminsWereNamed
<1>2. NamedInv /\ [Next]_vars => NamedInv'
  BY TInvNext, NamesCarriedNext, WishesCarriedNext, AdminsWereNamedNext DEF NamedInv
<1>3. NamedInv => AdminsWereNamed
  BY DEF NamedInv
<1>. QED
  BY <1>1, <1>2, <1>3, PTL DEF Spec

-----------------------------------------------------------------------------
(* What a role check is worth by the end of the update.                    *)

\* An administrator who passed the check still is one, or was dismissed since.
TrustHolds ==
  \A p \in Sessions :
    job[p] # None /\ job[p].kind = "act" /\ trusted[p] =>
      job[p].by \in admins \/ p \in lapsed

TrustInv == TInv /\ TrustHolds

\* Only a dismissal ends the trust in an administrator, and it is noted.
LEMMA TrustHoldsNext == TrustInv /\ [Next]_vars => TrustHolds'
<1>. SUFFICES ASSUME TrustInv, [Next]_vars PROVE TrustHolds'
  OBVIOUS
<1>. USE AccessAssumption DEF database, session, history, bounds
<1>1. ASSUME NEW p \in Sessions, Arrive(p) PROVE TrustHolds'
  BY <1>1 DEF Arrive, Goto, TrustInv, TInv, TypeOK, Tasks, OnTask, SeenExists, TrustHolds
<1>2. ASSUME NEW p \in Sessions, Authorize(p) PROVE TrustHolds'
  <2>1. job[p].kind = "act" => job[p].by # Owner
    BY <1>2, UpdateFields DEF Authorize, TrustInv, TInv, TypeOK
  <2>2. UNCHANGED <<admins, job, lapsed>>
    BY <1>2 DEF Authorize
  <2>3. job[p].kind = "act" /\ trusted'[p] => job[p].by \in admins
    BY <1>2, <2>1 DEF Authorize, RoleFor, TrustInv, TInv, TypeOK
  <2>4. \A q \in Sessions \ {p} : trusted'[q] = trusted[q]
    BY <1>2 DEF Authorize, TrustInv, TInv, TypeOK
  <2>. QED
    BY <2>2, <2>3, <2>4 DEF TrustInv, TrustHolds
<1>3. ASSUME NEW p \in Sessions, ResolveLocked(p) PROVE TrustHolds'
  BY <1>3 DEF ResolveLocked, Rollback, Forget, TrustInv, TInv, TypeOK, Tasks, OnTask, SeenExists, TrustHolds
<1>4. ASSUME NEW p \in Sessions, Resolve(p) PROVE TrustHolds'
  BY <1>4 DEF Resolve, Goto, TrustInv, TInv, TypeOK, Tasks, OnTask, SeenExists, TrustHolds
<1>5. ASSUME NEW p \in Sessions, SelectUser(p) PROVE TrustHolds'
  BY <1>5 DEF SelectUser, Goto, TrustInv, TInv, TypeOK, Tasks, OnTask, SeenExists, TrustHolds
<1>6. ASSUME NEW p \in Sessions, Write(p) PROVE TrustHolds'
  BY <1>6 DEF Write, AfterSave, Goto, TrustInv, TInv, TypeOK, Tasks, OnTask, SeenExists, TrustHolds
<1>7. ASSUME NEW p \in Sessions, WriteFails(p) PROVE TrustHolds'
  BY <1>7 DEF WriteFails, Rollback, Forget, TrustInv, TInv, TypeOK, Tasks, OnTask, SeenExists, TrustHolds
<1>8. ASSUME NEW p \in Sessions, Contains(p) PROVE TrustHolds'
  BY <1>8 DEF Contains, Goto, TrustInv, TInv, TypeOK, Tasks, OnTask, SeenExists, TrustHolds
<1>9. ASSUME NEW p \in Sessions, InsertAdmin(p) PROVE TrustHolds'
  BY <1>9 DEF InsertAdmin, Goto, TrustInv, TInv, TypeOK, Tasks, OnTask, SeenExists, TrustHolds
<1>10. ASSUME NEW p \in Sessions, InsertFails(p) PROVE TrustHolds'
  BY <1>10 DEF InsertFails, Rollback, Forget, TrustInv, TInv, TypeOK, Tasks, OnTask, SeenExists, TrustHolds
<1>11. ASSUME NEW p \in Sessions, DeleteAdmin(p) PROVE TrustHolds'
  BY <1>11 DEF DeleteAdmin, Goto, TrustInv, TInv, TypeOK, Tasks, OnTask, SeenExists, TrustHolds
<1>12. ASSUME NEW p \in Sessions, Reply(p) PROVE TrustHolds'
  BY <1>12 DEF Reply, Goto, TrustInv, TInv, TypeOK, Tasks, OnTask, SeenExists, TrustHolds
<1>13. ASSUME NEW p \in Sessions, ReplyFails(p) PROVE TrustHolds'
  BY <1>13 DEF ReplyFails, Rollback, Forget, TrustInv, TInv, TypeOK, Tasks, OnTask, SeenExists, TrustHolds
<1>14. ASSUME NEW p \in Sessions, Commit(p) PROVE TrustHolds'
  BY <1>14 DEF Commit, Forget, TrustInv, TInv, TypeOK, Tasks, OnTask, SeenExists, TrustHolds
<1>15. ASSUME NEW u \in Users, NEW n \in Name, Rename(u, n) PROVE TrustHolds'
  BY <1>15 DEF Rename, TrustInv, TInv, TypeOK, Tasks, OnTask, SeenExists, TrustHolds
<1>16. CASE Unlock
  BY <1>16 DEF Unlock, TrustInv, TInv, TypeOK, Tasks, OnTask, SeenExists, TrustHolds
<1>17. CASE Restart
  BY <1>17 DEF Restart, TrustInv, TInv, TypeOK, Tasks, OnTask, SeenExists, TrustHolds
<1>18. CASE UNCHANGED vars
  BY <1>18 DEF vars, TrustInv, TInv, TypeOK, Tasks, OnTask, SeenExists, TrustHolds
<1>. QED
  BY <1>1, <1>2, <1>3, <1>4, <1>5, <1>6, <1>7, <1>8, <1>9,
     <1>10, <1>11, <1>12, <1>13, <1>14, <1>15, <1>16, <1>17, <1>18 DEF Next, Step

\* A button of the topics takes effect only for an administrator, or for one
\* dismissed while the update was being handled.
THEOREM TrustedAreAdminsAlways == Spec => TrustedAreAdmins
<1>1. Init => TrustInv
  BY TInvInit DEF Init, TrustInv, TrustHolds
<1>2. TrustInv /\ [Next]_vars => TrustInv'
  BY TInvNext, TrustHoldsNext DEF TrustInv
<1>3. TrustInv /\ [Next]_vars =>
        [\A p \in Sessions :
           Commit(p) /\ job[p].kind = "act" /\ trusted[p] =>
             job[p].by \in admins \/ p \in lapsed]_vars
  BY DEF TrustInv, TInv, TypeOK, TrustHolds, Commit
<1>. QED
  BY <1>1, <1>2, <1>3, PTL DEF Spec, TrustedAreAdmins

-----------------------------------------------------------------------------
(* What the locks of an open update keep.                                  *)

\* Two open updates have not written one person's row, nor one name.
RowsApart ==
  \A p, q \in Sessions :
    p # q /\ written[p] # None /\ written[q] # None =>
      /\ who[p] # who[q]
      /\ written[p].index = written[q].index => written[p].index = None

\* An administrator's row is inserted or deleted by one update at a time, which
\* finds it as it left it.
MarksApart ==
  /\ \A p, q \in Sessions :
       p # q /\ marked[p] # None /\ marked[q] # None => who[p] # who[q]
  /\ \A p \in Sessions :
       /\ marked[p] = "in" => who[p] \notin admins
       /\ marked[p] = "out" => who[p] \in admins

\* A name is in one row, and free for the update that has written it.
NamesApart ==
  /\ \A u, v \in Users : u # v /\ IndexOf(u) = IndexOf(v) => IndexOf(u) = None
  /\ \A p \in Sessions : \A u \in Users \ {who[p]} :
       written[p] # None /\ written[p].index = IndexOf(u) => IndexOf(u) = None

LockInv == TInv /\ RowsApart /\ MarksApart /\ NamesApart

\* What a save found when it went through.
LEMMA WriteDone ==
  ASSUME LockInv, NEW p \in Sessions, Write(p), written' # written
  PROVE  /\ written' = [written EXCEPT ![p] = Saved(p)]
         /\ who[p] \in Users /\ job[p] # None /\ pc[p] = "write"
         /\ SaveWaitsFor(p) = {} /\ ~Duplicate(p)
  BY PersonKnown DEF Write, LockInv, TInv, TypeOK

\* Nobody else has written a row or a name that a save goes through with.
LEMMA SavedApart ==
  ASSUME LockInv, NEW p \in Sessions, pc[p] = "write", who[p] \in Users,
         SaveWaitsFor(p) = {}, ~Duplicate(p),
         NEW q \in Sessions \ {p}, written[q] # None
  PROVE  /\ who[q] # who[p]
         /\ Saved(p).index = written[q].index => Saved(p).index = None
<1>1. who[q] # who[p]
  BY DEF SaveWaitsFor, Changes
<1>2. CASE seen[p] = None \/ Saved(p).index # users[who[p]].index
  BY <1>1, <1>2 DEF SaveWaitsFor
<1>3. CASE seen[p] # None /\ Saved(p).index = users[who[p]].index
  <2>1. IndexOf(who[p]) = Saved(p).index
    BY <1>3 DEF IndexOf, LockInv, TInv, SeenExists
  <2>. QED
    BY <1>1, <2>1 DEF LockInv, NamesApart
<1>. QED
  BY <1>1, <1>2, <1>3

\* A save waits for whoever wrote the row or the name.
LEMMA RowsApartNext == LockInv /\ [Next]_vars => RowsApart'
<1>. SUFFICES ASSUME LockInv, [Next]_vars PROVE RowsApart'
  OBVIOUS
<1>. USE AccessAssumption DEF database, session, history, bounds
<1>1. ASSUME NEW p \in Sessions, Arrive(p) PROVE RowsApart'
  BY <1>1 DEF Arrive, Goto, LockInv, TInv, TypeOK, Tasks, OnTask, SeenExists, RowsApart
<1>2. ASSUME NEW p \in Sessions, Authorize(p) PROVE RowsApart'
  BY <1>2 DEF Authorize, Goto, RoleFor, LockInv, TInv, TypeOK, Tasks, OnTask, SeenExists, RowsApart
<1>3. ASSUME NEW p \in Sessions, ResolveLocked(p) PROVE RowsApart'
  BY <1>3 DEF ResolveLocked, Rollback, Forget, LockInv, TInv, TypeOK, Tasks, OnTask, SeenExists, RowsApart
<1>4. ASSUME NEW p \in Sessions, Resolve(p) PROVE RowsApart'
  BY <1>4 DEF Resolve, Goto, LockInv, TInv, TypeOK, Tasks, OnTask, SeenExists, RowsApart
<1>5. ASSUME NEW p \in Sessions, SelectUser(p) PROVE RowsApart'
  BY <1>5 DEF SelectUser, Goto, LockInv, TInv, TypeOK, Tasks, OnTask, SeenExists, RowsApart
<1>6. ASSUME NEW p \in Sessions, Write(p) PROVE RowsApart'
  <2>1. CASE written' = written
    BY <1>6, <2>1 DEF Write, LockInv, RowsApart
  <2>2. CASE written' # written
    <3>1. /\ written' = [written EXCEPT ![p] = Saved(p)]
          /\ who[p] \in Users /\ pc[p] = "write"
          /\ SaveWaitsFor(p) = {} /\ ~Duplicate(p)
      BY <1>6, <2>2, WriteDone
    <3>2. \A q \in Sessions \ {p} : written[q] # None =>
            /\ who[q] # who[p]
            /\ Saved(p).index = written[q].index => Saved(p).index = None
      BY <3>1, SavedApart
    <3>3. who' = who
      BY <1>6 DEF Write
    <3>. QED
      BY <3>1, <3>2, <3>3 DEF LockInv, RowsApart, TInv, TypeOK
  <2>. QED
    BY <2>1, <2>2
<1>7. ASSUME NEW p \in Sessions, WriteFails(p) PROVE RowsApart'
  BY <1>7 DEF WriteFails, Rollback, Forget, LockInv, TInv, TypeOK, Tasks, OnTask, SeenExists, RowsApart
<1>8. ASSUME NEW p \in Sessions, Contains(p) PROVE RowsApart'
  BY <1>8 DEF Contains, Goto, LockInv, TInv, TypeOK, Tasks, OnTask, SeenExists, RowsApart
<1>9. ASSUME NEW p \in Sessions, InsertAdmin(p) PROVE RowsApart'
  BY <1>9 DEF InsertAdmin, Goto, LockInv, TInv, TypeOK, Tasks, OnTask, SeenExists, RowsApart
<1>10. ASSUME NEW p \in Sessions, InsertFails(p) PROVE RowsApart'
  BY <1>10 DEF InsertFails, Rollback, Forget, LockInv, TInv, TypeOK, Tasks, OnTask, SeenExists, RowsApart
<1>11. ASSUME NEW p \in Sessions, DeleteAdmin(p) PROVE RowsApart'
  BY <1>11 DEF DeleteAdmin, Goto, LockInv, TInv, TypeOK, Tasks, OnTask, SeenExists, RowsApart
<1>12. ASSUME NEW p \in Sessions, Reply(p) PROVE RowsApart'
  BY <1>12 DEF Reply, Goto, LockInv, TInv, TypeOK, Tasks, OnTask, SeenExists, RowsApart
<1>13. ASSUME NEW p \in Sessions, ReplyFails(p) PROVE RowsApart'
  BY <1>13 DEF ReplyFails, Rollback, Forget, LockInv, TInv, TypeOK, Tasks, OnTask, SeenExists, RowsApart
<1>14. ASSUME NEW p \in Sessions, Commit(p) PROVE RowsApart'
  BY <1>14 DEF Commit, Forget, LockInv, TInv, TypeOK, Tasks, OnTask, SeenExists, RowsApart
<1>15. ASSUME NEW u \in Users, NEW n \in Name, Rename(u, n) PROVE RowsApart'
  BY <1>15 DEF Rename, LockInv, TInv, TypeOK, Tasks, OnTask, SeenExists, RowsApart
<1>16. CASE Unlock
  BY <1>16 DEF Unlock, LockInv, TInv, TypeOK, Tasks, OnTask, SeenExists, RowsApart
<1>17. CASE Restart
  BY <1>17 DEF Restart, LockInv, TInv, TypeOK, Tasks, OnTask, SeenExists, RowsApart
<1>18. CASE UNCHANGED vars
  BY <1>18 DEF vars, LockInv, TInv, TypeOK, Tasks, OnTask, SeenExists, RowsApart
<1>. QED
  BY <1>1, <1>2, <1>3, <1>4, <1>5, <1>6, <1>7, <1>8, <1>9,
     <1>10, <1>11, <1>12, <1>13, <1>14, <1>15, <1>16, <1>17, <1>18 DEF Next, Step

\* The unique index of the names, and its waits.
LEMMA NamesApartNext == LockInv /\ [Next]_vars => NamesApart'
<1>. SUFFICES ASSUME LockInv, [Next]_vars PROVE NamesApart'
  OBVIOUS
<1>. USE AccessAssumption DEF database, session, history, bounds
<1>1. ASSUME NEW p \in Sessions, Arrive(p) PROVE NamesApart'
  BY <1>1 DEF Arrive, Goto, LockInv, TInv, TypeOK, Tasks, OnTask, SeenExists, NamesApart, IndexOf
<1>2. ASSUME NEW p \in Sessions, Authorize(p) PROVE NamesApart'
  BY <1>2 DEF Authorize, Goto, RoleFor, LockInv, TInv, TypeOK, Tasks, OnTask, SeenExists, NamesApart, IndexOf
<1>3. ASSUME NEW p \in Sessions, ResolveLocked(p) PROVE NamesApart'
  BY <1>3 DEF ResolveLocked, Rollback, Forget, LockInv, TInv, TypeOK, Tasks, OnTask, SeenExists, NamesApart, IndexOf
<1>4. ASSUME NEW p \in Sessions, Resolve(p) PROVE NamesApart'
  BY <1>4 DEF Resolve, Goto, LockInv, TInv, TypeOK, Tasks, OnTask, SeenExists, NamesApart, IndexOf
<1>5. ASSUME NEW p \in Sessions, SelectUser(p) PROVE NamesApart'
  BY <1>5 DEF SelectUser, Goto, LockInv, TInv, TypeOK, Tasks, OnTask, SeenExists, NamesApart, IndexOf
<1>6. ASSUME NEW p \in Sessions, Write(p) PROVE NamesApart'
  <2>1. CASE written' = written
    BY <1>6, <2>1 DEF Write, LockInv, NamesApart, IndexOf
  <2>2. CASE written' # written
    <3>1. \A u \in Users \ {who[p]} : Saved(p).index = IndexOf(u) => IndexOf(u) = None
      BY <1>6, <2>2, WriteDone DEF Duplicate
    <3>2. UNCHANGED <<users, who>>
      BY <1>6 DEF Write
    <3>. QED
      BY <1>6, <2>2, <3>1, <3>2, WriteDone DEF LockInv, NamesApart, IndexOf, TInv, TypeOK
  <2>. QED
    BY <2>1, <2>2
<1>7. ASSUME NEW p \in Sessions, WriteFails(p) PROVE NamesApart'
  BY <1>7 DEF WriteFails, Rollback, Forget, LockInv, TInv, TypeOK, Tasks, OnTask, SeenExists, NamesApart, IndexOf
<1>8. ASSUME NEW p \in Sessions, Contains(p) PROVE NamesApart'
  BY <1>8 DEF Contains, Goto, LockInv, TInv, TypeOK, Tasks, OnTask, SeenExists, NamesApart, IndexOf
<1>9. ASSUME NEW p \in Sessions, InsertAdmin(p) PROVE NamesApart'
  BY <1>9 DEF InsertAdmin, Goto, LockInv, TInv, TypeOK, Tasks, OnTask, SeenExists, NamesApart, IndexOf
<1>10. ASSUME NEW p \in Sessions, InsertFails(p) PROVE NamesApart'
  BY <1>10 DEF InsertFails, Rollback, Forget, LockInv, TInv, TypeOK, Tasks, OnTask, SeenExists, NamesApart, IndexOf
<1>11. ASSUME NEW p \in Sessions, DeleteAdmin(p) PROVE NamesApart'
  BY <1>11 DEF DeleteAdmin, Goto, LockInv, TInv, TypeOK, Tasks, OnTask, SeenExists, NamesApart, IndexOf
<1>12. ASSUME NEW p \in Sessions, Reply(p) PROVE NamesApart'
  BY <1>12 DEF Reply, Goto, LockInv, TInv, TypeOK, Tasks, OnTask, SeenExists, NamesApart, IndexOf
<1>13. ASSUME NEW p \in Sessions, ReplyFails(p) PROVE NamesApart'
  BY <1>13 DEF ReplyFails, Rollback, Forget, LockInv, TInv, TypeOK, Tasks, OnTask, SeenExists, NamesApart, IndexOf
<1>14. ASSUME NEW p \in Sessions, Commit(p) PROVE NamesApart'
  <2>1. \A q \in Sessions \ {p} : written'[q] = written[q] /\ who'[q] = who[q]
    BY <1>14 DEF Commit, Forget, LockInv, TInv, TypeOK
  <2>2. written'[p] = None
    BY <1>14 DEF Commit, Forget, LockInv, TInv, TypeOK
  <2>3. CASE written[p] = None
    <3>1. users' = users
      BY <1>14, <2>3 DEF Commit
    <3>. QED
      BY <2>1, <2>2, <3>1 DEF LockInv, NamesApart, IndexOf
  <2>4. CASE written[p] # None
    <3>1. users' = [users EXCEPT ![who[p]] = written[p]] /\ who[p] \in Users
      BY <1>14, <2>4 DEF Commit, LockInv, TInv, TypeOK
    <3>2. \A u \in Users : u = who[p] => IndexOf(u)' = written[p].index
      BY <2>4, <3>1 DEF IndexOf, LockInv, TInv, TypeOK
    <3>3. \A u \in Users \ {who[p]} : IndexOf(u)' = IndexOf(u)
      BY <3>1 DEF IndexOf, LockInv, TInv, TypeOK
    <3>4. \A u \in Users \ {who[p]} : written[p].index = IndexOf(u) => IndexOf(u) = None
      BY <2>4 DEF LockInv, NamesApart
    <3>5. \A q \in Sessions \ {p} : written[q] # None =>
            /\ who[q] # who[p]
            /\ written[p].index = written[q].index => written[p].index = None
      BY <2>4 DEF LockInv, RowsApart
    <3>. QED
      BY <2>1, <2>2, <3>2, <3>3, <3>4, <3>5 DEF LockInv, NamesApart
  <2>. QED
    BY <2>3, <2>4
<1>15. ASSUME NEW u \in Users, NEW n \in Name, Rename(u, n) PROVE NamesApart'
  BY <1>15 DEF Rename, LockInv, TInv, TypeOK, Tasks, OnTask, SeenExists, NamesApart, IndexOf
<1>16. CASE Unlock
  BY <1>16 DEF Unlock, LockInv, TInv, TypeOK, Tasks, OnTask, SeenExists, NamesApart, IndexOf
<1>17. CASE Restart
  BY <1>17 DEF Restart, LockInv, TInv, TypeOK, Tasks, OnTask, SeenExists, NamesApart, IndexOf
<1>18. CASE UNCHANGED vars
  BY <1>18 DEF vars, LockInv, TInv, TypeOK, Tasks, OnTask, SeenExists, NamesApart, IndexOf
<1>. QED
  BY <1>1, <1>2, <1>3, <1>4, <1>5, <1>6, <1>7, <1>8, <1>9,
     <1>10, <1>11, <1>12, <1>13, <1>14, <1>15, <1>16, <1>17, <1>18 DEF Next, Step

\* An insertion and a deletion wait for each other.
LEMMA MarksApartNext == LockInv /\ [Next]_vars => MarksApart'
<1>. SUFFICES ASSUME LockInv, [Next]_vars PROVE MarksApart'
  OBVIOUS
<1>. USE AccessAssumption DEF database, session, history, bounds
<1>1. ASSUME NEW p \in Sessions, Arrive(p) PROVE MarksApart'
  BY <1>1 DEF Arrive, Goto, LockInv, TInv, TypeOK, Tasks, OnTask, SeenExists, MarksApart
<1>2. ASSUME NEW p \in Sessions, Authorize(p) PROVE MarksApart'
  BY <1>2 DEF Authorize, Goto, RoleFor, LockInv, TInv, TypeOK, Tasks, OnTask, SeenExists, MarksApart
<1>3. ASSUME NEW p \in Sessions, ResolveLocked(p) PROVE MarksApart'
  BY <1>3 DEF ResolveLocked, Rollback, Forget, LockInv, TInv, TypeOK, Tasks, OnTask, SeenExists, MarksApart
<1>4. ASSUME NEW p \in Sessions, Resolve(p) PROVE MarksApart'
  BY <1>4 DEF Resolve, Goto, LockInv, TInv, TypeOK, Tasks, OnTask, SeenExists, MarksApart
<1>5. ASSUME NEW p \in Sessions, SelectUser(p) PROVE MarksApart'
  BY <1>5 DEF SelectUser, Goto, LockInv, TInv, TypeOK, Tasks, OnTask, SeenExists, MarksApart
<1>6. ASSUME NEW p \in Sessions, Write(p) PROVE MarksApart'
  BY <1>6 DEF Write, AfterSave, Goto, LockInv, TInv, TypeOK, Tasks, OnTask, SeenExists, MarksApart
<1>7. ASSUME NEW p \in Sessions, WriteFails(p) PROVE MarksApart'
  BY <1>7 DEF WriteFails, Rollback, Forget, LockInv, TInv, TypeOK, Tasks, OnTask, SeenExists, MarksApart
<1>8. ASSUME NEW p \in Sessions, Contains(p) PROVE MarksApart'
  BY <1>8 DEF Contains, Goto, LockInv, TInv, TypeOK, Tasks, OnTask, SeenExists, MarksApart
<1>9. ASSUME NEW p \in Sessions, InsertAdmin(p) PROVE MarksApart'
  BY <1>9 DEF InsertAdmin, Goto, InsertWaitsFor, LockInv, TInv, TypeOK, MarksApart
<1>10. ASSUME NEW p \in Sessions, InsertFails(p) PROVE MarksApart'
  BY <1>10 DEF InsertFails, Rollback, Forget, LockInv, TInv, TypeOK, Tasks, OnTask, SeenExists, MarksApart
<1>11. ASSUME NEW p \in Sessions, DeleteAdmin(p) PROVE MarksApart'
  BY <1>11 DEF DeleteAdmin, Goto, DeleteWaitsFor, LockInv, TInv, TypeOK, MarksApart
<1>12. ASSUME NEW p \in Sessions, Reply(p) PROVE MarksApart'
  BY <1>12 DEF Reply, Goto, LockInv, TInv, TypeOK, Tasks, OnTask, SeenExists, MarksApart
<1>13. ASSUME NEW p \in Sessions, ReplyFails(p) PROVE MarksApart'
  BY <1>13 DEF ReplyFails, Rollback, Forget, LockInv, TInv, TypeOK, Tasks, OnTask, SeenExists, MarksApart
<1>14. ASSUME NEW p \in Sessions, Commit(p) PROVE MarksApart'
  BY <1>14 DEF Commit, Forget, LockInv, TInv, TypeOK, Tasks, OnTask, SeenExists, MarksApart
<1>15. ASSUME NEW u \in Users, NEW n \in Name, Rename(u, n) PROVE MarksApart'
  BY <1>15 DEF Rename, LockInv, TInv, TypeOK, Tasks, OnTask, SeenExists, MarksApart
<1>16. CASE Unlock
  BY <1>16 DEF Unlock, LockInv, TInv, TypeOK, Tasks, OnTask, SeenExists, MarksApart
<1>17. CASE Restart
  BY <1>17 DEF Restart, LockInv, TInv, TypeOK, Tasks, OnTask, SeenExists, MarksApart
<1>18. CASE UNCHANGED vars
  BY <1>18 DEF vars, LockInv, TInv, TypeOK, Tasks, OnTask, SeenExists, MarksApart
<1>. QED
  BY <1>1, <1>2, <1>3, <1>4, <1>5, <1>6, <1>7, <1>8, <1>9,
     <1>10, <1>11, <1>12, <1>13, <1>14, <1>15, <1>16, <1>17, <1>18 DEF Next, Step

LEMMA LockInvInit == Init => LockInv
<1>. SUFFICES ASSUME Init PROVE LockInv
  OBVIOUS
<1>1. RowsApart /\ MarksApart
  BY AccessAssumption DEF Init, RowsApart, MarksApart, AccessAssumption
<1>2. NamesApart
  BY DEF Init, NamesApart, IndexOf, Stored
<1>. QED
  BY <1>1, <1>2, TInvInit DEF LockInv

LEMMA LockInvNext == LockInv /\ [Next]_vars => LockInv'
  BY TInvNext, RowsApartNext, MarksApartNext, NamesApartNext DEF LockInv

\* Nobody waits in a circle: only an update that inserts an administrator waits
\* with a lock to its name, on the row it saved itself, and whoever it waits for
\* does not wait.
THEOREM NoCircularWaitAlways == Spec => []NoCircularWait
<1>1. LockInv => NoCircularWait
  <2>. SUFFICES ASSUME LockInv, NEW W \in SUBSET Sessions, W # {},
                       \A p \in W : WaitsFor(p) \cap W # {}
                PROVE  FALSE
    BY DEF NoCircularWait
  <2>1. ASSUME NEW p \in Sessions, WaitsFor(p) # {}
        PROVE  /\ marked[p] = None
               /\ written[p] # None => pc[p] = "insert"
    <3>1. pc[p] \in {"write", "insert", "delete"}
      BY <2>1 DEF WaitsFor
    <3>2. job[p] # None /\ OnTask(p) /\ job[p] \in Updates
      BY <3>1 DEF LockInv, TInv, TypeOK, Tasks
    <3>. QED
      BY <3>1, <3>2, UpdateFields DEF OnTask
  <2>2. ASSUME NEW p \in Sessions, NEW q \in WaitsFor(p), WaitsFor(q) # {}
        PROVE  /\ q \in Sessions /\ q # p /\ written[q] # None
               /\ pc[p] = "insert" => who[q] = who[p]
    <3>1. marked[q] # "in" /\ marked[q] # "out" /\ ~(marked[q] # None)
      BY <2>1, <2>2, AccessAssumption
      DEF WaitsFor, SaveWaitsFor, InsertWaitsFor, DeleteWaitsFor, AccessAssumption
    <3>. QED
      BY <2>2, <3>1
      DEF WaitsFor, SaveWaitsFor, InsertWaitsFor, DeleteWaitsFor, Changes, Rekeys
  <2>3. PICK p \in W : TRUE
    OBVIOUS
  <2>4. PICK q \in W : q \in WaitsFor(p)
    BY <2>3
  <2>5. PICK r \in W : r \in WaitsFor(q)
    BY <2>4
  <2>6. WaitsFor(q) # {} /\ WaitsFor(r) # {}
    BY <2>5
  <2>7. written[q] # None /\ pc[q] = "insert"
    BY <2>1, <2>2, <2>3, <2>4, <2>6
  <2>8. r # q /\ written[r] # None /\ who[r] = who[q]
    BY <2>2, <2>5, <2>6, <2>7
  <2>. QED
    BY <2>7, <2>8 DEF LockInv, RowsApart
<1>. QED
  BY LockInvInit, LockInvNext, <1>1, PTL DEF Spec

-----------------------------------------------------------------------------
(* What a save changes.                                                    *)

\* Unless another commit fell between its statements, a /start has written the
\* name it came with, and an administrator's id only a row that is new.
SavesFresh ==
  \A p \in Sessions :
    job[p] # None /\ who[p] \notin raced =>
      /\ written[p] # None =>
           IF job[p].kind = "start" THEN written[p] = Stored(job[p].name)
           ELSE users[who[p]] = None
      /\ pc[p] = "write" /\ job[p].kind = "addId" => seen[p] = None

FreshInv == LockInv /\ SavesFresh

\* A look that was stale when its save went through is recorded as raced.
LEMMA SavesFreshNext == FreshInv /\ [Next]_vars => SavesFresh'
<1>. SUFFICES ASSUME FreshInv, [Next]_vars PROVE SavesFresh'
  OBVIOUS
<1>. USE AccessAssumption DEF database, session, history, bounds
<1>1. ASSUME NEW p \in Sessions, Arrive(p) PROVE SavesFresh'
  BY <1>1 DEF Arrive, Goto, FreshInv, LockInv, TInv, TypeOK, Tasks, OnTask, SeenExists, SavesFresh
<1>2. ASSUME NEW p \in Sessions, Authorize(p) PROVE SavesFresh'
  BY <1>2 DEF Authorize, Goto, RoleFor, FreshInv, LockInv, TInv, TypeOK, Tasks, OnTask, SeenExists, SavesFresh
<1>3. ASSUME NEW p \in Sessions, ResolveLocked(p) PROVE SavesFresh'
  BY <1>3 DEF ResolveLocked, Rollback, Forget, FreshInv, LockInv, TInv, TypeOK, Tasks, OnTask, SeenExists, SavesFresh
<1>4. ASSUME NEW p \in Sessions, Resolve(p) PROVE SavesFresh'
  BY <1>4 DEF Resolve, Goto, FreshInv, LockInv, TInv, TypeOK, Tasks, OnTask, SeenExists, SavesFresh
<1>5. ASSUME NEW p \in Sessions, SelectUser(p) PROVE SavesFresh'
  BY <1>5 DEF SelectUser, Goto, FreshInv, LockInv, TInv, TypeOK, Tasks, OnTask, SeenExists, SavesFresh
<1>6. ASSUME NEW p \in Sessions, Write(p) PROVE SavesFresh'
  <2>1. CASE written' = written
    BY <1>6, <2>1 DEF Write, AfterSave, Goto, FreshInv, LockInv, TInv, TypeOK, SavesFresh
  <2>2. CASE written' # written
    <3>1. /\ written' = [written EXCEPT ![p] = Saved(p)]
          /\ who[p] \in Users /\ job[p] # None /\ OnTask(p) /\ job[p] \in Updates
          /\ pc[p] = "write" /\ ~Duplicate(p)
      BY <1>6, <2>2, WriteDone DEF FreshInv, LockInv, TInv, TypeOK, Tasks
    <3>2. UNCHANGED <<users, job, who>> /\ seen' = [seen EXCEPT ![p] = None]
          /\ raced \subseteq raced'
      BY <1>6 DEF Write
    <3>3. \A q \in Sessions \ {p} : pc'[q] = pc[q]
      BY <1>6 DEF Write, AfterSave, Goto, FreshInv, LockInv, TInv, TypeOK
    <3>4. pc'[p] # "write"
      BY <1>6 DEF Write, AfterSave, Goto, FreshInv, LockInv, TInv, TypeOK
    <3>5. ASSUME who[p] \notin raced'
          PROVE  IF job[p].kind = "start" THEN Saved(p) = Stored(job[p].name)
                 ELSE users[who[p]] = None
      <4>1. users[who[p]] = seen[p] /\ who[p] \notin raced
        BY <1>6, <2>2, <3>1, <3>5 DEF Write
      <4>2. CASE job[p].kind = "start"
        BY <4>1, <4>2 DEF Saved, Stored, NameOf
      <4>3. CASE job[p].kind # "start"
        <5>1. job[p].kind = "addId"
          BY <3>1, <4>3, UpdateFields DEF OnTask
        <5>. QED
          BY <3>1, <4>1, <4>3, <5>1 DEF FreshInv, SavesFresh
      <4>. QED
        BY <4>2, <4>3
    <3>. QED
      BY <3>1, <3>2, <3>3, <3>4, <3>5 DEF FreshInv, LockInv, TInv, TypeOK, SavesFresh
  <2>. QED
    BY <2>1, <2>2
<1>7. ASSUME NEW p \in Sessions, WriteFails(p) PROVE SavesFresh'
  BY <1>7 DEF WriteFails, Rollback, Forget, FreshInv, LockInv, TInv, TypeOK, Tasks, OnTask, SeenExists, SavesFresh
<1>8. ASSUME NEW p \in Sessions, Contains(p) PROVE SavesFresh'
  BY <1>8 DEF Contains, Goto, FreshInv, LockInv, TInv, TypeOK, Tasks, OnTask, SeenExists, SavesFresh
<1>9. ASSUME NEW p \in Sessions, InsertAdmin(p) PROVE SavesFresh'
  BY <1>9 DEF InsertAdmin, Goto, FreshInv, LockInv, TInv, TypeOK, Tasks, OnTask, SeenExists, SavesFresh
<1>10. ASSUME NEW p \in Sessions, InsertFails(p) PROVE SavesFresh'
  BY <1>10 DEF InsertFails, Rollback, Forget, FreshInv, LockInv, TInv, TypeOK, Tasks, OnTask, SeenExists, SavesFresh
<1>11. ASSUME NEW p \in Sessions, DeleteAdmin(p) PROVE SavesFresh'
  BY <1>11 DEF DeleteAdmin, Goto, FreshInv, LockInv, TInv, TypeOK, Tasks, OnTask, SeenExists, SavesFresh
<1>12. ASSUME NEW p \in Sessions, Reply(p) PROVE SavesFresh'
  BY <1>12 DEF Reply, Goto, FreshInv, LockInv, TInv, TypeOK, Tasks, OnTask, SeenExists, SavesFresh
<1>13. ASSUME NEW p \in Sessions, ReplyFails(p) PROVE SavesFresh'
  BY <1>13 DEF ReplyFails, Rollback, Forget, FreshInv, LockInv, TInv, TypeOK, Tasks, OnTask, SeenExists, SavesFresh
<1>14. ASSUME NEW p \in Sessions, Commit(p) PROVE SavesFresh'
  <2>1. \A q \in Sessions \ {p} :
          /\ job'[q] = job[q] /\ who'[q] = who[q] /\ written'[q] = written[q]
          /\ pc'[q] = pc[q] /\ seen'[q] = seen[q]
    BY <1>14 DEF Commit, Forget, FreshInv, LockInv, TInv, TypeOK
  <2>2. job'[p] = None /\ raced' = raced
    BY <1>14 DEF Commit, Forget, FreshInv, LockInv, TInv, TypeOK
  <2>3. \A q \in Sessions \ {p} : written[q] # None => users'[who[q]] = users[who[q]]
    BY <1>14 DEF Commit, FreshInv, LockInv, RowsApart, TInv, TypeOK
  <2>. QED
    BY <2>1, <2>2, <2>3 DEF FreshInv, SavesFresh
<1>15. ASSUME NEW u \in Users, NEW n \in Name, Rename(u, n) PROVE SavesFresh'
  BY <1>15 DEF Rename, FreshInv, LockInv, TInv, TypeOK, Tasks, OnTask, SeenExists, SavesFresh
<1>16. CASE Unlock
  BY <1>16 DEF Unlock, FreshInv, LockInv, TInv, TypeOK, Tasks, OnTask, SeenExists, SavesFresh
<1>17. CASE Restart
  BY <1>17 DEF Restart, FreshInv, LockInv, TInv, TypeOK, Tasks, OnTask, SeenExists, SavesFresh
<1>18. CASE UNCHANGED vars
  BY <1>18 DEF vars, FreshInv, LockInv, TInv, TypeOK, Tasks, OnTask, SeenExists, SavesFresh
<1>. QED
  BY <1>1, <1>2, <1>3, <1>4, <1>5, <1>6, <1>7, <1>8, <1>9,
     <1>10, <1>11, <1>12, <1>13, <1>14, <1>15, <1>16, <1>17, <1>18 DEF Next, Step

LEMMA FreshInvInit == Init => FreshInv
  BY LockInvInit DEF Init, FreshInv, SavesFresh

LEMMA FreshInvNext == FreshInv /\ [Next]_vars => FreshInv'
  BY LockInvNext, SavesFreshNext DEF FreshInv

\* Only a commit changes a person's row, to what its update has written.
LEMMA RowsChange ==
  ASSUME TInv, [Next]_vars, NEW u \in Users, users'[u] # users[u]
  PROVE  \E p \in Sessions :
           /\ Commit(p) /\ who[p] = u /\ written[p] # None /\ users'[u] = written[p]
           /\ job[p] # None /\ OnTask(p) /\ job[p] \in Updates
<1>1. users' # users
  OBVIOUS
<1>2. PICK p \in Sessions : Commit(p)
  BY <1>1 DEF Next, Step, vars, database, session, history, bounds, Arrive, Authorize,
     ResolveLocked, Resolve, SelectUser, Write, WriteFails, Contains, InsertAdmin, InsertFails,
     DeleteAdmin, Reply, ReplyFails, Rollback, Rename, Unlock, Restart
<1>. QED
  BY <1>2 DEF Commit, TInv, TypeOK, Tasks

\* The name of a known person changes only by their own /start, unless two
\* updates overlapped.
THEOREM UnracedNameKeptAlways == Spec => UnracedNameKept
<1>1. FreshInv /\ [Next]_vars =>
        [\A u \in Users :
           users[u] # None /\ users'[u] # users[u] /\ u \notin raced =>
             \E p \in Sessions :
               /\ job[p] # None /\ job[p].kind = "start" /\ job[p].by = u
               /\ users'[u] = Stored(job[p].name)]_vars
  <2>. SUFFICES ASSUME FreshInv, [Next]_vars, NEW u \in Users,
                       users[u] # None, users'[u] # users[u], u \notin raced
                PROVE  \E p \in Sessions :
                         /\ job[p] # None /\ job[p].kind = "start" /\ job[p].by = u
                         /\ users'[u] = Stored(job[p].name)
    OBVIOUS
  <2>1. PICK p \in Sessions :
          /\ Commit(p) /\ who[p] = u /\ written[p] # None /\ users'[u] = written[p]
          /\ job[p] # None /\ OnTask(p) /\ job[p] \in Updates
    BY RowsChange DEF FreshInv, LockInv
  <2>2. job[p].kind = "start" /\ written[p] = Stored(job[p].name)
    BY <2>1 DEF FreshInv, SavesFresh
  <2>. QED
    BY <2>1, <2>2 DEF OnTask
<1>. QED
  BY FreshInvInit, FreshInvNext, <1>1, PTL DEF Spec, UnracedNameKept

-----------------------------------------------------------------------------
(* The register.                                                           *)

\* An update enters a person the bot has, or is about to have, a row for, and
\* entering an id leaves the name of a row it finds alone.
Enters(p) ==
  /\ pc[p] = "insert" \/ marked[p] = "in" => who[p] # Owner
  /\ /\ job[p].kind \in {"addId", "addName"}
     /\ pc[p] \in {"contains", "insert"} \/ marked[p] = "in"
     => users[who[p]] # None \/ written[p] # None
  /\ job[p].kind = "addId" /\ written[p] # None =>
       written[p].index = None \/ written[p].index = IndexOf(who[p])

Entries == \A p \in Sessions : job[p] # None => Enters(p)

RegisterInv == LockInv /\ Entries

\* An open update keeps the row it has written from others.
LEMMA RowKept ==
  ASSUME LockInv, NEW p \in Sessions, Commit(p), NEW q \in Sessions \ {p}
  PROVE  /\ job'[q] = job[q] /\ pc'[q] = pc[q] /\ who'[q] = who[q]
         /\ written'[q] = written[q] /\ marked'[q] = marked[q]
         /\ who[q] \in Users /\ users[who[q]] # None => users'[who[q]] # None
         /\ who[q] \in Users /\ written[q] # None => users'[who[q]] = users[who[q]]
<1>1. /\ job'[q] = job[q] /\ pc'[q] = pc[q] /\ who'[q] = who[q]
      /\ written'[q] = written[q] /\ marked'[q] = marked[q]
  BY DEF Commit, Forget, LockInv, TInv, TypeOK
<1>2. CASE written[p] = None
  BY <1>1, <1>2 DEF Commit
<1>3. CASE written[p] # None
  <2>1. users' = [users EXCEPT ![who[p]] = written[p]]
    BY <1>3 DEF Commit
  <2>. QED
    BY <1>1, <1>3, <2>1 DEF LockInv, RowsApart, TInv, TypeOK
<1>. QED
  BY <1>2, <1>3

\* The checks of add_administrator hold until its commit.
LEMMA EntriesNext == RegisterInv /\ [Next]_vars => Entries'
<1>. SUFFICES ASSUME RegisterInv, [Next]_vars PROVE Entries'
  OBVIOUS
<1>. USE AccessAssumption DEF database, session, history, bounds
<1>1. ASSUME NEW p \in Sessions, Arrive(p) PROVE Entries'
  BY <1>1 DEF Arrive, Goto, RegisterInv, LockInv, TInv, TypeOK, Tasks, OnTask, SeenExists, Entries, Enters, IndexOf
<1>2. ASSUME NEW p \in Sessions, Authorize(p) PROVE Entries'
  BY <1>2 DEF Authorize, Goto, RoleFor, RegisterInv, LockInv, TInv, TypeOK, Tasks, OnTask, SeenExists, Entries, Enters, IndexOf
<1>3. ASSUME NEW p \in Sessions, ResolveLocked(p) PROVE Entries'
  BY <1>3 DEF ResolveLocked, Rollback, Forget, RegisterInv, LockInv, TInv, TypeOK, Tasks, OnTask, SeenExists, Entries, Enters, IndexOf
<1>4. ASSUME NEW p \in Sessions, Resolve(p) PROVE Entries'
  BY <1>4 DEF Resolve, Goto, RegisterInv, LockInv, TInv, TypeOK, Tasks, OnTask, SeenExists, Entries, Enters, IndexOf
<1>5. ASSUME NEW p \in Sessions, SelectUser(p) PROVE Entries'
  BY <1>5 DEF SelectUser, Goto, RegisterInv, LockInv, TInv, TypeOK, Tasks, OnTask, SeenExists, Entries, Enters, IndexOf
<1>6. ASSUME NEW p \in Sessions, Write(p) PROVE Entries'
  <2>0. UNCHANGED <<users, job, who, marked>>
        /\ \A q \in Sessions \ {p} : pc'[q] = pc[q] /\ written'[q] = written[q]
    BY <1>6 DEF Write, AfterSave, Goto, RegisterInv, LockInv, TInv, TypeOK
  <2>1. job[p] # None /\ OnTask(p) /\ who[p] \in Users /\ pc[p] = "write" /\ pc'[p] # "insert"
    BY <1>6, PersonKnown
    DEF Write, AfterSave, Goto, RegisterInv, LockInv, TInv, TypeOK, Tasks
  <2>2. marked[p] = None
    BY <2>1 DEF OnTask
  <2>3. users[who[p]] # None \/ written'[p] # None
    <3>1. CASE NothingToSave(p)
      <4>1. Stored(NameOf(p)) \in Row
        BY <2>1, SavedName DEF Stored, Row, RegisterInv, LockInv
      <4>2. seen[p] # None
        BY <3>1, <4>1, AccessAssumption DEF NothingToSave, AccessAssumption
      <4>. QED
        BY <4>2 DEF RegisterInv, LockInv, TInv, SeenExists
    <3>2. CASE ~NothingToSave(p)
      <4>1. written' = [written EXCEPT ![p] = Saved(p)]
        BY <1>6, <3>2 DEF Write
      <4>2. Saved(p) # None
        BY <2>1, SavedRow DEF RegisterInv, LockInv
      <4>. QED
        BY <4>1, <4>2 DEF RegisterInv, LockInv, TInv, TypeOK
    <3>. QED
      BY <3>1, <3>2
  <2>4. job[p].kind = "addId" /\ written'[p] # None =>
          written'[p].index = None \/ written'[p].index = IndexOf(who[p])
    <3>1. CASE written' = written
      BY <2>0, <2>1, <3>1 DEF RegisterInv, Entries, Enters
    <3>2. CASE written' # written
      <4>1. written'[p] = Saved(p)
        BY <1>6, <3>2, WriteDone DEF RegisterInv, LockInv, TInv, TypeOK
      <4>2. job[p].kind = "addId" => NameOf(p) = None
        BY DEF NameOf
      <4>. QED
        BY <2>1, <4>1, <4>2, SavedIndex DEF RegisterInv, LockInv, IndexOf
    <3>. QED
      BY <3>1, <3>2
  <2>. QED
    BY <2>0, <2>1, <2>2, <2>3, <2>4 DEF RegisterInv, Entries, Enters, IndexOf
<1>7. ASSUME NEW p \in Sessions, WriteFails(p) PROVE Entries'
  BY <1>7 DEF WriteFails, Rollback, Forget, RegisterInv, LockInv, TInv, TypeOK, Tasks, OnTask, SeenExists, Entries, Enters, IndexOf
<1>8. ASSUME NEW p \in Sessions, Contains(p) PROVE Entries'
  BY <1>8 DEF Contains, Goto, RegisterInv, LockInv, TInv, TypeOK, Tasks, OnTask, SeenExists, Entries, Enters, IndexOf
<1>9. ASSUME NEW p \in Sessions, InsertAdmin(p) PROVE Entries'
  BY <1>9 DEF InsertAdmin, Goto, RegisterInv, LockInv, TInv, TypeOK, Tasks, OnTask, SeenExists, Entries, Enters, IndexOf
<1>10. ASSUME NEW p \in Sessions, InsertFails(p) PROVE Entries'
  BY <1>10 DEF InsertFails, Rollback, Forget, RegisterInv, LockInv, TInv, TypeOK, Tasks, OnTask, SeenExists, Entries, Enters, IndexOf
<1>11. ASSUME NEW p \in Sessions, DeleteAdmin(p) PROVE Entries'
  BY <1>11 DEF DeleteAdmin, Goto, RegisterInv, LockInv, TInv, TypeOK, Tasks, OnTask, SeenExists, Entries, Enters, IndexOf
<1>12. ASSUME NEW p \in Sessions, Reply(p) PROVE Entries'
  BY <1>12 DEF Reply, Goto, RegisterInv, LockInv, TInv, TypeOK, Tasks, OnTask, SeenExists, Entries, Enters, IndexOf
<1>13. ASSUME NEW p \in Sessions, ReplyFails(p) PROVE Entries'
  BY <1>13 DEF ReplyFails, Rollback, Forget, RegisterInv, LockInv, TInv, TypeOK, Tasks, OnTask, SeenExists, Entries, Enters, IndexOf
<1>14. ASSUME NEW p \in Sessions, Commit(p) PROVE Entries'
  <2>1. job'[p] = None
    BY <1>14 DEF Commit, Forget, RegisterInv, LockInv, TInv, TypeOK
  <2>2. ASSUME NEW q \in Sessions \ {p}, job[q] # None PROVE Enters(q)'
    <3>1. OnTask(q) /\ job[q] \in Updates /\ Enters(q)
      BY <2>2 DEF RegisterInv, Entries, LockInv, TInv, TypeOK, Tasks
    <3>2. /\ job[q].kind \in {"addId", "addName"}
          /\ pc[q] \in {"contains", "insert"} \/ marked[q] = "in" \/ written[q] # None
          => who[q] \in Users
      BY <3>1, PersonKnown DEF RegisterInv, LockInv, TInv, TypeOK
    <3>. QED
      BY <1>14, <3>1, <3>2, RowKept, AccessAssumption
      DEF RegisterInv, Enters, IndexOf, AccessAssumption
  <2>. QED
    BY <2>1, <2>2, <1>14 DEF Entries, Commit, Forget, RegisterInv, LockInv, TInv, TypeOK
<1>15. ASSUME NEW u \in Users, NEW n \in Name, Rename(u, n) PROVE Entries'
  BY <1>15 DEF Rename, RegisterInv, LockInv, TInv, TypeOK, Tasks, OnTask, SeenExists, Entries, Enters, IndexOf
<1>16. CASE Unlock
  BY <1>16 DEF Unlock, RegisterInv, LockInv, TInv, TypeOK, Tasks, OnTask, SeenExists, Entries, Enters, IndexOf
<1>17. CASE Restart
  BY <1>17 DEF Restart, RegisterInv, LockInv, TInv, TypeOK, Tasks, OnTask, SeenExists, Entries, Enters, IndexOf
<1>18. CASE UNCHANGED vars
  BY <1>18 DEF vars, RegisterInv, LockInv, TInv, TypeOK, Tasks, OnTask, SeenExists, Entries, Enters, IndexOf
<1>. QED
  BY <1>1, <1>2, <1>3, <1>4, <1>5, <1>6, <1>7, <1>8, <1>9,
     <1>10, <1>11, <1>12, <1>13, <1>14, <1>15, <1>16, <1>17, <1>18 DEF Next, Step

LEMMA RegisterInvInit == Init => RegisterInv
  BY LockInvInit DEF Init, RegisterInv, Entries

LEMMA RegisterInvNext == RegisterInv /\ [Next]_vars => RegisterInv'
  BY LockInvNext, EntriesNext DEF RegisterInv

\* What the register shows of a row.
LEMMA KnownIsIndex ==
  ASSUME TInv, NEW u \in Users
  PROVE  users[u] # None => users[u].index \in Name /\ users[u].index # "unknown"
  BY AccessAssumption DEF TInv, TypeOK, Row, Name, AccessAssumption

LEMMA RegisterInit == Init => Register!Init
<1>. SUFFICES ASSUME Init PROVE Register!Init
  OBVIOUS
<1>. DEFINE known == [u \in Users |-> IF users[u] = None THEN "unknown" ELSE users[u].index]
<1>1. known \in [Users -> Names \cup {"unknown", None}]
  BY KnownIsIndex, TInvInit DEF Name
<1>2. \A u, v \in Users : known[u] = known[v] /\ known[u] \in Names => u = v
  <2>1. ASSUME NEW u \in Users, known[u] \in Names
        PROVE  known[u] = IndexOf(u) /\ IndexOf(u) # None
    BY <2>1, AccessAssumption DEF IndexOf, AccessAssumption
  <2>. HIDE DEF known
  <2>. QED
    BY <2>1, LockInvInit DEF LockInv, NamesApart
<1>. QED
  BY <1>1, <1>2 DEF Register!Init, Init

LEMMA RegisterStep == RegisterInv /\ [Next]_vars => [Register!Next]_(Register!vars)
<1>. SUFFICES ASSUME RegisterInv, [Next]_vars
              PROVE  Register!Next \/ UNCHANGED Register!vars
  OBVIOUS
<1>. DEFINE known == [u \in Users |-> IF users[u] = None THEN "unknown" ELSE users[u].index]
<1>1. CASE UNCHANGED database
  BY <1>1 DEF database, Register!vars
<1>2. ASSUME NEW p \in Sessions, Commit(p) PROVE Register!Next \/ UNCHANGED Register!vars
  <2>. DEFINE u == who[p]
  <2>1. /\ users' = IF written[p] = None THEN users ELSE [users EXCEPT ![u] = written[p]]
        /\ admins' = CASE marked[p] = "in" -> admins \cup {u}
                         [] marked[p] = "out" -> admins \ {u}
                         [] OTHER -> admins
    BY <1>2 DEF Commit
  <2>2. job[p] # None /\ OnTask(p) /\ Enters(p) /\ job[p] \in Updates
    BY <1>2 DEF Commit, RegisterInv, Entries, LockInv, TInv, TypeOK, Tasks
  <2>3. /\ written[p] \in Row \cup {None} /\ marked[p] \in {None, "in", "out"}
        /\ written[p] # None \/ marked[p] # None => u \in Users
        /\ users \in [Users -> Row \cup {None}]
    BY DEF RegisterInv, LockInv, TInv, TypeOK
  <2>4. ASSUME written[p] # None
        PROVE  /\ known' = [known EXCEPT ![u] = written[p].index]
               /\ written[p].index \in Names \cup {None}
    BY <2>1, <2>3, <2>4 DEF Row, Name
  <2>5. ASSUME written[p] = None PROVE known' = known
    BY <2>1, <2>5
  <2>6. ASSUME marked[p] = "in"
        PROVE  u # Owner /\ u \notin admins /\ admins' = admins \cup {u} /\ u \in Users
    BY <2>1, <2>2, <2>3, <2>6, AccessAssumption
    DEF Enters, RegisterInv, LockInv, MarksApart, AccessAssumption
  <2>7. ASSUME marked[p] = "out"
        PROVE  /\ u \in admins /\ admins' = admins \ {u} /\ u \in Users
               /\ written[p] = None
    <3>1. written[p] = None
      BY <2>2, <2>7, UpdateFields, AccessAssumption DEF OnTask, AccessAssumption
    <3>2. u \in admins /\ u \in Users
      BY <2>3, <2>7, AccessAssumption DEF RegisterInv, LockInv, MarksApart, AccessAssumption
    <3>. QED
      BY <2>1, <2>7, <3>1, <3>2
  <2>8. ASSUME marked[p] = None PROVE admins' = admins
    BY <2>1, <2>8, AccessAssumption DEF AccessAssumption
  <2>. HIDE DEF known
  <2>9. CASE marked[p] = "in" /\ written[p] = None
    <3>1. known[u] # "unknown"
      <4>1. users[u] # None
        BY <2>2, <2>9, UpdateFields, AccessAssumption DEF OnTask, Enters, AccessAssumption
      <4>. QED
        BY <2>6, <2>9, <4>1, KnownIsIndex DEF known, RegisterInv, LockInv
    <3>. QED
      BY <2>5, <2>6, <2>9, <3>1 DEF Register!Next, Register!Admit, Register!Admissible, known
  <2>10. CASE marked[p] = "in" /\ written[p] # None
    <3>1. job[p].kind = "addId"
      BY <2>2, <2>10, UpdateFields, AccessAssumption DEF OnTask, AccessAssumption
    <3>2. CASE written[p].index = None
      BY <2>4, <2>6, <2>10, <3>2
      DEF Register!Next, Register!Enrol, Register!Admissible, known
    <3>3. CASE written[p].index # None
      <4>1. users[u] # None /\ written[p].index = users[u].index
        BY <2>2, <2>10, <3>1, <3>3 DEF Enters, IndexOf
      <4>2. known[u] = written[p].index /\ known[u] # "unknown"
        BY <2>6, <2>10, <4>1, KnownIsIndex DEF known, RegisterInv, LockInv
      <4>3. known' = known
        BY <2>4, <2>10, <4>2 DEF known
      <4>. QED
        BY <2>6, <2>10, <4>2, <4>3 DEF Register!Next, Register!Admit, Register!Admissible, known
    <3>. QED
      BY <3>2, <3>3
  <2>11. CASE marked[p] = "out"
    BY <2>5, <2>7, <2>11 DEF Register!Next, Register!Dismiss, known
  <2>12. CASE marked[p] = None /\ written[p] # None
    <3>1. ASSUME NEW v \in Users \ {u}, written[p].index # None
          PROVE  known[v] # written[p].index
      <4>1. written[p].index # IndexOf(v)
        BY <2>12, <3>1 DEF RegisterInv, LockInv, NamesApart
      <4>2. written[p].index # "unknown"
        BY <2>4, <2>12, AccessAssumption DEF AccessAssumption
      <4>. QED
        BY <4>1, <4>2 DEF known, IndexOf
    <3>. QED
      BY <2>3, <2>4, <2>8, <2>12, <3>1
      DEF Register!Next, Register!Record, Register!Free, known
  <2>13. CASE marked[p] = None /\ written[p] = None
    BY <2>5, <2>8, <2>13 DEF Register!vars, known
  <2>. QED
    BY <2>3, <2>9, <2>10, <2>11, <2>12, <2>13
<1>. QED
  BY <1>1, <1>2 DEF Next, Step, vars, database, session, history, bounds, Arrive, Authorize,
     ResolveLocked, Resolve, SelectUser, Write, WriteFails, Contains, InsertAdmin, InsertFails,
     DeleteAdmin, Reply, ReplyFails, Rollback, Rename, Unlock, Restart

\* Whatever the overlap of updates, the tables change as the register of
\* AdminRegister does: one person at a time, a name for one person, and never
\* the owner among the administrators.
THEOREM RegisterRefined == Spec => ImplementsRegister
  BY RegisterInit, RegisterStep, RegisterInvInit, RegisterInvNext, PTL
  DEF Spec, ImplementsRegister, Register!Spec
=============================================================================
