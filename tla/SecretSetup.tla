------------------------------ MODULE SecretSetup ------------------------------
(***************************************************************************)
(* The secret envelope and the vault.  The one row of secret_envelopes     *)
(* holds the data key, wrapped under the owner's password (salt, verifier  *)
(* and wrapped key), and the API token; the vault holds the data key in    *)
(* memory while the bot is unlocked, and everything else in the database   *)
(* is encrypted under it.  SetupService initializes the envelope, unlocks  *)
(* the vault, changes the password and replaces the token, each in the     *)
(* session of a Telegram update: the row it writes is committed when the   *)
(* handler has finished its Telegram requests, or rolled back, while the   *)
(* vault and the throttle are changed at once and for good.                *)
(*                                                                         *)
(* Saving reads the row again and writes the columns that differ from it,  *)
(* under the row lock, as in TopicStore.                                   *)
(***************************************************************************)
EXTENDS Integers, FiniteSetsExt

CONSTANTS
  Sessions,     \* handlers at work
  Passwords,    \* passwords the owner may type
  None,         \* SQL NULL, no key
  MaxThrottle,  \* max_throttle_seconds
  MaxTime,      \* bounds of the model: the clock,
  MaxOps,       \*   operations
  MaxRestarts   \*   and restarts

VARIABLES
  clock,
  envelope,  \* committed row: [salt, verifier, wrapped, token], None if none
  vault,     \* RuntimeVault._data_key
  stored,    \* keys under which committed rows of other tables are encrypted
  throttle,  \* UnlockThrottleState: [failed, nextAt]
  owner,     \* session that has written the row and not committed, None
  draft,     \* the row as it has written it
  pc,        \* pc[p]: where p's handler is
  task,      \* task[p]: what it was asked for, and when
  rec,       \* rec[p]: the row as p read it
  base,      \* base[p]: the row as p's save read it again
  new,       \* new[p]: what p saves
  fresh,     \* counter behind salts, data keys and tokens: no two are the same
  told,      \* history: the password last set with success, None if none
  raced,     \* history: the row changed between the two SELECTs of a save
  orphaned,  \* history: an initialization was rolled back after it unlocked
  ops, restarts

sessionVars == <<pc, task, rec, base, new>>
historyVars == <<told, raced, orphaned>>
vars == <<clock, envelope, vault, stored, throttle, owner, draft, sessionVars, fresh,
          historyVars, ops, restarts>>

\* A salt is a fresh number.  The verifier and the wrapped key record what they
\* were derived from: the password with that salt, and the data key.
Kek == [password : Passwords, salt : Nat]
Envelope == [salt : Nat, verifier : Kek, wrapped : [kek : Kek, key : Nat], token : Nat]
Requests ==
  [kind : {"initialize"}, new : Passwords]
    \cup [kind : {"unlock"}, current : Passwords]
    \cup [kind : {"change"}, current : Passwords, new : Passwords]
    \cup [kind : {"replace", "write"}]
Tasks == [ask : Requests, at : Nat]

ASSUME SetupAssumption ==
  /\ MaxThrottle \in Nat \ {0}
  /\ MaxTime \in Nat /\ MaxOps \in Nat /\ MaxRestarts \in Nat
  /\ None \notin Sessions \cup Passwords
  /\ None \notin Nat /\ None \notin Envelope /\ None \notin Tasks

TypeOK ==
  /\ clock \in Nat
  /\ envelope \in Envelope \cup {None} /\ draft \in Envelope \cup {None}
  /\ vault \in Nat \cup {None} /\ stored \subseteq Nat
  /\ throttle \in [failed : Nat, nextAt : Nat \cup {None}]
  /\ owner \in Sessions \cup {None}
  /\ pc \in [Sessions -> {"idle", "read", "create", "verify", "reload", "flush", "commit"}]
  /\ task \in [Sessions -> Tasks \cup {None}]
  /\ rec \in [Sessions -> Envelope \cup {None}]
  /\ base \in [Sessions -> Envelope \cup {None}]
  /\ new \in [Sessions -> Envelope \cup {None}]
  /\ fresh \in Nat /\ told \in Passwords \cup {None} /\ raced \in BOOLEAN /\ orphaned \in BOOLEAN
  \* The throttle runs exactly while failures count.
  /\ throttle.failed = 0 <=> throttle.nextAt = None

Init ==
  /\ clock = 0
  /\ envelope = None /\ vault = None /\ stored = {}
  /\ throttle = [failed |-> 0, nextAt |-> None]
  /\ owner = None /\ draft = None
  /\ pc = [p \in Sessions |-> "idle"]
  /\ task = [p \in Sessions |-> None]
  /\ rec = [p \in Sessions |-> None]
  /\ base = [p \in Sessions |-> None]
  /\ new = [p \in Sessions |-> None]
  /\ fresh = 0 /\ ops = 0 /\ restarts = 0
  /\ told = None /\ raced = FALSE /\ orphaned = FALSE

-----------------------------------------------------------------------------
SeenEnvelope(p) == IF owner = p THEN draft ELSE envelope

Opens(password, e) == [password |-> password, salt |-> e.salt] = e.verifier

\* A new envelope for a password: salt and data key are fresh.
Sealed(password, n, key, token) ==
  LET kek == [password |-> password, salt |-> n]
  IN  [salt |-> n, verifier |-> kek, wrapped |-> [kek |-> kek, key |-> key],
       token |-> token]

\* Mutant: the time is left.
UnthrottledHalf == [failed |-> 0, nextAt |-> throttle.nextAt]
\* _reset_throttle.
Unthrottled == [failed |-> 0, nextAt |-> None]

Goto(p, step) == pc' = [pc EXCEPT ![p] = step]

EndSession(p) ==
  /\ Goto(p, "idle")
  /\ task' = [task EXCEPT ![p] = None]
  /\ rec' = [rec EXCEPT ![p] = None]
  /\ base' = [base EXCEPT ![p] = None]
  /\ new' = [new EXCEPT ![p] = None]
  /\ owner' = IF owner = p THEN None ELSE owner
  /\ draft' = IF owner = p THEN None ELSE draft

Ask(p) == task[p].ask

\* The handler answers the user and ends: the middleware commits.
Done(p) ==
  /\ EndSession(p)
  /\ envelope' = SeenEnvelope(p)
  /\ told' = IF owner = p /\ Ask(p).kind \in {"initialize", "change"}
               THEN Ask(p).new ELSE told
  /\ UNCHANGED <<raced, orphaned>>

\* It raises: the middleware rolls back.
Raise(p) ==
  /\ EndSession(p)
  /\ orphaned' = (orphaned \/ (owner = p /\ Ask(p).kind = "initialize"))
  /\ UNCHANGED <<envelope, told, raced>>

Throttled == throttle.nextAt # None /\ clock < throttle.nextAt

\* An update for one of the operations arrives.  unlock is refused at once
\* while the throttle runs; writing needs an unlocked vault.
Begin(p) ==
  /\ pc[p] = "idle"
  /\ ops < MaxOps
  /\ ops' = ops + 1
  /\ \E ask \in Requests :
       /\ ask.kind \in {"change", "write", "replace"} => vault # None
       /\ ~(ask.kind = "unlock" /\ Throttled)
       /\ task' = [task EXCEPT ![p] = [ask |-> ask, at |-> clock]]
       /\ Goto(p, IF ask.kind = "write" THEN "flush" ELSE "read")
  /\ UNCHANGED <<clock, envelope, vault, stored, throttle, owner, draft, rec, base, new,
                 fresh, historyVars, restarts>>

\* SecretRepository.get.
Read(p) ==
  /\ pc[p] = "read"
  /\ LET e == SeenEnvelope(p)
         kind == Ask(p).kind
     IN  IF (e = None) = (kind = "initialize")
           THEN /\ rec' = [rec EXCEPT ![p] = e]
                /\ Goto(p, CASE kind = "initialize" -> "create"
                             [] kind = "replace" -> "reload"
                             [] OTHER -> "verify")
                /\ UNCHANGED <<envelope, owner, draft, task, base, new, historyVars>>
           ELSE Done(p)   \* AlreadyInitializedError, NotInitializedError
  /\ UNCHANGED <<clock, vault, stored, throttle, fresh, ops, restarts>>

\* Mutant: unlocks the vault before the insertion is known to succeed.
CreateUnlockingFirst(p) ==
  /\ pc[p] = "create"
  /\ owner = None
  /\ vault' = fresh + 1
  /\ throttle' = Unthrottled
  /\ fresh' = fresh + 3
  /\ IF envelope # None
       THEN Done(p)
       ELSE /\ owner' = p
            /\ draft' = Sealed(Ask(p).new, fresh, fresh + 1, fresh + 2)
            /\ Goto(p, "commit")
            /\ UNCHANGED <<envelope, task, rec, base, new, historyVars>>
  /\ UNCHANGED <<clock, stored, ops, restarts>>

\* initialize: insert the envelope, then unlock the vault.  The insertion waits
\* for another one under way and fails if that one was committed.
Create(p) ==
  /\ pc[p] = "create"
  /\ owner = None
  /\ IF envelope # None
       THEN /\ Done(p)   \* AlreadyInitializedError
            /\ UNCHANGED <<vault, throttle, fresh>>
       ELSE /\ owner' = p
            /\ draft' = Sealed(Ask(p).new, fresh, fresh + 1, fresh + 2)
            /\ vault' = fresh + 1
            /\ throttle' = Unthrottled
            /\ fresh' = fresh + 3
            /\ Goto(p, "commit")
            /\ UNCHANGED <<envelope, task, rec, base, new, historyVars>>
  /\ UNCHANGED <<clock, stored, ops, restarts>>

\* Mutant: without the cap.
FailedUncapped(at) ==
  LET n == throttle.failed + 1 IN [failed |-> n, nextAt |-> at + 2 ^ (n - 1)]

\* _record_failure: the delay doubles with every failure, up to MaxThrottle,
\* and counts from the time the attempt arrived (that a power of 2 is natural is
\* said for the provers, which do not know it).
Failed(at) ==
  LET n == throttle.failed + 1
      delay == Min({2 ^ (n - 1), MaxThrottle} \cap Nat)
  IN  [failed |-> n, nextAt |-> at + delay]

\* unlock tests the password on the row it read and takes the data key from it.
Unlock(p) ==
  /\ pc[p] = "verify"
  /\ Ask(p).kind = "unlock"
  /\ IF Opens(Ask(p).current, rec[p])
       THEN /\ vault' = rec[p].wrapped.key
            /\ throttle' = Unthrottled
       ELSE /\ throttle' = Failed(task[p].at)
            /\ UNCHANGED vault
  /\ Goto(p, "commit")
  /\ UNCHANGED <<clock, envelope, stored, owner, draft, task, rec, base, new, fresh,
                 historyVars, ops, restarts>>

\* change_password tests it too, and compares the data key with the vault's.
VerifyCurrent(p) ==
  /\ pc[p] = "verify"
  /\ Ask(p).kind = "change"
  /\ IF Opens(Ask(p).current, rec[p]) /\ rec[p].wrapped.key = vault
       THEN /\ Goto(p, "reload")
            /\ UNCHANGED <<envelope, owner, draft, task, rec, base, new, historyVars>>
       ELSE Done(p)   \* InvalidPasswordError
  /\ UNCHANGED <<clock, vault, stored, throttle, fresh, ops, restarts>>

\* Mutant: the old salt is saved again.
UpdatedKeepingSalt(p) ==
  IF Ask(p).kind = "change"
    THEN [Sealed(Ask(p).new, fresh, rec[p].wrapped.key, rec[p].token)
            EXCEPT !.salt = rec[p].salt]
    ELSE [rec[p] EXCEPT !.token = fresh]

\* What change_password and replace_api_token save: the whole record as it was
\* read, with a new salt and what follows from it, or with a new token.
Updated(p) ==
  IF Ask(p).kind = "change"
    THEN Sealed(Ask(p).new, fresh, rec[p].wrapped.key, rec[p].token)
    ELSE [rec[p] EXCEPT !.token = fresh]

\* SecretRepository.save, its SELECT.
Reload(p) ==
  /\ pc[p] = "reload"
  /\ base' = [base EXCEPT ![p] = SeenEnvelope(p)]
  /\ new' = [new EXCEPT ![p] = Updated(p)]
  /\ fresh' = fresh + 1
  /\ raced' = (raced \/ SeenEnvelope(p) # rec[p])
  /\ Goto(p, "flush")
  /\ UNCHANGED <<clock, envelope, vault, stored, throttle, owner, draft, task, rec, told,
                 orphaned, ops, restarts>>

\* Mutant: an UPDATE of all columns.
FlushAllColumns(p) ==
  /\ pc[p] = "flush"
  /\ Ask(p).kind # "write"
  /\ owner = None
  /\ owner' = p
  /\ draft' = new[p]
  /\ Goto(p, "commit")
  /\ UNCHANGED <<clock, envelope, vault, stored, throttle, task, rec, base, new, fresh,
                 historyVars, ops, restarts>>

\* Its UPDATE of the columns that differ, under the row lock.
Flush(p) ==
  /\ pc[p] = "flush"
  /\ Ask(p).kind # "write"
  /\ owner = None
  /\ owner' = p
  /\ draft' = [c \in DOMAIN new[p] |->
                 IF new[p][c] # base[p][c] THEN new[p][c] ELSE envelope[c]]
  /\ Goto(p, "commit")
  /\ UNCHANGED <<clock, envelope, vault, stored, throttle, task, rec, base, new, fresh,
                 historyVars, ops, restarts>>

\* Any other transaction that stores something encrypted with the vault's key:
\* the scheduler creating its settings, a handler recording a user.
Store(p) ==
  /\ pc[p] = "flush"
  /\ Ask(p).kind = "write"
  /\ stored' = stored \cup {vault}
  /\ Done(p)
  /\ UNCHANGED <<clock, vault, throttle, fresh, ops, restarts>>

Finish(p) ==
  /\ pc[p] = "commit"
  /\ Done(p)
  /\ UNCHANGED <<clock, vault, stored, throttle, fresh, ops, restarts>>

\* Telegram or the database raises: the row is rolled back, the vault stays as
\* it is.
Fail(p) ==
  /\ pc[p] # "idle"
  /\ Raise(p)
  /\ UNCHANGED <<clock, vault, stored, throttle, fresh, ops, restarts>>

\* The process is restarted: close() locks the vault and every session ends.
Restart ==
  /\ restarts < MaxRestarts
  /\ restarts' = restarts + 1
  /\ vault' = None
  /\ throttle' = Unthrottled
  /\ owner' = None /\ draft' = None
  /\ pc' = [p \in Sessions |-> "idle"]
  /\ task' = [p \in Sessions |-> None]
  /\ rec' = [p \in Sessions |-> None]
  /\ base' = [p \in Sessions |-> None]
  /\ new' = [p \in Sessions |-> None]
  /\ orphaned' = (orphaned \/ \E p \in Sessions : owner = p /\ Ask(p).kind = "initialize")
  /\ UNCHANGED <<clock, envelope, stored, fresh, told, raced, ops>>

Tick ==
  /\ clock < MaxTime
  /\ clock' = clock + 1
  /\ UNCHANGED <<envelope, vault, stored, throttle, owner, draft, sessionVars, fresh,
                 historyVars, ops, restarts>>

Next ==
  \/ \E p \in Sessions :
       \/ Begin(p)
       \/ Read(p)
       \/ Create(p)
       \/ Unlock(p)
       \/ VerifyCurrent(p)
       \/ Reload(p)
       \/ Flush(p)
       \/ Store(p)
       \/ Finish(p)
       \/ Fail(p)
  \/ Restart
  \/ Tick

Spec == Init /\ [][Next]_vars

-----------------------------------------------------------------------------
(* Properties.                                                             *)

\* Whatever overlaps, the stored envelope can be opened: its salt, verifier
\* and wrapped key belong to one password.
EnvelopeOpens ==
  envelope # None =>
    /\ envelope.verifier.salt = envelope.salt
    /\ envelope.wrapped.kek = envelope.verifier

\* What the other tables hold encrypted can be read with the key of the stored
\* envelope, provided no initialization was rolled back after it had unlocked
\* the vault (UnlockedMeansStored, below, is what it breaks).
UnorphanedDataReadable ==
  ~orphaned /\ envelope # None => stored \subseteq {envelope.wrapped.key}

\* The password set last is the one that opens the envelope, although saves of
\* whole records wait for each other's commits: provided the row never changed
\* between the two SELECTs of a save.
UnracedPasswordSticks ==
  ~raced /\ envelope # None => envelope.verifier.password = told

\* The same without that proviso, which the code does not keep: replacing the
\* token with a record read before a password change puts the old one back.
PasswordSticks == envelope # None => envelope.verifier.password = told

\* However many attempts fail, the owner never waits longer than MaxThrottle
\* for the next one.
LockoutBounded ==
  throttle.nextAt # None => throttle.nextAt <= clock + MaxThrottle

\* An unlocked vault holds the key of an envelope that is stored or about to
\* be: the API token can be read.
UnlockedMeansStored ==
  vault # None => \E e \in {envelope, draft} \ {None} : e.wrapped.key = vault
=============================================================================
