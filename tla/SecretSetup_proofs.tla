-------------------------- MODULE SecretSetup_proofs --------------------------
(***************************************************************************)
(* For any number of sessions and passwords, any order of their statements *)
(* and any restarts: the stored envelope opens, what the vault encrypted   *)
(* can be read with it, the password set last is the one that opens it,    *)
(* and the lockout is bounded, under the provisos of SecretSetup.          *)
(*                                                                         *)
(* The argument follows the records of the envelope, in the database or in *)
(* the hands of a session: they agree in their data key, and two of one    *)
(* salt in what was derived from it, so a save that mixes columns of two   *)
(* of them still yields a record that opens.                               *)
(***************************************************************************)
EXTENDS SecretSetup, TLAPS

Kinds == {"initialize", "unlock", "change", "replace", "write"}

Types ==
  /\ clock \in Nat /\ fresh \in Nat
  /\ envelope \in Envelope \cup {None} /\ draft \in Envelope \cup {None}
  /\ vault \in Nat \cup {None} /\ stored \subseteq Nat
  /\ owner \in Sessions \cup {None}
  /\ pc \in [Sessions -> {"idle", "read", "create", "verify", "reload", "flush", "commit"}]
  /\ task \in [Sessions -> Tasks \cup {None}]
  /\ rec \in [Sessions -> Envelope \cup {None}]
  /\ base \in [Sessions -> Envelope \cup {None}]
  /\ new \in [Sessions -> Envelope \cup {None}]

\* What a session at work has in its hands.
OnTask(p) ==
  /\ task[p] # None
  /\ pc[p] = "create" => Ask(p).kind = "initialize"
  /\ pc[p] = "reload" => Ask(p).kind \in {"change", "replace"}
  /\ pc[p] = "flush" => Ask(p).kind \in {"change", "replace", "write"}
  /\ pc[p] = "flush" /\ Ask(p).kind = "write" => vault # None
  /\ pc[p] = "verify" \/ pc[p] = "reload" => rec[p] # None
  /\ pc[p] = "flush" /\ Ask(p).kind # "write" =>
       rec[p] # None /\ base[p] # None /\ new[p] # None
  /\ owner = p =>
       /\ pc[p] = "commit" /\ draft # None
       /\ Ask(p).kind = "initialize" \/ (Ask(p).kind \in {"change", "replace"} /\ rec[p] # None)

Shape ==
  /\ \A p \in Sessions : pc[p] # "idle" => OnTask(p)
  /\ \A p \in Sessions : owner = p => pc[p] = "commit"
  /\ \A p \in Sessions :
       rec[p] # None \/ base[p] # None \/ new[p] # None => envelope # None
  /\ owner = None => draft = None

SInv == Types /\ Shape

-----------------------------------------------------------------------------
LEMMA RequestFields ==
  ASSUME NEW r \in Requests
  PROVE  /\ r.kind \in Kinds
         /\ r.kind \in {"initialize", "change"} => r.new \in Passwords
         /\ r.kind \in {"unlock", "change"} => r.current \in Passwords
<1>1. r.kind \in Kinds
  BY DEF Requests, Kinds
<1>. QED
  BY <1>1 DEF Requests

LEMMA SealedRecord ==
  ASSUME NEW w \in Passwords, NEW n \in Nat, NEW key \in Nat, NEW token \in Nat
  PROVE  /\ Sealed(w, n, key, token) \in Envelope
         /\ Sealed(w, n, key, token).salt = n
         /\ Sealed(w, n, key, token).verifier = [password |-> w, salt |-> n]
         /\ Sealed(w, n, key, token).wrapped.kek = Sealed(w, n, key, token).verifier
         /\ Sealed(w, n, key, token).wrapped.key = key
  BY DEF Sealed, Envelope, Kek

LEMMA UpdatedRecord ==
  ASSUME SInv, NEW p \in Sessions, pc[p] = "reload"
  PROVE  /\ rec[p] \in Envelope /\ Updated(p) \in Envelope
         /\ Updated(p).wrapped.key = rec[p].wrapped.key
         /\ Ask(p).kind = "change" =>
              /\ Updated(p).salt = fresh
              /\ Updated(p).verifier = [password |-> Ask(p).new, salt |-> fresh]
              /\ Updated(p).wrapped.kek = Updated(p).verifier
         /\ Ask(p).kind # "change" =>
              /\ Updated(p).salt = rec[p].salt /\ Updated(p).verifier = rec[p].verifier
              /\ Updated(p).wrapped = rec[p].wrapped
<1>1. rec[p] \in Envelope /\ Ask(p) \in Requests /\ fresh \in Nat
  BY DEF SInv, Types, Shape, OnTask, Ask, Tasks
<1>2. rec[p].wrapped.key \in Nat /\ rec[p].token \in Nat
  BY <1>1 DEF Envelope
<1>3. CASE Ask(p).kind = "change"
  BY <1>1, <1>2, <1>3, RequestFields, SealedRecord DEF Updated
<1>4. CASE Ask(p).kind # "change"
  BY <1>1, <1>4 DEF Updated, Envelope
<1>. QED
  BY <1>1, <1>3, <1>4

\* A save leaves a record that has each column from the session or the row.
LEMMA FlushedRecord ==
  ASSUME NEW N \in Envelope, NEW B \in Envelope, NEW E \in Envelope, NEW D,
         D = [c \in DOMAIN N |-> IF N[c] # B[c] THEN N[c] ELSE E[c]]
  PROVE  /\ D \in Envelope
         /\ D.salt = IF N.salt # B.salt THEN N.salt ELSE E.salt
         /\ D.verifier = IF N.verifier # B.verifier THEN N.verifier ELSE E.verifier
         /\ D.wrapped = IF N.wrapped # B.wrapped THEN N.wrapped ELSE E.wrapped
<1>1. DOMAIN N = {"salt", "verifier", "wrapped", "token"}
  BY DEF Envelope
<1>2. /\ D.salt = IF N.salt # B.salt THEN N.salt ELSE E.salt
      /\ D.verifier = IF N.verifier # B.verifier THEN N.verifier ELSE E.verifier
      /\ D.wrapped = IF N.wrapped # B.wrapped THEN N.wrapped ELSE E.wrapped
      /\ D.token = IF N.token # B.token THEN N.token ELSE E.token
  BY <1>1
<1>3. D = [salt |-> D.salt, verifier |-> D.verifier, wrapped |-> D.wrapped, token |-> D.token]
  BY <1>1
<1>. QED
  BY <1>2, <1>3 DEF Envelope

LEMMA SInvInit == Init => SInv
  BY SetupAssumption DEF SetupAssumption, Init, SInv, Types, Shape

LEMMA TypesNext == SInv /\ [Next]_vars => Types'
<1>. SUFFICES ASSUME SInv, [Next]_vars PROVE Types'
  OBVIOUS
<1>. USE SetupAssumption DEF SetupAssumption, sessionVars, historyVars
<1>1. ASSUME NEW p \in Sessions, Begin(p) PROVE Types'
  <2>1. PICK ask \in Requests : task' = [task EXCEPT ![p] = [ask |-> ask, at |-> clock]]
    BY <1>1 DEF Begin
  <2>2. [ask |-> ask, at |-> clock] \in Tasks
    BY DEF SInv, Types, Tasks
  <2>3. task' \in [Sessions -> Tasks \cup {None}]
    BY <2>1, <2>2 DEF SInv, Types
  <2>. QED
    BY <1>1, <2>3 DEF Begin, Goto, SInv, Types
<1>2. ASSUME NEW p \in Sessions, Read(p) PROVE Types'
  BY <1>2 DEF Read, Done, EndSession, Goto, Ask, SeenEnvelope, SInv, Types, Shape, OnTask
<1>3. ASSUME NEW p \in Sessions, Create(p) PROVE Types'
  <2>1. CASE envelope # None
    BY <1>3, <2>1 DEF Create, Done, EndSession, Goto, SeenEnvelope, SInv, Types
  <2>2. CASE envelope = None
    <3>1. Ask(p) \in Requests /\ Ask(p).kind = "initialize"
      BY <1>3 DEF Create, SInv, Types, Shape, OnTask, Ask, Tasks
    <3>2. Ask(p).new \in Passwords /\ fresh \in Nat /\ fresh + 1 \in Nat /\ fresh + 2 \in Nat
      BY <3>1, RequestFields DEF SInv, Types
    <3>3. Sealed(Ask(p).new, fresh, fresh + 1, fresh + 2) \in Envelope
      BY <3>2, SealedRecord
    <3>4. /\ draft' = Sealed(Ask(p).new, fresh, fresh + 1, fresh + 2)
          /\ owner' = p /\ vault' = fresh + 1 /\ fresh' = fresh + 3
          /\ pc' = [pc EXCEPT ![p] = "commit"]
          /\ UNCHANGED <<clock, envelope, stored, task, rec, base, new>>
      BY <1>3, <2>2 DEF Create, Goto
    <3>. QED
      BY <3>2, <3>3, <3>4 DEF SInv, Types
  <2>. QED
    BY <2>1, <2>2
<1>4. ASSUME NEW p \in Sessions, Unlock(p) PROVE Types'
  <2>1. rec[p] \in Envelope
    BY <1>4 DEF Unlock, SInv, Types, Shape, OnTask
  <2>2. vault' \in Nat \cup {None}
    BY <1>4, <2>1 DEF Unlock, SInv, Types, Envelope
  <2>. QED
    BY <1>4, <2>2 DEF Unlock, Goto, SInv, Types
<1>5. ASSUME NEW p \in Sessions, VerifyCurrent(p) PROVE Types'
  BY <1>5 DEF VerifyCurrent, Done, EndSession, Goto, Ask, SeenEnvelope, SInv, Types, Shape, OnTask
<1>6. ASSUME NEW p \in Sessions, Reload(p) PROVE Types'
  <2>1. Updated(p) \in Envelope /\ SeenEnvelope(p) \in Envelope \cup {None}
    BY <1>6, UpdatedRecord DEF Reload, SeenEnvelope, SInv, Types
  <2>. QED
    BY <1>6, <2>1 DEF Reload, Goto, SInv, Types
<1>7. ASSUME NEW p \in Sessions, Flush(p) PROVE Types'
  <2>1. rec[p] # None /\ new[p] \in Envelope /\ base[p] \in Envelope /\ envelope \in Envelope
    BY <1>7 DEF Flush, SInv, Types, Shape, OnTask
  <2>2. draft' \in Envelope
    BY <1>7, <2>1, FlushedRecord DEF Flush
  <2>. QED
    BY <1>7, <2>2 DEF Flush, Goto, SInv, Types
<1>8. ASSUME NEW p \in Sessions, Store(p) PROVE Types'
  <2>1. vault \in Nat
    BY <1>8 DEF Store, SInv, Types, Shape, OnTask
  <2>. QED
    BY <1>8, <2>1 DEF Store, Done, EndSession, Goto, SeenEnvelope, SInv, Types
<1>9. ASSUME NEW p \in Sessions, Finish(p) PROVE Types'
  BY <1>9 DEF Finish, Done, EndSession, Goto, Ask, SeenEnvelope, SInv, Types, Shape, OnTask
<1>10. ASSUME NEW p \in Sessions, Fail(p) PROVE Types'
  BY <1>10 DEF Fail, Raise, EndSession, Goto, Ask, SInv, Types, Shape, OnTask
<1>11. CASE Restart
  BY <1>11 DEF Restart, Unthrottled, SInv, Types, Shape, OnTask
<1>12. CASE Tick
  BY <1>12 DEF Tick, SInv, Types, Shape, OnTask
<1>13. CASE UNCHANGED vars
  BY <1>13 DEF vars, SInv, Types, Shape, OnTask
<1>. QED
  BY <1>1, <1>2, <1>3, <1>4, <1>5, <1>6, <1>7, <1>8, <1>9,
     <1>10, <1>11, <1>12, <1>13 DEF Next

\* A step of one session leaves the others what they have.
SessionStep(p) ==
  \/ Begin(p) \/ Read(p) \/ Create(p) \/ Unlock(p) \/ VerifyCurrent(p)
  \/ Reload(p) \/ Flush(p) \/ Store(p) \/ Finish(p) \/ Fail(p)

Kept(q) ==
  /\ task'[q] = task[q] /\ pc'[q] = pc[q]
  /\ rec'[q] = rec[q] /\ base'[q] = base[q] /\ new'[q] = new[q]
  /\ owner' = q <=> owner = q
  /\ owner = q => draft' = draft

LEMMA OthersKept ==
  ASSUME SInv, NEW p \in Sessions, SessionStep(p), NEW q \in Sessions \ {p}
  PROVE  Kept(q)
<1>. USE SetupAssumption DEF SetupAssumption, SInv, Types, Kept, sessionVars
<1>1. CASE Begin(p)
  BY <1>1 DEF Begin, Goto
<1>2. CASE Read(p)
  BY <1>2 DEF Read, Done, EndSession, Goto, Ask, SeenEnvelope
<1>3. CASE Create(p)
  BY <1>3 DEF Create, Done, EndSession, Goto, Ask, SeenEnvelope, Unthrottled
<1>4. CASE Unlock(p)
  BY <1>4 DEF Unlock, Goto, Unthrottled, Ask
<1>5. CASE VerifyCurrent(p)
  BY <1>5 DEF VerifyCurrent, Done, EndSession, Goto, Ask, SeenEnvelope
<1>6. CASE Reload(p)
  BY <1>6 DEF Reload, Goto, Ask, SeenEnvelope
<1>7. CASE Flush(p)
  BY <1>7 DEF Flush, Goto, Ask
<1>8. CASE Store(p)
  BY <1>8 DEF Store, Done, EndSession, Goto, Ask, SeenEnvelope
<1>9. CASE Finish(p)
  BY <1>9 DEF Finish, Done, EndSession, Goto, Ask, SeenEnvelope
<1>10. CASE Fail(p)
  BY <1>10 DEF Fail, Raise, EndSession, Goto, Ask
<1>. QED
  BY <1>1, <1>2, <1>3, <1>4, <1>5, <1>6, <1>7, <1>8, <1>9, <1>10 DEF SessionStep

\* The envelope stays, and so does the vault's key until a restart.
LEMMA EnvelopeStays ==
  ASSUME SInv, NEW p \in Sessions, SessionStep(p)
  PROVE  /\ envelope # None => envelope' # None
         /\ vault # None => vault' # None
<1>. USE SetupAssumption DEF SetupAssumption, SInv, Types, Shape, OnTask
<1>1. CASE Begin(p)
  BY <1>1 DEF Begin, Goto
<1>2. CASE Read(p)
  BY <1>2 DEF Read, Done, EndSession, Goto, Ask, SeenEnvelope
<1>3. CASE Create(p)
  BY <1>3 DEF Create, Done, EndSession, Goto, Ask, SeenEnvelope, Unthrottled
<1>4. CASE Unlock(p)
  <2>1. rec[p] \in Envelope
    BY <1>4 DEF Unlock
  <2>. QED
    BY <1>4, <2>1 DEF Unlock, Envelope
<1>5. CASE VerifyCurrent(p)
  BY <1>5 DEF VerifyCurrent, Done, EndSession, Goto, Ask, SeenEnvelope
<1>6. CASE Reload(p)
  BY <1>6 DEF Reload, Goto, Ask, SeenEnvelope
<1>7. CASE Flush(p)
  BY <1>7 DEF Flush, Goto, Ask
<1>8. CASE Store(p)
  BY <1>8 DEF Store, Done, EndSession, Goto, Ask, SeenEnvelope
<1>9. CASE Finish(p)
  BY <1>9 DEF Finish, Done, EndSession, Goto, Ask, SeenEnvelope
<1>10. CASE Fail(p)
  BY <1>10 DEF Fail, Raise, EndSession, Goto, Ask
<1>. QED
  BY <1>1, <1>2, <1>3, <1>4, <1>5, <1>6, <1>7, <1>8, <1>9, <1>10 DEF SessionStep

LEMMA ShapeNext == SInv /\ [Next]_vars => Shape'
<1>. SUFFICES ASSUME SInv, [Next]_vars PROVE Shape'
  OBVIOUS
<1>. USE SetupAssumption DEF SetupAssumption, sessionVars
<1>0. ASSUME NEW p \in Sessions, SessionStep(p),
             pc'[p] # "idle" => OnTask(p)',
             owner' = p => pc'[p] = "commit",
             rec'[p] # None \/ base'[p] # None \/ new'[p] # None => envelope' # None,
             owner' = None => draft' = None
      PROVE  Shape'
  <2>1. ASSUME NEW q \in Sessions \ {p}, pc'[q] # "idle" PROVE OnTask(q)'
    <3>1. Kept(q) /\ OnTask(q) /\ (vault # None => vault' # None)
      BY <1>0, <2>1, OthersKept, EnvelopeStays DEF SInv, Shape, Kept
    <3>. QED
      BY <3>1 DEF OnTask, Kept, Ask
  <2>2. ASSUME NEW q \in Sessions \ {p}
        PROVE  /\ owner' = q => pc'[q] = "commit"
               /\ rec'[q] # None \/ base'[q] # None \/ new'[q] # None => envelope' # None
    BY <1>0, <2>2, OthersKept, EnvelopeStays DEF SInv, Shape, Kept
  <2>. QED
    BY <1>0, <2>1, <2>2 DEF Shape
<1>1. ASSUME NEW p \in Sessions, Begin(p) PROVE Shape'
  <2>1. PICK ask \in Requests :
          /\ ask.kind \in {"change", "write", "replace"} => vault # None
          /\ task' = [task EXCEPT ![p] = [ask |-> ask, at |-> clock]]
          /\ pc' = [pc EXCEPT ![p] = IF ask.kind = "write" THEN "flush" ELSE "read"]
    BY <1>1 DEF Begin, Goto
  <2>2. /\ UNCHANGED <<envelope, vault, owner, draft, rec, base, new>> /\ pc[p] = "idle"
    BY <1>1 DEF Begin
  <2>3. owner # p /\ task'[p] # None /\ task'[p].ask = ask /\ pc'[p] = IF ask.kind = "write" THEN "flush" ELSE "read"
    BY <2>1, <2>2 DEF SInv, Types, Shape, Tasks
  <2>4. OnTask(p)'
    BY <2>1, <2>2, <2>3 DEF OnTask, Ask
  <2>. QED
    BY <1>0, <1>1, <2>2, <2>3, <2>4 DEF SessionStep, SInv, Shape
<1>2. ASSUME NEW p \in Sessions, Read(p) PROVE Shape'
  <2>1. /\ pc'[p] # "idle" => OnTask(p)'
        /\ owner' = p => pc'[p] = "commit"
        /\ rec'[p] # None \/ base'[p] # None \/ new'[p] # None => envelope' # None
        /\ owner' = None => draft' = None
    BY <1>2 DEF Read, Done, EndSession, Goto, SeenEnvelope, Ask, SInv, Types, Shape, OnTask
  <2>. QED
    BY <1>0, <1>2, <2>1 DEF SessionStep
<1>3. ASSUME NEW p \in Sessions, Create(p) PROVE Shape'
  <2>1. CASE envelope # None
    <3>1. /\ pc'[p] = "idle" /\ owner' # p /\ draft' = draft /\ owner' = owner
          /\ rec'[p] = None /\ base'[p] = None /\ new'[p] = None
      BY <1>3, <2>1 DEF Create, Done, EndSession, Goto, SInv, Types
    <3>. QED
      BY <1>0, <1>3, <3>1 DEF SessionStep, SInv, Shape
  <2>2. CASE envelope = None
    <3>1. Ask(p) \in Requests /\ Ask(p).kind = "initialize" /\ task[p] # None
      BY <1>3 DEF Create, SInv, Types, Shape, OnTask, Ask, Tasks
    <3>2. Ask(p).new \in Passwords /\ fresh \in Nat /\ fresh + 1 \in Nat /\ fresh + 2 \in Nat
      BY <3>1, RequestFields DEF SInv, Types
    <3>3. draft' # None
      <4>1. Sealed(Ask(p).new, fresh, fresh + 1, fresh + 2) \in Envelope
        BY <3>2, SealedRecord
      <4>. QED
        BY <1>3, <2>2, <4>1 DEF Create
    <3>4. /\ pc'[p] = "commit" /\ owner' = p /\ UNCHANGED <<task, rec, base, new, envelope>>
      BY <1>3, <2>2 DEF Create, Goto, SInv, Types
    <3>5. OnTask(p)'
      BY <3>1, <3>3, <3>4 DEF OnTask, Ask
    <3>. QED
      BY <1>0, <1>3, <3>3, <3>4, <3>5 DEF SessionStep, SInv, Shape
  <2>. QED
    BY <2>1, <2>2
<1>4. ASSUME NEW p \in Sessions, Unlock(p) PROVE Shape'
  <2>1. /\ pc'[p] # "idle" => OnTask(p)'
        /\ owner' = p => pc'[p] = "commit"
        /\ rec'[p] # None \/ base'[p] # None \/ new'[p] # None => envelope' # None
        /\ owner' = None => draft' = None
    BY <1>4 DEF Unlock, Goto, Unthrottled, Ask, SInv, Types, Shape, OnTask
  <2>. QED
    BY <1>0, <1>4, <2>1 DEF SessionStep
<1>5. ASSUME NEW p \in Sessions, VerifyCurrent(p) PROVE Shape'
  <2>1. /\ pc'[p] # "idle" => OnTask(p)'
        /\ owner' = p => pc'[p] = "commit"
        /\ rec'[p] # None \/ base'[p] # None \/ new'[p] # None => envelope' # None
        /\ owner' = None => draft' = None
    BY <1>5 DEF VerifyCurrent, Done, EndSession, Goto, SeenEnvelope, Ask, SInv, Types, Shape, OnTask
  <2>. QED
    BY <1>0, <1>5, <2>1 DEF SessionStep
<1>6. ASSUME NEW p \in Sessions, Reload(p) PROVE Shape'
  <2>1. OnTask(p) /\ owner # p /\ rec[p] # None /\ envelope # None
    BY <1>6 DEF Reload, SInv, Shape, OnTask
  <2>2. base'[p] = envelope /\ new'[p] # None /\ pc'[p] = "flush"
    BY <1>6, <2>1, UpdatedRecord DEF Reload, Goto, SeenEnvelope, SInv, Types
  <2>3. UNCHANGED <<owner, draft, rec, task, envelope, vault>>
    BY <1>6 DEF Reload
  <2>4. OnTask(p)'
    BY <1>6, <2>1, <2>2, <2>3 DEF Reload, OnTask, Ask
  <2>. QED
    BY <1>0, <1>6, <2>1, <2>2, <2>3, <2>4 DEF SessionStep, SInv, Shape
<1>7. ASSUME NEW p \in Sessions, Flush(p) PROVE Shape'
  <2>1. /\ OnTask(p) /\ rec[p] # None /\ new[p] \in Envelope /\ base[p] \in Envelope
        /\ envelope \in Envelope
    BY <1>7 DEF Flush, SInv, Types, Shape, OnTask
  <2>2. draft' # None /\ owner' = p /\ pc'[p] = "commit"
    <3>1. draft' \in Envelope
      BY <1>7, <2>1, FlushedRecord DEF Flush
    <3>. QED
      BY <1>7, <3>1 DEF Flush, Goto, SInv, Types
  <2>3. UNCHANGED <<rec, base, new, task, envelope, vault>>
    BY <1>7 DEF Flush
  <2>4. OnTask(p)'
    BY <1>7, <2>1, <2>2, <2>3 DEF Flush, OnTask, Ask
  <2>. QED
    BY <1>0, <1>7, <2>1, <2>2, <2>3, <2>4 DEF SessionStep, SInv, Shape
<1>8. ASSUME NEW p \in Sessions, Store(p) PROVE Shape'
  <2>1. /\ pc'[p] # "idle" => OnTask(p)'
        /\ owner' = p => pc'[p] = "commit"
        /\ rec'[p] # None \/ base'[p] # None \/ new'[p] # None => envelope' # None
        /\ owner' = None => draft' = None
    BY <1>8 DEF Store, Done, EndSession, Goto, SeenEnvelope, Ask, SInv, Types, Shape, OnTask
  <2>. QED
    BY <1>0, <1>8, <2>1 DEF SessionStep
<1>9. ASSUME NEW p \in Sessions, Finish(p) PROVE Shape'
  <2>1. /\ pc'[p] # "idle" => OnTask(p)'
        /\ owner' = p => pc'[p] = "commit"
        /\ rec'[p] # None \/ base'[p] # None \/ new'[p] # None => envelope' # None
        /\ owner' = None => draft' = None
    BY <1>9 DEF Finish, Done, EndSession, Goto, SeenEnvelope, Ask, SInv, Types, Shape, OnTask
  <2>. QED
    BY <1>0, <1>9, <2>1 DEF SessionStep
<1>10. ASSUME NEW p \in Sessions, Fail(p) PROVE Shape'
  <2>1. /\ pc'[p] # "idle" => OnTask(p)'
        /\ owner' = p => pc'[p] = "commit"
        /\ rec'[p] # None \/ base'[p] # None \/ new'[p] # None => envelope' # None
        /\ owner' = None => draft' = None
    BY <1>10 DEF Fail, Raise, EndSession, Goto, Ask, SInv, Types, Shape, OnTask
  <2>. QED
    BY <1>0, <1>10, <2>1 DEF SessionStep
<1>11. CASE Restart
  BY <1>11 DEF Restart, Shape
<1>12. CASE Tick \/ UNCHANGED vars
  BY <1>12 DEF Tick, vars, SInv, Shape, OnTask, Ask
<1>. QED
  BY <1>1, <1>2, <1>3, <1>4, <1>5, <1>6, <1>7, <1>8, <1>9, <1>10, <1>11, <1>12 DEF Next

LEMMA SInvNext == SInv /\ [Next]_vars => SInv'
  BY TypesNext, ShapeNext DEF SInv

-----------------------------------------------------------------------------
(* The records of the envelope.                                            *)

\* A record somebody holds: the row, its draft, or a session.
Held(e) ==
  \/ e = envelope \/ e = draft
  \/ \E p \in Sessions : e \in {rec[p], base[p], new[p]}

Opened(e) == e.verifier.salt = e.salt /\ e.wrapped.kek = e.verifier /\ e.salt < fresh

Agree(e, f) ==
  /\ e.wrapped.key = f.wrapped.key
  /\ e.salt = f.salt => e.verifier = f.verifier

\* All records wrap one data key, and their salts tell them apart.
RecordsAgree ==
  /\ \A e \in Envelope : Held(e) => Opened(e)
  /\ \A e, f \in Envelope : Held(e) /\ Held(f) => Agree(e, f)

RInv == SInv /\ RecordsAgree

LEMMA RecordFields ==
  ASSUME NEW e \in Envelope
  PROVE  /\ e # None /\ e.salt \in Nat
         /\ e.verifier \in Kek /\ e.wrapped.kek \in Kek /\ e.wrapped.key \in Nat
  BY SetupAssumption DEF SetupAssumption, Envelope

\* What the UPDATE leaves is the row or the session's record, but for the token.
LEMMA FlushedRow ==
  ASSUME RecordsAgree, NEW p \in Sessions, NEW D,
         new[p] \in Envelope, base[p] \in Envelope, envelope \in Envelope,
         D = [c \in DOMAIN new[p] |->
                IF new[p][c] # base[p][c] THEN new[p][c] ELSE envelope[c]]
  PROVE  /\ D \in Envelope
         /\ D.verifier = IF new[p].verifier # base[p].verifier THEN new[p].verifier
                         ELSE envelope.verifier
         /\ \/ /\ D.salt = envelope.salt /\ D.verifier = envelope.verifier
               /\ D.wrapped = envelope.wrapped
            \/ /\ D.salt = new[p].salt /\ D.verifier = new[p].verifier
               /\ D.wrapped = new[p].wrapped
<1>1. /\ D \in Envelope
      /\ D.salt = IF new[p].salt # base[p].salt THEN new[p].salt ELSE envelope.salt
      /\ D.verifier = IF new[p].verifier # base[p].verifier THEN new[p].verifier
                      ELSE envelope.verifier
      /\ D.wrapped = IF new[p].wrapped # base[p].wrapped THEN new[p].wrapped ELSE envelope.wrapped
  BY FlushedRecord
<1>2. /\ Opened(new[p]) /\ Opened(base[p]) /\ Agree(new[p], base[p])
  BY DEF RecordsAgree, Held
<1>3. CASE new[p].salt # base[p].salt
  BY <1>1, <1>2, <1>3 DEF Opened
<1>4. CASE new[p].salt = base[p].salt
  <2>1. new[p].verifier = base[p].verifier
    BY <1>2, <1>4 DEF Agree
  <2>2. new[p].wrapped = base[p].wrapped
    BY <1>2, <2>1 DEF Agree, Opened, Envelope
  <2>. QED
    BY <1>1, <1>4, <2>1, <2>2
<1>. QED
  BY <1>1, <1>3, <1>4

LEMMA RecordsAgreeNext == RInv /\ [Next]_vars => RecordsAgree'
<1>. SUFFICES ASSUME RInv, [Next]_vars PROVE RecordsAgree'
  OBVIOUS
<1>. USE SetupAssumption DEF SetupAssumption, sessionVars
<1>0. fresh \in Nat /\ fresh' \in Nat
  BY TypesNext DEF RInv, SInv, Types
<1>1. ASSUME fresh' >= fresh, \A e \in Envelope : Held(e)' => Held(e)
      PROVE  RecordsAgree'
  BY <1>0, <1>1, RecordFields DEF RInv, RecordsAgree, Opened, Agree
<1>2. ASSUME fresh' >= fresh, NEW d \in Envelope,
             \A e \in Envelope : Held(e)' => e = d \/ Held(e),
             d.verifier.salt = d.salt, d.wrapped.kek = d.verifier, d.salt < fresh',
             \A e \in Envelope : Held(e) => Agree(d, e)
      PROVE  RecordsAgree'
  <2>1. \A e \in Envelope : Held(e)' => Opened(e)'
    BY <1>0, <1>2, RecordFields DEF RInv, RecordsAgree, Opened
  <2>2. \A e, f \in Envelope : Held(e)' /\ Held(f)' => Agree(e, f)
    BY <1>2 DEF RInv, RecordsAgree, Agree
  <2>. QED
    BY <2>1, <2>2 DEF RecordsAgree, Agree
<1>3. ASSUME NEW p \in Sessions, Begin(p) PROVE RecordsAgree'
  <2>1. \A e \in Envelope : Held(e)' => Held(e)
    BY <1>3 DEF Begin, Goto, Held, RInv, SInv, Types
  <2>2. fresh' = fresh
    BY <1>3 DEF Begin
  <2>. QED
    BY <1>0, <1>1, <2>1, <2>2
<1>4. ASSUME NEW p \in Sessions, Read(p) PROVE RecordsAgree'
  <2>1. \A e \in Envelope : Held(e)' => Held(e)
    BY <1>4 DEF Read, Done, EndSession, Goto, SeenEnvelope, Held, RInv, SInv, Types
  <2>2. fresh' = fresh
    BY <1>4 DEF Read
  <2>. QED
    BY <1>0, <1>1, <2>1, <2>2
<1>5. ASSUME NEW p \in Sessions, Unlock(p) PROVE RecordsAgree'
  <2>1. \A e \in Envelope : Held(e)' => Held(e)
    BY <1>5 DEF Unlock, Goto, Held, RInv, SInv, Types
  <2>2. fresh' = fresh
    BY <1>5 DEF Unlock
  <2>. QED
    BY <1>0, <1>1, <2>1, <2>2
<1>6. ASSUME NEW p \in Sessions, VerifyCurrent(p) PROVE RecordsAgree'
  <2>1. \A e \in Envelope : Held(e)' => Held(e)
    BY <1>6 DEF VerifyCurrent, Done, EndSession, Goto, SeenEnvelope, Held, RInv, SInv, Types
  <2>2. fresh' = fresh
    BY <1>6 DEF VerifyCurrent
  <2>. QED
    BY <1>0, <1>1, <2>1, <2>2
<1>7. ASSUME NEW p \in Sessions, Store(p) PROVE RecordsAgree'
  <2>1. \A e \in Envelope : Held(e)' => Held(e)
    BY <1>7 DEF Store, Done, EndSession, Goto, SeenEnvelope, Held, RInv, SInv, Types
  <2>2. fresh' = fresh
    BY <1>7 DEF Store
  <2>. QED
    BY <1>0, <1>1, <2>1, <2>2
<1>8. ASSUME NEW p \in Sessions, Finish(p) PROVE RecordsAgree'
  <2>1. \A e \in Envelope : Held(e)' => Held(e)
    BY <1>8 DEF Finish, Done, EndSession, Goto, SeenEnvelope, Held, RInv, SInv, Types
  <2>2. fresh' = fresh
    BY <1>8 DEF Finish
  <2>. QED
    BY <1>0, <1>1, <2>1, <2>2
<1>9. ASSUME NEW p \in Sessions, Fail(p) PROVE RecordsAgree'
  <2>1. \A e \in Envelope : Held(e)' => Held(e)
    BY <1>9 DEF Fail, Raise, EndSession, Goto, Held, RInv, SInv, Types
  <2>2. fresh' = fresh
    BY <1>9 DEF Fail
  <2>. QED
    BY <1>0, <1>1, <2>1, <2>2
<1>10. ASSUME NEW p \in Sessions, Create(p) PROVE RecordsAgree'
  <2>1. CASE envelope # None
    <3>1. \A e \in Envelope : Held(e)' => Held(e)
      BY <1>10, <2>1 DEF Create, Done, EndSession, Goto, SeenEnvelope, Held, RInv, SInv, Types
    <3>2. fresh' = fresh
      BY <1>10, <2>1 DEF Create
    <3>. QED
      BY <1>0, <1>1, <3>1, <3>2
  <2>2. CASE envelope = None
    <3>. DEFINE d == Sealed(Ask(p).new, fresh, fresh + 1, fresh + 2)
    <3>1. Ask(p) \in Requests /\ Ask(p).kind = "initialize"
      BY <1>10 DEF Create, RInv, SInv, Types, Shape, OnTask, Ask, Tasks
    <3>2. Ask(p).new \in Passwords /\ fresh \in Nat /\ fresh + 1 \in Nat /\ fresh + 2 \in Nat
      BY <1>0, <3>1, RequestFields
    <3>3. /\ d \in Envelope /\ d.salt = fresh
          /\ d.verifier = [password |-> Ask(p).new, salt |-> fresh] /\ d.wrapped.kek = d.verifier
      BY <3>2, SealedRecord
    <3>4. draft' = d /\ fresh' = fresh + 3 /\ UNCHANGED <<envelope, rec, base, new>>
      BY <1>10, <2>2 DEF Create
    <3>5. \A e \in Envelope : ~Held(e)
      BY <1>10, <2>2, RecordFields DEF Create, Held, RInv, SInv, Shape
    <3>. HIDE DEF d
    <3>6. \A e \in Envelope : Held(e)' => e = d
      BY <3>4, <3>5 DEF Held
    <3>. QED
      BY <1>0, <1>2, <3>3, <3>4, <3>5, <3>6
  <2>. QED
    BY <2>1, <2>2
<1>11. ASSUME NEW p \in Sessions, Reload(p) PROVE RecordsAgree'
  <2>. DEFINE d == Updated(p)
  <2>1. pc[p] = "reload" /\ fresh' = fresh + 1 /\ UNCHANGED <<envelope, draft, rec>>
        /\ base' = [base EXCEPT ![p] = SeenEnvelope(p)] /\ new' = [new EXCEPT ![p] = d]
    BY <1>11 DEF Reload
  <2>2. \A e \in Envelope : Held(e)' => e = d \/ Held(e)
    BY <2>1 DEF SeenEnvelope, Held, RInv, SInv, Types
  <2>3. /\ rec[p] \in Envelope /\ d \in Envelope /\ d.wrapped.key = rec[p].wrapped.key
        /\ Ask(p).kind = "change" =>
             /\ d.salt = fresh
             /\ d.verifier = [password |-> Ask(p).new, salt |-> fresh]
             /\ d.wrapped.kek = d.verifier
        /\ Ask(p).kind # "change" =>
             d.salt = rec[p].salt /\ d.verifier = rec[p].verifier /\ d.wrapped = rec[p].wrapped
    BY <2>1, UpdatedRecord DEF RInv
  <2>. HIDE DEF d
  <2>4. Held(rec[p]) /\ Opened(rec[p])
    BY <2>3 DEF Held, RInv, RecordsAgree
  <2>5. d.verifier.salt = d.salt /\ d.wrapped.kek = d.verifier /\ d.salt < fresh'
    BY <1>0, <2>1, <2>3, <2>4, RecordFields DEF Opened
  <2>6. \A e \in Envelope : Held(e) => Agree(d, e)
    <3>1. \A e \in Envelope : Held(e) => Agree(rec[p], e) /\ e.salt < fresh
      BY <2>3, <2>4 DEF RInv, RecordsAgree, Opened
    <3>. QED
      BY <1>0, <2>3, <3>1, RecordFields DEF Agree
  <2>. QED
    BY <1>0, <1>2, <2>1, <2>2, <2>3, <2>5, <2>6
<1>12. ASSUME NEW p \in Sessions, Flush(p) PROVE RecordsAgree'
  <2>1. new[p] \in Envelope /\ base[p] \in Envelope /\ envelope \in Envelope
    BY <1>12 DEF Flush, RInv, SInv, Types, Shape, OnTask
  <2>2. fresh' = fresh /\ UNCHANGED <<envelope, rec, base, new>>
    BY <1>12 DEF Flush
  <2>3. PICK d : d = draft'
    OBVIOUS
  <2>4. d \in Envelope /\ \/ /\ d.salt = envelope.salt /\ d.verifier = envelope.verifier
                             /\ d.wrapped = envelope.wrapped
                          \/ /\ d.salt = new[p].salt /\ d.verifier = new[p].verifier
                             /\ d.wrapped = new[p].wrapped
    BY <1>12, <2>1, <2>3, FlushedRow DEF Flush, RInv
  <2>5. \A e \in Envelope : Held(e)' => e = d \/ Held(e)
    BY <2>2, <2>3 DEF Held
  <2>6. /\ Held(envelope) /\ Held(new[p])
        /\ Opened(envelope) /\ Opened(new[p])
        /\ \A e \in Envelope : Held(e) => Agree(envelope, e) /\ Agree(new[p], e)
    BY <2>1 DEF Held, RInv, RecordsAgree
  <2>7. /\ d.verifier.salt = d.salt /\ d.wrapped.kek = d.verifier /\ d.salt < fresh'
        /\ \A e \in Envelope : Held(e) => Agree(d, e)
    BY <2>2, <2>4, <2>6 DEF Opened, Agree
  <2>. QED
    BY <1>0, <1>2, <2>2, <2>4, <2>5, <2>7
<1>13. CASE Restart
  <2>1. \A e \in Envelope : Held(e)' => Held(e)
    BY <1>13, RecordFields DEF Restart, Held
  <2>2. fresh' = fresh
    BY <1>13 DEF Restart
  <2>. QED
    BY <1>0, <1>1, <2>1, <2>2
<1>14. CASE Tick \/ UNCHANGED vars
  <2>1. fresh' = fresh /\ \A e \in Envelope : Held(e)' => Held(e)
    BY <1>14 DEF Tick, vars, Held
  <2>. QED
    BY <1>0, <1>1, <2>1
<1>. QED
  BY <1>3, <1>4, <1>5, <1>6, <1>7, <1>8, <1>9, <1>10, <1>11, <1>12, <1>13, <1>14 DEF Next

LEMMA RInvInit == Init => RInv
  BY SInvInit, RecordFields DEF Init, RInv, RecordsAgree, Held

LEMMA RInvNext == RInv /\ [Next]_vars => RInv'
  BY SInvNext, RecordsAgreeNext DEF RInv

\* The stored envelope can be opened, whatever overlaps.
THEOREM EnvelopeOpensAlways == Spec => []EnvelopeOpens
<1>1. RInv => EnvelopeOpens
  BY DEF RInv, SInv, Types, RecordsAgree, Held, Opened, EnvelopeOpens
<1>. QED
  BY RInvInit, RInvNext, <1>1, PTL DEF Spec

-----------------------------------------------------------------------------
(* The data key.                                                           *)

\* Unless an initialization was rolled back, the vault and what it encrypted
\* have the key of the envelope, or of the one about to be committed.
KeysHeld ==
  ~orphaned =>
    \A k \in stored \cup {vault} : k # None =>
      IF envelope # None THEN k = envelope.wrapped.key
      ELSE draft # None /\ k = draft.wrapped.key

KeyInv == RInv /\ KeysHeld

LEMMA KeysHeldNext == KeyInv /\ [Next]_vars => KeysHeld'
<1>. SUFFICES ASSUME KeyInv, [Next]_vars, ~orphaned' PROVE KeysHeld'
  BY DEF KeysHeld
<1>. USE SetupAssumption DEF SetupAssumption, sessionVars, historyVars, KeyInv
<1>0. ~orphaned
  BY Zenon DEF Next, vars, historyVars, Begin, Read, Create, Unlock, VerifyCurrent, Reload, Flush,
     Store, Finish, Fail, Raise, Done, Restart, Tick
<1>1. ASSUME UNCHANGED <<envelope, draft>>, stored' \cup {vault'} \subseteq stored \cup {vault, None}
      PROVE  KeysHeld'
  BY <1>0, <1>1 DEF KeysHeld
\* A commit or a refusal.
<1>2. ASSUME NEW p \in Sessions, EndSession(p), envelope' = SeenEnvelope(p),
             stored' \cup {vault'} \subseteq stored \cup {vault}
      PROVE  KeysHeld'
  <2>1. CASE owner = p
    <3>1. envelope' = draft /\ draft \in Envelope /\ draft # None
      BY <1>2, <2>1 DEF SeenEnvelope, RInv, SInv, Types, Shape, OnTask
    <3>2. envelope # None => envelope.wrapped.key = draft.wrapped.key
      BY <3>1 DEF RInv, SInv, Types, RecordsAgree, Held, Agree
    <3>. QED
      BY <1>0, <1>2, <3>1, <3>2 DEF KeysHeld
  <2>2. CASE owner # p
    BY <1>1, <1>2, <2>2 DEF EndSession, SeenEnvelope
  <2>. QED
    BY <2>1, <2>2
<1>3. ASSUME NEW p \in Sessions, Begin(p) \/ Reload(p) PROVE KeysHeld'
  BY <1>1, <1>3 DEF Begin, Reload
<1>4. ASSUME NEW p \in Sessions, Read(p) PROVE KeysHeld'
  BY <1>1, <1>2, <1>4 DEF Read, Done
<1>5. ASSUME NEW p \in Sessions, Create(p) PROVE KeysHeld'
  <2>1. CASE envelope # None
    BY <1>2, <1>5, <2>1 DEF Create, Done
  <2>2. CASE envelope = None
    <3>1. Ask(p) \in Requests /\ Ask(p).kind = "initialize"
      BY <1>5 DEF Create, RInv, SInv, Types, Shape, OnTask, Ask, Tasks
    <3>2. Ask(p).new \in Passwords /\ fresh \in Nat /\ fresh + 1 \in Nat /\ fresh + 2 \in Nat
      BY <3>1, RequestFields DEF RInv, SInv, Types
    <3>. DEFINE d == Sealed(Ask(p).new, fresh, fresh + 1, fresh + 2)
    <3>3. d \in Envelope
      BY <3>2, SealedRecord
    <3>4. d.wrapped.key = fresh + 1
      BY DEF Sealed
    <3>5. draft = None /\ \A k \in stored \cup {vault} : k = None
      BY <1>0, <1>5, <2>2 DEF Create, KeysHeld, RInv, SInv, Shape
    <3>6. /\ draft' = d /\ vault' = fresh + 1 /\ UNCHANGED <<envelope, stored>>
      BY <1>5, <2>2 DEF Create
    <3>. HIDE DEF d
    <3>. QED
      BY <2>2, <3>3, <3>4, <3>5, <3>6 DEF KeysHeld
  <2>. QED
    BY <2>1, <2>2
<1>6. ASSUME NEW p \in Sessions, Unlock(p) PROVE KeysHeld'
  <2>1. rec[p] \in Envelope /\ envelope \in Envelope
    BY <1>6 DEF Unlock, RInv, SInv, Types, Shape, OnTask
  <2>2. rec[p].wrapped.key = envelope.wrapped.key
    BY <2>1 DEF RInv, RecordsAgree, Held, Agree
  <2>3. vault' \in {vault, rec[p].wrapped.key} /\ UNCHANGED <<envelope, draft, stored>>
    BY <1>6 DEF Unlock
  <2>. QED
    BY <1>0, <2>1, <2>2, <2>3 DEF KeysHeld
<1>7. ASSUME NEW p \in Sessions, VerifyCurrent(p) PROVE KeysHeld'
  BY <1>1, <1>2, <1>7 DEF VerifyCurrent, Done
<1>8. ASSUME NEW p \in Sessions, Flush(p) PROVE KeysHeld'
  <2>1. envelope # None
    BY <1>8 DEF Flush, RInv, SInv, Shape, OnTask
  <2>. QED
    BY <1>0, <1>8, <2>1 DEF Flush, KeysHeld
<1>9. ASSUME NEW p \in Sessions, Store(p) PROVE KeysHeld'
  BY <1>2, <1>9 DEF Store, Done
<1>10. ASSUME NEW p \in Sessions, Finish(p) PROVE KeysHeld'
  BY <1>2, <1>10 DEF Finish, Done
<1>11. ASSUME NEW p \in Sessions, Fail(p) PROVE KeysHeld'
  <2>1. CASE owner = p
    <3>1. Ask(p).kind # "initialize"
      BY <1>11, <2>1 DEF Fail, Raise
    <3>2. envelope # None
      BY <2>1, <3>1 DEF RInv, SInv, Shape, OnTask
    <3>. QED
      BY <1>0, <1>11, <3>2 DEF Fail, Raise, EndSession, KeysHeld
  <2>2. CASE owner # p
    BY <1>1, <1>11, <2>2 DEF Fail, Raise, EndSession
  <2>. QED
    BY <2>1, <2>2
<1>12. CASE Restart
  <2>1. CASE envelope # None
    BY <1>0, <1>12, <2>1 DEF Restart, KeysHeld
  <2>2. CASE envelope = None
    <3>1. owner = None
      BY <1>12, <2>2 DEF Restart, RInv, SInv, Types, Shape, OnTask
    <3>. QED
      BY <1>1, <1>12, <3>1 DEF Restart, RInv, SInv, Shape
  <2>. QED
    BY <2>1, <2>2
<1>13. CASE Tick \/ UNCHANGED vars
  BY <1>1, <1>13 DEF Tick, vars
<1>. QED
  BY <1>3, <1>4, <1>5, <1>6, <1>7, <1>8, <1>9, <1>10, <1>11, <1>12, <1>13 DEF Next

\* What the vault encrypted can be read with the stored envelope, unless an
\* initialization was rolled back after it had unlocked the vault.
THEOREM UnorphanedDataReadableAlways == Spec => []UnorphanedDataReadable
<1>1. Init => KeyInv
  BY RInvInit DEF Init, KeyInv, KeysHeld
<1>2. KeyInv /\ [Next]_vars => KeyInv'
  BY RInvNext, KeysHeldNext DEF KeyInv
<1>3. KeyInv => UnorphanedDataReadable
  BY SetupAssumption
  DEF SetupAssumption, KeyInv, RInv, SInv, Types, KeysHeld, UnorphanedDataReadable
<1>. QED
  BY <1>1, <1>2, <1>3, PTL DEF Spec

-----------------------------------------------------------------------------
(* The password set last.                                                  *)

\* What a save does to the password: a change brings its own, a replacement of
\* the token leaves it alone unless the row changed under it.
SavesPassword(p) ==
  /\ owner = p /\ Ask(p).kind \in {"initialize", "change"} =>
       draft.verifier.password = Ask(p).new
  /\ pc[p] = "flush" /\ Ask(p).kind = "change" =>
       new[p].verifier.password = Ask(p).new /\ new[p].verifier # base[p].verifier
  /\ ~raced =>
       /\ pc[p] = "flush" /\ Ask(p).kind = "replace" => new[p].verifier = base[p].verifier
       /\ owner = p /\ Ask(p).kind = "replace" => draft.verifier = envelope.verifier

PasswordKept ==
  /\ \A p \in Sessions : pc[p] # "idle" => SavesPassword(p)
  /\ ~raced /\ envelope # None => envelope.verifier.password = told

PasswordInv == RInv /\ PasswordKept

LEMMA PasswordKeptNext == PasswordInv /\ [Next]_vars => PasswordKept'
<1>. SUFFICES ASSUME PasswordInv, [Next]_vars PROVE PasswordKept'
  OBVIOUS
<1>. USE SetupAssumption DEF SetupAssumption, sessionVars, historyVars, PasswordInv
\* The other sessions keep what they have while the row stays.
<1>1. ASSUME NEW p \in Sessions, SessionStep(p), envelope' = envelope \/ owner = p,
             raced => raced',
             NEW q \in Sessions \ {p}, pc'[q] # "idle"
      PROVE  SavesPassword(q)'
  <2>1. Kept(q) /\ SavesPassword(q)
    BY <1>1, OthersKept DEF RInv, PasswordKept, Kept
  <2>2. owner = q => envelope' = envelope
    BY <1>1
  <2>. QED
    BY <1>1, <2>1, <2>2 DEF SavesPassword, Kept, Ask
\* A commit or a refusal.
<1>2. ASSUME NEW p \in Sessions, SessionStep(p), Done(p) PROVE PasswordKept'
  <2>1. pc'[p] = "idle" /\ raced' = raced
    BY <1>2 DEF Done, EndSession, Goto, RInv, SInv, Types
  <2>2. envelope' = envelope \/ owner = p
    BY <1>2 DEF Done, SeenEnvelope
  <2>3. ~raced' /\ envelope' # None => envelope'.verifier.password = told'
    <3>1. CASE owner = p
      <4>1. pc[p] = "commit" /\ OnTask(p) /\ SavesPassword(p) /\ envelope' = draft
        BY <1>2, <3>1 DEF RInv, SInv, Shape, PasswordKept, Done, SeenEnvelope
      <4>2. CASE Ask(p).kind \in {"initialize", "change"}
        BY <1>2, <3>1, <4>1, <4>2 DEF Done, SavesPassword
      <4>3. CASE Ask(p).kind \notin {"initialize", "change"}
        <5>1. Ask(p).kind = "replace" /\ envelope # None
          BY <3>1, <4>1, <4>3 DEF OnTask, RInv, SInv, Shape
        <5>. QED
          BY <1>2, <2>1, <3>1, <4>1, <4>3, <5>1 DEF Done, SavesPassword, PasswordKept
      <4>. QED
        BY <4>2, <4>3
    <3>2. CASE owner # p
      BY <1>2, <2>1, <3>2 DEF Done, SeenEnvelope, PasswordKept
    <3>. QED
      BY <3>1, <3>2
  <2>. QED
    BY <1>1, <1>2, <2>1, <2>2, <2>3 DEF PasswordKept
\* A step that leaves the row alone.
<1>3. ASSUME NEW p \in Sessions, SessionStep(p), UNCHANGED <<envelope, told>>,
             raced => raced', pc'[p] # "idle" => SavesPassword(p)'
      PROVE  PasswordKept'
  BY <1>1, <1>3 DEF PasswordKept
<1>4. ASSUME NEW p \in Sessions, Begin(p) PROVE PasswordKept'
  <2>1. /\ pc'[p] \in {"flush", "read"} /\ owner' # p
        /\ pc'[p] = "flush" => Ask(p)'.kind = "write"
    <3>1. PICK ask \in Requests :
            /\ task' = [task EXCEPT ![p] = [ask |-> ask, at |-> clock]]
            /\ pc' = [pc EXCEPT ![p] = IF ask.kind = "write" THEN "flush" ELSE "read"]
      BY <1>4 DEF Begin, Goto
    <3>. QED
      BY <1>4, <3>1 DEF Begin, Ask, RInv, SInv, Types, Shape
  <2>2. SavesPassword(p)'
    BY <2>1 DEF SavesPassword
  <2>. QED
    BY <1>3, <1>4, <2>2 DEF Begin, SessionStep
<1>5. ASSUME NEW p \in Sessions, Read(p) PROVE PasswordKept'
  <2>1. CASE Done(p)
    BY <1>2, <1>5, <2>1 DEF SessionStep
  <2>2. CASE ~Done(p)
    <3>1. /\ pc'[p] \in {"create", "reload", "verify"} /\ owner' # p
          /\ UNCHANGED <<envelope, told, raced>>
      BY <1>5, <2>2 DEF Read, Goto, RInv, SInv, Types, Shape
    <3>. QED
      BY <1>3, <1>5, <3>1 DEF SessionStep, SavesPassword
  <2>. QED
    BY <2>1, <2>2
<1>6. ASSUME NEW p \in Sessions, Create(p) PROVE PasswordKept'
  <2>1. CASE envelope # None
    BY <1>2, <1>6, <2>1 DEF Create, SessionStep
  <2>2. CASE envelope = None
    <3>1. Ask(p).kind = "initialize"
      BY <1>6 DEF Create, RInv, SInv, Shape, OnTask
    <3>2. /\ draft' = Sealed(Ask(p).new, fresh, fresh + 1, fresh + 2)
          /\ pc'[p] = "commit" /\ task' = task /\ UNCHANGED <<envelope, told, raced>>
      BY <1>6, <2>2 DEF Create, Goto, RInv, SInv, Types
    <3>3. draft'.verifier.password = Ask(p).new
      BY <3>2 DEF Sealed
    <3>. QED
      BY <1>3, <1>6, <3>1, <3>2, <3>3 DEF SessionStep, SavesPassword, Ask
  <2>. QED
    BY <2>1, <2>2
<1>7. ASSUME NEW p \in Sessions, Unlock(p) PROVE PasswordKept'
  <2>1. pc'[p] = "commit" /\ owner' # p /\ UNCHANGED <<envelope, told, raced>>
    BY <1>7 DEF Unlock, Goto, RInv, SInv, Types, Shape
  <2>. QED
    BY <1>3, <1>7, <2>1 DEF SessionStep, SavesPassword
<1>8. ASSUME NEW p \in Sessions, VerifyCurrent(p) PROVE PasswordKept'
  <2>1. CASE Done(p)
    BY <1>2, <1>8, <2>1 DEF SessionStep
  <2>2. CASE ~Done(p)
    <3>1. pc'[p] = "reload" /\ owner' # p /\ UNCHANGED <<envelope, told, raced>>
      BY <1>8, <2>2 DEF VerifyCurrent, Goto, RInv, SInv, Types, Shape
    <3>. QED
      BY <1>3, <1>8, <3>1 DEF SessionStep, SavesPassword
  <2>. QED
    BY <2>1, <2>2
<1>9. ASSUME NEW p \in Sessions, Reload(p) PROVE PasswordKept'
  <2>1. /\ OnTask(p) /\ owner # p /\ rec[p] \in Envelope /\ envelope \in Envelope
        /\ SeenEnvelope(p) = envelope
    BY <1>9 DEF Reload, SeenEnvelope, RInv, SInv, Types, Shape, OnTask
  <2>2. /\ base'[p] = envelope /\ new'[p] = Updated(p) /\ pc'[p] = "flush"
        /\ UNCHANGED <<owner, task, envelope, told>> /\ (raced' <=> raced \/ envelope # rec[p])
    BY <1>9, <2>1 DEF Reload, Goto, RInv, SInv, Types
  <2>3. /\ Ask(p).kind = "change" =>
             Updated(p).verifier = [password |-> Ask(p).new, salt |-> fresh]
        /\ Ask(p).kind = "replace" => Updated(p).verifier = rec[p].verifier
    BY <1>9, UpdatedRecord DEF Reload, RInv
  <2>4. envelope.verifier.salt < fresh /\ envelope.verifier.salt \in Nat /\ fresh \in Nat
    BY <2>1, RecordFields DEF RInv, SInv, Types, RecordsAgree, Held, Opened
  <2>5. Ask(p).kind = "change" => new'[p].verifier # base'[p].verifier
    BY <2>2, <2>3, <2>4
  <2>6. SavesPassword(p)'
    BY <2>1, <2>2, <2>3, <2>5 DEF SavesPassword, Ask
  <2>. QED
    BY <1>3, <1>9, <2>2, <2>6 DEF SessionStep
<1>10. ASSUME NEW p \in Sessions, Flush(p) PROVE PasswordKept'
  <2>1. /\ new[p] \in Envelope /\ base[p] \in Envelope /\ envelope \in Envelope
        /\ Ask(p).kind \in {"change", "replace"} /\ SavesPassword(p) /\ pc[p] = "flush"
    BY <1>10 DEF Flush, RInv, SInv, Types, Shape, OnTask, PasswordKept
  <2>2. draft'.verifier = IF new[p].verifier # base[p].verifier THEN new[p].verifier
                          ELSE envelope.verifier
    BY <1>10, <2>1, FlushedRow DEF Flush, RInv
  <2>3. pc'[p] = "commit" /\ UNCHANGED <<task, envelope, told, raced>>
    BY <1>10 DEF Flush, Goto, RInv, SInv, Types
  <2>4. SavesPassword(p)'
    BY <2>1, <2>2, <2>3 DEF SavesPassword, Ask
  <2>. QED
    BY <1>3, <1>10, <2>3, <2>4 DEF SessionStep
<1>11. ASSUME NEW p \in Sessions, Store(p) \/ Finish(p) PROVE PasswordKept'
  BY <1>2, <1>11 DEF Store, Finish, SessionStep
<1>12. ASSUME NEW p \in Sessions, Fail(p) PROVE PasswordKept'
  <2>1. pc'[p] = "idle" /\ UNCHANGED <<envelope, told, raced>>
    BY <1>12 DEF Fail, Raise, EndSession, Goto, RInv, SInv, Types
  <2>. QED
    BY <1>3, <1>12, <2>1 DEF SessionStep
<1>13. CASE Restart
  BY <1>13 DEF Restart, PasswordKept
<1>14. CASE Tick \/ UNCHANGED vars
  BY <1>14 DEF Tick, vars, PasswordKept, SavesPassword, Ask
<1>. QED
  BY <1>4, <1>5, <1>6, <1>7, <1>8, <1>9, <1>10, <1>11, <1>12, <1>13, <1>14 DEF Next

\* The password set last opens the envelope, unless the row changed between the
\* two SELECTs of a save.
THEOREM UnracedPasswordSticksAlways == Spec => []UnracedPasswordSticks
<1>1. Init => PasswordInv
  BY RInvInit DEF Init, PasswordInv, PasswordKept
<1>2. PasswordInv /\ [Next]_vars => PasswordInv'
  BY RInvNext, PasswordKeptNext DEF PasswordInv
<1>3. PasswordInv => UnracedPasswordSticks
  BY DEF PasswordInv, PasswordKept, UnracedPasswordSticks
<1>. QED
  BY <1>1, <1>2, <1>3, PTL DEF Spec

\* One session at a time: what it saves over is what it read.
Serial == \A p, q \in Sessions : p = q

ReadStays ==
  /\ raced = FALSE
  /\ \A p \in Sessions : pc[p] \in {"verify", "reload"} => rec[p] = envelope

LEMMA ReadStaysNext ==
  ASSUME Serial, SInv, ReadStays, [Next]_vars
  PROVE  ReadStays'
<1>. USE DEF historyVars, sessionVars
\* The only session ends, or it goes on after a step that leaves the row alone.
<1>1. ASSUME NEW p \in Sessions, pc'[p] \notin {"verify", "reload"}, raced' = raced
      PROVE  ReadStays'
  <2>1. \A q \in Sessions : q = p
    BY DEF Serial
  <2>. QED
    BY <1>1, <2>1 DEF ReadStays
<1>2. ASSUME NEW p \in Sessions, Done(p) \/ Raise(p) PROVE ReadStays'
  <2>1. pc'[p] = "idle" /\ raced' = raced
    BY <1>2 DEF Done, Raise, EndSession, Goto, SInv, Types
  <2>. QED
    BY <1>1, <2>1
<1>3. ASSUME NEW p \in Sessions, Begin(p) PROVE ReadStays'
  <2>1. pc'[p] \in {"flush", "read"} /\ raced' = raced
    BY <1>3 DEF Begin, Goto, SInv, Types
  <2>. QED
    BY <1>1, <2>1
<1>4. ASSUME NEW p \in Sessions, Read(p), ~Done(p) PROVE ReadStays'
  <2>1. owner # p /\ SeenEnvelope(p) = envelope
    BY <1>4 DEF Read, SeenEnvelope, SInv, Shape
  <2>2. rec' = [rec EXCEPT ![p] = envelope] /\ envelope' = envelope /\ raced' = raced
    BY <1>4, <2>1 DEF Read
  <2>3. \A q \in Sessions : q = p
    BY DEF Serial
  <2>. QED
    BY <2>2, <2>3 DEF ReadStays, SInv, Types
<1>5. ASSUME NEW p \in Sessions, Create(p) \/ Unlock(p) \/ Flush(p), ~Done(p) PROVE ReadStays'
  <2>1. pc'[p] = "commit" /\ raced' = raced
    BY <1>5 DEF Create, Unlock, Flush, Goto, SInv, Types
  <2>. QED
    BY <1>1, <2>1
<1>6. ASSUME NEW p \in Sessions, VerifyCurrent(p), ~Done(p) PROVE ReadStays'
  <2>1. pc[p] = "verify" /\ UNCHANGED <<rec, envelope, raced>>
    BY <1>6 DEF VerifyCurrent
  <2>2. \A q \in Sessions : q = p
    BY DEF Serial
  <2>. QED
    BY <2>1, <2>2 DEF ReadStays
<1>7. ASSUME NEW p \in Sessions, Reload(p) PROVE ReadStays'
  <2>1. pc[p] = "reload" /\ owner # p
    BY <1>7 DEF Reload, SInv, Shape
  <2>2. SeenEnvelope(p) = rec[p]
    BY <2>1 DEF ReadStays, SeenEnvelope
  <2>3. raced' = FALSE /\ pc'[p] = "flush"
    BY <1>7, <2>2 DEF Reload, Goto, ReadStays, SInv, Types
  <2>. QED
    BY <1>1, <2>3 DEF ReadStays
<1>8. CASE Restart
  BY <1>8 DEF Restart, ReadStays
<1>9. CASE Tick \/ UNCHANGED vars
  BY <1>9 DEF Tick, vars, ReadStays
<1>. QED
  BY <1>2, <1>3, <1>4, <1>5, <1>6, <1>7, <1>8, <1>9 DEF Next, Store, Finish, Fail

\* With one session at a time nothing is saved over a change it has not seen: the
\* password set last opens the envelope, with no proviso.
THEOREM SerialPasswordSticks ==
  ASSUME Serial
  PROVE  Spec => []PasswordSticks
<1>1. Init => SInv /\ ReadStays
  BY SInvInit DEF Init, ReadStays
<1>2. SInv /\ ReadStays /\ [Next]_vars => (SInv /\ ReadStays)'
  BY SInvNext, ReadStaysNext
<1>3. ReadStays /\ UnracedPasswordSticks => PasswordSticks
  BY DEF ReadStays, UnracedPasswordSticks, PasswordSticks
<1>. QED
  BY <1>1, <1>2, <1>3, UnracedPasswordSticksAlways, PTL DEF Spec

-----------------------------------------------------------------------------
(* The lockout.                                                            *)

ThrottleInv ==
  /\ clock \in Nat /\ task \in [Sessions -> Tasks \cup {None}]
  /\ \A p \in Sessions : task[p] # None => task[p].at <= clock
  /\ \A p \in Sessions : pc[p] # "idle" => task[p] # None
  /\ throttle \in [failed : Nat, nextAt : Nat \cup {None}]
  /\ throttle.failed = 0 <=> throttle.nextAt = None
  /\ LockoutBounded

\* A failure is answered with a delay of at most MaxThrottle.
LEMMA DelayBounded ==
  ASSUME NEW n \in Nat \ {0}
  PROVE  /\ Min({2 ^ (n - 1), MaxThrottle} \cap Nat) \in Nat
         /\ Min({2 ^ (n - 1), MaxThrottle} \cap Nat) <= MaxThrottle
<1>. DEFINE S == {2 ^ (n - 1), MaxThrottle} \cap Nat
<1>1. MaxThrottle \in S /\ S \subseteq Nat
  BY SetupAssumption DEF SetupAssumption
<1>2. \E x \in S : \A y \in S : x <= y
  <2>1. CASE 2 ^ (n - 1) \in Nat
    <3>1. S = {2 ^ (n - 1), MaxThrottle} /\ MaxThrottle \in Nat
      BY <1>1, <2>1
    <3>. HIDE DEF S
    <3>2. \A a, b \in Nat : \E x \in {a, b} : \A y \in {a, b} : x <= y
      OBVIOUS
    <3>. QED
      BY <2>1, <3>1, <3>2
  <2>2. CASE 2 ^ (n - 1) \notin Nat
    <3>1. S = {MaxThrottle}
      BY <1>1, <2>2
    <3>. HIDE DEF S
    <3>. QED
      BY <1>1, <3>1
  <2>. QED
    BY <2>1, <2>2
<1>. HIDE DEF S
<1>3. Min(S) \in S /\ \A y \in S : Min(S) <= y
  BY <1>2 DEF Min
<1>. QED
  BY <1>1, <1>3 DEF S

\* The throttle counts failures, and its time is never far.
LEMMA ThrottleInvAlways == Spec => [](SInv /\ ThrottleInv)
<1>. USE SetupAssumption DEF SetupAssumption, sessionVars, historyVars
<1>1. Init => ThrottleInv
  BY DEF Init, ThrottleInv, LockoutBounded
<1>2. ASSUME SInv, ThrottleInv, [Next]_vars PROVE ThrottleInv'
  <2>1. clock' \in Nat /\ clock <= clock' /\ task' \in [Sessions -> Tasks \cup {None}]
    BY <1>2, TypesNext DEF Types, Next, vars, Begin, Read, Create, Unlock, VerifyCurrent, Reload,
       Flush, Store, Finish, Fail, Restart, Tick, SInv
  <2>2. \A p \in Sessions : pc'[p] # "idle" => task'[p] # None
    BY <1>2, ShapeNext DEF Shape, OnTask
  <2>3. \A p \in Sessions : task'[p] # None => task'[p].at <= clock'
    <3>1. \A p \in Sessions : task'[p] # None => task'[p] = task[p] \/ task'[p].at = clock
      <4>1. ASSUME NEW p \in Sessions, SessionStep(p), NEW q \in Sessions, task'[q] # None
            PROVE  task'[q] = task[q] \/ task'[q].at = clock
        BY <1>2, <4>1
        DEF ThrottleInv, SessionStep, Begin, Read, Create, Unlock, VerifyCurrent, Reload, Flush,
            Store, Finish, Fail, Done, Raise, EndSession
      <4>2. CASE Restart \/ Tick \/ UNCHANGED vars
        BY <4>2 DEF Restart, Tick, vars
      <4>. QED
        BY <1>2, <4>1, <4>2 DEF Next, SessionStep
    <3>. QED
      BY <1>2, <2>1, <3>1 DEF ThrottleInv, Tasks
  <2>4. /\ throttle' \in [failed : Nat, nextAt : Nat \cup {None}]
        /\ throttle'.failed = 0 <=> throttle'.nextAt = None
        /\ throttle'.nextAt # None => throttle'.nextAt <= clock' + MaxThrottle
    <3>1. CASE throttle' = throttle
      BY <1>2, <2>1, <3>1 DEF ThrottleInv, LockoutBounded
    <3>2. CASE throttle' = Unthrottled
      BY <3>2 DEF Unthrottled
    <3>3. ASSUME NEW p \in Sessions, pc[p] = "verify", throttle' = Failed(task[p].at)
          PROVE  /\ throttle' \in [failed : Nat, nextAt : Nat \cup {None}]
                 /\ throttle'.failed # 0 /\ throttle'.nextAt # None
                 /\ throttle'.nextAt <= clock' + MaxThrottle
      <4>1. task[p].at \in Nat /\ task[p].at <= clock /\ throttle.failed + 1 \in Nat \ {0}
        BY <1>2, <3>3 DEF ThrottleInv, Tasks
      <4>. DEFINE n == throttle.failed + 1
                  delay == Min({2 ^ (n - 1), MaxThrottle} \cap Nat)
      <4>2. throttle' = [failed |-> n, nextAt |-> task[p].at + delay]
        BY <3>3 DEF Failed
      <4>3. delay \in Nat /\ delay <= MaxThrottle
        BY <4>1, DelayBounded
      <4>. HIDE DEF delay
      <4>4. n \in Nat /\ n # 0 /\ task[p].at + delay \in Nat
        BY <4>1, <4>3
      <4>5. task[p].at + delay <= clock' + MaxThrottle
        BY <2>1, <1>2, <4>1, <4>3 DEF ThrottleInv
      <4>. HIDE DEF n
      <4>. QED
        BY <4>2, <4>4, <4>5
    <3>. QED
      BY <1>2, <3>1, <3>2, <3>3 DEF Next, vars, Begin, Read, Create, Unlock, VerifyCurrent,
         Reload, Flush, Store, Finish, Fail, Restart, Tick
  <2>. QED
    BY <2>1, <2>2, <2>3, <2>4 DEF ThrottleInv, LockoutBounded
<1>. QED
  BY SInvInit, SInvNext, <1>1, <1>2, PTL DEF Spec

\* However many attempts fail, the owner never waits longer than MaxThrottle.
THEOREM LockoutBoundedAlways == Spec => []LockoutBounded
<1>1. SInv /\ ThrottleInv => LockoutBounded
  BY DEF ThrottleInv
<1>. QED
  BY <1>1, ThrottleInvAlways, PTL

History == told \in Passwords \cup {None} /\ raced \in BOOLEAN /\ orphaned \in BOOLEAN

\* The history of the passwords set and of the races.
LEMMA HistoryNext == SInv /\ History /\ [Next]_vars => History'
<1>. SUFFICES ASSUME SInv, History, [Next]_vars PROVE History'
  OBVIOUS
<1>. USE DEF History, historyVars
<1>1. ASSUME NEW p \in Sessions, Done(p), pc[p] # "idle" PROVE History'
  <2>1. owner = p => task[p] \in Tasks /\ Ask(p) \in Requests
    BY <1>1 DEF SInv, Types, Shape, OnTask, Ask, Tasks
  <2>2. owner = p /\ Ask(p).kind \in {"initialize", "change"} => Ask(p).new \in Passwords
    BY <2>1, RequestFields
  <2>. QED
    BY <1>1, <2>2 DEF Done
<1>2. ASSUME NEW p \in Sessions, Raise(p) PROVE History'
  BY <1>2 DEF Raise
<1>3. ASSUME NEW p \in Sessions,
             Read(p) \/ Create(p) \/ VerifyCurrent(p) \/ Store(p) \/ Finish(p)
      PROVE  History'
  <2>1. pc[p] # "idle" /\ (Done(p) \/ UNCHANGED historyVars)
    BY <1>3 DEF Read, Create, VerifyCurrent, Store, Finish
  <2>. QED
    BY <1>1, <2>1
<1>4. ASSUME NEW p \in Sessions, Begin(p) \/ Unlock(p) \/ Flush(p) PROVE History'
  BY <1>4 DEF Begin, Unlock, Flush
<1>5. ASSUME NEW p \in Sessions, Reload(p) PROVE History'
  BY <1>5 DEF Reload
<1>6. ASSUME NEW p \in Sessions, Fail(p) PROVE History'
  BY <1>2, <1>6 DEF Fail
<1>7. CASE Restart
  BY <1>7 DEF Restart
<1>8. CASE Tick \/ UNCHANGED vars
  BY <1>8 DEF Tick, vars
<1>. QED
  BY <1>3, <1>4, <1>5, <1>6, <1>7, <1>8 DEF Next

\* Keys, records and times keep their types, and the throttle runs exactly while
\* failures count.
THEOREM TypeCorrect == Spec => []TypeOK
<1>1. Init => History
  BY DEF Init, History
<1>2. SInv /\ ThrottleInv /\ History => TypeOK
  BY DEF SInv, Types, ThrottleInv, History, TypeOK
<1>. QED
  BY <1>1, <1>2, HistoryNext, ThrottleInvAlways, PTL DEF Spec
=============================================================================
