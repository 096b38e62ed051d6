------------------------ MODULE ClaimProtocol_proofs ------------------------
(***************************************************************************)
(* For any number of scheduler processes and topics, any lease duration    *)
(* and any order of their statements: two processes never both work on a   *)
(* topic under running leases.  The inductive invariant IInv adds what an  *)
(* open claim transaction knows about the rows it is about to lease.       *)
(***************************************************************************)
EXTENDS ClaimProtocol, TLAPS

\* Only a process in its claim transaction has locks to its name, and only a
\* process with claimed topics works.
LocksHeld ==
  \A s \in Schedulers :
    /\ \A t \in claimed[s] \cup repaired[s] : advisory[t] = s
    /\ pc[s] # "locking" => claimed[s] \cup repaired[s] = {}
    /\ pc[s] # "work" => hold[s] = {}

\* The cycle's time lies in the past, and the rows an open claim is about to
\* write are still free of any lease running at that time.
OpenClaimsFree ==
  \A s \in Schedulers :
    /\ now[s] <= clock
    /\ \A t \in claimed[s] \cup repaired[s] : Unleased(t, now[s])

IInv ==
  /\ TypeOK
  /\ LocksHeld
  /\ OpenClaimsFree
  /\ LiveHolderIsLeased
  /\ OneLiveHolder

-----------------------------------------------------------------------------
\* Every step keeps the variables in their types.
LEMMA TypeStep == TypeOK /\ [Next]_vars => TypeOK'
<1> SUFFICES ASSUME TypeOK, [Next]_vars PROVE TypeOK'
  OBVIOUS
<1> USE ClaimAssumption DEF TypeOK, Instant, Time
<1>1. ASSUME NEW s \in Schedulers, BeginCycle(s) PROVE TypeOK'
  BY <1>1 DEF BeginCycle, rowVars, txnVars
<1>2. ASSUME NEW s \in Schedulers, CheckGates(s) PROVE TypeOK'
  BY <1>2 DEF CheckGates, rowVars, txnVars
<1>3. ASSUME NEW s \in Schedulers, SelectCandidates(s) PROVE TypeOK'
  BY <1>3 DEF SelectCandidates, Candidates, rowVars
<1>4. ASSUME NEW s \in Schedulers, NEW t \in Topics, TryLock(s, t) PROVE TypeOK'
  BY <1>4 DEF TryLock, rowVars
<1>5. ASSUME NEW s \in Schedulers, NEW t \in Topics, Recheck(s, t) PROVE TypeOK'
  BY <1>5 DEF Recheck, rowVars
<1>6. ASSUME NEW s \in Schedulers, CommitClaim(s) PROVE TypeOK'
  BY <1>6 DEF CommitClaim, EndTxn
<1>7. ASSUME NEW s \in Schedulers, ClaimFails(s) PROVE TypeOK'
  BY <1>7 DEF ClaimFails, EndTxn, rowVars
<1>8. ASSUME NEW s \in Schedulers, NEW t \in Topics, PersistResult(s, t) PROVE TypeOK'
  BY <1>8 DEF PersistResult, DropLeases, txnVars
<1>9. ASSUME NEW s \in Schedulers, ReleaseLeases(s) PROVE TypeOK'
  BY <1>9 DEF ReleaseLeases, DropLeases, txnVars
<1>10. ASSUME NEW s \in Schedulers, AbandonCycle(s) PROVE TypeOK'
  BY <1>10 DEF AbandonCycle, EndTxn, rowVars
<1>11. ASSUME NEW t \in Topics, EditTopic(t) PROVE TypeOK'
  BY <1>11 DEF EditTopic, UserStep, txnVars
<1>12. ASSUME NEW t \in Topics, RemoveTopic(t) PROVE TypeOK'
  BY <1>12 DEF RemoveTopic, UserStep, txnVars
<1>13. CASE SetGates
  BY <1>13 DEF SetGates, UserStep, rowVars, txnVars
<1>14. CASE Tick
  BY <1>14 DEF Tick, rowVars, txnVars
<1>15. CASE UNCHANGED vars
  BY <1>15 DEF vars, rowVars, txnVars
<1> QED
  BY <1>1, <1>2, <1>3, <1>4, <1>5, <1>6, <1>7, <1>8, <1>9, <1>10, <1>11,
     <1>12, <1>13, <1>14, <1>15 DEF Next, ClaimStep

LEMMA InitTypeOK == Init => TypeOK
<1> SUFFICES ASSUME Init PROVE TypeOK
  OBVIOUS
<1>1. due \in [Topics -> Instant]
  BY ClaimAssumption DEF Init, Instant
<1>2. advisory \in [Topics -> Schedulers \cup {None}]
  BY DEF Init
<1>3. QED
  BY <1>1, <1>2 DEF Init, TypeOK, Instant

\* TypeOK, for every value of the constants.
THEOREM TypeCorrect == Spec => []TypeOK
  BY InitTypeOK, TypeStep, PTL DEF Spec

-----------------------------------------------------------------------------
\* The bookkeeping of locks and holds: nobody else's advisory lock covers a
\* row that an open claim is going to write.
LEMMA LocksHeldStep == IInv /\ [Next]_vars => LocksHeld'
<1> SUFFICES ASSUME IInv, [Next]_vars PROVE LocksHeld'
  OBVIOUS
<1> USE DEF IInv, TypeOK, LocksHeld
<1>1. ASSUME NEW s \in Schedulers, BeginCycle(s) PROVE LocksHeld'
  BY <1>1 DEF BeginCycle, txnVars
<1>2. ASSUME NEW s \in Schedulers, CheckGates(s) PROVE LocksHeld'
  BY <1>2 DEF CheckGates, txnVars
<1>3. ASSUME NEW s \in Schedulers, SelectCandidates(s) PROVE LocksHeld'
  BY <1>3 DEF SelectCandidates
<1>4. ASSUME NEW s \in Schedulers, NEW t \in Topics, TryLock(s, t) PROVE LocksHeld'
  <2>1. \A r \in Schedulers : \A u \in claimed[r] \cup repaired[r] : advisory[u] # None
    BY ClaimAssumption
  <2>2. QED
    BY <1>4, <2>1 DEF TryLock
<1>5. ASSUME NEW s \in Schedulers, NEW t \in Topics, Recheck(s, t) PROVE LocksHeld'
  BY <1>5 DEF Recheck
<1>6. ASSUME NEW s \in Schedulers, CommitClaim(s) PROVE LocksHeld'
  BY <1>6 DEF CommitClaim, EndTxn
<1>7. ASSUME NEW s \in Schedulers, ClaimFails(s) PROVE LocksHeld'
  BY <1>7 DEF ClaimFails, EndTxn
<1>8. ASSUME NEW s \in Schedulers, NEW t \in Topics, PersistResult(s, t) PROVE LocksHeld'
  BY <1>8 DEF PersistResult, DropLeases, txnVars
<1>9. ASSUME NEW s \in Schedulers, ReleaseLeases(s) PROVE LocksHeld'
  BY <1>9 DEF ReleaseLeases, DropLeases, txnVars
<1>10. ASSUME NEW s \in Schedulers, AbandonCycle(s) PROVE LocksHeld'
  BY <1>10 DEF AbandonCycle, EndTxn
<1>11. ASSUME NEW t \in Topics, EditTopic(t) PROVE LocksHeld'
  BY <1>11 DEF EditTopic, txnVars
<1>12. ASSUME NEW t \in Topics, RemoveTopic(t) PROVE LocksHeld'
  BY <1>12 DEF RemoveTopic, txnVars
<1>13. CASE SetGates
  BY <1>13 DEF SetGates, txnVars
<1>14. CASE Tick
  BY <1>14 DEF Tick, txnVars
<1>15. CASE UNCHANGED vars
  BY <1>15 DEF vars, txnVars
<1> QED
  BY <1>1, <1>2, <1>3, <1>4, <1>5, <1>6, <1>7, <1>8, <1>9, <1>10, <1>11,
     <1>12, <1>13, <1>14, <1>15 DEF Next, ClaimStep

\* An advisory lock has one owner, so no two open claims share a row.
LEMMA LocksExclude == ClaimAssumption /\ TypeOK /\ LocksHeld => OpenClaimsDisjoint
  BY DEF LocksHeld, OpenClaimsDisjoint, TypeOK

\* A row that an open claim is going to write stays free: only a claim gives
\* out leases, and it has the row's advisory lock.
LEMMA OpenClaimsFreeStep == IInv /\ [Next]_vars => OpenClaimsFree'
<1> SUFFICES ASSUME IInv, [Next]_vars PROVE OpenClaimsFree'
  OBVIOUS
<1>0. OpenClaimsDisjoint
  BY ClaimAssumption, LocksExclude DEF IInv
<1> USE ClaimAssumption DEF IInv, TypeOK, Instant, OpenClaimsFree, Unleased
<1>1. ASSUME NEW s \in Schedulers, BeginCycle(s) PROVE OpenClaimsFree'
  BY <1>1 DEF BeginCycle, LocksHeld, txnVars, rowVars
<1>2. ASSUME NEW s \in Schedulers, CheckGates(s) PROVE OpenClaimsFree'
  BY <1>2 DEF CheckGates, txnVars, rowVars
<1>3. ASSUME NEW s \in Schedulers, SelectCandidates(s) PROVE OpenClaimsFree'
  BY <1>3 DEF SelectCandidates, rowVars
<1>4. ASSUME NEW s \in Schedulers, NEW t \in Topics, TryLock(s, t) PROVE OpenClaimsFree'
  BY <1>4 DEF TryLock, rowVars
<1>5. ASSUME NEW s \in Schedulers, NEW t \in Topics, Recheck(s, t) PROVE OpenClaimsFree'
  BY <1>5 DEF Recheck, Claimable, rowVars
<1>6. ASSUME NEW s \in Schedulers, CommitClaim(s) PROVE OpenClaimsFree'
  <2> SUFFICES ASSUME NEW r \in Schedulers, NEW t \in claimed'[r] \cup repaired'[r]
               PROVE  (lease[t] = None \/ lease[t] <= now[r])'
    BY <1>6 DEF CommitClaim
  <2>1. r # s /\ t \in claimed[r] \cup repaired[r]
    BY <1>6 DEF CommitClaim, EndTxn
  <2>2. t \notin claimed[s] \cup repaired[s]
    BY <1>0, <2>1 DEF OpenClaimsDisjoint
  <2>3. QED
    BY <1>6, <2>1, <2>2 DEF CommitClaim
<1>7. ASSUME NEW s \in Schedulers, ClaimFails(s) PROVE OpenClaimsFree'
  BY <1>7 DEF ClaimFails, EndTxn, rowVars
<1>8. ASSUME NEW s \in Schedulers, NEW t \in Topics, PersistResult(s, t)
      PROVE OpenClaimsFree'
  BY <1>8 DEF PersistResult, DropLeases, txnVars
<1>9. ASSUME NEW s \in Schedulers, ReleaseLeases(s) PROVE OpenClaimsFree'
  BY <1>9 DEF ReleaseLeases, DropLeases, txnVars
<1>10. ASSUME NEW s \in Schedulers, AbandonCycle(s) PROVE OpenClaimsFree'
  BY <1>10 DEF AbandonCycle, EndTxn, rowVars
<1>11. ASSUME NEW t \in Topics, EditTopic(t) PROVE OpenClaimsFree'
  BY <1>11 DEF EditTopic, txnVars
<1>12. ASSUME NEW t \in Topics, RemoveTopic(t) PROVE OpenClaimsFree'
  BY <1>12 DEF RemoveTopic, txnVars
<1>13. CASE SetGates
  BY <1>13 DEF SetGates, rowVars, txnVars
<1>14. CASE Tick
  BY <1>14 DEF Tick, rowVars, txnVars
<1>15. CASE UNCHANGED vars
  BY <1>15 DEF vars, rowVars, txnVars
<1> QED
  BY <1>1, <1>2, <1>3, <1>4, <1>5, <1>6, <1>7, <1>8, <1>9, <1>10, <1>11,
     <1>12, <1>13, <1>14, <1>15 DEF Next, ClaimStep

-----------------------------------------------------------------------------
\* The heart of the argument.  A live holder's topic shows a lease at least
\* as long as its own, so no claim can find the row free before that lease
\* runs out; and a lease is cleared by its only live holder, or late.
LEMMA ExclusionStep ==
  IInv /\ [Next]_vars => LiveHolderIsLeased' /\ OneLiveHolder'
<1> SUFFICES ASSUME IInv, [Next]_vars
             PROVE  LiveHolderIsLeased' /\ OneLiveHolder'
  OBVIOUS
<1> USE ClaimAssumption
    DEF IInv, TypeOK, Instant, LiveHolderIsLeased, OneLiveHolder, Deadline
<1>0. \A s \in Schedulers : now[s] \in Nat /\ now[s] <= clock
  BY DEF OpenClaimsFree
<1>1. ASSUME NEW s \in Schedulers, BeginCycle(s)
      PROVE  LiveHolderIsLeased' /\ OneLiveHolder'
  BY <1>1 DEF BeginCycle, LocksHeld, rowVars
<1>2. ASSUME NEW s \in Schedulers, CheckGates(s)
      PROVE  LiveHolderIsLeased' /\ OneLiveHolder'
  BY <1>2 DEF CheckGates, rowVars
<1>3. ASSUME NEW s \in Schedulers, SelectCandidates(s)
      PROVE  LiveHolderIsLeased' /\ OneLiveHolder'
  BY <1>3 DEF SelectCandidates, rowVars
<1>4. ASSUME NEW s \in Schedulers, NEW t \in Topics, TryLock(s, t)
      PROVE  LiveHolderIsLeased' /\ OneLiveHolder'
  BY <1>4 DEF TryLock, rowVars
<1>5. ASSUME NEW s \in Schedulers, NEW t \in Topics, Recheck(s, t)
      PROVE  LiveHolderIsLeased' /\ OneLiveHolder'
  BY <1>5 DEF Recheck, rowVars
<1>6. ASSUME NEW s \in Schedulers, CommitClaim(s)
      PROVE  LiveHolderIsLeased' /\ OneLiveHolder'
  <2>1. hold[s] = {} /\ hold' = [hold EXCEPT ![s] = claimed[s]]
    BY <1>6 DEF CommitClaim, LocksHeld
  <2>2. ASSUME NEW r \in Schedulers, r # s, NEW t \in hold[r] \ late, t \in present,
               clock < Deadline(r)
        PROVE  t \notin claimed[s] \cup repaired[s]
    <3>1. lease[t] # None /\ lease[t] >= Deadline(r)
      BY <2>2
    <3>2. ~ Unleased(t, now[s])
      BY <1>0, <2>2, <3>1 DEF Unleased
    <3>3. QED
      BY <3>2 DEF OpenClaimsFree
  <2>3. LiveHolderIsLeased'
    <3> SUFFICES ASSUME NEW r \in Schedulers, NEW t \in (hold'[r] \cap present) \ late,
                        clock < Deadline(r)
                 PROVE  lease'[t] # None /\ lease'[t] >= Deadline(r)
      BY <1>6 DEF CommitClaim
    <3>1. CASE r = s
      BY <1>0, <1>6, <2>1, <3>1 DEF CommitClaim
    <3>2. CASE r # s
      <4>1. t \in hold[r] /\ t \notin claimed[s] \cup repaired[s]
        BY <2>1, <2>2, <3>2
      <4>2. lease'[t] = lease[t]
        BY <1>6, <4>1 DEF CommitClaim
      <4>3. QED
        BY <4>1, <4>2
    <3>3. QED
      BY <3>1, <3>2
  <2>4. OneLiveHolder'
    <3> SUFFICES ASSUME NEW t \in Topics \ late, NEW r \in Schedulers,
                        t \in hold'[r], t \in hold'[s], r # s
                 PROVE  clock >= Deadline(r) \/ clock >= Deadline(s)
      BY <1>6, <2>1 DEF CommitClaim
    <3>1. t \in claimed[s] /\ t \in present /\ t \in hold[r]
      BY <1>6, <2>1 DEF CommitClaim
    <3>2. QED
      BY <1>0, <2>2, <3>1
  <2>5. QED
    BY <2>3, <2>4
<1>7. ASSUME NEW s \in Schedulers, ClaimFails(s)
      PROVE  LiveHolderIsLeased' /\ OneLiveHolder'
  BY <1>7 DEF ClaimFails, rowVars
<1>8. ASSUME NEW s \in Schedulers, NEW T \in SUBSET hold[s], DropLeases(s, T),
             UNCHANGED <<clock, present, now>>
      PROVE  LiveHolderIsLeased' /\ OneLiveHolder'
  <2>1. \A r \in Schedulers : hold'[r] \subseteq hold[r]
    BY <1>8 DEF DropLeases
  <2>2. late \subseteq late'
    BY <1>8 DEF DropLeases
  <2>3. OneLiveHolder'
    BY <1>8, <2>1, <2>2
  <2>4. ASSUME NEW r \in Schedulers, NEW t \in (hold'[r] \cap present) \ late',
               clock < Deadline(r)
        PROVE  lease'[t] # None /\ lease'[t] >= Deadline(r)
    <3>1. t \in hold[r] /\ t \notin late
      BY <2>1, <2>2, <2>4
    <3>2. t \notin T
      <4>1. CASE r = s
        BY <1>8, <2>4, <4>1 DEF DropLeases
      <4>2. CASE r # s
        <5> SUFFICES ASSUME t \in T PROVE FALSE
          OBVIOUS
        <5>1. ~(clock >= now[s] + Lease)
          BY <1>8, <2>4 DEF DropLeases
        <5>2. QED
          BY <1>0, <2>4, <3>1, <4>2, <5>1
      <4>3. QED
        BY <4>1, <4>2
    <3>3. lease'[t] = lease[t]
      BY <1>8, <3>2 DEF DropLeases
    <3>4. QED
      BY <2>4, <3>1, <3>3
  <2>5. LiveHolderIsLeased'
    BY <1>8, <2>4
  <2>6. QED
    BY <2>3, <2>5
<1>9. ASSUME NEW s \in Schedulers, NEW t \in Topics, PersistResult(s, t)
      PROVE  LiveHolderIsLeased' /\ OneLiveHolder'
  BY <1>8, <1>9 DEF PersistResult
<1>10. ASSUME NEW s \in Schedulers, ReleaseLeases(s)
       PROVE  LiveHolderIsLeased' /\ OneLiveHolder'
  BY <1>8, <1>10 DEF ReleaseLeases
<1>11. ASSUME NEW s \in Schedulers, AbandonCycle(s)
       PROVE  LiveHolderIsLeased' /\ OneLiveHolder'
  BY <1>11 DEF AbandonCycle, rowVars
<1>12. ASSUME NEW t \in Topics, EditTopic(t)
       PROVE  LiveHolderIsLeased' /\ OneLiveHolder'
  BY <1>12 DEF EditTopic
<1>13. ASSUME NEW t \in Topics, RemoveTopic(t)
       PROVE  LiveHolderIsLeased' /\ OneLiveHolder'
  BY <1>13 DEF RemoveTopic
<1>14. CASE SetGates
  BY <1>14 DEF SetGates, rowVars
<1>15. CASE Tick
  BY <1>0, <1>15 DEF Tick, rowVars
<1>16. CASE UNCHANGED vars
  BY <1>16 DEF vars, rowVars
<1> QED
  BY <1>1, <1>2, <1>3, <1>4, <1>5, <1>6, <1>7, <1>9, <1>10, <1>11, <1>12,
     <1>13, <1>14, <1>15, <1>16 DEF Next, ClaimStep

-----------------------------------------------------------------------------
LEMMA Invariance == Spec => []IInv
<1>1. Init => IInv
  <2> SUFFICES ASSUME Init PROVE IInv
    OBVIOUS
  <2>1. TypeOK
    BY InitTypeOK
  <2>2. QED
    BY <2>1, ClaimAssumption
    DEF Init, IInv, LocksHeld, OpenClaimsFree, LiveHolderIsLeased, OneLiveHolder
<1>2. IInv /\ [Next]_vars => IInv'
  BY TypeStep, LocksHeldStep, OpenClaimsFreeStep, ExclusionStep DEF IInv
<1>3. QED
  BY <1>1, <1>2, PTL DEF Spec

\* OneLiveHolder: no two processes work on one topic under running leases.
THEOREM OneLiveHolderAlways == Spec => []OneLiveHolder
<1>1. IInv => OneLiveHolder
  BY DEF IInv
<1>2. QED
  BY <1>1, Invariance, PTL

\* LiveHolderIsLeased: the row of a live holder's topic shows its lease.
THEOREM LiveHolderIsLeasedAlways == Spec => []LiveHolderIsLeased
<1>1. IInv => LiveHolderIsLeased
  BY DEF IInv
<1>2. QED
  BY <1>1, Invariance, PTL

\* OpenClaimsDisjoint: two open claims never write the same row.
THEOREM OpenClaimsDisjointAlways == Spec => []OpenClaimsDisjoint
<1>1. IInv => OpenClaimsDisjoint
  BY ClaimAssumption, LocksExclude DEF IInv
<1>2. QED
  BY <1>1, Invariance, PTL

-----------------------------------------------------------------------------
\* LeaseReplacedOnlyWhenFree: a running lease is never overwritten.
THEOREM LeaseReplacedOnlyWhenFreeAlways == Spec => LeaseReplacedOnlyWhenFree
<1> DEFINE Replaced == \A t \in Topics :
             lease'[t] # lease[t] /\ lease'[t] # None
               => lease[t] = None \/ lease[t] + Lease <= lease'[t]
<1>1. ASSUME IInv, [Next]_vars PROVE [Replaced]_vars
  <2> USE <1>1, ClaimAssumption DEF IInv, TypeOK, Instant
  <2>1. ASSUME NEW s \in Schedulers, CommitClaim(s) PROVE Replaced
    BY <2>1 DEF CommitClaim, OpenClaimsFree, Unleased
  <2>2. ASSUME NEW s \in Schedulers, NEW T \in SUBSET Topics, DropLeases(s, T)
        PROVE  Replaced
    BY <2>2 DEF DropLeases
  <2>3. CASE UNCHANGED lease
    BY <2>3
  <2>4. QED
    BY <2>1, <2>2, <2>3 DEF Next, ClaimStep, BeginCycle, CheckGates,
       SelectCandidates, TryLock, Recheck, ClaimFails, PersistResult,
       ReleaseLeases, AbandonCycle, EditTopic, RemoveTopic, SetGates, Tick,
       vars, rowVars
<1>2. QED
  BY <1>1, Invariance, PTL DEF Spec, LeaseReplacedOnlyWhenFree

-----------------------------------------------------------------------------
\* The claim transaction, spread over many statements and guarded only by
\* try-locks and a second look at the row, is an atomic claim of LeaseTable.
LEMMA RefinementStep == IInv /\ [Next]_vars => [Table!Next]_(Table!vars)
<1> SUFFICES ASSUME IInv, [Next]_vars
             PROVE  Table!Next \/ UNCHANGED Table!vars
  OBVIOUS
<1> USE ClaimAssumption DEF IInv, TypeOK
<1>1. ASSUME NEW s \in Schedulers, BeginCycle(s) PROVE Table!Next
  <2>1. Table!Begin(s)
    BY <1>1 DEF BeginCycle, Table!Begin, LocksHeld, rowVars
  <2>2. QED
    BY <2>1 DEF Table!Next
<1>2. ASSUME NEW s \in Schedulers, CommitClaim(s) PROVE Table!Next
  <2>1. \A t \in claimed[s] \cup repaired[s] : Table!FreeAt(t, now[s])
    BY DEF OpenClaimsFree, Unleased, Table!FreeAt
  <2>2. Table!Claim(s, claimed[s], repaired[s])
    BY <1>2, <2>1 DEF CommitClaim, Table!Claim, LocksHeld
  <2>3. QED
    BY <2>2 DEF Table!Next
<1>3. ASSUME NEW s \in Schedulers, NEW T \in SUBSET hold[s], DropLeases(s, T),
             UNCHANGED <<clock, now>>
      PROVE  Table!Next
  <2>1. Table!Finish(s, T, T \cap present)
    BY <1>3 DEF DropLeases, Table!Finish
  <2>2. T \in SUBSET Topics /\ T \cap present \in SUBSET Topics
    OBVIOUS
  <2>3. QED
    BY <2>1, <2>2 DEF Table!Next
<1>4. ASSUME NEW s \in Schedulers, NEW t \in Topics, PersistResult(s, t)
      PROVE  Table!Next
  BY <1>3, <1>4 DEF PersistResult
<1>5. ASSUME NEW s \in Schedulers, ReleaseLeases(s) PROVE Table!Next
  BY <1>3, <1>5 DEF ReleaseLeases
<1>6. ASSUME NEW s \in Schedulers, AbandonCycle(s) PROVE Table!Next
  <2>1. Table!Abandon(s)
    BY <1>6 DEF AbandonCycle, Table!Abandon, rowVars
  <2>2. QED
    BY <2>1 DEF Table!Next
<1>7. CASE Tick
  <2>1. Table!Tick
    BY <1>7 DEF Tick, Table!Tick, rowVars
  <2>2. QED
    BY <2>1 DEF Table!Next
<1>8. CASE UNCHANGED <<clock, now, lease, hold>>
  BY <1>8 DEF Table!vars
<1>9. QED
  BY <1>1, <1>2, <1>4, <1>5, <1>6, <1>7, <1>8
  DEF Next, ClaimStep, CheckGates, SelectCandidates, TryLock, Recheck,
      ClaimFails, EditTopic, RemoveTopic, SetGates, vars, rowVars

\* ImplementsLeaseTable: claim_due and clear_lease implement the lease table.
THEOREM Refinement == Spec => ImplementsLeaseTable
<1>1. Init => Table!Init
  BY DEF Init, Table!Init
<1>2. QED
  BY <1>1, RefinementStep, Invariance, PTL DEF Spec, ImplementsLeaseTable, Table!Spec
=============================================================================
