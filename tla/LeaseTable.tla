----------------------------- MODULE LeaseTable -----------------------------
(***************************************************************************)
(* What claiming due topics promises, without the transactions, advisory   *)
(* locks and statement order that implement it: a scheduler process takes  *)
(* a set of topics at once, and only topics whose lease is free at the     *)
(* instant its cycle began.  ClaimProtocol implements this specification.  *)
(***************************************************************************)
EXTENDS Naturals

CONSTANTS
  Schedulers,  \* processes that run the scheduler loop
  Topics,      \* topics.id
  Lease,       \* DEFAULT_LEASE_SECONDS
  None         \* SQL NULL

VARIABLES
  clock,  \* wall clock shared by the processes
  now,    \* now[s]: the instant scheduler s began its cycle
  lease,  \* committed topics.lease_until
  hold    \* hold[s]: topics s has claimed and not yet finished

vars == <<clock, now, lease, hold>>

FreeAt(t, n) == lease[t] = None \/ lease[t] <= n

Init ==
  /\ clock \in Nat
  /\ now = [s \in Schedulers |-> clock]
  /\ lease = [t \in Topics |-> None]
  /\ hold = [s \in Schedulers |-> {}]

\* A cycle begins with the current time.
Begin(s) ==
  /\ hold[s] = {}
  /\ now' = [now EXCEPT ![s] = clock]
  /\ UNCHANGED <<clock, lease, hold>>

\* Scheduler s takes the topics in T; rows of R that turned out not to be
\* claimable lose their stale lease.
Claim(s, T, R) ==
  /\ hold[s] = {}
  /\ \A t \in T \cup R : FreeAt(t, now[s])
  /\ lease' = [t \in Topics |-> IF t \in T THEN now[s] + Lease
                                ELSE IF t \in R THEN None ELSE lease[t]]
  /\ hold' = [hold EXCEPT ![s] = T]
  /\ UNCHANGED <<clock, now>>

\* Scheduler s is done with the topics in T (their result is recorded, or they
\* are given back) and clears the leases of those in L, the ones still stored.
Finish(s, T, L) ==
  /\ T \subseteq hold[s]
  /\ L \subseteq T
  /\ lease' = [t \in Topics |-> IF t \in L THEN None ELSE lease[t]]
  /\ hold' = [hold EXCEPT ![s] = @ \ T]
  /\ UNCHANGED <<clock, now>>

\* Scheduler s dies or its cycle fails: the leases it took stay behind.
Abandon(s) ==
  /\ hold' = [hold EXCEPT ![s] = {}]
  /\ UNCHANGED <<clock, now, lease>>

Tick ==
  /\ clock' \in Nat
  /\ clock' > clock
  /\ UNCHANGED <<now, lease, hold>>

Next ==
  \/ \E s \in Schedulers :
       \/ Begin(s)
       \/ \E T, R \in SUBSET Topics : Claim(s, T, R)
       \/ \E T, L \in SUBSET Topics : Finish(s, T, L)
       \/ Abandon(s)
  \/ Tick

Spec == Init /\ [][Next]_vars
=============================================================================
