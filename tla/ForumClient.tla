------------------------------ MODULE ForumClient ------------------------------
(***************************************************************************)
(* The client of the forum's API.  Every request of the process, whoever   *)
(* makes it, goes through one lock: its holder waits until the forum's     *)
(* rate limit allows a request, fetches the token, sends the request and   *)
(* notes the limit the response announces.  A batch of bump jobs comes     *)
(* back as one result for every job, whatever the forum answers.           *)
(*                                                                         *)
(* Points in time are kept as the time left until them, 0 once they have   *)
(* passed, so that behaviours are not bounded; a time-out of the HTTP      *)
(* client is a network error.                                              *)
(***************************************************************************)
EXTENDS TopicSchedule, FiniteSets

CONSTANTS
  Callers,    \* tasks that use the client: handlers and the scheduler
  Jobs,       \* jobs of a batch
  Statuses,   \* status codes the forum answers with
  Waits,      \* times the forum tells to wait
  Omitted     \* a job the response does not mention

ASSUME ForumAssumption ==
  /\ Statuses \subseteq Nat /\ Waits \subseteq Nat
  /\ None \notin Nat \cup Callers /\ Omitted \notin Nat \cup {None}

VARIABLES
  waiters,    \* waiters of _request_lock, in order
  holder,     \* its holder, None if it is free
  blocked,    \* time left until _blocked_until, 0 if there is none
  stage,      \* stage[p]: where p's call is
  sleep,      \* sleep[p]: time p has still to sleep
  reply,      \* reply[p]: what bump_batch returns to p
  bumped,     \* history: bumped[p]: jobs the forum has bumped for p's request
  announced,  \* history: time left until the forum lets in the next request
  early       \* history: a request was sent before that

lock == <<waiters, holder>>
clientHistory == <<bumped, announced, early>>
clientVars == <<lock, blocked, stage, sleep, reply, clientHistory>>

ErrorKinds == {"unauthorized", "forbidden", "not_found", "rate_limited", "server_error",
               "network", "invalid_response", "other"}
ClientResult == [outcome : Outcomes, retryIn : Waits \cup {None}]

\* A response: status, whether the body is as documented, what it says of each
\* job (Omitted, None for no status, or a status), and what headers and body
\* say of the limit.
Answer == {Omitted, None} \cup Statuses
Response ==
  [status : Statuses, valid : BOOLEAN, jobs : [Jobs -> Answer],
   jobRetry : [Jobs -> Waits \cup {None}],   \* retry_at or retry_after of the job
   retryAfter : Waits \cup {None},           \* Retry-After
   spent : BOOLEAN,                          \* X-RateLimit-Remaining is 0
   reset : Waits \cup {None}]                \* X-RateLimit-Reset

ClientTypeOK ==
  /\ holder \in Callers \cup {None}
  /\ waiters \in Seq(Callers)
  /\ blocked \in Nat /\ announced \in Nat
  /\ stage \in [Callers -> {"idle", "queued", "entered", "asleep", "token", "sending", "sent",
                            "answered"}]
  /\ sleep \in [Callers -> Nat]
  /\ reply \in [Callers -> [Jobs -> ClientResult] \cup {None}]
  /\ bumped \in [Callers -> SUBSET Jobs] /\ early \in BOOLEAN
  \* Who is past the queue is the holder, who queues is in it once.
  /\ \A p \in Callers :
       /\ stage[p] \in {"entered", "asleep", "token", "sending", "sent"} <=> holder = p
       /\ Cardinality({i \in DOMAIN waiters : waiters[i] = p}) =
            (IF stage[p] = "queued" THEN 1 ELSE 0)

ClientInit ==
  /\ waiters = <<>> /\ holder = None
  /\ blocked = 0
  /\ stage = [p \in Callers |-> "idle"]
  /\ sleep = [p \in Callers |-> 0]
  /\ reply = [p \in Callers |-> None]
  /\ bumped = [p \in Callers |-> {}] /\ announced = 0 /\ early = FALSE

-----------------------------------------------------------------------------
(* What a response means.                                                  *)

Success(status) == status \in 200..299

OutcomeForStatus(status) ==
  CASE Success(status) -> "success"
    [] status = 401 -> "unauthorized"
    [] status = 403 -> "forbidden"
    [] status = 404 -> "not_found"
    [] status = 429 \/ status >= 500 -> "retry"
    [] OTHER -> "error"

ErrorKindForStatus(status) ==
  CASE status = 401 -> "unauthorized"
    [] status = 403 -> "forbidden"
    [] status = 404 -> "not_found"
    [] status = 429 -> "rate_limited"
    [] status >= 500 -> "server_error"
    [] OTHER -> "other"

\* _result_from_error.
OutcomeForKind(kind) ==
  CASE kind \in {"unauthorized", "forbidden", "not_found"} -> kind
    [] kind \in {"rate_limited", "server_error", "network"} -> "retry"
    [] OTHER -> "error"

\* Only a retry carries a time.
ResultOf(outcome, wait) ==
  [outcome |-> outcome, retryIn |-> IF outcome = "retry" THEN wait ELSE None]

\* Mutant: an omitted job counts as bumped.
JobResultOptimistic(r, j) ==
  CASE r.jobs[j] = Omitted -> ResultOf("success", None)
    [] r.jobs[j] = None -> ResultOf("error", None)
    [] OTHER -> ResultOf(OutcomeForStatus(r.jobs[j]),
                         IF r.jobRetry[j] # None THEN r.jobRetry[j] ELSE r.retryAfter)

\* _parse_job_result, and the job the forum said nothing of.
JobResult(r, j) ==
  CASE r.jobs[j] = Omitted -> ResultOf("retry", None)
    [] r.jobs[j] = None -> ResultOf("error", None)
    [] OTHER -> ResultOf(OutcomeForStatus(r.jobs[j]),
                         IF r.jobRetry[j] # None THEN r.jobRetry[j] ELSE r.retryAfter)

\* bump_batch, after the request.
BatchResults(r) ==
  [j \in Jobs |->
     IF ~Success(r.status)
       THEN ResultOf(OutcomeForKind(ErrorKindForStatus(r.status)), r.retryAfter)
       ELSE IF ~r.valid THEN ResultOf(OutcomeForKind("invalid_response"), None)
       ELSE JobResult(r, j)]

\* Mutant: looks at the limit of refused requests only.
BlockedAfterRefusal(r) ==
  IF r.status = 429
    THEN IF r.retryAfter # None THEN r.retryAfter
         ELSE IF r.reset # None THEN r.reset ELSE 0
    ELSE blocked

\* _update_rate_limit.
BlockedAfter(r) ==
  IF r.status = 429
    THEN IF r.retryAfter # None THEN r.retryAfter
         ELSE IF r.reset # None THEN r.reset ELSE 0
    ELSE IF r.spent /\ r.reset # None THEN r.reset ELSE blocked

\* How long the forum wants no request, in its own terms.
Asked(r) ==
  CASE r.status = 429 /\ r.retryAfter # None -> r.retryAfter
    [] r.status = 429 /\ r.retryAfter = None /\ r.reset # None -> r.reset
    [] r.status # 429 /\ r.spent /\ r.reset # None -> r.reset
    [] OTHER -> 0

-----------------------------------------------------------------------------
(* A call: _request under the lock.                                        *)

Goto(p, step) == stage' = [stage EXCEPT ![p] = step]

Call(p) ==
  /\ stage[p] = "idle"
  /\ waiters' = Append(waiters, p)
  /\ Goto(p, "queued")
  /\ UNCHANGED <<holder, blocked, sleep, reply, clientHistory>>

\* Mutant: whoever comes first.
AcquireAny(p) ==
  /\ stage[p] = "queued"
  /\ holder = None
  /\ holder' = p
  /\ waiters' = SelectSeq(waiters, LAMBDA q : q # p)
  /\ Goto(p, "entered")
  /\ UNCHANGED <<blocked, sleep, reply, clientHistory>>

\* asyncio.Lock is fair.
Acquire(p) ==
  /\ stage[p] = "queued"
  /\ holder = None /\ Head(waiters) = p
  /\ holder' = p
  /\ waiters' = Tail(waiters)
  /\ Goto(p, "entered")
  /\ UNCHANGED <<blocked, sleep, reply, clientHistory>>

\* _wait_for_rate_limit.
Wait(p) ==
  /\ stage[p] = "entered"
  /\ sleep' = [sleep EXCEPT ![p] = blocked]
  /\ Goto(p, "asleep")
  /\ UNCHANGED <<lock, blocked, reply, clientHistory>>

Wake(p) ==
  /\ stage[p] = "asleep"
  /\ sleep[p] = 0
  /\ blocked' = 0
  /\ Goto(p, "token")
  /\ UNCHANGED <<lock, sleep, reply, clientHistory>>

\* The call ends, with results or an exception.
Release(p) ==
  /\ holder' = None
  /\ UNCHANGED waiters

\* The token provider: it reads the token in a session of its own and raises
\* if the bot is locked or the database fails.
FetchToken(p) ==
  /\ stage[p] = "token"
  /\ \/ /\ Goto(p, "sending")
        /\ UNCHANGED <<lock, reply>>
     \/ /\ UNCHANGED reply
        /\ Release(p)
        /\ Goto(p, "idle")
     \/ /\ reply' = [reply EXCEPT ![p] =
                         [j \in Jobs |-> ResultOf(OutcomeForKind("unauthorized"), None)]]
        /\ Release(p)
        /\ Goto(p, "answered")
  /\ UNCHANGED <<blocked, sleep, clientHistory>>

Send(p) ==
  /\ stage[p] = "sending"
  /\ early' = (early \/ announced > 0)
  /\ Goto(p, "sent")
  /\ UNCHANGED <<lock, blocked, sleep, reply, bumped, announced>>

\* The jobs a response gives a status of, and those it says were bumped.
Reported(r) ==
  IF Success(r.status) /\ r.valid THEN {j \in Jobs : r.jobs[j] \in Statuses} ELSE {}
BumpedBy(r) == {j \in Reported(r) : Success(r.jobs[j])}

\* The response arrives.  A job with a 2xx status was bumped; of one the forum
\* does not report nothing is known.
Respond(p) ==
  /\ stage[p] = "sent"
  /\ \E r \in Response, unreported \in SUBSET Jobs :
       /\ reply' = [reply EXCEPT ![p] = BatchResults(r)]
       /\ blocked' = BlockedAfter(r)
       /\ announced' = Asked(r)
       /\ bumped' = [bumped EXCEPT ![p] = (unreported \ Reported(r)) \cup BumpedBy(r)]
  /\ Release(p)
  /\ Goto(p, "answered")
  /\ UNCHANGED <<sleep, early>>

\* The connection breaks or times out, before or after the forum acted.
NetworkFails(p) ==
  /\ stage[p] = "sent"
  /\ reply' = [reply EXCEPT ![p] =
                   [j \in Jobs |-> ResultOf(OutcomeForKind("network"), None)]]
  /\ \E jobs \in SUBSET Jobs : bumped' = [bumped EXCEPT ![p] = jobs]
  /\ Release(p)
  /\ Goto(p, "answered")
  /\ UNCHANGED <<blocked, sleep, announced, early>>

Return(p) ==
  /\ stage[p] = "answered"
  /\ reply' = [reply EXCEPT ![p] = None]
  /\ bumped' = [bumped EXCEPT ![p] = {}]
  /\ Goto(p, "idle")
  /\ UNCHANGED <<lock, blocked, sleep, announced, early>>

Less(n) == IF n > 0 THEN n - 1 ELSE 0

TimePasses ==
  /\ blocked' = Less(blocked)
  /\ announced' = Less(announced)
  /\ sleep' = [p \in Callers |-> Less(sleep[p])]
  /\ <<blocked, announced, sleep>>' # <<blocked, announced, sleep>>
  /\ UNCHANGED <<lock, stage, reply, bumped, early>>

ClientStep(p) ==
  \/ Acquire(p)
  \/ Wait(p)
  \/ Wake(p)
  \/ FetchToken(p)
  \/ Send(p)
  \/ Respond(p)
  \/ NetworkFails(p)
  \/ Return(p)

ClientNext == (\E p \in Callers : Call(p) \/ ClientStep(p)) \/ TimePasses

ClientSpec == ClientInit /\ [][ClientNext]_clientVars

\* A task that can run does, a request is answered or times out, time passes.
ClientFairSpec ==
  ClientSpec /\ WF_clientVars(TimePasses) /\ \A p \in Callers : WF_clientVars(ClientStep(p))

-----------------------------------------------------------------------------
(* Properties.                                                             *)

\* No request, of whichever task, is sent before the time the forum gave.
RespectsLimit == ~early

\* A job is reported bumped only if the forum bumped it, and a time to retry
\* at is given for retries only.
SuccessIsReal ==
  \A p \in Callers, j \in Jobs :
    reply[p] # None =>
      /\ reply[p][j].outcome = "success" => j \in bumped[p]
      /\ reply[p][j].retryIn # None => reply[p][j].outcome = "retry"

\* Every call ends, however the others fare and whatever the forum answers.
CallsEnd == \A p \in Callers : stage[p] = "queued" ~> stage[p] = "idle"
=============================================================================
