---------------------------- MODULE TopicSchedule ----------------------------
(***************************************************************************)
(* When a topic is bumped next: the pure functions of topics/schedule.py   *)
(* and of the scheduler.  Times are naturals (seconds), None is SQL NULL.  *)
(* A topic's custom interval is None unless it is enabled.                 *)
(***************************************************************************)
EXTENDS Naturals, Sequences

CONSTANT None

\* BumpOutcome of forum/types.py.
Rejections == {"unauthorized", "forbidden"}
Failures == {"not_found", "error"}
Outcomes == {"success", "retry"} \cup Rejections \cup Failures

EffectiveInterval(globalSeconds, custom) ==
  IF custom = None THEN globalSeconds ELSE custom

NextBumpAt(lastSuccess, createdAt, interval) ==
  (IF lastSuccess = None THEN createdAt ELSE lastSuccess) + interval

\* The schedule's last delay serves every later retry.
RetryDelay(schedule, retryCount) ==
  schedule[IF retryCount < Len(schedule) THEN retryCount + 1 ELSE Len(schedule)]

\* What a result does to the topic record.  retryAt is the time the forum
\* asked for, None when it did not.
UpdatedTopic(topic, outcome, retryAt, globalSeconds, schedule, retryCount, now) ==
  CASE outcome = "success" ->
         [topic EXCEPT !.last = now,
                       !.next = now + EffectiveInterval(globalSeconds, topic.custom)]
    [] outcome = "retry" ->
         [topic EXCEPT !.next = IF retryAt # None THEN retryAt
                                ELSE now + RetryDelay(schedule, retryCount)]
    [] OTHER -> [topic EXCEPT !.next = None]

\* schedule_due_at, the plain column the claim query reads, follows the
\* encrypted next_bump_at of an enabled topic.
DueAt(topic) == IF topic.enabled THEN topic.next ELSE None
=============================================================================
