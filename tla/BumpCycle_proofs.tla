--------------------------- MODULE BumpCycle_proofs ---------------------------
(***************************************************************************)
(* For any topics, batch size, lease, schedule and answers, any edits and  *)
(* any failures: a cycle that ends leaves no lease, no batch follows a     *)
(* rejection, a job whose result was lost waits for its lease, and retries *)
(* follow the schedule.                                                    *)
(*                                                                         *)
(* The lists of the cycle never name a topic twice (SInv).  The arguments  *)
(* then say what is known of a topic while the cycle has it in its hands,  *)
(* InCycle, and what of one it let go.                                     *)
(*                                                                         *)
(* Of the client the cycle sends its batches through: no request is sent   *)
(* before the time the forum gave, a job is reported bumped only if the    *)
(* forum bumped it, the tables of status codes agree, and what the client  *)
(* returns is what the cycle is proved for.                                *)
(***************************************************************************)
EXTENDS BumpCycle, ForumClient, FiniteSetTheorems, TLAPS

\* The members of the cycle's lists, and that no topic is in one twice.
Elements(s) == {s[i] : i \in DOMAIN s}
TopicsOf(r) == {r[i].topic : i \in DOMAIN r}
Once(s) == \A i, j \in DOMAIN s : s[i] = s[j] => i = j
OnceEach(r) == \A i, j \in DOMAIN r : r[i].topic = r[j].topic => i = j

\* Among(order, S) lists the topics of order that are in S, each of them once.
LEMMA AmongOnce ==
  ASSUME NEW T, NEW n \in Nat, NEW order \in [1 .. n -> T], NEW S,
         \A i, j \in 1 .. n : order[i] = order[j] => i = j
  PROVE  /\ Among(order, S) \in Seq(T)
         /\ Once(Among(order, S))
         /\ \A t : t \in Elements(Among(order, S)) <=> t \in Elements(order) /\ t \in S
<1>. DEFINE at == {i \in 1 .. n : order[i] \in S}
            upTo(i) == {j \in at : j <= i}
            rank == [i \in at |-> Cardinality(upTo(i))]
            pick(k) == CHOOSE i \in at : Cardinality(upTo(i)) = k
<1>1. IsFiniteSet(at) /\ Cardinality(at) \in Nat
  <2>1. IsFiniteSet(1 .. n)
    BY FS_Interval
  <2>2. IsFiniteSet(at)
    BY <2>1, FS_Subset, Zenon
  <2>. QED
    BY <2>2, FS_CardinalityType, Zenon
<1>2. \A i \in at : IsFiniteSet(upTo(i)) /\ Cardinality(upTo(i)) \in 1 .. Cardinality(at)
  <2>. TAKE i \in at
  <2>1. upTo(i) \subseteq at /\ upTo(i) # {}
    <3>1. i <= i
      OBVIOUS
    <3>. QED
      BY <3>1
  <2>2. /\ IsFiniteSet(upTo(i))
        /\ Cardinality(upTo(i)) <= Cardinality(at)
    BY <1>1, <2>1, FS_Subset, Zenon
  <2>3. Cardinality(upTo(i)) \in Nat /\ Cardinality(upTo(i)) # 0
    BY <2>1, <2>2, FS_CardinalityType, FS_EmptySet, Zenon
  <2>. HIDE DEF upTo, at
  <2>. QED
    BY <1>1, <2>2, <2>3
<1>3. ASSUME NEW i \in at, NEW j \in at, i < j
      PROVE  Cardinality(upTo(i)) # Cardinality(upTo(j))
  <2>1. upTo(i) \subseteq upTo(j)
    BY <1>3
  <2>2. j \in upTo(j) /\ j \notin upTo(i)
    BY <1>3
  <2>3. IsFiniteSet(upTo(j))
    BY <1>2, Zenon
  <2>4. upTo(i) # upTo(j)
    BY <2>2, Zenon
  <2>. HIDE DEF upTo, at
  <2>. QED
    BY <2>1, <2>3, <2>4, FS_Subset, Zenon
<1>4. rank \in Injection(at, 1 .. Cardinality(at))
  <2>1. rank \in [at -> 1 .. Cardinality(at)]
    BY <1>2, Zenon
  <2>2. ASSUME NEW i \in at, NEW j \in at, rank[i] = rank[j] PROVE i = j
    <3>1. i < j \/ j < i \/ i = j
      OBVIOUS
    <3>2. Cardinality(upTo(i)) = Cardinality(upTo(j))
      BY <2>2, Zenon
    <3>. QED
      BY <1>3, <3>1, <3>2, Zenon
  <2>. HIDE DEF rank, at
  <2>. QED
    BY <2>1, <2>2, Zenon DEF Injection, IsInjective
<1>5. rank \in Surjection(at, 1 .. Cardinality(at))
  <2>1. IsFiniteSet(1 .. Cardinality(at)) /\ Cardinality(1 .. Cardinality(at)) = Cardinality(at)
    <3>. HIDE DEF at
    <3>1. 1 \in Int /\ Cardinality(at) \in Int
      BY <1>1
    <3>2. /\ IsFiniteSet(1 .. Cardinality(at))
          /\ Cardinality(1 .. Cardinality(at)) =
               IF 1 > Cardinality(at) THEN 0 ELSE Cardinality(at) - 1 + 1
      BY <3>1, FS_Interval, Zenon
    <3>. QED
      BY <1>1, <3>2
  <2>. HIDE DEF rank, at
  <2>. QED
    BY <1>4, <2>1, FS_Injection, Zenon
<1>6. \A k \in 1 .. Cardinality(at) : pick(k) \in at /\ Cardinality(upTo(pick(k))) = k
  <2>. TAKE k \in 1 .. Cardinality(at)
  <2>1. \E i \in at : rank[i] = k
    <3>. HIDE DEF rank, at
    <3>. QED
      BY <1>5, Zenon DEF Surjection
  <2>2. \E i \in at : Cardinality(upTo(i)) = k
    BY <2>1, Zenon
  <2>. HIDE DEF upTo, at
  <2>. QED
    BY <2>2, Zenon
<1>7. \A i \in at : pick(Cardinality(upTo(i))) = i
  <2>. TAKE i \in at
  <2>. DEFINE k == Cardinality(upTo(i))
  <2>1. pick(k) \in at /\ Cardinality(upTo(pick(k))) = k
    BY <1>2, <1>6, Zenon
  <2>2. pick(k) < i \/ i < pick(k) \/ pick(k) = i
    <3>. HIDE DEF pick, k
    <3>. QED
      BY <2>1
  <2>. HIDE DEF pick, upTo, at
  <2>. QED
    BY <1>3, <2>1, <2>2, Zenon
<1>8. Among(order, S) = [k \in 1 .. Cardinality(at) |-> order[pick(k)]]
  BY DEF Among
<1>. HIDE DEF pick, upTo, rank
<1>9. \A k \in 1 .. Cardinality(at) : Among(order, S)[k] = order[pick(k)]
  BY <1>8, Zenon
<1>10. DOMAIN Among(order, S) = 1 .. Cardinality(at)
  BY <1>8, Zenon
<1>11. Among(order, S) \in Seq(T)
  <2>1. \A k \in 1 .. Cardinality(at) : order[pick(k)] \in T
    BY <1>6, Zenon
  <2>. HIDE DEF at
  <2>. QED
    BY <1>1, <1>8, <2>1
<1>12. \A k, l \in 1 .. Cardinality(at) :
         Among(order, S)[k] = Among(order, S)[l] => k = l
  BY <1>6, <1>9, Zenon
<1>13. {Among(order, S)[k] : k \in 1 .. Cardinality(at)} = {order[i] : i \in at}
  <2>1. \A k \in 1 .. Cardinality(at) : \E i \in at : Among(order, S)[k] = order[i]
    BY <1>6, <1>9, Zenon
  <2>2. \A i \in at : \E k \in 1 .. Cardinality(at) : order[i] = Among(order, S)[k]
    BY <1>2, <1>7, <1>9, Zenon
  <2>. HIDE DEF at
  <2>3. {Among(order, S)[k] : k \in 1 .. Cardinality(at)} \subseteq {order[i] : i \in at}
    BY <2>1
  <2>4. {order[i] : i \in at} \subseteq {Among(order, S)[k] : k \in 1 .. Cardinality(at)}
    BY <2>2
  <2>. QED
    BY <2>3, <2>4, Zenon
<1>14. {order[i] : i \in at} = {order[i] : i \in 1 .. n} \cap S
  OBVIOUS
<1>. QED
  BY <1>10, <1>11, <1>12, <1>13, <1>14 DEF Once, Elements

-----------------------------------------------------------------------------
(* Lemmas about sequences and about the schedule.                          *)

LEMMA NotEmpty ==
  ASSUME NEW T, NEW s \in Seq(T)
  PROVE  Len(s) \in Nat /\ (s = <<>> <=> Len(s) = 0) /\ DOMAIN s = 1 .. Len(s)
  OBVIOUS

\* A sequence without repetitions, cut in two.
LEMMA CutInTwo ==
  ASSUME NEW T, NEW q \in Seq(T), Once(q), NEW n \in 1 .. Len(q)
  PROVE  LET first == SubSeq(q, 1, n)
             rest == SubSeq(q, n + 1, Len(q))
         IN  /\ first \in Seq(T) /\ first # <<>> /\ Once(first)
             /\ rest \in Seq(T) /\ Once(rest)
             /\ Elements(first) = {q[i] : i \in 1 .. n}
             /\ Elements(first) \cup Elements(rest) = Elements(q)
             /\ Elements(first) \cap Elements(rest) = {}
<1>. DEFINE first == SubSeq(q, 1, n)
            rest == SubSeq(q, n + 1, Len(q))
<1>1. /\ first \in Seq(T) /\ Len(first) = n
      /\ \A i \in 1 .. n : first[i] = q[i]
  OBVIOUS
<1>2. /\ rest \in Seq(T) /\ Len(rest) = Len(q) - n
      /\ \A i \in 1 .. Len(q) - n : rest[i] = q[i + n]
  OBVIOUS
<1>0. DOMAIN q = 1 .. Len(q) /\ Len(q) \in Nat /\ n \in Nat /\ n <= Len(q) /\ n >= 1
  OBVIOUS
<1>. HIDE DEF first, rest
<1>02. DOMAIN first = 1 .. n /\ DOMAIN rest = 1 .. Len(q) - n
  BY <1>0, <1>1, <1>2
<1>3. Once(first) /\ first # <<>>
  BY <1>0, <1>02, <1>1 DEF Once
<1>4. Once(rest)
  <2>1. ASSUME NEW i \in DOMAIN rest, NEW j \in DOMAIN rest, rest[i] = rest[j] PROVE i = j
    <3>1. i \in 1 .. Len(q) - n /\ j \in 1 .. Len(q) - n /\ rest[i] = q[i + n] /\ rest[j] = q[j + n]
      BY <1>02, <1>2, Zenon
    <3>2. i + n \in 1 .. Len(q) /\ j + n \in 1 .. Len(q)
      BY <1>0, <3>1
    <3>3. q[i + n] = q[j + n]
      BY <2>1, <3>1, Zenon
    <3>4. i + n = j + n
      BY <1>0, <3>2, <3>3, Zenon DEF Once
    <3>. QED
      BY <1>0, <3>1, <3>4
  <2>. QED
    BY <2>1 DEF Once
<1>5. Elements(first) = {q[i] : i \in 1 .. n}
  BY <1>1 DEF Elements
<1>6. Elements(first) \cup Elements(rest) = Elements(q)
  <2>1. \A i \in DOMAIN rest : i + n \in DOMAIN q /\ rest[i] = q[i + n]
    BY <1>0, <1>02, <1>2
  <2>2. \A i \in DOMAIN q : i \in 1 .. n \/ (i - n \in DOMAIN rest /\ rest[i - n] = q[i])
    <3>. TAKE i \in DOMAIN q
    <3>1. CASE i > n
      <4>1. i - n \in 1 .. Len(q) - n /\ (i - n) + n = i
        BY <1>0, <3>1
      <4>. QED
        BY <1>02, <1>2, <4>1
    <3>. QED
      BY <1>0, <3>1
  <2>3. 1 .. n \subseteq DOMAIN q
    BY <1>0
  <2>4. Elements(rest) \subseteq Elements(q)
    BY <2>1 DEF Elements
  <2>5. Elements(first) \subseteq Elements(q)
    BY <1>5, <2>3 DEF Elements
  <2>6. Elements(q) \subseteq Elements(first) \cup Elements(rest)
    BY <1>5, <2>2 DEF Elements
  <2>. QED
    BY <2>4, <2>5, <2>6
<1>7. Elements(first) \cap Elements(rest) = {}
  <2>1. \A i \in 1 .. n, j \in DOMAIN rest : q[i] # rest[j]
    <3>. TAKE i \in 1 .. n, j \in DOMAIN rest
    <3>1. i \in DOMAIN q /\ j + n \in DOMAIN q /\ i # j + n /\ rest[j] = q[j + n]
      BY <1>0, <1>02, <1>2
    <3>. QED
      BY <3>1 DEF Once
  <2>. QED
    BY <1>5, <2>1 DEF Elements
<1>. QED
  BY <1>1, <1>2, <1>3, <1>4, <1>5, <1>6, <1>7 DEF first, rest

\* The results without their head.
LEMMA WithoutHead ==
  ASSUME NEW r \in Seq(Result), r # <<>>, OnceEach(r)
  PROVE  /\ Head(r) \in Result /\ Tail(r) \in Seq(Result) /\ OnceEach(Tail(r))
         /\ Len(Tail(r)) = Len(r) - 1
         /\ TopicsOf(Tail(r)) = TopicsOf(r) \ {Head(r).topic}
         /\ Head(r).topic \in TopicsOf(r)
         /\ \A i \in DOMAIN Tail(r) : i + 1 \in DOMAIN r /\ Tail(r)[i] = r[i + 1]
<1>1. /\ Head(r) = r[1] /\ Tail(r) \in Seq(Result) /\ Len(Tail(r)) = Len(r) - 1
      /\ \A i \in 1 .. Len(r) - 1 : Tail(r)[i] = r[i + 1]
      /\ 1 \in DOMAIN r
  OBVIOUS
<1>2. OnceEach(Tail(r))
  BY <1>1 DEF OnceEach
<1>3. TopicsOf(Tail(r)) = TopicsOf(r) \ {Head(r).topic}
  <2>1. \A i \in DOMAIN Tail(r) :
          i + 1 \in DOMAIN r /\ Tail(r)[i] = r[i + 1] /\ r[i + 1].topic # r[1].topic
    BY <1>1 DEF OnceEach
  <2>2. \A i \in DOMAIN r :
          i = 1 \/ (i - 1 \in DOMAIN Tail(r) /\ Tail(r)[i - 1] = r[i])
    BY <1>1
  <2>3. TopicsOf(Tail(r)) \subseteq TopicsOf(r) \ {Head(r).topic}
    BY <1>1, <2>1 DEF TopicsOf
  <2>4. TopicsOf(r) \ {Head(r).topic} \subseteq TopicsOf(Tail(r))
    <3>. SUFFICES ASSUME NEW i \in DOMAIN r, r[i].topic # Head(r).topic
                  PROVE  r[i].topic \in TopicsOf(Tail(r))
      BY Zenon DEF TopicsOf
    <3>1. i - 1 \in DOMAIN Tail(r) /\ Tail(r)[i - 1] = r[i]
      BY <1>1, <2>2, Zenon
    <3>. QED
      BY <3>1, Zenon DEF TopicsOf
  <2>. QED
    BY <2>3, <2>4
<1>4. Head(r).topic \in TopicsOf(r) /\ Head(r) \in Result
  BY <1>1 DEF TopicsOf
<1>5. \A i \in DOMAIN Tail(r) : i + 1 \in DOMAIN r /\ Tail(r)[i] = r[i + 1]
  <2>1. DOMAIN Tail(r) = 1 .. Len(r) - 1 /\ DOMAIN r = 1 .. Len(r) /\ Len(r) \in Nat
    BY <1>1
  <2>. QED
    BY <1>1, <2>1
<1>. QED
  BY <1>1, <1>2, <1>3, <1>4, <1>5, Zenon

LEMMA Constants ==
  /\ IsFiniteSet(Topics)
  /\ BatchSize \in Nat /\ BatchSize > 0 /\ ClaimLimit \in Nat /\ ClaimLimit > 0
  /\ Lease \in Nat /\ Lease > 0 /\ Interval \in Nat /\ Interval > 0
  /\ Schedule \in Seq(Nat \ {0}) /\ Len(Schedule) > 0
  /\ Answers \subseteq Outcomes /\ RetryAfter \subseteq Nat
  /\ None \notin Nat
<1>1. Schedule \in Seq(Nat \ {0}) /\ Schedule # <<>>
  BY CycleAssumption DEF CycleAssumption
<1>2. Len(Schedule) > 0
  BY <1>1
<1>. QED
  BY <1>1, <1>2, CycleAssumption DEF CycleAssumption

\* What a result does to a topic's record: after a success, and after a retry
\* without a time of the forum's own, the next bump is later than the cycle.
LEMMA UpdatedRecord ==
  ASSUME NEW r \in TopicRecord, NEW o \in Outcomes, NEW at \in Instant,
         NEW count \in Nat, NEW n \in Nat
  PROVE  LET u == UpdatedTopic(r, o, at, Interval, Schedule, count, n)
         IN  /\ u \in TopicRecord /\ u.custom = r.custom
             /\ o = "success" => /\ u.last = n
                                 /\ u.next = n + (IF r.custom = None THEN Interval ELSE r.custom)
             /\ o = "retry" =>
                  /\ u.last = r.last
                  /\ at # None => u.next = at
                  /\ at = None =>
                       u.next = n + Schedule[IF count + 1 > Len(Schedule)
                                               THEN Len(Schedule) ELSE count + 1]
                  /\ at = None => u.next \in Nat /\ u.next > n
             /\ o \notin {"success", "retry"} => u.last = r.last /\ u.next = None
<1>. USE Constants
<1>. DEFINE u == UpdatedTopic(r, o, at, Interval, Schedule, count, n)
            delay == Schedule[IF count + 1 > Len(Schedule) THEN Len(Schedule) ELSE count + 1]
<1>1. delay \in Nat /\ delay > 0
  OBVIOUS
<1>2. RetryDelay(Schedule, count) = delay
  BY DEF RetryDelay
<1>. HIDE DEF delay
<1>3. CASE o = "success"
  <2>1. u = [r EXCEPT !.last = n, !.next = n + EffectiveInterval(Interval, r.custom)]
    BY <1>3 DEF UpdatedTopic
  <2>2. n + EffectiveInterval(Interval, r.custom) \in Nat
    BY DEF EffectiveInterval, TopicRecord, Instant
  <2>. QED
    BY <1>3, <2>1, <2>2 DEF TopicRecord, Instant, EffectiveInterval
<1>4. CASE o = "retry"
  <2>. DEFINE w == IF at # None THEN at ELSE n + delay
  <2>1. u = [r EXCEPT !.next = w] /\ w \in Instant
    BY <1>1, <1>2, <1>4 DEF UpdatedTopic, Instant
  <2>. HIDE DEF w
  <2>2. u \in TopicRecord /\ u.custom = r.custom /\ u.last = r.last /\ u.next = w
    BY <2>1 DEF TopicRecord
  <2>. HIDE DEF u
  <2>3. /\ at # None => u.next = at
        /\ at = None => u.next = n + delay /\ u.next \in Nat /\ u.next > n
    BY <1>1, <2>2 DEF w
  <2>. QED
    BY <1>4, <2>2, <2>3, Zenon DEF delay, u
<1>5. CASE o \notin {"success", "retry"}
  <2>1. u = [r EXCEPT !.next = None]
    BY <1>5 DEF UpdatedTopic
  <2>. QED
    BY <1>5, <2>1 DEF TopicRecord, Instant
<1>. QED
  BY <1>3, <1>4, <1>5

-----------------------------------------------------------------------------
(* Types, and what the cycle has in its hands where.                       *)

Types ==
  /\ clock \in Nat /\ now \in Nat /\ now <= clock
  /\ topic \in [Topics -> TopicRecord \cup {None}]
  /\ due \in [Topics -> Instant] /\ lease \in [Topics -> Instant]
  /\ doubt \in [Topics -> Instant]
  /\ retriedAt \in [Topics -> Seq(Nat)] /\ streak \in [Topics -> Nat]
  /\ queue \in Seq(Topics) /\ batch \in Seq(Topics) /\ results \in Seq(Result)

Shape ==
  /\ pc \in {"idle", "claim", "send", "wait", "record", "save", "release"}
  /\ pc \in {"idle", "claim"} => queue = <<>>
  /\ pc = "send" => queue # <<>>
  /\ pc = "wait" <=> batch # <<>>
  /\ pc \in {"record", "save"} <=> results # <<>>
  /\ pc = "save" => read.topic \in TopicRecord /\ read.count \in Nat /\ read.at \in Nat

\* A claimed topic is in one place of one list.
Distinct ==
  /\ Once(queue) /\ Once(batch) /\ OnceEach(results)
  /\ Elements(queue) \cap (Elements(batch) \cup TopicsOf(results)) = {}

SInv == Types /\ Shape /\ Distinct

LEMMA InCycleIs == InCycle = Elements(queue) \cup Elements(batch) \cup TopicsOf(results)
  BY DEF InCycle, Elements, TopicsOf

LEMMA EmptyLists ==
  /\ Elements(<<>>) = {} /\ TopicsOf(<<>>) = {}
  /\ Once(<<>>) /\ OnceEach(<<>>)
  BY DEF Elements, TopicsOf, Once, OnceEach

\* A cycle that ends has nothing in its hands.
LEMMA CycleEnded ==
  ASSUME NEW status, EndCycle(status)
  PROVE  /\ pc' = "idle" /\ report' = status
         /\ queue' = <<>> /\ batch' = <<>> /\ results' = <<>>
         /\ InCycle' = {} /\ Elements(queue)' = {}
         /\ Shape' /\ Distinct'
<1>1. /\ pc' = "idle" /\ report' = status
      /\ queue' = <<>> /\ batch' = <<>> /\ results' = <<>>
  BY DEF EndCycle
<1>2. InCycle' = Elements(queue)' \cup Elements(batch)' \cup TopicsOf(results)'
  BY DEF InCycle, Elements, TopicsOf
<1>3. Elements(queue)' = {} /\ Elements(batch)' = {} /\ TopicsOf(results)' = {}
  BY <1>1, EmptyLists DEF Elements, TopicsOf
<1>4. Distinct'
  BY <1>1, <1>3, EmptyLists DEF Distinct, Once, OnceEach
<1>. QED
  BY <1>1, <1>2, <1>3, <1>4 DEF Shape

\* Dealing with a result takes its topic out of the cycle's hands, and what
\* comes next finds what it needs.
LEMMA ResultDealtWith ==
  ASSUME SInv, pc \in {"record", "save"}, NextResult
  PROVE  /\ queue' \in Seq(Topics) /\ batch' \in Seq(Topics) /\ results' \in Seq(Result)
         /\ Shape' /\ Distinct'
         /\ Head(results) \in Result
         /\ Head(results).topic \in InCycle
         /\ InCycle' = InCycle \ {Head(results).topic}
         /\ Elements(queue)' \subseteq Elements(queue)
         /\ Head(results).topic \notin Elements(queue)
         /\ pc' \in {"record", "send", "release", "idle"}
         /\ pc' = "idle" => report' = "ran"
         /\ \A i \in DOMAIN results' : \E j \in DOMAIN results : results'[i] = results[j]
<1>. DEFINE head == Head(results)
<1>1. results \in Seq(Result) /\ results # <<>> /\ batch = <<>> /\ OnceEach(results)
  BY DEF SInv, Types, Shape, Distinct
<1>2. /\ head \in Result /\ Tail(results) \in Seq(Result) /\ OnceEach(Tail(results))
      /\ Len(Tail(results)) = Len(results) - 1
      /\ TopicsOf(Tail(results)) = TopicsOf(results) \ {head.topic}
      /\ head.topic \in TopicsOf(results)
      /\ \A i \in DOMAIN Tail(results) : i + 1 \in DOMAIN results /\ Tail(results)[i] = results[i + 1]
  BY <1>1, WithoutHead
<1>3. InCycle = Elements(queue) \cup TopicsOf(results)
  BY <1>1, InCycleIs, EmptyLists
<1>4. head.topic \notin Elements(queue)
  BY <1>2 DEF SInv, Distinct
<1>5. InCycle' = Elements(queue)' \cup Elements(batch)' \cup TopicsOf(results)'
  BY DEF InCycle, Elements, TopicsOf
<1>0. Len(results) \in Nat /\ Len(results) # 0
  BY <1>1, NotEmpty, Zenon
<1>. HIDE DEF head
<1>6. CASE Len(results) > 1
  <2>1. /\ results' = Tail(results) /\ pc' = "record" /\ queue' = queue /\ batch' = batch
    BY <1>0, <1>6 DEF NextResult
  <2>2. results' # <<>>
    <3>. DEFINE n == Len(results)
    <3>1. Tail(results) = <<>> => Len(Tail(results)) = 0
      BY <1>2, NotEmpty, Zenon
    <3>. HIDE DEF n
    <3>2. n \in Nat /\ n > 1 /\ Len(Tail(results)) = n - 1
      BY <1>0, <1>2, <1>6, Zenon DEF n
    <3>3. n - 1 # 0
      BY <3>2
    <3>. QED
      BY <2>1, <3>1, <3>2, <3>3, Zenon
  <2>30. Elements(queue)' = Elements(queue) /\ Elements(batch)' = {}
    BY <1>1, <2>1, EmptyLists DEF Elements
  <2>31. TopicsOf(results)' = TopicsOf(Tail(results))
    BY <2>1 DEF TopicsOf
  <2>3. Elements(queue)' = Elements(queue) /\ Elements(batch)' = {}
        /\ TopicsOf(results)' = TopicsOf(results) \ {head.topic}
    BY <1>2, <2>30, <2>31, Zenon
  <2>4. Shape'
    BY <1>1, <2>1, <2>2 DEF SInv, Shape
  <2>5. Distinct'
    BY <1>1, <1>2, <2>1, <2>3, EmptyLists DEF SInv, Distinct, Once, OnceEach
  <2>6. InCycle' = InCycle \ {head.topic}
    BY <1>3, <1>4, <1>5, <2>3
  <2>7. \A i \in DOMAIN results' : \E j \in DOMAIN results : results'[i] = results[j]
    BY <1>2, <2>1
  <2>. QED
    BY <1>2, <1>3, <1>4, <2>1, <2>3, <2>4, <2>5, <2>6, <2>7 DEF SInv, Types, head
<1>7. ASSUME Len(results) = 1 PROVE TopicsOf(results) \ {head.topic} = {}
  <2>1. Tail(results) = <<>>
    BY <1>1, <1>2, <1>7
  <2>. QED
    BY <1>2, <2>1, EmptyLists
<1>8. CASE Len(results) = 1 /\ queue # <<>>
  <2>1. /\ results' = <<>> /\ pc' \in {"release", "send"} /\ queue' = queue /\ batch' = batch
    BY <1>8 DEF NextResult
  <2>2. Elements(queue)' = Elements(queue) /\ Elements(batch)' = {} /\ TopicsOf(results)' = {}
    BY <1>1, <2>1, EmptyLists DEF Elements, TopicsOf
  <2>3. Shape'
    BY <1>1, <1>8, <2>1 DEF SInv, Shape
  <2>4. Distinct'
    BY <1>1, <2>1, <2>2, EmptyLists DEF SInv, Distinct, Once, OnceEach
  <2>5. InCycle' = InCycle \ {head.topic}
    BY <1>3, <1>4, <1>5, <1>7, <1>8, <2>2
  <2>6. results' \in Seq(Result) /\ DOMAIN results' = {}
    BY <2>1
  <2>7. queue' \in Seq(Topics) /\ batch' \in Seq(Topics)
    BY <2>1 DEF SInv, Types
  <2>. QED
    BY <1>2, <1>3, <1>4, <2>1, <2>2, <2>3, <2>4, <2>5, <2>6, <2>7 DEF head
<1>9. CASE Len(results) = 1 /\ queue = <<>>
  <2>1. EndCycle("ran")
    BY <1>9 DEF NextResult
  <2>2. /\ pc' = "idle" /\ report' = "ran" /\ InCycle' = {} /\ Shape' /\ Distinct'
        /\ queue' = <<>> /\ batch' = <<>> /\ results' = <<>> /\ Elements(queue)' = {}
    BY <2>1, CycleEnded
  <2>3. InCycle \ {head.topic} = {}
    BY <1>3, <1>7, <1>9, EmptyLists
  <2>4. /\ results' \in Seq(Result) /\ DOMAIN results' = {}
        /\ queue' \in Seq(Topics) /\ batch' \in Seq(Topics)
    BY <2>2
  <2>. QED
    BY <1>2, <1>3, <1>4, <2>2, <2>3, <2>4 DEF head
<1>10. Len(results) > 1 \/ Len(results) = 1
  <2>. DEFINE n == Len(results)
  <2>. HIDE DEF n
  <2>1. n \in Nat /\ n # 0
    BY <1>0, Zenon DEF n
  <2>2. n > 1 \/ n = 1
    BY <2>1
  <2>. QED
    BY <2>2, Zenon DEF n
<1>. QED
  BY <1>6, <1>8, <1>9, <1>10

-----------------------------------------------------------------------------
(* What the steps do, in terms of these.                                   *)

\* A claim takes topics that were due and free.
LEMMA ClaimTakes ==
  ASSUME SInv, Claim
  PROVE  \E tried \in SUBSET Topics, kept \in SUBSET Topics :
           /\ kept \subseteq tried /\ \A t \in tried : Claimable(t, now)
           /\ lease' = [t \in Topics |-> IF t \in kept THEN now + Lease
                                         ELSE IF t \in tried THEN None ELSE lease[t]]
           /\ due' = [t \in Topics |-> IF t \in tried \ kept THEN None ELSE due[t]]
           /\ mine' = kept /\ InCycle' = kept /\ Elements(queue)' = kept
           /\ queue' \in Seq(Topics) /\ batch' = <<>> /\ results' = <<>>
           /\ Shape' /\ Distinct'
<1>1. PICK order \in ClaimOrders(now) :
        LET tried == {order[i] : i \in DOMAIN order}
            stale == {t \in tried : ~topic[t].enabled}
            taken == Among(order, tried \ stale)
        IN  /\ lease' = [t \in Topics |->
                           IF t \in tried \ stale THEN now + Lease
                           ELSE IF t \in stale THEN None ELSE lease[t]]
            /\ due' = [t \in Topics |-> IF t \in stale THEN None ELSE due[t]]
            /\ mine' = tried \ stale
            /\ IF taken = <<>>
                 THEN EndCycle("ran")
                 ELSE /\ pc' = "send"
                      /\ queue' = taken
                      /\ UNCHANGED <<batch, results, rejected, read, report>>
  BY Zenon DEF Claim
<1>. DEFINE tried == {order[i] : i \in DOMAIN order}
            stale == {t \in tried : ~topic[t].enabled}
            kept == tried \ stale
            taken == Among(order, kept)
            eligible == {t \in Topics : Claimable(t, now)}
            count == IF Cardinality(eligible) < ClaimLimit THEN Cardinality(eligible)
                     ELSE ClaimLimit
<1>2. count \in Nat
  <2>1. IsFiniteSet(eligible)
    BY Constants, FS_Subset, Zenon
  <2>2. Cardinality(eligible) \in Nat
    BY <2>1, FS_CardinalityType, Zenon
  <2>. HIDE DEF eligible
  <2>. QED
    BY <2>2, Constants
<1>3. /\ order \in [1 .. count -> eligible]
      /\ \A i, j \in 1 .. count : i < j => order[i] # order[j]
  BY Zenon DEF ClaimOrders
<1>4. \A i, j \in 1 .. count : order[i] = order[j] => i = j
  <2>. TAKE i, j \in 1 .. count
  <2>1. i < j \/ j < i \/ i = j
    <3>. HIDE DEF count
    <3>. QED
      BY <1>2
  <2>. QED
    BY <1>3, <2>1, Zenon
<1>. HIDE DEF count
<1>5. order \in [1 .. count -> Topics] /\ DOMAIN order = 1 .. count
  BY <1>3
<1>6. tried \in SUBSET Topics /\ \A t \in tried : Claimable(t, now)
  BY <1>3, <1>5
<1>7. /\ taken \in Seq(Topics) /\ Once(taken)
      /\ \A t : t \in Elements(taken) <=> t \in Elements(order) /\ t \in kept
  <2>. HIDE DEF kept
  <2>1. taken \in Seq(Topics)
    BY <1>2, <1>4, <1>5, AmongOnce
  <2>2. Once(taken)
    BY <1>2, <1>4, <1>5, AmongOnce, Zenon
  <2>3. \A t : t \in Elements(taken) <=> t \in Elements(order) /\ t \in kept
    BY <1>2, <1>4, <1>5, AmongOnce, Zenon
  <2>. QED
    BY <2>1, <2>2, <2>3, Zenon
<1>8. Elements(taken) = kept
  BY <1>7 DEF Elements
<1>9. /\ lease' = [t \in Topics |-> IF t \in kept THEN now + Lease
                                    ELSE IF t \in stale THEN None ELSE lease[t]]
      /\ due' = [t \in Topics |-> IF t \in stale THEN None ELSE due[t]]
      /\ mine' = kept
      /\ taken = <<>> => EndCycle("ran")
      /\ taken # <<>> => /\ pc' = "send" /\ queue' = taken
                         /\ UNCHANGED <<batch, results, rejected, read, report>>
  BY <1>1, Zenon
<1>10. /\ tried \ kept = stale /\ kept \subseteq tried
       /\ \A t \in Topics : (t \in kept \/ t \in stale) <=> t \in tried
  OBVIOUS
<1>11. batch = <<>> /\ results = <<>>
  BY DEF Claim, SInv, Shape
<1>. HIDE DEF tried, kept, stale, taken
<1>12. lease' = [t \in Topics |-> IF t \in kept THEN now + Lease
                                  ELSE IF t \in tried THEN None ELSE lease[t]]
  BY <1>9, <1>10
<1>13. due' = [t \in Topics |-> IF t \in tried \ kept THEN None ELSE due[t]]
  BY <1>9, <1>10
<1>14. /\ InCycle' = kept /\ Elements(queue)' = kept
       /\ queue' \in Seq(Topics) /\ batch' = <<>> /\ results' = <<>>
       /\ Shape' /\ Distinct'
  <2>1. CASE taken = <<>>
    <3>1. kept = {}
      BY <1>8, <2>1, EmptyLists
    <3>2. EndCycle("ran")
      BY <1>9, <2>1
    <3>3. <<>> \in Seq(Topics)
      OBVIOUS
    <3>. QED
      BY <3>1, <3>2, <3>3, CycleEnded, Zenon
  <2>2. CASE taken # <<>>
    <3>1. pc' = "send" /\ queue' = taken /\ batch' = <<>> /\ results' = <<>>
      BY <1>9, <1>11, <2>2
    <3>2. Elements(queue)' = kept /\ Elements(batch)' = {} /\ TopicsOf(results)' = {}
      BY <1>8, <3>1, EmptyLists DEF Elements, TopicsOf
    <3>3. InCycle' = Elements(queue)' \cup Elements(batch)' \cup TopicsOf(results)'
      BY DEF InCycle, Elements, TopicsOf
    <3>4. Shape'
      BY <2>2, <3>1 DEF Shape
    <3>5. Distinct'
      BY <1>7, <3>1, <3>2, EmptyLists DEF Distinct, Once, OnceEach
    <3>. QED
      BY <1>7, <3>1, <3>2, <3>3, <3>4, <3>5
  <2>. QED
    BY <2>1, <2>2
<1>15. kept \in SUBSET Topics
  BY <1>6, <1>10
<1>. QED
  BY <1>6, <1>9, <1>10, <1>12, <1>13, <1>14, <1>15, Zenon

\* Sending takes topics from the queue.
LEMMA SendTakes ==
  ASSUME SInv, SendBatch
  PROVE  \E sent \in SUBSET Elements(queue) :
           /\ doubt' = [t \in Topics |-> IF t \in sent THEN now + Lease ELSE doubt[t]]
           /\ Elements(queue)' = Elements(queue) \ sent
           /\ InCycle' = InCycle
           /\ queue' \in Seq(Topics) /\ batch' \in Seq(Topics) /\ results' = results
           /\ pc' = "wait" /\ Shape' /\ Distinct'
<1>. DEFINE n == IF Len(queue) < BatchSize THEN Len(queue) ELSE BatchSize
<1>1. /\ pc = "send" /\ pc' = "wait" /\ results' = results
      /\ batch' = SubSeq(queue, 1, n) /\ queue' = SubSeq(queue, n + 1, Len(queue))
      /\ doubt' = [t \in Topics |->
                     IF \E i \in 1 .. n : queue[i] = t THEN now + Lease ELSE doubt[t]]
  BY DEF SendBatch
<1>2. /\ queue \in Seq(Topics) /\ queue # <<>> /\ Once(queue)
      /\ batch = <<>> /\ results = <<>>
  BY <1>1 DEF SInv, Types, Shape, Distinct
<1>3. n \in 1 .. Len(queue)
  <2>. DEFINE m == Len(queue)
  <2>1. m \in Nat /\ m # 0
    BY <1>2, NotEmpty, Zenon
  <2>. HIDE DEF m
  <2>2. (IF m < BatchSize THEN m ELSE BatchSize) \in 1 .. m
    BY <2>1, Constants
  <2>. QED
    BY <2>2, Zenon DEF m
<1>. HIDE DEF n
<1>. DEFINE first == SubSeq(queue, 1, n)
            rest == SubSeq(queue, n + 1, Len(queue))
<1>30. /\ first \in Seq(Topics) /\ first # <<>> /\ Once(first)
       /\ rest \in Seq(Topics) /\ Once(rest)
       /\ Elements(first) = {queue[i] : i \in 1 .. n}
       /\ Elements(first) \cup Elements(rest) = Elements(queue)
       /\ Elements(first) \cap Elements(rest) = {}
  BY <1>2, <1>3, CutInTwo
<1>31. batch' = first /\ queue' = rest
  BY <1>1
<1>. HIDE DEF first, rest
<1>32. /\ Elements(batch)' = Elements(first) /\ Elements(queue)' = Elements(rest)
       /\ Once(batch)' <=> Once(first)
       /\ Once(queue)' <=> Once(rest)
  BY <1>31 DEF Once, Elements
<1>4. /\ batch' \in Seq(Topics) /\ batch' # <<>> /\ Once(batch)'
      /\ queue' \in Seq(Topics) /\ Once(queue)'
      /\ Elements(batch)' = {queue[i] : i \in 1 .. n}
      /\ Elements(batch)' \cup Elements(queue)' = Elements(queue)
      /\ Elements(batch)' \cap Elements(queue)' = {}
  BY <1>30, <1>31, <1>32, Zenon
<1>5. TopicsOf(results)' = {} /\ TopicsOf(results) = {} /\ Elements(batch) = {}
  BY <1>1, <1>2, EmptyLists DEF TopicsOf
<1>6. InCycle' = Elements(queue)' \cup Elements(batch)' \cup TopicsOf(results)'
  BY DEF InCycle, Elements, TopicsOf
<1>7. InCycle' = InCycle
  BY <1>4, <1>5, <1>6, InCycleIs
<1>8. Shape'
  BY <1>1, <1>2, <1>4 DEF Shape
<1>9. Distinct'
  BY <1>1, <1>2, <1>4, <1>5 DEF Distinct, SInv, OnceEach
<1>10. doubt' = [t \in Topics |-> IF t \in Elements(batch)' THEN now + Lease ELSE doubt[t]]
  BY <1>1, <1>4
<1>11. Elements(batch)' \in SUBSET Elements(queue) /\ Elements(queue)' = Elements(queue) \ Elements(batch)'
  BY <1>4
<1>12. PICK sent : sent = Elements(batch)'
  OBVIOUS
<1>. QED
  BY <1>1, <1>4, <1>7, <1>8, <1>9, <1>10, <1>11, <1>12, Zenon

\* The answers are to the topics of the batch.
LEMMA AnswersReceived ==
  ASSUME SInv, ReceiveAnswers
  PROVE  /\ results' \in Seq(Result)
         /\ InCycle' = InCycle /\ queue' = queue /\ batch' = <<>>
         /\ Elements(queue)' = Elements(queue)
         /\ \A i \in DOMAIN results' : results'[i].retryAt # None => results'[i].retryAt >= clock
         /\ pc' = "record" /\ Shape' /\ Distinct'
<1>1. /\ results' \in [DOMAIN batch -> [topic : Topics, outcome : Answers,
                         retryAt : {None} \cup {clock + d : d \in RetryAfter}]]
      /\ \A i \in DOMAIN batch : results'[i].topic = batch[i]
  BY DEF ReceiveAnswers, PossibleResults
<1>2. pc = "wait" /\ pc' = "record" /\ batch' = <<>> /\ queue' = queue
  BY DEF ReceiveAnswers
<1>3. /\ batch \in Seq(Topics) /\ batch # <<>> /\ Once(batch) /\ results = <<>>
      /\ Once(queue) /\ Elements(queue) \cap Elements(batch) = {} /\ clock \in Nat
  BY <1>2 DEF SInv, Types, Shape, Distinct
<1>4. DOMAIN batch = 1 .. Len(batch) /\ Len(batch) \in Nat /\ Len(batch) # 0
  BY <1>3, NotEmpty, Zenon
<1>5. \A i \in DOMAIN batch :
         /\ results'[i].retryAt \in Instant
         /\ results'[i].retryAt # None => results'[i].retryAt >= clock
  <2>. TAKE i \in DOMAIN batch
  <2>1. results'[i].retryAt \in {None} \cup {clock + d : d \in RetryAfter}
    BY <1>1
  <2>. QED
    BY <1>3, <2>1, Constants DEF Instant
<1>6. \A i \in DOMAIN batch : results'[i] \in Result /\ results'[i].topic = batch[i]
  BY <1>1, <1>3, <1>5, Constants DEF Result
<1>7. DOMAIN results' = 1 .. Len(batch) /\ results' = [i \in 1 .. Len(batch) |-> results'[i]]
  BY <1>1, <1>4
<1>8. results' \in Seq(Result) /\ results' # <<>>
  <2>1. results' \in Seq(Result) /\ Len(results') = Len(batch)
    BY <1>4, <1>6, <1>7
  <2>. QED
    BY <1>4, <2>1, NotEmpty, Zenon
<1>9. OnceEach(results)'
  BY <1>3, <1>4, <1>6, <1>7 DEF Once, OnceEach
<1>10. TopicsOf(results)' = Elements(batch)
  BY <1>4, <1>6, <1>7 DEF TopicsOf, Elements
<1>11. Elements(batch)' = {} /\ TopicsOf(results) = {} /\ Elements(queue)' = Elements(queue)
       /\ Once(batch)' /\ Once(queue)'
  BY <1>2, <1>3, EmptyLists DEF Elements, TopicsOf, Once
<1>12. InCycle' = Elements(queue)' \cup Elements(batch)' \cup TopicsOf(results)'
  BY DEF InCycle, Elements, TopicsOf
<1>13. InCycle' = InCycle
  BY <1>10, <1>11, <1>12, InCycleIs
<1>14. Shape'
  BY <1>2, <1>8 DEF SInv, Shape
<1>15. Distinct'
  BY <1>3, <1>9, <1>10, <1>11 DEF Distinct
<1>16. \A i \in DOMAIN results' : results'[i].retryAt # None => results'[i].retryAt >= clock
  BY <1>4, <1>5, <1>6, <1>7
<1>. QED
  BY <1>2, <1>8, <1>11, <1>13, <1>14, <1>15, <1>16

\* The steps that end a cycle before its time change nothing stored.
Breaks == ClaimRefused \/ CommitFails \/ CycleRaises \/ Restart

LEMMA BreakKeeps ==
  ASSUME Breaks
  PROVE  /\ UNCHANGED <<clock, topic, due, lease, retriedAt, now, mine, seen, doubt, streak>>
         /\ pc' = "idle" /\ report' # "ran"
         /\ queue' = <<>> /\ batch' = <<>> /\ results' = <<>>
         /\ InCycle' = {} /\ Elements(queue)' = {} /\ Shape' /\ Distinct'
<1>. DEFINE Kept == UNCHANGED <<clock, topic, due, lease, retriedAt, now, mine, seen, doubt, streak>>
<1>1. CASE ClaimRefused
  <2>1. EndCycle(Gate) /\ Gate # "ran" /\ Kept
    BY <1>1 DEF ClaimRefused, dbVars, historyVars
  <2>. QED
    BY <2>1, CycleEnded
<1>2. CASE CommitFails \/ CycleRaises \/ Restart
  <2>1. EndCycle("failed") /\ Kept
    BY <1>2 DEF CommitFails, CycleRaises, Restart, dbVars, historyVars
  <2>. QED
    BY <2>1, CycleEnded
<1>. QED
  BY <1>1, <1>2 DEF Breaks

\* The steps that touch neither a topic nor the cycle.
Asides == SetGlobalEnabled \/ ClearApiPause \/ SetMigrating \/ Unlock \/ Tick

LEMMA AsideKeeps ==
  ASSUME Asides
  PROVE  /\ UNCHANGED <<topic, due, lease, retriedAt, cycleVars, historyVars>>
         /\ clock' \in {clock, clock + 1}
  BY DEF Asides, SetGlobalEnabled, ClearApiPause, SetMigrating, Unlock, Tick, UserStep, dbVars

\* Nothing of a cycle moves.
LEMMA CycleStill ==
  ASSUME SInv, pc' = pc, queue' = queue, batch' = batch, results' = results, read' = read
  PROVE  Shape' /\ Distinct' /\ InCycle' = InCycle /\ Elements(queue)' = Elements(queue)
<1>1. Shape'
  BY DEF SInv, Shape
<1>2. Distinct'
  BY DEF SInv, Distinct, Once, OnceEach, Elements, TopicsOf
<1>. QED
  BY <1>1, <1>2 DEF InCycle, Elements

LEMMA SavedTopic ==
  ASSUME SInv, NEW t \in Topics, NEW enabled \in BOOLEAN, SetEnabled(t, enabled)
  PROVE  \E r \in TopicRecord :
           /\ t \in Stored
           /\ r.last = topic[t].last /\ r.custom = topic[t].custom
           /\ DueAt(r) = None \/ (DueAt(r) \in Nat /\ DueAt(r) = clock + Interval)
           /\ topic' = [topic EXCEPT ![t] = r] /\ due' = [due EXCEPT ![t] = DueAt(r)]
           /\ UNCHANGED <<clock, lease, retriedAt, cycleVars, historyVars>>
<1>. DEFINE w == IF enabled THEN clock + Interval ELSE topic[t].next
            r == [topic[t] EXCEPT !.enabled = enabled, !.next = w]
<1>1. t \in Stored /\ topic[t] \in TopicRecord
  BY DEF SetEnabled, Stored, SInv, Types
<1>2. w \in Instant
  BY <1>1, Constants DEF TopicRecord, Instant, SInv, Types
<1>3. r \in TopicRecord /\ r.last = topic[t].last /\ r.custom = topic[t].custom /\ r.next = w
  <2>. HIDE DEF w
  <2>. QED
    BY <1>1, <1>2 DEF TopicRecord
<1>4. DueAt(r) = (IF enabled THEN w ELSE None)
  <2>. HIDE DEF w
  <2>. QED
    BY <1>1 DEF DueAt, TopicRecord
<1>5. /\ topic' = [topic EXCEPT ![t] = r] /\ due' = [due EXCEPT ![t] = DueAt(r)]
      /\ UNCHANGED <<clock, lease, retriedAt, cycleVars, historyVars>>
  BY DEF SetEnabled, UserStep
<1>6. DueAt(r) = None \/ (DueAt(r) \in Nat /\ DueAt(r) = clock + Interval)
  BY <1>2, <1>4, Constants DEF SInv, Types
<1>. HIDE DEF r
<1>. QED
  BY <1>1, <1>3, <1>5, <1>6

LEMMA Committed ==
  ASSUME SInv, CommitResult
  PROVE  /\ pc = "save" /\ NextResult /\ now' = now /\ clock' = clock
         /\ Head(results) \in Result /\ Head(results).topic \in Stored
         /\ read.topic \in TopicRecord /\ read.count \in Nat /\ read.at \in Nat
         /\ \E u \in TopicRecord :
              /\ u = UpdatedTopic(read.topic, Head(results).outcome, Head(results).retryAt,
                                  Interval, Schedule, read.count, now)
              /\ topic' = [topic EXCEPT ![Head(results).topic] = u]
              /\ due' = [due EXCEPT ![Head(results).topic] = DueAt(u)]
              /\ DueAt(u) \in {None, u.next} /\ DueAt(u) \in Instant
         /\ lease' = [lease EXCEPT ![Head(results).topic] = None]
         /\ retriedAt' = IF Head(results).outcome = "retry"
                           THEN [retriedAt EXCEPT ![Head(results).topic] = Append(@, read.at)]
                           ELSE retriedAt
         /\ doubt' = [doubt EXCEPT ![Head(results).topic] = None]
         /\ streak' = [streak EXCEPT ![Head(results).topic] =
                         CASE Head(results).outcome = "success" -> 0
                           [] Head(results).outcome = "retry" -> @ + 1
                           [] OTHER -> @]
<1>1. pc = "save" /\ NextResult /\ now' = now /\ clock' = clock
  BY Zenon DEF CommitResult
<1>2. read.topic \in TopicRecord /\ read.count \in Nat /\ read.at \in Nat
  BY <1>1 DEF SInv, Shape
<1>3. Head(results) \in Result
  BY <1>1, ResultDealtWith
<1>4. Head(results).topic \in Stored
  BY Zenon DEF CommitResult
<1>. DEFINE u == UpdatedTopic(read.topic, Head(results).outcome, Head(results).retryAt,
                              Interval, Schedule, read.count, now)
<1>5. u \in TopicRecord
  <2>1. /\ read.topic \in TopicRecord /\ read.count \in Nat
        /\ Head(results).outcome \in Outcomes /\ Head(results).retryAt \in Instant /\ now \in Nat
    BY <1>2, <1>3 DEF Result, SInv, Types
  <2>. QED
    BY <2>1, UpdatedRecord
<1>6. DueAt(u) \in {None, u.next} /\ DueAt(u) \in Instant
  <2>. HIDE DEF u
  <2>. QED
    BY <1>5 DEF DueAt, TopicRecord, Instant
<1>7. /\ topic' = [topic EXCEPT ![Head(results).topic] = u]
      /\ due' = [due EXCEPT ![Head(results).topic] = DueAt(u)]
  BY Zenon DEF CommitResult
<1>8. /\ lease' = [lease EXCEPT ![Head(results).topic] = None]
      /\ doubt' = [doubt EXCEPT ![Head(results).topic] = None]
  BY Zenon DEF CommitResult
<1>9. retriedAt' = IF Head(results).outcome = "retry"
                     THEN [retriedAt EXCEPT ![Head(results).topic] = Append(@, read.at)]
                     ELSE retriedAt
  BY Zenon DEF CommitResult
<1>10. streak' = [streak EXCEPT ![Head(results).topic] =
                    CASE Head(results).outcome = "success" -> 0
                      [] Head(results).outcome = "retry" -> @ + 1
                      [] OTHER -> @]
  BY Zenon DEF CommitResult
<1>11. \E r \in TopicRecord :
         /\ r = u
         /\ topic' = [topic EXCEPT ![Head(results).topic] = r]
         /\ due' = [due EXCEPT ![Head(results).topic] = DueAt(r)]
         /\ DueAt(r) \in {None, r.next} /\ DueAt(r) \in Instant
  <2>. HIDE DEF u
  <2>. QED
    BY <1>5, <1>6, <1>7
<1>. QED
  BY <1>1, <1>2, <1>3, <1>4, <1>8, <1>9, <1>10, <1>11

LEMMA Released ==
  ASSUME SInv, ReleaseLeases
  PROVE  /\ lease' = [t \in Topics |-> IF t \in Stored /\ t \in Elements(queue)
                                         THEN None ELSE lease[t]]
         /\ UNCHANGED <<clock, topic, due, retriedAt, now, historyVars>>
         /\ pc = "release" /\ InCycle = Elements(queue)
         /\ queue' = <<>> /\ batch' = <<>> /\ results' = <<>>
         /\ pc' = "idle" /\ InCycle' = {} /\ Elements(queue)' = {} /\ Shape' /\ Distinct'
<1>1. EndCycle("ran") /\ pc = "release"
  BY DEF ReleaseLeases
<1>2. batch = <<>> /\ results = <<>>
  BY <1>1 DEF SInv, Shape
<1>3. InCycle = Elements(queue)
  BY <1>2, InCycleIs, EmptyLists
<1>4. lease' = [t \in Topics |-> IF t \in Stored /\ t \in Elements(queue) THEN None ELSE lease[t]]
  BY DEF ReleaseLeases, Elements
<1>5. UNCHANGED <<clock, topic, due, retriedAt, now, historyVars>>
  BY DEF ReleaseLeases
<1>. QED
  BY <1>1, <1>3, <1>4, <1>5, CycleEnded

\* What is read for a result, or the result of a topic that is gone.
LEMMA ReadOrSkipped ==
  ASSUME SInv, ReadForResult
  PROVE  LET t == Head(results).topic
         IN  /\ pc = "record" /\ t \in InCycle
             /\ UNCHANGED <<clock, topic, due, lease, retriedAt, now, mine, doubt, streak>>
             /\ \/ /\ t \in Stored /\ pc' = "save"
                   /\ read' = [topic |-> topic[t], settings |-> settings,
                               count |-> RetryCount(t, topic[t].last), at |-> clock]
                   /\ UNCHANGED <<queue, batch, results, rejected, seen, report>>
                \/ t \notin Stored /\ NextResult
<1>. DEFINE t == Head(results).topic
<1>1. pc = "record"
  BY DEF ReadForResult
<1>2. results \in Seq(Result) /\ results # <<>> /\ OnceEach(results)
  BY <1>1 DEF SInv, Types, Shape, Distinct
<1>3. t \in InCycle
  BY <1>2, WithoutHead, InCycleIs
<1>4. UNCHANGED <<clock, topic, due, lease, retriedAt, now, mine, doubt, streak>>
  <2>1. UNCHANGED <<clock, topic, due, lease, retriedAt, now>>
    BY DEF ReadForResult, dbVars
  <2>2. UNCHANGED <<doubt, streak>>
    BY DEF ReadForResult, historyVars
  <2>3. UNCHANGED mine
    <3>1. NextResult => UNCHANGED mine
      BY Zenon DEF NextResult
    <3>. QED
      BY <3>1 DEF ReadForResult, historyVars
  <2>. QED
    BY <2>1, <2>2, <2>3
<1>5. \/ /\ t \in Stored /\ pc' = "save"
         /\ read' = [topic |-> topic[t], settings |-> settings,
                     count |-> RetryCount(t, topic[t].last), at |-> clock]
         /\ UNCHANGED <<queue, batch, results, rejected, seen, report>>
      \/ t \notin Stored /\ NextResult
  BY DEF ReadForResult, historyVars
<1>. QED
  BY <1>1, <1>3, <1>4, <1>5


-----------------------------------------------------------------------------
(* Counting retries.                                                       *)

CountSince(s, since) == Cardinality({i \in DOMAIN s : since = None \/ s[i] > since})

LEMMA CountIs == \A t, since : RetryCount(t, since) = CountSince(retriedAt[t], since)
  BY DEF RetryCount, CountSince

LEMMA CountedFinite ==
  ASSUME NEW s \in Seq(Nat), NEW since
  PROVE  /\ IsFiniteSet({i \in DOMAIN s : since = None \/ s[i] > since})
         /\ CountSince(s, since) \in Nat
<1>. DEFINE counted == {i \in DOMAIN s : since = None \/ s[i] > since}
<1>1. IsFiniteSet(DOMAIN s)
  <2>1. DOMAIN s = 1 .. Len(s) /\ 1 \in Int /\ Len(s) \in Int
    OBVIOUS
  <2>. QED
    BY <2>1, FS_Interval, Zenon
<1>2. counted \subseteq DOMAIN s
  OBVIOUS
<1>3. IsFiniteSet(counted)
  BY <1>1, <1>2, FS_Subset, Zenon
<1>. QED
  BY <1>3, FS_CardinalityType, Zenon DEF CountSince

\* None is counted when all lie in the past.
LEMMA NoneSince ==
  ASSUME NEW s \in Seq(Nat), NEW n \in Nat, \A i \in DOMAIN s : s[i] <= n
  PROVE  CountSince(s, n) = 0
<1>1. {i \in DOMAIN s : n = None \/ s[i] > n} = {}
  BY Constants
<1>. QED
  BY <1>1, FS_EmptySet, Zenon DEF CountSince

\* One more is counted when one is added that came later.
LEMMA OneMore ==
  ASSUME NEW s \in Seq(Nat), NEW v \in Nat, NEW since \in Instant, since = None \/ v > since
  PROVE  CountSince(Append(s, v), since) = CountSince(s, since) + 1
<1>. DEFINE counted == {i \in DOMAIN s : since = None \/ s[i] > since}
            more == {i \in DOMAIN Append(s, v) : since = None \/ Append(s, v)[i] > since}
            next == Len(s) + 1
<1>1. /\ Len(s) \in Nat /\ DOMAIN s = 1 .. Len(s)
      /\ DOMAIN Append(s, v) = 1 .. Len(s) + 1
      /\ Append(s, v)[Len(s) + 1] = v
      /\ \A i \in 1 .. Len(s) : Append(s, v)[i] = s[i]
  OBVIOUS
<1>2. next \notin counted
  BY <1>1
<1>3. more = counted \cup {next}
  <2>1. \A i \in more : i \in counted \/ i = next
    BY <1>1
  <2>2. \A i \in counted : i \in more
    BY <1>1
  <2>3. next \in more
    BY <1>1
  <2>. QED
    BY <2>1, <2>2, <2>3, Zenon
<1>. HIDE DEF next
<1>4. IsFiniteSet(counted)
  BY CountedFinite
<1>. HIDE DEF counted, more
<1>5. Cardinality(more) = Cardinality(counted) + 1
  BY <1>2, <1>3, <1>4, FS_AddElement
<1>. QED
  BY <1>5 DEF CountSince, counted, more

-----------------------------------------------------------------------------
LEMMA SInvInit == Init => SInv
<1>. SUFFICES ASSUME Init PROVE SInv
  OBVIOUS
<1>1. [enabled |-> TRUE, custom |-> None, last |-> None, next |-> Interval] \in TopicRecord
  BY Constants DEF TopicRecord, Instant
<1>2. Types
  BY <1>1, Constants DEF Init, Types, Instant
<1>3. Shape
  BY DEF Init, Shape
<1>4. Distinct
  BY EmptyLists DEF Init, Distinct
<1>. QED
  BY <1>2, <1>3, <1>4 DEF SInv

LEMMA SInvNext == SInv /\ [Next]_vars => SInv'
<1>. SUFFICES ASSUME SInv, [Next]_vars PROVE SInv'
  OBVIOUS
<1>. USE DEF SInv
<1>1. CASE UNCHANGED vars
  <2>1. Types'
    BY <1>1 DEF vars, dbVars, cycleVars, historyVars, Types
  <2>2. pc' = pc /\ queue' = queue /\ batch' = batch /\ results' = results /\ read' = read
    BY <1>1 DEF vars, cycleVars
  <2>3. Shape' /\ Distinct'
    BY <2>2, CycleStill
  <2>. QED
    BY <2>1, <2>3
<1>2. CASE BeginCycle
  <2>1. pc = "idle" /\ pc' = "claim" /\ now' = clock
        /\ UNCHANGED <<clock, topic, due, lease, retriedAt, queue, batch, results, read, doubt, streak>>
    BY <1>2 DEF BeginCycle, dbVars
  <2>2. Types'
    BY <2>1 DEF Types
  <2>3. Shape'
    BY <2>1 DEF Shape
  <2>4. Distinct'
    BY <2>1 DEF Distinct, Once, OnceEach, Elements, TopicsOf
  <2>. QED
    BY <2>2, <2>3, <2>4
<1>3. CASE Breaks
  <2>1. /\ UNCHANGED <<clock, topic, due, lease, retriedAt, now, mine, seen, doubt, streak>>
        /\ queue' = <<>> /\ batch' = <<>> /\ results' = <<>> /\ Shape' /\ Distinct'
    BY <1>3, BreakKeeps
  <2>2. Types'
    BY <2>1 DEF Types
  <2>. QED
    BY <2>1, <2>2
<1>4. CASE Claim
  <2>1. UNCHANGED <<clock, now, topic, retriedAt, doubt, streak>>
    BY <1>4 DEF Claim
  <2>2. PICK tried \in SUBSET Topics, kept \in SUBSET Topics :
          /\ lease' = [t \in Topics |-> IF t \in kept THEN now + Lease
                                        ELSE IF t \in tried THEN None ELSE lease[t]]
          /\ due' = [t \in Topics |-> IF t \in tried \ kept THEN None ELSE due[t]]
          /\ queue' \in Seq(Topics) /\ batch' = <<>> /\ results' = <<>>
          /\ Shape' /\ Distinct'
    BY <1>4, ClaimTakes
  <2>3. lease' \in [Topics -> Instant] /\ due' \in [Topics -> Instant]
    BY <2>2, Constants DEF Types, Instant
  <2>4. batch' \in Seq(Topics) /\ results' \in Seq(Result)
    BY <2>2
  <2>5. Types'
    BY <2>1, <2>2, <2>3, <2>4 DEF Types
  <2>. QED
    BY <2>2, <2>5
<1>5. CASE SendBatch
  <2>1. UNCHANGED <<clock, now, topic, due, lease, retriedAt, streak>>
    BY <1>5 DEF SendBatch, dbVars
  <2>2. PICK sent \in SUBSET Elements(queue) :
          /\ doubt' = [t \in Topics |-> IF t \in sent THEN now + Lease ELSE doubt[t]]
          /\ queue' \in Seq(Topics) /\ batch' \in Seq(Topics) /\ results' = results
          /\ Shape' /\ Distinct'
    BY <1>5, SendTakes
  <2>3. doubt' \in [Topics -> Instant]
    BY <2>2, Constants DEF Types, Instant
  <2>4. Types'
    BY <2>1, <2>2, <2>3 DEF Types
  <2>. QED
    BY <2>2, <2>4
<1>6. CASE ReceiveAnswers
  <2>1. UNCHANGED <<clock, now, topic, due, lease, retriedAt, doubt, streak>>
    BY <1>6 DEF ReceiveAnswers, dbVars, historyVars
  <2>2. results' \in Seq(Result) /\ queue' = queue /\ batch' = <<>> /\ Shape' /\ Distinct'
    BY <1>6, AnswersReceived
  <2>3. Types'
    BY <2>1, <2>2 DEF Types
  <2>. QED
    BY <2>2, <2>3
<1>7. CASE ReadForResult
  <2>. DEFINE t == Head(results).topic
  <2>1. /\ pc = "record"
        /\ UNCHANGED <<clock, topic, due, lease, retriedAt, now, mine, doubt, streak>>
        /\ \/ /\ t \in Stored /\ pc' = "save"
              /\ read' = [topic |-> topic[t], settings |-> settings,
                          count |-> RetryCount(t, topic[t].last), at |-> clock]
              /\ UNCHANGED <<queue, batch, results, rejected, seen, report>>
           \/ t \notin Stored /\ NextResult
    BY <1>7, ReadOrSkipped
  <2>2. CASE NextResult
    BY <2>1, <2>2, ResultDealtWith DEF Types
  <2>3. CASE /\ t \in Stored /\ pc' = "save"
             /\ read' = [topic |-> topic[t], settings |-> settings,
                         count |-> RetryCount(t, topic[t].last), at |-> clock]
             /\ UNCHANGED <<queue, batch, results, rejected, seen, report>>
    <3>1. Types'
      BY <2>1, <2>3 DEF Types
    <3>2. Distinct'
      BY <2>3 DEF Distinct, Once, OnceEach, Elements, TopicsOf
    <3>3. t \in Topics /\ topic[t] \in TopicRecord
      BY <2>3 DEF Stored, Types
    <3>4. retriedAt[t] \in Seq(Nat)
      BY <3>3 DEF Types
    <3>5. RetryCount(t, topic[t].last) \in Nat
      BY <3>4, CountIs, CountedFinite
    <3>6. Shape'
      BY <2>1, <2>3, <3>3, <3>5 DEF Shape, Types
    <3>. QED
      BY <3>1, <3>2, <3>6
  <2>. QED
    BY <2>1, <2>2, <2>3
<1>8. CASE CommitResult
  <2>. DEFINE t == Head(results).topic
  <2>1. /\ pc = "save" /\ NextResult /\ now' = now /\ clock' = clock
        /\ Head(results) \in Result /\ t \in Stored /\ read.at \in Nat
        /\ lease' = [lease EXCEPT ![t] = None] /\ doubt' = [doubt EXCEPT ![t] = None]
        /\ retriedAt' = IF Head(results).outcome = "retry"
                          THEN [retriedAt EXCEPT ![t] = Append(@, read.at)]
                          ELSE retriedAt
        /\ streak' = [streak EXCEPT ![t] =
                        CASE Head(results).outcome = "success" -> 0
                          [] Head(results).outcome = "retry" -> @ + 1
                          [] OTHER -> @]
    BY <1>8, Committed
  <2>2. PICK u \in TopicRecord : /\ topic' = [topic EXCEPT ![t] = u]
                                 /\ due' = [due EXCEPT ![t] = DueAt(u)]
                                 /\ DueAt(u) \in Instant
    BY <1>8, Committed
  <2>3. queue' \in Seq(Topics) /\ batch' \in Seq(Topics) /\ results' \in Seq(Result)
        /\ Shape' /\ Distinct'
    BY <2>1, ResultDealtWith
  <2>4. t \in Topics
    BY <2>1 DEF Stored
  <2>. HIDE DEF t
  <2>5. /\ topic' \in [Topics -> TopicRecord \cup {None}] /\ due' \in [Topics -> Instant]
        /\ lease' \in [Topics -> Instant] /\ doubt' \in [Topics -> Instant]
    BY <2>1, <2>2, <2>4 DEF Types, Instant
  <2>6. retriedAt' \in [Topics -> Seq(Nat)]
    <3>1. retriedAt[t] \in Seq(Nat)
      BY <2>4 DEF Types
    <3>2. Append(retriedAt[t], read.at) \in Seq(Nat)
      BY <2>1, <3>1
    <3>. QED
      BY <2>1, <3>2 DEF Types
  <2>7. streak' \in [Topics -> Nat]
    <3>1. (CASE Head(results).outcome = "success" -> 0
             [] Head(results).outcome = "retry" -> streak[t] + 1
             [] OTHER -> streak[t]) \in Nat
      BY <2>4 DEF Types
    <3>. QED
      BY <2>1, <3>1 DEF Types
  <2>8. Types'
    BY <2>1, <2>3, <2>5, <2>6, <2>7 DEF Types
  <2>. QED
    BY <2>3, <2>8
<1>9. CASE ReleaseLeases
  <2>1. /\ lease' = [t \in Topics |-> IF t \in Stored /\ t \in Elements(queue)
                                        THEN None ELSE lease[t]]
        /\ UNCHANGED <<clock, topic, due, retriedAt, now, historyVars>>
        /\ queue' = <<>> /\ batch' = <<>> /\ results' = <<>> /\ Shape' /\ Distinct'
    BY <1>9, Released
  <2>2. Types'
    BY <2>1 DEF Types, Instant, historyVars
  <2>. QED
    BY <2>1, <2>2
<1>10. ASSUME NEW t \in Topics, NEW enabled \in BOOLEAN, SetEnabled(t, enabled) PROVE SInv'
  <2>1. PICK r \in TopicRecord :
          /\ DueAt(r) = None \/ (DueAt(r) \in Nat /\ DueAt(r) = clock + Interval)
          /\ topic' = [topic EXCEPT ![t] = r] /\ due' = [due EXCEPT ![t] = DueAt(r)]
          /\ UNCHANGED <<clock, lease, retriedAt, cycleVars, historyVars>>
    BY <1>10, SavedTopic
  <2>2. DueAt(r) \in Instant
    BY <2>1 DEF Instant
  <2>3. Types'
    BY <2>1, <2>2 DEF Types, cycleVars, historyVars
  <2>4. pc' = pc /\ queue' = queue /\ batch' = batch /\ results' = results /\ read' = read
    BY <2>1 DEF cycleVars
  <2>5. Shape' /\ Distinct'
    BY <2>4, CycleStill
  <2>. QED
    BY <2>3, <2>5
<1>11. ASSUME NEW t \in Topics, Remove(t) PROVE SInv'
  <2>1. /\ topic' = [topic EXCEPT ![t] = None] /\ due' = [due EXCEPT ![t] = None]
        /\ lease' = [lease EXCEPT ![t] = None] /\ retriedAt' = [retriedAt EXCEPT ![t] = <<>>]
        /\ UNCHANGED <<clock, cycleVars, historyVars>>
    BY <1>11 DEF Remove, UserStep
  <2>2. <<>> \in Seq(Nat) /\ None \in Instant
    BY DEF Instant
  <2>3. Types'
    BY <2>1, <2>2 DEF Types, cycleVars, historyVars
  <2>4. pc' = pc /\ queue' = queue /\ batch' = batch /\ results' = results /\ read' = read
    BY <2>1 DEF cycleVars
  <2>5. Shape' /\ Distinct'
    BY <2>4, CycleStill
  <2>. QED
    BY <2>3, <2>5
<1>12. CASE Asides
  <2>1. /\ UNCHANGED <<topic, due, lease, retriedAt, cycleVars, historyVars>>
        /\ clock' \in {clock, clock + 1}
    BY <1>12, AsideKeeps
  <2>2. Types'
    BY <2>1 DEF Types, cycleVars, historyVars
  <2>4. pc' = pc /\ queue' = queue /\ batch' = batch /\ results' = results /\ read' = read
    BY <2>1 DEF cycleVars
  <2>5. Shape' /\ Distinct'
    BY <2>4, CycleStill
  <2>. QED
    BY <2>2, <2>5
<1>. QED
  BY <1>1, <1>2, <1>3, <1>4, <1>5, <1>6, <1>7, <1>8, <1>9, <1>10, <1>11, <1>12
     DEF Next, CycleStep, Breaks, Asides

-----------------------------------------------------------------------------
(* After a rejection.                                                      *)

\* What the forum rejected is remembered until the cycle decides, and before a
\* batch is sent there is nothing to remember.
RejectionKnown ==
  /\ pc = "idle" \/ pc = "claim" => ~rejected
  /\ pc \in {"claim", "send", "wait"} => seen \cap Rejections = {}
  /\ pc \in {"record", "save"} /\ seen \cap Rejections # {} => rejected

\* Next result: goes on to another batch only if nothing was rejected.
LEMMA RejectionKnownAfter ==
  ASSUME SInv, RejectionKnown, pc \in {"record", "save"}, NextResult
  PROVE  RejectionKnown'
<1>. DEFINE outcome == Head(results).outcome
            stop == rejected \/ outcome \in Rejections
<1>1. seen' = seen \cup {outcome}
  BY Zenon DEF NextResult
<1>2. seen' \cap Rejections # {} => stop
  BY <1>1 DEF RejectionKnown
<1>3. Len(results) \in Nat
  BY NotEmpty DEF SInv, Types
<1>4. \/ pc' = "record" /\ rejected' = stop
      \/ pc' = (IF stop THEN "release" ELSE "send") /\ rejected' = stop
      \/ EndCycle("ran")
  BY <1>3, Zenon DEF NextResult
<1>5. EndCycle("ran") => pc' = "idle" /\ rejected' = FALSE
  BY DEF EndCycle
<1>. HIDE DEF stop
<1>. QED
  BY <1>2, <1>4, <1>5, Zenon DEF RejectionKnown

LEMMA RejectionKnownNext == SInv /\ RejectionKnown /\ [Next]_vars => RejectionKnown'
<1>. SUFFICES ASSUME SInv, RejectionKnown, [Next]_vars PROVE RejectionKnown'
  OBVIOUS
<1>1. CASE UNCHANGED vars
  BY <1>1, Zenon DEF vars, cycleVars, historyVars, RejectionKnown
<1>2. CASE BeginCycle
  <2>1. pc = "idle" /\ pc' = "claim" /\ rejected' = rejected /\ seen' = {}
    BY <1>2 DEF BeginCycle
  <2>. QED
    BY <2>1, Zenon DEF RejectionKnown
<1>3. CASE Breaks
  <2>1. pc' = "idle" /\ rejected' = FALSE
    BY <1>3 DEF Breaks, ClaimRefused, CommitFails, CycleRaises, Restart, EndCycle
  <2>. QED
    BY <2>1, Zenon DEF RejectionKnown
<1>4. CASE Claim
  <2>1. pc = "claim" /\ seen' = seen
    BY <1>4 DEF Claim
  <2>2. EndCycle("ran") \/ (pc' = "send" /\ rejected' = rejected)
    BY <1>4, Zenon DEF Claim
  <2>3. EndCycle("ran") => pc' = "idle" /\ rejected' = FALSE
    BY DEF EndCycle
  <2>. QED
    BY <2>1, <2>2, <2>3, Zenon DEF RejectionKnown
<1>5. CASE SendBatch
  <2>1. pc = "send" /\ pc' = "wait" /\ seen' = seen
    BY <1>5 DEF SendBatch
  <2>. QED
    BY <2>1, Zenon DEF RejectionKnown
<1>6. CASE ReceiveAnswers
  <2>1. pc = "wait" /\ pc' = "record" /\ seen' = seen
    BY <1>6 DEF ReceiveAnswers, historyVars
  <2>. QED
    BY <2>1, Zenon DEF RejectionKnown
<1>7. CASE ReadForResult
  <2>1. /\ pc = "record"
        /\ \/ pc' = "save" /\ UNCHANGED <<rejected, seen>>
           \/ NextResult
    BY <1>7, ReadOrSkipped
  <2>. QED
    BY <2>1, RejectionKnownAfter, Zenon DEF RejectionKnown
<1>8. CASE CommitResult
  BY <1>8, Committed, RejectionKnownAfter
<1>9. CASE ReleaseLeases
  <2>1. pc' = "idle" /\ rejected' = FALSE
    BY <1>9 DEF ReleaseLeases, EndCycle
  <2>. QED
    BY <2>1, Zenon DEF RejectionKnown
<1>10. CASE \/ Asides
            \/ \E t \in Topics : Remove(t) \/ \E enabled \in BOOLEAN : SetEnabled(t, enabled)
  <2>1. pc' = pc /\ rejected' = rejected /\ seen' = seen
    BY <1>10, AsideKeeps DEF Remove, SetEnabled, UserStep, cycleVars, historyVars
  <2>. QED
    BY <2>1, Zenon DEF RejectionKnown
<1>. QED
  BY <1>1, <1>2, <1>3, <1>4, <1>5, <1>6, <1>7, <1>8, <1>9, <1>10
     DEF Next, CycleStep, Breaks, Asides

\* Once the forum has rejected the account, the cycle sends no further batch.
THEOREM NoBatchAfterRejectionAlways == Spec => []NoBatchAfterRejection
<1>1. Init => SInv /\ RejectionKnown
  BY SInvInit DEF Init, RejectionKnown
<1>2. SInv /\ RejectionKnown /\ [Next]_vars => (SInv /\ RejectionKnown)'
  BY SInvNext, RejectionKnownNext
<1>3. RejectionKnown => NoBatchAfterRejection
  BY DEF RejectionKnown, NoBatchAfterRejection
<1>. QED
  BY <1>1, <1>2, <1>3, PTL DEF Spec

-----------------------------------------------------------------------------
(* Leases.                                                                 *)

\* A topic in the queue shows the cycle's lease, and a lease of a cycle that
\* goes on, or ended by itself, is of a topic in its hands.
LeasesHeld ==
  /\ \A t \in Elements(queue) \cap Stored : lease[t] = now + Lease
  /\ (pc = "idle" => report = "ran") =>
       \A t \in mine \cap Stored : lease[t] = now + Lease => t \in InCycle

LEMMA LeasesHeldNext == SInv /\ LeasesHeld /\ [Next]_vars => LeasesHeld'
<1>. SUFFICES ASSUME SInv, LeasesHeld, [Next]_vars PROVE LeasesHeld'
  OBVIOUS
<1>. USE DEF LeasesHeld
<1>0. now + Lease # None
  BY Constants DEF SInv, Types
<1>1. CASE UNCHANGED vars
  <2>1. UNCHANGED <<topic, lease, now, mine, report>>
        /\ pc' = pc /\ queue' = queue /\ batch' = batch /\ results' = results /\ read' = read
    BY <1>1 DEF vars, dbVars, cycleVars, historyVars
  <2>2. InCycle' = InCycle /\ Elements(queue)' = Elements(queue)
    BY <2>1, CycleStill
  <2>. QED
    BY <2>1, <2>2 DEF Stored
<1>2. CASE BeginCycle
  <2>1. queue = <<>> /\ queue' = queue /\ mine' = {}
    BY <1>2 DEF BeginCycle, SInv, Shape
  <2>2. Elements(queue)' = {}
    BY <2>1, EmptyLists DEF Elements
  <2>. QED
    BY <2>1, <2>2
<1>3. CASE Breaks
  BY <1>3, BreakKeeps
<1>4. CASE Claim
  <2>1. UNCHANGED <<now, topic>>
    BY <1>4 DEF Claim
  <2>2. PICK tried \in SUBSET Topics, kept \in SUBSET Topics :
          /\ lease' = [t \in Topics |-> IF t \in kept THEN now + Lease
                                        ELSE IF t \in tried THEN None ELSE lease[t]]
          /\ mine' = kept /\ InCycle' = kept /\ Elements(queue)' = kept
    BY <1>4, ClaimTakes
  <2>. QED
    BY <2>1, <2>2
<1>5. CASE SendBatch
  <2>1. UNCHANGED <<now, topic, lease, mine>> /\ pc = "send"
    BY <1>5 DEF SendBatch, dbVars
  <2>2. Elements(queue)' \subseteq Elements(queue) /\ InCycle' = InCycle
    BY <1>5, SendTakes
  <2>. QED
    BY <2>1, <2>2 DEF Stored
<1>6. CASE ReceiveAnswers
  <2>1. UNCHANGED <<now, topic, lease, mine>> /\ pc = "wait"
    BY <1>6 DEF ReceiveAnswers, dbVars, historyVars
  <2>2. Elements(queue)' = Elements(queue) /\ InCycle' = InCycle
    BY <1>6, AnswersReceived
  <2>. QED
    BY <2>1, <2>2 DEF Stored
<1>7. CASE ReadForResult
  <2>. DEFINE t == Head(results).topic
  <2>1. /\ pc = "record"
        /\ UNCHANGED <<topic, lease, now, mine>>
        /\ \/ pc' = "save" /\ UNCHANGED <<queue, batch, results>>
           \/ t \notin Stored /\ NextResult
    BY <1>7, ReadOrSkipped
  <2>2. CASE pc' = "save" /\ UNCHANGED <<queue, batch, results>>
    <3>1. InCycle' = InCycle /\ Elements(queue)' = Elements(queue)
      BY <2>2 DEF InCycle, Elements
    <3>. QED
      BY <2>1, <3>1 DEF Stored
  <2>3. CASE t \notin Stored /\ NextResult
    <3>1. InCycle' = InCycle \ {t} /\ Elements(queue)' \subseteq Elements(queue)
      BY <2>1, <2>3, ResultDealtWith
    <3>. QED
      BY <2>1, <2>3, <3>1 DEF Stored
  <2>. QED
    BY <2>1, <2>2, <2>3
<1>8. CASE CommitResult
  <2>. DEFINE t == Head(results).topic
  <2>1. pc = "save" /\ NextResult /\ now' = now /\ t \in Stored
        /\ lease' = [lease EXCEPT ![t] = None]
    BY <1>8, Committed
  <2>2. \E u : topic' = [topic EXCEPT ![t] = u]
    BY <1>8, Committed
  <2>3. mine' = mine
    BY <2>1, Zenon DEF NextResult
  <2>4. /\ InCycle' = InCycle \ {t} /\ Elements(queue)' \subseteq Elements(queue)
        /\ t \notin Elements(queue)
    BY <2>1, ResultDealtWith
  <2>5. t \in Topics /\ Stored' \ {t} \subseteq Stored /\ Stored' \subseteq Topics
    BY <2>1, <2>2 DEF Stored
  <2>6. /\ lease'[t] = None
        /\ \A s \in Stored' \ {t} : lease'[s] = lease[s]
    BY <2>1, <2>5 DEF SInv, Types
  <2>. HIDE DEF t
  <2>7. \A s \in Elements(queue)' \cap Stored' : lease'[s] = now' + Lease
    BY <2>1, <2>4, <2>5, <2>6
  <2>8. \A s \in mine' \cap Stored' : lease'[s] = now' + Lease => s \in InCycle'
    BY <1>0, <2>1, <2>3, <2>4, <2>5, <2>6
  <2>. QED
    BY <2>7, <2>8
<1>9. CASE ReleaseLeases
  <2>1. /\ lease' = [t \in Topics |-> IF t \in Stored /\ t \in Elements(queue)
                                        THEN None ELSE lease[t]]
        /\ UNCHANGED <<topic, now, mine>> /\ pc = "release" /\ InCycle = Elements(queue)
        /\ Elements(queue)' = {}
    BY <1>9, Released DEF historyVars
  <2>2. Stored' = Stored /\ Stored \subseteq Topics
    BY <2>1 DEF Stored
  <2>3. \A t \in mine' \cap Stored' : lease'[t] # now' + Lease
    BY <1>0, <2>1, <2>2
  <2>. QED
    BY <2>1, <2>3
<1>10. CASE \E t \in Topics : Remove(t) \/ \E enabled \in BOOLEAN : SetEnabled(t, enabled)
  <2>1. PICK t \in Topics : /\ \A s \in Topics \ {t} : lease'[s] = lease[s]
                            /\ t \in Stored
                            /\ Stored' \subseteq Stored
                            /\ t \in Stored' => lease'[t] = lease[t]
                            /\ UNCHANGED <<cycleVars, historyVars>>
    <3>1. ASSUME NEW t \in Topics, Remove(t)
          PROVE  /\ \A s \in Topics \ {t} : lease'[s] = lease[s]
                 /\ t \in Stored /\ Stored' \subseteq Stored /\ t \notin Stored'
                 /\ UNCHANGED <<cycleVars, historyVars>>
      BY <3>1 DEF Remove, UserStep, Stored, SInv, Types
    <3>2. ASSUME NEW t \in Topics, NEW enabled \in BOOLEAN, SetEnabled(t, enabled)
          PROVE  /\ lease' = lease
                 /\ t \in Stored /\ Stored' \subseteq Stored
                 /\ UNCHANGED <<cycleVars, historyVars>>
      BY <3>2 DEF SetEnabled, UserStep, Stored, SInv, Types
    <3>. QED
      BY <1>10, <3>1, <3>2
  <2>2. pc' = pc /\ queue' = queue /\ batch' = batch /\ results' = results /\ read' = read
        /\ now' = now /\ report' = report /\ mine' = mine
    BY <2>1 DEF cycleVars, historyVars
  <2>3. InCycle' = InCycle /\ Elements(queue)' = Elements(queue)
    BY <2>2, CycleStill
  <2>4. \A s \in Stored' : s \in Stored /\ lease'[s] = lease[s]
    BY <2>1 DEF Stored
  <2>. QED
    BY <2>2, <2>3, <2>4
<1>11. CASE Asides
  <2>1. UNCHANGED <<topic, lease, cycleVars, historyVars>>
    BY <1>11, AsideKeeps
  <2>2. pc' = pc /\ queue' = queue /\ batch' = batch /\ results' = results /\ read' = read
        /\ now' = now /\ report' = report /\ mine' = mine
    BY <2>1 DEF cycleVars, historyVars
  <2>3. InCycle' = InCycle /\ Elements(queue)' = Elements(queue)
    BY <2>2, CycleStill
  <2>. QED
    BY <2>1, <2>2, <2>3 DEF Stored
<1>. QED
  BY <1>1, <1>2, <1>3, <1>4, <1>5, <1>6, <1>7, <1>8, <1>9, <1>10, <1>11
     DEF Next, CycleStep, Breaks, Asides

\* A cycle that ends by itself leaves none of its leases behind.
THEOREM NoLeaseLeftBehindAlways == Spec => []NoLeaseLeftBehind
<1>1. Init => SInv /\ LeasesHeld
  <2>1. Init => Elements(queue) = {}
    BY EmptyLists DEF Init
  <2>. QED
    BY <2>1, SInvInit DEF Init, LeasesHeld
<1>2. SInv /\ LeasesHeld /\ [Next]_vars => (SInv /\ LeasesHeld)'
  BY SInvNext, LeasesHeldNext
<1>3. SInv /\ LeasesHeld => NoLeaseLeftBehind
  <2>. SUFFICES ASSUME SInv, LeasesHeld, pc = "idle", report = "ran",
                       NEW t \in mine \cap Stored, lease[t] = now + Lease
                PROVE  FALSE
    BY DEF NoLeaseLeftBehind
  <2>1. queue = <<>> /\ batch = <<>> /\ results = <<>>
    BY DEF SInv, Shape
  <2>2. InCycle = {}
    BY <2>1, InCycleIs, EmptyLists
  <2>. QED
    BY <2>2 DEF LeasesHeld
<1>. QED
  BY <1>1, <1>2, <1>3, PTL DEF Spec

-----------------------------------------------------------------------------
(* Jobs in doubt.                                                          *)

\* A job sent and not recorded holds its topic until its lease has run out: a
\* topic that is there still shows that lease, and one in the queue again was
\* free when it was claimed.
DoubtsLeased ==
  /\ \A t \in Stored : \/ doubt[t] = None
                       \/ doubt[t] <= now
                       \/ lease[t] # None /\ doubt[t] <= lease[t]
  /\ \A t \in Elements(queue) : doubt[t] = None \/ doubt[t] <= now

LEMMA DoubtsLeasedNext == SInv /\ LeasesHeld /\ DoubtsLeased /\ [Next]_vars => DoubtsLeased'
<1>. SUFFICES ASSUME SInv, LeasesHeld, DoubtsLeased, [Next]_vars PROVE DoubtsLeased'
  OBVIOUS
<1>0. /\ now \in Nat /\ clock \in Nat /\ now <= clock /\ Lease \in Nat /\ None \notin Nat
      /\ \A t \in Topics : /\ lease[t] \in Nat \cup {None}
                           /\ doubt[t] \in Nat \cup {None}
      /\ Stored \subseteq Topics /\ Elements(queue) \subseteq Topics
  BY Constants DEF SInv, Types, Instant, Stored, Elements
<1>1. ASSUME UNCHANGED <<topic, lease, doubt, now>>, Elements(queue)' \subseteq Elements(queue)
      PROVE  DoubtsLeased'
  BY <1>1 DEF DoubtsLeased, Stored
<1>2. CASE UNCHANGED vars
  <2>1. UNCHANGED <<topic, lease, doubt, now, queue>>
    BY <1>2 DEF vars, dbVars, cycleVars, historyVars
  <2>2. Elements(queue)' = Elements(queue)
    BY <2>1 DEF Elements
  <2>. QED
    BY <1>1, <2>1, <2>2
<1>3. CASE BeginCycle
  <2>1. queue' = <<>> /\ now' = clock /\ UNCHANGED <<topic, lease, doubt>>
    BY <1>3 DEF BeginCycle, SInv, Shape, dbVars
  <2>2. Elements(queue)' = {} /\ Stored' = Stored
    BY <2>1, EmptyLists DEF Elements, Stored
  <2>3. ASSUME NEW t \in Stored
        PROVE  doubt[t] = None \/ doubt[t] <= clock \/ (lease[t] # None /\ doubt[t] <= lease[t])
    BY <1>0 DEF DoubtsLeased
  <2>. QED
    BY <2>1, <2>2, <2>3 DEF DoubtsLeased
<1>4. CASE Breaks
  <2>1. UNCHANGED <<topic, lease, doubt, now>> /\ Elements(queue)' = {}
    BY <1>4, BreakKeeps
  <2>. QED
    BY <1>1, <2>1
<1>5. CASE Claim
  <2>1. UNCHANGED <<now, topic, doubt>>
    BY <1>5 DEF Claim
  <2>2. PICK tried \in SUBSET Topics, kept \in SUBSET Topics :
          /\ kept \subseteq tried /\ \A t \in tried : Claimable(t, now)
          /\ lease' = [t \in Topics |-> IF t \in kept THEN now + Lease
                                        ELSE IF t \in tried THEN None ELSE lease[t]]
          /\ Elements(queue)' = kept
    BY <1>5, ClaimTakes
  <2>3. \A t \in tried : doubt[t] = None \/ doubt[t] <= now
    <3>. TAKE t \in tried
    <3>1. t \in Stored /\ (lease[t] = None \/ lease[t] <= now)
      BY <2>2 DEF Claimable
    <3>. QED
      BY <1>0, <3>1 DEF DoubtsLeased
  <2>4. Stored' = Stored
    BY <2>1 DEF Stored
  <2>5. \A t \in Stored : t \notin tried => lease'[t] = lease[t]
    BY <1>0, <2>2
  <2>. QED
    BY <2>1, <2>2, <2>3, <2>4, <2>5 DEF DoubtsLeased
<1>6. CASE SendBatch
  <2>1. UNCHANGED <<now, topic, lease>>
    BY <1>6 DEF SendBatch, dbVars
  <2>2. PICK sent \in SUBSET Elements(queue) :
          /\ doubt' = [t \in Topics |-> IF t \in sent THEN now + Lease ELSE doubt[t]]
          /\ Elements(queue)' = Elements(queue) \ sent
    BY <1>6, SendTakes
  <2>3. Stored' = Stored
    BY <2>1 DEF Stored
  <2>4. \A t \in sent \cap Stored : doubt'[t] = now + Lease /\ lease[t] = now + Lease
    BY <1>0, <2>2 DEF LeasesHeld
  <2>5. \A t \in Topics \ sent : doubt'[t] = doubt[t]
    BY <2>2
  <2>6. now + Lease \in Nat
    BY <1>0
  <2>7. \A t \in sent \cap Stored : lease'[t] # None /\ doubt'[t] <= lease'[t]
    BY <1>0, <2>1, <2>4, <2>6
  <2>8. \A t \in Stored' : \/ doubt'[t] = None
                           \/ doubt'[t] <= now'
                           \/ lease'[t] # None /\ doubt'[t] <= lease'[t]
    BY <1>0, <2>1, <2>3, <2>5, <2>7 DEF DoubtsLeased
  <2>9. \A t \in Elements(queue)' : doubt'[t] = None \/ doubt'[t] <= now'
    BY <1>0, <2>1, <2>2, <2>5 DEF DoubtsLeased
  <2>. QED
    BY <2>8, <2>9 DEF DoubtsLeased
<1>7. CASE ReceiveAnswers
  <2>1. UNCHANGED <<topic, lease, doubt, now>>
    BY <1>7 DEF ReceiveAnswers, dbVars, historyVars
  <2>. QED
    BY <1>1, <1>7, <2>1, AnswersReceived
<1>8. CASE ReadForResult
  <2>1. /\ pc = "record" /\ UNCHANGED <<topic, lease, doubt, now>>
        /\ UNCHANGED <<queue, batch, results>> \/ NextResult
    BY <1>8, ReadOrSkipped
  <2>2. UNCHANGED <<queue, batch, results>> => Elements(queue)' = Elements(queue)
    BY DEF Elements
  <2>. QED
    BY <1>1, <2>1, <2>2, ResultDealtWith
<1>9. CASE CommitResult
  <2>. DEFINE t == Head(results).topic
  <2>1. /\ pc = "save" /\ NextResult /\ now' = now /\ t \in Stored
        /\ lease' = [lease EXCEPT ![t] = None] /\ doubt' = [doubt EXCEPT ![t] = None]
    BY <1>9, Committed
  <2>2. \E u : topic' = [topic EXCEPT ![t] = u]
    BY <1>9, Committed
  <2>3. Elements(queue)' \subseteq Elements(queue)
    BY <2>1, ResultDealtWith
  <2>4. t \in Topics /\ Stored' \ {t} \subseteq Stored
    BY <2>1, <2>2 DEF Stored
  <2>. HIDE DEF t
  <2>5. doubt'[t] = None /\ \A s \in Topics \ {t} : doubt'[s] = doubt[s] /\ lease'[s] = lease[s]
    BY <2>1, <2>4 DEF SInv, Types
  <2>6. ASSUME NEW s \in Stored'
        PROVE  \/ doubt'[s] = None \/ doubt'[s] <= now'
               \/ lease'[s] # None /\ doubt'[s] <= lease'[s]
    <3>1. CASE s = t
      BY <2>5, <3>1
    <3>2. CASE s # t
      BY <1>0, <2>1, <2>4, <2>5, <3>2 DEF DoubtsLeased
    <3>. QED
      BY <3>1, <3>2
  <2>7. \A s \in Elements(queue)' : doubt'[s] = None \/ doubt'[s] <= now'
    BY <1>0, <2>1, <2>3, <2>5 DEF DoubtsLeased
  <2>. QED
    BY <2>6, <2>7 DEF DoubtsLeased
<1>10. CASE ReleaseLeases
  <2>1. /\ lease' = [t \in Topics |-> IF t \in Stored /\ t \in Elements(queue)
                                        THEN None ELSE lease[t]]
        /\ UNCHANGED <<topic, now, doubt>> /\ Elements(queue)' = {}
    BY <1>10, Released DEF historyVars
  <2>2. Stored' = Stored
    BY <2>1 DEF Stored
  <2>3. \A t \in Stored : t \notin Elements(queue) => lease'[t] = lease[t]
    BY <1>0, <2>1
  <2>. QED
    BY <2>1, <2>2, <2>3 DEF DoubtsLeased
<1>11. ASSUME NEW t \in Topics, Remove(t) PROVE DoubtsLeased'
  <2>1. /\ topic' = [topic EXCEPT ![t] = None] /\ lease' = [lease EXCEPT ![t] = None]
        /\ doubt' = doubt /\ now' = now /\ queue' = queue
    BY <1>11 DEF Remove, UserStep, cycleVars, historyVars
  <2>2. \A s \in Stored' : s \in Stored /\ lease'[s] = lease[s]
    BY <2>1 DEF Stored, SInv, Types
  <2>3. Elements(queue)' = Elements(queue)
    BY <2>1 DEF Elements
  <2>. QED
    BY <2>1, <2>2, <2>3 DEF DoubtsLeased
<1>12. ASSUME NEW t \in Topics, NEW enabled \in BOOLEAN, SetEnabled(t, enabled)
       PROVE  DoubtsLeased'
  <2>1. /\ t \in Stored /\ \E r : topic' = [topic EXCEPT ![t] = r]
        /\ UNCHANGED <<lease, doubt, now, queue>>
    BY <1>12 DEF SetEnabled, UserStep, cycleVars, historyVars
  <2>2. Stored' \subseteq Stored
    BY <2>1 DEF Stored, SInv, Types
  <2>3. Elements(queue)' = Elements(queue)
    BY <2>1 DEF Elements
  <2>. QED
    BY <2>1, <2>2, <2>3 DEF DoubtsLeased
<1>13. CASE Asides
  <2>1. UNCHANGED <<topic, lease, doubt, now, queue>>
    BY <1>13, AsideKeeps DEF cycleVars, historyVars
  <2>2. Elements(queue)' = Elements(queue)
    BY <2>1 DEF Elements
  <2>. QED
    BY <1>1, <2>1, <2>2
<1>. QED
  BY <1>2, <1>3, <1>4, <1>5, <1>6, <1>7, <1>8, <1>9, <1>10, <1>11, <1>12, <1>13
     DEF Next, CycleStep, Breaks, Asides

\* A job sent and never recorded is sent again only when its lease has run out.
THEOREM InDoubtWaitsAlways == Spec => InDoubtWaitsForLease
<1>. DEFINE StillWaits == \A t \in Topics : doubt'[t] # doubt[t] /\ doubt'[t] # None
                            => doubt[t] = None \/ doubt[t] <= now
            IInv == SInv /\ LeasesHeld /\ DoubtsLeased
<1>1. Init => IInv
  <2>1. Init => Elements(queue) = {}
    BY EmptyLists DEF Init
  <2>. QED
    BY <2>1, SInvInit DEF Init, LeasesHeld, DoubtsLeased, Stored
<1>2. IInv /\ [Next]_vars => IInv'
  BY SInvNext, LeasesHeldNext, DoubtsLeasedNext
<1>3. IInv /\ [Next]_vars => [StillWaits]_vars
  <2>. SUFFICES ASSUME IInv, [Next]_vars PROVE StillWaits
    OBVIOUS
  <2>1. CASE SendBatch
    <3>1. PICK sent \in SUBSET Elements(queue) :
            doubt' = [t \in Topics |-> IF t \in sent THEN now + Lease ELSE doubt[t]]
      BY <2>1, SendTakes
    <3>. QED
      BY <3>1 DEF DoubtsLeased
  <2>2. CASE CommitResult
    <3>1. doubt' = [doubt EXCEPT ![Head(results).topic] = None]
      BY <2>2, Committed
    <3>. QED
      BY <3>1 DEF SInv, Types
  <2>3. CASE ~SendBatch /\ ~CommitResult
    <3>1. CASE UNCHANGED vars
      BY <3>1 DEF vars, historyVars
    <3>2. CASE BeginCycle \/ Claim \/ ReceiveAnswers
      BY <3>2 DEF BeginCycle, Claim, ReceiveAnswers, historyVars
    <3>3. CASE Breaks
      BY <3>3, BreakKeeps
    <3>4. CASE ReadForResult
      BY <3>4, ReadOrSkipped
    <3>5. CASE ReleaseLeases
      BY <3>5, Released DEF historyVars
    <3>6. CASE Asides
      BY <3>6, AsideKeeps DEF historyVars
    <3>7. CASE \E t \in Topics : Remove(t) \/ \E enabled \in BOOLEAN : SetEnabled(t, enabled)
      BY <3>7 DEF Remove, SetEnabled, UserStep, historyVars
    <3>. QED
      BY <2>3, <3>1, <3>2, <3>3, <3>4, <3>5, <3>6, <3>7
         DEF Next, CycleStep, Breaks, Asides
  <2>. QED
    BY <2>1, <2>2, <2>3
<1>. QED
  BY <1>1, <1>2, <1>3, PTL DEF Spec, InDoubtWaitsForLease

-----------------------------------------------------------------------------
(* Retries.                                                                *)

\* The count of a topic's retries since its last success is its streak.  It
\* stays so because a success is dated with the cycle's time: every retry of
\* the topic so far lies before it, and its next one, whose time is later than
\* the last success, will be dated after that.
CountedFor(t) ==
  /\ streak[t] = CountSince(retriedAt[t], topic[t].last)
  /\ topic[t].last = None \/ topic[t].last <= now
  /\ topic[t].custom = None \/ topic[t].custom > 0
  /\ due[t] = None \/ topic[t].last = None \/ topic[t].last < due[t]
  /\ \A i \in DOMAIN retriedAt[t] : retriedAt[t][i] <= clock
  /\ t \in InCycle \/ pc = "claim" => \A i \in DOMAIN retriedAt[t] : retriedAt[t][i] <= now
  /\ t \in InCycle => topic[t].last = None \/ topic[t].last < now

\* What was read for the result still holds.
ReadHolds ==
  pc = "save" /\ Head(results).topic \in Stored =>
    LET t == Head(results).topic
    IN  /\ read.topic.last = topic[t].last /\ read.topic.custom = topic[t].custom
        /\ read.count = streak[t] /\ now <= read.at /\ read.at <= clock

RetriesCounted ==
  /\ \A t \in Stored : CountedFor(t)
  /\ \A i \in DOMAIN results : results[i].retryAt # None => now <= results[i].retryAt
  /\ ReadHolds

\* A step that leaves the topics alone and takes nothing into the cycle.
LEMMA CountsStay ==
  ASSUME SInv, \A t \in Stored : CountedFor(t),
         UNCHANGED <<topic, due, retriedAt, streak>>,
         now' = now, clock' \in {clock, clock + 1},
         InCycle' \subseteq InCycle, pc' = "claim" => pc = "claim"
  PROVE  \A t \in Stored' : CountedFor(t)'
<1>1. Stored' = Stored /\ Stored \subseteq Topics
  BY DEF Stored
<1>2. ASSUME NEW t \in Stored PROVE CountedFor(t)'
  <2>1. CountedFor(t)
    OBVIOUS
  <2>2. /\ clock \in Nat /\ now \in Nat /\ retriedAt[t] \in Seq(Nat)
    BY <1>1 DEF SInv, Types
  <2>3. \A i \in DOMAIN retriedAt[t] : retriedAt[t][i] \in Nat
    BY <2>2
  <2>4. \A i \in DOMAIN retriedAt[t] : retriedAt[t][i] <= clock'
    BY <2>1, <2>2, <2>3 DEF CountedFor
  <2>. QED
    BY <2>1, <2>4 DEF CountedFor
<1>. QED
  BY <1>1, <1>2

LEMMA ResultsLater ==
  ASSUME SInv, RetriesCounted, pc \in {"record", "save"}, NextResult, now' = now
  PROVE  /\ \A i \in DOMAIN results' : results'[i].retryAt # None => now' <= results'[i].retryAt
         /\ ReadHolds'
<1>1. /\ \A i \in DOMAIN results' : \E j \in DOMAIN results : results'[i] = results[j]
      /\ pc' # "save"
  BY ResultDealtWith
<1>. QED
  BY <1>1 DEF RetriesCounted, ReadHolds

LEMMA RetriesCountedInit == Init => RetriesCounted
<1>. SUFFICES ASSUME Init PROVE RetriesCounted
  OBVIOUS
<1>1. queue = <<>> /\ batch = <<>> /\ results = <<>> /\ pc = "idle"
  BY DEF Init
<1>2. InCycle = {} /\ DOMAIN results = {}
  BY <1>1, InCycleIs, EmptyLists
<1>3. ASSUME NEW t \in Topics PROVE CountedFor(t)
  <2>1. /\ retriedAt[t] = <<>> /\ streak[t] = 0 /\ topic[t].last = None /\ topic[t].custom = None
    BY DEF Init
  <2>2. CountSince(<<>>, None) = 0
    <3>1. {i \in DOMAIN <<>> : None = None \/ <<>>[i] > None} = {}
      OBVIOUS
    <3>. QED
      BY <3>1, FS_EmptySet, Zenon DEF CountSince
  <2>3. DOMAIN retriedAt[t] = {}
    BY <2>1
  <2>. QED
    BY <1>1, <1>2, <2>1, <2>2, <2>3 DEF CountedFor
<1>4. ReadHolds
  BY <1>1 DEF ReadHolds
<1>. QED
  BY <1>2, <1>3, <1>4 DEF RetriesCounted, Stored

\* What recording does to the topic of the result.
LEMMA CommitCounts ==
  ASSUME SInv, RetriesCounted, CommitResult, NEW t, t = Head(results).topic, t \in Stored'
  PROVE  CountedFor(t)'
<1>. DEFINE outcome == Head(results).outcome
            at == Head(results).retryAt
<1>1. /\ pc = "save" /\ NextResult /\ now' = now /\ clock' = clock
      /\ Head(results) \in Result /\ t \in Stored
      /\ read.topic \in TopicRecord /\ read.count \in Nat /\ read.at \in Nat
      /\ retriedAt' = IF outcome = "retry"
                        THEN [retriedAt EXCEPT ![t] = Append(@, read.at)] ELSE retriedAt
      /\ streak' = [streak EXCEPT ![t] = CASE outcome = "success" -> 0
                                           [] outcome = "retry" -> @ + 1
                                           [] OTHER -> @]
  BY Committed
<1>2. PICK u \in TopicRecord :
        /\ u = UpdatedTopic(read.topic, outcome, at, Interval, Schedule, read.count, now)
        /\ topic' = [topic EXCEPT ![t] = u] /\ due' = [due EXCEPT ![t] = DueAt(u)]
        /\ DueAt(u) \in {None, u.next}
  BY Committed
<1>3. t \in Topics /\ outcome \in Outcomes /\ at \in Instant
  BY <1>1 DEF Stored, Result
<1>4. /\ t \in InCycle /\ t \notin InCycle' /\ pc' # "claim"
  BY <1>1, ResultDealtWith
<1>5. CountedFor(t) /\ (at # None => now <= at)
  <2>1. Head(results) = results[1] /\ 1 \in DOMAIN results
    BY <1>1 DEF SInv, Types, Shape
  <2>. QED
    BY <1>1, <2>1 DEF RetriesCounted
<1>6. /\ read.topic.last = topic[t].last /\ read.topic.custom = topic[t].custom
      /\ now <= read.at /\ read.at <= clock
  BY <1>1 DEF RetriesCounted, ReadHolds
<1>7. /\ clock \in Nat /\ now \in Nat /\ now <= clock /\ None \notin Nat
      /\ retriedAt[t] \in Seq(Nat) /\ streak[t] \in Nat
      /\ \A i \in DOMAIN retriedAt[t] : retriedAt[t][i] \in Nat
  <2>1. retriedAt[t] \in Seq(Nat) /\ streak[t] \in Nat
    BY <1>3 DEF SInv, Types
  <2>2. \A i \in DOMAIN retriedAt[t] : retriedAt[t][i] \in Nat
    BY <2>1
  <2>3. clock \in Nat /\ now \in Nat /\ now <= clock
    BY DEF SInv, Types
  <2>. QED
    BY <2>1, <2>2, <2>3, Constants
<1>8. \A i \in DOMAIN retriedAt[t] : retriedAt[t][i] <= now
  BY <1>4, <1>5 DEF CountedFor
<1>9. topic'[t] = u /\ due'[t] = DueAt(u)
  BY <1>2, <1>3 DEF SInv, Types
<1>10. /\ u.custom = read.topic.custom
       /\ outcome = "success" =>
            u.last = now /\ u.next = now + (IF read.topic.custom = None THEN Interval
                                            ELSE read.topic.custom)
       /\ outcome = "retry" => /\ u.last = read.topic.last
                               /\ at # None => u.next = at
                               /\ at = None => u.next \in Nat /\ u.next > now
       /\ outcome \notin {"success", "retry"} => u.last = read.topic.last /\ u.next = None
  BY <1>1, <1>2, <1>3, <1>7, UpdatedRecord
<1>11. streak'[t] = CASE outcome = "success" -> 0
                      [] outcome = "retry" -> streak[t] + 1
                      [] OTHER -> streak[t]
  BY <1>1, <1>3 DEF SInv, Types
<1>12. retriedAt'[t] = IF outcome = "retry" THEN Append(retriedAt[t], read.at) ELSE retriedAt[t]
  BY <1>1, <1>3 DEF SInv, Types
<1>13. /\ topic[t].last \in Instant /\ topic[t].custom \in Instant /\ u.next \in Instant
       /\ topic[t].last = None \/ topic[t].last < now
       /\ topic[t].custom = None \/ topic[t].custom > 0
       /\ streak[t] = CountSince(retriedAt[t], topic[t].last)
  <2>1. topic[t] \in TopicRecord
    BY <1>1, <1>3 DEF Stored, SInv, Types
  <2>2. u.next \in Instant
    BY <1>2 DEF TopicRecord
  <2>. QED
    BY <1>4, <1>5, <2>1, <2>2 DEF TopicRecord, CountedFor
<1>. HIDE DEF outcome, at
<1>. SUFFICES /\ streak'[t] = CountSince(retriedAt'[t], u.last)
              /\ u.last = None \/ u.last <= now
              /\ u.custom = None \/ u.custom > 0
              /\ DueAt(u) = None \/ u.last = None \/ u.last < DueAt(u)
              /\ \A i \in DOMAIN retriedAt'[t] : retriedAt'[t][i] <= clock
  BY <1>1, <1>4, <1>9 DEF CountedFor
<1>14. CASE outcome = "success"
  <2>1. u.last = now /\ u.next \in Nat /\ now < u.next
    <3>1. /\ u.last = now
          /\ u.next = now + (IF topic[t].custom = None THEN Interval ELSE topic[t].custom)
      BY <1>6, <1>10, <1>14
    <3>2. topic[t].custom = None \/ (topic[t].custom \in Nat /\ topic[t].custom > 0)
      BY <1>13 DEF Instant
    <3>3. now \in Nat /\ Interval \in Nat /\ Interval > 0
      BY <1>7, Constants
    <3>. QED
      BY <3>1, <3>2, <3>3
  <2>2. CountSince(retriedAt[t], now) = 0
    BY <1>7, <1>8, NoneSince
  <2>3. retriedAt'[t] = retriedAt[t] /\ streak'[t] = 0
    BY <1>11, <1>12, <1>14
  <2>4. DueAt(u) = None \/ u.last < DueAt(u)
    BY <1>2, <2>1
  <2>5. \A i \in DOMAIN retriedAt[t] : retriedAt[t][i] <= clock
    BY <1>7, <1>8
  <2>. QED
    BY <1>6, <1>7, <1>10, <1>13, <2>1, <2>2, <2>3, <2>4, <2>5
<1>15. CASE outcome = "retry"
  <2>1. u.last = topic[t].last /\ u.next \in Nat /\ now <= u.next
    BY <1>3, <1>5, <1>6, <1>7, <1>10, <1>13, <1>15 DEF Instant
  <2>2. CountSince(Append(retriedAt[t], read.at), u.last) = CountSince(retriedAt[t], u.last) + 1
    <3>1. u.last \in Instant /\ (u.last = None \/ read.at > u.last)
      BY <1>1, <1>6, <1>7, <1>13, <2>1 DEF Instant
    <3>. QED
      BY <1>1, <1>7, <3>1, OneMore
  <2>3. retriedAt'[t] = Append(retriedAt[t], read.at) /\ streak'[t] = streak[t] + 1
    BY <1>11, <1>12, <1>15
  <2>4. u.last = None \/ (u.last <= now /\ u.last < u.next)
    BY <1>7, <1>13, <2>1 DEF Instant
  <2>5. \A i \in DOMAIN retriedAt'[t] : retriedAt'[t][i] <= clock
    <3>1. /\ Len(retriedAt[t]) \in Nat /\ DOMAIN retriedAt[t] = 1 .. Len(retriedAt[t])
          /\ DOMAIN retriedAt'[t] = 1 .. Len(retriedAt[t]) + 1
          /\ retriedAt'[t][Len(retriedAt[t]) + 1] = read.at
          /\ \A i \in 1 .. Len(retriedAt[t]) : retriedAt'[t][i] = retriedAt[t][i]
      BY <1>1, <1>7, <2>3
    <3>2. \A i \in DOMAIN retriedAt[t] : retriedAt[t][i] <= clock
      BY <1>7, <1>8
    <3>3. \A i \in DOMAIN retriedAt'[t] : i \in 1 .. Len(retriedAt[t]) \/ i = Len(retriedAt[t]) + 1
      BY <3>1
    <3>. QED
      BY <1>6, <3>1, <3>2, <3>3
  <2>. QED
    BY <1>2, <1>6, <1>10, <1>13, <2>1, <2>2, <2>3, <2>4, <2>5
<1>16. CASE outcome \notin {"success", "retry"}
  <2>1. u.last = topic[t].last /\ DueAt(u) = None
    BY <1>2, <1>6, <1>10, <1>16
  <2>2. retriedAt'[t] = retriedAt[t] /\ streak'[t] = streak[t]
    BY <1>11, <1>12, <1>16
  <2>3. \A i \in DOMAIN retriedAt[t] : retriedAt[t][i] <= clock
    BY <1>7, <1>8
  <2>4. u.last = None \/ u.last <= now
    BY <1>7, <1>13, <2>1 DEF Instant
  <2>. QED
    BY <1>6, <1>10, <1>13, <2>1, <2>2, <2>3, <2>4
<1>. QED
  BY <1>14, <1>15, <1>16

LEMMA RetriesCountedNext == SInv /\ RetriesCounted /\ [Next]_vars => RetriesCounted'
<1>. SUFFICES ASSUME SInv, RetriesCounted, [Next]_vars PROVE RetriesCounted'
  OBVIOUS
<1>0. /\ now \in Nat /\ clock \in Nat /\ now <= clock /\ Stored \subseteq Topics
      /\ \A t \in Stored : CountedFor(t) /\ topic[t] \in TopicRecord
      /\ \A t \in Topics : retriedAt[t] \in Seq(Nat)
  BY DEF SInv, Types, Stored, RetriesCounted
<1>1. CASE UNCHANGED vars
  <2>1. /\ UNCHANGED <<topic, due, retriedAt, streak>> /\ now' = now /\ clock' = clock
        /\ pc' = pc /\ queue' = queue /\ batch' = batch /\ results' = results /\ read' = read
    BY <1>1 DEF vars, dbVars, cycleVars, historyVars
  <2>2. InCycle' = InCycle
    BY <2>1, CycleStill
  <2>3. \A t \in Stored' : CountedFor(t)'
    BY <1>0, <2>1, <2>2, CountsStay
  <2>. QED
    BY <2>1, <2>3 DEF RetriesCounted, ReadHolds, Stored
<1>2. CASE BeginCycle
  <2>1. /\ UNCHANGED <<clock, topic, due, retriedAt, streak>> /\ now' = clock
        /\ pc = "idle" /\ pc' = "claim"
        /\ queue' = queue /\ batch' = batch /\ results' = results
    BY <1>2 DEF BeginCycle, dbVars
  <2>2. queue = <<>> /\ batch = <<>> /\ results = <<>>
    BY <2>1 DEF SInv, Shape
  <2>3. InCycle' = {} /\ DOMAIN results' = {}
    BY <2>1, <2>2 DEF InCycle
  <2>4. Stored' = Stored
    BY <2>1 DEF Stored
  <2>5. ASSUME NEW t \in Stored PROVE CountedFor(t)'
    <3>1. CountedFor(t) /\ topic[t].last \in Instant
      BY <1>0 DEF TopicRecord
    <3>2. topic[t].last = None \/ topic[t].last <= clock
      BY <1>0, <3>1 DEF CountedFor, Instant
    <3>. QED
      BY <2>1, <2>3, <3>1, <3>2 DEF CountedFor
  <2>6. ReadHolds'
    BY <2>1 DEF ReadHolds
  <2>. QED
    BY <2>3, <2>4, <2>5, <2>6 DEF RetriesCounted
<1>3. CASE Breaks
  <2>1. /\ UNCHANGED <<topic, due, retriedAt, streak>> /\ now' = now /\ clock' = clock
        /\ pc' = "idle" /\ results' = <<>> /\ InCycle' = {}
    BY <1>3, BreakKeeps
  <2>2. \A t \in Stored' : CountedFor(t)'
    BY <1>0, <2>1, CountsStay
  <2>. QED
    BY <2>1, <2>2 DEF RetriesCounted, ReadHolds
<1>4. CASE Claim
  <2>1. UNCHANGED <<now, clock, topic, retriedAt, streak>> /\ pc = "claim"
    BY <1>4 DEF Claim
  <2>2. PICK tried \in SUBSET Topics, kept \in SUBSET Topics :
          /\ kept \subseteq tried /\ \A t \in tried : Claimable(t, now)
          /\ due' = [t \in Topics |-> IF t \in tried \ kept THEN None ELSE due[t]]
          /\ InCycle' = kept /\ results' = <<>> /\ Shape'
    BY <1>4, ClaimTakes
  <2>3. Stored' = Stored
    BY <2>1 DEF Stored
  <2>4. ASSUME NEW t \in Stored PROVE CountedFor(t)'
    <3>1. CountedFor(t) /\ topic[t].last \in Instant /\ t \in Topics
      BY <1>0 DEF TopicRecord
    <3>2. t \in kept => topic[t].last = None \/ topic[t].last < now
      <4>1. t \in kept => due[t] # None /\ due[t] <= now
        BY <2>2 DEF Claimable
      <4>2. due[t] \in Instant
        BY <3>1 DEF SInv, Types
      <4>. QED
        BY <1>0, <3>1, <4>1, <4>2 DEF CountedFor, Instant
    <3>3. due'[t] \in {None, due[t]}
      BY <2>2, <3>1
    <3>4. pc' # "claim"
      <4>1. EndCycle("ran") \/ pc' = "send"
        BY <1>4, Zenon DEF Claim
      <4>. QED
        BY <4>1 DEF EndCycle
    <3>. QED
      BY <2>1, <2>2, <3>1, <3>2, <3>3, <3>4 DEF CountedFor
  <2>5. ReadHolds'
    <3>1. results' = <<>> /\ (pc' = "save" => results' # <<>>)
      BY <2>2 DEF Shape
    <3>. QED
      BY <3>1 DEF ReadHolds
  <2>. QED
    BY <2>2, <2>3, <2>4, <2>5 DEF RetriesCounted
<1>5. CASE SendBatch
  <2>1. UNCHANGED <<topic, due, retriedAt, streak>> /\ now' = now /\ clock' = clock
    BY <1>5 DEF SendBatch, dbVars
  <2>2. InCycle' = InCycle /\ results' = results /\ pc' = "wait"
    BY <1>5, SendTakes
  <2>3. \A t \in Stored' : CountedFor(t)'
    BY <1>0, <2>1, <2>2, CountsStay
  <2>. QED
    BY <2>1, <2>2, <2>3 DEF RetriesCounted, ReadHolds
<1>6. CASE ReceiveAnswers
  <2>1. UNCHANGED <<topic, due, retriedAt, streak>> /\ now' = now /\ clock' = clock
    BY <1>6 DEF ReceiveAnswers, dbVars, historyVars
  <2>2. /\ InCycle' = InCycle /\ results' \in Seq(Result) /\ pc' = "record"
        /\ \A i \in DOMAIN results' : results'[i].retryAt # None => results'[i].retryAt >= clock
    BY <1>6, AnswersReceived
  <2>3. \A t \in Stored' : CountedFor(t)'
    BY <1>0, <2>1, <2>2, CountsStay
  <2>4. ASSUME NEW i \in DOMAIN results', results'[i].retryAt # None
        PROVE  now <= results'[i].retryAt
    <3>1. results'[i] \in Result
      BY <2>2
    <3>2. results'[i].retryAt \in Nat
      BY <2>4, <3>1 DEF Result, Instant
    <3>. QED
      BY <1>0, <2>2, <2>4, <3>2
  <2>. QED
    BY <2>1, <2>2, <2>3, <2>4 DEF RetriesCounted, ReadHolds
<1>7. CASE ReadForResult
  <2>. DEFINE t == Head(results).topic
  <2>1. /\ pc = "record" /\ t \in InCycle
        /\ UNCHANGED <<topic, due, retriedAt, streak>> /\ now' = now /\ clock' = clock
        /\ \/ /\ t \in Stored /\ pc' = "save"
              /\ read' = [topic |-> topic[t], settings |-> settings,
                          count |-> RetryCount(t, topic[t].last), at |-> clock]
              /\ UNCHANGED <<queue, batch, results>>
           \/ t \notin Stored /\ NextResult
    BY <1>7, ReadOrSkipped
  <2>2. CASE NextResult
    <3>1. InCycle' \subseteq InCycle /\ pc' # "claim"
      BY <2>1, <2>2, ResultDealtWith
    <3>2. \A s \in Stored' : CountedFor(s)'
      BY <1>0, <2>1, <3>1, CountsStay
    <3>. QED
      BY <2>1, <2>2, <3>2, ResultsLater DEF RetriesCounted
  <2>3. CASE /\ t \in Stored /\ pc' = "save"
             /\ read' = [topic |-> topic[t], settings |-> settings,
                         count |-> RetryCount(t, topic[t].last), at |-> clock]
             /\ UNCHANGED <<queue, batch, results>>
    <3>1. InCycle' = InCycle
      BY <2>3 DEF InCycle
    <3>2. \A s \in Stored' : CountedFor(s)'
      BY <1>0, <2>1, <2>3, <3>1, CountsStay
    <3>3. RetryCount(t, topic[t].last) = streak[t]
      BY <1>0, <2>3, CountIs DEF CountedFor
    <3>4. ReadHolds'
      BY <1>0, <2>1, <2>3, <3>3 DEF ReadHolds
    <3>. QED
      BY <2>1, <2>3, <3>2, <3>4 DEF RetriesCounted
  <2>. QED
    BY <2>1, <2>2, <2>3
<1>8. CASE CommitResult
  <2>. DEFINE t == Head(results).topic
  <2>1. /\ pc = "save" /\ NextResult /\ now' = now /\ clock' = clock /\ t \in Stored
        /\ retriedAt' = IF Head(results).outcome = "retry"
                          THEN [retriedAt EXCEPT ![t] = Append(@, read.at)]
                          ELSE retriedAt
        /\ streak' = [streak EXCEPT ![t] =
                        CASE Head(results).outcome = "success" -> 0
                          [] Head(results).outcome = "retry" -> @ + 1
                          [] OTHER -> @]
    BY <1>8, Committed
  <2>2. PICK u : topic' = [topic EXCEPT ![t] = u] /\ due' = [due EXCEPT ![t] = DueAt(u)]
    BY <1>8, Committed
  <2>3. InCycle' \subseteq InCycle /\ pc' # "claim"
    BY <2>1, ResultDealtWith
  <2>4. ASSUME NEW s \in Stored', s # t PROVE CountedFor(s)'
    <3>1. s \in Stored /\ s \in Topics
      BY <2>2, <2>4 DEF Stored
    <3>2. topic'[s] = topic[s] /\ due'[s] = due[s] /\ streak'[s] = streak[s]
          /\ retriedAt'[s] = retriedAt[s]
      <4>. HIDE DEF t
      <4>. QED
        BY <2>1, <2>2, <2>4, <3>1 DEF SInv, Types
    <3>3. CountedFor(s)
      BY <1>0, <3>1
    <3>. QED
      BY <2>1, <2>3, <3>2, <3>3 DEF CountedFor
  <2>5. ASSUME NEW s \in Stored', s = t PROVE CountedFor(s)'
    BY <1>8, <2>5, CommitCounts
  <2>6. \A s \in Stored' : CountedFor(s)'
    BY <2>4, <2>5
  <2>. QED
    BY <2>1, <2>6, ResultsLater DEF RetriesCounted
<1>9. CASE ReleaseLeases
  <2>1. /\ UNCHANGED <<topic, due, retriedAt, streak>> /\ now' = now /\ clock' = clock
        /\ pc' = "idle" /\ results' = <<>> /\ InCycle' = {}
    BY <1>9, Released DEF historyVars
  <2>2. \A t \in Stored' : CountedFor(t)'
    BY <1>0, <2>1, CountsStay
  <2>. QED
    BY <2>1, <2>2 DEF RetriesCounted, ReadHolds
<1>10. ASSUME NEW t \in Topics, NEW enabled \in BOOLEAN, SetEnabled(t, enabled)
       PROVE  RetriesCounted'
  <2>0. PICK r \in TopicRecord :
          /\ t \in Stored
          /\ r.last = topic[t].last /\ r.custom = topic[t].custom
          /\ DueAt(r) = None \/ (DueAt(r) \in Nat /\ DueAt(r) = clock + Interval)
          /\ topic' = [topic EXCEPT ![t] = r] /\ due' = [due EXCEPT ![t] = DueAt(r)]
          /\ UNCHANGED <<clock, lease, retriedAt, cycleVars, historyVars>>
    BY <1>10, SavedTopic
  <2>1. /\ now' = now /\ clock' = clock /\ retriedAt' = retriedAt /\ streak' = streak
        /\ pc' = pc /\ queue' = queue /\ batch' = batch /\ results' = results /\ read' = read
    BY <2>0 DEF cycleVars, historyVars
  <2>2. InCycle' = InCycle
    BY <2>1, CycleStill
  <2>3. /\ topic'[t] = r /\ due'[t] = DueAt(r) /\ Stored' \subseteq Stored
        /\ \A s \in Topics \ {t} : topic'[s] = topic[s] /\ due'[s] = due[s]
    BY <2>0 DEF SInv, Types, Stored
  <2>4. ASSUME NEW s \in Stored' PROVE CountedFor(s)'
    <3>1. s \in Stored /\ s \in Topics /\ CountedFor(s) /\ topic[s].last \in Instant
      BY <1>0, <2>3 DEF TopicRecord
    <3>2. topic'[s].last = topic[s].last /\ topic'[s].custom = topic[s].custom
      BY <2>0, <2>3, <3>1
    <3>3. due'[s] = None \/ topic'[s].last = None \/ topic'[s].last < due'[s]
      <4>1. CASE s = t
        BY <1>0, <2>0, <2>3, <3>1, <3>2, <4>1, Constants DEF CountedFor, Instant
      <4>2. CASE s # t
        BY <2>3, <3>1, <3>2, <4>2 DEF CountedFor
      <4>. QED
        BY <4>1, <4>2
    <3>. QED
      BY <2>1, <2>2, <3>1, <3>2, <3>3 DEF CountedFor
  <2>5. ReadHolds'
    <3>1. \A s \in Stored' : s \in Stored /\ topic'[s].last = topic[s].last
                             /\ topic'[s].custom = topic[s].custom
      BY <1>0, <2>0, <2>3
    <3>. QED
      BY <2>1, <3>1 DEF ReadHolds, RetriesCounted
  <2>. QED
    BY <2>1, <2>4, <2>5 DEF RetriesCounted
<1>11. ASSUME NEW t \in Topics, Remove(t) PROVE RetriesCounted'
  <2>0. /\ topic' = [topic EXCEPT ![t] = None] /\ due' = [due EXCEPT ![t] = None]
        /\ retriedAt' = [retriedAt EXCEPT ![t] = <<>>]
        /\ UNCHANGED <<clock, cycleVars, historyVars>>
    BY <1>11 DEF Remove, UserStep
  <2>1. /\ now' = now /\ clock' = clock /\ streak' = streak
        /\ pc' = pc /\ queue' = queue /\ batch' = batch /\ results' = results /\ read' = read
    BY <2>0 DEF cycleVars, historyVars
  <2>2. InCycle' = InCycle
    BY <2>1, CycleStill
  <2>3. \A s \in Stored' : /\ s \in Stored /\ topic'[s] = topic[s] /\ due'[s] = due[s]
                           /\ retriedAt'[s] = retriedAt[s]
    BY <2>0 DEF SInv, Types, Stored
  <2>4. ASSUME NEW s \in Stored' PROVE CountedFor(s)'
    <3>1. CountedFor(s)
      BY <1>0, <2>3
    <3>. QED
      BY <2>1, <2>2, <2>3, <3>1 DEF CountedFor
  <2>5. ReadHolds'
    BY <2>1, <2>3 DEF ReadHolds, RetriesCounted
  <2>. QED
    BY <2>1, <2>4, <2>5 DEF RetriesCounted
<1>12. CASE Asides
  <2>0. /\ UNCHANGED <<topic, due, lease, retriedAt, cycleVars, historyVars>>
        /\ clock' \in {clock, clock + 1}
    BY <1>12, AsideKeeps
  <2>1. /\ UNCHANGED <<topic, due, retriedAt, streak>> /\ now' = now
        /\ pc' = pc /\ queue' = queue /\ batch' = batch /\ results' = results /\ read' = read
    BY <2>0 DEF cycleVars, historyVars
  <2>2. InCycle' = InCycle
    BY <2>1, CycleStill
  <2>3. \A t \in Stored' : CountedFor(t)'
    BY <1>0, <2>0, <2>1, <2>2, CountsStay
  <2>4. ReadHolds'
    <3>1. pc = "save" => read.at \in Nat
      BY DEF SInv, Shape
    <3>2. Stored' = Stored
      BY <2>1 DEF Stored
    <3>3. pc = "save" /\ Head(results).topic \in Stored => read.at <= clock'
      BY <1>0, <2>0, <3>1 DEF ReadHolds, RetriesCounted
    <3>. QED
      BY <2>1, <3>2, <3>3 DEF ReadHolds, RetriesCounted
  <2>. QED
    BY <2>1, <2>3, <2>4 DEF RetriesCounted
<1>. QED
  BY <1>1, <1>2, <1>3, <1>4, <1>5, <1>6, <1>7, <1>8, <1>9, <1>10, <1>11, <1>12
     DEF Next, CycleStep, Breaks, Asides

\* The n-th automatic retry in a row waits for the n-th delay of the schedule,
\* over cycles, failures and restarts.
THEOREM RetriesFollowScheduleAlways == Spec => RetriesFollowSchedule
<1>. DEFINE OnSchedule == \A t \in Topics :
              streak'[t] > streak[t] /\ Head(results).retryAt = None
                => topic'[t].next =
                     now + Schedule[IF streak'[t] > Len(Schedule) THEN Len(Schedule)
                                    ELSE streak'[t]]
            IInv == SInv /\ RetriesCounted
<1>1. Init => IInv
  BY SInvInit, RetriesCountedInit
<1>2. IInv /\ [Next]_vars => IInv'
  BY SInvNext, RetriesCountedNext
<1>3. IInv /\ [Next]_vars => [OnSchedule]_vars
  <2>. SUFFICES ASSUME IInv, [Next]_vars PROVE OnSchedule
    OBVIOUS
  <2>1. ASSUME CommitResult, NEW t \in Topics,
               streak'[t] > streak[t], Head(results).retryAt = None
        PROVE  topic'[t].next =
                 now + Schedule[IF streak'[t] > Len(Schedule) THEN Len(Schedule)
                                ELSE streak'[t]]
    <3>. DEFINE h == Head(results).topic
                outcome == Head(results).outcome
    <3>1. /\ pc = "save" /\ Head(results) \in Result /\ h \in Stored
          /\ read.topic \in TopicRecord /\ read.count \in Nat
          /\ streak' = [streak EXCEPT ![h] = CASE outcome = "success" -> 0
                                               [] outcome = "retry" -> @ + 1
                                               [] OTHER -> @]
      BY <2>1, Committed
    <3>2. PICK u \in TopicRecord :
            /\ u = UpdatedTopic(read.topic, outcome, Head(results).retryAt,
                                Interval, Schedule, read.count, now)
            /\ topic' = [topic EXCEPT ![h] = u]
      BY <2>1, Committed
    <3>3. h \in Topics /\ outcome \in Outcomes /\ None \in Instant /\ now \in Nat
          /\ streak[t] \in Nat
      BY <3>1 DEF Stored, Result, Instant, SInv, Types
    <3>4. read.count = streak[h]
      BY <3>1 DEF RetriesCounted, ReadHolds
    <3>5. u.next = now + Schedule[IF read.count + 1 > Len(Schedule) THEN Len(Schedule)
                                  ELSE read.count + 1]
            \/ outcome # "retry"
      BY <2>1, <3>1, <3>2, <3>3, UpdatedRecord
    <3>. HIDE DEF h, outcome
    <3>6. t = h /\ outcome = "retry" /\ streak'[t] = streak[t] + 1
      <4>1. t = h
        BY <2>1, <3>1, <3>3 DEF SInv, Types
      <4>2. streak'[t] = CASE outcome = "success" -> 0
                           [] outcome = "retry" -> streak[t] + 1
                           [] OTHER -> streak[t]
        BY <3>1, <3>3, <4>1 DEF SInv, Types
      <4>. QED
        BY <2>1, <3>3, <4>1, <4>2
    <3>7. topic'[t] = u
      BY <3>2, <3>3, <3>6 DEF SInv, Types
    <3>. QED
      BY <3>4, <3>5, <3>6, <3>7
  <2>2. CASE ~CommitResult
    <3>0. streak' = streak
      <4>1. CASE UNCHANGED vars
        BY <4>1 DEF vars, historyVars
      <4>2. CASE BeginCycle \/ Claim \/ SendBatch \/ ReceiveAnswers
        BY <4>2 DEF BeginCycle, Claim, SendBatch, ReceiveAnswers, historyVars
      <4>3. CASE Breaks
        BY <4>3, BreakKeeps
      <4>4. CASE ReadForResult
        BY <4>4, ReadOrSkipped
      <4>5. CASE ReleaseLeases
        BY <4>5, Released DEF historyVars
      <4>6. CASE Asides
        BY <4>6, AsideKeeps DEF historyVars
      <4>7. CASE \E t \in Topics : Remove(t) \/ \E enabled \in BOOLEAN : SetEnabled(t, enabled)
        BY <4>7 DEF Remove, SetEnabled, UserStep, historyVars
      <4>. QED
        BY <2>2, <4>1, <4>2, <4>3, <4>4, <4>5, <4>6, <4>7
           DEF Next, CycleStep, Breaks, Asides
    <3>1. \A t \in Topics : streak[t] \in Nat
      BY DEF SInv, Types
    <3>. QED
      BY <3>0, <3>1
  <2>. QED
    BY <2>1, <2>2
<1>. QED
  BY <1>1, <1>2, <1>3, PTL DEF Spec, RetriesFollowSchedule

-----------------------------------------------------------------------------
(* The types of the rest.                                                  *)

Reports == {"none", "disabled", "api_paused", "migrating", "ran", "failed"}

OtherTypes ==
  /\ unlocked \in BOOLEAN /\ settings \in Settings /\ migrating \in BOOLEAN
  /\ rejected \in BOOLEAN
  /\ read \in Reading \cup {None} /\ (pc = "save" => read \in Reading)
  /\ report \in Reports
  /\ mine \subseteq Topics /\ seen \subseteq Outcomes
  /\ edits \in Nat /\ faults \in Nat

\* What an end of the cycle, or a result dealt with, leaves of these.
LEMMA EndTypes ==
  ASSUME OtherTypes, NEW status \in Reports, EndCycle(status)
  PROVE  rejected' \in BOOLEAN /\ read' = None /\ pc' = "idle" /\ report' \in Reports
  BY DEF EndCycle

LEMMA NextResultTypes ==
  ASSUME SInv, OtherTypes, pc \in {"record", "save"}, NextResult
  PROVE  /\ rejected' \in BOOLEAN /\ read' = None /\ pc' # "save" /\ report' \in Reports
         /\ mine' = mine /\ seen' \subseteq Outcomes
<1>. DEFINE stop == rejected \/ Head(results).outcome \in Rejections
<1>1. /\ Head(results) \in Result /\ pc' # "save"
  BY ResultDealtWith
<1>2. seen' = seen \cup {Head(results).outcome} /\ mine' = mine
  BY Zenon DEF NextResult
<1>3. seen' \subseteq Outcomes
  BY <1>1, <1>2 DEF Result, OtherTypes
<1>4. \/ rejected' = stop /\ read' = None /\ report' = report
      \/ EndCycle("ran")
  BY Zenon DEF NextResult
<1>5. EndCycle("ran") => rejected' = FALSE /\ read' = None /\ report' = "ran"
  BY DEF EndCycle
<1>6. stop \in BOOLEAN
  OBVIOUS
<1>7. rejected' \in BOOLEAN
  BY <1>4, <1>5, <1>6, Zenon
<1>8. read' = None /\ report' \in Reports
  BY <1>4, <1>5 DEF OtherTypes, Reports
<1>. QED
  BY <1>1, <1>2, <1>3, <1>7, <1>8

LEMMA OtherTypesNext == SInv /\ OtherTypes /\ [Next]_vars => OtherTypes'
<1>. SUFFICES ASSUME SInv, OtherTypes, [Next]_vars PROVE OtherTypes'
  OBVIOUS
<1>1. ASSUME UNCHANGED <<unlocked, settings, migrating, rejected, read, report, mine, seen,
                         edits, faults>>,
             pc' = pc \/ pc' # "save"
      PROVE  OtherTypes'
  BY <1>1, Zenon DEF OtherTypes
<1>2. CASE UNCHANGED vars
  BY <1>1, <1>2 DEF vars, dbVars, cycleVars, historyVars
<1>3. CASE BeginCycle
  <2>1. /\ UNCHANGED <<unlocked, settings, migrating, rejected, read, report, edits, faults>>
        /\ mine' = {} /\ seen' = {} /\ pc' = "claim"
    BY <1>3 DEF BeginCycle, dbVars
  <2>. QED
    BY <2>1, Zenon DEF OtherTypes
<1>4. CASE Breaks
  <2>1. \E status \in Reports : EndCycle(status)
    <3>1. Gate \in Reports
      BY DEF Gate, Reports
    <3>2. "failed" \in Reports
      BY DEF Reports
    <3>. QED
      BY <1>4, <3>1, <3>2, Zenon DEF Breaks, ClaimRefused, CommitFails, CycleRaises, Restart
  <2>2. rejected' \in BOOLEAN /\ read' = None /\ pc' = "idle" /\ report' \in Reports
    BY <2>1, EndTypes
  <2>3. /\ UNCHANGED <<settings, migrating, mine, seen, edits>>
        /\ faults' \in {faults, faults + 1}
    BY <1>4 DEF Breaks, ClaimRefused, CommitFails, CycleRaises, Restart, dbVars, historyVars
  <2>4. unlocked' = unlocked \/ unlocked' = FALSE
    BY <1>4, Zenon DEF Breaks, ClaimRefused, CommitFails, CycleRaises, Restart
  <2>5. unlocked' \in BOOLEAN
    BY <2>4, Zenon DEF OtherTypes
  <2>6. faults' \in Nat
    BY <2>3 DEF OtherTypes
  <2>. QED
    BY <2>2, <2>3, <2>5, <2>6, Zenon DEF OtherTypes
<1>5. CASE Claim
  <2>1. UNCHANGED <<unlocked, settings, migrating, seen, edits, faults>>
    BY <1>5 DEF Claim
  <2>2. \/ EndCycle("ran")
        \/ pc' = "send" /\ UNCHANGED <<rejected, read, report>>
    BY <1>5, Zenon DEF Claim
  <2>3. mine' \subseteq Topics
    <3>1. PICK order \in ClaimOrders(now) :
            mine' = {order[i] : i \in DOMAIN order}
                      \ {t \in {order[i] : i \in DOMAIN order} : ~topic[t].enabled}
      BY <1>5, Zenon DEF Claim
    <3>2. \A i \in DOMAIN order : order[i] \in Topics
      BY DEF ClaimOrders
    <3>. QED
      BY <3>1, <3>2
  <2>4. "ran" \in Reports
    BY DEF Reports
  <2>5. rejected' \in BOOLEAN /\ read' \in Reading \cup {None} /\ report' \in Reports
    BY <2>2, <2>4, EndTypes, Zenon DEF OtherTypes
  <2>6. pc' # "save"
    BY <2>2, <2>4, EndTypes
  <2>. QED
    BY <2>1, <2>3, <2>5, <2>6, Zenon DEF OtherTypes
<1>6. CASE SendBatch
  <2>1. /\ UNCHANGED <<unlocked, settings, migrating, read, report, mine, seen, edits, faults>>
        /\ rejected' = FALSE /\ pc' = "wait"
    BY <1>6 DEF SendBatch, dbVars
  <2>. QED
    BY <2>1, Zenon DEF OtherTypes
<1>7. CASE ReceiveAnswers
  BY <1>1, <1>7 DEF ReceiveAnswers, dbVars, historyVars
<1>8. CASE ReadForResult
  <2>. DEFINE t == Head(results).topic
  <2>1. /\ pc = "record"
        /\ \/ /\ t \in Stored /\ pc' = "save"
              /\ read' = [topic |-> topic[t], settings |-> settings,
                          count |-> RetryCount(t, topic[t].last), at |-> clock]
              /\ UNCHANGED <<rejected, seen, report>>
           \/ NextResult
    BY <1>8, ReadOrSkipped
  <2>2. UNCHANGED <<unlocked, settings, migrating, edits, faults, mine>>
    BY <1>8, ReadOrSkipped DEF ReadForResult, dbVars
  <2>3. CASE NextResult
    BY <2>1, <2>2, <2>3, NextResultTypes, Zenon DEF OtherTypes
  <2>4. CASE /\ t \in Stored /\ pc' = "save"
             /\ read' = [topic |-> topic[t], settings |-> settings,
                         count |-> RetryCount(t, topic[t].last), at |-> clock]
             /\ UNCHANGED <<rejected, seen, report>>
    <3>1. t \in Topics /\ topic[t] \in TopicRecord /\ clock \in Nat
      BY <2>4 DEF Stored, SInv, Types
    <3>2. retriedAt[t] \in Seq(Nat)
      BY <3>1 DEF SInv, Types
    <3>3. RetryCount(t, topic[t].last) \in Nat
      BY <3>2, CountIs, CountedFinite
    <3>. HIDE DEF t
    <3>4. read' \in Reading
      BY <2>4, <3>1, <3>3 DEF Reading, OtherTypes
    <3>. QED
      BY <2>2, <2>4, <3>4, Zenon DEF OtherTypes
  <2>. QED
    BY <2>1, <2>3, <2>4
<1>9. CASE CommitResult
  <2>1. pc = "save" /\ NextResult
    BY <1>9, Committed
  <2>2. UNCHANGED <<unlocked, migrating, edits, faults>>
    BY <1>9 DEF CommitResult
  <2>3. settings' \in Settings
    <3>1. settings' = [read.settings EXCEPT !.paused = TRUE] \/ settings' = settings
      BY <1>9, Zenon DEF CommitResult
    <3>2. read.settings \in Settings
      BY <2>1 DEF OtherTypes, Reading
    <3>. QED
      BY <3>1, <3>2 DEF Settings, OtherTypes
  <2>. QED
    BY <2>1, <2>2, <2>3, NextResultTypes, Zenon DEF OtherTypes
<1>10. CASE ReleaseLeases
  <2>1. /\ UNCHANGED <<unlocked, settings, migrating, mine, seen, edits, faults>>
        /\ EndCycle("ran") /\ "ran" \in Reports
    BY <1>10 DEF ReleaseLeases, historyVars, Reports
  <2>. QED
    BY <2>1, EndTypes, Zenon DEF OtherTypes
<1>11. ASSUME NEW t \in Topics,
              Remove(t) \/ \E enabled \in BOOLEAN : SetEnabled(t, enabled)
       PROVE  OtherTypes'
  <2>1. /\ UNCHANGED <<unlocked, settings, migrating, rejected, read, report, mine, seen,
                       faults, pc>>
        /\ edits' = edits + 1
    BY <1>11 DEF Remove, SetEnabled, UserStep, cycleVars, historyVars
  <2>2. edits' \in Nat
    BY <2>1 DEF OtherTypes
  <2>. QED
    BY <2>1, <2>2, Zenon DEF OtherTypes
<1>12. CASE Asides
  <2>1. /\ UNCHANGED <<rejected, read, report, mine, seen, faults, pc>>
        /\ edits' \in {edits, edits + 1}
        /\ \/ settings' = settings
           \/ settings' = [settings EXCEPT !.global = ~@]
           \/ settings' = [settings EXCEPT !.paused = FALSE]
    BY <1>12 DEF Asides, SetGlobalEnabled, ClearApiPause, SetMigrating, Unlock, Tick, UserStep,
       cycleVars, historyVars, dbVars
  <2>2. edits' \in Nat /\ settings' \in Settings
    <3>1. settings \in Settings /\ settings.global \in BOOLEAN /\ settings.paused \in BOOLEAN
      BY DEF OtherTypes, Settings
    <3>2. (~settings.global) \in BOOLEAN
      BY Zenon
    <3>3. \A b \in BOOLEAN : /\ [settings EXCEPT !.global = b] \in Settings
                            /\ [settings EXCEPT !.paused = b] \in Settings
      BY <3>1 DEF Settings
    <3>4. \E b \in BOOLEAN : \/ settings' = settings
                            \/ settings' = [settings EXCEPT !.global = b]
                            \/ settings' = [settings EXCEPT !.paused = b]
      BY <2>1, <3>2, Zenon
    <3>5. settings' \in Settings
      BY <3>1, <3>3, <3>4, Zenon
    <3>6. edits' \in Nat
      BY <2>1 DEF OtherTypes
    <3>. QED
      BY <3>5, <3>6, Zenon
  <2>3. /\ unlocked' = unlocked \/ unlocked' = TRUE
        /\ migrating' = migrating \/ migrating' = ~migrating
    <3>1. (Unlock \/ Tick) => migrating' = migrating
      BY Zenon DEF Unlock, Tick, dbVars
    <3>. QED
      BY <1>12, <3>1, Zenon DEF Asides, SetGlobalEnabled, ClearApiPause, SetMigrating, Unlock, Tick
  <2>4. unlocked' \in BOOLEAN /\ migrating' \in BOOLEAN
    BY <2>3, Zenon DEF OtherTypes
  <2>. QED
    BY <2>1, <2>2, <2>4, Zenon DEF OtherTypes
<1>. QED
  BY <1>2, <1>3, <1>4, <1>5, <1>6, <1>7, <1>8, <1>9, <1>10, <1>11, <1>12
     DEF Next, CycleStep, Breaks, Asides

\* The types, for any topics, answers, edits, failures and restarts.
THEOREM TypeCorrect == Spec => []TypeOK
<1>1. Init => OtherTypes
  <2>. SUFFICES ASSUME Init PROVE OtherTypes
    OBVIOUS
  <2>1. unlocked \in BOOLEAN /\ migrating \in BOOLEAN /\ rejected \in BOOLEAN
    BY Zenon DEF Init
  <2>2. settings \in Settings /\ report \in Reports /\ edits \in Nat /\ faults \in Nat
        /\ mine = {} /\ seen = {} /\ read = None /\ pc = "idle"
    BY DEF Init, Settings, Reports
  <2>. QED
    BY <2>1, <2>2, Zenon DEF OtherTypes
<1>2. SInv /\ OtherTypes => TypeOK
  <2>. SUFFICES ASSUME SInv, OtherTypes PROVE TypeOK
    OBVIOUS
  <2>1. /\ clock \in Nat /\ now \in Nat
        /\ topic \in [Topics -> TopicRecord \cup {None}]
        /\ due \in [Topics -> Instant] /\ lease \in [Topics -> Instant]
        /\ retriedAt \in [Topics -> Seq(Nat)]
        /\ pc \in {"idle", "claim", "send", "wait", "record", "save", "release"}
        /\ queue \in Seq(Topics) /\ batch \in Seq(Topics) /\ results \in Seq(Result)
        /\ doubt \in [Topics -> Instant] /\ streak \in [Topics -> Nat]
    BY DEF SInv, Types, Shape
  <2>. QED
    BY <2>1, Zenon DEF TypeOK, OtherTypes, Reports
<1>. QED
  BY <1>1, <1>2, SInvInit, SInvNext, OtherTypesNext, PTL DEF Spec

-----------------------------------------------------------------------------
(* The client of the forum: any number of tasks, any times, any answers.     *)

Inside == {"entered", "asleep", "token", "sending", "sent"}
Cleared == {"token", "sending", "sent"}

ClientTypes ==
  /\ blocked \in Nat /\ announced \in Nat
  /\ sleep \in [Callers -> Nat]
  /\ stage \in [Callers -> {"idle", "queued", "answered"} \cup Inside]

\* The lock excludes: whoever is inside is its holder.
Exclusion == \A p \in Callers : stage[p] \in Inside => holder = p

\* Before the wait the limit is remembered, during the wait it is being slept
\* through, after it nothing is left of it.
LimitKnown ==
  /\ \A p \in Callers : stage[p] = "asleep" => announced <= sleep[p]
  /\ \A p \in Callers : stage[p] \in Cleared => announced = 0
  /\ (\A p \in Callers : stage[p] \notin Cleared \cup {"asleep"}) => announced <= blocked

LimitInv == ClientTypes /\ Exclusion /\ LimitKnown /\ RespectsLimit

-----------------------------------------------------------------------------
\* A response never leaves less remembered than the forum asked for.
LEMMA RememberedLimit ==
  ASSUME NEW r \in Response, blocked \in Nat
  PROVE  /\ Asked(r) \in Nat /\ BlockedAfter(r) \in Nat
         /\ Asked(r) <= BlockedAfter(r)
<1>1. /\ r.retryAfter \in Waits \cup {None} /\ r.reset \in Waits \cup {None}
      /\ r.spent \in BOOLEAN
  BY DEF Response
<1>2. /\ r.retryAfter # None => r.retryAfter \in Nat
      /\ r.reset # None => r.reset \in Nat
  BY <1>1, ForumAssumption DEF ForumAssumption
<1>3. CASE r.status = 429
  BY <1>1, <1>2, <1>3 DEF Asked, BlockedAfter
<1>4. CASE r.status # 429 /\ r.spent /\ r.reset # None
  BY <1>2, <1>4 DEF Asked, BlockedAfter
<1>5. CASE r.status # 429 /\ ~(r.spent /\ r.reset # None)
  <2>1. Asked(r) = 0 /\ BlockedAfter(r) = blocked
    BY <1>5 DEF Asked, BlockedAfter
  <2>. QED
    BY <2>1
<1>. QED
  BY <1>3, <1>4, <1>5

LEMMA LimitInit == ClientInit => LimitInv
  BY DEF ClientInit, LimitInv, ClientTypes, Exclusion, LimitKnown, RespectsLimit, Inside, Cleared

LEMMA LimitNext == LimitInv /\ [ClientNext]_clientVars => LimitInv'
<1>. SUFFICES ASSUME LimitInv, [ClientNext]_clientVars PROVE LimitInv'
  OBVIOUS
<1>. USE ForumAssumption DEF LimitInv, ForumAssumption, Goto, lock, clientHistory
<1>1. ASSUME NEW p \in Callers, Call(p) PROVE LimitInv'
  BY <1>1 DEF Call, ClientTypes, Exclusion, LimitKnown, RespectsLimit, Inside, Cleared
<1>2. ASSUME NEW p \in Callers, Acquire(p) PROVE LimitInv'
  BY <1>2 DEF Acquire, ClientTypes, Exclusion, LimitKnown, RespectsLimit, Inside, Cleared
<1>3. ASSUME NEW p \in Callers, Wait(p) PROVE LimitInv'
  <2>1. \A q \in Callers \ {p} : stage[q] \notin Inside
    BY <1>3 DEF Wait, Exclusion, Inside
  <2>2. announced <= blocked
    BY <1>3, <2>1 DEF Wait, LimitKnown, Inside, Cleared
  <2>. QED
    BY <1>3, <2>1, <2>2 DEF Wait, ClientTypes, Exclusion, LimitKnown, RespectsLimit, Inside, Cleared
<1>4. ASSUME NEW p \in Callers, Wake(p) PROVE LimitInv'
  <2>1. announced = 0
    BY <1>4 DEF Wake, LimitKnown, ClientTypes
  <2>. QED
    BY <1>4, <2>1 DEF Wake, ClientTypes, Exclusion, LimitKnown, RespectsLimit, Inside, Cleared
<1>5. ASSUME NEW p \in Callers, FetchToken(p) PROVE LimitInv'
  <2>1. announced = 0 /\ \A q \in Callers \ {p} : stage[q] \notin Inside
    BY <1>5 DEF FetchToken, LimitKnown, Exclusion, Inside, Cleared
  <2>2. /\ stage' \in [Callers -> {"idle", "queued", "answered"} \cup Inside]
        /\ \A q \in Callers \ {p} : stage'[q] = stage[q]
        /\ stage'[p] \in {"sending", "idle", "answered"}
        /\ stage'[p] = "sending" => holder' = holder
    BY <1>5 DEF FetchToken, ClientTypes, Inside
  <2>. QED
    BY <1>5, <2>1, <2>2
    DEF FetchToken, ClientTypes, Exclusion, LimitKnown, RespectsLimit, Inside, Cleared
<1>6. ASSUME NEW p \in Callers, Send(p) PROVE LimitInv'
  <2>1. announced = 0
    BY <1>6 DEF Send, LimitKnown, Cleared
  <2>2. ~(announced > 0)
    BY <2>1
  <2>3. ~early'
    BY <1>6, <2>2, Zenon DEF Send, RespectsLimit
  <2>. QED
    BY <1>6, <2>1, <2>3 DEF Send, ClientTypes, Exclusion, LimitKnown, RespectsLimit, Inside, Cleared
<1>7. ASSUME NEW p \in Callers, Respond(p) PROVE LimitInv'
  <2>1. \A q \in Callers \ {p} : stage[q] \notin Inside
    BY <1>7 DEF Respond, Exclusion, Inside
  <2>2. PICK r \in Response : blocked' = BlockedAfter(r) /\ announced' = Asked(r)
    BY <1>7 DEF Respond
  <2>3. announced' \in Nat /\ blocked' \in Nat /\ announced' <= blocked'
    BY <2>2, RememberedLimit DEF ClientTypes
  <2>4. stage' = [stage EXCEPT ![p] = "answered"] /\ UNCHANGED <<sleep, early>>
    BY <1>7 DEF Respond
  <2>. QED
    BY <2>1, <2>3, <2>4 DEF ClientTypes, Exclusion, LimitKnown, RespectsLimit, Inside, Cleared
<1>8. ASSUME NEW p \in Callers, NetworkFails(p) PROVE LimitInv'
  <2>1. announced = 0 /\ \A q \in Callers \ {p} : stage[q] \notin Inside
    BY <1>8 DEF NetworkFails, LimitKnown, Exclusion, Inside, Cleared
  <2>2. stage' = [stage EXCEPT ![p] = "answered"] /\ UNCHANGED <<blocked, sleep, announced, early>>
    BY <1>8 DEF NetworkFails
  <2>. QED
    BY <2>1, <2>2 DEF ClientTypes, Exclusion, LimitKnown, RespectsLimit, Inside, Cleared
<1>9. ASSUME NEW p \in Callers, Return(p) PROVE LimitInv'
  BY <1>9 DEF Return, ClientTypes, Exclusion, LimitKnown, RespectsLimit, Inside, Cleared
<1>10. CASE TimePasses
  <2>1. /\ sleep' = [p \in Callers |-> Less(sleep[p])]
        /\ blocked' = Less(blocked) /\ announced' = Less(announced)
        /\ UNCHANGED <<holder, stage, early>>
    BY <1>10 DEF TimePasses
  <2>2. \A n, m \in Nat : Less(n) \in Nat /\ (n <= m => Less(n) <= Less(m)) /\ Less(0) = 0
    BY DEF Less
  <2>. QED
    BY <2>1, <2>2 DEF ClientTypes, Exclusion, LimitKnown, RespectsLimit, Inside, Cleared
<1>11. CASE UNCHANGED clientVars
  BY <1>11 DEF clientVars, ClientTypes, Exclusion, LimitKnown, RespectsLimit, Inside, Cleared
<1>. QED
  BY <1>1, <1>2, <1>3, <1>4, <1>5, <1>6, <1>7, <1>8, <1>9, <1>10, <1>11 DEF ClientNext, ClientStep

\* No request, of whichever task, is sent before the time the forum gave: for
\* any number of tasks, any waits and any answers.
THEOREM LimitRespected == ClientSpec => []RespectsLimit
<1>1. LimitInv => RespectsLimit
  BY DEF LimitInv
<1>. QED
  BY LimitInit, LimitNext, <1>1, PTL DEF ClientSpec

-----------------------------------------------------------------------------
\* What a response becomes: success only of a job it reports as bumped, a time
\* only with a retry.
LEMMA ResultsReal ==
  ASSUME NEW r \in Response, NEW j \in Jobs
  PROVE  /\ BatchResults(r)[j].outcome = "success" => j \in BumpedBy(r)
         /\ BatchResults(r)[j].retryIn # None => BatchResults(r)[j].outcome = "retry"
<1>1. \A outcome, wait : /\ ResultOf(outcome, wait).outcome = outcome
                         /\ ResultOf(outcome, wait).retryIn # None => outcome = "retry"
  BY DEF ResultOf
<1>2. r.status \in Statuses /\ r.jobs[j] \in Answer
  BY DEF Response
<1>3. CASE ~Success(r.status)
  <2>1. OutcomeForKind(ErrorKindForStatus(r.status)) # "success"
    BY <1>3 DEF OutcomeForKind, ErrorKindForStatus
  <2>. QED
    BY <1>1, <1>3, <2>1 DEF BatchResults
<1>4. CASE Success(r.status) /\ ~r.valid
  BY <1>1, <1>4 DEF BatchResults, OutcomeForKind
<1>5. CASE Success(r.status) /\ r.valid
  <2>1. BatchResults(r)[j] = JobResult(r, j)
    BY <1>5 DEF BatchResults
  <2>2. CASE r.jobs[j] \in {Omitted, None}
    BY <1>1, <2>1, <2>2 DEF JobResult
  <2>3. CASE r.jobs[j] \notin {Omitted, None}
    <3>1. r.jobs[j] \in Statuses
      BY <1>2, <2>3 DEF Answer
    <3>2. BatchResults(r)[j].outcome = OutcomeForStatus(r.jobs[j])
      BY <1>1, <2>1, <2>3 DEF JobResult
    <3>3. OutcomeForStatus(r.jobs[j]) = "success" => Success(r.jobs[j])
      BY DEF OutcomeForStatus
    <3>4. BatchResults(r)[j].retryIn # None => BatchResults(r)[j].outcome = "retry"
      BY <1>1, <2>1, <2>3 DEF JobResult
    <3>. QED
      BY <1>5, <3>1, <3>2, <3>3, <3>4 DEF BumpedBy, Reported
  <2>. QED
    BY <2>2, <2>3
<1>. QED
  BY <1>3, <1>4, <1>5

ResultInv ==
  /\ DOMAIN reply = Callers /\ DOMAIN bumped = Callers
  /\ SuccessIsReal

LEMMA ResultNext == ResultInv /\ [ClientNext]_clientVars => ResultInv'
<1>. SUFFICES ASSUME ResultInv, [ClientNext]_clientVars PROVE ResultInv'
  OBVIOUS
<1>. USE DEF ResultInv, clientHistory
<1>1. CASE UNCHANGED <<reply, bumped>>
  BY <1>1 DEF SuccessIsReal
<1>2. ASSUME NEW p \in Callers, NEW R, NEW B,
             reply' = [reply EXCEPT ![p] = R], bumped' = [bumped EXCEPT ![p] = B],
             R # None =>
               \A j \in Jobs : /\ R[j].outcome = "success" => j \in B
                               /\ R[j].retryIn # None => R[j].outcome = "retry"
      PROVE  ResultInv'
  <2>1. /\ reply'[p] = R /\ bumped'[p] = B
        /\ \A q \in Callers \ {p} : reply'[q] = reply[q] /\ bumped'[q] = bumped[q]
        /\ DOMAIN reply' = Callers /\ DOMAIN bumped' = Callers
    BY <1>2
  <2>2. ASSUME NEW q \in Callers, NEW j \in Jobs, reply'[q] # None
        PROVE  /\ reply'[q][j].outcome = "success" => j \in bumped'[q]
               /\ reply'[q][j].retryIn # None => reply'[q][j].outcome = "retry"
    <3>1. CASE q = p
      BY <1>2, <2>1, <2>2, <3>1
    <3>2. CASE q # p
      BY <2>1, <2>2, <3>2 DEF SuccessIsReal
    <3>. QED
      BY <3>1, <3>2
  <2>. QED
    BY <2>1, <2>2 DEF SuccessIsReal
<1>3. ASSUME NEW p \in Callers, FetchToken(p) PROVE ResultInv'
  <2>1. CASE UNCHANGED reply
    BY <1>1, <1>3, <2>1 DEF FetchToken
  <2>2. CASE reply' = [reply EXCEPT ![p] =
                           [j \in Jobs |-> ResultOf(OutcomeForKind("unauthorized"), None)]]
    BY <1>3, <2>2 DEF FetchToken, ResultOf, OutcomeForKind, SuccessIsReal
  <2>. QED
    BY <1>3, <2>1, <2>2 DEF FetchToken
<1>4. ASSUME NEW p \in Callers, Respond(p) PROVE ResultInv'
  <2>1. PICK r \in Response, unreported \in SUBSET Jobs :
          /\ reply' = [reply EXCEPT ![p] = BatchResults(r)]
          /\ bumped' = [bumped EXCEPT ![p] = (unreported \ Reported(r)) \cup BumpedBy(r)]
    BY <1>4 DEF Respond
  <2>. QED
    BY <1>2, <2>1, ResultsReal
<1>5. ASSUME NEW p \in Callers, NetworkFails(p) PROVE ResultInv'
  <2>1. PICK jobs \in SUBSET Jobs : bumped' = [bumped EXCEPT ![p] = jobs]
    BY <1>5 DEF NetworkFails
  <2>. QED
    BY <1>2, <1>5, <2>1 DEF NetworkFails, ResultOf, OutcomeForKind
<1>6. ASSUME NEW p \in Callers, Return(p) PROVE ResultInv'
  BY <1>2, <1>6 DEF Return
<1>. QED
  BY <1>1, <1>3, <1>4, <1>5, <1>6
  DEF ClientNext, ClientStep, clientVars, Call, Acquire, Wait, Wake, Send, TimePasses

\* A job is reported bumped only if the forum bumped it, whatever the response
\* and however many tasks share the client.
THEOREM SuccessIsRealAlways == ClientSpec => []SuccessIsReal
<1>1. ClientInit => ResultInv
  BY DEF ClientInit, ResultInv, SuccessIsReal
<1>2. ResultInv => SuccessIsReal
  BY DEF ResultInv
<1>. QED
  BY <1>1, ResultNext, <1>2, PTL DEF ClientSpec

-----------------------------------------------------------------------------
\* A refusal means the same whether the status came for the batch
\* (_error_kind_for_status, _result_from_error) or for a job of it
\* (_outcome_for_status).
THEOREM StatusTablesAgree ==
  ASSUME NEW status \in Nat, ~Success(status)
  PROVE  OutcomeForKind(ErrorKindForStatus(status)) = OutcomeForStatus(status)
<1>1. CASE status \in {401, 403, 404, 429}
  BY <1>1 DEF OutcomeForKind, ErrorKindForStatus, OutcomeForStatus, Success
<1>2. CASE status \notin {401, 403, 404, 429} /\ status >= 500
  BY <1>2 DEF OutcomeForKind, ErrorKindForStatus, OutcomeForStatus, Success
<1>3. CASE status \notin {401, 403, 404, 429} /\ ~(status >= 500)
  BY <1>3 DEF OutcomeForKind, ErrorKindForStatus, OutcomeForStatus, Success
<1>. QED
  BY <1>1, <1>2, <1>3

-----------------------------------------------------------------------------
\* Joining the queue, and leaving it at its head.
LEMMA Joined ==
  ASSUME NEW s \in Seq(Callers), NEW p \in Callers, Once(s), p \notin Elements(s)
  PROVE  /\ Append(s, p) \in Seq(Callers) /\ Once(Append(s, p))
         /\ Elements(Append(s, p)) = Elements(s) \cup {p}
<1>1. /\ Len(s) \in Nat /\ DOMAIN s = 1 .. Len(s) /\ DOMAIN Append(s, p) = 1 .. Len(s) + 1
      /\ Append(s, p)[Len(s) + 1] = p
      /\ \A i \in 1 .. Len(s) : Append(s, p)[i] = s[i]
      /\ Append(s, p) \in Seq(Callers)
  OBVIOUS
<1>. DEFINE t == Append(s, p)
<1>. HIDE DEF t
<1>2. Elements(t) = Elements(s) \cup {p}
  BY <1>1 DEF Elements, t
<1>3. \A i \in 1 .. Len(s) : t[i] # p
  BY <1>1 DEF Elements, t
<1>4. Once(t)
  BY <1>1, <1>3 DEF Once, t
<1>. QED
  BY <1>1, <1>2, <1>4 DEF t

LEMMA Left ==
  ASSUME NEW s \in Seq(Callers), Once(s), s # <<>>
  PROVE  /\ Head(s) \in Callers /\ Tail(s) \in Seq(Callers) /\ Once(Tail(s))
         /\ Elements(Tail(s)) = Elements(s) \ {Head(s)}
<1>1. /\ Len(s) \in Nat /\ Len(s) > 0 /\ DOMAIN s = 1 .. Len(s) /\ Head(s) = s[1]
      /\ Tail(s) \in Seq(Callers) /\ DOMAIN Tail(s) = 1 .. Len(s) - 1
      /\ \A i \in 1 .. Len(s) - 1 : Tail(s)[i] = s[i + 1]
  OBVIOUS
<1>. DEFINE t == Tail(s)
<1>. HIDE DEF t
<1>2. \A i \in 1 .. Len(s) : i = 1 \/ (i - 1 \in 1 .. Len(s) - 1 /\ t[i - 1] = s[i] /\ s[i] # s[1])
  BY <1>1 DEF Once, t
<1>3. Elements(t) \subseteq Elements(s) \ {s[1]}
  BY <1>1, <1>2 DEF Elements, Once, t
<1>4. Elements(s) \ {s[1]} \subseteq Elements(t)
  <2>1. ASSUME NEW i \in DOMAIN s, s[i] # s[1] PROVE s[i] \in Elements(t)
    <3>1. i - 1 \in DOMAIN t /\ t[i - 1] = s[i]
      BY <1>1, <1>2, <2>1 DEF t
    <3>. QED
      BY <3>1 DEF Elements
  <2>. QED
    BY <2>1 DEF Elements
<1>5. Once(t)
  BY <1>1 DEF Once, t
<1>. QED
  BY <1>1, <1>3, <1>4, <1>5 DEF t

\* Who waits is in the queue, once; who is past it holds the lock.
QueueInv ==
  /\ stage \in [Callers -> {"idle", "queued", "answered"} \cup Inside]
  /\ holder \in Callers \cup {None}
  /\ \A p \in Callers : stage[p] \in Inside <=> holder = p
  /\ waiters \in Seq(Callers) /\ Once(waiters)
  /\ \A p \in Callers : stage[p] = "queued" <=> p \in Elements(waiters)

LEMMA QueueNext == QueueInv /\ [ClientNext]_clientVars => QueueInv'
<1>. SUFFICES ASSUME QueueInv, [ClientNext]_clientVars PROVE QueueInv'
  OBVIOUS
<1>. USE ForumAssumption DEF QueueInv, ForumAssumption, Goto, lock, clientHistory, Inside
<1>1. ASSUME NEW p \in Callers, Call(p) PROVE QueueInv'
  <2>1. waiters' = Append(waiters, p) /\ stage' = [stage EXCEPT ![p] = "queued"]
        /\ holder' = holder /\ stage[p] = "idle"
    BY <1>1 DEF Call
  <2>2. p \notin Elements(waiters)
    BY <2>1
  <2>3. /\ waiters' \in Seq(Callers) /\ Once(waiters)'
        /\ Elements(waiters') = Elements(waiters) \cup {p}
    BY <2>1, <2>2, Joined DEF Once
  <2>. QED
    BY <2>1, <2>3 DEF Elements
<1>2. ASSUME NEW p \in Callers, Acquire(p) PROVE QueueInv'
  <2>1. waiters' = Tail(waiters) /\ stage' = [stage EXCEPT ![p] = "entered"]
        /\ holder' = p /\ holder = None /\ stage[p] = "queued" /\ Head(waiters) = p
    BY <1>2 DEF Acquire
  <2>2. waiters # <<>>
    BY <2>1, EmptyLists
  <2>3. /\ waiters' \in Seq(Callers) /\ Once(waiters)'
        /\ Elements(waiters') = Elements(waiters) \ {p}
    BY <2>1, <2>2, Left DEF Once
  <2>. QED
    BY <2>1, <2>3 DEF Elements
<1>3. ASSUME NEW p \in Callers,
             UNCHANGED waiters, stage[p] # "queued",
             \/ UNCHANGED holder /\ stage[p] \in Inside
                /\ \E s \in Inside : stage' = [stage EXCEPT ![p] = s]
             \/ holder' = None /\ stage[p] \in Inside
                /\ \E s \in {"idle", "answered"} : stage' = [stage EXCEPT ![p] = s]
             \/ UNCHANGED holder /\ stage[p] \notin Inside /\ stage' = [stage EXCEPT ![p] = "idle"]
      PROVE  QueueInv'
  <2>1. \A q \in Callers : /\ q # p => stage'[q] = stage[q]
                           /\ stage'[q] = "queued" <=> stage[q] = "queued"
    BY <1>3
  <2>2. stage' \in [Callers -> {"idle", "queued", "answered"} \cup Inside]
    BY <1>3
  <2>3. holder' \in Callers \cup {None} /\ \A q \in Callers : stage'[q] \in Inside <=> holder' = q
    BY <1>3, <2>1
  <2>. QED
    BY <1>3, <2>1, <2>2, <2>3 DEF Elements, Once
<1>4. ASSUME NEW p \in Callers, Wait(p) \/ Wake(p) \/ FetchToken(p) \/ Send(p) \/ Respond(p)
                                \/ NetworkFails(p) \/ Return(p)
      PROVE  QueueInv'
  BY <1>3, <1>4 DEF Wait, Wake, FetchToken, Send, Respond, NetworkFails, Return, Release
<1>5. CASE TimePasses
  BY <1>5 DEF TimePasses, Elements, Once
<1>6. CASE UNCHANGED clientVars
  BY <1>6 DEF clientVars, Elements, Once
<1>. QED
  BY <1>1, <1>2, <1>4, <1>5, <1>6 DEF ClientNext, ClientStep

\* What a response becomes is a result for every job.
LEMMA ResultsTyped ==
  ASSUME NEW r \in Response
  PROVE  BatchResults(r) \in [Jobs -> ClientResult]
<1>. SUFFICES ASSUME NEW j \in Jobs PROVE BatchResults(r)[j] \in ClientResult
  BY DEF BatchResults
<1>1. \A outcome \in Outcomes, wait \in Waits \cup {None} : ResultOf(outcome, wait) \in ClientResult
  BY DEF ResultOf, ClientResult
<1>2. \A kind : OutcomeForKind(kind) \in Outcomes
  BY DEF OutcomeForKind, Outcomes, Rejections, Failures
<1>3. \A status : OutcomeForStatus(status) \in Outcomes
  BY DEF OutcomeForStatus, Outcomes, Rejections, Failures
<1>4. r.retryAfter \in Waits \cup {None} /\ r.jobRetry[j] \in Waits \cup {None}
  BY DEF Response
<1>5. "retry" \in Outcomes /\ "error" \in Outcomes
  BY DEF Outcomes, Failures
<1>6. JobResult(r, j) \in ClientResult
  BY <1>1, <1>3, <1>4, <1>5 DEF JobResult
<1>. QED
  BY <1>1, <1>2, <1>4, <1>6 DEF BatchResults

ReplyTypes ==
  /\ reply \in [Callers -> [Jobs -> ClientResult] \cup {None}]
  /\ bumped \in [Callers -> SUBSET Jobs]

EarlyTyped == early \in BOOLEAN

LEMMA ReplyTypesNext == ReplyTypes /\ [ClientNext]_clientVars => ReplyTypes'
<1>. SUFFICES ASSUME ReplyTypes, [ClientNext]_clientVars PROVE ReplyTypes'
  OBVIOUS
<1>. USE DEF ReplyTypes, clientHistory
<1>1. CASE UNCHANGED <<reply, bumped>>
  BY <1>1
<1>2. \A kind : [j \in Jobs |-> ResultOf(OutcomeForKind(kind), None)] \in [Jobs -> ClientResult]
  BY DEF ResultOf, OutcomeForKind, ClientResult, Outcomes, Rejections, Failures
<1>3. ASSUME NEW p \in Callers, FetchToken(p) PROVE ReplyTypes'
  BY <1>2, <1>3 DEF FetchToken
<1>4. ASSUME NEW p \in Callers, Respond(p) PROVE ReplyTypes'
  <2>1. PICK r \in Response, unreported \in SUBSET Jobs :
          /\ reply' = [reply EXCEPT ![p] = BatchResults(r)]
          /\ bumped' = [bumped EXCEPT ![p] = (unreported \ Reported(r)) \cup BumpedBy(r)]
    BY <1>4 DEF Respond
  <2>2. BumpedBy(r) \subseteq Jobs
    BY DEF BumpedBy, Reported
  <2>. QED
    BY <2>1, <2>2, ResultsTyped
<1>5. ASSUME NEW p \in Callers, NetworkFails(p) PROVE ReplyTypes'
  BY <1>2, <1>5 DEF NetworkFails
<1>6. ASSUME NEW p \in Callers, Return(p) PROVE ReplyTypes'
  BY <1>6 DEF Return
<1>. QED
  BY <1>1, <1>3, <1>4, <1>5, <1>6
     DEF ClientNext, ClientStep, clientVars, Call, Acquire, Wait, Wake, Send, TimePasses

\* The lock of the client for any number of tasks: one of them is past the
\* queue at a time, a waiting task is in the queue once, and a reply has a
\* result of every job of the batch.
THEOREM ClientTypeCorrect == ClientSpec => []ClientTypeOK
<1>1. ClientInit => QueueInv /\ ReplyTypes /\ EarlyTyped
  <2>. SUFFICES ASSUME ClientInit PROVE QueueInv /\ ReplyTypes /\ EarlyTyped
    OBVIOUS
  <2>1. QueueInv
    BY EmptyLists, ForumAssumption DEF ClientInit, QueueInv, Inside, ForumAssumption
  <2>. QED
    BY <2>1 DEF ClientInit, ReplyTypes, EarlyTyped
<1>2. EarlyTyped /\ [ClientNext]_clientVars => EarlyTyped'
  BY Zenon DEF EarlyTyped, ClientNext, ClientStep, clientVars, clientHistory, Call, Acquire, Wait,
     Wake, FetchToken, Send, Respond, NetworkFails, Return, TimePasses
<1>3. LimitInv /\ QueueInv /\ ReplyTypes /\ EarlyTyped => ClientTypeOK
  <2>. SUFFICES ASSUME LimitInv, QueueInv, ReplyTypes, EarlyTyped PROVE ClientTypeOK
    OBVIOUS
  <2>1. ASSUME NEW p \in Callers
        PROVE  Cardinality({i \in DOMAIN waiters : waiters[i] = p}) =
                 (IF stage[p] = "queued" THEN 1 ELSE 0)
    <3>1. CASE stage[p] = "queued"
      <4>1. PICK i \in DOMAIN waiters : waiters[i] = p
        BY <3>1 DEF QueueInv, Elements
      <4>2. {k \in DOMAIN waiters : waiters[k] = p} = {i}
        BY <4>1 DEF QueueInv, Once
      <4>. QED
        BY <3>1, <4>2, FS_Singleton
    <3>2. CASE stage[p] # "queued"
      <4>1. {k \in DOMAIN waiters : waiters[k] = p} = {}
        BY <3>2 DEF QueueInv, Elements
      <4>. QED
        BY <3>2, <4>1, FS_EmptySet
    <3>. QED
      BY <3>1, <3>2
  <2>2. blocked \in Nat /\ announced \in Nat /\ sleep \in [Callers -> Nat]
    BY DEF LimitInv, ClientTypes
  <2>3. /\ holder \in Callers \cup {None} /\ waiters \in Seq(Callers)
        /\ stage \in [Callers -> {"idle", "queued", "entered", "asleep", "token", "sending", "sent",
                                  "answered"}]
        /\ \A p \in Callers :
             stage[p] \in {"entered", "asleep", "token", "sending", "sent"} <=> holder = p
    BY DEF QueueInv, Inside
  <2>. QED
    BY <2>1, <2>2, <2>3, Zenon DEF ReplyTypes, EarlyTyped, ClientTypeOK
<1>. QED
  BY LimitInit, LimitNext, QueueNext, ReplyTypesNext, <1>1, <1>2, <1>3, PTL DEF ClientSpec

-----------------------------------------------------------------------------
(* The client under the cycle.                                             *)

\* The results of a batch as the cycle gets them: a time to retry at is an
\* instant of its clock.
Received(p) ==
  [i \in DOMAIN batch |->
     [topic |-> batch[i], outcome |-> reply[p][i].outcome,
      retryAt |-> IF reply[p][i].retryIn = None THEN None ELSE clock + reply[p][i].retryIn]]

\* What is proved of the cycle for every possible result holds for what the
\* client returns: whatever the forum answered, the results of the jobs of a
\* batch are among those ReceiveAnswers provides for.  The invariants hold in
\* every state of the client (ClientTypeCorrect, SuccessIsRealAlways).
THEOREM RepliesAreResults ==
  ASSUME TypeOK, ClientTypeOK, SuccessIsReal,
         Jobs = DOMAIN batch, Answers = Outcomes, RetryAfter = Waits,
         NEW p \in Callers, reply[p] # None
  PROVE  Received(p) \in PossibleResults
<1>1. ASSUME NEW i \in DOMAIN batch
      PROVE  /\ batch[i] \in Topics
             /\ reply[p][i].outcome \in Outcomes /\ reply[p][i].retryIn \in Waits \cup {None}
             /\ reply[p][i].retryIn # None => reply[p][i].outcome = "retry"
  <2>1. reply[p] \in [Jobs -> ClientResult] /\ batch \in Seq(Topics)
    BY DEF ClientTypeOK, TypeOK
  <2>2. reply[p][i] \in ClientResult
    BY <2>1
  <2>. QED
    BY <2>1, <2>2 DEF ClientResult, SuccessIsReal
<1>2. \A i \in DOMAIN batch :
        /\ Received(p)[i] \in [topic : Topics, outcome : Answers,
                               retryAt : {None} \cup {clock + d : d \in RetryAfter}]
        /\ Received(p)[i].topic = batch[i]
        /\ Received(p)[i].retryAt # None => Received(p)[i].outcome = "retry"
  BY <1>1 DEF Received
<1>. QED
  BY <1>2 DEF PossibleResults, Received
=============================================================================
