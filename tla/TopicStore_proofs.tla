-------------------------- MODULE TopicStore_proofs --------------------------
(***************************************************************************)
(* For any number of sessions, topics, operations and intervals, and every *)
(* set of encrypted columns: a due time that differs from its schedule, and *)
(* a pause that ended by itself, come from a save that was raced; a removed *)
(* topic is never brought back by a save.  With one session at a time, what *)
(* overlapping sessions break (see TopicStore) holds.                      *)
(***************************************************************************)
EXTENDS TopicStore, FiniteSetTheorems, TLAPS

-----------------------------------------------------------------------------
(* The scripts.                                                            *)

\* Operations that need the settings for the topic they save; those that save
\* one at all.
NeedsSettings(o) ==
  o.kind \in {"enable", "custom", "record"} \/ (o.kind = "manual" /\ o.outcome = "success")
Savers == {"enable", "disable", "custom", "manual", "record", "interval"}
Saving == {"load", "write"}

\* Operation o may execute the statements s.
Fits(o, s) ==
  \A i \in 1 .. Len(s) :
    /\ s[i] \in {"topic", "attempt", "delete"} => OnTopic(o)
    /\ s[i] = "insert" => o.kind = "add"
    /\ s[i] = "delete" => o.kind = "remove"
    /\ s[i] \in {"forum", "notify"} => o.kind \in {"add", "manual"}
    /\ s[i] = "list" => o.kind = "interval"
    /\ s[i] \in Saving => o.kind \in Savers

\* The topic is read first, an UPDATE follows its SELECT, and a topic is saved
\* neither after the last UPDATE nor after the listing that starts a loop.
Ordered(s) ==
  \A i \in 1 .. Len(s) :
    /\ s[i] = "topic" => i = 1
    /\ i > 1 => /\ s[i] = "write" => s[i - 1] = "load"
                /\ s[i] = "writeSettings" => s[i - 1] = "loadSettings"
    /\ \A j \in 1 .. i - 1 : s[j] \in {"write", "list"} => s[i] \notin Saving

\* What the statements s use is there, or a statement before reads it.
Ready(o, s, tg, rc, cf) ==
  \A i \in 1 .. Len(s) :
    /\ s[i] \in Saving =>
         tg # <<>> /\ (s[1] = "topic" \/ \A k \in 1 .. Len(tg) : rc[tg[k]] \in Row)
    /\ s[i] = "topic" => tg = <<o.topic>>
    /\ s[i] \in {"loadSettings", "insert"} \/ (s[i] \in Saving /\ NeedsSettings(o))
         => cf \in Settings \/ \E j \in 1 .. i - 1 : s[j] = "settings"

Fresh(o, s, rc, cf) ==
  /\ s \in Seq(Steps) /\ s # <<>> /\ s[1] \notin {"write", "writeSettings"}
  /\ Fits(o, s) /\ Ordered(s)
  /\ Ready(o, s, IF OnTopic(o) THEN <<o.topic>> ELSE <<>>, rc, cf)

LEMMA OperationFields ==
  ASSUME NEW o \in Operations
  PROVE  /\ OnTopic(o) \/ o.kind = "add" => o.topic \in Topics
         /\ o.kind = "custom" => o.seconds \in Nat \cup {None}
         /\ o.kind = "interval" => o.seconds \in Nat
         /\ o.kind \in {"manual", "record"} => o.outcome \in Outcomes
  BY StoreAssumption DEF StoreAssumption, Operations, OnTopic

\* The columns an UPDATE writes: all the save changed, if the row is still the
\* one its SELECT returned.
LEMMA AppliedUnraced ==
  ASSUME NEW b \in Row, NEW n \in Row
  PROVE  Applied(b, b, n) = n
  BY DEF Applied, Written, Row
LEMMA AppliedRow ==
  ASSUME NEW c \in Row, NEW b, NEW n \in Row
  PROVE  Applied(c, b, n) \in Row
  BY DEF Applied, Written, Row

LEMMA ScriptFresh ==
  ASSUME NEW o \in Operations, NEW rc, NEW cf
  PROVE  Fresh(o, Script(o), rc, cf)
<1>. USE DEF Fresh, Fits, Ordered, Ready, NeedsSettings, Savers, Saving, OnTopic, Steps
<1>1. CASE o.kind = "add"
  <2>1. Script(o) = <<"forum", "settings", "insert", "commit">>
    BY <1>1 DEF Script
  <2>2. ASSUME NEW s, s = <<"forum", "settings", "insert", "commit">> PROVE Fresh(o, s, rc, cf)
    <3>1. s \in Seq(Steps) /\ s # <<>> /\ s[1] \notin {"write", "writeSettings"}
      BY <2>2
    <3>2. Fits(o, s)
      BY <2>2, <1>1
    <3>3. Ordered(s)
      BY <2>2
    <3>4. Ready(o, s, IF OnTopic(o) THEN <<o.topic>> ELSE <<>>, rc, cf)
      BY <2>2, <1>1
    <3>. QED
      BY <3>1, <3>2, <3>3, <3>4
  <2>. QED
    BY <2>1, <2>2
<1>2. CASE o.kind \in {"enable", "custom"}
  <2>1. Script(o) = <<"topic", "settings", "load", "write", "commit">>
    BY <1>2 DEF Script
  <2>2. ASSUME NEW s, s = <<"topic", "settings", "load", "write", "commit">> PROVE Fresh(o, s, rc, cf)
    <3>1. s \in Seq(Steps) /\ s # <<>> /\ s[1] \notin {"write", "writeSettings"}
      BY <2>2
    <3>2. Fits(o, s)
      BY <2>2, <1>2
    <3>3. Ordered(s)
      BY <2>2
    <3>4. Ready(o, s, IF OnTopic(o) THEN <<o.topic>> ELSE <<>>, rc, cf)
      BY <2>2, <1>2
    <3>. QED
      BY <3>1, <3>2, <3>3, <3>4
  <2>. QED
    BY <2>1, <2>2
<1>3. CASE o.kind = "disable"
  BY <1>3 DEF Script
<1>4. CASE o.kind = "remove"
  <2>1. Script(o) = <<"topic", "delete", "commit">>
    BY <1>4 DEF Script
  <2>2. ASSUME NEW s, s = <<"topic", "delete", "commit">> PROVE Fresh(o, s, rc, cf)
    <3>1. s \in Seq(Steps) /\ s # <<>> /\ s[1] \notin {"write", "writeSettings"}
      BY <2>2
    <3>2. Fits(o, s)
      BY <2>2, <1>4
    <3>3. Ordered(s)
      BY <2>2
    <3>4. Ready(o, s, IF OnTopic(o) THEN <<o.topic>> ELSE <<>>, rc, cf)
      BY <2>2, <1>4
    <3>. QED
      BY <3>1, <3>2, <3>3, <3>4
  <2>. QED
    BY <2>1, <2>2
<1>5. CASE o.kind = "manual" /\ o.outcome = "success"
  <2>1. Script(o) = <<"topic", "forum", "attempt", "settings", "load", "write", "commit">>
    BY <1>5 DEF Script, ManualScript, Rejections
  <2>2. ASSUME NEW s, s = <<"topic", "forum", "attempt", "settings", "load", "write", "commit">> PROVE Fresh(o, s, rc, cf)
    <3>1. s \in Seq(Steps) /\ s # <<>> /\ s[1] \notin {"write", "writeSettings"}
      BY <2>2
    <3>2. Fits(o, s)
      BY <2>2, <1>5
    <3>3. Ordered(s)
      BY <2>2
    <3>4. Ready(o, s, IF OnTopic(o) THEN <<o.topic>> ELSE <<>>, rc, cf)
      BY <2>2, <1>5
    <3>. QED
      BY <3>1, <3>2, <3>3, <3>4
  <2>. QED
    BY <2>1, <2>2
<1>6. CASE o.kind = "manual" /\ o.outcome \in Rejections
  <2>1. Script(o) = <<"topic", "forum", "attempt", "settings", "loadSettings",
         "writeSettings", "notify", "load", "write", "commit">>
    BY <1>6 DEF Script, ManualScript, Rejections
  <2>2. ASSUME NEW s, s = <<"topic", "forum", "attempt", "settings", "loadSettings",
         "writeSettings", "notify", "load", "write", "commit">> PROVE Fresh(o, s, rc, cf)
    <3>1. s \in Seq(Steps) /\ s # <<>> /\ s[1] \notin {"write", "writeSettings"}
      BY <2>2
    <3>2. Fits(o, s)
      BY <2>2, <1>6
    <3>3. Ordered(s)
      BY <2>2
    <3>4. Ready(o, s, IF OnTopic(o) THEN <<o.topic>> ELSE <<>>, rc, cf)
      BY <2>2, <1>6
    <3>. QED
      BY <3>1, <3>2, <3>3, <3>4
  <2>. QED
    BY <2>1, <2>2
<1>7. CASE o.kind = "manual" /\ o.outcome \notin Rejections \cup {"success"}
  <2>1. Script(o) = <<"topic", "forum", "attempt", "load", "write", "commit">>
    BY <1>7 DEF Script, ManualScript
  <2>2. ASSUME NEW s, s = <<"topic", "forum", "attempt", "load", "write", "commit">> PROVE Fresh(o, s, rc, cf)
    <3>1. s \in Seq(Steps) /\ s # <<>> /\ s[1] \notin {"write", "writeSettings"}
      BY <2>2
    <3>2. Fits(o, s)
      BY <2>2, <1>7
    <3>3. Ordered(s)
      BY <2>2
    <3>4. Ready(o, s, IF OnTopic(o) THEN <<o.topic>> ELSE <<>>, rc, cf)
      BY <2>2, <1>7
    <3>. QED
      BY <3>1, <3>2, <3>3, <3>4
  <2>. QED
    BY <2>1, <2>2
<1>8. CASE o.kind = "record" /\ o.outcome \in Rejections
  <2>1. Script(o) = <<"topic", "settings", "attempt", "load", "write",
         "loadSettings", "writeSettings", "commit">>
    BY <1>8 DEF Script, RecordScript
  <2>2. ASSUME NEW s, s = <<"topic", "settings", "attempt", "load", "write",
         "loadSettings", "writeSettings", "commit">> PROVE Fresh(o, s, rc, cf)
    <3>1. s \in Seq(Steps) /\ s # <<>> /\ s[1] \notin {"write", "writeSettings"}
      BY <2>2
    <3>2. Fits(o, s)
      BY <2>2, <1>8
    <3>3. Ordered(s)
      BY <2>2
    <3>4. Ready(o, s, IF OnTopic(o) THEN <<o.topic>> ELSE <<>>, rc, cf)
      BY <2>2, <1>8
    <3>. QED
      BY <3>1, <3>2, <3>3, <3>4
  <2>. QED
    BY <2>1, <2>2
<1>9. CASE o.kind = "record" /\ o.outcome \notin Rejections
  BY <1>9 DEF Script, RecordScript
<1>10. CASE o.kind = "interval"
  <2>1. Script(o) = <<"settings", "loadSettings", "writeSettings", "list", "commit">>
    BY <1>10 DEF Script
  <2>2. ASSUME NEW s, s = <<"settings", "loadSettings", "writeSettings", "list", "commit">> PROVE Fresh(o, s, rc, cf)
    <3>1. s \in Seq(Steps) /\ s # <<>> /\ s[1] \notin {"write", "writeSettings"}
      BY <2>2
    <3>2. Fits(o, s)
      BY <2>2, <1>10
    <3>3. Ordered(s)
      BY <2>2
    <3>4. Ready(o, s, IF OnTopic(o) THEN <<o.topic>> ELSE <<>>, rc, cf)
      BY <2>2, <1>10
    <3>. QED
      BY <3>1, <3>2, <3>3, <3>4
  <2>. QED
    BY <2>1, <2>2
<1>11. CASE o.kind \in {"toggle", "unpause"}
  <2>1. Script(o) = <<"settings", "loadSettings", "writeSettings", "commit">>
    BY <1>11 DEF Script
  <2>2. ASSUME NEW s, s = <<"settings", "loadSettings", "writeSettings", "commit">> PROVE Fresh(o, s, rc, cf)
    <3>1. s \in Seq(Steps) /\ s # <<>> /\ s[1] \notin {"write", "writeSettings"}
      BY <2>2
    <3>2. Fits(o, s)
      BY <2>2, <1>11
    <3>3. Ordered(s)
      BY <2>2
    <3>4. Ready(o, s, IF OnTopic(o) THEN <<o.topic>> ELSE <<>>, rc, cf)
      BY <2>2, <1>11
    <3>. QED
      BY <3>1, <3>2, <3>3, <3>4
  <2>. QED
    BY <2>1, <2>2
<1>12. o.kind \in {"add", "enable", "disable", "remove", "custom", "manual", "record", "interval", "toggle", "unpause"}
  BY DEF Operations
<1>. QED
  BY <1>1, <1>2, <1>3, <1>4, <1>5, <1>6, <1>7, <1>8, <1>9, <1>10, <1>11, <1>12

LEMMA LoopFresh ==
  ASSUME NEW o, NEW tg, NEW rc, NEW cf, o.kind \in Savers, tg # <<>>,
         \A k \in 1 .. Len(tg) : rc[tg[k]] \in Row,
         NeedsSettings(o) => cf \in Settings,
         NEW s, s = <<"load", "write", "commit">>
  PROVE  /\ s \in Seq(Steps) /\ s # <<>> /\ s[1] \notin {"write", "writeSettings"}
         /\ Fits(o, s) /\ Ordered(s) /\ Ready(o, s, tg, rc, cf)
  BY DEF Fits, Ordered, Ready, Savers, Saving, Steps

LEMMA Advance ==
  ASSUME NEW o, NEW s \in Seq(Steps), s # <<>>, Fits(o, s), Ordered(s)
  PROVE  /\ Tail(s) \in Seq(Steps)
         /\ Fits(o, Tail(s)) /\ Ordered(Tail(s))
         /\ Tail(s) # <<>> => /\ Tail(s)[1] = "write" => s[1] = "load"
                              /\ Tail(s)[1] = "writeSettings" => s[1] = "loadSettings"
  BY DEF Fits, Ordered, Saving

LEMMA StillBefore ==
  ASSUME NEW s \in Seq(Steps), s # <<>>, NEW i \in 1 .. Len(Tail(s)), NEW j \in 1 .. i,
         s[j] = "settings", s[1] # "settings"
  PROVE  \E k \in 1 .. i - 1 : Tail(s)[k] = "settings"
<1>1. j - 1 \in 1 .. i - 1 /\ Tail(s)[j - 1] = "settings"
  OBVIOUS
<1>. QED
  BY <1>1

LEMMA AdvanceReady ==
  ASSUME NEW o, NEW s \in Seq(Steps), s # <<>>, NEW tg, NEW rc, NEW cf, NEW cfn,
         Fits(o, s), Ordered(s), Ready(o, s, tg, rc, cf),
         s[1] # "topic",
         (cfn = cf /\ s[1] # "settings") \/ cfn \in Settings
  PROVE  Ready(o, Tail(s), tg, rc, cfn)
<1>1. ASSUME NEW i \in 1 .. Len(Tail(s))
      PROVE  /\ Tail(s)[i] = s[i + 1] /\ i + 1 \in 1 .. Len(s) /\ Tail(s)[i] # "topic"
             /\ Tail(s)[i] \in Saving => tg # <<>> /\ \A k \in 1 .. Len(tg) : rc[tg[k]] \in Row
  BY <1>1 DEF Ordered, Ready, Saving
<1>2. ASSUME NEW i \in 1 .. Len(Tail(s)),
             Tail(s)[i] \in {"loadSettings", "insert"}
               \/ (Tail(s)[i] \in Saving /\ NeedsSettings(o))
      PROVE  cfn \in Settings \/ \E j \in 1 .. i - 1 : Tail(s)[j] = "settings"
  <2>1. cf \in Settings \/ \E j \in 1 .. i : s[j] = "settings"
    BY <1>1, <1>2 DEF Ready
  <2>. QED
    BY <2>1, StillBefore
<1>. QED
  BY <1>1, <1>2 DEF Ready
\* What is saved is a row, whatever was read.
LEMMA NewTopicRow ==
  ASSUME NEW o \in Operations, NEW r \in Row, NEW s, NEW at \in Nat,
         o.kind \in Savers, NeedsSettings(o) => s \in Settings
  PROVE  /\ NewTopic(o, r, s, at) \in Row
         /\ DueAt(NewTopic(o, r, s, at)) \in Instant
<1>. USE StoreAssumption DEF StoreAssumption, Row, Settings, Instant, NeedsSettings
<1>6. ASSUME s \in Settings, NEW c \in Nat \cup {None} PROVE EffectiveInterval(s.interval, c) \in Nat
  BY <1>6 DEF EffectiveInterval
<1>7. ASSUME NEW e \in Nat PROVE NextBumpAt(r.last, at, e) \in Nat
  BY <1>7 DEF NextBumpAt
<1>8. r.custom \in Nat \cup {None}
  OBVIOUS
<1>1. CASE o.kind = "enable"
  <2>. DEFINE e == EffectiveInterval(s.interval, r.custom)
              n == at + e
  <2>3. e \in Nat
    BY <1>1, <1>6, <1>8
  <2>1. n \in Nat
    BY <2>3
  <2>2. NewTopic(o, r, s, at) = [r EXCEPT !.enabled = TRUE, !.next = n]
    BY <1>1 DEF NewTopic
  <2>. QED
    BY <2>1, <2>2 DEF DueAt
<1>2. CASE o.kind = "disable"
  BY <1>2 DEF NewTopic, DueAt
<1>3. CASE o.kind = "custom"
  <2>1. NextBumpAt(r.last, at, EffectiveInterval(s.interval, o.seconds)) \in Nat
    BY <1>3, <1>6, <1>7, OperationFields
  <2>. QED
    BY <1>3, <2>1, OperationFields DEF NewTopic, DueAt
<1>4. CASE o.kind = "interval"
  BY <1>4, OperationFields DEF NewTopic, NextBumpAt, EffectiveInterval, DueAt
<1>5. CASE o.kind \in {"manual", "record"}
  <2>1. CASE o.outcome = "success"
    <3>. DEFINE e == EffectiveInterval(s.interval, r.custom)
                n == at + e
    <3>3. e \in Nat
      BY <1>5, <2>1, <1>6, <1>8
    <3>1. n \in Nat
      BY <3>3
    <3>2. NewTopic(o, r, s, at) = [r EXCEPT !.last = at, !.next = n]
      BY <1>5, <2>1 DEF NewTopic, UpdatedTopic
    <3>. QED
      BY <3>1, <3>2 DEF DueAt
  <2>2. CASE o.outcome # "success" /\ o.kind = "manual"
    BY <2>2 DEF NewTopic, DueAt
  <2>3. CASE o.outcome = "retry" /\ o.kind = "record"
    <3>1. RetryDelay(<<RetryWait>>, 0) = RetryWait
      BY DEF RetryDelay
    <3>. QED
      BY <2>3, <3>1 DEF NewTopic, UpdatedTopic, DueAt
  <2>4. CASE o.outcome \notin {"success", "retry"} /\ o.kind = "record"
    BY <2>4 DEF NewTopic, UpdatedTopic, DueAt
  <2>. QED
    BY <1>5, <2>1, <2>2, <2>3, <2>4
<1>. QED
  BY <1>1, <1>2, <1>3, <1>4, <1>5 DEF Savers
LEMMA DueRow ==
  ASSUME NEW n \in Row, DueAt(n) \in Instant
  PROVE LET m == [n EXCEPT !.due = DueAt(n)] IN m \in Row /\ m.due = DueAt(m)
  BY DEF Row, DueAt
LEMMA NewSettingsKept ==
  ASSUME NEW o \in Operations, NEW s \in Settings
  PROVE  /\ NewSettings(o, s) \in Settings
         /\ o.kind # "unpause" /\ s.paused => NewSettings(o, s).paused
  BY OperationFields DEF NewSettings, Settings

LEMMA CommitFresh ==
  ASSUME NEW o, NEW tg, NEW rc, NEW cf, NEW s, s = <<"commit">>
  PROVE  /\ s \in Seq(Steps) /\ s # <<>> /\ s[1] = "commit"
         /\ Fits(o, s) /\ Ordered(s) /\ Ready(o, s, tg, rc, cf)
  BY DEF Fits, Ordered, Ready, Saving, Steps

LEMMA IdleFresh ==
  ASSUME NEW o, NEW tg, NEW rc, NEW cf, NEW s, s = <<>>
  PROVE  s \in Seq(Steps) /\ Fits(o, s) /\ Ordered(s) /\ Ready(o, s, tg, rc, cf)
  BY DEF Fits, Ordered, Ready

\* After the topic was read, and after its UPDATE.
LEMMA AdvanceRead ==
  ASSUME NEW o, NEW s \in Seq(Steps), s # <<>>, NEW tg, NEW rc, NEW cf, NEW rcn,
         Fits(o, s), Ordered(s), Ready(o, s, tg, rc, cf),
         s[1] = "topic", rcn[o.topic] \in Row
  PROVE  Ready(o, Tail(s), tg, rcn, cf)
<1>1. tg = <<o.topic>>
  BY DEF Ready
<1>2. \A k \in 1 .. Len(tg) : rcn[tg[k]] \in Row
  BY <1>1
<1>3. ASSUME NEW i \in 1 .. Len(Tail(s))
      PROVE  /\ Tail(s)[i] = s[i + 1] /\ i + 1 \in 1 .. Len(s) /\ Tail(s)[i] # "topic"
             /\ Tail(s)[i] \in Saving => tg # <<>>
  BY <1>1, <1>3 DEF Ordered
<1>4. ASSUME NEW i \in 1 .. Len(Tail(s)),
             Tail(s)[i] \in {"loadSettings", "insert"}
               \/ (Tail(s)[i] \in Saving /\ NeedsSettings(o))
      PROVE  cf \in Settings \/ \E j \in 1 .. i - 1 : Tail(s)[j] = "settings"
  <2>1. cf \in Settings \/ \E j \in 1 .. i : s[j] = "settings"
    BY <1>3, <1>4 DEF Ready
  <2>. QED
    BY <2>1, StillBefore
<1>. QED
  BY <1>2, <1>3, <1>4 DEF Ready

LEMMA AdvanceWritten ==
  ASSUME NEW o, NEW s \in Seq(Steps), s # <<>>, NEW tg, NEW rc, NEW cf, NEW tgn,
         Fits(o, s), Ordered(s), Ready(o, s, tg, rc, cf), s[1] \in {"write", "list"}
  PROVE  Ready(o, Tail(s), tgn, rc, cf)
<1>1. ASSUME NEW i \in 1 .. Len(Tail(s))
      PROVE  /\ Tail(s)[i] = s[i + 1] /\ i + 1 \in 1 .. Len(s)
             /\ Tail(s)[i] # "topic" /\ Tail(s)[i] \notin Saving
  BY <1>1 DEF Ordered
<1>2. ASSUME NEW i \in 1 .. Len(Tail(s)), Tail(s)[i] \in {"loadSettings", "insert"}
      PROVE  cf \in Settings \/ \E j \in 1 .. i - 1 : Tail(s)[j] = "settings"
  <2>1. cf \in Settings \/ \E j \in 1 .. i : s[j] = "settings"
    BY <1>1, <1>2 DEF Ready
  <2>. QED
    BY <2>1, StillBefore
<1>. QED
  BY <1>1, <1>2 DEF Ready

\* At the first statement, nothing is left to be read.
LEMMA ReadyNow ==
  ASSUME NEW o, NEW s \in Seq(Steps), s # <<>>, NEW tg, NEW rc, NEW cf,
         Fits(o, s), Ordered(s), Ready(o, s, tg, rc, cf)
  PROVE  /\ s[1] \in {"topic", "attempt", "delete"} => OnTopic(o)
         /\ s[1] = "insert" => o.kind = "add"
         /\ s[1] = "delete" => o.kind = "remove"
         /\ s[1] \in {"forum", "notify"} => o.kind \in {"add", "manual"}
         /\ s[1] = "list" => o.kind = "interval"
         /\ s[1] \in Saving => /\ o.kind \in Savers
                               /\ tg # <<>>
                               /\ \A k \in 1 .. Len(tg) : rc[tg[k]] \in Row
                               /\ NeedsSettings(o) => cf \in Settings
         /\ s[1] \in {"loadSettings", "insert"} => cf \in Settings
  BY DEF Fits, Ready, Saving

-----------------------------------------------------------------------------
(* Sessions.                                                               *)

Typed ==
  /\ op \in [Sessions -> Operations \cup {None}]
  /\ script \in [Sessions -> Seq(Steps)]
  /\ target \in [Sessions -> Seq(Topics)]
  /\ rec \in [Sessions -> [Topics -> Row \cup {None}]]
  /\ cfg \in [Sessions -> Settings \cup {None}]
  /\ new \in [Sessions -> Row \cup Settings \cup {None}]

Sane(p) ==
  /\ script[p] # <<>> => op[p] # None
  /\ Fits(op[p], script[p])
  /\ Ordered(script[p])
  /\ Ready(op[p], script[p], target[p], rec[p], cfg[p])
  /\ At(p, "write") => new[p] \in Row /\ new[p].due = DueAt(new[p])
  /\ At(p, "writeSettings") => cfg[p] \in Settings /\ new[p] = NewSettings(op[p], cfg[p])

\* The rows and the locks on them.
Stored ==
  /\ clock \in Nat /\ ops \in Nat
  /\ row \in [Topics -> Row \cup {None}]
  /\ settings \in Settings
  /\ owner \in [Keys -> Sessions \cup {None}]
  /\ draft \in [Keys -> Row \cup Settings \cup {None}]
  /\ \A t \in Topics : draft[t] \in Row \cup {None}
  /\ draft[SettingsKey] \in Settings \cup {None}
  /\ owner[SettingsKey] # None => draft[SettingsKey] \in Settings
  /\ used \subseteq Topics
  /\ sharers \in [Topics -> SUBSET Sessions]
  /\ raced \subseteq Keys
  /\ \A k \in Keys : owner[k] = None => draft[k] = None

\* A row that will be there when its owner commits is there, or is added.
Owned ==
  \A p \in Sessions :
    /\ op[p] = None => \A k \in Keys : owner[k] # p
    /\ \A t \in Topics : owner[t] = p /\ draft[t] # None
         => row[t] # None \/ op[p].kind = "add"

\* So are the due times, unless the row was raced.
Scheduled ==
  \A t \in Topics \ raced :
    /\ row[t] # None => row[t].due = DueAt(row[t])
    /\ draft[t] # None => draft[t].due = DueAt(draft[t])

\* Who has written the settings has kept the pause.
PauseKept ==
  \A p \in Sessions :
    owner[SettingsKey] = p /\ op[p].kind # "unpause" /\ SettingsKey \notin raced
      => (settings.paused => draft[SettingsKey].paused)

SInv ==
  /\ Typed /\ Stored /\ Owned /\ Scheduled /\ PauseKept
  /\ \A p \in Sessions : Sane(p)

LEMMA KeyFacts ==
  /\ Topics \subseteq Keys /\ SettingsKey \in Keys /\ SettingsKey \notin Topics
  /\ None \notin Sessions /\ None \notin Nat /\ None \notin Operations
  BY StoreAssumption, NoneAssumption DEF StoreAssumption, Keys

LEMMA InitSInv == Init => SInv
<1>. SUFFICES ASSUME Init PROVE SInv
  OBVIOUS
<1>1. \A n \in Nat : NewRow(n) \in Row /\ NewRow(n).due = DueAt(NewRow(n))
  BY DEF NewRow, Row, Instant, DueAt
<1>2. PICK n \in Intervals :
        /\ row = [t \in Topics |-> IF t \in used THEN NewRow(n) ELSE None]
        /\ settings = [global |-> TRUE, interval |-> n, paused |-> FALSE]
  BY DEF Init
<1>3. n \in Nat
  BY StoreAssumption DEF StoreAssumption
<1>4. Typed
  BY DEF Init, Typed
<1>5. Stored
  BY <1>1, <1>2, <1>3, KeyFacts DEF Init, Stored, Settings
<1>6. Owned
  BY KeyFacts DEF Init, Owned
<1>7. Scheduled
  BY <1>1, <1>2, <1>3, KeyFacts DEF Init, Scheduled
<1>8. PauseKept
  BY KeyFacts DEF Init, PauseKept
<1>9. ASSUME NEW p \in Sessions PROVE Sane(p)
  BY IdleFresh DEF Init, Sane, At
<1>. QED
  BY <1>4, <1>5, <1>6, <1>7, <1>8, <1>9 DEF SInv

\* A session that does nothing stays as it is.
Same(p) ==
  /\ op'[p] = op[p] /\ script'[p] = script[p] /\ target'[p] = target[p]
  /\ rec'[p] = rec[p] /\ cfg'[p] = cfg[p] /\ new'[p] = new[p]

LEMMA SameSane ==
  ASSUME NEW p \in Sessions, Sane(p), Same(p)
  PROVE  Sane(p)'
  BY DEF Sane, Same, At

\* The session is over: nobody owns anything on its behalf.
LEMMA EndSane ==
  ASSUME Typed, NEW p \in Sessions, EndSession(p)
  PROVE  Typed' /\ Sane(p)' /\ (\A q \in Sessions \ {p} : Same(q)) /\ op'[p] = None
<1>1. Typed'
  BY DEF Typed, EndSession
<1>2. script'[p] = <<>>
  BY DEF Typed, EndSession
<1>3. Sane(p)'
  BY <1>2, IdleFresh DEF Sane, At
<1>. QED
  BY <1>1, <1>3 DEF Typed, EndSession, Same

LEMMA RollbackSane ==
  ASSUME SInv, NEW p \in Sessions, Rollback(p)
  PROVE  Typed' /\ \A q \in Sessions : Sane(q)'
  BY EndSane, SameSane DEF SInv, Rollback

\* What a session knows when it executes its first statement.
Now(p) ==
  /\ op[p] \in Operations /\ script[p] \in Seq(Steps) /\ script[p] # <<>>
  /\ OnTopic(op[p]) \/ op[p].kind = "add" => op[p].topic \in Topics
  /\ target[p] # <<>> => Head(target[p]) \in Topics /\ Head(target[p]) = target[p][1]

LEMMA NowKnown ==
  ASSUME SInv, NEW p \in Sessions, NEW step, At(p, step)
  PROVE  Now(p) /\ Head(script[p]) = script[p][1] /\ script[p][1] = step
<1>1. op[p] \in Operations /\ script[p] \in Seq(Steps) /\ script[p] # <<>>
  BY DEF SInv, Typed, Sane, At
<1>2. script[p][1] = step /\ Head(script[p]) = script[p][1]
  BY <1>1 DEF At
<1>3. target[p] \in Seq(Topics)
  BY DEF SInv, Typed
<1>. QED
  BY <1>1, <1>2, <1>3, OperationFields DEF Now

\* A statement that changes neither the operation nor what it has read.
LEMMA ContinueSane ==
  ASSUME SInv, NEW p \in Sessions, NEW step, At(p, step),
         step \notin {"topic", "settings", "load", "loadSettings"},
         Continue(p), UNCHANGED <<op, target, rec, cfg>>,
         new' = new \/ new' = [new EXCEPT ![p] = None]
  PROVE  Typed' /\ \A q \in Sessions : Sane(q)'
<1>1. Now(p) /\ script[p][1] = step
  BY NowKnown
<1>2. script'[p] = Tail(script[p]) /\ \A q \in Sessions \ {p} : script'[q] = script[q]
  BY DEF Continue, SInv, Typed
<1>3. Sane(p)
  BY DEF SInv
<1>4. /\ Tail(script[p]) \in Seq(Steps)
      /\ Fits(op[p], Tail(script[p])) /\ Ordered(Tail(script[p]))
      /\ Tail(script[p]) # <<>> => Tail(script[p])[1] \notin {"write", "writeSettings"}
  BY <1>1, <1>3, Advance DEF Now, Sane
<1>5. Ready(op[p], Tail(script[p]), target[p], rec[p], cfg[p])
  BY <1>1, <1>3, AdvanceReady DEF Now, Sane
<1>6. Typed'
  BY <1>2, <1>4 DEF SInv, Typed, Continue
<1>7. Sane(p)'
  BY <1>1, <1>2, <1>3, <1>4, <1>5 DEF Sane, At, Now
<1>8. ASSUME NEW q \in Sessions \ {p} PROVE Same(q)
  BY <1>2 DEF Same, SInv, Typed
<1>. QED
  BY <1>6, <1>7, <1>8, SameSane DEF SInv

LEMMA ReadTopicSane ==
  ASSUME SInv, NEW p \in Sessions, ReadTopic(p)
  PROVE  Typed' /\ \A q \in Sessions : Sane(q)'
<1>. DEFINE t == op[p].topic
<1>1. Now(p) /\ script[p][1] = "topic" /\ Sane(p) /\ t \in Topics
  BY NowKnown, ReadyNow DEF ReadTopic, SInv, Sane, Now
<1>2. CASE SeenRow(p, t) = None
  BY <1>2, RollbackSane DEF ReadTopic
<1>3. CASE SeenRow(p, t) # None
  <2>1. SeenRow(p, t) \in Row
    BY <1>1, <1>3 DEF SeenRow, SInv, Stored
  <2>2. /\ script' = [script EXCEPT ![p] = Tail(@)]
        /\ rec' = [rec EXCEPT ![p][t] = SeenRow(p, t)]
        /\ UNCHANGED <<op, target, cfg, new>>
    BY <1>3 DEF ReadTopic, Continue
  <2>3. script'[p] = Tail(script[p]) /\ rec'[p][t] \in Row
    BY <1>1, <2>1, <2>2 DEF SInv, Typed
  <2>4. /\ Tail(script[p]) \in Seq(Steps)
        /\ Fits(op[p], Tail(script[p])) /\ Ordered(Tail(script[p]))
        /\ Tail(script[p]) # <<>> => Tail(script[p])[1] \notin {"write", "writeSettings"}
    BY <1>1, Advance DEF Now, Sane
  <2>5. Ready(op[p], Tail(script[p]), target[p], rec'[p], cfg[p])
    BY <1>1, <2>3, AdvanceRead DEF Now, Sane
  <2>6. Typed'
    BY <1>1, <2>1, <2>2, <2>4 DEF SInv, Typed
  <2>7. Sane(p)'
    BY <1>1, <2>2, <2>3, <2>4, <2>5 DEF Sane, At, Now
  <2>8. ASSUME NEW q \in Sessions \ {p} PROVE Same(q)
    BY <2>2 DEF Same, SInv, Typed
  <2>. QED
    BY <2>6, <2>7, <2>8, SameSane DEF SInv
<1>. QED
  BY <1>2, <1>3

LEMMA ReadSettingsSane ==
  ASSUME SInv, NEW p \in Sessions, ReadSettings(p)
  PROVE  Typed' /\ \A q \in Sessions : Sane(q)'
<1>. DEFINE rest == IF op[p].kind = "unpause" /\ ~SeenSettings(p).paused
                      THEN <<"commit">> ELSE Tail(script[p])
<1>1. Now(p) /\ script[p][1] = "settings" /\ Sane(p)
  BY NowKnown DEF ReadSettings, SInv
<1>2. SeenSettings(p) \in Settings
  BY <1>1, KeyFacts DEF SeenSettings, SInv, Stored
<1>3. /\ script' = [script EXCEPT ![p] = rest]
      /\ cfg' = [cfg EXCEPT ![p] = SeenSettings(p)]
      /\ UNCHANGED <<op, target, rec, new>>
  BY DEF ReadSettings
<1>4. script'[p] = rest /\ cfg'[p] \in Settings
  BY <1>2, <1>3 DEF SInv, Typed
<1>5. /\ rest \in Seq(Steps) /\ Fits(op[p], rest) /\ Ordered(rest)
      /\ rest # <<>> => rest[1] \notin {"write", "writeSettings"}
      /\ Ready(op[p], rest, target[p], rec[p], cfg'[p])
  <2>1. CASE rest = <<"commit">>
    BY <2>1, CommitFresh
  <2>2. CASE rest = Tail(script[p])
    <3>1. /\ Tail(script[p]) \in Seq(Steps)
          /\ Fits(op[p], Tail(script[p])) /\ Ordered(Tail(script[p]))
          /\ Tail(script[p]) # <<>> => Tail(script[p])[1] \notin {"write", "writeSettings"}
      BY <1>1, Advance DEF Now, Sane
    <3>2. Ready(op[p], Tail(script[p]), target[p], rec[p], cfg'[p])
      <4>. HIDE DEF rest
      <4>. QED
        BY <1>1, <1>4, AdvanceReady DEF Now, Sane
    <3>. QED
      BY <2>2, <3>1, <3>2
  <2>. QED
    BY <2>1, <2>2
<1>6. Typed'
  BY <1>2, <1>3, <1>5 DEF SInv, Typed
<1>. HIDE DEF rest
<1>7. Sane(p)'
  BY <1>1, <1>3, <1>4, <1>5 DEF Sane, At, Now
<1>8. ASSUME NEW q \in Sessions \ {p} PROVE Same(q)
  BY <1>3 DEF Same, SInv, Typed
<1>. QED
  BY <1>6, <1>7, <1>8, SameSane DEF SInv

LEMMA LoadTopicSane ==
  ASSUME SInv, NEW p \in Sessions, LoadTopic(p)
  PROVE  Typed' /\ \A q \in Sessions : Sane(q)'
<1>. DEFINE t == Head(target[p])
            updated == NewTopic(op[p], rec[p][t], cfg[p], clock)
            saved == [updated EXCEPT !.due = DueAt(updated)]
<1>1. Now(p) /\ script[p][1] = "load" /\ Sane(p)
  BY NowKnown DEF LoadTopic, SInv
<1>2. CASE SeenRow(p, t) = None
  BY <1>2, RollbackSane DEF LoadTopic
<1>3. CASE SeenRow(p, t) # None
  <2>1. /\ op[p].kind \in Savers /\ rec[p][t] \in Row
        /\ NeedsSettings(op[p]) => cfg[p] \in Settings
    <3>1. /\ op[p].kind \in Savers /\ target[p] # <<>>
          /\ \A k \in 1 .. Len(target[p]) : rec[p][target[p][k]] \in Row
          /\ NeedsSettings(op[p]) => cfg[p] \in Settings
      BY <1>1, ReadyNow DEF Now, Sane, Saving
    <3>2. target[p] \in Seq(Topics)
      BY DEF SInv, Typed
    <3>3. 1 \in 1 .. Len(target[p])
      BY <3>1, <3>2
    <3>. QED
      BY <1>1, <3>1, <3>3 DEF Now
  <2>2. updated \in Row /\ DueAt(updated) \in Instant
    BY <1>1, <2>1, NewTopicRow DEF Now, SInv, Stored
  <2>3. saved \in Row /\ saved.due = DueAt(saved)
    <3>. HIDE DEF updated
    <3>. QED
      BY <2>2, DueRow
  <2>4. /\ script' = [script EXCEPT ![p] = Tail(@)]
        /\ new' = [new EXCEPT ![p] = saved]
        /\ UNCHANGED <<op, target, rec, cfg>>
    BY <1>3 DEF LoadTopic, Continue
  <2>. HIDE DEF saved
  <2>5. script'[p] = Tail(script[p]) /\ new'[p] = saved
    BY <2>4 DEF SInv, Typed
  <2>6. /\ Tail(script[p]) \in Seq(Steps)
        /\ Fits(op[p], Tail(script[p])) /\ Ordered(Tail(script[p]))
        /\ Tail(script[p]) # <<>> => Tail(script[p])[1] # "writeSettings"
    BY <1>1, Advance DEF Now, Sane
  <2>7. Ready(op[p], Tail(script[p]), target[p], rec[p], cfg[p])
    BY <1>1, AdvanceReady DEF Now, Sane
  <2>8. Typed'
    BY <2>3, <2>4, <2>6 DEF SInv, Typed
  <2>9. Sane(p)'
    BY <1>1, <2>3, <2>4, <2>5, <2>6, <2>7 DEF Sane, At, Now
  <2>10. ASSUME NEW q \in Sessions \ {p} PROVE Same(q)
    BY <2>4 DEF Same, SInv, Typed
  <2>. QED
    BY <2>8, <2>9, <2>10, SameSane DEF SInv
<1>. QED
  BY <1>2, <1>3

LEMMA LoadSettingsSane ==
  ASSUME SInv, NEW p \in Sessions, LoadSettings(p)
  PROVE  Typed' /\ \A q \in Sessions : Sane(q)'
<1>1. Now(p) /\ script[p][1] = "loadSettings" /\ Sane(p)
  BY NowKnown DEF LoadSettings, SInv
<1>2. cfg[p] \in Settings
  BY <1>1, ReadyNow DEF Now, Sane
<1>3. NewSettings(op[p], cfg[p]) \in Settings
  BY <1>1, <1>2, NewSettingsKept DEF Now
<1>4. /\ script' = [script EXCEPT ![p] = Tail(@)]
      /\ new' = [new EXCEPT ![p] = NewSettings(op[p], cfg[p])]
      /\ UNCHANGED <<op, target, rec, cfg>>
  BY DEF LoadSettings, Continue
<1>5. script'[p] = Tail(script[p]) /\ new'[p] = NewSettings(op[p], cfg[p])
  BY <1>4 DEF SInv, Typed
<1>6. /\ Tail(script[p]) \in Seq(Steps)
      /\ Fits(op[p], Tail(script[p])) /\ Ordered(Tail(script[p]))
      /\ Tail(script[p]) # <<>> => Tail(script[p])[1] # "write"
  BY <1>1, Advance DEF Now, Sane
<1>7. Ready(op[p], Tail(script[p]), target[p], rec[p], cfg[p])
  BY <1>1, AdvanceReady DEF Now, Sane
<1>8. Typed'
  BY <1>3, <1>4, <1>6 DEF SInv, Typed
<1>9. Sane(p)'
  BY <1>1, <1>2, <1>4, <1>5, <1>6, <1>7 DEF Sane, At, Now
<1>10. ASSUME NEW q \in Sessions \ {p} PROVE Same(q)
  BY <1>4 DEF Same, SInv, Typed
<1>. QED
  BY <1>8, <1>9, <1>10, SameSane DEF SInv

LEMMA LongerTail ==
  ASSUME NEW S, NEW s \in Seq(S), Len(s) > 1
  PROVE  Tail(s) # <<>>
<1>. DEFINE n == Len(s)
<1>1. s # <<>>
  OBVIOUS
<1>2. Len(Tail(s)) = n - 1 /\ Tail(s) \in Seq(S)
  BY <1>1
<1>3. n \in Nat /\ n > 1
  OBVIOUS
<1>4. Len(Tail(s)) # 0
  <2>. HIDE DEF n
  <2>. QED
    BY <1>2, <1>3
<1>5. \A q : q = <<>> => Len(q) = 0
  OBVIOUS
<1>. QED
  BY <1>4, <1>5, Zenon

LEMMA WriteTopicSane ==
  ASSUME SInv, NEW p \in Sessions, WriteTopic(p)
  PROVE  Typed' /\ \A q \in Sessions : Sane(q)'
<1>. DEFINE t == Head(target[p])
            rest == IF Len(target[p]) > 1 THEN <<"load", "write", "commit">>
                    ELSE Tail(script[p])
<1>1. Now(p) /\ script[p][1] = "write" /\ Sane(p)
  BY NowKnown DEF WriteTopic, SInv
<1>2. CASE SeenRow(p, t) = None
  BY <1>2, RollbackSane DEF WriteTopic
<1>3. CASE SeenRow(p, t) # None
  <2>1. /\ op[p].kind \in Savers /\ target[p] # <<>>
        /\ \A k \in 1 .. Len(target[p]) : rec[p][target[p][k]] \in Row
        /\ NeedsSettings(op[p]) => cfg[p] \in Settings
    BY <1>1, ReadyNow DEF Now, Sane, Saving
  <2>2. /\ target[p] \in Seq(Topics) /\ Tail(target[p]) \in Seq(Topics)
        /\ Len(target[p]) > 1 => Tail(target[p]) # <<>>
        /\ \A k \in 1 .. Len(Tail(target[p])) : rec[p][Tail(target[p])[k]] \in Row
    <3>1. target[p] \in Seq(Topics)
      BY DEF SInv, Typed
    <3>2. \A k \in 1 .. Len(Tail(target[p])) :
            k + 1 \in 1 .. Len(target[p]) /\ Tail(target[p])[k] = target[p][k + 1]
      BY <2>1, <3>1
    <3>3. Tail(target[p]) \in Seq(Topics) /\ Len(Tail(target[p])) = Len(target[p]) - 1
      BY <2>1, <3>1
    <3>4. Len(target[p]) > 1 => Tail(target[p]) # <<>>
      BY <3>1, LongerTail
    <3>5. \A k \in 1 .. Len(Tail(target[p])) : rec[p][Tail(target[p])[k]] \in Row
      BY <2>1, <3>2
    <3>. QED
      BY <3>1, <3>3, <3>4, <3>5
  <2>3. /\ script' = [script EXCEPT ![p] = rest]
        /\ target' = [target EXCEPT ![p] = Tail(@)]
        /\ new' = [new EXCEPT ![p] = None]
        /\ UNCHANGED <<op, rec, cfg>>
    BY <1>3 DEF WriteTopic
  <2>4. script'[p] = rest /\ target'[p] = Tail(target[p])
    BY <2>3 DEF SInv, Typed
  <2>5. /\ rest \in Seq(Steps) /\ Fits(op[p], rest) /\ Ordered(rest)
        /\ rest # <<>> => rest[1] \notin {"write", "writeSettings"}
        /\ Ready(op[p], rest, Tail(target[p]), rec[p], cfg[p])
    <3>1. CASE Len(target[p]) > 1
      BY <3>1, <2>1, <2>2, LoopFresh
    <3>2. CASE ~(Len(target[p]) > 1)
      <4>1. /\ Tail(script[p]) \in Seq(Steps)
            /\ Fits(op[p], Tail(script[p])) /\ Ordered(Tail(script[p]))
            /\ Tail(script[p]) # <<>> => Tail(script[p])[1] \notin {"write", "writeSettings"}
        BY <1>1, Advance DEF Now, Sane
      <4>2. Ready(op[p], Tail(script[p]), Tail(target[p]), rec[p], cfg[p])
        BY <1>1, AdvanceWritten DEF Now, Sane
      <4>. QED
        BY <3>2, <4>1, <4>2
    <3>. QED
      BY <3>1, <3>2
  <2>6. Typed'
    BY <2>2, <2>3, <2>5 DEF SInv, Typed
  <2>. HIDE DEF rest
  <2>7. Sane(p)'
    BY <1>1, <2>3, <2>4, <2>5 DEF Sane, At, Now
  <2>8. ASSUME NEW q \in Sessions \ {p} PROVE Same(q)
    BY <2>3 DEF Same, SInv, Typed
  <2>. QED
    BY <2>6, <2>7, <2>8, SameSane DEF SInv
<1>. QED
  BY <1>2, <1>3

LEMMA OrdersAreSequences ==
  ASSUME NEW S \in SUBSET Topics, NEW order \in SetToSeqs(S)
  PROVE  /\ order \in Seq(Topics) /\ (S # {} => order # <<>>)
         /\ \A k \in 1 .. Len(order) : order[k] \in S
<1>1. IsFiniteSet(S)
  BY StoreAssumption, FS_Subset DEF StoreAssumption
<1>2. Cardinality(S) \in Nat /\ (Cardinality(S) = 0 <=> S = {})
  BY <1>1, FS_CardinalityType, FS_EmptySet
<1>3. order \in [1 .. Cardinality(S) -> S]
  BY DEF SetToSeqs
<1>4. order \in Seq(Topics) /\ Len(order) = Cardinality(S)
  BY <1>2, <1>3
<1>. QED
  BY <1>2, <1>3, <1>4

LEMMA ListTopicsSane ==
  ASSUME SInv, NEW p \in Sessions, ListTopics(p)
  PROVE  Typed' /\ \A q \in Sessions : Sane(q)'
<1>. DEFINE listed == {t \in Topics : SeenRow(p, t) # None}
            chosen == {t \in listed : SeenRow(p, t).custom = None}
            read == [t \in Topics |-> IF t \in listed THEN SeenRow(p, t) ELSE None]
            rest == IF chosen = {} THEN Tail(script[p]) ELSE <<"load", "write", "commit">>
<1>1. Now(p) /\ script[p][1] = "list" /\ Sane(p)
  BY NowKnown DEF ListTopics, SInv
<1>2. op[p].kind = "interval"
  BY <1>1, ReadyNow DEF Now, Sane
<1>3. PICK order \in SetToSeqs(chosen) : target' = [target EXCEPT ![p] = order]
  BY DEF ListTopics
<1>4. /\ script' = [script EXCEPT ![p] = rest]
      /\ rec' = [rec EXCEPT ![p] = read]
      /\ UNCHANGED <<op, cfg, new>>
  BY DEF ListTopics
<1>5. \A t \in Topics : SeenRow(p, t) \in Row \cup {None}
  BY KeyFacts DEF SeenRow, SInv, Stored
<1>6. read \in [Topics -> Row \cup {None}] /\ \A t \in chosen : read[t] \in Row
  BY <1>5
<1>7. /\ order \in Seq(Topics) /\ (chosen # {} => order # <<>>)
      /\ \A k \in 1 .. Len(order) : order[k] \in chosen
  <2>. HIDE DEF chosen
  <2>1. chosen \in SUBSET Topics
    BY DEF chosen
  <2>. QED
    BY <2>1, OrdersAreSequences
<1>. HIDE DEF listed, chosen, read
<1>8. \A k \in 1 .. Len(order) : read[order[k]] \in Row
  BY <1>6, <1>7
<1>9. script'[p] = rest /\ rec'[p] = read /\ target'[p] = order
  BY <1>3, <1>4 DEF SInv, Typed
<1>10. /\ rest \in Seq(Steps) /\ Fits(op[p], rest) /\ Ordered(rest)
       /\ rest # <<>> => rest[1] \notin {"write", "writeSettings"}
       /\ Ready(op[p], rest, order, read, cfg[p])
  <2>1. CASE chosen # {}
    <3>1. op[p].kind \in Savers /\ ~NeedsSettings(op[p])
      BY <1>2 DEF Savers, NeedsSettings
    <3>. QED
      BY <2>1, <3>1, <1>7, <1>8, LoopFresh
  <2>2. CASE chosen = {}
    <3>1. /\ Tail(script[p]) \in Seq(Steps)
          /\ Fits(op[p], Tail(script[p])) /\ Ordered(Tail(script[p]))
          /\ Tail(script[p]) # <<>> => Tail(script[p])[1] \notin {"write", "writeSettings"}
      BY <1>1, Advance DEF Now, Sane
    <3>2. \A i \in 1 .. Len(script[p]) : script[p][i] \in Saving => FALSE
      BY <1>1 DEF Sane, Ordered, Saving, Now
    <3>3. Ready(op[p], Tail(script[p]), order, rec[p], cfg[p])
      BY <1>1, AdvanceWritten DEF Now, Sane
    <3>4. Ready(op[p], Tail(script[p]), order, read, cfg[p])
      BY <1>1, <3>2, <3>3 DEF Ready, Now
    <3>. QED
      BY <2>2, <3>1, <3>4
  <2>. QED
    BY <2>1, <2>2
<1>11. Typed'
  BY <1>3, <1>4, <1>6, <1>7, <1>10 DEF SInv, Typed
<1>. HIDE DEF rest
<1>12. Sane(p)'
  BY <1>1, <1>4, <1>9, <1>10 DEF Sane, At, Now
<1>13. ASSUME NEW q \in Sessions \ {p} PROVE Same(q)
  BY <1>3, <1>4 DEF Same, SInv, Typed
<1>. QED
  BY <1>11, <1>12, <1>13, SameSane DEF SInv

LEMMA StartSane ==
  ASSUME SInv, NEW p \in Sessions, Start(p)
  PROVE  Typed' /\ \A q \in Sessions : Sane(q)'
<1>1. PICK o \in Operations :
        /\ op' = [op EXCEPT ![p] = o]
        /\ script' = [script EXCEPT ![p] = Script(o)]
        /\ target' = [target EXCEPT ![p] = IF OnTopic(o) THEN <<o.topic>> ELSE <<>>]
        /\ UNCHANGED <<rec, cfg, new>>
  BY DEF Start
<1>2. Fresh(o, Script(o), rec[p], cfg[p])
  BY ScriptFresh
<1>3. Script(o) \in Seq(Steps) /\ (IF OnTopic(o) THEN <<o.topic>> ELSE <<>>) \in Seq(Topics)
  BY <1>2, OperationFields DEF Fresh
<1>4. Typed'
  BY <1>1, <1>3 DEF SInv, Typed
<1>5. /\ op'[p] = o /\ script'[p] = Script(o)
      /\ target'[p] = IF OnTopic(o) THEN <<o.topic>> ELSE <<>>
  BY <1>1 DEF SInv, Typed
<1>6. Sane(p)'
  BY <1>1, <1>2, <1>5, KeyFacts DEF Sane, At, Fresh
<1>7. ASSUME NEW q \in Sessions \ {p} PROVE Same(q)
  BY <1>1 DEF Same, SInv, Typed
<1>. QED
  BY <1>4, <1>6, <1>7, SameSane DEF SInv

\* Every step leaves sessions with what their next statements need.
LEMMA SaneNext ==
  ASSUME SInv, [Next]_vars
  PROVE  Typed' /\ \A q \in Sessions : Sane(q)'
<1>1. ASSUME UNCHANGED <<op, script, target, rec, cfg, new>>
      PROVE  Typed' /\ \A q \in Sessions : Sane(q)'
  <2>1. Typed'
    BY <1>1 DEF SInv, Typed
  <2>. QED
    BY <1>1, <2>1, SameSane DEF SInv, Same
<1>2. ASSUME NEW p \in Sessions,
             CommitAndWait(p) \/ InsertTopic(p) \/ DeleteTopic(p) \/ WriteSettings(p)
      PROVE  Typed' /\ \A q \in Sessions : Sane(q)'
  <2>1. CASE CommitAndWait(p)
    BY <2>1, ContinueSane DEF CommitAndWait
  <2>2. CASE InsertTopic(p)
    BY <2>2, ContinueSane DEF InsertTopic
  <2>3. CASE DeleteTopic(p)
    BY <2>3, ContinueSane DEF DeleteTopic
  <2>4. CASE WriteSettings(p)
    BY <2>4, ContinueSane DEF WriteSettings
  <2>. QED
    BY <1>2, <2>1, <2>2, <2>3, <2>4
<1>3. ASSUME NEW p \in Sessions, AddAttempt(p)
      PROVE  Typed' /\ \A q \in Sessions : Sane(q)'
  <2>1. CASE row[op[p].topic] = None
    BY <1>3, <2>1, RollbackSane DEF AddAttempt
  <2>2. CASE row[op[p].topic] # None
    BY <1>3, <2>2, ContinueSane DEF AddAttempt
  <2>. QED
    BY <2>1, <2>2
<1>4. ASSUME NEW p \in Sessions, Commit(p)
      PROVE  Typed' /\ \A q \in Sessions : Sane(q)'
  BY <1>4, EndSane, SameSane DEF Commit, SInv
<1>5. ASSUME NEW p \in Sessions, Fail(p) \/ DeadlockAbort(p)
      PROVE  Typed' /\ \A q \in Sessions : Sane(q)'
  BY <1>5, RollbackSane DEF Fail, DeadlockAbort
<1>6. CASE UNCHANGED vars \/ Tick
  BY <1>6, <1>1 DEF vars, sessionVars, Tick
<1>7. CASE \E p \in Sessions : Start(p) \/ SessionStep(p) \/ Fail(p)
  BY <1>7, <1>2, <1>3, <1>4, <1>5, ReadTopicSane, ReadSettingsSane, LoadTopicSane,
     LoadSettingsSane, WriteTopicSane, ListTopicsSane, StartSane DEF SessionStep
<1>. QED
  BY <1>6, <1>7 DEF Next

-----------------------------------------------------------------------------
(* Rows and settings.                                                      *)

Rows == Stored /\ Owned /\ Scheduled /\ PauseKept

LEMMA QuietRows ==
  ASSUME SInv, UNCHANGED <<row, settings, owner, draft, sharers, used, raced, op, ops>>,
         clock' \in Nat
  PROVE  Rows'
<1>1. Stored'
  BY DEF SInv, Stored
<1>2. Owned'
  BY DEF SInv, Owned
<1>3. Scheduled'
  BY DEF SInv, Scheduled
<1>4. PauseKept'
  BY DEF SInv, PauseKept
<1>. QED
  BY <1>1, <1>2, <1>3, <1>4 DEF Rows

LEMMA StartRows ==
  ASSUME SInv, NEW p \in Sessions, Start(p)
  PROVE  Rows'
<1>1. PICK o \in Operations :
        /\ op' = [op EXCEPT ![p] = o]
        /\ used' = IF o.kind = "add" THEN used \cup {o.topic} ELSE used
  BY DEF Start
<1>2. /\ op[p] = None /\ ops' = ops + 1
      /\ UNCHANGED <<clock, row, settings, owner, draft, sharers, raced>>
  BY DEF Start
<1>3. \A k \in Keys : owner[k] # p
  BY <1>2 DEF SInv, Owned
<1>4. \A q \in Sessions : op'[q] = IF q = p THEN o ELSE op[q]
  BY <1>1 DEF SInv, Typed
<1>5. used' \subseteq Topics
  BY <1>1, OperationFields DEF SInv, Stored
<1>6. Stored'
  BY <1>2, <1>5 DEF SInv, Stored
<1>7. Owned'
  BY <1>2, <1>3, <1>4, KeyFacts DEF SInv, Owned
<1>8. Scheduled'
  BY <1>2 DEF SInv, Scheduled
<1>9. PauseKept'
  BY <1>2, <1>3, <1>4, KeyFacts DEF SInv, PauseKept
<1>. QED
  BY <1>6, <1>7, <1>8, <1>9 DEF Rows

LEMMA RollbackRows ==
  ASSUME SInv, NEW p \in Sessions, Rollback(p)
  PROVE  Rows'
<1>1. /\ UNCHANGED <<clock, row, settings, used, raced, ops>>
      /\ owner' = [k \in Keys |-> IF owner[k] = p THEN None ELSE owner[k]]
      /\ draft' = [k \in Keys |-> IF owner[k] = p THEN None ELSE draft[k]]
      /\ sharers' = [t \in Topics |-> sharers[t] \ {p}]
      /\ \A q \in Sessions : op'[q] = IF q = p THEN None ELSE op[q]
  BY DEF Rollback, ReleaseLocks, EndSession, SInv, Typed
<1>2. Stored'
  BY <1>1, KeyFacts DEF SInv, Stored
<1>3. Owned'
  BY <1>1, KeyFacts DEF SInv, Owned
<1>4. Scheduled'
  BY <1>1, KeyFacts DEF SInv, Scheduled
<1>5. PauseKept'
  BY <1>1, KeyFacts DEF SInv, PauseKept
<1>. QED
  BY <1>2, <1>3, <1>4, <1>5 DEF Rows

LEMMA PublishRows ==
  ASSUME SInv, NEW p \in Sessions, Publish(p), UNCHANGED <<clock, used, raced, ops>>,
         \/ op' = op
         \/ \A q \in Sessions : op'[q] = IF q = p THEN None ELSE op[q]
  PROVE  Rows'
<1>1. /\ row' = [t \in Topics |-> IF owner[t] = p THEN draft[t] ELSE row[t]]
      /\ settings' = IF owner[SettingsKey] = p THEN draft[SettingsKey] ELSE settings
      /\ owner' = [k \in Keys |-> IF owner[k] = p THEN None ELSE owner[k]]
      /\ draft' = [k \in Keys |-> IF owner[k] = p THEN None ELSE draft[k]]
      /\ sharers' = [t \in Topics |-> sharers[t] \ {p}]
  BY DEF Publish, ReleaseLocks, SeenRow, SeenSettings
<1>2. Stored'
  BY <1>1, KeyFacts DEF SInv, Stored
<1>3. Owned'
  BY <1>1, KeyFacts DEF SInv, Owned
<1>4. Scheduled'
  BY <1>1, KeyFacts DEF SInv, Scheduled
<1>5. PauseKept'
  BY <1>1, KeyFacts DEF SInv, PauseKept
<1>. QED
  BY <1>2, <1>3, <1>4, <1>5 DEF Rows

LEMMA InsertRows ==
  ASSUME SInv, NEW p \in Sessions, InsertTopic(p)
  PROVE  Rows'
<1>. DEFINE t == op[p].topic
            row0 == NewRow(clock + EffectiveInterval(cfg[p].interval, None))
<1>1. Now(p) /\ op[p].kind = "add" /\ t \in Topics /\ cfg[p] \in Settings
  BY NowKnown, ReadyNow DEF InsertTopic, SInv, Sane, Now
<1>2. row0 \in Row /\ row0.due = DueAt(row0)
  <2>1. cfg[p].interval \in Nat
    BY <1>1 DEF Settings
  <2>2. clock + cfg[p].interval \in Nat
    BY <2>1 DEF SInv, Stored
  <2>. QED
    BY <2>2 DEF EffectiveInterval, NewRow, Row, Instant, DueAt
<1>3. /\ owner' = [owner EXCEPT ![t] = p] /\ draft' = [draft EXCEPT ![t] = row0]
      /\ UNCHANGED <<clock, row, settings, sharers, used, op, raced, ops>>
  BY DEF InsertTopic
<1>. HIDE DEF row0
<1>4. Stored'
  BY <1>1, <1>2, <1>3, KeyFacts DEF SInv, Stored
<1>5. Owned'
  BY <1>1, <1>3, KeyFacts DEF SInv, Owned, Stored, Now
<1>6. Scheduled'
  BY <1>1, <1>2, <1>3, KeyFacts DEF SInv, Scheduled, Stored
<1>7. PauseKept'
  BY <1>1, <1>3, KeyFacts DEF SInv, PauseKept, Stored
<1>. QED
  BY <1>4, <1>5, <1>6, <1>7 DEF Rows

LEMMA AttemptRows ==
  ASSUME SInv, NEW p \in Sessions, AddAttempt(p)
  PROVE  Rows'
<1>1. CASE row[op[p].topic] = None
  BY <1>1, RollbackRows DEF AddAttempt
<1>2. CASE row[op[p].topic] # None
  <2>1. /\ sharers' = [sharers EXCEPT ![op[p].topic] = @ \cup {p}]
        /\ UNCHANGED <<clock, row, settings, owner, draft, used, op, raced, ops>>
    BY <1>2 DEF AddAttempt
  <2>2. Stored'
    BY <2>1 DEF SInv, Stored
  <2>3. Owned'
    BY <2>1 DEF SInv, Owned
  <2>4. Scheduled'
    BY <2>1 DEF SInv, Scheduled
  <2>5. PauseKept'
    BY <2>1 DEF SInv, PauseKept
  <2>. QED
    BY <2>2, <2>3, <2>4, <2>5 DEF Rows
<1>. QED
  BY <1>1, <1>2

LEMMA DeleteRows ==
  ASSUME SInv, NEW p \in Sessions, DeleteTopic(p)
  PROVE  Rows'
<1>. DEFINE t == op[p].topic
<1>1. Now(p) /\ t \in Topics
  BY NowKnown, ReadyNow DEF DeleteTopic, SInv, Sane, Now
<1>2. UNCHANGED <<clock, row, settings, sharers, used, op, raced, ops>>
  BY DEF DeleteTopic
<1>3. CASE row[t] = None
  BY <1>2, <1>3, QuietRows DEF DeleteTopic, SInv, Stored
<1>4. CASE row[t] # None
  <2>1. owner' = [owner EXCEPT ![t] = p] /\ draft' = [draft EXCEPT ![t] = None]
    BY <1>4 DEF DeleteTopic
  <2>2. Stored'
    BY <1>1, <1>2, <2>1, KeyFacts DEF SInv, Stored
  <2>3. Owned'
    BY <1>1, <1>2, <2>1, KeyFacts DEF SInv, Owned, Stored, Now
  <2>4. Scheduled'
    BY <1>1, <1>2, <2>1, KeyFacts DEF SInv, Scheduled, Stored
  <2>5. PauseKept'
    BY <1>1, <1>2, <2>1, KeyFacts DEF SInv, PauseKept, Stored
  <2>. QED
    BY <2>2, <2>3, <2>4, <2>5 DEF Rows
<1>. QED
  BY <1>3, <1>4

\* An unraced UPDATE makes the row what the save computed.
LEMMA WriteTopicRows ==
  ASSUME SInv, NEW p \in Sessions, WriteTopic(p)
  PROVE  Rows'
<1>. DEFINE t == Head(target[p])
            saved == Applied(SeenRow(p, t), base[p], new[p])
<1>1. Now(p) /\ script[p][1] = "write" /\ Sane(p)
  BY NowKnown DEF WriteTopic, SInv
<1>2. t \in Topics
  BY <1>1, ReadyNow DEF Now, Sane, Saving
<1>3. new[p] \in Row /\ new[p].due = DueAt(new[p])
  BY <1>1 DEF Sane, WriteTopic
<1>4. CASE SeenRow(p, t) = None
  BY <1>4, RollbackRows DEF WriteTopic
<1>5. CASE SeenRow(p, t) # None
  <2>1. SeenRow(p, t) \in Row
    BY <1>2, <1>5 DEF SeenRow, SInv, Stored
  <2>2. saved \in Row
    BY <1>3, <2>1, AppliedRow
  <2>3. SeenRow(p, t) = base[p] => saved = new[p]
    BY <1>3, <2>1, AppliedUnraced
  <2>4. /\ owner[t] \in {None, p}
        /\ raced' = IF SeenRow(p, t) # base[p] THEN raced \cup {t} ELSE raced
        /\ \/ UNCHANGED <<owner, draft>>
           \/ owner' = [owner EXCEPT ![t] = p] /\ draft' = [draft EXCEPT ![t] = saved]
        /\ UNCHANGED <<clock, row, settings, sharers, used, op, ops>>
    BY <1>5 DEF WriteTopic
  <2>5. row[t] # None \/ op[p].kind = "add"
    BY <1>2, <1>5, KeyFacts DEF SeenRow, SInv, Owned
  <2>. HIDE DEF t, saved
  <2>6. Stored'
    BY <1>2, <2>2, <2>4, KeyFacts DEF SInv, Stored
  <2>7. Owned'
    BY <1>1, <1>2, <2>4, <2>5, KeyFacts DEF SInv, Owned, Stored, Now
  <2>8. Scheduled'
    <3>1. ASSUME NEW u \in Topics, u \notin raced', draft'[u] # None
          PROVE  draft'[u].due = DueAt(draft'[u])
      <4>1. CASE draft'[u] = draft[u]
        BY <3>1, <4>1, <2>4 DEF SInv, Scheduled
      <4>2. CASE u = t /\ draft'[u] = saved
        <5>1. SeenRow(p, t) = base[p]
          BY <3>1, <4>2, <2>4
        <5>. QED
          BY <4>2, <5>1, <2>3, <1>3
      <4>. QED
        BY <4>1, <4>2, <1>2, <2>4, KeyFacts DEF SInv, Stored
    <3>. QED
      BY <3>1, <2>4 DEF SInv, Scheduled
  <2>9. PauseKept'
    BY <1>2, <2>4, KeyFacts DEF SInv, PauseKept, Stored
  <2>. QED
    BY <2>6, <2>7, <2>8, <2>9 DEF Rows
<1>. QED
  BY <1>4, <1>5

\* A save of settings that are as they were read keeps their pause.
LEMMA WriteSettingsRows ==
  ASSUME SInv, NEW p \in Sessions, WriteSettings(p)
  PROVE  Rows'
<1>. DEFINE written == WrittenSettings(base[p], new[p])
            saved == [c \in DOMAIN settings |->
                        IF c \in written THEN new[p][c] ELSE SeenSettings(p)[c]]
<1>1. Now(p) /\ Sane(p) /\ At(p, "writeSettings")
  BY NowKnown DEF WriteSettings, SInv
<1>2. /\ cfg[p] \in Settings /\ new[p] \in Settings
      /\ op[p].kind # "unpause" /\ cfg[p].paused => new[p].paused
  BY <1>1, NewSettingsKept DEF Sane, Now
<1>3. SeenSettings(p) \in Settings
  BY KeyFacts DEF SeenSettings, SInv, Stored
<1>4. saved \in Settings
  BY <1>2, <1>3 DEF SInv, Stored, Settings
<1>5. SeenSettings(p) = cfg[p] /\ op[p].kind # "unpause" /\ SeenSettings(p).paused
        => saved.paused
  BY <1>2, <1>3 DEF SInv, Stored, Settings
<1>6. /\ owner[SettingsKey] \in {None, p}
      /\ raced' = IF SeenSettings(p) # cfg[p] THEN raced \cup {SettingsKey} ELSE raced
      /\ \/ UNCHANGED <<owner, draft>>
         \/ /\ owner' = [owner EXCEPT ![SettingsKey] = p]
            /\ draft' = [draft EXCEPT ![SettingsKey] = saved]
      /\ UNCHANGED <<clock, row, settings, sharers, used, op, ops>>
  BY DEF WriteSettings
<1>. HIDE DEF saved
<1>7. Stored'
  BY <1>4, <1>6, KeyFacts DEF SInv, Stored
<1>8. Owned'
  BY <1>1, <1>6, KeyFacts DEF SInv, Owned, Stored, Now
<1>9. Scheduled'
  BY <1>6, KeyFacts DEF SInv, Scheduled, Stored
<1>10. PauseKept'
  <2>1. CASE UNCHANGED <<owner, draft>>
    BY <1>6, <2>1 DEF SInv, PauseKept
  <2>2. ASSUME owner'[SettingsKey] = p, draft'[SettingsKey] = saved
        PROVE  PauseKept'
    <3>1. SUFFICES ASSUME op[p].kind # "unpause", SettingsKey \notin raced', settings.paused
                   PROVE  saved.paused
      BY <1>6, <2>2 DEF PauseKept
    <3>2. SeenSettings(p) = cfg[p] /\ SettingsKey \notin raced
      BY <1>6, <3>1
    <3>3. SeenSettings(p).paused
      BY <1>6, <3>1, <3>2 DEF SeenSettings, SInv, PauseKept
    <3>. QED
      BY <1>5, <3>1, <3>2, <3>3
  <2>. QED
    BY <1>6, <2>1, <2>2, KeyFacts DEF SInv, Stored
<1>. QED
  BY <1>7, <1>8, <1>9, <1>10 DEF Rows

LEMMA RowsNext ==
  ASSUME SInv, [Next]_vars
  PROVE  Rows'
<1>1. CASE UNCHANGED vars
  BY <1>1, QuietRows DEF vars, storeVars, sessionVars, SInv, Stored
<1>2. CASE Tick
  <2>1. clock' \in Nat
    BY <1>2 DEF Tick, SInv, Stored
  <2>. QED
    BY <1>2, <2>1, QuietRows DEF Tick, storeVars, sessionVars
<1>3. ASSUME NEW p \in Sessions,
             ReadSettings(p) \/ ListTopics(p) \/ LoadSettings(p)
      PROVE  Rows'
  BY <1>3, QuietRows
     DEF ReadSettings, ListTopics, LoadSettings, storeVars, SInv, Stored
<1>4. ASSUME NEW p \in Sessions, ReadTopic(p) PROVE Rows'
  BY <1>4, QuietRows, RollbackRows DEF ReadTopic, storeVars, SInv, Stored
<1>5. ASSUME NEW p \in Sessions, LoadTopic(p) PROVE Rows'
  BY <1>5, QuietRows, RollbackRows DEF LoadTopic, storeVars, SInv, Stored
<1>6. ASSUME NEW p \in Sessions, CommitAndWait(p) PROVE Rows'
  BY <1>6, PublishRows DEF CommitAndWait
<1>7. ASSUME NEW p \in Sessions, Commit(p) PROVE Rows'
  <2>1. \A q \in Sessions : op'[q] = IF q = p THEN None ELSE op[q]
    BY <1>7 DEF Commit, EndSession, SInv, Typed
  <2>. QED
    BY <1>7, <2>1, PublishRows DEF Commit
<1>8. ASSUME NEW p \in Sessions, Fail(p) \/ DeadlockAbort(p) PROVE Rows'
  BY <1>8, RollbackRows DEF Fail, DeadlockAbort
<1>9. CASE \E p \in Sessions : Start(p) \/ SessionStep(p) \/ Fail(p)
  BY <1>9, <1>3, <1>4, <1>5, <1>6, <1>7, <1>8, StartRows, InsertRows, AttemptRows,
     DeleteRows, WriteTopicRows, WriteSettingsRows DEF SessionStep
<1>. QED
  BY <1>1, <1>2, <1>9 DEF Next

LEMMA SInvNext == SInv /\ [Next]_vars => SInv'
<1>. SUFFICES ASSUME SInv, [Next]_vars PROVE SInv'
  OBVIOUS
<1>1. Rows'
  BY RowsNext
<1>2. Typed' /\ \A q \in Sessions : Sane(q)'
  BY SaneNext
<1>. QED
  BY <1>1, <1>2 DEF SInv, Rows

LEMMA SInvAlways == Spec => []SInv
  BY InitSInv, SInvNext, PTL DEF Spec

-----------------------------------------------------------------------------
(* The theorems.                                                           *)

\* Sessions, rows and locks keep their types; rows written and not committed
\* have an owner, and who has ended owns nothing.
THEOREM TypeCorrect == Spec => []TypeOK
<1>1. SInv => TypeOK
  BY DEF SInv, Typed, Stored, Owned, TypeOK
<1>. QED
  BY <1>1, SInvAlways, PTL

\* schedule_due_at follows the schedule of every topic no save of which was
\* overtaken by another commit between its SELECT and its UPDATE.
THEOREM UnracedScheduleMatchesAlways == Spec => []UnracedScheduleMatches
<1>1. SInv => UnracedScheduleMatches
  BY DEF SInv, Scheduled, UnracedScheduleMatches
<1>. QED
  BY <1>1, SInvAlways, PTL

\* Rows and settings change when a transaction commits, and only then.
LEMMA CommitsOnly ==
  ASSUME [Next]_vars
  PROVE  \/ UNCHANGED <<row, settings>>
         \/ \E p \in Sessions : Publish(p)
<1>1. ASSUME NEW p \in Sessions, Rollback(p) PROVE UNCHANGED <<row, settings>>
  BY <1>1 DEF Rollback
<1>2. ASSUME NEW p \in Sessions,
             ReadTopic(p) \/ AddAttempt(p) \/ LoadTopic(p) \/ WriteTopic(p)
      PROVE  UNCHANGED <<row, settings>>
  BY <1>1, <1>2 DEF ReadTopic, AddAttempt, LoadTopic, WriteTopic, storeVars
<1>3. ASSUME NEW p \in Sessions,
             \/ Start(p) \/ ReadSettings(p) \/ InsertTopic(p) \/ ListTopics(p)
             \/ LoadSettings(p) \/ WriteSettings(p) \/ DeleteTopic(p)
      PROVE  UNCHANGED <<row, settings>>
  BY <1>3 DEF Start, ReadSettings, InsertTopic, ListTopics, LoadSettings, WriteSettings,
     DeleteTopic, storeVars
<1>4. ASSUME NEW p \in Sessions, Fail(p) \/ DeadlockAbort(p)
      PROVE  UNCHANGED <<row, settings>>
  BY <1>1, <1>4 DEF Fail, DeadlockAbort
<1>5. ASSUME NEW p \in Sessions, CommitAndWait(p) \/ Commit(p) PROVE Publish(p)
  BY <1>5 DEF CommitAndWait, Commit
<1>6. CASE Tick \/ UNCHANGED vars
  BY <1>6 DEF Tick, vars, storeVars
<1>7. CASE \E p \in Sessions : Start(p) \/ SessionStep(p) \/ Fail(p)
  BY <1>7, <1>2, <1>3, <1>4, <1>5 DEF SessionStep
<1>. QED
  BY <1>6, <1>7 DEF Next

\* No save under way brings back a topic that was removed: a row appears when
\* the transaction that adds it commits.
THEOREM RemovedStaysRemovedAlways == Spec => RemovedStaysRemoved
<1>1. ASSUME SInv, [Next]_vars, NEW t \in Topics, row[t] = None, row'[t] # None
      PROVE  \E p \in Sessions : owner[t] = p /\ op[p].kind = "add"
  <2>1. PICK p \in Sessions : Publish(p)
    BY <1>1, CommitsOnly
  <2>2. owner[t] = p /\ draft[t] # None
    BY <1>1, <2>1 DEF Publish, SeenRow
  <2>. QED
    BY <1>1, <2>2 DEF SInv, Owned
<1>2. SInv /\ [Next]_vars
        => [\A t \in Topics : row[t] = None /\ row'[t] # None
              => \E p \in Sessions : owner[t] = p /\ op[p].kind = "add"]_vars
  BY <1>1
<1>. QED
  BY <1>2, SInvAlways, PTL DEF Spec, RemovedStaysRemoved

\* While nobody saves settings from a record another session has replaced, an
\* API pause ends by clear_api_pause alone.
THEOREM UnracedPauseSticksAlways == Spec => UnracedPauseSticks
<1>1. ASSUME SInv, [Next]_vars, settings.paused, ~settings'.paused,
             SettingsKey \notin raced
      PROVE  \E p \in Sessions : Unpauses(p)
  <2>1. PICK p \in Sessions : Publish(p)
    BY <1>1, CommitsOnly
  <2>2. owner[SettingsKey] = p /\ ~draft[SettingsKey].paused
    BY <1>1, <2>1 DEF Publish, SeenSettings
  <2>3. op[p].kind = "unpause"
    BY <1>1, <2>2 DEF SInv, PauseKept
  <2>. QED
    BY <2>2, <2>3 DEF Unpauses
<1>2. SInv /\ [Next]_vars
        => [settings.paused /\ ~settings'.paused
              => SettingsKey \in raced \/ \E p \in Sessions : Unpauses(p)]_vars
  BY <1>1
<1>. QED
  BY <1>2, SInvAlways, PTL DEF Spec, UnracedPauseSticks

-----------------------------------------------------------------------------
(* One session at a time.                                                  *)

Serial == \A p, q \in Sessions : p = q

SettingsSave == {"loadSettings", "writeSettings"}

\* The settings s saves are those stored (ok), or s reads them first; it saves
\* them once.
SavesRead(s, ok) ==
  \A i \in 1 .. Len(s) :
    s[i] \in SettingsSave => ok \/ \E j \in 1 .. i - 1 : s[j] = "settings"
SavesOnce(s) ==
  \A i \in 1 .. Len(s) : \A j \in 1 .. i - 1 :
    s[j] = "writeSettings" => s[i] \notin SettingsSave

LEMMA ScriptSaves ==
  ASSUME NEW o \in Operations
  PROVE  SavesRead(Script(o), FALSE) /\ SavesOnce(Script(o))
<1>. USE DEF SavesRead, SavesOnce, SettingsSave
<1>1. CASE o.kind = "add"
  BY <1>1 DEF Script
<1>2. CASE o.kind \in {"enable", "custom"}
  BY <1>2 DEF Script
<1>3. CASE o.kind = "disable"
  BY <1>3 DEF Script
<1>4. CASE o.kind = "remove"
  BY <1>4 DEF Script
<1>5. CASE o.kind = "manual" /\ o.outcome = "success"
  BY <1>5 DEF Script, ManualScript, Rejections
<1>6. CASE o.kind = "manual" /\ o.outcome \in Rejections
  BY <1>6 DEF Script, ManualScript, Rejections
<1>7. CASE o.kind = "manual" /\ o.outcome # "success" /\ o.outcome \notin Rejections
  BY <1>7 DEF Script, ManualScript
<1>8. CASE o.kind = "record" /\ o.outcome \in Rejections
  BY <1>8 DEF Script, RecordScript
<1>9. CASE o.kind = "record" /\ o.outcome \notin Rejections
  BY <1>9 DEF Script, RecordScript
<1>10. CASE o.kind = "interval"
  BY <1>10 DEF Script
<1>11. CASE o.kind \in {"toggle", "unpause"}
  BY <1>11 DEF Script
<1>12. o.kind \in {"add", "enable", "disable", "remove", "custom", "manual", "record",
                  "interval", "toggle", "unpause"}
  BY DEF Operations
<1>. QED
  BY <1>1, <1>2, <1>3, <1>4, <1>5, <1>6, <1>7, <1>8, <1>9, <1>10, <1>11, <1>12

LEMMA TailSaves ==
  ASSUME NEW s \in Seq(Steps), s # <<>>, NEW ok \in BOOLEAN, NEW okn \in BOOLEAN,
         SavesRead(s, ok), SavesOnce(s),
         \/ okn
         \/ s[1] = "writeSettings"
         \/ s[1] # "settings" /\ okn = ok
  PROVE  SavesRead(Tail(s), okn) /\ SavesOnce(Tail(s))
<1>1. ASSUME NEW i \in 1 .. Len(Tail(s))
      PROVE  Tail(s)[i] = s[i + 1] /\ i + 1 \in 1 .. Len(s) /\ 1 \in 1 .. (i + 1) - 1
  OBVIOUS
<1>2. SavesOnce(Tail(s))
  <2>1. SUFFICES ASSUME NEW i \in 1 .. Len(Tail(s)), NEW j \in 1 .. i - 1,
                        Tail(s)[j] = "writeSettings"
                 PROVE  Tail(s)[i] \notin SettingsSave
    BY DEF SavesOnce
  <2>2. j + 1 \in 1 .. (i + 1) - 1 /\ Tail(s)[j] = s[j + 1]
    BY <1>1
  <2>. QED
    BY <1>1, <2>1, <2>2 DEF SavesOnce
<1>3. SavesRead(Tail(s), okn)
  <2>1. SUFFICES ASSUME NEW i \in 1 .. Len(Tail(s)), Tail(s)[i] \in SettingsSave, ~okn
                 PROVE  \E j \in 1 .. i - 1 : Tail(s)[j] = "settings"
    BY DEF SavesRead
  <2>2. s[1] # "writeSettings"
    BY <1>1, <2>1 DEF SavesOnce
  <2>3. s[1] # "settings" /\ ~ok
    BY <2>1, <2>2
  <2>4. \E j \in 1 .. i : s[j] = "settings"
    BY <1>1, <2>1, <2>3 DEF SavesRead
  <2>. QED
    BY <2>3, <2>4, StillBefore
<1>. QED
  BY <1>2, <1>3

LEMMA NothingSaved ==
  ASSUME NEW ok \in BOOLEAN, NEW s, s \in {<<>>, <<"commit">>, <<"load", "write", "commit">>}
  PROVE  SavesRead(s, ok) /\ SavesOnce(s)
  BY DEF SavesRead, SavesOnce, SettingsSave

\* An UPDATE is never the first statement of what is left, unless its SELECT was
\* executed.
LEMMA NotWriting ==
  ASSUME SInv, NEW p \in Sessions, NEW step, At(p, step), step # "load",
         NEW s, s \in {Tail(script[p]), <<>>, <<"commit">>, <<"load", "write", "commit">>}
  PROVE  s # <<>> => Head(s) # "write"
<1>1. CASE s = Tail(script[p])
  <2>1. Now(p) /\ script[p][1] = step /\ Sane(p)
    BY NowKnown DEF SInv
  <2>2. s \in Seq(Steps) /\ (s # <<>> => s[1] # "write")
    BY <1>1, <2>1, Advance DEF Now, Sane
  <2>. QED
    BY <2>2
<1>2. CASE s \in {<<>>, <<"commit">>, <<"load", "write", "commit">>}
  BY <1>2
<1>. QED
  BY <1>1, <1>2

\* What the session is about to save was read from what is stored.
Current(p) ==
  /\ At(p, "write") => base[p] = SeenRow(p, Head(target[p]))
  /\ SavesRead(script[p], cfg[p] = SeenSettings(p))
  /\ SavesOnce(script[p])

Unraced ==
  /\ raced = {} /\ DOMAIN base = Sessions
  /\ \A p \in Sessions : Current(p)

LEMMA EndCurrent ==
  ASSUME Serial, SInv, NEW p \in Sessions, EndSession(p), raced' = raced, Unraced
  PROVE  Unraced'
<1>1. script'[p] = <<>>
  BY DEF EndSession, SInv, Typed
<1>2. Current(p)'
  BY <1>1, NothingSaved DEF Current, At
<1>. QED
  BY <1>2 DEF Serial, Unraced, EndSession

LEMMA ContinueCurrent ==
  ASSUME Serial, SInv, Unraced, NEW p \in Sessions, NEW step, At(p, step),
         step \notin {"settings", "load"},
         Continue(p), raced' = raced, DOMAIN base' = DOMAIN base,
         (cfg'[p] = cfg[p] /\ SeenSettings(p)' = SeenSettings(p)) \/ step = "writeSettings"
  PROVE  Unraced'
<1>1. Now(p) /\ script[p][1] = step /\ Sane(p) /\ Current(p)
  BY NowKnown DEF Unraced, SInv
<1>2. script'[p] = Tail(script[p])
  BY DEF Continue, SInv, Typed
<1>3. /\ SavesRead(Tail(script[p]), (cfg[p] = SeenSettings(p))')
      /\ SavesOnce(Tail(script[p]))
  BY <1>1, TailSaves DEF Now, Current
<1>4. ~At(p, "write")'
  <2>1. Tail(script[p]) # <<>> => Head(Tail(script[p])) # "write"
    BY NotWriting
  <2>. QED
    BY <1>2, <2>1 DEF At
<1>5. Current(p)'
  BY <1>2, <1>3, <1>4 DEF Current
<1>. QED
  BY <1>5 DEF Serial, Unraced

LEMMA UnracedNext ==
  ASSUME Serial, SInv, Unraced, [Next]_vars
  PROVE  Unraced'
<1>. USE DEF storeVars, sessionVars
<1>1. ASSUME NEW p \in Sessions PROVE Current(p) /\ raced = {}
  BY DEF Unraced
<1>2. ASSUME NEW p \in Sessions, Current(p)', raced' = raced, DOMAIN base' = DOMAIN base
      PROVE  Unraced'
  BY <1>2 DEF Serial, Unraced
<1>3. ASSUME NEW p \in Sessions, Rollback(p) PROVE Unraced'
  BY <1>3, EndCurrent DEF Rollback
<1>4. ASSUME NEW p \in Sessions, ReadTopic(p) \/ AddAttempt(p) PROVE Unraced'
  <2>1. CASE Rollback(p)
    BY <1>3, <2>1
  <2>2. CASE /\ Continue(p)
             /\ UNCHANGED <<cfg, settings, owner, draft, base, raced>>
    <3>1. PICK step \in {"topic", "attempt"} : At(p, step)
      BY <1>4 DEF ReadTopic, AddAttempt
    <3>2. SeenSettings(p)' = SeenSettings(p)
      BY <2>2 DEF SeenSettings
    <3>. QED
      BY <2>2, <3>1, <3>2, ContinueCurrent
  <2>. QED
    BY <1>4, <2>1, <2>2 DEF ReadTopic, AddAttempt
<1>5. ASSUME NEW p \in Sessions, ReadSettings(p) PROVE Unraced'
  <2>1. /\ Now(p) /\ script[p][1] = "settings" /\ Sane(p) /\ Current(p)
    BY <1>1, <1>5, NowKnown DEF ReadSettings, SInv
  <2>2. /\ cfg'[p] = SeenSettings(p) /\ SeenSettings(p)' = SeenSettings(p)
        /\ script'[p] \in {<<"commit">>, Tail(script[p])}
        /\ UNCHANGED <<base, raced>>
    BY <1>5 DEF ReadSettings, SeenSettings, SInv, Typed
  <2>4. ~At(p, "write")'
    <3>1. ASSUME NEW s, s = script'[p] PROVE s # <<>> => Head(s) # "write"
      BY <1>5, <2>2, <3>1, NotWriting DEF ReadSettings
    <3>. QED
      BY <3>1 DEF At
  <2>5. SavesRead(Tail(script[p]), TRUE) /\ SavesOnce(Tail(script[p]))
    BY <2>1, TailSaves DEF Now, Current
  <2>6. SavesRead(script'[p], TRUE) /\ SavesOnce(script'[p])
    BY <2>2, <2>5, NothingSaved
  <2>. QED
    BY <1>2, <2>2, <2>4, <2>6 DEF Current, SavesRead
<1>6. ASSUME NEW p \in Sessions, CommitAndWait(p) PROVE Unraced'
  <2>1. SeenSettings(p)' = SeenSettings(p)
    <3>1. settings' = SeenSettings(p) /\ owner'[SettingsKey] # p
      BY <1>6, KeyFacts DEF CommitAndWait, Publish, ReleaseLocks
    <3>. QED
      BY <3>1 DEF SeenSettings
  <2>2. PICK step \in {"forum", "notify"} : At(p, step)
    BY <1>6 DEF CommitAndWait
  <2>. QED
    BY <1>6, <2>1, <2>2, ContinueCurrent DEF CommitAndWait
<1>7. ASSUME NEW p \in Sessions, InsertTopic(p) \/ DeleteTopic(p) PROVE Unraced'
  <2>1. PICK step \in {"insert", "delete"} : At(p, step)
    BY <1>7 DEF InsertTopic, DeleteTopic
  <2>2. op[p].topic \in Topics
    BY <2>1, NowKnown, ReadyNow DEF Now, SInv, Sane
  <2>3. owner'[SettingsKey] = owner[SettingsKey] /\ draft'[SettingsKey] = draft[SettingsKey]
    BY <1>7, <2>2, KeyFacts DEF InsertTopic, DeleteTopic, SInv, Stored
  <2>4. SeenSettings(p)' = SeenSettings(p)
    BY <1>7, <2>3 DEF SeenSettings, InsertTopic, DeleteTopic
  <2>. QED
    BY <1>7, <2>1, <2>4, ContinueCurrent DEF InsertTopic, DeleteTopic
<1>8. ASSUME NEW p \in Sessions, ListTopics(p) PROVE Unraced'
  <2>1. /\ Now(p) /\ script[p][1] = "list" /\ Sane(p) /\ Current(p)
    BY <1>1, <1>8, NowKnown DEF ListTopics, SInv
  <2>2. /\ SeenSettings(p)' = SeenSettings(p) /\ UNCHANGED <<cfg, base, raced>>
        /\ script'[p] \in {<<"load", "write", "commit">>, Tail(script[p])}
    BY <1>8 DEF ListTopics, SeenSettings, SInv, Typed
  <2>4. ~At(p, "write")'
    <3>1. ASSUME NEW s, s = script'[p] PROVE s # <<>> => Head(s) # "write"
      BY <1>8, <2>2, <3>1, NotWriting DEF ListTopics
    <3>. QED
      BY <3>1 DEF At
  <2>5. /\ SavesRead(Tail(script[p]), cfg[p] = SeenSettings(p))
        /\ SavesOnce(Tail(script[p]))
    BY <2>1, TailSaves DEF Now, Current
  <2>6. SavesRead(script'[p], cfg[p] = SeenSettings(p)) /\ SavesOnce(script'[p])
    BY <2>2, <2>5, NothingSaved
  <2>. QED
    BY <1>2, <2>2, <2>4, <2>6 DEF Current
<1>9. ASSUME NEW p \in Sessions, LoadTopic(p) PROVE Unraced'
  <2>1. CASE Rollback(p)
    BY <1>3, <2>1
  <2>2. CASE /\ base' = [base EXCEPT ![p] = SeenRow(p, Head(target[p]))]
             /\ Continue(p)
             /\ UNCHANGED <<clock, storeVars, op, target, rec, cfg, raced, ops>>
    <3>1. Now(p) /\ script[p][1] = "load" /\ Current(p)
      BY <1>1, <1>9, NowKnown DEF LoadTopic
    <3>2. /\ base'[p] = SeenRow(p, Head(target[p])) /\ DOMAIN base' = DOMAIN base
          /\ script'[p] = Tail(script[p])
      BY <2>2 DEF Continue, SInv, Typed, Unraced
    <3>3. At(p, "write")' => base'[p] = SeenRow(p, Head(target[p]))'
      BY <2>2, <3>2 DEF SeenRow
    <3>4. /\ SavesRead(Tail(script[p]), cfg[p] = SeenSettings(p))
          /\ SavesOnce(Tail(script[p]))
      BY <3>1, TailSaves DEF Now, Current
    <3>5. cfg'[p] = cfg[p] /\ SeenSettings(p)' = SeenSettings(p)
      BY <2>2 DEF SeenSettings
    <3>. QED
      BY <1>2, <2>2, <3>2, <3>3, <3>4, <3>5 DEF Current
  <2>. QED
    BY <1>9, <2>1, <2>2 DEF LoadTopic
<1>10. ASSUME NEW p \in Sessions, WriteTopic(p) PROVE Unraced'
  <2>1. CASE Rollback(p)
    BY <1>3, <2>1
  <2>2. CASE ~Rollback(p)
    <3>1. Now(p) /\ script[p][1] = "write" /\ Current(p) /\ Sane(p) /\ At(p, "write")
      BY <1>1, <1>10, NowKnown DEF WriteTopic, SInv
    <3>2. base[p] = SeenRow(p, Head(target[p]))
      BY <3>1 DEF Current
    <3>3. /\ raced' = raced /\ cfg' = cfg /\ settings' = settings /\ DOMAIN base' = DOMAIN base
          /\ script'[p] \in {<<"load", "write", "commit">>, Tail(script[p])}
      BY <1>10, <2>2, <3>2 DEF WriteTopic, SInv, Typed
    <3>4. Head(target[p]) \in Topics
      BY <3>1, ReadyNow DEF Now, Sane, Saving
    <3>5. owner'[SettingsKey] = owner[SettingsKey] /\ draft'[SettingsKey] = draft[SettingsKey]
      BY <1>10, <2>2, <3>4, KeyFacts DEF WriteTopic, SInv, Stored
    <3>6. SeenSettings(p)' = SeenSettings(p)
      BY <3>3, <3>5 DEF SeenSettings
    <3>8. ~At(p, "write")'
      <4>1. ASSUME NEW s, s = script'[p] PROVE s # <<>> => Head(s) # "write"
        BY <3>1, <3>3, <4>1, NotWriting
      <4>. QED
        BY <4>1 DEF At
    <3>9. /\ SavesRead(Tail(script[p]), cfg[p] = SeenSettings(p))
          /\ SavesOnce(Tail(script[p]))
      BY <3>1, TailSaves DEF Now, Current
    <3>10. SavesRead(script'[p], cfg[p] = SeenSettings(p)) /\ SavesOnce(script'[p])
      BY <3>3, <3>9, NothingSaved
    <3>. QED
      BY <1>2, <3>3, <3>6, <3>8, <3>10 DEF Current
  <2>. QED
    BY <2>1, <2>2
<1>11. ASSUME NEW p \in Sessions, LoadSettings(p) PROVE Unraced'
  <2>1. At(p, "loadSettings") /\ Continue(p) /\ DOMAIN base' = DOMAIN base
    BY <1>11 DEF LoadSettings
  <2>2. cfg' = cfg /\ raced' = raced /\ SeenSettings(p)' = SeenSettings(p)
    BY <1>11 DEF LoadSettings, SeenSettings
  <2>. QED
    BY <2>1, <2>2, ContinueCurrent
<1>12. ASSUME NEW p \in Sessions, WriteSettings(p) PROVE Unraced'
  <2>1. Now(p) /\ script[p][1] = "writeSettings" /\ Current(p)
    BY <1>1, <1>12, NowKnown DEF WriteSettings
  <2>2. SavesRead(script[p], cfg[p] = SeenSettings(p))
    BY <2>1 DEF Current
  <2>3. cfg[p] = SeenSettings(p)
    BY <2>1, <2>2 DEF SavesRead, SettingsSave, Now
  <2>4. raced' = raced /\ DOMAIN base' = DOMAIN base /\ Continue(p) /\ At(p, "writeSettings")
    BY <1>12, <2>3 DEF WriteSettings
  <2>. QED
    BY <2>4, ContinueCurrent
<1>13. ASSUME NEW p \in Sessions, Commit(p) PROVE Unraced'
  BY <1>13, EndCurrent DEF Commit
<1>14. ASSUME NEW p \in Sessions, Fail(p) \/ DeadlockAbort(p) PROVE Unraced'
  BY <1>3, <1>14 DEF Fail, DeadlockAbort
<1>15. ASSUME NEW p \in Sessions, Start(p) PROVE Unraced'
  <2>1. PICK o \in Operations : script'[p] = Script(o)
    BY <1>15 DEF Start, SInv, Typed
  <2>2. raced' = raced /\ base' = base
    BY <1>15 DEF Start
  <2>3. Fresh(o, Script(o), rec[p], cfg[p])
    BY ScriptFresh
  <2>4. ~At(p, "write")'
    BY <2>1, <2>3 DEF Fresh, At
  <2>5. SavesRead(Script(o), FALSE) /\ SavesOnce(Script(o))
    BY ScriptSaves
  <2>6. SavesRead(script'[p], (cfg[p] = SeenSettings(p))')
    BY <2>1, <2>5 DEF SavesRead
  <2>. QED
    BY <1>2, <2>1, <2>2, <2>4, <2>5, <2>6 DEF Current
<1>16. CASE Tick \/ UNCHANGED vars
  <2>1. UNCHANGED <<storeVars, sessionVars, raced>>
    BY <1>16 DEF Tick, vars
  <2>2. ASSUME NEW p \in Sessions PROVE Current(p)'
    BY <1>1, <2>1 DEF Current, At, SeenRow, SeenSettings
  <2>. QED
    BY <2>1, <2>2 DEF Unraced
<1>17. CASE \E p \in Sessions : Start(p) \/ SessionStep(p) \/ Fail(p)
  BY <1>17, <1>4, <1>5, <1>6, <1>7, <1>8, <1>9, <1>10, <1>11, <1>12, <1>13, <1>14, <1>15
     DEF SessionStep
<1>. QED
  BY <1>16, <1>17 DEF Next

LEMMA SerialUnraced ==
  ASSUME Serial
  PROVE  Spec => []Unraced
<1>1. ASSUME Init PROVE Unraced
  <2>1. raced = {} /\ DOMAIN base = Sessions /\ \A p \in Sessions : script[p] = <<>>
    BY <1>1 DEF Init
  <2>2. ASSUME NEW p \in Sessions PROVE Current(p)
    BY <2>1, NothingSaved DEF Current, At
  <2>. QED
    BY <2>1, <2>2 DEF Unraced
<1>2. SInv /\ Unraced /\ [Next]_vars => Unraced'
  BY UnracedNext
<1>. QED
  BY <1>1, <1>2, SInvAlways, PTL DEF Spec

\* As long as sessions do not overlap, no save is raced, and schedule_due_at
\* follows every topic's schedule: what ScheduleMatches lacks comes from overlaps
\* alone, never from one operation or from a failure within it.
THEOREM SerialScheduleMatches ==
  ASSUME Serial
  PROVE  Spec => []ScheduleMatches
<1>1. Unraced /\ UnracedScheduleMatches => ScheduleMatches
  BY DEF Unraced, UnracedScheduleMatches, ScheduleMatches
<1>. QED
  BY <1>1, SerialUnraced, UnracedScheduleMatchesAlways, PTL

\* Then, too, an API pause ends by clear_api_pause alone.
THEOREM SerialPauseSticks ==
  ASSUME Serial
  PROVE  Spec => PauseSticks
<1>. DEFINE Ends == settings.paused /\ ~settings'.paused
            Ended == \E p \in Sessions : Unpauses(p)
<1>1. Unraced /\ [Ends => SettingsKey \in raced \/ Ended]_vars => [Ends => Ended]_vars
  BY DEF Unraced
<1>. QED
  BY <1>1, SerialUnraced, UnracedPauseSticksAlways, PTL DEF UnracedPauseSticks, PauseSticks

FailedManual(o) == o # None /\ o.kind = "manual" /\ o.outcome # "success"
GlobalInterval(o) == o # None /\ o.kind = "interval"

\* A failed manual bump has read, and leaves, the time the topic is due next.
ScheduleKept(p) ==
  FailedManual(op[p]) =>
    /\ \A t \in Topics : rec[p][t] # None => SeenRow(p, t).next = rec[p][t].next
    /\ \A t \in Topics : owner[t] = p => draft[t].next = row[t].next
    /\ At(p, "write") => new[p].next = rec[p][Head(target[p])].next

\* What a new global interval saves has no interval of its own.
CustomSpared(p) ==
  GlobalInterval(op[p]) =>
    /\ \A k \in 1 .. Len(target[p]) :
         row[target[p][k]] # None => row[target[p][k]].custom = None
    /\ \A t \in Topics : owner[t] = p /\ row[t] # None => row[t].custom = None

Kept(p) ==
  /\ ScheduleKept(p) /\ CustomSpared(p)
  /\ op[p] = None => \A t \in Topics : rec[p][t] = None

\* Steps that leave the rows alone, and what the operation has read of them.
LEMMA QuietKept ==
  ASSUME SInv, NEW p \in Sessions, Kept(p),
         op'[p] = op[p], rec'[p] = rec[p], target'[p] = target[p], row' = row,
         \A t \in Topics : owner'[t] = owner[t] /\ draft'[t] = draft[t],
         FailedManual(op[p]) /\ At(p, "write")' =>
           new'[p].next = rec[p][Head(target[p])].next
  PROVE  Kept(p)'
<1>1. \A t \in Topics : SeenRow(p, t)' = SeenRow(p, t)
  BY DEF SeenRow
<1>2. ScheduleKept(p)'
  BY <1>1 DEF Kept, ScheduleKept, FailedManual
<1>3. CustomSpared(p)'
  BY DEF Kept, CustomSpared, GlobalInterval
<1>. QED
  BY <1>2, <1>3 DEF Kept

LEMMA EndKept ==
  ASSUME SInv, NEW p \in Sessions, EndSession(p)
  PROVE  Kept(p)'
<1>1. op'[p] = None /\ \A t \in Topics : rec'[p][t] = None
  BY DEF EndSession, SInv, Typed
<1>. QED
  BY <1>1 DEF Kept, ScheduleKept, CustomSpared, FailedManual, GlobalInterval

LEMMA WriteKept ==
  ASSUME SInv, NEW p \in Sessions, Current(p), Kept(p), WriteTopic(p), ~Rollback(p)
  PROVE  Kept(p)'
<1>. DEFINE t == Head(target[p])
<1>1. Now(p) /\ script[p][1] = "write" /\ Sane(p) /\ At(p, "write")
  BY NowKnown DEF WriteTopic, SInv
<1>2. target[p] # <<>> /\ t \in Topics /\ t = target[p][1] /\ target[p] \in Seq(Topics)
  BY <1>1, ReadyNow DEF Now, Sane, Saving, SInv, Typed
<1>3. /\ base[p] = SeenRow(p, t) /\ SeenRow(p, t) \in Row /\ new[p] \in Row
      /\ target'[p] = Tail(target[p]) /\ UNCHANGED <<op, rec, row>>
      /\ \/ UNCHANGED <<owner, draft>>
         \/ /\ owner' = [owner EXCEPT ![t] = p]
            /\ draft' = [draft EXCEPT ![t] = Applied(SeenRow(p, t), base[p], new[p])]
  <2>1. base[p] = SeenRow(p, t)
    BY <1>1 DEF Current
  <2>2. SeenRow(p, t) \in Row
    BY <1>2 DEF WriteTopic, SeenRow, SInv, Stored
  <2>. QED
    BY <1>1, <2>1, <2>2 DEF WriteTopic, Sane, SInv, Typed
<1>4. \/ UNCHANGED <<owner, draft>>
      \/ owner' = [owner EXCEPT ![t] = p] /\ draft' = [draft EXCEPT ![t] = new[p]]
  BY <1>3, AppliedUnraced
<1>5. ~At(p, "write")'
  <2>1. script'[p] \in {Tail(script[p]), <<"load", "write", "commit">>}
    BY DEF WriteTopic, SInv, Typed
  <2>2. ASSUME NEW s, s = script'[p] PROVE s # <<>> => Head(s) # "write"
    BY <1>1, <2>1, <2>2, NotWriting
  <2>. QED
    BY <2>2 DEF At
<1>6. /\ t \in Keys /\ owner \in [Keys -> Sessions \cup {None}]
      /\ draft \in [Keys -> Row \cup Settings \cup {None}]
  BY <1>2, KeyFacts DEF SInv, Stored
<1>. HIDE DEF t
<1>7. ScheduleKept(p)'
  <2>. SUFFICES ASSUME FailedManual(op[p]) PROVE ScheduleKept(p)'
    BY <1>3 DEF ScheduleKept, FailedManual
  <2>1. new[p].next = rec[p][t].next
    BY <1>1 DEF Kept, ScheduleKept, t
  <2>2. new[p].next = row[t].next
    <3>1. 1 \in 1 .. Len(target[p])
      BY <1>2
    <3>2. rec[p][t] \in Row
      BY <1>1, <1>2, <3>1, ReadyNow DEF Now, Sane, Saving
    <3>. QED
      BY <1>2, <2>1, <3>2, NoneAssumption DEF Kept, ScheduleKept, SeenRow
  <2>3. CASE UNCHANGED <<owner, draft>>
    BY <1>3, <1>5, <2>3 DEF Kept, ScheduleKept, SeenRow, FailedManual
  <2>4. ASSUME owner' = [owner EXCEPT ![t] = p], draft' = [draft EXCEPT ![t] = new[p]]
        PROVE  ScheduleKept(p)'
    <3>1. owner'[t] = p /\ draft'[t] = new[p]
      BY <1>6, <2>4
    <3>2. \A u \in Topics \ {t} : owner'[u] = owner[u] /\ draft'[u] = draft[u]
      BY <1>6, <2>4, KeyFacts
    <3>. QED
      BY <1>3, <1>5, <2>1, <2>2, <3>1, <3>2 DEF Kept, ScheduleKept, SeenRow, FailedManual
  <2>. QED
    BY <1>4, <2>3, <2>4
<1>8. CustomSpared(p)'
  <2>. SUFFICES ASSUME GlobalInterval(op[p]) PROVE CustomSpared(p)'
    BY <1>3 DEF CustomSpared, GlobalInterval
  <2>1. 1 \in 1 .. Len(target[p]) /\ \A k \in 1 .. Len(Tail(target[p])) :
          k + 1 \in 1 .. Len(target[p]) /\ Tail(target[p])[k] = target[p][k + 1]
    BY <1>2
  <2>2. row[t] # None => row[t].custom = None
    BY <1>2, <2>1 DEF Kept, CustomSpared
  <2>3. \A k \in 1 .. Len(Tail(target[p])) :
          row[Tail(target[p])[k]] # None => row[Tail(target[p])[k]].custom = None
    BY <2>1 DEF Kept, CustomSpared
  <2>4. \A u \in Topics : owner'[u] = p => u = t \/ owner[u] = p
    BY <1>4, <1>6, KeyFacts
  <2>. QED
    BY <1>3, <2>2, <2>3, <2>4 DEF Kept, CustomSpared
<1>. QED
  BY <1>1, <1>3, <1>7, <1>8 DEF Kept, Now, SInv, Sane

LEMMA KeptNext ==
  ASSUME Serial, SInv, Unraced, \A p \in Sessions : Kept(p), [Next]_vars
  PROVE  \A p \in Sessions : Kept(p)'
<1>. USE DEF storeVars, sessionVars
<1>1. ASSUME NEW p \in Sessions, Kept(p)' PROVE \A q \in Sessions : Kept(q)'
  BY <1>1 DEF Serial
<1>2. ASSUME NEW p \in Sessions PROVE Kept(p) /\ Current(p)
  BY DEF Unraced
<1>3. ASSUME NEW p \in Sessions, Rollback(p) PROVE Kept(p)'
  BY <1>3, EndKept DEF Rollback
<1>4. ASSUME NEW p \in Sessions, NEW step, At(p, step), step # "load", Continue(p)
      PROVE  ~At(p, "write")'
  <2>1. script'[p] = Tail(script[p])
    BY <1>4 DEF Continue, SInv, Typed
  <2>2. ASSUME NEW s, s = script'[p] PROVE s # <<>> => Head(s) # "write"
    BY <1>4, <2>1, <2>2, NotWriting
  <2>. QED
    BY <2>2 DEF At
<1>5. ASSUME NEW p \in Sessions, ReadTopic(p) PROVE Kept(p)'
  <2>1. CASE Rollback(p)
    BY <1>3, <2>1
  <2>2. CASE ~Rollback(p)
    <3>1. op[p].topic \in Topics /\ op[p] # None
      BY <1>5, NowKnown, ReadyNow, KeyFacts DEF ReadTopic, Now, SInv, Sane
    <3>2. /\ rec' = [rec EXCEPT ![p][op[p].topic] = SeenRow(p, op[p].topic)]
          /\ UNCHANGED <<op, target, row, owner, draft>> /\ ~At(p, "write")'
      BY <1>4, <1>5, <2>2 DEF ReadTopic
    <3>3. \A t \in Topics : rec'[p][t] \in {rec[p][t], SeenRow(p, t)}
      BY <3>1, <3>2 DEF SInv, Typed
    <3>4. \A t \in Topics : SeenRow(p, t)' = SeenRow(p, t)
      BY <3>2 DEF SeenRow
    <3>5. ScheduleKept(p)'
      BY <1>2, <3>2, <3>3, <3>4 DEF Kept, ScheduleKept, FailedManual
    <3>6. CustomSpared(p)'
      BY <1>2, <3>2 DEF Kept, CustomSpared, GlobalInterval
    <3>. QED
      BY <3>1, <3>2, <3>5, <3>6 DEF Kept
  <2>. QED
    BY <2>1, <2>2
<1>6. ASSUME NEW p \in Sessions, ReadSettings(p) PROVE Kept(p)'
  <2>1. script'[p] \in {Tail(script[p]), <<"commit">>}
    BY <1>6 DEF ReadSettings, SInv, Typed
  <2>2. ASSUME NEW s, s = script'[p] PROVE s # <<>> => Head(s) # "write"
    BY <1>6, <2>1, <2>2, NotWriting DEF ReadSettings
  <2>3. ~At(p, "write")'
    BY <2>2 DEF At
  <2>. QED
    BY <1>2, <1>6, <2>3, QuietKept DEF ReadSettings
<1>7. ASSUME NEW p \in Sessions, CommitAndWait(p) PROVE Kept(p)'
  <2>1. PICK step \in {"forum", "notify"} : At(p, step)
    BY <1>7 DEF CommitAndWait
  <2>2. op[p] # None /\ op[p].kind # "interval"
    BY <2>1, NowKnown, ReadyNow, KeyFacts DEF Now, SInv, Sane
  <2>3. /\ \A t \in Topics : row'[t] = SeenRow(p, t) /\ owner'[t] # p
        /\ UNCHANGED <<op, rec, target>> /\ ~At(p, "write")'
    BY <1>4, <1>7, <2>1, KeyFacts DEF CommitAndWait, Publish, ReleaseLocks
  <2>4. \A t \in Topics : SeenRow(p, t)' = SeenRow(p, t)
    BY <2>3 DEF SeenRow
  <2>5. ScheduleKept(p)'
    BY <1>2, <2>3, <2>4 DEF Kept, ScheduleKept, FailedManual
  <2>. QED
    BY <2>2, <2>3, <2>5 DEF Kept, CustomSpared, GlobalInterval
<1>8. ASSUME NEW p \in Sessions, InsertTopic(p) \/ DeleteTopic(p) PROVE Kept(p)'
  <2>1. op[p] # None /\ op[p].kind \in {"add", "remove"} /\ op' = op
    BY <1>8, NowKnown, ReadyNow, KeyFacts DEF InsertTopic, DeleteTopic, Now, SInv, Sane
  <2>. QED
    BY <2>1 DEF Kept, ScheduleKept, CustomSpared, FailedManual, GlobalInterval
<1>9. ASSUME NEW p \in Sessions, AddAttempt(p) PROVE Kept(p)'
  <2>1. CASE Rollback(p)
    BY <1>3, <2>1
  <2>2. CASE ~Rollback(p)
    <3>1. ~At(p, "write")'
      BY <1>4, <1>9, <2>2 DEF AddAttempt
    <3>. QED
      BY <1>2, <1>9, <2>2, <3>1, QuietKept DEF AddAttempt
  <2>. QED
    BY <2>1, <2>2
<1>10. ASSUME NEW p \in Sessions, ListTopics(p) PROVE Kept(p)'
  <2>. DEFINE chosen == {t \in {u \in Topics : SeenRow(p, u) # None} :
                           SeenRow(p, t).custom = None}
  <2>1. op[p] # None /\ op[p].kind = "interval" /\ op' = op
    BY <1>10, NowKnown, ReadyNow, KeyFacts DEF ListTopics, Now, SInv, Sane
  <2>2. PICK order \in SetToSeqs(chosen) : target' = [target EXCEPT ![p] = order]
    BY <1>10 DEF ListTopics
  <2>3. target'[p] = order /\ UNCHANGED <<row, owner>>
    BY <1>10, <2>2 DEF ListTopics, SInv, Typed
  <2>4. \A t \in chosen : t \in Topics /\ (row[t] # None => row[t].custom = None)
    BY <1>2, <2>1 DEF Kept, CustomSpared, GlobalInterval, SeenRow
  <2>5. \A k \in 1 .. Len(order) : order[k] \in chosen
    <3>. HIDE DEF chosen
    <3>1. chosen \in SUBSET Topics
      BY DEF chosen
    <3>. QED
      BY <3>1, OrdersAreSequences
  <2>. HIDE DEF chosen
  <2>6. CustomSpared(p)'
    BY <1>2, <2>1, <2>3, <2>4, <2>5 DEF Kept, CustomSpared, GlobalInterval
  <2>. QED
    BY <2>1, <2>6 DEF Kept, ScheduleKept, FailedManual
<1>11. ASSUME NEW p \in Sessions, LoadTopic(p) PROVE Kept(p)'
  <2>1. CASE Rollback(p)
    BY <1>3, <2>1
  <2>2. CASE ~Rollback(p)
    <3>. DEFINE r == rec[p][Head(target[p])]
    <3>1. /\ UNCHANGED <<op, rec, target, row, owner, draft>>
          /\ new'[p] = [NewTopic(op[p], r, cfg[p], clock)
                          EXCEPT !.due = DueAt(NewTopic(op[p], r, cfg[p], clock))]
      BY <1>11, <2>2 DEF LoadTopic, SInv, Typed
    <3>2. r \in Row
      <4>1. /\ Now(p) /\ target[p] # <<>> /\ target[p] \in Seq(Topics)
            /\ \A k \in 1 .. Len(target[p]) : rec[p][target[p][k]] \in Row
        BY <1>11, NowKnown, ReadyNow DEF LoadTopic, Now, Sane, Saving, SInv, Typed
      <4>2. 1 \in 1 .. Len(target[p])
        BY <4>1
      <4>. QED
        BY <4>1, <4>2 DEF Now
    <3>3. FailedManual(op[p]) => NewTopic(op[p], r, cfg[p], clock) = r
      BY DEF NewTopic, FailedManual
    <3>. HIDE DEF r
    <3>4. FailedManual(op[p]) => new'[p].next = r.next
      BY <3>1, <3>2, <3>3 DEF Row
    <3>. QED
      BY <1>2, <3>1, <3>4, QuietKept DEF r
  <2>. QED
    BY <2>1, <2>2
<1>12. ASSUME NEW p \in Sessions, WriteTopic(p) PROVE Kept(p)'
  BY <1>2, <1>3, <1>12, WriteKept
<1>13. ASSUME NEW p \in Sessions, LoadSettings(p) \/ WriteSettings(p) PROVE Kept(p)'
  <2>1. PICK step \in {"loadSettings", "writeSettings"} : At(p, step)
    BY <1>13 DEF LoadSettings, WriteSettings
  <2>2. ~At(p, "write")'
    BY <1>4, <1>13, <2>1 DEF LoadSettings, WriteSettings
  <2>3. \A t \in Topics : owner'[t] = owner[t] /\ draft'[t] = draft[t]
    BY <1>13, KeyFacts DEF LoadSettings, WriteSettings, SInv, Stored
  <2>4. UNCHANGED <<op, rec, target, row>>
    BY <1>13 DEF LoadSettings, WriteSettings
  <2>. QED
    BY <1>2, <2>2, <2>3, <2>4, QuietKept
<1>14. ASSUME NEW p \in Sessions, Commit(p) PROVE Kept(p)'
  BY <1>14, EndKept DEF Commit
<1>15. ASSUME NEW p \in Sessions, Fail(p) \/ DeadlockAbort(p) PROVE Kept(p)'
  BY <1>3, <1>15 DEF Fail, DeadlockAbort
<1>16. ASSUME NEW p \in Sessions, Start(p) PROVE Kept(p)'
  <2>1. PICK o \in Operations :
          /\ op'[p] = o /\ script'[p] = Script(o)
          /\ target'[p] = IF OnTopic(o) THEN <<o.topic>> ELSE <<>>
    BY <1>16 DEF Start, SInv, Typed
  <2>2. UNCHANGED <<rec, owner>> /\ op[p] = None
    BY <1>16 DEF Start
  <2>3. ~At(p, "write")'
    BY <2>1, ScriptFresh DEF Fresh, At
  <2>4. \A t \in Topics : rec[p][t] = None /\ owner[t] # p
    BY <1>2, <2>2, KeyFacts DEF Kept, SInv, Owned
  <2>5. o.kind = "interval" => target'[p] = <<>>
    BY <2>1 DEF OnTopic
  <2>6. ScheduleKept(p)'
    BY <2>2, <2>3, <2>4 DEF ScheduleKept
  <2>7. CustomSpared(p)'
    BY <2>1, <2>2, <2>4, <2>5 DEF CustomSpared, GlobalInterval
  <2>. QED
    BY <2>1, <2>6, <2>7, KeyFacts DEF Kept
<1>17. CASE Tick \/ UNCHANGED vars
  <2>1. UNCHANGED <<storeVars, sessionVars>>
    BY <1>17 DEF Tick, vars
  <2>. QED
    BY <1>2, <2>1 DEF Kept, ScheduleKept, CustomSpared, SeenRow, At
<1>18. CASE \E p \in Sessions : Start(p) \/ SessionStep(p) \/ Fail(p)
  BY <1>1, <1>18, <1>5, <1>6, <1>7, <1>8, <1>9, <1>10, <1>11, <1>12, <1>13, <1>14, <1>15,
     <1>16 DEF SessionStep
<1>. QED
  BY <1>17, <1>18 DEF Next

LEMMA SerialKept ==
  ASSUME Serial
  PROVE  Spec => [](\A p \in Sessions : Kept(p))
<1>1. Init => \A p \in Sessions : Kept(p)
  BY DEF Init, Kept, ScheduleKept, CustomSpared, FailedManual, GlobalInterval
<1>2. SInv /\ Unraced /\ (\A p \in Sessions : Kept(p)) /\ [Next]_vars
        => (\A p \in Sessions : Kept(p))'
  BY KeptNext
<1>. QED
  BY <1>1, <1>2, SInvAlways, SerialUnraced, PTL DEF Spec

LEMMA CommitsKept ==
  ASSUME Serial, \A p \in Sessions : Kept(p), [Next]_vars,
         NEW p \in Sessions, NEW t \in Topics, owner[t] = p, row[t] # None
  PROVE  /\ FailedManual(op[p]) => row'[t].next = row[t].next
         /\ GlobalInterval(op[p]) => row[t].custom = None
<1>1. row' = row \/ row'[t] = SeenRow(p, t)
  BY CommitsOnly DEF Serial, Publish
<1>2. FailedManual(op[p]) => draft[t].next = row[t].next
  BY DEF Kept, ScheduleKept
<1>. QED
  BY <1>1, <1>2 DEF SeenRow, Kept, CustomSpared

\* As long as sessions do not overlap, a failed manual bump leaves the schedule of
\* its topic alone, although it saves the whole record.
THEOREM SerialFailedManualKeepsSchedule ==
  ASSUME Serial
  PROVE  Spec => FailedManualKeepsSchedule
<1>1. SInv /\ (\A p \in Sessions : Kept(p)) /\ [Next]_vars
        => [\A p \in Sessions, t \in Topics :
              owner[t] = p /\ op[p].kind = "manual" /\ op[p].outcome # "success"
                /\ row[t] # None => row'[t].next = row[t].next]_vars
  BY CommitsKept, KeyFacts DEF FailedManual, SInv, Owned
<1>. QED
  BY <1>1, SInvAlways, SerialKept, PTL DEF Spec, FailedManualKeepsSchedule

\* Then, too, a new global interval leaves topics with an interval of their own
\* alone.
THEOREM SerialGlobalIntervalSparesCustom ==
  ASSUME Serial
  PROVE  Spec => GlobalIntervalSparesCustom
<1>1. SInv /\ (\A p \in Sessions : Kept(p)) /\ [Next]_vars
        => [\A p \in Sessions, t \in Topics :
              owner[t] = p /\ op[p].kind = "interval" /\ row[t] # None
                /\ row[t].custom # None => row'[t] = row[t]]_vars
  BY CommitsKept, KeyFacts DEF GlobalInterval, SInv, Owned
<1>. QED
  BY <1>1, SInvAlways, SerialKept, PTL DEF Spec, GlobalIntervalSparesCustom

-----------------------------------------------------------------------------
(* The interval that a topic waits for.                                    *)

\* At time at, a row waits for at most the interval seconds or for the delay of
\* a retry; it was not bumped later than at.
Within(r, seconds, at) ==
  r # None /\ r.custom = None /\ r.next # None
    => \E wait \in {seconds, RetryWait} : r.next <= at + wait
Timely(r, at) == r # None /\ r.last # None => r.last <= at

LEMMA RowLater ==
  ASSUME NEW r \in Row \cup {None}, NEW seconds \in Nat, NEW at \in Nat, NEW later \in Nat,
         at <= later
  PROVE  /\ Timely(r, at) => Timely(r, later)
         /\ Within(r, seconds, at) => Within(r, seconds, later)
<1>. USE StoreAssumption DEF StoreAssumption
<1>1. r # None => r.last \in Nat \cup {None} /\ r.next \in Nat \cup {None}
  BY DEF Row, Instant
<1>. QED
  BY <1>1 DEF Timely, Within

LEMMA NewRowWithin ==
  ASSUME NEW seconds \in Nat, NEW at \in Nat
  PROVE  /\ Timely(NewRow(at + EffectiveInterval(seconds, None)), at)
         /\ Within(NewRow(at + EffectiveInterval(seconds, None)), seconds, at)
  BY DEF NewRow, EffectiveInterval, Timely, Within

\* What a save computes from a row that keeps these bounds keeps them; a global
\* interval sets the time anew.
LEMMA NewTopicWithin ==
  ASSUME NEW o \in Operations, NEW r \in Row, NEW s, NEW at \in Nat, NEW seconds \in Nat,
         o.kind \in Savers,
         NeedsSettings(o) => s \in Settings /\ s.interval = seconds,
         o.kind = "interval" => o.seconds = seconds,
         Timely(r, at), o.kind # "interval" => Within(r, seconds, at),
         NEW due
  PROVE  LET saved == [NewTopic(o, r, s, at) EXCEPT !.due = due]
         IN  Timely(saved, at) /\ Within(saved, seconds, at)
<1>. USE StoreAssumption DEF StoreAssumption
<1>1. /\ r.custom \in Nat \cup {None} /\ r.last \in Nat \cup {None} /\ r.next \in Nat \cup {None}
      /\ r = [enabled |-> r.enabled, custom |-> r.custom, last |-> r.last, next |-> r.next,
              due |-> r.due]
      /\ r # None
  BY NoneAssumption DEF Row, Instant
<1>2. (r.last # None => r.last <= at) /\ None \notin Nat
  BY <1>1 DEF Timely
<1>. DEFINE soon(last, custom, next) ==
       /\ last # None => last <= at
       /\ custom = None /\ next # None => \E wait \in {seconds, RetryWait} : next <= at + wait
<1>3. ASSUME NEW e, NEW c, NEW l, NEW n, soon(l, c, n),
             NewTopic(o, r, s, at) = [enabled |-> e, custom |-> c, last |-> l, next |-> n,
                                      due |-> r.due]
      PROVE  LET saved == [NewTopic(o, r, s, at) EXCEPT !.due = due]
             IN  Timely(saved, at) /\ Within(saved, seconds, at)
  <2>1. [NewTopic(o, r, s, at) EXCEPT !.due = due]
          = [enabled |-> e, custom |-> c, last |-> l, next |-> n, due |-> due]
    BY <1>3
  <2>. QED
    BY <1>3, <2>1 DEF Timely, Within
<1>4. o.kind # "interval" => soon(r.last, r.custom, r.next)
  BY <1>1, <1>2 DEF Within
<1>5. ASSUME NEW l \in Nat \cup {None}, l # None => l <= at
      PROVE  NextBumpAt(l, at, seconds) <= at + seconds
  BY <1>5 DEF NextBumpAt
<1>. HIDE DEF soon
<1>6. CASE o.kind = "enable"
  <2>1. s.interval = seconds
    BY <1>6 DEF NeedsSettings
  <2>. DEFINE n == at + EffectiveInterval(seconds, r.custom)
  <2>2. r.custom = None => n <= at + seconds
    BY DEF EffectiveInterval
  <2>3. NewTopic(o, r, s, at) = [r EXCEPT !.enabled = TRUE, !.next = n]
    BY <1>6, <2>1 DEF NewTopic
  <2>. HIDE DEF n
  <2>4. soon(r.last, r.custom, n)
    BY <1>2, <2>2 DEF soon
  <2>5. NewTopic(o, r, s, at) = [enabled |-> TRUE, custom |-> r.custom, last |-> r.last,
                                 next |-> n, due |-> r.due]
    BY <1>1, <2>3
  <2>. QED
    BY <1>3, <2>4, <2>5
<1>7. CASE o.kind = "disable"
  <2>1. NewTopic(o, r, s, at) = [enabled |-> FALSE, custom |-> r.custom, last |-> r.last,
                                 next |-> r.next, due |-> r.due]
    BY <1>1, <1>7 DEF NewTopic
  <2>. QED
    BY <1>3, <1>4, <1>7, <2>1
<1>8. CASE o.kind = "custom"
  <2>1. s.interval = seconds
    BY <1>8 DEF NeedsSettings
  <2>. DEFINE n == NextBumpAt(r.last, at, EffectiveInterval(seconds, o.seconds))
  <2>2. o.seconds = None => n <= at + seconds
    BY <1>1, <1>2, <1>5 DEF EffectiveInterval
  <2>3. NewTopic(o, r, s, at) = [r EXCEPT !.custom = o.seconds, !.next = n]
    BY <1>8, <2>1 DEF NewTopic
  <2>. HIDE DEF n
  <2>4. soon(r.last, o.seconds, n)
    BY <1>2, <2>2 DEF soon
  <2>5. NewTopic(o, r, s, at) = [enabled |-> r.enabled, custom |-> o.seconds, last |-> r.last,
                                 next |-> n, due |-> r.due]
    BY <1>1, <2>3
  <2>. QED
    BY <1>3, <2>4, <2>5
<1>9. CASE o.kind = "interval"
  <2>. DEFINE n == NextBumpAt(r.last, at, seconds)
  <2>1. n <= at + seconds
    BY <1>1, <1>2, <1>5
  <2>2. NewTopic(o, r, s, at) = [r EXCEPT !.next = n]
    BY <1>9 DEF NewTopic
  <2>. HIDE DEF n
  <2>3. soon(r.last, r.custom, n)
    BY <1>2, <2>1 DEF soon
  <2>4. NewTopic(o, r, s, at) = [enabled |-> r.enabled, custom |-> r.custom, last |-> r.last,
                                 next |-> n, due |-> r.due]
    BY <1>1, <2>2
  <2>. QED
    BY <1>3, <2>3, <2>4
<1>10. CASE o.kind \in {"manual", "record"} /\ o.outcome = "success"
  <2>1. s.interval = seconds
    BY <1>10 DEF NeedsSettings
  <2>. DEFINE n == at + EffectiveInterval(seconds, r.custom)
  <2>2. r.custom = None => n <= at + seconds
    BY DEF EffectiveInterval
  <2>3. NewTopic(o, r, s, at) = [r EXCEPT !.last = at, !.next = n]
    BY <1>10, <2>1 DEF NewTopic, UpdatedTopic
  <2>. HIDE DEF n
  <2>4. soon(at, r.custom, n)
    BY <2>2 DEF soon
  <2>5. NewTopic(o, r, s, at) = [enabled |-> r.enabled, custom |-> r.custom, last |-> at,
                                 next |-> n, due |-> r.due]
    BY <1>1, <2>3
  <2>. QED
    BY <1>3, <2>4, <2>5
<1>11. CASE o.kind = "manual" /\ o.outcome # "success"
  <2>1. NewTopic(o, r, s, at) = [enabled |-> r.enabled, custom |-> r.custom, last |-> r.last,
                                 next |-> r.next, due |-> r.due]
    BY <1>1, <1>11 DEF NewTopic
  <2>. QED
    BY <1>3, <1>4, <1>11, <2>1
<1>12. CASE o.kind = "record" /\ o.outcome = "retry"
  <2>1. RetryDelay(<<RetryWait>>, 0) = RetryWait
    BY DEF RetryDelay
  <2>2. NewTopic(o, r, s, at) = [r EXCEPT !.next = at + RetryWait]
    BY <1>12, <2>1 DEF NewTopic, UpdatedTopic
  <2>3. soon(r.last, r.custom, at + RetryWait)
    BY <1>2 DEF soon
  <2>4. NewTopic(o, r, s, at) = [enabled |-> r.enabled, custom |-> r.custom, last |-> r.last,
                                 next |-> at + RetryWait, due |-> r.due]
    BY <1>1, <2>2
  <2>. QED
    BY <1>3, <2>3, <2>4
<1>13. CASE o.kind = "record" /\ o.outcome \notin {"success", "retry"}
  <2>1. NewTopic(o, r, s, at) = [r EXCEPT !.next = None]
    BY <1>13 DEF NewTopic, UpdatedTopic
  <2>2. soon(r.last, r.custom, None)
    BY <1>2 DEF soon
  <2>3. NewTopic(o, r, s, at) = [enabled |-> r.enabled, custom |-> r.custom, last |-> r.last,
                                 next |-> None, due |-> r.due]
    BY <1>1, <2>1
  <2>. QED
    BY <1>3, <2>2, <2>3
<1>. QED
  BY <1>6, <1>7, <1>8, <1>9, <1>10, <1>11, <1>12, <1>13 DEF Savers

\* An UPDATE that writes no column saves the row that was read.
LEMMA NothingWritten ==
  ASSUME NEW b \in Row, NEW n \in Row, Written(b, n) = {}
  PROVE  n = b
<1>1. \A c \in DOMAIN n : b[c] = n[c]
  BY DEF Written
<1>. QED
  BY <1>1 DEF Row

\* The listing of a new global interval names every topic it has to save.
LEMMA OrdersNameAll ==
  ASSUME NEW S \in SUBSET Topics, NEW order \in SetToSeqs(S)
  PROVE  \A t \in S : \E k \in 1 .. Len(order) : order[k] = t
<1>1. IsFiniteSet(S)
  BY StoreAssumption, FS_Subset DEF StoreAssumption
<1>2. Cardinality(S) \in Nat
  BY <1>1, FS_CardinalityType
<1>. DEFINE n == Cardinality(S)
            R == {order[k] : k \in 1 .. n}
<1>3. order \in [1 .. n -> S] /\ \A i, j \in 1 .. n : i # j => order[i] # order[j]
  BY DEF SetToSeqs
<1>4. R \in SUBSET S
  BY <1>3
<1>5. Cardinality(R) = n
  <2>1. order \in Bijection(1 .. n, R)
    BY <1>3 DEF Bijection, Injection, Surjection, IsInjective
  <2>2. IsFiniteSet(R) /\ ExistsBijection(1 .. n, R)
    BY <1>1, <1>4, <2>1, FS_Subset DEF ExistsBijection
  <2>. QED
    BY <1>2, <2>2, FS_CountingElements
<1>6. R = S
  BY <1>1, <1>4, <1>5, FS_Subset
<1>7. Len(order) = n
  BY <1>2, <1>3
<1>. QED
  BY <1>3, <1>6, <1>7

\* The statements of a new global interval: up to the listing, in its loop, and
\* after it.
Begins(s, step) == s # <<>> /\ s[1] = step
Committing(s) == Begins(s, "commit")
Listing(s) == Begins(s, "list") /\ Committing(Tail(s))
Storing(s) == Begins(s, "writeSettings") /\ Listing(Tail(s))
Loading(s) == Begins(s, "loadSettings") /\ Storing(Tail(s))
Reading(s) == Begins(s, "settings") /\ Loading(Tail(s))
Updating(s) == Begins(s, "write") /\ Committing(Tail(s))
Looping(s) == Begins(s, "load") /\ Updating(Tail(s))

Phase(s, tg) ==
  \/ tg = <<>> /\ (Reading(s) \/ Loading(s) \/ Storing(s) \/ Listing(s) \/ Committing(s))
  \/ tg # <<>> /\ (Looping(s) \/ Updating(s))

LEMMA PhaseSteps ==
  ASSUME NEW s, NEW tg, Phase(s, tg)
  PROVE  /\ s[1] = "settings" => tg = <<>> /\ Loading(Tail(s))
         /\ s[1] = "loadSettings" => tg = <<>> /\ Storing(Tail(s))
         /\ s[1] = "writeSettings" => tg = <<>> /\ Listing(Tail(s))
         /\ s[1] = "list" => Committing(Tail(s))
         /\ s[1] = "load" => tg # <<>> /\ Updating(Tail(s))
         /\ s[1] = "write" => tg # <<>> /\ Committing(Tail(s))
         /\ s[1] = "commit" => tg = <<>>
<1>. USE DEF Phase, Begins
<1>1. CASE Reading(s)
  BY <1>1 DEF Reading, Loading, Storing, Listing, Committing, Looping, Updating
<1>2. CASE Loading(s)
  BY <1>2 DEF Reading, Loading, Storing, Listing, Committing, Looping, Updating
<1>3. CASE Storing(s)
  BY <1>3 DEF Reading, Loading, Storing, Listing, Committing, Looping, Updating
<1>4. CASE Listing(s)
  BY <1>4 DEF Reading, Loading, Storing, Listing, Committing, Looping, Updating
<1>5. CASE Committing(s)
  BY <1>5 DEF Reading, Loading, Storing, Listing, Committing, Looping, Updating
<1>6. CASE Looping(s)
  BY <1>6 DEF Reading, Loading, Storing, Listing, Committing, Looping, Updating
<1>7. CASE Updating(s)
  BY <1>7 DEF Reading, Loading, Storing, Listing, Committing, Looping, Updating
<1>. QED
  BY <1>1, <1>2, <1>3, <1>4, <1>5, <1>6, <1>7

LEMMA IntervalStarts ==
  ASSUME NEW o \in Operations, o.kind = "interval", NEW s, s = Script(o)
  PROVE  Reading(s)
<1>1. s = <<"settings", "loadSettings", "writeSettings", "list", "commit">>
  BY DEF Script
<1>2. Tail(s) = <<"loadSettings", "writeSettings", "list", "commit">>
  BY <1>1
<1>3. \A r : r = <<"loadSettings", "writeSettings", "list", "commit">> =>
               Tail(r) = <<"writeSettings", "list", "commit">>
  OBVIOUS
<1>4. \A r : r = <<"writeSettings", "list", "commit">> => Tail(r) = <<"list", "commit">>
  OBVIOUS
<1>5. \A r : r = <<"list", "commit">> => Tail(r) = <<"commit">>
  OBVIOUS
<1>6. Committing(<<"commit">>)
  BY DEF Committing, Begins
<1>7. \A r : r = <<"list", "commit">> => Listing(r)
  BY <1>5, <1>6 DEF Listing, Begins
<1>8. \A r : r = <<"writeSettings", "list", "commit">> => Storing(r)
  BY <1>4, <1>7 DEF Storing, Begins
<1>9. \A r : r = <<"loadSettings", "writeSettings", "list", "commit">> => Loading(r)
  BY <1>3, <1>8 DEF Loading, Begins
<1>. QED
  BY <1>1, <1>2, <1>9 DEF Reading, Begins

LEMMA LoopStarts ==
  ASSUME NEW s, s = <<"load", "write", "commit">>
  PROVE  Looping(s)
<1>1. Tail(s) = <<"write", "commit">> /\ s[1] = "load" /\ s # <<>>
  OBVIOUS
<1>2. \A r : r = <<"write", "commit">> => Tail(r) = <<"commit">> /\ r[1] = "write" /\ r # <<>>
  OBVIOUS
<1>3. Committing(<<"commit">>)
  BY DEF Committing, Begins
<1>4. \A r : r = <<"write", "commit">> => Updating(r)
  BY <1>2, <1>3 DEF Updating, Begins
<1>. QED
  BY <1>1, <1>4 DEF Looping, Begins

\* The global interval as the session sees it.
Interval(p) == SeenSettings(p).interval

\* No row was bumped in the future.
Times(p) ==
  /\ \A t \in Topics : Timely(SeenRow(p, t), clock) /\ Timely(rec[p][t], clock)
  /\ At(p, "write") => Timely(new[p], clock)

\* Other operations see and leave rows that wait for the interval they have read,
\* and leave the interval.
PlainPlan(p) ==
  op[p] # None /\ op[p].kind # "interval" =>
    /\ cfg[p] # None => cfg[p].interval = Interval(p)
    /\ \A t \in Topics :
         Within(SeenRow(p, t), Interval(p), clock) /\ Within(rec[p][t], Interval(p), clock)
    /\ At(p, "write") => Within(new[p], Interval(p), clock)

\* A new global interval is written first; then the rows listed wait for it as
\* soon as they are saved, and the others do not depend on it.
IntervalPlan(p) ==
  GlobalInterval(op[p]) =>
    /\ script[p] # <<>> => Phase(script[p], target[p])
    /\ At(p, "writeSettings") => base[p].interval = Interval(p)
    /\ At(p, "list") \/ At(p, "load") \/ At(p, "write") \/ At(p, "commit") =>
         Interval(p) = op[p].seconds
    /\ At(p, "load") \/ At(p, "write") \/ At(p, "commit") =>
         \A t \in Topics :
           \/ \E k \in 1 .. Len(target[p]) : target[p][k] = t
           \/ Within(SeenRow(p, t), Interval(p), clock)
    /\ At(p, "write") => Within(new[p], Interval(p), clock)

Plan(p) ==
  /\ Times(p) /\ PlainPlan(p) /\ IntervalPlan(p)
  /\ op[p] = None => cfg[p] = None /\ \A t \in Topics : rec[p][t] = None

RowsServed ==
  \A t \in Topics : Timely(row[t], clock) /\ Within(row[t], settings.interval, clock)

LEMMA SeenTypes ==
  ASSUME SInv, NEW p \in Sessions
  PROVE  /\ \A t \in Topics : SeenRow(p, t) \in Row \cup {None} /\ rec[p][t] \in Row \cup {None}
         /\ SeenSettings(p) \in Settings /\ Interval(p) \in Nat
  BY KeyFacts DEF SeenRow, SeenSettings, Interval, SInv, Stored, Typed, Settings

\* Who has no operation sees what is committed.
LEMMA EndPlan ==
  ASSUME SInv, RowsServed, NEW p \in Sessions, EndSession(p), ReleaseLocks(p),
         UNCHANGED <<row, settings, clock>>
  PROVE  RowsServed' /\ Plan(p)'
<1>1. /\ op'[p] = None /\ cfg'[p] = None /\ script'[p] = <<>>
      /\ \A t \in Topics : rec'[p][t] = None /\ owner'[t] # p
  BY KeyFacts DEF EndSession, ReleaseLocks, SInv, Typed
<1>2. \A t \in Topics : SeenRow(p, t)' = row[t]
  BY <1>1 DEF SeenRow
<1>. QED
  BY <1>1, <1>2 DEF RowsServed, Plan, Times, PlainPlan, IntervalPlan, GlobalInterval, Timely, At

\* What the first statement of a session tells.
LEMMA PlanNow ==
  ASSUME SInv, NEW p \in Sessions, Plan(p), NEW step, At(p, step)
  PROVE  /\ script[p] \in Seq(Steps) /\ script[p] # <<>> /\ script[p][1] = step
         /\ op[p] \in Operations /\ op[p] # None
         /\ \A other : At(p, other) => other = step
         /\ op[p].kind = "interval" => Phase(script[p], target[p])
<1>1. Now(p) /\ script[p][1] = step /\ script[p] # <<>>
  BY NowKnown DEF At
<1>. QED
  BY <1>1, KeyFacts DEF Now, At, Plan, IntervalPlan, GlobalInterval, SInv, Typed

\* A statement of another operation than a new global interval, which leaves the
\* rows that the session sees, or makes them wait for the interval.
LEMMA PlainStep ==
  ASSUME SInv, SInv', NEW p \in Sessions, Plan(p), op[p] # None, op[p].kind # "interval",
         op'[p] = op[p], clock' = clock,
         Interval(p)' = Interval(p),
         cfg'[p] = cfg[p] \/ cfg'[p] = SeenSettings(p),
         \A t \in Topics :
           \/ SeenRow(p, t)' = SeenRow(p, t)
           \/ Timely(SeenRow(p, t)', clock) /\ Within(SeenRow(p, t)', Interval(p), clock),
         \A t \in Topics : rec'[p][t] \in {rec[p][t], SeenRow(p, t), None},
         At(p, "write")' => Timely(new'[p], clock) /\ Within(new'[p], Interval(p), clock)
  PROVE  Plan(p)'
<1>1. Times(p)'
  BY DEF Plan, Times, Timely
<1>2. cfg'[p] # None => cfg'[p].interval = Interval(p)
  BY DEF Plan, PlainPlan, Interval
<1>3. PlainPlan(p)'
  BY <1>2 DEF Plan, PlainPlan, Within
<1>4. IntervalPlan(p)'
  BY DEF IntervalPlan, GlobalInterval
<1>. QED
  BY <1>1, <1>3, <1>4 DEF Plan

LEMMA CommitPlan ==
  ASSUME SInv, NEW p \in Sessions, Plan(p), Publish(p), clock' = clock,
         op[p] # None, op[p].kind # "interval" \/ At(p, "commit")
  PROVE  RowsServed'
<1>1. \A t \in Topics : row'[t] = SeenRow(p, t) /\ settings' = SeenSettings(p)
  BY DEF Publish
<1>2. ASSUME NEW t \in Topics PROVE Within(SeenRow(p, t), Interval(p), clock)
  <2>1. CASE op[p].kind # "interval"
    BY <2>1 DEF Plan, PlainPlan
  <2>2. CASE op[p].kind = "interval"
    <3>1. At(p, "commit")
      BY <2>2
    <3>2. script[p][1] = "commit" /\ Phase(script[p], target[p])
      BY <2>2, <3>1, PlanNow
    <3>3. target[p] = <<>>
      BY <3>2, PhaseSteps
    <3>4. ~ \E k \in 1 .. Len(target[p]) : target[p][k] = t
      BY <3>3
    <3>. QED
      BY <2>2, <3>1, <3>4 DEF Plan, IntervalPlan, GlobalInterval
  <2>. QED
    BY <2>1, <2>2
<1>. QED
  BY <1>1, <1>2 DEF RowsServed, Plan, Times, Interval

LEMMA StartPlan ==
  ASSUME SInv, SInv', RowsServed, NEW p \in Sessions, Plan(p), Start(p)
  PROVE  RowsServed' /\ Plan(p)'
<1>1. PICK o \in Operations :
        /\ op'[p] = o /\ script'[p] = Script(o)
        /\ target'[p] = IF OnTopic(o) THEN <<o.topic>> ELSE <<>>
  BY DEF Start, SInv, Typed
<1>2. op[p] = None /\ UNCHANGED <<row, settings, clock, owner, draft, rec, cfg>>
  BY DEF Start
<1>3. \A k \in Keys : owner[k] # p
  BY <1>2 DEF SInv, Owned
<1>4. /\ \A t \in Topics : SeenRow(p, t)' = row[t]
      /\ Interval(p)' = settings.interval
  BY <1>2, <1>3, KeyFacts DEF SeenRow, Interval, SeenSettings
<1>5. cfg'[p] = None /\ \A t \in Topics : rec'[p][t] = None
  BY <1>2 DEF Plan
<1>6. ~At(p, "write")'
  BY <1>1, ScriptFresh DEF Fresh, At
<1>7. RowsServed'
  BY <1>2 DEF RowsServed
<1>8. Times(p)' /\ PlainPlan(p)'
  BY <1>2, <1>4, <1>5, <1>6 DEF RowsServed, Times, PlainPlan, Timely, Within
<1>9. IntervalPlan(p)'
  <2>1. SUFFICES ASSUME o.kind = "interval" PROVE IntervalPlan(p)'
    BY <1>1 DEF IntervalPlan, GlobalInterval
  <2>2. Reading(script'[p])
    BY <1>1, <2>1, IntervalStarts
  <2>3. \A step : At(p, step)' => step = "settings"
    BY <2>2 DEF Reading, Begins, At, SInv, Typed
  <2>4. target'[p] = <<>>
    BY <1>1, <2>1 DEF OnTopic
  <2>. QED
    BY <2>2, <2>3, <2>4 DEF IntervalPlan, Phase
<1>10. op'[p] # None
  BY <1>1, KeyFacts
<1>. QED
  BY <1>7, <1>8, <1>9, <1>10 DEF Plan

\* Statements before the listing, and the listing: the rows stay as they are.
LEMMA IntervalStep ==
  ASSUME SInv, SInv', NEW p \in Sessions, Plan(p), op[p] # None, op[p].kind = "interval",
         op'[p] = op[p], clock' = clock,
         \A t \in Topics :
           SeenRow(p, t)' = SeenRow(p, t) /\ rec'[p][t] \in {rec[p][t], SeenRow(p, t), None},
         NEW step, Begins(script'[p], step), Phase(script'[p], target'[p]),
         step \in {"loadSettings", "writeSettings", "list", "load", "commit"},
         step = "writeSettings" => base'[p].interval = Interval(p)',
         step \in {"list", "load", "commit"} => Interval(p)' = op[p].seconds,
         step \in {"load", "commit"} =>
           \A t \in Topics : \/ \E k \in 1 .. Len(target'[p]) : target'[p][k] = t
                             \/ Within(SeenRow(p, t), Interval(p)', clock)
  PROVE  Plan(p)'
<1>1. \A other : At(p, other)' => other = step
  BY DEF At, Begins, SInv, Typed
<1>2. Times(p)'
  BY <1>1 DEF Plan, Times, Timely
<1>3. IntervalPlan(p)'
  BY <1>1 DEF IntervalPlan, GlobalInterval
<1>. QED
  BY <1>2, <1>3 DEF Plan, PlainPlan

LEMMA ReadSettingsPlan ==
  ASSUME SInv, SInv', NEW p \in Sessions, Plan(p), ReadSettings(p)
  PROVE  Plan(p)'
<1>1. At(p, "settings") /\ script[p][1] = "settings" /\ op[p] # None
      /\ (op[p].kind = "interval" => Phase(script[p], target[p]))
  BY PlanNow DEF ReadSettings
<1>2. /\ cfg'[p] = SeenSettings(p) /\ UNCHANGED <<op, clock, rec, target>>
      /\ op[p].kind # "unpause" => script'[p] = Tail(script[p])
  BY DEF ReadSettings, SInv, Typed
<1>3. Interval(p)' = Interval(p) /\ \A t \in Topics : SeenRow(p, t)' = SeenRow(p, t)
  BY DEF ReadSettings, storeVars, Interval, SeenSettings, SeenRow
<1>4. CASE op[p].kind # "interval"
  <2>1. ~At(p, "write")'
    <3>1. script'[p] \in {Tail(script[p]), <<"commit">>}
      BY DEF ReadSettings, SInv, Typed
    <3>2. ASSUME NEW s, s = script'[p] PROVE s # <<>> => Head(s) # "write"
      BY <1>1, <3>1, <3>2, NotWriting
    <3>. QED
      BY <3>2 DEF At
  <2>. QED
    BY <1>1, <1>2, <1>3, <1>4, <2>1, PlainStep
<1>5. CASE op[p].kind = "interval"
  <2>1. target'[p] = <<>> /\ Loading(script'[p])
    BY <1>1, <1>2, <1>5, PhaseSteps
  <2>2. Begins(script'[p], "loadSettings") /\ Phase(script'[p], target'[p])
    BY <2>1 DEF Loading, Phase
  <2>. QED
    BY <1>1, <1>2, <1>3, <1>5, <2>2, IntervalStep
<1>. QED
  BY <1>4, <1>5

LEMMA LoadSettingsPlan ==
  ASSUME SInv, SInv', Unraced, NEW p \in Sessions, Plan(p), LoadSettings(p)
  PROVE  Plan(p)'
<1>1. At(p, "loadSettings") /\ script[p][1] = "loadSettings" /\ op[p] # None
      /\ (op[p].kind = "interval" => Phase(script[p], target[p]))
  BY PlanNow DEF LoadSettings
<1>2. /\ UNCHANGED <<op, clock, rec, target, cfg>> /\ base'[p] = SeenSettings(p)
      /\ script'[p] = Tail(script[p])
  BY DEF LoadSettings, Continue, SInv, Typed, Unraced
<1>3. Interval(p)' = Interval(p) /\ \A t \in Topics : SeenRow(p, t)' = SeenRow(p, t)
  BY DEF LoadSettings, storeVars, Interval, SeenSettings, SeenRow
<1>4. CASE op[p].kind # "interval"
  <2>1. ~At(p, "write")'
    <3>1. ASSUME NEW s, s = script'[p] PROVE s # <<>> => Head(s) # "write"
      BY <1>1, <1>2, <3>1, NotWriting
    <3>. QED
      BY <3>1 DEF At
  <2>. QED
    BY <1>1, <1>2, <1>3, <1>4, <2>1, PlainStep
<1>5. CASE op[p].kind = "interval"
  <2>1. target'[p] = <<>> /\ Storing(script'[p])
    BY <1>1, <1>2, <1>5, PhaseSteps
  <2>2. Begins(script'[p], "writeSettings") /\ Phase(script'[p], target'[p])
    BY <2>1 DEF Storing, Phase
  <2>3. base'[p].interval = Interval(p)'
    BY <1>2, <1>3 DEF Interval
  <2>. QED
    BY <1>1, <1>2, <1>3, <1>5, <2>2, <2>3, IntervalStep
<1>. QED
  BY <1>4, <1>5

LEMMA WriteSettingsPlan ==
  ASSUME SInv, SInv', NEW p \in Sessions, Plan(p), WriteSettings(p)
  PROVE  Plan(p)'
<1>1. At(p, "writeSettings") /\ script[p][1] = "writeSettings" /\ op[p] # None
      /\ op[p] \in Operations
      /\ (op[p].kind = "interval" => Phase(script[p], target[p]))
  BY PlanNow DEF WriteSettings
<1>2. /\ UNCHANGED <<op, clock, rec, target, cfg, row>> /\ script'[p] = Tail(script[p])
      /\ cfg[p] \in Settings /\ new[p] = NewSettings(op[p], cfg[p])
  BY <1>1 DEF WriteSettings, Continue, SInv, Typed, Sane
<1>3. \A t \in Topics : SeenRow(p, t)' = SeenRow(p, t)
  <2>1. \A t \in Topics : owner'[t] = owner[t] /\ draft'[t] = draft[t]
    BY KeyFacts DEF WriteSettings, SInv, Stored
  <2>. QED
    BY <1>2, <2>1 DEF SeenRow
<1>4. \/ Interval(p)' = Interval(p) /\ new[p].interval = base[p].interval
      \/ Interval(p)' = Interval(p) /\ owner' = owner /\ draft' = draft
           /\ WrittenSettings(base[p], new[p]) = {}
      \/ Interval(p)' = new[p].interval
  <2>1. CASE WrittenSettings(base[p], new[p]) = {}
    BY <2>1 DEF WriteSettings, Interval, SeenSettings
  <2>2. CASE WrittenSettings(base[p], new[p]) # {}
    <3>. DEFINE W == WrittenSettings(base[p], new[p])
    <3>1. /\ owner'[SettingsKey] = p
          /\ draft'[SettingsKey] = [c \in DOMAIN settings |->
                                      IF c \in W THEN new[p][c] ELSE SeenSettings(p)[c]]
      BY <2>2, KeyFacts DEF WriteSettings, SInv, Stored
    <3>2. "interval" \in DOMAIN settings /\ new[p] \in Settings
      BY <1>1, <1>2, NewSettingsKept DEF SInv, Stored, Settings
    <3>3. "interval" \notin W => base[p].interval = new[p].interval
      BY <3>2 DEF WrittenSettings, Settings
    <3>. HIDE DEF W
    <3>4. Interval(p)' = IF "interval" \in W THEN new[p].interval ELSE SeenSettings(p).interval
      BY <3>1, <3>2 DEF Interval, SeenSettings
    <3>. QED
      BY <3>3, <3>4 DEF Interval
  <2>. QED
    BY <2>1, <2>2
<1>5. CASE op[p].kind # "interval"
  <2>1. new[p].interval = cfg[p].interval
    BY <1>2, <1>5 DEF NewSettings, Settings
  <2>2. cfg[p] # None
    BY <1>2, NoneAssumption
  <2>3. Interval(p)' = Interval(p)
    BY <1>1, <1>4, <1>5, <2>1, <2>2 DEF Plan, PlainPlan
  <2>4. ~At(p, "write")'
    <3>1. ASSUME NEW s, s = script'[p] PROVE s # <<>> => Head(s) # "write"
      BY <1>1, <1>2, <3>1, NotWriting
    <3>. QED
      BY <3>1 DEF At
  <2>. QED
    BY <1>1, <1>2, <1>3, <1>5, <2>3, <2>4, PlainStep
<1>6. CASE op[p].kind = "interval"
  <2>1. new[p] \in Settings
    BY <1>1, <1>2, NewSettingsKept
  <2>2. new[p].interval = op[p].seconds
    BY <1>2, <1>6 DEF NewSettings, Settings
  <2>3. base[p].interval = Interval(p)
    BY <1>1, <1>6 DEF Plan, IntervalPlan, GlobalInterval
  <2>4. WrittenSettings(base[p], new[p]) = {} => new[p].interval = base[p].interval
    BY <2>1 DEF WrittenSettings, Settings
  <2>5. Interval(p)' = op[p].seconds
    BY <1>4, <2>2, <2>3, <2>4
  <2>6. target'[p] = <<>> /\ Listing(script'[p])
    BY <1>1, <1>2, <1>6, PhaseSteps
  <2>7. Begins(script'[p], "list") /\ Phase(script'[p], target'[p])
    BY <2>6 DEF Listing, Phase
  <2>. QED
    BY <1>1, <1>2, <1>3, <1>6, <2>5, <2>7, IntervalStep
<1>. QED
  BY <1>5, <1>6

LEMMA ListTopicsPlan ==
  ASSUME SInv, SInv', NEW p \in Sessions, Plan(p), ListTopics(p)
  PROVE  Plan(p)'
<1>. DEFINE chosen == {t \in {u \in Topics : SeenRow(p, u) # None} :
                         SeenRow(p, t).custom = None}
<1>1. /\ At(p, "list") /\ script[p][1] = "list" /\ op[p] # None /\ op[p].kind = "interval"
      /\ Phase(script[p], target[p])
  <2>1. At(p, "list") /\ script[p][1] = "list" /\ op[p] # None
        /\ (op[p].kind = "interval" => Phase(script[p], target[p]))
    BY PlanNow DEF ListTopics
  <2>. QED
    BY <2>1, NowKnown, ReadyNow DEF Now, SInv, Sane
<1>2. PICK order \in SetToSeqs(chosen) : target' = [target EXCEPT ![p] = order]
  BY DEF ListTopics
<1>3. /\ target'[p] = order /\ UNCHANGED <<op, clock, cfg>>
      /\ script'[p] = IF chosen = {} THEN Tail(script[p]) ELSE <<"load", "write", "commit">>
      /\ \A t \in Topics : rec'[p][t] \in {SeenRow(p, t), None}
  BY <1>2 DEF ListTopics, SInv, Typed
<1>4. Interval(p)' = Interval(p) /\ \A t \in Topics : SeenRow(p, t)' = SeenRow(p, t)
  BY DEF ListTopics, storeVars, Interval, SeenSettings, SeenRow
<1>5. chosen \in SUBSET Topics
  OBVIOUS
<1>6. \A t \in Topics \ chosen : Within(SeenRow(p, t), Interval(p), clock)
  BY DEF Within
<1>. HIDE DEF chosen
<1>7. /\ chosen # {} => order # <<>>
      /\ chosen = {} => order = <<>>
      /\ \A t \in chosen : \E k \in 1 .. Len(order) : order[k] = t
  <2>1. order \in Seq(Topics) /\ (chosen # {} => order # <<>>)
        /\ \A k \in 1 .. Len(order) : order[k] \in chosen
    BY <1>2, <1>5, OrdersAreSequences
  <2>2. chosen = {} => order = <<>>
    BY <2>1
  <2>3. \A t \in chosen : \E k \in 1 .. Len(order) : order[k] = t
    BY <1>2, <1>5, OrdersNameAll
  <2>. QED
    BY <2>1, <2>2, <2>3
<1>8. Interval(p) = op[p].seconds
  BY <1>1 DEF Plan, IntervalPlan, GlobalInterval
<1>9. PICK step \in {"load", "commit"} :
         Begins(script'[p], step) /\ Phase(script'[p], target'[p])
  <2>1. CASE chosen = {}
    <3>1. Committing(script'[p])
      BY <1>1, <1>3, <2>1, PhaseSteps
    <3>. QED
      BY <1>3, <1>7, <2>1, <3>1 DEF Committing, Phase
  <2>2. CASE chosen # {}
    <3>1. Looping(script'[p])
      BY <1>3, <2>2, LoopStarts
    <3>. QED
      BY <1>3, <1>7, <2>2, <3>1 DEF Looping, Phase
  <2>. QED
    BY <2>1, <2>2
<1>10. \A t \in Topics : \/ \E k \in 1 .. Len(target'[p]) : target'[p][k] = t
                         \/ Within(SeenRow(p, t), Interval(p)', clock)
  BY <1>3, <1>4, <1>6, <1>7
<1>. QED
  BY <1>1, <1>3, <1>4, <1>8, <1>9, <1>10, IntervalStep

LEMMA LoadTopicPlan ==
  ASSUME SInv, SInv', NEW p \in Sessions, Plan(p), LoadTopic(p), ~Rollback(p)
  PROVE  Plan(p)'
<1>. DEFINE r == rec[p][Head(target[p])]
            saved(due) == [NewTopic(op[p], r, cfg[p], clock) EXCEPT !.due = due]
<1>1. /\ At(p, "load") /\ script[p][1] = "load" /\ op[p] \in Operations /\ op[p] # None
      /\ (op[p].kind = "interval" => Phase(script[p], target[p]))
  BY PlanNow DEF LoadTopic
<1>2. /\ UNCHANGED <<op, rec, cfg, target, clock>> /\ script'[p] = Tail(script[p])
      /\ new'[p] = saved(DueAt(NewTopic(op[p], r, cfg[p], clock)))
  BY DEF LoadTopic, Continue, SInv, Typed
<1>3. Interval(p)' = Interval(p) /\ \A t \in Topics : SeenRow(p, t)' = SeenRow(p, t)
  BY DEF LoadTopic, storeVars, Interval, SeenSettings, SeenRow
<1>4. /\ op[p].kind \in Savers /\ (NeedsSettings(op[p]) => cfg[p] \in Settings)
      /\ Head(target[p]) \in Topics /\ r \in Row
  <2>1. /\ Now(p) /\ target[p] # <<>> /\ target[p] \in Seq(Topics)
        /\ op[p].kind \in Savers /\ (NeedsSettings(op[p]) => cfg[p] \in Settings)
        /\ \A k \in 1 .. Len(target[p]) : rec[p][target[p][k]] \in Row
    BY <1>1, NowKnown, ReadyNow DEF Now, Sane, Saving, SInv, Typed
  <2>2. 1 \in 1 .. Len(target[p])
    BY <2>1
  <2>. QED
    BY <2>1, <2>2 DEF Now
<1>5. Timely(r, clock) /\ clock \in Nat /\ Interval(p) \in Nat
  BY <1>4, SeenTypes DEF Plan, Times, SInv, Stored
<1>6. CASE op[p].kind # "interval"
  <2>1. Within(r, Interval(p), clock)
    BY <1>1, <1>4, <1>6 DEF Plan, PlainPlan
  <2>2. NeedsSettings(op[p]) => cfg[p] \in Settings /\ cfg[p].interval = Interval(p)
    BY <1>1, <1>4, <1>6, NoneAssumption DEF Plan, PlainPlan
  <2>3. \A due : Timely(saved(due), clock) /\ Within(saved(due), Interval(p), clock)
    <3>. HIDE DEF r
    <3>. QED
      BY <1>1, <1>4, <1>5, <1>6, <2>1, <2>2, NewTopicWithin
  <2>. HIDE DEF saved
  <2>. QED
    BY <1>1, <1>2, <1>3, <1>6, <2>3, PlainStep
<1>7. CASE op[p].kind = "interval"
  <2>1. target[p] # <<>> /\ Updating(script'[p])
    BY <1>1, <1>2, <1>7, PhaseSteps
  <2>2. Interval(p) = op[p].seconds
    BY <1>1, <1>7 DEF Plan, IntervalPlan, GlobalInterval
  <2>3. ~NeedsSettings(op[p])
    BY <1>7 DEF NeedsSettings
  <2>4. \A due : Timely(saved(due), clock) /\ Within(saved(due), Interval(p), clock)
    <3>. HIDE DEF r
    <3>. QED
      BY <1>1, <1>4, <1>5, <1>7, <2>2, <2>3, NewTopicWithin
  <2>. HIDE DEF saved
  <2>5. \A other : At(p, other)' => other = "write"
    BY <2>1 DEF Updating, Begins, At, SInv, Typed
  <2>6. Times(p)'
    BY <1>2, <1>3, <2>4 DEF Plan, Times
  <2>7. \A t \in Topics : \/ \E k \in 1 .. Len(target'[p]) : target'[p][k] = t
                          \/ Within(SeenRow(p, t)', Interval(p)', clock')
    BY <1>1, <1>2, <1>3, <1>7 DEF Plan, IntervalPlan, GlobalInterval
  <2>8. Phase(script'[p], target'[p])
    BY <1>2, <2>1 DEF Phase
  <2>9. IntervalPlan(p)'
    BY <1>2, <1>3, <2>2, <2>4, <2>5, <2>7, <2>8 DEF IntervalPlan
  <2>. QED
    BY <1>1, <1>2, <1>7, <2>6, <2>9 DEF Plan, PlainPlan
<1>. QED
  BY <1>6, <1>7

LEMMA WriteTopicPlan ==
  ASSUME SInv, SInv', Unraced, NEW p \in Sessions, Plan(p), WriteTopic(p), ~Rollback(p)
  PROVE  Plan(p)'
<1>. DEFINE t == Head(target[p])
<1>1. /\ At(p, "write") /\ script[p][1] = "write" /\ op[p] # None
      /\ (op[p].kind = "interval" => Phase(script[p], target[p]))
  BY PlanNow DEF WriteTopic
<1>2. t \in Topics /\ target[p] \in Seq(Topics) /\ target[p] # <<>>
  BY <1>1, NowKnown, ReadyNow DEF Now, Sane, Saving, SInv, Typed
<1>3. /\ UNCHANGED <<op, rec, cfg, clock, row, settings>> /\ target'[p] = Tail(target[p])
      /\ script'[p] = IF Len(target[p]) > 1 THEN <<"load", "write", "commit">>
                      ELSE Tail(script[p])
      /\ SeenRow(p, t) # None
  BY DEF WriteTopic, SInv, Typed
<1>4. base[p] = SeenRow(p, t) /\ new[p] \in Row /\ base[p] \in Row
  BY <1>1, <1>2, <1>3, SeenTypes DEF Unraced, Current, SInv, Sane
<1>5. \A u \in Topics : SeenRow(p, u)' = IF u = t THEN new[p] ELSE SeenRow(p, u)
  <2>1. CASE Written(base[p], new[p]) = {}
    <3>1. new[p] = SeenRow(p, t)
      BY <1>4, <2>1, NothingWritten
    <3>2. \A u \in Topics : SeenRow(p, u)' = SeenRow(p, u)
      BY <1>3, <2>1 DEF WriteTopic, SeenRow
    <3>. QED
      BY <3>1, <3>2
  <2>2. CASE Written(base[p], new[p]) # {}
    <3>1. Applied(SeenRow(p, t), base[p], new[p]) = new[p]
      BY <1>4, AppliedUnraced
    <3>2. /\ owner' = [owner EXCEPT ![t] = p]
          /\ draft' = [draft EXCEPT ![t] = new[p]]
      BY <2>2, <3>1 DEF WriteTopic
    <3>. HIDE DEF t
    <3>3. \A u \in Topics : /\ owner'[u] = IF u = t THEN p ELSE owner[u]
                            /\ draft'[u] = IF u = t THEN new[p] ELSE draft[u]
      BY <1>2, <3>2, KeyFacts DEF SInv, Stored
    <3>. QED
      BY <1>3, <3>3 DEF SeenRow
  <2>. QED
    BY <2>1, <2>2
<1>6. Interval(p)' = Interval(p)
  <2>1. owner'[SettingsKey] = owner[SettingsKey] /\ draft'[SettingsKey] = draft[SettingsKey]
    BY <1>2, KeyFacts DEF WriteTopic, SInv, Stored
  <2>. QED
    BY <1>3, <2>1 DEF Interval, SeenSettings
<1>7. Timely(new[p], clock)
  BY <1>1 DEF Plan, Times
<1>. HIDE DEF t
<1>8. CASE op[p].kind # "interval"
  <2>1. Within(new[p], Interval(p), clock)
    BY <1>1, <1>8 DEF Plan, PlainPlan
  <2>2. ~At(p, "write")'
    <3>1. ASSUME NEW s, s = script'[p] PROVE s # <<>> => Head(s) # "write"
      BY <1>1, <1>3, <3>1, NotWriting
    <3>. QED
      BY <3>1 DEF At
  <2>. QED
    BY <1>1, <1>3, <1>5, <1>6, <1>7, <1>8, <2>1, <2>2, PlainStep
<1>9. CASE op[p].kind = "interval"
  <2>1. /\ Interval(p) = op[p].seconds /\ Within(new[p], Interval(p), clock)
        /\ \A u \in Topics : \/ \E k \in 1 .. Len(target[p]) : target[p][k] = u
                             \/ Within(SeenRow(p, u), Interval(p), clock)
    BY <1>1, <1>9 DEF Plan, IntervalPlan, GlobalInterval
  <2>2. \A u \in Topics : \/ \E k \in 1 .. Len(target'[p]) : target'[p][k] = u
                          \/ Within(SeenRow(p, u)', Interval(p), clock)
    <3>1. ASSUME NEW u \in Topics, NEW k \in 1 .. Len(target[p]), target[p][k] = u, u # t
          PROVE  \E j \in 1 .. Len(Tail(target[p])) : Tail(target[p])[j] = u
      <4>1. k # 1
        BY <1>2, <3>1 DEF t
      <4>2. k - 1 \in 1 .. Len(Tail(target[p])) /\ Tail(target[p])[k - 1] = u
        BY <1>2, <3>1, <4>1
      <4>. QED
        BY <4>2
    <3>. QED
      BY <1>3, <1>5, <2>1, <3>1
  <2>3. PICK step \in {"load", "commit"} :
          Begins(script'[p], step) /\ Phase(script'[p], target'[p])
    <3>1. CASE Len(target[p]) > 1
      <4>1. Looping(script'[p]) /\ target'[p] # <<>>
        BY <1>2, <1>3, <3>1, LoopStarts, LongerTail
      <4>. QED
        BY <4>1 DEF Looping, Phase
    <3>2. CASE ~(Len(target[p]) > 1)
      <4>1. Committing(script'[p])
        BY <1>1, <1>3, <1>9, <3>2, PhaseSteps
      <4>2. target'[p] = <<>>
        BY <1>2, <1>3, <3>2
      <4>. QED
        BY <4>1, <4>2 DEF Committing, Phase
    <3>. QED
      BY <3>1, <3>2
  <2>4. \A other : At(p, other)' => other = step
    BY <2>3 DEF At, Begins, SInv, Typed
  <2>5. Times(p)'
    BY <1>3, <1>5, <1>7, <2>4 DEF Plan, Times
  <2>6. IntervalPlan(p)'
    BY <1>3, <1>6, <2>1, <2>2, <2>3, <2>4 DEF IntervalPlan
  <2>. QED
    BY <1>1, <1>3, <1>9, <2>5, <2>6 DEF Plan, PlainPlan
<1>. QED
  BY <1>8, <1>9

LEMMA TickServed ==
  ASSUME SInv, RowsServed, Tick \/ UNCHANGED vars
  PROVE  RowsServed'
<1>1. /\ UNCHANGED <<row, settings>>
      /\ clock \in Nat /\ clock' \in Nat /\ clock <= clock'
  BY DEF Tick, vars, storeVars, SInv, Stored
<1>2. /\ \A t \in Topics : row[t] \in Row \cup {None}
      /\ settings.interval \in Nat
  BY DEF SInv, Stored, Settings
<1>3. \A t \in Topics : /\ Timely(row[t], clock) => Timely(row[t], clock')
                        /\ Within(row[t], settings.interval, clock)
                             => Within(row[t], settings.interval, clock')
  BY <1>1, <1>2, RowLater
<1>. QED
  BY <1>1, <1>3 DEF RowsServed

LEMMA TickPlan ==
  ASSUME SInv, NEW p \in Sessions, Plan(p), Tick \/ UNCHANGED vars
  PROVE  Plan(p)'
<1>1. /\ UNCHANGED <<storeVars, sessionVars>>
      /\ clock \in Nat /\ clock' \in Nat /\ clock <= clock'
  BY DEF Tick, vars, SInv, Stored
<1>2. /\ \A t \in Topics : SeenRow(p, t)' = SeenRow(p, t) /\ rec'[p][t] = rec[p][t]
      /\ Interval(p)' = Interval(p) /\ \A step : At(p, step)' <=> At(p, step)
  BY <1>1 DEF storeVars, sessionVars, SeenRow, Interval, SeenSettings, At
<1>3. ASSUME NEW r \in Row \cup {None}, NEW seconds \in Nat
      PROVE  /\ Timely(r, clock) => Timely(r, clock')
             /\ Within(r, seconds, clock) => Within(r, seconds, clock')
  BY <1>1, <1>3, RowLater
<1>4. /\ \A t \in Topics : SeenRow(p, t) \in Row \cup {None} /\ rec[p][t] \in Row \cup {None}
      /\ Interval(p) \in Nat /\ (At(p, "write") => new[p] \in Row)
  BY SeenTypes DEF SInv, Sane
<1>5. Times(p)'
  BY <1>1, <1>2, <1>3, <1>4 DEF Plan, Times, sessionVars
<1>6. PlainPlan(p)'
  <2>1. UNCHANGED <<op, cfg, new>>
    BY <1>1 DEF sessionVars
  <2>. QED
    BY <1>2, <1>3, <1>4, <2>1 DEF Plan, PlainPlan
<1>7. IntervalPlan(p)'
  <2>1. UNCHANGED <<op, script, target, base, new>>
    BY <1>1 DEF sessionVars
  <2>. QED
    BY <1>2, <1>3, <1>4, <2>1 DEF Plan, IntervalPlan
<1>. QED
  BY <1>1, <1>2, <1>5, <1>6, <1>7 DEF Plan, sessionVars

LEMMA PlanNext ==
  ASSUME Serial, SInv, SInv', Unraced, RowsServed, \A p \in Sessions : Plan(p), [Next]_vars
  PROVE  RowsServed' /\ \A p \in Sessions : Plan(p)'
<1>1. ASSUME NEW p \in Sessions, RowsServed' /\ Plan(p)'
      PROVE  RowsServed' /\ \A q \in Sessions : Plan(q)'
  BY <1>1 DEF Serial
<1>2. UNCHANGED <<row, settings, clock>> => RowsServed'
  BY DEF RowsServed
<1>3. ASSUME NEW p \in Sessions, Rollback(p) PROVE RowsServed' /\ Plan(p)'
  BY <1>3, EndPlan DEF Rollback
<1>4. ASSUME NEW p \in Sessions, NEW step, At(p, step), step # "load", Continue(p)
      PROVE  ~At(p, "write")'
  <2>1. script'[p] = Tail(script[p])
    BY <1>4 DEF Continue, SInv, Typed
  <2>2. ASSUME NEW s, s = script'[p] PROVE s # <<>> => Head(s) # "write"
    BY <1>4, <2>1, <2>2, NotWriting
  <2>. QED
    BY <2>2 DEF At
<1>5. ASSUME NEW p \in Sessions, ReadTopic(p) PROVE RowsServed' /\ Plan(p)'
  <2>1. CASE Rollback(p)
    BY <1>3, <2>1
  <2>2. CASE ~Rollback(p)
    <3>1. op[p].topic \in Topics /\ op[p] # None /\ OnTopic(op[p])
      BY <1>5, NowKnown, ReadyNow, KeyFacts DEF ReadTopic, Now, SInv, Sane
    <3>2. /\ rec' = [rec EXCEPT ![p][op[p].topic] = SeenRow(p, op[p].topic)]
          /\ UNCHANGED <<op, cfg, clock, row, settings, owner, draft>> /\ ~At(p, "write")'
      BY <1>4, <1>5, <2>2 DEF ReadTopic, storeVars
    <3>3. \A t \in Topics : rec'[p][t] \in {rec[p][t], SeenRow(p, t), None}
      BY <3>1, <3>2 DEF SInv, Typed
    <3>4. Interval(p)' = Interval(p) /\ \A t \in Topics : SeenRow(p, t)' = SeenRow(p, t)
      BY <3>2 DEF SeenRow, Interval, SeenSettings
    <3>5. op[p].kind # "interval"
      BY <3>1 DEF OnTopic
    <3>6. Plan(p)'
      BY <3>1, <3>2, <3>3, <3>4, <3>5, PlainStep
    <3>. QED
      BY <1>2, <3>2, <3>6
  <2>. QED
    BY <2>1, <2>2
<1>6. ASSUME NEW p \in Sessions, ReadSettings(p) PROVE RowsServed' /\ Plan(p)'
  BY <1>2, <1>6, ReadSettingsPlan DEF ReadSettings, storeVars
<1>7. ASSUME NEW p \in Sessions, CommitAndWait(p) PROVE RowsServed' /\ Plan(p)'
  <2>1. PICK step \in {"forum", "notify"} : At(p, step)
    BY <1>7 DEF CommitAndWait
  <2>2. op[p] # None /\ op[p].kind # "interval"
    BY <2>1, NowKnown, ReadyNow, KeyFacts DEF Now, SInv, Sane
  <2>3. /\ \A t \in Topics : row'[t] = SeenRow(p, t) /\ owner'[t] # p
        /\ settings' = SeenSettings(p) /\ owner'[SettingsKey] # p
        /\ UNCHANGED <<op, rec, cfg, clock>> /\ ~At(p, "write")'
    BY <1>4, <1>7, <2>1, KeyFacts DEF CommitAndWait, Publish, ReleaseLocks
  <2>4. Interval(p)' = Interval(p) /\ \A t \in Topics : SeenRow(p, t)' = SeenRow(p, t)
    BY <2>3 DEF SeenRow, Interval, SeenSettings
  <2>5. RowsServed'
    BY <1>7, <2>2, <2>3, CommitPlan DEF CommitAndWait
  <2>6. Plan(p)'
    BY <2>2, <2>3, <2>4, PlainStep
  <2>. QED
    BY <2>5, <2>6
<1>8. ASSUME NEW p \in Sessions, InsertTopic(p) PROVE RowsServed' /\ Plan(p)'
  <2>. DEFINE t == op[p].topic
              r == NewRow(clock + EffectiveInterval(cfg[p].interval, None))
  <2>1. op[p] # None /\ op[p].kind = "add" /\ t \in Topics /\ cfg[p] \in Settings
    BY <1>8, NowKnown, ReadyNow, KeyFacts DEF InsertTopic, Now, SInv, Sane
  <2>2. cfg[p].interval = Interval(p) /\ cfg[p].interval \in Nat /\ clock \in Nat
    BY <2>1, NoneAssumption DEF Plan, PlainPlan, Settings, SInv, Stored
  <2>3. Timely(r, clock) /\ Within(r, Interval(p), clock)
    BY <2>2, NewRowWithin
  <2>4. /\ owner' = [owner EXCEPT ![t] = p] /\ draft' = [draft EXCEPT ![t] = r]
        /\ UNCHANGED <<op, cfg, rec, clock, row, settings>> /\ ~At(p, "write")'
    BY <1>4, <1>8 DEF InsertTopic
  <2>. HIDE DEF t, r
  <2>5. \A u \in Topics : SeenRow(p, u)' = IF u = t THEN r ELSE SeenRow(p, u)
    <3>1. \A u \in Topics : /\ owner'[u] = IF u = t THEN p ELSE owner[u]
                            /\ draft'[u] = IF u = t THEN r ELSE draft[u]
      BY <2>1, <2>4, KeyFacts DEF SInv, Stored
    <3>. QED
      BY <2>4, <3>1 DEF SeenRow
  <2>6. Interval(p)' = Interval(p)
    <3>1. owner'[SettingsKey] = owner[SettingsKey] /\ draft'[SettingsKey] = draft[SettingsKey]
      BY <2>1, <2>4, KeyFacts DEF SInv, Stored
    <3>. QED
      BY <2>4, <3>1 DEF Interval, SeenSettings
  <2>7. Plan(p)'
    BY <2>1, <2>3, <2>4, <2>5, <2>6, PlainStep
  <2>. QED
    BY <1>2, <2>4, <2>7
<1>9. ASSUME NEW p \in Sessions, DeleteTopic(p) PROVE RowsServed' /\ Plan(p)'
  <2>. DEFINE t == op[p].topic
  <2>1. op[p] # None /\ op[p].kind = "remove" /\ t \in Topics
    BY <1>9, NowKnown, ReadyNow, KeyFacts DEF DeleteTopic, Now, SInv, Sane
  <2>2. UNCHANGED <<op, cfg, rec, clock, row, settings>> /\ ~At(p, "write")'
    BY <1>4, <1>9 DEF DeleteTopic
  <2>3. /\ \A u \in Topics : SeenRow(p, u)' \in {SeenRow(p, u), None}
        /\ Interval(p)' = Interval(p)
    <3>1. CASE row[t] = None
      BY <1>9, <3>1 DEF DeleteTopic, SeenRow, Interval, SeenSettings
    <3>2. CASE row[t] # None
      <4>1. owner' = [owner EXCEPT ![t] = p] /\ draft' = [draft EXCEPT ![t] = None]
        BY <1>9, <3>2 DEF DeleteTopic
      <4>. HIDE DEF t
      <4>2. \A k \in Keys : /\ owner'[k] = IF k = t THEN p ELSE owner[k]
                            /\ draft'[k] = IF k = t THEN None ELSE draft[k]
        BY <2>1, <4>1, KeyFacts DEF SInv, Stored
      <4>. QED
        BY <2>1, <2>2, <4>2, KeyFacts DEF SeenRow, Interval, SeenSettings
    <3>. QED
      BY <3>1, <3>2
  <2>4. \A u \in Topics : \/ SeenRow(p, u)' = SeenRow(p, u)
                          \/ Timely(SeenRow(p, u)', clock) /\ Within(SeenRow(p, u)', Interval(p), clock)
    BY <2>3 DEF Timely, Within
  <2>5. Plan(p)'
    BY <2>1, <2>2, <2>3, <2>4, PlainStep
  <2>. QED
    BY <1>2, <2>2, <2>5
<1>10. ASSUME NEW p \in Sessions, AddAttempt(p) PROVE RowsServed' /\ Plan(p)'
  <2>1. CASE Rollback(p)
    BY <1>3, <2>1
  <2>2. CASE ~Rollback(p)
    <3>1. op[p] # None /\ OnTopic(op[p])
      BY <1>10, NowKnown, ReadyNow, KeyFacts DEF AddAttempt, Now, SInv, Sane
    <3>2. UNCHANGED <<op, rec, cfg, clock, row, settings, owner, draft>> /\ ~At(p, "write")'
      BY <1>4, <1>10, <2>2 DEF AddAttempt
    <3>3. Interval(p)' = Interval(p) /\ \A t \in Topics : SeenRow(p, t)' = SeenRow(p, t)
      BY <3>2 DEF SeenRow, Interval, SeenSettings
    <3>4. op[p].kind # "interval"
      BY <3>1 DEF OnTopic
    <3>5. Plan(p)'
      BY <3>1, <3>2, <3>3, <3>4, PlainStep
    <3>. QED
      BY <1>2, <3>2, <3>5
  <2>. QED
    BY <2>1, <2>2
<1>11. ASSUME NEW p \in Sessions, ListTopics(p) PROVE RowsServed' /\ Plan(p)'
  BY <1>2, <1>11, ListTopicsPlan DEF ListTopics, storeVars
<1>12. ASSUME NEW p \in Sessions, LoadTopic(p) PROVE RowsServed' /\ Plan(p)'
  <2>1. CASE Rollback(p)
    BY <1>3, <2>1
  <2>2. CASE ~Rollback(p)
    BY <1>2, <1>12, <2>2, LoadTopicPlan DEF LoadTopic, storeVars
  <2>. QED
    BY <2>1, <2>2
<1>13. ASSUME NEW p \in Sessions, WriteTopic(p) PROVE RowsServed' /\ Plan(p)'
  <2>1. CASE Rollback(p)
    BY <1>3, <2>1
  <2>2. CASE ~Rollback(p)
    BY <1>2, <1>13, <2>2, WriteTopicPlan DEF WriteTopic
  <2>. QED
    BY <2>1, <2>2
<1>14. ASSUME NEW p \in Sessions, LoadSettings(p) PROVE RowsServed' /\ Plan(p)'
  BY <1>2, <1>14, LoadSettingsPlan DEF LoadSettings, storeVars
<1>15. ASSUME NEW p \in Sessions, WriteSettings(p) PROVE RowsServed' /\ Plan(p)'
  BY <1>2, <1>15, WriteSettingsPlan DEF WriteSettings
<1>16. ASSUME NEW p \in Sessions, Commit(p) PROVE RowsServed' /\ Plan(p)'
  <2>1. op[p] # None /\ At(p, "commit") /\ Publish(p) /\ EndSession(p) /\ clock' = clock
    BY <1>16, PlanNow DEF Commit
  <2>2. RowsServed'
    BY <2>1, CommitPlan
  <2>3. /\ op'[p] = None /\ cfg'[p] = None /\ script'[p] = <<>>
        /\ \A t \in Topics : rec'[p][t] = None /\ owner'[t] # p
    BY <2>1, KeyFacts DEF EndSession, Publish, ReleaseLocks, SInv, Typed
  <2>4. \A t \in Topics : SeenRow(p, t)' = row'[t]
    BY <2>3 DEF SeenRow
  <2>5. Plan(p)'
    BY <2>2, <2>3, <2>4
       DEF RowsServed, Plan, Times, PlainPlan, IntervalPlan, GlobalInterval, Timely, At
  <2>. QED
    BY <2>2, <2>5
<1>17. ASSUME NEW p \in Sessions, Fail(p) \/ DeadlockAbort(p) PROVE RowsServed' /\ Plan(p)'
  BY <1>3, <1>17 DEF Fail, DeadlockAbort
<1>18. ASSUME NEW p \in Sessions, Start(p) PROVE RowsServed' /\ Plan(p)'
  BY <1>18, StartPlan
<1>19. CASE Tick \/ UNCHANGED vars
  BY <1>19, TickServed, TickPlan
<1>20. CASE \E p \in Sessions : Start(p) \/ SessionStep(p) \/ Fail(p)
  BY <1>1, <1>20, <1>5, <1>6, <1>7, <1>8, <1>9, <1>10, <1>11, <1>12, <1>13, <1>14, <1>15,
     <1>16, <1>17, <1>18 DEF SessionStep
<1>. QED
  BY <1>19, <1>20 DEF Next

LEMMA SerialServed ==
  ASSUME Serial
  PROVE  Spec => []RowsServed
<1>1. Init => RowsServed /\ \A p \in Sessions : Plan(p)
  <2>. SUFFICES ASSUME Init PROVE RowsServed /\ \A p \in Sessions : Plan(p)
    OBVIOUS
  <2>1. PICK seconds \in Intervals :
          /\ row = [t \in Topics |-> IF t \in used THEN NewRow(seconds) ELSE None]
          /\ settings = [global |-> TRUE, interval |-> seconds, paused |-> FALSE]
    BY DEF Init
  <2>2. seconds \in Nat /\ clock = 0
    BY StoreAssumption DEF StoreAssumption, Init
  <2>3. seconds = 0 + EffectiveInterval(seconds, None)
    BY <2>2 DEF EffectiveInterval
  <2>4. Timely(NewRow(seconds), clock) /\ Within(NewRow(seconds), seconds, clock)
    BY <2>2, <2>3, NewRowWithin
  <2>5. RowsServed
    BY <2>1, <2>4 DEF RowsServed, Timely, Within
  <2>6. ASSUME NEW p \in Sessions
        PROVE  /\ op[p] = None /\ cfg[p] = None /\ script[p] = <<>>
               /\ \A t \in Topics : rec[p][t] = None /\ SeenRow(p, t) = row[t]
    BY KeyFacts DEF Init, SeenRow
  <2>7. \A p \in Sessions : Plan(p)
    BY <2>5, <2>6
       DEF RowsServed, Plan, Times, PlainPlan, IntervalPlan, GlobalInterval, Timely, At
  <2>. QED
    BY <2>5, <2>7
<1>2. /\ SInv /\ SInv' /\ Unraced /\ RowsServed /\ (\A p \in Sessions : Plan(p)) /\ [Next]_vars
        => (RowsServed /\ \A p \in Sessions : Plan(p))'
  BY PlanNext
<1>. QED
  BY <1>1, <1>2, SInvAlways, SerialUnraced, PTL DEF Spec

\* Then, too, no topic of the global interval waits for longer than that interval
\* or a retry: every change of it, and of what is computed from it, reaches the
\* topics within one session.
THEOREM SerialGlobalIntervalReachesAll ==
  ASSUME Serial
  PROVE  Spec => []GlobalIntervalReachesAll
<1>1. RowsServed => GlobalIntervalReachesAll
  BY DEF RowsServed, Within, GlobalIntervalReachesAll
<1>. QED
  BY <1>1, SerialServed, PTL
=============================================================================
