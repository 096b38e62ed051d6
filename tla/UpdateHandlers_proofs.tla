------------------------ MODULE UpdateHandlers_proofs ------------------------
(***************************************************************************)
(* For any number of updates, connections and messages: the pool is never  *)
(* overdrawn, a menu message that is neither stored nor on its way was     *)
(* left behind, and updates wait in a circle in the two known cases only.  *)
(*                                                                         *)
(* A handler is a sequence of awaits.  What the arguments need of it is    *)
(* said once: which handler awaits what (Fits) and what may come after     *)
(* what (Follows); HandlerShapes shows it of the handlers of the program,  *)
(* and the steps keep it of what is left of them.                          *)
(***************************************************************************)
EXTENDS UpdateHandlers, FiniteSetTheorems, TLAPS

-----------------------------------------------------------------------------
(* What a handler may await, and in which order.                           *)

Rendering == {"render", "edit", "send", "save", "insert", "update"}

\* Which handlers await what.
Fits(kind, await) ==
  /\ await = "enroll" => kind = "start"
  /\ await = "change" => kind = "toggle"
  /\ await = "begin" => kind = "apply"
  /\ await \in Nested => kind # "start"
  /\ await \in {"begin", "finish", "batch"} => kind # "toggle"

\* Whether a handler that awaits a may await b later on.
Follows(kind, a, b) ==
  /\ a # "commit"
  /\ b \notin {"connect", "create", "batch", "edit", "send", "save", "insert", "update"}
  /\ b \in {"enroll", "idle"} => a \in {"connect", "create"}
  /\ b \in {"change", "begin"} => a \in {"connect", "create", "idle"}
  /\ a \in Rendering /\ kind # "apply" => b \in {"answer", "commit"}

Shape(kind, s) ==
  /\ s \in Seq(Awaits) /\ s # <<>> /\ s[Len(s)] = "commit"
  /\ \A i \in 1..Len(s) : Fits(kind, s[i])
  /\ \A i, j \in 1..Len(s) : i < j => Follows(kind, s[i], s[j])

Ahead(s) == {s[i] : i \in 1..Len(s)}

\* What holds of one await and the next holds of the rest of a handler.
LEMMA TailShape ==
  ASSUME NEW kind, NEW s, Shape(kind, s), Head(s) # "commit"
  PROVE  /\ Shape(kind, Tail(s))
         /\ Ahead(s) = {Head(s)} \cup Ahead(Tail(s))
         /\ \A b \in Ahead(Tail(s)) : Follows(kind, Head(s), b)
<1>1. /\ s \in Seq(Awaits) /\ s # <<>> /\ Len(s) \in Nat /\ Len(s) > 1
      /\ Head(s) = s[1]
  BY DEF Shape
<1>2. /\ Tail(s) \in Seq(Awaits) /\ Len(Tail(s)) = Len(s) - 1
      /\ \A i \in 1..Len(Tail(s)) : i + 1 \in 1..Len(s) /\ Tail(s)[i] = s[i + 1]
  BY <1>1
<1>3. Tail(s) # <<>> /\ Tail(s)[Len(Tail(s))] = "commit"
  <2>1. Len(Tail(s)) \in 1..Len(Tail(s)) /\ Len(Tail(s)) + 1 = Len(s)
    BY <1>1, <1>2
  <2>2. Tail(s)[Len(Tail(s))] = s[Len(s)]
    BY <1>2, <2>1
  <2>3. Tail(s) # <<>>
    <3>1. \A t \in Seq(Awaits) : Len(t) > 0 => t # <<>>
      OBVIOUS
    <3>2. Len(s) - 1 > 0
      BY <1>1
    <3>. QED
      BY <1>2, <3>1, <3>2
  <2>. QED
    BY <1>1, <2>2, <2>3 DEF Shape
<1>4. \A i \in 1..Len(Tail(s)) : Fits(kind, Tail(s)[i])
  BY <1>2 DEF Shape
<1>5. \A i, j \in 1..Len(Tail(s)) : i < j => Follows(kind, Tail(s)[i], Tail(s)[j])
  BY <1>2, <1>1 DEF Shape
<1>6. \A i \in 1..Len(s) : i = 1 \/ (i - 1 \in 1..Len(Tail(s)) /\ s[i] = Tail(s)[i - 1])
  BY <1>1, <1>2
<1>7. Ahead(s) = {Head(s)} \cup Ahead(Tail(s))
  <2>1. Ahead(s) \subseteq {Head(s)} \cup Ahead(Tail(s))
    BY <1>6, <1>1 DEF Ahead
  <2>2. Head(s) \in Ahead(s)
    BY <1>1 DEF Ahead
  <2>3. Ahead(Tail(s)) \subseteq Ahead(s)
    BY <1>2 DEF Ahead
  <2>. QED
    BY <2>1, <2>2, <2>3
<1>8. \A b \in Ahead(Tail(s)) : Follows(kind, Head(s), b)
  <2>1. \A i \in 1..Len(Tail(s)) : 1 \in 1..Len(s) /\ 1 < i + 1
    BY <1>1, <1>2
  <2>. QED
    BY <1>1, <1>2, <2>1 DEF Ahead, Shape
<1>. QED
  BY <1>2, <1>3, <1>4, <1>5, <1>7, <1>8 DEF Shape

\* A first await that fits what follows leaves the handler in shape.
LEMMA ConsShape ==
  ASSUME NEW kind, NEW t, Shape(kind, t), NEW x \in Awaits, Fits(kind, x),
         \A b \in Ahead(t) : Follows(kind, x, b)
  PROVE  /\ Shape(kind, <<x>> \o t)
         /\ Head(<<x>> \o t) = x
         /\ Ahead(<<x>> \o t) = {x} \cup Ahead(t)
<1>. DEFINE s == <<x>> \o t
<1>1. t \in Seq(Awaits) /\ Len(t) \in Nat /\ Len(t) > 0
  BY DEF Shape
<1>2. /\ s \in Seq(Awaits) /\ Len(s) = Len(t) + 1
      /\ s[1] = x
      /\ \A i \in 1..Len(t) : s[i + 1] = t[i]
  BY <1>1
<1>3. \A i \in 1..Len(s) : i = 1 \/ (i - 1 \in 1..Len(t) /\ s[i] = t[i - 1])
  BY <1>1, <1>2
<1>. HIDE DEF s
<1>4. s # <<>> /\ Head(s) = x
  BY <1>1, <1>2
<1>5. s[Len(s)] = "commit"
  BY <1>1, <1>2 DEF Shape
<1>6. \A i \in 1..Len(s) : Fits(kind, s[i])
  BY <1>2, <1>3 DEF Shape
<1>7. \A i, j \in 1..Len(s) : i < j => Follows(kind, s[i], s[j])
  <2>1. SUFFICES ASSUME NEW i \in 1..Len(s), NEW j \in 1..Len(s), i < j
                 PROVE  Follows(kind, s[i], s[j])
    OBVIOUS
  <2>2. j - 1 \in 1..Len(t) /\ s[j] = t[j - 1]
    BY <1>3, <2>1
  <2>3. CASE i = 1
    BY <2>2, <2>3, <1>2 DEF Ahead
  <2>4. CASE i # 1
    <3>1. i - 1 \in 1..Len(t) /\ s[i] = t[i - 1] /\ i - 1 < j - 1
      BY <1>3, <2>1, <2>4
    <3>. QED
      BY <2>2, <3>1 DEF Shape
  <2>. QED
    BY <2>3, <2>4
<1>8. Ahead(s) = {x} \cup Ahead(t)
  <2>1. Ahead(s) \subseteq {x} \cup Ahead(t)
    BY <1>2, <1>3 DEF Ahead
  <2>2. x \in Ahead(s)
    BY <1>1, <1>2 DEF Ahead
  <2>3. \A i \in 1..Len(t) : i + 1 \in 1..Len(s) /\ s[i + 1] = t[i]
    BY <1>1, <1>2
  <2>4. Ahead(t) \subseteq Ahead(s)
    BY <2>3 DEF Ahead
  <2>. QED
    BY <2>1, <2>2, <2>4
<1>9. Shape(kind, s)
  BY <1>2, <1>4, <1>5, <1>6, <1>7 DEF Shape
<1>. QED
  BY <1>4, <1>8, <1>9 DEF s

\* The alert of a handler that may not go on, and the end of every handler.
LEMMA EndShapes ==
  ASSUME NEW kind
  PROVE  /\ Shape(kind, <<"answer", "commit">>)
         /\ Head(<<"answer", "commit">>) = "answer"
         /\ Ahead(<<"answer", "commit">>) = {"answer", "commit"}
         /\ \A s : Shape(kind, s) =>
              /\ Head(s) \in Awaits /\ Head(s) \in Ahead(s) /\ Fits(kind, Head(s))
              /\ \A a \in Ahead(s) : a \in Awaits /\ Fits(kind, a)
              /\ \A a \in Ahead(s) : a # Head(s) => Follows(kind, Head(s), a)
              /\ s # <<>> /\ Awaits # {} /\ <<>> \o s = s
<1>. DEFINE s == <<"answer", "commit">>
<1>1. s \in Seq(Awaits) /\ Len(s) = 2 /\ s[1] = "answer" /\ s[2] = "commit"
  BY DEF Awaits, Telegrams
<1>2. Head(s) = "answer" /\ s # <<>>
  OBVIOUS
<1>. HIDE DEF s
<1>3. Ahead(s) = {"answer", "commit"}
  BY <1>1 DEF Ahead
<1>4. Shape(kind, s)
  BY <1>1, <1>2 DEF Shape, Fits, Follows, Nested, Rendering
<1>5. ASSUME NEW u, Shape(kind, u)
      PROVE  /\ Head(u) \in Awaits /\ Head(u) \in Ahead(u) /\ Fits(kind, Head(u))
             /\ \A a \in Ahead(u) : a \in Awaits /\ Fits(kind, a)
             /\ \A a \in Ahead(u) : a # Head(u) => Follows(kind, Head(u), a)
             /\ u # <<>> /\ Awaits # {} /\ <<>> \o u = u
  <2>1. u \in Seq(Awaits) /\ Len(u) \in Nat /\ Len(u) > 0 /\ Head(u) = u[1] /\ u # <<>>
    BY <1>5 DEF Shape
  <2>2. 1 \in 1..Len(u) /\ u[1] \in Awaits
    BY <2>1
  <2>3. \A i \in 1..Len(u) : i # 1 => 1 < i
    BY <2>1
  <2>4. <<>> \o u = u
    BY <2>1
  <2>5. \A a \in Ahead(u) : a # Head(u) => Follows(kind, Head(u), a)
    BY <1>5, <2>1, <2>2, <2>3 DEF Shape, Ahead
  <2>6. \A a \in Ahead(u) : a \in Awaits /\ Fits(kind, a)
    BY <1>5, <2>1 DEF Shape, Ahead
  <2>7. Head(u) \in Ahead(u)
    BY <2>1, <2>2 DEF Ahead
  <2>. QED
    BY <2>1, <2>2, <2>4, <2>5, <2>6, <2>7
<1>. QED
  BY <1>2, <1>3, <1>4, <1>5 DEF s

\* Every handler of the program, with the middleware around it, is in shape.
LEMMA HandlerShapes ==
  \A kind \in DOMAIN Handlers :
    /\ Shape(kind, Update(kind))
    /\ kind = "toggle" => "idle" \in Ahead(Update(kind))
    /\ kind = "apply" => "begin" \in Ahead(Update(kind))
    /\ Head(Update(kind)) = "connect"
<1>. USE DEF Awaits, Telegrams, Nested
<1>1. ASSUME NEW kind, NEW h \in Seq(Awaits),
             \A i \in 1..Len(h) :
               /\ Fits(kind, h[i]) /\ Follows(kind, "connect", h[i])
               /\ Follows(kind, h[i], "commit"),
             \A i, j \in 1..Len(h) : i < j => Follows(kind, h[i], h[j])
      PROVE  /\ Shape(kind, <<"connect">> \o h \o <<"commit">>)
             /\ Head(<<"connect">> \o h \o <<"commit">>) = "connect"
             /\ Ahead(<<"connect">> \o h \o <<"commit">>)
                  = {"connect", "commit"} \cup Ahead(h)
  <2>. DEFINE t == h \o <<"commit">>
  <2>1. Len(h) \in Nat /\ "commit" \in Awaits /\ "connect" \in Awaits
    BY <1>1
  <2>2. /\ t \in Seq(Awaits) /\ Len(t) = Len(h) + 1
        /\ t[Len(t)] = "commit"
        /\ \A i \in 1..Len(h) : t[i] = h[i]
    BY <1>1, <2>1
  <2>3. \A i \in 1..Len(t) : (i \in 1..Len(h) /\ t[i] = h[i]) \/ (i = Len(t) /\ t[i] = "commit")
    BY <2>1, <2>2
  <2>. HIDE DEF t
  <2>4. Ahead(t) = {"commit"} \cup Ahead(h)
    <3>1. Len(t) \in 1..Len(t) /\ \A i \in 1..Len(h) : i \in 1..Len(t)
      BY <2>1, <2>2
    <3>. QED
      BY <2>2, <2>3, <3>1 DEF Ahead
  <2>5. Shape(kind, t)
    <3>1. t # <<>> /\ t \in Seq(Awaits) /\ t[Len(t)] = "commit"
      BY <2>1, <2>2
    <3>2. \A i \in 1..Len(t) : Fits(kind, t[i])
      BY <1>1, <2>3 DEF Fits
    <3>3. \A i, j \in 1..Len(t) : i < j => Follows(kind, t[i], t[j])
      <4>1. SUFFICES ASSUME NEW i \in 1..Len(t), NEW j \in 1..Len(t), i < j
                     PROVE  Follows(kind, t[i], t[j])
        OBVIOUS
      <4>2. i \in 1..Len(h) /\ t[i] = h[i]
        BY <2>1, <2>2, <2>3, <4>1
      <4>3. CASE j \in 1..Len(h) /\ t[j] = h[j]
        BY <1>1, <4>1, <4>2, <4>3
      <4>4. CASE t[j] = "commit"
        BY <1>1, <4>2, <4>4
      <4>. QED
        BY <2>3, <4>3, <4>4
    <3>. QED
      BY <3>1, <3>2, <3>3 DEF Shape
  <2>6. \A b \in Ahead(t) : Follows(kind, "connect", b)
    <3>1. Follows(kind, "connect", "commit")
      BY DEF Follows, Rendering
    <3>. QED
      BY <1>1, <2>4, <3>1 DEF Ahead
  <2>7. Fits(kind, "connect")
    BY DEF Fits
  <2>8. /\ Shape(kind, <<"connect">> \o t) /\ Head(<<"connect">> \o t) = "connect"
        /\ Ahead(<<"connect">> \o t) = {"connect"} \cup Ahead(t)
    BY <2>1, <2>5, <2>6, <2>7, ConsShape
  <2>9. <<"connect">> \o t = <<"connect">> \o h \o <<"commit">>
    BY <1>1, <2>1 DEF t
  <2>. QED
    BY <2>4, <2>8, <2>9
<1>2. /\ OpenSettings \in Seq(Awaits) /\ Len(OpenSettings) = 3
      /\ OpenSettings[1] = "status" /\ OpenSettings[2] = "render" /\ OpenSettings[3] = "answer"
  BY DEF OpenSettings, RenderSettings
<1>3. /\ BeginInput \in Seq(Awaits) /\ Len(BeginInput) = 2
      /\ BeginInput[1] = "idle" /\ BeginInput[2] = "answer"
  BY DEF BeginInput, RequireIdle
<1>4. /\ OpenEncryption \in Seq(Awaits) /\ Len(OpenEncryption) = 3
      /\ OpenEncryption[1] = "idle" /\ OpenEncryption[2] = "render"
      /\ OpenEncryption[3] = "answer"
  BY DEF OpenEncryption, RequireIdle
<1>5. /\ ChangeSetting \in Seq(Awaits) /\ Len(ChangeSetting) = 5
      /\ ChangeSetting[1] = "idle" /\ ChangeSetting[2] = "change"
      /\ ChangeSetting[3] = "status" /\ ChangeSetting[4] = "render"
      /\ ChangeSetting[5] = "answer"
  BY DEF ChangeSetting, RequireIdle, RenderSettings
<1>6. /\ ApplyPolicy \in Seq(Awaits) /\ Len(ApplyPolicy) = 8
      /\ ApplyPolicy[1] = "idle" /\ ApplyPolicy[2] = "begin"
      /\ ApplyPolicy[3] = "status" /\ ApplyPolicy[4] = "render"
      /\ ApplyPolicy[5] = "answer" /\ ApplyPolicy[6] = "finish"
      /\ ApplyPolicy[7] = "status" /\ ApplyPolicy[8] = "render"
  BY DEF ApplyPolicy, RequireIdle, RenderSettings
<1>7. /\ ResumeMigration \in Seq(Awaits) /\ Len(ResumeMigration) = 4
      /\ ResumeMigration[1] = "answer" /\ ResumeMigration[2] = "finish"
      /\ ResumeMigration[3] = "status" /\ ResumeMigration[4] = "render"
  BY DEF ResumeMigration, RenderSettings
<1>8. /\ StartBot \in Seq(Awaits) /\ Len(StartBot) = 3
      /\ StartBot[1] = "enroll" /\ StartBot[2] = "render" /\ StartBot[3] = "answer"
      /\ OpenMainMenu \in Seq(Awaits) /\ Len(OpenMainMenu) = 1 /\ OpenMainMenu[1] = "render"
      /\ OpenTopics \in Seq(Awaits) /\ Len(OpenTopics) = 2
      /\ OpenTopics[1] = "render" /\ OpenTopics[2] = "answer"
  BY DEF StartBot, OpenMainMenu, OpenTopics
<1>. DEFINE Body(kind, h) ==
         /\ h \in Seq(Awaits)
         /\ \A i \in 1..Len(h) :
              /\ Fits(kind, h[i]) /\ Follows(kind, "connect", h[i])
              /\ Follows(kind, h[i], "commit")
         /\ \A i, j \in 1..Len(h) : i < j => Follows(kind, h[i], h[j])
         /\ kind = "toggle" => "idle" \in Ahead(h)
         /\ kind = "apply" => "begin" \in Ahead(h)
<1>9. \A kind \in DOMAIN Handlers : Body(kind, Handlers[kind])
  <2>. USE DEF Fits, Follows, Rendering
  <2>1. Body("start", StartBot) /\ Body("main", OpenMainMenu) /\ Body("topics", OpenTopics)
    BY <1>8
  <2>2. Body("open", OpenSettings)
    BY <1>2
  <2>3. Body("input", BeginInput)
    BY <1>3
  <2>4. Body("modes", OpenEncryption)
    BY <1>4
  <2>5. Body("toggle", ChangeSetting)
    <3>1. 1 \in 1..Len(ChangeSetting)
      BY <1>5
    <3>2. "idle" \in Ahead(ChangeSetting)
      BY <1>5, <3>1 DEF Ahead
    <3>. QED
      BY <1>5, <3>2
  <2>6. Body("apply", ApplyPolicy)
    <3>1. 2 \in 1..Len(ApplyPolicy)
      BY <1>6
    <3>2. "begin" \in Ahead(ApplyPolicy)
      BY <1>6, <3>1 DEF Ahead
    <3>. QED
      BY <1>6, <3>2
  <2>7. Body("resume", ResumeMigration)
    BY <1>7
  <2>. HIDE DEF Body
  <2>8. /\ DOMAIN Handlers
             = {"start", "main", "topics", "open", "input", "modes", "toggle", "apply", "resume"}
        /\ Handlers["start"] = StartBot /\ Handlers["main"] = OpenMainMenu
        /\ Handlers["topics"] = OpenTopics /\ Handlers["open"] = OpenSettings
        /\ Handlers["input"] = BeginInput /\ Handlers["modes"] = OpenEncryption
        /\ Handlers["toggle"] = ChangeSetting /\ Handlers["apply"] = ApplyPolicy
        /\ Handlers["resume"] = ResumeMigration
    BY DEF Handlers
  <2>. QED
    BY <2>1, <2>2, <2>3, <2>4, <2>5, <2>6, <2>7, <2>8
<1>. QED
  BY <1>1, <1>9 DEF Update

-----------------------------------------------------------------------------
(* The inductive invariant.                                                *)

Types ==
  /\ settings \in BOOLEAN /\ known \in BOOLEAN /\ cycle \in BOOLEAN
  /\ migration \in Batches \cup {"absent", "idle"}
  /\ menu \in MessageOrNone /\ lastId \in 0..MaxMessages /\ updates \in 0..MaxUpdates
  /\ chat \subseteq 1..lastId /\ left \subseteq Messages
  /\ job \in [Sessions -> Kinds \cup {None}]
  /\ todo \in [Sessions -> Seq(Awaits)]
  /\ taken \in [Sessions -> 0..2]
  /\ greeted \in [Sessions -> BOOLEAN] /\ inserted \in [Sessions -> BOOLEAN]
  /\ updated \in [Sessions -> BOOLEAN] /\ enrolled \in [Sessions -> BOOLEAN]
  /\ found \in [Sessions -> MessageOrNone] /\ shown \in [Sessions -> MessageOrNone]
  /\ stored \in [Sessions -> MessageOrNone]

\* The session of p has written nothing.
Clean(p) == ~inserted[p] /\ ~updated[p] /\ ~enrolled[p] /\ stored[p] = None

NextAwait(p) == Head(todo[p])

\* A session without an update has nothing; a handler is in shape, and awaits
\* its first connection before it has one, and a statement of the second
\* session while it has two.
InScript(p) ==
  /\ job[p] = None => todo[p] = <<>> /\ taken[p] = 0 /\ shown[p] = None
  /\ job[p] # None => Shape(job[p], todo[p])
  /\ taken[p] = 0 => Clean(p)
  /\ job[p] # None /\ taken[p] = 0 => NextAwait(p) = "connect"
  /\ taken[p] = 2 => NextAwait(p) \in Nested
Script == \A p \in Sessions : InScript(p)

Started(p) == NextAwait(p) \notin {"connect", "create"}

\* What a session that has written awaits no more.
InsertHeld(p) ==
  /\ inserted[p] => Started(p) /\ ~settings
  /\ job[p] = "toggle" /\ (inserted[p] \/ ~Started(p)) => "idle" \in Ahead(todo[p])
EnrollHeld(p) ==
  enrolled[p] => Started(p) /\ job[p] = "start" /\ "enroll" \notin Ahead(todo[p])
UpdateHeld(p) ==
  updated[p] =>
    /\ Started(p) /\ job[p] = "toggle"
    /\ "idle" \notin Ahead(todo[p]) /\ "change" \notin Ahead(todo[p])
StoreHeld(p) ==
  /\ stored[p] # None =>
       /\ Started(p)
       /\ job[p] = "apply" => migration # "absent"
       /\ job[p] # "apply" => Ahead(todo[p]) \subseteq {"answer", "commit"}
  /\ job[p] = "apply" /\ migration = "absent" /\ Ahead(todo[p]) \cap Rendering # {} =>
       "begin" \in Ahead(todo[p])
Alone(wrote) == \A p, q \in Sessions : wrote[p] /\ wrote[q] => p = q
Held ==
  /\ migration # "absent" => settings
  /\ \A p \in Sessions : InsertHeld(p) /\ EnrollHeld(p) /\ UpdateHeld(p) /\ StoreHeld(p)
  /\ Alone(inserted) /\ Alone(enrolled) /\ Alone(updated) /\ Alone(Storing)

Pool == InUse <= PoolSize

\* The bot will not have to edit m again.
Gone(m) == m = None \/ m \notin chat \/ m \in left
Sent(m) == m = None \/ m \in 1..lastId

MenuHeld(p) ==
  /\ Sent(found[p]) /\ Sent(shown[p]) /\ Sent(stored[p])
  /\ shown[p] # None => NextAwait(p) \in {"save", "insert", "update"}
  /\ job[p] # None /\ NextAwait(p) \in {"send", "save", "insert", "update"} => Gone(found[p])
  /\ stored[p] # None => Gone(menu)
Menus == Sent(menu) /\ (\A p \in Sessions : MenuHeld(p)) /\ MenuIsFound

-----------------------------------------------------------------------------
(* How a step moves one handler on, and leaves the others alone.           *)

Others(p) == \A q \in Sessions \ {p} : todo'[q] = todo[q]

\* One await that takes the place of another.
InPlace(a, b) ==
  \/ a = "connect" /\ b = "create"
  \/ a = "finish" /\ b = "batch"
  \/ a = "render" /\ b \in {"edit", "send"}
  \/ a = "edit" /\ b = "send"
  \/ a = "send" /\ b = "save"
  \/ a = "save" /\ b \in {"insert", "update"}

\* The handler of p has left one await behind.
Moved(p) ==
  /\ todo' \in [Sessions -> Seq(Awaits)] /\ Others(p)
  /\ Shape(job[p], todo'[p])
  /\ NextAwait(p)' \in Ahead(todo'[p])
  /\ \A b \in Ahead(todo'[p]) :
       \/ b \in {"answer", "commit"}
       \/ b = NextAwait(p)' /\ InPlace(NextAwait(p), b)
       \/ b \in Ahead(todo[p]) /\ Follows(job[p], NextAwait(p), b)
  /\ "idle" \in Ahead(todo[p]) => NextAwait(p) = "idle" \/ "idle" \in Ahead(todo'[p])
  /\ "begin" \in Ahead(todo[p]) =>
       NextAwait(p) = "begin" \/ "begin" \in Ahead(todo'[p]) \/ migration \in Batches

\* What is known of a handler that awaits x.
LEMMA Standing ==
  ASSUME Types, Script, NEW p \in Sessions, NEW x, Awaiting(p, x)
  PROVE  /\ job[p] # None /\ job[p] \in Kinds /\ NextAwait(p) = x
         /\ Shape(job[p], todo[p])
         /\ x \in Awaits /\ Fits(job[p], x) /\ x \in Ahead(todo[p])
         /\ \A a \in Ahead(todo[p]) : a = x \/ Follows(job[p], x, a)
         /\ x \notin Nested \cup {"connect"} => taken[p] = 1
<1>1. todo[p] # <<>> /\ NextAwait(p) = x
  BY DEF Awaiting, NextAwait
<1>2. job[p] # None /\ job[p] \in Kinds /\ Shape(job[p], todo[p])
  BY <1>1 DEF Types, Script, InScript
<1>3. /\ Head(todo[p]) \in Awaits /\ Head(todo[p]) \in Ahead(todo[p])
      /\ Fits(job[p], Head(todo[p]))
      /\ \A a \in Ahead(todo[p]) : a # Head(todo[p]) => Follows(job[p], Head(todo[p]), a)
  BY <1>2, EndShapes
<1>4. x \notin Nested \cup {"connect"} => taken[p] = 1
  <2>1. taken[p] \in 0..2
    BY DEF Types
  <2>2. taken[p] = 0 => x = "connect"
    BY <1>1, <1>2 DEF Script, InScript
  <2>3. taken[p] = 2 => x \in Nested
    BY <1>1 DEF Script, InScript
  <2>. QED
    BY <2>1, <2>2, <2>3
<1>. QED
  BY <1>1, <1>2, <1>3, <1>4 DEF NextAwait

\* An await that is over leaves the rest of the handler.
LEMMA Proceeds ==
  ASSUME Types, Script, NEW p \in Sessions, NEW x, Awaiting(p, x), x # "commit", Proceed(p)
  PROVE  Moved(p) /\ Follows(job[p], x, NextAwait(p)')
<1>. DEFINE s == todo[p]
<1>1. Shape(job[p], s) /\ Head(s) # "commit" /\ NextAwait(p) = x
  BY Standing DEF NextAwait
<1>. HIDE DEF s
<1>2. /\ Shape(job[p], Tail(s))
      /\ Ahead(s) = {Head(s)} \cup Ahead(Tail(s))
      /\ \A b \in Ahead(Tail(s)) : Follows(job[p], Head(s), b)
  BY <1>1, TailShape
<1>3. <<>> \o Tail(s) = Tail(s) /\ Tail(s) \in Seq(Awaits) /\ Head(Tail(s)) \in Ahead(Tail(s))
  BY <1>2, EndShapes DEF Shape
<1>4. todo' = [todo EXCEPT ![p] = Tail(s)]
  BY <1>3 DEF Proceed, Go, s
<1>5. todo'[p] = Tail(s) /\ Others(p) /\ todo' \in [Sessions -> Seq(Awaits)]
  BY <1>3, <1>4 DEF Others, Types
<1>6. NextAwait(p)' = Head(Tail(s)) /\ Head(s) = x
  BY <1>1, <1>5 DEF NextAwait, s
<1>. QED
  BY <1>1, <1>2, <1>3, <1>5, <1>6 DEF Moved, s

\* The same for the alternatives that write the rest out.
LEMMA TailProceeds ==
  ASSUME Types, Script, NEW p \in Sessions, NEW x, Awaiting(p, x), x # "commit",
         todo' = [todo EXCEPT ![p] = Tail(@)]
  PROVE  Moved(p)
<1>. DEFINE s == todo[p]
<1>1. Shape(job[p], s) /\ Head(s) # "commit"
  BY Standing DEF NextAwait
<1>2. todo' = [todo EXCEPT ![p] = Tail(s)]
  OBVIOUS
<1>. HIDE DEF s
<1>3. Shape(job[p], Tail(s))
  BY <1>1, TailShape
<1>4. <<>> \o Tail(s) = Tail(s)
  BY <1>3, EndShapes
<1>5. Proceed(p)
  BY <1>2, <1>4 DEF Proceed, Go, s
<1>. QED
  BY <1>5, Proceeds

\* An await that another one replaces.
LEMMA GoesOn ==
  ASSUME Types, Script, NEW p \in Sessions, NEW x, Awaiting(p, x),
         NEW y, InPlace(x, y), x # "finish", Go(p, <<y>>)
  PROVE  Moved(p) /\ NextAwait(p)' = y
<1>. DEFINE s == todo[p]
            t == Tail(s)
<1>1. Shape(job[p], s) /\ Head(s) # "commit" /\ NextAwait(p) = x /\ Head(s) = x
  BY Standing DEF NextAwait, InPlace
<1>2. y \in Awaits /\ Fits(job[p], y) /\ y \notin {"idle", "begin"}
  BY Standing DEF InPlace, Fits, Awaits, Nested, Telegrams
<1>3. \A b : Follows(job[p], x, b) => Follows(job[p], y, b)
  BY DEF InPlace, Follows, Rendering
<1>. HIDE DEF s
<1>4. /\ Shape(job[p], t)
      /\ Ahead(s) = {Head(s)} \cup Ahead(t)
      /\ \A b \in Ahead(t) : Follows(job[p], Head(s), b)
  BY <1>1, TailShape
<1>5. todo' = [todo EXCEPT ![p] = <<y>> \o t]
  BY DEF Go, s
<1>. HIDE DEF t
<1>6. \A b \in Ahead(t) : Follows(job[p], y, b)
  BY <1>1, <1>3, <1>4
<1>7. /\ Shape(job[p], <<y>> \o t)
      /\ Head(<<y>> \o t) = y
      /\ Ahead(<<y>> \o t) = {y} \cup Ahead(t)
  BY <1>2, <1>4, <1>6, ConsShape
<1>8. <<y>> \o t \in Seq(Awaits)
  BY <1>7 DEF Shape
<1>9. todo'[p] = <<y>> \o t /\ Others(p) /\ todo' \in [Sessions -> Seq(Awaits)]
  BY <1>5, <1>8 DEF Others, Types
<1>10. NextAwait(p)' = y
  BY <1>7, <1>9 DEF NextAwait
<1>11. x \notin {"idle", "begin"}
  BY DEF InPlace
<1>. QED
  BY <1>1, <1>4, <1>7, <1>9, <1>10, <1>11 DEF Moved, s

\* Another batch first.
LEMMA BatchesFirst ==
  ASSUME Types, Script, NEW p \in Sessions, Awaiting(p, "finish"),
         todo' = [todo EXCEPT ![p] = <<"batch">> \o @]
  PROVE  Moved(p)
<1>. DEFINE s == todo[p]
<1>1. Shape(job[p], s) /\ Head(s) = "finish" /\ NextAwait(p) = "finish"
  BY Standing DEF NextAwait
<1>2. todo' = [todo EXCEPT ![p] = <<"batch">> \o s]
  OBVIOUS
<1>. HIDE DEF s
<1>3. Fits(job[p], "batch") /\ "batch" \in Awaits
  BY <1>1, EndShapes DEF Fits, Awaits, Nested
<1>4. \A b \in Ahead(s) : Follows(job[p], "finish", b) /\ Follows(job[p], "batch", b)
  <2>1. \A b \in Ahead(s) : b = "finish" \/ Follows(job[p], "finish", b)
    BY <1>1, EndShapes
  <2>2. \A b : Follows(job[p], "finish", b) => Follows(job[p], "batch", b)
    BY DEF Follows, Rendering
  <2>3. Follows(job[p], "batch", "finish") /\ Follows(job[p], "finish", "finish")
    BY DEF Follows, Rendering
  <2>. QED
    BY <2>1, <2>2, <2>3
<1>5. /\ Shape(job[p], <<"batch">> \o s)
      /\ Head(<<"batch">> \o s) = "batch"
      /\ Ahead(<<"batch">> \o s) = {"batch"} \cup Ahead(s)
  BY <1>1, <1>3, <1>4, ConsShape
<1>6. <<"batch">> \o s \in Seq(Awaits)
  BY <1>5 DEF Shape
<1>7. todo'[p] = <<"batch">> \o s /\ Others(p) /\ todo' \in [Sessions -> Seq(Awaits)]
  BY <1>2, <1>6 DEF Others, Types
<1>8. NextAwait(p)' = "batch" /\ InPlace("finish", "batch")
  BY <1>5, <1>7 DEF NextAwait, InPlace
<1>. QED
  BY <1>1, <1>4, <1>5, <1>7, <1>8 DEF Moved, s

\* During a migration only the alert is left.
LEMMA Alerts ==
  ASSUME Types, Script, NEW p \in Sessions, NEW x \in {"idle", "begin"}, Awaiting(p, x),
         migration \in Batches, todo' = [todo EXCEPT ![p] = <<"answer", "commit">>]
  PROVE  Moved(p)
<1>1. job[p] \in Kinds /\ NextAwait(p) = x /\ \A a \in Ahead(todo[p]) : a = x \/ Follows(job[p], x, a)
  BY Standing
<1>. DEFINE t == <<"answer", "commit">>
<1>2. Shape(job[p], t) /\ Head(t) = "answer" /\ Ahead(t) = {"answer", "commit"}
  BY EndShapes
<1>. HIDE DEF t
<1>3. t \in Seq(Awaits)
  BY <1>2 DEF Shape
<1>4. todo' = [todo EXCEPT ![p] = t]
  BY DEF t
<1>5. todo'[p] = t /\ Others(p) /\ todo' \in [Sessions -> Seq(Awaits)]
  BY <1>3, <1>4 DEF Others, Types
<1>6. NextAwait(p)' = "answer"
  BY <1>2, <1>5 DEF NextAwait
<1>7. "idle" \in Ahead(todo[p]) => NextAwait(p) = "idle"
  BY <1>1 DEF Follows
<1>. QED
  BY <1>2, <1>5, <1>6, <1>7 DEF Moved
-----------------------------------------------------------------------------
(* The parts of the invariant, for the steps of one update p.              *)

Kept(p) ==
  \A q \in Sessions \ {p} :
    /\ job'[q] = job[q] /\ todo'[q] = todo[q] /\ taken'[q] = taken[q]
    /\ greeted'[q] = greeted[q] /\ inserted'[q] = inserted[q]
    /\ updated'[q] = updated[q] /\ enrolled'[q] = enrolled[q]
    /\ found'[q] = found[q] /\ shown'[q] = shown[q] /\ stored'[q] = stored[q]

\* The sessions a step leaves alone stay in their scripts.
LEMMA ScriptOfOthers ==
  ASSUME Script, NEW p \in Sessions, Kept(p), InScript(p)'
  PROVE  Script'
<1>. SUFFICES ASSUME NEW q \in Sessions, q # p
              PROVE  InScript(q)'
  BY DEF Script
<1>. QED
  BY DEF Script, InScript, Kept, Clean, NextAwait

\* A session that moves on holds one connection.
LEMMA ScriptMoves ==
  ASSUME Script, NEW p \in Sessions, Kept(p), Moved(p),
         job' = job, job[p] # None, taken'[p] = 1
  PROVE  Script'
<1>1. InScript(p)'
  BY DEF InScript, Moved
<1>. QED
  BY <1>1, ScriptOfOthers

\* What Forget clears, and that it clears it for p only.
LEMMA Forgets ==
  ASSUME Types, NEW p \in Sessions, Forget(p)
  PROVE  /\ Kept(p)
         /\ job'[p] = None /\ todo'[p] = <<>> /\ taken'[p] = 0
         /\ shown'[p] = None /\ stored'[p] = None /\ found'[p] = None
         /\ ~inserted'[p] /\ ~updated'[p] /\ ~enrolled'[p]
<1>1. Kept(p)
  BY DEF Forget, Types, Kept
<1>2. /\ job'[p] = None /\ todo'[p] = <<>> /\ taken'[p] = 0
      /\ shown'[p] = None /\ stored'[p] = None /\ found'[p] = None
  BY DEF Forget, Types
<1>3. ~inserted'[p] /\ ~updated'[p] /\ ~enrolled'[p]
  BY DEF Forget, Types
<1>. QED
  BY <1>1, <1>2, <1>3

\* A session that forgot everything awaits nothing.
LEMMA ScriptForgets ==
  ASSUME Types, Script, NEW p \in Sessions, Forget(p)
  PROVE  Script'
<1>1. InScript(p)'
  BY Forgets DEF InScript, Clean
<1>. QED
  BY <1>1, Forgets, ScriptOfOthers

\* An await that moves on keeps what a session that wrote awaits no more.
LEMMA HeldMoves ==
  ASSUME Types, Script, Held, NEW p \in Sessions, NEW x, Awaiting(p, x),
         Moved(p), Kept(p), job' = job,
         settings => settings', settings' => settings \/ \A q \in Sessions : ~inserted[q],
         migration' # "absent" => settings', migration # "absent" => migration' # "absent",
         x = "idle" => ~inserted[p], x = "begin" => migration' # "absent",
         \/ inserted'[p] = inserted[p]
         \/ x = "create" /\ ~settings' /\ Holding(p, inserted) = {},
         \/ updated'[p] = updated[p]
         \/ x = "change" /\ Holding(p, updated) = {},
         \/ enrolled'[p] = enrolled[p]
         \/ x = "enroll" /\ Holding(p, enrolled) = {},
         \/ stored'[p] = stored[p]
         \/ x \in {"insert", "update"} /\ Holding(p, Storing) = {}
  PROVE  Held'
<1>1. /\ job[p] # None /\ NextAwait(p) = x /\ Fits(job[p], x) /\ x \in Ahead(todo[p])
      /\ \A a \in Ahead(todo[p]) : a = x \/ Follows(job[p], x, a)
  BY Standing
<1>2. /\ NextAwait(p)' \in Ahead(todo'[p])
      /\ \A b \in Ahead(todo'[p]) :
           \/ b \in {"answer", "commit"}
           \/ b = NextAwait(p)' /\ InPlace(x, b)
           \/ b \in Ahead(todo[p]) /\ Follows(job[p], x, b)
      /\ "idle" \in Ahead(todo[p]) => x = "idle" \/ "idle" \in Ahead(todo'[p])
      /\ "begin" \in Ahead(todo[p]) =>
           x = "begin" \/ "begin" \in Ahead(todo'[p]) \/ migration \in Batches
  BY <1>1 DEF Moved
<1>3. Started(p)' \/ (x = "connect" /\ NextAwait(p)' = "create")
  BY <1>2 DEF Started, InPlace, Follows
<1>4. InsertHeld(p) /\ EnrollHeld(p) /\ UpdateHeld(p) /\ StoreHeld(p)
  BY DEF Held
<1>5. Started(p) <=> x \notin {"connect", "create"}
  BY <1>1 DEF Started
<1>6. InsertHeld(p)'
  <2>1. inserted'[p] => Started(p)' /\ ~settings'
    <3>1. CASE inserted[p]
      BY <1>3, <1>4, <1>5, <3>1 DEF InsertHeld
    <3>2. CASE inserted'[p] # inserted[p]
      BY <1>3, <3>2
    <3>. QED
      BY <3>1, <3>2
  <2>2. ASSUME job[p] = "toggle", inserted'[p] \/ ~Started(p)'
        PROVE  "idle" \in Ahead(todo'[p])
    <3>1. x # "idle"
      <4>1. CASE x = "idle"
        <5>1. ~inserted[p] /\ inserted'[p] = inserted[p]
          BY <4>1
        <5>. QED
          BY <1>3, <2>2, <4>1, <5>1
      <4>. QED
        BY <4>1
    <3>2. "idle" \in Ahead(todo[p])
      <4>1. inserted[p] \/ ~Started(p)
        <5>1. CASE inserted'[p] = inserted[p]
          BY <1>3, <1>5, <2>2, <5>1
        <5>2. CASE x = "create"
          BY <1>5, <5>2
        <5>. QED
          BY <5>1, <5>2
      <4>. QED
        BY <1>4, <2>2, <4>1 DEF InsertHeld
    <3>. QED
      BY <1>2, <3>1, <3>2
  <2>. QED
    BY <2>1, <2>2 DEF InsertHeld
<1>7. EnrollHeld(p)'
  <2>1. CASE enrolled[p]
    BY <1>2, <1>3, <1>4, <1>5, <2>1 DEF EnrollHeld, Follows, InPlace
  <2>2. CASE enrolled'[p] # enrolled[p]
    <3>1. x = "enroll" /\ job[p] = "start"
      BY <1>1, <2>2 DEF Fits
    <3>2. "enroll" \notin Ahead(todo'[p])
      BY <1>2, <3>1 DEF Follows, InPlace
    <3>. QED
      BY <1>3, <3>1, <3>2 DEF EnrollHeld
  <2>. QED
    BY <2>1, <2>2 DEF EnrollHeld
<1>8. UpdateHeld(p)'
  <2>1. CASE updated[p]
    BY <1>1, <1>2, <1>3, <1>4, <1>5, <2>1 DEF UpdateHeld, Follows, InPlace
  <2>2. CASE updated'[p] # updated[p]
    <3>1. x = "change" /\ job[p] = "toggle"
      BY <1>1, <2>2 DEF Fits
    <3>2. "idle" \notin Ahead(todo'[p]) /\ "change" \notin Ahead(todo'[p])
      BY <1>2, <3>1 DEF Follows, InPlace
    <3>. QED
      BY <1>3, <3>1, <3>2 DEF UpdateHeld
  <2>. QED
    BY <2>1, <2>2 DEF UpdateHeld
<1>9. StoreHeld(p)'
  <2>1. ASSUME stored'[p] # None
        PROVE  /\ Started(p)'
               /\ job[p] = "apply" => migration' # "absent"
               /\ job[p] # "apply" => Ahead(todo'[p]) \subseteq {"answer", "commit"}
    <3>1. CASE stored[p] # None
      <4>1. Started(p)'
        BY <1>3, <1>4, <1>5, <3>1 DEF StoreHeld
      <4>2. ASSUME job[p] # "apply" PROVE Ahead(todo'[p]) \subseteq {"answer", "commit"}
        <5>1. Ahead(todo[p]) \subseteq {"answer", "commit"}
          BY <1>4, <3>1, <4>2 DEF StoreHeld
        <5>2. x \in {"answer", "commit"}
          BY <1>1, <5>1
        <5>3. \A b : ~InPlace(x, b)
          BY <5>2 DEF InPlace
        <5>. QED
          BY <1>2, <5>1, <5>3
      <4>. QED
        BY <1>4, <3>1, <4>1, <4>2 DEF StoreHeld
    <3>2. CASE stored[p] = None
      <4>1. x \in {"insert", "update"}
        BY <2>1, <3>2
      <4>2. \A b : ~InPlace(x, b)
        BY <4>1 DEF InPlace
      <4>3. job[p] # "apply" => Ahead(todo'[p]) \subseteq {"answer", "commit"}
        BY <1>2, <4>1, <4>2 DEF Follows, Rendering
      <4>4. job[p] = "apply" => migration # "absent"
        <5>1. x \in Ahead(todo[p]) \cap Rendering
          BY <1>1, <4>1 DEF Rendering
        <5>2. "begin" \notin Ahead(todo[p])
          BY <1>1, <4>1 DEF Follows
        <5>. QED
          BY <1>4, <5>1, <5>2 DEF StoreHeld
      <4>. QED
        BY <1>3, <4>1, <4>3, <4>4
    <3>. QED
      BY <3>1, <3>2
  <2>2. ASSUME job[p] = "apply", migration' = "absent", Ahead(todo'[p]) \cap Rendering # {}
        PROVE  "begin" \in Ahead(todo'[p])
    <3>1. PICK b \in Ahead(todo'[p]) : b \in Rendering
      BY <2>2
    <3>2. b \notin {"answer", "commit"}
      BY <3>1 DEF Rendering
    <3>3. Ahead(todo[p]) \cap Rendering # {}
      <4>1. CASE InPlace(x, b)
        BY <1>1, <3>1, <4>1 DEF InPlace, Rendering
      <4>2. CASE b \in Ahead(todo[p])
        BY <3>1, <4>2
      <4>. QED
        BY <1>2, <3>1, <3>2, <4>1, <4>2
    <3>4. migration = "absent" /\ migration \notin Batches
      BY <2>2 DEF Batches
    <3>5. "begin" \in Ahead(todo[p]) /\ x # "begin"
      BY <1>4, <2>2, <3>3, <3>4 DEF StoreHeld
    <3>. QED
      BY <1>2, <3>4, <3>5
  <2>. QED
    BY <2>1, <2>2 DEF StoreHeld
<1>10. ASSUME NEW q \in Sessions, q # p
       PROVE  (InsertHeld(q) /\ EnrollHeld(q) /\ UpdateHeld(q) /\ StoreHeld(q))'
  <2>1. InsertHeld(q) /\ EnrollHeld(q) /\ UpdateHeld(q) /\ StoreHeld(q)
    BY DEF Held
  <2>2. /\ job'[q] = job[q] /\ todo'[q] = todo[q] /\ inserted'[q] = inserted[q]
        /\ updated'[q] = updated[q] /\ enrolled'[q] = enrolled[q] /\ stored'[q] = stored[q]
    BY <1>10 DEF Kept
  <2>3. InsertHeld(q)'
    BY <2>1, <2>2 DEF InsertHeld, Started, NextAwait
  <2>4. EnrollHeld(q)'
    BY <2>1, <2>2 DEF EnrollHeld, Started, NextAwait
  <2>5. UpdateHeld(q)'
    BY <2>1, <2>2 DEF UpdateHeld, Started, NextAwait
  <2>6. StoreHeld(q)'
    BY <2>1, <2>2 DEF StoreHeld, Started, NextAwait
  <2>. QED
    BY <2>3, <2>4, <2>5, <2>6
<1>11. Alone(inserted)'
  BY DEF Held, Alone, Kept, Holding
<1>12. Alone(enrolled)'
  BY DEF Held, Alone, Kept, Holding
<1>13. Alone(updated)'
  BY DEF Held, Alone, Kept, Holding
<1>14. Alone(Storing)'
  BY DEF Held, Alone, Kept, Holding, Storing
<1>. QED
  BY <1>6, <1>7, <1>8, <1>9, <1>10, <1>11, <1>12, <1>13, <1>14 DEF Held

\* A rollback lets go of everything; a commit adds the row of the settings.
LEMMA HeldForgets ==
  ASSUME Types, Script, Held, NEW p \in Sessions, Forget(p), migration' = migration,
         settings => settings', settings' => settings \/ inserted[p]
  PROVE  Held'
<1>1. (InsertHeld(p) /\ EnrollHeld(p) /\ UpdateHeld(p) /\ StoreHeld(p))'
  <2>1. job'[p] \notin {"toggle", "apply"}
    BY Forgets, HandlersAssumption DEF Handlers
  <2>. QED
    BY <2>1, Forgets DEF InsertHeld, EnrollHeld, UpdateHeld, StoreHeld
<1>2. ASSUME NEW q \in Sessions, q # p
      PROVE  (InsertHeld(q) /\ EnrollHeld(q) /\ UpdateHeld(q) /\ StoreHeld(q))'
  <2>1. InsertHeld(q) /\ EnrollHeld(q) /\ UpdateHeld(q) /\ StoreHeld(q)
    BY DEF Held
  <2>2. /\ job'[q] = job[q] /\ todo'[q] = todo[q] /\ inserted'[q] = inserted[q]
        /\ updated'[q] = updated[q] /\ enrolled'[q] = enrolled[q] /\ stored'[q] = stored[q]
    BY <1>2, Forgets DEF Kept
  <2>3. inserted[q] => ~inserted[p]
    BY <1>2 DEF Held, Alone
  <2>4. InsertHeld(q)'
    BY <2>1, <2>2, <2>3 DEF InsertHeld, Started, NextAwait
  <2>5. EnrollHeld(q)'
    BY <2>1, <2>2 DEF EnrollHeld, Started, NextAwait
  <2>6. UpdateHeld(q)'
    BY <2>1, <2>2 DEF UpdateHeld, Started, NextAwait
  <2>7. StoreHeld(q)'
    BY <2>1, <2>2 DEF StoreHeld, Started, NextAwait
  <2>. QED
    BY <2>4, <2>5, <2>6, <2>7
<1>3. Alone(inserted)' /\ Alone(enrolled)'
  BY Forgets DEF Held, Alone, Kept
<1>4. Alone(updated)' /\ Alone(Storing)'
  <2>1. /\ \A q \in Sessions \ {p} : stored'[q] = stored[q] /\ updated'[q] = updated[q]
        /\ stored'[p] = None /\ ~updated'[p]
    BY Forgets DEF Kept
  <2>2. Alone(Storing)'
    BY <2>1 DEF Held, Alone, Storing
  <2>3. Alone(updated)'
    BY <2>1 DEF Held, Alone
  <2>. QED
    BY <2>2, <2>3
<1>5. migration' # "absent" => settings'
  BY DEF Held
<1>. QED
  BY <1>1, <1>2, <1>3, <1>4, <1>5 DEF Held
\* Messages are sent, deleted and given up, never taken back.
Onward ==
  /\ lastId' \in Nat /\ lastId <= lastId' /\ left \subseteq left'
  /\ \A m \in chat' : m \in chat \/ m > lastId

\* A message that was given up is not to be edited again.
LEMMA GoneStaysGone ==
  ASSUME Types, Onward
  PROVE  \A m : Sent(m) =>
           /\ m = None \/ m \in 1..lastId'
           /\ Gone(m) => m = None \/ m \notin chat' \/ m \in left'
<1>1. lastId \in Nat /\ lastId' \in Nat
  BY HandlersAssumption DEF Types, Onward
<1>2. TAKE m
<1>3. HAVE Sent(m)
<1>4. CASE m = None
  BY <1>4
<1>5. CASE m \in 1..lastId
  <2>1. m \in 1..lastId' /\ ~(m > lastId)
    BY <1>1, <1>5 DEF Onward
  <2>. QED
    BY <2>1 DEF Gone, Onward
<1>. QED
  BY <1>3, <1>4, <1>5 DEF Sent

\* The renders a step leaves alone keep what they know.
LEMMA MenusOfOthers ==
  ASSUME Types, Menus, NEW p \in Sessions, Kept(p), Onward,
         menu' = menu \/ \A q \in Sessions \ {p} : stored[q] = None
  PROVE  \A q \in Sessions \ {p} : MenuHeld(q)'
<1>. SUFFICES ASSUME NEW q \in Sessions, q # p
              PROVE  MenuHeld(q)'
  OBVIOUS
<1>1. /\ job'[q] = job[q] /\ NextAwait(q)' = NextAwait(q)
      /\ found'[q] = found[q] /\ shown'[q] = shown[q] /\ stored'[q] = stored[q]
  BY DEF Kept, NextAwait
<1>2. MenuHeld(q) /\ Sent(menu)
  BY DEF Menus
<1>3. Sent(found[q])' /\ Sent(shown[q])' /\ Sent(stored[q])'
  BY <1>1, <1>2, GoneStaysGone DEF MenuHeld, Sent
<1>4. shown'[q] # None => NextAwait(q)' \in {"save", "insert", "update"}
  BY <1>1, <1>2 DEF MenuHeld
<1>5. job'[q] # None /\ NextAwait(q)' \in {"send", "save", "insert", "update"} => Gone(found[q])'
  <2>1. Gone(found[q]) => Gone(found[q])'
    BY <1>1, <1>2, GoneStaysGone DEF MenuHeld, Gone
  <2>. QED
    BY <1>1, <1>2, <2>1 DEF MenuHeld
<1>6. stored'[q] # None => Gone(menu)'
  <2>1. CASE menu' = menu
    <3>1. Gone(menu) => Gone(menu)'
      BY <1>2, <2>1, GoneStaysGone DEF Gone
    <3>. QED
      BY <1>1, <1>2, <3>1 DEF MenuHeld
  <2>2. CASE stored[q] = None
    BY <1>1, <2>2
  <2>. QED
    BY <2>1, <2>2
<1>. QED
  BY <1>3, <1>4, <1>5, <1>6 DEF MenuHeld
\* Steps of p that leave the messages alone.
LEMMA MenusQuiet ==
  ASSUME Types, Menus, NEW p \in Sessions, Kept(p),
         UNCHANGED <<found, shown, stored, menu, chat, lastId, left>>,
         shown[p] = None,
         job'[p] # None => NextAwait(p)' \notin {"send", "save", "insert", "update"}
  PROVE  Menus'
<1>1. Onward
  BY HandlersAssumption DEF Onward, Types
<1>2. MenuHeld(p)'
  BY DEF Menus, MenuHeld, Sent, Gone
<1>3. MenuIsFound'
  BY DEF Menus, MenuIsFound
<1>4. Sent(menu)'
  BY DEF Menus, Sent
<1>. QED
  BY <1>1, <1>2, <1>3, <1>4, MenusOfOthers DEF Menus

\* Steps of no render; a deleted message is one message less to find.
LEMMA MenusSame ==
  ASSUME Types, Menus, UNCHANGED <<job, todo, found, shown, stored, menu, lastId, left>>,
         chat' \subseteq chat
  PROVE  Menus'
<1>1. \A p \in Sessions : MenuHeld(p)'
  BY DEF Menus, MenuHeld, Sent, Gone, NextAwait
<1>2. MenuIsFound'
  BY DEF Menus, MenuIsFound
<1>3. Sent(menu)'
  BY DEF Menus, Sent
<1>. QED
  BY <1>1, <1>2, <1>3 DEF Menus

\* What a rollback forgets is left behind.
LEMMA MenusForget ==
  ASSUME Types, Menus, NEW p \in Sessions, Rollback(p)
  PROVE  Menus'
<1>1. /\ Kept(p) /\ job'[p] = None
      /\ shown'[p] = None /\ stored'[p] = None /\ found'[p] = None
  BY Forgets DEF Rollback
<1>2. /\ UNCHANGED <<menu, chat, lastId>>
      /\ left' = left \cup ({shown[p], stored[p]} \ {None})
  BY DEF Rollback, database, telegram
<1>3. Onward
  BY <1>2, HandlersAssumption DEF Onward, Types
<1>4. MenuHeld(p)'
  BY <1>1 DEF MenuHeld, Sent
<1>5. MenuIsFound'
  <2>1. SUFFICES ASSUME NEW m \in chat
                 PROVE  \/ m = menu \/ m \in left'
                        \/ \E q \in Sessions : m \in {shown'[q], stored'[q]}
    BY <1>2 DEF MenuIsFound
  <2>2. m # None
    BY HandlersAssumption DEF Types
  <2>3. CASE m = menu \/ m \in left
    BY <1>2, <2>3
  <2>4. CASE \E q \in Sessions : m \in {shown[q], stored[q]}
    <3>1. PICK q \in Sessions : m \in {shown[q], stored[q]}
      BY <2>4
    <3>2. CASE q = p
      BY <1>2, <2>2, <3>1, <3>2
    <3>3. CASE q # p
      BY <1>1, <3>1, <3>3 DEF Kept
    <3>. QED
      BY <3>2, <3>3
  <2>. QED
    BY <2>3, <2>4 DEF Menus, MenuIsFound
<1>6. Sent(menu)'
  BY <1>2 DEF Menus, Sent
<1>. QED
  BY <1>1, <1>2, <1>3, <1>4, <1>5, <1>6, MenusOfOthers DEF Menus

\* The message a commit replaces was left behind when the update was written.
LEMMA MenusCommit ==
  ASSUME Types, Script, Held, Menus, NEW p \in Sessions, Commit(p)
  PROVE  Menus'
<1>1. /\ Kept(p) /\ job'[p] = None
      /\ shown'[p] = None /\ stored'[p] = None /\ found'[p] = None
  BY Forgets DEF Commit
<1>2. /\ UNCHANGED <<chat, lastId, left>>
      /\ menu' = IF stored[p] = None THEN menu ELSE stored[p]
  BY DEF Commit, telegram
<1>3. Onward
  BY <1>2, HandlersAssumption DEF Onward, Types
<1>4. MenuHeld(p)'
  BY <1>1 DEF MenuHeld, Sent
<1>5. menu' = menu \/ \A q \in Sessions \ {p} : stored[q] = None
  BY <1>2 DEF Held, Alone, Storing
<1>6. shown[p] = None
  <2>1. NextAwait(p) = "commit"
    BY DEF Commit, Awaiting, NextAwait
  <2>. QED
    BY <2>1 DEF Menus, MenuHeld
<1>7. MenuIsFound'
  <2>1. SUFFICES ASSUME NEW m \in chat
                 PROVE  \/ m = menu' \/ m \in left
                        \/ \E q \in Sessions : m \in {shown'[q], stored'[q]}
    BY <1>2 DEF MenuIsFound
  <2>2. m # None
    BY HandlersAssumption DEF Types
  <2>3. CASE m = menu
    <3>1. CASE stored[p] = None
      BY <1>2, <2>3, <3>1
    <3>2. CASE stored[p] # None
      <4>1. Gone(menu)
        BY <3>2 DEF Menus, MenuHeld
      <4>. QED
        BY <2>2, <2>3, <4>1 DEF Gone
    <3>. QED
      BY <3>1, <3>2
  <2>4. CASE \E q \in Sessions : m \in {shown[q], stored[q]}
    <3>1. PICK q \in Sessions : m \in {shown[q], stored[q]}
      BY <2>4
    <3>2. CASE q = p
      BY <1>2, <1>6, <2>2, <3>1, <3>2
    <3>3. CASE q # p
      BY <1>1, <3>1, <3>3 DEF Kept
    <3>. QED
      BY <3>2, <3>3
  <2>. QED
    BY <2>3, <2>4 DEF Menus, MenuIsFound
<1>8. Sent(menu)'
  BY <1>2 DEF Menus, MenuHeld, Sent
<1>. QED
  BY <1>1, <1>3, <1>4, <1>5, <1>7, <1>8, MenusOfOthers DEF Menus

\* Write the message sent: the one it replaces is left behind, or was refused.
LEMMA MenusStore ==
  ASSUME Types, Script, Menus, NEW p \in Sessions, NEW x \in {"insert", "update"},
         Awaiting(p, x), Store(p), Kept(p), Moved(p), Follows(job[p], x, NextAwait(p)')
  PROVE  Menus'
<1>1. /\ stored'[p] = shown[p] /\ shown'[p] = None /\ found'[p] = found[p]
      /\ UNCHANGED <<menu, chat, lastId, job>>
      /\ left' = left \cup ({Visible(p)} \ {None, found[p]})
  BY DEF Store, database, telegram, Types
<1>2. NextAwait(p) = x /\ job[p] # None
  BY Standing
<1>3. Onward
  BY <1>1, HandlersAssumption DEF Onward, Types
<1>4. Gone(found[p]) /\ Sent(found[p]) /\ Sent(shown[p])
  BY <1>2 DEF Menus, MenuHeld
<1>5. Visible(p) = None \/ Visible(p) = found[p] \/ Visible(p) \in left'
  BY <1>1
<1>6. Gone(menu)'
  <2>1. CASE stored[p] # None
    BY <1>1, <2>1 DEF Menus, MenuHeld, Gone
  <2>2. CASE stored[p] = None
    BY <1>1, <1>4, <1>5, <2>2 DEF Visible, Gone
  <2>. QED
    BY <2>1, <2>2
<1>7. MenuHeld(p)'
  BY <1>1, <1>4, <1>6 DEF MenuHeld, Sent, Follows
<1>8. MenuIsFound'
  <2>1. SUFFICES ASSUME NEW m \in chat
                 PROVE  \/ m = menu \/ m \in left'
                        \/ \E q \in Sessions : m \in {shown'[q], stored'[q]}
    BY <1>1 DEF MenuIsFound
  <2>2. m # None
    BY HandlersAssumption DEF Types
  <2>3. CASE m = menu \/ m \in left
    BY <1>1, <2>3
  <2>4. CASE \E q \in Sessions : m \in {shown[q], stored[q]}
    <3>1. PICK q \in Sessions : m \in {shown[q], stored[q]}
      BY <2>4
    <3>2. CASE q # p
      BY <3>1, <3>2 DEF Kept
    <3>3. CASE m = shown[p]
      BY <1>1, <3>3
    <3>4. CASE m = stored[p]
      BY <1>1, <1>4, <1>5, <2>2, <3>4 DEF Visible, Gone
    <3>. QED
      BY <3>1, <3>2, <3>3, <3>4
  <2>. QED
    BY <2>3, <2>4 DEF Menus, MenuIsFound
<1>9. Sent(menu)'
  BY <1>1 DEF Menus, Sent
<1>. QED
  BY <1>1, <1>3, <1>7, <1>8, <1>9, MenusOfOthers DEF Menus

-----------------------------------------------------------------------------
(* The pool.                                                               *)

\* The connections can be counted.
LEMMA ConnectionsFinite == IsFiniteSet(Connections) /\ InUse \in Nat
<1>1. IsFiniteSet({1, 2})
  <2>1. IsFiniteSet({1}) /\ {1, 2} = {1} \cup {2}
    BY FS_Singleton
  <2>2. IsFiniteSet({1} \cup {2})
    BY <2>1, FS_AddElement
  <2>. QED
    BY <2>1, <2>2
<1>2. IsFiniteSet(Sessions \X {1, 2})
  BY <1>1, FS_Product, HandlersAssumption
<1>3. {c \in Sessions \X {1, 2} : c[2] <= taken[c[1]]} \subseteq Sessions \X {1, 2}
  OBVIOUS
<1>4. IsFiniteSet({c \in Sessions \X {1, 2} : c[2] <= taken[c[1]]})
  BY <1>2, <1>3, FS_Subset
<1>5. IsFiniteSet(IF cycle THEN {<<"scheduler", 1>>} ELSE {})
  BY FS_EmptySet, FS_Singleton
<1>6. IsFiniteSet(Connections)
  BY <1>4, <1>5, FS_Union DEF Connections
<1>. QED
  BY <1>6, FS_CardinalityType DEF InUse

\* The pool as numbers: more connections are one more at most.
LEMMA PoolKeeps ==
  ASSUME Types, Pool, taken' \in [Sessions -> 0..2],
         \A q \in Sessions :
           taken'[q] \in {0, taken[q]} \/ (taken'[q] = 1 /\ taken[q] = 2),
         cycle' => cycle
  PROVE  Pool'
<1>1. Connections' \subseteq Connections
  <2>1. \A k \in {1, 2}, t, u \in 0..2 :
          k <= t /\ (t \in {0, u} \/ (t = 1 /\ u = 2)) => k <= u
    OBVIOUS
  <2>2. \A c \in Sessions \X {1, 2} : c[1] \in Sessions /\ c[2] \in {1, 2}
    OBVIOUS
  <2>3. \A q \in Sessions : taken'[q] \in 0..2 /\ taken[q] \in 0..2
    BY DEF Types
  <2>4. \A c \in Sessions \X {1, 2} : c[2] <= taken'[c[1]] => c[2] <= taken[c[1]]
    BY <2>1, <2>2, <2>3
  <2>. QED
    BY <2>4 DEF Connections
<1>2. InUse' <= InUse /\ InUse' \in Nat
  <2>1. Cardinality(Connections') <= Cardinality(Connections)
    BY <1>1, ConnectionsFinite, FS_Subset
  <2>2. IsFiniteSet(Connections')
    BY <1>1, ConnectionsFinite, FS_Subset
  <2>. QED
    BY <2>1, <2>2, FS_CardinalityType DEF InUse
<1>. QED
  BY <1>2, ConnectionsFinite, HandlersAssumption DEF Pool

\* A connection is opened only while the pool is not full.
LEMMA PoolGrows ==
  ASSUME Types, Pool, ~PoolIsFull, NEW c, Connections' \subseteq Connections \cup {c}
  PROVE  Pool'
<1>1. /\ IsFiniteSet(Connections \cup {c})
      /\ Cardinality(Connections \cup {c}) <= Cardinality(Connections) + 1
  BY ConnectionsFinite, FS_AddElement DEF InUse
<1>2. IsFiniteSet(Connections') /\ Cardinality(Connections') <= Cardinality(Connections \cup {c})
  BY <1>1, FS_Subset
<1>3. Cardinality(Connections') \in Nat /\ Cardinality(Connections \cup {c}) \in Nat
  BY <1>1, <1>2, FS_CardinalityType
<1>. QED
  BY <1>1, <1>2, <1>3, ConnectionsFinite, HandlersAssumption DEF Pool, PoolIsFull, InUse
-----------------------------------------------------------------------------
(* Every action keeps the invariant.                                       *)

Inv == Types /\ Script /\ Held /\ Pool /\ Menus

\* A step of the update's own session.
LEMMA HandlerStep ==
  ASSUME Inv, NEW p \in Sessions, NEW x, Awaiting(p, x), x \notin Nested, taken[p] = 1,
         Moved(p), Kept(p), UNCHANGED <<job, settings, migration, taken, cycle>>,
         Types', Menus',
         \/ inserted'[p] = inserted[p]
         \/ x = "create" /\ ~settings /\ Holding(p, inserted) = {},
         \/ updated'[p] = updated[p]
         \/ x = "change" /\ Holding(p, updated) = {},
         \/ enrolled'[p] = enrolled[p]
         \/ x = "enroll" /\ Holding(p, enrolled) = {},
         \/ stored'[p] = stored[p]
         \/ x \in {"insert", "update"} /\ Holding(p, Storing) = {}
  PROVE  Inv'
<1>1. job[p] # None
  BY Standing DEF Inv
<1>2. Script'
  BY <1>1, ScriptMoves DEF Inv
<1>3. x # "idle" /\ x # "begin"
  BY DEF Nested
<1>4. migration # "absent" => settings
  BY DEF Inv, Held
<1>5. Held'
  BY <1>3, <1>4, HeldMoves DEF Inv
<1>6. Pool'
  BY DEF Inv, Pool, InUse, Connections
<1>. QED
  BY <1>2, <1>5, <1>6 DEF Inv

\* A statement of the second session.
LEMMA NestedStep ==
  ASSUME Inv, NEW p \in Sessions, NEW x \in Nested, Awaiting(p, x), Ready(p), Done(p), Moved(p),
         settings' \in BOOLEAN, migration' \in Batches \cup {"absent", "idle"},
         UNCHANGED <<known, menu>>,
         settings => settings', x # "batch" \/ settings' = settings,
         migration' # "absent" => settings', migration # "absent" => migration' # "absent",
         x = "begin" => migration' # "absent"
  PROVE  Inv'
<1>1. /\ job[p] # None /\ NextAwait(p) = x /\ x # "connect"
      /\ taken' = [taken EXCEPT ![p] = 1] /\ taken[p] = 2
      /\ UNCHANGED <<chat, lastId, job, cycle, greeted, inserted, updated, enrolled, found,
                     shown, stored, left, updates>>
  BY Standing DEF Inv, Done, Ready, telegram, writes, Nested
<1>2. Kept(p) /\ taken'[p] = 1
  BY <1>1 DEF Kept, Moved, Others, Inv, Types
<1>3. Types'
  BY <1>1 DEF Inv, Types, Moved
<1>4. Script'
  BY <1>1, <1>2, ScriptMoves DEF Inv
<1>5. ~settings /\ x # "batch" => \A q \in Sessions : ~inserted[q]
  <2>1. ~settings => migration = "absent"
    BY DEF Inv, Held
  <2>2. x # "batch" => NestedWaitsFor(p)
                          = {q \in Sessions : migration = "absent" /\ ~settings /\ inserted[q]}
    BY DEF NestedWaitsFor, Awaiting
  <2>. QED
    BY <2>1, <2>2 DEF Ready
<1>6. settings => \A q \in Sessions : ~inserted[q]
  BY DEF Inv, Held, InsertHeld
<1>7. x = "idle" => ~inserted[p]
  BY <1>5, <1>6
<1>8. settings' => settings \/ \A q \in Sessions : ~inserted[q]
  BY <1>5
<1>9. /\ inserted'[p] = inserted[p] /\ updated'[p] = updated[p]
      /\ enrolled'[p] = enrolled[p] /\ stored'[p] = stored[p]
  BY <1>1
<1>10. Held'
  BY <1>1, <1>2, <1>7, <1>8, <1>9, HeldMoves DEF Inv
<1>11. Pool'
  <2>1. /\ taken' \in [Sessions -> 0..2]
        /\ \A q \in Sessions : taken'[q] \in {0, taken[q]} \/ (taken'[q] = 1 /\ taken[q] = 2)
    BY <1>1 DEF Inv, Types
  <2>. QED
    BY <1>1, <2>1, PoolKeeps DEF Inv
<1>12. Menus'
  <2>1. shown[p] = None
    BY <1>1 DEF Inv, Menus, MenuHeld, Nested
  <2>2. NextAwait(p)' \notin {"send", "save", "insert", "update"}
    BY <1>1 DEF Moved, InPlace, Follows, Nested
  <2>. QED
    BY <1>1, <1>2, <2>1, <2>2, MenusQuiet DEF Inv
<1>. QED
  BY <1>3, <1>4, <1>10, <1>11, <1>12 DEF Inv

\* The end of an update that failed.
LEMMA RollbackKeeps ==
  ASSUME Inv, NEW p \in Sessions, Rollback(p)
  PROVE  Inv'
<1>1. /\ Forget(p)
      /\ UNCHANGED <<settings, known, migration, menu, chat, lastId, cycle, updates>>
      /\ left' = left \cup ({shown[p], stored[p]} \ {None})
  BY DEF Rollback, database, telegram
<1>2. Types'
  <2>1. shown[p] \in MessageOrNone /\ stored[p] \in MessageOrNone
    BY DEF Inv, Types
  <2>2. left' \subseteq Messages
    BY <1>1, <2>1 DEF MessageOrNone, Inv, Types
  <2>3. job' \in [Sessions -> Kinds \cup {None}] /\ todo' \in [Sessions -> Seq(Awaits)]
    <3>1. <<>> \in Seq(Awaits)
      OBVIOUS
    <3>. QED
      BY <1>1, <3>1 DEF Forget, Inv, Types
  <2>4. /\ taken' \in [Sessions -> 0..2] /\ greeted' \in [Sessions -> BOOLEAN]
        /\ inserted' \in [Sessions -> BOOLEAN] /\ updated' \in [Sessions -> BOOLEAN]
        /\ enrolled' \in [Sessions -> BOOLEAN]
    BY <1>1 DEF Forget, Inv, Types
  <2>5. /\ found' \in [Sessions -> MessageOrNone] /\ shown' \in [Sessions -> MessageOrNone]
        /\ stored' \in [Sessions -> MessageOrNone]
    BY <1>1 DEF Forget, Inv, Types, MessageOrNone
  <2>. QED
    BY <1>1, <2>2, <2>3, <2>4, <2>5 DEF Inv, Types
<1>3. Script'
  BY <1>1, ScriptForgets DEF Inv
<1>4. Held'
  BY <1>1, HeldForgets DEF Inv
<1>5. Pool'
  <2>1. /\ taken' \in [Sessions -> 0..2]
        /\ \A q \in Sessions : taken'[q] \in {0, taken[q]} \/ (taken'[q] = 1 /\ taken[q] = 2)
    BY <1>1 DEF Forget, Inv, Types
  <2>. QED
    BY <1>1, <2>1, PoolKeeps DEF Inv
<1>6. Menus'
  BY MenusForget DEF Inv
<1>. QED
  BY <1>2, <1>3, <1>4, <1>5, <1>6 DEF Inv

\* The end of an update that succeeded.
LEMMA CommitKeeps ==
  ASSUME Inv, NEW p \in Sessions, Commit(p)
  PROVE  Inv'
<1>1. /\ Forget(p)
      /\ UNCHANGED <<migration, chat, lastId, cycle, left, updates>>
      /\ settings' = (settings \/ inserted[p]) /\ known' = (known \/ enrolled[p])
      /\ menu' = IF stored[p] = None THEN menu ELSE stored[p]
  BY DEF Commit, telegram
<1>2. Types'
  <2>1. menu' \in MessageOrNone
    BY <1>1 DEF Inv, Types
  <2>2. settings' \in BOOLEAN /\ known' \in BOOLEAN
    BY <1>1
  <2>3. job' \in [Sessions -> Kinds \cup {None}] /\ todo' \in [Sessions -> Seq(Awaits)]
    <3>1. <<>> \in Seq(Awaits)
      OBVIOUS
    <3>. QED
      BY <1>1, <3>1 DEF Forget, Inv, Types
  <2>4. /\ taken' \in [Sessions -> 0..2] /\ greeted' \in [Sessions -> BOOLEAN]
        /\ inserted' \in [Sessions -> BOOLEAN] /\ updated' \in [Sessions -> BOOLEAN]
        /\ enrolled' \in [Sessions -> BOOLEAN]
    BY <1>1 DEF Forget, Inv, Types
  <2>5. /\ found' \in [Sessions -> MessageOrNone] /\ shown' \in [Sessions -> MessageOrNone]
        /\ stored' \in [Sessions -> MessageOrNone]
    BY <1>1 DEF Forget, Inv, Types, MessageOrNone
  <2>. QED
    BY <1>1, <2>1, <2>2, <2>3, <2>4, <2>5 DEF Inv, Types
<1>3. Script'
  BY <1>1, ScriptForgets DEF Inv
<1>4. Held'
  <2>1. (settings => settings') /\ (settings' => settings \/ inserted[p])
    BY <1>1
  <2>. QED
    BY <1>1, <2>1, HeldForgets DEF Inv
<1>5. Pool'
  <2>1. /\ taken' \in [Sessions -> 0..2]
        /\ \A q \in Sessions : taken'[q] \in {0, taken[q]} \/ (taken'[q] = 1 /\ taken[q] = 2)
    BY <1>1 DEF Forget, Inv, Types
  <2>. QED
    BY <1>1, <2>1, PoolKeeps DEF Inv
<1>6. Menus'
  BY MenusCommit DEF Inv
<1>. QED
  BY <1>2, <1>3, <1>4, <1>5, <1>6 DEF Inv

\* An update arrives at a session that has nothing.
LEMMA ArriveKeeps ==
  ASSUME Inv, NEW p \in Sessions, Arrive(p)
  PROVE  Inv'
<1>1. PICK kind \in Kinds :
        /\ job' = [job EXCEPT ![p] = kind]
        /\ todo' = [todo EXCEPT ![p] = Update(kind)]
  BY DEF Arrive
<1>2. /\ job[p] = None /\ updates < MaxUpdates /\ updates' = updates + 1
      /\ UNCHANGED <<settings, known, migration, menu, chat, lastId, taken, cycle, greeted,
                     inserted, updated, enrolled, found, shown, stored, left>>
  BY DEF Arrive, database, telegram, writes
<1>3. /\ kind \in DOMAIN Handlers /\ kind # None /\ Shape(kind, Update(kind))
      /\ kind = "toggle" => "idle" \in Ahead(Update(kind))
      /\ kind = "apply" => "begin" \in Ahead(Update(kind))
      /\ Head(Update(kind)) = "connect" /\ Update(kind) \in Seq(Awaits)
  BY HandlerShapes, HandlersAssumption DEF Shape
<1>4. /\ job'[p] = kind /\ todo'[p] = Update(kind)
      /\ \A q \in Sessions \ {p} : job'[q] = job[q] /\ todo'[q] = todo[q]
  BY <1>1 DEF Inv, Types
<1>5. taken[p] = 0 /\ Clean(p) /\ shown[p] = None
  BY <1>2 DEF Inv, Script, InScript
<1>6. Types'
  <2>1. updates' \in 0..MaxUpdates
    BY <1>2, HandlersAssumption DEF Inv, Types
  <2>2. job' \in [Sessions -> Kinds \cup {None}] /\ todo' \in [Sessions -> Seq(Awaits)]
    BY <1>1, <1>3 DEF Inv, Types
  <2>. QED
    BY <1>2, <2>1, <2>2 DEF Inv, Types
<1>7. Kept(p)
  BY <1>2, <1>4 DEF Kept
<1>8. NextAwait(p)' = "connect" /\ ~Started(p)'
  BY <1>3, <1>4 DEF NextAwait, Started
<1>9. InScript(p)'
  BY <1>2, <1>3, <1>4, <1>5, <1>8 DEF InScript, Clean
<1>10. Script'
  BY <1>7, <1>9, ScriptOfOthers DEF Inv
<1>11. Held'
  <2>1. (InsertHeld(p) /\ EnrollHeld(p) /\ UpdateHeld(p) /\ StoreHeld(p))'
    BY <1>2, <1>3, <1>4, <1>5 DEF InsertHeld, EnrollHeld, UpdateHeld, StoreHeld, Clean
  <2>2. ASSUME NEW q \in Sessions, q # p
        PROVE  (InsertHeld(q) /\ EnrollHeld(q) /\ UpdateHeld(q) /\ StoreHeld(q))'
    <3>1. InsertHeld(q) /\ EnrollHeld(q) /\ UpdateHeld(q) /\ StoreHeld(q)
      BY DEF Inv, Held
    <3>2. job'[q] = job[q] /\ todo'[q] = todo[q]
      BY <1>4, <2>2
    <3>3. InsertHeld(q)' /\ EnrollHeld(q)'
      BY <1>2, <3>1, <3>2 DEF InsertHeld, EnrollHeld, Started, NextAwait
    <3>4. UpdateHeld(q)' /\ StoreHeld(q)'
      BY <1>2, <3>1, <3>2 DEF UpdateHeld, StoreHeld, Started, NextAwait
    <3>. QED
      BY <3>3, <3>4
  <2>3. (Alone(inserted) /\ Alone(enrolled) /\ Alone(updated) /\ Alone(Storing))'
    BY <1>2 DEF Inv, Held, Alone, Storing
  <2>. QED
    BY <1>2, <2>1, <2>2, <2>3 DEF Inv, Held
<1>12. Pool'
  BY <1>2 DEF Inv, Pool, InUse, Connections
<1>13. Menus'
  BY <1>2, <1>5, <1>7, <1>8, MenusQuiet DEF Inv
<1>. QED
  BY <1>6, <1>10, <1>11, <1>12, <1>13 DEF Inv

\* Steps that only take or give back a connection, or delete a message.
LEMMA ConnectionsKeep ==
  ASSUME Inv, UNCHANGED <<database, lastId, job, todo, writes, left, updates>>,
         chat' \subseteq chat, cycle' \in BOOLEAN, taken' \in [Sessions -> 0..2],
         \A q \in Sessions :
           /\ taken'[q] = 0 => taken[q] = 0
           /\ taken'[q] = 2 => taken[q] = 2 \/ NextAwait(q) \in Nested
           /\ job[q] = None => taken'[q] = 0,
         Pool'
  PROVE  Inv'
<1>1. UNCHANGED <<settings, known, migration, menu, greeted, inserted, updated, enrolled,
                 found, shown, stored>>
  BY DEF database, writes
<1>2. Types'
  BY <1>1 DEF Inv, Types
<1>3. Script'
  <2>1. SUFFICES ASSUME NEW q \in Sessions PROVE InScript(q)'
    BY DEF Script
  <2>2. NextAwait(q)' = NextAwait(q)
    BY DEF NextAwait
  <2>. QED
    BY <1>1, <2>2 DEF Inv, Script, InScript, Clean
<1>4. Held'
  <2>1. ASSUME NEW q \in Sessions
        PROVE  (InsertHeld(q) /\ EnrollHeld(q) /\ UpdateHeld(q) /\ StoreHeld(q))'
    <3>1. InsertHeld(q) /\ EnrollHeld(q) /\ UpdateHeld(q) /\ StoreHeld(q)
      BY DEF Inv, Held
    <3>2. InsertHeld(q)' /\ EnrollHeld(q)'
      BY <1>1, <3>1 DEF InsertHeld, EnrollHeld, Started, NextAwait
    <3>3. UpdateHeld(q)' /\ StoreHeld(q)'
      BY <1>1, <3>1 DEF UpdateHeld, StoreHeld, Started, NextAwait
    <3>. QED
      BY <3>2, <3>3
  <2>2. (Alone(inserted) /\ Alone(enrolled) /\ Alone(updated) /\ Alone(Storing))'
    BY <1>1 DEF Inv, Held, Alone, Storing
  <2>. QED
    BY <1>1, <2>1, <2>2 DEF Inv, Held
<1>5. Menus'
  BY <1>1, MenusSame DEF Inv
<1>. QED
  BY <1>2, <1>3, <1>4, <1>5 DEF Inv

\* A session takes its first or its second connection.
LEMMA ConnectKeeps ==
  ASSUME Inv, NEW p \in Sessions, Connect(p)
  PROVE  Inv'
<1>1. /\ taken' = [taken EXCEPT ![p] = @ + 1] /\ taken \in [Sessions -> 0..2]
      /\ UNCHANGED <<database, lastId, chat, job, todo, cycle, writes, left, updates>>
  BY DEF Connect, Inv, Types, telegram
<1>2. \/ taken[p] = 0 /\ Awaiting(p, "connect")
      \/ taken[p] = 1 /\ NextAwait(p) \in Nested /\ \E x : Awaiting(p, x)
  BY DEF Connect, NeedsConnection, Awaiting, NextAwait
<1>3. job[p] # None
  BY <1>2, Standing DEF Inv
<1>4. taken' \in [Sessions -> 0..2] /\ taken'[p] = taken[p] + 1
  BY <1>1, <1>2
<1>5. Connections' \subseteq Connections \cup {<<p, taken[p] + 1>>}
  <2>1. \A q \in Sessions : q # p => taken'[q] = taken[q]
    BY <1>1
  <2>2. \A c \in Sessions \X {1, 2} :
          /\ c[1] \in Sessions /\ c[2] \in {1, 2} /\ c = <<c[1], c[2]>>
    OBVIOUS
  <2>3. \A k \in {1, 2}, t \in 0..2 : k <= t + 1 => k <= t \/ k = t + 1
    OBVIOUS
  <2>4. \A c \in Sessions \X {1, 2} :
          c[2] <= taken'[c[1]] => c[2] <= taken[c[1]] \/ c = <<p, taken[p] + 1>>
    BY <1>1, <1>4, <2>1, <2>2, <2>3
  <2>. QED
    BY <1>1, <2>4 DEF Connections
<1>6. Pool'
  BY <1>5, PoolGrows DEF Inv, Connect
<1>7. \A q \in Sessions :
        /\ taken'[q] = 0 => taken[q] = 0
        /\ taken'[q] = 2 => taken[q] = 2 \/ NextAwait(q) \in Nested
        /\ job[q] = None => taken'[q] = 0
  <2>1. \A q \in Sessions \ {p} : taken'[q] = taken[q]
    BY <1>1
  <2>2. taken'[p] # 0 /\ (taken'[p] = 2 => NextAwait(p) \in Nested)
    BY <1>1, <1>2, <1>4
  <2>. QED
    BY <1>3, <2>1, <2>2 DEF Inv, Script, InScript
<1>. QED
  BY <1>1, <1>4, <1>6, <1>7, ConnectionsKeep DEF Inv, Types

\* The scheduler takes a connection and gives it back.
LEMMA CycleKeeps ==
  ASSUME Inv, CycleConnects \/ CycleReleases
  PROVE  Inv'
<1>1. /\ UNCHANGED <<database, lastId, chat, job, todo, taken, writes, left, updates>>
      /\ cycle' \in BOOLEAN
  BY DEF CycleConnects, CycleReleases, telegram
<1>2. Pool'
  <2>1. CASE CycleConnects
    <3>1. Connections' \subseteq Connections \cup {<<"scheduler", 1>>}
      BY <1>1 DEF Connections
    <3>. QED
      BY <2>1, <3>1, PoolGrows DEF Inv, CycleConnects
  <2>2. CASE CycleReleases
    <3>1. /\ taken' \in [Sessions -> 0..2]
          /\ \A q \in Sessions : taken'[q] \in {0, taken[q]} \/ (taken'[q] = 1 /\ taken[q] = 2)
          /\ ~cycle'
      BY <1>1, <2>2 DEF Inv, Types, CycleReleases
    <3>. QED
      BY <3>1, PoolKeeps DEF Inv
  <2>. QED
    BY <2>1, <2>2
<1>. QED
  BY <1>1, <1>2, ConnectionsKeep DEF Inv, Types, Script, InScript

\* The person deletes a message.
LEMMA DeleteKeeps ==
  ASSUME Inv, NEW m \in chat, Delete(m)
  PROVE  Inv'
<1>1. /\ UNCHANGED <<database, lastId, job, todo, taken, cycle, writes, left, updates>>
      /\ chat' \subseteq chat
  BY DEF Delete
<1>2. Pool'
  BY <1>1 DEF Inv, Pool, InUse, Connections
<1>. QED
  BY <1>1, <1>2, ConnectionsKeep DEF Inv, Types, Script, InScript
\* Steps of the update's own session that send nothing.
LEMMA QuietMenus ==
  ASSUME Inv, NEW p \in Sessions, NEW x, Awaiting(p, x), Moved(p), Kept(p), job' = job,
         UNCHANGED <<found, shown, stored, menu, chat, lastId, left>>,
         x \notin Rendering \/ (x = "edit" /\ Follows(job[p], x, NextAwait(p)'))
  PROVE  Menus'
<1>1. NextAwait(p) = x
  BY Standing DEF Inv
<1>2. shown[p] = None
  BY <1>1 DEF Inv, Menus, MenuHeld, Rendering
<1>3. NextAwait(p)' \notin {"send", "save", "insert", "update"}
  BY <1>1 DEF Moved, InPlace, Follows, Rendering
<1>. QED
  BY <1>2, <1>3, MenusQuiet DEF Inv

\* The middleware looks the person and the settings up.
LEMMA LookUpKeeps ==
  ASSUME Inv, NEW p \in Sessions, LookUp(p)
  PROVE  Inv'
<1>1. /\ Awaiting(p, "connect") /\ taken[p] = 1
      /\ greeted' = [greeted EXCEPT ![p] = known]
      /\ UNCHANGED <<settings, known, migration, menu, chat, lastId, job, taken, cycle, inserted,
                     updated, enrolled, found, shown, stored, left, updates>>
  BY DEF LookUp, database, telegram
<1>2. Moved(p)
  <2>1. CASE settings
    <3>1. Proceed(p)
      BY <2>1 DEF LookUp, Proceed
    <3>. QED
      BY <1>1, <3>1, Proceeds DEF Inv
  <2>2. CASE ~settings
    <3>1. Go(p, <<"create">>) /\ InPlace("connect", "create")
      BY <2>2 DEF LookUp, InPlace
    <3>. QED
      BY <1>1, <3>1, GoesOn DEF Inv
  <2>. QED
    BY <2>1, <2>2
<1>3. Kept(p)
  BY <1>1, <1>2 DEF Kept, Moved, Others, Inv, Types
<1>4. Types'
  BY <1>1, <1>2 DEF Inv, Types, Moved
<1>5. Menus'
  BY <1>1, <1>2, <1>3, QuietMenus DEF Rendering
<1>. QED
  BY <1>1, <1>2, <1>3, <1>4, <1>5, HandlerStep DEF Nested

\* The missing row of the settings is inserted by one update at a time.
LEMMA CreateSettingsKeeps ==
  ASSUME Inv, NEW p \in Sessions, CreateSettings(p)
  PROVE  Inv'
<1>1. /\ Awaiting(p, "create") /\ Holding(p, inserted) = {} /\ ~settings
      /\ inserted' = [inserted EXCEPT ![p] = TRUE] /\ Proceed(p)
      /\ UNCHANGED <<settings, known, migration, menu, chat, lastId, job, taken, cycle, greeted,
                     updated, enrolled, found, shown, stored, left, updates>>
  BY DEF CreateSettings, database, telegram
<1>2. Moved(p) /\ taken[p] = 1
  BY <1>1, Proceeds, Standing DEF Inv, Nested
<1>3. Kept(p)
  BY <1>1, <1>2 DEF Kept, Moved, Others, Inv, Types
<1>4. Types'
  BY <1>1, <1>2 DEF Inv, Types, Moved
<1>5. Menus'
  BY <1>1, <1>2, <1>3, QuietMenus DEF Rendering
<1>. QED
  BY <1>1, <1>2, <1>3, <1>4, <1>5, HandlerStep DEF Nested

\* /start records the person.
LEMMA EnrollKeeps ==
  ASSUME Inv, NEW p \in Sessions, Enroll(p)
  PROVE  Inv'
<1>1. /\ Awaiting(p, "enroll") /\ Holding(p, enrolled) = {}
      /\ enrolled' = [enrolled EXCEPT ![p] = ~known]
      /\ greeted' = [greeted EXCEPT ![p] = TRUE] /\ Proceed(p)
      /\ UNCHANGED <<settings, known, migration, menu, chat, lastId, job, taken, cycle, inserted,
                     updated, found, shown, stored, left, updates>>
  BY DEF Enroll, database, telegram
<1>2. Moved(p) /\ taken[p] = 1
  BY <1>1, Proceeds, Standing DEF Inv, Nested
<1>3. Kept(p)
  BY <1>1, <1>2 DEF Kept, Moved, Others, Inv, Types
<1>4. Types'
  BY <1>1, <1>2 DEF Inv, Types, Moved
<1>5. Menus'
  BY <1>1, <1>2, <1>3, QuietMenus DEF Rendering
<1>. QED
  BY <1>1, <1>2, <1>3, <1>4, <1>5, HandlerStep DEF Nested

\* A setting is changed, after the migration was found idle.
LEMMA ChangeKeeps ==
  ASSUME Inv, NEW p \in Sessions, Change(p)
  PROVE  Inv'
<1>1. /\ Awaiting(p, "change") /\ Holding(p, updated) = {}
      /\ updated' = [updated EXCEPT ![p] = TRUE] /\ Proceed(p)
      /\ UNCHANGED <<settings, known, migration, menu, chat, lastId, job, taken, cycle, greeted,
                     inserted, enrolled, found, shown, stored, left, updates>>
  BY DEF Change, database, telegram
<1>2. Moved(p) /\ taken[p] = 1
  BY <1>1, Proceeds, Standing DEF Inv, Nested
<1>3. Kept(p)
  BY <1>1, <1>2 DEF Kept, Moved, Others, Inv, Types
<1>4. Types'
  BY <1>1, <1>2 DEF Inv, Types, Moved
<1>5. Menus'
  BY <1>1, <1>2, <1>3, QuietMenus DEF Rendering
<1>. QED
  BY <1>1, <1>2, <1>3, <1>4, <1>5, HandlerStep DEF Nested

\* The answer of a button, and the edit of a message that is there.
LEMMA RequestKeeps ==
  ASSUME Inv, NEW p \in Sessions, Answer(p) \/ Edit(p)
  PROVE  Inv'
<1>1. PICK x \in {"answer", "edit"} : Awaiting(p, x)
  BY DEF Answer, Edit
<1>2. /\ Proceed(p)
      /\ UNCHANGED <<settings, known, migration, menu, chat, lastId, job, taken, cycle, greeted,
                     inserted, updated, enrolled, found, shown, stored, left, updates>>
  BY DEF Answer, Edit, database, telegram, writes
<1>3. Moved(p) /\ taken[p] = 1 /\ Follows(job[p], x, NextAwait(p)')
  BY <1>1, <1>2, Proceeds, Standing DEF Inv, Nested
<1>4. Kept(p)
  BY <1>2, <1>3 DEF Kept, Moved, Others
<1>5. Types'
  BY <1>2, <1>3 DEF Inv, Types, Moved
<1>6. Menus'
  BY <1>1, <1>2, <1>3, <1>4, QuietMenus DEF Rendering
<1>. QED
  BY <1>1, <1>2, <1>3, <1>4, <1>5, <1>6, HandlerStep DEF Nested

\* The message a render will edit or, if there is none, send.
LEMMA LookForMenuKeeps ==
  ASSUME Inv, NEW p \in Sessions, LookForMenu(p)
  PROVE  Inv'
<1>. DEFINE message == IF greeted[p] THEN Visible(p) ELSE None
            x == IF message = None THEN "send" ELSE "edit"
<1>1. /\ Awaiting(p, "render") /\ found' = [found EXCEPT ![p] = message]
      /\ UNCHANGED <<settings, known, migration, menu, chat, lastId, job, taken, cycle, greeted,
                     inserted, updated, enrolled, shown, stored, left, updates>>
  BY DEF LookForMenu, database, telegram
<1>2. Go(p, <<x>>) /\ InPlace("render", x)
  BY DEF LookForMenu, InPlace
<1>3. message \in MessageOrNone /\ Sent(message)
  BY DEF Inv, Types, Menus, MenuHeld, Visible, Sent, MessageOrNone
<1>. HIDE DEF x
<1>4. Moved(p) /\ NextAwait(p)' = x
  BY <1>1, <1>2, GoesOn DEF Inv
<1>5. taken[p] = 1 /\ NextAwait(p) = "render"
  BY <1>1, Standing DEF Inv, Nested
<1>6. found'[p] = message /\ \A q \in Sessions \ {p} : found'[q] = found[q]
  BY <1>1 DEF Inv, Types
<1>7. Kept(p)
  BY <1>1, <1>4, <1>6 DEF Kept, Moved, Others
<1>8. Types'
  BY <1>1, <1>3, <1>4 DEF Inv, Types, Moved
<1>9. Menus'
  <2>1. Onward
    BY <1>1, HandlersAssumption DEF Onward, Inv, Types
  <2>2. shown[p] = None
    BY <1>5 DEF Inv, Menus, MenuHeld
  <2>3. x \in {"send", "edit"} /\ (x = "send" => message = None)
    BY DEF x
  <2>. HIDE DEF message
  <2>4. Sent(found[p])' /\ Sent(shown[p])' /\ Sent(stored[p])'
    BY <1>1, <1>3, <1>6 DEF Inv, Menus, MenuHeld, Sent
  <2>5. MenuHeld(p)'
    BY <1>1, <1>4, <1>6, <2>2, <2>3, <2>4 DEF Inv, Menus, MenuHeld, Gone
  <2>6. MenuIsFound' /\ Sent(menu)'
    BY <1>1 DEF Inv, Menus, MenuIsFound, Sent
  <2>. QED
    BY <1>1, <1>7, <2>1, <2>5, <2>6, MenusOfOthers DEF Inv, Menus
<1>. QED
  BY <1>1, <1>4, <1>5, <1>7, <1>8, <1>9, HandlerStep DEF Nested

\* A message Telegram would not edit is left behind.
LEMMA EditRefusedKeeps ==
  ASSUME Inv, NEW p \in Sessions, EditRefused(p)
  PROVE  Inv'
<1>1. /\ Awaiting(p, "edit") /\ Go(p, <<"send">>) /\ left' = left \cup ({found[p]} \cap chat)
      /\ UNCHANGED <<settings, known, migration, menu, chat, lastId, job, taken, cycle, greeted,
                     inserted, updated, enrolled, found, shown, stored, updates>>
  BY DEF EditRefused, database, telegram, writes
<1>2. Moved(p) /\ NextAwait(p)' = "send"
  BY <1>1, GoesOn DEF Inv, InPlace
<1>3. taken[p] = 1 /\ NextAwait(p) = "edit"
  BY <1>1, Standing DEF Inv, Nested
<1>4. Kept(p)
  BY <1>1, <1>2 DEF Kept, Moved, Others
<1>5. Types'
  <2>1. chat \subseteq Messages
    BY HandlersAssumption DEF Inv, Types, Messages
  <2>. QED
    BY <1>1, <1>2, <2>1 DEF Inv, Types, Moved
<1>6. Menus'
  <2>1. Onward
    BY <1>1, HandlersAssumption DEF Onward, Inv, Types
  <2>2. shown[p] = None
    BY <1>3 DEF Inv, Menus, MenuHeld
  <2>3. Gone(found[p])' /\ (Gone(menu) => Gone(menu)')
    BY <1>1 DEF Gone
  <2>4. MenuHeld(p)'
    BY <1>1, <1>2, <2>2, <2>3 DEF Inv, Menus, MenuHeld, Sent
  <2>5. MenuIsFound' /\ Sent(menu)'
    BY <1>1 DEF Inv, Menus, MenuIsFound, Sent
  <2>. QED
    BY <1>1, <1>4, <2>1, <2>4, <2>5, MenusOfOthers DEF Inv, Menus
<1>. QED
  BY <1>1, <1>2, <1>3, <1>4, <1>5, <1>6, HandlerStep DEF Nested

\* A message that is sent is the sender's to store.
LEMMA SendKeeps ==
  ASSUME Inv, NEW p \in Sessions, Send(p)
  PROVE  Inv'
<1>1. /\ Awaiting(p, "send") /\ lastId < MaxMessages /\ lastId' = lastId + 1
      /\ chat' = chat \cup {lastId'} /\ shown' = [shown EXCEPT ![p] = lastId']
      /\ Go(p, <<"save">>)
      /\ UNCHANGED <<settings, known, migration, menu, job, taken, cycle, greeted, inserted,
                     updated, enrolled, found, stored, left, updates>>
  BY DEF Send, database
<1>2. Moved(p) /\ NextAwait(p)' = "save"
  BY <1>1, GoesOn DEF Inv, InPlace
<1>3. taken[p] = 1 /\ NextAwait(p) = "send" /\ job[p] # None
  BY <1>1, Standing DEF Inv, Nested
<1>4. shown'[p] = lastId' /\ \A q \in Sessions \ {p} : shown'[q] = shown[q]
  BY <1>1 DEF Inv, Types
<1>5. Kept(p)
  BY <1>1, <1>2, <1>4 DEF Kept, Moved, Others
<1>6. /\ lastId \in Nat /\ MaxMessages \in Nat /\ lastId' \in 1..MaxMessages
      /\ chat' \subseteq 1..lastId'
  BY <1>1, HandlersAssumption DEF Inv, Types
<1>7. Types'
  <2>1. lastId' \in MessageOrNone
    BY <1>6 DEF MessageOrNone, Messages
  <2>2. lastId' \in 0..MaxMessages
    BY <1>6
  <2>. QED
    BY <1>1, <1>2, <1>6, <2>1, <2>2 DEF Inv, Types, Moved
<1>8. Menus'
  <2>1. Onward
    BY <1>1, <1>6 DEF Onward
  <2>2. shown[p] = None /\ Gone(found[p]) /\ Sent(found[p]) /\ Sent(stored[p]) /\ Sent(menu)
    BY <1>3 DEF Inv, Menus, MenuHeld
  <2>3. Sent(found[p])' /\ Sent(stored[p])' /\ Sent(menu)'
    BY <1>1, <2>1, <2>2, GoneStaysGone DEF Sent, Inv
  <2>4. Gone(found[p])' /\ (Gone(menu) => Gone(menu)')
    BY <1>1, <2>1, <2>2, GoneStaysGone DEF Gone, Inv
  <2>5. Sent(shown[p])'
    BY <1>4, <1>6 DEF Sent
  <2>6. MenuHeld(p)'
    BY <1>1, <1>2, <2>3, <2>4, <2>5 DEF Inv, Menus, MenuHeld
  <2>7. MenuIsFound'
    <3>1. SUFFICES ASSUME NEW m \in chat'
                   PROVE  \/ m = menu \/ m \in left
                          \/ \E q \in Sessions : m \in {shown'[q], stored[q]}
      BY <1>1 DEF MenuIsFound
    <3>2. CASE m = lastId'
      BY <1>4, <3>2
    <3>3. CASE m \in chat
      <4>1. m # None
        BY <3>3, HandlersAssumption DEF Inv, Types
      <4>. QED
        BY <1>4, <2>2, <3>3, <4>1 DEF Inv, Menus, MenuIsFound
    <3>. QED
      BY <1>1, <3>2, <3>3
  <2>. QED
    BY <1>1, <1>5, <2>1, <2>3, <2>6, <2>7, MenusOfOthers DEF Inv, Menus
<1>. QED
  BY <1>1, <1>2, <1>3, <1>5, <1>7, <1>8, HandlerStep DEF Nested

\* The repository looks for the row of the menu again.
LEMMA LookForRowKeeps ==
  ASSUME Inv, NEW p \in Sessions, LookForRow(p)
  PROVE  Inv'
<1>1. PICK x \in {"insert", "update"} : Go(p, <<x>>)
  BY DEF LookForRow
<1>2. /\ Awaiting(p, "save")
      /\ UNCHANGED <<settings, known, migration, menu, chat, lastId, job, taken, cycle, greeted,
                     inserted, updated, enrolled, found, shown, stored, left, updates>>
  BY DEF LookForRow, database, telegram, writes
<1>3. Moved(p) /\ NextAwait(p)' = x
  BY <1>1, <1>2, GoesOn DEF Inv, InPlace
<1>4. taken[p] = 1 /\ NextAwait(p) = "save" /\ job[p] # None
  BY <1>2, Standing DEF Inv, Nested
<1>5. Kept(p)
  BY <1>2, <1>3 DEF Kept, Moved, Others
<1>6. Types'
  BY <1>2, <1>3 DEF Inv, Types, Moved
<1>7. Menus'
  <2>1. Onward
    BY <1>2, HandlersAssumption DEF Onward, Inv, Types
  <2>2. MenuHeld(p)'
    BY <1>2, <1>3, <1>4 DEF Inv, Menus, MenuHeld, Gone, Sent
  <2>3. MenuIsFound' /\ Sent(menu)'
    BY <1>2 DEF Inv, Menus, MenuIsFound, Sent
  <2>. QED
    BY <1>2, <1>5, <2>1, <2>2, <2>3, MenusOfOthers DEF Inv, Menus
<1>. QED
  BY <1>2, <1>3, <1>4, <1>5, <1>6, <1>7, HandlerStep DEF Nested

\* The message sent is written, by one update at a time.
LEMMA StoreKeeps ==
  ASSUME Inv, NEW p \in Sessions, InsertMenu(p) \/ UpdateMenu(p)
  PROVE  Inv'
<1>1. PICK x \in {"insert", "update"} : Awaiting(p, x)
  BY DEF InsertMenu, UpdateMenu
<1>2. Holding(p, Storing) = {} /\ Store(p)
  BY DEF InsertMenu, UpdateMenu
<1>3. /\ stored' = [stored EXCEPT ![p] = shown[p]] /\ shown' = [shown EXCEPT ![p] = None]
      /\ left' = left \cup ({Visible(p)} \ {None, found[p]}) /\ Proceed(p)
      /\ UNCHANGED <<settings, known, migration, menu, chat, lastId, job, taken, cycle, greeted,
                     inserted, updated, enrolled, found, updates>>
  BY <1>2 DEF Store, database, telegram
<1>4. Moved(p) /\ taken[p] = 1 /\ Follows(job[p], x, NextAwait(p)')
  BY <1>1, <1>3, Proceeds, Standing DEF Inv, Nested
<1>5. Kept(p)
  BY <1>3, <1>4 DEF Kept, Moved, Others, Inv, Types
<1>6. Types'
  <2>1. /\ stored' \in [Sessions -> MessageOrNone] /\ shown' \in [Sessions -> MessageOrNone]
    BY <1>3 DEF Inv, Types, MessageOrNone
  <2>2. left' \subseteq Messages
    BY <1>3 DEF Inv, Types, Visible, MessageOrNone
  <2>. QED
    BY <1>3, <1>4, <2>1, <2>2 DEF Inv, Types, Moved
<1>7. Menus'
  BY <1>1, <1>2, <1>4, <1>5, MenusStore DEF Inv
<1>. QED
  BY <1>1, <1>2, <1>3, <1>4, <1>5, <1>6, <1>7, HandlerStep DEF Nested

\* Statements of the second session that change no row.
LEMMA ReadKeeps ==
  ASSUME Inv, NEW p \in Sessions, Status(p) \/ CheckIdle(p) \/ Finish(p)
  PROVE  Inv'
<1>1. PICK x \in {"status", "idle", "finish"} : Awaiting(p, x)
  BY DEF Status, CheckIdle, Finish
<1>2. /\ Ready(p) /\ Done(p) /\ UNCHANGED <<settings, known, migration, menu>>
  BY DEF Status, CheckIdle, Finish, database
<1>3. Moved(p)
  <2>1. CASE Status(p)
    BY <2>1, Proceeds DEF Status, Inv
  <2>2. CASE CheckIdle(p) /\ migration \in Batches
    BY <2>2, Alerts DEF CheckIdle, Inv
  <2>3. CASE CheckIdle(p) /\ migration \notin Batches
    <3>1. todo' = [todo EXCEPT ![p] = Tail(@)]
      BY <2>3 DEF CheckIdle
    <3>. QED
      BY <2>3, <3>1, TailProceeds DEF CheckIdle, Inv
  <2>4. CASE Finish(p) /\ migration \in Batches
    BY <2>4, BatchesFirst DEF Finish, Inv
  <2>5. CASE Finish(p) /\ migration \notin Batches
    <3>1. todo' = [todo EXCEPT ![p] = Tail(@)]
      BY <2>5 DEF Finish
    <3>. QED
      BY <2>5, <3>1, TailProceeds DEF Finish, Inv
  <2>. QED
    BY <2>1, <2>2, <2>3, <2>4, <2>5
<1>4. /\ x \in Nested /\ x # "begin" /\ settings' \in BOOLEAN
      /\ migration' \in Batches \cup {"absent", "idle"}
      /\ migration' # "absent" => settings'
  BY <1>2 DEF Nested, Inv, Types, Held
<1>. QED
  BY <1>1, <1>2, <1>3, <1>4, NestedStep

\* A migration is started, or one is running already.
LEMMA BeginKeeps ==
  ASSUME Inv, NEW p \in Sessions, Begin(p)
  PROVE  Inv'
<1>1. Awaiting(p, "begin") /\ Ready(p) /\ Done(p) /\ UNCHANGED <<known, menu>>
  BY DEF Begin
<1>2. CASE migration \in Batches
  <2>1. /\ todo' = [todo EXCEPT ![p] = <<"answer", "commit">>]
        /\ UNCHANGED <<migration, settings>>
    BY <1>2 DEF Begin
  <2>2. Moved(p)
    BY <1>1, <1>2, <2>1, Alerts DEF Inv
  <2>3. /\ settings' \in BOOLEAN /\ migration' \in Batches \cup {"absent", "idle"}
        /\ migration' # "absent" /\ settings' /\ settings
    BY <1>2, <2>1 DEF Inv, Types, Held, Batches
  <2>. QED
    BY <1>1, <2>1, <2>2, <2>3, NestedStep DEF Nested
<1>3. CASE migration \notin Batches
  <2>1. migration' = "settings" /\ settings' = TRUE /\ Proceed(p)
    BY <1>3 DEF Begin
  <2>2. Moved(p)
    BY <1>1, <2>1, Proceeds DEF Inv
  <2>3. migration' \in Batches /\ migration' # "absent"
    BY <2>1 DEF Batches
  <2>. QED
    BY <1>1, <2>1, <2>2, <2>3, NestedStep DEF Nested
<1>. QED
  BY <1>2, <1>3

\* A batch moves the migration on, and never back to its absence.
LEMMA BatchKeeps ==
  ASSUME Inv, NEW p \in Sessions, Batch(p)
  PROVE  Inv'
<1>1. /\ Awaiting(p, "batch") /\ Ready(p) /\ Done(p) /\ Proceed(p)
      /\ UNCHANGED <<settings, known, menu>>
      /\ migration' = CASE migration = "settings" -> "menus"
                         [] migration = "menus" -> "complete"
                         [] migration = "complete" -> "idle"
                         [] OTHER -> migration
  BY DEF Batch
<1>2. /\ migration' \in Batches \cup {"absent", "idle"}
      /\ migration' = "absent" <=> migration = "absent"
  <2>1. CASE migration \in Batches
    <3>1. \/ migration = "settings" /\ migration' = "menus"
          \/ migration = "menus" /\ migration' = "complete"
          \/ migration = "complete" /\ migration' = "idle"
      BY <1>1, <2>1 DEF Batches
    <3>. QED
      BY <3>1 DEF Batches
  <2>2. CASE migration \in {"absent", "idle"}
    <3>1. migration' = migration
      BY <1>1, <2>2
    <3>. QED
      BY <2>2, <3>1
  <2>. QED
    BY <2>1, <2>2 DEF Inv, Types
<1>3. Moved(p)
  BY <1>1, Proceeds DEF Inv
<1>4. /\ settings' \in BOOLEAN /\ (migration' # "absent" => settings')
  BY <1>1, <1>2 DEF Inv, Types, Held
<1>. QED
  BY <1>1, <1>2, <1>3, <1>4, NestedStep DEF Nested

-----------------------------------------------------------------------------
(* The invariant, and the properties it implies.                           *)

\* The invariant holds at first.
LEMMA InitInv == Init => Inv
<1>. SUFFICES ASSUME Init PROVE Inv
  OBVIOUS
<1>1. /\ menu \in {1, None} /\ None # 1
      /\ chat = (IF menu = 1 THEN {1} ELSE {}) /\ lastId = (IF menu = 1 THEN 1 ELSE 0)
  <2>1. None # 1 /\ menu \in {1, None}
    BY HandlersAssumption DEF Init
  <2>2. CASE menu = 1
    <3>1. chat = {1}
      BY <2>1, <2>2 DEF Init
    <3>2. lastId = 1
      BY <3>1, FS_Singleton DEF Init
    <3>. QED
      BY <2>1, <2>2, <3>1, <3>2
  <2>3. CASE menu = None
    <3>1. chat = {}
      BY <2>3 DEF Init
    <3>2. lastId = 0
      BY <3>1, FS_EmptySet DEF Init
    <3>. QED
      BY <2>1, <2>3, <3>1, <3>2
  <2>. QED
    BY <2>1, <2>2, <2>3
<1>2. 1 \in 1..MaxMessages /\ 0 \in 0..MaxMessages /\ 1 \in 0..MaxMessages /\ 0 \in 0..MaxUpdates
  BY HandlersAssumption
<1>3. Types
  <2>1. menu \in MessageOrNone /\ lastId \in 0..MaxMessages /\ chat \subseteq 1..lastId
    BY <1>1, <1>2 DEF MessageOrNone, Messages
  <2>2. /\ settings \in BOOLEAN /\ known \in BOOLEAN /\ cycle \in BOOLEAN
        /\ migration \in Batches \cup {"absent", "idle"}
        /\ updates \in 0..MaxUpdates /\ left \subseteq Messages
    BY <1>2 DEF Init, Batches
  <2>3. <<>> \in Seq(Awaits)
    OBVIOUS
  <2>4. /\ job \in [Sessions -> Kinds \cup {None}] /\ todo \in [Sessions -> Seq(Awaits)]
        /\ taken \in [Sessions -> 0..2]
        /\ greeted \in [Sessions -> BOOLEAN] /\ inserted \in [Sessions -> BOOLEAN]
        /\ updated \in [Sessions -> BOOLEAN] /\ enrolled \in [Sessions -> BOOLEAN]
    BY <2>3 DEF Init
  <2>5. /\ found \in [Sessions -> MessageOrNone] /\ shown \in [Sessions -> MessageOrNone]
        /\ stored \in [Sessions -> MessageOrNone]
    BY DEF Init, MessageOrNone
  <2>. QED
    BY <2>1, <2>2, <2>4, <2>5 DEF Types
<1>4. /\ \A p \in Sessions :
           /\ job[p] = None /\ todo[p] = <<>> /\ taken[p] = 0
           /\ ~inserted[p] /\ ~updated[p] /\ ~enrolled[p]
           /\ found[p] = None /\ shown[p] = None /\ stored[p] = None
      /\ cycle = FALSE
  BY DEF Init
<1>5. Script
  BY <1>4 DEF Script, InScript, Clean
<1>6. Held
  <2>1. None \notin {"toggle", "apply"}
    BY HandlersAssumption DEF Handlers
  <2>2. \A p \in Sessions : InsertHeld(p) /\ EnrollHeld(p) /\ UpdateHeld(p) /\ StoreHeld(p)
    BY <1>4, <2>1 DEF InsertHeld, EnrollHeld, UpdateHeld, StoreHeld
  <2>3. Alone(inserted) /\ Alone(enrolled) /\ Alone(updated) /\ Alone(Storing)
    BY <1>4 DEF Alone, Storing
  <2>4. migration # "absent" => settings
    BY DEF Init
  <2>. QED
    BY <2>2, <2>3, <2>4 DEF Held
<1>7. Pool
  <2>1. \A c \in Sessions \X {1, 2} : ~(c[2] <= taken[c[1]])
    <3>1. \A k \in {1, 2} : ~(k <= 0)
      OBVIOUS
    <3>2. \A c \in Sessions \X {1, 2} : c[1] \in Sessions /\ c[2] \in {1, 2}
      OBVIOUS
    <3>. QED
      BY <1>4, <3>1, <3>2
  <2>2. Connections = {}
    BY <1>4, <2>1 DEF Connections
  <2>. QED
    BY <2>2, FS_EmptySet, HandlersAssumption DEF Pool, InUse
<1>8. Menus
  <2>1. \A p \in Sessions : MenuHeld(p)
    BY <1>4 DEF MenuHeld, Sent
  <2>2. Sent(menu) /\ MenuIsFound
    BY <1>1 DEF Sent, MenuIsFound
  <2>. QED
    BY <2>1, <2>2 DEF Menus
<1>. QED
  BY <1>3, <1>5, <1>6, <1>7, <1>8 DEF Inv

\* Every step keeps the invariant.
LEMMA NextInv == Inv /\ [Next]_vars => Inv'
<1>. SUFFICES ASSUME Inv, [Next]_vars PROVE Inv'
  OBVIOUS
<1>1. ASSUME NEW p \in Sessions, Step(p)
      PROVE  Inv'
  <2>1. CASE Connect(p)
    BY <2>1, ConnectKeeps
  <2>2. CASE PoolTimeout(p) \/ CreateFails(p) \/ InsertFails(p) \/ RequestFails(p)
    BY <2>2, RollbackKeeps DEF PoolTimeout, CreateFails, InsertFails, RequestFails
  <2>3. CASE LookUp(p) \/ CreateSettings(p) \/ Enroll(p) \/ Change(p)
    BY <2>3, LookUpKeeps, CreateSettingsKeeps, EnrollKeeps, ChangeKeeps
  <2>4. CASE Status(p) \/ CheckIdle(p) \/ Finish(p)
    BY <2>4, ReadKeeps
  <2>5. CASE Begin(p) \/ Batch(p)
    BY <2>5, BeginKeeps, BatchKeeps
  <2>6. CASE LookForMenu(p) \/ EditRefused(p) \/ Send(p) \/ LookForRow(p)
    BY <2>6, LookForMenuKeeps, EditRefusedKeeps, SendKeeps, LookForRowKeeps
  <2>7. CASE InsertMenu(p) \/ UpdateMenu(p)
    BY <2>7, StoreKeeps
  <2>8. CASE Answer(p) \/ Edit(p)
    BY <2>8, RequestKeeps
  <2>9. CASE Commit(p)
    BY <2>9, CommitKeeps
  <2>. QED
    BY <1>1, <2>1, <2>2, <2>3, <2>4, <2>5, <2>6, <2>7, <2>8, <2>9 DEF Step
<1>2. CASE \E p \in Sessions : Arrive(p)
  BY <1>2, ArriveKeeps
<1>3. CASE CycleConnects \/ CycleReleases
  BY <1>3, CycleKeeps
<1>4. CASE \E m \in chat : Delete(m)
  BY <1>4, DeleteKeeps
<1>5. CASE UNCHANGED vars
  <2>1. /\ UNCHANGED <<database, lastId, chat, job, todo, taken, cycle, writes, left, updates>>
    BY <1>5 DEF vars, telegram
  <2>2. Pool'
    BY <2>1 DEF Inv, Pool, InUse, Connections
  <2>. QED
    BY <2>1, <2>2, ConnectionsKeep DEF Inv, Types, Script, InScript
<1>. QED
  BY <1>1, <1>2, <1>3, <1>4, <1>5 DEF Next

\* The invariant holds always.
LEMMA InvAlways == Spec => []Inv
BY InitInv, NextInv, PTL DEF Spec

\* The invariant implies the types, the full pool and the clean ends.
LEMMA InvTyped == Inv => TypeOK
<1>. SUFFICES ASSUME Inv PROVE TypeOK
  OBVIOUS
<1>1. \A p \in Sessions : job[p] = None <=> todo[p] = <<>>
  BY DEF Inv, Script, InScript, Shape
<1>2. \A p \in Sessions : (job[p] = None) = (todo[p] = <<>>)
  BY <1>1
<1>3. \A p \in Sessions : job[p] = None => taken[p] = 0
  BY DEF Inv, Script, InScript
<1>4. \A p \in Sessions : taken[p] = 0 =>
        ~inserted[p] /\ ~updated[p] /\ ~enrolled[p] /\ stored[p] = None
  BY DEF Inv, Script, InScript, Clean
<1>5. InUse <= PoolSize
  BY DEF Inv, Pool
<1>. QED
  BY <1>2, <1>3, <1>4, <1>5 DEF Inv, Types, TypeOK

\* Every state is typed: the pool is never overdrawn, and a session that has
\* ended keeps neither a connection nor anything it wrote.
THEOREM TypeCorrect == Spec => []TypeOK
BY InvAlways, InvTyped, PTL

\* Rendered messages are the chat's menu, or on their way, or left behind.
THEOREM MenuIsFoundAlways == Spec => []MenuIsFound
<1>1. Inv => MenuIsFound
  BY DEF Inv, Menus
<1>. QED
  BY <1>1, InvAlways, PTL

-----------------------------------------------------------------------------
(* Circles.                                                                *)

\* The two circles that are known.
KnownCircle(p) ==
  /\ taken[p] = 2
  /\ \/ inserted[p] /\ migration = "absent"
     \/ job[p] = "apply" /\ stored[p] # None /\ Awaiting(p, "batch")

\* An update that waits holds a lock another wait is for, and what it awaits
\* tells which one it waits for.
LEMMA Waiting ==
  ASSUME Inv, NEW p \in Sessions, NEW q \in WaitsFor(p)
  PROVE  \/ /\ taken[p] = 2 /\ Awaiting(p, "batch") /\ q \in Sessions
            /\ stored[q] # None \/ updated[q]
         \/ /\ taken[p] = 2 /\ ~Awaiting(p, "batch") /\ q \in Sessions
            /\ migration = "absent" /\ inserted[q]
         \/ Awaiting(p, "create") /\ q \in Sessions \ {p} /\ inserted[q]
         \/ Awaiting(p, "enroll") /\ q \in Sessions \ {p} /\ enrolled[q]
         \/ Awaiting(p, "change") /\ q \in Sessions \ {p} /\ updated[q]
         \/ /\ Awaiting(p, "insert") \/ Awaiting(p, "update")
            /\ q \in Sessions \ {p} /\ stored[q] # None
<1>1. CASE taken[p] = 2
  <2>1. q \in NestedWaitsFor(p)
    <3>1. \A x : Awaiting(p, x) => x \in Nested
      BY <1>1, Standing DEF Inv, Script, InScript
    <3>2. /\ ~Awaiting(p, "create") /\ ~Awaiting(p, "enroll") /\ ~Awaiting(p, "change")
          /\ ~Awaiting(p, "insert") /\ ~Awaiting(p, "update")
      BY <3>1 DEF Nested
    <3>. QED
      BY <1>1, <3>2 DEF WaitsFor
  <2>. QED
    BY <1>1, <2>1 DEF NestedWaitsFor
<1>2. CASE taken[p] # 2 /\ \E x \in {"create", "enroll", "change", "insert", "update"} : Awaiting(p, x)
  <2>1. PICK x \in {"create", "enroll", "change", "insert", "update"} : Awaiting(p, x)
    BY <1>2
  <2>2. \A y : y # x => ~Awaiting(p, y)
    BY <2>1 DEF Awaiting
  <2>3. CASE x = "create"
    <3>1. q \in Holding(p, inserted)
      BY <1>2, <2>1, <2>2, <2>3 DEF WaitsFor
    <3>. QED
      BY <2>1, <2>3, <3>1 DEF Holding
  <2>4. CASE x = "enroll"
    <3>1. q \in Holding(p, enrolled)
      BY <1>2, <2>1, <2>2, <2>4 DEF WaitsFor
    <3>. QED
      BY <2>1, <2>4, <3>1 DEF Holding
  <2>5. CASE x = "change"
    <3>1. q \in Holding(p, updated)
      BY <1>2, <2>1, <2>2, <2>5 DEF WaitsFor
    <3>. QED
      BY <2>1, <2>5, <3>1 DEF Holding
  <2>6. CASE x \in {"insert", "update"}
    <3>1. q \in Holding(p, Storing)
      BY <1>2, <2>1, <2>2, <2>6 DEF WaitsFor
    <3>. QED
      BY <2>1, <2>6, <3>1 DEF Holding, Storing
  <2>. QED
    BY <2>1, <2>3, <2>4, <2>5, <2>6
<1>3. CASE taken[p] # 2 /\ ~\E x \in {"create", "enroll", "change", "insert", "update"} : Awaiting(p, x)
  <2>1. WaitsFor(p) = {}
    BY <1>3 DEF WaitsFor
  <2>. QED
    BY <2>1
<1>. QED
  BY <1>1, <1>2, <1>3

\* An update that replaced the menu message waits for nobody but in the known
\* circle.
LEMMA StorerWaits ==
  ASSUME Inv, NEW p \in Sessions, stored[p] # None, NEW q \in WaitsFor(p)
  PROVE  KnownCircle(p)
<1>1. /\ job[p] # "apply" => Ahead(todo[p]) \subseteq {"answer", "commit"}
      /\ job[p] = "apply" => migration # "absent"
  BY DEF Inv, Held, StoreHeld
<1>2. \A r \in Sessions : stored[r] # None => r = p
  BY DEF Inv, Held, Alone, Storing
<1>3. ASSUME job[p] # "apply", NEW x, Awaiting(p, x), x \notin {"answer", "commit"}
      PROVE  FALSE
  BY <1>1, <1>3, Standing DEF Inv
<1>4. taken[p] = 2 => job[p] = "apply"
  <2>1. ASSUME taken[p] = 2 PROVE \E x \in Nested : Awaiting(p, x)
    <3>1. NextAwait(p) \in Nested /\ todo[p] # <<>>
      BY <2>1 DEF Inv, Script, InScript, Shape
    <3>. QED
      BY <3>1 DEF Awaiting, NextAwait
  <2>. QED
    BY <1>3, <2>1 DEF Nested
<1>5. CASE taken[p] = 2 /\ Awaiting(p, "batch")
  BY <1>4, <1>5 DEF KnownCircle
<1>6. CASE Awaiting(p, "create") \/ Awaiting(p, "enroll") \/ Awaiting(p, "change")
  <2>1. job[p] # "apply" \/ Awaiting(p, "create")
    BY <1>6, Standing DEF Inv, Fits
  <2>2. ~Awaiting(p, "create")
    BY DEF Inv, Held, StoreHeld, Started, Awaiting, NextAwait
  <2>. QED
    BY <1>3, <1>6, <2>1, <2>2
<1>. QED
  BY <1>1, <1>2, <1>4, <1>5, <1>6, Waiting

\* Updates wait for each other, or for themselves, in the two known cases only.
LEMMA CirclesKnown == Inv => OnlyKnownCircles
<1>. SUFFICES ASSUME Inv, NEW W \in SUBSET Sessions, Circular(W),
                     \A p \in W : ~KnownCircle(p)
              PROVE  FALSE
  BY DEF OnlyKnownCircles, KnownCircle
<1>1. \A p \in W : p \in Sessions /\ \E q \in W : q \in WaitsFor(p)
  BY DEF Circular
<1>2. \A p \in W : stored[p] = None
  BY <1>1, StorerWaits
<1>3. ASSUME NEW p \in W, NEW x \in {"insert", "update"}, Awaiting(p, x)
      PROVE  FALSE
  <2>1. PICK q \in W : q \in WaitsFor(p)
    BY <1>1
  <2>2. \A y : y # x => ~Awaiting(p, y)
    BY <1>3 DEF Awaiting
  <2>3. taken[p] # 2
    BY <1>1, <1>3, Standing DEF Inv, Nested
  <2>4. stored[q] # None
    BY <1>1, <1>3, <2>1, <2>2, <2>3, Waiting
  <2>. QED
    BY <1>2, <2>4
<1>4. ASSUME NEW p \in W, enrolled[p]
      PROVE  FALSE
  <2>1. job[p] = "start" /\ "enroll" \notin Ahead(todo[p]) /\ Started(p)
    BY <1>1, <1>4 DEF Inv, Held, EnrollHeld
  <2>2. ~Awaiting(p, "enroll") /\ ~Awaiting(p, "create") /\ ~Awaiting(p, "change")
    BY <1>1, <2>1, Standing DEF Inv, Started, Fits
  <2>3. taken[p] # 2
    <3>1. ASSUME taken[p] = 2 PROVE \E x \in Nested : Awaiting(p, x)
      <4>1. NextAwait(p) \in Nested /\ todo[p] # <<>>
        BY <1>1, <3>1 DEF Inv, Script, InScript, Shape
      <4>. QED
        BY <4>1 DEF Awaiting, NextAwait
    <3>. QED
      BY <1>1, <2>1, <3>1, Standing DEF Inv, Fits
  <2>. QED
    BY <1>1, <1>3, <2>2, <2>3, Waiting
<1>5. ASSUME NEW p \in W, inserted[p]
      PROVE  FALSE
  <2>1. Started(p) /\ ~settings /\ migration = "absent"
    BY <1>1, <1>5 DEF Inv, Held, InsertHeld
  <2>2. taken[p] # 2
    BY <1>5, <2>1 DEF KnownCircle
  <2>3. ~Awaiting(p, "create")
    BY <2>1 DEF Started, Awaiting, NextAwait
  <2>4. ~Awaiting(p, "change")
    <3>1. ASSUME Awaiting(p, "change") PROVE FALSE
      <4>1. job[p] = "toggle" /\ "idle" \notin Ahead(todo[p])
        BY <1>1, <3>1, Standing DEF Inv, Fits, Follows
      <4>. QED
        BY <1>1, <1>5, <4>1 DEF Inv, Held, InsertHeld
    <3>. QED
      BY <3>1
  <2>5. Awaiting(p, "enroll")
    BY <1>1, <1>3, <2>2, <2>3, <2>4, Waiting
  <2>6. \A y : y # "enroll" => ~Awaiting(p, y)
    BY <2>5 DEF Awaiting
  <2>. QED
    BY <1>1, <1>4, <2>2, <2>5, <2>6, Waiting
<1>6. ASSUME NEW p \in W, updated[p]
      PROVE  FALSE
  <2>1. /\ Started(p) /\ job[p] = "toggle"
        /\ "idle" \notin Ahead(todo[p]) /\ "change" \notin Ahead(todo[p])
    BY <1>1, <1>6 DEF Inv, Held, UpdateHeld
  <2>2. ~Awaiting(p, "create") /\ ~Awaiting(p, "change") /\ ~Awaiting(p, "enroll")
    BY <1>1, <2>1, Standing DEF Inv, Started, Fits
  <2>3. ~Awaiting(p, "batch")
    BY <1>1, <2>1, Standing DEF Inv, Fits
  <2>. QED
    BY <1>1, <1>3, <1>5, <2>2, <2>3, Waiting
<1>7. PICK p \in W, q \in W : q \in WaitsFor(p)
  BY <1>1 DEF Circular
<1>. QED
  BY <1>1, <1>2, <1>4, <1>5, <1>6, <1>7, Waiting

\* However many updates are handled at once: they wait in a circle only when the
\* one that inserted the row of the settings asks for the status of a migration
\* that was never started, or the one that replaced the menu runs the batches.
THEOREM OnlyKnownCirclesAlways == Spec => []OnlyKnownCircles
BY InvAlways, CirclesKnown, PTL
=============================================================================
