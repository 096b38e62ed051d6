------------------------- MODULE InputDialogue_proofs -------------------------
(***************************************************************************)
(* For any number of updates, handled in any order and any of them at the  *)
(* same time: an input asked for is timed, a password that was collected   *)
(* is used at most once, and while updates come one after the other no     *)
(* timer outlives its flow.                                                *)
(***************************************************************************)
EXTENDS InputDialogue, TLAPS

\* What the three arguments need of the types.
Types ==
  /\ pc \in [Updates -> {"new", "arrived", "done"} \cup Handling]
  /\ timer \in [Updates -> {"none", "asleep", "telling"}]
  /\ registered \in Updates \cup {None}
  /\ typed \in Nat /\ passed \in Nat /\ overlapped \in BOOLEAN

LEMMA NoneIsNoUpdate == None \notin Updates
  BY DialogueAssumption DEF DialogueAssumption, Updates

LEMMA TypesInit == Init => Types
<1>1. Init => overlapped \in BOOLEAN
  BY Zenon DEF Init
<1>. QED
  BY <1>1 DEF Init, Types, Handling

LEMMA TypesNext == Types /\ [Next]_vars => Types'
<1>. SUFFICES ASSUME Types, [Next]_vars PROVE Types'
  OBVIOUS
<1>. USE DEF Types, Handling
<1>1. CASE UNCHANGED vars
  BY <1>1 DEF vars, history
<1>2. ASSUME NEW u \in Updates, Arrive(u) PROVE Types'
  <2>1. overlapped' \in BOOLEAN
    BY <1>2, Zenon DEF Arrive
  <2>. QED
    BY <1>2, <2>1 DEF Arrive, Goto
<1>3. ASSUME NEW u \in Updates, Enter(u) PROVE Types'
  BY <1>3 DEF Enter, Goto, history
<1>4. ASSUME NEW u \in Updates, FailEarly(u) PROVE Types'
  BY <1>4 DEF FailEarly, Leave, Goto, history
<1>5. ASSUME NEW u \in Updates, Greet(u) \/ Ask(u) \/ Cancel(u) \/ Ignore(u) \/ Refuse(u)
      PROVE Types'
  BY <1>5 DEF Greet, Ask, Cancel, Ignore, Refuse, Goto, history
<1>6. ASSUME NEW u \in Updates, Collect(u) PROVE Types'
  BY <1>6 DEF Collect, Goto
<1>7. ASSUME NEW u \in Updates, TakeAll(u) PROVE Types'
  BY <1>7 DEF TakeAll, Goto
<1>8. ASSUME NEW u \in Updates, Submit(u) \/ Called(u) PROVE Types'
  BY <1>8 DEF Submit, Called, Goto, history
<1>9. ASSUME NEW u \in Updates, Finish(u) PROVE Types'
  BY <1>9 DEF Finish, Leave, Goto, history
<1>10. ASSUME NEW u \in Updates, Expire(u) \/ Told(u) PROVE Types'
  BY <1>10 DEF Expire, Told, history
<1>. QED
  BY <1>1, <1>2, <1>3, <1>4, <1>5, <1>6, <1>7, <1>8, <1>9, <1>10 DEF Next, Handle

-----------------------------------------------------------------------------
(* An input asked for is timed.                                            *)

LEMMA PromptNext == Types /\ PromptIsTimed /\ [Next]_vars => PromptIsTimed'
<1>. SUFFICES ASSUME Types, PromptIsTimed, [Next]_vars,
                     state' # None, \A v \in Updates : pc'[v] \notin Handling
              PROVE  \E v \in Updates : timer'[v] = "asleep"
  BY DEF PromptIsTimed
<1>. USE DEF Types
<1>1. CASE UNCHANGED vars
  BY <1>1 DEF vars, dialogue, PromptIsTimed
<1>2. ASSUME NEW u \in Updates, Arrive(u) \/ FailEarly(u) \/ Told(u)
      PROVE  \E v \in Updates : timer'[v] = "asleep"
  <2>1. state' = state
    BY <1>2 DEF Arrive, FailEarly, Told, dialogue
  <2>2. \A v \in Updates : pc[v] \notin Handling
    BY <1>2 DEF Arrive, FailEarly, Told, Leave, Goto, Handling
  <2>3. PICK v \in Updates : timer[v] = "asleep"
    BY <2>1, <2>2 DEF PromptIsTimed
  <2>4. timer'[v] = "asleep"
    BY <1>2, <2>3 DEF Arrive, FailEarly, Told
  <2>. QED
    BY <2>4
<1>3. ASSUME NEW u \in Updates,
             Enter(u) \/ Greet(u) \/ Ask(u) \/ Cancel(u) \/ Ignore(u) \/ Refuse(u)
               \/ Collect(u) \/ TakeAll(u) \/ Submit(u) \/ Called(u)
      PROVE  FALSE
  <2>1. pc'[u] \in Handling
    BY <1>3 DEF Enter, Greet, Ask, Cancel, Ignore, Refuse, Collect, TakeAll, Submit,
                Called, Goto, Handling
  <2>. QED
    BY <2>1
<1>4. ASSUME NEW u \in Updates, Finish(u)
      PROVE  \E v \in Updates : timer'[v] = "asleep"
  <2>1. state' = state
    BY <1>4 DEF Finish, dialogue
  <2>2. timer'[u] = "asleep"
    BY <1>4, <2>1 DEF Finish
  <2>. QED
    BY <2>2
<1>5. ASSUME NEW u \in Updates, Expire(u) PROVE FALSE
  BY <1>5 DEF Expire, Clear
<1>. QED
  BY <1>1, <1>2, <1>3, <1>4, <1>5 DEF Next, Handle

\* An input asked for never waits for ever: a timer runs for it whenever no
\* update is being handled.
THEOREM PromptIsTimedAlways == Spec => []PromptIsTimed
<1>1. Init => Types /\ PromptIsTimed
  BY TypesInit DEF Init, PromptIsTimed
<1>2. Types /\ PromptIsTimed /\ [Next]_vars => (Types /\ PromptIsTimed)'
  BY TypesNext, PromptNext
<1>. QED
  BY <1>1, <1>2, PTL DEF Spec

-----------------------------------------------------------------------------
(* A password is used once.                                                *)

\* Whatever the dialogue still holds was counted when it was typed, and not yet
\* when it was passed on.  Both dialogues begin with a password of their own.
Openers == {"setup_password", "current"}
UsedOrHeld ==
  /\ passed <= typed
  /\ data \cap Openers # {} => passed + 1 <= typed

LEMMA UsedOrHeldNext == Types /\ UsedOrHeld /\ [Next]_vars => UsedOrHeld'
<1>. SUFFICES ASSUME Types, UsedOrHeld, [Next]_vars PROVE UsedOrHeld'
  OBVIOUS
<1>. USE DEF UsedOrHeld, Types
<1>1. CASE UNCHANGED vars
  BY <1>1 DEF vars, history, dialogue
<1>2. ASSUME NEW u \in Updates,
             Arrive(u) \/ Enter(u) \/ FailEarly(u) \/ Ignore(u) \/ Submit(u)
               \/ Finish(u) \/ Told(u)
      PROVE  UsedOrHeld'
  BY <1>2 DEF Arrive, Enter, FailEarly, Ignore, Submit, Finish, Told, history, dialogue
<1>3. ASSUME NEW u \in Updates,
             Greet(u) \/ Cancel(u) \/ Refuse(u) \/ Expire(u)
      PROVE  UsedOrHeld'
  BY <1>3 DEF Greet, Cancel, Refuse, Expire, Clear, history
<1>4. ASSUME NEW u \in Updates, Ask(u) PROVE UsedOrHeld'
  <2>1. data' \cap Openers = data \cap Openers
    BY <1>4 DEF Ask, Openers
  <2>. QED
    BY <1>4, <2>1 DEF Ask, history
<1>5. ASSUME NEW u \in Updates, Called(u) PROVE UsedOrHeld'
  <2>1. data' = {} \/ data' = data
    BY <1>5 DEF Called, Clear, dialogue
  <2>. QED
    BY <1>5, <2>1 DEF Called, history
<1>6. ASSUME NEW u \in Updates, Collect(u) PROVE UsedOrHeld'
  <2>1. CASE raw[u] \in {"password", "current_password"}
    BY <1>6, <2>1 DEF Collect
  <2>2. CASE raw[u] = "password_confirmation"
    <3>1. "setup_password" \in data
      BY <1>6, <2>2 DEF Collect, Needs
    <3>. QED
      BY <1>6, <2>2, <3>1 DEF Collect, Openers
  <2>3. CASE raw[u] = "new_password"
    <3>1. data' = data \cup {"new"}
      BY <1>6, <2>3 DEF Collect, Keeps, Collecting
    <3>. QED
      BY <1>6, <2>3, <3>1 DEF Collect, Openers
  <2>4. raw[u] \in {"password", "password_confirmation", "current_password", "new_password"}
    BY <1>6 DEF Collect, Answers, Collecting
  <2>. QED
    BY <2>1, <2>2, <2>3, <2>4
<1>7. ASSUME NEW u \in Updates, TakeAll(u) PROVE UsedOrHeld'
  <2>1. Needs(raw[u]) \subseteq data /\ Needs(raw[u]) # {} => data \cap Openers # {}
    BY <1>7 DEF TakeAll, Answers, LastSteps, Needs, Openers
  <2>2. data' = {} /\ typed' = typed
    BY <1>7 DEF TakeAll, Clear
  <2>3. passed' = passed \/ (data \cap Openers # {} /\ passed' = passed + 1)
    BY <1>7, <2>1 DEF TakeAll
  <2>. QED
    BY <2>2, <2>3
<1>. QED
  BY <1>1, <1>2, <1>3, <1>4, <1>5, <1>6, <1>7 DEF Next, Handle

\* However the messages overlap, SetupService is called at most once for each
\* password that was collected.
THEOREM PasswordUsedOnceAlways == Spec => []PasswordUsedOnce
<1>1. Init => Types /\ UsedOrHeld
  BY TypesInit DEF Init, UsedOrHeld
<1>2. Types /\ UsedOrHeld /\ [Next]_vars => (Types /\ UsedOrHeld)'
  BY TypesNext, UsedOrHeldNext
<1>3. UsedOrHeld => PasswordUsedOnce
  BY DEF UsedOrHeld, PasswordUsedOnce
<1>. QED
  BY <1>1, <1>2, <1>3, PTL DEF Spec

-----------------------------------------------------------------------------
(* Serial updates leave no timer.                                          *)

\* One update after the other: one is in flight, only its timer can be
\* registered, none sleeps while it is handled, and one that sleeps has an
\* input to end.
InFlightNow(u) == pc[u] \notin {"new", "done"}
Serial ==
  /\ \A u, v \in Updates : InFlightNow(u) /\ InFlightNow(v) => u = v
  /\ \A u \in Updates : timer[u] = "asleep" =>
       /\ registered = u
       /\ state # None
       /\ \A v \in Updates : pc[v] \notin Handling

LEMMA SerialNext ==
  Types /\ (~overlapped => Serial) /\ [Next]_vars => (~overlapped => Serial)'
<1>. SUFFICES ASSUME Types, ~overlapped => Serial, [Next]_vars, ~overlapped'
              PROVE  Serial'
  BY Zenon
<1>. USE NoneIsNoUpdate DEF Types
<1>0. ~overlapped /\ Serial
  <2>1. overlapped' = overlapped
          \/ \E u \in Updates : overlapped' = (overlapped \/ InFlight # {})
    BY Zenon DEF Next, Handle, Arrive, Enter, FailEarly, Greet, Ask, Cancel, Ignore, Refuse,
           Collect, TakeAll, Submit, Called, Finish, Expire, Told, history, vars
  <2>. QED
    BY <2>1, Zenon
<1>1. CASE UNCHANGED vars
  BY <1>0, <1>1 DEF vars, dialogue, Serial, InFlightNow
<1>2. ASSUME NEW u \in Updates, Arrive(u) PROVE Serial'
  <2>1. InFlight = {}
    BY <1>2, Zenon DEF Arrive
  <2>2. \A v \in Updates : ~InFlightNow(v)
    BY <2>1 DEF InFlight, InFlightNow
  <2>3. /\ timer' = timer /\ registered' = registered /\ state' = state
        /\ pc' = [pc EXCEPT ![u] = "arrived"]
    BY <1>2 DEF Arrive, Goto, dialogue
  <2>. QED
    BY <1>0, <2>2, <2>3 DEF Serial, InFlightNow, Handling
<1>3. ASSUME NEW u \in Updates, Enter(u) PROVE Serial'
  <2>1. \A v \in Updates : timer'[v] # "asleep"
    BY <1>0, <1>3 DEF Enter, Serial
  <2>2. pc[u] = "arrived" /\ pc' = [pc EXCEPT ![u] = "entered"]
    BY <1>3 DEF Enter, Goto
  <2>. QED
    BY <1>0, <2>1, <2>2 DEF Serial, InFlightNow
<1>4. ASSUME NEW u \in Updates, FailEarly(u) PROVE Serial'
  <2>1. pc[u] = "arrived" /\ pc' = [pc EXCEPT ![u] = "done"]
    BY <1>4 DEF FailEarly, Leave, Goto
  <2>2. UNCHANGED <<timer, registered, state>>
    BY <1>4 DEF FailEarly, dialogue
  <2>. QED
    BY <1>0, <2>1, <2>2 DEF Serial, InFlightNow, Handling
<1>5. ASSUME NEW u \in Updates,
             Greet(u) \/ Ask(u) \/ Cancel(u) \/ Ignore(u) \/ Refuse(u)
               \/ Collect(u) \/ TakeAll(u) \/ Submit(u) \/ Called(u)
      PROVE  Serial'
  <2>1. pc[u] \in Handling /\ timer' = timer
    BY <1>5 DEF Greet, Ask, Cancel, Ignore, Refuse, Collect, TakeAll, Submit, Called, Handling
  <2>2. \A v \in Updates : timer'[v] # "asleep"
    BY <1>0, <2>1 DEF Serial
  <2>3. \A v \in Updates : InFlightNow(v)' => InFlightNow(v)
    BY <1>5, <2>1 DEF Greet, Ask, Cancel, Ignore, Refuse, Collect, TakeAll, Submit, Called,
                      Handling, Goto, InFlightNow
  <2>. QED
    BY <1>0, <2>2, <2>3 DEF Serial
<1>6. ASSUME NEW u \in Updates, Finish(u) PROVE Serial'
  <2>1. pc[u] \in Handling /\ pc' = [pc EXCEPT ![u] = "done"] /\ state' = state
    BY <1>6 DEF Finish, Leave, Goto, dialogue
  <2>2. \A v \in Updates : timer[v] # "asleep"
    BY <1>0, <2>1 DEF Serial
  <2>3. \A v \in Updates : InFlightNow(v) => v = u
    BY <1>0, <2>1 DEF Serial, InFlightNow, Handling
  <2>4. \A v \in Updates : pc'[v] \notin Handling
    BY <2>1, <2>3 DEF InFlightNow, Handling
  <2>5. \A v \in Updates : timer'[v] = "asleep" => v = u /\ registered' = u /\ state' # None
    BY <1>6, <2>1, <2>2 DEF Finish
  <2>6. \A v \in Updates : ~InFlightNow(v)'
    BY <2>1, <2>3 DEF InFlightNow
  <2>. QED
    BY <2>4, <2>5, <2>6 DEF Serial
<1>7. ASSUME NEW u \in Updates, Expire(u) PROVE Serial'
  <2>1. timer[u] = "asleep" /\ timer' = [timer EXCEPT ![u] = "telling"]
        /\ registered' = registered /\ pc' = pc
    BY <1>7 DEF Expire
  <2>2. \A v \in Updates : timer'[v] # "asleep"
    BY <1>0, <2>1 DEF Serial
  <2>. QED
    BY <1>0, <2>1, <2>2 DEF Serial, InFlightNow
<1>8. ASSUME NEW u \in Updates, Told(u) PROVE Serial'
  <2>1. timer[u] = "telling" /\ timer' = [timer EXCEPT ![u] = "none"]
        /\ pc' = pc /\ state' = state
        /\ registered' = (IF registered = u THEN None ELSE registered)
    BY <1>8 DEF Told, dialogue
  <2>. QED
    BY <1>0, <2>1 DEF Serial, InFlightNow
<1>. QED
  BY <1>1, <1>2, <1>3, <1>4, <1>5, <1>6, <1>7, <1>8 DEF Next, Handle

\* As long as every update arrives after the one before was handled, a finished
\* flow leaves no timer that could end a later input.
THEOREM SerialFlowUntimedAlways == Spec => []SerialFlowUntimed
<1>1. Init => Types /\ (~overlapped => Serial)
  BY TypesInit DEF Init, Serial, InFlightNow
<1>2. Types /\ (~overlapped => Serial) /\ [Next]_vars
        => (Types /\ (~overlapped => Serial))'
  BY TypesNext, SerialNext
<1>3. (~overlapped => Serial) => SerialFlowUntimed
  BY Zenon DEF Serial, SerialFlowUntimed, FinishedFlowUntimed
<1>. QED
  BY <1>1, <1>2, <1>3, PTL DEF Spec

-----------------------------------------------------------------------------
(* The types.                                                              *)

\* The update of a handler at work is known.
InputKnown == \A u \in Updates : pc[u] \in {"arrived"} \cup Handling => input[u] \in Inputs

LEMMA InputFields ==
  ASSUME NEW i \in Inputs
  PROVE  i.does = "begin" => i.asks \in Begins
  BY DEF Inputs

LEMMA TypeOKNext == TypeOK /\ InputKnown /\ [Next]_vars => TypeOK' /\ InputKnown'
<1>. SUFFICES ASSUME TypeOK, InputKnown, [Next]_vars PROVE TypeOK' /\ InputKnown'
  OBVIOUS
<1>. USE DialogueAssumption, NoneIsNoUpdate DEF Handling, dialogue, history
<1>. DEFINE Data == Secrets \cup {"topic_id"}
<1>1. /\ pc' \in [Updates -> {"new", "arrived", "done"} \cup Handling]
      /\ timer' \in [Updates -> {"none", "asleep", "telling"}]
      /\ registered' \in Updates \cup {None}
      /\ typed' \in Nat /\ passed' \in Nat /\ overlapped' \in BOOLEAN
  <2>1. Types
    BY DEF TypeOK, Types
  <2>. QED
    BY <2>1, TypesNext DEF Types
<1>2. ASSUME NEW u \in Updates, Arrive(u)
      PROVE  /\ input' \in [Updates -> Inputs \cup {None}]
             /\ raw' \in [Updates -> States \cup {None}]
             /\ InputKnown'
  BY <1>2 DEF Arrive, Goto, TypeOK, InputKnown
<1>3. ASSUME NEW u \in Updates, Leave(u)
      PROVE  /\ input' \in [Updates -> Inputs \cup {None}]
             /\ raw' \in [Updates -> States \cup {None}]
             /\ InputKnown'
  BY <1>3 DEF Leave, Goto, TypeOK, InputKnown
<1>4. ASSUME UNCHANGED <<input, raw>>,
             \A u \in Updates : pc'[u] \in {"arrived"} \cup Handling =>
               pc[u] \in {"arrived"} \cup Handling
      PROVE  /\ input' \in [Updates -> Inputs \cup {None}]
             /\ raw' \in [Updates -> States \cup {None}]
             /\ InputKnown'
  BY <1>4 DEF TypeOK, InputKnown
<1>5. /\ input' \in [Updates -> Inputs \cup {None}]
      /\ raw' \in [Updates -> States \cup {None}]
      /\ InputKnown'
  <2>1. ASSUME NEW u \in Updates,
               \/ Enter(u) \/ Greet(u) \/ Ask(u) \/ Cancel(u) \/ Ignore(u) \/ Refuse(u)
               \/ Collect(u) \/ TakeAll(u) \/ Submit(u) \/ Called(u)
        PROVE  /\ UNCHANGED <<input, raw>>
               /\ \A v \in Updates : pc'[v] \in {"arrived"} \cup Handling =>
                    pc[v] \in {"arrived"} \cup Handling
    BY <2>1 DEF Enter, Greet, Ask, Cancel, Ignore, Refuse, Collect, TakeAll, Submit, Called,
       Goto, TypeOK
  <2>2. ASSUME NEW u \in Updates, Expire(u) \/ Told(u) PROVE UNCHANGED <<input, raw, pc>>
    BY <2>2 DEF Expire, Told
  <2>3. ASSUME NEW u \in Updates, FailEarly(u) \/ Finish(u) PROVE Leave(u)
    BY <2>3 DEF FailEarly, Finish
  <2>4. CASE UNCHANGED vars
    BY <1>4, <2>4 DEF vars
  <2>. QED
    BY <1>2, <1>3, <1>4, <2>1, <2>2, <2>3, <2>4 DEF Next, Handle
<1>6. /\ state' \in States \cup {None} /\ data' \subseteq Data
      /\ state' = None => data' = {}
  <2>1. ASSUME Clear \/ UNCHANGED dialogue
        PROVE  /\ state' \in States \cup {None} /\ data' \subseteq Data
               /\ state' = None => data' = {}
    BY <2>1 DEF Clear, TypeOK
  <2>2. ASSUME NEW u \in Updates, Ask(u)
        PROVE  /\ state' \in States \cup {None} /\ data' \subseteq Data
               /\ state' = None => data' = {}
    <3>1. input[u] \in Inputs /\ input[u].does = "begin"
      BY <2>2 DEF Ask, InputKnown
    <3>2. input[u].asks \in States
      BY <3>1, InputFields
    <3>. QED
      BY <2>2, <3>2 DEF Ask, TypeOK
  <2>3. ASSUME NEW u \in Updates, Collect(u)
        PROVE  /\ state' \in States \cup {None} /\ data' \subseteq Data
               /\ state' = None => data' = {}
    <3>1. raw[u] \in Collecting
      BY <2>3 DEF Collect, Answers
    <3>2. Keeps[raw[u]] \in Secrets /\ Following[raw[u]] \in States
      BY <3>1 DEF Keeps, Following, Collecting, LastSteps, States, Secrets
    <3>. QED
      BY <2>3, <3>2 DEF Collect, TypeOK
  <2>4. ASSUME NEW u \in Updates,
               \/ Arrive(u) \/ Enter(u) \/ FailEarly(u) \/ Greet(u) \/ Cancel(u) \/ Ignore(u)
               \/ Refuse(u) \/ TakeAll(u) \/ Submit(u) \/ Called(u) \/ Finish(u) \/ Expire(u)
               \/ Told(u)
        PROVE  Clear \/ UNCHANGED dialogue
    BY <2>4 DEF Arrive, Enter, FailEarly, Greet, Cancel, Ignore, Refuse, TakeAll, Submit,
       Called, Finish, Expire, Told
  <2>5. CASE UNCHANGED vars
    BY <2>1, <2>5 DEF vars
  <2>. QED
    BY <2>1, <2>2, <2>3, <2>4, <2>5 DEF Next, Handle
<1>7. registered' # None => timer'[registered'] \in {"asleep", "telling"}
  <2>1. ASSUME NEW u \in Updates, Expire(u) \/ Told(u) \/ Enter(u) \/ Finish(u)
        PROVE  registered' # None => timer'[registered'] \in {"asleep", "telling"}
    BY <2>1 DEF Expire, Told, Enter, Finish, TypeOK
  <2>2. ASSUME NEW u \in Updates,
               \/ Arrive(u) \/ FailEarly(u) \/ Greet(u) \/ Ask(u) \/ Cancel(u) \/ Ignore(u)
               \/ Refuse(u) \/ Collect(u) \/ TakeAll(u) \/ Submit(u) \/ Called(u)
        PROVE  UNCHANGED <<timer, registered>>
    BY <2>2 DEF Arrive, FailEarly, Greet, Ask, Cancel, Ignore, Refuse, Collect, TakeAll,
       Submit, Called
  <2>3. CASE UNCHANGED <<timer, registered>>
    BY <2>3 DEF TypeOK
  <2>4. CASE UNCHANGED vars
    BY <2>3, <2>4 DEF vars
  <2>. QED
    BY <2>1, <2>2, <2>3, <2>4 DEF Next, Handle
<1>. QED
  BY <1>1, <1>5, <1>6, <1>7 DEF TypeOK

\* The types; the data lives and dies with the state of the dialogue, and only a
\* timer that runs is registered.
THEOREM TypeCorrect == Spec => []TypeOK
<1>1. Init => TypeOK /\ InputKnown
  <2>. SUFFICES ASSUME Init PROVE TypeOK /\ InputKnown
    OBVIOUS
  <2>1. overlapped \in BOOLEAN
    BY Zenon DEF Init
  <2>. QED
    BY <2>1 DEF Init, TypeOK, InputKnown, Handling
<1>. QED
  BY <1>1, TypeOKNext, PTL DEF Spec

=============================================================================
