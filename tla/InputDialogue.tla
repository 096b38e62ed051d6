----------------------------- MODULE InputDialogue -----------------------------
(***************************************************************************)
(* The dialogue with one user in one chat: the inputs the bot asks for (the *)
(* states of aiogram's finite state machine, with the data collected so    *)
(* far) and the timer that ends an input left unanswered.                  *)
(*                                                                         *)
(* Every update is a task of its own.  The FSM state is looked up when the *)
(* update arrives and chooses the handler, which runs after the            *)
(* dependencies were loaded; InputTimeoutMiddleware cancels the registered *)
(* timer before the handler, and registers a new one after it if the user  *)
(* is still asked for something.  The storage is in memory: its reads and  *)
(* writes do not suspend, so what a handler does between two awaits is one *)
(* step.  Passwords are kept in the FSM data from one message to the next. *)
(***************************************************************************)
EXTENDS Naturals, FiniteSets

CONSTANTS
  MaxUpdates,  \* bounds of the model: the updates of a behaviour
  None,        \* no state, no timer
  AtOnce,      \*   and those handled at the same time
  Begins       \* inputs the user can be asked for by /start or a button

\* States by what their handler does with the answer.  setup_token and
\* forum_token are SetupStates.api_token and SettingsStates.api_token.
Collecting == {"password", "password_confirmation", "current_password", "new_password"}
Following ==
  [s \in Collecting |->
     CASE s = "password" -> "password_confirmation"
       [] s = "password_confirmation" -> "setup_token"
       [] s = "current_password" -> "new_password"
       [] s = "new_password" -> "new_password_confirmation"]
LastSteps == {"setup_token", "unlock_password", "forum_token", "new_password_confirmation"}
Fields == {"reference", "custom_interval", "identity", "global_interval", "retry_schedule"}
ByStart == {"password", "unlock_password"}
States == Collecting \cup LastSteps \cup Fields

\* Keys of the FSM data.
Secrets == {"setup_password", "current", "new"}
Keeps ==
  [s \in Collecting |->
     CASE s \in {"password", "password_confirmation"} -> "setup_password"
       [] s = "current_password" -> "current"
       [] s = "new_password" -> "new"]
Needs(s) ==
  CASE s \in {"password_confirmation", "setup_token"} -> {"setup_password"}
    [] s = "new_password_confirmation" -> {"current", "new"}
    [] s = "custom_interval" -> {"topic_id"}
    [] OTHER -> {}

ASSUME DialogueAssumption ==
  /\ Begins \subseteq States
  /\ None \notin States \cup Nat
  /\ MaxUpdates \in Nat /\ AtOnce \in Nat \ {0}

VARIABLES
  state,       \* FSMContext: state and
  data,        \*   keys in its data
  pc,          \* pc[u]: where u's task is
  input,       \* input[u]: what the user did
  raw,         \* raw[u]: raw_state, the FSM state when the text u arrived
  timer,       \* timer[u]: the task created after u was handled
  registered,  \* InputTimeoutMiddleware._tasks: whose timer, None if none
  typed,       \* history: passwords that began to be collected
  passed,      \* history: calls made with a collected password
  overlapped   \* history: an update arrived while another was handled

dialogue == <<state, data>>
history == <<typed, passed, overlapped>>
vars == <<dialogue, pc, input, raw, timer, registered, history>>

\* Updates in the order of their arrival.
Updates == 1 .. MaxUpdates
Inputs == [does : {"begin"}, asks : Begins] \cup [does : {"text", "cancel", "other"}]
Handling == {"entered", "greeted", "calling", "answering"}

TypeOK ==
  /\ state \in States \cup {None}
  /\ data \subseteq Secrets \cup {"topic_id"}
  /\ pc \in [Updates -> {"new", "arrived", "done"} \cup Handling]
  /\ input \in [Updates -> Inputs \cup {None}]
  /\ raw \in [Updates -> States \cup {None}]
  /\ timer \in [Updates -> {"none", "asleep", "telling"}]
  /\ registered \in Updates \cup {None}
  /\ typed \in Nat /\ passed \in Nat /\ overlapped \in BOOLEAN
  \* The data lives and dies with the state, and only a live timer is registered.
  /\ state = None => data = {}
  /\ registered # None => timer[registered] \in {"asleep", "telling"}

Init ==
  /\ state = None /\ data = {}
  /\ pc = [u \in Updates |-> "new"]
  /\ input = [u \in Updates |-> None]
  /\ raw = [u \in Updates |-> None]
  /\ timer = [u \in Updates |-> "none"]
  /\ registered = None
  /\ typed = 0 /\ passed = 0 /\ overlapped = FALSE

-----------------------------------------------------------------------------
(* The steps of an update.                                                 *)

Goto(u, step) == pc' = [pc EXCEPT ![u] = step]
Clear == state' = None /\ data' = {}

Leave(u) ==
  /\ Goto(u, "done")
  /\ input' = [input EXCEPT ![u] = None]
  /\ raw' = [raw EXCEPT ![u] = None]

\* The handler of u: a text is handled by the state it arrived in.
Answers(u, states) == input[u].does = "text" /\ raw[u] \in states

InFlight == {u \in Updates : pc[u] \notin {"new", "done"}}

Arrive(u) ==
  /\ pc[u] = "new" /\ \A v \in Updates : v < u => pc[v] # "new"
  /\ Cardinality(InFlight) < AtOnce
  /\ \E i \in Inputs :
       /\ input' = [input EXCEPT ![u] = i]
       /\ raw' = [raw EXCEPT ![u] = IF i.does = "text" THEN state ELSE None]
  /\ overlapped' = (overlapped \/ InFlight # {})
  /\ Goto(u, "arrived")
  /\ UNCHANGED <<dialogue, timer, registered, typed, passed>>

\* Mutant: leaves the timer running.
EnterKeepingTimer(u) ==
  /\ pc[u] = "arrived"
  /\ registered' = None
  /\ Goto(u, "entered")
  /\ UNCHANGED <<dialogue, input, raw, timer, history>>

\* InputTimeoutMiddleware, before the handler.
Enter(u) ==
  /\ pc[u] = "arrived"
  /\ timer' = IF registered = None THEN timer ELSE [timer EXCEPT ![registered] = "none"]
  /\ registered' = None
  /\ Goto(u, "entered")
  /\ UNCHANGED <<dialogue, input, raw, history>>

\* The database cannot be reached: the update ends before that.
FailEarly(u) ==
  /\ pc[u] = "arrived"
  /\ Leave(u)
  /\ UNCHANGED <<dialogue, timer, registered, history>>

\* /start clears the dialogue before it asks for the password.
Greet(u) ==
  /\ pc[u] = "entered"
  /\ input[u].does = "begin" /\ input[u].asks \in ByStart
  /\ Clear
  /\ Goto(u, "greeted")
  /\ UNCHANGED <<input, raw, timer, registered, history>>

\* A button, or /start, asks for an input.  The data of another one is left.
Ask(u) ==
  /\ pc[u] \in {"entered", "greeted"}
  /\ input[u].does = "begin"
  /\ pc[u] = "greeted" <=> input[u].asks \in ByStart
  /\ state' = input[u].asks
  /\ data' = IF input[u].asks = "custom_interval" THEN data \cup {"topic_id"} ELSE data
  /\ Goto(u, "answering")
  /\ UNCHANGED <<input, raw, timer, registered, history>>

\* /cancel, or its button.
Cancel(u) ==
  /\ pc[u] = "entered"
  /\ input[u].does = "cancel"
  /\ Clear
  /\ Goto(u, "answering")
  /\ UNCHANGED <<input, raw, timer, registered, history>>

\* A handler that asks for nothing, or one whose actor is not allowed to press.
Ignore(u) ==
  /\ pc[u] = "entered"
  /\ input[u].does \in {"begin", "other"} \/ Answers(u, {None})
  /\ Goto(u, "answering")
  /\ UNCHANGED <<dialogue, input, raw, timer, registered, history>>

\* The actor is not allowed, or the password is empty or differs from its
\* confirmation: the input ends.
Refuse(u) ==
  /\ pc[u] = "entered"
  /\ Answers(u, States)
  /\ Clear
  /\ Goto(u, "answering")
  /\ UNCHANGED <<input, raw, timer, registered, history>>

\* A password is kept in the data and the next input asked for.
Collect(u) ==
  /\ pc[u] = "entered"
  /\ Answers(u, Collecting)
  /\ Needs(raw[u]) \subseteq data
  /\ data' = data \cup {Keeps[raw[u]]}
  /\ state' = Following[raw[u]]
  /\ typed' = IF raw[u] \in {"password", "current_password"} THEN typed + 1 ELSE typed
  /\ Goto(u, "answering")
  /\ UNCHANGED <<input, raw, timer, registered, passed, overlapped>>

\* Mutant: cleared when the service has answered.
TakeAllKeeping(u) ==
  /\ pc[u] = "entered"
  /\ Answers(u, LastSteps)
  /\ LET called == Needs(raw[u]) \subseteq data
     IN  /\ Goto(u, IF called THEN "calling" ELSE "answering")
         /\ passed' = IF called /\ Needs(raw[u]) # {} THEN passed + 1 ELSE passed
  /\ UNCHANGED <<dialogue, input, raw, timer, registered, typed, overlapped>>

\* The last answer: what was collected is taken and the dialogue cleared at
\* once, then the service is called, unless something is missing.
TakeAll(u) ==
  /\ pc[u] = "entered"
  /\ Answers(u, LastSteps)
  /\ Clear
  /\ LET called == Needs(raw[u]) \subseteq data
     IN  /\ Goto(u, IF called THEN "calling" ELSE "answering")
         /\ passed' = IF called /\ Needs(raw[u]) # {} THEN passed + 1 ELSE passed
  /\ UNCHANGED <<input, raw, timer, registered, typed, overlapped>>

\* A value is handed to the service, or found malformed and asked for again.
Submit(u) ==
  /\ pc[u] = "entered"
  /\ Answers(u, Fields)
  /\ \/ Needs(raw[u]) \subseteq data /\ Goto(u, "calling")
     \/ Goto(u, "answering")
  /\ UNCHANGED <<dialogue, input, raw, timer, registered, history>>

\* The service answers.  Only for a field is the dialogue cleared now, if the
\* value was accepted.
Called(u) ==
  /\ pc[u] = "calling"
  /\ \/ raw[u] \in Fields /\ Clear
     \/ UNCHANGED dialogue
  /\ Goto(u, "answering")
  /\ UNCHANGED <<input, raw, timer, registered, history>>

\* Mutant: not when the handler raises.
FinishReturning(u) ==
  /\ pc[u] \in Handling
  /\ IF state # None /\ pc[u] = "answering"
       THEN /\ timer' = [timer EXCEPT ![u] = "asleep"]
            /\ registered' = u
       ELSE UNCHANGED <<timer, registered>>
  /\ Leave(u)
  /\ UNCHANGED <<dialogue, history>>

\* The middleware's finally: the handler has returned, or raised wherever it was.
Finish(u) ==
  /\ pc[u] \in Handling
  /\ IF state # None
       THEN /\ timer' = [timer EXCEPT ![u] = "asleep"]
            /\ registered' = u
       ELSE UNCHANGED <<timer, registered>>
  /\ Leave(u)
  /\ UNCHANGED <<dialogue, history>>

\* Mutant: the state is cleared and the data is not.
ExpireState(u) ==
  /\ timer[u] = "asleep"
  /\ state' = None
  /\ timer' = [timer EXCEPT ![u] = "telling"]
  /\ UNCHANGED <<data, pc, input, raw, registered, history>>

\* _expire: the time is over, the dialogue is cleared and the user told.
Expire(u) ==
  /\ timer[u] = "asleep"
  /\ Clear
  /\ timer' = [timer EXCEPT ![u] = "telling"]
  /\ UNCHANGED <<pc, input, raw, registered, history>>

Told(u) ==
  /\ timer[u] = "telling"
  /\ timer' = [timer EXCEPT ![u] = "none"]
  /\ registered' = IF registered = u THEN None ELSE registered
  /\ UNCHANGED <<dialogue, pc, input, raw, history>>

Handle(u) ==
  \/ Enter(u)
  \/ FailEarly(u)
  \/ Greet(u)
  \/ Ask(u)
  \/ Cancel(u)
  \/ Ignore(u)
  \/ Refuse(u)
  \/ Collect(u)
  \/ TakeAll(u)
  \/ Submit(u)
  \/ Called(u)
  \/ Finish(u)

Next == \E u \in Updates : Arrive(u) \/ Handle(u) \/ Expire(u) \/ Told(u)

Spec == Init /\ [][Next]_vars

\* A task that can run does, requests to Telegram and the forum time out, and
\* a sleep ends.
FairSpec == Spec /\ \A u \in Updates : WF_vars(Handle(u)) /\ WF_vars(Expire(u))

-----------------------------------------------------------------------------
(* Properties.                                                             *)

\* An input asked for never waits for ever: when no update is being handled, a
\* timer is running for it.
PromptIsTimed ==
  state # None /\ (\A u \in Updates : pc[u] \notin Handling) =>
    \E u \in Updates : timer[u] = "asleep"

\* However many messages arrive before the first is handled, a password that
\* was collected reaches SetupService once.
PasswordUsedOnce == passed <= typed

\* A password collected is forgotten in the end, wherever the user leaves the
\* dialogue (the updates of a behaviour are finite): it is used, refused,
\* cancelled or expires, even when handlers overlap or raise.
PasswordForgotten == data \cap Secrets # {} ~> data \cap Secrets = {}

\* When the flow has finished its timer is cancelled: nothing clears a later
\* input or tells of a time-out.
FinishedFlowUntimed ==
  state = None /\ InFlight = {} => \A u \in Updates : timer[u] # "asleep"

\* That is so as long as every update arrives after the one before was handled.
SerialFlowUntimed == ~overlapped => FinishedFlowUntimed
=============================================================================
