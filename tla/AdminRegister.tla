---------------------------- MODULE AdminRegister ----------------------------
(***************************************************************************)
(* What the tables known_users and administrators promise to the owner,    *)
(* without the statements, locks and unique keys behind them: every update *)
(* that is carried out changes the register of one person, at once, no two *)
(* persons are found under one name, and the owner is never entered as an  *)
(* administrator.  AccessControl implements this specification.            *)
(***************************************************************************)
CONSTANTS
  Users,    \* Telegram users
  Owner,    \* settings.owner_id
  Names,    \* usernames
  Unknown,  \* a user the bot has no row for
  NoName    \* a user the bot cannot find by a name

VARIABLES
  known,    \* known[u]: the name the bot finds u by
  admins    \* administrators

vars == <<known, admins>>

Init ==
  /\ known \in [Users -> Names \cup {Unknown, NoName}]
  /\ \A u, v \in Users : known[u] = known[v] /\ known[u] \in Names => u = v
  /\ admins = {}

Free(u, n) == n = NoName \/ \A v \in Users \ {u} : known[v] # n

\* The person started the bot; the register follows their name.
Record(u, n) ==
  /\ Free(u, n)
  /\ known' = [known EXCEPT ![u] = n]
  /\ UNCHANGED admins

Admissible(u) == u # Owner /\ u \notin admins

\* The owner named a person the bot knows.
Admit(u) ==
  /\ Admissible(u)
  /\ known[u] # Unknown
  /\ admins' = admins \cup {u}
  /\ UNCHANGED known

\* The owner named a person by a Telegram id the bot has not met: they are
\* recorded without a name and admitted at once.
Enrol(u) ==
  /\ Admissible(u)
  /\ known' = [known EXCEPT ![u] = NoName]
  /\ admins' = admins \cup {u}

Dismiss(u) ==
  /\ u \in admins
  /\ admins' = admins \ {u}
  /\ UNCHANGED known

Next ==
  \E u \in Users :
    \/ \E n \in Names \cup {NoName} : Record(u, n)
    \/ Admit(u)
    \/ Enrol(u)
    \/ Dismiss(u)

Spec == Init /\ [][Next]_vars
=============================================================================
