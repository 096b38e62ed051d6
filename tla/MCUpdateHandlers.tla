-------------------------- MODULE MCUpdateHandlers --------------------------
(***************************************************************************)
(* Instance of UpdateHandlers for TLC: two updates at a time.              *)
(***************************************************************************)
EXTENDS UpdateHandlers

\* The awaits of the other handlers begin or end those of these.
LongKinds == {"start", "main", "toggle", "apply", "resume"}
Toggles == {"toggle"}
=============================================================================
