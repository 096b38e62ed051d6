--------------------------- MODULE MCAccessControl ---------------------------
(***************************************************************************)
(* Instance of AccessControl for TLC: the owner and another person, who    *)
(* exchange a username, and two updates at a time.                         *)
(***************************************************************************)
EXTENDS AccessControl, TLC

SessionSymmetry == Permutations(Sessions)
=============================================================================
