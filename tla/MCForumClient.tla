----------------------------- MODULE MCForumClient -----------------------------
(***************************************************************************)
(* ForumClient with three tasks, so that one overtakes another in the      *)
(* queue if the lock lets it, and the four kinds of status that matter.    *)
(***************************************************************************)
EXTENDS ForumClient

CONSTANTS p1, p2, p3, j1
=============================================================================
