--------------------------- MODULE MCClaimProtocol ---------------------------
(***************************************************************************)
(* ClaimProtocol with two scheduler processes that share two topics, and a *)
(* lease of one tick that can run out once.                                *)
(***************************************************************************)
EXTENDS ClaimProtocol

CONSTANTS s1, s2, t1, t2

MCSchedulers == {s1, s2}
TwoTopics == {t1, t2}
=============================================================================
