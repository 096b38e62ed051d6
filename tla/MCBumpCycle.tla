----------------------------- MODULE MCBumpCycle -----------------------------
(***************************************************************************)
(* BumpCycle with two or three topics and a retry schedule of two delays.  *)
(***************************************************************************)
EXTENDS BumpCycle, TLC

CONSTANTS t1, t2, t3

TwoTopics == {t1, t2}
ThreeTopics == {t1, t2, t3}
Symmetry == Permutations(ThreeTopics)

TwoDelays == <<1, 2>>
=============================================================================
