----------------------------- MODULE MCSecretSetup -----------------------------
(***************************************************************************)
(* SecretSetup with two sessions and two passwords.                         *)
(***************************************************************************)
EXTENDS SecretSetup, TLC

CONSTANTS p1, p2, pwA, pwB

MCSessions == {p1, p2}
MCPasswords == {pwA, pwB}

\* Sessions are interchangeable, and so are the passwords typed.
MCSymmetry == Permutations(MCSessions) \cup Permutations(MCPasswords)
=============================================================================
