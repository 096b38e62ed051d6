---------------------------- MODULE MCInputDialogue ----------------------------
(***************************************************************************)
(* InputDialogue with the two dialogues that collect passwords, setup and  *)
(* key change, and an input that is answered by a single message.  Five    *)
(* updates are what it takes to go through one of the dialogues and to     *)
(* send one message too many.                                              *)
(***************************************************************************)
EXTENDS InputDialogue

PasswordsAndInterval == {"password", "current_password", "custom_interval"}
=============================================================================
