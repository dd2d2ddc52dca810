----------------------------- MODULE MCChatTurn -----------------------------
(***************************************************************************)
(* Instances of ChatTurn for TLC.  Turns do not share state, so one of     *)
(* them, with the retry limit of the code, shows what any number would.    *)
(***************************************************************************)
EXTENDS ChatTurn

CONSTANT t1
============================================================================
