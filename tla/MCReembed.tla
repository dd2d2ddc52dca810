------------------------------ MODULE MCReembed ------------------------------
(***************************************************************************)
(* An instance of Reembed for TLC: summary s1 with fact f1 exists, s2 is   *)
(* stored while hupi-reembed runs and the scope's key is rotated; one      *)
(* consolidator is already on the new model.                               *)
(***************************************************************************)
EXTENDS Reembed

CONSTANTS s1, s2, f1, ada1, ada2

MCFactsOf == [s \in Summaries |-> IF s = s1 THEN {f1} ELSE {}]
MCModelOf == [c \in Consolidators |-> ada2]
==============================================================================
