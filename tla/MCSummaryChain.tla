--------------------------- MODULE MCSummaryChain ---------------------------
(***************************************************************************)
(* Instances of SummaryChain for TLC: days d1 and d2 make up week w, and   *)
(* month m is made of week w.                                              *)
(***************************************************************************)
EXTENDS SummaryChain, TLC

CONSTANTS d1, d2, w, m, e1, e2, e3

MCSourcesOf == [q \in Rollups |-> IF q = w THEN Days ELSE {w}]
MCDayOf == [e \in Episodes |-> IF e = e2 THEN d2 ELSE d1]
\* The consolidators are interchangeable.
Symmetry == Permutations(Consolidators)
============================================================================
