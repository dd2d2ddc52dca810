--------------------------- MODULE MCKeyRotation ---------------------------
(***************************************************************************)
(* Instances of KeyRotation for TLC.  The gateway serves w1 and w2 with one*)
(* KeyStore, hupi-consolidate runs w3, and each invocation of              *)
(* hupi-rotate-key is a process of its own.                                *)
(***************************************************************************)
EXTENDS KeyRotation, TLC

CONSTANTS w1, w2, w3, r1, r2, gateway, consolidate, cli1, cli2,
          ep, ep0, sum, fact, ent

MCHome == [a \in Actors |-> CASE a = w1 -> gateway
                              [] a = w2 -> gateway
                              [] a = w3 -> consolidate
                              [] a = r1 -> cli1
                              [] a = r2 -> cli2]

MCTableOf == [x \in Rows |-> CASE x \in {ep, ep0} -> "episodes"
                               [] x = sum -> "summaries"
                               [] x = fact -> "facts"
                               [] x = ent -> "entities"]

MCParentOf == [x \in Rows |-> IF x = fact THEN sum ELSE x]

\* Runs of hupi-rotate-key may change places, each with its process.
MCRuns ==
    {p \in Permutations(Rotators \cup {Home[r] : r \in Rotators}) :
        \A r \in Rotators : p[r] \in Rotators /\ p[Home[r]] = Home[p[r]]}
============================================================================
