---------------------------- MODULE TurnContract ----------------------------
(***************************************************************************)
(* What a chat turn promises its client, without the vendor, the retries,  *)
(* the goroutines and the database: an answer is shown piece by piece, one *)
(* attempt is made to remember it, and the client is told that the turn is *)
(* done, or that it failed.  Nothing is shown once the answer is           *)
(* remembered except what is remembered, what is remembered is what was    *)
(* shown, a turn that failed has shown and remembered nothing, and only a  *)
(* remembered turn can be rated.                                           *)
(***************************************************************************)
EXTENDS Integers

CONSTANTS Turns, Lengths

VARIABLES
    seen,       \* what each client has got, and been told
    memory,     \* the episode of each turn, and its feedback
    lost        \* the attempt to remember it failed, or was not wanted

vars == <<seen, memory, lost>>

Init ==
    /\ seen = [t \in Turns |-> [got |-> 0, told |-> "nothing"]]
    /\ memory = [t \in Turns |-> [row |-> FALSE, out |-> 0, truncated |-> FALSE,
                                  rated |-> "no"]]
    /\ lost = [t \in Turns |-> FALSE]

Open(t) == seen[t].told = "nothing" /\ ~memory[t].row

Show(t) ==
    /\ Open(t)
    /\ seen' = [seen EXCEPT ![t].got = @ + 1]
    /\ UNCHANGED <<memory, lost>>

Remember(t) ==
    \E n \in Lengths, truncated \in BOOLEAN :
        /\ seen[t].got > 0 => n = seen[t].got
        /\ memory' = [memory EXCEPT ![t].row = TRUE, ![t].out = n,
                                    ![t].truncated = truncated]

\* The one attempt.  It may be reported lost although it was not.
Attempt(t) ==
    /\ Open(t) /\ ~lost[t]
    /\ \/ Remember(t) /\ \E b \in BOOLEAN : lost' = [lost EXCEPT ![t] = b]
       \/ UNCHANGED memory /\ lost' = [lost EXCEPT ![t] = TRUE]
    /\ UNCHANGED seen

EndWell(t) ==
    /\ seen[t].told = "nothing"
    /\ memory[t].row \/ lost[t]
    /\ \E n \in Lengths :
          /\ n >= seen[t].got
          /\ memory[t].row => n = memory[t].out
          /\ seen' = [seen EXCEPT ![t].got = n, ![t].told = "done"]
    /\ UNCHANGED <<memory, lost>>

EndBadly(t) ==
    /\ Open(t) /\ seen[t].got = 0
    /\ seen' = [seen EXCEPT ![t].told = "error"]
    /\ UNCHANGED <<memory, lost>>

Rate(t) ==
    /\ seen[t].got > 0 \/ seen[t].told = "done"
    /\ memory' = [memory EXCEPT ![t].rated = IF memory[t].row THEN "stored" ELSE "refused"]
    /\ UNCHANGED <<seen, lost>>

Next == \E t \in Turns : Show(t) \/ Attempt(t) \/ EndWell(t) \/ EndBadly(t) \/ Rate(t)

Spec == Init /\ [][Next]_vars

=============================================================================
