----------------------------- MODULE MCRetrieval ----------------------------
(* A day, its correction and a week; an episode; two entities, and the     *)
(* self model.  One question names an entity and days that it does not lie *)
(* in, but the week does; another names it and no days.                    *)
EXTENDS Retrieval

CONSTANTS s1, s2, w, t1, e1, e2

MCSupersedes == [s \in Summaries |-> IF s = s2 THEN s1 ELSE Absent]

MCSpan == [x \in Rows |-> CASE x \in {s1, s2} -> <<1, 2>> [] x = w -> <<2, 4>>
                            [] x = t1 -> <<1, 2>> [] x = e1 -> <<1, 2>>
                            [] OTHER -> <<3, 4>>]

Ask(names, signal, terms, window) ==
    [empty |-> FALSE, names |-> names, signal |-> signal, terms |-> terms,
     window |-> window]

MCQuestions ==
    { [Ask({}, FALSE, FALSE, NoWindow) EXCEPT !.empty = TRUE],
      Ask({}, FALSE, TRUE, NoWindow),
      Ask({e1}, TRUE, TRUE, <<2, 3>>),
      Ask({e1}, FALSE, TRUE, NoWindow) }

=============================================================================
