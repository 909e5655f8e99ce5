--------------------------- MODULE MCContentStudio ---------------------------
(* Instances of ContentStudio for TLC; the sizes are in the .cfg file. *)
EXTENDS ContentStudio

\* Every kind of line, lists next to each other and next to paragraphs
MCTexts == {<<"heading", "text", "text", "bullet", "number", "number", "text", "cta">>,
            <<"bullet", "blank", "bullet", "text", "heading", "number">>}
MCEdits == {Blank, <<"text", "number", "blank", "cta", "bullet">>}

Budget(a, p, e, c, o) == [asks |-> a, posts |-> p, edits |-> e, changes |-> c, openings |-> o]

MCBudgets == {Budget(2, 1, 0, 1, 0), Budget(2, 0, 2, 1, 0), Budget(1, 1, 1, 1, 1),
              Budget(1, 1, 0, 0, 2), Budget(1, 2, 0, 1, 1), Budget(2, 0, 0, 1, 1)}
=============================================================================
