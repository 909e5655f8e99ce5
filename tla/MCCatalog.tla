------------------------------- MODULE MCCatalog -------------------------------
(* Two products, two modes, two pages; a few clicks of every kind, in several starts. *)
EXTENDS Catalog

MCFinds == {1, 2}
MCModes == {"hot", "deals"}
MCSubs == {1}
MCAnswers == {{}, {1, 2}}
MCTwo == {1, 2}
MCFilters == {"all", "draft"}

Nothing == [f \in MCFinds |-> "none"]
Drafts == [f \in MCFinds |-> "draft"]
Mixed == [f \in MCFinds |-> IF f = 1 THEN "draft" ELSE "active"]

No == [runs |-> 0, clicks |-> 0, failures |-> 0, tasks |-> 0, turns |-> 0, jobs |-> 0, others |-> 0, moves |-> 0]
Begin0(st, o, a) == [stock |-> st, open |-> o, allowance |-> a]

MCStarts ==
    {Begin0(Nothing, "discovery", a) : a \in {
        [No EXCEPT !.runs = 3, !.clicks = 1, !.failures = 1],
        [No EXCEPT !.runs = 2, !.clicks = 1, !.moves = 2],
        [No EXCEPT !.runs = 1, !.failures = 1, !.tasks = 2],
        [No EXCEPT !.runs = 1, !.tasks = 3],
        [No EXCEPT !.runs = 1, !.tasks = 2, !.moves = 1],
        [No EXCEPT !.runs = 1, !.tasks = 1, !.moves = 1, !.turns = 1]}}
    \cup {Begin0(Drafts, "products", a) : a \in {
        [No EXCEPT !.turns = 2, !.jobs = 1, !.failures = 1],
        [No EXCEPT !.turns = 1, !.jobs = 2, !.moves = 1],
        [No EXCEPT !.turns = 1, !.jobs = 1, !.others = 1],
        [No EXCEPT !.jobs = 1, !.moves = 2]}}
    \cup {Begin0(Mixed, "products", [No EXCEPT !.turns = 3, !.jobs = 1])}
================================================================================
