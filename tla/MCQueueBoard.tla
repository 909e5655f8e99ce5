---------------------------- MODULE MCQueueBoard ----------------------------
(* Instances of QueueBoard for TLC; the sizes are in the .cfg file. *)
EXTENDS QueueBoard

Row(s, c, l) == [st |-> s, chan |-> c, later |-> l, ver |-> 1, silent |-> FALSE,
                 last |-> IF s = "failed" THEN "failed" ELSE "none"]

\* Failed, to be queued again, and ready; without a channel, and failed with a schedule
MCRows == {<<Row("failed", TRUE, FALSE), Row("queued", TRUE, FALSE)>>,
           <<Row("queued", FALSE, FALSE), Row("failed", TRUE, TRUE)>>}

Budget(o, t, a, f) == [ops |-> o, turns |-> t, asks |-> a, foreign |-> f]

MCBudgets == {Budget(2, 0, 0, 0), Budget(1, 0, 0, 1), Budget(1, 1, 0, 0), Budget(1, 0, 2, 0),
              Budget(0, 2, 0, 1), Budget(0, 0, 1, 2)}
=============================================================================
