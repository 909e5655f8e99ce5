--------------------------- MODULE MCQueueEvents ---------------------------
(* The instance of QueueEvents for TLC; the sizes are in the .cfg file. *)
EXTENDS QueueEvents

CONSTANTS w1, w2, c1, c2

\* Two connections of one workspace; nobody listens to the other one
MCHome == [c \in Clients |-> w1]
=============================================================================
