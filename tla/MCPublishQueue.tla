--------------------------- MODULE MCPublishQueue ---------------------------
(* Instances of PublishQueue for TLC; the sizes are in the .cfg files. *)
EXTENDS PublishQueue, TLC

CONSTANTS p1, p2, none, b1, b2, t1, c1, e1, e2

\* Batches are interchangeable; sound where no liveness is checked
BatchSymmetry == Permutations(Batches)
=============================================================================
