---------------------------- MODULE MCLiveQueue ----------------------------
(* Instances of LiveQueue for TLC, in one workspace; the sizes are in the .cfg files. *)
EXTENDS LiveQueue

CONSTANTS w1, t1, c1, c2

MCHome == [c \in Clients |-> w1]
MCWorkspaceOf == [t \in Tabs |-> w1]
=============================================================================
