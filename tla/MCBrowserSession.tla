-------------------------- MODULE MCBrowserSession --------------------------
(* Instances of BrowserSession for TLC; the sizes are in the .cfg files. *)
EXTENDS BrowserSession

CONSTANTS t1, t2, q1, q2, u1, u2

\* The second login is another user's
MCUserOf == [l \in Logins |-> IF l = 1 THEN u1 ELSE u2]
=============================================================================
