---------------------------- MODULE TokenLineage ----------------------------
(***************************************************************************)
(* What the refresh tokens promise.  A login starts a lineage, once.  At any   *)
(* time a lineage has at most one token that can be exchanged, its head; the   *)
(* exchange makes another token the head and spends the old one; a spent       *)
(* token never comes back, and a lineage that ended never goes on.            *)
(***************************************************************************)
CONSTANTS Tokens, Logins, NoToken

VARIABLES
    head,   \* the token of a login that can be exchanged, or NoToken
    spent,  \* the tokens exchanged or revoked
    begun   \* the logins that have happened

lineageVars == <<head, spent, begun>>

Heads == {head[l] : l \in Logins} \ {NoToken}

LineageInit ==
    /\ head = [l \in Logins |-> NoToken]
    /\ spent = {} /\ begun = {}

Unused(k) == k \in Tokens /\ k \notin spent /\ k \notin Heads

Begin(l) ==
    /\ l \notin begun /\ begun' = begun \cup {l}
    /\ \E k \in Tokens : Unused(k) /\ head' = [head EXCEPT ![l] = k]
    /\ UNCHANGED spent

Exchange(l) ==
    /\ head[l] # NoToken
    /\ \E k \in Tokens : Unused(k) /\ head' = [head EXCEPT ![l] = k]
    /\ spent' = spent \cup {head[l]}
    /\ UNCHANGED begun

End(L) ==
    /\ head' = [l \in Logins |-> IF l \in L THEN NoToken ELSE head[l]]
    /\ spent' = spent \cup ({head[l] : l \in L} \ {NoToken})
    /\ UNCHANGED begun

LineageNext ==
    \/ \E l \in Logins : Begin(l) \/ Exchange(l)
    \/ \E L \in SUBSET Logins : End(L)

LineageSpec == LineageInit /\ [][LineageNext]_lineageVars
=============================================================================
