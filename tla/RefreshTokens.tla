--------------------------- MODULE RefreshTokens ---------------------------
(***************************************************************************)
(* The refresh tokens at the server (app/auth/service.py): the rows           *)
(* of refresh_tokens and the transactions of POST /auth/refresh and            *)
(* /auth/logout.  A transaction takes the row of the token it was given FOR    *)
(* UPDATE.  A rotation is committed in a step of its own, so that its new row  *)
(* is invisible to the statements of others until then.                       *)
(*                                                                         *)
(* A caller is whoever sent the call, and waits for at most one.              *)
(***************************************************************************)
EXTENDS Naturals, FiniteSets

CONSTANTS Callers, Logins, Users, UserOf, MaxTokens

ASSUME MaxTokensAssumption == MaxTokens \in Nat

VARIABLES
    row,    \* of every token: "none", "pending" (not committed), "active", "revoked"
    login,  \* the login a token descends from, or NoLogin
    call,   \* the call a caller waits for
    reuse   \* some transaction was given a token used before

tokenVars == <<row, login, call, reuse>>

Tokens == 1..MaxTokens
NoToken == 0
NoLogin == 0
ASSUME LoginsAssumption == NoLogin \notin Logins /\ UserOf \in [Logins -> Users]

States == {"none", "refresh", "logout", "rotating", "revoking", "ok", "failed"}
NoCall == [st |-> "none", tok |-> NoToken, new |-> NoToken, seen |-> {}]

\* The type of the server's state.
TokenTypeOK ==
    /\ row \in [Tokens -> {"none", "pending", "active", "revoked"}]
    /\ login \in [Tokens -> Logins \cup {NoLogin}]
    /\ call \in [Callers -> [st : States, tok : Tokens \cup {NoToken},
                             new : Tokens \cup {NoToken}, seen : SUBSET Tokens]]
    /\ reuse \in BOOLEAN

TokenInit ==
    /\ row = [k \in Tokens |-> "none"]
    /\ login = [k \in Tokens |-> NoLogin]
    /\ call = [c \in Callers |-> NoCall]
    /\ reuse = FALSE

Active == {k \in Tokens : row[k] = "active"}
ActiveOf(u) == {k \in Active : UserOf[login[k]] = u}
Free == {k \in Tokens : row[k] = "none" /\ login[k] = NoLogin}

\* A rotation holds the row of its token until it is committed
Locked(k) == \E c \in Callers : call[c].st = "rotating" /\ call[c].tok = k

\* The row is read without FOR UPDATE
SeesUnlocked(c, kind, k) ==
    /\ call[c].st = kind /\ call[c].tok = k /\ k \in Tokens
    /\ row[k] \in {"active", "revoked"}

\* A committed row that the caller's statement can take
Sees(c, kind, k) ==
    /\ call[c].st = kind /\ call[c].tok = k /\ k \in Tokens
    /\ row[k] \in {"active", "revoked"} /\ ~Locked(k)

NewLogin(l, k) ==
    /\ k \in Free /\ \A j \in Tokens : login[j] # l
    /\ row' = [row EXCEPT ![k] = "active"]
    /\ login' = [login EXCEPT ![k] = l]

Submit(c, kind, k) ==
    call' = [call EXCEPT ![c] = [NoCall EXCEPT !.st = kind, !.tok = k]]

Reply(c, answer, k) ==
    call' = [call EXCEPT ![c] = [NoCall EXCEPT !.st = answer, !.new = k]]

\* A token checked by its signature alone
ExchangeableAlways(k) == row[k] # "none"

Exchangeable(k) == row[k] = "active"

Rotate(c) ==
    \E k \in Tokens, n \in Free :
        /\ Sees(c, "refresh", k) /\ Exchangeable(k)
        /\ row' = [row EXCEPT ![n] = "pending"]
        /\ login' = [login EXCEPT ![n] = login[k]]
        /\ call' = [call EXCEPT ![c].st = "rotating", ![c].new = n]
        /\ UNCHANGED reuse

CommitRotation(c) ==
    /\ call[c].st = "rotating"
    /\ row' = [row EXCEPT ![call[c].tok] = "revoked", ![call[c].new] = "active"]
    /\ Reply(c, "ok", call[c].new)
    /\ UNCHANGED <<login, reuse>>

\* The new row is rolled back; its value is never seen again
RotationFails(c) ==
    /\ call[c].st = "rotating"
    /\ row' = [row EXCEPT ![call[c].new] = "none"]
    /\ Reply(c, "failed", NoToken)
    /\ UNCHANGED <<login, reuse>>

\* The UPDATE of revoke_all_active_for_user reads the rows committed when it starts
DetectReuse(c) ==
    \E k \in Tokens :
        /\ Sees(c, "refresh", k) /\ ~Exchangeable(k)
        /\ call' = [call EXCEPT ![c].st = "revoking", ![c].seen = ActiveOf(UserOf[login[k]])]
        /\ reuse' = TRUE
        /\ UNCHANGED <<row, login>>

\* It waits for the rows among them that a rotation holds, and looks at them again
RevokeAll(c) ==
    /\ call[c].st = "revoking" /\ \A k \in call[c].seen : ~Locked(k)
    /\ row' = [k \in Tokens |-> IF k \in call[c].seen THEN "revoked" ELSE row[k]]
    /\ Reply(c, "failed", NoToken)
    /\ UNCHANGED <<login, reuse>>

LogOut(c) ==
    \E k \in Tokens :
        /\ Sees(c, "logout", k)
        /\ row' = [row EXCEPT ![k] = "revoked"]
        /\ Reply(c, "ok", NoToken)
        /\ UNCHANGED <<login, reuse>>

\* The rate limiter, an inactive user or a lost request; nothing was changed
Refuse(c) ==
    /\ call[c].st \in {"refresh", "logout"}
    /\ Reply(c, "failed", NoToken)
    /\ UNCHANGED <<row, login, reuse>>

Serve(c) ==
    Rotate(c) \/ CommitRotation(c) \/ DetectReuse(c) \/ RevokeAll(c) \/ LogOut(c)

ServerStep(c) == Serve(c) \/ RotationFails(c) \/ Refuse(c)

-----------------------------------------------------------------------------
(* What the rows promise *)

Live(l) == {k \in Tokens : login[k] = l /\ row[k] = "active"}

HeadOf(l) == IF Live(l) = {} THEN NoToken ELSE CHOOSE k \in Live(l) : TRUE

Lineage == INSTANCE TokenLineage WITH
    head <- [l \in Logins |-> HeadOf(l)],
    spent <- {k \in Tokens : row[k] = "revoked"},
    begun <- {login[k] : k \in Tokens} \ {NoLogin}

\* "A refresh token, once rotated (replaced) or revoked, must never again yield a successful
\* refresh": the rows implement the abstract lineages (AuthService.refresh, logout).
LineageSpec == Lineage!LineageSpec

\* Two open rotations never exchange the same token, and every open rotation has a
\* token that is still active and a new one of the same login that is nobody else's.
RotationInv ==
    /\ \A c \in Callers : call[c].st = "rotating" =>
        /\ call[c].tok \in Active /\ row[call[c].new] = "pending"
        /\ login[call[c].new] = login[call[c].tok]
        /\ \A d \in Callers \ {c} : call[d].st = "rotating" =>
              call[d].tok # call[c].tok /\ call[d].new # call[c].new
    /\ \A l \in Logins : \A j, k \in Live(l) : j = k
=============================================================================
