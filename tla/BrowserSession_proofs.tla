------------------------ MODULE BrowserSession_proofs ------------------------
(***************************************************************************)
(* Theorems about the refresh tokens and the tabs of BrowserSession, for any    *)
(* number of tabs, requests, users, logins and tokens.                       *)
(*                                                                         *)
(* First the rows: whatever the tabs do, rotations exclude each other, and the  *)
(* rows implement TokenLineage.  A tab reaches the rows only through its calls, *)
(* so its steps are quiet: they put a new call, or none, in the place of an old *)
(* one.  The steps of the server are taken one by one.                       *)
(*                                                                         *)
(* Then the tabs: what the type invariant says of shared refreshes, that a      *)
(* request carries the workspace of its own user, that a sign-out is final, and *)
(* that a token is presented twice only after a disturbance.  Their inductive   *)
(* invariant has five layers, each resting on those before it and on TokenInv:  *)
(* who waits for what; every token was issued; nothing is left after a          *)
(* sign-out; a tab is one user's; no token is in two hands.  The transactions   *)
(* of the server are summed up once, in ServerEffect.                        *)
(***************************************************************************)
EXTENDS BrowserSession, TLAPS

-----------------------------------------------------------------------------
(* The rows *)

RowStates == {"none", "pending", "active", "revoked"}

\* A record of a call, whatever token it was given
Shaped(r) == r = [st |-> r.st, tok |-> r.tok, new |-> r.new, seen |-> r.seen]

CallsShaped ==
    /\ call = [c \in Callers |-> call[c]]
    /\ \A c \in Callers : Shaped(call[c])

RowsBelong ==
    /\ row \in [Tokens -> RowStates] /\ login \in [Tokens -> Logins \cup {NoLogin}]
    /\ \A k \in Tokens : row[k] # "none" => login[k] \in Logins

\* Committed rows stay committed, so a revocation never meets the new row of a rotation
Committed(S) == S \subseteq Tokens /\ \A k \in S : row[k] \in {"active", "revoked"}

CallsSeeRows ==
    \A c \in Callers :
        /\ call[c].st = "rotating" => call[c].tok \in Tokens /\ call[c].new \in Tokens
        /\ call[c].st = "revoking" => Committed(call[c].seen)

\* The inductive invariant
TokenInv == CallsShaped /\ RowsBelong /\ CallsSeeRows /\ RotationInv

Harmless(r) == Shaped(r) /\ r.st \notin {"rotating", "revoking"}

Quiet ==
    /\ UNCHANGED <<row, login>>
    /\ \/ UNCHANGED call
       \/ \E c \in Callers : \E r : Harmless(r) /\ call' = [call EXCEPT ![c] = r]

-----------------------------------------------------------------------------
(* Steps of the tabs *)

\* A call other than a transaction under way is harmless.
LEMMA NewCalls ==
    /\ Harmless(NoCall)
    /\ \A kind \in States \ {"rotating", "revoking"} : \A k :
        /\ Harmless([NoCall EXCEPT !.st = kind, !.tok = k])
        /\ Harmless([NoCall EXCEPT !.st = kind, !.new = k])
<1>1. Harmless(NoCall)
  BY DEF Harmless, Shaped, NoCall
<1>2. ASSUME NEW kind \in States \ {"rotating", "revoking"}, NEW k
      PROVE  /\ Harmless([NoCall EXCEPT !.st = kind, !.tok = k])
             /\ Harmless([NoCall EXCEPT !.st = kind, !.new = k])
  <2>1. Shaped(NoCall)
    BY <1>1 DEF Harmless
  <2>2. ASSUME NEW r, r = [NoCall EXCEPT !.st = kind, !.tok = k] PROVE Harmless(r)
    BY <2>1, <2>2 DEF Harmless, Shaped
  <2>3. ASSUME NEW r, r = [NoCall EXCEPT !.st = kind, !.new = k] PROVE Harmless(r)
    BY <2>1, <2>3 DEF Harmless, Shaped
  <2> QED BY <2>2, <2>3
<1> QED BY <1>1, <1>2

\* Replacing the call of somebody who is no caller replaces nothing.
LEMMA ForgottenCall ==
    ASSUME CallsShaped, NEW q, UNCHANGED <<row, login>>, call' = [call EXCEPT ![q] = NoCall]
    PROVE  Quiet
<1>1. CASE q \in Callers
  BY <1>1, NewCalls DEF Quiet
<1>2. CASE q \notin Callers
  <2>1. call' = call
    BY <1>2 DEF CallsShaped
  <2> QED BY <2>1 DEF Quiet
<1> QED BY <1>1, <1>2

\* A quiet step keeps the invariant.
LEMMA QuietKeepsInv == TokenInv /\ Quiet => TokenInv'
<1> SUFFICES ASSUME TokenInv, Quiet PROVE TokenInv'
  OBVIOUS
<1> USE DEF TokenInv, RowsBelong, RotationInv, Active, Live, Committed
<1>1. CASE UNCHANGED call
  BY <1>1 DEF Quiet, CallsShaped, CallsSeeRows
<1>2. ASSUME NEW c \in Callers, NEW r, Harmless(r), call' = [call EXCEPT ![c] = r]
      PROVE  TokenInv'
  <2>1. call'[c] = r /\ \A d \in Callers \ {c} : call'[d] = call[d]
    BY <1>2 DEF CallsShaped
  <2>2. CallsShaped'
    BY <1>2, <2>1 DEF CallsShaped, Harmless
  <2>3. UNCHANGED <<row, login>>
    BY DEF Quiet
  <2>4. RowsBelong'
    BY <2>3
  <2>5. \A d \in Callers : call'[d].st \in {"rotating", "revoking"} => call'[d] = call[d]
    BY <2>1, <1>2 DEF Harmless
  <2>6. CallsSeeRows'
    BY <2>3, <2>5 DEF CallsSeeRows
  <2>7. RotationInv'
    BY <2>3, <2>5
  <2> QED BY <2>2, <2>4, <2>6, <2>7
<1> QED BY <1>1, <1>2 DEF Quiet

\* Except for a login, a step of a tab or a request is quiet.
LEMMA TabsAreQuiet ==
    ASSUME CallsShaped, SessionNext,
           ~ \E c \in Callers : ServerStep(c),
           ~ \E t \in Tabs : LogIn(t)
    PROVE  Quiet
<1> USE SessionAssumption
<1>1. ASSUME NEW c \in Callers, Discard(c) PROVE Quiet
  BY <1>1, ForgottenCall DEF Discard
<1>2. ASSUME NEW t \in Tabs, LogOutClicked(t) PROVE Quiet
  <2>1. CASE UNCHANGED call
    BY <1>2, <2>1 DEF LogOutClicked, Quiet
  <2>2. CASE Submit(t, "logout", store[t].refresh)
    <3>1. Harmless([NoCall EXCEPT !.st = "logout", !.tok = store[t].refresh])
      BY NewCalls DEF States
    <3> QED BY <1>2, <2>2, <3>1 DEF LogOutClicked, Submit, Quiet
  <2> QED BY <1>2, <2>1, <2>2 DEF LogOutClicked
<1>3. ASSUME NEW t \in Tabs, LogOutSettles(t) PROVE Quiet
  BY <1>3, ForgottenCall DEF LogOutSettles
<1>4. ASSUME NEW t \in Tabs, Refreshed(t) PROVE Quiet
  BY <1>4, ForgottenCall DEF Refreshed
<1>5. ASSUME NEW t \in Tabs, RefreshFails(t) PROVE Quiet
  BY <1>5, ForgottenCall DEF RefreshFails
<1>6. ASSUME NEW t \in Tabs, Reload(t) \/ (\E u \in Tabs : CopyTab(t, u)) \/ (\E q \in Requests : Send(q, t))
      PROVE  Quiet
  BY <1>6 DEF Reload, CopyTab, Send, Quiet
<1>7. ASSUME NEW q \in Requests, Accepted(q) \/ Fails(q) \/ ForcedOut(q) PROVE Quiet
  BY <1>7 DEF Accepted, Fails, ForcedOut, Quiet
<1>8. ASSUME NEW k \in Tokens, Expire(k) PROVE Quiet
  BY <1>8 DEF Expire, Quiet
<1>9. ASSUME NEW q \in Requests, WaitForRefresh(q) PROVE Quiet
  <2>1. CASE UNCHANGED call
    BY <1>9, <2>1 DEF WaitForRefresh, Quiet
  <2>2. ASSUME NEW k, Submit(q, "refresh", k) PROVE Quiet
    <3>1. Harmless([NoCall EXCEPT !.st = "refresh", !.tok = k])
      BY NewCalls DEF States
    <3> QED BY <1>9, <2>2, <3>1 DEF WaitForRefresh, Submit, Quiet
  <2> QED BY <1>9, <2>1, <2>2 DEF WaitForRefresh
<1> QED
  BY <1>1, <1>2, <1>3, <1>4, <1>5, <1>6, <1>7, <1>8, <1>9 DEF SessionNext, Answer
-----------------------------------------------------------------------------
(* Steps of the server *)

\* The rows at first.
LEMMA TokensStart == TokenInit => TokenInv
<1> SUFFICES ASSUME TokenInit PROVE TokenInv
  OBVIOUS
<1>1. CallsShaped /\ \A c \in Callers : call[c].st = "none"
  BY DEF TokenInit, CallsShaped, Shaped, NoCall
<1>2. RowsBelong
  BY DEF TokenInit, RowsBelong, RowStates
<1>3. CallsSeeRows /\ RotationInv
  BY <1>1 DEF TokenInit, CallsSeeRows, RotationInv, Live
<1> QED BY <1>1, <1>2, <1>3 DEF TokenInv

\* A login starts a token of its own.
LEMMA LoginKeepsInv ==
    ASSUME TokenInv, NEW l \in Logins, NEW k \in Tokens, NewLogin(l, k), UNCHANGED call
    PROVE  TokenInv'
<1> USE LoginsAssumption DEF TokenInv, NewLogin, Free, RowsBelong
<1>1. CallsShaped'
  BY DEF CallsShaped
<1>2. RowsBelong'
  BY DEF RowStates
<1>3. CallsSeeRows'
  BY DEF CallsSeeRows, Committed
<1>4. RotationInv'
  BY DEF RotationInv, Active, Live, CallsSeeRows
<1> QED BY <1>1, <1>2, <1>3, <1>4

\* A rotation takes a token that nobody else is exchanging.
LEMMA RotateKeepsInv ==
    ASSUME TokenInv, NEW c \in Callers, Rotate(c)
    PROVE  TokenInv'
<1>1. PICK k \in Tokens, n \in Free :
        /\ Sees(c, "refresh", k) /\ Exchangeable(k)
        /\ row' = [row EXCEPT ![n] = "pending"]
        /\ login' = [login EXCEPT ![n] = login[k]]
        /\ call' = [call EXCEPT ![c].st = "rotating", ![c].new = n]
  BY DEF Rotate
<1>2. /\ n \in Tokens /\ n # k /\ row[n] = "none" /\ row[k] = "active"
      /\ call[c].tok = k
      /\ \A d \in Callers : call[d].st = "rotating" => call[d].tok # k
  BY <1>1 DEF Free, Exchangeable, Sees, Locked
<1>3. /\ call'[c] = [call[c] EXCEPT !.st = "rotating", !.new = n]
      /\ \A d \in Callers \ {c} : call'[d] = call[d]
      /\ call' = [d \in Callers |-> call'[d]]
  BY <1>1 DEF TokenInv, CallsShaped
<1>4. call'[c].st = "rotating" /\ call'[c].tok = k /\ call'[c].new = n /\ Shaped(call'[c])
  BY <1>2, <1>3 DEF TokenInv, CallsShaped, Shaped
<1>5. CallsShaped' /\ \A d \in Callers \ {c} : call'[d] = call[d]
  BY <1>3, <1>4 DEF TokenInv, CallsShaped
<1>6. RowsBelong'
  BY <1>1, <1>2 DEF TokenInv, RowsBelong, RowStates
<1>7. CallsSeeRows'
  BY <1>1, <1>2, <1>3, <1>4 DEF TokenInv, RowsBelong, CallsSeeRows, Committed
<1>8. \A l \in Logins : Live(l)' = Live(l)
  BY <1>1, <1>2 DEF TokenInv, RowsBelong, Live
<1>9. \A d \in Callers \ {c} : call[d].st = "rotating" =>
        /\ call[d].tok \in Tokens \ {k, n} /\ call[d].new \in Tokens \ {k, n}
        /\ row'[call[d].tok] = "active" /\ row'[call[d].new] = "pending"
        /\ login'[call[d].new] = login'[call[d].tok]
  BY <1>1, <1>2 DEF TokenInv, RowsBelong, CallsSeeRows, RotationInv, Active
<1>10. row'[k] = "active" /\ row'[n] = "pending" /\ login'[n] = login'[k]
  BY <1>1, <1>2 DEF TokenInv, RowsBelong
<1>11. \A i, j \in Callers : i # j /\ call'[i].st = "rotating" /\ call'[j].st = "rotating" =>
          call'[i].tok # call'[j].tok /\ call'[i].new # call'[j].new
  BY <1>4, <1>5, <1>9 DEF TokenInv, RotationInv
<1>12. \A d \in Callers : call'[d].st = "rotating" =>
          /\ call'[d].tok \in Tokens /\ row'[call'[d].tok] = "active"
          /\ row'[call'[d].new] = "pending" /\ login'[call'[d].new] = login'[call'[d].tok]
  <2>1. k \in Tokens
    OBVIOUS
  <2> QED BY <2>1, <1>4, <1>5, <1>9, <1>10
<1>13. \A l \in Logins : \A i, j \in Live(l)' : i = j
  BY <1>8 DEF TokenInv, RotationInv
<1>14. RotationInv'
  BY <1>11, <1>12, <1>13 DEF RotationInv, Active
<1> QED BY <1>5, <1>6, <1>7, <1>14 DEF TokenInv

\* What a reply does to the calls.
LEMMA Replies ==
    ASSUME CallsShaped, NEW c \in Callers, NEW answer \in {"ok", "failed"}, NEW k,
           Reply(c, answer, k)
    PROVE  /\ CallsShaped' /\ call'[c].st = answer
           /\ \A d \in Callers \ {c} : call'[d] = call[d]
<1>1. Harmless([NoCall EXCEPT !.st = answer, !.new = k])
  BY NewCalls DEF States
<1>2. [NoCall EXCEPT !.st = answer, !.new = k].st = answer
  BY DEF NoCall
<1> QED BY <1>1, <1>2 DEF CallsShaped, Reply, Harmless

\* A committed rotation leaves its login with the new token alone.
LEMMA CommitKeepsInv ==
    ASSUME TokenInv, NEW c \in Callers, CommitRotation(c)
    PROVE  TokenInv'
<1> DEFINE k == call[c].tok  n == call[c].new
<1>1. /\ call[c].st = "rotating" /\ k \in Tokens /\ n \in Tokens
      /\ row[k] = "active" /\ row[n] = "pending" /\ login[n] = login[k]
      /\ row' = [row EXCEPT ![k] = "revoked", ![n] = "active"] /\ UNCHANGED login
  BY DEF CommitRotation, TokenInv, CallsSeeRows, RotationInv, Active
<1>2. /\ CallsShaped' /\ call'[c].st = "ok"
      /\ \A d \in Callers \ {c} : call'[d] = call[d]
  BY Replies DEF CommitRotation, TokenInv
<1>3. RowsBelong'
  BY <1>1 DEF TokenInv, RowsBelong, RowStates
<1>4. CallsSeeRows'
  BY <1>1, <1>2 DEF TokenInv, RowsBelong, CallsSeeRows, Committed
<1>5. \A d \in Callers \ {c} : call[d].st = "rotating" =>
          call[d].tok \notin {k, n} /\ call[d].new \notin {k, n}
  BY <1>1 DEF TokenInv, RotationInv, Active
<1>6. \A l \in Logins : \A i, j \in Live(l)' : i = j
  BY <1>1 DEF TokenInv, RowsBelong, RotationInv, Live
<1>7. RotationInv'
  BY <1>1, <1>2, <1>5, <1>6 DEF TokenInv, RowsBelong, RotationInv, CallsSeeRows, Active
<1> QED BY <1>2, <1>3, <1>4, <1>7 DEF TokenInv

\* A rotation that fails takes its own new token away.
LEMMA FailedRotationKeepsInv ==
    ASSUME TokenInv, NEW c \in Callers, RotationFails(c)
    PROVE  TokenInv'
<1> DEFINE n == call[c].new
<1>1. /\ call[c].st = "rotating" /\ n \in Tokens /\ row[n] = "pending"
      /\ row' = [row EXCEPT ![n] = "none"] /\ UNCHANGED login
  BY DEF RotationFails, TokenInv, CallsSeeRows, RotationInv
<1>2. /\ CallsShaped' /\ call'[c].st = "failed"
      /\ \A d \in Callers \ {c} : call'[d] = call[d]
  BY Replies DEF RotationFails, TokenInv
<1>3. RowsBelong'
  BY <1>1 DEF TokenInv, RowsBelong, RowStates
<1>4. CallsSeeRows'
  BY <1>1, <1>2 DEF TokenInv, RowsBelong, CallsSeeRows, Committed
<1>5. RotationInv'
  BY <1>1, <1>2 DEF TokenInv, RowsBelong, RotationInv, CallsSeeRows, Active, Live
<1> QED BY <1>2, <1>3, <1>4, <1>5 DEF TokenInv

\* A revocation begins with committed rows.
LEMMA ReuseKeepsInv ==
    ASSUME TokenInv, NEW c \in Callers, DetectReuse(c)
    PROVE  TokenInv'
<1>1. PICK k \in Tokens :
        /\ Sees(c, "refresh", k)
        /\ call' = [call EXCEPT ![c].st = "revoking", ![c].seen = ActiveOf(UserOf[login[k]])]
        /\ UNCHANGED <<row, login>>
  BY DEF DetectReuse
<1>2. /\ call'[c] = [call[c] EXCEPT !.st = "revoking", !.seen = ActiveOf(UserOf[login[k]])]
      /\ \A d \in Callers \ {c} : call'[d] = call[d]
      /\ call' = [d \in Callers |-> call'[d]]
  BY <1>1 DEF TokenInv, CallsShaped
<1>3. /\ call'[c].st = "revoking" /\ call'[c].seen = ActiveOf(UserOf[login[k]])
      /\ Shaped(call'[c])
  BY <1>2 DEF TokenInv, CallsShaped, Shaped
<1>4. Committed(call'[c].seen)
  BY <1>3 DEF Committed, ActiveOf, Active
<1>5. CallsShaped'
  BY <1>2, <1>3 DEF TokenInv, CallsShaped
<1>6. RowsBelong' /\ CallsSeeRows'
  BY <1>1, <1>2, <1>3, <1>4 DEF TokenInv, RowsBelong, CallsSeeRows, Committed
<1>7. \A d \in Callers : call'[d].st = "rotating" => call'[d] = call[d]
  BY <1>2, <1>3
<1>8. UNCHANGED <<row, login>>
  BY <1>1
<1>9. RotationInv'
  BY <1>7, <1>8 DEF TokenInv, RotationInv, Active, Live
<1> QED BY <1>5, <1>6, <1>9 DEF TokenInv

\* Revoking committed rows that no rotation holds.
LEMMA RevokedKeepInv ==
    ASSUME TokenInv, NEW c \in Callers, NEW S, Committed(S), \A k \in S : ~Locked(k),
           row' = [k \in Tokens |-> IF k \in S THEN "revoked" ELSE row[k]], UNCHANGED login,
           CallsShaped', call'[c].st \in {"ok", "failed"},
           \A d \in Callers \ {c} : call'[d] = call[d]
    PROVE  TokenInv'
<1>1. RowsBelong'
  BY DEF TokenInv, RowsBelong, RowStates, Committed
<1>2. CallsSeeRows'
  BY DEF TokenInv, RowsBelong, CallsSeeRows, Committed
<1>3. \A d \in Callers : call[d].st = "rotating" => call[d].tok \notin S /\ call[d].new \notin S
  BY DEF TokenInv, RotationInv, Committed, Locked
<1>4. RotationInv'
  BY <1>3 DEF TokenInv, RowsBelong, CallsSeeRows, RotationInv, Active, Live
<1> QED BY <1>1, <1>2, <1>4 DEF TokenInv

\* The two transactions that revoke, as one kind of step.
LEMMA Revocations ==
    ASSUME TokenInv, NEW c \in Callers, RevokeAll(c) \/ LogOut(c)
    PROVE  \E S : /\ Committed(S) /\ \A k \in S : ~Locked(k)
                  /\ row' = [k \in Tokens |-> IF k \in S THEN "revoked" ELSE row[k]]
                  /\ UNCHANGED login
                  /\ CallsShaped' /\ call'[c].st \in {"ok", "failed"}
                  /\ \A d \in Callers \ {c} : call'[d] = call[d]
<1>1. CASE RevokeAll(c)
  <2>1. Committed(call[c].seen)
    BY <1>1 DEF RevokeAll, TokenInv, CallsSeeRows
  <2>2. /\ CallsShaped' /\ call'[c].st = "failed"
        /\ \A d \in Callers \ {c} : call'[d] = call[d]
    BY <1>1, Replies DEF RevokeAll, TokenInv
  <2> QED BY <1>1, <2>1, <2>2 DEF RevokeAll
<1>2. CASE LogOut(c)
  <2>1. PICK k \in Tokens : Sees(c, "logout", k) /\ row' = [row EXCEPT ![k] = "revoked"]
    BY <1>2 DEF LogOut
  <2>2. Committed({k}) /\ ~Locked(k)
    BY <2>1 DEF Sees, Committed
  <2>3. row' = [j \in Tokens |-> IF j \in {k} THEN "revoked" ELSE row[j]]
    BY <2>1 DEF TokenInv, RowsBelong
  <2>4. /\ CallsShaped' /\ call'[c].st = "ok"
        /\ \A d \in Callers \ {c} : call'[d] = call[d]
    BY <1>2, Replies DEF LogOut, TokenInv
  <2>5. UNCHANGED login
    BY <1>2 DEF LogOut
  <2>6. \A j \in {k} : ~Locked(j)
    BY <2>2
  <2> QED BY <2>2, <2>3, <2>4, <2>5, <2>6
<1> QED BY <1>1, <1>2

\* Every step of the server keeps the invariant.
LEMMA ServerKeepsInv ==
    ASSUME TokenInv, NEW c \in Callers, ServerStep(c)
    PROVE  TokenInv'
<1>1. ASSUME RevokeAll(c) \/ LogOut(c) PROVE TokenInv'
  BY <1>1, Revocations, RevokedKeepInv
<1>2. ASSUME Refuse(c) PROVE TokenInv'
  <2>1. Harmless([NoCall EXCEPT !.st = "failed", !.new = NoToken])
    BY NewCalls DEF States
  <2> QED BY <1>2, <2>1, QuietKeepsInv DEF Refuse, Reply, Quiet
<1> QED
  BY <1>1, <1>2, RotateKeepsInv, CommitKeepsInv, FailedRotationKeepsInv, ReuseKeepsInv
  DEF ServerStep, Serve

-----------------------------------------------------------------------------
(* The theorems *)

\* Every step keeps the invariant.
LEMMA StepKeepsInv == TokenInv /\ [SessionNext]_sessionVars => TokenInv'
<1> SUFFICES ASSUME TokenInv, [SessionNext]_sessionVars PROVE TokenInv'
  OBVIOUS
<1>1. CASE UNCHANGED sessionVars
  BY <1>1, QuietKeepsInv DEF sessionVars, Quiet
<1>2. ASSUME NEW c \in Callers, ServerStep(c) PROVE TokenInv'
  BY <1>2, ServerKeepsInv
<1>3. ASSUME NEW t \in Tabs, LogIn(t) PROVE TokenInv'
  BY <1>3, LoginKeepsInv DEF LogIn
<1>4. CASE SessionNext
  BY <1>2, <1>3, <1>4, TabsAreQuiet, QuietKeepsInv DEF TokenInv
<1> QED BY <1>1, <1>4

\* The inductive invariant holds in every state.
THEOREM TokensCorrect == SessionSpec => []TokenInv
<1>1. SessionInit => TokenInv
  BY TokensStart DEF SessionInit
<1> QED BY <1>1, StepKeepsInv, PTL DEF SessionSpec

\* Open rotations exclude each other and every login has at most one active token, for
\* any number of tabs, requests, logins and tokens (AuthService.refresh: the row lock).
THEOREM RotationsExclude == SessionSpec => []RotationInv
<1>1. TokenInv => RotationInv
  BY DEF TokenInv
<1> QED BY <1>1, TokensCorrect, PTL

-----------------------------------------------------------------------------
(* The refinement of TokenLineage *)

Head == [l \in Logins |-> HeadOf(l)]
Spent == {k \in Tokens : row[k] = "revoked"}
Begun == {login[k] : k \in Tokens} \ {NoLogin}

\* A login with one active token has it as its head.
LEMMA OneIsHead ==
    ASSUME NEW S, NEW k \in S, \A j \in S : j = k
    PROVE  (IF S = {} THEN NoToken ELSE CHOOSE j \in S : TRUE) = k
<1>1. (CHOOSE j \in S : TRUE) \in S
  OBVIOUS
<1> QED BY <1>1

\* The head is an active token of its login.
LEMMA HeadsAreLive ==
    ASSUME TokenInv, NEW l \in Logins
    PROVE  /\ \A k \in Live(l) : HeadOf(l) = k
           /\ Live(l) = {} => HeadOf(l) = NoToken
           /\ HeadOf(l) # NoToken => HeadOf(l) \in Live(l)
<1>1. \A j, k \in Live(l) : j = k
  BY DEF TokenInv, RotationInv
<1>2. ASSUME NEW k \in Live(l) PROVE HeadOf(l) = k
  BY <1>1, <1>2, OneIsHead DEF HeadOf
<1>3. Live(l) = {} => HeadOf(l) = NoToken
  BY DEF HeadOf
<1> QED BY <1>2, <1>3

\* The same in the next state.
LEMMA NextHeads ==
    ASSUME TokenInv', NEW l \in Logins
    PROVE  /\ \A k \in Live(l)' : HeadOf(l)' = k
           /\ Live(l)' = {} => HeadOf(l)' = NoToken
<1>1. \A j, k \in Live(l)' : j = k
  BY DEF TokenInv, RotationInv
<1>2. ASSUME NEW k \in Live(l)' PROVE HeadOf(l)' = k
  BY <1>1, <1>2, OneIsHead DEF HeadOf
<1>3. Live(l)' = {} => HeadOf(l)' = NoToken
  BY DEF HeadOf
<1> QED BY <1>2, <1>3

\* A login whose active tokens stay keeps its head.
LEMMA SameHead ==
    ASSUME NEW l, Live(l)' = Live(l)
    PROVE  HeadOf(l)' = HeadOf(l)
BY DEF HeadOf

\* A token neither active nor revoked is free for a lineage.
LEMMA UnusedTokens ==
    ASSUME TokenInv, NEW k \in Tokens, row[k] \notin {"active", "revoked"}
    PROVE  Lineage!Unused(k)
<1>1. \A l \in Logins : HeadOf(l) # k \/ k = NoToken
  BY HeadsAreLive DEF Live
<1>2. k # NoToken
  BY MaxTokensAssumption DEF Tokens, NoToken
<1> QED BY <1>1, <1>2 DEF Lineage!Unused, Lineage!Heads

\* A login begins a lineage.
LEMMA LoginBegins ==
    ASSUME TokenInv, NEW l \in Logins, NEW k \in Tokens, NewLogin(l, k), UNCHANGED call
    PROVE  Lineage!Begin(l)
<1>1. TokenInv'
  BY LoginKeepsInv
<1>2. /\ row[k] = "none" /\ login[k] = NoLogin /\ \A j \in Tokens : login[j] # l
      /\ row' = [row EXCEPT ![k] = "active"] /\ login' = [login EXCEPT ![k] = l]
  BY DEF NewLogin, Free
<1>3. Lineage!Unused(k)
  BY <1>2, UnusedTokens
<1>4. Live(l)' = {k}
  BY <1>2 DEF TokenInv, RowsBelong, Live
<1>5. HeadOf(l)' = k
  BY <1>1, <1>4, NextHeads
<1>6. ASSUME NEW m \in Logins \ {l} PROVE HeadOf(m)' = HeadOf(m)
  <2>1. Live(m)' = Live(m)
    BY <1>2 DEF TokenInv, RowsBelong, Live
  <2> QED BY <2>1, SameHead
<1>7. Head' = [Head EXCEPT ![l] = k]
  BY <1>5, <1>6 DEF Head
<1>8. Spent' = Spent
  BY <1>2 DEF TokenInv, RowsBelong, Spent
<1>9. l \notin Begun /\ Begun' = Begun \cup {l}
  <2>1. \A j \in Tokens : login'[j] = IF j = k THEN l ELSE login[j]
    BY <1>2 DEF TokenInv, RowsBelong
  <2> QED BY <1>2, <2>1, LoginsAssumption DEF Begun
<1> QED BY <1>3, <1>7, <1>8, <1>9 DEF Lineage!Begin, Head, Spent, Begun

\* A token that takes the place of the head of its login is exchanged for it.
LEMMA Exchanges ==
    ASSUME TokenInv, TokenInv', NEW k \in Tokens, NEW n \in Tokens, NEW l \in Logins,
           row[k] = "active", row[n] = "pending", login[k] = l, login[n] = l,
           row' = [row EXCEPT ![k] = "revoked", ![n] = "active"], UNCHANGED login
    PROVE  Lineage!Exchange(l)
<1>1. k \in Live(l) /\ HeadOf(l) = k /\ k # NoToken
  BY HeadsAreLive, MaxTokensAssumption DEF Live, Tokens, NoToken
<1>2. HeadOf(l)' = n
  <2>1. n \in Live(l)'
    BY DEF TokenInv, RowsBelong, Live
  <2> QED BY <2>1, NextHeads
<1>3. ASSUME NEW m \in Logins \ {l} PROVE HeadOf(m)' = HeadOf(m)
  <2>1. Live(m)' = Live(m)
    BY DEF TokenInv, RowsBelong, Live
  <2> QED BY <2>1, SameHead
<1>4. Head' = [Head EXCEPT ![l] = n]
  BY <1>2, <1>3 DEF Head
<1>5. Head[l] = k
  BY <1>1 DEF Head
<1>6. Spent' = Spent \cup {k}
  BY DEF TokenInv, RowsBelong, Spent
<1>7. Begun' = Begun
  BY DEF Begun
<1>8. Lineage!Unused(n)
  BY UnusedTokens
<1> QED BY <1>1, <1>4, <1>5, <1>6, <1>7, <1>8 DEF Lineage!Exchange, Head, Spent, Begun

\* A committed rotation is an exchange.
LEMMA CommitExchanges ==
    ASSUME TokenInv, NEW c \in Callers, CommitRotation(c)
    PROVE  \E l \in Logins : Lineage!Exchange(l)
<1>1. PICK k, n, l : k = call[c].tok /\ n = call[c].new /\ l = login[k]
  OBVIOUS
<1>2. /\ k \in Tokens /\ n \in Tokens
      /\ row[k] = "active" /\ row[n] = "pending" /\ login[n] = l /\ l \in Logins
      /\ row' = [row EXCEPT ![k] = "revoked", ![n] = "active"] /\ UNCHANGED login
  BY <1>1 DEF CommitRotation, TokenInv, CallsSeeRows, RotationInv, Active, RowsBelong
<1>3. TokenInv'
  BY CommitKeepsInv
<1>4. Lineage!Exchange(l)
  BY <1>1, <1>2, <1>3, Exchanges
<1> QED BY <1>2, <1>4

\* A revocation ends the lineages whose heads it revokes.
LEMMA RevocationEnds ==
    ASSUME TokenInv, TokenInv', NEW S, Committed(S),
           row' = [k \in Tokens |-> IF k \in S THEN "revoked" ELSE row[k]], UNCHANGED login
    PROVE  \E L \in SUBSET Logins : Lineage!End(L)
<1>0. PICK L \in SUBSET Logins : \A l \in Logins : l \in L <=> HeadOf(l) \in S
  <2>1. {l \in Logins : HeadOf(l) \in S} \in SUBSET Logins
    OBVIOUS
  <2> QED BY <2>1
<1>1. ASSUME NEW l \in L PROVE HeadOf(l)' = NoToken
  <2>1. HeadOf(l) \in S /\ \A k \in Live(l) : k = HeadOf(l)
    BY <1>0, HeadsAreLive
  <2>2. Live(l)' = {}
    BY <2>1 DEF Live
  <2> QED BY <1>1, <2>2, NextHeads
<1>2. ASSUME NEW l \in Logins \ L PROVE HeadOf(l)' = HeadOf(l)
  <2>1. \A k \in Live(l) : k \notin S
    BY <1>0, <1>2, HeadsAreLive
  <2>2. Live(l)' = Live(l)
    BY <2>1 DEF Live
  <2> QED BY <2>2, SameHead
<1>3. Head' = [l \in Logins |-> IF l \in L THEN NoToken ELSE Head[l]]
  BY <1>1, <1>2 DEF Head
<1>4. Spent' = Spent \cup ({Head[l] : l \in L} \ {NoToken})
  <2>1. ASSUME NEW k \in Spent' PROVE k \in Spent \cup ({Head[l] : l \in L} \ {NoToken})
    <3>1. CASE k \in S /\ row[k] = "active"
      <4>1. k \in Tokens /\ k \in Live(login[k]) /\ login[k] \in Logins
        BY <3>1 DEF Committed, TokenInv, RowsBelong, Live
      <4>2. HeadOf(login[k]) = k
        BY <4>1, HeadsAreLive
      <4>3. login[k] \in L /\ Head[login[k]] = k
        BY <1>0, <3>1, <4>1, <4>2 DEF Head
      <4>4. k # NoToken
        BY <4>1, MaxTokensAssumption DEF Tokens, NoToken
      <4> QED BY <4>3, <4>4
    <3> QED BY <2>1, <3>1 DEF Spent, Committed
  <2>2. Spent \subseteq Spent'
    BY DEF Spent
  <2>3. ASSUME NEW l \in L PROVE Head[l] \in Spent'
    BY <1>0 DEF Head, Spent, Committed
  <2> QED BY <2>1, <2>2, <2>3
<1>5. Begun' = Begun
  BY DEF Begun
<1>6. Lineage!End(L)
  BY <1>3, <1>4, <1>5 DEF Lineage!End, Head, Spent, Begun
<1> QED BY <1>6

\* Steps that leave the active and the spent tokens alone are none of a lineage.
LEMMA StutteringTokens ==
    ASSUME \A l \in Logins : Live(l)' = Live(l), Spent' = Spent, Begun' = Begun
    PROVE  UNCHANGED <<Head, Spent, Begun>>
BY SameHead DEF Head

\* An open rotation shows nothing, and neither does one that fails.
LEMMA OpenRotations ==
    ASSUME TokenInv, NEW c \in Callers, Rotate(c) \/ RotationFails(c)
    PROVE  UNCHANGED <<Head, Spent, Begun>>
<1>1. CASE Rotate(c)
  <2>1. PICK k \in Tokens, n \in Free :
          /\ row[k] = "active"
          /\ row' = [row EXCEPT ![n] = "pending"]
          /\ login' = [login EXCEPT ![n] = login[k]]
    BY <1>1 DEF Rotate, Exchangeable
  <2>2. n \in Tokens /\ row[n] = "none" /\ login[n] = NoLogin /\ n # k
    BY <2>1 DEF Free
  <2>3. (\A l \in Logins : Live(l)' = Live(l)) /\ Spent' = Spent
    BY <2>1, <2>2 DEF TokenInv, RowsBelong, Live, Spent
  <2>4. Begun' = Begun
    <3>1. \A j \in Tokens : login'[j] = IF j = n THEN login[k] ELSE login[j]
      BY <2>1, <2>2 DEF TokenInv, RowsBelong
    <3> QED BY <2>1, <2>2, <3>1 DEF Begun
  <2> QED BY <2>3, <2>4, StutteringTokens
<1>2. CASE RotationFails(c)
  <2>1. /\ call[c].new \in Tokens /\ row[call[c].new] = "pending"
        /\ row' = [row EXCEPT ![call[c].new] = "none"] /\ UNCHANGED login
    BY <1>2 DEF RotationFails, TokenInv, CallsSeeRows, RotationInv
  <2>2. (\A l \in Logins : Live(l)' = Live(l)) /\ Spent' = Spent
    BY <2>1 DEF TokenInv, RowsBelong, Live, Spent
  <2>3. Begun' = Begun
    BY <2>1 DEF Begun
  <2> QED BY <2>2, <2>3, StutteringTokens
<1> QED BY <1>1, <1>2

\* Steps that leave the rows alone.
LEMMA SameRows ==
    ASSUME UNCHANGED <<row, login>>
    PROVE  UNCHANGED <<Head, Spent, Begun>>
BY DEF Head, HeadOf, Live, Spent, Begun

\* Every step is a step of the lineages or none.
LEMMA StepRefines ==
    TokenInv /\ TokenInv' /\ [SessionNext]_sessionVars
        => [Lineage!LineageNext]_<<Head, Spent, Begun>>
<1> SUFFICES ASSUME TokenInv, TokenInv', [SessionNext]_sessionVars
             PROVE  Lineage!LineageNext \/ UNCHANGED <<Head, Spent, Begun>>
  OBVIOUS
<1>1. CASE UNCHANGED sessionVars
  BY <1>1, SameRows DEF sessionVars
<1>2. ASSUME NEW c \in Callers, ServerStep(c)
      PROVE  Lineage!LineageNext \/ UNCHANGED <<Head, Spent, Begun>>
  <2>1. CASE CommitRotation(c)
    BY <2>1, CommitExchanges DEF Lineage!LineageNext
  <2>2. CASE RevokeAll(c) \/ LogOut(c)
    BY <2>2, Revocations, RevocationEnds DEF Lineage!LineageNext
  <2>3. CASE Rotate(c) \/ RotationFails(c)
    BY <2>3, OpenRotations
  <2>4. CASE DetectReuse(c) \/ Refuse(c)
    BY <2>4, SameRows DEF DetectReuse, Refuse
  <2> QED BY <1>2, <2>1, <2>2, <2>3, <2>4 DEF ServerStep, Serve
<1>3. ASSUME NEW t \in Tabs, LogIn(t) PROVE Lineage!LineageNext
  BY <1>3, LoginBegins DEF LogIn, Lineage!LineageNext
<1>4. CASE Quiet
  BY <1>4, SameRows DEF Quiet
<1>5. CASE SessionNext
  BY <1>2, <1>3, <1>4, <1>5, TabsAreQuiet DEF TokenInv
<1> QED BY <1>1, <1>5

\* A refresh token that was exchanged or revoked is never exchanged again: the rows implement
\* the abstract lineages, for any number of tabs, requests, logins and tokens
\* (AuthService.refresh, logout).
THEOREM SessionImplementsLineage == SessionSpec => LineageSpec
<1>1. SessionInit => Lineage!LineageInit
  <2> SUFFICES ASSUME TokenInit PROVE Lineage!LineageInit
    BY DEF SessionInit
  <2>1. Head = [l \in Logins |-> NoToken]
    BY LoginsAssumption DEF TokenInit, Head, HeadOf, Live
  <2>2. Spent = {} /\ Begun = {}
    BY DEF TokenInit, Spent, Begun
  <2> QED BY <2>1, <2>2 DEF Lineage!LineageInit, Head, Spent, Begun
<1>2. TokenInv /\ TokenInv' /\ [SessionNext]_sessionVars
        => [Lineage!LineageNext]_Lineage!lineageVars
  BY StepRefines DEF Lineage!lineageVars, Head, Spent, Begun
<1> QED
  BY <1>1, <1>2, TokensCorrect, PTL DEF SessionSpec, LineageSpec, Lineage!LineageSpec

-----------------------------------------------------------------------------
(* The tabs *)

\* The records of the variables call, req and store

CallRec == [st : States, tok : Tokens \cup {NoToken}, new : Tokens \cup {NoToken},
            seen : SUBSET Tokens]
ReqRec == [st : {"idle", "sent", "waiting", "resent"}, tab : Tabs \cup {Null},
           tok : Tokens \cup {NoToken}, ws : Users \cup {Null}]
StoreRec == [access : Tokens \cup {NoToken}, refresh : Tokens \cup {NoToken},
             ws : Users \cup {Null}]

\* Who waits for which kind of call
CallsHaveKinds ==
    /\ \A t \in Tabs : call[t].st \in {"none", "logout", "ok", "failed"}
    /\ \A q \in Requests : call[q].st # "logout"

\* An idle request is nobody's; the others are of a tab
RequestsAreOfTabs ==
    \A q \in Requests : IF req[q].st = "idle" THEN req[q] = Idle ELSE req[q].tab \in Tabs

\* A call of a request is the refresh its tab waits for, or its page is gone
CallsAreAwaited ==
    /\ \A c \in abandoned : call[c].st # "none"
    /\ \A t \in Tabs : inFlight[t] # Null =>
        inFlight[t] \notin abandoned /\ call[inFlight[t]].st # "none"
    /\ \A q \in Requests : call[q].st # "none" =>
        q \in abandoned \/ \E t \in Tabs : inFlight[t] = q

\* A tab waits for the refresh of one of its waiting requests, and only then do they wait
OneRefresh ==
    /\ \A t \in Tabs : inFlight[t] # Null =>
        req[inFlight[t]].st = "waiting" /\ req[inFlight[t]].tab = t
    /\ \A q \in Requests : req[q].st = "waiting" => inFlight[req[q].tab] # Null

SessionTypes ==
    /\ TokenTypeOK
    /\ store \in [Tabs -> StoreRec] /\ inFlight \in [Tabs -> Requests \cup {Null}]
    /\ req \in [Requests -> ReqRec]
    /\ leaving \in [Tabs -> BOOLEAN] /\ signedOut \in [Tabs -> BOOLEAN]
    /\ late \in [Tabs -> BOOLEAN] /\ expired \in SUBSET Tokens
    /\ abandoned \in SUBSET Callers
    /\ causes \subseteq {"copied tab", "logout beside a refresh", "reload during a call"}

WaitInv == CallsHaveKinds /\ RequestsAreOfTabs /\ OneRefresh /\ CallsAreAwaited

ShapeInv == SessionTypes /\ WaitInv

\* Every token that is about was issued for a login, and stays that login's
Issued(k) == k \in Tokens /\ login[k] \in Logins

TokensAreIssued ==
    /\ \A t \in Tabs :
        /\ store[t].access = store[t].refresh
        /\ store[t].refresh # NoToken => Issued(store[t].refresh)
    /\ \A q \in Requests : req[q].st \in Sent => Issued(req[q].tok)
    /\ \A c \in Callers :
        /\ call[c].st \in {"refresh", "logout", "rotating", "revoking"} => Issued(call[c].tok)
        /\ c \in Requests /\ call[c].st = "ok" => Issued(call[c].new)

\* A sign-out with nothing under way is final
SignedOutInv ==
    \A t \in Tabs : signedOut[t] /\ ~late[t] =>
        store[t] = Empty /\ inFlight[t] = Null /\ Of(t) = {}

Owner(k) == UserOf[login[k]]

\* Unless something outlived a sign-out, a tab and all that is under way for it are one user's
OneUserOf(t) ==
    /\ store[t].ws # Null => store[t].access # NoToken /\ store[t].ws = Owner(store[t].access)
    /\ \A q \in Of(t) : req[q].st \in Sent =>
        /\ store[t].access # NoToken /\ Owner(req[q].tok) = Owner(store[t].access)
        /\ q \notin Profile => req[q].ws = Owner(req[q].tok)
    /\ inFlight[t] # Null =>
        /\ store[t].access # NoToken
        /\ call[inFlight[t]].st \in {"refresh", "rotating", "revoking"} =>
            Owner(call[inFlight[t]].tok) = Owner(store[t].access)
        /\ call[inFlight[t]].st = "ok" => Owner(call[inFlight[t]].new) = Owner(store[t].access)

OneUserInv == \A t \in Tabs : ~late[t] => OneUserOf(t)

\* The tokens a tab has or is about to have
Holds(t, k) ==
    \/ store[t].refresh = k
    \/ call[t].st = "logout" /\ call[t].tok = k
    \/ /\ inFlight[t] # Null
       /\ LET r == call[inFlight[t]] IN
            \/ r.st \in {"refresh", "rotating"} /\ r.tok = k
            \/ r.st \in {"rotating", "ok"} /\ r.new = k

\* As long as nothing unusual has happened, no two tabs have a token in common, and what a
\* tab presents has not been used
HeldOnce == \A t, u \in Tabs : \A k \in Tokens : Holds(t, k) /\ Holds(u, k) => t = u

Unused(t) ==
    /\ call[t].st # "none" => inFlight[t] = Null
    /\ inFlight[t] # Null =>
        /\ call[inFlight[t]].st # "revoking"
        /\ call[inFlight[t]].st \in {"refresh", "rotating"} =>
            row[call[inFlight[t]].tok] = "active"
        /\ call[inFlight[t]].st = "ok" => row[call[inFlight[t]].new] = "active"
    /\ store[t].refresh # NoToken =>
        \/ row[store[t].refresh] = "active" \/ call[t].st = "ok"
        \/ inFlight[t] # Null /\ call[inFlight[t]].st = "ok"

Undisturbed == ~reuse /\ abandoned = {} /\ HeldOnce /\ \A t \in Tabs : Unused(t)

UndisturbedInv == causes = {} => Undisturbed
-----------------------------------------------------------------------------
(* What the steps of the server do to the calls *)

\* What a transaction of the server does to the call of its caller and to the tokens.
Served(c) ==
    \/ /\ call[c].st = "refresh" /\ call'[c].st = "rotating"
       /\ call'[c].tok = call[c].tok /\ call[c].tok \in Active
       /\ call'[c].new \in Free /\ login'[call'[c].new] = login[call[c].tok]
       /\ \A k \in Tokens : k # call'[c].new => row'[k] = row[k]
       /\ reuse' = reuse
    \/ /\ call[c].st = "rotating" /\ call'[c].st = "ok" /\ call'[c].new = call[c].new
       /\ row' = [row EXCEPT ![call[c].tok] = "revoked", ![call[c].new] = "active"]
       /\ login' = login /\ reuse' = reuse
    \/ /\ call[c].st = "refresh" /\ call'[c].st = "revoking" /\ call'[c].tok = call[c].tok
       /\ row[call[c].tok] = "revoked"
       /\ login' = login /\ row' = row
    \/ /\ call[c].st = "logout" /\ call'[c].st = "ok" /\ call'[c].new = NoToken
       /\ call[c].tok \in Tokens
       /\ row' = [row EXCEPT ![call[c].tok] = "revoked"]
       /\ login' = login /\ reuse' = reuse
    \/ /\ call[c].st \in {"refresh", "logout"} /\ call'[c].st = "failed"
       /\ row' = row /\ login' = login /\ reuse' = reuse
    \/ /\ call[c].st = "rotating" /\ call'[c].st = "failed"
       /\ row' = [row EXCEPT ![call[c].new] = "none"]
       /\ login' = login /\ reuse' = reuse
    \/ /\ call[c].st = "revoking" /\ call'[c].st = "failed"
       /\ login' = login /\ reuse' = reuse

\* Every step of the server is one of these, and touches no other call.
LEMMA ServerEffect ==
    ASSUME TokenTypeOK, TokenInv, NEW c \in Callers, ServerStep(c)
    PROVE  /\ Served(c)
           /\ TokenTypeOK'
           /\ \A d \in Callers \ {c} : call'[d] = call[d]
           /\ \A k \in Tokens : login[k] # NoLogin => login'[k] = login[k]
<1> USE DEF TokenTypeOK, States, NoCall, NoToken
<1>0. call[c] \in CallRec
  BY DEF CallRec
<1>1. CASE Rotate(c)
  <2>1. PICK k \in Tokens, n \in Free :
            /\ Sees(c, "refresh", k) /\ Exchangeable(k)
            /\ row' = [row EXCEPT ![n] = "pending"]
            /\ login' = [login EXCEPT ![n] = login[k]]
            /\ call' = [call EXCEPT ![c].st = "rotating", ![c].new = n]
            /\ UNCHANGED reuse
    BY <1>1 DEF Rotate
  <2>2. call' = [call EXCEPT ![c] = [call[c] EXCEPT !.st = "rotating", !.new = n]]
    BY <2>1
  <2>3. [call[c] EXCEPT !.st = "rotating", !.new = n] \in CallRec
    BY <1>0 DEF CallRec, Free
  <2> QED BY <1>0, <2>1, <2>2, <2>3 DEF Served, Sees, Exchangeable, Active, Free, CallRec
<1>2. CASE CommitRotation(c)
  <2>1. [NoCall EXCEPT !.st = "ok", !.new = call[c].new] \in CallRec
    BY <1>0 DEF CallRec
  <2> QED BY <1>2, <2>1 DEF Served, CommitRotation, Reply, CallRec
<1>3. CASE RotationFails(c)
  <2>1. [NoCall EXCEPT !.st = "failed", !.new = NoToken] \in CallRec
    BY <1>0 DEF CallRec
  <2> QED BY <1>3, <2>1 DEF Served, RotationFails, Reply, CallRec
<1>4. CASE DetectReuse(c)
  <2>1. PICK k \in Tokens :
            /\ Sees(c, "refresh", k) /\ ~Exchangeable(k)
            /\ call' = [call EXCEPT ![c].st = "revoking",
                                    ![c].seen = ActiveOf(UserOf[login[k]])]
            /\ reuse' = TRUE
            /\ UNCHANGED <<row, login>>
    BY <1>4 DEF DetectReuse
  <2>2. call' = [call EXCEPT ![c] = [call[c] EXCEPT !.st = "revoking",
                                         !.seen = ActiveOf(UserOf[login[k]])]]
    BY <2>1
  <2>3. [call[c] EXCEPT !.st = "revoking", !.seen = ActiveOf(UserOf[login[k]])] \in CallRec
    BY <1>0 DEF CallRec, ActiveOf, Active
  <2> QED BY <1>0, <2>1, <2>2, <2>3 DEF Served, Sees, Exchangeable, CallRec
<1>5. CASE RevokeAll(c)
  <2>1. [NoCall EXCEPT !.st = "failed", !.new = NoToken] \in CallRec
    BY <1>0 DEF CallRec
  <2> QED BY <1>5, <2>1 DEF Served, RevokeAll, Reply, CallRec
<1>6. CASE LogOut(c)
  <2>1. [NoCall EXCEPT !.st = "ok", !.new = NoToken] \in CallRec
    BY <1>0 DEF CallRec
  <2> QED BY <1>6, <2>1 DEF Served, LogOut, Reply, CallRec, Sees
<1>7. CASE Refuse(c)
  <2>1. [NoCall EXCEPT !.st = "failed", !.new = NoToken] \in CallRec
    BY <1>0 DEF CallRec
  <2> QED BY <1>7, <2>1 DEF Served, Refuse, Reply, CallRec
<1> QED BY <1>1, <1>2, <1>3, <1>4, <1>5, <1>6, <1>7 DEF ServerStep, Serve
-----------------------------------------------------------------------------
(* Types, and who waits for what *)

\* What a request carries when it is sent: of its tab, with the tab's token.
LEMMA OutgoingIsTyped ==
    ASSUME NEW q, NEW t \in Tabs, NEW s \in StoreRec, NEW st \in Sent
    PROVE  LET r == Outgoing(q, t, s, st) IN
           /\ r \in ReqRec
           /\ r = Idle \/ (r.st = st /\ r.tab = t /\ r.tok = s.access /\ MayCarry(q, s)
                          /\ r.ws = (IF q \in Profile THEN Null ELSE s.ws))
BY SessionAssumption DEF Outgoing, ReqRec, StoreRec, Idle, Sent, NoToken

\* A call of the kinds that tabs put in has the type of a call.
LEMMA CallsAreTyped ==
    ASSUME NEW k \in Tokens \cup {NoToken}, NEW st \in States
    PROVE  NoCall \in CallRec /\ [NoCall EXCEPT !.st = st, !.tok = k] \in CallRec
BY DEF NoCall, CallRec, States, NoToken

\* A function with one value replaced keeps its type.
LEMMA UpdatesAreTyped ==
    ASSUME NEW D, NEW R, NEW f \in [D -> R], NEW x, NEW v \in R, NEW g,
           g = f \/ g = [f EXCEPT ![x] = v]
    PROVE  g \in [D -> R]
OBVIOUS

\* What disturbs is one of three things.
LEMMA CausesAreNamed ==
    ASSUME NEW S, causes \subseteq S, NEW cause \in S, NEW b
    PROVE  UNCHANGED causes \/ Disturbed(cause, b) => causes' \subseteq S
BY DEF Disturbed

\* Steps of the tabs keep the types.
LEMMA TypesStep ==
    ASSUME SessionTypes, RequestsAreOfTabs, TokensAreIssued, CallsAreAwaited, SessionNext, TokenInv
    PROVE  SessionTypes'
<1> USE SessionAssumption, MaxTokensAssumption DEF SessionTypes
<1>0. TokenTypeOK /\ call \in [Callers -> CallRec]
  BY DEF TokenTypeOK, CallRec
<1>1. ASSUME NEW c \in Callers, Discard(c) PROVE SessionTypes'
  <2>1. TokenTypeOK'
    BY <1>0, <1>1, CallsAreTyped DEF Discard, TokenTypeOK, CallRec, States
  <2> QED BY <1>1, <2>1 DEF Discard
<1>2. ASSUME NEW c \in Callers, ServerStep(c), UNCHANGED tabVars PROVE SessionTypes'
  BY <1>2, ServerEffect DEF tabVars
<1>3. ASSUME NEW t \in Tabs, LogIn(t) PROVE SessionTypes'
  <2>1. PICK l \in Logins, k \in Tokens :
            /\ NewLogin(l, k)
            /\ store' = [store EXCEPT ![t].access = k, ![t].refresh = k]
    BY <1>3 DEF LogIn
  <2>2. TokenTypeOK'
    BY <1>3, <2>1 DEF LogIn, NewLogin, TokenTypeOK
  <2>3. store' = [store EXCEPT ![t] = [store[t] EXCEPT !.access = k, !.refresh = k]]
    BY <2>1
  <2>4. [store[t] EXCEPT !.access = k, !.refresh = k] \in StoreRec
    <3>1. store[t] \in StoreRec
      OBVIOUS
    <3> QED BY <3>1 DEF StoreRec
  <2> QED BY <1>3, <2>2, <2>3, <2>4 DEF LogIn
<1>4. ASSUME NEW t \in Tabs, LogOutClicked(t) PROVE SessionTypes'
  <2>1. TokenTypeOK'
    <3>1. store[t].refresh \in Tokens \cup {NoToken}
      BY DEF StoreRec
    <3>2. [NoCall EXCEPT !.st = "logout", !.tok = store[t].refresh] \in CallRec
      BY <3>1, CallsAreTyped DEF States
    <3>3. call' = call \/ call' = [call EXCEPT ![t] = [NoCall EXCEPT !.st = "logout", !.tok = store[t].refresh]]
      BY <1>4 DEF LogOutClicked, Submit
    <3>4. call' \in [Callers -> CallRec]
      <4> HIDE DEF SessionTypes
      <4> QED BY <1>0, <3>2, <3>3, UpdatesAreTyped
    <3> QED BY <1>4, <3>4 DEF LogOutClicked, TokenTypeOK, CallRec
  <2>2. Empty \in StoreRec
    BY DEF Empty, StoreRec
  <2>3. causes' \subseteq {"copied tab", "logout beside a refresh", "reload during a call"}
    BY <1>4, CausesAreNamed DEF LogOutClicked
  <2>4. CASE SignOut(t)
    BY <1>4, <2>1, <2>2, <2>3, <2>4 DEF LogOutClicked, SignOut, Cleared
  <2>5. CASE UNCHANGED <<store, signedOut, late>>
    BY <1>4, <2>1, <2>3, <2>5 DEF LogOutClicked
  <2> QED BY <1>4, <2>4, <2>5 DEF LogOutClicked
<1>5. ASSUME NEW t \in Tabs, LogOutSettles(t) PROVE SessionTypes'
  <2>1. TokenTypeOK'
    BY <1>0, <1>5, CallsAreTyped DEF LogOutSettles, TokenTypeOK, CallRec, States
  <2> QED BY <1>5, <2>1 DEF LogOutSettles, SignOut, Cleared, Empty, StoreRec
<1>6. ASSUME NEW t \in Tabs, Refreshed(t) PROVE SessionTypes'
  <2> DEFINE q == inFlight[t]
             s == [store[t] EXCEPT !.access = call[q].new, !.refresh = call[q].new]
  <2>1. TokenTypeOK'
    BY <1>0, <1>6, CallsAreTyped DEF Refreshed, TokenTypeOK, CallRec, States
  <2>2. q \in Requests /\ call[q] \in CallRec /\ store[t] \in StoreRec
    BY <1>0, <1>6 DEF Refreshed
  <2>3. s \in StoreRec
    BY <2>2 DEF StoreRec, CallRec
  <2>4. store' \in [Tabs -> StoreRec]
    BY <1>6, <2>3 DEF Refreshed
  <2>5. \A p \in Requests : Outgoing(p, t, s, "resent") \in ReqRec
    BY <2>3, OutgoingIsTyped DEF Sent
  <2>6. req' \in [Requests -> ReqRec]
    BY <1>6, <2>5 DEF Refreshed
  <2> QED BY <1>6, <2>1, <2>4, <2>6 DEF Refreshed, ForgetRefresh
<1>7. ASSUME NEW t \in Tabs, RefreshFails(t) PROVE SessionTypes'
  <2>1. TokenTypeOK'
    BY <1>0, <1>7, CallsAreTyped DEF RefreshFails, TokenTypeOK, CallRec, States
  <2> QED BY <1>7, <2>1 DEF RefreshFails, ForgetRefresh, SignOut, Cleared, Empty, StoreRec, Idle, ReqRec
<1>8. ASSUME NEW t \in Tabs, Reload(t) PROVE SessionTypes'
  <2>1. TokenTypeOK'
    BY <1>8 DEF Reload, TokenTypeOK
  <2>2. causes' \subseteq {"copied tab", "logout beside a refresh", "reload during a call"}
    BY <1>8, CausesAreNamed DEF Reload
  <2>3. Idle \in ReqRec
    BY DEF Idle, ReqRec, NoToken
  <2>4. abandoned' \in SUBSET Callers
    BY <1>8 DEF Reload
  <2>5. req' \in [Requests -> ReqRec]
    BY <1>8, <2>3 DEF Reload
  <2> QED BY <1>8, <2>1, <2>2, <2>4, <2>5 DEF Reload
<1>9. ASSUME NEW t \in Tabs, NEW u \in Tabs, CopyTab(t, u) PROVE SessionTypes'
  BY <1>9 DEF CopyTab, Disturbed, TokenTypeOK
<1>10. ASSUME NEW t \in Tabs, NEW q \in Requests, Send(q, t) PROVE SessionTypes'
  BY <1>10, OutgoingIsTyped DEF Send, Sent, TokenTypeOK
<1>11. ASSUME NEW q \in Requests, Accepted(q) PROVE SessionTypes'
  <2>1. req[q].tab \in Tabs /\ UserOf[login[req[q].tok]] \in Users
    BY <1>11, LoginsAssumption DEF Accepted, RequestsAreOfTabs, TokensAreIssued, Issued, Sent
  <2> DEFINE s == [store[req[q].tab] EXCEPT !.ws = UserOf[login[req[q].tok]]]
  <2>2. s \in StoreRec
    <3>1. store[req[q].tab] \in StoreRec
      BY <2>1
    <3> QED BY <2>1, <3>1 DEF StoreRec
  <2>3. store' = store \/ store' = [store EXCEPT ![req[q].tab] = s]
    BY <1>11 DEF Accepted
  <2> HIDE DEF s
  <2>4. store' \in [Tabs -> StoreRec]
    <3>1. store \in [Tabs -> StoreRec]
      OBVIOUS
    <3> HIDE DEF SessionTypes
    <3> QED BY <2>2, <2>3, <3>1, UpdatesAreTyped
  <2> QED BY <1>11, <2>4 DEF Accepted, TokenTypeOK, Idle, ReqRec
<1>12. ASSUME NEW q \in Requests, Fails(q) PROVE SessionTypes'
  BY <1>12 DEF Fails, TokenTypeOK, Idle, ReqRec
<1>13. ASSUME NEW q \in Requests, ForcedOut(q) PROVE SessionTypes'
  BY <1>13 DEF ForcedOut, TokenTypeOK, Idle, ReqRec, SignOut, Cleared, Empty, StoreRec
<1>14. ASSUME NEW q \in Requests, WaitForRefresh(q) PROVE SessionTypes'
  <2>1. req[q].tab \in Tabs
    BY <1>14 DEF WaitForRefresh, RequestsAreOfTabs, Sent
  <2>2. TokenTypeOK'
    <3> DEFINE k == store[req[q].tab].refresh
    <3>1. k \in Tokens \cup {NoToken}
      BY <2>1 DEF StoreRec
    <3>2. [NoCall EXCEPT !.st = "refresh", !.tok = k] \in CallRec
      BY <3>1, CallsAreTyped DEF States
    <3>3. call' = call \/ call' = [call EXCEPT ![q] = [NoCall EXCEPT !.st = "refresh", !.tok = k]]
      BY <1>14 DEF WaitForRefresh, Submit
    <3>4. call' \in [Callers -> CallRec]
      <4> HIDE DEF SessionTypes
      <4> QED BY <1>0, <3>2, <3>3, UpdatesAreTyped
    <3> QED BY <1>14, <3>4 DEF WaitForRefresh, TokenTypeOK, CallRec
  <2>3. req' \in [Requests -> ReqRec]
    BY <1>14, <2>1 DEF WaitForRefresh, Idle, ReqRec
  <2>4. causes' \subseteq {"copied tab", "logout beside a refresh", "reload during a call"}
    BY <1>14, CausesAreNamed DEF WaitForRefresh
  <2>5. inFlight' \in [Tabs -> Requests \cup {Null}]
    <3>1. inFlight' = inFlight \/ inFlight' = [inFlight EXCEPT ![req[q].tab] = q]
      BY <1>14 DEF WaitForRefresh
    <3>2. q \in Requests \cup {Null} /\ inFlight \in [Tabs -> Requests \cup {Null}]
      OBVIOUS
    <3> HIDE DEF SessionTypes
    <3> QED BY <3>1, <3>2, UpdatesAreTyped
  <2> QED BY <1>14, <2>2, <2>3, <2>4, <2>5 DEF WaitForRefresh
<1>15. ASSUME NEW k \in Tokens, Expire(k) PROVE SessionTypes'
  BY <1>15 DEF Expire, TokenTypeOK
<1> QED BY <1>1, <1>2, <1>3, <1>4, <1>5, <1>6, <1>7, <1>8, <1>9, <1>10, <1>11, <1>12, <1>13, <1>14, <1>15
        DEF SessionNext, Answer

\* A call is put in the place of no call, or taken away: nobody else's call changes.
LEMMA SubmitEffect ==
    ASSUME CallsShaped, NEW c \in Callers, NEW kind, NEW k, Submit(c, kind, k)
    PROVE  /\ call'[c].st = kind /\ call'[c].tok = k /\ call'[c].new = NoToken
           /\ \A d \in Callers \ {c} : call'[d] = call[d]
<1>1. call'[c] = [NoCall EXCEPT !.st = kind, !.tok = k]
  BY DEF Submit, CallsShaped
<1> QED BY <1>1 DEF Submit, CallsShaped, NoCall

LEMMA ForgetEffect ==
    ASSUME CallsShaped, NEW c \in Callers, call' = [call EXCEPT ![c] = NoCall]
    PROVE  call'[c].st = "none" /\ \A d \in Callers \ {c} : call'[d] = call[d]
BY DEF CallsShaped, NoCall

\* The types and OneRefresh are the type invariant of the session.
LEMMA TypesAreTypeOK == SessionTypeOK <=> SessionTypes /\ OneRefresh
BY DEF SessionTypeOK, SessionTypes, OneRefresh, StoreRec, ReqRec

\* Who waits for what, through the steps of tabs, requests and server.
LEMMA WaitStep ==
    ASSUME SessionTypes, WaitInv, TokensAreIssued, SessionNext, TokenInv
    PROVE  WaitInv'
<1> USE SessionAssumption
<1>0. /\ store \in [Tabs -> StoreRec] /\ inFlight \in [Tabs -> Requests \cup {Null}]
      /\ req \in [Requests -> ReqRec] /\ call \in [Callers -> CallRec]
      /\ abandoned \subseteq Callers
  BY DEF SessionTypes, TokenTypeOK, CallRec
<1> USE <1>0 DEF WaitInv
<1>1. ASSUME NEW c \in Callers, Discard(c) PROVE WaitInv'
  BY <1>1 DEF Discard, CallsHaveKinds, RequestsAreOfTabs, OneRefresh, CallsAreAwaited, NoCall, Answered
<1>2. ASSUME NEW c \in Callers, ServerStep(c), UNCHANGED tabVars PROVE WaitInv'
  <2>1. Served(c) /\ \A d \in Callers \ {c} : call'[d] = call[d]
    BY <1>2, ServerEffect DEF SessionTypes
  <2>2. /\ call[c].st # "none" /\ call'[c].st # "none"
        /\ call'[c].st # "logout"
        /\ call[c].st = "logout" => call'[c].st \in {"ok", "failed"}
    BY <2>1 DEF Served
  <2>3. CallsHaveKinds'
    BY <2>1, <2>2 DEF CallsHaveKinds, Served
  <2>4. RequestsAreOfTabs' /\ OneRefresh'
    BY <1>2 DEF tabVars, RequestsAreOfTabs, OneRefresh
  <2>5. \A d \in Callers : call'[d].st # "none" <=> call[d].st # "none"
    BY <2>1, <2>2
  <2>6. CallsAreAwaited'
    BY <1>2, <2>5 DEF tabVars, CallsAreAwaited
  <2> QED BY <2>3, <2>4, <2>6
<1>3. ASSUME NEW t \in Tabs, LogIn(t) PROVE WaitInv'
  BY <1>3 DEF LogIn, CallsHaveKinds, RequestsAreOfTabs, OneRefresh, CallsAreAwaited
<1>4. ASSUME NEW t \in Tabs, LogOutClicked(t) PROVE WaitInv'
  <2>1. UNCHANGED <<req, inFlight, abandoned>> /\ call[t].st = "none"
    BY <1>4 DEF LogOutClicked
  <2>2. /\ \A d \in Callers \ {t} : call'[d] = call[d]
        /\ call'[t].st \in {"none", "logout"}
    BY <1>4, SubmitEffect DEF LogOutClicked, TokenInv
  <2>3. \A q \in Requests : call'[q] = call[q]
    BY <2>2
  <2>4. CallsHaveKinds' /\ RequestsAreOfTabs' /\ OneRefresh'
    BY <2>1, <2>2, <2>3 DEF CallsHaveKinds, RequestsAreOfTabs, OneRefresh
  <2>5. CallsAreAwaited'
    <3>1. \A c \in abandoned : call'[c].st # "none"
      BY <2>1, <2>2 DEF CallsAreAwaited
    <3>2. \A u \in Tabs : inFlight[u] # Null => call'[inFlight[u]] = call[inFlight[u]]
      BY <2>3
    <3> QED BY <2>1, <2>3, <3>1, <3>2 DEF CallsAreAwaited
  <2> QED BY <2>4, <2>5
<1>5. ASSUME NEW t \in Tabs, LogOutSettles(t) PROVE WaitInv'
  BY <1>5 DEF LogOutSettles, NoCall, CallsHaveKinds, RequestsAreOfTabs, OneRefresh, CallsAreAwaited
<1>6. ASSUME NEW t \in Tabs, Refreshed(t) PROVE WaitInv'
  <2> DEFINE q == inFlight[t]
             s == [store[t] EXCEPT !.access = call[q].new, !.refresh = call[q].new]
  <2>1. q \in Requests /\ q \notin abandoned
    BY <1>6 DEF Refreshed, CallsAreAwaited
  <2>2. s \in StoreRec
    <3>1. call[q] \in CallRec /\ store[t] \in StoreRec
      BY <2>1
    <3> QED BY <3>1 DEF StoreRec, CallRec
  <2>3. \A p \in Requests :
            \/ p \notin Waiters(t) /\ req'[p] = req[p]
            \/ /\ p \in Waiters(t)
               /\ req'[p] = Idle \/ (req'[p].st = "resent" /\ req'[p].tab = t)
    <3> SUFFICES ASSUME NEW p \in Requests
                 PROVE  \/ p \notin Waiters(t) /\ req'[p] = req[p]
                        \/ /\ p \in Waiters(t)
                           /\ req'[p] = Idle \/ (req'[p].st = "resent" /\ req'[p].tab = t)
      OBVIOUS
    <3>1. req'[p] = (IF p \in Waiters(t) THEN Outgoing(p, t, s, "resent") ELSE req[p])
      BY <1>6 DEF Refreshed
    <3>2. \/ Outgoing(p, t, s, "resent") = Idle
          \/ /\ Outgoing(p, t, s, "resent").st = "resent"
             /\ Outgoing(p, t, s, "resent").tab = t
      <4> HIDE DEF s
      <4>1. CASE MayCarry(p, s)
        BY <4>1 DEF Outgoing
      <4>2. CASE ~MayCarry(p, s)
        BY <4>2 DEF Outgoing
      <4> QED BY <4>1, <4>2
    <3> QED BY <3>1, <3>2
  <2>4. /\ inFlight' = [inFlight EXCEPT ![t] = Null] /\ call' = [call EXCEPT ![q] = NoCall]
        /\ UNCHANGED abandoned
    BY <1>6 DEF Refreshed, ForgetRefresh
  <2>5. \A p \in Requests : p \in Waiters(t) <=> req[p].tab = t /\ req[p].st = "waiting"
    BY DEF Waiters, Of
  <2> HIDE DEF q, s
  <2>6. CallsHaveKinds' /\ RequestsAreOfTabs'
    BY <2>1, <2>3, <2>4, <2>5 DEF CallsHaveKinds, RequestsAreOfTabs, NoCall, Idle
  <2>7. OneRefresh'
    BY <2>1, <2>3, <2>4, <2>5 DEF OneRefresh, RequestsAreOfTabs, Idle
  <2>8. CallsAreAwaited'
    <3>1. /\ call'[q].st = "none" /\ \A d \in Callers \ {q} : call'[d] = call[d]
      BY <2>1, <2>4, ForgetEffect DEF TokenInv
    <3>2. \A u \in Tabs : inFlight[u] = q => u = t
      BY <2>1 DEF OneRefresh, q
    <3>3. \A u \in Tabs : inFlight'[u] = IF u = t THEN Null ELSE inFlight[u]
      BY <2>4
    <3>4. inFlight[t] = q
      BY DEF q
    <3>5. \A c \in abandoned' : call'[c].st # "none"
      BY <2>1, <2>4, <3>1 DEF CallsAreAwaited
    <3>6. \A u \in Tabs : inFlight'[u] # Null =>
              inFlight'[u] \notin abandoned' /\ call'[inFlight'[u]].st # "none"
      BY <2>4, <3>1, <3>2, <3>3 DEF CallsAreAwaited
    <3>7. \A p \in Requests : call'[p].st # "none" =>
              p \in abandoned' \/ \E u \in Tabs : inFlight'[u] = p
      BY <2>4, <3>1, <3>3, <3>4 DEF CallsAreAwaited
    <3> QED BY <3>5, <3>6, <3>7 DEF CallsAreAwaited
  <2> QED BY <2>6, <2>7, <2>8
<1>7. ASSUME NEW t \in Tabs, RefreshFails(t) PROVE WaitInv'
  BY <1>7 DEF RefreshFails, ForgetRefresh, NoCall, Idle, Waiters, Of, CallsHaveKinds, RequestsAreOfTabs, OneRefresh, CallsAreAwaited
<1>8. ASSUME NEW t \in Tabs, Reload(t) PROVE WaitInv'
  <2>1. \A q \in Requests : req'[q] = (IF req[q].tab = t THEN Idle ELSE req[q])
    BY <1>8 DEF Reload, Of
  <2>2. inFlight' = [inFlight EXCEPT ![t] = Null] /\ UNCHANGED call
    BY <1>8 DEF Reload
  <2>3. \A c : c \in abandoned' <=>
            c \in abandoned \/ (c \in {t, inFlight[t]} \ {Null} /\ call[c].st # "none")
    BY <1>8 DEF Reload
  <2>4. CallsHaveKinds' /\ RequestsAreOfTabs' /\ OneRefresh'
    BY <2>1, <2>2 DEF Idle, CallsHaveKinds, RequestsAreOfTabs, OneRefresh
  <2>5. CallsAreAwaited'
    BY <2>2, <2>3 DEF CallsAreAwaited, OneRefresh
  <2> QED BY <2>4, <2>5
<1>9. ASSUME NEW t \in Tabs, NEW u \in Tabs, CopyTab(t, u) PROVE WaitInv'
  BY <1>9 DEF CopyTab, CallsHaveKinds, RequestsAreOfTabs, OneRefresh, CallsAreAwaited
<1>10. ASSUME NEW t \in Tabs, NEW q \in Requests, Send(q, t) PROVE WaitInv'
  BY <1>10 DEF Send, Outgoing, CallsHaveKinds, RequestsAreOfTabs, OneRefresh, CallsAreAwaited
<1>11. ASSUME NEW q \in Requests, Accepted(q) PROVE WaitInv'
  BY <1>11 DEF Accepted, Sent, Idle, CallsHaveKinds, RequestsAreOfTabs, OneRefresh, CallsAreAwaited
<1>12. ASSUME NEW q \in Requests, Fails(q) PROVE WaitInv'
  BY <1>12 DEF Fails, Sent, Idle, CallsHaveKinds, RequestsAreOfTabs, OneRefresh, CallsAreAwaited
<1>13. ASSUME NEW q \in Requests, ForcedOut(q) PROVE WaitInv'
  BY <1>13 DEF ForcedOut, Sent, Idle, CallsHaveKinds, RequestsAreOfTabs, OneRefresh, CallsAreAwaited
<1>14. ASSUME NEW q \in Requests, WaitForRefresh(q) PROVE WaitInv'
  <2> DEFINE t == req[q].tab
  <2>1. t \in Tabs /\ req[q].st \in Sent
    BY <1>14 DEF WaitForRefresh, RequestsAreOfTabs, Sent
  <2>2. /\ req'[q].st = "waiting" /\ req'[q].tab = t
        /\ \A p \in Requests \ {q} : req'[p] = req[p]
        /\ UNCHANGED abandoned
    BY <1>14, <2>1 DEF WaitForRefresh, Idle
  <2>3. CASE inFlight[t] = Null
    <3>0. Submit(q, "refresh", store[t].refresh)
      BY <1>14, <2>3 DEF WaitForRefresh, MustRefresh
    <3>1. /\ call[q].st = "none" /\ call'[q].st = "refresh"
          /\ \A d \in Callers \ {q} : call'[d] = call[d]
          /\ inFlight' = [inFlight EXCEPT ![t] = q]
      <4>1. call[q].st = "none" /\ inFlight' = [inFlight EXCEPT ![t] = q]
        BY <1>14, <2>3 DEF WaitForRefresh, MustRefresh
      <4> QED BY <3>0, <4>1, SubmitEffect DEF TokenInv
    <3> HIDE DEF t
    <3>2. CallsHaveKinds'
      BY <3>1 DEF CallsHaveKinds
    <3>3. RequestsAreOfTabs' /\ OneRefresh'
      BY <2>1, <2>2, <2>3, <3>1 DEF RequestsAreOfTabs, OneRefresh, Sent, t
    <3>4. CallsAreAwaited'
      <4>1. \A u \in Tabs : inFlight'[u] = IF u = t THEN q ELSE inFlight[u]
        BY <3>1
      <4>2. q \notin abandoned /\ \A u \in Tabs : inFlight[u] # q
        BY <3>1 DEF CallsAreAwaited
      <4>3. \A c \in abandoned' : call'[c].st # "none"
        BY <2>2, <3>1, <4>2 DEF CallsAreAwaited
      <4>4. \A u \in Tabs : inFlight'[u] # Null =>
                inFlight'[u] \notin abandoned' /\ call'[inFlight'[u]].st # "none"
        BY <2>2, <3>1, <4>1, <4>2 DEF CallsAreAwaited
      <4>5. \A p \in Requests : call'[p].st # "none" =>
                p \in abandoned' \/ \E u \in Tabs : inFlight'[u] = p
        BY <2>1, <2>2, <2>3, <3>1, <4>1 DEF CallsAreAwaited
      <4> QED BY <4>3, <4>4, <4>5 DEF CallsAreAwaited
    <3> QED BY <3>2, <3>3, <3>4
  <2>4. CASE inFlight[t] # Null
    <3>1. UNCHANGED <<call, inFlight>>
      BY <1>14, <2>4 DEF WaitForRefresh, MustRefresh
    <3> QED BY <2>1, <2>2, <2>4, <3>1
        DEF CallsHaveKinds, RequestsAreOfTabs, OneRefresh, CallsAreAwaited, Sent
  <2> QED BY <2>3, <2>4
<1>15. ASSUME NEW k \in Tokens, Expire(k) PROVE WaitInv'
  BY <1>15 DEF Expire, CallsHaveKinds, RequestsAreOfTabs, OneRefresh, CallsAreAwaited
<1> QED BY <1>1, <1>2, <1>3, <1>4, <1>5, <1>6, <1>7, <1>8, <1>9, <1>10, <1>11, <1>12, <1>13, <1>14, <1>15
        DEF SessionNext, Answer
-----------------------------------------------------------------------------
(* Tokens that are about *)

\* Every token that a tab, a request or a call has was issued for a login.
LEMMA IssuedStep ==
    ASSUME SessionTypes, WaitInv, TokensAreIssued, SessionNext, TokenInv
    PROVE  TokensAreIssued'
<1> USE SessionAssumption
<1>0. /\ store \in [Tabs -> StoreRec] /\ inFlight \in [Tabs -> Requests \cup {Null}]
      /\ req \in [Requests -> ReqRec] /\ call \in [Callers -> CallRec] /\ CallsShaped
  BY DEF SessionTypes, TokenTypeOK, CallRec, TokenInv
<1> USE <1>0
<1>a. ASSUME UNCHANGED login, NEW k, Issued(k) PROVE Issued(k)'
  BY <1>a DEF Issued
<1>b. NoCall.st = "none" /\ Idle.st = "idle" /\ Empty.access = NoToken /\ Empty.refresh = NoToken
  BY DEF NoCall, Idle, Empty
<1>1. ASSUME NEW c \in Callers, Discard(c) PROVE TokensAreIssued'
  <2>1. UNCHANGED <<login, store, req>> /\ call' = [call EXCEPT ![c] = NoCall]
    BY <1>1 DEF Discard
  <2> QED BY <2>1, <1>a, ForgetEffect DEF TokensAreIssued
<1>2. ASSUME NEW c \in Callers, ServerStep(c), UNCHANGED tabVars PROVE TokensAreIssued'
  <2>1. /\ Served(c) /\ \A d \in Callers \ {c} : call'[d] = call[d]
        /\ \A k \in Tokens : login[k] # NoLogin => login'[k] = login[k]
    BY <1>2, ServerEffect DEF SessionTypes
  <2>2. ASSUME NEW k, Issued(k) PROVE Issued(k)'
    BY <2>1, <2>2, LoginsAssumption DEF Issued
  <2>3. call[c].st = "rotating" => Issued(call[c].new)
    BY DEF TokensAreIssued, Issued, TokenInv, RotationInv, CallsSeeRows
  <2>4. c \in Requests => call[c].st # "logout"
    BY DEF WaitInv, CallsHaveKinds
  <2>5. /\ call'[c].st \in {"refresh", "logout", "rotating", "revoking"} => Issued(call'[c].tok)
        /\ c \in Requests /\ call'[c].st = "ok" => Issued(call'[c].new)
    BY <2>1, <2>3, <2>4 DEF Served, TokensAreIssued
  <2> QED BY <1>2, <2>1, <2>2, <2>5 DEF TokensAreIssued, tabVars
<1>3. ASSUME NEW t \in Tabs, LogIn(t) PROVE TokensAreIssued'
  <2>1. PICK l \in Logins, k \in Tokens :
            /\ NewLogin(l, k)
            /\ store' = [store EXCEPT ![t].access = k, ![t].refresh = k]
    BY <1>3 DEF LogIn
  <2>a. /\ login \in [Tokens -> Logins \cup {NoLogin}] /\ login' = [login EXCEPT ![k] = l]
        /\ login[k] = NoLogin
    BY <2>1 DEF NewLogin, Free, SessionTypes, TokenTypeOK
  <2>2. Issued(k)' /\ \A j : Issued(j) => Issued(j)'
    BY <2>a, LoginsAssumption DEF Issued
  <2>3. \A u \in Tabs : IF u = t THEN store'[u].access = k /\ store'[u].refresh = k
                                ELSE store'[u] = store[u]
    BY <2>1 DEF StoreRec
  <2> QED BY <1>3, <2>2, <2>3 DEF LogIn, TokensAreIssued
<1>4. ASSUME NEW t \in Tabs, LogOutClicked(t) PROVE TokensAreIssued'
  <2>1. /\ UNCHANGED <<login, req>>
        /\ \A u \in Tabs : store'[u] = store[u] \/ store'[u] = Empty
    BY <1>4 DEF LogOutClicked, SignOut, Cleared
  <2>2. \/ UNCHANGED call
        \/ Submit(t, "logout", store[t].refresh) /\ store[t].refresh # NoToken
    BY <1>4 DEF LogOutClicked
  <2> QED BY <2>1, <2>2, <1>a, <1>b, SubmitEffect DEF TokensAreIssued
<1>5. ASSUME NEW t \in Tabs, LogOutSettles(t) PROVE TokensAreIssued'
  <2>1. /\ UNCHANGED <<login, req>> /\ call' = [call EXCEPT ![t] = NoCall]
        /\ \A u \in Tabs : store'[u] = store[u] \/ store'[u] = Empty
    BY <1>5 DEF LogOutSettles, SignOut, Cleared
  <2> QED BY <2>1, <1>a, <1>b, ForgetEffect DEF TokensAreIssued
<1>6. ASSUME NEW t \in Tabs, Refreshed(t) PROVE TokensAreIssued'
  <2> DEFINE q == inFlight[t]
             s == [store[t] EXCEPT !.access = call[q].new, !.refresh = call[q].new]
  <2>1. q \in Requests /\ call[q].st = "ok" /\ Issued(call[q].new)
    BY <1>6 DEF Refreshed, TokensAreIssued
  <2>2. s.access = call[q].new /\ s.refresh = call[q].new
    BY DEF StoreRec
  <2>3. /\ UNCHANGED login /\ store' = [store EXCEPT ![t] = s]
        /\ call' = [call EXCEPT ![q] = NoCall]
    BY <1>6 DEF Refreshed
  <2>4. ASSUME NEW p \in Requests, req'[p].st \in Sent
        PROVE  req'[p] = req[p] \/ req'[p].tok = call[q].new
    <3>1. req'[p] = (IF p \in Waiters(t) THEN Outgoing(p, t, s, "resent") ELSE req[p])
      BY <1>6 DEF Refreshed
    <3> HIDE DEF s
    <3> QED BY <2>2, <2>4, <3>1 DEF Outgoing, Idle, Sent
  <2> HIDE DEF s, q
  <2> QED BY <2>1, <2>2, <2>3, <2>4, <1>a, ForgetEffect DEF TokensAreIssued
<1>7. ASSUME NEW t \in Tabs, RefreshFails(t) PROVE TokensAreIssued'
  <2>1. /\ UNCHANGED login /\ inFlight[t] \in Callers
        /\ call' = [call EXCEPT ![inFlight[t]] = NoCall]
        /\ \A u \in Tabs : store'[u] = store[u] \/ store'[u] = Empty
        /\ \A q \in Requests : req'[q] = req[q] \/ req'[q] = Idle
    BY <1>7 DEF RefreshFails, SignOut, Cleared
  <2> QED BY <2>1, <1>a, <1>b, ForgetEffect DEF TokensAreIssued, Sent
<1>8. ASSUME NEW t \in Tabs, Reload(t) PROVE TokensAreIssued'
  <2>1. /\ UNCHANGED <<login, call, store>>
        /\ \A q \in Requests : req'[q] = req[q] \/ req'[q] = Idle
    BY <1>8 DEF Reload
  <2> QED BY <2>1, <1>a, <1>b DEF TokensAreIssued, Sent
<1>9. ASSUME NEW t \in Tabs, NEW u \in Tabs, CopyTab(t, u) PROVE TokensAreIssued'
  BY <1>9, <1>a DEF CopyTab, TokensAreIssued
<1>10. ASSUME NEW t \in Tabs, NEW q \in Requests, Send(q, t) PROVE TokensAreIssued'
  <2>1. /\ UNCHANGED <<login, call, store>> /\ store[t].access # NoToken
        /\ req'[q].tok = store[t].access
        /\ \A p \in Requests \ {q} : req'[p] = req[p]
    BY <1>10 DEF Send, Outgoing
  <2> QED BY <2>1, <1>a DEF TokensAreIssued
<1>11. ASSUME NEW q \in Requests, Accepted(q) PROVE TokensAreIssued'
  <2>1. /\ UNCHANGED <<login, call>>
        /\ \A p \in Requests : req'[p] = req[p] \/ req'[p] = Idle
        /\ \A t \in Tabs : store'[t].access = store[t].access /\ store'[t].refresh = store[t].refresh
    BY <1>11 DEF Accepted, StoreRec
  <2> QED BY <2>1, <1>a, <1>b DEF TokensAreIssued, Sent
<1>12. ASSUME NEW q \in Requests, Fails(q) PROVE TokensAreIssued'
  <2>1. /\ UNCHANGED <<login, call, store>>
        /\ \A p \in Requests : req'[p] = req[p] \/ req'[p] = Idle
    BY <1>12 DEF Fails
  <2> QED BY <2>1, <1>a, <1>b DEF TokensAreIssued, Sent
<1>13. ASSUME NEW q \in Requests, ForcedOut(q) PROVE TokensAreIssued'
  <2>1. /\ UNCHANGED <<login, call>>
        /\ \A p \in Requests : req'[p] = req[p] \/ req'[p] = Idle
        /\ \A t \in Tabs : store'[t] = store[t] \/ store'[t] = Empty
    BY <1>13 DEF ForcedOut, SignOut, Cleared
  <2> QED BY <2>1, <1>a, <1>b DEF TokensAreIssued, Sent
<1>14. ASSUME NEW q \in Requests, WaitForRefresh(q) PROVE TokensAreIssued'
  <2> DEFINE t == req[q].tab
  <2>1. t \in Tabs /\ store[t].refresh # NoToken
    BY <1>14 DEF WaitForRefresh, Hopeless, WaitInv, RequestsAreOfTabs, Sent
  <2>2. /\ UNCHANGED <<login, store>>
        /\ \A p \in Requests : req'[p] = req[p] \/ req'[p].st = "waiting"
        /\ UNCHANGED call \/ Submit(q, "refresh", store[t].refresh)
    BY <1>14 DEF WaitForRefresh, Idle
  <2> QED BY <2>1, <2>2, <1>a, SubmitEffect DEF TokensAreIssued, Sent
<1>15. ASSUME NEW k \in Tokens, Expire(k) PROVE TokensAreIssued'
  BY <1>15, <1>a DEF Expire, TokensAreIssued
<1> QED BY <1>1, <1>2, <1>3, <1>4, <1>5, <1>6, <1>7, <1>8, <1>9, <1>10, <1>11, <1>12, <1>13, <1>14, <1>15
        DEF SessionNext, Answer
-----------------------------------------------------------------------------
(* Signing out *)

\* A sign-out leaves nothing behind, or notes that something is under way.
LEMMA SignOutEffect ==
    ASSUME SessionTypes, NEW t \in Tabs, SignOut(t)
    PROVE  /\ store'[t] = Empty
           /\ late'[t] \/ (inFlight'[t] = Null /\ \A q \in Requests : req'[q].tab # t)
           /\ \A u \in Tabs \ {t} : store'[u] = store[u] /\ signedOut'[u] = signedOut[u]
                                  /\ late'[u] = late[u]
BY DEF SignOut, Cleared, SessionTypes

\* What stays of a sign-out through every step.
LEMMA SignedOutStep ==
    ASSUME SessionTypes, WaitInv, SignedOutInv, SessionNext
    PROVE  SignedOutInv'
<1> USE SessionAssumption
<1>0. /\ store \in [Tabs -> StoreRec] /\ inFlight \in [Tabs -> Requests \cup {Null}]
      /\ req \in [Requests -> ReqRec] /\ signedOut \in [Tabs -> BOOLEAN]
      /\ late \in [Tabs -> BOOLEAN]
  BY DEF SessionTypes
<1>a. /\ \A q \in Requests : req[q].st = "idle" => req[q].tab \notin Tabs
      /\ \A q \in Requests : req[q].st # "idle" => req[q].tab \in Tabs
      /\ Idle.tab \notin Tabs
  BY DEF WaitInv, RequestsAreOfTabs, Idle
<1> USE <1>0, <1>a DEF SignedOutInv, Of
<1>1. ASSUME UNCHANGED <<store, inFlight, signedOut, late>>,
             \A q \in Requests : req'[q] = req[q] \/ req'[q] = Idle
      PROVE  SignedOutInv'
  BY <1>1
<1>2. ASSUME NEW c \in Callers, Discard(c) \/ (ServerStep(c) /\ UNCHANGED tabVars) PROVE SignedOutInv'
  BY <1>1, <1>2 DEF Discard, tabVars
<1>3. ASSUME NEW t \in Tabs, LogIn(t) PROVE SignedOutInv'
  BY <1>3 DEF LogIn
<1>4. ASSUME NEW t \in Tabs, LogOutClicked(t) \/ LogOutSettles(t) PROVE SignedOutInv'
  <2>1. CASE SignOut(t)
    <3>1. UNCHANGED <<req, inFlight>>
      BY <1>4 DEF LogOutClicked, LogOutSettles
    <3> QED BY <2>1, <3>1, SignOutEffect
  <2> QED BY <1>1, <1>4, <2>1 DEF LogOutClicked, LogOutSettles
<1>6. ASSUME NEW t \in Tabs, Refreshed(t) PROVE SignedOutInv'
  <2> DEFINE q == inFlight[t]
             s == [store[t] EXCEPT !.access = call[q].new, !.refresh = call[q].new]
  <2>1. /\ UNCHANGED <<signedOut, late>> /\ store' = [store EXCEPT ![t] = s]
        /\ inFlight' = [inFlight EXCEPT ![t] = Null] /\ inFlight[t] # Null
    BY <1>6 DEF Refreshed, ForgetRefresh
  <2>2. ASSUME NEW p \in Requests, NEW u \in Tabs \ {t}, req'[p].tab = u PROVE req[p].tab = u
    <3>1. req'[p] = (IF p \in Waiters(t) THEN Outgoing(p, t, s, "resent") ELSE req[p])
      BY <1>6 DEF Refreshed
    <3> HIDE DEF s
    <3> QED BY <2>2, <3>1 DEF Outgoing
  <2> HIDE DEF s, q
  <2> QED BY <2>1, <2>2
<1>7. ASSUME NEW t \in Tabs, RefreshFails(t) PROVE SignedOutInv'
  <2>1. /\ SignOut(t) /\ \A q \in Requests : req'[q] = req[q] \/ req'[q] = Idle
        /\ \A u \in Tabs \ {t} : inFlight'[u] = inFlight[u]
    BY <1>7 DEF RefreshFails, ForgetRefresh
  <2> QED BY <2>1, SignOutEffect
<1>8. ASSUME NEW t \in Tabs, Reload(t) PROVE SignedOutInv'
  <2>1. /\ \A q \in Requests : req'[q] = req[q] \/ req'[q] = Idle
        /\ \A u \in Tabs : inFlight'[u] = inFlight[u] \/ inFlight'[u] = Null
        /\ UNCHANGED <<store, signedOut, late>>
    BY <1>8 DEF Reload
  <2> QED BY <2>1
<1>9. ASSUME NEW t \in Tabs, NEW u \in Tabs, CopyTab(t, u) PROVE SignedOutInv'
  <2>1. store[t] # Empty
    <3>1. store[t].refresh # NoToken
      BY <1>9 DEF CopyTab
    <3>2. Empty.refresh = NoToken
      BY DEF Empty
    <3> QED BY <3>1, <3>2
  <2>2. /\ store' = [store EXCEPT ![u] = store[t]]
        /\ signedOut' = [signedOut EXCEPT ![u] = signedOut[t]]
        /\ late' = [late EXCEPT ![u] = late[t]]
        /\ UNCHANGED <<inFlight, req>>
    BY <1>9 DEF CopyTab
  <2>3. ~signedOut[t] \/ late[t]
    BY <2>1
  <2> QED BY <2>2, <2>3
<1>10. ASSUME NEW t \in Tabs, NEW q \in Requests, Send(q, t) PROVE SignedOutInv'
  <2>1. /\ UNCHANGED <<store, inFlight, signedOut, late>> /\ store[t] # Empty
        /\ req'[q].tab = t /\ \A p \in Requests \ {q} : req'[p] = req[p]
    BY <1>10 DEF Send, Outgoing, Empty
  <2> QED BY <2>1
<1>11. ASSUME NEW q \in Requests, Accepted(q) PROVE SignedOutInv'
  <2>1. /\ \A p \in Requests : req'[p] = req[p] \/ req'[p] = Idle
        /\ \A t \in Tabs : t # req[q].tab => store'[t] = store[t]
        /\ UNCHANGED <<inFlight, signedOut, late>>
    BY <1>11 DEF Accepted
  <2> QED BY <2>1
<1>12. ASSUME NEW q \in Requests, Fails(q) PROVE SignedOutInv'
  BY <1>1, <1>12 DEF Fails
<1>13. ASSUME NEW q \in Requests, ForcedOut(q) PROVE SignedOutInv'
  <2>1. /\ SignOut(req[q].tab) /\ req[q].tab \in Tabs /\ UNCHANGED inFlight
        /\ \A p \in Requests : req'[p] = req[p] \/ req'[p] = Idle
    BY <1>13 DEF ForcedOut, Sent
  <2> QED BY <2>1, SignOutEffect
<1>14. ASSUME NEW q \in Requests, WaitForRefresh(q) PROVE SignedOutInv'
  <2> DEFINE t == req[q].tab
  <2>1. /\ t \in Tabs /\ req'[q].tab = t /\ \A p \in Requests \ {q} : req'[p] = req[p]
        /\ \A u \in Tabs \ {t} : inFlight'[u] = inFlight[u]
        /\ UNCHANGED <<store, signedOut, late>>
    BY <1>14 DEF WaitForRefresh, Sent, Idle
  <2> QED BY <2>1
<1>15. ASSUME NEW k \in Tokens, Expire(k) PROVE SignedOutInv'
  BY <1>1, <1>15 DEF Expire
<1> QED BY <1>2, <1>3, <1>4, <1>6, <1>7, <1>8, <1>9, <1>10, <1>11, <1>12, <1>13, <1>14, <1>15
        DEF SessionNext, Answer
-----------------------------------------------------------------------------
(* One user *)

\* A step that only takes things away from a tab leaves it to its user.
LEMMA OneUserFrame ==
    ASSUME SessionTypes, TokensAreIssued, NEW u \in Tabs, OneUserOf(u),
           store'[u] = store[u], inFlight'[u] \in {inFlight[u], Null},
           inFlight'[u] # Null => call'[inFlight[u]] = call[inFlight[u]],
           \A q \in Requests : req'[q].tab = u => req'[q] = req[q] \/ req'[q].st \notin Sent,
           \A k : Issued(k) => login'[k] = login[k]
    PROVE  OneUserOf(u)'
<1> USE SessionAssumption
<1>0. inFlight[u] \in Requests \cup {Null}
  BY DEF SessionTypes
<1>2. store[u].access # NoToken => Issued(store[u].access)
  BY DEF TokensAreIssued
<1>3. (store[u].ws # Null => store[u].access # NoToken /\ store[u].ws = Owner(store[u].access))'
  BY <1>2 DEF OneUserOf, Owner
<1>4. (\A q \in Of(u) : req[q].st \in Sent =>
          /\ store[u].access # NoToken /\ Owner(req[q].tok) = Owner(store[u].access)
          /\ q \notin Profile => req[q].ws = Owner(req[q].tok))'
  <2> SUFFICES ASSUME NEW q \in Of(u)', req'[q].st \in Sent
               PROVE  /\ store'[u].access # NoToken
                      /\ (Owner(req[q].tok) = Owner(store[u].access))'
                      /\ q \notin Profile => (req[q].ws = Owner(req[q].tok))'
    OBVIOUS
  <2>1. q \in Of(u) /\ req'[q] = req[q] /\ Issued(req[q].tok)
    BY DEF Of, TokensAreIssued
  <2> QED BY <1>2, <2>1 DEF OneUserOf, Owner
<1>5. (inFlight[u] # Null =>
          /\ store[u].access # NoToken
          /\ call[inFlight[u]].st \in {"refresh", "rotating", "revoking"} =>
                Owner(call[inFlight[u]].tok) = Owner(store[u].access)
          /\ call[inFlight[u]].st = "ok" =>
                Owner(call[inFlight[u]].new) = Owner(store[u].access))'
  <2> SUFFICES ASSUME inFlight'[u] # Null
               PROVE  (/\ store[u].access # NoToken
                       /\ call[inFlight[u]].st \in {"refresh", "rotating", "revoking"} =>
                             Owner(call[inFlight[u]].tok) = Owner(store[u].access)
                       /\ call[inFlight[u]].st = "ok" =>
                             Owner(call[inFlight[u]].new) = Owner(store[u].access))'
    OBVIOUS
  <2>1. inFlight'[u] = inFlight[u] /\ inFlight[u] \in Requests
        /\ call'[inFlight[u]] = call[inFlight[u]]
    BY <1>0
  <2>2. /\ call[inFlight[u]].st \in {"refresh", "rotating", "revoking"} => Issued(call[inFlight[u]].tok)
        /\ call[inFlight[u]].st = "ok" => Issued(call[inFlight[u]].new)
    BY <2>1 DEF TokensAreIssued
  <2> QED BY <1>2, <2>1, <2>2 DEF OneUserOf, Owner
<1> QED BY <1>3, <1>4, <1>5 DEF OneUserOf

\* Signing in finds nothing that is left, signing out leaves nothing, and a refresh or an
\* answer brings what belongs to the tab's user.
LEMMA OneUserStep ==
    ASSUME ShapeInv, TokensAreIssued, SignedOutInv, OneUserInv, SessionNext, TokenInv
    PROVE  OneUserInv'
<1> USE SessionAssumption
<1>0. /\ store \in [Tabs -> StoreRec] /\ inFlight \in [Tabs -> Requests \cup {Null}]
      /\ req \in [Requests -> ReqRec] /\ call \in [Callers -> CallRec] /\ CallsShaped
      /\ late \in [Tabs -> BOOLEAN] /\ SessionTypes
  BY DEF ShapeInv, SessionTypes, TokenTypeOK, CallRec, TokenInv
<1> USE <1>0
<1>a. /\ \A q \in Requests : req[q].st # "idle" => req[q].tab \in Tabs
      /\ Idle.tab \notin Tabs /\ Idle.st \notin Sent
      /\ \A t \in Tabs : inFlight[t] # Null => inFlight[t] \notin abandoned
      /\ \A t, u \in Tabs : inFlight[t] # Null /\ inFlight[t] = inFlight[u] => t = u
  BY DEF ShapeInv, WaitInv, RequestsAreOfTabs, Idle, Sent, CallsAreAwaited, OneRefresh
<1>b. ASSUME NEW t \in Tabs, SignOut(t) PROVE late'[t] \/ OneUserOf(t)'
  BY <1>b, SignOutEffect DEF OneUserOf, Empty, Of
<1>c. SUFFICES ASSUME NEW u \in Tabs, ~late'[u] PROVE OneUserOf(u)'
  BY DEF OneUserInv
<1>1. ASSUME NEW c \in Callers, Discard(c) PROVE OneUserOf(u)'
  <2>1. /\ UNCHANGED <<login, store, inFlight, req, late>> /\ c \in abandoned
        /\ call' = [call EXCEPT ![c] = NoCall]
    BY <1>1 DEF Discard
  <2>2. inFlight[u] # Null => call'[inFlight[u]] = call[inFlight[u]]
    BY <2>1, <1>a, ForgetEffect
  <2> QED BY <2>1, <2>2, <1>c, OneUserFrame DEF OneUserInv
<1>2. ASSUME NEW c \in Callers, ServerStep(c), UNCHANGED tabVars PROVE OneUserOf(u)'
  <2>1. /\ Served(c) /\ \A d \in Callers \ {c} : call'[d] = call[d]
        /\ \A k \in Tokens : login[k] # NoLogin => login'[k] = login[k]
    BY <1>2, ServerEffect DEF SessionTypes
  <2>2. \A k : Issued(k) => login'[k] = login[k]
    BY <2>1, LoginsAssumption DEF Issued
  <2>3. OneUserOf(u) /\ UNCHANGED <<store, inFlight, req>>
    BY <1>2, <1>c DEF tabVars, OneUserInv
  <2>4. CASE inFlight[u] # c
    BY <2>1, <2>2, <2>3, <2>4, OneUserFrame
  <2>5. CASE inFlight[u] = c
    <3>1. /\ c \in Requests /\ store[u].access # NoToken /\ Issued(store[u].access)
      BY <1>0, <2>3, <2>5 DEF OneUserOf, TokensAreIssued
    <3>2. call[c].st = "rotating" =>
              Issued(call[c].new) /\ login[call[c].new] = login[call[c].tok]
      BY DEF TokensAreIssued, Issued, TokenInv, RotationInv, CallsSeeRows
    <3>3. /\ call[c].st \in {"refresh", "rotating", "revoking"} => Issued(call[c].tok)
          /\ call[c].st # "logout"
      BY <3>1 DEF TokensAreIssued, ShapeInv, WaitInv, CallsHaveKinds
    <3>4. (/\ call[c].st \in {"refresh", "rotating", "revoking"} =>
                 Owner(call[c].tok) = Owner(store[u].access)
           /\ call[c].st = "ok" => Owner(call[c].new) = Owner(store[u].access))'
      BY <2>1, <2>2, <2>3, <2>5, <3>1, <3>2, <3>3 DEF Served, OneUserOf, Owner
    <3>5. (store[u].ws # Null => store[u].ws = Owner(store[u].access))'
      BY <2>2, <2>3, <3>1 DEF OneUserOf, Owner
    <3>6. (\A q \in Of(u) : req[q].st \in Sent =>
              /\ Owner(req[q].tok) = Owner(store[u].access)
              /\ q \notin Profile => req[q].ws = Owner(req[q].tok))'
      BY <2>2, <2>3, <3>1 DEF OneUserOf, Owner, Of, TokensAreIssued
    <3> QED BY <2>3, <2>5, <3>1, <3>4, <3>5, <3>6 DEF OneUserOf
  <2> QED BY <2>4, <2>5
<1>3. ASSUME NEW t \in Tabs, LogIn(t) PROVE OneUserOf(u)'
  <2>1. PICK l \in Logins, k \in Tokens :
            /\ NewLogin(l, k)
            /\ store' = [store EXCEPT ![t].access = k, ![t].refresh = k]
    BY <1>3 DEF LogIn
  <2>2. \A j : Issued(j) => login'[j] = login[j]
    BY <2>1, LoginsAssumption DEF NewLogin, Issued, Free, SessionTypes, TokenTypeOK
  <2>3. UNCHANGED <<late, call, inFlight, req>> /\ signedOut[t]
    BY <1>3 DEF LogIn
  <2>4. CASE u = t
    <3>1. store[t] = Empty /\ inFlight[t] = Null /\ Of(t) = {}
      BY <2>3, <2>4, <1>c DEF SignedOutInv
    <3>2. store'[t].ws = Null
      BY <2>1, <3>1 DEF StoreRec, Empty
    <3> QED BY <2>3, <2>4, <3>1, <3>2 DEF OneUserOf, Of
  <2>5. CASE u # t
    BY <2>1, <2>2, <2>3, <2>5, <1>c, OneUserFrame DEF OneUserInv
  <2> QED BY <2>4, <2>5
<1>4. ASSUME NEW t \in Tabs, LogOutClicked(t) PROVE OneUserOf(u)'
  <2>1. /\ UNCHANGED <<login, inFlight, req>>
        /\ \A q \in Requests : call'[q] = call[q]
    <3>1. UNCHANGED call \/ Submit(t, "logout", store[t].refresh)
      BY <1>4 DEF LogOutClicked
    <3>2. \A q \in Requests : call'[q] = call[q]
      BY <3>1, SubmitEffect
    <3> QED BY <1>4, <3>2 DEF LogOutClicked
  <2>2. CASE SignOut(t) /\ u = t
    BY <1>b, <1>c, <2>2
  <2>3. CASE store'[u] = store[u] /\ late'[u] = late[u]
    BY <2>1, <2>3, <1>c, OneUserFrame DEF OneUserInv
  <2>4. CASE SignOut(t) /\ u # t
    BY <2>3, <2>4, SignOutEffect
  <2> QED BY <1>4, <2>2, <2>3, <2>4 DEF LogOutClicked
<1>5. ASSUME NEW t \in Tabs, LogOutSettles(t) PROVE OneUserOf(u)'
  <2>1. /\ UNCHANGED <<login, inFlight, req>> /\ SignOut(t)
        /\ \A q \in Requests : call'[q] = call[q]
    <3>1. call' = [call EXCEPT ![t] = NoCall]
      BY <1>5 DEF LogOutSettles
    <3> QED BY <1>5, <3>1, ForgetEffect DEF LogOutSettles
  <2>2. CASE u = t
    BY <1>b, <1>c, <2>1, <2>2
  <2>3. CASE u # t
    BY <2>1, <2>3, <1>c, SignOutEffect, OneUserFrame DEF OneUserInv
  <2> QED BY <2>2, <2>3
<1>6. ASSUME NEW t \in Tabs, Refreshed(t) PROVE OneUserOf(u)'
  <2> DEFINE q == inFlight[t]
             s == [store[t] EXCEPT !.access = call[q].new, !.refresh = call[q].new]
  <2>1. /\ q \in Requests /\ call[q].st = "ok" /\ Issued(call[q].new)
        /\ UNCHANGED <<login, late>> /\ store' = [store EXCEPT ![t] = s]
        /\ call' = [call EXCEPT ![q] = NoCall] /\ inFlight' = [inFlight EXCEPT ![t] = Null]
    BY <1>6 DEF Refreshed, TokensAreIssued, ForgetRefresh
  <2>2. s.access = call[q].new /\ s.ws = store[t].ws /\ call[q].new # NoToken
    BY <2>1, MaxTokensAssumption DEF StoreRec, Issued, Tokens, NoToken
  <2>3. ASSUME NEW p \in Requests
        PROVE  \/ req[p].tab = t /\ req[p].st = "waiting" /\ req'[p] = Idle
               \/ /\ req[p].tab = t /\ req[p].st = "waiting" /\ MayCarry(p, s)
                  /\ req'[p].tab = t /\ req'[p].tok = s.access
                  /\ p \notin Profile => req'[p].ws = s.ws
               \/ ~(req[p].tab = t /\ req[p].st = "waiting") /\ req'[p] = req[p]
    <3>1. req'[p] = (IF p \in Waiters(t) THEN Outgoing(p, t, s, "resent") ELSE req[p])
      BY <1>6 DEF Refreshed
    <3>2. p \in Waiters(t) <=> req[p].tab = t /\ req[p].st = "waiting"
      BY DEF Waiters, Of
    <3> HIDE DEF s
    <3> QED BY <3>1, <3>2 DEF Outgoing
  <2> HIDE DEF q, s
  <2>4. CASE u # t
    <3>1. inFlight'[u] # Null => call'[inFlight[u]] = call[inFlight[u]]
      BY <1>a, <2>1, <2>4, ForgetEffect DEF q
    <3>2. \A p \in Requests : req'[p].tab = u => req'[p] = req[p]
      BY <2>3, <2>4, <1>a
    <3> QED BY <2>1, <2>4, <3>1, <3>2, <1>c, OneUserFrame DEF OneUserInv
  <2>5. CASE u = t
    <3>1. /\ store[t].access # NoToken /\ Owner(call[q].new) = Owner(store[t].access)
          /\ store[t].ws # Null => store[t].ws = Owner(store[t].access)
          /\ \A p \in Requests : req[p].tab = t /\ req[p].st \in Sent =>
              /\ Owner(req[p].tok) = Owner(store[t].access)
              /\ p \notin Profile => req[p].ws = Owner(req[p].tok)
      BY <1>c, <2>1, <2>5 DEF OneUserInv, OneUserOf, Of, q
    <3>2. store'[t] = s /\ inFlight'[t] = Null
      BY <2>1
    <3>3. (store[t].ws # Null => store[t].access # NoToken /\ store[t].ws = Owner(store[t].access))'
      BY <2>1, <2>2, <3>1, <3>2 DEF Owner
    <3>4. (\A p \in Of(t) : req[p].st \in Sent =>
              /\ store[t].access # NoToken /\ Owner(req[p].tok) = Owner(store[t].access)
              /\ p \notin Profile => req[p].ws = Owner(req[p].tok))'
      <4> SUFFICES ASSUME NEW p \in Requests, req'[p].tab = t, req'[p].st \in Sent
                   PROVE  /\ store'[t].access # NoToken
                          /\ (Owner(req[p].tok) = Owner(store[t].access))'
                          /\ p \notin Profile => (req[p].ws = Owner(req[p].tok))'
        BY DEF Of
      <4>1. CASE req'[p] = req[p]
        BY <2>1, <2>2, <3>1, <3>2, <4>1 DEF Owner
      <4>2. CASE MayCarry(p, s) /\ req'[p].tok = s.access /\ (p \notin Profile => req'[p].ws = s.ws)
        BY <2>1, <2>2, <3>1, <3>2, <4>2 DEF Owner, MayCarry
      <4> QED BY <2>3, <4>1, <4>2, <1>a
    <3> QED BY <2>5, <3>2, <3>3, <3>4 DEF OneUserOf
  <2> QED BY <2>4, <2>5
<1>7. ASSUME NEW t \in Tabs, RefreshFails(t) PROVE OneUserOf(u)'
  <2>1. /\ SignOut(t) /\ UNCHANGED login
        /\ \A q \in Requests : req'[q] = req[q] \/ req'[q] = Idle
        /\ inFlight' = [inFlight EXCEPT ![t] = Null]
        /\ inFlight[t] \in Callers /\ call' = [call EXCEPT ![inFlight[t]] = NoCall]
    BY <1>7 DEF RefreshFails, ForgetRefresh
  <2>2. CASE u = t
    BY <1>b, <1>c, <2>1, <2>2
  <2>3. CASE u # t
    <3>1. inFlight'[u] = inFlight[u] /\ store'[u] = store[u] /\ late'[u] = late[u]
      BY <2>1, <2>3, SignOutEffect
    <3>2. inFlight[u] # Null => call'[inFlight[u]] = call[inFlight[u]]
      BY <1>a, <2>1, <2>3, ForgetEffect
    <3> QED BY <2>1, <3>1, <3>2, <1>a, <1>c, OneUserFrame DEF OneUserInv
  <2> QED BY <2>2, <2>3
<1>8. ASSUME NEW t \in Tabs, Reload(t) PROVE OneUserOf(u)'
  <2>1. /\ \A q \in Requests : req'[q] = req[q] \/ req'[q] = Idle
        /\ inFlight' = [inFlight EXCEPT ![t] = Null]
        /\ UNCHANGED <<store, login, call, late>>
    BY <1>8 DEF Reload
  <2> QED BY <2>1, <1>a, <1>c, OneUserFrame DEF OneUserInv
<1>9. ASSUME NEW t \in Tabs, NEW v \in Tabs, CopyTab(t, v) PROVE OneUserOf(u)'
  <2>1. /\ store' = [store EXCEPT ![v] = store[t]] /\ late' = [late EXCEPT ![v] = late[t]]
        /\ inFlight[v] = Null /\ Of(v) = {}
        /\ UNCHANGED <<login, call, inFlight, req>>
    BY <1>9 DEF CopyTab
  <2>2. CASE u = v
    BY <1>c, <2>1, <2>2 DEF OneUserInv, OneUserOf, Of, Owner
  <2>3. CASE u # v
    BY <1>c, <2>1, <2>3, OneUserFrame DEF OneUserInv
  <2> QED BY <2>2, <2>3
<1>10. ASSUME NEW t \in Tabs, NEW q \in Requests, Send(q, t) PROVE OneUserOf(u)'
  <2>1. /\ UNCHANGED <<login, call, inFlight, store, late>> /\ store[t].access # NoToken
        /\ req' = [req EXCEPT ![q] = Outgoing(q, t, store[t], "sent")] /\ MayCarry(q, store[t])
    BY <1>10 DEF Send
  <2>2. /\ req'[q].tab = t /\ req'[q].tok = store[t].access
        /\ q \notin Profile => req'[q].ws = store[t].ws /\ store[t].ws # Null
        /\ \A p \in Requests \ {q} : req'[p] = req[p]
    BY <2>1 DEF Outgoing, MayCarry
  <2>3. CASE u = t
    BY <1>c, <2>1, <2>2, <2>3 DEF OneUserInv, OneUserOf, Of, Owner
  <2>4. CASE u # t
    BY <1>c, <2>1, <2>2, <2>4, OneUserFrame DEF OneUserInv
  <2> QED BY <2>3, <2>4
<1>11. ASSUME NEW q \in Requests, Accepted(q) PROVE OneUserOf(u)'
  <2> DEFINE t == req[q].tab
  <2>1. /\ \A p \in Requests : req'[p] = req[p] \/ req'[p] = Idle
        /\ UNCHANGED <<login, call, inFlight, late>>
        /\ t \in Tabs /\ req[q].st \in Sent
        /\ \/ store' = store
           \/ store' = [store EXCEPT ![t].ws = Owner(req[q].tok)]
    BY <1>11, <1>a DEF Accepted, Sent, Owner
  <2>2. CASE store'[u] = store[u]
    BY <1>c, <1>a, <2>1, <2>2, OneUserFrame DEF OneUserInv
  <2>3. CASE u = t /\ store' = [store EXCEPT ![t].ws = Owner(req[q].tok)]
    <3>1. /\ store'[t].access = store[t].access /\ store'[t].ws = Owner(req[q].tok)
      BY <2>1, <2>3 DEF StoreRec
    <3>2. q \in Of(t) /\ OneUserOf(t)
      BY <2>1, <2>3, <1>c DEF Of, OneUserInv
    <3>3. store[t].access # NoToken /\ Owner(req[q].tok) = Owner(store[t].access)
      BY <2>1, <3>2 DEF OneUserOf
    <3> HIDE DEF t
    <3>4. (store[u].ws # Null => store[u].access # NoToken /\ store[u].ws = Owner(store[u].access))'
      BY <2>1, <2>3, <3>1, <3>3 DEF Owner
    <3> QED BY <1>a, <2>1, <2>3, <3>1, <3>2, <3>4 DEF OneUserOf, Of, Owner
  <2> QED BY <2>1, <2>2, <2>3
<1>12. ASSUME NEW q \in Requests, Fails(q) PROVE OneUserOf(u)'
  <2>1. /\ UNCHANGED <<login, call, inFlight, store, late>>
        /\ \A p \in Requests : req'[p] = req[p] \/ req'[p] = Idle
    BY <1>12 DEF Fails
  <2> QED BY <1>c, <1>a, <2>1, OneUserFrame DEF OneUserInv
<1>13. ASSUME NEW q \in Requests, ForcedOut(q) PROVE OneUserOf(u)'
  <2>1. /\ SignOut(req[q].tab) /\ req[q].tab \in Tabs /\ UNCHANGED <<login, call, inFlight>>
        /\ \A p \in Requests : req'[p] = req[p] \/ req'[p] = Idle
    BY <1>13, <1>a DEF ForcedOut, Sent
  <2>2. CASE u = req[q].tab
    BY <1>b, <1>c, <2>1, <2>2
  <2>3. CASE u # req[q].tab
    BY <2>1, <2>3, <1>a, <1>c, SignOutEffect, OneUserFrame DEF OneUserInv
  <2> QED BY <2>2, <2>3
<1>14. ASSUME NEW q \in Requests, WaitForRefresh(q) PROVE OneUserOf(u)'
  <2> DEFINE t == req[q].tab
  <2>1. /\ t \in Tabs /\ req[q].st \in Sent
        /\ req'[q].st = "waiting" /\ req'[q].tab = t
        /\ \A p \in Requests \ {q} : req'[p] = req[p]
        /\ UNCHANGED <<login, store, late>>
    BY <1>14, <1>a DEF WaitForRefresh, Sent, Idle
  <2>2. \A p \in Requests : req'[p].tab = u => req'[p] = req[p] \/ req'[p].st \notin Sent
    BY <2>1 DEF Sent
  <2>3. CASE UNCHANGED <<call, inFlight>>
    BY <1>c, <2>1, <2>2, <2>3, OneUserFrame DEF OneUserInv
  <2>4. CASE /\ Submit(q, "refresh", store[t].refresh)
             /\ inFlight' = [inFlight EXCEPT ![t] = q] /\ call[q].st = "none"
    <3>1. call'[q].st = "refresh" /\ call'[q].tok = store[t].access
          /\ \A d \in Callers \ {q} : call'[d] = call[d]
      BY <2>1, <2>4, SubmitEffect DEF TokensAreIssued
    <3>2. CASE u # t
      <4>1. inFlight[u] # Null => inFlight[u] # q
        BY <2>4 DEF ShapeInv, WaitInv, CallsAreAwaited
      <4> QED BY <1>c, <2>1, <2>2, <2>4, <3>1, <3>2, <4>1, OneUserFrame DEF OneUserInv
    <3>3. CASE u = t
      <4>1. OneUserOf(u) /\ q \in Of(u)
        BY <1>c, <2>1, <3>3 DEF OneUserInv, Of
      <4>2. store[u].access # NoToken
        BY <2>1, <4>1 DEF OneUserOf
      <4>3. inFlight'[u] = q
        BY <2>4, <3>3
      <4>4. (Owner(call[q].tok) = Owner(store[u].access) /\ call[q].st # "ok")'
        BY <2>1, <3>1, <3>3 DEF Owner
      <4> HIDE DEF t
      <4>5. (\A p \in Of(u) : req[p].st \in Sent =>
                /\ store[u].access # NoToken /\ Owner(req[p].tok) = Owner(store[u].access)
                /\ p \notin Profile => req[p].ws = Owner(req[p].tok))'
        BY <2>1, <2>2, <4>1 DEF OneUserOf, Of, Owner
      <4> QED BY <2>1, <4>1, <4>2, <4>3, <4>4, <4>5 DEF OneUserOf, Owner
    <3> QED BY <3>2, <3>3
  <2> QED BY <1>14, <2>3, <2>4 DEF WaitForRefresh
<1>15. ASSUME NEW k \in Tokens, Expire(k) PROVE OneUserOf(u)'
  <2>1. UNCHANGED <<login, call, inFlight, store, late, req>>
    BY <1>15 DEF Expire
  <2> QED BY <2>1, <1>c, OneUserFrame DEF OneUserInv
<1> QED BY <1>1, <1>2, <1>3, <1>4, <1>5, <1>6, <1>7, <1>8, <1>9, <1>10, <1>11, <1>12, <1>13, <1>14, <1>15
        DEF SessionNext, Answer
-----------------------------------------------------------------------------
(* No token is presented twice *)

\* What a tab has was issued.
LEMMA HeldAreIssued ==
    ASSUME SessionTypes, TokensAreIssued, TokenInv, NEW t \in Tabs, NEW k \in Tokens, Holds(t, k)
    PROVE  Issued(k)
<1> USE SessionAssumption
<1>0. inFlight[t] \in Requests \cup {Null} /\ k # NoToken
  <2>1. inFlight \in [Tabs -> Requests \cup {Null}]
    BY DEF SessionTypes
  <2>2. k # NoToken
    BY MaxTokensAssumption DEF Tokens, NoToken
  <2> QED BY <2>1, <2>2
<1>1. ASSUME inFlight[t] # Null, call[inFlight[t]].st = "rotating" PROVE Issued(call[inFlight[t]].new)
  BY <1>0, <1>1 DEF TokensAreIssued, Issued, TokenInv, RotationInv, CallsSeeRows
<1> QED BY <1>0, <1>1 DEF Holds, TokensAreIssued

\* A step in which no tab gets hold of a token.
LEMMA NothingGained ==
    ASSUME HeldOnce, \A t \in Tabs : \A k \in Tokens : Holds(t, k)' => Holds(t, k)
    PROVE  HeldOnce'
BY DEF HeldOnce

\* A tab whose tokens and calls stay as they are, and their rows active, is as it was.
LEMMA UnusedFrame ==
    ASSUME SessionTypes, TokensAreIssued, NEW t \in Tabs, Unused(t),
           store'[t].refresh = store[t].refresh, inFlight'[t] = inFlight[t], call'[t] = call[t],
           inFlight[t] # Null => call'[inFlight[t]] = call[inFlight[t]],
           \A k \in Tokens : Holds(t, k) /\ row[k] = "active" => row'[k] = "active"
    PROVE  Unused(t)' /\ \A k \in Tokens : Holds(t, k)' <=> Holds(t, k)
<1>0. inFlight[t] \in Requests \cup {Null}
  BY DEF SessionTypes
<1>1. \A k \in Tokens : Holds(t, k)' <=> Holds(t, k)
  BY DEF Holds
<1>2. store[t].refresh # NoToken => store[t].refresh \in Tokens
  BY DEF TokensAreIssued, Issued
<1>3. inFlight[t] # Null =>
          /\ call[inFlight[t]].st \in {"refresh", "rotating"} => call[inFlight[t]].tok \in Tokens
          /\ call[inFlight[t]].st = "ok" => call[inFlight[t]].new \in Tokens
  BY <1>0, SessionAssumption DEF TokensAreIssued, Issued
<1>4. (store[t].refresh # NoToken =>
          \/ row[store[t].refresh] = "active" \/ call[t].st = "ok"
          \/ inFlight[t] # Null /\ call[inFlight[t]].st = "ok")'
  BY <1>2 DEF Unused, Holds
<1>5. (inFlight[t] # Null =>
          /\ call[inFlight[t]].st # "revoking"
          /\ call[inFlight[t]].st \in {"refresh", "rotating"} =>
              row[call[inFlight[t]].tok] = "active"
          /\ call[inFlight[t]].st = "ok" => row[call[inFlight[t]].new] = "active")'
  BY <1>3 DEF Unused, Holds
<1> QED BY <1>1, <1>4, <1>5 DEF Unused


\* The server's part: of one tab, the one the call is for, the call and its rows change; nobody
\* else has these tokens, and no token is presented after it was used.
LEMMA ServerUndisturbed ==
    ASSUME ShapeInv, TokensAreIssued, TokenInv, Undisturbed,
           NEW c \in Callers, ServerStep(c), UNCHANGED tabVars
    PROVE  Undisturbed'
<1> USE SessionAssumption
<1>0. /\ inFlight \in [Tabs -> Requests \cup {Null}] /\ call \in [Callers -> CallRec]
      /\ SessionTypes /\ row \in [Tokens -> RowStates]
  BY DEF ShapeInv, SessionTypes, TokenTypeOK, CallRec, RowStates
<1> USE <1>0
<1>1. /\ Served(c) /\ \A d \in Callers \ {c} : call'[d] = call[d]
      /\ UNCHANGED <<store, inFlight, abandoned>>
  BY ServerEffect DEF tabVars, SessionTypes
<1>2. PICK u \in Tabs :
          \/ c \in Requests /\ inFlight[u] = c
          \/ c = u
  <2>1. call[c].st # "none"
    BY <1>1 DEF Served
  <2> QED BY <2>1 DEF ShapeInv, WaitInv, CallsAreAwaited, Undisturbed
<1>3. ASSUME NEW v \in Tabs \ {u}
      PROVE  /\ call'[v] = call[v]
             /\ inFlight[v] # Null => call'[inFlight[v]] = call[inFlight[v]]
  <2>1. inFlight[v] # Null => inFlight[v] # c
    BY <1>2 DEF ShapeInv, WaitInv, OneRefresh
  <2> QED BY <1>1, <1>2, <2>1
<1>4. ASSUME c \in Requests
      PROVE  /\ inFlight[u] = c /\ call'[u] = call[u] /\ call[u].st = "none"
             /\ call[c].st \in {"refresh", "rotating"} /\ row[call[c].tok] = "active"
  <2>1. inFlight[u] = c /\ inFlight[u] # Null /\ call'[u] = call[u]
    BY <1>1, <1>2, <1>4
  <2>2. call[c].st \notin {"logout", "revoking"}
    BY <1>4, <2>1 DEF Undisturbed, Unused, ShapeInv, WaitInv, CallsHaveKinds
  <2>3. call[c].st \in {"refresh", "rotating"}
    BY <1>1, <2>2 DEF Served
  <2> QED BY <2>1, <2>3 DEF Undisturbed, Unused
<1>a. ASSUME c \notin Requests PROVE c = u /\ inFlight[u] = Null /\ call[c].st = "logout"
  <2>1. c = u
    BY <1>2, <1>a
  <2>2. call[c].st = "logout"
    BY <1>1, <2>1 DEF Served, ShapeInv, WaitInv, CallsHaveKinds
  <2> QED BY <2>1, <2>2 DEF Undisturbed, Unused
<1>5. Unused(u)
  BY DEF Undisturbed
<1>6. SUFFICES /\ ~reuse' /\ HeldOnce' /\ Unused(u)'
               /\ \A v \in Tabs \ {u} : \A k \in Tokens :
                     Holds(v, k) /\ row[k] = "active" => row'[k] = "active"
  BY <1>1, <1>3, UnusedFrame DEF Undisturbed
<1>7. /\ ~reuse /\ HeldOnce
      /\ \A k \in Tokens : Holds(u, k) => \A v \in Tabs \ {u} : ~Holds(v, k)
  BY DEF Undisturbed, HeldOnce
<1>8. /\ store[u].refresh # NoToken => store[u].refresh \in Tokens
      /\ call[c].st \in {"refresh", "logout", "rotating"} => call[c].tok \in Tokens
  BY DEF TokensAreIssued, Issued
<1>9. call[c].st = "rotating" => call[c].new \in Tokens /\ row[call[c].new] = "pending"
  BY DEF TokenInv, CallsSeeRows, RotationInv
<1>10. CASE /\ call[c].st = "refresh" /\ call'[c].st = "rotating"
            /\ call'[c].tok = call[c].tok /\ call[c].tok \in Active
            /\ call'[c].new \in Free
            /\ \A k \in Tokens : k # call'[c].new => row'[k] = row[k]
            /\ reuse' = reuse
  <2> DEFINE n == call'[c].new
  <2>1. c \in Requests /\ n \in Tokens /\ row[n] = "none" /\ \A v \in Tabs : ~Holds(v, n)
    BY <1>4, <1>a, <1>10, HeldAreIssued, LoginsAssumption DEF Free, Issued
  <2>2. \A k \in Tokens : row[k] = "active" => row'[k] = "active"
    BY <1>10, <2>1
  <2>3. \A v \in Tabs : \A k \in Tokens : Holds(v, k)' => Holds(v, k) \/ (v = u /\ k = n)
    BY <1>1, <1>3, <1>4, <1>a, <1>10, <2>1 DEF Holds
  <2>4. HeldOnce'
    BY <1>7, <2>1, <2>3 DEF HeldOnce
  <2>5. Unused(u)'
    BY <1>1, <1>4, <1>a, <1>5, <1>8, <1>10, <2>1, <2>2 DEF Unused
  <2> QED BY <1>7, <1>10, <2>2, <2>4, <2>5
<1>11. CASE /\ call[c].st = "rotating" /\ call'[c].st = "ok" /\ call'[c].new = call[c].new
            /\ row' = [row EXCEPT ![call[c].tok] = "revoked", ![call[c].new] = "active"]
            /\ reuse' = reuse
  <2>1. c \in Requests /\ Holds(u, call[c].tok)
    BY <1>4, <1>a, <1>11 DEF Holds
  <2>2. \A v \in Tabs : \A k \in Tokens : Holds(v, k)' => Holds(v, k)
    BY <1>1, <1>3, <1>4, <1>a, <1>11, <2>1 DEF Holds
  <2>3. \A v \in Tabs \ {u} : \A k \in Tokens : Holds(v, k) /\ row[k] = "active" => row'[k] = "active"
    BY <1>7, <1>8, <1>9, <1>11, <2>1
  <2>4. Unused(u)'
    BY <1>1, <1>4, <1>a, <1>8, <1>9, <1>11, <2>1 DEF Unused
  <2> QED BY <1>7, <1>11, <2>2, <2>3, <2>4, NothingGained
<1>12. CASE call[c].st = "refresh" /\ call'[c].st = "revoking" /\ row[call[c].tok] = "revoked"
  BY <1>4, <1>a, <1>12
<1>13. CASE /\ call[c].st = "logout" /\ call'[c].st = "ok"
            /\ row' = [row EXCEPT ![call[c].tok] = "revoked"] /\ reuse' = reuse
  <2>1. c = u /\ inFlight[u] = Null /\ Holds(u, call[c].tok)
    BY <1>4, <1>a, <1>13 DEF Holds
  <2>2. \A v \in Tabs : \A k \in Tokens : Holds(v, k)' => Holds(v, k)
    BY <1>1, <1>3, <1>13, <2>1 DEF Holds
  <2>3. \A v \in Tabs \ {u} : \A k \in Tokens : Holds(v, k) /\ row[k] = "active" => row'[k] = "active"
    BY <1>7, <1>8, <1>13, <2>1
  <2>4. Unused(u)'
    BY <1>1, <1>8, <1>13, <2>1 DEF Unused
  <2> QED BY <1>7, <1>13, <2>2, <2>3, <2>4, NothingGained
<1>14. CASE /\ call[c].st \in {"refresh", "logout"} /\ call'[c].st = "failed"
            /\ row' = row /\ reuse' = reuse
  <2>2. \A v \in Tabs : \A k \in Tokens : Holds(v, k)' => Holds(v, k)
    BY <1>1, <1>3, <1>4, <1>a, <1>14 DEF Holds
  <2>4. Unused(u)'
    BY <1>1, <1>4, <1>a, <1>5, <1>14 DEF Unused
  <2> QED BY <1>7, <1>14, <2>2, <2>4, NothingGained
<1>15. CASE /\ call[c].st = "rotating" /\ call'[c].st = "failed"
            /\ row' = [row EXCEPT ![call[c].new] = "none"] /\ reuse' = reuse
  <2>1. c \in Requests /\ \A k \in Tokens : row[k] = "active" => row'[k] = "active"
    BY <1>4, <1>a, <1>9, <1>15
  <2>2. \A v \in Tabs : \A k \in Tokens : Holds(v, k)' => Holds(v, k)
    BY <1>1, <1>3, <1>4, <1>a, <1>15 DEF Holds
  <2>4. Unused(u)'
    BY <1>1, <1>4, <1>a, <1>5, <1>8, <1>15, <2>1 DEF Unused
  <2> QED BY <1>7, <1>15, <2>1, <2>2, <2>4, NothingGained
<1>16. CASE call[c].st = "revoking"
  BY <1>4, <1>a, <1>16
<1> QED BY <1>1, <1>10, <1>11, <1>12, <1>13, <1>14, <1>15, <1>16 DEF Served


\* A disturbance leaves a cause, and no cause is forgotten.
LEMMA NoCauseBefore ==
    ASSUME NEW cause, NEW b, Disturbed(cause, b), causes' = {}
    PROVE  causes = {} /\ ~b
BY DEF Disturbed

\* Without a disturbance no step makes two tabs hold one token, or a tab present one twice.
LEMMA UndisturbedStep ==
    ASSUME ShapeInv, TokensAreIssued, TokenInv, UndisturbedInv, SessionNext
    PROVE  UndisturbedInv'
<1> USE SessionAssumption
<1>0. /\ store \in [Tabs -> StoreRec] /\ inFlight \in [Tabs -> Requests \cup {Null}]
      /\ req \in [Requests -> ReqRec] /\ call \in [Callers -> CallRec] /\ CallsShaped
      /\ row \in [Tokens -> RowStates] /\ SessionTypes
      /\ \A t, u \in Tabs : inFlight[t] # Null /\ inFlight[t] = inFlight[u] => t = u
  <2>1. \A t, u \in Tabs : inFlight[t] # Null /\ inFlight[t] = inFlight[u] => t = u
    BY DEF ShapeInv, WaitInv, OneRefresh
  <2> QED BY <2>1 DEF ShapeInv, SessionTypes, TokenTypeOK, CallRec, TokenInv, RowStates
<1> USE <1>0
<1> SUFFICES ASSUME causes' = {} PROVE Undisturbed'
  BY DEF UndisturbedInv
<1>a. ASSUME causes = {} PROVE Undisturbed /\ ~reuse /\ abandoned = {} /\ HeldOnce /\ \A t \in Tabs : Unused(t)
  BY <1>a DEF UndisturbedInv, Undisturbed
<1>b. ASSUME causes = {}, UNCHANGED <<row, call, reuse, abandoned, inFlight>>,
             \A t \in Tabs : store'[t].refresh = store[t].refresh
      PROVE  Undisturbed'
  <2>1. \A t \in Tabs : Unused(t)' /\ \A k \in Tokens : Holds(t, k)' <=> Holds(t, k)
    BY <1>a, <1>b, UnusedFrame
  <2> QED BY <1>a, <1>b, <2>1, NothingGained DEF Undisturbed
<1>c. ASSUME causes = {}, NEW t \in Tabs, SignOut(t), UNCHANGED <<row, reuse, abandoned>>,
             \A u \in Tabs \ {t} : inFlight'[u] = inFlight[u] /\ call'[u] = call[u]
                                 /\ (inFlight[u] # Null => call'[inFlight[u]] = call[inFlight[u]]),
             \/ inFlight'[t] = Null /\ call'[t].st # "logout"
             \/ UNCHANGED <<call, inFlight>>
      PROVE  Undisturbed'
  <2>1. store'[t].refresh = NoToken /\ \A u \in Tabs \ {t} : store'[u] = store[u]
    BY <1>c, SignOutEffect DEF Empty
  <2>2. \A u \in Tabs \ {t} : Unused(u)' /\ \A k \in Tokens : Holds(u, k)' <=> Holds(u, k)
    BY <1>a, <1>c, <2>1, UnusedFrame
  <2>3. Unused(t)'
    BY <1>a, <1>c, <2>1 DEF Unused
  <2>4. \A k \in Tokens : k # NoToken
    BY MaxTokensAssumption DEF Tokens, NoToken
  <2>5. \A k \in Tokens : Holds(t, k)' => Holds(t, k)
    BY <1>c, <2>1, <2>4 DEF Holds
  <2> QED BY <1>a, <1>c, <2>2, <2>3, <2>5, NothingGained DEF Undisturbed
<1>1. ASSUME NEW c \in Callers, Discard(c) PROVE Undisturbed'
  BY <1>1, <1>a DEF Discard
<1>2. ASSUME NEW c \in Callers, ServerStep(c), UNCHANGED tabVars PROVE Undisturbed'
  BY <1>2, <1>a, ServerUndisturbed DEF tabVars
<1>3. ASSUME NEW t \in Tabs, LogIn(t) PROVE Undisturbed'
  <2>1. PICK l \in Logins, k \in Tokens :
            /\ NewLogin(l, k)
            /\ store' = [store EXCEPT ![t].access = k, ![t].refresh = k]
    BY <1>3 DEF LogIn
  <2>2. /\ causes = {} /\ UNCHANGED <<call, reuse, abandoned, inFlight>>
        /\ row[k] = "none" /\ row' = [row EXCEPT ![k] = "active"]
        /\ store'[t].refresh = k /\ \A u \in Tabs \ {t} : store'[u] = store[u]
    <3>1. store'[t].refresh = k /\ \A u \in Tabs \ {t} : store'[u] = store[u]
      BY <2>1 DEF StoreRec
    <3>2. row[k] = "none" /\ row' = [row EXCEPT ![k] = "active"]
      BY <2>1 DEF NewLogin, Free
    <3> QED BY <1>3, <3>1, <3>2 DEF LogIn
  <2>3. \A u \in Tabs : ~Holds(u, k)
    BY <2>1, HeldAreIssued, LoginsAssumption DEF NewLogin, Free, Issued
  <2>4. \A u \in Tabs \ {t} : Unused(u)' /\ \A j \in Tokens : Holds(u, j)' <=> Holds(u, j)
    BY <1>a, <2>2, UnusedFrame
  <2>5. Unused(t)'
    BY <1>a, <2>2 DEF Unused
  <2>6. \A j \in Tokens : Holds(t, j)' => Holds(t, j) \/ j = k
    BY <2>2 DEF Holds
  <2>7. HeldOnce'
    BY <1>a, <2>2, <2>3, <2>4, <2>6 DEF HeldOnce
  <2> QED BY <1>a, <2>2, <2>4, <2>5, <2>7 DEF Undisturbed
<1>4. ASSUME NEW t \in Tabs, LogOutClicked(t) PROVE Undisturbed'
  <2>1. CASE SignOut(t) /\ UNCHANGED <<call, causes>>
    BY <1>4, <1>c, <2>1 DEF LogOutClicked
  <2>2. CASE Submit(t, "logout", store[t].refresh) /\ Disturbed("logout beside a refresh", inFlight[t] # Null)
                 /\ UNCHANGED store
    <3>1. /\ causes = {} /\ inFlight[t] = Null /\ call[t].st = "none"
          /\ UNCHANGED <<row, reuse, inFlight, abandoned>>
      BY <1>4, <2>2, NoCauseBefore DEF LogOutClicked
    <3>2. /\ call'[t].st = "logout" /\ call'[t].tok = store[t].refresh
          /\ \A d \in Callers \ {t} : call'[d] = call[d]
      <4>1. Submit(t, "logout", store[t].refresh)
        BY <2>2
      <4> QED BY <4>1, SubmitEffect
    <3>3. \A u \in Tabs \ {t} : Unused(u)' /\ \A k \in Tokens : Holds(u, k)' <=> Holds(u, k)
      BY <1>a, <2>2, <3>1, <3>2, UnusedFrame
    <3>4. Unused(t)'
      BY <1>a, <2>2, <3>1, <3>2 DEF Unused
    <3>5. \A k \in Tokens : Holds(t, k)' => Holds(t, k)
      BY <2>2, <3>1, <3>2 DEF Holds
    <3> QED BY <1>a, <3>1, <3>3, <3>4, <3>5, NothingGained DEF Undisturbed
  <2> QED BY <1>4, <2>1, <2>2 DEF LogOutClicked
<1>5. ASSUME NEW t \in Tabs, LogOutSettles(t) PROVE Undisturbed'
  <2>1. /\ SignOut(t) /\ causes = {} /\ call' = [call EXCEPT ![t] = NoCall] /\ call[t].st # "none"
        /\ UNCHANGED <<row, reuse, inFlight, abandoned>>
    BY <1>5 DEF LogOutSettles, Answered
  <2>2. inFlight[t] = Null
    BY <1>a, <2>1 DEF Unused
  <2>3. call'[t].st = "none" /\ \A d \in Callers \ {t} : call'[d] = call[d]
    BY <2>1, ForgetEffect
  <2> QED BY <1>c, <2>1, <2>2, <2>3
<1>6. ASSUME NEW t \in Tabs, Refreshed(t) PROVE Undisturbed'
  <2> DEFINE q == inFlight[t]
  <2>1. /\ q \in Requests /\ call[q].st = "ok" /\ causes = {}
        /\ UNCHANGED <<row, reuse, abandoned>>
        /\ call' = [call EXCEPT ![q] = NoCall] /\ inFlight' = [inFlight EXCEPT ![t] = Null]
    BY <1>6 DEF Refreshed, ForgetRefresh
  <2>2. store'[t].refresh = call[q].new /\ \A u \in Tabs \ {t} : store'[u] = store[u]
    BY <1>6 DEF Refreshed, StoreRec
  <2>3. call[t].st = "none" /\ row[call[q].new] = "active" /\ call'[t] = call[t]
    BY <1>a, <2>1 DEF Unused
  <2>4. \A u \in Tabs \ {t} : call'[u] = call[u] /\ (inFlight[u] # Null => call'[inFlight[u]] = call[inFlight[u]])
    BY <2>1, ForgetEffect
  <2>5. \A u \in Tabs \ {t} : Unused(u)' /\ \A k \in Tokens : Holds(u, k)' <=> Holds(u, k)
    BY <1>a, <2>1, <2>2, <2>4, UnusedFrame
  <2>6. Unused(t)'
    BY <2>1, <2>2, <2>3 DEF Unused
  <2>7. \A k \in Tokens : Holds(t, k)' => Holds(t, k)
    BY <2>1, <2>2, <2>3 DEF Holds
  <2> QED BY <1>a, <2>1, <2>5, <2>6, <2>7, NothingGained DEF Undisturbed
<1>7. ASSUME NEW t \in Tabs, RefreshFails(t) PROVE Undisturbed'
  <2>1. /\ SignOut(t) /\ causes = {} /\ inFlight[t] \in Callers
        /\ inFlight[t] \in Requests /\ inFlight[t] # Null
        /\ call' = [call EXCEPT ![inFlight[t]] = NoCall] /\ inFlight' = [inFlight EXCEPT ![t] = Null]
        /\ UNCHANGED <<row, reuse, abandoned>>
    BY <1>7 DEF RefreshFails, ForgetRefresh
  <2>2. call[t].st = "none" /\ call'[t] = call[t]
    BY <1>a, <2>1 DEF Unused
  <2>3. \A u \in Tabs \ {t} : call'[u] = call[u] /\ (inFlight[u] # Null => call'[inFlight[u]] = call[inFlight[u]])
    BY <2>1, ForgetEffect
  <2> QED BY <1>c, <2>1, <2>2, <2>3
<1>8. ASSUME NEW t \in Tabs, Reload(t) PROVE Undisturbed'
  <2>1. /\ causes = {} /\ abandoned' = abandoned
        /\ UNCHANGED <<row, call, reuse, store>> /\ inFlight' = [inFlight EXCEPT ![t] = Null]
    BY <1>8, NoCauseBefore DEF Reload
  <2>2. inFlight[t] = Null
    <3>1. inFlight[t] # Null => inFlight[t] \notin abandoned /\ call[inFlight[t]].st # "none"
      BY DEF ShapeInv, WaitInv, CallsAreAwaited
    <3>2. abandoned' = abandoned \cup {c \in {t, inFlight[t]} \ {Null} : call[c].st # "none"}
      BY <1>8 DEF Reload
    <3> QED BY <2>1, <3>1, <3>2
  <2> QED BY <1>b, <2>1, <2>2
<1>9. ASSUME NEW t \in Tabs, NEW u \in Tabs, CopyTab(t, u) PROVE Undisturbed'
  BY <1>9, NoCauseBefore DEF CopyTab
<1>10. ASSUME NEW t \in Tabs, NEW q \in Requests, Send(q, t) PROVE Undisturbed'
  BY <1>10, <1>b DEF Send
<1>11. ASSUME NEW q \in Requests, Accepted(q) PROVE Undisturbed'
  <2>1. \A t \in Tabs : store'[t].refresh = store[t].refresh
    BY <1>11 DEF Accepted, StoreRec
  <2> QED BY <1>11, <1>b, <2>1 DEF Accepted
<1>12. ASSUME NEW q \in Requests, Fails(q) PROVE Undisturbed'
  BY <1>12, <1>b DEF Fails
<1>13. ASSUME NEW q \in Requests, ForcedOut(q) PROVE Undisturbed'
  <2>1. req[q].tab \in Tabs
    BY <1>13 DEF ForcedOut, ShapeInv, WaitInv, RequestsAreOfTabs, Sent
  <2> QED BY <1>13, <1>c, <2>1 DEF ForcedOut
<1>14. ASSUME NEW q \in Requests, WaitForRefresh(q) PROVE Undisturbed'
  <2>1. PICK t \in Tabs : t = req[q].tab
    BY <1>14 DEF WaitForRefresh, ShapeInv, WaitInv, RequestsAreOfTabs, Sent
  <2>2. UNCHANGED <<row, reuse, store, abandoned>> /\ store[t].refresh # NoToken
    BY <1>14, <2>1 DEF WaitForRefresh, Hopeless
  <2>3. CASE UNCHANGED <<call, inFlight, causes>>
    BY <1>b, <2>2, <2>3
  <2>4. CASE /\ inFlight[t] = Null /\ call[q].st = "none"
             /\ Submit(q, "refresh", store[t].refresh)
             /\ inFlight' = [inFlight EXCEPT ![t] = q]
             /\ Disturbed("logout beside a refresh", call[t].st # "none")
    <3>1. causes = {} /\ call[t].st = "none"
      BY <2>4, NoCauseBefore
    <3>2. /\ call'[q].st = "refresh" /\ call'[q].tok = store[t].refresh
          /\ \A d \in Callers \ {q} : call'[d] = call[d]
      <4>1. Submit(q, "refresh", store[t].refresh)
        BY <2>4
      <4> QED BY <4>1, SubmitEffect
    <3>3. \A u \in Tabs : inFlight[u] # Null => inFlight[u] # q
      BY <2>4 DEF ShapeInv, WaitInv, CallsAreAwaited
    <3>4. \A u \in Tabs \ {t} : Unused(u)' /\ \A k \in Tokens : Holds(u, k)' <=> Holds(u, k)
      BY <1>a, <2>2, <2>4, <3>1, <3>2, <3>3, UnusedFrame
    <3>5. row[store[t].refresh] = "active"
      BY <1>a, <2>2, <2>4, <3>1 DEF Unused
    <3>6. inFlight'[t] = q /\ call'[t].st = "none"
      BY <2>4, <3>1, <3>2
    <3>7. Unused(t)'
      BY <2>2, <3>2, <3>5, <3>6 DEF Unused
    <3>8. \A k \in Tokens : Holds(t, k)' => Holds(t, k)
      BY <2>2, <3>2, <3>6 DEF Holds
    <3> QED BY <1>a, <2>2, <3>1, <3>4, <3>7, <3>8, NothingGained DEF Undisturbed
  <2> QED BY <1>14, <2>1, <2>3, <2>4 DEF WaitForRefresh, MustRefresh
<1>15. ASSUME NEW k \in Tokens, Expire(k) PROVE Undisturbed'
  BY <1>15, <1>b DEF Expire
<1> QED BY <1>1, <1>2, <1>3, <1>4, <1>5, <1>6, <1>7, <1>8, <1>9, <1>10, <1>11, <1>12, <1>13, <1>14, <1>15
        DEF SessionNext, Answer

-----------------------------------------------------------------------------
(* The theorems *)

\* The inductive invariant, its layers in the order in which they rest on each other
SignedInInv == ShapeInv /\ TokensAreIssued /\ SignedOutInv /\ OneUserInv /\ UndisturbedInv

\* Nobody is signed in at first.
LEMMA SessionStarts == SessionInit => SignedInInv
<1> SUFFICES ASSUME SessionInit PROVE SignedInInv
  OBVIOUS
<1> USE SessionAssumption DEF SessionInit
<1>1. TokenTypeOK
  BY DEF TokenInit, TokenTypeOK, States, NoCall, NoToken
<1>2. /\ \A t \in Tabs : store[t] = Empty /\ inFlight[t] = Null
      /\ \A q \in Requests : req[q] = Idle
      /\ \A c \in Callers : call[c] = NoCall
  BY DEF TokenInit
<1>3. SessionTypes
  <2>1. Empty \in StoreRec /\ Idle \in ReqRec
    BY DEF Empty, StoreRec, Idle, ReqRec, NoToken
  <2> QED BY <1>1, <2>1 DEF SessionTypes
<1>4. WaitInv
  BY <1>2 DEF WaitInv, CallsHaveKinds, RequestsAreOfTabs, OneRefresh, CallsAreAwaited, Idle, NoCall
<1>5. TokensAreIssued
  BY <1>2 DEF TokensAreIssued, Empty, Idle, NoCall, Sent
<1>6. SignedOutInv
  <2>1. \A q \in Requests : req[q].tab \notin Tabs
    BY <1>2 DEF Idle
  <2> QED BY <1>2, <2>1 DEF SignedOutInv, Of
<1>7. OneUserInv
  BY <1>2 DEF OneUserInv, OneUserOf, Of, Empty, Idle, Sent
<1>8. Undisturbed
  <2>1. HeldOnce
    BY <1>2, MaxTokensAssumption DEF HeldOnce, Holds, Empty, NoCall, Tokens, NoToken
  <2>2. \A t \in Tabs : Unused(t)
    BY <1>2 DEF Unused, Empty, NoCall
  <2> QED BY <2>1, <2>2 DEF Undisturbed, TokenInit
<1> QED BY <1>3, <1>4, <1>5, <1>6, <1>7, <1>8 DEF SignedInInv, ShapeInv, UndisturbedInv

\* Every step keeps it.
LEMMA SessionKeepsInv == SignedInInv /\ TokenInv /\ [SessionNext]_sessionVars => SignedInInv'
<1> SUFFICES ASSUME SignedInInv, TokenInv, [SessionNext]_sessionVars PROVE SignedInInv'
  OBVIOUS
<1>1. CASE SessionNext
  <2>1. SessionTypes /\ WaitInv /\ ShapeInv /\ RequestsAreOfTabs /\ CallsAreAwaited
    BY DEF SignedInInv, ShapeInv, WaitInv
  <2>2. SessionTypes' /\ WaitInv' /\ TokensAreIssued'
    BY <1>1, <2>1, TypesStep, WaitStep, IssuedStep DEF SignedInInv
  <2>3. SignedOutInv' /\ OneUserInv' /\ UndisturbedInv'
    BY <1>1, <2>1, SignedOutStep, OneUserStep, UndisturbedStep DEF SignedInInv
  <2> QED BY <2>2, <2>3 DEF SignedInInv, ShapeInv
<1>2. CASE UNCHANGED sessionVars
  <2> USE <1>2 DEF sessionVars
  <2>1. (SessionTypes => SessionTypes') /\ (WaitInv => WaitInv')
    BY DEF SessionTypes, TokenTypeOK, WaitInv, CallsHaveKinds, RequestsAreOfTabs, OneRefresh,
        CallsAreAwaited
  <2>2. (TokensAreIssued => TokensAreIssued') /\ (SignedOutInv => SignedOutInv')
    BY DEF TokensAreIssued, Issued, SignedOutInv, Of
  <2>3. OneUserInv => OneUserInv'
    BY DEF OneUserInv, OneUserOf, Of, Owner
  <2>4. HeldOnce => HeldOnce'
    BY DEF HeldOnce, Holds
  <2>5. UndisturbedInv => UndisturbedInv'
    BY <2>4 DEF UndisturbedInv, Undisturbed, Unused
  <2> QED BY <2>1, <2>2, <2>3, <2>5 DEF SignedInInv, ShapeInv
<1> QED BY <1>1, <1>2

\* Whatever the tabs do, the invariant holds.
THEOREM SessionsCorrect == SessionSpec => []SignedInInv
<1> QED BY SessionStarts, SessionKeepsInv, TokensCorrect, PTL DEF SessionSpec

\* In every state: the types, one refresh that all waiters of a tab share, and requests that
\* carry the workspace of the user their token belongs to, also when they are sent again after
\* a refresh (refreshAccessToken, applyWorkspaceHeader).
THEOREM HeadersMatchTokens == SessionSpec => []SessionInv
<1>1. SignedInInv => HeaderMatchesToken
  <2> SUFFICES ASSUME SignedInInv, NEW q \in Requests \ Profile, req[q].st \in Sent, ~late[req[q].tab]
               PROVE  req[q].ws = UserOf[login[req[q].tok]]
    BY DEF HeaderMatchesToken
  <2>1. req[q].tab \in Tabs
    BY DEF SignedInInv, ShapeInv, WaitInv, RequestsAreOfTabs, Sent
  <2>2. OneUserOf(req[q].tab) /\ q \in Of(req[q].tab)
    BY <2>1 DEF SignedInInv, OneUserInv, Of
  <2> QED BY <2>2 DEF OneUserOf, Owner
<1>2. SignedInInv => SessionTypeOK
  BY TypesAreTypeOK DEF SignedInInv, ShapeInv, WaitInv
<1> QED BY <1>1, <1>2, SessionsCorrect, PTL DEF SessionInv

\* A sign-out with nothing under way is final: until somebody logs in, the tab holds no token
\* and no workspace (useLogout, clearSessionAndRedirect).
THEOREM SignOutsAreFinal == SessionSpec => []SignOutIsFinal
<1>1. SignedInInv => SignOutIsFinal
  BY DEF SignedInInv, SignedOutInv, SignOutIsFinal
<1> QED BY <1>1, SessionsCorrect, PTL

\* A token reaches the server twice only after a tab was copied, a logout overtook a refresh
\* or a page was left during a call: however many requests of however many tabs are refused
\* side by side, they alone never end a user's sessions (refreshAccessToken, _handle_reuse).
THEOREM ReuseHasItsCause == SessionSpec => []ReuseHasCause
<1>1. SignedInInv => ReuseHasCause
  BY DEF SignedInInv, UndisturbedInv, Undisturbed, ReuseHasCause
<1> QED BY <1>1, SessionsCorrect, PTL

==============================================================================
