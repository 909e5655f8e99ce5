--------------------------- MODULE BrowserSession ---------------------------
(***************************************************************************)
(* Browser tabs that are signed in (services/api-client.ts, session.ts,        *)
(* auth/hooks/useAuth.ts, lib/workspace.ts) on top of the refresh tokens of    *)
(* RefreshTokens.  A tab keeps an access token, a refresh token and the active *)
(* workspace in its sessionStorage.  A request that is refused with 401 waits  *)
(* for one refresh shared by the tab and is sent once more.                   *)
(*                                                                         *)
(* An access token goes by the number of the refresh token it came with; a     *)
(* user has one workspace, which goes by the user's name.  The script of a     *)
(* page survives a logout (router.replace) but not a reload nor the redirect   *)
(* of a failed refresh (location.assign).                                    *)
(***************************************************************************)
EXTENDS RefreshTokens

CONSTANTS
    Tabs, Requests, Profile, Null,
    Entry,      \* bound: the tabs in which users log in; others are copies
    MaxCauses   \* bound: disturbances in one behaviour, each of its own kind

ASSUME SessionAssumption ==
    /\ Tabs \cap Requests = {} /\ Callers = Tabs \cup Requests
    /\ Null \notin Tabs \cup Requests \cup Users
    /\ Entry \subseteq Tabs
    /\ Profile \subseteq Requests       \* GET /auth/me; the others are workspace-scoped

VARIABLES
    store,      \* sessionStorage: the tokens and the active workspace
    inFlight,   \* inFlightRefresh: the request whose refresh the tab waits for, or Null
    req,        \* requests: state, tab, access token and workspace header as last sent
    leaving,    \* location.assign("/login") was called; the page is still running
    expired,    \* access tokens past their lifetime
    signedOut,  \* since the last sign-out nobody has logged in here
    late,       \* something of the tab was still under way at that sign-out
    abandoned,  \* callers whose page is gone: nobody reads the answer
    causes      \* what happened that explains a token presented twice

tabVars == <<store, inFlight, req, leaving, expired, abandoned, signedOut, late,
             causes>>
sessionVars == <<row, login, call, reuse, store, inFlight, req, leaving, expired,
                 abandoned, signedOut, late, causes>>

Empty == [access |-> NoToken, refresh |-> NoToken, ws |-> Null]
Idle == [st |-> "idle", tab |-> Null, tok |-> NoToken, ws |-> Null]
Sent == {"sent", "resent"}
Answered == {"ok", "failed"}

\* The type of the state; a tab that waits for a refresh has it under way, and a request
\* waits only while its tab does (refreshAccessToken: the promise and its finally).
SessionTypeOK ==
    /\ TokenTypeOK
    /\ store \in [Tabs -> [access : Tokens \cup {NoToken}, refresh : Tokens \cup {NoToken},
                           ws : Users \cup {Null}]]
    /\ inFlight \in [Tabs -> Requests \cup {Null}]
    /\ req \in [Requests -> [st : {"idle", "sent", "waiting", "resent"},
                             tab : Tabs \cup {Null}, tok : Tokens \cup {NoToken},
                             ws : Users \cup {Null}]]
    /\ leaving \in [Tabs -> BOOLEAN] /\ signedOut \in [Tabs -> BOOLEAN]
    /\ late \in [Tabs -> BOOLEAN] /\ expired \in SUBSET Tokens
    /\ abandoned \in SUBSET Callers
    /\ causes \subseteq {"copied tab", "logout beside a refresh", "reload during a call"}
    /\ \A t \in Tabs : inFlight[t] # Null =>
        req[inFlight[t]].st = "waiting" /\ req[inFlight[t]].tab = t
    /\ \A q \in Requests : req[q].st = "waiting" => inFlight[req[q].tab] # Null

SessionInit ==
    /\ TokenInit
    /\ store = [t \in Tabs |-> Empty]
    /\ inFlight = [t \in Tabs |-> Null]
    /\ req = [q \in Requests |-> Idle]
    /\ leaving = [t \in Tabs |-> FALSE]
    /\ expired = {} /\ abandoned = {}
    /\ signedOut = [t \in Tabs |-> TRUE]
    /\ late = [t \in Tabs |-> FALSE]
    /\ causes = {}

Disturbed(cause, b) ==
    /\ causes' = IF b THEN causes \cup {cause} ELSE causes
    /\ b => cause \notin causes /\ Cardinality(causes) < MaxCauses

Of(t) == {q \in Requests : req[q].tab = t}

-----------------------------------------------------------------------------
(* Signing in and out *)

\* POST /auth/login and its answer; the profile is fetched by the next page (AuthGuard)
LogIn(t) ==
    /\ t \in Entry /\ signedOut[t] /\ ~leaving[t]
    /\ \E l \in Logins, k \in Tokens :
        /\ NewLogin(l, k)
        /\ store' = [store EXCEPT ![t].access = k, ![t].refresh = k]
    /\ signedOut' = [signedOut EXCEPT ![t] = FALSE]
    /\ UNCHANGED <<call, reuse, inFlight, req, leaving, expired, abandoned, late, causes>>

\* The workspace is left behind
ClearedTokens(s) == [s EXCEPT !.access = NoToken, !.refresh = NoToken]

\* session.clear()
Cleared(s) == Empty

SignOut(t) ==
    /\ store' = [store EXCEPT ![t] = Cleared(store[t])]
    /\ signedOut' = [signedOut EXCEPT ![t] = TRUE]
    /\ late' = [late EXCEPT ![t] = inFlight'[t] # Null \/ \E q \in Requests : req'[q].tab = t]

LogOutClicked(t) ==
    /\ ~signedOut[t] /\ ~leaving[t] /\ call[t].st = "none"
    /\ UNCHANGED <<row, login, reuse, inFlight, req, leaving, expired, abandoned>>
    /\ \/ store[t].refresh = NoToken /\ SignOut(t) /\ UNCHANGED <<call, causes>>
       \/ /\ store[t].refresh # NoToken
          /\ Submit(t, "logout", store[t].refresh)
          /\ Disturbed("logout beside a refresh", inFlight[t] # Null)
          /\ UNCHANGED <<store, signedOut, late>>

\* .catch(() => undefined).finally(finish)
LogOutSettles(t) ==
    /\ call[t].st \in Answered /\ t \notin abandoned
    /\ call' = [call EXCEPT ![t] = NoCall]
    /\ UNCHANGED <<row, login, reuse, inFlight, req, leaving, expired, abandoned, causes>>
    /\ SignOut(t)

-----------------------------------------------------------------------------
(* Requests: the two interceptors of apiClient *)

\* applyWorkspaceHeader: a scoped request without a workspace is rejected before it is sent
MayCarry(q, s) == q \in Profile \/ s.ws # Null
Outgoing(q, t, s, st) ==
    IF MayCarry(q, s)
    THEN [st |-> st, tab |-> t, tok |-> s.access, ws |-> IF q \in Profile THEN Null ELSE s.ws]
    ELSE Idle

Send(q, t) ==
    /\ req[q].st = "idle" /\ ~leaving[t]
    /\ store[t].access # NoToken /\ MayCarry(q, store[t])
    /\ req' = [req EXCEPT ![q] = Outgoing(q, t, store[t], "sent")]
    /\ UNCHANGED <<row, login, call, reuse, store, inFlight, leaving, expired, abandoned,
                   signedOut, late, causes>>

\* Answered 2xx; the profile's answer also sets the workspace (applyDefaultWorkspaceFromUser)
Accepted(q) ==
    /\ req[q].st \in Sent /\ req[q].tok \notin expired
    /\ req' = [req EXCEPT ![q] = Idle]
    /\ store' = IF q \in Profile THEN [store EXCEPT ![req[q].tab].ws = UserOf[login[req[q].tok]]]
                ELSE store
    /\ UNCHANGED <<row, login, call, reuse, inFlight, leaving, expired, abandoned, signedOut,
                   late, causes>>

\* No answer in time, or an error that is not 401
Fails(q) ==
    /\ req[q].st \in Sent
    /\ req' = [req EXCEPT ![q] = Idle]
    /\ UNCHANGED <<row, login, call, reuse, store, inFlight, leaving, expired, abandoned,
                   signedOut, late, causes>>

Hopeless(q) == req[q].st = "resent" \/ store[req[q].tab].refresh = NoToken

\* clearSessionAndRedirect
ForcedOut(q) ==
    LET t == req[q].tab IN
    /\ req[q].st \in Sent /\ req[q].tok \in expired /\ Hopeless(q)
    /\ req' = [req EXCEPT ![q] = Idle]
    /\ leaving' = [leaving EXCEPT ![t] = TRUE]
    /\ UNCHANGED <<row, login, call, reuse, inFlight, expired, abandoned, causes>>
    /\ SignOut(t)

\* Every refused request refreshes for itself
MustRefreshAlways(t) == TRUE

MustRefresh(t) == inFlight[t] = Null

WaitForRefresh(q) ==
    LET t == req[q].tab IN
    /\ req[q].st \in Sent /\ req[q].tok \in expired /\ ~Hopeless(q)
    /\ req' = [req EXCEPT ![q] = [Idle EXCEPT !.st = "waiting", !.tab = t]]
    /\ IF MustRefresh(t)
       THEN /\ call[q].st = "none" /\ Submit(q, "refresh", store[t].refresh)
            /\ inFlight' = [inFlight EXCEPT ![t] = q]
            /\ Disturbed("logout beside a refresh", call[t].st # "none")
       ELSE UNCHANGED <<call, inFlight, causes>>
    /\ UNCHANGED <<row, login, reuse, store, leaving, expired, abandoned, signedOut, late>>

\* Only the request that started the refresh goes on
WaitersFirst(t) == {inFlight[t]}

Waiters(t) == {q \in Of(t) : req[q].st = "waiting"}

\* finally { inFlightRefresh = null }
ForgetRefresh(t) == inFlight' = [inFlight EXCEPT ![t] = Null]

\* performRefresh and the finally of refreshAccessToken; every waiter is sent once more,
\* with what the session holds now
Refreshed(t) ==
    LET q == inFlight[t]
        s == [store[t] EXCEPT !.access = call[q].new, !.refresh = call[q].new]
    IN
    /\ q # Null /\ call[q].st = "ok"
    /\ store' = [store EXCEPT ![t] = s]
    /\ req' = [p \in Requests |-> IF p \in Waiters(t) THEN Outgoing(p, t, s, "resent") ELSE req[p]]
    /\ ForgetRefresh(t)
    /\ call' = [call EXCEPT ![q] = NoCall]
    /\ UNCHANGED <<row, login, reuse, leaving, expired, abandoned, signedOut, late, causes>>

\* Refused, or no answer: also one that was sent and lost
RefreshFails(t) ==
    LET q == inFlight[t] IN
    /\ q # Null /\ call[q].st \in Answered
    /\ req' = [p \in Requests |-> IF p \in Waiters(t) THEN Idle ELSE req[p]]
    /\ ForgetRefresh(t)
    /\ call' = [call EXCEPT ![q] = NoCall]
    /\ leaving' = [leaving EXCEPT ![t] = TRUE]
    /\ UNCHANGED <<row, login, reuse, expired, abandoned, causes>>
    /\ SignOut(t)

-----------------------------------------------------------------------------
(* The browser *)

\* The page is loaded again, by its user or by the redirect: its script starts anew
Reload(t) ==
    /\ leaving[t] \/ Of(t) # {} \/ call[t].st # "none"
    /\ req' = [q \in Requests |-> IF q \in Of(t) THEN Idle ELSE req[q]]
    /\ inFlight' = [inFlight EXCEPT ![t] = Null]
    /\ leaving' = [leaving EXCEPT ![t] = FALSE]
    /\ abandoned' = abandoned \cup {c \in {t, inFlight[t]} \ {Null} : call[c].st # "none"}
    /\ Disturbed("reload during a call", abandoned' # abandoned)
    /\ UNCHANGED <<row, login, call, reuse, store, expired, signedOut, late>>

\* The answer of a call whose page is gone
Discard(c) ==
    /\ c \in abandoned /\ call[c].st \in Answered
    /\ call' = [call EXCEPT ![c] = NoCall]
    /\ abandoned' = abandoned \ {c}
    /\ UNCHANGED <<row, login, reuse, store, inFlight, req, leaving, expired, signedOut, late,
                   causes>>

\* A duplicated tab starts with a copy of the sessionStorage
CopyTab(t, u) ==
    /\ store[t].refresh # NoToken /\ store[u] = Empty
    /\ ~leaving[u] /\ inFlight[u] = Null /\ Of(u) = {} /\ call[u].st = "none"
    /\ store' = [store EXCEPT ![u] = store[t]]
    /\ signedOut' = [signedOut EXCEPT ![u] = signedOut[t]]
    /\ late' = [late EXCEPT ![u] = late[t]]
    /\ Disturbed("copied tab", TRUE)
    /\ UNCHANGED <<row, login, call, reuse, inFlight, req, leaving, expired, abandoned>>

Expire(k) ==
    /\ k \in ({store[t].access : t \in Tabs} \cup {req[q].tok : q \in Requests})
             \ (expired \cup {NoToken})
    /\ expired' = expired \cup {k}
    /\ UNCHANGED <<row, login, call, reuse, store, inFlight, req, leaving, abandoned, signedOut,
                   late, causes>>

-----------------------------------------------------------------------------
Answer(q) == Accepted(q) \/ Fails(q) \/ ForcedOut(q) \/ WaitForRefresh(q)

SessionNext ==
    \/ \E c \in Callers : Discard(c) \/ (ServerStep(c) /\ UNCHANGED tabVars)
    \/ \E t \in Tabs :
        \/ LogIn(t) \/ LogOutClicked(t) \/ LogOutSettles(t)
        \/ Refreshed(t) \/ RefreshFails(t) \/ Reload(t)
        \/ \E u \in Tabs \ {t} : CopyTab(t, u)
        \/ \E q \in Requests : Send(q, t)
    \/ \E q \in Requests : Answer(q)
    \/ \E k \in Tokens : Expire(k)

SessionSpec == SessionInit /\ [][SessionNext]_sessionVars

\* The server answers or the 30 s timeout of apiClient does; promises are run; a redirect
\* loads its page.  Nobody need log in, log out or send anything.
FairSessionSpec ==
    /\ SessionSpec
    /\ \A c \in Callers :
        WF_sessionVars((Serve(c) \/ Refuse(c)) /\ UNCHANGED tabVars) /\ WF_sessionVars(Discard(c))
    /\ \A t \in Tabs : WF_sessionVars(Refreshed(t) \/ RefreshFails(t))
    /\ \A q \in Requests : WF_sessionVars(Answer(q))

-----------------------------------------------------------------------------
(* Properties *)

\* A token reaches the server twice, and all sessions of the user end, only after a tab was
\* copied, a logout overtook a refresh, or a page was left during a call: never by
\* requests of one page refreshing side by side (refreshAccessToken, _handle_reuse).
ReuseHasCause == reuse => causes # {}

\* After a sign-out with nothing under way the tab holds no token and no workspace until
\* somebody logs in (useLogout, clearSessionAndRedirect).
SignOutIsFinal == \A t \in Tabs : signedOut[t] /\ ~late[t] => store[t] = Empty

\* A request's workspace header belongs to the user its access token belongs to, also when
\* it is sent again after a refresh, as long as nothing outlived an earlier sign-out
\* (applyWorkspaceHeader, applyDefaultWorkspaceFromUser).
HeaderMatchesToken ==
    \A q \in Requests \ Profile : req[q].st \in Sent /\ ~late[req[q].tab]
        => req[q].ws = UserOf[login[req[q].tok]]

\* Every request is settled: a refused one is sent again or its session ends, whoever
\* started the refresh it waits for.
RequestsSettle == \A q \in Requests : req[q].st # "idle" ~> req[q].st = "idle"

\* In every state: the types, one refresh that all waiters of a tab share, and requests that
\* carry the workspace of their own user.
SessionInv == SessionTypeOK /\ HeaderMatchesToken
=============================================================================
