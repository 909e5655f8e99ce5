----------------------------- MODULE LiveQueue -----------------------------
(***************************************************************************)
(* Browser tabs that show the queue, on top of the event stream of           *)
(* QueueEvents.  A tab keeps a fetched copy of the rows (a TanStack query).   *)
(* It fetches again when an event arrives (debounced), when its stream        *)
(* reconnects, and at intervals while a stream it once had is down; an event   *)
(* itself never changes the copy.                                            *)
(*                                                                         *)
(* The rows are their version: the number of changes committed when the API   *)
(* read them.  A tab that gives up a connection leaves its generator behind   *)
(* until the server notices, so a tab may own one connection and have left     *)
(* another.                                                                *)
(***************************************************************************)
EXTENDS QueueEvents

CONSTANTS Tabs, WorkspaceOf

ASSUME TabAssumption == WorkspaceOf \in [Tabs -> Workspaces]

VARIABLES
    status,     \* of useQueueEventStream; "closed" when the view is not mounted
    conn,       \* the connection the tab holds, or none
    est,        \* establishedConnectionRef
    timer,      \* the debounce timer runs
    fetch,      \* the query's fetch in flight
    answer,     \* the version the API has read for it
    view,       \* the version in the query cache, or none
    failed,     \* the last fetch ended in an error
    absorbed    \* an invalidation was answered with a fetch already in flight

link  == <<status, conn, est>>
query == <<fetch, answer, view, failed, absorbed>>
tabVars  == <<status, conn, est, timer, fetch, answer, view, failed, absorbed>>
liveVars == <<log, pending, subscribed, channel, due, stream, buf, item, closed, sent,
              faults, status, conn, est, timer, fetch, answer, view, failed,
              absorbed>>
serverSide == <<publishing, consumer, connection>>

Versions == 0..MaxEvents

\* The type of the state.  Only a mounted view with a live stream has a connection, no
\* connection is shared, and an unmounted one has neither timer nor history
\* (useQueueEventStream, useQueueRealtimeInvalidation: the cleanups of their effects).
LiveTypeOK ==
    /\ EventTypeOK
    /\ status \in [Tabs -> {"closed", "connecting", "connected", "error"}]
    /\ conn \in [Tabs -> Clients \cup {Null}]
    /\ est \in [Tabs -> BOOLEAN] /\ timer \in [Tabs -> BOOLEAN]
    /\ fetch \in [Tabs -> {"idle", "asked", "answered"}]
    /\ answer \in [Tabs -> Versions]
    /\ view \in [Tabs -> Versions \cup {Null}]
    /\ failed \in [Tabs -> BOOLEAN] /\ absorbed \in [Tabs -> BOOLEAN]
    /\ \A t \in Tabs :
        /\ status[t] = "connected" => conn[t] # Null
        /\ conn[t] # Null => status[t] \in {"connecting", "connected"}
        /\ status[t] = "closed" => ~est[t] /\ ~timer[t]
        /\ \A u \in Tabs \ {t} : conn[t] = Null \/ conn[t] # conn[u]

LiveInit ==
    /\ EventInit
    /\ status = [t \in Tabs |-> "closed"]
    /\ conn = [t \in Tabs |-> Null]
    /\ est = [t \in Tabs |-> FALSE] /\ timer = [t \in Tabs |-> FALSE]
    /\ fetch = [t \in Tabs |-> "idle"] /\ answer = [t \in Tabs |-> 0]
    /\ view = [t \in Tabs |-> Null]
    /\ failed = [t \in Tabs |-> FALSE] /\ absorbed = [t \in Tabs |-> FALSE]

Owned(c) == \E t \in Tabs : conn[t] = c

Reconnecting(t) == status[t] = "connecting" /\ est[t]

-----------------------------------------------------------------------------
(* The query *)

StartFetch(t) ==
    /\ fetch' = [fetch EXCEPT ![t] = "asked"]
    /\ answer' = [answer EXCEPT ![t] = 0]
    /\ absorbed' = [absorbed EXCEPT ![t] = FALSE]
    /\ UNCHANGED <<view, failed>>

JoinFetch(t) ==
    /\ absorbed' = [absorbed EXCEPT ![t] = TRUE]
    /\ UNCHANGED <<fetch, answer, view, failed>>

\* invalidateQueries: a fetch in flight is cancelled and started again, except that the
\* first load, which has nothing to fall back on, is joined
Invalidate(t) ==
    IF fetch[t] = "idle" \/ view[t] # Null THEN StartFetch(t) ELSE JoinFetch(t)

\* The API reads the rows for GET /queues
ReadRows(t) ==
    /\ fetch[t] = "asked"
    /\ fetch' = [fetch EXCEPT ![t] = "answered"]
    /\ answer' = [answer EXCEPT ![t] = Len(log)]
    /\ UNCHANGED <<serverSide, faults, link, timer, view, failed, absorbed>>

ShowRows(t) ==
    /\ fetch[t] = "answered"
    /\ fetch' = [fetch EXCEPT ![t] = "idle"]
    /\ view' = [view EXCEPT ![t] = answer[t]]
    /\ answer' = [answer EXCEPT ![t] = 0]
    /\ failed' = [failed EXCEPT ![t] = FALSE]
    /\ UNCHANGED <<serverSide, faults, link, timer, absorbed>>

\* The request and its one retry fail
FetchFails(t) ==
    /\ fetch[t] # "idle" /\ faults < MaxFaults
    /\ faults' = faults + 1
    /\ fetch' = [fetch EXCEPT ![t] = "idle"]
    /\ answer' = [answer EXCEPT ![t] = 0]
    /\ failed' = [failed EXCEPT ![t] = TRUE]
    /\ UNCHANGED <<serverSide, link, timer, view, absorbed>>

\* refetchInterval while the stream is being reconnected; a fetch in flight is joined
Poll(t) ==
    /\ Reconnecting(t) /\ fetch[t] = "idle"
    /\ StartFetch(t)
    /\ UNCHANGED <<serverSide, faults, link, timer>>

\* The user's own mutation has succeeded (onSuccess of the mutation hooks)
OwnMutation(t) ==
    /\ status[t] # "closed"
    /\ Invalidate(t)
    /\ UNCHANGED <<serverSide, faults, link, timer>>

-----------------------------------------------------------------------------
(* The view and its stream *)

\* The view is mounted: the query loads unless what the cache holds is fresh, and the
\* stream is opened
Mount(t) ==
    /\ status[t] = "closed"
    /\ status' = [status EXCEPT ![t] = "connecting"]
    /\ \/ fetch[t] = "idle" /\ StartFetch(t)
       \/ (fetch[t] # "idle" \/ (view[t] # Null /\ ~failed[t])) /\ UNCHANGED query
    /\ UNCHANGED <<serverSide, faults, conn, est, timer>>

\* Unmounting aborts the stream and disposes the debounced invalidator; the query and its
\* fetch stay
Unmount(t) ==
    /\ status[t] # "closed"
    /\ status' = [status EXCEPT ![t] = "closed"]
    /\ conn' = [conn EXCEPT ![t] = Null]
    /\ est' = [est EXCEPT ![t] = FALSE]
    /\ timer' = [timer EXCEPT ![t] = FALSE]
    /\ UNCHANGED <<serverSide, faults, query>>

\* A request of createQueueEventStream is answered 200 and the generator subscribes
Connect(t) ==
    /\ status[t] = "connecting" /\ conn[t] = Null
    /\ \E c \in Clients :
        /\ ~Owned(c) /\ Home[c] = WorkspaceOf[t]
        /\ Open(c)
        /\ conn' = [conn EXCEPT ![t] = c]
    /\ UNCHANGED <<status, est, timer, query>>

\* ... or 401 or 403, which is final (useQueueEventStream reports "error")
Refused(t) ==
    /\ status[t] = "connecting" /\ conn[t] = Null
    /\ status' = [status EXCEPT ![t] = "error"]
    /\ UNCHANGED <<serverSide, faults, conn, est, timer, query>>

\* Mutant of OnOpen: nothing is refreshed after a reconnect
OnOpenQuiet(t) ==
    /\ status[t] = "connecting" /\ conn[t] # Null
    /\ status' = [status EXCEPT ![t] = "connected"]
    /\ est' = [est EXCEPT ![t] = TRUE]
    /\ UNCHANGED <<serverSide, faults, conn, timer, query>>

\* The headers have arrived.  The first time the hook only notes it; after a reconnect it
\* refreshes.
OnOpen(t) ==
    /\ status[t] = "connecting" /\ conn[t] # Null
    /\ status' = [status EXCEPT ![t] = "connected"]
    /\ est' = [est EXCEPT ![t] = TRUE]
    /\ IF est[t] THEN Invalidate(t) ELSE UNCHANGED query
    /\ UNCHANGED <<serverSide, faults, conn, timer>>

\* The stream ends, or the network loses it.  "disconnected" and the "connecting" of the
\* next attempt are set in one turn, so no render sees the former.
StreamLost(t) ==
    /\ conn[t] # Null
    /\ \/ stream[conn[t]] = "off" /\ UNCHANGED faults
       \/ faults < MaxFaults /\ faults' = faults + 1
    /\ conn' = [conn EXCEPT ![t] = Null]
    /\ status' = [status EXCEPT ![t] = "connecting"]
    /\ UNCHANGED <<serverSide, est, timer, query>>

\* The invalidator's handle(event) of the tab that listens to c: (re)start the timer
HandleEvent(c) == timer' = [t \in Tabs |-> timer[t] \/ conn[t] = c]

\* A frame arrives; a tab that left does not see it
Deliver(c) ==
    /\ WriteFrame(c)
    /\ \A t \in Tabs : conn[t] = c => status[t] = "connected"
    /\ HandleEvent(c)
    /\ UNCHANGED <<link, query>>

\* Mutant of Flush: cancelRefetch FALSE, so a fetch in flight is good enough
FlushJoins(t) ==
    /\ timer[t]
    /\ timer' = [timer EXCEPT ![t] = FALSE]
    /\ IF fetch[t] = "idle" THEN StartFetch(t) ELSE UNCHANGED query
    /\ UNCHANGED <<serverSide, faults, link>>

\* The debounce timer fires
Flush(t) ==
    /\ timer[t]
    /\ timer' = [timer EXCEPT ![t] = FALSE]
    /\ Invalidate(t)
    /\ UNCHANGED <<serverSide, faults, link>>

-----------------------------------------------------------------------------

\* The server's own steps; it notices only a client that has left
Serve(c) ==
    \/ TakeFrame(c) /\ UNCHANGED tabVars
    \/ EndStream(c) /\ UNCHANGED tabVars
    \/ ~Owned(c) /\ NoticeDisconnect(c) /\ UNCHANGED tabVars
    \/ Deliver(c)

Load(t) == ReadRows(t) \/ ShowRows(t) \/ Poll(t)

React(t) ==
    \/ OnOpen(t) \/ Flush(t)
    \/ StreamLost(t) /\ UNCHANGED faults

LiveNext ==
    \/ \E p \in Publishers : Publish(p) /\ UNCHANGED tabVars
    \/ (Consume \/ PollTimesOut \/ ConsumerFails \/ ApiRestarts) /\ UNCHANGED tabVars
    \/ \E c \in Clients : Serve(c)
    \/ \E t \in Tabs :
        \/ Load(t) \/ FetchFails(t) \/ OwnMutation(t)
        \/ Mount(t) \/ Unmount(t) \/ Connect(t) \/ Refused(t)
        \/ OnOpen(t) \/ StreamLost(t) \/ Flush(t)

LiveSpec == LiveInit /\ [][LiveNext]_liveVars

\* Requests have timeouts, timers fire, an ended response is noticed, and the API answers.
\* Nothing obliges the API to accept a stream: reconnecting may fail for ever.  A user does
\* not cancel every load by one more change (SF).
FairLiveSpec ==
    /\ LiveSpec
    /\ WF_liveVars(Consume /\ UNCHANGED tabVars)
    /\ \A p \in Publishers : WF_liveVars(PublishEvent(p) /\ UNCHANGED tabVars)
    /\ \A c \in Clients : WF_liveVars(Serve(c))
    /\ \A t \in Tabs :
        WF_liveVars(Load(t)) /\ SF_liveVars(ShowRows(t)) /\ WF_liveVars(React(t))

-----------------------------------------------------------------------------
(* Properties *)

Shows(t, n) == view[t] # Null /\ view[t] >= n

\* What the tab tells its user, or what no later event repairs: the view is closed, the
\* stream was refused for good, the last load failed, or an invalidation met the first load
Excused(t) == status[t] \in {"closed", "error"} \/ failed[t] \/ absorbed[t]

\* Nothing is under way between the server and the tab's view
Quiet(t) ==
    /\ status[t] = "connected" /\ fetch[t] = "idle" /\ ~timer[t]
    /\ stream[conn[t]] = "waiting" /\ ~closed[conn[t]] /\ buf[conn[t]] = <<>>

\* When nothing is under way, the view is as new as every change whose event was handed out
\* since the stream was opened (useQueueRealtimeInvalidation: invalidate, never patch).
QuietViewIsCurrent ==
    \A t \in Tabs : Quiet(t) /\ ~Excused(t) /\ view[t] # Null
        => \A n \in Range(due[conn[t]]) : Shows(t, n)

\* An event handed to a tab's connection is followed by a view that has the change, also if
\* the connection is closed for its slowness or lost before the event is delivered.
RefreshFollowsEvent ==
    \A t \in Tabs, n \in Events :
        (est[t] /\ view[t] # Null /\ conn[t] # Null /\ n \in Range(due[conn[t]]))
            ~> (Shows(t, n) \/ Excused(t))

\* While a tab reconnects it catches up with everything committed, whether or not the
\* server ever accepts its stream again (reconnect recovery and fallback polling).
ReconnectCatchesUp ==
    \A t \in Tabs, n \in Events :
        (Reconnecting(t) /\ view[t] # Null /\ Len(log) >= n) ~> (Shows(t, n) \/ Excused(t))

\* A view comes to show what was handed out for its tab, and what is committed while the tab
\* reconnects.
ViewsCatchUp == RefreshFollowsEvent /\ ReconnectCatchesUp

\* In every state: the types, who owns which connection and timer, and views that miss nothing.
LiveInv == LiveTypeOK /\ QuietViewIsCurrent
=============================================================================
