----------------------------- MODULE QueueBoard -----------------------------
(***************************************************************************)
(* The publishing board of the frontend (features/queue: QueueView, useQueue,  *)
(* its dialogs): one browser page that shows a list of queue items, fetches    *)
(* their attempt summaries, and runs its user's operations as asynchronous     *)
(* loops of requests.  Between two steps of a loop the user clicks, the list   *)
(* is loaded again, and others change the rows.                              *)
(*                                                                         *)
(* The server is reduced to the row a request leaves and the answer it gives   *)
(* (PublishQueue has the rest).  Items are numbers: the list is in their order. *)
(***************************************************************************)
EXTENDS Naturals, FiniteSets, FiniteSetsExt

CONSTANTS
    Items, Jobs, Nobody,
    FirstRows,      \* the rows a behaviour starts with
    Filters,        \* the values of the status filter in use; All is one of them
    PageSize,
    Concurrency,    \* ENRICHMENT_CONCURRENCY
    Budgets         \* bound: operations started, filters or pages chosen, summaries asked
                    \* for and changes made by others, in one behaviour

Statuses == {"draft", "queued", "scheduled", "published", "failed"}
All == "all"

Rows == [st : Statuses \cup {"gone"}, chan : BOOLEAN, later : BOOLEAN,
         last : {"none", "started", "ok", "failed"}, ver : Nat,
         silent : BOOLEAN]  \* history: its last attempt failed, with no new version since

ASSUME BoardAssumption ==
    /\ Items \cup Jobs \subseteq Nat /\ IsFiniteSet(Items \cup Jobs) /\ Nobody \notin Jobs
    /\ All \in Filters /\ Filters \subseteq Statuses \cup {All}
    /\ PageSize \in Nat \ {0} /\ Concurrency \in Nat \ {0}
    /\ \A r \in FirstRows :
        r \in [Items -> Rows] /\ \A i \in Items : r[i].ver = 0 <=> r[i].st = "gone"

VARIABLES
    row,        \* the server: status, channel, schedule and last attempt of an item
    list,       \* queue.data: the rows as last loaded
    summary,    \* summariesById, with the version each was read at
    targets,    \* items whose summary is still to be asked for
    asked,      \* GET /queues/{id} under way: item, generation is current, what was read
    job,        \* the operations under way
    latest,     \* the job whose update, or delete, the mutation's isPending is about
    publishing, \* publishingIds
    failures,   \* the client's failures
    told,       \* history: the items whose last publish was answered with an error
    selected,   \* selectedQueueItemIds
    dialog,     \* the items of the scheduling dialog; {}: closed
    doomed,     \* deleteTargets
    filter, page,
    shrunk,     \* history: the list got shorter since the page was chosen
    retried,    \* history: the items retried so far
    crossed,    \* history: an item was retried while a loop changed statuses
    budget

enrichment == <<summary, targets, asked>>
retries == <<retried, crossed>>
view == <<filter, page, shrunk, retries>>
ops == <<job, latest, publishing, failures, told>>
dialogs == <<dialog, doomed>>
boardVars == <<row, list, summary, targets, asked, job, latest, publishing, failures, told, selected,
               dialog, doomed, filter, page, shrunk, retried, crossed, budget>>

Gone == [st |-> "gone", chan |-> FALSE, later |-> FALSE, last |-> "none", ver |-> 0,
         silent |-> FALSE]
Unknown == [last |-> "unknown", ver |-> 0]
Loop(kind, step, S, to) ==
    [kind |-> kind, step |-> step, ids |-> S, todo |-> S, to |-> to, call |-> "none",
     chan |-> FALSE]
NoJob == Loop("none", "none", {}, "none")
Reloading == Loop("none", "reload", {}, "none")
Steps == {"update", "publish", "delete", "reload"}
Calls == {"none", "sent", "claimed", "failing", "ok", "error", "conflict"}

Spend(on) == budget[on] > 0 /\ budget' = [budget EXCEPT ![on] = @ - 1]

Listed == {i \in Items : list[i].st # "gone"}

-----------------------------------------------------------------------------
(* What the page shows *)

Matches(i) == filter = All \/ list[i].st = filter
Filtered == {i \in Listed : Matches(i)}
Rank(i) == Cardinality({k \in Filtered : k < i})
Paged == {i \in Filtered : Rank(i) \in page * PageSize .. (page + 1) * PageSize - 1}

\* resolveQueueFailure
Failed(i) == summary[i].last = "failed" \/ i \in failures

Health(i) ==
    IF list[i].st = "published" THEN "published"
    ELSE IF list[i].st = "failed" THEN "error"
    ELSE IF i \in publishing THEN "publishing"
    ELSE IF Failed(i) THEN "error"
    ELSE IF ~list[i].chan THEN "missing_channel"
    ELSE IF list[i].st = "draft" THEN "missing_schedule"
    ELSE "ready"

\* The answers of useMutation: about its latest call only
Pending(step) == latest[step] # Nobody /\ job[latest[step]].step = step
Busy == Pending("update") \/ Pending("delete")
Modal == dialog # {} \/ doomed # {}

-----------------------------------------------------------------------------
(* Loading the list *)

\* Items that are no longer listed
KeptIn(S) == {i \in S : row[i].st # "gone"}

Fingerprint(r) == [i \in Items |-> r[i].ver]

\* Any summary takes the place of the page's own failure
SupersededAlways(got) == got # Unknown

\* One that knows an attempt does
Superseded(got) == got.last \notin {"none", "unknown"}

\* syncFailuresFromBackend, for all rows of a list beside their summaries
Synced(rows, known) == failures \ {i \in Items : rows[i].st # "gone" /\ Superseded(known[i])}

\* The effect on the fingerprint: forget the summaries, start a new generation.  Before that
\* takes effect, the failures are synced with the new list and the old summaries.
StartEnrichment ==
    IF Fingerprint(row) = Fingerprint(list)
    THEN UNCHANGED <<targets, asked, summary, failures>>
    ELSE /\ failures' = Synced(row, summary)
         /\ summary' = [i \in Items |-> Unknown]
         /\ targets' = {i \in Items : row[i].st \notin {"gone", "published"}}
         /\ asked' = {[a EXCEPT !.current = FALSE] : a \in asked}

Shrinks == \E i \in Listed : row[i].st # list[i].st

LoadList ==
    /\ list' = row
    /\ StartEnrichment
    /\ selected' = KeptIn(selected)
    /\ shrunk' = (shrunk \/ Shrinks)

\* Rows equal to those shown leave everything as it is (structural sharing)
Reload ==
    /\ Fingerprint(list) # Fingerprint(row)
    /\ LoadList
    /\ UNCHANGED <<row, job, latest, publishing, told, dialogs, filter, page, retries, budget>>

\* mapWithConcurrency: a worker takes the next item when its last answer is in
AskSummary ==
    /\ Spend("asks")
    /\ Cardinality({a \in asked : a.current}) < Concurrency
    /\ \E i \in targets :
        /\ targets' = targets \ {i}
        /\ asked' = asked \cup {[item |-> i, current |-> TRUE, got |-> Unknown]}
    /\ UNCHANGED <<row, list, summary, ops, selected, dialogs, view>>

ReadSummary ==
    \E a \in asked :
        /\ a.got = Unknown /\ row[a.item].st # "gone"
        /\ asked' = (asked \ {a}) \cup
               {[a EXCEPT !.got = [last |-> row[a.item].last, ver |-> row[a.item].ver]]}
        /\ UNCHANGED <<row, list, summary, targets, ops, selected, dialogs, view, budget>>

\* Stored whatever was loaded since
WantedAlways(a) == TRUE
Wanted(a) == a.current

\* The effect on the items and their summaries follows at once
StoreSummary ==
    \E a \in asked :
        /\ a.got # Unknown
        /\ asked' = asked \ {a}
        /\ summary' = IF Wanted(a) THEN [summary EXCEPT ![a.item] = a.got] ELSE summary
        /\ failures' = IF Wanted(a) THEN Synced(list, summary') ELSE failures
        /\ UNCHANGED <<row, list, targets, job, latest, publishing, told, selected, dialogs, view,
                       budget>>

SummaryFails ==
    \E a \in asked :
        /\ asked' = asked \ {a}
        /\ UNCHANGED <<row, list, summary, targets, ops, selected, dialogs, view, budget>>

-----------------------------------------------------------------------------
(* Clicks that start no request *)

Select(S) ==
    /\ selected' = S
    /\ UNCHANGED <<row, list, enrichment, ops, dialogs, view, budget>>

Toggle(i) ==
    /\ ~Modal /\ i \in Paged
    /\ Select(IF i \in selected THEN selected \ {i} ELSE selected \cup {i})

ToggleAll ==
    /\ ~Modal /\ Paged # {}
    /\ Select(IF Paged \subseteq selected THEN selected \ Paged ELSE selected \cup Paged)

ClearSelection == ~Modal /\ selected # {} /\ Select({})

\* The effect on the filters
PageAfterFilter == 0

SetFilter(f) ==
    /\ Spend("turns") /\ ~Modal /\ f # filter
    /\ filter' = f /\ page' = PageAfterFilter /\ shrunk' = FALSE
    /\ UNCHANGED <<row, list, enrichment, ops, selected, dialogs, retries>>

Turn(p) ==
    /\ Spend("turns") /\ ~Modal /\ page' = p /\ shrunk' = FALSE
    /\ UNCHANGED <<row, list, enrichment, ops, selected, dialogs, filter, retries>>

NextPage == (page + 1) * PageSize < Cardinality(Filtered) /\ Turn(page + 1)
PreviousPage == Paged # {} /\ page > 0 /\ Turn(page - 1)

\* The selection bar is shown, and its buttons are enabled
BarReady == ~Modal /\ selected # {} /\ ~Busy /\ publishing = {}

Show(d, x) ==
    /\ dialog' = d /\ doomed' = x
    /\ UNCHANGED <<row, list, enrichment, ops, selected, view, budget>>

\* The items a dialog can be opened for: those of the bar, or a row's
Offered == {{i} : i \in Paged} \cup (IF BarReady THEN {selected} ELSE {})

OpenSchedule == ~Modal /\ \E S \in Offered : Show(S, doomed)
OpenDelete == ~Modal /\ \E S \in Offered : Show(dialog, S)

MayClose(step) == ~Pending(step)

CloseSchedule == dialog # {} /\ MayClose("update") /\ publishing = {} /\ Show({}, doomed)
CancelDelete == doomed # {} /\ MayClose("delete") /\ Show(dialog, {})

-----------------------------------------------------------------------------
(* Operations *)

Send(j, new) ==
    /\ job' = [job EXCEPT ![j] = [new EXCEPT !.call = "sent"]]
    /\ latest' = IF new.step \in DOMAIN latest THEN [latest EXCEPT ![new.step] = j] ELSE latest

Start(kind, step, S, to) ==
    /\ Spend("ops") /\ \E j \in Jobs : job[j] = NoJob
    /\ Send(Min({j \in Jobs : job[j] = NoJob}), Loop(kind, step, S, to))
    /\ UNCHANGED <<row, list, enrichment, failures, told, selected, dialogs, filter, page, shrunk>>

\* publishItems: without a channel the dialog opens instead
PublishItems(S) ==
    IF \A i \in S : list[i].chan
    THEN Start("publish", "publish", S, "none") /\ publishing' = publishing \cup S /\ UNCHANGED retries
    ELSE Show(S, doomed)

\* The button of a row, and of the drawer, while its item is being published
MayPublishAlways(i) == list[i].st \notin {"failed", "published"}
MayPublish(i) == list[i].st \notin {"failed", "published"} /\ i \notin publishing

PublishRow(i) == ~Modal /\ i \in Paged /\ MayPublish(i) /\ PublishItems({i})

PublishSelected == BarReady /\ PublishItems(selected)

\* nextStatusAfterFailedRetry
Retry(i) ==
    /\ ~Modal /\ i \in Paged /\ list[i].st = "failed" /\ i \notin publishing
    /\ Start("retry", "update", {i}, IF list[i].later THEN "scheduled" ELSE "queued")
    /\ retried' = retried \cup {i}
    /\ crossed' = (crossed \/ \E j \in Jobs : job[j].kind = "status")
    /\ UNCHANGED publishing

\* What the starts of the other loops leave alone
Quiet == UNCHANGED <<publishing, retries>>

ChangeStatus(to) == BarReady /\ Start("status", "update", selected, to) /\ Quiet

DialogReady == dialog # {} /\ ~Pending("update") /\ publishing = {}

SaveSchedule ==
    DialogReady /\ Start("schedule", "update", dialog, "scheduled") /\ Quiet

PublishFromDialog ==
    /\ DialogReady /\ dialog \cap Listed # {} /\ Quiet
    /\ Start("publishNow", "update", dialog \cap Listed, "queued")

ConfirmDelete ==
    /\ doomed # {} /\ ~Pending("delete") /\ Quiet
    /\ Start("delete", "delete", doomed, "none")

-----------------------------------------------------------------------------
(* The server *)

Current(j) == Min(job[j].todo)

Put(i, r) ==
    row' = [row EXCEPT ![i] = [r EXCEPT !.ver = IF r.st = "gone" THEN 0 ELSE row[i].ver + 1,
                                        !.silent = FALSE]]

\* What is written of the last attempt alone leaves updated_at as it is
Mark(i, last) == row' = [row EXCEPT ![i].last = last, ![i].silent = (last = "failed")]

\* The outcome of an attempt is the last one's, if that is started, or an earlier one's
Settled(i, outcome) ==
    IF row[i].last = "started" THEN {"started", outcome} ELSE {row[i].last}

\* How far a request is: the last commit made for it, or its answer
Answer(j, answer) ==
    /\ job' = [job EXCEPT ![j].call = answer, ![j].chan = row'[Current(j)].chan]
    /\ UNCHANGED <<list, enrichment, latest, publishing, failures, told, selected, dialogs, view,
                   budget>>

Sent(j, step) == job[j].step = step /\ job[j].call = "sent"

\* The server refuses, or the answer does not come in time: what the server has still to do
\* is then done without the page
Refused(j) == job[j].call \in {"sent", "claimed", "failing"} /\ UNCHANGED row /\ Answer(j, "error")

Edited(j) ==
    LET i == Current(j) IN
    [row[i] EXCEPT !.st = job[j].to, !.later = (job[j].to = "scheduled"),
                   !.chan = @ \/ job[j].kind \in {"schedule", "publishNow"}]

ServeUpdate(j) ==
    /\ Sent(j, "update") /\ row[Current(j)].st # "gone"
    /\ Put(Current(j), Edited(j))
    /\ \E answer \in {"ok", "error"} : Answer(j, answer)

Reached(j, call) == job[j].step = "publish" /\ job[j].call = call /\ row[Current(j)].st # "gone"

\* An attempt on the same content stands in the way; one that succeeded makes it published
Suppressed(j) ==
    /\ Reached(j, "sent") /\ row[Current(j)].last # "none"
    /\ \/ UNCHANGED row
       \/ Put(Current(j), [row[Current(j)] EXCEPT !.st = "published"])
    /\ Answer(j, "conflict")

Claims(j) == Reached(j, "sent") /\ Mark(Current(j), "started") /\ Answer(j, "claimed")

Succeeds(j) ==
    LET i == Current(j) IN
    /\ Reached(j, "claimed")
    /\ \E last \in Settled(i, "ok") : Put(i, [row[i] EXCEPT !.st = "published", !.last = last])
    /\ \E answer \in {"ok", "error"} : Answer(j, answer)

\* A failed attempt and the item it fails for are two commits
AttemptFails(j) ==
    LET i == Current(j) IN
    /\ Reached(j, "claimed")
    /\ \/ UNCHANGED row
       \/ row[i].last = "started" /\ Mark(i, "failed")
    /\ Answer(j, "failing")

\* Unless the item read at the claim has that status already (Refused).  A conflict, if it was
\* published by then.
ItemFails(j) ==
    /\ Reached(j, "failing") /\ Put(Current(j), [row[Current(j)] EXCEPT !.st = "failed"])
    /\ \E answer \in {"error", "conflict"} : Answer(j, answer)

ServePublish(j) ==
    Suppressed(j) \/ Claims(j) \/ Succeeds(j) \/ AttemptFails(j) \/ ItemFails(j)

ServeDelete(j) ==
    /\ Sent(j, "delete") /\ row[Current(j)].st # "gone"
    /\ Put(Current(j), Gone)
    /\ \E answer \in {"ok", "error"} : Answer(j, answer)

Serve(j) == Refused(j) \/ ServeUpdate(j) \/ ServePublish(j) \/ ServeDelete(j)

\* Other users, the workers, and what the server does for requests given up
Foreign(i) ==
    /\ Spend("foreign") /\ row[i].st # "gone"
    /\ \/ Put(i, Gone)
       \/ \E st \in Statuses \ {"failed"} :
            Put(i, [row[i] EXCEPT !.st = st, !.later = (st = "scheduled")])
       \/ Mark(i, "started")
       \* Celery tries again, or the item is marked in the next commit
       \/ row[i].last = "started" /\ Mark(i, "failed")
       \/ row[i].last # "none" /\ Put(i, [row[i] EXCEPT !.st = "failed"])
       \/ /\ row[i].last # "none"
          /\ \E last \in Settled(i, "ok") :
               Put(i, [row[i] EXCEPT !.st = "published", !.last = last])
    /\ UNCHANGED <<list, enrichment, ops, selected, dialogs, view>>

-----------------------------------------------------------------------------
(* The loops go on *)

Rest(j) == job[j].todo \ {Current(j)}
Finish(j) == job' = [job EXCEPT ![j] = NoJob] /\ UNCHANGED latest
Proceed(j) == Send(j, [job[j] EXCEPT !.todo = Rest(j)])

Stopped(j) ==
    /\ job[j].step \in {"update", "delete"} /\ job[j].call = "error"
    /\ Finish(j)
    /\ UNCHANGED <<row, list, enrichment, publishing, failures, told, selected, dialogs, view,
                   budget>>

NextEdit(j) ==
    /\ job[j].step \in {"update", "delete"} /\ job[j].call = "ok" /\ Rest(j) # {}
    /\ Proceed(j)
    /\ UNCHANGED <<row, list, enrichment, publishing, failures, told, selected, dialogs, view,
                   budget>>

Answered(j, kinds) == job[j].call = "ok" /\ Rest(j) = {} /\ job[j].kind \in kinds

Edits(j) ==
    /\ Answered(j, {"schedule", "status"}) /\ Finish(j)
    /\ selected' = {}
    /\ dialog' = IF job[j].kind = "schedule" THEN {} ELSE dialog
    /\ UNCHANGED <<row, list, enrichment, publishing, failures, told, doomed, view, budget>>

Deletes(j) ==
    /\ Answered(j, {"delete"}) /\ Finish(j)
    /\ selected' = {} /\ doomed' = {}
    /\ UNCHANGED <<row, list, enrichment, publishing, failures, told, dialog, view, budget>>

PublishStep(j, S) ==
    /\ Send(j, [job[j] EXCEPT !.step = "publish", !.ids = S, !.todo = S])
    /\ publishing' = publishing \cup S

\* The second half of publishFromDialog, and of retryFailedItem for an item queued again
PublishEdited(j) ==
    /\ Answered(j, {"publishNow", "retry"}) /\ job[j].step = "update"
    /\ IF job[j].to = "queued" /\ job[j].chan
       THEN PublishStep(j, job[j].ids)
       ELSE Finish(j) /\ UNCHANGED publishing
    /\ dialog' = CASE job[j].kind = "publishNow" -> {}
                    [] job[j].kind = "retry" /\ job[j].to = "queued" /\ ~job[j].chan -> job[j].ids
                    [] OTHER -> dialog
    /\ UNCHANGED <<row, list, enrichment, failures, told, selected, doomed, view, budget>>

\* Only a success ends it
NoLongerIfPublished(i) == IF list[i].st = "published" THEN publishing \ {i} ELSE publishing

\* finally
Without(i) == publishing \ {i}

\* A conflict leaves the failures alone
Published(j) ==
    LET i == Current(j) IN
    /\ job[j].step = "publish" /\ job[j].call \in {"ok", "error", "conflict"}
    /\ publishing' = Without(i)
    /\ failures' = CASE job[j].call = "ok" -> failures \ {i}
                      [] job[j].call = "error" -> failures \cup {i}
                      [] OTHER -> failures
    /\ told' = CASE job[j].call = "ok" -> told \ {i}
                  [] job[j].call = "error" -> told \cup {i}
                  [] OTHER -> told
    /\ IF Rest(j) # {} THEN Proceed(j)
       ELSE job' = [job EXCEPT ![j] = Reloading] /\ UNCHANGED latest
    /\ UNCHANGED <<row, list, enrichment, selected, dialogs, view, budget>>

\* The awaited reload may fail, without a word
Reloaded(j) ==
    /\ job[j].step = "reload" /\ Finish(j)
    /\ \/ list' = row /\ StartEnrichment /\ shrunk' = (shrunk \/ Shrinks)
       \/ UNCHANGED <<list, enrichment, shrunk, failures>>
    /\ selected' = {}
    /\ UNCHANGED <<row, publishing, told, dialogs, filter, page, retries, budget>>

Continue(j) ==
    \/ Stopped(j) \/ NextEdit(j) \/ Edits(j) \/ Deletes(j)
    \/ PublishEdited(j) \/ Published(j) \/ Reloaded(j)

-----------------------------------------------------------------------------
BoardInit ==
    /\ row \in FirstRows
    /\ list = row
    /\ summary = [i \in Items |-> Unknown] /\ targets = Items /\ asked = {}
    /\ job = [j \in Jobs |-> NoJob] /\ latest = [s \in {"update", "delete"} |-> Nobody]
    /\ publishing = {} /\ failures = {} /\ told = {} /\ selected = {}
    /\ dialog = {} /\ doomed = {} /\ filter = All /\ page = 0 /\ shrunk = FALSE
    /\ retried = {} /\ crossed = FALSE
    /\ budget \in Budgets

Click ==
    \/ \E i \in Items : Toggle(i) \/ PublishRow(i) \/ Retry(i)
    \/ ToggleAll \/ ClearSelection \/ NextPage \/ PreviousPage
    \/ \E f \in Filters : SetFilter(f)
    \/ OpenSchedule \/ OpenDelete \/ CloseSchedule \/ CancelDelete
    \/ PublishSelected \/ SaveSchedule \/ PublishFromDialog \/ ConfirmDelete
    \/ \E to \in {"draft", "queued"} : ChangeStatus(to)

BoardNext ==
    \/ Click
    \/ Reload \/ AskSummary \/ ReadSummary \/ StoreSummary \/ SummaryFails
    \/ \E j \in Jobs : Serve(j) \/ Continue(j)
    \/ \E i \in Items : Foreign(i)

BoardSpec == BoardInit /\ [][BoardNext]_boardVars

\* The server, or the timeout of apiClient, answers; promises are run
FairBoardSpec ==
    BoardSpec /\ \A j \in Jobs : WF_boardVars(Serve(j)) /\ WF_boardVars(Continue(j))

-----------------------------------------------------------------------------
(* Properties *)

\* The type of the state; only listed items are selected (the effect on items), only
\* enabled workers ask for summaries.
BoardTypeOK ==
    /\ row \in [Items -> Rows] /\ list \in [Items -> Rows] /\ DOMAIN summary = Items
    /\ \A j \in Jobs : job[j].step \in Steps \cup {"none"} /\ job[j].call \in Calls
    /\ \A j \in Jobs : job[j].todo \subseteq job[j].ids /\ job[j].ids \subseteq Items
    /\ latest \in [{"update", "delete"} -> Jobs \cup {Nobody}]
    /\ publishing \subseteq Items /\ failures \subseteq Items /\ told \subseteq Items
    /\ selected \subseteq Listed /\ targets \subseteq Items
    /\ dialog \subseteq Items /\ doomed \subseteq Items
    /\ filter \in Filters /\ page \in Nat /\ shrunk \in BOOLEAN
    /\ retried \subseteq Items /\ crossed \in BOOLEAN

\* A summary on the page was read after the row next to it, though its request may have
\* been sent for an earlier list (generationRef, useQueueAttemptSummaryEnrichment).
SummariesAreFresh ==
    \A i \in Listed : summary[i] # Unknown => summary[i].ver >= list[i].ver

PublishersOf(i) == {j \in Jobs : job[j].step = "publish" /\ i \in job[j].todo}

\* One page publishes an item twice at the same time only when the item was retried: its
\* marker is set after the edit, and until then it can be retried or published again
\* (retryFailedItem); the first answer takes the marker of both, so that a third can follow.
\* Or when another was retried while a loop changed statuses: the page then takes the end of
\* the retry for the end of the loop (isPending), and a dialog can be closed over its edit.
OnlyRetriesOverlap ==
    \A i \in Items : Cardinality(PublishersOf(i)) > 1 => i \in retried \/ crossed

\* The marker of an item goes when its publish has been answered, or when the first of two
\* has: what the page shows as idle is idle (publishingIds, getQueueHealth).
MarkedUntilAnswered ==
    [][\A i \in publishing \ publishing' :
          PublishersOf(i)' = {} \/ Cardinality(PublishersOf(i)) > 1]_boardVars

\* A failed publish is not forgotten.  With the row as the page shows it and its summary known,
\* an item whose last attempt failed is shown as failed.  The one exception is a failure that
\* left the version of its row alone, after its summary was read: the page does not ask again.
\* Of such a one it still shows what it was itself told, until a summary that knows an attempt
\* takes its place, be it a started or an earlier one (useQueueAttemptSummaryEnrichment,
\* syncFailuresFromBackend, resolveQueueFailure, getQueueHealth, _mark_attempt_failed).
FailuresAreShown ==
    \A i \in Listed :
        (/\ row[i].last = "failed" /\ list[i].ver = row[i].ver
         /\ summary[i] # Unknown /\ PublishersOf(i) = {})
            => \/ Health(i) \in {"error", "published"}
               \/ /\ row[i].silent /\ summary[i].last # "failed"
                  /\ summary[i].last = "none" => i \notin told

\* While a dialog's operation edits or deletes, the dialog stays open over the page; for an
\* edit, unless another loop has taken over the isPending it is closed by (useMutation).
ModalCoversJob ==
    \A j \in Jobs :
        /\ job[j].kind \in {"schedule", "publishNow"} /\ job[j].step = "update" /\ ~crossed
            => dialog # {}
        /\ job[j].kind = "delete" => doomed # {}

\* A page without rows although some match the filters was emptied by the list, not by
\* the filters (the effect that goes back to the first page).
EmptyPageHasCause == Paged = {} /\ Filtered # {} => shrunk

\* An item does not stay marked as being published (finally).
SpinnersStop == \A i \in Items : i \in publishing ~> i \notin publishing

\* A marker lasts until the publish it stands for is answered, and then goes: of two publishes
\* of an item the first answer takes it (the finally of publishItems).
MarkersAreTrue == MarkedUntilAnswered /\ SpinnersStop

\* In every state: the types; two publishes of an item at a time only after a retry; dialogs
\* over their operations; and no page without rows but for a list that got shorter.
BoardInv == BoardTypeOK /\ OnlyRetriesOverlap /\ ModalCoversJob /\ EmptyPageHasCause
=============================================================================
