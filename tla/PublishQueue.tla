---------------------------- MODULE PublishQueue ----------------------------
(***************************************************************************)
(* The publishing core: queue_items and queue_publish_attempts in           *)
(* PostgreSQL, the publisher sessions that claim, send and finalise         *)
(* (TelegramPublishingService), and the API requests that create, edit and  *)
(* delete the same rows while they do (QueueService).                       *)
(*                                                                         *)
(* Every publisher session is one SQLAlchemy session.  It runs with         *)
(* expire_on_commit=False and autoflush=False, and no query of the          *)
(* repository uses populate_existing: a row the session has loaded once is  *)
(* never re-read by a later SELECT.  cache[s] is that identity map.         *)
(***************************************************************************)
EXTENDS Naturals, FiniteSets

CONSTANTS
    Items,          \* queue item ids, numbered in creation order
    Payloads,       \* what content_hash covers: chat, text, image, button
    Unaddressed,    \* the payloads of items with no channel
    Batches,        \* worker slots running process_publish_queue
    Tasks,          \* worker slots running publish_queue_item_task
    Calls,          \* API requests POST /queues/{id}/publish
    Requested,      \* the statuses POST and PATCH requests ask for
    Editors,        \* API requests PATCH /queues/{id}
    Null,           \* SQL NULL, and "no row"
    Window,         \* IDEMPOTENCY_WINDOW, in ticks
    MaxRetries,     \* max_retries of the Celery tasks
    BatchLimit,     \* celery_publish_batch_size
    MaxTime,        \* bound: the clock stops here
    MaxAttempts,    \* bound: no publish is started once so many attempts exist
    MaxEdits,       \* bound: PATCH and DELETE requests
    MaxCrashes      \* bound: process losses

Sessions == Batches \cup Tasks \cup Calls

ASSUME PublishAssumption ==
    /\ Items \subseteq Nat \ {0}
    /\ Unaddressed \subseteq Payloads
    /\ Requested \subseteq {"draft", "queued", "scheduled", "published", "failed"}
    /\ Batches \cap Tasks = {} /\ Batches \cap Calls = {} /\ Tasks \cap Calls = {}
    /\ Window \in Nat \ {0} /\ MaxRetries \in Nat \ {0} /\ BatchLimit \in Nat \ {0}
    /\ MaxTime \in Nat /\ MaxAttempts \in Nat /\ MaxEdits \in Nat /\ MaxCrashes \in Nat
    /\ Null \notin Items /\ Null \notin Nat /\ Null \notin Sessions /\ Null \notin Payloads

VARIABLES
    queue,      \* queue_items: the row of each id, or Null
    created,    \* how many ids have been handed out
    attempts,   \* queue_publish_attempts
    now,        \* datetime.now(UTC)
    lock,       \* holder of SELECT ... FOR UPDATE on each row
    pc,         \* where each publisher session is
    cur,        \* the item it is publishing
    todo,       \* rest of the list _publish_items is iterating over
    phase,      \* which of the two lists of the batch that is
    cache,      \* its identity map: rows as first loaded
    seen,       \* what its guard lookups returned under the lock
    err,        \* class of the exception being handled
    tries,      \* task.request.retries
    edit,       \* the row each PATCH request has loaded
    delivered,  \* posts that reached the Telegram chat
    edits, crashes

rows     == <<queue, created, attempts>>
session  == <<pc, cur, todo, phase, cache, seen, err, tries>>
bounds   == <<edits, crashes>>
vars == <<queue, created, attempts, now, lock, pc, cur, todo, phase, cache, seen, err,
          tries, edit, delivered, edits, crashes>>

-----------------------------------------------------------------------------
(* Types *)

QueueStatus == {"draft", "queued", "scheduled", "published", "failed"}
Publishable == {"queued", "scheduled", "published"}
\* Mutant of Settable: a request may set any status
SettableAny == Requested
\* failed status can only be set by the publisher
Settable    == Requested \ {"failed"}
Times       == 0..MaxTime

QueueItem ==
    [status : QueueStatus, payload : Payloads, at : Nat \cup {Null},
     msg : Nat \cup {Null}]

Attempt ==
    [item : Items, num : Nat, status : {"started", "succeeded", "failed"},
     hash : Payloads, at : Nat, dead : BOOLEAN]

Post == [item : Items, num : Nat, payload : Payloads, at : Nat]

Seen == [block : Attempt \cup {Null}, num : Nat, at : Nat]
NothingSeen == [block |-> Null, num |-> 0, at |-> 0]

\* What a PATCH request has loaded
NoEdit == [item |-> Null, row |-> Null]
Edits  == {NoEdit} \cup [item : Items, row : QueueItem]

\* A row is not NULL
ASSUME RowAssumption == Null \notin QueueItem /\ Null \notin Attempt

PC == {"idle", "list", "next", "lock", "guard", "claimed", "accepted", "failing",
       "deadletter"}
\* "retryable": TelegramPublishError that Celery may retry; "rejected": a 4xx other
\* than 429, also a TelegramPublishError; "refused": Validation-, Forbidden-, ConflictError
Errors == {"none", "retryable", "rejected", "refused"}

TypeOK ==
    /\ queue \in [Items -> QueueItem \cup {Null}]
    /\ created \in Nat
    /\ attempts \subseteq Attempt
    /\ now \in Nat
    /\ lock \in [Items -> Sessions \cup {Null}]
    /\ pc \in [Sessions -> PC]
    /\ cur \in [Sessions -> Items \cup {Null}]
    /\ todo \in [Sessions -> SUBSET Items]
    /\ phase \in [Sessions -> {"scheduled", "queued"}]
    /\ cache \in [Sessions -> [Items -> QueueItem \cup {Null}]]
    /\ seen \in [Sessions -> Seen]
    /\ err \in [Sessions -> Errors]
    /\ tries \in [Sessions -> Nat]
    /\ edit \in [Editors -> Edits]
    /\ delivered \subseteq Post
    /\ edits \in Nat /\ crashes \in Nat

-----------------------------------------------------------------------------
(* Reading the tables *)

Live(i) == queue[i] # Null

AttemptsOf(i) == {a \in attempts : a.item = i}
Numbers(i)    == {a.num : a \in AttemptsOf(i)}

\* latest_attempt(id).attempt_number + 1, or 1
NextNumber(i) ==
    IF Numbers(i) = {} THEN 1
    ELSE (CHOOSE n \in Numbers(i) : \A m \in Numbers(i) : m <= n) + 1

Guarding(a) == a.status \in {"started", "succeeded"}

\* Mutants of ActiveGuards: the lookup filters on succeeded only, on started only; the
\* window is compared one tick early
ActiveGuardsSucceededOnly(i, h, t) ==
    {a \in AttemptsOf(i) : a.hash = h /\ a.status = "succeeded" /\ a.at + Window > t}
ActiveGuardsStartedOnly(i, h, t) ==
    {a \in AttemptsOf(i) : a.hash = h /\ a.status = "started" /\ a.at + Window > t}
ActiveGuardsExpireEarly(i, h, t) ==
    {a \in AttemptsOf(i) : a.hash = h /\ Guarding(a) /\ a.at + Window > t + 1}

\* active_guard_lookup: unexpired started or succeeded attempts for the same hash
ActiveGuards(i, h, t) ==
    {a \in AttemptsOf(i) : a.hash = h /\ Guarding(a) /\ a.at + Window > t}

Newest(as) == IF as = {} THEN Null ELSE CHOOSE a \in as : \A b \in as : b.num <= a.num

\* list_scheduled_due and list_queued_ready, with the key each is ordered by
Eligible(p) ==
    {i \in Items :
        /\ Live(i)
        /\ queue[i].payload \notin Unaddressed
        /\ IF p = "scheduled"
           THEN queue[i].status = "scheduled" /\ queue[i].at # Null /\ queue[i].at <= now
           ELSE queue[i].status = "queued"}

OrderKey(row, i, p) == IF p = "scheduled" THEN row[i].at ELSE i

\* ORDER BY key LIMIT BatchLimit over the eligible rows
FirstPage(p) ==
    {S \in SUBSET Eligible(p) :
        /\ Cardinality(S) <= BatchLimit
        /\ S # Eligible(p) => Cardinality(S) = BatchLimit
        /\ \A i \in S, j \in Eligible(p) \ S :
               OrderKey(queue, i, p) <= OrderKey(queue, j, p)}

\* The row the session works on: the identity map wins over the row just selected
Loaded(s, i) == IF cache[s][i] # Null THEN cache[s][i] ELSE queue[i]
Copy(s) == cache[s][cur[s]]

NoRows == [i \in Items |-> Null]

\* SELECT ... FOR UPDATE gets through
MayLock(s, i) == lock[i] \in {Null, s}

\* A commit or rollback gives up every row lock of the session
Released(s) == [i \in Items |-> IF lock[i] = s THEN Null ELSE lock[i]]

Init ==
    /\ queue = NoRows /\ created = 0 /\ attempts = {} /\ now = 0
    /\ lock = [i \in Items |-> Null]
    /\ pc = [s \in Sessions |-> "idle"]
    /\ cur = [s \in Sessions |-> Null]
    /\ todo = [s \in Sessions |-> {}]
    /\ phase = [s \in Sessions |-> "scheduled"]
    /\ cache = [s \in Sessions |-> NoRows]
    /\ seen = [s \in Sessions |-> NothingSeen]
    /\ err = [s \in Sessions |-> "none"]
    /\ tries = [s \in Sessions |-> 0]
    /\ edit = [e \in Editors |-> NoEdit]
    /\ delivered = {} /\ edits = 0 /\ crashes = 0

-----------------------------------------------------------------------------
(* How a session leaves an item *)

\* Mutant of Close: the connection goes back to the pool with its transaction open
CloseKeepingLocks(s) ==
    /\ pc' = [pc EXCEPT ![s] = "idle"]
    /\ cur' = [cur EXCEPT ![s] = Null]
    /\ todo' = [todo EXCEPT ![s] = {}]
    /\ phase' = [phase EXCEPT ![s] = "scheduled"]
    /\ cache' = [cache EXCEPT ![s] = NoRows]
    /\ seen' = [seen EXCEPT ![s] = NothingSeen]
    /\ err' = [err EXCEPT ![s] = "none"]
    /\ tries' = [tries EXCEPT ![s] = 0]
    /\ UNCHANGED lock

\* The session closes: its rows, its locks and its place in the batch are gone
Close(s) ==
    /\ pc' = [pc EXCEPT ![s] = "idle"]
    /\ cur' = [cur EXCEPT ![s] = Null]
    /\ todo' = [todo EXCEPT ![s] = {}]
    /\ phase' = [phase EXCEPT ![s] = "scheduled"]
    /\ cache' = [cache EXCEPT ![s] = NoRows]
    /\ seen' = [seen EXCEPT ![s] = NothingSeen]
    /\ err' = [err EXCEPT ![s] = "none"]
    /\ tries' = [tries EXCEPT ![s] = 0]
    /\ lock' = Released(s)

\* The batch goes on with its next item, in the same session
NextInBatch(s) ==
    /\ pc' = [pc EXCEPT ![s] = "next"]
    /\ cur' = [cur EXCEPT ![s] = Null]
    /\ cache' = [cache EXCEPT ![s][cur[s]] = Null]
    /\ seen' = [seen EXCEPT ![s] = NothingSeen]
    /\ err' = [err EXCEPT ![s] = "none"]
    /\ UNCHANGED <<todo, phase, tries>>

\* Celery autoretry_for=(TelegramPublishError,): the task runs again in a new session
RunAgain(s) ==
    /\ pc' = [pc EXCEPT ![s] = "lock"]
    /\ cache' = [cache EXCEPT ![s] = NoRows]
    /\ seen' = [seen EXCEPT ![s] = NothingSeen]
    /\ err' = [err EXCEPT ![s] = "none"]
    /\ tries' = [tries EXCEPT ![s] = tries[s] + 1]
    /\ lock' = Released(s)
    /\ UNCHANGED <<cur, todo, phase>>

CeleryRetries(s, e) ==
    s \in Tasks /\ e \in {"retryable", "rejected"} /\ tries[s] < MaxRetries

\* publish_queue_item raises e after a commit (no row lock held any more)
Raise(s, e) ==
    \/ s \in Batches /\ NextInBatch(s) /\ lock' = Released(s)
    \/ s \notin Batches /\ CeleryRetries(s, e) /\ RunAgain(s)
    \/ s \notin Batches /\ ~CeleryRetries(s, e) /\ Close(s)

-----------------------------------------------------------------------------
(* Starting to publish *)

\* Celery beat: a free worker slot runs process_publish_queue
BeatTick(b) ==
    /\ b \in Batches /\ pc[b] = "idle"
    /\ Cardinality(attempts) < MaxAttempts
    /\ pc' = [pc EXCEPT ![b] = "list"]
    /\ UNCHANGED <<rows, now, lock, cur, todo, phase, cache, seen, err, tries, edit,
                   delivered, bounds>>

\* publish_due_scheduled, then publish_queued_items: one SELECT loads the whole page
ListItems(b) ==
    /\ b \in Batches /\ pc[b] = "list"
    /\ \E S \in FirstPage(phase[b]) :
        /\ todo' = [todo EXCEPT ![b] = S]
        /\ cache' = [cache EXCEPT ![b] = [i \in Items |-> IF i \in S THEN queue[i] ELSE Null]]
    /\ pc' = [pc EXCEPT ![b] = "next"]
    /\ UNCHANGED <<rows, now, lock, cur, phase, seen, err, tries, edit, delivered, bounds>>

\* The for loop of _publish_items takes the next item of the page
TakeItem(b) ==
    /\ b \in Batches /\ pc[b] = "next"
    /\ \E i \in todo[b] :
        /\ \A j \in todo[b] :
               OrderKey(cache[b], i, phase[b]) <= OrderKey(cache[b], j, phase[b])
        /\ todo' = [todo EXCEPT ![b] = @ \ {i}]
        /\ cur' = [cur EXCEPT ![b] = i]
    /\ pc' = [pc EXCEPT ![b] = "lock"]
    /\ UNCHANGED <<rows, now, lock, phase, cache, seen, err, tries, edit, delivered, bounds>>

\* The page is done: on to the queued list, in the same transaction, or commit and return
PageDone(b) ==
    /\ b \in Batches /\ pc[b] = "next" /\ todo[b] = {}
    /\ \/ /\ phase[b] = "scheduled"
          /\ phase' = [phase EXCEPT ![b] = "queued"]
          /\ pc' = [pc EXCEPT ![b] = "list"]
          /\ UNCHANGED <<cur, todo, cache, seen, err, tries, lock>>
       \/ phase[b] = "queued" /\ Close(b)
    /\ UNCHANGED <<rows, now, edit, delivered, bounds>>

\* publish_queue_item_task is delivered to a worker: nothing is loaded before the lock
StartTask(t, i) ==
    /\ t \in Tasks /\ pc[t] = "idle" /\ Live(i)
    /\ Cardinality(attempts) < MaxAttempts
    /\ pc' = [pc EXCEPT ![t] = "lock"]
    /\ cur' = [cur EXCEPT ![t] = i]
    /\ UNCHANGED <<rows, now, lock, todo, phase, cache, seen, err, tries, edit, delivered,
                   bounds>>

\* POST /queues/{id}/publish: QueueService.publish loads the item before the publisher does
StartCall(c, i) ==
    /\ c \in Calls /\ pc[c] = "idle" /\ Live(i)
    /\ Cardinality(attempts) < MaxAttempts
    /\ pc' = [pc EXCEPT ![c] = "lock"]
    /\ cur' = [cur EXCEPT ![c] = i]
    /\ cache' = [cache EXCEPT ![c][i] = queue[i]]
    /\ UNCHANGED <<rows, now, lock, todo, phase, seen, err, tries, edit, delivered, bounds>>

-----------------------------------------------------------------------------
(* _claim_publish *)

\* SELECT ... FOR UPDATE, load the item, and run the guard lookups under the lock
LockItem(s) ==
    /\ pc[s] = "lock" /\ Live(cur[s]) /\ MayLock(s, cur[s])
    /\ lock' = [lock EXCEPT ![cur[s]] = s]
    /\ cache' = [cache EXCEPT ![s][cur[s]] = Loaded(s, cur[s])]
    /\ seen' = [seen EXCEPT ![s] =
           [block |-> Newest(ActiveGuards(cur[s], Loaded(s, cur[s]).payload, now)),
            num |-> NextNumber(cur[s]), at |-> now]]
    /\ pc' = [pc EXCEPT ![s] = "guard"]
    /\ UNCHANGED <<rows, now, cur, todo, phase, err, tries, edit, delivered, bounds>>

\* The row is gone: NotFoundError, which the loop of _publish_items does not catch
ItemMissing(s) ==
    /\ pc[s] = "lock" /\ ~Live(cur[s])
    /\ Close(s)
    /\ UNCHANGED <<rows, now, edit, delivered, bounds>>

\* Mutant of ClaimAttempt: the attempt is flushed, and committed only with the outcome
ClaimAttemptFlushed(s) ==
    /\ pc[s] = "guard" /\ seen[s].block = Null
    /\ attempts' = attempts \cup
           {[item |-> cur[s], num |-> seen[s].num, status |-> "started",
             hash |-> Copy(s).payload, at |-> seen[s].at, dead |-> FALSE]}
    /\ pc' = [pc EXCEPT ![s] = "claimed"]
    /\ UNCHANGED <<queue, created, now, lock, cur, todo, phase, cache, seen, err, tries,
                   edit, delivered, bounds>>

\* No blocking attempt: insert a started attempt and commit, which releases the lock
ClaimAttempt(s) ==
    /\ pc[s] = "guard" /\ seen[s].block = Null
    /\ attempts' = attempts \cup
           {[item |-> cur[s], num |-> seen[s].num, status |-> "started",
             hash |-> Copy(s).payload, at |-> seen[s].at, dead |-> FALSE]}
    /\ lock' = Released(s)
    /\ pc' = [pc EXCEPT ![s] = "claimed"]
    /\ UNCHANGED <<queue, created, now, cur, todo, phase, cache, seen, err, tries, edit,
                   delivered, bounds>>

\* Guard suppression: ConflictError with nothing committed.  A request or task closes its
\* session; the batch keeps its transaction, and with it the row lock.
Suppress(s) ==
    /\ pc[s] = "guard" /\ seen[s].block # Null
    /\ seen[s].block.status = "succeeded" => Copy(s).status = "published"
    /\ \/ s \in Batches /\ NextInBatch(s) /\ UNCHANGED lock
       \/ s \notin Batches /\ Close(s)
    /\ UNCHANGED <<rows, now, edit, delivered, bounds>>

\* The blocking attempt succeeded but the copy does not say published: repair the row,
\* commit, then ConflictError.  Only the columns that differ from the copy are written.
HealDrift(s) ==
    /\ pc[s] = "guard" /\ seen[s].block # Null
    /\ seen[s].block.status = "succeeded" /\ Copy(s).status # "published"
    /\ queue' = [queue EXCEPT ![cur[s]] =
           [@ EXCEPT !.status = "published",
                     !.msg = IF Copy(s).msg = Null THEN seen[s].block.num
                             ELSE queue[cur[s]].msg]]
    /\ Raise(s, "refused")
    /\ UNCHANGED <<created, attempts, now, edit, delivered, bounds>>

-----------------------------------------------------------------------------
(* publish_queue_item after the claim *)

Fails(s, e) ==
    /\ pc' = [pc EXCEPT ![s] = "failing"]
    /\ err' = [err EXCEPT ![s] = e]
    /\ UNCHANGED <<rows, now, lock, cur, todo, phase, cache, seen, tries, edit, bounds>>

\* Mutant of RefuseToSend: the checks run before the try block, so nothing records the failure
RefuseToSendUnrecorded(s) ==
    /\ pc[s] = "claimed"
    /\ Raise(s, "refused")
    /\ UNCHANGED <<rows, now, edit, delivered, bounds>>

\* Already published, no channel, or the channel is inactive or has lost the bot's
\* permission (any channel may have, between the load and now)
RefuseToSend(s) ==
    /\ pc[s] = "claimed"
    /\ Fails(s, "refused")
    /\ UNCHANGED delivered

Sendable(s) ==
    /\ pc[s] = "claimed"
    /\ Copy(s).status # "published"
    /\ Copy(s).payload \notin Unaddressed

\* Mutant of PostOf: the send reads the row again instead of the snapshot of the claim
PostOfCurrentRow(s) ==
    [item |-> cur[s], num |-> seen[s].num,
     payload |-> IF Live(cur[s]) THEN queue[cur[s]].payload ELSE Copy(s).payload,
     at |-> seen[s].at]

\* The snapshot taken at the claim, as the chat gets it
PostOf(s) == [item |-> cur[s], num |-> seen[s].num, payload |-> Copy(s).payload,
              at |-> seen[s].at]

\* TelegramPublisher.publish returns a result: the post is in the chat
TelegramAccepts(s) ==
    /\ Sendable(s)
    /\ delivered' = delivered \cup {PostOf(s)}
    /\ pc' = [pc EXCEPT ![s] = "accepted"]
    /\ UNCHANGED <<rows, now, lock, cur, todo, phase, cache, seen, err, tries, edit, bounds>>

\* TelegramPublishError.  A timeout, a 5xx or an error on a later chunk says nothing about
\* whether (part of) the post arrived.
TelegramFails(s) ==
    /\ Sendable(s)
    /\ \E e \in {"retryable", "rejected"} : Fails(s, e)
    /\ delivered' \in {delivered, delivered \cup {PostOf(s)}}

\* Mutant of SetOutcome: the UPDATE selects the attempts of the item, not the one attempt
SetOutcomeOfItem(s, status, dead) ==
    attempts' = {IF a.item = cur[s]
                 THEN [a EXCEPT !.status = status, !.dead = dead] ELSE a : a \in attempts}

\* _persist_attempt_outcome: UPDATE ... WHERE id = attempt.id
SetOutcome(s, status, dead) ==
    attempts' = {IF a.item = cur[s] /\ a.num = seen[s].num
                 THEN [a EXCEPT !.status = status, !.dead = dead] ELSE a : a \in attempts}

\* Attempt succeeded and item published, in one commit.  The UPDATE waits for a FOR UPDATE
\* holder.
RecordSuccess(s) ==
    /\ pc[s] = "accepted" /\ Live(cur[s]) /\ lock[cur[s]] = Null
    /\ SetOutcome(s, "succeeded", FALSE)
    /\ queue' = [queue EXCEPT ![cur[s]] =
           [@ EXCEPT !.status = "published", !.msg = seen[s].num]]
    /\ \/ s \in Batches /\ NextInBatch(s) /\ UNCHANGED lock
       \/ s \notin Batches /\ Close(s)
    /\ UNCHANGED <<created, now, edit, delivered, bounds>>

\* mark_transport_failure_terminal: a manual call, or the last execution of a task.  The
\* batch passes it too, but its own loop swallows the errors, so its retries stay 0.
FinalExecution(s) == s \in Calls \/ tries[s] >= MaxRetries

Terminal(s) == FinalExecution(s) \/ err[s] # "retryable"

\* _mark_attempt_failed and its commit
RecordFailure(s) ==
    /\ pc[s] = "failing" /\ Live(cur[s])
    /\ SetOutcome(s, "failed", Terminal(s))
    /\ \/ /\ Terminal(s)
          /\ pc' = [pc EXCEPT ![s] = "deadletter"]
          /\ UNCHANGED <<lock, cur, todo, phase, cache, seen, err, tries>>
       \/ ~Terminal(s) /\ Raise(s, err[s])
    /\ UNCHANGED <<queue, created, now, edit, delivered, bounds>>

\* _mark_item_failed: nothing to write when the copy already says failed
MarkItemFailed(s) ==
    /\ pc[s] = "deadletter"
    /\ \/ Copy(s).status = "failed" /\ UNCHANGED queue
       \/ /\ Copy(s).status # "failed" /\ Live(cur[s]) /\ lock[cur[s]] = Null
          /\ queue' = [queue EXCEPT ![cur[s]].status = "failed"]
    /\ Raise(s, err[s])
    /\ UNCHANGED <<created, attempts, now, edit, delivered, bounds>>

\* The item, and its attempts, were deleted meanwhile: refresh() of the attempt or the
\* flush of the item raises, no handler catches that, and the whole session ends
ItemVanished(s) ==
    /\ pc[s] \in {"accepted", "failing", "deadletter"} /\ ~Live(cur[s])
    /\ pc[s] = "deadletter" => Copy(s).status # "failed"
    /\ Close(s)
    /\ UNCHANGED <<rows, now, edit, delivered, bounds>>

\* Sessions that wait for each other's row locks in a circle: PostgreSQL aborts one
Deadlocked(s) ==
    \E D \in SUBSET Batches :
        /\ s \in D
        /\ \A d \in D : pc[d] = "lock" /\ lock[cur[d]] \in D \ {d}

AbortVictim(s) ==
    /\ Deadlocked(s)
    /\ Close(s)
    /\ UNCHANGED <<rows, now, edit, delivered, bounds>>

\* The worker or API process is lost (Celery acknowledges early: the task is not redelivered)
Crash(s) ==
    /\ pc[s] # "idle" /\ crashes < MaxCrashes
    /\ crashes' = crashes + 1
    /\ Close(s)
    /\ UNCHANGED <<rows, now, edit, delivered, edits>>

-----------------------------------------------------------------------------
(* QueueService: create, update, delete *)

\* A publishable status needs a resolvable channel; scheduled_at is kept only for scheduled
CreateItem ==
    /\ created + 1 \in Items
    /\ \E status \in Settable, payload \in Payloads, t \in Times :
        /\ status \in Publishable => payload \notin Unaddressed
        /\ queue' = [queue EXCEPT ![created + 1] =
               [status |-> status, payload |-> payload,
                at |-> IF status = "scheduled" THEN t ELSE Null, msg |-> Null]]
    /\ created' = created + 1
    /\ UNCHANGED <<attempts, now, lock, session, edit, delivered, bounds>>

\* QueueService.get at the start of PATCH
LoadForUpdate(e, i) ==
    /\ edit[e] = NoEdit /\ Live(i) /\ edits < MaxEdits
    /\ edit' = [edit EXCEPT ![e] = [item |-> i, row |-> queue[i]]]
    /\ edits' = edits + 1
    /\ UNCHANGED <<rows, now, lock, session, delivered, crashes>>

\* Mutant of Updated: model_dump() without exclude_unset
UpdatedAllFields(row, status, payload, at) ==
    [status |-> status, payload |-> payload, at |-> at, msg |-> row.msg]

\* QueueService.update on the loaded row; Null stands for a field the request leaves out
Updated(row, status, payload, at) ==
    [status  |-> IF status = Null THEN row.status ELSE status,
     payload |-> IF payload = Null THEN row.payload ELSE payload,
     at      |-> IF at # Null THEN at
                 ELSE IF status \notin {Null, "scheduled"} THEN Null ELSE row.at,
     msg     |-> IF status \in {Null, "published"} THEN row.msg ELSE Null]

\* The flush writes the columns whose value changed against the loaded row, no others
Flushed(base, new, row) ==
    [status  |-> IF new.status # base.status THEN new.status ELSE row.status,
     payload |-> IF new.payload # base.payload THEN new.payload ELSE row.payload,
     at      |-> IF new.at # base.at THEN new.at ELSE row.at,
     msg     |-> IF new.msg # base.msg THEN new.msg ELSE row.msg]

CommitUpdate(e) ==
    LET i == edit[e].item IN
    /\ edit[e] # NoEdit /\ Live(i) /\ lock[i] = Null
    /\ \E status \in Settable \cup {Null}, payload \in Payloads \cup {Null},
          at \in Times \cup {Null} :
        LET new == Updated(edit[e].row, status, payload, at) IN
        /\ status = "scheduled" => at # Null
        /\ new.status = "scheduled" => new.at # Null
        /\ queue' = [queue EXCEPT ![i] = Flushed(edit[e].row, new, @)]
    /\ edit' = [edit EXCEPT ![e] = NoEdit]
    /\ UNCHANGED <<created, attempts, now, lock, session, delivered, bounds>>

\* The request was invalid, or the row was deleted meanwhile (StaleDataError)
UpdateRejected(e) ==
    /\ edit[e] # NoEdit
    /\ edit' = [edit EXCEPT ![e] = NoEdit]
    /\ UNCHANGED <<rows, now, lock, session, delivered, bounds>>

\* DELETE /queues/{id}: the attempts go with the item
DeleteItem(i) ==
    /\ Live(i) /\ lock[i] = Null /\ edits < MaxEdits
    /\ queue' = [queue EXCEPT ![i] = Null]
    /\ attempts' = attempts \ AttemptsOf(i)
    /\ edits' = edits + 1
    /\ UNCHANGED <<created, now, lock, session, edit, delivered, crashes>>

Tick ==
    /\ now < MaxTime
    /\ now' = now + 1
    /\ UNCHANGED <<rows, lock, session, edit, delivered, bounds>>

-----------------------------------------------------------------------------

Publish(s) ==
    \/ ListItems(s) \/ TakeItem(s) \/ PageDone(s)
    \/ LockItem(s) \/ ItemMissing(s) \/ ClaimAttempt(s) \/ Suppress(s) \/ HealDrift(s)
    \/ RefuseToSend(s) \/ TelegramAccepts(s) \/ TelegramFails(s)
    \/ RecordSuccess(s) \/ RecordFailure(s) \/ MarkItemFailed(s) \/ ItemVanished(s)
    \/ AbortVictim(s)

Start(s) == BeatTick(s) \/ \E i \in Items : StartTask(s, i) \/ StartCall(s, i)

Edit(e) == CommitUpdate(e) \/ UpdateRejected(e) \/ \E i \in Items : LoadForUpdate(e, i)

\* Nothing in flight: the system may rest until the next request, tick or beat
Quiescent ==
    /\ \A s \in Sessions : pc[s] = "idle"
    /\ \A e \in Editors : edit[e] = NoEdit
    /\ UNCHANGED vars

Next ==
    \/ \E s \in Sessions : Start(s) \/ Publish(s) \/ Crash(s)
    \/ \E e \in Editors : Edit(e)
    \/ \E i \in Items : DeleteItem(i)
    \/ CreateItem \/ Tick \/ Quiescent

Spec == Init /\ [][Next]_vars

\* A running session keeps running: the event loop schedules it, Telegram calls have a
\* timeout and a bounded number of retries, and PostgreSQL's lock queue is first come first
\* served.  Nothing obliges a request, a beat or a crash to happen.
FairSpec == Spec /\ \A s \in Sessions : SF_vars(Publish(s))

-----------------------------------------------------------------------------
(* Safety *)

\* At any time at most one attempt guards a payload: two attempts of an item with the same
\* hash that are started or succeeded were claimed a whole idempotency window apart.  This
\* is what _claim_publish buys with the row lock around lookup and insert.
GuardWindowsDisjoint ==
    \A a, b \in attempts :
        a # b /\ a.item = b.item /\ a.hash = b.hash /\ Guarding(a) /\ Guarding(b)
            => a.at + Window <= b.at \/ b.at + Window <= a.at

\* The attempts of an item are numbered 1, 2, 3, ... with no gap and no number used twice,
\* so the unique constraint on (queue_id, attempt_number) never fires.
AttemptsNumbered ==
    /\ \A a, b \in attempts : a.item = b.item /\ a.num = b.num => a = b
    /\ \A i \in Items : \E n \in Numbers(i) \cup {0} : Numbers(i) = 1..n

Sending == {"claimed", "accepted", "failing"}

\* No session talks to Telegram while it holds a row lock: the commit of the claim gives up
\* every lock, those the batch kept after a suppressed item included.
NoLockWhileSending ==
    \A s \in Sessions : pc[s] \in Sending => \A i \in Items : lock[i] # s

\* A post reaches the chat only under a claim that was durable first and for that payload;
\* and an attempt that says succeeded has its post in the chat.
PostsMatchAttempts ==
    /\ \A p \in delivered : Live(p.item) =>
           \E a \in attempts : a.item = p.item /\ a.num = p.num /\ a.hash = p.payload
    /\ \A a \in attempts : a.status = "succeeded" =>
           \E p \in delivered : p.item = a.item /\ p.num = a.num /\ p.payload = a.hash

\* The same payload goes out twice within one window only if an attempt that was recorded as
\* failed (after an ambiguous error) stands between, or the item was deleted.
DuplicatesFollowFailures ==
    \A p, q \in delivered :
        (/\ p.item = q.item /\ p.payload = q.payload /\ p.num < q.num
         /\ q.at < p.at + Window /\ Live(p.item))
        => \E a \in attempts : a.item = p.item /\ a.num = p.num /\ a.status = "failed"

\* What a row says is backed by an attempt: its Telegram message id is that of a succeeded
\* attempt of the item, and a failed row has a dead-lettered attempt.  Edits, repairs and
\* publishers write these columns from copies of different ages.
RowsBackedByAttempts ==
    \A i \in Items : Live(i) =>
        /\ queue[i].msg # Null =>
               \E a \in AttemptsOf(i) : a.num = queue[i].msg /\ a.status = "succeeded"
        /\ queue[i].status = "failed" => \E a \in AttemptsOf(i) : a.dead

\* Unless a process was lost, a started attempt belongs to a session that is still at work on
\* it: no path through the publisher leaves the 24 hour guard of an unfinished attempt behind.
StartedIsOwned ==
    crashes = 0 =>
        \A a \in attempts : a.status = "started" =>
            \E s \in Sessions : pc[s] \in Sending /\ cur[s] = a.item /\ seen[s].num = a.num

(* What makes GuardWindowsDisjoint and AttemptsNumbered inductive *)

\* What s saw under the lock is still so
LookupIsCurrent(s) ==
    /\ lock[cur[s]] = s /\ Live(cur[s]) /\ Copy(s) # Null
    /\ seen[s].at <= now
    /\ seen[s].num > 0 /\ Numbers(cur[s]) = 1..(seen[s].num - 1)
    /\ seen[s].block = Null =>
           \A a \in AttemptsOf(cur[s]) :
               a.hash = Copy(s).payload /\ Guarding(a) => a.at + Window <= seen[s].at

GuardIsCurrent == \A s \in Sessions : pc[s] = "guard" => LookupIsCurrent(s)

\* A claimed attempt is started, exists as long as its item does, and has one owner
ClaimsAreOwned ==
    /\ \A s \in Sessions : pc[s] \in Sending =>
           /\ Copy(s) # Null
           /\ \A a \in AttemptsOf(cur[s]) : a.num = seen[s].num => a.status = "started"
           /\ Live(cur[s]) => seen[s].num \in Numbers(cur[s])
    /\ \A s, t \in Sessions :
           s # t /\ pc[s] \in Sending /\ pc[t] \in Sending /\ cur[s] = cur[t]
               => seen[s].num # seen[t].num

\* Ids are not reused, and nothing refers to an id that has not been handed out
IdsHandedOut ==
    /\ \A i \in Items : Live(i) => i <= created
    /\ \A s \in Sessions : pc[s] \notin {"idle", "list", "next"} => cur[s] \in 1..created
    /\ \A s \in Sessions : todo[s] \subseteq 1..created
    /\ \A a \in attempts : Live(a.item) /\ a.at <= now

ClaimInv ==
    /\ GuardWindowsDisjoint /\ AttemptsNumbered
    /\ GuardIsCurrent /\ ClaimsAreOwned /\ IdsHandedOut

(* The abstract specification *)

\* Batches, tasks and publish requests together are one writer of an AttemptLedger: numbered,
\* guarded, each attempt settled at most once.
Ledger == INSTANCE AttemptLedger WITH ledger <- attempts, clock <- now
LedgerSpec == Ledger!Spec

(* Liveness *)

\* Every batch run, task and publish request comes to an end, whatever locks the others hold.
PublishEnds == \A s \in Sessions : pc[s] # "idle" ~> pc[s] = "idle"

-----------------------------------------------------------------------------
(* What the documents say of the publisher and the code does not do *)

\* queue-publish-attempt-design.md: the claim re-reads the effective payload under the lock.
ClaimsCurrentPayload ==
    [][\A a \in attempts' \ attempts :
          a.status = "started" => a.hash = queue[a.item].payload]_vars
=============================================================================
