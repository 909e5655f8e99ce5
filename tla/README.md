# TLA+ verification of affiliate-platform-api

The program is a FastAPI backend (`app/`) with a Celery worker, PostgreSQL and Redis, and a
Next.js frontend (`frontend/src`). Operators collect AliExpress products, write posts with an AI
provider, put them in a queue and have them published to Telegram channels, by hand or on a
schedule. The modules here model what changes state: the publishing protocol and its transport, the
event stream, sign-in, and the five pages of the frontend that run asynchronous loops over the rows.

## Inventory

| component | state | operations | talks to | modules |
| --- | --- | --- | --- | --- |
| Telegram publishing, `app/services/queue.py` | `queue_items`, `queue_publish_attempts`, the identity map of each session | claim, send, record the outcome, dead-letter, repair | tasks and API above it, Telegram below it, events | `PublishQueue`, `AttemptLedger` |
| Publishing tasks, `app/worker/tasks/publishing.py`, `celery_app.py` | Celery retries, the page a batch iterates over | beat batch, single-item task, autoretry | publishing | `PublishQueue` |
| Queue API service, `app/services/queue.py` | the same two tables | create, PATCH, delete, manual publish | publishing, channels, products, settings | `PublishQueue` |
| Telegram transport, `app/telegram/publisher.py` | none kept; the chat itself | split text, send chunks, retry | Telegram HTTP API | `TelegramText`, `TelegramPublisher` |
| Events, `app/events/`, `app/api/v1/queue_stream.py` | Pub/Sub connection, subscriber table, one buffer per SSE client | publish after commit, consume, broadcast, stream | Redis, browsers | `QueueEvents` |
| Realtime client, `frontend/src/features/queue/{hooks,lib}` | stream status, backoff, invalidation timer, polling | connect, reconnect, invalidate, poll | SSE, queue API | `LiveQueue` |
| Refresh tokens, `app/auth/` | `refresh_tokens` | login, rotation, reuse detection, logout | browser session | `TokenLineage`, `RefreshTokens` |
| Browser session, `frontend/src/services`, `lib/workspace.ts` | tokens and workspace in sessionStorage, the refresh in flight | request, refresh on 401, login, logout | auth API | `BrowserSession` |
| Publishing board, `frontend/src/features/queue` | list, attempt summaries, failures, markers, selection, dialogs | publish, retry, schedule, change status, delete, one or many | queue API | `QueueBoard` |
| Content studio, `frontend/src/features/ai` | session of source, settings and variants; the canvas | generate, edit, restore, reset, queue, publish | AI and queue API | `ContentStudio` |
| Discovery page, `frontend/src/features/discovery` | parameters, run, marks, selection, query cache | search, search by picture, import, queue, generate | discovery, import, queue API | `Discovery`, `Stock`, `Catalog` |
| Products page, `frontend/src/features/products` | filter, page, selection, dialog, query cache | change status, delete, queue | products API | `Inventory`, `Stock`, `Catalog` |
| Products API, product import, `app/services/product.py`, `product_importer.py` | `products` | upsert, update, delete, list | AliExpress client | `Stock`, `Inventory` (partly) |
| Workspaces and settings, `app/services/workspace_settings.py`, `frontend/src/features/settings` | `workspace_settings`; six forms, query cache | first save, save, read | channels | `WorkspaceSettings`, `QueryCache`, `Administration` |
| Telegram channels, `app/services/channel.py`, `frontend/src/features/channels` | `telegram_channels` | register, toggle, check rights, remove | Telegram, settings | `Connections`, `Administration` |
| Facebook pages, `app/services/facebook_page.py` | `facebook_pages` | connect, validate, toggle, replace token, remove | Facebook Graph | `Connections`, `Administration` |
| Rate limiter, `app/core/rate_limit.py` | a Redis counter with a TTL | count, refuse, fail open | auth routes | no |
| Worker heartbeat and health | a Redis key with a TTL | beat, age check | operators | no |
| Product discovery and category refresh | `aliexpress_categories` | search, rank, replace | AliExpress client | no |
| AliExpress client, `app/aliexpress/` | process-wide pause between requests | call, parse, map | AliExpress | no |
| AI providers, `app/ai/` | none | prompt, bounded retry | OpenAI, Gemini | no |
| Dashboard, recommendations, scripts, other views, configuration | none of interest | read, score, render | | no |

What is hard, and what correct means:

* **Publishing.** Several writers of one row (beat batches that overlap, Celery tasks, manual
  publishes, PATCH, DELETE), a network call in the middle that must not hold a lock, a process loss
  at any point, retries on four levels (HTTP, Celery task, beat, operator), and sessions that work
  on rows loaded long before they lock them. The same payload is not attempted twice within the
  idempotency window, attempts are a faithful history, the row says only what attempts back, nobody
  talks to Telegram under a lock, and every run ends.
* **Transport.** A post that times out may have arrived; chunks must stay in order.
* **Events.** At-most-once delivery after commit; a slow client must not stall others.
* **Tokens.** Rotations of one token side by side, reuse detection, logout; a refresh in flight
  while the user logs out, reloads or switches. One live token per login; a page's own requests must
  not look like a theft.
* **Pages.** Loops of requests that go on while the user clicks, the lists reload, and others change
  the rows; some steps fail; the page is left and opened again; caches are invalidated beside requests
  already under way. What a page shows, marks, asks about and sends must be about the rows there are.
* **Settings and connections.** Load, ask an outside service, write; check, then insert; forms that send
  fields nobody touched.

`PROJECT.json` lists the hazards at their lines, with the property that covers each.

## Modules

| module | what it is |
| --- | --- |
| `PublishQueue` | publishing, its tasks and the queue API, down to single transactions |
| `AttemptLedger` | what the attempts table promises, as an abstract specification |
| `PublishQueue_proofs` | the theorems about the claim protocol, what reaches the chat, and what the rows say of it |
| `QueueEvents` | the event stream on the server: commit, Redis Pub/Sub, consumer, broadcaster, SSE connections |
| `LiveQueue` | browser tabs on top of `QueueEvents`: stream, debounce, query cache, polling |
| `LiveQueue_proofs` | the theorems about streams and about the tabs that follow them |
| `TelegramText` | how a long post is cut into chunks |
| `TelegramPublisher` | sending the chunks of `TelegramText`, with the retries of `_post` |
| `TelegramPublisher_proofs` | the theorems about `TelegramPublisher` |
| `TokenLineage` | what refresh tokens promise, as an abstract specification |
| `RefreshTokens` | the rows of `refresh_tokens` and the transactions on them |
| `BrowserSession` | browser tabs, their requests and sign-outs, on top of `RefreshTokens` |
| `BrowserSession_proofs` | the theorems about token rotation, and about tabs: headers, sign-outs, tokens presented twice |
| `QueueBoard` | the publishing board: one page and its asynchronous loops |
| `QueueBoard_proofs` | the theorems about the board |
| `ContentStudio` | the content studio: documents, variants, edits, generation, queueing |
| `ContentStudio_proofs` | the theorems about the studio |
| `Stock` | the products table, as the two pages below change it |
| `Discovery`, `Inventory` | the discovery and the products page, each with its loops and query cache |
| `Catalog` | both in one browser tab, with navigation between them |
| `Catalog_proofs` | the theorems about the two pages |
| `QueryCache` | an entry of TanStack Query: asked, served, arrived, invalidated, stored |
| `Connections` | channels and Facebook pages: rows, page, requests that consult Telegram or Facebook |
| `WorkspaceSettings` | the settings row and its forms, on top of `Connections` |
| `Administration` | settings and connections in one browser, with other administrators |
| `Administration_proofs` | the theorems about settings and connections |
| `MC...` | instances of the above for TLC: constants, initial rows and bounds |

Composition. One `TelegramAccepts` or `TelegramFails` of `PublishQueue` is one `publish` of
`TelegramPublisher`: `delivered` counts publish calls that reached the chat, and each of them may be
several messages and copies there. A `Commit` of `QueueEvents` is any commit of `PublishQueue` followed
by `_publish_queue_event`; the rows are abstracted to the number of changes, which is all that freshness
depends on. `QueueBoard` reduces the server to the row a request leaves and the answer it gives.
`Catalog` runs `Discovery` and `Inventory` over one `Stock`; `Administration` runs `WorkspaceSettings` and
`Connections` over one set of channels, where the removal of a channel empties the default channel.

### PublishQueue

State and code:

| variable | code |
| --- | --- |
| `queue[i]`, `created` | the `queue_items` row of the i-th created item (status, payload, scheduled_at, telegram_message_id), or `Null`; ids are never reused |
| `attempts` | `queue_publish_attempts`: item, attempt_number, status, content_hash, occurred_at, and whether error_code is `dead_letter` |
| `now` | the clock, in ticks; `Window` is `IDEMPOTENCY_WINDOW` |
| `lock[i]` | the session that holds `SELECT ... FOR UPDATE` on row i |
| `pc`, `cur`, `todo`, `phase` | where a publisher session is in `process_publish_queue`, `publish_queue_item_task` or `POST /queues/{id}/publish` |
| `cache[s]` | its SQLAlchemy identity map. The session factory sets `expire_on_commit=False` and `autoflush=False` and no query uses `populate_existing`, so a row once loaded is not refreshed by a later SELECT, not even by the one after `FOR UPDATE` |
| `seen[s]` | what the guard lookup and `latest_attempt` returned under the lock, and the `now` they used |
| `err`, `tries` | the exception class being handled, `task.request.retries` |
| `edit[e]` | the row a PATCH request has loaded and not yet written |
| `delivered` | the posts in the Telegram chat |

A *payload* is a value that stands for everything `content_hash` covers (chat, text, image, button):
two equal payloads are two equal hashes. Payloads in `Unaddressed` have no channel. Each action is
the work between two points where another actor can interleave: a commit, a lock wait, a network
call. `LockItem` takes the row lock and reads the guards; `ClaimAttempt`, `Suppress` and `HealDrift`
are the three ways out of `_claim_publish`; `RefuseToSend`, `TelegramAccepts` and `TelegramFails` the
three ways through the `try` block (a failed send may or may not have arrived); `RecordSuccess`,
`RecordFailure` and `MarkItemFailed` the commits after it; `ItemVanished` is what happens to a
session whose item was deleted under it; `AbortVictim` is PostgreSQL's deadlock detector. A batch
loads a page (`ListItems`), walks it in order (`TakeItem`) and goes on after the exceptions
`_publish_items` catches (`NextInBatch`); any other exception closes the session (`Close`).
A PATCH is two actions, `LoadForUpdate` and `CommitUpdate`, and writes only the columns that changed
against what it loaded (`Flushed`).

Left out: `published_at`; explicit `null` in a PATCH; workspace checks; failures of PostgreSQL other
than the deadlock abort; the split of a DELETE into its two row locks; event publication (it happens
after the commits, cannot fail the caller and changes no row).

One item is enough for the claim protocol: rows interact only through the batch, which
`batches` gives two items. Time is 0 to 2 ticks with a window of one, so a guard is seen before, at
and after its expiry (`crash`). Two attempts are enough to collide, three to have an expired one in front
of two that race. `MaxAttempts` bounds only the start of publishing: whoever has started may finish.

| run | shows |
| --- | --- |
| `race` | a batch, a Celery task with autoretry, PATCH and DELETE against one item, one payload without a channel, no schedule: `TypeOK`, the inductive `ClaimInv`, `PostsMatchAttempts`, `RowsBackedByAttempts`, that no path leaves a started attempt behind (`StartedIsOwned`), and, with fair sessions, that every one of them ends (`PublishEnds`) |
| `crash` | a batch and a manual publish, with a lost process and three ticks: `GuardWindowsDisjoint`, `DuplicatesFollowFailures`; refinement of `AttemptLedger` (`LedgerSpec`) |
| `batches` | two batches over two items due at the same instant (equal keys: either order), lost and started again up to two times: `NoLockWhileSending`. A batch keeps the lock of an item it skips, so two of them can wait for each other in a circle until PostgreSQL aborts one (`AbortVictim`) |
| `stale_snapshot` | a violation: a claim can be about a payload the row no longer has (`ClaimsCurrentPayload`) |

`Requested` restricts the statuses requests ask for, to keep `race` and `batches` small; a process
kind is empty where the run does not need it. `batches` takes the two batches as interchangeable
(`BatchSymmetry`): nothing in the specification tells them apart, and no liveness is checked there. No
other run uses symmetry. Deadlock is checked in the runs of this and the next two
sections: `Quiescent`, and its like, is the only stuttering step and needs every process at rest.

Fairness. `FairSpec` asks strong fairness of each session's next step, `SF_vars(Publish(s))`. An asyncio
event loop runs a ready session; every HTTP call has a timeout and a bounded number of retries; a
session waiting for a row lock is enabled again and again only if the lock is released again and again, and
PostgreSQL queues lock waiters in order. No fairness is assumed of requests, beats, edits or the clock.

### QueueEvents and LiveQueue

| variable | code |
| --- | --- |
| `log`, `pending` | the commits in order, by workspace, and the event each service has built and not yet published |
| `subscribed`, `channel` | the session of `EventConsumer` and what Redis has sent it |
| `due` | of each connection, the events `EventBroadcaster.publish` handed out for its workspace since it subscribed |
| `stream`, `buf`, `item`, `closed`, `sent` | one SSE connection: its generator, its `asyncio.Queue`, the frame being written, its `asyncio.Event`, the frames written |
| `status`, `conn`, `est` | `useQueueEventStream` of a tab, the connection it holds, `establishedConnectionRef` |
| `timer` | the debounce timer of `createDebouncedQueueEventInvalidator` |
| `fetch`, `answer`, `view`, `failed`, `absorbed` | the TanStack query of the list: its fetch, the version the API read for it, what is shown, whether the last load failed, whether an invalidation met the first load |

A broadcast is one step, because `on_event` does not suspend. Redis sends to whoever is subscribed and
keeps nothing. An `ApiRestarts` drops every connection and buffer. `Deliver` is one frame written by the
generator and handled by the tab. Queries are an external library; `Invalidate` is what
`invalidateQueries` does with its default `cancelRefetch` (a fetch in flight is started again, except a
first load, which is joined).

Left out: payload validation and the SSE byte parser; the query of one item's attempts; backoff and
polling intervals, which are unbounded delays.

| run | shows |
| --- | --- |
| `streams` | two publishers, connections of two workspaces, room for one event, one fault, a client (`c2`) that need not read: an open stream is exactly what was handed out since it subscribed (`StreamHasNoGap`, with the types and the bound of the buffers in `EventInv`), a prompt client is served whatever the slow one does, and a closed connection is unsubscribed (`SlowClientDelaysNobody`, `ClosedStreamsEnd`, together `StreamsGoOn`) |
| `live` | one tab, a connection it owns and one it left: nothing is missing when nothing is under way (`QuietViewIsCurrent`, in `LiveInv` with the types); an event handed to the tab's connection is followed by rows at least as new, also when the connection is closed for its slowness (`RefreshFollowsEvent`), and a reconnecting tab catches up (`ReconnectCatchesUp`), together `ViewsCatchUp` |

A buffer of one overflows with the second event, three events and one fault put a loss before, between
and after two that arrive. Two connections suffice for a tab: of the ones it left, only what they do to
the shared consumer matters, and that is independent of their number. One fault, for `live`, is any one of
a failed publish, a lost session, a lost stream, a failed load or a restart.

Fairness. Weak fairness of the consumer and of the generators of prompt clients: they are tasks of a
running event loop and every wait in them has a timeout or a wake-up. In `LiveQueue` also of publishing
after a commit, of the tab's reactions (timers fire, an ended response is noticed) and of loading; strong
fairness of `ShowRows`, because each invalidation cancels the load in flight, and a user does not
cancel every load by one more change. The server is not obliged to accept a stream again, nor anybody
to commit, connect or fail.

### TelegramText and TelegramPublisher

| variable | code |
| --- | --- |
| `text`, `photo` | the arguments of `publish` |
| `rest`, `chunks`, `stage` | `remaining` and `chunks` of `split_telegram_text`; with a photo, the caption is the first chunk |
| `part`, `tries`, `waiting` | the chunk being sent, the loop of `_post`, its request in flight |
| `late` | requests `_post` has given up that Telegram may still receive |
| `chat` | the chunks in the chat, in the order they appear |
| `acks`, `primary` | where the answered ones are, and the message `publish` returns |
| `publishes`, `why` | calls of `publish` for this post, and the class of the last failure |

An answer to a request is one of five: `Accepted`, `Unheard` (posted, but the answer is lost or unusable),
`NotPosted`, `GivenUp` (a timeout while the request is on its way), `Raised` (permanent). `FailsTransiently`
is the branch they share: retry, or raise when the retries are used up. `PublishAgain` is the next beat, a
Celery retry, which a rejection has too, or an operator.

`telegram` takes every text of one to five characters over a letter, a blank and a newline, limits two and
four, one retry and two calls. Limits two and four with five characters reach every branch of the cut:
a soft cut on each of the three separators, below and above the middle, no separator, nothing but newlines, a
remainder that is empty after its newlines. `PostInv` says that no chunk is empty or too long (`ChunksFit`) and there are no more copies than
requests (`CopiesAreBounded`); `CutsDropNewlines` that each cut takes its chunk off the front of the text
and drops nothing but newlines, `NothingTruncated` that chunks and remainder
are stretches of the text, one behind the other to its end, with only newlines between them;
`ChunksFollowInOrder` that in the chat every chunk stands below a copy of its predecessor;
`ResultIsWholePost` that a publish that returns has placed the whole post and returns its first message;
and, with weak fairness of the task that publishes, `PublishReturns` that it returns or raises.

Left out: delays, the inline button (it goes with the last chunk), payload formats.

### TokenLineage, RefreshTokens and BrowserSession

| variable | code |
| --- | --- |
| `row`, `login` | a row of `refresh_tokens` (absent, inserted and not committed, active, revoked) and the login it descends from |
| `call` | a request to `/auth/refresh` or `/auth/logout`: where its transaction is, the token it was given, the rows its revocation saw |
| `reuse` | some transaction was given a token that had been spent |
| `store` | sessionStorage of a tab: access token, refresh token, active workspace |
| `inFlight` | `inFlightRefresh` of a tab: the request whose refresh all others wait for |
| `req` | a request of `apiClient`: idle, sent, waiting for the refresh, sent again; with token and workspace header as last sent |
| `leaving`, `expired`, `abandoned` | the redirect of a failed refresh, access tokens past their lifetime, calls whose page is gone |
| `signedOut`, `late`, `causes` | history: since the sign-out nobody logged in; something was still under way then; what can explain a token that is presented twice |

A transaction takes the row of its token `FOR UPDATE`; a rotation commits in a step of its own, so that
its successor is invisible to others until then. The UPDATE of `revoke_all_active_for_user` is two steps,
because it reads the rows committed when it starts and then waits for those a rotation holds. `Refuse`
stands for every answer that changes nothing (rate limit, expired row, inactive user, lost request).
Expiry of refresh tokens and password checks only refuse. An access token goes by the number of the
refresh token it came with.

Run `session`: two tabs of which the second may be a duplicate of the first, two requests of which one
loads the profile, two users, one login each, two tokens per behaviour, so that one rotation takes place,
and one disturbance (a copied tab, a logout beside a refresh, a reload during a call). It checks the
types and that a request carries the workspace of its own user (`SessionInv`), that rotations exclude
each other (`RotationInv`) and implement `TokenLineage` (`LineageSpec`), that the requests of one page
refreshing side by side never set off reuse detection (`ReuseHasCause`), that a sign-out is final
(`SignOutIsFinal`), and that every request is settled (`RequestsSettle`). The logins are used up in the
end, hence `CHECK_DEADLOCK FALSE`.

Fairness: weak, of the server's answer to a call that waits (or the timeout of `apiClient`), of the
promise callbacks, and of `Answer`, which is always enabled once a request is sent. Nobody need log in,
log out or send.

### QueueBoard

| variable | code |
| --- | --- |
| `row` | the row at the server: status, channel, schedule, last attempt, version (`updated_at`); its `silent`, history: the last attempt failed and no new version came since |
| `list`, `selected`, `filter`, `page` | `queue.data`, `selectedQueueItemIds`, the status filter and the page |
| `summary`, `targets`, `asked` | `useQueueAttemptSummaryEnrichment`: summaries, items still to ask for, requests under way with their generation |
| `job`, `latest` | the asynchronous functions of `QueueView` and the hooks, each at an `await`; the call `isPending` is about |
| `publishing`, `failures` | `publishingIds` and the page's own failures |
| `told` | history: the items whose last publish was answered with an error |
| `dialog`, `doomed` | the scheduling dialog and `deleteTargets` |
| `shrunk`, `retried`, `crossed` | history: the list got shorter; the items retried so far; an item was retried while a loop changed statuses |
| `budget` | bounds on clicks, reloads, summaries and foreign changes |

A job is one loop (`publish`, `retry`, `schedule`, `publishNow`, `status`, `delete`): each `await` ends a
step, each answer may be an error or a conflict, whether the server did it or not. `retry` and
`publishNow` edit first and publish afterwards. A publish is three commits at the server: the claim leaves
a started attempt, its outcome is the last attempt's if that is it, and a failure marks the item in the
next commit; between any two, the page may read a summary or give up. Claim and failed attempt leave the
version (`updated_at`) alone (`Mark`), whatever writes the row raises it (`Put`). `Foreign` is all that
others do to a row: edits and deletes, and the workers' claims, failures that Celery will retry, failures
that mark the item, and successes, each in a step of its own.

Run `board`: two items, to be queued again, ready, without a channel, or failed with a schedule; two
operations at a time. `SummariesAreFresh`: a summary
is never older than the row beside it. `FailuresAreShown`: an item whose last attempt failed is shown as
failed, once the row and a summary are known. The one exception is a failure that changed no version after
its summary was read, as a worker's is that Celery will retry: nothing makes the page ask again. The
property requires even then that the page shows what it was itself told, until a summary that knows an
attempt, a started or an earlier one, takes its place. TLC finds both cases of the exception in the run. `MarkersAreTrue`: the marker of an item lasts until its publish is answered, and always goes.
`BoardInv`: types, two publishes of an item at a time only after a retry of it or one that crossed a status
loop, dialogs over their operations, an empty page has a cause. The budgets of `MCBudgets` let two of the
kinds of step that interact meet in one behaviour. Three operations that meet are beyond these bounds: the
theorems cover them (`BoardCorrect`, `MarkersLast`), and what they found is under the observations. Fairness: weak, of the server's answers
and the continuations. Search, channel filter and sorting are the one filter; toasts, statistics and
the drawer's list of attempts are left out.

### ContentStudio

A text is the sequence of the kinds of its lines (heading, bullet, number, call to action, text, blank),
which is all that `parseMarketingDocument` tells apart; `Blocks` is that parser. `ctx`, `config`,
`variants`, `active` and `mentioned` are the stored session of `useContentSession`; `draft` is the canvas with
its focus and the variant it was typed on; `asked` are the requests for a text; `job` is
`queueFromActive`, from the creation of the item to its publication; `rows` the items it created;
`known` the products whose details are cached. A blur comes before any click, as in the browser. `Open`
leaves the page and opens it from the menu, for a product or for a URL.

Run `studio`: two products, two settings, two texts that have every kind of line next to every other kind
that matters, two requests and two jobs at a time. `DocumentKeepsLines`: the document has every line of
its text that is not blank, once, in order, in a block of its kind. `StudioInv`: types; no variant of a studio that was reset; what was typed is not
saved to another variant; one post at a time from one page. `PostedAsShown`: what is posted is what the
canvas shows, and links to the product the text is about, except for the causes it names. Only
safety is checked here, so no fairness is assumed. Wording of suggestions and the clipboard are left out.

### Stock, Discovery, Inventory and Catalog

| variable | code |
| --- | --- |
| `stock` | `products`: the status of a product, or none; lists are ordered by number |
| `run`, `image`, `token`, `settings` | the discovery session: draft and committed parameters, `lastRunStatus`, `lastResponse`; `imageSearchInput`; whether anything was run; whether the settings have come |
| `cache` | the search queries, by key |
| `imported`, `selected`, `busy`, `task`, `newest` | `importedIds`, `selectedIds`, `batchBusy`, loops and imports under way, the latest call of `useImportProduct` |
| `filter`, `pageNo`, `books`, `previous` | the product list: its key, its cache entries, the data `keepPreviousData` shows |
| `chosen`, `active`, `doomed`, `job`, `latest` | selection, drawer, `deleteTargets`, loops under way and the call `isPending` is about |
| `adrift`, `unsure`, `resized`, `marred` | history: the causes the properties admit |

`Show` is a change of what is observed together with the effects of `DiscoveryView` that follow it in the
same render. A list that comes into view is fetched when unknown, invalid or by its age: the age
(`staleTime`) is a free choice. Window focus does not refetch (`providers.tsx` turns it off);
reconnection and garbage collection of the cache are left out, as are the search inside the results,
columns, export, page size and sorting. The page that is left keeps its loops running, without its
callbacks.

Run `catalog`: two products, two modes, a picture, two pages of results and two loops at a time, in
the starts of `MCStarts`, each of which has the kinds of step that interact (two runs and leaving the
page, two loops and a failure, a deletion by somebody else, and so on). `RunIsTruthful`: a session that
says "running" is waiting for its answer, and a stored answer is that of the run. `ViewIsCurrent`: a list
at rest is the server's, and is empty only for a reason. `CatalogInv`: types; loops of the selection bar
exclude each other; a product marked as imported, or asked about by the dialog, exists. Each names the
causes the code has for the contrary, and TLC shows there are no others.

### QueryCache, Connections, WorkspaceSettings and Administration

`QueryCache` is one entry of TanStack Query: its data, whether they are invalid, its request, and as
history whether something changed that the browser was not told of. It is external code: what it does is
modelled from how the hooks use it.

| variable | code |
| --- | --- |
| `row` | `telegram_channels` and `facebook_pages`: there, id, active, last verdict (rights, or validity of the token), token |
| `sound` | what Telegram and Facebook would answer |
| `books`, `sheet` | the lists and the settings in the cache |
| `calls`, `latest`, `typed` | requests to change a connection, at the load, the consultation, the commit or the answer; the call each `isPending` is about; the replacement token being typed |
| `saved` | the row of `workspace_settings`, created by the first save |
| `page`, `form`, `entered`, `saves`, `pending` | the open section, its form, what was entered, PATCH requests under way, the spinning button |
| `meant`, `crossed`, `orphaned`, and `overtaken`, `late` of a save | history: the token a verdict is about, and causes |

`Flushed` and `ChangedRow` write only the columns that differ from what the request had loaded, as
SQLAlchemy does. A failed request to Telegram or Facebook is taken for a "no", as the code takes it. The
zod schemas only refuse, so a form that they find invalid is not sent and not modelled; one field they let
through more than the server takes, the AliExpress language (`Texts`, `Accepted`), and a request with it is
answered 422 before the service sees it (`RejectSettings`). A save that is accepted looks for its channel
(`FindChannel`), reads the row (`LoadSettings`) and then writes. Who is a member of the workspace is fixed; lists are shorter than their limit of 20.

A channel or a page that was removed and registered again is another row: requests name a row by its
`id`, and the default channel of the settings is such a reference (`References`, `Exists`), as the UUIDs
of the code are. `StartsAssumption` says which databases a behaviour may start from: rows of the right
shape, and a default channel that exists. `NoneIsNoForm` says that "no form" is not a form.

Run `admin`: one channel, one page, two tokens, two requests and two saves at a time, another
administrator, in the starts of `MCStarts`; one connection of each kind is enough because requests interact
through one row, or through the default channel. `CachesAreCurrent`: what the browser keeps is what the
rows are. `SaveChangesOnlyEdits`: a save from a form that was up to date changes what the user entered and
nothing else. `VerdictIsOfToken`: a verdict on a page is about the token the page has. `AdminInv`: types;
"saved" means written; a save of the forms is refused only if another one created the row first, a channel
was removed, or its user entered a language that the request's schema refuses (`RefusalHasCause`, so no
other value of a form that zod accepts is refused); the default channel exists. Only safety is checked.

In `board`, `studio`, `catalog` and `admin` the user may stop clicking once the budget is used up, hence
`CHECK_DEADLOCK FALSE`.

### Where the code and its documents part

`stale_snapshot` checks one sentence of the repository, and TLC finds the behaviour that breaks it: the
claim does not re-read the payload under the lock. The quotation is in `PROJECT.json`.

Observations without a run of their own. In the models these are behaviours that are allowed, and where a
property speaks of them it names them as a cause.

Publishing and events:

* An item deleted during a batch ends the batch (`queue.py:313`), although the comment below says "one
  item's failure must not block the rest of the due/queued batch for this beat tick".
* Celery retries what was dead-lettered (`publishing.py:109`), although `queue.py:58` calls the category
  terminal "after all retry paths are exhausted (or the error is not Celery-retryable)".
* A dead letter moves the item to `failed` (`_mark_item_failed`), while `publishing.py:88` and the attempt
  design say the status is unchanged.
* A published item whose payload was edited passes the guard, is refused as already published after the
  claim, and is dead-lettered to `failed` (`queue.py:185`).
* A send that may have arrived is recorded as `failed`, which guards nothing: the next beat sends again.
  `DuplicatesFollowFailures` says that this is the only way.
* Two PATCH requests, each valid for the row it loaded, leave a scheduled item without a time: the flush
  writes only the columns that changed (`queue.py:773`).
* The requests `_post` repeats share one attempt row, although
  `docs/backend/queue-publish-attempt-design.md:255` asks for one row per send try.
* The retry count of a batch stays 0, so an item whose sends keep failing retryably is attempted at every
  beat; `BatchLimit` such items keep younger ones out (`queue.py:279`).
* DELETE locks an item's attempts before the item, a publisher the other way round (`queue.py:814`):
  PostgreSQL aborts one of the two.
* Events published while the consumer has no Redis session are never made up for: the browsers stay
  connected, and "reconnect invalidation closes gaps"
  (`docs/planning/phase-a2-realtime-operations-design.md:215`) needs a reconnect.
* The first open of a stream does not refresh; an event that meets the first load is absorbed by it; a
  stream refused after its token has expired ends reconnecting and polling. `est`, `absorbed` and the
  status `error` excuse these in `LiveQueue`.

Sign-in:

* A logout beside a refresh, a reload during one, or a duplicated tab make a spent token appear again,
  which ends all sessions of the user. These are the `causes`.
* Reuse detection misses the successor of a rotation that is still open (`refresh_token_repository.py:52`).
* A refresh that answers after logout stores its tokens again; a late `/auth/me` sets the workspace of the
  user before; the 401 of an old request signs out a newer login (`api-client.ts:172`, `workspace.ts:66`).
* INCR and EXPIRE of the rate limiter are two commands: a counter whose EXPIRE is lost never expires
  (`rate_limit.py:111`).

Board:

* A delete loop that fails half way keeps all its targets, so that its second confirmation stops at the
  first item, which is gone (`QueueView.tsx:277`). Loops of edits stop at the first failure.
* The end of a loop clears the selection, with what was selected while it ran.
* A retry marks its item only after its edit: until then it can be published twice. The first of two
  publishes that is answered takes the marker of both, so a third can start beside the second
  (`useQueue.ts:303`).
* `isPending` is that of the latest call: a retry that starts while a loop changes statuses takes it over,
  and when its edit ends, the dialogs count as idle over a loop that is still at work.
* A publish that fails retryably leaves `updated_at`, so its summary is not fetched again, and the open
  board goes on showing the item as ready (`useQueue.ts:115`). A summary that knows a started or an
  earlier attempt takes the place of what the page was told, of any item in the list (`useQueue.ts:332`).

Studio:

* Opened for another product, the source keeps title and link of the one before until the details come;
  title and link of an item are the source's, its product the variant's.
* An emptied canvas posts the old text. A draft that is not saved is lost when an answer arrives; an
  answer with the same text moves it to the new variant.
* When the item is created and its publication fails, a second click creates a second item.
* Leaving the page drops the text asked for; the session outlives a logout.

Discovery and products:

* Retry after a failed search asks for the same key again, so nothing is fetched, although
  `docs/frontend/11-workspace-design-system.md:153` says "Failure message + retry".
* A picture searched again, or a page left during a run, stays "running" (`DiscoveryView.tsx:210`, `:369`).
* A batch import marks all of its products, those that failed too (`DiscoveryView.tsx:260`); deleted
  products stay marked.
* A loop started in a row frees the flag of the bar (`DiscoveryView.tsx:286`); row buttons have none.
* "No products" on a page out of range, with no pager (`ProductsView.tsx:124`); a page turned by the total
  of the list before (`:249`); a deletion that fails midway keeps the deleted ones as targets (`:118`).
* An invalidation cancels neither a first load nor the load of a list out of view (`useProducts.ts:40`).
* Two imports of one product both insert, and the unique constraint refuses one (`product_importer.py:33`).

Settings and connections:

* Two first saves both insert, and one is answered 500 (`workspace_settings.py:107`).
* A save sends all fields of its section, so it overwrites what another administrator changed meanwhile,
  and a timezone the list does not have (`WorkspaceSettingsView.tsx:182`, `:74`).
* The answer of a save does not cancel a fetch under way, whose older snapshot is then shown and saved
  again (`useWorkspaceSettings.ts:31`); a fetch that fails replaces the form with its edits (`:98` of the
  view).
* A validation that crosses a replacement of the token records the old token's verdict
  (`facebook_page.py:100`). A later validation that gets the same verdict writes nothing, so the verdict
  stays that of the old token until one differs or the token is replaced. When the cipher fails, the mark of invalidity is rolled back with the rest.
* The form has the AliExpress language by its length (`schemas.ts:66`), the server by its letters
  (`app/schemas/workspace_settings.py:91`): "E1" or "en-US" is sent and answered 422, which the view shows
  at the field (`WorkspaceSettingsView.tsx:265`). The model takes the environment's default language, which
  is shown while there is no row, to be of letters.
* A transient failure of Telegram or Facebook is recorded as a "no".

## Proofs

The eight proof modules extend the modules they are about. Nearly every safety property of the runs on
these components is the statement of a theorem; `PROJECT.json` lists them with the property each is about.

### Publishing

`PublishQueue_proofs` proves, for every value of the constants that satisfies `PublishAssumption` and
`RowAssumption` (a row is not NULL):

* `TypeCorrect`: `Spec => []TypeOK`.
* `ClaimsCorrect`, and from it `GuardsNeverOverlap` and `NumbersHaveNoGap` (`AttemptsNumbered`, a part
  of `ClaimInv`).
* `PublisherImplementsLedger`: `Spec => LedgerSpec`.

`GuardWindowsDisjoint` is not inductive. A claim is written from what the session saw when it took the
lock, so the invariant must say that this is still so (`GuardIsCurrent`: while a session is at `"guard"`
it holds the lock, its number is the next one and no guard's window reaches past its `now`), that nobody
else appends meanwhile (the lock), that outcomes are written only by the owner of the attempt
(`ClaimsAreOwned`), and that a deleted id does not come back (`IdsHandedOut`). `ClaimInv` is their
conjunction; it is inductive together with `TypeOK`, which needs it in turn because the type of
`NextNumber` is known only when the numbers are 1..n. The proof has one step per action; actions that
leave attempts alone, settle one, or append one are covered by `QuietStep`, `SettleKeepsClaims` and
`GrowingStep`. The refinement maps `ClaimAttempt` to `Open`, `RecordSuccess` and `RecordFailure` to
`Settle`, `DeleteItem` to `Forget`, `Tick` to `Pass` and every other step to a stutter.

It proves from these, under the same assumptions:

* `PostsAreClaimed` (`PostsMatchAttempts`), `StartedHaveOwners` (`StartedIsOwned`) and
  `SendersHoldNoLock` (`NoLockWhileSending`), all parts or consequences of `DeliveryInv`.
* `RepeatsFollowFailures` (`DuplicatesFollowFailures`).
* `RowsAreBacked` (`RowsBackedByAttempts`).

`DeliveryInv` adds what links a session to its posts: the claim it sends under has its payload and time
(`SendsWhatItClaimed`), a session that was accepted has its post in the chat (`AcceptedIsDelivered`), and
posts belong to ids already handed out, so that a deleted item cannot come back with them
(`PostsHaveAttempts`). A step of a session either leaves an item without a claim (`Leaves`), claims, talks
to Telegram or settles; each kind has its lemma. That a repeated post follows a failure needs in addition
`GuardsExpireFirst`, an attempt is made only after the window of each earlier guard of its payload, which
is proved of the ledger alone and carried over by the refinement (`StepRefines`). For the rows,
`BackingInv` adds that the attempt a repair rests on is still there (`BlocksStand`), that whoever is about
to fail an item has dead-lettered an attempt of it (`DeadLettersStand`), and that a settled attempt never
changes while its item lives (`SettledStay`).

### Transport and events

`TelegramPublisher_proofs` proves, for every text, all limits and any number of retries and calls:

* `OrderCorrect`: `Spec => []ChunksFollowInOrder`.
* `ResultCorrect`: `Spec => []ResultIsWholePost`.
* `PostCorrect`: `Spec => []PostInv`.
* `CutsOnlyDropNewlines`: `Spec => CutsDropNewlines`.
* `PostsAreWhole`: `Spec => []NothingTruncated`.

`ChunksFollowInOrder` speaks of the chat alone and is not inductive: what keeps it is that a chunk is
requested only when its predecessor has been seen in the chat, and that this is so for the requests that
were given up as well (`SendsAreDue`). Messages never leave the chat, so what was due stays due. The result
needs where the answered chunks are (`AcksPointAtChunks`) and that they are as many as chunks passed
(`AcksAreComplete`). `TransportInv` is the conjunction; the three ways a chunk gets into the chat are
`AcceptedStep`, `FailingStep` and `ArrivingStep`, all by `GrowingChat`. The copies of a chunk are bounded
by an account (`CopiesAreRequests`): copies in the chat, requests that may still arrive and the one under
way are never more than the requests that the publishes so far made. `NothingTruncated` is
inductive with the shape of the text: the witness of the next state is that of the last one and one more
position, by `CutsDropNewlines` and because a stretch of the remainder is one of the post
(`CutTruncatesNothing`, `StretchOfStretch`).

`LiveQueue_proofs` proves under `EventAssumption` and the assumptions of `LiveQueue`, for any publishers,
connections, tabs and buffers:

* `StreamsHaveNoGap`: `EventSpec => []EventInv`. `Gapless`: written, being written and buffered together
  are what is due; a closed connection keeps a prefix of it.
* `QuietViewsAreCurrent`: `LiveSpec => []LiveInv`. A change in a frame the tab was sent is shown or on its
  way (`Covered`: the timer runs, a fetch is asked, or answered with it), or one of the causes keeps it out.

### Sign-in

`BrowserSession_proofs` proves, for any number of tabs, requests, users, logins and tokens that satisfies
`MaxTokensAssumption`, `LoginsAssumption` and `SessionAssumption`:

* `RotationsExclude`: `SessionSpec => []RotationInv`.
* `SessionImplementsLineage`: `SessionSpec => LineageSpec`.

A tab reaches the rows only through its calls, so all its steps are quiet: they put one call that is not
a transaction under way in the place of another, or none. `TokenInv` is `RotationInv` with the shape of
calls and rows and with `CallsSeeRows`: the rows a revocation saw when it started are committed, and stay
so, hence it never meets the successor of an open rotation. The refinement maps a login to `Begin`,
`CommitRotation` to `Exchange`, `RevokeAll` and `LogOut` to `End`, and every other step to a stutter.

Of the tabs it proves, under the same assumptions:

* `HeadersMatchTokens`: `SessionSpec => []SessionInv`.
* `SignOutsAreFinal`: `SessionSpec => []SignOutIsFinal`.
* `ReuseHasItsCause`: `SessionSpec => []ReuseHasCause`.

Their invariant `SignedInInv` has four ideas. Every token that is about was issued for a login
(`TokensAreIssued`). Unless something outlived a sign-out, a tab and all that is under way for it belong to
one user (`OneUserInv`). A tab that was signed out with nothing under way holds nothing (`SignedOutInv`).
And as long as none of the causes has happened, a token is held by one tab, in its store or in its refresh
in flight, and is spent only while that refresh is being answered (`HeldOnce`, `Unused`): that is what
rules out a token presented twice.

### The board

`QueueBoard_proofs` proves, for any number of items, operations under way, page sizes and rows:

* `BoardCorrect`: `BoardSpec => []BoardInv`.
* `SummariesStayFresh`: `BoardSpec => []SummariesAreFresh`.
* `FailuresStayShown`: `BoardSpec => []FailuresAreShown`.
* `MarkersLast`: `BoardSpec => MarkedUntilAnswered`, the safety half of `MarkersAreTrue`.

`BoardIInv` has five layers. `BoardTypes` is the shape of the state, with what the step of a loop says of
the rest of it (`JobFits`). `LoopInv`: an item that no retry has spoilt has one publish, with its marker,
and a dialog that is about to publish it finds it idle; `isPending` is true of the one wide loop. `AgeInv`:
what the page holds of an item, or is about to, is never newer than the row, and never older than the
list; a summary is asked for once. `FailureInv`: attempts are never taken back (`AttemptsStay`);
what was read of the version that a failure gave its row knows the failure
(`FailuresAreRead`); what the page was told is among its failures or a summary took its place
(`ToldIsKnown`). `PageInv`: unless the list got shorter, the page has rows. Two conjuncts of
`BoardInv` were stronger at first and true of TLC's instance; the proof did not go through, for the good
reason given under the observations, and both now name the retry as the cause.

### Settings and connections

`Administration_proofs` proves, for any channels, pages, tokens, requests and saves, from every start that
satisfies `StartsAssumption`:

* `AdministrationCorrect`: `AdminSpec => []AdminInv`.
* `CachesStayCurrent`: `AdminSpec => []CachesAreCurrent`.
* `VerdictsAreOfTokens`: `AdminSpec => []VerdictIsOfToken`.
* `SavesChangeOnlyEdits`: `AdminSpec => SaveChangesOnlyEdits`.

`AdminIInv` is one invariant for the connections and one for the settings. For the connections: a request
that is told has the verdict its kind needs (`FitRequest`); a list under way that met no change is the
table (`ListFits`); a list at rest is the table or an answer that will invalidate it is on its way. For the
settings: what the browser has was written as often as its revision says and agrees with the row, but for a
removed channel (`Agrees`); a value that the schema refuses was entered (`SentFits`),
and a save that reached the service has none; one that was not overtaken loaded the row that there is
(`LoadedFits`); what
it sends differs from the row it was filled from in the fields entered (`SendsEdits`), which holds because
the form shows the cached settings in all other fields (`FormFits`). A reference to a channel that the
browser has was true once, and is true unless a channel was removed (`Known`); ids are not used again
(`RowsMove`), so that what is gone stays gone. Both halves change in one step only when a channel is
removed: `CommitMoves` and `ChannelGoes` say how, `KnownStays`, `AgreesStays` and `SavePasses` that
everything outlives it.

### The studio

`ContentStudio_proofs` proves, for any products, texts, edits, jobs and budgets that satisfy
`StudioAssumption` (there are settings; blank is a text that the user may write and the service does not):

* `StudioCorrect`: `StudioSpec => []StudioInv`.
* `PostsAreAsShown`: `StudioSpec => PostedAsShown`.
* `DocumentsKeepLines`: `StudioSpec => []DocumentKeepsLines`.

`StudioIInv` has one part for each of the source, the variants with the canvas, the requests and the jobs.
`EditsStay` is not inductive alone: an answer with the very same text may take the place of the variant
that is edited, and then the draft is saved to the answer, so the invariant keeps a variant with the number
of the draft and the text of the active one (`DraftHasVariant`). A canvas that has not the focus shows
the active variant unless it was emptied (`DraftIsShown`), which is what a click on the hub posts. The link
of the source is its product's, or none, or the product was handed over and its details have not come
(`LinkFits`). A request the page waits for was made in this era (`RequestInv`). Jobs begin with `Post`
only (`OnlyPostsBegin`); `Post` is refused while one is shown, and a job that is left stays left
(`JobGoesOn`).

`DocumentKeepsLines` holds for every text (`DocumentIs`), whatever the session does. `ReadingIs` unfolds the
loop of the parser, whose function exists by a least counterexample; its invariant (`ReadingKeeps`) is that
a paragraph and a list are never open together, and that the blocks, with the open one closed, are the
lines read so far. A turn leaves the blocks, adds one or makes the last one longer (`TurnReads`), and either
way the new line is the last (`LastLineKept`).

### The catalog

`Catalog_proofs` proves, for any products, modes, pictures, pages, page size, answers, loops and starts that
satisfy `DiscoveryAssumption`, `InventoryAssumption` and `StartsAssumption` (there is a mode besides the one
of the settings; products are numbered; a start gives every product a status and opens one of the pages):

* `CatalogCorrect`: `CatalogSpec => []CatalogInv`.
* `RunsAreTruthful`: `CatalogSpec => []RunIsTruthful`.
* `ViewsAreCurrent`: `CatalogSpec => []ViewIsCurrent`.

`CatalogIInv` has three parts, which meet in the products alone, so that a step of one leaves the others:

* The search (`PageInv`). A key in view was asked for (`InViewAsked`), so a run can only wait for a request
  that is under way. `ResponseFits` ties a stored answer to the parameters beside it, and needs `HasRun`: a
  picture is searched, and a response kept, only by a session with committed parameters.
* The loops (`TaskInv`). `BarLoopsExclude` is not inductive: who begins a loop looks at the flag, so the
  invariant says who holds it (`BarHoldsFlag`). `ImportedHasCause` needs that what a loop is about to mark
  was imported or is known to be unsure (`ImportsAreStocked`).
* The lists (`ListInv`). `ViewIsCurrent` speaks of settled lists; `ListsFit` speaks of every list and every
  answer on its way, as long as no change is pending whose answer has not been looked at (`Pending`).
  A step of the page keeps that (`BooksFollow`, over each operation on an entry), and a step that ends
  `Pending` puts every list in doubt, by invalidating it or by not telling it (`BooksDoubted`). `AskedAgain`
  brings the list in view back. For the empty page, `ListsGrow` says that totals and the page number stay
  within a status until a deletion, a change of status or a page turned by another list's total, and
  `RankOnto` that every rank below the number of products of a status is the rank of one of them; it is
  proved by a least counterexample.

### Only model-checked

* Liveness: `PublishEnds`, `PublishReturns`, `StreamsGoOn`, `ViewsCatchUp`, `RequestsSettle` and the part of
  `MarkersAreTrue` that says a marker goes. Fairness and ENABLED are out of the prover's reach.

All invariants and action properties of the passing runs are proved. Inductions over data that they need (a
sequence of chunks, the lines of a text, the ranks of a list) are inductive invariants or arguments by a
least counterexample, as the library's induction theorems cannot be instantiated by the provers.

## Not modelled

* The rate limiter and the worker heartbeat: one Redis key each. What can go wrong in the limiter is one
  lost command that nothing repairs (see above); of the heartbeat no component acts.
* Product discovery at the server, recommendations and dashboard: queries, ranking and weighted sums in
  one transaction. What the pages do with the answers is modelled.
* The AliExpress client and the AI providers: signing, parsing, prompts, and sequential retries with
  pauses. Their callers see an answer or a failure, and both are in the models.
* Of the queue API: explicit `null` in a PATCH, the checks of workspace membership, the read models; the
  two row locks of DELETE are one step.
* Of the import: how a product is matched by several keys. An import is one step of `Stock`.
* Scripts, configuration, migrations, and views that render one query.
