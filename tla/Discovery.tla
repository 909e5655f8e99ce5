------------------------------- MODULE Discovery -------------------------------
(***************************************************************************)
(* The discovery page of the frontend (features/discovery): searches by filters   *)
(* and by picture through the query cache, a session in sessionStorage that        *)
(* remembers the last run and what was imported, and the loops that import         *)
(* products or turn them into queue items.                                    *)
(*                                                                         *)
(* A search is a key of the query cache.  The effects of the page run with the    *)
(* step that makes them run: Show.                                           *)
(***************************************************************************)
EXTENDS Naturals, FiniteSets, FiniteSetsExt, Stock

CONSTANTS
    Modes,      \* discovery modes; DefaultMode, of the settings, is one of them
    DefaultMode,
    Subs,       \* filters, and pictures; 1: the default filters, 0: the bare ones of a picture search
    LastPage,   \* bound: pages of every answer
    Answers,    \* the sets of products a search may find
    Tasks       \* bound: loops and imports under way

Pictures == "image"
Bare == 0
Keys == [mode : Modes, sub : Subs \cup {Bare}, page : 1 .. LastPage]
            \cup [mode : {Pictures}, sub : Subs, page : 1 .. LastPage]

ASSUME DiscoveryAssumption ==
    /\ DefaultMode \in Modes /\ Modes # {DefaultMode} /\ Pictures \notin Modes /\ 1 \in Subs /\ Bare \notin Subs /\ LastPage \in Nat \ {0}
    /\ Answers \subseteq SUBSET Finds /\ Tasks \subseteq Nat \ {0} /\ IsFiniteSet(Tasks)
    /\ None \notin Keys

VARIABLES
    run,        \* the session: draft and committed parameters, lastRunStatus, lastResponse
    imported,   \* importedIds
    image,      \* imageSearchInput
    token,      \* runToken > 0
    settings,   \* the workspace settings have been loaded
    cache,      \* the query cache: of a key, its last answer, and whether it is being fetched
    selected,   \* selectedIds
    busy,       \* batchBusy
    task,       \* loops and imports under way
    newest,     \* the latest import of one product (useImportProduct)
    adrift,     \* the last run was not watched: its page was left, or it repeated a picture
    unsure      \* products deleted, or failed in an import of several

searching == <<run, image, token, settings, cache, adrift>>
working == <<busy, task, newest>>
discovery == <<searching, imported, selected, working, unsure>>

FirstDraft == [mode |-> CHOOSE m \in Modes : m # DefaultMode, sub |-> 1, page |-> 1]
NoResponse == [key |-> None, items |-> {}]
NotAsked == [st |-> "none", items |-> {}, known |-> FALSE, fetching |-> FALSE]
NoTask == [kind |-> "none", from |-> "none", all |-> {}, todo |-> {}, call |-> "none", shared |-> FALSE,
           shown |-> FALSE]

-----------------------------------------------------------------------------
(* What is searched and shown *)

\* The key the page observes: its picture, or the committed parameters after a first run
Observed(r, pic, tok) ==
    IF pic # None THEN pic ELSE IF tok /\ r.committed # None THEN r.committed ELSE None

Items(r, pic, c) ==
    CASE pic # None -> c[pic].items
      [] pic = None /\ r.committed # None /\ c[r.committed].st = "ok" -> c[r.committed].items
      [] OTHER -> r.response.items

Success(r, key, items) ==
    LET params == IF key.mode # Pictures THEN r.committed
                  ELSE [mode |-> r.committed.mode, sub |-> Bare, page |-> key.page]
    IN [r EXCEPT !.committed = params, !.draft = params, !.status = "success",
                 !.response = [key |-> key, items |-> items]]

\* A failed search is not noticed
SuccessOnly(r, key, c) ==
    IF key # None /\ ~c[key].fetching /\ c[key].st = "ok" THEN Success(r, key, c[key].items) ELSE r

\* The effects that end a run
Settled(r, key, c) ==
    CASE key = None -> r
      [] key # None /\ c[key].fetching -> r
      [] key # None /\ ~c[key].fetching /\ c[key].st = "ok" -> Success(r, key, c[key].items)
      [] key # None /\ ~c[key].fetching /\ c[key].st = "error" -> [r EXCEPT !.status = "error"]
      [] OTHER -> r

\* A key that comes into view is fetched unless it has a fresh answer
Fetches(old, key) ==
    CASE key = None \/ key = old -> {cache}
      [] key # None /\ key # old /\ cache[key].fetching -> {cache}
      [] key # None /\ key # old /\ ~cache[key].fetching ->
            {[cache EXCEPT ![key].fetching = TRUE]} \cup (IF cache[key].known THEN {cache} ELSE {})

\* The effect on the items
Kept(S, r, pic, c) == S \cap Items(r, pic, c)

\* A new session, picture and token, and everything that follows from them
Show(r, pic, tok, S) ==
    /\ image' = pic /\ token' = tok
    /\ cache' \in Fetches(Observed(run, image, token), Observed(r, pic, tok))
    /\ run' = Settled(r, Observed(r, pic, tok), cache')
    /\ selected' = Kept(S, run', pic, cache')

Running(params) ==
    [run EXCEPT !.committed = params, !.draft = params, !.status = "running"]

\* The mode of the settings, until the first run
WithDefault(r, known) ==
    IF known /\ r.committed = None /\ r.response = NoResponse
    THEN [r EXCEPT !.draft.mode = DefaultMode] ELSE r

Unrelated == UNCHANGED <<stock, imported, working, unsure, settings>>

\* runDiscovery: the button of the header, the pages and the refresh of the results
RunWith(params) ==
    /\ Use("runs") /\ Show(Running(params), None, TRUE, {}) /\ adrift' = FALSE /\ Unrelated

\* The key whose data is shown, also before the first run on this page
Looked == IF image # None THEN image ELSE run.committed
Fetching == Looked # None /\ cache[Looked].fetching

\* The header waits for the answer under way, the drawer of the filters does not
RunDraft == RunWith([run.draft EXCEPT !.page = 1])
RefreshResults == image = None /\ ~Fetching /\ run.committed # None /\ RunWith(run.committed)

Known == Looked # None /\ cache[Looked].known
PageShown == IF Known THEN Looked.page ELSE run.response.key.page

TurnPage(p) ==
    /\ (Known \/ run.response # NoResponse) /\ p \in 1 .. LastPage /\ p \in {PageShown - 1, PageShown + 1}
    /\ IF image = None THEN RunWith([run.committed EXCEPT !.page = p])
       ELSE Use("runs") /\ Show(run, [image EXCEPT !.page = p], token, selected)
            /\ adrift' = (adrift /\ run'.status = "running") /\ Unrelated

\* runImageSearch: the same picture again is no new search, only a new status
SearchPicture(n) ==
    LET key == [mode |-> Pictures, sub |-> n, page |-> 1]
        r   == Running([mode |-> run.draft.mode, sub |-> Bare, page |-> 1])
        again == key = image /\ run.committed.mode = run.draft.mode
    IN /\ Use("runs")
       /\ IF again THEN run' = r /\ selected' = {} /\ UNCHANGED <<image, token, cache>>
          ELSE Show(r, key, token, {})
       /\ adrift' = (again /\ ~Fetching)
       /\ Unrelated

\* Refetch
RefreshPicture ==
    /\ Use("runs") /\ image # None /\ ~Fetching
    /\ cache' = [cache EXCEPT ![image].fetching = TRUE]
    /\ UNCHANGED <<run, image, token, selected, adrift>> /\ Unrelated

BackToDiscovery ==
    /\ image # None /\ ~Fetching /\ cache[image].st = "ok" /\ cache[image].items = {}
    /\ Show([run EXCEPT !.draft = [@ EXCEPT !.sub = 1, !.page = 1]], None, token, selected)
    /\ adrift' = (adrift /\ run'.status = "running")
    /\ UNCHANGED allowance /\ Unrelated

\* updateDraft; the effect on the settings' mode, and that on the picture, which runs for every mode
SetDraft(d) ==
    /\ Use("clicks") /\ d # run.draft
    /\ LET r == WithDefault([run EXCEPT !.draft = d], settings)
       IN run' = IF r.draft.mode # run.draft.mode THEN Settled(r, image, cache) ELSE r
    /\ adrift' = (adrift /\ run'.status = "running")
    /\ UNCHANGED <<image, token, cache, selected>> /\ Unrelated

SwitchMode(m) == SetDraft([run.draft EXCEPT !.mode = m, !.page = 1])
SetFilters(n) == SetDraft([run.draft EXCEPT !.sub = n])
ResetFilters == SetDraft([run.draft EXCEPT !.sub = 1, !.page = 1])

SettingsArrive ==
    /\ ~settings /\ settings' = TRUE /\ run' = WithDefault(run, TRUE)
    /\ UNCHANGED <<stock, imported, image, token, cache, selected, working, adrift, unsure, allowance>>

Shows(key) == key = Observed(run, image, token)

\* The answer to a search is kept under its key
SearchAnswers(key) ==
    /\ cache[key].fetching
    /\ \/ \E items \in Answers :
              cache' = [cache EXCEPT ![key] = [st |-> "ok", items |-> items, known |-> TRUE, fetching |-> FALSE]]
              /\ UNCHANGED allowance
       \/ Use("failures")
          /\ cache' = [cache EXCEPT ![key].st = "error", ![key].fetching = FALSE]
    /\ run' = IF Shows(key) THEN Settled(run, key, cache') ELSE run
    /\ selected' = Kept(selected, run', image, cache')
    /\ adrift' = (adrift /\ run'.status = "running")
    /\ UNCHANGED <<image, token>> /\ Unrelated

\* The page is left; requests and loops go on without it
CloseDiscovery ==
    /\ image' = None /\ token' = FALSE /\ selected' = {} /\ busy' = FALSE /\ newest' = None
    /\ task' = [t \in Tasks |-> [task[t] EXCEPT !.shown = FALSE]]
    /\ adrift' = (run.status = "running")
    /\ UNCHANGED <<run, settings, cache, imported, unsure>>

-----------------------------------------------------------------------------
(* Selection *)

Visible == Items(run, image, cache)

Select(S) ==
    selected' = S /\ UNCHANGED <<stock, searching, imported, working, unsure, allowance>>

Toggle(f) ==
    f \in Visible /\ Select(IF f \in selected THEN selected \ {f} ELSE selected \cup {f})

ToggleAll == Visible # {} /\ Select(IF selected = Visible THEN {} ELSE Visible)
ClearSelection == selected # {} /\ ~busy /\ Select({})

-----------------------------------------------------------------------------
(* Imports and loops *)

\* setBatchBusy(true)
NowBusy == TRUE

Begin(kind, from, S) ==
    /\ Use("tasks") /\ \E t \in Tasks : task[t] = NoTask
    /\ LET t == Min({u \in Tasks : task[u] = NoTask}) IN
       /\ task' = [task EXCEPT ![t] = [kind |-> kind, from |-> from, all |-> S, todo |-> S, call |-> "sent",
                                       shared |-> FALSE, shown |-> TRUE]]
       /\ newest' = IF kind = "import" THEN t ELSE newest
    /\ busy' = IF kind = "import" THEN busy ELSE NowBusy
    /\ UNCHANGED <<stock, searching, imported, selected, unsure>>

\* The button of a row, and of the inspector
ImportOne(f) ==
    /\ f \in Visible /\ f \notin imported
    /\ newest # None => task[newest].all # {f}
    /\ Begin("import", "row", {f})

AddOne(f) == f \in Visible /\ Begin("queue", "row", {f})

\* The selection bar
BarReady == selected # {} /\ ~busy
ImportSelected == BarReady /\ Begin("importAll", "bar", selected)
AddSelected == BarReady /\ Begin("queue", "bar", selected)
GenerateSelected == BarReady /\ Cardinality(selected) > 1 /\ Begin("generate", "bar", selected)

Next1(t) == Min(task[t].todo)

\* An answer; a failure costs an allowance
Reply(t, answer) ==
    /\ task' = [task EXCEPT ![t].call = answer]
    /\ IF answer = "error" THEN Use("failures") ELSE UNCHANGED allowance

\* The server; an answer may be lost
ServeImport(t) ==
    /\ task[t].kind = "import" /\ task[t].call = "sent"
    /\ \E answer \in {"ok", "error"} :
        /\ Reply(t, answer)
        /\ stock' \in {Upserted(task[t].all)} \cup (IF answer = "error" THEN {stock} ELSE {})
    /\ UNCHANGED <<searching, imported, selected, busy, newest, unsure>>

\* Each product on its own; failures are counted in the answer
ServeImportAll(t) ==
    /\ task[t].kind = "importAll" /\ task[t].call = "sent"
    /\ \E S \in SUBSET task[t].all, answer \in {"ok", "error"} :
        /\ Reply(t, answer)
        /\ stock' = Upserted(S) /\ unsure' = unsure \cup (task[t].all \ S)
    /\ UNCHANGED <<searching, imported, selected, busy, newest>>

\* A queue item, or a text and then a queue item
ServeLoop(t) ==
    /\ task[t].kind \in {"queue", "generate"} /\ task[t].call = "sent"
    /\ \E answer \in {"ok", "error"} : Reply(t, answer)
    /\ UNCHANGED <<stock, searching, imported, selected, busy, newest, unsure>>

\* setBatchBusy(false) of this task, whoever else has set it
BusyAfter(t) == IF task[t].kind = "import" \/ ~task[t].shown THEN busy ELSE FALSE

\* finally
Released(t) == BusyAfter(t)

Finish(t) ==
    /\ task' = [u \in Tasks |->
           IF u = t THEN NoTask
           ELSE [task[u] EXCEPT !.shared = @ \/ (task[u] # NoTask /\ task[t].kind # "import")]]
    /\ newest' = IF newest = t THEN None ELSE newest
    /\ busy' = Released(t)

\* Every answer counts
TrackedAlways(t) == IF task[t].shown THEN imported \cup task[t].all ELSE imported

\* trackImported, after the await: not on an error, and not on a page that was left
Tracked(t) ==
    IF task[t].shown /\ task[t].call = "ok" THEN imported \cup task[t].all ELSE imported

ImportEnds(t) ==
    /\ task[t].kind \in {"import", "importAll"} /\ task[t].call \in {"ok", "error"}
    /\ imported' = Tracked(t) /\ Finish(t)
    /\ selected' = IF task[t].kind = "importAll" /\ task[t].call = "ok" /\ task[t].shown
                   THEN {} ELSE selected
    /\ UNCHANGED <<stock, searching, unsure, allowance>>

LoopGoesOn(t) ==
    /\ task[t].kind \in {"queue", "generate"} /\ task[t].call = "ok" /\ Cardinality(task[t].todo) > 1
    /\ task' = [task EXCEPT ![t].todo = @ \ {Next1(t)}, ![t].call = "sent"]
    /\ UNCHANGED <<stock, searching, imported, selected, busy, newest, unsure, allowance>>

LoopEnds(t) ==
    /\ task[t].kind \in {"queue", "generate"}
    /\ \/ task[t].call = "error"
       \/ task[t].call = "ok" /\ Cardinality(task[t].todo) = 1
    /\ Finish(t)
    /\ selected' = IF task[t].call = "ok" /\ task[t].shown THEN {} ELSE selected
    /\ UNCHANGED <<stock, searching, imported, unsure, allowance>>

-----------------------------------------------------------------------------
DiscoveryInit ==
    /\ run = [draft |-> FirstDraft, committed |-> None, status |-> "idle", response |-> NoResponse]
    /\ imported = {} /\ image = None /\ token = FALSE /\ settings = FALSE
    /\ cache = [k \in Keys |-> NotAsked] /\ selected = {} /\ busy = FALSE
    /\ task = [t \in Tasks |-> NoTask] /\ newest = None /\ adrift = FALSE /\ unsure = {}

Search ==
    \/ RunDraft \/ RefreshResults \/ RefreshPicture \/ BackToDiscovery
    \/ \E p \in 1 .. LastPage : TurnPage(p)
    \/ \E n \in Subs : SearchPicture(n) \/ SetFilters(n)
    \/ \E m \in Modes : SwitchMode(m)
    \/ ResetFilters \/ SettingsArrive

Work ==
    \/ \E f \in Finds : Toggle(f) \/ ImportOne(f) \/ AddOne(f)
    \/ ToggleAll \/ ClearSelection \/ ImportSelected \/ AddSelected \/ GenerateSelected

Serve(t) == ServeImport(t) \/ ServeImportAll(t) \/ ServeLoop(t)
ContinueLoop(t) == LoopGoesOn(t) \/ LoopEnds(t)

-----------------------------------------------------------------------------
(* Properties *)

\* The type of the state; only products on the page are selected (useDiscoverySelection).
DiscoveryTypeOK ==
    /\ {run.draft} \cup {run.committed, run.response.key} \subseteq Keys \cup {None}
    /\ run.draft \in Keys /\ run.status \in {"idle", "running", "success", "error"}
    /\ imported \cup unsure \subseteq Finds /\ selected \subseteq Visible
    /\ image \in Keys \cup {None} /\ {token, settings, busy, adrift} \subseteq BOOLEAN
    /\ cache \in [Keys -> [st : {"none", "ok", "error"}, items : SUBSET Finds, known : BOOLEAN,
                       fetching : BOOLEAN]]
    /\ \A t \in Tasks : task[t].todo \subseteq task[t].all /\ task[t].all \subseteq Finds
    /\ newest \in Tasks \cup {None}

\* A session that says it is running waits for an answer that will end the run, unless the
\* page was left during the run, or the same picture was searched again: these stay
\* running (the effects of DiscoveryView, runImageSearch, DiscoverySessionSnapshot).
RunningIsWatched == run.status = "running" => Fetching \/ adrift

\* A stored answer of a successful run is the answer to the parameters stored next to it,
\* however late the answers to earlier ones come (useDiscoveryQuery, markSuccess).
ResponseIsOfRun ==
    run.status = "success" /\ run.response.key.mode # Pictures => run.response.key = run.committed

\* Two loops of the selection bar run at the same time only when a loop that was started in a
\* row has ended meanwhile: they share one flag (batchBusy).
BarLoopsExclude ==
    \A t, u \in Tasks :
        t # u /\ task[t].from = "bar" /\ task[u].from = "bar" /\ task[t].shown /\ task[u].shown =>
            task[t].shared \/ task[u].shared

\* A product marked as imported is in the inventory, unless it was deleted there, or was one
\* of several and failed: the mark is the same (trackImported).
ImportedHasCause == \A f \in imported : stock[f] # "none" \/ f \in unsure

\* What the stored session says of its last run is true: it is under way, or this is its answer.
RunIsTruthful == RunningIsWatched /\ ResponseIsOfRun
=============================================================================
