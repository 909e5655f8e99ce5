----------------------------- MODULE Catalog_proofs -----------------------------
(***************************************************************************)
(* Theorems about the discovery and the products page, for any products, filters,   *)
(* pages, answers, loops and starts: what the stored session says of its last run   *)
(* is true, loops of the bar exclude each other, what is marked as imported is,     *)
(* and a settled list is the server's.                                        *)
(*                                                                         *)
(* The inductive invariant has three parts: the search, the imports and loops, and  *)
(* the list of products.  They meet in the products alone.                      *)
(***************************************************************************)
EXTENDS Catalog, FiniteSetTheorems, WellFoundedInduction, TLAPS

-----------------------------------------------------------------------------
(* The invariant: the search *)

TextKeys == [mode : Modes, sub : Subs \cup {Bare}, page : 1 .. LastPage]
PictureKeys == [mode : {Pictures}, sub : Subs, page : 1 .. LastPage]

Sessions ==
    [draft : TextKeys, committed : TextKeys \cup {None},
     status : {"idle", "running", "success", "error"},
     response : [key : Keys \cup {None}, items : SUBSET Finds]]

Entries == [st : {"none", "ok", "error"}, items : SUBSET Finds, known : BOOLEAN, fetching : BOOLEAN]

\* A picture is searched and a response is kept by a session that has committed parameters
HasRun(r, pic) == pic # None \/ r.response # NoResponse => r.committed # None

\* The response of a successful run is that of a picture or of the parameters next to it
ResponseFits(r) ==
    r.status = "success" =>
        r.response.key \in Keys /\ (r.response.key.mode # Pictures => r.response.key = r.committed)

SearchTypes ==
    /\ run \in Sessions /\ HasRun(run, image) /\ ResponseFits(run)
    /\ image \in PictureKeys \cup {None} /\ {token, settings, adrift} \subseteq BOOLEAN
    /\ cache \in [Keys -> Entries] /\ \A k \in Keys : cache[k].known => cache[k].st # "none"

\* A key in view has been asked for
InViewAsked(key, c) == key # None => c[key].fetching \/ c[key].st # "none"

Looking == Observed(run, image, token)

SearchInv ==
    /\ SearchTypes
    /\ InViewAsked(Looking, cache)
    /\ run.status = "running" /\ ~adrift => Looking # None /\ cache[Looking].fetching

\* Only products on the page are selected
PageInv == SearchInv /\ selected \subseteq Visible

-----------------------------------------------------------------------------
(* The invariant: imports and loops *)

TaskRecords ==
    [kind : {"none", "import", "importAll", "queue", "generate"}, from : {"none", "row", "bar"},
     all : SUBSET Finds, todo : SUBSET Finds, call : {"none", "sent", "ok", "error"}, shared : BOOLEAN,
     shown : BOOLEAN]

Stocked(f) == stock[f] # "none" \/ f \in unsure

TaskTypes ==
    /\ task \in [Tasks -> TaskRecords] /\ \A t \in Tasks : task[t].todo \subseteq task[t].all
    /\ busy \in BOOLEAN /\ newest \in Tasks \cup {None}
    /\ imported \cup unsure \subseteq Finds

\* A loop of the bar holds the flag, unless another one has released it
BarHoldsFlag ==
    \A t \in Tasks : task[t].from = "bar" /\ task[t].shown => task[t].kind # "import" /\ (task[t].shared \/ busy)

\* What is marked, or is about to be, has been imported
ImportsAreStocked ==
    /\ \A f \in imported : Stocked(f)
    /\ \A t \in Tasks : task[t].kind \in {"import", "importAll"} /\ task[t].call = "ok" =>
                            \A f \in task[t].all : Stocked(f)

TaskInv == TaskTypes /\ BarHoldsFlag /\ BarLoopsExclude /\ ImportsAreStocked

-----------------------------------------------------------------------------
(* The invariant: the list of products *)

ListPages == [items : SUBSET Finds, total : Nat]

Lists ==
    [st : {"none", "ok", "error"}, known : BOOLEAN, seen : ListPages, stale : BOOLEAN,
     call : {"none", "sent", "read"}, coming : ListPages, untold : BOOLEAN]

LoopRecords ==
    [kind : {"none", "status", "add", "delete"}, to : Statuses \cup {"none"}, all : SUBSET Finds,
     todo : SUBSET Finds, call : {"none", "sent", "ok", "error"}, shown : BOOLEAN]

ListTypes ==
    /\ stock \in [Finds -> Statuses \cup {"none"}]
    /\ filter \in Filters /\ pageNo \in 0 .. LastPage0 /\ previous \in AllKeys \cup {None}
    /\ books \in [AllKeys -> Lists] /\ \A k \in AllKeys : books[k].st = "ok" => books[k].known
    /\ chosen \subseteq Finds /\ active \in Finds \cup {None} /\ doomed \subseteq Finds
    /\ job \in [Jobs -> LoopRecords]
    /\ \A j \in Jobs : job[j].todo \subseteq job[j].all /\ (job[j].kind = "status" => job[j].to \in Statuses)
    /\ latest \in Jobs \cup {None} /\ resized \in BOOLEAN /\ marred \in BOOLEAN
    /\ open \in {"discovery", "products"}

\* A change was made whose answer has not been looked at
Pending ==
    \/ \E t \in Tasks : task[t].kind \in {"import", "importAll"} /\ task[t].call \in {"ok", "error"}
    \/ \E j \in Jobs : job[j].kind # "add" /\ job[j].call \in {"ok", "error"}

\* A list on its way, and one that is fresh, is the server's until a change is pending
ListFits(k, b) ==
    /\ b.call = "read" /\ ~b.untold => b.coming = PageOf(k)
    /\ b.st = "ok" /\ ~b.untold /\ ~b.stale /\ b.call # "read" => b.seen = PageOf(k)

ListsFit == ~Pending => \A k \in AllKeys : ListFits(k, books[k])

\* An invalidated list in view has been asked for again
AskedAgain(b) == b.st = "ok" /\ b.stale => b.call # "none"

\* Statuses lose products by what resized records only
ListsGrow ==
    ~resized =>
        /\ pageNo = 0 \/ pageNo * Limit < Cardinality(Matches(filter))
        /\ \A k \in AllKeys :
            /\ books[k].known => books[k].seen.total <= Cardinality(Matches(k[1]))
            /\ books[k].call = "read" => books[k].coming.total <= Cardinality(Matches(k[1]))

ListInv ==
    /\ ListTypes /\ ListsFit /\ ListsGrow /\ DialogAsksAboutProducts
    /\ open = "products" => AskedAgain(books[Current])
    /\ open = "products" => chosen \subseteq Shown

CatalogIInv == PageInv /\ TaskInv /\ ListInv

-----------------------------------------------------------------------------
(* The search *)

LEMMA KeysAre ==
    /\ TextKeys \subseteq Keys /\ PictureKeys \subseteq Keys /\ Keys = TextKeys \cup PictureKeys
    /\ None \notin Keys /\ \A k \in TextKeys : k.mode # Pictures
    /\ \A k \in PictureKeys : k.mode = Pictures
    /\ FirstDraft \in TextKeys
<1>1. (CHOOSE m \in Modes : m # DefaultMode) \in Modes
  BY DiscoveryAssumption
<1>2. 1 \in 1 .. LastPage /\ 1 \in Subs
  BY DiscoveryAssumption
<1>3. FirstDraft \in TextKeys
  BY <1>1, <1>2 DEF FirstDraft, TextKeys
<1> QED BY <1>3, DiscoveryAssumption DEF Keys, TextKeys, PictureKeys

\* What the run becomes when its answer is there
Succeeded(r, params, key, items) ==
    [r EXCEPT !.committed = params, !.draft = params, !.status = "success",
              !.response = [key |-> key, items |-> items]]

LEMMA SucceededIs ==
    ASSUME NEW r \in Sessions, NEW params \in TextKeys, NEW key \in Keys, NEW items \in SUBSET Finds
    PROVE  LET s == Succeeded(r, params, key, items) IN
           /\ s \in Sessions /\ s.committed = params /\ s.status = "success"
           /\ s.response.key = key /\ s.response # NoResponse
<1>1. [key |-> key, items |-> items] # NoResponse
  BY KeysAre DEF NoResponse
<1> QED BY <1>1 DEF Succeeded, Sessions

LEMMA SuccessIs ==
    ASSUME NEW r \in Sessions, NEW pic \in PictureKeys \cup {None}, HasRun(r, pic), NEW tok,
           NEW key \in Keys, key = Observed(r, pic, tok), NEW items \in SUBSET Finds
    PROVE  LET s == Success(r, key, items) IN
           /\ s \in Sessions /\ HasRun(s, pic) /\ ResponseFits(s) /\ s.status = "success"
           /\ Observed(s, pic, tok) = key
<1> DEFINE params == IF key.mode # Pictures THEN r.committed
                     ELSE [mode |-> r.committed.mode, sub |-> Bare, page |-> key.page]
           s == Succeeded(r, params, key, items)
<1>1. Success(r, key, items) = s
  BY DEF Success, Succeeded
<1>2. CASE pic # None
  <2>1. key = pic /\ key.mode = Pictures /\ key \in PictureKeys /\ r.committed \in TextKeys
    BY <1>2, KeysAre DEF Observed, HasRun, Sessions
  <2>2. params \in TextKeys
    BY <2>1 DEF TextKeys, PictureKeys
  <2> HIDE DEF params
  <2>3. s \in Sessions /\ s.committed = params /\ s.status = "success" /\ s.response.key = key
    BY <2>2, SucceededIs
  <2> HIDE DEF s
  <2> QED BY <1>1, <1>2, <2>1, <2>2, <2>3, KeysAre DEF HasRun, ResponseFits, Observed
<1>3. CASE pic = None
  <2>1. key = r.committed /\ r.committed # None /\ tok
    BY <1>3, KeysAre DEF Observed
  <2>2. r.committed \in TextKeys /\ params = key /\ params \in TextKeys
    BY <2>1, KeysAre DEF Sessions
  <2> HIDE DEF params
  <2>3. s \in Sessions /\ s.committed = params /\ s.status = "success" /\ s.response.key = key
    BY <2>2, SucceededIs
  <2> HIDE DEF s
  <2> QED BY <1>1, <1>3, <2>1, <2>2, <2>3, KeysAre DEF HasRun, ResponseFits, Observed
<1> QED BY <1>2, <1>3

LEMMA FailedIs ==
    ASSUME NEW r \in Sessions
    PROVE  LET s == [r EXCEPT !.status = "error"] IN
           /\ s \in Sessions /\ s.committed = r.committed /\ s.response = r.response /\ s.status = "error"
BY DEF Sessions

\* The effects that end a run leave the key in view, and leave a run open only for an answer.
LEMMA SettledIs ==
    ASSUME NEW r \in Sessions, NEW pic \in PictureKeys \cup {None}, HasRun(r, pic), ResponseFits(r), NEW tok,
           NEW c \in [Keys -> Entries], InViewAsked(Observed(r, pic, tok), c)
    PROVE  LET key == Observed(r, pic, tok)
               s   == Settled(r, key, c)
           IN /\ s \in Sessions /\ HasRun(s, pic) /\ ResponseFits(s) /\ Observed(s, pic, tok) = key
              /\ s.status = "running" => r.status = "running" /\ (key = None \/ c[key].fetching)
<1> DEFINE key == Observed(r, pic, tok)
           s   == Settled(r, key, c)
<1>1. key \in Keys \cup {None} /\ None \notin Keys
  BY KeysAre DEF Observed, Sessions
<1>2. CASE key = None \/ (key # None /\ c[key].fetching)
  <2>1. s = r
    BY <1>2 DEF Settled
  <2> QED BY <1>2, <2>1
<1>3. CASE key # None /\ ~c[key].fetching /\ c[key].st = "ok"
  <2>1. s = Success(r, key, c[key].items) /\ key \in Keys /\ c[key].items \in SUBSET Finds
    BY <1>1, <1>3 DEF Settled, Entries
  <2> HIDE DEF s
  <2>2. /\ Success(r, key, c[key].items) \in Sessions /\ HasRun(Success(r, key, c[key].items), pic)
        /\ ResponseFits(Success(r, key, c[key].items)) /\ Success(r, key, c[key].items).status = "success"
        /\ Observed(Success(r, key, c[key].items), pic, tok) = key
    BY <2>1, SuccessIs
  <2> QED BY <2>1, <2>2 DEF s
<1>4. CASE key # None /\ ~c[key].fetching /\ c[key].st = "error"
  <2>1. s = [r EXCEPT !.status = "error"]
    BY <1>4 DEF Settled
  <2> HIDE DEF s
  <2>2. s \in Sessions /\ s.committed = r.committed /\ s.response = r.response /\ s.status = "error"
    BY <2>1, FailedIs
  <2> QED BY <2>2 DEF s, HasRun, ResponseFits, Observed
<1>5. key # None => c[key].fetching \/ c[key].st \in {"ok", "error"}
  BY <1>1 DEF InViewAsked, Entries
<1> QED BY <1>2, <1>3, <1>4, <1>5

\* The cache after a key came into view
LEMMA FetchesAre ==
    ASSUME SearchTypes, NEW old, old # None => InViewAsked(old, cache), NEW key \in Keys \cup {None},
           cache' \in Fetches(old, key)
    PROVE  /\ cache' \in [Keys -> Entries] /\ InViewAsked(key, cache')
           /\ \A k \in Keys : cache'[k].known => cache'[k].st # "none"
<1>1. cache \in [Keys -> Entries] /\ (\A k \in Keys : cache[k].known => cache[k].st # "none") /\ None \notin Keys
  BY KeysAre DEF SearchTypes
<1>2. CASE cache' = cache
  <2>1. CASE key = None \/ key = old \/ cache[key].fetching \/ cache[key].known
    BY <1>1, <1>2, <2>1 DEF InViewAsked
  <2>2. CASE key # None /\ key # old /\ ~cache[key].fetching /\ ~cache[key].known
    <3>1. cache' = [cache EXCEPT ![key].fetching = TRUE] /\ key \in Keys
      BY <2>2 DEF Fetches
    <3>2. cache'[key].fetching
      BY <1>1, <3>1 DEF Entries
    <3> QED BY <1>2, <2>2, <3>2
  <2> QED BY <2>1, <2>2
<1>3. CASE cache' # cache
  <2>1. key \in Keys /\ cache' = [cache EXCEPT ![key].fetching = TRUE]
    BY <1>1, <1>3 DEF Fetches
  <2>2. cache[key] \in Entries
    BY <1>1, <2>1
  <2>3. [cache[key] EXCEPT !.fetching = TRUE] \in Entries
    BY <2>2 DEF Entries
  <2>4. cache' \in [Keys -> Entries] /\ cache'[key].fetching
    BY <1>1, <2>1, <2>2, <2>3 DEF Entries
  <2>5. \A k \in Keys : cache'[k].known = cache[k].known /\ cache'[k].st = cache[k].st
    BY <1>1, <2>1, <2>2 DEF Entries
  <2> QED BY <1>1, <2>1, <2>4, <2>5 DEF InViewAsked
<1> QED BY <1>2, <1>3

\* A new session, picture and token, with the effects that follow.
LEMMA ShowKeeps ==
    ASSUME SearchInv, NEW r \in Sessions, NEW pic \in PictureKeys \cup {None}, NEW tok \in BOOLEAN, NEW S,
           HasRun(r, pic), ResponseFits(r), Show(r, pic, tok, S), settings' \in BOOLEAN, adrift' \in BOOLEAN,
           Observed(r, pic, tok) = None /\ run'.status = "running" => adrift'
    PROVE  SearchInv' /\ selected' \subseteq Visible'
<1> DEFINE key == Observed(r, pic, tok)
<1>1. /\ image' = pic /\ token' = tok /\ cache' \in Fetches(Looking, key)
      /\ run' = Settled(r, key, cache') /\ selected' = Kept(S, run', pic, cache')
  BY DEF Show, Looking
<1>2. key \in Keys \cup {None}
  BY KeysAre DEF Observed, Sessions
<1>3. SearchTypes /\ InViewAsked(Looking, cache)
  BY DEF SearchInv
<1>4. /\ cache' \in [Keys -> Entries] /\ InViewAsked(key, cache')
      /\ \A k \in Keys : cache'[k].known => cache'[k].st # "none"
  BY <1>1, <1>2, <1>3, FetchesAre
<1>5. /\ run' \in Sessions /\ HasRun(run', pic) /\ ResponseFits(run') /\ Observed(run', pic, tok) = key
      /\ run'.status = "running" => key = None \/ cache'[key].fetching
  BY <1>1, <1>4, SettledIs
<1>6. Looking' = key
  BY <1>1, <1>5 DEF Looking
<1>7. SearchInv'
  BY <1>1, <1>3, <1>4, <1>5, <1>6 DEF SearchInv, SearchTypes
<1>8. selected' \subseteq Visible'
  BY <1>1 DEF Kept, Visible
<1> QED BY <1>7, <1>8

\* A run that starts
LEMMA RunningIs ==
    ASSUME NEW params \in TextKeys, run \in Sessions, NEW pic \in PictureKeys \cup {None}
    PROVE  /\ Running(params) \in Sessions /\ Running(params).committed = params /\ Running(params).status = "running"
           /\ HasRun(Running(params), pic) /\ ResponseFits(Running(params))
<1>1. Running(params) \in Sessions /\ Running(params).committed = params /\ Running(params).status = "running"
  BY DEF Running, Sessions
<1>2. params # None
  BY KeysAre
<1> QED BY <1>1, <1>2 DEF HasRun, ResponseFits

LEMMA RunKeeps ==
    ASSUME SearchInv, NEW params \in TextKeys, RunWith(params)
    PROVE  SearchInv' /\ selected' \subseteq Visible'
<1>1. Show(Running(params), None, TRUE, {}) /\ adrift' = FALSE /\ settings' = settings
  BY DEF RunWith, Unrelated
<1>2. run \in Sessions /\ settings \in BOOLEAN
  BY DEF SearchInv, SearchTypes
<1>3. /\ Running(params) \in Sessions /\ Running(params).committed = params
      /\ HasRun(Running(params), None) /\ ResponseFits(Running(params))
  BY <1>2, RunningIs
<1>4. Observed(Running(params), None, TRUE) # None
  BY <1>3, KeysAre DEF Observed
<1> HIDE DEF Running
<1> QED BY <1>1, <1>2, <1>3, <1>4, ShowKeeps

LEMMA TurnPageKeeps ==
    ASSUME SearchInv, NEW p \in 1 .. LastPage, TurnPage(p)
    PROVE  SearchInv' /\ selected' \subseteq Visible'
<1>1. SearchTypes /\ run \in Sessions /\ image \in PictureKeys \cup {None}
  BY DEF SearchInv, SearchTypes
<1>2. CASE image = None
  <2>1. run.committed # None
    BY <1>1, <1>2 DEF TurnPage, Known, Looked, SearchTypes, HasRun
  <2>2. run.committed \in TextKeys
    BY <1>1, <2>1 DEF Sessions
  <2>3. [run.committed EXCEPT !.page = p] \in TextKeys
    BY <2>2 DEF TextKeys
  <2> QED BY <1>2, <2>3, RunKeeps DEF TurnPage
<1>3. CASE image # None
  <2> DEFINE key == [image EXCEPT !.page = p]
  <2>1. key \in PictureKeys
    BY <1>1, <1>3 DEF PictureKeys
  <2>2. Show(run, key, token, selected) /\ adrift' = (adrift /\ run'.status = "running") /\ settings' = settings
    BY <1>3 DEF TurnPage, Unrelated
  <2> HIDE DEF key
  <2>3. Observed(run, key, token) # None /\ HasRun(run, key) /\ ResponseFits(run)
    BY <1>1, <1>3, <2>1, KeysAre DEF Observed, HasRun, SearchTypes
  <2>4. {token, settings} \subseteq BOOLEAN /\ adrift' \in BOOLEAN
    BY <1>1, <2>2 DEF SearchTypes
  <2> QED BY <1>1, <2>1, <2>2, <2>3, <2>4, ShowKeeps
<1> QED BY <1>2, <1>3

\* The same picture again is a run of its own only while its answer is still under way.
LEMMA SearchPictureKeeps ==
    ASSUME SearchInv, NEW n \in Subs, SearchPicture(n)
    PROVE  SearchInv' /\ selected' \subseteq Visible'
<1> DEFINE key == [mode |-> Pictures, sub |-> n, page |-> 1]
           params == [mode |-> run.draft.mode, sub |-> Bare, page |-> 1]
           again == key = image /\ run.committed.mode = run.draft.mode
<1>1. SearchTypes /\ run \in Sessions /\ image \in PictureKeys \cup {None} /\ {token, settings} \subseteq BOOLEAN
  BY DEF SearchInv, SearchTypes
<1>2. key \in PictureKeys /\ params \in TextKeys
  <2>1. 1 \in 1 .. LastPage /\ run.draft \in TextKeys
    BY <1>1, DiscoveryAssumption DEF Sessions
  <2> QED BY <2>1 DEF PictureKeys, TextKeys
<1>3. /\ adrift' = (again /\ ~Fetching) /\ settings' = settings
      /\ IF again THEN run' = Running(params) /\ selected' = {} /\ UNCHANGED <<image, token, cache>>
         ELSE Show(Running(params), key, token, {})
  BY DEF SearchPicture, Unrelated
<1> HIDE DEF key, params
<1>4. /\ Running(params) \in Sessions /\ HasRun(Running(params), key) /\ ResponseFits(Running(params))
  BY <1>1, <1>2, RunningIs
<1>5. CASE again
  <2>1. image = key /\ key # None /\ Looking' = key /\ Looking = key /\ Looked = key
    BY <1>2, <1>3, <1>5, KeysAre DEF Looking, Observed, Looked
  <2>2. SearchTypes'
    BY <1>1, <1>3, <1>4, <1>5, <2>1 DEF SearchTypes
  <2> QED BY <1>3, <1>5, <2>1, <2>2 DEF SearchInv, Fetching, InViewAsked
<1>6. CASE ~again
  <2>1. Show(Running(params), key, token, {}) /\ adrift' = FALSE
    BY <1>3, <1>6
  <2>2. Observed(Running(params), key, token) # None
    BY <1>2, KeysAre DEF Observed
  <2> HIDE DEF again
  <2> QED BY <1>1, <1>2, <1>3, <1>4, <2>1, <2>2, ShowKeeps
<1> QED BY <1>5, <1>6

LEMMA RefreshPictureKeeps ==
    ASSUME SearchInv, selected \subseteq Visible, RefreshPicture
    PROVE  SearchInv' /\ selected' \subseteq Visible'
<1>1. /\ SearchTypes /\ image \in PictureKeys /\ image \in Keys /\ image # None
      /\ cache' = [cache EXCEPT ![image].fetching = TRUE] /\ cache \in [Keys -> Entries]
      /\ UNCHANGED <<run, image, token, selected, adrift, settings>>
  BY KeysAre DEF SearchInv, SearchTypes, RefreshPicture, Unrelated
<1>2. [cache[image] EXCEPT !.fetching = TRUE] \in Entries
  BY <1>1 DEF Entries
<1>3. cache' \in [Keys -> Entries] /\ cache'[image].fetching
  BY <1>1, <1>2 DEF Entries
<1>4. \A k \in Keys : cache'[k].known = cache[k].known /\ cache'[k].st = cache[k].st /\ cache'[k].items = cache[k].items
  BY <1>1 DEF Entries
<1>5. SearchTypes'
  BY <1>1, <1>3, <1>4 DEF SearchTypes
<1>6. Looking' = image
  BY <1>1 DEF Looking, Observed
<1>7. Visible' = Visible
  BY <1>1, <1>4 DEF Visible, Items
<1> QED BY <1>1, <1>3, <1>5, <1>6, <1>7 DEF SearchInv, InViewAsked

LEMMA BackKeeps ==
    ASSUME SearchInv, BackToDiscovery
    PROVE  SearchInv' /\ selected' \subseteq Visible'
<1> DEFINE r == [run EXCEPT !.draft = [@ EXCEPT !.sub = 1, !.page = 1]]
<1>1. /\ SearchTypes /\ run \in Sessions /\ image # None /\ ~Fetching
      /\ Show(r, None, token, selected) /\ adrift' = (adrift /\ run'.status = "running") /\ settings' = settings
  BY DEF SearchInv, SearchTypes, BackToDiscovery, Unrelated
<1>2. run.draft \in TextKeys /\ 1 \in Subs /\ 1 \in 1 .. LastPage
  BY <1>1, DiscoveryAssumption DEF Sessions
<1>3. [run.draft EXCEPT !.sub = 1, !.page = 1] \in TextKeys
  BY <1>2 DEF TextKeys
<1>4. r \in Sessions /\ r.committed = run.committed /\ r.response = run.response /\ r.status = run.status
  BY <1>1, <1>3 DEF Sessions
<1> HIDE DEF r
<1>5. HasRun(r, None) /\ ResponseFits(r)
  BY <1>1, <1>4 DEF SearchTypes, HasRun, ResponseFits
<1>6. run.status = "running" => adrift
  BY <1>1 DEF SearchInv, Looking, Observed, Fetching, Looked
<1>7. ASSUME Observed(r, None, token) = None, run'.status = "running" PROVE adrift'
  <2>1. run' = r
    BY <1>1, <1>7 DEF Show, Settled
  <2> QED BY <1>1, <1>4, <1>6, <1>7, <2>1
<1>8. {token, settings} \subseteq BOOLEAN /\ adrift' \in BOOLEAN
  BY <1>1 DEF SearchTypes
<1> QED BY <1>1, <1>4, <1>5, <1>7, <1>8, ShowKeeps

\* The draft is no part of what is searched or shown; a run that has ended is not adrift.
LEMMA DraftKeeps ==
    ASSUME SearchInv, selected \subseteq Visible, run' \in Sessions, run'.committed = run.committed,
           run'.status = run.status, run'.response = run.response, settings' \in BOOLEAN,
           UNCHANGED <<image, token, cache, selected>>, adrift' \in {adrift, adrift /\ run.status = "running"}
    PROVE  SearchInv' /\ selected' \subseteq Visible'
<1>1. Looking' = Looking /\ Visible' = Visible
  BY DEF Looking, Observed, Visible, Items
<1>2. SearchTypes'
  BY DEF SearchInv, SearchTypes, HasRun, ResponseFits
<1> QED BY <1>1, <1>2 DEF SearchInv, InViewAsked

LEMMA WithDefaultIs ==
    ASSUME NEW r \in Sessions, NEW known
    PROVE  LET s == WithDefault(r, known) IN
           s \in Sessions /\ s.committed = r.committed /\ s.status = r.status /\ s.response = r.response
<1>1. r.draft \in TextKeys /\ DefaultMode \in Modes
  BY DiscoveryAssumption DEF Sessions
<1>2. [r.draft EXCEPT !.mode = DefaultMode] \in TextKeys
  BY <1>1 DEF TextKeys
<1> DEFINE s == [r EXCEPT !.draft = [r.draft EXCEPT !.mode = DefaultMode]]
<1>3. s \in Sessions /\ s.committed = r.committed /\ s.status = r.status /\ s.response = r.response
  BY <1>2 DEF Sessions
<1>4. [r EXCEPT !.draft.mode = DefaultMode] = s
  OBVIOUS
<1> HIDE DEF s
<1> QED BY <1>3, <1>4 DEF WithDefault

\* A draft of another mode wakes the effect on the picture.
LEMMA PictureSettles ==
    ASSUME SearchInv, selected \subseteq Visible, image # None, NEW r \in Sessions, r.committed = run.committed,
           r.status = run.status, r.response = run.response, run' = Settled(r, image, cache),
           adrift' = (adrift /\ run'.status = "running"), settings' \in BOOLEAN,
           UNCHANGED <<image, token, cache, selected>>
    PROVE  SearchInv' /\ selected' \subseteq Visible'
<1>1. /\ SearchTypes /\ image \in PictureKeys /\ cache \in [Keys -> Entries] /\ Looking = image
      /\ InViewAsked(image, cache)
  BY DEF SearchInv, SearchTypes, Looking, Observed
<1>2. HasRun(r, image) /\ ResponseFits(r) /\ Observed(r, image, token) = image
  BY <1>1 DEF SearchTypes, HasRun, ResponseFits, Observed
<1>3. /\ run' \in Sessions /\ HasRun(run', image) /\ ResponseFits(run') /\ Observed(run', image, token) = image
      /\ run'.status = "running" => run.status = "running" /\ (image = None \/ cache[image].fetching)
  BY <1>1, <1>2, SettledIs
<1>4. Looking' = image /\ Visible' = Visible
  BY <1>3 DEF Looking, Visible, Items
<1>5. SearchTypes'
  BY <1>1, <1>3 DEF SearchTypes
<1> QED BY <1>1, <1>3, <1>4, <1>5 DEF SearchInv

LEMMA SetDraftKeeps ==
    ASSUME SearchInv, selected \subseteq Visible, NEW d \in TextKeys, SetDraft(d)
    PROVE  SearchInv' /\ selected' \subseteq Visible'
<1> DEFINE r == [run EXCEPT !.draft = d]
           s == WithDefault(r, settings)
<1>1. /\ run \in Sessions /\ settings' \in BOOLEAN /\ adrift \in BOOLEAN
      /\ run' = IF s.draft.mode # run.draft.mode THEN Settled(s, image, cache) ELSE s
      /\ adrift' = (adrift /\ run'.status = "running") /\ UNCHANGED <<image, token, cache, selected>>
  BY DEF SearchInv, SearchTypes, SetDraft, Unrelated
<1>2. r \in Sessions /\ r.committed = run.committed /\ r.status = run.status /\ r.response = run.response
  BY <1>1 DEF Sessions
<1> HIDE DEF r
<1>3. s \in Sessions /\ s.committed = run.committed /\ s.status = run.status /\ s.response = run.response
  BY <1>2, WithDefaultIs
<1> HIDE DEF s
<1>4. CASE image # None /\ s.draft.mode # run.draft.mode
  BY <1>1, <1>3, <1>4, PictureSettles
<1>5. CASE image = None \/ s.draft.mode = run.draft.mode
  <2>1. run' = s
    BY <1>1, <1>5 DEF Settled
  <2> QED BY <1>1, <1>3, <2>1, DraftKeeps
<1> QED BY <1>4, <1>5

LEMMA SettingsKeep ==
    ASSUME SearchInv, selected \subseteq Visible, SettingsArrive
    PROVE  SearchInv' /\ selected' \subseteq Visible'
<1>1. /\ run \in Sessions /\ settings' \in BOOLEAN /\ run' = WithDefault(run, TRUE)
      /\ UNCHANGED <<image, token, cache, selected, adrift>>
  BY DEF SearchInv, SearchTypes, SettingsArrive
<1>2. /\ WithDefault(run, TRUE) \in Sessions /\ WithDefault(run, TRUE).committed = run.committed
      /\ WithDefault(run, TRUE).status = run.status /\ WithDefault(run, TRUE).response = run.response
  BY <1>1, WithDefaultIs
<1> QED BY <1>1, <1>2, DraftKeeps

\* An answer ends the run when its key is in view, and is only kept when it is not.
LEMMA AnswerKeeps ==
    ASSUME SearchInv, NEW key \in Keys, SearchAnswers(key)
    PROVE  SearchInv' /\ selected' \subseteq Visible'
<1>1. /\ SearchTypes /\ run \in Sessions /\ image \in PictureKeys \cup {None} /\ cache \in [Keys -> Entries]
      /\ HasRun(run, image) /\ ResponseFits(run) /\ key # None
  BY KeysAre DEF SearchInv, SearchTypes
<1>2. /\ run' = (IF key = Looking THEN Settled(run, key, cache') ELSE run)
      /\ selected' = Kept(selected, run', image, cache') /\ adrift' = (adrift /\ run'.status = "running")
      /\ UNCHANGED <<image, token, settings>>
  BY DEF SearchAnswers, Shows, Looking, Unrelated
<1>3. /\ cache' \in [Keys -> Entries] /\ ~cache'[key].fetching /\ cache'[key].st \in {"ok", "error"}
      /\ \A k \in Keys \ {key} : cache'[k] = cache[k]
  <2>1. PICK e \in Entries : cache' = [cache EXCEPT ![key] = e] /\ ~e.fetching /\ e.st \in {"ok", "error"}
    <3>1. ASSUME NEW items \in Answers
          PROVE  [st |-> "ok", items |-> items, known |-> TRUE, fetching |-> FALSE] \in Entries
      BY DiscoveryAssumption DEF Entries
    <3>2. [cache[key] EXCEPT !.st = "error", !.fetching = FALSE] \in Entries
      BY <1>1 DEF Entries
    <3>3. [cache[key] EXCEPT !.st = "error", !.fetching = FALSE].st = "error"
          /\ ~[cache[key] EXCEPT !.st = "error", !.fetching = FALSE].fetching
      BY <1>1 DEF Entries
    <3>4. [cache EXCEPT ![key].st = "error", ![key].fetching = FALSE]
            = [cache EXCEPT ![key] = [cache[key] EXCEPT !.st = "error", !.fetching = FALSE]]
      BY <1>1
    <3> QED BY <3>1, <3>2, <3>3, <3>4 DEF SearchAnswers
  <2> QED BY <1>1, <2>1
<1>4. Observed(run, image, token) = Looking
  BY DEF Looking
<1>7. Looking # None => Looking \in Keys
  BY <1>1, KeysAre DEF Looking, Observed, Sessions
<1>5. InViewAsked(Looking, cache')
  BY <1>1, <1>3, <1>7 DEF SearchInv, InViewAsked
<1>6. SearchTypes' /\ Looking' = Looking /\ (run'.status = "running" => run.status = "running" /\ key # Looking)
  <2>1. CASE key = Looking
    <3>1. /\ run' \in Sessions /\ HasRun(run', image) /\ ResponseFits(run') /\ Observed(run', image, token) = Looking
          /\ (run'.status = "running" => key = None \/ cache'[key].fetching)
      BY <1>1, <1>2, <1>3, <1>4, <1>5, <2>1, SettledIs
    <3> QED BY <1>1, <1>2, <1>3, <3>1 DEF SearchTypes, Looking
  <2>2. CASE key # Looking
    BY <1>1, <1>2, <1>3, <2>2 DEF SearchTypes, Looking
  <2> QED BY <2>1, <2>2
<1>8. SearchInv'
  BY <1>2, <1>3, <1>5, <1>6, <1>7 DEF SearchInv, InViewAsked
<1>9. selected' \subseteq Visible'
  BY <1>2 DEF Kept, Visible
<1> QED BY <1>8, <1>9

\* The page is left: nothing is in view, and a run that was under way is adrift.
LEMMA CloseKeeps ==
    ASSUME SearchInv, CloseDiscovery
    PROVE  SearchInv' /\ selected' \subseteq Visible'
<1>1. /\ image' = None /\ token' = FALSE /\ selected' = {} /\ adrift' = (run.status = "running")
      /\ UNCHANGED <<run, settings, cache>>
  BY DEF CloseDiscovery
<1>2. Looking' = None
  BY <1>1 DEF Looking, Observed
<1>3. SearchTypes'
  BY <1>1 DEF SearchInv, SearchTypes, HasRun
<1> QED BY <1>1, <1>2, <1>3 DEF SearchInv, InViewAsked

LEMMA ModesAreChosen ==
    ASSUME SearchInv
    PROVE  /\ \A m \in Modes : [run.draft EXCEPT !.mode = m, !.page = 1] \in TextKeys
           /\ \A n \in Subs : [run.draft EXCEPT !.sub = n] \in TextKeys
           /\ [run.draft EXCEPT !.sub = 1, !.page = 1] \in TextKeys
           /\ [run.draft EXCEPT !.page = 1] \in TextKeys
<1>1. run.draft \in TextKeys /\ 1 \in 1 .. LastPage /\ 1 \in Subs
  BY DiscoveryAssumption DEF SearchInv, SearchTypes, Sessions
<1> QED BY <1>1 DEF TextKeys

\* Selections stay on the page.
LEMMA WorkKeeps ==
    ASSUME SearchInv, selected \subseteq Visible, UNCHANGED searching, selected' \subseteq Visible
    PROVE  SearchInv' /\ selected' \subseteq Visible'
BY DEF SearchInv, SearchTypes, Looking, Observed, InViewAsked, HasRun, ResponseFits, Visible, Items, searching

LEMMA SearchKept ==
    ASSUME PageInv, [CatalogNext]_catalogVars
    PROVE  PageInv'
<1>1. ASSUME UNCHANGED <<searching, selected>> PROVE PageInv'
  BY <1>1, WorkKeeps DEF PageInv
<1>2. CASE Search
  <2>1. CASE RunDraft
    BY <2>1, ModesAreChosen, RunKeeps DEF PageInv, RunDraft
  <2>2. CASE RefreshResults
    <3>1. run.committed \in TextKeys
      BY <2>2 DEF RefreshResults, PageInv, SearchInv, SearchTypes, Sessions
    <3> QED BY <2>2, <3>1, RunKeeps DEF PageInv, RefreshResults
  <2>3. CASE (\E n \in Subs : SetFilters(n)) \/ (\E m \in Modes : SwitchMode(m)) \/ ResetFilters
    BY <2>3, ModesAreChosen, SetDraftKeeps DEF PageInv, SetFilters, SwitchMode, ResetFilters
  <2>4. CASE RefreshPicture \/ BackToDiscovery \/ (\E p \in 1 .. LastPage : TurnPage(p))
             \/ (\E n \in Subs : SearchPicture(n)) \/ SettingsArrive
    BY <2>4, RefreshPictureKeeps, BackKeeps, TurnPageKeeps, SearchPictureKeeps, SettingsKeep DEF PageInv
  <2> QED BY <1>2, <2>1, <2>2, <2>3, <2>4 DEF Search
<1>3. CASE Work
  <2>1. ASSUME NEW S, S \subseteq Visible, Select(S) PROVE PageInv'
    BY <2>1, WorkKeeps DEF PageInv, Select
  <2>2. ASSUME NEW f, Toggle(f) PROVE PageInv'
    <3>1. (IF f \in selected THEN selected \ {f} ELSE selected \cup {f}) \subseteq Visible
      BY <2>2 DEF PageInv, Toggle
    <3> QED BY <2>1, <2>2, <3>1 DEF Toggle
  <2>3. CASE ToggleAll \/ ClearSelection
    BY <2>1, <2>3 DEF PageInv, ToggleAll, ClearSelection
  <2>4. ASSUME NEW kind, NEW from, NEW S, Begin(kind, from, S) PROVE PageInv'
    BY <1>1, <2>4 DEF Begin
  <2>5. ASSUME NEW f, ImportOne(f) \/ AddOne(f) PROVE PageInv'
    BY <2>4, <2>5 DEF ImportOne, AddOne
  <2>6. CASE ImportSelected \/ AddSelected \/ GenerateSelected
    BY <2>4, <2>6 DEF ImportSelected, AddSelected, GenerateSelected
  <2> QED BY <1>3, <2>2, <2>3, <2>5, <2>6 DEF Work
<1>4. ASSUME NEW t \in Tasks, ServeTask(t) \/ ContinueTask(t) \/ EndImport(t) PROVE PageInv'
  <2>1. UNCHANGED searching /\ (selected' = selected \/ selected' = {})
    BY <1>4 DEF ServeTask, Serve, ServeImport, ServeImportAll, ServeLoop, ContinueTask, ContinueLoop, LoopGoesOn,
                LoopEnds, EndImport, ImportEnds
  <2> QED BY <2>1, WorkKeeps DEF PageInv
<1>5. CASE OnProducts \/ GoToDiscovery \/ (\E k \in AllKeys : ServeProductList(k))
  BY <1>1, <1>5 DEF OnProducts, GoToDiscovery, ServeProductList, discovery
<1>6. ASSUME NEW j, ServeProductJob(j) \/ ContinueProductJob(j) PROVE PageInv'
  BY <1>1, <1>6 DEF ServeProductJob, ContinueProductJob, discovery
<1>7. ASSUME NEW f, DeleteElsewhere(f) PROVE PageInv'
  BY <1>1, <1>7 DEF DeleteElsewhere
<1>8. CASE UNCHANGED catalogVars
  BY <1>1, <1>8 DEF catalogVars, discovery
<1>9. CASE GoToProducts \/ (\E k \in Keys : AnswerSearch(k))
  BY <1>9, CloseKeeps, AnswerKeeps DEF PageInv, GoToProducts, AnswerSearch
<1>10. CASE OnDiscovery
  BY <1>2, <1>3, <1>10 DEF OnDiscovery
<1> QED BY <1>4, <1>5, <1>6, <1>7, <1>8, <1>9, <1>10 DEF CatalogNext

-----------------------------------------------------------------------------
(* Imports and loops *)

LEMMA LeastIs ==
    ASSUME NEW S \in SUBSET Nat, S # {}
    PROVE  Min(S) \in S /\ \A n \in S : Min(S) <= n
<1> DEFINE R == OpToRel(<, Nat)
<1>1. PICK x \in S : \A y \in S : ~(<<y, x>> \in R)
  <2> HIDE DEF R
  <2>1. IsWellFoundedOn(R, Nat)
    BY NatLessThanWellFounded DEF R
  <2> QED BY <2>1, WFMin
<1>2. ASSUME NEW y \in S PROVE x <= y
  <2>1. <<y, x>> \in R <=> y < x
    BY DEF R, OpToRel
  <2> HIDE DEF R
  <2> QED BY <1>1, <2>1
<1>3. \E m \in S : \A y \in S : m <= y
  BY <1>2
<1> QED BY <1>3 DEF Min

\* Products that are in the inventory stay, or are known to be gone.
LEMMA StockedStays ==
    ASSUME TaskTypes, ListTypes, [CatalogNext]_catalogVars
    PROVE  /\ unsure' \subseteq Finds
           /\ \A f \in Finds : Stocked(f) => Stocked(f)'
<1> USE DEF Stocked
<1>1. unsure \subseteq Finds /\ stock \in [Finds -> Statuses \cup {"none"}] /\ task \in [Tasks -> TaskRecords]
  BY DEF TaskTypes, ListTypes
<1>2. CASE UNCHANGED <<stock, unsure>>
  BY <1>1, <1>2
<1>3. ASSUME NEW S, stock' = Upserted(S), unsure \subseteq unsure', unsure' \subseteq Finds
      PROVE  unsure' \subseteq Finds /\ \A f \in Finds : Stocked(f) => Stocked(f)'
  BY <1>1, <1>3 DEF Upserted
<1>4. ASSUME NEW t \in Tasks, ServeTask(t) PROVE unsure' \subseteq Finds /\ \A f \in Finds : Stocked(f) => Stocked(f)'
  <2>1. task[t].all \subseteq Finds
    BY <1>1 DEF TaskRecords
  <2>2. CASE ServeImport(t)
    BY <1>1, <1>2, <1>3, <2>2 DEF ServeImport
  <2>3. CASE ServeImportAll(t)
    BY <1>1, <1>3, <2>1, <2>3 DEF ServeImportAll
  <2>4. CASE ServeLoop(t)
    BY <1>2, <2>4 DEF ServeLoop
  <2> QED BY <1>4, <2>2, <2>3, <2>4 DEF ServeTask, Serve
<1>5. ASSUME NEW j \in Jobs, ServeProductJob(j) PROVE unsure' \subseteq Finds /\ \A f \in Finds : Stocked(f) => Stocked(f)'
  BY <1>1, <1>5 DEF ServeProductJob
<1>6. ASSUME NEW f \in Finds, DeleteElsewhere(f)
      PROVE  unsure' \subseteq Finds /\ \A g \in Finds : Stocked(g) => Stocked(g)'
  BY <1>1, <1>6 DEF DeleteElsewhere, DeletedElsewhere, Deleted
<1>7. ASSUME NEW t \in Tasks, ContinueTask(t) \/ EndImport(t) PROVE UNCHANGED <<stock, unsure>>
  BY <1>7 DEF ContinueTask, ContinueLoop, LoopGoesOn, LoopEnds, EndImport, ImportEnds
<1>8. CASE OnDiscovery
  BY <1>2, <1>8 DEF OnDiscovery, Search, RunDraft, RefreshResults, RunWith, RefreshPicture, BackToDiscovery, TurnPage,
     SearchPicture, SetFilters, SwitchMode, ResetFilters, SetDraft, SettingsArrive, Unrelated, Work, Toggle, Select,
     ImportOne, AddOne, ToggleAll, ClearSelection, ImportSelected, AddSelected, GenerateSelected, Begin
<1>9. CASE OnProducts \/ GoToDiscovery \/ GoToProducts
  BY <1>2, <1>9 DEF OnProducts, UseProducts, SetFilter, ChangeSelectedStatus, TurnTo, ToggleProduct, Preview, DeleteOne,
     ToggleProducts, ClearProducts, CloseDrawer, RefetchList, DeleteSelected, CancelDelete, ConfirmDelete, QueueSelected,
     QueueActive, Pages, Choose, Click, AskDelete, Run, GoToDiscovery, GoToProducts, CloseDiscovery, discovery
<1>10. ASSUME NEW k, AnswerSearch(k) \/ ServeProductList(k) PROVE UNCHANGED <<stock, unsure>>
  BY <1>10 DEF AnswerSearch, SearchAnswers, Unrelated, ServeProductList, ServeList, ReadList, ListArrives, discovery
<1>11. ASSUME NEW j, ContinueProductJob(j) PROVE UNCHANGED <<stock, unsure>>
  BY <1>11 DEF ContinueProductJob, ContinueJob, JobGoesOn, JobEnds, discovery
<1>12. CASE UNCHANGED catalogVars
  BY <1>2, <1>12 DEF catalogVars, discovery
<1>13. CASE \/ \E t \in Tasks : ContinueTask(t) \/ EndImport(t)
            \/ \E k \in Keys : AnswerSearch(k)
            \/ \E k \in AllKeys : ServeProductList(k)
            \/ \E j \in Jobs : ContinueProductJob(j)
  BY <1>2, <1>7, <1>10, <1>11, <1>13
<1> QED BY <1>4, <1>5, <1>6, <1>8, <1>9, <1>12, <1>13 DEF CatalogNext

\* The products that are still there or known to be gone
Steady == unsure' \subseteq Finds /\ \A f \in Finds : Stocked(f) => Stocked(f)'

LEMMA TasksRest ==
    ASSUME TaskInv, Steady, UNCHANGED <<task, busy, newest, imported>>
    PROVE  TaskInv'
<1>1. TaskTypes /\ task \in [Tasks -> TaskRecords] /\ imported \subseteq Finds
  BY DEF TaskInv, TaskTypes
<1>2. \A t \in Tasks : task[t].all \subseteq Finds
  BY <1>1 DEF TaskRecords
<1>3. ImportsAreStocked'
  BY <1>1, <1>2 DEF TaskInv, ImportsAreStocked, Steady
<1>4. TaskTypes' /\ BarHoldsFlag' /\ BarLoopsExclude'
  BY DEF TaskInv, TaskTypes, BarHoldsFlag, BarLoopsExclude, Steady
<1> QED BY <1>3, <1>4 DEF TaskInv

\* One task goes on.
LEMMA TaskMoves ==
    ASSUME TaskInv, Steady, NEW t \in Tasks, NEW b \in TaskRecords, task' = [task EXCEPT ![t] = b],
           b.todo \subseteq b.all, b.all = task[t].all, b.kind = task[t].kind, b.from = task[t].from,
           b.shared = task[t].shared, b.shown = task[t].shown, UNCHANGED <<busy, newest, imported>>,
           b.kind \in {"import", "importAll"} /\ b.call = "ok" => \A f \in b.all : Stocked(f)'
    PROVE  TaskInv'
<1>1. TaskTypes /\ task \in [Tasks -> TaskRecords] /\ imported \subseteq Finds
  BY DEF TaskInv, TaskTypes
<1>2. \A u \in Tasks : task[u].all \subseteq Finds
  BY <1>1 DEF TaskRecords
<1>3. task'[t] = b /\ (\A u \in Tasks \ {t} : task'[u] = task[u]) /\ task' \in [Tasks -> TaskRecords]
  BY <1>1
<1>4. \A u \in Tasks : task'[u].kind = task[u].kind /\ task'[u].from = task[u].from
                       /\ task'[u].shared = task[u].shared /\ task'[u].shown = task[u].shown
  BY <1>3
<1>5. BarHoldsFlag' /\ BarLoopsExclude'
  BY <1>4 DEF TaskInv, BarHoldsFlag, BarLoopsExclude
<1>6. TaskTypes'
  BY <1>1, <1>3 DEF TaskTypes, Steady
<1>7. ImportsAreStocked'
  BY <1>1, <1>2, <1>3 DEF TaskInv, ImportsAreStocked, Steady
<1> QED BY <1>5, <1>6, <1>7 DEF TaskInv

\* A click of the bar finds the flag free.
LEMMA BeginKeeps ==
    ASSUME TaskInv, Steady, NEW kind \in {"import", "importAll", "queue", "generate"}, NEW from \in {"row", "bar"},
           NEW S \in SUBSET Finds, Begin(kind, from, S), from = "bar" => ~busy /\ kind # "import"
    PROVE  TaskInv'
<1> DEFINE free == {u \in Tasks : task[u] = NoTask}
           t == Min(free)
           b == [kind |-> kind, from |-> from, all |-> S, todo |-> S, call |-> "sent", shared |-> FALSE, shown |-> TRUE]
<1>1. TaskTypes /\ task \in [Tasks -> TaskRecords] /\ BarHoldsFlag /\ imported' = imported
  BY DEF TaskInv, TaskTypes, Begin
<1>2. t \in Tasks
  <2>1. free \in SUBSET Nat /\ free # {}
    BY DiscoveryAssumption DEF Begin
  <2>2. Min(free) \in free
    BY <2>1, LeastIs
  <2> QED BY <2>2
<1>3. task' = [task EXCEPT ![t] = b] /\ newest' \in {t, newest} /\ busy' = (IF kind = "import" THEN busy ELSE TRUE)
  BY DEF Begin, NowBusy
<1>4. b \in TaskRecords /\ b.todo = b.all
  BY DEF TaskRecords
<1>5. b.kind = kind /\ b.from = from /\ b.call = "sent"
  OBVIOUS
<1> HIDE DEF b, t
<1>6. task'[t] = b /\ (\A u \in Tasks \ {t} : task'[u] = task[u]) /\ task' \in [Tasks -> TaskRecords]
  BY <1>1, <1>2, <1>3, <1>4
<1>7. TaskTypes'
  BY <1>1, <1>2, <1>3, <1>4, <1>6 DEF TaskTypes, Steady
<1>8. BarHoldsFlag'
  <2>1. ASSUME NEW u \in Tasks, task'[u].from = "bar", task'[u].shown
        PROVE  task'[u].kind # "import" /\ (task'[u].shared \/ busy')
    <3>1. CASE u = t
      BY <1>3, <1>5, <1>6, <2>1, <3>1
    <3>2. CASE u # t
      BY <1>1, <1>3, <1>6, <2>1, <3>2 DEF BarHoldsFlag, TaskTypes
    <3> QED BY <3>1, <3>2
  <2> QED BY <2>1 DEF BarHoldsFlag
<1>9. BarLoopsExclude'
  <2>1. ASSUME NEW u \in Tasks, NEW v \in Tasks, u # v, task'[u].from = "bar", task'[v].from = "bar",
               task'[u].shown, task'[v].shown
        PROVE  task'[u].shared \/ task'[v].shared
    <3>1. CASE u # t /\ v # t
      BY <1>6, <2>1, <3>1 DEF TaskInv, BarLoopsExclude
    <3>2. CASE u = t
      BY <1>1, <1>5, <1>6, <2>1, <3>2 DEF BarHoldsFlag
    <3>3. CASE v = t
      BY <1>1, <1>5, <1>6, <2>1, <3>3 DEF BarHoldsFlag
    <3> QED BY <3>1, <3>2, <3>3
  <2> QED BY <2>1 DEF BarLoopsExclude
<1>10. ImportsAreStocked'
  <2>1. \A u \in Tasks : task[u].all \subseteq Finds
    BY <1>1 DEF TaskRecords
  <2>2. imported \subseteq Finds
    BY <1>1 DEF TaskTypes
  <2> QED BY <1>1, <1>5, <1>6, <2>1, <2>2 DEF TaskInv, ImportsAreStocked, Steady
<1> QED BY <1>7, <1>8, <1>9, <1>10 DEF TaskInv

\* The end of a task releases the flag, and marks the loops that shared it.
Marked(b, shared) == [b EXCEPT !.shared = shared]

LEMMA MarkedIs ==
    ASSUME NEW b \in TaskRecords, NEW shared \in BOOLEAN
    PROVE  LET m == Marked(b, shared) IN
           /\ m \in TaskRecords /\ m.kind = b.kind /\ m.from = b.from /\ m.all = b.all /\ m.todo = b.todo
           /\ m.call = b.call /\ m.shown = b.shown /\ m.shared = shared
BY DEF Marked, TaskRecords

LEMMA FinishKeeps ==
    ASSUME TaskInv, Steady, NEW t \in Tasks, Finish(t), imported' \subseteq Finds, \A f \in imported' : Stocked(f)'
    PROVE  TaskInv'
<1>1. TaskTypes /\ task \in [Tasks -> TaskRecords] /\ BarHoldsFlag /\ busy \in BOOLEAN
  BY DEF TaskInv, TaskTypes
<1>2. NoTask \in TaskRecords /\ NoTask.todo = NoTask.all /\ NoTask.from = "none" /\ NoTask.kind = "none"
  BY DEF NoTask, TaskRecords
<1> DEFINE releases == ~(task[t].kind = "import" \/ ~task[t].shown)
           mark(u) == task[u].shared \/ (task[u] # NoTask /\ task[t].kind # "import")
<1>3. /\ task' = [u \in Tasks |-> IF u = t THEN NoTask ELSE Marked(task[u], mark(u))]
      /\ newest' \in {None, newest} /\ busy' = IF releases THEN FALSE ELSE busy
  BY DEF Finish, Marked, Released, BusyAfter
<1>4. ASSUME NEW u \in Tasks \ {t}
      PROVE  /\ task'[u] \in TaskRecords /\ task'[u].kind = task[u].kind /\ task'[u].from = task[u].from
             /\ task'[u].all = task[u].all /\ task'[u].todo = task[u].todo /\ task'[u].call = task[u].call
             /\ task'[u].shown = task[u].shown /\ task'[u].shared = mark(u)
  <2>1. task[u] \in TaskRecords /\ mark(u) \in BOOLEAN /\ task'[u] = Marked(task[u], mark(u))
    BY <1>1, <1>3 DEF TaskRecords
  <2> HIDE DEF mark
  <2> QED BY <2>1, MarkedIs
<1>5. task'[t] = NoTask
  BY <1>3
<1>6. TaskTypes'
  <2>1. task' \in [Tasks -> TaskRecords]
    <3>1. \A u \in Tasks : task'[u] \in TaskRecords
      BY <1>2, <1>4, <1>5
    <3> QED BY <1>3, <3>1
  <2>2. \A u \in Tasks : task'[u].todo \subseteq task'[u].all
    BY <1>1, <1>2, <1>4, <1>5 DEF TaskTypes
  <2>3. busy' \in BOOLEAN /\ newest' \in Tasks \cup {None} /\ imported' \cup unsure' \subseteq Finds
    BY <1>1, <1>3 DEF TaskTypes, Steady
  <2> QED BY <2>1, <2>2, <2>3 DEF TaskTypes
<1>7. BarHoldsFlag'
  <2>1. ASSUME NEW u \in Tasks, task'[u].from = "bar", task'[u].shown
        PROVE  task'[u].kind # "import" /\ (task'[u].shared \/ busy')
    <3>1. u # t
      BY <1>2, <1>5, <2>1
    <3>2. task[u].from = "bar" /\ task[u].shown /\ task[u].kind # "import" /\ (task[u].shared \/ busy)
      BY <1>1, <1>4, <2>1, <3>1 DEF BarHoldsFlag
    <3>3. task[u] # NoTask
      BY <1>2, <3>2
    <3> QED BY <1>3, <1>4, <3>1, <3>2, <3>3
  <2> QED BY <2>1 DEF BarHoldsFlag
<1>8. BarLoopsExclude'
  <2>1. ASSUME NEW u \in Tasks, NEW v \in Tasks, u # v, task'[u].from = "bar", task'[v].from = "bar",
               task'[u].shown, task'[v].shown
        PROVE  task'[u].shared \/ task'[v].shared
    <3>1. u # t /\ v # t
      BY <1>2, <1>5, <2>1
    <3>2. task[u].shared \/ task[v].shared
      BY <1>4, <2>1, <3>1 DEF TaskInv, BarLoopsExclude
    <3> QED BY <1>4, <3>1, <3>2
  <2> QED BY <2>1 DEF BarLoopsExclude
<1>9. ImportsAreStocked'
  <2>1. ASSUME NEW u \in Tasks, task'[u].kind \in {"import", "importAll"}, task'[u].call = "ok", NEW f \in task'[u].all
        PROVE  Stocked(f)'
    <3>1. u # t
      BY <1>2, <1>5, <2>1
    <3>2. f \in task[u].all /\ Stocked(f)
      BY <1>4, <2>1, <3>1 DEF TaskInv, ImportsAreStocked
    <3>3. f \in Finds
      BY <1>1, <3>2 DEF TaskRecords
    <3> QED BY <3>2, <3>3 DEF Steady
  <2> QED BY <2>1 DEF ImportsAreStocked
<1> QED BY <1>6, <1>7, <1>8, <1>9 DEF TaskInv

\* The page is left: what it had begun is nobody's.
LEMMA LeaveKeeps ==
    ASSUME TaskInv, Steady, CloseDiscovery
    PROVE  TaskInv'
<1>1. TaskTypes /\ task \in [Tasks -> TaskRecords] /\ imported \subseteq Finds
  BY DEF TaskInv, TaskTypes
<1>2. /\ task' = [t \in Tasks |-> [task[t] EXCEPT !.shown = FALSE]] /\ busy' = FALSE /\ newest' = None
      /\ imported' = imported
  BY DEF CloseDiscovery
<1>3. ASSUME NEW t \in Tasks
      PROVE  /\ task'[t] \in TaskRecords /\ task'[t].kind = task[t].kind /\ task'[t].all = task[t].all
             /\ task'[t].todo = task[t].todo /\ task'[t].call = task[t].call /\ ~task'[t].shown
  BY <1>1, <1>2 DEF TaskRecords
<1>4. TaskTypes'
  BY <1>1, <1>2, <1>3 DEF TaskTypes, Steady
<1>5. BarHoldsFlag' /\ BarLoopsExclude'
  BY <1>3 DEF BarHoldsFlag, BarLoopsExclude
<1>6. ImportsAreStocked'
  <2>1. \A t \in Tasks : task[t].all \subseteq Finds
    BY <1>1 DEF TaskRecords
  <2> QED BY <1>1, <1>2, <1>3, <2>1 DEF TaskInv, ImportsAreStocked, Steady
<1> QED BY <1>4, <1>5, <1>6 DEF TaskInv

\* A task is answered, and its loop goes on to the next product.
Called(b, call) == [b EXCEPT !.call = call]
Onward(b, f) == [b EXCEPT !.todo = @ \ {f}, !.call = "sent"]

LEMMA CalledIs ==
    ASSUME NEW b \in TaskRecords, NEW call \in {"ok", "error"}
    PROVE  LET m == Called(b, call) IN
           /\ m \in TaskRecords /\ m.kind = b.kind /\ m.from = b.from /\ m.all = b.all /\ m.todo = b.todo
           /\ m.call = call /\ m.shown = b.shown /\ m.shared = b.shared
BY DEF Called, TaskRecords

LEMMA OnwardIs ==
    ASSUME NEW b \in TaskRecords, NEW f
    PROVE  LET m == Onward(b, f) IN
           /\ m \in TaskRecords /\ m.kind = b.kind /\ m.from = b.from /\ m.all = b.all /\ m.todo \subseteq b.todo
           /\ m.call = "sent" /\ m.shown = b.shown /\ m.shared = b.shared
BY DEF Onward, TaskRecords

LEMMA ServeKeeps ==
    ASSUME TaskInv, Steady, stock \in [Finds -> Statuses \cup {"none"}], NEW t \in Tasks, Serve(t)
    PROVE  TaskInv'
<1>1. /\ task \in [Tasks -> TaskRecords] /\ task[t] \in TaskRecords /\ task[t].todo \subseteq task[t].all
      /\ task[t].all \subseteq Finds
  BY DEF TaskInv, TaskTypes, TaskRecords
<1>2. ASSUME NEW answer \in {"ok", "error"}, Reply(t, answer), UNCHANGED <<busy, newest, imported>>,
             answer = "ok" /\ task[t].kind \in {"import", "importAll"} => \A f \in task[t].all : Stocked(f)'
      PROVE  TaskInv'
  <2> DEFINE b == Called(task[t], answer)
  <2>1. task' = [task EXCEPT ![t] = b]
    BY <1>1, <1>2 DEF Reply, Called
  <2>2. /\ b \in TaskRecords /\ b.kind = task[t].kind /\ b.from = task[t].from /\ b.all = task[t].all
        /\ b.todo = task[t].todo /\ b.call = answer /\ b.shown = task[t].shown /\ b.shared = task[t].shared
    BY <1>1, CalledIs
  <2> HIDE DEF b
  <2> QED BY <1>1, <1>2, <2>1, <2>2, TaskMoves
<1>3. CASE ServeImport(t)
  <2>1. PICK answer \in {"ok", "error"} :
          Reply(t, answer) /\ stock' \in {Upserted(task[t].all)} \cup (IF answer = "error" THEN {stock} ELSE {})
    BY <1>3 DEF ServeImport
  <2>2. answer = "ok" => \A f \in task[t].all : Stocked(f)'
    BY <1>1, <2>1 DEF Upserted, Stocked
  <2> QED BY <1>2, <1>3, <2>1, <2>2 DEF ServeImport
<1>4. CASE ServeImportAll(t)
  <2>1. PICK S \in SUBSET task[t].all, answer \in {"ok", "error"} :
          Reply(t, answer) /\ stock' = Upserted(S) /\ unsure' = unsure \cup (task[t].all \ S)
    BY <1>4 DEF ServeImportAll
  <2>2. \A f \in task[t].all : Stocked(f)'
    BY <1>1, <2>1 DEF Upserted, Stocked
  <2> QED BY <1>2, <1>4, <2>1, <2>2 DEF ServeImportAll
<1>5. CASE ServeLoop(t)
  BY <1>2, <1>5 DEF ServeLoop
<1> QED BY <1>3, <1>4, <1>5 DEF Serve

LEMMA ContinueKeeps ==
    ASSUME TaskInv, Steady, NEW t \in Tasks, ContinueLoop(t) \/ ImportEnds(t)
    PROVE  TaskInv'
<1>1. /\ task \in [Tasks -> TaskRecords] /\ task[t] \in TaskRecords /\ task[t].todo \subseteq task[t].all
      /\ task[t].all \subseteq Finds /\ imported \subseteq Finds
  BY DEF TaskInv, TaskTypes, TaskRecords
<1>2. \A f \in imported : Stocked(f)'
  BY <1>1 DEF TaskInv, ImportsAreStocked, Steady
<1>3. CASE LoopGoesOn(t)
  <2> DEFINE b == Onward(task[t], Next1(t))
  <2>1. task' = [task EXCEPT ![t] = b] /\ UNCHANGED <<busy, newest, imported>>
    BY <1>1, <1>3 DEF LoopGoesOn, Onward
  <2>2. /\ b \in TaskRecords /\ b.kind = task[t].kind /\ b.from = task[t].from /\ b.all = task[t].all
        /\ b.todo \subseteq task[t].todo /\ b.call = "sent" /\ b.shown = task[t].shown /\ b.shared = task[t].shared
    BY <1>1, OnwardIs
  <2> HIDE DEF b
  <2> QED BY <1>1, <2>1, <2>2, TaskMoves
<1>4. CASE LoopEnds(t)
  BY <1>1, <1>2, <1>4, FinishKeeps DEF LoopEnds
<1>5. CASE ImportEnds(t)
  <2>1. imported' = Tracked(t) /\ Finish(t) /\ task[t].kind \in {"import", "importAll"}
    BY <1>5 DEF ImportEnds
  <2>2. task[t].call = "ok" => \A f \in task[t].all : Stocked(f)'
    BY <1>1, <2>1 DEF TaskInv, ImportsAreStocked, Steady
  <2>3. imported' \subseteq Finds /\ \A f \in imported' : Stocked(f)'
    BY <1>1, <1>2, <2>1, <2>2 DEF Tracked
  <2> QED BY <2>1, <2>3, FinishKeeps
<1> QED BY <1>3, <1>4, <1>5 DEF ContinueLoop

LEMMA VisibleAreFinds ==
    ASSUME SearchInv PROVE Visible \subseteq Finds
<1>1. run \in Sessions /\ image \in PictureKeys \cup {None} /\ cache \in [Keys -> Entries]
  BY DEF SearchInv, SearchTypes
<1>2. \A k \in Keys : cache[k].items \subseteq Finds
  BY <1>1 DEF Entries
<1>3. run.response.items \subseteq Finds /\ run.committed \in TextKeys \cup {None}
  BY <1>1 DEF Sessions
<1> QED BY <1>1, <1>2, <1>3, KeysAre DEF Visible, Items

LEMMA TasksKept ==
    ASSUME CatalogIInv, [CatalogNext]_catalogVars
    PROVE  TaskInv'
<1>1. TaskInv /\ TaskTypes /\ ListTypes /\ stock \in [Finds -> Statuses \cup {"none"}]
  BY DEF CatalogIInv, TaskInv, ListInv, ListTypes
<1>2. Steady
  BY <1>1, StockedStays DEF Steady
<1>3. Visible \subseteq Finds /\ selected \subseteq Finds
  BY VisibleAreFinds DEF CatalogIInv, PageInv
<1>4. CASE UNCHANGED <<task, busy, newest, imported>>
  BY <1>1, <1>2, <1>4, TasksRest
<1>5. CASE Work
  <2>1. ASSUME NEW f \in Finds, ImportOne(f) \/ AddOne(f) PROVE TaskInv'
    BY <1>1, <1>2, <2>1, BeginKeeps DEF ImportOne, AddOne
  <2>2. CASE ImportSelected \/ AddSelected \/ GenerateSelected
    BY <1>1, <1>2, <1>3, <2>2, BeginKeeps DEF ImportSelected, AddSelected, GenerateSelected, BarReady
  <2>3. CASE (\E f \in Finds : Toggle(f)) \/ ToggleAll \/ ClearSelection
    BY <1>4, <2>3 DEF Toggle, ToggleAll, ClearSelection, Select, working
  <2> QED BY <1>5, <2>1, <2>2, <2>3 DEF Work
<1>6. CASE Search
  BY <1>4, <1>6 DEF Search, RunDraft, RefreshResults, RunWith, RefreshPicture, BackToDiscovery, TurnPage,
     SearchPicture, SetFilters, SwitchMode, ResetFilters, SetDraft, SettingsArrive, Unrelated, working
<1>7. ASSUME NEW t \in Tasks, ServeTask(t) \/ ContinueTask(t) \/ EndImport(t) PROVE TaskInv'
  BY <1>1, <1>2, <1>7, ServeKeeps, ContinueKeeps DEF ServeTask, ContinueTask, EndImport
<1>8. CASE GoToProducts
  BY <1>1, <1>2, <1>8, LeaveKeeps DEF GoToProducts
<1>9. CASE OnProducts \/ GoToDiscovery \/ UNCHANGED catalogVars
  BY <1>4, <1>9 DEF OnProducts, GoToDiscovery, catalogVars, discovery, working
<1>10. ASSUME NEW k, AnswerSearch(k) \/ ServeProductList(k) PROVE TaskInv'
  BY <1>4, <1>10 DEF AnswerSearch, SearchAnswers, Unrelated, ServeProductList, discovery, working
<1>11. ASSUME NEW j, ServeProductJob(j) \/ ContinueProductJob(j) \/ DeleteElsewhere(j) PROVE TaskInv'
  BY <1>4, <1>11 DEF ServeProductJob, ContinueProductJob, DeleteElsewhere, discovery, working
<1> QED BY <1>5, <1>6, <1>7, <1>8, <1>9, <1>10, <1>11 DEF CatalogNext, OnDiscovery

-----------------------------------------------------------------------------
(* The list of products: the entries of the cache *)

LEMMA MatchesAre ==
    ASSUME NEW s PROVE IsFiniteSet(Matches(s)) /\ Matches(s) \subseteq Finds /\ Cardinality(Matches(s)) \in Nat
<1>1. Matches(s) \subseteq Finds /\ IsFiniteSet(Finds)
  BY InventoryAssumption DEF Matches
<1> QED BY <1>1, FS_Subset, FS_CardinalityType

LEMMA PageOfIs ==
    ASSUME NEW k PROVE PageOf(k) \in ListPages /\ PageOf(k).total = Cardinality(Matches(k[1]))
BY MatchesAre DEF PageOf, ListPages

LEMMA NoPageIs == NoPage \in ListPages
BY DEF NoPage, ListPages

\* What any step may do to the entry of a list: its data were there or on their way.
Effect(k) ==
    LET b == books[k]
        c == books'[k]
    IN /\ c \in Lists /\ (c.st = "ok" => c.known)
       /\ c.known => (b.known /\ c.seen = b.seen) \/ (b.call = "read" /\ c.seen = b.coming)
       /\ c.call = "read" => (b.call = "read" /\ c.coming = b.coming) \/ c.coming = PageOf(k)

\* While the products stay as they are, it fits them as before,
Faithful(k) == ListFits(k, books[k]) => ListFits(k, books'[k])

\* and when they changed, it is in doubt.
Doubted(b) == (b.call = "read" => b.untold) /\ (b.st = "ok" => b.untold \/ b.stale)

SameData(k) ==
    books'[k].st = books[k].st /\ books'[k].known = books[k].known /\ books'[k].seen = books[k].seen

\* A step of the page or an answer, and one that invalidates the lists or is not told to them
BooksFollow == books' \in [AllKeys -> Lists] /\ \A k \in AllKeys : Effect(k) /\ Faithful(k)
BooksDoubted ==
    books' \in [AllKeys -> Lists] /\ \A k \in AllKeys : Effect(k) /\ SameData(k) /\ Doubted(books'[k])

\* The operations on one entry
Sent(b) == [b EXCEPT !.call = "sent"]
Taken(b, page) == [b EXCEPT !.call = "read", !.coming = page, !.untold = FALSE]
Come(b) == [NoBook EXCEPT !.st = "ok", !.known = TRUE, !.seen = b.coming, !.untold = b.untold]
Lost(b) == [b EXCEPT !.st = "error", !.call = "none", !.coming = NoPage]
MarkedBook(b, call, coming, untold) ==
    [b EXCEPT !.stale = TRUE, !.call = call, !.coming = coming, !.untold = untold]
Unsure(b) == [b EXCEPT !.untold = TRUE]

LEMMA SentIs ==
    ASSUME NEW b \in Lists
    PROVE  /\ Sent(b) \in Lists /\ Sent(b).call = "sent" /\ Sent(b).st = b.st /\ Sent(b).known = b.known
           /\ Sent(b).seen = b.seen /\ Sent(b).stale = b.stale /\ Sent(b).untold = b.untold
BY DEF Sent, Lists

LEMMA TakenIs ==
    ASSUME NEW b \in Lists, NEW p \in ListPages
    PROVE  /\ Taken(b, p) \in Lists /\ Taken(b, p).call = "read" /\ Taken(b, p).coming = p /\ Taken(b, p).st = b.st
           /\ Taken(b, p).known = b.known /\ Taken(b, p).seen = b.seen /\ Taken(b, p).stale = b.stale
BY DEF Taken, Lists

LEMMA ComeIs ==
    ASSUME NEW b \in Lists
    PROVE  /\ Come(b) \in Lists /\ Come(b).call = "none" /\ Come(b).st = "ok" /\ Come(b).known
           /\ Come(b).seen = b.coming /\ Come(b).untold = b.untold /\ ~Come(b).stale
BY NoPageIs DEF Come, Lists, NoBook

LEMMA LostIs ==
    ASSUME NEW b \in Lists
    PROVE  /\ Lost(b) \in Lists /\ Lost(b).call = "none" /\ Lost(b).st = "error" /\ Lost(b).known = b.known
           /\ Lost(b).seen = b.seen
BY NoPageIs DEF Lost, Lists

LEMMA MarkedBookIs ==
    ASSUME NEW b \in Lists, NEW call \in {"none", "sent", "read"}, NEW coming \in ListPages, NEW untold \in BOOLEAN
    PROVE  LET m == MarkedBook(b, call, coming, untold) IN
           /\ m \in Lists /\ m.call = call /\ m.coming = coming /\ m.untold = untold /\ m.stale
           /\ m.st = b.st /\ m.known = b.known /\ m.seen = b.seen
BY DEF MarkedBook, Lists

LEMMA UnsureIs ==
    ASSUME NEW b \in Lists
    PROVE  /\ Unsure(b) \in Lists /\ Unsure(b).untold /\ Unsure(b).call = b.call /\ Unsure(b).coming = b.coming
           /\ Unsure(b).st = b.st /\ Unsure(b).known = b.known /\ Unsure(b).seen = b.seen /\ Unsure(b).stale = b.stale
BY DEF Unsure, Lists

LEMMA BooksAre ==
    ASSUME ListTypes
    PROVE  /\ books \in [AllKeys -> Lists] /\ Current \in AllKeys
           /\ \A k \in AllKeys : books[k] \in Lists /\ (books[k].st = "ok" => books[k].known)
BY DEF ListTypes, Current, AllKeys

LEMMA SameBooks ==
    ASSUME ListTypes, books' = books PROVE BooksFollow /\ \A k \in AllKeys : SameData(k)
BY BooksAre DEF BooksFollow, Effect, Faithful, SameData

\* A request is made for a list that has none.
LEMMA AskEffect ==
    ASSUME ListTypes, NEW key \in AllKeys, books[key].call = "none", books' = [books EXCEPT ![key] = Sent(books[key])]
    PROVE  BooksFollow /\ (\A k \in AllKeys : SameData(k)) /\ books'[key].call = "sent"
<1>1. \A k \in AllKeys : books'[k] = IF k = key THEN Sent(books[k]) ELSE books[k]
  BY BooksAre
<1>2. ASSUME NEW k \in AllKeys PROVE Effect(k) /\ Faithful(k) /\ SameData(k)
  <2>1. CASE k = key
    BY <1>1, <2>1, BooksAre, SentIs DEF Effect, Faithful, SameData, ListFits
  <2>2. CASE k # key
    BY <1>1, <2>2, BooksAre DEF Effect, Faithful, SameData, ListFits
  <2> QED BY <2>1, <2>2
<1>3. books' \in [AllKeys -> Lists] /\ books'[key].call = "sent"
  BY <1>1, BooksAre, SentIs
<1> QED BY <1>2, <1>3 DEF BooksFollow

LEMMA ViewedEffect ==
    ASSUME ListTypes, NEW key \in AllKeys, books' \in Viewed(key)
    PROVE  BooksFollow /\ (\A k \in AllKeys : SameData(k)) /\ AskedAgain(books'[key])
<1>1. CASE books[key].call = "none" /\ books' = [books EXCEPT ![key].call = "sent"]
  <2>1. books' = [books EXCEPT ![key] = Sent(books[key])]
    BY <1>1, BooksAre DEF Sent
  <2> QED BY <1>1, <2>1, AskEffect DEF AskedAgain
<1>2. CASE books' = books /\ (books[key].call # "none" \/ ~books[key].stale)
  BY <1>2, SameBooks DEF AskedAgain
<1> QED BY <1>1, <1>2 DEF Viewed

LEMMA ReadEffect ==
    ASSUME ListTypes, NEW key \in AllKeys, ReadList(key)
    PROVE  BooksFollow /\ (\A k \in AllKeys : SameData(k)) /\ books'[key].call = "read"
           /\ \A k \in AllKeys \ {key} : books'[k] = books[k]
<1>1. books' = [books EXCEPT ![key] = Taken(books[key], PageOf(key))]
  BY BooksAre DEF ReadList, Taken
<1>2. \A k \in AllKeys : books'[k] = IF k = key THEN Taken(books[k], PageOf(k)) ELSE books[k]
  BY <1>1, BooksAre
<1>3. ASSUME NEW k \in AllKeys PROVE Effect(k) /\ Faithful(k) /\ SameData(k)
  <2>1. CASE k = key
    <3>1. books[k] \in Lists /\ PageOf(k) \in ListPages /\ (books[k].st = "ok" => books[k].known)
      BY BooksAre, PageOfIs
    <3>2. books'[k] = Taken(books[k], PageOf(k))
      BY <1>2, <2>1
    <3>3. /\ books'[k] \in Lists /\ books'[k].call = "read" /\ books'[k].coming = PageOf(k)
          /\ books'[k].st = books[k].st /\ books'[k].known = books[k].known /\ books'[k].seen = books[k].seen
      BY <3>1, <3>2, TakenIs
    <3> QED BY <3>1, <3>3 DEF Effect, Faithful, SameData, ListFits
  <2>2. CASE k # key
    BY <1>2, <2>2, BooksAre DEF Effect, Faithful, SameData, ListFits
  <2> QED BY <2>1, <2>2
<1>4. books[key] \in Lists /\ PageOf(key) \in ListPages
  BY BooksAre, PageOfIs
<1>5. Taken(books[key], PageOf(key)) \in Lists /\ Taken(books[key], PageOf(key)).call = "read"
  BY <1>4, TakenIs
<1>6. books'[key].call = "read" /\ books' \in [AllKeys -> Lists]
  BY <1>1, <1>2, <1>5, BooksAre
<1> QED BY <1>2, <1>3, <1>6 DEF BooksFollow

LEMMA ArriveEffect ==
    ASSUME ListTypes, NEW key \in AllKeys, ListArrives(key)
    PROVE  BooksFollow /\ AskedAgain(books'[key]) /\ \A k \in AllKeys \ {key} : books'[k] = books[k]
<1>1. /\ books[key].call = "read"
      /\ \/ books' = [books EXCEPT ![key] = Come(books[key])]
         \/ books' = [books EXCEPT ![key] = Lost(books[key])]
  BY BooksAre DEF ListArrives, Come, Lost
<1>2. (\A k \in AllKeys \ {key} : books'[k] = books[k]) /\ books'[key] \in {Come(books[key]), Lost(books[key])}
  BY <1>1, BooksAre
<1>3. ASSUME NEW k \in AllKeys PROVE Effect(k) /\ Faithful(k)
  <2>1. CASE k = key
    BY <1>1, <1>2, <2>1, BooksAre, ComeIs, LostIs DEF Effect, Faithful, ListFits
  <2>2. CASE k # key
    BY <1>2, <2>2, BooksAre DEF Effect, Faithful, ListFits
  <2> QED BY <2>1, <2>2
<1>4. Come(books[key]) \in Lists /\ Lost(books[key]) \in Lists
  BY BooksAre, ComeIs, LostIs
<1>5. books' \in [AllKeys -> Lists]
  BY <1>1, <1>4, BooksAre
<1>6. AskedAgain(books'[key])
  BY <1>2, BooksAre, ComeIs, LostIs DEF AskedAgain
<1> QED BY <1>2, <1>3, <1>5, <1>6 DEF BooksFollow

LEMMA InvalidatedEffect ==
    ASSUME ListTypes, NEW key \in AllKeys \cup {None}, books' = Invalidated(key)
    PROVE  BooksDoubted /\ \A k \in AllKeys : k = key => AskedAgain(books'[k])
<1> SUFFICES ASSUME NEW k \in AllKeys
             PROVE  Effect(k) /\ SameData(k) /\ Doubted(books'[k]) /\ (k = key => AskedAgain(books'[k]))
  <2>1. books' = [k \in AllKeys |-> books'[k]]
    BY DEF Invalidated
  <2> QED BY <2>1 DEF BooksDoubted, Effect
<1> DEFINE b == books[k]
           again == k = key /\ (b.known \/ b.st = "error")
           call == IF again /\ (b.known \/ b.call = "none") THEN "sent" ELSE b.call
           coming == IF again /\ b.known THEN NoPage ELSE b.coming
           untold == b.untold \/ (b.call = "read" /\ ~(again /\ b.known))
<1>1. b \in Lists /\ (b.st = "ok" => b.known)
  BY BooksAre
<1>2. books'[k] = IF ~b.known /\ b.st = "none" /\ b.call = "none" THEN b ELSE MarkedBook(b, call, coming, untold)
  BY DEF Invalidated, MarkedBook
<1>3. CASE ~b.known /\ b.st = "none" /\ b.call = "none"
  BY <1>1, <1>2, <1>3 DEF Effect, SameData, Doubted, AskedAgain
<1>4. CASE ~(~b.known /\ b.st = "none" /\ b.call = "none")
  <2>1. call \in {"none", "sent", "read"} /\ coming \in ListPages /\ untold \in BOOLEAN
    BY <1>1, NoPageIs DEF Lists
  <2>2. call = "read" => b.call = "read" /\ coming = b.coming /\ untold
    OBVIOUS
  <2>3. k = key /\ b.known => call = "sent"
    OBVIOUS
  <2>4. books'[k] = MarkedBook(b, call, coming, untold)
    BY <1>2, <1>4
  <2> HIDE DEF call, coming, untold
  <2>5. /\ books'[k] \in Lists /\ books'[k].call = call /\ books'[k].coming = coming /\ books'[k].untold = untold
        /\ books'[k].stale /\ books'[k].st = b.st /\ books'[k].known = b.known /\ books'[k].seen = b.seen
    BY <1>1, <2>1, <2>4, MarkedBookIs
  <2> QED BY <1>1, <2>2, <2>3, <2>5 DEF Effect, SameData, Doubted, AskedAgain
<1> QED BY <1>3, <1>4

LEMMA UnheardEffect ==
    ASSUME ListTypes, books' = Unheard
    PROVE  BooksDoubted /\ \A k \in AllKeys : AskedAgain(books[k]) => AskedAgain(books'[k])
<1> SUFFICES ASSUME NEW k \in AllKeys
             PROVE  Effect(k) /\ SameData(k) /\ Doubted(books'[k]) /\ (AskedAgain(books[k]) => AskedAgain(books'[k]))
  <2>1. books' = [k \in AllKeys |-> books'[k]]
    BY DEF Unheard
  <2> QED BY <2>1 DEF BooksDoubted, Effect
<1>1. books'[k] = Unsure(books[k])
  BY DEF Unheard, Unsure
<1> QED BY <1>1, BooksAre, UnsureIs DEF Effect, SameData, Doubted, AskedAgain

-----------------------------------------------------------------------------
(* The list of products: what keeps the parts of the invariant *)

\* No status loses a product.
NoneLost == \A s \in Statuses \cup {"all"} : Matches(s) \subseteq Matches(s)'

LEMMA FitKept ==
    ASSUME ListsFit,
           \/ Pending'
           \/ \A k \in AllKeys : Doubted(books'[k])
           \/ stock' = stock /\ (Pending => Pending') /\ \A k \in AllKeys : Faithful(k)
    PROVE  ListsFit'
<1> SUFFICES ASSUME ~Pending', NEW k \in AllKeys PROVE ListFits(k, books[k])'
  BY DEF ListsFit
<1>1. CASE Doubted(books'[k])
  BY <1>1 DEF Doubted, ListFits
<1>2. CASE stock' = stock /\ ~Pending /\ Faithful(k)
  <2>1. PageOf(k)' = PageOf(k)
    BY <1>2 DEF PageOf, Matches
  <2>2. ListFits(k, books'[k])
    BY <1>2 DEF ListsFit, Faithful
  <2> QED BY <2>1, <2>2 DEF ListFits
<1> QED BY <1>1, <1>2

LEMMA NoneLostIs ==
    ASSUME NoneLost, NEW s \in Statuses \cup {"all"}
    PROVE  /\ Cardinality(Matches(s)) \in Nat /\ Cardinality(Matches(s)') \in Nat
           /\ Cardinality(Matches(s)) <= Cardinality(Matches(s)')
<1>1. Matches(s)' \subseteq Finds /\ IsFiniteSet(Finds)
  BY InventoryAssumption DEF Matches
<1>2. IsFiniteSet(Matches(s)')
  BY <1>1, FS_Subset
<1> QED BY <1>2, FS_Subset, FS_CardinalityType DEF NoneLost

LEMMA ProductIs ==
    ASSUME NEW n \in Nat, NEW m \in Nat PROVE n * m \in Nat
OBVIOUS

LEMMA GrowKept ==
    ASSUME ListTypes, ListTypes', ListsGrow, \A k \in AllKeys : Effect(k),
           \/ resized'
           \/ /\ resized' = resized /\ NoneLost
              /\ \/ pageNo' = 0
                 \/ filter' = filter /\ pageNo' = pageNo
                 \/ filter' = filter /\ pageNo' * Limit < Cardinality(Matches(filter))
    PROVE  ListsGrow'
<1> SUFFICES ASSUME ~resized', NoneLost, ~resized PROVE ListsGrow'
  BY DEF ListsGrow
<1>1. /\ filter \in Statuses \cup {"all"} /\ pageNo' \in Nat /\ Limit \in Nat
      /\ \A k \in AllKeys : k[1] \in Statuses \cup {"all"}
  BY InventoryAssumption DEF ListTypes, AllKeys
<1>2. pageNo' * Limit \in Nat
  BY <1>1, ProductIs
<1>3. (pageNo = 0 \/ pageNo * Limit < Cardinality(Matches(filter)))'
  <2>1. pageNo' = 0 \/ (filter' = filter /\ pageNo' * Limit < Cardinality(Matches(filter)))
    BY DEF ListsGrow
  <2>2. CASE filter' = filter /\ pageNo' * Limit < Cardinality(Matches(filter))
    <3>1. pageNo' * Limit < Cardinality(Matches(filter)')
      BY <1>1, <1>2, <2>2, NoneLostIs
    <3> QED BY <2>2, <3>1
  <2> QED BY <2>1, <2>2
<1>4. ASSUME NEW k \in AllKeys
      PROVE  /\ books'[k].known => books'[k].seen.total <= Cardinality(Matches(k[1]))'
             /\ books'[k].call = "read" => books'[k].coming.total <= Cardinality(Matches(k[1]))'
  <2> DEFINE n == Cardinality(Matches(k[1]))
             m == Cardinality(Matches(k[1])')
  <2>1. n \in Nat /\ m \in Nat /\ n <= m
    BY <1>1, NoneLostIs
  <2>2. /\ books[k] \in Lists /\ books'[k] \in Lists
        /\ books[k].known => books[k].seen.total <= n
        /\ books[k].call = "read" => books[k].coming.total <= n
    BY DEF ListTypes, ListsGrow
  <2>3. PageOf(k).total = n
    BY PageOfIs
  <2> HIDE DEF n, m
  <2>4. /\ books'[k].known => books'[k].seen.total <= n
        /\ books'[k].call = "read" => books'[k].coming.total <= n
    BY <2>1, <2>2, <2>3 DEF Effect
  <2>5. books'[k].seen.total \in Nat /\ books'[k].coming.total \in Nat
    BY <2>2 DEF Lists, ListPages
  <2>6. /\ books'[k].known => books'[k].seen.total <= m
        /\ books'[k].call = "read" => books'[k].coming.total <= m
    BY <2>1, <2>4, <2>5
  <2> QED BY <2>6 DEF m
<1> QED BY <1>3, <1>4 DEF ListsGrow

\* The parts together
LEMMA ListKept ==
    ASSUME ListInv, ListTypes', \A k \in AllKeys : Effect(k),
           \/ Pending'
           \/ \A k \in AllKeys : Doubted(books'[k])
           \/ stock' = stock /\ (Pending => Pending') /\ \A k \in AllKeys : Faithful(k),
           \/ resized'
           \/ /\ resized' = resized /\ NoneLost
              /\ \/ pageNo' = 0
                 \/ filter' = filter /\ pageNo' = pageNo
                 \/ filter' = filter /\ pageNo' * Limit < Cardinality(Matches(filter)),
           DialogAsksAboutProducts',
           open' = "products" => AskedAgain(books'[Current']) /\ chosen' \subseteq Shown'
    PROVE  ListInv'
<1>1. ListsFit'
  BY FitKept DEF ListInv
<1>2. ListsGrow'
  BY GrowKept DEF ListInv
<1>3. AskedAgain(books[Current])' = AskedAgain(books'[Current'])
  BY DEF AskedAgain
<1> QED BY <1>1, <1>2, <1>3 DEF ListInv

LEMMA SameStock ==
    ASSUME stock' = stock
    PROVE  NoneLost /\ (doomed' \subseteq doomed /\ job' = job /\ (doomed' = {} \/ marred' = marred)
                        /\ DialogAsksAboutProducts => DialogAsksAboutProducts')
<1>1. NoneLost
  BY DEF NoneLost, Matches
<1> QED BY <1>1 DEF DialogAsksAboutProducts

\* What is shown is the same while the data are.
LEMMA SameShown ==
    ASSUME ListTypes, \A k \in AllKeys : SameData(k), UNCHANGED <<filter, pageNo, previous>>
    PROVE  Current' = Current /\ Shown' = Shown
<1>1. Current' = Current /\ Current \in AllKeys /\ previous \in AllKeys \cup {None}
  BY BooksAre DEF Current, ListTypes
<1>2. Data(books', Current, previous) = Data(books, Current, previous)
  BY <1>1 DEF Data, SameData
<1> QED BY <1>1, <1>2 DEF Shown

\* A step elsewhere that leaves the products as they are, or imports some.
LEMMA ListRests ==
    ASSUME ListInv, UNCHANGED <<inventory, open>>,
           \/ stock' = stock /\ (Pending => Pending')
           \/ Pending' /\ \E S : stock' = Upserted(S)
    PROVE  ListInv'
<1>1. ListTypes /\ BooksFollow /\ (\A k \in AllKeys : SameData(k))
  BY SameBooks DEF ListInv, inventory
<1>2. \A f \in Finds : stock[f] # "none" => stock'[f] = stock[f]
  BY DEF Upserted
<1>3. \A f \in Finds : stock'[f] = "none" => stock[f] = "none"
  BY <1>2
<1>4. NoneLost
  BY <1>2 DEF NoneLost, Matches
<1>5. stock' \in [Finds -> Statuses \cup {"none"}]
  BY <1>1 DEF ListTypes, Upserted, Statuses
<1>6. ListTypes'
  BY <1>1, <1>5 DEF ListTypes, inventory, listing
<1>7. DialogAsksAboutProducts'
  BY <1>1, <1>3 DEF ListInv, ListTypes, DialogAsksAboutProducts, inventory, listing
<1>8. Current' = Current /\ Shown' = Shown /\ books' = books
  BY <1>1, SameShown DEF inventory, listing
<1> QED BY <1>1, <1>4, <1>6, <1>7, <1>8, ListKept DEF BooksFollow, ListInv, inventory, listing

LEMMA ShownAreFinds ==
    ASSUME ListTypes PROVE Shown \subseteq Finds
<1>1. \A k \in AllKeys : books[k].seen.items \subseteq Finds
  BY BooksAre DEF Lists, ListPages
<1>2. Current \in AllKeys /\ previous \in AllKeys \cup {None}
  BY BooksAre DEF ListTypes
<1> QED BY <1>1, <1>2 DEF Shown, Data, NoPage

\* A click that leaves the list and the loops
LEMMA ClickKept ==
    ASSUME ListInv, Click, open = "products", open' = open, task' = task, chosen' \subseteq Shown,
           active' \in Finds \cup {None}, doomed' \subseteq Finds, marred' \in BOOLEAN, DialogAsksAboutProducts'
    PROVE  ListInv'
<1>1. ListTypes /\ BooksFollow /\ \A k \in AllKeys : SameData(k)
  BY SameBooks DEF ListInv, Click
<1>2. Current' = Current /\ Shown' = Shown /\ Shown \subseteq Finds
  BY <1>1, SameShown, ShownAreFinds DEF Click
<1>3. NoneLost /\ (Pending => Pending')
  BY DEF NoneLost, Matches, Click, Pending
<1>4. ListTypes'
  BY <1>1, <1>2 DEF ListTypes, Click
<1> QED BY <1>1, <1>2, <1>3, <1>4, ListKept DEF BooksFollow, ListInv, Click

LEMMA ClicksKept ==
    ASSUME ListInv, open = "products", open' = open, task' = task,
           \/ \E f \in Finds : ToggleProduct(f) \/ Preview(f) \/ DeleteOne(f)
           \/ ToggleProducts \/ ClearProducts \/ CloseDrawer \/ DeleteSelected \/ CancelDelete
    PROVE  ListInv'
<1>1. /\ ListTypes /\ chosen \subseteq Shown /\ Shown \subseteq Finds /\ DialogAsksAboutProducts
      /\ active \in Finds \cup {None} /\ doomed \subseteq Finds /\ marred \in BOOLEAN
  BY ShownAreFinds DEF ListInv, ListTypes
<1>2. ASSUME NEW S \in SUBSET Shown, Choose(S) PROVE ListInv'
  BY <1>1, <1>2, ClickKept DEF Choose, Click, DialogAsksAboutProducts
<1>3. ASSUME NEW S \in SUBSET Shown, AskDelete(S) PROVE ListInv'
  <2>1. (\E f \in S : stock[f] = "none") \in BOOLEAN
    OBVIOUS
  <2>2. marred' \in BOOLEAN /\ DialogAsksAboutProducts'
    BY <1>3, <2>1 DEF AskDelete, Click, DialogAsksAboutProducts
  <2> QED BY <1>1, <1>3, <2>2, ClickKept DEF AskDelete
<1>4. ASSUME NEW f \in Finds, ToggleProduct(f) \/ Preview(f) \/ DeleteOne(f) PROVE ListInv'
  <2>1. CASE ToggleProduct(f)
    BY <1>1, <1>2, <2>1 DEF ToggleProduct
  <2>2. CASE Preview(f)
    BY <1>1, <2>2, ClickKept DEF Preview, Click, DialogAsksAboutProducts
  <2>3. CASE DeleteOne(f)
    BY <1>3, <2>3 DEF DeleteOne
  <2> QED BY <1>4, <2>1, <2>2, <2>3
<1>5. CASE ToggleProducts \/ ClearProducts
  BY <1>1, <1>2, <1>5 DEF ToggleProducts, ClearProducts
<1>6. CASE CloseDrawer
  BY <1>1, <1>6, ClickKept DEF CloseDrawer, Click, DialogAsksAboutProducts
<1>7. CASE DeleteSelected
  BY <1>1, <1>3, <1>7 DEF DeleteSelected
<1>8. CASE CancelDelete
  BY <1>1, <1>8, ClickKept DEF CancelDelete, Click, DialogAsksAboutProducts
<1> QED BY <1>4, <1>5, <1>6, <1>7, <1>8

\* Another list comes into view.
LEMMA LookKept ==
    ASSUME ListInv, open = "products", open' = open, task' = task, NEW key \in AllKeys, Look(key, {}), Pages,
           \/ resized'
           \/ resized' = resized /\ (key[2] = 0 \/ (key[1] = filter /\ key[2] * Limit < Cardinality(Matches(filter)))),
           resized' \in BOOLEAN
    PROVE  ListInv'
<1>1. ListTypes /\ books' \in Viewed(key) /\ filter' = key[1] /\ pageNo' = key[2]
  BY DEF ListInv, Look
<1>2. BooksFollow /\ AskedAgain(books'[key])
  BY <1>1, ViewedEffect
<1>3. key = <<key[1], key[2]>> /\ key[1] \in Filters /\ key[2] \in 0 .. LastPage0
  BY DEF AllKeys
<1>4. Current' = key
  BY <1>1, <1>3 DEF Current
<1>5. chosen' = {}
  BY DEF Look, Pruned
<1>6. previous' \in AllKeys \cup {None}
  BY <1>1, BooksAre DEF Look, ListTypes
<1>7. ListTypes'
  <2>1. books' \in [AllKeys -> Lists] /\ \A k \in AllKeys : books'[k].st = "ok" => books'[k].known
    BY <1>2 DEF BooksFollow, Effect
  <2> QED BY <1>1, <1>3, <1>5, <1>6, <2>1 DEF ListTypes, Pages
<1>8. NoneLost /\ DialogAsksAboutProducts' /\ (Pending => Pending')
  BY SameStock DEF ListInv, Pages, Pending
<1> QED BY <1>1, <1>2, <1>4, <1>5, <1>7, <1>8, ListKept DEF BooksFollow, Pages

LEMMA MoreIsMore ==
    ASSUME NEW n \in Nat, NEW m \in Nat PROVE n * m <= (n + 1) * m
<1>1. (n + 1) * m = n * m + m
  OBVIOUS
<1> QED BY <1>1, ProductIs

LEMMA TurnKept ==
    ASSUME ListInv, open = "products", open' = open, task' = task, NEW p \in 0 .. LastPage0, TurnTo(p)
    PROVE  ListInv'
<1>1. /\ ListTypes /\ Look(<<filter, p>>, {}) /\ Pages /\ resized' = (resized \/ ~books[Current].known)
      /\ filter \in Filters /\ pageNo \in Nat /\ p \in Nat /\ Limit \in Nat /\ <<filter, p>> \in AllKeys
  BY InventoryAssumption DEF TurnTo, ListInv, ListTypes, AllKeys
<1>2. resized' \in BOOLEAN
  BY <1>1
<1>3. ASSUME ~resized' PROVE resized' = resized /\ (p = 0 \/ p * Limit < Cardinality(Matches(filter)))
  <2> DEFINE n == Cardinality(Matches(filter))
  <2>1. resized' = resized /\ ~resized /\ books[Current].known /\ Current[1] = filter
    BY <1>1, <1>3 DEF Current, ListInv, ListTypes
  <2>2. /\ pageNo = 0 \/ pageNo * Limit < n
        /\ books[Current].seen.total <= n
    BY <2>1, BooksAre DEF ListInv, ListsGrow
  <2>3. n \in Nat /\ books[Current].seen.total \in Nat
    BY <1>1, BooksAre, MatchesAre DEF Lists, ListPages
  <2> HIDE DEF n
  <2>4. CASE p = pageNo - 1
    <3>1. pageNo = p + 1
      BY <1>1, <2>4
    <3>2. p * Limit <= pageNo * Limit
      BY <1>1, <3>1, MoreIsMore
    <3>3. p * Limit \in Nat /\ pageNo * Limit \in Nat
      BY <1>1, ProductIs
    <3> QED BY <1>1, <2>1, <2>2, <2>3, <3>1, <3>2, <3>3 DEF n
  <2>5. CASE p * Limit < Data(books, Current, previous).total
    <3>1. Data(books, Current, previous) = books[Current].seen
      BY <2>1 DEF Data
    <3>2. p * Limit \in Nat
      BY <1>1, ProductIs
    <3> QED BY <2>1, <2>2, <2>3, <2>5, <3>1, <3>2 DEF n
  <2> QED BY <2>4, <2>5 DEF TurnTo
<1> DEFINE key == <<filter, p>>
<1>4. key \in AllKeys /\ Look(key, {}) /\ key[1] = filter /\ key[2] = p
  BY <1>1
<1>5. \/ resized'
      \/ resized' = resized /\ (key[2] = 0 \/ (key[1] = filter /\ key[2] * Limit < Cardinality(Matches(filter))))
  BY <1>3, <1>4
<1> HIDE DEF key
<1> QED BY <1>1, <1>2, <1>4, <1>5, LookKept

LEMMA FilterKept ==
    ASSUME ListInv, open = "products", open' = open, task' = task, NEW s \in Filters, SetFilter(s)
    PROVE  ListInv'
<1> DEFINE key == <<s, 0>>
<1>1. key \in AllKeys /\ Look(key, {}) /\ Pages /\ resized' = resized /\ key[2] = 0
  BY InventoryAssumption DEF SetFilter, FirstPage, AllKeys
<1>2. resized' \in BOOLEAN
  BY <1>1 DEF ListInv, ListTypes
<1> HIDE DEF key
<1> QED BY <1>1, <1>2, LookKept

LEMMA RefetchKept ==
    ASSUME ListInv, open = "products", open' = open, task' = task, RefetchList
    PROVE  ListInv'
<1>1. /\ ListTypes /\ Current \in AllKeys /\ UNCHANGED listing /\ UNCHANGED <<stock, job, latest, resized>>
      /\ books[Current].call = "none"
  BY BooksAre DEF ListInv, RefetchList
<1>2. books' = [books EXCEPT ![Current] = Sent(books[Current])]
  BY <1>1, BooksAre DEF RefetchList, Sent
<1>3. BooksFollow /\ (\A k \in AllKeys : SameData(k)) /\ books'[Current].call = "sent"
  BY <1>1, <1>2, AskEffect
<1>4. Current' = Current /\ Shown' = Shown
  BY <1>1, <1>3, SameShown DEF listing
<1>5. NoneLost /\ DialogAsksAboutProducts' /\ (Pending => Pending')
  BY <1>1, SameStock DEF ListInv, listing, Pending
<1>6. ListTypes'
  <2>1. books' \in [AllKeys -> Lists] /\ \A k \in AllKeys : books'[k].st = "ok" => books'[k].known
    BY <1>3 DEF BooksFollow, Effect
  <2> QED BY <1>1, <2>1 DEF ListTypes, listing
<1>7. AskedAgain(books'[Current'])
  BY <1>3, <1>4 DEF AskedAgain
<1> QED BY <1>1, <1>3, <1>4, <1>5, <1>6, <1>7, ListKept DEF BooksFollow, ListInv, listing

\* A request for a list reaches the server, or its answer the page.
LEMMA ServeListKept ==
    ASSUME ListInv, open' = open, task' = task, NEW key \in AllKeys, ServeList(key)
    PROVE  ListInv'
<1>1. /\ ListTypes /\ Current \in AllKeys /\ UNCHANGED <<stock, filter, pageNo, previous, active, doomed, marred>>
      /\ UNCHANGED <<job, latest, resized>> /\ Current' = Current /\ chosen' \subseteq chosen
  BY BooksAre DEF ListInv, ServeList, ReadList, ListArrives, listing, Current, Pruned
<1>2. BooksFollow
  BY <1>1, ReadEffect, ArriveEffect DEF ServeList
<1>3. NoneLost /\ DialogAsksAboutProducts' /\ (Pending => Pending')
  BY <1>1, SameStock DEF ListInv, Pending
<1>4. ListTypes'
  <2>1. books' \in [AllKeys -> Lists] /\ \A k \in AllKeys : books'[k].st = "ok" => books'[k].known
    BY <1>2 DEF BooksFollow, Effect
  <2> QED BY <1>1, <2>1 DEF ListTypes
<1>5. open' = "products" => AskedAgain(books'[Current']) /\ chosen' \subseteq Shown'
  <2>1. CASE ReadList(key)
    <3>1. /\ \A k \in AllKeys : SameData(k)
          /\ books'[key].call = "read" /\ \A k \in AllKeys \ {key} : books'[k] = books[k]
      BY <1>1, <2>1, ReadEffect
    <3>2. Shown' = Shown /\ chosen' = chosen
      BY <1>1, <2>1, <3>1, SameShown DEF ReadList, listing
    <3>3. AskedAgain(books[Current]) => AskedAgain(books'[Current])
      BY <1>1, <3>1 DEF AskedAgain
    <3> QED BY <1>1, <3>2, <3>3 DEF ListInv
  <2>2. CASE ListArrives(key)
    <3>1. AskedAgain(books'[key]) /\ \A k \in AllKeys \ {key} : books'[k] = books[k]
      BY <1>1, <2>2, ArriveEffect
    <3>2. chosen' = Pruned(chosen, books', Current, previous)
      BY <2>2 DEF ListArrives
    <3>3. chosen' \subseteq Shown'
      BY <1>1, <3>2 DEF Pruned, Shown
    <3>4. AskedAgain(books[Current]) => AskedAgain(books'[Current])
      BY <1>1, <3>1
    <3> QED BY <1>1, <3>3, <3>4 DEF ListInv
  <2> QED BY <2>1, <2>2 DEF ServeList
<1> QED BY <1>1, <1>2, <1>3, <1>4, <1>5, ListKept DEF BooksFollow

\* The page is opened, and left.
LEMMA OpenKept ==
    ASSUME TaskTypes, ListInv, GoToProducts
    PROVE  ListInv'
<1> DEFINE key == <<"all", 0>>
<1>1. ListTypes /\ key \in AllKeys /\ books' \in Viewed(key) /\ filter' = "all" /\ pageNo' = 0
  BY InventoryAssumption DEF ListInv, GoToProducts, OpenProducts, AllKeys
<1>2. Current' = key
  BY <1>1 DEF Current
<1>3. BooksFollow /\ AskedAgain(books'[key])
  <2> HIDE DEF key
  <2> QED BY <1>1, ViewedEffect
<1>4. \A t \in Tasks : task'[t] = [task[t] EXCEPT !.shown = FALSE]
  BY DEF GoToProducts, CloseDiscovery
<1>5. /\ UNCHANGED <<stock, job, latest, resized>> /\ chosen' = {} /\ doomed' = {} /\ active' = None
      /\ marred' = FALSE /\ previous' = None /\ open' = "products"
  BY DEF GoToProducts, OpenProducts
<1>6. Pending => Pending'
  <2>1. \A t \in Tasks : task'[t].kind = task[t].kind /\ task'[t].call = task[t].call
    BY <1>4 DEF TaskTypes, TaskRecords
  <2> QED BY <1>5, <2>1 DEF Pending
<1>7. NoneLost /\ DialogAsksAboutProducts'
  BY <1>5, SameStock DEF DialogAsksAboutProducts
<1>8. ListTypes'
  <2>1. books' \in [AllKeys -> Lists] /\ \A k \in AllKeys : books'[k].st = "ok" => books'[k].known
    BY <1>3 DEF BooksFollow, Effect
  <2>2. "all" \in Filters /\ 0 \in 0 .. LastPage0
    BY InventoryAssumption
  <2>3. filter' \in Filters /\ pageNo' \in 0 .. LastPage0
    BY <1>1, <2>2
  <2> HIDE DEF key
  <2> QED BY <1>1, <1>5, <2>1, <2>3 DEF ListTypes
<1>9. AskedAgain(books'[Current']) /\ chosen' \subseteq Shown' /\ pageNo' = 0 /\ stock' = stock /\ resized' = resized
  BY <1>1, <1>2, <1>3, <1>5
<1> HIDE DEF key
<1> QED BY <1>3, <1>6, <1>7, <1>8, <1>9, ListKept DEF BooksFollow

LEMMA CloseKept ==
    ASSUME ListInv, GoToDiscovery
    PROVE  ListInv'
<1>1. ListTypes /\ BooksFollow
  BY SameBooks DEF ListInv, GoToDiscovery, CloseProducts
<1>2. /\ UNCHANGED <<stock, task, resized>> /\ chosen' = {} /\ doomed' = {} /\ active' = None /\ marred' = FALSE
      /\ previous' = None /\ filter' = "all" /\ pageNo' = 0 /\ latest' = None /\ open' = "discovery" /\ books' = books
      /\ job' = [j \in Jobs |-> [job[j] EXCEPT !.shown = FALSE]]
  BY DEF GoToDiscovery, CloseProducts, discovery, working
<1>3. ASSUME NEW j \in Jobs
      PROVE  /\ job'[j] \in LoopRecords /\ job'[j].kind = job[j].kind /\ job'[j].to = job[j].to
             /\ job'[j].all = job[j].all /\ job'[j].todo = job[j].todo /\ job'[j].call = job[j].call
  BY <1>1, <1>2 DEF ListTypes, LoopRecords
<1>4. NoneLost /\ DialogAsksAboutProducts' /\ (Pending => Pending')
  BY <1>2, <1>3, SameStock DEF DialogAsksAboutProducts, Pending
<1>5. ListTypes'
  <2>1. "all" \in Filters /\ 0 \in 0 .. LastPage0
    BY InventoryAssumption
  <2>2. job' \in [Jobs -> LoopRecords]
    BY <1>2, <1>3
  <2>3. \A j \in Jobs : job'[j].todo \subseteq job'[j].all /\ (job'[j].kind = "status" => job'[j].to \in Statuses)
    BY <1>1, <1>3 DEF ListTypes
  <2> QED BY <1>1, <1>2, <2>1, <2>2, <2>3 DEF ListTypes
<1> QED BY <1>1, <1>2, <1>4, <1>5, ListKept DEF BooksFollow

-----------------------------------------------------------------------------
(* The list of products: loops *)

\* A loop that is begun
LEMMA RunKept ==
    ASSUME ListInv, open = "products", open' = open, task' = task, NEW S \in SUBSET Finds,
           NEW kind \in {"status", "add", "delete"}, NEW to \in Statuses \cup {"none"},
           kind = "status" => to \in Statuses, Run(kind, to, S)
    PROVE  ListInv'
<1> DEFINE free == {i \in Jobs : job[i] = NoJob}
           j == Min(free)
           b == [kind |-> kind, to |-> to, all |-> S, todo |-> S, call |-> "sent", shown |-> TRUE]
<1>1. ListTypes /\ BooksFollow /\ (\A k \in AllKeys : SameData(k)) /\ UNCHANGED listing /\ UNCHANGED <<stock, books, resized>>
  BY SameBooks DEF ListInv, Run
<1>2. j \in Jobs /\ job[j] = NoJob
  <2>1. free \in SUBSET Nat /\ free # {}
    BY InventoryAssumption DEF Run
  <2>2. Min(free) \in free
    BY <2>1, LeastIs
  <2> QED BY <2>2
<1>3. job' = [job EXCEPT ![j] = b] /\ latest' \in {j, latest}
  BY DEF Run
<1>4. b \in LoopRecords /\ b.todo = b.all /\ (b.kind = "status" => b.to \in Statuses) /\ b.call = "sent"
  BY DEF LoopRecords
<1> HIDE DEF b, j
<1>5. job'[j] = b /\ (\A i \in Jobs \ {j} : job'[i] = job[i]) /\ job' \in [Jobs -> LoopRecords]
  BY <1>1, <1>2, <1>3, <1>4 DEF ListTypes
<1>6. ListTypes'
  BY <1>1, <1>2, <1>3, <1>4, <1>5 DEF ListTypes, listing
<1>7. NoneLost /\ (Pending => Pending')
  BY <1>1, <1>2, <1>5 DEF NoneLost, Matches, Pending, NoJob
<1>8. DialogAsksAboutProducts'
  <2>1. job[j].kind # "delete"
    BY <1>2 DEF NoJob
  <2> QED BY <1>1, <1>5, <2>1 DEF ListInv, DialogAsksAboutProducts, listing
<1>9. Current' = Current /\ Shown' = Shown
  BY <1>1, SameShown DEF listing
<1> QED BY <1>1, <1>6, <1>7, <1>8, <1>9, ListKept DEF BooksFollow, ListInv, listing

LEMMA ProductsKept ==
    ASSUME ListInv, open = "products", open' = open, task' = task, UseProducts
    PROVE  ListInv'
<1>1. chosen \subseteq Finds /\ doomed \subseteq Finds /\ active \in Finds \cup {None}
  BY DEF ListInv, ListTypes
<1>2. ASSUME NEW s \in Filters \ {"all"}, ChangeSelectedStatus(s) PROVE ListInv'
  <2>1. s \in Statuses
    BY InventoryAssumption
  <2> QED BY <1>1, <1>2, <2>1, RunKept DEF ChangeSelectedStatus
<1>3. CASE ConfirmDelete \/ QueueSelected
  BY <1>1, <1>3, RunKept DEF ConfirmDelete, QueueSelected
<1>4. CASE QueueActive
  BY <1>1, <1>4, RunKept DEF QueueActive
<1> QED BY <1>2, <1>3, <1>4, FilterKept, TurnKept, RefetchKept, ClicksKept DEF UseProducts

\* The types of the loops
JobTypes ==
    /\ job \in [Jobs -> LoopRecords]
    /\ \A j \in Jobs : job[j].todo \subseteq job[j].all /\ (job[j].kind = "status" => job[j].to \in Statuses)

\* A loop is answered, and goes on with its next product.
CalledJob(b, call) == [b EXCEPT !.call = call]
NextJob(b, f) == [b EXCEPT !.todo = @ \ {f}, !.call = "sent"]

LEMMA CalledJobIs ==
    ASSUME NEW b \in LoopRecords, NEW call \in {"ok", "error"}
    PROVE  LET m == CalledJob(b, call) IN
           /\ m \in LoopRecords /\ m.kind = b.kind /\ m.to = b.to /\ m.all = b.all /\ m.todo = b.todo
           /\ m.call = call /\ m.shown = b.shown
BY DEF CalledJob, LoopRecords

LEMMA NextJobIs ==
    ASSUME NEW b \in LoopRecords, NEW f
    PROVE  LET m == NextJob(b, f) IN
           /\ m \in LoopRecords /\ m.kind = b.kind /\ m.to = b.to /\ m.all = b.all /\ m.todo \subseteq b.todo
           /\ m.call = "sent" /\ m.shown = b.shown
BY DEF NextJob, LoopRecords

LEMMA JobMoves ==
    ASSUME JobTypes, NEW j \in Jobs, NEW b \in LoopRecords, b.todo \subseteq b.all,
           b.kind = "status" => b.to \in Statuses, job' = [job EXCEPT ![j] = b]
    PROVE  JobTypes' /\ job'[j] = b /\ \A i \in Jobs \ {j} : job'[i] = job[i]
<1>1. job' \in [Jobs -> LoopRecords] /\ job'[j] = b /\ \A i \in Jobs \ {j} : job'[i] = job[i]
  BY DEF JobTypes
<1> QED BY <1>1 DEF JobTypes

\* The answer to a change of one product, or to one product for the queue
LEMMA ServeJobKept ==
    ASSUME ListInv, open' = open, task' = task, NEW j \in Jobs, ServeJob(j)
    PROVE  ListInv'
<1>1. /\ ListTypes /\ BooksFollow /\ (\A k \in AllKeys : SameData(k)) /\ UNCHANGED listing /\ UNCHANGED <<books, latest>>
      /\ JobTypes /\ job[j] \in LoopRecords /\ job[j].call = "sent"
  BY SameBooks DEF ListInv, ServeJob, ListTypes, JobTypes
<1>2. PICK answer \in {"ok", "error"}, done \in BOOLEAN :
        /\ job' = [job EXCEPT ![j].call = answer]
        /\ stock' = CASE done /\ job[j].kind = "delete" -> Deleted(Now(j))
                      [] done /\ job[j].kind = "status" -> [stock EXCEPT ![Now(j)] = job[j].to]
                      [] OTHER -> stock
        /\ resized' = (resized \/ stock' # stock)
  BY DEF ServeJob
<1> DEFINE b == CalledJob(job[j], answer)
<1>3. job' = [job EXCEPT ![j] = b]
  BY <1>1, <1>2 DEF JobTypes, CalledJob
<1>4. /\ b \in LoopRecords /\ b.kind = job[j].kind /\ b.to = job[j].to /\ b.all = job[j].all /\ b.todo = job[j].todo
      /\ b.call = answer
  BY <1>1, CalledJobIs
<1> HIDE DEF b
<1>5. JobTypes' /\ job'[j] = b /\ \A i \in Jobs \ {j} : job'[i] = job[i]
  BY <1>1, <1>3, <1>4, JobMoves DEF JobTypes
<1>6. /\ stock' \in [Finds -> Statuses \cup {"none"}]
      /\ \A f \in Finds : stock'[f] = "none" => stock[f] = "none" \/ job[j].kind = "delete"
      /\ job[j].kind \notin {"delete", "status"} => stock' = stock
  <2> DEFINE f == Now(j)
  <2>1. stock \in [Finds -> Statuses \cup {"none"}] /\ (job[j].kind = "status" => job[j].to \in Statuses) /\ "none" \notin Statuses
    BY <1>1 DEF ListTypes, Statuses
  <2>2. \/ stock' = [stock EXCEPT ![f] = "none"] /\ job[j].kind = "delete"
        \/ stock' = [stock EXCEPT ![f] = job[j].to] /\ job[j].kind = "status"
        \/ stock' = stock
    BY <1>2 DEF Deleted
  <2> HIDE DEF f
  <2> QED BY <2>1, <2>2
<1>7. ListTypes'
  <2>1. resized' \in BOOLEAN
    BY <1>2
  <2> QED BY <1>1, <1>5, <1>6, <2>1 DEF ListTypes, JobTypes, listing
<1>8. DialogAsksAboutProducts'
  <2> SUFFICES ASSUME NEW f \in doomed, stock'[f] = "none"
               PROVE  marred \/ \E i \in Jobs : job'[i].kind = "delete"
    BY <1>1 DEF DialogAsksAboutProducts, listing
  <2>1. f \in Finds
    BY <1>1 DEF ListTypes
  <2>2. CASE job[j].kind = "delete"
    BY <1>4, <1>5, <2>2
  <2>3. CASE stock[f] = "none"
    BY <1>4, <1>5, <2>3 DEF ListInv, DialogAsksAboutProducts
  <2> QED BY <1>6, <2>1, <2>2, <2>3
<1>9. Pending' \/ (stock' = stock /\ (Pending => Pending'))
  <2>1. CASE job[j].kind = "add"
    <3>1. stock' = stock
      BY <1>6, <2>1
    <3> QED BY <1>1, <1>5, <2>1, <3>1 DEF Pending
  <2>2. CASE job[j].kind # "add"
    BY <1>4, <1>5, <2>2 DEF Pending
  <2> QED BY <2>1, <2>2
<1>10. resized' \/ (resized' = resized /\ NoneLost)
  BY <1>1, <1>2, SameStock DEF ListTypes
<1>11. Current' = Current /\ Shown' = Shown
  BY <1>1, SameShown DEF listing
<1> QED BY <1>1, <1>7, <1>8, <1>9, <1>10, <1>11, ListKept DEF BooksFollow, ListInv, listing

\* A step that invalidates the lists, or is not told to them
LEMMA DoubtKept ==
    ASSUME ListInv, BooksDoubted, UNCHANGED <<filter, pageNo, previous, open>>, chosen' \subseteq chosen,
           open = "products" => AskedAgain(books'[Current]),
           resized' \/ (resized' = resized /\ stock' = stock), resized' \in BOOLEAN,
           stock' \in [Finds -> Statuses \cup {"none"}], active' \in Finds \cup {None}, doomed' \subseteq doomed,
           marred' \in BOOLEAN, JobTypes', latest' \in Jobs \cup {None}, DialogAsksAboutProducts'
    PROVE  ListInv'
<1>1. ListTypes /\ (\A k \in AllKeys : Effect(k)) /\ (\A k \in AllKeys : Doubted(books'[k]))
  BY DEF ListInv, BooksDoubted
<1>2. Current' = Current /\ Shown' = Shown
  BY <1>1, SameShown DEF BooksDoubted
<1>3. ListTypes'
  <2>1. books' \in [AllKeys -> Lists] /\ \A k \in AllKeys : books'[k].st = "ok" => books'[k].known
    BY DEF BooksDoubted, Effect
  <2> QED BY <1>1, <2>1 DEF ListTypes, JobTypes
<1>4. resized' \/ (resized' = resized /\ NoneLost)
  BY SameStock
<1> QED BY <1>1, <1>2, <1>3, <1>4, ListKept DEF ListInv

LEMMA ToldBooks ==
    ASSUME ListInv, books' \in {Invalidated(InView), Unheard}
    PROVE  BooksDoubted /\ (open = "products" => AskedAgain(books'[Current]))
<1>1. ListTypes /\ Current \in AllKeys /\ InView \in AllKeys \cup {None}
  BY BooksAre DEF ListInv, InView
<1>2. CASE books' = Invalidated(InView)
  BY <1>1, <1>2, InvalidatedEffect DEF InView
<1>3. CASE books' = Unheard
  BY <1>1, <1>3, UnheardEffect DEF ListInv
<1> QED BY <1>2, <1>3

\* A loop goes on, or ends: a change of a product is told to the lists, a queued one does not concern them.
LEMMA ContinueJobKept ==
    ASSUME ListInv, open' = open, task' = task, NEW j \in Jobs, ContinueJob(j, InView)
    PROVE  ListInv'
<1>1. /\ ListTypes /\ JobTypes /\ job[j] \in LoopRecords /\ job[j].call \in {"ok", "error"} /\ books' = Told(j, InView)
      /\ UNCHANGED <<stock, filter, pageNo, previous, resized>>
  BY DEF ListInv, ListTypes, JobTypes, ContinueJob, JobGoesOn, JobEnds, Ended, listing
<1>2. PICK b \in LoopRecords :
        /\ job' = [job EXCEPT ![j] = b] /\ b.todo \subseteq b.all /\ (b.kind = "status" => b.to \in Statuses)
        /\ b.kind \in {job[j].kind, "none"} /\ b.call \in {"none", "sent"} /\ (JobGoesOn(j, InView) => b.kind = job[j].kind)
  <2>1. CASE JobGoesOn(j, InView)
    <3> DEFINE b == NextJob(job[j], Now(j))
    <3>1. job' = [job EXCEPT ![j] = b]
      BY <1>1, <2>1 DEF JobGoesOn, JobTypes, NextJob
    <3>2. /\ b \in LoopRecords /\ b.kind = job[j].kind /\ b.to = job[j].to /\ b.all = job[j].all
          /\ b.todo \subseteq job[j].todo /\ b.call = "sent"
      BY <1>1, NextJobIs
    <3> HIDE DEF b
    <3> QED BY <1>1, <3>1, <3>2 DEF JobTypes
  <2>2. CASE ~JobGoesOn(j, InView)
    <3>1. NoJob \in LoopRecords /\ NoJob.todo \subseteq NoJob.all /\ NoJob.kind = "none" /\ NoJob.call = "none"
      BY DEF NoJob, LoopRecords
    <3> QED BY <2>2, <3>1 DEF ContinueJob, JobEnds
  <2> QED BY <2>1, <2>2
<1>3. JobTypes' /\ job'[j] = b /\ \A i \in Jobs \ {j} : job'[i] = job[i]
  BY <1>1, <1>2, JobMoves
<1>4. /\ chosen' \subseteq chosen /\ active' \in Finds \cup {None} /\ doomed' \subseteq doomed /\ marred' \in BOOLEAN
      /\ latest' \in Jobs \cup {None}
  BY <1>1 DEF ListTypes, ContinueJob, JobGoesOn, JobEnds, Answered, listing
<1>5. DialogAsksAboutProducts'
  <2> SUFFICES ASSUME NEW f \in doomed', stock[f] = "none"
               PROVE  marred' \/ \E i \in Jobs : job'[i].kind = "delete"
    BY <1>1 DEF DialogAsksAboutProducts
  <2>1. CASE JobGoesOn(j, InView)
    <3>1. doomed' = doomed /\ marred' = marred /\ b.kind = job[j].kind
      BY <1>2, <2>1 DEF JobGoesOn, listing
    <3> QED BY <1>3, <3>1 DEF ListInv, DialogAsksAboutProducts
  <2>2. CASE JobEnds(j, InView)
    <3>1. marred' \in BOOLEAN /\ doomed' # {} /\ f \in doomed
      BY <1>4
    <3>2. marred => marred'
      BY <2>2, <3>1 DEF JobEnds
    <3>3. job[j].kind = "delete" => marred'
      BY <1>1, <2>2, <3>1 DEF JobEnds, Answered
    <3> QED BY <1>3, <3>1, <3>2, <3>3 DEF ListInv, DialogAsksAboutProducts
  <2> QED BY <2>1, <2>2 DEF ContinueJob
<1>6. CASE job[j].kind # "add"
  <2>1. books' \in {Invalidated(InView), Unheard}
    BY <1>1, <1>6 DEF Told
  <2>2. resized' \in BOOLEAN /\ stock' \in [Finds -> Statuses \cup {"none"}]
    BY <1>1 DEF ListTypes
  <2> QED BY <1>1, <1>3, <1>4, <1>5, <2>1, <2>2, ToldBooks, DoubtKept
<1>7. CASE job[j].kind = "add"
  <2>1. books' = books
    BY <1>1, <1>7 DEF Told
  <2>2. BooksFollow /\ (\A k \in AllKeys : SameData(k))
    BY <1>1, <2>1, SameBooks
  <2>3. Current' = Current /\ Shown' = Shown
    BY <1>1, <2>2, SameShown
  <2>4. Pending => Pending'
    BY <1>3, <1>7 DEF Pending
  <2>5. ListTypes'
    BY <1>1, <1>3, <1>4, <2>1 DEF ListTypes, JobTypes
  <2>6. NoneLost
    BY <1>1, SameStock
  <2> QED BY <1>1, <1>4, <1>5, <2>1, <2>2, <2>3, <2>4, <2>5, <2>6, ListKept DEF BooksFollow, ListInv
<1> QED BY <1>6, <1>7

LEMMA ElsewhereKept ==
    ASSUME ListInv, open' = open, NEW f \in Finds, DeleteElsewhere(f)
    PROVE  ListInv'
<1>1. /\ ListTypes /\ stock' = Deleted(f) /\ books' = Unheard /\ resized' = TRUE /\ marred' = (doomed # {})
      /\ UNCHANGED <<filter, pageNo, previous, chosen, active, doomed, job, latest>>
  BY DEF ListInv, DeleteElsewhere, DeletedElsewhere
<1>2. stock' \in [Finds -> Statuses \cup {"none"}]
  BY <1>1 DEF ListTypes, Deleted
<1>3. marred' \in BOOLEAN /\ DialogAsksAboutProducts' /\ JobTypes'
  BY <1>1 DEF DialogAsksAboutProducts, ListTypes, JobTypes
<1>4. active' \in Finds \cup {None} /\ latest' \in Jobs \cup {None}
  BY <1>1 DEF ListTypes
<1> QED BY <1>1, <1>2, <1>3, <1>4, ToldBooks, DoubtKept

LEMMA EndImportKept ==
    ASSUME ListInv, NEW t \in Tasks, EndImport(t)
    PROVE  ListInv'
<1>1. /\ ListTypes /\ books' \in {Invalidated(InView), Unheard}
      /\ UNCHANGED <<open, filter, pageNo, previous, chosen, active, doomed, marred, job, latest, resized, stock>>
  BY DEF ListInv, EndImport, ImportEnds, listing
<1>2. /\ active' \in Finds \cup {None} /\ latest' \in Jobs \cup {None} /\ marred' \in BOOLEAN /\ resized' \in BOOLEAN
      /\ stock' \in [Finds -> Statuses \cup {"none"}]
  BY <1>1 DEF ListTypes
<1>3. DialogAsksAboutProducts' /\ JobTypes'
  BY <1>1 DEF ListInv, DialogAsksAboutProducts, ListTypes, JobTypes
<1> QED BY <1>1, <1>2, <1>3, ToldBooks, DoubtKept

\* Imports reach the server; a loop of queue items does not concern the products.
LEMMA ServeTaskKept ==
    ASSUME TaskTypes, ListInv, NEW t \in Tasks, ServeTask(t)
    PROVE  ListInv'
<1>1. UNCHANGED <<inventory, open>> /\ Serve(t) /\ task \in [Tasks -> TaskRecords] /\ job' = job
  BY DEF ServeTask, TaskTypes, inventory
<1>2. ASSUME NEW answer \in {"ok", "error"}, Reply(t, answer)
      PROVE  /\ task'[t].call = answer /\ task'[t].kind = task[t].kind
             /\ \A u \in Tasks \ {t} : task'[u] = task[u]
  <2>1. task' = [task EXCEPT ![t] = Called(task[t], answer)] /\ task[t] \in TaskRecords
    BY <1>1, <1>2 DEF Reply, Called
  <2> QED BY <1>1, <2>1, CalledIs
<1>3. CASE ServeImport(t) \/ ServeImportAll(t)
  <2>1. PICK answer \in {"ok", "error"} : Reply(t, answer)
    BY <1>3 DEF ServeImport, ServeImportAll
  <2>2. Pending'
    BY <1>2, <1>3, <2>1 DEF Pending, ServeImport, ServeImportAll
  <2>3. stock' = stock \/ \E S : stock' = Upserted(S)
    BY <1>3 DEF ServeImport, ServeImportAll
  <2> QED BY <1>1, <2>2, <2>3, ListRests
<1>4. CASE ServeLoop(t)
  <2>1. PICK answer \in {"ok", "error"} : Reply(t, answer)
    BY <1>4 DEF ServeLoop
  <2>2. stock' = stock /\ task[t].kind \in {"queue", "generate"}
    BY <1>4 DEF ServeLoop
  <2>3. Pending => Pending'
    BY <1>1, <1>2, <2>1, <2>2 DEF Pending
  <2> QED BY <1>1, <2>2, <2>3, ListRests
<1> QED BY <1>1, <1>3, <1>4 DEF Serve

\* The discovery page, and loops of queue items, leave the products and what is pending.
LEMMA DiscoveryKept ==
    ASSUME TaskTypes, ListInv,
           OnDiscovery \/ (\E k \in Keys : AnswerSearch(k)) \/ (\E t \in Tasks : ContinueTask(t))
    PROVE  ListInv'
<1>1. task \in [Tasks -> TaskRecords] /\ \A t \in Tasks : task[t] \in TaskRecords
  BY DEF TaskTypes
<1>2. ASSUME NEW kind, NEW from, NEW S, Begin(kind, from, S), job' = job PROVE Pending => Pending'
  <2> DEFINE t == Min({u \in Tasks : task[u] = NoTask})
  <2>1. {u \in Tasks : task[u] = NoTask} \in SUBSET Nat /\ {u \in Tasks : task[u] = NoTask} # {}
    BY <1>2, DiscoveryAssumption DEF Begin
  <2>2. task[t] = NoTask
    BY <2>1, LeastIs
  <2>3. \A u \in Tasks \ {t} : task'[u] = task[u]
    BY <1>1, <1>2 DEF Begin
  <2> HIDE DEF t
  <2> QED BY <1>2, <2>2, <2>3 DEF Pending, NoTask
<1>3. CASE UNCHANGED <<inventory, open, stock, task>>
  BY <1>3, ListRests DEF Pending, inventory
<1>4. CASE OnDiscovery
  <2>1. UNCHANGED <<inventory, open, stock>> /\ job' = job
    BY <1>4 DEF OnDiscovery, inventory, Search, RunDraft, RefreshResults, RunWith, RefreshPicture, BackToDiscovery,
       TurnPage, SearchPicture, SetFilters, SwitchMode, ResetFilters, SetDraft, SettingsArrive, Unrelated, Work, Toggle,
       ToggleAll, ClearSelection, Select, ImportOne, AddOne, ImportSelected, AddSelected, GenerateSelected, Begin
  <2>2. Pending => Pending'
    <3>1. CASE Search
      BY <2>1, <3>1 DEF Pending, Search, RunDraft, RefreshResults, RunWith, RefreshPicture, BackToDiscovery, TurnPage,
         SearchPicture, SetFilters, SwitchMode, ResetFilters, SetDraft, SettingsArrive, Unrelated, working
    <3>2. CASE (\E f \in Finds : Toggle(f)) \/ ToggleAll \/ ClearSelection
      BY <2>1, <3>2 DEF Pending, Toggle, ToggleAll, ClearSelection, Select, working
    <3>3. CASE \E f \in Finds : ImportOne(f) \/ AddOne(f)
      BY <1>2, <2>1, <3>3 DEF ImportOne, AddOne
    <3>4. CASE ImportSelected \/ AddSelected \/ GenerateSelected
      BY <1>2, <2>1, <3>4 DEF ImportSelected, AddSelected, GenerateSelected
    <3> QED BY <1>4, <3>1, <3>2, <3>3, <3>4 DEF OnDiscovery, Work
  <2> QED BY <2>1, <2>2, ListRests
<1>5. ASSUME NEW k \in Keys, AnswerSearch(k) PROVE ListInv'
  BY <1>3, <1>5 DEF AnswerSearch, SearchAnswers, Unrelated, working
<1>6. ASSUME NEW t \in Tasks, ContinueTask(t) PROVE ListInv'
  <2>1. UNCHANGED <<inventory, open, stock>> /\ job' = job /\ task[t].kind \in {"queue", "generate"}
    BY <1>6 DEF ContinueTask, ContinueLoop, LoopGoesOn, LoopEnds, inventory
  <2>2. ASSUME NEW u \in Tasks \ {t} PROVE task'[u].kind = task[u].kind /\ task'[u].call = task[u].call
    <3>1. CASE LoopGoesOn(t)
      BY <1>1, <3>1 DEF LoopGoesOn
    <3>2. CASE LoopEnds(t)
      <4>1. \E s : task'[u] = [task[u] EXCEPT !.shared = s]
        BY <3>2 DEF LoopEnds, Finish
      <4> QED BY <1>1, <4>1 DEF TaskRecords
    <3> QED BY <1>6, <3>1, <3>2 DEF ContinueTask, ContinueLoop
  <2>3. Pending => Pending'
    BY <2>1, <2>2 DEF Pending
  <2> QED BY <2>1, <2>3, ListRests
<1> QED BY <1>4, <1>5, <1>6

LEMMA ListsKept ==
    ASSUME CatalogIInv, [CatalogNext]_catalogVars
    PROVE  ListInv'
<1>1. TaskTypes /\ ListInv
  BY DEF CatalogIInv, TaskInv
<1>2. CASE OnDiscovery \/ (\E k \in Keys : AnswerSearch(k)) \/ (\E t \in Tasks : ContinueTask(t))
  BY <1>1, <1>2, DiscoveryKept
<1>3. CASE OnProducts
  BY <1>1, <1>3, ProductsKept DEF OnProducts, discovery, working
<1>4. CASE GoToProducts \/ GoToDiscovery
  BY <1>1, <1>4, OpenKept, CloseKept
<1>5. ASSUME NEW k \in AllKeys, ServeProductList(k) PROVE ListInv'
  BY <1>1, <1>5, ServeListKept DEF ServeProductList, discovery, working
<1>6. ASSUME NEW t \in Tasks, ServeTask(t) \/ EndImport(t) PROVE ListInv'
  BY <1>1, <1>6, ServeTaskKept, EndImportKept
<1>7. ASSUME NEW j \in Jobs, ServeProductJob(j) \/ ContinueProductJob(j) PROVE ListInv'
  BY <1>1, <1>7, ServeJobKept, ContinueJobKept DEF ServeProductJob, ContinueProductJob, discovery, working
<1>8. ASSUME NEW f \in Finds, DeleteElsewhere(f) PROVE ListInv'
  BY <1>1, <1>8, ElsewhereKept DEF DeleteElsewhere
<1>9. CASE UNCHANGED catalogVars
  BY <1>1, <1>9, ListRests DEF catalogVars, discovery, working, inventory, Pending
<1> QED BY <1>2, <1>3, <1>4, <1>5, <1>6, <1>7, <1>8, <1>9 DEF CatalogNext

-----------------------------------------------------------------------------
(* The start, and every step *)

LEMMA StartsRight ==
    ASSUME CatalogInit
    PROVE  CatalogIInv
<1>1. PICK s \in Starts : stock = s.stock /\ allowance = s.allowance /\ open = s.open /\ InventoryInit(s.open = "products")
  BY DEF CatalogInit
<1>2. stock \in [Finds -> Statuses \cup {"none"}] /\ open \in {"discovery", "products"}
  BY <1>1, StartsAssumption
<1>3. PageInv
  <2>1. /\ run = [draft |-> FirstDraft, committed |-> None, status |-> "idle", response |-> NoResponse]
        /\ image = None /\ token = FALSE /\ settings = FALSE /\ cache = [k \in Keys |-> NotAsked] /\ selected = {}
        /\ adrift = FALSE
    BY DEF CatalogInit, DiscoveryInit
  <2>2. NoResponse \in [key : Keys \cup {None}, items : SUBSET Finds] /\ NotAsked \in Entries
    BY DEF NoResponse, NotAsked, Entries
  <2>3. run \in Sessions
    BY <2>1, <2>2, KeysAre DEF Sessions
  <2>4. cache \in [Keys -> Entries] /\ \A k \in Keys : ~cache[k].known
    BY <2>1, <2>2 DEF NotAsked
  <2>5. HasRun(run, image) /\ ResponseFits(run) /\ Looking = None
    BY <2>1 DEF HasRun, ResponseFits, Looking, Observed
  <2>6. run.status # "running"
    BY <2>1
  <2> QED BY <2>1, <2>3, <2>4, <2>5, <2>6 DEF PageInv, SearchInv, SearchTypes, InViewAsked
<1>4. TaskInv
  <2>1. /\ task = [t \in Tasks |-> NoTask] /\ busy = FALSE /\ newest = None /\ imported = {} /\ unsure = {}
    BY DEF CatalogInit, DiscoveryInit
  <2>2. NoTask \in TaskRecords /\ NoTask.todo \subseteq NoTask.all /\ NoTask.from = "none" /\ NoTask.kind = "none"
    BY DEF NoTask, TaskRecords
  <2> HIDE DEF NoTask
  <2> QED BY <2>1, <2>2 DEF TaskInv, TaskTypes, BarHoldsFlag, BarLoopsExclude, ImportsAreStocked
<1>5. ListInv
  <2>1. /\ filter = "all" /\ pageNo = 0 /\ previous = None /\ chosen = {} /\ active = None /\ doomed = {}
        /\ job = [j \in Jobs |-> NoJob] /\ latest = None /\ resized = FALSE /\ marred = FALSE
        /\ \E b \in {TRUE, FALSE} : books = [k \in AllKeys |-> IF b /\ k = <<"all", 0>>
                                                              THEN [NoBook EXCEPT !.call = "sent"] ELSE NoBook]
    BY <1>1, <1>2 DEF InventoryInit
  <2>2. NoBook \in Lists /\ NoBook.call = "none" /\ ~NoBook.known /\ NoBook.st = "none"
    BY NoPageIs DEF NoBook, Lists
  <2>3. [NoBook EXCEPT !.call = "sent"] = Sent(NoBook)
    BY DEF Sent
  <2>4. /\ books \in [AllKeys -> Lists]
        /\ \A k \in AllKeys : books[k].call # "read" /\ ~books[k].known /\ books[k].st = "none"
    BY <2>1, <2>2, <2>3, SentIs
  <2>5. NoJob \in LoopRecords /\ NoJob.todo \subseteq NoJob.all /\ NoJob.kind = "none"
    BY DEF NoJob, LoopRecords
  <2> HIDE DEF NoJob
  <2>6. "all" \in Filters /\ 0 \in 0 .. LastPage0
    BY InventoryAssumption
  <2>7. ListTypes
    BY <1>2, <2>1, <2>4, <2>5, <2>6 DEF ListTypes
  <2>8. AskedAgain(books[Current])
    BY <2>4, <2>7, BooksAre DEF AskedAgain
  <2> QED BY <2>1, <2>4, <2>7, <2>8 DEF ListInv, ListsFit, ListFits, ListsGrow, DialogAsksAboutProducts
<1> QED BY <1>3, <1>4, <1>5 DEF CatalogIInv

\* Every reachable state has the invariant: the search, the loops and the list of products, and
\* what their steps do to each other.
THEOREM CatalogInductive == CatalogSpec => []CatalogIInv
<1>1. CatalogIInv /\ [CatalogNext]_catalogVars => CatalogIInv'
  BY SearchKept, TasksKept, ListsKept DEF CatalogIInv
<1> QED BY <1>1, StartsRight, PTL DEF CatalogSpec

-----------------------------------------------------------------------------
(* What a settled list shows *)

\* Of a set of numbers, one has each rank.
LEMMA RankOnto ==
    ASSUME NEW S \in SUBSET Nat, IsFiniteSet(S), NEW r \in Nat, r < Cardinality(S)
    PROVE  \E f \in S : Rank(f, S) = r
<1> DEFINE Misses(n) == \E T \in SUBSET Nat : IsFiniteSet(T) /\ n < Cardinality(T) /\ \A f \in T : Rank(f, T) # n
           bad == {n \in Nat : Misses(n)}
<1> SUFFICES bad = {}
  OBVIOUS
<1> SUFFICES ASSUME bad # {} PROVE FALSE
  OBVIOUS
<1>1. PICK n \in bad : \A m \in bad : n <= m
  <2>1. bad \in SUBSET Nat
    OBVIOUS
  <2> HIDE DEF bad
  <2> QED BY <2>1, LeastIs
<1>2. PICK T \in SUBSET Nat : IsFiniteSet(T) /\ n < Cardinality(T) /\ \A f \in T : Rank(f, T) # n
  BY <1>1
<1>3. n \in Nat /\ T # {} /\ Cardinality(T) \in Nat
  BY <1>2, FS_EmptySet, FS_CardinalityType
<1> DEFINE least == Min(T)
           U == T \ {least}
<1>4. least \in T /\ \A f \in T : least <= f
  BY <1>3, LeastIs
<1> HIDE DEF least
<1>5. CASE n = 0
  <2>1. \A g \in T : g \in Nat /\ least \in Nat /\ ~(g < least)
    BY <1>2, <1>4
  <2>2. {g \in T : g < least} = {}
    BY <2>1
  <2> QED BY <1>2, <1>4, <1>5, <2>2, FS_EmptySet DEF Rank
<1>6. CASE n # 0
  <2>1. n - 1 \in Nat /\ n - 1 \notin bad
    BY <1>1, <1>3, <1>6
  <2>2. IsFiniteSet(U) /\ Cardinality(U) = Cardinality(T) - 1 /\ U \in SUBSET Nat
    BY <1>2, <1>4, FS_RemoveElement
  <2>3. n - 1 < Cardinality(U)
    BY <1>2, <1>3, <2>2
  <2>4. PICK f \in U : Rank(f, U) = n - 1
    BY <2>1, <2>2, <2>3
  <2> DEFINE below == {g \in U : g < f}
  <2>5. {g \in T : g < f} = below \cup {least} /\ least \notin below
    BY <1>4, <2>4
  <2>6. IsFiniteSet(below)
    BY <2>2, FS_Subset
  <2>7. Cardinality(below) = n - 1
    BY <2>4 DEF Rank
  <2> HIDE DEF below
  <2>8. Cardinality(below \cup {least}) = n
    <3>1. Cardinality(below \cup {least}) = (n - 1) + 1
      BY <2>5, <2>6, <2>7, FS_AddElement
    <3> QED BY <1>3, <3>1
  <2> QED BY <1>2, <2>4, <2>5, <2>8 DEF Rank
<1> QED BY <1>5, <1>6

LEMMA FirstOfPage ==
    ASSUME NEW p \in Nat, NEW n \in Nat \ {0} PROVE (p * n) \div n = p
OBVIOUS

\* A page that begins within the products of a status is not empty.
LEMMA PageHasProducts ==
    ASSUME NEW s, NEW p \in Nat, p * Limit < Cardinality(Matches(s)) PROVE PageOf(<<s, p>>).items # {}
<1>1. Matches(s) \in SUBSET Nat /\ IsFiniteSet(Matches(s)) /\ Limit \in Nat \ {0} /\ p * Limit \in Nat
  BY MatchesAre, ProductIs, InventoryAssumption
<1>2. PICK f \in Matches(s) : Rank(f, Matches(s)) = p * Limit
  BY <1>1, RankOnto
<1>3. Rank(f, Matches(s)) \div Limit = p
  BY <1>1, <1>2, FirstOfPage
<1> QED BY <1>3 DEF PageOf

-----------------------------------------------------------------------------
(* The theorems *)

LEMMA InvariantImpliesCatalogInv ==
    ASSUME CatalogIInv
    PROVE  CatalogInv
<1>1. DiscoveryTypeOK
  <2>1. /\ run \in Sessions /\ image \in PictureKeys \cup {None} /\ {token, settings, adrift} \subseteq BOOLEAN
        /\ cache \in [Keys -> Entries] /\ selected \subseteq Visible
    BY DEF CatalogIInv, PageInv, SearchInv, SearchTypes
  <2>2. /\ run.draft \in Keys /\ run.committed \in Keys \cup {None} /\ run.response.key \in Keys \cup {None}
        /\ run.status \in {"idle", "running", "success", "error"} /\ image \in Keys \cup {None}
    BY <2>1, KeysAre DEF Sessions
  <2>3. /\ \A t \in Tasks : task[t].todo \subseteq task[t].all /\ task[t].all \subseteq Finds
        /\ busy \in BOOLEAN /\ newest \in Tasks \cup {None} /\ imported \cup unsure \subseteq Finds
    BY DEF CatalogIInv, TaskInv, TaskTypes, TaskRecords
  <2> QED BY <2>1, <2>2, <2>3 DEF DiscoveryTypeOK, Entries
<1>2. InventoryTypeOK
  <2>1. ListTypes /\ (open = "products" => chosen \subseteq Shown)
    BY DEF CatalogIInv, ListInv
  <2>2. \A k \in AllKeys : /\ books[k].seen.items \cup books[k].coming.items \subseteq Finds
                           /\ books[k].st \in {"none", "ok", "error"} /\ books[k].call \in {"none", "sent", "read"}
    BY <2>1, BooksAre DEF Lists, ListPages
  <2>3. \A j \in Jobs : job[j].todo \subseteq job[j].all /\ job[j].all \subseteq Finds
    BY <2>1 DEF ListTypes, LoopRecords
  <2> QED BY <2>1, <2>2, <2>3, BooksAre DEF InventoryTypeOK, ListTypes, StockTypeOK
<1>3. BarLoopsExclude /\ ImportedHasCause /\ DialogAsksAboutProducts
  BY DEF CatalogIInv, TaskInv, ListInv, ImportsAreStocked, Stocked, ImportedHasCause
<1> QED BY <1>1, <1>2, <1>3 DEF CatalogInv

\* In every state of the two pages: the types; two loops of the selection bar run at the same time
\* only after one that was begun in a row has released their flag (batchBusy); what is marked
\* as imported is in the inventory, was deleted there, or was one of several that failed
\* (trackImported); and the dialog asks about products that exist (confirmDelete).
THEOREM CatalogCorrect == CatalogSpec => []CatalogInv
BY CatalogInductive, InvariantImpliesCatalogInv, PTL

LEMMA InvariantImpliesTruthful ==
    ASSUME CatalogIInv
    PROVE  RunIsTruthful
<1>1. SearchInv /\ HasRun(run, image) /\ ResponseFits(run)
  BY DEF CatalogIInv, PageInv, SearchInv, SearchTypes
<1>2. RunningIsWatched
  <2>1. Looking # None => Looked = Looking
    BY DEF Looking, Looked, Observed
  <2> QED BY <1>1, <2>1 DEF SearchInv, RunningIsWatched, Fetching
<1>3. ResponseIsOfRun
  BY <1>1 DEF ResponseFits, ResponseIsOfRun
<1> QED BY <1>2, <1>3 DEF RunIsTruthful

\* What the stored session says of its last run is true, for any modes, pictures, pages and order
\* of the answers: a run that is under way waits for an answer that will end it, unless its page was
\* left or the same picture was searched again; and the stored answer of a successful run is the
\* answer to the parameters stored next to it (useDiscoveryQuery, markSuccess).
THEOREM RunsAreTruthful == CatalogSpec => []RunIsTruthful
BY CatalogInductive, InvariantImpliesTruthful, PTL

LEMMA InvariantImpliesCurrent ==
    ASSUME CatalogIInv
    PROVE  ViewIsCurrent
<1> SUFFICES ASSUME ListSettled
             PROVE  books[Current].seen = PageOf(Current) /\ (Shown = {} /\ Matches(filter) # {} => resized)
  BY DEF ViewIsCurrent
<1> DEFINE b == books[Current]
<1>1. ListTypes /\ Current \in AllKeys /\ b \in Lists /\ b.known /\ b.st = "ok" /\ b.call = "none" /\ ~b.untold
  BY BooksAre DEF CatalogIInv, ListInv, ListSettled
<1>2. ~Pending
  BY DEF ListSettled, Quiet, Pending
<1>3. ~b.stale
  BY <1>1 DEF CatalogIInv, ListInv, ListSettled, AskedAgain
<1>4. b.seen = PageOf(Current)
  BY <1>1, <1>2, <1>3 DEF CatalogIInv, ListInv, ListsFit, ListFits
<1>5. ASSUME Shown = {}, Matches(filter) # {}, ~resized PROVE FALSE
  <2>1. Data(books, Current, previous) = b.seen
    BY <1>1 DEF Data
  <2>2. PageOf(<<filter, pageNo>>).items = {}
    BY <1>4, <1>5, <2>1 DEF Shown, Current
  <2>3. /\ pageNo \in Nat /\ Limit \in Nat /\ IsFiniteSet(Matches(filter)) /\ Cardinality(Matches(filter)) \in Nat
        /\ (pageNo = 0 \/ pageNo * Limit < Cardinality(Matches(filter)))
    BY <1>1, <1>5, MatchesAre, InventoryAssumption DEF ListTypes, CatalogIInv, ListInv, ListsGrow
  <2>4. Cardinality(Matches(filter)) # 0
    BY <1>5, <2>3, FS_EmptySet
  <2>5. pageNo * Limit < Cardinality(Matches(filter))
    <3>1. CASE pageNo = 0
      <4>1. pageNo * Limit = 0
        BY <2>3, <3>1
      <4> QED BY <2>3, <2>4, <4>1
    <3> QED BY <2>3, <3>1
  <2> QED BY <2>2, <2>3, <2>5, PageHasProducts
<1> QED BY <1>4, <1>5

\* A settled list of products is the server's, for any number of products, statuses, pages and loops,
\* whichever changes, imports, invalidations and late answers it met; and an empty page is about a
\* status without products, or follows a deletion, a change of status or a page turned by the total
\* of another list (invalidateQueries, keepPreviousData).
THEOREM ViewsAreCurrent == CatalogSpec => []ViewIsCurrent
BY CatalogInductive, InvariantImpliesCurrent, PTL
=============================================================================
