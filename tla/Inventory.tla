------------------------------- MODULE Inventory -------------------------------
(***************************************************************************)
(* The products page of the frontend (features/products): a paged list in the      *)
(* query cache that every successful change invalidates, a selection, a dialog     *)
(* that confirms deletions, and loops that change, delete or queue the selected     *)
(* products one request at a time.                                            *)
(***************************************************************************)
EXTENDS Naturals, FiniteSets, FiniteSetsExt, Stock

CONSTANTS
    Filters,    \* the statuses filtered by; "all" for none
    Limit,      \* page size
    LastPage0,  \* bound: the last page looked at
    Jobs        \* bound: loops under way

AllKeys == Filters \X (0 .. LastPage0)

ASSUME InventoryAssumption ==
    /\ Finds \subseteq Nat /\ IsFiniteSet(Finds) /\ Limit \in Nat \ {0} /\ LastPage0 \in Nat
    /\ "all" \in Filters /\ Filters \subseteq Statuses \cup {"all"}
    /\ Jobs \subseteq Nat \ {0} /\ IsFiniteSet(Jobs) /\ None \notin Jobs \cup AllKeys \cup Finds

VARIABLES
    filter, pageNo,
    books,      \* the query cache: of a list, the data and the request for it
    previous,   \* the list whose data keepPreviousData shows meanwhile
    chosen,     \* selectedProductIds
    active,     \* activeProduct
    doomed,     \* deleteTargets
    job,        \* loops under way
    latest,     \* the job whose call is the last one of createQueue
    resized,    \* a deletion or change of status, or a page turned by the total of another list
    marred      \* the dialog asks about a product already gone, or a deletion failed, or went on elsewhere

listing == <<filter, pageNo, previous, chosen, active, doomed, marred>>
inventory == <<listing, books, job, latest, resized>>

NoJob == [kind |-> "none", to |-> "none", all |-> {}, todo |-> {}, call |-> "none", shown |-> FALSE]

-----------------------------------------------------------------------------
(* The list *)

Matches(s) == {f \in Finds : stock[f] # "none" /\ s \in {"all", stock[f]}}
Rank(f, S) == Cardinality({g \in S : g < f})

\* ProductRepository.search: a page of the products of a status, and their number
PageOf(key) ==
    LET S == Matches(key[1]) IN
    [items |-> {f \in S : Rank(f, S) \div Limit = key[2]}, total |-> Cardinality(S)]

NoPage == [items |-> {}, total |-> 0]
NoBook == [st |-> "none", known |-> FALSE, seen |-> NoPage, stale |-> FALSE, call |-> "none", coming |-> NoPage,
           untold |-> FALSE]

Current == <<filter, pageNo>>

\* products.data
Data(b, key, old) ==
    CASE b[key].known -> b[key].seen
      [] ~b[key].known /\ b[key].st = "none" /\ old # None -> b[old].seen
      [] OTHER -> NoPage

Shown == Data(books, Current, previous).items

\* A list that comes into view is fetched when it is not known or was invalidated, or by its age
Viewed(key) ==
    IF books[key].call # "none" THEN {books}
    ELSE {[books EXCEPT ![key].call = "sent"]}
             \cup (IF books[key].known /\ ~books[key].stale THEN {books} ELSE {})

\* All of them are fetched again later; the one in view is too, but a request under way goes on
InvalidatedLater(key) ==
    [k \in AllKeys |->
        IF books[k].known \/ books[k].call # "none"
        THEN [books[k] EXCEPT !.stale = TRUE, !.call = IF k = key /\ @ = "none" THEN "sent" ELSE @]
        ELSE books[k]]

\* invalidateQueries(productKeys.all): the list in view is asked for again, and a request for it
\* is cancelled, unless it is the first one; answers to the others count as fresh
Invalidated(key) ==
    [k \in AllKeys |->
        LET b == books[k]
            again == k = key /\ (b.known \/ b.st = "error")
        IN IF ~b.known /\ b.st = "none" /\ b.call = "none" THEN b
           ELSE [b EXCEPT !.stale = TRUE,
                          !.call = IF again /\ (b.known \/ @ = "none") THEN "sent" ELSE @,
                          !.coming = IF again /\ b.known THEN NoPage ELSE @,
                          !.untold = @ \/ (b.call = "read" /\ ~(again /\ b.known))]]

\* A change that invalidates nothing
Unheard == [k \in AllKeys |-> [books[k] EXCEPT !.untold = TRUE]]

\* The effect on the items (useProductInventoryState)
Pruned(S, b, key, old) == S \cap Data(b, key, old).items

\* The list key is in view, with the selection S
Look(key, S) ==
    /\ books' \in Viewed(key)
    /\ filter' = key[1] /\ pageNo' = key[2]
    /\ previous' = IF books[Current].known THEN Current ELSE previous
    /\ chosen' = Pruned(S, books', key, previous')

Covered == active # None \/ doomed # {}

Pages == UNCHANGED <<stock, active, doomed, marred, job, latest>>

\* setPage(0)
FirstPage(n) == 0

\* onStatusChange, and the button of the empty page
SetFilter(s) ==
    /\ ~Covered /\ s # filter /\ Use("turns") /\ Look(<<s, FirstPage(pageNo)>>, {})
    /\ Pages /\ UNCHANGED resized

\* The pager is there when something is shown, also when that is the previous list
TurnTo(p) ==
    /\ ~Covered /\ Shown # {} /\ books[Current].st # "error" /\ p \in 0 .. LastPage0 /\ Use("turns")
    /\ \/ p = pageNo - 1
       \/ p = pageNo + 1 /\ p * Limit < Data(books, Current, previous).total
    /\ Look(<<filter, p>>, {}) /\ Pages
    /\ resized' = (resized \/ ~books[Current].known)

\* The toolbar, and the retry of a failed list
RefetchList ==
    /\ ~Covered /\ books[Current].call = "none" /\ Use("turns")
    /\ books' = [books EXCEPT ![Current].call = "sent"]
    /\ UNCHANGED listing /\ UNCHANGED <<stock, job, latest, resized>>

ReadList(k) ==
    /\ books[k].call = "sent"
    /\ books' = [books EXCEPT ![k].call = "read", ![k].coming = PageOf(k), ![k].untold = FALSE]
    /\ UNCHANGED listing /\ UNCHANGED <<stock, job, latest, resized, allowance>>

\* The answer
ListArrives(k) ==
    /\ books[k].call = "read"
    /\ \/ books' = [books EXCEPT ![k] = [NoBook EXCEPT !.st = "ok", !.known = TRUE, !.seen = books[k].coming,
                                                       !.untold = books[k].untold]]
          /\ UNCHANGED allowance
       \/ books' = [books EXCEPT ![k].st = "error", ![k].call = "none", ![k].coming = NoPage]
          /\ Use("failures")
    /\ chosen' = Pruned(chosen, books', Current, previous)
    /\ UNCHANGED <<stock, filter, pageNo, previous, active, doomed, marred, job, latest, resized>>

-----------------------------------------------------------------------------
(* Selection, drawer and dialog *)

Click == UNCHANGED <<stock, filter, pageNo, previous, books, job, latest, resized>>

\* isPending of the three mutations: of createQueue, only the last call
Busy == latest # None \/ \E j \in Jobs : job[j].kind \in {"status", "delete"} /\ job[j].shown

Choose(S) == ~Covered /\ chosen' = S /\ UNCHANGED <<active, doomed, marred, allowance>> /\ Click
ToggleProduct(f) ==
    f \in Shown /\ Choose(IF f \in chosen THEN chosen \ {f} ELSE chosen \cup {f})
ToggleProducts == Shown # {} /\ Choose(IF Shown \subseteq chosen THEN {} ELSE Shown)
ClearProducts == chosen # {} /\ Choose({})

Preview(f) ==
    /\ ~Covered /\ f \in Shown /\ Use("turns")
    /\ active' = f /\ UNCHANGED <<chosen, doomed, marred>> /\ Click
CloseDrawer ==
    active # None /\ active' = None /\ UNCHANGED <<chosen, doomed, marred, allowance>> /\ Click

\* setDeleteTargets, of the bar and of the menu of a row
AskDelete(S) ==
    /\ ~Covered /\ doomed' = S /\ marred' = \E f \in S : stock[f] = "none"
    /\ UNCHANGED <<chosen, active, allowance>> /\ Click
DeleteSelected == chosen # {} /\ ~Busy /\ AskDelete(chosen)
DeleteOne(f) == f \in Shown /\ AskDelete({f})

Deleting == \E j \in Jobs : job[j].kind = "delete" /\ job[j].shown
CancelDelete ==
    /\ doomed # {} /\ ~Deleting
    /\ doomed' = {} /\ marred' = FALSE /\ UNCHANGED <<chosen, active, allowance>> /\ Click

-----------------------------------------------------------------------------
(* Loops *)

Run(kind, to, S) ==
    /\ Use("jobs") /\ \E j \in Jobs : job[j] = NoJob
    /\ LET j == Min({i \in Jobs : job[i] = NoJob}) IN
       /\ job' = [job EXCEPT ![j] = [kind |-> kind, to |-> to, all |-> S, todo |-> S, call |-> "sent",
                                     shown |-> TRUE]]
       /\ latest' = IF kind = "add" THEN j ELSE latest
    /\ UNCHANGED listing /\ UNCHANGED <<stock, books, resized>>

ChangeSelectedStatus(s) == ~Covered /\ chosen # {} /\ ~Busy /\ Run("status", s, chosen)
QueueSelected == ~Covered /\ chosen # {} /\ ~Busy /\ Run("add", "none", chosen)
QueueActive == active # None /\ Run("add", "none", {active})
ConfirmDelete == doomed # {} /\ ~Deleting /\ Run("delete", "none", doomed)

Now(j) == Min(job[j].todo)

\* The server: a product that is gone is an error; an answer may be lost
ServeJob(j) ==
    /\ job[j].call = "sent"
    /\ \E answer \in {"ok", "error"}, done \in BOOLEAN :
        /\ answer = "ok" => done
        /\ done => stock[Now(j)] # "none"
        /\ IF answer = "error" /\ stock[Now(j)] # "none" THEN Use("failures") ELSE UNCHANGED allowance
        /\ job' = [job EXCEPT ![j].call = answer]
        /\ stock' = CASE done /\ job[j].kind = "delete" -> Deleted(Now(j))
                      [] done /\ job[j].kind = "status" -> [stock EXCEPT ![Now(j)] = job[j].to]
                      [] OTHER -> stock
        /\ resized' = (resized \/ stock' # stock)
    /\ UNCHANGED listing /\ UNCHANGED <<books, latest>>

\* onSuccess of a product's mutation invalidates; a failed one is not told
Told(j, key) ==
    CASE job[j].kind = "add" -> books
      [] job[j].kind # "add" /\ job[j].call = "ok" -> Invalidated(key)
      [] OTHER -> Unheard

\* The next product of a loop, also when the page was left
JobGoesOn(j, key) ==
    /\ job[j].call = "ok" /\ Cardinality(job[j].todo) > 1
    /\ job' = [job EXCEPT ![j].todo = @ \ {Now(j)}, ![j].call = "sent"]
    /\ latest' = IF job[j].kind = "add" /\ job[j].shown THEN j ELSE latest
    /\ books' = Told(j, key)
    /\ UNCHANGED listing /\ UNCHANGED <<stock, resized, allowance>>

\* A loop's end, on success only
EndedIfOk(j) == job[j].call = "ok" /\ Cardinality(job[j].todo) = 1

\* A loop ends with its last product or its first error, which is caught
Ended(j) == job[j].call = "error" \/ (job[j].call = "ok" /\ Cardinality(job[j].todo) = 1)

\* setDeleteTargets([]), after the loop
Answered(j) == IF job[j].kind = "delete" THEN {} ELSE doomed

JobEnds(j, key) ==
    /\ Ended(j)
    /\ job' = [job EXCEPT ![j] = NoJob]
    /\ latest' = IF latest = j THEN None ELSE latest
    /\ books' = Told(j, key)
    /\ IF job[j].call = "ok" /\ job[j].shown
       THEN /\ chosen' = {} /\ doomed' = Answered(j)
            /\ active' = IF job[j].kind = "delete" /\ active \in job[j].all THEN None ELSE active
       ELSE UNCHANGED <<chosen, doomed, active>>
    /\ marred' = (doomed' # {} /\ (marred \/ (job[j].kind = "delete" /\ (job[j].call = "error" \/ ~job[j].shown))))
    /\ UNCHANGED <<stock, filter, pageNo, previous, resized, allowance>>

\* Another administrator deletes a product
DeletedElsewhere(f) ==
    /\ stock[f] # "none" /\ Use("others")
    /\ stock' = Deleted(f) /\ books' = Unheard /\ resized' = TRUE
    /\ marred' = (doomed # {})
    /\ UNCHANGED <<filter, pageNo, previous, chosen, active, doomed, job, latest>>

-----------------------------------------------------------------------------
\* A list is asked for as soon as the page is open
InventoryInit(opened) ==
    /\ filter = "all" /\ pageNo = 0 /\ previous = None
    /\ books = [k \in AllKeys |-> IF opened /\ k = <<"all", 0>> THEN [NoBook EXCEPT !.call = "sent"] ELSE NoBook]
    /\ chosen = {} /\ active = None /\ doomed = {}
    /\ job = [j \in Jobs |-> NoJob] /\ latest = None /\ resized = FALSE /\ marred = FALSE

\* The page is opened, with a state of its own, and left
OpenProducts ==
    /\ books' \in Viewed(<<"all", 0>>) /\ filter' = "all" /\ pageNo' = 0
    /\ previous' = None /\ chosen' = {} /\ active' = None /\ doomed' = {} /\ marred' = FALSE
    /\ UNCHANGED <<job, latest, resized>>

CloseProducts ==
    /\ chosen' = {} /\ active' = None /\ doomed' = {} /\ marred' = FALSE
    /\ previous' = None /\ filter' = "all" /\ pageNo' = 0
    /\ job' = [j \in Jobs |-> [job[j] EXCEPT !.shown = FALSE]] /\ latest' = None
    /\ UNCHANGED <<books, resized>>

UseProducts ==
    \/ \E s \in Filters : SetFilter(s)
    \/ \E s \in Filters \ {"all"} : ChangeSelectedStatus(s)
    \/ \E p \in 0 .. LastPage0 : TurnTo(p)
    \/ \E f \in Finds : ToggleProduct(f) \/ Preview(f) \/ DeleteOne(f)
    \/ ToggleProducts \/ ClearProducts \/ CloseDrawer \/ RefetchList
    \/ DeleteSelected \/ CancelDelete \/ ConfirmDelete \/ QueueSelected \/ QueueActive

ContinueJob(j, key) == JobGoesOn(j, key) \/ JobEnds(j, key)
ServeList(k) == ReadList(k) \/ ListArrives(k)
=============================================================================
