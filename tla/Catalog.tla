-------------------------------- MODULE Catalog --------------------------------
(***************************************************************************)
(* The discovery and the products page of one browser tab.  One of them is open     *)
(* at a time; what was begun in the other goes on, and the end of an import         *)
(* invalidates the list of products (useImportProduct, useImportProductsBatch).     *)
(***************************************************************************)
EXTENDS Discovery, Inventory

CONSTANT Starts     \* the products there are, the page opened first, and the bounds

ASSUME StartsAssumption ==
    \A s \in Starts : s.stock \in [Finds -> Statuses \cup {"none"}] /\ s.open \in {"discovery", "products"}

VARIABLE open       \* the page

catalogVars == <<stock, allowance, discovery, inventory, open>>

CatalogInit ==
    /\ DiscoveryInit
    /\ \E s \in Starts : /\ stock = s.stock /\ allowance = s.allowance /\ open = s.open
                        /\ InventoryInit(s.open = "products")

\* The list of products in view
InView == IF open = "products" THEN Current ELSE None

GoToProducts ==
    /\ open = "discovery" /\ open' = "products" /\ Use("moves")
    /\ CloseDiscovery /\ OpenProducts /\ UNCHANGED stock

GoToDiscovery ==
    /\ open = "products" /\ open' = "discovery" /\ Use("moves")
    /\ CloseProducts /\ UNCHANGED <<stock, discovery>>

\* The end of an import, wherever the user is
EndImport(t) ==
    /\ ImportEnds(t)
    /\ books' = IF task[t].call = "ok" THEN Invalidated(InView) ELSE Unheard
    /\ UNCHANGED <<open, listing, job, latest, resized>>

\* The two pages
OnDiscovery == open = "discovery" /\ (Search \/ Work) /\ UNCHANGED <<inventory, open>>
OnProducts == open = "products" /\ UseProducts /\ UNCHANGED <<discovery, open>>

\* Requests and loops
AnswerSearch(k) == SearchAnswers(k) /\ UNCHANGED <<inventory, open>>
ServeTask(t) == Serve(t) /\ UNCHANGED <<inventory, open>>
ContinueTask(t) == ContinueLoop(t) /\ UNCHANGED <<inventory, open>>
ServeProductList(k) == ServeList(k) /\ UNCHANGED <<discovery, open>>
ServeProductJob(j) ==
    /\ ServeJob(j) /\ unsure' = unsure \cup {f \in Finds : stock[f] # "none" /\ stock'[f] = "none"}
    /\ UNCHANGED <<searching, imported, selected, working, open>>
ContinueProductJob(j) == ContinueJob(j, InView) /\ UNCHANGED <<discovery, open>>
DeleteElsewhere(f) ==
    /\ DeletedElsewhere(f) /\ unsure' = unsure \cup {f}
    /\ UNCHANGED <<searching, imported, selected, working, open>>

CatalogNext ==
    \/ OnDiscovery \/ OnProducts \/ GoToProducts \/ GoToDiscovery
    \/ \E k \in Keys : AnswerSearch(k)
    \/ \E k \in AllKeys : ServeProductList(k)
    \/ \E t \in Tasks : ServeTask(t) \/ ContinueTask(t) \/ EndImport(t)
    \/ \E j \in Jobs : ServeProductJob(j) \/ ContinueProductJob(j)
    \/ \E f \in Finds : DeleteElsewhere(f)

CatalogSpec == CatalogInit /\ [][CatalogNext]_catalogVars

-----------------------------------------------------------------------------
(* Properties *)

\* The type of the state of the products page; only products in the list are selected.
InventoryTypeOK ==
    /\ StockTypeOK /\ Current \in AllKeys /\ previous \in AllKeys \cup {None}
    /\ \A k \in AllKeys : /\ books[k].seen.items \cup books[k].coming.items \subseteq Finds
                          /\ books[k].st \in {"none", "ok", "error"} /\ books[k].call \in {"none", "sent", "read"}
    /\ open = "products" => chosen \subseteq Shown
    /\ active \in Finds \cup {None} /\ doomed \subseteq Finds /\ latest \in Jobs \cup {None}
    /\ \A j \in Jobs : job[j].todo \subseteq job[j].all /\ job[j].all \subseteq Finds

\* Nothing was changed whose answer has not been looked at
Quiet ==
    /\ \A t \in Tasks : task[t].call \notin {"ok", "error"}
    /\ \A j \in Jobs : job[j].call \notin {"ok", "error"}

ListSettled ==
    LET b == books[Current] IN
    open = "products" /\ b.st = "ok" /\ b.call = "none" /\ ~b.untold /\ Quiet

\* A settled list is the server's, whichever changes, imports and answers met, unless a change
\* was not told (another administrator's, or a lost answer), or met a request that an
\* invalidation does not cancel: a first one, or one for a list not in view (invalidateQueries).
\* And an empty page, with the message that there are no products, is about a status that has
\* none, or follows a deletion or change of status, which keep the page number, or a page turned
\* while the list of another status was still shown, with its total (keepPreviousData).
ViewIsCurrent ==
    ListSettled =>
        /\ books[Current].seen = PageOf(Current)
        /\ Shown = {} /\ Matches(filter) # {} => resized

\* The dialog asks about products that exist, unless they are being deleted, a deletion failed
\* midway or went on in the background, another administrator was faster, or the list was old (confirmDelete).
DialogAsksAboutProducts ==
    \A f \in doomed : stock[f] = "none" => marred \/ \E j \in Jobs : job[j].kind = "delete"

\* In every state: the types; loops of the bar that exclude each other; and products that exist
\* when they are marked as imported or the dialog asks about them.
CatalogInv ==
    /\ DiscoveryTypeOK /\ InventoryTypeOK
    /\ BarLoopsExclude /\ ImportedHasCause /\ DialogAsksAboutProducts
=============================================================================
