---------------------------- MODULE Administration ----------------------------
(***************************************************************************)
(* The settings and the channels page in one browser, with other administrators:    *)
(* the default channel of the settings is one of the channels, and the forms and     *)
(* the page show what the browser cached of both.                               *)
(***************************************************************************)
EXTENDS WorkspaceSettings

CONSTANT Starts     \* the rows there are, the pages visited, and the bounds

\* A database the program can be in: the settings are written at least once when they have a row,
\* and the default channel is one of the channels
StartsAssumption ==
    \A s \in Starts :
        /\ s.row \in [Conns -> Rows] /\ s.sound \subseteq Channels \cup Tokens
        /\ s.saved = [row |-> s.saved.row, rev |-> s.saved.rev] /\ s.saved.rev \in Nat
        /\ s.saved.row # None =>
             /\ s.saved.rev > 0 /\ IsSettingsRow(s.saved.row)
             /\ LET c == s.saved.row[Channel] IN c # None => s.row[c[1]].there /\ s.row[c[1]].id = c[2]
ASSUME StartsAssumption

VARIABLE visits     \* bound: the pages to visit

adminVars == <<connections, settings, owner, allowance, visits>>

AdminInit ==
    /\ \E s \in Starts :
        /\ row = s.row /\ sound = s.sound /\ saved = s.saved
        /\ owner = s.owner /\ allowance = s.allowance /\ visits = s.visits
    /\ books = [l \in Lists |-> NoEntry(Empty)]
    /\ typed = [p \in Pages |-> None]
    /\ calls = [i \in Calls |-> NoCall] /\ latest = [h \in Hooks |-> None]
    /\ meant = [p \in Pages |-> row[p].token] /\ crossed = [p \in Pages |-> FALSE]
    /\ sheet = NoEntry(Blank) /\ page = "elsewhere" /\ form = None /\ entered = {}
    /\ saves = [i \in Saves |-> NoSave] /\ pending = None /\ orphaned = FALSE

\* What a page's components use
UsesList(p, l) == p = "channels" \/ (p = "telegram" /\ l = "channels")
UsesSheet(p) == p = "channels" \/ p \in Sections

ListMounted(l, p) == IF UsesList(p, l) THEN Mounted(books[l]) ELSE {books[l]}

GoTo(p) ==
    /\ p \in visits \ {page} /\ Use("moves")
    /\ page' = p /\ visits' = visits
    /\ books' \in {b \in [Lists -> UNION {ListMounted(l, p) : l \in Lists}] : \A l \in Lists : b[l] \in ListMounted(l, p)}
    /\ sheet' \in IF UsesSheet(p) THEN Mounted(sheet) ELSE {sheet}
    /\ form' = IF HasForm(sheet', p) THEN ShownBy(p, sheet'.seen.fields) ELSE None
    /\ pending' = None /\ entered' = {}
    /\ LeaveConnections
    /\ UNCHANGED <<saved, saves, orphaned, owner>>

OnPage ==
    /\ \/ page = "channels" /\ UseConnections /\ UNCHANGED settings
       \/ page \in Sections /\ UseSettings /\ UNCHANGED connections
       \/ \E l \in Lists : page = "channels" /\ RefetchConnections(l) /\ UNCHANGED settings
    /\ UNCHANGED <<owner, visits>>

Others ==
    /\ \/ OthersConnect /\ UNCHANGED settings
       \/ \E f \in Fields : \E v \in Patchable(f) : PatchElsewhere(f, v) /\ UNCHANGED connections
    /\ UNCHANGED <<owner, visits>>

\* A removed channel is the default one no more
CommitCall(i) ==
    /\ Commit(i)
    /\ LET c == calls[i].of
           gone == c \in Channels /\ row[c].there /\ ~row'[c].there
       IN /\ saved' = IF gone THEN ChannelGone(c) ELSE saved
          /\ sheet' = IF saved' # saved THEN ChangedUntold(sheet) ELSE sheet
          /\ saves' = IF saved' # saved
                      THEN [j \in Saves |-> [saves[j] EXCEPT !.overtaken = @ \/ saves[j].st = "loaded",
                                                             !.late = @ \/ saves[j].st = "ok"]]
                      ELSE saves
          /\ orphaned' = (orphaned \/ gone)
    /\ UNCHANGED <<page, form, entered, pending>>

ServeCall(i) ==
    /\ \/ (Load(i) \/ Consult(i) \/ Refuse(i)) /\ UNCHANGED settings
       \/ CommitCall(i)
    /\ UNCHANGED <<owner, visits>>
EndCall(i) ==
    /\ Done(i, calls[i].kind # "none" /\ UsesList(page, ListOf(calls[i].of)))
    /\ UNCHANGED <<settings, owner, visits>>
ServeSave(i) ==
    /\ \/ RejectSettings(i) \/ FindChannel(i) \/ LoadSettings(i)
       \/ RefuseSettings(i) \/ CommitSettings(i) \/ SettingsSaved(i)
    /\ UNCHANGED <<connections, owner, visits>>
ServeQueries ==
    /\ \/ (ReadSettings \/ SettingsArrive) /\ UNCHANGED connections
       \/ \E l \in Lists : (ReadConnections(l) \/ ConnectionsArrive(l)) /\ UNCHANGED settings
    /\ UNCHANGED <<owner, visits>>

AdminNext ==
    \/ OnPage \/ Others \/ ServeQueries
    \/ \E p \in visits : GoTo(p)
    \/ \E i \in Calls : ServeCall(i) \/ EndCall(i)
    \/ \E i \in Saves : ServeSave(i)

AdminSpec == AdminInit /\ [][AdminNext]_adminVars

-----------------------------------------------------------------------------
(* Properties *)

\* The type of the state; a form is of the page it is on, and a button spins for a request of
\* the form or the page it is on.
AdminTypeOK ==
    /\ row \in [Conns -> Rows] /\ sound \subseteq Channels \cup Tokens
    /\ saved.rev \in Nat /\ (saved.row # None => IsSettingsRow(saved.row))
    /\ form # None => page \in Sections /\ DOMAIN form = FieldsOf[page] /\ entered \subseteq DOMAIN form
    /\ Saving => form # None /\ saves[pending].mine
    /\ \A h \in Hooks : latest[h] # None =>
         LET c == calls[latest[h]] IN page = "channels" /\ c.mine /\ c.shown /\ Hook(c.kind, c.of) = h

\* The settings in the cache are the row's, whichever saves and fetches met, unless another client
\* saved, an answer was lost, a fetch met a save, or answers came in another order than the commits.
SheetIsCurrent ==
    sheet.st = "ok" /\ ~sheet.untold /\ (\A i \in Saves : ~(saves[i].mine /\ saves[i].st = "ok"))
        => sheet.seen = ReadOf(saved)

\* A save whose form was filled from the row as it is changes only fields that the user entered,
\* and a timezone that the forms do not offer (all fields are sent; coerceTimezone).
SaveChangesOnlyEdits ==
    [][\A i \in Saves :
        saves[i].mine /\ saves[i].st = "loaded" /\ saves[i].of = saved.rev /\ saves'[i].st \in {"ok", "error"} =>
            \A f \in Fields : saved'.row[f] # ReadOf(saved).fields[f] =>
                f \in saves[i].entered \/ (f # Channel /\ ReadOf(saved).fields[f] = "foreign")]_adminVars

\* "Saved" means written: the answer has every value that was sent, unless another save, or the
\* removal of a channel, came between the load and the commit (only changed columns are written).
SavedMeansWritten ==
    \A i \in Saves : saves[i].st = "ok" /\ ~saves[i].overtaken =>
        \A f \in DOMAIN saves[i].sent : saves[i].answer.fields[f] = saves[i].sent[f]

\* The server refuses a save of the forms only when another one created the row first, a channel was
\* removed, or its user entered an AliExpress language that is not of letters: of all that the forms
\* let through and are filled with, the schema of the request refuses that alone
\* (aliexpressDisplaySchema, language_upper).
RefusalHasCause ==
    \A i \in Saves : saves[i].mine /\ saves[i].st = "refused" =>
        \/ saves[i].overtaken \/ orphaned
        \/ Language \in saves[i].entered /\ ~Accepted(saves[i].sent)

\* The default channel exists, whichever saves and removals met (the foreign key).
DefaultChannelExists ==
    saved.row # None /\ saved.row[Channel] # None => Exists(saved.row[Channel])

\* A list that was not invalidated is the server's, unless somebody else changed it, an answer was
\* lost, or a change met a request that an invalidation does not cancel (invalidateQueries).
ListsAreCurrent ==
    \A l \in Lists :
        books[l].st = "ok" /\ ~books[l].stale /\ ~books[l].untold
        /\ (\A i \in Calls : ~(calls[i].mine /\ calls[i].st = "ok" /\ ListOf(calls[i].of) = l))
            => books[l].seen = RowsOf(l)

\* The verdict on a Facebook page is about the token it has, unless a validation and a replacement
\* crossed: each loads the row, asks Facebook, and then writes (validate, update).
VerdictIsOfToken == \A p \in Pages : row[p].there => meant[p] = row[p].token \/ crossed[p]

\* What the browser keeps of the rows is what they are, but for the causes named in both parts.
CachesAreCurrent == SheetIsCurrent /\ ListsAreCurrent

\* In every state: the types; "saved" is written and a refusal has a cause; the default channel
\* exists.
AdminInv == AdminTypeOK /\ SavedMeansWritten /\ RefusalHasCause /\ DefaultChannelExists
===============================================================================
