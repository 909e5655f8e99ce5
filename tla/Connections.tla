----------------------------- MODULE Connections -----------------------------
(***************************************************************************)
(* Telegram channels and Facebook pages: their rows, the page of the frontend that  *)
(* lists them (features/channels), and the requests of this browser and of other    *)
(* administrators, which ask Telegram or Facebook while their row may change.       *)
(***************************************************************************)
EXTENDS Naturals, FiniteSets, FiniteSetsExt, QueryCache

CONSTANTS
    None,
    Channels,   \* Telegram channels, by telegram_channel_id
    Pages,      \* Facebook pages, by facebook_page_id
    Tokens,     \* page access tokens
    Calls       \* bound: requests under way

ConnectionsAssumption ==
    /\ Channels \cap Pages = {} /\ IsFiniteSet(Channels \cup Pages) /\ None \notin Channels \cup Pages \cup Tokens
    /\ Calls \subseteq Nat /\ IsFiniteSet(Calls) /\ None \notin Calls
ASSUME ConnectionsAssumption

Conns == Channels \cup Pages

VARIABLES
    row,        \* the tables telegram_channels and facebook_pages
    sound,      \* what Telegram and Facebook would say: the channels with rights, the accepted tokens
    books,      \* the query cache: the two lists
    typed,      \* replacementToken
    calls,      \* requests to change a connection
    latest,     \* of each mutation of the page, the last call while it is pending
    meant,      \* the token the verdict of a page is about
    crossed,    \* history: the verdict and the token of a page were written by requests that
                \* crossed, and no request has written both since
    owner,      \* the user is an owner of the workspace or an administrator
    allowance   \* bound: of every kind of step, how many more

connections == <<row, sound, books, typed, calls, latest, meant, crossed>>

Use(on) == allowance[on] > 0 /\ allowance' = [allowance EXCEPT ![on] = @ - 1]

\* id tells a connection from one that was removed before
Rows == [there : BOOLEAN, id : Nat, active : BOOLEAN, verdict : {"good", "bad"}, token : Tokens \cup {None}]
NoRow == [there |-> FALSE, id |-> 0, active |-> FALSE, verdict |-> "bad", token |-> None]
NoCall == [kind |-> "none", of |-> None, id |-> 0, to |-> None, st |-> "none", saw |-> NoRow, word |-> "none",
           mine |-> FALSE, shown |-> FALSE]
Lists == {"channels", "pages"}
ListOf(c) == IF c \in Channels THEN "channels" ELSE "pages"

\* The useMutation hook of a request; replacing and toggling a page share one
Hook(kind, c) == <<ListOf(c), IF kind = "replace" THEN "toggle" ELSE kind>>
Hooks == Lists \X {"create", "toggle", "check", "remove"}

-----------------------------------------------------------------------------
(* Lists *)

\* list_in_workspace; a token is never sent back
RowsOf(l) ==
    [c \in {d \in Conns : ListOf(d) = l /\ row[d].there} |-> [row[c] EXCEPT !.token = None]]
Empty == [c \in {} |-> NoRow]

Listed(c) ==
    LET b == books[ListOf(c)] IN b.known /\ b.st # "error" /\ c \in DOMAIN b.seen

ReadConnections(l) ==
    /\ books[l].call = "sent"
    /\ books' = [books EXCEPT ![l] = Served(@, RowsOf(l))]
    /\ UNCHANGED <<row, sound, typed, calls, latest, meant, crossed, allowance>>

ConnectionsArrive(l) ==
    /\ books[l].call = "read"
    /\ \/ books' = [books EXCEPT ![l] = Arrived(@, Empty)] /\ UNCHANGED allowance
       \/ books' = [books EXCEPT ![l] = Failed(@, Empty)] /\ Use("failures")
    /\ UNCHANGED <<row, sound, typed, calls, latest, meant, crossed>>

\* The retry of a failed list
RefetchConnections(l) ==
    /\ books[l].st = "error" /\ books[l].call = "none"
    /\ books' = [books EXCEPT ![l] = Asked(@)]
    /\ UNCHANGED <<row, sound, typed, calls, latest, meant, crossed, allowance>>

-----------------------------------------------------------------------------
(* The page *)

Send(c) ==
    \E i \in Calls :
        /\ calls[i] = NoCall /\ \A j \in Calls : calls[j] = NoCall => i <= j
        /\ calls' = [calls EXCEPT ![i] = c]
        /\ latest' = IF c.mine THEN [latest EXCEPT ![Hook(c.kind, c.of)] = i] ELSE latest
    /\ UNCHANGED <<row, sound, books, typed, meant, crossed>>

Mine(kind, c, id, to) ==
    [NoCall EXCEPT !.kind = kind, !.of = c, !.id = id, !.to = to, !.st = "sent", !.mine = TRUE, !.shown = TRUE]

\* The button spins: isPending, and variables of the last call
Spins(kind, c) ==
    LET i == latest[Hook(kind, c)] IN i # None /\ (kind = "create" \/ calls[i].of = c)

Press(kind, c, to) ==
    /\ Listed(c) /\ ~Spins(kind, c) /\ Use("clicks")
    /\ Send(Mine(kind, c, books[ListOf(c)].seen[c].id, to))

AddChannel(c) == c \in Channels /\ ~Spins("create", c) /\ Use("clicks") /\ Send(Mine("create", c, 0, None))
AddPage(p, t) == p \in Pages /\ ~Spins("create", p) /\ Use("clicks") /\ Send(Mine("create", p, 0, t))
Check(c) == Press("check", c, None)
Toggle(c) ==
    /\ Listed(c) /\ (c \in Pages => typed[c] = None)
    /\ Press("toggle", c, ~books[ListOf(c)].seen[c].active)
ReplaceToken(p) == p \in Pages /\ typed[p] # None /\ Press("replace", p, typed[p])
RemovePage(p) == p \in Pages /\ Press("remove", p, None)

TypeToken(p, t) ==
    /\ p \in Pages /\ Listed(p) /\ typed[p] # t /\ Use("clicks")
    /\ typed' = [typed EXCEPT ![p] = t]
    /\ UNCHANGED <<row, sound, books, calls, latest, meant, crossed>>

\* Another administrator, or a client of the API
ElseWhere(kind, c, to) ==
    /\ Use("others") /\ (kind = "create") # row[c].there
    /\ Send([Mine(kind, c, row[c].id, to) EXCEPT !.mine = FALSE, !.shown = FALSE])

\* A bot loses or gets its rights, a token is revoked or accepted
Outside(x) ==
    /\ Use("outside")
    /\ sound' = IF x \in sound THEN sound \ {x} ELSE sound \cup {x}
    /\ UNCHANGED <<row, books, typed, calls, latest, meant, crossed>>

-----------------------------------------------------------------------------
(* The server *)

Step(i, c) ==
    /\ calls' = [calls EXCEPT ![i] = c]
    /\ UNCHANGED <<sound, typed, latest>>

\* _require_edit, for pages; anybody in the workspace may change channels, and validate
Allowed(c) == c.mine /\ c.of \in Pages /\ c.kind # "check" => owner

AsksOutside(c) == c.kind \in {"create", "check", "replace"}

\* _get_or_404, or the look for an existing connection
Load(i) ==
    /\ calls[i].st = "sent"
    /\ LET c == calls[i]
           fits == IF c.kind = "create" THEN ~row[c.of].there ELSE row[c.of].there /\ row[c.of].id = c.id
       IN Step(i, [c EXCEPT !.saw = row[c.of],
                            !.st = CASE ~Allowed(c) \/ ~fits -> "error"
                                     [] Allowed(c) /\ fits /\ AsksOutside(c) -> "asking"
                                     [] OTHER -> "told"])
    /\ UNCHANGED <<row, books, meant, crossed, allowance>>

\* Which token Facebook is asked about: the stored one, or the one of the request
Subject(c) ==
    CASE c.of \in Channels -> c.of
      [] c.of \in Pages /\ c.kind = "check" -> c.saw.token
      [] OTHER -> c.to

\* The answer of Telegram or Facebook; that they fail is taken for a no
Consult(i) ==
    /\ calls[i].st = "asking"
    /\ \E word \in {"good", "bad"} :
        /\ IF word = "bad" /\ Subject(calls[i]) \in sound THEN Use("failures")
           ELSE (word = "good") = (Subject(calls[i]) \in sound) /\ UNCHANGED allowance
        /\ Step(i, [calls[i] EXCEPT !.word = word,
                    !.st = IF word = "bad" /\ calls[i].of \in Pages /\ calls[i].kind # "check"
                           THEN "error" ELSE "told"])
    /\ UNCHANGED <<row, books, meant, crossed>>

\* The values after the request, given those it loaded; the new token is not judged
WantedUnjudged(c) ==
    CASE c.kind = "toggle" -> [c.saw EXCEPT !.active = c.to]
      [] c.kind = "check" -> [c.saw EXCEPT !.verdict = c.word]
      [] OTHER -> [c.saw EXCEPT !.token = c.to]

\* The values after the request, given those it loaded
Wanted(c) ==
    CASE c.kind = "toggle" -> [c.saw EXCEPT !.active = c.to]
      [] c.kind = "check" -> [c.saw EXCEPT !.verdict = c.word]
      [] OTHER -> [c.saw EXCEPT !.token = c.to, !.verdict = "good"]

\* Only columns that differ from the loaded ones are written; a new ciphertext always differs
Flushed(now, c) ==
    LET new == Wanted(c) IN
    [f \in DOMAIN now |-> IF new[f] = c.saw[f] /\ (f = "token" => c.kind # "replace") THEN now[f] ELSE new[f]]

\* A channel keeps whatever Telegram said, a page comes only with a good token
Created(now, c) == [there |-> TRUE, id |-> now.id + 1, active |-> TRUE, verdict |-> c.word, token |-> c.to]

\* Whether the statement finds what it needs: the unique constraint free, or the row
Finds(now, c) ==
    CASE c.kind = "create" -> ~now.there
      [] c.kind = "remove" -> TRUE
      [] OTHER -> now.there /\ now.id = c.id

Written(now, c) ==
    CASE c.kind = "create" -> Created(now, c)
      [] c.kind = "remove" -> IF now.id = c.id THEN [NoRow EXCEPT !.id = now.id] ELSE now
      [] OTHER -> Flushed(now, c)

\* Whether the request crossed one that wrote the other half of token and verdict
Crosses(now, c) ==
    \/ c.kind = "check" /\ now.token # c.saw.token
    \/ c.kind = "replace" /\ now.verdict # c.saw.verdict

Refuse(i) ==
    /\ calls[i].st = "told" /\ ~Finds(row[calls[i].of], calls[i])
    /\ Step(i, [calls[i] EXCEPT !.st = "error"])
    /\ UNCHANGED <<row, books, meant, crossed, allowance>>

\* The commit, whose answer may be lost
Commit(i) ==
    LET c == calls[i]
        now == row[c.of]
        new == Written(now, c)
        judges == c.of \in Pages /\ c.kind \in {"create", "check", "replace"}
    IN /\ c.st = "told" /\ Finds(now, c)
       /\ row' = [row EXCEPT ![c.of] = new]
       /\ \E answer \in {"ok", "error"} :
            /\ IF answer = "error" THEN Use("failures") ELSE UNCHANGED allowance
            /\ Step(i, [c EXCEPT !.st = answer])
            /\ books' = [books EXCEPT ![ListOf(c.of)] =
                 CASE new = now -> @
                   [] new # now /\ c.mine /\ answer = "ok" -> ChangedHere(@)
                   [] OTHER -> ChangedUntold(@)]
       /\ meant' = IF judges /\ new.verdict = Wanted(c).verdict
                    THEN [meant EXCEPT ![c.of] = Subject(c)] ELSE meant
       /\ crossed' = IF judges
                      THEN [crossed EXCEPT ![c.of] = Crosses(now, c) \/ (@ /\ new.verdict # Wanted(c).verdict)]
                      ELSE crossed

\* The lists after an answer, when only additions and removals count
ListsAfterFew(i, used) ==
    LET c == calls[i] IN
    IF c.mine /\ c.st = "ok" /\ c.kind \in {"create", "remove"}
    THEN [books EXCEPT ![ListOf(c.of)] = Invalidated(@, used, Empty)] ELSE books

\* onSuccess of the hooks: the lists after an answer
ListsAfter(i, used) ==
    LET c == calls[i] IN
    IF c.mine /\ c.st = "ok" THEN [books EXCEPT ![ListOf(c.of)] = Invalidated(@, used, Empty)] ELSE books

\* The answer is here
Done(i, used) ==
    /\ calls[i].st \in {"ok", "error"}
    /\ LET c == calls[i]
           h == Hook(c.kind, c.of)
       IN /\ calls' = [calls EXCEPT ![i] = NoCall]
          /\ latest' = [latest EXCEPT ![h] = IF @ = i THEN None ELSE @]
          /\ typed' = IF c.st = "ok" /\ c.kind = "replace" /\ latest[h] = i /\ c.shown
                      THEN [typed EXCEPT ![c.of] = None] ELSE typed
          /\ books' = ListsAfter(i, used)
    /\ UNCHANGED <<row, sound, meant, crossed, allowance>>

-----------------------------------------------------------------------------
\* The page is left: what it asked for goes on
LeaveConnections ==
    /\ calls' = [i \in Calls |-> [calls[i] EXCEPT !.shown = FALSE]]
    /\ latest' = [h \in Hooks |-> None]
    /\ typed' = [p \in Pages |-> None]
    /\ UNCHANGED <<row, sound, meant, crossed>>

UseConnections ==
    \/ \E c \in Conns : Check(c) \/ Toggle(c)
    \/ \E c \in Channels : AddChannel(c)
    \/ \E p \in Pages : ReplaceToken(p) \/ RemovePage(p) \/ \E t \in Tokens : AddPage(p, t) \/ TypeToken(p, t)

OthersConnect ==
    \/ \E c \in Conns : ElseWhere("check", c, None) \/ ElseWhere("remove", c, None)
                        \/ \E b \in BOOLEAN : ElseWhere("toggle", c, b)
    \/ \E c \in Channels : ElseWhere("create", c, None)
    \/ \E p \in Pages, t \in Tokens : ElseWhere("create", p, t) \/ ElseWhere("replace", p, t)
    \/ \E x \in Channels \cup Tokens : Outside(x)
=============================================================================
