---------------------------- MODULE ContentStudio ----------------------------
(***************************************************************************)
(* The content studio of the frontend (features/ai): a session of one tab with   *)
(* a product source, settings and the variants written so far, the canvas a       *)
(* variant is edited on, requests for new variants, and the operations that turn  *)
(* the active variant into queue items.  Requests answer while the user edits,    *)
(* changes the source, resets the studio or leaves the page.                      *)
(*                                                                         *)
(* A text is the sequence of the kinds of its lines.  The session is stored after *)
(* every change (useContentSession) and read again when the page is opened, so    *)
(* that one variable stands for both.                                       *)
(***************************************************************************)
EXTENDS Naturals, Sequences, FiniteSets, FiniteSetsExt

CONSTANTS
    Products, None,
    Texts,      \* what the service may write
    Edits,      \* what the user may write; Blank is one of them
    Configs,    \* a first one is chosen by Init
    Jobs,
    Budgets     \* bound: requests for a text, for a queue item, edits, changes of source
                \* or settings, and openings of the page, in one behaviour

Blank == <<>>
Kinds == {"blank", "heading", "bullet", "number", "cta", "text"}

ASSUME StudioAssumption ==
    /\ None \notin Products /\ Configs # {} /\ Jobs \subseteq Nat \ {0} /\ IsFiniteSet(Jobs)
    /\ Texts \cup Edits \subseteq Seq(Kinds) /\ Blank \in Edits \ Texts

VARIABLES
    era,        \* session.id
    ctx,        \* session.productContext; link stands for its image and affiliate URL.
                \* handed: the page was opened for this product
    config, modified,   \* session.config; whether an instruction modifier is on
    variants, active,   \* session.variants, the index of the active one (0: none)
    mentioned,  \* the variants in session.history
    made,       \* variants ever made, for their ids
    draft,      \* the canvas: its text, the focus, and the variant it was typed on
    asked,      \* POST /ai/generate under way
    job,        \* queueFromActive under way
    rows,       \* the queue items the studio created
    known,      \* products whose details are in the query cache
    dialog,     \* "none", "reset" or "compare"
    budget

session == <<era, ctx, config, modified, variants, active, mentioned, made>>
page == <<draft, dialog>>
requests == <<asked, job>>
studioVars == <<session, page, requests, rows, known, budget>>

Spend(on) == budget[on] > 0 /\ budget' = [budget EXCEPT ![on] = @ - 1]

-----------------------------------------------------------------------------
(* parseMarketingDocument: blocks of line numbers *)

\* A list goes on until it is closed
FlushNothing(s) == s

FlushList(s) ==
    [s EXCEPT !.blocks = IF s.list = "none" \/ s.items = <<>> THEN @
                         ELSE Append(@, [type |-> s.list, lines |-> s.items]),
              !.items = <<>>, !.list = "none"]

FlushParagraph(s) ==
    IF s.para = <<>> THEN s
    ELSE [s EXCEPT !.blocks = Append(@, [type |-> "paragraph", lines |-> s.para]), !.para = <<>>]

\* One turn of the loop over the lines
ReadLine(s, n, kind) ==
    LET closed == FlushParagraph(s)
        other  == s.list # "none" /\ s.list # kind
        open   == IF other THEN FlushList(closed) ELSE closed
    IN CASE kind = "blank" -> FlushList(closed)
         [] kind \in {"bullet", "number"} -> [open EXCEPT !.list = kind, !.items = Append(@, n)]
         [] kind \in {"heading", "cta"} ->
                LET t == FlushList(closed) IN
                [t EXCEPT !.blocks = Append(@, [type |-> kind, lines |-> <<n>>])]
         [] kind = "text" ->
                LET t == IF s.list # "none" THEN FlushList(s) ELSE s IN
                [t EXCEPT !.para = Append(@, n)]

NothingRead == [blocks |-> <<>>, para |-> <<>>, items |-> <<>>, list |-> "none"]

\* The loop over the lines: what has been read after n of them
Reading(text) ==
    LET read[n \in 0 .. Len(text)] ==
            IF n = 0 THEN NothingRead ELSE ReadLine(read[n - 1], n, text[n])
    IN read

\* The blocks when the reading ends here
Closed(s) == FlushList(FlushParagraph(s)).blocks

Blocks(text) ==
    LET blocks == Closed(Reading(text)[Len(text)])
    IN IF blocks = <<>> THEN <<[type |-> "paragraph", lines |-> <<>>]>> ELSE blocks

-----------------------------------------------------------------------------
(* The session *)

NoProduct == [type |-> "url", product |-> None, label |-> None, link |-> None, url |-> FALSE,
              handed |-> FALSE]

Active == variants[active]
Content == IF active = 0 THEN Blank ELSE Active.text
IsBlank(text) == \A n \in 1 .. Len(text) : text[n] = "blank"

CanGenerate == IF ctx.type = "product" THEN ctx.product # None ELSE ctx.url
Generating == \E g \in asked : g.shown
Busy == \E j \in Jobs : job[j].step # "none" /\ job[j].shown

NoJob == [step |-> "none", shown |-> FALSE, variant |-> 0, text |-> Blank, product |-> None,
          title |-> None, link |-> None, publish |-> FALSE, status |-> "none", row |-> 0,
          call |-> "none"]

\* Clicks: the textarea has lost the focus before, and has saved its draft; a dialog covers
\* the page
Clickable == ~draft.focus /\ dialog = "none"

\* The effect that copies the details of the chosen product
WithDetails(c, cache) ==
    IF c.product \in cache THEN [c EXCEPT !.label = c.product, !.link = c.product] ELSE c

\* The effect on content: only a different text replaces the draft
ShownDraft(text) ==
    IF text = Content THEN draft ELSE [text |-> text, focus |-> FALSE, on |-> 0]

SetContext(c) ==
    /\ ctx' = WithDetails(c, known)
    /\ UNCHANGED <<era, config, modified, variants, active, mentioned, made, page, requests,
                   rows, known>>

\* The picker's options carry the details
Picked(p) ==
    [ctx EXCEPT !.product = p, !.label = p, !.link = p, !.url = FALSE, !.handed = FALSE]

PickProduct(p) ==
    Spend("changes") /\ Clickable /\ ctx.type = "product" /\ p # ctx.product /\ SetContext(Picked(p))

TypeUrl ==
    Spend("changes") /\ Clickable /\ ctx.type = "url" /\ SetContext([NoProduct EXCEPT !.url = TRUE])

\* The label stays
SwitchSource(t) ==
    /\ Spend("changes") /\ Clickable /\ t # ctx.type
    /\ SetContext(IF t = "product" THEN [ctx EXCEPT !.type = t, !.url = FALSE]
                  ELSE [ctx EXCEPT !.type = t, !.product = None, !.link = None, !.handed = FALSE])

DetailsArrive ==
    /\ ctx.product \in Products \ known
    /\ known' = known \cup {ctx.product} /\ ctx' = WithDetails(ctx, known')
    /\ UNCHANGED <<era, config, modified, variants, active, mentioned, made, page, requests,
                   rows, budget>>

SetConfig(c) ==
    /\ Spend("changes") /\ Clickable /\ c # config /\ config' = c
    /\ UNCHANGED <<era, ctx, modified, variants, active, mentioned, made, page, requests, rows,
                   known>>

ToggleModifier ==
    /\ Spend("changes") /\ Clickable /\ modified' = ~modified
    /\ UNCHANGED <<era, ctx, config, variants, active, mentioned, made, page, requests, rows,
                   known>>

-----------------------------------------------------------------------------
(* Variants *)

\* updateActiveContent: the text of the variant that is active now
Saved(text) == [variants EXCEPT ![active].text = text, ![active].origin = "manual_edit"]

\* That of the next one
NewIndex == Len(variants) + 1

Add(v, also) ==
    /\ variants' = Append(variants, v) /\ active' = NewIndex
    /\ mentioned' = mentioned \cup {v.id} \cup also /\ made' = v.id
    /\ draft' = ShownDraft(v.text)

RestorePrevious ==
    /\ Spend("changes") /\ Clickable /\ active > 1
    /\ Add([variants[active - 1] EXCEPT !.id = made + 1, !.origin = "restore"],
           {variants[active - 1].id})
    /\ UNCHANGED <<era, ctx, config, modified, dialog, requests, rows, known>>

Activate(n) ==
    /\ Clickable /\ n \in 1 .. Len(variants) /\ n # active
    /\ active' = n /\ mentioned' = mentioned \cup {variants[n].id}
    /\ draft' = ShownDraft(variants[n].text)
    /\ UNCHANGED <<era, ctx, config, modified, variants, made, dialog, requests, rows, known, budget>>

\* The textarea is there while the draft is not blank; emptied, it goes without a blur
Type(text) ==
    /\ Spend("edits") /\ dialog = "none" /\ ~IsBlank(draft.text) /\ text # draft.text
    /\ draft' = [text |-> text, focus |-> ~IsBlank(text),
                 on |-> IF draft.focus THEN draft.on ELSE Active.id]
    /\ UNCHANGED <<session, dialog, requests, rows, known>>

\* The draft stays a draft
BlurOnly(text) == variants

\* onBlur
SavedDraft(text) == IF text # Content THEN Saved(text) ELSE variants

Blur ==
    /\ draft.focus /\ draft' = [draft EXCEPT !.focus = FALSE]
    /\ variants' = SavedDraft(draft.text)
    /\ UNCHANGED <<era, ctx, config, modified, active, mentioned, made, dialog, requests, rows,
                   known, budget>>

-----------------------------------------------------------------------------
(* Generation *)

\* runGenerate, from the buttons of the hub
Generate(origin) ==
    /\ Spend("asks") /\ Clickable /\ CanGenerate /\ ~Generating
    /\ origin = "variant" => variants # <<>>
    /\ asked' = asked \cup {[shown |-> TRUE, era |-> era, product |-> ctx.product,
                             origin |-> IF variants = <<>> THEN "generate" ELSE origin]}
    /\ UNCHANGED <<session, page, job, rows, known>>

\* The link in the suggestions: without a source there is nothing to send
ApplySuggestions == modified /\ Generate("variant")

\* The service answers for a product; a URL may turn out to be that of an imported one
GenerateAnswers ==
    \E g \in asked, text \in Texts, p \in Products \cup {None} :
        /\ g.product # None => p = g.product
        /\ asked' = asked \ {g}
        /\ IF g.shown
           THEN Add([id |-> made + 1, text |-> text, product |-> p, config |-> config,
                     askedIn |-> g.era, origin |-> g.origin], {})
           ELSE UNCHANGED <<variants, active, mentioned, made, draft>>
        /\ UNCHANGED <<era, ctx, config, modified, dialog, job, rows, known, budget>>

GenerateFails ==
    \E g \in asked :
        /\ asked' = asked \ {g}
        /\ UNCHANGED <<session, page, job, rows, known, budget>>

-----------------------------------------------------------------------------
(* Distribution *)

MayPost == ~Busy

\* queueFromActive up to its first await
Post(status, publish) ==
    /\ Spend("posts") /\ Clickable /\ MayPost /\ active # 0 /\ ~IsBlank(Content)
    /\ \E j \in Jobs : job[j] = NoJob
    /\ job' = [job EXCEPT ![Min({j \in Jobs : job[j] = NoJob})] =
           [step |-> "create", shown |-> TRUE, variant |-> Active.id, text |-> Content,
            product |-> IF Active.product # None THEN Active.product ELSE ctx.product,
            title |-> ctx.label, link |-> ctx.link, publish |-> publish, status |-> status,
            row |-> 0, call |-> "sent"]]
    /\ UNCHANGED <<session, page, asked, rows, known>>

\* The server answers; an answer may be lost
ServeCreate(j) ==
    /\ job[j].step = "create" /\ job[j].call = "sent"
    /\ \E answer \in {"ok", "error"} :
        \/ /\ rows' = Append(rows, [st |-> job[j].status, variant |-> job[j].variant])
           /\ job' = [job EXCEPT ![j].call = answer, ![j].row = Len(rows) + 1]
        \/ answer = "error" /\ job' = [job EXCEPT ![j].call = answer] /\ UNCHANGED rows
    /\ UNCHANGED <<session, page, asked, known, budget>>

ServePublish(j) ==
    /\ job[j].step = "publish" /\ job[j].call = "sent"
    /\ LET r == job[j].row IN
       \/ /\ rows[r].st = "queued" /\ rows' = [rows EXCEPT ![r].st = "published"]
          /\ \E answer \in {"ok", "error"} : job' = [job EXCEPT ![j].call = answer]
       \/ job' = [job EXCEPT ![j].call = "error"] /\ UNCHANGED rows
    /\ UNCHANGED <<session, page, asked, known, budget>>

\* The beat batch publishes what is queued
WorkerPublishes ==
    \E r \in DOMAIN rows :
        /\ rows[r].st = "queued" /\ rows' = [rows EXCEPT ![r].st = "published"]
        /\ UNCHANGED <<session, page, requests, known, budget>>

\* logDistribution: a page that was left logs nothing
Log(j) == mentioned' = IF job[j].shown THEN mentioned \cup {job[j].variant} ELSE mentioned

Ended(j) == job' = [job EXCEPT ![j] = NoJob]

\* catch
Caught(j) == Ended(j)

Created(j) ==
    /\ job[j].step = "create" /\ job[j].call = "ok" /\ Log(j)
    /\ IF job[j].publish
       THEN job' = [job EXCEPT ![j].step = "publish", ![j].call = "sent"] ELSE Ended(j)
    /\ UNCHANGED <<era, ctx, config, modified, variants, active, made, page, asked, rows, known, budget>>

Published(j) ==
    /\ job[j].step = "publish" /\ job[j].call = "ok" /\ Log(j) /\ Ended(j)
    /\ UNCHANGED <<era, ctx, config, modified, variants, active, made, page, asked, rows, known, budget>>

PostFails(j) ==
    /\ job[j].call = "error" /\ Caught(j)
    /\ UNCHANGED <<session, page, asked, rows, known, budget>>

\* onExport; copying changes nothing
Export ==
    /\ Clickable /\ active # 0 /\ ~IsBlank(Content)
    /\ mentioned' = mentioned \cup {Active.id}
    /\ UNCHANGED <<era, ctx, config, modified, variants, active, made, page, requests, rows, known,
                   budget>>

-----------------------------------------------------------------------------
(* Reset, and the page itself *)

\* The request goes on for the page
Attached(g) == g

\* generation.reset
Detached(g) == [g EXCEPT !.shown = FALSE]

PerformReset ==
    /\ era' = era + 1 /\ ctx' = NoProduct /\ config' = CHOOSE c \in Configs : TRUE
    /\ modified' = FALSE /\ variants' = <<>> /\ active' = 0 /\ mentioned' = {}
    /\ asked' = {Detached(g) : g \in asked}
    /\ draft' = ShownDraft(Blank) /\ dialog' = "none"
    /\ UNCHANGED <<made, job, rows, known>>

RequestReset ==
    /\ Spend("openings") /\ Clickable
    /\ IF variants = <<>> THEN PerformReset
       ELSE dialog' = "reset" /\ UNCHANGED <<session, draft, requests, rows, known>>

ConfirmReset == dialog = "reset" /\ PerformReset /\ UNCHANGED budget

OpenCompare ==
    /\ Clickable /\ Len(variants) > 1 /\ dialog' = "compare"
    /\ UNCHANGED <<session, draft, requests, rows, known, budget>>

CloseDialog ==
    /\ dialog # "none" /\ dialog' = "none"
    /\ UNCHANGED <<session, draft, requests, rows, known, budget>>

\* The page is left and opened again: without parameters, for a product or for a URL.
\* Callbacks of the requests are gone, queueFromActive itself runs on.
Open(how, p) ==
    /\ Spend("openings")
    /\ ctx' = CASE how = "product" -> WithDetails([ctx EXCEPT !.type = "product", !.product = p,
                                                     !.url = FALSE, !.handed = TRUE], known)
                [] how = "url" -> [NoProduct EXCEPT !.url = TRUE]
                [] how = "menu" -> ctx
    /\ asked' = {[g EXCEPT !.shown = FALSE] : g \in asked}
    /\ job' = [j \in Jobs |-> [job[j] EXCEPT !.shown = FALSE]]
    /\ draft' = [text |-> Content, focus |-> FALSE, on |-> 0] /\ dialog' = "none"
    /\ UNCHANGED <<era, config, modified, variants, active, mentioned, made, rows, known>>

-----------------------------------------------------------------------------
StudioInit ==
    /\ era = 1 /\ ctx = NoProduct /\ config = (CHOOSE c \in Configs : TRUE) /\ modified = FALSE
    /\ variants = <<>> /\ active = 0 /\ mentioned = {} /\ made = 0
    /\ draft = [text |-> Blank, focus |-> FALSE, on |-> 0] /\ dialog = "none"
    /\ asked = {} /\ job = [j \in Jobs |-> NoJob] /\ rows = <<>> /\ known = {}
    /\ budget \in Budgets

ContextClick ==
    \/ \E p \in Products \cup {None} : PickProduct(p)
    \/ TypeUrl \/ \E t \in {"product", "url"} : SwitchSource(t)
    \/ \E c \in Configs : SetConfig(c)
    \/ ToggleModifier

PageClick ==
    \/ RestorePrevious \/ \E n \in 1 .. Len(variants) : Activate(n)
    \/ \E text \in Edits : Type(text)
    \/ Generate("generate") \/ Generate("variant") \/ ApplySuggestions
    \/ Post("draft", FALSE) \/ Post("queued", FALSE) \/ Post("queued", TRUE) \/ Export
    \/ RequestReset \/ ConfirmReset \/ OpenCompare \/ CloseDialog
    \/ Open("menu", None) \/ Open("url", None) \/ \E p \in Products : Open("product", p)

Serve(j) == ServeCreate(j) \/ ServePublish(j)
Continue(j) == Created(j) \/ Published(j) \/ PostFails(j)

StudioNext ==
    \/ ContextClick \/ PageClick \/ Blur
    \/ DetailsArrive \/ GenerateAnswers \/ GenerateFails \/ WorkerPublishes
    \/ \E j \in Jobs : Serve(j) \/ Continue(j)

StudioSpec == StudioInit /\ [][StudioNext]_studioVars

-----------------------------------------------------------------------------
(* Properties *)

\* The type of the session; a variant is active exactly when there is one (useContentSession).
StudioTypeOK ==
    /\ era \in Nat /\ made \in Nat /\ config \in Configs /\ modified \in BOOLEAN
    /\ {ctx.product, ctx.label, ctx.link} \subseteq Products \cup {None}
    /\ ctx.type \in {"product", "url"} /\ {ctx.url, ctx.handed} \subseteq BOOLEAN
    /\ \A n \in DOMAIN variants : variants[n].text \in Texts \cup Edits
    /\ active \in IF variants = <<>> THEN {0} ELSE DOMAIN variants
    /\ mentioned \subseteq 1 .. made
    /\ draft.text \in Texts \cup Edits \cup {Blank} /\ draft.on \in 0 .. made
    /\ DOMAIN job = Jobs /\ known \subseteq Products /\ dialog \in {"none", "reset", "compare"}

\* The blocks are the first n lines of a text
KindOf(type) == IF type = "paragraph" THEN "text" ELSE type

KeepsLines(blocks, text, n) ==
    /\ \A m \in 1 .. n : text[m] # "blank" =>
        \E b \in DOMAIN blocks : \E i \in DOMAIN blocks[b].lines : blocks[b].lines[i] = m
    /\ \A b \in DOMAIN blocks : \A i \in DOMAIN blocks[b].lines :
        LET m == blocks[b].lines[i] IN m \in 1 .. n /\ text[m] = KindOf(blocks[b].type)
    /\ \A b, c \in DOMAIN blocks :
        \A i \in DOMAIN blocks[b].lines : \A j \in DOMAIN blocks[c].lines :
            b < c \/ (b = c /\ i < j) => blocks[b].lines[i] < blocks[c].lines[j]

\* The document shown for a variant has every line of its text that is not blank, once, in the
\* order of the text, in a block of its kind (parseMarketingDocument).
DocumentKeepsLines ==
    \A n \in DOMAIN variants :
        KeepsLines(Blocks(variants[n].text), variants[n].text, Len(variants[n].text))

\* A studio that was reset gets no variant that was asked for before (generation.reset).
ResetForgetsRequests == \A n \in DOMAIN variants : variants[n].askedIn = era

\* What was typed on one variant is not saved to another one, unless an answer with the very
\* same text took its place (RichDocumentCanvas, updateActiveContent).
EditsStay ==
    draft.focus /\ draft.text # Content =>
        \E n \in DOMAIN variants : variants[n].id = draft.on /\ variants[n].text = Content

\* The jobs that begin in this step
Begun == {job'[j] : j \in {k \in Jobs : job[k] = NoJob /\ job'[k] # NoJob}}

\* What is posted is what the page shows: the text on the canvas, or the last text when the
\* canvas was emptied; and the item links to the product its text is about, unless the source
\* was changed after the text was written, or the page was opened for a product whose details
\* have not come yet (queueFromActive, ProductSourcePicker).
PostedAsShown ==
    [][\A b \in Begun :
        /\ b.text = draft.text \/ IsBlank(draft.text)
        /\ \/ b.product = Active.product /\ b.link \in {b.product, None}
           \/ ctx.product # Active.product
           \/ ctx.handed /\ ctx.product \notin known]_studioVars

\* One page turns a text into queue items one at a time: two jobs of one tab mean that the
\* page was left (busy).
OnePostAtATime == Cardinality({j \in Jobs : job[j].step # "none" /\ job[j].shown}) <= 1

\* In every state: the types; no text of a studio that was reset; edits that stay on their
\* variant; and one post at a time from one page.
StudioInv == StudioTypeOK /\ ResetForgetsRequests /\ EditsStay /\ OnePostAtATime
=============================================================================
