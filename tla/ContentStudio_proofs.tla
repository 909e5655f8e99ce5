------------------------ MODULE ContentStudio_proofs ------------------------
(***************************************************************************)
(* Theorems about the content studio, for any products, texts, settings, jobs and   *)
(* budgets: what keeps a reset studio free of old requests, edits on their          *)
(* variant, and posts apart, that what is posted is what is shown, and that the     *)
(* document shown keeps every line of its text.                                   *)
(*                                                                         *)
(* The inductive invariant has four parts: the source, the variants with the        *)
(* canvas, the requests for a text, and the jobs.                                *)
(***************************************************************************)
EXTENDS ContentStudio, FiniteSetTheorems, WellFoundedInduction, SequenceTheorems, TLAPS

-----------------------------------------------------------------------------
(* The invariant *)

Contexts ==
    [type : {"product", "url"}, product : Products \cup {None}, label : Products \cup {None},
     link : Products \cup {None}, url : BOOLEAN, handed : BOOLEAN]

Written == Texts \cup Edits

Variants ==
    [id : Nat, text : Written, product : Products \cup {None}, config : Configs, askedIn : Nat,
     origin : {"generate", "variant", "restore", "manual_edit"}]

Drafts == [text : Written, focus : BOOLEAN, on : Nat]

Asks == [shown : BOOLEAN, era : Nat, product : Products \cup {None}, origin : {"generate", "variant"}]

PostJobs ==
    [step : {"none", "create", "publish"}, shown : BOOLEAN, variant : Nat, text : Written,
     product : Products \cup {None}, title : Products \cup {None}, link : Products \cup {None},
     publish : BOOLEAN, status : {"none", "draft", "queued"}, row : Nat, call : {"none", "sent", "ok", "error"}]

\* The link is the product's, but for a product that was handed over and whose details have not come
LinkFits(c, cache) == c.link \in {c.product, None} \/ (c.handed /\ c.product \notin cache)

SourceInv == ctx \in Contexts /\ known \subseteq Products /\ LinkFits(ctx, known) /\ config \in Configs /\ modified \in BOOLEAN

VariantTypes ==
    /\ era \in Nat /\ made \in Nat
    /\ variants \in Seq(Variants)
    /\ \A n \in DOMAIN variants : variants[n].id \in 1 .. made /\ variants[n].askedIn = era
    /\ active \in IF variants = <<>> THEN {0} ELSE DOMAIN variants
    /\ mentioned \subseteq 1 .. made
    /\ draft \in Drafts /\ draft.on \in 0 .. made
    /\ dialog \in {"none", "reset", "compare"}

\* At rest the canvas shows the active variant, unless it was emptied
DraftIsShown == ~draft.focus => draft.text = Content \/ IsBlank(draft.text)

\* What is typed is typed on a variant, whose text is still that of the active one
DraftHasVariant ==
    draft.focus => dialog = "none" /\ \E n \in DOMAIN variants : variants[n].id = draft.on /\ variants[n].text = Content

VariantInv == VariantTypes /\ DraftIsShown /\ DraftHasVariant

\* Requests that the page still waits for were made in this studio
RequestInv == asked \subseteq Asks /\ \A g \in asked : g.shown => g.era = era

Posting(j) == job[j].step # "none" /\ job[j].shown

QueueRows == [st : {"none", "draft", "queued", "published"}, variant : Nat]

JobInv ==
    /\ rows \in Seq(QueueRows)
    /\ job \in [Jobs -> PostJobs]
    /\ \A j \in Jobs : job[j].variant \in 0 .. made /\ (job[j].step # "none" => job[j].variant # 0)
    /\ \A j, k \in Jobs : Posting(j) /\ Posting(k) => j = k

StudioIInv == SourceInv /\ VariantInv /\ RequestInv /\ JobInv

-----------------------------------------------------------------------------
(* The source *)

\* The details of a product that are known are copied.
LEMMA DetailsFit ==
    ASSUME NEW c \in Contexts, NEW cache \in SUBSET Products
    PROVE  WithDetails(c, cache) \in Contexts
           /\ (LinkFits(c, cache) \/ c.product \in cache \/ c.handed => LinkFits(WithDetails(c, cache), cache))
<1>1. CASE c.product \in cache
  <2> DEFINE d == [c EXCEPT !.label = c.product, !.link = c.product]
  <2>1. d \in Contexts /\ d.link = d.product
    BY <1>1 DEF Contexts
  <2> QED BY <1>1, <2>1 DEF WithDetails, LinkFits
<1>2. CASE c.product \notin cache
  BY <1>2 DEF WithDetails, LinkFits
<1> QED BY <1>1, <1>2

LEMMA NoProductIs == NoProduct \in Contexts /\ NoProduct.link = None /\ NoProduct.product = None
BY DEF NoProduct, Contexts

LEMMA SourceKept ==
    ASSUME StudioIInv, [StudioNext]_studioVars
    PROVE  SourceInv'
<1> USE DEF SourceInv
<1>1. SourceInv /\ None \notin Products /\ (CHOOSE c \in Configs : TRUE) \in Configs
  BY StudioAssumption DEF StudioIInv
<1>2. ASSUME NEW c \in Contexts, LinkFits(c, known), SetContext(c) PROVE SourceInv'
  BY <1>1, <1>2, DetailsFit DEF SetContext
<1>3. ASSUME UNCHANGED <<ctx, known, config, modified>> PROVE SourceInv'
  BY <1>1, <1>3
<1>4. ASSUME NEW p \in Products \cup {None}, PickProduct(p) PROVE SourceInv'
  <2>1. Picked(p) \in Contexts /\ LinkFits(Picked(p), known)
    BY <1>1 DEF Picked, Contexts, LinkFits
  <2> QED BY <1>2, <1>4, <2>1 DEF PickProduct
<1>5. CASE TypeUrl
  <2>1. [NoProduct EXCEPT !.url = TRUE] \in Contexts /\ LinkFits([NoProduct EXCEPT !.url = TRUE], known)
    BY NoProductIs DEF NoProduct, Contexts, LinkFits
  <2> QED BY <1>2, <1>5, <2>1 DEF TypeUrl
<1>6. ASSUME NEW t \in {"product", "url"}, SwitchSource(t) PROVE SourceInv'
  <2> DEFINE c == [ctx EXCEPT !.type = t, !.url = FALSE]
             d == [ctx EXCEPT !.type = t, !.product = None, !.link = None, !.handed = FALSE]
  <2>1. c \in Contexts /\ LinkFits(c, known) /\ d \in Contexts /\ LinkFits(d, known)
    BY <1>1 DEF Contexts, LinkFits
  <2> QED BY <1>2, <1>6, <2>1 DEF SwitchSource
<1>7. CASE DetailsArrive
  <2>1. ctx.product \in known' /\ known' \subseteq Products /\ ctx' = WithDetails(ctx, known')
        /\ UNCHANGED <<config, modified>>
    BY <1>1, <1>7 DEF DetailsArrive
  <2> QED BY <1>1, <2>1, DetailsFit
<1>8. CASE PerformReset
  BY <1>1, <1>8, NoProductIs DEF PerformReset, LinkFits
<1>9. ASSUME NEW how \in {"menu", "url", "product"}, NEW p \in Products \cup {None}, Open(how, p),
             how = "product" => p \in Products
      PROVE  SourceInv'
  <2>1. UNCHANGED <<known, config, modified>>
    BY <1>9 DEF Open
  <2>2. CASE how = "product"
    <3> DEFINE c == [ctx EXCEPT !.type = "product", !.product = p, !.url = FALSE, !.handed = TRUE]
    <3>1. c \in Contexts /\ c.handed
      BY <1>1, <1>9 DEF Contexts
    <3>2. ctx' = WithDetails(c, known)
      BY <1>9, <2>2 DEF Open
    <3> QED BY <1>1, <2>1, <3>1, <3>2, DetailsFit
  <2>3. CASE how = "url"
    <3>1. ctx' = [NoProduct EXCEPT !.url = TRUE]
      BY <1>9, <2>3 DEF Open
    <3> QED BY <1>1, <2>1, <3>1 DEF NoProduct, Contexts, LinkFits
  <2>4. CASE how = "menu"
    BY <1>1, <1>9, <2>1, <2>4 DEF Open
  <2> QED BY <2>2, <2>3, <2>4
<1>10. ASSUME NEW c \in Configs, SetConfig(c) PROVE SourceInv'
  BY <1>1, <1>10 DEF SetConfig
<1>11. CASE ToggleModifier
  BY <1>1, <1>11 DEF ToggleModifier
<1>12. CASE ContextClick
  BY <1>4, <1>5, <1>6, <1>10, <1>11, <1>12 DEF ContextClick
<1>13. CASE PageClick
  <2>1. CASE \/ RestorePrevious \/ (\E n \in 1 .. Len(variants) : Activate(n)) \/ (\E text \in Edits : Type(text))
             \/ Generate("generate") \/ Generate("variant") \/ ApplySuggestions
             \/ Post("draft", FALSE) \/ Post("queued", FALSE) \/ Post("queued", TRUE) \/ Export
             \/ OpenCompare \/ CloseDialog
    BY <1>3, <2>1 DEF RestorePrevious, Activate, Type, Generate, ApplySuggestions, Post, Export, OpenCompare,
                      CloseDialog, session
  <2>2. CASE RequestReset \/ ConfirmReset
    BY <1>3, <1>8, <2>2 DEF RequestReset, ConfirmReset, session
  <2> QED BY <1>9, <1>13, <2>1, <2>2 DEF PageClick
<1>14. CASE Blur \/ GenerateAnswers \/ GenerateFails \/ WorkerPublishes \/ (\E j \in Jobs : Serve(j) \/ Continue(j))
  BY <1>3, <1>14 DEF Blur, GenerateAnswers, GenerateFails, WorkerPublishes, Serve, ServeCreate, ServePublish,
                     Continue, Created, Published, PostFails, session
<1>15. CASE UNCHANGED studioVars
  BY <1>3, <1>15 DEF studioVars, session
<1> QED BY <1>7, <1>12, <1>13, <1>14, <1>15 DEF StudioNext

-----------------------------------------------------------------------------
(* Variants and the canvas *)

LEMMA ContentIs ==
    ASSUME VariantTypes
    PROVE  /\ Content \in Written /\ Blank \in Written /\ IsBlank(Blank)
           /\ variants # <<>> <=> active # 0
           /\ active # 0 => active \in DOMAIN variants /\ variants[active] \in Variants /\ Content = variants[active].text
           /\ DOMAIN variants = 1 .. Len(variants)
<1>1. Blank \in Written /\ IsBlank(Blank)
  BY StudioAssumption DEF Written, Blank, IsBlank
<1>2. variants \in Seq(Variants) /\ DOMAIN variants = 1 .. Len(variants) /\ Len(variants) \in Nat
  BY DEF VariantTypes
<1>3. variants = <<>> => active = 0
  BY DEF VariantTypes
<1>4. variants # <<>> => active \in DOMAIN variants /\ active # 0
  BY <1>2 DEF VariantTypes
<1>5. active \in DOMAIN variants => variants[active] \in Variants
  BY <1>2
<1>6. \A v \in Variants : v.text \in Written
  BY DEF Variants
<1> QED BY <1>1, <1>2, <1>3, <1>4, <1>5, <1>6 DEF Content, Active

\* An answer or a restored text is the last variant, the active one, and on the canvas.
LEMMA AddKeeps ==
    ASSUME VariantInv, NEW v \in Variants, v.id = made + 1, v.askedIn = era, NEW also \in SUBSET (1 .. made),
           Add(v, also), UNCHANGED <<era, dialog>>
    PROVE  VariantInv'
<1>1. VariantTypes
  BY DEF VariantInv
<1>2. era \in Nat /\ made \in Nat /\ variants \in Seq(Variants) /\ Len(variants) \in Nat /\ draft \in Drafts
      /\ DOMAIN variants = 1 .. Len(variants)
  BY <1>1 DEF VariantTypes
<1>3. /\ variants' = Append(variants, v) /\ active' = Len(variants) + 1
      /\ mentioned' = mentioned \cup {v.id} \cup also /\ made' = made + 1 /\ draft' = ShownDraft(v.text)
  BY DEF Add, NewIndex
<1>4. /\ variants' \in Seq(Variants) /\ Len(variants') = Len(variants) + 1 /\ variants' # <<>>
      /\ DOMAIN variants' = 1 .. Len(variants) + 1
      /\ variants'[Len(variants) + 1] = v /\ \A n \in 1 .. Len(variants) : variants'[n] = variants[n]
  BY <1>2, <1>3
<1>5. Content' = v.text
  BY <1>2, <1>3, <1>4 DEF Content, Active
<1>6. draft' \in Drafts /\ draft'.on \in 0 .. made
  <2>1. v.text \in Written
    BY DEF Variants
  <2> QED BY <1>1, <1>2, <1>3, <2>1 DEF ShownDraft, Drafts, VariantTypes
<1>7. VariantTypes'
  <2>1. \A n \in DOMAIN variants' : variants'[n].id \in 1 .. made' /\ variants'[n].askedIn = era'
    <3> SUFFICES ASSUME NEW n \in DOMAIN variants' PROVE variants'[n].id \in 1 .. made' /\ variants'[n].askedIn = era'
      OBVIOUS
    <3>1. CASE n = Len(variants) + 1
      BY <1>2, <1>3, <1>4, <3>1
    <3>2. CASE n # Len(variants) + 1
      <4>1. n \in 1 .. Len(variants)
        BY <1>2, <1>4, <3>2
      <4>2. variants[n].id \in 1 .. made /\ variants[n].askedIn = era /\ variants'[n] = variants[n]
        BY <1>1, <1>2, <1>4, <4>1 DEF VariantTypes
      <4> QED BY <1>2, <1>3, <4>2
    <3> QED BY <3>1, <3>2
  <2>2. active' \in DOMAIN variants'
    BY <1>2, <1>3, <1>4
  <2>3. mentioned' \subseteq 1 .. made'
    BY <1>1, <1>2, <1>3 DEF VariantTypes
  <2>4. draft'.on \in 0 .. made'
    BY <1>2, <1>3, <1>6
  <2>5. dialog' \in {"none", "reset", "compare"}
    BY <1>1 DEF VariantTypes
  <2> QED BY <1>2, <1>3, <1>4, <1>6, <2>1, <2>2, <2>3, <2>4, <2>5 DEF VariantTypes
<1>8. CASE v.text = Content
  <2>1. draft' = draft
    BY <1>3, <1>8 DEF ShownDraft
  <2>2. DraftIsShown'
    BY <1>5, <1>8, <2>1 DEF VariantInv, DraftIsShown
  <2>3. DraftHasVariant'
    BY <1>2, <1>4, <1>5, <1>8, <2>1 DEF VariantInv, DraftHasVariant
  <2> QED BY <1>7, <2>2, <2>3 DEF VariantInv
<1>9. CASE v.text # Content
  <2>1. draft' = [text |-> v.text, focus |-> FALSE, on |-> 0]
    BY <1>3, <1>9 DEF ShownDraft
  <2> QED BY <1>5, <1>7, <2>1 DEF VariantInv, DraftIsShown, DraftHasVariant
<1> QED BY <1>8, <1>9

\* Another variant becomes the active one, when the canvas is at rest.
LEMMA ActivateKeeps ==
    ASSUME VariantInv, NEW n \in 1 .. Len(variants), Activate(n)
    PROVE  VariantInv'
<1>1. VariantTypes /\ ~draft.focus /\ DOMAIN variants = 1 .. Len(variants)
  BY ContentIs DEF VariantInv, Activate, Clickable
<1>2. /\ active' = n /\ mentioned' = mentioned \cup {variants[n].id} /\ draft' = ShownDraft(variants[n].text)
      /\ UNCHANGED <<era, variants, made, dialog>>
  BY DEF Activate
<1>3. variants[n] \in Variants /\ variants[n].text \in Written /\ variants[n].id \in 1 .. made /\ variants # <<>> /\ n # 0
  <2>1. variants \in Seq(Variants) /\ n \in DOMAIN variants /\ variants[n].id \in 1 .. made
    BY <1>1 DEF VariantTypes
  <2>2. variants[n] \in Variants /\ variants # <<>> /\ n # 0
    BY <2>1
  <2> QED BY <2>1, <2>2 DEF Variants
<1>4. Content' = variants[n].text
  BY <1>2, <1>3 DEF Content, Active
<1>5. draft' \in Drafts /\ draft'.on \in 0 .. made /\ ~draft'.focus
      /\ ((draft' = draft /\ variants[n].text = Content) \/ draft'.text = variants[n].text)
  BY <1>1, <1>2, <1>3 DEF ShownDraft, Drafts, VariantTypes
<1>6. VariantTypes'
  BY <1>1, <1>2, <1>3, <1>5 DEF VariantTypes
<1> QED BY <1>4, <1>5, <1>6 DEF VariantInv, DraftIsShown, DraftHasVariant

\* Typing starts on the variant that is shown.
LEMMA TypeKeeps ==
    ASSUME VariantInv, NEW text \in Edits, Type(text)
    PROVE  VariantInv'
<1>1. /\ VariantTypes /\ dialog = "none" /\ ~IsBlank(draft.text)
      /\ draft' = [text |-> text, focus |-> ~IsBlank(text), on |-> IF draft.focus THEN draft.on ELSE Active.id]
      /\ UNCHANGED <<era, variants, active, mentioned, made, dialog>>
  BY DEF VariantInv, Type, session
<1>2. \E n \in DOMAIN variants : variants[n].id = draft'.on /\ variants[n].text = Content
  <2>1. CASE draft.focus
    BY <1>1, <2>1 DEF VariantInv, DraftHasVariant
  <2>2. CASE ~draft.focus
    <3>1. draft.text = Content /\ active # 0
      BY <1>1, <2>2, ContentIs DEF VariantInv, DraftIsShown, Content
    <3> QED BY <1>1, <2>2, <3>1, ContentIs DEF Active
  <2> QED BY <2>1, <2>2
<1>3. draft' \in Drafts /\ draft'.on \in 0 .. made
  <2>1. draft'.on \in 1 .. made /\ made \in Nat
    BY <1>1, <1>2 DEF VariantTypes
  <2> QED BY <1>1, <2>1 DEF Drafts, Written, IsBlank
<1>4. VariantTypes'
  BY <1>1, <1>3 DEF VariantTypes
<1>5. Content' = Content
  BY <1>1 DEF Content, Active
<1> QED BY <1>1, <1>2, <1>4, <1>5 DEF VariantInv, DraftIsShown, DraftHasVariant

\* What was typed is saved to the active variant when the focus is lost.
LEMMA BlurKeeps ==
    ASSUME VariantInv, Blur
    PROVE  VariantInv'
<1>1. /\ VariantTypes /\ draft.focus /\ draft' = [draft EXCEPT !.focus = FALSE] /\ variants' = SavedDraft(draft.text)
      /\ UNCHANGED <<era, active, mentioned, made, dialog>>
  BY DEF VariantInv, Blur
<1>2. draft' \in Drafts /\ draft'.text = draft.text /\ ~draft'.focus /\ draft'.on = draft.on /\ draft.text \in Written
  BY <1>1 DEF VariantTypes, Drafts
<1>3. variants # <<>> /\ active \in DOMAIN variants /\ active # 0 /\ Content = variants[active].text
      /\ DOMAIN variants = 1 .. Len(variants) /\ variants \in Seq(Variants)
  BY <1>1, ContentIs DEF VariantInv, DraftHasVariant, VariantTypes
<1>4. CASE draft.text = Content
  <2>1. variants' = variants
    BY <1>1, <1>4 DEF SavedDraft
  <2>2. VariantTypes'
    BY <1>1, <1>2, <2>1 DEF VariantTypes
  <2>3. Content' = Content
    BY <1>1, <2>1 DEF Content, Active
  <2> QED BY <1>2, <1>4, <2>2, <2>3 DEF VariantInv, DraftIsShown, DraftHasVariant
<1>5. CASE draft.text # Content
  <2> DEFINE v == [variants[active] EXCEPT !.text = draft.text, !.origin = "manual_edit"]
  <2>1. variants' = [variants EXCEPT ![active] = v]
    BY <1>1, <1>3, <1>5 DEF SavedDraft, Saved
  <2>2. variants[active] \in Variants
    BY <1>3
  <2>3. v \in Variants /\ v.text = draft.text /\ v.id = variants[active].id /\ v.askedIn = variants[active].askedIn
    BY <1>2, <2>2 DEF Variants
  <2> HIDE DEF v
  <2>4. variants' \in Seq(Variants) /\ DOMAIN variants' = DOMAIN variants /\ variants' # <<>> /\ variants'[active] = v
        /\ \A n \in DOMAIN variants \ {active} : variants'[n] = variants[n]
    BY <1>3, <2>1, <2>3
  <2>5. \A n \in DOMAIN variants : variants'[n].id = variants[n].id /\ variants'[n].askedIn = variants[n].askedIn
    BY <2>3, <2>4
  <2>6. VariantTypes'
    BY <1>1, <1>2, <1>3, <2>4, <2>5 DEF VariantTypes
  <2>7. Content' = draft.text
    BY <1>1, <1>3, <2>3, <2>4 DEF Content, Active
  <2> QED BY <1>2, <2>6, <2>7 DEF VariantInv, DraftIsShown, DraftHasVariant
<1> QED BY <1>4, <1>5

\* A reset empties the canvas.
LEMMA ResetKeeps ==
    ASSUME VariantInv, ~draft.focus, PerformReset
    PROVE  VariantInv'
<1>1. /\ VariantTypes /\ era' = era + 1 /\ variants' = <<>> /\ active' = 0 /\ mentioned' = {} /\ made' = made
      /\ draft' = ShownDraft(Blank) /\ dialog' = "none"
  BY DEF VariantInv, PerformReset
<1>2. Content' = Blank /\ IsBlank(Blank) /\ Blank \in Written
  BY <1>1, ContentIs DEF Content
<1>3. draft' \in Drafts /\ draft'.on \in 0 .. made /\ ~draft'.focus
      /\ ((draft' = draft /\ Blank = Content) \/ draft'.text = Blank)
  BY <1>1, <1>2 DEF ShownDraft, Drafts, VariantTypes
<1>4. VariantTypes'
  BY <1>1, <1>3 DEF VariantTypes
<1> QED BY <1>2, <1>3, <1>4 DEF VariantInv, DraftIsShown, DraftHasVariant

\* The page opens with the text of the active variant.
LEMMA OpenKeeps ==
    ASSUME VariantInv, NEW how, NEW p, Open(how, p)
    PROVE  VariantInv'
<1>1. /\ VariantTypes /\ draft' = [text |-> Content, focus |-> FALSE, on |-> 0] /\ dialog' = "none"
      /\ UNCHANGED <<era, variants, active, mentioned, made>>
  BY DEF VariantInv, Open
<1>2. draft' \in Drafts /\ draft'.on \in 0 .. made /\ Content \in Written
  BY <1>1, ContentIs DEF Drafts, VariantTypes
<1>3. Content' = Content
  BY <1>1 DEF Content, Active
<1>4. VariantTypes'
  BY <1>1, <1>2 DEF VariantTypes
<1> QED BY <1>1, <1>3, <1>4 DEF VariantInv, DraftIsShown, DraftHasVariant

\* Variants are mentioned, and dialogs come and go over a canvas at rest.
LEMMA CanvasFrame ==
    ASSUME VariantInv, UNCHANGED <<era, variants, active, made, draft>>,
           mentioned' = mentioned \/ (\E m \in 1 .. made : mentioned' = mentioned \cup {m}),
           dialog' \in {"none", "reset", "compare"}, draft.focus => dialog' = "none"
    PROVE  VariantInv'
<1>1. Content' = Content
  BY DEF Content, Active
<1>2. VariantTypes'
  BY DEF VariantInv, VariantTypes
<1> QED BY <1>1, <1>2 DEF VariantInv, DraftIsShown, DraftHasVariant

\* A variant that is restored is a copy with a number of its own.
Restored(w, k) == [w EXCEPT !.id = k, !.origin = "restore"]

LEMMA RestoredIs ==
    ASSUME NEW w \in Variants, NEW k \in Nat
    PROVE  Restored(w, k) \in Variants /\ Restored(w, k).id = k /\ Restored(w, k).askedIn = w.askedIn
BY DEF Restored, Variants

LEMMA VariantsKept ==
    ASSUME StudioIInv, [StudioNext]_studioVars
    PROVE  VariantInv'
<1>1. VariantInv /\ VariantTypes /\ SourceInv /\ RequestInv /\ JobInv
  BY DEF StudioIInv, VariantInv
<1>2. made \in Nat /\ era \in Nat /\ mentioned \subseteq 1 .. made /\ dialog \in {"none", "reset", "compare"}
      /\ (draft.focus => dialog = "none")
  BY <1>1 DEF VariantTypes, VariantInv, DraftHasVariant
<1>3. ASSUME UNCHANGED <<era, variants, active, mentioned, made, draft, dialog>> PROVE VariantInv'
  BY <1>1, <1>2, <1>3, CanvasFrame
<1>4. CASE RestorePrevious
  <2> DEFINE v == Restored(variants[active - 1], made + 1)
  <2>1. active \in DOMAIN variants /\ active > 1 /\ variants \in Seq(Variants) /\ DOMAIN variants = 1 .. Len(variants)
    BY <1>1, <1>4, ContentIs DEF RestorePrevious, VariantTypes
  <2>2. active - 1 \in DOMAIN variants
    BY <2>1
  <2>3. variants[active - 1] \in Variants /\ variants[active - 1].askedIn = era /\ variants[active - 1].id \in 1 .. made
    BY <1>1, <2>1, <2>2 DEF VariantTypes
  <2>4. v \in Variants /\ v.id = made + 1 /\ v.askedIn = era
    <3>1. made + 1 \in Nat /\ variants[active - 1] \in Variants
      BY <1>2, <2>3
    <3> QED BY <2>3, <3>1, RestoredIs
  <2>5. Add(v, {variants[active - 1].id}) /\ UNCHANGED <<era, dialog>>
    BY <1>4 DEF RestorePrevious, Restored
  <2> HIDE DEF v
  <2> QED BY <1>1, <2>3, <2>4, <2>5, AddKeeps
<1>5. CASE GenerateAnswers
  <2>1. PICK g \in asked, text \in Texts, p \in Products \cup {None} :
          /\ IF g.shown
             THEN Add([id |-> made + 1, text |-> text, product |-> p, config |-> config,
                       askedIn |-> g.era, origin |-> g.origin], {})
             ELSE UNCHANGED <<variants, active, mentioned, made, draft>>
          /\ UNCHANGED <<era, dialog>>
    BY <1>5 DEF GenerateAnswers
  <2>2. CASE g.shown
    <3> DEFINE v == [id |-> made + 1, text |-> text, product |-> p, config |-> config, askedIn |-> g.era,
                     origin |-> g.origin]
    <3>1. g.era = era /\ g.origin \in {"generate", "variant"} /\ config \in Configs
      BY <1>1, <2>2 DEF RequestInv, SourceInv, Asks
    <3>2. v \in Variants /\ v.id = made + 1 /\ v.askedIn = era
      BY <1>2, <3>1 DEF Variants, Written
    <3>3. Add(v, {})
      BY <2>1, <2>2
    <3> HIDE DEF v
    <3> QED BY <1>1, <2>1, <3>2, <3>3, AddKeeps
  <2>3. CASE ~g.shown
    BY <1>3, <2>1, <2>3
  <2> QED BY <2>2, <2>3
<1>6. ASSUME NEW j \in Jobs, Created(j) \/ Published(j) PROVE VariantInv'
  <2>1. /\ job[j].step # "none" /\ Log(j) /\ UNCHANGED <<era, variants, active, made, draft, dialog>>
    BY <1>6 DEF Created, Published, page
  <2>2. job[j].variant \in 1 .. made
    BY <1>1, <1>2, <2>1 DEF JobInv
  <2> QED BY <1>1, <1>2, <2>1, <2>2, CanvasFrame DEF Log
<1>7. CASE Export
  <2>1. active # 0 /\ mentioned' = mentioned \cup {Active.id} /\ UNCHANGED <<era, variants, active, made, draft, dialog>>
    BY <1>7 DEF Export, page
  <2>2. Active.id \in 1 .. made
    BY <1>1, <2>1, ContentIs DEF Active, VariantTypes
  <2> QED BY <1>1, <1>2, <2>1, <2>2, CanvasFrame
<1>8. CASE RequestReset
  <2>1. ~draft.focus
    BY <1>8 DEF RequestReset, Clickable
  <2>2. CASE variants = <<>>
    BY <1>1, <1>8, <2>1, <2>2, ResetKeeps DEF RequestReset
  <2>3. CASE variants # <<>>
    BY <1>1, <1>2, <1>8, <2>1, <2>3, CanvasFrame DEF RequestReset, session
  <2> QED BY <2>2, <2>3
<1>9. CASE ConfirmReset
  BY <1>1, <1>2, <1>9, ResetKeeps DEF ConfirmReset
<1>10. CASE OpenCompare \/ CloseDialog
  BY <1>1, <1>2, <1>10, CanvasFrame DEF OpenCompare, CloseDialog, Clickable, session
<1>11. CASE ContextClick \/ DetailsArrive
  BY <1>3, <1>11 DEF ContextClick, DetailsArrive, PickProduct, TypeUrl, SwitchSource, SetContext, SetConfig, ToggleModifier, page
<1>12. CASE \/ Generate("generate") \/ Generate("variant") \/ ApplySuggestions
            \/ Post("draft", FALSE) \/ Post("queued", FALSE) \/ Post("queued", TRUE)
  BY <1>3, <1>12 DEF Generate, ApplySuggestions, Post, session, page
<1>13. CASE PageClick
  BY <1>1, <1>4, <1>7, <1>8, <1>9, <1>10, <1>12, <1>13, ActivateKeeps, TypeKeeps, OpenKeeps DEF PageClick
<1>14. CASE GenerateFails \/ WorkerPublishes \/ (\E j \in Jobs : Serve(j) \/ PostFails(j))
  BY <1>3, <1>14 DEF GenerateFails, WorkerPublishes, Serve, ServeCreate, ServePublish, PostFails, session, page
<1>15. CASE UNCHANGED studioVars
  BY <1>3, <1>15 DEF studioVars, session, page
<1> QED BY <1>1, <1>5, <1>6, <1>11, <1>13, <1>14, <1>15, BlurKeeps DEF StudioNext, Continue

-----------------------------------------------------------------------------
(* Requests for a text *)

LEMMA RequestsKept ==
    ASSUME StudioIInv, [StudioNext]_studioVars
    PROVE  RequestInv'
<1>1. RequestInv /\ SourceInv /\ era \in Nat
  BY DEF StudioIInv, VariantInv, VariantTypes
<1>2. ASSUME asked' \subseteq asked, era' = era PROVE RequestInv'
  BY <1>1, <1>2 DEF RequestInv
<1>3. ASSUME NEW g \in asked PROVE [g EXCEPT !.shown = FALSE] \in Asks /\ ~[g EXCEPT !.shown = FALSE].shown
  BY <1>1 DEF RequestInv, Asks
<1>4. ASSUME asked' = {[g EXCEPT !.shown = FALSE] : g \in asked} PROVE RequestInv'
  BY <1>3, <1>4 DEF RequestInv
<1>5. ASSUME NEW origin \in {"generate", "variant"}, Generate(origin) PROVE RequestInv'
  <2> DEFINE r == [shown |-> TRUE, era |-> era, product |-> ctx.product,
                   origin |-> IF variants = <<>> THEN "generate" ELSE origin]
  <2>1. asked' = asked \cup {r} /\ era' = era
    BY <1>5 DEF Generate, session
  <2>2. r \in Asks /\ r.era = era
    BY <1>1 DEF SourceInv, Contexts, Asks
  <2> QED BY <1>1, <2>1, <2>2 DEF RequestInv
<1>6. CASE GenerateAnswers \/ GenerateFails
  BY <1>2, <1>6 DEF GenerateAnswers, GenerateFails, session
<1>7. CASE RequestReset \/ ConfirmReset
  BY <1>2, <1>4, <1>7 DEF RequestReset, ConfirmReset, PerformReset, Detached, session, requests
<1>8. ASSUME NEW how, NEW p, Open(how, p) PROVE RequestInv'
  BY <1>4, <1>8 DEF Open
<1>9. CASE ContextClick \/ DetailsArrive \/ Blur \/ WorkerPublishes \/ (\E j \in Jobs : Serve(j) \/ Continue(j))
  BY <1>2, <1>9 DEF ContextClick, DetailsArrive, PickProduct, TypeUrl, SwitchSource, SetContext, SetConfig,
                    ToggleModifier, Blur, WorkerPublishes, Serve, ServeCreate, ServePublish, Continue, Created,
                    Published, PostFails, session, requests
<1>10. CASE \/ RestorePrevious \/ (\E n \in 1 .. Len(variants) : Activate(n)) \/ (\E text \in Edits : Type(text))
            \/ Post("draft", FALSE) \/ Post("queued", FALSE) \/ Post("queued", TRUE) \/ Export
            \/ OpenCompare \/ CloseDialog
  BY <1>2, <1>10 DEF RestorePrevious, Activate, Type, Post, Export, OpenCompare, CloseDialog, session, requests
<1>11. CASE ApplySuggestions
  BY <1>5, <1>11 DEF ApplySuggestions
<1>12. CASE PageClick
  BY <1>5, <1>7, <1>8, <1>10, <1>11, <1>12 DEF PageClick
<1>13. CASE UNCHANGED studioVars
  BY <1>2, <1>13 DEF studioVars, session, requests
<1> QED BY <1>6, <1>9, <1>12, <1>13 DEF StudioNext

-----------------------------------------------------------------------------
(* Posts *)

\* What a post does next, and what becomes of it when the page is left.
Advanced(b, step, call) == [b EXCEPT !.step = step, !.call = call]
Answered(b, call, r) == [b EXCEPT !.call = call, !.row = r]
Left(b) == [b EXCEPT !.shown = FALSE]

LEMMA PostJobsAre ==
    ASSUME NEW b \in PostJobs
    PROVE  /\ Advanced(b, "publish", "sent") \in PostJobs /\ Advanced(b, "publish", "sent").step = "publish"
           /\ Advanced(b, "publish", "sent").shown = b.shown /\ Advanced(b, "publish", "sent").variant = b.variant
           /\ \A call \in {"ok", "error"} : \A r \in Nat :
                Answered(b, call, r) \in PostJobs /\ Answered(b, call, r).step = b.step
                /\ Answered(b, call, r).shown = b.shown /\ Answered(b, call, r).variant = b.variant
           /\ Left(b) \in PostJobs /\ Left(b).step = b.step /\ ~Left(b).shown /\ Left(b).variant = b.variant
BY DEF Advanced, Answered, Left, PostJobs

LEMMA NoJobIs == NoJob \in PostJobs /\ NoJob.step = "none" /\ NoJob.variant = 0 /\ Left(NoJob) = NoJob
<1>1. Blank \in Written
  BY StudioAssumption DEF Written
<1>2. NoJob \in PostJobs /\ NoJob.step = "none" /\ NoJob.variant = 0
  BY <1>1 DEF NoJob, PostJobs
<1>3. Left(NoJob) = NoJob
  <2>1. NoJob = [x \in DOMAIN NoJob |-> NoJob[x]] /\ NoJob["shown"] = FALSE
    BY DEF NoJob
  <2>2. Left(NoJob) = [x \in DOMAIN NoJob |-> IF x = "shown" THEN FALSE ELSE NoJob[x]]
    BY <2>1 DEF Left
  <2> QED BY <2>1, <2>2
<1> QED BY <1>2, <1>3

\* One post goes on, or ends: no other begins.
LEMMA JobGoesOn ==
    ASSUME JobInv, VariantTypes, NEW j \in Jobs, NEW b \in PostJobs, job' = [job EXCEPT ![j] = b],
           made' = made, rows' \in Seq(QueueRows), job[j].step # "none",
           b = NoJob \/ (b.shown = job[j].shown /\ b.variant = job[j].variant)
    PROVE  JobInv'
<1>1. job'[j] = b /\ (\A k \in Jobs \ {j} : job'[k] = job[k]) /\ job' \in [Jobs -> PostJobs]
  BY DEF JobInv
<1>2. made \in Nat /\ job[j].variant \in 0 .. made /\ job[j].variant # 0
  BY DEF JobInv, VariantTypes
<1>3. ASSUME NEW k \in Jobs PROVE job'[k].variant \in 0 .. made' /\ (job'[k].step # "none" => job'[k].variant # 0)
  BY <1>1, <1>2, NoJobIs DEF JobInv
<1>4. ASSUME NEW k \in Jobs PROVE Posting(k)' => Posting(k)
  <2>1. CASE k = j
    BY <1>1, <2>1, NoJobIs DEF Posting
  <2>2. CASE k # j
    BY <1>1, <2>2 DEF Posting
  <2> QED BY <2>1, <2>2
<1> QED BY <1>1, <1>3, <1>4 DEF JobInv

\* A post begins when none is under way.
LEMMA PostKeeps ==
    ASSUME StudioIInv, NEW status \in {"draft", "queued"}, NEW publish \in BOOLEAN, Post(status, publish)
    PROVE  JobInv'
<1>1. JobInv /\ SourceInv /\ VariantTypes /\ made' = made /\ made \in Nat /\ rows' = rows
  BY DEF StudioIInv, VariantInv, VariantTypes, Post, session
<1>2. active # 0 /\ Active \in Variants /\ Active.id \in 1 .. made /\ Content \in Written
  BY <1>1, ContentIs DEF Post, Active, VariantTypes
<1> DEFINE b == [step |-> "create", shown |-> TRUE, variant |-> Active.id, text |-> Content,
                 product |-> IF Active.product # None THEN Active.product ELSE ctx.product,
                 title |-> ctx.label, link |-> ctx.link, publish |-> publish, status |-> status,
                 row |-> 0, call |-> "sent"]
           m == Min({j \in Jobs : job[j] = NoJob})
<1>3. job' = [job EXCEPT ![m] = b]
  BY DEF Post
<1>4. b \in PostJobs /\ b.variant \in 1 .. made
  BY <1>1, <1>2 DEF PostJobs, SourceInv, Contexts, Variants
<1> HIDE DEF b, m
<1>5. job' \in [Jobs -> PostJobs] /\ \A j \in Jobs : job'[j] = IF j = m THEN b ELSE job[j]
  BY <1>1, <1>3, <1>4 DEF JobInv
<1>6. \A j \in Jobs : ~Posting(j)
  BY DEF Post, MayPost, Busy, Posting
<1>7. ASSUME NEW j \in Jobs PROVE job'[j].variant \in 0 .. made' /\ (job'[j].step # "none" => job'[j].variant # 0)
  BY <1>1, <1>4, <1>5 DEF JobInv
<1>8. ASSUME NEW j \in Jobs, Posting(j)' PROVE j = m
  BY <1>5, <1>6, <1>8 DEF Posting
<1>9. rows' \in Seq(QueueRows)
  BY <1>1 DEF JobInv
<1> QED BY <1>5, <1>7, <1>8, <1>9 DEF JobInv

LEMMA JobsKept ==
    ASSUME StudioIInv, [StudioNext]_studioVars
    PROVE  JobInv'
<1>1. /\ JobInv /\ VariantTypes /\ made \in Nat /\ job \in [Jobs -> PostJobs] /\ rows \in Seq(QueueRows)
      /\ Len(rows) \in Nat
  BY DEF StudioIInv, VariantInv, VariantTypes, JobInv
<1>2. ASSUME UNCHANGED <<job, rows>>, made' \in Nat, made <= made' PROVE JobInv'
  BY <1>1, <1>2 DEF JobInv, Posting
<1>3. ASSUME UNCHANGED <<job, rows, made>> PROVE JobInv'
  BY <1>1, <1>2, <1>3
<1>4. ASSUME NEW r \in DOMAIN rows PROVE [rows EXCEPT ![r].st = "published"] \in Seq(QueueRows)
  <2>1. rows[r] \in QueueRows
    BY <1>1
  <2>2. [rows[r] EXCEPT !.st = "published"] \in QueueRows
    BY <2>1 DEF QueueRows
  <2> QED BY <1>1, <2>2
<1>5. ASSUME NEW r, r \notin DOMAIN rows PROVE [rows EXCEPT ![r].st = "published"] = rows
  BY <1>1, <1>5
<1>6. ASSUME NEW j \in Jobs, ServeCreate(j) PROVE JobInv'
  <2>1. job[j].step # "none" /\ made' = made /\ job[j] \in PostJobs
    BY <1>1, <1>6 DEF ServeCreate, session
  <2>2. Append(rows, [st |-> job[j].status, variant |-> job[j].variant]) \in Seq(QueueRows)
    <3>1. [st |-> job[j].status, variant |-> job[j].variant] \in QueueRows
      BY <2>1 DEF QueueRows, PostJobs
    <3> QED BY <1>1, <3>1
  <2>3. \E answer \in {"ok", "error"}, r \in Nat :
          job' = [job EXCEPT ![j] = Answered(job[j], answer, r)] /\ rows' \in Seq(QueueRows)
    <3>1. PICK answer \in {"ok", "error"} :
            \/ /\ rows' = Append(rows, [st |-> job[j].status, variant |-> job[j].variant])
               /\ job' = [job EXCEPT ![j].call = answer, ![j].row = Len(rows) + 1]
            \/ answer = "error" /\ job' = [job EXCEPT ![j].call = answer] /\ UNCHANGED rows
      BY <1>6 DEF ServeCreate
    <3>2. [job EXCEPT ![j].call = answer, ![j].row = Len(rows) + 1]
            = [job EXCEPT ![j] = Answered(job[j], answer, Len(rows) + 1)]
      BY <1>1 DEF Answered
    <3>3. [job EXCEPT ![j].call = answer] = [job EXCEPT ![j] = Answered(job[j], answer, job[j].row)]
      BY <1>1, <2>1 DEF Answered, PostJobs
    <3>4. job[j].row \in Nat /\ Len(rows) + 1 \in Nat
      BY <1>1, <2>1 DEF PostJobs
    <3> QED BY <1>1, <2>2, <3>1, <3>2, <3>3, <3>4
  <2>4. PICK answer \in {"ok", "error"}, r \in Nat :
          job' = [job EXCEPT ![j] = Answered(job[j], answer, r)] /\ rows' \in Seq(QueueRows)
    BY <2>3
  <2>5. /\ Answered(job[j], answer, r) \in PostJobs
        /\ Answered(job[j], answer, r).shown = job[j].shown /\ Answered(job[j], answer, r).variant = job[j].variant
    BY <2>1, PostJobsAre
  <2> QED BY <1>1, <2>1, <2>4, <2>5, JobGoesOn
<1>7. ASSUME NEW j \in Jobs, ServePublish(j) PROVE JobInv'
  <2>1. job[j].step # "none" /\ made' = made /\ job[j] \in PostJobs
    BY <1>1, <1>7 DEF ServePublish, session
  <2>2. rows' \in Seq(QueueRows) /\ \E answer \in {"ok", "error"} : job' = [job EXCEPT ![j].call = answer]
    BY <1>1, <1>4, <1>5, <1>7 DEF ServePublish
  <2>3. PICK answer \in {"ok", "error"} : job' = [job EXCEPT ![j].call = answer]
    BY <2>2
  <2>4. job' = [job EXCEPT ![j] = Answered(job[j], answer, job[j].row)] /\ job[j].row \in Nat
    BY <1>1, <2>1, <2>3 DEF Answered, PostJobs
  <2>5. /\ Answered(job[j], answer, job[j].row) \in PostJobs
        /\ Answered(job[j], answer, job[j].row).shown = job[j].shown
        /\ Answered(job[j], answer, job[j].row).variant = job[j].variant
    BY <2>1, <2>4, PostJobsAre
  <2> QED BY <1>1, <2>1, <2>2, <2>4, <2>5, JobGoesOn
<1>8. CASE WorkerPublishes
  BY <1>1, <1>4, <1>8 DEF WorkerPublishes, session, requests, JobInv, Posting
<1>9. ASSUME NEW j \in Jobs, Continue(j) PROVE JobInv'
  <2>1. made' = made /\ rows' = rows /\ job[j] \in PostJobs
    BY <1>1, <1>9 DEF Continue, Created, Published, PostFails, session
  <2>2. CASE Ended(j)
    <3>1. CASE job[j].step # "none"
      BY <1>1, <2>1, <2>2, <3>1, NoJobIs, JobGoesOn DEF Ended
    <3>2. CASE job[j].step = "none"
      BY <1>1, <2>1, <2>2, <3>2, NoJobIs DEF Ended, JobInv, Posting
    <3> QED BY <3>1, <3>2
  <2>3. CASE job[j].step = "create" /\ job' = [job EXCEPT ![j].step = "publish", ![j].call = "sent"]
    <3>1. job' = [job EXCEPT ![j] = Advanced(job[j], "publish", "sent")]
      BY <1>1, <2>3 DEF Advanced
    <3> QED BY <1>1, <2>1, <2>3, <3>1, PostJobsAre, JobGoesOn
  <2> QED BY <1>9, <2>2, <2>3 DEF Continue, Created, Published, PostFails, Caught
<1>10. ASSUME NEW how, NEW p, Open(how, p) PROVE JobInv'
  <2>1. job' = [j \in Jobs |-> Left(job[j])] /\ made' = made /\ rows' = rows
    BY <1>10 DEF Open, Left
  <2>2. \A j \in Jobs : job[j] \in PostJobs
    BY <1>1
  <2> QED BY <1>1, <2>1, <2>2, PostJobsAre DEF JobInv, Posting
<1>11. ASSUME NEW v, NEW also, Add(v, also), UNCHANGED <<job, rows>>, v.id = made + 1 PROVE JobInv'
  BY <1>1, <1>2, <1>11 DEF Add
<1>12. CASE RestorePrevious
  <2>1. active \in DOMAIN variants /\ active > 1 /\ variants \in Seq(Variants) /\ DOMAIN variants = 1 .. Len(variants)
    BY <1>1, <1>12, ContentIs DEF RestorePrevious, VariantTypes
  <2>2. variants[active - 1] \in Variants
    BY <2>1
  <2>3. Restored(variants[active - 1], made + 1).id = made + 1
    BY <1>1, <2>2, RestoredIs
  <2> QED BY <1>11, <1>12, <2>3 DEF RestorePrevious, Restored, requests
<1>13. CASE GenerateAnswers
  BY <1>3, <1>11, <1>13 DEF GenerateAnswers
<1>14. CASE \/ (\E n \in 1 .. Len(variants) : Activate(n)) \/ (\E text \in Edits : Type(text))
            \/ Generate("generate") \/ Generate("variant") \/ ApplySuggestions \/ Export
            \/ RequestReset \/ ConfirmReset \/ OpenCompare \/ CloseDialog
  BY <1>3, <1>14 DEF Activate, Type, Generate, ApplySuggestions, Export, RequestReset, ConfirmReset, PerformReset,
                     OpenCompare, CloseDialog, session, requests
<1>15. CASE PageClick
  BY <1>1, <1>10, <1>12, <1>14, <1>15, PostKeeps DEF PageClick
<1>16. CASE ContextClick \/ DetailsArrive \/ Blur \/ GenerateFails
  BY <1>3, <1>16 DEF ContextClick, DetailsArrive, PickProduct, TypeUrl, SwitchSource, SetContext, SetConfig,
                     ToggleModifier, Blur, GenerateFails, session, requests
<1>17. CASE UNCHANGED studioVars
  BY <1>3, <1>17 DEF studioVars, session, requests
<1> QED BY <1>6, <1>7, <1>8, <1>9, <1>13, <1>15, <1>16, <1>17 DEF StudioNext, Serve

-----------------------------------------------------------------------------
(* The theorems *)

LEMMA StudioStarts == StudioInit => StudioIInv
<1> SUFFICES ASSUME StudioInit PROVE StudioIInv
  OBVIOUS
<1>1. /\ ctx = NoProduct /\ config \in Configs /\ modified = FALSE /\ known = {}
      /\ era = 1 /\ made = 0 /\ variants = <<>> /\ active = 0 /\ mentioned = {}
      /\ draft = [text |-> Blank, focus |-> FALSE, on |-> 0] /\ dialog = "none"
      /\ asked = {} /\ job = [j \in Jobs |-> NoJob] /\ rows = <<>>
  BY StudioAssumption DEF StudioInit
<1>2. SourceInv
  BY <1>1, NoProductIs DEF SourceInv, LinkFits
<1>3. draft \in Drafts
  BY <1>1, StudioAssumption DEF Drafts, Written
<1>4. VariantTypes
  BY <1>1, <1>3 DEF VariantTypes
<1>5. VariantInv
  BY <1>1, <1>4, ContentIs DEF VariantInv, DraftIsShown, DraftHasVariant, Content
<1>6. RequestInv
  BY <1>1 DEF RequestInv
<1>7. JobInv
  BY <1>1, NoJobIs DEF JobInv, Posting
<1> QED BY <1>2, <1>5, <1>6, <1>7 DEF StudioIInv

LEMMA StudioIInvKept == StudioIInv /\ [StudioNext]_studioVars => StudioIInv'
BY SourceKept, VariantsKept, RequestsKept, JobsKept DEF StudioIInv

LEMMA StudioIInvHolds == StudioSpec => []StudioIInv
BY StudioStarts, StudioIInvKept, PTL DEF StudioSpec

LEMMA StudioIInvSuffices == StudioIInv => StudioInv
<1> SUFFICES ASSUME StudioIInv PROVE StudioInv
  OBVIOUS
<1>1. SourceInv /\ VariantInv /\ VariantTypes /\ JobInv /\ variants \in Seq(Variants)
  BY DEF StudioIInv, VariantInv, VariantTypes
<1>2. StudioTypeOK
  <2>1. \A n \in DOMAIN variants : variants[n].text \in Texts \cup Edits
    <3>1. \A n \in DOMAIN variants : variants[n] \in Variants
      BY <1>1
    <3> QED BY <3>1 DEF Variants, Written
  <2>2. /\ {ctx.product, ctx.label, ctx.link} \subseteq Products \cup {None}
        /\ ctx.type \in {"product", "url"} /\ {ctx.url, ctx.handed} \subseteq BOOLEAN
        /\ known \subseteq Products /\ config \in Configs /\ modified \in BOOLEAN
    BY <1>1 DEF SourceInv, Contexts
  <2>3. draft.text \in Texts \cup Edits \cup {Blank} /\ draft.on \in 0 .. made
    BY <1>1 DEF VariantTypes, Drafts, Written
  <2>4. DOMAIN job = Jobs
    BY <1>1 DEF JobInv
  <2> QED BY <1>1, <2>1, <2>2, <2>3, <2>4 DEF StudioTypeOK, VariantTypes
<1>3. ResetForgetsRequests
  BY <1>1 DEF VariantTypes, ResetForgetsRequests
<1>4. EditsStay
  BY <1>1 DEF VariantInv, DraftHasVariant, EditsStay
<1>5. OnePostAtATime
  <2> DEFINE P == {j \in Jobs : job[j].step # "none" /\ job[j].shown}
  <2>1. CASE P = {}
    BY <2>1, FS_EmptySet DEF OnePostAtATime
  <2>2. CASE P # {}
    <3>1. PICK j \in P : TRUE
      BY <2>2
    <3>2. P = {j}
      BY <1>1, <3>1 DEF JobInv, Posting
    <3>3. Cardinality(P) = 1
      BY <3>2, FS_Singleton
    <3> QED BY <3>3 DEF OnePostAtATime
  <2> QED BY <2>1, <2>2
<1> QED BY <1>2, <1>3, <1>4, <1>5 DEF StudioInv

\* What PostedAsShown says of one job that begins.
AsShown(b) ==
    /\ b.text = draft.text \/ IsBlank(draft.text)
    /\ \/ b.product = Active.product /\ b.link \in {b.product, None}
       \/ ctx.product # Active.product
       \/ ctx.handed /\ ctx.product \notin known

\* A click on a button of the hub finds the canvas at rest, and the link of the source that is chosen.
LEMMA PostIsAsShown ==
    ASSUME StudioIInv, NEW status, NEW publish, Post(status, publish), NEW b \in Begun
    PROVE  AsShown(b)
<1> DEFINE new == [step |-> "create", shown |-> TRUE, variant |-> Active.id, text |-> Content,
                   product |-> IF Active.product # None THEN Active.product ELSE ctx.product,
                   title |-> ctx.label, link |-> ctx.link, publish |-> publish, status |-> status,
                   row |-> 0, call |-> "sent"]
           m == Min({j \in Jobs : job[j] = NoJob})
<1>1. ~draft.focus /\ job' = [job EXCEPT ![m] = new]
  BY DEF Post, Clickable
<1>2. new.text = Content /\ new.link = ctx.link
      /\ new.product = (IF Active.product # None THEN Active.product ELSE ctx.product)
  OBVIOUS
<1>3. job \in [Jobs -> PostJobs] /\ LinkFits(ctx, known) /\ (draft.text = Content \/ IsBlank(draft.text))
  BY <1>1 DEF StudioIInv, JobInv, SourceInv, VariantInv, DraftIsShown
<1> HIDE DEF new, m
<1>4. b = new
  <2>1. PICK j \in Jobs : job[j] = NoJob /\ job'[j] # NoJob /\ b = job'[j]
    BY DEF Begun
  <2>2. j = m
    BY <1>1, <1>3, <2>1
  <2> QED BY <1>1, <1>3, <2>1, <2>2
<1> QED BY <1>2, <1>3, <1>4 DEF AsShown, LinkFits

\* A job begins with a post only.
LEMMA OnlyPostsBegin ==
    ASSUME StudioIInv, [StudioNext]_studioVars,
           ~Post("draft", FALSE), ~Post("queued", FALSE), ~Post("queued", TRUE)
    PROVE  Begun = {}
<1> SUFFICES ASSUME NEW k \in Jobs, job[k] = NoJob PROVE job'[k] = NoJob
  BY DEF Begun
<1>1. job \in [Jobs -> PostJobs] /\ NoJob.step = "none" /\ NoJob.call = "none"
  BY DEF StudioIInv, JobInv, NoJob
<1>3. ASSUME NEW j \in Jobs, Serve(j) PROVE job'[k] = NoJob
  <2>1. j # k
    BY <1>1, <1>3 DEF Serve, ServeCreate, ServePublish
  <2>2. job'[k] = job[k]
    BY <1>1, <1>3, <2>1 DEF Serve, ServeCreate, ServePublish
  <2> QED BY <2>2
<1>4. ASSUME NEW j \in Jobs, Continue(j) PROVE job'[k] = NoJob
  <2>1. j # k
    BY <1>1, <1>4 DEF Continue, Created, Published, PostFails
  <2>2. job'[k] = job[k]
    BY <1>1, <1>4, <2>1 DEF Continue, Created, Published, PostFails, Ended, Caught
  <2> QED BY <2>2
<1>5. ASSUME NEW how, NEW p, Open(how, p) PROVE job'[k] = NoJob
  BY <1>5, NoJobIs DEF Open, Left
<1>6. CASE UNCHANGED job
  BY <1>6
<1>7. CASE \/ RestorePrevious \/ (\E n \in 1 .. Len(variants) : Activate(n)) \/ (\E text \in Edits : Type(text))
           \/ Generate("generate") \/ Generate("variant") \/ ApplySuggestions \/ Export
           \/ RequestReset \/ ConfirmReset \/ OpenCompare \/ CloseDialog
  BY <1>6, <1>7 DEF RestorePrevious, Activate, Type, Generate, ApplySuggestions, Export, RequestReset, ConfirmReset,
                    PerformReset, OpenCompare, CloseDialog, requests
<1>8. CASE PageClick
  BY <1>5, <1>7, <1>8 DEF PageClick
<1>9. CASE ContextClick \/ DetailsArrive \/ Blur \/ GenerateAnswers \/ GenerateFails \/ WorkerPublishes
  BY <1>6, <1>9 DEF ContextClick, DetailsArrive, PickProduct, TypeUrl, SwitchSource, SetContext, SetConfig,
                    ToggleModifier, Blur, GenerateAnswers, GenerateFails, WorkerPublishes, requests
<1>10. CASE UNCHANGED studioVars
  BY <1>6, <1>10 DEF studioVars, requests
<1> QED BY <1>3, <1>4, <1>8, <1>9, <1>10 DEF StudioNext

\* For any products, texts, edits and budgets: the types of the session; no text of a studio that was
\* reset comes back with a late answer; what is typed on a variant is saved to no other one; a page
\* turns texts into queue items one at a time (generation.reset, updateActiveContent, busy).
THEOREM StudioCorrect == StudioSpec => []StudioInv
BY StudioIInvHolds, StudioIInvSuffices, PTL

\* What is posted is what the page shows, and its link is its product's, but for the causes that the
\* property names (queueFromActive).
THEOREM PostsAreAsShown == StudioSpec => PostedAsShown
<1>1. StudioIInv /\ [StudioNext]_studioVars =>
        [\A b \in Begun :
          /\ b.text = draft.text \/ IsBlank(draft.text)
          /\ \/ b.product = Active.product /\ b.link \in {b.product, None}
             \/ ctx.product # Active.product
             \/ ctx.handed /\ ctx.product \notin known]_studioVars
  <2> SUFFICES ASSUME StudioIInv, [StudioNext]_studioVars, NEW b \in Begun PROVE AsShown(b)
    BY DEF AsShown
  <2> QED BY PostIsAsShown, OnlyPostsBegin
<1> QED BY <1>1, StudioIInvHolds, PTL DEF StudioSpec, PostedAsShown

-----------------------------------------------------------------------------
(* The document of a text *)

BlockTypes == {"paragraph", "bullet", "number", "heading", "cta"}
BlockSet == [type : BlockTypes, lines : Seq(Nat)]
Block(type, lines) == [type |-> type, lines |-> lines]

Readings == [blocks : Seq(BlockSet), para : Seq(Nat), items : Seq(Nat), list : {"none", "bullet", "number"}]

\* A paragraph or a list is open, not both
Readable(s) ==
    /\ s \in Readings
    /\ s.para = <<>> \/ s.items = <<>>
    /\ s.items = <<>> <=> s.list = "none"

\* The loop turns g into the readings up to line k.
Turns(text, k, g) == [n \in 0 .. k |-> IF n = 0 THEN NothingRead ELSE ReadLine(g[n - 1], n, text[n])]

LEMMA LeastIs ==
    ASSUME NEW S \in SUBSET Nat, S # {} PROVE \E n \in S : \A m \in S : n <= m
<1> DEFINE R == OpToRel(<, Nat)
<1>1. PICK n \in S : \A m \in S : ~(<<m, n>> \in R)
  <2> HIDE DEF R
  <2>1. IsWellFoundedOn(R, Nat)
    BY NatLessThanWellFounded DEF R
  <2> QED BY <2>1, WFMin
<1>2. ASSUME NEW m \in S PROVE n <= m
  <2>1. <<m, n>> \in R <=> m < n
    BY DEF R, OpToRel
  <2> HIDE DEF R
  <2> QED BY <1>1, <2>1
<1> QED BY <1>2

LEMMA TurnsGoOn ==
    ASSUME NEW text, NEW k \in Nat \ {0}, NEW g, g = Turns(text, k - 1, g)
    PROVE  \E h : h = Turns(text, k, h)
<1>1. PICK h : h = [n \in 0 .. k |-> IF n < k THEN g[n] ELSE ReadLine(g[k - 1], k, text[k])]
  OBVIOUS
<1>2. \A n \in 0 .. (k - 1) : g[n] = IF n = 0 THEN NothingRead ELSE ReadLine(g[n - 1], n, text[n])
  BY DEF Turns
<1>3. ASSUME NEW n \in 0 .. k PROVE h[n] = IF n = 0 THEN NothingRead ELSE ReadLine(h[n - 1], n, text[n])
  <2>1. CASE n = 0
    <3>1. n < k /\ n \in 0 .. (k - 1)
      BY <2>1
    <3> QED BY <1>1, <1>2, <2>1, <3>1
  <2>2. CASE n # 0 /\ n # k
    <3>1. n < k /\ n - 1 < k /\ n \in 0 .. (k - 1) /\ n - 1 \in 0 .. k
      BY <2>2
    <3> QED BY <1>1, <1>2, <2>2, <3>1
  <2>3. CASE n = k
    <3>1. n # 0 /\ ~(n < k) /\ k - 1 < k /\ k - 1 \in 0 .. k
      BY <2>3
    <3> QED BY <1>1, <2>3, <3>1
  <2> QED BY <2>1, <2>2, <2>3
<1>4. h = Turns(text, k, h)
  BY <1>1, <1>3 DEF Turns
<1> QED BY <1>4

LEMMA TurnsExist ==
    ASSUME NEW text, NEW k \in Nat PROVE \E g : g = Turns(text, k, g)
<1> DEFINE S == {n \in Nat : ~ \E g : g = Turns(text, n, g)}
<1>1. CASE S # {}
  <2>1. PICK n \in S : \A m \in S : n <= m
    <3>1. S \in SUBSET Nat
      OBVIOUS
    <3> HIDE DEF S
    <3> QED BY <1>1, <3>1, LeastIs
  <2>2. CASE n = 0
    <3>1. PICK g : g = [m \in 0 .. 0 |-> NothingRead]
      OBVIOUS
    <3>2. g = Turns(text, 0, g)
      BY <3>1 DEF Turns
    <3> QED BY <2>1, <2>2, <3>2
  <2>3. CASE n # 0
    <3>1. n \in Nat \ {0} /\ n - 1 \in Nat /\ ~(n <= n - 1)
      BY <2>1, <2>3
    <3>2. PICK g : g = Turns(text, n - 1, g)
      BY <2>1, <3>1
    <3> QED BY <2>1, <3>1, <3>2, TurnsGoOn
  <2> QED BY <2>2, <2>3
<1> QED BY <1>1

\* The loop of parseMarketingDocument, turn by turn
LEMMA ReadingIs ==
    ASSUME NEW text, Len(text) \in Nat
    PROVE  /\ Reading(text)[0] = NothingRead
           /\ \A n \in 1 .. Len(text) : Reading(text)[n] = ReadLine(Reading(text)[n - 1], n, text[n])
<1>1. Reading(text) = CHOOSE g : g = [n \in 0 .. Len(text) |-> IF n = 0 THEN NothingRead ELSE ReadLine(g[n - 1], n, text[n])]
  BY DEF Reading
<1>2. Reading(text) = CHOOSE g : g = Turns(text, Len(text), g)
  BY <1>1 DEF Turns
<1>3. Reading(text) = Turns(text, Len(text), Reading(text))
  <2>1. \E g : g = Turns(text, Len(text), g)
    BY TurnsExist
  <2> QED BY <1>2, <2>1
<1>4. PICK g : g = Reading(text)
  OBVIOUS
<1>5. g = [n \in 0 .. Len(text) |-> IF n = 0 THEN NothingRead ELSE ReadLine(g[n - 1], n, text[n])]
  BY <1>3, <1>4 DEF Turns
<1>6. ASSUME NEW n \in 0 .. Len(text) PROVE g[n] = IF n = 0 THEN NothingRead ELSE ReadLine(g[n - 1], n, text[n])
  BY <1>5
<1>7. 0 \in 0 .. Len(text) /\ \A n \in 1 .. Len(text) : n \in 0 .. Len(text) /\ n # 0
  OBVIOUS
<1> QED BY <1>4, <1>6, <1>7

-----------------------------------------------------------------------------
(* One turn of the loop *)

LEMMA AppendIs ==
    ASSUME NEW S, NEW q \in Seq(S), NEW x \in S
    PROVE  /\ Append(q, x) \in Seq(S) /\ Len(q) \in Nat /\ DOMAIN q = 1 .. Len(q)
           /\ DOMAIN Append(q, x) = 1 .. (Len(q) + 1) /\ Append(q, x)[Len(q) + 1] = x
           /\ \A i \in 1 .. Len(q) : Append(q, x)[i] = q[i]
OBVIOUS

LEMMA FlushListIs ==
    ASSUME NEW s, Readable(s)
    PROVE  /\ Readable(FlushList(s)) /\ FlushList(s).para = s.para
           /\ FlushList(s).items = <<>> /\ FlushList(s).list = "none"
           /\ FlushList(s).blocks = IF s.items = <<>> THEN s.blocks ELSE Append(s.blocks, Block(s.list, s.items))
<1>1. Block(s.list, s.items) \in BlockSet \/ s.list = "none"
  BY DEF Readable, Readings, Block, BlockSet, BlockTypes
<1>2. FlushList(s) =
        [blocks |-> IF s.items = <<>> THEN s.blocks ELSE Append(s.blocks, Block(s.list, s.items)),
         para |-> s.para, items |-> <<>>, list |-> "none"]
  <2>1. (s.list = "none" \/ s.items = <<>>) <=> s.items = <<>>
    BY DEF Readable
  <2>2. s = [blocks |-> s.blocks, para |-> s.para, items |-> s.items, list |-> s.list]
    BY DEF Readable, Readings
  <2>3. FlushList(s) = [s EXCEPT !.blocks = IF s.items = <<>> THEN @ ELSE Append(@, Block(s.list, s.items)),
                                 !.items = <<>>, !.list = "none"]
    BY <2>1 DEF FlushList, Block
  <2> QED BY <2>2, <2>3
<1>3. s.blocks \in Seq(BlockSet) /\ s.para \in Seq(Nat) /\ (s.items = <<>> <=> s.list = "none")
  BY DEF Readable, Readings
<1>4. (IF s.items = <<>> THEN s.blocks ELSE Append(s.blocks, Block(s.list, s.items))) \in Seq(BlockSet)
  BY <1>1, <1>3
<1> HIDE DEF FlushList
<1> QED BY <1>2, <1>3, <1>4 DEF Readable, Readings

LEMMA FlushParagraphIs ==
    ASSUME NEW s, Readable(s)
    PROVE  /\ Readable(FlushParagraph(s)) /\ FlushParagraph(s).para = <<>>
           /\ FlushParagraph(s).items = s.items /\ FlushParagraph(s).list = s.list
           /\ FlushParagraph(s).blocks =
                IF s.para = <<>> THEN s.blocks ELSE Append(s.blocks, Block("paragraph", s.para))
<1>1. s.blocks \in Seq(BlockSet) /\ Block("paragraph", s.para) \in BlockSet
  BY DEF Readable, Readings, Block, BlockSet, BlockTypes
<1>2. CASE s.para = <<>>
  BY <1>2 DEF FlushParagraph
<1>3. CASE s.para # <<>>
  <2>1. FlushParagraph(s) = [blocks |-> Append(s.blocks, Block("paragraph", s.para)),
                             para |-> <<>>, items |-> s.items, list |-> s.list]
    BY <1>3 DEF FlushParagraph, Readable, Readings, Block
  <2>2. Append(s.blocks, Block("paragraph", s.para)) \in Seq(BlockSet)
    BY <1>1
  <2> QED BY <1>3, <2>1, <2>2 DEF Readable, Readings
<1> QED BY <1>2, <1>3

\* What the blocks are when the reading ends
LEMMA ClosedIs ==
    ASSUME NEW s, Readable(s)
    PROVE  /\ Closed(s) \in Seq(BlockSet)
           /\ Closed(s) = IF s.para # <<>> THEN Append(s.blocks, Block("paragraph", s.para))
                          ELSE IF s.items # <<>> THEN Append(s.blocks, Block(s.list, s.items)) ELSE s.blocks
<1>1. PICK t : t = FlushParagraph(s)
  OBVIOUS
<1>2. /\ Readable(t) /\ t.items = s.items /\ t.list = s.list
      /\ t.blocks = IF s.para = <<>> THEN s.blocks ELSE Append(s.blocks, Block("paragraph", s.para))
  BY <1>1, FlushParagraphIs
<1>3. /\ Readable(FlushList(t))
      /\ FlushList(t).blocks = IF t.items = <<>> THEN t.blocks ELSE Append(t.blocks, Block(t.list, t.items))
  BY <1>2, FlushListIs
<1>4. Closed(s) = FlushList(t).blocks /\ Closed(s) \in Seq(BlockSet)
  BY <1>1, <1>3 DEF Closed, Readable, Readings
<1>5. s.para = <<>> \/ s.items = <<>>
  BY DEF Readable
<1> QED BY <1>2, <1>3, <1>4, <1>5

\* A line becomes a block of its own, or the end of the last one; a blank one neither.
NewBlock(old, new, n, type) == new = Append(old, Block(type, <<n>>))
LongerBlock(old, new, n, type) ==
    \E b \in Seq(BlockSet) : \E l \in Seq(Nat) :
        old = Append(b, Block(type, l)) /\ new = Append(b, Block(type, Append(l, n)))

LineRead(old, new, n, kind) ==
    IF kind = "blank" THEN new = old
    ELSE \E type \in BlockTypes : KindOf(type) = kind /\ (NewBlock(old, new, n, type) \/ LongerBlock(old, new, n, type))

LEMMA BlankIsRead ==
    ASSUME NEW s, Readable(s), NEW n \in Nat
    PROVE  LET t == ReadLine(s, n, "blank") IN Readable(t) /\ Closed(t) = Closed(s)
<1>1. PICK p : p = FlushParagraph(s)
  OBVIOUS
<1>2. PICK t : t = FlushList(p)
  OBVIOUS
<1>3. Readable(p) /\ p.para = <<>>
  BY <1>1, FlushParagraphIs
<1>4. Readable(t) /\ t.para = <<>> /\ t.items = <<>>
  BY <1>2, <1>3, FlushListIs
<1>5. Closed(t) = t.blocks
  BY <1>4, ClosedIs
<1>6. Closed(s) = t.blocks
  BY <1>1, <1>2 DEF Closed
<1>7. ReadLine(s, n, "blank") = t
  BY <1>1, <1>2 DEF ReadLine
<1> QED BY <1>4, <1>5, <1>6, <1>7

LEMMA LineIsRead ==
    ASSUME NEW s, Readable(s), NEW n \in Nat, NEW kind \in {"heading", "cta"}
    PROVE  LET t == ReadLine(s, n, kind) IN Readable(t) /\ NewBlock(Closed(s), Closed(t), n, kind)
<1>1. PICK p : p = FlushParagraph(s)
  OBVIOUS
<1>2. PICK q : q = FlushList(p)
  OBVIOUS
<1>3. Readable(p) /\ p.para = <<>>
  BY <1>1, FlushParagraphIs
<1>4. Readable(q) /\ q.para = <<>> /\ q.items = <<>> /\ q.list = "none"
  BY <1>2, <1>3, FlushListIs
<1>5. PICK t : t = [q EXCEPT !.blocks = Append(@, [type |-> kind, lines |-> <<n>>])]
  OBVIOUS
<1>6. ReadLine(s, n, kind) = t
  BY <1>1, <1>2, <1>5 DEF ReadLine
<1>7. q.blocks \in Seq(BlockSet) /\ Block(kind, <<n>>) \in BlockSet
  BY <1>4 DEF Readable, Readings, Block, BlockSet, BlockTypes
<1>8. Append(q.blocks, Block(kind, <<n>>)) \in Seq(BlockSet)
  BY <1>7
<1>9. t = [blocks |-> Append(q.blocks, Block(kind, <<n>>)), para |-> <<>>, items |-> <<>>, list |-> "none"]
  BY <1>4, <1>5 DEF Block, Readable, Readings
<1>10. Readable(t) /\ t.para = <<>> /\ t.items = <<>> /\ t.blocks = Append(q.blocks, Block(kind, <<n>>))
  BY <1>8, <1>9 DEF Readable, Readings
<1>11. Closed(t) = t.blocks
  BY <1>10, ClosedIs
<1>12. Closed(s) = q.blocks
  BY <1>1, <1>2 DEF Closed
<1> QED BY <1>6, <1>10, <1>11, <1>12 DEF NewBlock

LEMMA ItemIsRead ==
    ASSUME NEW s, Readable(s), NEW n \in Nat, NEW kind \in {"bullet", "number"}
    PROVE  LET t == ReadLine(s, n, kind) IN
           Readable(t) /\ (NewBlock(Closed(s), Closed(t), n, kind) \/ LongerBlock(Closed(s), Closed(t), n, kind))
<1>1. PICK p : p = FlushParagraph(s)
  OBVIOUS
<1>2. PICK q : q = IF s.list # "none" /\ s.list # kind THEN FlushList(p) ELSE p
  OBVIOUS
<1>3. Readable(p) /\ p.para = <<>> /\ p.items = s.items /\ p.list = s.list
  BY <1>1, FlushParagraphIs
<1>4. Readable(q) /\ q.para = <<>>
  BY <1>2, <1>3, FlushListIs
<1>5. PICK t : t = [q EXCEPT !.list = kind, !.items = Append(@, n)]
  OBVIOUS
<1>6. ReadLine(s, n, kind) = t
  BY <1>1, <1>2, <1>5 DEF ReadLine
<1>7. q.blocks \in Seq(BlockSet) /\ q.items \in Seq(Nat)
  BY <1>4 DEF Readable, Readings
<1>8. Append(q.items, n) \in Seq(Nat) /\ Append(q.items, n) # <<>>
  <2>1. PICK l \in Seq(Nat) : l = q.items
    BY <1>7
  <2>2. Append(l, n) \in Seq(Nat) /\ Append(l, n) # <<>>
    <3>1. Append(l, n) \in Seq(Nat) /\ DOMAIN Append(l, n) = 1 .. (Len(l) + 1) /\ Len(l) \in Nat
      BY AppendIs
    <3>2. 1 \in DOMAIN Append(l, n) /\ DOMAIN <<>> = {}
      BY <3>1
    <3> QED BY <3>1, <3>2
  <2> QED BY <2>1, <2>2
<1>9. t = [blocks |-> q.blocks, para |-> <<>>, items |-> Append(q.items, n), list |-> kind]
  BY <1>4, <1>5 DEF Readable, Readings
<1>10. /\ Readable(t) /\ t.para = <<>> /\ t.items = Append(q.items, n) /\ t.list = kind /\ t.blocks = q.blocks
  BY <1>7, <1>8, <1>9 DEF Readable, Readings
<1>11. Closed(t) = Append(q.blocks, Block(kind, Append(q.items, n)))
  BY <1>8, <1>10, ClosedIs
<1>12. CASE s.list = kind
  <2>1. q = p /\ s.items # <<>> /\ s.para = <<>> /\ q.items = s.items /\ q.blocks = s.blocks
    BY <1>1, <1>2, <1>3, <1>12 DEF Readable, FlushParagraph
  <2>2. Closed(s) = Append(q.blocks, Block(kind, q.items))
    BY <1>12, <2>1, ClosedIs
  <2> QED BY <1>6, <1>7, <1>10, <1>11, <2>2 DEF LongerBlock
<1>13. CASE s.list # kind
  <2>1. q.items = <<>>
    BY <1>2, <1>3, <1>13, FlushListIs DEF Readable
  <2>2. Closed(s) = q.blocks
    <3>1. CASE s.list = "none"
      <4>1. q = p /\ p.items = <<>>
        BY <1>2, <1>3, <3>1 DEF Readable
      <4> QED BY <1>1, <1>3, <4>1, FlushListIs DEF Closed
    <3>2. CASE s.list # "none"
      BY <1>1, <1>2, <1>13, <3>2 DEF Closed
    <3> QED BY <3>1, <3>2
  <2>3. Append(q.items, n) = <<n>>
    BY <2>1
  <2> QED BY <1>6, <1>10, <1>11, <2>2, <2>3 DEF NewBlock
<1> QED BY <1>12, <1>13

LEMMA TextIsRead ==
    ASSUME NEW s, Readable(s), NEW n \in Nat
    PROVE  LET t == ReadLine(s, n, "text") IN
           /\ Readable(t)
           /\ NewBlock(Closed(s), Closed(t), n, "paragraph") \/ LongerBlock(Closed(s), Closed(t), n, "paragraph")
<1>1. PICK q : q = IF s.list # "none" THEN FlushList(s) ELSE s
  OBVIOUS
<1>2. /\ Readable(q) /\ q.para = s.para /\ q.items = <<>> /\ q.list = "none"
  BY <1>1, FlushListIs DEF Readable
<1>3. PICK t : t = [q EXCEPT !.para = Append(@, n)]
  OBVIOUS
<1>4. ReadLine(s, n, "text") = t
  BY <1>1, <1>3 DEF ReadLine
<1>5. q.blocks \in Seq(BlockSet) /\ q.para \in Seq(Nat)
  BY <1>2 DEF Readable, Readings
<1>6. Append(q.para, n) \in Seq(Nat) /\ Append(q.para, n) # <<>>
  BY <1>5
<1>7. t = [blocks |-> q.blocks, para |-> Append(q.para, n), items |-> <<>>, list |-> "none"]
  BY <1>2, <1>3 DEF Readable, Readings
<1>8. Readable(t) /\ t.para = Append(q.para, n) /\ t.blocks = q.blocks
  BY <1>5, <1>6, <1>7 DEF Readable, Readings
<1>9. Closed(t) = Append(q.blocks, Block("paragraph", Append(q.para, n)))
  BY <1>6, <1>8, ClosedIs
<1>10. CASE s.para = <<>>
  <2>1. Closed(s) = q.blocks
    BY <1>1, <1>10, ClosedIs, FlushListIs DEF Readable
  <2>2. Append(q.para, n) = <<n>>
    BY <1>2, <1>10
  <2> QED BY <1>4, <1>8, <1>9, <2>1, <2>2 DEF NewBlock
<1>11. CASE s.para # <<>>
  <2>1. q = s
    BY <1>1, <1>11 DEF Readable
  <2>2. Closed(s) = Append(q.blocks, Block("paragraph", q.para))
    BY <1>11, <2>1, ClosedIs
  <2> QED BY <1>4, <1>5, <1>8, <1>9, <2>2 DEF LongerBlock
<1> QED BY <1>10, <1>11

LEMMA TurnReads ==
    ASSUME NEW s, Readable(s), NEW n \in Nat, NEW kind \in Kinds
    PROVE  Readable(ReadLine(s, n, kind)) /\ LineRead(Closed(s), Closed(ReadLine(s, n, kind)), n, kind)
<1>1. CASE kind = "blank"
  BY <1>1, BlankIsRead DEF LineRead
<1>2. CASE kind \in {"heading", "cta"}
  <2>1. kind \in BlockTypes /\ KindOf(kind) = kind /\ kind # "blank"
    BY <1>2 DEF BlockTypes, KindOf
  <2> QED BY <1>2, <2>1, LineIsRead DEF LineRead
<1>3. CASE kind \in {"bullet", "number"}
  <2>1. kind \in BlockTypes /\ KindOf(kind) = kind /\ kind # "blank"
    BY <1>3 DEF BlockTypes, KindOf
  <2> QED BY <1>3, <2>1, ItemIsRead DEF LineRead
<1>4. CASE kind = "text"
  <2>1. "paragraph" \in BlockTypes /\ KindOf("paragraph") = kind /\ kind # "blank"
    BY <1>4 DEF BlockTypes, KindOf
  <2> QED BY <1>4, <2>1, TextIsRead DEF LineRead
<1> QED BY <1>1, <1>2, <1>3, <1>4 DEF Kinds

-----------------------------------------------------------------------------
(* The blocks keep the lines *)

\* The document grows by a line at its end: the old lines stay where they were, the new one is last.
LEMMA LastLineKept ==
    ASSUME NEW text, NEW n \in Nat, NEW old, NEW new, KeepsLines(old, text, n),
           NEW c \in DOMAIN new, NEW k \in DOMAIN new[c].lines,
           new[c].lines[k] = n + 1, text[n + 1] = KindOf(new[c].type),
           \A b \in DOMAIN old : b \in DOMAIN new /\ new[b].type = old[b].type,
           \A b \in DOMAIN old : \A i \in DOMAIN old[b].lines :
              i \in DOMAIN new[b].lines /\ new[b].lines[i] = old[b].lines[i],
           \A b \in DOMAIN new : \A i \in DOMAIN new[b].lines :
              \/ b = c /\ i = k
              \/ b \in DOMAIN old /\ i \in DOMAIN old[b].lines,
           \A b \in DOMAIN new : \A i \in DOMAIN new[b].lines : ~(c < b \/ (c = b /\ k < i))
    PROVE  KeepsLines(new, text, n + 1)
<1>1. ASSUME NEW m \in 1 .. (n + 1), text[m] # "blank"
      PROVE  \E b \in DOMAIN new : \E i \in DOMAIN new[b].lines : new[b].lines[i] = m
  <2>1. CASE m = n + 1
    BY <2>1
  <2>2. CASE m # n + 1
    <3>1. m \in 1 .. n
      BY <2>2
    <3>2. PICK b \in DOMAIN old : \E i \in DOMAIN old[b].lines : old[b].lines[i] = m
      BY <1>1, <3>1 DEF KeepsLines
    <3> QED BY <3>2
  <2> QED BY <2>1, <2>2
<1>2. ASSUME NEW b \in DOMAIN new, NEW i \in DOMAIN new[b].lines
      PROVE  new[b].lines[i] \in 1 .. (n + 1) /\ text[new[b].lines[i]] = KindOf(new[b].type)
  <2>1. CASE b = c /\ i = k
    BY <2>1
  <2>2. CASE b \in DOMAIN old /\ i \in DOMAIN old[b].lines
    <3>1. old[b].lines[i] \in 1 .. n /\ text[old[b].lines[i]] = KindOf(old[b].type)
      BY <2>2 DEF KeepsLines
    <3>2. new[b].lines[i] = old[b].lines[i] /\ new[b].type = old[b].type
      BY <2>2
    <3> QED BY <3>1, <3>2
  <2> QED BY <2>1, <2>2
<1>3. ASSUME NEW b \in DOMAIN new, NEW d \in DOMAIN new, NEW i \in DOMAIN new[b].lines, NEW j \in DOMAIN new[d].lines,
             b < d \/ (b = d /\ i < j)
      PROVE  new[b].lines[i] < new[d].lines[j]
  <2>1. b \in DOMAIN old /\ i \in DOMAIN old[b].lines
    <3>1. ~(b = c /\ i = k)
      BY <1>3
    <3> QED BY <3>1
  <2>2. new[b].lines[i] = old[b].lines[i] /\ old[b].lines[i] \in 1 .. n
    BY <2>1 DEF KeepsLines
  <2>3. CASE d = c /\ j = k
    BY <2>2, <2>3
  <2>4. CASE d \in DOMAIN old /\ j \in DOMAIN old[d].lines
    <3>1. new[d].lines[j] = old[d].lines[j] /\ old[b].lines[i] < old[d].lines[j]
      BY <1>3, <2>1, <2>4 DEF KeepsLines
    <3> QED BY <2>2, <3>1
  <2> QED BY <2>3, <2>4
<1> QED BY <1>1, <1>2, <1>3 DEF KeepsLines

LEMMA NewBlockKeeps ==
    ASSUME NEW text, NEW n \in Nat, NEW old \in Seq(BlockSet), KeepsLines(old, text, n),
           NEW type \in BlockTypes, text[n + 1] = KindOf(type), NEW new, NewBlock(old, new, n + 1, type)
    PROVE  KeepsLines(new, text, n + 1)
<1>1. PICK x : x = Block(type, <<n + 1>>)
  OBVIOUS
<1>2. x \in BlockSet /\ x.type = type /\ x.lines = <<n + 1>>
  BY <1>1 DEF Block, BlockSet
<1>3. PICK c : c = Len(old) + 1
  OBVIOUS
<1>4. /\ Len(old) \in Nat /\ DOMAIN old = 1 .. Len(old) /\ DOMAIN new = 1 .. c
      /\ new[c] = x /\ \A i \in 1 .. Len(old) : new[i] = old[i]
  BY <1>1, <1>2, <1>3, AppendIs DEF NewBlock
<1>5. DOMAIN x.lines = {1} /\ x.lines[1] = n + 1
  BY <1>2
<1>6. c \in DOMAIN new /\ c \in Nat
  BY <1>3, <1>4
<1>7. 1 \in DOMAIN new[c].lines /\ new[c].lines[1] = n + 1 /\ text[n + 1] = KindOf(new[c].type)
  BY <1>2, <1>4, <1>5
<1>8. \A b \in DOMAIN old : b \in DOMAIN new /\ new[b] = old[b]
  BY <1>3, <1>4
<1>9. ASSUME NEW b \in DOMAIN new, NEW i \in DOMAIN new[b].lines
      PROVE  /\ (b = c /\ i = 1) \/ (b \in DOMAIN old /\ i \in DOMAIN old[b].lines)
             /\ ~(c < b \/ (c = b /\ 1 < i))
  <2>1. CASE b = c
    BY <1>4, <1>5, <1>6, <2>1
  <2>2. CASE b # c
    <3>1. b \in DOMAIN old /\ ~(c < b)
      BY <1>3, <1>4, <2>2
    <3> QED BY <1>8, <2>2, <3>1
  <2> QED BY <2>1, <2>2
<1> QED BY <1>6, <1>7, <1>8, <1>9, LastLineKept

LEMMA LongerBlockKeeps ==
    ASSUME NEW text, NEW n \in Nat, NEW old, KeepsLines(old, text, n),
           NEW type \in BlockTypes, text[n + 1] = KindOf(type), NEW new, LongerBlock(old, new, n + 1, type)
    PROVE  KeepsLines(new, text, n + 1)
<1>1. PICK s \in Seq(BlockSet), l \in Seq(Nat) :
        old = Append(s, Block(type, l)) /\ new = Append(s, Block(type, Append(l, n + 1)))
  BY DEF LongerBlock
<1>2. PICK x, y : x = Block(type, l) /\ y = Block(type, Append(l, n + 1))
  OBVIOUS
<1>3. /\ Append(l, n + 1) \in Seq(Nat) /\ Len(l) \in Nat /\ DOMAIN l = 1 .. Len(l)
      /\ DOMAIN Append(l, n + 1) = 1 .. (Len(l) + 1) /\ Append(l, n + 1)[Len(l) + 1] = n + 1
      /\ \A i \in 1 .. Len(l) : Append(l, n + 1)[i] = l[i]
  BY AppendIs
<1>4. /\ x \in BlockSet /\ x.type = type /\ x.lines = l
      /\ y \in BlockSet /\ y.type = type /\ y.lines = Append(l, n + 1)
  BY <1>2, <1>3 DEF Block, BlockSet
<1>5. PICK c, k : c = Len(s) + 1 /\ k = Len(l) + 1
  OBVIOUS
<1>6. /\ Len(s) \in Nat /\ DOMAIN old = 1 .. c /\ DOMAIN new = 1 .. c
      /\ old[c] = x /\ new[c] = y /\ \A i \in 1 .. Len(s) : old[i] = s[i] /\ new[i] = s[i]
  BY <1>1, <1>2, <1>4, <1>5, AppendIs
<1>7. c \in DOMAIN new /\ c \in Nat /\ k \in Nat
  BY <1>3, <1>5, <1>6
<1>8. k \in DOMAIN new[c].lines /\ new[c].lines[k] = n + 1 /\ text[n + 1] = KindOf(new[c].type)
  BY <1>3, <1>4, <1>5, <1>6
<1>9. \A b \in DOMAIN old : b \in DOMAIN new /\ new[b].type = old[b].type /\ (b # c => new[b] = old[b])
  <2>1. \A b \in 1 .. c : b # c => b \in 1 .. Len(s)
    BY <1>5, <1>6
  <2> QED BY <1>4, <1>6, <2>1
<1>10. DOMAIN old[c].lines = 1 .. Len(l) /\ DOMAIN new[c].lines = 1 .. k /\ \A i \in 1 .. Len(l) : new[c].lines[i] = old[c].lines[i]
  BY <1>3, <1>4, <1>5, <1>6
<1>11. ASSUME NEW b \in DOMAIN old, NEW i \in DOMAIN old[b].lines
       PROVE  i \in DOMAIN new[b].lines /\ new[b].lines[i] = old[b].lines[i]
  <2>1. CASE b = c
    <3>1. i \in 1 .. Len(l)
      BY <1>10, <2>1
    <3>2. i \in 1 .. k
      BY <1>3, <1>5, <3>1
    <3> QED BY <1>10, <2>1, <3>1, <3>2
  <2>2. CASE b # c
    BY <1>9, <2>2
  <2> QED BY <2>1, <2>2
<1>12. ASSUME NEW b \in DOMAIN new, NEW i \in DOMAIN new[b].lines
       PROVE  /\ (b = c /\ i = k) \/ (b \in DOMAIN old /\ i \in DOMAIN old[b].lines)
              /\ ~(c < b \/ (c = b /\ k < i))
  <2>1. b \in DOMAIN old /\ ~(c < b)
    BY <1>6, <1>7
  <2>2. CASE b = c
    <3>1. i \in 1 .. k
      BY <1>10, <2>2
    <3>2. i # k => i \in 1 .. Len(l)
      BY <1>3, <1>5, <3>1
    <3> QED BY <1>7, <1>10, <2>1, <2>2, <3>1, <3>2
  <2>3. CASE b # c
    BY <1>9, <2>1, <2>3
  <2> QED BY <2>2, <2>3
<1>13. \A b \in DOMAIN old : b \in DOMAIN new /\ new[b].type = old[b].type
  BY <1>9
<1>14. \A b \in DOMAIN old : \A i \in DOMAIN old[b].lines :
          i \in DOMAIN new[b].lines /\ new[b].lines[i] = old[b].lines[i]
  BY <1>11
<1>15. \A b \in DOMAIN new : \A i \in DOMAIN new[b].lines :
          (b = c /\ i = k) \/ (b \in DOMAIN old /\ i \in DOMAIN old[b].lines)
  BY <1>12
<1>16. \A b \in DOMAIN new : \A i \in DOMAIN new[b].lines : ~(c < b \/ (c = b /\ k < i))
  BY <1>12
<1> QED BY ONLY <1>7, <1>8, <1>13, <1>14, <1>15, <1>16, n \in Nat, KeepsLines(old, text, n), LastLineKept

LEMMA LineReadKeeps ==
    ASSUME NEW text, NEW n \in Nat, NEW old \in Seq(BlockSet), KeepsLines(old, text, n),
           NEW new, LineRead(old, new, n + 1, text[n + 1])
    PROVE  KeepsLines(new, text, n + 1)
<1>1. CASE text[n + 1] = "blank"
  <2>1. new = old
    BY <1>1 DEF LineRead
  <2>2. \A m \in 1 .. (n + 1) : text[m] # "blank" => m \in 1 .. n
    BY <1>1
  <2>3. \A m \in 1 .. n : m \in 1 .. (n + 1)
    OBVIOUS
  <2> QED BY <2>1, <2>2, <2>3 DEF KeepsLines
<1>2. CASE text[n + 1] # "blank"
  <2>1. PICK type \in BlockTypes : KindOf(type) = text[n + 1]
            /\ (NewBlock(old, new, n + 1, type) \/ LongerBlock(old, new, n + 1, type))
    BY <1>2 DEF LineRead
  <2> QED BY <2>1, NewBlockKeeps, LongerBlockKeeps
<1> QED BY <1>1, <1>2

\* The loop invariant of parseMarketingDocument
LEMMA ReadingKeeps ==
    ASSUME NEW text \in Seq(Kinds), NEW n \in 0 .. Len(text)
    PROVE  Readable(Reading(text)[n]) /\ KeepsLines(Closed(Reading(text)[n]), text, n)
<1> DEFINE Kept(m) == Readable(Reading(text)[m]) /\ KeepsLines(Closed(Reading(text)[m]), text, m)
           S == {m \in 0 .. Len(text) : ~Kept(m)}
<1>1. Len(text) \in Nat /\ \A m \in 1 .. Len(text) : text[m] \in Kinds
  OBVIOUS
<1>2. Kept(0)
  <2>1. Reading(text)[0] = NothingRead
    BY <1>1, ReadingIs
  <2>2. Readable(NothingRead) /\ NothingRead.para = <<>> /\ NothingRead.items = <<>> /\ NothingRead.blocks = <<>>
    BY DEF Readable, Readings, NothingRead
  <2>3. Closed(NothingRead) = <<>>
    BY <2>2, ClosedIs
  <2>4. KeepsLines(<<>>, text, 0)
    BY DEF KeepsLines
  <2> QED BY <2>1, <2>2, <2>3, <2>4
<1>3. ASSUME NEW m \in 1 .. Len(text), Kept(m - 1) PROVE Kept(m)
  <2>1. PICK s : s = Reading(text)[m - 1]
    OBVIOUS
  <2>2. Reading(text)[m] = ReadLine(s, m, text[m])
    BY <1>1, <2>1, ReadingIs
  <2>3. Readable(s) /\ KeepsLines(Closed(s), text, m - 1)
    BY <1>3, <2>1
  <2>4. m \in Nat /\ m - 1 \in Nat /\ (m - 1) + 1 = m /\ text[m] \in Kinds
    BY <1>1
  <2>5. Readable(ReadLine(s, m, text[m])) /\ LineRead(Closed(s), Closed(ReadLine(s, m, text[m])), m, text[m])
    BY <2>3, <2>4, TurnReads
  <2>6. Closed(s) \in Seq(BlockSet)
    BY <2>3, ClosedIs
  <2>7. PICK p \in Nat : p = m - 1 /\ m = p + 1
    BY <2>4
  <2>8. KeepsLines(Closed(ReadLine(s, m, text[m])), text, m)
    BY <2>3, <2>5, <2>6, <2>7, LineReadKeeps
  <2> QED BY <2>2, <2>5, <2>8
<1> HIDE DEF Kept
<1>4. CASE S # {}
  <2>1. PICK m \in S : \A k \in S : m <= k
    <3>1. S \in SUBSET Nat
      BY <1>1
    <3> HIDE DEF S
    <3> QED BY <1>4, <3>1, LeastIs
  <2>2. m # 0
    BY <1>2, <2>1
  <2>3. m \in 1 .. Len(text) /\ m - 1 \in 0 .. Len(text) /\ ~(m <= m - 1)
    BY <1>1, <2>1, <2>2
  <2>4. Kept(m - 1)
    BY <2>1, <2>3
  <2> QED BY <1>3, <2>1, <2>3, <2>4
<1>5. CASE S = {}
  BY <1>5 DEF Kept
<1> QED BY <1>4, <1>5

LEMMA DocumentIs ==
    ASSUME NEW text \in Seq(Kinds) PROVE KeepsLines(Blocks(text), text, Len(text))
<1>1. Len(text) \in 0 .. Len(text)
  OBVIOUS
<1>2. PICK blocks : blocks = Closed(Reading(text)[Len(text)])
  OBVIOUS
<1>3. KeepsLines(blocks, text, Len(text))
  BY <1>1, <1>2, ReadingKeeps
<1>4. Blocks(text) = IF blocks = <<>> THEN <<Block("paragraph", <<>>)>> ELSE blocks
  BY <1>2 DEF Blocks, Block
<1>5. CASE blocks = <<>>
  <2>1. \A m \in 1 .. Len(text) : text[m] = "blank"
    BY <1>3, <1>5 DEF KeepsLines
  <2>2. PICK one : one = <<Block("paragraph", <<>>)>>
    OBVIOUS
  <2>3. DOMAIN one = {1} /\ one[1].lines = <<>>
    BY <2>2 DEF Block
  <2>4. \A b \in DOMAIN one : DOMAIN one[b].lines = {}
    BY <2>3
  <2>5. KeepsLines(one, text, Len(text))
    BY <2>1, <2>4 DEF KeepsLines
  <2> QED BY <1>4, <1>5, <2>2, <2>5
<1> QED BY <1>3, <1>4, <1>5

\* The document shown for any text, of any length: every line that is not blank, once, in the order of
\* the text, in a block of its kind (parseMarketingDocument).
THEOREM DocumentsKeepLines == StudioSpec => []DocumentKeepsLines
<1>1. StudioInv => DocumentKeepsLines
  <2> SUFFICES ASSUME StudioInv, NEW n \in DOMAIN variants
               PROVE  KeepsLines(Blocks(variants[n].text), variants[n].text, Len(variants[n].text))
    BY DEF DocumentKeepsLines
  <2>1. variants[n].text \in Seq(Kinds)
    BY StudioAssumption DEF StudioInv, StudioTypeOK
  <2> QED BY <2>1, DocumentIs
<1> QED BY <1>1, StudioCorrect, PTL
=============================================================================
