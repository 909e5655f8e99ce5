--------------------------- MODULE WorkspaceSettings ---------------------------
(***************************************************************************)
(* The settings of a workspace: the row, which the first save creates, and the       *)
(* forms of the frontend (features/settings).  A form is filled from the cached       *)
(* settings, again whenever they change, and its save sends all of its fields.       *)
(***************************************************************************)
EXTENDS Connections

CONSTANTS
    Saves       \* bound: saves under way

SettingsAssumption ==
    Saves \subseteq Nat /\ IsFiniteSet(Saves) /\ None \notin Saves
ASSUME SettingsAssumption

VARIABLES
    saved,      \* the row of workspace_settings, or None, and how often it was written
    sheet,      \* the query cache: the settings
    page,       \* the section of the settings that is open, or another page
    form,       \* the values of its form, or None
    entered,    \* the fields entered since it was filled
    saves,      \* PATCH requests under way, of this browser and of other clients
    pending,    \* the save of the form, while its button spins
    orphaned    \* the default channel was removed

settings == <<saved, sheet, page, form, entered, saves, pending, orphaned>>

-----------------------------------------------------------------------------
(* Fields and forms *)

FieldsOf ==
    [general |-> {"timezone", "ui_language"},
     aliexpress |-> {"aliexpress_target_currency", "aliexpress_ship_to_country", "aliexpress_target_language"},
     ai |-> {"default_ai_provider", "default_content_type", "default_tone", "default_content_language",
             "default_content_length"},
     telegram |-> {"default_telegram_channel_id"},
     discovery |-> {"discovery_default_mode", "discovery_page_size"},
     scheduling |-> {"timezone"}]

Sections == DOMAIN FieldsOf
Fields == UNION {FieldsOf[s] : s \in Sections}
Channel == "default_telegram_channel_id"

Language == "aliexpress_target_language"

\* Of every field the default, another value, and one that the form cannot send: a timezone that
\* its list lacks, or AliExpress codes in lower case
Words == {"default", "chosen", "foreign"}

\* A language that is not of letters is in forms and requests only
Texts == Words \cup {"invalid"}

\* A channel is known by its row: one that was removed and registered again is another
References == Channels \X Nat
Exists(ref) == row[ref[1]].there /\ row[ref[1]].id = ref[2]

\* The columns of the row, and their values
Fits(f, v) == IF f = Channel THEN v \in References \cup {None} ELSE v \in Words
IsSettingsRow(r) == r = [f \in Fields |-> r[f]] /\ \A f \in Fields : Fits(f, r[f])
ASSUME NoneIsNoForm == \A D \in SUBSET Fields : None \notin [D -> Texts \cup References \cup {None}]

\* WorkspaceSettingsRead of a workspace without a row
Defaults == [f \in Fields |-> IF f = Channel THEN None ELSE "default"]
ReadOf(s) == [fields |-> IF s.row = None THEN Defaults ELSE s.row, rev |-> s.rev]
Blank == [fields |-> Defaults, rev |-> 0]

\* What the form of a section shows: coerceTimezone
GeneralShown(v) == [f \in FieldsOf.general |-> IF f = "timezone" /\ v[f] = "foreign" THEN "default" ELSE v[f]]
SchedulingShown(v) == [f \in FieldsOf.scheduling |-> IF v[f] = "foreign" THEN "default" ELSE v[f]]
AliExpressShown(v) == [f \in FieldsOf.aliexpress |-> v[f]]
AiShown(v) == [f \in FieldsOf.ai |-> v[f]]
TelegramShown(v) == [f \in FieldsOf.telegram |-> v[f]]
DiscoveryShown(v) == [f \in FieldsOf.discovery |-> v[f]]

ShownBy(s, v) ==
    CASE s = "general" -> GeneralShown(v)
      [] s = "aliexpress" -> AliExpressShown(v)
      [] s = "ai" -> AiShown(v)
      [] s = "telegram" -> TelegramShown(v)
      [] s = "discovery" -> DiscoveryShown(v)
      [] s = "scheduling" -> SchedulingShown(v)

\* What its submit sends: all fields, AliExpress codes in upper case
SentBy(s, v) ==
    [f \in DOMAIN v |-> IF s = "aliexpress" /\ v[f] = "foreign" THEN "chosen" ELSE v[f]]

\* What the user can enter and submit: the forms' schemas refuse the rest.  That of AliExpress
\* has the language by its length only.
Enterable(f) ==
    CASE f = Channel -> {None} \cup {<<c, books[ListOf(c)].seen[c].id>> : c \in {d \in Channels : Listed(d)}}
      [] f = Language -> Texts
      [] f \in FieldsOf.aliexpress \ {Language} -> Words
      [] OTHER -> {"default", "chosen"}

\* WorkspaceSettingsPatch: language_upper
Accepted(sent) == Language \in DOMAIN sent => sent[Language] # "invalid"

-----------------------------------------------------------------------------
(* The form *)

HasForm(b, p) == p \in Sections /\ b.known /\ b.st # "error"

\* Filled when it mounts only
FormOnce(b, p) ==
    CASE ~HasForm(b, p) -> None
      [] HasForm(b, p) /\ HasForm(sheet, page) /\ p = page -> form
      [] OTHER -> ShownBy(p, b.seen.fields)

\* The effect on the data, and what is mounted with them; the data keep their identity when
\* an answer is equal to them (structural sharing)
FormAfter(b, p) ==
    CASE ~HasForm(b, p) -> None
      [] HasForm(b, p) /\ HasForm(sheet, page) /\ p = page /\ b.seen = sheet.seen -> form
      [] OTHER -> ShownBy(p, b.seen.fields)

Refill ==
    /\ form' = FormAfter(sheet', page)
    /\ entered' = IF form' = None \/ sheet'.seen # sheet.seen THEN {} ELSE entered

\* A form that is gone takes its spinning button with it
Unspun == IF form' = None THEN None ELSE pending

Saving == pending # None

EnterField(f, v) ==
    /\ form # None /\ owner /\ f \in DOMAIN form /\ v # form[f]
    /\ Use("edits")
    /\ form' = [form EXCEPT ![f] = v] /\ entered' = entered \cup {f}
    /\ UNCHANGED <<saved, sheet, page, saves, pending, orphaned>>

NoSave == [st |-> "none", sent |-> [f \in {} |-> None], saw |-> None, answer |-> Blank, late |-> FALSE,
           mine |-> FALSE, overtaken |-> FALSE, of |-> 0, entered |-> {}]

FreeSave(i) == saves[i] = NoSave /\ \A j \in Saves : saves[j] = NoSave => i <= j

SubmitForm ==
    /\ form # None /\ owner /\ ~Saving /\ Use("saves")
    /\ \E i \in Saves :
        /\ FreeSave(i)
        /\ saves' = [saves EXCEPT ![i] = [NoSave EXCEPT !.st = "sent", !.sent = SentBy(page, form), !.mine = TRUE,
                                                       !.of = sheet.seen.rev, !.entered = entered]]
        /\ pending' = i
    /\ UNCHANGED <<saved, sheet, page, form, entered, orphaned>>

\* Another client sends a field, which may be a timezone that the forms do not offer (what the
\* schema refuses changes nothing)
Patchable(f) ==
    IF f = Channel THEN {None} \cup {<<c, row[c].id>> : c \in Channels}
    ELSE {"default", "chosen"} \cup (IF f = "timezone" THEN {"foreign"} ELSE {})

PatchElsewhere(f, v) ==
    /\ Use("patches")
    /\ \E i \in Saves :
        /\ FreeSave(i)
        /\ saves' = [saves EXCEPT ![i] = [NoSave EXCEPT !.st = "sent", !.sent = [g \in {f} |-> v]]]
    /\ UNCHANGED <<saved, sheet, page, form, entered, pending, orphaned>>

-----------------------------------------------------------------------------
(* The server *)

\* The request is validated before the service sees it: 422, with the fields it is about
RejectSettings(i) ==
    /\ saves[i].st = "sent" /\ ~Accepted(saves[i].sent)
    /\ saves' = [saves EXCEPT ![i].st = "refused"]
    /\ UNCHANGED <<saved, sheet, page, form, entered, pending, orphaned, allowance>>

\* WorkspaceSettingsService.patch: the channel is looked for, if one is sent
FindChannel(i) ==
    /\ saves[i].st = "sent" /\ Accepted(saves[i].sent)
    /\ LET p == saves[i]
           lost == Channel \in DOMAIN p.sent /\ p.sent[Channel] # None /\ ~Exists(p.sent[Channel])
       IN saves' = [saves EXCEPT ![i].st = IF lost THEN "refused" ELSE "found"]
    /\ UNCHANGED <<saved, sheet, page, form, entered, pending, orphaned, allowance>>

\* Then the row is read
LoadSettings(i) ==
    /\ saves[i].st = "found"
    /\ saves' = [saves EXCEPT ![i].st = "loaded", ![i].saw = saved.row]
    /\ UNCHANGED <<saved, sheet, page, form, entered, pending, orphaned, allowance>>

\* The columns sent by the request over the others of base
Over(base, sent) == [f \in Fields |-> IF f \in DOMAIN sent THEN sent[f] ELSE base[f]]

\* The insert of the first save, of the preferences only
NewRowOfPreferences(p) == [Over(Defaults, p.sent) EXCEPT ![Channel] = None]

\* The insert of the first save (_create_with_defaults)
NewRow(p) == Over(Defaults, p.sent)

\* The update of the columns that differ from the loaded ones
ChangedRow(now, p) ==
    [f \in Fields |-> IF f \in DOMAIN p.sent /\ p.sent[f] # p.saw[f] THEN p.sent[f] ELSE now[f]]

RowAfter(now, p) == IF p.saw = None THEN NewRow(p) ELSE ChangedRow(now, p)

\* unique workspace_id, and the foreign key to a channel that was removed meanwhile
Violates(now, p) ==
    \/ p.saw = None /\ now # None
    \/ LET c == RowAfter(now, p)[Channel] IN c # None /\ ~Exists(c)

\* Other saves hear of it: those loaded are overtaken, those answered are late
Heard(i, st, answer) ==
    [j \in Saves |->
        IF j = i THEN [saves[i] EXCEPT !.st = st, !.answer = answer]
        ELSE [saves[j] EXCEPT !.overtaken = @ \/ saves[j].st = "loaded", !.late = @ \/ saves[j].st = "ok"]]

RefuseSettings(i) ==
    /\ saves[i].st = "loaded" /\ Violates(saved.row, saves[i])
    /\ saves' = [saves EXCEPT ![i].st = "refused"]
    /\ UNCHANGED <<saved, sheet, page, form, entered, pending, orphaned, allowance>>

CommitSettings(i) ==
    /\ saves[i].st = "loaded" /\ ~Violates(saved.row, saves[i])
    /\ LET p == saves[i]
           new == RowAfter(saved.row, p)
           writes == p.saw = None \/ \E f \in DOMAIN p.sent : p.sent[f] # p.saw[f]
       IN /\ saved' = [row |-> new, rev |-> IF writes THEN saved.rev + 1 ELSE saved.rev]
          /\ \E answer \in {"ok", "error"} :
               /\ IF answer = "error" THEN p.mine /\ Use("failures") ELSE UNCHANGED allowance
               /\ saves' = Heard(i, answer, ReadOf(saved'))
               /\ sheet' = CASE ~writes -> sheet
                             [] writes /\ p.mine /\ answer = "ok" -> ChangedHere(sheet)
                             [] OTHER -> ChangedUntold(sheet)
    /\ UNCHANGED <<page, form, entered, pending, orphaned>>

\* onSuccess of usePatchWorkspaceSettings
Recorded(i) ==
    IF saves[i].mine /\ saves[i].st = "ok" THEN Stored(sheet, saves[i].answer, saves[i].late) ELSE sheet

\* isPending after the answer
SpinAfter(i) == IF pending = i THEN None ELSE Unspun

SettingsSaved(i) ==
    /\ saves[i].st \in {"ok", "error", "refused"}
    /\ saves' = [saves EXCEPT ![i] = NoSave]
    /\ sheet' = Recorded(i)
    /\ Refill
    /\ pending' = SpinAfter(i)
    /\ UNCHANGED <<saved, page, orphaned, allowance>>

ReadSettings ==
    /\ sheet.call = "sent" /\ sheet' = Served(sheet, ReadOf(saved))
    /\ UNCHANGED <<saved, page, form, entered, saves, pending, orphaned, allowance>>

SettingsArrive ==
    /\ sheet.call = "read"
    /\ \/ sheet' = Arrived(sheet, Blank) /\ UNCHANGED allowance
       \/ sheet' = Failed(sheet, Blank) /\ Use("failures")
    /\ Refill /\ pending' = Unspun
    /\ UNCHANGED <<saved, page, saves, orphaned>>

\* The retry of the error that replaces the form
RefetchSettings ==
    /\ page \in Sections /\ sheet.st = "error" /\ sheet.call = "none"
    /\ sheet' = Asked(sheet)
    /\ UNCHANGED <<saved, page, form, entered, saves, pending, orphaned, allowance>>

\* ON DELETE SET NULL, when a channel is removed
ChannelGone(c) ==
    IF saved.row # None /\ saved.row[Channel] # None /\ saved.row[Channel][1] = c THEN [saved EXCEPT !.row[Channel] = None] ELSE saved

UseSettings ==
    \/ \E f \in Fields : \E v \in Enterable(f) : EnterField(f, v)
    \/ SubmitForm \/ RefetchSettings
================================================================================
