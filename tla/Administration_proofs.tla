-------------------------- MODULE Administration_proofs --------------------------
(***************************************************************************)
(* Administration satisfies its properties for every set of channels, pages, tokens, *)
(* requests and saves, and from every start.                                         *)
(***************************************************************************)
EXTENDS Administration, TLAPS

-----------------------------------------------------------------------------
(* The shape of the state *)

Kinds == {"create", "check", "toggle", "replace", "remove"}

Requests ==
    [kind : Kinds \cup {"none"}, of : Conns \cup {None}, id : Nat, to : Tokens \cup {None} \cup BOOLEAN,
     st : {"none", "sent", "asking", "told", "ok", "error"}, saw : Rows, word : {"none", "good", "bad"},
     mine : BOOLEAN, shown : BOOLEAN]

\* A request is of a connection, has the token it needs, and a page gets only tokens found good
FitRequest(c) ==
    c # NoCall =>
        /\ c.kind # "none" /\ c.st # "none" /\ c.of \in Conns
        /\ c.kind = "replace" => c.of \in Pages
        /\ c.kind \in {"create", "replace"} => c.to \in Tokens \cup {None}
        /\ c.kind = "toggle" => c.to \in BOOLEAN
        /\ c.st = "asking" => AsksOutside(c)
        /\ c.st = "told" /\ AsksOutside(c) => c.word \in {"good", "bad"}
        /\ c.st = "told" /\ c.kind \in {"create", "replace"} /\ c.of \in Pages => c.word = "good"

Entries(S) ==
    [st : {"none", "ok", "error"}, known : BOOLEAN, seen : S, stale : BOOLEAN, untold : BOOLEAN,
     call : {"none", "sent", "read"}, coming : S, met : BOOLEAN]

\* The rows of a list, as the browser has them
Listings(l) == UNION {[D -> Rows] : D \in SUBSET {c \in Conns : ListOf(c) = l}}

\* Settings as they are read
SettingsRows == {r \in [Fields -> Words \cup References \cup {None}] : \A f \in Fields : Fits(f, r[f])}
Sheets == [fields : SettingsRows, rev : Nat]

SaveRecords ==
    [st : {"none", "sent", "found", "loaded", "ok", "error", "refused"},
     sent : UNION {[D -> Texts \cup References \cup {None}] : D \in SUBSET Fields},
     saw : SettingsRows \cup {None}, answer : Sheets, late : BOOLEAN, mine : BOOLEAN, overtaken : BOOLEAN,
     of : Nat, entered : SUBSET Fields]

\* What is entered and sent may be a language that no row has
FitsForm(f, v) == Fits(f, v) \/ (f = Language /\ v = "invalid")

FitSave(p) == p \in SaveRecords /\ \A f \in DOMAIN p.sent : f \in Fields /\ FitsForm(f, p.sent[f])

-----------------------------------------------------------------------------
(* References to channels *)

IsThere(v, r) == r[v[1]].there /\ r[v[1]].id = v[2]

\* A reference that the browser has is of a row that was there, and is there unless one was removed
Known(v, r, o) == v # None => v[2] <= r[v[1]].id /\ (o \/ IsThere(v, r))

\* Settings that the browser has are those that were written as often, but for a channel that was removed
Agrees(x, s, r, o) ==
    /\ x \in Sheets /\ x.rev <= s.rev /\ Known(x.fields[Channel], r, o)
    /\ x.rev = s.rev => \A f \in Fields :
         x.fields[f] = ReadOf(s).fields[f] \/ (f = Channel /\ x.fields[f] # None /\ ~IsThere(x.fields[f], r))

-----------------------------------------------------------------------------
(* Lists *)

RowsIn(l, r) == [c \in {d \in Conns : ListOf(d) = l /\ r[d].there} |-> [r[c] EXCEPT !.token = None]]

KnownRows(x, r, o) == \A c \in Channels : c \in DOMAIN x => Known(<<c, x[c].id>>, r, o)

\* A list as it is cached, and the one under way
ListFits(l, b, r, o) ==
    /\ b \in Entries(Listings(l)) /\ KnownRows(b.seen, r, o) /\ KnownRows(b.coming, r, o)
    /\ b.call = "read" /\ ~b.met => b.coming = RowsIn(l, r)

\* What ListsAreCurrent says of one list
Unheard(l) == \E i \in Calls : calls[i].mine /\ calls[i].st = "ok" /\ ListOf(calls[i].of) = l
ListIsCurrent(l, b, r) == b.st = "ok" /\ ~b.stale /\ ~b.untold => b.seen = RowsIn(l, r)

ConnectionTypes ==
    /\ row \in [Conns -> Rows] /\ sound \subseteq Channels \cup Tokens
    /\ books = [l \in Lists |-> books[l]]
    /\ typed \in [Pages -> Tokens \cup {None}]
    /\ calls \in [Calls -> Requests] /\ \A i \in Calls : FitRequest(calls[i])
    /\ latest \in [Hooks -> Calls \cup {None}]
    /\ meant \in [Pages -> Tokens \cup {None}] /\ crossed \in [Pages -> BOOLEAN]

\* The last call of a mutation of the page
ButtonsOfCalls ==
    \A h \in Hooks : latest[h] # None =>
        LET c == calls[latest[h]] IN page = "channels" /\ c.mine /\ c.shown /\ Hook(c.kind, c.of) = h

ListsInv == \A l \in Lists : ListFits(l, books[l], row, orphaned) /\ (Unheard(l) \/ ListIsCurrent(l, books[l], row))

ConnectionIInv == ConnectionTypes /\ ButtonsOfCalls /\ ListsInv /\ VerdictIsOfToken

-----------------------------------------------------------------------------
(* Saves and forms *)

\* What a form sends differs from the row it was filled from in the fields that were entered
SendsEdits(p, s, r) ==
    p.of = s.rev => \A f \in DOMAIN p.sent \ p.entered :
        \/ p.sent[f] = ReadOf(s).fields[f]
        \/ f # Channel /\ ReadOf(s).fields[f] = "foreign"
        \/ f = Channel /\ p.sent[f] # None /\ ~IsThere(p.sent[f], r)

SentFits(p, s, r, o) ==
    p.mine =>
        /\ p.of <= s.rev
        /\ Channel \in DOMAIN p.sent => Known(p.sent[Channel], r, o)
        /\ p.st \in {"sent", "found", "loaded"} => SendsEdits(p, s, r)
        /\ ~Accepted(p.sent) => Language \in p.entered

\* A save that was not overtaken loaded the row that there is, and a row stays once there is one; the
\* service sees only what the schema accepts
LoadedFits(p, s) ==
    /\ p.st \in {"found", "loaded"} => Accepted(p.sent)
    /\ p.st = "loaded" /\ ~p.overtaken => p.saw = s.row
    /\ p.st = "loaded" /\ p.saw # None => s.row # None

AnswerFits(p, s, r, o) ==
    /\ Agrees(p.answer, s, r, o)
    /\ p.st = "ok" /\ ~p.late => p.answer = ReadOf(s)
    /\ p.st = "ok" /\ ~p.overtaken => \A f \in DOMAIN p.sent : p.answer.fields[f] = p.sent[f]
    /\ p.mine /\ p.st = "refused" => p.overtaken \/ o \/ (Language \in p.entered /\ ~Accepted(p.sent))

SaveFits(p, s, r, o) == FitSave(p) /\ SentFits(p, s, r, o) /\ LoadedFits(p, s) /\ AnswerFits(p, s, r, o)

\* The row of the settings, and its default channel
SavedFits(s, r) ==
    /\ s = [row |-> s.row, rev |-> s.rev] /\ s.rev \in Nat
    /\ s.row # None => s.rev > 0 /\ IsSettingsRow(s.row) /\ (s.row[Channel] # None => IsThere(s.row[Channel], r))

\* The cached settings, and those under way
SheetFits(b, s, r, o) ==
    /\ b \in Entries(Sheets) /\ Agrees(b.seen, s, r, o) /\ Agrees(b.coming, s, r, o)
    /\ b.call = "read" /\ ~b.met => b.coming = ReadOf(s)

\* The fields that were not entered are what the section shows of the cached settings
FormFits(b, p, v, edits, r, o) ==
    /\ ~HasForm(b, p) => v = None
    /\ v = None => edits = {}
    /\ v # None =>
         /\ v \in [FieldsOf[p] -> Texts \cup References \cup {None}] /\ edits \subseteq FieldsOf[p]
         /\ \A f \in FieldsOf[p] : FitsForm(f, v[f]) /\ (f \notin edits => v[f] = ShownBy(p, b.seen.fields)[f])
         /\ Channel \in FieldsOf[p] => Known(v[Channel], r, o)

FormInv == FormFits(sheet, page, form, entered, row, orphaned)

PendingInv == pending \in Saves \cup {None} /\ (Saving => form # None /\ saves[pending].mine)

SettingsIInv ==
    /\ SavedFits(saved, row)
    /\ saves = [i \in Saves |-> saves[i]] /\ \A i \in Saves : SaveFits(saves[i], saved, row, orphaned)
    /\ SheetFits(sheet, saved, row, orphaned) /\ SheetIsCurrent
    /\ FormInv /\ PendingInv

AdminIInv == ConnectionIInv /\ SettingsIInv

-----------------------------------------------------------------------------
(* The query cache *)

\* The initial entry of every query.
LEMMA NoEntryFits ==
    ASSUME NEW S, NEW d \in S
    PROVE  NoEntry(d) \in Entries(S) /\ NoEntry(d).st = "none" /\ NoEntry(d).call = "none" /\ NoEntry(d).seen = d
           /\ NoEntry(d).coming = d /\ NoEntry(d).known = FALSE
BY DEF NoEntry, Entries

\* A request changes nothing that is known, and no request that the server has read.
LEMMA AskedKeeps ==
    ASSUME NEW S, NEW b \in Entries(S)
    PROVE  /\ Asked(b) \in Entries(S)
           /\ Asked(b).st = b.st /\ Asked(b).known = b.known /\ Asked(b).seen = b.seen /\ Asked(b).stale = b.stale
           /\ Asked(b).untold = b.untold /\ Asked(b).coming = b.coming /\ Asked(b).met = b.met
           /\ Asked(b).call = "read" => b.call = "read"
BY DEF Asked, Entries

LEMMA MountedKeeps ==
    ASSUME NEW S, NEW b \in Entries(S), NEW m \in Mounted(b)
    PROVE  /\ m \in Entries(S)
           /\ m.st = b.st /\ m.known = b.known /\ m.seen = b.seen /\ m.stale = b.stale
           /\ m.untold = b.untold /\ m.coming = b.coming /\ m.met = b.met
           /\ m.call = "read" => b.call = "read"
BY AskedKeeps DEF Mounted

\* An invalidation makes what is known stale, and may cancel a request.
LEMMA InvalidatedIs ==
    ASSUME NEW S, NEW b \in Entries(S), NEW used \in BOOLEAN, NEW d \in S
    PROVE  LET m == Invalidated(b, used, d) IN
           /\ m \in Entries(S)
           /\ m.st = b.st /\ m.known = b.known /\ m.seen = b.seen /\ m.untold = b.untold
           /\ m.st = "ok" => m.stale
           /\ m.coming \in {b.coming, d}
           /\ m.call = "read" => b.call = "read" /\ m.coming = b.coming /\ m.met = b.met
<1>1. CASE ~b.known /\ b.st = "none" /\ b.call = "none"
  BY <1>1 DEF Invalidated, Entries
<1>2. CASE used /\ b.known
  BY <1>2 DEF Invalidated, Entries
<1>3. CASE used /\ ~b.known /\ b.st = "error"
  <2> DEFINE x == [b EXCEPT !.stale = TRUE]
  <2>1. x \in Entries(S) /\ x.st = b.st /\ x.known = b.known /\ x.seen = b.seen /\ x.untold = b.untold /\ x.stale
        /\ x.coming = b.coming /\ x.call = b.call /\ x.met = b.met
    BY DEF Entries
  <2>2. Invalidated(b, used, d) = Asked(x)
    BY <1>3 DEF Invalidated
  <2> HIDE DEF x
  <2>3. /\ Asked(x) \in Entries(S) /\ Asked(x).st = x.st /\ Asked(x).known = x.known /\ Asked(x).seen = x.seen
        /\ Asked(x).stale = x.stale /\ Asked(x).untold = x.untold /\ Asked(x).coming = x.coming
        /\ Asked(x).met = x.met /\ (Asked(x).call = "read" => x.call = "read")
    BY <2>1, AskedKeeps
  <2> QED BY <2>1, <2>2, <2>3
<1>4. CASE ~(used /\ (b.known \/ b.st = "error")) /\ ~(~b.known /\ b.st = "none" /\ b.call = "none")
  BY <1>4 DEF Invalidated, Entries
<1> QED BY <1>1, <1>2, <1>3, <1>4

LEMMA StoredIs ==
    ASSUME NEW S, NEW b \in Entries(S), NEW d \in S, NEW late \in BOOLEAN
    PROVE  LET m == Stored(b, d, late) IN
           /\ m \in Entries(S)
           /\ m.st = "ok" /\ m.seen = d /\ m.untold = late
           /\ m.coming = b.coming /\ m.call = b.call /\ m.met = b.met
BY DEF Stored, Entries

LEMMA ServedIs ==
    ASSUME NEW S, NEW b \in Entries(S), NEW d \in S
    PROVE  LET m == Served(b, d) IN
           /\ m \in Entries(S)
           /\ m.st = b.st /\ m.known = b.known /\ m.seen = b.seen /\ m.stale = b.stale /\ m.untold = b.untold
           /\ m.call = "read" /\ m.coming = d
BY DEF Served, Entries

LEMMA ArrivedIs ==
    ASSUME NEW S, NEW b \in Entries(S), NEW d \in S
    PROVE  LET m == Arrived(b, d) IN
           m \in Entries(S) /\ m.st = "ok" /\ m.seen = b.coming /\ m.untold = b.met /\ m.coming = d /\ m.call = "none"
BY DEF Arrived, NoEntry, Entries

LEMMA FailedIs ==
    ASSUME NEW S, NEW b \in Entries(S), NEW d \in S
    PROVE  LET m == Failed(b, d) IN
           m \in Entries(S) /\ m.st = "error" /\ m.seen = b.seen /\ m.coming = d /\ m.call = "none"
BY DEF Failed, Entries

\* A change of the resource meets the request that has read it.
LEMMA ChangedHereIs ==
    ASSUME NEW S, NEW b \in Entries(S)
    PROVE  LET m == ChangedHere(b) IN
           /\ m \in Entries(S)
           /\ m.st = b.st /\ m.known = b.known /\ m.seen = b.seen /\ m.stale = b.stale /\ m.untold = b.untold
           /\ m.call = b.call /\ m.coming = b.coming /\ (m.call = "read" => m.met)
BY DEF ChangedHere, Entries

LEMMA ChangedUntoldIs ==
    ASSUME NEW S, NEW b \in Entries(S)
    PROVE  LET m == ChangedUntold(b) IN
           /\ m \in Entries(S)
           /\ m.st = b.st /\ m.known = b.known /\ m.seen = b.seen /\ m.stale = b.stale /\ m.untold
           /\ m.call = b.call /\ m.coming = b.coming /\ (m.call = "read" => m.met)
<1> DEFINE x == ChangedHere(b)
<1>1. /\ x \in Entries(S) /\ x.st = b.st /\ x.known = b.known /\ x.seen = b.seen /\ x.stale = b.stale
      /\ x.call = b.call /\ x.coming = b.coming /\ (x.call = "read" => x.met)
  BY ChangedHereIs
<1>2. ChangedUntold(b) = [x EXCEPT !.untold = TRUE]
  BY DEF ChangedUntold
<1> HIDE DEF x
<1>3. LET m == [x EXCEPT !.untold = TRUE] IN
        /\ m \in Entries(S) /\ m.st = x.st /\ m.known = x.known /\ m.seen = x.seen /\ m.stale = x.stale /\ m.untold
        /\ m.call = x.call /\ m.coming = x.coming /\ m.met = x.met
  BY <1>1 DEF Entries
<1> QED BY <1>1, <1>2, <1>3

-----------------------------------------------------------------------------
(* Sections, fields and settings *)

LEMMA SectionFacts ==
    /\ Sections = {"general", "aliexpress", "ai", "telegram", "discovery", "scheduling"}
    /\ FieldsOf["general"] = {"timezone", "ui_language"} /\ FieldsOf["scheduling"] = {"timezone"}
    /\ FieldsOf["telegram"] = {Channel} /\ Channel \notin FieldsOf["aliexpress"]
    /\ Channel # "timezone" /\ Channel # Language /\ Language # "timezone" /\ Words \subseteq Texts
    /\ \A s \in Sections : FieldsOf[s] \subseteq Fields
    /\ "timezone" \notin FieldsOf["aliexpress"] \cup FieldsOf["ai"] \cup FieldsOf["telegram"] \cup FieldsOf["discovery"]
    /\ Channel \in Fields
<1>1. Sections = {"general", "aliexpress", "ai", "telegram", "discovery", "scheduling"}
  BY DEF Sections, FieldsOf
<1>2. \A s \in Sections : FieldsOf[s] \subseteq Fields
  BY DEF Fields
<1>3. FieldsOf["telegram"] = {Channel}
  BY DEF FieldsOf, Channel
<1>4. Channel \in Fields
  BY <1>1, <1>2, <1>3
<1> QED BY <1>1, <1>2, <1>3, <1>4 DEF FieldsOf, Channel, Language, Texts

\* What a form shows of settings: the values, but for a timezone that its list lacks.
LEMMA ShownIs ==
    ASSUME NEW s \in Sections, NEW v
    PROVE  ShownBy(s, v) =
             [f \in FieldsOf[s] |-> IF f = "timezone" /\ v[f] = "foreign" THEN "default" ELSE v[f]]
<1> USE SectionFacts
<1>1. CASE s = "general"
  BY <1>1 DEF ShownBy, GeneralShown, FieldsOf
<1>2. CASE s = "scheduling"
  BY <1>2 DEF ShownBy, SchedulingShown, FieldsOf
<1>3. CASE s = "aliexpress"
  BY <1>3 DEF ShownBy, AliExpressShown, FieldsOf
<1>4. CASE s = "ai"
  BY <1>4 DEF ShownBy, AiShown, FieldsOf
<1>5. CASE s = "telegram"
  BY <1>5 DEF ShownBy, TelegramShown, FieldsOf
<1>6. CASE s = "discovery"
  BY <1>6 DEF ShownBy, DiscoveryShown, FieldsOf
<1> QED BY <1>1, <1>2, <1>3, <1>4, <1>5, <1>6

\* The two ways to say that a row has its columns.
LEMMA SettingsRowsAre ==
    /\ \A r : IsSettingsRow(r) <=> r \in SettingsRows
    /\ None \notin SettingsRows /\ Defaults \in SettingsRows
    /\ \A r \in SettingsRows : r # None
<1>1. ASSUME NEW r PROVE IsSettingsRow(r) <=> r \in SettingsRows
  BY DEF IsSettingsRow, SettingsRows, Fits
<1>2. None \notin SettingsRows
  <2> SUFFICES ASSUME None \in SettingsRows PROVE FALSE
    OBVIOUS
  <2>1. None \in [Fields -> Texts \cup References \cup {None}]
    BY DEF SettingsRows, Texts
  <2> QED BY <2>1, NoneIsNoForm
<1>3. Defaults \in SettingsRows
  BY DEF Defaults, SettingsRows, Fits, Words
<1> QED BY <1>1, <1>2, <1>3

\* What is read of a workspace are settings.
LEMMA ReadOfIs ==
    ASSUME NEW s, s.rev \in Nat, s.row # None => s.row \in SettingsRows
    PROVE  ReadOf(s) \in Sheets /\ ReadOf(s).rev = s.rev
           /\ ReadOf(s).fields = IF s.row = None THEN Defaults ELSE s.row
BY SettingsRowsAre DEF ReadOf, Sheets

LEMMA BlankIs == Blank \in Sheets /\ Blank.rev = 0 /\ Blank.fields = Defaults
BY SettingsRowsAre DEF Blank, Sheets

-----------------------------------------------------------------------------
(* Rows and settings that change *)

\* How rows of channels change: one that is removed is not there again, its id is used up
RowsMove(r, q, o, n) ==
    /\ o => n
    /\ \A c \in Channels :
         /\ r[c].id <= q[c].id
         /\ r[c].there => n \/ (q[c].there /\ q[c].id = r[c].id)
         /\ q[c].there /\ q[c].id = r[c].id => r[c].there

\* How the settings change: a save writes them, or their channel is removed
SettingsMove(s, t, q) ==
    /\ s.row # None => t.row # None
    /\ \/ t = s
       \/ t.rev > s.rev
       \/ /\ t.rev = s.rev /\ s.row # None /\ s.row[Channel] # None /\ ~IsThere(s.row[Channel], q)
          /\ \A f \in Fields : t.row[f] = IF f = Channel THEN None ELSE s.row[f]

\* What a save becomes when the settings change under it
Passed(p) == [p EXCEPT !.overtaken = @ \/ p.st = "loaded", !.late = @ \/ p.st = "ok"]

LEMMA RowsStay ==
    ASSUME NEW r \in [Conns -> Rows], NEW o
    PROVE  RowsMove(r, r, o, o)
BY DEF RowsMove, Rows, Conns

\* What is known of a channel stays true, and one that is gone stays gone.
LEMMA KnownStays ==
    ASSUME NEW r \in [Conns -> Rows], NEW q \in [Conns -> Rows], NEW o, NEW n, RowsMove(r, q, o, n),
           NEW v \in References \cup {None}
    PROVE  /\ Known(v, r, o) => Known(v, q, n)
           /\ v # None /\ Known(v, r, o) /\ ~IsThere(v, r) => ~IsThere(v, q)
<1> SUFFICES ASSUME v # None, Known(v, r, o)
             PROVE  Known(v, q, n) /\ (~IsThere(v, r) => ~IsThere(v, q))
  BY DEF Known
<1>1. PICK c \in Channels, k \in Nat : v = <<c, k>>
  BY DEF References
<1>2. r[c] \in Rows /\ q[c] \in Rows
  BY DEF Conns
<1>3. r[c].id \in Nat /\ q[c].id \in Nat
  BY <1>2 DEF Rows
<1>4. v[1] = c /\ v[2] = k
  BY <1>1
<1>5. k <= r[c].id /\ (o \/ (r[c].there /\ r[c].id = k))
  BY <1>4 DEF Known, IsThere
<1>6. k <= q[c].id /\ (n \/ (q[c].there /\ q[c].id = k))
  BY <1>3, <1>5 DEF RowsMove
<1>7. ASSUME ~(r[c].there /\ r[c].id = k) PROVE ~(q[c].there /\ q[c].id = k)
  BY <1>3, <1>5, <1>7 DEF RowsMove
<1> QED BY <1>4, <1>6, <1>7 DEF Known, IsThere

\* Settings that the browser has go on agreeing with those written.
LEMMA AgreesStays ==
    ASSUME NEW r \in [Conns -> Rows], NEW q \in [Conns -> Rows], NEW o, NEW n, RowsMove(r, q, o, n),
           NEW s, NEW t, SavedFits(s, r), SavedFits(t, q), SettingsMove(s, t, q),
           NEW x, Agrees(x, s, r, o)
    PROVE  Agrees(x, t, q, n)
<1>1. x \in Sheets /\ x.rev \in Nat /\ x.fields \in SettingsRows /\ x.fields[Channel] \in References \cup {None}
  BY SectionFacts DEF Agrees, Sheets, SettingsRows, Fits
<1>2. s.rev \in Nat /\ t.rev \in Nat /\ (s.row # None => s.row \in SettingsRows) /\ (t.row # None => t.row \in SettingsRows)
  BY SettingsRowsAre DEF SavedFits
<1>3. s.rev <= t.rev
  BY <1>2 DEF SettingsMove
<1>4. x.rev <= t.rev /\ Known(x.fields[Channel], q, n)
  BY <1>1, <1>2, <1>3, KnownStays DEF Agrees
<1>5. ASSUME x.rev = t.rev, NEW f \in Fields
      PROVE  x.fields[f] = ReadOf(t).fields[f] \/ (f = Channel /\ x.fields[f] # None /\ ~IsThere(x.fields[f], q))
  <2>1. x.rev = s.rev /\ t.rev = s.rev
    BY <1>1, <1>2, <1>3, <1>5 DEF Agrees
  <2>2. x.fields[f] = ReadOf(s).fields[f] \/ (f = Channel /\ x.fields[f] # None /\ ~IsThere(x.fields[f], r))
    BY <2>1 DEF Agrees
  <2>3. CASE f = Channel /\ x.fields[f] # None /\ ~IsThere(x.fields[f], r)
    BY <2>3, <1>1, KnownStays DEF Agrees
  <2>4. CASE x.fields[f] = ReadOf(s).fields[f] /\ t = s
    BY <2>4
  <2>5. CASE /\ x.fields[f] = ReadOf(s).fields[f] /\ s.row # None /\ s.row[Channel] # None /\ ~IsThere(s.row[Channel], q)
             /\ \A g \in Fields : t.row[g] = IF g = Channel THEN None ELSE s.row[g]
    <3>1. t.row # None
      BY <2>5 DEF SettingsMove
    <3>2. ReadOf(s).fields[f] = s.row[f] /\ ReadOf(t).fields[f] = t.row[f]
      BY <2>5, <3>1, <1>2, ReadOfIs
    <3> QED BY <3>2, <2>5
  <2> QED BY <2>1, <2>2, <2>3, <2>4, <2>5, <1>2 DEF SettingsMove
<1> QED BY <1>1, <1>4, <1>5 DEF Agrees

LEMMA PassedIs ==
    ASSUME NEW p, FitSave(p)
    PROVE  /\ FitSave(Passed(p))
           /\ Passed(p).st = p.st /\ Passed(p).sent = p.sent /\ Passed(p).saw = p.saw /\ Passed(p).answer = p.answer
           /\ Passed(p).mine = p.mine /\ Passed(p).of = p.of /\ Passed(p).entered = p.entered
           /\ Passed(p).late = (p.late \/ p.st = "ok") /\ Passed(p).overtaken = (p.overtaken \/ p.st = "loaded")
BY DEF Passed, FitSave, SaveRecords

\* What the save of a form sends differs from the row in what was entered, also when the row changes.
LEMMA SentStays ==
    ASSUME NEW r \in [Conns -> Rows], NEW q \in [Conns -> Rows], NEW o, NEW n, RowsMove(r, q, o, n),
           NEW s, NEW t, SavedFits(s, r), SavedFits(t, q), SettingsMove(s, t, q),
           NEW p, FitSave(p), SentFits(p, s, r, o)
    PROVE  SentFits(p, t, q, n)
<1> SUFFICES ASSUME p.mine PROVE SentFits(p, t, q, n)
  BY DEF SentFits
<1>1. p.of \in Nat /\ p.of <= s.rev /\ (Channel \in DOMAIN p.sent => Known(p.sent[Channel], r, o))
      /\ (Channel \in DOMAIN p.sent => p.sent[Channel] \in References \cup {None})
  BY SectionFacts DEF SentFits, FitSave, SaveRecords, FitsForm, Fits
<1>2. s.rev \in Nat /\ t.rev \in Nat /\ (s.row # None => s.row \in SettingsRows) /\ (t.row # None => t.row \in SettingsRows)
  BY SettingsRowsAre DEF SavedFits
<1>3. s.rev <= t.rev
  BY <1>2 DEF SettingsMove
<1>4. Channel \in DOMAIN p.sent => Known(p.sent[Channel], q, n)
  BY <1>1, KnownStays
<1>5. ASSUME p.st \in {"sent", "found", "loaded"}, p.of = t.rev, NEW f \in DOMAIN p.sent \ p.entered
      PROVE  \/ p.sent[f] = ReadOf(t).fields[f]
             \/ f # Channel /\ ReadOf(t).fields[f] = "foreign"
             \/ f = Channel /\ p.sent[f] # None /\ ~IsThere(p.sent[f], q)
  <2>1. p.of = s.rev /\ t.rev = s.rev /\ f \in Fields
    BY <1>1, <1>2, <1>3, <1>5 DEF FitSave
  <2>2. \/ p.sent[f] = ReadOf(s).fields[f]
        \/ f # Channel /\ ReadOf(s).fields[f] = "foreign"
        \/ f = Channel /\ p.sent[f] # None /\ ~IsThere(p.sent[f], r)
    BY <2>1, <1>5 DEF SentFits, SendsEdits
  <2>3. CASE f = Channel /\ p.sent[f] # None /\ ~IsThere(p.sent[f], r)
    BY <2>3, <1>1, <1>5, KnownStays
  <2>4. CASE t = s
    BY <2>4, <2>2, <2>3
  <2>5. CASE /\ s.row # None /\ s.row[Channel] # None /\ ~IsThere(s.row[Channel], q)
             /\ \A g \in Fields : t.row[g] = IF g = Channel THEN None ELSE s.row[g]
    <3>1. t.row # None
      BY <2>5 DEF SettingsMove
    <3>2. ReadOf(s).fields[f] = s.row[f] /\ ReadOf(t).fields[f] = t.row[f]
      BY <2>5, <3>1, <1>2, ReadOfIs
    <3> QED BY <3>2, <2>5, <2>2, <2>3, <2>1
  <2> QED BY <2>1, <2>4, <2>5, <1>2 DEF SettingsMove
<1> QED BY <1>1, <1>2, <1>3, <1>4, <1>5 DEF SentFits, SendsEdits

\* A save fits the settings that change, when it hears of it.
LEMMA SavePasses ==
    ASSUME NEW r \in [Conns -> Rows], NEW q \in [Conns -> Rows], NEW o, NEW n, RowsMove(r, q, o, n),
           NEW s, NEW t, SavedFits(s, r), SavedFits(t, q), SettingsMove(s, t, q),
           NEW p, SaveFits(p, s, r, o)
    PROVE  SaveFits(Passed(p), t, q, n) /\ (t = s => SaveFits(p, t, q, n))
<1>1. FitSave(p) /\ FitSave(Passed(p))
  BY PassedIs DEF SaveFits
<1>2. SentFits(p, t, q, n)
  BY <1>1, SentStays DEF SaveFits
<1>3. Agrees(p.answer, t, q, n)
  BY AgreesStays DEF SaveFits, AnswerFits
<1>4. SentFits(Passed(p), t, q, n)
  BY <1>1, <1>2, PassedIs DEF SentFits, SendsEdits
<1> DEFINE e == Passed(p)
<1>p. /\ e.st = p.st /\ e.sent = p.sent /\ e.saw = p.saw /\ e.answer = p.answer /\ e.mine = p.mine
      /\ e.entered = p.entered /\ e.late = (p.late \/ p.st = "ok") /\ e.overtaken = (p.overtaken \/ p.st = "loaded")
  BY <1>1, PassedIs
<1> HIDE DEF e
<1>5. LoadedFits(e, t)
  <2>1. LoadedFits(p, s)
    BY DEF SaveFits
  <2> QED BY <1>p, <2>1 DEF LoadedFits, SettingsMove
<1>6. AnswerFits(e, t, q, n)
  <2>1. AnswerFits(p, s, r, o)
    BY DEF SaveFits
  <2> QED BY <1>p, <1>3, <2>1 DEF AnswerFits, RowsMove
<1>7. t = s => LoadedFits(p, t) /\ AnswerFits(p, t, q, n)
  BY <1>3 DEF SaveFits, AnswerFits, LoadedFits, RowsMove
<1> QED BY <1>1, <1>2, <1>4, <1>5, <1>6, <1>7 DEF SaveFits, e

-----------------------------------------------------------------------------
(* Steps of the connections that leave the rows alone *)

LEMMA ConnectionFacts ==
    /\ \A c : ListOf(c) \in Lists
    /\ \A kind \in Kinds : \A c : Hook(kind, c) \in Hooks
    /\ NoRow \in Rows /\ NoCall \in Requests /\ NoCall.kind = "none" /\ NoCall.st = "none" /\ ~NoCall.mine
    /\ Channels \subseteq Conns /\ Pages \subseteq Conns /\ Channels \cap Pages = {} /\ Conns = Channels \cup Pages
    /\ None \notin Calls /\ None \notin Conns /\ None \notin Tokens
<1>1. \A c : ListOf(c) \in Lists
  BY DEF ListOf, Lists
<1>2. \A kind \in Kinds : \A c : Hook(kind, c) \in Hooks
  BY <1>1 DEF Hook, Hooks, Kinds
<1>3. NoRow \in Rows
  BY DEF NoRow, Rows
<1>4. NoCall \in Requests /\ NoCall.kind = "none" /\ NoCall.st = "none" /\ ~NoCall.mine
  BY <1>3 DEF NoCall, Requests
<1>5. /\ Channels \subseteq Conns /\ Pages \subseteq Conns /\ Channels \cap Pages = {} /\ Conns = Channels \cup Pages
      /\ None \notin Calls /\ None \notin Conns /\ None \notin Tokens
  BY ConnectionsAssumption DEF Conns, ConnectionsAssumption
<1> QED BY <1>1, <1>2, <1>3, <1>4, <1>5

LEMMA ConnectionFrame ==
    ASSUME ConnectionIInv, UNCHANGED <<connections, page, orphaned>>
    PROVE  ConnectionIInv'
<1>1. ConnectionTypes'
  BY DEF ConnectionIInv, ConnectionTypes, connections
<1>2. ButtonsOfCalls'
  BY DEF ConnectionIInv, ButtonsOfCalls, connections
<1>3. ListsInv'
  BY DEF ConnectionIInv, ListsInv, Unheard, connections
<1>4. VerdictIsOfToken'
  BY DEF ConnectionIInv, VerdictIsOfToken, connections
<1> QED BY <1>1, <1>2, <1>3, <1>4 DEF ConnectionIInv

LEMMA SettingsFrame ==
    ASSUME SettingsIInv, UNCHANGED <<settings, row>>
    PROVE  SettingsIInv'
<1>1. SheetIsCurrent'
  BY DEF SettingsIInv, SheetIsCurrent, settings
<1>2. FormInv' /\ PendingInv'
  BY DEF SettingsIInv, FormInv, PendingInv, HasForm, Saving, settings
<1> QED BY <1>1, <1>2 DEF SettingsIInv, settings

OfOthers(m) == [m EXCEPT !.mine = FALSE, !.shown = FALSE]

\* What a new request is.
LEMMA MineIs ==
    ASSUME NEW kind \in Kinds, NEW c \in Conns, NEW id \in Nat, NEW to \in Tokens \cup {None} \cup BOOLEAN,
           kind = "replace" => c \in Pages, kind \in {"create", "replace"} => to \in Tokens \cup {None},
           kind = "toggle" => to \in BOOLEAN
    PROVE  LET m == Mine(kind, c, id, to)
               e == OfOthers(m) IN
           /\ m \in Requests /\ FitRequest(m) /\ m.kind = kind /\ m.of = c /\ m.st = "sent" /\ m.mine /\ m.shown
           /\ e \in Requests /\ FitRequest(e) /\ e.kind = kind /\ e.of = c /\ e.st = "sent" /\ ~e.mine /\ ~e.shown
<1> DEFINE m == Mine(kind, c, id, to)
           e == OfOthers(m)
<1>1. m \in Requests /\ m.kind = kind /\ m.of = c /\ m.st = "sent" /\ m.mine /\ m.shown /\ m.to = to
  BY ConnectionFacts DEF Mine, NoCall, Requests
<1> HIDE DEF m
<1>2. e \in Requests /\ e.kind = kind /\ e.of = c /\ e.st = "sent" /\ ~e.mine /\ ~e.shown /\ e.to = to
  BY <1>1 DEF Requests, OfOthers
<1> HIDE DEF e
<1>3. FitRequest(m) /\ FitRequest(e)
  BY <1>1, <1>2 DEF FitRequest, Kinds
<1> QED BY <1>1, <1>2, <1>3 DEF m, e

\* A request of one's own from the page, or one of somebody else.
LEMMA SendKeeps ==
    ASSUME ConnectionIInv, NEW c \in Requests, FitRequest(c), c.kind \in Kinds, c.st = "sent",
           c.mine => page = "channels" /\ c.shown, Send(c), UNCHANGED <<page, orphaned>>
    PROVE  ConnectionIInv'
<1>1. PICK i \in Calls :
        /\ calls[i] = NoCall
        /\ calls' = [calls EXCEPT ![i] = c]
        /\ latest' = IF c.mine THEN [latest EXCEPT ![Hook(c.kind, c.of)] = i] ELSE latest
  BY DEF Send
<1>2. UNCHANGED <<row, sound, books, typed, meant, crossed>>
  BY DEF Send
<1> USE DEF ConnectionIInv
<1>3. ConnectionTypes'
  BY <1>1, <1>2, ConnectionFacts DEF ConnectionTypes
<1>4. calls'[i] = c /\ \A j \in Calls \ {i} : calls'[j] = calls[j]
  BY <1>1 DEF ConnectionTypes
<1>5. ButtonsOfCalls'
  <2> SUFFICES ASSUME NEW h \in Hooks, latest'[h] # None
               PROVE  LET d == calls'[latest'[h]] IN page' = "channels" /\ d.mine /\ d.shown /\ Hook(d.kind, d.of) = h
    BY DEF ButtonsOfCalls
  <2>1. CASE c.mine /\ h = Hook(c.kind, c.of)
    BY <2>1, <1>1, <1>4 DEF ConnectionTypes
  <2>2. CASE ~(c.mine /\ h = Hook(c.kind, c.of))
    <3>1. latest'[h] = latest[h]
      BY <2>2, <1>1 DEF ConnectionTypes
    <3>2. latest[h] \in Calls /\ calls[latest[h]].mine
      BY <3>1 DEF ButtonsOfCalls, ConnectionTypes
    <3>3. latest[h] # i
      BY <3>2, <1>1, ConnectionFacts
    <3> QED BY <3>1, <3>2, <3>3, <1>4 DEF ButtonsOfCalls
  <2> QED BY <2>1, <2>2
<1>6. ASSUME NEW l \in Lists PROVE Unheard(l) => Unheard(l)'
  <2> SUFFICES ASSUME NEW k \in Calls, calls[k].mine, calls[k].st = "ok", ListOf(calls[k].of) = l
               PROVE  Unheard(l)'
    BY DEF Unheard
  <2>1. k # i
    BY <1>1, ConnectionFacts
  <2> QED BY <2>1, <1>4 DEF Unheard
<1>7. ListsInv'
  BY <1>2, <1>6 DEF ListsInv
<1>8. VerdictIsOfToken'
  BY <1>2 DEF VerdictIsOfToken
<1> QED BY <1>3, <1>5, <1>7, <1>8

\* A request that goes on, without an answer to the browser yet.
LEMMA RequestGoesOn ==
    ASSUME ConnectionIInv, NEW i \in Calls, NEW c \in Requests, FitRequest(c), c # NoCall,
           calls[i] # NoCall, calls[i].st # "ok", c.kind = calls[i].kind, c.of = calls[i].of,
           c.mine = calls[i].mine, c.shown = calls[i].shown,
           Step(i, c), UNCHANGED <<row, books, meant, crossed, page, orphaned>>
    PROVE  ConnectionIInv'
<1> USE DEF ConnectionIInv
<1>1. UNCHANGED <<sound, typed, latest>> /\ calls' = [calls EXCEPT ![i] = c]
  BY DEF Step
<1>2. calls'[i] = c /\ \A j \in Calls \ {i} : calls'[j] = calls[j]
  BY <1>1 DEF ConnectionTypes
<1>3. ConnectionTypes'
  BY <1>1 DEF ConnectionTypes
<1>4. ButtonsOfCalls'
  <2> SUFFICES ASSUME NEW h \in Hooks, latest[h] # None
               PROVE  LET d == calls'[latest[h]] IN page' = "channels" /\ d.mine /\ d.shown /\ Hook(d.kind, d.of) = h
    BY <1>1 DEF ButtonsOfCalls
  <2>1. latest[h] \in Calls
    BY DEF ConnectionTypes
  <2>2. calls'[latest[h]].mine = calls[latest[h]].mine /\ calls'[latest[h]].shown = calls[latest[h]].shown
        /\ calls'[latest[h]].kind = calls[latest[h]].kind /\ calls'[latest[h]].of = calls[latest[h]].of
    BY <2>1, <1>2
  <2> QED BY <2>2 DEF ButtonsOfCalls
<1>5. ASSUME NEW l \in Lists PROVE Unheard(l) => Unheard(l)'
  BY <1>2 DEF Unheard
<1>6. ListsInv'
  BY <1>5 DEF ListsInv
<1>7. VerdictIsOfToken'
  BY DEF VerdictIsOfToken
<1> QED BY <1>3, <1>4, <1>6, <1>7

-----------------------------------------------------------------------------
(* The lists *)

LEMMA RowsInIs ==
    ASSUME NEW l \in Lists, NEW r \in [Conns -> Rows], NEW o
    PROVE  /\ RowsIn(l, r) \in Listings(l) /\ KnownRows(RowsIn(l, r), r, o)
           /\ Empty \in Listings(l) /\ KnownRows(Empty, r, o)
<1> DEFINE D == {d \in Conns : ListOf(d) = l /\ r[d].there}
           x == [c \in D |-> [r[c] EXCEPT !.token = None]]
<1>1. ASSUME NEW c \in D PROVE x[c] \in Rows /\ x[c].id = r[c].id /\ r[c].there
  <2>1. r[c] \in Rows
    OBVIOUS
  <2> QED BY <2>1 DEF Rows
<1>2. x \in [D -> Rows] /\ D \in SUBSET {c \in Conns : ListOf(c) = l}
  BY <1>1
<1>3. x \in Listings(l)
  BY <1>2 DEF Listings
<1>4. ASSUME NEW c \in Channels, c \in DOMAIN x PROVE Known(<<c, x[c].id>>, r, o)
  <2>1. c \in D /\ r[c] \in Rows
    BY <1>4
  <2> QED BY <2>1, <1>1 DEF Known, IsThere, Rows
<1>5. RowsIn(l, r) = x
  BY DEF RowsIn
<1>6. Empty \in [{} -> Rows] /\ DOMAIN Empty = {}
  BY DEF Empty
<1>7. Empty \in Listings(l)
  BY <1>6 DEF Listings
<1> QED BY <1>3, <1>4, <1>5, <1>6, <1>7 DEF KnownRows

LEMMA SeenIs ==
    ASSUME ConnectionIInv, NEW c \in Conns, Listed(c)
    PROVE  /\ books[ListOf(c)].seen[c] \in Rows
           /\ c \in Channels => Known(<<c, books[ListOf(c)].seen[c].id>>, row, orphaned)
<1> DEFINE b == books[ListOf(c)]
<1>1. ListFits(ListOf(c), b, row, orphaned)
  BY ConnectionFacts DEF ConnectionIInv, ListsInv
<1>2. c \in DOMAIN b.seen
  BY DEF Listed
<1>3. b.seen \in Listings(ListOf(c))
  BY <1>1 DEF ListFits, Entries
<1>4. PICK D \in SUBSET {d \in Conns : ListOf(d) = ListOf(c)} : b.seen \in [D -> Rows]
  BY <1>3 DEF Listings
<1> QED BY <1>1, <1>2, <1>4 DEF ListFits, KnownRows

\* A step of one list.
LEMMA ListStep ==
    ASSUME ConnectionIInv, NEW l \in Lists, NEW b,
           books' = [books EXCEPT ![l] = b], ListFits(l, b, row, orphaned),
           Unheard(l) \/ ListIsCurrent(l, b, row),
           UNCHANGED <<row, sound, typed, calls, latest, meant, crossed, page, orphaned>>
    PROVE  ConnectionIInv'
<1> USE DEF ConnectionIInv
<1>1. books'[l] = b /\ \A k \in Lists \ {l} : books'[k] = books[k]
  BY DEF ConnectionTypes
<1>2. ConnectionTypes'
  <2>1. books' = [k \in Lists |-> books'[k]]
    BY DEF ConnectionTypes
  <2> QED BY <2>1 DEF ConnectionTypes
<1>3. ListsInv'
  <2> SUFFICES ASSUME NEW k \in Lists
               PROVE  ListFits(k, books'[k], row, orphaned) /\ (Unheard(k) \/ ListIsCurrent(k, books'[k], row))
    BY DEF ListsInv, Unheard
  <2> QED BY <1>1 DEF ListsInv
<1>4. ButtonsOfCalls' /\ VerdictIsOfToken'
  BY DEF ButtonsOfCalls, VerdictIsOfToken
<1> QED BY <1>2, <1>3, <1>4

\* A list that keeps what is known, and whose request has not been read since, still fits.
LEMMA ListKept ==
    ASSUME NEW l \in Lists, NEW r, NEW o, NEW b, ListFits(l, b, r, o), NEW m \in Entries(Listings(l)),
           m.seen = b.seen, m.coming = b.coming, m.call = "read" => b.call = "read" /\ m.met = b.met
    PROVE  ListFits(l, m, r, o)
BY DEF ListFits

LEMMA QueriesOfLists ==
    ASSUME ConnectionIInv, UNCHANGED <<page, orphaned>>, NEW l \in Lists,
           RefetchConnections(l) \/ ReadConnections(l) \/ ConnectionsArrive(l)
    PROVE  ConnectionIInv'
<1>1. ListFits(l, books[l], row, orphaned) /\ (Unheard(l) \/ ListIsCurrent(l, books[l], row))
  BY DEF ConnectionIInv, ListsInv
<1>2. books[l] \in Entries(Listings(l))
  BY <1>1 DEF ListFits
<1>3. row \in [Conns -> Rows]
  BY DEF ConnectionIInv, ConnectionTypes
<1>4. CASE RefetchConnections(l)
  <2> DEFINE b == Asked(books[l])
  <2>1. /\ b \in Entries(Listings(l)) /\ b.st = books[l].st /\ b.seen = books[l].seen /\ b.stale = books[l].stale
        /\ b.untold = books[l].untold /\ b.coming = books[l].coming /\ b.met = books[l].met
        /\ b.call = "read" => books[l].call = "read"
    BY <1>2, AskedKeeps
  <2>2. books' = [books EXCEPT ![l] = b] /\ UNCHANGED <<row, sound, typed, calls, latest, meant, crossed>>
    BY <1>4 DEF RefetchConnections
  <2> HIDE DEF b
  <2>3. ListFits(l, b, row, orphaned)
    BY <1>1, <2>1, ListKept
  <2>4. Unheard(l) \/ ListIsCurrent(l, b, row)
    BY <1>1, <2>1 DEF ListIsCurrent
  <2> QED BY <2>2, <2>3, <2>4, ListStep
<1>5. CASE ReadConnections(l)
  <2> DEFINE d == RowsIn(l, row)
             b == Served(books[l], d)
  <2>1. d \in Listings(l) /\ KnownRows(d, row, orphaned)
    BY <1>3, RowsInIs
  <2>2. books' = [books EXCEPT ![l] = b] /\ UNCHANGED <<row, sound, typed, calls, latest, meant, crossed>>
    BY <1>5 DEF ReadConnections, RowsOf, RowsIn
  <2>3. d = RowsIn(l, row)
    OBVIOUS
  <2> HIDE DEF d
  <2>4. /\ b \in Entries(Listings(l)) /\ b.st = books[l].st /\ b.seen = books[l].seen /\ b.stale = books[l].stale
        /\ b.untold = books[l].untold /\ b.coming = d
    BY <1>2, <2>1, ServedIs
  <2> HIDE DEF b
  <2>5. ListFits(l, b, row, orphaned)
    BY <1>1, <2>1, <2>3, <2>4 DEF ListFits
  <2>6. Unheard(l) \/ ListIsCurrent(l, b, row)
    BY <1>1, <2>4 DEF ListIsCurrent
  <2> QED BY <2>2, <2>5, <2>6, ListStep
<1>6. CASE ConnectionsArrive(l)
  <2>1. books[l].call = "read" /\ UNCHANGED <<row, sound, typed, calls, latest, meant, crossed>>
    BY <1>6 DEF ConnectionsArrive
  <2>2. Empty \in Listings(l) /\ KnownRows(Empty, row, orphaned)
    BY <1>3, RowsInIs
  <2>3. CASE books' = [books EXCEPT ![l] = Arrived(@, Empty)]
    <3> DEFINE b == Arrived(books[l], Empty)
    <3>1. /\ b \in Entries(Listings(l)) /\ b.st = "ok" /\ b.seen = books[l].coming /\ b.untold = books[l].met
          /\ b.coming = Empty /\ b.call = "none"
      BY <1>2, <2>2, ArrivedIs
    <3>2. books' = [books EXCEPT ![l] = b]
      BY <2>3
    <3> HIDE DEF b
    <3>3. ListFits(l, b, row, orphaned)
      BY <1>1, <2>2, <3>1 DEF ListFits
    <3>4. ListIsCurrent(l, b, row)
      BY <1>1, <2>1, <3>1 DEF ListFits, ListIsCurrent
    <3> QED BY <2>1, <3>2, <3>3, <3>4, ListStep
  <2>4. CASE books' = [books EXCEPT ![l] = Failed(@, Empty)]
    <3> DEFINE b == Failed(books[l], Empty)
    <3>1. /\ b \in Entries(Listings(l)) /\ b.st = "error" /\ b.seen = books[l].seen
          /\ b.coming = Empty /\ b.call = "none"
      BY <1>2, <2>2, FailedIs
    <3>2. books' = [books EXCEPT ![l] = b]
      BY <2>4
    <3> HIDE DEF b
    <3>3. ListFits(l, b, row, orphaned)
      BY <1>1, <2>2, <3>1 DEF ListFits
    <3>4. ListIsCurrent(l, b, row)
      BY <3>1 DEF ListIsCurrent
    <3> QED BY <2>1, <3>2, <3>3, <3>4, ListStep
  <2> QED BY <1>6, <2>3, <2>4 DEF ConnectionsArrive
<1> QED BY <1>4, <1>5, <1>6

-----------------------------------------------------------------------------
(* The page, other administrators, and the server until it writes *)

LEMMA UsesOfThePage ==
    ASSUME ConnectionIInv, UNCHANGED <<page, orphaned>>, page = "channels", UseConnections
    PROVE  ConnectionIInv'
<1> USE ConnectionFacts
<1>1. ASSUME NEW kind \in Kinds, NEW c \in Conns, NEW id \in Nat, NEW to \in Tokens \cup {None} \cup BOOLEAN,
             kind = "replace" => c \in Pages, kind \in {"create", "replace"} => to \in Tokens \cup {None},
             kind = "toggle" => to \in BOOLEAN, Send(Mine(kind, c, id, to))
      PROVE  ConnectionIInv'
  <2> DEFINE m == Mine(kind, c, id, to)
  <2>1. m \in Requests /\ FitRequest(m) /\ m.kind \in Kinds /\ m.st = "sent" /\ m.shown
    BY ONLY <1>1, MineIs, kind \in Kinds, c \in Conns, id \in Nat, to \in Tokens \cup {None} \cup BOOLEAN
  <2>2. Send(m)
    BY <1>1
  <2> HIDE DEF m
  <2> QED BY <2>1, <2>2, SendKeeps
<1>2. ASSUME NEW kind \in Kinds, NEW c \in Conns, NEW to \in Tokens \cup {None} \cup BOOLEAN,
             kind = "replace" => c \in Pages, kind \in {"create", "replace"} => to \in Tokens \cup {None},
             kind = "toggle" => to \in BOOLEAN, Press(kind, c, to)
      PROVE  ConnectionIInv'
  <2>1. Listed(c) /\ Send(Mine(kind, c, books[ListOf(c)].seen[c].id, to))
    BY <1>2 DEF Press
  <2>2. books[ListOf(c)].seen[c].id \in Nat
    BY <2>1, SeenIs DEF Rows
  <2> QED BY <2>1, <2>2, <1>2, <1>1
<1>3. ASSUME NEW c \in Conns, Check(c) PROVE ConnectionIInv'
  BY <1>3, <1>2 DEF Check, Kinds
<1>4. ASSUME NEW c \in Conns, Toggle(c) PROVE ConnectionIInv'
  BY <1>4, <1>2 DEF Toggle, Kinds
<1>5. ASSUME NEW c \in Channels, AddChannel(c) PROVE ConnectionIInv'
  BY <1>5, <1>1 DEF AddChannel, Kinds
<1>6. ASSUME NEW p \in Pages, ReplaceToken(p) PROVE ConnectionIInv'
  <2>1. typed[p] \in Tokens \cup {None}
    BY DEF ConnectionIInv, ConnectionTypes
  <2> QED BY <2>1, <1>6, <1>2 DEF ReplaceToken, Kinds
<1>7. ASSUME NEW p \in Pages, RemovePage(p) PROVE ConnectionIInv'
  BY <1>7, <1>2 DEF RemovePage, Kinds
<1>8. ASSUME NEW p \in Pages, NEW t \in Tokens, AddPage(p, t) PROVE ConnectionIInv'
  BY <1>8, <1>1 DEF AddPage, Kinds
<1>9. ASSUME NEW p \in Pages, NEW t \in Tokens, TypeToken(p, t) PROVE ConnectionIInv'
  <2>1. typed' = [typed EXCEPT ![p] = t] /\ UNCHANGED <<row, sound, books, calls, latest, meant, crossed>>
    BY <1>9 DEF TypeToken
  <2> USE DEF ConnectionIInv
  <2>2. ConnectionTypes'
    BY <2>1 DEF ConnectionTypes
  <2>3. ButtonsOfCalls' /\ VerdictIsOfToken'
    BY <2>1 DEF ButtonsOfCalls, VerdictIsOfToken
  <2>4. ListsInv'
    BY <2>1 DEF ListsInv, Unheard
  <2> QED BY <2>2, <2>3, <2>4
<1> QED BY <1>3, <1>4, <1>5, <1>6, <1>7, <1>8, <1>9 DEF UseConnections

LEMMA RequestsOfOthers ==
    ASSUME ConnectionIInv, UNCHANGED <<page, orphaned>>, OthersConnect
    PROVE  ConnectionIInv'
<1> USE ConnectionFacts
<1>1. ASSUME NEW kind \in Kinds, NEW c \in Conns, NEW to \in Tokens \cup {None} \cup BOOLEAN,
             kind = "replace" => c \in Pages, kind \in {"create", "replace"} => to \in Tokens \cup {None},
             kind = "toggle" => to \in BOOLEAN, ElseWhere(kind, c, to)
      PROVE  ConnectionIInv'
  <2> DEFINE m == OfOthers(Mine(kind, c, row[c].id, to))
  <2>1. Send(m)
    BY <1>1 DEF ElseWhere, OfOthers
  <2>2. row[c].id \in Nat
    BY DEF ConnectionIInv, ConnectionTypes, Rows
  <2>3. m \in Requests /\ FitRequest(m) /\ m.kind \in Kinds /\ m.st = "sent" /\ ~m.mine
    BY ONLY <1>1, <2>2, MineIs, kind \in Kinds, c \in Conns, to \in Tokens \cup {None} \cup BOOLEAN
  <2> HIDE DEF m
  <2> QED BY <2>1, <2>3, SendKeeps
<1>2. ASSUME NEW c \in Conns, ElseWhere("check", c, None) \/ ElseWhere("remove", c, None) PROVE ConnectionIInv'
  BY <1>2, <1>1 DEF Kinds
<1>3. ASSUME NEW c \in Conns, NEW b \in BOOLEAN, ElseWhere("toggle", c, b) PROVE ConnectionIInv'
  BY <1>3, <1>1 DEF Kinds
<1>4. ASSUME NEW c \in Channels, ElseWhere("create", c, None) PROVE ConnectionIInv'
  BY <1>4, <1>1 DEF Kinds
<1>5. ASSUME NEW p \in Pages, NEW t \in Tokens, ElseWhere("create", p, t) \/ ElseWhere("replace", p, t)
      PROVE  ConnectionIInv'
  BY <1>5, <1>1 DEF Kinds
<1>6. ASSUME NEW x \in Channels \cup Tokens, Outside(x) PROVE ConnectionIInv'
  <2>1. sound' \subseteq Channels \cup Tokens /\ UNCHANGED <<row, books, typed, calls, latest, meant, crossed>>
    BY <1>6 DEF Outside, ConnectionIInv, ConnectionTypes
  <2> USE DEF ConnectionIInv
  <2>2. ConnectionTypes'
    BY <2>1 DEF ConnectionTypes
  <2>3. ButtonsOfCalls' /\ VerdictIsOfToken'
    BY <2>1 DEF ButtonsOfCalls, VerdictIsOfToken
  <2>4. ListsInv'
    BY <2>1 DEF ListsInv, Unheard
  <2> QED BY <2>2, <2>3, <2>4
<1> QED BY <1>2, <1>3, <1>4, <1>5, <1>6 DEF OthersConnect

\* A request with other contents, but of the same mutation.
SameMutation(m, c) == m.kind = c.kind /\ m.of = c.of /\ m.to = c.to /\ m.mine = c.mine /\ m.shown = c.shown

WithSaw(c, saw, st) == [c EXCEPT !.saw = saw, !.st = st]
WithWord(c, word, st) == [c EXCEPT !.word = word, !.st = st]
WithEnd(c, st) == [c EXCEPT !.st = st]

LEMMA LoadedIs ==
    ASSUME NEW c \in Requests, NEW st \in {"sent", "asking", "told", "ok", "error"}, NEW saw \in Rows
    PROVE  LET m == WithSaw(c, saw, st) IN
           m \in Requests /\ SameMutation(m, c) /\ m.st = st /\ m.word = c.word
BY DEF Requests, SameMutation, WithSaw

LEMMA ToldIs ==
    ASSUME NEW c \in Requests, NEW st \in {"sent", "asking", "told", "ok", "error"}, NEW word \in {"good", "bad"}
    PROVE  LET m == WithWord(c, word, st) IN
           m \in Requests /\ SameMutation(m, c) /\ m.st = st /\ m.word = word
BY DEF Requests, SameMutation, WithWord

LEMMA EndedIs ==
    ASSUME NEW c \in Requests, NEW st \in {"sent", "asking", "told", "ok", "error"}
    PROVE  LET m == WithEnd(c, st) IN
           m \in Requests /\ SameMutation(m, c) /\ m.st = st /\ m.word = c.word
BY DEF Requests, SameMutation, WithEnd

LEMMA ServerSteps ==
    ASSUME ConnectionIInv, UNCHANGED <<page, orphaned>>, NEW i \in Calls, Load(i) \/ Consult(i) \/ Refuse(i)
    PROVE  ConnectionIInv'
<1> DEFINE c == calls[i]
<1>1. c \in Requests /\ FitRequest(c)
  BY DEF ConnectionIInv, ConnectionTypes
<1>2. c.st \in {"sent", "asking", "told"} /\ c # NoCall
  BY ConnectionFacts DEF Load, Consult, Refuse
<1>3. UNCHANGED <<row, books, meant, crossed>>
  BY DEF Load, Consult, Refuse
<1>4. ASSUME NEW m \in Requests, FitRequest(m), m.st # "none", SameMutation(m, c), Step(i, m)
      PROVE  ConnectionIInv'
  <2>1. m # NoCall /\ c.st # "ok"
    BY <1>2, <1>4, ConnectionFacts
  <2> QED BY <1>2, <1>3, <1>4, <2>1, RequestGoesOn DEF SameMutation
<1>5. c.kind # "none" /\ c.of \in Conns
  BY <1>1, <1>2 DEF FitRequest
<1>6. CASE Load(i)
  <2> DEFINE fits == IF c.kind = "create" THEN ~row[c.of].there ELSE row[c.of].there /\ row[c.of].id = c.id
             st == CASE ~Allowed(c) \/ ~fits -> "error"
                     [] Allowed(c) /\ fits /\ AsksOutside(c) -> "asking"
                     [] OTHER -> "told"
             m == WithSaw(c, row[c.of], st)
  <2>1. Step(i, m)
    BY <1>6 DEF Load, WithSaw
  <2>2. st \in {"error", "asking", "told"} /\ (st = "asking" => AsksOutside(c)) /\ (st = "told" => ~AsksOutside(c))
    OBVIOUS
  <2>3. row[c.of] \in Rows
    BY <1>5 DEF ConnectionIInv, ConnectionTypes
  <2> HIDE DEF st
  <2> HIDE DEF c
  <2>4. m \in Requests /\ SameMutation(m, c) /\ m.st = st
    <3> DEFINE saw == row[c.of]
    <3>1. saw \in Rows
      BY <2>3
    <3>2. m = WithSaw(c, saw, st)
      OBVIOUS
    <3>3. st \in {"sent", "asking", "told", "ok", "error"} /\ c \in Requests
      BY <1>1, <2>2
    <3> HIDE DEF saw, m
    <3> QED BY <3>1, <3>2, <3>3, LoadedIs
  <2> HIDE DEF m
  <2>5. FitRequest(m)
    BY <1>1, <1>2, <2>2, <2>4 DEF FitRequest, AsksOutside, SameMutation
  <2> QED BY <1>4, <2>1, <2>2, <2>4, <2>5
<1>7. CASE Consult(i)
  <2>1. PICK word \in {"good", "bad"} :
          Step(i, [c EXCEPT !.word = word,
                   !.st = IF word = "bad" /\ c.of \in Pages /\ c.kind # "check" THEN "error" ELSE "told"])
    BY <1>7 DEF Consult
  <2> DEFINE st == IF word = "bad" /\ c.of \in Pages /\ c.kind # "check" THEN "error" ELSE "told"
             m == WithWord(c, word, st)
  <2>2. Step(i, m)
    BY <2>1 DEF WithWord
  <2>3. st \in {"error", "told"} /\ (st = "told" /\ c.of \in Pages /\ c.kind # "check" => word = "good")
    BY <2>1
  <2> HIDE DEF st
  <2> HIDE DEF c
  <2>4. m \in Requests /\ SameMutation(m, c) /\ m.st = st /\ m.word = word
    BY <1>1, <2>3, ToldIs
  <2> HIDE DEF m
  <2>5. FitRequest(m)
    BY <1>1, <1>2, <2>1, <2>3, <2>4 DEF FitRequest, AsksOutside, SameMutation
  <2> QED BY <1>4, <2>2, <2>3, <2>4, <2>5
<1>8. CASE Refuse(i)
  <2> DEFINE m == WithEnd(c, "error")
  <2>1. Step(i, m)
    BY <1>8 DEF Refuse, WithEnd
  <2> HIDE DEF c
  <2>2. m \in Requests /\ SameMutation(m, c) /\ m.st = "error"
    BY <1>1, EndedIs
  <2> HIDE DEF m
  <2>3. FitRequest(m)
    BY <1>1, <1>2, <2>2 DEF FitRequest, SameMutation
  <2> QED BY <1>4, <2>1, <2>2, <2>3
<1> QED BY <1>6, <1>7, <1>8

-----------------------------------------------------------------------------
(* Answers, and another page *)

LEMMA DoneKeeps ==
    ASSUME ConnectionIInv, NEW i \in Calls, NEW used \in BOOLEAN, Done(i, used), UNCHANGED <<page, orphaned>>
    PROVE  ConnectionIInv'
<1> USE DEF ConnectionIInv
<1> DEFINE c == calls[i]
           h == Hook(c.kind, c.of)
           l == ListOf(c.of)
<1>1. c \in Requests /\ FitRequest(c) /\ c.st \in {"ok", "error"} /\ c # NoCall
  BY ConnectionFacts DEF Done, ConnectionTypes
<1>2. c.kind \in Kinds /\ c.of \in Conns /\ (c.kind = "replace" => c.of \in Pages)
  BY <1>1 DEF FitRequest, Requests
<1>3. h \in Hooks /\ l \in Lists
  BY <1>2, ConnectionFacts
<1>4. calls' = [calls EXCEPT ![i] = NoCall] /\ latest' = [latest EXCEPT ![h] = IF @ = i THEN None ELSE @]
      /\ UNCHANGED <<row, sound, meant, crossed>>
  BY DEF Done
<1>5. calls'[i] = NoCall /\ \A j \in Calls \ {i} : calls'[j] = calls[j]
  BY <1>4 DEF ConnectionTypes
<1>6. typed' \in [Pages -> Tokens \cup {None}]
  <2>1. CASE typed' = typed
    BY <2>1 DEF ConnectionTypes
  <2>2. CASE typed' = [typed EXCEPT ![c.of] = None]
    BY <2>2 DEF ConnectionTypes
  <2> QED BY <2>1, <2>2 DEF Done
<1>7. \A k \in Lists : ListFits(k, books[k], row, orphaned) /\ (Unheard(k) \/ ListIsCurrent(k, books[k], row))
  BY DEF ListsInv
<1>8. books' = [k \in Lists |-> books'[k]] /\ ListsInv'
  <2>1. CASE c.mine /\ c.st = "ok"
    <3> DEFINE b == Invalidated(books[l], used, Empty)
    <3>1. books' = [books EXCEPT ![l] = b]
      BY <2>1 DEF Done, ListsAfter
    <3>2. Empty \in Listings(l) /\ KnownRows(Empty, row, orphaned)
      BY <1>3, RowsInIs DEF ConnectionTypes
    <3>3. books[l] \in Entries(Listings(l))
      BY <1>3, <1>7 DEF ListFits
    <3>4. /\ b \in Entries(Listings(l)) /\ b.seen = books[l].seen /\ (b.st = "ok" => b.stale)
          /\ b.coming \in {books[l].coming, Empty}
          /\ b.call = "read" => books[l].call = "read" /\ b.coming = books[l].coming /\ b.met = books[l].met
      BY <3>2, <3>3, InvalidatedIs
    <3>5. books'[l] = b /\ \A k \in Lists \ {l} : books'[k] = books[k]
      BY <3>1, <1>3 DEF ConnectionTypes
    <3>6. books' = [k \in Lists |-> books'[k]]
      BY <3>1, <1>3 DEF ConnectionTypes
    <3> HIDE DEF b
    <3>7. ListFits(l, b, row, orphaned) /\ ListIsCurrent(l, b, row)
      BY <1>3, <1>7, <3>2, <3>4 DEF ListFits, ListIsCurrent
    <3>8. ASSUME NEW k \in Lists, k # l PROVE Unheard(k) => Unheard(k)'
      <4> SUFFICES ASSUME NEW j \in Calls, calls[j].mine, calls[j].st = "ok", ListOf(calls[j].of) = k
                   PROVE  Unheard(k)'
        BY DEF Unheard
      <4>1. j # i
        BY <3>8
      <4> QED BY <4>1, <1>5 DEF Unheard
    <3>9. ListsInv'
      <4> SUFFICES ASSUME NEW k \in Lists
                   PROVE  ListFits(k, books'[k], row', orphaned') /\ (Unheard(k)' \/ ListIsCurrent(k, books'[k], row'))
        BY DEF ListsInv
      <4>1. CASE k = l
        BY <4>1, <3>5, <3>7, <1>4
      <4>2. CASE k # l
        BY <4>2, <3>5, <3>8, <1>4, <1>7
      <4> QED BY <4>1, <4>2
    <3> QED BY <3>6, <3>9
  <2>2. CASE ~(c.mine /\ c.st = "ok")
    <3>1. books' = books
      BY <2>2 DEF Done, ListsAfter
    <3>2. ASSUME NEW k \in Lists PROVE Unheard(k) => Unheard(k)'
      <4> SUFFICES ASSUME NEW j \in Calls, calls[j].mine, calls[j].st = "ok", ListOf(calls[j].of) = k
                   PROVE  Unheard(k)'
        BY DEF Unheard
      <4>1. j # i
        BY <2>2
      <4> QED BY <4>1, <1>5 DEF Unheard
    <3> QED BY <3>1, <3>2, <1>4, <1>7 DEF ListsInv, ConnectionTypes
  <2> QED BY <2>1, <2>2
<1>9. ConnectionTypes'
  <2>1. calls' \in [Calls -> Requests] /\ \A j \in Calls : FitRequest(calls'[j])
    BY <1>4, <1>5, ConnectionFacts DEF ConnectionTypes, FitRequest
  <2>2. latest' \in [Hooks -> Calls \cup {None}]
    BY <1>4 DEF ConnectionTypes
  <2> QED BY <1>4, <1>6, <1>8, <2>1, <2>2 DEF ConnectionTypes
<1>10. ButtonsOfCalls'
  <2> SUFFICES ASSUME NEW g \in Hooks, latest'[g] # None
               PROVE  LET d == calls'[latest'[g]] IN page' = "channels" /\ d.mine /\ d.shown /\ Hook(d.kind, d.of) = g
    BY DEF ButtonsOfCalls
  <2>1. latest'[g] = latest[g] /\ latest[g] \in Calls /\ (g = h => latest[g] # i)
    BY <1>3, <1>4 DEF ConnectionTypes
  <2>2. latest[g] # i
    BY <2>1 DEF ButtonsOfCalls
  <2> QED BY <2>1, <2>2, <1>5 DEF ButtonsOfCalls
<1>11. VerdictIsOfToken'
  BY <1>4 DEF VerdictIsOfToken
<1> QED BY <1>8, <1>9, <1>10, <1>11

\* Another page mounts what it uses; its requests go on without the page that sent them.
LEMMA ConnectionsLeft ==
    ASSUME ConnectionIInv, NEW p,
           books' \in {b \in [Lists -> UNION {ListMounted(l, p) : l \in Lists}] : \A l \in Lists : b[l] \in ListMounted(l, p)},
           LeaveConnections, orphaned' = orphaned
    PROVE  ConnectionIInv'
<1> USE DEF ConnectionIInv
<1>1. /\ calls' = [i \in Calls |-> [calls[i] EXCEPT !.shown = FALSE]]
      /\ latest' = [h \in Hooks |-> None] /\ typed' = [q \in Pages |-> None]
      /\ UNCHANGED <<row, sound, meant, crossed>>
  BY DEF LeaveConnections
<1>2. ASSUME NEW i \in Calls
      PROVE  /\ calls'[i] \in Requests /\ FitRequest(calls'[i])
             /\ calls'[i].mine = calls[i].mine /\ calls'[i].st = calls[i].st /\ calls'[i].of = calls[i].of
  <2> DEFINE c == calls[i]
             m == [c EXCEPT !.shown = FALSE]
  <2>1. calls'[i] = m /\ c \in Requests /\ FitRequest(c)
    BY <1>1 DEF ConnectionTypes
  <2> HIDE DEF c
  <2>2. m \in Requests /\ m.kind = c.kind /\ m.of = c.of /\ m.to = c.to
        /\ m.mine = c.mine /\ m.st = c.st /\ m.word = c.word /\ m.id = c.id /\ m.saw = c.saw /\ m.shown = FALSE
    BY <2>1 DEF Requests
  <2> HIDE DEF m
  <2>3. c = NoCall => m = NoCall
    <3>1. m = [kind |-> m.kind, of |-> m.of, id |-> m.id, to |-> m.to, st |-> m.st, saw |-> m.saw, word |-> m.word,
               mine |-> m.mine, shown |-> m.shown]
      BY <2>2 DEF Requests
    <3>2. NoCall = [kind |-> NoCall.kind, of |-> NoCall.of, id |-> NoCall.id, to |-> NoCall.to, st |-> NoCall.st,
                    saw |-> NoCall.saw, word |-> NoCall.word, mine |-> NoCall.mine, shown |-> NoCall.shown]
      BY ConnectionFacts DEF Requests
    <3>3. NoCall.shown = FALSE
      BY DEF NoCall
    <3> QED BY ONLY <3>1, <3>2, <3>3, <2>2
  <2>4. FitRequest(m)
    BY <2>1, <2>2, <2>3 DEF FitRequest, AsksOutside
  <2> QED BY <2>1, <2>2, <2>4 DEF c
<1>3. books' = [l \in Lists |-> books'[l]]
  OBVIOUS
<1>4. ConnectionTypes'
  <2>1. calls' \in [Calls -> Requests] /\ \A i \in Calls : FitRequest(calls'[i])
    BY <1>1, <1>2
  <2>2. latest' \in [Hooks -> Calls \cup {None}] /\ typed' \in [Pages -> Tokens \cup {None}]
    BY <1>1
  <2> QED BY <1>1, <1>3, <2>1, <2>2 DEF ConnectionTypes
<1>5. ButtonsOfCalls'
  BY <1>1 DEF ButtonsOfCalls
<1>6. ListsInv'
  <2> SUFFICES ASSUME NEW l \in Lists
               PROVE  ListFits(l, books'[l], row, orphaned) /\ (Unheard(l)' \/ ListIsCurrent(l, books'[l], row))
    BY <1>1 DEF ListsInv
  <2>1. ListFits(l, books[l], row, orphaned) /\ (Unheard(l) \/ ListIsCurrent(l, books[l], row))
    BY DEF ListsInv
  <2>2. Unheard(l) => Unheard(l)'
    BY <1>2 DEF Unheard
  <2>3. books'[l] = books[l] \/ books'[l] \in Mounted(books[l])
    BY DEF ListMounted
  <2>4. CASE books'[l] \in Mounted(books[l])
    <3> DEFINE m == books'[l]
    <3>1. books[l] \in Entries(Listings(l))
      BY <2>1 DEF ListFits
    <3>2. /\ m \in Entries(Listings(l))
          /\ m.st = books[l].st /\ m.seen = books[l].seen /\ m.stale = books[l].stale
          /\ m.untold = books[l].untold /\ m.coming = books[l].coming /\ m.met = books[l].met
          /\ m.call = "read" => books[l].call = "read"
      BY <2>4, <3>1, MountedKeeps
    <3> QED BY <2>1, <2>2, <3>2 DEF ListFits, ListIsCurrent
  <2> QED BY <2>1, <2>2, <2>3, <2>4
<1>7. VerdictIsOfToken'
  BY <1>1 DEF VerdictIsOfToken
<1> QED BY <1>4, <1>5, <1>6, <1>7

-----------------------------------------------------------------------------
(* The commit of a request about a connection *)

\* The row after a request is a row; it moves only from there to not there, or to a new id.
LEMMA WrittenIs ==
    ASSUME NEW c \in Requests, FitRequest(c), c # NoCall, c.st = "told", NEW now \in Rows, Finds(now, c)
    PROVE  LET new == Written(now, c) IN
           /\ new \in Rows /\ now.id <= new.id
           /\ now.there /\ new.there => new.id = now.id
           /\ new.there /\ new.id = now.id => now.there
           /\ c.kind = "create" => new.there /\ new.token = c.to /\ new.verdict = c.word
           /\ c.kind = "remove" => ~new.there \/ new = now
           /\ c.kind \in {"check", "toggle", "replace"} =>
                /\ new.there = now.there
                /\ new.verdict = IF Wanted(c).verdict = c.saw.verdict THEN now.verdict ELSE Wanted(c).verdict
                /\ c.kind = "replace" => new.token = c.to
                /\ c.kind # "replace" => new.token = now.token
<1>1. c.kind \in Kinds /\ c.saw \in Rows
  BY DEF FitRequest, Requests
<1>2. now.id \in Nat
  BY DEF Rows
<1>3. CASE c.kind = "create"
  <2>1. Written(now, c) = Created(now, c)
    BY <1>3 DEF Written
  <2>2. ~now.there
    BY <1>3 DEF Finds
  <2>3. c.word \in {"good", "bad"} /\ c.to \in Tokens \cup {None}
    BY <1>3 DEF FitRequest, AsksOutside
  <2> QED BY <1>2, <1>3, <2>1, <2>2, <2>3 DEF Created, Rows
<1>4. CASE c.kind = "remove"
  <2>1. Written(now, c) = IF now.id = c.id THEN [NoRow EXCEPT !.id = now.id] ELSE now
    BY <1>4 DEF Written
  <2>2. LET x == [NoRow EXCEPT !.id = now.id] IN x \in Rows /\ ~x.there /\ x.id = now.id
    BY <1>2 DEF NoRow, Rows
  <2> QED BY <1>2, <1>4, <2>1, <2>2
<1>5. CASE c.kind \in {"check", "toggle", "replace"}
  <2> DEFINE w == Wanted(c)
             new == Written(now, c)
  <2>1. new = [f \in DOMAIN now |-> IF w[f] = c.saw[f] /\ (f = "token" => c.kind # "replace") THEN now[f] ELSE w[f]]
    BY <1>5 DEF Written, Flushed
  <2>2. /\ w \in Rows /\ w.there = c.saw.there /\ w.id = c.saw.id
        /\ c.kind = "replace" => w.token = c.to
        /\ c.kind # "replace" => w.token = c.saw.token
    <3>1. CASE c.kind = "check"
      <4>1. c.word \in {"good", "bad"} /\ w = [c.saw EXCEPT !.verdict = c.word]
        BY <3>1 DEF FitRequest, AsksOutside, Wanted
      <4> QED BY <1>1, <3>1, <4>1 DEF Rows
    <3>2. CASE c.kind = "toggle"
      <4>1. c.to \in BOOLEAN /\ w = [c.saw EXCEPT !.active = c.to]
        BY <3>2 DEF FitRequest, Wanted
      <4> QED BY <1>1, <3>2, <4>1 DEF Rows
    <3>3. CASE c.kind = "replace"
      <4>1. c.to \in Tokens \cup {None} /\ w = [c.saw EXCEPT !.token = c.to, !.verdict = "good"]
        BY <3>3 DEF FitRequest, Wanted
      <4> QED BY <1>1, <3>3, <4>1 DEF Rows
    <3> QED BY <1>5, <3>1, <3>2, <3>3
  <2>3. DOMAIN now = {"there", "id", "active", "verdict", "token"}
    BY DEF Rows
  <2> HIDE DEF w
  <2>4. /\ new.there = (IF w.there = c.saw.there THEN now.there ELSE w.there)
        /\ new.id = (IF w.id = c.saw.id THEN now.id ELSE w.id)
        /\ new.active = (IF w.active = c.saw.active THEN now.active ELSE w.active)
        /\ new.verdict = (IF w.verdict = c.saw.verdict THEN now.verdict ELSE w.verdict)
        /\ new.token = (IF w.token = c.saw.token /\ c.kind # "replace" THEN now.token ELSE w.token)
    BY <2>1, <2>3
  <2>5. new = [there |-> new.there, id |-> new.id, active |-> new.active, verdict |-> new.verdict, token |-> new.token]
    BY <2>1, <2>3
  <2> HIDE DEF new
  <2>6. /\ new.there \in BOOLEAN /\ new.id \in Nat /\ new.active \in BOOLEAN /\ new.verdict \in {"good", "bad"}
        /\ new.token \in Tokens \cup {None}
    BY <2>2, <2>4, <1>1 DEF Rows
  <2>7. new \in Rows
    BY <2>5, <2>6 DEF Rows
  <2>8. new.there = now.there /\ new.id = now.id
    BY <2>2, <2>4
  <2> QED BY <1>2, <1>5, <2>2, <2>4, <2>7, <2>8 DEF new, w
<1> QED BY <1>1, <1>3, <1>4, <1>5 DEF Kinds

LEMMA RowsInSame ==
    ASSUME NEW l, NEW r, NEW q, \A d \in Conns : ListOf(d) = l => r[d] = q[d]
    PROVE  RowsIn(l, r) = RowsIn(l, q)
<1>1. {d \in Conns : ListOf(d) = l /\ r[d].there} = {d \in Conns : ListOf(d) = l /\ q[d].there}
  OBVIOUS
<1> DEFINE D == {d \in Conns : ListOf(d) = l /\ r[d].there}
<1>2. \A c \in D : [r[c] EXCEPT !.token = None] = [q[c] EXCEPT !.token = None]
  <2> TAKE c \in D
  <2>1. r[c] = q[c]
    OBVIOUS
  <2> QED BY ONLY <2>1
<1>3. [c \in D |-> [r[c] EXCEPT !.token = None]] = [c \in D |-> [q[c] EXCEPT !.token = None]]
  BY ONLY <1>2
<1> QED BY <1>1, <1>3 DEF RowsIn

LEMMA KnownRowsStay ==
    ASSUME NEW r \in [Conns -> Rows], NEW q \in [Conns -> Rows], NEW o, NEW n, RowsMove(r, q, o, n),
           NEW l, NEW x \in Listings(l), KnownRows(x, r, o)
    PROVE  KnownRows(x, q, n)
<1> SUFFICES ASSUME NEW c \in Channels, c \in DOMAIN x PROVE Known(<<c, x[c].id>>, q, n)
  BY DEF KnownRows
<1>1. PICK D \in SUBSET {d \in Conns : ListOf(d) = l} : x \in [D -> Rows]
  BY DEF Listings
<1>2. x[c].id \in Nat
  BY <1>1 DEF Rows
<1>3. <<c, x[c].id>> \in References
  BY <1>2 DEF References
<1>4. Known(<<c, x[c].id>>, r, o)
  BY DEF KnownRows
<1> QED BY <1>3, <1>4, KnownStays

\* What a commit does to the row and to the request.
LEMMA CommitFacts ==
    ASSUME ConnectionIInv, NEW i \in Calls, Commit(i)
    PROVE  LET c == calls[i]
               now == row[c.of]
               new == Written(now, c) IN
           /\ c \in Requests /\ FitRequest(c) /\ c # NoCall /\ c.of \in Conns /\ c.kind \in Kinds /\ c.st = "told"
           /\ now \in Rows /\ Finds(now, c) /\ new \in Rows
           /\ row' = [row EXCEPT ![c.of] = new] /\ row' \in [Conns -> Rows]
           /\ row'[c.of] = new /\ \A d \in Conns \ {c.of} : row'[d] = row[d]
           /\ UNCHANGED <<sound, typed, latest>>
<1> DEFINE c == calls[i]
           now == row[c.of]
           new == Written(now, c)
<1>1. c \in Requests /\ FitRequest(c) /\ c.st = "told" /\ c # NoCall
  BY ConnectionFacts DEF ConnectionIInv, ConnectionTypes, Commit
<1>2. c.of \in Conns /\ c.kind \in Kinds
  BY <1>1 DEF FitRequest, Requests
<1>3. now \in Rows /\ Finds(now, c)
  BY <1>2 DEF ConnectionIInv, ConnectionTypes, Commit
<1>4. row' = [row EXCEPT ![c.of] = new] /\ UNCHANGED <<sound, typed, latest>>
  BY DEF Commit, Step
<1> HIDE DEF c, now
<1>5. new \in Rows
  BY <1>1, <1>3, WrittenIs
<1> HIDE DEF new
<1>6. row' \in [Conns -> Rows] /\ row'[c.of] = new /\ \A d \in Conns \ {c.of} : row'[d] = row[d]
  BY <1>2, <1>4, <1>5 DEF ConnectionIInv, ConnectionTypes
<1> QED BY <1>1, <1>2, <1>3, <1>4, <1>5, <1>6 DEF c, now, new

LEMMA CommitMoves ==
    ASSUME ConnectionIInv, NEW i \in Calls, CommitCall(i)
    PROVE  RowsMove(row, row', orphaned, orphaned')
<1> DEFINE c == calls[i]
           now == row[c.of]
           new == Written(now, c)
<1>1. Commit(i) /\ orphaned' = (orphaned \/ (c.of \in Channels /\ row[c.of].there /\ ~row'[c.of].there))
  BY DEF CommitCall
<1>2. /\ c \in Requests /\ FitRequest(c) /\ c # NoCall /\ c.of \in Conns /\ c.st = "told"
      /\ now \in Rows /\ Finds(now, c)
      /\ row'[c.of] = new /\ \A d \in Conns \ {c.of} : row'[d] = row[d]
  BY <1>1, CommitFacts
<1>3. now.id <= new.id /\ (now.there /\ new.there => new.id = now.id) /\ (new.there /\ new.id = now.id => now.there)
  BY <1>2, WrittenIs
<1> HIDE DEF c, new
<1> SUFFICES ASSUME NEW d \in Channels
             PROVE  /\ row[d].id <= row'[d].id
                    /\ row[d].there => orphaned' \/ (row'[d].there /\ row'[d].id = row[d].id)
                    /\ row'[d].there /\ row'[d].id = row[d].id => row[d].there
  BY <1>1 DEF RowsMove
<1>4. CASE d = c.of
  BY <1>1, <1>2, <1>3, <1>4
<1>5. CASE d # c.of
  <2>1. row'[d] = row[d] /\ row[d].id \in Nat
    BY <1>2, <1>5, ConnectionFacts DEF ConnectionIInv, ConnectionTypes, Rows
  <2> QED BY <2>1
<1> QED BY <1>4, <1>5

\* Whoever writes the token of a page, or the verdict, records which token the verdict is about.
LEMMA VerdictKept ==
    ASSUME ConnectionIInv, NEW i \in Calls, Commit(i)
    PROVE  /\ meant' \in [Pages -> Tokens \cup {None}] /\ crossed' \in [Pages -> BOOLEAN]
           /\ VerdictIsOfToken'
<1> USE DEF ConnectionIInv, ConnectionTypes
<1> DEFINE c == calls[i]
           now == row[c.of]
           new == Written(now, c)
           judges == c.of \in Pages /\ c.kind \in {"create", "check", "replace"}
<1>1. /\ c \in Requests /\ FitRequest(c) /\ c # NoCall /\ c.of \in Conns /\ c.kind \in Kinds /\ c.st = "told"
      /\ now \in Rows /\ Finds(now, c)
      /\ row'[c.of] = new /\ \A d \in Conns \ {c.of} : row'[d] = row[d]
  BY CommitFacts
<1>2. /\ meant' = IF judges /\ new.verdict = Wanted(c).verdict THEN [meant EXCEPT ![c.of] = Subject(c)] ELSE meant
      /\ crossed' = IF judges
                      THEN [crossed EXCEPT ![c.of] = Crosses(now, c) \/ (@ /\ new.verdict # Wanted(c).verdict)]
                      ELSE crossed
  BY DEF Commit
<1>3. /\ c.kind = "create" => new.there /\ new.token = c.to /\ new.verdict = c.word
      /\ c.kind = "remove" => ~new.there \/ new = now
      /\ c.kind \in {"check", "toggle", "replace"} =>
           /\ new.there = now.there
           /\ new.verdict = IF Wanted(c).verdict = c.saw.verdict THEN now.verdict ELSE Wanted(c).verdict
           /\ c.kind = "replace" => new.token = c.to
           /\ c.kind # "replace" => new.token = now.token
  BY <1>1, WrittenIs
<1>4. c.of \in Pages => c.of \notin Channels
  BY ConnectionFacts
<1>5. c.saw \in Rows
  BY <1>1 DEF Requests
<1> HIDE DEF c, now, new
<1>6. judges => Subject(c) = IF c.kind = "check" THEN c.saw.token ELSE c.to
  BY <1>4 DEF Subject
<1>7. judges => Subject(c) \in Tokens \cup {None}
  BY <1>1, <1>5, <1>6 DEF FitRequest, Rows
<1>8. meant' \in [Pages -> Tokens \cup {None}]
  BY <1>2, <1>7
<1>9. crossed' \in [Pages -> BOOLEAN]
  BY <1>2
<1>10. ASSUME NEW p \in Pages, row'[p].there PROVE meant'[p] = row'[p].token \/ crossed'[p]
  <2>1. row[p].there => meant[p] = row[p].token \/ crossed[p]
    BY DEF VerdictIsOfToken
  <2>2. CASE p # c.of
    <3>1. row'[p] = row[p]
      BY <1>1, <2>2, ConnectionFacts
    <3>2. meant'[p] = meant[p] /\ crossed'[p] = crossed[p]
      BY <1>2, <2>2
    <3> QED BY <2>1, <3>1, <3>2, <1>10
  <2>3. CASE p = c.of
    <3>1. row'[p] = new /\ row[p] = now /\ new.there
      BY <1>1, <1>10, <2>3 DEF now
    <3>2. judges => /\ crossed'[p] = (Crosses(now, c) \/ (crossed[p] /\ new.verdict # Wanted(c).verdict))
                    /\ meant'[p] = IF new.verdict = Wanted(c).verdict THEN Subject(c) ELSE meant[p]
      BY <1>2, <2>3
    <3>3. ~judges => crossed'[p] = crossed[p] /\ meant'[p] = meant[p]
      BY <1>2
    <3>4. CASE c.kind = "create"
      <4>1. judges /\ new.token = c.to /\ new.verdict = "good" /\ Wanted(c).verdict = "good" /\ Subject(c) = c.to
        BY <3>4, <1>1, <1>3, <1>5, <1>6, <2>3 DEF FitRequest, Wanted, Rows
      <4> QED BY <4>1, <3>1, <3>2
    <3>5. CASE c.kind = "check"
      <4>1. judges /\ Subject(c) = c.saw.token /\ new.token = now.token /\ now.there
        BY <3>5, <1>3, <1>6, <2>3, <3>1
      <4>2. Crosses(now, c) \/ now.token = c.saw.token
        BY <3>5 DEF Crosses
      <4> QED BY <4>1, <4>2, <3>1, <3>2, <2>1
    <3>6. CASE c.kind = "replace"
      <4>1. judges /\ Subject(c) = c.to /\ new.token = c.to
        BY <3>6, <1>3, <1>6, <2>3
      <4>2. new.verdict = Wanted(c).verdict \/ Crosses(now, c)
        BY <3>6, <1>3 DEF Crosses
      <4> QED BY <4>1, <4>2, <3>1, <3>2
    <3>7. CASE c.kind = "toggle"
      <4>1. ~judges /\ new.token = now.token /\ now.there
        BY <3>7, <1>3, <3>1
      <4> QED BY <4>1, <3>1, <3>3, <2>1
    <3>8. CASE c.kind = "remove"
      <4>1. ~judges /\ new = now
        BY <3>8, <1>3, <3>1
      <4> QED BY <4>1, <3>1, <3>3, <2>1
    <3> QED BY <1>1, <3>4, <3>5, <3>6, <3>7, <3>8 DEF Kinds
  <2> QED BY <2>2, <2>3
<1> QED BY <1>8, <1>9, <1>10 DEF VerdictIsOfToken

\* The commit changes the rows of one list; the browser hears of it, or will not.
LEMMA CommitLists ==
    ASSUME ConnectionIInv, NEW i \in Calls, Commit(i), RowsMove(row, row', orphaned, orphaned')
    PROVE  books' = [l \in Lists |-> books'[l]] /\ ListsInv'
<1> USE DEF ConnectionIInv
<1> DEFINE c == calls[i]
           now == row[c.of]
           new == Written(now, c)
<1>k. PICK k \in Lists : k = ListOf(c.of)
  BY ConnectionFacts
<1>1. /\ c \in Requests /\ FitRequest(c) /\ c # NoCall /\ c.of \in Conns /\ c.st = "told"
      /\ now \in Rows /\ row' \in [Conns -> Rows]
      /\ row'[c.of] = new /\ \A d \in Conns \ {c.of} : row'[d] = row[d]
  BY CommitFacts
<1>2. PICK answer \in {"ok", "error"} :
        /\ calls' = [calls EXCEPT ![i] = WithEnd(c, answer)]
        /\ books' = [books EXCEPT ![k] = CASE new = now -> @
                                           [] new # now /\ c.mine /\ answer = "ok" -> ChangedHere(@)
                                           [] OTHER -> ChangedUntold(@)]
  BY <1>k DEF Commit, Step, WithEnd
<1>3. k \in Lists
  OBVIOUS
<1>4. calls'[i] = WithEnd(c, answer) /\ \A j \in Calls \ {i} : calls'[j] = calls[j]
  BY <1>2 DEF ConnectionTypes
<1>5. calls'[i].st = answer /\ calls'[i].mine = c.mine /\ calls'[i].of = c.of
  <2> HIDE DEF c
  <2>1. SameMutation(WithEnd(c, answer), c) /\ WithEnd(c, answer).st = answer
    BY <1>1, EndedIs
  <2> QED BY <1>4, <2>1 DEF SameMutation
<1>6. ASSUME NEW l \in Lists PROVE Unheard(l) => Unheard(l)'
  <2> SUFFICES ASSUME NEW j \in Calls, calls[j].mine, calls[j].st = "ok", ListOf(calls[j].of) = l
               PROVE  Unheard(l)'
    BY DEF Unheard
  <2>1. j # i
    BY <1>1
  <2> QED BY <2>1, <1>4 DEF Unheard
<1>7. row \in [Conns -> Rows] /\ \A l \in Lists : ListFits(l, books[l], row, orphaned) /\ (Unheard(l) \/ ListIsCurrent(l, books[l], row))
  BY DEF ListsInv, ConnectionTypes
<1>8. ASSUME NEW l \in Lists
      PROVE  /\ books[l] \in Entries(Listings(l))
             /\ KnownRows(books[l].seen, row', orphaned') /\ KnownRows(books[l].coming, row', orphaned')
  <2>1. ListFits(l, books[l], row, orphaned)
    BY <1>7
  <2>2. books[l].seen \in Listings(l) /\ books[l].coming \in Listings(l)
    BY <2>1 DEF ListFits, Entries
  <2> QED BY <1>1, <1>7, <2>1, <2>2, KnownRowsStay DEF ListFits
<1>9. ASSUME NEW l \in Lists, RowsIn(l, row') = RowsIn(l, row), books'[l] = books[l]
      PROVE  ListFits(l, books'[l], row', orphaned') /\ (Unheard(l)' \/ ListIsCurrent(l, books'[l], row'))
  BY <1>6, <1>7, <1>8, <1>9 DEF ListFits, ListIsCurrent
<1>10. \A l \in Lists \ {k} : books'[l] = books[l]
  BY <1>2 DEF ConnectionTypes
<1>11. ASSUME NEW l \in Lists, l # k PROVE RowsIn(l, row') = RowsIn(l, row)
  <2>1. \A d \in Conns : ListOf(d) = l => row'[d] = row[d]
    BY <1>1, <1>k, <1>11
  <2> QED BY <2>1, RowsInSame
<1> HIDE DEF new, now
<1>12. ListFits(k, books'[k], row', orphaned') /\ (Unheard(k)' \/ ListIsCurrent(k, books'[k], row'))
  <2>1. CASE new = now
    <3>1. \A d \in Conns : ListOf(d) = k => row'[d] = row[d]
      BY <1>1, <1>k, <2>1 DEF now
    <3>2. RowsIn(k, row') = RowsIn(k, row)
      BY <3>1, RowsInSame
    <3>3. books'[k] = books[k]
      BY <1>2, <1>3, <2>1 DEF ConnectionTypes
    <3> QED BY <3>2, <3>3, <1>3, <1>9
  <2>2. CASE new # now /\ c.mine /\ answer = "ok"
    <3>1. books'[k] = ChangedHere(books[k])
      BY <1>2, <1>3, <2>2 DEF ConnectionTypes
    <3> DEFINE b == books'[k]
    <3>2. /\ b \in Entries(Listings(k)) /\ b.seen = books[k].seen /\ b.coming = books[k].coming
          /\ b.call = "read" => b.met
      BY <1>3, <1>8, <3>1, ChangedHereIs
    <3>3. Unheard(k)'
      BY <1>5, <1>k, <2>2 DEF Unheard
    <3> QED BY <1>3, <1>8, <3>2, <3>3 DEF ListFits
  <2>3. CASE new # now /\ ~(c.mine /\ answer = "ok")
    <3>1. books'[k] = ChangedUntold(books[k])
      BY <1>2, <1>3, <2>3 DEF ConnectionTypes
    <3> DEFINE b == books'[k]
    <3>2. /\ b \in Entries(Listings(k)) /\ b.seen = books[k].seen /\ b.coming = books[k].coming
          /\ b.untold /\ (b.call = "read" => b.met)
      BY <1>3, <1>8, <3>1, ChangedUntoldIs
    <3> QED BY <1>3, <1>8, <3>2 DEF ListFits, ListIsCurrent
  <2> QED BY <2>1, <2>2, <2>3
<1>13. books' = [l \in Lists |-> books'[l]]
  BY <1>2 DEF ConnectionTypes
<1>14. ListsInv'
  <2> SUFFICES ASSUME NEW l \in Lists
               PROVE  ListFits(l, books'[l], row', orphaned') /\ (Unheard(l)' \/ ListIsCurrent(l, books'[l], row'))
    BY DEF ListsInv
  <2>1. CASE l = k
    BY <2>1, <1>12
  <2>2. CASE l # k
    BY <2>2, <1>9, <1>10, <1>11
  <2> QED BY <2>1, <2>2
<1> QED BY <1>13, <1>14

LEMMA CommitKeeps ==
    ASSUME ConnectionIInv, NEW i \in Calls, CommitCall(i)
    PROVE  ConnectionIInv'
<1>1. Commit(i) /\ page' = page
  BY DEF CommitCall
<1>2. books' = [l \in Lists |-> books'[l]] /\ ListsInv'
  BY <1>1, CommitMoves, CommitLists
<1>3. meant' \in [Pages -> Tokens \cup {None}] /\ crossed' \in [Pages -> BOOLEAN] /\ VerdictIsOfToken'
  BY <1>1, VerdictKept
<1> DEFINE c == calls[i]
<1>4. /\ c \in Requests /\ FitRequest(c) /\ c # NoCall /\ c.st = "told" /\ row' \in [Conns -> Rows]
      /\ UNCHANGED <<sound, typed, latest>>
  BY <1>1, CommitFacts
<1>5. PICK answer \in {"ok", "error"} : calls' = [calls EXCEPT ![i] = WithEnd(c, answer)]
  BY <1>1 DEF Commit, Step, WithEnd
<1> HIDE DEF c
<1> DEFINE m == WithEnd(c, answer)
<1>6. m \in Requests /\ SameMutation(m, c) /\ m.st = answer
  BY <1>4, EndedIs
<1>7. calls' = [calls EXCEPT ![i] = m]
  BY <1>5
<1> HIDE DEF m
<1>8. m # NoCall
  BY <1>6, ConnectionFacts
<1>9. FitRequest(m)
  BY <1>4, <1>6 DEF FitRequest, SameMutation
<1> USE DEF c
<1>10. calls'[i] = m /\ \A j \in Calls \ {i} : calls'[j] = calls[j]
  BY <1>7 DEF ConnectionIInv, ConnectionTypes
<1>11. calls' \in [Calls -> Requests] /\ \A j \in Calls : FitRequest(calls'[j])
  BY <1>6, <1>7, <1>9, <1>10 DEF ConnectionIInv, ConnectionTypes
<1>12. ConnectionTypes'
  BY <1>2, <1>3, <1>4, <1>11 DEF ConnectionIInv, ConnectionTypes
<1>13. ButtonsOfCalls'
  <2> SUFFICES ASSUME NEW h \in Hooks, latest[h] # None
               PROVE  LET d == calls'[latest[h]] IN page' = "channels" /\ d.mine /\ d.shown /\ Hook(d.kind, d.of) = h
    BY <1>4 DEF ButtonsOfCalls
  <2>1. latest[h] \in Calls
    BY DEF ConnectionIInv, ConnectionTypes
  <2>2. SameMutation(calls'[latest[h]], calls[latest[h]])
    BY <2>1, <1>6, <1>10 DEF SameMutation
  <2>3. LET d == calls[latest[h]] IN page = "channels" /\ d.mine /\ d.shown /\ Hook(d.kind, d.of) = h
    BY DEF ConnectionIInv, ButtonsOfCalls
  <2> QED BY <1>1, <2>2, <2>3 DEF SameMutation
<1> QED BY <1>2, <1>3, <1>12, <1>13 DEF ConnectionIInv

-----------------------------------------------------------------------------
(* Forms *)

\* What a section shows of settings is a form for it.
LEMMA ShownFits ==
    ASSUME NEW p \in Sections, NEW x \in Sheets
    PROVE  LET v == ShownBy(p, x.fields) IN
           /\ v \in [FieldsOf[p] -> Texts \cup References \cup {None}] /\ v # None
           /\ \A f \in FieldsOf[p] : FitsForm(f, v[f])
           /\ \A f \in FieldsOf[p] : v[f] = IF f = "timezone" /\ x.fields[f] = "foreign" THEN "default" ELSE x.fields[f]
           /\ Channel \in FieldsOf[p] => v[Channel] = x.fields[Channel]
<1> DEFINE v == ShownBy(p, x.fields)
<1>1. v = [f \in FieldsOf[p] |-> IF f = "timezone" /\ x.fields[f] = "foreign" THEN "default" ELSE x.fields[f]]
  BY ShownIs
<1>2. FieldsOf[p] \subseteq Fields /\ Channel # "timezone"
  BY SectionFacts
<1>3. \A f \in Fields : x.fields[f] \in Words \cup References \cup {None} /\ Fits(f, x.fields[f])
  BY DEF Sheets, SettingsRows
<1> HIDE DEF v
<1>4. \A f \in FieldsOf[p] : v[f] \in Texts \cup References \cup {None} /\ FitsForm(f, v[f])
  BY <1>1, <1>2, <1>3 DEF Words, Texts, FitsForm, Fits
<1>5. v \in [FieldsOf[p] -> Texts \cup References \cup {None}]
  BY <1>1, <1>4
<1>6. v # None
  BY <1>2, <1>5, NoneIsNoForm
<1> QED BY <1>1, <1>2, <1>4, <1>5, <1>6 DEF v

LEMMA FormKept ==
    ASSUME NEW b, NEW m, m.st = b.st, m.known = b.known, m.seen = b.seen,
           NEW p, NEW v, NEW edits, NEW r, NEW o, FormFits(b, p, v, edits, r, o)
    PROVE  FormFits(m, p, v, edits, r, o)
BY DEF FormFits, HasForm

LEMMA FormMoves ==
    ASSUME NEW r \in [Conns -> Rows], NEW q \in [Conns -> Rows], NEW o, NEW n, RowsMove(r, q, o, n),
           NEW b, NEW p, NEW v, NEW edits, FormFits(b, p, v, edits, r, o)
    PROVE  FormFits(b, p, v, edits, q, n)
<1>1. ASSUME v # None, Channel \in FieldsOf[p] PROVE Known(v[Channel], q, n)
  <2>1. v[Channel] \in References \cup {None} /\ Known(v[Channel], r, o)
    BY <1>1, SectionFacts DEF FormFits, FitsForm, Fits
  <2> QED BY <2>1, KnownStays
<1> QED BY <1>1 DEF FormFits

\* The form is filled again when the settings change, and mounts when there are some.
LEMMA RefillFits ==
    ASSUME FormInv, Refill, page' = page, NEW S, sheet.seen \in S, sheet'.seen \in Sheets,
           Known(sheet'.seen.fields[Channel], row, orphaned)
    PROVE  FormFits(sheet', page, form', entered', row, orphaned)
<1>1. form' = FormAfter(sheet', page)
      /\ entered' = IF form' = None \/ sheet'.seen # sheet.seen THEN {} ELSE entered
  BY DEF Refill
<1>2. CASE ~HasForm(sheet', page)
  BY <1>1, <1>2 DEF FormAfter, FormFits
<1>3. CASE HasForm(sheet', page) /\ HasForm(sheet, page) /\ sheet'.seen = sheet.seen
  BY <1>1, <1>3 DEF FormAfter, FormInv, FormFits
<1>4. CASE HasForm(sheet', page) /\ ~(HasForm(sheet, page) /\ sheet'.seen = sheet.seen)
  <2>1. form' = ShownBy(page, sheet'.seen.fields) /\ page \in Sections
    BY <1>1, <1>4 DEF FormAfter, HasForm
  <2>2. entered' = {}
    BY <1>1, <1>4 DEF FormInv, FormFits
  <2>3. /\ form' \in [FieldsOf[page] -> Texts \cup References \cup {None}] /\ form' # None
        /\ \A f \in FieldsOf[page] : FitsForm(f, form'[f])
        /\ Channel \in FieldsOf[page] => form'[Channel] = sheet'.seen.fields[Channel]
    BY <2>1, ShownFits
  <2> QED BY <1>4, <2>1, <2>2, <2>3 DEF FormFits
<1> QED BY <1>2, <1>3, <1>4

-----------------------------------------------------------------------------
(* Saves *)

LEMMA NoSaveIs ==
    /\ NoSave \in SaveRecords /\ NoSave.st = "none" /\ ~NoSave.mine /\ NoSave.sent = [f \in {} |-> None]
    /\ NoSave.answer = Blank /\ DOMAIN NoSave.sent = {} /\ NoSave.saw = None /\ ~NoSave.late /\ ~NoSave.overtaken
<1>1. [f \in {} |-> None] \in [{} -> Texts \cup References \cup {None}] /\ DOMAIN [f \in {} |-> None] = {}
  OBVIOUS
<1>2. [f \in {} |-> None] \in UNION {[D -> Texts \cup References \cup {None}] : D \in SUBSET Fields}
  BY <1>1
<1> QED BY <1>1, <1>2, BlankIs DEF NoSave, SaveRecords

NewSave(sent, of, edits) == [NoSave EXCEPT !.st = "sent", !.sent = sent, !.mine = TRUE, !.of = of, !.entered = edits]
OtherSave(sent) == [NoSave EXCEPT !.st = "sent", !.sent = sent]

LEMMA NewSaveIs ==
    ASSUME NEW D \in SUBSET Fields, NEW sent \in [D -> Texts \cup References \cup {None}], NEW of \in Nat,
           NEW edits \in SUBSET Fields
    PROVE  LET m == NewSave(sent, of, edits) IN
           /\ m \in SaveRecords /\ m.st = "sent" /\ m.sent = sent /\ m.mine /\ m.of = of /\ m.entered = edits
           /\ m.answer = Blank
<1>1. sent \in UNION {[E -> Texts \cup References \cup {None}] : E \in SUBSET Fields}
  OBVIOUS
<1> QED BY <1>1, NoSaveIs DEF NewSave, SaveRecords

LEMMA OtherSaveIs ==
    ASSUME NEW D \in SUBSET Fields, NEW sent \in [D -> Texts \cup References \cup {None}]
    PROVE  LET m == OtherSave(sent) IN
           m \in SaveRecords /\ m.st = "sent" /\ m.sent = sent /\ ~m.mine /\ m.answer = Blank
<1>1. sent \in UNION {[E -> Texts \cup References \cup {None}] : E \in SUBSET Fields}
  OBVIOUS
<1> QED BY <1>1, NoSaveIs DEF OtherSave, SaveRecords

\* What is known before anything was read agrees with what is written: it is never as new.
LEMMA BlankAgrees ==
    ASSUME NEW s, NEW r, NEW o, SavedFits(s, r)
    PROVE  Agrees(Blank, s, r, o)
<1>1. s.rev \in Nat /\ (s.row # None => s.rev > 0)
  BY DEF SavedFits
<1>2. Blank \in Sheets /\ Blank.rev = 0 /\ Blank.fields = Defaults
  BY BlankIs
<1>3. Defaults[Channel] = None
  BY SectionFacts DEF Defaults
<1>4. s.rev = 0 => ReadOf(s).fields = Defaults
  BY <1>1 DEF ReadOf
<1> QED BY <1>1, <1>2, <1>3, <1>4 DEF Agrees, Known

-----------------------------------------------------------------------------
(* Steps of the settings *)

MineAnswered == \E i \in Saves : saves[i].mine /\ saves[i].st = "ok"
SheetFresh(b, s) == b.st = "ok" /\ ~b.untold => b.seen = ReadOf(s)

LEMMA SheetCurrentIs == SheetIsCurrent <=> MineAnswered \/ SheetFresh(sheet, saved)
BY DEF SheetIsCurrent, MineAnswered, SheetFresh

\* A step of one save that leaves the rest as it is.
LEMMA SaveStep ==
    ASSUME SettingsIInv, NEW i \in Saves, NEW p, SaveFits(p, saved, row, orphaned),
           saves' = [saves EXCEPT ![i] = p], ~(saves[i].mine /\ saves[i].st = "ok"),
           UNCHANGED <<saved, sheet, page, form, entered, orphaned, row>>,
           \/ pending' = pending /\ (pending = i => p.mine)
           \/ pending' = i /\ p.mine /\ form # None
    PROVE  SettingsIInv'
<1> USE DEF SettingsIInv
<1>1. saves'[i] = p /\ (\A j \in Saves \ {i} : saves'[j] = saves[j]) /\ saves' = [j \in Saves |-> saves'[j]]
  OBVIOUS
<1>2. \A j \in Saves : SaveFits(saves'[j], saved', row', orphaned')
  BY <1>1
<1>3. MineAnswered => MineAnswered'
  BY <1>1 DEF MineAnswered
<1>4. SheetIsCurrent'
  <2>1. MineAnswered \/ SheetFresh(sheet, saved)
    BY SheetCurrentIs
  <2>2. SheetFresh(sheet, saved) <=> SheetFresh(sheet', saved')
    OBVIOUS
  <2>3. SheetIsCurrent' <=> MineAnswered' \/ SheetFresh(sheet', saved')
    BY DEF SheetIsCurrent, MineAnswered, SheetFresh
  <2> QED BY <1>3, <2>1, <2>2, <2>3
<1>5. FormInv'
  BY DEF FormInv
<1>6. PendingInv'
  <2>1. None \notin Saves
    BY SettingsAssumption DEF SettingsAssumption
  <2> QED BY <1>1, <2>1 DEF PendingInv, Saving
<1> QED BY <1>1, <1>2, <1>4, <1>5, <1>6

LEMMA SettingsTypes ==
    ASSUME SettingsIInv
    PROVE  /\ saved.rev \in Nat /\ (saved.row # None => saved.row \in SettingsRows)
           /\ ReadOf(saved) \in Sheets /\ ReadOf(saved).rev = saved.rev
           /\ sheet \in Entries(Sheets) /\ sheet.seen \in Sheets /\ sheet.coming \in Sheets
           /\ \A i \in Saves : saves[i] \in SaveRecords
<1>1. saved.rev \in Nat /\ (saved.row # None => saved.row \in SettingsRows)
  BY SettingsRowsAre DEF SettingsIInv, SavedFits
<1>2. ReadOf(saved) \in Sheets /\ ReadOf(saved).rev = saved.rev
  BY <1>1, ReadOfIs
<1>3. sheet \in Entries(Sheets)
  BY DEF SettingsIInv, SheetFits
<1>4. sheet.seen \in Sheets /\ sheet.coming \in Sheets
  BY <1>3 DEF Entries
<1>5. \A i \in Saves : saves[i] \in SaveRecords
  BY DEF SettingsIInv, SaveFits, FitSave
<1> QED BY <1>1, <1>2, <1>3, <1>4, <1>5

\* What is sent by a form: its values, which are those of the settings where nothing was entered.
LEMMA SentByFits ==
    ASSUME SettingsIInv, form # None
    PROVE  LET v == SentBy(page, form)
               p == NewSave(v, sheet.seen.rev, entered) IN
           SaveFits(p, saved, row, orphaned) /\ p.mine
<1> DEFINE v == SentBy(page, form)
           D == FieldsOf[page]
           p == NewSave(v, sheet.seen.rev, entered)
<1>1. /\ HasForm(sheet, page) /\ form \in [D -> Texts \cup References \cup {None}] /\ entered \subseteq D
      /\ \A f \in D : FitsForm(f, form[f]) /\ (f \notin entered => form[f] = ShownBy(page, sheet.seen.fields)[f])
      /\ Channel \in D => Known(form[Channel], row, orphaned)
  BY DEF SettingsIInv, FormInv, FormFits
<1>2. page \in Sections /\ D \subseteq Fields
  BY <1>1, SectionFacts DEF HasForm
<1>3. sheet.seen \in Sheets /\ sheet.seen.rev \in Nat
  BY SettingsTypes DEF Sheets
<1>4. v = [f \in D |-> IF page = "aliexpress" /\ form[f] = "foreign" THEN "chosen" ELSE form[f]]
  BY <1>1 DEF SentBy
<1>5. page = "aliexpress" => Channel \notin D
  BY SectionFacts
<1>6. \A f \in D : v[f] \in Texts \cup References \cup {None} /\ FitsForm(f, v[f])
  BY <1>1, <1>4, <1>5 DEF Words, Texts, FitsForm, Fits
<1>7. v \in [D -> Texts \cup References \cup {None}]
  BY <1>4, <1>6
<1>8. D \in SUBSET Fields /\ entered \in SUBSET Fields
  BY <1>1, <1>2
<1> HIDE DEF v, D
<1>9. /\ p \in SaveRecords /\ p.st = "sent" /\ p.sent = v /\ p.mine /\ p.of = sheet.seen.rev /\ p.entered = entered
      /\ p.answer = Blank
  BY <1>3, <1>7, <1>8, NewSaveIs
<1> HIDE DEF p
<1>10. FitSave(p)
  BY <1>2, <1>6, <1>7, <1>9 DEF FitSave
<1>11. Agrees(sheet.seen, saved, row, orphaned) /\ SavedFits(saved, row)
  BY DEF SettingsIInv, SheetFits
<1>12. SentFits(p, saved, row, orphaned)
  <2>1. p.of <= saved.rev
    BY <1>9, <1>11 DEF Agrees
  <2>2. Channel \in D => v[Channel] = form[Channel]
    BY <1>4, <1>5 DEF D
  <2>3. Channel \in DOMAIN p.sent => Known(p.sent[Channel], row, orphaned)
    BY <1>1, <1>7, <1>9, <2>2 DEF D
  <2>4. ASSUME p.of = saved.rev, NEW f \in DOMAIN p.sent \ p.entered
        PROVE  \/ p.sent[f] = ReadOf(saved).fields[f]
               \/ f # Channel /\ ReadOf(saved).fields[f] = "foreign"
               \/ f = Channel /\ p.sent[f] # None /\ ~IsThere(p.sent[f], row)
    <3>1. f \in D \ entered /\ p.sent[f] = v[f] /\ f \in Fields
      BY <1>2, <1>7, <1>9, <2>4
    <3>2. \/ sheet.seen.fields[f] = ReadOf(saved).fields[f]
          \/ f = Channel /\ sheet.seen.fields[f] # None /\ ~IsThere(sheet.seen.fields[f], row)
      BY <1>9, <1>11, <2>4, <3>1 DEF Agrees
    <3>3. form[f] = ShownBy(page, sheet.seen.fields)[f]
      BY <1>1, <3>1 DEF D
    <3>4. form[f] = IF f = "timezone" /\ sheet.seen.fields[f] = "foreign" THEN "default" ELSE sheet.seen.fields[f]
      BY <1>2, <1>3, <3>1, <3>3, ShownFits DEF D
    <3>5. v[f] = IF page = "aliexpress" /\ form[f] = "foreign" THEN "chosen" ELSE form[f]
      BY <1>4, <3>1 DEF D
    <3>6. CASE f = Channel
      BY <3>1, <3>2, <3>4, <3>6, <2>2, SectionFacts
    <3>7. CASE f # Channel
      BY <3>1, <3>2, <3>4, <3>5, <3>7
    <3> QED BY <3>6, <3>7
  <2>5. ASSUME ~Accepted(p.sent), Language \notin p.entered PROVE FALSE
    <3>1. Language \in D /\ Language \in Fields /\ v[Language] = "invalid" /\ Language \notin entered
      BY <1>2, <1>7, <1>9, <2>5 DEF Accepted
    <3>2. form[Language] = sheet.seen.fields[Language]
      BY <1>1, <1>2, <1>3, <3>1, ShownFits, SectionFacts DEF D
    <3>3. sheet.seen.fields[Language] \in Words
      BY <1>3, <3>1, SectionFacts DEF Sheets, SettingsRows, Fits
    <3> QED BY <1>4, <3>1, <3>2, <3>3 DEF Words, D
  <2> QED BY <1>9, <2>1, <2>3, <2>4, <2>5 DEF SentFits, SendsEdits
<1>13. LoadedFits(p, saved)
  BY <1>9 DEF LoadedFits
<1>14. AnswerFits(p, saved, row, orphaned)
  BY <1>9, <1>11, BlankAgrees DEF AnswerFits
<1> QED BY <1>9, <1>10, <1>12, <1>13, <1>14 DEF SaveFits, v, p

LEMMA NewSavesFit ==
    ASSUME SettingsIInv, UNCHANGED row, row \in [Conns -> Rows],
           SubmitForm \/ (\E f \in Fields : \E v \in Patchable(f) : PatchElsewhere(f, v))
    PROVE  SettingsIInv'
<1>1. CASE SubmitForm
  <2> DEFINE p == NewSave(SentBy(page, form), sheet.seen.rev, entered)
  <2>1. form # None /\ UNCHANGED <<saved, sheet, page, form, entered, orphaned>>
    BY <1>1 DEF SubmitForm
  <2>2. PICK i \in Saves : FreeSave(i) /\ saves' = [saves EXCEPT ![i] = p] /\ pending' = i
    BY <1>1 DEF SubmitForm, NewSave
  <2>3. SaveFits(p, saved, row, orphaned) /\ p.mine
    BY <2>1, SentByFits
  <2>4. ~saves[i].mine
    BY <2>2, NoSaveIs DEF FreeSave
  <2> HIDE DEF p
  <2> QED BY <2>1, <2>2, <2>3, <2>4, SaveStep
<1>2. ASSUME NEW f \in Fields, NEW v \in Patchable(f), PatchElsewhere(f, v) PROVE SettingsIInv'
  <2> DEFINE sent == [g \in {f} |-> v]
             p == OtherSave(sent)
  <2>1. UNCHANGED <<saved, sheet, page, form, entered, pending, orphaned>>
    BY <1>2 DEF PatchElsewhere
  <2>2. PICK i \in Saves : FreeSave(i) /\ saves' = [saves EXCEPT ![i] = p]
    BY <1>2 DEF PatchElsewhere, OtherSave
  <2>3. Fits(f, v)
    <3>1. \A c \in Channels : row[c].id \in Nat
      BY ConnectionFacts DEF Rows
    <3> QED BY <3>1 DEF Patchable, Fits, Words, References
  <2>4. sent \in [{f} -> Texts \cup References \cup {None}] /\ {f} \in SUBSET Fields /\ sent[f] = v /\ DOMAIN sent = {f}
    BY <2>3 DEF Fits, Texts
  <2> HIDE DEF sent
  <2>5. p \in SaveRecords /\ p.st = "sent" /\ p.sent = sent /\ ~p.mine /\ p.answer = Blank
    BY <2>4, OtherSaveIs
  <2> HIDE DEF p
  <2>6. saves[i] = NoSave
    BY <2>2 DEF FreeSave
  <2>7. SaveFits(p, saved, row, orphaned)
    <3>1. FitSave(p)
      BY <2>3, <2>4, <2>5 DEF FitSave, FitsForm
    <3>2. Agrees(Blank, saved, row, orphaned)
      BY BlankAgrees DEF SettingsIInv
    <3> QED BY <2>5, <3>1, <3>2 DEF SaveFits, SentFits, LoadedFits, AnswerFits
  <2>8. pending # i
    BY <2>6, NoSaveIs, SettingsAssumption DEF SettingsIInv, PendingInv, Saving, SettingsAssumption
  <2> QED BY <2>1, <2>2, <2>6, <2>7, <2>8, NoSaveIs, SaveStep
<1> QED BY <1>1, <1>2

\* The form is used: a value is entered, or the settings are fetched again.
LEMMA FormUsed ==
    ASSUME SettingsIInv, ConnectionIInv, UNCHANGED row,
           RefetchSettings \/ (\E f \in Fields : \E v \in Enterable(f) : EnterField(f, v))
    PROVE  SettingsIInv'
<1> USE DEF SettingsIInv
<1>1. CASE RefetchSettings
  <2> DEFINE b == Asked(sheet)
  <2>1. sheet' = b /\ UNCHANGED <<saved, page, form, entered, saves, pending, orphaned>>
    BY <1>1 DEF RefetchSettings
  <2>2. /\ b \in Entries(Sheets) /\ b.st = sheet.st /\ b.known = sheet.known /\ b.seen = sheet.seen
        /\ b.untold = sheet.untold /\ b.coming = sheet.coming /\ b.met = sheet.met
        /\ b.call = "read" => sheet.call = "read"
    BY SettingsTypes, AskedKeeps
  <2> HIDE DEF b
  <2>3. SheetFits(b, saved, row, orphaned)
    BY <2>2 DEF SheetFits
  <2>4. FormFits(b, page, form, entered, row, orphaned)
    BY <2>2, FormKept DEF FormInv
  <2>5. SheetIsCurrent'
    BY <2>1, <2>2 DEF SheetIsCurrent
  <2>6. PendingInv'
    BY <2>1 DEF PendingInv, Saving
  <2> QED BY <2>1, <2>3, <2>4, <2>5, <2>6 DEF FormInv
<1>2. ASSUME NEW f \in Fields, NEW v \in Enterable(f), EnterField(f, v) PROVE SettingsIInv'
  <2>1. /\ form # None /\ f \in DOMAIN form /\ form' = [form EXCEPT ![f] = v] /\ entered' = entered \cup {f}
        /\ UNCHANGED <<saved, sheet, page, saves, pending, orphaned>>
    BY <1>2 DEF EnterField
  <2> DEFINE D == FieldsOf[page]
  <2>2. /\ HasForm(sheet, page) /\ form \in [D -> Texts \cup References \cup {None}] /\ entered \subseteq D
        /\ \A g \in D : FitsForm(g, form[g]) /\ (g \notin entered => form[g] = ShownBy(page, sheet.seen.fields)[g])
        /\ Channel \in D => Known(form[Channel], row, orphaned)
    BY <2>1 DEF FormInv, FormFits
  <2>3. FitsForm(f, v) /\ (f = Channel => Known(v, row, orphaned))
    <3>1. CASE f # Channel
      BY <3>1 DEF Enterable, FitsForm, Fits, Words, Texts
    <3>2. CASE f = Channel /\ v = None
      BY <3>2 DEF FitsForm, Fits, Known
    <3>3. CASE f = Channel /\ v # None
      <4>1. PICK c \in {d \in Channels : Listed(d)} : v = <<c, books[ListOf(c)].seen[c].id>>
        BY <3>3, SectionFacts DEF Enterable
      <4>2. c \in Conns /\ c \in Channels
        BY <4>1, ConnectionFacts
      <4>3. books[ListOf(c)].seen[c] \in Rows /\ Known(v, row, orphaned)
        BY <4>1, <4>2, SeenIs
      <4>4. v \in References
        BY <4>1, <4>3 DEF References, Rows
      <4> QED BY <3>3, <4>3, <4>4 DEF FitsForm, Fits
    <3> QED BY <3>1, <3>2, <3>3
  <2>4. v \in Texts \cup References \cup {None}
    BY <2>3 DEF FitsForm, Fits, Texts
  <2>5. form' \in [D -> Texts \cup References \cup {None}] /\ D \subseteq Fields
    BY <2>1, <2>2, <2>4, SectionFacts DEF HasForm
  <2>6. form' # None
    BY <2>5, NoneIsNoForm
  <2>7. FormFits(sheet, page, form', entered', row, orphaned)
    <3>1. form'[f] = v /\ f \in D /\ \A g \in D \ {f} : form'[g] = form[g]
      BY <2>1, <2>2
    <3> HIDE DEF D
    <3>2. entered' \subseteq D
      BY <2>1, <2>2, <3>1
    <3>3. \A g \in D : FitsForm(g, form'[g]) /\ (g \notin entered' => form'[g] = ShownBy(page, sheet.seen.fields)[g])
      BY <2>1, <2>2, <2>3, <3>1
    <3>4. Channel \in D => Known(form'[Channel], row, orphaned)
      BY <2>2, <2>3, <3>1
    <3> QED BY <2>2, <2>5, <2>6, <3>2, <3>3, <3>4 DEF FormFits, D
  <2>8. SheetIsCurrent'
    BY <2>1 DEF SheetIsCurrent
  <2>9. PendingInv'
    BY <2>1, <2>6 DEF PendingInv, Saving
  <2> QED BY <2>1, <2>7, <2>8, <2>9 DEF FormInv
<1> QED BY <1>1, <1>2

LEMMA UnspunFits ==
    ASSUME PendingInv, saves' = saves, pending' = Unspun
    PROVE  PendingInv'
BY DEF PendingInv, Unspun, Saving

LEMMA SheetQueries ==
    ASSUME SettingsIInv, UNCHANGED row, ReadSettings \/ SettingsArrive
    PROVE  SettingsIInv'
<1> USE DEF SettingsIInv
<1>1. CASE ReadSettings
  <2> DEFINE d == ReadOf(saved)
             b == Served(sheet, d)
  <2>1. sheet' = b /\ UNCHANGED <<saved, page, form, entered, saves, pending, orphaned>>
    BY <1>1 DEF ReadSettings
  <2>2. d \in Sheets /\ d.rev = saved.rev /\ d.fields = ReadOf(saved).fields /\ d = ReadOf(saved)
    BY SettingsTypes
  <2> HIDE DEF d
  <2>3. /\ b \in Entries(Sheets) /\ b.st = sheet.st /\ b.known = sheet.known /\ b.seen = sheet.seen
        /\ b.untold = sheet.untold /\ b.coming = d
    BY <2>2, SettingsTypes, ServedIs
  <2> HIDE DEF b
  <2>4. Agrees(d, saved, row, orphaned)
    <3>1. d.fields[Channel] # None => saved.row # None /\ d.fields[Channel] = saved.row[Channel]
      BY <2>2, SettingsTypes, ReadOfIs, SectionFacts DEF Defaults
    <3>2. d.fields[Channel] # None => IsThere(d.fields[Channel], row)
      BY <3>1 DEF SavedFits
    <3>3. d.fields[Channel] \in References \cup {None}
      BY <2>2, SectionFacts DEF Sheets, SettingsRows, Fits
    <3>4. Known(d.fields[Channel], row, orphaned)
      BY <3>2, <3>3 DEF Known, IsThere, References
    <3> QED BY <2>2, <3>4, SettingsTypes DEF Agrees
  <2>5. SheetFits(b, saved, row, orphaned)
    BY <2>2, <2>3, <2>4 DEF SheetFits
  <2>6. FormFits(b, page, form, entered, row, orphaned)
    BY <2>3, FormKept DEF FormInv
  <2>7. SheetIsCurrent'
    BY <2>1, <2>3 DEF SheetIsCurrent
  <2>8. PendingInv'
    BY <2>1 DEF PendingInv, Saving
  <2> QED BY <2>1, <2>5, <2>6, <2>7, <2>8 DEF FormInv
<1>2. CASE SettingsArrive
  <2>1. sheet.call = "read" /\ Refill /\ pending' = Unspun /\ UNCHANGED <<saved, page, saves, orphaned>>
    BY <1>2 DEF SettingsArrive
  <2>2. Blank \in Sheets /\ Agrees(Blank, saved, row, orphaned)
    BY BlankIs, BlankAgrees
  <2>3. SheetFits(sheet', saved, row, orphaned) /\ SheetIsCurrent'
    <3>1. CASE sheet' = Arrived(sheet, Blank)
      <4> DEFINE b == Arrived(sheet, Blank)
      <4>1. /\ b \in Entries(Sheets) /\ b.st = "ok" /\ b.seen = sheet.coming /\ b.untold = sheet.met
            /\ b.coming = Blank /\ b.call = "none"
        BY <2>2, SettingsTypes, ArrivedIs
      <4> HIDE DEF b
      <4>2. sheet' = b
        BY <3>1 DEF b
      <4>3. SheetFits(b, saved, row, orphaned)
        BY <2>2, <4>1 DEF SheetFits
      <4>4. ~sheet'.untold => sheet'.seen = ReadOf(saved)
        BY <2>1, <4>1, <4>2 DEF SheetFits
      <4> QED BY <2>1, <4>2, <4>3, <4>4 DEF SheetIsCurrent
    <3>2. CASE sheet' = Failed(sheet, Blank)
      <4> DEFINE b == Failed(sheet, Blank)
      <4>1. /\ b \in Entries(Sheets) /\ b.st = "error" /\ b.seen = sheet.seen
            /\ b.coming = Blank /\ b.call = "none"
        BY <2>2, SettingsTypes, FailedIs
      <4> HIDE DEF b
      <4>2. sheet' = b
        BY <3>2 DEF b
      <4>3. SheetFits(b, saved, row, orphaned)
        BY <2>2, <4>1 DEF SheetFits
      <4> QED BY <4>1, <4>2, <4>3 DEF SheetIsCurrent
    <3> QED BY <1>2, <3>1, <3>2 DEF SettingsArrive
  <2>4. sheet'.seen \in Sheets /\ Known(sheet'.seen.fields[Channel], row, orphaned)
    BY <2>3 DEF SheetFits, Agrees
  <2>5. FormInv'
    BY <2>1, <2>4, RefillFits, SettingsTypes DEF FormInv
  <2>6. PendingInv'
    BY <2>1, UnspunFits
  <2> QED BY <2>1, <2>3, <2>5, <2>6
<1> QED BY <1>1, <1>2

-----------------------------------------------------------------------------
(* The server's side of a save *)

LoadedSave(p, saw) == [p EXCEPT !.st = "loaded", !.saw = saw]
EndedSave(p, st) == [p EXCEPT !.st = st]
AnsweredSave(p, st, answer) == [p EXCEPT !.st = st, !.answer = answer]
SameSave(m, p) == m.sent = p.sent /\ m.mine = p.mine /\ m.of = p.of /\ m.entered = p.entered

LEMMA LoadedSaveIs ==
    ASSUME NEW p \in SaveRecords, NEW saw \in SettingsRows \cup {None}
    PROVE  LET m == LoadedSave(p, saw) IN
           m \in SaveRecords /\ m.st = "loaded" /\ m.saw = saw /\ SameSave(m, p) /\ m.answer = p.answer
           /\ m.overtaken = p.overtaken /\ m.late = p.late
BY DEF LoadedSave, SaveRecords, SameSave

LEMMA EndedSaveIs ==
    ASSUME NEW p \in SaveRecords, NEW st \in {"found", "refused"}
    PROVE  LET m == EndedSave(p, st) IN
           m \in SaveRecords /\ m.st = st /\ SameSave(m, p) /\ m.answer = p.answer /\ m.overtaken = p.overtaken
BY DEF EndedSave, SaveRecords, SameSave

LEMMA AnsweredSaveIs ==
    ASSUME NEW p \in SaveRecords, NEW st \in {"ok", "error"}, NEW answer \in Sheets
    PROVE  LET m == AnsweredSave(p, st, answer) IN
           m \in SaveRecords /\ m.st = st /\ m.answer = answer /\ SameSave(m, p) /\ m.overtaken = p.overtaken
BY DEF AnsweredSave, SaveRecords, SameSave

\* A save that is refused, or whose channel was found.
LEMMA EndedFits ==
    ASSUME SettingsIInv, UNCHANGED row, NEW i \in Saves, saves[i].st = "sent",
           UNCHANGED <<saved, sheet, page, form, entered, pending, orphaned>>,
           NEW st \in {"found", "refused"}, saves' = [saves EXCEPT ![i] = EndedSave(saves[i], st)],
           st = "found" => Accepted(saves[i].sent),
           st = "refused" /\ saves[i].mine => orphaned \/ ~Accepted(saves[i].sent)
    PROVE  SettingsIInv'
<1> DEFINE p == saves[i]
           m == EndedSave(p, st)
<1>1. p \in SaveRecords /\ SaveFits(p, saved, row, orphaned)
  BY SettingsTypes DEF SettingsIInv
<1>2. p.st = "sent" /\ (st = "found" => Accepted(p.sent)) /\ saves' = [saves EXCEPT ![i] = m]
  OBVIOUS
<1>3. st = "refused" /\ p.mine => orphaned \/ (Language \in p.entered /\ ~Accepted(p.sent))
  BY <1>1 DEF SaveFits, SentFits
<1> HIDE DEF p
<1>4. m \in SaveRecords /\ m.st = st /\ SameSave(m, p) /\ m.answer = p.answer /\ m.overtaken = p.overtaken
  BY <1>1, EndedSaveIs
<1> HIDE DEF m
<1>5. SaveFits(m, saved, row, orphaned)
  <2>1. FitSave(m)
    BY <1>1, <1>4 DEF SaveFits, FitSave, SameSave
  <2>2. SentFits(m, saved, row, orphaned)
    BY <1>1, <1>2, <1>4 DEF SaveFits, SentFits, SendsEdits, SameSave
  <2>3. LoadedFits(m, saved)
    BY <1>2, <1>4 DEF LoadedFits, SameSave
  <2>4. AnswerFits(m, saved, row, orphaned)
    BY <1>1, <1>3, <1>4 DEF SaveFits, AnswerFits, SameSave
  <2> QED BY <2>1, <2>2, <2>3, <2>4 DEF SaveFits
<1>6. pending = i => m.mine
  BY <1>4, SettingsAssumption DEF SettingsAssumption, SettingsIInv, PendingInv, Saving, SameSave, p
<1> QED BY <1>2, <1>5, <1>6, SaveStep DEF p

LEMMA RejectFits ==
    ASSUME SettingsIInv, UNCHANGED row, NEW i \in Saves, RejectSettings(i)
    PROVE  SettingsIInv'
<1>1. /\ saves[i].st = "sent" /\ ~Accepted(saves[i].sent)
      /\ UNCHANGED <<saved, sheet, page, form, entered, pending, orphaned>>
      /\ saves' = [saves EXCEPT ![i] = EndedSave(saves[i], "refused")]
  BY DEF RejectSettings, EndedSave
<1> QED BY <1>1, EndedFits

LEMMA FindFits ==
    ASSUME SettingsIInv, UNCHANGED row, NEW i \in Saves, FindChannel(i)
    PROVE  SettingsIInv'
<1> DEFINE p == saves[i]
           lost == Channel \in DOMAIN p.sent /\ p.sent[Channel] # None /\ ~Exists(p.sent[Channel])
           st == IF lost THEN "refused" ELSE "found"
<1>1. /\ saves[i].st = "sent" /\ Accepted(saves[i].sent)
      /\ UNCHANGED <<saved, sheet, page, form, entered, pending, orphaned>>
      /\ saves' = [saves EXCEPT ![i] = EndedSave(saves[i], st)]
  BY DEF FindChannel, EndedSave
<1>2. SaveFits(p, saved, row, orphaned)
  BY DEF SettingsIInv
<1>3. st \in {"found", "refused"}
  OBVIOUS
<1>4. st = "refused" /\ saves[i].mine => orphaned
  BY <1>2 DEF SaveFits, SentFits, Known, Exists, IsThere
<1> HIDE DEF st
<1> QED BY <1>1, <1>3, <1>4, EndedFits

LEMMA LoadFits ==
    ASSUME SettingsIInv, UNCHANGED row, NEW i \in Saves, LoadSettings(i)
    PROVE  SettingsIInv'
<1> DEFINE p == saves[i]
           m == LoadedSave(p, saved.row)
<1>1. p.st = "found" /\ UNCHANGED <<saved, sheet, page, form, entered, pending, orphaned>>
  BY DEF LoadSettings
<1>2. saves' = [saves EXCEPT ![i] = m]
  BY DEF LoadSettings, LoadedSave
<1>3. p \in SaveRecords /\ SaveFits(p, saved, row, orphaned) /\ saved.row \in SettingsRows \cup {None}
  BY SettingsTypes DEF SettingsIInv
<1> HIDE DEF p
<1>4. m \in SaveRecords /\ m.st = "loaded" /\ m.saw = saved.row /\ SameSave(m, p) /\ m.answer = p.answer
      /\ m.overtaken = p.overtaken /\ m.late = p.late
  BY <1>3, LoadedSaveIs
<1> HIDE DEF m
<1>5. SaveFits(m, saved, row, orphaned)
  <2>1. FitSave(m)
    BY <1>3, <1>4 DEF SaveFits, FitSave, SameSave
  <2>2. SentFits(m, saved, row, orphaned)
    BY <1>1, <1>3, <1>4 DEF SaveFits, SentFits, SendsEdits, SameSave
  <2>3. LoadedFits(m, saved)
    BY <1>1, <1>3, <1>4 DEF SaveFits, LoadedFits, SameSave
  <2>4. AnswerFits(m, saved, row, orphaned)
    BY <1>3, <1>4 DEF SaveFits, AnswerFits, SameSave
  <2> QED BY <2>1, <2>2, <2>3, <2>4 DEF SaveFits
<1>6. pending = i => m.mine
  BY <1>4, SettingsAssumption DEF SettingsAssumption, SettingsIInv, PendingInv, Saving, SameSave, p
<1> QED BY <1>1, <1>2, <1>5, <1>6, SaveStep DEF p

\* What the row becomes has all its columns.
LEMMA RowAfterIs ==
    ASSUME SettingsIInv, NEW i \in Saves, saves[i].st = "loaded"
    PROVE  LET p == saves[i]
               new == RowAfter(saved.row, p) IN
           /\ new \in SettingsRows
           /\ \A f \in Fields : new[f] = IF f \in DOMAIN p.sent /\ (p.saw = None \/ p.sent[f] # p.saw[f]) THEN p.sent[f]
                                         ELSE IF p.saw = None THEN Defaults[f] ELSE saved.row[f]
           /\ p.saw # None => saved.row # None
<1> DEFINE p == saves[i]
           new == RowAfter(saved.row, p)
<1>1. SaveFits(p, saved, row, orphaned) /\ (saved.row # None => saved.row \in SettingsRows)
  BY SettingsTypes DEF SettingsIInv
<1>2. \A f \in DOMAIN p.sent : f \in Fields /\ Fits(f, p.sent[f])
  BY <1>1 DEF SaveFits, FitSave, FitsForm, LoadedFits, Accepted
<1>3. p.saw # None => saved.row # None
  BY <1>1 DEF SaveFits, LoadedFits
<1>4. \A r \in SettingsRows : \A f \in Fields : Fits(f, r[f])
  BY DEF SettingsRows
<1>5. Defaults \in SettingsRows
  BY SettingsRowsAre
<1>6. new = [f \in Fields |-> IF f \in DOMAIN p.sent /\ (p.saw = None \/ p.sent[f] # p.saw[f]) THEN p.sent[f]
                             ELSE IF p.saw = None THEN Defaults[f] ELSE saved.row[f]]
  BY DEF RowAfter, NewRow, ChangedRow, Over
<1>7. \A f \in Fields : Fits(f, new[f])
  BY <1>1, <1>2, <1>3, <1>4, <1>5, <1>6
<1>8. \A f \in Fields : \A v : Fits(f, v) => v \in Words \cup References \cup {None}
  BY DEF Fits
<1> HIDE DEF p, new
<1>9. new \in [Fields -> Words \cup References \cup {None}]
  BY <1>6, <1>7, <1>8
<1> QED BY <1>3, <1>6, <1>7, <1>9 DEF SettingsRows, p, new

LEMMA RefuseFits ==
    ASSUME SettingsIInv, UNCHANGED row, NEW i \in Saves, RefuseSettings(i)
    PROVE  SettingsIInv'
<1> DEFINE p == saves[i]
           m == EndedSave(p, "refused")
           new == RowAfter(saved.row, p)
<1>1. p.st = "loaded" /\ Violates(saved.row, p) /\ UNCHANGED <<saved, sheet, page, form, entered, pending, orphaned>>
  BY DEF RefuseSettings
<1>2. saves' = [saves EXCEPT ![i] = m]
  BY DEF RefuseSettings, EndedSave
<1>3. p \in SaveRecords /\ SaveFits(p, saved, row, orphaned)
  BY SettingsTypes DEF SettingsIInv
<1>4. p.mine => p.overtaken \/ orphaned
  <2> SUFFICES ASSUME p.mine, ~p.overtaken, ~orphaned PROVE FALSE
    OBVIOUS
  <2>1. p.saw = saved.row
    BY <1>1, <1>3 DEF SaveFits, LoadedFits
  <2>2. new[Channel] # None /\ ~IsThere(new[Channel], row)
    BY <1>1, <2>1 DEF Violates, Exists, IsThere
  <2>3. new[Channel] = IF Channel \in DOMAIN p.sent /\ (p.saw = None \/ p.sent[Channel] # p.saw[Channel]) THEN p.sent[Channel]
                       ELSE IF p.saw = None THEN Defaults[Channel] ELSE saved.row[Channel]
    BY <1>1, RowAfterIs, SectionFacts
  <2>4. Channel \in DOMAIN p.sent => Known(p.sent[Channel], row, orphaned)
    BY <1>3 DEF SaveFits, SentFits
  <2>5. Defaults[Channel] = None
    BY SectionFacts DEF Defaults
  <2>6. saved.row # None /\ saved.row[Channel] # None => IsThere(saved.row[Channel], row)
    BY DEF SettingsIInv, SavedFits
  <2> HIDE DEF p, new
  <2> QED BY <2>1, <2>2, <2>3, <2>4, <2>5, <2>6 DEF Known
<1> HIDE DEF p
<1>5. m \in SaveRecords /\ m.st = "refused" /\ SameSave(m, p) /\ m.answer = p.answer /\ m.overtaken = p.overtaken
  BY <1>3, EndedSaveIs
<1> HIDE DEF m
<1>6. SaveFits(m, saved, row, orphaned)
  <2>1. FitSave(m)
    BY <1>3, <1>5 DEF SaveFits, FitSave, SameSave
  <2>2. SentFits(m, saved, row, orphaned)
    BY <1>3, <1>5 DEF SaveFits, SentFits, SameSave
  <2>3. LoadedFits(m, saved)
    BY <1>5 DEF LoadedFits
  <2>4. AnswerFits(m, saved, row, orphaned)
    BY <1>3, <1>4, <1>5 DEF SaveFits, AnswerFits, SameSave
  <2> QED BY <2>1, <2>2, <2>3, <2>4 DEF SaveFits
<1>7. pending = i => m.mine
  BY <1>5, SettingsAssumption DEF SettingsAssumption, SettingsIInv, PendingInv, Saving, SameSave, p
<1> QED BY <1>1, <1>2, <1>6, <1>7, SaveStep DEF p

\* What a commit does to the row of the settings: it moves on, or stays what it was.
LEMMA CommitSaved ==
    ASSUME SettingsIInv, row \in [Conns -> Rows], NEW i \in Saves, CommitSettings(i)
    PROVE  LET p == saves[i]
               writes == p.saw = None \/ \E f \in DOMAIN p.sent : p.sent[f] # p.saw[f] IN
           /\ saved'.row = RowAfter(saved.row, p) /\ saved'.row # None
           /\ writes => saved'.rev = saved.rev + 1
           /\ ~writes => saved' = saved
           /\ SavedFits(saved', row) /\ SettingsMove(saved, saved', row)
           /\ ReadOf(saved') \in Sheets /\ ReadOf(saved').rev = saved'.rev /\ ReadOf(saved').fields = saved'.row
           /\ Agrees(ReadOf(saved'), saved', row, orphaned)
<1> DEFINE p == saves[i]
           new == RowAfter(saved.row, p)
           writes == p.saw = None \/ \E f \in DOMAIN p.sent : p.sent[f] # p.saw[f]
<1>1. /\ p.st = "loaded" /\ ~Violates(saved.row, p)
      /\ saved' = [row |-> new, rev |-> IF writes THEN saved.rev + 1 ELSE saved.rev]
  BY DEF CommitSettings
<1>2. /\ new \in SettingsRows
      /\ \A f \in Fields : new[f] = IF f \in DOMAIN p.sent /\ (p.saw = None \/ p.sent[f] # p.saw[f]) THEN p.sent[f]
                                    ELSE IF p.saw = None THEN Defaults[f] ELSE saved.row[f]
      /\ p.saw # None => saved.row # None
  BY <1>1, RowAfterIs
<1>3. saved.rev \in Nat /\ (saved.row # None => saved.row \in SettingsRows /\ saved.rev > 0)
      /\ saved = [row |-> saved.row, rev |-> saved.rev]
  BY SettingsTypes DEF SettingsIInv, SavedFits
<1>4. new[Channel] # None => IsThere(new[Channel], row)
  BY <1>1 DEF Violates, Exists, IsThere
<1> HIDE DEF p, new
<1>5. saved'.row = new /\ (writes => saved'.rev = saved.rev + 1) /\ (~writes => saved'.rev = saved.rev) /\ saved'.rev \in Nat
      /\ saved' = [row |-> saved'.row, rev |-> saved'.rev]
  BY <1>1, <1>3
<1>6. new # None
  BY <1>2, SettingsRowsAre
<1>7. ASSUME ~writes PROVE saved' = saved
  <2>1. saved.row # None /\ saved.row \in SettingsRows
    BY <1>2, <1>3, <1>7
  <2>2. \A f \in Fields : new[f] = saved.row[f]
    BY <1>2, <1>7
  <2>3. new = saved.row
    BY <1>2, <2>1, <2>2 DEF SettingsRows
  <2> QED BY <1>3, <1>5, <1>7, <2>3
<1>8. SavedFits(saved', row)
  <2>1. saved'.rev > 0
    BY <1>2, <1>3, <1>5
  <2>2. IsSettingsRow(new)
    BY <1>2, SettingsRowsAre
  <2> QED BY <1>4, <1>5, <2>1, <2>2 DEF SavedFits
<1>9. SettingsMove(saved, saved', row)
  BY <1>3, <1>5, <1>6, <1>7 DEF SettingsMove
<1>10. ReadOf(saved') \in Sheets /\ ReadOf(saved').rev = saved'.rev /\ ReadOf(saved').fields = new
  BY <1>2, <1>5, <1>6, ReadOfIs
<1>11. Agrees(ReadOf(saved'), saved', row, orphaned)
  <2>1. new[Channel] \in References \cup {None}
    BY <1>2, SectionFacts DEF SettingsRows, Fits
  <2>2. Known(new[Channel], row, orphaned)
    BY <1>4, <2>1 DEF Known, IsThere, References
  <2> QED BY <1>5, <1>10, <2>2 DEF Agrees
<1> QED BY <1>1, <1>5, <1>6, <1>7, <1>8, <1>9, <1>10, <1>11 DEF p, new

LEMMA CommitSaves ==
    ASSUME SettingsIInv, row \in [Conns -> Rows], NEW i \in Saves, CommitSettings(i)
    PROVE  \E answer \in {"ok", "error"} :
             /\ saves'[i] = AnsweredSave(saves[i], answer, ReadOf(saved'))
             /\ \A j \in Saves \ {i} : saves'[j] = Passed(saves[j])
             /\ saves' = [j \in Saves |-> saves'[j]]
             /\ LET p == saves[i]
                    writes == p.saw = None \/ \E f \in DOMAIN p.sent : p.sent[f] # p.saw[f] IN
                /\ ~writes => sheet' = sheet
                /\ writes /\ p.mine /\ answer = "ok" => sheet' = ChangedHere(sheet)
                /\ writes /\ ~(p.mine /\ answer = "ok") => sheet' = ChangedUntold(sheet)
<1> DEFINE p == saves[i]
           writes == p.saw = None \/ \E f \in DOMAIN p.sent : p.sent[f] # p.saw[f]
<1>1. PICK answer \in {"ok", "error"} :
        /\ saves' = Heard(i, answer, ReadOf(saved'))
        /\ sheet' = CASE ~writes -> sheet
                      [] writes /\ p.mine /\ answer = "ok" -> ChangedHere(sheet)
                      [] OTHER -> ChangedUntold(sheet)
  BY DEF CommitSettings
<1>2. saves'[i] = AnsweredSave(saves[i], answer, ReadOf(saved'))
  BY <1>1 DEF Heard, AnsweredSave
<1>3. \A j \in Saves \ {i} : saves'[j] = Passed(saves[j])
  BY <1>1 DEF Heard, Passed
<1>4. saves' = [j \in Saves |-> saves'[j]]
  BY <1>1 DEF Heard
<1>5. /\ ~writes => sheet' = sheet
      /\ writes /\ p.mine /\ answer = "ok" => sheet' = ChangedHere(sheet)
      /\ writes /\ ~(p.mine /\ answer = "ok") => sheet' = ChangedUntold(sheet)
  BY <1>1
<1> QED BY <1>2, <1>3, <1>4, <1>5

\* The save that is committed has the row it wrote as its answer, and every value it sent, unless overtaken.
LEMMA AnswerIs ==
    ASSUME SettingsIInv, row \in [Conns -> Rows], NEW i \in Saves, CommitSettings(i), NEW answer \in {"ok", "error"}
    PROVE  LET m == AnsweredSave(saves[i], answer, ReadOf(saved')) IN
           SaveFits(m, saved', row, orphaned) /\ m.mine = saves[i].mine /\ m.st = answer
<1> DEFINE p == saves[i]
           x == ReadOf(saved')
           m == AnsweredSave(p, answer, x)
<1>1. /\ p.st = "loaded" /\ p \in SaveRecords /\ SaveFits(p, saved, row, orphaned)
  BY SettingsTypes DEF CommitSettings, SettingsIInv
<1>2. /\ saved'.row = RowAfter(saved.row, p) /\ SavedFits(saved', row) /\ SettingsMove(saved, saved', row)
      /\ x \in Sheets /\ x.fields = saved'.row /\ Agrees(x, saved', row, orphaned)
  BY CommitSaved
<1>3. /\ \A f \in Fields : saved'.row[f] = IF f \in DOMAIN p.sent /\ (p.saw = None \/ p.sent[f] # p.saw[f]) THEN p.sent[f]
                                           ELSE IF p.saw = None THEN Defaults[f] ELSE saved.row[f]
      /\ p.saw # None => saved.row # None
  BY <1>1, <1>2, RowAfterIs
<1>4. SavedFits(saved, row) /\ saved.rev \in Nat
  BY SettingsTypes DEF SettingsIInv
<1>5. x = ReadOf(saved')
  OBVIOUS
<1> HIDE DEF p, x
<1>6. m \in SaveRecords /\ m.st = answer /\ m.answer = x /\ SameSave(m, p) /\ m.overtaken = p.overtaken
  BY <1>1, <1>2, AnsweredSaveIs
<1> HIDE DEF m
<1>7. FitSave(m)
  BY <1>1, <1>6 DEF SaveFits, FitSave, SameSave
<1>8. SentFits(m, saved', row, orphaned)
  <2>1. saved'.rev \in Nat /\ saved.rev <= saved'.rev
    BY <1>2, <1>4 DEF SavedFits, SettingsMove
  <2>2. p.of \in Nat
    BY <1>1 DEF SaveRecords
  <2> QED BY <1>1, <1>4, <1>6, <2>1, <2>2 DEF SaveFits, SentFits, SameSave
<1>9. LoadedFits(m, saved')
  BY <1>6 DEF LoadedFits
<1>10. AnswerFits(m, saved', row, orphaned)
  <2>1. ASSUME ~p.overtaken, NEW f \in DOMAIN p.sent PROVE x.fields[f] = p.sent[f]
    <3>1. f \in Fields /\ p.saw = saved.row
      BY <1>1, <2>1 DEF SaveFits, FitSave, LoadedFits
    <3> QED BY <1>2, <1>3, <3>1
  <2> QED BY <1>2, <1>5, <1>6, <2>1 DEF AnswerFits, SameSave
<1> QED BY <1>6, <1>7, <1>8, <1>9, <1>10 DEF SaveFits, SameSave, p, x, m

\* The cached settings when those written move on, and the browser hears of it or will not.
LEMMA SheetHears ==
    ASSUME NEW r \in [Conns -> Rows], NEW q \in [Conns -> Rows], NEW o, NEW n, RowsMove(r, q, o, n),
           NEW s, NEW t, SavedFits(s, r), SavedFits(t, q), SettingsMove(s, t, q),
           NEW b, SheetFits(b, s, r, o), NEW m,
           m = ChangedHere(b) \/ m = ChangedUntold(b) \/ (m = b /\ t = s)
    PROVE  /\ SheetFits(m, t, q, n) /\ m.st = b.st /\ m.known = b.known /\ m.seen = b.seen
           /\ m = ChangedUntold(b) => m.untold
<1>1. b \in Entries(Sheets)
  BY DEF SheetFits
<1>2. Agrees(b.seen, t, q, n) /\ Agrees(b.coming, t, q, n)
  BY AgreesStays DEF SheetFits
<1>3. CASE m = ChangedHere(b)
  <2>1. /\ m \in Entries(Sheets) /\ m.st = b.st /\ m.known = b.known /\ m.seen = b.seen /\ m.untold = b.untold
        /\ m.coming = b.coming /\ (m.call = "read" => m.met)
    BY <1>1, <1>3, ChangedHereIs
  <2>2. m = ChangedUntold(b) => m.untold
    BY <1>1, ChangedUntoldIs
  <2> QED BY <1>2, <2>1, <2>2 DEF SheetFits
<1>4. CASE m = ChangedUntold(b)
  <2>1. /\ m \in Entries(Sheets) /\ m.st = b.st /\ m.known = b.known /\ m.seen = b.seen /\ m.untold
        /\ m.coming = b.coming /\ (m.call = "read" => m.met)
    BY <1>1, <1>4, ChangedUntoldIs
  <2> QED BY <1>2, <2>1 DEF SheetFits
<1>5. CASE m = b /\ t = s
  <2>1. m = ChangedUntold(b) => m.untold
    BY <1>1, ChangedUntoldIs
  <2> QED BY <1>1, <1>2, <1>5, <2>1 DEF SheetFits
<1> QED BY <1>3, <1>4, <1>5

LEMMA CommitFits ==
    ASSUME SettingsIInv, UNCHANGED row, row \in [Conns -> Rows], NEW i \in Saves, CommitSettings(i)
    PROVE  SettingsIInv'
<1> USE DEF SettingsIInv
<1> DEFINE p == saves[i]
           writes == p.saw = None \/ \E f \in DOMAIN p.sent : p.sent[f] # p.saw[f]
<1>1. UNCHANGED <<page, form, entered, pending, orphaned>> /\ p.st = "loaded"
  BY DEF CommitSettings
<1>2. /\ ~writes => saved' = saved
      /\ SavedFits(saved', row) /\ SettingsMove(saved, saved', row)
  BY CommitSaved
<1>3. PICK answer \in {"ok", "error"} :
        /\ saves'[i] = AnsweredSave(saves[i], answer, ReadOf(saved'))
        /\ \A j \in Saves \ {i} : saves'[j] = Passed(saves[j])
        /\ saves' = [j \in Saves |-> saves'[j]]
        /\ ~writes => sheet' = sheet
        /\ writes /\ p.mine /\ answer = "ok" => sheet' = ChangedHere(sheet)
        /\ writes /\ ~(p.mine /\ answer = "ok") => sheet' = ChangedUntold(sheet)
  BY CommitSaves
<1>4. SaveFits(saves'[i], saved', row, orphaned) /\ saves'[i].mine = p.mine /\ saves'[i].st = answer
  BY <1>3, AnswerIs
<1>5. RowsMove(row, row, orphaned, orphaned)
  BY RowsStay
<1>6. ASSUME NEW j \in Saves, j # i
      PROVE  SaveFits(saves'[j], saved', row, orphaned) /\ saves'[j].mine = saves[j].mine /\ saves'[j].st = saves[j].st
  <2>1. SaveFits(saves[j], saved, row, orphaned)
    OBVIOUS
  <2>2. SaveFits(Passed(saves[j]), saved', row, orphaned)
    BY <1>2, <1>5, <2>1, SavePasses
  <2>3. Passed(saves[j]).mine = saves[j].mine /\ Passed(saves[j]).st = saves[j].st
    BY <2>1, PassedIs DEF SaveFits
  <2> QED BY <1>3, <1>6, <2>2, <2>3
<1>7. \A j \in Saves : SaveFits(saves'[j], saved', row', orphaned')
  BY <1>1, <1>4, <1>6
<1>8. sheet' = ChangedHere(sheet) \/ sheet' = ChangedUntold(sheet) \/ (sheet' = sheet /\ saved' = saved)
  BY <1>2, <1>3
<1>9. /\ SheetFits(sheet', saved', row, orphaned) /\ sheet'.st = sheet.st /\ sheet'.known = sheet.known
      /\ sheet'.seen = sheet.seen /\ (sheet' = ChangedUntold(sheet) => sheet'.untold)
  <2>1. SheetFits(sheet, saved, row, orphaned) /\ SavedFits(saved, row)
    OBVIOUS
  <2> QED BY <1>2, <1>5, <1>8, <2>1, SheetHears
<1>10. SheetIsCurrent'
  <2>1. SheetIsCurrent' <=> MineAnswered' \/ SheetFresh(sheet', saved')
    BY DEF SheetIsCurrent, MineAnswered, SheetFresh
  <2>2. MineAnswered \/ SheetFresh(sheet, saved)
    BY SheetCurrentIs
  <2>3. CASE ~writes
    <3>1. MineAnswered => MineAnswered'
      BY <1>1, <1>4, <1>6 DEF MineAnswered
    <3>2. SheetFresh(sheet, saved) => SheetFresh(sheet', saved')
      BY <1>2, <1>3, <2>3
    <3> QED BY <2>1, <2>2, <3>1, <3>2
  <2>4. CASE writes /\ p.mine /\ answer = "ok"
    <3>1. MineAnswered'
      BY <1>4, <2>4 DEF MineAnswered
    <3> QED BY <2>1, <3>1
  <2>5. CASE writes /\ ~(p.mine /\ answer = "ok")
    <3>1. sheet'.untold
      BY <1>3, <1>9, <2>5
    <3> QED BY <2>1, <3>1 DEF SheetFresh
  <2> QED BY <2>3, <2>4, <2>5
<1>11. FormInv'
  <2>1. FormFits(sheet, page, form, entered, row, orphaned)
    BY DEF FormInv
  <2>2. FormFits(sheet', page, form, entered, row, orphaned)
    BY <1>9, <2>1, FormKept
  <2> QED BY <1>1, <2>2 DEF FormInv
<1>12. PendingInv'
  <2>1. \A j \in Saves : saves'[j].mine = saves[j].mine
    BY <1>4, <1>6
  <2> QED BY <1>1, <2>1 DEF PendingInv, Saving
<1> QED BY <1>1, <1>2, <1>3, <1>7, <1>9, <1>10, <1>11, <1>12

\* The answer of a save is stored, and the form filled from it.
LEMMA AnswerStored ==
    ASSUME SettingsIInv, UNCHANGED row, row \in [Conns -> Rows], NEW i \in Saves, SettingsSaved(i)
    PROVE  SettingsIInv'
<1> USE DEF SettingsIInv
<1> DEFINE p == saves[i]
<1>1. /\ p.st \in {"ok", "error", "refused"} /\ saves' = [saves EXCEPT ![i] = NoSave] /\ sheet' = Recorded(i)
      /\ Refill /\ pending' = SpinAfter(i) /\ UNCHANGED <<saved, page, orphaned>>
  BY DEF SettingsSaved
<1>2. p \in SaveRecords /\ SaveFits(p, saved, row, orphaned) /\ p.late \in BOOLEAN /\ p.answer \in Sheets
  BY SettingsTypes DEF SaveRecords
<1>3. saves'[i] = NoSave /\ (\A j \in Saves \ {i} : saves'[j] = saves[j]) /\ saves' = [j \in Saves |-> saves'[j]]
  BY <1>1
<1>4. SaveFits(NoSave, saved, row, orphaned)
  <2>1. FitSave(NoSave)
    BY NoSaveIs DEF FitSave
  <2>2. Agrees(Blank, saved, row, orphaned)
    BY BlankAgrees
  <2> QED BY <2>1, <2>2, NoSaveIs DEF SaveFits, SentFits, LoadedFits, AnswerFits
<1>5. \A j \in Saves : SaveFits(saves'[j], saved', row', orphaned')
  BY <1>1, <1>3, <1>4
<1>6. SheetFits(sheet', saved, row, orphaned) /\ SheetIsCurrent'
  <2>1. SheetIsCurrent' <=> MineAnswered' \/ SheetFresh(sheet', saved')
    BY DEF SheetIsCurrent, MineAnswered, SheetFresh
  <2>2. CASE p.mine /\ p.st = "ok"
    <3> DEFINE b == Stored(sheet, p.answer, p.late)
    <3>1. sheet' = b
      BY <1>1, <2>2 DEF Recorded
    <3>2. /\ b \in Entries(Sheets) /\ b.st = "ok" /\ b.seen = p.answer /\ b.untold = p.late
          /\ b.coming = sheet.coming /\ b.call = sheet.call /\ b.met = sheet.met
      BY <1>2, SettingsTypes, StoredIs
    <3> HIDE DEF b, p
    <3>3. SheetFits(b, saved, row, orphaned)
      BY <1>2, <3>2 DEF SheetFits, SaveFits, AnswerFits
    <3>4. SheetFresh(b, saved)
      BY <1>2, <2>2, <3>2 DEF SheetFresh, SaveFits, AnswerFits
    <3> QED BY <1>1, <2>1, <3>1, <3>3, <3>4
  <2>3. CASE ~(p.mine /\ p.st = "ok")
    <3>1. sheet' = sheet
      BY <1>1, <2>3 DEF Recorded
    <3>2. MineAnswered => MineAnswered'
      BY <1>3, <2>3 DEF MineAnswered
    <3>3. MineAnswered \/ SheetFresh(sheet, saved)
      BY SheetCurrentIs
    <3> QED BY <1>1, <2>1, <3>1, <3>2, <3>3
  <2> QED BY <2>2, <2>3
<1>7. sheet'.seen \in Sheets /\ Known(sheet'.seen.fields[Channel], row, orphaned)
  BY <1>6 DEF SheetFits, Agrees
<1>8. FormInv'
  BY <1>1, <1>7, RefillFits, SettingsTypes DEF FormInv
<1>9. PendingInv'
  <2>1. pending' \in {pending, None} /\ (pending' # None => pending # i /\ form' # None)
    BY <1>1 DEF SpinAfter, Unspun
  <2> QED BY <1>3, <2>1 DEF PendingInv, Saving
<1> QED BY <1>1, <1>3, <1>5, <1>6, <1>8, <1>9

-----------------------------------------------------------------------------
(* The settings when a channel is removed, or another page opens *)

\* The row of the settings lets go of a channel that is removed, and of no other.
LEMMA ChannelGoes ==
    ASSUME ConnectionIInv, SettingsIInv, NEW i \in Calls, CommitCall(i)
    PROVE  SavedFits(saved', row') /\ SettingsMove(saved, saved', row')
<1> DEFINE c == calls[i]
           d == c.of
           now == row[d]
           new == Written(now, c)
           gone == d \in Channels /\ row[d].there /\ ~row'[d].there
<1>1. Commit(i) /\ saved' = IF gone THEN ChannelGone(d) ELSE saved
  BY DEF CommitCall
<1>2. /\ c \in Requests /\ FitRequest(c) /\ c # NoCall /\ d \in Conns /\ c.st = "told"
      /\ now \in Rows /\ Finds(now, c)
      /\ row'[d] = new /\ \A e \in Conns \ {d} : row'[e] = row[e]
  BY <1>1, CommitFacts
<1>3. now.there /\ new.there => new.id = now.id
  BY <1>2, WrittenIs
<1>4. SavedFits(saved, row) /\ (saved.row # None => saved.row \in SettingsRows)
  BY SettingsTypes DEF SettingsIInv
<1> HIDE DEF c, new
<1>5. ASSUME saved.row # None, saved.row[Channel] # None
      PROVE  \E e \in Channels, k \in Nat : saved.row[Channel] = <<e, k>> /\ row[e].there /\ row[e].id = k
  <2>1. saved.row[Channel] \in References /\ IsThere(saved.row[Channel], row)
    BY <1>4, <1>5, SectionFacts DEF SavedFits, SettingsRows, Fits
  <2> QED BY <2>1 DEF References, IsThere
<1>6. CASE gone /\ saved.row # None /\ saved.row[Channel] # None /\ saved.row[Channel][1] = d
  <2>1. saved' = [saved EXCEPT !.row[Channel] = None]
    BY <1>1, <1>6 DEF ChannelGone
  <2>2. saved = [row |-> saved.row, rev |-> saved.rev] /\ saved.row \in SettingsRows
    BY <1>4, <1>6 DEF SavedFits
  <2>3. saved' = [row |-> saved'.row, rev |-> saved'.rev] /\ saved'.rev = saved.rev
        /\ saved'.row = [saved.row EXCEPT ![Channel] = None]
    BY <2>1, <2>2
  <2>4. saved'.row \in SettingsRows /\ saved'.row[Channel] = None
        /\ \A f \in Fields : saved'.row[f] = IF f = Channel THEN None ELSE saved.row[f]
    BY <2>2, <2>3, SectionFacts DEF SettingsRows, Fits
  <2>5. ~IsThere(saved.row[Channel], row')
    BY <1>6 DEF IsThere
  <2>6. saved'.row # None /\ IsSettingsRow(saved'.row)
    BY <2>4, SettingsRowsAre
  <2>7. SavedFits(saved', row')
    BY <1>4, <1>6, <2>3, <2>4, <2>6 DEF SavedFits
  <2>8. SettingsMove(saved, saved', row')
    BY <1>6, <2>3, <2>4, <2>5, <2>6 DEF SettingsMove
  <2> QED BY <2>7, <2>8
<1>7. CASE ~(gone /\ saved.row # None /\ saved.row[Channel] # None /\ saved.row[Channel][1] = d)
  <2>1. saved' = saved
    BY <1>1, <1>7 DEF ChannelGone
  <2>2. ASSUME saved.row # None, saved.row[Channel] # None PROVE IsThere(saved.row[Channel], row')
    <3>1. PICK e \in Channels, k \in Nat : saved.row[Channel] = <<e, k>> /\ row[e].there /\ row[e].id = k
      BY <1>5, <2>2
    <3>2. saved.row[Channel][1] = e /\ saved.row[Channel][2] = k
      BY <3>1
    <3>3. CASE e = d
      <4>1. row'[d].there
        BY <1>7, <2>2, <3>1, <3>2, <3>3
      <4> QED BY <1>2, <1>3, <3>1, <3>2, <3>3, <4>1 DEF IsThere
    <3>4. CASE e # d
      <4>1. row'[e] = row[e]
        BY <1>2, <3>1, <3>4, ConnectionFacts
      <4> QED BY <3>1, <3>2, <4>1 DEF IsThere
    <3> QED BY <3>3, <3>4
  <2> QED BY <1>4, <2>1, <2>2 DEF SavedFits, SettingsMove
<1> QED BY <1>6, <1>7

LEMMA ChannelGoneFits ==
    ASSUME ConnectionIInv, SettingsIInv, NEW i \in Calls, CommitCall(i)
    PROVE  SettingsIInv'
<1> USE DEF SettingsIInv
<1>1. SavedFits(saved', row') /\ SettingsMove(saved, saved', row')
  BY ChannelGoes
<1>2. RowsMove(row, row', orphaned, orphaned')
  BY CommitMoves
<1>3. row \in [Conns -> Rows] /\ row' \in [Conns -> Rows]
  <2>1. Commit(i)
    BY DEF CommitCall
  <2> QED BY <2>1, CommitFacts DEF ConnectionIInv, ConnectionTypes
<1>4. /\ sheet' = IF saved' # saved THEN ChangedUntold(sheet) ELSE sheet
      /\ UNCHANGED <<page, form, entered, pending>>
      /\ saved' = saved => saves' = saves
      /\ saved' # saved => saves' = [j \in Saves |-> Passed(saves[j])]
  BY DEF CommitCall, Passed
<1>5. ASSUME NEW j \in Saves
      PROVE  SaveFits(saves'[j], saved', row', orphaned') /\ saves'[j].mine = saves[j].mine /\ saves'[j].st = saves[j].st
  <2>1. SaveFits(saves[j], saved, row, orphaned)
    OBVIOUS
  <2>2. SaveFits(Passed(saves[j]), saved', row', orphaned') /\ (saved' = saved => SaveFits(saves[j], saved', row', orphaned'))
    BY <1>1, <1>2, <1>3, <2>1, SavePasses
  <2>3. Passed(saves[j]).mine = saves[j].mine /\ Passed(saves[j]).st = saves[j].st
    BY <2>1, PassedIs DEF SaveFits
  <2> QED BY <1>4, <2>2, <2>3
<1>6. /\ SheetFits(sheet', saved', row', orphaned') /\ sheet'.st = sheet.st /\ sheet'.known = sheet.known
      /\ sheet'.seen = sheet.seen /\ (sheet' = ChangedUntold(sheet) => sheet'.untold)
  <2>1. SheetFits(sheet, saved, row, orphaned) /\ SavedFits(saved, row)
    OBVIOUS
  <2>2. sheet' = ChangedHere(sheet) \/ sheet' = ChangedUntold(sheet) \/ (sheet' = sheet /\ saved' = saved)
    BY <1>4
  <2> QED BY <1>1, <1>2, <1>3, <2>1, <2>2, SheetHears
<1>7. SheetIsCurrent'
  <2>1. SheetIsCurrent' <=> MineAnswered' \/ SheetFresh(sheet', saved')
    BY DEF SheetIsCurrent, MineAnswered, SheetFresh
  <2>2. MineAnswered \/ SheetFresh(sheet, saved)
    BY SheetCurrentIs
  <2>3. MineAnswered => MineAnswered'
    BY <1>5 DEF MineAnswered
  <2>4. SheetFresh(sheet, saved) => SheetFresh(sheet', saved')
    BY <1>4, <1>6 DEF SheetFresh
  <2> QED BY <2>1, <2>2, <2>3, <2>4
<1>8. FormInv'
  <2>1. FormFits(sheet, page, form, entered, row', orphaned')
    BY <1>2, <1>3, FormMoves DEF FormInv
  <2>2. FormFits(sheet', page, form, entered, row', orphaned')
    BY <1>6, <2>1, FormKept
  <2> QED BY <1>4, <2>2 DEF FormInv
<1>9. PendingInv'
  BY <1>4, <1>5 DEF PendingInv, Saving
<1>10. saves' = [j \in Saves |-> saves'[j]]
  BY <1>4
<1> QED BY <1>1, <1>5, <1>6, <1>7, <1>8, <1>9, <1>10

LEMMA PageOpens ==
    ASSUME SettingsIInv, NEW p, GoTo(p)
    PROVE  SettingsIInv'
<1> USE DEF SettingsIInv
<1>1. /\ page' = p /\ form' = IF HasForm(sheet', p) THEN ShownBy(p, sheet'.seen.fields) ELSE None
      /\ pending' = None /\ entered' = {} /\ UNCHANGED <<saved, saves, orphaned, row>>
      /\ sheet' = sheet \/ sheet' \in Mounted(sheet)
  BY DEF GoTo, LeaveConnections
<1>2. /\ sheet' \in Entries(Sheets) /\ sheet'.st = sheet.st /\ sheet'.known = sheet.known /\ sheet'.seen = sheet.seen
      /\ sheet'.untold = sheet.untold /\ sheet'.coming = sheet.coming /\ sheet'.met = sheet.met
      /\ sheet'.call = "read" => sheet.call = "read"
  BY <1>1, SettingsTypes, MountedKeeps
<1>3. SheetFits(sheet', saved', row', orphaned')
  BY <1>1, <1>2 DEF SheetFits
<1>4. SheetIsCurrent'
  BY <1>1, <1>2 DEF SheetIsCurrent
<1>5. FormInv'
  <2>1. CASE HasForm(sheet', p)
    <3>1. p \in Sections /\ form' = ShownBy(p, sheet'.seen.fields) /\ sheet'.seen \in Sheets
          /\ Known(sheet'.seen.fields[Channel], row, orphaned)
      BY <1>1, <1>2, <2>1, SettingsTypes DEF HasForm, SheetFits, Agrees
    <3>2. /\ form' \in [FieldsOf[p] -> Texts \cup References \cup {None}] /\ form' # None
          /\ \A f \in FieldsOf[p] : FitsForm(f, form'[f])
          /\ Channel \in FieldsOf[p] => form'[Channel] = sheet'.seen.fields[Channel]
      BY <3>1, ShownFits
    <3> QED BY <1>1, <2>1, <3>1, <3>2 DEF FormInv, FormFits
  <2>2. CASE ~HasForm(sheet', p)
    BY <1>1, <2>2 DEF FormInv, FormFits
  <2> QED BY <2>1, <2>2
<1>6. PendingInv'
  BY <1>1 DEF PendingInv, Saving
<1> QED BY <1>1, <1>3, <1>4, <1>5, <1>6

-----------------------------------------------------------------------------
(* The invariant *)

LEMMA ConnectionsStart == AdminInit => ConnectionIInv
<1> SUFFICES ASSUME AdminInit PROVE ConnectionIInv
  OBVIOUS
<1>1. PICK s \in Starts : row = s.row /\ sound = s.sound
  BY DEF AdminInit
<1>2. row \in [Conns -> Rows] /\ sound \subseteq Channels \cup Tokens
  BY <1>1, StartsAssumption DEF StartsAssumption
<1>3. \A p \in Pages : row[p].token \in Tokens \cup {None}
  BY <1>2, ConnectionFacts DEF Rows
<1>4. ConnectionTypes
  BY <1>2, <1>3, ConnectionFacts DEF AdminInit, ConnectionTypes, FitRequest
<1>5. ASSUME NEW l \in Lists PROVE ListFits(l, books[l], row, orphaned) /\ ListIsCurrent(l, books[l], row)
  <2>1. Empty \in Listings(l) /\ KnownRows(Empty, row, orphaned)
    BY <1>2, RowsInIs
  <2>2. books[l] = NoEntry(Empty)
    BY DEF AdminInit
  <2>3. /\ books[l] \in Entries(Listings(l)) /\ books[l].st = "none" /\ books[l].call = "none"
        /\ books[l].seen = Empty /\ books[l].coming = Empty
    BY <2>1, <2>2, NoEntryFits
  <2> QED BY <2>1, <2>3 DEF ListFits, ListIsCurrent
<1>6. ButtonsOfCalls /\ VerdictIsOfToken
  BY DEF AdminInit, ButtonsOfCalls, VerdictIsOfToken
<1> QED BY <1>4, <1>5, <1>6 DEF ConnectionIInv, ListsInv

LEMMA SettingsStart == AdminInit => SettingsIInv
<1> SUFFICES ASSUME AdminInit PROVE SettingsIInv
  OBVIOUS
<1>1. PICK s \in Starts : row = s.row /\ saved = s.saved
  BY DEF AdminInit
<1>2. SavedFits(saved, row)
  <2>1. saved = [row |-> saved.row, rev |-> saved.rev] /\ saved.rev \in Nat
    BY <1>1, StartsAssumption DEF StartsAssumption
  <2>2. ASSUME saved.row # None
        PROVE  saved.rev > 0 /\ IsSettingsRow(saved.row) /\ (saved.row[Channel] # None => IsThere(saved.row[Channel], row))
    BY <1>1, <2>2, StartsAssumption DEF StartsAssumption, IsThere
  <2> QED BY <2>1, <2>2 DEF SavedFits
<1>3. Agrees(Blank, saved, row, orphaned)
  BY <1>2, BlankAgrees
<1>4. SheetFits(sheet, saved, row, orphaned) /\ sheet.st = "none" /\ sheet.known = FALSE
  <2>1. sheet = NoEntry(Blank)
    BY DEF AdminInit
  <2>2. /\ sheet \in Entries(Sheets) /\ sheet.st = "none" /\ sheet.call = "none" /\ sheet.seen = Blank
        /\ sheet.coming = Blank /\ sheet.known = FALSE
    BY <2>1, NoEntryFits, BlankIs
  <2> QED BY <1>3, <2>2 DEF SheetFits
<1>5. SaveFits(NoSave, saved, row, orphaned)
  <2>1. FitSave(NoSave)
    BY NoSaveIs DEF FitSave
  <2> QED BY <1>3, <2>1, NoSaveIs DEF SaveFits, SentFits, LoadedFits, AnswerFits
<1>6. saves = [i \in Saves |-> saves[i]] /\ \A i \in Saves : saves[i] = NoSave
  BY DEF AdminInit
<1>7. FormInv
  BY <1>4 DEF AdminInit, FormInv, FormFits, HasForm
<1>8. PendingInv
  BY DEF AdminInit, PendingInv, Saving
<1>9. SheetIsCurrent
  BY <1>4 DEF SheetIsCurrent
<1> QED BY <1>2, <1>4, <1>5, <1>6, <1>7, <1>8, <1>9 DEF SettingsIInv

\* Every step keeps the invariant of the connections, and that of the settings.
LEMMA StepKeeps == AdminIInv /\ [AdminNext]_adminVars => AdminIInv'
<1> SUFFICES ASSUME AdminIInv, [AdminNext]_adminVars PROVE AdminIInv'
  OBVIOUS
<1> USE DEF AdminIInv
<1>1. ConnectionIInv /\ SettingsIInv /\ row \in [Conns -> Rows]
  BY DEF ConnectionIInv, ConnectionTypes
<1>2. ASSUME UNCHANGED settings PROVE UNCHANGED <<page, orphaned>>
  BY <1>2 DEF settings
<1>3. ASSUME UNCHANGED connections PROVE UNCHANGED row
  BY <1>3 DEF connections
<1>4. ASSUME UNCHANGED connections, UNCHANGED <<page, orphaned>> PROVE ConnectionIInv'
  BY <1>1, <1>4, ConnectionFrame
<1>5. CASE OnPage
  <2>1. CASE page = "channels" /\ UseConnections /\ UNCHANGED settings
    <3>1. row' = row
      BY <2>1 DEF UseConnections, Check, Toggle, AddChannel, ReplaceToken, RemovePage, AddPage, TypeToken, Press, Send
    <3> QED BY <1>1, <1>2, <2>1, <3>1, UsesOfThePage, SettingsFrame
  <2>2. CASE page \in Sections /\ UseSettings /\ UNCHANGED connections
    <3>1. UNCHANGED <<page, orphaned>>
      BY <2>2 DEF UseSettings, EnterField, SubmitForm, RefetchSettings
    <3>2. SettingsIInv'
      BY <1>1, <1>3, <2>2, FormUsed, NewSavesFit DEF UseSettings
    <3> QED BY <1>4, <2>2, <3>1, <3>2
  <2>3. CASE \E l \in Lists : page = "channels" /\ RefetchConnections(l) /\ UNCHANGED settings
    <3>1. row' = row
      BY <2>3 DEF RefetchConnections
    <3> QED BY <1>1, <1>2, <2>3, <3>1, QueriesOfLists, SettingsFrame
  <2> QED BY <1>5, <2>1, <2>2, <2>3 DEF OnPage
<1>6. CASE Others
  <2>1. CASE OthersConnect /\ UNCHANGED settings
    <3>1. row' = row
      BY <2>1 DEF OthersConnect, ElseWhere, Outside, Send
    <3> QED BY <1>1, <1>2, <2>1, <3>1, RequestsOfOthers, SettingsFrame
  <2>2. CASE (\E f \in Fields : \E v \in Patchable(f) : PatchElsewhere(f, v)) /\ UNCHANGED connections
    <3>1. UNCHANGED <<page, orphaned>>
      BY <2>2 DEF PatchElsewhere
    <3>2. SettingsIInv'
      BY <1>1, <1>3, <2>2, NewSavesFit
    <3> QED BY <1>4, <2>2, <3>1, <3>2
  <2> QED BY <1>6, <2>1, <2>2 DEF Others
<1>7. CASE ServeQueries
  <2>1. CASE (ReadSettings \/ SettingsArrive) /\ UNCHANGED connections
    <3>1. UNCHANGED <<page, orphaned>>
      BY <2>1 DEF ReadSettings, SettingsArrive
    <3>2. SettingsIInv'
      BY <1>1, <1>3, <2>1, SheetQueries
    <3> QED BY <1>4, <2>1, <3>1, <3>2
  <2>2. ASSUME NEW l \in Lists, ReadConnections(l) \/ ConnectionsArrive(l), UNCHANGED settings
        PROVE  AdminIInv'
    <3>1. row' = row
      BY <2>2 DEF ReadConnections, ConnectionsArrive
    <3> QED BY <1>1, <1>2, <2>2, <3>1, QueriesOfLists, SettingsFrame
  <2> QED BY <1>7, <2>1, <2>2 DEF ServeQueries
<1>8. ASSUME NEW p \in visits, GoTo(p) PROVE AdminIInv'
  <2>1. SettingsIInv'
    BY <1>1, <1>8, PageOpens
  <2>2. ConnectionIInv'
    BY <1>1, <1>8, ConnectionsLeft DEF GoTo
  <2> QED BY <2>1, <2>2
<1>9. ASSUME NEW i \in Calls, ServeCall(i) PROVE AdminIInv'
  <2>1. CASE (Load(i) \/ Consult(i) \/ Refuse(i)) /\ UNCHANGED settings
    <3>1. row' = row
      BY <2>1 DEF Load, Consult, Refuse
    <3> QED BY <1>1, <1>2, <2>1, <3>1, ServerSteps, SettingsFrame
  <2>2. CASE CommitCall(i)
    BY <1>1, <2>2, CommitKeeps, ChannelGoneFits
  <2> QED BY <1>9, <2>1, <2>2 DEF ServeCall
<1>10. ASSUME NEW i \in Calls, EndCall(i) PROVE AdminIInv'
  <2> DEFINE used == calls[i].kind # "none" /\ UsesList(page, ListOf(calls[i].of))
  <2>1. used \in BOOLEAN /\ Done(i, used) /\ UNCHANGED settings
    BY <1>10 DEF EndCall
  <2> HIDE DEF used
  <2>2. row' = row
    BY <2>1 DEF Done
  <2> QED BY <1>1, <1>2, <2>1, <2>2, DoneKeeps, SettingsFrame
<1>11. ASSUME NEW i \in Saves, ServeSave(i) PROVE AdminIInv'
  <2>1. /\ UNCHANGED connections
        /\ \/ RejectSettings(i) \/ FindChannel(i) \/ LoadSettings(i)
           \/ RefuseSettings(i) \/ CommitSettings(i) \/ SettingsSaved(i)
    BY <1>11 DEF ServeSave
  <2>2. UNCHANGED <<page, orphaned>>
    BY <2>1 DEF RejectSettings, FindChannel, LoadSettings, RefuseSettings, CommitSettings, SettingsSaved
  <2>3. SettingsIInv'
    BY <1>1, <1>3, <2>1, RejectFits, FindFits, LoadFits, RefuseFits, CommitFits, AnswerStored
  <2> QED BY <1>4, <2>1, <2>2, <2>3
<1>12. CASE UNCHANGED adminVars
  BY <1>1, <1>2, <1>3, <1>12, ConnectionFrame, SettingsFrame DEF adminVars
<1> QED BY <1>5, <1>6, <1>7, <1>8, <1>9, <1>10, <1>11, <1>12 DEF AdminNext

-----------------------------------------------------------------------------
(* What the invariant says *)

LEMMA InvariantGivesProperties == AdminIInv => AdminInv /\ CachesAreCurrent /\ VerdictIsOfToken
<1> SUFFICES ASSUME AdminIInv PROVE AdminInv /\ CachesAreCurrent /\ VerdictIsOfToken
  OBVIOUS
<1> USE DEF AdminIInv
<1>1. SavedFits(saved, row) /\ FormInv /\ PendingInv /\ \A i \in Saves : SaveFits(saves[i], saved, row, orphaned)
  BY DEF SettingsIInv
<1>2. AdminTypeOK
  <2>1. row \in [Conns -> Rows] /\ sound \subseteq Channels \cup Tokens /\ ButtonsOfCalls
    BY DEF ConnectionIInv, ConnectionTypes
  <2>2. saved.rev \in Nat /\ (saved.row # None => IsSettingsRow(saved.row))
    BY <1>1 DEF SavedFits
  <2>3. form # None => page \in Sections /\ DOMAIN form = FieldsOf[page] /\ entered \subseteq DOMAIN form
    BY <1>1 DEF FormInv, FormFits, HasForm
  <2>4. Saving => form # None /\ saves[pending].mine
    BY <1>1 DEF PendingInv
  <2> QED BY <2>1, <2>2, <2>3, <2>4 DEF AdminTypeOK, ButtonsOfCalls
<1>3. SavedMeansWritten /\ RefusalHasCause
  BY <1>1 DEF SavedMeansWritten, RefusalHasCause, SaveFits, AnswerFits
<1>4. DefaultChannelExists
  BY <1>1 DEF DefaultChannelExists, SavedFits, IsThere, Exists
<1>5. ListsAreCurrent
  <2>1. ASSUME NEW l \in Lists PROVE Unheard(l) \/ ListIsCurrent(l, books[l], row)
    BY DEF ConnectionIInv, ListsInv
  <2> QED BY <2>1 DEF ListsAreCurrent, Unheard, ListIsCurrent, RowsIn, RowsOf
<1>6. SheetIsCurrent /\ VerdictIsOfToken
  BY DEF SettingsIInv, ConnectionIInv
<1> QED BY <1>2, <1>3, <1>4, <1>5, <1>6 DEF AdminInv, CachesAreCurrent

-----------------------------------------------------------------------------
(* What a save may change *)

\* Nothing but its commit brings a loaded save to an answer of the service.
LEMMA OnlyCommitsAnswer ==
    ASSUME AdminIInv, [AdminNext]_adminVars, NEW i \in Saves, saves[i].st = "loaded", saves'[i].st \in {"ok", "error"}
    PROVE  CommitSettings(i)
<1>1. /\ SettingsIInv /\ row \in [Conns -> Rows] /\ saves = [j \in Saves |-> saves[j]]
      /\ \A j \in Saves : FitSave(saves[j])
  BY DEF AdminIInv, ConnectionIInv, ConnectionTypes, SettingsIInv, SaveFits
<1>2. saves' # saves /\ NoSave.st = "none"
  BY NoSaveIs
<1>3. ASSUME NEW j \in Saves, RejectSettings(j) \/ FindChannel(j) \/ LoadSettings(j) PROVE FALSE
  <2>1. saves[j].st \in {"sent", "found"} /\ \A k \in Saves \ {j} : saves'[k] = saves[k]
    BY <1>1, <1>3 DEF RejectSettings, FindChannel, LoadSettings
  <2> QED BY <2>1
<1>4. ASSUME NEW j \in Saves, RefuseSettings(j) PROVE FALSE
  BY <1>1, <1>4 DEF RefuseSettings
<1>5. ASSUME NEW j \in Saves, SettingsSaved(j) PROVE FALSE
  BY <1>1, <1>2, <1>5 DEF SettingsSaved
<1>6. ASSUME NEW j \in Saves, CommitSettings(j) PROVE CommitSettings(i)
  <2>1. j # i => saves'[i] = Passed(saves[i])
    BY <1>1, <1>6, CommitSaves
  <2>2. Passed(saves[i]).st = saves[i].st
    BY <1>1, PassedIs
  <2> QED BY <1>6, <2>1, <2>2
<1>7. ASSUME SubmitForm \/ (\E f \in Fields : \E v \in Patchable(f) : PatchElsewhere(f, v)) PROVE FALSE
  <2>1. PICK j \in Saves : saves[j] = NoSave /\ \E p : saves' = [saves EXCEPT ![j] = p]
    BY <1>7 DEF SubmitForm, PatchElsewhere, FreeSave
  <2> QED BY <1>1, <1>2, <2>1
<1>8. ASSUME NEW j \in Calls, CommitCall(j) PROVE FALSE
  <2>1. saves' = saves \/ saves' = [k \in Saves |-> Passed(saves[k])]
    BY <1>8 DEF CommitCall, Passed
  <2>2. Passed(saves[i]).st = saves[i].st
    BY <1>1, PassedIs
  <2> QED BY <2>1, <2>2
<1>9. CASE OnPage
  BY <1>2, <1>7, <1>9 DEF OnPage, UseSettings, EnterField, RefetchSettings, settings
<1>10. CASE Others
  BY <1>2, <1>7, <1>10 DEF Others, settings
<1>11. CASE ServeQueries
  BY <1>2, <1>11 DEF ServeQueries, ReadSettings, SettingsArrive, settings
<1>12. CASE \E p \in visits : GoTo(p)
  BY <1>2, <1>12 DEF GoTo
<1>13. CASE \E j \in Calls : ServeCall(j) \/ EndCall(j)
  BY <1>2, <1>8, <1>13 DEF ServeCall, EndCall, settings
<1>14. CASE \E j \in Saves : ServeSave(j)
  BY <1>3, <1>4, <1>5, <1>6, <1>14 DEF ServeSave
<1>15. CASE UNCHANGED adminVars
  BY <1>2, <1>15 DEF adminVars, settings
<1> QED BY <1>9, <1>10, <1>11, <1>12, <1>13, <1>14, <1>15 DEF AdminNext

\* A commit changes the fields that are sent, and a form sends what it was filled with or was entered.
LEMMA CommitChangesEdits ==
    ASSUME AdminIInv, NEW i \in Saves, CommitSettings(i), saves[i].mine, saves[i].of = saved.rev,
           NEW f \in Fields, saved'.row[f] # ReadOf(saved).fields[f]
    PROVE  f \in saves[i].entered \/ (f # Channel /\ ReadOf(saved).fields[f] = "foreign")
<1> DEFINE p == saves[i]
           new == RowAfter(saved.row, p)
<1>1. SettingsIInv /\ row \in [Conns -> Rows] /\ p.st = "loaded" /\ ~Violates(saved.row, p)
  BY DEF AdminIInv, ConnectionIInv, ConnectionTypes, CommitSettings
<1>2. saved'.row = new
  BY <1>1, CommitSaved
<1>3. /\ new[f] = IF f \in DOMAIN p.sent /\ (p.saw = None \/ p.sent[f] # p.saw[f]) THEN p.sent[f]
                  ELSE IF p.saw = None THEN Defaults[f] ELSE saved.row[f]
      /\ p.saw # None => saved.row # None
  BY <1>1, RowAfterIs
<1>4. p.saw = None => saved.row = None
  BY <1>1 DEF Violates
<1>5. ReadOf(saved).fields = IF saved.row = None THEN Defaults ELSE saved.row
  BY <1>1, SettingsTypes, ReadOfIs
<1>6. f \in DOMAIN p.sent /\ new[f] = p.sent[f]
  BY <1>2, <1>3, <1>4, <1>5
<1>7. SendsEdits(p, saved, row)
  BY <1>1 DEF SettingsIInv, SaveFits, SentFits
<1>8. f = Channel /\ p.sent[f] # None => IsThere(p.sent[f], row)
  BY <1>1, <1>6 DEF Violates, IsThere, Exists
<1> HIDE DEF p, new
<1>9. f \in p.entered \/ (f # Channel /\ ReadOf(saved).fields[f] = "foreign")
  <2>1. p.of = saved.rev
    BY DEF p
  <2> QED BY <1>2, <1>6, <1>7, <1>8, <2>1 DEF SendsEdits
<1> QED BY <1>9 DEF p

-----------------------------------------------------------------------------
(* The theorems *)

LEMMA InvariantHolds == AdminSpec => []AdminIInv
<1>1. AdminInit => AdminIInv
  BY ConnectionsStart, SettingsStart DEF AdminIInv
<1> QED BY <1>1, StepKeeps, PTL DEF AdminSpec

\* For every set of channels, pages, tokens, requests and saves, and from every start: the types;
\* a save that says "saved" wrote every value it sent, unless another writer came between its load
\* and its commit; a save of the forms is refused only for another first save, a removed channel, or
\* a language that its user entered and the schema of the request does not take; the default channel
\* of the settings exists (WorkspaceSettingsPatch, WorkspaceSettingsService.patch).
THEOREM AdministrationCorrect == AdminSpec => []AdminInv
BY InvariantHolds, InvariantGivesProperties, PTL

\* The cached settings and the cached lists of channels and pages are the server's, but for the
\* causes that the two properties name (onSuccess and invalidateQueries of the hooks).
THEOREM CachesStayCurrent == AdminSpec => []CachesAreCurrent
BY InvariantHolds, InvariantGivesProperties, PTL

\* The verdict on a Facebook page is about the token that it has, unless a validation and a
\* replacement of the token crossed (FacebookPageService.validate and update).
THEOREM VerdictsAreOfTokens == AdminSpec => []VerdictIsOfToken
BY InvariantHolds, InvariantGivesProperties, PTL

\* A save that was filled from the row as it is changes only the fields that were entered, and a
\* timezone that the forms do not offer, whatever the page, the answers and the others did meanwhile.
THEOREM SavesChangeOnlyEdits == AdminSpec => SaveChangesOnlyEdits
<1>1. AdminIInv /\ [AdminNext]_adminVars =>
        [\A i \in Saves :
          saves[i].mine /\ saves[i].st = "loaded" /\ saves[i].of = saved.rev /\ saves'[i].st \in {"ok", "error"} =>
            \A f \in Fields : saved'.row[f] # ReadOf(saved).fields[f] =>
                f \in saves[i].entered \/ (f # Channel /\ ReadOf(saved).fields[f] = "foreign")]_adminVars
  BY OnlyCommitsAnswer, CommitChangesEdits
<1> QED BY <1>1, InvariantHolds, PTL DEF AdminSpec, SaveChangesOnlyEdits
=====
