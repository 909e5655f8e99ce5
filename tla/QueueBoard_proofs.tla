------------------------- MODULE QueueBoard_proofs -------------------------
(***************************************************************************)
(* Theorems about the publishing board, for any number of items, operations   *)
(* under way and rows to start with: its types, what keeps two publishes of     *)
(* an item apart, that dialogs outlast their operations, that a page without    *)
(* rows has its cause, that summaries are as fresh as the rows beside them, and  *)
(* that no failure is forgotten.                                            *)
(*                                                                         *)
(* The inductive invariant has five layers: the shape of the state; loops,      *)
(* their dialogs and markers; the age of what was read; what is known of a       *)
(* failed publish; the page.                                                *)
(***************************************************************************)
EXTENDS QueueBoard, FiniteSetTheorems, WellFoundedInduction, TLAPS

-----------------------------------------------------------------------------
(* The shape of the state *)

Kinds == {"none", "publish", "retry", "status", "schedule", "publishNow", "delete"}

Readings == [last : {"none", "started", "ok", "failed", "unknown"}, ver : Nat]

Asks == [item : Items, current : BOOLEAN, got : Readings]

JobSet == [kind : Kinds, step : Steps \cup {"none"}, ids : SUBSET Items, todo : SUBSET Items,
           to : Statuses \cup {"none"}, call : Calls, chan : BOOLEAN]

Editing == {"retry", "status", "schedule", "publishNow"}
Publishing == {"publish", "retry", "publishNow"}

\* What the step of a loop says of the rest of it
JobFits(q) ==
    /\ q.todo \subseteq q.ids
    /\ q.step \in {"update", "publish", "delete"} => q.todo # {}
    /\ q.step = "update" => q.kind \in Editing /\ q.to \in Statuses
    /\ q.step = "publish" => q.kind \in Publishing
    /\ q.step = "delete" => q.kind = "delete"
    /\ q.step = "none" => q = NoJob
    /\ q.step = "reload" => q = Reloading
    /\ q.kind = "retry" => \E i \in Items : q.ids = {i}
    /\ q.call \in {"claimed", "failing", "conflict"} => q.step = "publish"

GoneIsZero(r) == \A i \in Items : r[i].ver = 0 <=> r[i].st = "gone"

RowTypes == row \in [Items -> Rows] /\ list \in [Items -> Rows] /\ GoneIsZero(row) /\ GoneIsZero(list)

ReadTypes == summary \in [Items -> Readings] /\ targets \subseteq Items /\ asked \subseteq Asks

JobTypes == job \in [Jobs -> JobSet] /\ \A j \in Jobs : JobFits(job[j])

PageTypes ==
    /\ latest \in [{"update", "delete"} -> Jobs \cup {Nobody}]
    /\ publishing \subseteq Items /\ failures \subseteq Items /\ told \subseteq Items
    /\ selected \subseteq Listed /\ dialog \subseteq Items /\ doomed \subseteq Items
    /\ filter \in Filters /\ page \in Nat /\ shrunk \in BOOLEAN
    /\ retried \subseteq Items /\ crossed \in BOOLEAN

BoardTypes == RowTypes /\ ReadTypes /\ JobTypes /\ PageTypes

-----------------------------------------------------------------------------
(* Loops, dialogs and markers *)

\* The edits of several items, and those of a dialog
Wide(j) == job[j].step = "update" /\ job[j].kind \in {"status", "schedule", "publishNow"}

\* Unless a retry crossed one, isPending tells of the one such loop, and of the one delete
PendingIsTrue ==
    /\ ~crossed => \A j \in Jobs : Wide(j) => latest["update"] = j
    /\ \A j \in Jobs : job[j].step = "delete" => latest["delete"] = j

RetriesAreNoted == \A j \in Jobs : job[j].kind = "retry" => job[j].ids \subseteq retried

Spoilt(i) == i \in retried \/ crossed

\* An item that is not spoilt has one publish at a time, its marker lasts as long, and a
\* dialog that is going to publish it finds it idle
OnePublish ==
    \A i \in Items : ~Spoilt(i) =>
        /\ \A j, k \in PublishersOf(i) : j = k
        /\ PublishersOf(i) # {} => i \in publishing
        /\ \A j \in Jobs : Wide(j) /\ job[j].kind = "publishNow" /\ i \in job[j].ids =>
            PublishersOf(i) = {}

MarkersHavePublish == \A i \in publishing : PublishersOf(i) # {}

LoopInv == PendingIsTrue /\ ModalCoversJob /\ RetriesAreNoted /\ OnePublish /\ MarkersHavePublish

-----------------------------------------------------------------------------
(* What was read *)

\* What the page holds or is about to hold of the attempts of i
Held(i) == {summary[i]} \cup {a.got : a \in {b \in asked : b.current /\ b.item = i}}

\* Never newer than the row; newer than the list once it is known
Ages ==
    \A i \in Items : row[i].st # "gone" =>
        /\ list[i].ver <= row[i].ver
        /\ \A g \in Held(i) : g.ver <= row[i].ver

KnownIsFresh ==
    \A i \in Listed : \A g \in Held(i) : g # Unknown => g.ver >= list[i].ver

\* An item is asked for once in a generation
OneAsk ==
    /\ \A i \in targets : summary[i] = Unknown
    /\ \A a \in asked : a.current =>
        /\ a.item \notin targets /\ summary[a.item] = Unknown
        /\ \A b \in asked : b.current /\ b.item = a.item => b = a

AgeInv == Ages /\ KnownIsFresh /\ OneAsk

-----------------------------------------------------------------------------
(* Failures *)

\* Attempts are not taken back
AttemptsStay ==
    \A i \in Items : row[i].st # "gone" =>
        \A g \in Held(i) : Superseded(g) => row[i].last # "none"

\* A failure that gave its row a version is in all that is read of that version
FailuresAreRead ==
    \A i \in Items : row[i].st # "gone" /\ row[i].last = "failed" /\ ~row[i].silent =>
        \A g \in Held(i) : g.ver = row[i].ver => g.last = "failed"

\* What the page was told and shows no longer was given up for an attempt
ToldIsKnown ==
    \A i \in told \ failures : row[i].st # "gone" =>
        row[i].last # "none" /\ \A g \in Held(i) : g.last # "none"

FailureInv == AttemptsStay /\ FailuresAreRead /\ ToldIsKnown

-----------------------------------------------------------------------------
(* The page *)

PageInv == ~shrunk => page = 0 \/ page * PageSize < Cardinality(Filtered)

BoardIInv == BoardTypes /\ LoopInv /\ AgeInv /\ FailureInv /\ PageInv

-----------------------------------------------------------------------------
(* Least members and ranks *)

LEMMA LeastExists ==
    ASSUME NEW S \in SUBSET Nat, S # {} PROVE \E n \in S : \A m \in S : n <= m
<1> DEFINE R == OpToRel(<, Nat)
<1>1. PICK n \in S : \A m \in S : ~(<<m, n>> \in R)
  <2> HIDE DEF R
  <2>1. IsWellFoundedOn(R, Nat)
    BY NatLessThanWellFounded DEF R
  <2> QED BY <2>1, WFMin
<1>2. ASSUME NEW m \in S PROVE n <= m
  <2>1. <<m, n>> \in R <=> m < n
    BY DEF R, OpToRel
  <2> HIDE DEF R
  <2> QED BY <1>1, <2>1
<1> QED BY <1>2

LEMMA MinOf ==
    ASSUME NEW S \in SUBSET Nat, S # {} PROVE Min(S) \in S
<1>1. \E x \in S : \A y \in S : x <= y
  BY LeastExists
<1> QED BY <1>1 DEF Min

\* By the least number of members of a set without a bound
LEMMA FiniteIsBounded ==
    ASSUME NEW S \in SUBSET Nat, IsFiniteSet(S) PROVE \E b \in Nat : \A x \in S : x < b
<1> DEFINE Unbounded(T) == \A b \in Nat : \E x \in T : x >= b
           Counts == {n \in Nat : \E T \in SUBSET Nat :
                        IsFiniteSet(T) /\ Cardinality(T) = n /\ Unbounded(T)}
<1>1. ASSUME ~Unbounded(S) PROVE \E b \in Nat : \A x \in S : x < b
  <2>1. PICK b \in Nat : \A x \in S : ~(x >= b)
    BY <1>1
  <2>2. \A x \in S : x < b
    BY <2>1
  <2> QED BY <2>2
<1>2. ASSUME Unbounded(S) PROVE FALSE
  <2>1. Cardinality(S) \in Nat
    BY FS_CardinalityType
  <2>2. Counts # {} /\ Counts \in SUBSET Nat
    <3> HIDE DEF Unbounded
    <3> QED BY <1>2, <2>1
  <2>3. PICK n \in Counts : \A m \in Counts : n <= m
    <3> HIDE DEF Counts
    <3> QED BY <2>2, LeastExists
  <2>4. PICK T \in SUBSET Nat : IsFiniteSet(T) /\ Cardinality(T) = n /\ Unbounded(T)
    OBVIOUS
  <2>5. PICK x \in T : x >= 0
    BY <2>4
  <2>6. IsFiniteSet(T \ {x}) /\ Cardinality(T \ {x}) = n - 1
    BY <2>4, <2>5, FS_RemoveElement
  <2>7. n \in Nat /\ n - 1 \in Nat
    BY <2>6, FS_CardinalityType
  <2>8. ~Unbounded(T \ {x})
    <3>1. SUFFICES ASSUME Unbounded(T \ {x}) PROVE FALSE
      OBVIOUS
    <3>2. n - 1 \in Counts
      <4> HIDE DEF Unbounded
      <4> QED BY <2>6, <2>7, <3>1
    <3> HIDE DEF Counts
    <3> QED BY <3>2, <2>3, <2>7
  <2>9. PICK b \in Nat : \A y \in T \ {x} : ~(y >= b)
    BY <2>8
  <2>10. PICK y \in T : y >= b + x + 1
    <3>1. b + x + 1 \in Nat
      BY <2>5
    <3> QED BY <2>4, <3>1
  <2>11. y # x /\ y >= b
    BY <2>5, <2>10
  <2> QED BY <2>9, <2>10, <2>11
<1> QED BY <1>1, <1>2

LEMMA RankExists ==
    ASSUME NEW S \in SUBSET Nat, IsFiniteSet(S), NEW k \in Nat, k < Cardinality(S)
    PROVE  \E i \in S : Cardinality({x \in S : x < i}) = k
<1> DEFINE Below(m) == {x \in S : x < m}
           Big(m) == Cardinality(Below(m)) > k
           Many == {m \in Nat : Big(m)}
<1>1. \A m \in Nat : IsFiniteSet(Below(m)) /\ Cardinality(Below(m)) \in Nat
  <2>1. \A m \in Nat : Below(m) \in SUBSET S
    OBVIOUS
  <2> HIDE DEF Below
  <2> QED BY <2>1, FS_Subset, FS_CardinalityType
<1>2. PICK b \in Nat : \A x \in S : x < b
  BY FiniteIsBounded
<1>3. Below(b) = S
  BY <1>2
<1>4. b \in Many
  <2> HIDE DEF Below
  <2> QED BY <1>1, <1>3
<1>5. PICK m \in Many : \A n \in Many : m <= n
  <2>1. \A m \in Many : m \in Nat
    <3> HIDE DEF Big
    <3> QED OBVIOUS
  <2> HIDE DEF Many
  <2>2. Many \in SUBSET Nat /\ Many # {}
    BY <2>1, <1>4
  <2> QED BY <2>2, LeastExists
<1>6. m \in Nat /\ Cardinality(Below(m)) > k
  <2> HIDE DEF Below
  <2> QED BY <1>5
<1>7. m # 0
  <2>1. Below(0) = {}
    <3>1. \A x \in S : ~(x < 0)
      OBVIOUS
    <3> QED BY <3>1
  <2> HIDE DEF Below
  <2> QED BY <1>6, <2>1, FS_EmptySet
<1>8. m - 1 \in Nat /\ ~(m - 1 \in Many)
  <2> HIDE DEF Many
  <2> QED BY <1>5, <1>6, <1>7
<1>9. Cardinality(Below(m - 1)) <= k
  <2> HIDE DEF Below
  <2> QED BY <1>8, <1>1
<1>10. CASE m - 1 \in S
  <2>1. Below(m) = Below(m - 1) \cup {m - 1} /\ ~(m - 1 \in Below(m - 1))
    <3>1. \A x \in S : x < m <=> x < m - 1 \/ x = m - 1
      BY <1>6, <1>8
    <3>2. ~(m - 1 < m - 1) /\ m - 1 < m
      BY <1>6, <1>8
    <3> QED BY <3>1, <3>2, <1>10
  <2>2. Cardinality(Below(m)) = Cardinality(Below(m - 1)) + 1
    <3> HIDE DEF Below
    <3> QED BY <1>1, <1>8, <2>1, FS_AddElement
  <2>3. Cardinality(Below(m - 1)) = k
    <3> HIDE DEF Below
    <3> QED BY <2>2, <1>1, <1>8, <1>9, <1>6
  <2> QED BY <2>3, <1>10
<1>11. CASE ~(m - 1 \in S)
  <2>1. Below(m) = Below(m - 1)
    <3>1. \A x \in S : x < m <=> x < m - 1 \/ x = m - 1
      BY <1>6, <1>8
    <3> QED BY <3>1, <1>11
  <2> HIDE DEF Below
  <2> QED BY <2>1, <1>1, <1>6, <1>8, <1>9
<1> QED BY <1>10, <1>11

-----------------------------------------------------------------------------
(* What single steps do to the loops *)

LEMMA SetsAre ==
    /\ Items \subseteq Nat /\ Jobs \subseteq Nat /\ Nobody \notin Jobs
    /\ IsFiniteSet(Items) /\ IsFiniteSet(Jobs)
<1>1. Items \in SUBSET (Items \cup Jobs) /\ Jobs \in SUBSET (Items \cup Jobs)
  OBVIOUS
<1> QED BY <1>1, BoardAssumption, FS_Subset

LEMMA CurrentIs ==
    ASSUME JobTypes, NEW j \in Jobs, job[j].step \in {"update", "publish", "delete"}
    PROVE  Current(j) \in job[j].todo /\ Current(j) \in Items
<1>1. job[j].todo \in SUBSET Items /\ job[j].todo # {}
  BY DEF JobTypes, JobFits, JobSet
<1>2. job[j].todo \in SUBSET Nat
  BY <1>1, SetsAre
<1> QED BY <1>1, <1>2, MinOf DEF Current

NewJob(kind, step, S, to) == [Loop(kind, step, S, to) EXCEPT !.call = "sent"]

\* Loop j goes on as q; its mutation is the latest of its kind
Sends(j, q) ==
    /\ job' = [job EXCEPT ![j] = q]
    /\ latest' = IF q.step \in {"update", "delete"} THEN [latest EXCEPT ![q.step] = j] ELSE latest

LEMMA StartEffect ==
    ASSUME JobTypes, PageTypes, NEW kind, NEW step, NEW S, NEW to, Start(kind, step, S, to)
    PROVE  /\ \E j \in Jobs : job[j] = NoJob /\ Sends(j, NewJob(kind, step, S, to))
           /\ UNCHANGED <<row, list, enrichment, failures, told, selected, dialogs, filter, page, shrunk>>
<1> DEFINE Free == {j \in Jobs : job[j] = NoJob}
<1>1. Free \in SUBSET Nat /\ Free # {}
  BY SetsAre DEF Start
<1>2. Min(Free) \in Jobs /\ job[Min(Free)] = NoJob
  <2>1. Min(Free) \in Free
    <3> HIDE DEF Free
    <3> QED BY <1>1, MinOf
  <2> QED BY <2>1
<1>3. DOMAIN latest = {"update", "delete"}
  BY DEF PageTypes
<1>4. Sends(Min(Free), NewJob(kind, step, S, to))
  <2>1. Send(Min(Free), Loop(kind, step, S, to))
    BY DEF Start
  <2>2. Loop(kind, step, S, to).step = step /\ NewJob(kind, step, S, to).step = step
    BY DEF NewJob, Loop
  <2> HIDE DEF Free
  <2> QED BY <1>3, <2>1, <2>2 DEF Send, Sends, NewJob
<1>5. UNCHANGED <<row, list, enrichment, failures, told, selected, dialogs, filter, page, shrunk>>
  BY DEF Start
<1> HIDE DEF Free
<1> QED BY <1>2, <1>4, <1>5

LEMMA NewJobIs ==
    ASSUME NEW kind, NEW step, NEW S \in SUBSET Items, S # {}, NEW to,
           \/ kind \in Editing /\ step = "update" /\ to \in Statuses
           \/ kind = "publish" /\ step = "publish" /\ to = "none"
           \/ kind = "delete" /\ step = "delete" /\ to = "none",
           kind = "retry" => \E i \in Items : S = {i}
    PROVE  NewJob(kind, step, S, to) \in JobSet /\ JobFits(NewJob(kind, step, S, to))
BY DEF NewJob, Loop, JobSet, JobFits, Kinds, Steps, Calls, Editing, Publishing

LEMMA JobTyped ==
    ASSUME JobTypes, NEW j \in Jobs, NEW q \in JobSet, JobFits(q), job' = [job EXCEPT ![j] = q]
    PROVE  JobTypes'
BY DEF JobTypes

LEMMA LatestTyped ==
    ASSUME latest \in [{"update", "delete"} -> Jobs \cup {Nobody}], NEW j \in Jobs, NEW q,
           Sends(j, q)
    PROVE  latest' \in [{"update", "delete"} -> Jobs \cup {Nobody}]
BY DEF Sends

LEMMA NoJobIs ==
    NoJob \in JobSet /\ JobFits(NoJob) /\ Reloading \in JobSet /\ JobFits(Reloading)
BY DEF NoJob, Reloading, Loop, JobSet, JobFits, Kinds, Steps, Calls

\* The loop after the answer for one item, and for the second half of a loop
Next1(j) == [job[j] EXCEPT !.todo = Rest(j), !.call = "sent"]
Half2(j) == [job[j] EXCEPT !.step = "publish", !.todo = job[j].ids, !.call = "sent"]

LEMMA ProceedEffect ==
    ASSUME JobTypes, PageTypes, NEW j \in Jobs, Proceed(j), Rest(j) # {}
    PROVE  Sends(j, Next1(j)) /\ Next1(j) \in JobSet /\ JobFits(Next1(j))
<1>1. DOMAIN latest = {"update", "delete"} /\ job[j] \in JobSet /\ JobFits(job[j])
  BY DEF PageTypes, JobTypes
<1>2. Next1(j) = [[job[j] EXCEPT !.todo = Rest(j)] EXCEPT !.call = "sent"]
  BY <1>1 DEF Next1, JobSet
<1>3. Sends(j, Next1(j))
  BY <1>1, <1>2 DEF Proceed, Send, Sends, JobSet
<1>4. Next1(j) \in JobSet
  BY <1>1 DEF Next1, JobSet, Rest, Calls
<1>5. job[j].step \notin {"none", "reload"}
  <2>1. job[j].todo # {}
    BY DEF Rest
  <2> QED BY <2>1, <1>1 DEF JobFits, NoJob, Reloading, Loop
<1>6. JobFits(Next1(j))
  BY <1>1, <1>5 DEF Next1, JobFits, JobSet, Rest, Steps
<1> QED BY <1>3, <1>4, <1>6

LEMMA SecondHalfEffect ==
    ASSUME JobTypes, PageTypes, NEW j \in Jobs, PublishStep(j, job[j].ids),
           job[j].step = "update", job[j].kind \in {"publishNow", "retry"}
    PROVE  /\ Sends(j, Half2(j)) /\ Half2(j) \in JobSet /\ JobFits(Half2(j))
           /\ publishing' = publishing \cup job[j].ids
<1>1. DOMAIN latest = {"update", "delete"} /\ job[j] \in JobSet /\ JobFits(job[j])
  BY DEF PageTypes, JobTypes
<1>2. Sends(j, Half2(j))
  BY <1>1 DEF PublishStep, Send, Sends, Half2, JobSet
<1>3. Half2(j) \in JobSet
  BY <1>1 DEF Half2, JobSet, Steps, Calls
<1>4. JobFits(Half2(j))
  BY <1>1 DEF Half2, JobFits, JobSet, Publishing
<1> QED BY <1>2, <1>3, <1>4 DEF PublishStep

-----------------------------------------------------------------------------
(* What the server does to a row *)

\* The row of i becomes r, a later version of it
Newer(i, r) ==
    /\ row[i].st # "gone" /\ row' = [row EXCEPT ![i] = r] /\ r.silent = FALSE
    /\ IF r.st = "gone" THEN r.ver = 0
       ELSE r.ver = row[i].ver + 1 /\ (row[i].last # "none" => r.last # "none")

\* An attempt on i was claimed, or failed
Touched(i) == row[i].st # "gone" /\ \E last \in {"started", "failed"} : Mark(i, last)

LEMMA PutIs ==
    ASSUME RowTypes, NEW i \in Items, row[i].st # "gone", NEW r \in Rows, Put(i, r),
           r.st = "gone" \/ r.last # "none" \/ r.last = row[i].last
    PROVE  \E q \in Rows : Newer(i, q)
<1> DEFINE q == [r EXCEPT !.ver = IF r.st = "gone" THEN 0 ELSE row[i].ver + 1, !.silent = FALSE]
<1>1. row[i] \in Rows
  BY DEF RowTypes
<1>2. q \in Rows /\ q.st = r.st /\ q.last = r.last /\ q.silent = FALSE
      /\ q.ver = IF r.st = "gone" THEN 0 ELSE row[i].ver + 1
  <2>1. PICK n \in Nat : n = IF r.st = "gone" THEN 0 ELSE row[i].ver + 1
    BY <1>1 DEF Rows
  <2>2. q = [r EXCEPT !.ver = n, !.silent = FALSE]
    BY <2>1
  <2> HIDE DEF q
  <2> QED BY <2>1, <2>2 DEF Rows
<1>3. row' = [row EXCEPT ![i] = q]
  BY DEF Put
<1> HIDE DEF q
<1>4. Newer(i, q)
  BY <1>2, <1>3 DEF Newer
<1> QED BY <1>2, <1>4

LEMMA TouchedIs ==
    ASSUME RowTypes, NEW i \in Items, Touched(i)
    PROVE  /\ row' \in [Items -> Rows]
           /\ \A k \in Items : row'[k].ver = row[k].ver /\ row'[k].st = row[k].st
           /\ \A k \in Items : k # i => row'[k] = row[k]
           /\ row'[i].last # "none" /\ (row'[i].last = "failed" => row'[i].silent)
<1>1. row \in [Items -> Rows] /\ row[i] \in Rows
  BY DEF RowTypes
<1>2. PICK last \in {"started", "failed"} : Mark(i, last)
  BY DEF Touched
<1> DEFINE r == [row[i] EXCEPT !.last = last, !.silent = (last = "failed")]
<1>3. r \in Rows /\ r.ver = row[i].ver /\ r.st = row[i].st /\ r.last = last
      /\ (last = "failed" => r.silent)
  <2>1. last \in {"none", "started", "ok", "failed"} /\ (last = "failed") \in BOOLEAN
    BY <1>2
  <2> DEFINE q == [row[i] EXCEPT !.last = last]
  <2>2. q \in Rows /\ q.ver = row[i].ver /\ q.st = row[i].st /\ q.last = last
    BY <1>1, <2>1 DEF Rows
  <2>3. PICK b \in BOOLEAN : b = (last = "failed")
    BY <2>1
  <2>4. r = [q EXCEPT !.silent = b]
    BY <1>1, <2>2, <2>3 DEF Rows
  <2> HIDE DEF q, r
  <2> QED BY <2>2, <2>3, <2>4 DEF Rows
<1>4. row' = [row EXCEPT ![i] = r]
  BY <1>1, <1>2 DEF Mark, Rows
<1> HIDE DEF r
<1> QED BY <1>1, <1>2, <1>3, <1>4

LEMMA RowStepTyped ==
    ASSUME RowTypes, NEW i \in Items, NEW r \in Rows, Newer(i, r) \/ Touched(i), UNCHANGED list
    PROVE  RowTypes'
<1>1. \A k \in Items : row[k] \in Rows
  BY DEF RowTypes
<1>2. CASE Newer(i, r)
  <2>1. row' \in [Items -> Rows] /\ \A k \in Items : row'[k] = IF k = i THEN r ELSE row[k]
    BY <1>2 DEF Newer, RowTypes
  <2>2. r.ver = 0 <=> r.st = "gone"
    BY <1>1, <1>2 DEF Newer, Rows
  <2>3. GoneIsZero(row)'
    BY <2>1, <2>2 DEF GoneIsZero, RowTypes
  <2> QED BY <2>1, <2>3 DEF RowTypes, GoneIsZero
<1>3. CASE Touched(i)
  BY <1>3, TouchedIs DEF RowTypes, GoneIsZero
<1> QED BY <1>2, <1>3

Served(j, answer, b) == [job[j] EXCEPT !.call = answer, !.chan = b]

RowEffect(i) == UNCHANGED row \/ (\E r \in Rows : Newer(i, r)) \/ Touched(i)

Replies == Calls \ {"none", "sent"}

\* A request the server is at
Open(j) == job[j].call \in {"sent", "claimed", "failing"}

LEMMA AnswerIs ==
    ASSUME BoardTypes, NEW j \in Jobs, NEW answer, Answer(j, answer), RowTypes',
           Current(j) \in Items
    PROVE  \E b \in BOOLEAN : job' = [job EXCEPT ![j] = Served(j, answer, b)]
<1> DEFINE b == row'[Current(j)].chan
<1>1. b \in BOOLEAN
  BY DEF RowTypes, Rows
<1>2. job \in [Jobs -> JobSet]
  BY DEF BoardTypes, JobTypes
<1>3. job' = [job EXCEPT ![j] = Served(j, answer, b)]
  BY <1>2 DEF Answer, Served, JobSet
<1> HIDE DEF b
<1> QED BY <1>1, <1>3

LEMMA SentIs ==
    ASSUME BoardTypes, NEW j \in Jobs, Open(j)
    PROVE  job[j].step \in {"update", "publish", "delete"} /\ Current(j) \in Items
<1>1. job[j] \in JobSet /\ JobFits(job[j])
  BY DEF BoardTypes, JobTypes
<1>2. job[j].step \notin {"none", "reload"}
  BY <1>1 DEF JobFits, NoJob, Reloading, Loop, Open
<1>3. job[j].step \in {"update", "publish", "delete"}
  BY <1>1, <1>2 DEF JobSet, Steps
<1> QED BY <1>3, CurrentIs DEF BoardTypes

\* What is put for an item that is there: a row of any status whose attempts are not taken back
LEMMA PutRow ==
    ASSUME RowTypes, NEW i \in Items, row[i].st # "gone", NEW r, Put(i, r),
           \/ r = Gone
           \/ r \in Rows /\ (r.last = row[i].last \/ r.last # "none")
    PROVE  RowEffect(i)
<1>1. Gone \in Rows /\ Gone.st = "gone"
  BY DEF Gone, Rows
<1>2. \E q \in Rows : Newer(i, q)
  BY <1>1, PutIs
<1> QED BY <1>2 DEF RowEffect

LEMMA PutStatus ==
    ASSUME RowTypes, NEW i \in Items, row[i].st # "gone", NEW st \in Statuses,
           Put(i, [row[i] EXCEPT !.st = st])
    PROVE  RowEffect(i)
<1>1. row[i] \in Rows
  BY DEF RowTypes
<1> DEFINE r == [row[i] EXCEPT !.st = st]
<1>2. r \in Rows /\ r.last = row[i].last /\ Put(i, r)
  BY <1>1 DEF Rows
<1> HIDE DEF r
<1> QED BY <1>2, PutRow

LEMMA PutPublished ==
    ASSUME RowTypes, NEW i \in Items, row[i].st # "gone", NEW last \in Settled(i, "ok"),
           Put(i, [row[i] EXCEPT !.st = "published", !.last = last])
    PROVE  RowEffect(i)
<1>1. row[i] \in Rows
  BY DEF RowTypes
<1> DEFINE r == [row[i] EXCEPT !.st = "published", !.last = last]
<1>2. last \in {"none", "started", "ok", "failed"} /\ (last = row[i].last \/ last # "none")
  BY <1>1 DEF Rows, Settled
<1>3. r \in Rows /\ r.last = last /\ Put(i, r)
  BY <1>1, <1>2 DEF Rows, Statuses
<1> HIDE DEF r
<1> QED BY <1>2, <1>3, PutRow

LEMMA ServePublishRow ==
    ASSUME BoardTypes, NEW j \in Jobs, ServePublish(j)
    PROVE  /\ Open(j) /\ job[j].step = "publish" /\ RowEffect(Current(j))
           /\ \E answer \in Replies : Answer(j, answer)
<1>1. Open(j) /\ job[j].step = "publish" /\ row[Current(j)].st # "gone"
  BY DEF ServePublish, Suppressed, Claims, Succeeds, AttemptFails, ItemFails, Reached, Open
<1> DEFINE i == Current(j)
<1>2. i \in Items
  BY <1>1, SentIs
<1>3. RowTypes /\ row[i].st # "gone" /\ {"published", "failed"} \subseteq Statuses
  BY <1>1, <1>2 DEF BoardTypes, Statuses
<1>4. \E answer \in Replies : Answer(j, answer)
  <2>1. {"conflict", "claimed", "failing", "ok", "error"} \subseteq Replies
    BY DEF Replies, Calls
  <2> QED BY <2>1 DEF ServePublish, Suppressed, Claims, Succeeds, AttemptFails, ItemFails
<1>5. \A last \in {"started", "failed"} : Mark(i, last) => RowEffect(i)
  BY <1>3 DEF RowEffect, Touched
<1>6. UNCHANGED row => RowEffect(i)
  BY DEF RowEffect
<1>7. \A st \in {"published", "failed"} : Put(i, [row[i] EXCEPT !.st = st]) => RowEffect(i)
  BY <1>2, <1>3, PutStatus
<1>8. \A last \in Settled(i, "ok") :
        Put(i, [row[i] EXCEPT !.st = "published", !.last = last]) => RowEffect(i)
  BY <1>2, <1>3, PutPublished
<1>9. \/ UNCHANGED row
      \/ \E last \in {"started", "failed"} : Mark(i, last)
      \/ \E st \in {"published", "failed"} : Put(i, [row[i] EXCEPT !.st = st])
      \/ \E last \in Settled(i, "ok") : Put(i, [row[i] EXCEPT !.st = "published", !.last = last])
  BY DEF ServePublish, Suppressed, Claims, Succeeds, AttemptFails, ItemFails
<1> QED BY <1>1, <1>4, <1>5, <1>6, <1>7, <1>8, <1>9

LEMMA ServeRow ==
    ASSUME BoardTypes, NEW j \in Jobs, Serve(j)
    PROVE  /\ Open(j) /\ RowEffect(Current(j))
           /\ \E answer \in Replies :
                Answer(j, answer)
                /\ (answer \in {"claimed", "failing", "conflict"} => job[j].step = "publish")
<1>1. Open(j)
  BY ServePublishRow DEF Serve, Refused, ServeUpdate, ServeDelete, Sent, Open
<1>2. PICK i \in Items : i = Current(j)
  BY <1>1, SentIs
<1>3. job[j] \in JobSet /\ JobFits(job[j]) /\ RowTypes /\ row[i] \in Rows
  BY DEF BoardTypes, JobTypes, RowTypes
<1>4. {"ok", "error"} \subseteq Replies
  BY DEF Replies, Calls
<1>5. CASE Refused(j)
  BY <1>1, <1>4, <1>5 DEF Refused, RowEffect
<1>6. CASE ServeUpdate(j)
  <2>1. Edited(j) \in Rows /\ Edited(j).last = row[i].last
    BY <1>2, <1>3, <1>6 DEF ServeUpdate, Sent, Edited, Rows, JobFits
  <2>2. row[i].st # "gone" /\ Put(i, Edited(j))
    BY <1>2, <1>6 DEF ServeUpdate
  <2>3. RowEffect(i)
    BY <1>3, <2>1, <2>2, PutRow
  <2>4. PICK answer \in {"ok", "error"} : Answer(j, answer)
    BY <1>6 DEF ServeUpdate
  <2> QED BY <1>1, <1>2, <1>4, <2>3, <2>4
<1>7. CASE ServeDelete(j)
  <2>1. row[i].st # "gone" /\ Put(i, Gone)
    BY <1>2, <1>7 DEF ServeDelete
  <2>2. RowEffect(i)
    BY <1>3, <2>1, PutRow
  <2>3. PICK answer \in {"ok", "error"} : Answer(j, answer)
    BY <1>7 DEF ServeDelete
  <2> QED BY <1>1, <1>2, <1>4, <2>2, <2>3
<1>8. CASE ServePublish(j)
  BY <1>8, ServePublishRow
<1> QED BY <1>5, <1>6, <1>7, <1>8 DEF Serve

\* What the server and its other users leave alone
PageStays ==
    UNCHANGED <<list, enrichment, latest, publishing, failures, told, selected, dialogs, view>>

LEMMA RowEffectTyped ==
    ASSUME BoardTypes, NEW i \in Items, RowEffect(i), UNCHANGED list PROVE RowTypes'
<1>1. RowTypes /\ row[i] \in Rows
  BY DEF BoardTypes, RowTypes
<1>2. CASE UNCHANGED row
  BY <1>1, <1>2 DEF RowTypes, GoneIsZero
<1>3. CASE (\E r \in Rows : Newer(i, r)) \/ Touched(i)
  BY <1>1, <1>3, RowStepTyped
<1> QED BY <1>2, <1>3 DEF RowEffect

LEMMA ServeEffect ==
    ASSUME BoardTypes, NEW j \in Jobs, Serve(j)
    PROVE  /\ Current(j) \in Items /\ RowTypes' /\ RowEffect(Current(j))
           /\ job[j].step \in {"update", "publish", "delete"}
           /\ \E answer \in Replies : \E b \in BOOLEAN :
                /\ job' = [job EXCEPT ![j] = Served(j, answer, b)]
                /\ answer \in {"claimed", "failing", "conflict"} => job[j].step = "publish"
           /\ PageStays
<1>1. PICK answer \in Replies :
        Answer(j, answer)
        /\ (answer \in {"claimed", "failing", "conflict"} => job[j].step = "publish")
  BY ServeRow
<1>2. Open(j) /\ RowEffect(Current(j))
  BY ServeRow
<1>3. Current(j) \in Items /\ job[j].step \in {"update", "publish", "delete"}
  BY <1>2, SentIs
<1>4. PageStays
  BY <1>1 DEF Answer, PageStays
<1>5. RowTypes'
  BY <1>2, <1>3, <1>4, RowEffectTyped DEF PageStays
<1>6. PICK b \in BOOLEAN : job' = [job EXCEPT ![j] = Served(j, answer, b)]
  BY <1>1, <1>3, <1>5, AnswerIs
<1> QED BY <1>1, <1>2, <1>3, <1>4, <1>5, <1>6

LEMMA ForeignEffect ==
    ASSUME BoardTypes, NEW i \in Items, Foreign(i)
    PROVE  RowEffect(i) /\ RowTypes' /\ UNCHANGED job /\ PageStays
<1>1. row[i] \in Rows /\ row[i].st # "gone" /\ RowTypes
  BY DEF Foreign, BoardTypes, RowTypes
<1>2. ASSUME NEW st \in Statuses, Put(i, [row[i] EXCEPT !.st = st, !.later = (st = "scheduled")])
      PROVE  RowEffect(i)
  <2> DEFINE r == [row[i] EXCEPT !.st = st, !.later = (st = "scheduled")]
  <2>1. r \in Rows /\ r.last = row[i].last /\ Put(i, r)
    BY <1>1, <1>2 DEF Rows
  <2> HIDE DEF r
  <2> QED BY <1>1, <2>1, PutRow
<1>3. ASSUME NEW last \in {"started", "failed"}, Mark(i, last) PROVE RowEffect(i)
  BY <1>1, <1>3 DEF RowEffect, Touched
<1>4. Put(i, Gone) => RowEffect(i)
  BY <1>1, PutRow
<1>5. Put(i, [row[i] EXCEPT !.st = "failed"]) => RowEffect(i)
  <2>1. "failed" \in Statuses
    BY DEF Statuses
  <2> QED BY <1>1, <2>1, PutStatus
<1>6. ASSUME NEW last \in Settled(i, "ok"),
             Put(i, [row[i] EXCEPT !.st = "published", !.last = last])
      PROVE  RowEffect(i)
  BY <1>1, <1>6, PutPublished
<1>7. RowEffect(i)
  BY <1>2, <1>3, <1>4, <1>5, <1>6 DEF Foreign
<1>8. UNCHANGED job /\ PageStays
  BY DEF Foreign, PageStays, ops
<1>9. RowTypes'
  BY <1>7, <1>8, RowEffectTyped DEF PageStays
<1> QED BY <1>7, <1>8, <1>9

-----------------------------------------------------------------------------
(* Types *)

LEMMA LoadTyped ==
    ASSUME RowTypes, ReadTypes, list' = row, StartEnrichment, UNCHANGED row
    PROVE  RowTypes' /\ ReadTypes'
<1>1. RowTypes'
  BY DEF RowTypes, GoneIsZero
<1>2. CASE UNCHANGED <<targets, asked, summary>>
  BY <1>1, <1>2 DEF ReadTypes
<1>3. CASE /\ summary' = [i \in Items |-> Unknown]
           /\ targets' = {i \in Items : row[i].st \notin {"gone", "published"}}
           /\ asked' = {[a EXCEPT !.current = FALSE] : a \in asked}
  <2>1. Unknown \in Readings
    BY DEF Unknown, Readings
  <2>2. asked' \subseteq Asks
    <3>1. \A a \in Asks : [a EXCEPT !.current = FALSE] \in Asks
      BY DEF Asks
    <3> QED BY <1>3, <3>1 DEF ReadTypes
  <2> QED BY <1>1, <1>3, <2>1, <2>2 DEF ReadTypes
<1> QED BY <1>1, <1>2, <1>3 DEF StartEnrichment

\* The page types, but for the parts a step changes
LEMMA PageStaysTyped ==
    ASSUME PageTypes, PageStays PROVE PageTypes'
BY DEF PageTypes, PageStays, dialogs, view, retries, Listed

LEMMA ListStaysRead ==
    ASSUME BoardTypes, UNCHANGED <<row, list, enrichment>> PROVE RowTypes' /\ ReadTypes'
BY DEF BoardTypes, RowTypes, ReadTypes, GoneIsZero, enrichment

LEMMA InitTypes == BoardInit => BoardTypes
<1> SUFFICES ASSUME BoardInit PROVE BoardTypes
  OBVIOUS
<1>1. RowTypes
  BY BoardAssumption DEF BoardInit, RowTypes, GoneIsZero
<1>2. ReadTypes
  BY DEF BoardInit, ReadTypes, Unknown, Readings
<1>3. JobTypes
  BY NoJobIs DEF BoardInit, JobTypes
<1>4. PageTypes
  BY BoardAssumption DEF BoardInit, PageTypes, Listed
<1> QED BY <1>1, <1>2, <1>3, <1>4 DEF BoardTypes

LEMMA StartTyped ==
    ASSUME BoardTypes, NEW kind, NEW step, NEW S, NEW to, Start(kind, step, S, to),
           S \in SUBSET Items, S # {},
           \/ kind \in Editing /\ step = "update" /\ to \in Statuses
           \/ kind = "publish" /\ step = "publish" /\ to = "none"
           \/ kind = "delete" /\ step = "delete" /\ to = "none",
           kind = "retry" => \E i \in Items : S = {i},
           publishing' \subseteq Items, retried' \subseteq Items, crossed' \in BOOLEAN
    PROVE  BoardTypes'
<1> DEFINE q == NewJob(kind, step, S, to)
<1>1. q \in JobSet /\ JobFits(q)
  BY NewJobIs
<1>2. PICK j \in Jobs : Sends(j, q)
  BY StartEffect DEF BoardTypes
<1>3. UNCHANGED <<row, list, enrichment, failures, told, selected, dialogs, filter, page, shrunk>>
  BY StartEffect DEF BoardTypes
<1> HIDE DEF q
<1>4. JobTypes'
  BY <1>1, <1>2, JobTyped DEF BoardTypes, Sends
<1>5. latest' \in [{"update", "delete"} -> Jobs \cup {Nobody}]
  BY <1>2, LatestTyped DEF BoardTypes, PageTypes
<1>6. PageTypes'
  BY <1>3, <1>5 DEF BoardTypes, PageTypes, dialogs, Listed
<1>7. RowTypes' /\ ReadTypes'
  BY <1>3, ListStaysRead
<1> QED BY <1>4, <1>6, <1>7 DEF BoardTypes

LEMMA PublishItemsTyped ==
    ASSUME BoardTypes, NEW S \in SUBSET Items, S # {}, PublishItems(S)
    PROVE  BoardTypes'
<1>1. CASE \A i \in S : list[i].chan
  <2>1. Start("publish", "publish", S, "none") /\ publishing' = publishing \cup S /\ UNCHANGED retries
    BY <1>1 DEF PublishItems
  <2>2. publishing' \subseteq Items /\ retried' \subseteq Items /\ crossed' \in BOOLEAN
    BY <2>1 DEF BoardTypes, PageTypes, retries
  <2> QED BY <2>1, <2>2, StartTyped
<1>2. CASE ~\A i \in S : list[i].chan
  <2>1. Show(S, doomed)
    BY <1>2 DEF PublishItems
  <2> QED BY <2>1, ListStaysRead DEF Show, BoardTypes, PageTypes, JobTypes, ops, view, retries, Listed
<1> QED BY <1>1, <1>2

LEMMA ShowTyped ==
    ASSUME BoardTypes, NEW d \in SUBSET Items, NEW x \in SUBSET Items, Show(d, x)
    PROVE  BoardTypes'
BY ListStaysRead DEF Show, BoardTypes, PageTypes, JobTypes, ops, view, retries, Listed

LEMMA SelectTyped ==
    ASSUME BoardTypes, NEW S \in SUBSET Listed, Select(S)
    PROVE  BoardTypes'
BY ListStaysRead DEF Select, BoardTypes, PageTypes, JobTypes, ops, dialogs, view, retries, Listed

LEMMA TurnTyped ==
    ASSUME BoardTypes, NEW p \in Nat, Turn(p)
    PROVE  BoardTypes'
BY ListStaysRead DEF Turn, BoardTypes, PageTypes, JobTypes, ops, dialogs, retries, Listed

LEMMA OfferedAre ==
    ASSUME BoardTypes, NEW S \in Offered
    PROVE  S \in SUBSET Items /\ S # {}
BY DEF Offered, BarReady, Paged, Filtered, Listed, BoardTypes, PageTypes

LEMMA ClickTyped == ASSUME BoardTypes, Click PROVE BoardTypes'
<1>0. /\ selected \in SUBSET Listed /\ Listed \in SUBSET Items /\ Paged \in SUBSET Listed
      /\ dialog \in SUBSET Items /\ doomed \in SUBSET Items /\ page \in Nat
      /\ publishing \in SUBSET Items /\ retried \in SUBSET Items /\ crossed \in BOOLEAN
  BY DEF BoardTypes, PageTypes, Listed, Paged, Filtered
<1>1. ASSUME NEW i \in Items, Toggle(i) PROVE BoardTypes'
  <2>1. i \in Paged /\ Select(IF i \in selected THEN selected \ {i} ELSE selected \cup {i})
    BY <1>1 DEF Toggle
  <2>2. (IF i \in selected THEN selected \ {i} ELSE selected \cup {i}) \in SUBSET Listed
    BY <2>1, <1>0
  <2> QED BY <2>1, <2>2, SelectTyped
<1>2. ASSUME NEW i \in Items, PublishRow(i) PROVE BoardTypes'
  BY <1>2, PublishItemsTyped DEF PublishRow
<1>3. ASSUME NEW i \in Items, Retry(i) PROVE BoardTypes'
  <2> DEFINE to == IF list[i].later THEN "scheduled" ELSE "queued"
  <2>1. /\ Start("retry", "update", {i}, to) /\ to \in Statuses
        /\ publishing' \subseteq Items /\ retried' \subseteq Items /\ crossed' \in BOOLEAN
    BY <1>0, <1>3 DEF Retry, Statuses
  <2> HIDE DEF to
  <2>2. "retry" \in Editing /\ {i} \in SUBSET Items /\ {i} # {}
    BY DEF Editing
  <2> QED BY <2>1, <2>2, StartTyped
<1>4. ASSUME ToggleAll PROVE BoardTypes'
  <2>1. Select(IF Paged \subseteq selected THEN selected \ Paged ELSE selected \cup Paged)
    BY <1>4 DEF ToggleAll
  <2>2. (IF Paged \subseteq selected THEN selected \ Paged ELSE selected \cup Paged)
            \in SUBSET Listed
    BY <1>0
  <2> QED BY <2>1, <2>2, SelectTyped
<1>5. ASSUME ClearSelection PROVE BoardTypes'
  BY <1>5, SelectTyped DEF ClearSelection
<1>6. ASSUME NextPage \/ PreviousPage PROVE BoardTypes'
  <2>1. \E p \in Nat : Turn(p)
    <3>1. CASE NextPage
      BY <3>1, <1>0 DEF NextPage
    <3>2. CASE PreviousPage
      <4>1. page - 1 \in Nat /\ Turn(page - 1)
        BY <3>2, <1>0 DEF PreviousPage
      <4> QED BY <4>1
    <3> QED BY <1>6, <3>1, <3>2
  <2> QED BY <2>1, TurnTyped
<1>7. ASSUME NEW f \in Filters, SetFilter(f) PROVE BoardTypes'
  BY <1>7, ListStaysRead DEF SetFilter, PageAfterFilter, BoardTypes, PageTypes, JobTypes, ops,
     dialogs, retries, Listed
<1>8. ASSUME OpenSchedule \/ OpenDelete \/ CloseSchedule \/ CancelDelete PROVE BoardTypes'
  <2>1. \E d, x \in SUBSET Items : Show(d, x)
    <3>1. CASE OpenSchedule
      BY <3>1, <1>0, OfferedAre DEF OpenSchedule
    <3>2. CASE OpenDelete
      BY <3>2, <1>0, OfferedAre DEF OpenDelete
    <3>3. CASE CloseSchedule
      BY <3>3, <1>0 DEF CloseSchedule
    <3>4. CASE CancelDelete
      BY <3>4, <1>0 DEF CancelDelete
    <3> QED BY <1>8, <3>1, <3>2, <3>3, <3>4
  <2> QED BY <2>1, ShowTyped
<1>9. ASSUME PublishSelected PROVE BoardTypes'
  BY <1>9, <1>0, PublishItemsTyped DEF PublishSelected, BarReady
<1>10. ASSUME Quiet PROVE publishing' \subseteq Items /\ retried' \subseteq Items /\ crossed' \in BOOLEAN
  BY <1>0, <1>10 DEF Quiet, retries
<1>11. {"schedule", "status", "publishNow"} \subseteq Editing
       /\ {"scheduled", "queued", "draft"} \subseteq Statuses
  BY DEF Editing, Statuses
<1>12. ASSUME SaveSchedule PROVE BoardTypes'
  <2>1. Start("schedule", "update", dialog, "scheduled") /\ Quiet /\ dialog # {}
    BY <1>12 DEF SaveSchedule, DialogReady
  <2> QED BY <2>1, <1>0, <1>10, <1>11, StartTyped
<1>13. ASSUME PublishFromDialog PROVE BoardTypes'
  <2>1. Start("publishNow", "update", dialog \cap Listed, "queued") /\ Quiet
        /\ dialog \cap Listed # {}
    BY <1>13 DEF PublishFromDialog
  <2> QED BY <2>1, <1>0, <1>10, <1>11, StartTyped
<1>14. ASSUME ConfirmDelete PROVE BoardTypes'
  <2>1. Start("delete", "delete", doomed, "none") /\ Quiet /\ doomed # {}
    BY <1>14 DEF ConfirmDelete
  <2> QED BY <2>1, <1>0, <1>10, StartTyped
<1>15. ASSUME NEW to \in {"draft", "queued"}, ChangeStatus(to) PROVE BoardTypes'
  <2>1. Start("status", "update", selected, to) /\ Quiet /\ selected # {}
    BY <1>15 DEF ChangeStatus, BarReady
  <2>2. to \in Statuses /\ selected \in SUBSET Items
    BY <1>0, <1>11
  <2> QED BY <2>1, <2>2, <1>10, <1>11, StartTyped
<1> QED BY <1>1, <1>2, <1>3, <1>4, <1>5, <1>6, <1>7, <1>8, <1>9, <1>12, <1>13, <1>14, <1>15
        DEF Click

LEMMA ReadTyped ==
    ASSUME BoardTypes, Reload \/ AskSummary \/ ReadSummary \/ StoreSummary \/ SummaryFails
    PROVE  BoardTypes'
<1>0. RowTypes /\ ReadTypes /\ JobTypes /\ PageTypes
  BY DEF BoardTypes
<1>1. CASE Reload
  <2>1. list' = row /\ StartEnrichment /\ UNCHANGED row
    BY <1>1 DEF Reload, LoadList
  <2>2. RowTypes' /\ ReadTypes'
    BY <1>0, <2>1, LoadTyped
  <2>3. selected' \subseteq Listed' /\ failures' \subseteq Items
    BY <1>0, <1>1, <2>1 DEF StartEnrichment, Synced, Reload, LoadList, KeptIn, Listed, PageTypes
  <2>4. shrunk' \in BOOLEAN
    BY <1>0, <1>1 DEF Reload, LoadList, Shrinks, PageTypes
  <2>5. JobTypes' /\ PageTypes'
    BY <1>0, <1>1, <2>3, <2>4 DEF Reload, LoadList, dialogs, retries, JobTypes, PageTypes
  <2> QED BY <2>2, <2>5 DEF BoardTypes
<1>2. ASSUME UNCHANGED <<row, list, ops, selected, dialogs, view>>, ReadTypes'
      PROVE  BoardTypes'
  BY <1>0, <1>2 DEF BoardTypes, RowTypes, GoneIsZero, JobTypes, PageTypes, ops, dialogs, view,
     retries, Listed
<1>3. CASE AskSummary
  <2>1. PICK i \in targets : /\ targets' = targets \ {i}
          /\ asked' = asked \cup {[item |-> i, current |-> TRUE, got |-> Unknown]}
    BY <1>3 DEF AskSummary
  <2>2. [item |-> i, current |-> TRUE, got |-> Unknown] \in Asks
    BY <1>0, <2>1 DEF ReadTypes, Asks, Readings, Unknown
  <2>3. ReadTypes'
    BY <1>0, <1>3, <2>1, <2>2 DEF ReadTypes, AskSummary
  <2> QED BY <1>2, <1>3, <2>3 DEF AskSummary
<1>4. CASE ReadSummary
  <2>1. PICK a \in asked : asked' = (asked \ {a}) \cup
               {[a EXCEPT !.got = [last |-> row[a.item].last, ver |-> row[a.item].ver]]}
    BY <1>4 DEF ReadSummary
  <2>2. a \in Asks /\ row[a.item] \in Rows
    BY <1>0 DEF ReadTypes, RowTypes, Asks
  <2>3. [a EXCEPT !.got = [last |-> row[a.item].last, ver |-> row[a.item].ver]] \in Asks
    BY <2>2 DEF Asks, Readings, Rows
  <2>4. ReadTypes'
    BY <1>0, <1>4, <2>1, <2>3 DEF ReadTypes, ReadSummary
  <2> QED BY <1>2, <1>4, <2>4 DEF ReadSummary
<1>5. CASE StoreSummary
  <2>1. PICK a \in asked :
          /\ asked' = asked \ {a}
          /\ summary' = IF Wanted(a) THEN [summary EXCEPT ![a.item] = a.got] ELSE summary
          /\ failures' = IF Wanted(a) THEN Synced(list, summary') ELSE failures
          /\ UNCHANGED <<row, list, targets, job, latest, publishing, told, selected, dialogs, view>>
    BY <1>5 DEF StoreSummary
  <2>2. a \in Asks
    BY <1>0 DEF ReadTypes
  <2>3. ReadTypes'
    BY <1>0, <2>1, <2>2 DEF ReadTypes, Asks
  <2>4. PageTypes'
    BY <1>0, <2>1 DEF PageTypes, dialogs, view, retries, Listed, Synced
  <2>5. RowTypes' /\ JobTypes'
    BY <1>0, <2>1 DEF RowTypes, GoneIsZero, JobTypes
  <2> QED BY <2>3, <2>4, <2>5 DEF BoardTypes
<1>6. CASE SummaryFails
  <2>1. ReadTypes'
    BY <1>0, <1>6 DEF ReadTypes, SummaryFails
  <2> QED BY <1>2, <1>6, <2>1 DEF SummaryFails
<1> QED BY <1>1, <1>3, <1>4, <1>5, <1>6

LEMMA ServerTyped ==
    ASSUME BoardTypes, (\E j \in Jobs : Serve(j)) \/ \E i \in Items : Foreign(i)
    PROVE  BoardTypes'
<1>0. RowTypes /\ ReadTypes /\ JobTypes /\ PageTypes
  BY DEF BoardTypes
<1>1. ASSUME PageStays, RowTypes', JobTypes' PROVE BoardTypes'
  BY <1>0, <1>1, PageStaysTyped DEF BoardTypes, ReadTypes, PageStays, enrichment
<1>2. ASSUME NEW j \in Jobs, Serve(j) PROVE BoardTypes'
  <2>1. PICK answer \in Replies, b \in BOOLEAN :
          /\ job' = [job EXCEPT ![j] = Served(j, answer, b)]
          /\ answer \in {"claimed", "failing", "conflict"} => job[j].step = "publish"
    BY <1>2, ServeEffect
  <2>2. job[j] \in JobSet /\ JobFits(job[j])
    BY <1>0 DEF JobTypes
  <2>3. job[j].step \in {"update", "publish", "delete"}
    BY <1>2, ServeEffect
  <2>4. Served(j, answer, b) \in JobSet
    BY <2>2 DEF Served, JobSet, Replies
  <2>5. JobFits(Served(j, answer, b))
    BY <2>1, <2>2, <2>3 DEF Served, JobSet, JobFits
  <2>6. JobTypes'
    BY <1>0, <2>1, <2>4, <2>5, JobTyped
  <2> QED BY <1>1, <1>2, <2>6, ServeEffect
<1>3. ASSUME NEW i \in Items, Foreign(i) PROVE BoardTypes'
  <2>1. JobTypes'
    BY <1>0, <1>3, ForeignEffect DEF JobTypes
  <2> QED BY <1>1, <1>3, <2>1, ForeignEffect
<1> QED BY <1>2, <1>3

LEMMA ContinueTyped ==
    ASSUME BoardTypes, NEW j \in Jobs, Continue(j)
    PROVE  BoardTypes'
<1>0. RowTypes /\ ReadTypes /\ JobTypes /\ PageTypes
  BY DEF BoardTypes
<1>1. job[j] \in JobSet /\ JobFits(job[j])
  BY <1>0 DEF JobTypes
<1>2. ASSUME Finish(j) PROVE JobTypes' /\ UNCHANGED latest
  BY <1>0, <1>2, NoJobIs, JobTyped DEF Finish
<1>3. ASSUME NEW q \in JobSet, JobFits(q), Sends(j, q)
      PROVE  JobTypes' /\ latest' \in [{"update", "delete"} -> Jobs \cup {Nobody}]
  BY <1>0, <1>3, JobTyped, LatestTyped DEF Sends, PageTypes
<1>4. ASSUME UNCHANGED <<row, list, enrichment>> PROVE RowTypes' /\ ReadTypes' /\ UNCHANGED Listed
  BY <1>4, ListStaysRead DEF Listed
<1>5. CASE Stopped(j)
  <2>1. JobTypes' /\ UNCHANGED latest
    BY <1>2, <1>5 DEF Stopped
  <2>2. PageTypes'
    BY <1>0, <1>4, <1>5, <2>1 DEF Stopped, PageTypes, dialogs, view, retries
  <2> QED BY <1>4, <1>5, <2>1, <2>2 DEF Stopped, BoardTypes
<1>6. CASE NextEdit(j)
  <2>1. JobTypes' /\ latest' \in [{"update", "delete"} -> Jobs \cup {Nobody}]
    BY <1>0, <1>3, <1>6, ProceedEffect DEF NextEdit
  <2>2. PageTypes'
    BY <1>0, <1>4, <1>6, <2>1 DEF NextEdit, PageTypes, dialogs, view, retries
  <2> QED BY <1>4, <1>6, <2>1, <2>2 DEF NextEdit, BoardTypes
<1>7. CASE Edits(j)
  <2>1. JobTypes' /\ UNCHANGED latest
    BY <1>2, <1>7 DEF Edits
  <2>2. PageTypes'
    BY <1>0, <1>4, <1>7, <2>1 DEF Edits, PageTypes, view, retries
  <2> QED BY <1>4, <1>7, <2>1, <2>2 DEF Edits, BoardTypes
<1>8. CASE Deletes(j)
  <2>1. JobTypes' /\ UNCHANGED latest
    BY <1>2, <1>8 DEF Deletes
  <2>2. PageTypes'
    BY <1>0, <1>4, <1>8, <2>1 DEF Deletes, PageTypes, view, retries
  <2> QED BY <1>4, <1>8, <2>1, <2>2 DEF Deletes, BoardTypes
<1>9. CASE PublishEdited(j)
  <2>1. /\ JobTypes' /\ latest' \in [{"update", "delete"} -> Jobs \cup {Nobody}]
        /\ publishing' \subseteq Items
    <3>1. CASE job[j].to = "queued" /\ job[j].chan
      <4>1. PublishStep(j, job[j].ids) /\ job[j].step = "update"
            /\ job[j].kind \in {"publishNow", "retry"}
        BY <1>9, <3>1 DEF PublishEdited, Answered
      <4>2. Sends(j, Half2(j)) /\ Half2(j) \in JobSet /\ JobFits(Half2(j))
            /\ publishing' = publishing \cup job[j].ids
        BY <1>0, <4>1, SecondHalfEffect
      <4> QED BY <1>0, <1>1, <1>3, <4>2 DEF PageTypes, JobSet
    <3>2. CASE ~(job[j].to = "queued" /\ job[j].chan)
      BY <1>0, <1>2, <1>9, <3>2 DEF PublishEdited, PageTypes
    <3> QED BY <3>1, <3>2
  <2>2. dialog' \subseteq Items
    BY <1>0, <1>1, <1>9 DEF PublishEdited, PageTypes, JobSet
  <2>3. PageTypes'
    BY <1>0, <1>4, <1>9, <2>1, <2>2 DEF PublishEdited, PageTypes, view, retries
  <2> QED BY <1>4, <1>9, <2>1, <2>3 DEF PublishEdited, BoardTypes
<1>10. CASE Published(j)
  <2>1. JobTypes' /\ latest' \in [{"update", "delete"} -> Jobs \cup {Nobody}]
    <3>1. CASE Rest(j) # {}
      BY <1>0, <1>3, <1>10, <3>1, ProceedEffect DEF Published
    <3>2. CASE Rest(j) = {}
      BY <1>0, <1>10, <3>2, NoJobIs, JobTyped DEF Published, PageTypes
    <3> QED BY <3>1, <3>2
  <2>2. Current(j) \in Items
    BY <1>0, <1>10, CurrentIs DEF Published
  <2>3. publishing' \subseteq Items /\ failures' \subseteq Items /\ told' \subseteq Items
    BY <1>0, <1>10, <2>2 DEF Published, Without, PageTypes
  <2>4. PageTypes'
    BY <1>0, <1>4, <1>10, <2>1, <2>3 DEF Published, PageTypes, dialogs, view, retries
  <2> QED BY <1>4, <1>10, <2>1, <2>4 DEF Published, BoardTypes
<1>11. CASE Reloaded(j)
  <2>1. JobTypes' /\ UNCHANGED latest
    BY <1>2, <1>11 DEF Reloaded
  <2>2. RowTypes' /\ ReadTypes' /\ shrunk' \in BOOLEAN /\ failures' \subseteq Items
    <3>1. CASE list' = row /\ StartEnrichment /\ shrunk' = (shrunk \/ Shrinks)
      <4>1. failures' \subseteq Items
        BY <1>0, <3>1 DEF StartEnrichment, Synced, PageTypes
      <4> QED BY <1>0, <1>11, <3>1, <4>1, LoadTyped DEF Reloaded, PageTypes, Shrinks
    <3>2. CASE UNCHANGED <<list, enrichment, shrunk, failures>>
      BY <1>0, <1>4, <1>11, <3>2 DEF Reloaded, PageTypes
    <3> QED BY <1>11, <3>1, <3>2 DEF Reloaded
  <2>3. PageTypes'
    BY <1>0, <1>11, <2>1, <2>2 DEF Reloaded, PageTypes, dialogs, retries
  <2> QED BY <2>1, <2>2, <2>3 DEF BoardTypes
<1> QED BY <1>5, <1>6, <1>7, <1>8, <1>9, <1>10, <1>11 DEF Continue

LEMMA NextTypes == BoardTypes /\ [BoardNext]_boardVars => BoardTypes'
<1> SUFFICES ASSUME BoardTypes, [BoardNext]_boardVars PROVE BoardTypes'
  OBVIOUS
<1>1. CASE UNCHANGED boardVars
  BY <1>1 DEF boardVars, BoardTypes, RowTypes, GoneIsZero, ReadTypes, JobTypes, PageTypes, Listed
<1>2. CASE BoardNext
  BY <1>2, ClickTyped, ReadTyped, ServerTyped, ContinueTyped DEF BoardNext
<1> QED BY <1>1, <1>2

-----------------------------------------------------------------------------
(* Loops, dialogs and markers *)

LEMMA JobsAfter ==
    ASSUME BoardTypes, NEW j \in Jobs, NEW q, job' = [job EXCEPT ![j] = q]
    PROVE  job'[j] = q /\ \A k \in Jobs : k # j => job'[k] = job[k]
BY DEF BoardTypes, JobTypes

LEMMA JobIs ==
    ASSUME BoardTypes, NEW j \in Jobs PROVE job[j] \in JobSet /\ JobFits(job[j])
BY DEF BoardTypes, JobTypes

\* Only answers have come in, and a dialog may have been opened or closed
LEMMA LoopFrame ==
    ASSUME LoopInv, UNCHANGED <<latest, publishing, retries>>, ModalCoversJob',
           \A k \in Jobs : /\ job'[k].kind = job[k].kind /\ job'[k].step = job[k].step
                           /\ job'[k].ids = job[k].ids /\ job'[k].todo = job[k].todo
    PROVE  LoopInv'
<1>1. PendingIsTrue'
  BY DEF LoopInv, PendingIsTrue, Wide, retries
<1>2. RetriesAreNoted'
  BY DEF LoopInv, RetriesAreNoted, retries
<1>3. \A i : PublishersOf(i)' = PublishersOf(i)
  BY DEF PublishersOf
<1>4. OnePublish'
  BY <1>3 DEF LoopInv, OnePublish, Spoilt, Wide, retries
<1>5. MarkersHavePublish'
  BY <1>3 DEF LoopInv, MarkersHavePublish
<1> QED BY <1>1, <1>2, <1>4, <1>5 DEF LoopInv

LEMMA ModalFrame ==
    ASSUME ModalCoversJob, UNCHANGED <<dialogs, crossed>>,
           \A k \in Jobs : job'[k].kind = job[k].kind /\ job'[k].step = job[k].step
    PROVE  ModalCoversJob'
BY DEF ModalCoversJob, dialogs

\* Publishes end; a marker goes with one of its publishes
LEMMA FewerPublishes ==
    ASSUME LoopInv, UNCHANGED retries, publishing' \subseteq publishing,
           \A i \in Items : PublishersOf(i)' \subseteq PublishersOf(i),
           \A i \in publishing : i \notin publishing' =>
                \E j \in PublishersOf(i) : j \notin PublishersOf(i)',
           \A i \in publishing' : PublishersOf(i)' # {},
           \A k \in Jobs : Wide(k)' => Wide(k) /\ job'[k].ids = job[k].ids
                                       /\ job'[k].kind = job[k].kind
    PROVE  OnePublish' /\ MarkersHavePublish'
<1>1. MarkersHavePublish'
  BY DEF MarkersHavePublish
<1>2. ASSUME NEW i \in Items, ~Spoilt(i)'
      PROVE  /\ \A j, k \in PublishersOf(i)' : j = k
             /\ PublishersOf(i)' # {} => i \in publishing'
             /\ \A j \in Jobs : (Wide(j) /\ job[j].kind = "publishNow" /\ i \in job[j].ids)' =>
                  PublishersOf(i)' = {}
  <2>1. /\ \A j, k \in PublishersOf(i) : j = k
        /\ PublishersOf(i) # {} => i \in publishing
        /\ \A j \in Jobs : Wide(j) /\ job[j].kind = "publishNow" /\ i \in job[j].ids =>
             PublishersOf(i) = {}
    BY <1>2 DEF LoopInv, OnePublish, Spoilt, retries
  <2>2. PublishersOf(i)' # {} => i \in publishing'
    BY <2>1
  <2>3. \A j \in Jobs : (Wide(j) /\ job[j].kind = "publishNow" /\ i \in job[j].ids)' =>
                  PublishersOf(i)' = {}
    BY <2>1
  <2> QED BY <2>1, <2>2, <2>3
<1>3. OnePublish'
  BY <1>2 DEF OnePublish
<1> QED BY <1>1, <1>3

\* A publish of S starts
LEMMA MorePublishes ==
    ASSUME BoardTypes, LoopInv, UNCHANGED retries, NEW j \in Jobs, NEW S \in SUBSET Items,
           job[j].step # "publish", publishing' = publishing \cup S,
           \A i \in Items : PublishersOf(i)' = PublishersOf(i) \cup (IF i \in S THEN {j} ELSE {}),
           \A i \in S : Spoilt(i) \/ PublishersOf(i) = {},
           \A k \in Jobs : Wide(k)' => Wide(k) /\ job'[k].ids = job[k].ids
                                       /\ job'[k].kind = job[k].kind,
           \A k \in Jobs : Wide(k)' /\ job'[k].kind = "publishNow" =>
                \A i \in S : i \in job'[k].ids => Spoilt(i)
    PROVE  OnePublish' /\ MarkersHavePublish'
<1>1. MarkersHavePublish'
  BY DEF LoopInv, MarkersHavePublish, BoardTypes, PageTypes
<1>2. ASSUME NEW i \in Items, ~Spoilt(i)'
      PROVE  /\ \A h, k \in PublishersOf(i)' : h = k
             /\ PublishersOf(i)' # {} => i \in publishing'
             /\ \A k \in Jobs : (Wide(k) /\ job[k].kind = "publishNow" /\ i \in job[k].ids)' =>
                  PublishersOf(i)' = {}
  <2>0. ~Spoilt(i)
    BY <1>2 DEF Spoilt, retries
  <2>1. /\ \A h, k \in PublishersOf(i) : h = k
        /\ PublishersOf(i) # {} => i \in publishing
        /\ \A k \in Jobs : Wide(k) /\ job[k].kind = "publishNow" /\ i \in job[k].ids =>
             PublishersOf(i) = {}
    BY <2>0 DEF LoopInv, OnePublish
  <2>2. CASE i \in S
    <3>1. PublishersOf(i)' = {j} /\ i \in publishing'
      BY <2>0, <2>2
    <3> QED BY <2>0, <2>2, <3>1
  <2>3. CASE i \notin S
    <3>1. PublishersOf(i)' = PublishersOf(i)
      BY <2>3
    <3> QED BY <2>1, <3>1
  <2> QED BY <2>2, <2>3
<1>3. OnePublish'
  BY <1>2 DEF OnePublish
<1> QED BY <1>1, <1>3

\* An edit or a delete starts or goes on
LEMMA SamePublishes ==
    ASSUME LoopInv, retried \subseteq retried', crossed => crossed', UNCHANGED publishing,
           \A i \in Items : PublishersOf(i)' = PublishersOf(i),
           \A k \in Jobs : \A i \in Items :
              (Wide(k)' /\ job'[k].kind = "publishNow" /\ i \in job'[k].ids) =>
                \/ Wide(k) /\ job[k].kind = "publishNow" /\ i \in job[k].ids
                \/ Spoilt(i) \/ PublishersOf(i) = {}
    PROVE  OnePublish' /\ (publishing \subseteq Items => MarkersHavePublish')
<1>1. publishing \subseteq Items => MarkersHavePublish'
  BY DEF LoopInv, MarkersHavePublish
<1>2. \A i \in Items : ~Spoilt(i)' => ~Spoilt(i)
  BY DEF Spoilt
<1>3. OnePublish'
  BY <1>2 DEF LoopInv, OnePublish
<1> QED BY <1>1, <1>3

LEMMA NewJobFields ==
    ASSUME NEW kind, NEW step, NEW S, NEW to
    PROVE  LET q == NewJob(kind, step, S, to) IN
           q.kind = kind /\ q.step = step /\ q.ids = S /\ q.todo = S /\ q.call = "sent"
BY DEF NewJob, Loop

LEMMA NoJobFields ==
    /\ NoJob.kind = "none" /\ NoJob.step = "none" /\ NoJob.ids = {} /\ NoJob.todo = {}
    /\ NoJob.call = "none"
    /\ Reloading.kind = "none" /\ Reloading.step = "reload" /\ Reloading.ids = {}
    /\ Reloading.todo = {} /\ Reloading.call = "none"
BY DEF NoJob, Reloading, Loop

\* Where job[j] becomes q, it publishes what q does
LEMMA PublishersAfter ==
    ASSUME BoardTypes, NEW j \in Jobs, NEW q, job' = [job EXCEPT ![j] = q], NEW i \in Items
    PROVE  PublishersOf(i)' = (PublishersOf(i) \ {j}) \cup
                                (IF q.step = "publish" /\ i \in q.todo THEN {j} ELSE {})
BY JobsAfter DEF PublishersOf

LEMMA IdleAfter ==
    ASSUME BoardTypes, NEW j \in Jobs, NEW q, job' = [job EXCEPT ![j] = q],
           job[j].step # "publish"
    PROVE  /\ q.step # "publish" => \A i \in Items : PublishersOf(i)' = PublishersOf(i)
           /\ q.step = "publish" => \A i \in Items :
                PublishersOf(i)' = PublishersOf(i) \cup (IF i \in q.todo THEN {j} ELSE {})
<1>1. ASSUME NEW i \in Items PROVE PublishersOf(i) \ {j} = PublishersOf(i)
  BY DEF PublishersOf
<1>2. ASSUME NEW i \in Items, q.step # "publish" PROVE PublishersOf(i)' = PublishersOf(i)
  <2>1. PublishersOf(i)' = (PublishersOf(i) \ {j}) \cup {}
    BY <1>2, PublishersAfter
  <2> QED BY <1>1, <2>1
<1>3. ASSUME NEW i \in Items, q.step = "publish"
      PROVE  PublishersOf(i)' = PublishersOf(i) \cup (IF i \in q.todo THEN {j} ELSE {})
  <2>1. PublishersOf(i)' = (PublishersOf(i) \ {j}) \cup (IF i \in q.todo THEN {j} ELSE {})
    BY <1>3, PublishersAfter
  <2> QED BY <1>1, <2>1
<1> QED BY <1>2, <1>3

LEMMA EditIsPending ==
    ASSUME BoardTypes, LoopInv, ~crossed, NEW j \in Jobs, Wide(j)
    PROVE  Pending("update") /\ latest["update"] = j
<1>1. latest["update"] = j /\ j # Nobody
  BY SetsAre DEF LoopInv, PendingIsTrue
<1> QED BY <1>1 DEF Pending, Wide

LEMMA DeleteIsPending ==
    ASSUME BoardTypes, LoopInv, NEW j \in Jobs, job[j].kind = "delete"
    PROVE  Pending("delete") /\ latest["delete"] = j /\ job[j].step = "delete"
<1>1. job[j].step = "delete"
  <2>1. job[j] \in JobSet /\ JobFits(job[j])
    BY JobIs
  <2>2. job[j].step \notin {"none", "reload", "update", "publish"}
    BY <2>1, NoJobFields DEF JobFits, Editing, Publishing
  <2> QED BY <2>1, <2>2 DEF JobSet, Steps
<1>2. latest["delete"] = j /\ j # Nobody
  BY <1>1, SetsAre DEF LoopInv, PendingIsTrue
<1> QED BY <1>1, <1>2 DEF Pending

LEMMA StartPublish ==
    ASSUME BoardTypes, LoopInv, NEW S \in SUBSET Items, S \cap publishing = {}, ~Modal,
           Start("publish", "publish", S, "none"), publishing' = publishing \cup S,
           UNCHANGED retries
    PROVE  LoopInv'
<1> DEFINE q == NewJob("publish", "publish", S, "none")
<1>1. PICK j \in Jobs : job[j] = NoJob /\ Sends(j, q)
  BY StartEffect DEF BoardTypes
<1>2. UNCHANGED dialogs
  BY StartEffect DEF BoardTypes
<1>3. q.kind = "publish" /\ q.step = "publish" /\ q.todo = S
  BY NewJobFields
<1> HIDE DEF q
<1>4. job' = [job EXCEPT ![j] = q] /\ UNCHANGED latest
  BY <1>1, <1>3 DEF Sends
<1>5. job'[j] = q /\ \A k \in Jobs : k # j => job'[k] = job[k]
  BY <1>4, JobsAfter
<1>6. \A k \in Jobs : Wide(k)' => k # j /\ Wide(k) /\ job'[k] = job[k]
  BY <1>3, <1>5 DEF Wide
<1>7. PendingIsTrue'
  <2>1. \A k \in Jobs : job'[k].step = "delete" => k # j /\ job'[k] = job[k]
    BY <1>3, <1>5
  <2> QED BY <1>4, <1>6, <2>1 DEF LoopInv, PendingIsTrue, retries
<1>8. ModalCoversJob'
  BY <1>2, <1>3, <1>5 DEF LoopInv, ModalCoversJob, dialogs, retries
<1>9. RetriesAreNoted'
  BY <1>3, <1>5 DEF LoopInv, RetriesAreNoted, retries
<1>10. \A i \in Items : PublishersOf(i)' = PublishersOf(i) \cup (IF i \in S THEN {j} ELSE {})
  BY <1>1, <1>3, <1>4, NoJobFields, IdleAfter
<1>11. \A i \in S : Spoilt(i) \/ PublishersOf(i) = {}
  BY DEF LoopInv, OnePublish
<1>12. \A k \in Jobs : Wide(k)' /\ job'[k].kind = "publishNow" => crossed
  <2>1. dialog = {}
    BY DEF Modal
  <2> QED BY <1>6, <2>1 DEF LoopInv, ModalCoversJob, Wide
<1>13. job[j].step # "publish"
  BY <1>1, NoJobFields
<1>14. OnePublish' /\ MarkersHavePublish'
  <2>1. \A k \in Jobs : Wide(k)' /\ job'[k].kind = "publishNow" =>
                \A i \in S : i \in job'[k].ids => Spoilt(i)
    BY <1>12 DEF Spoilt
  <2>2. \A k \in Jobs : Wide(k)' => Wide(k) /\ job'[k].ids = job[k].ids
                                       /\ job'[k].kind = job[k].kind
    BY <1>6
  <2> QED BY <1>10, <1>11, <1>13, <2>1, <2>2, MorePublishes
<1> QED BY <1>7, <1>8, <1>9, <1>14 DEF LoopInv

LEMMA StartEdit ==
    ASSUME BoardTypes, LoopInv, NEW S \in SUBSET Items, NEW to,
           NEW kind \in {"status", "schedule", "publishNow"},
           Start(kind, "update", S, to), Quiet, ~Pending("update"),
           kind # "status" => dialog # {} /\ publishing = {}
    PROVE  LoopInv'
<1> DEFINE q == NewJob(kind, "update", S, to)
<1>1. PICK j \in Jobs : job[j] = NoJob /\ Sends(j, q)
  BY StartEffect DEF BoardTypes
<1>2. UNCHANGED dialogs
  BY StartEffect DEF BoardTypes
<1>3. q.kind = kind /\ q.step = "update" /\ q.ids = S
  BY NewJobFields
<1> HIDE DEF q
<1>4. job' = [job EXCEPT ![j] = q] /\ latest' = [latest EXCEPT !["update"] = j]
  BY <1>1, <1>3 DEF Sends
<1>5. job'[j] = q /\ \A k \in Jobs : k # j => job'[k] = job[k]
  BY <1>4, JobsAfter
<1>6. UNCHANGED <<publishing, retried, crossed>>
  BY DEF Quiet, retries
<1>7. PendingIsTrue'
  <2>1. latest'["update"] = j /\ latest'["delete"] = latest["delete"]
    BY <1>4 DEF BoardTypes, PageTypes
  <2>2. ASSUME ~crossed, NEW k \in Jobs, Wide(k)' PROVE k = j
    <3>1. k # j => Wide(k)
      BY <1>5, <2>2 DEF Wide
    <3> QED BY <2>2, <3>1, EditIsPending
  <2>3. \A k \in Jobs : job'[k].step = "delete" => k # j /\ job'[k] = job[k]
    BY <1>3, <1>5
  <2> QED BY <1>6, <2>1, <2>2, <2>3 DEF LoopInv, PendingIsTrue
<1>8. ModalCoversJob'
  BY <1>2, <1>3, <1>5, <1>6 DEF LoopInv, ModalCoversJob, dialogs
<1>9. RetriesAreNoted'
  BY <1>3, <1>5, <1>6 DEF LoopInv, RetriesAreNoted
<1>10. \A i \in Items : PublishersOf(i)' = PublishersOf(i)
  BY <1>1, <1>3, <1>4, NoJobFields, IdleAfter
<1>11. ASSUME NEW k \in Jobs, NEW i \in Items,
              (Wide(k) /\ job[k].kind = "publishNow")', i \in job'[k].ids
       PROVE  \/ Wide(k) /\ job[k].kind = "publishNow" /\ i \in job[k].ids
              \/ Spoilt(i) \/ PublishersOf(i) = {}
  <2>1. CASE k # j
    BY <1>5, <1>11, <2>1 DEF Wide
  <2>2. CASE k = j
    <3>1. publishing = {}
      BY <1>3, <1>5, <1>11, <2>2
    <3> QED BY <3>1 DEF LoopInv, OnePublish
  <2> QED BY <2>1, <2>2
<1>12. OnePublish' /\ MarkersHavePublish'
  BY <1>6, <1>10, <1>11, SamePublishes DEF BoardTypes, PageTypes
<1> QED BY <1>7, <1>8, <1>9, <1>12 DEF LoopInv

LEMMA StartRetry ==
    ASSUME BoardTypes, LoopInv, NEW i \in Items, Retry(i)
    PROVE  LoopInv'
<1> DEFINE q == NewJob("retry", "update", {i}, IF list[i].later THEN "scheduled" ELSE "queued")
<1>1. PICK j \in Jobs : job[j] = NoJob /\ Sends(j, q)
  BY StartEffect DEF BoardTypes, Retry
<1>2. UNCHANGED dialogs
  BY StartEffect DEF BoardTypes, Retry
<1>3. q.kind = "retry" /\ q.step = "update" /\ q.ids = {i}
  BY NewJobFields
<1> HIDE DEF q
<1>4. job' = [job EXCEPT ![j] = q] /\ latest' = [latest EXCEPT !["update"] = j]
  BY <1>1, <1>3 DEF Sends
<1>5. job'[j] = q /\ \A k \in Jobs : k # j => job'[k] = job[k]
  BY <1>4, JobsAfter
<1>6. /\ UNCHANGED publishing /\ retried' = retried \cup {i} /\ (crossed => crossed')
      /\ (~crossed' => \A k \in Jobs : job[k].kind # "status") /\ dialog = {}
  BY DEF Retry, Modal
<1>7. PendingIsTrue'
  <2>1. latest'["delete"] = latest["delete"]
    BY <1>4 DEF BoardTypes, PageTypes
  <2>2. ASSUME ~crossed', NEW k \in Jobs, Wide(k)' PROVE FALSE
    <3>1. k # j /\ Wide(k)
      BY <1>3, <1>5, <2>2 DEF Wide
    <3> QED BY <1>6, <2>2, <3>1 DEF LoopInv, ModalCoversJob, Wide
  <2>3. \A k \in Jobs : job'[k].step = "delete" => k # j /\ job'[k] = job[k]
    BY <1>3, <1>5
  <2> QED BY <2>1, <2>2, <2>3 DEF LoopInv, PendingIsTrue
<1>8. ModalCoversJob'
  BY <1>2, <1>3, <1>5, <1>6 DEF LoopInv, ModalCoversJob, dialogs
<1>9. RetriesAreNoted'
  BY <1>3, <1>5, <1>6 DEF LoopInv, RetriesAreNoted
<1>10. \A k \in Items : PublishersOf(k)' = PublishersOf(k)
  BY <1>1, <1>3, <1>4, NoJobFields, IdleAfter
<1>11. \A k \in Jobs : Wide(k)' => Wide(k) /\ job'[k] = job[k]
  BY <1>3, <1>5 DEF Wide
<1>12. OnePublish' /\ MarkersHavePublish'
  BY <1>6, <1>10, <1>11, SamePublishes DEF BoardTypes, PageTypes
<1> QED BY <1>7, <1>8, <1>9, <1>12 DEF LoopInv

LEMMA StartDelete ==
    ASSUME BoardTypes, LoopInv, ConfirmDelete
    PROVE  LoopInv'
<1> DEFINE q == NewJob("delete", "delete", doomed, "none")
<1>1. PICK j \in Jobs : job[j] = NoJob /\ Sends(j, q)
  BY StartEffect DEF BoardTypes, ConfirmDelete
<1>2. UNCHANGED dialogs
  BY StartEffect DEF BoardTypes, ConfirmDelete
<1>3. q.kind = "delete" /\ q.step = "delete"
  BY NewJobFields
<1> HIDE DEF q
<1>4. job' = [job EXCEPT ![j] = q] /\ latest' = [latest EXCEPT !["delete"] = j]
  BY <1>1, <1>3 DEF Sends
<1>5. job'[j] = q /\ \A k \in Jobs : k # j => job'[k] = job[k]
  BY <1>4, JobsAfter
<1>6. UNCHANGED <<publishing, retried, crossed>> /\ doomed # {} /\ ~Pending("delete")
  BY DEF ConfirmDelete, Quiet, retries
<1>7. \A k \in Jobs : Wide(k)' => k # j /\ Wide(k) /\ job'[k] = job[k]
  BY <1>3, <1>5 DEF Wide
<1>8. PendingIsTrue'
  <2>1. latest'["delete"] = j /\ latest'["update"] = latest["update"]
    BY <1>4 DEF BoardTypes, PageTypes
  <2>2. ASSUME NEW k \in Jobs, job'[k].step = "delete" PROVE k = j
    <3>1. SUFFICES ASSUME k # j PROVE FALSE
      OBVIOUS
    <3>2. job[k].step = "delete"
      BY <1>5, <2>2, <3>1
    <3>3. job[k].kind = "delete"
      BY <3>2, JobIs DEF JobFits
    <3> QED BY <3>3, <1>6, DeleteIsPending
  <2> QED BY <1>6, <1>7, <2>1, <2>2 DEF LoopInv, PendingIsTrue
<1>9. ModalCoversJob'
  BY <1>2, <1>3, <1>5, <1>6 DEF LoopInv, ModalCoversJob, dialogs
<1>10. RetriesAreNoted'
  BY <1>3, <1>5, <1>6 DEF LoopInv, RetriesAreNoted
<1>11. \A i \in Items : PublishersOf(i)' = PublishersOf(i)
  BY <1>1, <1>3, <1>4, NoJobFields, IdleAfter
<1>12. OnePublish' /\ MarkersHavePublish'
  BY <1>6, <1>7, <1>11, SamePublishes DEF BoardTypes, PageTypes
<1> QED BY <1>8, <1>9, <1>10, <1>12 DEF LoopInv

LEMMA ShowLoops ==
    ASSUME BoardTypes, LoopInv, NEW d, NEW x, Show(d, x), d = {} => dialog = {} \/ ~Pending("update"),
           x = {} => doomed = {} \/ ~Pending("delete")
    PROVE  LoopInv'
<1>1. UNCHANGED <<job, latest, publishing, retried, crossed>> /\ dialog' = d /\ doomed' = x
  BY DEF Show, ops, view, retries
<1>2. ModalCoversJob'
  <2>1. ASSUME NEW j \in Jobs, job[j].kind \in {"schedule", "publishNow"}, job[j].step = "update",
               ~crossed
        PROVE  d # {}
    <3>1. Pending("update")
      BY <2>1, EditIsPending DEF Wide
    <3>2. dialog # {}
      BY <2>1 DEF LoopInv, ModalCoversJob
    <3> QED BY <3>1, <3>2
  <2>2. ASSUME NEW j \in Jobs, job[j].kind = "delete" PROVE x # {}
    <3>1. Pending("delete")
      BY <2>2, DeleteIsPending
    <3>2. doomed # {}
      BY <2>2 DEF LoopInv, ModalCoversJob
    <3> QED BY <3>1, <3>2
  <2> QED BY <1>1, <2>1, <2>2 DEF ModalCoversJob
<1> QED BY <1>1, <1>2, LoopFrame DEF retries

LEMMA LoopStays ==
    ASSUME LoopInv, UNCHANGED <<job, latest, publishing, dialogs, retries>>
    PROVE  LoopInv'
<1>1. ModalCoversJob'
  BY DEF LoopInv, ModalCoversJob, dialogs, retries
<1> QED BY <1>1, LoopFrame

LEMMA PublishItemsLoops ==
    ASSUME BoardTypes, LoopInv, NEW S \in SUBSET Items, S # {}, S \cap publishing = {}, ~Modal,
           PublishItems(S)
    PROVE  LoopInv'
<1>1. CASE \A i \in S : list[i].chan
  BY <1>1, StartPublish DEF PublishItems
<1>2. CASE ~\A i \in S : list[i].chan
  <2>1. Show(S, doomed)
    BY <1>2 DEF PublishItems
  <2>2. doomed = {}
    BY DEF Modal
  <2> QED BY <2>1, <2>2, ShowLoops
<1> QED BY <1>1, <1>2

LEMMA ClickLoops == ASSUME BoardTypes, LoopInv, Click PROVE LoopInv'
<1>0. /\ selected \in SUBSET Items /\ Paged \in SUBSET Items
      /\ dialog \in SUBSET Items /\ doomed \in SUBSET Items
  BY DEF BoardTypes, PageTypes, Listed, Paged, Filtered
<1>1. ASSUME NEW S, Select(S) PROVE LoopInv'
  BY <1>1, LoopStays DEF Select, ops, view
<1>2. ASSUME NEW p, Turn(p) PROVE LoopInv'
  BY <1>2, LoopStays DEF Turn, ops
<1>3. ASSUME NEW f, SetFilter(f) PROVE LoopInv'
  BY <1>3, LoopStays DEF SetFilter, ops
<1>4. ASSUME NEW i \in Items, PublishRow(i) PROVE LoopInv'
  <2>1. {i} \cap publishing = {} /\ ~Modal /\ PublishItems({i})
    BY <1>4 DEF PublishRow, MayPublish
  <2> QED BY <2>1, PublishItemsLoops
<1>5. ASSUME PublishSelected PROVE LoopInv'
  <2>1. selected \cap publishing = {} /\ selected # {} /\ ~Modal /\ PublishItems(selected)
    BY <1>5 DEF PublishSelected, BarReady
  <2> QED BY <2>1, <1>0, PublishItemsLoops
<1>6. ASSUME OpenSchedule PROVE LoopInv'
  <2>1. PICK S \in Offered : Show(S, doomed) /\ ~Modal
    BY <1>6 DEF OpenSchedule
  <2>2. S # {} /\ doomed = {}
    BY <2>1, OfferedAre DEF Modal
  <2> QED BY <2>1, <2>2, ShowLoops
<1>7. ASSUME OpenDelete PROVE LoopInv'
  <2>1. PICK S \in Offered : Show(dialog, S) /\ ~Modal
    BY <1>7 DEF OpenDelete
  <2>2. S # {} /\ dialog = {}
    BY <2>1, OfferedAre DEF Modal
  <2> QED BY <2>1, <2>2, ShowLoops
<1>8. ASSUME CloseSchedule PROVE LoopInv'
  BY <1>8, ShowLoops DEF CloseSchedule, MayClose
<1>9. ASSUME CancelDelete PROVE LoopInv'
  BY <1>9, ShowLoops DEF CancelDelete, MayClose
<1>10. ASSUME SaveSchedule PROVE LoopInv'
  <2>1. /\ Start("schedule", "update", dialog, "scheduled") /\ Quiet /\ dialog # {}
        /\ ~Pending("update") /\ publishing = {}
    BY <1>10 DEF SaveSchedule, DialogReady
  <2> QED BY <2>1, <1>0, StartEdit
<1>11. ASSUME PublishFromDialog PROVE LoopInv'
  <2>1. /\ Start("publishNow", "update", dialog \cap Listed, "queued") /\ Quiet /\ dialog # {}
        /\ ~Pending("update") /\ publishing = {}
    BY <1>11 DEF PublishFromDialog, DialogReady
  <2> QED BY <2>1, <1>0, StartEdit
<1>12. ASSUME NEW to, ChangeStatus(to) PROVE LoopInv'
  <2>1. Start("status", "update", selected, to) /\ Quiet /\ ~Pending("update")
    BY <1>12 DEF ChangeStatus, BarReady, Busy
  <2> QED BY <2>1, <1>0, StartEdit
<1> QED BY <1>1, <1>2, <1>3, <1>4, <1>5, <1>6, <1>7, <1>8, <1>9, <1>10, <1>11, <1>12, StartRetry,
        StartDelete
        DEF Click, Toggle, ToggleAll, ClearSelection, NextPage, PreviousPage

LEMMA OtherLoops ==
    ASSUME BoardTypes, LoopInv,
           \/ Reload \/ AskSummary \/ ReadSummary \/ StoreSummary \/ SummaryFails
           \/ (\E j \in Jobs : Serve(j)) \/ \E i \in Items : Foreign(i)
    PROVE  LoopInv'
<1>1. CASE Reload \/ AskSummary \/ ReadSummary \/ StoreSummary \/ SummaryFails
  <2>1. UNCHANGED <<job, latest, publishing, dialogs, retries>>
    BY <1>1 DEF Reload, AskSummary, ReadSummary, StoreSummary, SummaryFails, ops, view, dialogs
  <2> QED BY <2>1, LoopStays
<1>2. CASE \E i \in Items : Foreign(i)
  BY <1>2, ForeignEffect, LoopStays DEF PageStays, view
<1>3. ASSUME NEW j \in Jobs, Serve(j) PROVE LoopInv'
  <2>1. PICK answer \in Replies, b \in BOOLEAN :
          job' = [job EXCEPT ![j] = Served(j, answer, b)]
    BY <1>3, ServeEffect
  <2>2. UNCHANGED <<latest, publishing, dialogs, retries, crossed>>
    BY <1>3, ServeEffect DEF PageStays, view, retries
  <2>3. \A k \in Jobs : /\ job'[k].kind = job[k].kind /\ job'[k].step = job[k].step
                        /\ job'[k].ids = job[k].ids /\ job'[k].todo = job[k].todo
    BY <2>1, JobsAfter, JobIs DEF Served, JobSet
  <2>4. ModalCoversJob'
    BY <2>2, <2>3, ModalFrame DEF LoopInv
  <2> QED BY <2>2, <2>3, <2>4, LoopFrame
<1> QED BY <1>1, <1>2, <1>3

LEMMA KindHasStep ==
    ASSUME BoardTypes, NEW j \in Jobs, job[j].kind \in {"status", "schedule"}
    PROVE  job[j].step = "update"
<1>1. job[j] \in JobSet /\ JobFits(job[j])
  BY JobIs
<1>2. job[j].step \notin {"none", "reload", "publish", "delete"}
  BY <1>1, NoJobFields DEF JobFits, Publishing
<1> QED BY <1>1, <1>2 DEF JobSet, Steps

\* The dialogs, where loop j is over or goes on with another step
LEMMA ModalAfter ==
    ASSUME BoardTypes, LoopInv, NEW j \in Jobs, NEW q, job' = [job EXCEPT ![j] = q],
           UNCHANGED crossed, q.step # "update", q.kind # "delete",
           dialog' = {} => dialog = {} \/ Wide(j),
           doomed' = {} => doomed = {} \/ job[j].kind = "delete"
    PROVE  ModalCoversJob'
<1>1. job'[j] = q /\ \A k \in Jobs : k # j => job'[k] = job[k]
  BY JobsAfter
<1>2. ASSUME NEW k \in Jobs, job'[k].kind \in {"schedule", "publishNow"},
             job'[k].step = "update", ~crossed
      PROVE  dialog' # {}
  <2>1. k # j /\ job'[k] = job[k]
    BY <1>1, <1>2
  <2>2. Wide(k) /\ dialog # {}
    BY <1>2, <2>1 DEF Wide, LoopInv, ModalCoversJob
  <2>3. ~Wide(j)
    BY <1>2, <2>1, <2>2, EditIsPending
  <2> QED BY <2>2, <2>3
<1>3. ASSUME NEW k \in Jobs, job'[k].kind = "delete" PROVE doomed' # {}
  <2>1. k # j /\ job[k].kind = "delete"
    BY <1>1, <1>3
  <2>2. doomed # {} /\ job[j].kind # "delete"
    BY <2>1, DeleteIsPending DEF LoopInv, ModalCoversJob
  <2> QED BY <2>2
<1> QED BY <1>2, <1>3 DEF ModalCoversJob

LEMMA LoopEnds ==
    ASSUME BoardTypes, LoopInv, NEW j \in Jobs, job' = [job EXCEPT ![j] = NoJob],
           UNCHANGED <<latest, publishing, retries>>, job[j].step # "publish",
           dialog' = {} => dialog = {} \/ Wide(j),
           doomed' = {} => doomed = {} \/ job[j].kind = "delete"
    PROVE  LoopInv'
<1>1. job'[j] = NoJob /\ \A k \in Jobs : k # j => job'[k] = job[k]
  BY JobsAfter
<1>2. \A k \in Jobs : Wide(k)' => Wide(k) /\ job'[k] = job[k]
  BY <1>1, NoJobFields DEF Wide
<1>3. \A k \in Jobs : job'[k].step = "delete" => job'[k] = job[k]
  BY <1>1, NoJobFields
<1>4. PendingIsTrue'
  BY <1>2, <1>3 DEF LoopInv, PendingIsTrue, retries
<1>5. ModalCoversJob'
  BY NoJobFields, ModalAfter DEF retries
<1>6. RetriesAreNoted'
  BY <1>1, NoJobFields DEF LoopInv, RetriesAreNoted, retries
<1>7. \A i \in Items : PublishersOf(i)' = PublishersOf(i)
  BY NoJobFields, IdleAfter
<1>8. OnePublish' /\ MarkersHavePublish'
  BY <1>2, <1>7, SamePublishes DEF retries, BoardTypes, PageTypes
<1> QED BY <1>4, <1>5, <1>6, <1>8 DEF LoopInv

LEMMA NextEditLoops ==
    ASSUME BoardTypes, LoopInv, NEW j \in Jobs, NextEdit(j)
    PROVE  LoopInv'
<1> DEFINE q == Next1(j)
<1>1. job[j] \in JobSet /\ JobFits(job[j]) /\ job[j].step \in {"update", "delete"} /\ Rest(j) # {}
  BY JobIs DEF NextEdit
<1>2. Sends(j, q) /\ UNCHANGED <<publishing, dialogs, retried, crossed>>
  BY <1>1, ProceedEffect DEF NextEdit, BoardTypes, view, retries
<1>3. q.kind = job[j].kind /\ q.step = job[j].step /\ q.ids = job[j].ids
  BY <1>1 DEF Next1, JobSet
<1> HIDE DEF q
<1>4. job' = [job EXCEPT ![j] = q] /\ latest' = [latest EXCEPT ![q.step] = j]
  BY <1>1, <1>2, <1>3 DEF Sends
<1>5. job'[j] = q /\ \A k \in Jobs : k # j => job'[k] = job[k]
  BY <1>4, JobsAfter
<1>6. \A k \in Jobs : /\ job'[k].kind = job[k].kind /\ job'[k].step = job[k].step
                      /\ job'[k].ids = job[k].ids /\ (Wide(k)' <=> Wide(k))
  BY <1>3, <1>5 DEF Wide
<1>7. job[j].kind # "retry"
  <2>1. Current(j) \in job[j].todo /\ job[j].todo \subseteq job[j].ids
    BY <1>1, CurrentIs DEF BoardTypes, JobFits
  <2>2. job[j].kind = "retry" => \E i : job[j].ids = {i}
    BY <1>1 DEF JobFits
  <2> QED BY <1>1, <2>1, <2>2 DEF Rest
<1>8. PendingIsTrue'
  <2>1. CASE job[j].step = "update"
    <3>1. Wide(j)
      BY <1>1, <1>7, <2>1 DEF Wide, JobFits, Editing
    <3>2. latest'["update"] = j /\ latest'["delete"] = latest["delete"]
      BY <1>3, <1>4, <2>1 DEF BoardTypes, PageTypes
    <3>3. \A k \in Jobs : Wide(k) /\ ~crossed => k = j
      BY <3>1, EditIsPending
    <3> QED BY <1>2, <1>6, <3>2, <3>3 DEF LoopInv, PendingIsTrue
  <2>2. CASE job[j].step = "delete"
    <3>1. latest'["delete"] = j /\ latest'["update"] = latest["update"]
      BY <1>3, <1>4, <2>2 DEF BoardTypes, PageTypes
    <3>2. \A k \in Jobs : job[k].step = "delete" => k = j
      BY <2>2 DEF LoopInv, PendingIsTrue
    <3> QED BY <1>2, <1>6, <3>1, <3>2 DEF LoopInv, PendingIsTrue
  <2> QED BY <1>1, <2>1, <2>2
<1>9. ModalCoversJob'
  BY <1>2, <1>6 DEF LoopInv, ModalCoversJob, dialogs
<1>10. RetriesAreNoted'
  BY <1>2, <1>6 DEF LoopInv, RetriesAreNoted
<1>11. \A i \in Items : PublishersOf(i)' = PublishersOf(i)
  BY <1>1, <1>3, <1>4, IdleAfter
<1>12. OnePublish' /\ MarkersHavePublish'
  BY <1>2, <1>6, <1>11, SamePublishes DEF BoardTypes, PageTypes
<1> QED BY <1>8, <1>9, <1>10, <1>12 DEF LoopInv

LEMMA SecondHalfLoops ==
    ASSUME BoardTypes, LoopInv, NEW j \in Jobs, PublishStep(j, job[j].ids),
           job[j].step = "update", job[j].kind \in {"publishNow", "retry"},
           UNCHANGED <<doomed, retries>>, dialog' = {} => dialog = {} \/ Wide(j)
    PROVE  LoopInv'
<1> DEFINE q == Half2(j)
           S == job[j].ids
<1>1. job[j] \in JobSet /\ JobFits(job[j])
  BY JobIs
<1>2. Sends(j, q) /\ publishing' = publishing \cup S
  BY SecondHalfEffect DEF BoardTypes
<1>3. q.kind = job[j].kind /\ q.step = "publish" /\ q.ids = S /\ q.todo = S /\ S \in SUBSET Items
  BY <1>1 DEF Half2, JobSet
<1> HIDE DEF q
<1>4. job' = [job EXCEPT ![j] = q] /\ UNCHANGED latest
  BY <1>2, <1>3 DEF Sends
<1>5. job'[j] = q /\ \A k \in Jobs : k # j => job'[k] = job[k]
  BY <1>4, JobsAfter
<1>6. \A k \in Jobs : Wide(k)' => k # j /\ Wide(k) /\ job'[k] = job[k]
  BY <1>3, <1>5 DEF Wide
<1>7. PendingIsTrue'
  <2>1. \A k \in Jobs : job'[k].step = "delete" => k # j /\ job'[k] = job[k]
    BY <1>3, <1>5
  <2> QED BY <1>4, <1>6, <2>1 DEF LoopInv, PendingIsTrue, retries
<1>8. ModalCoversJob'
  <2>1. q.step # "update" /\ q.kind # "delete" /\ UNCHANGED crossed
    BY <1>3 DEF retries
  <2> QED BY <1>4, <2>1, ModalAfter
<1>9. RetriesAreNoted'
  BY <1>3, <1>5 DEF LoopInv, RetriesAreNoted, retries
<1>10. \A i \in Items : PublishersOf(i)' = PublishersOf(i) \cup (IF i \in S THEN {j} ELSE {})
  BY <1>3, <1>4, IdleAfter
<1>11. \A i \in S : Spoilt(i) \/ PublishersOf(i) = {}
  <2>1. CASE job[j].kind = "retry"
    BY <2>1 DEF LoopInv, RetriesAreNoted, Spoilt
  <2>2. CASE job[j].kind = "publishNow"
    BY <1>3, <2>2 DEF LoopInv, OnePublish, Wide
  <2> QED BY <2>1, <2>2
<1>12. \A k \in Jobs : Wide(k)' /\ job'[k].kind = "publishNow" =>
                \A i \in S : i \in job'[k].ids => Spoilt(i)
  <2> SUFFICES ASSUME NEW k \in Jobs, Wide(k)', NEW i \in S PROVE Spoilt(i)
    OBVIOUS
  <2>1. CASE job[j].kind = "retry"
    BY <2>1 DEF LoopInv, RetriesAreNoted, Spoilt
  <2>2. CASE job[j].kind = "publishNow"
    <3>1. Wide(j) /\ Wide(k) /\ k # j
      BY <1>6, <2>2 DEF Wide
    <3> QED BY <3>1, EditIsPending DEF Spoilt
  <2> QED BY <2>1, <2>2
<1>13. OnePublish' /\ MarkersHavePublish'
  <2>1. \A k \in Jobs : Wide(k)' => Wide(k) /\ job'[k].ids = job[k].ids
                                       /\ job'[k].kind = job[k].kind
    BY <1>6
  <2>2. job[j].step # "publish"
    OBVIOUS
  <2> HIDE DEF S
  <2> QED BY <1>2, <1>3, <1>10, <1>11, <1>12, <2>1, <2>2, MorePublishes
<1> QED BY <1>7, <1>8, <1>9, <1>13 DEF LoopInv

\* The answer to a publish of i is in: loop j goes on with the rest, or reloads the list
LEMMA PublishedEffect ==
    ASSUME BoardTypes, NEW j \in Jobs, Published(j)
    PROVE  /\ Current(j) \in job[j].todo /\ Current(j) \in Items
           /\ UNCHANGED latest /\ publishing' = publishing \ {Current(j)}
           /\ \E q : /\ job' = [job EXCEPT ![j] = q] /\ q.todo = Rest(j)
                     /\ q.call \in {"none", "sent"}
                     /\ \/ q.step = "publish" /\ q.kind = job[j].kind /\ q.ids = job[j].ids
                        \/ q = Reloading
<1>1. job[j] \in JobSet /\ JobFits(job[j]) /\ job[j].step = "publish"
  BY JobIs DEF Published
<1>2. Current(j) \in job[j].todo /\ Current(j) \in Items
  BY <1>1, CurrentIs DEF BoardTypes
<1>3. publishing' = publishing \ {Current(j)}
  BY DEF Published, Without
<1>4. CASE Rest(j) # {}
  <2>1. Sends(j, Next1(j))
    BY <1>4, ProceedEffect DEF Published, BoardTypes
  <2>2. /\ Next1(j).todo = Rest(j) /\ Next1(j).call = "sent" /\ Next1(j).step = "publish"
        /\ Next1(j).kind = job[j].kind /\ Next1(j).ids = job[j].ids
    BY <1>1 DEF Next1, JobSet
  <2>3. job' = [job EXCEPT ![j] = Next1(j)] /\ UNCHANGED latest
    BY <2>1, <2>2 DEF Sends
  <2> QED BY <1>2, <1>3, <2>2, <2>3
<1>5. CASE Rest(j) = {}
  <2>1. job' = [job EXCEPT ![j] = Reloading] /\ UNCHANGED latest
    BY <1>5 DEF Published
  <2> QED BY <1>2, <1>3, <1>5, <2>1, NoJobFields
<1> QED BY <1>4, <1>5

LEMMA PublishedLoops ==
    ASSUME BoardTypes, LoopInv, NEW j \in Jobs, Published(j)
    PROVE  LoopInv'
<1>0. PICK i \in Items : i = Current(j)
  BY PublishedEffect
<1>1. /\ i \in job[j].todo /\ i \in Items /\ UNCHANGED latest /\ publishing' = publishing \ {i}
      /\ job[j].step = "publish"
  BY <1>0, PublishedEffect DEF Published
<1>2. PICK q : /\ job' = [job EXCEPT ![j] = q] /\ q.todo = Rest(j)
               /\ \/ q.step = "publish" /\ q.kind = job[j].kind /\ q.ids = job[j].ids
                  \/ q = Reloading
  BY PublishedEffect
<1>3. Rest(j) = job[j].todo \ {i}
  BY <1>0 DEF Rest
<1>4. q.step \in {"publish", "reload"} /\ q.kind \in {job[j].kind, "none"}
  BY <1>2, NoJobFields
<1>5. job'[j] = q /\ \A k \in Jobs : k # j => job'[k] = job[k]
  BY <1>2, JobsAfter
<1>6. UNCHANGED <<dialogs, retries>>
  BY DEF Published, view
<1>7. \A k \in Jobs : Wide(k)' => k # j /\ Wide(k) /\ job'[k] = job[k]
  BY <1>4, <1>5 DEF Wide
<1>8. PendingIsTrue'
  <2>1. \A k \in Jobs : job'[k].step = "delete" => k # j /\ job'[k] = job[k]
    BY <1>4, <1>5
  <2> QED BY <1>1, <1>6, <1>7, <2>1 DEF LoopInv, PendingIsTrue, retries
<1>9. job[j].kind # "delete"
  BY <1>1, JobIs DEF JobFits, Publishing
<1>10. ModalCoversJob'
  <2>1. q.step # "update" /\ q.kind # "delete" /\ UNCHANGED <<crossed, dialog, doomed>>
    BY <1>4, <1>6, <1>9 DEF retries, dialogs
  <2> QED BY <1>2, <2>1, ModalAfter
<1>11. RetriesAreNoted'
  BY <1>2, <1>5, <1>6, NoJobFields DEF LoopInv, RetriesAreNoted, retries
<1>12. \A h \in Items : PublishersOf(h)' =
           (PublishersOf(h) \ {j}) \cup (IF q.step = "publish" /\ h \in q.todo THEN {j} ELSE {})
  BY <1>2, PublishersAfter
<1>13. \A h \in Items : h \in q.todo => q.step = "publish" /\ j \in PublishersOf(h) /\ h # i
  BY <1>1, <1>2, <1>3, NoJobFields DEF PublishersOf
<1>14. \A h \in Items : PublishersOf(h)' \subseteq PublishersOf(h)
  BY <1>12, <1>13
<1>15. j \in PublishersOf(i) /\ j \notin PublishersOf(i)'
  <2>1. j \in PublishersOf(i)
    BY <1>1 DEF PublishersOf
  <2>2. PublishersOf(i)' = PublishersOf(i) \ {j}
    <3>1. i \notin q.todo
      BY <1>1, <1>13
    <3>2. PublishersOf(i)' = (PublishersOf(i) \ {j}) \cup {}
      BY <1>1, <1>12, <3>1
    <3> QED BY <3>2
  <2> QED BY <2>1, <2>2
<1>16. ASSUME NEW h \in publishing' PROVE PublishersOf(h)' # {}
  <2>1. h \in publishing /\ h # i /\ h \in Items
    BY <1>1, <1>16 DEF BoardTypes, PageTypes
  <2>2. PICK k \in PublishersOf(h) : TRUE
    BY <2>1 DEF LoopInv, MarkersHavePublish
  <2>3. CASE k # j
    BY <1>12, <2>1, <2>2, <2>3
  <2>4. CASE k = j
    <3>1. h \in q.todo
      BY <1>2, <1>3, <2>1, <2>2, <2>4 DEF PublishersOf
    <3> QED BY <1>12, <1>13, <2>1, <3>1
  <2> QED BY <2>3, <2>4
<1>17. OnePublish' /\ MarkersHavePublish'
  <2>1. publishing' \subseteq publishing
    BY <1>1
  <2>2. \A h \in publishing : h \notin publishing' => h = i
    BY <1>1
  <2>3. \A k \in Jobs : Wide(k)' => Wide(k) /\ job'[k].ids = job[k].ids
                                       /\ job'[k].kind = job[k].kind
    BY <1>7
  <2>4. \A h \in publishing : h \notin publishing' =>
            \E k \in PublishersOf(h) : k \notin PublishersOf(h)'
    <3> SUFFICES ASSUME NEW h \in publishing, h \notin publishing'
                 PROVE  \E k \in PublishersOf(h) : k \notin PublishersOf(h)'
      OBVIOUS
    <3>1. h = i
      BY <2>2
    <3>2. PublishersOf(h)' = PublishersOf(h) \ {j} /\ j \in PublishersOf(h)
      BY <1>1, <1>12, <1>13, <1>15, <3>1
    <3> QED BY <3>2
  <2> QED BY <1>6, <1>14, <1>16, <2>1, <2>3, <2>4, FewerPublishes
<1> QED BY <1>8, <1>10, <1>11, <1>17 DEF LoopInv

LEMMA ContinueLoops ==
    ASSUME BoardTypes, LoopInv, NEW j \in Jobs, Continue(j)
    PROVE  LoopInv'
<1>1. CASE Stopped(j)
  BY <1>1, LoopEnds DEF Stopped, Finish, dialogs, view
<1>2. CASE Edits(j)
  <2>1. job[j].kind \in {"status", "schedule"} /\ job[j].step = "update" /\ Wide(j)
    BY <1>2, KindHasStep DEF Edits, Answered, Wide
  <2> QED BY <1>2, <2>1, LoopEnds DEF Edits, Finish, view
<1>3. CASE Deletes(j)
  <2>1. job[j].kind = "delete" /\ job[j].step = "delete"
    BY <1>3, DeleteIsPending DEF Deletes, Answered
  <2> QED BY <1>3, <2>1, LoopEnds DEF Deletes, Finish, view
<1>4. CASE PublishEdited(j)
  <2>1. job[j].step = "update" /\ job[j].kind \in {"publishNow", "retry"} /\ UNCHANGED <<doomed, retries>>
    BY <1>4 DEF PublishEdited, Answered, view
  <2>2. job[j].ids # {}
    BY <2>1, JobIs DEF JobFits
  <2>3. dialog' = {} => dialog = {} \/ Wide(j)
    BY <1>4, <2>1, <2>2 DEF PublishEdited, Wide
  <2>4. CASE job[j].to = "queued" /\ job[j].chan
    BY <1>4, <2>1, <2>3, <2>4, SecondHalfLoops DEF PublishEdited
  <2>5. CASE ~(job[j].to = "queued" /\ job[j].chan)
    <3>1. Finish(j) /\ UNCHANGED publishing
      BY <1>4, <2>5 DEF PublishEdited
    <3> QED BY <2>1, <2>3, <3>1, LoopEnds DEF Finish
  <2> QED BY <2>4, <2>5
<1>5. CASE Reloaded(j)
  BY <1>5, LoopEnds DEF Reloaded, Finish, dialogs
<1> QED BY <1>1, <1>2, <1>3, <1>4, <1>5, NextEditLoops, PublishedLoops DEF Continue

LEMMA InitLoops == BoardInit => LoopInv
<1> SUFFICES ASSUME BoardInit PROVE LoopInv
  OBVIOUS
<1>1. \A j \in Jobs : job[j] = NoJob
  BY DEF BoardInit
<1>2. PendingIsTrue /\ ModalCoversJob /\ RetriesAreNoted
  BY <1>1, NoJobFields DEF PendingIsTrue, Wide, ModalCoversJob, RetriesAreNoted
<1>3. \A i : PublishersOf(i) = {}
  BY <1>1, NoJobFields DEF PublishersOf
<1>4. OnePublish /\ MarkersHavePublish
  BY <1>3 DEF OnePublish, MarkersHavePublish, BoardInit
<1> QED BY <1>2, <1>4 DEF LoopInv

LEMMA NextLoops == BoardTypes /\ LoopInv /\ [BoardNext]_boardVars => LoopInv'
<1> SUFFICES ASSUME BoardTypes, LoopInv, [BoardNext]_boardVars PROVE LoopInv'
  OBVIOUS
<1>1. CASE UNCHANGED boardVars
  BY <1>1, LoopStays DEF boardVars, dialogs, retries
<1>2. CASE BoardNext
  BY <1>2, ClickLoops, OtherLoops, ContinueLoops DEF BoardNext
<1> QED BY <1>1, <1>2

-----------------------------------------------------------------------------
(* What was read *)

LEMMA HeldIs ==
    /\ \A i, g : g \in Held(i) <=>
         g = summary[i] \/ \E a \in asked : a.current /\ a.item = i /\ a.got = g
    /\ \A i, g : g \in Held(i)' <=>
         g = summary'[i] \/ \E a \in asked' : a.current /\ a.item = i /\ a.got = g
BY DEF Held

\* What the server answers now to a request for the summary of i
ReadNow(g, i) == row[i].st # "gone" /\ g = [last |-> row[i].last, ver |-> row[i].ver]

\* Nothing else is held but what was, or is unknown, or was read in this step
HoldsNoMore == \A i \in Items : \A g \in Held(i)' : g \in Held(i) \/ g = Unknown \/ ReadNow(g, i)

\* A failure of the page's own goes when an attempt is known
FailuresKept ==
    \A i \in failures \ failures' :
        /\ \A g \in Held(i)' : g.last # "none"
        /\ \E g \in Held(i) : Superseded(g)

LEMMA AskEffect ==
    ASSUME BoardTypes, AgeInv, AskSummary
    PROVE  HoldsNoMore /\ OneAsk' /\ UNCHANGED <<row, list, job, failures, told>>
<1>1. PICK i \in targets : /\ targets' = targets \ {i}
          /\ asked' = asked \cup {[item |-> i, current |-> TRUE, got |-> Unknown]}
  BY DEF AskSummary
<1>2. UNCHANGED <<row, list, job, failures, told, summary>>
  BY DEF AskSummary, ops
<1> DEFINE n == [item |-> i, current |-> TRUE, got |-> Unknown]
<1>3. n.item = i /\ n.current = TRUE /\ n.got = Unknown
  OBVIOUS
<1>4. asked' = asked \cup {n}
  BY <1>1
<1> HIDE DEF n
<1>5. HoldsNoMore
  BY <1>2, <1>3, <1>4, HeldIs DEF HoldsNoMore
<1>6. summary[i] = Unknown /\ \A a \in asked : a.current => a.item \notin targets
  BY <1>1 DEF AgeInv, OneAsk
<1>7. OneAsk'
  BY <1>1, <1>2, <1>3, <1>4, <1>6 DEF AgeInv, OneAsk
<1> QED BY <1>2, <1>5, <1>7

LEMMA ReadEffect ==
    ASSUME BoardTypes, AgeInv, ReadSummary
    PROVE  HoldsNoMore /\ OneAsk' /\ UNCHANGED <<row, list, job, failures, told>>
<1>1. PICK a \in asked : row[a.item].st # "gone" /\ asked' = (asked \ {a}) \cup
               {[a EXCEPT !.got = [last |-> row[a.item].last, ver |-> row[a.item].ver]]}
  BY DEF ReadSummary
<1>2. UNCHANGED <<row, list, job, failures, told, summary, targets>>
  BY DEF ReadSummary, ops
<1> DEFINE got == [last |-> row[a.item].last, ver |-> row[a.item].ver]
           n == [a EXCEPT !.got = got]
<1>3. a \in Asks
  BY DEF BoardTypes, ReadTypes
<1>4. n.item = a.item /\ n.current = a.current /\ n.got = got /\ asked' = (asked \ {a}) \cup {n}
  BY <1>1, <1>3 DEF Asks
<1>5. ReadNow(got, a.item)
  BY <1>1 DEF ReadNow
<1> HIDE DEF n, got
<1>6. HoldsNoMore
  BY <1>2, <1>4, <1>5, HeldIs DEF HoldsNoMore
<1>7. OneAsk'
  BY <1>2, <1>4 DEF AgeInv, OneAsk
<1> QED BY <1>2, <1>6, <1>7

LEMMA StoreEffect ==
    ASSUME BoardTypes, AgeInv, StoreSummary
    PROVE  HoldsNoMore /\ OneAsk' /\ UNCHANGED <<row, list, job, told>> /\ FailuresKept
<1>1. PICK a \in asked :
          /\ asked' = asked \ {a}
          /\ summary' = IF Wanted(a) THEN [summary EXCEPT ![a.item] = a.got] ELSE summary
          /\ failures' = IF Wanted(a) THEN Synced(list, summary') ELSE failures
          /\ UNCHANGED <<row, list, targets, job, told>>
  BY DEF StoreSummary
<1>2. \A i \in Items : summary'[i] = IF a.current /\ i = a.item THEN a.got ELSE summary[i]
  BY <1>1 DEF Wanted, BoardTypes, ReadTypes
<1>3. HoldsNoMore
  BY <1>1, <1>2, HeldIs DEF HoldsNoMore
<1>4. OneAsk'
  <2>1. targets \subseteq Items /\ \A b \in asked : b.item \in Items
    BY DEF BoardTypes, ReadTypes, Asks
  <2>2. a.current => a.item \notin targets /\ \A b \in asked' : b.current => b.item # a.item
    BY <1>1 DEF AgeInv, OneAsk
  <2> QED BY <1>1, <1>2, <2>1, <2>2 DEF AgeInv, OneAsk
<1>5. ASSUME NEW i \in failures, i \notin failures'
      PROVE  (\A g \in Held(i)' : g.last # "none") /\ \E g \in Held(i) : Superseded(g)
  <2>1. a.current /\ i \in Items /\ Superseded(summary'[i])
    BY <1>1, <1>5 DEF Wanted, Synced
  <2>2. summary'[i].last # "none" /\ summary'[i] # Unknown
    BY <2>1 DEF Superseded, Unknown
  <2>3. \A b \in asked' : ~(b.current /\ b.item = i)
    <3>1. CASE i = a.item
      BY <1>1, <2>1, <3>1 DEF AgeInv, OneAsk
    <3>2. CASE i # a.item
      BY <1>1, <1>2, <2>1, <2>2, <3>2 DEF AgeInv, OneAsk
    <3> QED BY <3>1, <3>2
  <2>4. summary'[i] \in Held(i)
    BY <1>2, <2>1, HeldIs
  <2>5. \A g \in Held(i)' : g = summary'[i]
    BY <2>3, HeldIs
  <2> QED BY <2>1, <2>2, <2>4, <2>5
<1>6. FailuresKept
  BY <1>5 DEF FailuresKept
<1> QED BY <1>1, <1>3, <1>4, <1>6

LEMMA FailEffect ==
    ASSUME BoardTypes, AgeInv, SummaryFails
    PROVE  HoldsNoMore /\ OneAsk' /\ UNCHANGED <<row, list, job, failures, told>>
<1>1. PICK a \in asked : asked' = asked \ {a}
  BY DEF SummaryFails
<1>2. UNCHANGED <<row, list, job, failures, told, summary, targets>>
  BY DEF SummaryFails, ops
<1>3. HoldsNoMore
  BY <1>1, <1>2, HeldIs DEF HoldsNoMore
<1>4. OneAsk'
  BY <1>1, <1>2 DEF AgeInv, OneAsk
<1> QED BY <1>2, <1>3, <1>4

LEMMA ReadsEffect ==
    ASSUME BoardTypes, AgeInv, AskSummary \/ ReadSummary \/ StoreSummary \/ SummaryFails
    PROVE  HoldsNoMore /\ OneAsk' /\ UNCHANGED <<row, list, job, told>> /\ FailuresKept
BY AskEffect, ReadEffect, StoreEffect, FailEffect DEF FailuresKept

LEMMA ReadAges ==
    ASSUME BoardTypes, AgeInv, HoldsNoMore, OneAsk', UNCHANGED <<row, list>>
    PROVE  AgeInv'
<1>1. \A i \in Items : row[i] \in Rows /\ list[i] \in Rows
  BY DEF BoardTypes, RowTypes
<1>2. Unknown.ver = 0
  BY DEF Unknown
<1>3. Ages'
  <2> SUFFICES ASSUME NEW i \in Items, row[i].st # "gone"
               PROVE  list[i].ver <= row[i].ver /\ \A g \in Held(i)' : g.ver <= row[i].ver
    BY DEF Ages
  <2>1. list[i].ver <= row[i].ver /\ \A g \in Held(i) : g.ver <= row[i].ver
    BY DEF AgeInv, Ages
  <2>2. row[i].ver \in Nat
    BY <1>1 DEF Rows
  <2>3. \A g \in Held(i)' : g \in Held(i) \/ g.ver = 0 \/ g.ver = row[i].ver
    BY <1>2 DEF HoldsNoMore, ReadNow
  <2> QED BY <2>1, <2>2, <2>3
<1>4. KnownIsFresh'
  <2> SUFFICES ASSUME NEW i \in Listed, NEW g \in Held(i)', g # Unknown
               PROVE  g.ver >= list[i].ver
    BY DEF KnownIsFresh, Listed
  <2>1. i \in Items /\ list[i].ver \in Nat /\ row[i].ver \in Nat
    BY <1>1 DEF Listed, Rows
  <2>2. CASE g \in Held(i)
    BY <2>2 DEF AgeInv, KnownIsFresh
  <2>3. CASE ReadNow(g, i)
    BY <2>1, <2>3 DEF ReadNow, AgeInv, Ages
  <2> QED BY <2>1, <2>2, <2>3 DEF HoldsNoMore
<1> QED BY <1>3, <1>4 DEF AgeInv

LEMMA LoadAges ==
    ASSUME BoardTypes, AgeInv, list' = row, StartEnrichment, UNCHANGED row
    PROVE  AgeInv' /\ HoldsNoMore
<1>1. \A i \in Items : row[i] \in Rows /\ list[i] \in Rows /\ row[i].ver \in Nat
  BY DEF BoardTypes, RowTypes, Rows
<1>2. CASE Fingerprint(row) = Fingerprint(list)
  <2>1. UNCHANGED <<targets, asked, summary>>
    BY <1>2 DEF StartEnrichment
  <2>2. \A i \in Items : row[i].ver = list[i].ver
    BY <1>2 DEF Fingerprint
  <2>3. \A i \in Items : Held(i)' = Held(i)
    BY <2>1 DEF Held
  <2>4. Listed' = Listed
    BY <2>2 DEF Listed, BoardTypes, RowTypes, GoneIsZero
  <2>5. Ages'
    BY <1>1, <2>3 DEF AgeInv, Ages
  <2>6. KnownIsFresh'
    <3>1. Listed \subseteq Items
      BY DEF Listed
    <3> QED BY <2>2, <2>3, <2>4, <3>1 DEF AgeInv, KnownIsFresh
  <2>7. OneAsk'
    BY <2>1 DEF AgeInv, OneAsk
  <2> QED BY <2>3, <2>5, <2>6, <2>7 DEF AgeInv, HoldsNoMore
<1>3. CASE Fingerprint(row) # Fingerprint(list)
  <2>1. /\ summary' = [i \in Items |-> Unknown]
        /\ asked' = {[a EXCEPT !.current = FALSE] : a \in asked}
    BY <1>3 DEF StartEnrichment
  <2>2. \A a \in asked' : a.current = FALSE
    BY <2>1 DEF BoardTypes, ReadTypes, Asks
  <2>3. \A i \in Items : \A g \in Held(i)' : g = Unknown
    BY <2>1, <2>2, HeldIs
  <2>4. Unknown.ver = 0
    BY DEF Unknown
  <2>5. Ages'
    BY <1>1, <2>3, <2>4 DEF Ages
  <2>6. KnownIsFresh'
    BY <2>3 DEF KnownIsFresh, Listed
  <2>7. OneAsk'
    <3>1. targets' \subseteq Items
      BY <1>3 DEF StartEnrichment
    <3> QED BY <2>1, <2>2, <3>1 DEF OneAsk
  <2> QED BY <2>3, <2>5, <2>6, <2>7 DEF AgeInv, HoldsNoMore
<1> QED BY <1>2, <1>3

LEMMA LoadKeeps ==
    ASSUME BoardTypes, StartEnrichment PROVE FailuresKept
<1>1. CASE UNCHANGED failures
  BY <1>1 DEF FailuresKept
<1>2. CASE /\ failures' = Synced(row, summary)
           /\ summary' = [i \in Items |-> Unknown]
           /\ asked' = {[a EXCEPT !.current = FALSE] : a \in asked}
  <2> SUFFICES ASSUME NEW i \in failures, i \notin failures'
               PROVE  (\A g \in Held(i)' : g.last # "none") /\ \E g \in Held(i) : Superseded(g)
    BY DEF FailuresKept
  <2>1. i \in Items /\ Superseded(summary[i])
    BY <1>2 DEF Synced
  <2>2. \A a \in asked' : a.current = FALSE
    BY <1>2 DEF BoardTypes, ReadTypes, Asks
  <2>3. \A g \in Held(i)' : g = Unknown
    BY <1>2, <2>1, <2>2, HeldIs
  <2> QED BY <2>1, <2>3, HeldIs DEF Unknown
<1> QED BY <1>1, <1>2 DEF StartEnrichment

LEMMA AgesStay ==
    ASSUME AgeInv, UNCHANGED <<row, list, enrichment>>
    PROVE  AgeInv' /\ HoldsNoMore
BY DEF AgeInv, Ages, KnownIsFresh, OneAsk, Held, Listed, enrichment, HoldsNoMore

\* A row gets a later version, or none
LEMMA RowAges ==
    ASSUME BoardTypes, AgeInv, UNCHANGED <<list, enrichment>>,
           NEW i \in Items, NEW r \in Rows, Newer(i, r) \/ Touched(i)
    PROVE  AgeInv'
<1>1. \A k \in Items : row[k] \in Rows /\ row[k].ver \in Nat /\ list[k].ver \in Nat
  BY DEF BoardTypes, RowTypes, Rows
<1>2. \A k \in Items : row'[k].st # "gone" => row[k].st # "gone" /\ row'[k].ver >= row[k].ver
  <2>1. CASE Newer(i, r)
    <3>1. \A k \in Items : row'[k] = IF k = i THEN r ELSE row[k]
      BY <2>1 DEF Newer, BoardTypes, RowTypes
    <3> QED BY <1>1, <2>1, <3>1 DEF Newer
  <2>2. CASE Touched(i)
    <3>1. \A k \in Items : row'[k].st = row[k].st /\ row'[k].ver = row[k].ver
      BY <2>2, TouchedIs DEF BoardTypes
    <3> QED BY <1>1, <3>1
  <2> QED BY <2>1, <2>2
<1>3. \A k \in Items : Held(k)' = Held(k)
  BY DEF Held, enrichment
<1>4. \A k \in Items : row'[k].ver \in Nat
  <2>1. RowTypes'
    BY RowStepTyped DEF BoardTypes
  <2> QED BY <2>1 DEF RowTypes, Rows
<1>5. \A k \in Items : \A g \in Held(k) : g.ver \in Nat
  <2>1. \A k \in Items : summary[k].ver \in Nat
    BY DEF BoardTypes, ReadTypes, Readings
  <2>2. \A a \in asked : a.got.ver \in Nat
    BY DEF BoardTypes, ReadTypes, Readings, Asks
  <2> QED BY <2>1, <2>2, HeldIs
<1>6. Ages'
  <2> SUFFICES ASSUME NEW k \in Items, row'[k].st # "gone"
               PROVE  list[k].ver <= row'[k].ver /\ \A g \in Held(k) : g.ver <= row'[k].ver
    BY <1>3 DEF Ages
  <2>1. list[k].ver <= row[k].ver /\ \A g \in Held(k) : g.ver <= row[k].ver
    BY <1>2 DEF AgeInv, Ages
  <2> QED BY <1>1, <1>2, <1>4, <1>5, <2>1
<1>7. KnownIsFresh' /\ OneAsk'
  BY <1>3 DEF AgeInv, KnownIsFresh, OneAsk, Listed, enrichment
<1> QED BY <1>6, <1>7 DEF AgeInv

LEMMA EffectAges ==
    ASSUME BoardTypes, AgeInv, UNCHANGED <<list, enrichment>>, NEW i \in Items, RowEffect(i)
    PROVE  AgeInv'
<1>1. row[i] \in Rows
  BY DEF BoardTypes, RowTypes
<1>2. CASE UNCHANGED row
  BY <1>2, AgesStay
<1>3. CASE (\E r \in Rows : Newer(i, r)) \/ Touched(i)
  BY <1>1, <1>3, RowAges
<1> QED BY <1>2, <1>3 DEF RowEffect

\* A click leaves what was read alone, and starts one loop at most
LEMMA ClickLeaves ==
    ASSUME BoardTypes, Click
    PROVE  /\ UNCHANGED <<row, list, enrichment, failures, told>>
           /\ \/ UNCHANGED job
              \/ \E j \in Jobs : \E q :
                    job[j] = NoJob /\ job' = [job EXCEPT ![j] = q] /\ q.call = "sent"
<1> DEFINE Leaves == UNCHANGED <<row, list, enrichment, failures, told>>
           Begins == \E j \in Jobs : \E q :
                        job[j] = NoJob /\ job' = [job EXCEPT ![j] = q] /\ q.call = "sent"
<1>1. ASSUME NEW kind, NEW step, NEW S, NEW to, Start(kind, step, S, to) PROVE Leaves /\ Begins
  <2>1. PICK j \in Jobs : job[j] = NoJob /\ Sends(j, NewJob(kind, step, S, to))
    BY <1>1, StartEffect DEF BoardTypes
  <2>2. Leaves
    BY <1>1 DEF Start
  <2>3. Begins
    <3>1. NewJob(kind, step, S, to).call = "sent"
      BY NewJobFields
    <3> QED BY <2>1, <3>1 DEF Sends
  <2> QED BY <2>2, <2>3
<1>2. ASSUME NEW d, NEW x, Show(d, x) PROVE Leaves /\ UNCHANGED job
  BY <1>2 DEF Show, ops
<1>3. ASSUME NEW S, Select(S) PROVE Leaves /\ UNCHANGED job
  BY <1>3 DEF Select, ops
<1>4. ASSUME NEW p, Turn(p) PROVE Leaves /\ UNCHANGED job
  BY <1>4 DEF Turn, ops
<1>5. ASSUME NEW f, SetFilter(f) PROVE Leaves /\ UNCHANGED job
  BY <1>5 DEF SetFilter, ops
<1> HIDE DEF Leaves, Begins
<1>6. ASSUME NEW S, PublishItems(S) PROVE Leaves /\ (Begins \/ UNCHANGED job)
  <2>1. (\E kind, step, to : Start(kind, step, S, to)) \/ Show(S, doomed)
    BY <1>6 DEF PublishItems
  <2> QED BY <2>1, <1>1, <1>2
<1>7. Leaves /\ (Begins \/ UNCHANGED job)
  <2>1. CASE \E S : Select(S)
    BY <2>1, <1>3
  <2>2. CASE \E S : PublishItems(S)
    BY <2>2, <1>6
  <2>3. CASE \E kind, step, S, to : Start(kind, step, S, to)
    BY <2>3, <1>1
  <2>4. CASE \E p : Turn(p)
    BY <2>4, <1>4
  <2>5. CASE \E f : SetFilter(f)
    BY <2>5, <1>5
  <2>6. CASE \E d, x : Show(d, x)
    BY <2>6, <1>2
  <2>7. \/ \E S : Select(S) \/ PublishItems(S)
        \/ \E kind, step, S, to : Start(kind, step, S, to)
        \/ (\E p : Turn(p)) \/ (\E f : SetFilter(f)) \/ \E d, x : Show(d, x)
    <3>1. CASE \E k \in Items : Toggle(k) \/ PublishRow(k) \/ Retry(k)
      <4>1. PICK k \in Items : Toggle(k) \/ PublishRow(k) \/ Retry(k)
        BY <3>1
      <4>2. CASE Toggle(k)
        BY <4>2 DEF Toggle
      <4>3. CASE PublishRow(k)
        BY <4>3 DEF PublishRow
      <4>4. CASE Retry(k)
        BY <4>4 DEF Retry
      <4> QED BY <4>1, <4>2, <4>3, <4>4
    <3>2. CASE ToggleAll \/ ClearSelection
      BY <3>2 DEF ToggleAll, ClearSelection
    <3>3. CASE NextPage \/ PreviousPage
      BY <3>3 DEF NextPage, PreviousPage
    <3>4. CASE \E f \in Filters : SetFilter(f)
      BY <3>4
    <3>5. CASE OpenSchedule \/ OpenDelete
      BY <3>5 DEF OpenSchedule, OpenDelete
    <3>6. CASE CloseSchedule \/ CancelDelete
      BY <3>6 DEF CloseSchedule, CancelDelete
    <3>7. CASE PublishSelected
      BY <3>7 DEF PublishSelected
    <3>8. CASE SaveSchedule
      BY <3>8 DEF SaveSchedule
    <3>9. CASE PublishFromDialog
      BY <3>9 DEF PublishFromDialog
    <3>10. CASE ConfirmDelete
      BY <3>10 DEF ConfirmDelete
    <3>11. CASE \E to \in {"draft", "queued"} : ChangeStatus(to)
      BY <3>11 DEF ChangeStatus
    <3> QED BY <3>1, <3>2, <3>3, <3>4, <3>5, <3>6, <3>7, <3>8, <3>9, <3>10, <3>11 DEF Click
  <2> QED BY <2>1, <2>2, <2>3, <2>4, <2>5, <2>6, <2>7
<1> QED BY <1>7 DEF Leaves, Begins

LEMMA ContinueLeaves ==
    ASSUME BoardTypes, NEW j \in Jobs, Continue(j), ~Published(j), ~Reloaded(j)
    PROVE  /\ UNCHANGED <<row, list, enrichment, failures, told>> /\ job[j].step # "publish"
           /\ \E q : job' = [job EXCEPT ![j] = q] /\ q.call \in {"none", "sent"}
<1>1. CASE Stopped(j)
  BY <1>1, NoJobFields DEF Stopped, Finish
<1>2. CASE NextEdit(j)
  <2>1. Sends(j, Next1(j))
    BY <1>2, ProceedEffect DEF NextEdit, BoardTypes
  <2>2. Next1(j).call = "sent"
    BY JobIs DEF Next1, JobSet
  <2> QED BY <1>2, <2>1, <2>2 DEF NextEdit, Sends
<1>3. CASE Edits(j)
  <2>1. job[j].step = "update"
    BY <1>3, KindHasStep DEF Edits, Answered
  <2> QED BY <1>3, <2>1, NoJobFields DEF Edits, Finish
<1>4. CASE Deletes(j)
  <2>1. job[j].step # "publish"
    BY <1>4, JobIs DEF Deletes, Answered, JobFits, Publishing
  <2> QED BY <1>4, <2>1, NoJobFields DEF Deletes, Finish
<1>5. CASE PublishEdited(j)
  <2>1. /\ UNCHANGED <<row, list, enrichment, failures, told>> /\ job[j].step = "update"
        /\ job[j].kind \in {"publishNow", "retry"}
    BY <1>5 DEF PublishEdited, Answered
  <2>2. CASE job[j].to = "queued" /\ job[j].chan
    <3>1. Sends(j, Half2(j))
      BY <1>5, <2>1, <2>2, SecondHalfEffect DEF PublishEdited, BoardTypes
    <3>2. Half2(j).call = "sent"
      BY JobIs DEF Half2, JobSet
    <3> QED BY <2>1, <3>1, <3>2 DEF Sends
  <2>3. CASE ~(job[j].to = "queued" /\ job[j].chan)
    BY <1>5, <2>1, <2>3, NoJobFields DEF PublishEdited, Finish
  <2> QED BY <2>2, <2>3
<1> QED BY <1>1, <1>2, <1>3, <1>4, <1>5 DEF Continue

LEMMA InitAges == BoardInit => AgeInv
<1> SUFFICES ASSUME BoardInit PROVE AgeInv
  OBVIOUS
<1>1. BoardTypes
  BY InitTypes
<1>2. \A i \in Items : Held(i) = {Unknown}
  BY DEF BoardInit, Held
<1>3. \A i \in Items : row[i].ver \in Nat /\ list[i] = row[i]
  BY <1>1 DEF BoardInit, BoardTypes, RowTypes, Rows
<1>4. Ages
  BY <1>2, <1>3 DEF Ages, Unknown
<1>5. KnownIsFresh
  BY <1>2 DEF KnownIsFresh, Listed
<1>6. OneAsk
  BY DEF OneAsk, BoardInit
<1> QED BY <1>4, <1>5, <1>6 DEF AgeInv

LEMMA NextAges == BoardTypes /\ AgeInv /\ [BoardNext]_boardVars => AgeInv'
<1> SUFFICES ASSUME BoardTypes, AgeInv, [BoardNext]_boardVars PROVE AgeInv'
  OBVIOUS
<1>1. CASE UNCHANGED boardVars
  BY <1>1, AgesStay DEF boardVars, enrichment
<1>2. CASE Click
  BY <1>2, ClickLeaves, AgesStay
<1>3. CASE AskSummary \/ ReadSummary \/ StoreSummary \/ SummaryFails
  BY <1>3, ReadsEffect, ReadAges
<1>4. CASE Reload
  BY <1>4, LoadAges DEF Reload, LoadList
<1>5. ASSUME NEW j \in Jobs, Serve(j) PROVE AgeInv'
  BY <1>5, ServeEffect, EffectAges DEF PageStays
<1>6. ASSUME NEW i \in Items, Foreign(i) PROVE AgeInv'
  BY <1>6, ForeignEffect, EffectAges DEF PageStays
<1>7. ASSUME NEW j \in Jobs, Continue(j) PROVE AgeInv'
  <2>1. CASE Published(j)
    BY <2>1, AgesStay DEF Published
  <2>2. CASE Reloaded(j)
    <3>1. CASE list' = row /\ StartEnrichment
      BY <2>2, <3>1, LoadAges DEF Reloaded
    <3>2. CASE UNCHANGED <<list, enrichment>>
      BY <2>2, <3>2, AgesStay DEF Reloaded
    <3> QED BY <2>2, <3>1, <3>2 DEF Reloaded
  <2>3. CASE ~Published(j) /\ ~Reloaded(j)
    BY <1>7, <2>3, ContinueLeaves, AgesStay
  <2> QED BY <2>1, <2>2, <2>3
<1> QED BY <1>1, <1>2, <1>3, <1>4, <1>5, <1>6, <1>7 DEF BoardNext

-----------------------------------------------------------------------------
(* Failures *)

\* The rows are the same, and what the page forgets of a failure is known otherwise
LEMMA FailureKeep ==
    ASSUME BoardTypes, FailureInv, UNCHANGED row, HoldsNoMore,
           \A i \in told' \ failures' :
              \/ i \in told \ failures \/ row[i].st = "gone"
              \/ row[i].last # "none" /\ \A g \in Held(i)' : g.last # "none"
    PROVE  FailureInv'
<1>1. ~Superseded(Unknown) /\ Unknown.ver = 0 /\ Unknown.last # "none"
  BY DEF Superseded, Unknown
<1>2. \A i \in Items : \A g : ReadNow(g, i) => g.last = row[i].last /\ g.ver = row[i].ver
  BY DEF ReadNow
<1>3. AttemptsStay'
  <2> SUFFICES ASSUME NEW i \in Items, row[i].st # "gone", NEW g \in Held(i)', Superseded(g)
               PROVE  row[i].last # "none"
    BY DEF AttemptsStay, Superseded
  <2> QED BY <1>1, <1>2 DEF HoldsNoMore, FailureInv, AttemptsStay, Superseded
<1>4. FailuresAreRead'
  <2> SUFFICES ASSUME NEW i \in Items, row[i].st # "gone", row[i].last = "failed",
                      ~row[i].silent, NEW g \in Held(i)', g.ver = row[i].ver
               PROVE  g.last = "failed"
    BY DEF FailuresAreRead
  <2>1. row[i].ver # 0
    BY DEF BoardTypes, RowTypes, GoneIsZero
  <2> QED BY <1>1, <1>2, <2>1 DEF HoldsNoMore, FailureInv, FailuresAreRead
<1>5. ToldIsKnown'
  <2> SUFFICES ASSUME NEW i \in told', i \notin failures', row[i].st # "gone"
               PROVE  row[i].last # "none" /\ \A g \in Held(i)' : g.last # "none"
    BY DEF ToldIsKnown
  <2>1. CASE i \in told \ failures
    <3>1. i \in Items
      BY <2>1 DEF BoardTypes, PageTypes
    <3>2. row[i].last # "none" /\ \A g \in Held(i) : g.last # "none"
      BY <2>1 DEF FailureInv, ToldIsKnown
    <3> QED BY <1>1, <1>2, <3>1, <3>2 DEF HoldsNoMore
  <2> QED BY <2>1
<1> QED BY <1>3, <1>4, <1>5 DEF FailureInv

\* What was dropped was superseded
LEMMA DroppedFailures ==
    ASSUME BoardTypes, FailureInv, UNCHANGED <<row, told>>, HoldsNoMore, FailuresKept
    PROVE  FailureInv'
<1>1. ASSUME NEW i \in told', i \notin failures', i \in failures, row[i].st # "gone"
      PROVE  row[i].last # "none" /\ \A g \in Held(i)' : g.last # "none"
  <2>1. i \in Items
    BY <1>1 DEF BoardTypes, PageTypes
  <2>2. (\A g \in Held(i)' : g.last # "none") /\ \E g \in Held(i) : Superseded(g)
    BY <1>1 DEF FailuresKept
  <2> QED BY <1>1, <2>1, <2>2 DEF FailureInv, AttemptsStay
<1> QED BY <1>1, FailureKeep

LEMMA QuietFailures ==
    ASSUME BoardTypes, AgeInv, FailureInv, UNCHANGED <<row, list, enrichment, failures, told>>
    PROVE  FailureInv'
BY AgesStay, DroppedFailures DEF FailuresKept

LEMMA PublishedFailures ==
    ASSUME BoardTypes, AgeInv, FailureInv, NEW j \in Jobs, Published(j)
    PROVE  FailureInv'
<1>1. UNCHANGED <<row, list, enrichment>>
  BY DEF Published
<1>2. told' \ failures' \subseteq told \ failures
  BY DEF Published
<1> QED BY <1>1, <1>2, AgesStay, FailureKeep

LEMMA LoadFailures ==
    ASSUME BoardTypes, AgeInv, FailureInv, list' = row, StartEnrichment, UNCHANGED <<row, told>>
    PROVE  FailureInv'
BY LoadAges, LoadKeeps, DroppedFailures

\* What is held of i was read before its row changed
LEMMA NewerFailures ==
    ASSUME BoardTypes, AgeInv, FailureInv, NEW i \in Items, NEW r \in Rows, Newer(i, r),
           UNCHANGED <<enrichment, failures, told>>
    PROVE  FailureInv'
<1>1. row'[i] = r /\ row[i].st # "gone" /\ \A k \in Items : k # i => row'[k] = row[k]
  BY DEF Newer, BoardTypes, RowTypes
<1>2. \A k : Held(k)' = Held(k)
  BY DEF Held, enrichment
<1>3. ASSUME r.st # "gone", NEW g \in Held(i) PROVE g.ver # r.ver
  <2>1. g.ver <= row[i].ver /\ r.ver = row[i].ver + 1
    BY <1>3 DEF AgeInv, Ages, Newer
  <2>2. row[i].ver \in Nat
    BY DEF BoardTypes, RowTypes, Rows
  <2>3. g.ver \in Nat
    <3>1. summary[i].ver \in Nat /\ \A a \in asked : a.got.ver \in Nat
      BY DEF BoardTypes, ReadTypes, Readings, Asks
    <3> QED BY <3>1, HeldIs
  <2> QED BY <2>1, <2>2, <2>3
<1>4. r.st # "gone" /\ row[i].last # "none" => r.last # "none"
  BY DEF Newer
<1>5. AttemptsStay'
  <2> SUFFICES ASSUME NEW k \in Items, row'[k].st # "gone", NEW g \in Held(k), Superseded(g)
               PROVE  row'[k].last # "none"
    BY <1>2 DEF AttemptsStay, Superseded
  <2>1. row[k].st # "gone"
    BY <1>1
  <2>2. row[k].last # "none"
    BY <2>1 DEF FailureInv, AttemptsStay
  <2> QED BY <1>1, <1>4, <2>2
<1>6. FailuresAreRead'
  <2> SUFFICES ASSUME NEW k \in Items, row'[k].st # "gone", row'[k].last = "failed",
                      ~row'[k].silent, NEW g \in Held(k), g.ver = row'[k].ver
               PROVE  g.last = "failed"
    BY <1>2 DEF FailuresAreRead
  <2>1. CASE k = i
    BY <1>1, <1>3, <2>1
  <2>2. CASE k # i
    BY <1>1, <2>2 DEF FailureInv, FailuresAreRead
  <2> QED BY <2>1, <2>2
<1>7. ToldIsKnown'
  <2> SUFFICES ASSUME NEW k \in told, k \notin failures, row'[k].st # "gone"
               PROVE  row'[k].last # "none" /\ \A g \in Held(k) : g.last # "none"
    BY <1>2 DEF ToldIsKnown
  <2>1. k \in Items
    BY DEF BoardTypes, PageTypes
  <2>2. row[k].st # "gone"
    BY <1>1, <2>1
  <2>3. row[k].last # "none" /\ \A g \in Held(k) : g.last # "none"
    BY <2>2 DEF FailureInv, ToldIsKnown
  <2> QED BY <1>1, <1>4, <2>1, <2>3
<1> QED BY <1>5, <1>6, <1>7 DEF FailureInv

\* An attempt on i is claimed, or fails without a version
LEMMA TouchedFailures ==
    ASSUME BoardTypes, FailureInv, NEW i \in Items, Touched(i),
           UNCHANGED <<enrichment, failures, told>>
    PROVE  FailureInv'
<1>1. /\ \A k \in Items : row'[k].ver = row[k].ver /\ row'[k].st = row[k].st
      /\ \A k \in Items : k # i => row'[k] = row[k]
      /\ row'[i].last # "none" /\ (row'[i].last = "failed" => row'[i].silent)
  BY TouchedIs DEF BoardTypes
<1>2. \A k : Held(k)' = Held(k)
  BY DEF Held, enrichment
<1>3. AttemptsStay'
  <2> SUFFICES ASSUME NEW k \in Items, row'[k].st # "gone", NEW g \in Held(k), Superseded(g)
               PROVE  row'[k].last # "none"
    BY <1>2 DEF AttemptsStay, Superseded
  <2> QED BY <1>1 DEF FailureInv, AttemptsStay
<1>4. FailuresAreRead'
  <2> SUFFICES ASSUME NEW k \in Items, row'[k].st # "gone", row'[k].last = "failed",
                      ~row'[k].silent, NEW g \in Held(k), g.ver = row'[k].ver
               PROVE  g.last = "failed"
    BY <1>2 DEF FailuresAreRead
  <2>1. k # i
    BY <1>1
  <2> QED BY <1>1, <2>1 DEF FailureInv, FailuresAreRead
<1>5. ToldIsKnown'
  <2> SUFFICES ASSUME NEW k \in told, k \notin failures, row'[k].st # "gone"
               PROVE  row'[k].last # "none" /\ \A g \in Held(k) : g.last # "none"
    BY <1>2 DEF ToldIsKnown
  <2>1. k \in Items
    BY DEF BoardTypes, PageTypes
  <2> QED BY <1>1, <2>1 DEF FailureInv, ToldIsKnown
<1> QED BY <1>3, <1>4, <1>5 DEF FailureInv

LEMMA ServerFailures ==
    ASSUME BoardTypes, AgeInv, FailureInv,
           (\E j \in Jobs : Serve(j)) \/ \E i \in Items : Foreign(i)
    PROVE  FailureInv'
<1>1. PageStays /\ \E i \in Items : RowEffect(i)
  BY ServeEffect, ForeignEffect
<1>2. PICK i \in Items : RowEffect(i)
  BY <1>1
<1>3. UNCHANGED <<list, enrichment, failures, told>>
  BY <1>1 DEF PageStays
<1>4. CASE UNCHANGED row
  BY <1>3, <1>4, QuietFailures
<1>5. CASE \E r \in Rows : Newer(i, r)
  BY <1>3, <1>5, NewerFailures
<1>6. CASE Touched(i)
  BY <1>3, <1>6, TouchedFailures
<1> QED BY <1>2, <1>4, <1>5, <1>6 DEF RowEffect

LEMMA InitFailures == BoardInit => FailureInv
<1> SUFFICES ASSUME BoardInit PROVE FailureInv
  OBVIOUS
<1>1. \A i \in Items : \A g \in Held(i) : g = Unknown
  BY HeldIs DEF BoardInit
<1>2. \A i \in Items : row[i].st # "gone" => row[i].ver # 0
  BY InitTypes DEF BoardTypes, RowTypes, GoneIsZero
<1>3. AttemptsStay /\ FailuresAreRead
  BY <1>1, <1>2 DEF AttemptsStay, FailuresAreRead, Superseded, Unknown
<1>4. ToldIsKnown
  BY DEF BoardInit, ToldIsKnown
<1> QED BY <1>3, <1>4 DEF FailureInv

LEMMA NextFailures == BoardTypes /\ AgeInv /\ FailureInv /\ [BoardNext]_boardVars => FailureInv'
<1> SUFFICES ASSUME BoardTypes, AgeInv, FailureInv, [BoardNext]_boardVars PROVE FailureInv'
  OBVIOUS
<1>1. CASE UNCHANGED boardVars
  BY <1>1, QuietFailures DEF boardVars, enrichment
<1>2. CASE Click
  BY <1>2, ClickLeaves, QuietFailures
<1>3. CASE AskSummary \/ ReadSummary \/ StoreSummary \/ SummaryFails
  BY <1>3, ReadsEffect, DroppedFailures
<1>4. CASE Reload
  BY <1>4, LoadFailures DEF Reload, LoadList
<1>5. ASSUME NEW j \in Jobs, Continue(j) PROVE FailureInv'
  <2>1. CASE Published(j)
    BY <2>1, PublishedFailures
  <2>2. CASE Reloaded(j)
    <3>1. CASE list' = row /\ StartEnrichment
      BY <2>2, <3>1, LoadFailures DEF Reloaded
    <3>2. CASE UNCHANGED <<list, enrichment, failures>>
      BY <2>2, <3>2, QuietFailures DEF Reloaded
    <3> QED BY <2>2, <3>1, <3>2 DEF Reloaded
  <2>3. CASE ~Published(j) /\ ~Reloaded(j)
    BY <1>5, <2>3, ContinueLeaves, QuietFailures
  <2> QED BY <2>1, <2>2, <2>3
<1> QED BY <1>1, <1>2, <1>3, <1>4, <1>5, ServerFailures DEF BoardNext

-----------------------------------------------------------------------------
(* The page *)

LEMMA FilteredIsFinite ==
    ASSUME BoardTypes
    PROVE  /\ Filtered \in SUBSET Items /\ IsFiniteSet(Filtered) /\ Cardinality(Filtered) \in Nat
           /\ page \in Nat /\ PageSize \in Nat /\ PageSize > 0
<1>1. Filtered \in SUBSET Items
  BY DEF Filtered, Listed
<1>2. IsFiniteSet(Filtered)
  BY <1>1, SetsAre, FS_Subset
<1>3. PageSize \in Nat /\ PageSize > 0
  BY BoardAssumption
<1> QED BY <1>1, <1>2, <1>3, FS_CardinalityType DEF BoardTypes, PageTypes

LEMMA RankIsBelow ==
    ASSUME BoardTypes, NEW i \in Filtered
    PROVE  Rank(i) \in Nat /\ Rank(i) < Cardinality(Filtered)
<1> DEFINE B == {k \in Filtered : k < i}
<1>1. i \in Nat
  BY FilteredIsFinite, SetsAre
<1>2. B \in SUBSET (Filtered \ {i})
  BY <1>1
<1>3. IsFiniteSet(Filtered \ {i}) /\ Cardinality(Filtered \ {i}) = Cardinality(Filtered) - 1
  BY FilteredIsFinite, FS_RemoveElement
<1>4. Rank(i) = Cardinality(B)
  BY DEF Rank
<1> HIDE DEF B
<1>5. Cardinality(B) \in Nat /\ Cardinality(B) <= Cardinality(Filtered \ {i})
  BY <1>2, <1>3, FS_Subset, FS_CardinalityType
<1> QED BY <1>3, <1>4, <1>5, FilteredIsFinite

LEMMA PageStaysFull ==
    ASSUME BoardTypes, PageInv, UNCHANGED <<page, shrunk, list, filter>> PROVE PageInv'
BY DEF PageInv, Filtered, Matches, Listed

LEMMA LoadPage ==
    ASSUME BoardTypes, PageInv, list' = row, shrunk' = (shrunk \/ Shrinks), UNCHANGED <<page, filter>>,
           BoardTypes'
    PROVE  PageInv'
<1> SUFFICES ASSUME ~shrunk', page # 0 PROVE page * PageSize < Cardinality(Filtered')
  BY DEF PageInv
<1>1. ~shrunk /\ \A i \in Listed : row[i].st = list[i].st
  BY DEF Shrinks
<1>2. Filtered \in SUBSET Filtered'
  BY <1>1 DEF Filtered, Matches, Listed
<1>3. IsFiniteSet(Filtered') /\ Cardinality(Filtered') \in Nat
  <2>1. Filtered' \in SUBSET Items
    BY DEF Filtered, Listed
  <2> QED BY <2>1, SetsAre, FS_Subset, FS_CardinalityType
<1>4. Cardinality(Filtered) <= Cardinality(Filtered')
  BY <1>2, <1>3, FS_Subset
<1>5. page * PageSize < Cardinality(Filtered)
  BY <1>1 DEF PageInv
<1>6. page * PageSize \in Nat /\ Cardinality(Filtered) \in Nat
  BY FilteredIsFinite
<1> QED BY <1>3, <1>4, <1>5, <1>6

LEMMA ClickPage == ASSUME BoardTypes, PageInv, Click PROVE PageInv'
<1>1. ASSUME NEW kind, NEW step, NEW S, NEW to, Start(kind, step, S, to) PROVE PageInv'
  BY <1>1, PageStaysFull DEF Start
<1>2. ASSUME NEW d, NEW x, Show(d, x) PROVE PageInv'
  BY <1>2, PageStaysFull DEF Show, view
<1>3. ASSUME NEW S, Select(S) PROVE PageInv'
  BY <1>3, PageStaysFull DEF Select, view
<1>4. ASSUME NEW S, PublishItems(S) PROVE PageInv'
  BY <1>4, <1>1, <1>2 DEF PublishItems
<1>5. CASE NextPage
  <2>1. UNCHANGED Filtered /\ page' = page + 1
    BY <1>5 DEF NextPage, Turn, Filtered, Matches, Listed
  <2> QED BY <1>5, <2>1 DEF NextPage, PageInv
<1>6. CASE PreviousPage
  <2>1. UNCHANGED Filtered /\ page' = page - 1 /\ Paged # {}
    BY <1>6 DEF PreviousPage, Turn, Filtered, Matches, Listed
  <2>2. PICK i \in Filtered : Rank(i) \in page * PageSize .. (page + 1) * PageSize - 1
    BY <2>1 DEF Paged
  <2>3. Rank(i) \in Nat /\ Rank(i) < Cardinality(Filtered)
    BY RankIsBelow
  <2>4. page \in Nat /\ PageSize \in Nat /\ Cardinality(Filtered) \in Nat
    BY FilteredIsFinite
  <2>5. page * PageSize \in Nat /\ (page - 1) * PageSize = page * PageSize - PageSize
    BY <2>4
  <2>6. page * PageSize <= Rank(i)
    BY <2>2, <2>5
  <2>7. (page - 1) * PageSize < Cardinality(Filtered)
    BY <2>3, <2>4, <2>5, <2>6
  <2> QED BY <2>1, <2>7 DEF PageInv
<1>7. ASSUME NEW f \in Filters, SetFilter(f) PROVE PageInv'
  BY <1>7 DEF SetFilter, PageAfterFilter, PageInv
<1>8. CASE \E k \in Items : Toggle(k) \/ PublishRow(k) \/ Retry(k)
  BY <1>8, <1>1, <1>3, <1>4 DEF Toggle, PublishRow, Retry
<1>9. CASE ToggleAll \/ ClearSelection \/ OpenSchedule \/ OpenDelete \/ CloseSchedule \/ CancelDelete
  BY <1>9, <1>2, <1>3 DEF ToggleAll, ClearSelection, OpenSchedule, OpenDelete, CloseSchedule,
     CancelDelete
<1>10. CASE PublishSelected \/ SaveSchedule \/ PublishFromDialog \/ ConfirmDelete
            \/ \E to \in {"draft", "queued"} : ChangeStatus(to)
  BY <1>10, <1>1, <1>4 DEF PublishSelected, SaveSchedule, PublishFromDialog, ConfirmDelete,
     ChangeStatus
<1> QED BY <1>5, <1>6, <1>7, <1>8, <1>9, <1>10 DEF Click

LEMMA InitPage == BoardInit => PageInv
BY DEF BoardInit, PageInv

LEMMA NextPages == BoardTypes /\ PageInv /\ [BoardNext]_boardVars => PageInv'
<1> SUFFICES ASSUME BoardTypes, PageInv, [BoardNext]_boardVars PROVE PageInv'
  OBVIOUS
<1>1. CASE UNCHANGED boardVars
  BY <1>1, PageStaysFull DEF boardVars
<1>2. CASE Click
  BY <1>2, ClickPage
<1>3. CASE Reload
  BY <1>3, LoadPage, NextTypes DEF Reload, LoadList
<1>4. CASE AskSummary \/ ReadSummary \/ StoreSummary \/ SummaryFails
  BY <1>4, PageStaysFull DEF AskSummary, ReadSummary, StoreSummary, SummaryFails, view
<1>5. ASSUME NEW j \in Jobs, Serve(j) PROVE PageInv'
  BY <1>5, ServeEffect, PageStaysFull DEF PageStays, view
<1>6. ASSUME NEW i \in Items, Foreign(i) PROVE PageInv'
  BY <1>6, ForeignEffect, PageStaysFull DEF PageStays, view
<1>7. ASSUME NEW j \in Jobs, Continue(j) PROVE PageInv'
  <2>1. CASE Reloaded(j)
    <3>1. CASE list' = row /\ shrunk' = (shrunk \/ Shrinks)
      BY <2>1, <3>1, LoadPage, NextTypes DEF Reloaded
    <3>2. CASE UNCHANGED <<list, shrunk>>
      BY <2>1, <3>2, PageStaysFull DEF Reloaded
    <3> QED BY <2>1, <3>1, <3>2 DEF Reloaded
  <2>2. CASE Published(j)
    BY <2>2, PageStaysFull DEF Published, view
  <2>3. CASE Stopped(j) \/ NextEdit(j) \/ Edits(j) \/ Deletes(j) \/ PublishEdited(j)
    BY <2>3, PageStaysFull DEF Stopped, NextEdit, Edits, Deletes, PublishEdited, view
  <2> QED BY <1>7, <2>1, <2>2, <2>3 DEF Continue
<1> QED BY <1>1, <1>2, <1>3, <1>4, <1>5, <1>6, <1>7 DEF BoardNext

-----------------------------------------------------------------------------
(* The theorems *)

LEMMA BoardInductive == BoardSpec => []BoardIInv
<1>1. BoardInit => BoardIInv
  BY InitTypes, InitLoops, InitAges, InitFailures, InitPage DEF BoardIInv
<1>2. BoardIInv /\ [BoardNext]_boardVars => BoardIInv'
  BY NextTypes, NextLoops, NextAges, NextFailures, NextPages DEF BoardIInv
<1> QED BY <1>1, <1>2, PTL DEF BoardSpec

LEMMA OneAtATime == ASSUME BoardIInv PROVE OnlyRetriesOverlap
<1> SUFFICES ASSUME NEW i \in Items, Cardinality(PublishersOf(i)) > 1, ~Spoilt(i) PROVE FALSE
  BY DEF OnlyRetriesOverlap, Spoilt
<1>1. \A j, k \in PublishersOf(i) : j = k
  BY DEF BoardIInv, LoopInv, OnePublish
<1>2. CASE PublishersOf(i) = {}
  BY <1>2, FS_EmptySet
<1>3. CASE PublishersOf(i) # {}
  <2>1. PICK j : PublishersOf(i) = {j}
    BY <1>1, <1>3
  <2> QED BY <2>1, FS_Singleton
<1> QED BY <1>2, <1>3

LEMMA EmptyPage == ASSUME BoardIInv PROVE EmptyPageHasCause
<1> SUFFICES ASSUME Paged = {}, Filtered # {}, ~shrunk PROVE FALSE
  BY DEF EmptyPageHasCause
<1> DEFINE first == page * PageSize
<1>0. BoardTypes
  BY DEF BoardIInv
<1>1. /\ Filtered \in SUBSET Nat /\ IsFiniteSet(Filtered) /\ Cardinality(Filtered) \in Nat
      /\ page \in Nat /\ PageSize \in Nat /\ PageSize > 0
  BY <1>0, FilteredIsFinite, SetsAre
<1>2. Cardinality(Filtered) > 0
  BY <1>1, FS_EmptySet
<1>3. first \in Nat /\ (page + 1) * PageSize = first + PageSize /\ (page = 0 => first = 0)
  BY <1>1
<1>4. first < Cardinality(Filtered)
  BY <1>2, <1>3 DEF BoardIInv, PageInv
<1>5. \A i \in Filtered : Rank(i) \notin first .. (page + 1) * PageSize - 1
  BY DEF Paged
<1> HIDE DEF first
<1>6. PICK i \in Filtered : Cardinality({x \in Filtered : x < i}) = first
  BY <1>1, <1>3, <1>4, RankExists
<1>7. Rank(i) = first
  BY <1>6 DEF Rank
<1> QED BY <1>1, <1>3, <1>5, <1>7

\* In every state of the page: the types; an item is published twice at the same time only
\* once it has been retried, or a retry crossed a status loop; a dialog outlasts its edits and
\* deletes; a page without rows was emptied by a list that got shorter (QueueView, useQueue).
THEOREM BoardCorrect == BoardSpec => []BoardInv
<1>1. BoardIInv => BoardInv
  <2> SUFFICES ASSUME BoardIInv PROVE BoardInv
    OBVIOUS
  <2>1. BoardTypeOK
    <3>1. BoardTypes
      BY DEF BoardIInv
    <3>2. \A j \in Jobs : /\ job[j].step \in Steps \cup {"none"} /\ job[j].call \in Calls
                         /\ job[j].todo \subseteq job[j].ids /\ job[j].ids \subseteq Items
      BY <3>1, JobIs DEF JobSet, JobFits
    <3> QED BY <3>1, <3>2 DEF BoardTypes, RowTypes, ReadTypes, PageTypes, BoardTypeOK
  <2> QED BY <2>1, OneAtATime, EmptyPage DEF BoardIInv, LoopInv, BoardInv
<1> QED BY <1>1, BoardInductive, PTL

\* A summary beside a row was read after that row, however its request, the loads of the list
\* and the changes on the server interleave (generationRef).
THEOREM SummariesStayFresh == BoardSpec => []SummariesAreFresh
<1>1. BoardIInv => SummariesAreFresh
  BY HeldIs DEF BoardIInv, AgeInv, KnownIsFresh, SummariesAreFresh
<1> QED BY <1>1, BoardInductive, PTL

\* No failed publish is forgotten: once the list shows the row and its summary is known, an item
\* whose last attempt failed is shown as failed, unless the failure left the version of the row
\* alone and came after the summary was read; and even then while the page was told of it and no
\* summary knows an attempt (syncFailuresFromBackend, getQueueHealth, _mark_attempt_failed).
THEOREM FailuresStayShown == BoardSpec => []FailuresAreShown
<1>1. BoardIInv => FailuresAreShown
  <2> SUFFICES ASSUME BoardIInv, NEW i \in Listed, row[i].last = "failed",
                      list[i].ver = row[i].ver, summary[i] # Unknown, PublishersOf(i) = {},
                      ~(/\ row[i].silent /\ summary[i].last # "failed"
                        /\ summary[i].last = "none" => i \notin told)
               PROVE  Health(i) \in {"error", "published"}
    BY DEF FailuresAreShown
  <2>1. i \in Items /\ list[i].st # "gone" /\ BoardTypes
    BY DEF Listed, BoardIInv
  <2>2. row[i].st # "gone" /\ row[i].ver \in Nat /\ summary[i].ver \in Nat
    BY <2>1 DEF BoardTypes, RowTypes, GoneIsZero, Rows, ReadTypes, Readings
  <2>3. i \notin publishing
    BY DEF BoardIInv, LoopInv, MarkersHavePublish
  <2>4. summary[i] \in Held(i)
    BY HeldIs
  <2>5. Failed(i)
    <3>1. CASE summary[i].last = "failed"
      BY <3>1 DEF Failed
    <3>2. CASE ~row[i].silent
      <4>1. summary[i].ver >= list[i].ver
        BY <2>4 DEF BoardIInv, AgeInv, KnownIsFresh
      <4>2. summary[i].ver <= row[i].ver
        BY <2>1, <2>2, <2>4 DEF BoardIInv, AgeInv, Ages
      <4>3. summary[i].ver = row[i].ver
        BY <2>2, <4>1, <4>2
      <4> QED BY <2>1, <2>2, <2>4, <3>2, <4>3 DEF BoardIInv, FailureInv, FailuresAreRead, Failed
    <3>3. CASE summary[i].last = "none" /\ i \in told
      BY <2>1, <2>2, <2>4, <3>3 DEF BoardIInv, FailureInv, ToldIsKnown, Failed
    <3> QED BY <3>1, <3>2, <3>3
  <2> QED BY <2>3, <2>5 DEF Health
<1> QED BY <1>1, BoardInductive, PTL

LEMMA AnswerEndsOne ==
    ASSUME BoardTypes, NEW j \in Jobs, Published(j), NEW i \in Items, i = Current(j)
    PROVE  j \in PublishersOf(i) /\ PublishersOf(i)' \subseteq PublishersOf(i) \ {j}
<1>1. PICK q : job' = [job EXCEPT ![j] = q] /\ q.todo = Rest(j)
  BY PublishedEffect
<1>2. i \in job[j].todo /\ job[j].step = "publish" /\ i \notin q.todo
  BY <1>1, PublishedEffect DEF Published, Rest
<1>3. job'[j] = q /\ \A k \in Jobs : k # j => job'[k] = job[k]
  BY <1>1, JobsAfter
<1> QED BY <1>2, <1>3 DEF PublishersOf

\* Only the answer to a publish takes a marker
LEMMA MarkersStay ==
    ASSUME BoardTypes, [BoardNext]_boardVars, \A j \in Jobs : ~Published(j)
    PROVE  publishing \subseteq publishing'
<1>1. CASE UNCHANGED boardVars
  BY <1>1 DEF boardVars
<1>2. ASSUME NEW S, PublishItems(S) PROVE publishing \subseteq publishing'
  BY <1>2 DEF PublishItems, Show, ops
<1>3. CASE Click
  <2>1. CASE \E k \in Items : Toggle(k) \/ PublishRow(k) \/ Retry(k)
    BY <2>1, <1>2 DEF Toggle, Select, ops, PublishRow, Retry
  <2>2. CASE ToggleAll \/ ClearSelection \/ NextPage \/ PreviousPage
               \/ \E f \in Filters : SetFilter(f)
    BY <2>2 DEF ToggleAll, ClearSelection, Select, NextPage, PreviousPage, Turn, SetFilter, ops
  <2>3. CASE OpenSchedule \/ OpenDelete \/ CloseSchedule \/ CancelDelete
    BY <2>3 DEF OpenSchedule, OpenDelete, CloseSchedule, CancelDelete, Show, ops
  <2>4. CASE PublishSelected
    BY <2>4, <1>2 DEF PublishSelected
  <2>5. CASE SaveSchedule \/ PublishFromDialog \/ ConfirmDelete
               \/ \E to \in {"draft", "queued"} : ChangeStatus(to)
    BY <2>5 DEF SaveSchedule, PublishFromDialog, ConfirmDelete, ChangeStatus, Quiet
  <2> QED BY <1>3, <2>1, <2>2, <2>3, <2>4, <2>5 DEF Click
<1>4. CASE Reload \/ AskSummary \/ ReadSummary \/ StoreSummary \/ SummaryFails
  BY <1>4 DEF Reload, AskSummary, ReadSummary, StoreSummary, SummaryFails, ops
<1>5. ASSUME NEW j \in Jobs, Serve(j) PROVE publishing \subseteq publishing'
  BY <1>5, ServeEffect DEF PageStays
<1>6. ASSUME NEW i \in Items, Foreign(i) PROVE publishing \subseteq publishing'
  BY <1>6, ForeignEffect DEF PageStays
<1>7. ASSUME NEW j \in Jobs, Continue(j) PROVE publishing \subseteq publishing'
  <2>1. CASE PublishEdited(j)
    BY <2>1 DEF PublishEdited, PublishStep
  <2>2. CASE Stopped(j) \/ NextEdit(j) \/ Edits(j) \/ Deletes(j) \/ Reloaded(j)
    BY <2>2 DEF Stopped, NextEdit, Edits, Deletes, Reloaded
  <2> QED BY <1>7, <2>1, <2>2 DEF Continue
<1> QED BY <1>1, <1>3, <1>4, <1>5, <1>6, <1>7 DEF BoardNext

\* The marker of an item stays until its publish is answered; it goes early only when two
\* publishes of the item were under way and the first was answered (publishItems, finally).
THEOREM MarkersLast == BoardSpec => MarkedUntilAnswered
<1> DEFINE Lasts == \A i \in publishing \ publishing' :
                        PublishersOf(i)' = {} \/ Cardinality(PublishersOf(i)) > 1
<1>1. BoardIInv /\ [BoardNext]_boardVars => Lasts
  <2> SUFFICES ASSUME BoardIInv, [BoardNext]_boardVars, NEW i \in publishing, i \notin publishing',
                      PublishersOf(i)' # {}
               PROVE  Cardinality(PublishersOf(i)) > 1
    OBVIOUS
  <2>0. BoardTypes /\ i \in Items
    BY DEF BoardIInv, BoardTypes, PageTypes
  <2>1. PICK j \in Jobs : Published(j)
    BY <2>0, MarkersStay
  <2>2. i = Current(j)
    BY <2>0, <2>1, PublishedEffect
  <2>3. j \in PublishersOf(i) /\ PublishersOf(i)' \subseteq PublishersOf(i) \ {j}
    BY <2>0, <2>1, <2>2, AnswerEndsOne
  <2>4. PICK k \in PublishersOf(i) : k # j
    BY <2>3
  <2>5. {j, k} \in SUBSET PublishersOf(i) /\ IsFiniteSet(PublishersOf(i))
    <3>1. PublishersOf(i) \in SUBSET Jobs
      BY DEF PublishersOf
    <3> QED BY <2>3, <3>1, SetsAre, FS_Subset
  <2>6. Cardinality({k} \cup {j}) = 2
    <3>1. IsFiniteSet({k}) /\ Cardinality({k}) = 1 /\ j \notin {k}
      BY <2>4, FS_Singleton
    <3>2. Cardinality({k} \cup {j}) = Cardinality({k}) + 1
      BY <3>1, FS_AddElement
    <3> QED BY <3>1, <3>2
  <2>7. {j, k} = {k} \cup {j}
    OBVIOUS
  <2> QED BY <2>5, <2>6, <2>7, FS_Subset, FS_CardinalityType
<1> QED BY <1>1, BoardInductive, PTL DEF BoardSpec, MarkedUntilAnswered

=============================================================================
