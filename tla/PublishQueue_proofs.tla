------------------------ MODULE PublishQueue_proofs ------------------------
(***************************************************************************)
(* Theorems about publishing, for any number of items, payloads, sessions,   *)
(* edits and crashes: the claim protocol (guards, numbers, ownership), the    *)
(* refinement of the attempt ledger, and what reaches the Telegram chat and    *)
(* the rows: posts and attempts match, a post goes out again within the window *)
(* only after a failure, nobody sends under a row lock, no attempt is left     *)
(* started without an owner, and every row is backed by its attempts.          *)
(***************************************************************************)
EXTENDS PublishQueue, WellFoundedInduction, TLAPS

\* A non-empty set of numbers up to n has a greatest one.
LEMMA HasMax ==
    ASSUME NEW n \in Nat, NEW S \in SUBSET (1..n), S # {}
    PROVE  \E x \in S : \A y \in S : y <= x
<1> DEFINE T == {n - x : x \in S}
<1>1. T \subseteq Nat /\ T # {}
  <2>1. \A x \in S : n - x \in Nat
    OBVIOUS
  <2>2. PICK x \in S : TRUE
    OBVIOUS
  <2> QED
    BY <2>1, <2>2
<1>2. PICK m \in T : \A k \in T : ~ (<<k, m>> \in OpToRel(<, Nat))
  <2> HIDE DEF T
  <2> QED
    BY <1>1, WFMin, NatLessThanWellFounded
<1>3. PICK x \in S : m = n - x
  OBVIOUS
<1>4. \A y \in S : y <= x
  <2> SUFFICES ASSUME NEW y \in S PROVE y <= x
    OBVIOUS
  <2>1. n - y \in T
    OBVIOUS
  <2>2. ~ (n - y < n - x)
    BY <1>1, <1>2, <1>3, <2>1 DEF OpToRel
  <2> QED
    BY <2>2
<1> QED
  BY <1>4

-----------------------------------------------------------------------------
(* The helper operators *)

\* With the numbers 1..n taken, the next attempt of an item gets n + 1.
LEMMA NextNumberFollows ==
    ASSUME NEW i, NEW n \in Nat, Numbers(i) = 1..n
    PROVE  NextNumber(i) = n + 1
<1>1. CASE n = 0
  BY <1>1 DEF NextNumber
<1>2. CASE n > 0
  <2>1. n \in Numbers(i) /\ \A m \in Numbers(i) : m <= n
    BY <1>2
  <2>2. \A k \in Numbers(i) : (\A m \in Numbers(i) : m <= k) => k = n
    BY <2>1
  <2>3. (CHOOSE k \in Numbers(i) : \A m \in Numbers(i) : m <= k) = n
    BY <2>1, <2>2
  <2> QED
    BY <2>1, <2>3 DEF NextNumber
<1> QED
  BY <1>1, <1>2

\* Newest returns one of the rows it is given, and NULL only when there is none.
LEMMA NewestChooses ==
    ASSUME TypeOK, AttemptsNumbered, NEW i \in Items, NEW as \in SUBSET AttemptsOf(i)
    PROVE  /\ as = {} => Newest(as) = Null
           /\ as # {} => Newest(as) \in as
           /\ Newest(as) \in Attempt \cup {Null}
           /\ Newest(as) = Null => as = {}
<1>1. as \subseteq Attempt
  BY DEF TypeOK, AttemptsOf
<1>2. CASE as = {}
  BY <1>2 DEF Newest
<1>3. CASE as # {}
  <2>1. PICK n \in Numbers(i) \cup {0} : Numbers(i) = 1..n
    BY DEF AttemptsNumbered
  <2>2. n \in Nat
    BY <2>1 DEF TypeOK, Numbers, AttemptsOf, Attempt
  <2> DEFINE nums == {a.num : a \in as}
  <2>3. nums \in SUBSET (1..n) /\ nums # {}
    BY <1>3, <2>1 DEF Numbers
  <2>4. PICK x \in nums : \A y \in nums : y <= x
    <3> HIDE DEF nums
    <3> QED
      BY <2>2, <2>3, HasMax
  <2>5. \E a \in as : \A b \in as : b.num <= a.num
    BY <2>4
  <2>6. Newest(as) \in as
    BY <1>3, <2>5 DEF Newest
  <2> QED
    BY <1>1, <1>3, <2>6, RowAssumption
<1> QED
  BY <1>2, <1>3

-----------------------------------------------------------------------------
(* Types *)

\* The part of the type invariant that belongs to the publisher sessions
SessionTypes ==
    /\ lock \in [Items -> Sessions \cup {Null}]
    /\ pc \in [Sessions -> PC]
    /\ cur \in [Sessions -> Items \cup {Null}]
    /\ todo \in [Sessions -> SUBSET Items]
    /\ phase \in [Sessions -> {"scheduled", "queued"}]
    /\ cache \in [Sessions -> [Items -> QueueItem \cup {Null}]]
    /\ seen \in [Sessions -> Seen]
    /\ err \in [Sessions -> Errors]
    /\ tries \in [Sessions -> Nat]

LEMMA NothingSeenType == NothingSeen \in Seen
BY DEF NothingSeen, Seen

\* Whichever way a session leaves an item, its variables keep their types.
LEMMA CloseTypes ==
    ASSUME SessionTypes, NEW s \in Sessions, Close(s)
    PROVE  SessionTypes'
BY NothingSeenType DEF SessionTypes, Close, Released, NoRows, PC, Errors

LEMMA NextInBatchTypes ==
    ASSUME SessionTypes, NEW s \in Sessions, NextInBatch(s),
           lock' = lock \/ lock' = Released(s)
    PROVE  SessionTypes'
<1>1. cache' \in [Sessions -> [Items -> QueueItem \cup {Null}]]
  BY DEF SessionTypes, NextInBatch
<1> QED
  BY <1>1, NothingSeenType DEF SessionTypes, NextInBatch, Released, PC, Errors

LEMMA RaiseTypes ==
    ASSUME SessionTypes, NEW s \in Sessions, NEW e, Raise(s, e)
    PROVE  SessionTypes'
<1>1. CASE NextInBatch(s) /\ lock' = Released(s)
  BY <1>1, NextInBatchTypes
<1>2. CASE RunAgain(s)
  BY <1>2, NothingSeenType DEF SessionTypes, RunAgain, Released, NoRows, PC, Errors
<1>3. CASE Close(s)
  BY <1>3, CloseTypes
<1> QED
  BY <1>1, <1>2, <1>3 DEF Raise

\* The part that belongs to the tables, the requests and the environment
OtherTypes ==
    /\ queue \in [Items -> QueueItem \cup {Null}]
    /\ created \in Nat
    /\ attempts \subseteq Attempt
    /\ now \in Nat
    /\ edit \in [Editors -> Edits]
    /\ delivered \subseteq Post
    /\ edits \in Nat /\ crashes \in Nat

LEMMA TypesSplit ==
    /\ TypeOK <=> SessionTypes /\ OtherTypes
    /\ TypeOK' <=> SessionTypes' /\ OtherTypes'
BY DEF TypeOK, SessionTypes, OtherTypes

LEMMA LockedItem ==
    ASSUME NEW s \in Sessions, TypeOK, ClaimInv, pc[s] \notin {"idle", "list", "next"}
    PROVE  cur[s] \in Items /\ cur[s] # Null
BY PublishAssumption DEF ClaimInv, IdsHandedOut, TypeOK

\* A step of a publisher session keeps the types of the sessions.
LEMMA SessionStepTypes ==
    ASSUME TypeOK, ClaimInv, NEW s \in Sessions, Start(s) \/ Publish(s) \/ Crash(s)
    PROVE  SessionTypes'
<1> USE TypesSplit
<1>1. CASE BeatTick(s)
  BY <1>1 DEF BeatTick, SessionTypes, PC
<1>2. ASSUME NEW i \in Items, StartTask(s, i) PROVE SessionTypes'
  BY <1>2 DEF StartTask, SessionTypes, PC
<1>3. ASSUME NEW i \in Items, StartCall(s, i) PROVE SessionTypes'
  BY <1>3 DEF StartCall, SessionTypes, OtherTypes, PC
<1>4. CASE ListItems(s)
  <2>1. PICK S \in FirstPage(phase[s]) :
            /\ todo' = [todo EXCEPT ![s] = S]
            /\ cache' = [cache EXCEPT ![s] =
                             [i \in Items |-> IF i \in S THEN queue[i] ELSE Null]]
    BY <1>4 DEF ListItems
  <2>2. S \in SUBSET Items
    BY DEF FirstPage, Eligible
  <2> QED
    BY <1>4, <2>1, <2>2 DEF ListItems, SessionTypes, OtherTypes, PC
<1>5. CASE TakeItem(s)
  <2>1. PICK i \in todo[s] : todo' = [todo EXCEPT ![s] = @ \ {i}] /\ cur' = [cur EXCEPT ![s] = i]
    BY <1>5 DEF TakeItem
  <2> QED
    BY <1>5, <2>1 DEF TakeItem, SessionTypes, PC
<1>6. CASE PageDone(s)
  BY <1>6, CloseTypes DEF PageDone, SessionTypes, PC
<1>7. CASE LockItem(s)
  <2> DEFINE guards == ActiveGuards(cur[s], Loaded(s, cur[s]).payload, now)
  <2>1. cur[s] \in Items /\ pc[s] = "lock"
    BY <1>7, LockedItem DEF LockItem
  <2>2. Newest(guards) \in Attempt \cup {Null}
    BY <2>1, NewestChooses DEF ActiveGuards, ClaimInv
  <2>3. PICK n \in Numbers(cur[s]) \cup {0} : Numbers(cur[s]) = 1..n
    BY <2>1 DEF ClaimInv, AttemptsNumbered
  <2>4. NextNumber(cur[s]) \in Nat
    BY <2>3, NextNumberFollows DEF OtherTypes, Numbers, AttemptsOf, Attempt
  <2>5. Loaded(s, cur[s]) \in QueueItem \cup {Null}
    BY <2>1 DEF Loaded, SessionTypes, OtherTypes
  <2>6. [block |-> Newest(guards), num |-> NextNumber(cur[s]), at |-> now] \in Seen
    <3> HIDE DEF guards
    <3> QED
      BY <2>2, <2>4 DEF Seen, OtherTypes
  <2>7. /\ lock' = [lock EXCEPT ![cur[s]] = s]
        /\ cache' = [cache EXCEPT ![s][cur[s]] = Loaded(s, cur[s])]
        /\ seen' = [seen EXCEPT ![s] =
               [block |-> Newest(guards), num |-> NextNumber(cur[s]), at |-> now]]
        /\ pc' = [pc EXCEPT ![s] = "guard"]
        /\ UNCHANGED <<cur, todo, phase, err, tries>>
    BY <1>7 DEF LockItem
  <2> HIDE DEF guards
  <2> QED
    BY <2>1, <2>5, <2>6, <2>7 DEF SessionTypes, PC
<1>8. CASE ItemMissing(s)
  BY <1>8, CloseTypes DEF ItemMissing
<1>9. CASE ClaimAttempt(s)
  BY <1>9 DEF ClaimAttempt, Released, SessionTypes, PC
<1>10. CASE Suppress(s)
  BY <1>10, CloseTypes, NextInBatchTypes DEF Suppress
<1>11. CASE HealDrift(s)
  BY <1>11, RaiseTypes DEF HealDrift
<1>12. CASE RefuseToSend(s)
  BY <1>12 DEF RefuseToSend, Fails, SessionTypes, PC, Errors
<1>13. CASE TelegramAccepts(s)
  BY <1>13 DEF TelegramAccepts, SessionTypes, PC
<1>14. CASE TelegramFails(s)
  BY <1>14 DEF TelegramFails, Fails, SessionTypes, PC, Errors
<1>15. CASE RecordSuccess(s)
  BY <1>15, CloseTypes, NextInBatchTypes DEF RecordSuccess
<1>16. CASE RecordFailure(s)
  <2>1. CASE Raise(s, err[s])
    BY <2>1, RaiseTypes
  <2>2. CASE /\ pc' = [pc EXCEPT ![s] = "deadletter"]
             /\ UNCHANGED <<lock, cur, todo, phase, cache, seen, err, tries>>
    BY <2>2 DEF SessionTypes, PC
  <2> QED
    BY <1>16, <2>1, <2>2 DEF RecordFailure
<1>17. CASE MarkItemFailed(s)
  BY <1>17, RaiseTypes DEF MarkItemFailed
<1>18. CASE ItemVanished(s) \/ AbortVictim(s) \/ Crash(s)
  BY <1>18, CloseTypes DEF ItemVanished, AbortVictim, Crash
<1> QED
  BY <1>1, <1>2, <1>3, <1>4, <1>5, <1>6, <1>7, <1>8, <1>9, <1>10, <1>11, <1>12, <1>13,
     <1>14, <1>15, <1>16, <1>17, <1>18 DEF Start, Publish

\* SetOutcome changes nothing but the status and the dead-letter mark of an attempt.
LEMMA SetOutcomeTypes ==
    ASSUME attempts \subseteq Attempt, NEW s \in Sessions, NEW dead \in BOOLEAN,
           NEW status \in {"started", "succeeded", "failed"}, SetOutcome(s, status, dead)
    PROVE  attempts' \subseteq Attempt
BY DEF SetOutcome, Attempt

\* What a PATCH writes is a row again.
LEMMA UpdatedTypes ==
    ASSUME NEW base \in QueueItem, NEW row \in QueueItem,
           NEW status \in Settable \cup {Null}, NEW payload \in Payloads \cup {Null},
           NEW at \in Times \cup {Null}
    PROVE  Flushed(base, Updated(base, status, payload, at), row) \in QueueItem
<1>1. Updated(base, status, payload, at) \in QueueItem
  BY PublishAssumption DEF Updated, QueueItem, QueueStatus, Settable, Times
<1> QED
  BY <1>1 DEF Flushed, QueueItem

\* A step of a publisher session keeps the types of the rest.
LEMMA SessionStepOtherTypes ==
    ASSUME TypeOK, ClaimInv, NEW s \in Sessions, Start(s) \/ Publish(s) \/ Crash(s)
    PROVE  OtherTypes'
<1> USE TypesSplit
<1>1. CASE UNCHANGED <<rows, now, edit, delivered, bounds>>
  BY <1>1 DEF OtherTypes, rows, bounds
<1>2. CASE ClaimAttempt(s)
  <2>1. cur[s] \in Items /\ Copy(s) \in QueueItem
    <3>1. pc[s] = "guard" /\ cur[s] \in Items
      BY <1>2, LockedItem DEF ClaimAttempt
    <3>2. Copy(s) # Null
      BY <3>1 DEF ClaimInv, GuardIsCurrent, LookupIsCurrent
    <3> QED
      BY <3>1, <3>2 DEF SessionTypes, Copy
  <2>2. [item |-> cur[s], num |-> seen[s].num, status |-> "started",
         hash |-> Copy(s).payload, at |-> seen[s].at, dead |-> FALSE] \in Attempt
    BY <2>1 DEF Attempt, QueueItem, SessionTypes, Seen
  <2> QED
    BY <1>2, <2>2 DEF ClaimAttempt, OtherTypes, bounds
<1>3. CASE HealDrift(s)
  <2>1. cur[s] \in Items /\ Live(cur[s]) /\ seen[s].block \in Attempt
    BY <1>3, LockedItem DEF HealDrift, ClaimInv, GuardIsCurrent, LookupIsCurrent, SessionTypes, Seen
  <2>2. queue[cur[s]] \in QueueItem /\ seen[s].block.num \in Nat
    BY <2>1 DEF OtherTypes, Live, Attempt
  <2>3. [queue[cur[s]] EXCEPT !.status = "published",
            !.msg = IF Copy(s).msg = Null THEN seen[s].block.num ELSE queue[cur[s]].msg]
        \in QueueItem
    BY <2>2 DEF QueueItem, QueueStatus
  <2> QED
    BY <1>3, <2>1, <2>3 DEF HealDrift, OtherTypes, bounds
<1>4. CASE TelegramAccepts(s) \/ TelegramFails(s)
  <2>1. pc[s] = "claimed" /\ delivered' \in {delivered, delivered \cup {PostOf(s)}}
    BY <1>4 DEF TelegramAccepts, TelegramFails, Sendable
  <2>2. cur[s] \in Items /\ Copy(s) \in QueueItem
    BY <2>1, LockedItem DEF ClaimInv, ClaimsAreOwned, Sending, SessionTypes, Copy
  <2>3. PostOf(s) \in Post
    BY <2>2 DEF PostOf, Post, SessionTypes, Seen, QueueItem
  <2> QED
    BY <1>4, <2>1, <2>3 DEF TelegramAccepts, TelegramFails, Fails, OtherTypes, rows, bounds
<1>5. CASE RecordSuccess(s)
  <2>1. cur[s] \in Items /\ Live(cur[s]) /\ seen[s].num \in Nat
    BY <1>5, LockedItem DEF RecordSuccess, SessionTypes, Seen
  <2>2. [queue[cur[s]] EXCEPT !.status = "published", !.msg = seen[s].num] \in QueueItem
    BY <2>1 DEF OtherTypes, Live, QueueItem, QueueStatus
  <2>3. attempts' \subseteq Attempt
    BY <1>5, SetOutcomeTypes DEF RecordSuccess, OtherTypes
  <2> QED
    BY <1>5, <2>1, <2>2, <2>3 DEF RecordSuccess, OtherTypes, bounds
<1>6. CASE RecordFailure(s)
  <2>1. Terminal(s) \in BOOLEAN
    BY DEF Terminal, FinalExecution
  <2>2. attempts' \subseteq Attempt
    BY <1>6, <2>1, SetOutcomeTypes DEF RecordFailure, OtherTypes
  <2> QED
    BY <1>6, <2>2 DEF RecordFailure, OtherTypes, bounds
<1>7. CASE MarkItemFailed(s)
  <2>1. CASE UNCHANGED queue
    BY <1>7, <2>1 DEF MarkItemFailed, OtherTypes, bounds
  <2>2. CASE Live(cur[s]) /\ queue' = [queue EXCEPT ![cur[s]].status = "failed"]
    <3>1. cur[s] \in Items
      BY <1>7, LockedItem DEF MarkItemFailed
    <3>2. [queue[cur[s]] EXCEPT !.status = "failed"] \in QueueItem
      BY <2>2, <3>1 DEF OtherTypes, Live, QueueItem, QueueStatus
    <3> QED
      BY <1>7, <2>2, <3>1, <3>2 DEF MarkItemFailed, OtherTypes, bounds
  <2> QED
    BY <1>7, <2>1, <2>2 DEF MarkItemFailed
<1>8. CASE Crash(s)
  BY <1>8 DEF Crash, OtherTypes, rows
<1>9. CASE RefuseToSend(s)
  BY <1>9 DEF RefuseToSend, Fails, OtherTypes, rows, bounds
<1> QED
  BY <1>1, <1>2, <1>3, <1>4, <1>5, <1>6, <1>7, <1>8, <1>9
  DEF Start, Publish, BeatTick, StartTask, StartCall, ListItems, TakeItem, PageDone, LockItem,
      ItemMissing, Suppress, ItemVanished, AbortVictim

\* A request, and the clock, keep all types.
LEMMA EnvironmentStepTypes ==
    ASSUME TypeOK,
           \/ \E e \in Editors : Edit(e)
           \/ \E i \in Items : DeleteItem(i)
           \/ CreateItem \/ Tick
    PROVE  TypeOK'
<1> USE TypesSplit
<1>1. SessionTypes' /\ UNCHANGED <<session, lock>>
  BY DEF SessionTypes, session, Edit, CommitUpdate, UpdateRejected, LoadForUpdate, DeleteItem,
         CreateItem, Tick
<1>2. ASSUME NEW e \in Editors, Edit(e) PROVE OtherTypes'
  <2>1. CASE CommitUpdate(e)
    <3> DEFINE i == edit[e].item
    <3>1. i \in Items /\ queue[i] \in QueueItem /\ edit[e].row \in QueueItem
      BY <2>1 DEF CommitUpdate, Live, OtherTypes, Edits
    <3>2. PICK row \in QueueItem : queue' = [queue EXCEPT ![i] = row]
      BY <2>1, <3>1, UpdatedTypes DEF CommitUpdate
    <3> HIDE DEF i
    <3> QED
      BY <2>1, <3>1, <3>2 DEF CommitUpdate, OtherTypes, Edits, bounds
  <2>2. CASE UpdateRejected(e)
    BY <2>2 DEF UpdateRejected, OtherTypes, Edits, rows, bounds
  <2>3. ASSUME NEW i \in Items, LoadForUpdate(e, i) PROVE OtherTypes'
    <3>1. [item |-> i, row |-> queue[i]] \in Edits
      BY <2>3 DEF LoadForUpdate, Live, OtherTypes, Edits
    <3>2. edits + 1 \in Nat
      BY DEF OtherTypes
    <3> QED
      BY <2>3, <3>1, <3>2 DEF LoadForUpdate, OtherTypes, rows
  <2> QED
    BY <1>2, <2>1, <2>2, <2>3 DEF Edit
<1>3. ASSUME NEW i \in Items, DeleteItem(i) PROVE OtherTypes'
  <2>1. attempts' \subseteq Attempt /\ edits' \in Nat
    BY <1>3 DEF DeleteItem, OtherTypes
  <2>2. queue' \in [Items -> QueueItem \cup {Null}]
    BY <1>3 DEF DeleteItem, OtherTypes
  <2> QED
    BY <1>3, <2>1, <2>2 DEF DeleteItem, OtherTypes
<1>4. CASE CreateItem
  <2>1. PICK status \in Settable, payload \in Payloads, t \in Times :
           queue' = [queue EXCEPT ![created + 1] =
               [status |-> status, payload |-> payload,
                at |-> IF status = "scheduled" THEN t ELSE Null, msg |-> Null]]
    BY <1>4 DEF CreateItem
  <2>2. [status |-> status, payload |-> payload,
         at |-> IF status = "scheduled" THEN t ELSE Null, msg |-> Null] \in QueueItem
    BY PublishAssumption DEF QueueItem, QueueStatus, Settable, Times
  <2>3. created' \in Nat
    BY <1>4 DEF CreateItem, OtherTypes
  <2>4. queue' \in [Items -> QueueItem \cup {Null}]
    BY <2>1, <2>2 DEF OtherTypes
  <2> QED
    BY <1>1, <1>4, <2>3, <2>4 DEF CreateItem, OtherTypes, bounds
<1>5. CASE Tick
  <2>1. now' \in Nat
    BY <1>5 DEF Tick, OtherTypes
  <2> QED
    BY <1>1, <1>5, <2>1 DEF Tick, OtherTypes, rows, bounds
<1> QED
  BY <1>1, <1>2, <1>3, <1>4, <1>5

-----------------------------------------------------------------------------
(* Claims *)

\* A step of session s leaves the other sessions, and the locks they hold, alone.
OthersKeep(s) ==
    /\ \A t \in Sessions \ {s} :
           /\ pc'[t] = pc[t] /\ cur'[t] = cur[t] /\ todo'[t] = todo[t]
           /\ cache'[t] = cache[t] /\ seen'[t] = seen[t]
    /\ \A i \in Items : lock[i] \notin {s, Null} => lock'[i] = lock[i]

\* Session s neither holds a lookup nor a claim that it did not have before the step.
Continues(s) ==
    /\ pc'[s] # "guard"
    /\ pc'[s] \in Sending =>
           /\ pc[s] \in Sending
           /\ cur'[s] = cur[s] /\ seen'[s] = seen[s] /\ cache'[s] = cache[s]
    /\ pc'[s] \notin {"idle", "list", "next"} => cur'[s] \in 1..created
    /\ todo'[s] \subseteq 1..created

LEMMA CloseContinues ==
    ASSUME SessionTypes, NEW s \in Sessions, Close(s)
    PROVE  OthersKeep(s) /\ Continues(s) /\ pc'[s] \notin Sending
BY DEF SessionTypes, Close, Released, OthersKeep, Continues, Sending

LEMMA NextInBatchContinues ==
    ASSUME SessionTypes, NEW s \in Sessions, todo[s] \subseteq 1..created, NextInBatch(s),
           lock' = lock \/ lock' = Released(s)
    PROVE  OthersKeep(s) /\ Continues(s) /\ pc'[s] \notin Sending
BY DEF SessionTypes, NextInBatch, Released, OthersKeep, Continues, Sending

LEMMA RaiseContinues ==
    ASSUME SessionTypes, NEW s \in Sessions, NEW e, todo[s] \subseteq 1..created,
           cur[s] \in 1..created, Raise(s, e)
    PROVE  OthersKeep(s) /\ Continues(s) /\ pc'[s] \notin Sending
<1>1. CASE NextInBatch(s) /\ lock' = Released(s)
  BY <1>1, NextInBatchContinues
<1>2. CASE RunAgain(s)
  BY <1>2 DEF SessionTypes, RunAgain, Released, OthersKeep, Continues, Sending
<1>3. CASE Close(s)
  BY <1>3, CloseContinues
<1> QED
  BY <1>1, <1>2, <1>3 DEF Raise

\* Whatever happened to the tables, item i is still there with the attempts it had, and no
\* attempt of it has begun to guard.
KeepsGuards(i) ==
    /\ Live(i)' /\ Numbers(i)' = Numbers(i)
    /\ \A a \in AttemptsOf(i)' : Guarding(a) =>
           \E b \in AttemptsOf(i) : Guarding(b) /\ b.hash = a.hash /\ b.at = a.at

LEMMA LookupKept ==
    ASSUME TypeOK, TypeOK', ClaimInv, NEW t \in Sessions, pc[t] = "guard",
           cur'[t] = cur[t], seen'[t] = seen[t], cache'[t] = cache[t],
           lock'[cur[t]] = t, now <= now', KeepsGuards(cur[t])
    PROVE  LookupIsCurrent(t)'
<1>1. LookupIsCurrent(t) /\ Copy(t)' = Copy(t)
  BY DEF ClaimInv, GuardIsCurrent, Copy
<1>2. seen[t].at <= now'
  BY <1>1 DEF LookupIsCurrent, TypeOK, Seen
<1>3. Numbers(cur[t])' = 1..(seen'[t].num - 1)
  BY <1>1 DEF LookupIsCurrent, KeepsGuards
<1>4. ASSUME seen'[t].block = Null, NEW a \in AttemptsOf(cur[t])',
             a.hash = Copy(t).payload, Guarding(a)
      PROVE  a.at + Window <= seen[t].at
  BY <1>1, <1>4 DEF LookupIsCurrent, KeepsGuards
<1> QED
  BY <1>1, <1>2, <1>3, <1>4 DEF LookupIsCurrent, KeepsGuards

\* The step neither adds nor removes a row, and no attempt changes.
QuietTables ==
    /\ attempts' = attempts /\ created' = created /\ now' = now
    /\ \A i \in Items : Live(i)' <=> Live(i)

\* Under a step of s that keeps the guards of the items locked by others, their lookups
\* stay current.
LEMMA OtherLookupsKept ==
    ASSUME TypeOK, TypeOK', ClaimInv, NEW s \in Sessions, OthersKeep(s), now' = now,
           \A i \in Items : lock[i] \notin {s, Null} /\ Live(i) => KeepsGuards(i)
    PROVE  \A t \in Sessions \ {s} : pc'[t] = "guard" => LookupIsCurrent(t)'
<1> SUFFICES ASSUME NEW t \in Sessions \ {s}, pc'[t] = "guard"
             PROVE  LookupIsCurrent(t)'
  OBVIOUS
<1>1. /\ pc[t] = "guard"
      /\ cur'[t] = cur[t] /\ seen'[t] = seen[t] /\ cache'[t] = cache[t]
  BY DEF OthersKeep
<1>2. cur[t] \in Items /\ lock[cur[t]] = t /\ Live(cur[t])
  BY <1>1, LockedItem DEF ClaimInv, GuardIsCurrent, LookupIsCurrent
<1>3. lock'[cur[t]] = t /\ KeepsGuards(cur[t])
  BY <1>2, PublishAssumption DEF OthersKeep
<1>4. now <= now'
  BY DEF TypeOK
<1> QED
  BY <1>1, <1>3, <1>4, LookupKept

LEMMA QuietKeepsGuards ==
    ASSUME QuietTables, NEW i \in Items, Live(i)
    PROVE  KeepsGuards(i)
BY DEF QuietTables, KeepsGuards, Numbers, AttemptsOf

LEMMA QuietStep ==
    ASSUME TypeOK, TypeOK', ClaimInv, NEW s \in Sessions,
           OthersKeep(s), Continues(s), QuietTables
    PROVE  ClaimInv'
<1>1. GuardWindowsDisjoint' /\ AttemptsNumbered'
  BY DEF ClaimInv, QuietTables, GuardWindowsDisjoint, AttemptsNumbered, Numbers, AttemptsOf
<1>2. GuardIsCurrent'
  BY OtherLookupsKept, QuietKeepsGuards DEF GuardIsCurrent, QuietTables, Continues
<1>3. ClaimsAreOwned'
  <2>1. ASSUME NEW t \in Sessions, pc'[t] \in Sending
        PROVE  /\ pc[t] \in Sending
               /\ cur'[t] = cur[t] /\ seen'[t] = seen[t] /\ Copy(t)' = Copy(t)
    BY <2>1 DEF Continues, OthersKeep, Copy
  <2>2. ASSUME NEW t \in Sessions, pc[t] \in Sending PROVE cur[t] \in Items
    BY <2>2, LockedItem DEF Sending
  <2> QED
    BY <2>1, <2>2 DEF ClaimInv, ClaimsAreOwned, QuietTables, Numbers, AttemptsOf
<1>4. IdsHandedOut'
  BY DEF ClaimInv, IdsHandedOut, QuietTables, OthersKeep, Continues, TypeOK, Attempt
<1> QED
  BY <1>1, <1>2, <1>3, <1>4 DEF ClaimInv

\* The lookup under the lock: what it sees is so, and stays so while the lock is held.
LEMMA LockItemKeepsClaims ==
    ASSUME TypeOK, TypeOK', ClaimInv, NEW s \in Sessions, LockItem(s)
    PROVE  ClaimInv'
<1> DEFINE i == cur[s]
           guards == ActiveGuards(i, Loaded(s, i).payload, now)
<1>1. i \in Items /\ Live(i) /\ pc[s] = "lock" /\ i \in 1..created
  BY LockedItem DEF LockItem, ClaimInv, IdsHandedOut
<1>2. QuietTables /\ OthersKeep(s)
  BY <1>1 DEF LockItem, MayLock, QuietTables, OthersKeep, rows, TypeOK, Live
<1>3. /\ cur' = cur /\ todo' = todo /\ lock'[i] = s /\ pc'[s] = "guard"
      /\ Copy(s)' = Loaded(s, i)
      /\ seen'[s] = [block |-> Newest(guards), num |-> NextNumber(i), at |-> now]
  BY <1>1 DEF LockItem, Copy, TypeOK
<1>4. LookupIsCurrent(s)'
  <2>1. PICK n \in Numbers(i) \cup {0} : Numbers(i) = 1..n
    BY <1>1 DEF ClaimInv, AttemptsNumbered
  <2>2. n \in Nat
    BY <2>1 DEF TypeOK, Numbers, AttemptsOf, Attempt
  <2>3. NextNumber(i) = n + 1
    BY <2>1, <2>2, NextNumberFollows
  <2>4. seen'[s].num > 0 /\ Numbers(cur[s])' = 1..(seen'[s].num - 1)
    BY <1>2, <1>3, <2>1, <2>2, <2>3 DEF QuietTables, Numbers, AttemptsOf
  <2>5. Newest(guards) = Null => guards = {}
    BY <1>1, NewestChooses DEF ActiveGuards, ClaimInv
  <2>6. ASSUME guards = {}, NEW a \in AttemptsOf(i), a.hash = Loaded(s, i).payload, Guarding(a)
        PROVE  a.at + Window <= now
    BY <2>6, PublishAssumption DEF ActiveGuards, AttemptsOf, TypeOK, Attempt
  <2>7. Loaded(s, i) # Null /\ Live(i)'
    BY <1>1, <1>2, <1>3 DEF Loaded, Live, QuietTables
  <2>8. AttemptsOf(cur[s])' = AttemptsOf(i) /\ now' = now /\ now <= now
    BY <1>2, <1>3 DEF QuietTables, AttemptsOf, TypeOK
  <2> HIDE DEF guards
  <2> QED
    BY <1>3, <2>4, <2>5, <2>6, <2>7, <2>8 DEF LookupIsCurrent
<1>5. GuardIsCurrent'
  BY <1>2, <1>4, OtherLookupsKept, QuietKeepsGuards DEF GuardIsCurrent, QuietTables
<1>6. GuardWindowsDisjoint' /\ AttemptsNumbered'
  BY <1>2 DEF ClaimInv, QuietTables, GuardWindowsDisjoint, AttemptsNumbered, Numbers, AttemptsOf
<1>7. ClaimsAreOwned'
  <2>1. ASSUME NEW t \in Sessions, pc'[t] \in Sending
        PROVE  /\ t # s /\ pc[t] \in Sending /\ cur[t] \in Items
               /\ cur'[t] = cur[t] /\ seen'[t] = seen[t] /\ Copy(t)' = Copy(t)
    BY <1>2, <1>3, <2>1, LockedItem DEF OthersKeep, Copy, Sending
  <2> QED
    BY <1>2, <2>1 DEF ClaimInv, ClaimsAreOwned, QuietTables, Numbers, AttemptsOf
<1>8. IdsHandedOut'
  BY <1>1, <1>2, <1>3 DEF ClaimInv, IdsHandedOut, QuietTables, OthersKeep, TypeOK, Attempt
<1> QED
  BY <1>5, <1>6, <1>7, <1>8 DEF ClaimInv

\* The insert of the started attempt: the lookup is still current, so it gets the next number
\* and starts after every guard of its payload has expired.
LEMMA ClaimAttemptKeepsClaims ==
    ASSUME TypeOK, TypeOK', ClaimInv, NEW s \in Sessions, ClaimAttempt(s)
    PROVE  ClaimInv'
<1> DEFINE i == cur[s]
           new == [item |-> i, num |-> seen[s].num, status |-> "started",
                   hash |-> Copy(s).payload, at |-> seen[s].at, dead |-> FALSE]
<1>1. i \in Items /\ pc[s] = "guard" /\ seen[s].block = Null
  BY LockedItem DEF ClaimAttempt
<1>2. LookupIsCurrent(s) /\ lock[i] = s /\ Live(i)
  BY <1>1 DEF ClaimInv, GuardIsCurrent, LookupIsCurrent
<1>3. /\ attempts' = attempts \cup {new}
      /\ UNCHANGED <<queue, created, now, cur, todo, cache, seen>>
      /\ pc' = [pc EXCEPT ![s] = "claimed"] /\ lock' = Released(s)
  BY DEF ClaimAttempt
<1>4. OthersKeep(s)
  BY <1>3 DEF OthersKeep, Released, TypeOK
<1>5. PICK n \in Nat : seen[s].num = n + 1 /\ Numbers(i) = 1..n
  <2>1. seen[s].num \in Nat /\ seen[s].num > 0 /\ Numbers(i) = 1..(seen[s].num - 1)
    BY <1>2 DEF LookupIsCurrent, TypeOK, Seen
  <2> QED
    BY <2>1
<1>6. /\ Numbers(i)' = Numbers(i) \cup {n + 1}
      /\ \A j \in Items \ {i} : AttemptsOf(j)' = AttemptsOf(j) /\ Numbers(j)' = Numbers(j)
  <2>1. new.item = i /\ new.num = n + 1
    BY <1>5
  <2> HIDE DEF new
  <2>2. AttemptsOf(i)' = AttemptsOf(i) \cup {new}
    BY <1>3, <2>1 DEF AttemptsOf
  <2>3. Numbers(i)' = Numbers(i) \cup {n + 1}
    BY <2>1, <2>2 DEF Numbers
  <2>4. \A j \in Items \ {i} : AttemptsOf(j)' = AttemptsOf(j)
    BY <1>3, <2>1 DEF AttemptsOf
  <2> QED
    BY <2>3, <2>4 DEF Numbers
<1>7. \A a \in attempts : a.item = i => a.num \in 1..n
  BY <1>5 DEF Numbers, AttemptsOf
<1>8. GuardWindowsDisjoint'
  <2>1. ASSUME NEW a \in attempts, a.item = i, a.hash = new.hash, Guarding(a)
        PROVE  a.at + Window <= new.at
    BY <1>1, <1>2, <2>1 DEF LookupIsCurrent, AttemptsOf
  <2> HIDE DEF new
  <2>2. new.item = i
    BY DEF new
  <2> QED
    BY <1>3, <2>1, <2>2 DEF ClaimInv, GuardWindowsDisjoint, Guarding
<1>9. AttemptsNumbered'
  <2>1. ASSUME NEW a \in attempts', NEW b \in attempts', a.item = b.item, a.num = b.num
        PROVE  a = b
    <3>1. new.item = i /\ new.num = n + 1 /\ n + 1 \notin 1..n
      BY <1>5
    <3> HIDE DEF new
    <3> QED
      BY <1>3, <1>7, <2>1, <3>1 DEF ClaimInv, AttemptsNumbered
  <2>2. Numbers(i)' = 1..(n + 1) /\ n + 1 \in Numbers(i)'
    BY <1>5, <1>6
  <2>3. ASSUME NEW j \in Items PROVE \E k \in Numbers(j)' \cup {0} : Numbers(j)' = 1..k
    <3>1. CASE j = i
      BY <1>3, <2>2, <3>1 DEF Numbers, AttemptsOf
    <3>2. CASE j # i
      BY <1>6, <3>2 DEF ClaimInv, AttemptsNumbered
    <3> QED
      BY <3>1, <3>2
  <2> QED
    BY <2>1, <2>3 DEF AttemptsNumbered
<1>10. GuardIsCurrent'
  <2>1. \A j \in Items : lock[j] \notin {s, Null} /\ Live(j) => KeepsGuards(j)
    BY <1>2, <1>3, <1>6 DEF KeepsGuards, Live
  <2>2. pc'[s] # "guard"
    BY <1>3 DEF TypeOK
  <2> QED
    BY <1>3, <1>4, <2>1, <2>2, OtherLookupsKept DEF GuardIsCurrent
<1>11. ClaimsAreOwned'
  <2>1. /\ Copy(s)' # Null /\ seen'[s].num \in Numbers(cur[s])'
        /\ \A a \in AttemptsOf(cur[s])' : a.num = seen'[s].num => a.status = "started"
    BY <1>2, <1>3, <1>5, <1>6, <1>7 DEF LookupIsCurrent, Copy, AttemptsOf
  <2>2. ASSUME NEW t \in Sessions \ {s}, pc'[t] \in Sending
        PROVE  /\ pc[t] \in Sending /\ cur[t] \in Items /\ Copy(t)' = Copy(t)
               /\ cur[t] = i => seen[t].num \in 1..n
    <3>1. pc[t] \in Sending /\ cur[t] \in Items /\ Copy(t)' = Copy(t)
      BY <1>3, <2>2, LockedItem DEF Copy, Sending, TypeOK
    <3>2. cur[t] = i => seen[t].num \in Numbers(i)
      BY <1>2, <3>1 DEF ClaimInv, ClaimsAreOwned
    <3> QED
      BY <1>5, <3>1, <3>2
  <2>3. ASSUME NEW t \in Sessions \ {s}, pc'[t] \in Sending
        PROVE  /\ Copy(t)' # Null
               /\ \A a \in AttemptsOf(cur[t])' : a.num = seen'[t].num => a.status = "started"
               /\ Live(cur[t])' => seen'[t].num \in Numbers(cur[t])'
    <3>1. CASE cur[t] = i
      BY <1>2, <1>3, <1>5, <1>6, <2>2, <2>3, <3>1
      DEF ClaimInv, ClaimsAreOwned, AttemptsOf
    <3>2. CASE cur[t] # i
      BY <1>3, <1>6, <2>2, <2>3, <3>2 DEF ClaimInv, ClaimsAreOwned, AttemptsOf, Numbers, Live
    <3> QED
      BY <3>1, <3>2
  <2>4. ASSUME NEW t \in Sessions, NEW u \in Sessions, t # u,
               pc'[t] \in Sending, pc'[u] \in Sending, cur'[t] = cur'[u]
        PROVE  seen'[t].num # seen'[u].num
    <3>1. CASE t # s /\ u # s
      BY <1>3, <2>2, <2>4, <3>1 DEF ClaimInv, ClaimsAreOwned
    <3>2. CASE t = s \/ u = s
      BY <1>3, <1>5, <2>2, <2>4, <3>2
    <3> QED
      BY <3>1, <3>2
  <2> QED
    BY <2>1, <2>3, <2>4 DEF ClaimsAreOwned
<1>12. IdsHandedOut'
  <2>1. i \in 1..created /\ seen[s].at <= now
    BY <1>1, <1>2 DEF ClaimInv, IdsHandedOut, LookupIsCurrent
  <2>2. \A a \in attempts' : Live(a.item)' /\ a.at <= now'
    BY <1>2, <1>3, <2>1 DEF ClaimInv, IdsHandedOut, Live
  <2>3. \A t \in Sessions : pc'[t] \notin {"idle", "list", "next"} => cur'[t] \in 1..created'
    BY <1>3, <2>1 DEF ClaimInv, IdsHandedOut, TypeOK
  <2>4. \A j \in Items : Live(j)' => j <= created'
    BY <1>3 DEF ClaimInv, IdsHandedOut, Live
  <2>5. \A t \in Sessions : todo'[t] \subseteq 1..created'
    BY <1>3 DEF ClaimInv, IdsHandedOut
  <2> QED
    BY <2>2, <2>3, <2>4, <2>5 DEF IdsHandedOut
<1> QED
  BY <1>8, <1>9, <1>10, <1>11, <1>12 DEF ClaimInv

\* An outcome is written for the one started attempt the session owns: nothing begins to guard.
LEMMA SettleKeepsClaims ==
    ASSUME TypeOK, TypeOK', ClaimInv, NEW s \in Sessions,
           NEW status \in {"succeeded", "failed"}, NEW dead \in BOOLEAN,
           pc[s] \in Sending, SetOutcome(s, status, dead),
           OthersKeep(s), Continues(s), pc'[s] \notin Sending,
           created' = created, now' = now, \A i \in Items : Live(i)' <=> Live(i)
    PROVE  ClaimInv'
<1> DEFINE mine(a) == a.item = cur[s] /\ a.num = seen[s].num
           after(a) == IF mine(a) THEN [a EXCEPT !.status = status, !.dead = dead] ELSE a
<1>1. attempts' = {after(a) : a \in attempts}
  BY DEF SetOutcome
<1>2. cur[s] \in Items
  BY LockedItem DEF Sending
<1>3. ASSUME NEW a \in attempts
      PROVE  /\ after(a).item = a.item /\ after(a).num = a.num
             /\ after(a).hash = a.hash /\ after(a).at = a.at
             /\ Guarding(after(a)) => Guarding(a)
             /\ ~ mine(a) => after(a) = a
  <2>1. a \in Attempt
    BY DEF TypeOK
  <2>2. mine(a) => a.status = "started"
    BY DEF ClaimInv, ClaimsAreOwned, AttemptsOf
  <2> QED
    BY <2>1, <2>2 DEF Attempt, Guarding
<1> HIDE DEF mine, after
<1>4. GuardWindowsDisjoint'
  BY <1>1, <1>3 DEF ClaimInv, GuardWindowsDisjoint
<1>5. \A i \in Items : Numbers(i)' = Numbers(i)
  BY <1>1, <1>3 DEF Numbers, AttemptsOf
<1>6. AttemptsNumbered'
  <2>1. \A a, b \in attempts' : a.item = b.item /\ a.num = b.num => a = b
    BY <1>1, <1>3 DEF ClaimInv, AttemptsNumbered
  <2> QED
    BY <1>5, <2>1 DEF ClaimInv, AttemptsNumbered
<1>7. GuardIsCurrent'
  <2>1. \A i \in Items : Live(i) => KeepsGuards(i)
    BY <1>1, <1>3, <1>5 DEF KeepsGuards, AttemptsOf
  <2> QED
    BY <2>1, OtherLookupsKept DEF GuardIsCurrent, Continues
<1>8. ClaimsAreOwned'
  <2>1. ASSUME NEW t \in Sessions, pc'[t] \in Sending
        PROVE  /\ t # s /\ pc[t] \in Sending /\ cur[t] \in Items
               /\ cur'[t] = cur[t] /\ seen'[t] = seen[t] /\ Copy(t)' = Copy(t)
    BY <2>1, LockedItem DEF OthersKeep, Copy, Sending
  <2>2. ASSUME NEW t \in Sessions, pc'[t] \in Sending, NEW a \in attempts,
               after(a).item = cur[t], after(a).num = seen[t].num
        PROVE  after(a).status = "started"
    <3>1. t # s /\ pc[t] \in Sending /\ a.item = cur[t] /\ a.num = seen[t].num
      BY <1>3, <2>1, <2>2
    <3>2. ~ mine(a)
      BY <3>1 DEF mine, ClaimInv, ClaimsAreOwned
    <3>3. a.status = "started"
      BY <3>1 DEF ClaimInv, ClaimsAreOwned, AttemptsOf
    <3> QED
      BY <1>3, <3>2, <3>3
  <2> QED
    BY <1>1, <1>5, <2>1, <2>2 DEF ClaimInv, ClaimsAreOwned, AttemptsOf
<1>9. IdsHandedOut'
  <2>1. \A a \in attempts : a.item \in Items
    BY DEF TypeOK, Attempt
  <2>2. \A a \in attempts' : Live(a.item)' /\ a.at <= now'
    BY <1>1, <1>3, <2>1 DEF ClaimInv, IdsHandedOut
  <2> QED
    BY <2>2 DEF ClaimInv, IdsHandedOut, OthersKeep, Continues
<1> QED
  BY <1>4, <1>6, <1>7, <1>8, <1>9 DEF ClaimInv

\* A row that is written to stays a row.
LEMMA WrittenRow ==
    ASSUME NEW row \in QueueItem, NEW status \in QueueStatus, NEW msg \in Nat \cup {Null}
    PROVE  /\ [row EXCEPT !.status = status, !.msg = msg] # Null
           /\ [row EXCEPT !.status = status] # Null
<1>1. /\ [row EXCEPT !.status = status, !.msg = msg] \in QueueItem
      /\ [row EXCEPT !.status = status] \in QueueItem
  BY DEF QueueItem
<1> QED
  BY <1>1, RowAssumption

LEMMA WrittenRowLives ==
    ASSUME TypeOK, NEW j \in Items, Live(j), NEW row, row # Null, queue' = [queue EXCEPT ![j] = row]
    PROVE  \A i \in Items : Live(i)' <=> Live(i)
BY DEF TypeOK, Live

\* Publishing rewrites rows, and neither adds nor removes one.
LEMMA SessionsKeepRows ==
    ASSUME TypeOK, ClaimInv, NEW s \in Sessions, Start(s) \/ Publish(s) \/ Crash(s)
    PROVE  created' = created /\ \A i \in Items : Live(i)' <=> Live(i)
<1> USE TypesSplit
<1>1. CASE HealDrift(s)
  <2>1. cur[s] \in Items /\ Live(cur[s])
    BY <1>1, LockedItem DEF HealDrift, ClaimInv, GuardIsCurrent, LookupIsCurrent
  <2>2. queue[cur[s]] \in QueueItem /\ seen[s].block.num \in Nat
    BY <1>1, <2>1 DEF HealDrift, SessionTypes, OtherTypes, Seen, Attempt, Live
  <2>3. [queue[cur[s]] EXCEPT !.status = "published",
            !.msg = IF Copy(s).msg = Null THEN seen[s].block.num ELSE queue[cur[s]].msg]
        # Null
    BY <2>2, WrittenRow DEF QueueItem, QueueStatus
  <2> QED
    BY <1>1, <2>1, <2>3, WrittenRowLives DEF HealDrift
<1>2. CASE RecordSuccess(s)
  <2>1. cur[s] \in Items /\ Live(cur[s]) /\ seen[s].num \in Nat
    BY <1>2, LockedItem DEF RecordSuccess, SessionTypes, Seen
  <2>2. [queue[cur[s]] EXCEPT !.status = "published", !.msg = seen[s].num] # Null
    BY <2>1, WrittenRow DEF Live, OtherTypes, QueueStatus
  <2> QED
    BY <1>2, <2>1, <2>2, WrittenRowLives DEF RecordSuccess
<1>3. CASE MarkItemFailed(s)
  <2>1. CASE UNCHANGED queue
    BY <1>3, <2>1 DEF MarkItemFailed, Live
  <2>2. CASE Live(cur[s]) /\ queue' = [queue EXCEPT ![cur[s]].status = "failed"]
    <3>1. cur[s] \in Items
      BY <1>3, LockedItem DEF MarkItemFailed
    <3>2. [queue[cur[s]] EXCEPT !.status = "failed"] # Null
      BY <2>2, <3>1, WrittenRow DEF Live, OtherTypes, QueueStatus
    <3> QED
      BY <1>3, <2>2, <3>1, <3>2, WrittenRowLives DEF MarkItemFailed
  <2> QED
    BY <1>3, <2>1, <2>2 DEF MarkItemFailed
<1>4. CASE queue' = queue /\ created' = created
  BY <1>4 DEF Live
<1> QED
  BY <1>1, <1>2, <1>3, <1>4
  DEF Start, Publish, Crash, BeatTick, StartTask, StartCall, ListItems, TakeItem, PageDone,
      LockItem, ItemMissing, ClaimAttempt, Suppress, RefuseToSend, TelegramAccepts,
      TelegramFails, Fails, RecordFailure, ItemVanished, AbortVictim, rows

\* Every step of a publisher session keeps the claim invariant.
LEMMA SessionStepKeepsClaims ==
    ASSUME TypeOK, TypeOK', ClaimInv, NEW s \in Sessions, Start(s) \/ Publish(s) \/ Crash(s)
    PROVE  ClaimInv'
<1> USE TypesSplit
<1>1. /\ todo[s] \subseteq 1..created
      /\ pc[s] \notin {"idle", "list", "next"} => cur[s] \in 1..created
      /\ \A i \in Items : Live(i) => i \in 1..created
  <2>1. \A i \in Items : i \in Nat /\ i > 0
    BY PublishAssumption
  <2>2. \A i \in Items : Live(i) => i <= created
    BY DEF ClaimInv, IdsHandedOut
  <2>3. created \in Nat
    BY DEF OtherTypes
  <2>4. \A i \in Items : Live(i) => i \in 1..created
    BY <2>1, <2>2, <2>3
  <2> QED
    BY <2>4 DEF ClaimInv, IdsHandedOut
<1>2. CASE /\ UNCHANGED <<rows, now>> /\ Close(s)
  BY <1>2, QuietStep, CloseContinues DEF QuietTables, rows, Live
<1>3. CASE BeatTick(s)
  BY <1>1, <1>3, QuietStep
  DEF BeatTick, OthersKeep, Continues, QuietTables, rows, Live, SessionTypes, Sending
<1>4. ASSUME NEW i \in Items, StartTask(s, i) \/ StartCall(s, i) PROVE ClaimInv'
  <2>1. /\ i \in 1..created /\ UNCHANGED <<rows, now, lock, todo, seen>>
        /\ pc' = [pc EXCEPT ![s] = "lock"] /\ cur' = [cur EXCEPT ![s] = i]
        /\ \A t \in Sessions \ {s} : cache'[t] = cache[t]
    BY <1>1, <1>4 DEF StartTask, StartCall, SessionTypes
  <2> QED
    BY <1>1, <2>1, QuietStep
    DEF OthersKeep, Continues, QuietTables, rows, Live, SessionTypes, Sending
<1>5. CASE ListItems(s)
  <2>1. PICK S \in FirstPage(phase[s]) : todo' = [todo EXCEPT ![s] = S]
    BY <1>5 DEF ListItems
  <2>2. S \subseteq 1..created
    BY <1>1 DEF FirstPage, Eligible
  <2>3. /\ pc' = [pc EXCEPT ![s] = "next"] /\ UNCHANGED <<rows, now, lock, cur, seen>>
        /\ \A t \in Sessions \ {s} : cache'[t] = cache[t]
    BY <1>5 DEF ListItems, SessionTypes
  <2> QED
    BY <2>1, <2>2, <2>3, QuietStep
    DEF OthersKeep, Continues, QuietTables, rows, Live, SessionTypes, Sending
<1>6. CASE TakeItem(s)
  <2>1. PICK i \in todo[s] : todo' = [todo EXCEPT ![s] = @ \ {i}] /\ cur' = [cur EXCEPT ![s] = i]
    BY <1>6 DEF TakeItem
  <2> QED
    BY <1>1, <1>6, <2>1, QuietStep
    DEF TakeItem, OthersKeep, Continues, QuietTables, rows, Live, SessionTypes, Sending
<1>7. CASE PageDone(s) /\ ~ Close(s)
  BY <1>1, <1>7, QuietStep
  DEF PageDone, OthersKeep, Continues, QuietTables, rows, Live, SessionTypes, Sending
<1>8. CASE Suppress(s)
  <2>1. OthersKeep(s) /\ Continues(s)
    BY <1>1, <1>8, CloseContinues, NextInBatchContinues DEF Suppress
  <2> QED
    BY <1>8, <2>1, QuietStep DEF Suppress, QuietTables, rows, Live
<1>9. CASE HealDrift(s)
  <2>1. OthersKeep(s) /\ Continues(s)
    BY <1>1, <1>9, RaiseContinues DEF HealDrift
  <2>2. \A i \in Items : Live(i)' <=> Live(i)
    BY <1>9, SessionsKeepRows DEF Publish
  <2> QED
    BY <1>9, <2>1, <2>2, QuietStep DEF HealDrift, QuietTables
<1>10. CASE RefuseToSend(s) \/ TelegramAccepts(s) \/ TelegramFails(s)
  <2>1. pc[s] = "claimed" /\ pc'[s] \in {"failing", "accepted"}
    BY <1>10 DEF RefuseToSend, TelegramAccepts, TelegramFails, Fails, Sendable, SessionTypes
  <2>2. UNCHANGED <<rows, now, lock, cur, todo, cache, seen>>
    BY <1>10 DEF RefuseToSend, TelegramAccepts, TelegramFails, Fails
  <2>3. \A t \in Sessions \ {s} : pc'[t] = pc[t]
    BY <1>10 DEF RefuseToSend, TelegramAccepts, TelegramFails, Fails, SessionTypes
  <2> QED
    BY <1>1, <2>1, <2>2, <2>3, QuietStep
    DEF OthersKeep, Continues, QuietTables, rows, Live, Sending
<1>11. CASE RecordSuccess(s)
  <2>1. OthersKeep(s) /\ Continues(s) /\ pc'[s] \notin Sending
    BY <1>1, <1>11, CloseContinues, NextInBatchContinues DEF RecordSuccess
  <2>2. \A i \in Items : Live(i)' <=> Live(i)
    BY <1>11, SessionsKeepRows DEF Publish
  <2> QED
    BY <1>11, <2>1, <2>2, SettleKeepsClaims DEF RecordSuccess, Sending
<1>12. CASE RecordFailure(s)
  <2>1. OthersKeep(s) /\ Continues(s) /\ pc'[s] \notin Sending
    <3>1. CASE Raise(s, err[s])
      BY <1>1, <1>12, <3>1, RaiseContinues DEF RecordFailure
    <3>2. CASE /\ pc' = [pc EXCEPT ![s] = "deadletter"]
               /\ UNCHANGED <<lock, cur, todo, phase, cache, seen, err, tries>>
      BY <1>1, <1>12, <3>2 DEF RecordFailure, OthersKeep, Continues, SessionTypes, Sending
    <3> QED
      BY <1>12, <3>1, <3>2 DEF RecordFailure
  <2>2. Terminal(s) \in BOOLEAN
    BY DEF Terminal, FinalExecution
  <2> QED
    BY <1>12, <2>1, <2>2, SettleKeepsClaims DEF RecordFailure, Sending, Live
<1>13. CASE MarkItemFailed(s)
  <2>1. OthersKeep(s) /\ Continues(s)
    BY <1>1, <1>13, RaiseContinues DEF MarkItemFailed
  <2>2. \A i \in Items : Live(i)' <=> Live(i)
    BY <1>13, SessionsKeepRows DEF Publish
  <2> QED
    BY <1>13, <2>1, <2>2, QuietStep DEF MarkItemFailed, QuietTables
<1> QED
  BY <1>2, <1>3, <1>4, <1>5, <1>6, <1>7, <1>8, <1>9, <1>10, <1>11, <1>12, <1>13,
     LockItemKeepsClaims, ClaimAttemptKeepsClaims
  DEF Start, Publish, PageDone, ItemMissing, ItemVanished, AbortVictim, Crash

\* Time passes, rows are edited, and new rows get ids that no session refers to.
LEMMA GrowingStep ==
    ASSUME TypeOK, TypeOK', ClaimInv,
           UNCHANGED <<attempts, lock, pc, cur, todo, cache, seen>>,
           now <= now', created <= created',
           \A i \in Items : Live(i) => Live(i)',
           \A i \in Items : Live(i)' => i <= created',
           \A i \in Items : Live(i)' /\ i \in 1..created => Live(i)
    PROVE  ClaimInv'
<1>1. GuardWindowsDisjoint' /\ AttemptsNumbered'
  BY DEF ClaimInv, GuardWindowsDisjoint, AttemptsNumbered, Numbers, AttemptsOf
<1>2. GuardIsCurrent'
  <2> SUFFICES ASSUME NEW t \in Sessions, pc'[t] = "guard"
               PROVE  LookupIsCurrent(t)'
    BY DEF GuardIsCurrent
  <2>1. cur[t] \in Items /\ lock[cur[t]] = t /\ Live(cur[t])
    BY LockedItem DEF ClaimInv, GuardIsCurrent, LookupIsCurrent
  <2>2. KeepsGuards(cur[t])
    BY <2>1 DEF KeepsGuards, Numbers, AttemptsOf
  <2> QED
    BY <2>1, <2>2, LookupKept
<1>3. ClaimsAreOwned'
  <2>1. ASSUME NEW t \in Sessions, pc[t] \in Sending
        PROVE  cur[t] \in Items /\ cur[t] \in 1..created
    BY <2>1, LockedItem DEF ClaimInv, IdsHandedOut, Sending
  <2>2. ASSUME NEW t \in Sessions, pc[t] \in Sending, Live(cur[t])'
        PROVE  seen'[t].num \in Numbers(cur[t])'
    <3>1. Live(cur[t])
      BY <2>1, <2>2
    <3> QED
      BY <2>2, <3>1 DEF ClaimInv, ClaimsAreOwned, Numbers, AttemptsOf
  <2>3. ASSUME NEW t \in Sessions, pc[t] \in Sending
        PROVE  /\ Copy(t)' # Null
               /\ \A a \in AttemptsOf(cur[t])' : a.num = seen'[t].num => a.status = "started"
    BY <2>3 DEF ClaimInv, ClaimsAreOwned, AttemptsOf, Copy
  <2> QED
    BY <2>2, <2>3 DEF ClaimInv, ClaimsAreOwned
<1>4. IdsHandedOut'
  <2>1. 1..created \subseteq 1..created'
    BY DEF TypeOK
  <2>2. ASSUME NEW a \in attempts PROVE Live(a.item)' /\ a.at <= now'
    BY DEF ClaimInv, IdsHandedOut, TypeOK, Attempt
  <2> QED
    BY <2>1, <2>2 DEF ClaimInv, IdsHandedOut
<1> QED
  BY <1>1, <1>2, <1>3, <1>4 DEF ClaimInv

\* DELETE takes the attempts of the item along, and waits for the session that has it locked.
LEMMA DeleteItemKeepsClaims ==
    ASSUME TypeOK, TypeOK', ClaimInv, NEW j \in Items, DeleteItem(j)
    PROVE  ClaimInv'
<1>1. /\ attempts' = attempts \ AttemptsOf(j) /\ lock[j] = Null
      /\ UNCHANGED <<created, now, lock, pc, cur, todo, cache, seen>>
      /\ ~ Live(j)' /\ \A i \in Items \ {j} : Live(i)' <=> Live(i)
  BY DEF DeleteItem, session, Live, TypeOK
<1>2. AttemptsOf(j)' = {} /\ \A i \in Items \ {j} : AttemptsOf(i)' = AttemptsOf(i)
  BY <1>1 DEF AttemptsOf
<1>3. GuardWindowsDisjoint'
  BY <1>1 DEF ClaimInv, GuardWindowsDisjoint
<1>4. AttemptsNumbered'
  <2>1. \A a, b \in attempts' : a.item = b.item /\ a.num = b.num => a = b
    BY <1>1 DEF ClaimInv, AttemptsNumbered
  <2>2. Numbers(j)' = 1..0 /\ \A i \in Items \ {j} : Numbers(i)' = Numbers(i)
    BY <1>2 DEF Numbers
  <2> QED
    BY <2>1, <2>2 DEF ClaimInv, AttemptsNumbered
<1>5. GuardIsCurrent'
  <2> SUFFICES ASSUME NEW t \in Sessions, pc'[t] = "guard"
               PROVE  LookupIsCurrent(t)'
    BY DEF GuardIsCurrent
  <2>1. pc[t] = "guard" /\ cur[t] \in Items /\ lock[cur[t]] = t /\ Live(cur[t])
    BY <1>1, LockedItem DEF ClaimInv, GuardIsCurrent, LookupIsCurrent
  <2>2. cur[t] # j
    BY <1>1, <2>1, PublishAssumption
  <2>3. KeepsGuards(cur[t])
    BY <1>1, <1>2, <2>1, <2>2 DEF KeepsGuards, Numbers
  <2>4. now <= now'
    BY <1>1 DEF TypeOK
  <2> QED
    BY <1>1, <2>1, <2>3, <2>4, LookupKept
<1>6. ClaimsAreOwned'
  <2>1. ASSUME NEW t \in Sessions, pc[t] \in Sending
        PROVE  /\ cur[t] \in Items /\ Copy(t)' = Copy(t)
               /\ AttemptsOf(cur[t])' \subseteq AttemptsOf(cur[t])
               /\ Live(cur[t])' => Live(cur[t]) /\ Numbers(cur[t])' = Numbers(cur[t])
    <3>1. cur[t] \in Items
      BY <2>1, LockedItem DEF Sending
    <3> QED
      BY <1>1, <1>2, <3>1 DEF Copy, Numbers
  <2> QED
    BY <1>1, <2>1 DEF ClaimInv, ClaimsAreOwned
<1>7. IdsHandedOut'
  <2>1. ASSUME NEW a \in attempts' PROVE Live(a.item)' /\ a.at <= now'
    <3>1. a \in attempts /\ a.item \in Items /\ a.item # j
      BY <1>1 DEF AttemptsOf, TypeOK, Attempt
    <3> QED
      BY <1>1, <3>1 DEF ClaimInv, IdsHandedOut
  <2>2. \A i \in Items : Live(i)' => i <= created'
    BY <1>1 DEF ClaimInv, IdsHandedOut
  <2> QED
    BY <1>1, <2>1, <2>2 DEF ClaimInv, IdsHandedOut
<1> QED
  BY <1>3, <1>4, <1>5, <1>6, <1>7 DEF ClaimInv

LEMMA EnvironmentStepKeepsClaims ==
    ASSUME TypeOK, TypeOK', ClaimInv,
           \/ \E e \in Editors : Edit(e)
           \/ \E i \in Items : DeleteItem(i)
           \/ CreateItem \/ Tick
    PROVE  ClaimInv'
<1>1. ASSUME NEW e \in Editors, Edit(e) PROVE ClaimInv'
  <2>1. UNCHANGED <<created, attempts, now, lock, session>>
    BY <1>1 DEF Edit, CommitUpdate, UpdateRejected, LoadForUpdate, rows
  <2>2. \A i \in Items : Live(i)' <=> Live(i)
    <3>1. CASE UNCHANGED queue
      BY <3>1 DEF Live
    <3>2. CASE CommitUpdate(e)
      <4> DEFINE i == edit[e].item
      <4>1. i \in Items /\ Live(i) /\ queue[i] \in QueueItem /\ edit[e].row \in QueueItem
        BY <3>2 DEF CommitUpdate, Live, TypeOK, Edits
      <4>2. PICK row \in QueueItem : queue' = [queue EXCEPT ![i] = row]
        BY <3>2, <4>1, UpdatedTypes DEF CommitUpdate
      <4>3. row # Null
        BY RowAssumption
      <4> HIDE DEF i
      <4> QED
        BY <4>1, <4>2, <4>3, WrittenRowLives
    <3> QED
      BY <1>1, <3>1, <3>2 DEF Edit, UpdateRejected, LoadForUpdate, rows
  <2>3. now <= now' /\ created <= created'
    BY <2>1 DEF TypeOK
  <2> QED
    BY <2>1, <2>2, <2>3, GrowingStep DEF session, ClaimInv, IdsHandedOut
<1>2. CASE CreateItem
  <2>1. /\ created' = created + 1 /\ UNCHANGED <<attempts, now, lock, session>>
        /\ created + 1 \in Items /\ created \in Nat
        /\ \A i \in Items \ {created + 1} : queue'[i] = queue[i]
    BY <1>2 DEF CreateItem, TypeOK
  <2>2. ~ Live(created + 1)
    BY <2>1 DEF ClaimInv, IdsHandedOut
  <2>3. now <= now' /\ created <= created'
    BY <2>1 DEF TypeOK
  <2>4. \A i \in Items : Live(i)' => i <= created'
    <3> SUFFICES ASSUME NEW i \in Items \ {created + 1}, Live(i) PROVE i <= created + 1
      BY <2>1 DEF Live
    <3>1. i \in Nat /\ i <= created
      BY PublishAssumption DEF ClaimInv, IdsHandedOut
    <3> QED
      BY <2>1, <3>1
  <2> QED
    BY <2>1, <2>2, <2>3, <2>4, GrowingStep DEF session, Live
<1>3. CASE Tick
  <2>1. UNCHANGED <<queue, created, attempts, lock, session>> /\ now <= now'
    BY <1>3 DEF Tick, rows, TypeOK
  <2>2. created <= created'
    BY <2>1 DEF TypeOK
  <2> QED
    BY <2>1, <2>2, GrowingStep DEF session, Live, ClaimInv, IdsHandedOut
<1> QED
  BY <1>1, <1>2, <1>3, DeleteItemKeepsClaims

-----------------------------------------------------------------------------
(* The theorems *)

LEMMA InitClaims == Init => TypeOK /\ ClaimInv
<1> SUFFICES ASSUME Init PROVE TypeOK /\ ClaimInv
  OBVIOUS
<1>1. TypeOK
  BY NothingSeenType
  DEF Init, TypeOK, NoRows, PC, Errors, Edits
<1>2. \A i \in Items : ~ Live(i) /\ Numbers(i) = {}
  BY DEF Init, NoRows, Live, Numbers, AttemptsOf
<1>3. GuardWindowsDisjoint /\ GuardIsCurrent /\ ClaimsAreOwned
  BY DEF Init, GuardWindowsDisjoint, GuardIsCurrent, ClaimsAreOwned, Sending
<1>4. AttemptsNumbered
  BY <1>2 DEF Init, AttemptsNumbered
<1>5. IdsHandedOut
  BY <1>2 DEF Init, IdsHandedOut
<1> QED
  BY <1>1, <1>3, <1>4, <1>5 DEF ClaimInv

LEMMA StepKeepsClaims ==
    ASSUME TypeOK, ClaimInv, [Next]_vars
    PROVE  TypeOK' /\ ClaimInv'
<1>1. ASSUME NEW s \in Sessions, Start(s) \/ Publish(s) \/ Crash(s)
      PROVE  TypeOK' /\ ClaimInv'
  <2>1. TypeOK'
    BY <1>1, SessionStepTypes, SessionStepOtherTypes, TypesSplit
  <2> QED
    BY <1>1, <2>1, SessionStepKeepsClaims
<1>2. ASSUME \/ \E e \in Editors : Edit(e)
             \/ \E i \in Items : DeleteItem(i)
             \/ CreateItem \/ Tick
      PROVE  TypeOK' /\ ClaimInv'
  <2>1. TypeOK'
    BY <1>2, EnvironmentStepTypes
  <2> QED
    BY <1>2, <2>1, EnvironmentStepKeepsClaims
<1>3. CASE UNCHANGED vars
  <2>1. TypeOK'
    BY <1>3 DEF vars, TypeOK
  <2>2. now <= now' /\ created <= created'
    BY <1>3 DEF vars, TypeOK
  <2>3. \A i \in Items : Live(i)' <=> Live(i)
    BY <1>3 DEF vars, Live
  <2> QED
    BY <1>3, <2>1, <2>2, <2>3, GrowingStep DEF vars, ClaimInv, IdsHandedOut
<1> QED
  BY <1>1, <1>2, <1>3 DEF Next, Quiescent

\* The tables, the sessions and their copies are always of the types the code declares, for
\* any number of items, payloads, sessions and requests.
THEOREM TypeCorrect == Spec => []TypeOK
<1>1. Init => TypeOK /\ ClaimInv
  BY InitClaims
<1>2. TypeOK /\ ClaimInv /\ [Next]_vars => TypeOK' /\ ClaimInv'
  BY StepKeepsClaims
<1> QED
  BY <1>1, <1>2, PTL DEF Spec

\* _claim_publish: lookups under the lock stay current and claims have one owner.
THEOREM ClaimsCorrect == Spec => []ClaimInv
<1>1. Init => TypeOK /\ ClaimInv
  BY InitClaims
<1>2. TypeOK /\ ClaimInv /\ [Next]_vars => TypeOK' /\ ClaimInv'
  BY StepKeepsClaims
<1> QED
  BY <1>1, <1>2, PTL DEF Spec

\* Idempotency: whatever batches, tasks, requests, edits and crashes interleave, the guard
\* windows of two attempts for the same payload never overlap.
THEOREM GuardsNeverOverlap == Spec => []GuardWindowsDisjoint
<1>1. ClaimInv => GuardWindowsDisjoint
  BY DEF ClaimInv
<1> QED
  BY <1>1, ClaimsCorrect, PTL

\* The attempts of an item are numbered 1, 2, 3, ... whoever inserts them.
THEOREM NumbersHaveNoGap == Spec => []AttemptsNumbered
<1>1. ClaimInv => AttemptsNumbered
  BY DEF ClaimInv
<1> QED
  BY <1>1, ClaimsCorrect, PTL

-----------------------------------------------------------------------------
(* Refinement *)

LEMMA LedgerNames ==
    /\ \A i \in Items : Ledger!Numbers(i) = Numbers(i)
    /\ \A a : Ledger!Guarding(a) <=> Guarding(a)
BY DEF Ledger!Numbers, Numbers, AttemptsOf, Ledger!Guarding, Guarding

\* An insert by the publisher is an Open of the ledger.
LEMMA ClaimOpens ==
    ASSUME TypeOK, ClaimInv, NEW s \in Sessions, ClaimAttempt(s)
    PROVE  Ledger!Next
<1> DEFINE i == cur[s]
           h == Copy(s).payload
<1>1. i \in Items /\ pc[s] = "guard" /\ seen[s].block = Null
  BY LockedItem DEF ClaimAttempt
<1>2. LookupIsCurrent(s)
  BY <1>1 DEF ClaimInv, GuardIsCurrent
<1>3. h \in Payloads
  <2>1. Copy(s) \in QueueItem
    BY <1>1, <1>2 DEF LookupIsCurrent, Copy, TypeOK
  <2> QED
    BY <2>1 DEF QueueItem
<1>4. seen[s].at \in 0..now
  BY <1>2 DEF LookupIsCurrent, TypeOK, Seen
<1>5. PICK n \in Numbers(i) \cup {0} : Numbers(i) = 1..n
  BY <1>1 DEF ClaimInv, AttemptsNumbered
<1>6. seen[s].num = n + 1
  <2>1. n \in Nat /\ seen[s].num \in Nat /\ seen[s].num > 0
    BY <1>2, <1>5 DEF LookupIsCurrent, TypeOK, Seen, Numbers, AttemptsOf, Attempt
  <2>2. 1..n = 1..(seen[s].num - 1)
    BY <1>2, <1>5 DEF LookupIsCurrent
  <2>3. ~ (n < seen[s].num - 1)
    <3> SUFFICES ASSUME n < seen[s].num - 1 PROVE FALSE
      OBVIOUS
    <3>1. n + 1 \in 1..(seen[s].num - 1) /\ n + 1 \notin 1..n
      BY <2>1
    <3> QED
      BY <2>2, <3>1
  <2>4. ~ (seen[s].num - 1 < n)
    <3> SUFFICES ASSUME seen[s].num - 1 < n PROVE FALSE
      OBVIOUS
    <3>1. n \in 1..n /\ n \notin 1..(seen[s].num - 1)
      BY <2>1
    <3> QED
      BY <2>2, <3>1
  <2> QED
    BY <2>1, <2>3, <2>4
<1>7. \A a \in attempts : a.item = i /\ a.hash = h /\ Guarding(a) => a.at + Window <= seen[s].at
  BY <1>1, <1>2 DEF LookupIsCurrent, AttemptsOf
<1>8. /\ attempts' = attempts \cup
             {[item |-> i, num |-> n + 1, status |-> "started", hash |-> h,
               at |-> seen[s].at, dead |-> FALSE]}
      /\ UNCHANGED now
  BY <1>6 DEF ClaimAttempt
<1> HIDE DEF i, h
<1>9. Ledger!Open(i, h)
  BY <1>1, <1>4, <1>5, <1>7, <1>8, LedgerNames DEF Ledger!Open
<1> QED
  BY <1>1, <1>3, <1>9 DEF i, Ledger!Next

\* An outcome is a Settle of the ledger.
LEMMA OutcomeSettles ==
    ASSUME TypeOK, ClaimInv, NEW s \in Sessions, pc[s] \in Sending, Live(cur[s]),
           NEW status \in {"succeeded", "failed"}, NEW dead \in BOOLEAN,
           dead => status = "failed", SetOutcome(s, status, dead), now' = now
    PROVE  Ledger!Next
<1>1. cur[s] \in Items
  BY LockedItem DEF Sending
<1>2. PICK a \in attempts : a.item = cur[s] /\ a.num = seen[s].num
  BY DEF ClaimInv, ClaimsAreOwned, Numbers, AttemptsOf
<1>3. a.status = "started"
  BY <1>2 DEF ClaimInv, ClaimsAreOwned, AttemptsOf
<1>4. \A b \in attempts : b.item = cur[s] /\ b.num = seen[s].num => b = a
  BY <1>2 DEF ClaimInv, AttemptsNumbered
<1>5. attempts' = (attempts \ {a}) \cup {[a EXCEPT !.status = status, !.dead = dead]}
  BY <1>2, <1>4 DEF SetOutcome
<1>6. Ledger!Settle(a)
  BY <1>3, <1>5 DEF Ledger!Settle
<1> QED
  BY <1>6 DEF Ledger!Next

LEMMA StepRefines ==
    ASSUME TypeOK, ClaimInv, [Next]_vars
    PROVE  [Ledger!Next]_<<attempts, now>>
<1>1. ASSUME NEW s \in Sessions, Start(s) \/ Publish(s) \/ Crash(s)
      PROVE  [Ledger!Next]_<<attempts, now>>
  <2>1. CASE RecordSuccess(s)
    <3>1. /\ pc[s] \in Sending /\ Live(cur[s]) /\ SetOutcome(s, "succeeded", FALSE)
          /\ now' = now
      BY <2>1 DEF RecordSuccess, Sending
    <3> QED
      BY <3>1, OutcomeSettles
  <2>2. CASE RecordFailure(s)
    <3>1. /\ pc[s] \in Sending /\ Live(cur[s]) /\ SetOutcome(s, "failed", Terminal(s))
          /\ now' = now
      BY <2>2 DEF RecordFailure, Sending
    <3>2. Terminal(s) \in BOOLEAN
      BY DEF Terminal, FinalExecution
    <3> QED
      BY <3>1, <3>2, OutcomeSettles
  <2>3. CASE UNCHANGED <<attempts, now>>
    BY <2>3
  <2> QED
    BY <1>1, <2>1, <2>2, <2>3, ClaimOpens
    DEF Start, Publish, Crash, BeatTick, StartTask, StartCall, ListItems, TakeItem, PageDone,
        LockItem, ItemMissing, Suppress, HealDrift, RefuseToSend, TelegramAccepts,
        TelegramFails, Fails, MarkItemFailed, ItemVanished, AbortVictim, rows
<1>2. ASSUME NEW i \in Items, DeleteItem(i) PROVE Ledger!Next
  <2>1. attempts' = {a \in attempts : a.item # i} /\ UNCHANGED now
    BY <1>2 DEF DeleteItem, AttemptsOf
  <2> QED
    BY <2>1 DEF Ledger!Forget, Ledger!Next
<1>3. CASE Tick
  BY <1>3 DEF Tick, rows, Ledger!Pass, Ledger!Next
<1>4. ASSUME \/ \E e \in Editors : Edit(e)
             \/ CreateItem \/ Quiescent \/ UNCHANGED vars
      PROVE  UNCHANGED <<attempts, now>>
  BY <1>4 DEF Edit, CommitUpdate, UpdateRejected, LoadForUpdate, CreateItem, Quiescent, vars, rows
<1> QED
  BY <1>1, <1>2, <1>3, <1>4 DEF Next

\* The publisher, with all its sessions and whatever the requests do to the rows meanwhile,
\* implements the attempt ledger.
THEOREM PublisherImplementsLedger == Spec => LedgerSpec
<1>1. Init => Ledger!Init
  BY DEF Init, Ledger!Init
<1>2. TypeOK /\ ClaimInv /\ [Next]_vars => [Ledger!Next]_<<attempts, now>>
  BY StepRefines
<1> QED
  BY <1>1, <1>2, TypeCorrect, ClaimsCorrect, PTL DEF Spec, LedgerSpec, Ledger!Spec

-----------------------------------------------------------------------------
(* Deliveries.  The steps of a session fall into four kinds: it takes or leaves an item  *)
(* with no claim (Leaves), claims, talks to Telegram, or settles its claim.             *)

Claim(s) == {a \in attempts : a.item = cur[s] /\ a.num = seen[s].num}

\* While a session sends, its claim is the one its posts are made of
SendsWhatItClaimed ==
    \A s \in Sessions : pc[s] \in Sending /\ Live(cur[s]) =>
        \E a \in Claim(s) : a.hash = Copy(s).payload /\ a.at = seen[s].at

AcceptedIsDelivered ==
    \A s \in Sessions : pc[s] = "accepted" => PostOf(s) \in delivered

\* A post is of an id that was handed out, and while the item lives it has its attempt
PostsHaveAttempts ==
    \A p \in delivered :
        /\ p.item <= created
        /\ Live(p.item) => \E a \in attempts : a.item = p.item /\ a.num = p.num
                                               /\ a.hash = p.payload /\ a.at = p.at

SucceededIsDelivered ==
    \A a \in attempts : a.status = "succeeded" =>
        \E p \in delivered : p.item = a.item /\ p.num = a.num /\ p.payload = a.hash

\* An attempt is made only after the window of each earlier one that guards its payload
GuardsExpireFirst ==
    \A a, b \in attempts :
        a.item = b.item /\ a.hash = b.hash /\ a.num < b.num /\ Guarding(a)
            => a.at + Window <= b.at

DeliveryInv ==
    /\ NoLockWhileSending /\ SendsWhatItClaimed /\ AcceptedIsDelivered
    /\ PostsHaveAttempts /\ SucceededIsDelivered /\ StartedIsOwned

-----------------------------------------------------------------------------
(* Steps that leave the claims alone *)

\* Session s is not sending after the step, and nobody else takes a lock
Leaves(s) ==
    /\ OthersKeep(s) /\ pc'[s] \notin Sending
    /\ \A t \in Sessions \ {s}, i \in Items : lock'[i] = t => lock[i] = t

LEMMA CloseLeaves ==
    ASSUME SessionTypes, NEW s \in Sessions, Close(s)
    PROVE  Leaves(s)
<1>1. \A t \in Sessions, i \in Items : lock'[i] = t => lock[i] = t
  BY PublishAssumption DEF Close, Released
<1> QED
  BY <1>1, CloseContinues DEF Leaves

LEMMA NextInBatchLeaves ==
    ASSUME SessionTypes, NEW s \in Sessions, NextInBatch(s),
           lock' = lock \/ lock' = Released(s)
    PROVE  Leaves(s)
<1>1. \A t \in Sessions, i \in Items : lock'[i] = t => lock[i] = t
  BY PublishAssumption DEF Released
<1>2. OthersKeep(s) /\ pc'[s] \notin Sending
  BY DEF SessionTypes, NextInBatch, Released, OthersKeep, Sending
<1> QED
  BY <1>1, <1>2 DEF Leaves

LEMMA RaiseLeaves ==
    ASSUME SessionTypes, NEW s \in Sessions, NEW e, Raise(s, e)
    PROVE  Leaves(s)
<1>1. CASE NextInBatch(s) /\ lock' = Released(s)
  BY <1>1, NextInBatchLeaves
<1>2. CASE RunAgain(s)
  <2>1. \A t \in Sessions, i \in Items : lock'[i] = t => lock[i] = t
    BY <1>2, PublishAssumption DEF RunAgain, Released
  <2>2. OthersKeep(s) /\ pc'[s] \notin Sending
    BY <1>2 DEF SessionTypes, RunAgain, Released, OthersKeep, Sending
  <2> QED
    BY <2>1, <2>2 DEF Leaves
<1>3. CASE Close(s)
  BY <1>3, CloseLeaves
<1> QED
  BY <1>1, <1>2, <1>3 DEF Raise

\* The sessions leave their claims only by a crash, or when the item is gone
Unclaimed(s) == crashes' = 0 => crashes = 0 /\ (pc[s] \in Sending => ~ Live(cur[s]))

\* Everything but the claim, the exchange with Telegram and the outcome.
LEMMA OtherStepsLeave ==
    ASSUME TypeOK, NEW s \in Sessions, Start(s) \/ Publish(s) \/ Crash(s),
           ~ ClaimAttempt(s), ~ RefuseToSend(s), ~ TelegramAccepts(s), ~ TelegramFails(s),
           ~ RecordSuccess(s), ~ RecordFailure(s)
    PROVE  Leaves(s) /\ Unclaimed(s) /\ UNCHANGED <<attempts, delivered>>
<1> USE TypesSplit
<1>1. UNCHANGED <<attempts, delivered>>
  BY DEF Start, Publish, Crash, BeatTick, StartTask, StartCall, ListItems, TakeItem, PageDone,
         LockItem, ItemMissing, Suppress, HealDrift, MarkItemFailed, ItemVanished, AbortVictim, rows
<1>2. Unclaimed(s)
  <2>1. CASE Crash(s)
    BY <2>1 DEF Crash, Unclaimed, OtherTypes
  <2>2. CASE ~ Crash(s)
    <3>1. UNCHANGED crashes
      BY <2>2 DEF Start, Publish, BeatTick, StartTask, StartCall, ListItems, TakeItem, PageDone,
         LockItem, ItemMissing, Suppress, HealDrift, MarkItemFailed, ItemVanished, AbortVictim, bounds
    <3>2. pc[s] \notin Sending \/ ItemVanished(s)
      <4>1. CASE AbortVictim(s)
        BY <4>1 DEF AbortVictim, Deadlocked, Sending
      <4> QED
        BY <2>2, <4>1 DEF Start, Publish, BeatTick, StartTask, StartCall, ListItems, TakeItem, PageDone,
         LockItem, ItemMissing, Suppress, HealDrift, MarkItemFailed, Sending
    <3> QED
      BY <3>1, <3>2 DEF Unclaimed, ItemVanished
  <2> QED
    BY <2>1, <2>2
<1>3. Leaves(s)
  <2>1. CASE Close(s)
    BY <2>1, CloseLeaves
  <2>2. CASE LockItem(s)
    BY <2>2 DEF LockItem, MayLock, Leaves, OthersKeep, SessionTypes, Sending
  <2>3. CASE Suppress(s)
    BY <2>3, CloseLeaves, NextInBatchLeaves DEF Suppress
  <2>4. CASE HealDrift(s) \/ MarkItemFailed(s)
    BY <2>4, RaiseLeaves DEF HealDrift, MarkItemFailed
  <2>5. CASE BeatTick(s) \/ ListItems(s) \/ TakeItem(s) \/ (PageDone(s) /\ ~ Close(s))
    BY <2>5 DEF BeatTick, ListItems, TakeItem, PageDone, Leaves, OthersKeep, SessionTypes, Sending
  <2>6. ASSUME NEW i \in Items, StartTask(s, i) \/ StartCall(s, i) PROVE Leaves(s)
    BY <2>6 DEF StartTask, StartCall, Leaves, OthersKeep, SessionTypes, Sending
  <2> QED
    BY <2>1, <2>2, <2>3, <2>4, <2>5, <2>6
    DEF Start, Publish, Crash, ItemMissing, ItemVanished, AbortVictim
<1> QED
  BY <1>1, <1>2, <1>3

\* A step of session s that writes no attempt but leaves its claim behind.
LEMMA LeavingKeepsDelivery ==
    ASSUME TypeOK, ClaimInv, DeliveryInv, NEW s \in Sessions,
           Leaves(s), Unclaimed(s), UNCHANGED <<attempts, delivered>>, created' = created,
           \A i \in Items : Live(i)' <=> Live(i)
    PROVE  DeliveryInv'
<1>1. ASSUME NEW t \in Sessions, pc'[t] \in Sending
      PROVE  /\ t # s /\ pc[t] = pc'[t] /\ cur[t] \in Items
             /\ cur'[t] = cur[t] /\ seen'[t] = seen[t] /\ Copy(t)' = Copy(t)
             /\ \A i \in Items : lock'[i] = t => lock[i] = t
  BY <1>1, LockedItem DEF Leaves, OthersKeep, Copy, Sending
<1>2. NoLockWhileSending'
  BY <1>1 DEF DeliveryInv, NoLockWhileSending
<1>3. SendsWhatItClaimed'
  BY <1>1 DEF DeliveryInv, SendsWhatItClaimed, Claim
<1>4. AcceptedIsDelivered'
  <2>1. ASSUME NEW t \in Sessions, pc'[t] = "accepted" PROVE PostOf(t)' = PostOf(t)
    BY <1>1, <2>1 DEF PostOf, Sending
  <2> QED
    BY <1>1, <2>1 DEF DeliveryInv, AcceptedIsDelivered, Sending
<1>5. PostsHaveAttempts' /\ SucceededIsDelivered'
  <2>1. \A p \in delivered : p.item \in Items
    BY DEF TypeOK, Post
  <2> QED
    BY <2>1 DEF DeliveryInv, PostsHaveAttempts, SucceededIsDelivered
<1>6. StartedIsOwned'
  <2> SUFFICES ASSUME crashes' = 0, NEW a \in attempts, a.status = "started"
               PROVE  \E t \in Sessions :
                          pc'[t] \in Sending /\ cur'[t] = a.item /\ seen'[t].num = a.num
    BY DEF StartedIsOwned
  <2>1. PICK t \in Sessions : pc[t] \in Sending /\ cur[t] = a.item /\ seen[t].num = a.num
    BY DEF Unclaimed, DeliveryInv, StartedIsOwned
  <2>2. t # s
    BY <2>1 DEF Unclaimed, ClaimInv, IdsHandedOut
  <2> QED
    BY <2>1, <2>2 DEF Leaves, OthersKeep
<1> QED
  BY <1>2, <1>3, <1>4, <1>5, <1>6 DEF DeliveryInv

-----------------------------------------------------------------------------
(* The claim, the exchange with Telegram, the outcome *)

LEMMA ClaimKeepsDelivery ==
    ASSUME TypeOK, ClaimInv, DeliveryInv, NEW s \in Sessions, ClaimAttempt(s)
    PROVE  DeliveryInv'
<1> DEFINE new == [item |-> cur[s], num |-> seen[s].num, status |-> "started",
                   hash |-> Copy(s).payload, at |-> seen[s].at, dead |-> FALSE]
<1>1. /\ attempts' = attempts \cup {new} /\ lock' = Released(s)
      /\ pc' = [pc EXCEPT ![s] = "claimed"]
      /\ UNCHANGED <<queue, created, cur, cache, seen, delivered, crashes>>
  BY DEF ClaimAttempt, bounds
<1>2. \A t \in Sessions : Copy(t)' = Copy(t) /\ (pc'[t] \in Sending => t = s \/ pc[t] \in Sending)
  BY <1>1 DEF Copy, TypeOK
<1>3. /\ new.item = cur[s] /\ new.num = seen[s].num /\ new.status = "started"
      /\ new.hash = Copy(s).payload /\ new.at = seen[s].at
  OBVIOUS
<1> HIDE DEF new
<1>4. NoLockWhileSending'
  BY <1>1, <1>2, PublishAssumption DEF DeliveryInv, NoLockWhileSending, Released
<1>5. SendsWhatItClaimed'
  <2>1. ASSUME NEW t \in Sessions, pc'[t] \in Sending, Live(cur[t])
        PROVE  \E a \in attempts' : /\ a.item = cur[t] /\ a.num = seen[t].num
                                    /\ a.hash = Copy(t).payload /\ a.at = seen[t].at
    <3>1. CASE t = s
      BY <1>1, <1>3, <3>1
    <3>2. CASE t # s
      BY <1>1, <1>2, <2>1, <3>2 DEF DeliveryInv, SendsWhatItClaimed, Claim
    <3> QED
      BY <3>1, <3>2
  <2> QED
    BY <1>1, <1>2, <2>1 DEF SendsWhatItClaimed, Claim, Live
<1>6. AcceptedIsDelivered'
  <2>1. \A t \in Sessions : PostOf(t)' = PostOf(t) /\ (pc'[t] = "accepted" => pc[t] = "accepted")
    BY <1>1, <1>2 DEF PostOf, TypeOK
  <2> QED
    BY <1>1, <2>1 DEF DeliveryInv, AcceptedIsDelivered
<1>7. PostsHaveAttempts' /\ SucceededIsDelivered'
  BY <1>1, <1>3 DEF DeliveryInv, PostsHaveAttempts, SucceededIsDelivered, Live
<1>8. StartedIsOwned'
  <2>1. pc'[s] \in Sending /\ \A t \in Sessions : pc[t] \in Sending => pc'[t] \in Sending
    BY <1>1 DEF TypeOK, Sending
  <2> QED
    BY <1>1, <1>3, <2>1 DEF DeliveryInv, StartedIsOwned
<1> QED
  BY <1>4, <1>5, <1>6, <1>7, <1>8 DEF DeliveryInv

\* Whatever Telegram answers: a post, if one arrives, is that of the claim.
LEMMA ExchangeKeepsDelivery ==
    ASSUME TypeOK, ClaimInv, DeliveryInv, NEW s \in Sessions,
           RefuseToSend(s) \/ TelegramAccepts(s) \/ TelegramFails(s)
    PROVE  DeliveryInv'
<1>1. /\ UNCHANGED <<queue, created, attempts, lock, cur, cache, seen, crashes>>
      /\ pc[s] = "claimed" /\ pc'[s] \in {"accepted", "failing"}
      /\ \A t \in Sessions \ {s} : pc'[t] = pc[t]
      /\ delivered' = delivered \/ delivered' = delivered \cup {PostOf(s)}
      /\ pc'[s] = "accepted" => delivered' = delivered \cup {PostOf(s)}
  BY DEF RefuseToSend, TelegramAccepts, TelegramFails, Fails, Sendable, rows, bounds, TypeOK
<1>2. cur[s] \in Items /\ cur[s] <= created
  BY <1>1, LockedItem DEF ClaimInv, IdsHandedOut, TypeOK
<1>3. \A t \in Sessions : /\ pc'[t] \in Sending <=> pc[t] \in Sending
                          /\ Copy(t)' = Copy(t) /\ PostOf(t)' = PostOf(t)
  BY <1>1 DEF Sending, Copy, PostOf
<1>4. NoLockWhileSending' /\ SendsWhatItClaimed' /\ StartedIsOwned'
  BY <1>1, <1>3 DEF DeliveryInv, NoLockWhileSending, SendsWhatItClaimed, StartedIsOwned, Claim, Live
<1>5. AcceptedIsDelivered'
  BY <1>1, <1>3 DEF DeliveryInv, AcceptedIsDelivered
<1>6. SucceededIsDelivered'
  BY <1>1 DEF DeliveryInv, SucceededIsDelivered
<1>7. PostsHaveAttempts'
  <2>1. /\ PostOf(s).item = cur[s] /\ PostOf(s).num = seen[s].num
        /\ PostOf(s).payload = Copy(s).payload /\ PostOf(s).at = seen[s].at
    BY DEF PostOf
  <2>2. Live(cur[s]) => \E a \in attempts : /\ a.item = cur[s] /\ a.num = seen[s].num
                                            /\ a.hash = Copy(s).payload /\ a.at = seen[s].at
    BY <1>1 DEF DeliveryInv, SendsWhatItClaimed, Claim, Sending
  <2> QED
    BY <1>1, <1>2, <2>1, <2>2 DEF DeliveryInv, PostsHaveAttempts, Live
<1> QED
  BY <1>4, <1>5, <1>6, <1>7 DEF DeliveryInv

\* An outcome settles the one attempt the session owns, and "succeeded" follows "accepted".
LEMMA OutcomeKeepsDelivery ==
    ASSUME TypeOK, ClaimInv, DeliveryInv, NEW s \in Sessions,
           NEW status \in {"succeeded", "failed"}, NEW dead \in BOOLEAN,
           pc[s] \in Sending, status = "succeeded" => pc[s] = "accepted", Live(cur[s]),
           SetOutcome(s, status, dead), Leaves(s),
           UNCHANGED <<created, delivered, crashes>>, \A i \in Items : Live(i)' <=> Live(i)
    PROVE  DeliveryInv'
<1> DEFINE mine(a) == a.item = cur[s] /\ a.num = seen[s].num
           after(a) == IF mine(a) THEN [a EXCEPT !.status = status, !.dead = dead] ELSE a
<1>1. attempts' = {after(a) : a \in attempts}
  BY DEF SetOutcome
<1>2. cur[s] \in Items
  BY LockedItem DEF Sending
<1>3. ASSUME NEW a \in attempts
      PROVE  /\ after(a).item = a.item /\ after(a).num = a.num
             /\ after(a).hash = a.hash /\ after(a).at = a.at
             /\ after(a).status = IF mine(a) THEN status ELSE a.status
  <2>1. a \in Attempt
    BY DEF TypeOK
  <2> QED
    BY <2>1 DEF Attempt
<1> HIDE DEF after
<1>5. ASSUME NEW t \in Sessions, pc'[t] \in Sending
      PROVE  /\ t # s /\ pc[t] = pc'[t] /\ cur[t] \in Items
             /\ cur'[t] = cur[t] /\ seen'[t] = seen[t] /\ Copy(t)' = Copy(t)
             /\ \A i \in Items : lock'[i] = t => lock[i] = t
  BY <1>5, LockedItem DEF Leaves, OthersKeep, Copy, Sending
<1>6. NoLockWhileSending'
  BY <1>5 DEF DeliveryInv, NoLockWhileSending
<1>7. SendsWhatItClaimed'
  <2>1. ASSUME NEW t \in Sessions, pc[t] \in Sending, Live(cur[t])
        PROVE  \E a \in attempts' : /\ a.item = cur[t] /\ a.num = seen[t].num
                                    /\ a.hash = Copy(t).payload /\ a.at = seen[t].at
    BY <1>1, <1>3, <2>1 DEF DeliveryInv, SendsWhatItClaimed, Claim
  <2> QED
    BY <1>5, <2>1 DEF SendsWhatItClaimed, Claim
<1>8. AcceptedIsDelivered'
  <2>1. ASSUME NEW t \in Sessions, pc'[t] = "accepted" PROVE PostOf(t)' = PostOf(t)
    BY <1>5, <2>1 DEF PostOf, Sending
  <2> QED
    BY <1>5, <2>1 DEF DeliveryInv, AcceptedIsDelivered, Sending
<1>9. PostsHaveAttempts'
  <2>1. \A p \in delivered : p.item \in Items
    BY DEF TypeOK, Post
  <2> QED
    BY <1>1, <1>3, <2>1 DEF DeliveryInv, PostsHaveAttempts
<1>10. SucceededIsDelivered'
  <2>1. ASSUME NEW a \in attempts, mine(a), status = "succeeded"
        PROVE  \E p \in delivered : p.item = a.item /\ p.num = a.num /\ p.payload = a.hash
    <3>1. PostOf(s) \in delivered
      BY <2>1 DEF DeliveryInv, AcceptedIsDelivered
    <3>2. PICK b \in attempts : mine(b) /\ b.hash = Copy(s).payload
      BY DEF DeliveryInv, SendsWhatItClaimed, Claim
    <3>3. b = a
      BY <2>1, <3>2 DEF ClaimInv, AttemptsNumbered
    <3> QED
      BY <2>1, <3>1, <3>2, <3>3 DEF PostOf
  <2>2. ASSUME NEW a \in attempts, after(a).status = "succeeded"
        PROVE  \E p \in delivered : p.item = a.item /\ p.num = a.num /\ p.payload = a.hash
    <3>1. CASE mine(a)
      BY <1>3, <2>1, <2>2, <3>1
    <3>2. CASE ~ mine(a)
      BY <1>3, <2>2, <3>2 DEF DeliveryInv, SucceededIsDelivered
    <3> QED
      BY <3>1, <3>2
  <2> QED
    BY <1>1, <1>3, <2>2 DEF SucceededIsDelivered
<1>11. StartedIsOwned'
  <2>1. ASSUME crashes = 0, NEW a \in attempts, after(a).status = "started"
        PROVE  \E t \in Sessions : pc'[t] \in Sending /\ cur'[t] = a.item /\ seen'[t].num = a.num
    <3>1. ~ mine(a) /\ a.status = "started"
      BY <1>3, <2>1
    <3>2. PICK t \in Sessions : pc[t] \in Sending /\ cur[t] = a.item /\ seen[t].num = a.num
      BY <2>1, <3>1 DEF DeliveryInv, StartedIsOwned
    <3>3. t # s
      BY <3>1, <3>2
    <3> QED
      BY <3>2, <3>3 DEF Leaves, OthersKeep
  <2> QED
    BY <1>1, <1>3, <2>1 DEF StartedIsOwned
<1> QED
  BY <1>6, <1>7, <1>8, <1>9, <1>10, <1>11 DEF DeliveryInv

-----------------------------------------------------------------------------
(* Requests and the clock *)

\* Nobody moves; an item that was deleted takes its attempts along and does not come back.
LEMMA RequestKeepsDelivery ==
    ASSUME TypeOK, ClaimInv, DeliveryInv,
           UNCHANGED <<lock, pc, cur, cache, seen, delivered, crashes>>, created <= created',
           attempts' \subseteq attempts, \A a \in attempts \ attempts' : ~ Live(a.item)',
           created' \in Nat, \A i \in Items : Live(i)' /\ i <= created => Live(i)
    PROVE  DeliveryInv'
<1>1. \A t \in Sessions : Copy(t)' = Copy(t) /\ PostOf(t)' = PostOf(t)
  BY DEF Copy, PostOf
<1>2. NoLockWhileSending' /\ AcceptedIsDelivered'
  BY <1>1 DEF DeliveryInv, NoLockWhileSending, AcceptedIsDelivered
<1>3. SendsWhatItClaimed'
  <2> SUFFICES ASSUME NEW t \in Sessions, pc[t] \in Sending, Live(cur[t])'
               PROVE  \E a \in attempts' : /\ a.item = cur[t] /\ a.num = seen[t].num
                                           /\ a.hash = Copy(t).payload /\ a.at = seen[t].at
    BY <1>1 DEF SendsWhatItClaimed, Claim
  <2>1. cur[t] \in Items /\ cur[t] <= created
    BY LockedItem DEF Sending, ClaimInv, IdsHandedOut, TypeOK
  <2>2. PICK a \in attempts : /\ a.item = cur[t] /\ a.num = seen[t].num
                              /\ a.hash = Copy(t).payload /\ a.at = seen[t].at
    BY <2>1 DEF DeliveryInv, SendsWhatItClaimed, Claim
  <2>3. a \in attempts'
    BY <2>2
  <2> QED
    BY <2>2, <2>3
<1>4. PostsHaveAttempts'
  <2> SUFFICES ASSUME NEW p \in delivered
               PROVE  /\ p.item <= created'
                      /\ Live(p.item)' => \E a \in attempts' :
                             a.item = p.item /\ a.num = p.num /\ a.hash = p.payload /\ a.at = p.at
    BY DEF PostsHaveAttempts
  <2>1. p.item \in Items /\ p.item \in Nat /\ p.item <= created /\ created \in Nat
    BY PublishAssumption DEF TypeOK, Post, DeliveryInv, PostsHaveAttempts
  <2>2. ASSUME Live(p.item)'
        PROVE  \E a \in attempts' :
                   a.item = p.item /\ a.num = p.num /\ a.hash = p.payload /\ a.at = p.at
    <3>1. PICK a \in attempts : a.item = p.item /\ a.num = p.num /\ a.hash = p.payload /\ a.at = p.at
      BY <2>1, <2>2 DEF DeliveryInv, PostsHaveAttempts
    <3>2. a \in attempts'
      BY <2>2, <3>1
    <3> QED
      BY <3>1, <3>2
  <2> QED
    BY <2>1, <2>2
<1>5. SucceededIsDelivered' /\ StartedIsOwned'
  BY DEF DeliveryInv, SucceededIsDelivered, StartedIsOwned
<1> QED
  BY <1>2, <1>3, <1>4, <1>5 DEF DeliveryInv

\* Only a new id comes to life.
LEMMA RequestsReviveNothing ==
    ASSUME TypeOK,
           \/ \E e \in Editors : Edit(e)
           \/ \E i \in Items : DeleteItem(i)
           \/ CreateItem \/ Tick
    PROVE  \A i \in Items : Live(i)' /\ i <= created => Live(i)
<1>1. CASE queue' = queue
  BY <1>1 DEF Live
<1>2. ASSUME NEW i \in Items, DeleteItem(i)
      PROVE  \A j \in Items : Live(j)' => Live(j)
  BY <1>2 DEF DeleteItem, Live, TypeOK
<1>3. ASSUME NEW e \in Editors, CommitUpdate(e)
      PROVE  \A j \in Items : Live(j)' => Live(j)
  BY <1>3 DEF CommitUpdate, Live, TypeOK
<1>4. CASE CreateItem
  <2>1. created + 1 \in Items /\ \A i \in Items \ {created + 1} : queue'[i] = queue[i]
    BY <1>4 DEF CreateItem, TypeOK
  <2>2. ~ (created + 1 <= created)
    BY DEF TypeOK
  <2> QED
    BY <2>1, <2>2 DEF Live
<1> QED
  BY <1>1, <1>2, <1>3, <1>4 DEF Edit, UpdateRejected, LoadForUpdate, Tick, rows

LEMMA EnvironmentStepKeepsDelivery ==
    ASSUME TypeOK, ClaimInv, DeliveryInv,
           \/ \E e \in Editors : Edit(e)
           \/ \E i \in Items : DeleteItem(i)
           \/ CreateItem \/ Tick
    PROVE  DeliveryInv'
<1>1. UNCHANGED <<lock, pc, cur, cache, seen, delivered, crashes>>
  BY DEF Edit, CommitUpdate, UpdateRejected, LoadForUpdate, DeleteItem, CreateItem, Tick,
         session, bounds
<1>2. created <= created' /\ created' \in Nat
  BY DEF Edit, CommitUpdate, UpdateRejected, LoadForUpdate, DeleteItem, CreateItem, Tick, rows, TypeOK
<1>3. attempts' \subseteq attempts /\ \A a \in attempts \ attempts' : ~ Live(a.item)'
  <2>1. ASSUME NEW i \in Items, DeleteItem(i)
        PROVE  attempts' \subseteq attempts /\ \A a \in attempts \ attempts' : ~ Live(a.item)'
    BY <2>1 DEF DeleteItem, AttemptsOf, Live, TypeOK
  <2>2. CASE attempts' = attempts
    BY <2>2
  <2> QED
    BY <2>1, <2>2 DEF Edit, CommitUpdate, UpdateRejected, LoadForUpdate, CreateItem, Tick, rows
<1>4. \A i \in Items : Live(i)' /\ i <= created => Live(i)
  BY RequestsReviveNothing
<1> QED
  BY <1>1, <1>2, <1>3, <1>4, RequestKeepsDelivery

LEMMA StepKeepsDelivery ==
    ASSUME TypeOK, ClaimInv, DeliveryInv, [Next]_vars
    PROVE  DeliveryInv'
<1>1. ASSUME NEW s \in Sessions, Start(s) \/ Publish(s) \/ Crash(s) PROVE DeliveryInv'
  <2> USE TypesSplit
  <2>1. created' = created /\ \A i \in Items : Live(i)' <=> Live(i)
    BY <1>1, SessionsKeepRows
  <2>2. CASE RecordSuccess(s)
    <3>1. Leaves(s)
      BY <2>2, CloseLeaves, NextInBatchLeaves DEF RecordSuccess
    <3> QED
      BY <2>1, <2>2, <3>1, OutcomeKeepsDelivery DEF RecordSuccess, Sending, bounds
  <2>3. CASE RecordFailure(s)
    <3>1. Leaves(s)
      <4>1. CASE Raise(s, err[s])
        BY <4>1, RaiseLeaves
      <4>2. CASE /\ pc' = [pc EXCEPT ![s] = "deadletter"]
                 /\ UNCHANGED <<lock, cur, todo, phase, cache, seen, err, tries>>
        BY <4>2 DEF Leaves, OthersKeep, SessionTypes, Sending
      <4> QED
        BY <2>3, <4>1, <4>2 DEF RecordFailure
    <3>2. Terminal(s) \in BOOLEAN
      BY DEF Terminal, FinalExecution
    <3> QED
      BY <2>1, <2>3, <3>1, <3>2, OutcomeKeepsDelivery DEF RecordFailure, Sending, bounds
  <2>4. CASE ClaimAttempt(s)
    BY <2>4, ClaimKeepsDelivery
  <2>5. CASE RefuseToSend(s) \/ TelegramAccepts(s) \/ TelegramFails(s)
    BY <2>5, ExchangeKeepsDelivery
  <2> QED
    BY <1>1, <2>1, <2>2, <2>3, <2>4, <2>5, OtherStepsLeave, LeavingKeepsDelivery
<1>2. CASE UNCHANGED vars
  <2>1. created <= created' /\ created' \in Nat
    BY <1>2 DEF vars, TypeOK
  <2> QED
    BY <1>2, <2>1, RequestKeepsDelivery DEF vars, Live
<1> QED
  BY <1>1, <1>2, EnvironmentStepKeepsDelivery DEF Next, Quiescent

\* The delivery invariant holds in every reachable state.
THEOREM DeliveryCorrect == Spec => []DeliveryInv
<1>1. Init => DeliveryInv
  BY DEF Init, DeliveryInv, NoLockWhileSending, SendsWhatItClaimed, AcceptedIsDelivered,
         PostsHaveAttempts, SucceededIsDelivered, StartedIsOwned, Sending
<1>2. TypeOK /\ ClaimInv /\ DeliveryInv /\ [Next]_vars => DeliveryInv'
  BY StepKeepsDelivery
<1> QED
  BY <1>1, <1>2, TypeCorrect, ClaimsCorrect, PTL DEF Spec

\* Nobody talks to Telegram while it holds a row lock, however many items a batch has
\* suppressed before under locks it keeps.
THEOREM SendersHoldNoLock == Spec => []NoLockWhileSending
<1>1. DeliveryInv => NoLockWhileSending
  BY DEF DeliveryInv
<1> QED
  BY <1>1, DeliveryCorrect, PTL

\* Without a crash, no path through the publisher leaves a started attempt behind, whose
\* guard would block the item for a window.
THEOREM StartedHaveOwners == Spec => []StartedIsOwned
<1>1. DeliveryInv => StartedIsOwned
  BY DEF DeliveryInv
<1> QED
  BY <1>1, DeliveryCorrect, PTL

\* Every post is of a durable claim for its payload, and an attempt that says succeeded has
\* its post in the chat, edits and deletions notwithstanding.
THEOREM PostsAreClaimed == Spec => []PostsMatchAttempts
<1>1. DeliveryInv => PostsMatchAttempts
  BY DEF DeliveryInv, PostsHaveAttempts, SucceededIsDelivered, PostsMatchAttempts
<1> QED
  BY <1>1, DeliveryCorrect, PTL

-----------------------------------------------------------------------------
(* Guards and posts *)

\* What the ledger alone shows: guards expire before the next attempt for the payload.
LEMMA LedgerKeepsOrder ==
    ASSUME TypeOK, TypeOK', ClaimInv, GuardsExpireFirst, [Ledger!Next]_<<attempts, now>>
    PROVE  GuardsExpireFirst'
<1>1. ASSUME NEW i \in Items, NEW h \in Payloads, Ledger!Open(i, h)
      PROVE  GuardsExpireFirst'
  <2>1. PICK t \in 0..now, n \in Numbers(i) \cup {0} :
            /\ Numbers(i) = 1..n
            /\ \A e \in attempts : e.item = i /\ e.hash = h /\ Guarding(e) => e.at + Window <= t
            /\ attempts' = attempts \cup {[item |-> i, num |-> n + 1, status |-> "started",
                                           hash |-> h, at |-> t, dead |-> FALSE]}
    BY <1>1, LedgerNames DEF Ledger!Open
  <2>2. n \in Nat /\ \A a \in attempts : a.item = i => a.num \in 1..n
    BY <2>1 DEF Numbers, AttemptsOf, TypeOK, Attempt
  <2> DEFINE new == [item |-> i, num |-> n + 1, status |-> "started", hash |-> h, at |-> t,
                     dead |-> FALSE]
  <2>3. /\ attempts' = attempts \cup {new}
        /\ new.item = i /\ new.num = n + 1 /\ new.hash = h /\ new.at = t
    BY <2>1
  <2> HIDE DEF new
  <2>4. ASSUME NEW b \in attempts', new.item = b.item PROVE ~ (new.num < b.num)
    BY <2>2, <2>3, <2>4
  <2>5. ASSUME NEW a \in attempts, a.item = new.item, a.hash = new.hash, Guarding(a)
        PROVE  a.at + Window <= new.at
    BY <2>1, <2>3, <2>5
  <2> QED
    BY <2>3, <2>4, <2>5 DEF GuardsExpireFirst
<1>2. ASSUME NEW e \in attempts, Ledger!Settle(e) PROVE GuardsExpireFirst'
  <2>1. PICK f : /\ attempts' = (attempts \ {e}) \cup {f} /\ Guarding(e)
                 /\ f.item = e.item /\ f.num = e.num /\ f.hash = e.hash /\ f.at = e.at
    <3>1. PICK status \in {"succeeded", "failed"}, dead \in BOOLEAN :
              attempts' = (attempts \ {e}) \cup {[e EXCEPT !.status = status, !.dead = dead]}
      BY <1>2 DEF Ledger!Settle
    <3>2. e.status = "started" /\ e \in Attempt
      BY <1>2 DEF Ledger!Settle, TypeOK
    <3>3. ASSUME NEW f, f = [e EXCEPT !.status = status, !.dead = dead]
          PROVE  f.item = e.item /\ f.num = e.num /\ f.hash = e.hash /\ f.at = e.at
      BY <3>2, <3>3 DEF Attempt
    <3> QED
      BY <3>1, <3>2, <3>3 DEF Guarding
  <2>2. e.num \in Nat
    BY DEF TypeOK, Attempt
  <2> QED
    BY <2>1, <2>2 DEF GuardsExpireFirst
<1>3. ASSUME NEW i \in Items, Ledger!Forget(i) PROVE GuardsExpireFirst'
  BY <1>3 DEF Ledger!Forget, GuardsExpireFirst
<1>4. CASE attempts' = attempts
  BY <1>4 DEF GuardsExpireFirst
<1> QED
  BY <1>1, <1>2, <1>3, <1>4 DEF Ledger!Next, Ledger!Pass

LEMMA GuardsExpire == Spec => []GuardsExpireFirst
<1>1. Init => GuardsExpireFirst
  BY DEF Init, GuardsExpireFirst
<1>2. TypeOK /\ TypeOK' /\ ClaimInv /\ GuardsExpireFirst /\ [Next]_vars => GuardsExpireFirst'
  BY StepRefines, LedgerKeepsOrder
<1> QED
  BY <1>1, <1>2, TypeCorrect, ClaimsCorrect, PTL DEF Spec

\* The promise to the readers of the channel: the same payload goes out again within one
\* window only after an attempt that was recorded as failed.
THEOREM RepeatsFollowFailures == Spec => []DuplicatesFollowFailures
<1>1. TypeOK /\ DeliveryInv /\ GuardsExpireFirst => DuplicatesFollowFailures
  <2> SUFFICES ASSUME TypeOK, DeliveryInv, GuardsExpireFirst,
                      NEW p \in delivered, NEW q \in delivered,
                      p.item = q.item, p.payload = q.payload, p.num < q.num,
                      q.at < p.at + Window, Live(p.item)
               PROVE  \E a \in attempts : a.item = p.item /\ a.num = p.num /\ a.status = "failed"
    BY DEF DuplicatesFollowFailures
  <2>1. PICK a \in attempts : a.item = p.item /\ a.num = p.num /\ a.hash = p.payload /\ a.at = p.at
    BY DEF DeliveryInv, PostsHaveAttempts
  <2>2. PICK b \in attempts : b.item = q.item /\ b.num = q.num /\ b.hash = q.payload /\ b.at = q.at
    BY DEF DeliveryInv, PostsHaveAttempts
  <2>3. ~ (a.at + Window <= b.at)
    BY <2>1, <2>2, PublishAssumption DEF TypeOK, Post
  <2>4. ~ Guarding(a)
    BY <2>1, <2>2, <2>3 DEF GuardsExpireFirst
  <2> QED
    BY <2>1, <2>4 DEF Guarding, TypeOK, Attempt
<1> QED
  BY <1>1, TypeCorrect, DeliveryCorrect, GuardsExpire, PTL

-----------------------------------------------------------------------------
(* What the rows say *)

\* A repair rests on an attempt that is still there
BlocksStand ==
    \A s \in Sessions :
        pc[s] = "guard" /\ seen[s].block # Null /\ seen[s].block.status = "succeeded"
            => seen[s].block \in AttemptsOf(cur[s])

\* Whoever is about to fail an item has dead-lettered an attempt of it
DeadLettersStand ==
    \A s \in Sessions : pc[s] = "deadletter" /\ Live(cur[s]) => \E a \in AttemptsOf(cur[s]) : a.dead

DeadHaveFailed == \A a \in attempts : a.dead => a.status = "failed"

BackingInv == RowsBackedByAttempts /\ BlocksStand /\ DeadLettersStand /\ DeadHaveFailed

\* A settled attempt stays as it is for as long as its item lives.
LEMMA SettledStay ==
    ASSUME TypeOK, ClaimInv, [Next]_vars
    PROVE  \A a \in attempts : a.status # "started" /\ Live(a.item)' => a \in attempts'
<1>1. ASSUME NEW i \in Items, DeleteItem(i)
      PROVE  \A a \in attempts : Live(a.item)' => a \in attempts'
  BY <1>1 DEF DeleteItem, AttemptsOf, Live, TypeOK
<1>2. ASSUME NEW s \in Sessions, RecordSuccess(s) \/ RecordFailure(s)
      PROVE  \A a \in attempts : a.status # "started" => a \in attempts'
  <2>1. PICK status, dead : SetOutcome(s, status, dead)
    BY <1>2 DEF RecordSuccess, RecordFailure
  <2>2. \A a \in Claim(s) : a.status = "started"
    BY <1>2 DEF RecordSuccess, RecordFailure, Claim, ClaimInv, ClaimsAreOwned, Sending, AttemptsOf
  <2> QED
    BY <2>1, <2>2 DEF SetOutcome, Claim
<1>3. CASE attempts \subseteq attempts'
  BY <1>3
<1> QED
  BY <1>1, <1>2, <1>3
  DEF Next, Start, Publish, Crash, Edit, BeatTick, StartTask, StartCall, ListItems, TakeItem,
      PageDone, LockItem, ItemMissing, ClaimAttempt, Suppress, HealDrift, RefuseToSend,
      TelegramAccepts, TelegramFails, Fails, MarkItemFailed, ItemVanished, AbortVictim,
      CommitUpdate, UpdateRejected, LoadForUpdate, CreateItem, Tick, Quiescent, vars, rows

LEMMA LedgerKeepsDead ==
    ASSUME TypeOK, DeadHaveFailed, [Ledger!Next]_<<attempts, now>>
    PROVE  DeadHaveFailed'
<1>1. ASSUME NEW i \in Items, NEW h \in Payloads, Ledger!Open(i, h) PROVE DeadHaveFailed'
  BY <1>1 DEF Ledger!Open, DeadHaveFailed
<1>2. ASSUME NEW e \in attempts, Ledger!Settle(e) PROVE DeadHaveFailed'
  <2>1. PICK status \in {"succeeded", "failed"}, dead \in BOOLEAN :
            /\ dead => status = "failed"
            /\ attempts' = (attempts \ {e}) \cup {[e EXCEPT !.status = status, !.dead = dead]}
    BY <1>2 DEF Ledger!Settle
  <2>2. e \in Attempt
    BY DEF TypeOK
  <2>3. ASSUME NEW f, f = [e EXCEPT !.status = status, !.dead = dead]
        PROVE  f.status = status /\ f.dead = dead
    BY <2>2, <2>3 DEF Attempt
  <2> QED
    BY <2>1, <2>3 DEF DeadHaveFailed
<1>3. CASE attempts' \subseteq attempts
  BY <1>3 DEF DeadHaveFailed
<1> QED
  BY <1>1, <1>2, <1>3 DEF Ledger!Next, Ledger!Forget, Ledger!Pass

\* A session comes to the guard by the lookup, and to a dead letter by the failure, only.
LEMMA OthersKeepStage ==
    ASSUME TypeOK, NEW s \in Sessions, Start(s) \/ Publish(s) \/ Crash(s),
           ~ LockItem(s), ~ RecordFailure(s)
    PROVE  OthersKeep(s) /\ pc'[s] \notin {"guard", "deadletter"}
<1> USE TypesSplit
<1>1. ASSUME Close(s) \/ NextInBatch(s) \/ RunAgain(s) PROVE pc'[s] \notin {"guard", "deadletter"}
  BY <1>1 DEF Close, NextInBatch, RunAgain, SessionTypes
<1>2. pc'[s] \notin {"guard", "deadletter"}
  BY <1>1
  DEF Start, Publish, Crash, BeatTick, StartTask, StartCall, ListItems, TakeItem, PageDone,
      ItemMissing, ClaimAttempt, Suppress, HealDrift, Raise, RefuseToSend, TelegramAccepts,
      TelegramFails, Fails, RecordSuccess, MarkItemFailed, ItemVanished, AbortVictim, SessionTypes
<1>3. OthersKeep(s)
  <2>1. CASE ClaimAttempt(s)
    BY <2>1 DEF ClaimAttempt, Released, OthersKeep, SessionTypes
  <2>2. CASE RefuseToSend(s) \/ TelegramAccepts(s) \/ TelegramFails(s)
    BY <2>2 DEF RefuseToSend, TelegramAccepts, TelegramFails, Fails, OthersKeep, SessionTypes
  <2>3. CASE RecordSuccess(s)
    BY <2>3, CloseLeaves, NextInBatchLeaves DEF RecordSuccess, Leaves
  <2> QED
    BY <2>1, <2>2, <2>3, OtherStepsLeave DEF Leaves
<1> QED
  BY <1>2, <1>3

\* What the other sessions rely on stays.
LEMMA StagesKept ==
    ASSUME TypeOK, ClaimInv, ClaimInv', BackingInv, [Next]_vars, NEW t \in Sessions,
           pc'[t] = pc[t], cur'[t] = cur[t], seen'[t] = seen[t],
           pc[t] \in {"guard", "deadletter"}, Live(cur[t])' => Live(cur[t])
    PROVE  /\ pc[t] = "guard" /\ seen[t].block # Null /\ seen[t].block.status = "succeeded"
                  => seen[t].block \in AttemptsOf(cur[t])'
           /\ pc[t] = "deadletter" /\ Live(cur[t])' => \E a \in AttemptsOf(cur[t])' : a.dead
<1>1. ASSUME pc[t] = "guard", seen[t].block # Null, seen[t].block.status = "succeeded"
      PROVE  seen[t].block \in AttemptsOf(cur[t])'
  <2>1. seen[t].block \in attempts /\ seen[t].block.item = cur[t]
    BY <1>1 DEF BackingInv, BlocksStand, AttemptsOf
  <2>2. Live(cur[t])'
    BY <1>1 DEF ClaimInv, GuardIsCurrent, LookupIsCurrent, Live
  <2> QED
    BY <1>1, <2>1, <2>2, SettledStay DEF AttemptsOf, Live
<1>2. ASSUME pc[t] = "deadletter", Live(cur[t])' PROVE \E a \in AttemptsOf(cur[t])' : a.dead
  <2>1. PICK a \in attempts : a.item = cur[t] /\ a.dead
    BY <1>2 DEF BackingInv, DeadLettersStand, AttemptsOf
  <2>2. a.status # "started"
    BY <2>1 DEF BackingInv, DeadHaveFailed
  <2>3. a \in attempts'
    BY <1>2, <2>1, <2>2, SettledStay DEF Live
  <2> QED
    BY <1>2, <2>1, <2>3 DEF AttemptsOf
<1> QED
  BY <1>1, <1>2

LEMMA SessionKeepsStages ==
    ASSUME TypeOK, TypeOK', ClaimInv, ClaimInv', BackingInv, NEW s \in Sessions,
           Start(s) \/ Publish(s) \/ Crash(s)
    PROVE  BlocksStand' /\ DeadLettersStand'
<1> USE TypesSplit
<1>1. OthersKeep(s)
  <2>1. CASE LockItem(s)
    BY <2>1 DEF LockItem, MayLock, OthersKeep, SessionTypes
  <2>2. CASE RecordFailure(s)
    BY <2>2, RaiseLeaves DEF RecordFailure, Leaves, OthersKeep, SessionTypes
  <2> QED
    BY <2>1, <2>2, OthersKeepStage
<1>2. ASSUME NEW t \in Sessions \ {s}, pc'[t] \in {"guard", "deadletter"}
      PROVE  /\ pc'[t] = "guard" /\ seen'[t].block # Null /\ seen'[t].block.status = "succeeded"
                    => seen'[t].block \in AttemptsOf(cur[t])'
             /\ pc'[t] = "deadletter" /\ Live(cur[t])' => \E a \in AttemptsOf(cur[t])' : a.dead
  <2>1. pc'[t] = pc[t] /\ cur'[t] = cur[t] /\ seen'[t] = seen[t]
    BY <1>1 DEF OthersKeep
  <2>2. cur[t] \in Items
    BY <1>2, <2>1, LockedItem
  <2>3. Live(cur[t])' => Live(cur[t])
    BY <2>1, <2>2, SessionsKeepRows DEF Live
  <2>4. [Next]_vars
    BY DEF Next
  <2> QED
    BY <1>2, <2>1, <2>3, <2>4, StagesKept
<1>3. /\ pc'[s] = "guard" /\ seen'[s].block # Null /\ seen'[s].block.status = "succeeded"
             => seen'[s].block \in AttemptsOf(cur[s])'
      /\ pc'[s] = "deadletter" /\ Live(cur[s])' => \E a \in AttemptsOf(cur[s])' : a.dead
  <2>1. CASE LockItem(s)
    <3> DEFINE guards == ActiveGuards(cur[s], Loaded(s, cur[s]).payload, now)
    <3>1. cur[s] \in Items /\ guards \in SUBSET AttemptsOf(cur[s])
      BY <2>1, LockedItem DEF LockItem, ActiveGuards
    <3>2. Newest(guards) # Null => Newest(guards) \in AttemptsOf(cur[s])
      <4> HIDE DEF guards
      <4> QED
        BY <3>1, NewestChooses DEF ClaimInv
    <3>3. /\ seen'[s].block = Newest(guards) /\ pc'[s] = "guard"
          /\ cur'[s] = cur[s] /\ attempts' = attempts
      BY <2>1 DEF LockItem, SessionTypes, rows
    <3> HIDE DEF guards
    <3> QED
      BY <3>2, <3>3 DEF AttemptsOf
  <2>2. CASE RecordFailure(s)
    <3>1. CASE Raise(s, err[s])
      BY <3>1 DEF Raise, NextInBatch, RunAgain, Close, SessionTypes
    <3>2. CASE /\ Terminal(s) /\ pc' = [pc EXCEPT ![s] = "deadletter"]
               /\ UNCHANGED <<lock, cur, todo, phase, cache, seen, err, tries>>
      <4>1. PICK a \in attempts : a.item = cur[s] /\ a.num = seen[s].num
        BY <2>2 DEF RecordFailure, ClaimInv, ClaimsAreOwned, Sending, Numbers, AttemptsOf
      <4>2. a \in Attempt
        BY DEF TypeOK
      <4>3. ASSUME NEW f, f = [a EXCEPT !.status = "failed", !.dead = TRUE]
            PROVE  f.item = cur[s] /\ f.dead
        BY <4>1, <4>2, <4>3 DEF Attempt
      <4>4. [a EXCEPT !.status = "failed", !.dead = TRUE] \in attempts'
        BY <2>2, <3>2, <4>1 DEF RecordFailure, SetOutcome
      <4>5. \E f \in AttemptsOf(cur[s])' : f.dead
        BY <3>2, <4>3, <4>4 DEF AttemptsOf
      <4>6. pc'[s] = "deadletter"
        BY <3>2 DEF SessionTypes
      <4> QED
        BY <4>5, <4>6
    <3> QED
      BY <2>2, <3>1, <3>2 DEF RecordFailure
  <2> QED
    BY <2>1, <2>2, OthersKeepStage
<1> QED
  BY <1>2, <1>3 DEF BlocksStand, DeadLettersStand

LEMMA RequestKeepsStages ==
    ASSUME TypeOK, ClaimInv, ClaimInv', BackingInv, [Next]_vars, UNCHANGED <<pc, cur, seen>>,
           \A i \in Items : Live(i)' /\ i <= created => Live(i)
    PROVE  BlocksStand' /\ DeadLettersStand'
<1> SUFFICES ASSUME NEW t \in Sessions, pc[t] \in {"guard", "deadletter"}
             PROVE  /\ pc[t] = "guard" /\ seen[t].block # Null
                       /\ seen[t].block.status = "succeeded"
                          => seen[t].block \in AttemptsOf(cur[t])'
                    /\ pc[t] = "deadletter" /\ Live(cur[t])'
                          => \E a \in AttemptsOf(cur[t])' : a.dead
  BY DEF BlocksStand, DeadLettersStand, Live
<1>1. cur[t] \in Items /\ cur[t] <= created
  <2>1. pc[t] \notin {"idle", "list", "next"}
    OBVIOUS
  <2>2. cur[t] \in 1..created /\ created \in Nat
    BY <2>1 DEF ClaimInv, IdsHandedOut, TypeOK
  <2> QED
    BY <2>1, <2>2, LockedItem
<1>2. Live(cur[t])' => Live(cur[t])
  BY <1>1 DEF Live
<1> QED
  BY <1>2, StagesKept

\* The columns of row i that need backing are those it had, or were cleared.
RowKept(i) ==
    Live(i)' => /\ Live(i) /\ queue'[i].msg \in {queue[i].msg, Null}
                /\ queue'[i].status = "failed" => queue[i].status = "failed"

BackedRow(i) ==
    /\ queue[i].msg # Null => \E a \in AttemptsOf(i) : a.num = queue[i].msg /\ a.status = "succeeded"
    /\ queue[i].status = "failed" => \E a \in AttemptsOf(i) : a.dead

LEMMA KeptRowsAreBacked ==
    ASSUME TypeOK, ClaimInv, BackingInv, [Next]_vars, NEW i \in Items, RowKept(i), Live(i)'
    PROVE  BackedRow(i)'
<1>1. BackedRow(i)
  BY DEF BackingInv, RowsBackedByAttempts, BackedRow, RowKept
<1>2. ASSUME queue'[i].msg # Null
      PROVE  \E a \in AttemptsOf(i)' : a.num = queue'[i].msg /\ a.status = "succeeded"
  <2>1. PICK a \in attempts : a.item = i /\ a.num = queue[i].msg /\ a.status = "succeeded"
    BY <1>1, <1>2 DEF BackedRow, RowKept, AttemptsOf
  <2>2. a \in attempts'
    BY <2>1, SettledStay
  <2> QED
    BY <1>2, <2>1, <2>2 DEF RowKept, AttemptsOf
<1>3. ASSUME queue'[i].status = "failed" PROVE \E a \in AttemptsOf(i)' : a.dead
  <2>1. PICK a \in attempts : a.item = i /\ a.dead
    BY <1>1, <1>3 DEF BackedRow, RowKept, AttemptsOf
  <2>2. a.status # "started"
    BY <2>1 DEF BackingInv, DeadHaveFailed
  <2>3. a \in attempts'
    BY <2>1, <2>2, SettledStay
  <2> QED
    BY <2>1, <2>3 DEF AttemptsOf
<1> QED
  BY <1>2, <1>3 DEF BackedRow

\* What a PATCH writes: a status the user may set or none, and a message id only to clear it.
Patched(row) ==
    {r \in QueueItem : r.msg \in {row.msg, Null} /\ (r.status = "failed" => row.status = "failed")}

LEMMA FlushPatches ==
    ASSUME NEW base \in QueueItem, NEW row \in QueueItem, NEW status \in Settable \cup {Null},
           NEW payload \in Payloads \cup {Null}, NEW at \in Times \cup {Null}
    PROVE  Flushed(base, Updated(base, status, payload, at), row) \in Patched(row)
<1> DEFINE new == Updated(base, status, payload, at)
<1>1. new.msg \in {base.msg, Null} /\ (new.status = "failed" => new.status = base.status)
  BY DEF Updated, Settable
<1>2. Flushed(base, new, row) \in QueueItem
  BY UpdatedTypes
<1> HIDE DEF new
<1>3. /\ Flushed(base, new, row).msg \in {row.msg, Null}
      /\ Flushed(base, new, row).status = "failed" => row.status = "failed"
  BY <1>1 DEF Flushed
<1> QED
  BY <1>2, <1>3 DEF new, Patched

LEMMA PatchKeepsRows ==
    ASSUME TypeOK, NEW e \in Editors, CommitUpdate(e), NEW i \in Items
    PROVE  RowKept(i)
<1> DEFINE j == edit[e].item
<1>1. j \in Items /\ Live(j) /\ queue[j] \in QueueItem /\ edit[e].row \in QueueItem
  BY DEF CommitUpdate, Live, TypeOK, Edits
<1>2. PICK row \in Patched(queue[j]) : queue' = [queue EXCEPT ![j] = row]
  BY <1>1, FlushPatches DEF CommitUpdate
<1> HIDE DEF j
<1> QED
  BY <1>1, <1>2 DEF RowKept, Live, TypeOK, Patched

LEMMA RequestKeepsBacking ==
    ASSUME TypeOK, ClaimInv, BackingInv,
           \/ \E e \in Editors : Edit(e)
           \/ \E i \in Items : DeleteItem(i)
           \/ CreateItem \/ Tick
    PROVE  RowsBackedByAttempts'
<1> SUFFICES ASSUME NEW i \in Items, Live(i)' PROVE BackedRow(i)'
  BY DEF RowsBackedByAttempts, BackedRow, Live
<1>1. [Next]_vars
  BY DEF Next
<1>2. CASE RowKept(i)
  BY <1>1, <1>2, KeptRowsAreBacked
<1>3. CASE UNCHANGED queue
  BY <1>2, <1>3 DEF RowKept, Live
<1>4. ASSUME NEW e \in Editors, CommitUpdate(e) PROVE RowKept(i)
  BY <1>4, PatchKeepsRows
<1>5. ASSUME NEW j \in Items, DeleteItem(j) PROVE RowKept(i)
  BY <1>5 DEF DeleteItem, RowKept, Live, TypeOK
<1>6. CASE CreateItem
  <2>1. PICK status \in Settable, payload \in Payloads, t \in Times :
           queue' = [queue EXCEPT ![created + 1] =
               [status |-> status, payload |-> payload,
                at |-> IF status = "scheduled" THEN t ELSE Null, msg |-> Null]]
    BY <1>6 DEF CreateItem
  <2>2. CASE i = created + 1
    <3>1. queue'[i].msg = Null /\ queue'[i].status = status
      BY <2>1, <2>2 DEF TypeOK
    <3> QED
      BY <3>1 DEF BackedRow, Settable
  <2>3. CASE i # created + 1
    BY <1>2, <2>1, <2>3 DEF TypeOK, RowKept, Live
  <2> QED
    BY <2>2, <2>3
<1> QED
  BY <1>2, <1>3, <1>4, <1>5, <1>6 DEF Edit, UpdateRejected, LoadForUpdate, Tick, rows

\* A repair, a success and a dead letter write what an attempt of the item backs.
LEMMA SessionKeepsBacking ==
    ASSUME TypeOK, TypeOK', ClaimInv, BackingInv, NEW s \in Sessions,
           Start(s) \/ Publish(s) \/ Crash(s)
    PROVE  RowsBackedByAttempts'
<1> SUFFICES ASSUME NEW i \in Items, Live(i)' PROVE BackedRow(i)'
  BY DEF RowsBackedByAttempts, BackedRow, Live
<1>1. [Next]_vars /\ Live(i)
  BY SessionsKeepRows DEF Next
<1>2. CASE RowKept(i)
  BY <1>1, <1>2, KeptRowsAreBacked
<1>3. CASE queue'[i] = queue[i]
  BY <1>1, <1>2, <1>3 DEF RowKept
<1>4. queue[i] \in QueueItem
  BY <1>1 DEF Live, TypeOK
<1>5. CASE HealDrift(s) /\ cur[s] = i
  <2>1. /\ pc[s] = "guard" /\ seen[s].block # Null /\ seen[s].block.status = "succeeded"
        /\ attempts' = attempts
    BY <1>5 DEF HealDrift
  <2>2. seen[s].block \in AttemptsOf(i)
    BY <1>5, <2>1 DEF BackingInv, BlocksStand
  <2>3. /\ queue'[i].status = "published"
        /\ queue'[i].msg \in {seen[s].block.num, queue[i].msg}
    <3> DEFINE m == IF Copy(s).msg = Null THEN seen[s].block.num ELSE queue[i].msg
    <3>1. m \in {seen[s].block.num, queue[i].msg}
      OBVIOUS
    <3>2. queue'[i] = [queue[i] EXCEPT !.status = "published", !.msg = m]
      BY <1>5 DEF HealDrift, TypeOK
    <3> HIDE DEF m
    <3>3. ASSUME NEW r, r = [queue[i] EXCEPT !.status = "published", !.msg = m]
          PROVE  r.status = "published" /\ r.msg = m
      BY <1>4, <3>3 DEF QueueItem
    <3> QED
      BY <3>1, <3>2, <3>3
  <2>4. queue[i].msg # Null => \E a \in AttemptsOf(i) : a.num = queue[i].msg /\ a.status = "succeeded"
    BY <1>1 DEF BackingInv, RowsBackedByAttempts
  <2> QED
    BY <2>1, <2>2, <2>3, <2>4 DEF BackedRow, AttemptsOf
<1>6. CASE RecordSuccess(s) /\ cur[s] = i
  <2>1. PICK a \in attempts : a.item = i /\ a.num = seen[s].num
    BY <1>6 DEF RecordSuccess, ClaimInv, ClaimsAreOwned, Sending, Numbers, AttemptsOf
  <2>2. ASSUME NEW f, f = [a EXCEPT !.status = "succeeded", !.dead = FALSE]
        PROVE  f.item = i /\ f.num = seen[s].num /\ f.status = "succeeded"
    BY <2>1, <2>2 DEF TypeOK, Attempt
  <2>3. [a EXCEPT !.status = "succeeded", !.dead = FALSE] \in attempts'
    BY <1>6, <2>1 DEF RecordSuccess, SetOutcome
  <2>4. queue'[i].status = "published" /\ queue'[i].msg = seen[s].num
    <3>1. ASSUME NEW r, r = [queue[i] EXCEPT !.status = "published", !.msg = seen[s].num]
          PROVE  r.status = "published" /\ r.msg = seen[s].num
      BY <1>4, <3>1 DEF QueueItem
    <3>2. queue'[i] = [queue[i] EXCEPT !.status = "published", !.msg = seen[s].num]
      BY <1>6 DEF RecordSuccess, TypeOK
    <3> QED
      BY <3>1, <3>2
  <2> QED
    BY <2>2, <2>3, <2>4 DEF BackedRow, AttemptsOf
<1>7. CASE MarkItemFailed(s) /\ cur[s] = i /\ queue'[i] # queue[i]
  <2>1. /\ pc[s] = "deadletter" /\ attempts' = attempts
        /\ queue'[i] = [queue[i] EXCEPT !.status = "failed"]
    BY <1>7 DEF MarkItemFailed, TypeOK
  <2>2. PICK a \in AttemptsOf(i) : a.dead
    BY <1>1, <1>7, <2>1 DEF BackingInv, DeadLettersStand
  <2>3. queue'[i].msg = queue[i].msg
    BY <1>4, <2>1 DEF QueueItem
  <2>4. queue[i].msg # Null => \E b \in AttemptsOf(i) : b.num = queue[i].msg /\ b.status = "succeeded"
    BY <1>1 DEF BackingInv, RowsBackedByAttempts
  <2> QED
    BY <2>1, <2>2, <2>3, <2>4 DEF BackedRow, AttemptsOf
<1>8. CASE /\ HealDrift(s) \/ RecordSuccess(s) \/ MarkItemFailed(s)
           /\ cur[s] # i
  BY <1>3, <1>8 DEF HealDrift, RecordSuccess, MarkItemFailed, TypeOK
<1> QED
  BY <1>3, <1>5, <1>6, <1>7, <1>8
  DEF Start, Publish, Crash, BeatTick, StartTask, StartCall, ListItems, TakeItem, PageDone,
      LockItem, ItemMissing, ClaimAttempt, Suppress, RefuseToSend, TelegramAccepts,
      TelegramFails, Fails, RecordFailure, ItemVanished, AbortVictim, rows

LEMMA StepKeepsBacking ==
    ASSUME TypeOK, TypeOK', ClaimInv, ClaimInv', BackingInv, [Next]_vars
    PROVE  BackingInv'
<1>1. DeadHaveFailed'
  BY StepRefines, LedgerKeepsDead DEF BackingInv
<1>2. ASSUME NEW s \in Sessions, Start(s) \/ Publish(s) \/ Crash(s) PROVE BackingInv'
  BY <1>1, <1>2, SessionKeepsStages, SessionKeepsBacking DEF BackingInv
<1>3. ASSUME \/ \E e \in Editors : Edit(e)
             \/ \E i \in Items : DeleteItem(i)
             \/ CreateItem \/ Tick
      PROVE  BackingInv'
  <2>1. UNCHANGED <<pc, cur, seen>>
    BY <1>3 DEF Edit, CommitUpdate, UpdateRejected, LoadForUpdate, DeleteItem, CreateItem, Tick, session
  <2>2. \A i \in Items : Live(i)' /\ i <= created => Live(i)
    BY <1>3, RequestsReviveNothing
  <2> QED
    BY <1>1, <1>3, <2>1, <2>2, RequestKeepsStages, RequestKeepsBacking DEF BackingInv
<1>4. CASE UNCHANGED vars
  BY <1>4 DEF vars, BackingInv, RowsBackedByAttempts, BlocksStand, DeadLettersStand,
              DeadHaveFailed, AttemptsOf, Live
<1> QED
  BY <1>2, <1>3, <1>4 DEF Next, Quiescent

\* Edits, repairs, successes and dead letters, written from copies of different ages, never
\* leave a row that says what no attempt backs.
THEOREM RowsAreBacked == Spec => []RowsBackedByAttempts
<1>1. Init => BackingInv
  BY DEF Init, BackingInv, RowsBackedByAttempts, BlocksStand, DeadLettersStand, DeadHaveFailed,
         NoRows, Live
<1>2. TypeOK /\ TypeOK' /\ ClaimInv /\ ClaimInv' /\ BackingInv /\ [Next]_vars => BackingInv'
  BY StepKeepsBacking
<1>3. BackingInv => RowsBackedByAttempts
  BY DEF BackingInv
<1> QED
  BY <1>1, <1>2, <1>3, TypeCorrect, ClaimsCorrect, PTL DEF Spec
=============================================================================
