-------------------------- MODULE LiveQueue_proofs --------------------------
(***************************************************************************)
(* Theorems about the event streams and the tabs that follow them, for any number  *)
(* of publishers, connections and tabs and any buffer: no stream has a gap, and a    *)
(* tab with nothing under way shows all it was sent.                              *)
(***************************************************************************)
EXTENDS LiveQueue, SequenceTheorems, TLAPS

-----------------------------------------------------------------------------
(* Sequences *)

\* What IsPrefix says of the elements.
LEMMA PrefixElements ==
    ASSUME NEW S, NEW s \in Seq(S), NEW t \in Seq(S)
    PROVE  IsPrefix(s, t) <=> Len(s) <= Len(t) /\ \A i \in 1..Len(s) : s[i] = t[i]
<1>1. CASE Len(s) <= Len(t)
  <2> DEFINE a == SubSeq(s, 1, Len(s))
             b == SubSeq(t, 1, Len(s))
  <2>1. /\ a \in Seq(S) /\ Len(a) = Len(s) /\ \A i \in 1..Len(s) : a[i] = s[i]
        /\ b \in Seq(S) /\ Len(b) = Len(s) /\ \A i \in 1..Len(s) : b[i] = t[i]
    BY <1>1
  <2> HIDE DEF a, b
  <2>2. a = b <=> \A i \in 1..Len(s) : a[i] = b[i]
    BY <2>1, SeqEqual
  <2>3. IsPrefix(s, t) <=> a = b
    BY <1>1 DEF IsPrefix, a, b
  <2> QED BY <1>1, <2>1, <2>2, <2>3
<1>2. CASE ~(Len(s) <= Len(t))
  BY <1>2 DEF IsPrefix
<1> QED BY <1>1, <1>2

\* A prefix stays one when the sequence grows; both may grow by the same element.
LEMMA PrefixGrows ==
    ASSUME NEW S, NEW s \in Seq(S), NEW t \in Seq(S), NEW e \in S, IsPrefix(s, t)
    PROVE  IsPrefix(s, Append(t, e))
<1>1. Append(t, e) \in Seq(S) /\ Len(Append(t, e)) = Len(t) + 1
      /\ \A i \in 1..Len(t) : Append(t, e)[i] = t[i]
  OBVIOUS
<1>2. Len(s) <= Len(t) /\ \A i \in 1..Len(s) : s[i] = t[i]
  BY PrefixElements
<1>3. Len(s) <= Len(Append(t, e)) /\ \A i \in 1..Len(s) : s[i] = Append(t, e)[i]
  BY <1>1, <1>2
<1> HIDE DEF IsPrefix
<1> QED BY <1>1, <1>3, PrefixElements

LEMMA PrefixOfItself == ASSUME NEW S, NEW s \in Seq(S) PROVE IsPrefix(s, s)
BY PrefixElements

\* Moving the first waiting element to the end of what was taken changes nothing.
LEMMA TakeFirst ==
    ASSUME NEW S, NEW s \in Seq(S), NEW b \in Seq(S), b # <<>>
    PROVE  Append(s, Head(b)) \o Tail(b) = s \o b
<1>1. Head(b) \in S /\ Tail(b) \in Seq(S) /\ Len(Tail(b)) = Len(b) - 1
      /\ \A i \in 1..Len(Tail(b)) : Tail(b)[i] = b[i + 1]
  BY HeadTailProperties
<1> DEFINE l == Append(s, Head(b)) \o Tail(b)
           r == s \o b
<1>2. l \in Seq(S) /\ r \in Seq(S) /\ Len(l) = Len(s) + 1 + (Len(b) - 1) /\ Len(r) = Len(s) + Len(b)
  BY <1>1
<1>3. ASSUME NEW i \in 1..Len(l) PROVE l[i] = r[i]
  BY <1>1, <1>2
<1> QED BY <1>2, <1>3, SeqEqual

LEMMA AppendLast ==
    ASSUME NEW S, NEW s \in Seq(S), NEW b \in Seq(S), NEW e \in S
    PROVE  s \o Append(b, e) = Append(s \o b, e)
OBVIOUS

-----------------------------------------------------------------------------
(* The streams: EventInv *)

\* What the state of a generator says of its connection's data.
StreamAt(c) ==
    /\ stream[c] = "off" => buf[c] = <<>> /\ item[c] = Null /\ sent[c] = <<>> /\ ~closed[c]
    /\ stream[c] = "waiting" => item[c] = Null
    /\ stream[c] = "writing" => item[c] \in Events

\* StreamHasNoGap, of one connection.
Gapless(c) ==
    stream[c] # "off" =>
        /\ IsPrefix(Written(c) \o buf[c], due[c])
        /\ ~closed[c] => Written(c) \o buf[c] = due[c]

\* The inductive invariant of QueueEvents.
StreamInv == EventTypeOK /\ \A c \in Clients : StreamAt(c) /\ Gapless(c)

\* A step leaves the connection c alone.
Untouched(c) ==
    /\ stream'[c] = stream[c] /\ buf'[c] = buf[c] /\ item'[c] = item[c]
    /\ closed'[c] = closed[c] /\ sent'[c] = sent[c] /\ due'[c] = due[c]

LEMMA UntouchedStays ==
    ASSUME NEW c \in Clients, Untouched(c), StreamAt(c), Gapless(c)
    PROVE  StreamAt(c)' /\ Gapless(c)'
BY DEF Untouched, StreamAt, Gapless, Written

\* An ended connection has nothing to be checked.
LEMMA OffIsGapless ==
    ASSUME NEW c \in Clients, stream'[c] = "off", buf'[c] = <<>>, item'[c] = Null,
           sent'[c] = <<>>, closed'[c] = FALSE
    PROVE  StreamAt(c)' /\ Gapless(c)'
BY DEF StreamAt, Gapless

LEMMA NullIsNoEvent == Null \notin Events
BY EventAssumption DEF Events

LEMMA EventTypesKept ==
    ASSUME StreamInv, [EventNext]_eventVars PROVE EventTypeOK'
<1> USE EventAssumption, NullIsNoEvent
<1>0. EventTypeOK /\ \A c \in Clients : StreamAt(c)
  BY DEF StreamInv
<1> USE <1>0 DEF EventTypeOK
<1> HIDE DEF StreamInv
<1>1. ASSUME NEW p \in Publishers, Publish(p) PROVE EventTypeOK'
  <2>1. CASE PublishEvent(p)
    BY <2>1 DEF PublishEvent, connection
  <2>2. CASE PublishFails(p)
    BY <2>2 DEF PublishFails, connection, consumer
  <2>3. ASSUME NEW w \in Workspaces, Commit(p, w) PROVE EventTypeOK'
    BY <2>3 DEF Commit, connection, consumer, Events
  <2> QED BY <1>1, <2>1, <2>2, <2>3 DEF Publish
<1>2. CASE Broadcast
  <2> DEFINE e == Head(channel)
  <2>1. e \in Events /\ Tail(channel) \in Seq(Events)
    BY <1>2 DEF Broadcast
  <2>2. HandOut(e)
    BY <1>2 DEF Broadcast
  <2> HIDE DEF e
  <2>3. due' \in [Clients -> Seq(Events)] /\ closed' \in [Clients -> BOOLEAN]
    BY <2>1, <2>2 DEF HandOut
  <2>4. ASSUME NEW c \in Clients PROVE buf'[c] \in Seq(Events) /\ Len(buf'[c]) <= Buffer
    BY <2>1, <2>2 DEF HandOut, Full
  <2>5. buf' \in [Clients -> Seq(Events)]
    BY <2>1, <2>2 DEF HandOut
  <2> QED BY <2>1, <2>2, <2>3, <2>4, <2>5 DEF HandOut, publishing
<1>3. CASE ConsumerSubscribes \/ PollTimesOut \/ ConsumerFails
  <2>1. /\ UNCHANGED <<log, pending, due, stream, buf, item, closed, sent>>
        /\ subscribed' \in BOOLEAN
    BY <1>3 DEF ConsumerSubscribes, PollTimesOut, ConsumerFails, publishing, connection, eventVars
  <2>2. channel' = channel \/ channel' = <<>>
    BY <1>3 DEF ConsumerSubscribes, PollTimesOut, ConsumerFails, eventVars
  <2>3. faults' \in Nat
    BY <1>3 DEF ConsumerSubscribes, PollTimesOut, ConsumerFails, eventVars
  <2>4. channel' \in Seq(Events)
    <3>1. <<>> \in Seq(Events)
      OBVIOUS
    <3> QED BY <2>2, <3>1
  <2> QED BY <2>1, <2>3, <2>4
<1>4. CASE ApiRestarts
  <2>1. /\ stream' = [c \in Clients |-> "off"] /\ buf' = [c \in Clients |-> <<>>]
        /\ item' = [c \in Clients |-> Null] /\ closed' = [c \in Clients |-> FALSE]
        /\ sent' = [c \in Clients |-> <<>>] /\ subscribed' = FALSE /\ channel' = <<>>
        /\ faults' = faults + 1 /\ UNCHANGED <<log, pending, due>>
    BY <1>4 DEF ApiRestarts, publishing
  <2>2. <<>> \in Seq(Events) /\ Len(<<>>) = 0
    OBVIOUS
  <2>3. buf' \in [Clients -> Seq(Events)] /\ \A c \in Clients : Len(buf'[c]) <= Buffer
    BY <2>1, <2>2
  <2>4. sent' \in [Clients -> Seq(Events)] /\ channel' \in Seq(Events)
    BY <2>1, <2>2
  <2>5. /\ stream' \in [Clients -> {"off", "waiting", "writing"}]
        /\ item' \in [Clients -> Events \cup {Null}] /\ closed' \in [Clients -> BOOLEAN]
        /\ subscribed' \in BOOLEAN /\ faults' \in Nat
    <3>1. faults' \in Nat
      BY <2>1
    <3>2. subscribed' \in BOOLEAN
      BY <2>1
    <3>3. stream' \in [Clients -> {"off", "waiting", "writing"}]
      <4>1. stream' = [c \in Clients |-> "off"]
        BY <2>1
      <4> HIDE <1>0, <1>4, <2>1
      <4> QED BY <4>1, Zenon
    <3>4. item' \in [Clients -> Events \cup {Null}]
      BY <2>1
    <3>5. closed' \in [Clients -> BOOLEAN]
      BY <2>1
    <3> QED BY <3>1, <3>2, <3>3, <3>4, <3>5
  <2>6. UNCHANGED <<log, pending, due>>
    BY <1>4 DEF ApiRestarts, publishing
  <2> HIDE <1>4
  <2> QED BY <2>3, <2>4, <2>5, <2>6
<1>5. ASSUME NEW c \in Clients, Write(c) \/ Open(c) \/ NoticeDisconnect(c) PROVE EventTypeOK'
  <2>1. CASE TakeFrame(c)
    <3>1. Head(buf[c]) \in Events /\ Tail(buf[c]) \in Seq(Events)
          /\ Len(Tail(buf[c])) = Len(buf[c]) - 1
      BY <2>1 DEF TakeFrame
    <3> QED BY <2>1, <3>1 DEF TakeFrame, publishing, consumer
  <2>2. CASE WriteFrame(c) \/ EndStream(c)
    <3>1. CASE Leave(c) /\ UNCHANGED <<publishing, consumer, due, faults>>
      BY <3>1 DEF Leave, publishing, consumer
    <3>2. CASE WriteFrame(c) /\ ~Leave(c)
      <4>1. item[c] \in Events
        BY <3>2 DEF WriteFrame, StreamAt
      <4>2. /\ sent' = [sent EXCEPT ![c] = Append(sent[c], item[c])]
            /\ stream' = [stream EXCEPT ![c] = "waiting"] /\ item' = [item EXCEPT ![c] = Null]
            /\ UNCHANGED <<log, pending, subscribed, channel, due, buf, closed, faults>>
        BY <3>2 DEF WriteFrame, publishing, consumer
      <4>3. sent' \in [Clients -> Seq(Events)]
        <5>1. Append(sent[c], item[c]) \in Seq(Events)
          BY <4>1
        <5> QED BY <4>2, <5>1
      <4> QED BY <4>2, <4>3
    <3> QED BY <2>2, <3>1, <3>2 DEF WriteFrame, EndStream
  <2>3. CASE Open(c)
    <3>1. /\ stream' = [stream EXCEPT ![c] = "waiting"] /\ due' = [due EXCEPT ![c] = <<>>]
          /\ UNCHANGED <<log, pending, subscribed, channel, buf, item, closed, sent, faults>>
      BY <2>3 DEF Open, publishing, consumer
    <3> QED BY <3>1
  <2>4. CASE NoticeDisconnect(c)
    BY <2>4 DEF NoticeDisconnect, publishing, consumer
  <2> QED BY <1>5, <2>1, <2>2, <2>3, <2>4 DEF Write
<1>6. CASE UNCHANGED eventVars
  BY <1>6 DEF eventVars
<1> QED BY <1>1, <1>2, <1>3, <1>4, <1>5, <1>6 DEF EventNext, Consume

\* The step of a broadcast on one connection: the event goes to the end of the buffer and
\* of what was handed out, or the connection is (being) closed and keeps a prefix.
LEMMA HandedOutWithoutGap ==
    ASSUME EventTypeOK, NEW c \in Clients, StreamAt(c), Gapless(c), NEW e \in Events, HandOut(e)
    PROVE  StreamAt(c)' /\ Gapless(c)'
<1> USE EventAssumption, NullIsNoEvent
<1> DEFINE h == Written(c) \o buf[c]
<1>1. /\ Written(c) \in Seq(Events) /\ buf[c] \in Seq(Events) /\ due[c] \in Seq(Events)
      /\ h \in Seq(Events)
  BY DEF EventTypeOK, Written
<1>2. /\ stream'[c] = stream[c] /\ Written(c)' = Written(c) /\ item'[c] = item[c]
      /\ sent'[c] = sent[c]
      /\ due'[c] = IF Home[c] = log[e] THEN Append(due[c], e) ELSE due[c]
      /\ buf'[c] = IF Listening(c, e) /\ ~Full(c) THEN Append(buf[c], e) ELSE buf[c]
      /\ closed'[c] = (closed[c] \/ Overflows(c, e))
  BY DEF HandOut, Written
<1>3. StreamAt(c)'
  BY <1>2 DEF StreamAt, Listening, Overflows
<1>4. CASE stream[c] = "off"
  BY <1>2, <1>3, <1>4 DEF Gapless
<1>5. CASE stream[c] # "off" /\ Home[c] # log[e]
  BY <1>2, <1>3, <1>5 DEF Gapless, Listening, Overflows
<1>6. CASE stream[c] # "off" /\ Home[c] = log[e]
  <2>1. IsPrefix(h, due[c]) /\ (~closed[c] => h = due[c])
    BY <1>6 DEF Gapless
  <2>2. CASE closed[c] \/ Full(c)
    <3>1. buf'[c] = buf[c] /\ closed'[c] = TRUE /\ due'[c] = Append(due[c], e)
      BY <1>2, <1>6, <2>2 DEF Listening, Overflows, EventTypeOK
    <3>2. IsPrefix(h, Append(due[c], e))
      BY <1>1, <2>1, PrefixGrows
    <3> HIDE DEF IsPrefix
    <3> QED BY <1>2, <1>3, <3>1, <3>2 DEF Gapless
  <2>3. CASE ~closed[c] /\ ~Full(c)
    <3>1. buf'[c] = Append(buf[c], e) /\ due'[c] = Append(due[c], e)
      BY <1>2, <1>6, <2>3 DEF Listening
    <3>2. (Written(c) \o buf[c])' = due'[c]
      <4>1. Written(c) \o Append(buf[c], e) = Append(h, e)
        BY <1>1, AppendLast
      <4> QED BY <1>2, <2>1, <2>3, <3>1, <4>1
    <3>3. IsPrefix(due'[c], due'[c])
      <4>1. due'[c] \in Seq(Events)
        BY <1>1, <3>1
      <4> QED BY <4>1, PrefixOfItself
    <3> HIDE DEF IsPrefix
    <3> QED BY <1>3, <3>2, <3>3 DEF Gapless
  <2> QED BY <2>2, <2>3
<1> QED BY <1>4, <1>5, <1>6

\* Every step keeps the streams without a gap.
LEMMA StreamsKept ==
    ASSUME StreamInv, [EventNext]_eventVars, NEW c \in Clients
    PROVE  StreamAt(c)' /\ Gapless(c)'
<1> USE EventAssumption, NullIsNoEvent
<1>1. StreamAt(c) /\ Gapless(c) /\ EventTypeOK
  BY DEF StreamInv
<1>2. /\ Written(c) \in Seq(Events) /\ buf[c] \in Seq(Events) /\ due[c] \in Seq(Events)
      /\ sent[c] \in Seq(Events)
  BY <1>1 DEF EventTypeOK, Written
<1>3. CASE \/ \E p \in Publishers : Publish(p)
           \/ ConsumerSubscribes \/ PollTimesOut \/ ConsumerFails
  <2>1. Untouched(c)
    BY <1>3 DEF Untouched, Publish, PublishEvent, PublishFails, Commit, ConsumerSubscribes,
                PollTimesOut, ConsumerFails, connection, eventVars
  <2> QED BY <1>1, <2>1, UntouchedStays
<1>4. CASE Broadcast
  <2>1. Head(channel) \in Events /\ HandOut(Head(channel))
    BY <1>1, <1>4 DEF Broadcast, EventTypeOK
  <2> QED BY <1>1, <2>1, HandedOutWithoutGap
<1>5. CASE ApiRestarts
  <2>1. stream'[c] = "off" /\ buf'[c] = <<>> /\ item'[c] = Null /\ sent'[c] = <<>>
        /\ closed'[c] = FALSE
    BY <1>5 DEF ApiRestarts
  <2> QED BY <2>1, OffIsGapless
<1>6. ASSUME NEW d \in Clients, Write(d) \/ Open(d) \/ NoticeDisconnect(d)
      PROVE  StreamAt(c)' /\ Gapless(c)'
  <2>1. CASE d # c
    <3>1. Untouched(c)
      BY <1>1, <1>6, <2>1 DEF Untouched, EventTypeOK, Write, TakeFrame, WriteFrame, EndStream, Leave,
         Open, NoticeDisconnect
    <3> QED BY <1>1, <3>1, UntouchedStays
  <2>2. CASE d = c /\ Leave(c)
    <3>1. stream'[c] = "off" /\ buf'[c] = <<>> /\ item'[c] = Null /\ sent'[c] = <<>>
          /\ closed'[c] = FALSE
      BY <1>1, <2>2 DEF Leave, EventTypeOK
    <3> QED BY <3>1, OffIsGapless
  <2>3. CASE d = c /\ TakeFrame(c)
    <3>1. /\ stream[c] = "waiting" /\ item[c] = Null /\ buf[c] # <<>> /\ Head(buf[c]) \in Events
      BY <1>1, <1>2, <2>3 DEF TakeFrame, StreamAt
    <3>2. /\ stream'[c] = "writing" /\ item'[c] = Head(buf[c]) /\ buf'[c] = Tail(buf[c])
          /\ sent'[c] = sent[c] /\ due'[c] = due[c] /\ closed'[c] = closed[c]
      BY <1>1, <2>3 DEF TakeFrame, EventTypeOK
    <3>3. (Written(c) \o buf[c])' = Append(sent[c], Head(buf[c])) \o Tail(buf[c])
      BY <3>1, <3>2 DEF Written
    <3>4. Append(sent[c], Head(buf[c])) \o Tail(buf[c]) = Written(c) \o buf[c]
      BY <1>2, <3>1, TakeFirst DEF Written
    <3>5. StreamAt(c)'
      BY <3>1, <3>2 DEF StreamAt
    <3> HIDE DEF IsPrefix
    <3> QED BY <1>1, <3>1, <3>2, <3>3, <3>4, <3>5 DEF Gapless
  <2>4. CASE d = c /\ WriteFrame(c) /\ ~Leave(c)
    <3>1. stream[c] = "writing" /\ ~closed[c] /\ item[c] \in Events
      BY <1>1, <2>4 DEF WriteFrame, StreamAt
    <3>2. /\ stream'[c] = "waiting" /\ item'[c] = Null /\ buf'[c] = buf[c]
          /\ sent'[c] = Append(sent[c], item[c]) /\ due'[c] = due[c] /\ closed'[c] = closed[c]
      BY <1>1, <2>4 DEF WriteFrame, EventTypeOK
    <3>3. Written(c)' = Written(c)
      BY <3>1, <3>2 DEF Written
    <3> HIDE DEF IsPrefix, Written
    <3> QED BY <1>1, <3>1, <3>2, <3>3 DEF Gapless, StreamAt
  <2>5. CASE d = c /\ Open(c)
    <3>1. /\ stream[c] = "off" /\ buf[c] = <<>> /\ item[c] = Null /\ sent[c] = <<>>
      BY <1>1, <2>5 DEF Open, StreamAt
    <3>2. /\ stream'[c] = "waiting" /\ buf'[c] = <<>> /\ item'[c] = Null /\ sent'[c] = <<>>
          /\ due'[c] = <<>>
      BY <1>1, <2>5, <3>1 DEF Open, EventTypeOK
    <3>3. (Written(c) \o buf[c])' = <<>> \o <<>>
      BY <3>2 DEF Written
    <3>4. <<>> \o <<>> = <<>> /\ <<>> \in Seq(Events)
      OBVIOUS
    <3>5. IsPrefix(<<>>, <<>>)
      BY <3>4, PrefixOfItself
    <3> HIDE DEF IsPrefix, Written
    <3> QED BY <3>2, <3>3, <3>4, <3>5 DEF Gapless, StreamAt
  <2>6. CASE d = c /\ NoticeDisconnect(c)
    <3>1. /\ stream[c] # "off" /\ stream'[c] = stream[c] /\ buf'[c] = buf[c]
          /\ item'[c] = item[c] /\ sent'[c] = sent[c] /\ due'[c] = due[c] /\ closed'[c] = TRUE
      BY <1>1, <2>6 DEF NoticeDisconnect, EventTypeOK
    <3> HIDE DEF IsPrefix
    <3> QED BY <1>1, <3>1 DEF Gapless, StreamAt, Written
  <2> QED BY <1>6, <2>1, <2>2, <2>3, <2>4, <2>5, <2>6 DEF Write, EndStream
<1>7. CASE UNCHANGED eventVars
  <2>1. Untouched(c)
    BY <1>7 DEF Untouched, eventVars
  <2> QED BY <1>1, <2>1, UntouchedStays
<1> QED BY <1>3, <1>4, <1>5, <1>6, <1>7 DEF EventNext, Consume

LEMMA StreamInvStarts == EventInit => StreamInv
<1>1. EventInit => EventTypeOK
  <2>1. <<>> \in Seq(Events) /\ <<>> \in Seq(Workspaces) /\ Len(<<>>) = 0
    OBVIOUS
  <2> SUFFICES ASSUME EventInit PROVE EventTypeOK
    OBVIOUS
  <2>2. /\ buf \in [Clients -> Seq(Events)] /\ \A c \in Clients : Len(buf[c]) <= Buffer
        /\ due \in [Clients -> Seq(Events)] /\ sent \in [Clients -> Seq(Events)]
        /\ channel \in Seq(Events)
    BY <2>1, EventAssumption DEF EventInit
  <2>3. log \in Seq(Workspaces) /\ Len(log) <= MaxEvents
    BY <2>1, EventAssumption DEF EventInit
  <2> QED BY <2>2, <2>3 DEF EventInit, EventTypeOK
<1>2. ASSUME EventInit, NEW c \in Clients
      PROVE  stream[c] = "off" /\ buf[c] = <<>> /\ item[c] = Null /\ sent[c] = <<>> /\ ~closed[c]
  BY <1>2 DEF EventInit
<1>3. ASSUME EventInit, NEW c \in Clients PROVE StreamAt(c) /\ Gapless(c)
  BY <1>2, <1>3 DEF StreamAt, Gapless
<1> QED BY <1>1, <1>3 DEF StreamInv

LEMMA StreamInvKept == StreamInv /\ [EventNext]_eventVars => StreamInv'
BY EventTypesKept, StreamsKept DEF StreamInv

LEMMA StreamInvSuffices == StreamInv => EventInv
BY DEF StreamInv, EventInv, StreamHasNoGap, Gapless

\* Whatever the server, its publishers and its clients do, no connection's buffer exceeds
\* its bound, and an open connection has written, is writing and holds exactly the events
\* handed out for its workspace since it subscribed, in order (_event_stream).
THEOREM StreamsHaveNoGap == EventSpec => []EventInv
<1>1. StreamInv /\ UNCHANGED eventVars => StreamInv'
  BY StreamInvKept
<1> QED BY StreamInvStarts, StreamInvKept, StreamInvSuffices, PTL DEF EventSpec

-----------------------------------------------------------------------------
(* The tabs: LiveInv *)

TabTypes ==
    /\ status \in [Tabs -> {"closed", "connecting", "connected", "error"}]
    /\ conn \in [Tabs -> Clients \cup {Null}]
    /\ est \in [Tabs -> BOOLEAN] /\ timer \in [Tabs -> BOOLEAN]
    /\ fetch \in [Tabs -> {"idle", "asked", "answered"}]
    /\ answer \in [Tabs -> Versions]
    /\ view \in [Tabs -> Versions \cup {Null}]
    /\ failed \in [Tabs -> BOOLEAN] /\ absorbed \in [Tabs -> BOOLEAN]

\* A mounted view, its connection and its timer.
Linked(t) ==
    /\ status[t] = "connected" => conn[t] # Null
    /\ conn[t] # Null => status[t] \in {"connecting", "connected"}
    /\ status[t] = "closed" => ~est[t] /\ ~timer[t]

ConnectionsAreOwned ==
    \A t, u \in Tabs : t # u => conn[t] = Null \/ conn[t] # conn[u]

\* No event is of a change that was never committed.
EventsAreCommitted ==
    /\ \A p \in Publishers : pending[p] # Null => pending[p] <= Len(log)
    /\ \A n \in Range(channel) : n <= Len(log)
    /\ \A c \in Clients : \A n \in Range(due[c]) : n <= Len(log)

\* A fetch never answers with older rows than those in the cache.
FetchesMoveOn(t) ==
    /\ answer[t] <= Len(log) /\ (view[t] # Null => view[t] <= Len(log))
    /\ fetch[t] = "answered" /\ view[t] # Null => view[t] <= answer[t]

\* The change n is in the view, on its way into it, or known not to get there.
Covered(t, n) ==
    \/ timer[t] \/ absorbed[t] \/ fetch[t] = "asked"
    \/ fetch[t] = "answered" /\ answer[t] >= n
    \/ fetch[t] = "idle" /\ (failed[t] \/ Shows(t, n))

\* Every frame the tab was sent over the connection it owns is covered.
FramesAreCovered(t) ==
    conn[t] # Null => \A n \in Range(sent[conn[t]]) : Covered(t, n)

\* The inductive invariant of LiveQueue.
TabInv ==
    /\ StreamInv /\ TabTypes /\ ConnectionsAreOwned /\ EventsAreCommitted
    /\ \A t \in Tabs : Linked(t) /\ FetchesMoveOn(t) /\ FramesAreCovered(t)

(* The server's half of the invariant *)

\* Every step is one of the server's, or leaves the server alone.
LEMMA LiveStepKinds ==
    ASSUME faults \in Nat, [LiveNext]_liveVars
    PROVE  [EventNext]_eventVars \/ (UNCHANGED serverSide /\ faults' \in Nat)
<1>1. ASSUME NEW p \in Publishers, Publish(p) PROVE EventNext
  BY <1>1 DEF EventNext
<1>2. CASE Consume \/ PollTimesOut \/ ConsumerFails \/ ApiRestarts
  BY <1>2 DEF EventNext
<1>3. ASSUME NEW c \in Clients, Serve(c) PROVE EventNext
  BY <1>3 DEF EventNext, Serve, Deliver, Write
<1>4. ASSUME NEW t \in Tabs, Connect(t) PROVE EventNext
  BY <1>4 DEF EventNext, Connect
<1>5. ASSUME NEW t \in Tabs, Load(t) \/ FetchFails(t) \/ OwnMutation(t) \/ Mount(t) \/ Unmount(t)
                             \/ Refused(t) \/ OnOpen(t) \/ StreamLost(t) \/ Flush(t)
      PROVE  UNCHANGED serverSide /\ faults' \in Nat
  BY <1>5 DEF Load, ReadRows, ShowRows, Poll, FetchFails, OwnMutation, Mount, Unmount, Refused,
              OnOpen, StreamLost, Flush
<1>6. CASE UNCHANGED liveVars
  BY <1>6 DEF liveVars, eventVars
<1> HIDE DEF EventNext
<1> QED BY <1>1, <1>2, <1>3, <1>4, <1>5, <1>6 DEF LiveNext

LEMMA ServerHalfKept ==
    ASSUME StreamInv, [LiveNext]_liveVars PROVE StreamInv'
<1>1. CASE [EventNext]_eventVars
  BY <1>1, StreamInvKept
<1>2. CASE UNCHANGED serverSide /\ faults' \in Nat
  <2>1. EventTypeOK'
    BY <1>2 DEF StreamInv, EventTypeOK, serverSide, publishing, consumer, connection
  <2>2. ASSUME NEW c \in Clients PROVE StreamAt(c)' /\ Gapless(c)'
    <3>1. Untouched(c)
      BY <1>2 DEF Untouched, serverSide, connection
    <3> QED BY <3>1, UntouchedStays DEF StreamInv
  <2> QED BY <2>1, <2>2 DEF StreamInv
<1>3. faults \in Nat
  BY DEF StreamInv, EventTypeOK
<1> QED BY <1>1, <1>2, <1>3, LiveStepKinds

LEMMA ConcatFirst ==
    ASSUME NEW S, NEW s \in Seq(S), NEW b \in Seq(S), NEW i \in 1..Len(s)
    PROVE  s \o b \in Seq(S) /\ i \in 1..Len(s \o b) /\ (s \o b)[i] = s[i]
OBVIOUS

\* What was written to an open connection was handed out for it.
LEMMA SentWasDue ==
    ASSUME StreamInv, NEW c \in Clients, NEW n \in Range(sent[c]) PROVE n \in Range(due[c])
<1>1. /\ sent[c] \in Seq(Events) /\ buf[c] \in Seq(Events) /\ due[c] \in Seq(Events)
      /\ item[c] \in Events \cup {Null}
  BY DEF StreamInv, EventTypeOK
<1>2. StreamAt(c) /\ Gapless(c)
  BY DEF StreamInv
<1>3. PICK i \in 1..Len(sent[c]) : n = sent[c][i]
  BY <1>1 DEF Range
<1>4. stream[c] # "off"
  BY <1>2, <1>3 DEF StreamAt
<1> DEFINE h == Written(c) \o buf[c]
<1>5. IsPrefix(h, due[c])
  BY <1>2, <1>4 DEF Gapless
<1>6. h \in Seq(Events) /\ i \in 1..Len(h) /\ h[i] = sent[c][i]
  <2>1. CASE item[c] = Null
    <3>1. Written(c) = sent[c]
      BY <2>1 DEF Written
    <3>2. Written(c) \in Seq(Events) /\ i \in 1..Len(Written(c))
      BY <1>1, <3>1
    <3> HIDE DEF Written
    <3>3. h \in Seq(Events) /\ i \in 1..Len(h) /\ h[i] = Written(c)[i]
      BY <1>1, <3>2, ConcatFirst
    <3> QED BY <3>1, <3>3
  <2>2. CASE item[c] # Null
    <3>1. Written(c) = Append(sent[c], item[c])
      BY <2>2 DEF Written
    <3>2. Append(sent[c], item[c]) \in Seq(Events) /\ i \in 1..Len(Append(sent[c], item[c]))
          /\ Append(sent[c], item[c])[i] = sent[c][i]
      BY <1>1, <1>3, <2>2
    <3>3. Written(c) \in Seq(Events) /\ i \in 1..Len(Written(c))
      BY <3>1, <3>2
    <3> HIDE DEF Written
    <3>4. h \in Seq(Events) /\ i \in 1..Len(h) /\ h[i] = Written(c)[i]
      BY <1>1, <3>3, ConcatFirst
    <3> QED BY <3>1, <3>2, <3>4
  <2> QED BY <2>1, <2>2
<1> HIDE DEF h, IsPrefix
<1>7. Len(h) <= Len(due[c]) /\ h[i] = due[c][i]
  BY <1>1, <1>5, <1>6, PrefixElements
<1>8. i \in 1..Len(due[c]) /\ n = due[c][i]
  BY <1>1, <1>3, <1>6, <1>7
<1> QED BY <1>1, <1>8 DEF Range

\* The elements of a sequence after the operations the model uses.
LEMMA RangeOfAppend ==
    ASSUME NEW S, NEW s \in Seq(S), NEW e, NEW n \in Range(Append(s, e))
    PROVE  n = e \/ n \in Range(s)
<1>1. PICK i \in 1..(Len(s) + 1) : n = Append(s, e)[i]
  BY DEF Range
<1>2. CASE i = Len(s) + 1
  BY <1>1, <1>2
<1>3. CASE i \in 1..Len(s)
  BY <1>1, <1>3 DEF Range
<1> QED BY <1>1, <1>2, <1>3

LEMMA RangeOfTail ==
    ASSUME NEW S, NEW s \in Seq(S), s # <<>> PROVE Range(Tail(s)) \subseteq Range(s) /\ Head(s) \in Range(s)
<1>1. Len(s) \in Nat /\ Len(s) > 0 /\ Head(s) = s[1] /\ Tail(s) \in Seq(S) /\ Len(Tail(s)) = Len(s) - 1
      /\ \A i \in 1..(Len(s) - 1) : Tail(s)[i] = s[i + 1]
  OBVIOUS
<1>2. ASSUME NEW n \in Range(Tail(s)) PROVE n \in Range(s)
  <2>1. PICK i \in 1..(Len(s) - 1) : n = Tail(s)[i]
    BY <1>1 DEF Range
  <2>2. i + 1 \in 1..Len(s) /\ n = s[i + 1]
    BY <1>1, <2>1
  <2> QED BY <2>2 DEF Range
<1>3. 1 \in 1..Len(s)
  BY <1>1
<1> QED BY <1>1, <1>2, <1>3 DEF Range

LEMMA RangeOfEmpty == Range(<<>>) = {}
BY DEF Range

LEMMA EventsStayCommitted ==
    ASSUME StreamInv, EventsAreCommitted, [LiveNext]_liveVars
    PROVE  EventsAreCommitted' /\ Len(log) <= Len(log') /\ Len(log') \in Nat
<1> USE EventAssumption, NullIsNoEvent
<1>0. EventTypeOK
  BY DEF StreamInv
<1>1. CASE UNCHANGED serverSide
  BY <1>0, <1>1 DEF serverSide, publishing, consumer, connection, EventsAreCommitted, EventTypeOK
<1>2. ASSUME NEW p \in Publishers, NEW w \in Workspaces, Commit(p, w)
      PROVE  EventsAreCommitted' /\ Len(log) <= Len(log') /\ Len(log') \in Nat
  <2>1. /\ Len(log') = Len(log) + 1 /\ Len(log) \in Nat /\ UNCHANGED <<channel, due>>
        /\ pending' = [pending EXCEPT ![p] = Len(log) + 1]
    BY <1>0, <1>2 DEF Commit, EventTypeOK, consumer, connection
  <2>2. ASSUME NEW q \in Publishers, pending'[q] # Null PROVE pending'[q] <= Len(log')
    BY <1>0, <2>1, <2>2 DEF EventsAreCommitted, EventTypeOK, Events
  <2>3. ASSUME NEW n \in Range(channel) PROVE n <= Len(log')
    <3>1. n \in Events
      BY <1>0 DEF Range, EventTypeOK
    <3> QED BY <2>1, <3>1 DEF EventsAreCommitted, Events
  <2>4. ASSUME NEW c \in Clients, NEW n \in Range(due[c]) PROVE n <= Len(log')
    <3>1. n \in Events
      BY <1>0 DEF Range, EventTypeOK
    <3> QED BY <2>1, <3>1 DEF EventsAreCommitted, Events
  <2> QED BY <2>1, <2>2, <2>3, <2>4 DEF EventsAreCommitted
<1>3. ASSUME NEW p \in Publishers, PublishEvent(p) \/ PublishFails(p)
      PROVE  EventsAreCommitted' /\ Len(log) <= Len(log') /\ Len(log') \in Nat
  <2>1. /\ log' = log /\ due' = due /\ pending' = [pending EXCEPT ![p] = Null]
        /\ channel' = channel \/ (pending[p] # Null /\ channel' = Append(channel, pending[p]))
    BY <1>3 DEF PublishEvent, PublishFails, connection, consumer
  <2>2. ASSUME NEW n \in Range(channel') PROVE n <= Len(log)
    <3>1. channel \in Seq(Events) /\ \A k \in Range(channel) : k <= Len(log)
      BY <1>0 DEF EventTypeOK, EventsAreCommitted
    <3>2. CASE channel' = channel
      BY <2>2, <3>1, <3>2
    <3>3. CASE pending[p] # Null /\ channel' = Append(channel, pending[p])
      <4>1. pending[p] <= Len(log)
        BY <3>3 DEF EventsAreCommitted
      <4>2. n \in Range(Append(channel, pending[p]))
        BY <2>2, <3>3
      <4>3. n = pending[p] \/ n \in Range(channel)
        BY <3>1, <4>2, RangeOfAppend
      <4> QED BY <3>1, <4>1, <4>3
    <3> QED BY <2>1, <3>2, <3>3
  <2> QED BY <1>0, <2>1, <2>2 DEF EventsAreCommitted, EventTypeOK
<1>4. CASE Broadcast
  <2> DEFINE e == Head(channel)
  <2>1. /\ channel \in Seq(Events) /\ channel # <<>> /\ log' = log /\ pending' = pending
        /\ channel' = Tail(channel) /\ Len(log) \in Nat
        /\ \A c \in Clients : due'[c] = due[c] \/ due'[c] = Append(due[c], e)
    BY <1>0, <1>4 DEF Broadcast, HandOut, EventTypeOK, publishing
  <2>2. e <= Len(log) /\ \A n \in Range(channel') : n <= Len(log)
    BY <2>1, RangeOfTail DEF EventsAreCommitted
  <2> HIDE DEF e
  <2>3. ASSUME NEW c \in Clients, NEW n \in Range(due'[c]) PROVE n <= Len(log)
    <3>1. due[c] \in Seq(Events)
      BY <1>0 DEF EventTypeOK
    <3> QED BY <2>1, <2>2, <3>1, RangeOfAppend DEF EventsAreCommitted
  <2> QED BY <2>1, <2>2, <2>3 DEF EventsAreCommitted
<1>5. ASSUME [EventNext]_eventVars, ~Broadcast,
             ~\E p \in Publishers : Publish(p)
      PROVE  EventsAreCommitted' /\ Len(log) <= Len(log') /\ Len(log') \in Nat
  <2>1. log' = log /\ pending' = pending /\ (channel' = channel \/ channel' = <<>>)
    BY <1>5 DEF EventNext, Consume, ConsumerSubscribes, PollTimesOut, ConsumerFails, ApiRestarts, Write,
       TakeFrame, WriteFrame, EndStream, Open, NoticeDisconnect, eventVars, publishing, consumer
  <2>2. ASSUME NEW c \in Clients PROVE due'[c] = due[c] \/ due'[c] = <<>>
    BY <1>0, <1>5 DEF EventNext, Consume, ConsumerSubscribes, PollTimesOut, ConsumerFails, ApiRestarts, Write,
       TakeFrame, WriteFrame, EndStream, Open, NoticeDisconnect, eventVars, connection, EventTypeOK
  <2>3. \A n \in Range(channel') : n <= Len(log)
    BY <2>1, RangeOfEmpty DEF EventsAreCommitted
  <2>4. \A c \in Clients : \A n \in Range(due'[c]) : n <= Len(log)
    BY <2>2, RangeOfEmpty DEF EventsAreCommitted
  <2>5. Len(log) \in Nat
    BY <1>0 DEF EventTypeOK
  <2> QED BY <2>1, <2>3, <2>4, <2>5 DEF EventsAreCommitted
<1>6. faults \in Nat
  BY <1>0 DEF EventTypeOK
<1> QED BY <1>1, <1>2, <1>3, <1>4, <1>5, <1>6, LiveStepKinds DEF Publish

(* The tabs' half *)

\* What a step does to the query of tab t, named for what the tab sees.
SameQuery(t) ==
    /\ fetch'[t] = fetch[t] /\ answer'[t] = answer[t] /\ view'[t] = view[t]
    /\ failed'[t] = failed[t] /\ absorbed'[t] = absorbed[t]
Started(t) ==
    /\ fetch'[t] = "asked" /\ answer'[t] = 0 /\ view'[t] = view[t]
    /\ failed'[t] = failed[t] /\ absorbed'[t] = FALSE
Joined(t) ==
    /\ fetch'[t] = fetch[t] /\ answer'[t] = answer[t] /\ view'[t] = view[t]
    /\ failed'[t] = failed[t] /\ absorbed'[t] = TRUE
Answered(t) ==
    /\ fetch[t] = "asked" /\ fetch'[t] = "answered" /\ answer'[t] = Len(log)
    /\ view'[t] = view[t] /\ failed'[t] = failed[t] /\ absorbed'[t] = absorbed[t]
Shown(t) ==
    /\ fetch[t] = "answered" /\ fetch'[t] = "idle" /\ answer'[t] = 0
    /\ view'[t] = answer[t] /\ failed'[t] = FALSE /\ absorbed'[t] = absorbed[t]
Errored(t) ==
    /\ fetch'[t] = "idle" /\ answer'[t] = 0 /\ view'[t] = view[t]
    /\ failed'[t] = TRUE /\ absorbed'[t] = absorbed[t]

QueryMoves(t) ==
    SameQuery(t) \/ Started(t) \/ Joined(t) \/ Answered(t) \/ Shown(t) \/ Errored(t)

SameLink(t) ==
    status'[t] = status[t] /\ conn'[t] = conn[t] /\ est'[t] = est[t] /\ timer'[t] = timer[t]

TabStep(t) ==
    \/ Load(t) \/ FetchFails(t) \/ OwnMutation(t)
    \/ Mount(t) \/ Unmount(t) \/ Connect(t) \/ Refused(t)
    \/ OnOpen(t) \/ StreamLost(t) \/ Flush(t)

\* The query of t moves one way, and those of the other tabs do not move.
QueryStep(t) ==
    /\ QueryMoves(t) /\ \A u \in Tabs \ {t} : SameQuery(u)
    /\ fetch' \in [Tabs -> {"idle", "asked", "answered"}]
    /\ answer' \in [Tabs -> Versions]
    /\ view' \in [Tabs -> Versions \cup {Null}]
    /\ failed' \in [Tabs -> BOOLEAN] /\ absorbed' \in [Tabs -> BOOLEAN]

LEMMA StartFetchMoves ==
    ASSUME TabTypes, NEW t \in Tabs, StartFetch(t) PROVE QueryStep(t) /\ Started(t)
BY EventAssumption DEF TabTypes, StartFetch, QueryStep, QueryMoves, Started, SameQuery, Versions

LEMMA JoinFetchMoves ==
    ASSUME TabTypes, NEW t \in Tabs, JoinFetch(t) PROVE QueryStep(t) /\ Joined(t)
BY DEF TabTypes, JoinFetch, QueryStep, QueryMoves, Joined, SameQuery

LEMMA InvalidateMoves ==
    ASSUME TabTypes, NEW t \in Tabs, Invalidate(t) PROVE QueryStep(t) /\ (Started(t) \/ Joined(t))
BY StartFetchMoves, JoinFetchMoves DEF Invalidate

LEMMA SameQueryMoves ==
    ASSUME TabTypes, NEW t \in Tabs, UNCHANGED query PROVE QueryStep(t) /\ SameQuery(t)
BY DEF TabTypes, QueryStep, QueryMoves, SameQuery, query

LEMMA ReadRowsMoves ==
    ASSUME TabTypes, StreamInv, NEW t \in Tabs, ReadRows(t) PROVE QueryStep(t) /\ Answered(t)
<1>1. Len(log) \in Versions
  BY DEF StreamInv, EventTypeOK, Versions
<1>2. /\ fetch[t] = "asked" /\ fetch' = [fetch EXCEPT ![t] = "answered"]
      /\ answer' = [answer EXCEPT ![t] = Len(log)] /\ UNCHANGED <<view, failed, absorbed>>
  BY DEF ReadRows
<1> DEFINE n == Len(log)
<1>3. answer' = [answer EXCEPT ![t] = n] /\ n \in Versions
  BY <1>1, <1>2
<1> HIDE DEF n
<1>4. answer' \in [Tabs -> Versions] /\ answer'[t] = n /\ \A u \in Tabs \ {t} : answer'[u] = answer[u]
  BY <1>3 DEF TabTypes
<1>5. answer'[t] = Len(log)
  BY <1>4 DEF n
<1> QED BY <1>2, <1>4, <1>5 DEF TabTypes, QueryStep, QueryMoves, Answered, SameQuery

LEMMA ShowRowsMoves ==
    ASSUME TabTypes, NEW t \in Tabs, ShowRows(t) PROVE QueryStep(t) /\ Shown(t)
<1>1. /\ fetch[t] = "answered" /\ fetch' = [fetch EXCEPT ![t] = "idle"]
      /\ view' = [view EXCEPT ![t] = answer[t]] /\ answer' = [answer EXCEPT ![t] = 0]
      /\ failed' = [failed EXCEPT ![t] = FALSE] /\ absorbed' = absorbed
  BY DEF ShowRows
<1>2. answer[t] \in Versions /\ 0 \in Versions
  BY EventAssumption DEF TabTypes, Versions
<1> QED BY <1>1, <1>2 DEF TabTypes, QueryStep, QueryMoves, Shown, SameQuery

LEMMA FetchFailsMoves ==
    ASSUME TabTypes, NEW t \in Tabs, FetchFails(t) PROVE QueryStep(t) /\ Errored(t)
BY EventAssumption DEF TabTypes, FetchFails, QueryStep, QueryMoves, Errored, SameQuery, Versions

\* What a step of tab t does to its view and its stream; another tab's is left alone.
LinkStep(t) ==
    /\ status' \in [Tabs -> {"closed", "connecting", "connected", "error"}]
    /\ conn' \in [Tabs -> Clients \cup {Null}]
    /\ est' \in [Tabs -> BOOLEAN] /\ timer' \in [Tabs -> BOOLEAN]
    /\ \A u \in Tabs \ {t} : SameLink(u)
    /\ timer'[t] = timer[t] \/ conn'[t] = Null \/ Started(t) \/ Joined(t)
    /\ \/ conn'[t] = conn[t] \/ conn'[t] = Null
       \/ conn'[t] \in Clients /\ stream[conn'[t]] = "off" /\ ~Owned(conn'[t])
    /\ Linked(t)'
    /\ UNCHANGED <<log, sent>>

\* The steps of a tab, taken apart.
LEMMA TabStepEffect ==
    ASSUME StreamInv, TabTypes, NEW t \in Tabs, Linked(t), TabStep(t)
    PROVE  QueryStep(t) /\ LinkStep(t)
<1>1. CASE UNCHANGED <<link, timer, serverSide>> /\ QueryStep(t)
  <2>1. LinkStep(t)
    BY <1>1 DEF LinkStep, SameLink, Linked, link, serverSide, publishing, connection, TabTypes
  <2> QED BY <1>1, <2>1
<1>2. CASE Load(t) \/ FetchFails(t) \/ OwnMutation(t)
  <2>1. QueryStep(t)
    BY <1>2, ReadRowsMoves, ShowRowsMoves, FetchFailsMoves, StartFetchMoves, InvalidateMoves
       DEF Load, Poll, OwnMutation
  <2>2. UNCHANGED <<link, timer, serverSide>>
    BY <1>2 DEF Load, ReadRows, ShowRows, Poll, FetchFails, OwnMutation
  <2> QED BY <1>1, <2>1, <2>2
<1>3. CASE Mount(t)
  <2>1. QueryStep(t)
    BY <1>3, StartFetchMoves, SameQueryMoves DEF Mount
  <2>2. LinkStep(t)
    BY <1>3 DEF Mount, LinkStep, SameLink, Linked, serverSide, publishing, connection, TabTypes
  <2> QED BY <2>1, <2>2
<1>4. CASE Unmount(t)
  <2>1. QueryStep(t)
    BY <1>4, SameQueryMoves DEF Unmount
  <2>2. LinkStep(t)
    BY <1>4 DEF Unmount, LinkStep, SameLink, Linked, serverSide, publishing, connection, TabTypes
  <2> QED BY <2>1, <2>2
<1>5. CASE Connect(t)
  <2>1. QueryStep(t)
    BY <1>5, SameQueryMoves DEF Connect, query
  <2>2. PICK c \in Clients : ~Owned(c) /\ Open(c) /\ conn' = [conn EXCEPT ![t] = c]
    BY <1>5 DEF Connect
  <2>3. /\ status[t] = "connecting" /\ UNCHANGED <<status, est, timer, log, sent>> /\ stream[c] = "off"
    BY <1>5, <2>2 DEF Connect, Open, publishing
  <2>4. LinkStep(t)
    BY <2>2, <2>3 DEF LinkStep, SameLink, Linked, TabTypes
  <2> QED BY <2>1, <2>4
<1>6. CASE Refused(t)
  <2>1. QueryStep(t)
    BY <1>6, SameQueryMoves DEF Refused
  <2>2. LinkStep(t)
    BY <1>6 DEF Refused, LinkStep, SameLink, Linked, serverSide, publishing, connection, TabTypes
  <2> QED BY <2>1, <2>2
<1>7. CASE OnOpen(t)
  <2>1. QueryStep(t)
    BY <1>7, SameQueryMoves, InvalidateMoves DEF OnOpen
  <2>2. LinkStep(t)
    BY <1>7 DEF OnOpen, LinkStep, SameLink, Linked, serverSide, publishing, connection, TabTypes
  <2> QED BY <2>1, <2>2
<1>8. CASE StreamLost(t)
  <2>1. QueryStep(t)
    BY <1>8, SameQueryMoves DEF StreamLost
  <2>2. LinkStep(t)
    BY <1>8 DEF StreamLost, LinkStep, SameLink, Linked, serverSide, publishing, connection, TabTypes
  <2> QED BY <2>1, <2>2
<1>9. CASE Flush(t)
  <2>1. QueryStep(t) /\ (Started(t) \/ Joined(t))
    BY <1>9, InvalidateMoves DEF Flush
  <2>2. LinkStep(t)
    BY <1>9, <2>1 DEF Flush, LinkStep, SameLink, Linked, link, serverSide, publishing, connection, TabTypes
  <2> QED BY <2>1, <2>2
<1> QED BY <1>2, <1>3, <1>4, <1>5, <1>6, <1>7, <1>8, <1>9 DEF TabStep

\* A step that only another actor takes: the tab's query and link stay, except that a
\* delivered frame starts timers, and what was written to a connection is kept, is
\* forgotten, or grows by a frame that starts its tab's timer.
ServerMoves ==
    /\ UNCHANGED <<status, conn, est, fetch, answer, view, failed, absorbed>>
    /\ timer' \in [Tabs -> BOOLEAN]
    /\ \A t \in Tabs : timer[t] => timer'[t]
    /\ \A t \in Tabs : timer'[t] # timer[t] => status[t] = "connected"
    /\ \A c \in Clients :
        \/ sent'[c] = sent[c] \/ sent'[c] = <<>>
        \/ \A t \in Tabs : conn[t] = c => timer'[t]

LEMMA LiveStepsSplit ==
    ASSUME StreamInv, TabTypes, [LiveNext]_liveVars
    PROVE  ServerMoves \/ \E t \in Tabs : TabStep(t)
<1>0. EventTypeOK
  BY DEF StreamInv
<1>1. ASSUME UNCHANGED tabVars,
             \A c \in Clients : sent'[c] = sent[c] \/ sent'[c] = <<>>
      PROVE  ServerMoves
  BY <1>1 DEF ServerMoves, tabVars, TabTypes
<1>2. ASSUME NEW p \in Publishers, Publish(p), UNCHANGED tabVars PROVE ServerMoves
  <2>1. sent' = sent
    BY <1>2 DEF Publish, PublishEvent, PublishFails, Commit, connection
  <2> QED BY <1>1, <1>2, <2>1
<1>3. CASE (Consume \/ PollTimesOut \/ ConsumerFails \/ ApiRestarts) /\ UNCHANGED tabVars
  <2>1. \A c \in Clients : sent'[c] = sent[c] \/ sent'[c] = <<>>
    BY <1>3 DEF Consume, ConsumerSubscribes, Broadcast, HandOut, PollTimesOut, ConsumerFails, ApiRestarts,
       connection, eventVars
  <2> QED BY <1>1, <1>3, <2>1
<1>4. ASSUME NEW c \in Clients, TakeFrame(c) \/ EndStream(c) \/ NoticeDisconnect(c), UNCHANGED tabVars
      PROVE  ServerMoves
  <2>1. \A d \in Clients : sent'[d] = sent[d] \/ sent'[d] = <<>>
    BY <1>0, <1>4 DEF TakeFrame, EndStream, NoticeDisconnect, Leave, EventTypeOK
  <2> QED BY <1>1, <1>4, <2>1
<1>5. ASSUME NEW c \in Clients, Deliver(c) PROVE ServerMoves
  <2>1. \A d \in Clients \ {c} : sent'[d] = sent[d]
    BY <1>0, <1>5 DEF Deliver, WriteFrame, Leave, EventTypeOK
  <2>2. timer' = [t \in Tabs |-> timer[t] \/ conn[t] = c]
    BY <1>5 DEF Deliver, HandleEvent
  <2>3. /\ UNCHANGED <<status, conn, est, fetch, answer, view, failed, absorbed>>
        /\ \A t \in Tabs : conn[t] = c => status[t] = "connected"
    BY <1>5 DEF Deliver, link, query
  <2>4. /\ timer' \in [Tabs -> BOOLEAN]
        /\ \A t \in Tabs : timer'[t] = (timer[t] \/ conn[t] = c)
    BY <2>2 DEF TabTypes
  <2>5. \A t \in Tabs : timer'[t] # timer[t] => status[t] = "connected"
    BY <2>3, <2>4 DEF TabTypes
  <2> QED BY <2>1, <2>3, <2>4, <2>5 DEF ServerMoves
<1>6. CASE UNCHANGED liveVars
  BY <1>1, <1>6 DEF liveVars, tabVars
<1>7. ASSUME NEW c \in Clients, Serve(c) PROVE ServerMoves
  BY <1>4, <1>5, <1>7 DEF Serve
<1> QED BY <1>2, <1>3, <1>6, <1>7 DEF LiveNext, TabStep

\* One tab's query, moved one way, still covers every frame it covered.
LEMMA QueryKeepsCovered ==
    ASSUME StreamInv, TabTypes, NEW t \in Tabs, NEW n \in Events, n <= Len(log), QueryMoves(t),
           timer'[t] = timer[t] \/ Started(t) \/ Joined(t), TabTypes', Covered(t, n)
    PROVE  Covered(t, n)'
<1>0. /\ Len(log) \in Nat /\ view[t] \in Versions \cup {Null} /\ answer[t] \in Versions
      /\ answer'[t] \in Versions /\ view'[t] \in Versions \cup {Null}
  BY DEF StreamInv, EventTypeOK, TabTypes
<1>1. CASE Started(t)
  BY <1>1 DEF Started, Covered
<1>2. CASE Joined(t)
  BY <1>2 DEF Joined, Covered
<1>3. CASE SameQuery(t) /\ timer'[t] = timer[t]
  BY <1>3 DEF SameQuery, Covered, Shows
<1>4. CASE Answered(t) /\ timer'[t] = timer[t]
  BY <1>0, <1>4 DEF Answered, Covered
<1>5. CASE Shown(t) /\ timer'[t] = timer[t]
  <2>1. answer[t] # Null
    BY <1>0, EventAssumption DEF Versions
  <2> QED BY <1>0, <1>5, <2>1 DEF Shown, Covered, Shows
<1>6. CASE Errored(t) /\ timer'[t] = timer[t]
  BY <1>6 DEF Errored, Covered
<1> QED BY <1>1, <1>2, <1>3, <1>4, <1>5, <1>6 DEF QueryMoves

LEMMA QueryMovesOn ==
    ASSUME TabTypes, TabTypes', NEW t \in Tabs, QueryMoves(t), FetchesMoveOn(t), StreamInv, StreamInv',
           Len(log) <= Len(log')
    PROVE  FetchesMoveOn(t)'
<1>0. /\ Len(log) \in Nat /\ Len(log') \in Nat /\ view[t] \in Nat \cup {Null} /\ answer[t] \in Nat
      /\ Len(log) <= Len(log')
  <2>1. view[t] \in Versions \cup {Null} /\ answer[t] \in Versions
    BY DEF TabTypes
  <2>2. Versions \subseteq Nat
    BY EventAssumption DEF Versions
  <2>3. Len(log) \in Nat /\ Len(log') \in Nat
    BY DEF StreamInv, EventTypeOK
  <2>4. view[t] \in Nat \cup {Null} /\ answer[t] \in Nat
    BY <2>1, <2>2
  <2> QED BY <2>3, <2>4
<1>0a. /\ answer[t] <= Len(log) /\ (view[t] # Null => view[t] <= Len(log))
       /\ fetch[t] = "answered" /\ view[t] # Null => view[t] <= answer[t]
  BY DEF FetchesMoveOn
<1>0b. 0 <= Len(log') /\ answer[t] <= Len(log') /\ (view[t] # Null => view[t] <= Len(log'))
  BY <1>0, <1>0a
<1>1. CASE Started(t) \/ Joined(t) \/ Errored(t)
  BY <1>0, <1>0a, <1>0b, <1>1 DEF Started, Joined, Errored, FetchesMoveOn
<1>2. CASE SameQuery(t)
  BY <1>0, <1>0a, <1>0b, <1>2 DEF SameQuery, FetchesMoveOn
<1>3. CASE Answered(t)
  BY <1>0, <1>0a, <1>0b, <1>3 DEF Answered, FetchesMoveOn
<1>4. CASE Shown(t)
  BY <1>0, <1>0a, <1>0b, <1>4 DEF Shown, FetchesMoveOn
<1> QED BY <1>1, <1>2, <1>3, <1>4 DEF QueryMoves

LEMMA TabTypesKept ==
    ASSUME TabTypes, \/ ServerMoves
                     \/ \E t \in Tabs : QueryStep(t) /\ LinkStep(t)
    PROVE  TabTypes'
<1>1. CASE ServerMoves
  BY <1>1 DEF ServerMoves, TabTypes
<1>2. ASSUME NEW t \in Tabs, QueryStep(t), LinkStep(t) PROVE TabTypes'
  BY <1>2 DEF QueryStep, LinkStep, TabTypes
<1> QED BY <1>1, <1>2

LEMMA TabInvKept ==
    ASSUME TabInv, [LiveNext]_liveVars PROVE TabInv'
<1>0. /\ StreamInv /\ TabTypes /\ ConnectionsAreOwned /\ EventsAreCommitted
      /\ \A t \in Tabs : Linked(t) /\ FetchesMoveOn(t) /\ FramesAreCovered(t)
  BY DEF TabInv
<1>1. StreamInv'
  BY <1>0, ServerHalfKept
<1>2. EventsAreCommitted' /\ Len(log) <= Len(log')
  BY <1>0, EventsStayCommitted
<1>3. ServerMoves \/ \E t \in Tabs : TabStep(t)
  BY <1>0, LiveStepsSplit
<1>4. ServerMoves \/ \E t \in Tabs : QueryStep(t) /\ LinkStep(t)
  BY <1>0, <1>3, TabStepEffect
<1>5. TabTypes'
  BY <1>0, <1>4, TabTypesKept
<1>6. ConnectionsAreOwned'
  <2>1. CASE ServerMoves
    BY <1>0, <2>1 DEF ServerMoves, ConnectionsAreOwned
  <2>2. ASSUME NEW t \in Tabs, LinkStep(t) PROVE ConnectionsAreOwned'
    BY <1>0, <2>2 DEF LinkStep, SameLink, ConnectionsAreOwned, Owned
  <2> QED BY <1>4, <2>1, <2>2
\* The changes a tab was sent are events, and committed.
<1>7. ASSUME NEW c \in Clients, NEW n \in Range(sent[c]) PROVE n \in Events /\ n <= Len(log)
  <2>1. n \in Range(due[c])
    BY <1>0, <1>7, SentWasDue
  <2>2. sent[c] \in Seq(Events)
    BY <1>0 DEF StreamInv, EventTypeOK
  <2>3. n \in Events
    BY <1>7, <2>2 DEF Range
  <2> QED BY <1>0, <2>1, <2>3 DEF EventsAreCommitted
<1>8. ASSUME NEW u \in Tabs PROVE (Linked(u) /\ FetchesMoveOn(u) /\ FramesAreCovered(u))'
  <2>0. Linked(u) /\ FetchesMoveOn(u) /\ FramesAreCovered(u)
        /\ conn[u] \in Clients \cup {Null}
    BY <1>0 DEF TabTypes
  <2>1. CASE ServerMoves
    <3>1. SameQuery(u) /\ conn'[u] = conn[u] /\ (timer[u] => timer'[u])
      BY <2>1 DEF ServerMoves, SameQuery
    <3>2. FetchesMoveOn(u)'
      BY <1>0, <1>1, <1>2, <1>5, <2>0, <3>1, QueryMovesOn DEF QueryMoves
    <3>3. Linked(u)'
      BY <1>0, <1>5, <2>0, <2>1 DEF ServerMoves, Linked, TabTypes
    <3>4. ASSUME conn'[u] # Null, NEW n \in Range(sent'[conn'[u]]) PROVE Covered(u, n)'
      <4>1. conn[u] \in Clients /\ conn'[u] = conn[u]
        BY <2>0, <3>1, <3>4
      <4>2. CASE sent'[conn[u]] = <<>>
        BY <3>4, <4>1, <4>2, RangeOfEmpty
      <4>3. CASE timer'[u]
        BY <4>3 DEF Covered
      <4>4. CASE sent'[conn[u]] = sent[conn[u]]
        <5>1. Covered(u, n)
          BY <2>0, <3>4, <4>1, <4>4 DEF FramesAreCovered
        <5> QED BY <3>1, <5>1 DEF Covered, SameQuery, Shows
      <4> QED BY <2>1, <4>1, <4>2, <4>3, <4>4 DEF ServerMoves
    <3>5. FramesAreCovered(u)'
      BY <3>4 DEF FramesAreCovered
    <3> QED BY <3>2, <3>3, <3>5
  <2>2. ASSUME NEW t \in Tabs, QueryStep(t), LinkStep(t)
        PROVE  (Linked(u) /\ FetchesMoveOn(u) /\ FramesAreCovered(u))'
    <3>1. QueryMoves(u)
      BY <2>2 DEF QueryStep, QueryMoves
    <3>2. FetchesMoveOn(u)'
      BY <1>0, <1>1, <1>2, <1>5, <2>0, <3>1, QueryMovesOn
    <3>3. Linked(u)'
      BY <2>0, <2>2 DEF LinkStep, SameLink, Linked
    <3>4. ASSUME conn'[u] # Null, NEW n \in Range(sent'[conn'[u]]) PROVE Covered(u, n)'
      <4>1. sent' = sent /\ (timer'[u] = timer[u] \/ Started(u) \/ Joined(u))
        BY <2>2, <3>4 DEF LinkStep, SameLink
      <4>2. CASE conn'[u] = conn[u]
        <5>1. n \in Events /\ n <= Len(log) /\ Covered(u, n)
          BY <1>7, <2>0, <3>4, <4>1, <4>2 DEF FramesAreCovered
        <5> QED BY <1>0, <1>5, <3>1, <4>1, <5>1, QueryKeepsCovered
      <4>3. CASE conn'[u] # conn[u]
        <5>1. conn'[u] \in Clients /\ stream[conn'[u]] = "off"
          BY <2>2, <3>4, <4>3 DEF LinkStep, SameLink
        <5>2. sent[conn'[u]] = <<>>
          BY <1>0, <5>1 DEF StreamInv, StreamAt
        <5> QED BY <3>4, <4>1, <5>2, RangeOfEmpty
      <4> QED BY <4>2, <4>3
    <3>5. FramesAreCovered(u)'
      BY <3>4 DEF FramesAreCovered
    <3> QED BY <3>2, <3>3, <3>5
  <2> QED BY <1>4, <2>1, <2>2
<1> QED BY <1>1, <1>2, <1>5, <1>6, <1>8 DEF TabInv

LEMMA TabInvStarts == LiveInit => TabInv
<1> SUFFICES ASSUME LiveInit PROVE TabInv
  OBVIOUS
<1>1. StreamInv /\ EventInit
  BY StreamInvStarts DEF LiveInit
<1>2. TabTypes /\ ConnectionsAreOwned
  BY EventAssumption DEF LiveInit, TabTypes, ConnectionsAreOwned, Versions
<1>3. EventsAreCommitted
  BY <1>1, RangeOfEmpty DEF EventInit, EventsAreCommitted
<1>4. ASSUME NEW t \in Tabs PROVE Linked(t) /\ FetchesMoveOn(t) /\ FramesAreCovered(t)
  <2>1. status[t] = "closed" /\ conn[t] = Null /\ ~est[t] /\ ~timer[t] /\ view[t] = Null /\ answer[t] = 0
    BY DEF LiveInit
  <2>2. Len(log) \in Nat
    BY <1>1 DEF StreamInv, EventTypeOK
  <2> QED BY <2>1, <2>2 DEF Linked, FetchesMoveOn, FramesAreCovered
<1> QED BY <1>1, <1>2, <1>3, <1>4 DEF TabInv

\* When nothing is under way, what was handed out is what was sent.
LEMMA TabInvSuffices == TabInv => LiveInv
<1> SUFFICES ASSUME TabInv PROVE LiveInv
  OBVIOUS
<1>1. LiveTypeOK
  <2>1. \A t \in Tabs : \A u \in Tabs \ {t} : conn[t] = Null \/ conn[t] # conn[u]
    BY DEF TabInv, ConnectionsAreOwned
  <2>2. EventTypeOK /\ TabTypes /\ \A t \in Tabs : Linked(t)
    BY DEF TabInv, StreamInv
  <2> QED BY <2>1, <2>2 DEF LiveTypeOK, TabTypes, Linked
<1>2. ASSUME NEW t \in Tabs, Quiet(t), ~Excused(t), view[t] # Null, NEW n \in Range(due[conn[t]])
      PROVE  Shows(t, n)
  <2>1. conn[t] # Null /\ conn[t] \in Clients
    BY <1>2 DEF Quiet, TabInv, Linked, TabTypes
  <2> DEFINE c == conn[t]
  <2>2. StreamAt(c) /\ Gapless(c) /\ sent[c] \in Seq(Events)
    BY <2>1 DEF TabInv, StreamInv, EventTypeOK
  <2>3. sent[c] = due[c]
    <3>1. item[c] = Null /\ ~closed[c] /\ buf[c] = <<>> /\ stream[c] # "off"
      BY <1>2, <2>2 DEF Quiet, StreamAt
    <3>2. sent[c] \o <<>> = due[c]
      BY <2>2, <3>1 DEF Gapless, Written
    <3>3. sent[c] \o <<>> = sent[c]
      BY <2>2
    <3> QED BY <3>2, <3>3
  <2>4. Covered(t, n)
    BY <1>2, <2>1, <2>3 DEF TabInv, FramesAreCovered
  <2> QED BY <1>2, <2>4 DEF Covered, Quiet, Excused
<1> QED BY <1>1, <1>2 DEF LiveInv, QuietViewIsCurrent

\* Whatever the server, the network and the users do, no two tabs own one connection, and
\* a tab with nothing under way, no error to show and no joined first load has a view as new
\* as every change handed out for its connection (useQueueRealtimeInvalidation).
THEOREM QuietViewsAreCurrent == LiveSpec => []LiveInv
<1>1. TabInv /\ [LiveNext]_liveVars => TabInv'
  BY TabInvKept
<1> QED BY <1>1, TabInvStarts, TabInvSuffices, PTL DEF LiveSpec
=============================================================================
