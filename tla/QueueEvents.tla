---------------------------- MODULE QueueEvents ----------------------------
(***************************************************************************)
(* The server side of the queue event stream: services publish an event     *)
(* after their commit, Redis Pub/Sub hands it to the consumer of the API     *)
(* process if that is subscribed just then, the broadcaster puts it into the *)
(* bounded buffer of every SSE connection of the event's workspace, and each *)
(* connection writes its buffer out at the pace of its client.               *)
(*                                                                         *)
(* An event is its position in the log of commits.  The callbacks of the     *)
(* broadcaster do not suspend, so one broadcast is one step, and so is       *)
(* answering a request: subscribing follows the response headers in the      *)
(* same turn of the event loop.                                              *)
(***************************************************************************)
EXTENDS Naturals, Sequences, SequencesExt

CONSTANTS
    Publishers,     \* API requests and workers that commit and then publish
    Clients,        \* SSE connections
    Workspaces,
    Home,           \* the workspace each connection is opened for
    Prompt,         \* the connections whose client keeps taking frames
    Buffer,         \* SSE_CLIENT_QUEUE_MAXSIZE
    Null,           \* nothing to publish
    MaxEvents,      \* bound: commits
    MaxFaults       \* bound: failed publishes and lost Redis sessions

ASSUME EventAssumption ==
    /\ Home \in [Clients -> Workspaces] /\ Prompt \subseteq Clients
    /\ Buffer \in Nat \ {0}
    /\ MaxEvents \in Nat /\ MaxFaults \in Nat
    /\ Null \notin Nat

VARIABLES
    log,        \* the workspace of every committed change, in commit order
    pending,    \* the event each publisher has committed and not yet published
    subscribed, \* the consumer's Pub/Sub session is up
    channel,    \* events Redis has sent to that session
    due,        \* the events handed out for a connection's workspace since it subscribed
    stream,     \* where the generator of each connection is
    buf,        \* its asyncio.Queue
    item,       \* the frame it is writing, or none
    closed,     \* its asyncio.Event
    sent,       \* the frames written since it subscribed
    faults

publishing == <<log, pending>>
consumer   == <<subscribed, channel>>
connection == <<due, stream, buf, item, closed, sent>>
eventVars == <<log, pending, subscribed, channel, due, stream, buf, item, closed, sent,
               faults>>

Events == 1..MaxEvents

\* The type of the state; no buffer exceeds SSE_CLIENT_QUEUE_MAXSIZE (_event_stream).
EventTypeOK ==
    /\ log \in Seq(Workspaces) /\ Len(log) <= MaxEvents
    /\ pending \in [Publishers -> Events \cup {Null}]
    /\ subscribed \in BOOLEAN
    /\ channel \in Seq(Events)
    /\ due \in [Clients -> Seq(Events)]
    /\ stream \in [Clients -> {"off", "waiting", "writing"}]
    /\ buf \in [Clients -> Seq(Events)] /\ \A c \in Clients : Len(buf[c]) <= Buffer
    /\ item \in [Clients -> Events \cup {Null}]
    /\ closed \in [Clients -> BOOLEAN]
    /\ sent \in [Clients -> Seq(Events)]
    /\ faults \in Nat

EventInit ==
    /\ log = <<>>
    /\ pending = [p \in Publishers |-> Null]
    /\ subscribed = FALSE /\ channel = <<>>
    /\ due = [c \in Clients |-> <<>>]
    /\ stream = [c \in Clients |-> "off"]
    /\ buf = [c \in Clients |-> <<>>]
    /\ item = [c \in Clients |-> Null]
    /\ closed = [c \in Clients |-> FALSE]
    /\ sent = [c \in Clients |-> <<>>]
    /\ faults = 0

-----------------------------------------------------------------------------
(* Publishing *)

\* A change is committed; its event is built and about to be published
Commit(p, w) ==
    /\ pending[p] = Null /\ Len(log) < MaxEvents
    /\ log' = Append(log, w)
    /\ pending' = [pending EXCEPT ![p] = Len(log) + 1]
    /\ UNCHANGED <<consumer, connection, faults>>

\* PUBLISH: whoever is subscribed at this moment gets it, nobody else ever will
PublishEvent(p) ==
    /\ pending[p] # Null
    /\ channel' = IF subscribed THEN Append(channel, pending[p]) ELSE channel
    /\ pending' = [pending EXCEPT ![p] = Null]
    /\ UNCHANGED <<log, subscribed, connection, faults>>

\* Redis refuses (the exception is logged), or the process is lost after its commit
PublishFails(p) ==
    /\ pending[p] # Null /\ faults < MaxFaults
    /\ pending' = [pending EXCEPT ![p] = Null]
    /\ faults' = faults + 1
    /\ UNCHANGED <<log, consumer, connection>>

-----------------------------------------------------------------------------
(* EventConsumer and EventBroadcaster *)

\* Start of _consume_session
ConsumerSubscribes ==
    /\ ~subscribed
    /\ subscribed' = TRUE
    /\ UNCHANGED <<publishing, channel, connection, faults>>

\* The session fails: what Redis sent and nobody read is gone
ConsumerFails ==
    /\ subscribed /\ faults < MaxFaults
    /\ subscribed' = FALSE
    /\ channel' = <<>>
    /\ faults' = faults + 1
    /\ UNCHANGED <<publishing, connection>>

\* The connections whose on_event goes on to put_nowait
Listening(c, e) == stream[c] # "off" /\ ~closed[c] /\ Home[c] = log[e]

\* put_nowait raises QueueFull
Full(c) == Len(buf[c]) = Buffer

\* Mutant of Overflows: an event that does not fit is dropped and the stream goes on
OverflowsNever(c, e) == FALSE

\* QueueFull closes that connection
Overflows(c, e) == Listening(c, e) /\ Full(c)

\* on_event of every connection, for the event the consumer has read
HandOut(e) ==
    /\ due' = [c \in Clients |->
           IF Home[c] = log[e] THEN Append(due[c], e) ELSE due[c]]
    /\ buf' = [c \in Clients |->
           IF Listening(c, e) /\ ~Full(c) THEN Append(buf[c], e) ELSE buf[c]]
    /\ closed' = [c \in Clients |-> closed[c] \/ Overflows(c, e)]
    /\ channel' = Tail(channel)
    /\ UNCHANGED <<publishing, subscribed, stream, item, sent, faults>>

\* Mutant of Broadcast: awaits put() instead of put_nowait(), so a full buffer holds the
\* consumer up
BroadcastWaits ==
    /\ channel # <<>>
    /\ \A c \in Clients : ~Overflows(c, Head(channel))
    /\ HandOut(Head(channel))

\* get_message, then broadcaster.publish to every subscriber
Broadcast == channel # <<>> /\ HandOut(Head(channel))

\* get_message finds nothing within its timeout; the consumer never stops polling
PollTimesOut == subscribed /\ channel = <<>> /\ UNCHANGED eventVars

\* The API process is replaced.  Its lifespan starts the consumer without waiting for the
\* first subscription.
ApiRestarts ==
    /\ faults < MaxFaults
    /\ faults' = faults + 1
    /\ subscribed' = FALSE /\ channel' = <<>>
    /\ stream' = [c \in Clients |-> "off"]
    /\ buf' = [c \in Clients |-> <<>>]
    /\ item' = [c \in Clients |-> Null]
    /\ closed' = [c \in Clients |-> FALSE]
    /\ sent' = [c \in Clients |-> <<>>]
    /\ UNCHANGED <<publishing, due>>

-----------------------------------------------------------------------------
(* _event_stream *)

\* GET /queues/stream is answered and the generator subscribes
Open(c) ==
    /\ stream[c] = "off"
    /\ stream' = [stream EXCEPT ![c] = "waiting"]
    /\ due' = [due EXCEPT ![c] = <<>>]
    /\ UNCHANGED <<publishing, consumer, buf, item, closed, sent, faults>>

\* queue.get() returns the next event
TakeFrame(c) ==
    /\ stream[c] = "waiting" /\ buf[c] # <<>>
    /\ item' = [item EXCEPT ![c] = Head(buf[c])]
    /\ buf' = [buf EXCEPT ![c] = Tail(buf[c])]
    /\ stream' = [stream EXCEPT ![c] = "writing"]
    /\ UNCHANGED <<publishing, consumer, due, closed, sent, faults>>

\* finally: unsubscribe; the buffer is garbage
Leave(c) ==
    /\ stream' = [stream EXCEPT ![c] = "off"]
    /\ item' = [item EXCEPT ![c] = Null]
    /\ buf' = [buf EXCEPT ![c] = <<>>]
    /\ closed' = [closed EXCEPT ![c] = FALSE]
    /\ sent' = [sent EXCEPT ![c] = <<>>]

\* The client has taken the frame: back to the head of the loop
WriteFrame(c) ==
    /\ stream[c] = "writing"
    /\ \/ closed[c] /\ Leave(c)
       \/ /\ ~closed[c]
          /\ sent' = [sent EXCEPT ![c] = Append(sent[c], item[c])]
          /\ stream' = [stream EXCEPT ![c] = "waiting"]
          /\ item' = [item EXCEPT ![c] = Null]
          /\ UNCHANGED <<buf, closed>>
    /\ UNCHANGED <<publishing, consumer, due, faults>>

\* watch_disconnect notices that the client has gone
NoticeDisconnect(c) ==
    /\ stream[c] # "off" /\ ~closed[c]
    /\ closed' = [closed EXCEPT ![c] = TRUE]
    /\ UNCHANGED <<publishing, consumer, due, stream, buf, item, sent, faults>>

\* Mutant of EndStream: closing does not wake a generator that waits for an event
EndStreamWriting(c) ==
    /\ closed[c] /\ stream[c] = "writing"
    /\ Leave(c)
    /\ UNCHANGED <<publishing, consumer, due, faults>>

\* A closed connection leaves the loop when it finds its buffer empty (the None sentinel or
\* the heartbeat timeout wakes it), or because writing to a client that has gone raises
EndStream(c) ==
    /\ closed[c]
    /\ \/ stream[c] = "waiting" /\ buf[c] = <<>>
       \/ stream[c] = "writing"
    /\ Leave(c)
    /\ UNCHANGED <<publishing, consumer, due, faults>>

-----------------------------------------------------------------------------

Write(c) == TakeFrame(c) \/ WriteFrame(c) \/ EndStream(c)
Consume  == ConsumerSubscribes \/ Broadcast
Publish(p) == PublishEvent(p) \/ PublishFails(p) \/ \E w \in Workspaces : Commit(p, w)

EventNext ==
    \/ \E p \in Publishers : Publish(p)
    \/ Consume \/ PollTimesOut \/ ConsumerFails \/ ApiRestarts
    \/ \E c \in Clients : Write(c) \/ Open(c) \/ NoticeDisconnect(c)

EventSpec == EventInit /\ [][EventNext]_eventVars

\* The consumer loop is a task of a running event loop, and so is each generator as long as
\* its client takes the frames.  Nobody is obliged to commit, to connect or to fail.
FairEventSpec ==
    /\ EventSpec
    /\ WF_eventVars(Consume)
    /\ \A c \in Prompt : WF_eventVars(Write(c))

-----------------------------------------------------------------------------
(* Properties *)

Written(c) == IF item[c] = Null THEN sent[c] ELSE Append(sent[c], item[c])

\* An open connection has no gap (_event_stream, on_event): what it wrote, is writing and
\* holds is exactly what was handed out for its workspace since it subscribed, in order.
\* One that is being closed has a prefix of it.
StreamHasNoGap ==
    \A c \in Clients : stream[c] # "off" =>
        /\ IsPrefix(Written(c) \o buf[c], due[c])
        /\ ~closed[c] => Written(c) \o buf[c] = due[c]

\* A client that never takes a frame delays nobody (EventBroadcaster.publish): an event
\* in the channel is written to every prompt client of its workspace, or its connection
\* or the consumer's session ends.
SlowClientDelaysNobody ==
    \A c \in Prompt, e \in Events :
        (e \in Range(channel) /\ stream[c] # "off" /\ log[e] = Home[c])
            ~> (e \in Range(sent[c]) \/ closed[c] \/ stream[c] = "off" \/ ~subscribed)

\* A prompt client's connection that is being closed does end and is unsubscribed (the
\* finally block of _event_stream).
ClosedStreamsEnd == \A c \in Prompt : closed[c] ~> stream[c] = "off"

\* Events reach the clients that read, and connections that are closed end, whatever a client
\* that does not read does.
StreamsGoOn == SlowClientDelaysNobody /\ ClosedStreamsEnd

\* In every state: the types, the bound of every buffer, and streams without a gap.
EventInv == EventTypeOK /\ StreamHasNoGap
=============================================================================
