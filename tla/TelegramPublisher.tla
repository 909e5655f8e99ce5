------------------------- MODULE TelegramPublisher -------------------------
(***************************************************************************)
(* Sending a post: the chunks of TelegramText in order, each by an HTTP call   *)
(* that is repeated after a transient failure.  A call whose answer never     *)
(* comes may have reached the chat, or may still reach it.  The caller may     *)
(* publish again after a failure that is not a rejection; it starts from the   *)
(* first chunk.                                                            *)
(***************************************************************************)
EXTENDS TelegramText

CONSTANTS
    MaxRetries,     \* TELEGRAM_MAX_RETRIES
    MaxPublishes    \* bound: calls of publish for one post

ASSUME TransportAssumption == MaxRetries \in Nat /\ MaxPublishes \in Nat \ {0}

VARIABLES
    publishes,  \* calls of publish so far
    part,       \* the chunk being sent
    tries,      \* requests made for it by this call
    waiting,    \* a request is in flight
    late,       \* requests given up that may still arrive, per chunk
    chat,       \* the chunks in the chat, in the order they appear
    acks,       \* where in the chat the chunks this call was told of are
    primary,    \* where the message publish will return is, or 0
    why         \* the class of the last failure

sendVars == <<publishes, part, tries, waiting, late, chat, acks, primary, why>>
vars == <<text, photo, rest, chunks, stage, publishes, part, tries, waiting, late, chat,
          acks, primary, why>>

\* The type of the state.  A failed or finished call has no request in flight, and only
\* chunks that exist are sent (_publish_text_chunks).
TelegramTypeOK ==
    /\ text \in Texts /\ photo \in BOOLEAN
    /\ rest \in Seq(Chars) /\ chunks \in Seq(Seq(Chars))
    /\ stage \in {"caption", "split", "send", "sent", "failed"}
    /\ publishes \in 1..MaxPublishes
    /\ tries \in 0..(MaxRetries + 1)
    /\ waiting \in BOOLEAN /\ (waiting => stage = "send" /\ tries > 0)
    /\ stage = "send" => part \in DOMAIN chunks
    /\ chat \in Seq(DOMAIN chunks)
    /\ acks \in Seq(DOMAIN chat) /\ primary \in {0} \cup DOMAIN chat
    /\ why \in {"none", "transient", "rejected"}

Init ==
    /\ TextInit
    /\ publishes = 1 /\ part = 1 /\ tries = 0 /\ waiting = FALSE
    /\ late = <<>> /\ chat = <<>> /\ acks = <<>> /\ primary = 0
    /\ why = "none"

CutText ==
    /\ Split
    /\ late' = [i \in DOMAIN chunks' |-> 0]
    /\ UNCHANGED <<publishes, part, tries, waiting, chat, acks, primary, why>>

-----------------------------------------------------------------------------
(* _post *)

\* client.post
Post ==
    /\ stage = "send" /\ ~waiting
    /\ waiting' = TRUE
    /\ tries' = tries + 1
    /\ UNCHANGED <<textVars, publishes, part, late, chat, acks, primary, why>>

\* Mutant of RetriesLeft: the first request is not counted
RetriesLeftOneMore == tries <= MaxRetries + 1

\* Another request may be made for this chunk
RetriesLeft == tries <= MaxRetries

\* Mutant of FailsTransiently: after the last retry the next chunk is tried
FailsTransientlySkips ==
    /\ why' = "transient"
    /\ waiting' = FALSE
    /\ stage' = IF ~RetriesLeft /\ part = Len(chunks) THEN "sent" ELSE stage
    /\ IF ~RetriesLeft /\ part < Len(chunks)
       THEN part' = part + 1 /\ tries' = 0
       ELSE UNCHANGED <<part, tries>>
    /\ UNCHANGED <<text, photo, rest, chunks, publishes, acks, primary>>

\* A transport error, a 5xx or a 429: slept off, or raised when the retries are used up
FailsTransiently ==
    /\ why' = "transient"
    /\ waiting' = FALSE
    /\ stage' = IF RetriesLeft THEN stage ELSE "failed"
    /\ UNCHANGED <<text, photo, rest, chunks, publishes, part, tries, acks, primary>>

\* Mutant of Reported: every answer overwrites the message publish will return
ReportedLast == Len(chat) + 1

\* The first outbound message is the one publish returns
Reported == IF part = 1 THEN Len(chat) + 1 ELSE primary

LastPart == part = Len(chunks)

\* Telegram posts the chunk and says so
Accepted ==
    /\ waiting
    /\ chat' = Append(chat, part)
    /\ acks' = Append(acks, Len(chat) + 1)
    /\ primary' = Reported
    /\ waiting' = FALSE
    /\ IF LastPart
       THEN stage' = "sent" /\ UNCHANGED <<part, tries>>
       ELSE part' = part + 1 /\ tries' = 0 /\ UNCHANGED stage
    /\ UNCHANGED <<text, photo, rest, chunks, publishes, late, why>>

\* The chunk is posted, but the answer is lost or unusable
Unheard ==
    /\ waiting
    /\ chat' = Append(chat, part)
    /\ FailsTransiently
    /\ UNCHANGED late

\* Mutant of NotPosted: waiting for the rate limit does not use up a retry
NotPostedUncounted ==
    /\ waiting
    /\ waiting' = FALSE /\ tries' = tries - 1 /\ why' = "transient"
    /\ UNCHANGED <<textVars, publishes, part, late, chat, acks, primary>>

\* Nothing was posted: no connection, a 5xx, a 429
NotPosted ==
    /\ waiting
    /\ FailsTransiently
    /\ UNCHANGED <<late, chat>>

\* The timeout passes while the request is still on its way
GivenUp ==
    /\ waiting
    /\ late' = [late EXCEPT ![part] = @ + 1]
    /\ FailsTransiently
    /\ UNCHANGED chat

Arrives(p) ==
    /\ late[p] > 0
    /\ late' = [late EXCEPT ![p] = @ - 1]
    /\ chat' = Append(chat, p)
    /\ UNCHANGED <<textVars, publishes, part, tries, waiting, acks, primary, why>>

\* A permanent failure is raised at once.  An answer that is not JSON and no 5xx is one too,
\* for _post but not for its caller; the chunk may have been posted.
Raised ==
    /\ waiting
    /\ waiting' = FALSE
    /\ stage' = "failed"
    /\ \/ why' = "rejected" /\ UNCHANGED chat
       \/ why' = "transient" /\ chat' \in {chat, Append(chat, part)}
    /\ UNCHANGED <<text, photo, rest, chunks, publishes, part, tries, late, acks, primary>>

\* The caller publishes again: the next beat, a Celery retry or an operator
PublishAgain ==
    /\ stage = "failed" /\ publishes < MaxPublishes
    /\ publishes' = publishes + 1
    /\ stage' = "send" /\ part' = 1 /\ tries' = 0
    /\ acks' = <<>> /\ primary' = 0 /\ why' = "none"
    /\ UNCHANGED <<text, photo, rest, chunks, waiting, late, chat>>

-----------------------------------------------------------------------------

Answer == Accepted \/ Unheard \/ NotPosted \/ GivenUp \/ Raised

Send == CutText \/ Post \/ Answer

Late == \E p \in DOMAIN late : Arrives(p)

Ended == stage \in {"sent", "failed"}

Quiescent == Ended /\ UNCHANGED vars

Next == Send \/ Late \/ PublishAgain \/ Quiescent

Spec == Init /\ [][Next]_vars

\* The task that publishes runs, and every request has a timeout
FairSpec == Spec /\ WF_vars(Send)

-----------------------------------------------------------------------------
(* Properties *)

\* A message is the next of its predecessor (publish: "Follow-up chunks are sent
\* sequentially afterward"): whatever is in the chat, retries and late requests included,
\* some copy of the chunk before it is above it.
ChunksFollowInOrder ==
    \A i \in DOMAIN chat : chat[i] > 1 => \E j \in 1..(i - 1) : chat[j] = chat[i] - 1

\* A publish that returns has put the whole post into the chat, in order, and returns the
\* id of its first message ("provider_message_id always refers to the first outbound
\* message").
ResultIsWholePost ==
    /\ \A i \in DOMAIN acks : chat[acks[i]] = i /\ (i > 1 => acks[i - 1] < acks[i])
    /\ stage = "sent" => Len(acks) = Len(chunks) /\ primary = acks[1]

\* One call makes at most 1 + MaxRetries requests for a chunk (_post), so no more copies of
\* it than that per call can ever turn up, however late.
CopiesAreBounded ==
    \A p \in DOMAIN late :
        late[p] + Cardinality({i \in DOMAIN chat : chat[i] = p})
            <= publishes * (MaxRetries + 1)

\* No step of any publish takes more from the text than a chunk and the newlines behind it.
CutsDropNewlines == [][CutDropsNewlines]_vars

\* publish returns or raises.
PublishReturns == []<>Ended

\* In every state: the types; chunks that Telegram accepts (split_telegram_text); and no more
\* copies of them than requests (_post).
PostInv == TelegramTypeOK /\ ChunksFit /\ CopiesAreBounded
=============================================================================
