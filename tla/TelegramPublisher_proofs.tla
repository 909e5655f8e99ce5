---------------------- MODULE TelegramPublisher_proofs ----------------------
(***************************************************************************)
(* For posts of any length, any limits and any number of retries: the chunks  *)
(* of a post follow each other in the chat, and a publish that returns has     *)
(* placed them all; every chunk fits, its cut drops newlines only, and no more  *)
(* copies of it turn up than were requested.                                *)
(***************************************************************************)
EXTENDS TelegramPublisher, FiniteSetTheorems, WellFoundedInduction, SequenceTheorems,
        TLAPS

Pos == Nat \ {0}

\* The predecessor of chunk p is in the chat
Placed(p) == p = 1 \/ \E j \in DOMAIN chat : chat[j] = p - 1

SendType ==
    /\ stage \in {"caption", "split", "send", "sent", "failed"}
    /\ part \in Pos
    /\ waiting \in BOOLEAN
    /\ chat \in Seq(Pos)
    /\ acks \in Seq(Pos)
    /\ \A p \in DOMAIN late : late[p] \in Nat

\* Nothing is sent before the text has been cut
CutFirst ==
    stage \in {"caption", "split"} =>
        part = 1 /\ ~waiting /\ acks = <<>> /\ \A p \in DOMAIN late : late[p] = 0

\* A chunk is requested only after its predecessor has been seen in the chat
SendsAreDue ==
    /\ stage \in {"caption", "split", "send"} => Placed(part)
    /\ \A p \in DOMAIN late : late[p] > 0 => p \in Pos /\ Placed(p)

AcksPointAtChunks ==
    /\ \A i \in DOMAIN acks : acks[i] \in DOMAIN chat /\ chat[acks[i]] = i
    /\ \A i \in DOMAIN acks : i > 1 => acks[i - 1] < acks[i]

AcksAreComplete ==
    /\ waiting => stage = "send"
    /\ stage \in {"caption", "split", "send"} => Len(acks) = part - 1
    /\ stage = "send" /\ part > 1 => primary = acks[1]
    /\ stage = "sent" => Len(acks) = Len(chunks) /\ Len(acks) > 0 /\ primary = acks[1]

TransportInv ==
    /\ SendType /\ CutFirst /\ SendsAreDue
    /\ ChunksFollowInOrder
    /\ AcksPointAtChunks /\ AcksAreComplete

-----------------------------------------------------------------------------

LEMMA InitTransport == Init => TransportInv
  <1> SUFFICES ASSUME Init PROVE TransportInv
    OBVIOUS
  <1>1. /\ stage \in {"caption", "split"} /\ part = 1 /\ waiting = FALSE
        /\ late = <<>> /\ chat = <<>> /\ acks = <<>>
    BY DEF Init, TextInit
  <1>2. DOMAIN late = {} /\ DOMAIN chat = {} /\ DOMAIN acks = {} /\ Len(acks) = 0
    BY <1>1
  <1>3. SendType /\ CutFirst
    <2>1. <<>> \in Seq(Pos) /\ 1 \in Pos
      BY DEF Pos
    <2> QED BY <1>1, <1>2, <2>1 DEF SendType, CutFirst
  <1>4. SendsAreDue /\ ChunksFollowInOrder
    BY <1>1, <1>2 DEF SendsAreDue, Placed, ChunksFollowInOrder
  <1>5. AcksPointAtChunks /\ AcksAreComplete
    BY <1>1, <1>2 DEF AcksPointAtChunks, AcksAreComplete
  <1> QED BY <1>3, <1>4, <1>5 DEF TransportInv

\* What a chunk that is due adds to the chat
LEMMA GrowingChat ==
  ASSUME TransportInv, NEW p \in Pos, Placed(p), chat' = Append(chat, p)
  PROVE  /\ chat' \in Seq(Pos)
         /\ Len(chat') = Len(chat) + 1
         /\ chat'[Len(chat) + 1] = p
         /\ \A i \in DOMAIN chat : i \in DOMAIN chat' /\ chat'[i] = chat[i]
         /\ ChunksFollowInOrder'
         /\ \A q \in Pos : Placed(q) => Placed(q)'
  <1>1. chat \in Seq(Pos) /\ Len(chat) \in Nat /\ DOMAIN chat = 1..Len(chat)
    BY DEF TransportInv, SendType
  <1>2. /\ chat' \in Seq(Pos) /\ Len(chat') = Len(chat) + 1
        /\ chat'[Len(chat) + 1] = p /\ DOMAIN chat' = 1..(Len(chat) + 1)
        /\ \A i \in 1..Len(chat) : chat'[i] = chat[i]
    BY <1>1, SMT
  <1>3. \A i \in DOMAIN chat : i \in DOMAIN chat' /\ chat'[i] = chat[i]
    BY <1>1, <1>2, SMT
  <1>4. ASSUME NEW q \in Pos, Placed(q)
        PROVE  Placed(q)'
    BY <1>3, <1>4 DEF Placed
  <1>5. ChunksFollowInOrder'
    <2> SUFFICES ASSUME NEW i \in DOMAIN chat', chat'[i] > 1
                 PROVE  \E j \in 1..(i - 1) : chat'[j] = chat'[i] - 1
      BY DEF ChunksFollowInOrder
    <2>1. CASE i \in DOMAIN chat
      <3>1. PICK j \in 1..(i - 1) : chat[j] = chat[i] - 1
        BY <2>1, <1>3 DEF TransportInv, ChunksFollowInOrder
      <3>2. j \in DOMAIN chat
        BY <2>1, <3>1, <1>1, SMT
      <3> QED BY <2>1, <3>1, <3>2, <1>3
    <2>2. CASE i = Len(chat) + 1
      <3>1. PICK j \in DOMAIN chat : chat[j] = p - 1
        BY <2>2, <1>2 DEF Placed
      <3> QED BY <2>2, <3>1, <1>1, <1>2, <1>3, SMT
    <2> QED BY <2>1, <2>2, <1>1, <1>2, SMT
  <1> QED BY <1>2, <1>3, <1>4, <1>5

\* A request that fails: it may have reached the chat, and may reach it later
LEMMA FailingStep ==
  ASSUME TransportInv, waiting,
         stage' \in {stage, "failed"}, waiting' = FALSE,
         part' = part, acks' = acks, primary' = primary,
         chat' = chat \/ chat' = Append(chat, part),
         late' = late \/ late' = [late EXCEPT ![part] = @ + 1]
  PROVE  TransportInv'
  <1>1. stage = "send" /\ part \in Pos /\ Placed(part)
    BY DEF TransportInv, AcksAreComplete, SendType, SendsAreDue
  <1>2. /\ chat' \in Seq(Pos)
        /\ \A i \in DOMAIN chat : i \in DOMAIN chat' /\ chat'[i] = chat[i]
        /\ ChunksFollowInOrder'
        /\ \A q \in Pos : Placed(q) => Placed(q)'
    <2>1. CASE chat' = Append(chat, part)
      BY <1>1, <2>1, GrowingChat
    <2>2. CASE chat' = chat
      BY <2>2 DEF TransportInv, SendType, ChunksFollowInOrder, Placed
    <2> QED BY <2>1, <2>2
  <1>3. DOMAIN late' = DOMAIN late /\ \A p \in DOMAIN late : late'[p] \in Nat
    BY DEF TransportInv, SendType
  <1>4. SendType'
    BY <1>1, <1>2, <1>3 DEF TransportInv, SendType
  <1>5. CutFirst'
    BY <1>1 DEF CutFirst
  <1>6. SendsAreDue'
    <2>1. Placed(part)'
      <3>1. Placed(part) => \/ part = 1
                            \/ \E j \in DOMAIN chat : chat[j] = part - 1
        BY DEF Placed
      <3> QED BY <1>1, <1>2, <3>1 DEF Placed
    <2>2. ASSUME NEW p \in DOMAIN late', late'[p] > 0
          PROVE  p \in Pos /\ Placed(p)'
      <3>1. p \in Pos /\ Placed(p)
        <4>1. CASE p = part
          BY <4>1, <1>1
        <4>2. CASE p # part
          <5>1. p \in DOMAIN late /\ late'[p] = late[p]
            BY <2>2, <4>2, <1>3
          <5> QED BY <2>2, <5>1 DEF TransportInv, SendsAreDue
        <4> QED BY <4>1, <4>2
      <3> QED BY <3>1, <1>2
    <2> QED BY <2>1, <2>2 DEF SendsAreDue
  <1>7. AcksPointAtChunks'
    BY <1>2 DEF TransportInv, AcksPointAtChunks
  <1>8. AcksAreComplete'
    BY <1>1 DEF TransportInv, AcksAreComplete
  <1> QED BY <1>2, <1>4, <1>5, <1>6, <1>7, <1>8 DEF TransportInv

LEMMA AcceptedStep ==
  ASSUME TransportInv, Accepted
  PROVE  TransportInv'
  <1>1. /\ stage = "send" /\ part \in Pos /\ Placed(part)
        /\ chat' = Append(chat, part) /\ acks' = Append(acks, Len(chat) + 1)
        /\ waiting' = FALSE /\ late' = late /\ chunks' = chunks
        /\ primary' = IF part = 1 THEN Len(chat) + 1 ELSE primary
    BY DEF TransportInv, AcksAreComplete, SendType, SendsAreDue, Accepted, Reported
  <1>2. \/ part = Len(chunks) /\ stage' = "sent" /\ part' = part
        \/ stage' = "send" /\ part' = part + 1
    BY <1>1 DEF Accepted, LastPart
  <1>3. /\ chat' \in Seq(Pos) /\ Len(chat') = Len(chat) + 1
        /\ chat'[Len(chat) + 1] = part
        /\ \A i \in DOMAIN chat : i \in DOMAIN chat' /\ chat'[i] = chat[i]
        /\ ChunksFollowInOrder'
        /\ \A q \in Pos : Placed(q) => Placed(q)'
    <2>1. PICK p \in Pos : p = part
      BY <1>1
    <2>2. Placed(p) /\ chat' = Append(chat, p)
      BY <1>1, <2>1
    <2> QED BY <2>1, <2>2, GrowingChat
  <1>4. /\ Len(chat) \in Nat /\ DOMAIN chat = 1..Len(chat) /\ acks \in Seq(Pos)
        /\ Len(acks) = part - 1 /\ DOMAIN acks = 1..Len(acks)
        /\ part > 1 => primary = acks[1]
    BY <1>1 DEF TransportInv, SendType, AcksAreComplete
  <1>5. /\ acks' \in Seq(Pos) /\ Len(acks') = part /\ DOMAIN acks' = 1..part
        /\ acks'[part] = Len(chat) + 1
        /\ \A i \in 1..(part - 1) : acks'[i] = acks[i]
    BY <1>1, <1>4, SMT DEF Pos
  <1>6. SendType'
    <2>1. part' \in Pos
      BY <1>1, <1>2, SMT DEF Pos
    <2> QED BY <1>1, <1>2, <1>3, <1>5, <2>1 DEF TransportInv, SendType
  <1>7. CutFirst'
    BY <1>2 DEF CutFirst
  <1>8. SendsAreDue'
    <2>1. stage' = "send" => Placed(part)'
      <3>1. CASE stage' = "send" /\ part' = part + 1
        <4>1. Len(chat) + 1 \in DOMAIN chat'
          BY <1>3, <1>4, SMT
        <4>2. chat'[Len(chat) + 1] = part' - 1
          BY <3>1, <1>1, <1>3, SMT DEF Pos
        <4> QED BY <4>1, <4>2 DEF Placed
      <3> QED BY <3>1, <1>2
    <2>2. ASSUME NEW p \in DOMAIN late', late'[p] > 0
          PROVE  p \in Pos /\ Placed(p)'
      BY <2>2, <1>1, <1>3 DEF TransportInv, SendsAreDue
    <2> QED BY <1>2, <2>1, <2>2 DEF SendsAreDue
  <1>9. AcksPointAtChunks'
    <2>1. \A i \in 1..(part - 1) :
             acks[i] \in DOMAIN chat /\ chat[acks[i]] = i /\ (i > 1 => acks[i - 1] < acks[i])
      BY <1>4 DEF TransportInv, AcksPointAtChunks
    <2>2. \A i \in 1..(part - 1) : acks'[i] \in DOMAIN chat' /\ chat'[acks'[i]] = i
      BY <2>1, <1>3, <1>5
    <2>3. acks'[part] \in DOMAIN chat' /\ chat'[acks'[part]] = part
      <3>1. Len(chat) + 1 \in DOMAIN chat'
        BY <1>3, <1>4, SMT
      <3> QED BY <3>1, <1>3, <1>5
    <2>4. part > 1 => acks'[part - 1] < acks'[part]
      <3>1. part > 1 => acks[part - 1] \in 1..Len(chat)
        BY <2>1, <1>1, <1>4, SMT DEF Pos
      <3>2. part > 1 => part - 1 \in 1..(part - 1)
        BY <1>1, SMT DEF Pos
      <3> QED BY <3>1, <3>2, <1>4, <1>5, SMT
    <2>5. \A i \in 1..(part - 1) : i > 1 => acks'[i - 1] < acks'[i]
      <3> SUFFICES ASSUME NEW i \in 1..(part - 1), i > 1
                   PROVE  acks'[i - 1] < acks'[i]
        OBVIOUS
      <3>1. i - 1 \in 1..(part - 1)
        BY <1>1, SMT DEF Pos
      <3> QED BY <3>1, <2>1, <1>5
    <2>6. \A i \in 1..part : i = part \/ i \in 1..(part - 1)
      BY <1>1, SMT DEF Pos
    <2> QED BY <1>5, <2>2, <2>3, <2>4, <2>5, <2>6 DEF AcksPointAtChunks
  <1>10. AcksAreComplete'
    <2>1. primary' = acks'[1]
      <3>1. CASE part = 1
        BY <3>1, <1>1, <1>5
      <3>2. CASE part # 1
        <4>1. part > 1 /\ 1 \in 1..(part - 1)
          BY <3>2, <1>1, SMT DEF Pos
        <4> QED BY <3>2, <4>1, <1>1, <1>4, <1>5
      <3> QED BY <3>1, <3>2
    <2>2. stage' = "send" => Len(acks') = part' - 1
      BY <1>1, <1>2, <1>5, SMT DEF Pos
    <2>3. stage' = "sent" => Len(acks') = Len(chunks') /\ Len(acks') > 0
      BY <1>1, <1>2, <1>5, SMT DEF Pos
    <2> QED BY <1>1, <1>2, <2>1, <2>2, <2>3 DEF AcksAreComplete
  <1> QED BY <1>3, <1>6, <1>7, <1>8, <1>9, <1>10 DEF TransportInv

LEMMA ArrivingStep ==
  ASSUME TransportInv, NEW p \in DOMAIN late, Arrives(p)
  PROVE  TransportInv'
  <1>1. p \in Pos /\ Placed(p)
    BY DEF TransportInv, SendsAreDue, Arrives
  <1>2. /\ chat' = Append(chat, p) /\ late' = [late EXCEPT ![p] = @ - 1] /\ late[p] > 0
        /\ stage' = stage /\ part' = part /\ waiting' = waiting /\ acks' = acks
        /\ primary' = primary /\ chunks' = chunks
    BY DEF Arrives, textVars
  <1>3. /\ chat' \in Seq(Pos)
        /\ \A i \in DOMAIN chat : i \in DOMAIN chat' /\ chat'[i] = chat[i]
        /\ ChunksFollowInOrder'
        /\ \A q \in Pos : Placed(q) => Placed(q)'
    BY <1>1, <1>2, GrowingChat
  <1>4. /\ DOMAIN late' = DOMAIN late
        /\ \A q \in DOMAIN late : late'[q] \in Nat /\ (late'[q] > 0 => late[q] > 0)
    BY <1>2 DEF TransportInv, SendType
  <1>5. SendType'
    BY <1>2, <1>3, <1>4 DEF TransportInv, SendType
  <1>6. CutFirst'
    BY <1>2 DEF TransportInv, CutFirst
  <1>7. SendsAreDue'
    <2>1. part \in Pos /\ (Placed(part) => Placed(part)')
      <3>1. part \in Pos
        BY DEF TransportInv, SendType
      <3> QED BY <3>1, <1>2, <1>3 DEF Placed
    <2> QED BY <2>1, <1>2, <1>3, <1>4 DEF TransportInv, SendsAreDue
  <1>8. AcksPointAtChunks'
    BY <1>2, <1>3 DEF TransportInv, AcksPointAtChunks
  <1>9. AcksAreComplete'
    BY <1>2 DEF TransportInv, AcksAreComplete
  <1> QED BY <1>3, <1>5, <1>6, <1>7, <1>8, <1>9 DEF TransportInv

\* Steps that leave the chat alone: cutting the text, making a request, publishing again
LEMMA OtherSteps ==
  ASSUME TransportInv, CutText \/ Post \/ PublishAgain \/ UNCHANGED vars
  PROVE  TransportInv'
  <1>1. CASE CutText
    <2>1. /\ stage \in {"caption", "split"} /\ stage' \in {"send", "split"}
          /\ late' = [i \in DOMAIN chunks' |-> 0]
          /\ UNCHANGED <<part, waiting, chat, acks, primary>>
      BY <1>1 DEF CutText, Split, CutCaption, CutMessage, Cut
    <2>2. part = 1 /\ ~waiting /\ acks = <<>> /\ Len(acks) = 0
      BY <2>1 DEF TransportInv, CutFirst
    <2>3. \A q \in DOMAIN late' : late'[q] = 0
      BY <2>1
    <2>4. SendType' /\ CutFirst'
      BY <2>1, <2>2, <2>3 DEF TransportInv, SendType, CutFirst
    <2>5. SendsAreDue' /\ ChunksFollowInOrder'
      BY <2>1, <2>2, <2>3 DEF TransportInv, SendsAreDue, ChunksFollowInOrder, Placed
    <2>6. AcksPointAtChunks' /\ AcksAreComplete'
      BY <2>1, <2>2 DEF TransportInv, AcksPointAtChunks, AcksAreComplete
    <2> QED BY <2>4, <2>5, <2>6 DEF TransportInv
  <1>2. CASE Post
    <2>1. /\ stage = "send" /\ waiting' = TRUE
          /\ UNCHANGED <<stage, chunks, part, late, chat, acks, primary>>
      BY <1>2 DEF Post, textVars
    <2> QED BY <2>1 DEF TransportInv, SendType, CutFirst, SendsAreDue, Placed,
               ChunksFollowInOrder, AcksPointAtChunks, AcksAreComplete
  <1>3. CASE PublishAgain
    <2>1. /\ stage' = "send" /\ part' = 1 /\ acks' = <<>> /\ stage = "failed"
          /\ UNCHANGED <<waiting, late, chat>>
      BY <1>3 DEF PublishAgain
    <2>2. <<>> \in Seq(Pos) /\ 1 \in Pos /\ Len(<<>>) = 0 /\ DOMAIN <<>> = {}
      BY DEF Pos
    <2>3. SendType' /\ CutFirst'
      BY <2>1, <2>2 DEF TransportInv, SendType, CutFirst
    <2>4. SendsAreDue' /\ ChunksFollowInOrder'
      BY <2>1 DEF TransportInv, SendsAreDue, ChunksFollowInOrder, Placed
    <2>5. AcksPointAtChunks' /\ AcksAreComplete'
      BY <2>1, <2>2 DEF TransportInv, AcksPointAtChunks, AcksAreComplete
    <2> QED BY <2>3, <2>4, <2>5 DEF TransportInv
  <1>4. CASE UNCHANGED vars
    BY <1>4 DEF vars, TransportInv, SendType, CutFirst, SendsAreDue, Placed,
       ChunksFollowInOrder, AcksPointAtChunks, AcksAreComplete
  <1> QED BY <1>1, <1>2, <1>3, <1>4

LEMMA NextTransport == TransportInv /\ [Next]_vars => TransportInv'
  <1> SUFFICES ASSUME TransportInv, [Next]_vars PROVE TransportInv'
    OBVIOUS
  <1>1. CASE Accepted
    BY <1>1, AcceptedStep
  <1>2. CASE Unheard
    <2>1. waiting /\ part' = part
      BY <1>2 DEF Unheard, FailsTransiently
    <2> QED BY <1>2, <2>1, FailingStep DEF Unheard, FailsTransiently
  <1>3. CASE NotPosted
    BY <1>3, FailingStep DEF NotPosted, FailsTransiently
  <1>4. CASE GivenUp
    BY <1>4, FailingStep DEF GivenUp, FailsTransiently
  <1>5. CASE Raised
    <2>1. chat' = chat \/ chat' = Append(chat, part)
      BY <1>5 DEF Raised
    <2> QED BY <1>5, <2>1, FailingStep DEF Raised
  <1>6. CASE \E p \in DOMAIN late : Arrives(p)
    BY <1>6, ArrivingStep
  <1>7. CASE CutText \/ Post \/ PublishAgain \/ UNCHANGED vars
    BY <1>7, OtherSteps
  <1> QED BY <1>1, <1>2, <1>3, <1>4, <1>5, <1>6, <1>7
          DEF Next, Send, Answer, Late, Quiescent

-----------------------------------------------------------------------------

\* The chunks of a post follow each other in the chat (_publish_text_chunks), for posts of
\* any length, any number of retries, lost answers and late requests.
THEOREM OrderCorrect == Spec => []ChunksFollowInOrder
  <1>1. TransportInv => ChunksFollowInOrder
    BY DEF TransportInv
  <1> QED BY <1>1, InitTransport, NextTransport, PTL DEF Spec

\* A publish that returns has placed every chunk, and returns the first one's id (publish).
THEOREM ResultCorrect == Spec => []ResultIsWholePost
  <1>1. TransportInv => ResultIsWholePost
    BY DEF TransportInv, AcksPointAtChunks, AcksAreComplete, ResultIsWholePost
  <1> QED BY <1>1, InitTransport, NextTransport, PTL DEF Spec

-----------------------------------------------------------------------------
(* Greatest and least members *)

LEMMA LeastExists ==
    ASSUME NEW S \in SUBSET Nat, S # {} PROVE \E n \in S : \A m \in S : n <= m
<1> DEFINE R == OpToRel(<, Nat)
<1>1. PICK n \in S : \A m \in S : ~(<<m, n>> \in R)
  <2> HIDE DEF R
  <2>1. IsWellFoundedOn(R, Nat)
    BY NatLessThanWellFounded DEF R
  <2> QED BY <2>1, WFMin
<1>2. ASSUME NEW m \in S PROVE n <= m
  <2>1. <<m, n>> \in R <=> m < n
    BY DEF R, OpToRel
  <2> HIDE DEF R
  <2> QED BY <1>1, <2>1
<1> QED BY <1>2

LEMMA MaxOf ==
    ASSUME NEW b \in Nat, NEW S \in SUBSET (0..b), S # {}
    PROVE  Max(S) \in S /\ \A x \in S : x <= Max(S)
<1> DEFINE T == {b - s : s \in S}
<1>1. PICK n \in T : \A m \in T : n <= m
  <2>1. T \in SUBSET Nat
    OBVIOUS
  <2>2. T # {}
    <3>1. PICK s \in S : TRUE
      OBVIOUS
    <3> QED BY <3>1
  <2> HIDE DEF T
  <2> QED BY <2>1, <2>2, LeastExists
<1>2. PICK s \in S : n = b - s
  OBVIOUS
<1>3. ASSUME NEW m \in S PROVE m <= s
  <2>1. b - m \in T /\ m \in 0..b /\ s \in 0..b
    OBVIOUS
  <2>2. n <= b - m
    BY <1>1, <2>1
  <2> QED BY <1>2, <2>1, <2>2
<1>4. \E x \in S : \A y \in S : x >= y
  BY <1>2, <1>3
<1> QED BY <1>4 DEF Max

LEMMA MinOf ==
    ASSUME NEW S \in SUBSET Nat, S # {}
    PROVE  Min(S) \in S /\ \A x \in S : Min(S) <= x
<1>1. \E x \in S : \A y \in S : x <= y
  BY LeastExists
<1> QED BY <1>1 DEF Min

-----------------------------------------------------------------------------
(* The cut of a text *)

LEMMA PrefixIs ==
    ASSUME NEW S, NEW t \in Seq(S), NEW n \in 0..Len(t)
    PROVE  /\ Prefix(t, n) \in Seq(S) /\ Len(Prefix(t, n)) = n
           /\ \A k \in 1..n : Prefix(t, n)[k] = t[k]
BY DEF Prefix

LEMMA SuffixIs ==
    ASSUME NEW S, NEW t \in Seq(S), NEW n \in 0..Len(t)
    PROVE  /\ Suffix(t, n) \in Seq(S) /\ Len(Suffix(t, n)) = Len(t) - n
           /\ \A k \in 1..(Len(t) - n) : Suffix(t, n)[k] = t[n + k]
BY DEF Suffix

LEMMA PrefixOfPrefix ==
    ASSUME NEW S, NEW t \in Seq(S), NEW n \in 0..Len(t), NEW m \in 0..n
    PROVE  Prefix(Prefix(t, n), m) = Prefix(t, m)
<1>1. Prefix(t, n) \in Seq(S) /\ Len(Prefix(t, n)) = n /\ \A k \in 1..n : Prefix(t, n)[k] = t[k]
  BY PrefixIs
<1>2. m \in 0..Len(t) /\ m \in 0..Len(Prefix(t, n))
  BY <1>1
<1>3. /\ Prefix(t, m) \in Seq(S) /\ Len(Prefix(t, m)) = m /\ \A k \in 1..m : Prefix(t, m)[k] = t[k]
  BY <1>2, PrefixIs
<1> DEFINE p == Prefix(t, n)
<1>4. /\ Prefix(p, m) \in Seq(S) /\ Len(Prefix(p, m)) = m /\ \A k \in 1..m : Prefix(p, m)[k] = p[k]
  <2> HIDE DEF p
  <2> QED BY <1>1, <1>2, PrefixIs DEF p
<1>5. \A k \in 1..m : Prefix(p, m)[k] = Prefix(t, m)[k]
  BY <1>1, <1>3, <1>4
<1> QED BY <1>3, <1>4, <1>5, SeqEqual

LEMMA SuffixOfSuffix ==
    ASSUME NEW S, NEW t \in Seq(S), NEW n \in 0..Len(t), NEW m \in 0..(Len(t) - n)
    PROVE  Suffix(Suffix(t, n), m) = Suffix(t, n + m)
<1> DEFINE p == Suffix(t, n)
<1>1. p \in Seq(S) /\ Len(p) = Len(t) - n /\ \A k \in 1..(Len(t) - n) : p[k] = t[n + k]
  BY SuffixIs
<1>2. n + m \in 0..Len(t) /\ m \in 0..Len(p)
  BY <1>1
<1> HIDE DEF p
<1>3. /\ Suffix(p, m) \in Seq(S) /\ Len(Suffix(p, m)) = Len(p) - m
      /\ \A k \in 1..(Len(p) - m) : Suffix(p, m)[k] = p[m + k]
  BY <1>1, <1>2, SuffixIs
<1>4. /\ Suffix(t, n + m) \in Seq(S) /\ Len(Suffix(t, n + m)) = Len(t) - (n + m)
      /\ \A k \in 1..(Len(t) - (n + m)) : Suffix(t, n + m)[k] = t[(n + m) + k]
  BY <1>2, SuffixIs
<1>5. ASSUME NEW k \in 1..Len(Suffix(p, m)) PROVE Suffix(p, m)[k] = Suffix(t, n + m)[k]
  <2>1. m + k \in 1..(Len(t) - n) /\ k \in 1..(Len(t) - (n + m)) /\ k \in 1..(Len(p) - m)
    BY <1>1, <1>3
  <2> QED BY <1>1, <1>3, <1>4, <2>1
<1>6. Len(Suffix(p, m)) = Len(Suffix(t, n + m))
  <2>1. Len(t) \in Nat
    OBVIOUS
  <2>2. Len(p) - m = Len(t) - (n + m)
    BY <1>1, <2>1
  <2> QED BY <1>3, <1>4, <2>2
<1> QED BY <1>3, <1>4, <1>5, <1>6, SeqEqual DEF p

\* rstrip and lstrip remove newlines at their end, and nothing else.
LEMMA StripRightIs ==
    ASSUME NEW t \in Seq(Chars)
    PROVE  \E m \in 0..Len(t) : StripRight(t) = Prefix(t, m) /\ \A k \in (m + 1)..Len(t) : t[k] = "\n"
<1> DEFINE S == {0} \cup {i \in DOMAIN t : t[i] # "\n"}
<1>1. S \in SUBSET (0..Len(t)) /\ S # {} /\ Len(t) \in Nat
  OBVIOUS
<1>2. Max(S) \in S /\ \A x \in S : x <= Max(S)
  <2> HIDE DEF S
  <2> QED BY <1>1, MaxOf
<1>3. ASSUME NEW k \in (Max(S) + 1)..Len(t) PROVE t[k] = "\n"
  BY <1>1, <1>2
<1>4. Max(S) \in 0..Len(t)
  BY <1>1, <1>2
<1> QED BY <1>3, <1>4 DEF StripRight

LEMMA StripLeftIs ==
    ASSUME NEW t \in Seq(Chars)
    PROVE  \E m \in 0..Len(t) : StripLeft(t) = Suffix(t, m) /\ \A k \in 1..m : t[k] = "\n"
<1> DEFINE S == {Len(t)} \cup {i - 1 : i \in {j \in DOMAIN t : t[j] # "\n"}}
<1>1. S \in SUBSET Nat /\ S # {} /\ Len(t) \in Nat /\ Len(t) \in S
  OBVIOUS
<1>2. Min(S) \in S /\ \A x \in S : Min(S) <= x
  <2> HIDE DEF S
  <2> QED BY <1>1, MinOf
<1>3. ASSUME NEW k \in 1..Min(S) PROVE t[k] = "\n"
  <2>1. k \in DOMAIN t
    BY <1>1, <1>2
  <2>2. t[k] # "\n" => k - 1 \in S
    BY <2>1
  <2>3. ~(Min(S) <= k - 1)
    BY <1>1, <1>2
  <2> HIDE DEF S
  <2> QED BY <1>2, <2>2, <2>3
<1>4. Min(S) \in 0..Len(t)
  BY <1>1, <1>2
<1> QED BY <1>3, <1>4 DEF StripLeft

LEMMA CutIndexIs ==
    ASSUME NEW t \in Seq(Chars), NEW max \in Nat \ {0} PROVE CutIndex(t, max) \in 0..max
<1> DEFINE usable == {i \in DOMAIN Separators : SoftCuts(t, max, Separators[i]) # {}}
<1>1. CASE usable = {}
  BY <1>1 DEF CutIndex
<1>2. CASE usable # {}
  <2>1. DOMAIN Separators = 1..3
    BY DEF Separators
  <2>2. Min(usable) \in usable
    <3>1. usable \in SUBSET Nat
      BY <2>1
    <3> HIDE DEF usable
    <3> QED BY <1>2, <3>1, MinOf
  <2> DEFINE sep == Separators[Min(usable)]
             C == SoftCuts(t, max, sep)
  <2>3. Len(sep) \in Nat
    <3>1. \A i \in 1..3 : Len(Separators[i]) \in Nat
      <4>1. /\ Separators[1] = <<"\n", "\n">> /\ Separators[2] = <<"\n">> /\ Separators[3] = <<" ">>
        BY DEF Separators
      <4>2. /\ Len(Separators[1]) = 2 /\ Len(Separators[2]) = 1 /\ Len(Separators[3]) = 1
        BY <4>1
      <4> QED BY <4>2
    <3>2. Min(usable) \in 1..3
      BY <2>1, <2>2
    <3> QED BY <3>1, <3>2
  <2>4. C # {}
    BY <2>2
  <2> HIDE DEF sep, usable
  <2>5. C \in SUBSET (0..max)
    BY <2>3 DEF SoftCuts
  <2> HIDE DEF C
  <2>6. Max(C) \in 0..max
    BY <2>4, <2>5, MaxOf
  <2> QED BY <1>2, <2>6 DEF CutIndex, C, sep, usable
<1> QED BY <1>1, <1>2

\* Where the head of a text that is too long is cut.
LEMMA FirstChunkIs ==
    ASSUME NEW t \in Seq(Chars), NEW max \in Nat \ {0}, Len(t) > max
    PROVE  \E i \in 1..max : \E j \in i..Len(t) :
               /\ FirstChunk(t, max) = [chunk |-> Prefix(t, i), rest |-> Suffix(t, j)]
               /\ \A k \in (i + 1)..j : t[k] = "\n"
<1> DEFINE cut == CutIndex(t, max)
           soft == StripRight(Prefix(t, cut))
<1>1. cut \in 0..max /\ cut \in 0..Len(t) /\ max \in 0..Len(t)
  BY CutIndexIs
\* lstrip after a cut at c
<1>2. ASSUME NEW c \in 0..Len(t)
      PROVE  \E j \in c..Len(t) : StripLeft(Suffix(t, c)) = Suffix(t, j) /\ \A k \in (c + 1)..j : t[k] = "\n"
  <2> DEFINE u == Suffix(t, c)
  <2>1. u \in Seq(Chars) /\ Len(u) = Len(t) - c /\ \A k \in 1..(Len(t) - c) : u[k] = t[c + k]
    BY SuffixIs
  <2> HIDE DEF u
  <2>2. PICK m \in 0..Len(u) : StripLeft(u) = Suffix(u, m) /\ \A k \in 1..m : u[k] = "\n"
    BY <2>1, StripLeftIs
  <2>3. Suffix(u, m) = Suffix(t, c + m)
    BY <2>1, SuffixOfSuffix DEF u
  <2>4. ASSUME NEW k \in (c + 1)..(c + m) PROVE t[k] = "\n"
    <3>1. k - c \in 1..m /\ k - c \in 1..(Len(t) - c) /\ c + (k - c) = k
      BY <2>1
    <3> QED BY <2>1, <2>2, <3>1
  <2>5. c + m \in c..Len(t)
    BY <2>1
  <2> QED BY <2>2, <2>3, <2>4, <2>5 DEF u
<1> DEFINE p == Prefix(t, cut)
<1>3. p \in Seq(Chars) /\ Len(p) = cut /\ \A k \in 1..cut : p[k] = t[k]
  BY <1>1, PrefixIs
<1>4. PICK m \in 0..Len(p) : StripRight(p) = Prefix(p, m) /\ \A k \in (m + 1)..Len(p) : p[k] = "\n"
  <2> HIDE DEF p
  <2> QED BY <1>3, StripRightIs
<1>5. soft = Prefix(t, m) /\ Len(Prefix(t, m)) = m
  <2>1. m \in 0..cut /\ m \in 0..Len(t)
    BY <1>1, <1>3
  <2>2. Prefix(p, m) = Prefix(t, m)
    BY <1>1, <2>1, PrefixOfPrefix
  <2> QED BY <1>4, <2>1, <2>2, PrefixIs
<1>6. CASE soft # <<>>
  <2>1. m \in 1..max /\ m <= cut
    <3>1. m # 0
      BY <1>5, <1>6, PrefixIs, <1>1 DEF Prefix
    <3> QED BY <1>1, <1>3, <3>1
  <2>2. PICK j \in cut..Len(t) : StripLeft(Suffix(t, cut)) = Suffix(t, j) /\ \A k \in (cut + 1)..j : t[k] = "\n"
    BY <1>1, <1>2
  <2>3. FirstChunk(t, max) = [chunk |-> Prefix(t, m), rest |-> Suffix(t, j)]
    BY <1>5, <1>6, <2>2 DEF FirstChunk
  <2>4. ASSUME NEW k \in (m + 1)..j PROVE t[k] = "\n"
    <3>1. CASE k <= cut
      BY <1>1, <1>3, <1>4, <3>1
    <3>2. CASE k > cut
      BY <1>1, <2>2, <3>2
    <3> QED BY <1>1, <3>1, <3>2
  <2>5. j \in m..Len(t)
    BY <1>1, <2>1
  <2> QED BY <2>1, <2>3, <2>4, <2>5
<1>7. CASE soft = <<>>
  <2>1. PICK j \in max..Len(t) : StripLeft(Suffix(t, max)) = Suffix(t, j) /\ \A k \in (max + 1)..j : t[k] = "\n"
    BY <1>1, <1>2
  <2>2. FirstChunk(t, max) = [chunk |-> Prefix(t, max), rest |-> Suffix(t, j)]
    BY <1>7, <2>1 DEF FirstChunk
  <2>3. max \in 1..max
    OBVIOUS
  <2> QED BY <2>1, <2>2, <2>3
<1> QED BY <1>6, <1>7

\* One step of the cut.
LEMMA CutIs ==
    ASSUME NEW max \in Nat \ {0}, rest \in Seq(Chars), rest # <<>>, Cut(max)
    PROVE  \E i \in 1..Len(rest) : \E j \in i..Len(rest) :
               /\ i <= max
               /\ chunks' = Append(chunks, Prefix(rest, i)) /\ rest' = Suffix(rest, j)
               /\ \A k \in (i + 1)..j : rest[k] = "\n"
<1>1. CASE Len(rest) <= max
  <2> DEFINE n == Len(rest)
  <2>1. n \in 1..n /\ n \in n..n /\ n \in 0..n
    OBVIOUS
  <2>2. Prefix(rest, n) = rest /\ Suffix(rest, n) = <<>>
    BY DEF Prefix, Suffix
  <2>3. chunks' = Append(chunks, Prefix(rest, n)) /\ rest' = Suffix(rest, n)
    BY <1>1, <2>2 DEF Cut
  <2> QED BY <1>1, <2>1, <2>3
<1>2. CASE ~(Len(rest) <= max)
  <2>1. Len(rest) > max
    BY <1>2
  <2>2. PICK i \in 1..max : \E j \in i..Len(rest) :
               /\ FirstChunk(rest, max) = [chunk |-> Prefix(rest, i), rest |-> Suffix(rest, j)]
               /\ \A k \in (i + 1)..j : rest[k] = "\n"
    BY <2>1, FirstChunkIs
  <2>3. PICK j \in i..Len(rest) :
               /\ FirstChunk(rest, max) = [chunk |-> Prefix(rest, i), rest |-> Suffix(rest, j)]
               /\ \A k \in (i + 1)..j : rest[k] = "\n"
    BY <2>2
  <2>4. chunks' = Append(chunks, Prefix(rest, i)) /\ rest' = Suffix(rest, j)
    BY <1>2, <2>3 DEF Cut
  <2>5. i \in 1..Len(rest) /\ i <= max
    BY <2>1
  <2> QED BY <2>3, <2>4, <2>5
<1> QED BY <1>1, <1>2
-----------------------------------------------------------------------------
(* The chunks, and how many copies of them can turn up *)

Cutting == stage \in {"caption", "split"}

TextShape ==
    /\ text \in Texts /\ photo \in BOOLEAN
    /\ rest \in Seq(Chars) /\ chunks \in Seq(Seq(Chars))
    /\ stage \in {"caption", "split", "send", "sent", "failed"}
    /\ Cutting => rest # <<>>
    /\ stage = "caption" => photo /\ chunks = <<>>
    /\ stage = "split" /\ photo => chunks # <<>>

\* The requests of one call for one chunk: the part before the current one have used up at
\* most all of them, the later ones none.
CallShape ==
    /\ publishes \in 1..MaxPublishes /\ tries \in 0..(MaxRetries + 1)
    /\ waiting \in BOOLEAN /\ (waiting => stage = "send" /\ tries > 0)
    /\ stage = "send" /\ ~waiting => tries <= MaxRetries
    /\ Cutting => tries = 0
    /\ Cutting => chat = <<>> /\ part = 1 /\ \A p \in DOMAIN late : late[p] = 0
    /\ ~Cutting => part \in DOMAIN chunks
    /\ DOMAIN late = DOMAIN chunks /\ \A p \in DOMAIN late : late[p] \in Nat
    /\ chat \in Seq(DOMAIN chunks)
    /\ primary \in {0} \cup DOMAIN chat
    /\ why \in {"none", "transient", "rejected"}

CopiesOf(p) == Cardinality({i \in DOMAIN chat : chat[i] = p})
Requested(p) == IF waiting /\ p = part THEN 1 ELSE 0
Used(p) == IF p < part THEN MaxRetries + 1 ELSE IF p = part THEN tries ELSE 0
Before == (publishes - 1) * (MaxRetries + 1)

\* Every copy and every request that may still become one is a request made.
CopiesAreRequests ==
    \A p \in DOMAIN chunks : late[p] + CopiesOf(p) + Requested(p) <= Before + Used(p)

WholePostInv == TextShape /\ ChunksFit /\ CallShape /\ CopiesAreRequests

LEMMA CopiesGrow ==
    ASSUME NEW S, chat \in Seq(S), NEW q
    PROVE  /\ CopiesOf(q) \in Nat
           /\ \A p : chat' = Append(chat, p) =>
                  CopiesOf(q)' = IF p = q THEN CopiesOf(q) + 1 ELSE CopiesOf(q)
<1> DEFINE C == {i \in DOMAIN chat : chat[i] = q}
<1>1. DOMAIN chat = 1..Len(chat) /\ Len(chat) \in Nat
  OBVIOUS
<1>2. IsFiniteSet(C) /\ Cardinality(C) \in Nat
  <2>1. IsFiniteSet(1..Len(chat)) /\ C \in SUBSET (1..Len(chat))
    BY <1>1, FS_Interval
  <2> HIDE DEF C
  <2> QED BY <2>1, FS_Subset, FS_CardinalityType
<1>3. ASSUME NEW p, chat' = Append(chat, p)
      PROVE  CopiesOf(q)' = IF p = q THEN CopiesOf(q) + 1 ELSE CopiesOf(q)
  <2> DEFINE D == {i \in DOMAIN chat' : chat'[i] = q}
             n == Len(chat) + 1
  <2>1. DOMAIN chat' = 1..n /\ chat'[n] = p /\ \A i \in 1..Len(chat) : chat'[i] = chat[i]
    BY <1>1, <1>3
  <2>2. D = IF p = q THEN C \cup {n} ELSE C
    BY <1>1, <2>1
  <2>3. n \notin C
    BY <1>1
  <2> HIDE DEF C, D, n
  <2>4. Cardinality(D) = IF p = q THEN Cardinality(C) + 1 ELSE Cardinality(C)
    BY <1>2, <2>2, <2>3, FS_AddElement
  <2> QED BY <2>4 DEF CopiesOf, C, D
<1> QED BY <1>2, <1>3 DEF CopiesOf

LEMMA TextIsSeq ==
    ASSUME NEW t \in Texts PROVE t \in Seq(Chars) /\ t # <<>>
<1>1. PICK n \in 1..MaxLength : t \in [1..n -> Chars]
  BY DEF Texts
<1>2. n \in Nat /\ 1 \in 1..n /\ t \in Seq(Chars)
  BY <1>1
<1>3. DOMAIN t # {}
  BY <1>1, <1>2
<1> QED BY <1>2, <1>3

LEMMA InitPost == Init => WholePostInv
<1> SUFFICES ASSUME Init PROVE WholePostInv
  OBVIOUS
<1>1. rest \in Seq(Chars) /\ rest # <<>> /\ chunks = <<>> /\ text \in Texts /\ photo \in BOOLEAN
      /\ stage = IF photo THEN "caption" ELSE "split"
  BY TextIsSeq DEF Init, TextInit
<1>2. TextShape /\ ChunksFit
  <2>1. <<>> \in Seq(Seq(Chars)) /\ DOMAIN <<>> = {}
    OBVIOUS
  <2> QED BY <1>1, <2>1 DEF TextShape, Cutting, ChunksFit
<1>3. CallShape /\ CopiesAreRequests
  <2>1. <<>> \in Seq(DOMAIN chunks) /\ DOMAIN <<>> = {}
    OBVIOUS
  <2>2. chat = <<>> /\ late = <<>> /\ part = 1 /\ publishes = 1 /\ tries = 0 /\ waiting = FALSE /\ primary = 0
        /\ why = "none"
    BY DEF Init
  <2>3. DOMAIN late = {} /\ DOMAIN chunks = {}
    BY <1>1, <2>1, <2>2
  <2>4. MaxPublishes \in Nat /\ MaxPublishes >= 1 /\ MaxRetries \in Nat
    BY TransportAssumption
  <2>5. stage \in {"caption", "split"}
    BY <1>1
  <2>6. chat \in Seq(DOMAIN chunks) /\ DOMAIN late = DOMAIN chunks
    BY <2>1, <2>2, <2>3
  <2>7. CallShape
    <3>1. publishes \in 1..MaxPublishes /\ tries \in 0..(MaxRetries + 1)
      BY <2>2, <2>4
    <3>2. Cutting /\ stage # "send"
      BY <2>5 DEF Cutting
    <3>3. \A p \in DOMAIN late : late[p] \in Nat /\ late[p] = 0
      BY <2>3
    <3> QED BY <2>2, <2>6, <3>1, <3>2, <3>3 DEF CallShape
  <2>8. CopiesAreRequests
    BY <2>3 DEF CopiesAreRequests
  <2> QED BY <2>7, <2>8
<1> QED BY <1>2, <1>3 DEF WholePostInv

LEMMA NatProduct == ASSUME NEW x \in Nat, NEW y \in Nat PROVE x * y \in Nat
OBVIOUS

LEMMA BoundsAreNat ==
    ASSUME CallShape, part \in Nat, NEW p \in Nat
    PROVE  Before \in Nat /\ Used(p) \in Nat /\ tries \in Nat /\ Requested(p) \in {0, 1}
<1>1. publishes - 1 \in Nat /\ tries \in Nat /\ MaxRetries + 1 \in Nat
  BY TransportAssumption DEF CallShape
<1> QED BY <1>1, NatProduct DEF Before, Used, Requested

\* What one step of the cut appends fits.
LEMMA CutAppends ==
    ASSUME NEW max \in Nat \ {0}, rest \in Seq(Chars), rest # <<>>, Cut(max)
    PROVE  /\ CutDropsNewlines
           /\ \E c \in Seq(Chars) : Len(c) \in 1..max /\ chunks' = Append(chunks, c)
           /\ rest' \in Seq(Chars)
           /\ stage' = (IF rest' = <<>> THEN "send" ELSE "split") /\ text' = text /\ photo' = photo
<1>1. PICK i \in 1..Len(rest) : \E j \in i..Len(rest) :
               /\ i <= max
               /\ chunks' = Append(chunks, Prefix(rest, i)) /\ rest' = Suffix(rest, j)
               /\ \A k \in (i + 1)..j : rest[k] = "\n"
  BY CutIs
<1>2. PICK j \in i..Len(rest) :
               /\ i <= max
               /\ chunks' = Append(chunks, Prefix(rest, i)) /\ rest' = Suffix(rest, j)
               /\ \A k \in (i + 1)..j : rest[k] = "\n"
  BY <1>1
<1>3. CutDropsNewlines
  BY <1>2 DEF CutDropsNewlines
<1>4. i \in 0..Len(rest) /\ j \in 0..Len(rest) /\ i \in 1..max
  <2>1. Len(rest) \in Nat
    OBVIOUS
  <2> QED BY <2>1, <1>2
<1>5. Prefix(rest, i) \in Seq(Chars) /\ Len(Prefix(rest, i)) = i
  BY <1>4, PrefixIs
<1>6. rest' \in Seq(Chars)
  BY <1>2, <1>4, SuffixIs
<1> DEFINE next == IF Len(rest) <= max THEN [chunk |-> rest, rest |-> <<>>]
                   ELSE FirstChunk(rest, max)
<1>7. rest' = next.rest /\ stage' = (IF next.rest = <<>> THEN "send" ELSE "split")
      /\ UNCHANGED <<text, photo>>
  BY DEF Cut
<1> HIDE DEF next
<1> QED BY <1>2, <1>3, <1>4, <1>5, <1>6, <1>7

LEMMA CuttingEffect ==
    ASSUME TextShape, CutText
    PROVE  /\ CutDropsNewlines /\ Cutting
           /\ \E c \in Seq(Chars) : Len(c) \in 1..LimitOf(Len(chunks) + 1) /\ chunks' = Append(chunks, c)
           /\ rest' \in Seq(Chars)
           /\ stage' = (IF rest' = <<>> THEN "send" ELSE "split") /\ text' = text /\ photo' = photo
<1>1. rest \in Seq(Chars) /\ chunks \in Seq(Seq(Chars))
  BY DEF TextShape
<1>2. CASE CutCaption
  <2>1. photo /\ chunks = <<>> /\ Cutting /\ rest # <<>> /\ Cut(CaptionLimit)
    BY <1>2 DEF CutCaption, TextShape, Cutting
  <2>2. LimitOf(Len(chunks) + 1) = CaptionLimit
    BY <2>1 DEF LimitOf
  <2> QED BY <1>1, <2>1, <2>2, CutAppends, TextAssumption
<1>3. CASE CutMessage
  <2>1. ~(photo /\ chunks = <<>>) /\ Cutting /\ rest # <<>> /\ Cut(MessageLimit)
    BY <1>3 DEF CutMessage, TextShape, Cutting
  <2>2. LimitOf(Len(chunks) + 1) = MessageLimit
    <3>1. Len(chunks) + 1 = 1 => chunks = <<>>
      BY <1>1
    <3> QED BY <2>1, <3>1 DEF LimitOf
  <2> QED BY <1>1, <2>1, <2>2, CutAppends, TextAssumption
<1> QED BY <1>2, <1>3 DEF CutText, Split

\* The cut: its chunks fit, and nothing has been sent yet.
LEMMA CuttingStep ==
    ASSUME WholePostInv, CutText PROVE WholePostInv'
<1>1. TextShape /\ ChunksFit /\ CallShape
  BY DEF WholePostInv
<1>2. /\ Cutting /\ chunks \in Seq(Seq(Chars)) /\ rest' \in Seq(Chars)
      /\ stage' = (IF rest' = <<>> THEN "send" ELSE "split") /\ text' = text /\ photo' = photo
  BY <1>1, CuttingEffect DEF TextShape
<1>3. PICK c \in Seq(Chars) : Len(c) \in 1..LimitOf(Len(chunks) + 1) /\ chunks' = Append(chunks, c)
  BY <1>1, CuttingEffect
<1> DEFINE n == Len(chunks)
<1>4. /\ chunks' \in Seq(Seq(Chars)) /\ n \in Nat /\ DOMAIN chunks' = 1..(n + 1) /\ chunks'[n + 1] = c
      /\ \A k \in 1..n : k \in DOMAIN chunks /\ chunks'[k] = chunks[k]
      /\ chunks' # <<>>
  <2>1. PICK s \in Seq(Seq(Chars)) : s = chunks
    BY <1>2
  <2>2. PICK t : t = Append(s, c)
    OBVIOUS
  <2>3. /\ t \in Seq(Seq(Chars)) /\ t # <<>> /\ Len(t) = Len(s) + 1 /\ t[Len(s) + 1] = c
        /\ \A k \in 1..Len(s) : t[k] = s[k]
    BY ONLY <2>1, <2>2, <1>3, AppendProperties
  <2>4. Len(s) \in Nat /\ DOMAIN s = 1..Len(s) /\ DOMAIN t = 1..(Len(s) + 1)
    BY ONLY <2>1, <2>3
  <2>5. chunks' = t /\ n = Len(s)
    BY <1>3, <2>1, <2>2
  <2> QED BY ONLY <2>1, <2>3, <2>4, <2>5
<1>5. TextShape'
  BY <1>1, <1>2, <1>4 DEF TextShape, Cutting
<1>6. ChunksFit'
  <2>1. ASSUME NEW k \in 1..(n + 1) PROVE Len(chunks'[k]) \in 1..LimitOf(k)'
    <3>1. LimitOf(k)' = LimitOf(k)
      BY <1>2 DEF LimitOf
    <3>2. CASE k = n + 1
      BY <1>3, <1>4, <3>1, <3>2
    <3>3. CASE k \in 1..n
      BY <1>1, <1>4, <3>1, <3>3 DEF ChunksFit
    <3> QED BY <1>4, <3>2, <3>3
  <2> QED BY <1>4, <2>1 DEF ChunksFit
<1>7. /\ late' = [k \in DOMAIN chunks' |-> 0]
      /\ UNCHANGED <<publishes, part, tries, waiting, chat, acks, primary, why>>
  BY DEF CutText
<1>8. chat = <<>> /\ part = 1 /\ ~waiting
  BY <1>1, <1>2 DEF CallShape, Cutting
<1>9. CallShape'
  <2>1. part' \in DOMAIN chunks' /\ chat' \in Seq(DOMAIN chunks') /\ DOMAIN late' = DOMAIN chunks'
        /\ \A k \in DOMAIN late' : late'[k] \in Nat
    BY <1>4, <1>7, <1>8
  <2>2. tries = 0 /\ tries <= MaxRetries
    BY <1>1, <1>2, TransportAssumption DEF CallShape, Cutting
  <2>3. stage' = "send" \/ stage' = "split"
    BY <1>2
  <2>4. /\ publishes' \in 1..MaxPublishes /\ tries' \in 0..(MaxRetries + 1) /\ waiting' = FALSE
        /\ primary' \in {0} \cup DOMAIN chat' /\ why' \in {"none", "transient", "rejected"}
    BY <1>1, <1>7, <1>8 DEF CallShape
  <2> QED BY <1>7, <1>8, <2>1, <2>2, <2>3, <2>4 DEF CallShape, Cutting
<1>10. CopiesAreRequests'
  <2> SUFFICES ASSUME NEW p \in DOMAIN chunks'
               PROVE  late'[p] + CopiesOf(p)' + Requested(p)' <= Before' + Used(p)'
    BY DEF CopiesAreRequests
  <2>1. late'[p] = 0 /\ Requested(p)' = 0
    BY <1>7, <1>8 DEF Requested
  <2>2. CopiesOf(p)' = 0
    <3>1. {k \in DOMAIN chat' : chat'[k] = p} = {}
      BY <1>7, <1>8
    <3> QED BY <3>1, FS_EmptySet DEF CopiesOf
  <2>3. Before' \in Nat /\ Used(p)' \in Nat
    <3>1. p \in Nat /\ part \in Nat /\ Before' = Before /\ Used(p)' = Used(p)
      BY <1>4, <1>7, <1>8 DEF Before, Used
    <3> QED BY <1>1, <3>1, BoundsAreNat
  <2> QED BY <2>1, <2>2, <2>3
<1> QED BY <1>5, <1>6, <1>9, <1>10 DEF WholePostInv

\* A step that leaves the text and its chunks alone after the cut.
LEMMA TextStays ==
    ASSUME TextShape, ChunksFit, UNCHANGED <<text, photo, rest, chunks>>, ~Cutting',
           stage' \in {"send", "sent", "failed"}
    PROVE  TextShape' /\ ChunksFit'
BY DEF TextShape, ChunksFit, Cutting, LimitOf

\* What the chat holds after a request for chunk p turned up.
LEMMA ChatGrows ==
    ASSUME CallShape, NEW p \in DOMAIN chunks, chat' = Append(chat, p)
    PROVE  /\ chat' \in Seq(DOMAIN chunks) /\ Len(chat) + 1 \in DOMAIN chat'
           /\ \A i \in DOMAIN chat : i \in DOMAIN chat'
BY DEF CallShape

LEMMA ChunksAreCounted ==
    ASSUME TextShape PROVE DOMAIN chunks \subseteq Nat /\ \A p \in DOMAIN chunks : p >= 1 /\ 1 \in DOMAIN chunks
BY DEF TextShape

\* A request that fails: it may have reached the chat, or may reach it later.
LEMMA FailingCounts ==
    ASSUME WholePostInv, waiting, waiting' = FALSE,
           stage' = "failed" \/ (stage' = stage /\ RetriesLeft),
           why' \in {"none", "transient", "rejected"},
           UNCHANGED <<text, photo, rest, chunks, publishes, part, tries, acks, primary>>,
           \/ chat' = chat /\ late' = late
           \/ chat' = Append(chat, part) /\ late' = late
           \/ chat' = chat /\ late' = [late EXCEPT ![part] = @ + 1]
    PROVE  WholePostInv'
<1>1. TextShape /\ ChunksFit /\ CallShape /\ CopiesAreRequests
  BY DEF WholePostInv
<1>2. stage = "send" /\ ~Cutting /\ ~Cutting' /\ stage' \in {"send", "failed"} /\ part \in DOMAIN chunks
  BY <1>1 DEF CallShape, Cutting
<1>3. TextShape' /\ ChunksFit'
  BY <1>1, <1>2, TextStays
<1>4. /\ chat' \in Seq(DOMAIN chunks) /\ \A i \in DOMAIN chat : i \in DOMAIN chat'
      /\ DOMAIN late' = DOMAIN late /\ \A p \in DOMAIN late : late'[p] \in Nat
  <2>1. /\ DOMAIN late' = DOMAIN late /\ \A p \in DOMAIN late : late'[p] \in Nat
    BY <1>1 DEF CallShape
  <2>2. chat' \in Seq(DOMAIN chunks) /\ \A i \in DOMAIN chat : i \in DOMAIN chat'
    BY <1>1, <1>2, ChatGrows DEF CallShape
  <2> QED BY <2>1, <2>2
<1>5. CallShape'
  BY <1>1, <1>2, <1>4 DEF CallShape, RetriesLeft
<1>6. CopiesAreRequests'
  <2> SUFFICES ASSUME NEW p \in DOMAIN chunks
               PROVE  late'[p] + CopiesOf(p)' + Requested(p)' <= Before' + Used(p)'
    BY DEF CopiesAreRequests
  <2>1. late[p] + CopiesOf(p) + Requested(p) <= Before + Used(p)
    BY <1>1 DEF CopiesAreRequests
  <2>2. Before' = Before /\ Used(p)' = Used(p) /\ Requested(p)' = 0
    BY DEF Before, Used, Requested
  <2>3. Before \in Nat /\ Used(p) \in Nat /\ p \in Nat /\ part \in Nat /\ late[p] \in Nat /\ CopiesOf(p) \in Nat
    BY <1>1, <1>2, ChunksAreCounted, BoundsAreNat, CopiesGrow DEF CallShape
  <2>4. CASE p = part
    <3>1. Requested(p) = 1
      BY <2>4 DEF Requested
    <3>2. CopiesOf(p)' = (IF chat' = Append(chat, part) /\ late' = late THEN CopiesOf(p) + 1 ELSE CopiesOf(p))
          \/ (chat' = chat /\ CopiesOf(p)' = CopiesOf(p))
      BY <1>1, <2>4, CopiesGrow DEF CallShape, CopiesOf
    <3>3. late'[p] + CopiesOf(p)' <= late[p] + CopiesOf(p) + 1
      <4>1. CASE chat' = chat /\ late' = late
        BY <2>3, <4>1 DEF CopiesOf
      <4>2. CASE chat' = Append(chat, part) /\ late' = late
        <5>1. CopiesOf(p)' = CopiesOf(p) + 1
          BY <1>1, <2>4, <4>2, CopiesGrow DEF CallShape
        <5> QED BY <2>3, <4>2, <5>1
      <4>3. CASE chat' = chat /\ late' = [late EXCEPT ![part] = @ + 1]
        <5>1. late'[p] = late[p] + 1 /\ CopiesOf(p)' = CopiesOf(p)
          BY <1>1, <2>4, <4>3 DEF CallShape, CopiesOf
        <5> QED BY <2>3, <5>1
      <4> QED BY <4>1, <4>2, <4>3
    <3>4. late'[p] \in Nat /\ CopiesOf(p)' \in Nat
      <4>1. CopiesOf(p)' = CopiesOf(p) \/ CopiesOf(p)' = CopiesOf(p) + 1
        BY <3>2
      <4> QED BY <1>1, <1>4, <2>3, <4>1 DEF CallShape
    <3> QED BY <2>1, <2>2, <2>3, <3>1, <3>3, <3>4
  <2>5. CASE p # part
    <3>1. late'[p] = late[p] /\ Requested(p) = 0
      BY <1>1, <2>5 DEF CallShape, Requested
    <3>2. CopiesOf(p)' = CopiesOf(p)
      <4>1. CASE chat' = chat
        BY <4>1 DEF CopiesOf
      <4>2. CASE chat' = Append(chat, part)
        BY <1>1, <2>5, <4>2, CopiesGrow DEF CallShape
      <4> QED BY <4>1, <4>2
    <3> QED BY <2>1, <2>2, <3>1, <3>2
  <2> QED BY <2>4, <2>5
<1> QED BY <1>3, <1>5, <1>6 DEF WholePostInv

LEMMA AcceptedCounts ==
    ASSUME WholePostInv, Accepted PROVE WholePostInv'
<1>1. TextShape /\ ChunksFit /\ CallShape /\ CopiesAreRequests
  BY DEF WholePostInv
<1>2. stage = "send" /\ ~Cutting /\ part \in DOMAIN chunks /\ waiting
  BY <1>1 DEF Accepted, CallShape, Cutting
<1>3. /\ chat' = Append(chat, part) /\ waiting' = FALSE
      /\ UNCHANGED <<text, photo, rest, chunks, publishes, late, why>>
      /\ primary' = Len(chat) + 1 \/ primary' = primary
  BY DEF Accepted, Reported
<1>4. \/ stage' = "sent" /\ part' = part /\ tries' = tries
      \/ stage' = "send" /\ part' = part + 1 /\ tries' = 0 /\ part # Len(chunks)
  BY <1>2 DEF Accepted, LastPart
<1>5. ~Cutting' /\ stage' \in {"send", "sent"}
  BY <1>4 DEF Cutting
<1>6. TextShape' /\ ChunksFit'
  BY <1>1, <1>3, <1>5, TextStays
<1>7. /\ chat' \in Seq(DOMAIN chunks) /\ \A i \in DOMAIN chat : i \in DOMAIN chat' /\ Len(chat) + 1 \in DOMAIN chat'
  BY <1>1, <1>2, <1>3, ChatGrows
<1>8. part' \in DOMAIN chunks
  <2>1. DOMAIN chunks = 1..Len(chunks) /\ Len(chunks) \in Nat
    BY <1>1 DEF TextShape
  <2> QED BY <1>2, <1>4, <2>1
<1>9. CallShape'
  <2>1. primary' \in {0} \cup DOMAIN chat'
    BY <1>1, <1>2, <1>3, ChatGrows DEF CallShape
  <2>2. tries' \in 0..(MaxRetries + 1) /\ (stage' = "send" => tries' <= MaxRetries)
    BY <1>1, <1>4, TransportAssumption DEF CallShape
  <2> QED BY <1>1, <1>3, <1>5, <1>7, <1>8, <2>1, <2>2 DEF CallShape
<1>10. CopiesAreRequests'
  <2> SUFFICES ASSUME NEW p \in DOMAIN chunks
               PROVE  late'[p] + CopiesOf(p)' + Requested(p)' <= Before' + Used(p)'
    BY <1>3 DEF CopiesAreRequests
  <2>1. late[p] + CopiesOf(p) + Requested(p) <= Before + Used(p)
    BY <1>1 DEF CopiesAreRequests
  <2>2. Before' = Before /\ Requested(p)' = 0 /\ late'[p] = late[p]
    BY <1>3 DEF Before, Requested
  <2>3. Before \in Nat /\ Used(p) \in Nat /\ p \in Nat /\ part \in Nat /\ late[p] \in Nat /\ CopiesOf(p) \in Nat
    BY <1>1, <1>2, ChunksAreCounted, BoundsAreNat, CopiesGrow DEF CallShape
  <2>4. CopiesOf(p)' + Requested(p)' = CopiesOf(p) + Requested(p)
    <3>1. CopiesOf(p)' = (IF part = p THEN CopiesOf(p) + 1 ELSE CopiesOf(p))
      BY <1>1, <1>3, CopiesGrow DEF CallShape
    <3>2. Requested(p) = (IF part = p THEN 1 ELSE 0)
      BY <1>2 DEF Requested
    <3> QED BY <2>2, <2>3, <3>1, <3>2
  <2>5. Used(p) <= Used(p)' /\ Used(p)' \in Nat
    <3>1. tries \in 0..(MaxRetries + 1) /\ MaxRetries \in Nat
      BY <1>1, TransportAssumption DEF CallShape
    <3>2. CASE part' = part /\ tries' = tries
      BY <2>3, <3>2 DEF Used
    <3>3. CASE part' = part + 1 /\ tries' = 0
      <4>1. p < part \/ p = part \/ p > part
        BY <2>3
      <4>2. Used(p) = (IF p < part THEN MaxRetries + 1 ELSE IF p = part THEN tries ELSE 0)
        BY DEF Used
      <4>3. Used(p)' = (IF p < part + 1 THEN MaxRetries + 1 ELSE IF p = part + 1 THEN 0 ELSE 0)
        BY <3>3 DEF Used
      <4>4. tries <= MaxRetries + 1 /\ tries >= 0 /\ tries \in Nat
        BY <3>1
      <4> QED BY <2>3, <3>1, <4>1, <4>2, <4>3, <4>4
    <3> QED BY <1>4, <3>2, <3>3
  <2>6. /\ late'[p] + CopiesOf(p)' + Requested(p)' = late[p] + CopiesOf(p) + Requested(p)
        /\ CopiesOf(p)' \in Nat /\ Requested(p) \in Nat
    <3>1. Requested(p) \in {0, 1}
      BY DEF Requested
    <3>2. CopiesOf(p)' \in Nat
      BY <2>2, <2>3, <2>4, <3>1, <1>1, <1>3, CopiesGrow DEF CallShape
    <3> QED BY <2>2, <2>3, <2>4, <3>1, <3>2
  <2> QED BY <2>1, <2>2, <2>3, <2>5, <2>6
<1> QED BY <1>6, <1>9, <1>10 DEF WholePostInv

LEMMA ArrivingCounts ==
    ASSUME WholePostInv, NEW q \in DOMAIN late, Arrives(q) PROVE WholePostInv'
<1>1. TextShape /\ ChunksFit /\ CallShape /\ CopiesAreRequests
  BY DEF WholePostInv
<1>2. /\ late[q] > 0 /\ late' = [late EXCEPT ![q] = @ - 1] /\ chat' = Append(chat, q) /\ q \in DOMAIN chunks
      /\ UNCHANGED <<text, photo, rest, chunks, stage, publishes, part, tries, waiting, acks, primary, why>>
  BY <1>1 DEF Arrives, textVars, CallShape
<1>3. ~Cutting
  <2>1. CASE Cutting
    BY <1>1, <1>2, <2>1 DEF CallShape
  <2> QED BY <2>1
<1>4. TextShape' /\ ChunksFit'
  BY <1>1, <1>2 DEF TextShape, ChunksFit, Cutting, LimitOf
<1>5. /\ chat' \in Seq(DOMAIN chunks) /\ \A i \in DOMAIN chat : i \in DOMAIN chat'
  BY <1>1, <1>2, ChatGrows
<1>6. DOMAIN late' = DOMAIN late /\ \A p \in DOMAIN late : late'[p] \in Nat
  BY <1>1, <1>2 DEF CallShape
<1>7. CallShape'
  BY <1>1, <1>2, <1>3, <1>5, <1>6 DEF CallShape, Cutting
<1>8. CopiesAreRequests'
  <2> SUFFICES ASSUME NEW p \in DOMAIN chunks
               PROVE  late'[p] + CopiesOf(p)' + Requested(p)' <= Before' + Used(p)'
    BY <1>2 DEF CopiesAreRequests
  <2>1. late[p] + CopiesOf(p) + Requested(p) <= Before + Used(p)
    BY <1>1 DEF CopiesAreRequests
  <2>2. Before' = Before /\ Requested(p)' = Requested(p) /\ Used(p)' = Used(p)
    BY <1>2 DEF Before, Requested, Used
  <2>3. late[p] \in Nat /\ CopiesOf(p) \in Nat
    BY <1>1, CopiesGrow DEF CallShape
  <2>4. CopiesOf(p)' = (IF q = p THEN CopiesOf(p) + 1 ELSE CopiesOf(p))
    BY <1>1, <1>2, CopiesGrow DEF CallShape
  <2>5. late'[p] = (IF q = p THEN late[p] - 1 ELSE late[p])
    BY <1>1, <1>2 DEF CallShape
  <2>6. late'[p] + CopiesOf(p)' = late[p] + CopiesOf(p)
    BY <2>3, <2>4, <2>5
  <2> QED BY <2>1, <2>2, <2>6
<1> QED BY <1>4, <1>7, <1>8 DEF WholePostInv

LEMMA PostCounts ==
    ASSUME WholePostInv, Post PROVE WholePostInv'
<1>1. TextShape /\ ChunksFit /\ CallShape /\ CopiesAreRequests
  BY DEF WholePostInv
<1>2. /\ stage = "send" /\ ~waiting /\ waiting' = TRUE /\ tries' = tries + 1
      /\ UNCHANGED <<text, photo, rest, chunks, stage, publishes, part, late, chat, acks, primary, why>>
  BY DEF Post, textVars
<1>3. ~Cutting /\ ~Cutting' /\ tries \in Nat /\ tries <= MaxRetries /\ MaxRetries \in Nat
  BY <1>1, <1>2, TransportAssumption DEF CallShape, Cutting
<1>4. TextShape' /\ ChunksFit'
  BY <1>1, <1>2, <1>3, TextStays
<1>5. CallShape'
  BY <1>1, <1>2, <1>3 DEF CallShape
<1>6. CopiesAreRequests'
  <2> SUFFICES ASSUME NEW p \in DOMAIN chunks
               PROVE  late'[p] + CopiesOf(p)' + Requested(p)' <= Before' + Used(p)'
    BY <1>2 DEF CopiesAreRequests
  <2>1. late[p] + CopiesOf(p) + Requested(p) <= Before + Used(p)
    BY <1>1 DEF CopiesAreRequests
  <2>2. Before' = Before /\ CopiesOf(p)' = CopiesOf(p) /\ late'[p] = late[p] /\ Requested(p) = 0
    BY <1>2 DEF Before, CopiesOf, Requested
  <2>3. Before \in Nat /\ p \in Nat /\ part \in Nat /\ late[p] \in Nat /\ CopiesOf(p) \in Nat
    BY <1>1, <1>3, ChunksAreCounted, BoundsAreNat, CopiesGrow DEF CallShape
  <2>4. Used(p)' = Used(p) + Requested(p)' /\ Requested(p)' \in Nat /\ Used(p) \in Nat
    BY <1>2, <1>3, <2>3 DEF Used, Requested
  <2> QED BY <2>1, <2>2, <2>3, <2>4
<1> QED BY <1>4, <1>5, <1>6 DEF WholePostInv

LEMMA PublishAgainCounts ==
    ASSUME WholePostInv, PublishAgain PROVE WholePostInv'
<1>1. TextShape /\ ChunksFit /\ CallShape /\ CopiesAreRequests
  BY DEF WholePostInv
<1>2. /\ stage = "failed" /\ publishes < MaxPublishes /\ publishes' = publishes + 1 /\ stage' = "send"
      /\ part' = 1 /\ tries' = 0 /\ primary' = 0 /\ why' = "none"
      /\ UNCHANGED <<text, photo, rest, chunks, waiting, late, chat>>
  BY DEF PublishAgain
<1>3. ~Cutting /\ ~Cutting' /\ waiting = FALSE /\ part \in DOMAIN chunks /\ 1 \in DOMAIN chunks
  BY <1>1, <1>2, ChunksAreCounted DEF CallShape, Cutting
<1>4. TextShape' /\ ChunksFit'
  BY <1>1, <1>2, <1>3, TextStays
<1>5. CallShape'
  <2>1. publishes' \in 1..MaxPublishes /\ tries' \in 0..(MaxRetries + 1) /\ tries' <= MaxRetries
    BY <1>1, <1>2, TransportAssumption DEF CallShape
  <2> QED BY <1>1, <1>2, <1>3, <2>1 DEF CallShape
<1>6. CopiesAreRequests'
  <2> SUFFICES ASSUME NEW p \in DOMAIN chunks
               PROVE  late'[p] + CopiesOf(p)' + Requested(p)' <= Before' + Used(p)'
    BY <1>2 DEF CopiesAreRequests
  <2>1. late[p] + CopiesOf(p) + Requested(p) <= Before + Used(p)
    BY <1>1 DEF CopiesAreRequests
  <2>2. CopiesOf(p)' = CopiesOf(p) /\ late'[p] = late[p] /\ Requested(p) = 0 /\ Requested(p)' = 0
    BY <1>2, <1>3 DEF CopiesOf, Requested
  <2>3. /\ Before \in Nat /\ Used(p) \in Nat /\ p \in Nat /\ part \in Nat /\ late[p] \in Nat
        /\ CopiesOf(p) \in Nat
    BY <1>1, <1>3, ChunksAreCounted, BoundsAreNat, CopiesGrow DEF CallShape
  <2>4. Before' = Before + (MaxRetries + 1)
    <3>1. publishes \in Nat /\ MaxRetries + 1 \in Nat /\ Before' = publishes * (MaxRetries + 1)
      BY <1>1, <1>2, TransportAssumption DEF CallShape, Before
    <3>2. \A x, y \in Nat : x * y = (x - 1) * y + y
      OBVIOUS
    <3> QED BY <3>1, <3>2 DEF Before
  <2>5. Used(p) <= MaxRetries + 1 /\ Used(p)' \in Nat /\ MaxRetries + 1 \in Nat
    BY <1>1, <1>2, <2>3, TransportAssumption DEF CallShape, Used
  <2> QED BY <2>1, <2>2, <2>3, <2>4, <2>5
<1> QED BY <1>4, <1>5, <1>6 DEF WholePostInv

LEMMA NextPost == WholePostInv /\ [Next]_vars => WholePostInv'
<1> SUFFICES ASSUME WholePostInv, [Next]_vars PROVE WholePostInv'
  OBVIOUS
<1>1. CASE CutText
  BY <1>1, CuttingStep
<1>2. CASE Post
  BY <1>2, PostCounts
<1>3. CASE Accepted
  BY <1>3, AcceptedCounts
<1>4. CASE Unheard \/ NotPosted \/ GivenUp
  <2>1. /\ waiting /\ waiting' = FALSE /\ (stage' = "failed" \/ (stage' = stage /\ RetriesLeft))
        /\ why' = "transient"
        /\ UNCHANGED <<text, photo, rest, chunks, publishes, part, tries, acks, primary>>
    BY <1>4 DEF Unheard, NotPosted, GivenUp, FailsTransiently
  <2>2. \/ chat' = chat /\ late' = late
        \/ chat' = Append(chat, part) /\ late' = late
        \/ chat' = chat /\ late' = [late EXCEPT ![part] = @ + 1]
    BY <1>4 DEF Unheard, NotPosted, GivenUp
  <2> QED BY <2>1, <2>2, FailingCounts
<1>5. CASE Raised
  BY <1>5, FailingCounts DEF Raised
<1>6. CASE \E p \in DOMAIN late : Arrives(p)
  BY <1>6, ArrivingCounts
<1>7. CASE PublishAgain
  BY <1>7, PublishAgainCounts
<1>8. CASE UNCHANGED vars
  BY <1>8 DEF vars, WholePostInv, TextShape, CallShape, ChunksFit, LimitOf, CopiesAreRequests, CopiesOf,
     Requested, Used, Before, Cutting
<1> QED BY <1>1, <1>2, <1>3, <1>4, <1>5, <1>6, <1>7, <1>8
        DEF Next, Send, Answer, Late, Quiescent

LEMMA PostSuffices == WholePostInv /\ TransportInv => PostInv
<1> SUFFICES ASSUME WholePostInv, TransportInv PROVE PostInv
  OBVIOUS
<1>1. TextShape /\ ChunksFit /\ CallShape /\ CopiesAreRequests
  BY DEF WholePostInv
<1>2. acks \in Seq(DOMAIN chat)
  <2>1. acks \in Seq(Pos) /\ \A i \in DOMAIN acks : acks[i] \in DOMAIN chat
    BY DEF TransportInv, SendType, AcksPointAtChunks
  <2> QED BY <2>1
<1>3. TelegramTypeOK
  BY <1>1, <1>2 DEF TextShape, CallShape, TelegramTypeOK, Cutting
<1>4. CopiesAreBounded
  <2> SUFFICES ASSUME NEW p \in DOMAIN late
               PROVE  late[p] + CopiesOf(p) <= publishes * (MaxRetries + 1)
    BY DEF CopiesAreBounded, CopiesOf
  <2>1. p \in DOMAIN chunks /\ p \in Nat /\ part \in Nat /\ late[p] \in Nat /\ CopiesOf(p) \in Nat
    BY <1>1, ChunksAreCounted, CopiesGrow DEF CallShape, TransportInv, SendType, Pos
  <2>2. late[p] + CopiesOf(p) + Requested(p) <= Before + Used(p)
    BY <1>1, <2>1 DEF CopiesAreRequests
  <2>3. Before \in Nat /\ Used(p) \in Nat /\ Requested(p) \in {0, 1} /\ Used(p) <= MaxRetries + 1
        /\ MaxRetries + 1 \in Nat
    BY <1>1, <2>1, BoundsAreNat, TransportAssumption DEF Used, CallShape
  <2>4. publishes * (MaxRetries + 1) = Before + (MaxRetries + 1)
    <3>1. publishes \in Nat /\ MaxRetries + 1 \in Nat
      BY <1>1, <2>3 DEF CallShape
    <3>2. \A x, y \in Nat : x * y = (x - 1) * y + y
      OBVIOUS
    <3> QED BY <3>1, <3>2 DEF Before
  <2> QED BY <2>1, <2>2, <2>3, <2>4
<1> QED BY <1>1, <1>3, <1>4 DEF PostInv

\* In every state of Spec the types are right, every chunk is one Telegram accepts
\* (split_telegram_text, _publish_with_photo), and of no chunk can more copies turn up than
\* the publishes so far made requests for it (_post): for posts of any length, any limits,
\* lost answers, late requests and any number of retries.
THEOREM PostCorrect == Spec => []PostInv
<1>1. Init => WholePostInv /\ TransportInv
  BY InitPost, InitTransport
<1>2. WholePostInv /\ TransportInv /\ [Next]_vars => (WholePostInv /\ TransportInv)'
  BY NextPost, NextTransport
<1> QED BY <1>1, <1>2, PostSuffices, PTL DEF Spec

\* "Never truncates content" (split_telegram_text), step by step: a cut takes a chunk off the
\* front of the text and drops nothing but newlines behind it.
THEOREM CutsOnlyDropNewlines == Spec => CutsDropNewlines
<1>1. ASSUME WholePostInv, [Next]_vars PROVE [CutDropsNewlines]_vars
  <2>1. CASE CutText
    BY <1>1, <2>1, CuttingEffect DEF WholePostInv
  <2>2. CASE ~CutText
    <3>1. chunks' = chunks
      BY <1>1, <2>2 DEF Next, Send, Answer, Late, Quiescent, vars, Post, Accepted, Unheard, NotPosted,
         GivenUp, Raised, Arrives, FailsTransiently, PublishAgain, textVars
    <3> QED BY <3>1 DEF CutDropsNewlines
  <2> QED BY <2>1, <2>2
<1> QED BY <1>1, InitPost, NextPost, PTL DEF Spec, CutsDropNewlines

-----------------------------------------------------------------------------
(* The whole post *)

\* The characters behind position a, up to position b
LEMMA StretchIs ==
    ASSUME NEW S, NEW t \in Seq(S), NEW a \in 0..Len(t), NEW b \in a..Len(t)
    PROVE  /\ SubSeq(t, a + 1, b) \in Seq(S) /\ Len(SubSeq(t, a + 1, b)) = b - a
           /\ \A k \in 1..(b - a) : SubSeq(t, a + 1, b)[k] = t[a + k]
OBVIOUS

\* A stretch of a stretch
LEMMA StretchOfStretch ==
    ASSUME NEW S, NEW t \in Seq(S), NEW a \in 0..Len(t), NEW r, r = SubSeq(t, a + 1, Len(t)),
           NEW m \in 0..Len(r), NEW n \in m..Len(r)
    PROVE  SubSeq(r, m + 1, n) = SubSeq(t, a + m + 1, a + n)
<1>1. r \in Seq(S) /\ Len(r) = Len(t) - a /\ \A k \in 1..(Len(t) - a) : r[k] = t[a + k]
  BY StretchIs
<1>2. /\ SubSeq(r, m + 1, n) \in Seq(S) /\ Len(SubSeq(r, m + 1, n)) = n - m
      /\ \A k \in 1..(n - m) : SubSeq(r, m + 1, n)[k] = r[m + k]
  BY <1>1, StretchIs
<1>3. a + m \in 0..Len(t) /\ a + n \in (a + m)..Len(t) /\ (a + n) - (a + m) = n - m
  BY <1>1
<1> DEFINE w == SubSeq(t, a + m + 1, a + n)
<1>4. /\ w \in Seq(S) /\ Len(w) = (a + n) - (a + m)
      /\ \A k \in 1..((a + n) - (a + m)) : w[k] = t[(a + m) + k]
  BY <1>3, StretchIs
<1> HIDE DEF w
<1>5. ASSUME NEW k \in 1..Len(SubSeq(r, m + 1, n)) PROVE SubSeq(r, m + 1, n)[k] = w[k]
  <2>1. k \in 1..(n - m) /\ m + k \in 1..(Len(t) - a) /\ a + (m + k) = (a + m) + k
    BY <1>1, <1>2
  <2> QED BY <1>1, <1>2, <1>3, <1>4, <2>1
<1> QED BY <1>2, <1>3, <1>4, <1>5, SeqEqual DEF w

LEMMA InitTruncatesNothing ==
    ASSUME Init PROVE NothingTruncated
<1>1. text \in Seq(Chars) /\ rest = text /\ chunks = <<>>
  BY TextIsSeq DEF Init, TextInit
<1>2. Pieces = <<text>> /\ DOMAIN Pieces = {1} /\ Len(Pieces) = 1 /\ Pieces[1] = text
  BY <1>1 DEF Pieces
<1> DEFINE from == [i \in DOMAIN Pieces |-> 0]
<1>3. from \in [DOMAIN Pieces -> 0..Len(text)] /\ from[1] = 0
  BY <1>1, <1>2
<1> HIDE DEF from
<1>4. Ends(from)[0] = 0 /\ Ends(from)[1] = Len(text)
  BY <1>1, <1>2, <1>3 DEF Ends
<1>5. SubSeq(text, 1, Len(text)) = text
  BY <1>1
<1>6. Covers(from)
  BY <1>1, <1>2, <1>3, <1>4, <1>5 DEF Covers
<1> QED BY <1>3, <1>6 DEF NothingTruncated

\* A cut puts the new chunk where the remainder began, and the remainder behind it.
LEMMA CutTruncatesNothing ==
    ASSUME TextShape, NothingTruncated, text' = text, CutDropsNewlines, chunks' # chunks
    PROVE  NothingTruncated'
<1>1. text \in Seq(Chars) /\ rest \in Seq(Chars) /\ chunks \in Seq(Seq(Chars))
  BY TextIsSeq DEF TextShape
<1>1a. PICK m \in 1..Len(rest) : \E j \in m..Len(rest) :
        /\ chunks' = Append(chunks, Prefix(rest, m)) /\ rest' = Suffix(rest, j)
        /\ \A k \in (m + 1)..j : rest[k] = "\n"
  BY DEF CutDropsNewlines
<1>2. PICK j \in m..Len(rest) :
        /\ chunks' = Append(chunks, Prefix(rest, m)) /\ rest' = Suffix(rest, j)
        /\ \A k \in (m + 1)..j : rest[k] = "\n"
  BY <1>1a
<1>3. PICK from \in [DOMAIN Pieces -> 0..Len(text)] : Covers(from)
  BY DEF NothingTruncated
<1>3a. PICK n : n = Len(chunks) + 1
  OBVIOUS
<1>3b. PICK new : new = [i \in 1..(n + 1) |-> IF i <= n THEN from[i] ELSE from[n] + j]
  OBVIOUS
<1>4. /\ n \in Nat \ {0} /\ Len(Pieces) = n /\ DOMAIN Pieces = 1..n /\ Pieces[n] = rest
      /\ \A i \in 1..(n - 1) : Pieces[i] = chunks[i]
  BY <1>1, <1>3a DEF Pieces
<1>5. Prefix(rest, m) \in Seq(Chars) /\ Suffix(rest, j) \in Seq(Chars)
  BY <1>1, <1>2 DEF Prefix, Suffix
<1>6. /\ Len(Pieces') = n + 1 /\ DOMAIN Pieces' = 1..(n + 1)
      /\ Pieces'[n] = Prefix(rest, m) /\ Pieces'[n + 1] = Suffix(rest, j)
      /\ \A i \in 1..(n - 1) : Pieces'[i] = Pieces[i]
  <2>1. chunks' \in Seq(Seq(Chars)) /\ Len(chunks') = n /\ chunks'[n] = Prefix(rest, m)
        /\ \A i \in 1..(n - 1) : chunks'[i] = chunks[i]
    BY <1>1, <1>2, <1>3a, <1>5
  <2> QED BY <1>2, <1>3a, <1>4, <1>5, <2>1 DEF Pieces
<1>7. from[n] \in 0..Len(text) /\ Ends(from)[n] = from[n] + Len(rest) /\ Ends(from)[n] = Len(text)
  BY <1>3, <1>4 DEF Covers, Ends
<1>8. rest = SubSeq(text, from[n] + 1, Len(text))
  <2>1. n \in DOMAIN Pieces
    BY <1>4
  <2> QED BY <1>3, <1>4, <1>7, <2>1 DEF Covers
<1>8a. Len(text) \in Nat /\ Len(rest) \in Nat /\ Len(text) \in from[n]..Len(text)
  BY <1>1, <1>7
<1>9. /\ Len(rest) = Len(text) - from[n] /\ \A k \in 1..Len(rest) : rest[k] = text[from[n] + k]
  <2>1. PICK a \in 0..Len(text) : a = from[n]
    BY <1>7
  <2>2. rest = SubSeq(text, a + 1, Len(text)) /\ Len(text) \in a..Len(text)
    BY <1>8, <1>8a, <2>1
  <2>3. /\ Len(SubSeq(text, a + 1, Len(text))) = Len(text) - a
        /\ \A k \in 1..(Len(text) - a) : SubSeq(text, a + 1, Len(text))[k] = text[a + k]
    BY ONLY <1>1, <2>2, StretchIs
  <2>4. Len(rest) = Len(text) - a /\ \A k \in 1..Len(rest) : rest[k] = text[a + k]
    BY ONLY <2>2, <2>3
  <2> QED BY <2>1, <2>4
<1>9a. ASSUME NEW k \in 0..Len(rest), NEW l \in k..Len(rest)
      PROVE  SubSeq(rest, k + 1, l) = SubSeq(text, from[n] + k + 1, from[n] + l)
  <2>1. PICK a \in 0..Len(text) : a = from[n]
    BY <1>7
  <2>2. PICK t \in Seq(Chars) : t = text
    BY <1>1
  <2>3. PICK r : r = rest /\ r = SubSeq(t, a + 1, Len(t))
    BY <1>8, <2>1, <2>2
  <2>4. a \in 0..Len(t) /\ k \in 0..Len(r) /\ l \in k..Len(r)
    BY <2>1, <2>2, <2>3
  <2>5. SubSeq(r, k + 1, l) = SubSeq(t, a + k + 1, a + l)
    BY ONLY <2>2, <2>3, <2>4, StretchOfStretch
  <2> QED BY <2>1, <2>2, <2>3, <2>5
<1>10. Prefix(rest, m) = SubSeq(text, from[n] + 1, from[n] + m) /\ Len(Prefix(rest, m)) = m
  <2>1. 0 \in 0..Len(rest) /\ m \in 0..Len(rest) /\ m \in 0..Len(rest)
    BY <1>2, <1>8a
  <2>2. SubSeq(rest, 0 + 1, m) = SubSeq(text, from[n] + 0 + 1, from[n] + m)
    BY <1>9a, <2>1
  <2>3. from[n] + 0 + 1 = from[n] + 1 /\ 0 + 1 = 1
    BY <1>7
  <2>4. Len(Prefix(rest, m)) = m
    BY <1>1, <2>1, PrefixIs
  <2> QED BY <2>2, <2>3, <2>4 DEF Prefix
<1>11. Suffix(rest, j) = SubSeq(text, from[n] + j + 1, Len(text)) /\ Len(Suffix(rest, j)) = Len(rest) - j
  <2>1. j \in 0..Len(rest) /\ Len(rest) \in j..Len(rest)
    BY <1>2, <1>8a
  <2>2. SubSeq(rest, j + 1, Len(rest)) = SubSeq(text, from[n] + j + 1, from[n] + Len(rest))
    BY <1>9a, <2>1
  <2>3. from[n] + Len(rest) = Len(text)
    BY <1>7, <1>8a
  <2>4. Len(Suffix(rest, j)) = Len(rest) - j
    BY <1>1, <2>1, SuffixIs
  <2> QED BY <2>2, <2>3, <2>4 DEF Suffix
<1>12. /\ new \in [DOMAIN Pieces' -> 0..Len(text')] /\ new[n] = from[n] /\ new[n + 1] = from[n] + j
       /\ \A i \in 1..n : new[i] = from[i]
  BY <1>2, <1>3, <1>3b, <1>4, <1>6, <1>7, <1>9
<1>13. /\ \A i \in 0..(n - 1) : (Ends(new)')[i] = Ends(from)[i]
       /\ (Ends(new)')[n] = from[n] + m /\ (Ends(new)')[n + 1] = Len(text)
  <2>1. Ends(from) = [i \in 0..n |-> IF i = 0 THEN 0 ELSE from[i] + Len(Pieces[i])]
    BY <1>4 DEF Ends
  <2>2. (Ends(new)') = [i \in 0..(n + 1) |-> IF i = 0 THEN 0 ELSE new[i] + Len(Pieces'[i])]
    BY <1>6 DEF Ends
  <2>3. ASSUME NEW i \in 0..(n - 1) PROVE (Ends(new)')[i] = Ends(from)[i]
    <3>1. i \in 0..n /\ i \in 0..(n + 1) /\ (i # 0 => i \in 1..(n - 1) /\ i \in 1..n)
      BY <1>4
    <3> QED BY <1>6, <1>12, <2>1, <2>2, <3>1
  <2>4. n \in 0..(n + 1) /\ n # 0 /\ n + 1 \in 0..(n + 1) /\ n + 1 # 0
    BY <1>4
  <2>5. (Ends(new)')[n] = from[n] + m
    BY <1>6, <1>10, <1>12, <2>2, <2>4
  <2>6. (Ends(new)')[n + 1] = from[n] + j + (Len(rest) - j)
    BY <1>6, <1>11, <1>12, <2>2, <2>4
  <2>7. from[n] + j + (Len(rest) - j) = Len(text)
    BY <1>2, <1>7, <1>8a
  <2> QED BY <2>3, <2>5, <2>6, <2>7
<1>14. ASSUME NEW i \in 1..(n + 1)
       PROVE  /\ (Ends(new)')[i - 1] <= new[i] /\ Pieces'[i] = SubSeq(text, new[i] + 1, (Ends(new)')[i])
              /\ \A k \in ((Ends(new)')[i - 1] + 1)..new[i] : text[k] = "\n"
  <2>1. CASE i \in 1..(n - 1)
    <3>1. i \in DOMAIN Pieces /\ i - 1 \in 0..(n - 1) /\ i \in 0..(n - 1) /\ i \in 1..n
      BY <1>4, <2>1
    <3>2. new[i] = from[i] /\ (Ends(new)')[i - 1] = Ends(from)[i - 1] /\ (Ends(new)')[i] = Ends(from)[i] /\ Pieces'[i] = Pieces[i]
      BY <1>6, <1>12, <1>13, <2>1, <3>1
    <3> QED BY <1>3, <3>1, <3>2 DEF Covers
  <2>2. CASE i = n
    <3>1. n \in DOMAIN Pieces /\ n - 1 \in 0..(n - 1)
      BY <1>4
    <3>2. new[i] = from[n] /\ (Ends(new)')[i - 1] = Ends(from)[n - 1] /\ (Ends(new)')[i] = from[n] + m
      BY <1>12, <1>13, <2>2, <3>1
    <3>3. Ends(from)[n - 1] <= from[n] /\ \A k \in (Ends(from)[n - 1] + 1)..from[n] : text[k] = "\n"
      BY <1>3, <3>1 DEF Covers
    <3> QED BY <1>6, <1>10, <2>2, <3>2, <3>3
  <2>3. CASE i = n + 1
    <3>1. i - 1 = n
      BY <1>4, <2>3
    <3>2. new[i] = from[n] + j /\ (Ends(new)')[i - 1] = from[n] + m /\ (Ends(new)')[i] = Len(text)
      BY <1>12, <1>13, <2>3, <3>1
    <3>3. ASSUME NEW k \in (from[n] + m + 1)..(from[n] + j) PROVE text[k] = "\n"
      <4>1. k - from[n] \in (m + 1)..j /\ k - from[n] \in 1..Len(rest) /\ from[n] + (k - from[n]) = k
        <5>1. PICK a \in Nat : a = from[n]
          BY <1>7
        <5>2. PICK l \in Nat : l = Len(rest)
          BY <1>8a
        <5>3. m \in 1..l /\ j \in m..l /\ k \in (a + m + 1)..(a + j)
          BY <5>1, <5>2
        <5>4. k - a \in (m + 1)..j /\ k - a \in 1..l /\ a + (k - a) = k
          BY ONLY <5>1, <5>2, <5>3
        <5> QED BY ONLY <5>1, <5>2, <5>4
      <4> QED BY <1>2, <1>9, <4>1
    <3>4. from[n] + m <= from[n] + j
      BY <1>2, <1>7
    <3> QED BY <1>6, <1>11, <2>3, <3>2, <3>3, <3>4
  <2> QED BY <1>4, <2>1, <2>2, <2>3
<1>15. Covers(new)'
  BY <1>6, <1>13, <1>14 DEF Covers
<1> QED BY <1>12, <1>15 DEF NothingTruncated

\* "Never truncates content" (split_telegram_text, _publish_with_photo): at any time, for a post of any
\* length and any limits, the chunks cut so far and the remainder are stretches of the post, one behind
\* the other to its end, and only newlines between them are dropped.
THEOREM PostsAreWhole == Spec => []NothingTruncated
<1>1. WholePostInv /\ NothingTruncated /\ [Next]_vars => NothingTruncated'
  <2> SUFFICES ASSUME WholePostInv, NothingTruncated, [Next]_vars PROVE NothingTruncated'
    OBVIOUS
  <2>1. CASE CutText
    <3>1. TextShape /\ text' = text /\ CutDropsNewlines /\ chunks' # chunks
      <4>1. TextShape /\ chunks \in Seq(Seq(Chars))
        BY DEF WholePostInv, TextShape
      <4>2. PICK c \in Seq(Chars) : chunks' = Append(chunks, c)
        BY <2>1, <4>1, CuttingEffect
      <4>3. Len(chunks') # Len(chunks)
        BY <4>1, <4>2
      <4> QED BY <2>1, <4>1, <4>3, CuttingEffect
    <3> QED BY <3>1, CutTruncatesNothing
  <2>2. CASE ~CutText
    <3>1. UNCHANGED <<chunks, rest, text>>
      BY <2>2 DEF Next, Send, Answer, Late, Quiescent, vars, Post, Accepted, Unheard, NotPosted,
         GivenUp, Raised, Arrives, FailsTransiently, PublishAgain, textVars
    <3>2. Pieces' = Pieces
      BY <3>1 DEF Pieces
    <3>3. ASSUME NEW from PROVE (Ends(from)') = Ends(from)
      BY <3>2 DEF Ends
    <3>4. PICK from \in [DOMAIN Pieces -> 0..Len(text)] : Covers(from)
      BY DEF NothingTruncated
    <3>5. (Ends(from)') = Ends(from)
      BY <3>3
    <3>6. Covers(from)'
      BY <3>1, <3>2, <3>4, <3>5 DEF Covers
    <3> QED BY <3>1, <3>2, <3>4, <3>6 DEF NothingTruncated
  <2> QED BY <2>1, <2>2
<1> QED BY <1>1, InitPost, NextPost, InitTruncatesNothing, PTL DEF Spec
=============================================================================
