---------------------------- MODULE TelegramText ----------------------------
(***************************************************************************)
(* How a post that exceeds Telegram's limits is cut: split_telegram_text and  *)
(* the caption cut of _publish_with_photo, one chunk a step.                  *)
(*                                                                         *)
(* The algorithm tells characters apart only as newlines, spaces and others.  *)
(***************************************************************************)
EXTENDS Integers, Sequences, FiniteSetsExt

CONSTANTS
    Letters,        \* characters that are no separators
    MessageLimit,   \* TELEGRAM_MAX_MESSAGE_LENGTH
    CaptionLimit,   \* TELEGRAM_MAX_CAPTION_LENGTH
    MaxLength       \* bound: characters of a post

ASSUME TextAssumption ==
    /\ Letters \cap {"\n", " "} = {}
    /\ MessageLimit \in Nat \ {0} /\ CaptionLimit \in Nat \ {0}

VARIABLES
    text,       \* the post
    photo,      \* it has an image: the first chunk is its caption
    rest,       \* what is still to be cut
    chunks,
    stage       \* "caption", "split" and on

textVars == <<text, photo, rest, chunks, stage>>

Chars == Letters \cup {"\n", " "}

Texts == UNION {[1..n -> Chars] : n \in 1..MaxLength}

TextInit ==
    /\ text \in Texts
    /\ photo \in BOOLEAN
    /\ rest = text
    /\ chunks = <<>>
    /\ stage = IF photo THEN "caption" ELSE "split"

-----------------------------------------------------------------------------

\* rfind(sep) of the first max characters: the positions it may return, if any counts
SoftCuts(t, max, sep) ==
    {k \in (max \div 2)..(max - Len(sep)) : SubSeq(t, k + 1, k + Len(sep)) = sep}

Separators == <<<<"\n", "\n">>, <<"\n">>, <<" ">>>>

\* _telegram_cut_index of a text that is longer than max
CutIndex(t, max) ==
    LET usable == {i \in DOMAIN Separators : SoftCuts(t, max, Separators[i]) # {}} IN
        IF usable = {} THEN max ELSE Max(SoftCuts(t, max, Separators[Min(usable)]))

Prefix(t, n) == SubSeq(t, 1, n)
Suffix(t, n) == SubSeq(t, n + 1, Len(t))

\* rstrip("\n") and lstrip("\n")
StripRight(t) == Prefix(t, Max({0} \cup {i \in DOMAIN t : t[i] # "\n"}))
StripLeft(t)  == Suffix(t, Min({Len(t)} \cup {i - 1 : i \in {j \in DOMAIN t : t[j] # "\n"}}))

\* Mutant of FirstChunk: the newlines around a cut are stripped from the wrong side
FirstChunkTruncates(t, max) ==
    LET cut == CutIndex(t, max) IN
        [chunk |-> Prefix(t, cut), rest |-> Suffix(t, cut + 1)]

\* The chunk at the head of a text that is longer than max, and what is left
FirstChunk(t, max) ==
    LET cut == CutIndex(t, max)
        soft == StripRight(Prefix(t, cut)) IN
        IF soft # <<>>
        THEN [chunk |-> soft, rest |-> StripLeft(Suffix(t, cut))]
        ELSE [chunk |-> Prefix(t, max), rest |-> StripLeft(Suffix(t, max))]

\* One chunk of at most max characters is cut off
Cut(max) ==
    LET next == IF Len(rest) <= max THEN [chunk |-> rest, rest |-> <<>>]
                ELSE FirstChunk(rest, max) IN
        /\ chunks' = Append(chunks, next.chunk)
        /\ rest' = next.rest
        /\ stage' = IF next.rest = <<>> THEN "send" ELSE "split"
        /\ UNCHANGED <<text, photo>>

CutCaption == stage = "caption" /\ Cut(CaptionLimit)
CutMessage == stage = "split" /\ Cut(MessageLimit)

Split == CutCaption \/ CutMessage

-----------------------------------------------------------------------------
(* Properties *)

LimitOf(i) == IF photo /\ i = 1 THEN CaptionLimit ELSE MessageLimit

\* Telegram accepts every chunk (split_telegram_text, _publish_with_photo): none is empty,
\* none exceeds its limit.
ChunksFit == \A i \in DOMAIN chunks : Len(chunks[i]) \in 1..LimitOf(i)

\* The chunks and the remainder, each the stretch of the post behind the position from[i]
Pieces == Append(chunks, rest)
Ends(from) == [i \in 0..Len(Pieces) |-> IF i = 0 THEN 0 ELSE from[i] + Len(Pieces[i])]

Covers(from) ==
    /\ Ends(from)[Len(Pieces)] = Len(text)
    /\ \A i \in DOMAIN Pieces : Ends(from)[i - 1] <= from[i]
    /\ \A i \in DOMAIN Pieces :
        /\ Pieces[i] = SubSeq(text, from[i] + 1, Ends(from)[i])
        /\ \A k \in (Ends(from)[i - 1] + 1)..from[i] : text[k] = "\n"

\* "Never truncates content" (split_telegram_text): chunks and remainder are stretches of the
\* post, one behind the other to its end; only newlines between them are dropped.
NothingTruncated == \E from \in [DOMAIN Pieces -> 0..Len(text)] : Covers(from)

\* A step of the cut takes a chunk off the front of what is left, and drops nothing but
\* newlines behind it (split_telegram_text).
CutDropsNewlines ==
    chunks' # chunks =>
        \E i \in 1..Len(rest) : \E j \in i..Len(rest) :
            /\ chunks' = Append(chunks, Prefix(rest, i)) /\ rest' = Suffix(rest, j)
            /\ \A k \in (i + 1)..j : rest[k] = "\n"

=============================================================================
