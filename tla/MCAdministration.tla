---------------------------- MODULE MCAdministration ----------------------------
(* One channel, one Facebook page; a few steps of every kind, in several starts. *)
EXTENDS Administration, TLC

CONSTANTS ch, pg, t1, t2

MCChannels == {ch}
MCPages == {pg}
MCTokens == {t1, t2}
MCTwo == {1, 2}

No == [moves |-> 0, clicks |-> 0, edits |-> 0, saves |-> 0, patches |-> 0, others |-> 0, outside |-> 0, failures |-> 0]

ARow(c) == [there |-> TRUE, id |-> 1, active |-> TRUE, verdict |-> "good", token |-> IF c = pg THEN t1 ELSE None]
Bare == [c \in {ch, pg} |-> NoRow]
Both == [c \in {ch, pg} |-> ARow(c)]
Unsaved == [row |-> None, rev |-> 0]
SavedAs(f, v) == [row |-> [Defaults EXCEPT ![f] = v], rev |-> 1]

Start(r, s, o, p, a) == [row |-> r, sound |-> {ch, t1, t2}, saved |-> s, owner |-> o, visits |-> p, allowance |-> a]

MCStarts ==
    \* two sections that share the timezone; one that the list lacks
    {Start(Bare, Unsaved, TRUE, {"general", "scheduling"}, [No EXCEPT !.moves = 3, !.edits = 2, !.saves = 2]),
     Start(Bare, SavedAs("timezone", "foreign"), TRUE, {"general", "scheduling"},
           [No EXCEPT !.moves = 2, !.edits = 1, !.saves = 2, !.failures = 1])}
    \* another client saves too
    \cup {Start(Bare, s, o, {"general"}, [No EXCEPT !.moves = 1, !.edits = 1, !.saves = 1, !.patches = 1, !.failures = 1])
          : s \in {Unsaved, SavedAs("timezone", "chosen")}, o \in BOOLEAN}
    \cup {Start(Bare, Unsaved, TRUE, {s}, [No EXCEPT !.moves = 1, !.edits = 2, !.saves = 2])
          : s \in {"aliexpress", "ai", "discovery"}}
    \* the default channel, which another administrator may remove
    \cup {Start(Both, Unsaved, TRUE, {"telegram", "channels"}, [No EXCEPT !.moves = 2, !.edits = 1, !.saves = 1, !.others = 1]),
          Start(Both, SavedAs(Channel, <<ch, 1>>), TRUE, {"telegram"}, [No EXCEPT !.moves = 1, !.edits = 1, !.saves = 1, !.others = 1])}
    \* the page of the channels, left and opened again, with failures, others, and revoked tokens
    \cup {Start(r, Unsaved, TRUE, {"channels"}, [No EXCEPT !.moves = 1, !.clicks = 1, !.others = 1]) : r \in {Bare, Both}}
    \cup {Start(Both, Unsaved, FALSE, {"channels"}, [No EXCEPT !.moves = 1, !.clicks = 1])}
    \cup {Start(r, Unsaved, TRUE, {"channels"}, [No EXCEPT !.moves = 1, !.clicks = 2, !.failures = 1]) : r \in {Bare, Both}}
    \cup {Start(Both, Unsaved, TRUE, {"channels", "elsewhere"}, [No EXCEPT !.moves = 3, !.clicks = 1, !.failures = 1]),
          Start(Both, Unsaved, TRUE, {"channels"}, [No EXCEPT !.moves = 1, !.clicks = 2, !.outside = 1])}
    \* more requests of others: three about the page, and about the channel that is the default one
    \cup {Start(Both, Unsaved, TRUE, {}, [No EXCEPT !.others = 3]),
          Start(Both, SavedAs(Channel, <<ch, 1>>), TRUE, {"telegram"}, [No EXCEPT !.moves = 1, !.saves = 1, !.others = 2])}
================================================================================
