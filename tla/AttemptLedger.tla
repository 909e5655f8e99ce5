---------------------------- MODULE AttemptLedger ----------------------------
(***************************************************************************)
(* What the table queue_publish_attempts promises to the rest of the        *)
(* system, whoever publishes: a ledger per queue item to which started      *)
(* attempts are appended one by one, each settled at most once, and in      *)
(* which no payload is attempted again while an earlier attempt guards it.   *)
(***************************************************************************)
EXTENDS Naturals

CONSTANTS Items, Payloads, Window

VARIABLES
    ledger,     \* the attempts
    clock       \* the time

Guarding(e) == e.status \in {"started", "succeeded"}
Numbers(i)  == {e.num : e \in {f \in ledger : f.item = i}}

Init == ledger = {} /\ clock = 0

\* An attempt for payload h as of some time t up to now: it takes the next number, and the
\* window of every earlier attempt that guards h has passed at t.
Open(i, h) ==
    \E t \in 0..clock, n \in Numbers(i) \cup {0} :
        /\ Numbers(i) = 1..n
        /\ \A e \in ledger : e.item = i /\ e.hash = h /\ Guarding(e) => e.at + Window <= t
        /\ ledger' = ledger \cup {[item |-> i, num |-> n + 1, status |-> "started",
                                   hash |-> h, at |-> t, dead |-> FALSE]}
        /\ UNCHANGED clock

\* The outcome of a started attempt; only a failed one can be a dead letter
Settle(e) ==
    /\ e.status = "started"
    /\ \E status \in {"succeeded", "failed"}, dead \in BOOLEAN :
        /\ dead => status = "failed"
        /\ ledger' = (ledger \ {e}) \cup {[e EXCEPT !.status = status, !.dead = dead]}
    /\ UNCHANGED clock

\* The item is deleted, and its attempts with it
Forget(i) ==
    /\ ledger' = {e \in ledger : e.item # i}
    /\ UNCHANGED clock

Pass ==
    /\ clock' = clock + 1
    /\ UNCHANGED ledger

Next ==
    \/ \E i \in Items, h \in Payloads : Open(i, h)
    \/ \E e \in ledger : Settle(e)
    \/ \E i \in Items : Forget(i)
    \/ Pass

Spec == Init /\ [][Next]_<<ledger, clock>>
=============================================================================
