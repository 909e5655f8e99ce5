------------------------------ MODULE QueryCache ------------------------------
(***************************************************************************)
(* An entry of the browser's query cache (TanStack Query): what is known of a       *)
(* resource, and the request for it under way.  untold says that the known data     *)
(* changed without the browser hearing of it, met that the data under way did.      *)
(***************************************************************************)

NoEntry(d) ==
    [st |-> "none", known |-> FALSE, seen |-> d, stale |-> FALSE, untold |-> FALSE,
     call |-> "none", coming |-> d, met |-> FALSE]

\* A request, of refetch, a retry button or a component that mounts
Asked(b) == IF b.call = "none" THEN [b EXCEPT !.call = "sent"] ELSE b

\* A component that uses it mounts: fetched when unknown or invalidated, or by its age
Mounted(b) == {Asked(b)} \cup (IF b.known /\ ~b.stale THEN {b} ELSE {})

\* invalidateQueries: fetched again when a component uses it, and then a request under way is
\* cancelled, unless it is the first one
Invalidated(b, used, d) ==
    LET again == used /\ (b.known \/ b.st = "error") IN
    CASE ~b.known /\ b.st = "none" /\ b.call = "none" -> b
      [] again /\ b.known -> [b EXCEPT !.stale = TRUE, !.call = "sent", !.coming = d, !.met = FALSE]
      [] again /\ ~b.known -> Asked([b EXCEPT !.stale = TRUE])
      [] OTHER -> [b EXCEPT !.stale = TRUE]

\* setQueryData: a request under way goes on
Stored(b, d, late) ==
    [b EXCEPT !.st = "ok", !.known = TRUE, !.seen = d, !.stale = FALSE, !.untold = late]

\* The server reads it, and the answer comes or does not
Served(b, d) == [b EXCEPT !.call = "read", !.coming = d, !.met = FALSE]
Arrived(b, d) == [NoEntry(d) EXCEPT !.st = "ok", !.known = TRUE, !.seen = b.coming, !.untold = b.met]
Failed(b, d) == [b EXCEPT !.st = "error", !.call = "none", !.coming = d, !.met = FALSE]

\* The resource changes; the browser will be told, or not
ChangedHere(b) == [b EXCEPT !.met = (b.call = "read") \/ @]
ChangedUntold(b) == [ChangedHere(b) EXCEPT !.untold = TRUE]
===============================================================================
