----------------------------- MODULE CachedCell -----------------------------
(***************************************************************************)
(* The contract of one cache cell, as the design states it (data model,   *)
(* "Cache cell", and the tri-state cache of section 4.1): Absent(prev),    *)
(* Refreshing(prev), Filled(value).  A miss issues one request and moves   *)
(* the cell to Refreshing; the answer fills it; invalidation demotes       *)
(* Filled or Refreshing to Absent and keeps the last value as prev.        *)
(* pending counts the requests for the cell still in flight: only a miss  *)
(* adds one, and only an answer takes one away, by filling the cell or, *)
(* for an answer of the wrong variant, by being logged and dropped.        *)
(***************************************************************************)
EXTENDS Naturals

CONSTANTS
    Values,   \* the payloads the cell may hold
    None      \* no previous value

VARIABLES st, val, pending

\* fetch_if_needed on a miss: one request is issued.
Issue ==
    /\ st = "Absent"
    /\ st' = "Refreshing"
    /\ pending' = pending + 1
    /\ UNCHANGED val

\* The answer to an outstanding request becomes the current value.
Fill ==
    /\ st = "Refreshing"
    /\ pending > 0
    /\ st' = "Filled"
    /\ val' \in Values
    /\ pending' = pending - 1

\* An answer of the wrong variant is dropped; the cell is left as it is.
Drop ==
    /\ pending > 0
    /\ pending' = pending - 1
    /\ UNCHANGED <<st, val>>

\* invalidate(): back to Absent, the last value kept as prev.
Invalidate ==
    /\ st \in {"Filled", "Refreshing"}
    /\ st' = "Absent"
    /\ UNCHANGED <<val, pending>>

Init == st = "Absent" /\ val = None /\ pending = 0

Next == Issue \/ Fill \/ Drop \/ Invalidate

Spec == Init /\ [][Next]_<<st, val, pending>>

=============================================================================
