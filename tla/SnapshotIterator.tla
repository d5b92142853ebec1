-------------------------- MODULE SnapshotIterator --------------------------
(***************************************************************************)
(* What an iterator of the database promises: a cursor over the keys that  *)
(* its snapshot sees, in order, whatever is written meanwhile.             *)
(***************************************************************************)
EXTENDS Naturals, FiniteSets, FiniteSetsExt

CONSTANT Keys       \* a set of positive numbers

VARIABLES
    view,           \* the value of each key in the snapshot, 0 for none
    at,             \* the key and value the cursor shows, 0 and 0 when invalid
    pending         \* the operation that was called, and its argument

vars == <<view, at, pending>>

NoOperation == [op |-> "none", key |-> 0]

Operations ==
    {[op |-> op, key |-> 0] : op \in {"first", "last", "next", "prev"}}
        \cup {[op |-> "seek", key |-> k] : k \in Keys}

Visible == {k \in Keys : view[k] # 0}

\* The keys an operation chooses from; it takes the nearest.
Candidates(c) ==
    CASE c.op = "seek" -> {k \in Visible : k >= c.key}
      [] c.op = "next" -> {k \in Visible : k > at.key}
      [] c.op = "prev" -> {k \in Visible : k < at.key}
      [] OTHER -> Visible

Nearest(c) == IF c.op \in {"last", "prev"} THEN Max(Candidates(c)) ELSE Min(Candidates(c))

Result(c) == IF Candidates(c) = {} THEN [key |-> 0, value |-> 0]
             ELSE [key |-> Nearest(c), value |-> view[Nearest(c)]]

Init == at = [key |-> 0, value |-> 0] /\ pending = NoOperation

\* Next and Prev need a cursor that is valid.
Call ==
    /\ pending = NoOperation
    /\ \E c \in Operations : (c.op \in {"next", "prev"} => at.key # 0) /\ pending' = c
    /\ UNCHANGED <<view, at>>

Return ==
    /\ pending # NoOperation
    /\ at' = Result(pending)
    /\ pending' = NoOperation
    /\ UNCHANGED view

CursorSpec == Init /\ [][Call \/ Return]_vars
=============================================================================
