------------------------------- MODULE MCBoard -------------------------------
(***************************************************************************)
(* Board for TLC: three tasks, the messages the aggregators compose.       *)
(***************************************************************************)
EXTENDS Board

CONSTANTS t1, t2, t3

\* Two of the wanted priorities are the same.
MCTwoHigh == [t \in Tasks |-> IF t = t1 THEN "critical" ELSE "high"]

MCStatuses == {"todo", "in_progress", "done"}

MCPlans == {<<"snapshot", "active", "backlog">>, <<"summary", "completed", "backlog">>}
=============================================================================
