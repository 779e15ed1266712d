------------------------------- MODULE MCTasks -------------------------------
(* Small instances of Tasks: three tasks, of which a queues b. *)
EXTENDS Tasks

CONSTANTS a, b, d, w1, w2, w3

MCTask == {a, b, d}

\* a queues b, the others queue nothing.
OneChild == [t \in MCTask |-> IF t = a THEN b ELSE NoTask]

NoChild == [t \in MCTask |-> NoTask]
=============================================================================
