---------------------------- MODULE MCTimedQueue ----------------------------
(* A small instance of TimedQueue for TLC. *)
EXTENDS TimedQueue

CONSTANTS c1, c2, c3, c4, t1, t2

TaskRank == [t \in Tasks |-> IF t = t1 THEN 1 ELSE 3]

=============================================================================
