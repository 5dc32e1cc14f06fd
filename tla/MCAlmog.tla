------------------------------- MODULE MCAlmog -------------------------------
(* Small instances of AlmogPool for TLC. *)
EXTENDS AlmogProperties, TLC

CONSTANTS w1, w2, t1, s1, s2, k1, k2

\* MASTER_P, and HIGH_P for the user's task.
TaskRank == [t \in Tasks |-> IF t \in Waits \cup Wakes THEN 0 ELSE 1]

=============================================================================
