---------------------------- MODULE MCThreadPool ----------------------------
(* Small instances of ThreadPool for TLC. *)
EXTENDS ThreadPoolProperties, TLC

CONSTANTS w1, w2, t1, t2

TwoInitial == {w1, w2}

\* HIGH_P and LOW_P.
TaskRank == [t \in Tasks |-> IF t = t1 THEN 1 ELSE 3]

\* An uninitialised int, negative or large.
Uninitialised == {-1, 2}

=============================================================================
