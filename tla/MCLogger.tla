------------------------------ MODULE MCLogger ------------------------------
(* Small instances of Logger for TLC. *)
EXTENDS LoggerProperties, TLC

CONSTANTS c1, c2, m1, m2, m3

\* The levels of the model: DEBUG and ERROR.
TwoLevels == {0, 3}

MessageLevel == [m \in Msgs |-> IF m = m1 THEN 0 ELSE 3]

=============================================================================
