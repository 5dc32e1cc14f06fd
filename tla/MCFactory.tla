------------------------------ MODULE MCFactory ------------------------------
(* Small instances of SharedFactory for TLC. *)
EXTENDS SharedFactoryProperties, TLC

CONSTANTS th1, th2, th3

=============================================================================
