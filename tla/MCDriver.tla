------------------------------ MODULE MCDriver ------------------------------
(* Small instances of NbdDriver for TLC. *)
EXTENDS DriverProperties, TLC

=============================================================================
