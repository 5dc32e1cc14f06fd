-------------------------------- MODULE MCPnp --------------------------------
(* Small instances of PlugAndPlay for TLC. *)
EXTENDS PnpProperties, TLC

CONSTANTS l1, l2, f1, f2, f3

=============================================================================
