-------------------------------- MODULE MCClient --------------------------------
(* Small instances of ClientStream: the values of the constants are in the cfgs. *)
EXTENDS ClientStream, TLC
=============================================================================
