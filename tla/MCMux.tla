-------------------------------- MODULE MCMux ---------------------------------
(* Small instances of MuxClient: the values of the constants are in the cfgs. *)
EXTENDS MuxClient, TLC

MuxSymmetry == Permutations(Call) \cup Permutations(Text)
=============================================================================
