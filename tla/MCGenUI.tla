-------------------------------- MODULE MCGenUI --------------------------------
(* Small instances of GenUI: the values of the constants are in the cfgs. *)
EXTENDS GenUI, TLC

ToolSymmetry == Permutations(Tool)
=============================================================================
