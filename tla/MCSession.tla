------------------------------- MODULE MCSession -------------------------------
(* Instances of Session for TLC; the configurations give the constants. *)
EXTENDS Session, TLC

\* Messages, interrupts and tool calls are interchangeable among themselves.
RequestSymmetry == Permutations(Msg) \cup Permutations(Tool)
=============================================================================
