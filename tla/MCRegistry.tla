------------------------------- MODULE MCRegistry -------------------------------
(* Instances of Registry for TLC; the configurations give the constants. *)
EXTENDS Registry, TLC

\* Requests and session ids are interchangeable among themselves.
RegistrySymmetry == Permutations(Op) \cup Permutations(Sid)
=============================================================================
