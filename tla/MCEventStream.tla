----------------------------- MODULE MCEventStream -----------------------------
(* Instances of EventStream for TLC; the configurations give the constants. *)
EXTENDS EventStream, TLC

\* Clients are interchangeable: no action or safety property names one.
ClientSymmetry == Permutations(Client)
=============================================================================
