------------------------------- MODULE MCNetwork -------------------------------
(* A small instance of NetworkAccess. *)
EXTENDS NetworkAccess
===============================================================================
