------------------------------ MODULE TargetMC ------------------------------
(* Small instances of Target for TLC. *)
EXTENDS Target
=============================================================================
