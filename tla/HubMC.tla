------------------------------- MODULE HubMC -------------------------------
(* Small instances of Hub for TLC. *)
EXTENDS Hub
=============================================================================
