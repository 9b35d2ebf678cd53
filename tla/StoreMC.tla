------------------------------ MODULE StoreMC ------------------------------
(* Small instances of Store for TLC. *)
EXTENDS Store
=============================================================================
