------------------------------- MODULE FeedMC -------------------------------
(* Small instances of Feed for TLC. *)
EXTENDS Feed
=============================================================================
