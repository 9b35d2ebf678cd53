----------------------------- MODULE PipelineMC -----------------------------
(* Small instances of Pipeline for TLC. *)
EXTENDS Pipeline
=============================================================================
