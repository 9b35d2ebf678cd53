----------------------------- MODULE WsClientMC -----------------------------
(* Small instances of WsClient for TLC. *)
EXTENDS WsClient
=============================================================================
