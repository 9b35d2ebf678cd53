--------------------------- MODULE RateLimiterMC ---------------------------
(* Small instances of RateLimiter for TLC. *)
EXTENDS RateLimiter
=============================================================================
