--------------------------- MODULE MCRateLimiter ---------------------------
(* RateLimiter on three requests, one of which carries a signal.  A second  *)
(* is two ticks and a bucket holds two vectors; a request carries one, or   *)
(* four; the request budget lets one request go a second.                   *)
EXTENDS RateLimiter

=============================================================================
