--------------------------- MODULE MCRateLimiter ---------------------------
(***************************************************************************)
(* A small instance of RateLimiter: a burst of two requests, each worth    *)
(* two ticks, so that buckets hold fractions of a request.                 *)
(***************************************************************************)
EXTENDS RateLimiter
=============================================================================
