--------------------------- MODULE MCRateLimiter ----------------------------
(* Two routes with limits of their own over one key.                         *)
EXTENDS RateLimiter

CONSTANTS mcp, download

TwoLimits == [route \in Route |-> IF route = mcp THEN 3 ELSE 2]
=============================================================================
