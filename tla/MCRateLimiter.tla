--------------------------- MODULE MCRateLimiter ---------------------------
(* Instances of RateLimiter for TLC. *)
EXTENDS RateLimiter, TLC

CONSTANTS ip1, ip2      \* clients

(* Clients are only compared for equality.                                 *)
Symmetry == Permutations(Clients)

=============================================================================
