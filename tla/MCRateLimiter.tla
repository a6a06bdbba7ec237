----------------------------- MODULE MCRateLimiter -----------------------------
(* Small instances of RateLimiter for TLC. *)
EXTENDS RateLimiter, TLC

CONSTANTS g1, g2

InStep == [g \in Gateways |-> 0]
Ahead == (g1 :> 0) @@ (g2 :> 1)

Symmetry == Permutations(Calls)
=============================================================================
