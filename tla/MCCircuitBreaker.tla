--------------------------- MODULE MCCircuitBreaker ---------------------------
(* Model values for checking CircuitBreaker. *)
EXTENDS CircuitBreaker

CONSTANTS c1, c2, c3

MCThreeCalls == {c1, c2, c3}
=============================================================================
