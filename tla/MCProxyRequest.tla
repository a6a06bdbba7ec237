---------------------------- MODULE MCProxyRequest ----------------------------
(* Model values for checking ProxyRequest. *)
EXTENDS ProxyRequest

CONSTANTS r1, r2

MCTwoRequests == {r1, r2}
=============================================================================
