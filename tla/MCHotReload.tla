----------------------------- MODULE MCHotReload -----------------------------
(* Model values for checking HotReload. *)
EXTENDS HotReload

CONSTANTS a1, a2, g1, l1, l2

MCTwoAdmins == {a1, a2}
MCOneGateway == {g1}
MCOneLoad == {l1}
MCTwoLoads == {l1, l2}

\* Deleting a route changes both tables; the other changes touch one.
MCRouteDeletes == {{"routes", "policies"}}
MCAllChanges == MCRouteDeletes \cup {{"routes"}, {"policies"}}
=============================================================================
