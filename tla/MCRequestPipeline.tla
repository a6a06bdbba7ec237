--------------------------- MODULE MCRequestPipeline ---------------------------
(* Model values and configs for checking RequestPipeline. *)
EXTENDS RequestPipeline

CONSTANTS r1, r2, orders, reports, u1, u2

MCRequests == {r1, r2}
MCRoutes == {orders, reports}
MCUpstreams == {u1, u2}

\* A public cached route; the same after its upstream moved; a longer prefix
\* registered for the same URL, with authentication; no route at all.
MCConfigs ==
    {[route |-> orders, upstream |-> u1, authRequired |-> FALSE, caching |-> TRUE],
     [route |-> orders, upstream |-> u2, authRequired |-> FALSE, caching |-> TRUE],
     [route |-> reports, upstream |-> u2, authRequired |-> TRUE, caching |-> TRUE],
     [route |-> NoRoute, upstream |-> u1, authRequired |-> FALSE, caching |-> FALSE]}
=============================================================================
