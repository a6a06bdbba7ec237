----------------------------- MODULE MCDeployment -----------------------------
(* Model values for checking Deployment. *)
EXTENDS Deployment

CONSTANTS gateway, operator, request, reload

MCRunners == {gateway, operator}
MCRequests == {request}
=============================================================================
