--------------------------------- MODULE Postgres ---------------------------------
(***************************************************************************)
(* PostgreSQL as its clients see it: it answers, it refuses connections,   *)
(* or it keeps them and is silent (a dead host, a lock that is never       *)
(* released). And one fact about its contents.                             *)
(***************************************************************************)

VARIABLES
    database,   \* "up", "down" or "silent"
    published   \* whether config_versions has a row; no migration inserts one

PostgresTypeOK == database \in {"up", "down", "silent"} /\ published \in BOOLEAN

PostgresInit == database = "up" /\ published = FALSE

=============================================================================
