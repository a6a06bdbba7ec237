------------------------------- MODULE Deployment -------------------------------
(***************************************************************************)
(* A gateway in its container, and PostgreSQL: the command of the          *)
(* container runs the migrations and then the server, the platform starts  *)
(* it again when it fails, and operators run migrations of their own.      *)
(* The repository names two platforms: docker-compose starts a failed      *)
(* container again without end, Railway gives it up after some retries.    *)
(*                                                                         *)
(* Composes Migrations and GatewayProcess, which share Postgres.            *)
(* Sources besides theirs: docker/Dockerfile, docker-compose.yml,          *)
(* railway.toml.                                                           *)
(***************************************************************************)
EXTENDS Migrations, GatewayProcess

CONSTANT Gateway   \* the runner in the gateway's container

ASSUME DeploymentAssumption == Gateway \in Runners

\* Runners started by hand.
Operators == Runners \ {Gateway}

vars == <<database, published, migrationVars, processVars>>

TypeOK == PostgresTypeOK /\ MigrationsTypeOK /\ ProcessTypeOK

-----------------------------------------------------------------------------
(* The container *)

\* The container starts, anew by hand or after a failure: the first command.
Boot ==
    /\ phase = "off"
    /\ runner[Gateway].step = "off"
    /\ Launch(Gateway)
    /\ UNCHANGED <<database, published, processVars>>

\* Variant of Serve: `;' in place of `&&'.
ServeRegardless ==
    /\ runner[Gateway].step \in {"done", "failed"}
    /\ Start
    /\ UNCHANGED <<database, published, migrationVars>>

\* `&&': the server starts when the migrations have ended well.
Serve ==
    /\ runner[Gateway].step = "done"
    /\ Start
    /\ UNCHANGED <<database, published, migrationVars>>

\* ... and the container fails when they have not.
MigrationFails ==
    /\ phase = "off"
    /\ runner[Gateway].step = "failed"
    /\ Ends("failure")
    /\ UNCHANGED <<database, published, migrationVars, redis>>

\* The container is killed, migrations included.
Interrupt ==
    /\ runner[Gateway].step # "off"
    /\ Killed
    /\ runner' = [runner EXCEPT ![Gateway] = NotRunning]
    /\ UNCHANGED <<database, published, ledgerExists, ledger, schema>>

\* The container starts from the beginning.
ReturnsTo ==
    /\ phase = "exited"
    /\ phase' = "off"
    /\ exit' = "none"
    /\ runner' = [runner EXCEPT ![Gateway] = NotRunning]
    /\ UNCHANGED <<database, published, ledgerExists, ledger, schema, redis, shutdowns,
                   timer, loaded, client, ping, lost>>

\* A container that failed is started again: `unless-stopped' in docker-compose.yml,
\* ON_FAILURE in railway.toml.
RestartPolicy == exit = "failure" /\ ReturnsTo

\* restartPolicyMaxRetries = 3 in railway.toml: one of the failures is the last.
\* Which one is left open; in docker-compose.yml none is.
GivesUp ==
    /\ exit = "failure"
    /\ exit' = "abandoned"
    /\ UNCHANGED <<database, published, migrationVars, redis, phase, shutdowns, timer,
                   loaded, client, ping, lost>>

\* An operator starts one that was stopped, or that the platform has given up.
Redeploy == exit # "failure" /\ ReturnsTo

-----------------------------------------------------------------------------
(* PostgreSQL *)

DatabaseStops ==
    /\ database # "down"
    /\ database' = "down"
    /\ LoseConnections
    /\ ConnectionsBreak
    /\ UNCHANGED <<published>>

DatabaseStarts ==
    /\ database = "down"
    /\ database' = "up"
    /\ UNCHANGED <<published, migrationVars, processVars>>

\* PostgreSQL answers nobody, and then again: the statements it holds go on.
DatabaseHangs ==
    /\ database = "up"
    /\ database' = "silent"
    /\ UNCHANGED <<published, migrationVars, processVars>>

DatabaseAnswers ==
    /\ database = "silent"
    /\ database' = "up"
    /\ UNCHANGED <<published, migrationVars, processVars>>

\* The first bump() of an admin request, of this gateway or of another.
Publish ==
    /\ database = "up" /\ Complete
    /\ ~published
    /\ published' = TRUE
    /\ UNCHANGED <<database, migrationVars, processVars>>

-----------------------------------------------------------------------------
(* Specification *)

Init ==
    /\ PostgresInit
    /\ MigrationsInit
    /\ ProcessInit

Migrate(r) ==
    RunnerStep(r) /\ UNCHANGED <<database, published, processVars>>

\* npm run db:migrate, at any time, and what may befall it.
Operate(r) ==
    /\ Launch(r) \/ Kill(r)
    /\ UNCHANGED <<database, published, processVars>>

Process(Step) ==
    Step /\ UNCHANGED <<database, published, migrationVars>>

Next ==
    \/ Boot \/ Serve \/ MigrationFails \/ Interrupt \/ RestartPolicy \/ GivesUp \/ Redeploy
    \/ DatabaseStops \/ DatabaseStarts \/ DatabaseHangs \/ DatabaseAnswers \/ Publish
    \/ \E r \in Runners : Migrate(r)
    \/ \E r \in Operators : Operate(r)
    \/ Process(ProcessStep)

Spec == Init /\ [][Next]_vars

\* The container runs its command, and is restarted or given up when it fails;
\* PostgreSQL and Redis answer or refuse while they are not silent; a pool gives
\* up connecting (connectionTimeoutMillis) but not a query; the interval fires.
\* Nothing is assumed of clients, of operators or of signals, no server has to
\* come back or to break its silence, and nothing need ever be published.
Fairness ==
    /\ WF_vars(Boot) /\ WF_vars(Serve) /\ WF_vars(MigrationFails) /\ WF_vars(RestartPolicy)
    /\ \A r \in Runners : SF_vars(Migrate(r))
    /\ WF_vars(Process(RedisSettles \/ BootTimesOut)) /\ WF_vars(Process(Ready))
    /\ \A u \in Borrowers :
        /\ WF_vars(Process(Acquire(u) \/ AcquireFails(u)))
        /\ WF_vars(Process(Answered(u)))
    /\ \A c \in Requests : WF_vars(Process(PingSettles(c))) /\ WF_vars(Process(Reply(c)))
    /\ WF_vars(Process(BeginReload)) /\ WF_vars(Process(EndReload))
    /\ WF_vars(Process(Drained)) /\ WF_vars(Process(RedisQuits)) /\ WF_vars(Process(PoolEnds))

FairSpec == Spec /\ Fairness

-----------------------------------------------------------------------------
(* Properties *)

\* The gateway never serves over a schema that lacks a migration, whoever else
\* migrates, fails or is killed meanwhile, and although a runner that loses a
\* race gives up half way.
ServesCompleteSchema == Running => Complete

\* Unless it is stopped, or Railway gives it up after its retries, the gateway
\* comes to serve and goes on serving once PostgreSQL stays up and Redis answers
\* or refuses: every cause for which the container exits by itself goes away with
\* a restart.
ServesInTheEnd ==
    <>[](/\ database = "up" /\ redis # "silent"
         /\ shutdowns = 0 /\ exit \notin {"success", "killed", "abandoned"})
        => <>[](phase = "serving")

=============================================================================
