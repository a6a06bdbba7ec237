------------------------------- MODULE Migrations -------------------------------
(***************************************************************************)
(* The migration script: every start of the gateway runs it first, and     *)
(* operators run it by hand, so that several runners may work on one       *)
(* database. None of them holds a lock over more than one migration.       *)
(*                                                                         *)
(* Source: scripts/migrate.ts. PostgreSQL keeps statements of one          *)
(* migration apart (locks on the relations and the primary key of          *)
(* schema_migrations) and rolls back what a lost connection left open.     *)
(* The SQL of a migration is its version. BEGIN is part of the statement   *)
(* after it.                                                               *)
(***************************************************************************)
EXTENDS Postgres, Integers, Sequences, FiniteSets, Functions

CONSTANTS
    Runners,      \* processes that run the script
    LastVersion   \* version of the last entry of `migrations'

ASSUME MigrationsAssumption == LastVersion \in Nat /\ LastVersion >= 2

VARIABLES
    ledgerExists,  \* whether the table schema_migrations exists
    ledger,        \* the versions it records, in the order of their commits
    schema,        \* the versions whose SQL is in effect
    runner         \* runner[r]: progress of runMigrations()

migrationVars == <<ledgerExists, ledger, schema, runner>>

\* Version 1 creates the ledger and is never recorded in it.
Versions == 2 .. LastVersion

Steps == {"off", "creating", "checking", "applying", "recording", "committing", "done", "failed"}

Runner ==
    [step : Steps,
     version : Versions,
     found : BOOLEAN]   \* while it creates: schema_migrations existed when it connected

MigrationsTypeOK ==
    /\ ledgerExists \in BOOLEAN
    /\ ledger \in Seq(Versions)
    /\ schema \subseteq Versions
    /\ runner \in [Runners -> Runner]

\* A runner outside of the loop.
Ended(how) == [step |-> how, version |-> 2, found |-> FALSE]

NotRunning == Ended("off")

MigrationsInit ==
    /\ ledgerExists = FALSE
    /\ ledger = <<>>
    /\ schema = {}
    /\ runner = [r \in Runners |-> NotRunning]

-----------------------------------------------------------------------------
(* Progress of a runner *)

At(r, step) == runner[r].step = step

Move(r, step) == runner' = [runner EXCEPT ![r].step = step]

\* An error anywhere ends the script with exit code 1.
Fail(r) == runner' = [runner EXCEPT ![r] = Ended("failed")]

Active(r) == runner[r].step \notin {"off", "done", "failed"}

\* `continue', or the end of the loop.
NextVersion(r) ==
    runner' = [runner EXCEPT ![r] =
        IF @.version < LastVersion
        THEN [step |-> "checking", version |-> @.version + 1, found |-> FALSE]
        ELSE Ended("done")]

\* The transaction of a migration is open, its SQL executed.
InTransaction(r) == runner[r].step \in {"recording", "committing"}

-----------------------------------------------------------------------------
(* Actions *)

\* pool.connect(); refused, the script ends. This pool has no
\* connectionTimeoutMillis: it waits for a server that is silent.
Launch(r) ==
    /\ ~Active(r)
    /\ runner' = [runner EXCEPT ![r] =
           [step |-> IF database = "down" THEN "failed" ELSE "creating",
            version |-> 2,
            found |-> ledgerExists]]
    /\ UNCHANGED <<ledgerExists, ledger, schema>>

\* Variant of CreateLedger: CREATE TABLE without IF NOT EXISTS.
CreateLedgerStrictly(r) ==
    /\ At(r, "creating")
    /\ ledgerExists' = TRUE
    /\ IF ledgerExists THEN Fail(r) ELSE Move(r, "checking")
    /\ UNCHANGED <<ledger, schema>>

\* CREATE TABLE IF NOT EXISTS schema_migrations. Of two that find no table
\* only one creates it; the other may collide with it in the catalogue.
CreateLedger(r) ==
    /\ At(r, "creating")
    /\ ledgerExists' = TRUE
    /\ \/ runner' = [runner EXCEPT ![r].step = "checking", ![r].found = FALSE]
       \/ ledgerExists /\ ~runner[r].found /\ Fail(r)
    /\ UNCHANGED <<ledger, schema>>

\* SELECT version FROM schema_migrations.
CheckVersion(r) ==
    /\ At(r, "checking")
    /\ IF runner[r].version \in Range(ledger) THEN NextVersion(r) ELSE Move(r, "applying")
    /\ UNCHANGED <<ledgerExists, ledger, schema>>

\* Variant of Apply: no BEGIN, every statement commits by itself.
ApplyOutsideTransaction(r) ==
    /\ At(r, "applying")
    /\ schema' = schema \cup {runner[r].version}
    /\ Move(r, "recording")
    /\ UNCHANGED <<ledgerExists, ledger>>

\* BEGIN and the SQL of the migration, which waits for another runner that has
\* executed the same. Once that one has committed, the SQL finds everything in
\* place or collides in the catalogue.
Apply(r) ==
    /\ At(r, "applying")
    /\ \A other \in Runners :
           ~(InTransaction(other) /\ runner[other].version = runner[r].version)
    /\ \/ Move(r, "recording")
       \/ runner[r].version \in schema /\ Fail(r)
    /\ UNCHANGED <<ledgerExists, ledger, schema>>

\* INSERT INTO schema_migrations: the primary key rejects what is there
\* already, and the transaction is rolled back.
Record(r) ==
    /\ At(r, "recording")
    /\ IF runner[r].version \in Range(ledger) THEN Fail(r) ELSE Move(r, "committing")
    /\ UNCHANGED <<ledgerExists, ledger, schema>>

\* The effect of a COMMIT.
Committed(r) ==
    /\ ledger' = Append(ledger, runner[r].version)
    /\ schema' = schema \cup {runner[r].version}

Commit(r) ==
    /\ At(r, "committing")
    /\ Committed(r)
    /\ NextVersion(r)
    /\ UNCHANGED ledgerExists

\* The process is killed; PostgreSQL rolls back.
Kill(r) ==
    /\ Active(r)
    /\ Fail(r)
    /\ UNCHANGED <<ledgerExists, ledger, schema>>

\* PostgreSQL stops: every runner fails; a COMMIT under way may be in effect.
LoseConnections ==
    /\ \/ UNCHANGED <<ledger, schema>>
       \/ \E r \in Runners : At(r, "committing") /\ Committed(r)
    /\ runner' = [r \in Runners |->
           IF Active(r) THEN Ended("failed") ELSE runner[r]]
    /\ UNCHANGED ledgerExists

\* A runner goes on when its statement is answered.
RunnerStep(r) ==
    /\ database # "silent"
    /\ CreateLedger(r) \/ CheckVersion(r) \/ Apply(r) \/ Record(r) \/ Commit(r)

-----------------------------------------------------------------------------
(* Properties *)

\* "Each migration is versioned and idempotent ... applied in order" (migrate.ts):
\* whatever runners race, fail or are killed, versions are recorded once each
\* and without a gap, and a migration is in effect exactly if it is recorded, so
\* that no rerun skips or repeats one that was cut off before its INSERT.
LedgerIsTrue ==
    /\ \A i \in 1 .. Len(ledger) : ledger[i] = i + 1
    /\ schema = Range(ledger)

\* A runner that ends well leaves the whole schema behind.
Complete == schema = Versions

=============================================================================
