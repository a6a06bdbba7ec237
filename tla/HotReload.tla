------------------------------- MODULE HotReload -------------------------------
(***************************************************************************)
(* Config hot reload: admin requests change routes and policies in         *)
(* PostgreSQL and then bump the config version; every gateway process      *)
(* polls the version and reloads its in-memory config when it advanced.    *)
(*                                                                         *)
(* Sources: services/router/config-cache.ts,                               *)
(* repositories/config-version.repository.ts, the mutating handlers of     *)
(* controllers/*.ts and the onReady / onClose hooks of app.ts.             *)
(*                                                                         *)
(* What routes and policies contain is abstracted to which mutations they  *)
(* reflect: `mutations' is the log of committed changes, and the content   *)
(* of a table read by a query is identified by the length of the log at    *)
(* the moment PostgreSQL evaluated the query.                              *)
(***************************************************************************)
EXTENDS Integers, Sequences, FiniteSets

CONSTANTS
    Admins,        \* admin requests that may be in progress together
    ChangeKinds,   \* what one admin request may change, each a set of tables
    Gateways,      \* gateway processes
    Loads,         \* reload slots of one process: timer ticks that may overlap
    MaxMutations,  \* bound on the number of committed changes
    MaxFaults      \* bound on failed queries, failed bumps and process exits

Tables == {"routes", "policies"}

ASSUME HotReloadAssumption ==
    /\ ChangeKinds \subseteq SUBSET Tables
    /\ MaxMutations \in Nat
    /\ MaxFaults \in Nat
    /\ Loads # {}

VARIABLES
    mutations,       \* log of committed changes, each the set of tables it touched
    configVersions,  \* rows of config_versions, tagged with the change they publish
    admin,           \* admin[a]: progress of the admin request in slot a
    phase,           \* phase[g]: life cycle of the process
    cache,           \* cache[g]: the CachedConfig singleton of the process
    load,            \* load[g][l]: a checkAndReload / loadConfig in flight
    faults           \* number of faults so far

vars == <<mutations, configVersions, admin, phase, cache, load, faults>>

-----------------------------------------------------------------------------
(* The configuration tables as one process reads them. *)

Queries == Tables \cup {"version"}

Committed == Len(mutations)

VersionsInTable == {row.version : row \in configVersions}

\* SELECT * FROM config_versions ORDER BY version DESC LIMIT 1, with the
\* callers' `latest?.version ?? 0'.
IsLatest(v) ==
    /\ v \in VersionsInTable \cup {0}
    /\ \A w \in VersionsInTable : w <= v

LatestVersion == CHOOSE v \in VersionsInTable \cup {0} : IsLatest(v)

-----------------------------------------------------------------------------
(* Types *)

AdminState ==
    [pc : {"idle", "mutated", "read"}, mutation : Nat, latest : Nat]

\* routesAt and policiesAt stand for the contents of `routes' and `policies';
\* versionAt records when `version' was read, which the code does not know.
CachedConfig ==
    [routesAt : Nat, policiesAt : Nat, version : Nat, versionAt : Nat]

\* latest is the answer checkAndReload compares; answered is the set of the
\* three queries of loadConfig that have come back.
LoadState ==
    [pc : {"free", "checked", "loading"}, latest : Nat,
     answered : SUBSET Queries, result : CachedConfig]

EmptyConfig == [routesAt |-> 0, policiesAt |-> 0, version |-> 0, versionAt |-> 0]

IdleAdmin == [pc |-> "idle", mutation |-> 0, latest |-> 0]

FreeLoad == [pc |-> "free", latest |-> 0, answered |-> {}, result |-> EmptyConfig]

StartedLoad == [FreeLoad EXCEPT !.pc = "loading"]

TypeOK ==
    /\ mutations \in Seq(ChangeKinds)
    /\ configVersions \subseteq [version : Nat, mutation : Nat]
    /\ admin \in [Admins -> AdminState]
    /\ phase \in [Gateways -> {"down", "booting", "ready"}]
    /\ cache \in [Gateways -> CachedConfig]
    /\ load \in [Gateways -> [Loads -> LoadState]]
    /\ faults \in Nat

-----------------------------------------------------------------------------
(* Admin requests: createRoute, updateRoute, deleteRoute, createPolicy and
   deletePolicy all commit their change, then call bump(), which reads the
   latest version and inserts the next one in a separate statement. Route
   changes touch {"routes"}, policy changes {"policies"}, and deleting a route
   touches both (ON DELETE CASCADE).                                         *)

dbVars == <<mutations, configVersions>>
gatewayVars == <<phase, cache, load>>

Mutate(a) ==
    /\ admin[a].pc = "idle"
    /\ Committed < MaxMutations
    /\ \E change \in ChangeKinds : mutations' = Append(mutations, change)
    /\ admin' = [admin EXCEPT ![a] =
           [pc |-> "mutated", mutation |-> Committed + 1, latest |-> 0]]
    /\ UNCHANGED <<configVersions, gatewayVars, faults>>

BumpReadLatest(a) ==
    /\ admin[a].pc = "mutated"
    /\ \E v \in VersionsInTable \cup {0} :
           /\ IsLatest(v)
           /\ admin' = [admin EXCEPT ![a] =
                  [pc |-> "read", mutation |-> admin[a].mutation, latest |-> v]]
    /\ UNCHANGED <<dbVars, gatewayVars, faults>>

\* Variant of BumpInsert: the version is drawn from a serial shared with failed
\* requests instead of being the successor of the latest one.
BumpInsertSerial(a) ==
    /\ admin[a].pc = "read"
    /\ configVersions' = configVersions \cup
           {[version |-> admin[a].mutation, mutation |-> admin[a].mutation]}
    /\ admin' = [admin EXCEPT ![a] = IdleAdmin]
    /\ UNCHANGED <<mutations, gatewayVars, faults>>

BumpInsert(a) ==
    /\ admin[a].pc = "read"
    /\ configVersions' = configVersions \cup
           {[version |-> admin[a].latest + 1, mutation |-> admin[a].mutation]}
    /\ admin' = [admin EXCEPT ![a] = IdleAdmin]
    /\ UNCHANGED <<mutations, gatewayVars, faults>>

\* The change is committed, but a query of bump() fails or the process dies:
\* there is no transaction, so the change stays without a version of its own.
BumpFails(a) ==
    /\ admin[a].pc \in {"mutated", "read"}
    /\ faults < MaxFaults
    /\ faults' = faults + 1
    /\ admin' = [admin EXCEPT ![a] = IdleAdmin]
    /\ UNCHANGED <<dbVars, gatewayVars>>

-----------------------------------------------------------------------------
(* Gateway processes *)

adminVars == <<mutations, configVersions, admin>>

\* The process starts; onReady awaits a first loadConfig() before it starts the
\* timer, and the process listens only after that.
Boot(g) ==
    /\ phase[g] = "down"
    /\ phase' = [phase EXCEPT ![g] = "booting"]
    /\ \E l \in Loads : load' = [load EXCEPT ![g][l] = StartedLoad]
    /\ UNCHANGED <<adminVars, cache, faults>>

\* A timer tick calls checkAndReload(), whatever earlier ticks are still
\* waiting for: its getLatest() is evaluated here.
Tick(g, l) ==
    /\ phase[g] = "ready"
    /\ load[g][l].pc = "free"
    /\ \E v \in VersionsInTable \cup {0} :
           /\ IsLatest(v)
           /\ load' = [load EXCEPT ![g][l] =
                  [FreeLoad EXCEPT !.pc = "checked", !.latest = v]]
    /\ UNCHANGED <<adminVars, phase, cache, faults>>

\* Variant of CheckVersion: reload only for the very next version.
CheckNextVersion(g, l) ==
    /\ load[g][l].pc = "checked"
    /\ load' = [load EXCEPT ![g][l] =
           IF load[g][l].latest = cache[g].version + 1 THEN StartedLoad ELSE FreeLoad]
    /\ UNCHANGED <<adminVars, phase, cache, faults>>

\* The answer of getLatest() reaches the process, which compares it with the
\* version cached now and calls loadConfig() when it is newer.
CheckVersion(g, l) ==
    /\ load[g][l].pc = "checked"
    /\ load' = [load EXCEPT ![g][l] =
           IF load[g][l].latest > cache[g].version THEN StartedLoad ELSE FreeLoad]
    /\ UNCHANGED <<adminVars, phase, cache, faults>>

Unanswered(g, l, q) ==
    /\ load[g][l].pc = "loading"
    /\ q \notin load[g][l].answered

Answer(reload, q, result) ==
    [reload EXCEPT !.answered = @ \cup {q}, !.result = result]

\* PostgreSQL evaluates one of the three queries of Promise.all; they run on
\* different connections, in any order.
ReadRoutes(g, l) ==
    /\ Unanswered(g, l, "routes")
    /\ load' = [load EXCEPT ![g][l] =
           Answer(@, "routes", [@.result EXCEPT !.routesAt = Committed])]
    /\ UNCHANGED <<adminVars, phase, cache, faults>>

ReadPolicies(g, l) ==
    /\ Unanswered(g, l, "policies")
    /\ load' = [load EXCEPT ![g][l] =
           Answer(@, "policies", [@.result EXCEPT !.policiesAt = Committed])]
    /\ UNCHANGED <<adminVars, phase, cache, faults>>

ReadVersion(g, l) ==
    /\ Unanswered(g, l, "version")
    /\ \E v \in VersionsInTable \cup {0} :
           /\ IsLatest(v)
           /\ load' = [load EXCEPT ![g][l] =
                  Answer(@, "version",
                         [@.result EXCEPT !.version = v, !.versionAt = Committed])]
    /\ UNCHANGED <<adminVars, phase, cache, faults>>

\* Variant of Swap: the reload counts versions itself instead of reading one.
SwapAndCount(g, l) ==
    /\ load[g][l].pc = "loading"
    /\ load[g][l].answered = Queries
    /\ cache' = [cache EXCEPT ![g] =
           [load[g][l].result EXCEPT !.version = cache[g].version + 1]]
    /\ load' = [load EXCEPT ![g][l] = FreeLoad]
    /\ phase' = [phase EXCEPT ![g] = "ready"]
    /\ UNCHANGED <<adminVars, faults>>

\* Variant of Swap: a reload that was overtaken keeps the newer version number
\* and still installs what it read.
SwapKeepingVersion(g, l) ==
    /\ load[g][l].pc = "loading"
    /\ load[g][l].answered = Queries
    /\ LET newer == load[g][l].result.version > cache[g].version
       IN  cache' = [cache EXCEPT ![g] =
               [load[g][l].result EXCEPT
                   !.version = IF newer THEN @ ELSE cache[g].version]]
    /\ load' = [load EXCEPT ![g][l] = FreeLoad]
    /\ phase' = [phase EXCEPT ![g] = "ready"]
    /\ UNCHANGED <<adminVars, faults>>

\* All three answers are in: loadConfig() replaces the singleton. A booting
\* process now starts its timer.
Swap(g, l) ==
    /\ load[g][l].pc = "loading"
    /\ load[g][l].answered = Queries
    /\ cache' = [cache EXCEPT ![g] = load[g][l].result]
    /\ load' = [load EXCEPT ![g][l] = FreeLoad]
    /\ phase' = [phase EXCEPT ![g] = "ready"]
    /\ UNCHANGED <<adminVars, faults>>

\* A query fails: the error is logged, the cache is left alone. A booting
\* process becomes ready with whatever it has, an empty table.
LoadFails(g, l) ==
    /\ load[g][l].pc # "free"
    /\ faults < MaxFaults
    /\ faults' = faults + 1
    /\ load' = [load EXCEPT ![g][l] = FreeLoad]
    /\ phase' = [phase EXCEPT ![g] = "ready"]
    /\ UNCHANGED <<adminVars, cache>>

\* The process exits (shutdown, crash) and loses its memory.
Exit(g) ==
    /\ phase[g] # "down"
    /\ faults < MaxFaults
    /\ faults' = faults + 1
    /\ phase' = [phase EXCEPT ![g] = "down"]
    /\ cache' = [cache EXCEPT ![g] = EmptyConfig]
    /\ load' = [load EXCEPT ![g] = [l \in Loads |-> FreeLoad]]
    /\ UNCHANGED adminVars

-----------------------------------------------------------------------------
(* Specification *)

Init ==
    /\ mutations = <<>>
    /\ configVersions = {}
    /\ admin = [a \in Admins |-> IdleAdmin]
    /\ phase = [g \in Gateways |-> "down"]
    /\ cache = [g \in Gateways |-> EmptyConfig]
    /\ load = [g \in Gateways |-> [l \in Loads |-> FreeLoad]]
    /\ faults = 0

Reload(g, l) ==
    \/ Tick(g, l)
    \/ CheckVersion(g, l)
    \/ ReadRoutes(g, l)
    \/ ReadPolicies(g, l)
    \/ ReadVersion(g, l)
    \/ Swap(g, l)

Next ==
    \/ \E a \in Admins :
           Mutate(a) \/ BumpReadLatest(a) \/ BumpInsert(a) \/ BumpFails(a)
    \/ \E g \in Gateways : Boot(g) \/ Exit(g)
    \/ \E g \in Gateways, l \in Loads : Reload(g, l) \/ LoadFails(g, l)

Spec == Init /\ [][Next]_vars

\* A process that is down is started again by its supervisor, the timer keeps
\* firing, and every query is answered or fails: PostgreSQL does not fall silent
\* for good, as queries have no timeout (config/database.ts; Deployment has that
\* case), nor does the platform give the process up. Nothing is assumed of admins.
Fairness ==
    /\ \A g \in Gateways : WF_vars(Boot(g))
    /\ \A g \in Gateways, l \in Loads : WF_vars(Reload(g, l))

FairSpec == Spec /\ Fairness

-----------------------------------------------------------------------------
(* Properties *)

\* The cached copy read its version no later than its routes and policies. The
\* code does not enforce this: the three queries run in parallel.
VersionReadFirst(c) == c.versionAt <= c.routesAt /\ c.versionAt <= c.policiesAt

\* The cached config reflects the change a row of config_versions publishes.
Reflects(c, row) == row.mutation <= c.routesAt /\ row.mutation <= c.policiesAt

\* Two-step bumps that race, fail or repeat a number never hide a change: a
\* process whose cached version has reached the version of a change serves
\* that change, if its load read the version first. This is what comparing
\* version numbers in checkAndReload relies on.
NoChangeHidden ==
    \A g \in Gateways : \A row \in configVersions :
        VersionReadFirst(cache[g]) /\ row.version <= cache[g].version
            => Reflects(cache[g], row)

\* Racing bumps may insert a version twice but never skip one: the versions in
\* the table are exactly 1..LatestVersion.
VersionsGapFree == VersionsInTable = 1 .. LatestVersion

\* Admins and processes implement versioned publication: the latest version
\* moves up one at a time (a racing bump repeats it), and reloads that overlap
\* or answer late never make a process claim a version nobody published.
Publication == INSTANCE VersionedConfig WITH
    Replicas <- Gateways,
    published <- LatestVersion,
    adopted <- [g \in Gateways |-> cache[g].version]

ImplementsVersionedConfig == Publication!Spec

\* checkAndReload never replaces a config by an older one when its reloads do
\* not overlap (one slot); only a process exit resets the version.
CachedVersionMonotone ==
    [][\A g \in Gateways :
          cache'[g].version >= cache[g].version \/ phase'[g] = "down"]_vars

\* Once admins stop, every process ends up at the latest version and stays
\* there, through overlapping reloads, failed queries and restarts.
VersionConverges == \A g \in Gateways : <>[](cache[g].version = LatestVersion)

-----------------------------------------------------------------------------
(* What the documentation promises and the code does not do *)

\* "every gateway instance will pick up the change" (routes/admin.routes.ts): a
\* published change eventually stays reflected by every process.
ChangeTouches(row, t) == t \in mutations[row.mutation]

ServedBy(c, row) ==
    /\ ChangeTouches(row, "routes") => row.mutation <= c.routesAt
    /\ ChangeTouches(row, "policies") => row.mutation <= c.policiesAt

EveryChangePickedUp ==
    \A g \in Gateways : <>[](\A row \in configVersions : ServedBy(cache[g], row))

=============================================================================
