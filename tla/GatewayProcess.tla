----------------------------- MODULE GatewayProcess -----------------------------
(***************************************************************************)
(* One gateway process from the call of start() to its exit: the hooks     *)
(* onReady and onClose, the signals, the pool of database clients and      *)
(* those who borrow from it (readiness checks, requests of the admin API,  *)
(* the reload timer).                                                      *)
(*                                                                         *)
(* Sources: server.ts, the life-cycle hooks of app.ts, config/database.ts, *)
(* config/redis.ts, /readyz of routes/health.routes.ts, and the timer of   *)
(* services/router/config-cache.ts.                                        *)
(*                                                                         *)
(* Libraries, as the code uses them: app.close() lets requests end before  *)
(* the onClose hook runs, and calls of close() while closing wait for the  *)
(* first; a pool that is ended waits for the clients it has lent;          *)
(* a connection that breaks under a client makes it emit `error', which    *)
(* pool.query() handles and a client taken with pool.connect() does not.   *)
(*                                                                         *)
(* Left out: requests that touch no database, the probe timer (it starts   *)
(* and stops with the reload timer), and what a reload does with the rows. *)
(* The queries of one reload are one query.                                *)
(***************************************************************************)
EXTENDS Postgres, Integers, FiniteSets

CONSTANTS
    Requests,     \* slots for requests that use the database
    Reload,       \* the background reload, and the load at startup
    PoolMax,      \* clients of the pool
    MaxSignals    \* bound on SIGTERM and SIGINT

ASSUME ProcessAssumption ==
    /\ Reload \notin Requests /\ IsFiniteSet(Requests)
    /\ PoolMax \in Nat \ {0}
    /\ MaxSignals \in Nat \ {0}

VARIABLES
    redis,      \* "up", "down", or "silent": accepts commands, answers none
    phase,      \* progress of start() and of app.close()
    exit,       \* how the last process ended, "abandoned" once nobody restarts it
    shutdowns,  \* calls of shutdown() that wait for app.close()
    timer,      \* whether the reload timer is set
    loaded,     \* whether a config was ever loaded
    client,     \* client[u]: where borrower u stands with its client
    ping,       \* ping[c]: where request c stands with its PING, if it is for /readyz
    lost        \* clients that will never be released

processVars == <<redis, phase, exit, shutdowns, timer, loaded, client, ping, lost>>

Borrowers == Requests \cup {Reload}

Phases ==
    {"off", "connecting", "loading", "serving", "draining", "quitting", "ending", "exited"}

ProcessTypeOK ==
    /\ redis \in {"up", "down", "silent"}
    /\ phase \in Phases
    /\ exit \in {"none", "success", "failure", "killed", "abandoned"}
    /\ shutdowns \in 0 .. MaxSignals
    /\ timer \in BOOLEAN /\ loaded \in BOOLEAN
    /\ client \in [Borrowers -> {"none", "waiting", "holding", "ok", "current", "failed"}]
    /\ ping \in [Requests -> {"none", "sent", "settled"}]
    /\ lost \in 0 .. PoolMax

Closing == phase \in {"draining", "quitting", "ending"}

Running == Closing \/ phase \in {"connecting", "loading", "serving"}

-----------------------------------------------------------------------------
(* Beginning and end of a process *)

NoClients == [u \in Borrowers |-> "none"]
NoPings == [c \in Requests |-> "none"]

\* The memory of a process that is not running.
Cleared ==
    /\ shutdowns' = 0
    /\ timer' = FALSE /\ loaded' = FALSE
    /\ client' = NoClients /\ ping' = NoPings
    /\ lost' = 0

Ends(how) == phase' = "exited" /\ exit' = how /\ Cleared

ProcessInit ==
    /\ redis = "up"
    /\ phase = "off"
    /\ exit = "none"
    /\ shutdowns = 0
    /\ timer = FALSE /\ loaded = FALSE
    /\ client = NoClients /\ ping = NoPings
    /\ lost = 0

-----------------------------------------------------------------------------
(* Startup: start() of server.ts and the onReady hook *)

\* node dist/server.js: start(), buildApp(), listen(), redis.connect().
Start ==
    /\ phase = "off"
    /\ phase' = "connecting"
    /\ UNCHANGED <<redis, exit, shutdowns, timer, loaded, client, ping, lost>>

\* redis.connect() resolves or rejects, which is the same to the hook, and
\* loadConfig() begins.
RedisSettles ==
    /\ phase = "connecting"
    /\ redis # "silent"
    /\ phase' = "loading"
    /\ client' = [client EXCEPT ![Reload] = "waiting"]
    /\ UNCHANGED <<redis, exit, shutdowns, timer, loaded, ping, lost>>

\* Fastify gives a hook ten seconds; then start() rejects: process.exit(1).
BootTimesOut ==
    /\ \/ phase = "connecting" /\ redis = "silent"
       \/ phase = "loading" /\ client[Reload] = "holding" /\ database = "silent"
    /\ Ends("failure")
    /\ UNCHANGED redis

\* Variant of Ready: the timer starts in the block that a failed load leaves.
ReadyIfLoaded ==
    /\ phase = "loading"
    /\ client[Reload] \in {"ok", "failed"}
    /\ phase' = "serving"
    /\ timer' = (client[Reload] = "ok")
    /\ loaded' = timer'
    /\ client' = [client EXCEPT ![Reload] = "none"]
    /\ UNCHANGED <<redis, exit, shutdowns, ping, lost>>

\* loadConfig() resolves or rejects, which is the same to the hook; the timers
\* start and requests come in.
Ready ==
    /\ phase = "loading"
    /\ client[Reload] \in {"ok", "failed"}
    /\ phase' = "serving"
    /\ timer' = TRUE
    /\ loaded' = (client[Reload] = "ok")
    /\ client' = [client EXCEPT ![Reload] = "none"]
    /\ UNCHANGED <<redis, exit, shutdowns, ping, lost>>

-----------------------------------------------------------------------------
(* The pool *)

Lent == Cardinality({u \in Borrowers : client[u] = "holding"})

Free == PoolMax - lost - Lent

\* The pool hands out a client, over a new connection if need be. It does not
\* test an idle one, of which the first load finds none: a silent PostgreSQL
\* shows at the query.
Acquire(u) ==
    /\ client[u] = "waiting"
    /\ Free > 0 /\ phase # "ending"
    /\ database = "up" \/ (database = "silent" /\ phase # "loading")
    /\ client' = [client EXCEPT ![u] = "holding"]
    /\ UNCHANGED <<redis, phase, exit, shutdowns, timer, loaded, ping, lost>>

\* Variant of AcquireFails: no connectionTimeoutMillis.
AcquireRefused(u) ==
    /\ client[u] = "waiting"
    /\ database = "down" \/ phase = "ending"
    /\ client' = [client EXCEPT ![u] = "failed"]
    /\ UNCHANGED <<redis, phase, exit, shutdowns, timer, loaded, ping, lost>>

\* It cannot: the connection is refused, the pool has been ended, or
\* connectionTimeoutMillis have passed without a free client or a new connection.
AcquireFails(u) ==
    /\ client[u] = "waiting"
    /\ database # "up" \/ phase = "ending" \/ Free = 0
    /\ client' = [client EXCEPT ![u] = "failed"]
    /\ UNCHANGED <<redis, phase, exit, shutdowns, timer, loaded, ping, lost>>

\* checkAndReload() reads no version above that of the cache. After a failed first
\* load that is 0, and so is the latest version while nothing was ever published.
FindsNothingNewer(u) == u = Reload /\ phase # "loading" /\ ~published

\* The query is answered and the client released.
QueryAnswered(u) ==
    /\ client[u] = "holding"
    /\ client' = [client EXCEPT ![u] = IF FindsNothingNewer(u) THEN "current" ELSE "ok"]
    /\ UNCHANGED <<redis, phase, exit, shutdowns, timer, loaded, ping, lost>>

\* A readiness check holds a client.
Checking(c) == client[c] = "holding" /\ ping[c] # "none"

\* SELECT 1 is answered with an error: checkDbConnection() catches it past the
\* call of release().
CheckThrows(c) ==
    /\ Checking(c)
    /\ client' = [client EXCEPT ![c] = "failed"]
    /\ lost' = lost + 1
    /\ UNCHANGED <<redis, phase, exit, shutdowns, timer, loaded, ping>>

\* PostgreSQL answers, with an error perhaps. No query has a timeout
\* (config/database.ts): while PostgreSQL is silent its clients wait.
Answered(u) ==
    /\ database # "silent"
    /\ QueryAnswered(u) \/ (u \in Requests /\ CheckThrows(u))

-----------------------------------------------------------------------------
(* Requests and reloads *)

\* GET /readyz: checkDbConnection() and checkRedisConnection() in parallel.
BeginCheck(c) ==
    /\ phase = "serving"
    /\ client[c] = "none"
    /\ client' = [client EXCEPT ![c] = "waiting"]
    /\ ping' = [ping EXCEPT ![c] = "sent"]
    /\ UNCHANGED <<redis, phase, exit, shutdowns, timer, loaded, lost>>

\* PONG or an error, which only the reply tells apart.
PingSettles(c) ==
    /\ ping[c] = "sent"
    /\ redis # "silent"
    /\ ping' = [ping EXCEPT ![c] = "settled"]
    /\ UNCHANGED <<redis, phase, exit, shutdowns, timer, loaded, client, lost>>

\* A repository calls db.query() for a request of the admin API.
BeginQuery(c) ==
    /\ phase = "serving"
    /\ client[c] = "none"
    /\ client' = [client EXCEPT ![c] = "waiting"]
    /\ UNCHANGED <<redis, phase, exit, shutdowns, timer, loaded, ping, lost>>

\* The query, or Promise.all with the ping, has settled: the reply is sent.
Reply(c) ==
    /\ client[c] \in {"ok", "failed"}
    /\ ping[c] # "sent"
    /\ client' = [client EXCEPT ![c] = "none"]
    /\ ping' = [ping EXCEPT ![c] = "none"]
    /\ UNCHANGED <<redis, phase, exit, shutdowns, timer, loaded, lost>>

\* The interval fires.
BeginReload ==
    /\ timer
    /\ client[Reload] = "none"
    /\ client' = [client EXCEPT ![Reload] = "waiting"]
    /\ UNCHANGED <<redis, phase, exit, shutdowns, timer, loaded, ping, lost>>

\* checkAndReload() swaps a newer config in, finds none, or its error is logged.
EndReload ==
    /\ phase # "loading"
    /\ client[Reload] \in {"ok", "current", "failed"}
    /\ loaded' = (loaded \/ client[Reload] = "ok")
    /\ client' = [client EXCEPT ![Reload] = "none"]
    /\ UNCHANGED <<redis, phase, exit, shutdowns, timer, ping, lost>>

-----------------------------------------------------------------------------
(* Shutdown: the signal handlers of server.ts and the onClose hook *)

NoRequests == \A c \in Requests : client[c] = "none"

\* Variant of Signal: the second signal ends the process.
SignalTwiceKills ==
    /\ phase = "serving" \/ Closing
    /\ IF shutdowns = 0
       THEN phase' = "draining" /\ shutdowns' = 1 /\ UNCHANGED exit
       ELSE phase' = "exited" /\ shutdowns' = 0 /\ exit' = "success"
    /\ UNCHANGED <<redis, timer, loaded, client, ping, lost>>

\* shutdown() calls app.close(), which takes no more requests. A further signal
\* calls it again and waits as well.
Signal ==
    /\ phase = "serving" \/ Closing
    /\ shutdowns < MaxSignals
    /\ shutdowns' = shutdowns + 1
    /\ phase' = IF phase = "serving" THEN "draining" ELSE phase
    /\ UNCHANGED <<redis, exit, timer, loaded, client, ping, lost>>

\* SIGKILL at any time; SIGTERM and SIGINT as well before listen() has returned
\* and their handlers are installed.
Killed ==
    /\ phase # "exited"
    /\ Ends("killed")
    /\ UNCHANGED redis

\* The last request has been answered: the onClose hook stops the timers and
\* calls closeRedis().
Drained ==
    /\ phase = "draining"
    /\ NoRequests
    /\ phase' = "quitting"
    /\ timer' = FALSE
    /\ UNCHANGED <<redis, exit, shutdowns, loaded, client, ping, lost>>

\* Variant of RedisQuits: a rejected quit() leaves the onClose hook.
RedisQuitsWhenUp ==
    /\ phase = "quitting"
    /\ redis = "up"
    /\ phase' = "ending"
    /\ UNCHANGED <<redis, exit, shutdowns, timer, loaded, client, ping, lost>>

\* redis.quit() resolves or rejects, and closeDb() ends the pool.
RedisQuits ==
    /\ phase = "quitting"
    /\ redis # "silent"
    /\ phase' = "ending"
    /\ UNCHANGED <<redis, exit, shutdowns, timer, loaded, client, ping, lost>>

\* db.end() resolves when all clients are back, and every shutdown() that
\* waited calls process.exit(0); the first one ends the process.
PoolEnds ==
    /\ phase = "ending"
    /\ lost = 0 /\ Lent = 0
    /\ Ends("success")
    /\ UNCHANGED redis

-----------------------------------------------------------------------------
(* The surroundings *)

RedisChanges ==
    /\ redis' \in {"up", "down", "silent"} \ {redis}
    /\ UNCHANGED <<phase, exit, shutdowns, timer, loaded, client, ping, lost>>

\* A client without a listener for its `error'.
Exposed == lost > 0 \/ \E c \in Requests : Checking(c)

\* All connections to PostgreSQL break: queries fail; an exposed client makes
\* for an uncaught exception, and the process exits with 1.
ConnectionsBreak ==
    /\ IF Exposed
       THEN Ends("failure")
       ELSE /\ client' = [u \in Borrowers |->
                   IF client[u] = "holding" THEN "failed" ELSE client[u]]
            /\ UNCHANGED <<phase, exit, shutdowns, timer, loaded, ping, lost>>
    /\ UNCHANGED redis

-----------------------------------------------------------------------------

BorrowerStep(u) == Acquire(u) \/ AcquireFails(u) \/ Answered(u)

\* What a process does by itself.
ProcessStep ==
    \/ RedisSettles \/ BootTimesOut \/ Ready
    \/ \E u \in Borrowers : BorrowerStep(u)
    \/ \E c \in Requests : BeginCheck(c) \/ BeginQuery(c) \/ PingSettles(c) \/ Reply(c)
    \/ BeginReload \/ EndReload
    \/ Signal \/ Drained \/ RedisQuits \/ PoolEnds
    \/ RedisChanges

-----------------------------------------------------------------------------
(* Properties *)

\* "Wait for in-flight requests to drain before exiting" (server.ts): when the
\* shutdown touches Redis and the pool, and when the process exits well, no
\* request that was accepted is left and no timer is set, however many signals
\* came in between.
StopIsClean ==
    phase \in {"quitting", "ending"} \/ (phase = "exited" /\ exit = "success")
        => NoRequests /\ ~timer

\* Whoever asks the pool for a client gets one or an error, also when every
\* client is lost, PostgreSQL is down, or the pool is being ended.
WaitersSettle == \A u \in Borrowers : client[u] = "waiting" ~> client[u] # "waiting"

\* A shutdown comes to its end unless a client was lost, which db.end() waits
\* for, Redis is silent, which redis.quit() and PING wait for, or PostgreSQL is,
\* which queries under way wait for.
ShutdownEnds ==
    Closing ~> \/ ~Closing
               \/ lost > 0
               \/ redis = "silent"
               \/ database = "silent" /\ Lent > 0

\* Clients enough are left for everybody who may want one at a time.
Room == lost + Cardinality(Requests) < PoolMax

\* "... the gateway starts with an empty routing table and will pick up config on
\* the next hot-reload cycle" (app.ts): a process whose first load failed loads a
\* config once PostgreSQL stays up and a version has been published, as long as
\* the clients lost to failed checks leave room. Without a version it never does.
LoadedInTheEnd ==
    <>[](database = "up" /\ published /\ phase = "serving" /\ Room) => <>[]loaded

=============================================================================
