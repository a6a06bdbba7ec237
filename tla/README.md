# TLA+ verification of ts-api-gateway

ts-api-gateway is a Fastify API gateway. A catch-all route sends every request
through a pipeline of hooks (trace context, JWT check, rate limit, response
cache) to a handler that calls the upstream through a circuit breaker, with
retries. Routes and policies live in PostgreSQL, are edited over an admin API
and are hot-reloaded into the memory of every gateway process. Redis holds the
windows of the rate limiter and the stored responses. A background prober
watches the upstreams. The container of a gateway runs the database migrations
before it starts the server.

This directory holds the specifications of those parts, the TLC instances that
check them, and the theorems TLAPS proves about them. Paths below are relative
to `src/src/` unless they begin with `docs/`, `docker/`, `scripts/`,
`docker-compose.yml`, `railway.toml` or `README.md`.

1. [Inventory](#1-inventory)
2. [Modules](#2-modules)
3. [Runs, bounds and what they show](#3-runs-bounds-and-what-they-show)
4. [Fairness](#4-fairness)
5. [Theorems](#5-theorems)
6. [Where code and documentation disagree](#6-where-code-and-documentation-disagree)
7. [What is not modelled](#7-what-is-not-modelled)
8. [Plan](#8-plan)

## 1. Inventory

**Config store and hot reload** (`services/router/config-cache.ts`,
`repositories/config-version.repository.ts`).
*State:* the tables `routes`, `policies` and `config_versions`; in each process
a `CachedConfig` singleton and a `setInterval` timer.
*Operations:* every admin change commits and then calls `bump()` (read the
latest version, insert its successor); every tick calls `checkAndReload()`
(read the latest version, compare, `loadConfig()`); `loadConfig()` reads
routes, policies and version with three parallel queries and swaps the
singleton. The `onReady` hook awaits a first load before the timer starts.
*Interacts with:* the admin API (writes), every hook and the handler
(`getConfig()`), the prober (list of upstreams).
*Hard:* no statement of this shares a transaction with another one. Bumps race,
reloads overlap and finish in any order, three queries see three moments of the
database, a bump may fail after its change was committed, a first load may fail.
*Correct when:* a process that claims a version serves the changes of that
version; versions have no gaps; every process comes to the latest version.

**Circuit breaker** (`services/proxy/circuit-breaker.ts`, opossum).
*State:* per upstream the opossum state, its pending-close flag, reset timer
and rolling window of counts; a metric flag.
*Operations:* `fire()`, the success or failure of a call, the reset timer, the
rotation of the window.
*Hard:* many calls are in flight; those fired while closed settle while open or
half-open and move the breaker out of turn; half-open lets one call in.
*Correct when:* it is never left rejecting with nobody to decide it, follows
closed → open → half-open, reports its state truthfully, and readmits a healthy
upstream.

**Proxy handler, upstream client, retry policy** (`routes/proxy.routes.ts`,
`services/proxy/upstream-client.ts`, `retry-policy.ts`, `http-proxy.ts`).
*State:* the progress of each request; the attempts on their way.
*Operations:* fire, attempt, retry, settle, count, reply.
*Hard:* every attempt has a deadline of its own, and one that was given up may
still be executed by the upstream; an error is recognised by its text; the try
block covers the reply as well as the call; the body is made anew from what the
content-type parsers left of it, while the length the client gave is sent along.
*Correct when:* the retry budget bounds executions, retries stop at the first
lasting outcome, replies say what happened, every request is answered and
counted once, and bodies keep their value where serialising again does.

**Request pipeline and response cache** (`middlewares/*.ts`,
`services/cache/cache.service.ts`, hooks of `app.ts`).
*State:* the context of each request; the entries in Redis with their TTL.
*Operations:* hooks that match the route, verify, ask the limiter, look up;
`cacheOnSend` which stores.
*Hard:* each hook reads the config anew after an await, so one request may meet
several configs; nothing invalidates stored responses; Redis may fail at each
call, or not answer it. Three hooks skip URLs by how they begin.
*Correct when:* responses to authenticated requests are not shared, requests
are answered unless Redis is silent, and what was checked and stored under an
older config goes away.

**Route matcher** (`services/router/route-matcher.ts`).
*State:* none beyond the loop. *Operations:* `matchRoute()` over the list
`findEnabled()` returns. *Hard:* the first match is the longest only because of
an ORDER BY in another file; the boundary of a path segment; stripping.
*Correct when:* the most specific route in whole segments wins and the upstream
gets a path.

**Rate limiter** (`services/ratelimit/rate-limiter.service.ts`).
*State:* a sorted set per route and client with an expiry, in Redis.
*Operations:* read the clock, send the script; the script evicts, counts, adds.
*Hard:* stamps come from the clocks of the gateways and are old by the time the
script runs; checks may be executed twice or not at all; two checks of one
millisecond.
*Correct when:* a window admits at most its burst, and nobody is rejected on
account of requests that were rejected.

**Trace context** (`middlewares/trace-id.middleware.ts`).
*State:* the three trace headers of a request. *Operations:* resolve a trace id
from `traceparent`, `x-request-id` or at random, normalise it, write it into all
headers. *Hard:* the three headers carry two forms of one identifier, and the
upstream may be another gateway that resolves them again.
*Correct when:* every gateway of a chain continues the trace of the first.

**Upstream health prober** (`services/health/upstream-health.service.ts`).
*State:* an entry (status, failure count, breaker state) per upstream, a timer.
*Operations:* a pass reads the routing table and probes its upstreams one after
the other; an interval starts passes; `stopHealthChecks()`.
*Hard:* passes overlap: an entry is read before the probe and replaced after it,
and the breaker is read when the probe has ended.
*Correct when:* failures that are reported happened, and an entry comes to show
the upstream and the breaker as they are.

**Admin API and repositories** (`controllers/*.ts`, `repositories/*.ts`,
`schemas/*.ts`, `middlewares/error-handler.middleware.ts`).
*State:* the tables. *Operations:* create, update, delete routes; upsert, delete
policies, each behind the admin key (`middlewares/admin-auth.middleware.ts`).
*Hard:* each call is a lookup, a write and a bump in separate
statements; defaults are written into bodies by validation.
*Correct when:* names are unique, policies have routes, refused calls change
nothing, successful ones are published, and what is deleted stays deleted.

**Metrics** (`services/metrics/metrics.service.ts`): counters, breaker flags, a
ring of latency samples; all updates are synchronous.

**Migrations** (`scripts/migrate.ts`).
*State:* the schema and the ledger `schema_migrations`; per runner its place in
the script. *Operations:* create the ledger; per version check, execute, record,
commit. *Hard:* any number of runners work at the same time without a common
lock, each may be killed or lose its connection at any statement, a COMMIT may
be in effect though its answer is lost.
*Correct when:* a migration is in effect exactly if it is recorded, once and in
order.

**Database pool and Redis client** (`config/database.ts`, `config/redis.ts`).
*State:* the clients of the pool, lent, free or lost. *Operations:* borrow,
wait, fail, release, end. *Hard:* a check that throws keeps its client;
connections break under a client; a Redis that accepts commands may not answer,
and neither may PostgreSQL, whose queries have no timeout: only connecting has.
*Correct when:* whoever waits for a client gets one or an error.

**Process life cycle** (`app.ts`, `server.ts`, `routes/health.routes.ts`,
`docker/Dockerfile`, `docker-compose.yml`, `railway.toml`).
*State:* the phase of startup or shutdown, the timers, the exit code.
*Operations:* `start()`, `onReady`, signals, `onClose`, exits, the restart
policy. *Hard:* signals and broken connections come at any time, a second signal
calls `app.close()` again, startup goes on without Redis or a config, everything
that shutdown waits for may not come. Docker Compose restarts a container without
end, Railway three times.
*Correct when:* a gateway serves over a complete schema, shutdown drains requests
and ends, and a gateway that is neither stopped nor given up comes to serve what
was published.
*Interacts with:* migrations (the command of the container), PostgreSQL.

**Health routes, JWT service, traffic splitter, schemas, models, environment,
logging, examples**: no shared state of their own, or state of a library (the
key cache of jwks-rsa). `/readyz` borrows a client of the pool, see above.

## 2. Modules

| Module | Models | Its state and the code |
|---|---|---|
| `HotReload` | config store and hot reload | `mutations` is the log of committed changes, `configVersions` the table, `cache[g]` the singleton, `load[g][l]` one `checkAndReload()` in flight, `admin[a]` one admin request between commit and bump |
| `VersionedConfig` | what hot reload promises | a counter that moves up by one, replicas that adopt a published version |
| `CircuitBreaker` | opossum as configured | `breaker`, `window`, `call[c]`, `metric`; `probe` remembers which call half-open let in |
| `BreakerLifecycle` | what a breaker promises | its state and whether it admits a call |
| `ProxyRequest` | handler, client, retries | `request[r]`, the attempts `travelling` and `executed`, the counters |
| `RequestPipeline` | hooks and response cache | `config`, `request[r]` up to its next await, `cache[k]`, `skipped`: whether the hooks skip the URL, `silent`: whether Redis answers nobody |
| `RouteMatcher` | `matchRoute()` | the list, the path, the `cursor` of the loop |
| `TraceContext` | trace headers | operators on identifiers as sequences of characters |
| `Forwarding` | trace, match and body of a request along a chain of gateways | composes `RouteMatcher` and `TraceContext`; `hop`, `headers`, `payload`, `stage` at the gateway it has come to; `sent` is a history |
| `RateLimiter` | one key of the limiter | `zset`, `expireAt`, `check[c]` of each call of `checkRateLimit()`, a command queue per gateway; `admitted` is a history |
| `UpstreamHealth` | the prober | `healthMap`, `timer`, `pass[p]` with the upstreams it has still to probe, `stable` the upstreams routed to, `breaker[u]` which moves by itself; `failed` is a history |
| `AdminStore` | admin calls on the tables | `routes`, `policies`, `call[a]` between its statements; `unpublished` is a history |
| `Postgres` | what its clients share: it is up, down or silent | `database`, `published`: whether `config_versions` has a row |
| `Migrations` | `migrate.ts` | `ledger`, `schema`, `runner[r]` between its statements |
| `GatewayProcess` | one process from `start()` to its exit | `phase`, `exit`, `shutdowns`, `timer`, `loaded`, `client[u]` of each borrower, `ping[c]`, `lost` clients |
| `Deployment` | the container, its restarts on either platform, operators | composes `Migrations` and `GatewayProcess` over `Postgres`; `exit` is `"abandoned"` once the platform has given up |
| `…Proofs` | theorems | section 5 |
| `MC…` | values for TLC | section 3 |

Parts meet through small interfaces, and each module leaves the other side
arbitrary: `ProxyRequest` lets the breaker admit or reject any call,
`RequestPipeline` lets the limiter, the token check and the upstream answer
anything and the config change at any await, `AdminStore` ends with the bump
that `HotReload` takes up. What holds in a module therefore holds whatever the
neighbour does.

*Atomicity.* JavaScript runs from one await to the next without interruption.
An action is one such stretch, or one statement of PostgreSQL, or one Redis
command. Where the code calls two statements without a transaction there are two
actions.

*Data.* Contents of tables are identified by the log of changes they reflect
(`HotReload`), bodies and rows have one column of each kind the code treats
differently (`AdminStore`), outcomes of an attempt are the classes the code
tells apart (`ProxyRequest`), a URL is one URL (`RequestPipeline`), a JSON text is what becomes
of it when it is parsed and serialised again (`Forwarding`). Only
`RouteMatcher` spells paths out, because it compares characters while what it
promises speaks of segments, and `TraceContext` identifiers, because cutting and
padding them is all it does; `HexWidth` stands for 32.

*Variants.* Operators under "Variant of" are mistakes a change to the code could
make (a guard dropped, a comparison off by one). Each property is known to fail
when the definition it guards is replaced by its variant; `PROJECT.json` pairs
them.

*Libraries.* opossum, undici, ioredis, Fastify and Redis are modelled from the
way the code uses them. In particular: opossum opens strictly above the error
threshold, counts rejected calls as fired, and lets any call in flight decide a
half-open breaker; undici gives a headers timeout the code
`UND_ERR_HEADERS_TIMEOUT` and the name `HeadersTimeoutError`; ioredis sends
unanswered commands again after a reconnect; Fastify validates bodies with
`useDefaults`, gives a hook ten seconds, lets requests end before `onClose` runs,
and lets a second `close()` wait for the first; undici refuses a body that
disagrees with its content-length; a pool that is ended waits for the clients it
has lent, and a client taken with `connect()` has no listener for the `error` of
a broken connection; PostgreSQL rolls back what a lost connection left open,
keeps the statements of one migration apart by its locks, and may have committed
though nobody was told; Redis seeds the random numbers of a script anew on every
call.

*Crashes.* A gateway process may be killed at any point, its memory is gone then
(`HotReload`, `Deployment`). The model takes a SIGTERM as delivered to the
server; that `sh` is the first process of the container and does not pass
signals on is outside of the code in `src/`.

## 3. Runs, bounds and what they show

Nine runs pass, one for each component or composition. Three are expected to
find a violation: the property is what a comment or document says, and the
counterexample is what the code does.

| Run | Instance | Distinct states | Shows |
|---|---|---|---|
| `hotreload` | 2 admins, 1 process, 2 overlapping reloads, 2 changes, 1 fault | 240 000 | `NoChangeHidden`, `VersionsGapFree`, `ImplementsVersionedConfig`, `VersionConverges` |
| `breaker` | 3 calls, volume threshold 2, 2 buckets, 4 counted fires | 27 000 | `NeverStuckHalfOpen`, `MetricFollowsBreaker`, `ImplementsLifecycle`, `ReadmitsOnceHealthy` |
| `proxy` | 2 requests, up to 1 retry | 250 000 | `WithinBudget`, `RetriesWhileTransient`, `RepliesAreTrue`, `EveryReplyCounted`, `EveryRequestAnswered` |
| `pipeline` | 2 slots, 4 configs, a URL skipped or not | 288 000 | `NeverSharesPersonalResponses`, `EveryRequestAnswered`, `StaleResponsesExpire`, `ChecksSettle` |
| `matcher` | a chain of up to 3 gateways, each with any list of up to 2 of 10 routes, 12 paths, trace ids of 2 characters | 574 000 | `MostSpecificWins`, `UpstreamPathIsPath`, `TraceContinues`, `BodiesArrive` |
| `limiter` | 2 gateways 1 ms apart, 4 calls, burst 2, window 5 ms, delay 1 ms | 3 200 000 | `BurstPerWindow`, `RejectedOnlyWhenFull` |
| `health` | 1 upstream, 2 overlapping passes | 97 000 | `FailuresAreReal`, `StatusConverges`, `BreakerConverges` |
| `admin` | 3 admin calls, 2 route ids, 2 names | 86 000 | `NamesUnique`, `PoliciesHaveRoutes`, `RefusedChangesNothing`, `SuccessIsPublished`, `DeletedStays` |
| `deployment` | 1 container, 1 operator, 2 migrations, a pool of 2, 1 request and the reload, 2 signals | 178 500 | `LedgerIsTrue`, `ServesCompleteSchema`, `StopIsClean`, `WaitersSettle`, `ShutdownEnds`, `LoadedInTheEnd`, `ServesInTheEnd` |
| `hotreload_picked_up` | 2 admins, no overlap, no faults | | `EveryChangePickedUp` fails |
| `limiter_burst` | 1 gateway, no delay | | `BurstIsMaxRequests` fails |
| `admin_defaulted` | 1 admin call | | `UpdateKeepsDefaulted` fails |

`pipeline` and `admin` check the type invariants of their modules too; those of
`HotReload`, `CircuitBreaker`, `ProxyRequest`, `RequestPipeline`, `RouteMatcher`,
`RateLimiter`, `UpstreamHealth`, `Deployment` and `AdminStore` are theorems.

Why the bounds are enough:

- *hotreload.* Two admins are what a race of bumps needs, two slots are what an
  overtaken reload needs, and processes do not interact but through the
  database. One fault is a failed query, a failed bump or a restart at any
  point. The bounds `MaxMutations` and `MaxFaults` cut behaviours off, so that
  admins and faults stop in the end; convergence is about what follows then.
- *breaker.* Three calls: one that trips the breaker, one that is left over, and
  the probe. With the volume threshold at 2 the error rate is below, at and
  above the threshold. `MaxFires` bounds the counts of one window only; buckets
  move on for ever.
- *proxy.* Requests share the counters alone; one retry is the first attempt,
  the last one and both sides of the budget. `BudgetKept` and the others are
  proved for any number.
- *pipeline.* The URL is skipped by the hooks or not, from the start. The four
  configs are a cached route, its upstream moved, a longer
  prefix with authentication for the same URL, and no route. Slots are used
  again, so that any number of requests follow each other, two at a time.
- *matcher.* Prefixes that are prefixes of each other, with and without trailing
  slashes; paths with empty and longer segments. Two routes decide which is
  found first. The upstream paths that stripping leaves are again among the
  paths, so that every gateway of a chain matches anew. Three gateways: the one
  that resolves what the client sent, one that is sent what a gateway wrote, and
  one that is sent what that made of it. A JSON body is one of five by what parsing
  and serialising it makes of its value and of its length. Identifiers are empty, too short, too
  long, and with dashes before and behind the cut. The theorems are about chains
  of any length.
- *limiter.* The burst is filled, exceeded and refilled after an eviction, with
  stamps in and out of order.
- *health.* Three failures in a row, with a pass that overtakes or falls behind;
  `MaxCount` of 4 is past the last threshold. Upstreams share nothing but the
  order of a pass; the breaker takes every state between any two steps.
- *admin.* Three calls interleave over two names, so that a lookup is overtaken
  by a creation, a renaming and a deletion, one after the other.
- *deployment.* Two runners race at each of two migrations; of three, one would
  wait for the other two in turn. With two clients in the pool the request and
  the reload use it up, and every failed check makes it smaller until all are
  lost. The second signal comes in every phase of the shutdown of the first.
  Restarts, kills, outages and silences of PostgreSQL and Redis are not bounded.
  After any failure the platform may have given up, which covers Docker Compose
  (never) and Railway (after three retries).

What the properties say, in short:

- `NoChangeHidden`: a process at the version of a change serves the change,
  provided its reload read the version before the tables. The proviso is what
  the code lacks: `hotreload_picked_up` shows a reload that read the routes
  before a change and the version after its bump.
- `ImplementsVersionedConfig`, `VersionConverges`: races and overtaken reloads
  can take a process back to an older published version, never to an
  unpublished one, and never for good.
- `NeverStuckHalfOpen`: whatever the order of late results, a half-open breaker
  that rejects has its probe in flight.
- `ImplementsLifecycle` includes fairness: open always comes to half-open and a
  probe is always decided.
- `RepliesAreTrue`: a client told that the service is unavailable has no attempt
  anywhere, so it may safely try again.
- `BurstPerWindow`: milliseconds with an admission, at most the burst in every
  window that is shorter by the delay of a check and the difference of the
  clocks. It counts milliseconds rather than requests because of `limiter_burst`.
- `EveryReplyCounted` counts exactly: a reply missed and a reply counted twice both
  violate it. One status is excepted by name, see `nonStandard` in section 6.
- `EveryRequestAnswered` of the pipeline: each failure of Redis lets a request go
  on or ends it; the one thing that holds it is a Redis that is silent.
- `StaleResponsesExpire`, `ChecksSettle`: a request may pass its checks under
  one config and be proxied or stored under another; once configs stop
  changing, no such request and no such entry is left. That a token is asked for is
  promised of URLs outside of the skipped ones only: section 6.
- `TraceContinues`, `BodiesArrive`: along a chain of gateways the three headers
  name one trace, and a body keeps its value or is refused by the first. The first
  half leaves out bare JSON strings and scalars, and JSON of which parsing and
  serialising make another value: see section 6. The second half is about every
  body: only the first gateway refuses, and only what changes its length there.
- `StatusConverges`, `BreakerConverges`: entries that overlapping passes write
  out of order are right in the end, once upstream or breaker stay as they are.
- `LedgerIsTrue`, `ServesCompleteSchema`: no crash leaves a migration executed
  and not recorded, and none is recorded twice; a runner that loses a race gives
  up, and its container starts over rather than serve an older schema.
- `StopIsClean`, `ShutdownEnds`: a shutdown answers what was accepted, and comes
  to its end but for what it waits for without a limit: a lost client, a silent
  Redis, or a query that a silent PostgreSQL holds.
- `WaitersSettle`, `LoadedInTheEnd`, `ServesInTheEnd`: neither lost clients nor
  outages at any time leave anyone waiting for a client for ever, a process for
  ever without the config that was published, or a container for ever down that
  its platform has not given up. Nothing is loaded late unless something was
  published: `FindsNothingNewer` is the comparison of `checkAndReload()` with a
  cached version of 0, and the migrations insert no version.
- `SuccessIsPublished`: a call answered with success has its change under a
  published version, its own or a later one.
- `DeletedStays`: an update or an upsert that found its route before the deletion
  does not bring it back and is answered with an error.

`CHECK_DEADLOCK FALSE` is set where the modelled work is finite: every request
is answered (`proxy`), every admin call ended (`admin`), a request has come to
the end of its chain (`matcher`), or the clock stopped at its bound (`limiter`).

## 4. Fairness

Fairness is weak but for one action and is assumed of the gateway's own machinery
only, for as long as what it waits for has a timeout or answers.

- *Hot reload.* A process that is down is started again (the container
  platform's restart policy), the timer of `setInterval` goes on firing, and a
  query is answered or fails. Nothing is assumed of admins. A platform that has
  given up and a PostgreSQL that is silent for good are outside of this module;
  `Deployment` has them.
- *Breaker.* The reset timer fires, and every call settles: each attempt runs
  under `AbortSignal.timeout()` and attempts are bounded, which
  `EveryRequestAnswered` of `ProxyRequest` checks. Nothing is assumed of
  clients, of the upstream, or of when the window moves.
- *Proxy.* The handler runs and the deadline of an attempt fires. The upstream
  owes nothing.
- *Pipeline.* Redis commands settle while Redis answers or refuses
  (`maxRetriesPerRequest`); one that falls silent holds them, and need never speak
  again, as no `commandTimeout` is set (`config/redis.ts:6`). Token checks and
  upstream calls settle (they have timeouts), and Redis expires keys, which all
  are stored with a TTL.
- *Prober.* A pass that has begun goes on, as probes have a timeout, and the
  interval goes on firing while its timer is set. Nothing is assumed of when the
  prober is started or stopped.
- *Deployment.* The container runs its commands. After a failure it is restarted
  (`docker-compose.yml:21`) or given up for good (`railway.toml:11`); which of the
  two is not assumed. The steps of a process that wait for nothing outside are
  taken, and the interval fires. Connecting to PostgreSQL ends in time
  (`connectionTimeoutMillis`); a query ends only while PostgreSQL answers, as no
  `query_timeout` or `statement_timeout` is set (`config/database.ts:6`). A
  migration's step is strongly fair: it may have to wait for another runner's
  transaction again and again, but PostgreSQL's lock queue is first come, first
  served; it waits as long as PostgreSQL is silent. Nothing is assumed of clients,
  operators or signals, of anything being published, or of PostgreSQL and Redis
  coming back or breaking their silence.

Three simplifications of `Deployment`: a silent PostgreSQL is silent to everybody
at once; a client that is asked for during the silence may be an idle one of the
pool, even where the pool has none, which only adds queries that wait; and
whether anything was published is decided when the query is answered.

`Forwarding`, `RateLimiter` and `AdminStore` have safety properties only.

## 5. Theorems

TLAPS proves these for every value of the constants that satisfies the named
assumptions of the modules.

| Theorem | States |
|---|---|
| `HotReloadProofs!TypeCorrect`, `NothingHidden` | `[]TypeOK`, `[]NoChangeHidden` |
| `HotReloadProofs!VersionsHaveNoGap` | `[]VersionsGapFree` |
| `HotReloadProofs!Implements` | `HotReload` implements `VersionedConfig` |
| `HotReloadProofs!SerialReloadsAreMonotone` | with one reload slot the cached version never goes back but by a restart |
| `CircuitBreakerProofs!BreakerTyped`, `NeverStuck`, `MetricIsRight` | the invariants of the breaker |
| `CircuitBreakerProofs!FollowsLifecycle`, `MovesAlongLifecycle` | the breaker implements the steps of `BreakerLifecycle`; its state changes along that cycle only |
| `ProxyRequestProofs!ProxyTyped`, `BudgetKept`, `RetriesStop`, `RepliesTrue` | the invariants of a proxied request |
| `ProxyRequestProofs!RepliesCounted` | `[]EveryReplyCounted` |
| `HookProofs!PipelineTyped`, `PersonalStaysPersonal` | `[]TypeOK`, `[]NeverSharesPersonalResponses` |
| `HookProofs!StoredResponsesExpire` | every stored response has a TTL, and a route and an upstream that belong together |
| `HookProofs!NoneUnauthenticated` | where every config asks for a token, no request for a URL outside of the skipped ones is proxied or answered from the cache without one |
| `HookProofs!LimiterTyped`, `BurstKept`, `RejectionsFair` | `[]LimiterTypeOK`, `[]BurstPerWindow`, `[]RejectedOnlyWhenFull` |
| `ForwardingProofs!MatcherTyped`, `UpstreamPathFound`, `MostSpecificFound` | `[]TypeOK`, `[]UpstreamPathIsPath`, `[]MostSpecificWins` |
| `ForwardingProofs!ChainMatches` | every gateway of a chain implements `RouteMatcher` |
| `ForwardingProofs!UpstreamPathFoundInChain`, `MostSpecificFoundInChain` | the same along a chain |
| `ForwardingProofs!BodiesKept`, `TraceKept` | `[]BodiesArrive`, `[]TraceContinues` |
| `UpstreamHealthProofs!HealthTyped`, `FailuresReal` | `[]TypeOK`, `[]FailuresAreReal` |
| `DeploymentProofs!DeploymentTyped`, `LedgerKept`, `ServesComplete`, `StopsCleanly` | `[]TypeOK`, `[]LedgerIsTrue`, `[]ServesCompleteSchema`, `[]StopIsClean` |
| `DeploymentProofs!PoolBounded` | clients lent and lost never exceed the pool |
| `DeploymentProofs!MigrationsStay`, `ConfigStays` | no step takes back a migration or its record; a process that has loaded a config has one until it exits |
| `AdminStoreProofs!AdminTyped`, `NamesStayUnique`, `PoliciesKeepRoutes` | `[]TypeOK`, `[]NamesUnique`, `[]PoliciesHaveRoutes` |
| `AdminStoreProofs!RefusedWroteNothing`, `SuccessPublished` | `[]RefusedChangesNothing`, `[]SuccessIsPublished` |
| `AdminStoreProofs!DeletedForGood` | `DeletedStays` |

*Hot reload.* `NoChangeHidden` is not inductive: it says nothing of reloads and
bumps in flight. The strengthening `ReadInv` is about answers of `getLatest()`:
an answer `v` given when `k` changes were committed is *safe* (`SafeRead`) if
every later change has, or is about to get, a version above `v`. That is so
because the admin of a later change had not read the latest version when `v` was
given, and versions only grow. Safety of an answer is kept by every step, passes
from the answer to the reload that holds it and to the cache it is swapped into,
and gives `NoChangeHidden`. The implementation proof needs in addition that the
latest version moves up by one at most, which holds because a racing bump holds
a latest version no greater than the current one. `VersionsGapFree` holds because
a bump inserts the successor of 0 or of a version that was in the table, and rows
are never deleted.

*Breaker.* `BreakerInv` adds that the reset timer runs exactly while open and
that only a half-open breaker has its close pending. Without the first part a
timer left over could reopen a window for a second probe; without the second the
admission of a call in the closed state would change the state.

*Proxy.* Requests interact through the counters only, so `IInv` says the same of
each request: `PerRequest` relates its record to its attempts. `AttemptsInv`
bounds the attempts by the tries made so far plus the current one, which makes
late executions harmless; `BudgetInv` bounds the tries. `EveryReplyCounted` is
kept as the step that answers a request adds one request to the finite set
counted under its class, and one to the counter of that class, and leaves all
other classes alone (`OneReply`, `CountedOnce`).

*Pipeline.* `Guarded` is what every hook hands on: a request that has a cache key
is anonymous, one in front of the cache has a key, and what is under way to be
stored is not personal. `NeverSharesPersonalResponses` itself says nothing of a
request between its lookup and its SET. As hooks are run through without an
await, one lemma per hook says that it makes a guarded request of a guarded one,
and each cites the lemma of the hook behind it; the actions follow from these
whatever config is in force. The two other theorems are about all of `Moves`, how
one request may move in a step. `NoneUnauthenticated` turns on the absence of
awaits: a request that the token check lets through since no route matches is
refused before any config could give it a route. It says nothing of URLs that the
hook skips, of which the proxy handler serves those no other handler does
(section 6). Where a config has routes without a token check it promises nothing, and `ChecksSettle` is what is left.

*Limiter.* The script counts what the sorted set holds, the promise is about what
was ever admitted. `Forgotten` closes the gap: a stamp that is no longer in the
set, evicted or expired with the key, lies too far back to share a covered window
with any call under way or yet to come. That is the reason why the promise covers
`WindowMs` less the delay and the spread of the clocks: a call executed now was
stamped at most `MaxDelay` ago by a clock at least as fast as the slowest
(`Timely`), while what evicted the stamp was stamped by a clock at most as fast as
the fastest. `Expiring` says the same of the key. `SpreadBounds` finds the extremes
of the clocks by the least and greatest element of a finite set of numbers.
`ScriptKeepsBurst` then shows for windows that end anywhere (`BurstAnywhere`): one
that holds the new stamp holds nothing but it and what the set kept, which are at
most `Burst`. `RejectedOnlyWhenFull` is inductive with these, as a window that was
full stays full (`FullStaysFull`).

*Matcher.* `LoopInv`: the list is sorted and nothing before the cursor matches, so
that the first match is a longest one (`LoopImplies`).
`PathOfMatch`: the upstream path is the one of the route at the cursor; that it
is a path follows from the test for a full segment (`PrefixAndRest`). For
`MostSpecificWins` `MatchesCovers` shows that the comparison of characters and the
promise about segments are the same: that the first characters are those of the
prefix, followed by a slash or nothing, is that the segments of the prefix are
segments of the path. That every character of a prefix is in one of its segments
or between two (`SegmentStart`, `SegmentEnd`) is an induction along the prefix.

*Forwarding.* A step of the chain is a step of the matcher or leaves its
variables alone, so what holds of the matcher holds at every gateway. For bodies
`BodyInv` says what has come to a gateway and is not sent on yet: the client's
body at the first one, and at all others what the first one made of it, which
serialising again leaves as it is. Hence only the first can refuse. For the trace `TraceInv` adds that the
trace settled on is a trace id, of `HexWidth` characters and no dash. Such an id
is taken as it is from a `traceparent` (`TraceIdsParse`) and normalises to itself
(`NormalisedKeepsTraceIds`), so that the second gateway settles on what the first
one sent. That whatever a client sends is normalised to such an id
(`NormalisedIsTraceId`) is an induction along the identifier, over the recursive
function `Undashed`. The library's induction theorems cannot be used; these
inductions take the least counterexample, which exists as `<` is well-founded
(`LeastNatural`), and refute it.

*Prober.* `FailuresAreReal` is not inductive: a pass that has read an entry
writes a count it held meanwhile. `CountsAreReal` says that such a count too is
at most the failures so far, which only grow.

*Deployment.* `MigrationsInv` is about the place of a runner relative to the
ledger: none is beyond the first version that is not recorded (`NotAhead`), one
in front of its COMMIT is exactly there (`CommitsNext`), and the transactions of
one version exclude each other (`Serialised`), without which both of two runners
could pass the test of the primary key. A runner is done only when the ledger is
full (`DoneIsComplete`), and a process runs only in a container whose runner is
done. `StopIsClean` is inductive with the types, as requests begin and timers are
set in earlier phases only; `PoolBounded` counts the borrowers that hold a client
(`Holders`), step by step. `ConfigStays` needs to know that nothing is loaded and
no interval runs before the first load has settled (`StartupInv`), since `Ready`
sets the flag to whatever that load came to.

*Admin store.* `StoreInv` has the shape of the rows besides the two promises of
the tables, `CallsInv` what a call holds between its statements: it has written
exactly if it is about to bump or done, goes on to an UPDATE with a whole row, and
with a body its schema lets through (`BodiesAssumption`). The lookup is of no use
to `NamesUnique`: the UNIQUE constraint, tested in the step that writes, carries
it, as the foreign key does `PoliciesHaveRoutes`. `DeletedStays` is about what a
step does to the tables (`DeletedTables`) and to the calls that had found the
route (`DeletedCalls`). A call that answers `ok` has
bumped after its write, and nothing makes a change of its own unpublished again.

Every invariant the passing runs check is proved, and the steps of both
refinements. Only model-checked is what needs fairness, which is beyond the
prover: `VersionConverges`, `ReadmitsOnceHealthy`, the fairness of
`BreakerLifecycle` in `ImplementsLifecycle`, `EveryRequestAnswered` of both
modules, `StaleResponsesExpire`, `ChecksSettle`, `StatusConverges`,
`BreakerConverges`, `WaitersSettle`, `ShutdownEnds`, `LoadedInTheEnd` and
`ServesInTheEnd`. `StoredResponsesExpire` and `NoneUnauthenticated` are parts of
`StaleResponsesExpire` and `ChecksSettle` that need none.

## 6. Where code and documentation disagree

The three findings of the runs:

1. `hotreload_picked_up`: the routes may be read before a change and the version
   after its bump; the process then never reloads them
   (`services/router/config-cache.ts:42`).
2. `limiter_burst`: checks of one millisecond are one member of the sorted set,
   and all are admitted (`services/ratelimit/rate-limiter.service.ts:42`).
3. `admin_defaulted`: a partial update resets the fields whose schema has a
   default (`schemas/route.schema.ts:182`).

Met while reading or modelling, translated as the code has them, and stated by
no run:

- `config_versions.version` repeats when bumps race
  (`repositories/config-version.repository.ts:28`); `docs/diagrams/data-model.md:34`
  calls it monotonically increasing.
- routes and policies of one cached config may come from two moments of the
  database; `services/router/config-cache.ts:77` calls configs immutable
  snapshots.
- calls that end with a 5xx after all retries resolve and count as successes of
  the breaker (`services/proxy/retry-policy.ts:97`), which is to track persistent
  failures (`services/proxy/upstream-client.ts:13`).
- a half-open breaker is decided by any call in flight, not only by its probe,
  as `docs/diagrams/architecture.md:92` has it; and opens strictly above the
  threshold, where line 90 has "≥".
- retries are not limited to idempotent methods (`schemas/route.schema.ts:153`),
  and attempts the upstream executed are retried
  (`services/proxy/retry-policy.ts:16`).
- a headers timeout is answered with 502, not 504 (`routes/proxy.routes.ts:137`).
- a status of 600 or more is counted twice, once in its own class (`9xx` stands for those) and once as
  the 502 it ends in (`routes/proxy.routes.ts:99`); `nonStandard` in `ProxyRequest`.
- a prefix with a trailing slash, `/` among them, matches only itself and paths
  with an empty segment after it (`services/router/route-matcher.ts:32`).
- an upstream may be unhealthy without three failures in a row when passes
  overlap (`README.md:380`), and the counter is reset by a good probe although
  its comment calls it a total (`services/health/upstream-health.service.ts:17`).
- of two concurrent partial updates the later one puts back what the other
  changed (`repositories/route.repository.ts:77`); an update of a row deleted
  meanwhile is answered with 500 (`:113`).
- a policy may be attached to a route renamed since it was looked up
  (`controllers/policy.controller.ts:44`).
- `canary` and `cache_ttl_seconds` are in no Zod schema of the controllers, so the
  admin API cannot set them (`controllers/route.controller.ts:8`); retries default to 0, not 2
  (`schemas/route.schema.ts:151`).
- `invalidateRoute()` has no caller (`services/cache/cache.service.ts:78`), and a
  stored response carries the x-request-id of the request that stored it
  (`middlewares/cache.middleware.ts:14`).
- the admin key is checked after body validation: a wrong body is told 400
  without a key.
- a JSON body is serialised again (`routes/proxy.routes.ts:67`) and sent with the
  content-length of the client: spaced JSON is answered with 502, which counts
  as a failure of the upstream; JSON numbers, booleans and null are dropped, and
  JSON strings arrive without their quotes. Inside an object or an array some
  values become others: 9007199254740993 arrives as 9007199254740992 under the
  same length, of two equal keys the first goes, and 1e400 arrives as null.
- the hooks for tokens, limits and responses skip every URL that begins with
  `/admin` or `/docs` (`middlewares/auth.middleware.ts:28`,
  `rate-limit.middleware.ts:31`, `cache.middleware.ts:66`), but a route with such a
  prefix, `/docs-v2` or `/administration`, is proxied all the same
  (`routes/proxy.routes.ts:28`): without a token though its policy asks for one,
  where `schemas/policy.schema.ts:23` has "on every request to this route", and
  without a limit. The comment in `middlewares/cache.middleware.ts:66` has them
  "never proxied".
- `traceparent` is not set on the reply, where `README.md:293` has it echoed;
  an `x-request-id` that is no hex makes a trace id that is none
  (`middlewares/trace-id.middleware.ts:30`), and an empty one makes it all zeros.
- a client whose check threw is never released (`config/database.ts:33`):
  `db.end()` then waits for ever at shutdown. If a connection breaks while a
  readiness check holds its client, nobody listens for the `error`, and the
  process exits with 1 (`server.ts:44`).
- queries have no timeout (`config/database.ts:6`), so that a PostgreSQL that is
  silent while it keeps its connections holds those who wait for an answer, and
  with them a shutdown, for as long as it is.
- a gateway whose first load failed is to catch up on the next reload cycle
  (`app.ts:237`). The reload asks for a version above the cached 0
  (`services/router/config-cache.ts:83`), and the migrations insert none: before the
  first `bump()`, or when routes were committed whose bump failed, it stays without
  them.
- `docker-compose.yml:21` restarts a failed container without end,
  `railway.toml:11` three times. Migrations that fail as often, in a race or an
  outage, leave it down until it is deployed again.
- `app.ts:236` has the gateway start with an empty table when PostgreSQL cannot
  be reached, but the container runs the migrations first, which exit with 1. Of
  two that migrate at the same time the loser exits with 1 as well.
- `server.ts:15` names exit code 1 for a SIGTERM; the code exits with 0.
- a Redis that is silent lets `onReady` time out and the process exit
  (`config/redis.ts:7`); later it holds `/readyz` and shutdown for ever.
- `/readyz` does not check that a config is loaded, as its description has it
  (`routes/health.routes.ts:47`); the reply of `/metrics` is cut down to
  `requests`, as its schema names other fields than `getMetrics()` returns.
- entries of upstreams that are no longer routed to stay in the health map, and
  canary upstreams are not probed (`services/health/upstream-health.service.ts:75`).

Two hazards of the list have no property. That persistent 5xx count as successes
(`services/proxy/upstream-client.ts:32`) is how the code is written, and
`CircuitBreaker` takes successes and failures as they come. Concurrent partial
updates (`repositories/route.repository.ts:77`) lose changes, so that there is no
promise to state.

## 7. What is not modelled

- *Traffic splitter*: one random draw per request; probabilities are out of
  TLC's reach, and whichever upstream is drawn is used as any other.
- *JWT service*: signatures and the key cache of libraries. A token is accepted
  or not in `RequestPipeline`.
- *Models, environment, logging, OpenAPI schemas*: types, values parsed once at
  startup, output, documentation. The defaults that validation writes into
  bodies are in `AdminStore`.
- *Metrics*: counters by status class and breaker flags are in `ProxyRequest` and
  `CircuitBreaker`; latency samples and percentiles are synchronous and output
  only.
- *Health routes*: `/readyz` is in `GatewayProcess`; the others copy memory of
  other parts or answer a constant.
- *Headers* other than those of the trace and the framing of the body.
- *Latencies and sizes* anywhere; only the deadlines matter.
- *Example services and tests* are not part of the gateway.

## 8. Plan

Order of work, by the weight of what may go wrong. Done: 1 to 8.

1. `HotReload`, `VersionedConfig` and their proofs.
2. `CircuitBreaker`, `BreakerLifecycle` and their proofs.
3. `ProxyRequest`, `RouteMatcher` and their proofs.
4. `RequestPipeline`, `RateLimiter`, `UpstreamHealth`, `AdminStore`.
5. `Migrations`, `GatewayProcess`, `Deployment` and their proofs.
6. `TraceContext`, `Forwarding` and their proofs; the proofs of `UpstreamHealth`.
7. Theorems about `VersionsGapFree` and `EveryReplyCounted`, and those of
   `AdminStore`.
8. Theorems about `RequestPipeline`, `RateLimiter`, `MostSpecificWins` and
   `TraceContinues`, and the action properties of the breaker, the migrations and
   the loaded config.
9. A composition of `AdminStore` and `HotReload` through `VersionedConfig`: what
   a successful admin call promises of the config every gateway serves.
10. The ring of latency samples at its limit of 1000, percentiles against a
   reference definition.

None of the modules to be proved about uses recursive operators.
