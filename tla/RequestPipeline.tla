---------------------------- MODULE RequestPipeline ----------------------------
(***************************************************************************)
(* The preHandler hooks, the proxy handler and the response cache: what    *)
(* happens to one URL from its arrival to its reply.                       *)
(*                                                                         *)
(* Sources: the hooks registered in app.ts, middlewares/auth.middleware.ts,*)
(* rate-limit.middleware.ts, cache.middleware.ts, services/cache/          *)
(* cache.service.ts, services/auth/jwt.service.ts and the entry of the     *)
(* handler in routes/proxy.routes.ts.                                      *)
(*                                                                         *)
(* Each hook reads getConfig() anew. JavaScript runs from one await on     *)
(* the network to the next, so one action spans the end of a hook and the  *)
(* beginning of the following ones. Between two awaits HotReload may swap  *)
(* the config. RateLimiter and ProxyRequest detail the two calls whose     *)
(* results are arbitrary here.                                             *)
(***************************************************************************)
EXTENDS Integers, FiniteSets

CONSTANTS
    Requests,    \* slots of requests in progress
    Routes,      \* route names the URL may match
    NoRoute,     \* the URL matches no route
    Upstreams,   \* upstream services
    Configs      \* configs in force at one time or another

\* What a config says of this URL: the route matchRoute() finds, its upstream,
\* and its policy: authRequired, and whether the cache TTL is positive.
Config ==
    [route : Routes \cup {NoRoute}, upstream : Upstreams,
     authRequired : BOOLEAN, caching : BOOLEAN]

ASSUME PipelineAssumption ==
    /\ Configs \subseteq Config
    /\ NoRoute \notin Routes

VARIABLES
    config,    \* what getConfig() returns
    request,   \* request[r]: progress of the request in slot r
    cache,     \* cache[k]: Redis entry under the key of route k, for this URL
    skipped,   \* whether the URL is one of those the hooks let through untouched
    silent     \* whether Redis accepts commands and answers none

vars == <<config, request, cache, skipped, silent>>

-----------------------------------------------------------------------------
(* Types *)

Authorizations == {"none", "valid", "invalid"}

\* A stored response: its origin, whether it answered an Authorization,
\* and whether it was stored with a TTL.
Entry ==
    [present : BOOLEAN, route : Routes \cup {NoRoute}, upstream : Upstreams,
     personal : BOOLEAN, expires : BOOLEAN]

NoEntry ==
    [present |-> FALSE, route |-> NoRoute, upstream |-> CHOOSE u \in Upstreams : TRUE,
     personal |-> FALSE, expires |-> FALSE]

Phases == {"idle", "verifying", "limiting", "lookingUp", "proxying", "storing", "answered"}

\* What a reply was: a refusal (401, 404, 429), a stored response or
\* what the handler made of the upstream's answer.
Statuses == {"none", "refused", "hit", "proxied"}

Request ==
    [pc : Phases,
     authorization : Authorizations,   \* the Authorization header and its token
     shareable : BOOLEAN,              \* GET or HEAD without no-cache / no-store
     cacheKey : Routes \cup {NoRoute}, \* requestContext.cacheKey, NoRoute if unset
     served : Entry,                   \* the response under way, its origin
     status : Statuses]

IdleRequest ==
    [pc |-> "idle", authorization |-> "none", shareable |-> FALSE,
     cacheKey |-> NoRoute, served |-> NoEntry, status |-> "none"]

TypeOK ==
    /\ config \in Configs
    /\ request \in [Requests -> Request]
    /\ cache \in [Routes -> Entry]
    /\ skipped \in BOOLEAN /\ silent \in BOOLEAN

-----------------------------------------------------------------------------
(* Replies *)

InProgress(r) == request[r].pc \notin {"idle", "answered"}

Become(r, new) == request' = [request EXCEPT ![r] = new]

\* The request context goes with the reply.
Replied(q, status) ==
    [IdleRequest EXCEPT !.pc = "answered", !.authorization = q.authorization,
                        !.status = status]

-----------------------------------------------------------------------------
(* What a request becomes when a hook lets it through, up to its next await *)

\* The entry of the proxy handler: the route is matched once more and the
\* call to the upstream starts. `served' records where it goes.
EnterHandler(q) ==
    IF config.route = NoRoute
    THEN Replied(q, "refused")
    ELSE [q EXCEPT !.pc = "proxying",
                   !.served = [present |-> TRUE, route |-> config.route,
                               upstream |-> config.upstream,
                               personal |-> q.authorization # "none", expires |-> FALSE]]

\* Variant of Cacheable: the Authorization header does not bypass the cache.
CacheableByMethod(q) == q.shareable

\* isCacheableMethod() and hasBypassHeaders().
Cacheable(q) == q.shareable /\ q.authorization = "none"

\* Variant of buildCacheKey: the key is made of the upstream's name.
cacheKeyOfUpstream == config.upstream

buildCacheKey == config.route

\* cacheMiddleware: looks the key up, or lets the request through.
EnterCache(q) ==
    IF Cacheable(q) /\ ~skipped /\ config.route # NoRoute /\ config.caching
    THEN [q EXCEPT !.pc = "lookingUp", !.cacheKey = buildCacheKey]
    ELSE EnterHandler(q)

\* rateLimitMiddleware: asks Redis, or lets an unmatched request through.
EnterRateLimit(q) ==
    IF ~skipped /\ config.route # NoRoute
    THEN [q EXCEPT !.pc = "limiting"]
    ELSE EnterCache(q)

\* authMiddleware. Its first test, like those of the two hooks above, skips URLs
\* by their beginning (/admin, /docs) or their name (/healthz, /readyz, /metrics):
\* what no other handler serves of them reaches the proxy handler all the same.
EnterAuth(q) ==
    IF skipped \/ config.route = NoRoute \/ ~config.authRequired THEN EnterRateLimit(q)
    ELSE IF q.authorization = "none" THEN Replied(q, "refused")
    ELSE [q EXCEPT !.pc = "verifying"]

-----------------------------------------------------------------------------
(* Actions *)

Arrive(r) ==
    /\ ~InProgress(r)
    /\ \E authorization \in Authorizations, shareable \in BOOLEAN :
           Become(r, EnterAuth([IdleRequest EXCEPT !.authorization = authorization,
                                                   !.shareable = shareable]))
    /\ UNCHANGED <<config, cache, skipped, silent>>

\* Variant of Verified: a token that does not verify leaves the user unknown.
VerifiedLeniently(r) ==
    /\ request[r].pc = "verifying"
    /\ Become(r, EnterRateLimit(request[r]))
    /\ UNCHANGED <<config, cache, skipped, silent>>

\* verifyToken() settles. It also fails when the JWKS endpoint does.
Verified(r) ==
    /\ request[r].pc = "verifying"
    /\ \/ /\ request[r].authorization = "valid"
          /\ Become(r, EnterRateLimit(request[r]))
       \/ Become(r, Replied(request[r], "refused"))
    /\ UNCHANGED <<config, cache, skipped, silent>>

\* checkRateLimit() settles: allowed, which it also says when Redis fails, or not.
Limited(r) ==
    /\ request[r].pc = "limiting" /\ ~silent
    /\ \/ Become(r, EnterCache(request[r]))
       \/ Become(r, Replied(request[r], "refused"))
    /\ UNCHANGED <<config, cache, skipped, silent>>

\* Variant of LookedUp: a miss and a Redis error let nothing through.
LookedUpHitsOnly(r) ==
    /\ request[r].pc = "lookingUp" /\ ~silent
    /\ cache[request[r].cacheKey].present
    /\ Become(r, Replied(request[r], "hit"))
    /\ UNCHANGED <<config, cache, skipped, silent>>

\* getCached() settles with the entry, or with null on a miss or a Redis error.
LookedUp(r) ==
    /\ request[r].pc = "lookingUp" /\ ~silent
    /\ \/ /\ cache[request[r].cacheKey].present
          /\ Become(r, Replied(request[r], "hit"))
       \/ Become(r, EnterHandler(request[r]))
    /\ UNCHANGED <<config, cache, skipped, silent>>

\* The handler replies, with whatever status. cacheOnSend stores a 2xx answer
\* unless the upstream says no-store.
Proxied(r) ==
    /\ request[r].pc = "proxying"
    /\ \/ Become(r, Replied(request[r], "proxied"))
       \/ /\ request[r].cacheKey # NoRoute
          /\ Become(r, [request[r] EXCEPT !.pc = "storing"])
    /\ UNCHANGED <<config, cache, skipped, silent>>

\* Variant of Stored: SET without EX.
StoredForever(r) ==
    /\ request[r].pc = "storing" /\ ~silent
    /\ Become(r, Replied(request[r], "proxied"))
    /\ cache' \in {[cache EXCEPT ![request[r].cacheKey] = request[r].served], cache}
    /\ UNCHANGED <<config, skipped, silent>>

\* setCached() settles, with the entry written or not: SET with EX.
Stored(r) ==
    /\ request[r].pc = "storing" /\ ~silent
    /\ Become(r, Replied(request[r], "proxied"))
    /\ LET entry == [request[r].served EXCEPT !.expires = TRUE]
       IN  cache' \in {[cache EXCEPT ![request[r].cacheKey] = entry], cache}
    /\ UNCHANGED <<config, skipped, silent>>

\* Redis drops an entry whose TTL is over.
Expire(k) ==
    /\ cache[k].expires
    /\ cache' = [cache EXCEPT ![k] = NoEntry]
    /\ UNCHANGED <<config, request, skipped, silent>>

\* A reload of HotReload swaps the config. The cache is left alone:
\* invalidateRoute() has no caller.
Swap ==
    /\ config' \in Configs
    /\ UNCHANGED <<request, cache, skipped, silent>>

\* Redis falls silent, or answers again: the commands it holds then settle.
RedisChanges ==
    /\ silent' = ~silent
    /\ UNCHANGED <<config, request, cache, skipped>>

-----------------------------------------------------------------------------
(* Specification *)

Init ==
    /\ config \in Configs
    /\ request = [r \in Requests |-> IdleRequest]
    /\ cache = [k \in Routes |-> NoEntry]
    /\ skipped \in BOOLEAN /\ silent = FALSE

Step(r) == Verified(r) \/ Limited(r) \/ LookedUp(r) \/ Proxied(r) \/ Stored(r)

Next ==
    \/ \E r \in Requests : Arrive(r) \/ Step(r)
    \/ \E k \in Routes : Expire(k)
    \/ Swap \/ RedisChanges

Spec == Init /\ [][Next]_vars

\* Token checks and upstream calls settle: their requests have timeouts. Commands
\* settle while Redis answers or refuses (maxRetriesPerRequest in config/redis.ts
\* bounds their retries); no commandTimeout ends the wait for a silent one. Redis
\* expires keys. Nothing is assumed of RedisChanges: it may stay silent for ever.
Fairness ==
    /\ \A r \in Requests : WF_vars(Step(r))
    /\ \A k \in Routes : WF_vars(Expire(k))

FairSpec == Spec /\ Fairness

-----------------------------------------------------------------------------
(* Properties *)

\* A response to a request with an Authorization header is never stored, and
\* such a request is never answered with a stored response, whatever policy
\* was in force at each hook.
NeverSharesPersonalResponses ==
    /\ \A k \in Routes : ~cache[k].personal
    /\ \A r \in Requests : request[r].status = "hit" => request[r].authorization = "none"

\* A request waits for the answer to a command.
AwaitsRedis(r) == request[r].pc \in {"limiting", "lookingUp", "storing"}

\* A request is answered in the end, also when Redis or the token check fails,
\* and whatever becomes of the config. All that can hold it is a Redis that falls
\* silent on one of its up to three commands.
EveryRequestAnswered ==
    \A r \in Requests :
        request[r].pc # "idle" ~> request[r].pc = "answered" \/ (silent /\ AwaitsRedis(r))

\* Nothing invalidates a stored response, but once the config stays put those
\* of other routes and upstreams go: the entries in Redis expire, and a response
\* in flight is stored at most once more, be it under the key of another route.
StaleResponsesExpire ==
    \A c \in Configs :
        <>[](config = c) =>
            <>[](\A k \in Routes : cache[k].present =>
                    /\ k = c.route
                    /\ cache[k].route = k
                    /\ cache[k].upstream = c.upstream)

\* "When `true`, the gateway validates a Bearer JWT on every request to this
\* route" (schemas/policy.schema.ts), but for the URLs that the hook skips, once
\* the config stays put: the hook that checks a request and the handler that
\* proxies it read the config separately, and requests that met two configs come
\* to an end.
ChecksSettle ==
    \A c \in Configs :
        <>[](config = c) =>
            <>[](\A r \in Requests :
                    request[r].pc = "proxying" =>
                        /\ request[r].served.route = c.route
                        /\ ~skipped /\ c.authRequired => request[r].authorization = "valid")

=============================================================================
