----------------------------- MODULE UpstreamHealth -----------------------------
(***************************************************************************)
(* The background prober: its start and every interval begin a pass over   *)
(* the upstreams of the routing table, whether or not the last pass has    *)
(* ended, which records a status and the state of the breaker for each.    *)
(*                                                                         *)
(* Source: services/health/upstream-health.service.ts.                     *)
(*                                                                         *)
(* Left out: latencies but for the threshold, and timestamps. A pass takes *)
(* its upstreams in any order. Counters stop at MaxCount, which is beyond  *)
(* every threshold. Breakers move as CircuitBreaker lets them; one that    *)
(* was never used counts as closed.                                        *)
(***************************************************************************)
EXTENDS Integers, FiniteSets

CONSTANTS
    Upstreams,   \* "host:port"
    Passes,      \* slots for running passes: how many may overlap
    None,        \* no upstream
    MaxCount     \* bound on the counters

ASSUME HealthAssumption == None \notin Upstreams /\ MaxCount \in Nat /\ MaxCount >= 4

VARIABLES
    stable,      \* upstreams of the enabled routes
    down,        \* down[u]: upstream u does not answer
    breaker,     \* breaker[u]: state of its circuit breaker
    timer,       \* whether the interval is set
    healthMap,   \* healthMap[u]: the entry, NoEntry before the first probe
    pass,        \* pass[p]: progress of runHealthChecks
    failed       \* history: failed probes of an upstream

vars == <<stable, down, breaker, timer, healthMap, pass, failed>>

Results == {"answered", "slow", "failed"}

NoEntry == [status |-> "unknown", consecutiveFailures |-> 0, circuitBreaker |-> "closed"]

BreakerStates == {"closed", "open", "halfOpen"}

Entry ==
    [status : {"healthy", "degraded", "unhealthy", "unknown"},
     consecutiveFailures : 0 .. MaxCount,
     circuitBreaker : BreakerStates]

Pass ==
    [running : BOOLEAN,
     todo : SUBSET Upstreams,         \* upstreams left to check
     probing : Upstreams \cup {None},
     existing : 0 .. MaxCount,        \* existing.consecutiveFailures
     possible : SUBSET Results]       \* how the probe may turn out

TypeOK ==
    /\ stable \subseteq Upstreams
    /\ down \in [Upstreams -> BOOLEAN]
    /\ breaker \in [Upstreams -> BreakerStates]
    /\ timer \in BOOLEAN
    /\ healthMap \in [Upstreams -> Entry]
    /\ pass \in [Passes -> Pass]
    /\ failed \in [Upstreams -> 0 .. MaxCount]

-----------------------------------------------------------------------------
(* The surroundings *)

ResultsWhen(isDown) == IF isDown THEN {"failed"} ELSE {"answered", "slow"}

\* An upstream fails or recovers; a probe under way may see it before or after.
UpstreamChanges(u) ==
    /\ down' = [down EXCEPT ![u] = ~down[u]]
    /\ pass' = [p \in Passes |->
           IF pass[p].probing = u
           THEN [pass[p] EXCEPT !.possible = @ \cup ResultsWhen(~down[u])]
           ELSE pass[p]]
    /\ UNCHANGED <<stable, breaker, timer, healthMap, failed>>

\* A hot reload swaps the routing table.
ConfigChanges ==
    /\ stable' \in SUBSET Upstreams
    /\ UNCHANGED <<down, breaker, timer, healthMap, pass, failed>>

\* Requests move the breaker of an upstream.
BreakerMoves(u) ==
    /\ breaker' \in {[breaker EXCEPT ![u] = next] :
           next \in CASE breaker[u] = "closed" -> {"open"}
                      [] breaker[u] = "open" -> {"halfOpen"}
                      [] OTHER -> {"open", "closed"}}
    /\ UNCHANGED <<stable, down, timer, healthMap, pass, failed>>

-----------------------------------------------------------------------------
(* runHealthChecks *)

Idle == [running |-> FALSE, todo |-> {}, probing |-> None, existing |-> 0, possible |-> {}]

\* Between two probes, with these upstreams left.
Underway(todo) ==
    [running |-> TRUE, todo |-> todo, probing |-> None, existing |-> 0, possible |-> {}]

\* A pass reads the routing table.
Launch(p) ==
    /\ ~pass[p].running
    /\ pass' = [pass EXCEPT ![p] = Underway(stable)]
    /\ UNCHANGED <<stable, down, breaker, healthMap, failed>>

\* startHealthChecks(): a pass at once, and the interval.
startHealthChecks(p) == ~timer /\ timer' = TRUE /\ Launch(p)

\* The interval fires.
StartPass(p) == timer /\ Launch(p) /\ UNCHANGED timer

\* stopHealthChecks(): passes under way go on.
stopHealthChecks ==
    /\ timer
    /\ timer' = FALSE
    /\ UNCHANGED <<stable, down, breaker, healthMap, pass, failed>>

\* The entry is read, and the HEAD request is sent.
BeginProbe(p) ==
    /\ pass[p].running /\ pass[p].probing = None
    /\ \E u \in pass[p].todo :
           pass' = [pass EXCEPT ![p] =
               [running |-> TRUE,
                todo |-> pass[p].todo \ {u},
                probing |-> u,
                existing |-> healthMap[u].consecutiveFailures,
                possible |-> ResultsWhen(down[u])]]
    /\ UNCHANGED <<stable, down, breaker, timer, healthMap, failed>>

Count(n) == IF n < MaxCount THEN n + 1 ELSE n

\* Variant of NextFailures: a failure starts anew.
NextFailuresForgetful(result, existing) == IF result = "failed" THEN 1 ELSE 0

NextFailures(result, existing) == IF result = "failed" THEN Count(existing) ELSE 0

\* Variant of statusFromProbe: off by one.
StatusTooSoon(result, consecutive) ==
    CASE result = "failed" /\ consecutive >= 2 -> "unhealthy"
      [] result = "answered" -> "healthy"
      [] OTHER -> "degraded"

statusFromProbe(result, consecutive) ==
    CASE result = "failed" /\ consecutive >= 3 -> "unhealthy"
      [] result = "answered" -> "healthy"
      [] OTHER -> "degraded"

\* Variant of CurrentBreaker: half-open is forgotten.
CurrentBreakerOpened(u) == IF breaker[u] = "open" THEN "open" ELSE "closed"

\* `opened' and `halfOpen' of the breaker, at the time the probe has ended.
CurrentBreaker(u) == breaker[u]

\* The probe ends, and the entry is replaced.
EndProbe(p) ==
    /\ pass[p].probing # None
    /\ \E result \in pass[p].possible :
           LET u == pass[p].probing
               n == NextFailures(result, pass[p].existing)
           IN  /\ healthMap' = [healthMap EXCEPT ![u] =
                      [status |-> statusFromProbe(result, n), consecutiveFailures |-> n,
                       circuitBreaker |-> CurrentBreaker(u)]]
               /\ failed' = [failed EXCEPT ![u] = IF result = "failed" THEN Count(@) ELSE @]
    /\ pass' = [pass EXCEPT ![p] = Underway(pass[p].todo)]
    /\ UNCHANGED <<stable, down, breaker, timer>>

EndPass(p) ==
    /\ pass[p].running /\ pass[p].probing = None /\ pass[p].todo = {}
    /\ pass' = [pass EXCEPT ![p] = Idle]
    /\ UNCHANGED <<stable, down, breaker, timer, healthMap, failed>>

-----------------------------------------------------------------------------
(* Specification *)

Init ==
    /\ stable \in SUBSET Upstreams
    /\ down \in [Upstreams -> BOOLEAN]
    /\ breaker = [u \in Upstreams |-> "closed"]
    /\ timer = FALSE
    /\ healthMap = [u \in Upstreams |-> NoEntry]
    /\ pass = [p \in Passes |-> Idle]
    /\ failed = [u \in Upstreams |-> 0]

PassStep(p) == StartPass(p) \/ BeginProbe(p) \/ EndProbe(p) \/ EndPass(p)

Next ==
    \/ \E p \in Passes : startHealthChecks(p) \/ PassStep(p)
    \/ stopHealthChecks
    \/ \E u \in Upstreams : UpstreamChanges(u) \/ BreakerMoves(u)
    \/ ConfigChanges

Spec == Init /\ [][Next]_vars

\* The interval goes on firing, and probes have timeouts.
FairSpec == Spec /\ \A p \in Passes : WF_vars(PassStep(p))

-----------------------------------------------------------------------------
(* Properties *)

\* However passes overlap, failures are not counted more often than they
\* happened, and an upstream is unhealthy only after three of them.
FailuresAreReal ==
    \A u \in Upstreams :
        /\ healthMap[u].consecutiveFailures <= failed[u]
        /\ healthMap[u].status = "unhealthy" => failed[u] >= 3

Watched(u) == timer /\ u \in stable

\* A watched upstream that stays down is in the end reported unhealthy for
\* good, and one that stays up never reported so again, though overlapping
\* passes overwrite each other's counts.
StatusConverges ==
    \A u \in Upstreams :
        /\ <>[](Watched(u) /\ down[u]) => <>[](healthMap[u].status = "unhealthy")
        /\ <>[](Watched(u) /\ ~down[u]) => <>[](healthMap[u].status \in {"healthy", "degraded"})

\* The entry of a watched upstream comes to show the state its breaker stays in,
\* whatever older passes had still to write, and half-open is told from closed.
BreakerConverges ==
    \A u \in Upstreams, state \in BreakerStates :
        <>[](Watched(u) /\ breaker[u] = state) => <>[](healthMap[u].circuitBreaker = state)

=============================================================================
