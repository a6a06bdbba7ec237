---------------------------- MODULE CircuitBreaker ----------------------------
(***************************************************************************)
(* The opossum circuit breaker of one upstream (host:port), as             *)
(* services/proxy/circuit-breaker.ts configures it, with the calls that    *)
(* routes/proxy.routes.ts fires through it. Many calls are in flight       *)
(* together and settle in any order, in any state of the breaker.          *)
(*                                                                         *)
(* A call stands for one upstreamRequest(), all its retries included: it   *)
(* resolves (any status the upstream answered last, 5xx too) or rejects.   *)
(* A breaker that does not exist yet behaves as a closed one.              *)
(***************************************************************************)
EXTENDS Integers, Sequences, FiniteSets

CONSTANTS
    Calls,             \* proxied requests that may be in flight together
    NoCall,            \* not a call
    VolumeThreshold,   \* calls the window needs before its error rate counts
    ThresholdPercent,  \* CIRCUIT_BREAKER_ERROR_THRESHOLD_PERCENT
    Buckets,           \* buckets of the rolling window
    MaxFires           \* bound on the calls counted in one window

ASSUME BreakerAssumption ==
    /\ NoCall \notin Calls
    /\ VolumeThreshold \in Nat /\ ThresholdPercent \in Nat
    /\ Buckets \in Nat \ {0}
    /\ MaxFires \in Nat

VARIABLES
    breaker,   \* opossum's state, pending-close flag and reset timer
    window,    \* rolling counts of fires and failures, newest bucket first
    call,      \* call[c]: whether c is in flight, and whether it may fail
    probe,     \* the call admitted in this half-open period, or NoCall
    metric,    \* circuitBreakers[key] of services/metrics/metrics.service.ts
    healthy    \* whether the upstream answers new calls properly

vars == <<breaker, window, call, probe, metric, healthy>>

-----------------------------------------------------------------------------
(* Types *)

States == {"closed", "open", "halfOpen"}

Breaker == [state : States, pendingClose : BOOLEAN, timer : BOOLEAN]

Bucket == [fires : Nat, failures : Nat]

EmptyBucket == [fires |-> 0, failures |-> 0]

CallState == {"idle", "sound", "doomed"}

TypeOK ==
    /\ breaker \in Breaker
    /\ window \in [1 .. Buckets -> Bucket]
    /\ call \in [Calls -> CallState]
    /\ probe \in Calls \cup {NoCall}
    /\ metric \in {"none", "open", "closed"}
    /\ healthy \in BOOLEAN

-----------------------------------------------------------------------------
(* The rolling window *)

Total[field \in {"fires", "failures"}, i \in 0 .. Buckets] ==
    IF i = 0 THEN 0 ELSE window[i][field] + Total[field, i - 1]

Fires == Total["fires", Buckets]
Failures == Total["failures", Buckets]

CountFire == [window EXCEPT ![1].fires = @ + 1]
CountFailure == [window EXCEPT ![1].failures = @ + 1]

\* The error rate exceeds the threshold, strictly, over enough calls.
OverThreshold(fires, failures) ==
    fires >= VolumeThreshold /\ failures * 100 > ThresholdPercent * fires

-----------------------------------------------------------------------------
(* State changes of opossum, with the listeners circuit-breaker.ts adds *)

InFlight(c) == call[c] # "idle"

\* Variant of Open: the reset timer is armed the first time only.
OpenWithoutTimer ==
    IF breaker.state = "open"
    THEN UNCHANGED <<breaker, probe, metric>>
    ELSE /\ breaker' = [state |-> "open", pendingClose |-> FALSE,
                        timer |-> breaker.state = "closed"]
         /\ probe' = NoCall
         /\ metric' = "open"

Open ==
    IF breaker.state = "open"
    THEN UNCHANGED <<breaker, probe, metric>>
    ELSE /\ breaker' = [state |-> "open", pendingClose |-> FALSE, timer |-> TRUE]
         /\ probe' = NoCall
         /\ metric' = "open"

\* Variant of Close: no listener on `close'.
CloseSilently ==
    /\ breaker' = [state |-> "closed", pendingClose |-> FALSE, timer |-> FALSE]
    /\ probe' = NoCall
    /\ UNCHANGED metric

\* close() is only reached from half-open, whose timer has already fired.
Close ==
    /\ breaker' = [state |-> "closed", pendingClose |-> FALSE, timer |-> FALSE]
    /\ probe' = NoCall
    /\ metric' = "closed"

Admits == breaker.state = "closed" \/ breaker.pendingClose

-----------------------------------------------------------------------------
(* Calls *)

\* breaker.fire() when the breaker lets the call through to upstreamRequest().
FireAdmitted(c) ==
    /\ ~InFlight(c)
    /\ Fires < MaxFires
    /\ Admits
    /\ window' = CountFire
    /\ breaker' = [breaker EXCEPT !.pendingClose = FALSE]
    /\ probe' = IF breaker.state = "halfOpen" THEN c ELSE probe
    /\ call' = [call EXCEPT ![c] = IF healthy THEN "sound" ELSE "doomed"]
    /\ UNCHANGED <<metric, healthy>>

\* breaker.fire() when it does not: the call counts as fired, rejects with
\* `Breaker is open', and the handler answers 503.
FireRejected(c) ==
    /\ ~InFlight(c)
    /\ Fires < MaxFires
    /\ ~Admits
    /\ window' = CountFire
    /\ UNCHANGED <<breaker, call, probe, metric, healthy>>

\* upstreamRequest() resolves: opossum emits `success', whatever the status of
\* the answer, and a half-open breaker closes. A 5xx left over when the retries
\* are exhausted is an answer like any other.
Resolve(c) ==
    /\ InFlight(c)
    /\ call' = [call EXCEPT ![c] = "idle"]
    /\ IF breaker.state = "halfOpen" THEN Close ELSE UNCHANGED <<breaker, probe, metric>>
    /\ UNCHANGED <<window, healthy>>

\* Variant of Reject: a failure below the volume threshold is always forgiven.
RejectOverThresholdOnly(c) ==
    /\ call[c] = "doomed"
    /\ call' = [call EXCEPT ![c] = "idle"]
    /\ window' = CountFailure
    /\ IF OverThreshold(Fires, Failures + 1)
       THEN Open
       ELSE UNCHANGED <<breaker, probe, metric>>
    /\ UNCHANGED healthy

\* upstreamRequest() rejects: opossum counts a failure and opens when half-open
\* or over the threshold.
Reject(c) ==
    /\ call[c] = "doomed"
    /\ call' = [call EXCEPT ![c] = "idle"]
    /\ window' = CountFailure
    /\ IF breaker.state = "halfOpen" \/ OverThreshold(Fires, Failures + 1)
       THEN Open
       ELSE UNCHANGED <<breaker, probe, metric>>
    /\ UNCHANGED healthy

-----------------------------------------------------------------------------
(* Time and the upstream *)

\* Variant of ResetTimeout: half-open lets nobody in.
ResetTimeoutShut ==
    /\ breaker.timer
    /\ breaker' = [state |-> "halfOpen", pendingClose |-> FALSE, timer |-> FALSE]
    /\ probe' = NoCall
    /\ UNCHANGED <<window, call, metric, healthy>>

\* CIRCUIT_BREAKER_RESET_TIMEOUT_MS after opening.
ResetTimeout ==
    /\ breaker.timer
    /\ breaker' = [state |-> "halfOpen", pendingClose |-> TRUE, timer |-> FALSE]
    /\ probe' = NoCall
    /\ UNCHANGED <<window, call, metric, healthy>>

\* The oldest bucket leaves the window.
Rotate ==
    /\ window' = [i \in 1 .. Buckets |-> IF i = 1 THEN EmptyBucket ELSE window[i - 1]]
    /\ UNCHANGED <<breaker, call, probe, metric, healthy>>

\* The upstream fails: the calls in flight may fail with it.
UpstreamFails ==
    /\ healthy
    /\ healthy' = FALSE
    /\ call' = [c \in Calls |-> IF InFlight(c) THEN "doomed" ELSE "idle"]
    /\ UNCHANGED <<breaker, window, probe, metric>>

\* The upstream recovers, for the calls fired from now on.
UpstreamRecovers ==
    /\ ~healthy
    /\ healthy' = TRUE
    /\ UNCHANGED <<breaker, window, call, probe, metric>>

-----------------------------------------------------------------------------
(* Specification *)

Init ==
    /\ breaker = [state |-> "closed", pendingClose |-> FALSE, timer |-> FALSE]
    /\ window = [i \in 1 .. Buckets |-> EmptyBucket]
    /\ call = [c \in Calls |-> "idle"]
    /\ probe = NoCall
    /\ metric = "none"
    /\ healthy = TRUE

Next ==
    \/ \E c \in Calls : FireAdmitted(c) \/ FireRejected(c) \/ Resolve(c) \/ Reject(c)
    \/ ResetTimeout
    \/ Rotate
    \/ UpstreamFails
    \/ UpstreamRecovers

Spec == Init /\ [][Next]_vars

\* Timers fire, and every call settles: each attempt of upstreamRequest() runs
\* under AbortSignal.timeout() and attempts are bounded. Nothing is assumed of
\* clients, of the upstream, or of when the window moves.
Fairness ==
    /\ WF_vars(ResetTimeout)
    /\ \A c \in Calls : WF_vars(Resolve(c) \/ Reject(c))

FairSpec == Spec /\ Fairness

-----------------------------------------------------------------------------
(* Properties *)

\* A half-open breaker that rejects calls is waiting for a probe that is still
\* in flight: no order of late results leaves it rejecting with nobody to
\* decide it.
NeverStuckHalfOpen ==
    breaker.state = "halfOpen" /\ ~breaker.pendingClose =>
        probe \in Calls /\ InFlight(probe)

\* /metrics shows an upstream as open exactly while its breaker is not closed;
\* half-open emits no metric of its own.
MetricFollowsBreaker == (metric = "open") <=> (breaker.state # "closed")

\* The breaker implements the abstract life cycle, fairness included: open
\* always comes to half-open, and an admitted probe is always decided.
Lifecycle == INSTANCE BreakerLifecycle WITH
    state <- breaker.state,
    admits <- Admits

ImplementsLifecycle == Lifecycle!FairSpec

\* Once the upstream stays healthy, the breaker stops opening: calls that were
\* doomed before may open it again, but only so often, and no new client
\* request is needed to leave the open state.
ReadmitsOnceHealthy == <>[]healthy => <>[](breaker.state # "open")

=============================================================================
