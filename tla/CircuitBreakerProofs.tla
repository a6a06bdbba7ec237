-------------------------- MODULE CircuitBreakerProofs --------------------------
(***************************************************************************)
(* Theorems about CircuitBreaker for every set of calls, threshold and     *)
(* window: type correctness, NeverStuckHalfOpen, MetricFollowsBreaker and  *)
(* the steps of the abstract life cycle.                                   *)
(***************************************************************************)
EXTENDS CircuitBreaker, TLAPS

\* The strengthening: the reset timer runs exactly while the breaker is open,
\* and only a half-open breaker has its close pending.
FlagsFollowState ==
    /\ breaker.timer <=> breaker.state = "open"
    /\ breaker.pendingClose => breaker.state = "halfOpen"

BreakerInv ==
    /\ TypeOK
    /\ FlagsFollowState
    /\ NeverStuckHalfOpen
    /\ MetricFollowsBreaker

-----------------------------------------------------------------------------
(* Type correctness *)

LEMMA CountsTyped ==
    ASSUME TypeOK
    PROVE  /\ CountFire \in [1 .. Buckets -> Bucket]
           /\ CountFailure \in [1 .. Buckets -> Bucket]
  <1>1. 1 \in 1 .. Buckets
    BY BreakerAssumption
  <1> QED
    BY <1>1 DEF TypeOK, CountFire, CountFailure, Bucket

LEMMA StateChangesTyped ==
    ASSUME TypeOK, Open \/ Close \/ UNCHANGED <<breaker, probe, metric>>
    PROVE  /\ breaker' \in Breaker
           /\ probe' \in Calls \cup {NoCall}
           /\ metric' \in {"none", "open", "closed"}
  <1>1. CASE UNCHANGED <<breaker, probe, metric>>
    BY <1>1 DEF TypeOK
  <1>2. CASE Close
    BY <1>2 DEF Close, Breaker, States
  <1>3. CASE Open /\ breaker.state # "open"
    <2>1. /\ breaker' = [state |-> "open", pendingClose |-> FALSE, timer |-> TRUE]
          /\ probe' = NoCall
          /\ metric' = "open"
      BY <1>3 DEF Open
    <2> QED
      BY <2>1 DEF Breaker, States
  <1>4. CASE Open /\ breaker.state = "open"
    <2>1. UNCHANGED <<breaker, probe, metric>>
      BY <1>4 DEF Open
    <2> QED
      BY <1>1, <2>1
  <1> QED
    BY <1>1, <1>2, <1>3, <1>4

LEMMA NextTypeOK == TypeOK /\ [Next]_vars => TypeOK'
  <1> SUFFICES ASSUME TypeOK, [Next]_vars PROVE TypeOK'
    OBVIOUS
  <1> USE DEF TypeOK
  <1>1. ASSUME NEW c \in Calls, FireAdmitted(c) PROVE TypeOK'
    BY <1>1, CountsTyped DEF FireAdmitted, Breaker, CallState
  <1>2. ASSUME NEW c \in Calls, FireRejected(c) PROVE TypeOK'
    BY <1>2, CountsTyped DEF FireRejected
  <1>3. ASSUME NEW c \in Calls, Resolve(c) PROVE TypeOK'
    <2>1. Close \/ UNCHANGED <<breaker, probe, metric>>
      BY <1>3 DEF Resolve
    <2>2. call' \in [Calls -> CallState]
      BY <1>3 DEF Resolve, CallState
    <2> QED
      BY <1>3, <2>1, <2>2, StateChangesTyped DEF Resolve
  <1>4. ASSUME NEW c \in Calls, Reject(c) PROVE TypeOK'
    <2>1. Open \/ UNCHANGED <<breaker, probe, metric>>
      BY <1>4 DEF Reject
    <2>2. call' \in [Calls -> CallState]
      BY <1>4 DEF Reject, CallState
    <2> QED
      BY <1>4, <2>1, <2>2, CountsTyped, StateChangesTyped DEF Reject
  <1>5. CASE ResetTimeout
    BY <1>5 DEF ResetTimeout, Breaker, States
  <1>6. CASE Rotate
    <2>1. window' \in [1 .. Buckets -> Bucket]
      <3>1. ASSUME NEW i \in 1 .. Buckets, i # 1 PROVE i - 1 \in 1 .. Buckets
        BY <3>1, BreakerAssumption
      <3> QED
        BY <1>6, <3>1 DEF Rotate, EmptyBucket, Bucket
    <2> QED
      BY <1>6, <2>1 DEF Rotate
  <1>7. CASE UpstreamFails
    BY <1>7 DEF UpstreamFails, CallState
  <1>8. CASE UpstreamRecovers
    BY <1>8 DEF UpstreamRecovers
  <1>9. CASE UNCHANGED vars
    BY <1>9 DEF vars
  <1> QED
    BY <1>1, <1>2, <1>3, <1>4, <1>5, <1>6, <1>7, <1>8, <1>9 DEF Next

-----------------------------------------------------------------------------
(* Half-open and the metric *)

LEMMA InitBreakerInv == Init => BreakerInv
  BY DEF Init, BreakerInv, TypeOK, FlagsFollowState, NeverStuckHalfOpen,
         MetricFollowsBreaker, Breaker, States, Bucket, EmptyBucket, CallState

LEMMA NextBreakerInv == BreakerInv /\ [Next]_vars => BreakerInv'
  <1> SUFFICES ASSUME BreakerInv, [Next]_vars PROVE BreakerInv'
    OBVIOUS
  <1>0. TypeOK'
    BY NextTypeOK DEF BreakerInv
  <1> USE <1>0 DEF BreakerInv, TypeOK, Breaker, States, FlagsFollowState,
                   NeverStuckHalfOpen, MetricFollowsBreaker, InFlight
  <1>1. ASSUME NEW c \in Calls, FireAdmitted(c) PROVE BreakerInv'
    BY <1>1 DEF FireAdmitted, Admits
  <1>2. ASSUME NEW c \in Calls, FireRejected(c) PROVE BreakerInv'
    BY <1>2 DEF FireRejected
  <1>3. ASSUME NEW c \in Calls, Resolve(c) PROVE BreakerInv'
    BY <1>3 DEF Resolve, Close
  <1>4. ASSUME NEW c \in Calls, Reject(c) PROVE BreakerInv'
    BY <1>4 DEF Reject, Open
  <1>5. CASE ResetTimeout
    BY <1>5 DEF ResetTimeout
  <1>6. CASE Rotate
    BY <1>6 DEF Rotate
  <1>7. CASE UpstreamFails
    BY <1>7 DEF UpstreamFails
  <1>8. CASE UpstreamRecovers
    BY <1>8 DEF UpstreamRecovers
  <1>9. CASE UNCHANGED vars
    BY <1>9 DEF vars
  <1> QED
    BY <1>1, <1>2, <1>3, <1>4, <1>5, <1>6, <1>7, <1>8, <1>9 DEF Next

\* The strengthened invariant holds always: timer, pending close, probe and metric
\* agree with the state of the breaker (circuit-breaker.ts).
THEOREM BreakerInvariant == Spec => []BreakerInv
  BY InitBreakerInv, NextBreakerInv, PTL DEF Spec

\* The state of CircuitBreaker keeps its types.
THEOREM BreakerTyped == Spec => []TypeOK
  <1>1. BreakerInv => TypeOK
    BY DEF BreakerInv
  <1> QED
    BY <1>1, BreakerInvariant, PTL

\* A half-open breaker that rejects calls always has its probe in flight, for
\* any number of calls settling in any order.
THEOREM NeverStuck == Spec => []NeverStuckHalfOpen
  <1>1. BreakerInv => NeverStuckHalfOpen
    BY DEF BreakerInv
  <1> QED
    BY <1>1, BreakerInvariant, PTL

\* The metric says open exactly while the breaker is not closed.
THEOREM MetricIsRight == Spec => []MetricFollowsBreaker
  <1>1. BreakerInv => MetricFollowsBreaker
    BY DEF BreakerInv
  <1> QED
    BY <1>1, BreakerInvariant, PTL

-----------------------------------------------------------------------------
(* The steps of the abstract life cycle *)

LEMMA NextLifecycle == BreakerInv /\ [Next]_vars => [Lifecycle!Next]_(Lifecycle!vars)
  <1> SUFFICES ASSUME BreakerInv, [Next]_vars
               PROVE  [Lifecycle!Next]_(Lifecycle!vars)
    OBVIOUS
  <1> USE DEF BreakerInv, TypeOK, Breaker, States, FlagsFollowState, Admits
  <1>1. ASSUME NEW c \in Calls, FireAdmitted(c)
        PROVE  Lifecycle!AdmitProbe \/ UNCHANGED Lifecycle!vars
    BY <1>1 DEF FireAdmitted, Lifecycle!AdmitProbe, Lifecycle!vars
  <1>2. ASSUME NEW c \in Calls, FireRejected(c) PROVE UNCHANGED Lifecycle!vars
    BY <1>2 DEF FireRejected, Lifecycle!vars
  <1>3. ASSUME NEW c \in Calls, Resolve(c)
        PROVE  Lifecycle!Recover \/ UNCHANGED Lifecycle!vars
    BY <1>3 DEF Resolve, Close, Lifecycle!Recover, Lifecycle!vars
  <1>4. ASSUME NEW c \in Calls, Reject(c)
        PROVE  Lifecycle!Trip \/ Lifecycle!Relapse \/ UNCHANGED Lifecycle!vars
    BY <1>4 DEF Reject, Open, Lifecycle!Trip, Lifecycle!Relapse, Lifecycle!vars
  <1>5. CASE ResetTimeout
    <2>1. Lifecycle!Wait
      BY <1>5 DEF ResetTimeout, Lifecycle!Wait
    <2> QED
      BY <2>1 DEF Lifecycle!Next
  <1>6. CASE Rotate \/ UpstreamFails \/ UpstreamRecovers \/ UNCHANGED vars
    BY <1>6 DEF Rotate, UpstreamFails, UpstreamRecovers, vars, Lifecycle!vars
  <1> QED
    BY <1>1, <1>2, <1>3, <1>4, <1>5, <1>6 DEF Next, Lifecycle!Next

\* Every behaviour of the breaker, late results included, is one of the
\* abstract life cycle (its fairness is left to the model checker).
THEOREM FollowsLifecycle == Spec => Lifecycle!Spec
  <1>1. Init => Lifecycle!Init
    BY DEF Init, Admits, Lifecycle!Init
  <1> QED
    BY <1>1, BreakerInvariant, NextLifecycle, PTL DEF Spec, Lifecycle!Spec

\* The moves of the breaker as others see it, the health prober among them.
StateMoves ==
    <<breaker.state, breaker'.state>> \in
        {<<"closed", "open">>, <<"open", "halfOpen">>,
         <<"halfOpen", "open">>, <<"halfOpen", "closed">>}

\* The state of a breaker changes along its life cycle only: no late result
\* closes an open breaker or moves a closed one to half-open, which is what
\* UpstreamHealth takes for granted of the breakers it reads.
THEOREM MovesAlongLifecycle == Spec => [][breaker.state' = breaker.state \/ StateMoves]_vars
  <1>1. BreakerInv /\ [Next]_vars => [breaker.state' = breaker.state \/ StateMoves]_vars
    <2> SUFFICES ASSUME BreakerInv, [Next]_vars
                 PROVE  breaker.state' = breaker.state \/ StateMoves
      OBVIOUS
    <2> QED
      BY NextLifecycle DEF Lifecycle!Next, Lifecycle!Trip, Lifecycle!Wait, Lifecycle!AdmitProbe,
             Lifecycle!Recover, Lifecycle!Relapse, Lifecycle!vars, StateMoves
  <1> QED
    BY <1>1, BreakerInvariant, PTL DEF Spec

=============================================================================
