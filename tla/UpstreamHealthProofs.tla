-------------------------- MODULE UpstreamHealthProofs --------------------------
(***************************************************************************)
(* Theorems about UpstreamHealth for every number of upstreams and of      *)
(* overlapping passes: type correctness and FailuresAreReal.               *)
(***************************************************************************)
EXTENDS UpstreamHealth, TLAPS

(* FailuresAreReal says nothing of the count that a pass has read and will
   build upon. It is at most the failures so far as well, and these only grow. *)

CountsAreReal ==
    \A p \in Passes, u \in Upstreams :
        pass[p].probing = u => pass[p].existing <= failed[u]

HealthInv == TypeOK /\ FailuresAreReal /\ CountsAreReal

-----------------------------------------------------------------------------
(* Types *)

LEMMA BoundTyped == MaxCount \in Nat /\ MaxCount >= 4
  BY HealthAssumption

LEMMA CountTyped ==
    ASSUME NEW n \in 0 .. MaxCount, NEW m \in 0 .. MaxCount, n <= m
    PROVE  Count(n) \in 0 .. MaxCount /\ Count(n) <= Count(m) /\ m <= Count(m) /\ n <= Count(m)
  BY BoundTyped DEF Count

LEMMA IdleTyped == Idle \in Pass /\ Idle.probing = None /\ Idle.existing = 0
  BY BoundTyped DEF Idle, Pass

LEMMA UnderwayTyped ==
    ASSUME NEW todo \in SUBSET Upstreams
    PROVE  Underway(todo) \in Pass /\ Underway(todo).probing = None
  BY BoundTyped DEF Underway, Pass

LEMMA EntryTyped ==
    ASSUME TypeOK, NEW u \in Upstreams
    PROVE  /\ healthMap[u].consecutiveFailures \in 0 .. MaxCount
           /\ failed[u] \in 0 .. MaxCount
  BY DEF TypeOK, Entry

LEMMA PassTyped ==
    ASSUME TypeOK, NEW p \in Passes
    PROVE  /\ pass[p] \in Pass
           /\ pass[p].todo \subseteq Upstreams
           /\ pass[p].probing \in Upstreams \cup {None}
           /\ pass[p].existing \in 0 .. MaxCount
           /\ pass[p].possible \subseteq Results
  BY DEF TypeOK, Pass

\* One pass moves on to a record `next'.
LEMMA PassMoves ==
    ASSUME TypeOK, NEW p \in Passes, NEW next \in Pass, pass' = [pass EXCEPT ![p] = next]
    PROVE  /\ pass' \in [Passes -> Pass]
           /\ pass'[p] = next
           /\ \A other \in Passes \ {p} : pass'[other] = pass[other]
  BY DEF TypeOK

-----------------------------------------------------------------------------
(* Steps *)

\* A step of one pass that touches no entry: it may begin a probe, with the count
\* of the entry.
LEMMA QuietPass ==
    ASSUME HealthInv, NEW p \in Passes, NEW next \in Pass,
           pass' = [pass EXCEPT ![p] = next],
           next.probing = None
               \/ next.existing = healthMap[next.probing].consecutiveFailures,
           timer' \in BOOLEAN,
           UNCHANGED <<stable, down, breaker, healthMap, failed>>
    PROVE  HealthInv'
  <1>1. /\ pass' \in [Passes -> Pass]
        /\ pass'[p] = next
        /\ \A other \in Passes \ {p} : pass'[other] = pass[other]
    BY PassMoves DEF HealthInv
  <1>2. TypeOK'
    BY <1>1 DEF HealthInv, TypeOK
  <1>3. FailuresAreReal'
    BY DEF HealthInv, FailuresAreReal
  <1>4. CountsAreReal'
    <2> SUFFICES ASSUME NEW q \in Passes, NEW u \in Upstreams, pass'[q].probing = u
                 PROVE  pass'[q].existing <= failed[u]
      BY DEF CountsAreReal
    <2>1. CASE q # p
      BY <1>1, <2>1 DEF HealthInv, CountsAreReal
    <2>2. CASE q = p
      <3>1. next.existing = healthMap[u].consecutiveFailures
        BY <1>1, <2>2, HealthAssumption
      <3> QED
        BY <1>1, <2>2, <3>1 DEF HealthInv, FailuresAreReal
    <2> QED
      BY <2>1, <2>2
  <1> QED
    BY <1>2, <1>3, <1>4 DEF HealthInv

LEMMA LaunchKeeps ==
    ASSUME HealthInv, NEW p \in Passes, Launch(p), timer' \in BOOLEAN PROVE HealthInv'
  <1>1. Underway(stable) \in Pass /\ Underway(stable).probing = None
    BY UnderwayTyped DEF HealthInv, TypeOK
  <1>2. /\ pass' = [pass EXCEPT ![p] = Underway(stable)]
        /\ UNCHANGED <<stable, down, breaker, healthMap, failed>>
    BY DEF Launch
  <1> QED
    BY <1>1, <1>2, QuietPass

LEMMA BeginProbeKeeps ==
    ASSUME HealthInv, NEW p \in Passes, BeginProbe(p) PROVE HealthInv'
  <1>1. PICK u \in pass[p].todo :
            pass' = [pass EXCEPT ![p] =
                [running |-> TRUE, todo |-> pass[p].todo \ {u}, probing |-> u,
                 existing |-> healthMap[u].consecutiveFailures,
                 possible |-> ResultsWhen(down[u])]]
    BY DEF BeginProbe
  <1> DEFINE next == [running |-> TRUE, todo |-> pass[p].todo \ {u}, probing |-> u,
                      existing |-> healthMap[u].consecutiveFailures,
                      possible |-> ResultsWhen(down[u])]
  <1>2. u \in Upstreams /\ pass[p].todo \subseteq Upstreams
    BY PassTyped DEF HealthInv
  <1>3. healthMap[u].consecutiveFailures \in 0 .. MaxCount
    BY <1>2, EntryTyped DEF HealthInv
  <1>4. ResultsWhen(down[u]) \subseteq Results
    BY DEF ResultsWhen, Results
  <1>5. /\ next \in Pass
        /\ next.probing = u
        /\ next.existing = healthMap[u].consecutiveFailures
    BY <1>2, <1>3, <1>4 DEF Pass
  <1>6. pass' = [pass EXCEPT ![p] = next]
    BY <1>1
  <1>7. timer' \in BOOLEAN /\ UNCHANGED <<stable, down, breaker, healthMap, failed>>
    BY DEF BeginProbe, HealthInv, TypeOK
  <1> HIDE DEF next
  <1> QED
    BY <1>5, <1>6, <1>7, QuietPass

LEMMA EndPassKeeps ==
    ASSUME HealthInv, NEW p \in Passes, EndPass(p) PROVE HealthInv'
  <1>1. pass' = [pass EXCEPT ![p] = Idle] /\ UNCHANGED <<stable, down, breaker, healthMap, failed>>
    BY DEF EndPass
  <1>2. timer' \in BOOLEAN
    BY DEF EndPass, HealthInv, TypeOK
  <1> QED
    BY <1>1, <1>2, IdleTyped, QuietPass

\* The entry that replaces another counts no failure that did not happen, since
\* the count it is built upon did not.
LEMMA EndProbeKeeps ==
    ASSUME HealthInv, NEW p \in Passes, EndProbe(p) PROVE HealthInv'
  <1> DEFINE u == pass[p].probing
             next == Underway(pass[p].todo)
  <1>1. u \in Upstreams /\ pass[p].todo \subseteq Upstreams /\ pass[p].existing \in 0 .. MaxCount
    BY PassTyped DEF HealthInv, EndProbe
  <1>2. failed[u] \in 0 .. MaxCount /\ pass[p].existing <= failed[u]
    BY <1>1, EntryTyped DEF HealthInv, CountsAreReal
  <1>3. PICK result \in pass[p].possible :
            /\ healthMap' = [healthMap EXCEPT ![u] =
                   [status |-> statusFromProbe(result, NextFailures(result, pass[p].existing)),
                    consecutiveFailures |-> NextFailures(result, pass[p].existing),
                    circuitBreaker |-> CurrentBreaker(u)]]
            /\ failed' = [failed EXCEPT ![u] =
                   IF result = "failed" THEN Count(failed[u]) ELSE failed[u]]
    BY <1>1 DEF EndProbe, HealthInv, TypeOK
  <1> DEFINE n == NextFailures(result, pass[p].existing)
             m == IF result = "failed" THEN Count(failed[u]) ELSE failed[u]
             entry == [status |-> statusFromProbe(result, n),
                       consecutiveFailures |-> n,
                       circuitBreaker |-> CurrentBreaker(u)]
  <1>4. /\ n \in 0 .. MaxCount /\ m \in 0 .. MaxCount
        /\ n <= m /\ failed[u] <= m
    <2>1. CASE result = "failed"
      BY <1>1, <1>2, <2>1, CountTyped, BoundTyped DEF NextFailures
    <2>2. CASE result # "failed"
      BY <1>1, <1>2, <2>2, BoundTyped DEF NextFailures
    <2> QED
      BY <2>1, <2>2
  <1>5. statusFromProbe(result, n) = "unhealthy" => n >= 3
    BY DEF statusFromProbe
  <1>6. statusFromProbe(result, n) \in {"healthy", "degraded", "unhealthy", "unknown"}
    BY DEF statusFromProbe
  <1>7. CurrentBreaker(u) \in BreakerStates
    BY <1>1 DEF CurrentBreaker, HealthInv, TypeOK
  <1> HIDE DEF n, m
  <1>8. /\ entry \in Entry
        /\ entry.consecutiveFailures = n
        /\ entry.status = "unhealthy" => n >= 3
    BY <1>4, <1>5, <1>6, <1>7 DEF Entry
  <1>9. healthMap' = [healthMap EXCEPT ![u] = entry] /\ failed' = [failed EXCEPT ![u] = m]
    BY <1>3 DEF n, m
  <1>10. pass' = [pass EXCEPT ![p] = next]
    BY DEF EndProbe
  <1>11. next \in Pass /\ next.probing = None
    BY <1>1, UnderwayTyped
  <1> HIDE DEF entry, next, u
  <1>12. /\ healthMap' \in [Upstreams -> Entry] /\ healthMap'[u] = entry
         /\ \A other \in Upstreams \ {u} : healthMap'[other] = healthMap[other]
    BY <1>1, <1>8, <1>9 DEF HealthInv, TypeOK
  <1>13. /\ failed' \in [Upstreams -> 0 .. MaxCount] /\ failed'[u] = m
         /\ \A other \in Upstreams \ {u} : failed'[other] = failed[other]
    BY <1>1, <1>4, <1>9 DEF HealthInv, TypeOK
  <1>14. /\ pass' \in [Passes -> Pass] /\ pass'[p] = next
         /\ \A other \in Passes \ {p} : pass'[other] = pass[other]
    BY <1>10, <1>11, PassMoves DEF HealthInv
  <1>15. TypeOK'
    BY <1>12, <1>13, <1>14 DEF EndProbe, HealthInv, TypeOK
  <1>16. FailuresAreReal'
    <2>1. /\ healthMap'[u].consecutiveFailures <= failed'[u]
          /\ healthMap'[u].status = "unhealthy" => failed'[u] >= 3
      BY <1>4, <1>8, <1>12, <1>13, BoundTyped
    <2> QED
      BY <2>1, <1>12, <1>13 DEF HealthInv, FailuresAreReal
  <1>17. CountsAreReal'
    <2> SUFFICES ASSUME NEW q \in Passes, NEW v \in Upstreams, pass'[q].probing = v
                 PROVE  pass'[q].existing <= failed'[v]
      BY DEF CountsAreReal
    <2>1. q # p
      BY <1>11, <1>14, HealthAssumption
    <2>2. pass[q].probing = v /\ pass'[q].existing = pass[q].existing
      BY <1>14, <2>1
    <2>3. pass[q].existing <= failed[v]
      BY <2>2 DEF HealthInv, CountsAreReal
    <2>4. pass[q].existing \in 0 .. MaxCount /\ failed[v] \in 0 .. MaxCount
      BY PassTyped, EntryTyped DEF HealthInv
    <2>5. failed[v] <= failed'[v]
      BY <1>2, <1>4, <1>13, <2>4, BoundTyped
    <2>6. failed'[v] \in Int /\ MaxCount \in Nat
      BY <1>13, BoundTyped
    <2> QED
      BY <2>2, <2>3, <2>4, <2>5, <2>6
  <1> QED
    BY <1>15, <1>16, <1>17 DEF HealthInv

\* The surroundings leave entries and counts alone.
LEMMA SurroundingsKeep ==
    ASSUME HealthInv,
           ConfigChanges \/ stopHealthChecks
               \/ \E u \in Upstreams : UpstreamChanges(u) \/ BreakerMoves(u)
    PROVE  HealthInv'
  <1>1. CASE ConfigChanges
    BY <1>1 DEF ConfigChanges, HealthInv, TypeOK, FailuresAreReal, CountsAreReal
  <1>2. CASE stopHealthChecks
    <2>1. timer' \in BOOLEAN
      BY <1>2 DEF stopHealthChecks
    <2> QED
      BY <1>2, <2>1
      DEF stopHealthChecks, HealthInv, TypeOK, FailuresAreReal, CountsAreReal
  <1>3. ASSUME NEW u \in Upstreams, BreakerMoves(u) PROVE HealthInv'
    <2>1. breaker' \in [Upstreams -> BreakerStates]
      BY <1>3 DEF BreakerMoves, HealthInv, TypeOK, BreakerStates
    <2> QED
      BY <1>3, <2>1 DEF BreakerMoves, HealthInv, TypeOK, FailuresAreReal, CountsAreReal
  <1>4. ASSUME NEW u \in Upstreams, UpstreamChanges(u) PROVE HealthInv'
    <2>1. ASSUME NEW p \in Passes
          PROVE  /\ pass'[p] \in Pass
                 /\ pass'[p].probing = pass[p].probing
                 /\ pass'[p].existing = pass[p].existing
      <3>1. CASE pass[p].probing # u
        <4>1. pass'[p] = pass[p]
          BY <1>4, <3>1 DEF UpstreamChanges
        <4> QED
          BY <4>1, PassTyped DEF HealthInv
      <3>2. CASE pass[p].probing = u
        <4>1. pass'[p] = [pass[p] EXCEPT !.possible = @ \cup ResultsWhen(~down[u])]
          BY <1>4, <3>2 DEF UpstreamChanges
        <4>2. ResultsWhen(~down[u]) \subseteq Results
          BY DEF ResultsWhen, Results
        <4>3. pass[p] \in Pass
          BY PassTyped DEF HealthInv
        <4> QED
          BY <4>1, <4>2, <4>3 DEF Pass
      <3> QED
        BY <3>1, <3>2
    <2>2. pass' \in [Passes -> Pass]
      BY <1>4, <2>1 DEF UpstreamChanges
    <2>3. down' \in [Upstreams -> BOOLEAN]
      BY <1>4 DEF UpstreamChanges, HealthInv, TypeOK
    <2>4. UNCHANGED <<stable, breaker, timer, healthMap, failed>>
      BY <1>4 DEF UpstreamChanges
    <2>5. TypeOK'
      BY <2>2, <2>3, <2>4 DEF HealthInv, TypeOK
    <2>6. FailuresAreReal' /\ CountsAreReal'
      BY <2>1, <2>4 DEF HealthInv, FailuresAreReal, CountsAreReal
    <2> QED
      BY <2>5, <2>6 DEF HealthInv
  <1> QED
    BY <1>1, <1>2, <1>3, <1>4

-----------------------------------------------------------------------------
(* The invariant *)

LEMMA InitHealthInv == Init => HealthInv
  <1> SUFFICES ASSUME Init PROVE HealthInv
    OBVIOUS
  <1>1. NoEntry \in Entry /\ NoEntry.consecutiveFailures = 0 /\ NoEntry.status # "unhealthy"
    BY BoundTyped DEF NoEntry, Entry, BreakerStates
  <1>2. timer \in BOOLEAN
    BY DEF Init
  <1>3. TypeOK
    BY <1>1, <1>2, IdleTyped, BoundTyped DEF Init, TypeOK, BreakerStates
  <1>4. FailuresAreReal
    BY <1>1 DEF Init, FailuresAreReal
  <1>5. CountsAreReal
    BY IdleTyped DEF Init, CountsAreReal
  <1> QED
    BY <1>3, <1>4, <1>5 DEF HealthInv

LEMMA NextHealthInv == HealthInv /\ [Next]_vars => HealthInv'
  <1> SUFFICES ASSUME HealthInv, [Next]_vars PROVE HealthInv'
    OBVIOUS
  <1>1. ASSUME NEW p \in Passes, startHealthChecks(p) PROVE HealthInv'
    <2>1. timer' \in BOOLEAN
      BY <1>1 DEF startHealthChecks
    <2> QED
      BY <1>1, <2>1, LaunchKeeps DEF startHealthChecks
  <1>2. ASSUME NEW p \in Passes, StartPass(p) PROVE HealthInv'
    BY <1>2, LaunchKeeps DEF StartPass, HealthInv, TypeOK
  <1>3. ASSUME NEW p \in Passes, BeginProbe(p) \/ EndProbe(p) \/ EndPass(p) PROVE HealthInv'
    BY <1>3, BeginProbeKeeps, EndProbeKeeps, EndPassKeeps
  <1>4. CASE ConfigChanges \/ stopHealthChecks
                 \/ \E u \in Upstreams : UpstreamChanges(u) \/ BreakerMoves(u)
    BY <1>4, SurroundingsKeep
  <1>5. CASE UNCHANGED vars
    BY <1>5 DEF vars, HealthInv, TypeOK, FailuresAreReal, CountsAreReal
  <1> QED
    BY <1>1, <1>2, <1>3, <1>4, <1>5 DEF Next, PassStep

\* Every count, in an entry or held by a pass under way, is at most the failures
\* that probes have seen (upstream-health.service.ts).
THEOREM HealthInvariant == Spec => []HealthInv
  BY InitHealthInv, NextHealthInv, PTL DEF Spec

\* Every variable keeps its type.
THEOREM HealthTyped == Spec => []TypeOK
  <1>1. HealthInv => TypeOK
    BY DEF HealthInv
  <1> QED
    BY <1>1, HealthInvariant, PTL

\* However many passes overlap, no entry counts a failure that did not happen,
\* and none is unhealthy before three (upstream-health.service.ts).
THEOREM FailuresReal == Spec => []FailuresAreReal
  <1>1. HealthInv => FailuresAreReal
    BY DEF HealthInv
  <1> QED
    BY <1>1, HealthInvariant, PTL

=============================================================================
