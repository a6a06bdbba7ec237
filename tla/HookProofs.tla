------------------------------ MODULE HookProofs ------------------------------
(***************************************************************************)
(* Proofs about the hooks in front of the proxy handler: the sliding-      *)
(* window limiter (RateLimiter) and the way of a request past the cache    *)
(* (RequestPipeline). The two are proved independently of each other.      *)
(***************************************************************************)
EXTENDS RequestPipeline, RateLimiter, FiniteSetTheorems, SequenceTheorems,
        NaturalsInduction, WellFoundedInduction, TLAPS

-----------------------------------------------------------------------------
(* Least and greatest numbers *)

\* A non-empty set of numbers has a least one, by the well-foundedness of <.
LEMMA LeastNatural ==
    ASSUME NEW S, S \subseteq Nat, S # {}
    PROVE  \E n \in S : \A m \in S : n <= m
  <1>1. IsWellFoundedOn(OpToRel(<, Nat), Nat)
    BY NatLessThanWellFounded
  <1>2. PICK n \in S : \A m \in S : ~(<<m, n>> \in OpToRel(<, Nat))
    BY <1>1, WFMin
  <1>3. \A m \in S : ~(m < n)
    BY <1>2 DEF OpToRel
  <1> QED
    BY <1>3

HasGreatest(S) == \E n \in S : \A m \in S : n >= m

\* A finite one has a greatest, by the least cardinality that would not.
LEMMA GreatestNatural ==
    ASSUME NEW S, S \subseteq Nat, S # {}, IsFiniteSet(S)
    PROVE  HasGreatest(S)
  <1> DEFINE Bad == {Cardinality(T) : T \in {U \in SUBSET S :
                        IsFiniteSet(U) /\ U # {} /\ ~HasGreatest(U)}}
  <1> SUFFICES ASSUME ~HasGreatest(S)
               PROVE  FALSE
    OBVIOUS
  <1>1. Bad \subseteq Nat /\ Bad # {}
    <2>1. \A T \in SUBSET S : IsFiniteSet(T) => Cardinality(T) \in Nat
      BY FS_CardinalityType
    <2>2. Cardinality(S) \in Bad
      OBVIOUS
    <2> QED
      BY <2>1, <2>2
  <1>2. PICK n \in Bad : \A m \in Bad : n <= m
    BY <1>1, LeastNatural
  <1>3. PICK T \in SUBSET S :
            IsFiniteSet(T) /\ T # {} /\ ~HasGreatest(T) /\ n = Cardinality(T)
    BY <1>2
  <1>4. PICK x \in T : TRUE
    BY <1>3
  <1> DEFINE Rest == T \ {x}
  <1>5. IsFiniteSet(Rest) /\ Cardinality(Rest) = n - 1 /\ n \in Nat
    BY <1>1, <1>2, <1>3, <1>4, FS_RemoveElement
  <1>6. Rest = {} \/ HasGreatest(Rest)
    <2> SUFFICES ASSUME Rest # {}, ~HasGreatest(Rest)
                 PROVE  FALSE
      OBVIOUS
    <2>1. Cardinality(Rest) \in Bad
      BY <1>5
    <2> QED
      BY <1>2, <1>5, <2>1
  <1>7. CASE Rest = {}
    <2>1. T = {x}
      BY <1>4, <1>7
    <2> QED
      BY <1>3, <2>1 DEF HasGreatest
  <1>8. CASE HasGreatest(Rest)
    <2>1. PICK y \in Rest : \A m \in Rest : y >= m
      BY <1>8 DEF HasGreatest
    <2>2. x >= y => \A m \in T : x >= m
      BY <2>1
    <2>3. y >= x => \A m \in T : y >= m
      BY <2>1
    <2> QED
      BY <1>3, <1>4, <2>1, <2>2, <2>3 DEF HasGreatest
  <1> QED
    BY <1>6, <1>7, <1>8

-----------------------------------------------------------------------------
(* The clocks of the gateways *)

Offsets == {Skew[g] : g \in Gateways}
Fastest == Max(Offsets)
Slowest == Min(Offsets)

\* Spread is the distance of the fastest clock to the slowest.
LEMMA SpreadBounds ==
    /\ Fastest \in Nat /\ Slowest \in Nat /\ Slowest <= Fastest
    /\ \A g \in Gateways : Slowest <= Skew[g] /\ Skew[g] <= Fastest
    /\ Spread = Fastest - Slowest
  <1>1. Offsets \subseteq Nat /\ Offsets # {}
    BY RateLimiterAssumption DEF Offsets
  <1>2. IsFiniteSet(Offsets)
    <2> DEFINE f == [g \in Gateways |-> Skew[g]]
    <2>1. f \in Surjection(Gateways, Offsets)
      BY DEF Offsets, Surjection
    <2> QED
      BY <2>1, RateLimiterAssumption, FS_Surjection
  <1>3. \E n \in Offsets : \A m \in Offsets : n >= m
    BY <1>1, <1>2, GreatestNatural DEF HasGreatest
  <1>4. \E n \in Offsets : \A m \in Offsets : n <= m
    BY <1>1, LeastNatural
  <1>5. Fastest \in Offsets /\ \A m \in Offsets : Fastest >= m
    BY <1>3 DEF Fastest, Max
  <1>6. Slowest \in Offsets /\ \A m \in Offsets : Slowest <= m
    BY <1>4 DEF Slowest, Min
  <1>7. Spread = Fastest - Slowest
    BY DEF Spread, Fastest, Slowest, Offsets
  <1>8. \A g \in Gateways : Skew[g] \in Offsets
    BY DEF Offsets
  <1> QED
    BY <1>1, <1>5, <1>6, <1>7, <1>8

-----------------------------------------------------------------------------
(* The inductive invariant of the limiter *)

Stamps == {a.stamp : a \in admitted}

Typed ==
    /\ clock \in Nat /\ clock <= MaxTime /\ expireAt \in Nat
    /\ zset \subseteq Nat
    /\ check \in [Calls -> Check]
    /\ queue \in [Gateways -> Seq(Calls)]
    /\ admitted \subseteq [stamp : Nat, at : Nat]

\* A call is in one place of one connection at most.
QueuedOnce ==
    \A g, h \in Gateways : \A i \in 1 .. Len(queue[g]), j \in 1 .. Len(queue[h]) :
        queue[g][i] = queue[h][j] => g = h /\ i = j

QueuedSent ==
    \A g \in Gateways : \A i \in 1 .. Len(queue[g]) : check[queue[g][i]].pc = "sent"

\* A call under way was sent at most MaxDelay ago and stamped by some gateway.
Sent(c) ==
    /\ check[c].at <= clock /\ clock <= check[c].at + MaxDelay
    /\ check[c].at + Slowest <= check[c].stamp
    /\ check[c].stamp <= check[c].at + Fastest

Timely == \A c \in Calls : check[c].pc = "sent" => Sent(c)

Counted == IsFiniteSet(zset) /\ Cardinality(zset) <= Burst /\ IsFiniteSet(admitted)

Recorded == zset \subseteq Stamps

\* The key outlives every admission by the window.
Expiring ==
    /\ expireAt <= clock + WindowMs
    /\ \A a \in admitted :
           a.at + WindowMs <= expireAt /\ a.stamp <= a.at + Fastest

Kept(s) == s \in zset /\ clock < expireAt

\* The part of the window that BurstPerWindow covers.
Covered == WindowMs - MaxDelay - Spread

\* What the sorted set forgot is too old to share a covered window with any
\* call that is still under way or yet to come.
Forgotten == \A s \in Stamps : ~Kept(s) => s + Covered <= clock - MaxDelay + Slowest

\* BurstPerWindow, for windows that end anywhere.
BurstAnywhere ==
    \A end \in Int : Cardinality(InWindow(Stamps, end, Covered)) <= Burst

LimiterInv ==
    /\ Typed /\ QueuedOnce /\ QueuedSent /\ Timely
    /\ Counted /\ Recorded /\ Expiring /\ Forgotten
    /\ BurstAnywhere /\ RejectedOnlyWhenFull

Limits ==
    /\ Burst \in Nat \ {0} /\ WindowMs \in Nat /\ MaxDelay \in Nat /\ MaxDelay < WindowMs
    /\ Fastest \in Nat /\ Slowest \in Nat /\ Slowest <= Fastest
    /\ Covered = WindowMs - MaxDelay - (Fastest - Slowest)
    /\ Covered \in Int /\ Covered <= WindowMs

LEMMA LimitsHold == Limits
  BY RateLimiterAssumption, SpreadBounds DEF Limits, Covered

-----------------------------------------------------------------------------
(* The script *)

\* It keeps at most Burst entries, each of an admission.
LEMMA ScriptCounts ==
    ASSUME LimiterInv, NEW now \in Nat, SlidingWindowScript(now)
    PROVE  /\ (zset \subseteq Nat /\ expireAt \in Nat /\ admitted \subseteq [stamp : Nat, at : Nat])'
           /\ Counted' /\ Recorded'
  <1> USE LimitsHold DEF Limits
  <1>0. /\ zset \subseteq Nat /\ clock \in Nat /\ expireAt \in Nat
        /\ admitted \subseteq [stamp : Nat, at : Nat]
    BY DEF LimiterInv, Typed
  <1>1. Window(now) \subseteq zset
    BY DEF Window
  <1>2. IsFiniteSet(Window(now)) /\ Cardinality(Window(now)) \in Nat /\ Cardinality(Window(now)) <= Burst
    <2>1. IsFiniteSet(zset) /\ Cardinality(zset) <= Burst
      BY DEF LimiterInv, Counted
    <2>2. IsFiniteSet(Window(now)) /\ Cardinality(Window(now)) <= Cardinality(zset)
      BY <1>1, <2>1, FS_Subset
    <2>3. Cardinality(Window(now)) \in Nat /\ Cardinality(zset) \in Nat
      BY <2>1, <2>2, FS_CardinalityType
    <2> QED
      BY <2>1, <2>2, <2>3
  <1>3. CASE Admits(now)
    <2>1. /\ zset' = Window(now) \cup {now}
          /\ expireAt' = clock + WindowMs
          /\ admitted' = admitted \cup {[stamp |-> now, at |-> clock]}
      BY <1>3 DEF SlidingWindowScript
    <2>2. Cardinality(Window(now)) < Burst
      BY <1>3 DEF Admits
    <2>3. IsFiniteSet(zset') /\ Cardinality(zset') <= Burst
      <3>1. /\ IsFiniteSet(zset')
            /\ Cardinality(zset') = Cardinality(Window(now))
               \/ Cardinality(zset') = Cardinality(Window(now)) + 1
        BY <1>2, <2>1, FS_AddElement
      <3> QED
        BY <3>1, <1>2, <2>2
    <2>4. IsFiniteSet(admitted')
      BY <2>1, FS_AddElement DEF LimiterInv, Counted
    <2>5. Recorded'
      BY <1>1, <2>1 DEF LimiterInv, Recorded, Stamps
    <2>6. zset' \subseteq Nat
      BY <1>0, <1>1, <2>1
    <2>8. expireAt' \in Nat
      BY <1>0, <2>1
    <2>7. admitted' \subseteq [stamp : Nat, at : Nat]
      BY <1>0, <2>1
    <2> QED
      BY <2>7, <2>8, <2>3, <2>4, <2>5, <2>6 DEF Counted
  <1>4. CASE ~Admits(now)
    <2>1. zset' = Window(now) /\ UNCHANGED <<expireAt, admitted>>
      BY <1>4 DEF SlidingWindowScript
    <2>2. Recorded'
      BY <1>1, <2>1 DEF LimiterInv, Recorded, Stamps
    <2>3. (zset \subseteq Nat /\ expireAt \in Nat /\ admitted \subseteq [stamp : Nat, at : Nat])'
      BY <1>0, <1>1, <2>1
    <2> QED
      BY <1>2, <2>1, <2>2, <2>3 DEF LimiterInv, Counted
  <1> QED
    BY <1>3, <1>4

\* The stamp of a call under way is between these.
OnTime(now) == clock - MaxDelay + Slowest <= now /\ now <= clock + Fastest

\* What it evicts, and what expired before it ran, is too old to matter.
LEMMA ScriptForgets ==
    ASSUME LimiterInv, NEW now \in Nat, OnTime(now), SlidingWindowScript(now),
           UNCHANGED clock
    PROVE  Expiring' /\ Forgotten'
  <1> USE LimitsHold DEF Limits
  <1>1. /\ clock \in Nat /\ expireAt \in Nat /\ expireAt <= clock + WindowMs
        /\ \A a \in admitted : /\ a.stamp \in Nat /\ a.at \in Nat
                               /\ a.at + WindowMs <= expireAt /\ a.stamp <= a.at + Fastest
    BY DEF LimiterInv, Typed, Expiring
  <1>2. Expiring'
    <2>1. CASE Admits(now)
      <3>1. /\ expireAt' = clock + WindowMs
            /\ admitted' = admitted \cup {[stamp |-> now, at |-> clock]}
        BY <2>1 DEF SlidingWindowScript
      <3> QED
        BY <1>1, <3>1 DEF Expiring, OnTime
    <2>2. CASE ~Admits(now)
      <3>1. UNCHANGED <<expireAt, admitted>>
        BY <2>2 DEF SlidingWindowScript
      <3> QED
        BY <3>1 DEF Expiring, LimiterInv
    <2> QED
      BY <2>1, <2>2
  <1>3. ASSUME NEW s \in Stamps, s \notin Window(now)
        PROVE  s + Covered <= clock - MaxDelay + Slowest
    <2>1. s \in Nat
      BY <1>1, <1>3 DEF Stamps
    <2>2. CASE Kept(s)
      <3>1. s <= now - WindowMs
        BY <1>1, <1>3, <2>1, <2>2 DEF Kept, Window
      <3> QED
        BY <1>1, <2>1, <3>1 DEF OnTime
    <2>3. CASE ~Kept(s)
      BY <1>3, <2>3 DEF LimiterInv, Forgotten
    <2> QED
      BY <2>2, <2>3
  <1>4. Forgotten'
    <2> SUFFICES ASSUME NEW s \in Stamps', ~(Kept(s)')
                 PROVE  (s + Covered <= clock - MaxDelay + Slowest)'
      BY DEF Forgotten
    <2>1. CASE Admits(now)
      <3>1. /\ zset' = Window(now) \cup {now}
            /\ expireAt' = clock + WindowMs
            /\ admitted' = admitted \cup {[stamp |-> now, at |-> clock]}
        BY <2>1 DEF SlidingWindowScript
      <3>2. clock' < expireAt'
        BY <1>1, <3>1
      <3>3. s \notin Window(now) /\ s # now
        BY <3>1, <3>2 DEF Kept
      <3>4. s \in Stamps
        BY <3>1, <3>3 DEF Stamps
      <3>5. s + Covered <= clock - MaxDelay + Slowest
        BY <1>3, <3>3, <3>4
      <3>6. Covered' = Covered /\ Slowest' = Slowest
        BY DEF Covered, Spread, Slowest, Offsets
      <3> QED
        BY <3>5, <3>6
    <2>2. CASE ~Admits(now)
      <3>1. zset' = Window(now) /\ UNCHANGED <<expireAt, admitted>>
        BY <2>2 DEF SlidingWindowScript
      <3>2. s \in Stamps
        BY <3>1 DEF Stamps
      <3>3. s \notin Window(now)
        BY <3>1 DEF Kept, Window
      <3>5. s + Covered <= clock - MaxDelay + Slowest
        BY <1>3, <3>2, <3>3
      <3>6. Covered' = Covered /\ Slowest' = Slowest
        BY DEF Covered, Spread, Slowest, Offsets
      <3> QED
        BY <3>5, <3>6
    <2> QED
      BY <2>1, <2>2
  <1> QED
    BY <1>2, <1>4

\* An admission's window holds what the script has just counted, and itself.
LEMMA ScriptKeepsBurst ==
    ASSUME LimiterInv, NEW now \in Nat, OnTime(now), SlidingWindowScript(now),
           UNCHANGED clock
    PROVE  BurstAnywhere'
  <1> USE LimitsHold DEF Limits
  <1>1. CASE ~Admits(now)
    <2>1. Stamps' = Stamps
      BY <1>1 DEF SlidingWindowScript, Stamps
    <2>2. Covered' = Covered
      BY DEF Covered, Spread
    <2>3. \A end \in Int : InWindow(Stamps, end, Covered)' = InWindow(Stamps, end, Covered)
      BY <2>1, <2>2 DEF InWindow
    <2> QED
      BY <2>3 DEF LimiterInv, BurstAnywhere
  <1>2. CASE Admits(now)
    <2>0. /\ zset' = Window(now) \cup {now}
          /\ admitted' = admitted \cup {[stamp |-> now, at |-> clock]}
      BY <1>2 DEF SlidingWindowScript
    <2>1. Stamps' = Stamps \cup {now}
      <3> DEFINE new == [stamp |-> now, at |-> clock]
      <3>1. new.stamp = now /\ admitted' = admitted \cup {new}
        BY <2>0
      <3> HIDE DEF new
      <3> QED
        BY <3>1 DEF Stamps
    <2>2. Stamps \subseteq Nat /\ clock \in Nat /\ expireAt \in Nat
      BY DEF LimiterInv, Typed, Stamps
    <2>3. IsFiniteSet(zset') /\ Cardinality(zset') <= Burst
      BY ScriptCounts DEF Counted
    <2>4. ASSUME NEW end \in Int
          PROVE  Cardinality(InWindow(Stamps', end, Covered)) <= Burst
      <3>1. CASE now \in InWindow(Stamps', end, Covered)
        <4>1. end - Covered < now /\ now <= end
          BY <3>1 DEF InWindow
        <4>2. ASSUME NEW s \in Stamps, end - Covered < s, s <= end
              PROVE  s \in Window(now)
          <5>1. s \in Nat
            BY <2>2
          <5>2. Kept(s)
            <6> SUFFICES ASSUME ~Kept(s)
                         PROVE  FALSE
              OBVIOUS
            <6>1. s + Covered <= clock - MaxDelay + Slowest
              BY DEF LimiterInv, Forgotten
            <6> QED
              BY <2>2, <4>1, <4>2, <5>1, <6>1 DEF OnTime
          <5>3. s > now - WindowMs
            BY <4>1, <4>2, <5>1
          <5> QED
            BY <5>2, <5>3 DEF Kept, Window
        <4>3. InWindow(Stamps', end, Covered) \subseteq zset'
          BY <2>0, <2>1, <4>2 DEF InWindow
        <4>4. /\ IsFiniteSet(InWindow(Stamps', end, Covered))
              /\ Cardinality(InWindow(Stamps', end, Covered)) <= Cardinality(zset')
          BY <2>3, <4>3, FS_Subset
        <4>5. /\ Cardinality(InWindow(Stamps', end, Covered)) \in Nat
              /\ Cardinality(zset') \in Nat
          BY <2>3, <4>4, FS_CardinalityType
        <4> QED
          BY <2>3, <4>4, <4>5
      <3>2. CASE now \notin InWindow(Stamps', end, Covered)
        <4>1. InWindow(Stamps', end, Covered) = InWindow(Stamps, end, Covered)
          BY <2>1, <3>2 DEF InWindow
        <4> QED
          BY <4>1 DEF LimiterInv, BurstAnywhere
      <3> QED
        BY <3>1, <3>2
    <2>5. Covered' = Covered
      BY DEF Covered, Spread
    <2>6. \A end \in Int : InWindow(Stamps, end, Covered)' = InWindow(Stamps', end, Covered)
      BY <2>5 DEF InWindow
    <2> QED
      BY <2>4, <2>6 DEF BurstAnywhere
  <1> QED
    BY <1>1, <1>2

-----------------------------------------------------------------------------
(* The invariant is inductive *)

LEMMA LimiterStarts == LimiterInit => LimiterInv
  <1> SUFFICES ASSUME LimiterInit
               PROVE  LimiterInv
    OBVIOUS
  <1> USE LimitsHold DEF Limits
  <1>1. /\ clock = 0 /\ zset = {} /\ expireAt = 0 /\ admitted = {}
        /\ check = [c \in Calls |-> [pc |-> "new", stamp |-> 0, at |-> 0]]
        /\ queue = [g \in Gateways |-> <<>>]
    BY DEF LimiterInit
  <1>2. IsFiniteSet({}) /\ Cardinality({}) = 0
    BY FS_EmptySet
  <1>3. Stamps = {}
    BY <1>1 DEF Stamps
  <1>4. Typed
    BY <1>1, RateLimiterAssumption DEF Typed, Check
  <1>5. QueuedOnce /\ QueuedSent
    BY <1>1 DEF QueuedOnce, QueuedSent
  <1>6. Timely /\ RejectedOnlyWhenFull
    BY <1>1 DEF Timely, RejectedOnlyWhenFull
  <1>7. Counted /\ Recorded /\ Forgotten /\ Expiring
    BY <1>1, <1>2, <1>3 DEF Counted, Recorded, Forgotten, Expiring
  <1>8. BurstAnywhere
    <2>1. \A end \in Int : InWindow({}, end, Covered) = {}
      BY DEF InWindow
    <2> QED
      BY <1>2, <1>3, <2>1 DEF BurstAnywhere
  <1> QED
    BY <1>4, <1>5, <1>6, <1>7, <1>8 DEF LimiterInv

LEMMA ConstantParts == UNCHANGED <<Covered, Slowest, Fastest>>
  BY DEF Covered, Spread, Slowest, Fastest, Offsets

\* The parts about the sorted set and the admissions.
SetInv == Counted /\ Recorded /\ Expiring /\ Forgotten /\ BurstAnywhere

\* They survive the passing of time.
LEMMA SetUntouched ==
    ASSUME LimiterInv, UNCHANGED <<zset, expireAt, admitted>>,
           NEW later \in Nat, later >= clock, clock' = later
    PROVE  SetInv'
  <1> USE LimitsHold DEF Limits
  <1>0. later \in Nat /\ later >= clock /\ clock' = later /\ Covered' = Covered /\ Slowest' = Slowest /\ Fastest' = Fastest
    BY ConstantParts
  <1>1. Stamps' = Stamps /\ Stamps \subseteq Nat /\ clock \in Nat /\ expireAt \in Nat
    BY DEF Stamps, LimiterInv, Typed
  <1>2. Counted' /\ Recorded'
    BY <1>0, <1>1 DEF LimiterInv, Counted, Recorded
  <1>3. Expiring'
    BY <1>0, <1>1 DEF LimiterInv, Expiring
  <1>4. Forgotten'
    <2> SUFFICES ASSUME NEW s \in Stamps, ~(s \in zset /\ later < expireAt)
                 PROVE  s + Covered <= later - MaxDelay + Slowest
      BY <1>0, <1>1 DEF Forgotten, Kept
    <2>1. s \in Nat
      BY <1>1
    <2>2. CASE Kept(s)
      <3>1. later >= expireAt
        BY <1>0, <1>1, <2>2 DEF Kept
      <3>2. PICK a \in admitted : a.stamp = s
        BY DEF Stamps
      <3>3. a.at + WindowMs <= expireAt /\ s <= a.at + Fastest /\ a.at \in Nat
        BY <1>0, <3>2 DEF LimiterInv, Expiring, Typed
      <3> QED
        BY <1>0, <1>1, <2>1, <3>1, <3>3
    <2>3. CASE ~Kept(s)
      <3>1. s + Covered <= clock - MaxDelay + Slowest
        BY <2>3 DEF LimiterInv, Forgotten
      <3> QED
        BY <1>0, <1>1, <2>1, <3>1
    <2> QED
      BY <2>2, <2>3
  <1>5. BurstAnywhere'
    <2>1. \A end \in Int : InWindow(Stamps, end, Covered)' = InWindow(Stamps, end, Covered)
      BY <1>0, <1>1 DEF InWindow
    <2> QED
      BY <2>1 DEF LimiterInv, BurstAnywhere
  <1> QED
    BY <1>2, <1>3, <1>4, <1>5 DEF SetInv

\* They survive a run of the script for a call under way.
LEMMA ScriptKeepsSet ==
    ASSUME LimiterInv, NEW c \in Calls, check[c].pc = "sent",
           SlidingWindowScript(check[c].stamp), UNCHANGED clock
    PROVE  /\ SetInv'
           /\ (zset \subseteq Nat /\ expireAt \in Nat /\ admitted \subseteq [stamp : Nat, at : Nat])'
           /\ clock \in Nat /\ clock <= MaxTime
  <1> USE LimitsHold DEF Limits
  <1> DEFINE now == check[c].stamp
  <1>1. clock \in Nat /\ clock <= MaxTime /\ check[c].at \in Nat /\ now \in Nat
    BY DEF LimiterInv, Typed, Check
  <1>2. Sent(c)
    BY DEF LimiterInv, Timely
  <1>3. OnTime(now)
    BY <1>1, <1>2 DEF OnTime, Sent
  <1> HIDE DEF now
  <1>4. SlidingWindowScript(now)
    BY DEF now
  <1> QED
    BY <1>1, <1>3, <1>4, ScriptCounts, ScriptForgets, ScriptKeepsBurst DEF SetInv

\* The admissions that a rejection of `now' is based on. They only add up.
Admissions(now) == {a.stamp : a \in {b \in admitted : b.stamp > now - WindowMs}}

LEMMA FullStaysFull ==
    ASSUME LimiterInv, NEW now, Cardinality(Admissions(now)) >= Burst,
           admitted \subseteq admitted', IsFiniteSet(admitted')
    PROVE  Cardinality(Admissions(now)') >= Burst
  <1> USE LimitsHold DEF Limits
  <1> DEFINE Later == {b \in admitted' : b.stamp > now - WindowMs}
             f == [b \in Later |-> b.stamp]
  <1>1. IsFiniteSet(Later)
    BY FS_Subset
  <1>2. f \in Surjection(Later, Admissions(now)')
    BY DEF Admissions, Surjection
  <1>3. IsFiniteSet(Admissions(now)')
    BY <1>1, <1>2, FS_Surjection
  <1>4. Admissions(now) \subseteq Admissions(now)'
    BY DEF Admissions
  <1>5. /\ IsFiniteSet(Admissions(now))
        /\ Cardinality(Admissions(now)) <= Cardinality(Admissions(now)')
    BY <1>3, <1>4, FS_Subset
  <1>6. Cardinality(Admissions(now)) \in Nat /\ Cardinality(Admissions(now)') \in Nat
    BY <1>3, <1>5, FS_CardinalityType
  <1> QED
    BY <1>5, <1>6

\* The script rejects only when they fill the window.
LEMMA RejectedFull ==
    ASSUME LimiterInv, NEW now \in Nat, ~Admits(now)
    PROVE  Cardinality(Admissions(now)) >= Burst
  <1> USE LimitsHold DEF Limits
  <1>1. IsFiniteSet(admitted)
    BY DEF LimiterInv, Counted
  <1> DEFINE Later == {b \in admitted : b.stamp > now - WindowMs}
             f == [b \in Later |-> b.stamp]
  <1>2. IsFiniteSet(Later)
    BY <1>1, FS_Subset
  <1>3. f \in Surjection(Later, Admissions(now))
    BY DEF Admissions, Surjection
  <1>4. IsFiniteSet(Admissions(now))
    BY <1>2, <1>3, FS_Surjection
  <1>5. Window(now) \subseteq Admissions(now)
    BY DEF Window, Admissions, LimiterInv, Recorded, Stamps
  <1>6. IsFiniteSet(Window(now)) /\ Cardinality(Window(now)) <= Cardinality(Admissions(now))
    BY <1>4, <1>5, FS_Subset
  <1>7. Cardinality(Window(now)) \in Nat /\ Cardinality(Admissions(now)) \in Nat
    BY <1>4, <1>6, FS_CardinalityType
  <1> QED
    BY <1>6, <1>7 DEF Admits

LEMMA CheckSent ==
    ASSUME LimiterInv, NEW g \in Gateways, NEW c \in Calls, checkRateLimit(g, c)
    PROVE  LimiterInv'
  <1> USE LimitsHold DEF Limits
  <1> DEFINE new == [pc |-> "sent", stamp |-> clock + Skew[g], at |-> clock]
  <1>1. /\ check[c].pc = "new"
        /\ check' = [check EXCEPT ![c] = new]
        /\ queue' = [queue EXCEPT ![g] = Append(queue[g], c)]
        /\ UNCHANGED <<clock, zset, expireAt, admitted>>
    BY DEF checkRateLimit
  <1>2. /\ check \in [Calls -> Check] /\ queue \in [Gateways -> Seq(Calls)]
        /\ clock \in Nat /\ clock <= MaxTime
        /\ zset \subseteq Nat /\ expireAt \in Nat /\ admitted \subseteq [stamp : Nat, at : Nat]
    BY DEF LimiterInv, Typed
  <1>3. Slowest <= Skew[g] /\ Skew[g] <= Fastest /\ Skew[g] \in Nat
    BY SpreadBounds, RateLimiterAssumption
  <1>4. new \in Check
    BY <1>2, <1>3 DEF Check
  <1>5. Typed'
    <2>1. check' \in [Calls -> Check]
      BY <1>1, <1>2, <1>4
    <2>2. queue' \in [Gateways -> Seq(Calls)]
      BY <1>1, <1>2
    <2> QED
      BY <1>1, <1>2, <2>1, <2>2 DEF Typed
  <1>6. \A h \in Gateways : \A i \in 1 .. Len(queue'[h]) :
            \/ i \in 1 .. Len(queue[h]) /\ queue'[h][i] = queue[h][i]
            \/ h = g /\ i = Len(queue[g]) + 1 /\ queue'[h][i] = c
    <2> TAKE h \in Gateways
    <2>1. queue[h] \in Seq(Calls)
      BY <1>2
    <2>2. CASE h = g
      <3>1. queue'[h] = Append(queue[g], c)
        BY <1>1, <1>2, <2>2
      <3> QED
        BY <2>1, <2>2, <3>1
    <2>3. CASE h # g
      BY <1>1, <1>2, <2>3
    <2> QED
      BY <2>2, <2>3
  <1>7. \A h \in Gateways : \A i \in 1 .. Len(queue[h]) : queue[h][i] \in Calls /\ queue[h][i] # c
    <2> TAKE h \in Gateways
    <2> TAKE i \in 1 .. Len(queue[h])
    <2>1. queue[h][i] \in Calls
      BY <1>2, ElementOfSeq
    <2>2. check[queue[h][i]].pc = "sent"
      BY DEF LimiterInv, QueuedSent
    <2> QED
      BY <1>1, <2>1, <2>2
  <1>8. QueuedOnce'
    <2>1. \A h, k \in Gateways : \A i \in 1 .. Len(queue[h]), j \in 1 .. Len(queue[k]) :
              queue[h][i] = queue[k][j] => h = k /\ i = j
      BY DEF LimiterInv, QueuedOnce
    <2>2. \A h, k \in Gateways : \A i \in 1 .. Len(queue'[h]), j \in 1 .. Len(queue'[k]) :
              queue'[h][i] = queue'[k][j] => h = k /\ i = j
      BY <1>6, <1>7, <2>1
    <2> QED
      BY <2>2 DEF QueuedOnce
  <1>9. check'[c] = new /\ \A d \in Calls : d # c => check'[d] = check[d]
    BY <1>1, <1>2
  <1>10. QueuedSent'
    <2>1. \A h \in Gateways : \A i \in 1 .. Len(queue'[h]) : check'[queue'[h][i]].pc = "sent"
      <3> TAKE h \in Gateways
      <3> TAKE i \in 1 .. Len(queue'[h])
      <3>1. CASE i \in 1 .. Len(queue[h]) /\ queue'[h][i] = queue[h][i]
        BY <1>7, <1>9, <3>1 DEF LimiterInv, QueuedSent
      <3>2. CASE queue'[h][i] = c
        BY <1>9, <3>2
      <3> QED
        BY <1>6, <3>1, <3>2
    <2> QED
      BY <2>1 DEF QueuedSent
  <1>11. Timely'
    <2> SUFFICES ASSUME NEW d \in Calls, check'[d].pc = "sent"
                 PROVE  Sent(d)'
      BY DEF Timely
    <2>1. CASE d = c
      BY <1>1, <1>2, <1>3, <1>9, <2>1, ConstantParts DEF Sent
    <2>2. CASE d # c
      <3>1. check'[d] = check[d] /\ Sent(d)
        BY <1>9, <2>2 DEF LimiterInv, Timely
      <3> QED
        BY <1>1, <3>1, ConstantParts DEF Sent
    <2> QED
      BY <2>1, <2>2
  <1>12. RejectedOnlyWhenFull'
    <2> SUFFICES ASSUME NEW d \in Calls, check'[d].pc = "rejected"
                 PROVE  Cardinality({a.stamp : a \in {b \in admitted' : b.stamp > check'[d].stamp - WindowMs}}) >= Burst
      BY DEF RejectedOnlyWhenFull
    <2>1. d # c /\ check'[d] = check[d]
      BY <1>9
    <2> QED
      BY <1>1, <2>1 DEF LimiterInv, RejectedOnlyWhenFull
  <1>13. SetInv'
    BY <1>1, <1>2, SetUntouched
  <1> QED
    BY <1>5, <1>8, <1>10, <1>11, <1>12, <1>13 DEF LimiterInv, SetInv

LEMMA CheckAnswered ==
    ASSUME LimiterInv, NEW g \in Gateways, EvalAnswered(g)
    PROVE  LimiterInv'
  <1> USE LimitsHold DEF Limits
  <1> DEFINE c == Head(queue[g])
  <1>1. /\ queue[g] # <<>>
        /\ SlidingWindowScript(check[c].stamp)
        /\ check' = [check EXCEPT ![c].pc = IF Admits(check[c].stamp) THEN "allowed" ELSE "rejected"]
        /\ queue' = [queue EXCEPT ![g] = Tail(queue[g])]
        /\ UNCHANGED clock
    BY DEF EvalAnswered, Settle
  <1>2. /\ check \in [Calls -> Check] /\ queue \in [Gateways -> Seq(Calls)]
    BY DEF LimiterInv, Typed
  <1>3. c = queue[g][1] /\ 1 \in 1 .. Len(queue[g]) /\ c \in Calls /\ check[c].pc = "sent"
    <2>1. queue[g] \in Seq(Calls) /\ Len(queue[g]) \in Nat /\ Len(queue[g]) # 0
      BY <1>1, <1>2, EmptySeq
    <2>2. c = queue[g][1] /\ 1 \in 1 .. Len(queue[g])
      BY <2>1
    <2> QED
      BY <2>1, <2>2, ElementOfSeq DEF LimiterInv, QueuedSent
  <1> HIDE DEF c
  <1>4. /\ SetInv'
        /\ (zset \subseteq Nat /\ expireAt \in Nat /\ admitted \subseteq [stamp : Nat, at : Nat])'
        /\ clock \in Nat /\ clock <= MaxTime
    BY <1>1, <1>3, ScriptKeepsSet
  <1>5. /\ check'[c].pc = IF Admits(check[c].stamp) THEN "allowed" ELSE "rejected"
        /\ check'[c].stamp = check[c].stamp /\ check'[c].at = check[c].at
        /\ \A d \in Calls : d # c => check'[d] = check[d]
        /\ check' \in [Calls -> Check]
    <2> DEFINE verdict == IF Admits(check[c].stamp) THEN "allowed" ELSE "rejected"
    <2>1. verdict = "allowed" \/ verdict = "rejected"
      OBVIOUS
    <2>2. check' = [check EXCEPT ![c] = [check[c] EXCEPT !.pc = verdict]]
      BY <1>1
    <2> HIDE DEF verdict
    <2>3. check[c] \in Check
      BY <1>2, <1>3
    <2>4. /\ [check[c] EXCEPT !.pc = verdict] \in Check
          /\ [check[c] EXCEPT !.pc = verdict].pc = verdict
          /\ [check[c] EXCEPT !.pc = verdict].stamp = check[c].stamp
          /\ [check[c] EXCEPT !.pc = verdict].at = check[c].at
      BY <2>1, <2>3 DEF Check
    <2>5. /\ check'[c] = [check[c] EXCEPT !.pc = verdict]
          /\ \A d \in Calls : d # c => check'[d] = check[d]
          /\ check' \in [Calls -> Check]
      BY <1>2, <1>3, <2>2, <2>4
    <2> QED
      BY <2>4, <2>5 DEF verdict
  <1>6. \A h \in Gateways : \A i \in 1 .. Len(queue'[h]) :
            \/ h # g /\ i \in 1 .. Len(queue[h]) /\ queue'[h][i] = queue[h][i]
            \/ h = g /\ i + 1 \in 2 .. Len(queue[g]) /\ queue'[h][i] = queue[g][i + 1]
    <2> TAKE h \in Gateways
    <2>1. queue[h] \in Seq(Calls)
      BY <1>2
    <2>2. CASE h = g
      <3>1. queue'[h] = Tail(queue[g])
        BY <1>1, <1>2, <2>2
      <3> QED
        <4>1. /\ Len(Tail(queue[g])) = Len(queue[g]) - 1
              /\ \A i \in 1 .. Len(Tail(queue[g])) : Tail(queue[g])[i] = queue[g][i + 1]
          BY <1>1, <2>1, <2>2, HeadTailProperties
        <4>2. Len(queue[g]) \in Nat
          BY <2>1, <2>2
        <4> QED
          BY <2>2, <3>1, <4>1, <4>2
    <2>3. CASE h # g
      BY <1>1, <1>2, <2>3
    <2> QED
      BY <2>2, <2>3
  <1>7. queue' \in [Gateways -> Seq(Calls)]
    <2>1. Tail(queue[g]) \in Seq(Calls)
      BY <1>1, <1>2, HeadTailProperties
    <2> QED
      BY <1>1, <1>2, <2>1
  <1>8. Typed'
    BY <1>1, <1>4, <1>5, <1>7 DEF Typed
  <1>9. \A h, k \in Gateways : \A i \in 1 .. Len(queue[h]), j \in 1 .. Len(queue[k]) :
              queue[h][i] = queue[k][j] => h = k /\ i = j
    BY DEF LimiterInv, QueuedOnce
  <1>10. \A h \in Gateways : Len(queue[h]) \in Nat /\ Len(queue'[h]) \in Nat
    BY <1>2, <1>7
  <1>11. QueuedOnce'
    <2> SUFFICES ASSUME NEW h \in Gateways, NEW k \in Gateways,
                        NEW i \in 1 .. Len(queue'[h]), NEW j \in 1 .. Len(queue'[k]),
                        queue'[h][i] = queue'[k][j]
                 PROVE  h = k /\ i = j
      BY DEF QueuedOnce
    <2>1. CASE h = g /\ k = g
      <3>1. i + 1 \in 1 .. Len(queue[g]) /\ j + 1 \in 1 .. Len(queue[g]) /\ queue[g][i + 1] = queue[g][j + 1]
        BY <1>6, <1>10, <2>1
      <3> QED
        BY <1>9, <1>10, <2>1, <3>1
    <2>2. CASE h = g /\ k # g
      BY <1>6, <1>9, <1>10, <2>2
    <2>3. CASE h # g /\ k = g
      BY <1>6, <1>9, <1>10, <2>3
    <2>4. CASE h # g /\ k # g
      BY <1>6, <1>9, <1>10, <2>4
    <2> QED
      BY <2>1, <2>2, <2>3, <2>4
  <1>12. \A h \in Gateways : \A i \in 1 .. Len(queue'[h]) :
             queue'[h][i] # c /\ queue'[h][i] \in Calls /\ check[queue'[h][i]].pc = "sent"
    <2> TAKE h \in Gateways
    <2> TAKE i \in 1 .. Len(queue'[h])
    <2>1. PICK j \in 1 .. Len(queue[h]) :
              queue'[h][i] = queue[h][j] /\ ~(h = g /\ j = 1)
      <3>1. CASE h = g
        <4>1. i + 1 \in 1 .. Len(queue[h]) /\ i + 1 # 1 /\ queue'[h][i] = queue[h][i + 1]
          BY <1>6, <1>10, <3>1
        <4> QED
          BY <4>1
      <3>2. CASE h # g
        BY <1>6, <3>2
      <3> QED
        BY <3>1, <3>2
    <2>2. queue[h][j] # c
      BY <1>3, <1>9, <2>1
    <2>3. queue[h][j] \in Calls
      BY <1>2, ElementOfSeq
    <2>4. check[queue[h][j]].pc = "sent"
      BY DEF LimiterInv, QueuedSent
    <2> QED
      BY <2>1, <2>2, <2>3, <2>4
  <1>13. QueuedSent'
    <2>1. \A h \in Gateways : \A i \in 1 .. Len(queue'[h]) : check'[queue'[h][i]].pc = "sent"
      BY <1>5, <1>12
    <2> QED
      BY <2>1 DEF QueuedSent
  <1>14. Timely'
    <2> SUFFICES ASSUME NEW d \in Calls, check'[d].pc = "sent"
                 PROVE  Sent(d)'
      BY DEF Timely
    <2>1. check'[d] = check[d] /\ Sent(d)
      BY <1>5 DEF LimiterInv, Timely
    <2> QED
      BY <1>1, <2>1, ConstantParts DEF Sent
  <1>15. admitted \subseteq admitted' /\ IsFiniteSet(admitted')
    BY <1>1, <1>4 DEF SlidingWindowScript, SetInv, Counted
  <1>16. RejectedOnlyWhenFull'
    <2> SUFFICES ASSUME NEW d \in Calls, check'[d].pc = "rejected",
                        NEW now \in Nat, now = check[d].stamp
                 PROVE  Cardinality(Admissions(now)') >= Burst
      <3>1. \A d \in Calls : check'[d].stamp = check[d].stamp /\ check[d].stamp \in Nat
        BY <1>2, <1>5 DEF Check
      <3> QED
        BY <3>1 DEF RejectedOnlyWhenFull, Admissions
    <2>1. CASE d = c
      <3>1. ~Admits(now)
        BY <1>5, <2>1
      <3>2. Cardinality(Admissions(now)) >= Burst
        BY <3>1, RejectedFull
      <3> QED
        BY <1>15, <3>2, FullStaysFull
    <2>2. CASE d # c
      <3>1. check[d].pc = "rejected"
        BY <1>5, <2>2
      <3>2. Cardinality(Admissions(now)) >= Burst
        BY <3>1 DEF LimiterInv, RejectedOnlyWhenFull, Admissions
      <3> QED
        BY <1>15, <3>2, FullStaysFull
    <2> QED
      BY <2>1, <2>2
  <1> QED
    BY <1>4, <1>8, <1>11, <1>13, <1>14, <1>16 DEF LimiterInv, SetInv

LEMMA CheckUnanswered ==
    ASSUME LimiterInv, NEW g \in Gateways, EvalUnanswered(g)
    PROVE  LimiterInv'
  <1> DEFINE c == Head(queue[g])
  <1>1. /\ queue[g] # <<>>
        /\ SlidingWindowScript(check[c].stamp)
        /\ UNCHANGED <<clock, check, queue>>
    BY DEF EvalUnanswered
  <1>2. /\ check \in [Calls -> Check] /\ queue \in [Gateways -> Seq(Calls)]
    BY DEF LimiterInv, Typed
  <1>3. c \in Calls /\ check[c].pc = "sent"
    <2>1. queue[g] \in Seq(Calls) /\ Len(queue[g]) \in Nat /\ Len(queue[g]) # 0
      BY <1>1, <1>2, EmptySeq
    <2>2. c = queue[g][1] /\ 1 \in 1 .. Len(queue[g])
      BY <2>1
    <2> QED
      BY <2>1, <2>2, ElementOfSeq DEF LimiterInv, QueuedSent
  <1> HIDE DEF c
  <1>4. /\ SetInv'
        /\ (zset \subseteq Nat /\ expireAt \in Nat /\ admitted \subseteq [stamp : Nat, at : Nat])'
        /\ clock \in Nat /\ clock <= MaxTime
    BY <1>1, <1>3, ScriptKeepsSet
  <1>5. Typed'
    BY <1>1, <1>2, <1>4 DEF Typed
  <1>6. QueuedOnce' /\ QueuedSent'
    BY <1>1 DEF LimiterInv, QueuedOnce, QueuedSent
  <1>7. Timely'
    BY <1>1, ConstantParts DEF LimiterInv, Timely, Sent
  <1>8. admitted \subseteq admitted' /\ IsFiniteSet(admitted')
    BY <1>1, <1>4 DEF SlidingWindowScript, SetInv, Counted
  <1>9. RejectedOnlyWhenFull'
    <2> SUFFICES ASSUME NEW d \in Calls, check[d].pc = "rejected",
                        NEW now \in Nat, now = check[d].stamp
                 PROVE  Cardinality(Admissions(now)') >= Burst
      <3>1. \A d \in Calls : check[d].stamp \in Nat
        BY <1>2 DEF Check
      <3> QED
        BY <1>1, <3>1 DEF RejectedOnlyWhenFull, Admissions
    <2>1. Cardinality(Admissions(now)) >= Burst
      BY DEF LimiterInv, RejectedOnlyWhenFull, Admissions
    <2> QED
      BY <1>8, <2>1, FullStaysFull
  <1> QED
    BY <1>4, <1>5, <1>6, <1>7, <1>9 DEF LimiterInv, SetInv

LEMMA CheckFails ==
    ASSUME LimiterInv, NEW g \in Gateways, RedisFails(g)
    PROVE  LimiterInv'
  <1> USE LimitsHold DEF Limits
  <1> DEFINE Given(d) == \E j \in DOMAIN queue[g] : queue[g][j] = d
  <1>1. /\ check' = [d \in Calls |-> IF Given(d) THEN [check[d] EXCEPT !.pc = "failedOpen"] ELSE check[d]]
        /\ queue' = [queue EXCEPT ![g] = <<>>]
        /\ UNCHANGED <<clock, zset, expireAt, admitted>>
    BY DEF RedisFails
  <1>2. /\ check \in [Calls -> Check] /\ queue \in [Gateways -> Seq(Calls)]
        /\ clock \in Nat
    BY DEF LimiterInv, Typed
  <1>3. \A d \in Calls : Given(d) <=> \E j \in 1 .. Len(queue[g]) : queue[g][j] = d
    BY <1>2
  <1> HIDE DEF Given
  <1>4. \A d \in Calls : /\ check'[d] = check[d] \/ check'[d].pc = "failedOpen"
                         /\ ~Given(d) => check'[d] = check[d]
                         /\ Given(d) => check[d].pc = "sent"
    <2> TAKE d \in Calls
    <2>1. CASE Given(d)
      <3>1. check'[d] = [check[d] EXCEPT !.pc = "failedOpen"] /\ check[d] \in Check
        BY <1>1, <1>2, <2>1
      <3>2. check'[d].pc = "failedOpen"
        BY <3>1 DEF Check
      <3>3. check[d].pc = "sent"
        BY <1>3, <2>1 DEF LimiterInv, QueuedSent
      <3> QED
        BY <2>1, <3>2, <3>3
    <2>2. CASE ~Given(d)
      BY <1>1, <2>2
    <2> QED
      BY <2>1, <2>2
  <1>5. check' \in [Calls -> Check]
    <2>1. \A d \in Calls : [check[d] EXCEPT !.pc = "failedOpen"] \in Check /\ check[d] \in Check
      BY <1>2 DEF Check
    <2> QED
      BY <1>1, <2>1
  <1>6. /\ queue' \in [Gateways -> Seq(Calls)]
        /\ \A h \in Gateways : h # g => queue'[h] = queue[h]
        /\ queue'[g] = <<>> /\ Len(queue'[g]) = 0
    BY <1>1, <1>2
  <1>7. Typed'
    BY <1>1, <1>5, <1>6 DEF LimiterInv, Typed
  <1>8. QueuedOnce'
    <2> SUFFICES ASSUME NEW h \in Gateways, NEW k \in Gateways,
                        NEW i \in 1 .. Len(queue'[h]), NEW j \in 1 .. Len(queue'[k]),
                        queue'[h][i] = queue'[k][j]
                 PROVE  h = k /\ i = j
      BY DEF QueuedOnce
    <2>1. h # g /\ k # g
      BY <1>6
    <2> QED
      BY <1>6, <2>1 DEF LimiterInv, QueuedOnce
  <1>9. QueuedSent'
    <2> SUFFICES ASSUME NEW h \in Gateways, NEW i \in 1 .. Len(queue'[h])
                 PROVE  check'[queue'[h][i]].pc = "sent"
      BY DEF QueuedSent
    <2>1. h # g /\ queue'[h] = queue[h] /\ i \in 1 .. Len(queue[h])
      BY <1>6
    <2>2. queue[h][i] \in Calls /\ check[queue[h][i]].pc = "sent"
      BY <1>2, <2>1, ElementOfSeq DEF LimiterInv, QueuedSent
    <2>3. ~Given(queue[h][i])
      BY <1>3, <2>1, <2>2 DEF LimiterInv, QueuedOnce
    <2> QED
      BY <1>4, <2>1, <2>2, <2>3
  <1>10. Timely'
    <2> SUFFICES ASSUME NEW d \in Calls, check'[d].pc = "sent"
                 PROVE  Sent(d)'
      BY DEF Timely
    <2>1. check'[d] = check[d] /\ Sent(d)
      BY <1>4 DEF LimiterInv, Timely
    <2> QED
      BY <1>1, <2>1, ConstantParts DEF Sent
  <1>11. RejectedOnlyWhenFull'
    <2> SUFFICES ASSUME NEW d \in Calls, check'[d].pc = "rejected"
                 PROVE  Cardinality({a.stamp : a \in {b \in admitted' : b.stamp > check'[d].stamp - WindowMs}}) >= Burst
      BY DEF RejectedOnlyWhenFull
    <2>1. check'[d] = check[d]
      BY <1>4
    <2> QED
      BY <1>1, <2>1 DEF LimiterInv, RejectedOnlyWhenFull
  <1>12. SetInv'
    BY <1>1, <1>2, SetUntouched
  <1> QED
    BY <1>7, <1>8, <1>9, <1>10, <1>11, <1>12 DEF LimiterInv, SetInv

LEMMA TimePasses ==
    ASSUME LimiterInv, Tick
    PROVE  LimiterInv'
  <1> USE LimitsHold DEF Limits
  <1>1. /\ clock < MaxTime
        /\ \A c \in Calls : check[c].pc = "sent" => clock < check[c].at + MaxDelay
        /\ clock' = clock + 1
        /\ UNCHANGED <<zset, expireAt, check, queue, admitted>>
    BY DEF Tick
  <1>2. clock \in Nat /\ MaxTime \in Nat /\ check \in [Calls -> Check]
    BY RateLimiterAssumption DEF LimiterInv, Typed
  <1>3. Typed'
    BY <1>1, <1>2 DEF LimiterInv, Typed
  <1>4. QueuedOnce' /\ QueuedSent'
    BY <1>1 DEF LimiterInv, QueuedOnce, QueuedSent
  <1>5. Timely'
    <2> SUFFICES ASSUME NEW d \in Calls, check[d].pc = "sent"
                 PROVE  Sent(d)'
      BY <1>1 DEF Timely
    <2>1. Sent(d) /\ clock < check[d].at + MaxDelay /\ check[d].at \in Nat /\ check[d].stamp \in Nat
      BY <1>1, <1>2 DEF LimiterInv, Timely, Check
    <2> QED
      BY <1>1, <1>2, <2>1, ConstantParts DEF Sent
  <1>6. RejectedOnlyWhenFull'
    BY <1>1 DEF LimiterInv, RejectedOnlyWhenFull
  <1>7. SetInv'
    <2>1. PICK later \in Nat : later = clock + 1
      BY <1>2
    <2>2. later >= clock
      BY <1>2, <2>1
    <2> QED
      BY <1>1, <2>1, <2>2, SetUntouched
  <1> QED
    BY <1>3, <1>4, <1>5, <1>6, <1>7 DEF LimiterInv, SetInv

LEMMA LimiterStutters == ASSUME LimiterInv, UNCHANGED limiterVars PROVE LimiterInv'
  <1>1. UNCHANGED <<clock, zset, expireAt, check, queue, admitted>>
    BY DEF limiterVars
  <1>2. clock \in Nat
    BY DEF LimiterInv, Typed
  <1>3. Typed' /\ QueuedOnce' /\ QueuedSent'
    BY <1>1 DEF LimiterInv, Typed, QueuedOnce, QueuedSent
  <1>4. Timely'
    BY <1>1, ConstantParts DEF LimiterInv, Timely, Sent
  <1>5. RejectedOnlyWhenFull'
    BY <1>1 DEF LimiterInv, RejectedOnlyWhenFull
  <1>6. SetInv'
    BY <1>1, <1>2, SetUntouched
  <1> QED
    BY <1>3, <1>4, <1>5, <1>6 DEF LimiterInv, SetInv

LEMMA LimiterInductive == LimiterInv /\ [LimiterNext]_limiterVars => LimiterInv'
  <1> SUFFICES ASSUME LimiterInv, [LimiterNext]_limiterVars
               PROVE  LimiterInv'
    OBVIOUS
  <1>1. ASSUME NEW g \in Gateways, NEW c \in Calls, checkRateLimit(g, c)
        PROVE  LimiterInv'
    BY <1>1, CheckSent
  <1>2. ASSUME NEW g \in Gateways, EvalAnswered(g) \/ EvalUnanswered(g) \/ RedisFails(g)
        PROVE  LimiterInv'
    BY <1>2, CheckAnswered, CheckUnanswered, CheckFails
  <1>3. CASE Tick
    BY <1>3, TimePasses
  <1>4. CASE UNCHANGED limiterVars
    BY <1>4, LimiterStutters
  <1> QED
    BY <1>1, <1>2, <1>3, <1>4 DEF LimiterNext

LEMMA LimiterAlways == LimiterSpec => []LimiterInv
  BY LimiterStarts, LimiterInductive, PTL DEF LimiterSpec

-----------------------------------------------------------------------------
(* Theorems on the limiter *)

\* The limiter's state is of its types, and the sorted set never grows beyond
\* Burst entries.
THEOREM LimiterTyped == LimiterSpec => []LimiterTypeOK
  <1>1. LimiterInv => LimiterTypeOK
    <2> SUFFICES ASSUME LimiterInv
                 PROVE  LimiterTypeOK
      OBVIOUS
    <2>1. clock \in 0 .. MaxTime
      BY RateLimiterAssumption DEF LimiterInv, Typed
    <2> QED
      BY <2>1 DEF LimiterInv, LimiterTypeOK, Typed, Counted
  <1> QED
    BY <1>1, LimiterAlways, PTL

\* Together the gateways admit requests in at most Burst milliseconds of any
\* window, less the delay of a check and the distance of their clocks, for every
\* number of gateways, calls, skews and limits.
THEOREM BurstKept == LimiterSpec => []BurstPerWindow
  <1>1. LimiterInv => BurstPerWindow
    <2> SUFFICES ASSUME LimiterInv
                 PROVE  BurstPerWindow
      OBVIOUS
    <2>1. Stamps \subseteq Int
      BY DEF LimiterInv, Typed, Stamps
    <2>2. \A end \in Stamps : Cardinality(InWindow(Stamps, end, Covered)) <= Burst
      BY <2>1 DEF LimiterInv, BurstAnywhere
    <2> QED
      BY <2>2 DEF BurstPerWindow, Stamps, Covered
  <1> QED
    BY <1>1, LimiterAlways, PTL

\* A request is rejected only when admissions used up its window.
THEOREM RejectionsFair == LimiterSpec => []RejectedOnlyWhenFull
  <1>1. LimiterInv => RejectedOnlyWhenFull
    BY DEF LimiterInv
  <1> QED
    BY <1>1, LimiterAlways, PTL

-----------------------------------------------------------------------------
(* The inductive invariant of the pipeline *)

\* What is true of a request wherever it is, and every hook hands on: a cache
\* key is set for anonymous requests only.
Guarded(q) ==
    /\ q \in Request
    /\ q.cacheKey # NoRoute => q.authorization = "none"
    /\ q.pc \in {"lookingUp", "storing"} => q.cacheKey # NoRoute
    /\ q.pc \in {"proxying", "storing"} /\ q.cacheKey # NoRoute => ~q.served.personal
    /\ q.status = "hit" => q.authorization = "none"

PipelineInv ==
    /\ TypeOK
    /\ \A r \in Requests : Guarded(request[r])
    /\ \A k \in Routes : ~cache[k].personal

LEMMA NoEntryIsEntry == ASSUME config \in Configs PROVE NoEntry \in Entry
  <1>1. Upstreams # {}
    BY PipelineAssumption DEF Config
  <1>2. (CHOOSE u \in Upstreams : TRUE) \in Upstreams
    BY <1>1
  <1> QED
    BY <1>2 DEF NoEntry, Entry

LEMMA ConfigFields ==
    ASSUME config \in Configs
    PROVE  /\ config.route \in Routes \cup {NoRoute}
           /\ config.upstream \in Upstreams
  BY PipelineAssumption DEF Config

LEMMA IdleIsRequest == ASSUME config \in Configs PROVE IdleRequest \in Request
  BY NoEntryIsEntry DEF IdleRequest, Request, Phases, Authorizations, Statuses

-----------------------------------------------------------------------------
(* The hooks keep a guarded request guarded *)

LEMMA RepliedGuarded ==
    ASSUME config \in Configs, NEW q, q.authorization \in Authorizations,
           NEW status \in Statuses,
           status = "hit" => q.authorization = "none"
    PROVE  Guarded(Replied(q, status))
  <1> DEFINE reply == Replied(q, status)
  <1>1. IdleRequest \in Request /\ IdleRequest.cacheKey = NoRoute
    BY IdleIsRequest DEF IdleRequest
  <1>2. PICK authorization \in Authorizations : authorization = q.authorization
    OBVIOUS
  <1>3. reply = [IdleRequest EXCEPT !.pc = "answered", !.authorization = authorization,
                                    !.status = status]
    BY <1>2 DEF Replied
  <1> HIDE DEF reply
  <1>4. reply \in Request
    BY <1>1, <1>3 DEF Request, Phases
  <1>5. /\ reply.pc = "answered" /\ reply.authorization = authorization
        /\ reply.status = status /\ reply.cacheKey = NoRoute
    BY <1>1, <1>3 DEF Request
  <1>6. Guarded(reply)
    BY <1>2, <1>4, <1>5 DEF Guarded
  <1> QED
    BY <1>6 DEF reply

LEMMA HandlerGuards ==
    ASSUME config \in Configs, NEW q, Guarded(q)
    PROVE  Guarded(EnterHandler(q))
  <1>1. CASE config.route = NoRoute
    <2>1. q.authorization \in Authorizations
      BY DEF Guarded, Request
    <2>2. Guarded(Replied(q, "refused"))
      BY <2>1, RepliedGuarded DEF Statuses
    <2> QED
      BY <1>1, <2>2 DEF EnterHandler
  <1>2. CASE config.route # NoRoute
    <2> DEFINE origin == [present |-> TRUE, route |-> config.route,
                          upstream |-> config.upstream,
                          personal |-> q.authorization # "none", expires |-> FALSE]
               next == [pc |-> "proxying", authorization |-> q.authorization,
                        shareable |-> q.shareable, cacheKey |-> q.cacheKey,
                        served |-> origin, status |-> q.status]
    <2>1. EnterHandler(q) = next
      BY <1>2 DEF EnterHandler, Guarded, Request
    <2>2. origin \in Entry
      BY ConfigFields DEF Entry
    <2>3. next \in Request
      <3> HIDE DEF origin
      <3> QED
        BY <2>2 DEF Guarded, Request, Phases
    <2>4. q.cacheKey # NoRoute => ~origin.personal
      BY DEF Guarded
    <2>5. Guarded(next)
      <3> HIDE DEF origin
      <3> QED
        BY <2>3, <2>4 DEF Guarded
    <2> QED
      BY <2>1, <2>5
  <1> QED
    BY <1>1, <1>2

LEMMA CacheGuards ==
    ASSUME config \in Configs, NEW q, Guarded(q)
    PROVE  Guarded(EnterCache(q))
  <1>1. CASE Cacheable(q) /\ ~skipped /\ config.route # NoRoute /\ config.caching
    <2> DEFINE next == [pc |-> "lookingUp", authorization |-> q.authorization,
                        shareable |-> q.shareable, cacheKey |-> config.route,
                        served |-> q.served, status |-> q.status]
    <2>1. EnterCache(q) = next
      BY <1>1 DEF EnterCache, buildCacheKey, Guarded, Request
    <2>2. Guarded(next)
      BY <1>1, ConfigFields DEF Guarded, Request, Phases, Cacheable
    <2> QED
      BY <2>1, <2>2
  <1>2. CASE ~(Cacheable(q) /\ ~skipped /\ config.route # NoRoute /\ config.caching)
    BY <1>2, HandlerGuards DEF EnterCache
  <1> QED
    BY <1>1, <1>2

LEMMA RateLimitGuards ==
    ASSUME config \in Configs, NEW q, Guarded(q)
    PROVE  Guarded(EnterRateLimit(q))
  <1>1. CASE ~skipped /\ config.route # NoRoute
    <2> DEFINE next == [pc |-> "limiting", authorization |-> q.authorization,
                        shareable |-> q.shareable, cacheKey |-> q.cacheKey,
                        served |-> q.served, status |-> q.status]
    <2>1. EnterRateLimit(q) = next
      BY <1>1 DEF EnterRateLimit, Guarded, Request
    <2>2. Guarded(next)
      BY DEF Guarded, Request, Phases
    <2> QED
      BY <2>1, <2>2
  <1>2. CASE ~(~skipped /\ config.route # NoRoute)
    BY <1>2, CacheGuards DEF EnterRateLimit
  <1> QED
    BY <1>1, <1>2

LEMMA AuthGuards ==
    ASSUME config \in Configs, NEW q, Guarded(q)
    PROVE  Guarded(EnterAuth(q))
  <1>1. CASE skipped \/ config.route = NoRoute \/ ~config.authRequired
    BY <1>1, RateLimitGuards DEF EnterAuth
  <1>2. CASE ~(skipped \/ config.route = NoRoute \/ ~config.authRequired) /\ q.authorization = "none"
    <2>1. Guarded(Replied(q, "refused"))
      BY <1>2, RepliedGuarded DEF Statuses, Authorizations
    <2> QED
      BY <1>2, <2>1 DEF EnterAuth
  <1>3. CASE ~(skipped \/ config.route = NoRoute \/ ~config.authRequired) /\ q.authorization # "none"
    <2> DEFINE next == [pc |-> "verifying", authorization |-> q.authorization,
                        shareable |-> q.shareable, cacheKey |-> q.cacheKey,
                        served |-> q.served, status |-> q.status]
    <2>1. EnterAuth(q) = next
      BY <1>3 DEF EnterAuth, Guarded, Request
    <2>2. Guarded(next)
      BY DEF Guarded, Request, Phases
    <2> QED
      BY <2>1, <2>2
  <1> QED
    BY <1>1, <1>2, <1>3

-----------------------------------------------------------------------------
(* The invariant is inductive *)

\* A step that gives one slot a guarded request and leaves the rest alone.
LEMMA SlotGuarded ==
    ASSUME PipelineInv, NEW r \in Requests, NEW q, Guarded(q), Become(r, q),
           UNCHANGED <<config, cache, skipped, silent>>
    PROVE  PipelineInv'
  <1>1. /\ request \in [Requests -> Request] /\ cache \in [Routes -> Entry]
        /\ config \in Configs /\ skipped \in BOOLEAN /\ silent \in BOOLEAN
        /\ \A s \in Requests : Guarded(request[s])
        /\ \A k \in Routes : ~cache[k].personal
    BY DEF PipelineInv, TypeOK
  <1>2. request' = [request EXCEPT ![r] = q] /\ q \in Request
    BY DEF Become, Guarded
  <1>3. TypeOK'
    BY <1>1, <1>2 DEF TypeOK
  <1>4. \A s \in Requests : Guarded(request'[s])
    BY <1>1, <1>2
  <1>5. (\A s \in Requests : Guarded(request[s]))'
    BY <1>4 DEF Guarded
  <1> QED
    BY <1>1, <1>3, <1>5 DEF PipelineInv

Fresh(authorization, shareable) ==
    [IdleRequest EXCEPT !.authorization = authorization, !.shareable = shareable]

LEMMA FreshIsIdle ==
    ASSUME config \in Configs, NEW authorization \in Authorizations, NEW shareable \in BOOLEAN
    PROVE  LET q == Fresh(authorization, shareable)
           IN  Guarded(q) /\ q.pc = "idle" /\ q.status = "none"
  <1> DEFINE q == Fresh(authorization, shareable)
  <1>1. IdleRequest \in Request /\ IdleRequest.cacheKey = NoRoute
        /\ IdleRequest.pc = "idle" /\ IdleRequest.status = "none"
    BY IdleIsRequest DEF IdleRequest
  <1>2. q \in Request
    BY <1>1 DEF Fresh, Request
  <1>3. q.cacheKey = NoRoute /\ q.pc = "idle" /\ q.status = "none"
    BY <1>1 DEF Fresh, Request
  <1> HIDE DEF q
  <1>4. Guarded(q)
    BY <1>2, <1>3 DEF Guarded
  <1> QED
    BY <1>3, <1>4 DEF q

LEMMA ArriveGuarded ==
    ASSUME PipelineInv, NEW r \in Requests, Arrive(r)
    PROVE  PipelineInv'
  <1>1. config \in Configs
    BY DEF PipelineInv, TypeOK
  <1>2. PICK authorization \in Authorizations, shareable \in BOOLEAN :
            /\ Become(r, EnterAuth(Fresh(authorization, shareable)))
            /\ UNCHANGED <<config, cache, skipped, silent>>
    BY DEF Arrive, Fresh
  <1>3. Guarded(Fresh(authorization, shareable))
    BY <1>1, FreshIsIdle
  <1>4. Guarded(EnterAuth(Fresh(authorization, shareable)))
    BY <1>1, <1>3, AuthGuards
  <1> QED
    BY <1>2, <1>4, SlotGuarded

LEMMA StepGuarded ==
    ASSUME PipelineInv, NEW r \in Requests, Step(r)
    PROVE  PipelineInv'
  <1> DEFINE q == request[r]
  <1>1. /\ config \in Configs /\ Guarded(q) /\ q \in Request
        /\ cache \in [Routes -> Entry] /\ request \in [Requests -> Request]
        /\ \A k \in Routes : ~cache[k].personal
    BY DEF PipelineInv, TypeOK, Guarded
  <1>2. q.authorization \in Authorizations
    BY <1>1 DEF Request
  <1>3. Guarded(Replied(q, "refused")) /\ Guarded(Replied(q, "proxied"))
    BY <1>1, <1>2, RepliedGuarded DEF Statuses
  <1>4. CASE Verified(r)
    <2>1. \/ Become(r, EnterRateLimit(q))
          \/ Become(r, Replied(q, "refused"))
      BY <1>4 DEF Verified
    <2>2. UNCHANGED <<config, cache, skipped, silent>>
      BY <1>4 DEF Verified
    <2>3. Guarded(EnterRateLimit(q))
      BY <1>1, RateLimitGuards
    <2> QED
      BY <1>3, <2>1, <2>2, <2>3, SlotGuarded
  <1>5. CASE Limited(r)
    <2>1. \/ Become(r, EnterCache(q))
          \/ Become(r, Replied(q, "refused"))
      BY <1>5 DEF Limited
    <2>2. UNCHANGED <<config, cache, skipped, silent>>
      BY <1>5 DEF Limited
    <2>3. Guarded(EnterCache(q))
      BY <1>1, CacheGuards
    <2> QED
      BY <1>3, <2>1, <2>2, <2>3, SlotGuarded
  <1>6. CASE LookedUp(r)
    <2>1. \/ Become(r, Replied(q, "hit"))
          \/ Become(r, EnterHandler(q))
      BY <1>6 DEF LookedUp
    <2>2. q.pc = "lookingUp" /\ UNCHANGED <<config, cache, skipped, silent>>
      BY <1>6 DEF LookedUp
    <2>3. Guarded(EnterHandler(q))
      BY <1>1, HandlerGuards
    <2>4. q.authorization = "none"
      BY <1>1, <2>2 DEF Guarded
    <2>5. Guarded(Replied(q, "hit"))
      BY <1>1, <1>2, <2>4, RepliedGuarded DEF Statuses
    <2> QED
      BY <2>1, <2>2, <2>3, <2>5, SlotGuarded
  <1>7. CASE Proxied(r)
    <2> DEFINE next == [pc |-> "storing", authorization |-> q.authorization,
                        shareable |-> q.shareable, cacheKey |-> q.cacheKey,
                        served |-> q.served, status |-> q.status]
    <2>1. q.pc = "proxying" /\ UNCHANGED <<config, cache, skipped, silent>>
      BY <1>7 DEF Proxied
    <2>2. [q EXCEPT !.pc = "storing"] = next
      BY <1>1 DEF Request
    <2>3. \/ Become(r, Replied(q, "proxied"))
          \/ q.cacheKey # NoRoute /\ Become(r, next)
      BY <1>7, <2>2 DEF Proxied
    <2>4. ASSUME q.cacheKey # NoRoute
          PROVE  Guarded(next)
      BY <1>1, <2>1, <2>4 DEF Guarded, Request, Phases
    <2> HIDE DEF next, q
    <2> QED
      BY <1>3, <2>1, <2>3, <2>4, SlotGuarded
  <1>8. CASE Stored(r)
    <2> DEFINE served == q.served
               entry == [served EXCEPT !.expires = TRUE]
    <2>1. /\ q.pc = "storing" /\ Become(r, Replied(q, "proxied"))
          /\ UNCHANGED <<config, skipped, silent>>
      BY <1>8 DEF Stored
    <2>2. q.cacheKey \in Routes /\ ~q.served.personal /\ q.served \in Entry
      BY <1>1, <2>1 DEF Guarded, Request
    <2>4. cache' = [cache EXCEPT ![q.cacheKey] = entry] \/ cache' = cache
      BY <1>8 DEF Stored
    <2>5. entry \in Entry /\ ~entry.personal
      <3>1. served \in Entry /\ ~served.personal
        BY <2>2
      <3> HIDE DEF served
      <3> QED
        BY <3>1 DEF Entry
    <2> HIDE DEF entry
    <2>6. cache' \in [Routes -> Entry] /\ \A k \in Routes : ~cache'[k].personal
      BY <1>1, <2>2, <2>4, <2>5
    <2>7. request' = [request EXCEPT ![r] = Replied(q, "proxied")]
      BY <2>1 DEF Become
    <2>8. /\ request' \in [Requests -> Request]
          /\ \A s \in Requests : Guarded(request'[s])
      <3>1. Replied(q, "proxied") \in Request
        BY <1>3 DEF Guarded
      <3>2. \A s \in Requests : Guarded(request[s])
        BY DEF PipelineInv
      <3> QED
        BY <1>1, <1>3, <2>7, <3>1, <3>2
    <2>9. TypeOK'
      BY <1>1, <2>1, <2>6, <2>8 DEF TypeOK, PipelineInv
    <2>10. (\A s \in Requests : Guarded(request[s]))'
      BY <2>8 DEF Guarded
    <2> QED
      BY <2>6, <2>9, <2>10 DEF PipelineInv
  <1> QED
    BY <1>4, <1>5, <1>6, <1>7, <1>8 DEF Step

LEMMA PipelineStarts == Init => PipelineInv
  <1> SUFFICES ASSUME Init
               PROVE  PipelineInv
    OBVIOUS
  <1>1. /\ config \in Configs
        /\ request = [r \in Requests |-> IdleRequest]
        /\ cache = [k \in Routes |-> NoEntry]
        /\ skipped \in BOOLEAN /\ silent \in BOOLEAN
    BY DEF Init
  <1>2. NoEntry \in Entry
    BY <1>1, NoEntryIsEntry
  <1>3. Guarded(IdleRequest)
    BY <1>2 DEF Guarded, IdleRequest, Request, Phases, Authorizations, Statuses
  <1>4. ~NoEntry.personal
    BY DEF NoEntry
  <1>5. TypeOK
    BY <1>1, <1>2, <1>3 DEF TypeOK, Guarded
  <1> QED
    BY <1>1, <1>3, <1>4, <1>5 DEF PipelineInv

LEMMA PipelineInductive == PipelineInv /\ [Next]_vars => PipelineInv'
  <1> SUFFICES ASSUME PipelineInv, [Next]_vars
               PROVE  PipelineInv'
    OBVIOUS
  <1>1. /\ config \in Configs /\ cache \in [Routes -> Entry]
        /\ request \in [Requests -> Request]
        /\ skipped \in BOOLEAN /\ silent \in BOOLEAN
        /\ \A k \in Routes : ~cache[k].personal
        /\ \A s \in Requests : Guarded(request[s])
    BY DEF PipelineInv, TypeOK
  <1>2. ASSUME request' = request
        PROVE  (\A s \in Requests : Guarded(request[s]))'
    BY <1>1, <1>2 DEF Guarded
  <1>3. ASSUME NEW r \in Requests, Arrive(r) \/ Step(r)
        PROVE  PipelineInv'
    BY <1>3, ArriveGuarded, StepGuarded
  <1>4. ASSUME NEW k \in Routes, Expire(k)
        PROVE  PipelineInv'
    <2>1. cache' = [cache EXCEPT ![k] = NoEntry] /\ UNCHANGED <<config, request, skipped, silent>>
      BY <1>4 DEF Expire
    <2>2. NoEntry \in Entry /\ ~NoEntry.personal
      BY <1>1, NoEntryIsEntry DEF NoEntry
    <2>3. cache' \in [Routes -> Entry] /\ \A j \in Routes : ~cache'[j].personal
      BY <1>1, <2>1, <2>2
    <2>4. TypeOK'
      BY <1>1, <2>1, <2>3 DEF TypeOK
    <2> QED
      BY <1>2, <2>1, <2>3, <2>4 DEF PipelineInv
  <1>5. CASE Swap
    <2>1. config' \in Configs /\ UNCHANGED <<request, cache, skipped, silent>>
      BY <1>5 DEF Swap
    <2>2. TypeOK'
      BY <1>1, <2>1 DEF TypeOK
    <2> QED
      BY <1>1, <1>2, <2>1, <2>2 DEF PipelineInv
  <1>6. CASE RedisChanges
    <2>1. silent' \in BOOLEAN /\ UNCHANGED <<config, request, cache, skipped>>
      BY <1>1, <1>6 DEF RedisChanges
    <2>2. TypeOK'
      BY <1>1, <2>1 DEF TypeOK
    <2> QED
      BY <1>1, <1>2, <2>1, <2>2 DEF PipelineInv
  <1>7. CASE UNCHANGED vars
    <2>1. UNCHANGED <<config, request, cache, skipped, silent>>
      BY <1>7 DEF vars
    <2>2. TypeOK'
      BY <1>1, <2>1 DEF TypeOK
    <2> QED
      BY <1>1, <1>2, <2>1, <2>2 DEF PipelineInv
  <1> QED
    BY <1>3, <1>4, <1>5, <1>6, <1>7 DEF Next

LEMMA PipelineAlways == Spec => []PipelineInv
  BY PipelineStarts, PipelineInductive, PTL DEF Spec

-----------------------------------------------------------------------------
(* Theorems on the pipeline *)

\* Requests, config and cache are of their types: every cache key is a route's.
THEOREM PipelineTyped == Spec => []TypeOK
  <1>1. PipelineInv => TypeOK
    BY DEF PipelineInv
  <1> QED
    BY <1>1, PipelineAlways, PTL

\* However the config is swapped between the hooks, a response to a request with
\* an Authorization header is never stored, nor such a request answered from the
\* cache.
THEOREM PersonalStaysPersonal == Spec => []NeverSharesPersonalResponses
  <1>1. PipelineInv => NeverSharesPersonalResponses
    BY DEF PipelineInv, Guarded, NeverSharesPersonalResponses
  <1> QED
    BY <1>1, PipelineAlways, PTL

-----------------------------------------------------------------------------
(* What the cache holds, and the safety half of StaleResponsesExpire: an entry
   would stay for ever without its TTL, and would be of no config if a swap
   between two hooks could mix the route of one with the upstream of another. *)

\* A response made for the route and the upstream of one and the same config.
OfOneConfig(e) ==
    \E c \in Configs :
        c.route # NoRoute /\ e.route = c.route /\ e.upstream = c.upstream

EntriesExpire ==
    \A k \in Routes : cache[k].present => cache[k].expires /\ OfOneConfig(cache[k])

\* Where a request that is proxied went.
Sourced(q) == q.pc \in {"proxying", "storing"} => OfOneConfig(q.served)

OriginInv ==
    /\ EntriesExpire
    /\ \A r \in Requests : Sourced(request[r])

LEMMA RepliedSourced ==
    ASSUME config \in Configs, NEW q, q.authorization \in Authorizations,
           NEW status \in Statuses
    PROVE  Replied(q, status).pc = "answered"
  <1>1. IdleRequest \in Request
    BY IdleIsRequest
  <1> QED
    BY <1>1 DEF Replied, Request

LEMMA HooksSource ==
    ASSUME config \in Configs, NEW q, Guarded(q), q.pc \notin {"proxying", "storing"}
    PROVE  /\ Sourced(EnterHandler(q)) /\ Sourced(EnterCache(q))
           /\ Sourced(EnterRateLimit(q)) /\ Sourced(EnterAuth(q))
  <1>1. q \in Request /\ q.authorization \in Authorizations
    BY DEF Guarded, Request
  <1>2. Sourced(Replied(q, "refused"))
    BY <1>1, RepliedSourced DEF Sourced, Statuses
  <1>3. Sourced(EnterHandler(q))
    <2>1. CASE config.route # NoRoute
      <3>1. /\ EnterHandler(q).served.route = config.route
            /\ EnterHandler(q).served.upstream = config.upstream
        BY <1>1, <2>1 DEF EnterHandler, Request
      <3> QED
        BY <2>1, <3>1 DEF Sourced, OfOneConfig
    <2>2. CASE config.route = NoRoute
      BY <1>2, <2>2 DEF EnterHandler
    <2> QED
      BY <2>1, <2>2
  <1>4. Sourced(EnterCache(q))
    <2>1. [q EXCEPT !.pc = "lookingUp", !.cacheKey = buildCacheKey].pc = "lookingUp"
      BY <1>1 DEF Request
    <2> QED
      BY <1>3, <2>1 DEF EnterCache, Sourced
  <1>5. Sourced(EnterRateLimit(q))
    <2>1. [q EXCEPT !.pc = "limiting"].pc = "limiting"
      BY <1>1 DEF Request
    <2> QED
      BY <1>4, <2>1 DEF EnterRateLimit, Sourced
  <1>6. Sourced(EnterAuth(q))
    <2>1. [q EXCEPT !.pc = "verifying"].pc = "verifying"
      BY <1>1 DEF Request
    <2> QED
      BY <1>2, <1>5, <2>1 DEF EnterAuth, Sourced
  <1> QED
    BY <1>3, <1>4, <1>5, <1>6

\* How one request moves in a step, whichever request the step is of.
Moves(q, next) ==
    \/ next = q
    \/ \E authorization \in Authorizations, shareable \in BOOLEAN :
           next = EnterAuth(Fresh(authorization, shareable))
    \/ q.pc = "verifying" /\ q.authorization = "valid" /\ next = EnterRateLimit(q)
    \/ q.pc = "limiting" /\ next = EnterCache(q)
    \/ q.pc = "lookingUp" /\ next \in {EnterHandler(q), Replied(q, "hit")}
    \/ q.pc = "proxying" /\ next = [q EXCEPT !.pc = "storing"]
    \/ q.pc \in {"proxying", "storing"} /\ next = Replied(q, "proxied")
    \/ next = Replied(q, "refused")

LEMMA EveryRequestMoves ==
    ASSUME PipelineInv, [Next]_vars, NEW s \in Requests
    PROVE  Moves(request[s], request'[s])
  <1>1. request \in [Requests -> Request]
    BY DEF PipelineInv, TypeOK
  <1>2. ASSUME NEW r \in Requests, NEW q, Become(r, q), Moves(request[r], q)
        PROVE  Moves(request[s], request'[s])
    BY <1>1, <1>2 DEF Become, Moves
  <1>3. ASSUME NEW r \in Requests, Arrive(r)
        PROVE  Moves(request[s], request'[s])
    <2>1. PICK authorization \in Authorizations, shareable \in BOOLEAN :
              Become(r, EnterAuth(Fresh(authorization, shareable)))
      BY <1>3 DEF Arrive, Fresh
    <2> QED
      BY <1>2, <2>1 DEF Moves
  <1>4. ASSUME NEW r \in Requests, Step(r)
        PROVE  Moves(request[s], request'[s])
    <2>1. CASE Verified(r)
      BY <1>2, <2>1 DEF Verified, Moves
    <2>2. CASE Limited(r)
      BY <1>2, <2>2 DEF Limited, Moves
    <2>3. CASE LookedUp(r)
      BY <1>2, <2>3 DEF LookedUp, Moves
    <2>4. CASE Proxied(r)
      BY <1>2, <2>4 DEF Proxied, Moves
    <2>5. CASE Stored(r)
      BY <1>2, <2>5 DEF Stored, Moves
    <2> QED
      BY <1>4, <2>1, <2>2, <2>3, <2>4, <2>5 DEF Step
  <1>5. CASE UNCHANGED request
    BY <1>5 DEF Moves
  <1> QED
    BY <1>3, <1>4, <1>5 DEF Next, Expire, Swap, RedisChanges, vars

\* The URL is what it is.
LEMMA URLStays == ASSUME [Next]_vars PROVE UNCHANGED skipped
  BY DEF Next, Step, Arrive, Verified, Limited, LookedUp, Proxied, Stored, Expire, Swap,
         RedisChanges, vars

LEMMA MovesSource ==
    ASSUME config \in Configs, NEW q, Guarded(q), Sourced(q), NEW next, Moves(q, next)
    PROVE  Sourced(next)
  <1>1. q \in Request /\ q.authorization \in Authorizations
    BY DEF Guarded, Request
  <1>2. ASSUME NEW status \in Statuses
        PROVE  Sourced(Replied(q, status))
    BY <1>1, RepliedSourced DEF Sourced
  <1>3. ASSUME NEW authorization \in Authorizations, NEW shareable \in BOOLEAN
        PROVE  Sourced(EnterAuth(Fresh(authorization, shareable)))
    BY FreshIsIdle, HooksSource
  <1>4. CASE q.pc \in {"verifying", "limiting", "lookingUp"}
    BY <1>2, <1>3, <1>4, HooksSource DEF Moves, Statuses
  <1>5. CASE q.pc \in {"proxying", "storing"}
    <2>1. [q EXCEPT !.pc = "storing"].served = q.served
      BY <1>1 DEF Request
    <2> QED
      BY <1>2, <1>3, <1>5, <2>1 DEF Moves, Statuses, Sourced
  <1> QED
    BY <1>2, <1>3, <1>4, <1>5 DEF Moves, Statuses

\* The steps that write the cache: SET with a TTL, or the end of a TTL.
LEMMA CacheMoves ==
    ASSUME PipelineInv, [Next]_vars, NEW k \in Routes
    PROVE  \/ cache'[k] = cache[k]
           \/ cache'[k] = NoEntry
           \/ \E r \in Requests :
                  /\ request[r].pc = "storing"
                  /\ cache'[k] = [request[r].served EXCEPT !.expires = TRUE]
  <1>1. cache \in [Routes -> Entry]
    BY DEF PipelineInv, TypeOK
  <1>2. ASSUME NEW r \in Requests, Stored(r)
        PROVE  \/ cache'[k] = cache[k]
               \/ cache'[k] = [request[r].served EXCEPT !.expires = TRUE]
    <2> DEFINE entry == [request[r].served EXCEPT !.expires = TRUE]
    <2>1. cache' = cache \/ cache' = [cache EXCEPT ![request[r].cacheKey] = entry]
      BY <1>2 DEF Stored
    <2> HIDE DEF entry
    <2>2. cache'[k] = cache[k] \/ cache'[k] = entry
      BY <1>1, <2>1
    <2> QED
      BY <2>2 DEF entry
  <1>3. ASSUME NEW j \in Routes, Expire(j)
        PROVE  cache'[k] = cache[k] \/ cache'[k] = NoEntry
    BY <1>1, <1>3 DEF Expire
  <1>4. CASE UNCHANGED cache
    BY <1>4
  <1>5. ASSUME NEW r \in Requests, Arrive(r) \/ Verified(r) \/ Limited(r) \/ LookedUp(r) \/ Proxied(r)
        PROVE  UNCHANGED cache
    BY <1>5 DEF Arrive, Verified, Limited, LookedUp, Proxied
  <1>6. ASSUME NEW r \in Requests, Stored(r)
        PROVE  request[r].pc = "storing"
    BY <1>6 DEF Stored
  <1>7. Swap \/ RedisChanges \/ UNCHANGED vars => UNCHANGED cache
    BY DEF Swap, RedisChanges, vars
  <1> QED
    BY <1>2, <1>3, <1>4, <1>5, <1>6, <1>7 DEF Next, Step

LEMMA OriginInductive == PipelineInv /\ OriginInv /\ [Next]_vars => OriginInv'
  <1> SUFFICES ASSUME PipelineInv, OriginInv, [Next]_vars
               PROVE  OriginInv'
    OBVIOUS
  <1>1. config \in Configs /\ \A r \in Requests : Guarded(request[r]) /\ Sourced(request[r])
    BY DEF PipelineInv, TypeOK, OriginInv
  <1>2. \A r \in Requests : Sourced(request'[r])
    BY <1>1, EveryRequestMoves, MovesSource
  <1>3. ASSUME NEW k \in Routes, cache'[k].present
        PROVE  cache'[k].expires /\ OfOneConfig(cache'[k])
    <2>1. CASE cache'[k] = cache[k]
      BY <1>3, <2>1 DEF OriginInv, EntriesExpire
    <2>2. CASE cache'[k] = NoEntry
      BY <1>3, <2>2 DEF NoEntry
    <2>3. ASSUME NEW r \in Requests, request[r].pc = "storing",
                 cache'[k] = [request[r].served EXCEPT !.expires = TRUE]
          PROVE  cache'[k].expires /\ OfOneConfig(cache'[k])
      <3>1. request[r].served \in Entry
        BY <1>1 DEF Guarded, Request
      <3>2. OfOneConfig(request[r].served)
        BY <1>1, <2>3 DEF Sourced
      <3>3. /\ cache'[k].expires
            /\ cache'[k].route = request[r].served.route
            /\ cache'[k].upstream = request[r].served.upstream
        BY <2>3, <3>1 DEF Entry
      <3> QED
        BY <3>2, <3>3 DEF OfOneConfig
    <2> QED
      BY <2>1, <2>2, <2>3, CacheMoves
  <1>4. (\A r \in Requests : Sourced(request[r]))'
    BY <1>2 DEF Sourced, OfOneConfig
  <1>5. EntriesExpire'
    BY <1>3 DEF EntriesExpire, OfOneConfig
  <1> QED
    BY <1>4, <1>5 DEF OriginInv

\* Every stored response has a TTL, and came from the upstream that one config
\* gave its route: a request that meets several configs mixes their policies and
\* cache keys, but never their routes and upstreams.
THEOREM StoredResponsesExpire == Spec => []EntriesExpire
  <1>1. Init => OriginInv
    BY DEF Init, OriginInv, EntriesExpire, Sourced, NoEntry, IdleRequest
  <1>2. OriginInv => EntriesExpire
    BY DEF OriginInv
  <1> QED
    BY <1>1, <1>2, OriginInductive, PipelineAlways, PTL DEF Spec

-----------------------------------------------------------------------------
(* Authentication, the safety half of ChecksSettle *)

AuthEverywhere == \A c \in Configs : c.route # NoRoute => c.authRequired

\* Past the token check a request carries a valid token.
Checked(q) ==
    \/ q.pc \in {"limiting", "lookingUp", "proxying", "storing"}
    \/ q.status \in {"hit", "proxied"}
    => q.authorization = "valid"

\* The hook leaves alone the URLs that begin with /admin or /docs, or are one of
\* its three names: nothing is promised of these, whatever their route's policy.
OnlyAuthenticatedPass == ~skipped => \A r \in Requests : Checked(request[r])

LEMMA RefusedChecked ==
    ASSUME config \in Configs, NEW q, q.authorization \in Authorizations
    PROVE  Checked(Replied(q, "refused"))
  <1>1. IdleRequest \in Request
    BY IdleIsRequest
  <1>2. Replied(q, "refused").pc = "answered" /\ Replied(q, "refused").status = "refused"
    BY <1>1 DEF Replied, Request
  <1> QED
    BY <1>2 DEF Checked

\* A request without a valid token gets through the hooks only where no route
\* matches, and they run up to the refusal without an await.
LEMMA HooksCheck ==
    ASSUME config \in Configs, AuthEverywhere, ~skipped, NEW q, Guarded(q), Checked(q)
    PROVE  /\ q.authorization = "valid" \/ config.route = NoRoute =>
                  /\ Checked(EnterHandler(q)) /\ Checked(EnterCache(q))
                  /\ Checked(EnterRateLimit(q))
           /\ Checked(EnterAuth(q))
  <1>1. q \in Request /\ q.authorization \in Authorizations
    BY DEF Guarded, Request
  <1>2. Checked(Replied(q, "refused"))
    BY <1>1, RefusedChecked
  <1>3. CASE config.route = NoRoute
    BY <1>2, <1>3 DEF EnterHandler, EnterCache, EnterRateLimit, EnterAuth
  <1>4. CASE config.route # NoRoute
    <2>1. config.authRequired
      BY <1>4 DEF AuthEverywhere
    <2>2. ASSUME q.authorization = "valid"
          PROVE  Checked(EnterHandler(q)) /\ Checked(EnterCache(q)) /\ Checked(EnterRateLimit(q))
      <3>1. EnterHandler(q).authorization = "valid"
        BY <1>1, <1>4, <2>2 DEF EnterHandler, Request
      <3>2. EnterCache(q).authorization = "valid"
        BY <1>1, <2>2, <3>1 DEF EnterCache, Cacheable
      <3>3. EnterRateLimit(q).authorization = "valid"
        BY <1>1, <1>4, <2>2 DEF EnterRateLimit, Request
      <3> QED
        BY <3>1, <3>2, <3>3 DEF Checked
    <2>3. Checked(EnterAuth(q))
      <3> DEFINE next == [q EXCEPT !.pc = "verifying"]
      <3>1. next.pc = "verifying" /\ next.authorization = q.authorization /\ next.status = q.status
        BY <1>1 DEF Request
      <3>2. Checked(next)
        <4> HIDE DEF next
        <4> QED
          BY <3>1 DEF Checked
      <3> QED
        BY <1>2, <1>4, <2>1, <3>2 DEF EnterAuth
    <2> QED
      BY <1>4, <2>2, <2>3
  <1> QED
    BY <1>3, <1>4

LEMMA MovesCheck ==
    ASSUME config \in Configs, AuthEverywhere, ~skipped, NEW q, Guarded(q), Checked(q),
           NEW next, Moves(q, next)
    PROVE  Checked(next)
  <1>1. q \in Request /\ q.authorization \in Authorizations
    BY DEF Guarded, Request
  <1>2. Checked(Replied(q, "refused"))
    BY <1>1, RefusedChecked
  <1>3. ASSUME NEW authorization \in Authorizations, NEW shareable \in BOOLEAN
        PROVE  Checked(EnterAuth(Fresh(authorization, shareable)))
    <2>1. Checked(Fresh(authorization, shareable))
      BY FreshIsIdle DEF Checked
    <2> QED
      BY <2>1, FreshIsIdle, HooksCheck
  <1>4. ASSUME q.authorization = "valid", NEW status \in Statuses
        PROVE  Checked(Replied(q, status))
    <2>1. IdleRequest \in Request
      BY IdleIsRequest
    <2>2. Replied(q, status).authorization = "valid"
      BY <1>4, <2>1 DEF Replied, Request
    <2> QED
      BY <2>2 DEF Checked
  <1>5. ASSUME q.pc \in {"limiting", "lookingUp", "proxying", "storing"}
        PROVE  q.authorization = "valid"
    BY <1>5 DEF Checked
  <1>6. ASSUME q.authorization = "valid", next = [q EXCEPT !.pc = "storing"]
        PROVE  Checked(next)
    <2>1. next.authorization = "valid"
      BY <1>1, <1>6 DEF Request
    <2> QED
      BY <2>1 DEF Checked
  <1>7. q.authorization = "valid" =>
            Checked(EnterHandler(q)) /\ Checked(EnterCache(q)) /\ Checked(EnterRateLimit(q))
    BY HooksCheck
  <1> QED
    BY <1>2, <1>3, <1>4, <1>5, <1>6, <1>7 DEF Moves, Statuses

\* Where every config asks for a token on the routes it has, no request for a URL
\* that the hook does not skip is proxied or answered from the cache without a
\* valid one, although the hook that checks it and the handler that proxies it
\* match the route separately, and the config between them may change or have
\* had no route.
THEOREM NoneUnauthenticated ==
    ASSUME AuthEverywhere
    PROVE  Spec => []OnlyAuthenticatedPass
  <1>1. Init => OnlyAuthenticatedPass
    BY DEF Init, OnlyAuthenticatedPass, Checked, IdleRequest
  <1>2. PipelineInv /\ OnlyAuthenticatedPass /\ [Next]_vars => OnlyAuthenticatedPass'
    <2> SUFFICES ASSUME PipelineInv, OnlyAuthenticatedPass, [Next]_vars, ~skipped
                 PROVE  (\A r \in Requests : Checked(request[r]))'
      BY URLStays DEF OnlyAuthenticatedPass
    <2>1. config \in Configs /\ \A r \in Requests : Guarded(request[r]) /\ Checked(request[r])
      BY DEF PipelineInv, TypeOK, OnlyAuthenticatedPass
    <2>2. \A r \in Requests : Checked(request'[r])
      BY <2>1, EveryRequestMoves, MovesCheck
    <2> QED
      BY <2>2 DEF Checked
  <1> QED
    BY <1>1, <1>2, PipelineAlways, PTL DEF Spec

=============================================================================
