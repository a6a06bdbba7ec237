---------------------------- MODULE ForwardingProofs ----------------------------
(***************************************************************************)
(* Proofs about RouteMatcher and Forwarding. The loop finds the most       *)
(* specific prefix in every list findEnabled() may return, whatever the    *)
(* routes and the path. Along a chain of gateways of any length it does so *)
(* at each, bodies arrive as they were sent or are refused by the first    *)
(* gateway, and the trace continues.                                       *)
(***************************************************************************)
EXTENDS Forwarding, SequenceTheorems, NaturalsInduction, WellFoundedInduction, TLAPS

-----------------------------------------------------------------------------
(* The invariant of the loop: the list is sorted, and nothing before the
   cursor matches.                                                           *)

MatchResult == [index : Nat, upstreamPath : Seq(Characters)]

ListOK == routes \in Seq(Route) /\ LongestFirst(routes)

CursorOK == cursor \in 1 .. Len(routes) + 1

NothingBefore ==
    \A j \in 1 .. Len(routes) : j < cursor => ~Matches(path, routes[j].pathPrefix)

FoundAtCursor ==
    match # Unmatched =>
        /\ match.index = cursor
        /\ cursor \in 1 .. Len(routes)
        /\ Matches(path, routes[cursor].pathPrefix)

LoopInv == ListOK /\ path \in Paths /\ CursorOK /\ NothingBefore /\ FoundAtCursor

-----------------------------------------------------------------------------

\* A list findEnabled() returns is a sequence of routes, longest prefix first.
LEMMA Listed ==
    ASSUME NEW list \in findEnabled
    PROVE  list \in Seq(Route) /\ LongestFirst(list)
<1>1. PICK n \in 0 .. MaxRoutes : list \in [1 .. n -> Route]
  BY DEF findEnabled
<1>2. list \in Seq(Route)
  BY <1>1, MatcherAssumption
<1>. QED
  BY <1>2 DEF findEnabled

\* The code's initial state satisfies the loop invariant.
LEMMA LoopInit == Init => LoopInv
<1>. SUFFICES ASSUME Init PROVE LoopInv
  OBVIOUS
<1>1. ListOK
  BY Listed DEF Init, ListOK
<1>2. Len(routes) \in Nat
  BY <1>1 DEF ListOK
<1>. QED
  BY <1>1, <1>2 DEF Init, LoopInv, CursorOK, NothingBefore, FoundAtCursor

\* Every step of the loop, and a new list and request, keep the loop invariant.
LEMMA LoopNext == LoopInv /\ [Next]_vars => LoopInv'
<1>. SUFFICES ASSUME LoopInv, [Next]_vars PROVE LoopInv'
  OBVIOUS
<1>len. Len(routes) \in Nat
  BY DEF LoopInv, ListOK
<1>1. CASE Skip
  <2>1. ListOK' /\ (path \in Paths)'
    BY <1>1 DEF Skip, LoopInv, ListOK
  <2>2. CursorOK'
    BY <1>1, <1>len DEF Skip, Searching, LoopInv, CursorOK
  <2>3. NothingBefore'
    BY <1>1, <1>len DEF Skip, Searching, LoopInv, CursorOK, NothingBefore
  <2>4. FoundAtCursor'
    BY <1>1 DEF Skip, Searching, FoundAtCursor
  <2>. QED
    BY <2>1, <2>2, <2>3, <2>4 DEF LoopInv
<1>2. CASE Found
  <2>1. ListOK' /\ (path \in Paths)' /\ CursorOK' /\ NothingBefore'
    BY <1>2 DEF Found, LoopInv, ListOK, CursorOK, NothingBefore
  <2>2. FoundAtCursor'
    BY <1>2, <1>len DEF Found, Searching, LoopInv, CursorOK, FoundAtCursor
  <2>. QED
    BY <2>1, <2>2 DEF LoopInv
<1>3. CASE NextRequest
  <2>1. ListOK'
    BY <1>3, Listed DEF NextRequest, ListOK
  <2>2. Len(routes') \in Nat
    BY <2>1 DEF ListOK
  <2>. QED
    BY <1>3, <2>1, <2>2
    DEF NextRequest, LoopInv, CursorOK, NothingBefore, FoundAtCursor
<1>4. CASE UNCHANGED vars
  BY <1>4 DEF vars, LoopInv, ListOK, CursorOK, NothingBefore, FoundAtCursor
<1>. QED
  BY <1>1, <1>2, <1>3, <1>4 DEF Next

\* Lengths of prefixes are numbers.
LEMMA PrefixLength ==
    ASSUME NEW route \in Route
    PROVE  Len(route.pathPrefix) \in Nat
<1>1. route.pathPrefix \in Seq(Characters)
  BY MatcherAssumption DEF Route
<1>. QED
  BY <1>1

\* What the loop finds, in terms of the characters it compares.
FirstMatchIsLongest ==
    match # Unmatched =>
        /\ match.index \in 1 .. Len(routes)
        /\ Matches(path, routes[match.index].pathPrefix)
        /\ \A j \in 1 .. Len(routes) :
               Matches(path, routes[j].pathPrefix) =>
                   Len(routes[j].pathPrefix) <= Len(routes[match.index].pathPrefix)

\* In a sorted list, the first route that matches is a longest one.
LEMMA LoopImplies == LoopInv => FirstMatchIsLongest
<1>. SUFFICES ASSUME LoopInv, match # Unmatched PROVE FirstMatchIsLongest
  BY DEF FirstMatchIsLongest
<1>1. match.index = cursor /\ cursor \in 1 .. Len(routes)
  BY DEF LoopInv, FoundAtCursor
<1>2. Matches(path, routes[cursor].pathPrefix)
  BY DEF LoopInv, FoundAtCursor
<1>3. ASSUME NEW j \in 1 .. Len(routes), Matches(path, routes[j].pathPrefix)
      PROVE  Len(routes[j].pathPrefix) <= Len(routes[cursor].pathPrefix)
  <2>1. Len(routes) \in Nat /\ routes[j] \in Route /\ routes[cursor] \in Route
    BY <1>1 DEF LoopInv, ListOK
  <2>2. ~(j < cursor)
    BY <1>3 DEF LoopInv, NothingBefore
  <2>3. CASE j = cursor
    BY <2>1, <2>3, PrefixLength
  <2>4. CASE cursor < j
    BY <1>1, <2>4 DEF LoopInv, ListOK, LongestFirst
  <2>. QED
    BY <1>1, <2>1, <2>2, <2>3, <2>4
<1>. QED
  BY <1>1, <1>2, <1>3 DEF FirstMatchIsLongest

\* The cursor stays within the list, and a result is an index of it.
THEOREM MatcherTyped == Spec => []TypeOK
<1>1. LoopInv => TypeOK
  <2>1. ASSUME LoopInv PROVE Len(routes) \in Nat
    BY <2>1 DEF LoopInv, ListOK
  <2>2. Unmatched.index = 0
    BY DEF Unmatched
  <2>. QED
    BY <2>1, <2>2 DEF LoopInv, ListOK, CursorOK, FoundAtCursor, TypeOK
<1>. QED
  BY <1>1, LoopInit, LoopNext, PTL DEF Spec

-----------------------------------------------------------------------------
(* The upstream path *)

\* What starts with a sequence is that sequence and the rest.
LEMMA PrefixAndRest ==
    ASSUME NEW p \in Seq(Characters), NEW q \in Seq(Characters), startsWith(p, q)
    PROVE  /\ slice(p, Len(q)) \in Seq(Characters)
           /\ q \o slice(p, Len(q)) = p
           /\ slice(p, Len(q)) = <<>> => p = q
  <1> DEFINE rest == slice(p, Len(q))
  <1>1. Len(p) \in Nat /\ Len(q) \in Nat /\ Len(q) <= Len(p) /\ SubSeq(p, 1, Len(q)) = q
    BY DEF startsWith
  <1>2. /\ rest \in Seq(Characters)
        /\ Len(rest) = Len(p) - Len(q)
        /\ \A i \in 1 .. Len(p) - Len(q) : rest[i] = p[Len(q) + i]
    BY <1>1 DEF slice
  <1>3. \A i \in 1 .. Len(q) : q[i] = p[i]
    BY <1>1
  <1> HIDE DEF rest
  <1>4. q \o rest = p
    <2>1. /\ q \o rest \in Seq(Characters)
          /\ Len(q \o rest) = Len(q) + Len(rest)
          /\ \A i \in 1 .. Len(q) + Len(rest) :
                 (q \o rest)[i] = IF i <= Len(q) THEN q[i] ELSE rest[i - Len(q)]
      BY <1>2, ConcatProperties
    <2>2. Len(q \o rest) = Len(p)
      BY <1>1, <1>2, <2>1
    <2>3. ASSUME NEW i \in 1 .. Len(p) PROVE (q \o rest)[i] = p[i]
      <3>1. CASE i <= Len(q)
        BY <1>1, <1>2, <1>3, <2>1, <2>2, <3>1
      <3>2. CASE i > Len(q)
        <4>1. PICK k \in 1 .. Len(p) - Len(q) : k = i - Len(q) /\ Len(q) + k = i
          BY <1>1, <3>2
        <4>2. rest[k] = p[i]
          BY <1>2, <4>1
        <4>3. (q \o rest)[i] = rest[k]
          BY <1>1, <1>2, <2>1, <2>2, <3>2, <4>1
        <4> QED
          BY <4>2, <4>3
      <3>3. i <= Len(q) \/ i > Len(q)
        BY <1>1
      <3> QED
        BY <3>1, <3>2, <3>3, Zenon
    <2> QED
      BY <2>1, <2>2, <2>3, SeqEqual
  <1>5. rest = <<>> => p = q
    BY <1>2, <1>4
  <1> QED
    BY <1>2, <1>4, <1>5 DEF rest

\* A sequence that begins with a character starts with it.
LEMMA FirstCharacter ==
    ASSUME NEW p \in Seq(Characters), p # <<>>
    PROVE  startsWith(p, <<p[1]>>)
  <1>1. Len(p) \in Nat /\ Len(p) >= 1 /\ 1 \in 1 .. Len(p) /\ p[1] \in Characters
    BY EmptySeq
  <1>2. /\ SubSeq(p, 1, 1) \in Seq(Characters)
        /\ Len(SubSeq(p, 1, 1)) = 1
        /\ SubSeq(p, 1, 1)[1] = p[1]
    BY <1>1
  <1>3. <<p[1]>> \in Seq(Characters) /\ Len(<<p[1]>>) = 1 /\ <<p[1]>>[1] = p[1]
    BY <1>1
  <1>4. SubSeq(p, 1, 1) = <<p[1]>>
    <2>1. \A i \in 1 .. Len(SubSeq(p, 1, 1)) : SubSeq(p, 1, 1)[i] = <<p[1]>>[i]
      BY <1>2, <1>3
    <2>2. Len(SubSeq(p, 1, 1)) = Len(<<p[1]>>)
      BY <1>2, <1>3
    <2> QED
      BY <1>2, <1>3, <2>1, <2>2, SeqEqual
  <1> QED
    BY <1>1, <1>3, <1>4 DEF startsWith

\* A match at the cursor carries the upstream path of its route.
PathOfMatch ==
    match # Unmatched => match.upstreamPath = UpstreamPath(path, routes[match.index])

LEMMA NextPathOfMatch ==
    LoopInv /\ PathOfMatch /\ [Next]_vars => PathOfMatch'
  BY DEF PathOfMatch, Next, vars, Skip, Found, NextRequest, Searching

LEMMA PathImplies == LoopInv /\ PathOfMatch => UpstreamPathIsPath
  <1> SUFFICES ASSUME LoopInv, PathOfMatch, match # Unmatched,
                      NEW route, route = routes[match.index]
               PROVE  /\ startsWith(match.upstreamPath, <<Slash>>)
                      /\ \/ route.stripPath /\ route.pathPrefix \o match.upstreamPath = path
                         \/ route.stripPath /\ route.pathPrefix = path
                            /\ match.upstreamPath = <<Slash>>
                         \/ ~route.stripPath /\ match.upstreamPath = path
    BY DEF UpstreamPathIsPath
  <1>1. match.index = cursor /\ cursor \in 1 .. Len(routes) /\ routes \in Seq(Route)
    BY DEF LoopInv, FoundAtCursor, ListOK
  <1>2. route \in Route /\ Matches(path, route.pathPrefix)
    BY <1>1 DEF LoopInv, FoundAtCursor
  <1>3. route.pathPrefix \in PathPrefixes /\ route.stripPath \in BOOLEAN
    BY <1>2 DEF Route
  <1>4. path \in Seq(Characters) /\ path # <<>> /\ path[1] = Slash
        /\ route.pathPrefix \in Seq(Characters)
    BY <1>3, MatcherAssumption DEF LoopInv
  <1> DEFINE rest == slice(path, Len(route.pathPrefix))
  <1>5. startsWith(path, route.pathPrefix)
        /\ (rest = <<>> \/ startsWith(rest, <<Slash>>))
    BY <1>2 DEF Matches
  <1>6. /\ route.pathPrefix \o rest = path
        /\ rest = <<>> => path = route.pathPrefix
    BY <1>4, <1>5, PrefixAndRest
  <1>7. match.upstreamPath = UpstreamPath(path, route)
    BY DEF PathOfMatch
  <1> HIDE DEF rest
  <1>8. CASE ~route.stripPath
    <2>1. match.upstreamPath = path
      BY <1>7, <1>8 DEF UpstreamPath
    <2>2. startsWith(path, <<Slash>>)
      BY <1>4, FirstCharacter
    <2> QED
      BY <1>8, <2>1, <2>2
  <1>9. CASE route.stripPath /\ rest # <<>>
    <2>1. match.upstreamPath = rest
      BY <1>7, <1>9 DEF UpstreamPath, rest
    <2> QED
      BY <1>5, <1>6, <1>9, <2>1
  <1>10. CASE route.stripPath /\ rest = <<>>
    <2>1. match.upstreamPath = <<Slash>>
      BY <1>7, <1>10 DEF UpstreamPath, rest
    <2>2. <<Slash>> \in Seq(Characters) /\ <<Slash>> # <<>> /\ <<Slash>>[1] = Slash
      <3>1. Slash \in Characters
        BY <1>4
      <3> QED
        BY <3>1
    <2>3. startsWith(<<Slash>>, <<Slash>>)
      BY <2>2, FirstCharacter
    <2> QED
      BY <1>6, <1>10, <2>1, <2>3
  <1> QED
    BY <1>3, <1>8, <1>9, <1>10

\* Every upstream path starts with a slash and is the request's path without a
\* stripped prefix, for every table and every path.
THEOREM UpstreamPathFound == Spec => []UpstreamPathIsPath
  <1>1. Init => PathOfMatch
    BY DEF Init, PathOfMatch
  <1> QED
    BY <1>1, LoopInit, LoopNext, NextPathOfMatch, PathImplies, PTL DEF Spec

-----------------------------------------------------------------------------
(* Segments. MostSpecificWins speaks of the segments of a path, the loop of its
   characters.                                                                  *)

\* A non-empty set of numbers has a least one, by the well-foundedness of <. An
\* induction over sequences is a search for the least counterexample.
LEMMA LeastNatural ==
    ASSUME NEW S, S \subseteq Nat, S # {}
    PROVE  \E n \in S : \A m \in S : n <= m
  <1>1. IsWellFoundedOn(OpToRel(<, Nat), Nat)
    BY NatLessThanWellFounded
  <1>2. PICK n \in S : \A m \in S : ~(<<m, n>> \in OpToRel(<, Nat))
    BY <1>1, WFMin
  <1>3. \A m \in S : ~(m < n)
    BY <1>2 DEF OpToRel
  <1> QED
    BY <1>3

\* startsWith() compares character by character.
LEMMA StartsWithPointwise ==
    ASSUME NEW p \in Seq(Characters), NEW q \in Seq(Characters)
    PROVE  startsWith(p, q) <=> Len(q) <= Len(p) /\ \A k \in 1 .. Len(q) : p[k] = q[k]
  <1>1. Len(p) \in Nat /\ Len(q) \in Nat
    OBVIOUS
  <1>2. ASSUME Len(q) <= Len(p)
        PROVE  /\ SubSeq(p, 1, Len(q)) \in Seq(Characters)
               /\ Len(SubSeq(p, 1, Len(q))) = Len(q)
               /\ \A k \in 1 .. Len(q) : SubSeq(p, 1, Len(q))[k] = p[k]
    BY <1>1, <1>2
  <1>3. ASSUME Len(q) <= Len(p), \A k \in 1 .. Len(q) : p[k] = q[k]
        PROVE  SubSeq(p, 1, Len(q)) = q
    BY <1>1, <1>2, <1>3, SeqEqual
  <1>4. ASSUME Len(q) <= Len(p), SubSeq(p, 1, Len(q)) = q
        PROVE  \A k \in 1 .. Len(q) : p[k] = q[k]
    BY <1>2, <1>4
  <1> QED
    BY <1>3, <1>4 DEF startsWith

\* matchRoute() accepts a prefix whose characters are the first of the path, up to
\* its end or a slash.
LEMMA MatchesPointwise ==
    ASSUME NEW p \in Seq(Characters), NEW q \in Seq(Characters), Slash \in Characters
    PROVE  Matches(p, q) <=>
               /\ Len(q) <= Len(p) /\ \A k \in 1 .. Len(q) : p[k] = q[k]
               /\ Len(q) = Len(p) \/ p[Len(q) + 1] = Slash
  <1>1. Len(p) \in Nat /\ Len(q) \in Nat
    OBVIOUS
  <1> DEFINE rest == slice(p, Len(q))
  <1>2. SUFFICES ASSUME Len(q) <= Len(p)
                 PROVE  rest = <<>> \/ startsWith(rest, <<Slash>>) <=>
                            Len(q) = Len(p) \/ p[Len(q) + 1] = Slash
    BY StartsWithPointwise DEF Matches
  <1>3. /\ rest \in Seq(Characters)
        /\ Len(rest) = Len(p) - Len(q)
        /\ \A i \in 1 .. Len(p) - Len(q) : rest[i] = p[Len(q) + i]
    BY <1>1, <1>2 DEF slice
  <1> HIDE DEF rest
  <1>4. rest = <<>> <=> Len(q) = Len(p)
    BY <1>1, <1>3, EmptySeq
  <1>5. ASSUME Len(q) # Len(p)
        PROVE  startsWith(rest, <<Slash>>) <=> p[Len(q) + 1] = Slash
    <2>1. <<Slash>> \in Seq(Characters) /\ Len(<<Slash>>) = 1 /\ <<Slash>>[1] = Slash
      OBVIOUS
    <2>2. 1 \in 1 .. Len(p) - Len(q) /\ Len(rest) >= 1 /\ rest[1] = p[Len(q) + 1]
      BY <1>1, <1>2, <1>3, <1>5
    <2>3. startsWith(rest, <<Slash>>) <=> rest[1] = Slash
      <3>1. startsWith(rest, <<Slash>>) <=>
              Len(<<Slash>>) <= Len(rest) /\ \A k \in 1 .. Len(<<Slash>>) : rest[k] = <<Slash>>[k]
        BY <1>3, <2>1, StartsWithPointwise
      <3> QED
        BY <2>1, <2>2, <3>1
    <2> QED
      BY <2>2, <2>3
  <1> QED
    BY <1>4, <1>5

\* A segment goes on to the next slash or the end...
LEMMA SegmentEnd ==
    ASSUME NEW q \in Seq(Characters), NEW k \in 0 .. Len(q)
    PROVE  \E j \in k .. Len(q) :
               (j = Len(q) \/ q[j + 1] = Slash) /\ \A m \in k + 1 .. j : q[m] # Slash
  <1> DEFINE Ends == {j \in k .. Len(q) : j = Len(q) \/ q[j + 1] = Slash}
  <1>1. Len(q) \in Nat
    OBVIOUS
  <1>2. Len(q) \in Ends /\ Ends \subseteq Nat
    BY <1>1
  <1>3. PICK j \in Ends : \A m \in Ends : j <= m
    BY <1>2, LeastNatural
  <1>4. ASSUME NEW m \in k + 1 .. j
        PROVE  q[m] # Slash
    <2> SUFFICES ASSUME q[m] = Slash
                 PROVE  FALSE
      OBVIOUS
    <2>1. m - 1 \in k .. Len(q) /\ (m - 1) + 1 = m
      BY <1>1, <1>3, <1>4
    <2>2. j <= m - 1
      BY <1>3, <2>1
    <2>3. j \in Nat /\ m \in k + 1 .. j
      BY <1>2, <1>3, <1>4
    <2> HIDE DEF Ends
    <2> QED
      BY <1>1, <2>2, <2>3
  <1> QED
    BY <1>3, <1>4

\* ... and begins behind the slash before, or with the path.
HasStart(q, k) ==
    \E i \in 0 .. k : (i = 0 \/ q[i] = Slash) /\ \A m \in i + 1 .. k : q[m] # Slash

\* By the least position that is in no segment.
LEMMA SegmentStart ==
    ASSUME NEW q \in Seq(Characters), NEW k \in 0 .. Len(q)
    PROVE  HasStart(q, k)
  <1> DEFINE Bad == {n \in 0 .. Len(q) : ~HasStart(q, n)}
  <1>1. Len(q) \in Nat
    OBVIOUS
  <1> SUFFICES ASSUME Bad # {}
               PROVE  FALSE
    OBVIOUS
  <1>2. PICK n \in Bad : \A m \in Bad : n <= m
    <2>1. Bad \subseteq Nat
      BY <1>1
    <2> QED
      BY <2>1, LeastNatural
  <1>3. n \in 0 .. Len(q) /\ ~HasStart(q, n)
    BY <1>2
  <1>4. n # 0
    <2>1. HasStart(q, 0)
      BY DEF HasStart
    <2> QED
      BY <1>3, <2>1
  <1>5. q[n] # Slash
    <2>1. ASSUME q[n] = Slash
          PROVE  HasStart(q, n)
      <3>1. n \in 0 .. n /\ \A m \in n + 1 .. n : q[m] # Slash
        BY <1>1, <1>3
      <3> QED
        BY <2>1, <3>1 DEF HasStart
    <2> QED
      BY <1>3, <2>1
  <1>6. HasStart(q, n - 1)
    <2>1. n - 1 \in 0 .. Len(q) /\ ~(n <= n - 1)
      BY <1>1, <1>3, <1>4
    <2> QED
      BY <1>2, <2>1
  <1>7. PICK i \in 0 .. n - 1 :
            (i = 0 \/ q[i] = Slash) /\ \A m \in i + 1 .. n - 1 : q[m] # Slash
    BY <1>6 DEF HasStart
  <1>8. i \in 0 .. n /\ \A m \in i + 1 .. n : q[m] # Slash
    BY <1>1, <1>3, <1>4, <1>5, <1>7
  <1> QED
    BY <1>3, <1>7, <1>8 DEF HasStart

\* What the loop tests character by character is that whole segments are covered.
LEMMA MatchesCovers ==
    ASSUME NEW p \in Seq(Characters), NEW q \in Seq(Characters), Slash \in Characters
    PROVE  Matches(p, q) <=> Covers(q, p)
  <1>1. Len(p) \in Nat /\ Len(q) \in Nat
    OBVIOUS
  <1>2. ASSUME Matches(p, q)
        PROVE  Covers(q, p)
    <2>1. /\ Len(q) <= Len(p) /\ \A k \in 1 .. Len(q) : p[k] = q[k]
          /\ Len(q) = Len(p) \/ p[Len(q) + 1] = Slash
      BY <1>2, MatchesPointwise
    <2> SUFFICES ASSUME NEW i \in 1 .. Len(q) + 1, NEW j \in 0 .. Len(q), IsSegment(q, i, j)
                 PROVE  IsSegment(p, i, j) /\ \A k \in i .. j : p[k] = q[k]
      BY DEF Covers
    <2>2. /\ i - 1 <= j
          /\ i = 1 \/ q[i - 1] = Slash
          /\ j = Len(q) \/ q[j + 1] = Slash
          /\ \A k \in i .. j : q[k] # Slash
      BY DEF IsSegment
    <2>3. i = 1 \/ p[i - 1] = Slash
      <3>1. i # 1 => i - 1 \in 1 .. Len(q)
        BY <1>1
      <3> QED
        BY <2>1, <2>2, <3>1
    <2>4. j = Len(p) \/ p[j + 1] = Slash
      <3>1. j # Len(q) => j + 1 \in 1 .. Len(q)
        BY <1>1
      <3> QED
        BY <2>1, <2>2, <3>1
    <2>5. \A k \in i .. j : k \in 1 .. Len(q)
      BY <1>1
    <2> QED
      BY <1>1, <2>1, <2>2, <2>3, <2>4, <2>5 DEF IsSegment
  <1>3. ASSUME Covers(q, p)
        PROVE  Matches(p, q)
    <2>1. ASSUME NEW a \in 0 .. Len(q), a = 0 \/ q[a] = Slash,
                 NEW j \in a .. Len(q), j = Len(q) \/ q[j + 1] = Slash,
                 \A m \in a + 1 .. j : q[m] # Slash
          PROVE  IsSegment(p, a + 1, j) /\ \A m \in a + 1 .. j : p[m] = q[m]
      <3>1. a + 1 \in 1 .. Len(q) + 1 /\ j \in 0 .. Len(q) /\ (a + 1) - 1 = a
        BY <1>1
      <3>2. IsSegment(q, a + 1, j)
        BY <1>1, <2>1, <3>1 DEF IsSegment
      <3> QED
        BY <1>3, <3>1, <3>2 DEF Covers
    <2>2. Len(q) <= Len(p) /\ (Len(q) = Len(p) \/ p[Len(q) + 1] = Slash)
      <3>1. Len(q) \in 0 .. Len(q)
        BY <1>1
      <3>2. PICK a \in 0 .. Len(q) :
                (a = 0 \/ q[a] = Slash) /\ \A m \in a + 1 .. Len(q) : q[m] # Slash
        BY <3>1, SegmentStart DEF HasStart
      <3>3. Len(q) \in a .. Len(q)
        BY <1>1
      <3>4. IsSegment(p, a + 1, Len(q))
        BY <2>1, <3>2, <3>3
      <3> QED
        BY <3>4 DEF IsSegment
    <2>3. ASSUME NEW k \in 1 .. Len(q)
          PROVE  p[k] = q[k]
      <3>1. CASE q[k] = Slash
        <4>1. k \in 0 .. Len(q)
          BY <1>1
        <4>2. PICK j \in k .. Len(q) :
                  (j = Len(q) \/ q[j + 1] = Slash) /\ \A m \in k + 1 .. j : q[m] # Slash
          BY <4>1, SegmentEnd
        <4>3. IsSegment(p, k + 1, j)
          BY <2>1, <3>1, <4>1, <4>2
        <4>4. k + 1 # 1 /\ (k + 1) - 1 = k
          BY <1>1
        <4> QED
          BY <3>1, <4>3, <4>4 DEF IsSegment
      <3>2. CASE q[k] # Slash
        <4>1. k \in 0 .. Len(q)
          BY <1>1
        <4>2. PICK a \in 0 .. k :
                  (a = 0 \/ q[a] = Slash) /\ \A m \in a + 1 .. k : q[m] # Slash
          BY <4>1, SegmentStart DEF HasStart
        <4>3. PICK j \in k .. Len(q) :
                  (j = Len(q) \/ q[j + 1] = Slash) /\ \A m \in k + 1 .. j : q[m] # Slash
          BY <4>1, SegmentEnd
        <4>4. a \in 0 .. Len(q) /\ j \in a .. Len(q) /\ a # k
          BY <1>1, <3>2, <4>1, <4>2, <4>3
        <4>5. \A m \in a + 1 .. j : q[m] # Slash
          <5>1. \A m \in a + 1 .. j : m \in a + 1 .. k \/ m \in k + 1 .. j
            BY <1>1, <4>1, <4>4
          <5> QED
            BY <4>2, <4>3, <5>1
        <4>6. \A m \in a + 1 .. j : p[m] = q[m]
          BY <2>1, <4>2, <4>3, <4>4, <4>5
        <4>7. k \in a + 1 .. j
          BY <1>1, <4>1, <4>2, <4>3, <4>4
        <4> QED
          BY <4>6, <4>7
      <3> QED
        BY <3>1, <3>2
    <2> QED
      BY <2>2, <2>3, MatchesPointwise
  <1> QED
    BY <1>2, <1>3

\* So a first match covers most, and only a list without one is gone through.
LEMMA LoopImpliesSpecific == LoopInv => MostSpecificWins
  <1> SUFFICES ASSUME LoopInv, ~Searching
               PROVE  MostSpecificWins
    BY DEF MostSpecificWins
  <1>1. routes \in Seq(Route) /\ Len(routes) \in Nat /\ path \in Paths
    BY DEF LoopInv, ListOK
  <1>2. \A j \in 1 .. Len(routes) :
            Matches(path, routes[j].pathPrefix) <=> Covers(routes[j].pathPrefix, path)
    <2> TAKE j \in 1 .. Len(routes)
    <2>0. routes[j] \in Route
      BY <1>1, ElementOfSeq
    <2>1. routes[j].pathPrefix \in PathPrefixes
      BY <2>0 DEF Route
    <2>2. path \in Seq(Characters) /\ routes[j].pathPrefix \in Seq(Characters)
          /\ path # <<>> /\ path[1] = Slash
      BY <1>1, <2>1, MatcherAssumption
    <2>3. Slash \in Characters
      <3>1. 1 \in 1 .. Len(path)
        BY <2>2, EmptySeq
      <3> QED
        BY <2>2, <3>1, ElementOfSeq
    <2> QED
      BY <2>2, <2>3, MatchesCovers
  <1>3. CASE match = Unmatched
    <2>1. cursor > Len(routes) 
      BY <1>1, <1>3 DEF Searching, LoopInv, CursorOK
    <2>2. \A j \in 1 .. Len(routes) : ~Matches(path, routes[j].pathPrefix)
      BY <1>1, <2>1 DEF LoopInv, NothingBefore, CursorOK
    <2> QED
      BY <1>2, <1>3, <2>2 DEF MostSpecificWins
  <1>4. CASE match # Unmatched
    <2>1. /\ match.index \in 1 .. Len(routes)
          /\ Matches(path, routes[match.index].pathPrefix)
          /\ \A j \in 1 .. Len(routes) :
                 Matches(path, routes[j].pathPrefix) =>
                     Len(routes[j].pathPrefix) <= Len(routes[match.index].pathPrefix)
      BY <1>4, LoopImplies DEF FirstMatchIsLongest
    <2> QED
      BY <1>2, <1>4, <2>1 DEF MostSpecificWins
  <1> QED
    BY <1>3, <1>4

\* matchRoute() returns a route that covers whole segments of the path and none
\* that does is longer, or there is none, for every table and path.
THEOREM MostSpecificFound == Spec => []MostSpecificWins
  BY LoopInit, LoopNext, LoopImpliesSpecific, PTL DEF Spec

-----------------------------------------------------------------------------
(* The chain *)

\* Every gateway of the chain matches its request as RouteMatcher does, so that
\* what holds of the matcher holds along the chain.
THEOREM ChainMatches == ForwardingSpec => Spec
  <1>1. ForwardingInit => Init
    BY DEF ForwardingInit
  <1>2. [ForwardingNext]_<<vars, forwardingVars>> => [Next]_vars
    BY DEF ForwardingNext, Look, Send, Refuse, Relay, Next, vars
  <1> QED
    BY <1>1, <1>2, PTL DEF ForwardingSpec, Spec

\* Every upstream of a chain gets a path, which with its prefix is the path of
\* the request.
THEOREM UpstreamPathFoundInChain == ForwardingSpec => []UpstreamPathIsPath
  BY ChainMatches, UpstreamPathFound, PTL

\* The most specific route is found at every gateway of a chain.
THEOREM MostSpecificFoundInChain == ForwardingSpec => []MostSpecificWins
  BY ChainMatches, MostSpecificFound, PTL

-----------------------------------------------------------------------------
(* Bodies. BodiesArrive says nothing of a body that has come to a gateway and is
   not sent on yet: it is the client's at the first, and what Extracted makes of that
   at all others, which extracting once more neither changes nor resizes.         *)

Written == {"none", "bytes", "compact", "altered", "unquoted"}

BodyInv ==
    /\ hop \in Nat /\ hop >= 1
    /\ payload \in [body : Bodies \cup Written, length : BOOLEAN]
    /\ sent.body \in Bodies
    /\ stage \in {"matching", "forwarded", "refused"}
    /\ stage # "forwarded" /\ hop = 1 => payload.body = sent.body
    /\ stage = "forwarded" \/ hop > 1 => payload.body = Extracted(sent.body)
    /\ stage = "refused" => hop = 1 /\ sent.body \in Resized

LEMMA ExtractedIsWritten ==
    ASSUME NEW body \in Bodies
    PROVE  /\ Extracted(body) \in Written
           /\ Extracted(Extracted(body)) = Extracted(body)
           /\ Extracted(body) \notin Resized
  BY DEF Extracted, Written, Bodies, SameValue, OtherValue, Resized

LEMMA InitBodyInv == ForwardingInit => BodyInv
  BY DEF ForwardingInit, BodyInv, Payloads

LEMMA NextBodyInv ==
    BodyInv /\ [ForwardingNext]_<<vars, forwardingVars>> => BodyInv'
  <1> SUFFICES ASSUME BodyInv, [ForwardingNext]_<<vars, forwardingVars>> PROVE BodyInv'
    OBVIOUS
  <1>0. payload.body = sent.body \/ payload.body = Extracted(sent.body)
    BY DEF BodyInv
  <1>1. CASE UNCHANGED <<vars, forwardingVars>> \/ Look
    BY <1>1 DEF Look, forwardingVars, BodyInv
  <1>2. CASE Send
    <2>1. /\ payload' = [body |-> Extracted(payload.body), length |-> TRUE]
          /\ stage' = "forwarded" /\ UNCHANGED <<hop, sent>>
      BY <1>2 DEF Send
    <2>2. sent.body \in Bodies
      BY DEF BodyInv
    <2>3. Extracted(payload.body) = Extracted(sent.body) /\ Extracted(sent.body) \in Written
      BY <1>0, <2>2, ExtractedIsWritten
    <2>4. payload'.body = Extracted(sent.body)
          /\ payload' \in [body : Bodies \cup Written, length : BOOLEAN]
      BY <2>1, <2>3
    <2> QED
      BY <2>1, <2>4 DEF BodyInv
  <1>3. CASE Refuse
    <2>1. /\ stage' = "refused" /\ UNCHANGED <<hop, payload, sent>> /\ stage = "matching"
          /\ payload.body \in Resized
      BY <1>3 DEF Refuse, Matched, Mismatch
    <2>2. payload.body # Extracted(sent.body)
      BY <2>1, ExtractedIsWritten DEF BodyInv
    <2>3. hop = 1 /\ payload.body = sent.body
      BY <2>1, <2>2 DEF BodyInv
    <2> QED
      BY <2>1, <2>3 DEF BodyInv
  <1>4. CASE Relay
    BY <1>4 DEF Relay, BodyInv
  <1> QED
    BY <1>1, <1>2, <1>3, <1>4 DEF ForwardingNext

\* Whatever the chain, a body that is no JSON or whose value survives being parsed
\* and written again comes to every upstream with its value, and what is refused is
\* refused by the first gateway and for its length (proxy.routes.ts, http-proxy.ts).
THEOREM BodiesKept == ForwardingSpec => []BodiesArrive
  <1>1. BodyInv => BodiesArrive
    BY DEF BodyInv, BodiesArrive, Extracted, SameValue, OtherValue, Resized
  <1> QED
    BY <1>1, InitBodyInv, NextBodyInv, PTL DEF ForwardingSpec

-----------------------------------------------------------------------------
(* The trace. What a gateway sends on is a trace id, which the next one accepts and
   normalises to itself.                                                         *)

HexCharacters == IdCharacters \ {Dash}

TraceId == [1 .. HexWidth -> HexCharacters]

\* One position of the recursion in Undashed.
KeptStep(id, f, n) ==
    IF n = 0 THEN <<>>
    ELSE IF id[n] = Dash THEN f[n - 1] ELSE Append(f[n - 1], id[n])

HasKept(id, m) ==
    \E f \in [0 .. m -> Seq(HexCharacters)] : \A n \in 0 .. m : f[n] = KeptStep(id, f, n)

\* Such a function exists up to every position, by the least one where none does.
LEMMA KeptExists ==
    ASSUME NEW id \in Seq(IdCharacters), NEW m \in 0 .. Len(id)
    PROVE  HasKept(id, m)
  <1> DEFINE Bad == {n \in 0 .. Len(id) : ~HasKept(id, n)}
  <1>1. Len(id) \in Nat
    OBVIOUS
  <1> SUFFICES ASSUME Bad # {}
               PROVE  FALSE
    OBVIOUS
  <1>2. PICK b \in Bad : \A n \in Bad : b <= n
    <2>1. Bad \subseteq Nat
      BY <1>1
    <2> QED
      BY <2>1, LeastNatural
  <1>3. b \in 0 .. Len(id) /\ ~HasKept(id, b)
    BY <1>2
  <1>4. b # 0
    <2> DEFINE f == [n \in 0 .. 0 |-> <<>>]
    <2>1. f \in [0 .. 0 -> Seq(HexCharacters)]
      OBVIOUS
    <2>2. \A n \in 0 .. 0 : f[n] = KeptStep(id, f, n)
      BY DEF KeptStep
    <2>3. HasKept(id, 0)
      BY <2>1, <2>2 DEF HasKept
    <2> QED
      BY <1>3, <2>3
  <1>5. HasKept(id, b - 1)
    <2>1. b - 1 \in 0 .. Len(id) /\ ~(b <= b - 1)
      BY <1>1, <1>3, <1>4
    <2> QED
      BY <1>2, <2>1
  <1>6. PICK f \in [0 .. b - 1 -> Seq(HexCharacters)] :
            \A n \in 0 .. b - 1 : f[n] = KeptStep(id, f, n)
    BY <1>5 DEF HasKept
  <1> DEFINE last == KeptStep(id, f, b)
             g == [n \in 0 .. b |-> IF n = b THEN last ELSE f[n]]
  <1>7. last \in Seq(HexCharacters)
    <2>1. b - 1 \in 0 .. b - 1 /\ b \in 1 .. Len(id)
      BY <1>1, <1>3, <1>4
    <2>2. f[b - 1] \in Seq(HexCharacters) /\ id[b] \in IdCharacters
      BY <1>6, <2>1, ElementOfSeq
    <2>3. id[b] # Dash => Append(f[b - 1], id[b]) \in Seq(HexCharacters)
      BY <2>2, AppendProperties DEF HexCharacters
    <2> QED
      BY <1>4, <2>2, <2>3 DEF KeptStep
  <1> HIDE DEF last
  <1>8. \A n \in 0 .. b - 1 : n \in 0 .. b /\ n # b /\ g[n] = f[n]
    BY <1>1, <1>3
  <1>9. g[b] = last /\ b \in 0 .. b
    BY <1>1, <1>3
  <1>10. g \in [0 .. b -> Seq(HexCharacters)]
    <2>1. \A n \in 0 .. b : n = b \/ n \in 0 .. b - 1
      BY <1>1, <1>3
    <2> QED
      BY <1>6, <1>7, <2>1
  <1> HIDE DEF g
  <1>11. ASSUME NEW n \in 0 .. b
         PROVE  g[n] = KeptStep(id, g, n)
    <2>1. n # 0 => n - 1 \in 0 .. b - 1
      BY <1>1, <1>3
    <2>2. n # 0 => g[n - 1] = f[n - 1]
      BY <1>8, <2>1
    <2>3. KeptStep(id, g, n) = KeptStep(id, f, n)
      BY <2>2 DEF KeptStep
    <2>4. CASE n = b
      BY <1>9, <2>3, <2>4 DEF last
    <2>5. CASE n # b
      <3>1. n \in 0 .. b - 1
        BY <1>1, <1>3, <2>5
      <3> QED
        BY <1>6, <1>8, <2>3, <3>1
    <2> QED
      BY <2>4, <2>5
  <1>12. HasKept(id, b)
    BY <1>10, <1>11 DEF HasKept
  <1> QED
    BY <1>3, <1>12

\* Undashed is the end of one.
LEMMA UndashedKept ==
    ASSUME NEW id \in Seq(IdCharacters)
    PROVE  \E f \in [0 .. Len(id) -> Seq(HexCharacters)] :
               /\ \A n \in 0 .. Len(id) : f[n] = KeptStep(id, f, n)
               /\ Undashed(id) = f[Len(id)]
  <1>1. Len(id) \in Nat /\ Len(id) \in 0 .. Len(id)
    OBVIOUS
  <1>2. PICK f \in [0 .. Len(id) -> Seq(HexCharacters)] :
            \A n \in 0 .. Len(id) : f[n] = KeptStep(id, f, n)
    BY <1>1, KeptExists DEF HasKept
  <1> DEFINE Is(h) == h = [n \in 0 .. Len(id) |->
                     IF n = 0 THEN <<>>
                     ELSE IF id[n] = Dash THEN h[n - 1] ELSE Append(h[n - 1], id[n])]
             kept == CHOOSE h : Is(h)
  <1>3. Is(f)
    BY <1>2 DEF KeptStep
  <1>4. Is(kept)
    BY <1>3
  <1>5. Undashed(id) = kept[Len(id)]
    BY DEF Undashed
  <1> HIDE DEF kept
  <1>6. \A n \in 0 .. Len(id) : kept[n] = KeptStep(id, kept, n)
    BY <1>4 DEF KeptStep
  <1>7. \A n \in 0 .. Len(id) : kept[n] = f[n]
    <2> DEFINE Bad == {n \in 0 .. Len(id) : kept[n] # f[n]}
    <2> SUFFICES ASSUME Bad # {}
                 PROVE  FALSE
      OBVIOUS
    <2>1. PICK b \in Bad : \A n \in Bad : b <= n
      <3>1. Bad \subseteq Nat
        OBVIOUS
      <3> QED
        BY <3>1, LeastNatural
    <2>2. b \in 0 .. Len(id) /\ kept[b] # f[b]
      BY <2>1
    <2>3. b # 0 => b - 1 \in 0 .. Len(id) /\ ~(b <= b - 1)
      BY <1>1, <2>2
    <2>4. b # 0 => kept[b - 1] = f[b - 1]
      BY <2>1, <2>3
    <2>5. KeptStep(id, kept, b) = KeptStep(id, f, b)
      BY <2>4 DEF KeptStep
    <2> QED
      BY <1>2, <1>6, <2>2, <2>5
  <1>8. Undashed(id) = f[Len(id)]
    BY <1>1, <1>5, <1>7
  <1> QED
    BY <1>2, <1>8

\* Without dashes nothing goes.
LEMMA UndashedDashless ==
    ASSUME NEW id \in Seq(HexCharacters)
    PROVE  Undashed(id) = id
  <1>1. id \in Seq(IdCharacters) /\ Len(id) \in Nat
    BY DEF HexCharacters
  <1>2. \A n \in 1 .. Len(id) : id[n] \in HexCharacters /\ id[n] # Dash
    BY ElementOfSeq DEF HexCharacters
  <1>3. PICK f \in [0 .. Len(id) -> Seq(HexCharacters)] :
               /\ \A n \in 0 .. Len(id) : f[n] = KeptStep(id, f, n)
               /\ Undashed(id) = f[Len(id)]
    BY <1>1, UndashedKept
  <1> DEFINE Right(n) == Len(f[n]) = n /\ \A i \in 1 .. n : f[n][i] = id[i]
             Bad == {n \in 0 .. Len(id) : ~Right(n)}
  <1>4. Bad = {}
    <2> SUFFICES ASSUME Bad # {}
                 PROVE  FALSE
      OBVIOUS
    <2>1. PICK b \in Bad : \A n \in Bad : b <= n
      <3>1. Bad \subseteq Nat
        BY <1>1
      <3> QED
        BY <3>1, LeastNatural
    <2>2. b \in 0 .. Len(id) /\ ~Right(b)
      BY <2>1
    <2>3. CASE b = 0
      <3>1. f[0] = <<>>
        BY <1>1, <1>3 DEF KeptStep
      <3>2. Right(0)
        BY <3>1
      <3> QED
        BY <2>2, <2>3, <3>2
    <2>4. CASE b # 0
      <3>1. b - 1 \in 0 .. Len(id) /\ ~(b <= b - 1) /\ b \in 1 .. Len(id)
        BY <1>1, <2>2, <2>4
      <3>2. Right(b - 1)
        BY <2>1, <3>1
      <3>3. f[b] = Append(f[b - 1], id[b])
        BY <1>2, <1>3, <2>2, <2>4, <3>1 DEF KeptStep
      <3>4. f[b - 1] \in Seq(HexCharacters)
        BY <1>3, <3>1
      <3>5. /\ Len(f[b]) = (b - 1) + 1
            /\ f[b][b] = id[b]
            /\ \A i \in 1 .. b - 1 : f[b][i] = f[b - 1][i]
        <4>1. /\ Len(Append(f[b - 1], id[b])) = Len(f[b - 1]) + 1
              /\ \A i \in 1 .. Len(f[b - 1]) : Append(f[b - 1], id[b])[i] = f[b - 1][i]
              /\ Append(f[b - 1], id[b])[Len(f[b - 1]) + 1] = id[b]
          BY <1>2, <3>1, <3>4, AppendProperties
        <4>2. Len(f[b - 1]) = b - 1 /\ (b - 1) + 1 = b
          BY <3>1, <3>2
        <4> QED
          BY <3>3, <4>1, <4>2
      <3>6. \A i \in 1 .. b : i = b \/ i \in 1 .. b - 1
        BY <3>1
      <3>7. \A i \in 1 .. b - 1 : f[b - 1][i] = id[i]
        BY <3>2
      <3>8. Right(b)
        BY <3>1, <3>5, <3>6, <3>7
      <3> QED
        BY <2>2, <3>8
    <2> QED
      BY <2>3, <2>4
  <1>5. Len(id) \in 0 .. Len(id)
    BY <1>1
  <1>6. Right(Len(id)) /\ f[Len(id)] \in Seq(HexCharacters)
    BY <1>3, <1>4, <1>5
  <1>7. f[Len(id)] = id
    BY <1>6, SeqEqual
  <1> QED
    BY <1>3, <1>7

\* normaliseToHex32() makes a trace id of every x-request-id, and keeps one.
LEMMA NormalisedIsTraceId ==
    ASSUME NEW id \in Seq(IdCharacters)
    PROVE  Normalised(id) \in TraceId
  <1>1. PICK f \in [0 .. Len(id) -> Seq(HexCharacters)] : Undashed(id) = f[Len(id)]
    BY UndashedKept
  <1>2. Len(id) \in 0 .. Len(id)
    BY LenProperties
  <1>3. Undashed(id) \in Seq(HexCharacters)
    BY <1>1, <1>2
  <1> DEFINE undashed == Undashed(id)
  <1>4. Len(undashed) \in Nat /\ \A i \in 1 .. Len(undashed) : undashed[i] \in HexCharacters
    BY <1>3, ElementOfSeq
  <1>5. Zero \in HexCharacters
    BY TraceAssumption DEF HexCharacters
  <1>6. Normalised(id) = [i \in 1 .. HexWidth |-> IF i <= Len(undashed) THEN undashed[i] ELSE Zero]
    BY DEF Normalised
  <1> HIDE DEF undashed
  <1>7. \A i \in 1 .. HexWidth : (IF i <= Len(undashed) THEN undashed[i] ELSE Zero) \in HexCharacters
    BY <1>4, <1>5, TraceAssumption
  <1> QED
    BY <1>6, <1>7 DEF TraceId

LEMMA TraceIdIsSequence ==
    ASSUME NEW t \in TraceId
    PROVE  t \in Seq(HexCharacters) /\ Len(t) = HexWidth
  BY TraceAssumption DEF TraceId

LEMMA NormalisedKeepsTraceIds ==
    ASSUME NEW t \in TraceId
    PROVE  Normalised(t) = t
  <1>1. t \in Seq(HexCharacters) /\ Len(t) = HexWidth
    BY TraceIdIsSequence
  <1>2. Undashed(t) = t
    BY <1>1, UndashedDashless
  <1>3. Normalised(t) = [i \in 1 .. HexWidth |-> IF i <= Len(t) THEN t[i] ELSE Zero]
    BY <1>2 DEF Normalised
  <1>4. \A i \in 1 .. HexWidth : i <= Len(t)
    BY <1>1, TraceAssumption
  <1> QED
    BY <1>3, <1>4 DEF TraceId

\* The next gateway accepts it.
LEMMA TraceIdsParse ==
    ASSUME NEW t \in TraceId
    PROVE  Parses(t)
  <1>1. Len(t) = HexWidth
    BY TraceIdIsSequence
  <1>2. \A i \in 1 .. HexWidth : t[i] # Dash
    BY DEF TraceId, HexCharacters
  <1> QED
    BY <1>1, <1>2 DEF Parses

\* What the first hook of a gateway settles on.
Settled(trace) == trace.hex \in TraceId /\ Normalised(trace.id) = trace.hex

LEMMA ClientTraced ==
    ASSUME NEW client \in ClientHeaders, NEW random \in RandomTraces
    PROVE  Settled(TraceIds(client, random))
  <1>1. random \in TraceId
    BY TraceAssumption DEF TraceId, HexCharacters
  <1>2. Settled([id |-> random, hex |-> random])
    BY <1>1, NormalisedKeepsTraceIds DEF Settled
  <1>3. /\ client.traceparent \in {Absent, Header(<<Dash>>)} \cup {Header(t) : t \in ClientTraces}
        /\ client.requestId \in {Absent} \cup {Header(id) : id \in RequestIds}
    BY DEF ClientHeaders
  <1>4. CASE client.traceparent.present /\ Parses(client.traceparent.value)
    <2> DEFINE t == client.traceparent.value
    <2>1. t \in TraceId
      <3>1. client.traceparent = Header(<<Dash>>) \/ \E u \in ClientTraces : client.traceparent = Header(u)
        BY <1>3, <1>4 DEF Absent
      <3>2. CASE client.traceparent = Header(<<Dash>>)
        <4>1. t = <<Dash>>
          BY <3>2 DEF Header
        <4>2. Len(t) = 1 /\ t[1] = Dash
          BY <4>1
        <4>3. HexWidth = 1 /\ t[1] # Dash
          BY <1>4, <4>2 DEF Parses
        <4> QED
          BY <4>2, <4>3
      <3>3. CASE \E u \in ClientTraces : client.traceparent = Header(u)
        <4>1. t \in ClientTraces
          BY <3>3 DEF Header
        <4> QED
          BY <4>1, TraceAssumption DEF TraceId, HexCharacters
      <3> QED
        BY <3>1, <3>2, <3>3
    <2>2. TraceIds(client, random) = [id |-> t, hex |-> t]
      BY <1>4 DEF TraceIds
    <2> HIDE DEF t
    <2> QED
      BY <2>1, <2>2, NormalisedKeepsTraceIds DEF Settled
  <1>5. CASE client.traceparent.present /\ ~Parses(client.traceparent.value)
    <2>1. TraceIds(client, random) = [id |-> random, hex |-> random]
      BY <1>5 DEF TraceIds
    <2> QED
      BY <1>2, <2>1
  <1>6. CASE ~client.traceparent.present /\ client.requestId.present
    <2> DEFINE id == client.requestId.value
    <2>1. PICK sentId \in RequestIds : client.requestId = Header(sentId)
      BY <1>3, <1>6 DEF Absent
    <2>2. id = sentId
      BY <2>1 DEF Header
    <2>3. id \in Seq(IdCharacters)
      BY <2>2, TraceAssumption
    <2>4. TraceIds(client, random) = [id |-> id, hex |-> Normalised(id)]
      BY <1>6 DEF TraceIds
    <2> HIDE DEF id
    <2> QED
      BY <2>3, <2>4, NormalisedIsTraceId DEF Settled
  <1>7. CASE ~client.traceparent.present /\ ~client.requestId.present
    <2>1. TraceIds(client, random) = [id |-> random, hex |-> random]
      BY <1>7 DEF TraceIds
    <2> QED
      BY <1>2, <2>1
  <1> QED
    BY <1>4, <1>5, <1>6, <1>7

TraceInv == TraceContinues /\ sent.trace \in TraceId

LEMMA InitTraceInv == ForwardingInit => TraceInv
  <1> SUFFICES ASSUME ForwardingInit
               PROVE  TraceInv
    OBVIOUS
  <1>1. PICK client \in ClientHeaders, random \in RandomTraces : headers = Traced(client, random)
    BY DEF ForwardingInit
  <1> DEFINE trace == TraceIds(client, random)
  <1>2. Settled(trace)
    BY ClientTraced
  <1> HIDE DEF trace
  <1>3. headers = [traceparent |-> Header(trace.hex), b3TraceId |-> Header(trace.hex),
                   requestId |-> Header(trace.id)]
    BY <1>1 DEF Traced, trace
  <1>4. /\ headers.traceparent = Header(trace.hex) /\ headers.b3TraceId = Header(trace.hex)
        /\ headers.requestId = Header(trace.id)
    BY <1>3
  <1>5. headers.b3TraceId.value = trace.hex /\ headers.requestId.value = trace.id
    BY <1>4 DEF Header
  <1>6. sent.trace = trace.hex
    BY <1>5 DEF ForwardingInit
  <1> QED
    BY <1>2, <1>4, <1>5, <1>6 DEF TraceInv, TraceContinues, Settled

LEMMA NextTraceInv ==
    TraceInv /\ [ForwardingNext]_<<vars, forwardingVars>> => TraceInv'
  <1> SUFFICES ASSUME TraceInv, [ForwardingNext]_<<vars, forwardingVars>>
               PROVE  TraceInv'
    OBVIOUS
  <1>1. CASE UNCHANGED <<headers, sent>>
    BY <1>1 DEF TraceInv, TraceContinues
  <1>2. CASE Relay
    <2>1. PICK random \in RandomTraces : headers' = Traced(headers, random)
      BY <1>2 DEF Relay
    <2>2. sent' = sent
      BY <1>2 DEF Relay
    <2> DEFINE t == sent.trace
    <2>3. t \in TraceId /\ headers.traceparent = Header(t)
      BY DEF TraceInv, TraceContinues
    <2> HIDE DEF t
    <2>4. headers.traceparent.present /\ headers.traceparent.value = t
      BY <2>3 DEF Header
    <2>5. Parses(t) /\ Normalised(t) = t
      BY <2>3, TraceIdsParse, NormalisedKeepsTraceIds
    <2>6. TraceIds(headers, random) = [id |-> t, hex |-> t]
      BY <2>4, <2>5 DEF TraceIds
    <2>7. headers' = [traceparent |-> Header(t), b3TraceId |-> Header(t), requestId |-> Header(t)]
      BY <2>1, <2>6 DEF Traced
    <2>8. headers'.traceparent = Header(t) /\ headers'.b3TraceId = Header(t)
          /\ headers'.requestId.value = t
      BY <2>7 DEF Header
    <2> QED
      BY <2>2, <2>3, <2>5, <2>8 DEF TraceInv, TraceContinues, t
  <1> QED
    BY <1>1, <1>2 DEF ForwardingNext, Look, Send, Refuse, forwardingVars

\* Along every chain the trace headers name the trace of the first gateway,
\* whatever the client sent (trace-id.middleware.ts).
THEOREM TraceKept == ForwardingSpec => []TraceContinues
  <1>1. TraceInv => TraceContinues
    BY DEF TraceInv
  <1> QED
    BY <1>1, InitTraceInv, NextTraceInv, PTL DEF ForwardingSpec

=============================================================================
