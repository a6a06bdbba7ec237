------------------------------ MODULE RouteMatcher ------------------------------
(***************************************************************************)
(* Route matching: the routes as RouteRepository.findEnabled() lists them, *)
(* longest prefix first, and the loop of matchRoute() over that list.      *)
(*                                                                         *)
(* Sources: services/router/route-matcher.ts and findEnabled() of          *)
(* repositories/route.repository.ts. Paths and prefixes are sequences of   *)
(* characters, as the loop compares characters while what it promises      *)
(* speaks of path segments.                                                *)
(***************************************************************************)
EXTENDS Integers, Sequences

CONSTANTS
    Characters,    \* characters of a path
    Slash,         \* the one that separates segments
    Paths,         \* paths of incoming requests
    PathPrefixes,  \* values of path_prefix, which need not be unique
    MaxRoutes      \* bound on the number of enabled routes

ASSUME MatcherAssumption ==
    /\ Paths \cup PathPrefixes \subseteq Seq(Characters)
    /\ \A p \in Paths \cup PathPrefixes : p # <<>> /\ p[1] = Slash
    /\ MaxRoutes \in Nat

VARIABLES
    routes,   \* the enabled routes as listed in the config
    path,     \* path of the request being matched
    cursor,   \* index of the route the loop looks at
    match     \* MatchResult: the route's index and the upstream path

vars == <<routes, path, cursor, match>>

Route == [pathPrefix : PathPrefixes, stripPath : BOOLEAN]

Unmatched == [index |-> 0, upstreamPath |-> <<>>]

-----------------------------------------------------------------------------
(* The list *)

\* Variant of LongestFirst: ascending order.
ShortestFirst(list) ==
    \A j, k \in 1 .. Len(list) :
        j < k => Len(list[j].pathPrefix) <= Len(list[k].pathPrefix)

\* ORDER BY LENGTH(path_prefix) DESC, which leaves equal lengths in any order.
LongestFirst(list) ==
    \A j, k \in 1 .. Len(list) :
        j < k => Len(list[j].pathPrefix) >= Len(list[k].pathPrefix)

findEnabled == {list \in UNION {[1 .. n -> Route] : n \in 0 .. MaxRoutes} : LongestFirst(list)}

-----------------------------------------------------------------------------
(* The test of one route *)

startsWith(p, q) == Len(q) <= Len(p) /\ SubSeq(p, 1, Len(q)) = q

slice(p, n) == SubSeq(p, n + 1, Len(p))

\* Variant of Matches: no check for full segments.
MatchesAnyPrefix(p, prefix) == startsWith(p, prefix)

\* What follows the prefix is nothing, or begins another segment.
Matches(p, prefix) ==
    /\ startsWith(p, prefix)
    /\ \/ slice(p, Len(prefix)) = <<>>
       \/ startsWith(slice(p, Len(prefix)), <<Slash>>)

\* Variant of UpstreamPath: an exact match leaves an empty path.
UpstreamPathBare(p, route) ==
    IF route.stripPath THEN slice(p, Len(route.pathPrefix)) ELSE p

UpstreamPath(p, route) ==
    LET afterPrefix == slice(p, Len(route.pathPrefix))
    IN  CASE ~route.stripPath -> p
          [] route.stripPath /\ afterPrefix # <<>> -> afterPrefix
          [] OTHER -> <<Slash>>

-----------------------------------------------------------------------------
(* The loop *)

Searching == match = Unmatched /\ cursor <= Len(routes)

\* continue: the route does not match.
Skip ==
    /\ Searching
    /\ ~Matches(path, routes[cursor].pathPrefix)
    /\ cursor' = cursor + 1
    /\ UNCHANGED <<routes, path, match>>

\* return { route, upstreamPath }.
Found ==
    /\ Searching
    /\ Matches(path, routes[cursor].pathPrefix)
    /\ match' = [index |-> cursor, upstreamPath |-> UpstreamPath(path, routes[cursor])]
    /\ UNCHANGED <<routes, path, cursor>>

\* Another request is matched, after any number of reloads of the list.
NextRequest ==
    /\ ~Searching
    /\ routes' \in findEnabled
    /\ path' \in Paths
    /\ cursor' = 1
    /\ match' = Unmatched

Init ==
    /\ routes \in findEnabled
    /\ path \in Paths
    /\ cursor = 1
    /\ match = Unmatched

Next == Skip \/ Found \/ NextRequest

Spec == Init /\ [][Next]_vars

-----------------------------------------------------------------------------
(* Properties *)

TypeOK ==
    /\ routes \in Seq(Route)
    /\ path \in Paths
    /\ cursor \in 1 .. Len(routes) + 1
    /\ match.index \in 0 .. Len(routes)

\* The characters i to j of a path are one full segment: what is between two
\* slashes, or before the first, or behind the last. It may be empty.
IsSegment(p, i, j) ==
    /\ i - 1 <= j /\ j <= Len(p)
    /\ i = 1 \/ p[i - 1] = Slash
    /\ j = Len(p) \/ p[j + 1] = Slash
    /\ \A k \in i .. j : p[k] # Slash

\* The segments of a prefix are the first segments of the path.
Covers(prefix, p) ==
    \A i \in 1 .. Len(prefix) + 1, j \in 0 .. Len(prefix) :
        IsSegment(prefix, i, j) =>
            IsSegment(p, i, j) /\ \A k \in i .. j : p[k] = prefix[k]

\* "Most-specific wins" over "full path segments" (route-matcher.ts): the route
\* found covers whole segments of the path, no route that does is longer, and
\* none is found only if there is none.
MostSpecificWins ==
    LET found == routes[match.index]
    IN  ~Searching =>
            IF match = Unmatched
            THEN \A j \in 1 .. Len(routes) : ~Covers(routes[j].pathPrefix, path)
            ELSE /\ Covers(found.pathPrefix, path)
                 /\ \A j \in 1 .. Len(routes) :
                        Covers(routes[j].pathPrefix, path) =>
                            Len(routes[j].pathPrefix) <= Len(found.pathPrefix)

\* The upstream always gets a path that begins with a slash, and with the
\* prefix put back in front it is the path of the request.
UpstreamPathIsPath ==
    match # Unmatched =>
        LET route == routes[match.index]
        IN  /\ startsWith(match.upstreamPath, <<Slash>>)
            /\ \/ route.stripPath /\ route.pathPrefix \o match.upstreamPath = path
               \/ route.stripPath /\ route.pathPrefix = path /\ match.upstreamPath = <<Slash>>
               \/ ~route.stripPath /\ match.upstreamPath = path

=============================================================================
