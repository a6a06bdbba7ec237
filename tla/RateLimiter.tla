------------------------------ MODULE RateLimiter ------------------------------
(***************************************************************************)
(* The sliding-window rate limiter of one key (route and client): gateway  *)
(* processes stamp each check with Date.now() and send it to Redis, where  *)
(* a script evicts, counts and admits atomically.                          *)
(*                                                                         *)
(* Sources: services/ratelimit/rate-limiter.service.ts and                 *)
(* middlewares/rate-limit.middleware.ts.                                   *)
(*                                                                         *)
(* Time is Redis's clock; a gateway's Date.now() is Skew ahead of it. Each *)
(* gateway has one connection, which keeps the order of its commands, also *)
(* of those it sends again on the next connection. Redis seeds the random  *)
(* numbers of a script anew on every call, so the members of two checks    *)
(* with the same stamp are the same and the sorted set is a set of stamps. *)
(***************************************************************************)
EXTENDS Integers, Sequences, FiniteSets, FiniteSetsExt

CONSTANTS
    Gateways,
    Calls,       \* calls of checkRateLimit: requests of one client to one route
    Skew,        \* how far a gateway's clock is ahead
    Burst,       \* the limit of the key, rate_limit_burst
    WindowMs,    \* the window, 1000 ms in the code
    MaxDelay,    \* how old a check gets before Redis answered it or it failed
    MaxTime      \* bound on the clock

ASSUME RateLimiterAssumption ==
    /\ IsFiniteSet(Gateways) /\ Gateways # {}
    /\ Skew \in [Gateways -> Nat]
    /\ Burst \in Nat \ {0}
    /\ WindowMs \in Nat /\ MaxDelay \in Nat /\ MaxDelay < WindowMs
    /\ MaxTime \in Nat

VARIABLES
    clock,      \* now, in ms
    zset,       \* scores of the sorted set
    expireAt,   \* when PEXPIRE removes it
    check,      \* check[c]: progress of call c
    queue,      \* queue[g]: checks sent by gateway g and not answered
    admitted    \* history: the stamps ZADD recorded, and when

limiterVars == <<clock, zset, expireAt, check, queue, admitted>>

Check ==
    [pc : {"new", "sent", "allowed", "rejected", "failedOpen"},
     stamp : Nat,   \* now = Date.now()
     at : Nat]      \* Redis's time then

LimiterTypeOK ==
    /\ clock \in 0 .. MaxTime
    /\ zset \subseteq Nat /\ Cardinality(zset) <= Burst
    /\ expireAt \in Nat
    /\ check \in [Calls -> Check]
    /\ queue \in [Gateways -> Seq(Calls)]
    /\ admitted \subseteq [stamp : Nat, at : Nat]

-----------------------------------------------------------------------------
(* The script *)

\* Variant of Window: nothing is evicted, the key only expires as a whole.
WindowUnevicted(now) == IF clock < expireAt THEN zset ELSE {}

\* What ZREMRANGEBYSCORE leaves of the sorted set.
Window(now) == {score \in zset : clock < expireAt /\ score > now - WindowMs}

\* Variant of Admits: off by one.
AdmitsOneMore(now) == Cardinality(Window(now)) <= Burst

Admits(now) == Cardinality(Window(now)) < Burst

SlidingWindowScript(now) ==
    IF Admits(now)
    THEN /\ zset' = Window(now) \cup {now}
         /\ expireAt' = clock + WindowMs
         /\ admitted' = admitted \cup {[stamp |-> now, at |-> clock]}
    ELSE /\ zset' = Window(now)
         /\ UNCHANGED <<expireAt, admitted>>

-----------------------------------------------------------------------------
(* checkRateLimit *)

Settle(c, pc) == check' = [check EXCEPT ![c].pc = pc]

\* The middleware reads the clock and redis.eval() queues the command.
checkRateLimit(g, c) ==
    /\ check[c].pc = "new"
    /\ check' = [check EXCEPT ![c] =
           [pc |-> "sent", stamp |-> clock + Skew[g], at |-> clock]]
    /\ queue' = [queue EXCEPT ![g] = Append(@, c)]
    /\ UNCHANGED <<clock, zset, expireAt, admitted>>

\* Redis runs the first command of a connection and the answer arrives.
EvalAnswered(g) ==
    /\ queue[g] # <<>>
    /\ LET c == Head(queue[g])
       IN  /\ SlidingWindowScript(check[c].stamp)
           /\ Settle(c, IF Admits(check[c].stamp) THEN "allowed" ELSE "rejected")
    /\ queue' = [queue EXCEPT ![g] = Tail(@)]
    /\ UNCHANGED clock

\* Redis runs it, but the connection breaks first: the command is sent again.
EvalUnanswered(g) ==
    /\ queue[g] # <<>>
    /\ SlidingWindowScript(check[Head(queue[g])].stamp)
    /\ UNCHANGED <<clock, check, queue>>

\* ioredis gives up the commands of a connection that does not come back, and
\* the limiter lets their requests pass.
RedisFails(g) ==
    /\ queue[g] # <<>>
    /\ check' = [c \in Calls |->
           IF \E j \in DOMAIN queue[g] : queue[g][j] = c
           THEN [check[c] EXCEPT !.pc = "failedOpen"]
           ELSE check[c]]
    /\ queue' = [queue EXCEPT ![g] = <<>>]
    /\ UNCHANGED <<clock, zset, expireAt, admitted>>

\* A millisecond passes, unless a check waits for its answer too long.
Tick ==
    /\ clock < MaxTime
    /\ \A c \in Calls : check[c].pc = "sent" => clock < check[c].at + MaxDelay
    /\ clock' = clock + 1
    /\ UNCHANGED <<zset, expireAt, check, queue, admitted>>

-----------------------------------------------------------------------------
(* Specification *)

LimiterInit ==
    /\ clock = 0
    /\ zset = {}
    /\ expireAt = 0
    /\ check = [c \in Calls |-> [pc |-> "new", stamp |-> 0, at |-> 0]]
    /\ queue = [g \in Gateways |-> <<>>]
    /\ admitted = {}

LimiterNext ==
    \/ \E g \in Gateways :
           \/ \E c \in Calls : checkRateLimit(g, c)
           \/ EvalAnswered(g) \/ EvalUnanswered(g) \/ RedisFails(g)
    \/ Tick

LimiterSpec == LimiterInit /\ [][LimiterNext]_limiterVars

-----------------------------------------------------------------------------
(* Properties *)

InWindow(stamps, end, length) == {s \in stamps : end - length < s /\ s <= end}

\* How far the gateways' clocks are apart.
Spread == Max({Skew[g] : g \in Gateways}) - Min({Skew[g] : g \in Gateways})

\* Gateways together admit requests in at most Burst milliseconds of any window,
\* by their own stamps. Both the eviction by stamps and the expiry by Redis's
\* clock may forget an entry early, by as much as a check is under way and the
\* gateways' clocks are apart: that much of the window is not covered.
BurstPerWindow ==
    LET stamps == {a.stamp : a \in admitted}
    IN  \A end \in stamps :
            Cardinality(InWindow(stamps, end, WindowMs - MaxDelay - Spread)) <= Burst

\* A request is rejected only when admissions used its window up, never on
\* account of requests that were rejected themselves or are older than the
\* window. Those of a gateway whose clock is ahead count, too.
RejectedOnlyWhenFull ==
    \A c \in Calls : check[c].pc = "rejected" =>
        Cardinality({a.stamp : a \in {b \in admitted : b.stamp > check[c].stamp - WindowMs}})
            >= Burst

-----------------------------------------------------------------------------
(* What the comments promise and the code does not do *)

Allowed == {c \in Calls : check[c].pc = "allowed"}

\* "burst Max requests allowed in the window" (rate-limiter.service.ts).
BurstIsMaxRequests ==
    \A c \in Allowed :
        Cardinality({s \in Allowed : check[s].stamp \in
            (check[c].stamp - WindowMs + 1) .. check[c].stamp}) <= Burst

=============================================================================
