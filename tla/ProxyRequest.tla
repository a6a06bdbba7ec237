----------------------------- MODULE ProxyRequest -----------------------------
(***************************************************************************)
(* A request that reached the proxy handler: fired through the breaker,    *)
(* tried on the upstream with retries and a deadline per attempt, counted  *)
(* in the metrics and answered to the client.                              *)
(*                                                                         *)
(* Sources: routes/proxy.routes.ts, services/proxy/upstream-client.ts,     *)
(* services/proxy/retry-policy.ts, services/proxy/http-proxy.ts and        *)
(* recordRequest of services/metrics/metrics.service.ts.                   *)
(*                                                                         *)
(* The breaker may admit or reject any request here; CircuitBreaker says   *)
(* when. An attempt the gateway gave up on may still reach the upstream    *)
(* and be executed there.                                                  *)
(***************************************************************************)
EXTENDS Integers, Sequences, FiniteSets

CONSTANTS
    Requests,    \* proxied requests
    MaxRetries   \* largest route.retries configured

ASSUME ProxyAssumption == MaxRetries \in Nat /\ IsFiniteSet(Requests)

VARIABLES
    request,     \* request[r]: progress of the handler and of executeWithRetry
    travelling,  \* travelling[r]: attempts sent and neither executed nor lost
    executed,    \* executed[r]: attempts the upstream has executed
    metrics      \* requests.byStatusClass; requests.total is the sum

vars == <<request, travelling, executed, metrics>>

-----------------------------------------------------------------------------
(* Outcomes of one attempt *)

\* nonStandard is a status of 600 or more, which HTTP parsers let through.
Answers == {"success", "clientError", "serverError", "nonStandard"}

\* refused: not connected; reset: the connection broke afterwards;
\* headersTimeout: undici's timer; expired: AbortSignal.timeout().
Errors == {"refused", "reset", "headersTimeout", "expired", "fatal"}

Outcomes == Answers \cup Errors

isRetryableError == {"refused", "reset", "headersTimeout", "expired"}

isRetryableStatus == {"serverError", "nonStandard"}

Retryable == isRetryableError \cup isRetryableStatus

-----------------------------------------------------------------------------
(* Replies and metrics *)

Replies == {"success", "clientError", "serverError",
            "unavailable", "gatewayTimeout", "badGateway"}

StatusClasses == {"2xx", "4xx", "5xx", "9xx"}

StatusClass(status) ==
    CASE status = "success" -> "2xx"
      [] status = "clientError" -> "4xx"
      [] status = "nonStandard" -> "9xx"
      [] OTHER -> "5xx"

Request ==
    [pc : {"new", "calling", "settled", "answered"},
     retries : 0 .. MaxRetries,   \* route.retries
     tries : Seq(Outcomes),       \* outcomes of the attempts made so far
     result : Outcomes \cup {"none", "breakerOpen"},
     reply : Replies \cup {"none"}]

TypeOK ==
    /\ request \in [Requests -> Request]
    /\ travelling \in [Requests -> SUBSET Nat]
    /\ executed \in [Requests -> SUBSET Nat]
    /\ metrics \in [StatusClasses -> Nat]

-----------------------------------------------------------------------------
(* breaker.fire() *)

CurrentAttempt(r) == Len(request[r].tries) + 1

Become(r, q) == request' = [request EXCEPT ![r] = q]

Rejected(q) == [q EXCEPT !.pc = "settled", !.result = "breakerOpen"]

Calling(q) == [q EXCEPT !.pc = "calling"]

\* The breaker is open: fire() rejects without a call.
FireRejected(r) ==
    /\ request[r].pc = "new"
    /\ Become(r, Rejected(request[r]))
    /\ UNCHANGED <<travelling, executed, metrics>>

\* The breaker admits the request and the first attempt starts.
FireAdmitted(r) ==
    /\ request[r].pc = "new"
    /\ Become(r, Calling(request[r]))
    /\ travelling' = [travelling EXCEPT ![r] = @ \cup {1}]
    /\ UNCHANGED <<executed, metrics>>

-----------------------------------------------------------------------------
(* executeWithRetry *)

\* Variant of GivesUp: the budget is compared before the first attempt counts.
GivesUpLate(r, outcome) ==
    outcome \notin Retryable \/ Len(request[r].tries) = request[r].retries + 1

\* Variant of GivesUp: a status is retried until the budget, whatever it is.
GivesUpOnBudget(r, outcome) == Len(request[r].tries) = request[r].retries

\* The loop returns or throws: nothing to retry, or the budget is exhausted.
GivesUp(r, outcome) ==
    outcome \notin Retryable \/ Len(request[r].tries) = request[r].retries

Tried(q, outcome) == [q EXCEPT !.tries = Append(q.tries, outcome)]

Settled(q, outcome) == [Tried(q, outcome) EXCEPT !.pc = "settled", !.result = outcome]

\* An attempt ends with an outcome: the call settles, or the next attempt
\* starts at once with a fresh deadline. `lost' never reached the upstream.
AttemptEnds(r, outcome, lost) ==
    IF GivesUp(r, outcome)
    THEN /\ Become(r, Settled(request[r], outcome))
         /\ travelling' = [travelling EXCEPT ![r] = @ \ lost]
    ELSE /\ Become(r, Tried(request[r], outcome))
         /\ travelling' = [travelling EXCEPT ![r] =
                (@ \ lost) \cup {CurrentAttempt(r) + 1}]

\* The upstream answers what it executed.
AttemptAnswered(r) ==
    /\ request[r].pc = "calling"
    /\ CurrentAttempt(r) \in executed[r]
    /\ \E status \in Answers : AttemptEnds(r, status, {})
    /\ UNCHANGED <<executed, metrics>>

\* No connection: nothing was sent.
AttemptRefused(r) ==
    /\ request[r].pc = "calling"
    /\ CurrentAttempt(r) \in travelling[r]
    /\ AttemptEnds(r, "refused", {CurrentAttempt(r)})
    /\ UNCHANGED <<executed, metrics>>

\* The connection or the response broke, before or after the upstream executed
\* the request, or headers did not come in time.
AttemptBroken(r) ==
    /\ request[r].pc = "calling"
    /\ \E error \in {"reset", "headersTimeout", "fatal"} : AttemptEnds(r, error, {})
    /\ UNCHANGED <<executed, metrics>>

\* Variant of AttemptExpires: one deadline, for the first attempt only.
AttemptExpiresFirst(r) ==
    /\ request[r].pc = "calling"
    /\ request[r].tries = <<>>
    /\ AttemptEnds(r, "expired", {})
    /\ UNCHANGED <<executed, metrics>>

\* AbortSignal.timeout(route.requestTimeoutMs) fires.
AttemptExpires(r) ==
    /\ request[r].pc = "calling"
    /\ AttemptEnds(r, "expired", {})
    /\ UNCHANGED <<executed, metrics>>

-----------------------------------------------------------------------------
(* The upstream *)

\* An attempt is executed, also one the gateway no longer waits for.
UpstreamExecutes(r) ==
    \E n \in travelling[r] :
        /\ travelling' = [travelling EXCEPT ![r] = @ \ {n}]
        /\ executed' = [executed EXCEPT ![r] = @ \cup {n}]
        /\ UNCHANGED <<request, metrics>>

UpstreamLoses(r) ==
    \E n \in travelling[r] :
        /\ travelling' = [travelling EXCEPT ![r] = @ \ {n}]
        /\ UNCHANGED <<request, executed, metrics>>

-----------------------------------------------------------------------------
(* The rest of the handler *)

\* Variant of ErrorReply: every error reads as an open circuit.
ErrorReplyUnavailable(result) ==
    IF result = "expired" THEN "gatewayTimeout" ELSE "unavailable"

\* The catch block. A headers timeout is not recognised: undici puts
\* UND_ERR_HEADERS_TIMEOUT in the error's code, and its name is
\* HeadersTimeoutError.
ErrorReply(result) ==
    CASE result = "breakerOpen" -> "unavailable"
      [] result = "expired" -> "gatewayTimeout"
      [] OTHER -> "badGateway"

recordRequest(status) == metrics' = [metrics EXCEPT ![StatusClass(status)] = @ + 1]

Answered(q, reply) == [q EXCEPT !.pc = "answered", !.reply = reply]

Answer(r, reply) == Become(r, Answered(request[r], reply))

\* fire() resolved with a status Fastify accepts.
ReplyResult(r) ==
    /\ request[r].pc = "settled"
    /\ request[r].result \in Answers \ {"nonStandard"}
    /\ recordRequest(request[r].result)
    /\ Answer(r, request[r].result)
    /\ UNCHANGED <<travelling, executed>>

\* reply.status() throws on the status, inside the try block: the request is
\* counted once more by the catch block, which answers 502.
ReplyNonStandard(r) ==
    /\ request[r].pc = "settled"
    /\ request[r].result = "nonStandard"
    /\ metrics' = [metrics EXCEPT !["9xx"] = @ + 1, !["5xx"] = @ + 1]
    /\ Answer(r, "badGateway")
    /\ UNCHANGED <<travelling, executed>>

\* Variant of ReplyError: a rejected fire is not counted.
ReplyErrorUncounted(r) ==
    /\ request[r].pc = "settled"
    /\ request[r].result \in Errors \cup {"breakerOpen"}
    /\ IF request[r].result = "breakerOpen"
       THEN UNCHANGED metrics
       ELSE recordRequest("badGateway")
    /\ Answer(r, ErrorReply(request[r].result))
    /\ UNCHANGED <<travelling, executed>>

\* fire() rejected. A timeout is counted as 502 and answered with 504.
ReplyError(r) ==
    /\ request[r].pc = "settled"
    /\ request[r].result \in Errors \cup {"breakerOpen"}
    /\ recordRequest(ErrorReply(request[r].result))
    /\ Answer(r, ErrorReply(request[r].result))
    /\ UNCHANGED <<travelling, executed>>

-----------------------------------------------------------------------------
(* Specification *)

NewRequest(retries) ==
    [pc |-> "new", retries |-> retries,
     tries |-> <<>>, result |-> "none", reply |-> "none"]

Init ==
    /\ request \in [Requests -> {NewRequest(n) : n \in 0 .. MaxRetries}]
    /\ travelling = [r \in Requests |-> {}]
    /\ executed = [r \in Requests |-> {}]
    /\ metrics = [class \in StatusClasses |-> 0]

Handler(r) ==
    FireRejected(r) \/ FireAdmitted(r) \/ ReplyResult(r) \/ ReplyNonStandard(r) \/ ReplyError(r)

Next ==
    \E r \in Requests :
        \/ Handler(r)
        \/ AttemptAnswered(r) \/ AttemptRefused(r) \/ AttemptBroken(r) \/ AttemptExpires(r)
        \/ UpstreamExecutes(r) \/ UpstreamLoses(r)

Spec == Init /\ [][Next]_vars

\* The handler runs and the deadline of an attempt fires; the upstream owes
\* nothing.
Fairness ==
    \A r \in Requests :
        /\ WF_vars(Handler(r))
        /\ WF_vars(AttemptExpires(r))

FairSpec == Spec /\ Fairness

-----------------------------------------------------------------------------
(* Properties *)

\* The upstream executes a request at most route.retries + 1 times, the
\* attempts that were abandoned and executed late included.
WithinBudget ==
    \A r \in Requests : travelling[r] \cup executed[r] \subseteq 1 .. request[r].retries + 1

\* executeWithRetry stops at the first outcome that is not transient, goes on
\* until then or until the budget is exhausted, and settles with the last one.
RetriesWhileTransient ==
    \A r \in Requests :
        LET q == request[r]
            n == Len(q.tries)
        IN  /\ \A i \in 1 .. n : i < n \/ q.pc = "calling" => q.tries[i] \in Retryable
            /\ q.result \in Outcomes =>
                   /\ n > 0
                   /\ q.result = q.tries[n]
                   /\ q.result \in Retryable => n = q.retries + 1

\* A client told `unavailable' may send its request again: no attempt of it has
\* reached or will reach the upstream. A client told a status of the upstream
\* was answered by the attempt that was executed last.
RepliesAreTrue ==
    \A r \in Requests :
        /\ request[r].reply = "unavailable" => travelling[r] \cup executed[r] = {}
        /\ request[r].reply \in Answers => Len(request[r].tries) \in executed[r]

\* The classes an answered request is counted under: that of its reply, and once
\* more if the upstream's status is one that no reply can have.
CountedUnder(q) ==
    {StatusClass(q.reply)} \cup (IF q.result = "nonStandard" THEN {"9xx"} ELSE {})

\* Each reply is counted under its own status class, timeouts under 5xx, and exactly
\* once, but for a status at which reply.status() throws after it was counted.
EveryReplyCounted ==
    \A class \in StatusClasses :
        metrics[class] =
            Cardinality({r \in Requests :
                request[r].pc = "answered" /\ class \in CountedUnder(request[r])})

\* A request is answered even when the upstream never answers.
EveryRequestAnswered ==
    \A r \in Requests : request[r].pc = "new" ~> request[r].pc = "answered"

=============================================================================
