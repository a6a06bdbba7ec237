-------------------------- MODULE ProxyRequestProofs --------------------------
(***************************************************************************)
(* Proofs about ProxyRequest: the retry budget, when the retry loop stops, *)
(* and what replies say, for any number of requests and retries.           *)
(*                                                                         *)
(* Requests do not interact but through the metrics, so the invariant is   *)
(* one of each request and of its own attempts: PerRequest(q, t, e), for a *)
(* request record q whose attempts t are travelling and e were executed.   *)
(***************************************************************************)
EXTENDS ProxyRequest, FiniteSetTheorems, TLAPS

-----------------------------------------------------------------------------
(* The inductive invariant *)

\* No attempt before the call, and none after the current one.
AttemptsInv(q, t, e) ==
    /\ q.pc = "new" => q.tries = <<>> /\ t \cup e = {}
    /\ q.pc = "calling" => t \cup e \subseteq 1 .. Len(q.tries) + 1
    /\ q.pc \in {"settled", "answered"} => t \cup e \subseteq 1 .. Len(q.tries)

\* The budget is not exhausted while calling, nor exceeded afterwards.
BudgetInv(q) ==
    /\ q.pc = "calling" => Len(q.tries) <= q.retries
    /\ Len(q.tries) <= q.retries + 1

\* The outcomes so far were transient, and the result is the last one.
TriesInv(q) ==
    LET n == Len(q.tries)
    IN  /\ \A j \in 1 .. n : j < n \/ q.pc = "calling" => q.tries[j] \in Retryable
        /\ q.pc \in {"new", "calling"} => q.result = "none"
        /\ q.pc \in {"settled", "answered"} => q.result \in Outcomes \cup {"breakerOpen"}
        /\ q.result = "breakerOpen" => n = 0
        /\ q.result \in Outcomes =>
               n > 0 /\ q.result = q.tries[n] /\ (q.result \in Retryable => n = q.retries + 1)

\* A status was given by an executed attempt, and the reply is the result's.
ReplyInv(q, e) ==
    /\ q.result \in Answers => Len(q.tries) \in e
    /\ q.pc # "answered" => q.reply = "none"
    /\ q.reply \in Answers => q.result = q.reply
    /\ q.reply = "unavailable" => q.result = "breakerOpen"

PerRequest(q, t, e) ==
    /\ q \in Request
    /\ t \subseteq Nat /\ e \subseteq Nat
    /\ AttemptsInv(q, t, e) /\ BudgetInv(q) /\ TriesInv(q) /\ ReplyInv(q, e)

IInv ==
    /\ request \in [Requests -> Request]
    /\ travelling \in [Requests -> SUBSET Nat]
    /\ executed \in [Requests -> SUBSET Nat]
    /\ metrics \in [StatusClasses -> Nat]
    /\ \A r \in Requests : PerRequest(request[r], travelling[r], executed[r])

-----------------------------------------------------------------------------
(* Steps of one request, free of the arrays *)

\* A new request satisfies its invariant.
LEMMA NewRequestInv ==
    ASSUME NEW retries \in 0 .. MaxRetries
    PROVE  PerRequest(NewRequest(retries), {}, {})
BY ProxyAssumption
DEF PerRequest, NewRequest, Request, AttemptsInv, BudgetInv, TriesInv, ReplyInv,
    Outcomes, Answers, Errors, Replies

\* One more outcome keeps the type of a request.
LEMMA TriedTyped ==
    ASSUME NEW q \in Request, NEW outcome \in Outcomes
    PROVE  Tried(q, outcome) \in Request
<1>1. Append(q.tries, outcome) \in Seq(Outcomes)
  BY DEF Request
<1>. QED
  BY <1>1 DEF Request, Tried

\* What AttemptEnds() makes of a request and its attempts keeps the invariant:
\* the call settles with the outcome, or the next attempt is on its way.
LEMMA EndInv ==
    ASSUME NEW q, NEW t, NEW e, PerRequest(q, t, e), q.pc = "calling",
           NEW outcome \in Outcomes, NEW lost,
           outcome \in Answers => Len(q.tries) + 1 \in e,
           outcome \notin Retryable \/ Len(q.tries) = q.retries
    PROVE  PerRequest(Settled(q, outcome), t \ lost, e)
<1> DEFINE p == Settled(q, outcome)
<1>1. q \in Request /\ q.tries \in Seq(Outcomes) /\ q.retries \in 0 .. MaxRetries
  BY DEF PerRequest, Request
<1>2. p \in Request
  <2>1. Tried(q, outcome) \in Request
    BY <1>1, TriedTyped
  <2>. QED
    BY <2>1 DEF Request, Settled
<1>3. /\ p.pc = "settled" /\ p.result = outcome /\ p.retries = q.retries
      /\ p.reply = q.reply /\ p.tries = Append(q.tries, outcome)
  BY <1>1 DEF Request, Settled, Tried
<1>4. /\ Len(p.tries) = Len(q.tries) + 1 /\ Len(q.tries) \in Nat
      /\ p.tries[Len(q.tries) + 1] = outcome
      /\ \A j \in 1 .. Len(q.tries) : p.tries[j] = q.tries[j]
  BY <1>1, <1>3
<1> HIDE DEF p
<1>5. AttemptsInv(p, t \ lost, e)
  BY <1>3, <1>4 DEF PerRequest, AttemptsInv
<1>6. BudgetInv(p)
  BY <1>1, <1>3, <1>4, ProxyAssumption DEF PerRequest, BudgetInv
<1>7. TriesInv(p)
  <2>1. \A j \in 1 .. Len(q.tries) : q.tries[j] \in Retryable
    BY DEF PerRequest, TriesInv
  <2>2. outcome # "breakerOpen"
    BY DEF Outcomes, Answers, Errors
  <2>. QED
    BY <1>1, <1>3, <1>4, <2>1, <2>2, ProxyAssumption DEF TriesInv
<1>8. ReplyInv(p, e)
  <2>1. q.reply = "none"
    BY DEF PerRequest, ReplyInv
  <2>. QED
    BY <1>3, <1>4, <2>1 DEF ReplyInv, Answers
<1>9. t \ lost \subseteq Nat /\ e \subseteq Nat
  BY DEF PerRequest
<1>10. PerRequest(p, t \ lost, e)
  BY <1>2, <1>5, <1>6, <1>7, <1>8, <1>9 DEF PerRequest
<1>. QED
  BY <1>10 DEF p

LEMMA RetryInv ==
    ASSUME NEW q, NEW t, NEW e, PerRequest(q, t, e), q.pc = "calling",
           NEW outcome \in Retryable, NEW lost, Len(q.tries) # q.retries
    PROVE  PerRequest(Tried(q, outcome),
                      (t \ lost) \cup {Len(q.tries) + 1 + 1}, e)
<1> DEFINE p == Tried(q, outcome)
           u == (t \ lost) \cup {Len(q.tries) + 1 + 1}
<1>1. q \in Request /\ q.tries \in Seq(Outcomes) /\ q.retries \in 0 .. MaxRetries
  BY DEF PerRequest, Request
<1>o. outcome \in Outcomes
  BY DEF Retryable, isRetryableError, isRetryableStatus, Outcomes, Answers, Errors
<1>2. p \in Request
  BY <1>1, <1>o DEF Request, Tried
<1>3. /\ p.pc = "calling" /\ p.result = q.result /\ p.retries = q.retries
      /\ p.reply = q.reply /\ p.tries = Append(q.tries, outcome)
  BY <1>1 DEF Request, Tried
<1>4. /\ Len(p.tries) = Len(q.tries) + 1 /\ Len(q.tries) \in Nat
      /\ p.tries[Len(q.tries) + 1] = outcome
      /\ \A j \in 1 .. Len(q.tries) : p.tries[j] = q.tries[j]
  BY <1>1, <1>3, <1>o
<1>5. AttemptsInv(p, u, e)
  <2>1. t \cup e \subseteq 1 .. Len(q.tries) + 1
    BY DEF PerRequest, AttemptsInv
  <2>2. u \cup e \subseteq 1 .. Len(p.tries) + 1
    BY <1>4, <2>1
  <2>. QED
    BY <1>3, <2>2 DEF AttemptsInv
<1>9. u \subseteq Nat /\ e \subseteq Nat
  BY <1>4 DEF PerRequest
<1>6. BudgetInv(p)
  BY <1>1, <1>3, <1>4, ProxyAssumption DEF PerRequest, BudgetInv
<1>n. q.result = "none"
  BY DEF PerRequest, TriesInv
<1>7. TriesInv(p)
  <2>1. \A j \in 1 .. Len(q.tries) : q.tries[j] \in Retryable
    BY DEF PerRequest, TriesInv
  <2>2. "none" \notin Outcomes
    BY DEF Outcomes, Answers, Errors
  <2>. QED
    BY <1>3, <1>4, <1>n, <2>1, <2>2 DEF TriesInv
<1>8. ReplyInv(p, e)
  BY <1>3, <1>n DEF PerRequest, ReplyInv, Answers
<1>10. PerRequest(p, u, e)
  BY <1>2, <1>5, <1>6, <1>7, <1>8, <1>9 DEF PerRequest
<1>. QED
  BY <1>10 DEF p

\* Replying keeps the invariant, if the reply is the result or an error of the
\* gateway, and `unavailable' only when the breaker rejected.
LEMMA ReplyKeeps ==
    ASSUME NEW q, NEW t, NEW e, PerRequest(q, t, e), q.pc = "settled",
           NEW reply \in Replies,
           reply \in Answers => q.result = reply,
           reply = "unavailable" => q.result = "breakerOpen"
    PROVE  PerRequest(Answered(q, reply), t, e)
<1> DEFINE p == Answered(q, reply)
<1>1. q \in Request
  BY DEF PerRequest
<1>2. p \in Request
  BY <1>1 DEF Request, Answered
<1>3. /\ p.pc = "answered" /\ p.reply = reply /\ p.result = q.result
      /\ p.tries = q.tries /\ p.retries = q.retries
  BY <1>1 DEF Request, Answered
<1>4. AttemptsInv(p, t, e) /\ BudgetInv(p)
  BY <1>3 DEF PerRequest, AttemptsInv, BudgetInv
<1>5. TriesInv(p)
  BY <1>3 DEF PerRequest, TriesInv
<1>6. ReplyInv(p, e)
  BY <1>3 DEF PerRequest, ReplyInv
<1>. QED
  BY <1>2, <1>4, <1>5, <1>6 DEF PerRequest

-----------------------------------------------------------------------------
(* Steps of the whole state *)

\* A step that changes one request and its attempts needs only keep theirs.
LEMMA OneRequest ==
    ASSUME IInv, NEW r \in Requests, NEW q, NEW t, NEW e,
           PerRequest(q, t, e),
           request' = [request EXCEPT ![r] = q],
           travelling' = [travelling EXCEPT ![r] = t],
           executed' = [executed EXCEPT ![r] = e],
           metrics' \in [StatusClasses -> Nat]
    PROVE  IInv'
<1>1. q \in Request /\ t \in SUBSET Nat /\ e \in SUBSET Nat
  BY DEF PerRequest
<1>2. /\ request' \in [Requests -> Request]
      /\ travelling' \in [Requests -> SUBSET Nat]
      /\ executed' \in [Requests -> SUBSET Nat]
  BY <1>1 DEF IInv
<1>3. ASSUME NEW s \in Requests
      PROVE  PerRequest(request'[s], travelling'[s], executed'[s])
  <2>1. CASE s = r
    BY <2>1 DEF IInv
  <2>2. CASE s # r
    BY <2>2 DEF IInv
  <2>. QED
    BY <2>1, <2>2
<1>. QED
  BY <1>2, <1>3 DEF IInv

\* Functions left alone are updated with what they hold.
LEMMA SameValue ==
    ASSUME IInv, NEW r \in Requests
    PROVE  /\ travelling = [travelling EXCEPT ![r] = travelling[r]]
           /\ executed = [executed EXCEPT ![r] = executed[r]]
           /\ request = [request EXCEPT ![r] = request[r]]
BY DEF IInv

LEMMA EndStep ==
    ASSUME IInv, NEW r \in Requests, NEW outcome \in Outcomes, NEW lost,
           request[r].pc = "calling", AttemptEnds(r, outcome, lost),
           outcome \in Answers => CurrentAttempt(r) \in executed[r],
           UNCHANGED <<executed, metrics>>
    PROVE  IInv'
<1>1. PerRequest(request[r], travelling[r], executed[r])
  BY DEF IInv
<1>2. executed' = [executed EXCEPT ![r] = executed[r]] /\ metrics' \in [StatusClasses -> Nat]
  BY SameValue DEF IInv
<1>3. CASE GivesUp(r, outcome)
  <2>1. /\ request' = [request EXCEPT ![r] = Settled(request[r], outcome)]
        /\ travelling' = [travelling EXCEPT ![r] = travelling[r] \ lost]
    BY <1>3 DEF AttemptEnds, Become, IInv
  <2>2. PerRequest(Settled(request[r], outcome), travelling[r] \ lost, executed[r])
    BY <1>1, <1>3, EndInv DEF GivesUp, CurrentAttempt
  <2>. QED
    BY <1>2, <2>1, <2>2, OneRequest
<1>4. CASE ~GivesUp(r, outcome)
  <2> DEFINE t == (travelling[r] \ lost) \cup {Len(request[r].tries) + 1 + 1}
  <2>1. /\ request' = [request EXCEPT ![r] = Tried(request[r], outcome)]
        /\ travelling' = [travelling EXCEPT ![r] = t]
    BY <1>4 DEF AttemptEnds, Become, CurrentAttempt, IInv
  <2>2. PerRequest(Tried(request[r], outcome), t, executed[r])
    BY <1>1, <1>4, RetryInv DEF GivesUp
  <2>. QED
    BY <1>2, <2>1, <2>2, OneRequest
<1>. QED
  BY <1>3, <1>4

LEMMA ReplyStep ==
    ASSUME IInv, NEW r \in Requests, NEW reply \in Replies, request[r].pc = "settled",
           Answer(r, reply),
           reply \in Answers => request[r].result = reply,
           reply = "unavailable" => request[r].result = "breakerOpen",
           metrics' \in [StatusClasses -> Nat],
           travelling' = [travelling EXCEPT ![r] = travelling[r]],
           executed' = [executed EXCEPT ![r] = executed[r]]
    PROVE  IInv'
<1> DEFINE q == Answered(request[r], reply)
<1>1. request' = [request EXCEPT ![r] = q]
  BY DEF Answer, Become
<1>2. PerRequest(q, travelling[r], executed[r])
  BY ReplyKeeps DEF IInv
<1> HIDE DEF q
<1>. QED
  BY <1>1, <1>2, OneRequest

\* Counting under a status class keeps the type of the counters.
LEMMA RecordTyped ==
    ASSUME IInv, NEW status, recordRequest(status)
    PROVE  metrics' \in [StatusClasses -> Nat]
<1>1. StatusClass(status) \in StatusClasses
  BY DEF StatusClass, StatusClasses
<1>2. metrics \in [StatusClasses -> Nat]
  BY DEF IInv
<1>. QED
  BY <1>1, <1>2 DEF recordRequest

\* The initial state satisfies the invariant.
LEMMA ProxyInit == Init => IInv
<1>. SUFFICES ASSUME Init PROVE IInv
  OBVIOUS
<1>1. ASSUME NEW r \in Requests
      PROVE  PerRequest(request[r], travelling[r], executed[r])
  BY NewRequestInv DEF Init
<1>2. ASSUME NEW r \in Requests
      PROVE  request[r] \in Request
  BY <1>1 DEF PerRequest
<1>3. request \in [Requests -> Request]
  BY <1>2 DEF Init
<1>. QED
  BY <1>1, <1>3 DEF Init, IInv

LEMMA ProxyNext == IInv /\ [Next]_vars => IInv'
<1>. SUFFICES ASSUME IInv, [Next]_vars PROVE IInv'
  OBVIOUS
<1>u. CASE UNCHANGED vars
  BY <1>u DEF vars, IInv
<1>n. ASSUME NEW r \in Requests,
             \/ Handler(r)
             \/ AttemptAnswered(r) \/ AttemptRefused(r) \/ AttemptBroken(r) \/ AttemptExpires(r)
             \/ UpstreamExecutes(r) \/ UpstreamLoses(r)
      PROVE  IInv'
  <2>p. PerRequest(request[r], travelling[r], executed[r])
    BY DEF IInv
  <2>m. metrics \in [StatusClasses -> Nat]
    BY DEF IInv
  <2>1. CASE FireRejected(r)
    <3> DEFINE q == Rejected(request[r])
    <3>1. request' = [request EXCEPT ![r] = q] /\ request[r].pc = "new"
      BY <2>1 DEF FireRejected, Become
    <3>2. request[r] \in Request
      BY DEF IInv
    <3>3. /\ q \in Request /\ q.pc = "settled" /\ q.result = "breakerOpen"
          /\ q.tries = request[r].tries /\ q.retries = request[r].retries
          /\ q.reply = request[r].reply
      BY <3>2 DEF Request, Rejected
    <3> HIDE DEF q
    <3>4. "breakerOpen" \notin Outcomes
      BY DEF Outcomes, Answers, Errors
    <3>5. request[r].tries = <<>> /\ request[r].reply = "none"
      BY <2>p, <3>1 DEF PerRequest, AttemptsInv, ReplyInv
    <3>6. AttemptsInv(q, travelling[r], executed[r]) /\ BudgetInv(q)
      BY <2>p, <3>1, <3>3, <3>5 DEF PerRequest, AttemptsInv, BudgetInv
    <3>7. TriesInv(q) /\ ReplyInv(q, executed[r])
      BY <3>3, <3>4, <3>5 DEF TriesInv, ReplyInv, Outcomes, Answers
    <3>8. PerRequest(q, travelling[r], executed[r])
      BY <2>p, <3>3, <3>6, <3>7 DEF PerRequest
    <3>9. travelling' = [travelling EXCEPT ![r] = travelling[r]] /\ executed' = [executed EXCEPT ![r] = executed[r]]
      BY <2>1, SameValue DEF FireRejected
    <3>10. metrics' \in [StatusClasses -> Nat]
      BY <2>1, <2>m DEF FireRejected
    <3>. QED
      BY <3>1, <3>8, <3>9, <3>10, OneRequest
  <2>2. CASE FireAdmitted(r)
    <3> DEFINE q == Calling(request[r])
               t == travelling[r] \cup {1}
    <3>1. /\ request' = [request EXCEPT ![r] = q] /\ request[r].pc = "new"
          /\ travelling' = [travelling EXCEPT ![r] = t]
      BY <2>2 DEF FireAdmitted, Become
    <3>2. request[r] \in Request /\ request[r].retries \in Nat
      BY ProxyAssumption DEF IInv, Request
    <3>3. /\ q \in Request /\ q.pc = "calling" /\ q.result = request[r].result
          /\ q.tries = request[r].tries /\ q.retries = request[r].retries
          /\ q.reply = request[r].reply
      BY <3>2 DEF Request, Calling
    <3> HIDE DEF q
    <3>5. /\ request[r].tries = <<>> /\ request[r].reply = "none"
          /\ request[r].result = "none"
      BY <2>p, <3>1 DEF PerRequest, AttemptsInv, ReplyInv, TriesInv
    <3>6. AttemptsInv(q, t, executed[r]) /\ BudgetInv(q)
      BY <2>p, <3>1, <3>2, <3>3, <3>5 DEF PerRequest, AttemptsInv, BudgetInv
    <3>7. TriesInv(q) /\ ReplyInv(q, executed[r])
      BY <3>3, <3>5 DEF TriesInv, ReplyInv, Outcomes, Answers, Errors
    <3>8. PerRequest(q, t, executed[r])
      BY <2>p, <3>3, <3>6, <3>7 DEF PerRequest
    <3>9. executed' = [executed EXCEPT ![r] = executed[r]]
      BY <2>2, SameValue DEF FireAdmitted
    <3>10. metrics' \in [StatusClasses -> Nat]
      BY <2>2, <2>m DEF FireAdmitted
    <3>. QED
      BY <3>1, <3>8, <3>9, <3>10, OneRequest
  <2>3. CASE ReplyResult(r)
    <3>1. /\ request[r].pc = "settled" /\ request[r].result \in Answers \ {"nonStandard"}
          /\ Answer(r, request[r].result)
          /\ travelling' = [travelling EXCEPT ![r] = travelling[r]]
          /\ executed' = [executed EXCEPT ![r] = executed[r]]
      BY SameValue, <2>3 DEF ReplyResult
    <3>2. request[r].result \in Replies /\ request[r].result # "unavailable"
      BY <3>1 DEF Answers, Replies
    <3>3. metrics' \in [StatusClasses -> Nat]
      BY <2>3, RecordTyped DEF ReplyResult
    <3>. QED
      BY <3>1, <3>2, <3>3, ReplyStep
  <2>4. CASE ReplyNonStandard(r)
    <3>1. /\ request[r].pc = "settled"
          /\ Answer(r, "badGateway")
          /\ travelling' = [travelling EXCEPT ![r] = travelling[r]]
          /\ executed' = [executed EXCEPT ![r] = executed[r]]
      BY SameValue, <2>4 DEF ReplyNonStandard
    <3>2. "badGateway" \in Replies /\ "badGateway" \notin Answers
      BY DEF Answers, Replies
    <3>3. metrics' \in [StatusClasses -> Nat]
      BY <2>4, <2>m DEF ReplyNonStandard, StatusClasses
    <3>. QED
      BY <3>1, <3>2, <3>3, ReplyStep
  <2>5. CASE ReplyError(r)
    <3>1. /\ request[r].pc = "settled"
          /\ Answer(r, ErrorReply(request[r].result))
          /\ travelling' = [travelling EXCEPT ![r] = travelling[r]]
          /\ executed' = [executed EXCEPT ![r] = executed[r]]
      BY SameValue, <2>5 DEF ReplyError
    <3>2. /\ ErrorReply(request[r].result) \in Replies \ Answers
          /\ ErrorReply(request[r].result) = "unavailable" => request[r].result = "breakerOpen"
      BY DEF ErrorReply, Answers, Replies
    <3>3. metrics' \in [StatusClasses -> Nat]
      BY <2>5, RecordTyped DEF ReplyError
    <3>. QED
      BY <3>1, <3>2, <3>3, ReplyStep
  <2>6. CASE AttemptAnswered(r)
    BY <2>6, EndStep DEF AttemptAnswered, Outcomes
  <2>7. CASE AttemptRefused(r)
    BY <2>7, EndStep DEF AttemptRefused, Outcomes, Errors, Answers
  <2>8. CASE AttemptBroken(r)
    <3>1. PICK error \in {"reset", "headersTimeout", "fatal"} : AttemptEnds(r, error, {})
      BY <2>8 DEF AttemptBroken
    <3>2. error \in Outcomes /\ error \notin Answers
      BY DEF Outcomes, Errors, Answers
    <3>. QED
      BY <2>8, <3>1, <3>2, EndStep DEF AttemptBroken
  <2>9. CASE AttemptExpires(r)
    BY <2>9, EndStep DEF AttemptExpires, Outcomes, Errors, Answers
  <2>10. CASE UpstreamExecutes(r)
    <3>1. PICK n \in travelling[r] :
              /\ travelling' = [travelling EXCEPT ![r] = @ \ {n}]
              /\ executed' = [executed EXCEPT ![r] = @ \cup {n}]
              /\ UNCHANGED <<request, metrics>>
      BY <2>10 DEF UpstreamExecutes
    <3>2. PerRequest(request[r], travelling[r] \ {n}, executed[r] \cup {n})
      BY <2>p DEF PerRequest, AttemptsInv, ReplyInv
    <3>3. /\ travelling' = [travelling EXCEPT ![r] = travelling[r] \ {n}]
          /\ executed' = [executed EXCEPT ![r] = executed[r] \cup {n}]
          /\ request' = [request EXCEPT ![r] = request[r]]
          /\ metrics' \in [StatusClasses -> Nat]
      BY <3>1, <2>m, SameValue DEF IInv
    <3>. QED
      BY <3>2, <3>3, OneRequest
  <2>11. CASE UpstreamLoses(r)
    <3>1. PICK n \in travelling[r] :
              /\ travelling' = [travelling EXCEPT ![r] = @ \ {n}]
              /\ UNCHANGED <<request, executed, metrics>>
      BY <2>11 DEF UpstreamLoses
    <3>2. PerRequest(request[r], travelling[r] \ {n}, executed[r])
      BY <2>p DEF PerRequest, AttemptsInv
    <3>3. /\ travelling' = [travelling EXCEPT ![r] = travelling[r] \ {n}]
          /\ executed' = [executed EXCEPT ![r] = executed[r]]
          /\ request' = [request EXCEPT ![r] = request[r]]
          /\ metrics' \in [StatusClasses -> Nat]
      BY <3>1, <2>m, SameValue DEF IInv
    <3>. QED
      BY <3>2, <3>3, OneRequest
  <2>. QED
    BY <1>n, <2>1, <2>2, <2>3, <2>4, <2>5, <2>6, <2>7, <2>8, <2>9, <2>10, <2>11 DEF Handler
<1>. QED
  BY <1>u, <1>n DEF Next

\* The invariant implies what the runs check.
LEMMA ProxyImplies == IInv => TypeOK /\ WithinBudget /\ RetriesWhileTransient /\ RepliesAreTrue
<1>. SUFFICES ASSUME IInv PROVE TypeOK /\ WithinBudget /\ RetriesWhileTransient /\ RepliesAreTrue
  OBVIOUS
<1>1. TypeOK
  BY DEF IInv, TypeOK
<1>2. ASSUME NEW r \in Requests
      PROVE  travelling[r] \cup executed[r] \subseteq 1 .. request[r].retries + 1
  <2>1. PerRequest(request[r], travelling[r], executed[r])
    BY DEF IInv
  <2>2. /\ Len(request[r].tries) \in Nat /\ request[r].retries \in Nat
        /\ request[r].pc \in {"new", "calling", "settled", "answered"}
    BY <2>1, ProxyAssumption DEF PerRequest, Request
  <2>. QED
    BY <2>1, <2>2 DEF PerRequest, AttemptsInv, BudgetInv
<1>3. RetriesWhileTransient
  BY DEF IInv, PerRequest, TriesInv, RetriesWhileTransient
<1>4. ASSUME NEW r \in Requests
      PROVE  /\ request[r].reply = "unavailable" => travelling[r] \cup executed[r] = {}
             /\ request[r].reply \in Answers => Len(request[r].tries) \in executed[r]
  <2>1. PerRequest(request[r], travelling[r], executed[r])
    BY DEF IInv
  <2>2. request[r].reply = "unavailable" => travelling[r] \cup executed[r] = {}
    <3>1. HAVE request[r].reply = "unavailable"
    <3>2. request[r].pc = "answered" /\ request[r].result = "breakerOpen"
      BY <2>1, <3>1 DEF PerRequest, ReplyInv
    <3>3. Len(request[r].tries) = 0
      BY <2>1, <3>2 DEF PerRequest, TriesInv
    <3>. QED
      BY <2>1, <3>2, <3>3 DEF PerRequest, AttemptsInv
  <2>. QED
    BY <2>1, <2>2 DEF PerRequest, ReplyInv
<1>. QED
  BY <1>1, <1>2, <1>3, <1>4 DEF WithinBudget, RepliesAreTrue

-----------------------------------------------------------------------------
(* Theorems *)

\* The inductive invariant holds for any number of requests and retries.
THEOREM ProxyInvariant == Spec => []IInv
BY ProxyInit, ProxyNext, PTL DEF Spec

\* The state of ProxyRequest keeps its types.
THEOREM ProxyTyped == Spec => []TypeOK
BY ProxyInvariant, ProxyImplies, PTL

\* The upstream executes a request at most route.retries + 1 times.
THEOREM BudgetKept == Spec => []WithinBudget
BY ProxyInvariant, ProxyImplies, PTL

\* executeWithRetry stops exactly where it should.
THEOREM RetriesStop == Spec => []RetriesWhileTransient
BY ProxyInvariant, ProxyImplies, PTL

\* Replies say what happened to the request's attempts.
THEOREM RepliesTrue == Spec => []RepliesAreTrue
BY ProxyInvariant, ProxyImplies, PTL

-----------------------------------------------------------------------------
(* The counters *)

AnsweredIn(class) ==
    {r \in Requests : request[r].pc = "answered" /\ class \in CountedUnder(request[r])}

LEMMA CountedIs ==
    EveryReplyCounted <=> \A class \in StatusClasses : metrics[class] = Cardinality(AnsweredIn(class))
BY DEF EveryReplyCounted, AnsweredIn

LEMMA AnsweredCount ==
    ASSUME NEW class
    PROVE  IsFiniteSet(AnsweredIn(class)) /\ Cardinality(AnsweredIn(class)) \in Nat
<1>1. AnsweredIn(class) \subseteq Requests
  BY DEF AnsweredIn
<1>. QED
  BY <1>1, ProxyAssumption, FS_Subset, FS_CardinalityType

\* Nobody is answered: neither replies nor counters change.
LEMMA NoReply ==
    ASSUME EveryReplyCounted, UNCHANGED metrics,
           \A s \in Requests : request'[s] = request[s]
               \/ (request[s].pc # "answered" /\ request'[s].pc # "answered")
    PROVE  EveryReplyCounted'
<1>1. ASSUME NEW class PROVE AnsweredIn(class)' = AnsweredIn(class)
  BY DEF AnsweredIn
<1>. QED
  BY <1>1 DEF EveryReplyCounted, AnsweredIn

\* One request is answered, and counted once under each of its classes.
LEMMA OneReply ==
    ASSUME IInv, EveryReplyCounted, NEW r \in Requests, NEW reply, NEW classes,
           request[r].pc = "settled", Answer(r, reply),
           CountedUnder(Answered(request[r], reply)) = classes,
           \A class \in StatusClasses :
               metrics'[class] = IF class \in classes THEN metrics[class] + 1 ELSE metrics[class]
    PROVE  EveryReplyCounted'
<1>1. request[r] \in Request /\ request \in [Requests -> Request]
  BY DEF IInv
<1> DEFINE answered == Answered(request[r], reply)
<1>2. answered.pc = "answered"
  BY <1>1 DEF Answered, Request
<1>3. /\ \A s \in Requests \ {r} : request'[s] = request[s]
      /\ request'[r] = answered
  BY <1>1 DEF Answer, Become
<1>4. CountedUnder(answered) = classes
  OBVIOUS
<1>. HIDE DEF answered
<1>5. ASSUME NEW class \in StatusClasses
      PROVE  metrics'[class] = Cardinality(AnsweredIn(class)')
  <2>1. metrics[class] = Cardinality(AnsweredIn(class))
    BY CountedIs
  <2>2. r \notin AnsweredIn(class)
    BY DEF AnsweredIn
  <2>3. /\ \A s \in Requests \ {r} : CountedUnder(request[s])' = CountedUnder(request[s])
        /\ CountedUnder(request[r])' = classes
    BY <1>3, <1>4 DEF CountedUnder
  <2>4. CASE class \in classes
    <3>1. AnsweredIn(class)' = AnsweredIn(class) \cup {r}
      BY <1>2, <1>3, <2>3, <2>4 DEF AnsweredIn
    <3>2. Cardinality(AnsweredIn(class)') = Cardinality(AnsweredIn(class)) + 1
      BY <2>2, <3>1, AnsweredCount, FS_AddElement
    <3>. QED
      BY <2>1, <2>4, <3>2
  <2>5. CASE class \notin classes
    <3>1. AnsweredIn(class)' = AnsweredIn(class)
      BY <1>3, <2>2, <2>3, <2>5 DEF AnsweredIn
    <3>. QED
      BY <2>1, <2>5, <3>1
  <2>. QED
    BY <2>4, <2>5
<1>. QED
  BY <1>5 DEF EveryReplyCounted, AnsweredIn

\* recordRequest() moves the counter of one class.
LEMMA RecordCounts ==
    ASSUME IInv, NEW status, recordRequest(status)
    PROVE  \A class \in StatusClasses :
               metrics'[class] =
                   IF class \in {StatusClass(status)} THEN metrics[class] + 1 ELSE metrics[class]
<1>1. metrics \in [StatusClasses -> Nat]
  BY DEF IInv
<1>. QED
  BY <1>1 DEF recordRequest

\* A request whose upstream status can be a reply is counted under one class.
LEMMA CountedOnce ==
    ASSUME IInv, NEW r \in Requests, NEW reply, request[r].result # "nonStandard"
    PROVE  CountedUnder(Answered(request[r], reply)) = {StatusClass(reply)}
<1>1. request[r] \in Request
  BY DEF IInv
<1>2. /\ Answered(request[r], reply).reply = reply
      /\ Answered(request[r], reply).result = request[r].result
  BY <1>1 DEF Answered, Request
<1>. QED
  BY <1>2 DEF CountedUnder

\* What a request becomes while it is called.
LEMMA EndsUnanswered ==
    ASSUME IInv, NEW r \in Requests, NEW outcome, NEW lost,
           request[r].pc = "calling", AttemptEnds(r, outcome, lost)
    PROVE  \A s \in Requests : request'[s] = request[s]
               \/ (request[s].pc # "answered" /\ request'[s].pc # "answered")
<1>1. request \in [Requests -> Request] /\ request[r] \in Request
  BY DEF IInv
<1>2. /\ Settled(request[r], outcome).pc = "settled"
      /\ Tried(request[r], outcome).pc = "calling"
  BY <1>1 DEF Request, Settled, Tried
<1>3. CASE request' = [request EXCEPT ![r] = Settled(request[r], outcome)]
  BY <1>1, <1>2, <1>3
<1>4. CASE request' = [request EXCEPT ![r] = Tried(request[r], outcome)]
  BY <1>1, <1>2, <1>4
<1>. QED
  BY <1>3, <1>4 DEF AttemptEnds, Become

LEMMA CountedNext == IInv /\ EveryReplyCounted /\ [Next]_vars => EveryReplyCounted'
<1>. SUFFICES ASSUME IInv, EveryReplyCounted, [Next]_vars PROVE EveryReplyCounted'
  OBVIOUS
<1>u. CASE UNCHANGED vars
  BY <1>u, NoReply DEF vars
<1>n. ASSUME NEW r \in Requests,
             \/ Handler(r)
             \/ AttemptAnswered(r) \/ AttemptRefused(r) \/ AttemptBroken(r) \/ AttemptExpires(r)
             \/ UpstreamExecutes(r) \/ UpstreamLoses(r)
      PROVE  EveryReplyCounted'
  <2>r. request \in [Requests -> Request] /\ request[r] \in Request
    BY DEF IInv
  <2>1. CASE FireRejected(r)
    <3>1. Rejected(request[r]).pc = "settled"
      BY <2>r DEF Request, Rejected
    <3>. QED
      BY <2>1, <2>r, <3>1, NoReply DEF FireRejected, Become
  <2>2. CASE FireAdmitted(r)
    <3>1. Calling(request[r]).pc = "calling"
      BY <2>r DEF Request, Calling
    <3>. QED
      BY <2>2, <2>r, <3>1, NoReply DEF FireAdmitted, Become
  <2>3. CASE ReplyResult(r)
    <3>1. /\ request[r].pc = "settled" /\ Answer(r, request[r].result)
          /\ recordRequest(request[r].result) /\ request[r].result # "nonStandard"
      BY <2>3 DEF ReplyResult
    <3>. QED
      BY <3>1, OneReply, RecordCounts, CountedOnce
  <2>4. CASE ReplyNonStandard(r)
    <3>1. /\ metrics' = [metrics EXCEPT !["9xx"] = @ + 1, !["5xx"] = @ + 1]
          /\ metrics \in [StatusClasses -> Nat]
          /\ request[r].pc = "settled" /\ Answer(r, "badGateway")
          /\ request[r].result = "nonStandard"
      BY <2>4 DEF ReplyNonStandard, IInv
    <3>2. \A class \in StatusClasses :
              metrics'[class] =
                  IF class \in {"5xx", "9xx"} THEN metrics[class] + 1 ELSE metrics[class]
      BY <3>1 DEF StatusClasses
    <3>3. /\ Answered(request[r], "badGateway").reply = "badGateway"
          /\ Answered(request[r], "badGateway").result = "nonStandard"
      BY <2>r, <3>1 DEF Answered, Request
    <3>4. CountedUnder(Answered(request[r], "badGateway")) = {"5xx", "9xx"}
      BY <3>3 DEF CountedUnder, StatusClass
    <3>. QED
      BY <3>1, <3>2, <3>4, OneReply
  <2>5. CASE ReplyError(r)
    <3>1. /\ request[r].pc = "settled" /\ Answer(r, ErrorReply(request[r].result))
          /\ recordRequest(ErrorReply(request[r].result)) /\ request[r].result # "nonStandard"
      BY <2>5 DEF ReplyError, Errors
    <3>. QED
      BY <3>1, OneReply, RecordCounts, CountedOnce
  <2>6. CASE AttemptAnswered(r) \/ AttemptRefused(r) \/ AttemptBroken(r) \/ AttemptExpires(r)
    <3>1. request[r].pc = "calling" /\ UNCHANGED metrics
          /\ \E outcome, lost : AttemptEnds(r, outcome, lost)
      BY <2>6 DEF AttemptAnswered, AttemptRefused, AttemptBroken, AttemptExpires
    <3>. QED
      BY <3>1, EndsUnanswered, NoReply
  <2>7. CASE UpstreamExecutes(r) \/ UpstreamLoses(r)
    BY <2>7, NoReply DEF UpstreamExecutes, UpstreamLoses
  <2>. QED
    BY <1>n, <2>1, <2>2, <2>3, <2>4, <2>5, <2>6, <2>7 DEF Handler
<1>. QED
  BY <1>u, <1>n DEF Next

\* Every reply is counted exactly once under its status class, but for a status of the
\* upstream that no reply can have, for any number of requests
\* (routes/proxy.routes.ts, metrics.service.ts).
THEOREM RepliesCounted == Spec => []EveryReplyCounted
<1>1. Init => EveryReplyCounted
  <2>. SUFFICES ASSUME Init PROVE EveryReplyCounted
    OBVIOUS
  <2>1. ASSUME NEW class \in StatusClasses PROVE metrics[class] = Cardinality(AnsweredIn(class))
    <3>1. AnsweredIn(class) = {}
      BY DEF Init, AnsweredIn, NewRequest
    <3>. QED
      BY <3>1, FS_EmptySet DEF Init
  <2>. QED
    BY <2>1, CountedIs
<1>. QED
  BY <1>1, ProxyInvariant, CountedNext, PTL DEF Spec
=============================================================================
