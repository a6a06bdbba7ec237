---------------------------- MODULE BreakerLifecycle ----------------------------
(***************************************************************************)
(* What a circuit breaker promises, without counters, calls or timers: it  *)
(* rejects while open, an open breaker always comes to half-open, and a    *)
(* half-open breaker lets one call in and then closes or opens again.      *)
(***************************************************************************)

VARIABLES
    state,    \* "closed", "open" or "halfOpen"
    admits    \* whether the next call is let through

vars == <<state, admits>>

Init == state = "closed" /\ admits = TRUE

Trip == state = "closed" /\ state' = "open" /\ admits' = FALSE

Wait == state = "open" /\ state' = "halfOpen" /\ admits' = TRUE

AdmitProbe ==
    state = "halfOpen" /\ admits /\ admits' = FALSE /\ UNCHANGED state

Recover == state = "halfOpen" /\ state' = "closed" /\ admits' = TRUE

Relapse == state = "halfOpen" /\ state' = "open" /\ admits' = FALSE

Next == Trip \/ Wait \/ AdmitProbe \/ Recover \/ Relapse

\* A call let in while half-open is decided, one way or the other.
Decide == ~admits /\ (Recover \/ Relapse)

Spec == Init /\ [][Next]_vars

FairSpec == Spec /\ WF_vars(Wait) /\ WF_vars(Decide)

=============================================================================
