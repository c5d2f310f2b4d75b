---------------------------- MODULE BreakerCalls ----------------------------
(***************************************************************************)
(* The protocol every operation of every backend client follows around one *)
(* circuit breaker: Allow(), one HTTP exchange, then RecordSuccess(),      *)
(* RecordFailure() or, when the reply does not decode, no record at all.   *)
(* The mutex is free during the exchange, so other callers' calls, the     *)
(* timeout and Reset() fall between a caller's Allow() and its record:     *)
(* a verdict can arrive in a state other than the one that admitted it.    *)
(*                                                                         *)
(* inflight is the only state of the clients.  The history variables       *)
(* (stale, doomed, recovered, streak, earned, calm) record what happened,  *)
(* never influence the breaker, and are what the properties compare the    *)
(* breaker's own fields with.                                              *)
(***************************************************************************)
EXTENDS CircuitBreaker, FiniteSets

CONSTANT Callers   \* goroutines that may have one operation in flight each

VARIABLES
    inflight,    \* callers whose HTTP exchange is under way
    recovered,   \* TRUE once the backend is back for good
    stale,       \* in-flight callers admitted before the last trip
    doomed,      \* in-flight callers whose request left before the recovery
    streak,      \* failures recorded since the last success or Reset
    earned,      \* successes recorded in the current half-open period
    calm         \* ticks since the last failure, saturating at Timeout + 1

history == <<recovered, stale, doomed, streak, earned, calm>>
vars == <<state, failures, sinceFailure, halfOpenSuccess, inflight,
          recovered, stale, doomed, streak, earned, calm>>

Init ==
    /\ NewCircuitBreaker
    /\ inflight = {}
    /\ recovered = FALSE
    /\ stale = {}
    /\ doomed = {}
    /\ streak = 0
    /\ earned = 0
    /\ calm = Timeout + 1

-----------------------------------------------------------------------------
\* The caller returns: nothing about its operation is outstanding.
Return(c) ==
    /\ c \in inflight
    /\ inflight' = inflight \ {c}
    /\ doomed' = doomed \ {c}

\* A backend that is back answers every request that left after it came back.
MayFail(c) == recovered => c \in doomed

\* if !c.breaker.Allow() { ... } passes, and the request leaves.
Admit(c) ==
    /\ c \notin inflight
    /\ AllowTrue
    /\ inflight' = inflight \union {c}
    /\ earned' = IF state = "Open" THEN 0 ELSE earned
    /\ UNCHANGED <<recovered, stale, doomed, streak, calm>>

\* if !c.breaker.Allow() { return "circuit breaker open" }: no request leaves.
Refuse(c) ==
    /\ c \notin inflight
    /\ AllowFalse
    /\ UNCHANGED <<inflight, history>>

\* The reply is good (or a 404 that Get and Delete count as an answer).
Succeed(c) ==
    /\ Return(c)
    /\ RecordSuccess
    /\ stale' = stale \ {c}
    /\ streak' = 0
    /\ earned' = IF state = "HalfOpen" THEN earned + 1 ELSE earned
    /\ UNCHANGED <<recovered, calm>>

\* httpClient.Do fails (refused, reset, timed out, cancelled) or the status
\* is an error.
Fail(c) ==
    /\ MayFail(c)
    /\ Return(c)
    /\ RecordFailure
    /\ stale' = (IF state # "Open" /\ state' = "Open" THEN inflight ELSE stale) \ {c}
    /\ streak' = Bump(streak)
    /\ calm' = 0
    /\ UNCHANGED <<recovered, earned>>

\* The reply's body does not decode: the operation returns and records nothing.
Abandon(c) ==
    /\ MayFail(c)
    /\ Return(c)
    /\ stale' = stale \ {c}
    /\ UNCHANGED <<breakerVars, recovered, streak, earned, calm>>

Reset ==
    /\ ResetBreaker
    /\ streak' = 0
    /\ UNCHANGED <<inflight, recovered, stale, doomed, earned, calm>>

Pass ==
    /\ Tick
    /\ calm' = IF calm > Timeout THEN calm ELSE calm + 1
    /\ UNCHANGED <<inflight, recovered, stale, doomed, streak, earned>>

\* The outage ends for good; replies to requests already sent may still fail.
Recover ==
    /\ ~recovered
    /\ recovered' = TRUE
    /\ doomed' = inflight
    /\ UNCHANGED <<breakerVars, inflight, stale, streak, earned, calm>>

Next ==
    \/ \E c \in Callers : Admit(c)
    \/ \E c \in Callers : Refuse(c)
    \/ \E c \in Callers : Succeed(c)
    \/ \E c \in Callers : Fail(c)
    \/ \E c \in Callers : Abandon(c)
    \/ Reset
    \/ Pass
    \/ Recover

Spec == Init /\ [][Next]_vars

\* Time passes; an exchange ends, since every client gives its http.Client
\* the request timeout; and the application keeps calling.
Fairness ==
    /\ WF_vars(Pass)
    /\ \A c \in Callers : WF_vars(Succeed(c) \/ Fail(c) \/ Abandon(c))
    /\ \A c \in Callers : WF_vars(Admit(c))

FairSpec == Spec /\ Fairness

-----------------------------------------------------------------------------
TypeOK ==
    /\ BreakerTypeOK
    /\ inflight \subseteq Callers
    /\ recovered \in BOOLEAN
    /\ stale \subseteq inflight
    /\ doomed \subseteq inflight
    /\ streak \in 0..FailureCap
    /\ earned \in 0..halfOpenMax
    /\ calm \in 0..(Timeout + 1)

\* A run of consecutive failures as long as the threshold never leaves the
\* circuit closed, whatever interleaving of callers produced it.
ClosedBelowThreshold ==
    state = "Closed" => streak = 0 \/ streak < Threshold

\* While the circuit is open the only exchanges still under way are those
\* admitted before it tripped: no caller slips in after the trip.
OpenHoldsOnlyStragglers ==
    state = "Open" => inflight \subseteq stale

\* What a half-open circuit counts towards closing are the successes of this
\* half-open period alone, never those of an earlier one.
ProbationCountsThisPeriod ==
    state = "HalfOpen" => halfOpenSuccess = earned /\ earned < halfOpenMax

\* A closed circuit opens only on Threshold failures in a row: a success
\* recorded in between, by any caller, starts the count again.
TripNeedsConsecutiveFailures ==
    [][state = "Closed" /\ state' = "Open" => streak' >= Threshold]_vars

\* An open circuit becomes half-open only when no failure, not even one of a
\* straggler recorded while open, happened within the timeout.
ProbeOnlyAfterCalm ==
    [][state = "Open" /\ state' = "HalfOpen" => calm > Timeout]_vars

\* A tripped circuit closes again by two successes of the same half-open
\* period, or by Reset; and never straight from open.
ClosedOnlyByProbation ==
    [][state # "Closed" /\ state' = "Closed" =>
          \/ state = "HalfOpen" /\ earned' >= halfOpenMax
          \/ ResetBreaker]_vars

\* Stragglers that fail while the circuit is open restart its timeout, but
\* not for ever: an open circuit is probed in the end, outage or not.
OpenEventuallyProbed == state = "Open" ~> state # "Open"

\* After an outage the circuit closes and stays closed, whatever the requests
\* that were sent during the outage still bring.
RecoversForGood == recovered ~> [](state = "Closed")
=============================================================================
