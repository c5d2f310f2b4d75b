--------------------------- MODULE CircuitBreaker ---------------------------
(***************************************************************************)
(* types.CircuitBreaker (pkg/types/circuit_breaker.go): the object every   *)
(* backend client guards its HTTP calls with.  Each method runs under the  *)
(* breaker's mutex, so each method is one action.  The module declares the *)
(* breaker's fields and methods only; BreakerCalls and BackendClient       *)
(* extend it with the goroutines that call them.                           *)
(*                                                                         *)
(* Time is the age of lastFailure, not a clock: the code only ever asks    *)
(* whether time.Since(lastFailure) exceeds the timeout, so an age that     *)
(* stops growing once it has exceeded it answers every question exactly.   *)
(***************************************************************************)
EXTENDS Integers

CONSTANTS
    Threshold,   \* cfg.CircuitBreakerThreshold; an env override may be <= 0
    Timeout,     \* cfg.CircuitBreakerTimeout, in ticks of the model's clock
    FailureCap   \* bound: the failure counter saturates here

\* The cap is at or above the threshold, so that a saturated counter compares
\* with the threshold as the real one does.
ASSUME BreakerAssumption ==
    /\ Threshold \in Int
    /\ Timeout \in Nat
    /\ FailureCap \in Nat \ {0}
    /\ FailureCap >= Threshold

VARIABLES
    state,            \* cb.state
    failures,         \* cb.failures, saturating at FailureCap
    sinceFailure,     \* age of cb.lastFailure, saturating at Timeout + 1
    halfOpenSuccess   \* cb.halfOpenSuccess

breakerVars == <<state, failures, sinceFailure, halfOpenSuccess>>

CircuitState == {"Closed", "Open", "HalfOpen"}

\* NewCircuitBreaker's literal: successes that close a half-open circuit.
halfOpenMax == 2

\* A counter that stops at FailureCap.
Bump(n) == IF n < FailureCap THEN n + 1 ELSE n

\* time.Since(cb.lastFailure) > cb.timeout.  The zero time of a breaker that
\* has never failed is infinitely old.
TimeoutElapsed == sinceFailure > Timeout

NewCircuitBreaker ==
    /\ state = "Closed"
    /\ failures = 0
    /\ sinceFailure = Timeout + 1
    /\ halfOpenSuccess = 0

-----------------------------------------------------------------------------
(* Faulty variants of the methods below, each a bug some property of         *)
(* BreakerCalls rules out.  No action uses them.                             *)

\* Turning half-open keeps the successes of the previous half-open period.
AllowKeepingCredit ==
    \/ /\ state \in {"Closed", "HalfOpen"}
       /\ UNCHANGED breakerVars
    \/ /\ state = "Open"
       /\ TimeoutElapsed
       /\ state' = "HalfOpen"
       /\ UNCHANGED <<failures, sinceFailure, halfOpenSuccess>>

\* The timeout lets callers through without turning half-open.
AllowWithoutProbation ==
    /\ state = "Open" => TimeoutElapsed
    /\ UNCHANGED breakerVars

\* Only the caller that turns the circuit half-open is let through.
AllowSingleProbe ==
    \/ /\ state = "Closed"
       /\ UNCHANGED breakerVars
    \/ /\ state = "Open"
       /\ TimeoutElapsed
       /\ state' = "HalfOpen"
       /\ halfOpenSuccess' = 0
       /\ UNCHANGED <<failures, sinceFailure>>

\* A refused call restarts the timeout.
RefusalRestartsTimeout ==
    /\ state = "Open"
    /\ ~TimeoutElapsed
    /\ sinceFailure' = 0
    /\ UNCHANGED <<state, failures, halfOpenSuccess>>

\* The closing test is strict.
SuccessOffByOne ==
    \/ /\ state = "HalfOpen"
       /\ halfOpenSuccess' = halfOpenSuccess + 1
       /\ IF halfOpenSuccess' > halfOpenMax
          THEN state' = "Closed" /\ failures' = 0
          ELSE UNCHANGED <<state, failures>>
       /\ UNCHANGED sinceFailure
    \/ /\ state # "HalfOpen"
       /\ failures' = IF state = "Closed" THEN 0 ELSE failures
       /\ UNCHANGED <<state, sinceFailure, halfOpenSuccess>>

\* A success closes the circuit, but does not clear the failures of a closed
\* one.
SuccessKeepsFailures ==
    /\ IF state = "HalfOpen"
       THEN /\ halfOpenSuccess' = halfOpenSuccess + 1
            /\ IF halfOpenSuccess' >= halfOpenMax
               THEN state' = "Closed" /\ failures' = 0
               ELSE UNCHANGED <<state, failures>>
       ELSE UNCHANGED <<state, failures, halfOpenSuccess>>
    /\ UNCHANGED sinceFailure

\* Any success, a straggler's too, closes a circuit that is not half-open.
SuccessClosesOpen ==
    /\ IF state = "HalfOpen"
       THEN /\ halfOpenSuccess' = halfOpenSuccess + 1
            /\ IF halfOpenSuccess' >= halfOpenMax
               THEN state' = "Closed" /\ failures' = 0
               ELSE UNCHANGED <<state, failures>>
       ELSE state' = "Closed" /\ failures' = 0 /\ UNCHANGED halfOpenSuccess
    /\ UNCHANGED sinceFailure

\* Only the failure that trips the circuit starts the timeout.
FailureTimesTripOnly ==
    /\ failures' = Bump(failures)
    /\ state' = IF \/ state = "Closed" /\ failures' >= Threshold
                   \/ state = "HalfOpen"
                THEN "Open"
                ELSE state
    /\ sinceFailure' = IF state' # state THEN 0 ELSE sinceFailure
    /\ UNCHANGED halfOpenSuccess

-----------------------------------------------------------------------------
\* Allow() returning true: a closed or half-open circuit lets every caller
\* pass; an open one whose timeout has elapsed turns half-open first.
AllowTrue ==
    \/ /\ state \in {"Closed", "HalfOpen"}
       /\ UNCHANGED breakerVars
    \/ /\ state = "Open"
       /\ TimeoutElapsed
       /\ state' = "HalfOpen"
       /\ halfOpenSuccess' = 0
       /\ UNCHANGED <<failures, sinceFailure>>

\* Allow() returning false.
AllowFalse ==
    /\ state = "Open"
    /\ ~TimeoutElapsed
    /\ UNCHANGED breakerVars

\* RecordSuccess(): an open circuit ignores it.
RecordSuccess ==
    \/ /\ state = "HalfOpen"
       /\ halfOpenSuccess' = halfOpenSuccess + 1
       /\ IF halfOpenSuccess' >= halfOpenMax
          THEN state' = "Closed" /\ failures' = 0
          ELSE UNCHANGED <<state, failures>>
       /\ UNCHANGED sinceFailure
    \/ /\ state = "Closed"
       /\ failures' = 0
       /\ UNCHANGED <<state, sinceFailure, halfOpenSuccess>>
    \/ /\ state = "Open"
       /\ UNCHANGED breakerVars

\* RecordFailure(): counts and restarts the timeout in every state, also when
\* the circuit is open already.
RecordFailure ==
    /\ failures' = Bump(failures)
    /\ sinceFailure' = 0
    /\ state' = IF \/ state = "Closed" /\ failures' >= Threshold
                   \/ state = "HalfOpen"
                THEN "Open"
                ELSE state
    /\ UNCHANGED halfOpenSuccess

\* Reset(): lastFailure is left as it was.
ResetBreaker ==
    /\ state' = "Closed"
    /\ failures' = 0
    /\ halfOpenSuccess' = 0
    /\ UNCHANGED sinceFailure

\* Time passes; ticks beyond the timeout are indistinguishable to the code.
Tick ==
    /\ ~TimeoutElapsed
    /\ sinceFailure' = sinceFailure + 1
    /\ UNCHANGED <<state, failures, halfOpenSuccess>>

BreakerTypeOK ==
    /\ state \in CircuitState
    /\ failures \in 0..FailureCap
    /\ sinceFailure \in 0..(Timeout + 1)
    /\ halfOpenSuccess \in 0..halfOpenMax
=============================================================================
