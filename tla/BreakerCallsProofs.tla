------------------------- MODULE BreakerCallsProofs -------------------------
(***************************************************************************)
(* Safety of the circuit breaker under any number of concurrent callers,   *)
(* any threshold and any timeout, and the measures on which the recovery of*)
(* a circuit rests.                                                        *)
(***************************************************************************)
EXTENDS BreakerCalls, TLAPS

\* The strengthening that makes the safety properties inductive: in each
\* state the field the code is about to consult agrees with the history.
FieldsMatchHistory ==
    /\ sinceFailure = calm
    /\ state = "Closed" => failures = streak

IInv ==
    /\ TypeOK
    /\ FieldsMatchHistory
    /\ ClosedBelowThreshold
    /\ OpenHoldsOnlyStragglers
    /\ ProbationCountsThisPeriod

-----------------------------------------------------------------------------
\* A saturating counter stays within its cap, and reaches any number up to
\* the cap exactly when the unbounded counter would.
LEMMA BumpIsBounded ==
    ASSUME NEW n \in 0..FailureCap
    PROVE  /\ Bump(n) \in 1..FailureCap
           /\ n < FailureCap => Bump(n) = n + 1
  BY BreakerAssumption DEF BreakerAssumption, Bump

\* Initially the circuit is closed and nothing has happened.
LEMMA InitEstablishes == Init => IInv
<1> SUFFICES ASSUME Init
             PROVE  IInv
  OBVIOUS
<1> USE DEF Init, NewCircuitBreaker
<1>1. BreakerTypeOK
  BY BreakerAssumption DEF BreakerAssumption, BreakerTypeOK, CircuitState, halfOpenMax
<1>2. TypeOK
  <2>1. recovered \in BOOLEAN
    OBVIOUS
  <2>2. streak \in 0..FailureCap /\ earned \in 0..halfOpenMax
    BY BreakerAssumption DEF BreakerAssumption, halfOpenMax
  <2>3. calm \in 0..(Timeout + 1)
    BY BreakerAssumption DEF BreakerAssumption
  <2>4. QED
    BY <1>1, <2>1, <2>2, <2>3 DEF TypeOK
<1>3. FieldsMatchHistory /\ ClosedBelowThreshold
  BY DEF FieldsMatchHistory, ClosedBelowThreshold
<1>4. OpenHoldsOnlyStragglers /\ ProbationCountsThisPeriod
  BY DEF OpenHoldsOnlyStragglers, ProbationCountsThisPeriod
<1>5. QED
  BY <1>1, <1>2, <1>3, <1>4 DEF IInv

\* Every step of every caller, of the clock and of the backend keeps IInv.
LEMMA StepPreserves == IInv /\ [Next]_vars => IInv'
<1> SUFFICES ASSUME IInv, [Next]_vars
             PROVE  IInv'
  OBVIOUS
<1> USE BreakerAssumption
    DEF BreakerAssumption, IInv, TypeOK, BreakerTypeOK, FieldsMatchHistory,
        CircuitState,
        halfOpenMax, breakerVars, ClosedBelowThreshold,
        OpenHoldsOnlyStragglers, ProbationCountsThisPeriod
<1>1. ASSUME NEW c \in Callers, Admit(c)
      PROVE  IInv'
  BY <1>1 DEF Admit, AllowTrue, TimeoutElapsed
<1>2. ASSUME NEW c \in Callers, Refuse(c)
      PROVE  IInv'
  BY <1>2 DEF Refuse, AllowFalse, history
<1>3. ASSUME NEW c \in Callers, Succeed(c)
      PROVE  IInv'
  BY <1>3 DEF Succeed, Return, RecordSuccess
<1>4. ASSUME NEW c \in Callers, Fail(c)
      PROVE  IInv'
  <2> USE <1>4 DEF Fail, Return, RecordFailure
  <2>1. /\ Bump(failures) \in 1..FailureCap
        /\ Bump(streak) \in 1..FailureCap
        /\ failures < FailureCap => Bump(failures) = failures + 1
    BY BumpIsBounded
  <2>2. TypeOK'
    BY <2>1
  <2>3. FieldsMatchHistory'
    BY <2>1
  <2>4. ClosedBelowThreshold'
    BY <2>1
  <2>5. OpenHoldsOnlyStragglers' /\ ProbationCountsThisPeriod'
    OBVIOUS
  <2>6. QED
    BY <2>2, <2>3, <2>4, <2>5
<1>5. ASSUME NEW c \in Callers, Abandon(c)
      PROVE  IInv'
  BY <1>5 DEF Abandon, Return
<1>6. CASE Reset
  BY <1>6 DEF Reset, ResetBreaker
<1>7. CASE Pass
  BY <1>7 DEF Pass, Tick, TimeoutElapsed
<1>8. CASE Recover
  BY <1>8 DEF Recover
<1>9. CASE UNCHANGED vars
  BY <1>9 DEF vars
<1>10. QED
  BY <1>1, <1>2, <1>3, <1>4, <1>5, <1>6, <1>7, <1>8, <1>9 DEF Next

\* The inductive invariant holds in every reachable state.
THEOREM Invariance == Spec => []IInv
  BY InitEstablishes, StepPreserves, PTL DEF Spec

\* Every field stays in its type.
THEOREM TypeCorrect == Spec => []TypeOK
<1>1. IInv => TypeOK
  BY DEF IInv
<1>2. QED
  BY <1>1, Invariance, PTL

\* Threshold failures in a row never leave the circuit closed.
THEOREM TripsInTime == Spec => []ClosedBelowThreshold
<1>1. IInv => ClosedBelowThreshold
  BY DEF IInv
<1>2. QED
  BY <1>1, Invariance, PTL

\* No caller is admitted between a trip and the next probe.
THEOREM OpenAdmitsNobody == Spec => []OpenHoldsOnlyStragglers
<1>1. IInv => OpenHoldsOnlyStragglers
  BY DEF IInv
<1>2. QED
  BY <1>1, Invariance, PTL

\* Closing credit never carries over from one half-open period to the next.
THEOREM CreditIsFresh == Spec => []ProbationCountsThisPeriod
<1>1. IInv => ProbationCountsThisPeriod
  BY DEF IInv
<1>2. QED
  BY <1>1, Invariance, PTL

-----------------------------------------------------------------------------
\* From a state satisfying IInv, a step that opens a closed circuit is the
\* last of Threshold failures in a row.
LEMMA TripStep ==
    ASSUME IInv, [Next]_vars, state = "Closed", state' = "Open"
    PROVE  streak' >= Threshold
<1>1. PICK c \in Callers : Fail(c)
  BY DEF Next, vars, Admit, AllowTrue, Refuse, AllowFalse, Succeed,
         RecordSuccess, Abandon, breakerVars, Reset, ResetBreaker, Pass, Tick,
         Recover
<1>2. failures' >= Threshold
  BY <1>1 DEF Fail, RecordFailure
<1>3. streak' = failures'
  BY <1>1 DEF Fail, RecordFailure, IInv, FieldsMatchHistory
<1>4. QED
  BY <1>2, <1>3

\* A closed circuit opens only after Threshold consecutive failures.
THEOREM TripsOnlyForCause == Spec => TripNeedsConsecutiveFailures
<1>1. IInv /\ [Next]_vars
        => [state = "Closed" /\ state' = "Open" => streak' >= Threshold]_vars
  BY TripStep
<1>2. QED
  BY <1>1, Invariance, PTL DEF Spec, TripNeedsConsecutiveFailures

\* A step from open to half-open is an Allow() after a calm timeout.
LEMMA ProbeStep ==
    ASSUME IInv, [Next]_vars, state = "Open", state' = "HalfOpen"
    PROVE  calm > Timeout
<1>1. PICK c \in Callers : Admit(c)
  BY DEF Next, vars, Refuse, AllowFalse, Succeed, RecordSuccess, Fail,
         RecordFailure, Abandon, breakerVars, Reset, ResetBreaker, Pass, Tick,
         Recover
<1>2. QED
  BY <1>1 DEF Admit, AllowTrue, TimeoutElapsed, IInv, FieldsMatchHistory

\* An open circuit is probed only after a timeout without any failure.
THEOREM ProbesOnlyAfterCalm == Spec => ProbeOnlyAfterCalm
<1>1. IInv /\ [Next]_vars
        => [state = "Open" /\ state' = "HalfOpen" => calm > Timeout]_vars
  BY ProbeStep
<1>2. QED
  BY <1>1, Invariance, PTL DEF Spec, ProbeOnlyAfterCalm

\* A step that closes a tripped circuit is a Reset or the success that
\* completes a half-open period.
LEMMA CloseStep ==
    ASSUME IInv, [Next]_vars, state # "Closed", state' = "Closed"
    PROVE  \/ state = "HalfOpen" /\ earned' >= halfOpenMax
           \/ ResetBreaker
<1>1. CASE Reset
  BY <1>1 DEF Reset
<1>2. CASE ~Reset
  <2>1. PICK c \in Callers : Succeed(c)
    BY <1>2
    DEF Next, vars, Admit, AllowTrue, Refuse, AllowFalse, Fail, RecordFailure,
        Abandon, breakerVars, Pass, Tick, Recover
  <2>2. /\ state = "HalfOpen"
        /\ halfOpenSuccess + 1 >= halfOpenMax
        /\ earned' = earned + 1
    BY <2>1 DEF Succeed, RecordSuccess, breakerVars
  <2>3. QED
    BY <2>2 DEF IInv, ProbationCountsThisPeriod
<1>3. QED
  BY <1>1, <1>2

\* A tripped circuit closes only by probation or by Reset.
THEOREM ClosesOnlyByProbation == Spec => ClosedOnlyByProbation
<1>1. IInv /\ [Next]_vars
        => [state # "Closed" /\ state' = "Closed" =>
              \/ state = "HalfOpen" /\ earned' >= halfOpenMax
              \/ ResetBreaker]_vars
  BY CloseStep
<1>2. QED
  BY <1>1, Invariance, PTL DEF Spec, ClosedOnlyByProbation

-----------------------------------------------------------------------------
(* What liveness rests on, for any number of callers: the measures that the  *)
(* steps of an open circuit and of a recovered backend run down.             *)

\* While the circuit stays open nobody is admitted, and only the failure of an
\* exchange that was under way restarts the timeout, so that the timeout is
\* restarted no more often than there are stragglers.
OpenRunsDown ==
    [][state = "Open" /\ state' = "Open" =>
          \/ inflight' \subseteq inflight /\ inflight' # inflight
          \/ inflight' = inflight /\ sinceFailure' >= sinceFailure]_vars

\* A step that leaves the circuit open admits nobody, and restarts the timeout
\* only by taking a caller's exchange off those under way.
LEMMA OpenStep ==
    ASSUME IInv, [Next]_vars, state = "Open", state' = "Open"
    PROVE  \/ inflight' \subseteq inflight /\ inflight' # inflight
           \/ inflight' = inflight /\ sinceFailure' >= sinceFailure
<1>1. ASSUME NEW c \in Callers, Return(c)
      PROVE  inflight' \subseteq inflight /\ inflight' # inflight
  BY <1>1 DEF Return
<1>2. ASSUME NEW c \in Callers, Admit(c)
      PROVE  FALSE
  BY <1>2 DEF Admit, AllowTrue
<1>3. ASSUME inflight' = inflight, sinceFailure' = sinceFailure
      PROVE  inflight' = inflight /\ sinceFailure' >= sinceFailure
  BY <1>3, BreakerAssumption
  DEF BreakerAssumption, IInv, TypeOK, BreakerTypeOK
<1>4. CASE Pass
  <2>1. sinceFailure \in Int /\ sinceFailure' = sinceFailure + 1 /\ inflight' = inflight
    BY <1>4, BreakerAssumption
    DEF BreakerAssumption, Pass, Tick, IInv, TypeOK, BreakerTypeOK
  <2>2. QED
    BY <2>1
<1>5. CASE Reset
  BY <1>5 DEF Reset, ResetBreaker
<1>6. CASE Recover
  BY <1>3, <1>6 DEF Recover, breakerVars
<1>7. ASSUME NEW c \in Callers, Refuse(c)
      PROVE  inflight' = inflight /\ sinceFailure' >= sinceFailure
  BY <1>3, <1>7 DEF Refuse, AllowFalse, breakerVars
<1>8. CASE UNCHANGED vars
  BY <1>3, <1>8 DEF vars
<1>9. QED
  BY <1>1, <1>2, <1>4, <1>5, <1>6, <1>7, <1>8 DEF Next, Succeed, Fail, Abandon

\* Stragglers can put the next probe off, but only as often as there are of
\* them: the variant on which OpenEventuallyProbed rests.
THEOREM ProbeComesNearer == Spec => OpenRunsDown
<1>1. IInv /\ [Next]_vars
        => [state = "Open" /\ state' = "Open" =>
              \/ inflight' \subseteq inflight /\ inflight' # inflight
              \/ inflight' = inflight /\ sinceFailure' >= sinceFailure]_vars
  BY OpenStep
<1>2. QED
  BY <1>1, Invariance, PTL DEF Spec, OpenRunsDown

\* Once the backend is back no new exchange can fail, and every trip uses up
\* one that left during the outage.
TripsRunOut ==
    [][recovered =>
          /\ recovered'
          /\ doomed' \subseteq doomed
          /\ state # "Open" /\ state' = "Open" => doomed' # doomed]_vars

\* A failure recorded after the recovery is that of a doomed caller.
LEMMA RecoveredStep ==
    ASSUME IInv, [Next]_vars, recovered
    PROVE  /\ recovered'
           /\ doomed' \subseteq doomed
           /\ state # "Open" /\ state' = "Open" => doomed' # doomed
<1>1. ASSUME NEW c \in Callers, Fail(c)
      PROVE  recovered' /\ doomed' \subseteq doomed /\ doomed' # doomed
  BY <1>1 DEF Fail, MayFail, Return
<1>2. ASSUME NEW c \in Callers, Succeed(c)
      PROVE  recovered' /\ doomed' \subseteq doomed /\ (state' = "Open" => state = "Open")
  BY <1>2 DEF Succeed, Return, RecordSuccess, breakerVars
<1>3. ASSUME NEW c \in Callers, Abandon(c)
      PROVE  recovered' /\ doomed' \subseteq doomed /\ (state' = "Open" => state = "Open")
  BY <1>3 DEF Abandon, Return, breakerVars
<1>4. ASSUME NEW c \in Callers, Admit(c)
      PROVE  recovered' /\ doomed' \subseteq doomed /\ (state' = "Open" => state = "Open")
  BY <1>4 DEF Admit, AllowTrue, breakerVars
<1>5. ASSUME NEW c \in Callers, Refuse(c)
      PROVE  recovered' /\ doomed' \subseteq doomed /\ (state' = "Open" => state = "Open")
  BY <1>5 DEF Refuse, AllowFalse, history, breakerVars
<1>6. CASE Reset
  BY <1>6 DEF Reset, ResetBreaker
<1>7. CASE Pass
  BY <1>7 DEF Pass, Tick
<1>8. CASE Recover
  BY <1>8 DEF Recover
<1>9. CASE UNCHANGED vars
  BY <1>9 DEF vars
<1>10. QED
  BY <1>1, <1>2, <1>3, <1>4, <1>5, <1>6, <1>7, <1>8, <1>9 DEF Next

\* After an outage the circuit can trip only as often as requests of the outage
\* are still under way: the variant on which RecoversForGood rests.
THEOREM OutageWearsOff == Spec => TripsRunOut
<1>1. IInv /\ [Next]_vars
        => [recovered =>
              /\ recovered'
              /\ doomed' \subseteq doomed
              /\ state # "Open" /\ state' = "Open" => doomed' # doomed]_vars
  BY RecoveredStep
<1>2. QED
  BY <1>1, Invariance, PTL DEF Spec, TripsRunOut

\* The backend is back, nothing sent during the outage is under way any more,
\* and the circuit is closed.
Settled == recovered /\ doomed = {} /\ state = "Closed"

\* No interleaving of callers, timeout and Reset opens a circuit again that has
\* closed after the last request of the outage: the part of RecoversForGood
\* that says for good.
THEOREM SettledForGood == Spec => [](Settled => []Settled)
<1>1. IInv /\ [Next]_vars /\ Settled => Settled'
  <2> SUFFICES ASSUME IInv, [Next]_vars, Settled
               PROVE  Settled'
    OBVIOUS
  <2>1. /\ recovered'
        /\ doomed' = {}
        /\ state' # "Open"
    BY RecoveredStep DEF Settled
  <2>2. state' # "HalfOpen"
    <3>1. ASSUME NEW c \in Callers, Fail(c)
          PROVE  FALSE
      BY <3>1 DEF Fail, MayFail, Settled
    <3>2. state' = "HalfOpen" => state = "HalfOpen" \/ state = "Open"
      BY <3>1
      DEF Next, vars, Admit, AllowTrue, Refuse, AllowFalse, Succeed, RecordSuccess,
          Abandon, breakerVars, Reset, ResetBreaker, Pass, Tick, Recover
    <3>3. QED
      BY <3>2 DEF Settled
  <2>3. state' \in CircuitState
    BY StepPreserves DEF IInv, TypeOK, BreakerTypeOK
  <2>4. QED
    BY <2>1, <2>2, <2>3 DEF Settled, CircuitState
<1>2. QED
  BY <1>1, Invariance, PTL DEF Spec
=============================================================================
