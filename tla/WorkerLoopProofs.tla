-------------------------- MODULE WorkerLoopProofs --------------------------
(***************************************************************************)
(* Safety of WorkerLoop for any number of restarts, from one inductive     *)
(* invariant.  What WorkerLoop's properties lack to be inductive is where  *)
(* running and closed come from: only a cancelled loop clears the flag     *)
(* without closing the channel, so that without cancellations the closed   *)
(* channels are exactly those of the Starts that were stopped.             *)
(***************************************************************************)
EXTENDS WorkerLoop, TLAPS

\* Only a loop whose context was cancelled is on its way to clear the flag.
ClearsForCause == \A l \in Loops : pc[l] = "clearing" => l \in cancelled

\* A running worker was started.
RunningWasStarted == running => started > 0

\* Without cancellations the channels still open are that of the latest Start,
\* while the worker runs, and none once it is stopped.
OpenIsLatest ==
    cancelled = {} =>
        closed = IF running THEN 1..(started - 1) ELSE 1..started

IInv ==
    /\ TypeOK
    /\ NoDoubleClose
    /\ RunningHasLoop
    /\ ClearsForCause
    /\ RunningWasStarted
    /\ OpenIsLatest

USE WorkerAssumption DEF WorkerAssumption

LEMMA InitEstablishes == Init => IInv
<1> SUFFICES ASSUME Init PROVE IInv
  OBVIOUS
<1>0. running \in BOOLEAN
  BY DEF Init
<1>1. TypeOK
  BY <1>0 DEF Init, TypeOK, Loops, LoopState
<1>2. NoDoubleClose /\ RunningHasLoop /\ ClearsForCause /\ RunningWasStarted
  BY DEF Init, NoDoubleClose, RunningHasLoop, ClearsForCause, RunningWasStarted
<1>3. OpenIsLatest
  BY DEF Init, OpenIsLatest
<1> QED
  BY <1>1, <1>2, <1>3 DEF IInv

LEMMA StepPreserves == IInv /\ [Next]_vars => IInv'
<1> SUFFICES ASSUME IInv, [Next]_vars PROVE IInv'
  OBVIOUS
<1> USE DEF IInv, Loops, LoopState
<1>1. CASE Start
  <2>1. TypeOK'
    BY <1>1 DEF Start, TypeOK
  <2>2. NoDoubleClose' /\ RunningHasLoop' /\ RunningWasStarted'
    BY <1>1 DEF Start, TypeOK, NoDoubleClose, RunningHasLoop, Alive, RunningWasStarted
  <2>3. ClearsForCause' /\ OpenIsLatest'
    BY <1>1 DEF Start, TypeOK, ClearsForCause, OpenIsLatest
  <2> QED
    BY <2>1, <2>2, <2>3
<1>2. CASE Stop
  <2>0. running' \in BOOLEAN
    BY <1>2 DEF Stop
  <2>1. TypeOK'
    BY <1>2, <2>0 DEF Stop, TypeOK, RunningWasStarted
  <2>2. NoDoubleClose' /\ RunningHasLoop' /\ RunningWasStarted' /\ ClearsForCause'
    BY <1>2 DEF Stop, NoDoubleClose, RunningHasLoop, RunningWasStarted, ClearsForCause
  <2>3. OpenIsLatest'
    BY <1>2 DEF Stop, TypeOK, RunningWasStarted, OpenIsLatest
  <2> QED
    BY <2>1, <2>2, <2>3
<1>3. ASSUME NEW l \in Loops, Cancel(l) PROVE IInv'
  BY <1>3 DEF Cancel, TypeOK, NoDoubleClose, RunningHasLoop, Alive,
     ClearsForCause, RunningWasStarted, OpenIsLatest
<1>4. ASSUME NEW l \in Loops, EnterSelect(l) PROVE IInv'
  <2>1. TypeOK'
    BY <1>4 DEF EnterSelect, TypeOK
  <2>2. NoDoubleClose' /\ RunningWasStarted' /\ OpenIsLatest'
    BY <1>4 DEF EnterSelect, NoDoubleClose, RunningWasStarted, OpenIsLatest
  <2>3. RunningHasLoop'
    BY <1>4 DEF EnterSelect, TypeOK, RunningWasStarted, RunningHasLoop, Alive
  <2>4. ClearsForCause'
    BY <1>4 DEF EnterSelect, TypeOK, ClearsForCause
  <2> QED
    BY <2>1, <2>2, <2>3, <2>4
<1>5. ASSUME NEW l \in Loops, RunPass(l) PROVE IInv'
  <2>1. TypeOK'
    BY <1>5 DEF RunPass, TypeOK
  <2>2. NoDoubleClose' /\ RunningWasStarted' /\ OpenIsLatest'
    BY <1>5 DEF RunPass, NoDoubleClose, RunningWasStarted, OpenIsLatest
  <2>3. RunningHasLoop'
    BY <1>5 DEF RunPass, TypeOK, RunningWasStarted, RunningHasLoop, Alive
  <2>4. ClearsForCause'
    BY <1>5 DEF RunPass, TypeOK, ClearsForCause
  <2> QED
    BY <2>1, <2>2, <2>3, <2>4
<1>6. ASSUME NEW l \in Loops, SeeStop(l) PROVE IInv'
  \* The loop that ends is not the one running stands for: its channel is closed.
  <2>1. running => l # started
    BY <1>6 DEF SeeStop, TypeOK, NoDoubleClose
  <2>2. TypeOK'
    BY <1>6 DEF SeeStop, TypeOK
  <2>3. RunningHasLoop'
    BY <1>6, <2>1 DEF SeeStop, TypeOK, RunningHasLoop, Alive
  <2>4. NoDoubleClose' /\ ClearsForCause' /\ RunningWasStarted' /\ OpenIsLatest'
    BY <1>6 DEF SeeStop, TypeOK, NoDoubleClose, ClearsForCause, RunningWasStarted, OpenIsLatest
  <2> QED
    BY <2>2, <2>3, <2>4
<1>7. ASSUME NEW l \in Loops, SeeCancel(l) PROVE IInv'
  BY <1>7 DEF SeeCancel, TypeOK, NoDoubleClose, RunningHasLoop, Alive,
     ClearsForCause, RunningWasStarted, OpenIsLatest
<1>8. ASSUME NEW l \in Loops, ClearRunning(l) PROVE IInv'
  BY <1>8 DEF ClearRunning, TypeOK, NoDoubleClose, RunningHasLoop,
     ClearsForCause, RunningWasStarted, OpenIsLatest
<1>9. CASE UNCHANGED vars
  BY <1>9 DEF vars, TypeOK, NoDoubleClose, RunningHasLoop, Alive,
     ClearsForCause, RunningWasStarted, OpenIsLatest
<1> QED
  BY <1>1, <1>2, <1>3, <1>4, <1>5, <1>6, <1>7, <1>8, <1>9 DEF Next

\* The inductive invariant holds of every behaviour.
THEOREM Invariance == Spec => []IInv
  BY InitEstablishes, StepPreserves, PTL DEF Spec

\* Every variable keeps its type, and no loop reads a channel older than its own.
THEOREM TypeCorrect == Spec => []TypeOK
<1>1. IInv => TypeOK
  BY DEF IInv
<1> QED
  BY <1>1, Invariance, PTL

\* Stop() never panics on a channel that is closed already.
THEOREM StopIsSafe == Spec => []NoDoubleClose
<1>1. IInv => NoDoubleClose
  BY DEF IInv
<1> QED
  BY <1>1, Invariance, PTL

\* IsRunning() never reports a worker that has no loop left.
THEOREM RunningIsTrue == Spec => []RunningHasLoop
<1>1. IInv => RunningHasLoop
  BY DEF IInv
<1> QED
  BY <1>1, Invariance, PTL

\* Without cancellations, a stopped worker has no loop left that waits on a
\* channel still open.
THEOREM StopReaches == Spec => []StopReachesEveryLoop
<1>1. IInv => StopReachesEveryLoop
  BY DEF IInv, TypeOK, OpenIsLatest, StopReachesEveryLoop, Loops
<1> QED
  BY <1>1, Invariance, PTL
=============================================================================
