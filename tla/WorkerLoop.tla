----------------------------- MODULE WorkerLoop -----------------------------
(***************************************************************************)
(* The background loop of consolidation.Engine (pkg/consolidation), which  *)
(* quality_loop.Loop repeats line for line: Start() makes a stop channel   *)
(* and a goroutine, Stop() closes the channel, and the goroutine ends when *)
(* it sees the channel closed or its context cancelled.                    *)
(*                                                                         *)
(* Start, Stop and the loop's clearing of running hold the mutex.  The     *)
(* loop reads e.stopCh without it each time it enters its select, so a     *)
(* loop that is late in noticing a Stop can meet the next Start.           *)
(* Loops, their channels and their contexts are numbered by the Start that *)
(* made them.  A Start while running, a Start of an engine that is not     *)
(* enabled and a Stop while not running change nothing and are left out.   *)
(***************************************************************************)
EXTENDS Integers

CONSTANT MaxStarts   \* bound: how often the worker is started

ASSUME WorkerAssumption == MaxStarts \in Nat

VARIABLES
    running,     \* e.running
    stopCh,      \* e.stopCh, 0 for nil
    started,     \* number of Starts that made a loop
    closed,      \* channels closed so far
    cancelled,   \* loops whose context is cancelled
    pc,          \* pc[l]: where loop l is
    seen         \* seen[l]: oldest value of e.stopCh that loop l may still
                 \* read; in its select, the channel it waits on

vars == <<running, stopCh, started, closed, cancelled, pc, seen>>

Loops == 1..MaxStarts

\* "entering" its select, "waiting" in it, "clearing" running after ctx.Done().
LoopState == {"absent", "entering", "waiting", "clearing", "ended"}

Alive(l) == pc[l] \in {"entering", "waiting", "clearing"}

Init ==
    /\ running = FALSE
    /\ stopCh = 0
    /\ started = 0
    /\ closed = {}
    /\ cancelled = {}
    /\ pc = [l \in Loops |-> "absent"]
    /\ seen = [l \in Loops |-> 0]

-----------------------------------------------------------------------------
(* Faulty variants of the steps below, each a bug some property rules out.   *)
(* No action uses them.                                                      *)

\* The goroutine is started before its channel is made.
StartBeforeMake ==
    /\ ~running
    /\ started < MaxStarts
    /\ running' = TRUE
    /\ started' = started + 1
    /\ stopCh' = started'
    /\ pc' = [pc EXCEPT ![started'] = "entering"]
    /\ seen' = [seen EXCEPT ![started'] = stopCh]
    /\ UNCHANGED <<closed, cancelled>>

\* The worker still counts as running after Stop.
StopKeepingRunning ==
    /\ running
    /\ closed' = closed \union {stopCh}
    /\ UNCHANGED <<running, stopCh, started, cancelled, pc, seen>>

\* Stop clears the flag and closes nothing.
StopWithoutClose ==
    /\ running
    /\ running' = FALSE
    /\ UNCHANGED <<stopCh, started, closed, cancelled, pc, seen>>

\* A loop whose context is cancelled ends and leaves the flag set.
EndWithoutClearing(l) ==
    /\ pc[l] = "clearing"
    /\ pc' = [pc EXCEPT ![l] = "ended"]
    /\ UNCHANGED <<running, stopCh, started, closed, cancelled, seen>>

\* A loop whose context is cancelled clears the flag and goes on.
ClearWithoutEnding(l) ==
    /\ pc[l] = "clearing"
    /\ running' = FALSE
    /\ pc' = [pc EXCEPT ![l] = "entering"]
    /\ UNCHANGED <<stopCh, started, closed, cancelled, seen>>

-----------------------------------------------------------------------------
\* The go statement follows the unlocking: a goroutine not yet launched is one
\* that has not taken a step.
Start ==
    /\ ~running
    /\ started < MaxStarts
    /\ running' = TRUE
    /\ started' = started + 1
    /\ stopCh' = started'
    /\ pc' = [pc EXCEPT ![started'] = "entering"]
    /\ seen' = [seen EXCEPT ![started'] = started']
    /\ UNCHANGED <<closed, cancelled>>

\* close(e.stopCh): panics if the channel is closed already (NoDoubleClose).
Stop ==
    /\ running
    /\ closed' = closed \union {stopCh}
    /\ running' = FALSE
    /\ UNCHANGED <<stopCh, started, cancelled, pc, seen>>

\* The context some Start was given ends.
Cancel(l) ==
    /\ pc[l] # "absent"
    /\ l \notin cancelled
    /\ cancelled' = cancelled \union {l}
    /\ UNCHANGED <<running, stopCh, started, closed, pc, seen>>

\* The loop evaluates e.stopCh, without the mutex: nothing orders the read
\* after the write of a later Start, so it may return that value or any since
\* the last one the loop was bound to see.
EnterSelect(l) ==
    /\ pc[l] = "entering"
    /\ \E ch \in seen[l]..stopCh : seen' = [seen EXCEPT ![l] = ch]
    /\ pc' = [pc EXCEPT ![l] = "waiting"]
    /\ UNCHANGED <<running, stopCh, started, closed, cancelled>>

\* case <-ticker.C: one pass; its locking of the mutex orders it after every
\* Start so far.
RunPass(l) ==
    /\ pc[l] = "waiting"
    /\ seen' = [seen EXCEPT ![l] = stopCh]
    /\ pc' = [pc EXCEPT ![l] = "entering"]
    /\ UNCHANGED <<running, stopCh, started, closed, cancelled>>

\* case <-e.stopCh: return
SeeStop(l) ==
    /\ pc[l] = "waiting"
    /\ seen[l] \in closed
    /\ pc' = [pc EXCEPT ![l] = "ended"]
    /\ UNCHANGED <<running, stopCh, started, closed, cancelled, seen>>

\* case <-ctx.Done(): the loop goes for the mutex,
SeeCancel(l) ==
    /\ pc[l] = "waiting"
    /\ l \in cancelled
    /\ pc' = [pc EXCEPT ![l] = "clearing"]
    /\ UNCHANGED <<running, stopCh, started, closed, cancelled, seen>>

\* clears the flag, whoever's it is by then, and returns.
ClearRunning(l) ==
    /\ pc[l] = "clearing"
    /\ running' = FALSE
    /\ pc' = [pc EXCEPT ![l] = "ended"]
    /\ UNCHANGED <<stopCh, started, closed, cancelled, seen>>

Next ==
    \/ Start
    \/ Stop
    \/ \E l \in Loops : Cancel(l)
    \/ \E l \in Loops : EnterSelect(l)
    \/ \E l \in Loops : RunPass(l)
    \/ \E l \in Loops : SeeStop(l)
    \/ \E l \in Loops : SeeCancel(l)
    \/ \E l \in Loops : ClearRunning(l)

Spec == Init /\ [][Next]_vars

\* A goroutine is scheduled and gets the mutex.  A select with several ready
\* cases picks one at random, so that a case ready each time round is taken in
\* the end.  Nobody has to call Start, Stop or cancel.
Fairness ==
    \A l \in Loops :
       /\ WF_vars(EnterSelect(l))
       /\ WF_vars(ClearRunning(l))
       /\ SF_vars(SeeStop(l) \/ SeeCancel(l))

FairSpec == Spec /\ Fairness

-----------------------------------------------------------------------------
TypeOK ==
    /\ running \in BOOLEAN
    /\ started \in 0..MaxStarts
    /\ stopCh = started
    /\ closed \subseteq 1..started
    /\ cancelled \subseteq 1..started
    /\ pc \in [Loops -> LoopState]
    /\ seen \in [Loops -> 0..MaxStarts]
    /\ \A l \in Loops : pc[l] = "absent" <=> l > started
    /\ \A l \in Loops : l <= started => seen[l] \in l..started

\* Stop never closes a closed channel, which would panic with the mutex held,
\* whatever order of Starts, Stops and cancellations comes before it.
NoDoubleClose == running => stopCh \notin closed

\* While IsRunning() reports TRUE there is a loop to do the work: the one of
\* the latest Start has not ended.
RunningHasLoop == running => Alive(started)

\* As long as no context is cancelled, a stopped worker has closed every
\* channel a loop may be waiting on: also a loop that slept through an earlier
\* Stop and took over the channel of a later Start.
StopReachesEveryLoop ==
    ~running /\ cancelled = {} => \A l \in Loops : Alive(l) => l..started \subseteq closed

\* As long as no context is cancelled, Stop halts every loop, the late ones of
\* earlier Starts too, unless the worker is started again.
StopHaltsUncancelled ==
    ~running /\ cancelled = {} ~>
        running \/ cancelled # {} \/ \A l \in Loops : ~Alive(l)

\* A loop whose context is cancelled ends, however busy its ticker.
CancelEnds == \A l \in Loops : l \in cancelled ~> ~Alive(l)

\* consolidation.go:77, "Stop halts the consolidation loop.": a worker that is
\* not running comes to have no loop, unless it is started again.
StopHalts == ~running ~> running \/ \A l \in Loops : ~Alive(l)
=============================================================================
