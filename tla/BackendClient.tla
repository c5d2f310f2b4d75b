--------------------------- MODULE BackendClient ----------------------------
(***************************************************************************)
(* One backend client (pkg/clients/mem0, cognee, graphiti or letta) used   *)
(* by several goroutines at once: its operations, step by step, over its   *)
(* circuit breaker and, for Letta, its sync.Once-guarded agent cache.      *)
(* Steps of different callers interleave freely; a caller that has passed  *)
(* Allow() is at its exchange, and the breaker may trip, close or be       *)
(* probed before its reply comes.                                          *)
(***************************************************************************)
EXTENDS CircuitBreaker, ClientOperations, FiniteSets

CONSTANTS
    Callers,   \* goroutines sharing the client
    Clients    \* which of the four clients a behaviour may be about

ASSUME ClientsAssumption ==
    Clients \subseteq {"mem0", "cognee", "graphiti", "letta"}

VARIABLES
    client,       \* the client of this behaviour, fixed
    todo,         \* todo[c]: the steps c's operation has still to take
    agentless,    \* agentless[c]: c's operation was given no agent id
    owed,         \* owed[c]: what the backend has not carried out of what
                  \* c's operation claims on returning nil
    once,         \* ensureAgentOnce: "fresh", "running" or "done"
    owner,        \* the callers inside ensureAgentOnce's function
    ensureErr,    \* c.ensureAgentErr # nil
    agents,       \* agents named helixmemory at the Letta server
    recovered,    \* TRUE once the backend is back for good
    doomed        \* callers whose request left before the recovery

letta == <<once, owner, ensureErr, agents>>
vars == <<state, failures, sinceFailure, halfOpenSuccess, client, todo,
          agentless, owed, once, owner, ensureErr, agents, recovered, doomed>>

\* A fresh client; the server may hold the agent from an earlier process.
Init ==
    /\ NewCircuitBreaker
    /\ client \in Clients
    /\ todo = [c \in Callers |-> <<>>]
    /\ agentless = [c \in Callers |-> FALSE]
    /\ owed = [c \in Callers |-> 0]
    /\ once = "fresh"
    /\ owner = {}
    /\ ensureErr = FALSE
    /\ agents \in {0, 1}
    /\ recovered = FALSE
    /\ doomed = {}

-----------------------------------------------------------------------------
Busy(c) == todo[c] # <<>>

\* c's next step is s.
At(c, s) == Busy(c) /\ Head(todo[c]) = s

InExchange(c) == Busy(c) /\ Head(todo[c]) \in Exchange

\* c takes its step and has rest left to do; with nothing left it returns nil.
Continue(c, rest) ==
    /\ todo' = [todo EXCEPT ![c] = rest]
    /\ UNCHANGED <<agentless, owed>>

\* Faulty variant of ReturnErr: the Once is not spent by an error.  Unused.
ReturnErrHoldingOnce(c) ==
    /\ todo' = [todo EXCEPT ![c] = <<>>]
    /\ agentless' = [agentless EXCEPT ![c] = FALSE]
    /\ owed' = [owed EXCEPT ![c] = 0]
    /\ UNCHANGED <<once, owner, ensureErr>>

\* c returns an error, which claims nothing.  An error returned inside
\* ensureAgentOnce is cached there, and the Once is spent.
ReturnErr(c) ==
    /\ todo' = [todo EXCEPT ![c] = <<>>]
    /\ agentless' = [agentless EXCEPT ![c] = FALSE]
    /\ owed' = [owed EXCEPT ![c] = 0]
    /\ IF c \in owner
       THEN once' = "done" /\ owner' = owner \ {c} /\ ensureErr' = TRUE
       ELSE UNCHANGED <<once, owner, ensureErr>>

\* The steps of op that are in S.
CountIn(op, S) == Cardinality({i \in DOMAIN op : op[i] \in S})

\* A caller with no operation under way starts one.
Start(c, op) ==
    /\ ~Busy(c)
    /\ todo' = [todo EXCEPT ![c] = op]
    /\ agentless' = [agentless EXCEPT ![c] = CountIn(op, {"ensure"}) > 0]
    /\ owed' = [owed EXCEPT ![c] = CountIn(op, Mutating)]
    /\ UNCHANGED <<breakerVars, client, letta, recovered, doomed>>

AllowPasses(c) ==
    /\ At(c, "allow")
    /\ AllowTrue
    /\ Continue(c, Tail(todo[c]))
    /\ UNCHANGED <<client, letta, recovered, doomed>>

AllowRejects(c) ==
    /\ At(c, "allow")
    /\ AllowFalse
    /\ ReturnErr(c)
    /\ UNCHANGED <<client, agents, recovered, doomed>>

-----------------------------------------------------------------------------
(* EnsureAgent.  sync.Once lets one caller in and blocks the others until    *)
(* its function has returned, whatever it returned.                          *)

\* Faulty variant of EnterOnce: nobody waits for the caller inside.  Unused.
EnterTwice(c) ==
    /\ At(c, "ensure")
    /\ once \in {"fresh", "running"}
    /\ once' = "running"
    /\ owner' = owner \union {c}
    /\ Continue(c, EnsureList \o Tail(todo[c]))
    /\ UNCHANGED <<breakerVars, client, ensureErr, agents, recovered, doomed>>

EnterOnce(c) ==
    /\ At(c, "ensure")
    /\ once = "fresh"
    /\ once' = "running"
    /\ owner' = owner \union {c}
    /\ Continue(c, EnsureList \o Tail(todo[c]))
    /\ UNCHANGED <<breakerVars, client, ensureErr, agents, recovered, doomed>>

\* Faulty variant of UseCachedAgent: the cached error is not looked at.  Unused.
UseAgentUnchecked(c) ==
    /\ At(c, "ensure")
    /\ once = "done"
    /\ Continue(c, Tail(todo[c]))
    /\ UNCHANGED <<breakerVars, client, letta, recovered, doomed>>

\* The Once is spent: every caller gets the cached id or the cached error.
UseCachedAgent(c) ==
    /\ At(c, "ensure")
    /\ once = "done"
    /\ IF ensureErr
       THEN ReturnErr(c)
       ELSE Continue(c, Tail(todo[c])) /\ UNCHANGED <<once, owner, ensureErr>>
    /\ UNCHANGED <<breakerVars, client, agents, recovered, doomed>>

LeaveOnce(c) ==
    /\ once' = "done"
    /\ owner' = owner \ {c}
    /\ UNCHANGED ensureErr

\* ListAgents answered: the agent is there, or has to be created.
ListAnswered(c) ==
    IF agents > 0
    THEN LeaveOnce(c) /\ todo' = [todo EXCEPT ![c] = Tail(@)]
    ELSE /\ todo' = [todo EXCEPT ![c] = EnsureCreate \o Tail(@)]
         /\ UNCHANGED <<once, owner, ensureErr>>

-----------------------------------------------------------------------------
\* What can come back for exchange x of c: anything while the outage lasts or
\* when the request left during it; afterwards an answer, a 404 only for the
\* operations that take one as an answer.
Replies(c, x) ==
    IF recovered /\ c \notin doomed
    THEN {"ok"} \union (IF x \in {"lookup", "remove"} THEN {"notFound"} ELSE {})
    ELSE Reply

\* Whether the backend carried out exchange x, given what the client saw; a
\* request that got no reply may have been carried out or not.  Removing what
\* is not there counts.
CarriedOut(x, r) ==
    CASE r \in {"ok", "garbled"}          -> {TRUE}
      [] r = "lost"                       -> BOOLEAN
      [] r = "notFound" /\ x = "remove"   -> {TRUE}
      [] OTHER                            -> {FALSE}

\* The client goes on to its next step after exchange x.
Proceed(c, x) ==
    CASE x = "list"   -> ListAnswered(c)
      [] x = "create" -> LeaveOnce(c) /\ todo' = [todo EXCEPT ![c] = Tail(@)]
      [] OTHER        -> /\ todo' = [todo EXCEPT ![c] = Tail(@)]
                         /\ UNCHANGED <<once, owner, ensureErr>>

\* c's exchange ends well enough for its operation to go on or to return nil.
Answered(c) ==
    /\ InExchange(c)
    /\ LET x == Head(todo[c]) IN
       \E r \in Replies(c, x) : \E done \in CarriedOut(x, r) :
          /\ \/ /\ Verdict(x, r) = "success"
                /\ RecordSuccess
                /\ Proceed(c, x)
             \/ /\ Verdict(x, r) = "pending"
                /\ UNCHANGED breakerVars
                /\ Proceed(c, x)
             \/ /\ Verdict(x, r) = "accepted"
                /\ RecordSuccess
                /\ todo' = [todo EXCEPT ![c] = <<>>]
                /\ UNCHANGED <<once, owner, ensureErr>>
          /\ owed' = IF x \in Mutating /\ done
                     THEN [owed EXCEPT ![c] = @ - 1] ELSE owed
          /\ agents' = IF x = "create" /\ done THEN agents + 1 ELSE agents
    /\ doomed' = doomed \ {c}
    /\ UNCHANGED <<client, agentless, recovered>>

\* c's exchange ends its operation with an error.
Denied(c) ==
    /\ InExchange(c)
    /\ LET x == Head(todo[c]) IN
       \E r \in Replies(c, x) : \E done \in CarriedOut(x, r) :
          /\ \/ Verdict(x, r) = "missing" /\ RecordSuccess
             \/ Verdict(x, r) = "failure" /\ RecordFailure
             \/ Verdict(x, r) = "unrecorded" /\ UNCHANGED breakerVars
          /\ agents' = IF x = "create" /\ done THEN agents + 1 ELSE agents
    /\ ReturnErr(c)
    /\ doomed' = doomed \ {c}
    /\ UNCHANGED <<client, recovered>>

TimePasses ==
    /\ Tick
    /\ UNCHANGED <<client, todo, agentless, owed, letta, recovered, doomed>>

\* The outage ends for good; replies to requests already sent may still fail.
Recover ==
    /\ ~recovered
    /\ recovered' = TRUE
    /\ doomed' = {c \in Callers : InExchange(c)}
    /\ UNCHANGED <<breakerVars, client, todo, agentless, owed, letta>>

StepOf(c) ==
    \/ AllowPasses(c)
    \/ AllowRejects(c)
    \/ EnterOnce(c)
    \/ UseCachedAgent(c)
    \/ Answered(c)
    \/ Denied(c)

Next ==
    \/ \E c \in Callers : \E op \in Operations(client) : Start(c, op)
    \/ \E c \in Callers : AllowPasses(c)
    \/ \E c \in Callers : AllowRejects(c)
    \/ \E c \in Callers : EnterOnce(c)
    \/ \E c \in Callers : UseCachedAgent(c)
    \/ \E c \in Callers : Answered(c)
    \/ \E c \in Callers : Denied(c)
    \/ TimePasses
    \/ Recover

Spec == Init /\ [][Next]_vars

\* Time passes; the application keeps calling; every operation goes on, an
\* exchange because the http.Client has the request timeout.
Fairness ==
    /\ WF_vars(TimePasses)
    /\ \A c \in Callers : WF_vars(\E op \in Operations(client) : Start(c, op))
    /\ \A c \in Callers : WF_vars(StepOf(c))

FairSpec == Spec /\ Fairness

-----------------------------------------------------------------------------
TypeOK ==
    /\ BreakerTypeOK
    /\ client \in Clients
    /\ todo \in [Callers -> Seq(Step)]
    /\ agentless \in [Callers -> BOOLEAN]
    /\ owed \in [Callers -> Nat]
    /\ once \in {"fresh", "running", "done"}
    /\ owner \subseteq Callers
    /\ ensureErr \in BOOLEAN
    /\ doomed \subseteq Callers

\* However many callers find no agent at once, EnsureAgent leaves the server
\* with one helixmemory agent at the most.
OneAgent == agents <= 1

\* An operation that was given no agent id talks to the agent's URL only when
\* the agent has been found or created.
AgentKnownBeforeUse ==
    \A c \in Callers :
       agentless[c] /\ InExchange(c) /\ c \notin owner =>
          once = "done" /\ ~ensureErr

\* An operation that returned nil had every one of its mutating requests
\* carried out by the backend, garbled replies and swallowed cognify errors
\* notwithstanding.
AcknowledgedIsApplied ==
    \A c \in Callers : ~Busy(c) => owed[c] = 0

\* Every operation returns: callers that wait for the Once, too.
OperationsReturn == \A c \in Callers : Busy(c) ~> ~Busy(c)

\* docs/guides/architecture.md:278, "Backend recovers after outage: Circuit
\* breaker transitions to half-open, then closed".
BreakerRecovers == recovered ~> [](state = "Closed")

\* The same, except for a Letta client whose EnsureAgent failed.
BreakerRecoversWithAgent ==
    recovered ~> [](state = "Closed" \/ ensureErr)
=============================================================================
