# HelixMemory in TLA+

TLA+ modules of HelixMemory's core: the circuit breaker and the four backend
clients behind it, the unified provider and the fusion engine that write to
several backends at once, the consolidator of their answers, the local store,
and the background workers. `MemoryStore` says what an application may rely on,
and the provider and the engine are shown to implement it. TLC model-checks all
of this on small instances; TLAPS proves the safety properties of all its parts,
both refinements, and the measures by which their operations come to an end, for
every value of their constants.
`PROJECT.json` maps every definition to the lines it models, and lists the
runs, the hazards, the theorems and what was found to be wrong.

Contents: [the system](#1-the-system), [modules](#2-the-modules),
[runs](#3-the-runs), [findings](#4-findings), [proofs](#5-proofs),
[what is left out](#6-what-is-not-modelled), [plan](#7-plan).

To check: `tlc -config MCBreakerCalls.cfg MCBreakerCalls.tla`, and
`tlapm BreakerCallsProofs.tla`.

## 1. The system

HelixMemory is a Go library that offers an application one memory store made of
four memory services, reached over HTTP. An application holds one
`UnifiedMemoryProvider` (directly, or through `MemoryStoreAdapter`) and calls it
from many goroutines.

    application --> MemoryStoreAdapter --> UnifiedMemoryProvider --> router
                                                 |
                 mem0 client   cognee client   letta client   graphiti client
                      |              |              |               |
                  circuit        circuit        circuit         circuit
                  breaker        breaker        breaker         breaker
                      |              |              |               |
                     HTTP           HTTP           HTTP            HTTP

    consolidation.Engine, quality_loop.Loop: a goroutine each, over the provider
    fusion.FusionEngine: another composition of three clients, with a router and
      a consolidator; the provider uses its Fuse alone
    features/*: mesh, snapshots, temporal, procedural, ... over a MemoryProvider

| Component | State | Operations | Interacts by |
|---|---|---|---|
| `types.CircuitBreaker` | state, failures, lastFailure, halfOpenSuccess, under a mutex | Allow, RecordSuccess, RecordFailure, Reset | called by every client operation before and after its HTTP exchange |
| Mem0, Cognee, Graphiti, Letta clients | the breaker; Letta: agent id and error cached by a `sync.Once` | Add, Get, Update, Delete, Search, ... (54 operations in all) | HTTP, with a request timeout; breaker |
| `UnifiedMemoryProvider` | map of registered providers under an RWMutex | Add with fallback, Update, Delete, Get, Search, RegisterProvider | calls clients, most often without the lock |
| `routing.Router` | none | RouteWrite, RouteRead | called by the provider |
| `MemoryStoreAdapter` | none | conversions of entries | calls the provider |
| `consolidation.Engine`, `quality_loop.Loop` | running, stopCh, statistics, under a mutex | Start, Stop, loop, RunOnce / Analyze | goroutine with ticker, context and stop channel |
| `fusion.FusionEngine`, `fusion.Router` | clients and their health flags under a mutex | Store, StoreWithAgent, CreateKnowledgeGraph, Retrieve, GetHistory, RetrieveForAgent, QueryKnowledgeGraph, Delete, HealthCheck | goroutines per system, or one system after another |
| `fusion.Consolidator` | seenIDs, seenContent, under a mutex taken per entry | FuseResults, Deduplicate | called by the engine and, through Fuse, by the provider |
| `localstore.SQLiteStore` | a table; `wmu` for writers | Add (upsert), Update, Delete, List, Search, Close | one database file |
| `mesh`, `snapshots`, `temporal`, `procedural`, `context_window`, `confidence` | maps under mutexes, or none | see source | a MemoryProvider |
| config, infra, metrics, i18n, other features | configuration, I/O, text | | |

What is hard in it, and the properties that make each part correct:

* **Breaker.** Its methods are atomic, an operation is not: a verdict may reach
  the breaker in a later state than the one that admitted the request, from a
  request sent before a trip, or not at all (a reply that does not decode). It
  must trip on the threshold of *consecutive* failures and no other, be probed
  only after a quiet timeout, close only by a probation of its own period, and
  close for good once the backend is back.
* **Clients.** An operation is a sequence of breaker calls and exchanges any of
  which may fail; the request may have been carried out although its reply is
  lost; some failures are swallowed (cognify). nil must mean done. Letta's
  callers without an agent id meet in a `sync.Once` held across two exchanges:
  one agent, nobody stuck, and a way back after an outage.
* **Provider.** A write visits several backends, which fail independently and
  in ambiguous ways, while backends register and other callers write. What was
  acknowledged must be held, and held once; what was deleted must stay deleted;
  an update must reach the backend that owns the memory; the fallback must
  give every other backend its turn although it copies nothing and holds the
  lock over network calls. A read must find a memory where a fallback put it.
* **Workers.** Start, Stop, cancellation and a loop late in noticing any of
  them: no close of a closed channel, no worker that says it runs and does not,
  no loop that outlives Stop.
* **Fusion engine and consolidator.** A Store goes to several systems at once and
  may succeed at some of them, as flags that health checks turn meanwhile let it;
  a read has to find what is left; errors go through channels read only after
  all goroutines are done. Entries come in any order, and resemblance is not
  transitive: the best of each group must be left. Deduplications share a cache,
  which is to make no difference to their results, and does.
* **Local store.** A write that returned an error may have committed, a process
  may die between the two, and rows are listed page by page while others write:
  one row per memory, no page missing one, no time going back, although the
  times may be the application's.
* **Features.** Read-modify-write over a provider, interval tests, budgets.

`PROJECT.json` lists the hazards at their lines, with the properties aimed at
each.

## 2. The modules

    CircuitBreaker ---+--> BreakerCalls  --> BreakerCallsProofs, MCBreakerCalls
                      +--> BackendClient --> BackendClientProofs, MCBackendClient
    ClientOperations -+
    MemoryStore --(INSTANCE)--+--> UnifiedProvider --> UnifiedProviderProofs,
                              |         |              MCUnifiedProvider
                              |         +------------> ProviderReads --> MCProviderReads,
                              |                                          ProviderReadsProofs
                              +--> FusionEngine -----> FusionEngineProofs, MCFusionEngine
    Consolidator --------> ConsolidatorProofs, MCConsolidator
    LocalStore ----------> LocalStoreProofs, MCLocalStore
    WorkerLoop ----------> WorkerLoopProofs, MCWorkerLoop

An operator marked *Faulty variant ... unused* is a plausible bug of the
definition that follows it. No action uses it. It documents what the properties
are worth: put in place of the definition it varies, it breaks the property
that `PROJECT.json` ("mutants") pairs it with.

### CircuitBreaker, BreakerCalls (`pkg/types/circuit_breaker.go`)

`CircuitBreaker` declares the fields and one action per method, since each
method runs under the mutex from beginning to end. Allow is two actions, one for
each result. `lastFailure` is represented by its age `sinceFailure`, which stops
growing at `Timeout + 1`: the code only asks whether the age exceeds the timeout.
`failures` saturates at `FailureCap`, which is assumed to be at least the
threshold, so that every comparison of the code has its real result. The
threshold may be zero or negative, as an environment override can make it.

`BreakerCalls` adds the callers: `Admit`/`Refuse` (Allow), then `Succeed`,
`Fail` or `Abandon` (an exchange whose reply records a success, a failure, or
nothing). `Reset`, the clock (`Pass`) and the backend's recovery (`Recover`)
fall anywhere between them. The history variables `streak`, `earned`, `calm`,
`stale` and `doomed` record what happened independently of the breaker's
fields; the properties compare the two.

### ClientOperations, BackendClient (`pkg/clients/*`)

`ClientOperations` gives each operation as the sequence of steps at which it
touches shared state (`allow`, `ensure`, an exchange), and for each kind of
exchange what the client makes of each reply (`Verdict`). This is where the
clients differ: a 404 of Get is an answer that counts as a success with Mem0,
Cognee and Graphiti and a failure with Letta; a garbled reply to Cognee's /add
is a success, to a search an error that records nothing; a failed cognify is
ignored; Cognee's Update is a Delete followed by an Add, each with its own Allow.

`BackendClient` runs these sequences for several callers of one client over one
breaker. `Answered` and `Denied` are the ends of an exchange; `CarriedOut` says
whether the backend did what the exchange asked, which after a lost reply is
open. `EnterOnce`, `UseCachedAgent`, `ListAnswered` and `LeaveOnce` are
`EnsureAgent` under its `sync.Once`, with the error it caches. `owed[c]` is what
the backend has not carried out of what c's operation claims.

External parts: the replies of a backend and the recovery are the environment's.
After a recovery an operation gets an answer, and a 404 only if its client takes
a 404 for an answer: an application that keeps asking Letta for ids it does not
have keeps its circuit open, which no document says it does not.

### MemoryStore, the promise (`pkg/types/types.go`, MemoryProvider)

What an application that writes memories may rely on, whatever stands behind the
interface. A memory is stored as any number of copies, each at a place. Only a
call under way changes what is stored: an Add creates copies of its own memory,
a Delete removes the one copy it names, a change (an Update) may do both. A call
may end with an error whatever it did; it returns nil only when it has done what
it was asked. A copy that was removed never comes back. `UnifiedProvider` and
`FusionEngine` each end with an `INSTANCE MemoryStore` whose `WITH` says what
`stored`, `dead`, `calls` and `gone` are there, and `KeepsPromise` is
`Promise!Spec`. The mapping keeps apart the ids that a provider's Update makes
(`Place`): a rewritten memory is another copy.

### UnifiedProvider (`pkg/provider/unified.go`, `adapter.go`, `pkg/routing/router.go`)

The writes of the provider by concurrent callers. `op[c]` is a caller's place in
its operation; each call to a backend is one step, with the contract
`BackendClient` checks: nil means done, an error means done or not.

| Action | Code |
|---|---|
| `RegisterAsks`, `Register` | RegisterProvider: waiting for `u.mu`, and having it. A waiting writer keeps new readers out (`MayRLock`) |
| `Add` | RouteWrite and the lookup of its target under RLock |
| `AddPicks` | the target is not registered: any other provider, in map order |
| `AddSucceeds`, `FirstFails` | the call to the first backend |
| `FallbackLocks`, `FallbackFails`, `AddFails` | the fallback, with RLock held over its calls by `defer` |
| `Update` | `entry.Source`, if registered, or else all backends |
| `UpdateSucceeds`, `UpdateFailsAt`, `UpdateFails` | one backend after another until one returns nil |
| `CogneeDeletes`, `CogneeAdds`, `CogneeFailsToAdd` | the call to Cognee's Update, which is not atomic |
| `Delete`, `DeleteDoneAt`, `DeleteFailsAt`, `DeleteReturns` | every backend in turn; nil only if none failed |

`held` is what the backends hold: an entry as added, `edited` in place under the
same id, or `rewritten` under a new one, which Graphiti's and Cognee's Update
make. An Update's Source is either the backend of the id or `fusion`, which the
adapter sets.

### ProviderReads (`pkg/provider/unified.go`)

Adds readers to `UnifiedProvider`, whose steps go on between theirs. A read copies
the registered backends of its route under RLock (`Search`, `Get`), then gets the
answer of each at a time of its own (`SearchAnswers`; `GetFinds`, `GetMisses`) or an
error it does not report (`ReadFails`).

What a read finds depends on more than the provider. Letta's Add posts the entry to
the messages of the entry's agent, or of its own, and its Search and Get read the
archive of its own; Graphiti's Add makes an episode, and its reads look at nodes and
edges. Cognee's Get asks for what was added, but its Search looks in the graph, which
an acknowledged Add may have failed to extend (cognify). `LooksWhereAdded` says who
reads what it was given: Mem0 for a Search, Mem0 and Cognee for a Get. Those are
*taken* to find what they hold: that a query matches, and that the limit of the
request leaves room, is the backend's business. The others may answer with any part
of what they hold. An id that Get is asked for is one that the backend gave the entry.

### WorkerLoop (`pkg/consolidation/consolidation.go`, `pkg/features/quality_loop/quality.go`)

Both files have the same Start, Stop and loop. Loops, channels and contexts are
numbered by the Start that made them. The loop reads `e.stopCh` without the
mutex each time it enters its select: it may get the value of any Start since
the last one it is bound to have seen (`seen`), which is the set of outcomes of
that data race.

### FusionEngine (`pkg/fusion/engine.go`, `pkg/fusion/router.go`)

One task per caller with the sets of systems whose goroutines have still to look
(`ask`), whose client is being called (`call`) and that `failed`. `Launch` reads
the health flag, or finds that there is no client; the call ends later, in
`Stores`/`StoreFails`, `Answers`/`SearchFails` or `Deletes`/`DeleteFails`. The two
routings, `SelectSystemsForWrite` and `SelectSystemsForRead`, are modelled in full.
HealthCheck asks one system after another (`CheckAsks`) and writes the flag in a
step of its own (`SetHealth`), after another check may have written it.
StoreWithAgent returns nil whatever happened: its memories are held or not, and
are never in `acked`.

The other writes and reads are tasks of the same kind: CreateKnowledgeGraph a
store to Cognee alone, QueryKnowledgeGraph a retrieve from it, GetHistory and
RetrieveForAgent reads that call one system after another (`Before`).

FuseResults is represented by what it does to copies of one memory (`OneOfEach`);
`Consolidator` has its steps. A Search is taken to match all that its system holds,
which for Cognee and Letta includes that it looks where they add (see
ProviderReads): what a query matches is the backend's business, so that
`AnswerIsComplete` is about losing matches, not about finding them.

### Consolidator (`pkg/fusion/consolidator.go`)

FuseResults entry by entry, in any order: the best of each content (`KeepBest`),
then each of those merged into the first of the result it resembles (`Merge`,
`Merged`), then the limit (`Limit`, any entries, the scores being numbers the model
does not have). Resemblance is any symmetric relation: cosines above 0.92 are not
transitive. Deduplicate takes `cacheMutex` once to clear the cache (`ClearCache`)
and once per entry (`Look`), so that other calls come between. `seen` are the
entries of its slice that a call has looked at, `astray` those it dropped although
no earlier one of its own slice has their ID or content (`Repeats`).

### LocalStore (`pkg/localstore/sqlite_store.go`)

A write takes `wmu`, reads the clock (`Add`, `Update`, `Delete`) and executes one
statement, which commits (`AddCommits`, ...) or does not (`Fails`); a commit may
return an error all the same. `object[m]` is the Go object an application hands in
(`HandedIn`): new, with such times as the application has set, none or of the past,
or one that an earlier Add returned an error for. Add leaves the id in it, and the
times it had none for (`Given`), whatever it returns, so that handing it in again is
an upsert. That an application sets ids itself, or times of the future, is left out.
`Crash` takes the objects and leaves the file; `Close` and `Open` leave both. `List`
is the loop of an application that goes on from page to page until one is not full.

## 3. The runs

| Run | Configuration | What it shows |
|---|---|---|
| `breaker` | 3 callers, threshold 3, timeout 2, cap 4; 7,261 states | three invariants and the type, three action properties and two liveness properties of the breaker |
| `client` | 2 callers, each of the four clients, threshold 1, timeout 0; 49,222 states | `AcknowledgedIsApplied`, `OneAgent`, `AgentKnownBeforeUse`; operations return; the breaker recovers, unless EnsureAgent failed |
| `letta_stuck` | 1 caller, Letta | *violated:* `BreakerRecovers` |
| `worker` | 3 Starts; 4,789 states | no double close, running means a loop, Stop reaches every loop, cancellation ends a loop |
| `worker_orphan` | 2 Starts | *violated:* `StopHalts` |
| `provider` | 2 callers, Cognee, Letta, Graphiti, types fact and core, 1 memory, 2 changes; 863,007 states | `OneCopyUnlessLost`, `FallbackCoversAll`, `UpdateReachesSource`; implements MemoryStore |
| `provider_reads` | 2 callers and a reader, Mem0, Letta, type core, 1 change; 75,106 states | `ReadsAreComplete`; nobody waits for ever: operations return and registrations go through |
| `misrouted_update` | 1 caller, Letta, Graphiti | *violated:* `UpdateReachesOwner` |
| `engine` | 2 callers, Mem0, Cognee, 1 memory of type fact; 1,077,113 states | `RefusedIsNotHeld`, `AnswerIsComplete`, `EveryErrorFits`; implements MemoryStore |
| `local_store` | 2 callers, 2 memories, pages of 1, 2 times, 2 ids each, 2 rows, 1 listing, 1 restart; 4,117,175 states | `OneRowUnlessLost`, `PagesFitTogether`, `TimesMoveForward` |
| `consolidator` | 3 entries, contents and IDs, 3 confidences, limit 2, 2 callers; 90,724 states | `BestOfEachGroupStays`, `ExactWhenAlone` |
| `shared_cache` | the same | *violated:* `DropsOnlyDuplicates` |

### Bounds, and why they are enough

* **Callers.** In the breaker three callers allow a straggler from before the
  trip, a probe, and a third that arrives between them. In a client two callers
  meet in the Once (one inside, one waiting), or one is the straggler of the
  other. In the provider two callers are an Add in its fallback and another
  operation, or an Update and a Delete of one id; a third caller would only add
  another copy of an interaction.
* **Threshold, Timeout, FailureCap.** The breaker run has threshold 3, so that a
  count can be interrupted, and timeout 2, so that a failure can restart it
  halfway. The client run has threshold 1 and timeout 0: each failure trips the
  breaker and the next tick opens it for probing, so that every state of the
  breaker is met at every step of every operation. The counting itself is the
  breaker run's question.
* **MaxStarts** 3: a loop may sleep through a Stop and a Start, and a third loop
  be started beside an orphan.
* **MaxChanges** 2 Updates and Deletes, in any order and at once. One memory: the
  provider relates an operation to one id only, and operations on different
  memories share nothing but the registered map and the lock. Cognee, Letta and
  Graphiti are the three kinds of Update (delete and add; in place; add) and the
  two of Delete (a 404 is an error; or is not); `fact` is the type whose target,
  Mem0, is never registered.
* **An Add's memory** is added by one call at a time, and not again once an Add of
  it has had an effect: a retry is the application's, and each is a new memory to
  the code.

* **Engine.** A fact goes to Mem0 and Cognee, and is read from them. The second
  caller is a health check, a read or a Delete beside a Store. Letta is not
  configured: its goroutine would be a third like the others, and every
  StoreWithAgent and RetrieveForAgent goes without it. The proofs cover all three.
* **Provider reads.** The type goes to Letta, and a fallback puts the memory at Mem0,
  where a Search by type would not look; a change and the end of a registration fall
  anywhere in a read, which asks one backend after another. A second reader would
  share nothing with the first. Mem0 is the backend that owes complete answers to
  both reads; Cognee's, to a Get, are proved.
* **Local store.** **MaxTime** 2: rows of the same time, and of different ones.
  **MaxIds** 2 per memory: the second is the one after a crash. **MaxRows** 2: a
  row comes in only while fewer are there. Pages of one row, offsets
  up to **MaxOffset** 2, so that a listing of two rows crosses pages, and completes,
  while rows come and go; **MaxListings** 1, since listings share nothing;
  **MaxRestarts** 1, since a crash leaves nothing but rows and lost objects.
* **Consolidator.** Three entries are the smallest case in which resemblance is not
  transitive, and in which the order decides; all relations on them are taken, and
  all contents and confidences. Two calls are enough
  for one to clear the cache under the other. `MaxChanges` bounds the application,
  not the code.

`CHECK_DEADLOCK FALSE` is set where the system may really stop: a worker that is
neither started nor stopped again, a provider whose callers have nothing to do, a
local store that is closed for good. The breaker, client, engine and consolidator
runs check for deadlock.

### Fairness, and why the code justifies it

* An exchange ends (`Succeed`/`Fail`/`Abandon`, `StepOf`): each client gives its
  `http.Client` the request timeout. Nothing is assumed of its result, but for a
  request sent after the recovery, which is answered. Recovery itself is not
  assumed; the properties say what follows it.
* Time passes. The application keeps calling (`Admit`, `Start`), in the runs about
  recovery only: nothing but a call probes a breaker.
* A goroutine that can take the lock takes it: Go's mutexes do not starve.
* A loop's select with several ready cases takes one at random, so that a case
  that is ready again and again is taken in the end (strong fairness of
  `SeeStop`/`SeeCancel`). No fairness for Start, Stop, Cancel, or for starting an
  operation of the provider.

### What the properties mean

`BreakerCalls`: `TripNeedsConsecutiveFailures` bounds the trip from one side;
the other, `ClosedBelowThreshold`, is a theorem. `OpenHoldsOnlyStragglers` says that nobody slips in
after the trip. `ProbationCountsThisPeriod` and `ClosedOnlyByProbation` say that
a success of an earlier period, or of a straggler, does not close a circuit on
credit (a straggler that succeeds *while the circuit is half-open* does count,
and the properties allow it: the code cannot tell). `ProbeOnlyAfterCalm` covers
failures recorded while open. `OpenEventuallyProbed` and `RecoversForGood` are
the promise of recovery; the latter with `doomed` requests of the outage still
returning failures afterwards.

`BackendClient`: `AcknowledgedIsApplied` compares what an operation claims with
what the backend did, across the two halves of Cognee's Update and the swallowed
errors. `OneAgent` and `AgentKnownBeforeUse` are about the Once.
`BreakerRecoversWithAgent` is `BreakerRecovers` without the flaw the
`letta_stuck` run shows.

`UnifiedProvider`: `KeepsPromise` and `OneCopyUnlessLost` relate what the
application was told to what the backends hold. By the first an acknowledged Add was
stored and an acknowledged Delete removed its copy, nothing else ever touches a
copy, and no late fallback or Update brings a removed one back. It promises nothing
of other copies: that a fallback leaves a second one only after a lost reply is the
second property. `FallbackCoversAll` is why a failed Add means that all backends
failed; its exception is a target registered between the Add's lookup and its
fallback, which the code skips although it never asked it. `UpdateReachesSource` is
`UpdateReachesOwner` for entries that name their backend, the case in which the code
keeps its promise; its exception is a Delete that a caller has sent the backend
(`deleted`), and not the one that Cognee's Update begins with (`removed` has both),
so that it is about the re-add. `NobodyWaitsForEver` is about the lock a fallback
holds over its calls.

`ProviderReads`: `ReadsAreComplete` is what a Search owes to a memory that a
fallback stored at a backend its type is not routed to, and a Get to an id; that
Search goes to *all* sources whatever the types is what makes it true. It is about
the provider: it speaks of the backends that read where they add, as said above, and
of those that answer.

`FusionEngine`: `KeepsPromise` and `RefusedIsNotHeld` say what nil and an error mean
after a partly failed Store, lost replies apart. A Delete that returns nil for an
id of Letta's promises nothing: the code does not ask Letta, and the refinement
mapping leaves those ids out of `gone`. `AnswerIsComplete` joins the two routings:
a read that asks every system a memory was written to, and that none of them
fails, returns it, whichever copy there is. It says nothing of a read that does
not ask them all; a procedural memory is written to Letta alone, which a request
without an agent never asks. Copies at other systems have other ids, and stay.
`EveryErrorFits` is why no goroutine is left behind on an error channel.

`Consolidator`: `BestOfEachGroupStays` is about whole groups, connected by way of
others, since two entries that resemble each other may both stay or not, depending
on the order: of every set of entries that none outside it resembles (`Apart`), one
stays that is as confident as any. `ExactWhenAlone` is the contract of Deduplicate
for a call that no other overlaps, whatever earlier calls left in the cache. With
another call the contract fails: `DropsOnlyDuplicates` is the finding.
`ExactWhenAlone` is not a loophole for it, but the part that a sequential test would
rely on.

`LocalStore`: `OneRowUnlessLost` rests on Add leaving the id in the object before it
executes. `PagesFitTogether` says what paging by offset gives: nothing missed unless
a row was removed, nothing twice unless a row came in that is older than the clock:
that of an object handed in again, or with a `created_at` that the application has
set (`ComesInOld`). These exceptions are of the code, whose order is by
`created_at`; what is left rests on the clock being read under the mutex.
`TimesMoveForward` names the one write that sets `updated_at` back.

`WorkerLoop`: `StopHaltsUncancelled` and `StopReachesEveryLoop` are `StopHalts`
without the cancellations that break it; both cover loops that slept through
earlier Stops. `RunningHasLoop` does hold with cancellations.

## 4. Findings

Four places where the code does something else than it, or its documentation,
says. Each is a run in which TLC finds the statement violated; `PROJECT.json`
quotes the statements.

1. `letta_stuck`: an outage during the first EnsureAgent is cached for ever. A
   Letta client used without agent ids returns that error from then on, and its
   breaker, once half-open, never closes.
2. `worker_orphan`: a cancelled loop clears `running` for whichever loop it stands
   for by then; the new loop is out of Stop's reach and a third may run beside it.
3. `misrouted_update`: an Update with an unregistered Source (any Update through
   the adapter) goes to backends in map order until one accepts, and Graphiti and
   Cognee accept any id.
4. `shared_cache`: Deduplicate drops entries that are no duplicates of anything in
   their slice, when another call has put their like into the shared cache. Nothing
   but tests calls it in this repository; it is exported.

Two more are plain from the code, and have no run. A half-open circuit admits
every caller (`CircuitBreaker!AllowTrue`) where the architecture guide speaks of a
limited number of requests. The provider's Delete returns an error as soon as one
backend returned one (`DeleteReturns`), where the comment above that line says
that one success is enough.

## 5. Proofs

TLAPS checks the following for every value of the constants that satisfies the
modules' assumptions: any set of callers and any number of restarts, not the
sizes of the runs.

**BreakerCallsProofs**, from `BreakerAssumption` (the cap is not below the
threshold; the threshold is any integer). The properties are not inductive alone:
they speak of history, the code decides by its fields. `IInv` adds
`FieldsMatchHistory`, which says that the two agree where the code looks:
`sinceFailure = calm` always, and `failures = streak` in a closed circuit (in the
other states they differ: an open circuit ignores successes). `InitEstablishes` and
`StepPreserves` prove `IInv` inductive; the invariants are its conjuncts, and the
action properties follow from it step by step (`TripStep`, `ProbeStep`,
`CloseStep`). Three more theorems are what recovery rests on. While the circuit
stays open nobody is admitted, and only a straggler that fails restarts the timeout,
which it can do once (`ProbeComesNearer`). After the recovery a trip uses up a
request of the outage (`OutageWearsOff`), so that there are no more trips than such
requests; and a circuit that is closed when none is left never opens again
(`SettledForGood`).

**WorkerLoopProofs**, from `WorkerAssumption`. `IInv` adds `ClearsForCause` (only a
cancelled loop clears the flag), `RunningWasStarted` and `OpenIsLatest` (without
cancellations the open channels are that of the running loop, or none).
`RunningIsTrue` holds although a cancelled loop may clear another's flag, since
clearing only makes it false. `StopReaches` follows from `OpenIsLatest` and the type
invariant, by which no loop waits on a channel older than its own.

**UnifiedProviderProofs**, from `ProviderAssumption`. `IInv` adds, for each caller,
what its place in an operation implies: the memory of an Add under way has not been
acknowledged and, unless it is lossy, has no id yet, and the first backend asked has
failed it before another is (`AddFits`); a change works on an id that is known
(`ChangeFits`); the backends that a fallback has neither asked nor will ask are at
most its target (`FallbackCovers`, which `FallbackCoversAll` restates).
`OneAddOfEach` says that no two Adds of one memory are under way, `IdsFit` that ids
and copies are of registered backends and that what was removed is known, and
`OneIdUnlessLost` is `OneCopyUnlessLost` without a cardinality, on which the prover
cannot compute. `UpdateLands` is what `UpdateReachesSource` follows from: what
Cognee's Update deleted is there again under another id, which nothing removes. Each
action has a lemma for the parts it can disturb.

**FusionEngineProofs**, from `EngineAssumption`. `IInv` says where copies come from
(`CopiesWereWritten`, `AnswersWereWritten`), which systems a Store under way has
still to hear from or has heard fail (`WritesFit`), that an acknowledged memory is
held by a selected system or was removed from it (`StoresCover`), that a read under
way already has, or has still to ask, a copy of each memory it owes (`ReadsFit`),
that a Delete has removed its id from every system that no longer has to answer
(`DeletesFit`), and that no system is in two stages of one call (`StagesFit`).
`ErrorsFit` is a counting argument: the failed systems of a Store that is not joined
are a proper subset of the selected ones.

`OperationsRunOut` and `NobodyIsStuck` are what `wg.Wait()` needs: a task has
twice its systems to ask, plus those it is calling, plus the return, as steps to
take (`Work`); each of its steps leaves fewer, nobody else's adds one, and there
always is one to take: a goroutine that has its turn, and room for its error. The
provider has such a measure too, in which an Add still to come to its fallback
counts every backend, since any may be registered by then.

In both, **PromiseKept** is the refinement: the mapped initial states are initial
states of MemoryStore, and each action maps to a Proceed or Begin of its caller,
or to a stutter. The inductive invariant is needed for "never used again" (a copy
that is created is not among the removed) and for "was stored" at the nil.
**PromiseMeans** proves of `MemoryStore` alone that no copy is both stored and
removed, that an acknowledged removal was one, and that an acknowledged memory was
stored; with the refinement this holds of the provider and the engine
(`DeletesLast`, `PromiseIsUseful`). It is what an application gets from the promise,
and shows that the promise is not empty.

**LocalStoreProofs**, from `LocalStoreAssumption`. `IInv` ties rows to objects: the
id of a row is its key (`IdsAreKeys`); a row is that of its object, or of an
acknowledged Add, unless its memory is lost (`RowsAreKnown`); a write under way is
of an id that was given, an Add's that of its object, which no Add has been
acknowledged for (`WritesFit`); no time is later than the clock, and that of an
Update is the clock's (`TimesArePast`); and one caller at a time has the mutex
(`OneWriter`). `OneRow` follows.

`PagesFitTogether` needs a second layer, `PagesIInv`. The rank of a row is the
number of rows before it in List's order, by `created_at` and then by the place in
the table. The clock is read under the mutex, so that no row is later than one that
comes in with the clock's time: it comes last, and changes no rank. Only a removal
moves rows up, past an offset, and only an older row, that of an object handed in
again or with a `created_at` of the application (`ComesInOld`), can come before
others and move those down. `ListingFits` says, unless a row was removed (`less`),
that the rows of the start that are before the offset were seen, and, unless such an
older row came in (`back`), that the rows that were seen are before the offset. A
page that is not full holds the last rank (`LastPage`), since every rank below the
number of rows is taken (`RanksAreTaken`). `AddsAreNew` and `IdsWereGiven` say that
the id of a first Add is in no row and no listing. From `AddsAreNew` also follows
`MovesForward`: a first Add, whatever `updated_at` the application has set, finds no
row to set back.

**BackendClientProofs**, from `BreakerAssumption` and `ClientsAssumption`. An
operation is a sequence of steps, and `IInv` says of those still to come where the
agent is asked for (`AsksFirst`: once, after nothing but an Allow), that an ingest,
which may end an operation well, has no other mutating step behind it
(`IngestsLast`), and that the steps of EnsureAgent are those of the one caller
inside the Once (`Inside`, `Outside`, `OnceFits`). What is owed is the number of
mutating steps still to come, which is none at the end. `OneAgent` is inductive with
that: an agent is created only inside the Once, and only by whoever was told that
there is none. `OperationsRunOut` counts the steps of an operation, to which asking
for the agent may add twice two (`Work`); `NobodyIsStuck` says that the caller
inside the Once is at Allow or at an exchange, so that who waits for it does not
wait for one that waits.

**ConsolidatorProofs**, from `ConsolidatorAssumption`. `IInv` says of each phase
that every entry has in its group one no less confident among those that stay or are
still to be looked at (`Outdone`), that no content and no entry is there twice, and
of a call that is alone, that it has looked at what is in the cache, that what it
kept is there, and that it dropped nothing astray (`CallFits`); another call makes
it no longer alone, and no statement is left. A step that drops an entry has kept
one of its own group instead, since entries are merged only when they resemble each
other. No induction over how a group is connected is needed, since groups are given
as sets that nothing outside resembles. `FusesOneOfEach` is the special case that
`OneOfEach` in `FusionEngine` stands for: entries that resemble each other by their
content only, fewer than the limit.

**ProviderReadsProofs**, from `ProviderAssumption`, is built on the refinement: a
step of the provider is one of MemoryStore, so that a copy stays at its backend
until it is removed (`CopiesStay`), and what was acknowledged was stored. Of the
copies at backends that read where they add and have not failed it, a read therefore
has each it owes, or has still to ask its backend, or the copy was removed
(`Covers`); it asks all that are registered, and ids are of registered backends
only. What the definitions `LooksWhereAdded` and `SearchAnswers` take for granted of
Mem0 and Cognee is an assumption of these theorems. `ReadersKeepPromise`: none of
this is a step of what is stored.

**Only model-checked:** the liveness properties, since fairness and ENABLED are
beyond the prover. What does not depend on scheduling is proved: the measures
(`StepsRunOut`, `OpenRunsDown`, `TripsRunOut`), and that there is a step to take
(`SomebodyGoesOn`, `OnceIsLeft`). That these steps *are* taken is TLC's part. The
worker has no such measure: a loop may run one pass after another, and only the
fairness of its select ends it. The theorems are about the modules; that the modules
are the code is shown by the map alone.

## 6. What is not modelled

* Of the provider: GetHistory and Health, which walk the backends as Search does,
  and what only passes through it (core memory, temporal search,
  TriggerConsolidation). That Get and Delete of an id Letta does not have count as
  failures in its breaker: `BackendClient` has the verdict, and no document says
  what should happen.
* Health of the clients: it goes around the breaker. The keyword classifier of
  the router, bodies, URLs, validation of ids, conversions of entries.
* What RunOnce and Analyze do to entries: one step of the loop.
* Of the fusion engine: that the flags recover, which needs somebody to go on
  calling HealthCheck.
* Of the consolidator: scores, which are floating point, and MergeSimilar, which
  joins texts of one slice.
* Of the local store: Get, Search and Count, single statements that read; other
  orders of List than the default.
* The snapshots. CompareSnapshots compares ids, and `toMemoryEntry` of the Cognee and
  the Mem0 client makes a new uuid for each search result that has no id: what is
  reported as removed or added may have been there all the time, and no property of
  the comparison holds. The rest are look-ups under the manager's lock.
* What the backends make of what they are given: whether a search matches, and when.
  POSTs that create something and are not memories (CreateUser, CreateDataset, ...)
  have the verdict of a read, and `AcknowledgedIsApplied` makes no claim for them.
* The mesh is a registry under one lock and a filter over a Search. RecordOutcome
  of the procedural manager is a Get and an Update without a lock, and loses
  concurrent outcomes: a model would show no more than its source does. Temporal
  reasoner, context window and confidence scoring are arithmetic over the entries
  of one call, some of it floating point.
* Text features, configuration, docker, metrics and translations: nothing here
  for a model checker.

## 7. Plan

What could be added.

1. The provider over breakers instead of contracts: ids of other backends trip
   the breaker of a healthy Letta, whose Get takes a 404 for a failure.
2. RunOnce's passes over the entries of a provider that others write.
