--------------------------- MODULE UnifiedProvider ---------------------------
(***************************************************************************)
(* provider.UnifiedMemoryProvider (pkg/provider/unified.go): the writes    *)
(* Add, Update and Delete over the registered backends, by concurrent      *)
(* callers, and RegisterProvider.                                          *)
(*                                                                         *)
(* u.mu is a sync.RWMutex: a RegisterProvider that waits for it keeps new  *)
(* readers out.  Every operation copies what it needs under RLock and      *)
(* calls the backends without it, except the fallback of Add, which holds  *)
(* RLock over its calls.                                                   *)
(*                                                                         *)
(* A call to a backend's client is one step with the client's contract:    *)
(* nil means that the backend has done it (BackendClient!                  *)
(* AcknowledgedIsApplied), an error that it has or has not; any call may   *)
(* fail, the circuit breaker's refusals included.  Ranging over a map      *)
(* visits the backends in any order.                                       *)
(*                                                                         *)
(* A memory is known to the application by the id some backend gave it; an *)
(* id <<b, m>> is that of memory m at backend b.  Get, Search, GetHistory  *)
(* and Health change nothing here and are left out.                        *)
(***************************************************************************)
EXTENDS Integers, FiniteSets

CONSTANTS
    Backends,      \* sources whose clients may be registered
    Memories,      \* memories the application adds, each once
    MemoryTypes,   \* types of the entries it adds
    Callers,       \* goroutines calling the provider
    MaxChanges     \* bound: how many Updates and Deletes are called

AllSources == {"mem0", "cognee", "letta", "graphiti"}

ASSUME ProviderAssumption ==
    /\ Backends \subseteq AllSources
    /\ MaxChanges \in Nat

VARIABLES
    registered,    \* keys of u.providers
    registering,   \* RegisterProvider calls waiting for u.mu
    readers,       \* callers in a fallback, holding u.mu for reading
    op,            \* op[c]: where caller c is in its operation
    changes,       \* Updates and Deletes called so far
    held,          \* <<b, m, k>>: what the backends hold, by Text
    known,         \* <<b, m>>: ids an Add has led to
    acked,         \* memories whose Add returned nil
    lossy,         \* memories with an Add call that failed yet took effect
    removed,       \* ids a removal has been sent for to their backend,
    deleted,       \* and those for which a caller's Delete has sent it
    gone,          \* ids whose Delete returned nil
    updated        \* <<b, m, s>>: ids whose Update, with Source s, returned nil

history == <<known, acked, lossy, removed, deleted, gone, updated>>
vars == <<registered, registering, readers, op, changes, held, known, acked, lossy,
          removed, deleted, gone, updated>>

\* An entry as added; changed in place by an Update; and, under an id of its
\* own, one that an Update made, or that the same Add made twice.
Text == {"original", "edited", "rewritten", "again"}

\* routing.Router.RouteWrite.
RouteWrite(type) ==
    CASE type = "fact"                     -> "mem0"
      [] type \in {"graph", "procedural"}  -> "cognee"
      [] type \in {"core", "episodic"}     -> "letta"
      [] type = "temporal"                 -> "graphiti"
      [] OTHER                             -> "mem0"

\* Clients whose Delete takes a 404 for a failure.
MissIsError == {"letta"}

Stage == {"idle", "pick", "first", "lock", "fallback", "update", "readd", "delete"}

\* An operation at stage pc on memory mem.  at: the backend picked for an Add,
\* or that of the id; source: the routing target of an Add, or entry.Source;
\* left: the backends still to call; failed: those that failed an Add or Delete;
\* late: the target was not registered when the Add looked.
Task(pc, mem, at, source, left, late) ==
    [pc |-> pc, mem |-> mem, at |-> at, source |-> source, left |-> left,
     failed |-> {}, late |-> late]

Idle == Task("idle", "none", "none", "none", {}, FALSE)

Init ==
    /\ registered = {}
    /\ registering = {}
    /\ readers = {}
    /\ op = [c \in Callers |-> Idle]
    /\ changes = 0
    /\ held = {}
    /\ known = {}
    /\ acked = {}
    /\ lossy = {}
    /\ removed = {}
    /\ deleted = {}
    /\ gone = {}
    /\ updated = {}

-----------------------------------------------------------------------------
\* RLock does not block: no RegisterProvider is waiting.
MayRLock == registering = {}

Begin(c, task) ==
    /\ op[c].pc = "idle"
    /\ op' = [op EXCEPT ![c] = task]

\* Update and Delete take an id an Add has led to.
BeginChange(c, task) ==
    /\ changes < MaxChanges
    /\ changes' = changes + 1
    /\ <<task.at, task.mem>> \in known
    /\ Begin(c, task)

\* The operation returns, nil or an error.
Return(c) == op' = [op EXCEPT ![c] = Idle]

\* The operation goes on at stage pc, done with backend b, which may have
\* failed it.
PastBackend(c, b, pc) ==
    op' = [op EXCEPT ![c].pc = pc, ![c].left = @ \ {b}]

FailedBy(c, b, pc) ==
    op' = [op EXCEPT ![c].pc = pc, ![c].left = @ \ {b}, ![c].failed = @ \union {b}]

\* Backend b does, or may have done, what a client's Add asks of it.
Stores(b, m) ==
    /\ held' = held \union {<<b, m, IF <<b, m>> \in known THEN "again" ELSE "original">>}
    /\ known' = known \union {<<b, m>>}

MayStore(b, m) ==
    \/ /\ Stores(b, m)
       /\ lossy' = lossy \union {m}
    \/ UNCHANGED <<held, known, lossy>>

-----------------------------------------------------------------------------
(* RegisterProvider                                                          *)

\* It asks for the lock,
RegisterAsks(b) ==
    /\ b \notin registered \union registering
    /\ registering' = registering \union {b}
    /\ UNCHANGED <<registered, readers, changes, op, held, history>>

\* Faulty variant of Register: the lock is not waited for.  Unused.
RegisterUnlocked(b) ==
    /\ b \in registering
    /\ registered' = registered \union {b}
    /\ registering' = registering \ {b}
    /\ UNCHANGED <<readers, changes, op, held, history>>

\* and gets it when no fallback holds it.
Register(b) ==
    /\ b \in registering
    /\ readers = {}
    /\ registered' = registered \union {b}
    /\ registering' = registering \ {b}
    /\ UNCHANGED <<readers, changes, op, held, history>>

-----------------------------------------------------------------------------
(* Add                                                                       *)

\* RouteWrite, and the look-up of its target.
Add(c, m, type) ==
    /\ MayRLock
    /\ ~\E d \in Callers : op[d].mem = m /\ op[d].pc \in {"pick", "first", "lock", "fallback"}
    /\ m \notin acked \union {k[2] : k \in known}
    /\ LET target == RouteWrite(type) IN
       IF target \in registered
       THEN Begin(c, Task("first", m, target, target, {}, FALSE))
       ELSE Begin(c, Task("pick", m, "none", target, {}, TRUE))
    /\ UNCHANGED <<registered, registering, readers, changes, held, history>>

\* The target is not registered: any provider will do; with none the Add fails.
AddPicks(c) ==
    /\ op[c].pc = "pick"
    /\ MayRLock
    /\ \/ /\ registered = {}
          /\ Return(c)
       \/ \E b \in registered : op' = [op EXCEPT ![c].pc = "first", ![c].at = b]
    /\ UNCHANGED <<registered, registering, readers, changes, held, history>>

\* Faulty variant of AddSucceeds: the fallback goes on after a success.  Unused.
AddEverywhere(c) ==
    /\ \E b \in IF op[c].pc = "first" THEN {op[c].at} ELSE op[c].left :
          /\ Stores(b, op[c].mem)
          /\ IF op[c].left \ {b} # {}
             THEN UNCHANGED readers /\ op' = [op EXCEPT ![c].left = @ \ {b}]
             ELSE readers' = readers \ {c} /\ Return(c)
    /\ op[c].pc \in {"first", "fallback"}
    /\ acked' = acked \union {op[c].mem}
    /\ UNCHANGED <<registered, registering, changes, lossy, removed, deleted, gone,
                   updated>>

\* provider.Add succeeds: so does the Add, in its fallback with the lock given
\* back by defer.
AddSucceeds(c) ==
    /\ \E b \in IF op[c].pc = "first" THEN {op[c].at} ELSE op[c].left :
          Stores(b, op[c].mem)
    /\ op[c].pc \in {"first", "fallback"}
    /\ acked' = acked \union {op[c].mem}
    /\ readers' = readers \ {c}
    /\ Return(c)
    /\ UNCHANGED <<registered, registering, changes, lossy, removed, deleted, gone,
                   updated>>

\* provider.Add fails at the first backend,
FirstFails(c) ==
    /\ op[c].pc = "first"
    /\ MayStore(op[c].at, op[c].mem)
    /\ FailedBy(c, op[c].at, "lock")
    /\ UNCHANGED <<registered, registering, readers, changes, acked, removed, deleted,
                   gone, updated>>

\* which leaves all the others but the target, under RLock until Add returns.
FallbackLocks(c) ==
    /\ op[c].pc = "lock"
    /\ MayRLock
    /\ readers' = readers \union {c}
    /\ op' = [op EXCEPT ![c].pc = "fallback", ![c].left = registered \ {op[c].source}]
    /\ UNCHANGED <<registered, registering, changes, held, history>>

FallbackFails(c) ==
    /\ op[c].pc = "fallback"
    /\ \E b \in op[c].left :
          /\ MayStore(b, op[c].mem)
          /\ FailedBy(c, b, "fallback")
    /\ UNCHANGED <<registered, registering, readers, changes, acked, removed, deleted,
                   gone, updated>>

\* Faulty variant of AddFails: the lock is kept.  Unused.
AddFailsLocked(c) ==
    /\ op[c].pc = "fallback"
    /\ op[c].left = {}
    /\ Return(c)
    /\ UNCHANGED <<registered, registering, readers, changes, held, history>>

\* "all providers failed to add"
AddFails(c) ==
    /\ op[c].pc = "fallback"
    /\ op[c].left = {}
    /\ readers' = readers \ {c}
    /\ Return(c)
    /\ UNCHANGED <<registered, registering, changes, held, history>>

-----------------------------------------------------------------------------
(* Update, of the entry with id <<b, m>> and the given Source                *)

Update(c, b, m, source) ==
    /\ MayRLock
    /\ BeginChange(c, Task("update", m, b, source,
                           IF source \in registered THEN {source} ELSE registered, FALSE))
    /\ UNCHANGED <<registered, registering, readers, held, history>>

\* The backend d of the id holds it.
Holds(d, id) == d = id[1] /\ \E k \in {"original", "edited"} : <<d, id[2], k>> \in held

\* held without what is stored under id.
Without(id) == held \ {<<id[1], id[2], k>> : k \in {"original", "edited"}}

Id(c) == <<op[c].at, op[c].mem>>

\* Faulty variant of Updates: a backend that has not got the id makes it.  Unused.
UpdatesOrCreates(c, d) ==
    \/ /\ d \in {"mem0", "letta"}
       /\ held' = Without(Id(c)) \union {<<d, op[c].mem, "edited">>}
    \/ /\ d = "graphiti"
       /\ held' = held \union {<<d, op[c].mem, "rewritten">>}

\* Backend d carries out the update: Mem0 and Letta in place, for an id they
\* have; Graphiti by adding an episode, whosever the id is.
Updates(c, d) ==
    \/ /\ d \in {"mem0", "letta"}
       /\ Holds(d, Id(c))
       /\ held' = Without(Id(c)) \union {<<d, op[c].mem, "edited">>}
    \/ /\ d = "graphiti"
       /\ held' = held \union {<<d, op[c].mem, "rewritten">>}

\* The update is acknowledged.
Acknowledge(c) == updated' = updated \union {<<op[c].at, op[c].mem, op[c].source>>}

UpdateSucceeds(c) ==
    /\ op[c].pc = "update"
    /\ \E d \in op[c].left : Updates(c, d)
    /\ Acknowledge(c)
    /\ Return(c)
    /\ UNCHANGED <<registered, registering, readers, changes, known, acked, lossy,
                   removed, deleted, gone>>

\* A backend refuses the update, has not got the id, or only its reply is lost.
UpdateFailsAt(c) ==
    /\ op[c].pc = "update"
    /\ \E d \in op[c].left :
          /\ Updates(c, d) \/ UNCHANGED held
          /\ PastBackend(c, d, "update")
    /\ UNCHANGED <<registered, registering, readers, changes, history>>

\* Cognee deletes first, taking a 404 for a success,
CogneeDeletes(c) ==
    /\ op[c].pc = "update"
    /\ "cognee" \in op[c].left
    /\ IF op[c].at = "cognee"
       THEN held' = Without(Id(c)) /\ removed' = removed \union {Id(c)}
       ELSE UNCHANGED <<held, removed>>
    /\ \/ op' = [op EXCEPT ![c].pc = "readd"]
       \/ PastBackend(c, "cognee", "update")
    /\ UNCHANGED <<registered, registering, readers, changes, known, acked, lossy,
                   deleted, gone, updated>>

\* and then adds, which may fail.
CogneeAdds(c) ==
    /\ op[c].pc = "readd"
    /\ held' = held \union {<<"cognee", op[c].mem, "rewritten">>}
    /\ Acknowledge(c)
    /\ Return(c)
    /\ UNCHANGED <<registered, registering, readers, changes, known, acked, lossy,
                   removed, deleted, gone>>

\* Faulty variant of CogneeFailsToAdd: the error of the Add is dropped.  Unused.
CogneeDropsError(c) ==
    /\ op[c].pc = "readd"
    /\ Acknowledge(c)
    /\ Return(c)
    /\ UNCHANGED <<registered, registering, readers, changes, held, known, acked, lossy,
                   removed, deleted, gone>>

CogneeFailsToAdd(c) ==
    /\ op[c].pc = "readd"
    /\ \/ held' = held \union {<<"cognee", op[c].mem, "rewritten">>}
       \/ UNCHANGED held
    /\ PastBackend(c, "cognee", "update")
    /\ UNCHANGED <<registered, registering, readers, changes, history>>

\* No backend is left: the update returns an error.
UpdateFails(c) ==
    /\ op[c].pc = "update"
    /\ op[c].left = {}
    /\ Return(c)
    /\ UNCHANGED <<registered, registering, readers, changes, held, history>>

-----------------------------------------------------------------------------
(* Delete, of the id <<b, m>>                                                *)

Delete(c, b, m) ==
    /\ MayRLock
    /\ BeginChange(c, Task("delete", m, b, "none", registered, FALSE))
    /\ UNCHANGED <<registered, registering, readers, held, history>>

\* What backend d does with the id: removes it when it has it.
Removes(c, d) ==
    IF d = op[c].at
    THEN /\ held' = Without(Id(c))
         /\ removed' = removed \union {Id(c)}
         /\ deleted' = deleted \union {Id(c)}
    ELSE UNCHANGED <<held, removed, deleted>>

DeleteDoneAt(c) ==
    /\ op[c].pc = "delete"
    /\ \E d \in op[c].left :
          /\ Holds(d, Id(c)) \/ d \notin MissIsError
          /\ Removes(c, d)
          /\ PastBackend(c, d, "delete")
    /\ UNCHANGED <<registered, registering, readers, changes, known, acked, lossy, gone,
                   updated>>

DeleteFailsAt(c) ==
    /\ op[c].pc = "delete"
    /\ \E d \in op[c].left :
          /\ Removes(c, d) \/ UNCHANGED <<held, removed, deleted>>
          /\ FailedBy(c, d, "delete")
    /\ UNCHANGED <<registered, registering, readers, changes, known, acked, lossy, gone,
                   updated>>

\* nil only when no backend failed.
DeleteReturns(c) ==
    /\ op[c].pc = "delete"
    /\ op[c].left = {}
    /\ gone' = IF op[c].failed = {} THEN gone \union {Id(c)} ELSE gone
    /\ Return(c)
    /\ UNCHANGED <<registered, registering, readers, changes, held, known, acked, lossy,
                   removed, deleted, updated>>

-----------------------------------------------------------------------------
Next ==
    \/ \E b \in Backends : RegisterAsks(b)
    \/ \E b \in Backends : Register(b)
    \/ \E c \in Callers, m \in Memories, t \in MemoryTypes : Add(c, m, t)
    \/ \E c \in Callers : AddPicks(c)
    \/ \E c \in Callers : AddSucceeds(c)
    \/ \E c \in Callers : FirstFails(c)
    \/ \E c \in Callers : FallbackLocks(c)
    \/ \E c \in Callers : FallbackFails(c)
    \/ \E c \in Callers : AddFails(c)
    \/ \E c \in Callers, b \in Backends, m \in Memories :
          \E source \in {b, "fusion"} : Update(c, b, m, source)
    \/ \E c \in Callers : UpdateSucceeds(c)
    \/ \E c \in Callers : UpdateFailsAt(c)
    \/ \E c \in Callers : CogneeDeletes(c)
    \/ \E c \in Callers : CogneeAdds(c)
    \/ \E c \in Callers : CogneeFailsToAdd(c)
    \/ \E c \in Callers : UpdateFails(c)
    \/ \E c \in Callers, b \in Backends, m \in Memories : Delete(c, b, m)
    \/ \E c \in Callers : DeleteDoneAt(c)
    \/ \E c \in Callers : DeleteFailsAt(c)
    \/ \E c \in Callers : DeleteReturns(c)

Spec == Init /\ [][Next]_vars

StepOf(c) ==
    \/ AddPicks(c) \/ AddSucceeds(c) \/ FirstFails(c)
    \/ FallbackLocks(c) \/ FallbackFails(c) \/ AddFails(c)
    \/ UpdateSucceeds(c) \/ UpdateFailsAt(c) \/ UpdateFails(c)
    \/ CogneeDeletes(c) \/ CogneeAdds(c) \/ CogneeFailsToAdd(c)
    \/ DeleteDoneAt(c) \/ DeleteFailsAt(c) \/ DeleteReturns(c)

\* A call to a client returns, its requests having a timeout; a goroutine that
\* can have the lock gets it.  Nobody has to start an operation.
Fairness ==
    /\ \A c \in Callers : WF_vars(StepOf(c))
    /\ \A b \in Backends : WF_vars(Register(b))

FairSpec == Spec /\ Fairness

-----------------------------------------------------------------------------
(* The provider as a MemoryStore                                             *)

\* Where a copy with this text is: under the id an Add gave it, or another.
Place(b, text) == <<b, IF text \in {"original", "edited"} THEN "entry" ELSE text>>

Places == Backends \X {"entry", "again", "rewritten"}

CopyOf(id) == <<Place(id[1], "original"), id[2]>>

\* The call that a task carries out.
CallOf(task) ==
    LET kind == CASE task.pc = "idle"                -> "none"
                  [] task.pc = "delete"              -> "remove"
                  [] task.pc \in {"update", "readd"} -> "change"
                  [] OTHER                           -> "add"
    IN [kind |-> kind,
        mem |-> IF kind = "none" THEN "none" ELSE task.mem,
        id |-> IF kind \in {"remove", "change"} THEN CopyOf(<<task.at, task.mem>>) ELSE <<>>]

Promise == INSTANCE MemoryStore WITH
    stored <- {<<Place(k[1], k[3]), k[2]>> : k \in held},
    dead   <- {CopyOf(id) : id \in removed},
    calls  <- [c \in Callers |-> CallOf(op[c])],
    gone   <- {CopyOf(id) : id \in gone}

-----------------------------------------------------------------------------
TaskType ==
    [pc : Stage, mem : Memories \union {"none"}, at : Backends \union {"none"},
     source : AllSources \union {"fusion", "none"}, left : SUBSET Backends,
     failed : SUBSET Backends, late : BOOLEAN]

Ids == Backends \X Memories

TypeOK ==
    /\ registered \subseteq Backends
    /\ registering \subseteq Backends \ registered
    /\ readers = {c \in Callers : op[c].pc = "fallback"}
    /\ op \in [Callers -> TaskType]
    /\ changes \in 0..MaxChanges
    /\ held \subseteq Backends \X Memories \X Text
    /\ known \subseteq Ids /\ gone \subseteq Ids
    /\ removed \subseteq Ids /\ deleted \subseteq removed
    /\ acked \subseteq Memories /\ lossy \subseteq Memories
    /\ updated \subseteq Backends \X Memories \X (AllSources \union {"fusion"})

\* The fallback leaves a second copy of a memory only when a backend stored it
\* and failed to say so.
OneCopyUnlessLost ==
    \A m \in Memories \ lossy :
       /\ Cardinality({b \in Backends : <<b, m>> \in known}) <= 1
       /\ \A b \in Backends : <<b, m, "again">> \notin held

\* While an Add is in its fallback every registered backend has failed it or is
\* still to be tried, so that it fails only when all of them did; but for a
\* target registered only after the Add had looked for it.
FallbackCoversAll ==
    \A c \in Callers : op[c].pc = "fallback" =>
       registered \ (op[c].failed \union op[c].left)
          \subseteq IF op[c].late THEN {op[c].source} ELSE {}

\* An Update whose entry names its backend and that returned nil has left the
\* new text there, unless a Delete of the id has been called too: what Cognee
\* deletes to update, it has added again.
UpdateReachesSource ==
    \A u \in updated : u[3] = u[1] =>
       \/ \E k \in {"edited", "rewritten"} : <<u[1], u[2], k>> \in held
       \/ <<u[1], u[2]>> \in deleted

\* The provider keeps the promise of a MemoryStore: what the backends hold is
\* only ever changed by a call under way, on its own memory and its own copy; an
\* Add and a Delete return nil only when they have done it; and no Add, Update
\* or fallback brings back a copy that was removed.
KeepsPromise == Promise!Spec

\* Every operation returns, and so does RegisterProvider: a fallback that holds
\* the lock over its calls, and those that wait for it, hold up nobody for ever.
NobodyWaitsForEver ==
    /\ \A c \in Callers : op[c].pc # "idle" ~> op[c].pc = "idle"
    /\ \A b \in Backends : b \in registering ~> b \in registered

\* unified.go:166, "Update modifies a memory, routing to the owning backend":
\* the backend of the id has the new text after an Update that returned nil,
\* unless a Delete of the id has been called too.
UpdateReachesOwner ==
    \A u \in updated :
       \/ \E k \in {"edited", "rewritten"} : <<u[1], u[2], k>> \in held
       \/ <<u[1], u[2]>> \in deleted
=============================================================================
