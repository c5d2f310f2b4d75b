---------------------------- MODULE FusionEngine ----------------------------
(***************************************************************************)
(* fusion.FusionEngine (pkg/fusion/engine.go) with its Router, over        *)
(* Cognee, Mem0 and Letta, by concurrent callers: writes, reads, Delete    *)
(* and HealthCheck.                                                        *)
(*                                                                         *)
(* Store, Retrieve and Delete start a goroutine per system and wait for    *)
(* all of them; the other operations call one system after another.  Each  *)
(* first looks at the system's health flag, which HealthCheck alone        *)
(* writes, and then calls the system's client: two steps, between which    *)
(* the flag may change.  A call is one step with the client's contract:    *)
(* nil means done, an error means done or not.                             *)
(*                                                                         *)
(* The systems give the ids: <<s, m>> is that of memory m at system s.     *)
(* Memories have different contents, so that FuseResults leaves one entry  *)
(* of each; there are fewer of them than the TopK of any request.          *)
(***************************************************************************)
EXTENDS Integers, FiniteSets

CONSTANTS
    Systems,          \* systems with an endpoint and a key in the configuration
    Memories,         \* memories the application stores, each once
    MemoryTypes,      \* types of their entries, and of those requests ask for
    RequestSources,   \* what requests may have as Sources, {} for none
    Agents,           \* whether entries and requests may name an agent
    Callers           \* goroutines calling the engine

AllSystems == {"cognee", "mem0", "letta"}

ASSUME EngineAssumption ==
    /\ Systems \subseteq AllSystems
    /\ RequestSources \subseteq SUBSET AllSystems
    /\ Agents \subseteq BOOLEAN

VARIABLES
    healthy,     \* systems whose health flag is set
    op,          \* op[c]: where caller c is in its operation
    held,        \* ids the systems hold
    known,       \* ids some Retrieve returned
    written,     \* <<s, m>>: systems s that the Store of m selected
    acked,       \* memories whose Store returned nil
    refused,     \* memories whose Store returned an error
    lossy,       \* memories with a call that failed yet took effect
    removed,     \* ids a removal has been sent for to their system
    gone         \* ids whose Delete returned nil

vars == <<healthy, op, held, known, written, acked, refused, lossy, removed, gone>>

-----------------------------------------------------------------------------
(* Router                                                                    *)

SelectSystemsForWrite(type, agent) ==
    (CASE type \in {"graph", "fact"} -> {"cognee", "mem0"}
       [] type = "core"              -> {"letta", "mem0"}
       [] type = "procedural"        -> {"letta"}
       [] OTHER                      -> {"mem0"})
    \union (IF agent THEN {"letta"} ELSE {})

\* Sources first, then the agent, then the types, any of which may be missing.
SelectSystemsForRead(sources, agent, types) ==
    CASE sources # {}                            -> sources
      [] sources = {} /\ agent                   -> {"letta", "mem0"}
      [] sources = {} /\ ~agent /\ types = {}    -> {"mem0", "cognee"}
      [] OTHER -> {s \in AllSystems :
                     \/ s = "cognee" /\ "graph" \in types
                     \/ s = "letta" /\ "core" \in types
                     \/ s = "mem0" /\ types \ {"graph", "core"} # {}}

-----------------------------------------------------------------------------
Reads == {"retrieve", "history", "recall"}
Kind == Reads \union {"idle", "store", "attach", "delete", "check"}

\* An operation on id, of its memory.  ask: systems still to look at; call:
\* systems whose client is being called, or whose health has been asked for;
\* failed: those that returned an error; got: ids their answers hold; due:
\* memories the answer has to hold when none fails.
Task(kind, id, ask, due) ==
    [kind |-> kind, id |-> id, ask |-> ask, call |-> {}, failed |-> {},
     got |-> {}, due |-> due]

NoId == <<"none", "none">>
Idle == Task("idle", NoId, {}, {})

Init ==
    /\ healthy = AllSystems
    /\ op = [c \in Callers |-> Idle]
    /\ held = {}
    /\ known = {}
    /\ written = {}
    /\ acked = {}
    /\ refused = {}
    /\ lossy = {}
    /\ removed = {}
    /\ gone = {}

Free(c) == op[c].kind = "idle"

Begin(c, task) ==
    /\ Free(c)
    /\ op' = [op EXCEPT ![c] = task]

\* Every goroutine of c's operation is done: wg.Wait() returns.
Joined(c) == op[c].ask = {} /\ op[c].call = {}

Mem(c) == op[c].id[2]

\* The systems of the Store of m.
Selected(m) == {s \in AllSystems : <<s, m>> \in written}

\* Faulty variant of ErrorFits: a channel of one.  Unused.
ErrorFitsOne(c) ==
    op[c].kind \in {"store", "delete"} => Cardinality(op[c].failed) < 1

\* errChan is read after wg.Wait() only: a goroutine's send must find room.
ErrorFits(c) ==
    CASE op[c].kind = "store"  -> Cardinality(op[c].failed) < Cardinality(Selected(Mem(c)))
      [] op[c].kind = "delete" -> Cardinality(op[c].failed) < 3
      [] OTHER                 -> TRUE

-----------------------------------------------------------------------------
(* The operations begin                                                      *)

\* One goroutine per selected system.
Store(c, m, type, agent) ==
    /\ Selected(m) = {}
    /\ LET systems == SelectSystemsForWrite(type, agent) IN
       /\ written' = written \union (systems \X {m})
       /\ Begin(c, Task("store", <<"none", m>>, systems, {}))
    /\ UNCHANGED <<healthy, held, known, acked, refused, lossy, removed, gone>>

\* A memory of Cognee alone.
CreateKnowledgeGraph(c, m) ==
    /\ Selected(m) = {}
    /\ written' = written \union {<<"cognee", m>>}
    /\ Begin(c, Task("store", <<"none", m>>, {"cognee"}, {}))
    /\ UNCHANGED <<healthy, held, known, acked, refused, lossy, removed, gone>>

\* The clients that are there, whatever their flags.
StoreWithAgent(c, m) ==
    /\ Selected(m) = {}
    /\ written' = written \union ({"mem0", "letta"} \X {m})
    /\ Begin(c, Task("attach", <<"none", m>>, {"mem0", "letta"} \intersect Systems, {}))
    /\ UNCHANGED <<healthy, held, known, acked, refused, lossy, removed, gone>>

\* What an answer from these systems has to hold, if none of them fails.
Due(systems) == {m \in acked : Selected(m) \subseteq systems}

Read(c, kind, systems) ==
    /\ Begin(c, Task(kind, NoId, systems, Due(systems)))
    /\ UNCHANGED <<healthy, held, known, written, acked, refused, lossy, removed, gone>>

\* From the systems of the request or those the Router selects.
Retrieve(c, systems)  == Read(c, "retrieve", systems)
QueryKnowledgeGraph(c) == Read(c, "retrieve", {"cognee"})
GetHistory(c)         == Read(c, "history", {"mem0", "cognee"})
RetrieveForAgent(c)   == Read(c, "recall", {"letta", "mem0"})

Delete(c, id) ==
    /\ id \in known
    /\ Begin(c, Task("delete", id, {"cognee", "mem0"} \intersect Systems, {}))
    /\ UNCHANGED <<healthy, held, known, written, acked, refused, lossy, removed, gone>>

HealthCheck(c) ==
    /\ Begin(c, Task("check", NoId, Systems, {}))
    /\ UNCHANGED <<healthy, held, known, written, acked, refused, lossy, removed, gone>>

-----------------------------------------------------------------------------
(* A goroutine looks at its system                                           *)

\* Faulty variant of Available: whether there is a client is not looked at.
\* Unused.
HealthyOnly(c, s) ==
    op[c].kind \in Reads \union {"store"} => s \in healthy

\* isHealthy, of a system with a client.
Available(c, s) ==
    s \in Systems /\ (op[c].kind \in Reads \union {"store"} => s \in healthy)

\* The systems a sequential operation calls before others.
Before(kind) ==
    CASE kind \in {"attach", "check"} ->
            {<<"cognee", "mem0">>, <<"cognee", "letta">>, <<"mem0", "letta">>}
      [] kind = "history" -> {<<"mem0", "cognee">>}
      [] kind = "recall"  -> {<<"letta", "mem0">>}
      [] OTHER            -> {}

\* An operation that is not sequential calls all systems at once.
InTurn(c, s) ==
    LET before == Before(op[c].kind) IN
    before # {} => op[c].call = {} /\ \A r \in op[c].ask : <<r, s>> \notin before

Launch(c, s) ==
    /\ op[c].kind # "check"
    /\ s \in op[c].ask
    /\ InTurn(c, s)
    /\ \/ /\ Available(c, s)
          /\ op' = [op EXCEPT ![c].ask = @ \ {s}, ![c].call = @ \union {s}]
       \/ /\ ~Available(c, s)
          /\ ErrorFits(c)
          /\ op' = [op EXCEPT ![c].ask = @ \ {s}, ![c].failed = @ \union {s}]
    /\ UNCHANGED <<healthy, held, known, written, acked, refused, lossy, removed, gone>>

-----------------------------------------------------------------------------
(* A call ends                                                               *)

Stores(c, s) ==
    /\ op[c].kind \in {"store", "attach"}
    /\ s \in op[c].call
    /\ held' = held \union {<<s, Mem(c)>>}
    /\ op' = [op EXCEPT ![c].call = @ \ {s}]
    /\ UNCHANGED <<healthy, known, written, acked, refused, lossy, removed, gone>>

Fails(c, s) ==
    /\ s \in op[c].call
    /\ ErrorFits(c)
    /\ op' = [op EXCEPT ![c].call = @ \ {s}, ![c].failed = @ \union {s}]

StoreFails(c, s) ==
    /\ op[c].kind \in {"store", "attach"}
    /\ Fails(c, s)
    /\ \/ /\ held' = held \union {<<s, Mem(c)>>}
          /\ lossy' = lossy \union {Mem(c)}
       \/ UNCHANGED <<held, lossy>>
    /\ UNCHANGED <<healthy, known, written, acked, refused, removed, gone>>

\* Faulty variant of Answers: one shared result, which the last to answer
\* overwrites.  Unused.
AnswersLast(c, s) ==
    /\ op[c].kind \in Reads
    /\ s \in op[c].call
    /\ op' = [op EXCEPT ![c].call = @ \ {s}, ![c].got = {id \in held : id[1] = s}]
    /\ UNCHANGED <<healthy, held, known, written, acked, refused, lossy, removed, gone>>

\* A Search or GetHistory answers with what the system holds.
Answers(c, s) ==
    /\ op[c].kind \in Reads
    /\ s \in op[c].call
    /\ op' = [op EXCEPT ![c].call = @ \ {s},
                        ![c].got = @ \union {id \in held : id[1] = s}]
    /\ UNCHANGED <<healthy, held, known, written, acked, refused, lossy, removed, gone>>

SearchFails(c, s) ==
    /\ op[c].kind \in Reads
    /\ Fails(c, s)
    /\ UNCHANGED <<healthy, held, known, written, acked, refused, lossy, removed, gone>>

\* Faulty variant of Removes: each system removes what it holds of the memory.
\* Unused.
RemovesCopy(c, s) ==
    /\ held' = held \ {<<s, Mem(c)>>}
    /\ removed' = removed \union ({op[c].id} \intersect {<<s, Mem(c)>>})

\* s removes the id if it is its own; to another system it is a 404, which
\* Cognee and Mem0 take for a success.
Removes(c, s) ==
    IF s = op[c].id[1]
    THEN held' = held \ {op[c].id} /\ removed' = removed \union {op[c].id}
    ELSE UNCHANGED <<held, removed>>

Deletes(c, s) ==
    /\ op[c].kind = "delete"
    /\ s \in op[c].call
    /\ Removes(c, s)
    /\ op' = [op EXCEPT ![c].call = @ \ {s}]
    /\ UNCHANGED <<healthy, known, written, acked, refused, lossy, gone>>

DeleteFails(c, s) ==
    /\ op[c].kind = "delete"
    /\ Fails(c, s)
    /\ Removes(c, s) \/ UNCHANGED <<held, removed>>
    /\ UNCHANGED <<healthy, known, written, acked, refused, lossy, gone>>

-----------------------------------------------------------------------------
(* HealthCheck                                                               *)

\* Client.Health answers, or does not.
CheckAsks(c, s) ==
    /\ op[c].kind = "check"
    /\ s \in op[c].ask
    /\ InTurn(c, s)
    /\ \/ op' = [op EXCEPT ![c].ask = @ \ {s}, ![c].call = {s}]
       \/ op' = [op EXCEPT ![c].ask = @ \ {s}, ![c].call = {s}, ![c].failed = {s}]
    /\ UNCHANGED <<healthy, held, known, written, acked, refused, lossy, removed, gone>>

\* setHealth(system, err == nil), whatever another check has written meanwhile.
SetHealth(c, s) ==
    /\ op[c].kind = "check"
    /\ s \in op[c].call
    /\ healthy' = IF s \in op[c].failed THEN healthy \ {s} ELSE healthy \union {s}
    /\ op' = [op EXCEPT ![c].call = {}, ![c].failed = {}]
    /\ UNCHANGED <<held, known, written, acked, refused, lossy, removed, gone>>

-----------------------------------------------------------------------------
(* The operations return                                                     *)

\* Faulty variant of StoreReturns: any error is one too many.  Unused.
StoreReturnsAnyError(c) ==
    /\ op[c].kind = "store"
    /\ Joined(c)
    /\ IF op[c].failed # {}
       THEN refused' = refused \union {Mem(c)} /\ UNCHANGED acked
       ELSE acked' = acked \union {Mem(c)} /\ UNCHANGED refused
    /\ op' = [op EXCEPT ![c] = Idle]
    /\ UNCHANGED <<healthy, held, known, written, lossy, removed, gone>>

\* An error only when every selected system failed.
StoreReturns(c) ==
    /\ op[c].kind = "store"
    /\ Joined(c)
    /\ IF op[c].failed = Selected(Mem(c))
       THEN refused' = refused \union {Mem(c)} /\ UNCHANGED acked
       ELSE acked' = acked \union {Mem(c)} /\ UNCHANGED refused
    /\ op' = [op EXCEPT ![c] = Idle]
    /\ UNCHANGED <<healthy, held, known, written, lossy, removed, gone>>

\* nil, whatever the two clients returned.
StoreWithAgentReturns(c) ==
    /\ op[c].kind = "attach"
    /\ Joined(c)
    /\ op' = [op EXCEPT ![c] = Idle]
    /\ UNCHANGED <<healthy, held, known, written, acked, refused, lossy, removed, gone>>

\* FuseResults leaves one entry of each memory.
OneOfEach(ids, all) ==
    /\ \A i, j \in ids : i[2] = j[2] => i = j
    /\ {i[2] : i \in ids} = {i[2] : i \in all}

ReadReturns(c) ==
    /\ op[c].kind \in Reads
    /\ Joined(c)
    /\ \E answer \in SUBSET op[c].got :
          /\ OneOfEach(answer, op[c].got)
          /\ known' = known \union answer
    /\ op' = [op EXCEPT ![c] = Idle]
    /\ UNCHANGED <<healthy, held, written, acked, refused, lossy, removed, gone>>

DeleteReturns(c) ==
    /\ op[c].kind = "delete"
    /\ Joined(c)
    /\ gone' = IF op[c].failed = {} THEN gone \union {op[c].id} ELSE gone
    /\ op' = [op EXCEPT ![c] = Idle]
    /\ UNCHANGED <<healthy, held, known, written, acked, refused, lossy, removed>>

HealthCheckReturns(c) ==
    /\ op[c].kind = "check"
    /\ Joined(c)
    /\ op' = [op EXCEPT ![c] = Idle]
    /\ UNCHANGED <<healthy, held, known, written, acked, refused, lossy, removed, gone>>

-----------------------------------------------------------------------------
Next ==
    \/ \E c \in Callers, m \in Memories, t \in MemoryTypes, a \in Agents : Store(c, m, t, a)
    \/ \E c \in Callers, m \in Memories : StoreWithAgent(c, m)
    \/ \E c \in Callers, s \in RequestSources, a \in Agents, t \in SUBSET MemoryTypes :
          Retrieve(c, SelectSystemsForRead(s, a, t))
    \/ \E c \in Callers, m \in Memories : CreateKnowledgeGraph(c, m)
    \/ \E c \in Callers : QueryKnowledgeGraph(c)
    \/ \E c \in Callers : GetHistory(c)
    \/ \E c \in Callers : RetrieveForAgent(c)
    \/ \E c \in Callers, id \in AllSystems \X Memories : Delete(c, id)
    \/ \E c \in Callers : HealthCheck(c)
    \/ \E c \in Callers, s \in AllSystems : Launch(c, s)
    \/ \E c \in Callers, s \in AllSystems : Stores(c, s)
    \/ \E c \in Callers, s \in AllSystems : StoreFails(c, s)
    \/ \E c \in Callers, s \in AllSystems : Answers(c, s)
    \/ \E c \in Callers, s \in AllSystems : SearchFails(c, s)
    \/ \E c \in Callers, s \in AllSystems : Deletes(c, s)
    \/ \E c \in Callers, s \in AllSystems : DeleteFails(c, s)
    \/ \E c \in Callers, s \in AllSystems : CheckAsks(c, s)
    \/ \E c \in Callers, s \in AllSystems : SetHealth(c, s)
    \/ \E c \in Callers : StoreReturns(c)
    \/ \E c \in Callers : StoreWithAgentReturns(c)
    \/ \E c \in Callers : ReadReturns(c)
    \/ \E c \in Callers : DeleteReturns(c)
    \/ \E c \in Callers : HealthCheckReturns(c)

Spec == Init /\ [][Next]_vars

-----------------------------------------------------------------------------
(* The engine as a MemoryStore                                               *)

\* The call that a task carries out; reads and checks change nothing stored.
CallOf(task) ==
    LET kind == CASE task.kind \in {"store", "attach"} -> "add"
                  [] task.kind = "delete"              -> "remove"
                  [] OTHER                             -> "none"
    IN [kind |-> kind,
        mem |-> IF kind = "none" THEN "none" ELSE task.id[2],
        id |-> IF kind = "remove" THEN task.id ELSE <<>>]

\* Delete does not ask Letta: that it returns nil for an id of Letta's promises
\* nothing.
Promise == INSTANCE MemoryStore WITH
    Places <- AllSystems,
    stored <- held,
    dead   <- removed,
    calls  <- [c \in Callers |-> CallOf(op[c])],
    gone   <- {id \in gone : id[1] # "letta"}

-----------------------------------------------------------------------------
Ids == AllSystems \X Memories

TaskType ==
    [kind : Kind, id : Ids \union ({"none"} \X Memories) \union {NoId},
     ask : SUBSET AllSystems, call : SUBSET Systems, failed : SUBSET AllSystems,
     got : SUBSET Ids, due : SUBSET Memories]

TypeOK ==
    /\ healthy \subseteq AllSystems
    /\ op \in [Callers -> TaskType]
    /\ held \subseteq Ids /\ known \subseteq Ids
    /\ removed \subseteq Ids /\ gone \subseteq Ids
    /\ written \subseteq Ids
    /\ acked \subseteq Memories /\ refused \subseteq Memories /\ lossy \subseteq Memories

\* A memory whose Store returned an error is held nowhere, unless a system
\* stored it and failed to say so.
RefusedIsNotHeld ==
    \A m \in refused \ lossy : \A s \in AllSystems : <<s, m>> \notin held

\* A read that no system failed answers with every memory acknowledged
\* before it began, if it asked all systems the memory was written to: with
\* whichever copy a partly failed Store has left.
AnswerIsComplete ==
    \A c \in Callers : op[c].kind \in Reads /\ Joined(c) /\ op[c].failed = {} =>
       \A m \in op[c].due :
          \/ \E s \in AllSystems : <<s, m>> \in op[c].got
          \/ \E s \in AllSystems : <<s, m>> \in removed

\* The engine keeps the promise of a MemoryStore: what the systems hold is only
\* ever changed by a call under way, on its own memory and its own id; a Store
\* and a Delete return nil only when some system, or the id's system, has done
\* it; and no late goroutine brings back an id that was removed.
KeepsPromise == Promise!Spec

\* No goroutine of a Store or Delete ever finds the error channel full, which
\* would leave it, and the operation that waits for it, stuck.
EveryErrorFits ==
    \A c \in Callers : ~Joined(c) => ErrorFits(c)
=============================================================================
