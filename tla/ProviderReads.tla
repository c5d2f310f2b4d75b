---------------------------- MODULE ProviderReads ----------------------------
(***************************************************************************)
(* The reads of UnifiedMemoryProvider (pkg/provider/unified.go), Search    *)
(* and Get, beside the writes of UnifiedProvider.                          *)
(*                                                                         *)
(* A read copies the registered backends under RLock and asks them one     *)
(* after another, in any order, or all at once: each answers from what it  *)
(* holds at that time, or fails, which a read does not report.             *)
(*                                                                         *)
(* Not every backend reads where its client's Add writes.  Those of        *)
(* LooksWhereAdded are taken to find all that they hold and the request    *)
(* matches; the others any part of it.                                     *)
(***************************************************************************)
EXTENDS UnifiedProvider

CONSTANTS Readers    \* goroutines that read

VARIABLES read       \* read[r]: the read of reader r

rvars == <<vars, read>>

\* left: backends still to answer; got: copies their answers hold; failed: those
\* that failed; due: copies that were there when a Search began, or the one that
\* a Get asks for.
ReadTask(kind, left, due) ==
    [kind |-> kind, left |-> left, got |-> {}, failed |-> {}, due |-> due]

NoRead == ReadTask("idle", {}, {})

ReadsInit ==
    /\ Init
    /\ read = [r \in Readers |-> NoRead]

BeginRead(r, task) ==
    /\ MayRLock
    /\ read[r] = NoRead
    /\ read' = [read EXCEPT ![r] = task]
    /\ UNCHANGED vars

ReturnRead(r) == read' = [read EXCEPT ![r] = NoRead]

\* Mem0 reads what it was given.  Cognee gets it by its id, but searches the graph,
\* which an Add may fail to extend and be acknowledged.  Letta's Add sends the entry to
\* the messages of the entry's agent, or its own, and reads the archive of its own;
\* Graphiti's Add makes an episode, and reads nodes and edges.
LooksWhereAdded(kind) == IF kind = "search" THEN {"mem0"} ELSE {"mem0", "cognee"}

\* A backend fails to answer, which the read passes over.
ReadFails(r, b) ==
    /\ b \in read[r].left
    /\ read' = [read EXCEPT ![r].left = @ \ {b}, ![r].failed = @ \union {b}]
    /\ UNCHANGED vars

-----------------------------------------------------------------------------
(* Search                                                                    *)

\* Faulty variant of RouteRead: the types decide.  Unused.
RouteReadByType(types) ==
    IF types = {} THEN AllSources ELSE {RouteWrite(t) : t \in types}

\* routing.Router.RouteRead without Sources: the types add nothing to them all.
RouteRead(types) == {RouteWrite(t) : t \in types} \union AllSources

Search(r, types) ==
    BeginRead(r, ReadTask("search", RouteRead(types) \intersect registered, held))

SearchAnswers(r, b) ==
    /\ read[r].kind = "search"
    /\ b \in read[r].left
    /\ \E found \in SUBSET {x \in held : x[1] = b} :
          /\ b \in LooksWhereAdded("search") => found = {x \in held : x[1] = b}
          /\ read' = [read EXCEPT ![r].left = @ \ {b}, ![r].got = @ \union found]
    /\ UNCHANGED vars

SearchReturns(r) ==
    /\ read[r].kind = "search" /\ read[r].left = {}
    /\ ReturnRead(r)
    /\ UNCHANGED vars

-----------------------------------------------------------------------------
(* Get                                                                       *)

Get(r, id) ==
    /\ id \in known
    /\ BeginRead(r, ReadTask("get", registered, {<<id[1], id[2], "original">>}))

\* The backend is asked for what it holds under the id.
Asked(r, b) == \E x \in read[r].due : Holds(b, <<x[1], x[2]>>)

GetFinds(r, b) ==
    /\ read[r].kind = "get"
    /\ b \in read[r].left
    /\ Asked(r, b)
    /\ ReturnRead(r)
    /\ UNCHANGED vars

\* It has not got it, or not where it looks.
GetMisses(r, b) ==
    /\ read[r].kind = "get"
    /\ b \in read[r].left
    /\ b \in LooksWhereAdded("get") => ~Asked(r, b)
    /\ read' = [read EXCEPT ![r].left = @ \ {b}]
    /\ UNCHANGED vars

\* "not found in any provider"
GetReturns(r) ==
    /\ read[r].kind = "get" /\ read[r].left = {}
    /\ ReturnRead(r)
    /\ UNCHANGED vars

-----------------------------------------------------------------------------
ReadsNext ==
    \/ Next /\ UNCHANGED read
    \/ \E r \in Readers, types \in SUBSET MemoryTypes : Search(r, types)
    \/ \E r \in Readers, b \in Backends : SearchAnswers(r, b)
    \/ \E r \in Readers, b \in Backends : ReadFails(r, b)
    \/ \E r \in Readers : SearchReturns(r)
    \/ \E r \in Readers, id \in Backends \X Memories : Get(r, id)
    \/ \E r \in Readers, b \in Backends : GetFinds(r, b)
    \/ \E r \in Readers, b \in Backends : GetMisses(r, b)
    \/ \E r \in Readers : GetReturns(r)

ReadsSpec == ReadsInit /\ [][ReadsNext]_rvars

\* As UnifiedProvider; nothing is asked of a read, which holds no lock.
ReadsFairSpec == ReadsSpec /\ Fairness

-----------------------------------------------------------------------------
\* A read passes over the backends that fail it, and no others: a Search finds every
\* copy that a backend held when it began, though a fallback or an Update made it
\* where its type is not routed to, and a Get the id it asks for, wherever a backend
\* looks where it adds and answers; unless that copy was removed meanwhile.
ReadsAreComplete ==
    \A r \in Readers : read[r].left = {} =>
       \A x \in read[r].due : x[1] \in LooksWhereAdded(read[r].kind) \ read[r].failed =>
          \/ \E y \in read[r].got : y[1] = x[1] /\ y[2] = x[2]
          \/ x[3] \in {"original", "edited"} /\ <<x[1], x[2]>> \in removed
=============================================================================
