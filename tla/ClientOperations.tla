-------------------------- MODULE ClientOperations --------------------------
(***************************************************************************)
(* The operations of the four REST clients (pkg/clients), each as the      *)
(* sequence of steps at which it touches shared state: the breaker, the    *)
(* agent cache of the Letta client, and the backend.                       *)
(*                                                                         *)
(*   "allow"    if !c.breaker.Allow() { return "circuit breaker open" }    *)
(*   "ensure"   agentID, err := c.EnsureAgent(ctx)                         *)
(*   any other  one HTTP exchange and what it records (Verdict)            *)
(*                                                                         *)
(* Request bodies, URLs, headers and the conversion of replies to entries  *)
(* are left out; ids are taken to pass validateID, which returns before    *)
(* any of these steps when they do not.                                    *)
(***************************************************************************)
EXTENDS Sequences

\* What httpClient.Do and the decoder can make of an exchange: a 2xx with a
\* readable body, a 404, another status >= 400, no reply (refused, reset,
\* timed out, cancelled), a 2xx whose body does not decode.
Reply == {"ok", "notFound", "error", "lost", "garbled"}

\* What the client does with it:
\*   success     RecordSuccess, next step
\*   accepted    RecordSuccess, return nil
\*   missing     RecordSuccess, return "not found"
\*   failure     RecordFailure, return an error
\*   unrecorded  return an error, the breaker is told nothing
\*   pending     next step, the breaker is told nothing yet

\* Faulty variant of WriteVerdict: the status is not looked at.  Unused.
WriteIgnoringStatus(r) == IF r = "lost" THEN "failure" ELSE "success"

\* A request whose reply carries nothing to read: any status below 400 is
\* a success.
WriteVerdict(r) ==
    IF r \in {"ok", "garbled"} THEN "success" ELSE "failure"

\* A request whose reply is decoded.  The decode error returns before
\* RecordSuccess.
ReadVerdict(r) ==
    IF r = "garbled" THEN "unrecorded" ELSE WriteVerdict(r)

\* Faulty variant of LookupVerdict: a 404 is a failure.  Unused.
LookupCountingMisses(r) == ReadVerdict(r)

\* Get of Mem0, Cognee and Graphiti: a 404 is an answer.
LookupVerdict(r) ==
    IF r = "notFound" THEN "missing" ELSE ReadVerdict(r)

\* Delete of Mem0, Cognee and Graphiti: a 404 is as good as a deletion.
RemoveVerdict(r) ==
    IF r = "notFound" THEN "success" ELSE WriteVerdict(r)

\* Cognee's POST /add: the success is recorded only after cognify; a reply
\* that does not decode ends the operation well at once.
IngestVerdict(r) ==
    CASE r = "ok"      -> "pending"
      [] r = "garbled" -> "accepted"
      [] OTHER         -> "failure"

\* Cognee's POST /cognify: never fails the operation.
CognifyVerdict(r) == "success"

Verdict(x, r) ==
    CASE x = "write"                      -> WriteVerdict(r)
      [] x \in {"read", "list", "create"} -> ReadVerdict(r)
      [] x = "lookup"                     -> LookupVerdict(r)
      [] x = "remove"                     -> RemoveVerdict(r)
      [] x = "ingest"                     -> IngestVerdict(r)
      [] x = "cognify"                    -> CognifyVerdict(r)

Exchange == {"write", "read", "list", "create", "lookup", "remove",
             "ingest", "cognify"}
Step == Exchange \union {"allow", "ensure"}

\* Exchanges an operation sends for the effect they have on the backend.
Mutating == {"write", "ingest", "remove"}
-----------------------------------------------------------------------------
\* pkg/clients/mem0
Mem0Add              == <<"allow", "write">>
Mem0AddBatch         == <<"allow">> \o Mem0Add \o Mem0Add   \* two entries
Mem0Get              == <<"allow", "lookup">>
Mem0Update           == <<"allow", "write">>
Mem0Delete           == <<"allow", "remove">>
Mem0DeleteAll        == <<"allow", "write">>
Mem0Search           == <<"allow", "read">>
Mem0GetHistory       == <<"allow", "read">>
Mem0GetMemoryHistory == <<"allow", "read">>
Mem0CreateUser       == <<"allow", "read">>
Mem0GetUser          == <<"allow", "read">>
Mem0DeleteUser       == <<"allow", "write">>
Mem0CreateAgent      == <<"allow", "read">>
Mem0GetAgent         == <<"allow", "read">>
Mem0DeleteAgent      == <<"allow", "write">>
Mem0CreateWebhook    == <<"allow", "read">>
Mem0GetWebhook       == <<"allow", "read">>
Mem0DeleteWebhook    == <<"allow", "write">>

Mem0 == {Mem0Add, Mem0AddBatch, Mem0Get, Mem0Update, Mem0Delete,
         Mem0DeleteAll, Mem0Search, Mem0GetHistory, Mem0GetMemoryHistory,
         Mem0CreateUser, Mem0GetUser, Mem0DeleteUser, Mem0CreateAgent,
         Mem0GetAgent, Mem0DeleteAgent, Mem0CreateWebhook, Mem0GetWebhook,
         Mem0DeleteWebhook}

\* pkg/clients/cognee.  Update is Delete followed by Add, each with an
\* Allow() of its own.
CogneeAdd            == <<"allow", "ingest", "cognify">>
CogneeSearch         == <<"allow", "read">>
CogneeGet            == <<"allow", "lookup">>
CogneeDelete         == <<"allow", "remove">>
CogneeUpdate         == CogneeDelete \o CogneeAdd
CogneeGetHistory     == CogneeSearch
CogneeCreateDataset  == <<"allow", "read">>
CogneeListDatasets   == <<"allow", "read">>

Cognee == {CogneeAdd, CogneeSearch, CogneeGet, CogneeDelete, CogneeUpdate,
           CogneeGetHistory, CogneeCreateDataset, CogneeListDatasets}

\* pkg/clients/graphiti.  Update adds a new episode.
GraphitiAdd            == <<"allow", "write">>
GraphitiSearch         == <<"allow", "read">>
GraphitiGet            == <<"allow", "lookup">>
GraphitiUpdate         == GraphitiAdd
GraphitiDelete         == <<"allow", "remove">>
GraphitiGetHistory     == GraphitiSearch
GraphitiSearchTemporal == GraphitiSearch
GraphitiGetTimeline    == GraphitiSearch
GraphitiInvalidateAt   == <<"allow", "write">>

Graphiti == {GraphitiAdd, GraphitiSearch, GraphitiGet, GraphitiUpdate,
             GraphitiDelete, GraphitiGetHistory, GraphitiSearchTemporal,
             GraphitiGetTimeline, GraphitiInvalidateAt}

\* pkg/clients/letta.  Each operation that may be given no agent id comes in
\* both forms.  Get and Delete treat a 404 as any other error status.
LettaCreateAgent         == <<"allow", "read">>
LettaGetAgent            == <<"allow", "read">>
LettaListAgents          == <<"allow", "read">>
LettaDeleteAgent         == <<"allow", "write">>
LettaSendMessage         == <<"allow", "read">>
LettaGetMessages         == <<"allow", "read">>
LettaGetMemoryBlock      == <<"allow", "read">>
LettaUpdateMemoryBlock   == <<"allow", "read">>
LettaCreateSource        == <<"allow", "read">>
LettaUploadFileToSource  == <<"allow", "write">>
LettaAttachSourceToAgent == <<"allow", "write">>
LettaAdd                 == {<<"allow", "write">>, <<"allow", "ensure", "write">>}
LettaGet                 == {<<"allow", "ensure", "read">>}
LettaUpdate              == {<<"allow", "write">>, <<"allow", "ensure", "write">>}
LettaDelete              == {<<"allow", "ensure", "write">>}
LettaSearch              == {<<"allow", "read">>, <<"allow", "ensure", "read">>}
LettaGetHistory          == <<"allow">> \o LettaGetMessages
LettaGetCoreMemory       == {<<"allow", "read">>, <<"ensure", "allow", "read">>}
LettaUpdateCoreMemory    == {<<"allow", "write">>, <<"ensure", "allow", "write">>}

Letta == {LettaCreateAgent, LettaGetAgent, LettaListAgents, LettaDeleteAgent,
          LettaSendMessage, LettaGetMessages, LettaGetMemoryBlock,
          LettaUpdateMemoryBlock, LettaCreateSource, LettaUploadFileToSource,
          LettaAttachSourceToAgent, LettaGetHistory}
         \union LettaAdd \union LettaGet \union LettaUpdate
         \union LettaDelete \union LettaSearch \union LettaGetCoreMemory
         \union LettaUpdateCoreMemory

Operations(client) ==
    CASE client = "mem0"     -> Mem0
      [] client = "cognee"   -> Cognee
      [] client = "graphiti" -> Graphiti
      [] client = "letta"    -> Letta

\* What an agentless operation runs inside ensureAgentOnce: list the agents
\* and, when none is named helixmemory, create one.
EnsureList   == <<"allow", "list">>
EnsureCreate == <<"allow", "create">>
=============================================================================
