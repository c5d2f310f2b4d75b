------------------------ MODULE BackendClientProofs ------------------------
(***************************************************************************)
(* Safety of BackendClient for any callers, clients and breaker settings,  *)
(* from one inductive invariant.  It says of the steps an operation has    *)
(* still to take where the agent is asked for, who is inside the Once, and *)
(* how many of them the backend has still to carry out.                    *)
(*                                                                         *)
(* At the end, why an operation of a client is finite: how many steps it   *)
(* has still to take, and who leaves the Once.                             *)
(***************************************************************************)
EXTENDS BackendClient, SequenceTheorems, FiniteSetTheorems, TLAPS

\* A half-open circuit has not had all its successes.
ProbationIsOpen == state = "HalfOpen" => halfOpenSuccess < halfOpenMax

\* Allow() apart, the steps taken inside the Once.
AgentStep == {"list", "create"}

\* Steps with the agent asked for once at the most, and after nothing but Allow.
AsksFirst(s) ==
    \A i \in DOMAIN s : s[i] = "ensure" =>
       \A j \in DOMAIN s : IF j < i THEN s[j] = "allow" ELSE s[j] = "ensure" => j = i

\* Nothing that the backend has to carry out comes after an ingest, which may end
\* the operation well.
IngestsLast(s) ==
    \A i, j \in DOMAIN s : s[i] = "ingest" /\ i < j => s[j] \notin Mutating

\* The steps s start with those that are taken inside the Once, which ask for no
\* agent; a new one is created only when there is none.
Inside(s) ==
    \E i \in DOMAIN s :
       /\ s[i] \in AgentStep
       /\ s[i] = "create" => agents = 0
       /\ i = 1 \/ (i = 2 /\ s[1] = "allow")
       /\ \A j \in DOMAIN s : s[j] # "ensure" /\ (s[j] \in AgentStep => j = i)

\* No step of s is taken inside the Once.
Outside(s) == \A i \in DOMAIN s : s[i] \notin AgentStep

\* What holds of the steps that c has still to take: they are laid out so; those
\* inside the Once are the owner's; as many are owed as are still to do; and an
\* operation without an agent has still to ask for it, is inside the Once, or comes
\* after it.
CallerFits(c) ==
    /\ AsksFirst(todo[c])
    /\ IngestsLast(todo[c])
    /\ IF c \in owner THEN Inside(todo[c]) ELSE Outside(todo[c])
    /\ owed[c] = CountIn(todo[c], Mutating)
    /\ agentless[c] /\ Busy(c) =>
          \/ \E i \in DOMAIN todo[c] : todo[c][i] = "ensure"
          \/ c \in owner
          \/ once = "done" /\ ~ensureErr

\* One caller is inside the Once, which has no error before it is spent.
OnceFits ==
    /\ \A c, d \in owner : c = d
    /\ owner # {} => once = "running"
    /\ ensureErr => once = "done"

IInv ==
    /\ TypeOK
    /\ agents \in Nat
    /\ ProbationIsOpen
    /\ \A c \in Callers : CallerFits(c)
    /\ OnceFits
    /\ OneAgent

-----------------------------------------------------------------------------
(* Counting steps.                                                           *)

\* Of steps there are finitely many, and none of no steps.
LEMMA CountIsNat ==
    ASSUME NEW s \in Seq(Step), NEW S
    PROVE  /\ CountIn(s, S) \in Nat
           /\ IsFiniteSet({i \in DOMAIN s : s[i] \in S})
           /\ (\A i \in DOMAIN s : s[i] \notin S) <=> CountIn(s, S) = 0
<1> DEFINE B == {i \in DOMAIN s : s[i] \in S}
<1>1. DOMAIN s = 1..Len(s) /\ Len(s) \in Nat
  BY LenProperties
<1>2. IsFiniteSet(1..Len(s))
  BY <1>1, FS_Interval
<1>3. IsFiniteSet(B)
  BY <1>1, <1>2, FS_Subset
<1>4. Cardinality(B) \in Nat /\ (Cardinality(B) = 0 <=> B = {})
  BY <1>3, FS_CardinalityType, FS_EmptySet
<1>5. B = {} <=> \A i \in DOMAIN s : s[i] \notin S
  OBVIOUS
<1> QED
  BY <1>3, <1>4, <1>5 DEF CountIn

\* Steps t with one more before them.
LEMMA CountShift ==
    ASSUME NEW s \in Seq(Step), NEW t \in Seq(Step), NEW S,
           Len(s) = Len(t) + 1, \A i \in 1..Len(t) : t[i] = s[i + 1]
    PROVE  CountIn(s, S) = CountIn(t, S) + (IF s[1] \in S THEN 1 ELSE 0)
<1> DEFINE A == {i \in DOMAIN t : t[i] \in S}
           B == {i \in DOMAIN s : s[i] \in S}
           C == B \ {1}
           f == [i \in A |-> i + 1]
<1>1. /\ DOMAIN s = 1..Len(s) /\ Len(s) \in Nat
      /\ DOMAIN t = 1..Len(t) /\ Len(t) \in Nat
  BY LenProperties
<1>2. IsFiniteSet(A) /\ Cardinality(A) \in Nat
  BY CountIsNat DEF CountIn
<1>3. f \in Bijection(A, C)
  <2>1. \A i \in A : i + 1 \in C
    BY <1>1
  <2>2. \A k \in C : k - 1 \in A /\ f[k - 1] = k
    BY <1>1
  <2>3. f \in [A -> C]
    BY <2>1
  <2>4. \A a, b \in A : f[a] = f[b] => a = b
    BY <1>1
  <2> HIDE DEF f, A, C
  <2> QED
    BY <2>2, <2>3, <2>4 DEF Bijection, Injection, Surjection, IsInjective
<1>4. IsFiniteSet(C) /\ Cardinality(C) = Cardinality(A)
  <2> HIDE DEF f, A, C
  <2> QED
    BY <1>2, <1>3, FS_Bijection DEF ExistsBijection
<1>5. Cardinality(C \union {1}) = Cardinality(C) + 1
  BY <1>4, FS_AddElement
<1>6. IF s[1] \in S THEN B = C \union {1} ELSE B = C
  BY <1>1
<1>7. CountIn(s, S) = Cardinality(B) /\ CountIn(t, S) = Cardinality(A)
  BY DEF CountIn
<1>8. CASE s[1] \in S
  <2>1. B = C \union {1}
    BY <1>6, <1>8
  <2> HIDE DEF A, B, C
  <2>2. Cardinality(B) = Cardinality(A) + 1
    BY <1>4, <1>5, <2>1
  <2> QED
    BY <1>7, <1>8, <2>2
<1>9. CASE s[1] \notin S
  <2>1. B = C
    BY <1>6, <1>9
  <2> HIDE DEF A, B, C
  <2>2. Cardinality(B) = Cardinality(A) + 0
    BY <1>2, <1>4, <2>1
  <2> QED
    BY <1>7, <1>9, <2>2
<1> QED
  BY <1>8, <1>9

\* What Tail leaves.
LEMMA TailFits ==
    ASSUME NEW s \in Seq(Step), s # <<>>
    PROVE  /\ Head(s) = s[1] /\ Head(s) \in Step /\ 1 \in DOMAIN s
           /\ Tail(s) \in Seq(Step)
           /\ DOMAIN s = 1..Len(s) /\ Len(s) \in Nat /\ Len(s) > 0
           /\ DOMAIN Tail(s) = 1..(Len(s) - 1)
           /\ Len(s) = Len(Tail(s)) + 1
           /\ \A i \in 1..Len(Tail(s)) : Tail(s)[i] = s[i + 1]
           /\ \A S : CountIn(s, S) =
                        CountIn(Tail(s), S) + (IF Head(s) \in S THEN 1 ELSE 0)
<1>1. /\ Head(s) \in Step /\ Tail(s) \in Seq(Step) /\ Len(Tail(s)) = Len(s) - 1
      /\ \A i \in 1..Len(Tail(s)) : Tail(s)[i] = s[i + 1]
  BY HeadTailProperties
<1>2. DOMAIN s = 1..Len(s) /\ Len(s) \in Nat /\ Len(s) > 0
  BY LenProperties, EmptySeq
<1>3. DOMAIN Tail(s) = 1..Len(Tail(s))
  BY <1>1, LenProperties
<1>4. Head(s) = s[1]
  BY <1>2, SubSeqFull, HeadTailOfSubSeq
<1>5. ASSUME NEW S
      PROVE  CountIn(s, S) = CountIn(Tail(s), S) + (IF s[1] \in S THEN 1 ELSE 0)
  <2> DEFINE t == Tail(s)
  <2>1. /\ t \in Seq(Step) /\ Len(s) = Len(t) + 1
        /\ \A i \in 1..Len(t) : t[i] = s[i + 1]
    BY <1>1, <1>2
  <2> HIDE DEF t
  <2>2. CountIn(s, S) = CountIn(t, S) + (IF s[1] \in S THEN 1 ELSE 0)
    BY <2>1, CountShift
  <2> QED
    BY <2>2 DEF t
<1> QED
  BY <1>1, <1>2, <1>3, <1>4, <1>5

\* Two steps before t, neither of which the backend has to carry out.
LEMMA TwoBefore ==
    ASSUME NEW t \in Seq(Step), NEW x \in {"list", "create"}
    PROVE  LET s == <<"allow", x>> \o t IN
           /\ s \in Seq(Step)
           /\ DOMAIN s = 1..(Len(t) + 2) /\ DOMAIN t = 1..Len(t) /\ Len(t) \in Nat
           /\ s[1] = "allow" /\ s[2] = x
           /\ \A i \in 1..Len(t) : s[i + 2] = t[i]
           /\ CountIn(s, Mutating) = CountIn(t, Mutating)
<1> DEFINE s == <<"allow", x>> \o t
           u == <<x>> \o t
<1>1. /\ <<"allow", x>> \in Seq(Step) /\ <<x>> \in Seq(Step)
      /\ Len(<<"allow", x>>) = 2 /\ Len(<<x>>) = 1
  BY DEF Step, Exchange
<1>2. Len(t) \in Nat /\ DOMAIN t = 1..Len(t)
  BY LenProperties
<1>3. /\ s \in Seq(Step) /\ Len(s) = Len(t) + 2
      /\ \A i \in 1..(Len(t) + 2) :
            s[i] = IF i <= 2 THEN <<"allow", x>>[i] ELSE t[i - 2]
  BY <1>1, <1>2, ConcatProperties
<1>4. /\ u \in Seq(Step) /\ Len(u) = Len(t) + 1
      /\ \A i \in 1..(Len(t) + 1) : u[i] = IF i <= 1 THEN <<x>>[i] ELSE t[i - 1]
  BY <1>1, <1>2, ConcatProperties
<1>5. DOMAIN s = 1..(Len(t) + 2)
  BY <1>3, LenProperties
<1> HIDE DEF s, u
<1>6. s[1] = "allow" /\ s[2] = x /\ \A i \in 1..Len(t) : s[i + 2] = t[i]
  BY <1>2, <1>3
<1>7. u[1] = x /\ \A i \in 1..Len(t) : u[i + 1] = t[i]
  BY <1>2, <1>4
<1>8. CountIn(t, Mutating) \in Nat /\ CountIn(u, Mutating) \in Nat
  BY <1>4, CountIsNat
<1>9. CountIn(u, Mutating) = CountIn(t, Mutating)
  <2>1. x \notin Mutating
    BY DEF Mutating
  <2>2. CountIn(u, Mutating) = CountIn(t, Mutating) + (IF u[1] \in Mutating THEN 1 ELSE 0)
    BY <1>4, <1>7, CountShift
  <2> QED
    BY <1>4, <1>7, <2>1, <2>2, <1>8
<1>10. CountIn(s, Mutating) = CountIn(u, Mutating)
  <2>1. "allow" \notin Mutating
    BY DEF Mutating
  <2>2. \A i \in 1..Len(u) : u[i] = s[i + 1]
    BY <1>2, <1>3, <1>4
  <2>3. CountIn(s, Mutating) = CountIn(u, Mutating) + (IF s[1] \in Mutating THEN 1 ELSE 0)
    BY <1>2, <1>3, <1>4, <2>2, CountShift
  <2> QED
    BY <1>6, <2>1, <2>3, <1>8
<1> QED
  BY <1>2, <1>3, <1>5, <1>6, <1>9, <1>10 DEF s

-----------------------------------------------------------------------------
(* What the first step taken leaves.                                         *)

\* The layout of steps survives the first of them; the agent is not asked for
\* again.
LEMMA TailKeepsLayout ==
    ASSUME NEW s \in Seq(Step), s # <<>>, AsksFirst(s), IngestsLast(s)
    PROVE  /\ AsksFirst(Tail(s)) /\ IngestsLast(Tail(s))
           /\ Head(s) = "ensure" => \A i \in DOMAIN Tail(s) : Tail(s)[i] # "ensure"
           /\ Head(s) = "ingest" => \A i \in DOMAIN Tail(s) : Tail(s)[i] \notin Mutating
           /\ Head(s) \notin {"allow", "ensure"} => \A i \in DOMAIN s : s[i] # "ensure"
           /\ Outside(s) => Outside(Tail(s))
<1> DEFINE t == Tail(s)
<1>1. /\ Head(s) = s[1] /\ Len(s) \in Nat /\ Len(s) > 0 /\ DOMAIN s = 1..Len(s)
      /\ DOMAIN t = 1..(Len(s) - 1)
      /\ \A i \in DOMAIN t : t[i] = s[i + 1] /\ i + 1 \in DOMAIN s /\ 1 < i + 1
      /\ 1 \in DOMAIN s
  BY TailFits
<1> HIDE DEF t
<1>2. AsksFirst(t)
  <2> SUFFICES ASSUME NEW i \in DOMAIN t, t[i] = "ensure", NEW j \in DOMAIN t
               PROVE  IF j < i THEN t[j] = "allow" ELSE t[j] = "ensure" => j = i
    BY DEF AsksFirst
  <2>1. s[i + 1] = "ensure" /\ i + 1 \in DOMAIN s /\ j + 1 \in DOMAIN s /\ t[j] = s[j + 1]
    BY <1>1
  <2>2. IF j + 1 < i + 1 THEN s[j + 1] = "allow" ELSE s[j + 1] = "ensure" => j + 1 = i + 1
    BY <2>1 DEF AsksFirst
  <2> QED
    BY <1>1, <2>1, <2>2
<1>3. IngestsLast(t)
  <2> SUFFICES ASSUME NEW i \in DOMAIN t, NEW j \in DOMAIN t, t[i] = "ingest", i < j
               PROVE  t[j] \notin Mutating
    BY DEF IngestsLast
  <2>1. s[i + 1] = "ingest" /\ i + 1 \in DOMAIN s /\ j + 1 \in DOMAIN s /\ t[j] = s[j + 1]
    BY <1>1
  <2>2. i + 1 < j + 1
    BY <1>1
  <2> QED
    BY <2>1, <2>2 DEF IngestsLast
<1>4. ASSUME s[1] = "ensure", NEW i \in DOMAIN t
      PROVE  t[i] # "ensure"
  BY <1>1, <1>4 DEF AsksFirst
<1>5. ASSUME s[1] = "ingest", NEW i \in DOMAIN t
      PROVE  t[i] \notin Mutating
  BY <1>1, <1>5 DEF IngestsLast
<1>6. ASSUME s[1] \notin {"allow", "ensure"}, NEW i \in DOMAIN s
      PROVE  s[i] # "ensure"
  BY <1>1, <1>6 DEF AsksFirst
<1>7. Outside(s) => Outside(t)
  BY <1>1 DEF Outside
<1> QED
  BY <1>1, <1>2, <1>3, <1>4, <1>5, <1>6, <1>7 DEF t

\* Inside the Once the first step is Allow or that of an agent, and the latter is
\* the last taken there.
LEMMA InsideTail ==
    ASSUME NEW s \in Seq(Step), s # <<>>, Inside(s)
    PROVE  /\ \A i \in DOMAIN s : s[i] # "ensure"
           /\ Head(s) \in AgentStep => Outside(Tail(s))
           /\ Head(s) \notin AgentStep => Head(s) = "allow" /\ Inside(Tail(s))
           /\ Head(s) = "create" => agents = 0
<1> DEFINE t == Tail(s)
<1>1. /\ Head(s) = s[1] /\ Len(s) \in Nat /\ Len(s) > 0 /\ DOMAIN s = 1..Len(s)
      /\ DOMAIN t = 1..(Len(s) - 1)
      /\ \A i \in DOMAIN t : t[i] = s[i + 1] /\ i + 1 \in DOMAIN s /\ 1 < i + 1
      /\ 1 \in DOMAIN s
  BY TailFits
<1>2. PICK i \in DOMAIN s :
         /\ s[i] \in AgentStep
         /\ s[i] = "create" => agents = 0
         /\ i = 1 \/ (i = 2 /\ s[1] = "allow")
         /\ \A j \in DOMAIN s : s[j] # "ensure" /\ (s[j] \in AgentStep => j = i)
  BY DEF Inside
<1> HIDE DEF t
<1>3. CASE i = 1
  BY <1>1, <1>2, <1>3 DEF Outside, t
<1>4. CASE i = 2 /\ s[1] = "allow"
  <2>1. 1 \in DOMAIN t /\ t[1] = s[2]
    BY <1>1, <1>2, <1>4
  <2>2. \A j \in DOMAIN t : t[j] # "ensure" /\ (t[j] \in AgentStep => j = 1)
    BY <1>1, <1>2, <1>4
  <2>3. Inside(t)
    BY <1>2, <1>4, <2>1, <2>2 DEF Inside
  <2> QED
    BY <1>1, <1>2, <1>4, <2>3 DEF AgentStep, t
<1> QED
  BY <1>2, <1>3, <1>4

\* Every operation starts as IInv says, outside the Once.
LEMMA OperationsFit ==
    ASSUME NEW k \in Clients, NEW op \in Operations(k)
    PROVE  op \in Seq(Step) /\ AsksFirst(op) /\ IngestsLast(op) /\ Outside(op)
<1> DEFINE Fits(s) == s \in Seq(Step) /\ AsksFirst(s) /\ IngestsLast(s) /\ Outside(s)
<1>1. \A x \in Step \ (AgentStep \union {"ensure"}) : Fits(<<"allow", x>>)
  BY DEF AsksFirst, IngestsLast, Outside, Step, Exchange, Mutating, AgentStep
<1>2. \A x \in {"write", "read"} :
         Fits(<<"allow", "ensure", x>>) /\ Fits(<<"ensure", "allow", x>>)
  BY DEF AsksFirst, IngestsLast, Outside, Step, Exchange, Mutating, AgentStep
<1>3. Fits(CogneeAdd)
  BY DEF CogneeAdd, AsksFirst, IngestsLast, Outside, Step, Exchange, Mutating, AgentStep
<1>4. Fits(CogneeUpdate)
  <2> DEFINE a == <<"allow", "remove">>
             b == <<"allow", "ingest", "cognify">>
             w == <<"allow", "remove", "allow", "ingest", "cognify">>
  <2>1. a \in Seq(Step) /\ b \in Seq(Step) /\ w \in Seq(Step)
    BY DEF Step, Exchange
  <2>2. Len(a) = 2 /\ Len(b) = 3 /\ Len(w) = 5
    OBVIOUS
  <2>3. /\ a \o b \in Seq(Step) /\ Len(a \o b) = 5
        /\ \A i \in 1..5 : (a \o b)[i] = IF i <= 2 THEN a[i] ELSE b[i - 2]
    BY <2>1, <2>2, ConcatProperties
  <2>4. \A i \in 1..5 : (a \o b)[i] = w[i]
    BY <2>3
  <2>5. CogneeUpdate = w
    BY <2>1, <2>2, <2>3, <2>4, SeqEqual DEF CogneeUpdate, CogneeDelete, CogneeAdd
  <2> QED
    BY <2>5 DEF AsksFirst, IngestsLast, Outside, Step, Exchange, Mutating, AgentStep
<1>5. Fits(Mem0AddBatch)
  <2> DEFINE a == <<"allow">>
             b == <<"allow", "write">>
             w == <<"allow", "allow", "write", "allow", "write">>
  <2>1. a \in Seq(Step) /\ b \in Seq(Step) /\ w \in Seq(Step)
    BY DEF Step, Exchange
  <2>2. Len(a) = 1 /\ Len(b) = 2 /\ Len(w) = 5
    OBVIOUS
  <2>3. /\ a \o b \in Seq(Step) /\ Len(a \o b) = 3
        /\ \A i \in 1..3 : (a \o b)[i] = IF i <= 1 THEN a[i] ELSE b[i - 1]
    BY <2>1, <2>2, ConcatProperties
  <2>4. /\ (a \o b) \o b \in Seq(Step) /\ Len((a \o b) \o b) = 5
        /\ \A i \in 1..5 : ((a \o b) \o b)[i] = IF i <= 3 THEN (a \o b)[i] ELSE b[i - 3]
    BY <2>1, <2>2, <2>3, ConcatProperties
  <2>5. \A i \in 1..5 : ((a \o b) \o b)[i] = w[i]
    BY <2>3, <2>4
  <2>6. Mem0AddBatch = w
    BY <2>1, <2>2, <2>4, <2>5, SeqEqual DEF Mem0AddBatch, Mem0Add
  <2> QED
    BY <2>6 DEF AsksFirst, IngestsLast, Outside, Step, Exchange, Mutating, AgentStep
<1>6. Fits(LettaGetHistory)
  <2> DEFINE a == <<"allow">>
             b == <<"allow", "read">>
             w == <<"allow", "allow", "read">>
  <2>1. a \in Seq(Step) /\ b \in Seq(Step) /\ w \in Seq(Step)
    BY DEF Step, Exchange
  <2>2. Len(a) = 1 /\ Len(b) = 2 /\ Len(w) = 3
    OBVIOUS
  <2>3. /\ a \o b \in Seq(Step) /\ Len(a \o b) = 3
        /\ \A i \in 1..3 : (a \o b)[i] = IF i <= 1 THEN a[i] ELSE b[i - 1]
    BY <2>1, <2>2, ConcatProperties
  <2>4. \A i \in 1..3 : (a \o b)[i] = w[i]
    BY <2>3
  <2>5. LettaGetHistory = w
    BY <2>1, <2>2, <2>3, <2>4, SeqEqual DEF LettaGetHistory, LettaGetMessages
  <2> QED
    BY <2>5 DEF AsksFirst, IngestsLast, Outside, Step, Exchange, Mutating, AgentStep
<1>7. {"write", "read", "lookup", "remove"} \subseteq Step \ (AgentStep \union {"ensure"})
  BY DEF Step, Exchange, AgentStep
<1> HIDE DEF Fits
<1>8. \A s \in Mem0 : Fits(s)
  BY <1>1, <1>5, <1>7
     DEF Mem0, Mem0Add, Mem0Get, Mem0Update, Mem0Delete, Mem0DeleteAll, Mem0Search,
         Mem0GetHistory, Mem0GetMemoryHistory, Mem0CreateUser, Mem0GetUser,
         Mem0DeleteUser, Mem0CreateAgent, Mem0GetAgent, Mem0DeleteAgent,
         Mem0CreateWebhook, Mem0GetWebhook, Mem0DeleteWebhook
<1>9. \A s \in Cognee : Fits(s)
  BY <1>1, <1>3, <1>4, <1>7
     DEF Cognee, CogneeSearch, CogneeGet, CogneeDelete, CogneeGetHistory,
         CogneeCreateDataset, CogneeListDatasets
<1>10. \A s \in Graphiti : Fits(s)
  BY <1>1, <1>7
     DEF Graphiti, GraphitiAdd, GraphitiSearch, GraphitiGet, GraphitiUpdate,
         GraphitiDelete, GraphitiGetHistory, GraphitiSearchTemporal,
         GraphitiGetTimeline, GraphitiInvalidateAt
<1>11. \A s \in Letta : Fits(s)
  BY <1>1, <1>2, <1>6, <1>7
     DEF Letta, LettaCreateAgent, LettaGetAgent, LettaListAgents, LettaDeleteAgent,
         LettaSendMessage, LettaGetMessages, LettaGetMemoryBlock,
         LettaUpdateMemoryBlock, LettaCreateSource, LettaUploadFileToSource,
         LettaAttachSourceToAgent, LettaAdd, LettaGet, LettaUpdate, LettaDelete,
         LettaSearch, LettaGetCoreMemory, LettaUpdateCoreMemory
<1>12. Fits(op)
  BY <1>8, <1>9, <1>10, <1>11, ClientsAssumption DEF ClientsAssumption, Operations
<1> QED
  BY <1>12 DEF Fits

\* The methods of the breaker keep its fields in their types, and close a
\* half-open circuit at the last success.
LEMMA BreakerKeeps ==
    ASSUME BreakerTypeOK, ProbationIsOpen,
           \/ AllowTrue \/ AllowFalse \/ RecordSuccess \/ RecordFailure \/ Tick
           \/ UNCHANGED breakerVars
    PROVE  BreakerTypeOK' /\ ProbationIsOpen'
<1> USE BreakerAssumption
    DEF BreakerAssumption, BreakerTypeOK, ProbationIsOpen, CircuitState, halfOpenMax,
        breakerVars
<1>1. CASE AllowTrue
  BY <1>1 DEF AllowTrue, TimeoutElapsed
<1>2. CASE AllowFalse
  BY <1>2 DEF AllowFalse
<1>3. CASE RecordSuccess
  BY <1>3 DEF RecordSuccess
<1>4. CASE RecordFailure
  BY <1>4 DEF RecordFailure, Bump
<1>5. CASE Tick
  BY <1>5 DEF Tick, TimeoutElapsed
<1>6. CASE UNCHANGED breakerVars
  BY <1>6
<1> QED
  BY <1>1, <1>2, <1>3, <1>4, <1>5, <1>6

-----------------------------------------------------------------------------
(* The steps of the callers.                                                 *)

\* A step of c leaves the other callers as they are: the Once is not taken from
\* them, and an agent is created by its owner.
LEMMA OthersFit ==
    ASSUME IInv, NEW c \in Callers,
           \A d \in Callers \ {c} :
              /\ todo'[d] = todo[d] /\ agentless'[d] = agentless[d] /\ owed'[d] = owed[d]
              /\ d \in owner' <=> d \in owner,
           agents' = agents \/ c \in owner,
           once = "done" /\ ~ensureErr => once' = "done" /\ ~ensureErr'
    PROVE  \A d \in Callers \ {c} : CallerFits(d)'
<1> SUFFICES ASSUME NEW d \in Callers, d # c
             PROVE  CallerFits(d)'
  OBVIOUS
<1>1. /\ todo'[d] = todo[d] /\ agentless'[d] = agentless[d] /\ owed'[d] = owed[d]
      /\ d \in owner' <=> d \in owner
      /\ CallerFits(d)
  BY DEF IInv
<1>2. d \in owner => agents' = agents
  BY DEF IInv, OnceFits
<1>3. IF d \in owner' THEN Inside(todo[d])' ELSE Outside(todo[d])'
  <2>1. CASE d \in owner
    <3>1. Inside(todo[d])
      BY <1>1, <2>1 DEF CallerFits
    <3> QED
      BY <1>1, <1>2, <2>1, <3>1 DEF Inside
  <2>2. CASE d \notin owner
    <3>1. Outside(todo[d])
      BY <1>1, <2>2 DEF CallerFits
    <3> QED
      BY <1>1, <2>2, <3>1 DEF Outside
  <2> QED
    BY <2>1, <2>2
<1>4. AsksFirst(todo[d])' /\ IngestsLast(todo[d])'
  BY <1>1 DEF CallerFits, AsksFirst, IngestsLast
<1>5. owed'[d] = CountIn(todo'[d], Mutating)
  BY <1>1 DEF CallerFits
<1>6. agentless'[d] /\ todo'[d] # <<>> =>
         \/ \E i \in DOMAIN todo'[d] : todo'[d][i] = "ensure"
         \/ d \in owner'
         \/ once' = "done" /\ ~ensureErr'
  BY <1>1 DEF CallerFits, Busy
<1> QED
  BY <1>3, <1>4, <1>5, <1>6 DEF CallerFits, Busy

\* A caller with nothing to do, who is not inside the Once and owes nothing.
LEMMA IdleFits ==
    ASSUME NEW c, todo'[c] = <<>>, c \notin owner', owed'[c] = 0
    PROVE  CallerFits(c)'
<1>1. DOMAIN <<>> = {} /\ <<>> \in Seq(Step)
  OBVIOUS
<1>2. CountIn(<<>>, Mutating) = 0
  BY <1>1, CountIsNat
<1>3. AsksFirst(todo[c])' /\ IngestsLast(todo[c])' /\ Outside(todo[c])'
  BY <1>1 DEF AsksFirst, IngestsLast, Outside
<1> QED
  BY <1>2, <1>3 DEF CallerFits, Busy

\* Returning an error ends the operation and, inside the Once, spends it.
LEMMA ReturnErrKeeps ==
    ASSUME IInv, NEW c \in Callers, ReturnErr(c),
           c \in owner \/ agents' = agents,
           agents' = agents \/ (agents = 0 /\ agents' = 1),
           BreakerTypeOK', ProbationIsOpen', client' = client, doomed' \subseteq Callers
    PROVE  IInv'
<1> USE DEF ReturnErr
<1>1. TypeOK' /\ agents' \in Nat /\ OneAgent'
  <2>1. todo' \in [Callers -> Seq(Step)]
    <3>1. <<>> \in Seq(Step)
      OBVIOUS
    <3> QED
      BY <3>1 DEF IInv, TypeOK
  <2>2. agentless' \in [Callers -> BOOLEAN] /\ owed' \in [Callers -> Nat]
    BY DEF IInv, TypeOK
  <2>3. once' \in {"fresh", "running", "done"} /\ owner' \subseteq Callers
    BY DEF IInv, TypeOK
  <2>4. ensureErr' \in BOOLEAN
    BY DEF IInv, TypeOK
  <2>5. agents' \in Nat /\ agents' <= 1
    BY DEF IInv, OneAgent
  <2> QED
    BY <2>1, <2>2, <2>3, <2>4, <2>5 DEF IInv, TypeOK, OneAgent
<1>2. /\ todo'[c] = <<>> /\ owed'[c] = 0 /\ c \notin owner'
      /\ \A d \in Callers \ {c} :
            /\ todo'[d] = todo[d] /\ agentless'[d] = agentless[d] /\ owed'[d] = owed[d]
            /\ d \in owner' <=> d \in owner
  BY DEF IInv, TypeOK
<1>3. once = "done" /\ ~ensureErr => once' = "done" /\ ~ensureErr'
  BY DEF IInv, OnceFits
<1>4. OnceFits'
  BY DEF IInv, OnceFits, TypeOK
<1>5. CallerFits(c)'
  BY <1>2, IdleFits
<1>6. \A d \in Callers \ {c} : CallerFits(d)'
  BY <1>2, <1>3, OthersFit
<1> QED
  BY <1>1, <1>4, <1>5, <1>6 DEF IInv

\* Going on to the next step, outside the Once or after its Allow; an agent that
\* was asked for is there.
LEMMA ContinueKeeps ==
    ASSUME IInv, NEW c \in Callers, Busy(c),
           Head(todo[c]) \notin AgentStep,
           Head(todo[c]) = "ensure" => once = "done" /\ ~ensureErr,
           todo' = [todo EXCEPT ![c] = Tail(todo[c])],
           owed' = IF Head(todo[c]) \in Mutating THEN [owed EXCEPT ![c] = @ - 1] ELSE owed,
           UNCHANGED <<agentless, client, letta>>,
           BreakerTypeOK', ProbationIsOpen', doomed' \subseteq Callers
    PROVE  IInv'
<1> DEFINE s == todo[c]
           t == Tail(todo[c])
<1>1. s \in Seq(Step) /\ s # <<>> /\ CallerFits(c)
  BY DEF IInv, TypeOK, Busy
<1>2. /\ t \in Seq(Step)
      /\ Head(s) = s[1]
      /\ DOMAIN s = 1..Len(s) /\ DOMAIN t = 1..(Len(s) - 1) /\ Len(s) \in Nat
      /\ \A i \in DOMAIN t : t[i] = s[i + 1]
      /\ CountIn(s, Mutating) =
            CountIn(t, Mutating) + (IF Head(s) \in Mutating THEN 1 ELSE 0)
  BY <1>1, TailFits
<1>3. CountIn(t, Mutating) \in Nat
  BY <1>2, CountIsNat
<1>4. owed[c] = CountIn(s, Mutating) /\ owed \in [Callers -> Nat]
  BY <1>1 DEF IInv, TypeOK, CallerFits
<1>5. owed' \in [Callers -> Nat] /\ owed'[c] = CountIn(t, Mutating)
  <2> HIDE DEF s, t
  <2>1. CASE Head(s) \in Mutating
    <3>1. owed' = [owed EXCEPT ![c] = @ - 1] /\ owed[c] = CountIn(t, Mutating) + 1
      BY <1>2, <1>4, <2>1 DEF s
    <3> QED
      BY <1>3, <1>4, <3>1
  <2>2. CASE Head(s) \notin Mutating
    BY <1>2, <1>3, <1>4, <2>2 DEF s
  <2> QED
    BY <2>1, <2>2
<1>6. /\ todo' \in [Callers -> Seq(Step)] /\ todo'[c] = t
      /\ \A d \in Callers \ {c} :
            /\ todo'[d] = todo[d] /\ agentless'[d] = agentless[d] /\ owed'[d] = owed[d]
            /\ d \in owner' <=> d \in owner
  BY <1>2 DEF IInv, TypeOK, letta
<1>7. TypeOK' /\ agents' \in Nat /\ OneAgent' /\ OnceFits'
  BY <1>5, <1>6 DEF IInv, TypeOK, OneAgent, OnceFits, letta
<1>8. AsksFirst(t) /\ IngestsLast(t)
  BY <1>1, TailKeepsLayout DEF CallerFits
<1>9. IF c \in owner THEN Inside(t) ELSE Outside(t)
  <2>1. CASE c \in owner
    BY <1>1, <2>1, InsideTail DEF CallerFits
  <2>2. CASE c \notin owner
    BY <1>1, <2>2, TailKeepsLayout DEF CallerFits
  <2> QED
    BY <2>1, <2>2
<1>10. agentless[c] /\ t # <<>> =>
         \/ \E i \in DOMAIN t : t[i] = "ensure"
         \/ c \in owner
         \/ once = "done" /\ ~ensureErr
  <2> SUFFICES ASSUME agentless[c], NEW i \in DOMAIN s, s[i] = "ensure",
                      Head(s) # "ensure"
               PROVE  \E j \in DOMAIN t : t[j] = "ensure"
    BY <1>1 DEF CallerFits, Busy
  <2> HIDE DEF s, t
  <2>1. i # 1 /\ i - 1 \in DOMAIN t /\ t[i - 1] = s[i]
    BY <1>2
  <2> QED
    BY <2>1
<1> HIDE DEF s, t
<1>11. CallerFits(c)'
  <2>1. AsksFirst(todo'[c]) /\ IngestsLast(todo'[c])
    BY <1>6, <1>8
  <2>2. IF c \in owner' THEN Inside(todo[c])' ELSE Outside(todo[c])'
    <3>1. todo'[c] = t /\ agents' = agents /\ owner' = owner
      BY <1>6 DEF letta
    <3>2. Inside(t) => Inside(todo[c])'
      BY <3>1 DEF Inside
    <3>3. Outside(t) => Outside(todo[c])'
      BY <3>1 DEF Outside
    <3> QED
      BY <1>9, <3>1, <3>2, <3>3
  <2>3. owed'[c] = CountIn(todo'[c], Mutating)
    BY <1>5, <1>6
  <2>4. agentless'[c] /\ todo'[c] # <<>> =>
         \/ \E i \in DOMAIN todo'[c] : todo'[c][i] = "ensure"
         \/ c \in owner'
         \/ once' = "done" /\ ~ensureErr'
    BY <1>6, <1>10 DEF letta
  <2> QED
    BY <2>1, <2>2, <2>3, <2>4 DEF CallerFits, Busy, AsksFirst, IngestsLast
<1>12. \A d \in Callers \ {c} : CallerFits(d)'
  BY <1>6, OthersFit DEF letta
<1> QED
  BY <1>7, <1>11, <1>12 DEF IInv

\* Leaving the Once with the agent listed or created.
LEMMA LeaveKeeps ==
    ASSUME IInv, NEW c \in Callers, Busy(c),
           Head(todo[c]) \in AgentStep,
           LeaveOnce(c), todo' = [todo EXCEPT ![c] = Tail(todo[c])],
           agents' = agents \/ (agents = 0 /\ agents' = 1),
           UNCHANGED <<agentless, owed, client>>,
           BreakerTypeOK', ProbationIsOpen', doomed' \subseteq Callers
    PROVE  IInv' /\ c \in owner
<1> DEFINE s == todo[c]
           t == Tail(todo[c])
<1>1. s \in Seq(Step) /\ s # <<>> /\ CallerFits(c)
  BY DEF IInv, TypeOK, Busy
<1>2. /\ t \in Seq(Step)
      /\ Head(s) = s[1] /\ 1 \in DOMAIN s
      /\ CountIn(s, Mutating) =
            CountIn(t, Mutating) + (IF Head(s) \in Mutating THEN 1 ELSE 0)
  BY <1>1, TailFits
<1>3. c \in owner /\ Inside(s)
  BY <1>1, <1>2 DEF CallerFits, Outside
<1>4. Outside(t)
  BY <1>1, <1>3, InsideTail
<1>5. AsksFirst(t) /\ IngestsLast(t)
  BY <1>1, TailKeepsLayout DEF CallerFits
<1>6. owed[c] = CountIn(t, Mutating)
  <2>1. Head(s) \notin Mutating
    BY DEF AgentStep, Mutating
  <2>2. CountIn(t, Mutating) \in Nat
    BY <1>2, CountIsNat
  <2> QED
    BY <1>1, <1>2, <2>1, <2>2 DEF CallerFits
<1>7. once = "running" /\ ~ensureErr /\ owner' = {} /\ once' = "done" /\ ~ensureErr'
  <2>1. once = "running" /\ \A d \in owner : d = c
    BY <1>3 DEF IInv, OnceFits
  <2> QED
    BY <1>3, <2>1 DEF IInv, OnceFits, TypeOK, LeaveOnce
<1>8. /\ todo' \in [Callers -> Seq(Step)] /\ todo'[c] = t
      /\ \A d \in Callers \ {c} :
            /\ todo'[d] = todo[d] /\ agentless'[d] = agentless[d] /\ owed'[d] = owed[d]
            /\ d \in owner' <=> d \in owner
  BY <1>2, <1>3, <1>7 DEF IInv, TypeOK, OnceFits
<1>9. TypeOK' /\ agents' \in Nat /\ OneAgent' /\ OnceFits'
  <2>1. TypeOK'
    BY <1>7, <1>8 DEF IInv, TypeOK, LeaveOnce
  <2>2. agents' \in Nat /\ OneAgent'
    BY DEF IInv, OneAgent
  <2>3. OnceFits'
    BY <1>7 DEF OnceFits
  <2> QED
    BY <2>1, <2>2, <2>3
<1> HIDE DEF s, t
<1>10. CallerFits(c)'
  <2>1. Outside(todo[c])' /\ c \notin owner'
    BY <1>4, <1>7, <1>8 DEF Outside
  <2> QED
    BY <1>5, <1>6, <1>7, <1>8, <2>1 DEF CallerFits, AsksFirst, IngestsLast
<1>11. \A d \in Callers \ {c} : CallerFits(d)'
  BY <1>3, <1>7, <1>8, OthersFit
<1> QED
  BY <1>3, <1>9, <1>10, <1>11 DEF IInv

\* Two steps of the Once, and what is left after them: x lists or creates agents.
LEMMA OnceSteps ==
    ASSUME NEW t \in Seq(Step), NEW x \in AgentStep, Outside(t),
           \A i \in DOMAIN t : t[i] # "ensure", IngestsLast(t),
           x = "create" => agents = 0
    PROVE  LET s == <<"allow", x>> \o t IN
           /\ s \in Seq(Step) /\ AsksFirst(s) /\ IngestsLast(s) /\ Inside(s)
           /\ CountIn(s, Mutating) = CountIn(t, Mutating)
<1> DEFINE s == <<"allow", x>> \o t
<1>1. /\ s \in Seq(Step)
      /\ DOMAIN s = 1..(Len(t) + 2) /\ DOMAIN t = 1..Len(t) /\ Len(t) \in Nat
      /\ s[1] = "allow" /\ s[2] = x
      /\ \A i \in 1..Len(t) : s[i + 2] = t[i]
      /\ CountIn(s, Mutating) = CountIn(t, Mutating)
  BY TwoBefore DEF AgentStep
<1> HIDE DEF s
<1>2. \A i \in DOMAIN s : i # 1 /\ i # 2 => i - 2 \in DOMAIN t /\ s[i] = t[i - 2]
  <2> SUFFICES ASSUME NEW i \in DOMAIN s, i # 1, i # 2
               PROVE  i - 2 \in DOMAIN t /\ s[i] = t[i - 2]
    OBVIOUS
  <2>1. i - 2 \in 1..Len(t) /\ (i - 2) + 2 = i
    BY <1>1
  <2> QED
    BY <1>1, <2>1
<1>3. \A i \in DOMAIN s : s[i] # "ensure" /\ (s[i] \in AgentStep => i = 2)
  BY <1>1, <1>2 DEF Outside, AgentStep
<1>4. AsksFirst(s)
  BY <1>3 DEF AsksFirst
<1>5. Inside(s)
  <2>1. 2 \in DOMAIN s
    BY <1>1
  <2> QED
    BY <1>1, <1>3, <2>1 DEF Inside
<1>6. IngestsLast(s)
  <2> SUFFICES ASSUME NEW i \in DOMAIN s, NEW j \in DOMAIN s, s[i] = "ingest", i < j
               PROVE  s[j] \notin Mutating
    BY DEF IngestsLast
  <2>1. i # 1 /\ i # 2 /\ j # 1 /\ j # 2
    BY <1>1 DEF AgentStep
  <2>2. /\ i - 2 \in DOMAIN t /\ t[i - 2] = "ingest"
        /\ j - 2 \in DOMAIN t /\ t[j - 2] = s[j]
    BY <1>2, <2>1
  <2>3. i - 2 < j - 2
    BY <1>1
  <2> QED
    BY <2>2, <2>3 DEF IngestsLast
<1> QED
  BY <1>1, <1>4, <1>5, <1>6 DEF s

\* Going into the Once, and going on from the list to a new agent.
LEMMA OnceKeeps ==
    ASSUME IInv, NEW c \in Callers, NEW x \in AgentStep, Busy(c),
           todo' = [todo EXCEPT ![c] = <<"allow", x>> \o Tail(todo[c])],
           \/ Head(todo[c]) = "ensure" /\ once = "fresh"
           \/ Head(todo[c]) \in AgentStep,
           x = "create" => agents = 0,
           once' = "running", owner' = owner \union {c},
           UNCHANGED <<agentless, owed, client, ensureErr, agents>>,
           BreakerTypeOK', ProbationIsOpen', doomed' \subseteq Callers
    PROVE  IInv'
<1> DEFINE s == todo[c]
           t == Tail(todo[c])
           u == <<"allow", x>> \o t
<1>1. s \in Seq(Step) /\ s # <<>> /\ CallerFits(c)
  BY DEF IInv, TypeOK, Busy
<1>2. /\ t \in Seq(Step)
      /\ Head(s) = s[1] /\ 1 \in DOMAIN s
      /\ CountIn(s, Mutating) =
            CountIn(t, Mutating) + (IF Head(s) \in Mutating THEN 1 ELSE 0)
  BY <1>1, TailFits
<1>3. /\ Outside(t)
      /\ \A i \in DOMAIN t : t[i] # "ensure"
      /\ Head(s) = "ensure" => c \notin owner
      /\ Head(s) \in AgentStep => c \in owner
  <2>1. CASE c \in owner
    <3>1. Inside(s)
      BY <1>1, <2>1 DEF CallerFits
    <3>2. s[1] # "ensure" /\ Head(s) \in AgentStep /\ Outside(t)
      BY <1>1, <1>2, <3>1, InsideTail
    <3>3. \A i \in DOMAIN s : s[i] # "ensure"
      BY <1>1, <3>1, InsideTail
    <3>4. \A i \in DOMAIN t : t[i] # "ensure"
      <4>1. Len(s) \in Nat /\ DOMAIN s = 1..Len(s) /\ DOMAIN t = 1..(Len(s) - 1)
            /\ \A i \in DOMAIN t : t[i] = s[i + 1]
        BY <1>1, TailFits
      <4> HIDE DEF s, t
      <4> QED
        BY <3>3, <4>1
    <3> QED
      BY <1>2, <2>1, <3>2, <3>4
  <2>2. CASE c \notin owner
    <3>1. Outside(s) /\ AsksFirst(s) /\ IngestsLast(s)
      BY <1>1, <2>2 DEF CallerFits
    <3>2. Head(s) \notin AgentStep
      BY <1>2, <3>1 DEF Outside
    <3> QED
      BY <1>1, <2>2, <3>1, <3>2, TailKeepsLayout
  <2> QED
    BY <2>1, <2>2
<1>4. AsksFirst(t) /\ IngestsLast(t)
  BY <1>1, TailKeepsLayout DEF CallerFits
<1>5. /\ u \in Seq(Step) /\ AsksFirst(u) /\ IngestsLast(u) /\ Inside(u)
      /\ CountIn(u, Mutating) = CountIn(t, Mutating)
  BY <1>2, <1>3, <1>4, OnceSteps
<1>6. owed[c] = CountIn(t, Mutating)
  <2>1. Head(s) \notin Mutating
    BY DEF AgentStep, Mutating
  <2>2. CountIn(t, Mutating) \in Nat
    BY <1>2, CountIsNat
  <2> QED
    BY <1>1, <1>2, <2>1, <2>2 DEF CallerFits
<1>7. once # "done" /\ \A d \in owner' : d = c
  BY <1>3 DEF IInv, OnceFits, AgentStep
<1>8. /\ todo' \in [Callers -> Seq(Step)] /\ todo'[c] = u
      /\ \A d \in Callers \ {c} :
            /\ todo'[d] = todo[d] /\ agentless'[d] = agentless[d] /\ owed'[d] = owed[d]
            /\ d \in owner' <=> d \in owner
  BY <1>5 DEF IInv, TypeOK
<1>9. TypeOK' /\ agents' \in Nat /\ OneAgent' /\ OnceFits'
  BY <1>7, <1>8 DEF IInv, TypeOK, OneAgent, OnceFits
<1> HIDE DEF s, t, u
<1>10. CallerFits(c)'
  <2>1. Inside(todo[c])' /\ c \in owner'
    <3>1. todo'[c] = u /\ agents' = agents
      BY <1>8
    <3> QED
      BY <1>5, <3>1 DEF Inside
  <2> QED
    BY <1>5, <1>6, <1>8, <2>1 DEF CallerFits, AsksFirst, IngestsLast
<1>11. \A d \in Callers \ {c} : CallerFits(d)'
  BY <1>7, <1>8, OthersFit
<1> QED
  BY <1>9, <1>10, <1>11 DEF IInv

\* Starting an operation.
LEMMA StartKeeps ==
    ASSUME IInv, NEW c \in Callers, NEW op \in Operations(client), Start(c, op)
    PROVE  IInv'
<1>1. /\ op \in Seq(Step) /\ AsksFirst(op) /\ IngestsLast(op) /\ Outside(op)
  BY OperationsFit DEF IInv, TypeOK
<1>2. CountIn(op, Mutating) \in Nat /\ CountIn(op, {"ensure"}) \in Nat
  BY <1>1, CountIsNat
<1>3. /\ todo' \in [Callers -> Seq(Step)] /\ todo'[c] = op
      /\ owed' \in [Callers -> Nat] /\ owed'[c] = CountIn(op, Mutating)
      /\ agentless' \in [Callers -> BOOLEAN]
      /\ agentless'[c] = (CountIn(op, {"ensure"}) > 0)
      /\ \A d \in Callers \ {c} :
            /\ todo'[d] = todo[d] /\ agentless'[d] = agentless[d] /\ owed'[d] = owed[d]
      /\ UNCHANGED <<breakerVars, client, letta, recovered, doomed>>
  BY <1>1, <1>2 DEF IInv, TypeOK, Start
<1>4. c \notin owner
  <2>1. todo[c] = <<>> /\ DOMAIN <<>> = {}
    BY DEF Start, Busy
  <2>2. ~Inside(<<>>)
    BY <2>1 DEF Inside
  <2> QED
    BY <2>1, <2>2 DEF IInv, CallerFits
<1>5. agentless'[c] => \E i \in DOMAIN op : op[i] = "ensure"
  <2>1. (\A i \in DOMAIN op : op[i] \notin {"ensure"}) <=> CountIn(op, {"ensure"}) = 0
    BY <1>1, CountIsNat
  <2> QED
    BY <1>2, <1>3, <2>1
<1>6. BreakerTypeOK' /\ ProbationIsOpen'
  BY <1>3, BreakerKeeps DEF IInv, TypeOK
<1>7. TypeOK' /\ agents' \in Nat /\ OneAgent' /\ OnceFits'
  BY <1>3, <1>6 DEF IInv, TypeOK, OneAgent, OnceFits, letta
<1>8. CallerFits(c)'
  <2>1. Outside(todo[c])' /\ c \notin owner'
    BY <1>1, <1>3, <1>4 DEF Outside, letta
  <2> QED
    BY <1>1, <1>3, <1>5, <2>1 DEF CallerFits, AsksFirst, IngestsLast
<1>9. \A d \in Callers \ {c} : CallerFits(d)'
  BY <1>3, OthersFit DEF letta
<1> QED
  BY <1>6, <1>7, <1>8, <1>9 DEF IInv

\* What an exchange that lets its operation go on, or end well, has done.
LEMMA VerdictFacts ==
    ASSUME NEW x \in Exchange, NEW r \in Reply, NEW done \in CarriedOut(x, r)
    PROVE  /\ done \in BOOLEAN
           /\ Verdict(x, r) \in {"success", "pending", "accepted"} /\ x \in Mutating => done
           /\ Verdict(x, r) = "accepted" => x = "ingest"
<1>1. done \in BOOLEAN
  BY DEF CarriedOut
<1>2. CASE x = "write"
  BY <1>1, <1>2 DEF Reply, CarriedOut, Verdict, WriteVerdict
<1>3. CASE x \in {"read", "list", "create"}
  BY <1>1, <1>3 DEF Reply, Verdict, ReadVerdict, WriteVerdict, Mutating
<1>4. CASE x = "lookup"
  BY <1>1, <1>4 DEF Reply, Verdict, LookupVerdict, ReadVerdict, WriteVerdict, Mutating
<1>5. CASE x = "remove"
  BY <1>1, <1>5 DEF Reply, CarriedOut, Verdict, RemoveVerdict, WriteVerdict
<1>6. CASE x = "ingest"
  BY <1>1, <1>6 DEF Reply, CarriedOut, Verdict, IngestVerdict
<1>7. CASE x = "cognify"
  BY <1>1, <1>7 DEF Reply, Verdict, CognifyVerdict, Mutating
<1> QED
  BY <1>2, <1>3, <1>4, <1>5, <1>6, <1>7 DEF Exchange

\* The caller at an exchange that creates an agent is inside the Once, and there
\* is no agent.
LEMMA CreatorIsOwner ==
    ASSUME IInv, NEW c \in Callers, InExchange(c), Head(todo[c]) = "create"
    PROVE  c \in owner /\ agents = 0
<1>1. todo[c] \in Seq(Step) /\ todo[c] # <<>> /\ CallerFits(c)
  BY DEF IInv, TypeOK, InExchange, Busy
<1>2. todo[c][1] = "create" /\ 1 \in DOMAIN todo[c]
  BY <1>1, TailFits
<1>3. c \in owner /\ Inside(todo[c])
  BY <1>1, <1>2 DEF CallerFits, Outside, AgentStep
<1> QED
  BY <1>1, <1>3, InsideTail

\* An exchange that ends well keeps IInv.
LEMMA AnsweredKeeps ==
    ASSUME IInv, NEW c \in Callers, Answered(c)
    PROVE  IInv'
<1> DEFINE x == Head(todo[c])
<1>1. Busy(c) /\ x \in Exchange /\ InExchange(c)
  BY DEF Answered, InExchange
<1>reply. PICK r \in Replies(c, x) : \E done \in CarriedOut(x, r) :
          /\ \/ /\ Verdict(x, r) = "success"
                /\ RecordSuccess
                /\ Proceed(c, x)
             \/ /\ Verdict(x, r) = "pending"
                /\ UNCHANGED breakerVars
                /\ Proceed(c, x)
             \/ /\ Verdict(x, r) = "accepted"
                /\ RecordSuccess
                /\ todo' = [todo EXCEPT ![c] = <<>>]
                /\ UNCHANGED <<once, owner, ensureErr>>
          /\ owed' = IF x \in Mutating /\ done
                     THEN [owed EXCEPT ![c] = @ - 1] ELSE owed
          /\ agents' = IF x = "create" /\ done THEN agents + 1 ELSE agents
  BY DEF Answered
<1>2. PICK done \in CarriedOut(x, r) :
          /\ \/ /\ Verdict(x, r) = "success"
                /\ RecordSuccess
                /\ Proceed(c, x)
             \/ /\ Verdict(x, r) = "pending"
                /\ UNCHANGED breakerVars
                /\ Proceed(c, x)
             \/ /\ Verdict(x, r) = "accepted"
                /\ RecordSuccess
                /\ todo' = [todo EXCEPT ![c] = <<>>]
                /\ UNCHANGED <<once, owner, ensureErr>>
          /\ owed' = IF x \in Mutating /\ done
                     THEN [owed EXCEPT ![c] = @ - 1] ELSE owed
          /\ agents' = IF x = "create" /\ done THEN agents + 1 ELSE agents
  BY <1>reply
<1>3. doomed' \subseteq Callers /\ UNCHANGED <<client, agentless>>
  BY DEF Answered, IInv, TypeOK
<1>4. r \in Reply
  BY DEF Replies, Reply
<1>5. /\ done \in BOOLEAN
      /\ x \in Mutating => done
      /\ Verdict(x, r) = "accepted" => x = "ingest"
  BY <1>1, <1>2, <1>4, VerdictFacts
<1>6. BreakerTypeOK' /\ ProbationIsOpen'
  BY <1>2, BreakerKeeps DEF IInv, TypeOK
<1>7. x = "create" => c \in owner /\ agents = 0
  BY <1>1, CreatorIsOwner
<1>8. agents' = agents \/ (x = "create" /\ agents = 0 /\ agents' = 1)
  BY <1>2, <1>7
<1>9. owed' = IF x \in Mutating THEN [owed EXCEPT ![c] = @ - 1] ELSE owed
  BY <1>2, <1>5
<1>10. Verdict(x, r) = "accepted" \/ Proceed(c, x)
  BY <1>2
<1> HIDE DEF x
<1>11. CASE x = "create" /\ Proceed(c, x)
  <2>1. LeaveOnce(c) /\ todo' = [todo EXCEPT ![c] = Tail(todo[c])]
    BY <1>11 DEF Proceed
  <2>2. UNCHANGED <<agentless, owed, client>>
    BY <1>3, <1>9, <1>11 DEF Mutating
  <2> QED
    BY <1>1, <1>3, <1>6, <1>8, <1>11, <2>1, <2>2, LeaveKeeps DEF AgentStep, x
<1>12. CASE x = "list" /\ Proceed(c, x)
  <2>1. ListAnswered(c)
    BY <1>12 DEF Proceed
  <2>2. UNCHANGED <<agentless, owed, client, agents>>
    BY <1>3, <1>8, <1>9, <1>12 DEF Mutating
  <2>3. CASE agents > 0
    BY <1>1, <1>3, <1>6, <1>12, <2>1, <2>2, <2>3, LeaveKeeps
       DEF AgentStep, ListAnswered, x
  <2>4. CASE ~(agents > 0)
    <3>1. agents = 0
      BY <2>4 DEF IInv
    <3>2. /\ todo' = [todo EXCEPT ![c] = <<"allow", "create">> \o Tail(todo[c])]
          /\ UNCHANGED <<once, owner, ensureErr>>
      BY <2>1, <2>4 DEF ListAnswered, EnsureCreate
    <3>3. c \in owner
      <4>1. todo[c] \in Seq(Step) /\ todo[c] # <<>> /\ CallerFits(c)
        BY <1>1 DEF IInv, TypeOK, Busy
      <4>2. todo[c][1] = "list" /\ 1 \in DOMAIN todo[c]
        BY <1>12, <4>1, TailFits DEF x
      <4> QED
        BY <4>1, <4>2 DEF CallerFits, Outside, AgentStep
    <3>4. once' = "running" /\ owner' = owner \union {c}
      BY <3>2, <3>3 DEF IInv, OnceFits
    <3> QED
      BY <1>1, <1>3, <1>6, <1>12, <2>2, <3>1, <3>2, <3>4, OnceKeeps DEF AgentStep, x
  <2> QED
    BY <2>3, <2>4
<1>13. CASE x \notin {"list", "create"} /\ Proceed(c, x)
  <2>1. /\ todo' = [todo EXCEPT ![c] = Tail(todo[c])]
        /\ UNCHANGED <<once, owner, ensureErr>>
    BY <1>13 DEF Proceed
  <2>2. agents' = agents
    BY <1>8, <1>13
  <2>3. x \notin AgentStep /\ x # "ensure"
    BY <1>1, <1>13 DEF AgentStep, Exchange
  <2> QED
    BY <1>1, <1>3, <1>6, <1>9, <2>1, <2>2, <2>3, ContinueKeeps DEF letta, x
<1>14. CASE Verdict(x, r) = "accepted"
  <2>1. x = "ingest"
    BY <1>5, <1>14
  <2>2. todo' = [todo EXCEPT ![c] = <<>>] /\ UNCHANGED <<once, owner, ensureErr, agents>>
    BY <1>2, <1>8, <1>14, <2>1 DEF x
  <2>3. owed' = [owed EXCEPT ![c] = @ - 1]
    BY <1>9, <2>1 DEF Mutating
  <2>4. todo[c] \in Seq(Step) /\ todo[c] # <<>> /\ CallerFits(c) /\ Head(todo[c]) = "ingest"
    BY <1>1, <2>1 DEF IInv, TypeOK, Busy, x
  <2>5. c \notin owner
    BY <2>4, InsideTail DEF CallerFits, AgentStep
  <2>6. owed[c] = 1
    <3>1. Tail(todo[c]) \in Seq(Step)
      BY <2>4, TailFits
    <3>2. CountIn(Tail(todo[c]), Mutating) = 0
      BY <2>4, <3>1, TailKeepsLayout, CountIsNat DEF CallerFits
    <3>3. CountIn(todo[c], Mutating) =
             CountIn(Tail(todo[c]), Mutating) + (IF Head(todo[c]) \in Mutating THEN 1 ELSE 0)
      BY <2>4, TailFits
    <3> QED
      BY <2>4, <3>2, <3>3 DEF CallerFits, Mutating
  <2>7. <<>> \in Seq(Step)
    OBVIOUS
  <2>8. /\ todo' \in [Callers -> Seq(Step)] /\ todo'[c] = <<>>
        /\ owed' \in [Callers -> Nat] /\ owed'[c] = 0
        /\ \A d \in Callers \ {c} :
              /\ todo'[d] = todo[d] /\ agentless'[d] = agentless[d] /\ owed'[d] = owed[d]
              /\ d \in owner' <=> d \in owner
    BY <1>3, <2>2, <2>3, <2>6, <2>7 DEF IInv, TypeOK
  <2>9. TypeOK' /\ agents' \in Nat /\ OneAgent' /\ OnceFits'
    BY <1>3, <1>6, <2>2, <2>8 DEF IInv, TypeOK, OneAgent, OnceFits
  <2>10. CallerFits(c)'
    BY <2>2, <2>5, <2>8, IdleFits
  <2>11. \A d \in Callers \ {c} : CallerFits(d)'
    BY <2>2, <2>8, OthersFit
  <2> QED
    BY <1>6, <2>9, <2>10, <2>11 DEF IInv
<1> QED
  BY <1>10, <1>11, <1>12, <1>13, <1>14

\* An exchange that fails its operation keeps IInv.
LEMMA DeniedKeeps ==
    ASSUME IInv, NEW c \in Callers, Denied(c)
    PROVE  IInv'
<1> DEFINE x == Head(todo[c])
<1>1. /\ InExchange(c) /\ x \in Exchange /\ ReturnErr(c)
      /\ doomed' \subseteq Callers /\ client' = client
  BY DEF Denied, InExchange, IInv, TypeOK
<1>2. PICK r \in Replies(c, x) : \E done \in CarriedOut(x, r) :
          /\ RecordSuccess \/ RecordFailure \/ UNCHANGED breakerVars
          /\ agents' = IF x = "create" /\ done THEN agents + 1 ELSE agents
  BY DEF Denied
<1>3. BreakerTypeOK' /\ ProbationIsOpen'
  BY <1>2, BreakerKeeps DEF IInv, TypeOK
<1>4. x = "create" => c \in owner /\ agents = 0
  BY <1>1, CreatorIsOwner
<1>5. agents' = agents \/ (c \in owner /\ agents = 0 /\ agents' = 1)
  BY <1>2, <1>4
<1> QED
  BY <1>1, <1>3, <1>5, ReturnErrKeeps

\* Initially nothing is under way.
LEMMA InitEstablishes == Init => IInv
<1> SUFFICES ASSUME Init PROVE IInv
  OBVIOUS
<1> USE DEF Init, NewCircuitBreaker
<1>1. BreakerTypeOK /\ ProbationIsOpen
  BY BreakerAssumption
     DEF BreakerAssumption, BreakerTypeOK, ProbationIsOpen, CircuitState, halfOpenMax
<1>2. TypeOK
  <2>1. <<>> \in Seq(Step)
    OBVIOUS
  <2> QED
    BY <1>1, <2>1 DEF TypeOK
<1>3. \A c \in Callers : CallerFits(c)
  <2> SUFFICES ASSUME NEW c \in Callers PROVE CallerFits(c)
    OBVIOUS
  <2>1. todo[c] = <<>> /\ DOMAIN <<>> = {} /\ <<>> \in Seq(Step) /\ owed[c] = 0
    OBVIOUS
  <2>2. CountIn(<<>>, Mutating) = 0
    BY <2>1, CountIsNat
  <2> QED
    BY <2>1, <2>2 DEF CallerFits, Busy, AsksFirst, IngestsLast, Outside
<1>4. agents \in Nat /\ OneAgent /\ OnceFits
  BY DEF OneAgent, OnceFits
<1> QED
  BY <1>1, <1>2, <1>3, <1>4 DEF IInv

\* A step that leaves the callers and the agents alone keeps IInv.
LEMMA OutsideKeeps ==
    ASSUME IInv, UNCHANGED <<client, todo, agentless, owed, letta>>,
           BreakerTypeOK', ProbationIsOpen', doomed' \subseteq Callers
    PROVE  IInv'
<1>1. TypeOK' /\ agents' \in Nat /\ OneAgent' /\ OnceFits'
  BY DEF IInv, TypeOK, OneAgent, OnceFits, letta
<1>2. ASSUME NEW c \in Callers
      PROVE  CallerFits(c)'
  BY DEF IInv, CallerFits, letta, Inside, Outside, Busy, AsksFirst, IngestsLast
<1> QED
  BY <1>1, <1>2 DEF IInv

\* Every step of the callers, of the clock and of the backend keeps IInv.
LEMMA StepPreserves == IInv /\ [Next]_vars => IInv'
<1> SUFFICES ASSUME IInv, [Next]_vars PROVE IInv'
  OBVIOUS
<1>1. ASSUME NEW c \in Callers, NEW op \in Operations(client), Start(c, op)
      PROVE  IInv'
  BY <1>1, StartKeeps
<1>2. ASSUME NEW c \in Callers, AllowPasses(c)
      PROVE  IInv'
  <2>1. BreakerTypeOK' /\ ProbationIsOpen'
    BY <1>2, BreakerKeeps DEF AllowPasses, IInv, TypeOK
  <2>2. "allow" \notin AgentStep /\ "allow" # "ensure" /\ "allow" \notin Mutating
    BY DEF AgentStep, Mutating
  <2> QED
    BY <1>2, <2>1, <2>2, ContinueKeeps DEF AllowPasses, At, Continue, IInv, TypeOK
<1>3. ASSUME NEW c \in Callers, AllowRejects(c)
      PROVE  IInv'
  <2>1. BreakerTypeOK' /\ ProbationIsOpen'
    BY <1>3, BreakerKeeps DEF AllowRejects, IInv, TypeOK
  <2> QED
    BY <1>3, <2>1, ReturnErrKeeps DEF AllowRejects, IInv, TypeOK
<1>4. ASSUME NEW c \in Callers, EnterOnce(c)
      PROVE  IInv'
  <2>1. BreakerTypeOK' /\ ProbationIsOpen'
    BY <1>4, BreakerKeeps DEF EnterOnce, IInv, TypeOK
  <2> QED
    BY <1>4, <2>1, OnceKeeps
       DEF EnterOnce, At, Continue, EnsureList, AgentStep, IInv, TypeOK
<1>5. ASSUME NEW c \in Callers, UseCachedAgent(c)
      PROVE  IInv'
  <2>1. BreakerTypeOK' /\ ProbationIsOpen'
    BY <1>5, BreakerKeeps DEF UseCachedAgent, IInv, TypeOK
  <2>2. CASE ensureErr
    BY <1>5, <2>1, <2>2, ReturnErrKeeps DEF UseCachedAgent, IInv, TypeOK
  <2>3. CASE ~ensureErr
    <3>1. "ensure" \notin AgentStep /\ "ensure" \notin Mutating
      BY DEF AgentStep, Mutating
    <3> QED
      BY <1>5, <2>1, <2>3, <3>1, ContinueKeeps
         DEF UseCachedAgent, At, Continue, letta, IInv, TypeOK
  <2> QED
    BY <2>2, <2>3
<1>6. ASSUME NEW c \in Callers, Answered(c)
      PROVE  IInv'
  BY <1>6, AnsweredKeeps
<1>7. ASSUME NEW c \in Callers, Denied(c)
      PROVE  IInv'
  BY <1>7, DeniedKeeps
<1>8. CASE TimePasses
  BY <1>8, BreakerKeeps, OutsideKeeps DEF TimePasses, IInv, TypeOK
<1>9. CASE Recover
  BY <1>9, BreakerKeeps, OutsideKeeps DEF Recover, IInv, TypeOK
<1>10. CASE UNCHANGED vars
  <2>1. UNCHANGED <<breakerVars, client, todo, agentless, owed, letta, doomed>>
    BY <1>10 DEF vars, breakerVars, letta
  <2> QED
    BY <2>1, BreakerKeeps, OutsideKeeps DEF IInv, TypeOK
<1> QED
  BY <1>1, <1>2, <1>3, <1>4, <1>5, <1>6, <1>7, <1>8, <1>9, <1>10 DEF Next

-----------------------------------------------------------------------------
\* The inductive invariant holds in every reachable state.
THEOREM Invariance == Spec => []IInv
  BY InitEstablishes, StepPreserves, PTL DEF Spec

\* Every variable stays in its type.
THEOREM TypeCorrect == Spec => []TypeOK
<1>1. IInv => TypeOK
  BY DEF IInv
<1> QED
  BY <1>1, Invariance, PTL

\* Whatever callers ask for an agent at once, and whatever is lost on the way,
\* EnsureAgent leaves the server with one helixmemory agent at the most.
THEOREM AgentIsOne == Spec => []OneAgent
<1>1. IInv => OneAgent
  BY DEF IInv
<1> QED
  BY <1>1, Invariance, PTL

\* An operation that was given no agent id sends its request only when the agent
\* has been found or created.
THEOREM AgentIsKnown == Spec => []AgentKnownBeforeUse
<1>1. ASSUME IInv, NEW c \in Callers, agentless[c], InExchange(c), c \notin owner
      PROVE  once = "done" /\ ~ensureErr
  <2>1. todo[c] \in Seq(Step) /\ todo[c] # <<>> /\ CallerFits(c) /\ Busy(c)
    BY <1>1 DEF IInv, TypeOK, InExchange, Busy
  <2>2. Head(todo[c]) \notin {"allow", "ensure"}
    BY <1>1 DEF InExchange, Exchange
  <2>3. \A i \in DOMAIN todo[c] : todo[c][i] # "ensure"
    BY <2>1, <2>2, TailKeepsLayout DEF CallerFits
  <2> QED
    BY <1>1, <2>1, <2>3 DEF CallerFits
<1>2. IInv => AgentKnownBeforeUse
  BY <1>1 DEF AgentKnownBeforeUse
<1> QED
  BY <1>2, Invariance, PTL

\* An operation that returned nil had all its mutating requests carried out.
THEOREM AcknowledgedApplied == Spec => []AcknowledgedIsApplied
<1>1. ASSUME IInv, NEW c \in Callers, ~Busy(c)
      PROVE  owed[c] = 0
  <2>1. todo[c] = <<>> /\ DOMAIN <<>> = {} /\ <<>> \in Seq(Step) /\ CallerFits(c)
    BY <1>1 DEF IInv, Busy
  <2> QED
    BY <2>1, CountIsNat DEF CallerFits
<1>2. IInv => AcknowledgedIsApplied
  BY <1>1 DEF AcknowledgedIsApplied
<1> QED
  BY <1>2, Invariance, PTL

-----------------------------------------------------------------------------
(* Every operation comes to its end                                          *)

\* How many steps an operation with these still to take can take: asking for the
\* agent may bring in two steps, and listing the agents another two.
Work(steps) ==
    Len(steps) + 2 * CountIn(steps, {"list"}) + 4 * CountIn(steps, {"ensure"})

\* Whatever the other callers, the breaker and the backend do, an operation has
\* only finitely many steps to take: each of its own leaves fewer of them, and no
\* other caller's adds one.
StepsRunOut ==
    [][\A c \in Callers : Busy(c) =>
          todo'[c] = todo[c] \/ Work(todo'[c]) < Work(todo[c])]_vars

\* Whoever has to wait for the Once waits for another caller, which is inside and
\* is about to pass Allow or to exchange: nobody waits for itself, and nobody
\* waits for a caller that waits.
OnceIsLeft ==
    \A c \in Callers : At(c, "ensure") /\ once = "running" =>
       \E d \in owner : At(d, "allow") \/ InExchange(d)

\* Two steps more before t, counted.
LEMMA TwoCount ==
    ASSUME NEW t \in Seq(Step), NEW x \in {"list", "create"}
    PROVE  LET s == <<"allow", x>> \o t IN
           /\ s \in Seq(Step) /\ Len(s) = Len(t) + 2
           /\ CountIn(s, {"list"}) = CountIn(t, {"list"}) + (IF x = "list" THEN 1 ELSE 0)
           /\ CountIn(s, {"ensure"}) = CountIn(t, {"ensure"})
<1> DEFINE s == <<"allow", x>> \o t
           u == Tail(s)
<1>1. /\ s \in Seq(Step)
      /\ DOMAIN s = 1..(Len(t) + 2) /\ Len(t) \in Nat
      /\ s[1] = "allow" /\ s[2] = x
      /\ \A i \in 1..Len(t) : s[i + 2] = t[i]
  BY TwoBefore
<1> HIDE DEF s
<1>2. s # <<>>
  <2>1. 1 \in DOMAIN s /\ DOMAIN <<>> = {}
    BY <1>1
  <2> QED
    BY <2>1
<1>3. /\ Head(s) = s[1] /\ u \in Seq(Step) /\ Len(s) = Len(u) + 1
      /\ DOMAIN s = 1..Len(s) /\ Len(s) \in Nat
      /\ \A i \in 1..Len(u) : u[i] = s[i + 1]
      /\ \A S : CountIn(s, S) = CountIn(u, S) + (IF Head(s) \in S THEN 1 ELSE 0)
  BY <1>1, <1>2, TailFits
<1> HIDE DEF u
<1>4. Len(s) = Len(t) + 2 /\ Len(u) = Len(t) + 1
  <2>1. Len(u) \in Nat
    BY <1>3, LenProperties
  <2>2. Len(s) = Len(t) + 2
    BY <1>1, <1>3, LenProperties
  <2> QED
    BY <1>1, <1>3, <2>1, <2>2
<1>5. u[1] = x /\ \A i \in 1..Len(t) : t[i] = u[i + 1]
  BY <1>1, <1>3, <1>4
<1>6. /\ CountIn(u, {"list"}) = CountIn(t, {"list"}) + (IF u[1] \in {"list"} THEN 1 ELSE 0)
      /\ CountIn(u, {"ensure"}) = CountIn(t, {"ensure"}) + (IF u[1] \in {"ensure"} THEN 1 ELSE 0)
  BY <1>3, <1>4, <1>5, CountShift
<1>7. /\ CountIn(s, {"list"}) = CountIn(u, {"list"}) + (IF s[1] \in {"list"} THEN 1 ELSE 0)
      /\ CountIn(s, {"ensure"}) = CountIn(u, {"ensure"}) + (IF s[1] \in {"ensure"} THEN 1 ELSE 0)
  BY <1>3
<1>8. /\ CountIn(t, {"list"}) \in Nat /\ CountIn(t, {"ensure"}) \in Nat
      /\ CountIn(u, {"list"}) \in Nat /\ CountIn(u, {"ensure"}) \in Nat
  BY <1>3, CountIsNat
<1> QED
  BY <1>1, <1>4, <1>5, <1>6, <1>7, <1>8 DEF s

\* What each way to go on leaves to do.
LEMMA WorkFacts ==
    ASSUME NEW s \in Seq(Step), s # <<>>
    PROVE  /\ Work(s) \in Nat /\ Work(s) > 0 /\ Work(<<>>) = 0
           /\ Work(Tail(s)) < Work(s)
           /\ Head(s) = "ensure" => Work(EnsureList \o Tail(s)) < Work(s)
           /\ Head(s) = "list" => Work(EnsureCreate \o Tail(s)) < Work(s)
<1> DEFINE t == Tail(s)
<1>1. /\ t \in Seq(Step) /\ Len(s) = Len(t) + 1 /\ Len(s) \in Nat
      /\ \A S : CountIn(s, S) = CountIn(t, S) + (IF Head(s) \in S THEN 1 ELSE 0)
  BY TailFits
<1> HIDE DEF t
<1>2. /\ Len(t) \in Nat
      /\ CountIn(t, {"list"}) \in Nat /\ CountIn(t, {"ensure"}) \in Nat
  BY <1>1, CountIsNat, LenProperties
<1>3. /\ CountIn(s, {"list"}) = CountIn(t, {"list"}) + (IF Head(s) = "list" THEN 1 ELSE 0)
      /\ CountIn(s, {"ensure"}) = CountIn(t, {"ensure"}) + (IF Head(s) = "ensure" THEN 1 ELSE 0)
  BY <1>1
<1>4. Work(s) \in Nat /\ Work(s) > 0 /\ Work(t) < Work(s)
  <2>1. /\ CountIn(s, {"list"}) \in Nat /\ CountIn(s, {"ensure"}) \in Nat
        /\ CountIn(t, {"list"}) <= CountIn(s, {"list"})
        /\ CountIn(t, {"ensure"}) <= CountIn(s, {"ensure"})
    BY <1>2, <1>3
  <2>2. Len(s) = Len(t) + 1
    BY <1>1
  <2> QED
    BY <1>2, <2>1, <2>2 DEF Work
<1>5. Work(<<>>) = 0
  <2>1. <<>> \in Seq(Step) /\ DOMAIN <<>> = {} /\ Len(<<>>) = 0
    OBVIOUS
  <2>2. CountIn(<<>>, {"list"}) = 0 /\ CountIn(<<>>, {"ensure"}) = 0
    BY <2>1, CountIsNat
  <2> QED
    BY <2>1, <2>2 DEF Work
<1>6. ASSUME Head(s) = "ensure"
      PROVE  Work(EnsureList \o t) < Work(s)
  <2> DEFINE w == EnsureList \o t
  <2>1. /\ Len(w) = Len(t) + 2
        /\ CountIn(w, {"list"}) = CountIn(t, {"list"}) + 1
        /\ CountIn(w, {"ensure"}) = CountIn(t, {"ensure"})
    BY <1>1, TwoCount DEF EnsureList
  <2> HIDE DEF w
  <2>2. Work(w) < Work(s)
    BY <1>1, <1>2, <1>3, <1>6, <2>1 DEF Work
  <2> QED
    BY <2>2 DEF w
<1>7. ASSUME Head(s) = "list"
      PROVE  Work(EnsureCreate \o t) < Work(s)
  <2> DEFINE w == EnsureCreate \o t
  <2>1. /\ Len(w) = Len(t) + 2
        /\ CountIn(w, {"list"}) = CountIn(t, {"list"}) + 0
        /\ CountIn(w, {"ensure"}) = CountIn(t, {"ensure"})
    BY <1>1, <1>2, TwoCount DEF EnsureCreate
  <2> HIDE DEF w
  <2>2. Work(w) < Work(s)
    BY <1>1, <1>2, <1>3, <1>7, <2>1 DEF Work
  <2> QED
    BY <2>2 DEF w
<1> QED
  BY <1>4, <1>5, <1>6, <1>7 DEF t

\* A step of a caller leaves it less to do.
LEMMA StepCounts ==
    ASSUME IInv, NEW c \in Callers, Busy(c), StepOf(c)
    PROVE  Work(todo'[c]) < Work(todo[c])
<1>1. todo \in [Callers -> Seq(Step)] /\ todo[c] \in Seq(Step) /\ todo[c] # <<>>
  BY DEF IInv, TypeOK, Busy
<1>2. CASE todo'[c] \in {<<>>, Tail(todo[c])}
  BY <1>1, <1>2, WorkFacts
<1>3. CASE EnterOnce(c)
  <2>1. Head(todo[c]) = "ensure" /\ todo'[c] = EnsureList \o Tail(todo[c])
    BY <1>1, <1>3 DEF EnterOnce, At, Continue
  <2> QED
    BY <1>1, <2>1, WorkFacts
<1>4. CASE Head(todo[c]) = "list" /\ todo'[c] = EnsureCreate \o Tail(todo[c])
  BY <1>1, <1>4, WorkFacts
<1>5. CASE ReturnErr(c)
  BY <1>1, <1>2, <1>5 DEF ReturnErr
<1>6. CASE AllowPasses(c) \/ UseCachedAgent(c)
  BY <1>1, <1>2, <1>5, <1>6 DEF AllowPasses, UseCachedAgent, Continue
<1>7. ASSUME NEW x, x = Head(todo[c]), Proceed(c, x)
      PROVE  Work(todo'[c]) < Work(todo[c])
  <2>1. \/ todo' = [todo EXCEPT ![c] = Tail(@)]
        \/ x = "list" /\ todo' = [todo EXCEPT ![c] = EnsureCreate \o Tail(@)]
    BY <1>7 DEF Proceed, ListAnswered
  <2>2. \/ todo'[c] = Tail(todo[c])
        \/ x = "list" /\ todo'[c] = EnsureCreate \o Tail(todo[c])
    BY <1>1, <2>1
  <2> QED
    BY <1>2, <1>4, <1>7, <2>2
<1>8. CASE Answered(c)
  <2>1. Proceed(c, Head(todo[c])) \/ todo' = [todo EXCEPT ![c] = <<>>]
    BY <1>8 DEF Answered
  <2>2. Proceed(c, Head(todo[c])) \/ todo'[c] = <<>>
    BY <1>1, <2>1
  <2> QED
    BY <1>2, <1>7, <2>2
<1> QED
  BY <1>3, <1>5, <1>6, <1>8 DEF StepOf, AllowRejects, Denied

\* Only a caller's own steps change what it has to do once it has begun.
LEMMA OnlyOwnSteps ==
    ASSUME IInv, [Next]_vars, NEW c \in Callers, Busy(c), ~StepOf(c)
    PROVE  todo'[c] = todo[c]
<1>1. todo \in [Callers -> Seq(Step)]
  BY DEF IInv, TypeOK
<1>2. ASSUME NEW d \in Callers, NEW op, Start(d, op)
      PROVE  todo'[c] = todo[c]
  BY <1>1, <1>2 DEF Start
<1>3. ASSUME NEW d \in Callers, d # c, NEW s, todo' = [todo EXCEPT ![d] = s]
      PROVE  todo'[c] = todo[c]
  BY <1>1, <1>3
<1>4. ASSUME NEW d \in Callers, d # c, StepOf(d)
      PROVE  todo'[c] = todo[c]
  <2>1. CASE ReturnErr(d)
    BY <1>3, <1>4, <2>1 DEF ReturnErr
  <2>2. CASE AllowPasses(d) \/ EnterOnce(d) \/ UseCachedAgent(d)
    BY <1>3, <1>4, <2>1, <2>2 DEF AllowPasses, EnterOnce, UseCachedAgent, Continue
  <2>3. CASE Answered(d)
    <3>1. ASSUME NEW x, Proceed(d, x)
          PROVE  todo'[c] = todo[c]
      BY <1>3, <1>4, <3>1 DEF Proceed, ListAnswered
    <3>2. Proceed(d, Head(todo[d])) \/ todo' = [todo EXCEPT ![d] = <<>>]
      BY <2>3 DEF Answered
    <3> QED
      BY <1>3, <1>4, <3>1, <3>2
  <2> QED
    BY <1>4, <2>1, <2>2, <2>3 DEF StepOf, AllowRejects, Denied
<1>5. CASE UNCHANGED todo
  BY <1>5
<1> QED
  BY <1>2, <1>4, <1>5 DEF Next, vars, StepOf, TimePasses, Recover

\* No operation of a client goes on for ever.
THEOREM OperationsRunOut == Spec => StepsRunOut
<1>1. IInv /\ [Next]_vars
        => [\A c \in Callers : Busy(c) =>
              todo'[c] = todo[c] \/ Work(todo'[c]) < Work(todo[c])]_vars
  BY OnlyOwnSteps, StepCounts
<1> QED
  BY <1>1, Invariance, PTL DEF Spec, StepsRunOut

\* While the Once runs somebody is inside.
OnceHasOwner == once = "running" => owner # {}

\* The Once is entered by its owner, and spent when the owner leaves it.
LEMMA OwnerStays ==
    ASSUME IInv, OnceHasOwner, [Next]_vars
    PROVE  OnceHasOwner'
<1> USE DEF OnceHasOwner
<1>1. ASSUME NEW c, LeaveOnce(c) \/ ReturnErr(c) \/ UNCHANGED <<once, owner, ensureErr>>
      PROVE  OnceHasOwner'
  BY <1>1 DEF LeaveOnce, ReturnErr
<1>2. ASSUME NEW c, NEW x, Proceed(c, x)
      PROVE  OnceHasOwner'
  BY <1>1, <1>2 DEF Proceed, ListAnswered
<1>3. ASSUME NEW c, Answered(c)
      PROVE  OnceHasOwner'
  <2>1. Proceed(c, Head(todo[c])) \/ UNCHANGED <<once, owner, ensureErr>>
    BY <1>3 DEF Answered
  <2> QED
    BY <1>1, <1>2, <2>1
<1>4. ASSUME NEW c, EnterOnce(c)
      PROVE  OnceHasOwner'
  BY <1>4 DEF EnterOnce
<1>5. ASSUME NEW c, UseCachedAgent(c)
      PROVE  OnceHasOwner'
  BY <1>1, <1>5 DEF UseCachedAgent
<1> QED
  BY <1>1, <1>3, <1>4, <1>5
  DEF Next, vars, Start, AllowPasses, AllowRejects, Denied, TimePasses, Recover, letta

\* EnsureAgent's sync.Once blocks nobody for ever: its owner is never blocked on
\* it, and with OperationsRunOut it leaves.
THEOREM NobodyIsStuck == Spec => []OnceIsLeft
<1>1. Init => OnceHasOwner
  BY DEF Init, OnceHasOwner
<1>2. IInv /\ OnceHasOwner => OnceIsLeft
  <2> SUFFICES ASSUME IInv, OnceHasOwner, once = "running"
               PROVE  \E d \in owner : At(d, "allow") \/ InExchange(d)
    BY DEF OnceIsLeft
  <2>1. PICK d \in owner : TRUE
    BY DEF OnceHasOwner
  <2>2. todo[d] \in Seq(Step) /\ Inside(todo[d])
    BY DEF IInv, TypeOK, CallerFits
  <2>3. todo[d] # <<>>
    <3>1. DOMAIN <<>> = {} /\ DOMAIN todo[d] # {}
      BY <2>2 DEF Inside
    <3> QED
      BY <3>1
  <2>4. Head(todo[d]) \in AgentStep \union {"allow"}
    BY <2>2, <2>3, InsideTail
  <2> QED
    BY <2>3, <2>4 DEF At, InExchange, Busy, AgentStep, Exchange
<1> QED
  BY <1>1, <1>2, OwnerStays, Invariance, PTL DEF Spec
=============================================================================
