------------------------- MODULE ProviderReadsProofs -------------------------
(***************************************************************************)
(* What a read of the provider finds, for any backends, callers and        *)
(* readers.                                                                *)
(*                                                                         *)
(* That the provider implements MemoryStore is what the readers rest on: a *)
(* copy that is stored stays where it is until it is removed, so that a    *)
(* read which has still to ask its backend will find it, if that backend   *)
(* looks where it adds.                                                    *)
(***************************************************************************)
EXTENDS ProviderReads, UnifiedProviderProofs

\* Copies that are stored or were removed.
Seen == Stored \union Dead

\* The copy, as MemoryStore has it, of what a backend holds.
CopyId(x) == <<Place(x[1], x[3]), x[2]>>

\* What has an id was stored.
KnownWasStored == \A id \in known : CopyOf(id) \in Seen

\* The copies that a read has been given.
Found(r) == {CopyId(x) : x \in read[r].got}

\* A read has the copy of x, or will come to it, unless it is removed.
Covers(r, x) ==
    \/ CopyId(x) \in Dead
    \/ CopyId(x) \in Found(r)
    \/ CopyId(x) \in Stored /\ x[1] \in read[r].left

\* A read covers what it has to find at the backends that have not failed it, of those
\* that look where they add.
ReadFits(r) ==
    \A x \in read[r].due :
       /\ read[r].kind = "get" => x[3] = "original"
       /\ x[1] \in LooksWhereAdded(read[r].kind) \ read[r].failed => Covers(r, x)

ReadType ==
    [kind : {"idle", "search", "get"}, left : SUBSET Backends,
     got : SUBSET (Backends \X Memories \X Text), failed : SUBSET Backends,
     due : SUBSET (Backends \X Memories \X Text)]

ReadsIInv ==
    /\ IInv
    /\ KnownWasStored
    /\ read \in [Readers -> ReadType]
    /\ \A r \in Readers : ReadFits(r)

\* A step of the provider keeps a copy or removes it: the promise of a MemoryStore.
LEMMA CopiesStay ==
    ASSUME IInv, [Next]_vars
    PROVE  Stored \subseteq Stored' \union Dead' /\ Dead \subseteq Dead'
<1>1. Promise!Next \/ UNCHANGED Promise!vars
  BY StepRefines
<1>2. CASE UNCHANGED Promise!vars
  BY <1>2 DEF Promise!vars, Stored, Dead
<1>3. ASSUME NEW c \in Callers, Promise!Begin(c)
      PROVE  Stored' = Stored /\ Dead' = Dead
  BY <1>3 DEF Promise!Begin, Stored, Dead
<1>4. ASSUME NEW c \in Callers, Promise!Proceed(c)
      PROVE  Stored \subseteq Stored' \union Dead' /\ Dead \subseteq Dead'
  BY <1>4 DEF Promise!Proceed, Promise!Effect, Promise!Creates, Promise!Removes, Stored, Dead
<1> QED
  BY <1>1, <1>2, <1>3, <1>4 DEF Promise!Next

\* An id is one that a backend has made for what it stored.
LEMMA KnownStay ==
    ASSUME IInv, [Next]_vars, KnownWasStored
    PROVE  KnownWasStored'
<1> SUFFICES \A id \in known' : CopyOf(id) \in Seen'
  BY DEF KnownWasStored, CopyOf, Place
<1>1. \A id \in known : CopyOf(id) \in Seen'
  BY CopiesStay DEF KnownWasStored, Seen
<1>2. ASSUME NEW b, NEW m, Stores(b, m)
      PROVE  \A id \in known' : CopyOf(id) \in Seen'
  <2>1. CASE <<b, m>> \in known
    BY <1>1, <1>2, <2>1 DEF Stores
  <2>2. CASE <<b, m>> \notin known
    <3>1. held' = held \union {<<b, m, "original">>} /\ known' = known \union {<<b, m>>}
      BY <1>2, <2>2 DEF Stores
    <3>2. CopyOf(<<b, m>>) \in Stored'
      BY <3>1, StoredGrows DEF CopyOf
    <3> QED
      BY <1>1, <3>1, <3>2 DEF Seen
  <2> QED
    BY <2>1, <2>2
<1>3. CASE known' = known
  BY <1>1, <1>3
<1>4. CASE UNCHANGED vars
  BY <1>3, <1>4 DEF vars
<1>5. CASE \E c \in Callers : AddSucceeds(c) \/ FirstFails(c) \/ FallbackFails(c)
  BY <1>2, <1>3, <1>5 DEF AddSucceeds, FirstFails, FallbackFails, MayStore
<1>6. CASE \/ \E b \in Backends : RegisterAsks(b) \/ Register(b)
           \/ \E c \in Callers, m \in Memories, t \in MemoryTypes : Add(c, m, t)
           \/ \E c \in Callers : AddPicks(c) \/ FallbackLocks(c) \/ AddFails(c)
  BY <1>3, <1>6 DEF RegisterAsks, Register, Add, AddPicks, FallbackLocks, AddFails, history
<1>7. CASE \/ \E c \in Callers, b \in Backends, m \in Memories :
                 \/ \E source \in {b, "fusion"} : Update(c, b, m, source)
                 \/ Delete(c, b, m)
           \/ \E c \in Callers : \/ UpdateSucceeds(c) \/ UpdateFailsAt(c) \/ UpdateFails(c)
                                \/ CogneeDeletes(c) \/ CogneeAdds(c) \/ CogneeFailsToAdd(c)
                                \/ DeleteDoneAt(c) \/ DeleteFailsAt(c) \/ DeleteReturns(c)
  BY <1>3, <1>7
     DEF Update, Delete, UpdateSucceeds, UpdateFailsAt, UpdateFails, CogneeDeletes, CogneeAdds,
         CogneeFailsToAdd, DeleteDoneAt, DeleteFailsAt, DeleteReturns, history
<1> QED
  BY <1>4, <1>5, <1>6, <1>7 DEF Next

-----------------------------------------------------------------------------
\* A copy is at the backend of its id, which is registered.
LEMMA CopyFacts ==
    ASSUME IInv
    PROVE  /\ \A x \in Stored : \E k \in held : x = CopyId(k)
           /\ \A k \in held : CopyId(k) \in Stored /\ k[1] \in registered
           /\ \A j, k : CopyId(j) = CopyId(k) => j[1] = k[1] /\ j[2] = k[2]
           /\ \A id \in Ids : CopyOf(id) = CopyId(<<id[1], id[2], "original">>)
           /\ \A id \in Ids : CopyOf(id) \in Stored => Holds(id[1], id)
           /\ \A k \in Backends \X Memories \X Text : CopyId(k) \in Dead =>
                 k[3] \in {"original", "edited"} /\ <<k[1], k[2]>> \in removed
<1>1. \A x \in Stored : \E k \in held : x = CopyId(k)
  BY DEF CopyId, Stored
<1>2. \A k \in held : CopyId(k) \in Stored /\ k[1] \in registered
  BY DEF CopyId, Stored, IInv, IdsFit
<1>3. \A j, k : CopyId(j) = CopyId(k) => j[1] = k[1] /\ j[2] = k[2]
  BY DEF CopyId, Place
<1>4. \A id \in Ids : CopyOf(id) = CopyId(<<id[1], id[2], "original">>)
  BY DEF CopyOf, CopyId
<1>5. ASSUME NEW id \in Ids, CopyOf(id) \in Stored PROVE Holds(id[1], id)
  <2>1. PICK k \in held : CopyOf(id) = CopyId(k)
    BY <1>1, <1>5
  <2>2. k[1] = id[1] /\ k[2] = id[2] /\ k[3] \in {"original", "edited"}
    BY <2>1 DEF CopyOf, CopyId, Place, IInv, TypeOK, Text
  <2>3. k = <<id[1], id[2], k[3]>>
    BY <2>2 DEF IInv, TypeOK
  <2> QED
    BY <2>2, <2>3 DEF Holds
<1>6. ASSUME NEW k \in Backends \X Memories \X Text, CopyId(k) \in Dead
      PROVE  k[3] \in {"original", "edited"} /\ <<k[1], k[2]>> \in removed
  <2>1. PICK id \in removed : CopyId(k) = CopyOf(id)
    BY <1>6 DEF Dead
  <2>2. id = <<id[1], id[2]>>
    BY DEF IInv, TypeOK, Ids
  <2>3. k[1] = id[1] /\ k[2] = id[2]
    BY <2>1 DEF CopyId, CopyOf, Place
  <2>4. (IF k[3] \in {"original", "edited"} THEN "entry" ELSE k[3]) = "entry"
    BY <2>1 DEF CopyId, CopyOf, Place
  <2>5. k[3] \in {"original", "edited"}
    BY <2>4 DEF Text
  <2> QED
    BY <2>2, <2>3, <2>5
<1> QED
  BY <1>1, <1>2, <1>3, <1>4, <1>5, <1>6

\* Nothing is held or read initially.
LEMMA ReadsInitEstablishes == ReadsInit => ReadsIInv
<1> SUFFICES ASSUME ReadsInit PROVE ReadsIInv
  OBVIOUS
<1>1. IInv
  BY InitEstablishes DEF ReadsInit
<1>2. KnownWasStored
  BY DEF ReadsInit, Init, KnownWasStored
<1>3. NoRead \in ReadType /\ NoRead.due = {}
  BY DEF NoRead, ReadTask, ReadType
<1>4. read \in [Readers -> ReadType] /\ \A r \in Readers : read[r] = NoRead
  BY <1>3 DEF ReadsInit
<1>5. \A r \in Readers : ReadFits(r)
  BY <1>3, <1>4 DEF ReadFits
<1> QED
  BY <1>1, <1>2, <1>4, <1>5 DEF ReadsIInv

\* A step of the provider leaves what reads rely on.
LEMMA ProviderStepKeeps ==
    ASSUME ReadsIInv, [Next]_vars, UNCHANGED read
    PROVE  ReadsIInv'
<1>1. IInv'
  BY StepPreserves DEF ReadsIInv
<1>2. Stored \subseteq Stored' \union Dead' /\ Dead \subseteq Dead'
  BY CopiesStay DEF ReadsIInv
<1>3. KnownWasStored'
  BY KnownStay DEF ReadsIInv
<1>4. ASSUME NEW r \in Readers PROVE ReadFits(r)'
  <2>1. ReadFits(r) /\ Found(r)' = Found(r)
    BY DEF ReadsIInv, Found, CopyId, Place
  <2>2. \A x : CopyId(x)' = CopyId(x)
    BY DEF CopyId, Place
  <2>3. ASSUME NEW x PROVE Covers(r, x) => Covers(r, x)'
    BY <1>2, <2>1, <2>2 DEF Covers
  <2> QED
    BY <2>1, <2>3 DEF ReadFits, LooksWhereAdded
<1> QED
  BY <1>1, <1>3, <1>4 DEF ReadsIInv

-----------------------------------------------------------------------------
\* A step of reader r alone.
ReaderSteps(r) ==
    /\ UNCHANGED vars
    /\ read' \in [Readers -> ReadType]
    /\ \A d \in Readers \ {r} : read'[d] = read[d]

\* What is stored does not depend on the readers.
LEMMA NothingStored ==
    ASSUME UNCHANGED vars
    PROVE  /\ Stored' = Stored /\ Dead' = Dead
           /\ \A x : CopyId(x)' = CopyId(x)
BY DEF vars, Stored, Dead, Place, CopyOf, CopyId

\* Its step leaves the others fit, and with its own read the invariant.
LEMMA ReaderKeeps ==
    ASSUME ReadsIInv, NEW r \in Readers, ReaderSteps(r), ReadFits(r)'
    PROVE  ReadsIInv'
<1>1. IInv'
  BY StepPreserves DEF ReadsIInv, ReaderSteps
<1>2. KnownWasStored'
  BY KnownStay DEF ReadsIInv, ReaderSteps
<1>3. ASSUME NEW d \in Readers PROVE ReadFits(d)'
  <2>1. CASE d = r
    BY <2>1
  <2>2. CASE d # r
    <3>1. read'[d] = read[d] /\ ReadFits(d)
      BY <2>2 DEF ReadsIInv, ReaderSteps
    <3>2. /\ Stored' = Stored /\ Dead' = Dead /\ \A x : CopyId(x)' = CopyId(x)
          /\ Found(d)' = Found(d)
      BY <3>1, NothingStored DEF Found, ReaderSteps, CopyId, Place
    <3>3. \A x : Covers(d, x)' <=> Covers(d, x)
      BY <3>1, <3>2 DEF Covers
    <3> QED
      BY <3>1, <3>3 DEF ReadFits, LooksWhereAdded
  <2> QED
    BY <2>1, <2>2
<1> QED
  BY <1>1, <1>2, <1>3 DEF ReadsIInv, ReaderSteps

\* A read that returns has nothing to find.
LEMMA ReturnKeeps ==
    ASSUME ReadsIInv, NEW r \in Readers, ReturnRead(r), UNCHANGED vars
    PROVE  ReadsIInv'
<1>1. NoRead \in ReadType /\ NoRead.due = {}
  BY DEF NoRead, ReadTask, ReadType
<1>2. read'[r] = NoRead /\ ReaderSteps(r)
  BY <1>1 DEF ReturnRead, ReadsIInv, ReaderSteps
<1>3. ReadFits(r)'
  BY <1>1, <1>2 DEF ReadFits
<1> QED
  BY <1>2, <1>3, ReaderKeeps

\* A read that begins asks all the backends that hold anything.
LEMMA BeginKeeps ==
    ASSUME ReadsIInv, NEW r \in Readers, NEW due, NEW kind \in {"search", "get"},
           BeginRead(r, ReadTask(kind, registered, due)),
           \/ kind = "search" /\ due = held
           \/ kind = "get" /\ \E id \in known : due = {<<id[1], id[2], "original">>}
    PROVE  ReadsIInv'
<1> DEFINE task == ReadTask(kind, registered, due)
<1>1. /\ task.kind = kind /\ task.left = registered /\ task.failed = {} /\ task.due = due
      /\ task.got = {}
  BY DEF ReadTask
<1>2. /\ IInv /\ known \subseteq Ids /\ registered \subseteq Backends
      /\ held \subseteq Backends \X Memories \X Text
      /\ \A id \in known : id[1] \in registered
  BY DEF ReadsIInv, IInv, TypeOK, IdsFit
<1>3. due \in SUBSET (Backends \X Memories \X Text)
  BY <1>2 DEF Ids, Text
<1>4. task \in ReadType
  BY <1>2, <1>3 DEF ReadTask, ReadType
<1>5. read' = [read EXCEPT ![r] = task] /\ UNCHANGED vars
  BY DEF BeginRead
<1> HIDE DEF task
<1>6. ReaderSteps(r) /\ read'[r] = task
  BY <1>4, <1>5 DEF ReaderSteps, ReadsIInv
<1>7. ASSUME NEW x \in due
      PROVE  (kind = "get" => x[3] = "original") /\ Covers(r, x)'
  <2>1. /\ kind = "get" => x[3] = "original"
        /\ CopyId(x) \in Seen /\ x[1] \in registered
    <3>1. CASE kind = "search" /\ due = held
      BY <1>2, <1>7, <3>1, CopyFacts DEF Seen
    <3>2. ASSUME kind = "get", NEW id \in known, due = {<<id[1], id[2], "original">>}
          PROVE  CopyId(x) \in Seen /\ x[1] \in registered /\ x[3] = "original"
      <4>1. x = <<id[1], id[2], "original">> /\ CopyOf(id) = CopyId(x)
        BY <1>2, <1>7, <3>2, CopyFacts
      <4> QED
        BY <1>2, <4>1 DEF ReadsIInv, KnownWasStored
    <3> QED
      BY <3>1, <3>2
  <2>2. Stored' = Stored /\ Dead' = Dead /\ CopyId(x)' = CopyId(x)
    BY <1>5, NothingStored
  <2> QED
    BY <1>1, <1>6, <2>1, <2>2 DEF Covers, Seen
<1>8. ReadFits(r)'
  BY <1>1, <1>6, <1>7 DEF ReadFits
<1> QED
  BY <1>6, <1>8, ReaderKeeps

\* What backend b answers a read, when it looks where it adds: nothing that it holds and
\* the read asks for is missing.
Complete(r, b, answer) ==
    b \in LooksWhereAdded(read[r].kind) =>
       \/ read[r].kind = "search" /\ answer = {x \in held : x[1] = b}
       \/ read[r].kind = "get" /\ ~Asked(r, b)

\* A read after backend b has given an answer, or has failed it.
Answered(t, b, answer, failed) ==
    [t EXCEPT !.left = @ \ {b}, !.got = @ \union answer, !.failed = @ \union failed]

\* A backend answers, or fails, and is asked no more.
LEMMA AskKeeps ==
    ASSUME ReadsIInv, NEW r \in Readers, NEW b \in read[r].left, UNCHANGED vars,
           NEW answer \in SUBSET {x \in held : x[1] = b},
           NEW failed \in SUBSET {b},
           NEW u, read' = [read EXCEPT ![r] = u], u = Answered(read[r], b, answer, failed),
           failed = {b} \/ Complete(r, b, answer)
    PROVE  ReadsIInv'
<1>1. /\ read[r] \in ReadType /\ read \in [Readers -> ReadType] /\ ReadFits(r)
      /\ read[r].left \subseteq Backends /\ IInv
      /\ held \subseteq Backends \X Memories \X Text
      /\ read[r].due \subseteq Backends \X Memories \X Text
  BY DEF ReadsIInv, ReadType, IInv, TypeOK
<1>2. answer \in SUBSET (Backends \X Memories \X Text) /\ failed \in SUBSET Backends
  BY <1>1
<1>3. /\ u \in ReadType /\ u.kind = read[r].kind /\ u.due = read[r].due
      /\ u.left = read[r].left \ {b} /\ u.got = read[r].got \union answer
      /\ u.failed = read[r].failed \union failed
  BY <1>1, <1>2 DEF ReadType, Answered
<1>4. ReaderSteps(r) /\ read'[r] = u
  BY <1>1, <1>3 DEF ReaderSteps
<1>5. Stored' = Stored /\ Dead' = Dead /\ \A x : CopyId(x)' = CopyId(x)
  BY NothingStored
<1>6. Found(r)' = Found(r) \union {CopyId(x) : x \in answer}
  BY <1>3, <1>4 DEF Found, CopyId, Place
<1>7. ASSUME NEW x \in read[r].due, x[1] \in LooksWhereAdded(u.kind) \ u.failed
      PROVE  Covers(r, x)'
  <2>1. Covers(r, x)
    BY <1>1, <1>3, <1>7 DEF ReadFits
  <2>2. CASE x[1] # b \/ CopyId(x) \notin Stored
    BY <1>3, <1>4, <1>5, <1>6, <2>1, <2>2 DEF Covers
  <2>3. CASE x[1] = b /\ CopyId(x) \in Stored
    <3>1. Complete(r, b, answer) /\ b \in LooksWhereAdded(read[r].kind)
      BY <1>3, <1>7, <2>3
    <3>2. CASE answer = {y \in held : y[1] = b}
      <4>1. PICK k \in held : CopyId(x) = CopyId(k)
        BY <1>1, <2>3, CopyFacts
      <4>2. k \in answer
        BY <1>1, <2>3, <3>2, <4>1, CopyFacts
      <4> QED
        BY <1>5, <1>6, <4>1, <4>2 DEF Covers
    <3>3. CASE read[r].kind = "get" /\ ~Asked(r, b)
      <4> DEFINE id == <<x[1], x[2]>>
      <4>1. x[3] = "original" /\ x = <<x[1], x[2], x[3]>> /\ id \in Ids
        BY <1>1, <3>3 DEF ReadFits, Ids
      <4>2. CopyOf(id) = CopyId(<<id[1], id[2], "original">>)
        BY <1>1, <4>1, CopyFacts
      <4>3. CopyOf(id) \in Stored
        BY <2>3, <4>1, <4>2
      <4>4. Holds(b, id)
        BY <1>1, <2>3, <4>1, <4>3, CopyFacts
      <4> QED
        BY <3>3, <4>4 DEF Asked
    <3> QED
      BY <3>1, <3>2, <3>3 DEF Complete
  <2> QED
    BY <2>2, <2>3
<1>8. ReadFits(r)'
  BY <1>1, <1>3, <1>4, <1>7 DEF ReadFits
<1> QED
  BY <1>4, <1>8, ReaderKeeps

\* Every step preserves the invariant.
LEMMA ReadsStepPreserves == ReadsIInv /\ [ReadsNext]_rvars => ReadsIInv'
<1> SUFFICES ASSUME ReadsIInv, [ReadsNext]_rvars PROVE ReadsIInv'
  OBVIOUS
<1>1. CASE UNCHANGED rvars
  BY <1>1, ProviderStepKeeps DEF rvars
<1>2. CASE Next /\ UNCHANGED read
  BY <1>2, ProviderStepKeeps
<1>3. ASSUME NEW r \in Readers, NEW types, Search(r, types)
      PROVE  ReadsIInv'
  <2>1. RouteRead(types) \intersect registered = registered
    BY ProviderAssumption DEF ProviderAssumption, RouteRead, ReadsIInv, IInv, TypeOK
  <2> QED
    BY <1>3, <2>1, BeginKeeps DEF Search
<1>4. ASSUME NEW r \in Readers, NEW id, Get(r, id) PROVE ReadsIInv'
  BY <1>4, BeginKeeps DEF Get
<1>6. ASSUME NEW r \in Readers, NEW b, SearchAnswers(r, b) PROVE ReadsIInv'
  <2>1. PICK found \in SUBSET {x \in held : x[1] = b} :
           /\ b \in LooksWhereAdded("search") => found = {x \in held : x[1] = b}
           /\ read' = [read EXCEPT ![r].left = @ \ {b}, ![r].got = @ \union found]
    BY <1>6 DEF SearchAnswers
  <2>2. read' = [read EXCEPT ![r] = Answered(read[r], b, found, {})]
    BY <2>1 DEF ReadsIInv, ReadType, Answered
  <2> QED
    <3>1. b \in read[r].left /\ UNCHANGED vars /\ Complete(r, b, found)
      BY <1>6, <2>1 DEF SearchAnswers, Complete
    <3>2. {} \in SUBSET {b}
      OBVIOUS
    <3> QED
      BY <2>1, <2>2, <3>1, <3>2, AskKeeps, Zenon
<1>7. ASSUME NEW r \in Readers, NEW b, ReadFails(r, b) PROVE ReadsIInv'
  <2>1. read' = [read EXCEPT ![r] = Answered(read[r], b, {}, {b})]
    BY <1>7 DEF ReadFails, ReadsIInv, ReadType, Answered
  <2> QED
    <3>1. b \in read[r].left /\ UNCHANGED vars
      BY <1>7 DEF ReadFails
    <3>2. {b} \in SUBSET {b} /\ {} \in SUBSET {x \in held : x[1] = b}
      OBVIOUS
    <3> QED
      BY <2>1, <3>1, <3>2, AskKeeps, Zenon
<1>8. ASSUME NEW r \in Readers, NEW b, GetMisses(r, b) PROVE ReadsIInv'
  <2>1. read' = [read EXCEPT ![r] = Answered(read[r], b, {}, {})]
    BY <1>8 DEF GetMisses, ReadsIInv, ReadType, Answered
  <2> QED
    <3>1. b \in read[r].left /\ UNCHANGED vars /\ Complete(r, b, {})
      BY <1>8 DEF GetMisses, Complete
    <3>2. {} \in SUBSET {b} /\ {} \in SUBSET {x \in held : x[1] = b}
      OBVIOUS
    <3> QED
      BY <2>1, <3>1, <3>2, AskKeeps, Zenon
<1>9. ASSUME NEW r \in Readers, NEW b, GetFinds(r, b) PROVE ReadsIInv'
  BY <1>9, ReturnKeeps DEF GetFinds
<1>10. ASSUME NEW r \in Readers, SearchReturns(r) \/ GetReturns(r) PROVE ReadsIInv'
  BY <1>10, ReturnKeeps DEF SearchReturns, GetReturns
<1> QED
  BY <1>1, <1>2, <1>3, <1>4, <1>6, <1>7, <1>8, <1>9, <1>10 DEF ReadsNext

\* The invariant holds in every reachable state.
THEOREM ReadsInvariance == ReadsSpec => []ReadsIInv
BY ReadsInitEstablishes, ReadsStepPreserves, PTL DEF ReadsSpec

\* A Search or Get finds what it has to at the backends that have not failed it, of
\* those that look where they add, wherever a fallback or an Update has put it and
\* whatever is written meanwhile (unified.go Search, Get).
THEOREM ReadsComplete == ReadsSpec => []ReadsAreComplete
<1>1. ASSUME ReadsIInv, NEW r \in Readers, read[r].left = {}, NEW x \in read[r].due,
             x[1] \in LooksWhereAdded(read[r].kind) \ read[r].failed
      PROVE  \/ \E y \in read[r].got : y[1] = x[1] /\ y[2] = x[2]
             \/ x[3] \in {"original", "edited"} /\ <<x[1], x[2]>> \in removed
  <2>1. IInv /\ (CopyId(x) \in Dead \/ CopyId(x) \in Found(r))
    BY <1>1 DEF ReadsIInv, ReadFits, Covers
  <2>2. x \in Backends \X Memories \X Text
    BY <1>1 DEF ReadsIInv, ReadType
  <2> QED
    BY <2>1, <2>2, CopyFacts DEF Found
<1>2. ReadsIInv => ReadsAreComplete
  BY <1>1 DEF ReadsAreComplete
<1> QED
  BY <1>2, ReadsInvariance, PTL

\* The provider goes on being a MemoryStore while others read it: no read is a step of
\* what is stored.
THEOREM ReadersKeepPromise == ReadsSpec => KeepsPromise
<1>1. ReadsInit => Init
  BY DEF ReadsInit
<1>2. [ReadsNext]_rvars => [Next]_vars
  BY DEF ReadsNext, rvars, Search, BeginRead, SearchAnswers, ReadFails, SearchReturns, Get,
     GetFinds, GetMisses, GetReturns
<1>3. ReadsSpec => Spec
  BY <1>1, <1>2, PTL DEF ReadsSpec, Spec
<1> QED
  BY <1>3, PromiseKept
=============================================================================
