------------------------ MODULE UnifiedProviderProofs ------------------------
(***************************************************************************)
(* Safety of UnifiedProvider for any backends, memories, types, callers    *)
(* and number of changes, from one inductive invariant, and the proof that *)
(* the provider implements MemoryStore.                                    *)
(*                                                                         *)
(* An Add is the only one of its memory, so that its copies are of its own *)
(* making; an Update is sent to the backend its entry names; a Delete      *)
(* leaves no backend out; and a fallback, which holds u.mu, sees the same  *)
(* backends registered until it ends.                                      *)
(*                                                                         *)
(* At the end, what the promise means to an application, and why every     *)
(* operation comes to its end.                                             *)
(***************************************************************************)
EXTENDS UnifiedProvider, FiniteSetTheorems, TLAPS

Adding(c)   == op[c].pc \in {"pick", "first", "lock", "fallback"}
Changing(c) == op[c].pc \in {"update", "readd", "delete"}

\* An Add is of a memory not acknowledged, nor stored unless a backend failed to
\* say so; it calls registered backends, and the target fails it before the others
\* are tried.
AddFits(c) ==
    Adding(c) =>
       /\ op[c].mem \in Memories \ acked
       /\ op[c].mem \in lossy \/ \A b \in Backends : <<b, op[c].mem>> \notin known
       /\ op[c].pc = "first" => op[c].at \in registered
       /\ op[c].left \subseteq registered
       /\ op[c].pc = "pick" => op[c].late
       /\ op[c].pc = "first" /\ ~op[c].late => op[c].source = op[c].at
       /\ op[c].pc \in {"lock", "fallback"} /\ ~op[c].late => op[c].source \in op[c].failed

\* An Update or Delete is of an id that was given, and calls registered backends.
\* An Update whose entry names the backend of its id calls no other, Cognee while it
\* stores again what it removed.  A Delete has still to call the backend of its id,
\* or failed there, or removed it.
ChangeFits(c) ==
    Changing(c) =>
       /\ Id(c) \in known
       /\ op[c].left \subseteq registered
       /\ op[c].pc \in {"update", "readd"} =>
             /\ op[c].source # "none"
             /\ op[c].source = op[c].at => op[c].left \subseteq {op[c].at}
       /\ op[c].pc = "readd" => "cognee" \in op[c].left
       /\ op[c].pc = "delete" => op[c].at \in op[c].left \union op[c].failed \/ Id(c) \in removed

\* FallbackCoversAll, of one caller.
FallbackCovers(c) ==
    op[c].pc = "fallback" =>
       registered \ (op[c].failed \union op[c].left)
          \subseteq IF op[c].late THEN {op[c].source} ELSE {}

OneAddOfEach ==
    \A c, d \in Callers : Adding(c) /\ Adding(d) /\ op[c].mem = op[d].mem => c = d

\* Ids and copies are those of registered backends; only ids are removed.
IdsFit ==
    /\ known \subseteq registered \X Memories
    /\ \A k \in held : k[1] \in registered
    /\ removed \subseteq known

\* OneCopyUnlessLost, without counting.
OneIdUnlessLost ==
    \A m \in Memories \ lossy :
       /\ \A b, d \in Backends : <<b, m>> \in known /\ <<d, m>> \in known => b = d
       /\ \A b \in Backends : <<b, m, "again">> \notin held

\* UpdateReachesSource, and how: what Cognee deletes to update it adds again under
\* another id, which nothing removes; no other Update deletes.
UpdateLands ==
    \A u \in updated : u[3] = u[1] =>
       \/ <<u[1], u[2], "rewritten">> \in held
       \/ u[1] # "cognee" /\ <<u[1], u[2], "edited">> \in held
       \/ <<u[1], u[2]>> \in deleted

IInv ==
    /\ TypeOK
    /\ \A c \in Callers : AddFits(c) /\ ChangeFits(c) /\ FallbackCovers(c)
    /\ OneAddOfEach
    /\ IdsFit
    /\ OneIdUnlessLost
    /\ UpdateLands

USE ProviderAssumption DEF ProviderAssumption

-----------------------------------------------------------------------------
\* An operation that begins is well typed.
LEMMA TaskIsTyped ==
    ASSUME NEW pc \in Stage, NEW mem \in Memories \union {"none"},
           NEW at \in Backends \union {"none"},
           NEW source \in AllSources \union {"fusion", "none"},
           NEW left \in SUBSET Backends, NEW late \in BOOLEAN
    PROVE  LET t == Task(pc, mem, at, source, left, late) IN
           /\ t \in TaskType
           /\ t.pc = pc /\ t.mem = mem /\ t.at = at /\ t.source = source
           /\ t.left = left /\ t.late = late /\ t.failed = {}
BY DEF Task, TaskType

\* Initially nothing is registered and nobody is in an operation.
LEMMA InitEstablishes == Init => IInv
<1> SUFFICES ASSUME Init PROVE IInv
  OBVIOUS
<1>1. Idle \in TaskType /\ Idle.pc = "idle"
  BY DEF Idle, Task, TaskType, Stage
<1>2. \A c \in Callers : op[c] = Idle
  BY DEF Init
<1>3. TypeOK
  BY <1>1, <1>2 DEF Init, TypeOK
<1>4. \A c \in Callers : AddFits(c) /\ ChangeFits(c) /\ FallbackCovers(c)
  BY <1>1, <1>2 DEF AddFits, ChangeFits, FallbackCovers, Adding, Changing
<1>5. OneAddOfEach
  BY <1>1, <1>2 DEF OneAddOfEach, Adding
<1>6. IdsFit /\ OneIdUnlessLost /\ UpdateLands
  BY DEF Init, IdsFit, OneIdUnlessLost, UpdateLands
<1> QED
  BY <1>3, <1>4, <1>5, <1>6 DEF IInv

-----------------------------------------------------------------------------
\* A step of c alone, whose operation stays well typed.
Steps(c) ==
    /\ op' \in [Callers -> TaskType]
    /\ \A d \in Callers \ {c} : op'[d] = op[d]
    /\ readers' = IF op'[c].pc = "fallback" THEN readers \union {c} ELSE readers \ {c}

\* What other callers rely on changes only to the better: memories are acknowledged
\* and ids appear by their Add alone.
Harmless(c) ==
    /\ registered' = registered /\ registering' = registering
    /\ known \subseteq known' /\ lossy \subseteq lossy' /\ removed \subseteq removed'
    /\ acked \subseteq acked'
    /\ acked' \subseteq acked \union (IF Adding(c) THEN {op[c].mem} ELSE {})
    /\ known' \subseteq known \union (IF Adding(c) THEN registered \X {op[c].mem} ELSE {})
    /\ Adding(c)' => \/ Adding(c) /\ op'[c].mem = op[c].mem
                     \/ \A d \in Callers : Adding(d) => op[d].mem # op'[c].mem

\* A step of c leaves the others fit.
LEMMA OthersFit ==
    ASSUME IInv, NEW c \in Callers, Steps(c), Harmless(c),
           AddFits(c)', ChangeFits(c)', FallbackCovers(c)'
    PROVE  /\ \A d \in Callers : AddFits(d)' /\ ChangeFits(d)' /\ FallbackCovers(d)'
           /\ OneAddOfEach'
           /\ readers' = {d \in Callers : op'[d].pc = "fallback"}
<1>1. readers' = {d \in Callers : op'[d].pc = "fallback"}
  BY DEF IInv, TypeOK, Steps
<1>2. OneAddOfEach'
  BY DEF IInv, OneAddOfEach, Adding, Steps, Harmless
<1>3. ASSUME NEW d \in Callers, d # c
      PROVE  AddFits(d)' /\ ChangeFits(d)' /\ FallbackCovers(d)'
  <2>1. op'[d] = op[d] /\ (Adding(d) /\ Adding(c) => op[d].mem # op[c].mem)
    BY <1>3 DEF Steps, IInv, OneAddOfEach
  <2>2. AddFits(d)'
    BY <2>1 DEF IInv, AddFits, Adding, Harmless
  <2>3. ChangeFits(d)'
    BY <2>1 DEF IInv, ChangeFits, Changing, Id, Harmless
  <2>4. FallbackCovers(d)'
    BY <2>1 DEF IInv, FallbackCovers, Harmless
  <2> QED
    BY <2>2, <2>3, <2>4
<1> QED
  BY <1>1, <1>2, <1>3

\* A task that picks a backend, is past one or was failed by it, is in its fallback,
\* or goes on at another stage.
Picked(t, b)     == [t EXCEPT !.pc = "first", !.at = b]
Past(t, b, pc)   == [t EXCEPT !.pc = pc, !.left = @ \ {b}]
Failed(t, b, pc) == [t EXCEPT !.pc = pc, !.left = @ \ {b}, !.failed = @ \union {b}]
FallsBack(t)     == [t EXCEPT !.pc = "fallback", !.left = registered \ {t.source}]
At(t, pc)        == [t EXCEPT !.pc = pc]

\* It stays well typed, and of the same operation.
SameOperation(u, t) ==
    u \in TaskType /\ u.mem = t.mem /\ u.source = t.source /\ u.late = t.late

LEMMA FieldsChange ==
    ASSUME NEW t \in TaskType, NEW b \in Backends, NEW pc \in Stage, registered \subseteq Backends
    PROVE  /\ /\ SameOperation(Picked(t, b), t) /\ Picked(t, b).pc = "first"
              /\ Picked(t, b).at = b /\ Picked(t, b).left = t.left /\ Picked(t, b).failed = t.failed
           /\ /\ SameOperation(Past(t, b, pc), t) /\ Past(t, b, pc).pc = pc
              /\ Past(t, b, pc).at = t.at /\ Past(t, b, pc).left = t.left \ {b}
              /\ Past(t, b, pc).failed = t.failed
           /\ /\ SameOperation(Failed(t, b, pc), t) /\ Failed(t, b, pc).pc = pc
              /\ Failed(t, b, pc).at = t.at /\ Failed(t, b, pc).left = t.left \ {b}
              /\ Failed(t, b, pc).failed = t.failed \union {b}
           /\ /\ SameOperation(FallsBack(t), t) /\ FallsBack(t).pc = "fallback"
              /\ FallsBack(t).at = t.at /\ FallsBack(t).left = registered \ {t.source}
              /\ FallsBack(t).failed = t.failed
           /\ /\ SameOperation(At(t, pc), t) /\ At(t, pc).pc = pc
              /\ At(t, pc).at = t.at /\ At(t, pc).left = t.left /\ At(t, pc).failed = t.failed
<1>1. PICK pc0 \in Stage, mem \in Memories \union {"none"}, at \in Backends \union {"none"},
          source \in AllSources \union {"fusion", "none"}, left \in SUBSET Backends,
          failed \in SUBSET Backends, late \in BOOLEAN :
          t = [pc |-> pc0, mem |-> mem, at |-> at, source |-> source, left |-> left,
               failed |-> failed, late |-> late]
  BY DEF TaskType
<1>2. "first" \in Stage /\ "fallback" \in Stage
  BY DEF Stage
<1>3. /\ SameOperation(Picked(t, b), t) /\ Picked(t, b).pc = "first"
      /\ Picked(t, b).at = b /\ Picked(t, b).left = t.left /\ Picked(t, b).failed = t.failed
  BY <1>1, <1>2 DEF TaskType, SameOperation, Picked
<1>4. /\ SameOperation(Past(t, b, pc), t) /\ Past(t, b, pc).pc = pc
      /\ Past(t, b, pc).at = t.at /\ Past(t, b, pc).left = t.left \ {b}
      /\ Past(t, b, pc).failed = t.failed
  BY <1>1 DEF TaskType, SameOperation, Past
<1>5. /\ SameOperation(Failed(t, b, pc), t) /\ Failed(t, b, pc).pc = pc
      /\ Failed(t, b, pc).at = t.at /\ Failed(t, b, pc).left = t.left \ {b}
      /\ Failed(t, b, pc).failed = t.failed \union {b}
  BY <1>1 DEF TaskType, SameOperation, Failed
<1>6. /\ SameOperation(FallsBack(t), t) /\ FallsBack(t).pc = "fallback"
      /\ FallsBack(t).at = t.at /\ FallsBack(t).left = registered \ {t.source}
      /\ FallsBack(t).failed = t.failed
  BY <1>1, <1>2 DEF TaskType, SameOperation, FallsBack
<1>7. /\ SameOperation(At(t, pc), t) /\ At(t, pc).pc = pc
      /\ At(t, pc).at = t.at /\ At(t, pc).left = t.left /\ At(t, pc).failed = t.failed
  BY <1>1 DEF TaskType, SameOperation, At
<1> QED
  BY <1>3, <1>4, <1>5, <1>6, <1>7

\* What the invariant makes of the shared state.
SharedFits ==
    /\ registered \subseteq Backends
    /\ registering \subseteq Backends \ registered
    /\ changes \in 0..MaxChanges
    /\ held \subseteq Backends \X Memories \X Text
    /\ known \subseteq Ids /\ gone \subseteq Ids
    /\ removed \subseteq Ids /\ deleted \subseteq removed
    /\ acked \subseteq Memories /\ lossy \subseteq Memories
    /\ updated \subseteq Backends \X Memories \X (AllSources \union {"fusion"})
    /\ IdsFit /\ OneIdUnlessLost /\ UpdateLands

\* A step of c that leaves the shared state and its own operation fit preserves the
\* invariant.
LEMMA StepFits ==
    ASSUME IInv, NEW c \in Callers, Steps(c), Harmless(c), SharedFits',
           AddFits(c)', ChangeFits(c)', FallbackCovers(c)'
    PROVE  IInv'
<1>1. /\ \A d \in Callers : AddFits(d)' /\ ChangeFits(d)' /\ FallbackCovers(d)'
      /\ OneAddOfEach'
      /\ readers' = {d \in Callers : op'[d].pc = "fallback"}
  BY OthersFit
<1>2. TypeOK'
  BY <1>1 DEF TypeOK, SharedFits, Steps
<1> QED
  BY <1>1, <1>2 DEF IInv, SharedFits

\* Without stores or removals the shared state stays fit.
LEMMA SharedStays ==
    ASSUME IInv, changes' \in 0..MaxChanges,
           UNCHANGED <<registered, registering, held, known, acked, lossy, removed,
                       deleted, gone, updated>>
    PROVE  SharedFits'
<1>1. IdsFit' /\ OneIdUnlessLost' /\ UpdateLands'
  BY DEF IInv, IdsFit, OneIdUnlessLost, UpdateLands
<1> QED
  BY <1>1 DEF IInv, TypeOK, SharedFits, Ids

\* An operation that returns leaves nothing to be fit.
LEMMA Returned ==
    ASSUME IInv, NEW c \in Callers, Return(c), readers' = readers \ {c}
    PROVE  /\ Steps(c) /\ AddFits(c)' /\ ChangeFits(c)' /\ FallbackCovers(c)' /\ ~Adding(c)'
<1>1. Idle \in TaskType /\ Idle.pc = "idle"
  BY DEF Idle, Task, TaskType, Stage
<1>2. op'[c] = Idle /\ op' \in [Callers -> TaskType] /\ \A d \in Callers \ {c} : op'[d] = op[d]
  BY <1>1 DEF Return, IInv, TypeOK
<1> QED
  BY <1>1, <1>2 DEF Steps, AddFits, ChangeFits, FallbackCovers, Adding, Changing

\* c reads only while it is in its fallback.
LEMMA NotReading ==
    ASSUME IInv, NEW c \in Callers, op[c].pc # "fallback"
    PROVE  readers \ {c} = readers
BY DEF IInv, TypeOK

\* A backend stores, or only may have stored, a memory that is being added.
LEMMA StoreFits ==
    ASSUME IInv, NEW c \in Callers, Adding(c), NEW b \in registered,
           \/ /\ Stores(b, op[c].mem)
              /\ \/ lossy' = lossy /\ acked' = acked \union {op[c].mem}
                 \/ lossy' = lossy \union {op[c].mem} /\ acked' = acked
           \/ UNCHANGED <<held, known, acked, lossy>>,
           UNCHANGED <<registered, registering, changes, removed, deleted, gone, updated>>
    PROVE  /\ SharedFits'
           /\ known \subseteq known' /\ lossy \subseteq lossy' /\ acked \subseteq acked'
           /\ acked' \subseteq acked \union {op[c].mem}
           /\ known' \subseteq known \union (registered \X {op[c].mem})
           /\ acked' = acked => op[c].mem \in lossy' \/ known' = known
<1> DEFINE m == op[c].mem
<1>1. /\ b \in Backends /\ m \in Memories \ acked
      /\ m \in lossy \/ \A d \in Backends : <<d, m>> \notin known
  BY DEF IInv, TypeOK, AddFits
<1>2. CASE UNCHANGED <<held, known, acked, lossy>>
  BY <1>2, SharedStays DEF IInv, TypeOK
<1>3. CASE /\ Stores(b, m)
           /\ \/ lossy' = lossy /\ acked' = acked \union {m}
              \/ lossy' = lossy \union {m} /\ acked' = acked
  <2> DEFINE text == IF <<b, m>> \in known THEN "again" ELSE "original"
  <2>1. /\ held' = held \union {<<b, m, text>>} /\ text \in Text
        /\ known' = known \union {<<b, m>>}
    BY <1>3 DEF Stores, Text
  <2>2. m \notin lossy => text = "original"
    BY <1>1
  <2> HIDE DEF m, text
  <2>3. lossy \subseteq lossy'
    BY <1>3
  <2>4. OneIdUnlessLost'
    <3>1. ASSUME NEW n \in Memories, n \notin lossy'
          PROVE  /\ \A d, e \in Backends : <<d, n>> \in known' /\ <<e, n>> \in known' => d = e
                 /\ \A d \in Backends : <<d, n, "again">> \notin held'
      <4>1. CASE n = m
        BY <1>1, <2>1, <2>2, <2>3, <3>1, <4>1 DEF IInv, OneIdUnlessLost
      <4>2. CASE n # m
        BY <2>1, <2>3, <3>1, <4>2 DEF IInv, OneIdUnlessLost
      <4> QED
        BY <4>1, <4>2
    <3> QED
      BY <3>1 DEF OneIdUnlessLost
  <2>5. UpdateLands'
    BY <2>1 DEF IInv, UpdateLands
  <2>6. IdsFit'
    BY <1>1, <2>1 DEF IInv, IdsFit
  <2>7. /\ known' \subseteq Ids /\ acked' \subseteq Memories /\ lossy' \subseteq Memories
        /\ held' \subseteq Backends \X Memories \X Text
    BY <1>1, <1>3, <2>1 DEF IInv, TypeOK, Ids
  <2>8. SharedFits'
    BY <2>4, <2>5, <2>6, <2>7 DEF IInv, TypeOK, SharedFits, Ids
  <2> QED
    BY <1>1, <1>3, <2>1, <2>8 DEF m
<1> QED
  BY <1>2, <1>3

-----------------------------------------------------------------------------
\* Nothing that an Add does breaks the invariant.
LEMMA AddsPreserve ==
    ASSUME IInv, NEW c \in Callers
    PROVE  /\ \A m \in Memories, type \in MemoryTypes : Add(c, m, type) => IInv'
           /\ AddPicks(c) \/ FirstFails(c) \/ FallbackLocks(c) \/ FallbackFails(c) => IInv'
           /\ AddSucceeds(c) \/ AddFails(c) => IInv'
<1>1. op[c] \in TaskType /\ registered \subseteq Backends /\ AddFits(c) /\ FallbackCovers(c)
      /\ op \in [Callers -> TaskType] /\ changes \in 0..MaxChanges
  BY DEF IInv, TypeOK
<1>2. {"idle", "pick", "first", "lock", "fallback"} \subseteq Stage
  BY DEF Stage
<1>3. ASSUME NEW m \in Memories, NEW type \in MemoryTypes, Add(c, m, type) PROVE IInv'
  <2> DEFINE target == RouteWrite(type)
             t1 == Task("first", m, target, target, {}, FALSE)
             t2 == Task("pick", m, "none", target, {}, TRUE)
  <2>1. target \in AllSources
    BY DEF RouteWrite, AllSources
  <2> HIDE DEF target
  <2>2. PICK t : /\ op' = [op EXCEPT ![c] = t]
                 /\ t = t2 \/ (target \in registered /\ t = t1)
    BY <1>3 DEF Add, Begin, target
  <2>3. /\ op[c].pc = "idle" /\ m \notin acked
        /\ \A d \in Callers : Adding(d) => op[d].mem # m
        /\ UNCHANGED <<registered, registering, readers, changes, held, history>>
    BY <1>3 DEF Add, Begin, Adding
  <2>4. \A b \in Backends : <<b, m>> \notin known
    <3>1. m \notin {k[2] : k \in known}
      BY <1>3 DEF Add
    <3> QED
      BY <3>1
  <2>5. /\ t \in TaskType /\ t.mem = m /\ t.left = {} /\ t.pc \in {"pick", "first"}
        /\ t.pc = "pick" => t.late
        /\ t.pc = "first" => t.at \in registered /\ t.source = t.at
    <3>1. CASE t = t1 /\ target \in registered
      BY <1>1, <2>1, <3>1 DEF Task, TaskType, Stage
    <3>2. CASE t = t2
      BY <2>1, <3>2 DEF Task, TaskType, Stage
    <3> QED
      BY <2>2, <3>1, <3>2
  <2> HIDE DEF t1, t2
  <2>6. Steps(c) /\ op'[c] = t
    BY <1>1, <2>2, <2>3, <2>5, NotReading DEF Steps
  <2>7. AddFits(c)' /\ ChangeFits(c)' /\ FallbackCovers(c)'
    BY <2>3, <2>4, <2>5, <2>6 DEF AddFits, ChangeFits, FallbackCovers, Adding, Changing, history
  <2>8. Harmless(c) /\ SharedFits'
    BY <1>1, <2>3, <2>5, <2>6, SharedStays DEF Harmless, history
  <2> QED
    BY <2>6, <2>7, <2>8, StepFits
<1>4. ASSUME NEW u, op' = [op EXCEPT ![c] = u], SameOperation(u, op[c]),
             readers' = IF u.pc = "fallback" THEN readers \union {c} ELSE readers \ {c}
      PROVE  Steps(c) /\ op'[c] = u /\ op'[c].mem = op[c].mem
             /\ op'[c].source = op[c].source /\ op'[c].late = op[c].late
  BY <1>1, <1>4 DEF Steps, SameOperation
<1>5. ASSUME AddPicks(c) PROVE IInv'
  <2>1. /\ op[c].pc = "pick" /\ readers \ {c} = readers
        /\ UNCHANGED <<registered, registering, readers, changes, held, known, acked,
                       lossy, removed, deleted, gone, updated>>
    BY <1>5, NotReading DEF AddPicks, history
  <2>2. SharedFits'
    BY <1>1, <2>1, SharedStays
  <2>3. CASE Return(c)
    BY <2>1, <2>2, <2>3, Returned, StepFits DEF Harmless
  <2>4. ASSUME NEW b \in registered, op' = [op EXCEPT ![c].pc = "first", ![c].at = b]
        PROVE  IInv'
    <3>1. op' = [op EXCEPT ![c] = Picked(op[c], b)]
      BY <1>1, <2>4 DEF Picked
    <3>2. /\ SameOperation(Picked(op[c], b), op[c]) /\ Picked(op[c], b).pc = "first"
          /\ Picked(op[c], b).at = b /\ Picked(op[c], b).left = op[c].left
      BY <1>1, <1>2, FieldsChange
    <3>3. /\ Steps(c) /\ op'[c].pc = "first" /\ op'[c].at = b /\ op'[c].left = op[c].left
          /\ op'[c].mem = op[c].mem /\ op'[c].late = op[c].late
      BY <1>4, <2>1, <3>1, <3>2
    <3>4. AddFits(c)' /\ ChangeFits(c)' /\ FallbackCovers(c)' /\ Adding(c)
      BY <1>1, <2>1, <2>4, <3>3 DEF AddFits, ChangeFits, FallbackCovers, Adding, Changing
    <3> QED
      BY <2>1, <2>2, <3>3, <3>4, StepFits DEF Harmless
  <2> QED
    BY <1>5, <2>3, <2>4 DEF AddPicks
<1>6. ASSUME NEW b \in registered, NEW pc \in {"lock", "fallback"}, FailedBy(c, b, pc),
             op[c].pc = IF pc = "lock" THEN "first" ELSE "fallback",
             op[c].pc = "first" => b = op[c].at,
             MayStore(b, op[c].mem),
             UNCHANGED <<registered, registering, readers, changes, acked, removed,
                         deleted, gone, updated>>
      PROVE  IInv'
  <2>1. Adding(c) /\ readers = IF pc = "fallback" THEN readers \union {c} ELSE readers \ {c}
    BY <1>6 DEF Adding, IInv, TypeOK
  <2>2. /\ SharedFits'
        /\ known \subseteq known' /\ lossy \subseteq lossy'
        /\ known' \subseteq known \union (registered \X {op[c].mem})
        /\ op[c].mem \in lossy' \/ known' = known
    BY <1>6, <2>1, StoreFits DEF MayStore
  <2>3. op' = [op EXCEPT ![c] = Failed(op[c], b, pc)]
    BY <1>1, <1>6 DEF FailedBy, Failed
  <2>4. /\ SameOperation(Failed(op[c], b, pc), op[c]) /\ Failed(op[c], b, pc).pc = pc
        /\ Failed(op[c], b, pc).left = op[c].left \ {b}
        /\ Failed(op[c], b, pc).failed = op[c].failed \union {b}
    BY <1>1, <1>2, FieldsChange
  <2>5. /\ Steps(c) /\ op'[c].pc = pc /\ op'[c].left = op[c].left \ {b}
        /\ op'[c].failed = op[c].failed \union {b} /\ op'[c].mem = op[c].mem
        /\ op'[c].late = op[c].late /\ op'[c].source = op[c].source
    BY <1>4, <1>6, <2>1, <2>3, <2>4
  <2>6. AddFits(c)'
    BY <1>1, <1>6, <2>1, <2>2, <2>5 DEF AddFits, Adding
  <2>7. ChangeFits(c)' /\ FallbackCovers(c)'
    BY <1>1, <1>6, <2>5 DEF ChangeFits, Changing, FallbackCovers
  <2> QED
    BY <1>6, <2>1, <2>2, <2>5, <2>6, <2>7, StepFits DEF Harmless
<1>7. ASSUME FirstFails(c) PROVE IInv'
  <2>1. op[c].pc = "first" /\ op[c].at \in registered
    BY <1>1, <1>7 DEF FirstFails, AddFits, Adding
  <2> QED
    BY <1>6, <1>7, <2>1 DEF FirstFails
<1>8. ASSUME FallbackFails(c) PROVE IInv'
  <2>1. op[c].pc = "fallback" /\ op[c].left \subseteq registered
    BY <1>1, <1>8 DEF FallbackFails, AddFits, Adding
  <2> QED
    BY <1>6, <1>8, <2>1 DEF FallbackFails
<1>9. ASSUME FallbackLocks(c) PROVE IInv'
  <2>1. /\ op[c].pc = "lock" /\ Adding(c) /\ readers' = readers \union {c}
        /\ UNCHANGED <<registered, registering, changes, held, known, acked, lossy,
                       removed, deleted, gone, updated>>
    BY <1>9 DEF FallbackLocks, history, Adding
  <2>2. SharedFits'
    BY <1>1, <2>1, SharedStays
  <2>3. op' = [op EXCEPT ![c] = FallsBack(op[c])]
    BY <1>1, <1>9 DEF FallbackLocks, FallsBack
  <2>4. /\ SameOperation(FallsBack(op[c]), op[c]) /\ FallsBack(op[c]).pc = "fallback"
        /\ FallsBack(op[c]).left = registered \ {op[c].source}
        /\ FallsBack(op[c]).failed = op[c].failed
    <3>1. CASE Backends = {}
      BY <1>1, <3>1 DEF FallsBack, SameOperation, TaskType, Stage
    <3>2. CASE Backends # {}
      BY <1>1, <1>2, <3>2, FieldsChange
    <3> QED
      BY <3>1, <3>2
  <2>5. /\ Steps(c) /\ op'[c].pc = "fallback" /\ op'[c].left = registered \ {op[c].source}
        /\ op'[c].failed = op[c].failed /\ op'[c].mem = op[c].mem
        /\ op'[c].late = op[c].late /\ op'[c].source = op[c].source
    BY <1>4, <2>1, <2>3, <2>4
  <2>6. AddFits(c)' /\ ChangeFits(c)' /\ FallbackCovers(c)'
    BY <1>1, <2>1, <2>5 DEF AddFits, Adding, ChangeFits, Changing, FallbackCovers
  <2> QED
    BY <2>1, <2>2, <2>5, <2>6, StepFits DEF Harmless
<1>10. ASSUME AddSucceeds(c) PROVE IInv'
  <2>1. /\ Adding(c) /\ Return(c) /\ readers' = readers \ {c}
        /\ op[c].pc = "first" \/ op[c].pc = "fallback"
        /\ acked' = acked \union {op[c].mem}
        /\ UNCHANGED <<registered, registering, changes, lossy, removed, deleted, gone,
                       updated>>
    BY <1>10 DEF AddSucceeds, Adding
  <2>2. PICK b \in registered : Stores(b, op[c].mem)
    BY <1>1, <1>10, <2>1 DEF AddSucceeds, AddFits
  <2>3. /\ SharedFits' /\ known \subseteq known'
        /\ known' \subseteq known \union (registered \X {op[c].mem})
    BY <2>1, <2>2, StoreFits
  <2> QED
    BY <2>1, <2>3, Returned, StepFits DEF Harmless
<1>11. ASSUME AddFails(c) PROVE IInv'
  <2>1. /\ Return(c) /\ readers' = readers \ {c}
        /\ UNCHANGED <<registered, registering, changes, held, known, acked, lossy,
                       removed, deleted, gone, updated>>
    BY <1>11 DEF AddFails, history
  <2>2. SharedFits'
    BY <1>1, <2>1, SharedStays
  <2> QED
    BY <2>1, <2>2, Returned, StepFits DEF Harmless
<1> QED
  BY <1>3, <1>5, <1>7, <1>8, <1>9, <1>10, <1>11

\* What an Update or Delete may do to the backends leaves the shared state fit: the
\* text of its id changes, a copy appears under another id, or what its id names goes.
LEMMA ChangeKeeps ==
    ASSUME IInv, NEW c \in Callers, Changing(c), NEW d \in registered,
           \/ /\ held' = Without(Id(c)) \union {<<op[c].at, op[c].mem, "edited">>}
              /\ op[c].at # "cognee" /\ UNCHANGED <<removed, deleted>>
           \/ /\ held' = held \union {<<d, op[c].mem, "rewritten">>}
              /\ UNCHANGED <<removed, deleted>>
           \/ /\ held' = Without(Id(c)) /\ removed' = removed \union {Id(c)}
              /\ \/ op[c].at = "cognee" /\ deleted' = deleted
                 \/ deleted' = deleted \union {Id(c)}
           \/ UNCHANGED <<held, removed, deleted>>,
           \/ updated' = updated
           \/ /\ op[c].pc \in {"update", "readd"}
              /\ updated' = updated \union {<<op[c].at, op[c].mem, op[c].source>>}
              /\ op[c].source = op[c].at =>
                    \/ <<op[c].at, op[c].mem, "rewritten">> \in held'
                    \/ op[c].at # "cognee" /\ <<op[c].at, op[c].mem, "edited">> \in held',
           gone' \subseteq Ids,
           UNCHANGED <<registered, registering, changes, known, acked, lossy>>
    PROVE  SharedFits' /\ removed \subseteq removed'
<1>1. /\ Id(c) = <<op[c].at, op[c].mem>> /\ Id(c) \in known
      /\ op[c].at \in Backends /\ op[c].mem \in Memories
      /\ op[c].pc \in {"update", "readd"} => op[c].source \in AllSources \union {"fusion"}
  BY DEF IInv, ChangeFits, IdsFit, TypeOK, TaskType, Id, Ids
<1>2. Without(Id(c)) = held \ {<<op[c].at, op[c].mem, k>> : k \in {"original", "edited"}}
  BY <1>1 DEF Without
<1>3. held' \subseteq Backends \X Memories \X Text
  BY <1>1, <1>2 DEF IInv, TypeOK, Text
<1>4. /\ removed' \subseteq known /\ removed \subseteq removed'
      /\ deleted' \subseteq removed' /\ deleted \subseteq deleted'
  BY <1>1 DEF IInv, IdsFit, TypeOK
<1>5. IdsFit'
  <2>1. op[c].at \in registered
    BY <1>1 DEF IInv, IdsFit
  <2>2. \A k \in held' : k[1] \in registered
    BY <1>2, <2>1 DEF IInv, IdsFit
  <2> QED
    BY <1>4, <2>2 DEF IInv, IdsFit
<1>6. OneIdUnlessLost'
  <2>1. \A m, b : <<b, m, "again">> \in held' => <<b, m, "again">> \in held
    BY <1>1, <1>2
  <2> QED
    BY <2>1 DEF IInv, OneIdUnlessLost
<1>7. updated' \subseteq Backends \X Memories \X (AllSources \union {"fusion"})
  BY <1>1 DEF IInv, TypeOK
<1>8. UpdateLands'
  <2>1. ASSUME NEW b, NEW m, <<b, m, "rewritten">> \in held
        PROVE  <<b, m, "rewritten">> \in held'
    BY <1>2, <2>1
  <2>2. ASSUME NEW b, NEW m, b # "cognee", <<b, m, "edited">> \in held
        PROVE  <<b, m, "edited">> \in held' \/ <<b, m>> \in deleted'
    BY <1>1, <1>2, <2>2
  <2>3. ASSUME NEW u \in updated, u[3] = u[1]
        PROVE  \/ <<u[1], u[2], "rewritten">> \in held'
               \/ u[1] # "cognee" /\ <<u[1], u[2], "edited">> \in held'
               \/ <<u[1], u[2]>> \in deleted'
    <3>1. \/ <<u[1], u[2], "rewritten">> \in held
          \/ u[1] # "cognee" /\ <<u[1], u[2], "edited">> \in held
          \/ <<u[1], u[2]>> \in deleted
      BY <2>3 DEF IInv, UpdateLands
    <3> QED
      BY <1>4, <2>1, <2>2, <3>1
  <2> QED
    BY <2>3 DEF UpdateLands
<1>9. /\ registered' \subseteq Backends /\ registering' \subseteq Backends \ registered'
      /\ changes' \in 0..MaxChanges /\ known' \subseteq Ids
      /\ removed' \subseteq Ids /\ deleted' \subseteq removed' /\ gone' \subseteq Ids
      /\ acked' \subseteq Memories /\ lossy' \subseteq Memories
  BY <1>4 DEF IInv, TypeOK, Ids
<1> QED
  BY <1>3, <1>4, <1>5, <1>6, <1>7, <1>8, <1>9 DEF SharedFits

\* Nothing that an Update or Delete does breaks the invariant.
LEMMA ChangesPreserve ==
    ASSUME IInv, NEW c \in Callers
    PROVE  /\ \A b \in Backends, m \in Memories :
                 /\ \A source \in {b, "fusion"} : Update(c, b, m, source) => IInv'
                 /\ Delete(c, b, m) => IInv'
           /\ UpdateSucceeds(c) \/ UpdateFailsAt(c) \/ UpdateFails(c) => IInv'
           /\ CogneeDeletes(c) \/ CogneeAdds(c) \/ CogneeFailsToAdd(c) => IInv'
           /\ DeleteDoneAt(c) \/ DeleteFailsAt(c) \/ DeleteReturns(c) => IInv'
<1>1. /\ op[c] \in TaskType /\ registered \subseteq Backends /\ ChangeFits(c)
      /\ op \in [Callers -> TaskType] /\ changes \in 0..MaxChanges /\ gone \subseteq Ids
  BY DEF IInv, TypeOK
<1>2. {"update", "readd", "delete"} \subseteq Stage
  BY DEF Stage
<1>3. ASSUME NEW b \in Backends, NEW m \in Memories, NEW pc \in {"update", "delete"},
             NEW source \in {b, "fusion", "none"}, NEW left \in SUBSET registered,
             BeginChange(c, Task(pc, m, b, source, left, FALSE)),
             pc = "update" => source # "none" /\ (source = b => left \subseteq {b}),
             pc = "delete" => left = registered,
             UNCHANGED <<registered, registering, readers, held, history>>
      PROVE  IInv'
  <2> DEFINE t == Task(pc, m, b, source, left, FALSE)
  <2>1. /\ t \in TaskType /\ t.pc = pc /\ t.mem = m /\ t.at = b /\ t.source = source
        /\ t.left = left /\ t.failed = {}
    BY <1>1, <1>2, <1>3 DEF Task, TaskType
  <2>2. /\ op[c].pc = "idle" /\ op' = [op EXCEPT ![c] = t] /\ <<b, m>> \in known
        /\ changes < MaxChanges /\ changes' = changes + 1
    BY <1>3, <2>1 DEF BeginChange, Begin
  <2> HIDE DEF t
  <2>3. Steps(c) /\ op'[c] = t
    BY <1>1, <1>3, <2>1, <2>2, NotReading DEF Steps
  <2>4. b \in registered
    BY <2>2 DEF IInv, IdsFit
  <2>5. AddFits(c)' /\ ChangeFits(c)' /\ FallbackCovers(c)' /\ ~Adding(c)'
    BY <1>3, <2>1, <2>2, <2>3, <2>4
       DEF AddFits, ChangeFits, FallbackCovers, Adding, Changing, Id, history
  <2>6. SharedFits'
    BY <1>1, <1>3, <2>2, SharedStays DEF history
  <2> QED
    BY <1>3, <2>3, <2>5, <2>6, StepFits DEF Harmless, history
<1>4. ASSUME NEW b \in Backends, NEW m \in Memories, NEW source \in {b, "fusion"},
             Update(c, b, m, source)
      PROVE  IInv'
  <2> DEFINE left == IF source \in registered THEN {source} ELSE registered
  <2>1. /\ left \subseteq registered
        /\ BeginChange(c, Task("update", m, b, source, left, FALSE))
        /\ UNCHANGED <<registered, registering, readers, held, history>>
    BY <1>4 DEF Update
  <2>2. source # "none" /\ (source = b => left \subseteq {b})
    <3>1. <<b, m>> \in known
      BY <2>1 DEF BeginChange, Task
    <3>2. b \in registered
      BY <3>1 DEF IInv, IdsFit
    <3> QED
      BY <3>2 DEF AllSources
  <2> QED
    BY <1>3, <2>1, <2>2
<1>5. ASSUME NEW b \in Backends, NEW m \in Memories, Delete(c, b, m) PROVE IInv'
  BY <1>3, <1>5 DEF Delete
<1>6. ASSUME Changing(c), NEW u, op' = [op EXCEPT ![c] = u], SameOperation(u, op[c]),
             u.at = op[c].at, u.left \subseteq op[c].left,
             op[c].pc = "delete" => u.pc = "delete",
             op[c].pc # "delete" => u.pc \in {"update", "readd"},
             u.pc = "readd" => "cognee" \in u.left,
             u.pc = "delete" => u.at \in u.left \union u.failed \/ Id(c) \in removed',
             SharedFits', removed \subseteq removed',
             UNCHANGED <<registered, registering, readers, known, acked, lossy>>
      PROVE  IInv'
  <2>1. /\ u.pc \notin {"pick", "first", "lock", "fallback"} /\ u.mem = op[c].mem
        /\ u.source = op[c].source /\ u \in TaskType
        /\ u.pc \in {"update", "readd"} => op[c].pc \in {"update", "readd"}
    BY <1>6 DEF SameOperation, Changing
  <2>2. op[c].pc # "fallback"
    BY <1>6 DEF Changing
  <2>3. Steps(c) /\ op'[c] = u
    BY <1>1, <1>6, <2>1, <2>2, NotReading DEF Steps
  <2>4. Id(c)' = Id(c) /\ Id(c) \in known
    BY <1>1, <1>6, <2>1, <2>3 DEF Id, ChangeFits
  <2>5. AddFits(c)' /\ FallbackCovers(c)' /\ ~Adding(c)'
    BY <2>1, <2>3 DEF AddFits, FallbackCovers, Adding
  <2>6. ChangeFits(c)'
    BY <1>1, <1>6, <2>1, <2>3, <2>4 DEF ChangeFits, Changing
  <2> QED
    BY <1>6, <2>3, <2>5, <2>6, StepFits DEF Harmless
<1>7. ASSUME Changing(c), Return(c), SharedFits', removed \subseteq removed',
             UNCHANGED <<registered, registering, readers, known, acked, lossy>>
      PROVE  IInv'
  <2>1. readers' = readers \ {c}
    BY <1>7, NotReading DEF Changing
  <2> QED
    BY <1>7, <2>1, Returned, StepFits DEF Harmless
<1>8. ASSUME NEW d \in op[c].left, NEW pc \in Stage, PastBackend(c, d, pc)
      PROVE  \E u : /\ op' = [op EXCEPT ![c] = u] /\ SameOperation(u, op[c]) /\ u.at = op[c].at
                    /\ u.pc = pc /\ u.left = op[c].left \ {d} /\ u.failed = op[c].failed
  <2>1. op' = [op EXCEPT ![c] = Past(op[c], d, pc)] /\ d \in Backends
    BY <1>1, <1>8 DEF PastBackend, Past, TaskType
  <2>2. /\ SameOperation(Past(op[c], d, pc), op[c]) /\ Past(op[c], d, pc).at = op[c].at
        /\ Past(op[c], d, pc).pc = pc /\ Past(op[c], d, pc).left = op[c].left \ {d}
        /\ Past(op[c], d, pc).failed = op[c].failed
    BY <1>1, <2>1, FieldsChange
  <2> QED
    BY <2>1, <2>2
<1>9. ASSUME NEW d \in op[c].left, NEW pc \in Stage, FailedBy(c, d, pc)
      PROVE  \E u : /\ op' = [op EXCEPT ![c] = u] /\ SameOperation(u, op[c]) /\ u.at = op[c].at
                    /\ u.pc = pc /\ u.left = op[c].left \ {d} /\ u.failed = op[c].failed \union {d}
  <2>1. op' = [op EXCEPT ![c] = Failed(op[c], d, pc)] /\ d \in Backends
    BY <1>1, <1>9 DEF FailedBy, Failed, TaskType
  <2>2. /\ SameOperation(Failed(op[c], d, pc), op[c]) /\ Failed(op[c], d, pc).at = op[c].at
        /\ Failed(op[c], d, pc).pc = pc /\ Failed(op[c], d, pc).left = op[c].left \ {d}
        /\ Failed(op[c], d, pc).failed = op[c].failed \union {d}
    BY <1>1, <2>1, FieldsChange
  <2> QED
    BY <2>1, <2>2
<1>10. /\ op[c].left \subseteq Backends
       /\ Changing(c) => /\ op[c].mem \in Memories /\ op[c].at \in Backends
                         /\ op[c].left \subseteq registered /\ op[c].at \in registered
                         /\ Id(c) = <<op[c].at, op[c].mem>>
  BY <1>1 DEF TaskType, ChangeFits, Id, IInv, TypeOK, Ids, IdsFit
<1>11. ASSUME NEW d \in op[c].left, Updates(c, d), op[c].pc = "update"
       PROVE  \/ /\ d = op[c].at /\ op[c].at # "cognee"
                 /\ held' = Without(Id(c)) \union {<<op[c].at, op[c].mem, "edited">>}
              \/ held' = held \union {<<d, op[c].mem, "rewritten">>}
  BY <1>10, <1>11 DEF Updates, Holds, Changing
<1>12. ASSUME UpdateSucceeds(c) PROVE IInv'
  <2>1. PICK d \in op[c].left : Updates(c, d)
    BY <1>12 DEF UpdateSucceeds
  <2>2. /\ op[c].pc = "update" /\ Changing(c) /\ Return(c)
        /\ updated' = updated \union {<<op[c].at, op[c].mem, op[c].source>>}
        /\ UNCHANGED <<registered, registering, readers, changes, known, acked, lossy,
                       removed, deleted, gone>>
    BY <1>12 DEF UpdateSucceeds, Acknowledge, Changing
  <2>3. op[c].source = op[c].at => d = op[c].at
    BY <1>1, <2>1, <2>2 DEF ChangeFits
  <2>4. op[c].source = op[c].at =>
           \/ <<op[c].at, op[c].mem, "rewritten">> \in held'
           \/ op[c].at # "cognee" /\ <<op[c].at, op[c].mem, "edited">> \in held'
    BY <1>11, <2>1, <2>2, <2>3
  <2>5. SharedFits'
    BY <1>1, <1>10, <1>11, <2>1, <2>2, <2>4, ChangeKeeps
  <2> QED
    BY <1>7, <2>2, <2>5
<1>13. ASSUME UpdateFailsAt(c) PROVE IInv'
  <2>1. PICK d \in op[c].left : (Updates(c, d) \/ UNCHANGED held) /\ PastBackend(c, d, "update")
    BY <1>13 DEF UpdateFailsAt
  <2>2. /\ op[c].pc = "update" /\ Changing(c)
        /\ UNCHANGED <<registered, registering, readers, changes, known, acked, lossy,
                       removed, deleted, gone, updated>>
    BY <1>13 DEF UpdateFailsAt, Changing, history
  <2>3. SharedFits'
    BY <1>1, <1>10, <1>11, <2>1, <2>2, ChangeKeeps
  <2> QED
    BY <1>2, <1>6, <1>8, <2>1, <2>2, <2>3
<1>14. ASSUME CogneeDeletes(c) PROVE IInv'
  <2>1. /\ op[c].pc = "update" /\ Changing(c) /\ "cognee" \in op[c].left
        /\ \/ /\ held' = Without(Id(c)) /\ removed' = removed \union {Id(c)}
              /\ op[c].at = "cognee"
           \/ UNCHANGED <<held, removed>>
        /\ UNCHANGED <<registered, registering, readers, changes, known, acked, lossy,
                       deleted, gone, updated>>
    BY <1>14 DEF CogneeDeletes, Changing
  <2>2. SharedFits' /\ removed \subseteq removed'
    BY <1>1, <1>10, <2>1, ChangeKeeps
  <2>3. CASE PastBackend(c, "cognee", "update")
    BY <1>2, <1>6, <1>8, <2>1, <2>2, <2>3
  <2>4. CASE op' = [op EXCEPT ![c].pc = "readd"]
    <3>1. op' = [op EXCEPT ![c] = At(op[c], "readd")]
      BY <1>1, <2>4 DEF At
    <3>2. /\ SameOperation(At(op[c], "readd"), op[c]) /\ At(op[c], "readd").pc = "readd"
          /\ At(op[c], "readd").at = op[c].at /\ At(op[c], "readd").left = op[c].left
      BY <1>1, <1>2, <1>10, <2>1, FieldsChange
    <3> QED
      BY <1>6, <2>1, <2>2, <3>1, <3>2
  <2> QED
    BY <1>14, <2>3, <2>4 DEF CogneeDeletes
<1>15. ASSUME op[c].pc = "readd"
       PROVE  /\ Changing(c) /\ "cognee" \in op[c].left
              /\ op[c].source = op[c].at => op[c].at = "cognee"
  BY <1>1, <1>15 DEF ChangeFits, Changing
<1>16. ASSUME CogneeAdds(c) PROVE IInv'
  <2>1. /\ op[c].pc = "readd" /\ Return(c)
        /\ held' = held \union {<<"cognee", op[c].mem, "rewritten">>}
        /\ updated' = updated \union {<<op[c].at, op[c].mem, op[c].source>>}
        /\ UNCHANGED <<registered, registering, readers, changes, known, acked, lossy,
                       removed, deleted, gone>>
    BY <1>16 DEF CogneeAdds, Acknowledge
  <2>2. op[c].source = op[c].at =>
           \/ <<op[c].at, op[c].mem, "rewritten">> \in held'
           \/ op[c].at # "cognee" /\ <<op[c].at, op[c].mem, "edited">> \in held'
    BY <1>15, <2>1
  <2>3. SharedFits'
    BY <1>1, <1>10, <1>15, <2>1, <2>2, ChangeKeeps
  <2> QED
    BY <1>7, <1>15, <2>1, <2>3
<1>17. ASSUME CogneeFailsToAdd(c) PROVE IInv'
  <2>1. /\ op[c].pc = "readd" /\ PastBackend(c, "cognee", "update")
        /\ held' = held \union {<<"cognee", op[c].mem, "rewritten">>} \/ held' = held
        /\ UNCHANGED <<registered, registering, readers, changes, known, acked, lossy,
                       removed, deleted, gone, updated>>
    BY <1>17 DEF CogneeFailsToAdd, history
  <2>2. SharedFits'
    BY <1>1, <1>10, <1>15, <2>1, ChangeKeeps
  <2> QED
    BY <1>2, <1>6, <1>8, <1>15, <2>1, <2>2
<1>18. ASSUME UpdateFails(c) PROVE IInv'
  <2>1. /\ Changing(c) /\ Return(c)
        /\ UNCHANGED <<registered, registering, readers, changes, held, known, acked,
                       lossy, removed, deleted, gone, updated>>
    BY <1>18 DEF UpdateFails, Changing, history
  <2> QED
    BY <1>1, <1>7, <2>1, SharedStays
<1>19. ASSUME DeleteDoneAt(c) \/ DeleteFailsAt(c) PROVE IInv'
  <2>1. /\ op[c].pc = "delete" /\ Changing(c)
        /\ UNCHANGED <<registered, registering, readers, changes, known, acked, lossy,
                       gone, updated>>
    BY <1>19 DEF DeleteDoneAt, DeleteFailsAt, Changing
  <2>2. PICK d \in op[c].left :
           \/ PastBackend(c, d, "delete") /\ Removes(c, d)
           \/ FailedBy(c, d, "delete") /\ (Removes(c, d) \/ UNCHANGED <<held, removed,
                                                                        deleted>>)
    BY <1>19 DEF DeleteDoneAt, DeleteFailsAt
  <2>3. \/ /\ held' = Without(Id(c)) /\ removed' = removed \union {Id(c)}
           /\ deleted' = deleted \union {Id(c)}
        \/ UNCHANGED <<held, removed, deleted>>
    BY <2>2 DEF Removes
  <2>4. SharedFits' /\ removed \subseteq removed'
    BY <1>1, <1>10, <2>1, <2>3, ChangeKeeps
  <2>5. op[c].at \in op[c].left \union op[c].failed \/ Id(c) \in removed
    BY <1>1, <2>1 DEF ChangeFits
  <2>6. CASE FailedBy(c, d, "delete")
    <3>1. PICK u : /\ op' = [op EXCEPT ![c] = u] /\ SameOperation(u, op[c]) /\ u.at = op[c].at
                   /\ u.pc = "delete" /\ u.left = op[c].left \ {d}
                   /\ u.failed = op[c].failed \union {d}
      BY <1>2, <1>9, <2>6
    <3> QED
      BY <1>6, <2>1, <2>4, <2>5, <3>1
  <2>7. CASE PastBackend(c, d, "delete") /\ Removes(c, d)
    <3>1. PICK u : /\ op' = [op EXCEPT ![c] = u] /\ SameOperation(u, op[c]) /\ u.at = op[c].at
                   /\ u.pc = "delete" /\ u.left = op[c].left \ {d} /\ u.failed = op[c].failed
      BY <1>2, <1>8, <2>7
    <3>2. d # op[c].at \/ Id(c) \in removed'
      BY <2>7 DEF Removes
    <3> QED
      BY <1>6, <2>1, <2>4, <2>5, <3>1, <3>2
  <2> QED
    BY <2>2, <2>6, <2>7
<1>20. ASSUME DeleteReturns(c) PROVE IInv'
  <2>1. /\ op[c].pc = "delete" /\ Changing(c) /\ Return(c)
        /\ gone' = gone \/ gone' = gone \union {Id(c)}
        /\ UNCHANGED <<registered, registering, readers, changes, held, known, acked,
                       lossy, removed, deleted, updated>>
    BY <1>20 DEF DeleteReturns, Changing
  <2>2. gone' \subseteq Ids
    BY <1>1, <1>10, <2>1 DEF Ids
  <2>3. SharedFits'
    BY <1>10, <2>1, <2>2, ChangeKeeps
  <2> QED
    BY <1>7, <2>1, <2>3
<1> QED
  BY <1>4, <1>5, <1>12, <1>13, <1>14, <1>16, <1>17, <1>18, <1>19, <1>20

-----------------------------------------------------------------------------
\* A RegisterProvider waits, or gets the lock that no fallback holds.
LEMMA RegisterPreserves ==
    ASSUME IInv, NEW b \in Backends, RegisterAsks(b) \/ Register(b)
    PROVE  IInv'
<1>1. /\ registered \subseteq registered' /\ registered' \subseteq registered \union registering
      /\ registered' # registered => readers = {}
      /\ registering' \subseteq Backends \ registered' /\ registered' \subseteq Backends
      /\ UNCHANGED <<readers, changes, op, held, history>>
  BY DEF IInv, TypeOK, RegisterAsks, Register
<1>2. TypeOK'
  BY <1>1 DEF IInv, TypeOK, history
<1>3. ASSUME NEW c \in Callers
      PROVE  AddFits(c)' /\ ChangeFits(c)' /\ FallbackCovers(c)'
  <2>1. AddFits(c)'
    BY <1>1 DEF IInv, AddFits, Adding, history
  <2>2. ChangeFits(c)'
    BY <1>1 DEF IInv, ChangeFits, Changing, Id, history
  <2>3. FallbackCovers(c)'
    BY <1>1 DEF IInv, TypeOK, FallbackCovers
  <2> QED
    BY <2>1, <2>2, <2>3
<1>4. OneAddOfEach' /\ IdsFit' /\ OneIdUnlessLost' /\ UpdateLands'
  BY <1>1 DEF IInv, OneAddOfEach, Adding, IdsFit, OneIdUnlessLost, UpdateLands, history
<1> QED
  BY <1>2, <1>3, <1>4 DEF IInv

\* Every step preserves the invariant.
LEMMA StepPreserves == IInv /\ [Next]_vars => IInv'
<1> SUFFICES ASSUME IInv, [Next]_vars PROVE IInv'
  OBVIOUS
<1>1. CASE UNCHANGED vars
  <2>1. \A c \in Callers : AddFits(c)' /\ ChangeFits(c)' /\ FallbackCovers(c)'
    BY <1>1 DEF vars, IInv, AddFits, Adding, ChangeFits, Changing, Id, FallbackCovers
  <2>2. OneAddOfEach' /\ IdsFit' /\ OneIdUnlessLost' /\ UpdateLands' /\ TypeOK'
    BY <1>1 DEF vars, IInv, OneAddOfEach, Adding, IdsFit, OneIdUnlessLost, UpdateLands, TypeOK
  <2> QED
    BY <2>1, <2>2 DEF IInv
<1>2. CASE Next
  BY <1>2, RegisterPreserves, AddsPreserve, ChangesPreserve DEF Next
<1> QED
  BY <1>1, <1>2

\* IInv holds in every reachable state.
THEOREM Invariance == Spec => []IInv
BY InitEstablishes, StepPreserves, PTL DEF Spec

\* The provider's state keeps its type.
THEOREM TypeCorrect == Spec => []TypeOK
<1>1. IInv => TypeOK
  BY DEF IInv
<1> QED
  BY <1>1, Invariance, PTL

\* The fallback of Add leaves a second copy only when a backend failed to say that it
\* had stored the first (unified.go Add).
THEOREM OneCopy == Spec => []OneCopyUnlessLost
<1>1. ASSUME IInv, NEW m \in Memories \ lossy
      PROVE  Cardinality({b \in Backends : <<b, m>> \in known}) <= 1
  <2>1. CASE {b \in Backends : <<b, m>> \in known} = {}
    <3>1. Cardinality({b \in Backends : <<b, m>> \in known}) = 0
      BY <2>1, FS_EmptySet
    <3> QED
      BY <3>1
  <2>2. ASSUME NEW b \in Backends, <<b, m>> \in known
        PROVE  Cardinality({d \in Backends : <<d, m>> \in known}) <= 1
    <3>1. {d \in Backends : <<d, m>> \in known} = {b}
      BY <1>1, <2>2 DEF IInv, OneIdUnlessLost
    <3>2. Cardinality({b}) = 1
      BY FS_Singleton
    <3>3. Cardinality({d \in Backends : <<d, m>> \in known}) = 1
      BY <3>1, <3>2, Zenon
    <3> QED
      BY <3>3
  <2> QED
    BY <2>1, <2>2
<1>2. IInv => OneCopyUnlessLost
  BY <1>1 DEF IInv, OneIdUnlessLost, OneCopyUnlessLost
<1> QED
  BY <1>2, Invariance, PTL

\* An Add that fails has been failed by every registered backend, but for a target
\* registered after it had looked (unified.go Add, its fallback).
THEOREM FallbackComplete == Spec => []FallbackCoversAll
<1>1. IInv => FallbackCoversAll
  BY DEF IInv, FallbackCovers, FallbackCoversAll
<1> QED
  BY <1>1, Invariance, PTL

\* An Update with a Source that returned nil has reached that backend, Cognee too,
\* which deletes before it adds (unified.go Update, cognee client.go Update): only a
\* caller's Delete excuses it.
THEOREM UpdateArrives == Spec => []UpdateReachesSource
<1>1. IInv => UpdateReachesSource
  BY DEF IInv, UpdateLands, UpdateReachesSource
<1> QED
  BY <1>1, Invariance, PTL

-----------------------------------------------------------------------------
(* The provider implements MemoryStore                                       *)

Stored == {<<Place(k[1], k[3]), k[2]>> : k \in held}
Dead   == {CopyOf(id) : id \in removed}
Gone   == {CopyOf(id) : id \in gone}

\* The call that a task at each stage carries out.
LEMMA CallsOfStages ==
    ASSUME NEW t
    PROVE  /\ t.pc \in {"pick", "first", "lock", "fallback"} =>
                 CallOf(t) = Promise!Call("add", t.mem, Promise!NoId)
           /\ t.pc \in {"update", "readd"} =>
                 CallOf(t) = Promise!Call("change", t.mem, CopyOf(<<t.at, t.mem>>))
           /\ t.pc = "delete" =>
                 CallOf(t) = Promise!Call("remove", t.mem, CopyOf(<<t.at, t.mem>>))
           /\ t.pc = "idle" => CallOf(t) = Promise!NoCall
BY DEF CallOf, Promise!Call, Promise!NoCall, Promise!NoId

\* A call's kind, memory and id; one that is under way is not NoCall.
LEMMA CallFields ==
    ASSUME NEW kind, NEW m, NEW id
    PROVE  /\ Promise!Call(kind, m, id).kind = kind
           /\ Promise!Call(kind, m, id).mem = m
           /\ Promise!Call(kind, m, id).id = id
           /\ kind # "none" => Promise!Call(kind, m, id) # Promise!NoCall
BY DEF Promise!Call, Promise!NoCall

\* A copy that a backend stores is one more.
LEMMA StoredGrows ==
    ASSUME NEW b, NEW m, NEW k, held' = held \union {<<b, m, k>>}
    PROVE  Stored' = Stored \union {<<Place(b, k), m>>}
<1> DEFINE copy(x) == <<Place(x[1], x[3]), x[2]>>
<1>1. copy(<<b, m, k>>) = <<Place(b, k), m>>
  OBVIOUS
<1>2. Stored = {copy(x) : x \in held} /\ Stored' = {copy(x) : x \in held'}
  BY DEF Stored, Place
<1> HIDE DEF copy
<1> QED
  BY <1>1, <1>2

\* What is under an id is one copy, whatever its text.
LEMMA StoredUnder ==
    ASSUME held \subseteq Backends \X Memories \X Text, NEW id \in Ids
    PROVE  /\ held' = Without(id) => Stored' = Stored \ {CopyOf(id)}
           /\ held' = Without(id) \union {<<id[1], id[2], "edited">>} /\ Holds(id[1], id)
                 => Stored' = Stored
<1>1. \A k \in held : <<Place(k[1], k[3]), k[2]>> = CopyOf(id)
                         <=> k \in {<<id[1], id[2], t>> : t \in {"original", "edited"}}
  BY DEF Place, CopyOf, Text, Ids
<1>2. {<<Place(k[1], k[3]), k[2]>> : k \in Without(id)} = Stored \ {CopyOf(id)}
  BY <1>1 DEF Stored, Without
<1>3. /\ <<Place(id[1], "edited"), id[2]>> = CopyOf(id)
      /\ Holds(id[1], id) => CopyOf(id) \in Stored
  BY DEF Place, CopyOf, Holds, Stored
<1>4. ASSUME held' = Without(id) PROVE Stored' = Stored \ {CopyOf(id)}
  BY <1>2, <1>4 DEF Stored, Place
<1>5. ASSUME held' = Without(id) \union {<<id[1], id[2], "edited">>}, Holds(id[1], id)
      PROVE  Stored' = Stored
  <2>1. Stored' = {<<Place(k[1], k[3]), k[2]>> : k \in Without(id)}
                     \union {<<Place(id[1], "edited"), id[2]>>}
    <3> DEFINE copy(x) == <<Place(x[1], x[3]), x[2]>>
    <3>1. copy(<<id[1], id[2], "edited">>) = <<Place(id[1], "edited"), id[2]>>
      OBVIOUS
    <3>2. /\ {<<Place(k[1], k[3]), k[2]>> : k \in Without(id)} = {copy(x) : x \in Without(id)}
          /\ Stored' = {copy(x) : x \in held'}
      BY DEF Stored, Place
    <3> HIDE DEF copy
    <3> QED
      BY <1>5, <3>1, <3>2
  <2> QED
    BY <1>2, <1>3, <1>5, <2>1
<1> QED
  BY <1>4, <1>5

\* The copy of an id is dead when the id was removed, no other copy ever is.
LEMMA DeadCopies ==
    ASSUME removed \subseteq Ids
    PROVE  /\ \A b, m : <<Place(b, "again"), m>> \notin Dead
           /\ \A b, m : <<Place(b, "rewritten"), m>> \notin Dead
           /\ \A b, m : <<b, m>> \notin removed => <<Place(b, "original"), m>> \notin Dead
           /\ \A b \in Backends, m \in Memories, k \in Text :
                 <<Place(b, k), m>> \in Promise!Copies
BY DEF Dead, CopyOf, Place, Promise!Copies, Places, Ids, Text

\* Nothing of the MemoryStore changes.
LEMMA Stutters ==
    ASSUME \A d \in Callers : CallOf(op'[d]) = CallOf(op[d]),
           Stored' = Stored, UNCHANGED <<removed, acked, gone>>
    PROVE  UNCHANGED Promise!vars
<1>1. Dead' = Dead /\ Gone' = Gone
  BY DEF Dead, Gone, CopyOf, Place
<1> QED
  BY <1>1 DEF Promise!vars, Stored, Dead, Gone

\* An operation begins.
LEMMA Begins ==
    ASSUME NEW c \in Callers, CallOf(op[c]) = Promise!NoCall,
           CallOf(op'[c]) \in Promise!Adds \union Promise!Changes,
           \A d \in Callers \ {c} : op'[d] = op[d],
           UNCHANGED <<held, removed, acked, gone>>
    PROVE  Promise!Begin(c)
<1>1. Stored' = Stored /\ Dead' = Dead /\ Gone' = Gone
  BY DEF Stored, Dead, Gone, CopyOf, Place
<1> QED
  BY <1>1 DEF Promise!Begin, Stored, Dead, Gone

\* A call under way has an effect or none, and goes on, fails or returns nil.
LEMMA Proceeds ==
    ASSUME NEW c \in Callers, CallOf(op[c]) # Promise!NoCall,
           \A d \in Callers \ {c} : op'[d] = op[d],
           \/ Stored' = Stored /\ Dead' = Dead
           \/ /\ CallOf(op[c]).kind \in {"add", "change"}
              /\ \E x \in Promise!Copies \ Dead :
                    x[2] = CallOf(op[c]).mem /\ Stored' = Stored \union {x}
              /\ Dead' = Dead
           \/ /\ CallOf(op[c]).kind \in {"remove", "change"}
              /\ Stored' = Stored \ {CallOf(op[c]).id}
              /\ Dead' = Dead \union {CallOf(op[c]).id},
           \/ CallOf(op'[c]) = CallOf(op[c]) /\ acked' = acked /\ Gone' = Gone
           \/ CallOf(op'[c]) = Promise!NoCall /\ acked' = acked /\ Gone' = Gone
           \/ /\ CallOf(op'[c]) = Promise!NoCall /\ CallOf(op[c]).kind = "add"
              /\ \E x \in Stored' \union Dead' : x[2] = CallOf(op[c]).mem
              /\ acked' = acked \union {CallOf(op[c]).mem} /\ Gone' = Gone
           \/ /\ CallOf(op'[c]) = Promise!NoCall /\ CallOf(op[c]).kind = "remove"
              /\ CallOf(op[c]).id \in Dead'
              /\ Gone' = Gone \union {CallOf(op[c]).id} /\ acked' = acked
    PROVE  Promise!Proceed(c)
<1>1. Promise!Effect(c)
  BY DEF Promise!Effect, Promise!Creates, Promise!Removes, Stored, Dead
<1>2. Promise!Outcome(c)
  BY DEF Promise!Outcome, Promise!WasStored, Stored, Dead, Gone
<1> QED
  BY <1>1, <1>2 DEF Promise!Proceed

\* The steps of an Add are steps of the MemoryStore, or change nothing there.
LEMMA AddsRefine ==
    ASSUME IInv, NEW c \in Callers
    PROVE  /\ \A m \in Memories, type \in MemoryTypes : Add(c, m, type) => Promise!Next
           /\ AddPicks(c) \/ FirstFails(c) \/ FallbackLocks(c) \/ FallbackFails(c) => Promise!Next
           /\ AddSucceeds(c) \/ AddFails(c) => Promise!Next
<1>1. /\ op[c] \in TaskType /\ op \in [Callers -> TaskType]
      /\ registered \subseteq Backends /\ removed \subseteq Ids /\ AddFits(c)
      /\ removed \subseteq known
  BY DEF IInv, TypeOK, IdsFit
<1>2. CallOf(Idle) = Promise!NoCall
  BY CallsOfStages DEF Idle, Task
<1>3. ASSUME NEW t, op' = [op EXCEPT ![c] = t]
      PROVE  op'[c] = t /\ \A d \in Callers \ {c} : op'[d] = op[d]
  BY <1>1, <1>3
<1>4. ASSUME UNCHANGED <<removed, gone>>
      PROVE  Dead' = Dead /\ Gone' = Gone
  BY <1>4 DEF Dead, Gone, CopyOf, Place
<1>5. ASSUME Adding(c)
      PROVE  /\ CallOf(op[c]).kind = "add" /\ CallOf(op[c]).mem = op[c].mem
             /\ CallOf(op[c]) # Promise!NoCall /\ op[c].mem \in Memories
  <2>1. CallOf(op[c]) = Promise!Call("add", op[c].mem, Promise!NoId)
    BY <1>5, CallsOfStages DEF Adding
  <2>2. op[c].mem \in Memories
    BY <1>1, <1>5 DEF AddFits
  <2> QED
    BY <2>1, <2>2, CallFields
<1>6. ASSUME NEW m \in Memories, NEW type \in MemoryTypes, Add(c, m, type)
      PROVE  Promise!Next
  <2>1. /\ op[c].pc = "idle" /\ \A d \in Callers \ {c} : op'[d] = op[d]
        /\ op'[c].pc \in {"pick", "first"} /\ op'[c].mem = m
        /\ UNCHANGED <<held, removed, acked, gone>>
    <3>1. PICK t : op' = [op EXCEPT ![c] = t] /\ t.pc \in {"pick", "first"} /\ t.mem = m
      <4> DEFINE target == RouteWrite(type)
                 t1 == Task("first", m, target, target, {}, FALSE)
                 t2 == Task("pick", m, "none", target, {}, TRUE)
      <4>1. op' = [op EXCEPT ![c] = t1] \/ op' = [op EXCEPT ![c] = t2]
        BY <1>6 DEF Add, Begin
      <4>2. t1.pc = "first" /\ t1.mem = m /\ t2.pc = "pick" /\ t2.mem = m
        BY DEF Task
      <4> HIDE DEF t1, t2
      <4> QED
        BY <4>1, <4>2
    <3> QED
      BY <1>3, <1>6, <3>1 DEF Add, Begin, history
  <2>2. CallOf(op[c]) = Promise!NoCall /\ CallOf(op'[c]) \in Promise!Adds
    BY <2>1, CallsOfStages DEF Promise!Adds
  <2> QED
    BY <2>1, <2>2, Begins DEF Promise!Next
<1>7. ASSUME Adding(c), Adding(c)', op'[c].mem = op[c].mem
      PROVE  CallOf(op'[c]) = CallOf(op[c])
  BY <1>7, CallsOfStages DEF Adding
<1>8. ASSUME NEW b \in Backends, Stores(b, op[c].mem), Adding(c)
      PROVE  \E x \in Promise!Copies \ Dead : x[2] = op[c].mem /\ Stored' = Stored \union {x}
  <2> DEFINE text == IF <<b, op[c].mem>> \in known THEN "again" ELSE "original"
             x == <<Place(b, text), op[c].mem>>
  <2>1. text \in Text /\ (text = "original" => <<b, op[c].mem>> \notin removed)
    BY <1>1 DEF Text
  <2>2. Stored' = Stored \union {x}
    BY <1>8, StoredGrows DEF Stores
  <2>3. x \in Promise!Copies \ Dead
    BY <1>1, <1>5, <1>8, <2>1, DeadCopies
  <2> HIDE DEF text
  <2>4. x[2] = op[c].mem
    OBVIOUS
  <2> HIDE DEF x
  <2> QED
    BY <2>2, <2>3, <2>4
<1>9. ASSUME UNCHANGED held PROVE Stored' = Stored
  BY <1>9 DEF Stored, Place
<1>10. ASSUME AddPicks(c) PROVE Promise!Next
  <2>1. /\ Adding(c) /\ UNCHANGED <<held, removed, acked, gone>>
        /\ \/ Return(c)
           \/ \E b \in registered : op' = [op EXCEPT ![c].pc = "first", ![c].at = b]
    BY <1>10 DEF AddPicks, Adding, history
  <2>2. CASE Return(c)
    BY <1>2, <1>3, <1>4, <1>5, <1>9, <2>1, <2>2, Proceeds DEF Return, Promise!Next
  <2>3. CASE \E b \in registered : op' = [op EXCEPT ![c].pc = "first", ![c].at = b]
    <3>1. /\ op'[c].pc = "first" /\ op'[c].mem = op[c].mem
          /\ \A d \in Callers \ {c} : op'[d] = op[d]
      BY <1>1, <2>3 DEF TaskType
    <3>2. CallOf(op'[c]) = CallOf(op[c])
      BY <1>7, <2>1, <3>1 DEF Adding
    <3> QED
      BY <1>4, <1>5, <1>9, <2>1, <3>1, <3>2, Proceeds DEF Promise!Next
  <2> QED
    BY <2>1, <2>2, <2>3
<1>11. ASSUME FallbackLocks(c) PROVE Promise!Next
  <2>1. /\ Adding(c) /\ UNCHANGED <<held, removed, acked, gone>>
        /\ op'[c].pc = "fallback" /\ op'[c].mem = op[c].mem
        /\ \A d \in Callers \ {c} : op'[d] = op[d]
    BY <1>1, <1>11 DEF FallbackLocks, Adding, history, TaskType
  <2>2. CallOf(op'[c]) = CallOf(op[c])
    BY <1>7, <2>1 DEF Adding
  <2> QED
    BY <1>4, <1>5, <1>9, <2>1, <2>2, Proceeds DEF Promise!Next
<1>12. ASSUME FirstFails(c) \/ FallbackFails(c) PROVE Promise!Next
  <2>1. PICK b \in Backends, pc \in {"lock", "fallback"} :
           MayStore(b, op[c].mem) /\ FailedBy(c, b, pc)
    <3>1. CASE FirstFails(c)
      BY <1>1, <3>1 DEF FirstFails, AddFits, Adding
    <3>2. CASE FallbackFails(c)
      BY <1>1, <3>2 DEF FallbackFails, TaskType
    <3> QED
      BY <1>12, <3>1, <3>2
  <2>2. /\ Adding(c) /\ UNCHANGED <<removed, acked, gone>>
        /\ op'[c].pc = pc /\ op'[c].mem = op[c].mem
        /\ \A d \in Callers \ {c} : op'[d] = op[d]
    BY <1>1, <1>12, <2>1 DEF FirstFails, FallbackFails, FailedBy, Adding, TaskType
  <2>3. CallOf(op'[c]) = CallOf(op[c])
    BY <1>7, <2>2 DEF Adding
  <2>4. CASE Stores(b, op[c].mem)
    BY <1>4, <1>5, <1>8, <2>2, <2>3, <2>4, Proceeds DEF Promise!Next
  <2>5. CASE UNCHANGED held
    BY <1>4, <1>5, <1>9, <2>2, <2>3, <2>5, Proceeds DEF Promise!Next
  <2> QED
    BY <2>1, <2>4, <2>5 DEF MayStore
<1>13. ASSUME AddSucceeds(c) PROVE Promise!Next
  <2>1. /\ Adding(c) /\ UNCHANGED <<removed, gone>> /\ Return(c)
        /\ op[c].pc = "first" \/ op[c].pc = "fallback"
        /\ acked' = acked \union {op[c].mem}
    BY <1>13 DEF AddSucceeds, Adding
  <2>2. PICK b \in Backends : Stores(b, op[c].mem)
    BY <1>1, <1>13, <2>1 DEF AddSucceeds, AddFits, TaskType
  <2>3. PICK x \in Promise!Copies \ Dead : x[2] = op[c].mem /\ Stored' = Stored \union {x}
    BY <1>8, <2>1, <2>2
  <2>4. CallOf(op'[c]) = Promise!NoCall /\ \A d \in Callers \ {c} : op'[d] = op[d]
    BY <1>2, <1>3, <2>1 DEF Return
  <2> QED
    BY <1>4, <1>5, <2>1, <2>3, <2>4, Proceeds DEF Promise!Next
<1>14. ASSUME AddFails(c) PROVE Promise!Next
  <2>1. /\ Adding(c) /\ UNCHANGED <<held, removed, acked, gone>> /\ Return(c)
    BY <1>14 DEF AddFails, Adding, history
  <2> QED
    BY <1>2, <1>3, <1>4, <1>5, <1>9, <2>1, Proceeds DEF Return, Promise!Next
<1> QED
  BY <1>6, <1>10, <1>11, <1>12, <1>13, <1>14

\* So are those of an Update or a Delete.
LEMMA ChangesRefine ==
    ASSUME IInv, NEW c \in Callers
    PROVE  /\ \A b \in Backends, m \in Memories :
                 /\ \A source \in {b, "fusion"} : Update(c, b, m, source) => Promise!Next
                 /\ Delete(c, b, m) => Promise!Next
           /\ UpdateSucceeds(c) \/ UpdateFailsAt(c) \/ UpdateFails(c) => Promise!Next
           /\ CogneeDeletes(c) \/ CogneeAdds(c) \/ CogneeFailsToAdd(c) => Promise!Next
           /\ DeleteDoneAt(c) \/ DeleteFailsAt(c) \/ DeleteReturns(c) => Promise!Next
<1>1. /\ op[c] \in TaskType /\ op \in [Callers -> TaskType]
      /\ registered \subseteq Backends /\ removed \subseteq Ids /\ ChangeFits(c)
      /\ removed \subseteq known /\ known \subseteq Ids /\ op[c].left \subseteq Backends
      /\ held \subseteq Backends \X Memories \X Text
  BY DEF IInv, TypeOK, IdsFit, TaskType
<1>2. CallOf(Idle) = Promise!NoCall
  BY CallsOfStages DEF Idle, Task
<1>3. ASSUME NEW t, op' = [op EXCEPT ![c] = t]
      PROVE  op'[c] = t /\ \A d \in Callers \ {c} : op'[d] = op[d]
  BY <1>1, <1>3
<1>4. /\ UNCHANGED removed => Dead' = Dead
      /\ UNCHANGED gone => Gone' = Gone
      /\ UNCHANGED held => Stored' = Stored
  BY DEF Dead, Gone, Stored, CopyOf, Place
<1>5. ASSUME Changing(c)
      PROVE  /\ CallOf(op[c]).kind = IF op[c].pc = "delete" THEN "remove" ELSE "change"
             /\ CallOf(op[c]).mem = op[c].mem /\ CallOf(op[c]).id = CopyOf(Id(c))
             /\ CallOf(op[c]) # Promise!NoCall
             /\ op[c].mem \in Memories /\ op[c].at \in Backends /\ Id(c) \in Ids
             /\ Id(c)[1] = op[c].at /\ Id(c)[2] = op[c].mem
  <2>1. CallOf(op[c]) = Promise!Call(IF op[c].pc = "delete" THEN "remove" ELSE "change",
                                     op[c].mem, CopyOf(Id(c)))
    BY <1>5, CallsOfStages DEF Changing, Id
  <2>2. Id(c) \in Ids
    BY <1>1, <1>5 DEF ChangeFits
  <2> QED
    BY <2>1, <2>2, CallFields DEF Id, Ids
<1>6. ASSUME NEW b \in Backends, NEW m \in Memories,
             Delete(c, b, m) \/ \E source \in {b, "fusion"} : Update(c, b, m, source)
      PROVE  Promise!Next
  <2>1. PICK t : /\ op' = [op EXCEPT ![c] = t] /\ t.pc \in {"update", "delete"}
                 /\ t.mem = m /\ t.at = b
    <3>1. ASSUME NEW pc \in {"update", "delete"}, NEW source, NEW left,
                 BeginChange(c, Task(pc, m, b, source, left, FALSE))
          PROVE  \E t : /\ op' = [op EXCEPT ![c] = t] /\ t.pc \in {"update", "delete"}
                        /\ t.mem = m /\ t.at = b
      <4> DEFINE t == Task(pc, m, b, source, left, FALSE)
      <4>1. t.pc = pc /\ t.mem = m /\ t.at = b
        BY DEF Task
      <4>2. op' = [op EXCEPT ![c] = t]
        BY <3>1 DEF BeginChange, Begin
      <4> HIDE DEF t
      <4> QED
        BY <4>1, <4>2
    <3> QED
      BY <1>6, <3>1 DEF Update, Delete
  <2>2. /\ op[c].pc = "idle" /\ \A d \in Callers \ {c} : op'[d] = op[d]
        /\ op'[c] = t /\ UNCHANGED <<held, removed, acked, gone>>
    BY <1>3, <1>6, <2>1 DEF Update, Delete, BeginChange, Begin, history
  <2>3. CopyOf(<<b, m>>) \in Promise!Copies /\ CopyOf(<<b, m>>)[2] = m
    BY DEF CopyOf, Place, Promise!Copies, Places
  <2>4. CallOf(op[c]) = Promise!NoCall /\ CallOf(op'[c]) \in Promise!Changes
    <3>1. PICK kind \in {"change", "remove"} :
             CallOf(op'[c]) = Promise!Call(kind, m, CopyOf(<<b, m>>))
      BY <2>1, <2>2, CallsOfStages
    <3>2. Promise!Call(kind, m, CopyOf(<<b, m>>)) \in Promise!Changes
      BY <2>3 DEF Promise!Changes
    <3>3. CallOf(op[c]) = Promise!NoCall
      BY <2>2, CallsOfStages
    <3> QED
      BY <3>1, <3>2, <3>3
  <2> QED
    BY <2>2, <2>4, Begins DEF Promise!Next
<1>7. ASSUME Changing(c), Changing(c)', Id(c)' = Id(c), op'[c].pc = "delete" <=> op[c].pc = "delete"
      PROVE  CallOf(op'[c]) = CallOf(op[c])
  BY <1>7, CallsOfStages DEF Changing, Id
<1>8. ASSUME NEW pc \in {"update", "readd", "delete"}, NEW b,
             PastBackend(c, b, pc) \/ FailedBy(c, b, pc) \/ op' = [op EXCEPT ![c].pc = pc],
             Changing(c), pc = "delete" <=> op[c].pc = "delete"
      PROVE  CallOf(op'[c]) = CallOf(op[c]) /\ \A e \in Callers \ {c} : op'[e] = op[e]
  <2>1. /\ op'[c].pc = pc /\ op'[c].at = op[c].at /\ op'[c].mem = op[c].mem
        /\ \A e \in Callers \ {c} : op'[e] = op[e]
    BY <1>1, <1>8 DEF PastBackend, FailedBy, TaskType
  <2> QED
    BY <1>7, <1>8, <2>1 DEF Changing, Id
<1>9. ASSUME Return(c)
      PROVE  CallOf(op'[c]) = Promise!NoCall /\ \A d \in Callers \ {c} : op'[d] = op[d]
  BY <1>2, <1>3, <1>9 DEF Return
<1>10. ASSUME NEW b \in Backends, Changing(c), held' = held \union {<<b, op[c].mem, "rewritten">>}
       PROVE  \E x \in Promise!Copies \ Dead : x[2] = op[c].mem /\ Stored' = Stored \union {x}
  <2> DEFINE x == <<Place(b, "rewritten"), op[c].mem>>
  <2>1. Stored' = Stored \union {x}
    BY <1>10, StoredGrows
  <2>2. x \in Promise!Copies \ Dead
    BY <1>1, <1>5, <1>10, DeadCopies DEF Text
  <2>3. x[2] = op[c].mem
    OBVIOUS
  <2> HIDE DEF x
  <2> QED
    BY <2>1, <2>2, <2>3
<1>11. ASSUME NEW b \in op[c].left, Updates(c, b), Changing(c)
       PROVE  \/ Stored' = Stored
              \/ \E x \in Promise!Copies \ Dead : x[2] = op[c].mem /\ Stored' = Stored \union {x}
  <2>1. CASE /\ Holds(b, Id(c))
             /\ held' = Without(Id(c)) \union {<<b, op[c].mem, "edited">>}
    <3>1. Holds(Id(c)[1], Id(c)) /\ b = Id(c)[1]
      BY <2>1 DEF Holds
    <3> QED
      BY <1>1, <1>5, <1>11, <2>1, <3>1, StoredUnder
  <2>2. CASE held' = held \union {<<b, op[c].mem, "rewritten">>}
    BY <1>1, <1>10, <1>11, <2>2
  <2> QED
    BY <1>11, <2>1, <2>2 DEF Updates
<1>12. ASSUME held' = Without(Id(c)), removed' = removed \union {Id(c)}, Changing(c)
       PROVE  Stored' = Stored \ {CopyOf(Id(c))} /\ Dead' = Dead \union {CopyOf(Id(c))}
  <2>1. Stored' = Stored \ {CopyOf(Id(c))}
    BY <1>1, <1>5, <1>12, StoredUnder
  <2>2. Dead' = Dead \union {CopyOf(Id(c))}
    BY <1>12 DEF Dead, CopyOf, Place
  <2> QED
    BY <2>1, <2>2
<1>13. ASSUME NEW b \in op[c].left, op[c].pc = "update",
              Updates(c, b) \/ UNCHANGED held,
              Return(c) \/ PastBackend(c, b, "update"),
              UNCHANGED <<removed, acked, gone>>
       PROVE  Promise!Next
  <2>1. Changing(c) /\ (Stored' = Stored \/ \E x \in Promise!Copies \ Dead :
                            x[2] = op[c].mem /\ Stored' = Stored \union {x})
    BY <1>4, <1>11, <1>13 DEF Changing
  <2>2. /\ CallOf(op'[c]) \in {CallOf(op[c]), Promise!NoCall}
        /\ \A d \in Callers \ {c} : op'[d] = op[d]
    BY <1>8, <1>9, <1>13, <2>1
  <2> QED
    BY <1>4, <1>5, <1>13, <2>1, <2>2, Proceeds DEF Promise!Next
<1>14. ASSUME UpdateSucceeds(c) \/ UpdateFailsAt(c) PROVE Promise!Next
  BY <1>13, <1>14 DEF UpdateSucceeds, UpdateFailsAt, history
<1>15. ASSUME UpdateFails(c) PROVE Promise!Next
  <2>1. Changing(c) /\ Return(c) /\ UNCHANGED <<held, removed, acked, gone>>
    BY <1>15 DEF UpdateFails, Changing, history
  <2> QED
    BY <1>4, <1>5, <1>9, <2>1, Proceeds DEF Promise!Next
<1>16. ASSUME CogneeDeletes(c) PROVE Promise!Next
  <2>1. /\ op[c].pc = "update" /\ Changing(c) /\ UNCHANGED <<acked, gone>>
        /\ \/ held' = Without(Id(c)) /\ removed' = removed \union {Id(c)}
           \/ UNCHANGED <<held, removed>>
    BY <1>16 DEF CogneeDeletes, Changing
  <2>2. \/ Stored' = Stored \ {CopyOf(Id(c))} /\ Dead' = Dead \union {CopyOf(Id(c))}
        \/ Stored' = Stored /\ Dead' = Dead
    BY <1>4, <1>12, <2>1
  <2>3. CallOf(op'[c]) = CallOf(op[c]) /\ \A d \in Callers \ {c} : op'[d] = op[d]
    BY <1>8, <1>16, <2>1 DEF CogneeDeletes
  <2> QED
    BY <1>4, <1>5, <2>1, <2>2, <2>3, Proceeds DEF Promise!Next
<1>17. ASSUME CogneeAdds(c) \/ CogneeFailsToAdd(c) PROVE Promise!Next
  <2>1. /\ op[c].pc = "readd" /\ Changing(c) /\ UNCHANGED <<removed, acked, gone>>
        /\ held' = held \union {<<"cognee", op[c].mem, "rewritten">>} \/ UNCHANGED held
        /\ Return(c) \/ PastBackend(c, "cognee", "update")
    BY <1>17 DEF CogneeAdds, CogneeFailsToAdd, Changing, history
  <2>2. "cognee" \in Backends
    BY <1>1, <2>1 DEF ChangeFits
  <2>3. Stored' = Stored \/ \E x \in Promise!Copies \ Dead :
                                x[2] = op[c].mem /\ Stored' = Stored \union {x}
    BY <1>4, <1>10, <2>1, <2>2
  <2>4. /\ CallOf(op'[c]) \in {CallOf(op[c]), Promise!NoCall}
        /\ \A d \in Callers \ {c} : op'[d] = op[d]
    BY <1>8, <1>9, <2>1
  <2> QED
    BY <1>4, <1>5, <2>1, <2>3, <2>4, Proceeds DEF Promise!Next
<1>18. ASSUME DeleteDoneAt(c) \/ DeleteFailsAt(c) PROVE Promise!Next
  <2>1. /\ op[c].pc = "delete" /\ Changing(c) /\ UNCHANGED <<acked, gone>>
        /\ \/ held' = Without(Id(c)) /\ removed' = removed \union {Id(c)}
           \/ UNCHANGED <<held, removed>>
        /\ \E b : PastBackend(c, b, "delete") \/ FailedBy(c, b, "delete")
    BY <1>18 DEF DeleteDoneAt, DeleteFailsAt, Removes, Changing
  <2>2. \/ Stored' = Stored \ {CopyOf(Id(c))} /\ Dead' = Dead \union {CopyOf(Id(c))}
        \/ Stored' = Stored /\ Dead' = Dead
    BY <1>4, <1>12, <2>1
  <2>3. CallOf(op'[c]) = CallOf(op[c]) /\ \A d \in Callers \ {c} : op'[d] = op[d]
    BY <1>8, <2>1
  <2> QED
    BY <1>4, <1>5, <2>1, <2>2, <2>3, Proceeds DEF Promise!Next
<1>19. ASSUME DeleteReturns(c) PROVE Promise!Next
  <2>1. /\ op[c].pc = "delete" /\ Changing(c) /\ Return(c) /\ op[c].left = {}
        /\ \/ gone' = gone
           \/ op[c].failed = {} /\ gone' = gone \union {Id(c)}
        /\ UNCHANGED <<held, removed, acked>>
    BY <1>19 DEF DeleteReturns, Changing
  <2>2. \/ Gone' = Gone
        \/ CopyOf(Id(c)) \in Dead' /\ Gone' = Gone \union {CopyOf(Id(c))}
    <3>1. CASE gone' = gone
      BY <1>4, <3>1
    <3>2. CASE op[c].failed = {} /\ gone' = gone \union {Id(c)}
      <4>1. Id(c) \in removed
        BY <1>1, <2>1, <3>2 DEF ChangeFits
      <4>2. CopyOf(Id(c)) \in Dead /\ Dead' = Dead
        BY <1>4, <2>1, <4>1 DEF Dead
      <4>3. Gone' = Gone \union {CopyOf(Id(c))}
        BY <3>2 DEF Gone, CopyOf, Place
      <4> QED
        BY <4>2, <4>3
    <3> QED
      BY <2>1, <3>1, <3>2
  <2> QED
    BY <1>4, <1>5, <1>9, <2>1, <2>2, Proceeds DEF Promise!Next
<1> QED
  BY <1>6, <1>14, <1>15, <1>16, <1>17, <1>18, <1>19

\* Every step of the provider is one of the MemoryStore, or changes nothing there.
LEMMA StepRefines == IInv /\ [Next]_vars => [Promise!Next]_(Promise!vars)
<1> SUFFICES ASSUME IInv, [Next]_vars
             PROVE  Promise!Next \/ UNCHANGED Promise!vars
  OBVIOUS
<1>1. CASE op' = op /\ UNCHANGED <<held, removed, acked, gone>>
  <2>1. Stored' = Stored
    BY <1>1 DEF Stored, Place
  <2> QED
    BY <1>1, <2>1, Stutters
<1>2. CASE \E b \in Backends : RegisterAsks(b) \/ Register(b)
  BY <1>1, <1>2 DEF RegisterAsks, Register, history
<1>3. CASE UNCHANGED vars
  BY <1>1, <1>3 DEF vars
<1> QED
  BY <1>2, <1>3, AddsRefine, ChangesRefine DEF Next

\* The provider implements MemoryStore: only a call under way changes what the backends
\* hold, and no Add or Delete returns nil that has not done its work.
THEOREM PromiseKept == Spec => KeepsPromise
<1>1. Init => Promise!Init
  <2>1. CallOf(Idle) = Promise!NoCall
    BY CallsOfStages DEF Idle, Task
  <2>2. ASSUME Init PROVE \A c \in Callers : op[c] = Idle
    BY <2>2 DEF Init
  <2>3. ASSUME Init PROVE Stored = {} /\ Dead = {} /\ Gone = {} /\ acked = {}
    BY <2>3 DEF Init, Stored, Dead, Gone
  <2> QED
    BY <2>1, <2>2, <2>3 DEF Promise!Init, Stored, Dead, Gone
<1> QED
  BY <1>1, InitEstablishes, StepPreserves, StepRefines, PTL DEF Spec, KeepsPromise, Promise!Spec

-----------------------------------------------------------------------------
(* What an application can rely on, of any MemoryStore and so of the provider *)

\* No copy is both there and removed; what a Delete acknowledged is removed;
\* what an Add acknowledged was stored.
PromiseHolds ==
    /\ Stored \intersect Dead = {}
    /\ Gone \subseteq Dead
    /\ \A m \in acked : \E x \in Stored \union Dead : x[2] = m

\* MemoryStore promises it, whatever implements it.
THEOREM PromiseMeans == Promise!Spec => []PromiseHolds
<1>1. Promise!Init => PromiseHolds
  BY DEF Promise!Init, PromiseHolds, Stored, Dead, Gone
<1>2. PromiseHolds /\ [Promise!Next]_(Promise!vars) => PromiseHolds'
  <2> SUFFICES ASSUME PromiseHolds, [Promise!Next]_(Promise!vars)
               PROVE  PromiseHolds'
    OBVIOUS
  <2>1. ASSUME Stored' = Stored, Dead' = Dead, Gone' = Gone, acked' = acked
        PROVE  PromiseHolds'
    BY <2>1 DEF PromiseHolds
  <2>2. CASE UNCHANGED Promise!vars
    BY <2>1, <2>2, Zenon DEF Promise!vars, Stored, Dead, Gone
  <2>3. ASSUME NEW c \in Callers, Promise!Begin(c)
        PROVE  PromiseHolds'
    BY <2>1, <2>3, Zenon DEF Promise!Begin, Stored, Dead, Gone
  <2>4. ASSUME NEW c \in Callers, Promise!Proceed(c)
        PROVE  PromiseHolds'
    <3>1. \/ Stored' = Stored /\ Dead' = Dead
          \/ \E x \in Promise!Copies \ Dead : Stored' = Stored \union {x} /\ Dead' = Dead
          \/ \E x : Stored' = Stored \ {x} /\ Dead' = Dead \union {x}
      BY <2>4, Zenon
      DEF Promise!Proceed, Promise!Effect, Promise!Creates, Promise!Removes, Stored, Dead
    <3>2. \/ acked' = acked /\ Gone' = Gone
          \/ /\ Gone' = Gone
             /\ \E m : acked' = acked \union {m} /\ \E x \in Stored' \union Dead' : x[2] = m
          \/ /\ acked' = acked
             /\ \E x \in Dead' : Gone' = Gone \union {x}
      BY <2>4, Zenon
      DEF Promise!Proceed, Promise!Outcome, Promise!WasStored, Stored, Dead, Gone
    <3>3. /\ Stored' \intersect Dead' = {}
          /\ Dead \subseteq Dead'
          /\ Stored \union Dead \subseteq Stored' \union Dead'
      BY <3>1 DEF PromiseHolds
    <3>4. Gone' \subseteq Dead'
      BY <3>2, <3>3 DEF PromiseHolds
    <3>5. \A m \in acked' : \E x \in Stored' \union Dead' : x[2] = m
      BY <3>2, <3>3 DEF PromiseHolds
    <3> QED
      BY <3>3, <3>4, <3>5 DEF PromiseHolds
  <2> QED
    BY <2>2, <2>3, <2>4 DEF Promise!Next
<1> QED
  BY <1>1, <1>2, PTL DEF Promise!Spec

\* What a Delete has acknowledged is held under its id by nobody, and no later
\* Add, fallback or Update puts it back there.
DeletedStaysDeleted ==
    \A id \in gone : \A k \in {"original", "edited"} : <<id[1], id[2], k>> \notin held

\* The application's view of the promise: an id whose Delete returned nil never
\* has anything under it again.
THEOREM DeletesLast == Spec => []DeletedStaysDeleted
<1>1. IInv /\ PromiseHolds => DeletedStaysDeleted
  <2> SUFFICES ASSUME PromiseHolds, NEW id \in gone, NEW k \in {"original", "edited"},
                      <<id[1], id[2], k>> \in held
               PROVE  FALSE
    BY DEF DeletedStaysDeleted
  <2>1. CopyOf(id) \in Dead
    BY DEF PromiseHolds, Gone
  <2>2. <<Place(id[1], k), id[2]>> \in Stored
    <3> DEFINE copy(x) == <<Place(x[1], x[3]), x[2]>>
    <3>1. copy(<<id[1], id[2], k>>) = <<Place(id[1], k), id[2]>>
      OBVIOUS
    <3>2. Stored = {copy(x) : x \in held}
      BY DEF Stored, Place
    <3> HIDE DEF copy
    <3> QED
      BY <3>1, <3>2
  <2>3. <<Place(id[1], k), id[2]>> = CopyOf(id)
    BY DEF CopyOf, Place
  <2> QED
    BY <2>1, <2>2, <2>3 DEF PromiseHolds
<1> QED
  BY <1>1, Invariance, PromiseKept, PromiseMeans, PTL DEF KeepsPromise

-----------------------------------------------------------------------------
(* Every operation comes to its end                                          *)

Most == Cardinality(Backends)

\* How many steps the operation of a task can still take: an Add falls back on
\* the backends registered when it comes to that; Cognee takes two for an Update.
Work(task) ==
    CASE task.pc = "idle"     -> 0
      [] task.pc = "pick"     -> Most + 4
      [] task.pc = "first"    -> Most + 3
      [] task.pc = "lock"     -> Most + 2
      [] task.pc = "fallback" -> Cardinality(task.left) + 1
      [] task.pc = "update"   -> 2 * Cardinality(task.left) + 1
      [] task.pc = "readd"    -> 2 * Cardinality(task.left)
      [] task.pc = "delete"   -> Cardinality(task.left) + 1

\* Whatever the others do and whatever is registered meanwhile, an operation has
\* only finitely many steps to take: each of its own leaves fewer of them, no
\* other caller's adds one.  And none of them overtakes a RegisterProvider that
\* waits for the lock.
StepsRunOut ==
    [][/\ \A c \in Callers : op[c].pc # "idle" =>
             op'[c] = op[c] \/ Work(op'[c]) < Work(op[c])
       /\ registering # {} => readers' \subseteq readers]_vars

\* There are finitely many backends, so that what is left of them can be counted.
LEMMA LeftCounts ==
    ASSUME NEW left \in SUBSET Backends
    PROVE  /\ Most \in Nat /\ Cardinality(left) \in Nat /\ Cardinality(left) <= Most
           /\ \A b \in left : Cardinality(left \ {b}) = Cardinality(left) - 1
           /\ left # {} => Cardinality(left) > 0
<1>1. IsFiniteSet(AllSources)
  <2>1. AllSources = ((({} \union {"mem0"}) \union {"cognee"}) \union {"letta"}) \union {"graphiti"}
    BY DEF AllSources
  <2>2. IsFiniteSet((({} \union {"mem0"}) \union {"cognee"}) \union {"letta"})
    BY FS_EmptySet, FS_AddElement
  <2> QED
    BY <2>1, <2>2, FS_AddElement
<1>2. IsFiniteSet(Backends)
  BY <1>1, FS_Subset
<1>3. IsFiniteSet(left) /\ Cardinality(left) <= Most
  BY <1>2, FS_Subset DEF Most
<1>4. Most \in Nat /\ Cardinality(left) \in Nat
  BY <1>2, <1>3, FS_CardinalityType DEF Most
<1>5. \A b \in left : Cardinality(left \ {b}) = Cardinality(left) - 1
  BY <1>3, FS_RemoveElement
<1>6. left # {} => Cardinality(left) > 0
  BY <1>3, <1>4, FS_EmptySet
<1> QED
  BY <1>3, <1>4, <1>5, <1>6

\* The measure at each stage.
LEMMA WorkAt ==
    ASSUME NEW t
    PROVE  /\ t.pc = "idle" => Work(t) = 0
           /\ t.pc = "pick" => Work(t) = Most + 4
           /\ t.pc = "first" => Work(t) = Most + 3
           /\ t.pc = "lock" => Work(t) = Most + 2
           /\ t.pc = "fallback" => Work(t) = Cardinality(t.left) + 1
           /\ t.pc = "update" => Work(t) = 2 * Cardinality(t.left) + 1
           /\ t.pc = "readd" => Work(t) = 2 * Cardinality(t.left)
           /\ t.pc = "delete" => Work(t) = Cardinality(t.left) + 1
BY DEF Work

\* Work is a number; an operation that has not returned has some left, which its
\* return takes away.
LEMMA WorkIsNat ==
    ASSUME NEW t \in TaskType, t.pc = "readd" => "cognee" \in t.left
    PROVE  /\ Work(t) \in Nat
           /\ t.pc # "idle" => Work(t) > 0
           /\ Work(Idle) = 0
<1>1. t.left \in SUBSET Backends /\ t.pc \in Stage
  BY DEF TaskType
<1>2. /\ Most \in Nat /\ Cardinality(t.left) \in Nat
      /\ t.left # {} => Cardinality(t.left) > 0
  BY <1>1, LeftCounts
<1>3. Idle.pc = "idle"
  BY DEF Idle, Task
<1>4. Work(Idle) = 0
  BY <1>3, WorkAt
<1>5. CASE t.pc \in {"idle", "pick", "first", "lock"}
  BY <1>2, <1>4, <1>5, WorkAt
<1>6. CASE t.pc \in {"fallback", "delete"}
  BY <1>2, <1>4, <1>6, WorkAt
<1>7. CASE t.pc \in {"update", "readd"}
  BY <1>2, <1>4, <1>7, WorkAt
<1> QED
  BY <1>1, <1>5, <1>6, <1>7 DEF Stage

\* A task that is done with a backend, at a stage no earlier, has less to do; so
\* has one that goes from stage to stage of an Add, or on to store again at Cognee.
LEMMA EachStepCounts ==
    ASSUME NEW t \in TaskType, NEW u \in TaskType,
           \/ t.pc = "pick" /\ u.pc = "first"
           \/ t.pc = "first" /\ u.pc = "lock"
           \/ t.pc = "lock" /\ u.pc = "fallback"
           \/ t.pc = "update" /\ u.pc = "readd" /\ u.left = t.left
           \/ /\ \/ t.pc = "fallback" /\ u.pc = "fallback"
                 \/ t.pc = "delete" /\ u.pc = "delete"
                 \/ t.pc \in {"update", "readd"} /\ u.pc = "update"
              /\ \E b \in t.left : u.left = t.left \ {b}
    PROVE  Work(u) < Work(t)
<1>1. t.left \in SUBSET Backends /\ u.left \in SUBSET Backends
  BY DEF TaskType
<1>2. /\ Most \in Nat
      /\ Cardinality(t.left) \in Nat /\ Cardinality(u.left) \in Nat
      /\ Cardinality(t.left) <= Most /\ Cardinality(u.left) <= Most
  BY <1>1, LeftCounts
<1>3. CASE t.pc = "pick" /\ u.pc = "first"
  BY <1>2, <1>3, WorkAt
<1>4. CASE t.pc = "first" /\ u.pc = "lock"
  BY <1>2, <1>4, WorkAt
<1>5. CASE t.pc = "lock" /\ u.pc = "fallback"
  BY <1>2, <1>5, WorkAt
<1>6. CASE t.pc = "update" /\ u.pc = "readd" /\ u.left = t.left
  BY <1>2, <1>6, WorkAt
<1>7. ASSUME NEW b \in t.left, u.left = t.left \ {b},
             \/ t.pc = "fallback" /\ u.pc = "fallback"
             \/ t.pc = "delete" /\ u.pc = "delete"
             \/ t.pc \in {"update", "readd"} /\ u.pc = "update"
      PROVE  Work(u) < Work(t)
  <2>1. Cardinality(t.left \ {b}) = Cardinality(t.left) - 1
    BY <1>1, LeftCounts
  <2>2. Cardinality(u.left) = Cardinality(t.left) - 1
    BY <1>7, <2>1
  <2>3. CASE t.pc = "fallback" /\ u.pc = "fallback"
    BY <1>2, <2>2, <2>3, WorkAt
  <2>4. CASE t.pc = "delete" /\ u.pc = "delete"
    BY <1>2, <2>2, <2>4, WorkAt
  <2>5. CASE t.pc \in {"update", "readd"} /\ u.pc = "update"
    BY <1>2, <2>2, <2>5, WorkAt
  <2> QED
    BY <1>7, <2>3, <2>4, <2>5
<1> QED
  BY <1>3, <1>4, <1>5, <1>6, <1>7

\* Only the steps of c change its operation once it has begun.
LEMMA OnlyOwnSteps ==
    ASSUME IInv, [Next]_vars, NEW c \in Callers, op[c].pc # "idle", ~StepOf(c)
    PROVE  op'[c] = op[c]
<1>1. op \in [Callers -> TaskType]
  BY DEF IInv, TypeOK
<1>2. ASSUME NEW d \in Callers, NEW t, Begin(d, t)
      PROVE  op'[c] = op[c]
  BY <1>1, <1>2 DEF Begin
<1>3. ASSUME NEW d \in Callers, StepOf(d)
      PROVE  op'[c] = op[c]
  <2>1. d # c
    BY <1>3
  <2>2. PICK t : op' = [op EXCEPT ![d] = t]
    <3>1. CASE AddPicks(d)
      BY <3>1 DEF AddPicks, Return
    <3>2. CASE AddSucceeds(d) \/ AddFails(d) \/ UpdateSucceeds(d) \/ UpdateFails(d)
               \/ CogneeAdds(d) \/ DeleteReturns(d)
      BY <3>2 DEF AddSucceeds, AddFails, UpdateSucceeds, UpdateFails, CogneeAdds,
                  DeleteReturns, Return
    <3>3. CASE FirstFails(d) \/ FallbackFails(d) \/ DeleteFailsAt(d)
      BY <3>3 DEF FirstFails, FallbackFails, DeleteFailsAt, FailedBy
    <3>4. CASE FallbackLocks(d)
      BY <3>4 DEF FallbackLocks
    <3>5. CASE UpdateFailsAt(d) \/ CogneeDeletes(d) \/ CogneeFailsToAdd(d) \/ DeleteDoneAt(d)
      BY <3>5 DEF UpdateFailsAt, CogneeDeletes, CogneeFailsToAdd, DeleteDoneAt, PastBackend
    <3> QED
      BY <1>3, <3>1, <3>2, <3>3, <3>4, <3>5 DEF StepOf
  <2> QED
    BY <1>1, <2>1, <2>2
<1>4. CASE UNCHANGED op
  BY <1>4
<1> QED
  BY <1>2, <1>3, <1>4
  DEF Next, vars, RegisterAsks, Register, Add, Update, Delete, BeginChange, StepOf

\* Each of c's steps leaves it less to do.
LEMMA StepCounts ==
    ASSUME IInv, NEW c \in Callers, op[c].pc # "idle", StepOf(c), op'[c] \in TaskType
    PROVE  Work(op'[c]) < Work(op[c])
<1>1. /\ op \in [Callers -> TaskType] /\ op[c] \in TaskType
      /\ op[c].pc = "readd" => "cognee" \in op[c].left
      /\ registered \subseteq Backends
  BY DEF IInv, TypeOK, ChangeFits, Changing
<1>2. CASE Return(c)
  <2>1. op'[c] = Idle
    BY <1>1, <1>2 DEF Return
  <2> QED
    BY <1>1, <2>1, WorkIsNat
<1>3. ASSUME NEW b \in op[c].left, NEW pc, PastBackend(c, b, pc) \/ FailedBy(c, b, pc)
      PROVE  op'[c].pc = pc /\ op'[c].left = op[c].left \ {b}
  BY <1>1, <1>3 DEF PastBackend, FailedBy, TaskType
<1>4. ASSUME AddPicks(c), ~Return(c)
      PROVE  Work(op'[c]) < Work(op[c])
  <2>1. op[c].pc = "pick" /\ op'[c].pc = "first"
    BY <1>1, <1>4 DEF AddPicks, TaskType
  <2> QED
    BY <1>1, <2>1, EachStepCounts
<1>5. CASE FirstFails(c)
  <2>1. op[c].pc = "first" /\ op'[c].pc = "lock"
    BY <1>1, <1>5 DEF FirstFails, FailedBy, TaskType
  <2> QED
    BY <1>1, <2>1, EachStepCounts
<1>6. CASE FallbackLocks(c)
  <2>1. op[c].pc = "lock" /\ op'[c].pc = "fallback"
    BY <1>1, <1>6 DEF FallbackLocks, TaskType
  <2> QED
    BY <1>1, <2>1, EachStepCounts
<1>7. CASE FallbackFails(c)
  <2>1. /\ op[c].pc = "fallback" /\ op'[c].pc = "fallback"
        /\ \E b \in op[c].left : op'[c].left = op[c].left \ {b}
    BY <1>3, <1>7 DEF FallbackFails
  <2> QED
    BY <1>1, <2>1, EachStepCounts
<1>8. CASE UpdateFailsAt(c)
  <2>1. /\ op[c].pc = "update" /\ op'[c].pc = "update"
        /\ \E b \in op[c].left : op'[c].left = op[c].left \ {b}
    BY <1>3, <1>8 DEF UpdateFailsAt
  <2> QED
    BY <1>1, <2>1, EachStepCounts
<1>9. CASE CogneeDeletes(c)
  <2>1. \/ op[c].pc = "update" /\ op'[c].pc = "readd" /\ op'[c].left = op[c].left
        \/ /\ op[c].pc = "update" /\ op'[c].pc = "update"
           /\ \E b \in op[c].left : op'[c].left = op[c].left \ {b}
    <3>1. CASE op' = [op EXCEPT ![c].pc = "readd"]
      BY <1>1, <1>9, <3>1 DEF CogneeDeletes, TaskType
    <3>2. CASE PastBackend(c, "cognee", "update")
      BY <1>3, <1>9, <3>2 DEF CogneeDeletes
    <3> QED
      BY <1>9, <3>1, <3>2 DEF CogneeDeletes
  <2> QED
    BY <1>1, <2>1, EachStepCounts
<1>10. CASE CogneeFailsToAdd(c)
  <2>1. /\ op[c].pc = "readd" /\ op'[c].pc = "update"
        /\ \E b \in op[c].left : op'[c].left = op[c].left \ {b}
    BY <1>1, <1>3, <1>10 DEF CogneeFailsToAdd
  <2> QED
    BY <1>1, <2>1, EachStepCounts
<1>11. CASE DeleteDoneAt(c) \/ DeleteFailsAt(c)
  <2>1. /\ op[c].pc = "delete" /\ op'[c].pc = "delete"
        /\ \E b \in op[c].left : op'[c].left = op[c].left \ {b}
    BY <1>3, <1>11 DEF DeleteDoneAt, DeleteFailsAt
  <2> QED
    BY <1>1, <2>1, EachStepCounts
<1> QED
  BY <1>2, <1>4, <1>5, <1>6, <1>7, <1>8, <1>9, <1>10, <1>11
  DEF StepOf, AddSucceeds, AddFails, UpdateSucceeds, UpdateFails, CogneeAdds, DeleteReturns

\* Nobody joins the readers while a RegisterProvider waits.
LEMMA ReadersDrain ==
    ASSUME [Next]_vars, registering # {}
    PROVE  readers' \subseteq readers
BY DEF Next, vars, RegisterAsks, Register, Add, AddPicks, AddSucceeds, FirstFails,
       FallbackLocks, MayRLock, FallbackFails, AddFails, Update, UpdateSucceeds,
       UpdateFailsAt, CogneeDeletes, CogneeAdds, CogneeFailsToAdd, UpdateFails,
       Delete, DeleteDoneAt, DeleteFailsAt, DeleteReturns

\* No operation of the provider goes on for ever, and no RegisterProvider waits
\* for more readers than held the lock when it asked.
THEOREM OperationsRunOut == Spec => StepsRunOut
<1>1. ASSUME IInv, [Next]_vars
      PROVE  /\ \A c \in Callers : op[c].pc # "idle" =>
                   op'[c] = op[c] \/ Work(op'[c]) < Work(op[c])
             /\ registering # {} => readers' \subseteq readers
  <2>1. op' \in [Callers -> TaskType]
    BY <1>1, StepPreserves DEF IInv, TypeOK
  <2> QED
    BY <1>1, <2>1, OnlyOwnSteps, StepCounts, ReadersDrain
<1>2. IInv /\ [Next]_vars
        => [/\ \A c \in Callers : op[c].pc # "idle" =>
                  op'[c] = op[c] \/ Work(op'[c]) < Work(op[c])
            /\ registering # {} => readers' \subseteq readers]_vars
  BY <1>1
<1> QED
  BY <1>2, Invariance, PTL DEF Spec, StepsRunOut
=============================================================================
