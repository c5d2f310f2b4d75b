------------------------- MODULE FusionEngineProofs -------------------------
(***************************************************************************)
(* Safety of FusionEngine for any systems, memories, requests and callers, *)
(* from one inductive invariant, and the proof that the engine implements  *)
(* MemoryStore.                                                            *)
(*                                                                         *)
(* What the engine tells its caller follows from what the tasks have still *)
(* to do: a system selected for a Store is still to be called, has failed, *)
(* or has stored the memory; and it is called once, by the one Store of    *)
(* that memory, so that no copy comes back that was removed.               *)
(*                                                                         *)
(* At the end, what the promise means to an application, and why every     *)
(* operation comes to its end.                                             *)
(***************************************************************************)
EXTENDS FusionEngine, FiniteSetTheorems, TLAPS

Writing(c) == op[c].kind \in {"store", "attach"}

\* Systems that c has still to hear of.
Pending(c) == op[c].ask \union op[c].call

\* What the systems hold, or held, was written there; they have clients; what is
\* held was not removed, what was returned was held.
CopiesWereWritten ==
    /\ held \union removed \subseteq written
    /\ held \union removed \subseteq Systems \X Memories
    /\ held \intersect removed = {}
    /\ known \subseteq held \union removed

\* A memory that Store has answered for was written, and is held or was removed
\* when the answer was nil.
AnswersWereWritten ==
    /\ \A m \in acked \union refused : Selected(m) # {}
    /\ \A m \in acked : \E s \in AllSystems : <<s, m>> \in held \union removed

\* A write is of a memory of its own, at systems selected for it, which have not
\* got it before they are called.  One that failed, and reported all it did, has
\* not got it either.
WritesFit ==
    \A c \in Callers : Writing(c) =>
       /\ op[c].id[1] = "none" /\ Mem(c) \in Memories \ (acked \union refused)
       /\ Selected(Mem(c)) # {}
       /\ Pending(c) \union op[c].failed \subseteq Selected(Mem(c))
       /\ \A s \in Pending(c) : <<s, Mem(c)>> \notin held \union removed
       /\ \A s \in op[c].failed : Mem(c) \in lossy \/ <<s, Mem(c)>> \notin held
       /\ \A d \in Callers : Writing(d) /\ Mem(d) = Mem(c) => d = c

\* The systems of a Store that are done without an error have stored it.
StoresCover ==
    \A c \in Callers : op[c].kind = "store" =>
       \A s \in Selected(Mem(c)) \ (Pending(c) \union op[c].failed) :
          <<s, Mem(c)>> \in held \union removed

\* A read has found a memory that it has to find, or is still to ask a system that
\* holds it, unless that one failed.
ReadsFit ==
    \A c \in Callers : op[c].kind \in Reads =>
       /\ op[c].got \subseteq held \union removed
       /\ \A m \in op[c].due : \E s \in AllSystems :
             \/ <<s, m>> \in removed \union op[c].got
             \/ <<s, m>> \in held /\ s \in Pending(c) \union op[c].failed

\* A Delete has still to ask the system of its id, or has failed there, or has
\* removed it.
DeletesFit ==
    \A c \in Callers : op[c].kind = "delete" =>
       /\ op[c].id \in known
       /\ Pending(c) \union op[c].failed \subseteq {"cognee", "mem0"}
       /\ \/ op[c].id[1] \in Pending(c) \union op[c].failed \union {"letta"}
          \/ op[c].id \in removed

\* No system is at two stages of an operation; a health check asks those there are.
StagesFit ==
    \A c \in Callers :
       IF op[c].kind = "check" THEN op[c].ask \subseteq Systems
       ELSE /\ op[c].ask \intersect op[c].call = {}
            /\ Pending(c) \intersect op[c].failed = {}

IInv ==
    /\ TypeOK
    /\ CopiesWereWritten
    /\ AnswersWereWritten
    /\ WritesFit
    /\ StoresCover
    /\ ReadsFit
    /\ DeletesFit
    /\ StagesFit
    /\ RefusedIsNotHeld

USE EngineAssumption DEF EngineAssumption

-----------------------------------------------------------------------------
\* An operation that begins is well typed.
LEMMA TaskIsTyped ==
    ASSUME NEW kind \in Kind, NEW id \in Ids \union ({"none"} \X Memories) \union {NoId},
           NEW ask \in SUBSET AllSystems, NEW due \in SUBSET Memories
    PROVE  Task(kind, id, ask, due) \in TaskType
BY DEF Task, TaskType, Ids

\* Initially nothing is held and nobody is in an operation.
LEMMA InitEstablishes == Init => IInv
<1> SUFFICES ASSUME Init PROVE IInv
  OBVIOUS
<1>1. Idle \in TaskType /\ Idle.kind = "idle"
  BY TaskIsTyped DEF Idle, Task, Kind
<1>2. TypeOK
  BY <1>1 DEF Init, TypeOK
<1>3. CopiesWereWritten /\ AnswersWereWritten /\ RefusedIsNotHeld
  BY DEF Init, CopiesWereWritten, AnswersWereWritten, RefusedIsNotHeld
<1>4. \A c \in Callers : op[c] = Idle
  BY DEF Init
<1>5. WritesFit /\ StoresCover /\ ReadsFit /\ DeletesFit
  BY <1>1, <1>4 DEF WritesFit, StoresCover, ReadsFit, DeletesFit, Writing, Reads
<1>6. StagesFit
  BY <1>4 DEF StagesFit, Idle, Task, Pending
<1> QED
  BY <1>2, <1>3, <1>5, <1>6 DEF IInv

-----------------------------------------------------------------------------
\* A step of c alone, whose operation stays well typed.
StepOf(c) ==
    /\ op' \in [Callers -> TaskType]
    /\ \A d \in Callers \ {c} : op'[d] = op[d]

\* An operation that begins, or gives way to Idle, is a step of c.
LEMMA Replaces ==
    ASSUME TypeOK, NEW c \in Callers, NEW t \in TaskType, op' = [op EXCEPT ![c] = t]
    PROVE  StepOf(c) /\ op'[c] = t
BY DEF TypeOK, StepOf

\* A write that begins finds a memory nobody has written and no system holds.
LEMMA WriteBegins ==
    ASSUME IInv, NEW c \in Callers, NEW m \in Memories, NEW kind \in {"store", "attach"},
           NEW systems \in SUBSET AllSystems, NEW ask \in SUBSET systems,
           systems # {}, kind = "store" => ask = systems,
           Selected(m) = {}, written' = written \union (systems \X {m}),
           op' = [op EXCEPT ![c] = Task(kind, <<"none", m>>, ask, {})],
           UNCHANGED <<healthy, held, known, acked, refused, lossy, removed, gone>>
    PROVE  IInv'
<1> DEFINE t == Task(kind, <<"none", m>>, ask, {})
<1>1. t \in TaskType
  <2>1. <<"none", m>> \in Ids \union ({"none"} \X Memories) \union {NoId}
    OBVIOUS
  <2>2. kind \in Kind /\ ask \in SUBSET AllSystems
    BY DEF Kind
  <2> QED
    BY <2>1, <2>2, TaskIsTyped
<1>2. /\ t.kind = kind /\ t.id = <<"none", m>> /\ t.ask = ask /\ t.call = {}
      /\ t.failed = {} /\ kind \notin Reads \union {"delete", "check", "idle"}
  BY DEF Task, Reads
<1> HIDE DEF t
<1>3. StepOf(c) /\ op'[c] = t
  BY <1>1, Replaces DEF IInv, t
<1>4. /\ Selected(m)' = systems
      /\ \A n \in Memories \ {m} : Selected(n)' = Selected(n)
      /\ \A s \in AllSystems : <<s, m>> \notin written
  BY DEF Selected
<1>5. TypeOK'
  BY <1>3 DEF IInv, TypeOK, StepOf, Ids
<1>6. CopiesWereWritten' /\ RefusedIsNotHeld'
  BY DEF IInv, CopiesWereWritten, RefusedIsNotHeld
<1>7. AnswersWereWritten'
  BY <1>4 DEF IInv, TypeOK, AnswersWereWritten
<1>8. \A s \in AllSystems : <<s, m>> \notin held \union removed
  BY <1>4 DEF IInv, CopiesWereWritten
<1>9. \A d \in Callers \ {c} : Writing(d) => Mem(d) # m
  BY DEF IInv, WritesFit
<1>10. m \notin acked \union refused
  BY DEF IInv, AnswersWereWritten
<1>11. WritesFit'
  <2> SUFFICES ASSUME NEW d \in Callers, Writing(d)'
               PROVE  /\ op'[d].id[1] = "none" /\ Mem(d)' \in Memories \ (acked \union refused)
                      /\ Selected(Mem(d))' # {}
                      /\ Pending(d)' \union op'[d].failed \subseteq Selected(Mem(d))'
                      /\ \A s \in Pending(d)' : <<s, Mem(d)'>> \notin held \union removed
                      /\ \A s \in op'[d].failed : Mem(d)' \in lossy \/ <<s, Mem(d)'>> \notin held
                      /\ \A e \in Callers : Writing(e)' /\ Mem(e)' = Mem(d)' => e = d
    BY DEF WritesFit
  <2>1. CASE d = c
    BY <1>2, <1>3, <1>4, <1>8, <1>9, <1>10, <2>1 DEF StepOf, Pending, Mem, Writing
  <2>2. CASE d # c
    BY <1>2, <1>3, <1>4, <1>9, <2>2 DEF IInv, WritesFit, StepOf, Pending, Mem, Writing
  <2> QED
    BY <2>1, <2>2
<1>12. StoresCover'
  BY <1>2, <1>3, <1>4, <1>9 DEF IInv, StoresCover, WritesFit, StepOf, Pending, Mem, Writing
<1>13. ReadsFit' /\ DeletesFit' /\ StagesFit'
  BY <1>2, <1>3 DEF IInv, ReadsFit, DeletesFit, StagesFit, StepOf, Pending
<1> QED
  BY <1>5, <1>6, <1>7, <1>11, <1>12, <1>13 DEF IInv

\* A read or check that begins, and an operation that ends: none of what it was
\* doing is left, and what it is to do fits.
LEMMA Settles ==
    ASSUME IInv, NEW c \in Callers, NEW t \in TaskType, op' = [op EXCEPT ![c] = t],
           t.kind \in Reads \union {"delete", "check", "idle"},
           t.call = {}, t.failed = {}, t.got = {},
           t.kind \in Reads => \A m \in t.due : \E s \in AllSystems :
              <<s, m>> \in removed \/ (<<s, m>> \in held /\ s \in t.ask),
           t.kind = "delete" =>
              /\ t.id \in known
              /\ t.ask \subseteq {"cognee", "mem0"}
              /\ t.id[1] \in t.ask \union {"letta"},
           t.kind = "check" => t.ask \subseteq Systems,
           known \subseteq known', known' \subseteq held \union removed,
           gone' \subseteq Ids,
           UNCHANGED <<healthy, held, written, acked, refused, lossy, removed>>
    PROVE  IInv'
<1>1. StepOf(c) /\ op'[c] = t
  BY Replaces DEF IInv
<1>2. TypeOK'
  BY <1>1 DEF IInv, TypeOK, StepOf
<1>3. CopiesWereWritten' /\ RefusedIsNotHeld' /\ AnswersWereWritten'
  BY DEF IInv, CopiesWereWritten, RefusedIsNotHeld, AnswersWereWritten, Selected
<1>4. t.kind \notin {"store", "attach"}
  BY DEF Reads
<1>5. WritesFit'
  BY <1>1, <1>4 DEF IInv, WritesFit, StepOf, Pending, Mem, Writing, Selected
<1>6. StoresCover'
  BY <1>1, <1>4 DEF IInv, StoresCover, StepOf, Pending, Mem, Selected
<1>7. ReadsFit'
  BY <1>1 DEF IInv, ReadsFit, StepOf, Pending
<1>8. DeletesFit'
  BY <1>1 DEF IInv, DeletesFit, StepOf, Pending, Reads
<1>9. StagesFit'
  BY <1>1 DEF IInv, StagesFit, StepOf, Pending
<1> QED
  BY <1>2, <1>3, <1>5, <1>6, <1>7, <1>8, <1>9 DEF IInv

\* A Store that returns has heard of every system it selected.
LEMMA StoreEnds ==
    ASSUME IInv, NEW c \in Callers, StoreReturns(c)
    PROVE  IInv'
<1>1. /\ op[c].kind = "store" /\ Joined(c)
      /\ op' = [op EXCEPT ![c] = Idle]
      /\ \/ /\ op[c].failed = Selected(Mem(c))
            /\ refused' = refused \union {Mem(c)} /\ acked' = acked
         \/ /\ op[c].failed # Selected(Mem(c))
            /\ acked' = acked \union {Mem(c)} /\ refused' = refused
      /\ UNCHANGED <<healthy, held, known, written, lossy, removed, gone>>
  BY DEF StoreReturns
<1>2. Idle \in TaskType /\ Idle.kind = "idle" /\ Idle.ask = {} /\ Idle.call = {} /\ Idle.failed = {}
  BY TaskIsTyped DEF Idle, Task, Kind
<1>3. StepOf(c) /\ op'[c] = Idle
  BY <1>1, <1>2, Replaces DEF IInv
<1>4. Mem(c) \in Memories \ (acked \union refused) /\ Selected(Mem(c)) # {} /\ Writing(c)
  BY <1>1 DEF IInv, WritesFit, Writing
<1>5. TypeOK'
  BY <1>1, <1>3, <1>4 DEF IInv, TypeOK, StepOf
<1>6. CopiesWereWritten'
  BY <1>1 DEF IInv, CopiesWereWritten
<1>7. op[c].failed \subseteq Selected(Mem(c)) /\ Pending(c) = {}
  BY <1>1, <1>4 DEF IInv, WritesFit, Joined, Pending
<1>8. op[c].failed # Selected(Mem(c)) =>
         \E s \in AllSystems : <<s, Mem(c)>> \in held \union removed
  BY <1>1, <1>7 DEF IInv, StoresCover, Selected
<1>9. AnswersWereWritten'
  BY <1>1, <1>4, <1>8 DEF IInv, AnswersWereWritten, Selected
<1>10. op[c].failed = Selected(Mem(c)) =>
          Mem(c) \in lossy \/ \A s \in AllSystems : <<s, Mem(c)>> \notin held
  BY <1>4 DEF IInv, WritesFit, CopiesWereWritten, Selected
<1>11. RefusedIsNotHeld'
  BY <1>1, <1>10 DEF IInv, RefusedIsNotHeld
<1>12. \A d \in Callers \ {c} : Writing(d) => Mem(d) # Mem(c)
  BY <1>4 DEF IInv, WritesFit
<1>13. WritesFit'
  BY <1>1, <1>2, <1>3, <1>12 DEF IInv, WritesFit, StepOf, Pending, Mem, Writing, Selected
<1>14. StoresCover'
  BY <1>1, <1>2, <1>3 DEF IInv, StoresCover, StepOf, Pending, Mem, Selected
<1>15. ReadsFit' /\ DeletesFit' /\ StagesFit'
  BY <1>1, <1>2, <1>3 DEF IInv, ReadsFit, DeletesFit, StagesFit, StepOf, Pending, Reads
<1> QED
  BY <1>5, <1>6, <1>9, <1>11, <1>13, <1>14, <1>15 DEF IInv

\* An operation goes on: a system is called, or its call ends in an error that
\* changed nothing, or its answer is added to the result.
LEMMA Advances ==
    ASSUME IInv, NEW c \in Callers, StepOf(c),
           op'[c].kind = op[c].kind, op'[c].id = op[c].id, op'[c].due = op[c].due,
           op[c].got \subseteq op'[c].got,
           op[c].kind \in Reads => op'[c].got \subseteq held \union removed,
           Pending(c)' \subseteq Pending(c), op[c].failed \subseteq op'[c].failed,
           op'[c].failed \subseteq Pending(c) \union op[c].failed,
           op[c].kind # "check",
           \A s \in Pending(c) \ (Pending(c)' \union op'[c].failed) :
              \/ /\ op[c].kind \in Reads
                 /\ \A m \in Memories : <<s, m>> \in held => <<s, m>> \in op'[c].got
              \/ op[c].kind = "delete" /\ s # op[c].id[1],
           op'[c].ask \intersect op'[c].call = {},
           Pending(c)' \intersect op'[c].failed = {},
           UNCHANGED <<healthy, held, known, written, acked, refused, lossy, removed, gone>>
    PROVE  IInv'
<1>1. TypeOK'
  BY DEF IInv, TypeOK, StepOf
<1>2. CopiesWereWritten' /\ RefusedIsNotHeld' /\ AnswersWereWritten'
  <2>1. CopiesWereWritten' /\ RefusedIsNotHeld'
    BY DEF IInv, CopiesWereWritten, RefusedIsNotHeld
  <2>2. \A m \in acked \union refused : Selected(m)' = Selected(m)
    BY DEF Selected
  <2> QED
    BY <2>1, <2>2 DEF IInv, AnswersWereWritten
<1>3. \A d \in Callers : Selected(Mem(d))' = Selected(Mem(d)) /\ Writing(d)' = Writing(d) /\ Mem(d)' = Mem(d)
  BY DEF Selected, Writing, Mem, StepOf
<1>4. \A d \in Callers \ {c} : Pending(d)' = Pending(d)
  BY DEF Pending, StepOf
<1>5. WritesFit'
  <2>1. ASSUME NEW d \in Callers, Writing(d)
        PROVE  /\ op'[d].id[1] = "none" /\ Mem(d) \in Memories \ (acked \union refused)
               /\ Selected(Mem(d)) # {}
               /\ Pending(d)' \union op'[d].failed \subseteq Selected(Mem(d))
               /\ \A s \in Pending(d)' : <<s, Mem(d)>> \notin held \union removed
               /\ \A s \in op'[d].failed : Mem(d) \in lossy \/ <<s, Mem(d)>> \notin held
               /\ \A e \in Callers : Writing(e) /\ Mem(e) = Mem(d) => e = d
    <3>1. CASE d = c
      BY <2>1, <3>1 DEF IInv, WritesFit
    <3>2. CASE d # c
      BY <1>4, <2>1, <3>2 DEF IInv, WritesFit, StepOf
    <3> QED
      BY <3>1, <3>2
  <2> QED
    BY <1>3, <2>1 DEF WritesFit
<1>6. StoresCover'
  <2>1. ASSUME NEW d \in Callers, op'[d].kind = "store",
               NEW s \in Selected(Mem(d)) \ (Pending(d)' \union op'[d].failed)
        PROVE  <<s, Mem(d)>> \in held \union removed
    <3>1. CASE d = c
      <4>1. s \notin Pending(c)
        BY <2>1, <3>1 DEF Reads
      <4> QED
        BY <2>1, <3>1, <4>1 DEF IInv, StoresCover
    <3>2. CASE d # c
      BY <1>4, <2>1, <3>2 DEF IInv, StoresCover, StepOf
    <3> QED
      BY <3>1, <3>2
  <2> QED
    BY <1>3, <2>1 DEF StoresCover
<1>7. ReadsFit'
  <2>1. ASSUME NEW d \in Callers, op'[d].kind \in Reads
        PROVE  /\ op'[d].got \subseteq held \union removed
               /\ \A m \in op'[d].due : \E s \in AllSystems :
                     \/ <<s, m>> \in removed \union op'[d].got
                     \/ <<s, m>> \in held /\ s \in Pending(d)' \union op'[d].failed
    <3>1. CASE d = c
      BY <2>1, <3>1 DEF IInv, ReadsFit, TypeOK, TaskType, Reads
    <3>2. CASE d # c
      BY <1>4, <2>1, <3>2 DEF IInv, ReadsFit, StepOf
    <3> QED
      BY <3>1, <3>2
  <2> QED
    BY <2>1 DEF ReadsFit
<1>8. DeletesFit'
  <2>1. ASSUME NEW d \in Callers, op'[d].kind = "delete"
        PROVE  /\ op'[d].id \in known
               /\ Pending(d)' \union op'[d].failed \subseteq {"cognee", "mem0"}
               /\ \/ op'[d].id[1] \in Pending(d)' \union op'[d].failed \union {"letta"}
                  \/ op'[d].id \in removed
    <3>1. CASE d = c
      BY <2>1, <3>1 DEF IInv, DeletesFit, Reads
    <3>2. CASE d # c
      BY <1>4, <2>1, <3>2 DEF IInv, DeletesFit, StepOf
    <3> QED
      BY <3>1, <3>2
  <2> QED
    BY <2>1 DEF DeletesFit
<1>9. StagesFit'
  <2>1. op'[c].kind # "check" /\ \A d \in Callers \ {c} : op'[d] = op[d]
    BY DEF StepOf
  <2> QED
    BY <1>4, <2>1 DEF IInv, StagesFit
<1> QED
  BY <1>1, <1>2, <1>5, <1>6, <1>7, <1>8, <1>9 DEF IInv

\* A health check moves on, and sets no more than a flag.
LEMMA ChecksMove ==
    ASSUME IInv, NEW c \in Callers, StepOf(c), op[c].kind = "check", op'[c].kind = "check",
           op'[c].ask \subseteq op[c].ask,
           healthy' \subseteq AllSystems,
           UNCHANGED <<held, known, written, acked, refused, lossy, removed, gone>>
    PROVE  IInv'
<1>1. TypeOK'
  BY DEF IInv, TypeOK, StepOf
<1>2. CopiesWereWritten' /\ RefusedIsNotHeld'
  BY DEF IInv, CopiesWereWritten, RefusedIsNotHeld
<1>3. AnswersWereWritten'
  <2>1. \A m \in acked \union refused : Selected(m)' = Selected(m)
    BY DEF Selected
  <2> QED
    BY <2>1 DEF IInv, AnswersWereWritten
<1>4. \A d \in Callers : op'[d].kind # "check" => op'[d] = op[d] /\ Pending(d)' = Pending(d)
  BY DEF StepOf, Pending
<1>5. \A m \in Memories : Selected(m)' = Selected(m)
  BY DEF Selected
<1>6. WritesFit'
  BY <1>4, <1>5 DEF IInv, WritesFit, Writing, Mem
<1>7. StoresCover'
  BY <1>4, <1>5 DEF IInv, StoresCover, WritesFit, Writing, Mem
<1>8. ReadsFit' /\ DeletesFit'
  BY <1>4 DEF IInv, ReadsFit, DeletesFit, Reads
<1>9. StagesFit'
  <2>1. op[c].ask \subseteq Systems /\ \A d \in Callers \ {c} : op'[d] = op[d] /\ Pending(d)' = Pending(d)
    BY DEF IInv, StagesFit, StepOf, Pending
  <2> QED
    BY <2>1 DEF IInv, StagesFit
<1> QED
  BY <1>1, <1>2, <1>3, <1>6, <1>7, <1>8, <1>9 DEF IInv

\* A system stores the memory of the one write that was to store it there.
LEMMA CopyAppears ==
    ASSUME IInv, NEW c \in Callers, StepOf(c), Writing(c), NEW s \in op[c].call,
           op'[c].kind = op[c].kind, op'[c].id = op[c].id, op'[c].got = op[c].got,
           Pending(c)' = Pending(c) \ {s},
           op'[c].ask \intersect op'[c].call = {}, Pending(c)' \intersect op'[c].failed = {},
           \/ op'[c].failed = op[c].failed
           \/ op'[c].failed = op[c].failed \union {s} /\ Mem(c) \in lossy',
           held' = held \union {<<s, Mem(c)>>},
           lossy \subseteq lossy', lossy' \subseteq Memories,
           UNCHANGED <<healthy, known, written, acked, refused, removed, gone>>
    PROVE  IInv'
<1>1. /\ Mem(c) \in Memories \ (acked \union refused)
      /\ s \in Pending(c) /\ s \in Selected(Mem(c)) /\ s \in Systems /\ s \in AllSystems
      /\ <<s, Mem(c)>> \notin held \union removed
      /\ \A d \in Callers \ {c} : Writing(d) => Mem(d) # Mem(c)
      /\ s \notin op[c].failed /\ s \notin Pending(c)'
  BY DEF IInv, WritesFit, Pending, TypeOK, TaskType, StagesFit, Writing
<1>2. TypeOK'
  BY <1>1 DEF IInv, TypeOK, StepOf, Ids
<1>3. CopiesWereWritten'
  BY <1>1 DEF IInv, CopiesWereWritten, Selected
<1>4. RefusedIsNotHeld'
  BY <1>1 DEF IInv, RefusedIsNotHeld
<1>5. \A m : Selected(m)' = Selected(m)
  BY DEF Selected
<1>6. AnswersWereWritten'
  BY <1>5 DEF IInv, AnswersWereWritten
<1>7. \A d \in Callers : Writing(d)' = Writing(d) /\ Mem(d)' = Mem(d)
  BY DEF Writing, Mem, StepOf
<1>8. \A d \in Callers \ {c} : op'[d] = op[d] /\ Pending(d)' = Pending(d)
  BY DEF Pending, StepOf
<1>9. WritesFit'
  <2>1. ASSUME NEW d \in Callers, Writing(d)
        PROVE  /\ op'[d].id[1] = "none" /\ Mem(d) \in Memories \ (acked \union refused)
               /\ Selected(Mem(d)) # {}
               /\ Pending(d)' \union op'[d].failed \subseteq Selected(Mem(d))
               /\ \A r \in Pending(d)' : <<r, Mem(d)>> \notin held' \union removed
               /\ \A r \in op'[d].failed : Mem(d) \in lossy' \/ <<r, Mem(d)>> \notin held'
               /\ \A e \in Callers : Writing(e) /\ Mem(e) = Mem(d) => e = d
    <3>1. CASE d = c
      BY <1>1, <2>1, <3>1 DEF IInv, WritesFit
    <3>2. CASE d # c
      BY <1>1, <1>8, <2>1, <3>2 DEF IInv, WritesFit
    <3> QED
      BY <3>1, <3>2
  <2> QED
    BY <1>5, <1>7, <2>1 DEF WritesFit
<1>10. StoresCover'
  <2>1. ASSUME NEW d \in Callers, op'[d].kind = "store",
               NEW r \in Selected(Mem(d)) \ (Pending(d)' \union op'[d].failed)
        PROVE  <<r, Mem(d)>> \in held' \union removed
    <3>1. CASE d = c
      BY <2>1, <3>1 DEF IInv, StoresCover
    <3>2. CASE d # c
      BY <1>8, <2>1, <3>2 DEF IInv, StoresCover
    <3> QED
      BY <3>1, <3>2
  <2> QED
    BY <1>5, <1>7, <2>1 DEF StoresCover
<1>11. op'[c].kind \notin Reads \union {"delete", "check"}
  BY DEF Writing, Reads
<1>12. ReadsFit' /\ DeletesFit' /\ StagesFit'
  BY <1>8, <1>11 DEF IInv, ReadsFit, DeletesFit, StagesFit, Writing, Reads
<1> QED
  BY <1>2, <1>3, <1>4, <1>6, <1>9, <1>10, <1>12 DEF IInv

\* A system removes the copy whose id a Delete carries.
LEMMA CopyGoes ==
    ASSUME IInv, NEW c \in Callers, StepOf(c), op[c].kind = "delete", op[c].id[1] \in op[c].call,
           op'[c].kind = op[c].kind, op'[c].id = op[c].id, op'[c].got = op[c].got,
           Pending(c)' \subseteq Pending(c),
           op'[c].failed \subseteq op[c].failed \union Pending(c),
           op'[c].ask \intersect op'[c].call = {}, Pending(c)' \intersect op'[c].failed = {},
           held' = held \ {op[c].id}, removed' = removed \union {op[c].id},
           UNCHANGED <<healthy, known, written, acked, refused, lossy, gone>>
    PROVE  IInv'
<1>1. op[c].id \in held \union removed /\ op[c].id \in Ids
  BY DEF IInv, DeletesFit, CopiesWereWritten, TypeOK
<1>2. TypeOK'
  BY <1>1 DEF IInv, TypeOK, StepOf
<1>3. CopiesWereWritten' /\ held' \union removed' = held \union removed
  BY <1>1 DEF IInv, CopiesWereWritten
<1>4. RefusedIsNotHeld'
  BY DEF IInv, RefusedIsNotHeld
<1>5. \A m : Selected(m)' = Selected(m)
  BY DEF Selected
<1>6. AnswersWereWritten'
  BY <1>3, <1>5 DEF IInv, AnswersWereWritten
<1>7. ~Writing(c) /\ ~Writing(c)' /\ op'[c].kind \notin Reads
  BY DEF Writing, Reads
<1>8. \A d \in Callers \ {c} : op'[d] = op[d] /\ Pending(d)' = Pending(d)
  BY DEF Pending, StepOf
<1>9. WritesFit'
  BY <1>3, <1>5, <1>7, <1>8 DEF IInv, WritesFit, Writing, Mem
<1>10. StoresCover'
  BY <1>3, <1>5, <1>7, <1>8 DEF IInv, StoresCover, Writing, Mem
<1>11. ReadsFit'
  BY <1>3, <1>7, <1>8 DEF IInv, ReadsFit
<1>12. DeletesFit'
  BY <1>8 DEF IInv, DeletesFit
<1>13. StagesFit'
  BY <1>8 DEF IInv, StagesFit
<1> QED
  BY <1>2, <1>3, <1>4, <1>6, <1>9, <1>10, <1>11, <1>12, <1>13 DEF IInv

-----------------------------------------------------------------------------
\* No operation begins or returns in a way that breaks the invariant.
LEMMA BeginsAndReturns ==
    ASSUME IInv, NEW c \in Callers
    PROVE  /\ \A m \in Memories, t \in MemoryTypes, a \in Agents : Store(c, m, t, a) => IInv'
           /\ \A m \in Memories : StoreWithAgent(c, m) \/ CreateKnowledgeGraph(c, m) => IInv'
           /\ \A kind \in Reads, systems \in SUBSET AllSystems : Read(c, kind, systems) => IInv'
           /\ \A id \in AllSystems \X Memories : Delete(c, id) => IInv'
           /\ HealthCheck(c) => IInv'
           /\ StoreReturns(c) \/ StoreWithAgentReturns(c) \/ ReadReturns(c) => IInv'
           /\ DeleteReturns(c) \/ HealthCheckReturns(c) => IInv'
<1>1. /\ \A kind, id, ask, due :
            LET t == Task(kind, id, ask, due) IN
            /\ t.kind = kind /\ t.id = id /\ t.ask = ask /\ t.due = due
            /\ t.call = {} /\ t.failed = {} /\ t.got = {}
      /\ Reads \union {"delete", "check", "idle", "store", "attach"} \subseteq Kind
      /\ "delete" \notin Reads /\ "check" \notin Reads /\ "idle" \notin Reads
  BY DEF Task, Kind, Reads
<1>2. Idle \in TaskType /\ Idle.kind = "idle" /\ Idle.call = {} /\ Idle.failed = {} /\ Idle.got = {}
  BY <1>1, TaskIsTyped DEF Idle
<1>3. ASSUME NEW m \in Memories, NEW type \in MemoryTypes, NEW a \in Agents, Store(c, m, type, a)
      PROVE  IInv'
  <2> DEFINE systems == SelectSystemsForWrite(type, a)
  <2>1. systems \in SUBSET AllSystems /\ systems # {}
    BY DEF SelectSystemsForWrite, AllSystems
  <2> HIDE DEF systems
  <2>2. /\ Selected(m) = {} /\ written' = written \union (systems \X {m})
        /\ op' = [op EXCEPT ![c] = Task("store", <<"none", m>>, systems, {})]
        /\ UNCHANGED <<healthy, held, known, acked, refused, lossy, removed, gone>>
    BY <1>3 DEF Store, Begin, systems
  <2> QED
    BY <2>1, <2>2, WriteBegins
<1>4. ASSUME NEW m \in Memories, CreateKnowledgeGraph(c, m)
      PROVE  IInv'
  <2>1. {"cognee"} \in SUBSET AllSystems /\ {"cognee"} # {} /\ {"cognee"} \X {m} = {<<"cognee", m>>}
    BY DEF AllSystems
  <2>2. /\ Selected(m) = {} /\ written' = written \union ({"cognee"} \X {m})
        /\ op' = [op EXCEPT ![c] = Task("store", <<"none", m>>, {"cognee"}, {})]
        /\ UNCHANGED <<healthy, held, known, acked, refused, lossy, removed, gone>>
    BY <1>4, <2>1 DEF CreateKnowledgeGraph, Begin
  <2> QED
    BY <2>1, <2>2, WriteBegins
<1>5. ASSUME NEW m \in Memories, StoreWithAgent(c, m)
      PROVE  IInv'
  <2> DEFINE systems == {"mem0", "letta"}
  <2> DEFINE ask == systems \intersect Systems
  <2>1. systems \in SUBSET AllSystems /\ systems # {} /\ ask \in SUBSET systems
    BY DEF AllSystems
  <2>2. /\ Selected(m) = {} /\ written' = written \union (systems \X {m})
        /\ op' = [op EXCEPT ![c] = Task("attach", <<"none", m>>, ask, {})]
        /\ UNCHANGED <<healthy, held, known, acked, refused, lossy, removed, gone>>
    BY <1>5 DEF StoreWithAgent, Begin
  <2> HIDE DEF systems, ask
  <2> QED
    BY <2>1, <2>2, WriteBegins
<1>6. ASSUME NEW kind \in Reads, NEW systems \in SUBSET AllSystems, Read(c, kind, systems)
      PROVE  IInv'
  <2> DEFINE t == Task(kind, NoId, systems, Due(systems))
  <2>1. Due(systems) \subseteq Memories
    BY DEF Due, IInv, TypeOK
  <2>2. \A m \in Due(systems) : \E s \in AllSystems :
           <<s, m>> \in removed \/ (<<s, m>> \in held /\ s \in systems)
    BY DEF Due, IInv, AnswersWereWritten, CopiesWereWritten, Selected
  <2>3. t \in TaskType
    BY <1>1, <2>1, TaskIsTyped
  <2>4. /\ op' = [op EXCEPT ![c] = t] /\ known \subseteq held \union removed /\ gone \subseteq Ids
        /\ UNCHANGED <<healthy, held, known, written, acked, refused, lossy, removed, gone>>
    BY <1>6 DEF Read, Begin, IInv, CopiesWereWritten, TypeOK
  <2>5. t.kind = kind /\ t.ask = systems /\ t.due = Due(systems) /\ t.call = {} /\ t.failed = {} /\ t.got = {}
    BY <1>1
  <2> HIDE DEF t
  <2> QED
    BY <1>1, <2>2, <2>3, <2>4, <2>5, Settles
<1>7. ASSUME NEW id \in AllSystems \X Memories, Delete(c, id)
      PROVE  IInv'
  <2> DEFINE t == Task("delete", id, {"cognee", "mem0"} \intersect Systems, {})
  <2>1. t \in TaskType
    BY <1>1, TaskIsTyped DEF Ids
  <2>2. /\ op' = [op EXCEPT ![c] = t] /\ known \subseteq held \union removed /\ gone \subseteq Ids
        /\ id \in known
        /\ UNCHANGED <<healthy, held, known, written, acked, refused, lossy, removed, gone>>
    BY <1>7 DEF Delete, Begin, IInv, CopiesWereWritten, TypeOK
  <2>3. id[1] \in ({"cognee", "mem0"} \intersect Systems) \union {"letta"}
    BY <2>2 DEF IInv, CopiesWereWritten, AllSystems
  <2>4. /\ t.kind = "delete" /\ t.ask = {"cognee", "mem0"} \intersect Systems /\ t.id = id
        /\ t.call = {} /\ t.failed = {} /\ t.got = {}
    BY <1>1
  <2> HIDE DEF t
  <2>5. t.ask \subseteq {"cognee", "mem0"} /\ t.id[1] \in t.ask \union {"letta"} /\ t.id \in known
    BY <2>2, <2>3, <2>4
  <2>6. t.kind \in Reads \union {"delete", "check", "idle"} /\ t.kind \notin Reads
    BY <1>1, <2>4
  <2>7. t.kind # "check" /\ t.call = {} /\ t.failed = {} /\ t.got = {}
    BY <2>4
  <2> QED
    BY <2>1, <2>2, <2>5, <2>6, <2>7, Settles
<1>8. ASSUME HealthCheck(c) PROVE IInv'
  <2> DEFINE t == Task("check", NoId, Systems, {})
  <2>1. t \in TaskType
    BY <1>1, TaskIsTyped
  <2>2. /\ op' = [op EXCEPT ![c] = t] /\ known \subseteq held \union removed /\ gone \subseteq Ids
        /\ UNCHANGED <<healthy, held, known, written, acked, refused, lossy, removed, gone>>
    BY <1>8 DEF HealthCheck, Begin, IInv, CopiesWereWritten, TypeOK
  <2>3. t.kind = "check" /\ t.ask = Systems /\ t.call = {} /\ t.failed = {} /\ t.got = {}
    BY <1>1
  <2> HIDE DEF t
  <2> QED
    BY <1>1, <2>1, <2>2, <2>3, Settles
<1>9. ASSUME StoreWithAgentReturns(c) \/ HealthCheckReturns(c) PROVE IInv'
  <2>1. /\ op' = [op EXCEPT ![c] = Idle] /\ known \subseteq held \union removed /\ gone \subseteq Ids
        /\ UNCHANGED <<healthy, held, known, written, acked, refused, lossy, removed, gone>>
    BY <1>9 DEF StoreWithAgentReturns, HealthCheckReturns, IInv, CopiesWereWritten, TypeOK
  <2> QED
    BY <1>1, <1>2, <2>1, Settles
<1>10. ASSUME ReadReturns(c) PROVE IInv'
  <2>1. op[c].got \subseteq held \union removed
    BY <1>10 DEF ReadReturns, IInv, ReadsFit
  <2>2. /\ op' = [op EXCEPT ![c] = Idle] /\ gone \subseteq Ids
        /\ known \subseteq known' /\ known' \subseteq held \union removed
        /\ UNCHANGED <<healthy, held, written, acked, refused, lossy, removed, gone>>
    BY <1>10, <2>1 DEF ReadReturns, IInv, CopiesWereWritten, TypeOK
  <2> QED
    BY <1>1, <1>2, <2>2, Settles
<1>11. ASSUME DeleteReturns(c) PROVE IInv'
  <2>1. op[c].id \in Ids
    BY <1>11 DEF DeleteReturns, IInv, DeletesFit, TypeOK
  <2>2. /\ op' = [op EXCEPT ![c] = Idle] /\ known \subseteq held \union removed /\ gone' \subseteq Ids
        /\ UNCHANGED <<healthy, held, known, written, acked, refused, lossy, removed>>
    BY <1>11, <2>1 DEF DeleteReturns, IInv, CopiesWereWritten, TypeOK
  <2> QED
    BY <1>1, <1>2, <2>2, Settles
<1> QED
  BY <1>3, <1>4, <1>5, <1>6, <1>7, <1>8, <1>9, <1>10, <1>11, StoreEnds

\* A task whose call of s starts, cannot start, fails, succeeds or is answered.
Called(t, s)   == [t EXCEPT !.ask = @ \ {s}, !.call = @ \union {s}]
Refused(t, s)  == [t EXCEPT !.ask = @ \ {s}, !.failed = @ \union {s}]
Failed(t, s)   == [t EXCEPT !.call = @ \ {s}, !.failed = @ \union {s}]
Done(t, s)     == [t EXCEPT !.call = @ \ {s}]
Answered(t, s) == [t EXCEPT !.call = @ \ {s}, !.got = @ \union {id \in held : id[1] = s}]

\* It stays well typed, and of the same operation.
SameOperation(u, t) == u \in TaskType /\ u.kind = t.kind /\ u.id = t.id /\ u.due = t.due

LEMMA FieldsChange ==
    ASSUME NEW t \in TaskType, NEW s \in AllSystems, held \subseteq Ids
    PROVE  /\ /\ s \in Systems => SameOperation(Called(t, s), t)
              /\ Called(t, s).ask = t.ask \ {s} /\ Called(t, s).call = t.call \union {s}
              /\ Called(t, s).failed = t.failed /\ Called(t, s).got = t.got
           /\ /\ SameOperation(Refused(t, s), t)
              /\ Refused(t, s).ask = t.ask \ {s} /\ Refused(t, s).call = t.call
              /\ Refused(t, s).failed = t.failed \union {s} /\ Refused(t, s).got = t.got
           /\ /\ SameOperation(Failed(t, s), t)
              /\ Failed(t, s).ask = t.ask /\ Failed(t, s).call = t.call \ {s}
              /\ Failed(t, s).failed = t.failed \union {s} /\ Failed(t, s).got = t.got
           /\ /\ SameOperation(Done(t, s), t)
              /\ Done(t, s).ask = t.ask /\ Done(t, s).call = t.call \ {s}
              /\ Done(t, s).failed = t.failed /\ Done(t, s).got = t.got
           /\ /\ SameOperation(Answered(t, s), t)
              /\ Answered(t, s).ask = t.ask /\ Answered(t, s).call = t.call \ {s}
              /\ Answered(t, s).failed = t.failed
              /\ Answered(t, s).got = t.got \union {id \in held : id[1] = s}
<1>1. PICK kind \in Kind, id \in Ids \union ({"none"} \X Memories) \union {NoId},
          ask \in SUBSET AllSystems, call \in SUBSET Systems, failed \in SUBSET AllSystems,
          got \in SUBSET Ids, due \in SUBSET Memories :
          t = [kind |-> kind, id |-> id, ask |-> ask, call |-> call, failed |-> failed,
               got |-> got, due |-> due]
  BY DEF TaskType
<1> QED
  BY <1>1 DEF TaskType, SameOperation, Called, Refused, Failed, Done, Answered

\* A health check whose system answers, or does not, or whose flag is set.
Asked(t, s)     == [t EXCEPT !.ask = @ \ {s}, !.call = {s}]
AskedAway(t, s) == [t EXCEPT !.ask = @ \ {s}, !.call = {s}, !.failed = {s}]
FlagSet(t)      == [t EXCEPT !.call = {}, !.failed = {}]

\* It stays well typed too.
LEMMA CheckFields ==
    ASSUME NEW t \in TaskType, NEW s \in Systems
    PROVE  /\ SameOperation(Asked(t, s), t) /\ Asked(t, s).ask \subseteq t.ask
           /\ SameOperation(AskedAway(t, s), t) /\ AskedAway(t, s).ask \subseteq t.ask
           /\ SameOperation(FlagSet(t), t) /\ FlagSet(t).ask \subseteq t.ask
<1>1. PICK kind \in Kind, id \in Ids \union ({"none"} \X Memories) \union {NoId},
          ask \in SUBSET AllSystems, call \in SUBSET Systems, failed \in SUBSET AllSystems,
          got \in SUBSET Ids, due \in SUBSET Memories :
          t = [kind |-> kind, id |-> id, ask |-> ask, call |-> call, failed |-> failed,
               got |-> got, due |-> due]
  BY DEF TaskType
<1>2. SameOperation(Asked(t, s), t) /\ Asked(t, s).ask \subseteq t.ask
  BY <1>1 DEF TaskType, SameOperation, Asked
<1>3. SameOperation(AskedAway(t, s), t) /\ AskedAway(t, s).ask \subseteq t.ask
  <2>1. {s} \in SUBSET AllSystems /\ {s} \in SUBSET Systems
    OBVIOUS
  <2> QED
    BY <1>1, <2>1 DEF TaskType, SameOperation, AskedAway
<1>4. SameOperation(FlagSet(t), t) /\ FlagSet(t).ask \subseteq t.ask
  BY <1>1 DEF TaskType, SameOperation, FlagSet
<1> QED
  BY <1>2, <1>3, <1>4

\* No call that starts or ends breaks the invariant.
LEMMA CallsPreserve ==
    ASSUME IInv, NEW c \in Callers, NEW s \in AllSystems
    PROVE  /\ Launch(c, s) => IInv'
           /\ Stores(c, s) \/ StoreFails(c, s) => IInv'
           /\ Answers(c, s) \/ SearchFails(c, s) => IInv'
           /\ Deletes(c, s) \/ DeleteFails(c, s) => IInv'
           /\ CheckAsks(c, s) \/ SetHealth(c, s) => IInv'
<1>1. /\ op[c] \in TaskType
      /\ op[c].kind # "check" =>
            op[c].ask \intersect op[c].call = {} /\ Pending(c) \intersect op[c].failed = {}
      /\ op[c].kind \in Reads => op[c].got \subseteq held \union removed
  BY DEF IInv, TypeOK, StagesFit, ReadsFit
<1>2. ASSUME NEW u, SameOperation(u, op[c]), op' = [op EXCEPT ![c] = u]
      PROVE  StepOf(c) /\ op'[c] = u
  BY <1>2, Replaces DEF IInv, SameOperation
<1>3. held \subseteq Ids /\ op[c].call \subseteq Systems /\ op \in [Callers -> TaskType]
  BY DEF IInv, TypeOK, TaskType
<1>4. ASSUME Fails(c, s), op[c].kind # "check"
      PROVE  /\ StepOf(c) /\ op'[c] = Failed(op[c], s)
             /\ s \in Pending(c) /\ Pending(c)' = Pending(c) \ {s} /\ s \notin op[c].failed
  <2>1. s \in op[c].call /\ op' = [op EXCEPT ![c] = Failed(op[c], s)]
    BY <1>3, <1>4 DEF Fails, Failed
  <2>2. StepOf(c) /\ op'[c] = Failed(op[c], s)
    BY <1>1, <1>2, <1>3, <2>1, FieldsChange
  <2> QED
    BY <1>1, <1>3, <1>4, <2>1, <2>2, FieldsChange DEF Pending
<1>5. ASSUME op' = [op EXCEPT ![c].call = @ \ {s}], s \in op[c].call, op[c].kind # "check"
      PROVE  /\ StepOf(c) /\ op'[c] = Done(op[c], s)
             /\ s \in Pending(c) /\ Pending(c)' = Pending(c) \ {s} /\ s \notin op[c].failed
  <2>1. op' = [op EXCEPT ![c] = Done(op[c], s)]
    BY <1>3, <1>5 DEF Done
  <2>2. StepOf(c) /\ op'[c] = Done(op[c], s)
    BY <1>1, <1>2, <1>3, <2>1, FieldsChange
  <2> QED
    BY <1>1, <1>3, <1>5, <2>1, <2>2, FieldsChange DEF Pending
<1>6. ASSUME Launch(c, s) PROVE IInv'
  <2>1. /\ s \in op[c].ask /\ op[c].kind # "check"
        /\ \/ s \in Systems /\ op' = [op EXCEPT ![c] = Called(op[c], s)]
           \/ op' = [op EXCEPT ![c] = Refused(op[c], s)]
        /\ UNCHANGED <<healthy, held, known, written, acked, refused, lossy, removed, gone>>
    BY <1>3, <1>6 DEF Launch, Available, Called, Refused
  <2>2. /\ StepOf(c)
        /\ \/ s \in Systems /\ op'[c] = Called(op[c], s)
           \/ op'[c] = Refused(op[c], s)
    BY <1>1, <1>2, <1>3, <2>1, FieldsChange
  <2>3. /\ Pending(c)' \union op'[c].failed = Pending(c) \union op[c].failed
        /\ Pending(c)' \subseteq Pending(c) /\ op[c].failed \subseteq op'[c].failed
        /\ op'[c].ask \intersect op'[c].call = {} /\ Pending(c)' \intersect op'[c].failed = {}
    BY <1>1, <1>3, <2>1, <2>2, FieldsChange DEF Pending
  <2>4. /\ op'[c].kind = op[c].kind /\ op'[c].id = op[c].id /\ op'[c].due = op[c].due
        /\ op'[c].got = op[c].got
    <3>1. SameOperation(op'[c], op[c]) /\ op'[c].got = op[c].got
      BY <1>1, <1>3, <2>2, FieldsChange
    <3> QED
      BY <3>1 DEF SameOperation
  <2>5. \A r \in Pending(c) : r \in Pending(c)' \union op'[c].failed
    BY <2>3
  <2>6. op'[c].failed \subseteq Pending(c) \union op[c].failed
    BY <2>3
  <2> QED
    BY <1>1, <2>1, <2>2, <2>3, <2>4, <2>5, <2>6, Advances
<1>7. ASSUME SameOperation(op'[c], op[c])
      PROVE  op'[c].kind = op[c].kind /\ op'[c].id = op[c].id /\ op'[c].due = op[c].due
  BY <1>7 DEF SameOperation
<1>8. ASSUME op'[c] \in {Failed(op[c], s), Done(op[c], s)}
      PROVE  /\ SameOperation(op'[c], op[c]) /\ op'[c].got = op[c].got
             /\ op'[c].ask = op[c].ask /\ op'[c].call = op[c].call \ {s}
             /\ op'[c] = Failed(op[c], s) => op'[c].failed = op[c].failed \union {s}
             /\ op'[c] = Done(op[c], s) => op'[c].failed = op[c].failed
  BY <1>1, <1>3, <1>8, FieldsChange
<1>9. ASSUME Fails(c, s), op[c].kind # "check",
             UNCHANGED <<healthy, held, known, written, acked, refused, lossy, removed, gone>>
      PROVE  IInv'
  <2>1. /\ op'[c].failed = op[c].failed \union {s}
        /\ op'[c].kind = op[c].kind /\ op'[c].id = op[c].id /\ op'[c].due = op[c].due
        /\ op'[c].got = op[c].got
        /\ op'[c].ask \intersect op'[c].call = {} /\ Pending(c)' \intersect op'[c].failed = {}
    BY <1>1, <1>4, <1>7, <1>8, <1>9
  <2>2. /\ \A r \in Pending(c) : r \in Pending(c)' \union op'[c].failed
        /\ op'[c].failed \subseteq Pending(c) \union op[c].failed
        /\ Pending(c)' \subseteq Pending(c) /\ op[c].failed \subseteq op'[c].failed
    BY <1>4, <1>9, <2>1
  <2> QED
    BY <1>1, <1>4, <1>9, <2>1, <2>2, Advances
<1>10. ASSUME Stores(c, s) PROVE IInv'
  <2>1. /\ Writing(c) /\ op[c].kind # "check" /\ s \in op[c].call
        /\ op' = [op EXCEPT ![c].call = @ \ {s}]
        /\ held' = held \union {<<s, Mem(c)>>}
        /\ lossy \subseteq lossy' /\ lossy' \subseteq Memories
        /\ UNCHANGED <<healthy, known, written, acked, refused, removed, gone>>
    BY <1>10 DEF Stores, Writing, IInv, TypeOK
  <2>2. /\ op'[c].failed = op[c].failed
        /\ op'[c].kind = op[c].kind /\ op'[c].id = op[c].id /\ op'[c].got = op[c].got
        /\ op'[c].ask \intersect op'[c].call = {} /\ Pending(c)' \intersect op'[c].failed = {}
    BY <1>1, <1>5, <1>7, <1>8, <2>1
  <2> QED
    BY <1>5, <2>1, <2>2, CopyAppears
<1>11. ASSUME StoreFails(c, s) PROVE IInv'
  <2>1. /\ Writing(c) /\ op[c].kind # "check" /\ Fails(c, s) /\ s \in op[c].call
        /\ UNCHANGED <<healthy, known, written, acked, refused, removed, gone>>
    BY <1>11 DEF StoreFails, Fails, Writing
  <2>2. CASE UNCHANGED <<held, lossy>>
    BY <1>9, <2>1, <2>2
  <2>3. CASE held' = held \union {<<s, Mem(c)>>} /\ lossy' = lossy \union {Mem(c)}
    <3>1. /\ op'[c].failed = op[c].failed \union {s}
          /\ op'[c].kind = op[c].kind /\ op'[c].id = op[c].id /\ op'[c].got = op[c].got
          /\ op'[c].ask \intersect op'[c].call = {} /\ Pending(c)' \intersect op'[c].failed = {}
      BY <1>1, <1>4, <1>7, <1>8, <2>1
    <3>2. lossy \subseteq lossy' /\ lossy' \subseteq Memories /\ Mem(c) \in lossy'
      BY <2>1, <2>3 DEF IInv, TypeOK, WritesFit
    <3> QED
      BY <1>4, <2>1, <2>3, <3>1, <3>2, CopyAppears
  <2> QED
    BY <1>11, <2>2, <2>3 DEF StoreFails
<1>12. ASSUME Answers(c, s) PROVE IInv'
  <2>1. /\ op[c].kind \in Reads /\ op[c].kind # "check" /\ s \in op[c].call
        /\ op' = [op EXCEPT ![c] = Answered(op[c], s)]
        /\ UNCHANGED <<healthy, held, known, written, acked, refused, lossy, removed, gone>>
    BY <1>3, <1>12 DEF Answers, Answered, Reads
  <2>2. StepOf(c) /\ op'[c] = Answered(op[c], s)
    BY <1>1, <1>2, <1>3, <2>1, FieldsChange
  <2>3. /\ SameOperation(op'[c], op[c])
        /\ op'[c].ask = op[c].ask /\ op'[c].call = op[c].call \ {s}
        /\ op'[c].failed = op[c].failed
        /\ op'[c].got = op[c].got \union {id \in held : id[1] = s}
    BY <1>1, <1>3, <2>2, FieldsChange
  <2>4. op'[c].ask \intersect op'[c].call = {} /\ Pending(c)' \intersect op'[c].failed = {}
        /\ Pending(c)' = Pending(c) \ {s}
    BY <1>1, <2>1, <2>3 DEF Pending
  <2>5. \A r \in Pending(c) \ (Pending(c)' \union op'[c].failed) :
           \A m \in Memories : <<r, m>> \in held => <<r, m>> \in op'[c].got
    BY <2>3, <2>4
  <2> QED
    BY <1>1, <1>7, <2>1, <2>2, <2>3, <2>4, <2>5, Advances
<1>13. ASSUME SearchFails(c, s) PROVE IInv'
  BY <1>9, <1>13 DEF SearchFails, Reads
<1>14. ASSUME Deletes(c, s) \/ DeleteFails(c, s) PROVE IInv'
  <2>1. /\ op[c].kind = "delete" /\ op[c].kind # "check" /\ s \in op[c].call
        /\ op' = [op EXCEPT ![c].call = @ \ {s}] \/ Fails(c, s)
        /\ UNCHANGED <<healthy, known, written, acked, refused, lossy, gone>>
    BY <1>14 DEF Deletes, DeleteFails, Fails
  <2>2. /\ StepOf(c) /\ op'[c] \in {Failed(op[c], s), Done(op[c], s)}
        /\ s \in Pending(c) /\ Pending(c)' = Pending(c) \ {s} /\ s \notin op[c].failed
    BY <1>4, <1>5, <2>1
  <2>3. /\ op'[c].failed \subseteq op[c].failed \union Pending(c)
        /\ op[c].failed \subseteq op'[c].failed
        /\ op'[c].kind = op[c].kind /\ op'[c].id = op[c].id /\ op'[c].got = op[c].got
        /\ op'[c].due = op[c].due
        /\ op'[c].ask \intersect op'[c].call = {} /\ Pending(c)' \intersect op'[c].failed = {}
    BY <1>1, <1>7, <1>8, <2>1, <2>2
  <2>4. CASE s = op[c].id[1] /\ held' = held \ {op[c].id} /\ removed' = removed \union {op[c].id}
    BY <2>1, <2>2, <2>3, <2>4, CopyGoes
  <2>5. CASE UNCHANGED <<held, removed>> /\ (op'[c] = Failed(op[c], s) \/ s # op[c].id[1])
    <3>1. op'[c] = Failed(op[c], s) => op'[c].failed = op[c].failed \union {s}
      BY <1>8, <2>2
    <3>2. \A r \in Pending(c) \ (Pending(c)' \union op'[c].failed) : r # op[c].id[1]
      BY <2>2, <2>5, <3>1
    <3> QED
      BY <1>1, <2>1, <2>2, <2>3, <2>5, <3>2, Advances DEF Reads
  <2>6. Deletes(c, s) => Removes(c, s)
    BY DEF Deletes
  <2>7. DeleteFails(c, s) => op'[c] = Failed(op[c], s) /\ (Removes(c, s) \/ UNCHANGED <<held, removed>>)
    BY <1>4, <2>1 DEF DeleteFails
  <2> QED
    BY <1>14, <2>4, <2>5, <2>6, <2>7 DEF Removes
<1>15. ASSUME CheckAsks(c, s) \/ SetHealth(c, s) PROVE IInv'
  <2>1. /\ op[c].kind = "check" /\ healthy' \subseteq AllSystems
        /\ UNCHANGED <<held, known, written, acked, refused, lossy, removed, gone>>
    BY <1>15 DEF CheckAsks, SetHealth, IInv, TypeOK
  <2>2. op[c].ask \subseteq Systems
    BY <2>1 DEF IInv, StagesFit
  <2>3. /\ s \in Systems
        /\ \/ op' = [op EXCEPT ![c] = Asked(op[c], s)]
           \/ op' = [op EXCEPT ![c] = AskedAway(op[c], s)]
           \/ op' = [op EXCEPT ![c] = FlagSet(op[c])]
    <3>1. CASE CheckAsks(c, s)
      BY <1>3, <2>2, <3>1 DEF CheckAsks, Asked, AskedAway
    <3>2. CASE SetHealth(c, s)
      BY <1>3, <3>2 DEF SetHealth, FlagSet
    <3> QED
      BY <1>15, <3>1, <3>2
  <2>4. SameOperation(op'[c], op[c]) /\ op'[c].ask \subseteq op[c].ask /\ StepOf(c)
    BY <1>1, <1>2, <2>3, CheckFields
  <2> QED
    BY <1>7, <2>1, <2>4, ChecksMove
<1> QED
  BY <1>6, <1>9, <1>10, <1>11, <1>12, <1>13, <1>14, <1>15

-----------------------------------------------------------------------------
\* Every step preserves the invariant.
LEMMA StepPreserves == IInv /\ [Next]_vars => IInv'
<1> SUFFICES ASSUME IInv, [Next]_vars PROVE IInv'
  OBVIOUS
<1>1. CASE UNCHANGED vars
  <2>1. /\ UNCHANGED <<healthy, op, held, known, written, acked, refused, lossy, removed, gone>>
        /\ \A m : Selected(m)' = Selected(m)
        /\ \A c : Mem(c)' = Mem(c) /\ Writing(c)' = Writing(c) /\ Pending(c)' = Pending(c)
    BY <1>1 DEF vars, Selected, Mem, Writing, Pending
  <2>2. TypeOK' /\ CopiesWereWritten' /\ AnswersWereWritten' /\ RefusedIsNotHeld'
    BY <2>1 DEF IInv, TypeOK, CopiesWereWritten, AnswersWereWritten, RefusedIsNotHeld
  <2>3. WritesFit' /\ StoresCover' /\ ReadsFit' /\ DeletesFit' /\ StagesFit'
    BY <2>1 DEF IInv, WritesFit, StoresCover, ReadsFit, DeletesFit, StagesFit
  <2> QED
    BY <2>2, <2>3 DEF IInv
<1>2. CASE Next
  <2>1. ASSUME NEW c \in Callers, NEW s \in RequestSources, NEW a \in Agents,
               NEW t \in SUBSET MemoryTypes
        PROVE  SelectSystemsForRead(s, a, t) \in SUBSET AllSystems
    BY DEF SelectSystemsForRead, AllSystems
  <2>2. ASSUME NEW c \in Callers
        PROVE  /\ \A systems \in SUBSET AllSystems : Retrieve(c, systems) => IInv'
               /\ QueryKnowledgeGraph(c) \/ GetHistory(c) \/ RetrieveForAgent(c) => IInv'
    <3>1. {"cognee"} \in SUBSET AllSystems /\ {"mem0", "cognee"} \in SUBSET AllSystems
          /\ {"letta", "mem0"} \in SUBSET AllSystems
          /\ "retrieve" \in Reads /\ "history" \in Reads /\ "recall" \in Reads
      BY DEF AllSystems, Reads
    <3> QED
      BY <3>1, BeginsAndReturns DEF Retrieve, QueryKnowledgeGraph, GetHistory, RetrieveForAgent
  <2> QED
    BY <1>2, <2>1, <2>2, BeginsAndReturns, CallsPreserve DEF Next
<1> QED
  BY <1>1, <1>2

\* IInv holds in every reachable state.
THEOREM Invariance == Spec => []IInv
BY InitEstablishes, StepPreserves, PTL DEF Spec

\* The engine's state keeps its type.
THEOREM TypeCorrect == Spec => []TypeOK
<1>1. IInv => TypeOK
  BY DEF IInv
<1> QED
  BY <1>1, Invariance, PTL

\* A memory that Store refused is held by no system, unless one failed to say that
\* it had stored it (engine.go Store).
THEOREM RefusedNotHeld == Spec => []RefusedIsNotHeld
<1>1. IInv => RefusedIsNotHeld
  BY DEF IInv
<1> QED
  BY <1>1, Invariance, PTL

\* A read that no system failed, of all systems a memory went to, finds a copy of it
\* (engine.go Retrieve, GetHistory, RetrieveForAgent).
THEOREM ReadsComplete == Spec => []AnswerIsComplete
<1>1. IInv => AnswerIsComplete
  BY DEF IInv, ReadsFit, AnswerIsComplete, Joined, Pending
<1> QED
  BY <1>1, Invariance, PTL

\* AllSystems is small, whatever the configuration.
LEMMA AtMostThree ==
    /\ IsFiniteSet(AllSystems)
    /\ Cardinality({"cognee", "mem0"}) = 2
<1>1. IsFiniteSet({"cognee"}) /\ Cardinality({"cognee"}) = 1
  BY FS_Singleton
<1>2. IsFiniteSet({"cognee", "mem0"}) /\ Cardinality({"cognee", "mem0"}) = 2
  <2>1. {"cognee", "mem0"} = {"cognee"} \union {"mem0"} /\ "mem0" \notin {"cognee"}
    OBVIOUS
  <2>2. /\ IsFiniteSet({"cognee"} \union {"mem0"})
        /\ Cardinality({"cognee"} \union {"mem0"}) = Cardinality({"cognee"}) + 1
    BY <1>1, <2>1, FS_AddElement
  <2> QED
    BY <1>1, <2>1, <2>2
<1>3. AllSystems = {"cognee", "mem0"} \union {"letta"}
  BY DEF AllSystems
<1> QED
  BY <1>2, <1>3, FS_AddElement

\* The error channel of a Store or a Delete has room for every goroutine that is
\* still to send (engine.go errChan of Store and Delete).
THEOREM ErrorsFit == Spec => []EveryErrorFits
<1>1. ASSUME IInv, NEW c \in Callers, ~Joined(c) PROVE ErrorFits(c)
  <2>1. PICK s : s \in Pending(c)
    BY <1>1 DEF Joined, Pending
  <2>2. CASE op[c].kind = "store"
    <3>1. op[c].failed \subseteq Selected(Mem(c)) /\ s \in Selected(Mem(c)) \ op[c].failed
      BY <1>1, <2>1, <2>2 DEF IInv, WritesFit, StagesFit, Writing
    <3>2. IsFiniteSet(Selected(Mem(c)))
      BY AtMostThree, FS_Subset DEF Selected
    <3>3. Cardinality(op[c].failed) < Cardinality(Selected(Mem(c)))
      <4>1. op[c].failed # Selected(Mem(c))
        BY <3>1
      <4>2. /\ Cardinality(op[c].failed) \in Nat /\ Cardinality(Selected(Mem(c))) \in Nat
            /\ Cardinality(op[c].failed) <= Cardinality(Selected(Mem(c)))
            /\ Cardinality(op[c].failed) # Cardinality(Selected(Mem(c)))
        BY <3>1, <3>2, <4>1, FS_Subset, FS_CardinalityType
      <4> QED
        BY <4>2
    <3> QED
      BY <2>2, <3>3 DEF ErrorFits
  <2>3. CASE op[c].kind = "delete"
    <3>1. op[c].failed \subseteq {"cognee", "mem0"}
      BY <1>1, <2>3 DEF IInv, DeletesFit
    <3>2. Cardinality(op[c].failed) \in Nat /\ Cardinality(op[c].failed) <= 2
      <4>1. IsFiniteSet({"cognee", "mem0"})
        BY AtMostThree, FS_Subset DEF AllSystems
      <4> QED
        BY <3>1, <4>1, AtMostThree, FS_Subset, FS_CardinalityType
    <3> QED
      BY <2>3, <3>2 DEF ErrorFits
  <2>4. CASE op[c].kind \notin {"store", "delete"}
    BY <2>4 DEF ErrorFits
  <2> QED
    BY <2>2, <2>3, <2>4
<1>2. IInv => EveryErrorFits
  BY <1>1 DEF EveryErrorFits
<1> QED
  BY <1>2, Invariance, PTL

-----------------------------------------------------------------------------
(* The engine implements MemoryStore                                         *)

Calls == [c \in Callers |-> CallOf(op[c])]
Gone  == {id \in gone : id[1] # "letta"}

\* The call that a task of each kind carries out.
LEMMA CallsOfKinds ==
    ASSUME NEW t
    PROVE  /\ t.kind \in {"store", "attach"} => CallOf(t) = Promise!Call("add", t.id[2], Promise!NoId)
           /\ t.kind = "delete" => CallOf(t) = Promise!Call("remove", t.id[2], t.id)
           /\ t.kind \notin {"store", "attach", "delete"} => CallOf(t) = Promise!NoCall
BY DEF CallOf, Promise!Call, Promise!NoCall, Promise!NoId

\* A call's kind, memory and id; one that is under way is not NoCall.
LEMMA CallFields ==
    ASSUME NEW kind, NEW m, NEW id
    PROVE  /\ Promise!Call(kind, m, id).kind = kind
           /\ Promise!Call(kind, m, id).mem = m
           /\ Promise!Call(kind, m, id).id = id
           /\ kind # "none" => Promise!Call(kind, m, id) # Promise!NoCall
BY DEF Promise!Call, Promise!NoCall

\* Nothing of the MemoryStore changes.
LEMMA Stutters ==
    ASSUME \A d \in Callers : CallOf(op'[d]) = CallOf(op[d]),
           UNCHANGED <<held, removed, acked, gone>>
    PROVE  UNCHANGED Promise!vars
BY DEF Promise!vars

\* A write begins, or a Delete.
LEMMA Begins ==
    ASSUME NEW c \in Callers, CallOf(op[c]) = Promise!NoCall,
           CallOf(op'[c]) \in Promise!Adds \union Promise!Changes,
           \A d \in Callers \ {c} : op'[d] = op[d],
           UNCHANGED <<held, removed, acked, gone>>
    PROVE  Promise!Begin(c)
BY DEF Promise!Begin

\* A call under way has an effect, and goes on.
LEMMA Works ==
    ASSUME NEW c \in Callers, CallOf(op[c]) # Promise!NoCall,
           \A d \in Callers : CallOf(op'[d]) = CallOf(op[d]),
           UNCHANGED <<acked, gone>>,
           \/ /\ CallOf(op[c]).kind = "add"
              /\ \E s \in AllSystems :
                    /\ <<s, CallOf(op[c]).mem>> \in Ids \ removed
                    /\ held' = held \union {<<s, CallOf(op[c]).mem>>}
              /\ removed' = removed
           \/ /\ CallOf(op[c]).kind = "remove"
              /\ held' = held \ {CallOf(op[c]).id}
              /\ removed' = removed \union {CallOf(op[c]).id}
    PROVE  Promise!Proceed(c)
<1>1. Promise!Outcome(c)
  BY DEF Promise!Outcome
<1>2. Promise!Effect(c)
  <2>1. CASE CallOf(op[c]).kind = "add"
    BY <2>1 DEF Promise!Effect, Promise!Creates, Promise!Copies, Ids
  <2>2. CASE CallOf(op[c]).kind = "remove"
    BY <2>2 DEF Promise!Effect, Promise!Removes
  <2> QED
    BY <2>1, <2>2
<1> QED
  BY <1>1, <1>2 DEF Promise!Proceed

\* A call ends, with an error or with what it promised.
LEMMA Ends ==
    ASSUME NEW c \in Callers, CallOf(op[c]) # Promise!NoCall, CallOf(op'[c]) = Promise!NoCall,
           \A d \in Callers \ {c} : op'[d] = op[d],
           UNCHANGED <<held, removed>>,
           \/ UNCHANGED <<acked, Gone>>
           \/ /\ CallOf(op[c]).kind = "add"
              /\ \E s \in AllSystems : <<s, CallOf(op[c]).mem>> \in held \union removed
              /\ acked' = acked \union {CallOf(op[c]).mem} /\ Gone' = Gone
           \/ /\ CallOf(op[c]).kind = "remove" /\ CallOf(op[c]).id \in removed
              /\ Gone' = Gone \union {CallOf(op[c]).id} /\ acked' = acked
    PROVE  Promise!Proceed(c)
<1>1. Promise!Effect(c)
  BY DEF Promise!Effect
<1>2. Promise!Outcome(c)
  BY DEF Promise!Outcome, Promise!WasStored, Gone
<1> QED
  BY <1>1, <1>2 DEF Promise!Proceed

\* Every step of the engine is one of the MemoryStore, or changes nothing there.
LEMMA StepRefines == IInv /\ [Next]_vars => [Promise!Next]_(Promise!vars)
<1> SUFFICES ASSUME IInv, [Next]_vars
             PROVE  Promise!Next \/ UNCHANGED Promise!vars
  OBVIOUS
<1>1. op \in [Callers -> TaskType] /\ \A d \in Callers : op[d] \in TaskType
  BY DEF IInv, TypeOK
<1>2. /\ Idle.kind = "idle" /\ CallOf(Idle) = Promise!NoCall
      /\ \A kind, id, ask, due : Task(kind, id, ask, due).kind = kind /\ Task(kind, id, ask, due).id = id
      /\ \A kind \in Reads \union {"check", "idle"} : kind \notin {"store", "attach", "delete"}
  BY CallsOfKinds DEF Idle, Task, Reads
<1>3. ASSUME NEW c \in Callers, NEW t, op' = [op EXCEPT ![c] = t]
      PROVE  op'[c] = t /\ \A d \in Callers \ {c} : op'[d] = op[d]
  BY <1>1, <1>3
<1>4. ASSUME NEW c \in Callers, \A d \in Callers \ {c} : op'[d] = op[d],
             op'[c].kind = op[c].kind, op'[c].id = op[c].id
      PROVE  \A d \in Callers : CallOf(op'[d]) = CallOf(op[d])
  BY <1>4, CallsOfKinds
<1>5. ASSUME NEW c \in Callers, NEW m \in Memories, NEW kind \in {"store", "attach"}, NEW ask,
             Begin(c, Task(kind, <<"none", m>>, ask, {})),
             UNCHANGED <<held, removed, acked, gone>>
      PROVE  Promise!Next
  <2>1. /\ CallOf(op[c]) = Promise!NoCall
        /\ CallOf(op'[c]) = Promise!Call("add", m, Promise!NoId)
        /\ \A d \in Callers \ {c} : op'[d] = op[d]
    <3> DEFINE t == Task(kind, <<"none", m>>, ask, {})
    <3>1. op[c].kind = "idle" /\ op' = [op EXCEPT ![c] = t]
      BY <1>5 DEF Begin, Free
    <3>2. t.kind = kind /\ t.id = <<"none", m>>
      BY <1>2
    <3> HIDE DEF t
    <3>3. CallOf(t) = Promise!Call("add", m, Promise!NoId)
      BY <3>2, CallsOfKinds
    <3>4. op'[c] = t /\ \A d \in Callers \ {c} : op'[d] = op[d]
      BY <1>3, <3>1
    <3> QED
      BY <1>2, <3>1, <3>3, <3>4, CallsOfKinds
  <2>2. CallOf(op'[c]) \in Promise!Adds
    BY <2>1 DEF Promise!Adds
  <2> QED
    BY <1>5, <2>1, <2>2, Begins DEF Promise!Next
<1>6. ASSUME NEW c \in Callers, NEW m \in Memories,
             \/ \E t \in MemoryTypes, a \in Agents : Store(c, m, t, a)
             \/ StoreWithAgent(c, m) \/ CreateKnowledgeGraph(c, m)
      PROVE  Promise!Next
  BY <1>5, <1>6 DEF Store, StoreWithAgent, CreateKnowledgeGraph
<1>7. ASSUME NEW c \in Callers, NEW id \in AllSystems \X Memories, Delete(c, id)
      PROVE  Promise!Next
  <2>1. /\ CallOf(op[c]) = Promise!NoCall
        /\ CallOf(op'[c]) = Promise!Call("remove", id[2], id)
        /\ \A d \in Callers \ {c} : op'[d] = op[d]
    <3> DEFINE t == Task("delete", id, {"cognee", "mem0"} \intersect Systems, {})
    <3>1. op[c].kind = "idle" /\ op' = [op EXCEPT ![c] = t]
      BY <1>7 DEF Delete, Begin, Free
    <3>2. t.kind = "delete" /\ t.id = id
      BY <1>2
    <3> HIDE DEF t
    <3>3. CallOf(t) = Promise!Call("remove", id[2], id)
      BY <3>2, CallsOfKinds
    <3>4. op'[c] = t /\ \A d \in Callers \ {c} : op'[d] = op[d]
      BY <1>3, <3>1
    <3> QED
      BY <1>2, <3>1, <3>3, <3>4, CallsOfKinds
  <2>2. CallOf(op'[c]) \in Promise!Changes
    BY <2>1 DEF Promise!Changes, Promise!Copies
  <2>3. UNCHANGED <<held, removed, acked, gone>>
    BY <1>7 DEF Delete
  <2> QED
    BY <2>1, <2>2, <2>3, Begins DEF Promise!Next
<1>8. ASSUME NEW c \in Callers, NEW kind \in Reads \union {"check"}, NEW id, NEW ask, NEW due,
             Begin(c, Task(kind, id, ask, due)),
             UNCHANGED <<held, removed, acked, gone>>
      PROVE  UNCHANGED Promise!vars
  <2>1. \A d \in Callers : CallOf(op'[d]) = CallOf(op[d])
    BY <1>2, <1>3, <1>8, CallsOfKinds DEF Begin, Free
  <2> QED
    BY <1>8, <2>1, Stutters
<1>9. ASSUME NEW c \in Callers, op[c].kind \in Reads \union {"check"}, op' = [op EXCEPT ![c] = Idle],
             UNCHANGED <<held, removed, acked, gone>>
      PROVE  UNCHANGED Promise!vars
  <2>1. \A d \in Callers : CallOf(op'[d]) = CallOf(op[d])
    BY <1>2, <1>3, <1>9, CallsOfKinds
  <2> QED
    BY <1>9, <2>1, Stutters
<1>10. ASSUME NEW c \in Callers, NEW s \in AllSystems,
              \/ Launch(c, s) \/ Answers(c, s) \/ SearchFails(c, s)
              \/ CheckAsks(c, s) \/ SetHealth(c, s)
       PROVE  UNCHANGED Promise!vars
  <2>1. /\ \A d \in Callers \ {c} : op'[d] = op[d]
        /\ op'[c].kind = op[c].kind /\ op'[c].id = op[c].id
        /\ UNCHANGED <<held, removed, acked, gone>>
    BY <1>1, <1>10 DEF Launch, Answers, SearchFails, Fails, CheckAsks, SetHealth, TaskType
  <2> QED
    BY <1>4, <2>1, Stutters
<1>11. ASSUME NEW c \in Callers, NEW s \in AllSystems, s \in op[c].call,
              \/ op' = [op EXCEPT ![c].call = @ \ {s}]
              \/ op' = [op EXCEPT ![c].call = @ \ {s}, ![c].failed = @ \union {s}]
       PROVE  \A d \in Callers : CallOf(op'[d]) = CallOf(op[d])
  <2>1. /\ \A d \in Callers \ {c} : op'[d] = op[d]
        /\ op'[c].kind = op[c].kind /\ op'[c].id = op[c].id
    BY <1>1, <1>11 DEF TaskType
  <2> QED
    BY <1>4, <2>1
<1>12. ASSUME NEW c \in Callers, NEW s \in AllSystems, Stores(c, s) \/ StoreFails(c, s)
       PROVE  Promise!Next \/ UNCHANGED Promise!vars
  <2>1. /\ Writing(c) /\ s \in op[c].call /\ UNCHANGED <<acked, gone, removed>>
        /\ \A d \in Callers : CallOf(op'[d]) = CallOf(op[d])
        /\ held' = held \union {<<s, Mem(c)>>} \/ held' = held
    BY <1>11, <1>12 DEF Stores, StoreFails, Fails, Writing
  <2>2. CASE held' = held
    BY <2>1, <2>2, Stutters
  <2>3. CASE held' = held \union {<<s, Mem(c)>>}
    <3>1. CallOf(op[c]) = Promise!Call("add", Mem(c), Promise!NoId)
      BY <2>1, CallsOfKinds DEF Writing, Mem
    <3>2. <<s, Mem(c)>> \in Ids \ removed
      BY <2>1 DEF IInv, WritesFit, Pending, Ids
    <3> QED
      BY <2>1, <2>3, <3>1, <3>2, CallFields, Works DEF Promise!Next
  <2> QED
    BY <2>1, <2>2, <2>3
<1>13. ASSUME NEW c \in Callers, NEW s \in AllSystems, Deletes(c, s) \/ DeleteFails(c, s)
       PROVE  Promise!Next \/ UNCHANGED Promise!vars
  <2>1. /\ op[c].kind = "delete" /\ UNCHANGED <<acked, gone>>
        /\ \A d \in Callers : CallOf(op'[d]) = CallOf(op[d])
        /\ \/ held' = held \ {op[c].id} /\ removed' = removed \union {op[c].id}
           \/ UNCHANGED <<held, removed>>
    BY <1>11, <1>13 DEF Deletes, DeleteFails, Fails, Removes
  <2>2. CASE UNCHANGED <<held, removed>>
    BY <2>1, <2>2, Stutters
  <2>3. CASE held' = held \ {op[c].id} /\ removed' = removed \union {op[c].id}
    <3>1. CallOf(op[c]) = Promise!Call("remove", op[c].id[2], op[c].id)
      BY <2>1, CallsOfKinds
    <3> QED
      BY <2>1, <2>3, <3>1, CallFields, Works DEF Promise!Next
  <2> QED
    BY <2>1, <2>2, <2>3
<1>14. ASSUME NEW c \in Callers, StoreReturns(c) \/ StoreWithAgentReturns(c)
       PROVE  Promise!Next
  <2>1. /\ Writing(c) /\ Joined(c) /\ op' = [op EXCEPT ![c] = Idle]
        /\ UNCHANGED <<held, removed, gone>>
        /\ \/ acked' = acked
           \/ /\ op[c].kind = "store" /\ op[c].failed # Selected(Mem(c))
              /\ acked' = acked \union {Mem(c)}
    BY <1>14 DEF StoreReturns, StoreWithAgentReturns, Writing
  <2>2. CallOf(op[c]) = Promise!Call("add", Mem(c), Promise!NoId)
    BY <2>1, CallsOfKinds DEF Writing, Mem
  <2>3. acked' = acked \/ \E s \in AllSystems : <<s, Mem(c)>> \in held \union removed
    BY <2>1 DEF IInv, StoresCover, WritesFit, Joined, Pending, Writing, Selected
  <2>4. Gone' = Gone
    BY <2>1 DEF Gone
  <2>5. CallOf(op'[c]) = Promise!NoCall /\ \A d \in Callers \ {c} : op'[d] = op[d]
    BY <1>2, <1>3, <2>1
  <2>6. CallOf(op[c]).kind = "add" /\ CallOf(op[c]).mem = Mem(c) /\ CallOf(op[c]) # Promise!NoCall
    BY <2>2, CallFields
  <2>7. Promise!Proceed(c)
    BY <2>1, <2>3, <2>4, <2>5, <2>6, Ends
  <2> QED
    BY <2>7 DEF Promise!Next
<1>15. ASSUME NEW c \in Callers, DeleteReturns(c)
       PROVE  Promise!Next
  <2>1. /\ op[c].kind = "delete" /\ Joined(c) /\ op' = [op EXCEPT ![c] = Idle]
        /\ UNCHANGED <<held, removed, acked>>
        /\ \/ gone' = gone
           \/ op[c].failed = {} /\ gone' = gone \union {op[c].id}
    BY <1>15 DEF DeleteReturns
  <2>2. CallOf(op[c]) = Promise!Call("remove", op[c].id[2], op[c].id)
    BY <2>1, CallsOfKinds
  <2>3. Gone' = Gone \/ (op[c].id \in removed /\ Gone' = Gone \union {op[c].id})
    BY <2>1 DEF IInv, DeletesFit, Joined, Pending, Gone
  <2>4. CallOf(op'[c]) = Promise!NoCall /\ \A d \in Callers \ {c} : op'[d] = op[d]
    BY <1>2, <1>3, <2>1
  <2>5. CallOf(op[c]).kind = "remove" /\ CallOf(op[c]).id = op[c].id /\ CallOf(op[c]) # Promise!NoCall
    BY <2>2, CallFields
  <2>6. Promise!Proceed(c)
    BY <2>1, <2>3, <2>4, <2>5, Ends
  <2> QED
    BY <2>6 DEF Promise!Next
<1>16. CASE UNCHANGED vars
  BY <1>16, Stutters DEF vars
<1>17. CASE Next
  <2>1. ASSUME NEW c \in Callers, NEW systems,
               \/ Retrieve(c, systems) \/ QueryKnowledgeGraph(c) \/ GetHistory(c)
               \/ RetrieveForAgent(c) \/ HealthCheck(c)
        PROVE  UNCHANGED Promise!vars
    BY <1>8, <2>1 DEF Retrieve, QueryKnowledgeGraph, GetHistory, RetrieveForAgent, HealthCheck, Read, Reads
  <2>2. ASSUME NEW c \in Callers, ReadReturns(c) \/ HealthCheckReturns(c)
        PROVE  UNCHANGED Promise!vars
    BY <1>9, <2>2 DEF ReadReturns, HealthCheckReturns
  <2> QED
    BY <1>6, <1>7, <1>10, <1>12, <1>13, <1>14, <1>15, <1>17, <2>1, <2>2 DEF Next
<1> QED
  BY <1>16, <1>17

\* The engine implements MemoryStore: only a call under way changes what the systems
\* hold, and no Store or Delete returns nil that has not done its work.
THEOREM PromiseKept == Spec => KeepsPromise
<1>1. Init => Promise!Init
  BY CallsOfKinds DEF Init, Promise!Init, Idle, Task
<1> QED
  BY <1>1, InitEstablishes, StepPreserves, StepRefines, PTL DEF Spec, KeepsPromise, Promise!Spec

-----------------------------------------------------------------------------
(* What an application can rely on, of any MemoryStore and so of the engine  *)

\* No copy is both there and removed; what a Delete acknowledged is removed;
\* what a Store acknowledged was stored.
PromiseHolds ==
    /\ held \intersect removed = {}
    /\ Gone \subseteq removed
    /\ \A m \in acked : \E x \in held \union removed : x[2] = m

\* MemoryStore promises it, whatever implements it.
THEOREM PromiseMeans == Promise!Spec => []PromiseHolds
<1>1. Promise!Init => PromiseHolds
  BY DEF Promise!Init, PromiseHolds, Gone
<1>2. PromiseHolds /\ [Promise!Next]_(Promise!vars) => PromiseHolds'
  <2> SUFFICES ASSUME PromiseHolds, [Promise!Next]_(Promise!vars)
               PROVE  PromiseHolds'
    OBVIOUS
  <2>1. CASE UNCHANGED Promise!vars
    BY <2>1 DEF Promise!vars, PromiseHolds, Gone
  <2>2. ASSUME NEW c \in Callers, Promise!Begin(c)
        PROVE  PromiseHolds'
    BY <2>2 DEF Promise!Begin, PromiseHolds, Gone
  <2>3. ASSUME NEW c \in Callers, Promise!Proceed(c)
        PROVE  PromiseHolds'
    <3>1. /\ held' \intersect removed' = {}
          /\ removed \subseteq removed'
          /\ held \union removed \subseteq held' \union removed'
      BY <2>3
      DEF Promise!Proceed, Promise!Effect, Promise!Creates, Promise!Removes, PromiseHolds
    <3>2. Gone' \subseteq removed'
      BY <2>3, <3>1 DEF Promise!Proceed, Promise!Outcome, PromiseHolds, Gone
    <3>3. \A m \in acked' : \E x \in held' \union removed' : x[2] = m
      BY <2>3, <3>1
      DEF Promise!Proceed, Promise!Outcome, Promise!WasStored, PromiseHolds
    <3> QED
      BY <3>1, <3>2, <3>3 DEF PromiseHolds
  <2> QED
    BY <2>1, <2>2, <2>3 DEF Promise!Next
<1> QED
  BY <1>1, <1>2, PTL DEF Promise!Spec

\* No system ever holds again what a Delete has acknowledged, Letta's ids apart,
\* and nothing is acknowledged that was not stored.
THEOREM PromiseIsUseful == Spec => []PromiseHolds
  BY PromiseKept, PromiseMeans, PTL DEF KeepsPromise

-----------------------------------------------------------------------------
(* Every operation comes to its end                                          *)

\* How many steps the operation of a task can still take.
Work(task) ==
    IF task.kind = "idle" THEN 0
    ELSE 2 * Cardinality(task.ask) + Cardinality(task.call) + 1

\* Whatever the others do, an operation has only finitely many steps to take:
\* each of its own leaves fewer of them, and no other caller's adds one.
StepsRunOut ==
    [][\A c \in Callers : ~Free(c) =>
          op'[c] = op[c] \/ Work(op'[c]) < Work(op[c])]_vars

\* An operation can always go on: it returns, or a goroutine of it calls its
\* system, or can send the error of its call; no turn is waited for in vain.
SomebodyGoesOn ==
    \A c \in Callers : ~Free(c) =>
       \/ Joined(c)
       \/ \E s \in AllSystems :
             \/ s \in op[c].ask /\ InTurn(c, s) /\ ErrorFits(c)
             \/ s \in op[c].call /\ ErrorFits(c)

\* Work counts down when a system is crossed off, and is no less than one before
\* the operation returns.
LEMMA WorkFacts ==
    ASSUME NEW ask \in SUBSET AllSystems, NEW call \in SUBSET AllSystems, NEW s
    PROVE  /\ Cardinality(ask) \in Nat /\ Cardinality(call) \in Nat
           /\ s \in ask => Cardinality(ask \ {s}) = Cardinality(ask) - 1
           /\ s \in call => Cardinality(call \ {s}) = Cardinality(call) - 1
           /\ Cardinality(call \union {s}) <= Cardinality(call) + 1
           /\ Cardinality({s}) = 1 /\ Cardinality({}) = 0
           /\ call # {} => Cardinality(call) > 0
<1>1. IsFiniteSet(ask) /\ IsFiniteSet(call)
  BY AtMostThree, FS_Subset
<1>2. Cardinality(ask) \in Nat /\ Cardinality(call) \in Nat
  BY <1>1, FS_CardinalityType
<1>3. s \in ask => Cardinality(ask \ {s}) = Cardinality(ask) - 1
  BY <1>1, FS_RemoveElement
<1>4. s \in call => Cardinality(call \ {s}) = Cardinality(call) - 1
  BY <1>1, FS_RemoveElement
<1>5. Cardinality(call \union {s}) <= Cardinality(call) + 1
  <2>1. CASE s \in call
    <3>1. call \union {s} = call
      BY <2>1
    <3>2. Cardinality(call \union {s}) = Cardinality(call)
      BY <3>1
    <3> QED
      BY <1>2, <3>2
  <2>2. CASE s \notin call
    <3>1. Cardinality(call \union {s}) = Cardinality(call) + 1
      BY <1>1, <2>2, FS_AddElement
    <3> QED
      BY <1>2, <3>1
  <2> QED
    BY <2>1, <2>2
<1>6. Cardinality({s}) = 1 /\ Cardinality({}) = 0
  BY FS_Singleton, FS_EmptySet
<1>7. call # {} => Cardinality(call) > 0
  BY <1>1, <1>2, FS_EmptySet
<1> QED
  BY <1>2, <1>3, <1>4, <1>5, <1>6, <1>7

\* Work is a number, and positive until the operation has returned.
LEMMA WorkIsNat ==
    ASSUME NEW t \in TaskType
    PROVE  /\ Work(t) \in Nat
           /\ Work(Idle) = 0
           /\ t.kind # "idle" =>
                 /\ Work(t) > 0
                 /\ Work(t) = 2 * Cardinality(t.ask) + Cardinality(t.call) + 1
<1>1. t.ask \in SUBSET AllSystems /\ t.call \in SUBSET AllSystems
  BY DEF TaskType
<1>2. Cardinality(t.ask) \in Nat /\ Cardinality(t.call) \in Nat
  BY <1>1, WorkFacts
<1> QED
  BY <1>2 DEF Work, Idle, Task

\* Each kind of step leaves fewer steps.
LEMMA EachStepCounts ==
    ASSUME NEW t \in TaskType, NEW u \in TaskType, NEW s, t.kind # "idle",
           u.kind = t.kind,
           \/ s \in t.ask /\ u.ask = t.ask \ {s} /\ u.call \subseteq t.call \union {s}
           \/ s \in t.call /\ u.ask = t.ask /\ u.call \subseteq t.call \ {s}
    PROVE  Work(u) < Work(t)
<1>1. /\ t.ask \in SUBSET AllSystems /\ t.call \in SUBSET AllSystems
      /\ u.ask \in SUBSET AllSystems /\ u.call \in SUBSET AllSystems
  BY DEF TaskType
<1>2. /\ Cardinality(t.ask) \in Nat /\ Cardinality(t.call) \in Nat
      /\ Cardinality(u.ask) \in Nat /\ Cardinality(u.call) \in Nat
  BY <1>1, WorkFacts
<1>3. /\ Work(t) = 2 * Cardinality(t.ask) + Cardinality(t.call) + 1
      /\ Work(u) = 2 * Cardinality(u.ask) + Cardinality(u.call) + 1
  BY WorkIsNat
<1>4. CASE s \in t.ask /\ u.ask = t.ask \ {s} /\ u.call \subseteq t.call \union {s}
  <2>1. Cardinality(u.ask) = Cardinality(t.ask) - 1
    <3>1. Cardinality(t.ask \ {s}) = Cardinality(t.ask) - 1
      BY <1>1, <1>4, WorkFacts
    <3> QED
      BY <1>4, <3>1
  <2>2. t.call \union {s} \in SUBSET AllSystems
    BY <1>1, <1>4
  <2>3. IsFiniteSet(t.call \union {s}) /\ Cardinality(t.call \union {s}) \in Nat
    BY <2>2, AtMostThree, FS_Subset, FS_CardinalityType
  <2>4. Cardinality(u.call) <= Cardinality(t.call \union {s})
    BY <1>4, <2>3, FS_Subset
  <2>5. Cardinality(t.call \union {s}) <= Cardinality(t.call) + 1
    BY <1>1, WorkFacts
  <2> QED
    BY <1>2, <1>3, <2>1, <2>3, <2>4, <2>5
<1>5. CASE s \in t.call /\ u.ask = t.ask /\ u.call \subseteq t.call \ {s}
  <2>1. Cardinality(t.call \ {s}) = Cardinality(t.call) - 1
    BY <1>1, <1>5, WorkFacts
  <2>2. IsFiniteSet(t.call \ {s})
    BY <1>1, AtMostThree, FS_Subset
  <2>3. Cardinality(u.call) <= Cardinality(t.call \ {s})
    BY <1>5, <2>2, FS_Subset
  <2> QED
    BY <1>2, <1>3, <1>5, <2>1, <2>3
<1> QED
  BY <1>4, <1>5

\* A step of c's operation, other than one that begins it, leaves fewer steps;
\* any other step leaves the operation alone.
LEMMA StepCounts ==
    ASSUME IInv, [Next]_vars, NEW c \in Callers, ~Free(c)
    PROVE  op'[c] = op[c] \/ Work(op'[c]) < Work(op[c])
<1>1. op \in [Callers -> TaskType] /\ op[c] \in TaskType /\ op[c].kind # "idle" /\ op'[c] \in TaskType
  BY StepPreserves DEF IInv, TypeOK, Free
<1>2. ASSUME NEW d \in Callers, NEW s \in AllSystems,
             \/ Launch(d, s) \/ Stores(d, s) \/ StoreFails(d, s) \/ Answers(d, s)
             \/ SearchFails(d, s) \/ Deletes(d, s) \/ DeleteFails(d, s)
             \/ CheckAsks(d, s) \/ SetHealth(d, s),
             d = c
      PROVE  Work(op'[c]) < Work(op[c])
  <2>1. /\ op'[c].kind = op[c].kind
        /\ \/ /\ s \in op[c].ask /\ op'[c].ask = op[c].ask \ {s}
              /\ op'[c].call \subseteq op[c].call \union {s}
           \/ /\ s \in op[c].call /\ op'[c].ask = op[c].ask
              /\ op'[c].call \subseteq op[c].call \ {s}
    BY <1>1, <1>2
    DEF Launch, Stores, StoreFails, Answers, SearchFails, Deletes, DeleteFails,
        Fails, CheckAsks, SetHealth, TaskType
  <2> QED
    BY <1>1, <2>1, EachStepCounts
<1>3. ASSUME NEW d \in Callers,
             \/ StoreReturns(d) \/ StoreWithAgentReturns(d) \/ ReadReturns(d)
             \/ DeleteReturns(d) \/ HealthCheckReturns(d),
             d = c
      PROVE  Work(op'[c]) < Work(op[c])
  <2>1. op'[c] = Idle
    BY <1>1, <1>3
    DEF StoreReturns, StoreWithAgentReturns, ReadReturns, DeleteReturns, HealthCheckReturns
  <2> QED
    BY <1>1, <2>1, WorkIsNat
<1>4. ASSUME NEW d \in Callers, d # c, NEW t, op' = [op EXCEPT ![d] = t]
      PROVE  op'[c] = op[c]
  BY <1>1, <1>4
<1>5. ASSUME NEW d \in Callers, NEW t, Begin(d, t)
      PROVE  op'[c] = op[c]
  BY <1>1, <1>4, <1>5 DEF Begin, Free
<1>6. ASSUME NEW d \in Callers, NEW s \in AllSystems, d # c,
             \/ Launch(d, s) \/ Stores(d, s) \/ StoreFails(d, s) \/ Answers(d, s)
             \/ SearchFails(d, s) \/ Deletes(d, s) \/ DeleteFails(d, s)
             \/ CheckAsks(d, s) \/ SetHealth(d, s)
      PROVE  op'[c] = op[c]
  BY <1>1, <1>6
  DEF Launch, Stores, StoreFails, Answers, SearchFails, Deletes, DeleteFails,
      Fails, CheckAsks, SetHealth
<1>7. ASSUME NEW d \in Callers, d # c,
             \/ StoreReturns(d) \/ StoreWithAgentReturns(d) \/ ReadReturns(d)
             \/ DeleteReturns(d) \/ HealthCheckReturns(d)
      PROVE  op'[c] = op[c]
  BY <1>1, <1>7
  DEF StoreReturns, StoreWithAgentReturns, ReadReturns, DeleteReturns, HealthCheckReturns
<1>8. CASE UNCHANGED vars
  BY <1>8 DEF vars
<1>9. CASE Next
  BY <1>2, <1>3, <1>5, <1>6, <1>7, <1>9
  DEF Next, Store, StoreWithAgent, CreateKnowledgeGraph, Read, Retrieve,
      QueryKnowledgeGraph, GetHistory, RetrieveForAgent, Delete, HealthCheck
<1> QED
  BY <1>8, <1>9

\* No operation of the engine goes on for ever.
THEOREM OperationsRunOut == Spec => StepsRunOut
<1>1. IInv /\ [Next]_vars
        => [\A c \in Callers : ~Free(c) =>
              op'[c] = op[c] \/ Work(op'[c]) < Work(op[c])]_vars
  BY StepCounts
<1> QED
  BY <1>1, Invariance, PTL DEF Spec, StepsRunOut

\* Of the systems that are still to be asked one has its turn, once the call
\* under way has ended.
LEMMA SomeTurnComes ==
    ASSUME IInv, NEW c \in Callers, op[c].ask # {}, op[c].call = {}
    PROVE  \E s \in op[c].ask : s \in AllSystems /\ InTurn(c, s)
<1>1. op[c].ask \subseteq AllSystems
  BY DEF IInv, TypeOK, TaskType
<1>2. CASE Before(op[c].kind) = {}
  BY <1>1, <1>2 DEF InTurn
<1>3. CASE op[c].kind \in {"attach", "check"}
  <2>1. Before(op[c].kind) = {<<"cognee", "mem0">>, <<"cognee", "letta">>, <<"mem0", "letta">>}
    BY <1>3 DEF Before
  <2>2. CASE "cognee" \in op[c].ask
    BY <1>1, <2>1, <2>2 DEF InTurn, AllSystems
  <2>3. CASE "cognee" \notin op[c].ask /\ "mem0" \in op[c].ask
    BY <1>1, <2>1, <2>3 DEF InTurn, AllSystems
  <2>4. CASE op[c].ask = {"letta"}
    BY <1>1, <2>1, <2>4 DEF InTurn, AllSystems
  <2> QED
    BY <1>1, <2>2, <2>3, <2>4 DEF AllSystems
<1>4. CASE op[c].kind = "history"
  <2>1. Before(op[c].kind) = {<<"mem0", "cognee">>}
    BY <1>4 DEF Before
  <2>2. CASE "mem0" \in op[c].ask
    BY <1>1, <2>1, <2>2 DEF InTurn, AllSystems
  <2>3. CASE "mem0" \notin op[c].ask
    BY <1>1, <2>1, <2>3 DEF InTurn, AllSystems
  <2> QED
    BY <2>2, <2>3
<1>5. CASE op[c].kind = "recall"
  <2>1. Before(op[c].kind) = {<<"letta", "mem0">>}
    BY <1>5 DEF Before
  <2>2. CASE "letta" \in op[c].ask
    BY <1>1, <2>1, <2>2 DEF InTurn, AllSystems
  <2>3. CASE "letta" \notin op[c].ask
    BY <1>1, <2>1, <2>3 DEF InTurn, AllSystems
  <2> QED
    BY <2>2, <2>3
<1> QED
  BY <1>2, <1>3, <1>4, <1>5 DEF Before

\* No operation waits for a turn that never comes, or for room in its error
\* channel: with OperationsRunOut, every one of them returns.
THEOREM NobodyIsStuck == Spec => []SomebodyGoesOn
<1>1. IInv /\ EveryErrorFits => SomebodyGoesOn
  <2> SUFFICES ASSUME IInv, EveryErrorFits, NEW c \in Callers, ~Joined(c)
               PROVE  \E s \in AllSystems :
                         \/ s \in op[c].ask /\ InTurn(c, s) /\ ErrorFits(c)
                         \/ s \in op[c].call /\ ErrorFits(c)
    BY DEF SomebodyGoesOn
  <2>1. ErrorFits(c) /\ op[c].call \subseteq AllSystems
    BY DEF EveryErrorFits, IInv, TypeOK, TaskType
  <2>2. CASE op[c].call # {}
    BY <2>1, <2>2
  <2>3. CASE op[c].call = {}
    BY <2>1, <2>3, SomeTurnComes DEF Joined
  <2> QED
    BY <2>2, <2>3
<1> QED
  BY <1>1, Invariance, ErrorsFit, PTL
=============================================================================
