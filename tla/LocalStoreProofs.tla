-------------------------- MODULE LocalStoreProofs --------------------------
(***************************************************************************)
(* Safety of LocalStore for any callers, memories and bounds, from one     *)
(* inductive invariant.  Two things carry it: the mutex, under which one   *)
(* write at a time has read the clock and not yet committed; and the       *)
(* object, which remembers the id of every row that no Add has             *)
(* acknowledged, until a crash takes it.                                   *)
(*                                                                         *)
(* For the pages of a listing the invariant also knows the rank of a row,  *)
(* which only a removal lowers, and which only a row raises that was       *)
(* handed in before or has an older created_at than the clock: the rows    *)
(* before the offset are those that were seen.                             *)
(***************************************************************************)
EXTENDS LocalStore, FiniteSetTheorems, TLAPS

\* One write at a time has the mutex.
OneWriter ==
    \A c, d \in Callers : op[c].pc = "exec" /\ op[d].pc = "exec" => c = d

\* The table is finite and its ids are its key.
IdsAreKeys ==
    /\ IsFiniteSet(rows)
    /\ \A r, s \in rows : r.id = s.id => r = s

\* A row that nobody has lost is that of an acknowledged Add or of the object.
RowsAreKnown ==
    \A r \in rows :
       r.id[1] \notin lost => r.id \in acked \/ r.id[2] = object[r.id[1]].id

\* A write is of an id that was given.  An Add is of the id of its object, which
\* no Add of that memory has been acknowledged for.
WritesFit ==
    \A c \in Callers : op[c].pc = "exec" =>
       /\ op[c].kind \in {"add", "update", "delete"}
       /\ op[c].id \in Ids
       /\ op[c].kind = "add" =>
             /\ op[c].id[2] = object[op[c].id[1]].id
             /\ \A id \in acked : id[1] # op[c].id[1]

\* No time is later than the clock; that of an Update is the clock's.
TimesArePast ==
    /\ \A r \in rows : r.updated <= now
    /\ \A m \in Memories : object[m].created <= now /\ object[m].updated <= now
    /\ \A c \in Callers : op[c].pc = "exec" =>
          /\ op[c].kind = "update" => op[c].updated = now
          /\ op[c].kind = "add" => op[c].created \in 1..now /\ op[c].updated \in 1..now

IInv ==
    /\ TypeOK
    /\ OneWriter
    /\ IdsAreKeys
    /\ RowsAreKnown
    /\ WritesFit
    /\ TimesArePast
    /\ OneRowUnlessLost

USE LocalStoreAssumption DEF LocalStoreAssumption

-----------------------------------------------------------------------------
\* What a function makes of a finite set is finite.
LEMMA ImageIsFinite ==
    ASSUME NEW S, IsFiniteSet(S), NEW f
    PROVE  IsFiniteSet({f[x] : x \in S})
<1> DEFINE T == {f[x] : x \in S}
           g == [x \in S |-> f[x]]
<1>1. g \in Surjection(S, T)
  BY DEF Surjection
<1> QED
  BY <1>1, FS_Surjection

\* The table with the row of this id written again.
Retimed(id, t) == {IF r.id = id THEN [r EXCEPT !.updated = t] ELSE r : r \in rows}

\* Rows written again are rows of the same ids.
LEMMA Rewritten ==
    ASSUME IsFiniteSet(rows), rows \subseteq RowType, NEW id, NEW t \in 1..MaxTime
    PROVE  /\ IsFiniteSet(Retimed(id, t))
           /\ Retimed(id, t) \subseteq RowType
           /\ \A s \in Retimed(id, t) : \E r \in rows :
                 /\ r.id = s.id /\ r.created = s.created /\ r.place = s.place
                 /\ s.updated = IF r.id = id THEN t ELSE r.updated
<1> DEFINE f == [r \in rows |-> IF r.id = id THEN [r EXCEPT !.updated = t] ELSE r]
<1>1. Retimed(id, t) = {f[r] : r \in rows}
  BY DEF Retimed
<1>3. \A r \in rows :
         /\ f[r] \in RowType /\ f[r].id = r.id /\ f[r].created = r.created
         /\ f[r].place = r.place /\ f[r].updated = IF r.id = id THEN t ELSE r.updated
  BY DEF RowType
<1> HIDE DEF f
<1>2. IsFiniteSet(Retimed(id, t))
  BY <1>1, ImageIsFinite
<1> QED
  BY <1>1, <1>2, <1>3

\* A write under way is the only one, and its caller holds the mutex.
LEMMA Writer ==
    ASSUME TypeOK, OneWriter, NEW c \in Callers, op[c].pc = "exec"
    PROVE  lock = {c} /\ \A d \in Callers : op[d].pc = "exec" => d = c
BY DEF TypeOK, OneWriter

\* Nobody writes while the mutex is free.
LEMMA NoWriter ==
    ASSUME TypeOK, lock = {}
    PROVE  \A d \in Callers : op[d].pc # "exec"
BY DEF TypeOK

\* A write that begins is the only one.
LEMMA WriteBegins ==
    ASSUME TypeOK, NEW c \in Callers, NEW t \in TaskType, t.pc = "exec",
           \A d \in Callers : op[d].pc # "exec", op' = [op EXCEPT ![c] = t], lock' = {c}
    PROVE  op' \in [Callers -> TaskType] /\ lock' = {d \in Callers : op'[d].pc = "exec"}
<1>1. op' \in [Callers -> TaskType] /\ op'[c] = t /\ \A d \in Callers \ {c} : op'[d] = op[d]
  BY DEF TypeOK
<1> QED
  BY <1>1

\* A listing begins,
LEMMA Began ==
    ASSUME NEW ids \in SUBSET Ids
    PROVE  LET t == [Task("list", "page", NoId, 0, 0, FALSE) EXCEPT !.start = ids]
           IN  t \in TaskType /\ t.pc = "page"
<1>1. Task("list", "page", NoId, 0, 0, FALSE) \in TaskType
  BY DEF Task, TaskType
<1>2. Task("list", "page", NoId, 0, 0, FALSE).pc = "page"
  BY DEF Task
<1> QED
  BY <1>1, <1>2 DEF TaskType

\* goes on,
LEMMA WentOn ==
    ASSUME NEW t \in TaskType, NEW ids \in SUBSET Ids, NEW pc \in {"page", "listed"}
    PROVE  LET u == [t EXCEPT !.pc = pc, !.offset = @ + PageSize, !.seen = @ \union ids,
                              !.twice = @ \union (t.seen \intersect ids)]
           IN  u \in TaskType /\ u.pc = pc
<1> DEFINE twice == t.twice \union (t.seen \intersect ids)
           seen == t.seen \union ids
           offset == t.offset + PageSize
<1>1. twice \in SUBSET Ids /\ seen \in SUBSET Ids /\ offset \in Nat
  BY DEF TaskType
<1> HIDE DEF twice, seen, offset
<1>2. LET u == [t EXCEPT !.pc = pc, !.offset = offset, !.seen = seen, !.twice = twice]
      IN  u \in TaskType /\ u.pc = pc
  BY <1>1 DEF TaskType
<1> QED
  BY <1>2 DEF twice, seen, offset

\* and is where it was when another's write is told to it.
LEMMA ToldBack ==
    ASSUME NEW t \in TaskType, NEW b \in BOOLEAN
    PROVE  [t EXCEPT !.back = b] \in TaskType /\ [t EXCEPT !.back = b].pc = t.pc
BY DEF TaskType

LEMMA ToldLess ==
    ASSUME NEW t \in TaskType, NEW b \in BOOLEAN
    PROVE  [t EXCEPT !.less = b] \in TaskType /\ [t EXCEPT !.less = b].pc = t.pc
BY DEF TaskType

\* The object of an Add that begins: the one there was, or one with times of the
\* past, and what Add has given it.
LEMMA Handed ==
    ASSUME TypeOK, TimesArePast, NEW c \in Callers, NEW m \in Memories, Add(c, m)
    PROVE  /\ now' \in now..MaxTime /\ now' \in 1..MaxTime
           /\ given' = [given EXCEPT ![m] = IF object[m].id = 0 THEN @ + 1 ELSE @]
           /\ given' \in [Memories -> 0..MaxIds]
           /\ object' \in [Memories -> ObjectType]
           /\ object'[m].id = IF object[m].id = 0 THEN given'[m] ELSE object[m].id
           /\ object'[m].id \in 1..MaxIds
           /\ object'[m].created \in 1..now' /\ object'[m].updated \in 1..now'
           /\ \A n \in Memories : n # m => object'[n] = object[n]
<1>1. now' \in now..MaxTime /\ now' \in 1..MaxTime
  BY DEF Add, ReadsClock, TypeOK
<1>2. /\ given' = [given EXCEPT ![m] = IF object[m].id = 0 THEN @ + 1 ELSE @]
      /\ object[m].id = 0 => given[m] < MaxIds
  BY DEF Add
<1>3. given' \in [Memories -> 0..MaxIds]
  BY <1>2 DEF TypeOK
<1>4. PICK o \in HandedIn(m) : object' = [object EXCEPT ![m] = Given(o, given'[m], now')]
  BY DEF Add
<1>5. /\ o.id = object[m].id /\ o.id \in 0..MaxIds
      /\ o.created \in 0..now' /\ o.updated \in 0..now'
  <2>1. object[m] \in ObjectType /\ object[m].created <= now /\ object[m].updated <= now
    BY DEF TypeOK, TimesArePast
  <2>2. CASE object[m] # New
    BY <1>1, <2>1, <2>2 DEF HandedIn, ObjectType, TypeOK
  <2>3. CASE object[m] = New
    BY <1>1, <2>3 DEF HandedIn, New
  <2> QED
    BY <2>2, <2>3
<1>6. o.id = 0 => given'[m] \in 1..MaxIds
  BY <1>2, <1>5 DEF TypeOK
<1> DEFINE g == Given(o, given'[m], now')
<1>7. /\ g \in ObjectType
      /\ g.id = (IF object[m].id = 0 THEN given'[m] ELSE object[m].id) /\ g.id \in 1..MaxIds
      /\ g.created \in 1..now' /\ g.updated \in 1..now'
  BY <1>1, <1>5, <1>6 DEF Given, ObjectType
<1> HIDE DEF g
<1>8. object'[m] = g /\ object' \in [Memories -> ObjectType]
      /\ \A n \in Memories : n # m => object'[n] = object[n]
  BY <1>4, <1>7 DEF TypeOK, g
<1> QED
  BY <1>1, <1>2, <1>3, <1>7, <1>8

\* Initially the table is empty and nobody writes.
LEMMA InitEstablishes == Init => IInv
<1> SUFFICES ASSUME Init PROVE IInv
  OBVIOUS
<1> USE DEF Init, Idle, Task, NoId, New
<1>1. TypeOK
  BY DEF TypeOK, TaskType, ObjectType, Ids
<1>2. OneWriter /\ RowsAreKnown /\ WritesFit /\ OneRowUnlessLost
  BY DEF OneWriter, RowsAreKnown, WritesFit, OneRowUnlessLost
<1>3. IdsAreKeys
  BY FS_EmptySet DEF IdsAreKeys
<1>4. TimesArePast
  BY DEF TimesArePast
<1> QED
  BY <1>1, <1>2, <1>3, <1>4 DEF IInv

\* Every step of the callers and of the process keeps IInv.
LEMMA StepPreserves == IInv /\ [Next]_vars => IInv'
<1> SUFFICES ASSUME IInv, [Next]_vars PROVE IInv'
  OBVIOUS
<1> USE DEF IInv
<1>1. ASSUME NEW c \in Callers, NEW m \in Memories, Add(c, m) PROVE IInv'
  <2> DEFINE task == Task("add", "exec", <<m, object'[m].id>>, object'[m].created,
                          object'[m].updated, object[m] # New)
  <2>1. /\ op' = [op EXCEPT ![c] = task] /\ op[c] = Idle /\ lock = {} /\ lock' = {c}
        /\ \A id \in acked : id[1] # m
        /\ UNCHANGED <<rows, acked, open, restarts, lost>>
    BY <1>1 DEF Add, Insert, Locks, Begin, file, process
  <2>2. now' \in now..MaxTime /\ now' \in 1..MaxTime
    BY <1>1, Handed
  <2>3. /\ object' \in [Memories -> ObjectType]
        /\ object'[m].id \in 1..MaxIds
        /\ object'[m].created \in 1..now' /\ object'[m].updated \in 1..now'
        /\ given' \in [Memories -> 0..MaxIds]
        /\ \A n \in Memories : n # m => object'[n] = object[n]
        /\ object[m].id # 0 => object'[m].id = object[m].id
    BY <1>1, Handed
  <2>4. task \in TaskType /\ task.pc = "exec"
    BY <2>2, <2>3 DEF Task, TaskType, Ids
  <2>5. \A d \in Callers : op[d].pc # "exec"
    BY <2>1, NoWriter
  <2>a. /\ task.kind = "add" /\ task.id = <<m, object'[m].id>>
        /\ task.created = object'[m].created /\ task.updated = object'[m].updated
    BY DEF Task
  <2> HIDE DEF task
  <2>6. TypeOK'
    BY <2>1, <2>2, <2>3, <2>4, <2>5 DEF TypeOK
  <2>7. OneWriter' /\ IdsAreKeys' /\ OneRowUnlessLost'
    BY <2>1, <2>5 DEF TypeOK, OneWriter, IdsAreKeys, OneRowUnlessLost, RowOf
  <2>8. RowsAreKnown'
    BY <2>1, <2>3 DEF TypeOK, RowsAreKnown, RowType, Ids
  <2>9. WritesFit'
    <3>1. op'[c] = task /\ \A d \in Callers : d # c => op'[d] = op[d]
      BY <2>1 DEF TypeOK
    <3>2. task.id \in Ids /\ task.id[1] = m /\ task.id[2] = object'[m].id
      BY <2>3, <2>a DEF Ids
    <3> QED
      BY <2>1, <2>5, <2>a, <3>1, <3>2 DEF WritesFit
  <2>10. TimesArePast'
    <3>1. (\A r \in rows : r.updated <= now)'
      BY <2>1, <2>2 DEF TypeOK, TimesArePast, RowType
    <3>2. (\A n \in Memories : object[n].created <= now /\ object[n].updated <= now)'
      BY <2>2, <2>3 DEF TypeOK, TimesArePast, ObjectType
    <3>3. op'[c] = task /\ \A d \in Callers : d # c => op'[d] = op[d]
      BY <2>1 DEF TypeOK
    <3> QED
      BY <2>2, <2>3, <2>5, <2>a, <3>1, <3>2, <3>3 DEF TimesArePast
  <2> QED
    BY <2>6, <2>7, <2>8, <2>9, <2>10
<1>2. ASSUME NEW c \in Callers, AddCommits(c) PROVE IInv'
  <2>0. /\ op[c].kind = "add" /\ op[c].pc = "exec" /\ lock' = {} /\ rows' = Upsert(c)
        /\ acked' \in {acked, acked \union {op[c].id}}
        /\ UNCHANGED <<now, given, object, open, restarts, lost>>
    BY <1>2 DEF AddCommits, Running, objects, process
  <2> DEFINE id == op[c].id
             m == id[1]
  <2>1. /\ lock = {c} /\ \A d \in Callers : op[d].pc = "exec" => d = c
        /\ lock' = {}
    BY <2>0, Writer
  <2>2. /\ id \in Ids /\ id[2] = object[m].id /\ \A i \in acked : i[1] # m
        /\ op[c].created \in 1..now /\ op[c].created \in 1..MaxTime
        /\ op[c].updated \in 1..now /\ op[c].updated \in 1..MaxTime
    BY <2>0 DEF WritesFit, TimesArePast, TypeOK
  <2>3. PICK new \in RowType : /\ new.id = id /\ new.updated = op[c].updated
                               /\ rows' = {r \in rows : r.id # id} \union {new}
    <3>1. CASE RowOf(id) = {}
      <4>1. Cardinality(rows) \in Nat
        BY FS_CardinalityType DEF IdsAreKeys
      <4> DEFINE n == [id |-> id, created |-> op[c].created, updated |-> op[c].updated,
                       place |-> Cardinality(rows) + 1]
      <4>2. n \in RowType /\ n.id = id /\ n.updated = op[c].updated
        BY <2>2, <4>1 DEF RowType
      <4>3. rows' = {r \in rows : r.id # id} \union {n}
        BY <2>0, <3>1 DEF Upsert
      <4> HIDE DEF n
      <4> QED
        BY <4>2, <4>3
    <3>2. CASE RowOf(id) # {}
      <4>1. PICK r \in rows : r.id = id /\ RowOf(id) = {r}
        BY <3>2 DEF RowOf, IdsAreKeys
      <4>2. r \in RowType
        BY DEF TypeOK
      <4> DEFINE n == [r EXCEPT !.updated = op[c].updated]
      <4>3. n \in RowType /\ n.id = id /\ n.updated = op[c].updated
        BY <2>2, <4>1, <4>2 DEF RowType
      <4>4. rows' = {x \in rows : x.id # id} \union {n}
        BY <2>0, <3>2, <4>1 DEF Upsert
      <4> HIDE DEF n
      <4> QED
        BY <4>3, <4>4
    <3> QED
      BY <3>1, <3>2
  <2>4. IdsAreKeys'
    <3>1. IsFiniteSet({r \in rows : r.id # id})
      BY FS_Subset DEF IdsAreKeys
    <3>2. IsFiniteSet(rows')
      BY <2>3, <3>1, FS_AddElement
    <3> QED
      BY <2>3, <3>2 DEF IdsAreKeys
  <2>5. /\ op' \in [Callers -> TaskType]
        /\ \A d \in Callers : op'[d].pc # "exec"
    <3>1. ASSUME NEW d \in Callers, d # c
          PROVE  op'[d] \in TaskType /\ op'[d].pc = op[d].pc
      <4> DEFINE b == IF Listing(d) /\ ComesInOld(c) THEN TRUE ELSE op[d].back
      <4>1. op[d] \in TaskType /\ op[d].back \in BOOLEAN
        BY DEF TypeOK, TaskType
      <4>2. b \in BOOLEAN
        BY <4>1
      <4>3. op'[d] = [op[d] EXCEPT !.back = b]
        BY <1>2, <3>1 DEF AddCommits
      <4> HIDE DEF b
      <4> QED
        BY <4>1, <4>2, <4>3, ToldBack
    <3>2. op'[c] = Idle /\ Idle \in TaskType /\ Idle.pc = "idle"
      BY <1>2 DEF AddCommits, Idle, Task, TaskType, NoId
    <3>3. op' \in [Callers -> TaskType]
      <4>1. op' = [d \in Callers |-> op'[d]]
        BY <1>2 DEF AddCommits
      <4> QED
        BY <3>1, <3>2, <4>1
    <3> QED
      BY <2>1, <3>1, <3>2, <3>3
  <2>6. TypeOK'
    BY <2>0, <2>1, <2>2, <2>3, <2>5 DEF TypeOK
  <2>7. OneWriter' /\ WritesFit'
    BY <2>0, <2>5 DEF OneWriter, WritesFit
  <2>8. RowsAreKnown'
    BY <2>0, <2>2, <2>3 DEF RowsAreKnown
  <2>9. TimesArePast'
    BY <2>0, <2>2, <2>3, <2>5 DEF TimesArePast
  <2>10. OneRowUnlessLost'
    \* Another row of this memory is no acknowledged one: it has the object's id.
    <3>1. \A r \in rows : r.id[1] = m /\ m \notin lost => r.id = id
      BY <2>2 DEF RowsAreKnown, Ids, TypeOK, RowType
    <3> QED
      BY <2>0, <2>3, <3>1 DEF OneRowUnlessLost
  <2> QED
    BY <2>4, <2>6, <2>7, <2>8, <2>9, <2>10
<1>3. ASSUME NEW c \in Callers, NEW id \in Ids, Update(c, id) PROVE IInv'
  <2> USE <1>3 DEF Update, Locks, ReadsClock, Begin, file, process
  <2> DEFINE task == Task("update", "exec", id, 0, now', FALSE)
  <2>1. /\ op' = [op EXCEPT ![c] = task] /\ op[c] = Idle /\ lock = {} /\ lock' = {c}
        /\ now' \in now..MaxTime /\ now' \in 1..MaxTime
    BY DEF TypeOK
  <2>2. task \in TaskType /\ task.pc = "exec"
    BY <2>1 DEF Task, TaskType
  <2>3. \A d \in Callers : op[d].pc # "exec"
    BY NoWriter
  <2> HIDE DEF task
  <2>4. TypeOK'
    <3>1. op' \in [Callers -> TaskType] /\ lock' = {d \in Callers : op'[d].pc = "exec"}
      BY <2>1, <2>2, <2>3, WriteBegins
    <3> QED
      BY <2>1, <3>1 DEF TypeOK
  <2>5. OneWriter' /\ IdsAreKeys' /\ OneRowUnlessLost' /\ RowsAreKnown'
    BY <2>1, <2>3 DEF TypeOK, OneWriter, IdsAreKeys, OneRowUnlessLost, RowsAreKnown
  <2>6. WritesFit'
    BY <2>1, <2>3 DEF TypeOK, WritesFit, task, Task
  <2>7. TimesArePast'
    BY <2>1, <2>3 DEF TypeOK, TimesArePast, RowType, ObjectType, task, Task
  <2> QED
    BY <2>4, <2>5, <2>6, <2>7
<1>4. ASSUME NEW c \in Callers, UpdateCommits(c) PROVE IInv'
  <2>0. /\ op[c].kind = "update" /\ op[c].pc = "exec" /\ lock' = {}
        /\ rows' = Retimed(op[c].id, op[c].updated)
        /\ op' = [op EXCEPT ![c] = Idle]
        /\ UNCHANGED <<acked, now, given, object, open, restarts, lost>>
    BY <1>4 DEF UpdateCommits, Running, Retimed, objects, process
  <2>1. /\ lock = {c} /\ \A d \in Callers : op[d].pc = "exec" => d = c
        /\ lock' = {}
    BY <2>0, Writer
  <2>2. op[c].updated \in 1..now /\ op[c].updated \in 1..MaxTime
    BY <2>0 DEF TimesArePast, TypeOK
  <2>3. /\ IsFiniteSet(rows') /\ rows' \subseteq RowType
        /\ \A s \in rows' : \E r \in rows :
              /\ r.id = s.id /\ r.created = s.created /\ r.place = s.place
              /\ s.updated = IF r.id = op[c].id THEN op[c].updated ELSE r.updated
    <3>1. IsFiniteSet(rows) /\ rows \subseteq RowType
      BY DEF IdsAreKeys, TypeOK
    <3> QED
      BY <2>0, <2>2, <3>1, Rewritten
  <2>4. op'[c] = Idle /\ Idle \in TaskType /\ Idle.pc = "idle"
    BY <2>0 DEF Idle, Task, TaskType, NoId, TypeOK
  <2>5. TypeOK' /\ \A d \in Callers : op'[d].pc # "exec"
    BY <2>0, <2>1, <2>3, <2>4 DEF TypeOK
  <2>6. OneWriter' /\ WritesFit'
    BY <2>0, <2>5 DEF OneWriter, WritesFit
  <2>7. IdsAreKeys' /\ OneRowUnlessLost'
    <3>1. \A r, s \in rows' :
             r \in RowType /\ s \in RowType /\ r.created = s.created /\ r.place = s.place
                /\ r.updated = s.updated /\ r.id = s.id => r = s
      BY DEF RowType
    <3>2. \A r, s \in rows' : r.id = s.id => r = s
      BY <2>3, <3>1 DEF IdsAreKeys
    <3> QED
      BY <2>0, <2>3, <3>2 DEF IdsAreKeys, OneRowUnlessLost
  <2>8. RowsAreKnown'
    BY <2>0, <2>3 DEF RowsAreKnown
  <2>9. TimesArePast'
    BY <2>0, <2>2, <2>3, <2>5 DEF TimesArePast
  <2> QED
    BY <2>5, <2>6, <2>7, <2>8, <2>9
<1>5. ASSUME NEW c \in Callers, NEW id \in Ids, Delete(c, id) PROVE IInv'
  <2> USE <1>5 DEF Delete, Locks, Begin, file, objects, process
  <2> DEFINE task == Task("delete", "exec", id, 0, 0, FALSE)
  <2>1. op' = [op EXCEPT ![c] = task] /\ op[c] = Idle /\ lock = {} /\ lock' = {c}
    OBVIOUS
  <2>2. task \in TaskType /\ task.pc = "exec"
    BY DEF Task, TaskType
  <2>3. \A d \in Callers : op[d].pc # "exec"
    BY NoWriter
  <2> HIDE DEF task
  <2>4. TypeOK'
    <3>1. op' \in [Callers -> TaskType] /\ lock' = {d \in Callers : op'[d].pc = "exec"}
      BY <2>1, <2>2, <2>3, WriteBegins
    <3> QED
      BY <2>1, <3>1 DEF TypeOK
  <2>5. OneWriter' /\ IdsAreKeys' /\ OneRowUnlessLost' /\ RowsAreKnown'
    BY <2>1, <2>3 DEF TypeOK, OneWriter, IdsAreKeys, OneRowUnlessLost, RowsAreKnown
  <2>6. WritesFit' /\ TimesArePast'
    BY <2>1, <2>3 DEF TypeOK, WritesFit, TimesArePast, task, Task
  <2> QED
    BY <2>4, <2>5, <2>6
<1>6. ASSUME NEW c \in Callers, DeleteCommits(c) PROVE IInv'
  <2>0. /\ op[c].kind = "delete" /\ op[c].pc = "exec" /\ lock' = {}
        /\ acked' = acked \ {op[c].id}
        /\ UNCHANGED <<now, given, object, open, restarts, lost>>
    BY <1>6 DEF DeleteCommits, Running, objects, process
  <2> DEFINE kept == rows \ RowOf(op[c].id)
             before(r) == {s \in RowOf(op[c].id) : s.place < r.place}
             f == [r \in kept |-> [r EXCEPT !.place = @ - Cardinality(before(r))]]
  <2>1. /\ lock = {c} /\ \A d \in Callers : op[d].pc = "exec" => d = c
        /\ lock' = {}
    BY <2>0, Writer
  <2>2. rows' = {f[r] : r \in kept}
    BY <1>6 DEF DeleteCommits
  <2>3. \A r \in kept : /\ r \in rows /\ r.id # op[c].id
                        /\ f[r] \in RowType /\ f[r].id = r.id /\ f[r].updated = r.updated
    <3> SUFFICES ASSUME NEW r \in kept
                 PROVE  /\ r \in rows /\ r.id # op[c].id
                        /\ f[r] \in RowType /\ f[r].id = r.id /\ f[r].updated = r.updated
      OBVIOUS
    <3>1. r \in RowType /\ r \in rows /\ r.id # op[c].id
      BY DEF TypeOK, RowOf
    <3>2. before(r) \in SUBSET rows
      BY DEF RowOf
    <3>3. Cardinality(before(r)) \in Int
      <4>1. IsFiniteSet(before(r))
        BY <3>2, FS_Subset DEF IdsAreKeys
      <4> QED
        BY <4>1, FS_CardinalityType
    <3> HIDE DEF before
    <3> QED
      BY <3>1, <3>3 DEF RowType
  <2>4. IsFiniteSet(rows')
    <3>1. IsFiniteSet(kept)
      BY FS_Subset DEF IdsAreKeys
    <3> HIDE DEF f, kept
    <3> QED
      BY <2>2, <3>1, ImageIsFinite
  <2>5. op'[c] = Idle /\ Idle \in TaskType /\ Idle.pc = "idle"
    BY <1>6 DEF DeleteCommits, Idle, Task, TaskType, NoId
  <2>6. /\ op' \in [Callers -> TaskType]
        /\ \A d \in Callers : op'[d].pc # "exec"
    <3>1. ASSUME NEW d \in Callers, d # c
          PROVE  op'[d] \in TaskType /\ op'[d].pc = op[d].pc
      <4> DEFINE b == IF Listing(d) /\ RowOf(op[c].id) # {} THEN TRUE ELSE op[d].less
      <4>1. op[d] \in TaskType /\ op[d].less \in BOOLEAN
        BY DEF TypeOK, TaskType
      <4>2. b \in BOOLEAN
        BY <4>1
      <4>3. op'[d] = [op[d] EXCEPT !.less = b]
        BY <1>6, <3>1 DEF DeleteCommits
      <4> HIDE DEF b
      <4> QED
        BY <4>1, <4>2, <4>3, ToldLess
    <3>2. op' \in [Callers -> TaskType]
      <4>1. op' = [d \in Callers |-> op'[d]]
        BY <1>6 DEF DeleteCommits
      <4> QED
        BY <2>5, <3>1, <4>1
    <3> QED
      BY <2>1, <2>5, <3>1, <3>2
  <2> HIDE DEF f, kept
  <2>7. TypeOK'
    BY <2>0, <2>1, <2>2, <2>3, <2>6 DEF TypeOK
  <2>8. OneWriter' /\ WritesFit'
    BY <2>0, <2>6 DEF OneWriter, WritesFit
  <2>9. IdsAreKeys' /\ OneRowUnlessLost'
    BY <2>0, <2>2, <2>3, <2>4 DEF IdsAreKeys, OneRowUnlessLost
  <2>10. RowsAreKnown'
    BY <2>0, <2>2, <2>3 DEF RowsAreKnown
  <2>11. TimesArePast'
    BY <2>0, <2>2, <2>3, <2>6 DEF TimesArePast
  <2> QED
    BY <2>7, <2>8, <2>9, <2>10, <2>11
<1>7. ASSUME NEW c \in Callers, Fails(c) PROVE IInv'
  <2> USE <1>7 DEF Fails, file, objects, process
  <2>1. /\ lock = {c} /\ \A d \in Callers : op[d].pc = "exec" => d = c
        /\ lock' = {}
    BY Writer
  <2>2. op'[c] = Idle /\ Idle \in TaskType /\ Idle.pc = "idle"
    BY DEF Idle, Task, TaskType, NoId, TypeOK
  <2>3. TypeOK' /\ \A d \in Callers : op'[d].pc # "exec"
    BY <2>1, <2>2 DEF TypeOK
  <2>4. OneWriter' /\ WritesFit' /\ TimesArePast'
    BY <2>3 DEF OneWriter, WritesFit, TimesArePast
  <2>5. IdsAreKeys' /\ RowsAreKnown' /\ OneRowUnlessLost'
    BY DEF IdsAreKeys, RowsAreKnown, OneRowUnlessLost
  <2> QED
    BY <2>3, <2>4, <2>5
<1>8. ASSUME NEW c \in Callers, List(c) \/ ListPage(c) \/ ListEnds(c) PROVE IInv'
  <2> USE DEF file, objects, process
  <2>1. /\ UNCHANGED <<file, objects, process, lock>>
        /\ \E t \in TaskType : t.pc # "exec" /\ op' = [op EXCEPT ![c] = t]
        /\ op[c].pc # "exec"
    <3>1. CASE List(c)
      <4>1. {r.id : r \in rows} \subseteq Ids
        BY DEF TypeOK, RowType
      <4> DEFINE S == {r.id : r \in rows}
                 t == [Task("list", "page", NoId, 0, 0, FALSE) EXCEPT !.start = S]
      <4>2. t \in TaskType /\ t.pc # "exec"
        <5>1. op[c] \in TaskType /\ S \in SUBSET Ids
          BY <4>1 DEF TypeOK
        <5> HIDE DEF S
        <5> QED
          BY <5>1, Began
      <4>3. op' = [op EXCEPT ![c] = t] /\ op[c].pc = "idle"
        BY <3>1 DEF List, Begin, Idle, Task
      <4> HIDE DEF t
      <4> QED
        BY <3>1, <4>2, <4>3 DEF List
    <3>2. CASE ListPage(c)
      <4> DEFINE got == {r.id : r \in Page(op[c].offset)}
                 t == [op[c] EXCEPT
                         !.pc = IF Cardinality(got) < PageSize THEN "listed" ELSE "page",
                         !.offset = @ + PageSize,
                         !.seen = @ \union got,
                         !.twice = @ \union (op[c].seen \intersect got)]
      <4>1. got \subseteq Ids
        BY DEF TypeOK, RowType, Page
      <4>2. t \in TaskType /\ t.pc # "exec"
        <5> DEFINE pc == IF Cardinality(got) < PageSize THEN "listed" ELSE "page"
        <5>1. op[c] \in TaskType /\ got \in SUBSET Ids /\ pc \in {"page", "listed"}
          BY <4>1 DEF TypeOK
        <5> HIDE DEF got, pc
        <5> QED
          BY <5>1, WentOn
      <4>3. op' = [op EXCEPT ![c] = t]
        BY <3>2 DEF ListPage
      <4> HIDE DEF t
      <4> QED
        BY <3>2, <4>2, <4>3 DEF ListPage
    <3>3. CASE ListEnds(c)
      <4>1. Idle \in TaskType /\ Idle.pc # "exec"
        BY DEF Idle, Task, TaskType, NoId
      <4> QED
        BY <3>3, <4>1 DEF ListEnds
    <3> QED
      BY <1>8, <3>1, <3>2, <3>3
  <2>2. TypeOK'
    BY <2>1 DEF TypeOK
  <2>3. OneWriter' /\ WritesFit' /\ TimesArePast'
    BY <2>1 DEF TypeOK, OneWriter, WritesFit, TimesArePast
  <2>4. IdsAreKeys' /\ RowsAreKnown' /\ OneRowUnlessLost'
    BY <2>1 DEF IdsAreKeys, RowsAreKnown, OneRowUnlessLost
  <2> QED
    BY <2>2, <2>3, <2>4
<1>9. CASE Crash
  <2>0. /\ UNCHANGED <<rows, acked, now, given, restarts>> /\ open' \in BOOLEAN /\ lock' = {}
        /\ op' = [c \in Callers |-> Idle] /\ object' = [m \in Memories |-> New]
        /\ lost' = lost \union {r.id[1] : r \in {r \in rows : r.id \notin acked}}
    BY <1>9 DEF Crash, file
  <2>1. Idle \in TaskType /\ Idle.pc = "idle"
    BY DEF Idle, Task, TaskType, NoId
  <2>2. TypeOK'
    <3>1. lost' \subseteq Memories
      BY <2>0 DEF TypeOK, RowType, Ids
    <3>2. op' \in [Callers -> TaskType] /\ \A c \in Callers : op'[c].pc # "exec"
      BY <2>0, <2>1
    <3>3. object' \in [Memories -> ObjectType]
      BY <2>0 DEF New, ObjectType
    <3> QED
      BY <2>0, <3>1, <3>2, <3>3 DEF TypeOK
  <2>3. OneWriter' /\ WritesFit'
    BY <2>0, <2>1 DEF OneWriter, WritesFit
  <2>4. TimesArePast'
    BY <2>0, <2>1 DEF TypeOK, TimesArePast, New
  <2>5. IdsAreKeys' /\ RowsAreKnown' /\ OneRowUnlessLost'
    BY <2>0 DEF IdsAreKeys, RowsAreKnown, OneRowUnlessLost
  <2> QED
    BY <2>2, <2>3, <2>4, <2>5
<1>10. CASE Close \/ Open \/ UNCHANGED vars
  <2>1. UNCHANGED <<rows, acked, now, given, object, lock, op, lost>>
    BY <1>10 DEF Close, Open, vars, file, objects
  <2>2. open' \in BOOLEAN
    BY <1>10 DEF Close, Open, vars, TypeOK
  <2>3. restarts' \in 0..MaxRestarts
    BY <1>10 DEF Close, Open, vars, TypeOK
  <2> QED
    BY <2>1, <2>2, <2>3 DEF TypeOK, OneWriter, IdsAreKeys, RowsAreKnown, WritesFit,
       TimesArePast, OneRowUnlessLost
<1> QED
  BY <1>1, <1>2, <1>3, <1>4, <1>5, <1>6, <1>7, <1>8, <1>9, <1>10 DEF Next

\* The inductive invariant holds of every behaviour.
THEOREM Invariance == Spec => []IInv
  BY InitEstablishes, StepPreserves, PTL DEF Spec

\* Every variable keeps its type; the mutex is held by the writers.
THEOREM TypeCorrect == Spec => []TypeOK
<1>1. IInv => TypeOK
  BY DEF IInv
<1> QED
  BY <1>1, Invariance, PTL

\* Repeating an Add leaves one row of its memory, crashes apart.
THEOREM OneRow == Spec => []OneRowUnlessLost
<1>1. IInv => OneRowUnlessLost
  BY DEF IInv
<1> QED
  BY <1>1, Invariance, PTL

-----------------------------------------------------------------------------
(* Pages that fit together                                                   *)

\* Where r stands in the order of List among the rows T.
Rank(T, r) == Cardinality({s \in T : Before(s, r)})

\* The rows are numbered in the order of their insertion.
PlacesFit ==
    /\ \A r \in rows : r.place \in 1..Cardinality(rows) /\ r.created <= now
    /\ \A r, s \in rows : r.place = s.place => r = s

\* What an object, a row and a listing carry are ids that were given before.
IdsWereGiven ==
    /\ \A m \in Memories : object[m].id <= given[m]
    /\ \A r \in rows : r.id[2] <= given[r.id[1]]
    /\ \A c \in Callers : \A id \in op[c].seen : id[2] <= given[id[1]]

\* The id of an object that was not handed in before is in no row and no listing.
AddsAreNew ==
    \A c \in Callers : Running(c, "add") /\ ~op[c].again =>
       /\ \A r \in rows : r.id # op[c].id
       /\ \A d \in Callers : op[c].id \notin op[d].seen

\* A listing has seen, of the rows of its start, those before its offset, and of
\* the rows there are, no other.
ListingFits(T, t) ==
    /\ t.pc = "page" =>
          /\ t.kind = "list"
          /\ \/ t.less
             \/ /\ \A id \in t.start : \E r \in T : r.id = id
                /\ \A r \in T : r.id \in t.start /\ Rank(T, r) < t.offset => r.id \in t.seen
          /\ \/ t.back
             \/ /\ t.twice = {}
                /\ \A r \in T : r.id \in t.seen => Rank(T, r) < t.offset
    /\ t.pc = "listed" =>
          /\ t.kind = "list"
          /\ t.less \/ t.start \subseteq t.seen
          /\ t.back \/ t.twice = {}

ListingsFit == \A c \in Callers : ListingFits(rows, op[c])

PagesIInv ==
    /\ IInv
    /\ PlacesFit
    /\ IdsWereGiven
    /\ AddsAreNew
    /\ ListingsFit

-----------------------------------------------------------------------------
\* Rows of a table.
Table(T) ==
    /\ T \subseteq RowType
    /\ IsFiniteSet(T)
    /\ \A r, s \in T : r.id = s.id => r = s
    /\ \A r, s \in T : r.place = s.place => r = s

\* The number of rows before one is a natural number, less than that of all.
LEMMA RankType ==
    ASSUME NEW T, Table(T), NEW r \in T
    PROVE  Rank(T, r) \in 0..(Cardinality(T) - 1)
<1> DEFINE B == {s \in T : Before(s, r)}
<1>1. B \in SUBSET T /\ r \notin B
  BY DEF Before, RowType, Table
<1>2. IsFiniteSet(B) /\ Cardinality(B) \in Nat /\ Cardinality(T) \in Nat
      /\ Cardinality(B) <= Cardinality(T) /\ (Cardinality(T) = Cardinality(B) => T = B)
  BY <1>1, FS_Subset, FS_CardinalityType DEF Table
<1> QED
  BY <1>1, <1>2 DEF Rank

\* A row before another has a lower rank.
LEMMA RankFollowsOrder ==
    ASSUME NEW T, Table(T), NEW r \in T, NEW s \in T, Before(r, s)
    PROVE  Rank(T, r) < Rank(T, s)
<1> DEFINE B == {x \in T : Before(x, r)}
           C == {x \in T : Before(x, s)}
<1>1. B \in SUBSET C /\ r \in C /\ r \notin B
  BY DEF Before, RowType, Table
<1>2. IsFiniteSet(C)
  BY FS_Subset DEF Table
<1>3. Cardinality(B) <= Cardinality(C) /\ (Cardinality(C) = Cardinality(B) => C = B)
  BY <1>1, <1>2, FS_Subset
<1>4. Cardinality(B) = Rank(T, r) /\ Cardinality(C) = Rank(T, s)
  BY DEF Rank
<1>5. Rank(T, r) \in Int /\ Rank(T, s) \in Int
  BY RankType
<1> HIDE DEF B, C
<1> QED
  BY <1>1, <1>3, <1>4, <1>5

\* No two rows have the same rank.
LEMMA RanksDiffer ==
    ASSUME NEW T, Table(T), NEW r \in T, NEW s \in T, Rank(T, r) = Rank(T, s)
    PROVE  r = s
<1>1. SUFFICES ASSUME r # s PROVE FALSE
  OBVIOUS
<1>2. Before(r, s) \/ Before(s, r)
  BY <1>1 DEF Before, RowType, Table
<1>3. Rank(T, r) < Rank(T, s) \/ Rank(T, s) < Rank(T, r)
  BY <1>2, RankFollowsOrder
<1> QED
  BY <1>3, RankType

\* So there is a row of each rank.
LEMMA RanksAreTaken ==
    ASSUME NEW T, Table(T), NEW k \in 0..(Cardinality(T) - 1)
    PROVE  \E r \in T : Rank(T, r) = k
<1> DEFINE I == 0..(Cardinality(T) - 1)
           f == [r \in T |-> Rank(T, r)]
<1>1. Cardinality(T) \in Nat
  BY FS_CardinalityType DEF Table
<1>2. IsFiniteSet(I) /\ Cardinality(I) = Cardinality(T)
  <2>1. Cardinality(T) - 1 \in Int /\ 0 \in Int
    BY <1>1
  <2>2. IsFiniteSet(I)
    BY <2>1, FS_Interval
  <2>3. Cardinality(I) = IF 0 > Cardinality(T) - 1 THEN 0 ELSE Cardinality(T) - 1 - 0 + 1
    BY <2>1, FS_Interval
  <2> QED
    BY <1>1, <2>2, <2>3
<1>3. \A r \in T : Rank(T, r) \in I
  BY RankType
<1>4. \A r, s \in T : Rank(T, r) = Rank(T, s) => r = s
  BY RanksDiffer
<1> HIDE DEF I
<1>5. f \in Injection(T, I)
  <2>1. f \in [T -> I]
    BY <1>3
  <2>2. \A r, s \in T : f[r] = f[s] => r = s
    BY <1>4
  <2> HIDE DEF f
  <2> QED
    BY <2>1, <2>2 DEF Injection, IsInjective
<1>6. f \in Surjection(T, I)
  BY <1>2, <1>5, FS_Injection
<1> QED
  BY <1>6 DEF Surjection, I

\* A page that is not full is the last one.
LEMMA LastPage ==
    ASSUME NEW T, Table(T), NEW offset \in Nat,
           NEW got, got = {r.id : r \in {r \in T : Rank(T, r) \in offset..(offset + PageSize - 1)}},
           Cardinality(got) < PageSize
    PROVE  \A r \in T : Rank(T, r) < offset + PageSize
<1> SUFFICES ASSUME NEW r \in T, ~(Rank(T, r) < offset + PageSize) PROVE FALSE
  OBVIOUS
<1> DEFINE I == offset..(offset + PageSize - 1)
           at(k) == CHOOSE s \in T : Rank(T, s) = k
           f == [k \in I |-> at(k).id]
           Ranked == {s \in T : Rank(T, s) \in I}
<1>1. \A k \in I : at(k) \in T /\ Rank(T, at(k)) = k
  <2> SUFFICES ASSUME NEW k \in I PROVE at(k) \in T /\ Rank(T, at(k)) = k
    OBVIOUS
  <2>1. Rank(T, r) \in 0..(Cardinality(T) - 1) /\ Cardinality(T) \in Nat
    BY RankType, FS_CardinalityType DEF Table
  <2>2. k \in 0..(Cardinality(T) - 1)
    BY <2>1
  <2>3. \E s \in T : Rank(T, s) = k
    BY <2>2, RanksAreTaken
  <2> QED
    BY <2>3
<1>2. got = {s.id : s \in Ranked}
  OBVIOUS
<1>3. IsFiniteSet(got)
  <2> DEFINE g == [s \in Ranked |-> s.id]
  <2>1. IsFiniteSet(Ranked)
    BY FS_Subset DEF Table
  <2>2. got = {g[s] : s \in Ranked}
    BY <1>2
  <2> HIDE DEF g, Ranked
  <2>3. IsFiniteSet({g[s] : s \in Ranked})
    BY <2>1, ImageIsFinite
  <2> QED
    BY <2>2, <2>3
<1>4. f \in Injection(I, got)
  <2> HIDE DEF at
  <2>1. \A k \in I : at(k) \in Ranked
    BY <1>1
  <2>2. \A k \in I : at(k).id \in got
    BY <1>2, <2>1
  <2>3. \A j, k \in I : at(j).id = at(k).id => j = k
    BY <1>1 DEF Table
  <2> HIDE DEF I
  <2>4. f \in [I -> got]
    BY <2>2
  <2>5. \A j, k \in I : f[j] = f[k] => j = k
    BY <2>3
  <2> HIDE DEF f
  <2> QED
    BY <2>4, <2>5 DEF Injection, IsInjective
<1>5. Cardinality(I) = PageSize
  BY FS_Interval
<1>6. Cardinality(I) <= Cardinality(got)
  BY <1>3, <1>4, FS_Injection
<1>7. Cardinality(got) \in Nat
  BY <1>3, FS_CardinalityType
<1> QED
  BY <1>5, <1>6, <1>7

\* A row has no higher rank than another when each row before it has one of the
\* same id before the other.
LEMMA RankGrows ==
    ASSUME NEW S, Table(S), NEW T, Table(T), NEW r \in S, NEW t \in T,
           \A s \in S : Before(s, r) => \E u \in T : u.id = s.id /\ Before(u, t)
    PROVE  Rank(S, r) <= Rank(T, t)
<1> DEFINE B == {s \in S : Before(s, r)}
           C == {u \in T : Before(u, t)}
           to(s) == CHOOSE u \in C : u.id = s.id
           f == [s \in B |-> to(s)]
<1>1. \A s \in B : to(s) \in C /\ to(s).id = s.id
  OBVIOUS
<1>2. f \in Injection(B, C)
  <2>1. \A x, y \in B : x.id = y.id => x = y
    BY DEF Table
  <2> HIDE DEF to, B, C
  <2>2. f \in [B -> C]
    BY <1>1
  <2>3. \A x, y \in B : f[x] = f[y] => x = y
    BY <1>1, <2>1
  <2> HIDE DEF f
  <2> QED
    BY <2>2, <2>3 DEF Injection, IsInjective
<1>3. IsFiniteSet(C)
  BY FS_Subset DEF Table
<1>4. Rank(S, r) = Cardinality(B) /\ Rank(T, t) = Cardinality(C)
  BY DEF Rank
<1> HIDE DEF f, B, C
<1>5. Cardinality(B) <= Cardinality(C)
  BY <1>2, <1>3, FS_Injection
<1> QED
  BY <1>4, <1>5

-----------------------------------------------------------------------------
\* The rows are a table.
LEMMA RowsAreTable ==
    ASSUME IInv, PlacesFit
    PROVE  Table(rows) /\ Cardinality(rows) \in Nat
BY FS_CardinalityType DEF IInv, TypeOK, IdsAreKeys, PlacesFit, Table

\* A listing fits the rows T when it fitted the rows S, it was told of what it
\* must know, and what it relies on is the same.
LEMMA StillFits ==
    ASSUME NEW S, Table(S), NEW T, Table(T),
           NEW t \in TaskType, NEW u \in TaskType, ListingFits(S, t),
           u.pc = t.pc, u.kind = t.kind, u.offset = t.offset, u.start = t.start,
           u.seen = t.seen, u.twice = t.twice,
           t.less => u.less, t.back => u.back,
           t.kind = "list" /\ ~u.less =>
              /\ \A s \in S : \E r \in T : r.id = s.id
              /\ \A s \in S, r \in T : s.id = r.id => Rank(S, s) <= Rank(T, r),
           t.kind = "list" /\ ~u.back =>
              /\ \A s \in S, r \in T : s.id = r.id => Rank(T, r) <= Rank(S, s)
              /\ \A r \in T : r.id \in t.seen => \E s \in S : s.id = r.id
    PROVE  ListingFits(T, u)
<1>1. \A s \in S : Rank(S, s) \in Int
  BY RankType
<1>2. \A r \in T : Rank(T, r) \in Int
  BY RankType
<1>3. t.offset \in Int
  BY DEF TaskType
<1>4. ASSUME u.pc = "page", ~u.less
      PROVE  /\ \A id \in u.start : \E r \in T : r.id = id
             /\ \A r \in T : r.id \in u.start /\ Rank(T, r) < u.offset => r.id \in u.seen
  <2>1. /\ \A id \in u.start : \E s \in S : s.id = id
        /\ \A s \in S : s.id \in u.start /\ Rank(S, s) < u.offset => s.id \in u.seen
        /\ t.kind = "list"
    BY <1>4 DEF ListingFits
  <2>2. ASSUME NEW r \in T, r.id \in u.start, Rank(T, r) < u.offset
        PROVE  r.id \in u.seen
    <3>1. PICK s \in S : s.id = r.id
      BY <2>1, <2>2
    <3>2. Rank(S, s) <= Rank(T, r)
      BY <1>4, <2>1, <3>1
    <3>3. Rank(S, s) < u.offset
      BY <1>1, <1>2, <1>3, <2>2, <3>2
    <3> QED
      BY <2>1, <2>2, <3>1, <3>3
  <2> QED
    BY <1>4, <2>1, <2>2
<1>5. ASSUME u.pc = "page", ~u.back
      PROVE  /\ u.twice = {}
             /\ \A r \in T : r.id \in u.seen => Rank(T, r) < u.offset
  <2>1. /\ u.twice = {} /\ t.kind = "list"
        /\ \A s \in S : s.id \in u.seen => Rank(S, s) < u.offset
    BY <1>5 DEF ListingFits
  <2>2. ASSUME NEW r \in T, r.id \in u.seen
        PROVE  Rank(T, r) < u.offset
    <3>1. PICK s \in S : s.id = r.id
      BY <1>5, <2>1, <2>2
    <3>2. Rank(T, r) <= Rank(S, s)
      BY <1>5, <2>1, <3>1
    <3>3. Rank(S, s) < u.offset
      BY <2>1, <2>2, <3>1
    <3> QED
      BY <1>1, <1>2, <1>3, <3>2, <3>3
  <2> QED
    BY <2>1, <2>2
<1>6. u.pc \in {"page", "listed"} => u.kind = "list"
  BY DEF ListingFits
<1>7. u.pc = "listed" => /\ u.less \/ u.start \subseteq u.seen
                         /\ u.back \/ u.twice = {}
  BY DEF ListingFits
<1> QED
  BY <1>4, <1>5, <1>6, <1>7 DEF ListingFits

\* Rows written again stand where they stood.
LEMMA RanksStay ==
    ASSUME NEW S, Table(S), NEW T, Table(T),
           \A s \in S : \E t \in T : t.id = s.id /\ t.created = s.created /\ t.place = s.place,
           \A t \in T : \E s \in S : t.id = s.id /\ t.created = s.created /\ t.place = s.place
    PROVE  \A s \in S, t \in T : s.id = t.id => Rank(S, s) = Rank(T, t)
<1> SUFFICES ASSUME NEW s \in S, NEW t \in T, s.id = t.id PROVE Rank(S, s) = Rank(T, t)
  OBVIOUS
<1>1. t.created = s.created /\ t.place = s.place
  BY DEF Table
<1>2. \A x \in S : Before(x, s) => \E u \in T : u.id = x.id /\ Before(u, t)
  BY <1>1 DEF Before
<1>3. \A x \in T : Before(x, t) => \E u \in S : u.id = x.id /\ Before(u, s)
  BY <1>1 DEF Before
<1>4. Rank(S, s) <= Rank(T, t)
  BY <1>2, RankGrows
<1>5. Rank(T, t) <= Rank(S, s)
  BY <1>3, RankGrows
<1>6. Rank(S, s) \in Int /\ Rank(T, t) \in Int
  BY RankType
<1> QED
  BY <1>4, <1>5, <1>6

\* A step that writes no row and goes on with no listing.
LEMMA QuietStep ==
    ASSUME PagesIInv, IInv', UNCHANGED <<rows, given>>, now' >= now,
           \A m \in Memories : object'[m].id <= given[m],
           \A d \in Callers : \/ op'[d] = op[d]
                              \/ /\ op'[d].pc \notin {"page", "listed"}
                                 /\ op'[d].kind # "add" /\ op'[d].seen = {}
    PROVE  PagesIInv'
<1>1. PlacesFit'
  BY DEF PagesIInv, PlacesFit, IInv, TypeOK, RowType
<1>2. IdsWereGiven'
  BY DEF PagesIInv, IdsWereGiven
<1>3. AddsAreNew'
  BY DEF PagesIInv, AddsAreNew, Running
<1>4. ListingsFit'
  BY DEF PagesIInv, ListingsFit, ListingFits
<1> QED
  BY <1>1, <1>2, <1>3, <1>4 DEF PagesIInv

\* Initially there is no row and no listing.
LEMMA PagesInitially == Init => PagesIInv
<1> SUFFICES ASSUME Init PROVE PagesIInv
  OBVIOUS
<1> USE DEF Init, Idle, Task, New
<1>1. PlacesFit /\ IdsWereGiven
  BY DEF PlacesFit, IdsWereGiven
<1>2. AddsAreNew /\ ListingsFit
  BY DEF AddsAreNew, Running, ListingsFit, ListingFits
<1> QED
  BY <1>1, <1>2, InitEstablishes DEF PagesIInv

\* An Add begins: the id it gives is new.
LEMMA PagesAdd ==
    ASSUME PagesIInv, IInv', NEW c \in Callers, NEW m \in Memories, Add(c, m)
    PROVE  PagesIInv'
<1> USE DEF PagesIInv
<1> DEFINE task == Task("add", "exec", <<m, object'[m].id>>, object'[m].created,
                        object'[m].updated, object[m] # New)
<1>1. /\ UNCHANGED rows /\ now' \in now..MaxTime
      /\ op' = [op EXCEPT ![c] = task] /\ lock = {}
      /\ given' = [given EXCEPT ![m] = IF object[m].id = 0 THEN @ + 1 ELSE @]
      /\ object'[m].id = IF object[m].id = 0 THEN given'[m] ELSE object[m].id
      /\ \A n \in Memories : n # m => object'[n] = object[n]
      /\ object' \in [Memories -> ObjectType]
  BY Handed DEF IInv, Add, Insert, Locks, Begin, file, process
<1>2. /\ task.kind = "add" /\ task.pc = "exec" /\ task.id = <<m, object'[m].id>>
      /\ task.again = (object[m] # New) /\ task.seen = {}
  BY DEF Task
<1> HIDE DEF task
<1>3. op'[c] = task /\ \A d \in Callers : d # c => op'[d] = op[d]
  BY <1>1 DEF IInv, TypeOK
<1>4. \A d \in Callers : op[d].pc # "exec"
  BY <1>1, NoWriter DEF IInv
<1>5. /\ \A n \in Memories : given[n] <= given'[n] /\ object'[n].id <= given'[n]
      /\ object[m] = New => object'[m].id > given[m]
  BY <1>1 DEF IInv, TypeOK, IdsWereGiven, ObjectType, New
<1>6. PlacesFit'
  BY <1>1 DEF PlacesFit, IInv, TypeOK, RowType
<1>7. IdsWereGiven'
  <2>1. \A r \in rows : r.id[1] \in Memories /\ r.id[2] \in Int
    BY DEF IInv, TypeOK, RowType, Ids
  <2>2. \A d \in Callers : \A id \in op[d].seen : id[1] \in Memories /\ id[2] \in Int
    BY DEF IInv, TypeOK, TaskType, Ids
  <2>3. \A n \in Memories : given[n] \in Int /\ given'[n] \in Int
    BY DEF IInv, TypeOK
  <2> QED
    BY <1>1, <1>2, <1>3, <1>5, <2>1, <2>2, <2>3 DEF IdsWereGiven
<1>8. AddsAreNew'
  <2>1. \A d \in Callers : op'[d].pc = "exec" => d = c
    BY <1>3, <1>4
  <2>2. ~task.again => task.id[1] = m /\ task.id[2] > given[m]
    <3>1. task.id[1] = m /\ task.id[2] = object'[m].id
      BY <1>2
    <3>2. ~task.again => object[m] = New
      BY <1>2
    <3> QED
      BY <1>5, <3>1, <3>2
  <2>3. \A r \in rows : r.id[1] = m => r.id[2] <= given[m] /\ r.id[2] \in Int
    BY DEF IInv, TypeOK, RowType, Ids, IdsWereGiven
  <2>4. \A d \in Callers : \A id \in op[d].seen : id[1] = m => id[2] <= given[m] /\ id[2] \in Int
    BY DEF IInv, TypeOK, TaskType, Ids, IdsWereGiven
  <2>5. task.id[2] \in Int /\ given[m] \in Int
    BY <1>2 DEF IInv, TypeOK, ObjectType
  <2>6. ~task.again => \A r \in rows : r.id # task.id
    BY <2>2, <2>3, <2>5
  <2>7. ~task.again => \A d \in Callers : task.id \notin op[d].seen
    BY <2>2, <2>4, <2>5
  <2> QED
    BY <1>1, <1>2, <1>3, <2>1, <2>6, <2>7 DEF AddsAreNew, Running
<1>9. ListingsFit'
  BY <1>1, <1>2, <1>3 DEF ListingsFit, ListingFits
<1> QED
  BY <1>6, <1>7, <1>8, <1>9

\* The rows after an Add: the row of its id is written again, or a new one comes
\* last.
LEMMA PagesAddCommits ==
    ASSUME PagesIInv, IInv', NEW c \in Callers, AddCommits(c)
    PROVE  PagesIInv'
<1> USE DEF PagesIInv
<1> DEFINE id == op[c].id
           n == Cardinality(rows)
<1>1. /\ Running(c, "add") /\ rows' = Upsert(c) /\ UNCHANGED <<now, given, object>>
      /\ op' = [d \in Callers |->
                  IF d = c THEN Idle
                  ELSE [op[d] EXCEPT !.back = IF Listing(d) /\ ComesInOld(c) THEN TRUE ELSE @]]
  BY DEF AddCommits, objects
<1>2. Table(rows) /\ n \in Nat
  BY RowsAreTable
<1>3. op'[c] = Idle /\ Idle.pc = "idle" /\ Idle.kind = "idle" /\ Idle.seen = {}
  BY <1>1 DEF Idle, Task
<1>4. \A d \in Callers \ {c} :
         /\ op[d] \in TaskType /\ op'[d] \in TaskType
         /\ op'[d].pc = op[d].pc /\ op'[d].kind = op[d].kind /\ op'[d].offset = op[d].offset
         /\ op'[d].start = op[d].start /\ op'[d].seen = op[d].seen
         /\ op'[d].twice = op[d].twice /\ op'[d].less = op[d].less
         /\ op[d].back => op'[d].back
         /\ op[d].kind = "list" /\ ComesInOld(c) => op'[d].back
  <2> SUFFICES ASSUME NEW d \in Callers \ {c}
               PROVE  /\ op[d] \in TaskType /\ op'[d] \in TaskType
                      /\ op'[d].pc = op[d].pc /\ op'[d].kind = op[d].kind
                      /\ op'[d].offset = op[d].offset
                      /\ op'[d].start = op[d].start /\ op'[d].seen = op[d].seen
                      /\ op'[d].twice = op[d].twice /\ op'[d].less = op[d].less
                      /\ op[d].back => op'[d].back
                      /\ op[d].kind = "list" /\ ComesInOld(c) => op'[d].back
    OBVIOUS
  <2>1. op[d] \in TaskType /\ op'[d] \in TaskType
    BY DEF IInv, TypeOK
  <2> DEFINE b == IF Listing(d) /\ ComesInOld(c) THEN TRUE ELSE op[d].back
  <2>2. op'[d] = [op[d] EXCEPT !.back = b]
    BY <1>1
  <2>3. /\ op[d].back => b
        /\ op[d].kind = "list" /\ ComesInOld(c) => b
    BY DEF Listing
  <2> HIDE DEF b
  <2> QED
    BY <2>1, <2>2, <2>3 DEF TaskType
<1>5. /\ id \in Ids /\ id[2] <= given[id[1]]
      /\ op[c].created \in 1..now /\ op[c].created \in 1..MaxTime
      /\ op[c].updated \in 1..now /\ op[c].updated \in 1..MaxTime
  BY <1>1 DEF IInv, WritesFit, TimesArePast, Running, IdsWereGiven, Ids, TypeOK
<1>6. now \in 1..MaxTime
  BY DEF IInv, TypeOK
<1>7. CASE RowOf(id) # {}
  <2>1. PICK old \in rows : old.id = id /\ RowOf(id) = {old}
    BY <1>2, <1>7 DEF RowOf, Table
  <2> DEFINE new == [old EXCEPT !.updated = op[c].updated]
  <2>2. rows' = {r \in rows : r.id # id} \union {new}
    BY <1>1, <1>7, <2>1 DEF Upsert
  <2>3. /\ new \in RowType /\ new.id = id /\ new.created = old.created
        /\ new.place = old.place
    BY <1>2, <1>5, <2>1 DEF Table, RowType
  <2> HIDE DEF new
  <2>4. /\ \A s \in rows : \E t \in rows' :
              t.id = s.id /\ t.created = s.created /\ t.place = s.place
        /\ \A t \in rows' : \E s \in rows :
              t.id = s.id /\ t.created = s.created /\ t.place = s.place
    BY <1>2, <2>1, <2>2, <2>3 DEF Table
  <2>5. Cardinality(rows') = n
    <3>1. rows' = (rows \ {old}) \union {new} /\ new \notin rows \ {old}
      BY <1>2, <2>1, <2>2, <2>3 DEF Table
    <3>2. IsFiniteSet(rows)
      BY <1>2 DEF Table
    <3>3. IsFiniteSet(rows \ {old}) /\ Cardinality(rows \ {old}) = n - 1
      BY <2>1, <3>2, FS_RemoveElement
    <3>4. Cardinality((rows \ {old}) \union {new}) = Cardinality(rows \ {old}) + 1
      BY <3>1, <3>3, FS_AddElement
    <3> QED
      BY <1>2, <3>1, <3>3, <3>4
  <2>6. PlacesFit'
    <3>1. \A r \in rows' : r.place \in 1..n /\ r.created <= now
      BY <2>4 DEF PlacesFit
    <3>2. \A r, s \in rows' : r.place = s.place => r = s
      BY <1>2, <2>1, <2>2, <2>3 DEF Table
    <3> QED
      BY <1>1, <2>5, <3>1, <3>2 DEF PlacesFit
  <2>7. Table(rows')
    BY <2>6 DEF IInv, TypeOK, IdsAreKeys, PlacesFit, Table
  <2>8. IdsWereGiven'
    BY <1>1, <1>3, <1>4, <2>4 DEF IdsWereGiven
  <2>9. AddsAreNew'
    <3>1. \A d \in Callers : op'[d].pc # "exec"
      BY <1>1, <1>3, <1>4 DEF IInv, OneWriter, Running
    <3> QED
      BY <3>1 DEF AddsAreNew, Running
  <2>10. ListingsFit'
    <3> SUFFICES ASSUME NEW d \in Callers PROVE ListingFits(rows', op'[d])
      BY DEF ListingsFit
    <3>1. CASE d = c
      BY <1>3, <3>1 DEF ListingFits
    <3>2. CASE d # c
      <4>1. \A s \in rows, t \in rows' : s.id = t.id => Rank(rows, s) = Rank(rows', t)
        BY <1>2, <2>4, <2>7, RanksStay
      <4>2. \A s \in rows, t \in rows' :
               s.id = t.id => Rank(rows, s) <= Rank(rows', t) /\ Rank(rows', t) <= Rank(rows, s)
        BY <1>2, <2>7, <4>1, RankType
      <4>3. ListingFits(rows, op[d])
        BY DEF ListingsFit
      <4> QED
        BY <1>2, <1>4, <2>4, <2>7, <3>2, <4>2, <4>3, StillFits
    <3> QED
      BY <3>1, <3>2
  <2> QED
    BY <2>6, <2>8, <2>9, <2>10
<1>8. CASE RowOf(id) = {}
  <2> DEFINE new == [id |-> id, created |-> op[c].created, updated |-> op[c].updated, place |-> n + 1]
  <2>1. rows' = rows \union {new} /\ \A r \in rows : r.id # id
    BY <1>1, <1>8 DEF Upsert, RowOf
  <2>2. /\ new \in RowType /\ new.id = id /\ new.created = op[c].created /\ new.place = n + 1
    BY <1>2, <1>5 DEF RowType
  <2> HIDE DEF new
  <2>3. Cardinality(rows') = n + 1
    <3>1. IsFiniteSet(rows) /\ new \notin rows
      BY <1>2, <2>1, <2>2 DEF Table
    <3> QED
      BY <2>1, <3>1, FS_AddElement
  <2>4. \A r \in rows : r \in RowType /\ r.place \in 1..n /\ r.created <= now
    BY <1>2 DEF PlacesFit, Table
  <2>5. PlacesFit'
    <3>1. \A r \in rows' : r.place \in 1..(n + 1) /\ r.created <= now
      BY <1>2, <1>5, <1>6, <2>1, <2>2, <2>4 DEF RowType
    <3>2. \A r, s \in rows' : r.place = s.place => r = s
      BY <1>2, <2>1, <2>2, <2>4 DEF Table
    <3> QED
      BY <1>1, <2>3, <3>1, <3>2 DEF PlacesFit
  <2>6. Table(rows')
    BY <2>5 DEF IInv, TypeOK, IdsAreKeys, PlacesFit, Table
  <2>7. IdsWereGiven'
    BY <1>1, <1>3, <1>4, <1>5, <2>1, <2>2 DEF IdsWereGiven
  <2>8. AddsAreNew'
    <3>1. \A d \in Callers : op'[d].pc # "exec"
      BY <1>1, <1>3, <1>4 DEF IInv, OneWriter, Running
    <3> QED
      BY <3>1 DEF AddsAreNew, Running
  <2>9. \A s \in rows, t \in rows' : s.id = t.id => s = t
    BY <1>2, <2>1, <2>2 DEF Table
  <2>10. \A s \in rows : Rank(rows, s) <= Rank(rows', s)
    <3> SUFFICES ASSUME NEW s \in rows PROVE Rank(rows, s) <= Rank(rows', s)
      OBVIOUS
    <3>1. s \in rows' /\ \A x \in rows : Before(x, s) => \E u \in rows' : u.id = x.id /\ Before(u, s)
      BY <2>1
    <3> QED
      BY <1>2, <2>6, <3>1, RankGrows
  \* The new row comes last, but for one with an older time.
  <2>11. ASSUME ~ComesInOld(c)
         PROVE  \A s \in rows : Rank(rows', s) <= Rank(rows, s)
    <3> SUFFICES ASSUME NEW s \in rows PROVE Rank(rows', s) <= Rank(rows, s)
      OBVIOUS
    <3>1. ~Before(new, s)
      <4>1. new.created = now
        BY <1>5, <1>6, <1>8, <2>2, <2>11 DEF ComesInOld
      <4> QED
        BY <1>2, <1>6, <2>2, <2>4, <4>1 DEF Before, RowType
    <3>2. s \in rows' /\ \A x \in rows' : Before(x, s) => \E u \in rows : u.id = x.id /\ Before(u, s)
      BY <2>1, <3>1
    <3> QED
      BY <1>2, <2>6, <3>2, RankGrows
  <2>12. ListingsFit'
    <3> SUFFICES ASSUME NEW d \in Callers PROVE ListingFits(rows', op'[d])
      BY DEF ListingsFit
    <3>1. CASE d = c
      BY <1>3, <3>1 DEF ListingFits
    <3>2. CASE d # c
      <4>1. ListingFits(rows, op[d])
        BY DEF ListingsFit
      <4>2. /\ \A s \in rows : \E r \in rows' : r.id = s.id
            /\ \A s \in rows, r \in rows' : s.id = r.id => Rank(rows, s) <= Rank(rows', r)
        BY <2>1, <2>9, <2>10
      <4>3. ASSUME op[d].kind = "list" /\ ~op'[d].back
            PROVE  /\ \A s \in rows, r \in rows' : s.id = r.id => Rank(rows', r) <= Rank(rows, s)
                   /\ \A r \in rows' : r.id \in op[d].seen => \E s \in rows : s.id = r.id
        <5>1. ~ComesInOld(c) /\ ~op[c].again
          BY <1>4, <1>8, <3>2, <4>3 DEF ComesInOld
        <5>2. id \notin op[d].seen
          BY <1>1, <5>1 DEF AddsAreNew
        <5> QED
          BY <2>1, <2>2, <2>9, <2>11, <5>1, <5>2
      <4> QED
        BY <1>2, <1>4, <2>6, <3>2, <4>1, <4>2, <4>3, StillFits
    <3> QED
      BY <3>1, <3>2
  <2> QED
    BY <2>5, <2>7, <2>8, <2>12
<1> QED
  BY <1>7, <1>8

\* After an Update the rows stand where they stood.
LEMMA PagesUpdateCommits ==
    ASSUME PagesIInv, IInv', NEW c \in Callers, UpdateCommits(c)
    PROVE  PagesIInv'
<1> USE DEF PagesIInv
<1>1. /\ Running(c, "update") /\ rows' = Retimed(op[c].id, op[c].updated)
      /\ UNCHANGED <<now, given, object>> /\ op' = [op EXCEPT ![c] = Idle]
  BY DEF UpdateCommits, Retimed, objects
<1>2. Table(rows) /\ Cardinality(rows) \in Nat
  BY RowsAreTable
<1>3. /\ op'[c].pc = "idle" /\ op'[c].seen = {} /\ \A d \in Callers \ {c} : op'[d] = op[d]
      /\ \A d \in Callers : op'[d].pc # "exec"
  BY <1>1 DEF IInv, TypeOK, OneWriter, Running, Idle, Task
<1> DEFINE f == [r \in rows |-> IF r.id = op[c].id THEN [r EXCEPT !.updated = op[c].updated] ELSE r]
<1>4. rows' = {f[r] : r \in rows}
  BY <1>1 DEF Retimed
<1>5. \A r \in rows : /\ f[r].id = r.id /\ f[r].created = r.created /\ f[r].place = r.place
                      /\ f[r] \in rows'
  BY <1>2, <1>4 DEF Table, RowType
<1> HIDE DEF f
<1>6. /\ \A s \in rows : \E t \in rows' :
            t.id = s.id /\ t.created = s.created /\ t.place = s.place
      /\ \A t \in rows' : \E s \in rows :
            t = f[s] /\ t.id = s.id /\ t.created = s.created /\ t.place = s.place
  BY <1>4, <1>5
<1>7. Cardinality(rows') = Cardinality(rows)
  <2>1. f \in [rows -> rows']
    <3>1. f = [r \in rows |-> f[r]]
      BY DEF f
    <3> QED
      BY <1>5, <3>1
  <2>2. f \in Bijection(rows, rows')
    <3>1. \A r, s \in rows : f[r] = f[s] => r = s
      BY <1>2, <1>5 DEF Table
    <3>2. \A t \in rows' : \E s \in rows : f[s] = t
      BY <1>6
    <3> QED
      BY <2>1, <3>1, <3>2 DEF Bijection, Injection, IsInjective, Surjection
  <2>3. ExistsBijection(rows, rows') /\ IsFiniteSet(rows)
    BY <1>2, <2>2 DEF ExistsBijection, Table
  <2> QED
    BY <2>3, FS_Bijection
<1>8. PlacesFit'
  <2>1. \A r \in rows' : r.place \in 1..Cardinality(rows) /\ r.created <= now
    BY <1>6 DEF PlacesFit
  <2>2. \A r, s \in rows' : r.place = s.place => r = s
    BY <1>2, <1>6 DEF Table
  <2> QED
    BY <1>1, <1>7, <2>1, <2>2 DEF PlacesFit
<1>9. Table(rows')
  BY <1>8 DEF IInv, TypeOK, IdsAreKeys, PlacesFit, Table
<1>10. IdsWereGiven'
  BY <1>1, <1>3, <1>6 DEF IdsWereGiven
<1>11. AddsAreNew'
  BY <1>3 DEF AddsAreNew, Running
<1>12. ListingsFit'
  <2> SUFFICES ASSUME NEW d \in Callers PROVE ListingFits(rows', op'[d])
    BY DEF ListingsFit
  <2>1. CASE d = c
    BY <1>3, <2>1 DEF ListingFits
  <2>2. CASE d # c
    <3>1. \A s \in rows, t \in rows' : s.id = t.id => Rank(rows, s) = Rank(rows', t)
      BY <1>2, <1>6, <1>9, RanksStay
    <3>2. \A s \in rows, t \in rows' :
             s.id = t.id => Rank(rows, s) <= Rank(rows', t) /\ Rank(rows', t) <= Rank(rows, s)
      BY <1>2, <1>9, <3>1, RankType
    <3>3. ListingFits(rows, op[d]) /\ op'[d] = op[d] /\ op[d] \in TaskType
      BY <1>3, <2>2 DEF ListingsFit, IInv, TypeOK
    <3> QED
      BY <1>2, <1>6, <1>9, <3>2, <3>3, StillFits
  <2> QED
    BY <2>1, <2>2
<1> QED
  BY <1>8, <1>10, <1>11, <1>12

\* A Delete leaves the rows that stay in their order, each with a rank no higher
\* than before; the listings are told of a row that goes.
LEMMA PagesDeleteCommits ==
    ASSUME PagesIInv, IInv', NEW c \in Callers, DeleteCommits(c)
    PROVE  PagesIInv'
<1> USE DEF PagesIInv
<1> DEFINE id == op[c].id
           n == Cardinality(rows)
           before(r) == Cardinality({s \in RowOf(id) : s.place < r.place})
           moved(r) == [r EXCEPT !.place = @ - before(r)]
           left == rows \ RowOf(id)
<1>1. /\ Running(c, "delete") /\ UNCHANGED <<now, given, object>>
      /\ rows' = {moved(r) : r \in left}
      /\ op' = [d \in Callers |->
                 IF d = c THEN Idle
                 ELSE [op[d] EXCEPT !.less = IF Listing(d) /\ RowOf(id) # {} THEN TRUE ELSE @]]
  BY DEF DeleteCommits, objects
<1>2. Table(rows) /\ n \in Nat
  BY RowsAreTable
<1>3. op'[c] = Idle /\ Idle.pc = "idle" /\ Idle.kind = "idle" /\ Idle.seen = {}
  BY <1>1 DEF Idle, Task
<1>4. \A d \in Callers \ {c} :
         /\ op[d] \in TaskType /\ op'[d] \in TaskType
         /\ op'[d].pc = op[d].pc /\ op'[d].kind = op[d].kind /\ op'[d].offset = op[d].offset
         /\ op'[d].start = op[d].start /\ op'[d].seen = op[d].seen
         /\ op'[d].twice = op[d].twice /\ op'[d].back = op[d].back
         /\ op[d].less => op'[d].less
         /\ op[d].kind = "list" /\ RowOf(id) # {} => op'[d].less
  <2> SUFFICES ASSUME NEW d \in Callers \ {c}
               PROVE  /\ op[d] \in TaskType /\ op'[d] \in TaskType
                      /\ op'[d].pc = op[d].pc /\ op'[d].kind = op[d].kind
                      /\ op'[d].offset = op[d].offset
                      /\ op'[d].start = op[d].start /\ op'[d].seen = op[d].seen
                      /\ op'[d].twice = op[d].twice /\ op'[d].back = op[d].back
                      /\ op[d].less => op'[d].less
                      /\ op[d].kind = "list" /\ RowOf(id) # {} => op'[d].less
    OBVIOUS
  <2>1. op[d] \in TaskType /\ op'[d] \in TaskType
    BY DEF IInv, TypeOK
  <2> DEFINE b == IF Listing(d) /\ RowOf(id) # {} THEN TRUE ELSE op[d].less
  <2>2. op'[d] = [op[d] EXCEPT !.less = b]
    BY <1>1
  <2>3. /\ op[d].less => b
        /\ op[d].kind = "list" /\ RowOf(id) # {} => b
    BY DEF Listing
  <2> HIDE DEF b
  <2> QED
    BY <2>1, <2>2, <2>3 DEF TaskType
<1>5. \A r \in left : r \in rows /\ r \in RowType /\ r.place \in 1..n /\ r.created <= now
  BY <1>2 DEF PlacesFit, Table
<1>6. CASE RowOf(id) = {}
  <2>1. \A r \in left : moved(r) = r
    <3> SUFFICES ASSUME NEW r \in left PROVE moved(r) = r
      OBVIOUS
    <3>1. {s \in RowOf(id) : s.place < r.place} = {}
      BY <1>6
    <3>2. before(r) = 0
      BY <3>1, FS_EmptySet
    <3> HIDE DEF before
    <3> QED
      BY <1>5, <3>2 DEF RowType
  <2>2. rows' = rows
    <3> HIDE DEF moved
    <3> QED
      BY <1>1, <1>6, <2>1
  <2>3. PlacesFit' /\ IdsWereGiven' /\ AddsAreNew'
    <3>1. PlacesFit' /\ IdsWereGiven'
      BY <1>1, <1>3, <1>4, <2>2 DEF PlacesFit, IdsWereGiven
    <3>2. \A d \in Callers : op'[d].pc # "exec"
      BY <1>1, <1>3, <1>4 DEF IInv, OneWriter, Running
    <3> QED
      BY <3>1, <3>2 DEF AddsAreNew, Running
  <2>4. ListingsFit'
    <3> SUFFICES ASSUME NEW d \in Callers PROVE ListingFits(rows', op'[d])
      BY DEF ListingsFit
    <3>1. CASE d = c
      BY <1>3, <3>1 DEF ListingFits
    <3>2. CASE d # c
      <4>1. ListingFits(rows, op[d])
        BY DEF ListingsFit
      <4> QED
        BY <1>4, <2>2, <3>2, <4>1 DEF ListingFits
    <3> QED
      BY <3>1, <3>2
  <2> QED
    BY <2>3, <2>4
<1>7. CASE RowOf(id) # {}
  <2>1. PICK old \in rows : old.id = id /\ RowOf(id) = {old}
    BY <1>2, <1>7 DEF RowOf, Table
  <2>2. left = rows \ {old} /\ old.place \in 1..n
    BY <2>1 DEF PlacesFit
  <2>3. \A r \in left : before(r) = IF old.place < r.place THEN 1 ELSE 0
    <3> SUFFICES ASSUME NEW r \in left PROVE before(r) = IF old.place < r.place THEN 1 ELSE 0
      OBVIOUS
    <3>1. CASE old.place < r.place
      <4>1. {s \in RowOf(id) : s.place < r.place} = {old}
        BY <2>1, <3>1
      <4> QED
        BY <3>1, <4>1, FS_Singleton
    <3>2. CASE ~(old.place < r.place)
      <4>1. {s \in RowOf(id) : s.place < r.place} = {}
        BY <2>1, <3>2
      <4> QED
        BY <3>2, <4>1, FS_EmptySet
    <3> QED
      BY <3>1, <3>2
  <2>4. \A r \in left : /\ r.place # old.place
                        /\ r.place \in 1..n /\ r.id # id
    BY <1>2, <1>5, <2>1, <2>2 DEF Table
  <2> HIDE DEF before, left
  <2>5. \A r \in left : /\ moved(r).id = r.id /\ moved(r).created = r.created
                        /\ moved(r).place = IF old.place < r.place THEN r.place - 1 ELSE r.place
                        /\ moved(r).place \in 1..(n - 1)
    <3> SUFFICES ASSUME NEW r \in left
                 PROVE  /\ moved(r).id = r.id /\ moved(r).created = r.created
                        /\ moved(r).place = IF old.place < r.place THEN r.place - 1 ELSE r.place
                        /\ moved(r).place \in 1..(n - 1)
      OBVIOUS
    <3>1. r \in RowType /\ r.place \in 1..n /\ r.place # old.place /\ old.place \in 1..n
      BY <1>5, <2>2, <2>4
    <3>2. /\ moved(r).id = r.id /\ moved(r).created = r.created
          /\ moved(r).place = r.place - before(r)
      BY <3>1 DEF RowType
    <3> HIDE DEF moved
    <3>3. r.place - before(r) = IF old.place < r.place THEN r.place - 1 ELSE r.place
      BY <2>3, <3>1
    <3> QED
      BY <1>2, <3>1, <3>2, <3>3
  <2> HIDE DEF moved
  <2>6. \A t \in rows' : \E r \in left :
           /\ t = moved(r) /\ t.id = r.id /\ t.created = r.created
           /\ t.place = IF old.place < r.place THEN r.place - 1 ELSE r.place
           /\ t.place \in 1..(n - 1)
    BY <1>1, <2>5
  <2>7. Cardinality(left) = n - 1 /\ IsFiniteSet(left)
    BY <1>2, <2>1, <2>2, FS_RemoveElement DEF Table
  <2>8. Cardinality(rows') = n - 1
    <3> DEFINE f == [r \in left |-> moved(r)]
    <3>1. \A r \in left : moved(r) \in rows'
      BY <1>1
    <3>2. f \in [left -> rows']
      BY <3>1
    <3>3. \A r, s \in left : f[r] = f[s] => r = s
      BY <1>2, <2>2, <2>5 DEF Table
    <3>4. \A t \in rows' : \E r \in left : f[r] = t
      BY <2>6
    <3> HIDE DEF f
    <3>5. f \in Bijection(left, rows')
      BY <3>2, <3>3, <3>4 DEF Bijection, Injection, IsInjective, Surjection
    <3>6. ExistsBijection(left, rows')
      BY <3>5 DEF ExistsBijection
    <3> QED
      BY <2>7, <3>6, FS_Bijection
  <2>9. PlacesFit'
    <3>1. \A r \in rows' : r.place \in 1..(n - 1) /\ r.created <= now
      BY <1>5, <2>6
    <3>2. \A r, s \in rows' : r.place = s.place => r = s
      <4> SUFFICES ASSUME NEW x \in rows', NEW y \in rows', x.place = y.place PROVE x = y
        OBVIOUS
      <4>1. PICK r \in left : /\ x = moved(r)
                              /\ x.place = IF old.place < r.place THEN r.place - 1 ELSE r.place
        BY <2>6
      <4>2. PICK s \in left : /\ y = moved(s)
                              /\ y.place = IF old.place < s.place THEN s.place - 1 ELSE s.place
        BY <2>6
      <4>3. r.place = s.place
        BY <2>2, <2>4, <4>1, <4>2
      <4> QED
        BY <1>2, <2>2, <4>1, <4>2, <4>3 DEF Table
    <3> QED
      BY <1>1, <2>8, <3>1, <3>2 DEF PlacesFit
  <2>10. Table(rows')
    BY <2>9 DEF IInv, TypeOK, IdsAreKeys, PlacesFit, Table
  <2>11. IdsWereGiven'
    BY <1>1, <1>3, <1>4, <1>5, <2>6 DEF IdsWereGiven
  <2>12. AddsAreNew'
    <3>1. \A d \in Callers : op'[d].pc # "exec"
      BY <1>1, <1>3, <1>4 DEF IInv, OneWriter, Running
    <3> QED
      BY <3>1 DEF AddsAreNew, Running
  <2>13. \A s \in rows, t \in rows' : s.id = t.id => Rank(rows', t) <= Rank(rows, s)
    <3> SUFFICES ASSUME NEW s \in rows, NEW t \in rows', s.id = t.id
                 PROVE  Rank(rows', t) <= Rank(rows, s)
      OBVIOUS
    <3>1. PICK r \in left : /\ t.id = r.id /\ t.created = r.created
                            /\ t.place = IF old.place < r.place THEN r.place - 1 ELSE r.place
      BY <2>6
    <3>2. s = r
      BY <1>2, <1>5, <3>1 DEF Table
    <3>3. ASSUME NEW x \in rows', Before(x, t)
          PROVE  \E u \in rows : u.id = x.id /\ Before(u, s)
      <4>1. PICK u \in left : /\ x.id = u.id /\ x.created = u.created
                              /\ x.place = IF old.place < u.place THEN u.place - 1 ELSE u.place
        BY <2>6
      <4>2. x.place < t.place => u.place < s.place
        BY <2>2, <2>4, <3>1, <3>2, <4>1
      <4>3. Before(u, s)
        BY <3>1, <3>2, <3>3, <4>1, <4>2 DEF Before
      <4> QED
        BY <1>5, <4>1, <4>3
    <3> QED
      BY <1>2, <2>10, <3>3, RankGrows
  <2>14. ListingsFit'
    <3> SUFFICES ASSUME NEW d \in Callers PROVE ListingFits(rows', op'[d])
      BY DEF ListingsFit
    <3>1. CASE d = c
      BY <1>3, <3>1 DEF ListingFits
    <3>2. CASE d # c
      <4>1. ListingFits(rows, op[d])
        BY DEF ListingsFit
      <4>2. op[d].kind = "list" => op'[d].less
        BY <1>4, <1>7, <3>2
      <4>3. \A r \in rows' : \E s \in rows : s.id = r.id
        BY <1>5, <2>6
      <4> QED
        BY <1>2, <1>4, <2>10, <2>13, <3>2, <4>1, <4>2, <4>3, StillFits
    <3> QED
      BY <3>1, <3>2
  <2> QED
    BY <2>9, <2>11, <2>12, <2>14
<1> QED
  BY <1>6, <1>7

\* A listing begins: it has missed no row, and seen none.
LEMMA PagesList ==
    ASSUME PagesIInv, IInv', NEW c \in Callers, List(c)
    PROVE  PagesIInv'
<1> USE DEF PagesIInv
<1> DEFINE ids == {r.id : r \in rows}
           task == [Task("list", "page", NoId, 0, 0, FALSE) EXCEPT !.start = ids]
<1>1. /\ UNCHANGED <<rows, now, given, object>> /\ op' = [op EXCEPT ![c] = task]
  BY DEF List, Begin, file, objects
<1>2. /\ task.pc = "page" /\ task.kind = "list" /\ task.offset = 0 /\ task.start = ids
      /\ task.seen = {} /\ task.twice = {}
  BY DEF Task
<1> HIDE DEF task
<1>3. op'[c] = task /\ \A d \in Callers \ {c} : op'[d] = op[d]
  BY <1>1 DEF IInv, TypeOK
<1>4. PlacesFit' /\ IdsWereGiven' /\ AddsAreNew'
  BY <1>1, <1>2, <1>3 DEF PlacesFit, IdsWereGiven, AddsAreNew, Running
<1>5. ListingsFit'
  <2>1. \A r \in rows : Rank(rows, r) \in Nat
    BY RowsAreTable, RankType
  <2>2. ListingFits(rows, task)
    BY <1>2, <2>1 DEF ListingFits
  <2> QED
    BY <1>1, <1>3, <2>2 DEF ListingsFit
<1> QED
  BY <1>4, <1>5

\* A page adds the rows from the offset to the new one, and no row before it; the
\* last one adds all the rows that were still to come.
LEMMA PagesListPage ==
    ASSUME PagesIInv, IInv', NEW c \in Callers, ListPage(c)
    PROVE  PagesIInv'
<1> USE DEF PagesIInv
<1> DEFINE t == op[c]
           end == t.offset + PageSize
           onPage == {r \in rows : Rank(rows, r) \in t.offset..(t.offset + PageSize - 1)}
           got == {r.id : r \in Page(t.offset)}
           pc == IF Cardinality(got) < PageSize THEN "listed" ELSE "page"
           task == [op[c] EXCEPT
                      !.pc = IF Cardinality(got) < PageSize THEN "listed" ELSE "page",
                      !.offset = @ + PageSize,
                      !.seen = @ \union got,
                      !.twice = @ \union (op[c].seen \intersect got)]
<1>1. /\ UNCHANGED <<rows, now, given, object>> /\ op' = [op EXCEPT ![c] = task]
      /\ t.pc = "page"
  <2>1. op' = [op EXCEPT ![c] = task]
    BY Zenon DEF ListPage
  <2> HIDE DEF task
  <2>2. UNCHANGED <<file, objects>> /\ op[c].pc = "page"
    BY Zenon DEF ListPage
  <2> QED
    BY <2>1, <2>2 DEF file, objects
<1>2. t \in TaskType /\ t.offset \in Nat /\ end \in Nat
  BY DEF IInv, TypeOK, TaskType
<1>a. got = {r.id : r \in onPage}
  BY DEF Page, Rank
<1> HIDE DEF onPage, got
<1>3. /\ task.pc = pc /\ task.kind = t.kind /\ task.offset = end /\ task.start = t.start
      /\ task.seen = t.seen \union got /\ task.twice = t.twice \union (t.seen \intersect got)
      /\ task.less = t.less /\ task.back = t.back
  BY <1>2 DEF TaskType
<1> HIDE DEF task
<1>4. op'[c] = task /\ \A d \in Callers \ {c} : op'[d] = op[d]
  BY <1>1 DEF IInv, TypeOK
<1>5. Table(rows) /\ \A r \in rows : Rank(rows, r) \in Nat
  BY RowsAreTable, RankType
<1>6. PlacesFit' /\ IdsWereGiven' /\ AddsAreNew'
  <2>1. \A id \in got : \E r \in rows : r.id = id
    BY <1>a DEF onPage
  <2>2. PlacesFit' /\ IdsWereGiven'
    BY <1>1, <1>3, <1>4, <2>1 DEF PlacesFit, IdsWereGiven
  <2>3. t.pc # "exec" /\ task.pc # "exec"
    BY <1>1, <1>3
  <2>4. AddsAreNew'
    BY <1>1, <1>3, <1>4, <2>1, <2>3 DEF AddsAreNew, Running
  <2> QED
    BY <2>2, <2>4
<1>7. ListingFits(rows, t)
  BY DEF ListingsFit
<1>8. t.kind = "list"
  BY <1>1, <1>7 DEF ListingFits
\* Of the rows of its start it has seen those before its new offset;
<1>9. ASSUME ~t.less
      PROVE  /\ \A id \in t.start : \E r \in rows : r.id = id
             /\ \A r \in rows : r.id \in t.start /\ Rank(rows, r) < end => r.id \in task.seen
  <2>1. /\ \A id \in t.start : \E r \in rows : r.id = id
        /\ \A r \in rows : r.id \in t.start /\ Rank(rows, r) < t.offset => r.id \in t.seen
    BY <1>1, <1>7, <1>9 DEF ListingFits
  <2>2. ASSUME NEW r \in rows, Rank(rows, r) < end, ~(Rank(rows, r) < t.offset)
        PROVE  r.id \in got
    <3>1. Rank(rows, r) \in t.offset..(t.offset + PageSize - 1)
      BY <1>2, <1>5, <2>2
    <3> QED
      BY <1>a, <3>1 DEF onPage
  <2> QED
    BY <1>3, <2>1, <2>2
\* and of the rows there are, no other.
<1>10. ASSUME ~t.back
       PROVE  /\ task.twice = {}
              /\ \A r \in rows : r.id \in task.seen => Rank(rows, r) < end
  <2>1. t.twice = {} /\ \A r \in rows : r.id \in t.seen => Rank(rows, r) < t.offset
    BY <1>1, <1>7, <1>10 DEF ListingFits
  <2>2. ASSUME NEW r \in rows, r.id \in got
        PROVE  Rank(rows, r) \in t.offset..(t.offset + PageSize - 1)
    <3>1. PICK s \in onPage : s.id = r.id
      BY <1>a, <2>2
    <3>2. s = r
      BY <1>5, <3>1 DEF onPage, Table
    <3> QED
      BY <3>1, <3>2 DEF onPage
  <2>3. \A id \in got : \E r \in rows : r.id = id
    BY <1>a DEF onPage
  <2>4. t.seen \intersect got = {}
    BY <1>2, <1>5, <2>1, <2>2, <2>3
  <2>5. \A r \in rows : r.id \in t.seen \union got => Rank(rows, r) < end
    BY <1>2, <1>5, <2>1, <2>2
  <2> QED
    BY <1>3, <2>1, <2>4, <2>5
<1>11. ASSUME pc = "listed"
       PROVE  \A r \in rows : Rank(rows, r) < end
  <2>1. Cardinality(got) < PageSize
    BY <1>11
  <2>2. got = {r.id : r \in {r \in rows : Rank(rows, r) \in t.offset..(t.offset + PageSize - 1)}}
    BY <1>a DEF onPage
  <2> QED
    BY <1>2, <1>5, <2>1, <2>2, LastPage
<1>12. ListingFits(rows, task)
  <2>1. pc = "listed" /\ ~t.less => t.start \subseteq task.seen
    BY <1>9, <1>11
  <2>2. CASE pc = "page"
    BY <1>3, <1>8, <1>9, <1>10, <2>2 DEF ListingFits
  <2>3. CASE pc = "listed"
    BY <1>3, <1>8, <1>10, <2>1, <2>3 DEF ListingFits
  <2> QED
    BY <2>2, <2>3
<1>13. ListingsFit'
  BY <1>1, <1>4, <1>12 DEF ListingsFit
<1> QED
  BY <1>6, <1>13

\* Every step keeps PagesIInv.
LEMMA PagesStep == PagesIInv /\ [Next]_vars => PagesIInv'
<1> SUFFICES ASSUME PagesIInv, [Next]_vars PROVE PagesIInv'
  OBVIOUS
<1>1. IInv'
  BY StepPreserves DEF PagesIInv
<1>2. IInv /\ now \in Int /\ \A m \in Memories : object[m].id <= given[m]
  BY DEF PagesIInv, IInv, TypeOK, IdsWereGiven
<1>3. ASSUME NEW c \in Callers, NEW task, task.pc \notin {"page", "listed"},
             task.kind # "add", task.seen = {}, op' = [op EXCEPT ![c] = task],
             UNCHANGED <<rows, given, object>>, now' >= now
      PROVE  PagesIInv'
  <2>1. \A d \in Callers : op'[d] = op[d] \/ op'[d] = task
    BY <1>2, <1>3 DEF IInv, TypeOK
  <2> QED
    BY <1>1, <1>2, <1>3, <2>1, QuietStep
<1>4. Idle.pc = "idle" /\ Idle.kind = "idle" /\ Idle.seen = {}
  BY DEF Idle, Task
<1>5. ASSUME NEW c \in Callers, NEW id \in Ids, Update(c, id) PROVE PagesIInv'
  <2> DEFINE task == Task("update", "exec", id, 0, now', FALSE)
  <2>1. /\ op' = [op EXCEPT ![c] = task] /\ UNCHANGED <<rows, given, object>> /\ now' >= now
    BY <1>2, <1>5 DEF Update, Begin, ReadsClock, file
  <2>2. task.pc = "exec" /\ task.kind = "update" /\ task.seen = {}
    BY DEF Task
  <2> HIDE DEF task
  <2> QED
    BY <1>3, <2>1, <2>2
<1>6. ASSUME NEW c \in Callers, NEW id \in Ids, Delete(c, id) PROVE PagesIInv'
  <2> DEFINE task == Task("delete", "exec", id, 0, 0, FALSE)
  <2>1. /\ op' = [op EXCEPT ![c] = task] /\ UNCHANGED <<rows, given, object>> /\ now' >= now
    BY <1>2, <1>6 DEF Delete, Begin, file, objects
  <2>2. task.pc = "exec" /\ task.kind = "delete" /\ task.seen = {}
    BY DEF Task
  <2> HIDE DEF task
  <2> QED
    BY <1>3, <2>1, <2>2
<1>7. ASSUME NEW c \in Callers, Fails(c) \/ ListEnds(c) PROVE PagesIInv'
  <2>1. /\ op' = [op EXCEPT ![c] = Idle] /\ UNCHANGED <<rows, given, object>> /\ now' >= now
    BY <1>2, <1>7 DEF Fails, ListEnds, file, objects
  <2> QED
    BY <1>3, <1>4, <2>1
<1>8. CASE Crash
  <2>1. /\ UNCHANGED <<rows, now, given>> /\ object' = [m \in Memories |-> New]
        /\ op' = [c \in Callers |-> Idle]
    BY <1>8 DEF Crash, file
  <2>2. \A m \in Memories : object'[m].id <= given[m]
    BY <1>2, <2>1 DEF New, IInv, TypeOK
  <2> QED
    BY <1>1, <1>2, <1>4, <2>1, <2>2, QuietStep
<1>9. CASE Close \/ Open \/ UNCHANGED vars
  <2>1. UNCHANGED <<rows, now, given, object, op>>
    BY <1>9 DEF Close, Open, vars, file, objects
  <2> QED
    BY <1>1, <1>2, <2>1, QuietStep
<1> QED
  BY <1>1, <1>5, <1>6, <1>7, <1>8, <1>9, PagesAdd, PagesAddCommits, PagesUpdateCommits,
     PagesDeleteCommits, PagesList, PagesListPage DEF Next

\* The invariant of the listings holds of every behaviour.
THEOREM PagesInvariance == Spec => []PagesIInv
  BY PagesInitially, PagesStep, PTL DEF Spec

\* A listing that is through has missed no row that was there when it began,
\* unless one was removed meanwhile, and was given none twice, unless one came in
\* meanwhile that was handed in before, or whose created_at is older than the clock.
THEOREM PagesFit == Spec => []PagesFitTogether
<1>1. PagesIInv => PagesFitTogether
  BY DEF PagesIInv, ListingsFit, ListingFits, PagesFitTogether
<1> QED
  BY <1>1, PagesInvariance, PTL

\* An Update carries the time of the clock, which no row is later than, and an Add
\* that is no repetition writes a row that was not there.
LEMMA ForwardStep ==
    ASSUME PagesIInv, [Next]_vars
    PROVE  \A r \in rows, s \in rows' : r.id = s.id /\ s.updated < r.updated =>
              \E c \in Callers : Running(c, "add") /\ op[c].id = r.id /\ op[c].again
<1> SUFFICES ASSUME NEW r \in rows, NEW s \in rows', r.id = s.id, s.updated < r.updated
             PROVE  \E c \in Callers : Running(c, "add") /\ op[c].id = r.id /\ op[c].again
  OBVIOUS
<1> USE DEF PagesIInv, IInv
<1>1. r.updated \in 1..MaxTime /\ r.updated <= now
  BY DEF TypeOK, RowType, TimesArePast
<1>2. s \notin rows
  BY <1>1 DEF IdsAreKeys
<1>3. ASSUME NEW c \in Callers, AddCommits(c)
      PROVE  Running(c, "add") /\ op[c].id = r.id /\ op[c].again
  <2>1. s.id = op[c].id
    BY <1>2, <1>3 DEF AddCommits, Upsert, RowOf, TypeOK, RowType
  <2> QED
    BY <1>3, <2>1 DEF AddCommits, AddsAreNew
<1>4. ASSUME NEW c \in Callers, UpdateCommits(c)
      PROVE  FALSE
  <2>1. op[c].updated = now /\ op[c].updated \in 1..MaxTime
    BY <1>4 DEF UpdateCommits, Running, TimesArePast, TypeOK
  <2> QED
    BY <1>1, <1>2, <1>4, <2>1 DEF UpdateCommits, TypeOK, RowType, IdsAreKeys
<1>5. ASSUME NEW c \in Callers, DeleteCommits(c)
      PROVE  FALSE
  <2>1. PICK x \in rows :
           s = [x EXCEPT !.place = @ - Cardinality({y \in RowOf(op[c].id) : y.place < x.place})]
    BY <1>5 DEF DeleteCommits
  <2>2. s.id = x.id /\ s.updated = x.updated
    BY <2>1 DEF TypeOK, RowType
  <2> QED
    BY <1>1, <2>2 DEF IdsAreKeys
<1>6. UNCHANGED rows \/ \E c \in Callers : AddCommits(c) \/ UpdateCommits(c) \/ DeleteCommits(c)
  BY DEF Next, Add, Update, Delete, Fails, List, ListPage, ListEnds, Close, Crash, Open, vars, file
<1> QED
  BY <1>2, <1>3, <1>4, <1>5, <1>6

\* Only a repeated Add sets the updated_at of a row back.
THEOREM MovesForward == Spec => TimesMoveForward
<1>1. PagesIInv /\ [Next]_vars =>
         [\A r \in rows, s \in rows' : r.id = s.id /\ s.updated < r.updated =>
             \E c \in Callers : Running(c, "add") /\ op[c].id = r.id /\ op[c].again]_vars
  BY ForwardStep
<1> QED
  BY <1>1, PagesInvariance, PTL DEF Spec, TimesMoveForward
=============================================================================
