----------------------------- MODULE LocalStore -----------------------------
(***************************************************************************)
(* localstore.SQLiteStore (pkg/localstore/sqlite_store.go): memories in a  *)
(* SQLite file, written and listed by concurrent callers of a process that *)
(* may die, or close the store and open it again.                          *)
(*                                                                         *)
(* A write takes the mutex, reads the clock, executes one statement and    *)
(* lets the mutex go.  A statement commits or does not, and one whose      *)
(* context ends meanwhile may commit and return an error.  The commit and  *)
(* the return are one step: a crash between them is a crash after an error *)
(* that nobody has looked at.  The file keeps what was committed; List is  *)
(* one statement, which sees the rows of one instant.  The clock does not  *)
(* go back.                                                                *)
(*                                                                         *)
(* A memory is an object that the application hands to Add, which gives it *)
(* an id, and a created_at and an updated_at when the application has set  *)
(* none: the object keeps them whatever Add returns, and the application   *)
(* that got an error may hand it in again.  <<m, k>> is the k-th id that   *)
(* memory m was given.  The application sets times of the past, or none,   *)
(* and leaves the ids to Add.                                              *)
(***************************************************************************)
EXTENDS Integers, FiniteSets

CONSTANTS
    Memories,      \* memories the application adds
    Callers,       \* its goroutines
    PageSize,      \* Limit of the pages in which it lists the store
    MaxTime,       \* bound on the clock
    MaxIds,        \* bound on the ids a memory is given
    MaxRows,       \* bound on the rows there are when one comes in
    MaxOffset,     \* bound on the Offset of a page
    MaxListings,   \* bound on the listings at once, which share nothing
    MaxRestarts    \* bound on how often the store is opened again

ASSUME LocalStoreAssumption ==
    /\ PageSize \in Nat \ {0}
    /\ MaxTime \in Nat \ {0}
    /\ {MaxIds, MaxRows, MaxOffset, MaxListings, MaxRestarts} \subseteq Nat

VARIABLES
    rows,       \* the table; place is a row's, in the order of insertion
    now,        \* the last time the clock was read
    given,      \* given[m]: how many ids memory m was given
    object,     \* object[m]: the id of its object, and its times; 0: none yet
    lock,       \* {c} when caller c has the mutex of the open store
    open,       \* whether the store is open
    restarts,   \* how often it was opened again
    op,         \* op[c]: the operation of caller c
    acked,      \* ids whose Add returned nil, and which no Delete has removed
    lost        \* memories whose object a crash took from an Add under way

vars == <<rows, now, given, object, lock, open, restarts, op, acked, lost>>

file    == <<rows, acked>>
objects == <<now, given, object>>
process == <<open, restarts, lost>>

Ids == Memories \X (1..MaxIds)

NoId == <<"none", 0>>

\* An object that Add has not seen, and whose times nobody has set.
New == [id |-> 0, created |-> 0, updated |-> 0]

\* A write of a row with this id and these times; again: its object was handed in
\* before.
\* Of a listing: the offset of its next page; start: the ids there were when it
\* began; seen, twice: those it was given once, more than once; less: a row was
\* removed meanwhile; back: a row came in meanwhile that need not be the last one.
Task(kind, pc, id, created, updated, again) ==
    [kind |-> kind, pc |-> pc, id |-> id, created |-> created, updated |-> updated,
     again |-> again, offset |-> 0, start |-> {}, seen |-> {}, twice |-> {},
     less |-> FALSE, back |-> FALSE]

Idle == Task("idle", "idle", NoId, 0, 0, FALSE)

Init ==
    /\ rows = {}
    /\ now = 1
    /\ given = [m \in Memories |-> 0]
    /\ object = [m \in Memories |-> New]
    /\ lock = {}
    /\ open = TRUE
    /\ restarts = 0
    /\ op = [c \in Callers |-> Idle]
    /\ acked = {}
    /\ lost = {}

RowOf(id) == {r \in rows : r.id = id}

Begin(c, task) ==
    /\ op[c] = Idle
    /\ open
    /\ op' = [op EXCEPT ![c] = task]

-----------------------------------------------------------------------------
(* The mutex and the clock                                                   *)

\* A caller that waits for the mutex has done nothing yet: a write begins when
\* it has it.
Locks(c) ==
    /\ lock = {}
    /\ lock' = {c}

\* time.Now(), some time after it was last read.
ReadsClock == \E t \in now..MaxTime : now' = t

Running(c, kind) == op[c].kind = kind /\ op[c].pc = "exec"

\* An error without effect: the metadata cannot be marshalled, the context has
\* ended.
Fails(c) ==
    /\ op[c].pc = "exec"
    /\ op' = [op EXCEPT ![c] = Idle]
    /\ lock' = {}
    /\ UNCHANGED <<file, objects, process>>

-----------------------------------------------------------------------------
(* Add                                                                       *)

\* The object of m as the application hands it in: the one it has, or a new one
\* with such times as it knows.
HandedIn(m) ==
    IF object[m] # New
    THEN {object[m]}
    ELSE {[id |-> 0, created |-> s, updated |-> t] : s, t \in 0..now'}

\* What the object has in the end: the id and the times it had, or new ones.
Given(o, id, time) ==
    [id |-> IF o.id = 0 THEN id ELSE o.id,
     created |-> IF o.created = 0 THEN time ELSE o.created,
     updated |-> IF o.updated = 0 THEN time ELSE o.updated]

\* The write of what the object has.
Insert(c, m, o) ==
    Begin(c, Task("add", "exec", <<m, o.id>>, o.created, o.updated, object[m] # New))

\* Faulty variant of Add: the id is given to the row, not to the object.  Unused.
AddForgetful(c, m) ==
    /\ \A id \in acked : id[1] # m
    /\ Locks(c)
    /\ ReadsClock
    /\ given[m] < MaxIds /\ Cardinality(rows) < MaxRows
    /\ given' = [given EXCEPT ![m] = @ + 1]
    /\ \E o \in HandedIn(m) :
          /\ object' = [object EXCEPT ![m] = [Given(o, 0, now') EXCEPT !.id = 0]]
          /\ Insert(c, m, Given(o, given'[m], now'))
    /\ UNCHANGED <<file, process>>

\* The application hands in an object, again if it got an error for it.
Add(c, m) ==
    /\ \A id \in acked : id[1] # m
    /\ Locks(c)
    /\ ReadsClock
    /\ object[m].id = 0 => given[m] < MaxIds
    /\ RowOf(<<m, object[m].id>>) = {} => Cardinality(rows) < MaxRows
    /\ given' = [given EXCEPT ![m] = IF object[m].id = 0 THEN @ + 1 ELSE @]
    /\ \E o \in HandedIn(m) : object' = [object EXCEPT ![m] = Given(o, given'[m], now')]
    /\ Insert(c, m, object'[m])
    /\ UNCHANGED <<file, process>>

\* Faulty variant of Upsert: on a conflict the row is replaced.  Unused.
UpsertReplaces(c) ==
    {r \in rows : r.id # op[c].id} \union
    {[id |-> op[c].id, created |-> op[c].created, updated |-> op[c].updated,
      place |-> Cardinality(rows) + 1]}

\* INSERT ... ON CONFLICT(id) DO UPDATE: a row that is there keeps its
\* created_at and its place in the table.
Upsert(c) ==
    {r \in rows : r.id # op[c].id} \union
    IF RowOf(op[c].id) # {}
    THEN {[r EXCEPT !.updated = op[c].updated] : r \in RowOf(op[c].id)}
    ELSE {[id |-> op[c].id, created |-> op[c].created, updated |-> op[c].updated,
           place |-> Cardinality(rows) + 1]}

Listing(d) == op[d].kind = "list"

\* Its row comes in with a created_at older than the clock it has read, or is one
\* that was handed in before, and may have been in the table then.
ComesInOld(c) ==
    /\ RowOf(op[c].id) = {}
    /\ op[c].again \/ op[c].created < now

AddCommits(c) ==
    /\ Running(c, "add")
    /\ rows' = Upsert(c)
    /\ acked' \in {acked, acked \union {op[c].id}}
    /\ op' = [d \in Callers |->
                 IF d = c THEN Idle
                 ELSE [op[d] EXCEPT !.back = IF Listing(d) /\ ComesInOld(c) THEN TRUE ELSE @]]
    /\ lock' = {}
    /\ UNCHANGED <<objects, process>>

-----------------------------------------------------------------------------
(* Update and Delete, of ids that were given                                 *)

\* Faulty variant of Update: the mutex is let go before the statement.  Unused.
UpdateBriefly(c, id) ==
    /\ id[2] \in 1..given[id[1]]
    /\ lock = {}
    /\ ReadsClock
    /\ Begin(c, Task("update", "exec", id, 0, now', FALSE))
    /\ UNCHANGED <<file, given, object, process, lock>>

\* UpdatedAt, of a copy the caller got from Get.
Update(c, id) ==
    /\ id[2] \in 1..given[id[1]]
    /\ Locks(c)
    /\ ReadsClock
    /\ Begin(c, Task("update", "exec", id, 0, now', FALSE))
    /\ UNCHANGED <<file, given, object, process>>

\* Without a row with the id, an error and no effect.
UpdateCommits(c) ==
    /\ Running(c, "update")
    /\ rows' = {IF r.id = op[c].id THEN [r EXCEPT !.updated = op[c].updated] ELSE r : r \in rows}
    /\ op' = [op EXCEPT ![c] = Idle]
    /\ lock' = {}
    /\ UNCHANGED <<acked, objects, process>>

Delete(c, id) ==
    /\ id[2] \in 1..given[id[1]]
    /\ Locks(c)
    /\ Begin(c, Task("delete", "exec", id, 0, 0, FALSE))
    /\ UNCHANGED <<file, objects, process>>

\* Without a row with the id, an error and no effect.
DeleteCommits(c) ==
    /\ Running(c, "delete")
    /\ rows' = {[r EXCEPT !.place = @ - Cardinality({s \in RowOf(op[c].id) : s.place < r.place})]
                  : r \in rows \ RowOf(op[c].id)}
    /\ acked' = acked \ {op[c].id}
    /\ op' = [d \in Callers |->
                 IF d = c THEN Idle
                 ELSE [op[d] EXCEPT !.less = IF Listing(d) /\ RowOf(op[c].id) # {} THEN TRUE ELSE @]]
    /\ lock' = {}
    /\ UNCHANGED <<objects, process>>

-----------------------------------------------------------------------------
(* List, page after page                                                     *)

\* ORDER BY created_at ASC, which the index on it serves.
Before(r, s) ==
    \/ r.created < s.created
    \/ r.created = s.created /\ r.place < s.place

\* LIMIT PageSize OFFSET offset.
Page(offset) ==
    {r \in rows : Cardinality({s \in rows : Before(s, r)}) \in offset..(offset + PageSize - 1)}

List(c) ==
    /\ Cardinality({d \in Callers : Listing(d)}) < MaxListings
    /\ Begin(c, [Task("list", "page", NoId, 0, 0, FALSE) EXCEPT !.start = {r.id : r \in rows}])
    /\ UNCHANGED <<file, objects, process, lock>>

\* The application goes on until a page is not full.
ListPage(c) ==
    LET got == {r.id : r \in Page(op[c].offset)} IN
    /\ op[c].pc = "page"
    /\ op[c].offset <= MaxOffset
    /\ op' = [op EXCEPT ![c].pc = IF Cardinality(got) < PageSize THEN "listed" ELSE "page",
                        ![c].offset = @ + PageSize,
                        ![c].seen = @ \union got,
                        ![c].twice = @ \union (op[c].seen \intersect got)]
    /\ UNCHANGED <<file, objects, process, lock>>

\* It is through, gives up, or gets an error.
ListEnds(c) ==
    /\ op[c].pc \in {"page", "listed"}
    /\ op' = [op EXCEPT ![c] = Idle]
    /\ UNCHANGED <<file, objects, process, lock>>

-----------------------------------------------------------------------------
(* The process                                                               *)

\* The application closes the store when it has no call under way.
Close ==
    /\ open
    /\ \A c \in Callers : op[c] = Idle
    /\ open' = FALSE
    /\ UNCHANGED <<file, objects, lock, op, restarts, lost>>

\* The process dies with its objects.
Crash ==
    /\ open
    /\ open' = FALSE
    /\ lock' = {}
    /\ op' = [c \in Callers |-> Idle]
    /\ object' = [m \in Memories |-> New]
    /\ lost' = lost \union {r.id[1] : r \in {r \in rows : r.id \notin acked}}
    /\ UNCHANGED <<file, now, given, restarts>>

\* CREATE TABLE IF NOT EXISTS.
Open ==
    /\ ~open
    /\ restarts < MaxRestarts
    /\ open' = TRUE
    /\ restarts' = restarts + 1
    /\ UNCHANGED <<file, objects, lock, op, lost>>

-----------------------------------------------------------------------------
Next ==
    \/ \E c \in Callers, m \in Memories : Add(c, m)
    \/ \E c \in Callers : AddCommits(c)
    \/ \E c \in Callers, id \in Ids : Update(c, id)
    \/ \E c \in Callers : UpdateCommits(c)
    \/ \E c \in Callers, id \in Ids : Delete(c, id)
    \/ \E c \in Callers : DeleteCommits(c)
    \/ \E c \in Callers : Fails(c)
    \/ \E c \in Callers : List(c)
    \/ \E c \in Callers : ListPage(c)
    \/ \E c \in Callers : ListEnds(c)
    \/ Close
    \/ Crash
    \/ Open

Spec == Init /\ [][Next]_vars

-----------------------------------------------------------------------------
RowType == [id : Ids, created : 1..MaxTime, updated : 1..MaxTime, place : Int]

ObjectType == [id : 0..MaxIds, created : 0..MaxTime, updated : 0..MaxTime]

TaskType ==
    [kind : {"idle", "add", "update", "delete", "list"},
     pc : {"idle", "exec", "page", "listed"},
     id : Ids \union {NoId}, created : 0..MaxTime, updated : 0..MaxTime,
     again : BOOLEAN, offset : Nat, start : SUBSET Ids,
     seen : SUBSET Ids, twice : SUBSET Ids, less : BOOLEAN, back : BOOLEAN]

TypeOK ==
    /\ rows \subseteq RowType
    /\ now \in 1..MaxTime
    /\ given \in [Memories -> 0..MaxIds]
    /\ object \in [Memories -> ObjectType]
    /\ lock = {c \in Callers : op[c].pc = "exec"}
    /\ open \in BOOLEAN /\ restarts \in 0..MaxRestarts
    /\ op \in [Callers -> TaskType]
    /\ acked \subseteq Ids /\ lost \subseteq Memories

\* However often an Add that returned an error, yet may have committed, is
\* repeated, the memory has one row: the object keeps the id it was given.  Only
\* a crash between the commit and the return leaves a row nobody knows of.
OneRowUnlessLost ==
    \A r, s \in rows : r.id[1] = s.id[1] /\ r.id[1] \notin lost => r = s

\* Pages listed while others write: when no row was removed meanwhile, none that
\* was there at the start is missed; when none came in of an object that was handed
\* in before, or with a created_at older than the clock because the application has
\* set it, none is given twice.  Other new rows come last, as the clock is read under
\* the mutex, and rows that are written again keep their place.
PagesFitTogether ==
    \A c \in Callers : op[c].pc = "listed" =>
       /\ op[c].less \/ op[c].start \subseteq op[c].seen
       /\ op[c].back \/ op[c].twice = {}

\* Writes never set the updated_at of a row back, but for an Add that is
\* repeated: it overwrites what was written meanwhile, with its older time.
TimesMoveForward ==
    [][\A r \in rows, s \in rows' : r.id = s.id /\ s.updated < r.updated =>
          \E c \in Callers : Running(c, "add") /\ op[c].id = r.id /\ op[c].again]_vars
=============================================================================
