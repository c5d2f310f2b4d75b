---------------------------- MODULE MemoryStore -----------------------------
(***************************************************************************)
(* What HelixMemory promises an application that writes memories, however  *)
(* many backends stand behind it: the specification that UnifiedProvider   *)
(* and FusionEngine implement.                                             *)
(*                                                                         *)
(* A memory is stored as any number of copies, each under an id of its     *)
(* own.  Only a call that is under way changes what is stored: an Add      *)
(* creates copies of its memory, a Delete removes the one copy it names, a *)
(* change may do both.  A call may end at any time, with an error whatever *)
(* it did; but it returns nil only when it has done what it was asked.  An *)
(* id that was removed is never used again.                                *)
(***************************************************************************)
CONSTANTS
    Callers,    \* goroutines of the application
    Memories,   \* memories it adds
    Places      \* where a copy can be

Copies == Places \X Memories

VARIABLES
    stored,   \* copies that are there
    dead,     \* copies that were removed
    calls,    \* calls[c]: the call c has under way
    acked,    \* memories whose Add returned nil
    gone      \* copies whose Delete returned nil

vars == <<stored, dead, calls, acked, gone>>

\* A call on memory mem; a change or a removal is one of the copy id.
Call(kind, mem, id) == [kind |-> kind, mem |-> mem, id |-> id]

NoId   == <<>>
NoCall == Call("none", "none", NoId)

Adds    == {Call("add", m, NoId) : m \in Memories}
Changes == {Call(kind, x[2], x) : kind \in {"change", "remove"}, x \in Copies}

Init ==
    /\ stored = {}
    /\ dead = {}
    /\ calls = [c \in Callers |-> NoCall]
    /\ acked = {}
    /\ gone = {}

Begin(c) ==
    /\ calls[c] = NoCall
    /\ calls'[c] \in Adds \union Changes
    /\ calls' = [calls EXCEPT ![c] = calls'[c]]
    /\ UNCHANGED <<stored, dead, acked, gone>>

Creates(c) ==
    /\ calls[c].kind \in {"add", "change"}
    /\ \E x \in Copies \ dead :
          /\ x[2] = calls[c].mem
          /\ stored' = stored \union {x}
    /\ UNCHANGED dead

Removes(c) ==
    /\ calls[c].kind \in {"remove", "change"}
    /\ stored' = stored \ {calls[c].id}
    /\ dead' = dead \union {calls[c].id}

\* A call under way has an effect, or none yet.
Effect(c) ==
    \/ UNCHANGED <<stored, dead>>
    \/ Creates(c)
    \/ Removes(c)

\* The memory was stored, if only to be removed again.
WasStored(m) == \E x \in stored' \union dead' : x[2] = m

\* It goes on, fails, or returns nil.
Outcome(c) ==
    \/ UNCHANGED <<calls, acked, gone>>
    \/ /\ calls' = [calls EXCEPT ![c] = NoCall]
       /\ \/ UNCHANGED <<acked, gone>>
          \/ /\ calls[c].kind = "add"
             /\ WasStored(calls[c].mem)
             /\ acked' = acked \union {calls[c].mem}
             /\ UNCHANGED gone
          \/ /\ calls[c].kind = "remove"
             /\ calls[c].id \in dead'
             /\ gone' = gone \union {calls[c].id}
             /\ UNCHANGED acked

Proceed(c) ==
    /\ calls[c] # NoCall
    /\ Effect(c)
    /\ Outcome(c)

Next == \E c \in Callers : Proceed(c) \/ Begin(c)

Spec == Init /\ [][Next]_vars
=============================================================================
