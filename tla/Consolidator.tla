---------------------------- MODULE Consolidator ----------------------------
(***************************************************************************)
(* fusion.Consolidator (pkg/fusion/consolidator.go): FuseResults, which    *)
(* all reads of the engine and the provider end with, and Deduplicate,     *)
(* whose calls share a cache.                                              *)
(*                                                                         *)
(* A call takes its entries one by one, in any order: FuseResults goes     *)
(* over maps, and a slice may have any.  What the entries are is chosen    *)
(* when a call begins and no other is under way.  The score decides only   *)
(* which entries the limit leaves out: any.  FuseResults shares nothing    *)
(* with other calls, and is looked at alone.                               *)
(***************************************************************************)
EXTENDS Integers, Sequences, FiniteSetsExt, Functions

CONSTANTS
    Entries,       \* entries in the results of the systems, or in a slice
    Contents,      \* their contents
    IDs,           \* their IDs
    Confidences,   \* their confidences
    TopK,          \* limit of a request
    Callers        \* goroutines that call Deduplicate

ASSUME ConsolidatorAssumption ==
    Confidences \subseteq Nat /\ TopK \in Nat \ {0}

VARIABLES
    entry,     \* entry[e]: what FuseResults or Deduplicate see of e
    similar,   \* pairs of entries whose embeddings have a cosine of 0.92 or more
    fuse,      \* the call of FuseResults
    cache,     \* seenIDs and seenContent
    op         \* op[c]: the Deduplicate of caller c

vars == <<entry, similar, fuse, cache, op>>

\* left: entries still to look at; best: those in bestByContent; result: what
\* is left of them, in the order of the slice; answer: those within the limit.
NoFuse == [pc |-> "idle", left |-> {}, best |-> {}, result |-> <<>>, answer |-> {}]

\* kept: the result; seen: the entries of the slice it has looked at; astray: those
\* dropped for none before them in the slice; alone: no other call was under way
\* meanwhile.
NoCall == [pc |-> "idle", left |-> {}, kept |-> {}, seen |-> {}, astray |-> {}, alone |-> TRUE]

Symmetric == {r \in SUBSET (Entries \X Entries) :
                 \A x \in r : x[1] # x[2] /\ <<x[2], x[1]>> \in r}

Init ==
    /\ entry = <<>>
    /\ similar = {}
    /\ fuse = NoFuse
    /\ cache = [ids |-> {}, contents |-> {}]
    /\ op = [c \in Callers |-> NoCall]

-----------------------------------------------------------------------------
(* FuseResults                                                               *)

FuseResults ==
    /\ entry = <<>>
    /\ entry' \in [Entries -> [content : Contents, confidence : Confidences]]
    /\ similar' \in Symmetric
    /\ fuse' = [NoFuse EXCEPT !.pc = "exact", !.left = Entries]
    /\ UNCHANGED <<cache, op>>

\* Phase 1 keeps the first of the most confident entries of a content.
KeepBest ==
    /\ fuse.pc = "exact"
    /\ \E e \in fuse.left :
          LET same == {b \in fuse.best : entry[b].content = entry[e].content}
              better == \A b \in same : entry[e].confidence > entry[b].confidence IN
          fuse' = [fuse EXCEPT !.left = @ \ {e},
                               !.best = IF better THEN (@ \ same) \union {e} ELSE @]
    /\ UNCHANGED <<entry, similar, cache, op>>

StartMerging ==
    /\ fuse.pc = "exact" /\ fuse.left = {}
    /\ fuse' = [fuse EXCEPT !.pc = "similar", !.left = fuse.best]
    /\ UNCHANGED <<entry, similar, cache, op>>

Close(result, e) == {i \in DOMAIN result : <<e, result[i]>> \in similar}

\* Faulty variant of Merged: the entry that came first stays.  Unused.
MergedFirst(result, e) ==
    IF Close(result, e) = {} THEN Append(result, e) ELSE result

\* Phase 2 merges an entry into the first of the result that is similar to it,
\* which it replaces when it is more confident.
Merged(result, e) ==
    LET first == Min(Close(result, e)) IN
    CASE Close(result, e) = {} -> Append(result, e)
      [] Close(result, e) # {} /\ entry[e].confidence > entry[result[first]].confidence ->
            [result EXCEPT ![first] = e]
      [] OTHER -> result

Merge ==
    /\ fuse.pc = "similar"
    /\ \E e \in fuse.left :
          fuse' = [fuse EXCEPT !.left = @ \ {e}, !.result = Merged(@, e)]
    /\ UNCHANGED <<entry, similar, cache, op>>

\* The limit takes the entries with the best scores.
Limit ==
    /\ fuse.pc = "similar" /\ fuse.left = {}
    /\ \E answer \in SUBSET Range(fuse.result) :
          /\ Cardinality(answer) = Min({TopK, Len(fuse.result)})
          /\ fuse' = [fuse EXCEPT !.pc = "answered", !.answer = answer]
    /\ UNCHANGED <<entry, similar, cache, op>>

FuseReturns ==
    /\ fuse.pc = "answered"
    /\ fuse' = NoFuse
    /\ entry' = <<>> /\ similar' = {}
    /\ UNCHANGED <<cache, op>>

-----------------------------------------------------------------------------
(* Deduplicate                                                               *)

Others(c) == \E d \in Callers \ {c} : op[d] # NoCall

\* The other calls that are under way are no longer alone, nor is this one.
With(c, call) ==
    [d \in Callers |->
       IF d = c THEN [call EXCEPT !.alone = ~Others(c)]
       ELSE [op[d] EXCEPT !.alone = @ /\ op[d] = NoCall]]

Deduplicate(c) ==
    /\ op[c] = NoCall /\ fuse = NoFuse
    /\ IF Others(c) THEN UNCHANGED entry
       ELSE entry' \in [Entries -> [content : Contents, id : IDs]]
    /\ \E slice \in (SUBSET Entries) \ {{}} :
          op' = With(c, [NoCall EXCEPT !.pc = "clear", !.left = slice])
    /\ UNCHANGED <<similar, fuse, cache>>

\* Faulty variant of ClearCache: the contents stay.  Unused.
ClearIDs(c) ==
    /\ op[c].pc = "clear"
    /\ cache' = [cache EXCEPT !.ids = {}]
    /\ op' = [op EXCEPT ![c].pc = "look"]
    /\ UNCHANGED <<entry, similar, fuse>>

\* clearCache, whoever else is using it.
ClearCache(c) ==
    /\ op[c].pc = "clear"
    /\ cache' = [ids |-> {}, contents |-> {}]
    /\ op' = [op EXCEPT ![c].pc = "look"]
    /\ UNCHANGED <<entry, similar, fuse>>

\* isDuplicate: an entry dropped for its content has marked its ID as seen.
Duplicate(e) == entry[e].id \in cache.ids \/ entry[e].content \in cache.contents

\* Faulty variant of Marked: the content goes into both maps.  Unused.
MarkedByContent(e) ==
    [ids |-> cache.ids \union {entry[e].content},
     contents |-> cache.contents \union {entry[e].content}]

Marked(e) ==
    [ids |-> cache.ids \union {entry[e].id},
     contents |-> IF entry[e].id \in cache.ids THEN cache.contents
                  ELSE cache.contents \union {entry[e].content}]

Repeats(e, S) ==
    \E x \in S : entry[x].id = entry[e].id \/ entry[x].content = entry[e].content

Look(c, e) ==
    /\ op[c].pc = "look" /\ e \in op[c].left
    /\ cache' = Marked(e)
    /\ op' = [op EXCEPT
                 ![c].left = @ \ {e},
                 ![c].seen = @ \union {e},
                 ![c].kept = IF Duplicate(e) THEN @ ELSE @ \union {e},
                 ![c].astray = IF Duplicate(e) /\ ~Repeats(e, op[c].seen)
                               THEN @ \union {e} ELSE @]
    /\ UNCHANGED <<entry, similar, fuse>>

DeduplicateReturns(c) ==
    /\ op[c].pc = "look" /\ op[c].left = {}
    /\ op' = [op EXCEPT ![c] = NoCall]
    /\ entry' = IF Others(c) THEN entry ELSE <<>>
    /\ UNCHANGED <<similar, fuse, cache>>

-----------------------------------------------------------------------------
Next ==
    \/ FuseResults
    \/ KeepBest
    \/ StartMerging
    \/ Merge
    \/ Limit
    \/ FuseReturns
    \/ \E c \in Callers : Deduplicate(c)
    \/ \E c \in Callers : ClearCache(c)
    \/ \E c \in Callers, e \in Entries : Look(c, e)
    \/ \E c \in Callers : DeduplicateReturns(c)

Spec == Init /\ [][Next]_vars

-----------------------------------------------------------------------------
FuseType ==
    [pc : {"idle", "exact", "similar", "answered"}, left : SUBSET Entries,
     best : SUBSET Entries, result : Seq(Entries), answer : SUBSET Entries]

CallType ==
    [pc : {"idle", "clear", "look"}, left : SUBSET Entries, kept : SUBSET Entries,
     seen : SUBSET Entries, astray : SUBSET Entries, alone : BOOLEAN]

TypeOK ==
    /\ entry \in {<<>>} \union [Entries -> [content : Contents, confidence : Confidences]]
                  \union [Entries -> [content : Contents, id : IDs]]
    /\ similar \in Symmetric
    /\ fuse \in FuseType
    /\ cache \in [ids : SUBSET IDs, contents : SUBSET Contents]
    /\ op \in [Callers -> CallType]

\* Entries that nothing outside S resembles.
Apart(S) ==
    \A x \in S, y \in Entries :
       <<x, y>> \in similar \/ entry[x].content = entry[y].content => y \in S

\* Whatever the order in which the entries come, each group of entries that
\* resemble one another, if only by way of others, keeps one that is no less
\* confident than any of them, and no content stays twice; only the limit drops
\* more.
BestOfEachGroupStays ==
    fuse.pc = "answered" =>
       /\ \A S \in SUBSET Entries : Apart(S) => \A x \in S :
             \E y \in S \intersect Range(fuse.result) :
                entry[x].confidence <= entry[y].confidence
       /\ \A i, j \in DOMAIN fuse.result :
             entry[fuse.result[i]].content = entry[fuse.result[j]].content => i = j
       /\ fuse.answer = Range(fuse.result) \/ Cardinality(fuse.answer) = TopK

\* A Deduplicate that no other call overlaps drops an entry only when one before it
\* in its slice has its ID or its content, whatever earlier calls have left in the
\* cache, and returns no two entries of the same ID or content.
ExactWhenAlone ==
    \A c \in Callers : op[c].alone =>
       /\ op[c].astray = {}
       /\ \A x, y \in op[c].kept : x # y =>
             entry[x].id # entry[y].id /\ entry[x].content # entry[y].content

\* What the comment on Deduplicate says: it removes the duplicates of its slice, and
\* no entry that repeats none before it.  The cache that calls share breaks this.
DropsOnlyDuplicates == \A c \in Callers : op[c].astray = {}
=============================================================================
