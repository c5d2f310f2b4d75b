------------------------- MODULE ConsolidatorProofs -------------------------
(***************************************************************************)
(* Safety of Consolidator for any entries, contents, confidences and       *)
(* callers, from one inductive invariant.  For FuseResults it says that a  *)
(* group never loses its best: one of the entries that stay, or that are   *)
(* still to be looked at, is as confident as any of the group.  For        *)
(* Deduplicate it says where what is in the cache comes from.  At the end, *)
(* what the engine takes FuseResults to do.                                *)
(***************************************************************************)
EXTENDS Consolidator, SequenceTheorems, FiniteSetTheorems,
        WellFoundedInduction, TLAPS

FusedEntries == [Entries -> [content : Contents, confidence : Confidences]]
SlicedEntries == [Entries -> [content : Contents, id : IDs]]

\* Every entry has, in S, one of its group that is no less confident.
Outdone(S) ==
    \A G \in SUBSET Entries : Apart(G) => \A x \in G :
       \E y \in G \intersect S : entry[x].confidence <= entry[y].confidence

\* No two of S have the same content.
Distinct(S) == \A x, y \in S : entry[x].content = entry[y].content => x = y

\* The entries of the result are different ones.
Injective(result) == \A i, j \in DOMAIN result : result[i] = result[j] => i = j

\* Phase 1 has kept the best of each content; phase 2 has put the best of each
\* group into the result, or has still to look at it; the limit has dropped
\* entries only down to TopK.
FuseFits ==
    /\ fuse.pc # "idle" => entry \in FusedEntries /\ \A c \in Callers : op[c] = NoCall
    /\ fuse.pc = "exact" => /\ fuse.result = <<>>
                            /\ Outdone(fuse.best \union fuse.left)
                            /\ fuse.best \intersect fuse.left = {}
    /\ fuse.pc # "idle" => Distinct(fuse.best)
    /\ fuse.pc = "similar" => fuse.left \subseteq fuse.best
    /\ fuse.pc \in {"similar", "answered"} =>
          /\ Range(fuse.result) \subseteq fuse.best \ fuse.left
          /\ Injective(fuse.result)
          /\ Outdone(Range(fuse.result) \union fuse.left)
    /\ fuse.pc = "answered" =>
          /\ fuse.left = {}
          /\ fuse.answer = Range(fuse.result) \/ Cardinality(fuse.answer) = TopK

\* A call under way looks at entries of a slice.  While it is alone, what is in the
\* cache it has looked at, what it kept is there, and it has dropped none for nothing.
CallFits(c) ==
    /\ op[c].pc = "idle" <=> op[c] = NoCall
    /\ op[c] # NoCall => Entries # {} /\ entry \in SlicedEntries /\ fuse = NoFuse
    /\ op[c].pc = "clear" => op[c].kept = {} /\ op[c].astray = {}
    /\ op[c].alone =>
          /\ op[c] # NoCall => \A d \in Callers \ {c} : op[d] = NoCall
          /\ op[c].pc = "look" =>
                /\ \A i \in cache.ids : \E x \in op[c].seen : entry[x].id = i
                /\ \A t \in cache.contents : \E x \in op[c].seen : entry[x].content = t
          /\ op[c].astray = {}
          /\ \A x \in op[c].kept :
                entry[x].id \in cache.ids /\ entry[x].content \in cache.contents
          /\ \A x, y \in op[c].kept : x # y =>
                entry[x].id # entry[y].id /\ entry[x].content # entry[y].content

IInv ==
    /\ TypeOK
    /\ FuseFits
    /\ \A c \in Callers : CallFits(c)

-----------------------------------------------------------------------------
(* Facts about sequences and finite sets.                                    *)

\* What one more element makes of a sequence without repetition.
LEMMA AppendFits ==
    ASSUME NEW s \in Seq(Entries), NEW e \in Entries, e \notin Range(s), Injective(s)
    PROVE  /\ Append(s, e) \in Seq(Entries)
           /\ Range(Append(s, e)) = Range(s) \union {e}
           /\ Injective(Append(s, e))
<1> DEFINE t == Append(s, e)
<1>1. /\ t \in Seq(Entries) /\ Len(t) = Len(s) + 1 /\ Len(s) \in Nat
      /\ \A i \in 1..Len(s) : t[i] = s[i]
      /\ t[Len(s) + 1] = e
  BY AppendProperties, LenProperties
<1>2. DOMAIN s = 1..Len(s) /\ DOMAIN t = 1..(Len(s) + 1)
  BY <1>1, LenProperties
<1> HIDE DEF t
<1>3. Range(t) = Range(s) \union {e}
  BY <1>1, <1>2 DEF Range
<1>4. Injective(t)
  BY <1>1, <1>2 DEF Injective, Range
<1> QED
  BY <1>1, <1>3, <1>4 DEF t

\* What an entry put in the place of another makes of it.
LEMMA ReplaceFits ==
    ASSUME NEW s \in Seq(Entries), NEW e \in Entries, e \notin Range(s), Injective(s),
           NEW k \in DOMAIN s
    PROVE  /\ [s EXCEPT ![k] = e] \in Seq(Entries)
           /\ Range([s EXCEPT ![k] = e]) = (Range(s) \ {s[k]}) \union {e}
           /\ Injective([s EXCEPT ![k] = e])
<1> DEFINE t == [s EXCEPT ![k] = e]
<1>1. DOMAIN s = 1..Len(s) /\ Len(s) \in Nat
  BY LenProperties
<1>2. t \in Seq(Entries)
  BY <1>1, ExceptSeq
<1>3. DOMAIN t = DOMAIN s /\ t[k] = e /\ \A i \in DOMAIN s : i # k => t[i] = s[i]
  OBVIOUS
<1> HIDE DEF t
<1>4. Range(t) = (Range(s) \ {s[k]}) \union {e}
  <2>1. \A x \in Range(t) : x = e \/ (x \in Range(s) /\ x # s[k])
    BY <1>3 DEF Range, Injective
  <2>2. \A x \in Range(s) : x # s[k] => x \in Range(t)
    BY <1>3 DEF Range
  <2>3. e \in Range(t)
    BY <1>3 DEF Range
  <2> QED
    BY <2>1, <2>2, <2>3
<1>5. Injective(t)
  BY <1>3 DEF Injective, Range
<1> QED
  BY <1>2, <1>4, <1>5 DEF t

\* The smallest of a set of positions is one of them.
LEMMA MinIsMember ==
    ASSUME NEW n \in Nat, NEW S \in SUBSET (1..n), S # {}
    PROVE  Min(S) \in S
<1> DEFINE R == {z \in Nat \X Nat : z[1] < z[2]}
<1>1. IsWellFoundedOn(R, Nat)
  BY NatLessThanWellFounded DEF OpToRel
<1>2. PICK m \in S : \A k \in S : ~(<<k, m>> \in R)
  <2> HIDE DEF R
  <2>1. S \subseteq Nat
    OBVIOUS
  <2> QED
    BY <1>1, <2>1, WFMin
<1>3. \A k \in S : m =< k
  <2> SUFFICES ASSUME NEW k \in S PROVE m =< k
    OBVIOUS
  <2>1. k \in Nat /\ m \in Nat
    OBVIOUS
  <2>2. k < m => <<k, m>> \in R
    BY <2>1
  <2> QED
    BY <1>2, <2>1, <2>2
<1> QED
  BY <1>3 DEF Min

-----------------------------------------------------------------------------
(* The steps of FuseResults.                                                 *)

\* Entries may stand for others when each of those has one of them in its group
\* that is no less confident.
LEMMA OutdoneByOthers ==
    ASSUME entry \in FusedEntries, NEW S \in SUBSET Entries, NEW T \in SUBSET Entries,
           Outdone(S),
           \A y \in S : \E z \in T :
              /\ entry[y].confidence <= entry[z].confidence
              /\ \A G \in SUBSET Entries : Apart(G) /\ y \in G => z \in G
    PROVE  Outdone(T)
<1> SUFFICES ASSUME NEW G \in SUBSET Entries, Apart(G), NEW x \in G
             PROVE  \E z \in G \intersect T : entry[x].confidence <= entry[z].confidence
  BY DEF Outdone
<1>1. PICK y \in G \intersect S : entry[x].confidence <= entry[y].confidence
  BY DEF Outdone
<1>2. PICK z \in T : entry[y].confidence <= entry[z].confidence /\ z \in G
  BY <1>1
<1>3. \A e \in Entries : entry[e].confidence \in Nat
  BY ConsolidatorAssumption DEF ConsolidatorAssumption, FusedEntries
<1>4. entry[x].confidence <= entry[z].confidence
  BY <1>1, <1>2, <1>3
<1> QED
  BY <1>2, <1>4

\* While a call of FuseResults is under way nothing but it changes, and the
\* callers of Deduplicate stay out.
LEMMA FuseKeeps ==
    ASSUME IInv, fuse.pc # "idle", UNCHANGED <<entry, similar, cache, op>>,
           fuse' \in FuseType, fuse'.pc # "idle", FuseFits'
    PROVE  IInv'
<1>1. TypeOK'
  BY DEF IInv, TypeOK
<1>2. ASSUME NEW c \in Callers
      PROVE  CallFits(c)'
  <2>1. op[c] = NoCall
    BY DEF IInv, FuseFits
  <2> QED
    BY <2>1 DEF CallFits, NoCall
<1> QED
  BY <1>1, <1>2 DEF IInv

\* Keeping the best of each content keeps IInv.
LEMMA KeepBestKeeps == IInv /\ KeepBest => IInv'
<1> SUFFICES ASSUME IInv, KeepBest PROVE IInv'
  OBVIOUS
<1>1. /\ fuse.pc = "exact" /\ UNCHANGED <<entry, similar, cache, op>>
      /\ entry \in FusedEntries /\ fuse \in FuseType
      /\ \A c \in Callers : op[c] = NoCall
  BY DEF KeepBest, IInv, FuseFits, TypeOK
<1>2. PICK e \in fuse.left :
          LET same == {b \in fuse.best : entry[b].content = entry[e].content}
              better == \A b \in same : entry[e].confidence > entry[b].confidence IN
          fuse' = [fuse EXCEPT !.left = @ \ {e},
                               !.best = IF better THEN (@ \ same) \union {e} ELSE @]
  BY DEF KeepBest
<1> DEFINE same == {b \in fuse.best : entry[b].content = entry[e].content}
           better == \A b \in same : entry[e].confidence > entry[b].confidence
           S == fuse.best \union fuse.left
           T == fuse.best' \union fuse.left'
<1>3. /\ fuse' \in FuseType /\ fuse'.pc = "exact" /\ fuse'.result = fuse.result
      /\ fuse'.left = fuse.left \ {e}
      /\ fuse'.best = IF better THEN (fuse.best \ same) \union {e} ELSE fuse.best
  BY <1>1, <1>2 DEF FuseType
<1>4. /\ fuse.best \subseteq Entries /\ fuse.left \subseteq Entries /\ e \in Entries
      /\ Outdone(S) /\ Distinct(fuse.best) /\ fuse.best \intersect fuse.left = {}
      /\ fuse.result = <<>>
  BY <1>1 DEF FuseType, IInv, FuseFits
<1>5. \A x \in Entries : entry[x].confidence \in Nat
  BY <1>1, ConsolidatorAssumption DEF ConsolidatorAssumption, FusedEntries
<1>6. ASSUME NEW y \in S
      PROVE  \E z \in T :
              /\ entry[y].confidence <= entry[z].confidence
              /\ \A G \in SUBSET Entries : Apart(G) /\ y \in G => z \in G
  <2>1. \A z \in Entries, G \in SUBSET Entries :
           Apart(G) /\ y \in G /\ entry[y].content = entry[z].content => z \in G
    BY DEF Apart
  <2>2. CASE y \in T
    BY <1>4, <1>5, <2>2
  <2>3. CASE y \notin T /\ better
    <3>1. y \in same /\ e \in T
      BY <1>3, <2>3
    <3>2. entry[y].content = entry[e].content /\ entry[e].confidence > entry[y].confidence
      BY <2>3, <3>1
    <3> QED
      BY <1>4, <1>5, <2>1, <3>1, <3>2
  <2>4. CASE y \notin T /\ ~better
    <3>1. y = e
      BY <1>3, <2>4
    <3>2. PICK b \in same : ~(entry[e].confidence > entry[b].confidence)
      BY <2>4
    <3>3. b \in T /\ b \in Entries /\ entry[y].content = entry[b].content
      BY <1>3, <1>4, <2>4, <3>1, <3>2
    <3>4. entry[y].confidence <= entry[b].confidence
      BY <1>4, <1>5, <3>1, <3>2, <3>3
    <3> QED
      BY <2>1, <3>3, <3>4
  <2> QED
    BY <2>2, <2>3, <2>4
<1>7. Outdone(T)
  <2>1. S \in SUBSET Entries /\ T \in SUBSET Entries
    BY <1>3, <1>4
  <2> HIDE DEF S, T
  <2> QED
    BY <1>1, <1>4, <1>6, <2>1, OutdoneByOthers
<1>8. Outdone(fuse.best \union fuse.left)'
  BY <1>1, <1>7 DEF Outdone, Apart
<1>9. Distinct(fuse.best)' /\ fuse'.best \intersect fuse'.left = {}
  BY <1>1, <1>3, <1>4 DEF Distinct
<1>10. FuseFits'
  BY <1>1, <1>3, <1>4, <1>8, <1>9 DEF FuseFits
<1> QED
  BY <1>1, <1>3, <1>10, FuseKeeps

\* Going on to phase 2 keeps IInv.
LEMMA StartMergingKeeps == IInv /\ StartMerging => IInv'
<1> SUFFICES ASSUME IInv, StartMerging PROVE IInv'
  OBVIOUS
<1>1. /\ fuse.pc = "exact" /\ fuse.left = {} /\ UNCHANGED <<entry, similar, cache, op>>
      /\ entry \in FusedEntries /\ fuse \in FuseType
      /\ \A c \in Callers : op[c] = NoCall
      /\ fuse.result = <<>> /\ Outdone(fuse.best) /\ Distinct(fuse.best)
  BY DEF StartMerging, IInv, FuseFits, TypeOK
<1>2. /\ fuse' \in FuseType /\ fuse'.pc = "similar" /\ fuse'.left = fuse.best
      /\ fuse'.best = fuse.best /\ fuse'.result = <<>>
  BY <1>1 DEF StartMerging, FuseType
<1>3. Range(<<>>) = {} /\ Injective(<<>>)
  BY DEF Range, Injective
<1>4. Outdone(Range(fuse.result) \union fuse.left)'
  <2>1. Range(fuse'.result) \union fuse'.left = fuse.best
    BY <1>2, <1>3
  <2> QED
    BY <1>1, <2>1 DEF Outdone, Apart
<1>5. Distinct(fuse.best)'
  BY <1>1, <1>2 DEF Distinct
<1>6. Range(fuse'.result) = {} /\ Injective(fuse'.result)
  BY <1>2, <1>3
<1>7. FuseFits'
  BY <1>1, <1>2, <1>4, <1>5, <1>6 DEF FuseFits
<1> QED
  BY <1>1, <1>2, <1>7, FuseKeeps

\* Merging an entry keeps IInv.
LEMMA MergeKeeps == IInv /\ Merge => IInv'
<1> SUFFICES ASSUME IInv, Merge PROVE IInv'
  OBVIOUS
<1>1. /\ fuse.pc = "similar" /\ UNCHANGED <<entry, similar, cache, op>>
      /\ entry \in FusedEntries /\ fuse \in FuseType /\ similar \in Symmetric
      /\ \A c \in Callers : op[c] = NoCall
  BY DEF Merge, IInv, FuseFits, TypeOK
<1>2. PICK e \in fuse.left :
          fuse' = [fuse EXCEPT !.left = @ \ {e}, !.result = Merged(@, e)]
  BY DEF Merge
<1> DEFINE s == fuse.result
           t == Merged(s, e)
           S == Range(s) \union fuse.left
           T == Range(t) \union (fuse.left \ {e})
<1>3. /\ s \in Seq(Entries) /\ Injective(s) /\ Range(s) \subseteq fuse.best \ fuse.left
      /\ fuse.left \subseteq fuse.best /\ fuse.best \subseteq Entries /\ e \in Entries
      /\ Outdone(S) /\ Distinct(fuse.best)
  BY <1>1 DEF FuseType, IInv, FuseFits
<1>4. e \notin Range(s)
  BY <1>3
<1>5. \A x \in Entries : entry[x].confidence \in Nat
  BY <1>1, ConsolidatorAssumption DEF ConsolidatorAssumption, FusedEntries
<1>6. /\ t \in Seq(Entries) /\ Injective(t)
      /\ Range(t) \subseteq Range(s) \union {e}
      /\ \A y \in S : \E z \in T :
            /\ entry[y].confidence <= entry[z].confidence
            /\ \A G \in SUBSET Entries : Apart(G) /\ y \in G => z \in G
  <2>1. CASE Close(s, e) = {}
    <3>1. t = Append(s, e)
      BY <2>1 DEF Merged
    <3>2. t \in Seq(Entries) /\ Injective(t) /\ Range(t) = Range(s) \union {e}
      BY <1>3, <1>4, <3>1, AppendFits
    <3>3. \A y \in S : y \in T /\ y \in Entries
      BY <1>3, <3>2
    <3> QED
      BY <1>5, <3>2, <3>3
  <2>2. CASE Close(s, e) # {}
    <3> DEFINE first == Min(Close(s, e))
               r == s[first]
    <3>1. first \in DOMAIN s /\ <<e, r>> \in similar
      <4>1. DOMAIN s = 1..Len(s) /\ Len(s) \in Nat
        BY <1>3, LenProperties
      <4>2. Close(s, e) \in SUBSET (1..Len(s))
        BY <4>1 DEF Close
      <4>3. first \in Close(s, e)
        BY <2>2, <4>1, <4>2, MinIsMember
      <4> QED
        BY <4>3 DEF Close
    <3>2. r \in Range(s) /\ r \in Entries /\ <<r, e>> \in similar
      <4>1. r \in Range(s) /\ r \in Entries
        BY <1>3, <3>1 DEF Range
      <4>2. \A z \in similar : <<z[2], z[1]>> \in similar
        BY <1>1 DEF Symmetric
      <4> QED
        BY <3>1, <4>1, <4>2
    <3>3. \A G \in SUBSET Entries : Apart(G) => (e \in G <=> r \in G)
      BY <1>3, <3>1, <3>2 DEF Apart
    <3> HIDE DEF first
    <3>4. CASE entry[e].confidence > entry[r].confidence
      <4>1. t = [s EXCEPT ![first] = e]
        BY <2>2, <3>4 DEF Merged, first
      <4>2. t \in Seq(Entries) /\ Injective(t) /\ Range(t) = (Range(s) \ {r}) \union {e}
        BY <1>3, <1>4, <3>1, <4>1, ReplaceFits
      <4>3. ASSUME NEW y \in S
            PROVE  \E z \in T :
                     /\ entry[y].confidence <= entry[z].confidence
                     /\ \A G \in SUBSET Entries : Apart(G) /\ y \in G => z \in G
        <5>1. CASE y = r
          <6>1. e \in T
            BY <4>2
          <6>2. entry[y].confidence <= entry[e].confidence
            BY <1>3, <1>5, <3>2, <3>4, <5>1
          <6> QED
            BY <3>3, <5>1, <6>1, <6>2
        <5>2. CASE y # r
          <6>1. y \in T /\ y \in Entries
            BY <1>3, <4>2, <5>2
          <6> QED
            BY <1>5, <6>1
        <5> QED
          BY <5>1, <5>2
      <4> QED
        BY <4>2, <4>3
    <3>5. CASE ~(entry[e].confidence > entry[r].confidence)
      <4>1. t = s
        BY <2>2, <3>5 DEF Merged, first
      <4>2. ASSUME NEW y \in S
            PROVE  \E z \in T :
                     /\ entry[y].confidence <= entry[z].confidence
                     /\ \A G \in SUBSET Entries : Apart(G) /\ y \in G => z \in G
        <5>1. CASE y = e
          <6>1. r \in T
            BY <3>2, <4>1
          <6>2. entry[y].confidence <= entry[r].confidence
            BY <1>3, <1>5, <3>2, <3>5, <5>1
          <6> QED
            BY <3>3, <5>1, <6>1, <6>2
        <5>2. CASE y # e
          <6>1. y \in T /\ y \in Entries
            BY <1>3, <4>1, <5>2
          <6> QED
            BY <1>5, <6>1
        <5> QED
          BY <5>1, <5>2
      <4> QED
        BY <1>3, <4>1, <4>2
    <3> QED
      BY <3>4, <3>5
  <2> QED
    BY <2>1, <2>2
<1> HIDE DEF t
<1>7. /\ fuse' \in FuseType /\ fuse'.pc = "similar" /\ fuse'.left = fuse.left \ {e}
      /\ fuse'.best = fuse.best /\ fuse'.result = t
  BY <1>1, <1>2, <1>6 DEF FuseType, t
<1>8. Outdone(T)
  <2>1. S \in SUBSET Entries /\ T \in SUBSET Entries
    BY <1>3, <1>6
  <2> HIDE DEF S, T
  <2> QED
    BY <1>1, <1>3, <1>6, <2>1, OutdoneByOthers
<1>9. Outdone(Range(fuse.result) \union fuse.left)'
  BY <1>1, <1>7, <1>8 DEF Outdone, Apart
<1>10. Distinct(fuse.best)'
  BY <1>1, <1>3, <1>7 DEF Distinct
<1>11. /\ Range(fuse'.result) \subseteq fuse'.best \ fuse'.left
       /\ Injective(fuse'.result) /\ fuse'.left \subseteq fuse'.best
  BY <1>3, <1>6, <1>7
<1>12. FuseFits'
  BY <1>1, <1>7, <1>9, <1>10, <1>11 DEF FuseFits
<1> QED
  BY <1>1, <1>7, <1>12, FuseKeeps

\* The limit keeps IInv: as many are taken as there are, or TopK.
LEMMA LimitKeeps == IInv /\ Limit => IInv'
<1> SUFFICES ASSUME IInv, Limit PROVE IInv'
  OBVIOUS
<1> DEFINE s == fuse.result
<1>1. /\ fuse.pc = "similar" /\ fuse.left = {} /\ UNCHANGED <<entry, similar, cache, op>>
      /\ entry \in FusedEntries /\ fuse \in FuseType
      /\ \A c \in Callers : op[c] = NoCall
  BY DEF Limit, IInv, FuseFits, TypeOK
<1>2. PICK answer \in SUBSET Range(s) :
          /\ Cardinality(answer) = Min({TopK, Len(s)})
          /\ fuse' = [fuse EXCEPT !.pc = "answered", !.answer = answer]
  BY DEF Limit
<1>3. /\ s \in Seq(Entries) /\ Injective(s) /\ Range(s) \subseteq fuse.best \ fuse.left
      /\ fuse.best \subseteq Entries /\ Range(s) \subseteq Entries
      /\ Outdone(Range(s)) /\ Distinct(fuse.best)
  BY <1>1 DEF FuseType, IInv, FuseFits
<1>4. answer = Range(s) \/ Cardinality(answer) = TopK
  <2>1. DOMAIN s = 1..Len(s) /\ Len(s) \in Nat /\ TopK \in Nat
    BY <1>3, LenProperties, ConsolidatorAssumption DEF ConsolidatorAssumption
  <2>2. Min({TopK, Len(s)}) = TopK \/ Min({TopK, Len(s)}) = Len(s)
    <3>1. \E m \in {TopK, Len(s)} : \A k \in {TopK, Len(s)} : m =< k
      BY <2>1
    <3>2. Min({TopK, Len(s)}) \in {TopK, Len(s)}
      BY <3>1 DEF Min
    <3> QED
      BY <3>2
  <2>3. CASE Cardinality(answer) = Len(s)
    <3>1. IsFiniteSet(1..Len(s)) /\ Cardinality(1..Len(s)) = Len(s)
      BY <2>1, FS_Interval
    <3>2. s \in Surjection(1..Len(s), Range(s))
      BY <2>1, <1>3 DEF Surjection, Range
    <3>3. IsFiniteSet(Range(s)) /\ Cardinality(Range(s)) <= Len(s)
      BY <3>1, <3>2, FS_Surjection
    <3>4. Cardinality(answer) <= Cardinality(Range(s))
          /\ (Cardinality(Range(s)) = Cardinality(answer) => Range(s) = answer)
      BY <3>3, FS_Subset
    <3>5. Cardinality(Range(s)) \in Nat
      BY <3>3, FS_CardinalityType
    <3> QED
      BY <2>1, <2>3, <3>3, <3>4, <3>5
  <2> QED
    BY <1>2, <2>2, <2>3
<1>5. /\ fuse' \in FuseType /\ fuse'.pc = "answered" /\ fuse'.left = {}
      /\ fuse'.best = fuse.best /\ fuse'.result = s /\ fuse'.answer = answer
  BY <1>1, <1>2, <1>3 DEF FuseType
<1>6. Outdone(Range(fuse.result) \union fuse.left)'
  <2>1. Range(fuse'.result) \union fuse'.left = Range(s)
    BY <1>5
  <2> QED
    BY <1>1, <1>3, <2>1 DEF Outdone, Apart
<1>7. Distinct(fuse.best)'
  BY <1>1, <1>3, <1>5 DEF Distinct
<1>8. /\ Range(fuse'.result) \subseteq fuse'.best \ fuse'.left
      /\ Injective(fuse'.result)
  BY <1>1, <1>3, <1>5
<1>9. FuseFits'
  BY <1>1, <1>4, <1>5, <1>6, <1>7, <1>8 DEF FuseFits
<1> QED
  BY <1>1, <1>5, <1>9, FuseKeeps

\* Beginning a call of FuseResults keeps IInv: no call of Deduplicate is under way.
LEMMA FuseResultsKeeps == IInv /\ FuseResults => IInv'
<1> SUFFICES ASSUME IInv, FuseResults PROVE IInv'
  OBVIOUS
<1>1. /\ entry' \in FusedEntries /\ similar' \in Symmetric
      /\ fuse' = [NoFuse EXCEPT !.pc = "exact", !.left = Entries]
      /\ UNCHANGED <<cache, op>>
  BY DEF FuseResults, FusedEntries
<1>2. /\ fuse' \in FuseType /\ fuse'.pc = "exact" /\ fuse'.left = Entries
      /\ fuse'.best = {} /\ fuse'.result = <<>>
  <2>1. <<>> \in Seq(Entries)
    OBVIOUS
  <2> QED
    BY <1>1, <2>1 DEF NoFuse, FuseType
<1>3. ASSUME NEW c \in Callers
      PROVE  op[c] = NoCall
  <2>1. entry = <<>> /\ CallFits(c)
    BY DEF FuseResults, IInv
  <2>2. DOMAIN <<>> = {}
    OBVIOUS
  <2>3. Entries # {} /\ entry \in SlicedEntries => DOMAIN entry # {}
    BY DEF SlicedEntries
  <2> QED
    BY <2>1, <2>2, <2>3 DEF CallFits
<1>4. TypeOK'
  BY <1>1, <1>2 DEF IInv, TypeOK, FusedEntries
<1>5. Outdone(fuse.best \union fuse.left)'
  <2>1. \A x \in Entries : entry'[x].confidence \in Nat
    BY <1>1, ConsolidatorAssumption DEF ConsolidatorAssumption, FusedEntries
  <2>2. \A x \in Entries : entry'[x].confidence <= entry'[x].confidence
    BY <2>1
  <2> QED
    BY <1>2, <2>2 DEF Outdone
<1>6. Distinct(fuse.best)'
  BY <1>2 DEF Distinct
<1>7. FuseFits'
  BY <1>1, <1>2, <1>3, <1>5, <1>6 DEF FuseFits
<1>8. ASSUME NEW c \in Callers
      PROVE  CallFits(c)'
  BY <1>1, <1>3 DEF CallFits, NoCall
<1> QED
  BY <1>4, <1>7, <1>8 DEF IInv

\* Its return keeps IInv.
LEMMA FuseReturnsKeeps == IInv /\ FuseReturns => IInv'
<1> SUFFICES ASSUME IInv, FuseReturns PROVE IInv'
  OBVIOUS
<1>1. /\ fuse' = NoFuse /\ entry' = <<>> /\ similar' = {} /\ UNCHANGED <<cache, op>>
      /\ \A c \in Callers : op[c] = NoCall
  BY DEF FuseReturns, IInv, FuseFits
<1>2. NoFuse \in FuseType /\ NoFuse.pc = "idle" /\ {} \in Symmetric
  BY DEF NoFuse, FuseType, Symmetric
<1>3. TypeOK' /\ FuseFits'
  BY <1>1, <1>2 DEF IInv, TypeOK, FuseFits
<1>4. ASSUME NEW c \in Callers
      PROVE  CallFits(c)'
  BY <1>1 DEF CallFits, NoCall
<1> QED
  BY <1>3, <1>4 DEF IInv

-----------------------------------------------------------------------------
(* The steps of Deduplicate.                                                 *)

\* While a call of Deduplicate is under way FuseResults is not.
LEMMA DeduplicateLeavesFuse ==
    ASSUME IInv, fuse = NoFuse, UNCHANGED <<similar, fuse>>
    PROVE  FuseFits'
  BY DEF FuseFits, NoFuse

\* What one call does to the cache wrongs no other that is not alone.
LEMMA OthersFit ==
    ASSUME NEW d \in Callers, CallFits(d), op'[d] = op[d], UNCHANGED <<entry, fuse>>,
           op[d].alone => op[d] = NoCall
    PROVE  CallFits(d)'
<1>1. CASE op[d] = NoCall
  BY <1>1 DEF CallFits, NoCall
<1>2. CASE op[d] # NoCall
  BY <1>2 DEF CallFits
<1> QED
  BY <1>1, <1>2

\* Beginning a call keeps IInv.
LEMMA DeduplicateKeeps ==
    ASSUME IInv, NEW c \in Callers, Deduplicate(c)
    PROVE  IInv'
<1>1. /\ op[c] = NoCall /\ fuse = NoFuse /\ UNCHANGED <<similar, fuse, cache>>
      /\ IF Others(c) THEN UNCHANGED entry ELSE entry' \in SlicedEntries
  BY DEF Deduplicate, SlicedEntries
<1>2. PICK slice \in (SUBSET Entries) \ {{}} :
          op' = With(c, [NoCall EXCEPT !.pc = "clear", !.left = slice])
  BY DEF Deduplicate
<1>3. Entries # {} /\ slice \subseteq Entries
  BY <1>2
<1>4. op \in [Callers -> CallType]
  BY DEF IInv, TypeOK
<1>5. /\ op'[c] = [NoCall EXCEPT !.pc = "clear", !.left = slice, !.alone = ~Others(c)]
      /\ \A d \in Callers \ {c} :
            op'[d] = [op[d] EXCEPT !.alone = @ /\ op[d] = NoCall]
  BY <1>2 DEF With, NoCall
<1>6. /\ op'[c] \in CallType /\ op'[c].pc = "clear" /\ op'[c].kept = {} /\ op'[c].seen = {}
      /\ op'[c].astray = {} /\ op'[c].alone = ~Others(c) /\ op'[c] # NoCall
  <2>1. (~Others(c)) \in BOOLEAN
    <3>1. CASE Others(c)
      BY <3>1
    <3>2. CASE ~Others(c)
      BY <3>2
    <3> QED
      BY <3>1, <3>2
  <2> DEFINE alone == ~Others(c)
  <2> HIDE DEF alone
  <2>2. alone \in BOOLEAN
    BY <2>1 DEF alone
  <2>3. op'[c] = [pc |-> "clear", left |-> slice, kept |-> {}, seen |-> {}, astray |-> {},
                  alone |-> alone]
    BY <1>5 DEF NoCall, alone
  <2>4. op'[c] \in CallType
    BY <1>3, <2>2, <2>3 DEF CallType
  <2>5. op'[c].alone = ~Others(c)
    BY <2>3 DEF alone
  <2>6. op'[c].pc # NoCall.pc
    BY <2>3 DEF NoCall
  <2> QED
    BY <2>3, <2>4, <2>5, <2>6
<1>7. \A d \in Callers \ {c} :
         /\ op'[d] \in CallType /\ op'[d].pc = op[d].pc /\ op'[d].kept = op[d].kept
         /\ op'[d].seen = op[d].seen /\ op'[d].astray = op[d].astray
         /\ op'[d].alone => op[d].alone /\ op[d] = NoCall
         /\ op[d] = NoCall => op'[d] = NoCall
  <2> SUFFICES ASSUME NEW d \in Callers \ {c}
               PROVE  /\ op'[d] \in CallType /\ op'[d].pc = op[d].pc
                      /\ op'[d].kept = op[d].kept /\ op'[d].seen = op[d].seen
                      /\ op'[d].astray = op[d].astray
                      /\ op'[d].alone => op[d].alone /\ op[d] = NoCall
                      /\ op[d] = NoCall => op'[d] = NoCall
    OBVIOUS
  <2>1. op[d] \in CallType
    BY <1>4
  <2>2. CASE op[d] = NoCall
    <3>1. op'[d] = [NoCall EXCEPT !.alone = TRUE]
      <4>1. op'[d] = [op[d] EXCEPT !.alone = op[d].alone /\ op[d] = NoCall]
        BY <1>5
      <4>2. op[d].alone = TRUE
        BY <2>2 DEF NoCall
      <4>3. (op[d].alone /\ op[d] = NoCall) = TRUE
        BY <2>2, <4>2
      <4> QED
        BY <2>2, <4>1, <4>3
    <3>2. op'[d] = NoCall
      BY <3>1 DEF NoCall
    <3> QED
      BY <2>1, <2>2, <3>2 DEF NoCall
  <2>3. CASE op[d] # NoCall
    <3>1. op'[d] = [op[d] EXCEPT !.alone = FALSE]
      BY <1>5, <2>3
    <3>2. op'[d] \in CallType /\ op'[d].alone = FALSE
      BY <2>1, <3>1 DEF CallType
    <3>3. /\ op'[d].pc = op[d].pc /\ op'[d].kept = op[d].kept
          /\ op'[d].seen = op[d].seen /\ op'[d].astray = op[d].astray
      BY <2>1, <3>1 DEF CallType
    <3> QED
      BY <2>3, <3>2, <3>3
  <2> QED
    BY <2>2, <2>3
<1>8. op' \in [Callers -> CallType]
  <2>1. DOMAIN op' = Callers /\ op' = [d \in Callers |-> op'[d]]
    BY <1>2 DEF With
  <2> QED
    BY <1>6, <1>7, <2>1
<1>9. entry' \in SlicedEntries
  <2>1. CASE Others(c)
    BY <1>1, <2>1 DEF Others, IInv, CallFits
  <2>2. CASE ~Others(c)
    BY <1>1, <2>2
  <2> QED
    BY <2>1, <2>2
<1>10. TypeOK'
  BY <1>1, <1>8, <1>9 DEF IInv, TypeOK, SlicedEntries
<1>11. FuseFits'
  BY <1>1, DeduplicateLeavesFuse
<1>12. CallFits(c)'
  <2>1. ~Others(c) => \A d \in Callers \ {c} : op'[d] = NoCall
    BY <1>7 DEF Others
  <2> QED
    BY <1>1, <1>3, <1>6, <1>9, <2>1 DEF CallFits, NoCall
<1>13. ASSUME NEW d \in Callers, d # c
       PROVE  CallFits(d)'
  <2>1. CallFits(d)
    BY DEF IInv
  <2>2. CASE op[d] = NoCall
    <3>1. op'[d] = NoCall
      BY <1>7, <1>13, <2>2
    <3> QED
      BY <3>1 DEF CallFits, NoCall
  <2>3. CASE op[d] # NoCall
    <3>1. Others(c)
      BY <1>13, <2>3 DEF Others
    <3>2. entry' = entry /\ cache' = cache /\ fuse' = NoFuse
      BY <1>1, <3>1
    <3>3. op'[d] # NoCall /\ ~op'[d].alone
      <4>1. ~op'[d].alone
        BY <1>7, <1>13, <2>3
      <4> QED
        BY <4>1 DEF NoCall
    <3>4. op[d].pc # "idle"
      BY <2>1, <2>3 DEF CallFits
    <3> QED
      BY <1>3, <1>7, <1>9, <1>13, <2>1, <2>3, <3>2, <3>3, <3>4 DEF CallFits
  <2> QED
    BY <2>2, <2>3
<1> QED
  BY <1>10, <1>11, <1>12, <1>13 DEF IInv

\* Clearing the cache keeps IInv: a call that is alone has not looked yet.
LEMMA ClearCacheKeeps ==
    ASSUME IInv, NEW c \in Callers, ClearCache(c)
    PROVE  IInv'
<1>1. /\ op[c].pc = "clear" /\ UNCHANGED <<entry, similar, fuse>>
      /\ cache' = [ids |-> {}, contents |-> {}]
      /\ op' = [op EXCEPT ![c].pc = "look"]
      /\ op \in [Callers -> CallType] /\ CallFits(c)
  BY DEF ClearCache, IInv, TypeOK
<1>2. op[c] # NoCall /\ fuse = NoFuse /\ op[c].kept = {}
  BY <1>1 DEF CallFits, NoCall
<1>3. /\ op' \in [Callers -> CallType]
      /\ op'[c].pc = "look" /\ op'[c].kept = {} /\ op'[c].astray = op[c].astray
      /\ op'[c].alone = op[c].alone /\ op'[c] # NoCall
      /\ \A d \in Callers \ {c} : op'[d] = op[d]
  BY <1>1, <1>2 DEF CallType, NoCall
<1>4. TypeOK' /\ FuseFits'
  BY <1>1, <1>2, <1>3, DeduplicateLeavesFuse DEF IInv, TypeOK
<1>5. CallFits(c)'
  BY <1>1, <1>2, <1>3 DEF CallFits
<1>6. ASSUME NEW d \in Callers, d # c
      PROVE  CallFits(d)'
  <2>1. CallFits(d) /\ op'[d] = op[d]
    BY <1>3, <1>6 DEF IInv
  <2>2. op[d].alone => op[d] = NoCall
    BY <1>2, <1>6, <2>1 DEF CallFits
  <2> QED
    BY <1>1, <2>1, <2>2, OthersFit
<1> QED
  BY <1>4, <1>5, <1>6 DEF IInv

\* Looking at an entry keeps IInv: by a call that is alone, one that is dropped has
\* its like among those looked at, and one that is kept has none among those kept.
LEMMA LookKeeps ==
    ASSUME IInv, NEW c \in Callers, NEW e \in Entries, Look(c, e)
    PROVE  IInv'
<1>1. /\ op[c].pc = "look" /\ e \in op[c].left /\ UNCHANGED <<entry, similar, fuse>>
      /\ cache' = Marked(e)
      /\ op \in [Callers -> CallType] /\ CallFits(c)
      /\ cache \in [ids : SUBSET IDs, contents : SUBSET Contents]
  BY DEF Look, IInv, TypeOK
<1>2. op[c] # NoCall /\ fuse = NoFuse /\ entry \in SlicedEntries /\ Entries # {}
  BY <1>1 DEF CallFits, NoCall
<1>3. /\ entry[e].id \in IDs /\ entry[e].content \in Contents
      /\ entry[e].id \in cache'.ids
      /\ \A i \in cache'.ids : i \in cache.ids \/ i = entry[e].id
      /\ \A t \in cache'.contents : t \in cache.contents \/ t = entry[e].content
      /\ cache.ids \subseteq cache'.ids /\ cache.contents \subseteq cache'.contents
      /\ ~Duplicate(e) => entry[e].content \in cache'.contents
      /\ cache' \in [ids : SUBSET IDs, contents : SUBSET Contents]
  BY <1>1, <1>2 DEF Marked, Duplicate, SlicedEntries
<1>4. op[c].alone /\ Duplicate(e) => Repeats(e, op[c].seen)
  BY <1>1 DEF CallFits, Duplicate, Repeats
<1> DEFINE kept == IF Duplicate(e) THEN op[c].kept ELSE op[c].kept \union {e}
           astray == IF Duplicate(e) /\ ~Repeats(e, op[c].seen)
                     THEN op[c].astray \union {e} ELSE op[c].astray
<1>5. /\ op'[c] = [op[c] EXCEPT !.left = @ \ {e}, !.seen = @ \union {e}, !.kept = kept,
                               !.astray = astray]
      /\ \A d \in Callers \ {c} : op'[d] = op[d]
      /\ op' = [d \in Callers |-> op'[d]]
  BY <1>1 DEF Look
<1>6. /\ op'[c] \in CallType /\ op'[c].pc = "look" /\ op'[c].alone = op[c].alone
      /\ op'[c].seen = op[c].seen \union {e}
      /\ op[c].alone => op'[c].astray = op[c].astray
      /\ op'[c].kept = kept
      /\ op'[c] # NoCall
  <2>1. op[c] \in CallType
    BY <1>1
  <2>2. kept \in SUBSET Entries /\ astray \in SUBSET Entries
    BY <2>1 DEF CallType
  <2>3. op[c].alone => astray = op[c].astray
    BY <1>4
  <2> HIDE DEF kept, astray
  <2>4. op'[c] = [pc |-> op[c].pc, left |-> op[c].left \ {e},
                  seen |-> op[c].seen \union {e}, kept |-> kept,
                  astray |-> astray, alone |-> op[c].alone]
    BY <1>5, <2>1 DEF CallType
  <2>5. /\ op'[c] \in CallType /\ op'[c].pc = op[c].pc /\ op'[c].alone = op[c].alone
        /\ op'[c].seen = op[c].seen \union {e} /\ op'[c].astray = astray
        /\ op'[c].kept = kept
    BY <2>1, <2>2, <2>4 DEF CallType
  <2>6. op'[c] # NoCall
    BY <1>1, <2>5 DEF NoCall
  <2> QED
    BY <1>1, <2>3, <2>5, <2>6
<1>7. TypeOK' /\ FuseFits'
  <2>1. op' \in [Callers -> CallType]
    BY <1>1, <1>5, <1>6
  <2> QED
    BY <1>1, <1>2, <1>3, <2>1, DeduplicateLeavesFuse DEF IInv, TypeOK
<1>8. CallFits(c)'
  <2>1. op[c].alone => /\ \A i \in cache'.ids : \E x \in op'[c].seen : entry[x].id = i
                       /\ \A t \in cache'.contents :
                             \E x \in op'[c].seen : entry[x].content = t
    BY <1>1, <1>3, <1>6 DEF CallFits
  <2>2. op[c].alone => \A d \in Callers \ {c} : op'[d] = NoCall
    BY <1>1, <1>2, <1>5 DEF CallFits
  <2>3. ASSUME op[c].alone
        PROVE  /\ \A x \in op'[c].kept :
                     entry[x].id \in cache'.ids /\ entry[x].content \in cache'.contents
               /\ \A x, y \in op'[c].kept : x # y =>
                     entry[x].id # entry[y].id /\ entry[x].content # entry[y].content
    <3>1. /\ \A x \in op[c].kept :
                entry[x].id \in cache.ids /\ entry[x].content \in cache.contents
          /\ \A x, y \in op[c].kept : x # y =>
                entry[x].id # entry[y].id /\ entry[x].content # entry[y].content
      BY <1>1, <2>3 DEF CallFits
    <3>2. CASE Duplicate(e)
      BY <1>3, <1>6, <3>1, <3>2
    <3>3. CASE ~Duplicate(e)
      BY <1>3, <1>6, <3>1, <3>3 DEF Duplicate
    <3> QED
      BY <3>2, <3>3
  <2>4. op[c].alone => op'[c].astray = {}
    BY <1>1, <1>6 DEF CallFits
  <2> QED
    BY <1>1, <1>2, <1>6, <2>1, <2>2, <2>3, <2>4 DEF CallFits
<1>9. ASSUME NEW d \in Callers, d # c
      PROVE  CallFits(d)'
  <2>1. CallFits(d) /\ op'[d] = op[d]
    BY <1>5, <1>9 DEF IInv
  <2>2. op[d].alone => op[d] = NoCall
    BY <1>2, <1>9, <2>1 DEF CallFits
  <2> QED
    BY <1>1, <2>1, <2>2, OthersFit
<1> QED
  BY <1>7, <1>8, <1>9 DEF IInv

\* The return of a call keeps IInv.
LEMMA DeduplicateReturnsKeeps ==
    ASSUME IInv, NEW c \in Callers, DeduplicateReturns(c)
    PROVE  IInv'
<1>1. /\ op[c].pc = "look" /\ op' = [op EXCEPT ![c] = NoCall]
      /\ entry' = IF Others(c) THEN entry ELSE <<>>
      /\ UNCHANGED <<similar, fuse, cache>>
      /\ op \in [Callers -> CallType] /\ CallFits(c)
  BY DEF DeduplicateReturns, IInv, TypeOK
<1>2. op[c] # NoCall /\ fuse = NoFuse
  BY <1>1 DEF CallFits, NoCall
<1>3. NoCall \in CallType
  BY DEF NoCall, CallType
<1>4. /\ op' \in [Callers -> CallType] /\ op'[c] = NoCall
      /\ \A d \in Callers \ {c} : op'[d] = op[d]
  BY <1>1, <1>3
<1>5. TypeOK' /\ FuseFits'
  BY <1>1, <1>2, <1>4, DeduplicateLeavesFuse DEF IInv, TypeOK
<1>6. ASSUME NEW d \in Callers
      PROVE  CallFits(d)'
  <2>1. CASE op'[d] = NoCall
    BY <2>1 DEF CallFits, NoCall
  <2>2. CASE op'[d] # NoCall
    <3>1. d # c /\ op'[d] = op[d] /\ CallFits(d)
      BY <1>4, <2>2 DEF IInv
    <3>2. Others(c)
      BY <2>2, <3>1 DEF Others
    <3>3. ~op[d].alone
      BY <1>2, <2>2, <3>1 DEF CallFits
    <3> QED
      BY <1>1, <2>2, <3>1, <3>2, <3>3 DEF CallFits
  <2> QED
    BY <2>1, <2>2
<1> QED
  BY <1>5, <1>6 DEF IInv

-----------------------------------------------------------------------------
\* Initially no call is under way.
LEMMA InitEstablishes == Init => IInv
<1> SUFFICES ASSUME Init PROVE IInv
  OBVIOUS
<1> USE DEF Init
<1>1. NoFuse \in FuseType /\ NoCall \in CallType /\ {} \in Symmetric
  <2>1. <<>> \in Seq(Entries)
    OBVIOUS
  <2> QED
    BY <2>1 DEF NoFuse, FuseType, NoCall, CallType, Symmetric
<1>2. TypeOK
  BY <1>1 DEF TypeOK
<1>3. FuseFits
  BY DEF FuseFits, NoFuse
<1>4. \A c \in Callers : CallFits(c)
  BY DEF CallFits, NoCall
<1> QED
  BY <1>2, <1>3, <1>4 DEF IInv

\* Every step keeps IInv.
LEMMA StepPreserves == IInv /\ [Next]_vars => IInv'
<1> SUFFICES ASSUME IInv, [Next]_vars PROVE IInv'
  OBVIOUS
<1>1. ASSUME NEW c \in Callers,
             \/ Deduplicate(c) \/ ClearCache(c) \/ DeduplicateReturns(c)
             \/ \E e \in Entries : Look(c, e)
      PROVE  IInv'
  BY <1>1, DeduplicateKeeps, ClearCacheKeeps, DeduplicateReturnsKeeps, LookKeeps
<1>2. CASE UNCHANGED vars
  <2>1. UNCHANGED <<entry, similar, fuse, cache, op>>
    BY <1>2 DEF vars
  <2>2. TypeOK'
    BY <2>1 DEF IInv, TypeOK
  <2>3. FuseFits'
    <3>1. /\ Outdone(fuse.best \union fuse.left)' = Outdone(fuse.best \union fuse.left)
          /\ Outdone(Range(fuse.result) \union fuse.left)'
                = Outdone(Range(fuse.result) \union fuse.left)
          /\ Distinct(fuse.best)' = Distinct(fuse.best)
      BY <2>1 DEF Outdone, Apart, Distinct
    <3> QED
      BY <2>1, <3>1 DEF IInv, FuseFits
  <2>4. ASSUME NEW c \in Callers
        PROVE  CallFits(c)'
    BY <2>1 DEF IInv, CallFits
  <2> QED
    BY <2>2, <2>3, <2>4 DEF IInv
<1> QED
  BY <1>1, <1>2, FuseResultsKeeps, KeepBestKeeps, StartMergingKeeps, MergeKeeps,
     LimitKeeps, FuseReturnsKeeps DEF Next

\* The inductive invariant holds in every reachable state.
THEOREM Invariance == Spec => []IInv
  BY InitEstablishes, StepPreserves, PTL DEF Spec

\* Every variable stays in its type.
THEOREM TypeCorrect == Spec => []TypeOK
<1>1. IInv => TypeOK
  BY DEF IInv
<1> QED
  BY <1>1, Invariance, PTL

\* FuseResults keeps, whatever the order of its entries, one of each group that
\* is no less confident than any, and no content twice.
THEOREM BestStays == Spec => []BestOfEachGroupStays
<1>1. ASSUME IInv, fuse.pc = "answered"
      PROVE  /\ \A S \in SUBSET Entries : Apart(S) => \A x \in S :
                   \E y \in S \intersect Range(fuse.result) :
                      entry[x].confidence <= entry[y].confidence
             /\ \A i, j \in DOMAIN fuse.result :
                   entry[fuse.result[i]].content = entry[fuse.result[j]].content => i = j
             /\ fuse.answer = Range(fuse.result) \/ Cardinality(fuse.answer) = TopK
  <2>1. /\ Outdone(Range(fuse.result) \union fuse.left) /\ fuse.left = {}
        /\ Distinct(fuse.best) /\ Injective(fuse.result)
        /\ Range(fuse.result) \subseteq fuse.best
        /\ fuse.answer = Range(fuse.result) \/ Cardinality(fuse.answer) = TopK
    BY <1>1 DEF IInv, FuseFits
  <2>2. Range(fuse.result) \union fuse.left = Range(fuse.result)
    BY <2>1
  <2>3. \A S \in SUBSET Entries : Apart(S) => \A x \in S :
           \E y \in S \intersect Range(fuse.result) :
              entry[x].confidence <= entry[y].confidence
    BY <2>1, <2>2 DEF Outdone
  <2>4. \A i \in DOMAIN fuse.result : fuse.result[i] \in fuse.best
    BY <2>1 DEF Range
  <2>5. \A i, j \in DOMAIN fuse.result :
           entry[fuse.result[i]].content = entry[fuse.result[j]].content => i = j
    BY <2>1, <2>4 DEF Distinct, Injective
  <2> QED
    BY <2>1, <2>3, <2>5
<1>2. IInv => BestOfEachGroupStays
  BY <1>1 DEF BestOfEachGroupStays
<1> QED
  BY <1>2, Invariance, PTL

\* A Deduplicate that no other call overlaps drops an entry only for one before it in
\* its slice, and returns no two alike.
THEOREM DeduplicatesAlone == Spec => []ExactWhenAlone
<1>1. IInv => ExactWhenAlone
  BY DEF IInv, CallFits, ExactWhenAlone
<1> QED
  BY <1>1, Invariance, PTL

-----------------------------------------------------------------------------
(* What FusionEngine takes from FuseResults                                  *)

\* The answer is part of the result, and no longer than the limit.
AnswerFits ==
    fuse.pc = "answered" =>
       fuse.answer \subseteq Range(fuse.result) /\ Cardinality(fuse.answer) <= TopK

\* Entries that resemble one another only by having the same content, and that
\* are fewer than the limit once each content is there once, are answered with
\* one entry of each content, no less confident than any other: OneOfEach in
\* FusionEngine.
AnswersOneOfEach ==
    fuse.pc = "answered" =>
       /\ Cardinality(fuse.answer) <= TopK
       /\ \A x, y \in fuse.answer : entry[x].content = entry[y].content => x = y
       /\ similar = {} /\ Cardinality(fuse.answer) < TopK =>
             \A x \in Entries : \E y \in fuse.answer :
                /\ entry[y].content = entry[x].content
                /\ entry[x].confidence <= entry[y].confidence

\* The limit takes from the result, and nothing else changes the answer.
LEMMA AnswerStays ==
    ASSUME IInv, AnswerFits, [Next]_vars
    PROVE  AnswerFits'
<1>1. fuse \in FuseType
  BY DEF IInv, TypeOK
<1>2. CASE Limit
  <2> DEFINE s == fuse.result
  <2>1. PICK answer \in SUBSET Range(s) :
           /\ Cardinality(answer) = Min({TopK, Len(s)})
           /\ fuse' = [fuse EXCEPT !.pc = "answered", !.answer = answer]
    BY <1>2 DEF Limit
  <2>2. fuse'.answer = answer /\ fuse'.result = s
    BY <1>1, <2>1 DEF FuseType
  <2>3. s \in Seq(Entries) /\ Len(s) \in Nat /\ TopK \in Nat
    BY <1>1, ConsolidatorAssumption, LenProperties DEF FuseType, ConsolidatorAssumption
  <2>4. Min({TopK, Len(s)}) <= TopK
    <3> HIDE DEF s
    <3>1. \E m \in {TopK, Len(s)} : \A k \in {TopK, Len(s)} : m =< k
      BY <2>3
    <3> QED
      BY <3>1 DEF Min
  <2> QED
    BY <2>1, <2>2, <2>4 DEF AnswerFits
<1>3. CASE FuseResults \/ FuseReturns \/ KeepBest \/ StartMerging \/ Merge
  <2>1. CASE FuseResults \/ FuseReturns
    <3>1. NoFuse \in FuseType /\ NoFuse.pc = "idle"
      BY EmptySeq DEF NoFuse, FuseType
    <3>2. fuse' \in {NoFuse, [NoFuse EXCEPT !.pc = "exact", !.left = Entries]}
      BY <2>1 DEF FuseResults, FuseReturns
    <3>3. fuse'.pc # "answered"
      BY <3>1, <3>2 DEF FuseType
    <3> QED
      BY <3>3 DEF AnswerFits
  <2>2. CASE StartMerging
    <3>1. fuse'.pc # "answered"
      BY <1>1, <2>2 DEF StartMerging, FuseType
    <3> QED
      BY <3>1 DEF AnswerFits
  <2>3. CASE KeepBest
    <3>1. PICK e \in fuse.left, best \in {fuse'.best} :
             fuse.pc = "exact" /\ fuse' = [fuse EXCEPT !.left = @ \ {e}, !.best = best]
      BY <1>1, <2>3 DEF KeepBest, FuseType
    <3>2. fuse'.pc # "answered"
      BY <1>1, <3>1 DEF FuseType
    <3> QED
      BY <3>2 DEF AnswerFits
  <2>4. CASE Merge
    <3>1. PICK e \in fuse.left :
             /\ fuse.pc = "similar"
             /\ fuse' = [fuse EXCEPT !.left = @ \ {e}, !.result = Merged(@, e)]
      BY <2>4 DEF Merge
    <3>2. fuse'.pc # "answered"
      BY <1>1, <3>1 DEF FuseType
    <3> QED
      BY <3>2 DEF AnswerFits
  <2> QED
    BY <1>3, <2>1, <2>2, <2>3, <2>4
<1>4. CASE fuse' = fuse
  BY <1>4 DEF AnswerFits
<1> QED
  BY <1>2, <1>3, <1>4
  DEF Next, vars, Deduplicate, ClearCache, Look, DeduplicateReturns

\* FuseResults answers as its callers are modelled to be answered.
THEOREM FusesOneOfEach == Spec => []AnswersOneOfEach
<1>1. Init => AnswerFits
  BY DEF Init, NoFuse, AnswerFits
<1>2. IInv /\ AnswerFits => AnswersOneOfEach
  <2> SUFFICES ASSUME IInv, AnswerFits, fuse.pc = "answered"
               PROVE  /\ Cardinality(fuse.answer) <= TopK
                      /\ \A x, y \in fuse.answer :
                            entry[x].content = entry[y].content => x = y
                      /\ similar = {} /\ Cardinality(fuse.answer) < TopK =>
                            \A x \in Entries : \E y \in fuse.answer :
                               /\ entry[y].content = entry[x].content
                               /\ entry[x].confidence <= entry[y].confidence
    BY DEF AnswersOneOfEach
  <2>1. /\ Outdone(Range(fuse.result) \union fuse.left) /\ fuse.left = {}
        /\ Distinct(fuse.best) /\ Range(fuse.result) \subseteq fuse.best
        /\ fuse.answer = Range(fuse.result) \/ Cardinality(fuse.answer) = TopK
        /\ fuse.answer \subseteq Range(fuse.result)
        /\ Cardinality(fuse.answer) <= TopK
    BY DEF IInv, FuseFits, AnswerFits
  <2>2. \A x, y \in fuse.answer : entry[x].content = entry[y].content => x = y
    BY <2>1 DEF Distinct
  <2>3. ASSUME similar = {}, Cardinality(fuse.answer) < TopK, NEW x \in Entries
        PROVE  \E y \in fuse.answer :
                  /\ entry[y].content = entry[x].content
                  /\ entry[x].confidence <= entry[y].confidence
    <3> DEFINE S == {y \in Entries : entry[y].content = entry[x].content}
    <3>1. TopK \in Nat
      BY ConsolidatorAssumption DEF ConsolidatorAssumption
    <3>2. Range(fuse.result) \union fuse.left = fuse.answer
      <4>1. Cardinality(fuse.answer) # TopK
        BY <2>3, <3>1
      <4> QED
        BY <2>1, <4>1
    <3>3. Apart(S) /\ x \in S /\ S \in SUBSET Entries
      BY <2>3 DEF Apart
    <3>4. PICK y \in S \intersect fuse.answer : entry[x].confidence <= entry[y].confidence
      <4> HIDE DEF S
      <4> QED
        BY <2>1, <3>2, <3>3 DEF Outdone
    <3> QED
      BY <3>4
  <2> QED
    BY <2>1, <2>2, <2>3
<1> QED
  BY <1>1, <1>2, AnswerStays, Invariance, PTL DEF Spec
=============================================================================
