--------------------------- MODULE CollectorProofs ---------------------------
(***************************************************************************)
(* The heap stays well formed through every collection and export, for     *)
(* every mutator that keeps to gc.h (module AnyMutator) and for every      *)
(* number, size and growth of the generations.                             *)
(***************************************************************************)
EXTENDS AnyMutator, DataTheorems

\* The bookkeeping is that of module Generations, whose invariant is proved.
GP == INSTANCE GenerationsProofs WITH
    MAX_ALLOCS <- MaxAllocs,
    heap       <- HeapState,
    size       <- SpaceSizes,
    next       <- NextSettled,
    num_allocs <- Requested,
    pc         <- GenerationsPc

-----------------------------------------------------------------------------
(* Objects, and the invariant about them. *)

Headers(s) == {j \in DOMAIN mem[s] : IsHeader(mem[s][j])}

IsForwarded(j) == mem[copy.from][j] = ZeroHeader

\* Where the header is of the copy of the object that had its header at j.
NewHeader(j) == IndexOf(mem[copy.from][j + 1]) - 1

\* The fields of the object with its header at j, which the copy remembers if the
\* object has been forwarded.
Size(s, j) ==
    IF pc = "copying" /\ s = copy.from /\ IsForwarded(j)
    THEN Wosize_hd(mem[copy.to][NewHeader(j)])
    ELSE Wosize_hd(mem[s][j])

\* The object with its header at j has fields that a collection looks at.
HasPointers(s, j) ==
    /\ j \in Headers(s)
    /\ mem[s][j] # ZeroHeader
    /\ ~ No_scan(Tag_hd(mem[s][j]))

PointsToObject(v) ==
    /\ SpaceOf(v) \in Spaces
    /\ IndexOf(v) \in Nat
    /\ IndexOf(v) - 1 \in Headers(SpaceOf(v))

Due == {c.p : c \in ToSet(calls)}

\* The word is in what has been copied, and forward is still to be called for it.
ToBeForwarded(s, i) ==
    /\ pc = "copying"
    /\ s = copy.to /\ i > copy.p
    /\ SpaceOf(mem[s][i]) = copy.from
    /\ i > scan \/ MemLoc(s, i) \in Due

TypesOK ==
    /\ DOMAIN mem = Spaces
    /\ \A s \in Spaces : IsSeq(mem[s])
    /\ next \in [Spaces -> Nat]
    /\ DOMAIN args = ArgSlots
    /\ fi \in [num_allocs : 0 .. MaxAllocs, roots : Seq(ArgSlots)]
    /\ pc \in {"entry", "mutator", "garbage_collect", "collect", "collect_all",
               "copying", "export", "compact", "exported", "finished"} \cup Dead

\* An object lies in the used part of its space, and no header within it.
ObjectsOK ==
    /\ \A s \in Spaces : InUse(s) <= Len(mem[s])
    /\ \A s \in Spaces : \A j \in Headers(s) :
        /\ Size(s, j) \in Nat \ {0}
        /\ j + Size(s, j) <= InUse(s)
        /\ \A k \in j + 1 .. j + Size(s, j) : k \notin Headers(s)
        /\ mem[s][j] = ZeroHeader => pc = "copying" /\ s = copy.from
        /\ Tag_hd(mem[s][j]) \in Nat
        /\ DEPTH > 0 => ~ No_scan(Tag_hd(mem[s][j]))

\* Every pointer leads to an object, and in the heap never to a younger space,
\* but for what is still to be forwarded.
PointersOK ==
    \A s \in Spaces : \A j \in Headers(s) : HasPointers(s, j) =>
        \A i \in j + 1 .. j + Size(s, j) : IsPtr(mem[s][i]) =>
            /\ PointsToObject(mem[s][i])
            /\ SpaceOf(mem[s][i]) >= s \/ ToBeForwarded(s, i)

RootsOK ==
    \A k \in DOMAIN fi.roots : IsPtr(args[fi.roots[k]]) =>
        /\ PointsToObject(args[fi.roots[k]])
        /\ pc = "copying" /\ SpaceOf(args[fi.roots[k]]) = copy.from
               => ArgLoc(fi.roots[k]) \in Due

NoObjects(s) == Headers(s) = {}

\* Which spaces hold nothing, as a collection proceeds.
SpacesOK ==
    /\ pc \in {"collect", "collect_all", "export"} =>
           \A s \in Gens : s < gen => NoObjects(s)
    /\ pc = "export" =>
           /\ \A s \in Gens : s > gen => mem[s] = <<>>
           /\ gen = 0 => next[0] = alloc
    /\ pc = "compact" => \A s \in Gens : NoObjects(s)
    /\ pc \notin Dead \cup {"copying", "compact"} =>
           mem[FakeSp] = <<>> /\ next[FakeSp] = 0
    /\ pc \notin {"copying", "assert_failed"} /\ result = Unused =>
           mem[ValueSp] = <<>> /\ next[ValueSp] = 0
    /\ pc \in {"collect_all", "export", "compact"} => result = Unused

-----------------------------------------------------------------------------
(* do_generation. *)

\* What is copied where, and what the other spaces hold meanwhile.
CopyPlan ==
    /\ \/ /\ copy.caller \in {"garbage_collect", "garbage_collect_all"}
          /\ gen < MAX_SPACES - 1
          /\ copy.from = gen /\ copy.to = gen + 1 /\ Exists(gen + 1)
          /\ mem[FakeSp] = <<>> /\ next[FakeSp] = 0
       \/ /\ copy.caller = "export"
          /\ copy.from = gen /\ copy.to = FakeSp
          /\ \A s \in Gens : s > gen => mem[s] = <<>>
       \/ /\ copy.caller = "compact"
          /\ copy.from = FakeSp /\ copy.to = ValueSp
    /\ \A s \in Spaces : s < copy.from => NoObjects(s)
    /\ copy.caller # "garbage_collect" => result = Unused
    /\ copy.caller # "compact" /\ result = Unused =>
           mem[ValueSp] = <<>> /\ next[ValueSp] = 0

\* k words of the to-space are a whole number of objects.
Boundary(k) == k = next[copy.to] \/ (k < next[copy.to] /\ k + 1 \in Headers(copy.to))

\* p, scan and next walk over whole objects.
CopyWalk ==
    /\ copy.p \in Nat /\ scan \in Nat
    /\ copy.p <= scan /\ scan <= next[copy.to]
    /\ Boundary(copy.p) /\ Boundary(scan)
    /\ \A j \in Headers(copy.to) : j > copy.p => Boundary(j + Size(copy.to, j))

\* A forwarded object points to its copy.
CopyForwards ==
    \A j \in Headers(copy.from) : IsForwarded(j) =>
        LET v == mem[copy.from][j + 1] IN
        /\ IsPtr(v) /\ SpaceOf(v) = copy.to /\ IndexOf(v) \in Nat
        /\ NewHeader(j) \in Headers(copy.to) /\ NewHeader(j) > copy.p

\* The words of the objects that have been forwarded.
Moved ==
    {k \in 1 .. InUse(copy.from) : \E j \in Headers(copy.from) :
        IsForwarded(j) /\ k \in j .. j + Size(copy.from, j)}

\* Each object is copied once, so that what is free suffices.
CopyFits ==
    /\ InUse(copy.from) <= Len(mem[copy.to]) - copy.p
    /\ next[copy.to] - copy.p = Cardinality(Moved)

\* forward is called for roots and for fields of what has been copied.
CallOK(c) ==
    /\ c.depth \in 0 .. DEPTH
    /\ \/ \E k \in DOMAIN fi.roots : c.p = ArgLoc(fi.roots[k])
       \/ \E j \in Headers(copy.to) : j > copy.p /\ HasPointers(copy.to, j) /\
             \E i \in j + 1 .. j + Size(copy.to, j) : c.p = MemLoc(copy.to, i)

CallsOK == IsSeq(calls) /\ \A c \in ToSet(calls) : CallOK(c)

CopyOK ==
    pc = "copying" => CopyPlan /\ CopyWalk /\ CopyForwards /\ CopyFits /\ CallsOK

HeapInv ==
    TypesOK /\ ObjectsOK /\ PointersOK /\ RootsOK /\ SpacesOK /\ CopyOK

IInv == GP!IInv /\ HeapInv

-----------------------------------------------------------------------------
(* What the bookkeeping says of the spaces. *)

LEMMA SpaceNumbers ==
    /\ MAX_SPACES \in Nat /\ MAX_SPACES >= 2 /\ MaxAllocs \in Nat
    /\ Spaces = 0 .. MAX_SPACES + 1
    /\ FakeSp = MAX_SPACES /\ ValueSp = MAX_SPACES + 1
  BY CollectorAssumption DEF Spaces, Gens, FakeSp, ValueSp, MaxAllocs

Bookkeeping ==
    /\ alloc \in Nat /\ limit \in Nat /\ budget \in Nat /\ gen \in Gens
    /\ alloc + budget <= limit /\ budget <= MaxAllocs
    /\ GenerationsPc # "assert_failed"
    /\ GenerationsPc \in GP!Running => limit = SpaceSizes[0]
    /\ SpaceSizes \in [Gens -> Nat] /\ NextSettled \in [Gens -> Nat]
    /\ \A i \in Gens : NextSettled[i] <= SpaceSizes[i]
    /\ HeapState = "null" => \A i \in Gens : SpaceSizes[i] = 0
    /\ \A i \in 0 .. MAX_SPACES - 2 : SpaceSizes[i + 1] > 0 => SpaceSizes[i] > 0
    /\ GenerationsPc \in {"collect", "collect_all", "export"} =>
        /\ HeapState = "live" /\ SpaceSizes[gen] > 0
        /\ \A i \in 0 .. MAX_SPACES - 2 : i >= gen /\ SpaceSizes[i + 1] > 0 =>
               SpaceSizes[i] <= SpaceSizes[i + 1] - NextSettled[i + 1]
    /\ GenerationsPc = "collect" /\ gen = 0 => NextSettled[0] = alloc

LEMMA BookkeepingHolds == GP!IInv => Bookkeeping
  BY SpaceNumbers, SMTT(30)
  DEF Bookkeeping, GP!IInv, GP!TypeOK, GP!Bounded, GP!Grows, GP!Progress, GP!FitsFrom,
      GP!Fits, GP!Free, GP!Exists, GP!Gens, Gens, GP!AllEmpty, GP!AssertionsHold

-----------------------------------------------------------------------------
(* GN and GP are the same instance of Generations, once for what is checked *)
(* and once with what is proved of it.                                      *)

LEMMA SameStep == [GN!Next]_(GN!vars) => [GP!Next]_(GP!vars)
<1> SUFFICES ASSUME [GN!Next]_(GN!vars) PROVE [GP!Next]_(GP!vars)
  OBVIOUS
<1>1. ASSUME NEW n \in 0 .. MaxAllocs, GN!Check(n) PROVE GP!Check(n)
  BY <1>1, SMT
  DEF GN!Check, GP!Check, GN!Short, GP!Short
<1>2. ASSUME NEW n \in 1 .. MaxAllocs, GN!Allocate(n) PROVE GP!Allocate(n)
  BY <1>2, SMT
  DEF GN!Allocate, GP!Allocate
<1>3. ASSUME GN!ExportStart PROVE GP!ExportStart
  BY <1>3, SMT
  DEF GN!ExportStart, GP!ExportStart
<1>4. ASSUME GN!ResetHeap PROVE GP!ResetHeap
  BY <1>4, SMT
  DEF GN!ResetHeap, GP!ResetHeap, GN!AllEmpty, GP!AllEmpty, GN!Gens, GP!Gens
<1>5. ASSUME GN!FreeHeap PROVE GP!FreeHeap
  BY <1>5, SMT
  DEF GN!FreeHeap, GP!FreeHeap
<1>6. ASSUME GN!CreateHeap PROVE GP!CreateHeap
  BY <1>6, SMT
  DEF GN!CreateHeap, GP!CreateHeap, GN!Resume, GP!Resume,
      GN!NurseryOnly, GP!NurseryOnly, GN!AllEmpty, GP!AllEmpty, GN!Gens, GP!Gens
<1>7. ASSUME GN!StartCollection PROVE GP!StartCollection
  BY <1>7, SMT
  DEF GN!StartCollection, GP!StartCollection
<1>8. ASSUME GN!CreateNextSpace PROVE GP!CreateNextSpace
  BY <1>8, SMT
  DEF GN!CreateNextSpace, GP!CreateNextSpace, GN!Exists, GP!Exists
<1>9. ASSUME GN!CollectGeneration PROVE GP!CollectGeneration
  BY <1>9, SMT
  DEF GN!CollectGeneration, GP!CollectGeneration, GN!Exists, GP!Exists,
      GN!RoomForAll, GP!RoomForAll, GN!Free, GP!Free, GN!DoGeneration, GP!DoGeneration,
      GN!InUse, GP!InUse, GN!Resume, GP!Resume
<1>10. ASSUME GN!RanOutOfGenerations PROVE GP!RanOutOfGenerations
  BY <1>10, SMT
  DEF GN!RanOutOfGenerations, GP!RanOutOfGenerations, GN!Stop, GP!Stop
<1>11. ASSUME GN!CollectAllGeneration PROVE GP!CollectAllGeneration
  BY <1>11, SMT
  DEF GN!CollectAllGeneration, GP!CollectAllGeneration,
      GN!MoreGenerations, GP!MoreGenerations, GN!Exists, GP!Exists,
      GN!RoomForAll, GP!RoomForAll, GN!Free, GP!Free, GN!DoGeneration, GP!DoGeneration,
      GN!InUse, GP!InUse
<1>12. ASSUME GN!CollectAllReturn PROVE GP!CollectAllReturn
  BY <1>12, SMT
  DEF GN!CollectAllReturn, GP!CollectAllReturn, GN!MoreGenerations, GP!MoreGenerations,
      GN!Exists, GP!Exists
<1>13. ASSUME GN!ExportCopy PROVE GP!ExportCopy
  BY <1>13, SMT
  DEF GN!ExportCopy, GP!ExportCopy
<1>14. ASSUME GN!ExportCompact PROVE GP!ExportCompact
  BY <1>14, SMT
  DEF GN!ExportCompact, GP!ExportCompact
<1>15. ASSUME GN!MallocFails PROVE GP!MallocFails
  BY <1>15, SMT
  DEF GN!MallocFails, GP!MallocFails, GN!Exists, GP!Exists, GN!Stop, GP!Stop
<1>16. CASE UNCHANGED GN!vars
  BY <1>16, SMT DEF GN!vars, GP!vars
<1>17. CASE GN!Mutate
  <2>1. GP!Mutate
    BY <1>1, <1>2, <1>3, <1>4, <1>5, <1>17, SMT DEF GN!Mutate, GP!Mutate
  <2> QED
    BY <2>1, SMT DEF GP!Next
<1>18. CASE GN!Collect
  <2>1. GP!Collect
    BY <1>6, <1>7, <1>8, <1>9, <1>10, <1>11, <1>12, <1>13, <1>14, <1>15, <1>18, SMT
    DEF GN!Collect, GP!Collect
  <2> QED
    BY <2>1, SMT DEF GP!Next
<1> QED
  BY <1>16, <1>17, <1>18, SMT DEF GN!Next

LEMMA SameInit == GN!Init => GP!Init
  BY SMT DEF GN!Init, GP!Init, GN!NurseryOnly, GP!NurseryOnly, GN!AllEmpty, GP!AllEmpty,
             GN!Gens, GP!Gens

-----------------------------------------------------------------------------
(* Memories. *)

MemoryOK(m) == DOMAIN m = Spaces /\ \A s \in Spaces : IsSeq(m[s])

\* m and r have spaces of the same sizes.
SameShape(m, r) ==
    \A s \in Spaces : Len(r[s]) = Len(m[s]) /\ DOMAIN r[s] = DOMAIN m[s]

LEMMA SpaceWords ==
    ASSUME NEW m, MemoryOK(m), NEW s \in Spaces
    PROVE  Len(m[s]) \in Nat /\ DOMAIN m[s] = 1 .. Len(m[s])
  BY IsSeqLen DEF MemoryOK

LEMMA EmptySpaceWords ==
    ASSUME NEW n \in Nat
    PROVE  /\ IsSeq(EmptySpace(n)) /\ Len(EmptySpace(n)) = n
           /\ DOMAIN EmptySpace(n) = 1 .. n
           /\ \A i \in 1 .. n : ~ IsHeader(EmptySpace(n)[i])
<1>1. DOMAIN EmptySpace(n) = 1 .. n /\ EmptySpace(n) = [i \in 1 .. n |-> EmptySpace(n)[i]]
  BY DEF EmptySpace
<1>2. \A i \in 1 .. n : ~ IsHeader(EmptySpace(n)[i])
  BY DEF EmptySpace, IsHeader, Unused
<1> QED
  BY <1>1, <1>2, SeqOfFunction

\* Another sequence in place of one space.
LEMMA ReplaceSpace ==
    ASSUME NEW m, MemoryOK(m), NEW s \in Spaces, NEW w, IsSeq(w)
    PROVE  LET r == [m EXCEPT ![s] = w] IN
           MemoryOK(r) /\ r[s] = w /\ \A z \in Spaces : z # s => r[z] = m[z]
  BY DEF MemoryOK

SpaceReplaced(m, s, w, r) ==
    MemoryOK(r) /\ r[s] = w /\ \A z \in Spaces : z # s => r[z] = m[z]

LEMMA ReplaceOne ==
    ASSUME NEW m, MemoryOK(m), NEW s \in Spaces, NEW w, IsSeq(w),
           NEW r, r = [m EXCEPT ![s] = w]
    PROVE  SpaceReplaced(m, s, w, r)
  BY DEF MemoryOK, SpaceReplaced

\* r is m with v stored in word i of space s.
WordStored(m, s, i, v, r) ==
    /\ MemoryOK(r) /\ SameShape(m, r) /\ r[s][i] = v
    /\ \A z \in Spaces : z # s => r[z] = m[z]
    /\ \A k \in DOMAIN m[s] : k # i => r[s][k] = m[s][k]

LEMMA StoreWord ==
    ASSUME NEW m, MemoryOK(m), NEW v, NEW s \in Spaces, NEW i \in DOMAIN m[s],
           NEW r, r = StoreMem(m, MemLoc(s, i), v)
    PROVE  WordStored(m, s, i, v, r)
<1> DEFINE w == [m[s] EXCEPT ![i] = v]
<1>1. r = [m EXCEPT ![s] = w]
  BY DEF StoreMem, MemLoc
<1>2. Updates(w, m[s], i, v)
  BY DEF Updates, MemoryOK
<1>3. IsSeq(w) /\ Len(w) = Len(m[s]) /\ w[i] = v /\ \A k \in DOMAIN m[s] : k # i => w[k] = m[s][k]
  BY <1>2, ReplaceSeq
<1>4. MemoryOK(r) /\ r[s] = w /\ \A z \in Spaces : z # s => r[z] = m[z]
  BY <1>1, <1>3 DEF MemoryOK
<1>5. SameShape(m, r)
  BY <1>3, <1>4, IsSeqLen DEF SameShape, MemoryOK
<1> QED
  BY <1>3, <1>4, <1>5 DEF WordStored

\* r is memory with object v copied to the words after new - 2 of the to-space.
ObjectCopied(v, sz, new, r) ==
    LET f == copy.from
        t == copy.to
    IN
    /\ MemoryOK(r) /\ SameShape(mem, r)
    /\ \A z \in Spaces : z # f /\ z # t => r[z] = mem[z]
    /\ \A k \in DOMAIN mem[t] :
           r[t][k] = IF k \in new - 1 .. new + sz - 1
                     THEN mem[f][IndexOf(v) + (k - new)] ELSE mem[t][k]
    /\ r[f][IndexOf(v) - 1] = ZeroHeader /\ r[f][IndexOf(v)] = Ptr(t, new)
    /\ \A k \in DOMAIN mem[f] :
           k # IndexOf(v) - 1 /\ k # IndexOf(v) => r[f][k] = mem[f][k]

LEMMA CopyObjectWords ==
    ASSUME MemoryOK(mem), NEW v, NEW sz \in Nat, NEW new \in Nat,
           copy.from \in Spaces, copy.to \in Spaces, copy.from # copy.to,
           IndexOf(v) \in DOMAIN mem[copy.from], IndexOf(v) - 1 \in DOMAIN mem[copy.from]
    PROVE  ObjectCopied(v, sz, new, CopyObject(v, sz, new))
<1> DEFINE f == copy.from
           t == copy.to
           i == IndexOf(v)
           w == [k \in DOMAIN mem[t] |-> IF k \in new - 1 .. new + sz - 1
                                         THEN mem[f][i + (k - new)] ELSE mem[t][k]]
           m1 == [mem EXCEPT ![t] = w]
           w2 == [m1[f] EXCEPT ![i - 1] = ZeroHeader]
           m2 == [m1 EXCEPT ![f] = w2]
           w3 == [m2[f] EXCEPT ![i] = Ptr(t, new)]
           r == [m2 EXCEPT ![f] = w3]
<1>1. CopyObject(v, sz, new) = r
  BY DEF CopyObject
<1>2. Len(mem[t]) \in Nat /\ DOMAIN mem[t] = 1 .. Len(mem[t])
  BY SpaceWords
<1>3. IsSeq(w) /\ Len(w) = Len(mem[t]) /\ DOMAIN w = DOMAIN mem[t]
  <2>1. DOMAIN w = 1 .. Len(mem[t]) /\ w = [k \in 1 .. Len(mem[t]) |-> w[k]]
    BY <1>2
  <2> HIDE DEF w
  <2> QED
    BY <1>2, <2>1, SeqOfFunction
<1>4. \A k \in DOMAIN mem[t] :
          w[k] = IF k \in new - 1 .. new + sz - 1 THEN mem[f][i + (k - new)] ELSE mem[t][k]
  OBVIOUS
<1> HIDE DEF w
<1>5. MemoryOK(m1) /\ m1[t] = w /\ \A z \in Spaces : z # t => m1[z] = mem[z]
  BY <1>3, ReplaceSpace
<1> HIDE DEF m1
<1>6. IsSeq(w2) /\ Len(w2) = Len(mem[f]) /\ DOMAIN w2 = DOMAIN mem[f] /\ w2[i - 1] = ZeroHeader
      /\ \A k \in DOMAIN mem[f] : k # i - 1 => w2[k] = mem[f][k]
  <2>1. Updates(w2, mem[f], i - 1, ZeroHeader)
    BY <1>5 DEF Updates, MemoryOK
  <2>2. m1[f] = mem[f] /\ IsSeq(mem[f])
    BY <1>5 DEF MemoryOK
  <2> HIDE DEF w2
  <2>3. IsSeq(w2) /\ Len(w2) = Len(mem[f]) /\ w2[i - 1] = ZeroHeader
        /\ \A k \in DOMAIN mem[f] : k # i - 1 => w2[k] = mem[f][k]
    BY <2>1, <2>2, ReplaceSeq
  <2>4. DOMAIN w2 = DOMAIN mem[f]
    BY <2>2, <2>3, IsSeqLen
  <2> QED
    BY <2>3, <2>4
<1> HIDE DEF w2
<1>7. MemoryOK(m2) /\ m2[f] = w2 /\ \A z \in Spaces : z # f => m2[z] = m1[z]
  BY <1>5, <1>6, ReplaceSpace
<1> HIDE DEF m2
<1>8. IsSeq(w3) /\ Len(w3) = Len(mem[f]) /\ DOMAIN w3 = DOMAIN mem[f] /\ w3[i] = Ptr(t, new)
      /\ \A k \in DOMAIN mem[f] : k # i => w3[k] = w2[k]
  <2>1. Updates(w3, w2, i, Ptr(t, new))
    BY <1>6, <1>7 DEF Updates
  <2> HIDE DEF w3
  <2>2. IsSeq(w3) /\ Len(w3) = Len(w2) /\ w3[i] = Ptr(t, new)
        /\ \A k \in DOMAIN w2 : k # i => w3[k] = w2[k]
    BY <2>1, ReplaceSeq
  <2>3. DOMAIN w3 = DOMAIN w2
    BY <1>6, <2>2, IsSeqLen
  <2> QED
    BY <1>6, <2>2, <2>3
<1> HIDE DEF w3
<1>9. MemoryOK(r) /\ r[f] = w3 /\ \A z \in Spaces : z # f => r[z] = m2[z]
  BY <1>7, <1>8, ReplaceSpace
<1> HIDE DEF r
<1>10. i # i - 1
  BY <1>2, SpaceWords
<1>11. \A z \in Spaces : z # f /\ z # t => r[z] = mem[z]
  BY <1>5, <1>7, <1>9
<1>12. r[t] = w /\ r[f] = w3
  BY <1>5, <1>7, <1>9
<1>13. SameShape(mem, r)
  BY <1>3, <1>8, <1>11, <1>12 DEF SameShape
<1>14. \A k \in DOMAIN mem[f] : k # i - 1 /\ k # i => r[f][k] = mem[f][k]
  BY <1>6, <1>8, <1>12
<1>15. r[f][i - 1] = ZeroHeader /\ r[f][i] = Ptr(t, new)
  BY <1>6, <1>8, <1>10, <1>12
<1> QED
  BY <1>1, <1>4, <1>9, <1>11, <1>12, <1>13, <1>14, <1>15 DEF ObjectCopied

-----------------------------------------------------------------------------
(* The calls of forward that are due. *)

LEMMA FieldCallsElements ==
    ASSUME NEW s, NEW i \in Nat, NEW sz \in Nat, NEW d
    PROVE  /\ IsSeq(FieldCalls(s, i, sz, d))
           /\ ToSet(FieldCalls(s, i, sz, d)) = {Call(MemLoc(s, k), d) : k \in i .. i + sz - 1}
<1> DEFINE F == FieldCalls(s, i, sz, d)
<1>1. DOMAIN F = 1 .. sz /\ F = [j \in 1 .. sz |-> F[j]]
      /\ \A j \in 1 .. sz : F[j] = Call(MemLoc(s, i + j - 1), d)
  BY DEF FieldCalls
<1> HIDE DEF F
<1>2. IsSeq(F)
  BY <1>1, SeqOfFunction
<1>3. \A j \in 1 .. sz : i + j - 1 \in i .. i + sz - 1
  OBVIOUS
<1>4. ASSUME NEW k \in i .. i + sz - 1 PROVE Call(MemLoc(s, k), d) \in ToSet(F)
  <2>1. k - i + 1 \in 1 .. sz /\ i + (k - i + 1) - 1 = k
    OBVIOUS
  <2>2. F[k - i + 1] = Call(MemLoc(s, k), d)
    BY <1>1, <2>1
  <2> QED
    BY <1>1, <2>1, <2>2 DEF ToSet
<1>5. ToSet(F) \subseteq {Call(MemLoc(s, k), d) : k \in i .. i + sz - 1}
  BY <1>1, <1>3 DEF ToSet
<1>6. ToSet(F) = {Call(MemLoc(s, k), d) : k \in i .. i + sz - 1}
  BY <1>4, <1>5
<1> QED
  BY <1>2, <1>6 DEF F

-----------------------------------------------------------------------------
(* Consequences of the invariant. *)

LEMMA WordIndex ==
    ASSUME TypesOK, NEW s \in Spaces
    PROVE  /\ Len(mem[s]) \in Nat /\ DOMAIN mem[s] = 1 .. Len(mem[s])
           /\ MemoryOK(mem)
           /\ Headers(s) \subseteq 1 .. Len(mem[s])
  BY SpaceWords DEF TypesOK, MemoryOK, Headers

LEMMA InUseType ==
    ASSUME TypesOK, Bookkeeping, NEW s \in Spaces
    PROVE  InUse(s) \in Nat
  BY DEF TypesOK, Bookkeeping, InUse

\* Two objects of a space have no word in common.
LEMMA ObjectsApart ==
    ASSUME TypesOK, ObjectsOK, NEW s \in Spaces, NEW j \in Headers(s), NEW k \in Headers(s),
           j < k
    PROVE  j + Size(s, j) < k
<1>1. j \in Nat /\ k \in Nat
  BY WordIndex
<1>2. Size(s, j) \in Nat /\ \A i \in j + 1 .. j + Size(s, j) : i \notin Headers(s)
  BY DEF ObjectsOK
<1>3. k \notin j + 1 .. j + Size(s, j)
  BY <1>2
<1> QED
  BY <1>1, <1>2, <1>3

\* A word inside an object is inside no other.
LEMMA OneObject ==
    ASSUME TypesOK, ObjectsOK, NEW s \in Spaces, NEW j \in Headers(s), NEW k \in Headers(s),
           NEW i \in Nat, i \in j .. j + Size(s, j), i \in k .. k + Size(s, k)
    PROVE  j = k
<1>1. j \in Nat /\ k \in Nat /\ Size(s, j) \in Nat /\ Size(s, k) \in Nat
  BY WordIndex DEF ObjectsOK
<1>2. ~ (j < k) /\ ~ (k < j)
  BY <1>1, ObjectsApart
<1> QED
  BY <1>1, <1>2

\* The spaces do_generation works on.
CopySpaces ==
    /\ copy.from \in Spaces /\ copy.to \in Spaces
    /\ copy.from < copy.to /\ copy.to # 0
    /\ \A s \in Spaces : s < copy.from => NoObjects(s)
    /\ \A s \in Spaces : copy.from < s /\ s < copy.to => NoObjects(s)

LEMMA EmptyNoObjects ==
    ASSUME TypesOK, NEW s \in Spaces, mem[s] = <<>> PROVE NoObjects(s)
<1>1. Len(mem[s]) = 0
  BY LengthZero DEF TypesOK
<1> QED
  BY <1>1, WordIndex DEF NoObjects

LEMMA CopySpacesHold ==
    ASSUME TypesOK, Bookkeeping, CopyPlan PROVE CopySpaces
<1> USE SpaceNumbers
<1>1. gen \in 0 .. MAX_SPACES - 1 /\ \A s \in Spaces : s < copy.from => NoObjects(s)
  BY DEF Bookkeeping, Gens, CopyPlan
<1>2. CASE copy.caller \in {"garbage_collect", "garbage_collect_all"}
  BY <1>1, <1>2 DEF CopyPlan, CopySpaces
<1>3. CASE copy.caller = "export"
  <2>1. copy.from = gen /\ copy.to = FakeSp /\ \A s \in Gens : s > gen => mem[s] = <<>>
    BY <1>3 DEF CopyPlan
  <2>2. \A s \in Spaces : copy.from < s /\ s < copy.to => NoObjects(s)
    BY <1>1, <2>1, EmptyNoObjects DEF Gens
  <2> QED
    BY <1>1, <2>1, <2>2 DEF CopySpaces
<1>4. CASE copy.caller = "compact"
  BY <1>1, <1>4 DEF CopyPlan, CopySpaces
<1> QED
  BY <1>2, <1>3, <1>4 DEF CopyPlan

\* While do_generation runs.
CopyContext ==
    /\ TypesOK /\ ObjectsOK /\ PointersOK /\ RootsOK /\ Bookkeeping
    /\ pc = "copying" /\ CopySpaces /\ CopyWalk /\ CopyForwards /\ CopyFits /\ CallsOK

LEMMA Context == HeapInv /\ Bookkeeping /\ pc = "copying" => CopyContext
  BY CopySpacesHold DEF HeapInv, CopyOK, CopyContext

LEMMA ToSpaceIndex ==
    ASSUME CopyContext
    PROVE  /\ next[copy.to] \in Nat /\ InUse(copy.to) = next[copy.to]
           /\ next[copy.to] <= Len(mem[copy.to])
           /\ copy.from # copy.to
           /\ \A j \in Headers(copy.to) : /\ Size(copy.to, j) \in Nat \ {0}
                                          /\ j + Size(copy.to, j) <= next[copy.to]
                                          /\ Size(copy.to, j) = Wosize_hd(mem[copy.to][j])
<1>1. /\ copy.from \in Spaces /\ copy.to \in Spaces
      /\ copy.from < copy.to /\ copy.to # 0 /\ copy.from \in Int /\ copy.to \in Int
  BY SpaceNumbers DEF CopyContext, CopySpaces
<1>2. InUse(copy.to) = next[copy.to] /\ next[copy.to] \in Nat /\ copy.from # copy.to
  BY <1>1 DEF CopyContext, TypesOK, InUse
<1>3. \A j \in Headers(copy.to) : Size(copy.to, j) = Wosize_hd(mem[copy.to][j])
  BY <1>2 DEF Size
<1> QED
  BY <1>1, <1>2, <1>3 DEF CopyContext, ObjectsOK

\* Where forward is called: a root, or a word of an object that has been copied.
LEMMA CallSites ==
    ASSUME CopyContext, NEW c, CallOK(c)
    PROVE  \/ \E k \in DOMAIN fi.roots : fi.roots[k] \in ArgSlots /\ c.p = ArgLoc(fi.roots[k])
           \/ \E i \in DOMAIN mem[copy.to] :
                 /\ c.p = MemLoc(copy.to, i) /\ i \notin Headers(copy.to)
                 /\ copy.p < i /\ i <= next[copy.to]
                 /\ \E j \in Headers(copy.to) :
                        /\ HasPointers(copy.to, j)
                        /\ i \in j + 1 .. j + Size(copy.to, j)
<1>1. CASE \E k \in DOMAIN fi.roots : c.p = ArgLoc(fi.roots[k])
  <2>1. \A k \in DOMAIN fi.roots : fi.roots[k] \in ArgSlots
    BY DEF CopyContext, TypesOK
  <2> QED
    BY <1>1, <2>1
<1>2. ASSUME NEW j \in Headers(copy.to), j > copy.p, HasPointers(copy.to, j),
             NEW i \in j + 1 .. j + Size(copy.to, j), c.p = MemLoc(copy.to, i)
      PROVE  /\ i \in DOMAIN mem[copy.to] /\ i \notin Headers(copy.to)
             /\ copy.p < i /\ i <= next[copy.to]
  <2>1. /\ j \in 1 .. Len(mem[copy.to]) /\ DOMAIN mem[copy.to] = 1 .. Len(mem[copy.to])
        /\ Len(mem[copy.to]) \in Nat /\ copy.p \in Nat /\ copy.to \in Spaces
    BY WordIndex DEF CopyContext, CopySpaces, CopyWalk
  <2>2. j + Size(copy.to, j) <= next[copy.to] /\ next[copy.to] <= Len(mem[copy.to])
        /\ Size(copy.to, j) \in Nat /\ next[copy.to] \in Nat
    BY ToSpaceIndex
  <2>3. i \notin Headers(copy.to)
    BY <2>1 DEF CopyContext, ObjectsOK
  <2> QED
    BY <1>2, <2>1, <2>2, <2>3
<1> QED
  BY <1>1, <1>2 DEF CallOK

\* A pointer that forward follows leads to an object of the from-space.
LEMMA CallFollows ==
    ASSUME CopyContext, NEW c, CallOK(c), Is_from(Read(c.p)), c.p \in Due
    PROVE  LET v == Read(c.p) IN
           /\ IndexOf(v) \in Nat /\ IndexOf(v) - 1 \in Headers(copy.from)
           /\ IndexOf(v) \in DOMAIN mem[copy.from]
<1> DEFINE v == Read(c.p)
<1>1. IsPtr(v) /\ SpaceOf(v) = copy.from /\ copy.from \in Spaces
  BY DEF Is_from, CopyContext, CopySpaces
<1>2. PointsToObject(v)
  <2>1. CASE \E k \in DOMAIN fi.roots : c.p = ArgLoc(fi.roots[k])
    <3>1. PICK k \in DOMAIN fi.roots : c.p = ArgLoc(fi.roots[k])
      BY <2>1
    <3>2. v = args[fi.roots[k]]
      BY <3>1 DEF Read, ArgLoc
    <3> QED
      BY <1>1, <3>2 DEF CopyContext, RootsOK
  <2>2. ASSUME NEW j \in Headers(copy.to), HasPointers(copy.to, j),
               NEW i \in j + 1 .. j + Size(copy.to, j), c.p = MemLoc(copy.to, i)
        PROVE  PointsToObject(v)
    <3>1. v = mem[copy.to][i] /\ copy.to \in Spaces
      BY <2>2 DEF Read, MemLoc, CopyContext, CopySpaces
    <3> QED
      BY <1>1, <2>2, <3>1 DEF CopyContext, PointersOK
  <2> QED
    BY <2>1, <2>2 DEF CallOK
<1>3. IndexOf(v) \in Nat /\ IndexOf(v) - 1 \in Headers(copy.from)
  BY <1>1, <1>2 DEF PointsToObject
<1>4. IndexOf(v) \in DOMAIN mem[copy.from]
  <2> DEFINE j == IndexOf(v) - 1
  <2>1. /\ Size(copy.from, j) \in Nat \ {0} /\ j + Size(copy.from, j) <= InUse(copy.from)
        /\ InUse(copy.from) <= Len(mem[copy.from])
    BY <1>1, <1>3 DEF CopyContext, ObjectsOK
  <2>2. Len(mem[copy.from]) \in Nat /\ DOMAIN mem[copy.from] = 1 .. Len(mem[copy.from])
        /\ InUse(copy.from) \in Nat
    BY <1>1, WordIndex, InUseType DEF CopyContext
  <2>3. j \in Nat /\ j + 1 = IndexOf(v)
    BY <1>3, <2>2 DEF Headers
  <2> HIDE DEF j
  <2> QED
    BY <2>1, <2>2, <2>3
<1> QED
  BY <1>3, <1>4

-----------------------------------------------------------------------------
(* Steps of do_generation. *)

\* The next call of forward, and the others.
LEMMA HeadCall ==
    ASSUME CallsOK, calls # <<>>
    PROVE  /\ IsSeq(Tail(calls))
           /\ CallOK(Head(calls)) /\ Head(calls).p \in Due
           /\ \A c \in ToSet(Tail(calls)) : CallOK(c)
           /\ Due = {Head(calls).p} \cup {c.p : c \in ToSet(Tail(calls))}
<1>1. IsSeq(Tail(calls)) /\ ToSet(calls) = {Head(calls)} \cup ToSet(Tail(calls))
  BY TailElements DEF CallsOK
<1>2. Head(calls) \in ToSet(calls) /\ ToSet(Tail(calls)) \subseteq ToSet(calls)
  BY <1>1
<1>3. Due = {Head(calls).p} \cup {c.p : c \in ToSet(Tail(calls))}
  BY <1>1 DEF Due
<1> QED
  BY <1>1, <1>2, <1>3 DEF CallsOK, Due

LEMMA ForwardOtherHeap == HeapInv /\ Bookkeeping /\ ForwardOther => HeapInv'
<1> SUFFICES ASSUME HeapInv, Bookkeeping, ForwardOther PROVE HeapInv'
  OBVIOUS
<1>1. /\ CopyContext /\ calls # <<>> /\ pc = "copying" /\ calls' = Tail(calls)
      /\ UNCHANGED <<mem, next, args, alloc, limit, fi, budget, pc, gen, copy, scan, result>>
      /\ ~ Is_from(Read(Head(calls).p))
  BY Context DEF ForwardOther, Copying, heapVars, Is_from, Is_block, IsPtr
<1>2. /\ IsSeq(Tail(calls)) /\ \A c \in ToSet(Tail(calls)) : CallOK(c)
      /\ Due = {Head(calls).p} \cup {c.p : c \in ToSet(Tail(calls))}
  BY <1>1, HeadCall DEF CopyContext
<1>3. Due' = {c.p : c \in ToSet(Tail(calls))}
  BY <1>1 DEF Due
<1>4. /\ \A s \in Spaces : Headers(s)' = Headers(s)
      /\ \A s, j : Size(s, j)' = Size(s, j)
      /\ \A s, j : HasPointers(s, j)' = HasPointers(s, j)
      /\ \A v : PointsToObject(v)' = PointsToObject(v)
      /\ \A s : InUse(s)' = InUse(s)
  BY <1>1 DEF Headers, Size, HasPointers, PointsToObject, IsForwarded, NewHeader, InUse
<1>5. TypesOK' /\ ObjectsOK'
  BY <1>1, <1>4 DEF HeapInv, TypesOK, ObjectsOK
<1>6. PointersOK'
  <2> SUFFICES ASSUME NEW s \in Spaces, NEW j \in Headers(s), HasPointers(s, j),
                      NEW i \in j + 1 .. j + Size(s, j), IsPtr(mem[s][i]),
                      ToBeForwarded(s, i)
               PROVE  ToBeForwarded(s, i)'
    BY <1>1, <1>4 DEF PointersOK, HeapInv
  <2>1. MemLoc(s, i) # Head(calls).p
    BY <1>1 DEF ToBeForwarded, Is_from, Read, MemLoc
  <2> QED
    BY <1>1, <1>2, <1>3, <2>1 DEF ToBeForwarded
<1>7. RootsOK'
  <2> SUFFICES ASSUME NEW k \in DOMAIN fi.roots, IsPtr(args[fi.roots[k]]),
                      SpaceOf(args[fi.roots[k]]) = copy.from
               PROVE  ArgLoc(fi.roots[k]) \in Due'
    BY <1>1, <1>4 DEF RootsOK, HeapInv
  <2>1. ArgLoc(fi.roots[k]) # Head(calls).p
    BY <1>1 DEF Is_from, Read, ArgLoc
  <2>2. ArgLoc(fi.roots[k]) \in Due
    BY <1>1 DEF HeapInv, RootsOK
  <2> QED
    BY <1>2, <1>3, <2>1, <2>2
<1>8. CopyPlan' /\ CopyWalk' /\ CopyForwards' /\ CopyFits'
  <2>1. CopyPlan'
    BY <1>1 DEF HeapInv, CopyOK, CopyPlan, NoObjects, Headers, Exists
  <2>2. CopyWalk'
    <3>1. CopyWalk /\ copy.to \in Spaces
      BY <1>1 DEF CopyContext, CopySpaces
    <3>2. \A k : Boundary(k)' <=> Boundary(k)
      BY <1>1, <1>4, <3>1 DEF Boundary
    <3> QED
      BY <1>1, <1>4, <3>1, <3>2 DEF CopyWalk
  <2>3. CopyForwards'
    BY <1>1 DEF HeapInv, CopyOK, CopyForwards, Headers, IsForwarded, NewHeader
  <2>4. Moved' = Moved /\ InUse(copy.from)' = InUse(copy.from)
    BY <1>1 DEF Moved, Headers, IsForwarded, NewHeader, InUse, Size
  <2>5. CopyFits'
    BY <1>1, <2>4 DEF HeapInv, CopyOK, CopyFits
  <2> QED
    BY <2>1, <2>2, <2>3, <2>5
<1>9. CallsOK'
  <2>1. ASSUME NEW c, CallOK(c) PROVE CallOK(c)'
    BY <1>1, <2>1 DEF CallOK, Headers, HasPointers, Size, IsForwarded, NewHeader
  <2> QED
    BY <1>1, <1>2, <2>1 DEF CallsOK
<1> QED
  BY <1>1, <1>5, <1>6, <1>7, <1>8, <1>9 DEF HeapInv, SpacesOK, CopyOK, Dead

\* r and b are m and args with v stored in the word forward is called for.
CallStored(m, loc, v, r, b) ==
    /\ MemoryOK(r) /\ SameShape(mem, r)
    /\ \A z \in Spaces : z # copy.to => r[z] = m[z]
    /\ \A i \in DOMAIN mem[copy.to] :
           /\ loc = MemLoc(copy.to, i) =>
                  r[copy.to][i] = v /\ i \notin Headers(copy.to) /\ i <= next[copy.to]
           /\ loc # MemLoc(copy.to, i) => r[copy.to][i] = m[copy.to][i]
    /\ DOMAIN b = ArgSlots
    /\ \A k \in ArgSlots : b[k] = IF loc = ArgLoc(k) THEN v ELSE args[k]

LEMMA StoreAtCall ==
    ASSUME CopyContext, calls # <<>>, NEW loc, loc = Head(calls).p,
           NEW m, MemoryOK(m), SameShape(mem, m), NEW v
    PROVE  CallStored(m, loc, v, StoreMem(m, loc, v), StoreArgs(loc, v))
<1> DEFINE t == copy.to
<1>1. /\ TypesOK /\ t \in Spaces /\ DOMAIN args = ArgSlots
      /\ DOMAIN m[t] = DOMAIN mem[t]
  BY DEF CopyContext, CopySpaces, TypesOK, SameShape
<1>2. \/ \E a \in ArgSlots : loc = ArgLoc(a)
      \/ \E i \in DOMAIN mem[t] :
             loc = MemLoc(t, i) /\ i \notin Headers(t) /\ i <= next[t]
  <2>1. CallOK(Head(calls))
    BY HeadCall DEF CopyContext
  <2> QED
    BY <2>1, CallSites
<1> HIDE DEF t
<1>3. ASSUME NEW a \in ArgSlots, loc = ArgLoc(a)
      PROVE  /\ StoreMem(m, loc, v) = m
             /\ StoreArgs(loc, v) = [args EXCEPT ![a] = v]
             /\ \A i : loc # MemLoc(t, i)
             /\ \A k : loc = ArgLoc(k) => k = a
  <2>1. loc[1] = "arg" /\ loc[2] = a
    BY <1>3 DEF ArgLoc
  <2>2. \A i : loc # MemLoc(t, i)
    BY <2>1 DEF MemLoc
  <2>3. \A k : loc = ArgLoc(k) => k = a
    BY <2>1 DEF ArgLoc
  <2>4. StoreMem(m, loc, v) = m
    BY <2>1 DEF StoreMem
  <2>5. StoreArgs(loc, v) = [args EXCEPT ![a] = v]
    BY <2>1 DEF StoreArgs
  <2> QED
    BY <2>2, <2>3, <2>4, <2>5
<1>4. ASSUME NEW i \in DOMAIN mem[t], loc = MemLoc(t, i)
      PROVE  /\ StoreArgs(loc, v) = args
             /\ \A k : loc # ArgLoc(k)
             /\ \A k : loc = MemLoc(t, k) => k = i
  <2>1. loc[1] = "mem" /\ loc[3] = i
    BY <1>4 DEF MemLoc
  <2>2. \A k : loc # ArgLoc(k)
    BY <2>1 DEF ArgLoc
  <2>3. \A k : loc = MemLoc(t, k) => k = i
    BY <2>1 DEF MemLoc
  <2>4. StoreArgs(loc, v) = args
    BY <2>1 DEF StoreArgs
  <2> QED
    BY <2>2, <2>3, <2>4
<1>5. CASE \E a \in ArgSlots : loc = ArgLoc(a)
  <2>1. PICK a \in ArgSlots : loc = ArgLoc(a)
    BY <1>5
  <2>2. /\ StoreMem(m, loc, v) = m
        /\ StoreArgs(loc, v) = [args EXCEPT ![a] = v]
        /\ \A i : loc # MemLoc(t, i)
        /\ \A k : loc = ArgLoc(k) => k = a
    BY <1>3, <2>1
  <2> QED
    BY <1>1, <2>1, <2>2 DEF t, CallStored
<1>6. ASSUME NEW i \in DOMAIN mem[t],
             loc = MemLoc(t, i), i \notin Headers(t), i <= next[t]
      PROVE  CallStored(m, loc, v, StoreMem(m, loc, v), StoreArgs(loc, v))
  <2> DEFINE r == StoreMem(m, loc, v)
  <2>1. i \in DOMAIN m[t] /\ t \in Spaces /\ r = StoreMem(m, MemLoc(t, i), v)
    BY <1>1, <1>6
  <2> HIDE DEF r
  <2>2. WordStored(m, t, i, v, r)
    BY <2>1, StoreWord
  <2>3. SameShape(mem, r)
    BY <2>2 DEF SameShape, WordStored
  <2> QED
    BY <1>1, <1>4, <1>6, <2>2, <2>3 DEF r, t, WordStored, CallStored
<1> QED
  BY <1>2, <1>5, <1>6 DEF t

\* do_generation changes its two spaces only.
LEMMA PlanKept ==
    ASSUME TypesOK, CopyPlan, Bookkeeping, UNCHANGED <<copy, gen, result>>,
           \A z \in Spaces : IsSeq(mem'[z]) /\ Len(mem'[z]) = Len(mem[z]),
           \A z \in Spaces : z # copy.from /\ z # copy.to =>
               mem'[z] = mem[z] /\ next'[z] = next[z]
    PROVE  CopyPlan'
<1> USE SpaceNumbers
<1>1. gen \in 0 .. MAX_SPACES - 1
  BY DEF Bookkeeping, Gens
<1>2. copy.from \in Int /\ copy.to \in Int /\ copy.from < copy.to
  BY <1>1 DEF CopyPlan
<1>3. \A s \in Spaces : s < copy.from => NoObjects(s)'
  <2> SUFFICES ASSUME NEW s \in Spaces, s < copy.from PROVE NoObjects(s)'
    OBVIOUS
  <2>1. mem'[s] = mem[s]
    BY <1>2
  <2> QED
    BY <2>1 DEF CopyPlan, NoObjects, Headers
<1>4. copy.caller # "compact" /\ result = Unused =>
          mem'[ValueSp] = <<>> /\ next'[ValueSp] = 0
  BY <1>1 DEF CopyPlan
<1>5. CASE copy.caller \in {"garbage_collect", "garbage_collect_all"}
  <2>1. copy.from = gen /\ copy.to = gen + 1 /\ gen < MAX_SPACES - 1
        /\ mem[FakeSp] = <<>> /\ next[FakeSp] = 0 /\ gen + 1 \in Spaces
        /\ mem[gen + 1] # <<>>
    BY <1>1, <1>5 DEF CopyPlan, Exists
  <2>2. mem'[FakeSp] = <<>> /\ next'[FakeSp] = 0
    BY <1>1, <2>1
  <2>3. mem'[gen + 1] # <<>>
    BY <2>1, LengthZero DEF TypesOK
  <2> QED
    BY <1>3, <1>4, <1>5, <2>1, <2>2, <2>3 DEF CopyPlan, Exists
<1>6. CASE copy.caller = "export"
  <2>1. copy.from = gen /\ copy.to = FakeSp /\ \A s \in Gens : s > gen => mem[s] = <<>>
    BY <1>6 DEF CopyPlan
  <2>2. \A s \in Gens : s > gen => mem'[s] = <<>>
    BY <1>1, <2>1 DEF Gens
  <2> QED
    BY <1>3, <1>4, <1>6, <2>1, <2>2 DEF CopyPlan
<1>7. CASE copy.caller = "compact"
  BY <1>3, <1>7 DEF CopyPlan
<1> QED
  BY <1>5, <1>6, <1>7 DEF CopyPlan

LEMMA ForwardAgainHeap == HeapInv /\ Bookkeeping /\ ForwardAgain => HeapInv'
<1> SUFFICES ASSUME HeapInv, Bookkeeping, ForwardAgain PROVE HeapInv'
  OBVIOUS
<1> DEFINE f == copy.from
           t == copy.to
           loc == Head(calls).p
           v == Read(loc)
           j == IndexOf(v) - 1
           new == mem[f][j + 1]
<1>1. /\ CopyContext /\ calls # <<>> /\ pc = "copying" /\ calls' = Tail(calls)
      /\ UNCHANGED <<next, alloc, limit, fi, budget, pc, gen, copy, scan, result>>
      /\ TypesOK /\ ObjectsOK /\ PointersOK /\ RootsOK
      /\ CopyPlan /\ CopyWalk /\ CopyForwards /\ CopyFits /\ CallsOK
  BY Context DEF ForwardAgain, Copying, CopyContext, HeapInv, CopyOK
<1>2. /\ IsSeq(Tail(calls)) /\ \A c \in ToSet(Tail(calls)) : CallOK(c)
      /\ CallOK(Head(calls)) /\ loc \in Due
      /\ Due = {loc} \cup {c.p : c \in ToSet(Tail(calls))}
  BY <1>1, HeadCall
<1>3. Due' = {c.p : c \in ToSet(Tail(calls))}
  BY <1>1 DEF Due
<1>4. f \in Spaces /\ t \in Spaces /\ f # t /\ t \in Nat
  BY <1>1, ToSpaceIndex, SpaceNumbers DEF CopyContext, CopySpaces
<1>5. j \in Headers(f) /\ IsForwarded(j)
      /\ mem' = StoreMem(mem, loc, new) /\ args' = StoreArgs(loc, new)
  <2>1. /\ Is_from(v) /\ Hd_val(mem, v) = ZeroHeader
        /\ mem' = StoreMem(mem, loc, Field(mem, v, 0))
        /\ args' = StoreArgs(loc, Field(mem, v, 0))
    BY DEF ForwardAgain
  <2>2. IndexOf(v) \in Nat /\ j \in Headers(f) /\ SpaceOf(v) = f
    BY <1>1, <1>2, <2>1, CallFollows DEF Is_from
  <2>3. j + 1 = IndexOf(v) + 0
    BY <2>2
  <2>4. Field(mem, v, 0) = new
    BY <2>2, <2>3 DEF Field
  <2> QED
    BY <2>1, <2>2, <2>4 DEF IsForwarded, Hd_val
<1>6. /\ IsPtr(new) /\ SpaceOf(new) = t /\ IndexOf(new) \in Nat
      /\ IndexOf(new) - 1 \in Headers(t)
  BY <1>1, <1>5 DEF CopyForwards, NewHeader
<1> HIDE DEF new, v, loc, j
<1>7. /\ DOMAIN mem = Spaces /\ DOMAIN mem' = Spaces
      /\ \A z \in Spaces : IsSeq(mem'[z]) /\ DOMAIN mem'[z] = DOMAIN mem[z]
                           /\ Len(mem'[z]) = Len(mem[z])
      /\ \A z \in Spaces : z # t => mem'[z] = mem[z]
      /\ \A i \in DOMAIN mem[t] :
             /\ loc = MemLoc(t, i) => mem'[t][i] = new /\ i \notin Headers(t)
             /\ loc # MemLoc(t, i) => mem'[t][i] = mem[t][i]
      /\ DOMAIN args' = ArgSlots
      /\ \A k \in ArgSlots : args'[k] = IF loc = ArgLoc(k) THEN new ELSE args[k]
  <2>1. MemoryOK(mem)
    BY <1>1 DEF TypesOK, MemoryOK
  <2>2. SameShape(mem, mem)
    BY DEF SameShape
  <2>3. CallStored(mem, loc, new, mem', args')
    BY <1>1, <1>5, <2>1, <2>2, StoreAtCall DEF loc
  <2> QED
    BY <2>1, <2>3 DEF CallStored, MemoryOK, SameShape
<1>8. \A z \in Spaces : \A i \in DOMAIN mem[z] :
          (z = t => loc # MemLoc(t, i)) => mem'[z][i] = mem[z][i]
  BY <1>7
<1>9. \A z \in Spaces : Headers(z)' = Headers(z)
  <2> SUFFICES ASSUME NEW z \in Spaces, NEW i \in DOMAIN mem[z]
               PROVE  IsHeader(mem'[z][i]) <=> IsHeader(mem[z][i])
    BY <1>7 DEF Headers
  <2>1. CASE z = t /\ loc = MemLoc(t, i)
    <3>1. mem'[z][i] = new /\ i \notin Headers(t)
      BY <1>7, <2>1
    <3>2. ~ IsHeader(new)
      BY <1>6 DEF IsHeader, IsPtr
    <3> QED
      BY <2>1, <3>1, <3>2 DEF Headers
  <2> QED
    BY <1>8, <2>1
<1>10. \A z \in Spaces : \A k \in Headers(z) : mem'[z][k] = mem[z][k]
  <2> SUFFICES ASSUME NEW z \in Spaces, NEW k \in Headers(z)
               PROVE  mem'[z][k] = mem[z][k]
    OBVIOUS
  <2>1. k \in DOMAIN mem[z]
    BY DEF Headers
  <2> QED
    BY <1>7, <2>1
<1>11. \A k : IsForwarded(k)' = IsForwarded(k) /\ NewHeader(k)' = NewHeader(k)
  BY <1>1, <1>4, <1>7 DEF IsForwarded, NewHeader
<1>12. \A z \in Spaces : \A k \in Headers(z) : Size(z, k)' = Size(z, k)
  <2> SUFFICES ASSUME NEW z \in Spaces, NEW k \in Headers(z)
               PROVE  Size(z, k)' = Size(z, k)
    OBVIOUS
  <2>1. CASE z = f /\ IsForwarded(k)
    <3>1. NewHeader(k) \in Headers(t)
      BY <1>1, <2>1 DEF CopyForwards
    <3>2. mem'[t][NewHeader(k)] = mem[t][NewHeader(k)]
      BY <1>4, <1>10, <3>1
    <3> QED
      BY <1>1, <1>11, <2>1, <3>2 DEF Size
  <2>2. CASE ~ (z = f /\ IsForwarded(k))
    BY <1>1, <1>10, <1>11, <2>2 DEF Size
  <2> QED
    BY <2>1, <2>2
<1>13. \A z \in Spaces : \A k : HasPointers(z, k)' = HasPointers(z, k)
  BY <1>9, <1>10 DEF HasPointers
<1>14. \A w : PointsToObject(w)' = PointsToObject(w)
  BY <1>9 DEF PointsToObject
<1>15. \A s : InUse(s)' = InUse(s)
  BY <1>1 DEF InUse
<1>16. TypesOK' /\ ObjectsOK'
  <2>1. TypesOK'
    BY <1>1, <1>7 DEF TypesOK
  <2>2. ObjectsOK'
    BY <1>1, <1>7, <1>9, <1>10, <1>12, <1>15 DEF ObjectsOK
  <2> QED
    BY <2>1, <2>2
<1>17. PointersOK'
  <2> SUFFICES ASSUME NEW s \in Spaces, NEW k \in Headers(s), HasPointers(s, k),
                      NEW i \in k + 1 .. k + Size(s, k), IsPtr(mem'[s][i])
               PROVE  PointsToObject(mem'[s][i]) /\ (SpaceOf(mem'[s][i]) >= s \/ ToBeForwarded(s, i)')
    BY <1>9, <1>12, <1>13, <1>14 DEF PointersOK
  <2>1. i \in DOMAIN mem[s]
    <3>1. /\ Size(s, k) \in Nat /\ k + Size(s, k) <= InUse(s) /\ InUse(s) <= Len(mem[s])
          /\ k \in 1 .. Len(mem[s]) /\ DOMAIN mem[s] = 1 .. Len(mem[s]) /\ Len(mem[s]) \in Nat
          /\ InUse(s) \in Nat
      BY <1>1, WordIndex, InUseType DEF ObjectsOK
    <3> QED
      BY <3>1
  <2>2. CASE s = t /\ loc = MemLoc(t, i)
    BY <1>4, <1>6, <1>7, <2>1, <2>2 DEF PointsToObject
  <2>3. CASE ~ (s = t /\ loc = MemLoc(t, i))
    <3>1. mem'[s][i] = mem[s][i]
      BY <1>8, <2>1, <2>3
    <3>2. PointsToObject(mem[s][i]) /\ (SpaceOf(mem[s][i]) >= s \/ ToBeForwarded(s, i))
      BY <1>1, <3>1 DEF PointersOK
    <3>3. ToBeForwarded(s, i) => ToBeForwarded(s, i)'
      BY <1>1, <1>2, <1>3, <2>3, <3>1 DEF ToBeForwarded
    <3> QED
      BY <3>1, <3>2, <3>3
  <2> QED
    BY <2>2, <2>3
<1>18. RootsOK'
  <2> SUFFICES ASSUME NEW k \in DOMAIN fi.roots, IsPtr(args'[fi.roots[k]])
               PROVE  /\ PointsToObject(args'[fi.roots[k]])
                      /\ SpaceOf(args'[fi.roots[k]]) = f => ArgLoc(fi.roots[k]) \in Due'
    BY <1>1, <1>14 DEF RootsOK
  <2>1. fi.roots[k] \in ArgSlots
    BY <1>1 DEF TypesOK
  <2>2. CASE loc = ArgLoc(fi.roots[k])
    BY <1>4, <1>6, <1>7, <2>1, <2>2 DEF PointsToObject
  <2>3. CASE loc # ArgLoc(fi.roots[k])
    <3>1. args'[fi.roots[k]] = args[fi.roots[k]]
      BY <1>7, <2>1, <2>3
    <3>2. /\ PointsToObject(args[fi.roots[k]])
          /\ SpaceOf(args[fi.roots[k]]) = f => ArgLoc(fi.roots[k]) \in Due
      BY <1>1, <3>1 DEF RootsOK
    <3> QED
      BY <1>2, <1>3, <2>3, <3>1, <3>2
  <2> QED
    BY <2>2, <2>3
<1>19. CopyPlan'
  BY <1>1, <1>7, PlanKept
<1>20. CopyWalk' /\ CopyForwards' /\ CopyFits'
  <2>1. CopyWalk'
    BY <1>1, <1>4, <1>9, <1>12 DEF CopyWalk, Boundary
  <2>2. CopyForwards'
    BY <1>1, <1>4, <1>7, <1>9, <1>11 DEF CopyForwards
  <2>3. CopyFits'
    <3>1. Moved' = Moved
      BY <1>1, <1>4, <1>9, <1>11, <1>12, <1>15 DEF Moved
    <3> QED
      BY <1>1, <1>4, <1>7, <1>15, <3>1 DEF CopyFits
  <2> QED
    BY <2>1, <2>2, <2>3
<1>21. CallsOK'
  <2>1. ASSUME NEW c, CallOK(c) PROVE CallOK(c)'
    BY <1>1, <1>4, <1>9, <1>12, <1>13, <2>1 DEF CallOK
  <2> QED
    BY <1>1, <1>2, <2>1 DEF CallsOK
<1> QED
  BY <1>1, <1>16, <1>17, <1>18, <1>19, <1>20, <1>21 DEF HeapInv, SpacesOK, CopyOK, Dead

LEMMA ScanObjectHeap == HeapInv /\ Bookkeeping /\ ScanObject => HeapInv'
<1> SUFFICES ASSUME HeapInv, Bookkeeping, ScanObject PROVE HeapInv'
  OBVIOUS
<1> DEFINE t == copy.to
<1>0. PICK j : j = scan + 1
  OBVIOUS
<1>1. /\ CopyContext /\ calls = <<>> /\ pc = "copying" /\ scan < next[t]
      /\ UNCHANGED <<mem, next, args, alloc, limit, fi, budget, pc, gen, copy, result>>
      /\ calls' = ScanFields(mem[t][j]) /\ scan' = j + Wosize_hd(mem[t][j])
      /\ TypesOK /\ ObjectsOK /\ PointersOK /\ RootsOK
      /\ CopyPlan /\ CopyWalk /\ CopyForwards /\ CopyFits /\ CallsOK
  BY <1>0, Context DEF ScanObject, heapVars, CopyContext, HeapInv, CopyOK
<1>2. /\ t \in Spaces /\ next[t] \in Nat /\ scan \in Nat /\ copy.p \in Nat /\ copy.p <= scan
      /\ j \in Headers(t) /\ j > copy.p
  BY <1>0, <1>1, ToSpaceIndex DEF CopyContext, CopySpaces, CopyWalk, Boundary
<1>3. /\ Size(t, j) = Wosize_hd(mem[t][j]) /\ Size(t, j) \in Nat \ {0}
      /\ j + Size(t, j) <= next[t] /\ scan' = j + Size(t, j)
  BY <1>1, <1>2, ToSpaceIndex
<1>4. /\ \A z \in Spaces : Headers(z)' = Headers(z)
      /\ \A z, k : Size(z, k)' = Size(z, k)
      /\ \A z, k : HasPointers(z, k)' = HasPointers(z, k)
      /\ \A w : PointsToObject(w)' = PointsToObject(w)
      /\ \A z : InUse(z)' = InUse(z)
  BY <1>1 DEF Headers, Size, HasPointers, PointsToObject, IsForwarded, NewHeader, InUse
<1>5. TypesOK' /\ ObjectsOK'
  BY <1>1, <1>4 DEF TypesOK, ObjectsOK
<1>6. Due = {}
  BY <1>1 DEF Due, ToSet
<1>7. /\ IsSeq(calls')
      /\ No_scan(Tag_hd(mem[t][j])) => ToSet(calls') = {}
      /\ ~ No_scan(Tag_hd(mem[t][j])) =>
             ToSet(calls') = {Call(MemLoc(t, k), DEPTH) : k \in j + 1 .. j + Size(t, j)}
  <2>1. CASE No_scan(Tag_hd(mem[t][j]))
    <3>1. calls' = <<>>
      BY <1>1, <2>1 DEF ScanFields
    <3>2. IsSeq(<<>>) /\ ToSet(<<>>) = {}
      BY DEF IsSeq, ToSet
    <3> QED
      BY <2>1, <3>1, <3>2
  <2>2. CASE ~ No_scan(Tag_hd(mem[t][j]))
    <3>1. calls' = FieldCalls(t, scan + 2, Size(t, j), DEPTH)
      BY <1>1, <1>3, <2>2 DEF ScanFields
    <3>2. scan + 2 \in Nat /\ scan + 2 = j + 1 /\ (scan + 2) + Size(t, j) - 1 = j + Size(t, j)
      BY <1>0, <1>2, <1>3
    <3> HIDE DEF t
    <3>3. /\ IsSeq(FieldCalls(t, scan + 2, Size(t, j), DEPTH))
          /\ ToSet(FieldCalls(t, scan + 2, Size(t, j), DEPTH))
                 = {Call(MemLoc(t, k), DEPTH) : k \in scan + 2 .. (scan + 2) + Size(t, j) - 1}
      BY <1>3, <3>2, FieldCallsElements
    <3> QED
      BY <2>2, <3>1, <3>2, <3>3
  <2> QED
    BY <2>1, <2>2
<1>8. ~ No_scan(Tag_hd(mem[t][j])) =>
          \A k \in j + 1 .. j + Size(t, j) : MemLoc(t, k) \in Due'
  <2> SUFFICES ASSUME ~ No_scan(Tag_hd(mem[t][j])), NEW k \in j + 1 .. j + Size(t, j)
               PROVE  MemLoc(t, k) \in Due'
    OBVIOUS
  <2>1. Call(MemLoc(t, k), DEPTH) \in ToSet(calls')
    BY <1>7
  <2>2. Call(MemLoc(t, k), DEPTH).p = MemLoc(t, k)
    BY DEF Call
  <2> QED
    BY <2>1, <2>2 DEF Due
<1>9. PointersOK'
  <2> SUFFICES ASSUME NEW s \in Spaces, NEW k \in Headers(s), HasPointers(s, k),
                      NEW i \in k + 1 .. k + Size(s, k), IsPtr(mem[s][i]),
                      ToBeForwarded(s, i)
               PROVE  ToBeForwarded(s, i)'
    BY <1>1, <1>4 DEF PointersOK
  <2>1. s = t /\ i > copy.p /\ i > scan /\ SpaceOf(mem[s][i]) = copy.from
    BY <1>6 DEF ToBeForwarded
  <2>2. k \in Nat /\ Size(s, k) \in Nat
    BY <1>1, WordIndex DEF ObjectsOK
  <2>3. CASE i > j + Size(t, j)
    BY <1>1, <1>3, <2>1, <2>3 DEF ToBeForwarded
  <2>4. CASE i <= j + Size(t, j)
    <3>1. i \in Nat /\ i \in j .. j + Size(t, j) /\ i \in k .. k + Size(s, k)
      BY <1>0, <1>2, <1>3, <2>1, <2>2, <2>4
    <3> HIDE DEF t
    <3>2. k = j
      BY <1>1, <1>2, <2>1, <3>1, OneObject
    <3>3. ~ No_scan(Tag_hd(mem[t][j]))
      BY <2>1, <3>2 DEF HasPointers
    <3>4. MemLoc(t, i) \in Due'
      BY <1>8, <2>1, <3>2, <3>3
    <3> QED
      BY <1>1, <2>1, <3>4 DEF ToBeForwarded, t
  <2> QED
    BY <1>2, <1>3, <2>2, <2>3, <2>4
<1>10. RootsOK'
  BY <1>1, <1>4, <1>6 DEF RootsOK
<1>11. CopyPlan'
  <2>1. \A z \in Spaces : IsSeq(mem'[z]) /\ Len(mem'[z]) = Len(mem[z])
    BY <1>1 DEF TypesOK
  <2> QED
    BY <1>1, <2>1, PlanKept
<1>12. CopyWalk'
  <2>1. scan' \in Nat /\ copy.p <= scan' /\ scan' <= next[t]
    BY <1>0, <1>2, <1>3
  <2>2. Boundary(scan')
    BY <1>1, <1>2, <1>3 DEF CopyWalk
  <2>3. \A k : Boundary(k)' <=> Boundary(k)
    BY <1>1 DEF Boundary, Headers
  <2>4. \A k \in Headers(t) : k > copy.p => Boundary(k + Size(t, k))
    BY <1>1 DEF CopyWalk
  <2>5. Boundary(copy.p) /\ copy.p \in Nat
    BY <1>1 DEF CopyWalk
  <2>6. Boundary(copy.p)' /\ Boundary(scan)'
    BY <1>1, <2>2, <2>3, <2>5
  <2>7. \A k \in Headers(copy.to)' : k > copy.p' => Boundary(k + Size(copy.to, k))'
    BY <1>1, <1>2, <1>4, <2>3, <2>4
  <2> QED
    BY <1>1, <2>1, <2>5, <2>6, <2>7 DEF CopyWalk
<1>13. CopyForwards'
  BY <1>1 DEF CopyForwards, Headers, IsForwarded, NewHeader
<1>14. CopyFits'
  <2>1. Moved' = Moved
    BY <1>1 DEF Moved, Headers, IsForwarded, NewHeader, InUse, Size
  <2> QED
    BY <1>1, <1>4, <2>1 DEF CopyFits
<1>15. CallsOK'
  <2>1. ASSUME NEW c \in ToSet(calls') PROVE CallOK(c)'
    <3>1. ~ No_scan(Tag_hd(mem[t][j]))
      BY <1>7
    <3>2. PICK k \in j + 1 .. j + Size(t, j) : c = Call(MemLoc(t, k), DEPTH)
      BY <1>7, <3>1
    <3>3. c.p = MemLoc(t, k) /\ c.depth \in 0 .. DEPTH
      BY <3>2, CollectorAssumption DEF Call
    <3>4. HasPointers(t, j)
      <4>1. mem[t][j] # ZeroHeader
        BY <1>1, <1>2, ToSpaceIndex DEF ObjectsOK
      <4> QED
        BY <1>2, <3>1, <4>1 DEF HasPointers
    <3>5. /\ j \in Headers(t)' /\ j > copy'.p /\ HasPointers(t, j)'
          /\ k \in j + 1 .. j + Size(t, j)' /\ t = copy'.to
      BY <1>1, <1>2, <1>4, <3>2, <3>4
    <3> QED
      BY <3>3, <3>5 DEF CallOK
  <2> QED
    BY <1>7, <2>1 DEF CallsOK
<1> QED
  BY <1>1, <1>5, <1>9, <1>10, <1>11, <1>12, <1>13, <1>14, <1>15
  DEF HeapInv, SpacesOK, CopyOK, Dead

\* An object that has not been forwarded fits in what is free of the to-space.
HasRoom(f, t, j, sz) ==
    /\ sz = Wosize_hd(mem[f][j]) /\ sz \in Nat \ {0} /\ j \in Nat \ {0}
    /\ j + sz <= InUse(f)
    /\ Cardinality(Moved \cup (j .. j + sz)) = next[t] - copy.p + 1 + sz
    /\ next[t] + 1 + sz <= Len(mem[t])

LEMMA RoomForCopy ==
    ASSUME CopyContext, NEW f, f = copy.from, NEW t, t = copy.to,
           NEW j \in Headers(f), ~ IsForwarded(j), NEW sz, sz = Size(f, j)
    PROVE  HasRoom(f, t, j, sz)
<1>1. /\ f \in Spaces /\ t \in Spaces /\ TypesOK /\ ObjectsOK /\ CopyFits
      /\ copy.p \in Nat /\ next[t] \in Nat /\ Len(mem[t]) \in Nat
  BY WordIndex, ToSpaceIndex DEF CopyContext, CopySpaces, CopyWalk
<1>2. PICK n : n = InUse(f)
  OBVIOUS
<1>3. /\ j \in Nat \ {0} /\ sz \in Nat \ {0} /\ j + sz <= n /\ n \in Nat
      /\ sz = Wosize_hd(mem[f][j])
  <2>1. j \in 1 .. Len(mem[f]) /\ n \in Nat
    BY <1>1, <1>2, WordIndex, InUseType DEF CopyContext
  <2>2. sz = Wosize_hd(mem[f][j])
    BY DEF Size
  <2>3. Size(f, j) \in Nat \ {0} /\ j + Size(f, j) <= InUse(f)
    BY <1>1 DEF ObjectsOK
  <2> QED
    BY <1>2, <2>1, <2>2, <2>3
<1>4. PICK block : block = j .. j + sz
  OBVIOUS
<1>5. Moved \in SUBSET (1 .. n) /\ block \in SUBSET (1 .. n)
  BY <1>2, <1>3, <1>4 DEF Moved
<1>6. Moved \cap block = {}
  <2> SUFFICES ASSUME NEW k \in Moved, k \in block PROVE FALSE
    OBVIOUS
  <2>1. PICK h \in Headers(f) : IsForwarded(h) /\ k \in h .. h + Size(f, h)
    BY DEF Moved
  <2>2. k \in Nat /\ k \in j .. j + Size(f, j)
    BY <1>3, <1>4
  <2>3. h = j
    BY <1>1, <2>1, <2>2, OneObject
  <2> QED
    BY <2>1, <2>3
<1>7. Cardinality(block) = sz + 1
  <2>1. PICK last \in Int : last = j + sz
    BY <1>3
  <2>2. Cardinality(j .. last) = IF j > last THEN 0 ELSE last - j + 1
    BY <1>3, FS_Interval
  <2> QED
    BY <1>3, <1>4, <2>1, <2>2
<1>8. /\ Cardinality(Moved \cup block) = Cardinality(Moved) + Cardinality(block)
      /\ Cardinality(Moved) + Cardinality(block) <= n
      /\ Cardinality(Moved) \in Nat
  BY <1>3, <1>5, <1>6, DisjointUnion
<1>9. n <= Len(mem[t]) - copy.p /\ next[t] - copy.p = Cardinality(Moved)
  BY <1>1, <1>2 DEF CopyFits
<1>10. next[t] + 1 + sz <= Len(mem[t])
  <2>1. PICK x \in Nat, l \in Nat, p \in Nat, c \in Nat :
            x = next[t] /\ l = Len(mem[t]) /\ p = copy.p /\ c = Cardinality(Moved)
    BY <1>1, <1>8
  <2>2. c + (sz + 1) <= n /\ n <= l - p /\ x - p = c
    BY <1>7, <1>8, <1>9, <2>1
  <2>3. n \in Nat /\ sz \in Nat
    BY <1>3
  <2>4. x + 1 + sz <= l
    BY <2>2, <2>3
  <2> QED
    BY <2>1, <2>4
<1>11. Cardinality(Moved \cup block) = next[t] - copy.p + 1 + sz
  BY <1>1, <1>3, <1>7, <1>8, <1>9
<1> QED
  BY <1>2, <1>3, <1>4, <1>10, <1>11 DEF HasRoom

\* What ForwardCopy does to memory: object j of f is copied to the words from h on.
CopyMade(f, t, loc, j, sz, h) ==
    /\ DOMAIN mem' = Spaces
    /\ \A z \in Spaces : IsSeq(mem'[z]) /\ DOMAIN mem'[z] = DOMAIN mem[z]
                         /\ Len(mem'[z]) = Len(mem[z])
    /\ \A z \in Spaces : z # f /\ z # t => mem'[z] = mem[z]
    /\ mem'[f][j] = ZeroHeader /\ mem'[f][j + 1] = Ptr(t, h + 1)
    /\ \A k \in DOMAIN mem[f] : k # j /\ k # j + 1 => mem'[f][k] = mem[f][k]
    /\ \A k \in h .. h + sz : mem'[t][k] = mem[f][j + (k - h)]
    /\ \A k \in DOMAIN mem[t] : k \notin h .. h + sz =>
           /\ loc = MemLoc(t, k) => mem'[t][k] = Ptr(t, h + 1) /\ k \notin Headers(t)
           /\ loc # MemLoc(t, k) => mem'[t][k] = mem[t][k]
    /\ DOMAIN args' = ArgSlots
    /\ \A k \in ArgSlots : args'[k] = IF loc = ArgLoc(k) THEN Ptr(t, h + 1) ELSE args[k]

LEMMA CopyIsMade ==
    ASSUME HeapInv, Bookkeeping, ForwardCopy,
           NEW f, f = copy.from, NEW t, t = copy.to, NEW loc, loc = Head(calls).p,
           NEW j, j = IndexOf(Read(loc)) - 1, NEW sz, sz = Size(f, j), NEW h, h = next[t] + 1
    PROVE  /\ j \in Headers(f) /\ ~ IsForwarded(j) /\ sz \in Nat \ {0} /\ h \in Nat \ {0}
           /\ h + sz <= Len(mem[t]) /\ sz = Wosize_hd(mem[f][j])
           /\ next' = [next EXCEPT ![t] = h + sz]
           /\ CopyMade(f, t, loc, j, sz, h)
<1> DEFINE v == Read(loc)
<1>1. /\ CopyContext /\ calls # <<>> /\ TypesOK
  BY Context DEF ForwardCopy, Copying, CopyContext
<1>2. CallOK(Head(calls)) /\ loc \in Due
  BY <1>1, HeadCall DEF CopyContext
<1>3. f \in Spaces /\ t \in Spaces /\ f # t /\ next[t] \in Nat /\ h \in Nat \ {0}
  BY <1>1, ToSpaceIndex, SpaceNumbers DEF CopyContext, CopySpaces
<1>4. /\ Is_from(v) /\ Hd_val(mem, v) # ZeroHeader
      /\ next' = [next EXCEPT ![t] = @ + 1 + Wosize(mem, v)]
      /\ mem' = StoreMem(CopyObject(v, Wosize(mem, v), next[t] + 2), loc, Ptr(t, next[t] + 2))
      /\ args' = StoreArgs(loc, Ptr(t, next[t] + 2))
  BY DEF ForwardCopy
<1>5. /\ IndexOf(v) \in Nat /\ j \in Headers(f) /\ SpaceOf(v) = f /\ j + 1 = IndexOf(v)
      /\ IndexOf(v) \in DOMAIN mem[f] /\ j \in DOMAIN mem[f]
  BY <1>1, <1>2, <1>4, CallFollows DEF Is_from, Headers
<1>6. ~ IsForwarded(j) /\ Wosize(mem, v) = Wosize_hd(mem[f][j])
  BY <1>4, <1>5 DEF IsForwarded, Hd_val, Wosize
<1>7. sz = Wosize_hd(mem[f][j]) /\ sz \in Nat \ {0} /\ next[t] + 1 + sz <= Len(mem[t])
  <2>1. HasRoom(f, t, j, sz)
    BY <1>1, <1>5, <1>6, RoomForCopy
  <2> QED
    BY <2>1 DEF HasRoom
<1>8. PICK new \in Nat : new = h + 1
  BY <1>3
<1>9. /\ next[t] + 2 = new /\ next[t] + 1 + sz = h + sz /\ sz = Wosize(mem, v)
  BY <1>3, <1>6, <1>7, <1>8
<1>10. PICK m : m = CopyObject(v, sz, new)
  OBVIOUS
<1>11. mem' = StoreMem(m, loc, Ptr(t, new)) /\ args' = StoreArgs(loc, Ptr(t, new))
       /\ next' = [next EXCEPT ![t] = h + sz]
  BY <1>4, <1>9, <1>10
<1>12. MemoryOK(mem) /\ DOMAIN mem[t] = 1 .. Len(mem[t]) /\ Len(mem[t]) \in Nat
       /\ DOMAIN mem[f] = 1 .. Len(mem[f])
  BY <1>1, <1>3, WordIndex
<1>13. ObjectCopied(v, sz, new, m)
  BY <1>3, <1>5, <1>7, <1>10, <1>12, CopyObjectWords
<1>14. MemoryOK(m) /\ SameShape(mem, m)
  BY <1>13 DEF ObjectCopied
<1>15. CallStored(m, loc, Ptr(t, new), mem', args')
  BY <1>1, <1>11, <1>14, StoreAtCall
<1> HIDE DEF v
<1>16. new - 1 .. new + sz - 1 = h .. h + sz
  <2>1. new - 1 = h /\ new + sz - 1 = h + sz
    BY <1>3, <1>7, <1>8
  <2> QED
    BY <2>1
<1>17. \A k \in DOMAIN mem[t] :
           m[t][k] = IF k \in h .. h + sz THEN mem[f][j + (k - h)] ELSE mem[t][k]
  <2> SUFFICES ASSUME NEW k \in DOMAIN mem[t]
               PROVE  m[t][k] = IF k \in h .. h + sz THEN mem[f][j + (k - h)] ELSE mem[t][k]
    OBVIOUS
  <2>1. m[t][k] = IF k \in h .. h + sz THEN mem[f][IndexOf(v) + (k - new)] ELSE mem[t][k]
    BY <1>13, <1>16 DEF ObjectCopied
  <2>2. IndexOf(v) + (k - new) = j + (k - h)
    <3>1. k \in Int /\ j \in Int /\ h \in Int
      BY <1>3, <1>5, <1>12
    <3>2. (j + 1) + (k - (h + 1)) = j + (k - h)
      BY <3>1
    <3> QED
      BY <1>5, <1>8, <3>2
  <2> QED
    BY <2>1, <2>2
<1>18. /\ m[f][j] = ZeroHeader /\ m[f][j + 1] = Ptr(t, new)
       /\ \A k \in DOMAIN mem[f] : k # j /\ k # j + 1 => m[f][k] = mem[f][k]
       /\ \A z \in Spaces : z # f /\ z # t => m[z] = mem[z]
  <2>1. /\ m[f][IndexOf(v) - 1] = ZeroHeader /\ m[f][IndexOf(v)] = Ptr(t, new)
        /\ \A k \in DOMAIN mem[f] :
               k # IndexOf(v) - 1 /\ k # IndexOf(v) => m[f][k] = mem[f][k]
        /\ \A z \in Spaces : z # f /\ z # t => m[z] = mem[z]
    BY <1>13 DEF ObjectCopied
  <2>2. IndexOf(v) - 1 = j
    BY DEF v
  <2> QED
    BY <1>5, <2>1, <2>2
<1>19. \A k \in h .. h + sz : k \in DOMAIN mem[t] /\ loc # MemLoc(t, k)
  <2> SUFFICES ASSUME NEW k \in h .. h + sz PROVE k \in DOMAIN mem[t] /\ loc # MemLoc(t, k)
    OBVIOUS
  <2>1. next[t] + 2 = h + 1 /\ h = next[t] + 1 /\ h + sz <= Len(mem[t])
    BY <1>7, <1>8, <1>9
  <2>2. k \in Nat /\ k >= h /\ k <= h + sz /\ k > 0
    BY <1>3, <1>7
  <2>3. next[t] \in Nat /\ Len(mem[t]) \in Nat /\ h + sz \in Nat
    BY <1>3, <1>7, <1>12
  <2>4. ~ (k <= next[t])
    BY <2>1, <2>2, <2>3
  <2>5. k \in 1 .. Len(mem[t])
    BY <2>1, <2>2, <2>3
  <2> QED
    BY <1>12, <1>15, <2>4, <2>5 DEF CallStored
<1>20. \A k \in DOMAIN mem[t] :
           /\ loc = MemLoc(t, k) => mem'[t][k] = Ptr(t, new) /\ k \notin Headers(t)
           /\ loc # MemLoc(t, k) => mem'[t][k] = m[t][k]
  BY <1>15 DEF CallStored
<1>21. /\ \A k \in h .. h + sz : mem'[t][k] = mem[f][j + (k - h)]
       /\ \A k \in DOMAIN mem[t] : k \notin h .. h + sz =>
              /\ loc = MemLoc(t, k) => mem'[t][k] = Ptr(t, new) /\ k \notin Headers(t)
              /\ loc # MemLoc(t, k) => mem'[t][k] = mem[t][k]
  BY <1>17, <1>19, <1>20
<1>22. \A z \in Spaces : z # t => mem'[z] = m[z]
  BY <1>15 DEF CallStored
<1>23. /\ DOMAIN mem' = Spaces
       /\ \A z \in Spaces : IsSeq(mem'[z]) /\ DOMAIN mem'[z] = DOMAIN mem[z]
                            /\ Len(mem'[z]) = Len(mem[z])
       /\ DOMAIN args' = ArgSlots
       /\ \A k \in ArgSlots : args'[k] = IF loc = ArgLoc(k) THEN Ptr(t, new) ELSE args[k]
  BY <1>15 DEF CallStored, MemoryOK, SameShape
<1>24. CopyMade(f, t, loc, j, sz, h)
  <2>1. /\ mem'[f][j] = ZeroHeader /\ mem'[f][j + 1] = Ptr(t, new)
        /\ \A k \in DOMAIN mem[f] : k # j /\ k # j + 1 => mem'[f][k] = mem[f][k]
    BY <1>3, <1>18, <1>22
  <2>2. \A z \in Spaces : z # f /\ z # t => mem'[z] = mem[z]
    BY <1>18, <1>22
  <2>3. new = h + 1
    BY <1>8
  <2> QED
    BY <1>21, <1>23, <2>1, <2>2, <2>3 DEF CopyMade
<1> QED
  BY <1>3, <1>5, <1>6, <1>7, <1>9, <1>11, <1>24

\* How the objects of the two spaces change when object j of f is copied to h.
ObjectsAfterCopy(f, t, j, sz, h) ==
    /\ \A z \in Spaces \ {t} : Headers(z)' = Headers(z)
    /\ Headers(t)' = Headers(t) \cup {h}
    /\ \A z \in Spaces : \A k \in Headers(z) : Size(z, k)' = Size(z, k)
    /\ Size(t, h)' = sz
    /\ \A z \in Spaces : \A k \in Headers(z) : ~ (z = f /\ k = j) => mem'[z][k] = mem[z][k]
    /\ mem'[f][j] = ZeroHeader /\ mem'[t][h] = mem[f][j]
    /\ \A k \in Headers(f) : k # j => /\ IsForwarded(k)' <=> IsForwarded(k)
                                      /\ IsForwarded(k) => mem'[f][k + 1] = mem[f][k + 1]
    /\ mem'[f][j + 1] = Ptr(t, h + 1)

LEMMA CopyMadeObjects ==
    ASSUME CopyContext, UNCHANGED <<pc, copy>>,
           NEW f, f = copy.from, NEW t, t = copy.to, NEW loc, NEW j \in Headers(f),
           ~ IsForwarded(j), NEW sz \in Nat \ {0}, sz = Size(f, j), sz = Wosize_hd(mem[f][j]),
           NEW h, h = next[t] + 1, h + sz <= Len(mem[t]), CopyMade(f, t, loc, j, sz, h)
    PROVE  ObjectsAfterCopy(f, t, j, sz, h)
<1>1. /\ TypesOK /\ ObjectsOK /\ CopyForwards /\ pc = "copying" /\ f \in Spaces /\ t \in Spaces
      /\ f # t /\ next[t] \in Nat /\ h \in Nat \ {0}
  BY ToSpaceIndex DEF CopyContext, CopySpaces
<1>2. /\ DOMAIN mem[t] = 1 .. Len(mem[t]) /\ Len(mem[t]) \in Nat
      /\ DOMAIN mem[f] = 1 .. Len(mem[f]) /\ Len(mem[f]) \in Nat
  BY <1>1, WordIndex
<1>3. j \in DOMAIN mem[f] /\ j + 1 \in DOMAIN mem[f] /\ j \in Nat /\ j + sz <= Len(mem[f])
  <2>1. /\ j \in 1 .. Len(mem[f]) /\ j + sz <= InUse(f) /\ InUse(f) <= Len(mem[f])
        /\ InUse(f) \in Nat
    BY <1>1, WordIndex, InUseType DEF ObjectsOK, CopyContext
  <2> QED
    BY <1>2, <2>1
<1>4. \A k \in j + 1 .. j + sz : k \notin Headers(f)
  BY <1>1 DEF ObjectsOK
<1>5. \A k \in Headers(t) : k \in DOMAIN mem[t] /\ k \notin h .. h + sz
  <2> SUFFICES ASSUME NEW k \in Headers(t) PROVE k \in DOMAIN mem[t] /\ k \notin h .. h + sz
    OBVIOUS
  <2>1. Size(t, k) \in Nat \ {0} /\ k + Size(t, k) <= next[t] /\ k \in 1 .. Len(mem[t])
    BY <1>1, ToSpaceIndex, WordIndex
  <2> QED
    BY <1>1, <1>2, <2>1
<1>6. \A k \in DOMAIN mem[t] : k \in h .. h + sz \/ k <= next[t] \/ k > h + sz
  BY <1>1, <1>2
<1>7. \A k \in Headers(t) : mem'[t][k] = mem[t][k]
  BY <1>5 DEF CopyMade
<1>8. mem'[t][h] = mem[f][j] /\ h \in DOMAIN mem[t]
  <2>1. j \in Nat
    BY <1>3
  <2>2. h \in h .. h + sz /\ j + (h - h) = j
    BY <1>1, <2>1
  <2>3. h \in 1 .. Len(mem[t])
    BY <1>1, <1>2
  <2>4. mem'[t][h] = mem[f][j + (h - h)]
    BY <2>2 DEF CopyMade
  <2> QED
    BY <1>2, <2>2, <2>3, <2>4
<1>9. \A z \in Spaces \ {t} : Headers(z)' = Headers(z)
  <2>1. \A z \in Spaces : z # f /\ z # t => Headers(z)' = Headers(z)
    BY DEF Headers, CopyMade
  <2>2. \A k \in DOMAIN mem[f] : IsHeader(mem'[f][k]) <=> IsHeader(mem[f][k])
    <3> SUFFICES ASSUME NEW k \in DOMAIN mem[f]
                 PROVE  IsHeader(mem'[f][k]) <=> IsHeader(mem[f][k])
      OBVIOUS
    <3>1. CASE k = j
      <4>1. mem'[f][k] = ZeroHeader
        BY <3>1 DEF CopyMade
      <4>2. IsHeader(ZeroHeader)
        BY DEF ZeroHeader, Header, IsHeader
      <4> QED
        BY <3>1, <4>1, <4>2 DEF Headers
    <3>2. CASE k = j + 1
      <4>1. k \notin Headers(f)
        <5>1. j \in Nat
          BY <1>3
        <5>2. j + 1 \in j + 1 .. j + sz
          BY <5>1
        <5> QED
          BY <1>4, <3>2, <5>2
      <4>2. mem'[f][k] = Ptr(t, h + 1)
        BY <3>2 DEF CopyMade
      <4>3. ~ IsHeader(Ptr(t, h + 1))
        BY DEF Ptr, IsHeader
      <4> QED
        BY <4>1, <4>2, <4>3 DEF Headers
    <3>3. CASE k # j /\ k # j + 1
      BY <3>3 DEF CopyMade
    <3> QED
      BY <3>1, <3>2, <3>3
  <2>3. Headers(f)' = Headers(f)
    BY <1>1, <2>2 DEF Headers, CopyMade
  <2> QED
    BY <2>1, <2>3
<1>10. Headers(t)' = Headers(t) \cup {h}
  <2>1. DOMAIN mem'[t] = DOMAIN mem[t]
    BY <1>1 DEF CopyMade
  <2>2. ASSUME NEW k \in DOMAIN mem[t], k \in h .. h + sz
        PROVE  IsHeader(mem'[t][k]) <=> k = h
    <3>1. mem'[t][k] = mem[f][j + (k - h)]
      BY <2>2 DEF CopyMade
    <3>2. CASE k = h
      BY <1>8, <3>2 DEF Headers
    <3>3. CASE k # h
      <4>1. PICK i \in 1 .. sz : i = k - h
        <5>1. k \in Int /\ h \in Int /\ sz \in Int
          BY <1>1, <2>2
        <5> QED
          BY <2>2, <3>3, <5>1, Offset
      <4>2. j \in Int /\ sz \in Int /\ Len(mem[f]) \in Int /\ j >= 1 /\ j + sz <= Len(mem[f])
        BY <1>2, <1>3
      <4>3. j + i \in j + 1 .. j + sz /\ j + i \in 1 .. Len(mem[f])
        BY <4>2
      <4>4. ~ IsHeader(mem[f][j + i])
        BY <1>2, <1>4, <4>3 DEF Headers
      <4> QED
        BY <3>1, <3>3, <4>1, <4>4
    <3> QED
      BY <3>2, <3>3
  <2>3. ASSUME NEW k \in DOMAIN mem[t], k \notin h .. h + sz
        PROVE  IsHeader(mem'[t][k]) <=> IsHeader(mem[t][k])
    <3>1. CASE loc = MemLoc(t, k)
      <4>1. mem'[t][k] = Ptr(t, h + 1) /\ k \notin Headers(t)
        BY <2>3, <3>1 DEF CopyMade
      <4>2. ~ IsHeader(Ptr(t, h + 1))
        BY DEF Ptr, IsHeader
      <4> QED
        BY <2>3, <4>1, <4>2 DEF Headers
    <3>2. CASE loc # MemLoc(t, k)
      BY <2>3, <3>2 DEF CopyMade
    <3> QED
      BY <3>1, <3>2
  <2>4. h \in h .. h + sz
    BY <1>1
  <2> QED
    BY <1>5, <1>8, <2>1, <2>2, <2>3, <2>4 DEF Headers
<1>11. /\ \A k \in Headers(f) : k # j => mem'[f][k] = mem[f][k]
       /\ \A k \in Headers(f) : k # j /\ IsForwarded(k) => mem'[f][k + 1] = mem[f][k + 1]
  <2> SUFFICES ASSUME NEW k \in Headers(f), k # j
               PROVE  mem'[f][k] = mem[f][k] /\ mem'[f][k + 1] = mem[f][k + 1]
    OBVIOUS
  <2>1. k # j + 1
    <3>1. j + 1 \in j + 1 .. j + sz
      BY <1>3
    <3>2. j + 1 \notin Headers(f)
      BY <1>4, <3>1
    <3> QED
      BY <3>2
  <2>2. k \in DOMAIN mem[f] /\ k + 1 \in DOMAIN mem[f]
    <3>1. /\ k \in 1 .. Len(mem[f]) /\ Size(f, k) \in Nat \ {0} /\ k + Size(f, k) <= InUse(f)
          /\ InUse(f) <= Len(mem[f]) /\ InUse(f) \in Nat
      BY <1>1, WordIndex, InUseType DEF ObjectsOK, CopyContext
    <3> QED
      BY <1>2, <3>1
  <2>3. k + 1 # j /\ k + 1 # j + 1
    <3>1. k \in Nat /\ Size(f, k) \in Nat \ {0}
      BY <1>1, <1>2, <2>2 DEF ObjectsOK
    <3>2. \A i \in k + 1 .. k + Size(f, k) : i \notin Headers(f)
      BY <1>1 DEF ObjectsOK
    <3>3. k + 1 \in k + 1 .. k + Size(f, k)
      BY <3>1
    <3>4. k + 1 # j
      BY <3>2, <3>3
    <3> QED
      BY <1>3, <3>1, <3>4
  <2> QED
    BY <2>1, <2>2, <2>3 DEF CopyMade
<1>12. \A k \in Headers(f) : k # j => (IsForwarded(k)' <=> IsForwarded(k))
  BY <1>11 DEF IsForwarded
<1>13. \A z \in Spaces : \A k \in Headers(z) : ~ (z = f /\ k = j) => mem'[z][k] = mem[z][k]
  BY <1>7, <1>11 DEF CopyMade
<1>14. \A k \in Headers(f) : Size(f, k)' = Size(f, k)
  <2> SUFFICES ASSUME NEW k \in Headers(f) PROVE Size(f, k)' = Size(f, k)
    OBVIOUS
  <2>1. CASE k = j
    <3>1. mem'[f][j] = ZeroHeader /\ IndexOf(mem'[f][j + 1]) - 1 = h
      <4>1. mem'[f][j] = ZeroHeader /\ mem'[f][j + 1] = Ptr(t, h + 1)
        BY DEF CopyMade
      <4>2. IndexOf(Ptr(t, h + 1)) = h + 1
        BY DEF IndexOf, Ptr
      <4> QED
        BY <1>1, <4>1, <4>2
    <3>2. IsForwarded(k)' /\ NewHeader(k)' = h
      BY <2>1, <3>1 DEF IsForwarded, NewHeader
    <3>3. Size(f, k)' = Wosize_hd(mem'[t][h])
      BY <1>1, <3>2 DEF Size
    <3> QED
      BY <1>8, <2>1, <3>3
  <2>2. CASE k # j /\ IsForwarded(k)
    <3>1. NewHeader(k) \in Headers(t) /\ NewHeader(k)' = NewHeader(k) /\ IsForwarded(k)'
      BY <1>1, <1>11, <1>12, <2>2 DEF CopyForwards, NewHeader
    <3>2. mem'[t][NewHeader(k)] = mem[t][NewHeader(k)]
      BY <1>7, <3>1
    <3> QED
      BY <1>1, <2>2, <3>1, <3>2 DEF Size
  <2>3. CASE k # j /\ ~ IsForwarded(k)
    BY <1>1, <1>11, <1>12, <2>3 DEF Size
  <2> QED
    BY <2>1, <2>2, <2>3
<1>15. \A z \in Spaces : z # f => \A k \in Headers(z) : Size(z, k)' = Size(z, k)
  BY <1>1, <1>13 DEF Size
<1>16. Size(t, h)' = sz
  BY <1>1, <1>8 DEF Size
<1>17. mem'[f][j] = ZeroHeader /\ mem'[f][j + 1] = Ptr(t, h + 1)
  BY DEF CopyMade
<1> QED
  BY <1>8, <1>9, <1>10, <1>11, <1>12, <1>13, <1>14, <1>15, <1>16, <1>17 DEF ObjectsAfterCopy

LEMMA ForwardCopyHeap == HeapInv /\ Bookkeeping /\ ForwardCopy => HeapInv'
<1> SUFFICES ASSUME HeapInv, Bookkeeping, ForwardCopy PROVE HeapInv'
  OBVIOUS
<1>1. /\ CopyContext /\ calls # <<>> /\ pc = "copying"
      /\ UNCHANGED <<alloc, limit, fi, budget, pc, gen, copy, scan, result>>
      /\ TypesOK /\ ObjectsOK /\ PointersOK /\ RootsOK /\ CopySpaces
      /\ CopyPlan /\ CopyWalk /\ CopyForwards /\ CopyFits /\ CallsOK
  BY Context DEF ForwardCopy, Copying, CopyContext, HeapInv, CopyOK
<1>2. PICK f, t, loc, d : f = copy.from /\ t = copy.to /\ loc = Head(calls).p
                          /\ d = Head(calls).depth
  OBVIOUS
<1>3. PICK j : j = IndexOf(Read(loc)) - 1
  OBVIOUS
<1>4. PICK sz, h : sz = Size(f, j) /\ h = next[t] + 1
  OBVIOUS
<1>5. /\ f \in Spaces /\ t \in Spaces /\ f # t /\ f \in Nat /\ t \in Nat /\ f < t /\ t # 0
      /\ next[t] \in Nat /\ InUse(t) = next[t] /\ copy.p \in Nat /\ scan \in Nat
      /\ copy.p <= scan /\ scan <= next[t]
  BY <1>1, <1>2, ToSpaceIndex, SpaceNumbers DEF CopySpaces, CopyWalk
<1>6. /\ j \in Headers(f) /\ ~ IsForwarded(j) /\ sz \in Nat \ {0} /\ h \in Nat \ {0}
      /\ h + sz <= Len(mem[t]) /\ sz = Wosize_hd(mem[f][j])
      /\ next' = [next EXCEPT ![t] = h + sz]
      /\ CopyMade(f, t, loc, j, sz, h)
  BY <1>2, <1>3, <1>4, CopyIsMade
<1>7. ObjectsAfterCopy(f, t, j, sz, h)
  BY <1>1, <1>2, <1>4, <1>6, CopyMadeObjects
<1>8. /\ IsSeq(Tail(calls)) /\ \A c \in ToSet(Tail(calls)) : CallOK(c)
      /\ CallOK(Head(calls)) /\ loc \in Due
      /\ Due = {loc} \cup {c.p : c \in ToSet(Tail(calls))}
  BY <1>1, <1>2, HeadCall
<1>9. calls' = (IF d > 0 THEN FieldCalls(t, h + 1, sz, d - 1) ELSE <<>>) \o Tail(calls)
  <2>1. calls' = (IF d > 0 THEN FieldCalls(t, next[t] + 2, Wosize(mem, Read(loc)), d - 1) ELSE <<>>)
                     \o Tail(calls)
    BY <1>2 DEF ForwardCopy
  <2>2. next[t] + 2 = h + 1
    BY <1>4, <1>5
  <2>3. Wosize(mem, Read(loc)) = sz
    <3>1. Is_from(Read(loc))
      BY <1>2 DEF ForwardCopy
    <3> QED
      BY <1>2, <1>3, <1>6, <3>1 DEF Wosize, Hd_val, Is_from
  <2> QED
    BY <2>1, <2>2, <2>3
<1>10. /\ d \in 0 .. DEPTH /\ h + 1 \in Nat
       /\ IsSeq(calls')
       /\ ToSet(Tail(calls)) \subseteq ToSet(calls')
       /\ \A c \in ToSet(calls') : c \in ToSet(Tail(calls))
             \/ (d > 0 /\ \E k \in h + 1 .. h + sz : c = Call(MemLoc(t, k), d - 1))
  <2>1. d \in 0 .. DEPTH /\ h + 1 \in Nat
    BY <1>2, <1>6, <1>8 DEF CallOK
  <2>2. CASE d > 0
    <3>1. PICK i \in Nat, e \in Int : i = h + 1 /\ e = d - 1
      BY <2>1
    <3>2. i + sz - 1 = h + sz
      BY <1>6, <3>1
    <3>3. /\ IsSeq(FieldCalls(t, i, sz, e))
          /\ ToSet(FieldCalls(t, i, sz, e)) = {Call(MemLoc(t, k), e) : k \in i .. i + sz - 1}
      <4>1. sz \in Nat
        BY <1>6
      <4> QED
        BY <4>1, FieldCallsElements
    <3>4. PICK F : /\ F = FieldCalls(t, i, sz, e) /\ IsSeq(F)
                   /\ ToSet(F) = {Call(MemLoc(t, k), e) : k \in i .. i + sz - 1}
      BY <3>3
    <3>5. IsSeq(F \o Tail(calls)) /\ ToSet(F \o Tail(calls)) = ToSet(F) \cup ToSet(Tail(calls))
      BY <1>8, <3>4, ConcatElements
    <3>6. calls' = F \o Tail(calls)
      BY <1>9, <2>2, <3>1, <3>4
    <3>7. \A c \in ToSet(F) : \E k \in h + 1 .. h + sz : c = Call(MemLoc(t, k), d - 1)
      BY <3>1, <3>2, <3>4
    <3> QED
      BY <2>1, <2>2, <3>5, <3>6, <3>7
  <2>3. CASE ~ (d > 0)
    <3>1. IsSeq(<<>>) /\ ToSet(<<>>) = {}
      BY DEF IsSeq, ToSet
    <3>2. IsSeq(<<>> \o Tail(calls)) /\ ToSet(<<>> \o Tail(calls)) = ToSet(<<>>) \cup ToSet(Tail(calls))
      BY <1>8, <3>1, ConcatElements
    <3>3. calls' = <<>> \o Tail(calls)
      BY <1>9, <2>3
    <3> QED
      BY <2>1, <3>1, <3>2, <3>3
  <2> QED
    BY <2>2, <2>3
<1>11. {c.p : c \in ToSet(Tail(calls))} \subseteq Due'
  BY <1>10 DEF Due
<1>12. Due \subseteq {loc} \cup Due'
  BY <1>8, <1>11
<1>13. /\ InUse(t)' = h + sz /\ next'[t] = h + sz
       /\ \A z \in Spaces : z # t => InUse(z)' = InUse(z) /\ next'[z] = next[z]
  BY <1>1, <1>5, <1>6 DEF InUse, TypesOK
<1>14. /\ \A z \in Spaces : Headers(z) \subseteq Headers(z)'
       /\ \A z \in Spaces : \A k \in Headers(z)' : k \in Headers(z) \/ (z = t /\ k = h)
       /\ h \in Headers(t)'
  BY <1>5, <1>7 DEF ObjectsAfterCopy
<1>15. \A w : PointsToObject(w) => PointsToObject(w)'
  BY <1>14 DEF PointsToObject
<1>16. PICK new : new = Ptr(t, h + 1)
  OBVIOUS
<1>17. IsPtr(new) /\ SpaceOf(new) = t /\ PointsToObject(new)' /\ IndexOf(new) - 1 = h
       /\ IndexOf(new) \in Nat
  <2>1. IsPtr(new) /\ SpaceOf(new) = t /\ IndexOf(new) = h + 1
    BY <1>16 DEF IsPtr, SpaceOf, IndexOf, Ptr
  <2>2. IndexOf(new) \in Nat /\ IndexOf(new) - 1 = h
    BY <1>6, <2>1
  <2> QED
    BY <1>5, <1>14, <2>1, <2>2 DEF PointsToObject
<1>18. \A k \in Headers(t) : k \in Nat \ {0} /\ Size(t, k) \in Nat \ {0}
                             /\ k + Size(t, k) < h /\ k < h
  <2> SUFFICES ASSUME NEW k \in Headers(t)
               PROVE  /\ k \in Nat \ {0} /\ Size(t, k) \in Nat \ {0}
                      /\ k + Size(t, k) < h /\ k < h
    OBVIOUS
  <2>1. Size(t, k) \in Nat \ {0} /\ k + Size(t, k) <= next[t]
    BY <1>1, <1>2, ToSpaceIndex
  <2>2. k \in 1 .. Len(mem[t]) /\ Len(mem[t]) \in Nat
    BY <1>1, <1>5, WordIndex
  <2> QED
    BY <1>4, <1>5, <2>1, <2>2
<1>19. TypesOK'
  <2>1. /\ DOMAIN mem' = Spaces /\ DOMAIN args' = ArgSlots
        /\ \A z \in Spaces : IsSeq(mem'[z])
    BY <1>6 DEF CopyMade
  <2>2. next' \in [Spaces -> Nat]
    <3>1. h + sz \in Nat
      BY <1>6
    <3> QED
      BY <1>1, <1>6, <3>1 DEF TypesOK
  <2> QED
    BY <1>1, <2>1, <2>2 DEF TypesOK
<1>20. ObjectsOK'
  <2>1. \A s \in Spaces : InUse(s)' <= Len(mem'[s])
    <3> SUFFICES ASSUME NEW s \in Spaces PROVE InUse(s)' <= Len(mem'[s])
      OBVIOUS
    <3>1. Len(mem'[s]) = Len(mem[s])
      BY <1>6 DEF CopyMade
    <3> QED
      BY <1>1, <1>6, <1>13, <3>1 DEF ObjectsOK
  <2>2. ASSUME NEW s \in Spaces, NEW k \in Headers(s)
        PROVE  /\ Size(s, k)' \in Nat \ {0}
               /\ k + Size(s, k)' <= InUse(s)'
               /\ \A i \in k + 1 .. k + Size(s, k)' : i \notin Headers(s)'
    <3>1. /\ Size(s, k) \in Nat \ {0} /\ k + Size(s, k) <= InUse(s)
          /\ \A i \in k + 1 .. k + Size(s, k) : i \notin Headers(s)
      BY <1>1 DEF ObjectsOK
    <3>2. Size(s, k)' = Size(s, k)
      BY <1>7 DEF ObjectsAfterCopy
    <3>3. CASE s # t
      BY <1>7, <1>13, <3>1, <3>2, <3>3 DEF ObjectsAfterCopy
    <3>4. CASE s = t
      <4>1. k \in Nat /\ Size(t, k) \in Nat /\ k + Size(t, k) < h
        BY <1>18, <3>4
      <4>2. k + Size(t, k) <= h + sz
        BY <1>6, <4>1
      <4>3. \A i \in k + 1 .. k + Size(t, k) : i # h
        BY <1>6, <4>1
      <4> QED
        BY <1>13, <1>14, <3>1, <3>2, <3>4, <4>2, <4>3
    <3> QED
      BY <3>3, <3>4
  <2>3. /\ Size(t, h)' \in Nat \ {0} /\ h + Size(t, h)' <= InUse(t)'
        /\ \A i \in h + 1 .. h + Size(t, h)' : i \notin Headers(t)'
    <3>1. Size(t, h)' = sz
      BY <1>7 DEF ObjectsAfterCopy
    <3>2. \A i \in h + 1 .. h + sz : i # h /\ ~ (i < h)
      BY <1>6
    <3>3. h + sz <= InUse(t)'
      BY <1>6, <1>13
    <3> QED
      BY <1>5, <1>6, <1>14, <1>18, <3>1, <3>2, <3>3
  <2>4. ASSUME NEW s \in Spaces, NEW k \in Headers(s)
        PROVE  /\ mem'[s][k] = ZeroHeader => pc' = "copying" /\ s = copy'.from
               /\ Tag_hd(mem'[s][k]) \in Nat
               /\ DEPTH > 0 => ~ No_scan(Tag_hd(mem'[s][k]))
    <3>1. CASE s = f /\ k = j
      <4>1. mem'[s][k] = ZeroHeader
        BY <1>7, <3>1 DEF ObjectsAfterCopy
      <4>2. Tag_hd(ZeroHeader) = 0
        BY DEF Tag_hd, ZeroHeader, Header
      <4> QED
        BY <1>1, <1>2, <3>1, <4>1, <4>2 DEF No_scan, No_scan_tag
    <3>2. CASE ~ (s = f /\ k = j)
      <4>1. mem'[s][k] = mem[s][k]
        BY <1>7, <3>2 DEF ObjectsAfterCopy
      <4> QED
        BY <1>1, <4>1 DEF ObjectsOK
    <3> QED
      BY <3>1, <3>2
  <2>5. /\ mem'[t][h] # ZeroHeader
        /\ Tag_hd(mem'[t][h]) \in Nat
        /\ DEPTH > 0 => ~ No_scan(Tag_hd(mem'[t][h]))
    <3>1. mem'[t][h] = mem[f][j]
      BY <1>7 DEF ObjectsAfterCopy
    <3>2. mem[f][j] # ZeroHeader
      BY <1>2, <1>6 DEF IsForwarded
    <3> QED
      BY <1>1, <1>5, <1>6, <3>1, <3>2 DEF ObjectsOK
  <2> QED
    BY <1>14, <2>1, <2>2, <2>3, <2>4, <2>5 DEF ObjectsOK
<1>21. PointersOK'
  <2> DEFINE Good(s, i, u) == PointsToObject(u)' /\ (SpaceOf(u) >= s \/ ToBeForwarded(s, i)')
  <2> SUFFICES ASSUME NEW s \in Spaces, NEW k \in Headers(s)', HasPointers(s, k)',
                      NEW i \in k + 1 .. k + Size(s, k)',
                      NEW u, u = mem'[s][i], IsPtr(u)
               PROVE  Good(s, i, u)
    BY DEF PointersOK
  <2>1. CASE s = t /\ k = h
    <3>1. i \in h + 1 .. h + sz
      BY <1>7, <2>1 DEF ObjectsAfterCopy
    <3>2. PICK x : x = j + (i - h)
      OBVIOUS
    <3>3. x \in j + 1 .. j + Size(f, j) /\ i \in h .. h + sz /\ i > h
      <4>1. j \in Int
        BY <1>1, <1>5, <1>6, WordIndex
      <4>2. i - h \in 1 .. sz
        BY <1>6, <3>1
      <4>3. x \in j + 1 .. j + sz
        BY <1>6, <3>2, <4>1, <4>2
      <4> QED
        BY <1>4, <1>6, <3>1, <4>3
    <3>4. mem'[s][i] = mem[f][x]
      BY <1>6, <2>1, <3>2, <3>3 DEF CopyMade
    <3>5. HasPointers(f, j)
      <4>1. ~ No_scan(Tag_hd(mem'[t][h]))
        BY <2>1 DEF HasPointers
      <4>2. mem'[t][h] = mem[f][j]
        BY <1>7 DEF ObjectsAfterCopy
      <4>3. mem[f][j] # ZeroHeader
        BY <1>2, <1>6 DEF IsForwarded
      <4> QED
        BY <1>6, <4>1, <4>2, <4>3 DEF HasPointers
    <3>6. PICK w : w = mem[f][x]
      OBVIOUS
    <3>7. PointsToObject(w) /\ (SpaceOf(w) >= f \/ ToBeForwarded(f, x))
      BY <1>1, <1>5, <1>6, <3>3, <3>4, <3>5, <3>6 DEF PointersOK
    <3>8. ~ ToBeForwarded(f, x)
      BY <1>2, <1>5 DEF ToBeForwarded
    <3>9. SpaceOf(w) \in Spaces /\ ~ NoObjects(SpaceOf(w)) /\ SpaceOf(w) \in Nat
      BY <3>7, SpaceNumbers DEF PointsToObject, NoObjects
    <3>10. SpaceOf(w) = f \/ SpaceOf(w) >= t
      BY <1>1, <1>2, <1>5, <3>7, <3>8, <3>9 DEF CopySpaces
    <3>11. SpaceOf(w) = f => ToBeForwarded(s, i)'
      <4>1. i > h
        BY <1>6, <3>1
      <4>2. i > copy.p /\ i > scan
        <5>1. /\ copy.p \in Int /\ scan \in Int /\ next[t] \in Int /\ h = next[t] + 1
              /\ copy.p <= scan /\ scan <= next[t]
          BY <1>4, <1>5
        <5>2. i \in Int
          BY <1>6, <3>1
        <5> QED
          BY <4>1, <5>1, <5>2
      <4> QED
        BY <1>1, <1>2, <2>1, <3>4, <3>6, <4>2 DEF ToBeForwarded
    <3> QED
      BY <1>15, <2>1, <3>4, <3>6, <3>7, <3>10, <3>11
  <2>2. CASE s = f /\ k = j
    BY <1>7, <2>2 DEF ObjectsAfterCopy, HasPointers
  <2>3. CASE k \in Headers(s) /\ ~ (s = f /\ k = j)
    <3>1. /\ mem'[s][k] = mem[s][k] /\ Size(s, k)' = Size(s, k)
      BY <1>7, <2>3 DEF ObjectsAfterCopy
    <3>2. HasPointers(s, k) /\ i \in k + 1 .. k + Size(s, k)
      BY <2>3, <3>1 DEF HasPointers
    <3>3. IsPtr(mem[s][i]) =>
              PointsToObject(mem[s][i]) /\ (SpaceOf(mem[s][i]) >= s \/ ToBeForwarded(s, i))
      BY <1>1, <2>3, <3>2 DEF PointersOK
    <3>4. i \in DOMAIN mem[s] /\ i \in Nat /\ k \in Nat /\ Size(s, k) \in Nat
          /\ i \in k .. k + Size(s, k)
      <4>1. /\ Size(s, k) \in Nat /\ k + Size(s, k) <= InUse(s) /\ InUse(s) <= Len(mem[s])
            /\ k \in 1 .. Len(mem[s]) /\ DOMAIN mem[s] = 1 .. Len(mem[s]) /\ Len(mem[s]) \in Nat
            /\ InUse(s) \in Nat
        BY <1>1, <2>3, WordIndex, InUseType DEF ObjectsOK, CopyContext
      <4> QED
        BY <3>2, <4>1
    <3>5. CASE s # f /\ s # t
      <4>1. mem'[s] = mem[s]
        BY <1>6, <3>5 DEF CopyMade
      <4>2. ~ ToBeForwarded(s, i)
        BY <1>2, <3>5 DEF ToBeForwarded
      <4> QED
        BY <1>15, <3>3, <4>1, <4>2
    <3>6. CASE s = f
      <4>1. i \notin j .. j + Size(f, j)
        BY <1>1, <1>5, <1>6, <2>3, <3>4, <3>6, OneObject
      <4>2. i # j /\ i # j + 1
        <5>1. j \in Int /\ sz \in Nat \ {0}
          BY <1>1, <1>5, <1>6, WordIndex
        <5>2. j \in j .. j + sz /\ j + 1 \in j .. j + sz
          BY <5>1
        <5> QED
          BY <1>4, <4>1, <5>2
      <4>3. mem'[s][i] = mem[s][i]
        BY <1>6, <3>4, <3>6, <4>2 DEF CopyMade
      <4>4. ~ ToBeForwarded(s, i)
        BY <1>2, <1>5, <3>6 DEF ToBeForwarded
      <4> QED
        BY <1>15, <3>3, <4>3, <4>4
    <3>7. CASE s = t
      <4>1. i \notin h .. h + sz
        <5>1. k \in Nat /\ Size(t, k) \in Nat /\ k + Size(t, k) < h
          BY <1>18, <2>3, <3>7
        <5> QED
          BY <1>6, <3>2, <3>4, <3>7, <5>1
      <4>2. CASE loc = MemLoc(t, i)
        <5>1. mem'[s][i] = new
          BY <1>6, <1>16, <3>4, <3>7, <4>1, <4>2 DEF CopyMade
        <5> QED
          BY <1>5, <1>17, <3>7, <5>1
      <4>3. CASE loc # MemLoc(t, i)
        <5>1. mem'[s][i] = mem[s][i]
          BY <1>6, <3>4, <3>7, <4>1, <4>3 DEF CopyMade
        <5>2. ToBeForwarded(s, i) => ToBeForwarded(s, i)'
          BY <1>1, <1>12, <3>7, <4>3, <5>1 DEF ToBeForwarded
        <5> QED
          BY <1>15, <3>3, <5>1, <5>2
      <4> QED
        BY <4>2, <4>3
    <3> QED
      BY <3>5, <3>6, <3>7
  <2> QED
    BY <1>14, <2>1, <2>2, <2>3
<1>22. RootsOK'
  <2> SUFFICES ASSUME NEW k \in DOMAIN fi.roots, NEW u, u = args'[fi.roots[k]], IsPtr(u)
               PROVE  PointsToObject(u)' /\ (SpaceOf(u) = f => ArgLoc(fi.roots[k]) \in Due')
    BY <1>1, <1>2 DEF RootsOK
  <2>1. fi.roots[k] \in ArgSlots
    BY <1>1 DEF TypesOK
  <2>2. CASE loc = ArgLoc(fi.roots[k])
    <3>1. u = new
      BY <1>6, <1>16, <2>1, <2>2 DEF CopyMade
    <3> QED
      BY <1>5, <1>17, <3>1
  <2>3. CASE loc # ArgLoc(fi.roots[k])
    <3>1. u = args[fi.roots[k]]
      BY <1>6, <2>1, <2>3 DEF CopyMade
    <3>2. PointsToObject(u) /\ (SpaceOf(u) = f => ArgLoc(fi.roots[k]) \in Due)
      BY <1>1, <1>2, <3>1 DEF RootsOK
    <3> QED
      BY <1>12, <1>15, <2>3, <3>2
  <2> QED
    BY <2>2, <2>3
<1>23. CopyPlan'
  <2>1. \A z \in Spaces : z # f /\ z # t => mem'[z] = mem[z] /\ next'[z] = next[z]
    BY <1>6, <1>13 DEF CopyMade
  <2>2. \A z \in Spaces : IsSeq(mem'[z]) /\ Len(mem'[z]) = Len(mem[z])
    BY <1>6 DEF CopyMade
  <2> QED
    BY <1>1, <1>2, <2>1, <2>2, PlanKept
<1>24. CopyWalk'
  <2>1. next'[t] = h + sz /\ next[t] < h + sz /\ copy.p <= scan /\ scan <= h + sz
    BY <1>4, <1>5, <1>6, <1>13
  <2>2. ASSUME NEW k, Boundary(k), k \in Int PROVE Boundary(k)'
    <3>1. CASE k = next[t]
      BY <1>1, <1>2, <1>4, <1>14, <2>1, <3>1 DEF Boundary
    <3>2. CASE k < next[t] /\ k + 1 \in Headers(t)
      <4>1. k < h + sz /\ k + 1 \in Headers(t)'
        BY <1>5, <1>6, <1>14, <2>1, <2>2, <3>2
      <4> QED
        BY <1>1, <1>2, <2>1, <4>1 DEF Boundary
    <3> QED
      BY <1>2, <2>2, <3>1, <3>2 DEF Boundary
  <2>3. Boundary(copy.p)' /\ Boundary(scan)'
    <3>1. PICK a \in Int, b \in Int : a = copy.p /\ b = scan
      BY <1>5
    <3>2. Boundary(a) /\ Boundary(b)
      BY <1>1, <3>1 DEF CopyWalk
    <3>3. Boundary(a)' /\ Boundary(b)'
      BY <2>2, <3>2
    <3> QED
      BY <1>1, <3>1, <3>3
  <2>4. \A k \in Headers(t)' : k > copy.p => Boundary(k + Size(t, k))'
    <3> SUFFICES ASSUME NEW k \in Headers(t)', k > copy.p
                 PROVE  Boundary(k + Size(t, k))'
      OBVIOUS
    <3>1. PICK e : e = k + Size(t, k)'
      OBVIOUS
    <3>2. CASE k = h
      <4>1. e = next'[t]
        BY <1>7, <2>1, <3>1, <3>2 DEF ObjectsAfterCopy
      <4>2. Boundary(e)'
        BY <1>1, <1>2, <4>1 DEF Boundary
      <4> QED
        BY <3>1, <4>2
    <3>3. CASE k \in Headers(t)
      <4>1. e = k + Size(t, k) /\ e \in Int
        BY <1>5, <1>7, <1>18, <3>1, <3>3 DEF ObjectsAfterCopy
      <4>2. Boundary(e)
        BY <1>1, <1>2, <3>3, <4>1 DEF CopyWalk
      <4>3. Boundary(e)'
        BY <2>2, <4>1, <4>2
      <4> QED
        BY <3>1, <4>3
    <3> QED
      BY <1>5, <1>14, <3>2, <3>3
  <2> QED
    BY <1>1, <1>2, <1>5, <2>1, <2>3, <2>4 DEF CopyWalk
<1>25. CopyForwards'
  <2> SUFFICES ASSUME NEW k \in Headers(f)', IsForwarded(k)', NEW u, u = mem'[f][k + 1]
               PROVE  /\ IsPtr(u) /\ SpaceOf(u) = t /\ IndexOf(u) \in Nat
                      /\ IndexOf(u) - 1 \in Headers(t)' /\ IndexOf(u) - 1 > copy.p
    BY <1>1, <1>2 DEF CopyForwards, NewHeader
  <2>1. CASE k = j
    <3>1. u = new
      BY <1>7, <1>16, <2>1 DEF ObjectsAfterCopy
    <3>2. h > copy.p
      BY <1>4, <1>5
    <3> QED
      BY <1>14, <1>17, <3>1, <3>2
  <2>2. CASE k # j
    <3>1. k \in Headers(f) /\ IsForwarded(k) /\ u = mem[f][k + 1]
      BY <1>5, <1>7, <1>14, <2>2 DEF ObjectsAfterCopy
    <3>2. /\ IsPtr(u) /\ SpaceOf(u) = t /\ IndexOf(u) \in Nat
          /\ IndexOf(u) - 1 \in Headers(t) /\ IndexOf(u) - 1 > copy.p
      BY <1>1, <1>2, <3>1 DEF CopyForwards, NewHeader
    <3> QED
      BY <1>5, <1>14, <3>2
  <2> QED
    BY <2>1, <2>2
<1>26. CopyFits'
  <2>1. HasRoom(f, t, j, sz)
    BY <1>1, <1>2, <1>4, <1>6, RoomForCopy
  <2>2. Moved' = Moved \cup (j .. j + sz)
    <3>1. ASSUME NEW k PROVE k \in Moved' <=> k \in Moved \cup (j .. j + sz)
      <4>1. k \in Moved' <=> /\ k \in 1 .. InUse(f)
                             /\ \E x \in Headers(f) : IsForwarded(x)' /\ k \in x .. x + Size(f, x)
        BY <1>1, <1>2, <1>5, <1>7, <1>13 DEF Moved, ObjectsAfterCopy
      <4>2. k \in Moved <=> /\ k \in 1 .. InUse(f)
                            /\ \E x \in Headers(f) : IsForwarded(x) /\ k \in x .. x + Size(f, x)
        BY <1>2 DEF Moved
      <4>3. \A x \in Headers(f) : IsForwarded(x)' <=> IsForwarded(x) \/ x = j
        BY <1>1, <1>2, <1>6, <1>7 DEF ObjectsAfterCopy, IsForwarded
      <4>4. k \in j .. j + sz => k \in 1 .. InUse(f)
        <5>1. j \in Nat \ {0} /\ j + sz <= InUse(f) /\ InUse(f) \in Nat
          BY <1>1, <1>5, <2>1, InUseType DEF HasRoom, CopyContext
        <5> QED
          BY <1>6, <5>1
      <4> QED
        BY <1>4, <1>6, <4>1, <4>2, <4>3, <4>4
    <3> QED
      BY <3>1
  <2>3. Cardinality(Moved') = next'[t] - copy.p
    <3>1. Cardinality(Moved \cup (j .. j + sz)) = next[t] - copy.p + 1 + sz
      BY <2>1 DEF HasRoom
    <3>2. PICK x \in Nat, p \in Nat : x = next[t] /\ p = copy.p
      BY <1>5
    <3>3. PICK e \in Nat : e = (x + 1) + sz
      BY <1>6
    <3>4. next'[t] = e
      BY <1>4, <1>13, <3>2, <3>3
    <3>5. Cardinality(Moved') = x - p + 1 + sz
      BY <2>2, <3>1, <3>2
    <3>6. x - p + 1 + sz = e - p
      <4>1. ASSUME NEW a \in Int, NEW b \in Int, NEW c \in Int, NEW g \in Int,
                   g = (a + 1) + c
            PROVE  a - b + 1 + c = g - b
        BY <4>1
      <4>2. sz \in Int /\ x \in Int /\ p \in Int /\ e \in Int
        BY <1>6, <3>2, <3>3
      <4> QED
        BY <3>3, <4>1, <4>2
    <3>7. Cardinality(Moved') = e - p
      BY <3>5, <3>6, Zenon
    <3> QED
      BY <3>2, <3>4, <3>7, Zenon
  <2>4. InUse(f)' = InUse(f) /\ Len(mem'[t]) = Len(mem[t])
    BY <1>5, <1>6, <1>13 DEF CopyMade
  <2> QED
    BY <1>1, <1>2, <2>3, <2>4 DEF CopyFits
<1>27. CallsOK'
  <2>1. ASSUME NEW c, CallOK(c) PROVE CallOK(c)'
    <3>1. CASE \E k \in DOMAIN fi.roots : c.p = ArgLoc(fi.roots[k])
      BY <1>1, <2>1, <3>1 DEF CallOK
    <3>2. ASSUME NEW k \in Headers(t), k > copy.p, HasPointers(t, k),
                 NEW i \in k + 1 .. k + Size(t, k), c.p = MemLoc(t, i)
          PROVE  CallOK(c)'
      <4>1. mem'[t][k] = mem[t][k] /\ Size(t, k)' = Size(t, k) /\ k \in Headers(t)'
        BY <1>5, <1>7, <1>14 DEF ObjectsAfterCopy
      <4>2. HasPointers(t, k)'
        BY <3>2, <4>1 DEF HasPointers
      <4> QED
        BY <1>1, <1>2, <2>1, <3>2, <4>1, <4>2 DEF CallOK
    <3> QED
      BY <1>2, <2>1, <3>1, <3>2 DEF CallOK
  <2>2. ASSUME NEW k \in h + 1 .. h + sz, d > 0
        PROVE  CallOK(Call(MemLoc(t, k), d - 1))'
    <3>1. h \in Headers(t)' /\ h > copy.p /\ Size(t, h)' = sz /\ mem'[t][h] = mem[f][j]
      BY <1>4, <1>5, <1>7, <1>14 DEF ObjectsAfterCopy
    <3>2. ~ No_scan(Tag_hd(mem[f][j])) /\ d - 1 \in 0 .. DEPTH
      <4>1. DEPTH > 0 /\ d - 1 \in 0 .. DEPTH
        BY <1>10, <2>2, CollectorAssumption
      <4> QED
        BY <1>1, <1>5, <1>6, <4>1 DEF ObjectsOK
    <3>3. HasPointers(t, h)'
      BY <1>2, <1>6, <3>1, <3>2 DEF HasPointers, IsForwarded
    <3>4. PICK c : c = Call(MemLoc(t, k), d - 1)
      OBVIOUS
    <3>5. c.p = MemLoc(t, k) /\ c.depth = d - 1
      BY <3>4 DEF Call
    <3>6. CallOK(c)'
      BY <1>1, <1>2, <2>2, <3>1, <3>2, <3>3, <3>5 DEF CallOK
    <3> QED
      BY <3>4, <3>6
  <2> QED
    BY <1>8, <1>10, <2>1, <2>2 DEF CallsOK
<1> QED
  BY <1>1, <1>19, <1>20, <1>21, <1>22, <1>23, <1>24, <1>25, <1>26, <1>27
  DEF HeapInv, SpacesOK, CopyOK, Dead

-----------------------------------------------------------------------------
(* Steps between the copies: some spaces are emptied, made or freed, and    *)
(* the others stay as they are.                                             *)

KeepsOutside(E) ==
    \A s \in Spaces : s \notin E => mem'[s] = mem[s] /\ InUse(s)' = InUse(s)

EmptyAfter(E) ==
    \A s \in Spaces : s \in E => NoObjects(s)' /\ InUse(s)' <= Len(mem'[s])

\* The objects outside E are whole, and point to no object of E.
PointsOutside(E) ==
    \A s \in Spaces : \A j \in Headers(s) : s \notin E =>
        /\ mem[s][j] # ZeroHeader
        /\ HasPointers(s, j) =>
               \A i \in j + 1 .. j + Size(s, j) : IsPtr(mem[s][i]) =>
                   SpaceOf(mem[s][i]) \notin E /\ SpaceOf(mem[s][i]) >= s

RootsOutside(E) ==
    \A k \in DOMAIN fi.roots : IsPtr(args[fi.roots[k]]) =>
        PointsToObject(args[fi.roots[k]]) /\ SpaceOf(args[fi.roots[k]]) \notin E

RootsPoint ==
    \A k \in DOMAIN fi.roots : IsPtr(args[fi.roots[k]]) => PointsToObject(args[fi.roots[k]])

LEMMA HeapKept ==
    ASSUME ObjectsOK, PointersOK, NEW E,
           KeepsOutside(E), EmptyAfter(E), PointsOutside(E)
    PROVE  /\ ObjectsOK' /\ PointersOK'
           /\ \A s \in Spaces : \A j \in Headers(s)' : mem'[s][j] # ZeroHeader
           /\ RootsOutside(E) /\ UNCHANGED <<fi, args>> => RootsPoint'
<1>1. ASSUME NEW s \in Spaces, NEW j \in Headers(s)'
      PROVE  /\ s \notin E /\ mem'[s] = mem[s] /\ InUse(s)' = InUse(s)
             /\ j \in Headers(s) /\ mem[s][j] # ZeroHeader
             /\ Size(s, j)' = Wosize_hd(mem[s][j]) /\ Size(s, j) = Wosize_hd(mem[s][j])
  <2>1. s \notin E
    BY DEF EmptyAfter, NoObjects
  <2>2. mem'[s] = mem[s] /\ InUse(s)' = InUse(s)
    BY <2>1 DEF KeepsOutside
  <2>3. j \in Headers(s) /\ mem[s][j] # ZeroHeader
    BY <2>1, <2>2 DEF Headers, PointsOutside
  <2>4. Size(s, j)' = Wosize_hd(mem[s][j]) /\ Size(s, j) = Wosize_hd(mem[s][j])
    BY <2>2, <2>3 DEF Size, IsForwarded
  <2> QED
    BY <2>1, <2>2, <2>3, <2>4
<1>2. ASSUME NEW s \in Spaces, s \notin E PROVE \A k : k \in Headers(s)' <=> k \in Headers(s)
  BY <1>2 DEF KeepsOutside, Headers
<1>3. ASSUME NEW v, PointsToObject(v), SpaceOf(v) \notin E PROVE PointsToObject(v)'
  BY <1>2, <1>3 DEF PointsToObject
<1>4. ObjectsOK'
  <2>1. ASSUME NEW s \in Spaces PROVE InUse(s)' <= Len(mem'[s])
    BY DEF EmptyAfter, KeepsOutside, ObjectsOK
  <2>2. ASSUME NEW s \in Spaces, NEW j \in Headers(s)'
        PROVE  /\ Size(s, j)' \in Nat \ {0}
               /\ j + Size(s, j)' <= InUse(s)'
               /\ \A k \in j + 1 .. j + Size(s, j)' : k \notin Headers(s)'
               /\ mem'[s][j] # ZeroHeader
               /\ Tag_hd(mem'[s][j]) \in Nat
               /\ DEPTH > 0 => ~ No_scan(Tag_hd(mem'[s][j]))
    <3>1. Size(s, j)' = Size(s, j) /\ InUse(s)' = InUse(s) /\ mem'[s] = mem[s]
          /\ j \in Headers(s) /\ mem[s][j] # ZeroHeader
      BY <1>1
    <3>2. \A k : k \in Headers(s)' <=> k \in Headers(s)
      BY <1>1, <1>2
    <3> QED
      BY <3>1, <3>2 DEF ObjectsOK
  <2> QED
    BY <2>1, <2>2 DEF ObjectsOK
<1>5. PointersOK'
  <2> SUFFICES ASSUME NEW s \in Spaces, NEW j \in Headers(s)', HasPointers(s, j)',
                      NEW i \in j + 1 .. j + Size(s, j)', NEW u, u = mem'[s][i], IsPtr(u)
               PROVE  PointsToObject(u)' /\ SpaceOf(u) >= s
    BY DEF PointersOK
  <2>1. /\ Size(s, j)' = Size(s, j) /\ mem'[s] = mem[s]
        /\ j \in Headers(s) /\ mem[s][j] # ZeroHeader /\ s \notin E
    BY <1>1
  <2>2. HasPointers(s, j) /\ u = mem[s][i] /\ i \in j + 1 .. j + Size(s, j)
    BY <2>1 DEF HasPointers
  <2>3. PointsToObject(u) /\ SpaceOf(u) \notin E /\ SpaceOf(u) >= s
    BY <2>1, <2>2 DEF PointersOK, PointsOutside
  <2> QED
    BY <1>3, <2>3
<1>6. RootsOutside(E) /\ UNCHANGED <<fi, args>> => RootsPoint'
  <2> SUFFICES ASSUME RootsOutside(E), UNCHANGED <<fi, args>>,
                      NEW k \in DOMAIN fi.roots, NEW u, u = args[fi.roots[k]], IsPtr(u)
               PROVE  PointsToObject(u)'
    BY DEF RootsPoint
  <2> QED
    BY <1>3 DEF RootsOutside
<1> QED
  BY <1>1, <1>4, <1>5, <1>6

\* Outside a copy, nothing points into a space without objects.
LEMMA OutsideEmpty ==
    ASSUME HeapInv, pc # "copying", NEW E, \A s \in Spaces : s \in E => NoObjects(s)
    PROVE  PointsOutside(E) /\ RootsOutside(E)
<1>1. ASSUME NEW v, PointsToObject(v) PROVE SpaceOf(v) \notin E
  BY <1>1 DEF PointsToObject, NoObjects
<1>2. \A s \in Spaces : \A j \in Headers(s) : mem[s][j] # ZeroHeader
  BY DEF HeapInv, ObjectsOK
<1>3. ASSUME NEW s \in Spaces, NEW j \in Headers(s), HasPointers(s, j),
             NEW i \in j + 1 .. j + Size(s, j), IsPtr(mem[s][i])
      PROVE  SpaceOf(mem[s][i]) \notin E /\ SpaceOf(mem[s][i]) >= s
  BY <1>1, <1>3 DEF HeapInv, PointersOK, ToBeForwarded
<1>4. RootsOutside(E)
  BY <1>1 DEF HeapInv, RootsOK, RootsOutside
<1> QED
  BY <1>2, <1>3, <1>4 DEF PointsOutside

\* When do_generation is done, nothing points into the from-space.
LEMMA OutsideFrom ==
    ASSUME HeapInv, Bookkeeping, pc = "copying", calls = <<>>, scan >= next[copy.to]
    PROVE  PointsOutside(0 .. copy.from) /\ RootsOutside(0 .. copy.from)
<1> DEFINE f == copy.from
           t == copy.to
           E == 0 .. f
<1>1. /\ CopyContext /\ f \in Spaces /\ f \in Nat /\ t \in Spaces /\ f < t
      /\ Spaces \subseteq Nat
  BY Context, SpaceNumbers DEF CopyContext, CopySpaces
<1>2. \A s \in Spaces : s < f => NoObjects(s)
  BY <1>1 DEF CopyContext, CopySpaces
<1>3. Due = {}
  BY DEF Due, ToSet
<1>4. ASSUME NEW v, PointsToObject(v) PROVE SpaceOf(v) \in Nat /\ SpaceOf(v) >= f
  <2>1. PICK x \in Spaces : x = SpaceOf(v) /\ Headers(x) # {}
    BY <1>4 DEF PointsToObject
  <2>2. ~ (x < f) /\ x \in Nat
    BY <1>1, <1>2, <2>1 DEF NoObjects
  <2>3. x >= f
    BY <1>1, <2>2
  <2> QED
    BY <2>1, <2>2, <2>3
<1>5. ASSUME NEW s \in Spaces, NEW j \in Headers(s), s \notin E PROVE mem[s][j] # ZeroHeader
  BY <1>1, <1>5 DEF CopyContext, ObjectsOK
<1>6. ASSUME NEW s \in Spaces, NEW j \in Headers(s), HasPointers(s, j), s \notin E,
             NEW i \in j + 1 .. j + Size(s, j), IsPtr(mem[s][i])
      PROVE  SpaceOf(mem[s][i]) \notin E /\ SpaceOf(mem[s][i]) >= s
  <2>1. s \in Nat /\ s > f
    BY <1>1, <1>6
  <2>2. PointsToObject(mem[s][i]) /\ (SpaceOf(mem[s][i]) >= s \/ ToBeForwarded(s, i))
    BY <1>1, <1>6 DEF CopyContext, PointersOK
  <2>3. ~ ToBeForwarded(s, i)
    <3>1. SUFFICES ASSUME s = t, i > scan PROVE FALSE
      BY <1>3 DEF ToBeForwarded
    <3>2. j \in Nat /\ Size(t, j) \in Nat /\ j + Size(t, j) <= next[t] /\ next[t] \in Nat
          /\ scan \in Nat
      BY <1>1, <3>1, ToSpaceIndex, WordIndex DEF CopyContext, CopyWalk
    <3>3. i <= j + Size(t, j)
      BY <3>1, <3>2
    <3> QED
      BY <3>1, <3>2, <3>3
  <2>4. SpaceOf(mem[s][i]) \in Nat
    BY <1>4, <2>2
  <2> QED
    BY <1>1, <2>1, <2>2, <2>3, <2>4
<1>7. RootsOutside(E)
  <2> SUFFICES ASSUME NEW k \in DOMAIN fi.roots, IsPtr(args[fi.roots[k]])
               PROVE  PointsToObject(args[fi.roots[k]]) /\ SpaceOf(args[fi.roots[k]]) \notin E
    BY DEF RootsOutside
  <2>1. PointsToObject(args[fi.roots[k]]) /\ SpaceOf(args[fi.roots[k]]) # f
    BY <1>1, <1>3 DEF CopyContext, RootsOK
  <2> QED
    BY <1>1, <1>4, <2>1
<1> QED
  BY <1>5, <1>6, <1>7 DEF PointsOutside

-----------------------------------------------------------------------------
(* The bookkeeping follows: every step is a step of Generations, or none.   *)

LEMMA GenerationsStutter ==
    ASSUME UNCHANGED <<HeapState, SpaceSizes, NextSettled, alloc, limit, budget,
                       Requested, gen, GenerationsPc>>
    PROVE  [GN!Next]_(GN!vars)
<1>1. UNCHANGED GN!vars
  BY SMT DEF GN!vars
<1> QED
  BY <1>1

\* The spaces keep their sizes, and the next pointers outside a copy.
SameSizes == \A s \in Spaces : IsSeq(mem'[s]) /\ Len(mem'[s]) = Len(mem[s])

LEMMA SizesKept ==
    ASSUME TypesOK, SameSizes
    PROVE  SpaceSizes' = SpaceSizes /\ HeapState' = HeapState
<1>1. SpaceSizes' = SpaceSizes
  BY DEF SameSizes, SpaceSizes, Spaces
<1>2. mem'[0] = <<>> <=> mem[0] = <<>>
  BY LengthZero, SpaceNumbers DEF SameSizes, TypesOK
<1> QED
  BY <1>1, <1>2 DEF HeapState, HeapExists

LEMMA EnterSimulation ==
    ASSUME TypesOK, AnyEnter PROVE [GN!Next]_(GN!vars)
<1>1. PICK n \in 0 .. MaxAllocs : n = fi'.num_allocs
  BY DEF AnyEnter, MaxAllocs
<1>2. UNCHANGED <<SpaceSizes, HeapState>> /\ NextSettled' = NextSettled
  BY DEF AnyEnter, Check, heapVars, copyVars, SpaceSizes, HeapState, HeapExists, NextSettled
<1>3. /\ GenerationsPc = "mutator" /\ HeapState # "freed" /\ Requested' = n
      /\ UNCHANGED <<alloc, limit, gen>>
      /\ IF alloc <= limit /\ limit - alloc < n
         THEN GenerationsPc' = "garbage_collect" /\ UNCHANGED budget
         ELSE GenerationsPc' = "mutator" /\ budget' = n
  BY <1>1 DEF AnyEnter, Check, heapVars, GenerationsPc, HeapState, Requested
<1>4. GN!Check(n)
  BY <1>2, <1>3, SMT DEF GN!Check, GN!Short
<1> QED
  BY <1>4, SMT DEF GN!Next, GN!Mutate

LEMMA BodySimulation ==
    ASSUME TypesOK, Bookkeeping, AnyBody PROVE [GN!Next]_(GN!vars)
<1>1. /\ GenerationsPc = "mutator" /\ GenerationsPc' = "mutator"
      /\ UNCHANGED <<Requested, NextSettled, limit, gen>>
  BY DEF AnyBody, copyVars, GenerationsPc, Requested, NextSettled
<1>2. CASE UNCHANGED <<mem, alloc, budget>>
  <2>1. UNCHANGED <<SpaceSizes, HeapState>>
    BY <1>2 DEF SpaceSizes, HeapState, HeapExists
  <2> QED
    BY <1>1, <1>2, <2>1, GenerationsStutter
<1>3. CASE MakesObject /\ budget > 1
  <2>1. PICK sz : /\ sz \in 1 .. budget - 1 /\ alloc' = alloc + 1 + sz
                  /\ budget' = budget - (1 + sz)
    BY <1>3 DEF MakesObject
  <2>2. PICK w \in 1 .. MaxAllocs : /\ w = 1 + sz /\ w <= budget
                                    /\ alloc' = alloc + w /\ budget' = budget - w
    <3>1. /\ budget \in Nat /\ alloc \in Nat /\ MaxAllocs \in Nat /\ budget <= MaxAllocs
      BY SpaceNumbers DEF Bookkeeping
    <3> QED
      BY <2>1, <3>1
  <2>3. SameSizes
    <3>1. PICK w0 : /\ DOMAIN w0 = DOMAIN mem[0] /\ w0 = [k \in DOMAIN mem[0] |-> w0[k]]
                    /\ mem' = [mem EXCEPT ![0] = w0]
      BY <1>3 DEF MakesObject
    <3>2. MemoryOK(mem) /\ 0 \in Spaces /\ Len(mem[0]) \in Nat /\ DOMAIN mem[0] = 1 .. Len(mem[0])
      BY WordIndex, SpaceNumbers
    <3>3. IsSeq(w0) /\ Len(w0) = Len(mem[0])
      BY <3>1, <3>2, SeqOfFunction
    <3>4. PICK r : r = mem' /\ r = [mem EXCEPT ![0] = w0]
      BY <3>1
    <3>5. SpaceReplaced(mem, 0, w0, r)
      BY <3>2, <3>3, <3>4, ReplaceOne
    <3> QED
      BY <3>2, <3>3, <3>4, <3>5 DEF SameSizes, MemoryOK, SpaceReplaced
  <2>4. GN!Allocate(w)
    BY <1>1, <2>2, <2>3, SizesKept, SMT DEF GN!Allocate
  <2> QED
    BY <2>2, <2>4, SMT DEF GN!Next, GN!Mutate
<1> QED
  BY <1>2, <1>3 DEF AnyBody

LEMMA ExportSimulation ==
    ASSUME TypesOK, AnyExport PROVE [GN!Next]_(GN!vars)
<1>1. CASE ExportUnboxed
  <2>1. UNCHANGED <<SpaceSizes, HeapState, NextSettled, Requested, GenerationsPc, alloc,
                    limit, budget, gen>>
    BY <1>1 DEF ExportUnboxed, heapVars, copyVars, SpaceSizes, HeapState, HeapExists,
                NextSettled, Requested, GenerationsPc
  <2> QED
    BY <2>1, GenerationsStutter
<1>2. CASE HeapExists /\ ExportStart(fake_fi)
  <2>1. UNCHANGED <<mem, SpaceSizes, HeapState, NextSettled, alloc, limit>>
        /\ Requested' = 0 /\ gen' = 0 /\ budget' = 0
    BY <1>2 DEF ExportStart, copyVars, SpaceSizes, HeapState, HeapExists, NextSettled,
                Requested, fake_fi
  <2>2. GenerationsPc = "mutator" /\ HeapState = "live"
        /\ GenerationsPc' = IF SpaceSizes[0] = limit THEN "collect_all" ELSE "assert_failed"
    <3>1. SpaceSizes[0] = Len(mem[0])
      BY CollectorAssumption DEF SpaceSizes, Gens
    <3> QED
      BY <1>2, <2>1, <3>1 DEF ExportStart, GenerationsPc, HeapState
  <2>3. GN!ExportStart
    BY <2>1, <2>2, SMT DEF GN!ExportStart
  <2> QED
    BY <2>3, SMT DEF GN!Next, GN!Mutate
<1> QED
  BY <1>1, <1>2 DEF AnyExport

\* Between two programs, and while do_generation runs, nothing changes.
LEMMA QuietSimulation ==
    ASSUME TypesOK, AnyRestart \/ AnyFinish \/ ScanObject \/ ForwardOther
    PROVE  [GN!Next]_(GN!vars)
<1>1. UNCHANGED <<mem, next, alloc, limit, budget, fi, gen, copy>>
  BY DEF AnyRestart, AnyFinish, ScanObject, ForwardOther, heapVars, copyVars
<1>2. \/ pc' = pc
      \/ pc \in {"exported", "mutator"} /\ pc' \in {"entry", "finished"}
  BY DEF AnyRestart, AnyFinish, ScanObject, ForwardOther
<1>3. NextSettled' = NextSettled
  BY <1>1, <1>2 DEF NextSettled
<1>4. GenerationsPc' = GenerationsPc
  <2>1. CASE pc' = pc
    BY <1>1, <2>1 DEF GenerationsPc
  <2>2. CASE pc \in {"exported", "mutator"} /\ pc' \in {"entry", "finished"}
    <3>1. GenerationsPc = "mutator"
      BY <2>2 DEF GenerationsPc
    <3>2. GenerationsPc' = "mutator"
      BY <2>2 DEF GenerationsPc
    <3> QED
      BY <3>1, <3>2
  <2> QED
    BY <1>2, <2>1, <2>2
<1> QED
  BY <1>1, <1>3, <1>4, GenerationsStutter DEF SpaceSizes, HeapState, HeapExists, Requested

\* The block that export returned is freed; the rest stays as it is.
LEMMA BlockFreed ==
    ASSUME TypesOK, AnyFree
    PROVE  /\ MemoryOK(mem') /\ mem'[ValueSp] = <<>> /\ next'[ValueSp] = 0
           /\ next' \in [Spaces -> Nat] /\ ValueSp \in Spaces /\ result' = Unused
           /\ \A s \in Spaces : s # ValueSp => mem'[s] = mem[s] /\ next'[s] = next[s]
           /\ pc = "mutator" /\ pc' = "mutator"
           /\ UNCHANGED <<args, alloc, limit, fi, budget, gen, copy>>
<1>1. /\ mem' = [mem EXCEPT ![ValueSp] = <<>>] /\ next' = [next EXCEPT ![ValueSp] = 0]
      /\ pc = "mutator" /\ result' = Unused
      /\ UNCHANGED <<args, alloc, limit, fi, budget, pc, gen, copy>>
  BY DEF AnyFree, copyVars
<1>2. ValueSp \in Spaces /\ IsSeq(<<>>)
  BY DEF Spaces, IsSeq
<1>3. MemoryOK(mem) /\ next \in [Spaces -> Nat]
  BY DEF TypesOK, MemoryOK
<1>4. SpaceReplaced(mem, ValueSp, <<>>, mem')
  BY <1>1, <1>2, <1>3, ReplaceOne
<1> QED
  BY <1>1, <1>2, <1>3, <1>4 DEF SpaceReplaced

LEMMA FreeSimulation ==
    ASSUME TypesOK, AnyFree PROVE [GN!Next]_(GN!vars)
<1>1. \A s \in Gens : s \in Spaces /\ s # ValueSp
  BY SpaceNumbers DEF Gens
<1>2. 0 \in Gens
  BY SpaceNumbers DEF Gens
<1>3. SpaceSizes' = SpaceSizes /\ HeapState' = HeapState
  BY <1>1, <1>2, BlockFreed DEF SpaceSizes, HeapState, HeapExists
<1>4. NextSettled' = NextSettled /\ GenerationsPc' = GenerationsPc /\ Requested' = Requested
  BY <1>1, BlockFreed DEF NextSettled, GenerationsPc, Requested
<1> QED
  BY <1>3, <1>4, BlockFreed, GenerationsStutter

LEMMA CopySameSizes ==
    ASSUME HeapInv, Bookkeeping, DoGeneration PROVE SameSizes
<1>1. CopyContext
  BY Context DEF DoGeneration, ForwardOther, ForwardAgain, ForwardCopy, ScanObject, Copying
<1>2. CASE ForwardOther \/ ScanObject
  BY <1>1, <1>2 DEF ForwardOther, ScanObject, heapVars, SameSizes, CopyContext, TypesOK
<1>3. CASE ForwardAgain
  <2>1. PICK loc, new : loc = Head(calls).p /\ mem' = StoreMem(mem, loc, new) /\ calls # <<>>
    BY <1>3 DEF ForwardAgain, Copying
  <2>2. MemoryOK(mem) /\ SameShape(mem, mem)
    BY <1>1 DEF CopyContext, TypesOK, MemoryOK, SameShape
  <2>3. CallStored(mem, loc, new, StoreMem(mem, loc, new), StoreArgs(loc, new))
    BY <1>1, <2>1, <2>2, StoreAtCall
  <2> QED
    BY <2>1, <2>3 DEF CallStored, MemoryOK, SameShape, SameSizes
<1>4. CASE ForwardCopy
  <2>1. PICK f, t, loc : f = copy.from /\ t = copy.to /\ loc = Head(calls).p
    OBVIOUS
  <2>2. PICK j : j = IndexOf(Read(loc)) - 1
    OBVIOUS
  <2>3. PICK sz, h : sz = Size(f, j) /\ h = next[t] + 1
    OBVIOUS
  <2>4. CopyMade(f, t, loc, j, sz, h)
    BY <1>4, <2>1, <2>2, <2>3, CopyIsMade
  <2> QED
    BY <2>4 DEF CopyMade, SameSizes
<1> QED
  BY <1>2, <1>3, <1>4 DEF DoGeneration

LEMMA ForwardSimulation ==
    ASSUME HeapInv, Bookkeeping, ForwardAgain \/ ForwardCopy
    PROVE  [GN!Next]_(GN!vars)
<1>1. /\ CopyContext /\ calls # <<>> /\ pc = "copying" /\ MemoryOK(mem) /\ TypesOK
      /\ UNCHANGED <<alloc, limit, budget, fi, pc, gen, copy>>
  <2>1. /\ calls # <<>> /\ pc = "copying"
        /\ UNCHANGED <<alloc, limit, budget, fi, pc, gen, copy>>
    BY DEF ForwardAgain, ForwardCopy, Copying
  <2>2. CopyContext
    BY <2>1, Context
  <2> QED
    BY <2>1, <2>2 DEF CopyContext, TypesOK, MemoryOK
<1>2. SameSizes
  BY CopySameSizes DEF DoGeneration
<1>3. \A s \in Gens : s # copy.to => next'[s] = next[s]
  BY <1>1 DEF ForwardAgain, ForwardCopy, TypesOK, Spaces
<1>4. NextSettled' = NextSettled
  BY <1>1, <1>3 DEF NextSettled
<1>5. GenerationsPc' = GenerationsPc /\ Requested' = Requested
  BY <1>1 DEF GenerationsPc, Requested
<1> QED
  BY <1>1, <1>2, <1>4, <1>5, SizesKept, GenerationsStutter

\* What do_generation asserts: the space copied to can take all of the other.
LEMMA RoomToCollect ==
    ASSUME TypesOK, Bookkeeping, pc \in {"collect", "collect_all"}, MoreGenerations
    PROVE  /\ gen \in Gens /\ gen + 1 \in Gens
           /\ next[gen] <= Len(mem[gen + 1]) - next[gen + 1]
           /\ InUse(gen) <= Len(mem[gen + 1]) - next[gen + 1]
<1> USE SpaceNumbers
<1>1. gen \in Gens /\ gen + 1 \in Gens /\ gen \in 0 .. MAX_SPACES - 2
      /\ gen \in Spaces /\ gen + 1 \in Spaces
  BY DEF Bookkeeping, MoreGenerations, Gens
<1>2. SpaceSizes[gen + 1] = Len(mem[gen + 1]) /\ SpaceSizes[gen] = Len(mem[gen])
      /\ NextSettled[gen] = next[gen] /\ NextSettled[gen + 1] = next[gen + 1]
      /\ SpaceSizes[0] = Len(mem[0]) /\ NextSettled[0] = next[0]
  <2>1. 0 \in Gens /\ pc # "copying"
    BY DEF Gens
  <2>2. \A s \in Gens : SpaceSizes[s] = Len(mem[s]) /\ NextSettled[s] = next[s]
    BY <2>1 DEF SpaceSizes, NextSettled
  <2> QED
    BY <1>1, <2>1, <2>2
<1>3. SpaceSizes[gen + 1] > 0
  <2>1. Len(mem[gen + 1]) \in Nat
    BY <1>1, WordIndex
  <2>2. Len(mem[gen + 1]) # 0
    BY <1>1, LengthZero DEF TypesOK, MoreGenerations, Exists
  <2> QED
    BY <1>2, <2>1, <2>2
<1>4. GenerationsPc = pc
  BY DEF GenerationsPc
<1>5. SpaceSizes[gen] <= SpaceSizes[gen + 1] - NextSettled[gen + 1]
      /\ NextSettled[gen] <= SpaceSizes[gen] /\ limit = SpaceSizes[0]
      /\ alloc + budget <= limit /\ alloc \in Nat /\ budget \in Nat
  BY <1>1, <1>3, <1>4 DEF Bookkeeping, GP!Running
<1>6. next[gen] \in Nat /\ next[gen + 1] \in Nat /\ Len(mem[gen]) \in Nat
      /\ Len(mem[gen + 1]) \in Nat
  BY <1>1, WordIndex DEF TypesOK
<1>7. alloc <= limit
  <2>1. limit \in Nat
    BY DEF Bookkeeping
  <2> QED
    BY <1>5, <2>1
<1>8. InUse(gen) <= Len(mem[gen])
  BY <1>2, <1>5, <1>7 DEF InUse
<1>9. InUse(gen) \in Nat
  BY <1>1, InUseType
<1>10. next[gen] <= Len(mem[gen]) /\ Len(mem[gen]) <= Len(mem[gen + 1]) - next[gen + 1]
  BY <1>2, <1>5
<1>11. \A a, b, c, d \in Nat : a <= b /\ b <= c - d => a <= c - d
  OBVIOUS
<1>12. next[gen] <= Len(mem[gen + 1]) - next[gen + 1]
  BY <1>6, <1>10, <1>11
<1>13. InUse(gen) <= Len(mem[gen + 1]) - next[gen + 1]
  BY <1>6, <1>8, <1>9, <1>10, <1>11
<1> QED
  BY <1>1, <1>12, <1>13

LEMMA StartSimulation ==
    ASSUME TypesOK, Bookkeeping, CollectGeneration \/ CollectAllGeneration
    PROVE  [GN!Next]_(GN!vars)
<1>1. /\ pc \in {"collect", "collect_all"} /\ MoreGenerations
      /\ UNCHANGED <<mem, next, alloc, limit, budget, fi, gen>>
      /\ StartGeneration(gen, gen + 1, fi.roots,
             IF pc = "collect" THEN "garbage_collect" ELSE "garbage_collect_all")
  BY DEF CollectGeneration, CollectAllGeneration, MoreGenerations
<1>2. /\ pc' = "copying" /\ copy'.to = gen + 1 /\ copy'.p = next[gen + 1]
      /\ copy'.caller = IF pc = "collect" THEN "garbage_collect" ELSE "garbage_collect_all"
  BY <1>1, RoomToCollect DEF StartGeneration
<1>3. NextSettled' = NextSettled
  BY <1>1, <1>2 DEF NextSettled
<1>4. GenerationsPc' = GenerationsPc
  BY <1>1, <1>2 DEF GenerationsPc
<1> QED
  BY <1>1, <1>3, <1>4, GenerationsStutter DEF SpaceSizes, HeapState, HeapExists, Requested

\* What do_generation has copied is at most what the from-space held.
LEMMA CopiedFits ==
    ASSUME CopyContext
    PROVE  next[copy.to] - copy.p \in 0 .. InUse(copy.from)
<1>1. PICK n, c : n = InUse(copy.from) /\ c = Cardinality(Moved)
  OBVIOUS
<1>2. n \in Nat
  BY <1>1, InUseType DEF CopyContext, CopySpaces
<1>3. IsFiniteSet(1 .. n) /\ Cardinality(1 .. n) = n
  <2>1. 1 \in Int /\ n \in Int
    BY <1>2
  <2> QED
    BY <1>2, <2>1, FS_Interval
<1>4. Moved \subseteq 1 .. n
  BY <1>1 DEF Moved
<1>5. IsFiniteSet(Moved) /\ c <= n
  BY <1>1, <1>3, <1>4, FS_Subset
<1>6. c \in Nat
  BY <1>1, <1>5, FS_CardinalityType
<1>7. c \in 0 .. n
  BY <1>2, <1>5, <1>6
<1> QED
  BY <1>1, <1>7 DEF CopyContext, CopyFits

\* The from-space is emptied and keeps its size.
LEMMA FromEmptied ==
    ASSUME CopyContext, EmptyFrom
    PROVE  /\ SameSizes /\ MemoryOK(mem')
           /\ \A s \in Spaces : s = copy.from => NoObjects(s)'
           /\ \A s \in Spaces : s # copy.from => mem'[s] = mem[s] /\ next'[s] = next[s]
           /\ next' \in [Spaces -> Nat] /\ next'[copy.from] = 0
<1>1. PICK f \in Spaces : f = copy.from
  BY DEF CopyContext, CopySpaces
<1>2. PICK n \in Nat : n = Len(mem[f])
  BY WordIndex DEF CopyContext
<1>3. PICK w : w = EmptySpace(n)
  OBVIOUS
<1>4. IsSeq(w) /\ Len(w) = n /\ DOMAIN w = 1 .. n /\ \A i \in 1 .. n : ~ IsHeader(w[i])
  BY <1>3, EmptySpaceWords
<1>5. PICK r : r = mem' /\ r = [mem EXCEPT ![f] = w]
  BY <1>1, <1>2, <1>3 DEF EmptyFrom
<1>6. MemoryOK(mem)
  BY DEF CopyContext, TypesOK, MemoryOK
<1>7. SpaceReplaced(mem, f, w, r)
  BY <1>4, <1>5, <1>6, ReplaceOne
<1>8. SameSizes
  BY <1>2, <1>4, <1>5, <1>6, <1>7 DEF SameSizes, MemoryOK, SpaceReplaced
<1>9. next' = [next EXCEPT ![f] = 0] /\ next \in [Spaces -> Nat]
  BY <1>1 DEF EmptyFrom, CopyContext, TypesOK
<1>10. \A k \in DOMAIN mem'[f] : ~ IsHeader(mem'[f][k])
  BY <1>4, <1>5, <1>7 DEF SpaceReplaced
<1>11. NoObjects(f)'
  BY <1>10 DEF NoObjects, Headers
<1>12. \A s \in Spaces : s = copy.from => NoObjects(s)'
  BY <1>1, <1>11
<1> QED
  BY <1>1, <1>5, <1>7, <1>8, <1>9, <1>12 DEF SpaceReplaced

LEMMA CollectedSimulation ==
    ASSUME HeapInv, Bookkeeping, GenerationCollected \/ GenerationCollectedAll
    PROVE  [GN!Next]_(GN!vars)
<1> USE SpaceNumbers
<1>1. /\ CopyContext /\ CopyPlan /\ TypesOK /\ EmptyFrom /\ pc = "copying"
      /\ copy.caller \in {"garbage_collect", "garbage_collect_all"} /\ UNCHANGED fi
  <2>1. /\ pc = "copying" /\ EmptyFrom /\ UNCHANGED fi
        /\ copy.caller \in {"garbage_collect", "garbage_collect_all"}
    BY DEF GenerationCollected, GenerationCollectedAll, GenerationCopied
  <2> QED
    BY <2>1, Context DEF HeapInv, CopyOK, CopyContext
<1>2. PICK g, t : g = gen /\ t = gen + 1
  OBVIOUS
<1>3. /\ copy.from = g /\ copy.to = t /\ g \in Gens /\ t \in Gens /\ t = g + 1 /\ g # t
      /\ g < MAX_SPACES - 1 /\ g \in Spaces /\ t \in Spaces /\ mem[t] # <<>>
      /\ g \in 0 .. MAX_SPACES - 2
  BY <1>1, <1>2 DEF CopyPlan, Bookkeeping, Gens, Exists
<1>4. PICK n \in Int, p \in Nat, x \in Nat : x = next[t] /\ p = copy.p /\ n = x - p
  <2>1. PICK p \in Nat, x \in Nat : x = next[t] /\ p = copy.p
    BY <1>1, <1>3 DEF CopyContext, CopyWalk, TypesOK
  <2>2. x - p \in Int
    OBVIOUS
  <2> QED
    BY <2>1, <2>2
<1>5. n \in 0 .. InUse(g)
  BY <1>1, <1>3, <1>4, CopiedFits
<1>6. /\ SpaceSizes' = SpaceSizes /\ HeapState' = HeapState
      /\ next' \in [Spaces -> Nat] /\ next'[g] = 0
      /\ \A s \in Spaces : s # g => next'[s] = next[s]
  BY <1>1, <1>3, FromEmptied, SizesKept
<1>7. pc' # "copying"
  BY DEF GenerationCollected, GenerationCollectedAll, Resume
<1>8. /\ NextSettled[t] = p /\ NextSettled' \in [Gens -> Nat]
      /\ \A s \in Gens : s # t => NextSettled[s] = next[s]
      /\ \A s \in Gens : NextSettled'[s] = next'[s]
  BY <1>1, <1>3, <1>4, <1>6, <1>7 DEF NextSettled, Spaces
<1>9. NextSettled' = [NextSettled EXCEPT ![g] = 0, ![t] = @ + n]
  <2>1. NextSettled'[t] = p + n
    <3>1. x = p + n
      BY <1>4
    <3> QED
      BY <1>3, <1>4, <1>6, <1>8, <3>1
  <2>2. NextSettled'[g] = 0 /\ NextSettled \in [Gens -> Nat]
    BY <1>3, <1>6, <1>8 DEF Bookkeeping
  <2>3. \A s \in Gens : s # g /\ s # t => NextSettled'[s] = NextSettled[s]
    BY <1>6, <1>8 DEF Spaces
  <2> QED
    BY <1>3, <1>8, <2>1, <2>2, <2>3
<1>10. SpaceSizes[t] > 0 /\ SpaceSizes[t] = Len(mem[t])
  <2>1. Len(mem[t]) \in Nat /\ Len(mem[t]) # 0
    BY <1>1, <1>3, WordIndex, LengthZero DEF TypesOK
  <2> QED
    BY <1>3, <2>1 DEF SpaceSizes
<1>11. /\ GenerationsPc \in {"collect", "collect_all"}
       /\ GenerationsPc = "collect" <=> copy.caller = "garbage_collect"
  BY <1>1 DEF GenerationsPc
<1>12. NextSettled[g] <= SpaceSizes[t] - NextSettled[t]
  <2>1. /\ SpaceSizes[g] <= SpaceSizes[g + 1] - NextSettled[g + 1]
        /\ NextSettled[g] <= SpaceSizes[g]
        /\ NextSettled \in [Gens -> Nat] /\ SpaceSizes \in [Gens -> Nat]
    BY <1>2, <1>3, <1>10, <1>11 DEF Bookkeeping
  <2>2. NextSettled[g] \in Nat /\ SpaceSizes[g] \in Nat /\ SpaceSizes[t] \in Nat
        /\ NextSettled[t] \in Nat
    BY <1>3, <2>1
  <2> QED
    BY <1>3, <2>1, <2>2
<1>13. InUse(g) = IF g = 0 THEN alloc ELSE NextSettled[g]
  BY <1>3, <1>8 DEF InUse
<1>14. GN!RoomForAll(g, t) /\ GN!DoGeneration(g, t)
  <2>1. GN!RoomForAll(g, t)
    BY <1>12, SMT DEF GN!RoomForAll, GN!Free
  <2>2. GN!InUse(g) = InUse(g)
    BY <1>13, SMT DEF GN!InUse
  <2>3. n \in 0 .. GN!InUse(g)
    BY <1>5, <2>2
  <2>4. GN!DoGeneration(g, t)
    <3>1. \E survivors \in 0 .. GN!InUse(g) :
              NextSettled' = [NextSettled EXCEPT ![g] = 0, ![t] = @ + survivors]
      BY <1>9, <2>3
    <3> QED
      BY <3>1, Zenon DEF GN!DoGeneration
  <2> QED
    BY <2>1, <2>4
<1>15. CASE GenerationCollected
  <2>1. /\ copy.caller = "garbage_collect"
        /\ IF Len(mem[g]) <= Len(mem[t]) - next[t]
           THEN Resume /\ gen' = gen
           ELSE gen' = t /\ pc' = "collect" /\ UNCHANGED <<alloc, limit, budget>>
    BY <1>2, <1>15 DEF GenerationCollected, GenerationCopied, Free
  <2>2. Len(mem[g]) = SpaceSizes[g] /\ next[t] = NextSettled'[t]
        /\ SpaceSizes'[0] = Len(mem'[0])
    BY <1>3, <1>6, <1>8 DEF SpaceSizes, Gens
  <2>3. Resume => IF SpaceSizes'[0] < Requested
                  THEN GenerationsPc' = "nursery_too_small" /\ UNCHANGED <<alloc, limit, budget>>
                  ELSE GenerationsPc' = "mutator" /\ alloc' = 0
                       /\ limit' = SpaceSizes'[0] /\ budget' = Requested
    BY <2>2 DEF Resume, GenerationsPc, Requested
  <2>4. GN!CollectGeneration
    <3>1. pc' = "collect" => GenerationsPc' = "collect"
      BY DEF GenerationsPc
    <3>2. Requested' = Requested /\ GenerationsPc = "collect"
      BY <1>1, <1>11, <2>1 DEF Requested
    <3> QED
      BY <1>2, <1>3, <1>6, <1>10, <1>14, <2>1, <2>2, <2>3, <3>1, <3>2, SMT
         DEF GN!CollectGeneration, GN!Exists, GN!Resume
  <2> QED
    BY <2>4, SMT DEF GN!Next, GN!Collect
<1>16. CASE GenerationCollectedAll
  <2>1. /\ copy.caller = "garbage_collect_all" /\ gen' = t /\ pc' = "collect_all"
        /\ UNCHANGED <<alloc, limit, budget>>
    BY <1>2, <1>16 DEF GenerationCollectedAll, GenerationCopied
  <2>2. Requested' = Requested /\ GenerationsPc = "collect_all" /\ GenerationsPc' = "collect_all"
    BY <1>1, <2>1 DEF Requested, GenerationsPc
  <2>3. GN!CollectAllGeneration
    BY <1>2, <1>3, <1>6, <1>10, <1>14, <2>1, <2>2, SMT
       DEF GN!CollectAllGeneration, GN!MoreGenerations, GN!Exists
  <2> QED
    BY <2>3, SMT DEF GN!Next, GN!Collect
<1> QED
  BY <1>15, <1>16

\* create_space.
SpaceMade(s, n) ==
    /\ MemoryOK(mem') /\ Len(mem'[s]) = n /\ NoObjects(s)'
    /\ \A z \in Spaces : z # s => mem'[z] = mem[z]

LEMMA MakeSpace ==
    ASSUME TypesOK, NEW s \in Spaces, NEW n \in Nat, mem' = [mem EXCEPT ![s] = EmptySpace(n)]
    PROVE  SpaceMade(s, n)
<1>1. PICK w : w = EmptySpace(n)
  OBVIOUS
<1>2. IsSeq(w) /\ Len(w) = n /\ DOMAIN w = 1 .. n /\ \A i \in 1 .. n : ~ IsHeader(w[i])
  BY <1>1, EmptySpaceWords
<1>3. PICK r : r = mem' /\ r = [mem EXCEPT ![s] = w]
  BY <1>1
<1>4. SpaceReplaced(mem, s, w, r)
  BY <1>2, <1>3, ReplaceOne DEF TypesOK, MemoryOK
<1>5. NoObjects(s)'
  BY <1>2, <1>3, <1>4 DEF NoObjects, Headers, SpaceReplaced
<1> QED
  BY <1>2, <1>3, <1>4, <1>5 DEF SpaceReplaced, SpaceMade

LEMMA SettledOutsideCopy ==
    ASSUME pc # "copying" PROVE NextSettled = [i \in Gens |-> next[i]]
  BY DEF NextSettled

LEMMA SettledAfter ==
    ASSUME pc' # "copying" PROVE NextSettled' = [i \in Gens |-> next'[i]]
  BY DEF NextSettled

LEMMA CreateHeapSimulation ==
    ASSUME TypesOK, Bookkeeping, CreateHeap PROVE [GN!Next]_(GN!vars)
<1> USE SpaceNumbers
<1>1. /\ pc = "garbage_collect" /\ mem[0] = <<>> /\ Resume /\ UNCHANGED <<next, fi, gen>>
      /\ mem' = [mem EXCEPT ![0] = EmptySpace(NURSERY_SIZE)]
      /\ pc' # "copying" /\ NURSERY_SIZE \in Nat \ {0}
  BY CollectorAssumption DEF CreateHeap, HeapExists, Resume
<1>2. SpaceMade(0, NURSERY_SIZE)
  <2>1. PICK s \in Spaces, n \in Nat : s = 0 /\ n = NURSERY_SIZE
    BY <1>1
  <2>2. SpaceMade(s, n)
    BY <1>1, <2>1, MakeSpace
  <2> QED
    BY <2>1, <2>2
<1>3. HeapState = "null" /\ HeapState' = "live"
  <2>1. mem'[0] # <<>>
    <3>1. IsSeq(mem'[0]) /\ Len(mem'[0]) # 0
      BY <1>1, <1>2 DEF SpaceMade, MemoryOK
    <3> QED
      BY <3>1, LengthZero
  <2> QED
    BY <1>1, <2>1 DEF HeapState, HeapExists
<1>4. \A i \in Gens : SpaceSizes[i] = 0 /\ NextSettled[i] = 0 /\ next[i] = 0
  <2>1. ASSUME NEW i \in Gens PROVE SpaceSizes[i] = 0 /\ NextSettled[i] = 0
    BY <1>3 DEF Bookkeeping
  <2> QED
    BY <1>1, <2>1 DEF NextSettled
<1>5. SpaceSizes' = [i \in Gens |-> IF i = 0 THEN NURSERY_SIZE ELSE 0]
  <2>1. \A i \in Gens : i # 0 => Len(mem'[i]) = 0
    BY <1>2, <1>4 DEF SpaceMade, SpaceSizes, Spaces
  <2> QED
    BY <1>2, <2>1 DEF SpaceSizes, SpaceMade
<1>6. NextSettled' = [i \in Gens |-> 0]
  BY <1>1, <1>4, SettledAfter
<1>7. SpaceSizes'[0] = Len(mem'[0])
  BY DEF SpaceSizes, Gens
<1>8. /\ Requested' = Requested /\ GenerationsPc = "garbage_collect"
      /\ IF SpaceSizes'[0] < Requested
         THEN GenerationsPc' = "nursery_too_small" /\ UNCHANGED <<alloc, limit, budget>>
         ELSE GenerationsPc' = "mutator" /\ alloc' = 0
              /\ limit' = SpaceSizes'[0] /\ budget' = Requested
  BY <1>1, <1>7 DEF Resume, GenerationsPc, Requested
<1>9. GN!CreateHeap
  BY <1>1, <1>3, <1>5, <1>6, <1>8, SMT
     DEF GN!CreateHeap, GN!Resume, GN!NurseryOnly, GN!AllEmpty, GN!Gens, Gens
<1> QED
  BY <1>9, SMT DEF GN!Next, GN!Collect

LEMMA StartCollectionSimulation ==
    ASSUME TypesOK, Bookkeeping, StartCollection PROVE [GN!Next]_(GN!vars)
<1> USE SpaceNumbers
<1>1. /\ pc = "garbage_collect" /\ HeapExists /\ pc' # "copying"
      /\ next' = [next EXCEPT ![0] = alloc] /\ gen' = 0
      /\ pc' = IF Len(mem[0]) = limit THEN "collect" ELSE "assert_failed"
      /\ UNCHANGED <<mem, alloc, limit, budget, fi>>
  BY DEF StartCollection
<1>2. NextSettled' = [NextSettled EXCEPT ![0] = alloc]
  <2>1. /\ NextSettled' = [i \in Gens |-> next'[i]]
        /\ NextSettled = [i \in Gens |-> next[i]]
    BY <1>1, SettledAfter, SettledOutsideCopy
  <2>2. \A i \in Gens : next'[i] = IF i = 0 THEN alloc ELSE next[i]
    BY <1>1 DEF TypesOK, Spaces
  <2> QED
    BY <2>1, <2>2
<1>3. /\ HeapState = "live" /\ GenerationsPc = "garbage_collect"
      /\ GenerationsPc' = IF SpaceSizes[0] = limit THEN "collect" ELSE "assert_failed"
  <2>1. SpaceSizes[0] = Len(mem[0])
    BY DEF SpaceSizes, Gens
  <2> QED
    BY <1>1, <2>1 DEF HeapState, GenerationsPc
<1>4. UNCHANGED <<HeapState, SpaceSizes, Requested>>
  BY <1>1 DEF HeapState, HeapExists, SpaceSizes, Requested
<1>5. GN!StartCollection
  BY <1>1, <1>2, <1>3, <1>4, SMT DEF GN!StartCollection
<1> QED
  BY <1>5, SMT DEF GN!Next, GN!Collect

LEMMA CreateNextSpaceSimulation ==
    ASSUME TypesOK, Bookkeeping, CreateNextSpace PROVE [GN!Next]_(GN!vars)
<1> USE SpaceNumbers
<1>1. /\ pc = "collect" /\ gen < MAX_SPACES - 1 /\ mem[gen + 1] = <<>>
      /\ mem' = [mem EXCEPT ![gen + 1] = EmptySpace(RATIO * Len(mem[gen]))]
      /\ UNCHANGED <<next, alloc, limit, fi, budget, pc, gen, copy>>
  BY DEF CreateNextSpace, Exists, copyVars
<1>2. PICK g, t, n : g = gen /\ t = gen + 1 /\ n = RATIO * Len(mem[g])
  OBVIOUS
<1>3. g \in Gens /\ t \in Gens /\ g \in Spaces /\ t \in Spaces /\ t # 0
  BY <1>1, <1>2 DEF Bookkeeping, Gens
<1>4. n \in Nat
  <2>1. Len(mem[g]) \in Nat /\ RATIO \in Nat
    BY <1>3, WordIndex, CollectorAssumption
  <2> QED
    BY <1>2, <2>1
<1>5. SpaceMade(t, n)
  BY <1>1, <1>2, <1>3, <1>4, MakeSpace
<1>6. SpaceSizes' = [SpaceSizes EXCEPT ![t] = RATIO * SpaceSizes[g]]
  <2>1. SpaceSizes'[t] = RATIO * SpaceSizes[g] /\ \A i \in Gens : i # t => SpaceSizes'[i] = SpaceSizes[i]
    BY <1>2, <1>3, <1>5 DEF SpaceSizes, SpaceMade, Spaces
  <2>2. SpaceSizes' = [i \in Gens |-> SpaceSizes'[i]] /\ DOMAIN SpaceSizes = Gens
    BY DEF SpaceSizes
  <2> QED
    BY <1>3, <2>1, <2>2
<1>7. /\ UNCHANGED <<HeapState, NextSettled, Requested, GenerationsPc>>
      /\ GenerationsPc = "collect"
  <2>1. mem'[0] = mem[0]
    BY <1>3, <1>5 DEF SpaceMade
  <2> QED
    BY <1>1, <2>1 DEF HeapState, HeapExists, NextSettled, Requested, GenerationsPc
<1>8. ~ (SpaceSizes[t] > 0)
  <2>1. Len(mem[t]) = 0
    BY <1>1, <1>2, <1>3, LengthZero DEF TypesOK
  <2> QED
    BY <1>3, <2>1 DEF SpaceSizes
<1>9. GN!CreateNextSpace
  BY <1>1, <1>2, <1>6, <1>7, <1>8, SMT DEF GN!CreateNextSpace, GN!Exists
<1> QED
  BY <1>9, SMT DEF GN!Next, GN!Collect

\* A step that only ends the process.
LEMMA StopSimulation ==
    ASSUME TypesOK, Bookkeeping, RanOutOfGenerations \/ MallocFails
    PROVE  [GN!Next]_(GN!vars)
<1>1. /\ pc # "copying" /\ pc' # "copying"
      /\ UNCHANGED <<mem, next, alloc, limit, fi, budget, gen>>
      /\ GenerationsPc' = pc' /\ GenerationsPc = pc
  BY DEF RanOutOfGenerations, MallocFails, Stop, heapVars, GenerationsPc
<1>2. UNCHANGED <<HeapState, SpaceSizes, NextSettled, Requested>>
  BY <1>1 DEF HeapState, HeapExists, SpaceSizes, NextSettled, Requested
<1>3. CASE RanOutOfGenerations
  <2>1. GN!RanOutOfGenerations
    BY <1>1, <1>2, <1>3, SMT DEF RanOutOfGenerations, Stop, GN!RanOutOfGenerations, GN!Stop
  <2> QED
    BY <2>1, SMT DEF GN!Next, GN!Collect
<1>4. CASE MallocFails
  <2>1. pc' = "no_memory" /\ \/ pc = "garbage_collect" /\ ~ HeapExists
                             \/ pc = "collect" /\ gen < MAX_SPACES - 1 /\ mem[gen + 1] = <<>>
                             \/ pc \in {"export", "compact"}
    BY <1>4 DEF MallocFails, Stop, Exists
  <2>2. pc = "garbage_collect" /\ ~ HeapExists => HeapState = "null"
    BY DEF HeapState
  <2>3. pc = "collect" /\ gen < MAX_SPACES - 1 /\ mem[gen + 1] = <<>>
            => ~ (SpaceSizes[gen + 1] > 0)
    <3> SUFFICES ASSUME gen < MAX_SPACES - 1, mem[gen + 1] = <<>>
                 PROVE  ~ (SpaceSizes[gen + 1] > 0)
      OBVIOUS
    <3>1. gen + 1 \in Gens /\ gen + 1 \in Spaces
      BY SpaceNumbers DEF Bookkeeping, Gens
    <3>2. Len(mem[gen + 1]) = 0
      BY <3>1, LengthZero DEF TypesOK
    <3> QED
      BY <3>1, <3>2 DEF SpaceSizes
  <2>4. GN!MallocFails
    BY <1>1, <1>2, <2>1, <2>2, <2>3, SMT DEF GN!MallocFails, GN!Exists, GN!Stop
  <2> QED
    BY <2>4, SMT DEF GN!Next, GN!Collect
<1> QED
  BY <1>3, <1>4

LEMMA ReturnSimulation ==
    ASSUME TypesOK, Bookkeeping, CollectAllReturn PROVE [GN!Next]_(GN!vars)
<1> USE SpaceNumbers
<1>1. /\ pc = "collect_all" /\ ~ MoreGenerations /\ pc' = "export"
      /\ next' = IF gen = 0 THEN [next EXCEPT ![0] = alloc] ELSE next
      /\ UNCHANGED <<mem, alloc, limit, fi, budget, gen>>
  BY DEF CollectAllReturn, copyVars
<1>2. NextSettled' = IF gen = 0 THEN [NextSettled EXCEPT ![0] = alloc] ELSE NextSettled
  <2>1. /\ NextSettled' = [i \in Gens |-> next'[i]]
        /\ NextSettled = [i \in Gens |-> next[i]]
    BY <1>1, SettledAfter, SettledOutsideCopy
  <2>2. gen = 0 => \A i \in Gens : next'[i] = IF i = 0 THEN alloc ELSE next[i]
    BY <1>1 DEF TypesOK, Spaces
  <2> QED
    BY <1>1, <2>1, <2>2
<1>3. UNCHANGED <<HeapState, SpaceSizes, Requested>> /\ GenerationsPc = "collect_all"
      /\ GenerationsPc' = "export"
  BY <1>1 DEF HeapState, HeapExists, SpaceSizes, Requested, GenerationsPc
<1>4. gen < MAX_SPACES - 1 => ~ (SpaceSizes[gen + 1] > 0)
  <2> SUFFICES ASSUME gen < MAX_SPACES - 1 PROVE ~ (SpaceSizes[gen + 1] > 0)
    OBVIOUS
  <2>1. gen + 1 \in Gens /\ gen + 1 \in Spaces /\ mem[gen + 1] = <<>>
    BY <1>1 DEF Bookkeeping, Gens, MoreGenerations, Exists
  <2>2. Len(mem[gen + 1]) = 0
    BY <2>1, LengthZero DEF TypesOK
  <2> QED
    BY <2>1, <2>2 DEF SpaceSizes
<1>5. GN!CollectAllReturn
  BY <1>1, <1>2, <1>3, <1>4, SMT DEF GN!CollectAllReturn, GN!MoreGenerations, GN!Exists
<1> QED
  BY <1>5, SMT DEF GN!Next, GN!Collect

\* export's copies into spaces outside the heap.
LEMMA CopyOutSimulation ==
    ASSUME HeapInv, Bookkeeping, ExportCopy \/ ExportCompact PROVE [GN!Next]_(GN!vars)
<1> USE SpaceNumbers
<1>1. PICK f, t, c : /\ CopyOut(f, t, c)
                     /\ \/ pc = "export" /\ f = gen /\ t = FakeSp /\ c = "export"
                        \/ pc = "compact" /\ f = FakeSp /\ t = ValueSp /\ c = "compact"
  BY DEF ExportCopy, ExportCompact
<1>2. /\ f \in Spaces /\ t \in Spaces /\ t \notin Gens /\ t # 0 /\ pc # "copying"
      /\ TypesOK /\ next[f] \in Nat /\ next[t] = 0
  <2>1. f \in Spaces /\ t \in Spaces /\ t \notin Gens /\ t # 0 /\ pc # "copying"
    BY <1>1 DEF Bookkeeping, Gens
  <2>2. TypesOK /\ next[t] = 0
    BY <1>1 DEF HeapInv, SpacesOK, Dead
  <2> QED
    BY <2>1, <2>2 DEF TypesOK
<1>3. PICK n \in Nat : n = next[f]
  BY <1>2
<1>4. SpaceMade(t, n)
  BY <1>1, <1>2, <1>3, MakeSpace DEF CopyOut
<1>5. /\ pc' = "copying" /\ copy' = [from |-> f, to |-> t, p |-> 0, caller |-> c]
      /\ UNCHANGED <<next, args, alloc, limit, fi, budget, gen, result>>
  BY <1>1, <1>2, <1>3, <1>4 DEF CopyOut, StartGeneration, SpaceMade
<1>6. SpaceSizes' = SpaceSizes /\ HeapState' = HeapState
  <2>1. mem'[0] = mem[0] /\ \A i \in Gens : mem'[i] = mem[i]
    BY <1>2, <1>4 DEF SpaceMade, Spaces
  <2> QED
    BY <2>1 DEF SpaceSizes, HeapState, HeapExists
<1>7. NextSettled' = NextSettled
  BY <1>2, <1>5 DEF NextSettled
<1>8. GenerationsPc' = GenerationsPc /\ Requested' = Requested
  BY <1>1, <1>5 DEF GenerationsPc, Requested
<1> QED
  BY <1>5, <1>6, <1>7, <1>8, GenerationsStutter

LEMMA CopiedOutSimulation ==
    ASSUME HeapInv, Bookkeeping, ExportCopied \/ ExportReturn PROVE [GN!Next]_(GN!vars)
<1> USE SpaceNumbers
<1>1. CopyContext /\ CopyPlan /\ TypesOK /\ pc = "copying" /\ copy.to \notin Gens
  <2>1. pc = "copying" /\ copy.caller \in {"export", "compact"}
    BY DEF ExportCopied, ExportReturn, GenerationCopied
  <2>2. CopyContext /\ CopyPlan /\ TypesOK
    BY <2>1, Context DEF HeapInv, CopyOK, CopyContext
  <2> QED
    BY <2>1, <2>2 DEF CopyPlan, Gens
<1>2. NextSettled = [i \in Gens |-> next[i]]
  BY <1>1 DEF NextSettled
<1>3. CASE ExportCopied
  <2>1. /\ copy.caller = "export" /\ EmptyFrom /\ pc' = "compact"
        /\ UNCHANGED <<alloc, limit, fi, budget, gen>>
    BY <1>3 DEF ExportCopied, GenerationCopied
  <2>2. copy.from = gen /\ gen \in Gens /\ next \in [Spaces -> Nat]
    BY <1>1, <2>1 DEF CopyPlan, Bookkeeping, TypesOK
  <2>3. NextSettled' = [NextSettled EXCEPT ![gen] = 0]
    <3>1. NextSettled' = [i \in Gens |-> next'[i]]
      BY <2>1, SettledAfter
    <3>2. \A i \in Gens : next'[i] = IF i = gen THEN 0 ELSE next[i]
      BY <2>1, <2>2 DEF EmptyFrom, Spaces
    <3> QED
      BY <1>2, <3>1, <3>2
  <2>4. UNCHANGED <<HeapState, SpaceSizes, Requested>>
    BY <1>1, <2>1, FromEmptied, SizesKept DEF Requested
  <2>5. GenerationsPc = "export" /\ GenerationsPc' = "compact"
    BY <1>1, <2>1 DEF GenerationsPc
  <2>6. GN!ExportCopy
    BY <2>1, <2>3, <2>4, <2>5, SMT DEF GN!ExportCopy
  <2> QED
    BY <2>6, SMT DEF GN!Next, GN!Collect
<1>4. CASE ExportReturn
  <2>1. /\ copy.caller = "compact" /\ pc' = "exported"
        /\ mem' = [mem EXCEPT ![FakeSp] = <<>>] /\ next' = [next EXCEPT ![FakeSp] = 0]
        /\ UNCHANGED <<alloc, limit, fi, budget, gen>>
    BY <1>4 DEF ExportReturn, GenerationCopied
  <2>2. /\ \A i \in Gens : next'[i] = next[i] /\ mem'[i] = mem[i]
        /\ 0 \in Gens
    BY <1>1, <2>1 DEF TypesOK, Spaces, Gens
  <2>3. NextSettled' = NextSettled
    BY <1>2, <2>1, <2>2, SettledAfter
  <2>4. UNCHANGED <<HeapState, SpaceSizes, Requested>>
    BY <2>1, <2>2 DEF HeapState, HeapExists, SpaceSizes, Requested
  <2>5. GenerationsPc = "compact" /\ GenerationsPc' = "mutator"
    BY <1>1, <2>1 DEF GenerationsPc
  <2>6. GN!ExportCompact
    BY <2>1, <2>3, <2>4, <2>5, SMT DEF GN!ExportCompact
  <2> QED
    BY <2>6, SMT DEF GN!Next, GN!Collect
<1> QED
  BY <1>3, <1>4

LEMMA Simulation == HeapInv /\ Bookkeeping /\ [AnyNext]_vars => [GN!Next]_(GN!vars)
<1> SUFFICES ASSUME HeapInv, Bookkeeping, [AnyNext]_vars PROVE [GN!Next]_(GN!vars)
  OBVIOUS
<1>1. TypesOK
  BY DEF HeapInv
<1>2. CASE UNCHANGED vars
  <2>1. UNCHANGED <<HeapState, SpaceSizes, NextSettled, alloc, limit, budget, Requested, gen,
                    GenerationsPc>>
    BY <1>2 DEF vars, HeapState, HeapExists, SpaceSizes, NextSettled, Requested, GenerationsPc
  <2> QED
    BY <2>1, GenerationsStutter
<1>3. CASE AnyEnter \/ AnyBody \/ AnyExport \/ AnyRestart \/ AnyFinish
  BY <1>1, <1>3, EnterSimulation, BodySimulation, ExportSimulation, QuietSimulation
<1>4. CASE DoGeneration
  BY <1>1, <1>4, QuietSimulation, ForwardSimulation DEF DoGeneration
<1>5. CASE GarbageCollect
  BY <1>1, <1>5, CreateHeapSimulation, StartCollectionSimulation, CreateNextSpaceSimulation,
     StartSimulation, CollectedSimulation, StopSimulation DEF GarbageCollect
<1>6. CASE Export
  BY <1>1, <1>6, StartSimulation, CollectedSimulation, ReturnSimulation, CopyOutSimulation,
     CopiedOutSimulation DEF Export
<1>7. CASE MallocFails
  BY <1>1, <1>7, StopSimulation
<1>8. CASE AnyFree
  BY <1>1, <1>8, FreeSimulation
<1> QED
  BY <1>2, <1>3, <1>4, <1>5, <1>6, <1>7, <1>8 DEF AnyNext

LEMMA BookkeepingKept == GP!IInv /\ HeapInv /\ [AnyNext]_vars => GP!IInv'
<1> SUFFICES ASSUME GP!IInv, HeapInv, [AnyNext]_vars PROVE GP!IInv'
  OBVIOUS
<1>1. [GN!Next]_(GN!vars)
  BY BookkeepingHolds, Simulation
<1>2. [GP!Next]_(GP!vars)
  BY <1>1, SameStep
<1> QED
  BY <1>2, GP!NextIInv, CollectorAssumption, SizesFitInt, SpaceNumbers, SMT

LEMMA BookkeepingAfter == GP!IInv' => Bookkeeping'
  BY BookkeepingHolds, PTL

-----------------------------------------------------------------------------
(* A copy starts: nothing is forwarded yet, and forward is due for every root. *)

LEMMA StartCopyHeap ==
    ASSUME HeapInv, Bookkeeping, pc # "copying", NEW f \in Spaces, NEW t \in Spaces, NEW c,
           f # t, t # 0, StartGeneration(f, t, fi.roots, c),
           next[f] <= Len(mem'[t]) - next[t], InUse(f) <= Len(mem'[t]) - next[t],
           UNCHANGED <<next, args, alloc, fi>>, MemoryOK(mem'),
           NEW E, KeepsOutside(E), EmptyAfter(E), \A s \in Spaces : s \in E => NoObjects(s)
    PROVE  CopyPlan' => HeapInv'
<1>1. /\ copy' = [from |-> f, to |-> t, p |-> next[t], caller |-> c]
      /\ scan' = next[t] /\ calls' = RootCalls(fi.roots) /\ pc' = "copying"
  BY DEF StartGeneration
<1>2. /\ f \in Nat /\ t \in Nat /\ next[t] \in Nat /\ TypesOK /\ Len(mem'[t]) \in Nat
      /\ InUse(f) \in Nat
  <2>1. TypesOK
    BY DEF HeapInv
  <2>2. f \in Nat /\ t \in Nat
    BY SpaceNumbers
  <2>3. InUse(f) \in Nat
    BY <2>1, InUseType
  <2>4. next[t] \in Nat /\ Len(mem'[t]) \in Nat
    BY <2>1, IsSeqLen DEF TypesOK, MemoryOK
  <2> QED
    BY <2>1, <2>2, <2>3, <2>4
<1>3. TypesOK'
  BY <1>1, <1>2 DEF TypesOK, MemoryOK
<1>4. PointsOutside(E) /\ RootsOutside(E)
  BY OutsideEmpty
<1>5. /\ ObjectsOK' /\ PointersOK' /\ RootsPoint'
      /\ \A s \in Spaces : \A j \in Headers(s)' : mem'[s][j] # ZeroHeader
  BY <1>4, HeapKept DEF HeapInv
<1>6. PICK n \in Nat : n = Len(fi.roots) /\ DOMAIN fi.roots = 1 .. n
  BY <1>2, LenProperties DEF TypesOK
<1>7. IsSeq(calls') /\ DOMAIN calls' = 1 .. n
      /\ \A k \in 1 .. n : calls'[k] = Call(ArgLoc(fi.roots[k]), DEPTH)
  <2>1. PICK q : q = calls' /\ q = RootCalls(fi.roots)
    BY <1>1
  <2>2. DOMAIN q = 1 .. n /\ q = [k \in 1 .. n |-> q[k]]
        /\ \A k \in 1 .. n : q[k] = Call(ArgLoc(fi.roots[k]), DEPTH)
    BY <1>6, <2>1 DEF RootCalls
  <2>3. IsSeq(q)
    BY <2>2, SeqOfFunction
  <2> QED
    BY <2>1, <2>2, <2>3
<1>8. \A k \in DOMAIN fi.roots : ArgLoc(fi.roots[k]) \in Due'
  <2> TAKE k \in DOMAIN fi.roots
  <2>1. Call(ArgLoc(fi.roots[k]), DEPTH) \in ToSet(calls')
    BY <1>6, <1>7 DEF ToSet
  <2>2. Call(ArgLoc(fi.roots[k]), DEPTH).p = ArgLoc(fi.roots[k])
    BY DEF Call
  <2> QED
    BY <2>1, <2>2 DEF Due
<1>9. RootsOK'
  BY <1>5, <1>8 DEF RootsOK, RootsPoint
<1>10. InUse(t)' = next[t] /\ copy'.p = next[t] /\ copy'.to = t /\ copy'.from = f
       /\ InUse(f)' = InUse(f)
  BY <1>1 DEF InUse
<1>11. CopyWalk'
  <2>1. \A j \in Headers(t)' : ~ (j > next[t])
    <3> SUFFICES ASSUME NEW j \in Headers(t)' PROVE ~ (j > next[t])
      OBVIOUS
    <3>1. Size(t, j)' \in Nat /\ j + Size(t, j)' <= next[t]
      BY <1>5, <1>10 DEF ObjectsOK
    <3>2. j \in Nat
      BY <1>2, IsSeqLen DEF Headers, MemoryOK
    <3> QED
      BY <1>2, <3>1, <3>2
  <2> QED
    BY <1>1, <1>2, <1>10, <2>1 DEF CopyWalk, Boundary
<1>12. \A j \in Headers(f)' : ~ IsForwarded(j)'
  BY <1>5, <1>10 DEF IsForwarded
<1>13. CopyForwards'
  BY <1>10, <1>12 DEF CopyForwards
<1>14. CopyFits'
  <2>1. Moved' = {}
    BY <1>10, <1>12 DEF Moved
  <2>2. Cardinality(Moved') = 0
    BY <2>1, FS_EmptySet
  <2>3. next'[t] - copy'.p = 0
    BY <1>2, <1>10
  <2> QED
    BY <1>10, <2>2, <2>3 DEF CopyFits
<1>15. CallsOK'
  <2>1. ASSUME NEW e \in ToSet(calls') PROVE CallOK(e)'
    <3>1. PICK k \in 1 .. n : e = Call(ArgLoc(fi.roots[k]), DEPTH)
      BY <1>7 DEF ToSet
    <3>2. e.depth = DEPTH /\ e.p = ArgLoc(fi.roots[k]) /\ DEPTH \in 0 .. DEPTH
      BY <3>1, CollectorAssumption DEF Call
    <3> QED
      BY <1>6, <3>2 DEF CallOK
  <2> QED
    BY <1>7, <2>1 DEF CallsOK
<1>16. SpacesOK'
  BY <1>1 DEF SpacesOK
<1> QED
  BY <1>3, <1>5, <1>9, <1>11, <1>13, <1>14, <1>15, <1>16 DEF HeapInv, CopyOK

LEMMA CollectStartHeap ==
    ASSUME HeapInv, Bookkeeping, CollectGeneration \/ CollectAllGeneration
    PROVE  HeapInv'
<1>1. PICK f, t, c : /\ f = gen /\ t = gen + 1 /\ StartGeneration(f, t, fi.roots, c)
                     /\ c \in {"garbage_collect", "garbage_collect_all"}
                     /\ c = "garbage_collect_all" => pc = "collect_all"
  BY DEF CollectGeneration, CollectAllGeneration
<1>2. /\ pc \in {"collect", "collect_all"} /\ MoreGenerations
      /\ UNCHANGED <<mem, next, args, alloc, limit, budget, fi, gen, result>>
  BY DEF CollectGeneration, CollectAllGeneration, MoreGenerations
<1>3. /\ TypesOK /\ f \in Gens /\ t \in Gens /\ f \in Spaces /\ t \in Spaces
      /\ f # t /\ t # 0 /\ f \in Nat /\ t = f + 1 /\ f < MAX_SPACES - 1
      /\ next[f] <= Len(mem'[t]) - next[t] /\ InUse(f) <= Len(mem'[t]) - next[t]
  <2>1. TypesOK
    BY DEF HeapInv
  <2>2. f \in Gens /\ t \in Gens /\ t = f + 1 /\ f < MAX_SPACES - 1
        /\ next[f] <= Len(mem[t]) - next[t] /\ InUse(f) <= Len(mem[t]) - next[t]
    BY <1>1, <1>2, <2>1, RoomToCollect DEF MoreGenerations
  <2> QED
    BY <1>2, <2>1, <2>2, SpaceNumbers DEF Gens
<1>4. MemoryOK(mem') /\ KeepsOutside({}) /\ EmptyAfter({})
  BY <1>2, <1>3 DEF MemoryOK, TypesOK, KeepsOutside, EmptyAfter, InUse
<1>5. CopyPlan' => HeapInv'
  BY <1>1, <1>2, <1>3, <1>4, StartCopyHeap
<1>6. pc' = "copying" /\ copy' = [from |-> f, to |-> t, p |-> next[t], caller |-> c]
  BY <1>1, <1>2, <1>3 DEF StartGeneration
<1>7. CopyPlan'
  <2>1. /\ copy'.from = f /\ copy'.to = t /\ copy'.caller = c /\ gen' = f
    BY <1>1, <1>2, <1>6
  <2>2. /\ mem'[FakeSp] = <<>> /\ next'[FakeSp] = 0
        /\ result' = Unused => mem'[ValueSp] = <<>> /\ next'[ValueSp] = 0
    BY <1>2 DEF HeapInv, SpacesOK, Dead
  <2>3. pc = "collect_all" => result' = Unused
    BY <1>2 DEF HeapInv, SpacesOK
  <2>4. \A s \in Spaces : s < f => NoObjects(s)'
    <3> SUFFICES ASSUME NEW s \in Spaces, s < f PROVE NoObjects(s)'
      OBVIOUS
    <3>1. s \in Gens
      BY <1>3, SpaceNumbers DEF Gens
    <3> QED
      BY <1>1, <1>2, <3>1 DEF HeapInv, SpacesOK, NoObjects, Headers
  <2>5. c # "garbage_collect" => result' = Unused
    BY <1>1, <2>3
  <2>6. mem'[t] # <<>>
    BY <1>1, <1>2 DEF MoreGenerations, Exists
  <2>7. gen' + 1 = t /\ gen' < MAX_SPACES - 1
    BY <1>3, <2>1
  <2>8. Exists(gen + 1)'
    BY <2>6, <2>7 DEF Exists
  <2>9. copy'.from = gen' /\ copy'.to = gen' + 1
    BY <2>1, <2>7
  <2> QED
    BY <1>1, <2>1, <2>2, <2>4, <2>5, <2>7, <2>8, <2>9 DEF CopyPlan
<1> QED
  BY <1>5, <1>7

LEMMA CopyOutHeap ==
    ASSUME HeapInv, Bookkeeping, ExportCopy \/ ExportCompact PROVE HeapInv'
<1> USE SpaceNumbers
<1>1. PICK f, t, c : /\ CopyOut(f, t, c)
                     /\ \/ pc = "export" /\ f = gen /\ t = FakeSp /\ c = "export"
                        \/ pc = "compact" /\ f = FakeSp /\ t = ValueSp /\ c = "compact"
  BY DEF ExportCopy, ExportCompact
<1>2. /\ f \in Spaces /\ t \in Spaces /\ t # 0 /\ f # t /\ pc # "copying"
      /\ TypesOK /\ next[f] \in Nat /\ next[t] = 0 /\ mem[t] = <<>> /\ result = Unused
      /\ mem[ValueSp] = <<>> /\ next[ValueSp] = 0
  <2>1. f \in Spaces /\ t \in Spaces /\ t # 0 /\ f # t /\ pc # "copying"
    <3>1. gen \in 0 .. MAX_SPACES - 1
      BY DEF Bookkeeping, Gens
    <3>2. CASE pc = "export"
      BY <1>1, <3>1, <3>2
    <3>3. CASE pc = "compact"
      BY <1>1, <3>3
    <3> QED
      BY <1>1, <3>2, <3>3
  <2>2. /\ TypesOK /\ next[t] = 0 /\ mem[t] = <<>> /\ result = Unused
        /\ mem[ValueSp] = <<>> /\ next[ValueSp] = 0
    BY <1>1 DEF HeapInv, SpacesOK, Dead
  <2> QED
    BY <2>1, <2>2 DEF TypesOK
<1>3. PICK n \in Nat : n = next[f]
  BY <1>2
<1>4. SpaceMade(t, n)
  BY <1>1, <1>2, <1>3, MakeSpace DEF CopyOut
<1>5. UNCHANGED <<next, args, alloc, limit, fi, budget, gen, result>>
      /\ StartGeneration(f, t, fi.roots, c)
  BY <1>1 DEF CopyOut
<1>6. Len(mem'[t]) - next[t] = n /\ next[f] <= n /\ MemoryOK(mem')
  BY <1>2, <1>3, <1>4 DEF SpaceMade
<1>7. InUse(f) <= n
  <2>1. InUse(f) = next[f]
    BY <1>1 DEF HeapInv, SpacesOK, InUse
  <2> QED
    BY <1>3, <2>1
<1>8. NoObjects(t)
  BY <1>2, EmptyNoObjects
<1>9. PICK E : E = {t}
  OBVIOUS
<1>10. /\ KeepsOutside(E) /\ EmptyAfter(E) /\ \A s \in Spaces : s \in E => NoObjects(s)
  <2>1. KeepsOutside(E)
    BY <1>4, <1>5, <1>9 DEF KeepsOutside, SpaceMade, InUse
  <2>2. InUse(t)' <= Len(mem'[t])
    BY <1>2, <1>4, <1>5 DEF InUse, SpaceMade
  <2> QED
    BY <1>4, <1>8, <1>9, <2>1, <2>2 DEF EmptyAfter, SpaceMade
<1>11. next[f] <= Len(mem'[t]) - next[t] /\ InUse(f) <= Len(mem'[t]) - next[t]
  BY <1>6, <1>7
<1>12. CopyPlan' => HeapInv'
  BY <1>2, <1>5, <1>6, <1>10, <1>11, StartCopyHeap
<1>13. pc' = "copying" /\ copy' = [from |-> f, to |-> t, p |-> next[t], caller |-> c]
  BY <1>5, <1>11 DEF StartGeneration
<1>14. copy'.from = f /\ copy'.to = t /\ copy'.caller = c
  BY <1>13
<1>15. \A s \in Spaces : s # t => mem'[s] = mem[s] /\ (NoObjects(s) => NoObjects(s)')
  BY <1>4 DEF SpaceMade, NoObjects, Headers
<1>16. CopyPlan'
  <2>1. CASE pc = "export"
    <3>1. f = gen /\ t = FakeSp /\ c = "export" /\ gen' = gen /\ f \in Gens
      BY <1>1, <1>5, <2>1 DEF Bookkeeping
    <3>2. \A s \in Gens : s > f => mem'[s] = <<>>
      BY <1>15, <2>1, <3>1 DEF HeapInv, SpacesOK, Gens
    <3>3. \A s \in Spaces : s < f => NoObjects(s)'
      <4> SUFFICES ASSUME NEW s \in Spaces, s < f PROVE NoObjects(s)'
        OBVIOUS
      <4>1. s \in Gens /\ s # t
        BY <3>1 DEF Gens
      <4>2. NoObjects(s)
        BY <2>1, <3>1, <4>1 DEF HeapInv, SpacesOK
      <4> QED
        BY <1>15, <4>1, <4>2
    <3>4. mem'[ValueSp] = <<>> /\ next'[ValueSp] = 0 /\ result' = Unused
      BY <1>2, <1>5, <1>15, <3>1
    <3> QED
      BY <1>14, <3>1, <3>2, <3>3, <3>4 DEF CopyPlan
  <2>2. CASE pc = "compact"
    <3>1. f = FakeSp /\ t = ValueSp /\ c = "compact" /\ result' = Unused
      BY <1>1, <1>2, <1>5, <2>2
    <3>2. \A s \in Spaces : s < f => NoObjects(s)'
      <4> SUFFICES ASSUME NEW s \in Spaces, s < f PROVE NoObjects(s)'
        OBVIOUS
      <4>1. s \in Gens /\ s # t
        BY <3>1 DEF Gens
      <4>2. NoObjects(s)
        BY <2>2, <4>1 DEF HeapInv, SpacesOK
      <4> QED
        BY <1>15, <4>1, <4>2
    <3> QED
      BY <1>14, <3>1, <3>2 DEF CopyPlan
  <2> QED
    BY <1>1, <2>1, <2>2
<1> QED
  BY <1>12, <1>16

-----------------------------------------------------------------------------
(* A copy is done: the from-space, and what is younger, holds nothing, and  *)
(* nothing points there.                                                    *)

LEMMA EndCopyObjects ==
    ASSUME HeapInv, Bookkeeping, pc = "copying", calls = <<>>, scan >= next[copy.to],
           MemoryOK(mem'), pc' # "copying", UNCHANGED <<fi, args>>,
           \A s \in Spaces : s = copy.from => NoObjects(s)' /\ InUse(s)' <= Len(mem'[s]),
           \A s \in Spaces : s # copy.from => mem'[s] = mem[s],
           \A s \in Spaces : s < copy.from => InUse(s)' <= Len(mem'[s]),
           \A s \in Spaces : s > copy.from => InUse(s)' = InUse(s)
    PROVE  /\ ObjectsOK' /\ PointersOK' /\ RootsOK'
           /\ \A s \in Spaces : s <= copy.from => NoObjects(s)'
<1>1. PICK f \in Spaces : f = copy.from
  BY Context DEF CopyContext, CopySpaces
<1>2. PICK E : E = 0 .. f
  OBVIOUS
<1>3. f \in Nat /\ Spaces \subseteq Nat
  BY SpaceNumbers
<1>4. PointsOutside(E) /\ RootsOutside(E)
  BY <1>1, <1>2, OutsideFrom
<1>5. \A s \in Spaces : s < f => NoObjects(s)'
  <2> SUFFICES ASSUME NEW s \in Spaces, s < f PROVE NoObjects(s)'
    OBVIOUS
  <2>1. NoObjects(s)
    BY <1>1, Context DEF CopyContext, CopySpaces
  <2>2. mem'[s] = mem[s]
    BY <1>1, <1>3
  <2> QED
    BY <2>1, <2>2 DEF NoObjects, Headers
<1>6. \A s \in Spaces : s \in E <=> s <= f
  BY <1>2, <1>3
<1>7. \A s \in Spaces : s <= f => s = f \/ s < f
  BY <1>3
<1>8. EmptyAfter(E)
  BY <1>1, <1>5, <1>6, <1>7 DEF EmptyAfter
<1>9. KeepsOutside(E)
  <2> SUFFICES ASSUME NEW s \in Spaces, s \notin E PROVE mem'[s] = mem[s] /\ InUse(s)' = InUse(s)
    BY DEF KeepsOutside
  <2>1. s > f /\ s # f
    BY <1>3, <1>6
  <2> QED
    BY <1>1, <2>1
<1>10. ObjectsOK' /\ PointersOK' /\ RootsPoint'
  BY <1>4, <1>8, <1>9, HeapKept DEF HeapInv
<1>11. RootsOK'
  BY <1>10 DEF RootsOK, RootsPoint
<1>12. \A s \in Spaces : s <= f => NoObjects(s)'
  BY <1>1, <1>5, <1>7
<1> QED
  BY <1>1, <1>10, <1>11, <1>12

\* After garbage_collect or garbage_collect_all has copied a generation.
LEMMA CollectedHeap ==
    ASSUME HeapInv, Bookkeeping, Bookkeeping', GenerationCollected \/ GenerationCollectedAll
    PROVE  HeapInv'
<1> USE SpaceNumbers
<1>1. /\ EmptyFrom /\ pc = "copying" /\ UNCHANGED <<fi, args, result>>
      /\ calls = <<>> /\ scan >= next[copy.to]
      /\ copy.caller \in {"garbage_collect", "garbage_collect_all"}
      /\ copy.caller = "garbage_collect_all" => pc' = "collect_all"
      /\ pc' \in {"mutator", "nursery_too_small", "collect", "collect_all"}
      /\ pc' \in {"collect", "collect_all"} => gen' = gen + 1 /\ alloc' = alloc
      /\ pc' \notin {"collect", "collect_all"} => gen' = gen
      /\ alloc' = alloc \/ alloc' = 0
  BY DEF GenerationCollected, GenerationCollectedAll, GenerationCopied, Resume
<1>2. CopyContext /\ CopyPlan /\ TypesOK /\ ObjectsOK
  BY <1>1, Context DEF HeapInv, CopyOK, CopyContext
<1>3. PICK f \in Spaces : f = copy.from /\ f = gen /\ f < MAX_SPACES - 1 /\ f \in Gens
  <2>1. copy.from = gen /\ gen < MAX_SPACES - 1
    BY <1>1, <1>2 DEF CopyPlan
  <2>2. gen \in Gens /\ gen \in Spaces
    BY DEF Bookkeeping, Gens
  <2> QED
    BY <2>1, <2>2
<1>4. /\ SameSizes /\ MemoryOK(mem') /\ NoObjects(f)' /\ next' \in [Spaces -> Nat]
      /\ next'[f] = 0
      /\ \A s \in Spaces : s # f => mem'[s] = mem[s] /\ next'[s] = next[s]
  BY <1>1, <1>2, <1>3, FromEmptied
<1>5. TypesOK'
  BY <1>1, <1>2, <1>4 DEF TypesOK, MemoryOK, Dead
<1>6. \A s \in Spaces : s <= f => InUse(s)' <= Len(mem'[s])
  <2> SUFFICES ASSUME NEW s \in Spaces, s <= f PROVE InUse(s)' <= Len(mem'[s])
    OBVIOUS
  <2>1. Len(mem'[s]) = Len(mem[s]) /\ Len(mem[s]) \in Nat
    BY <1>2, <1>4, WordIndex DEF SameSizes
  <2>2. CASE s = 0
    <3>1. alloc <= Len(mem[0]) /\ 0 \in Spaces
      BY <1>2 DEF ObjectsOK, InUse
    <3> QED
      BY <1>1, <2>1, <2>2, <3>1 DEF InUse
  <2>3. CASE s # 0
    <3>1. next[s] <= Len(mem[s])
      BY <1>2, <2>3 DEF ObjectsOK, InUse
    <3>2. next'[s] = next[s] \/ next'[s] = 0
      BY <1>4
    <3> QED
      BY <2>1, <2>3, <3>1, <3>2 DEF InUse
  <2> QED
    BY <2>2, <2>3
<1>7. \A s \in Spaces : s > f => InUse(s)' = InUse(s)
  <2> SUFFICES ASSUME NEW s \in Spaces, s > f PROVE InUse(s)' = InUse(s)
    OBVIOUS
  <2>1. s # 0 /\ s # f
    BY <1>3
  <2> QED
    BY <1>4, <2>1 DEF InUse
<1>8. pc' # "copying"
  BY <1>1
<1>9. /\ ObjectsOK' /\ PointersOK' /\ RootsOK'
      /\ \A s \in Spaces : s <= f => NoObjects(s)'
  <2>1. \A s \in Spaces : s = f => NoObjects(s)' /\ InUse(s)' <= Len(mem'[s])
    BY <1>3, <1>4, <1>6
  <2>2. \A s \in Spaces : s < f => InUse(s)' <= Len(mem'[s])
    BY <1>3, <1>6
  <2> QED
    BY <1>1, <1>3, <1>4, <1>7, <1>8, <2>1, <2>2, EndCopyObjects
<1>10. SpacesOK'
  <2>1. pc' \in {"collect", "collect_all"} => \A s \in Gens : s < gen' => NoObjects(s)'
    <3> SUFFICES ASSUME pc' \in {"collect", "collect_all"}, NEW s \in Gens, s < gen'
                 PROVE  NoObjects(s)'
      OBVIOUS
    <3>1. s \in Spaces /\ s <= f
      BY <1>1, <1>3 DEF Gens
    <3> QED
      BY <1>9, <3>1
  <2>2. mem'[FakeSp] = <<>> /\ next'[FakeSp] = 0
    <3>1. FakeSp # f /\ FakeSp \in Spaces /\ mem[FakeSp] = <<>> /\ next[FakeSp] = 0
      BY <1>1, <1>2, <1>3 DEF CopyPlan
    <3> QED
      BY <1>4, <3>1
  <2>3. result' = Unused => mem'[ValueSp] = <<>> /\ next'[ValueSp] = 0
    <3>1. ValueSp # f /\ ValueSp \in Spaces
      BY <1>3
    <3>2. result = Unused => mem[ValueSp] = <<>> /\ next[ValueSp] = 0
      BY <1>1, <1>2 DEF CopyPlan
    <3> QED
      BY <1>1, <1>4, <3>1, <3>2
  <2>4. pc' = "collect_all" => result' = Unused
    <3>1. copy.caller = "garbage_collect" => pc' # "collect_all"
      BY DEF GenerationCollected, GenerationCollectedAll, GenerationCopied, Resume
    <3> QED
      BY <1>1, <1>2, <3>1 DEF CopyPlan
  <2> QED
    BY <1>1, <2>1, <2>2, <2>3, <2>4 DEF SpacesOK
<1> QED
  BY <1>5, <1>8, <1>9, <1>10 DEF HeapInv, CopyOK

LEMMA ExportCopiedHeap ==
    ASSUME HeapInv, Bookkeeping, ExportCopied PROVE HeapInv'
<1> USE SpaceNumbers
<1>1. /\ EmptyFrom /\ pc = "copying" /\ UNCHANGED <<fi, args, alloc, gen, result>>
      /\ calls = <<>> /\ scan >= next[copy.to] /\ copy.caller = "export" /\ pc' = "compact"
  BY DEF ExportCopied, GenerationCopied
<1>2. CopyContext /\ CopyPlan /\ TypesOK /\ ObjectsOK
  BY <1>1, Context DEF HeapInv, CopyOK, CopyContext
<1>3. PICK f \in Spaces : f = copy.from /\ f = gen /\ f \in Gens
  BY <1>1, <1>2 DEF CopyPlan, Bookkeeping, Gens
<1>4. /\ SameSizes /\ MemoryOK(mem') /\ NoObjects(f)' /\ next' \in [Spaces -> Nat]
      /\ next'[f] = 0
      /\ \A s \in Spaces : s # f => mem'[s] = mem[s] /\ next'[s] = next[s]
  BY <1>1, <1>2, <1>3, FromEmptied
<1>5. TypesOK'
  BY <1>1, <1>2, <1>4 DEF TypesOK, MemoryOK, Dead
<1>6. \A s \in Spaces : s <= f => InUse(s)' <= Len(mem'[s])
  <2> SUFFICES ASSUME NEW s \in Spaces, s <= f PROVE InUse(s)' <= Len(mem'[s])
    OBVIOUS
  <2>1. Len(mem'[s]) = Len(mem[s]) /\ Len(mem[s]) \in Nat /\ InUse(s) <= Len(mem[s])
    BY <1>2, <1>4, WordIndex DEF SameSizes, ObjectsOK
  <2>2. InUse(s)' = InUse(s) \/ InUse(s)' = 0
    BY <1>1, <1>4 DEF InUse
  <2> QED
    BY <2>1, <2>2
<1>7. \A s \in Spaces : s > f => InUse(s)' = InUse(s)
  BY <1>1, <1>3, <1>4 DEF InUse
<1>8. /\ ObjectsOK' /\ PointersOK' /\ RootsOK'
      /\ \A s \in Spaces : s <= f => NoObjects(s)'
  <2>1. \A s \in Spaces : s = f => NoObjects(s)' /\ InUse(s)' <= Len(mem'[s])
    BY <1>3, <1>4, <1>6
  <2>2. \A s \in Spaces : s < f => InUse(s)' <= Len(mem'[s])
    BY <1>3, <1>6
  <2> QED
    BY <1>1, <1>3, <1>4, <1>7, <2>1, <2>2, EndCopyObjects
<1>9. SpacesOK'
  <2>1. \A s \in Gens : NoObjects(s)'
    <3> SUFFICES ASSUME NEW s \in Gens, s > f PROVE NoObjects(s)'
      BY <1>3, <1>8 DEF Gens
    <3>1. mem[s] = <<>> /\ s # f /\ s \in Spaces
      BY <1>1, <1>2, <1>3 DEF CopyPlan, Gens
    <3>2. NoObjects(s) /\ mem'[s] = mem[s]
      BY <1>2, <1>4, <3>1, EmptyNoObjects
    <3> QED
      BY <3>2 DEF NoObjects, Headers
  <2>2. result' = Unused /\ mem'[ValueSp] = <<>> /\ next'[ValueSp] = 0
    <3>1. ValueSp # f /\ ValueSp \in Spaces
      BY <1>3 DEF Gens
    <3>2. result = Unused /\ mem[ValueSp] = <<>> /\ next[ValueSp] = 0
      BY <1>1, <1>2 DEF CopyPlan
    <3> QED
      BY <1>1, <1>4, <3>1, <3>2
  <2> QED
    BY <1>1, <2>1, <2>2 DEF SpacesOK
<1> QED
  BY <1>1, <1>5, <1>8, <1>9 DEF HeapInv, CopyOK

LEMMA ExportReturnHeap ==
    ASSUME HeapInv, Bookkeeping, ExportReturn PROVE HeapInv'
<1> USE SpaceNumbers
<1>1. /\ pc = "copying" /\ UNCHANGED <<fi, args, alloc, gen>>
      /\ calls = <<>> /\ scan >= next[copy.to] /\ copy.caller = "compact" /\ pc' = "exported"
      /\ mem' = [mem EXCEPT ![FakeSp] = <<>>] /\ next' = [next EXCEPT ![FakeSp] = 0]
      /\ result' = Ptr(ValueSp, 2)
  BY DEF ExportReturn, GenerationCopied, ResultBlock
<1>2. CopyContext /\ CopyPlan /\ TypesOK /\ ObjectsOK
  BY <1>1, Context DEF HeapInv, CopyOK, CopyContext
<1>3. PICK f \in Spaces : f = copy.from /\ f = FakeSp /\ f # 0
  BY <1>1, <1>2 DEF CopyPlan
<1>4. /\ mem'[f] = <<>> /\ next'[f] = 0 /\ DOMAIN mem' = Spaces /\ next' \in [Spaces -> Nat]
      /\ \A s \in Spaces : s # f => mem'[s] = mem[s] /\ next'[s] = next[s]
  BY <1>1, <1>2, <1>3 DEF TypesOK
<1>5. IsSeq(mem'[f]) /\ Len(mem'[f]) = 0
  <2>1. IsSeq(<<>>) /\ Len(<<>>) = 0
    BY DEF IsSeq
  <2> QED
    BY <1>4, <2>1
<1>6. MemoryOK(mem')
  BY <1>2, <1>4, <1>5 DEF MemoryOK, TypesOK
<1>7. TypesOK'
  BY <1>1, <1>2, <1>4, <1>6 DEF TypesOK, MemoryOK
<1>8. NoObjects(f)'
  BY <1>5, <1>6, IsSeqLen DEF NoObjects, Headers, MemoryOK
<1>9. \A s \in Spaces : s # f => InUse(s)' = InUse(s)
  BY <1>1, <1>4 DEF InUse
<1>10. InUse(f)' = 0
  BY <1>3, <1>4 DEF InUse
<1>11. ObjectsOK' /\ PointersOK' /\ RootsOK'
  <2>1. \A s \in Spaces : s = f => NoObjects(s)' /\ InUse(s)' <= Len(mem'[s])
    BY <1>5, <1>8, <1>10
  <2>2. \A s \in Spaces : s < f => InUse(s)' <= Len(mem'[s])
    BY <1>2, <1>4, <1>9 DEF ObjectsOK
  <2>3. \A s \in Spaces : s > f => InUse(s)' = InUse(s)
    BY <1>9
  <2> QED
    BY <1>1, <1>3, <1>4, <1>6, <2>1, <2>2, <2>3, EndCopyObjects
<1>12. result' # Unused
  BY <1>1 DEF Ptr, Unused
<1>13. SpacesOK'
  BY <1>1, <1>3, <1>4, <1>12 DEF SpacesOK
<1> QED
  BY <1>1, <1>7, <1>11, <1>13 DEF HeapInv, CopyOK

-----------------------------------------------------------------------------
(* The other steps of a collection. *)

\* Nothing moves, and no more of a space is in use.
LEMMA QuietHeap ==
    ASSUME HeapInv, pc # "copying", pc' # "copying", UNCHANGED <<mem, args, fi>>,
           next' \in [Spaces -> Nat], \A s \in Spaces : InUse(s)' = InUse(s),
           pc' \in {"entry", "mutator", "garbage_collect", "collect", "collect_all",
                    "export", "compact", "exported", "finished"} \cup Dead
    PROVE  SpacesOK' => HeapInv'
<1>1. KeepsOutside({}) /\ EmptyAfter({})
  BY DEF KeepsOutside, EmptyAfter
<1>2. PointsOutside({}) /\ RootsOutside({})
  BY OutsideEmpty
<1>3. ObjectsOK' /\ PointersOK' /\ RootsPoint'
  BY <1>1, <1>2, HeapKept DEF HeapInv
<1>4. TypesOK'
  BY DEF HeapInv, TypesOK
<1> QED
  BY <1>3, <1>4 DEF HeapInv, CopyOK, RootsOK, RootsPoint

\* A space is created where there was none.
LEMMA NewSpaceHeap ==
    ASSUME HeapInv, pc # "copying", pc' # "copying", UNCHANGED <<next, args, fi>>,
           NEW s \in Spaces, NEW n \in Nat, mem[s] = <<>>, SpaceMade(s, n), InUse(s)' <= n,
           \A z \in Spaces : z # s => InUse(z)' = InUse(z),
           pc' \in {"mutator", "nursery_too_small", "collect"}
    PROVE  SpacesOK' => HeapInv'
<1>1. PICK E : E = {s}
  OBVIOUS
<1>2. KeepsOutside(E) /\ EmptyAfter(E)
  BY <1>1 DEF KeepsOutside, EmptyAfter, SpaceMade
<1>3. \A z \in Spaces : z \in E => NoObjects(z)
  BY <1>1, EmptyNoObjects DEF HeapInv
<1>4. PointsOutside(E) /\ RootsOutside(E)
  BY <1>3, OutsideEmpty
<1>5. ObjectsOK' /\ PointersOK' /\ RootsPoint'
  BY <1>2, <1>4, HeapKept DEF HeapInv
<1>6. TypesOK'
  BY DEF HeapInv, TypesOK, SpaceMade, MemoryOK, Dead
<1> QED
  BY <1>5, <1>6 DEF HeapInv, CopyOK, RootsOK, RootsPoint

LEMMA CreateHeapHeap ==
    ASSUME HeapInv, Bookkeeping, CreateHeap PROVE HeapInv'
<1> USE SpaceNumbers
<1>1. /\ pc = "garbage_collect" /\ mem[0] = <<>> /\ UNCHANGED <<next, args, fi, result>>
      /\ mem' = [mem EXCEPT ![0] = EmptySpace(NURSERY_SIZE)]
      /\ pc' \in {"mutator", "nursery_too_small"}
      /\ alloc' = alloc \/ alloc' = 0
  BY DEF CreateHeap, HeapExists, Resume
<1>2. PICK s \in Spaces, n \in Nat : s = 0 /\ n = NURSERY_SIZE
  BY CollectorAssumption
<1>3. SpaceMade(s, n) /\ mem[s] = <<>>
  BY <1>1, <1>2, MakeSpace DEF HeapInv
<1>4. InUse(s)' <= n
  <2>1. alloc <= Len(mem[0])
    BY <1>2 DEF HeapInv, ObjectsOK, InUse
  <2>2. Len(mem[0]) = 0
    BY <1>1, <1>2, LengthZero DEF HeapInv, TypesOK
  <2>3. alloc = 0
    BY <2>1, <2>2 DEF Bookkeeping
  <2> QED
    BY <1>1, <1>2, <2>3 DEF InUse
<1>5. \A z \in Spaces : z # s => InUse(z)' = InUse(z)
  BY <1>1, <1>2 DEF InUse
<1>6. SpacesOK' => HeapInv'
  BY <1>1, <1>2, <1>3, <1>4, <1>5, NewSpaceHeap
<1>7. SpacesOK'
  <2>1. \A z \in Spaces : z # 0 => mem'[z] = mem[z] /\ next'[z] = next[z]
    BY <1>1, <1>2, <1>3 DEF SpaceMade
  <2>2. mem'[FakeSp] = <<>> /\ next'[FakeSp] = 0
        /\ (result' = Unused => mem'[ValueSp] = <<>> /\ next'[ValueSp] = 0)
    BY <1>1, <2>1 DEF HeapInv, SpacesOK, Dead
  <2> QED
    BY <1>1, <2>2 DEF SpacesOK
<1> QED
  BY <1>6, <1>7

LEMMA CreateNextSpaceHeap ==
    ASSUME HeapInv, Bookkeeping, Bookkeeping', CreateNextSpace PROVE HeapInv'
<1> USE SpaceNumbers
<1>1. /\ pc = "collect" /\ gen < MAX_SPACES - 1 /\ mem[gen + 1] = <<>>
      /\ mem' = [mem EXCEPT ![gen + 1] = EmptySpace(RATIO * Len(mem[gen]))]
      /\ UNCHANGED <<next, args, alloc, limit, fi, budget, pc, gen, result>>
  BY DEF CreateNextSpace, Exists
<1>2. PICK g, t, n : g = gen /\ t = gen + 1 /\ n = RATIO * Len(mem[g])
  OBVIOUS
<1>3. g \in Gens /\ t \in Gens /\ g \in Spaces /\ t \in Spaces /\ t # 0 /\ t \in Nat
      /\ t = g + 1 /\ g \in Nat /\ t # FakeSp /\ t # ValueSp
  BY <1>1, <1>2 DEF Bookkeeping, Gens
<1>4. TypesOK
  BY DEF HeapInv
<1>5. n \in Nat
  <2>1. Len(mem[g]) \in Nat /\ RATIO \in Nat
    BY <1>3, <1>4, WordIndex, CollectorAssumption
  <2> QED
    BY <1>2, <2>1
<1>6. SpaceMade(t, n)
  BY <1>1, <1>2, <1>3, <1>4, <1>5, MakeSpace
<1>7. \A z \in Spaces : InUse(z)' = InUse(z)
  BY <1>1 DEF InUse
<1>8. InUse(t)' <= n
  <2>1. InUse(t) <= Len(mem[t])
    BY <1>3 DEF HeapInv, ObjectsOK
  <2>2. Len(mem[t]) = 0
    BY <1>1, <1>2, <1>3, <1>4, LengthZero DEF TypesOK
  <2>3. InUse(t) \in Nat
    BY <1>3, <1>4, InUseType
  <2> QED
    BY <1>3, <1>5, <1>7, <2>1, <2>2, <2>3
<1>9. mem[t] = <<>>
  BY <1>1, <1>2
<1>10. SpacesOK' => HeapInv'
  BY <1>1, <1>3, <1>5, <1>6, <1>7, <1>8, <1>9, NewSpaceHeap
<1>11. SpacesOK'
  <2>1. \A z \in Spaces : z # t => mem'[z] = mem[z]
    BY <1>6 DEF SpaceMade
  <2>2. ASSUME NEW z \in Gens, z < g PROVE NoObjects(z)'
    <3>1. z # t /\ z \in Spaces
      BY <1>3, <2>2 DEF Gens
    <3>2. NoObjects(z)
      BY <1>1, <1>2, <2>2 DEF HeapInv, SpacesOK
    <3> QED
      BY <2>1, <3>1, <3>2 DEF NoObjects, Headers
  <2>3. mem'[FakeSp] = <<>> /\ next'[FakeSp] = 0
        /\ (result' = Unused => mem'[ValueSp] = <<>> /\ next'[ValueSp] = 0)
    BY <1>1, <1>3, <2>1 DEF HeapInv, SpacesOK, Dead
  <2> QED
    BY <1>1, <1>2, <2>2, <2>3 DEF SpacesOK
<1> QED
  BY <1>10, <1>11

\* What garbage_collect_all has not copied does not exist.
LEMMA NoSpacesAbove ==
    ASSUME TypesOK, Bookkeeping, pc = "collect_all", ~ MoreGenerations
    PROVE  \A s \in Gens : s > gen => mem[s] = <<>>
<1> USE SpaceNumbers
<1> DEFINE Above == {s \in Gens : s > gen /\ mem[s] # <<>>}
<1> SUFFICES ASSUME Above # {} PROVE FALSE
  OBVIOUS
<1>1. gen \in 0 .. MAX_SPACES - 1 /\ Above \in SUBSET Nat
  BY DEF Bookkeeping, Gens
<1>2. PICK s \in Above : \A z \in Above : s <= z
  BY <1>1, LeastNatural
<1>3. s \in Gens /\ s > gen /\ mem[s] # <<>> /\ s \in Spaces
  BY <1>2 DEF Gens
<1>4. s # gen + 1
  BY <1>1, <1>3 DEF MoreGenerations, Exists, Gens
<1>5. PICK z \in 0 .. MAX_SPACES - 2 : z + 1 = s /\ z > gen
  <2>1. s - 1 \in 0 .. MAX_SPACES - 2 /\ (s - 1) + 1 = s /\ s - 1 > gen
    BY <1>1, <1>3, <1>4 DEF Gens
  <2> QED
    BY <2>1
<1>6. z \in Gens /\ z \in Spaces /\ z < s
  BY <1>5 DEF Gens
<1>7. SpaceSizes[z + 1] > 0
  <2>1. Len(mem[s]) \in Nat /\ Len(mem[s]) # 0
    BY <1>3, WordIndex, LengthZero DEF TypesOK
  <2>2. SpaceSizes[s] = Len(mem[s])
    BY <1>3 DEF SpaceSizes
  <2> QED
    BY <1>5, <2>1, <2>2
<1>8. SpaceSizes[z] > 0
  BY <1>5, <1>7 DEF Bookkeeping
<1>9. mem[z] # <<>>
  <2>1. SpaceSizes[z] = Len(mem[z])
    BY <1>6 DEF SpaceSizes
  <2> QED
    BY <1>6, <1>8, <2>1, LengthZero DEF TypesOK
<1>10. z \in Above
  BY <1>5, <1>6, <1>9
<1>11. s <= z
  BY <1>2, <1>10
<1> QED
  BY <1>1, <1>3, <1>5, <1>6, <1>11 DEF Gens

LEMMA StepBetweenHeap ==
    ASSUME HeapInv, Bookkeeping, Bookkeeping',
           StartCollection \/ RanOutOfGenerations \/ CollectAllReturn \/ MallocFails
    PROVE  HeapInv'
<1> USE SpaceNumbers
<1>1. TypesOK
  BY DEF HeapInv
<1>2. CASE StartCollection
  <2>1. /\ pc = "garbage_collect" /\ pc' = "collect" /\ gen' = 0
        /\ next' = [next EXCEPT ![0] = alloc]
        /\ UNCHANGED <<mem, args, alloc, limit, fi, budget, result>>
    <3>1. pc' \in {"collect", "assert_failed"}
      BY <1>2 DEF StartCollection
    <3>2. pc' # "assert_failed"
      BY DEF Bookkeeping, GenerationsPc
    <3> QED
      BY <1>2, <3>1, <3>2 DEF StartCollection
  <2>2. next' \in [Spaces -> Nat] /\ \A s \in Spaces : s # 0 => next'[s] = next[s]
    BY <1>1, <2>1 DEF TypesOK, Bookkeeping
  <2>3. \A s \in Spaces : InUse(s)' = InUse(s)
    BY <2>1, <2>2 DEF InUse
  <2>4. SpacesOK'
    <3>1. \A s \in Gens : ~ (s < 0)
      BY DEF Gens
    <3>2. mem'[FakeSp] = <<>> /\ next'[FakeSp] = 0
          /\ (result' = Unused => mem'[ValueSp] = <<>> /\ next'[ValueSp] = 0)
      BY <2>1, <2>2 DEF HeapInv, SpacesOK, Dead
    <3> QED
      BY <2>1, <3>1, <3>2 DEF SpacesOK
  <2> QED
    BY <2>1, <2>2, <2>3, <2>4, QuietHeap
<1>3. CASE RanOutOfGenerations \/ MallocFails
  <2>1. /\ pc \in {"garbage_collect", "collect", "export", "compact"}
        /\ pc' \in Dead /\ pc' # "copying" /\ pc' \in {"no_memory", "ran_out_of_generations"}
        /\ UNCHANGED <<mem, next, args, alloc, fi, gen, result>>
    BY <1>3 DEF RanOutOfGenerations, MallocFails, Stop, heapVars, Dead
  <2>2. next' \in [Spaces -> Nat] /\ \A s \in Spaces : InUse(s)' = InUse(s)
    BY <1>1, <2>1 DEF TypesOK, InUse
  <2>3. SpacesOK'
    BY <2>1 DEF HeapInv, SpacesOK, Dead
  <2> QED
    BY <2>1, <2>2, <2>3, QuietHeap
<1>4. CASE CollectAllReturn
  <2>1. /\ pc = "collect_all" /\ ~ MoreGenerations /\ pc' = "export"
        /\ next' = IF gen = 0 THEN [next EXCEPT ![0] = alloc] ELSE next
        /\ UNCHANGED <<mem, args, alloc, fi, gen, result>>
    BY <1>4 DEF CollectAllReturn
  <2>2. next' \in [Spaces -> Nat] /\ \A s \in Spaces : s # 0 => next'[s] = next[s]
    BY <1>1, <2>1 DEF TypesOK, Bookkeeping
  <2>3. \A s \in Spaces : InUse(s)' = InUse(s)
    BY <2>1, <2>2 DEF InUse
  <2>4. SpacesOK'
    <3>1. \A s \in Gens : s < gen => NoObjects(s)'
      BY <2>1 DEF HeapInv, SpacesOK, NoObjects, Headers
    <3>2. \A s \in Gens : s > gen => mem'[s] = <<>>
      BY <1>1, <2>1, NoSpacesAbove
    <3>3. gen = 0 => next'[0] = alloc
      BY <1>1, <2>1 DEF TypesOK
    <3>4. mem'[FakeSp] = <<>> /\ next'[FakeSp] = 0 /\ result' = Unused
          /\ (result' = Unused => mem'[ValueSp] = <<>> /\ next'[ValueSp] = 0)
      BY <2>1, <2>2 DEF HeapInv, SpacesOK, Dead
    <3> QED
      BY <2>1, <3>1, <3>2, <3>3, <3>4 DEF SpacesOK
  <2> QED
    BY <2>1, <2>2, <2>3, <2>4, QuietHeap
<1> QED
  BY <1>2, <1>3, <1>4

-----------------------------------------------------------------------------
(* The steps of the mutator. *)

LEMMA ValidPoints ==
    TypesOK /\ ObjectsOK /\ Bookkeeping => \A v : Valid(v) => PointsToObject(v)
<1> SUFFICES ASSUME TypesOK, ObjectsOK, Bookkeeping, NEW v, Valid(v) PROVE PointsToObject(v)
  OBVIOUS
<1>1. PICK s, i : /\ s \in Spaces /\ s = SpaceOf(v) /\ i = IndexOf(v)
                  /\ i \in 2 .. InUse(s) + 1 /\ IsHeader(mem[s][i - 1])
  BY DEF Valid, Hd_val
<1>2. /\ InUse(s) \in Nat /\ InUse(s) <= Len(mem[s])
      /\ Len(mem[s]) \in Nat /\ DOMAIN mem[s] = 1 .. Len(mem[s])
  BY <1>1, InUseType, WordIndex DEF ObjectsOK
<1>3. i \in Nat /\ i - 1 \in DOMAIN mem[s]
  BY <1>1, <1>2
<1> QED
  BY <1>1, <1>3 DEF PointsToObject, Headers

LEMMA ValidPointsAfter ==
    (TypesOK /\ ObjectsOK /\ Bookkeeping => \A v : Valid(v) => PointsToObject(v))'
  BY ValidPoints, PTL

\* Nothing is written in memory.
LEMMA MemoryKept ==
    ASSUME HeapInv, pc # "copying", pc' # "copying", UNCHANGED <<mem, next, alloc>>
    PROVE  /\ ObjectsOK' /\ PointersOK'
           /\ \A v : PointsToObject(v) => PointsToObject(v)'
<1>1. \A s \in Spaces : InUse(s)' = InUse(s)
  BY DEF InUse
<1>2. KeepsOutside({}) /\ EmptyAfter({})
  BY <1>1 DEF KeepsOutside, EmptyAfter
<1>3. PointsOutside({})
  BY OutsideEmpty
<1>4. ObjectsOK' /\ PointersOK'
  BY <1>2, <1>3, HeapKept DEF HeapInv
<1> QED
  BY <1>4 DEF PointsToObject, Headers

LEMMA EnterHeap ==
    ASSUME HeapInv, Bookkeeping, AnyEnter PROVE HeapInv'
<1>1. /\ pc = "entry" /\ pc' \in {"garbage_collect", "mutator"}
      /\ UNCHANGED <<mem, next, args, alloc, gen, result>>
      /\ fi' \in [num_allocs : 0 .. MaxAllocs, roots : Seq(ArgSlots)]
      /\ \A k \in DOMAIN fi'.roots : Sound(args[fi'.roots[k]])
  BY DEF AnyEnter, Check, heapVars, MaxAllocs
<1>2. ObjectsOK' /\ PointersOK' /\ \A v : PointsToObject(v) => PointsToObject(v)'
  BY <1>1, MemoryKept
<1>3. TypesOK'
  BY <1>1 DEF HeapInv, TypesOK
<1>4. RootsOK'
  <2> SUFFICES ASSUME NEW k \in DOMAIN fi'.roots, NEW u, u = args[fi'.roots[k]], IsPtr(u)
               PROVE  PointsToObject(u)'
    BY <1>1 DEF RootsOK
  <2>1. PointsToObject(u)
    BY <1>1, ValidPoints DEF Sound, HeapInv
  <2> QED
    BY <1>2, <2>1
<1>5. SpacesOK'
  BY <1>1 DEF HeapInv, SpacesOK, Dead
<1> QED
  BY <1>1, <1>2, <1>3, <1>4, <1>5 DEF HeapInv, CopyOK

\* What is stored in args points to objects.
LEMMA RootsStored ==
    ASSUME RootsOK, TypesOK, (TypesOK /\ ObjectsOK /\ Bookkeeping)', StoreInArgs,
           pc # "copying", pc' # "copying", UNCHANGED fi,
           \A v : PointsToObject(v) => PointsToObject(v)'
    PROVE  RootsOK'
<1> SUFFICES ASSUME NEW k \in DOMAIN fi.roots, NEW u, u = args'[fi.roots[k]], IsPtr(u)
             PROVE  PointsToObject(u)'
  BY DEF RootsOK
<1>1. fi.roots[k] \in ArgSlots
  BY DEF TypesOK
<1>2. CASE u = args[fi.roots[k]]
  BY <1>2 DEF RootsOK
<1>3. CASE Sound(args[fi.roots[k]])'
  <2>1. Valid(u)'
    BY <1>3 DEF Sound
  <2> QED
    BY <2>1, ValidPointsAfter
<1> QED
  BY <1>1, <1>2, <1>3 DEF StoreInArgs

LEMMA RestartHeap ==
    ASSUME HeapInv, Bookkeeping', AnyRestart PROVE HeapInv'
<1>1. /\ pc = "exported" /\ pc' = "entry" /\ StoreInArgs
      /\ UNCHANGED <<mem, next, alloc, fi, gen, result>>
  BY DEF AnyRestart
<1>2. ObjectsOK' /\ PointersOK' /\ \A v : PointsToObject(v) => PointsToObject(v)'
  BY <1>1, MemoryKept
<1>3. TypesOK'
  BY <1>1 DEF HeapInv, TypesOK, StoreInArgs
<1>4. RootsOK'
  BY <1>1, <1>2, <1>3, RootsStored DEF HeapInv
<1>5. SpacesOK'
  BY <1>1 DEF HeapInv, SpacesOK, Dead
<1> QED
  BY <1>1, <1>2, <1>3, <1>4, <1>5 DEF HeapInv, CopyOK

LEMMA FinishHeap ==
    ASSUME HeapInv, AnyFinish PROVE HeapInv'
<1>1. /\ pc \in {"mutator", "exported"} /\ pc' = "finished"
      /\ UNCHANGED <<mem, next, args, alloc, fi, gen, result>>
  BY DEF AnyFinish, heapVars
<1>2. next' \in [Spaces -> Nat] /\ \A s \in Spaces : InUse(s)' = InUse(s)
  BY <1>1 DEF HeapInv, TypesOK, InUse
<1>3. SpacesOK'
  BY <1>1 DEF HeapInv, SpacesOK, Dead
<1> QED
  BY <1>1, <1>2, <1>3, QuietHeap

\* No object but those of the block, and no root, leads into it.
LEMMA NothingLeadsIn ==
    ASSUME HeapInv, Bookkeeping, pc # "copying", NEW z \in Spaces, NothingPointsTo(z)
    PROVE  PointsOutside({z}) /\ RootsOutside({z})
<1>1. TypesOK /\ ObjectsOK /\ PointersOK /\ RootsOK
  BY DEF HeapInv
<1>2. RootsOutside({z})
  BY <1>1 DEF RootsOutside, RootsOK, NothingPointsTo
<1>3. ASSUME NEW s \in Spaces, NEW j \in Headers(s), s # z
      PROVE  /\ mem[s][j] # ZeroHeader
             /\ HasPointers(s, j) =>
                    \A i \in j + 1 .. j + Size(s, j) : IsPtr(mem[s][i]) =>
                        SpaceOf(mem[s][i]) # z /\ SpaceOf(mem[s][i]) >= s
  <2>1. /\ mem[s][j] # ZeroHeader /\ Size(s, j) \in Nat \ {0} /\ j + Size(s, j) <= InUse(s)
        /\ Size(s, j) = Wosize_hd(mem[s][j]) /\ IsHeader(mem[s][j])
    BY <1>1, <1>3 DEF ObjectsOK, Size, Headers
  <2>2. j \in Nat /\ j >= 1 /\ InUse(s) \in Nat
    BY <1>1, <1>3, WordIndex, InUseType
  <2>3. PICK v : v = Ptr(s, j + 1)
    OBVIOUS
  <2>4. SpaceOf(v) = s /\ IndexOf(v) = j + 1 /\ Hd_val(mem, v) = mem[s][j]
    <3>1. SpaceOf(v) = s /\ IndexOf(v) = j + 1 /\ (j + 1) - 1 = j
      BY <2>2, <2>3 DEF SpaceOf, IndexOf, Ptr
    <3> QED
      BY <3>1 DEF Hd_val
  <2>5. v \in Objects
    <3>1. j \in 0 + 1 .. InUse(s)
      BY <2>1, <2>2
    <3>2. v \in ObjectsBetween(s, 0, InUse(s))
      BY <2>1, <2>3, <3>1 DEF ObjectsBetween
    <3> QED
      BY <2>1, <2>4, <3>2 DEF Objects
  <2>6. ASSUME HasPointers(s, j), NEW i \in j + 1 .. j + Size(s, j), IsPtr(mem[s][i])
        PROVE  SpaceOf(mem[s][i]) # z /\ SpaceOf(mem[s][i]) >= s
    <3>1. PICK k : k = i - j /\ k \in 1 .. Size(s, j) /\ (j + 1) + (k - 1) = i
      <4>1. i \in Nat /\ i - j \in 1 .. Size(s, j) /\ (j + 1) + ((i - j) - 1) = i
        BY <2>1, <2>2, <2>6
      <4> QED
        BY <4>1
    <3>2. k \in DOMAIN Children(v) /\ Children(v)[k] = mem[s][i]
      <4>1. Field(mem, v, k - 1) = mem[s][i]
        BY <2>4, <3>1 DEF Field
      <4>2. Children(v) = [x \in 1 .. Size(s, j) |-> Current(Field(mem, v, x - 1))]
        BY <2>1, <2>4, <2>6 DEF Children, HasPointers, Wosize
      <4> QED
        BY <3>1, <4>1, <4>2 DEF Current
    <3>3. SpaceOf(mem[s][i]) # z
      BY <1>3, <2>4, <2>5, <2>6, <3>2 DEF NothingPointsTo
    <3> QED
      BY <1>1, <1>3, <2>6, <3>3 DEF PointersOK, ToBeForwarded
  <2> QED
    BY <2>1, <2>6
<1> QED
  BY <1>2, <1>3 DEF PointsOutside

LEMMA FreeHeap ==
    ASSUME HeapInv, Bookkeeping, AnyFree PROVE HeapInv'
<1>1. TypesOK /\ ObjectsOK /\ PointersOK /\ RootsOK /\ SpacesOK
  BY DEF HeapInv
<1>2. PICK z : z = ValueSp /\ z \in Spaces /\ z # 0 /\ z # FakeSp
  BY SpaceNumbers
<1>3. /\ MemoryOK(mem') /\ mem'[z] = <<>> /\ next'[z] = 0 /\ next' \in [Spaces -> Nat]
      /\ \A s \in Spaces : s # z => mem'[s] = mem[s] /\ next'[s] = next[s]
      /\ pc = "mutator" /\ pc' = "mutator" /\ result' = Unused
      /\ UNCHANGED <<args, alloc, fi, gen>>
  BY <1>1, <1>2, BlockFreed
<1>4. KeepsOutside({z})
  BY <1>3 DEF KeepsOutside, InUse
<1>5. EmptyAfter({z})
  <2>1. Len(mem'[z]) = 0 /\ DOMAIN mem'[z] = {}
    BY <1>3
  <2>2. InUse(z)' = 0
    BY <1>2, <1>3 DEF InUse
  <2> QED
    BY <2>1, <2>2 DEF EmptyAfter, NoObjects, Headers
<1>6. PointsOutside({z}) /\ RootsOutside({z})
  BY <1>2, <1>3, NothingLeadsIn DEF AnyFree
<1>7. ObjectsOK' /\ PointersOK' /\ RootsPoint'
  BY <1>1, <1>3, <1>4, <1>5, <1>6, HeapKept
<1>8. TypesOK'
  BY <1>1, <1>3 DEF TypesOK, MemoryOK
<1>9. SpacesOK'
  <2>1. FakeSp \in Spaces
    BY DEF Spaces
  <2> QED
    BY <1>1, <1>2, <1>3, <2>1 DEF SpacesOK, Dead
<1> QED
  BY <1>3, <1>7, <1>8, <1>9 DEF HeapInv, CopyOK, RootsOK, RootsPoint

LEMMA ExportHeap ==
    ASSUME HeapInv, Bookkeeping, Bookkeeping', AnyExport PROVE HeapInv'
<1>1. result = Unused /\ 1 \in ArgSlots /\ pc = "mutator" /\ Sound(args[1])
      /\ UNCHANGED <<mem, next, args, alloc>>
  BY DEF AnyExport, ExportUnboxed, ExportStart, heapVars
<1>2. CASE ExportUnboxed
  <2>1. pc' = "exported" /\ UNCHANGED <<fi, gen>>
    BY <1>2 DEF ExportUnboxed
  <2>2. next' \in [Spaces -> Nat] /\ \A s \in Spaces : InUse(s)' = InUse(s)
    BY <1>1, <2>1 DEF HeapInv, TypesOK, InUse
  <2>3. SpacesOK'
    BY <1>1, <2>1 DEF HeapInv, SpacesOK, Dead
  <2> QED
    BY <1>1, <2>1, <2>2, <2>3, QuietHeap
<1>3. CASE HeapExists /\ ExportStart(fake_fi)
  <2>1. /\ pc' \in {"collect_all", "assert_failed"} /\ fi' = fake_fi
        /\ gen' = 0 /\ UNCHANGED result
    BY <1>3 DEF ExportStart, copyVars
  <2>2. pc' = "collect_all"
    BY <2>1 DEF Bookkeeping, GenerationsPc
  <2>3. ObjectsOK' /\ PointersOK' /\ \A v : PointsToObject(v) => PointsToObject(v)'
    BY <1>1, <2>2, MemoryKept
  <2>4. fi' \in [num_allocs : 0 .. MaxAllocs, roots : Seq(ArgSlots)]
        /\ DOMAIN fi'.roots = {1} /\ fi'.roots[1] = 1
    BY <1>1, <2>1, SpaceNumbers DEF fake_fi
  <2>5. TypesOK'
    BY <1>1, <2>2, <2>4 DEF HeapInv, TypesOK
  <2>6. RootsOK'
    <3> SUFFICES ASSUME NEW u, u = args[1], IsPtr(u) PROVE PointsToObject(u)'
      BY <1>1, <2>2, <2>4 DEF RootsOK
    <3>1. PointsToObject(u)
      BY <1>1, ValidPoints DEF Sound, HeapInv
    <3> QED
      BY <2>3, <3>1
  <2>7. SpacesOK'
    <3>1. \A s \in Gens : ~ (s < 0)
      BY DEF Gens
    <3> QED
      BY <1>1, <2>1, <2>2, <3>1 DEF HeapInv, SpacesOK, Dead
  <2> QED
    BY <2>2, <2>3, <2>5, <2>6, <2>7 DEF HeapInv, CopyOK
<1> QED
  BY <1>2, <1>3 DEF AnyExport

\* w is r with an object made in words h .. h+sz.
ObjectMade(r, w, h, sz) ==
    /\ IsSeq(w) /\ Len(w) = Len(r) /\ DOMAIN w = DOMAIN r
    /\ \A k \in DOMAIN r : k \notin h .. h + sz => w[k] = r[k]
    /\ IsHeader(w[h]) /\ Wosize_hd(w[h]) = sz /\ Tag_hd(w[h]) \in Nat
    /\ DEPTH > 0 => ~ No_scan(Tag_hd(w[h]))
    /\ \A i \in h + 1 .. h + sz :
           Word(w[i]) /\ (~ No_scan(Tag_hd(w[h])) => Sound(w[i]))

LEMMA MadeObject ==
    ASSUME TypesOK, Bookkeeping, MakesObject
    PROVE  \E sz, w : /\ sz \in 1 .. budget - 1 /\ alloc' = alloc + 1 + sz
                      /\ ObjectMade(mem[0], w, alloc + 1, sz)
                      /\ SpaceReplaced(mem, 0, w, mem')
<1>1. PICK w, sz : w = mem'[0] /\ sz = Wosize_hd(w[alloc + 1])
  OBVIOUS
<1>2. /\ sz \in 1 .. budget - 1 /\ alloc' = alloc + 1 + sz
      /\ IsHeader(w[alloc + 1]) /\ Tag_hd(w[alloc + 1]) \in Nat
      /\ DEPTH > 0 => ~ No_scan(Tag_hd(w[alloc + 1]))
      /\ \A i \in alloc + 2 .. alloc + 1 + sz :
             Word(w[i]) /\ (~ No_scan(Tag_hd(w[alloc + 1])) => Sound(w[i]))
      /\ mem' = [mem EXCEPT ![0] = [k \in DOMAIN mem[0] |->
             IF k \in alloc + 1 .. alloc + 1 + sz THEN w[k] ELSE mem[0][k]]]
  BY <1>1 DEF MakesObject
<1>3. 0 \in Spaces /\ MemoryOK(mem) /\ Len(mem[0]) \in Nat /\ DOMAIN mem[0] = 1 .. Len(mem[0])
  BY SpaceNumbers, WordIndex
<1>4. w = [k \in DOMAIN mem[0] |->
             IF k \in alloc + 1 .. alloc + 1 + sz THEN w[k] ELSE mem[0][k]]
  BY <1>1, <1>2, <1>3 DEF MemoryOK
<1>5. DOMAIN w = DOMAIN mem[0] /\ w = [k \in DOMAIN mem[0] |-> w[k]]
      /\ \A k \in DOMAIN mem[0] : k \notin alloc + 1 .. alloc + 1 + sz => w[k] = mem[0][k]
  BY <1>4
<1>6. IsSeq(w) /\ Len(w) = Len(mem[0])
  BY <1>3, <1>5, SeqOfFunction
<1>7. PICK r : r = mem' /\ r = [mem EXCEPT ![0] = w]
  BY <1>2, <1>4
<1>8. SpaceReplaced(mem, 0, w, mem')
  <2>1. SpaceReplaced(mem, 0, w, r)
    BY <1>3, <1>6, <1>7, ReplaceOne
  <2> QED
    BY <1>7, <2>1
<1>9. ObjectMade(mem[0], w, alloc + 1, sz)
  <2>1. PICK h : h = alloc + 1 /\ h + 1 = alloc + 2
    BY DEF Bookkeeping
  <2>2. /\ Wosize_hd(w[h]) = sz /\ IsHeader(w[h]) /\ Tag_hd(w[h]) \in Nat
        /\ DEPTH > 0 => ~ No_scan(Tag_hd(w[h]))
    BY <1>1, <1>2, <2>1
  <2>3. \A i \in h + 1 .. h + sz :
            Word(w[i]) /\ (~ No_scan(Tag_hd(w[h])) => Sound(w[i]))
    BY <1>2, <2>1
  <2>4. \A k \in DOMAIN mem[0] : k \notin h .. h + sz => w[k] = mem[0][k]
    BY <1>5, <2>1
  <2>5. ObjectMade(mem[0], w, h, sz)
    BY <1>5, <1>6, <2>2, <2>3, <2>4 DEF ObjectMade
  <2> QED
    BY <2>1, <2>5
<1> QED
  BY <1>2, <1>8, <1>9

LEMMA BodyObjects ==
    ASSUME HeapInv, Bookkeeping, pc = "mutator", pc' # "copying", UNCHANGED next, MakesObject
    PROVE  /\ ObjectsOK' /\ PointersOK'
           /\ \A v : PointsToObject(v) => PointsToObject(v)'
           /\ DOMAIN mem' = Spaces /\ \A s \in Spaces : IsSeq(mem'[s])
           /\ \A s \in Spaces : s # 0 => mem'[s] = mem[s]
<1> USE SpaceNumbers
<1>1. PICK sz, w : /\ sz \in 1 .. budget - 1 /\ alloc' = alloc + 1 + sz
                   /\ ObjectMade(mem[0], w, alloc + 1, sz)
                   /\ SpaceReplaced(mem, 0, w, mem')
  BY MadeObject DEF HeapInv
<1>2. PICK h : h = alloc + 1
  OBVIOUS
<1>3. /\ TypesOK /\ ObjectsOK /\ PointersOK
      /\ \A s \in Spaces : \A j \in Headers(s) : mem[s][j] # ZeroHeader
  BY DEF HeapInv, ObjectsOK
<1>4. /\ h \in Nat /\ h > 0 /\ sz \in Nat /\ sz > 0
      /\ Len(mem[0]) \in Nat /\ DOMAIN mem[0] = 1 .. Len(mem[0])
      /\ h + sz <= Len(mem[0]) /\ h \in DOMAIN mem[0]
      /\ alloc' = h + sz /\ InUse(0) = h - 1 /\ alloc' \in Nat
  <2>1. limit = Len(mem[0])
    <3>1. SpaceSizes[0] = Len(mem[0])
      BY CollectorAssumption DEF SpaceSizes, Gens
    <3>2. "mutator" \in GP!Running
      BY SMT DEF GP!Running
    <3> QED
      BY <3>1, <3>2 DEF Bookkeeping, GenerationsPc
  <2>2. /\ alloc \in Nat /\ budget \in Nat /\ alloc + budget <= Len(mem[0])
        /\ Len(mem[0]) \in Nat /\ DOMAIN mem[0] = 1 .. Len(mem[0])
    BY <1>3, <2>1, WordIndex DEF Bookkeeping
  <2>3. PICK a, b, n : /\ a = alloc /\ b = budget /\ n = Len(mem[0])
                       /\ a \in Nat /\ b \in Nat /\ n \in Nat /\ a + b <= n
                       /\ sz \in 1 .. b - 1 /\ h = a + 1
    BY <1>1, <1>2, <2>2
  <2>4. /\ h \in Nat /\ h > 0 /\ sz \in Nat /\ sz > 0 /\ h + sz <= n /\ h \in 1 .. n
        /\ a + 1 + sz = h + sz /\ a = h - 1
    BY <2>3
  <2>5. InUse(0) = alloc
    BY DEF InUse
  <2>6. h \in DOMAIN mem[0] /\ h + sz <= Len(mem[0])
    BY <2>2, <2>3, <2>4
  <2>7. alloc' = h + sz /\ InUse(0) = h - 1 /\ alloc' \in Nat
    BY <1>1, <2>3, <2>4, <2>5
  <2> QED
    BY <2>2, <2>4, <2>6, <2>7
<1>5. /\ mem'[0] = w /\ DOMAIN w = DOMAIN mem[0] /\ Len(w) = Len(mem[0]) /\ IsSeq(w)
      /\ \A s \in Spaces : s # 0 => mem'[s] = mem[s]
      /\ DOMAIN mem' = Spaces /\ \A s \in Spaces : IsSeq(mem'[s])
  BY <1>1 DEF ObjectMade, SpaceReplaced, MemoryOK
<1>6. /\ \A k \in DOMAIN mem[0] : k \notin h .. h + sz => w[k] = mem[0][k]
      /\ IsHeader(w[h]) /\ Wosize_hd(w[h]) = sz /\ Tag_hd(w[h]) \in Nat
      /\ DEPTH > 0 => ~ No_scan(Tag_hd(w[h]))
      /\ \A i \in h + 1 .. h + sz :
             ~ IsHeader(w[i]) /\ (~ No_scan(Tag_hd(w[h])) => Sound(w[i]))
  BY <1>1, <1>2 DEF ObjectMade, Word
<1>7. w[h] # ZeroHeader
  BY <1>4, <1>6 DEF ZeroHeader, Header, Wosize_hd
<1>8. ASSUME NEW j \in Headers(0)
      PROVE  /\ j \in Nat /\ Size(0, j) \in Nat /\ j + Size(0, j) < h
             /\ \A k \in j .. j + Size(0, j) : w[k] = mem[0][k] /\ k \in DOMAIN mem[0]
  <2>1. j \in 1 .. Len(mem[0]) /\ Size(0, j) \in Nat /\ j + Size(0, j) <= InUse(0)
    BY <1>3, WordIndex DEF ObjectsOK
  <2>2. j + Size(0, j) < h
    BY <1>4, <2>1
  <2>3. ASSUME NEW k \in j .. j + Size(0, j) PROVE k \in DOMAIN mem[0] /\ k \notin h .. h + sz
    BY <1>4, <2>1, <2>2
  <2> QED
    BY <1>6, <2>1, <2>2, <2>3
<1>9. ASSUME NEW k PROVE k \in Headers(0)' <=> k = h \/ k \in Headers(0)
  <2>1. ASSUME k \in Headers(0)', k # h PROVE k \in Headers(0)
    <3>1. k \in DOMAIN mem[0] /\ IsHeader(w[k])
      BY <1>5, <2>1 DEF Headers
    <3>2. k \notin h + 1 .. h + sz
      BY <1>6, <3>1
    <3>3. k \notin h .. h + sz
      BY <1>4, <2>1, <3>1, <3>2
    <3> QED
      BY <1>6, <3>1, <3>3 DEF Headers
  <2>2. ASSUME k \in Headers(0) PROVE k \in Headers(0)'
    <3>1. k \in k .. k + Size(0, k)
      BY <1>8, <2>2
    <3> QED
      BY <1>5, <1>8, <2>2, <3>1 DEF Headers
  <2>3. h \in Headers(0)'
    BY <1>4, <1>5, <1>6 DEF Headers
  <2> QED
    BY <2>1, <2>2, <2>3
<1>10. ASSUME NEW s \in Spaces, s # 0 PROVE \A k : k \in Headers(s)' <=> k \in Headers(s)
  BY <1>5, <1>10 DEF Headers
<1>11. ASSUME NEW v, PointsToObject(v) PROVE PointsToObject(v)'
  BY <1>9, <1>10, <1>11 DEF PointsToObject
<1>12. /\ InUse(0)' = h + sz
       /\ \A s \in Spaces : s # 0 => InUse(s)' = InUse(s)
  BY <1>4 DEF InUse
<1>13. Size(0, h)' = sz
  BY <1>5, <1>6 DEF Size
<1>14. ASSUME NEW s \in Spaces, NEW j \in Headers(s)
       PROVE  Size(s, j)' = Size(s, j) /\ mem'[s][j] = mem[s][j]
  <2>1. mem'[s][j] = mem[s][j]
    <3>1. CASE s = 0
      <4>1. j \in j .. j + Size(0, j)
        BY <1>8, <3>1
      <4> QED
        BY <1>5, <1>8, <3>1, <4>1
    <3> QED
      BY <1>5, <3>1
  <2>2. Size(s, j)' = Wosize_hd(mem'[s][j]) /\ Size(s, j) = Wosize_hd(mem[s][j])
    BY DEF Size
  <2> QED
    BY <2>1, <2>2
<1>15. ObjectsOK'
  <2>1. ASSUME NEW s \in Spaces PROVE InUse(s)' <= Len(mem'[s])
    <3>1. CASE s = 0
      BY <1>4, <1>5, <1>12, <3>1
    <3>2. CASE s # 0
      BY <1>3, <1>5, <1>12, <3>2 DEF ObjectsOK
    <3> QED
      BY <3>1, <3>2
  <2>2. ASSUME NEW s \in Spaces, NEW j \in Headers(s)'
        PROVE  /\ Size(s, j)' \in Nat \ {0}
               /\ j + Size(s, j)' <= InUse(s)'
               /\ \A k \in j + 1 .. j + Size(s, j)' : k \notin Headers(s)'
               /\ mem'[s][j] # ZeroHeader
               /\ Tag_hd(mem'[s][j]) \in Nat
               /\ DEPTH > 0 => ~ No_scan(Tag_hd(mem'[s][j]))
    <3>1. CASE s = 0 /\ j = h
      <4>1. \A k \in h + 1 .. h + sz : k \notin Headers(0)'
        BY <1>5, <1>6 DEF Headers
      <4> QED
        BY <1>4, <1>5, <1>6, <1>7, <1>12, <1>13, <3>1, <4>1
    <3>2. CASE s = 0 /\ j # h
      <4>1. j \in Headers(0)
        BY <1>9, <3>2
      <4>2. Size(0, j)' = Size(0, j) /\ mem'[0][j] = mem[0][j]
        BY <1>14, <3>2, <4>1
      <4>3. \A k \in j + 1 .. j + Size(0, j) : k # h /\ k \notin Headers(0)
        BY <1>3, <1>4, <1>8, <4>1 DEF ObjectsOK
      <4>4. \A k \in j + 1 .. j + Size(0, j) : k \notin Headers(0)'
        BY <1>9, <4>3
      <4>5. j + Size(0, j) <= h + sz
        BY <1>4, <1>8, <4>1
      <4> QED
        BY <1>3, <1>12, <3>2, <4>1, <4>2, <4>4, <4>5 DEF ObjectsOK
    <3>3. CASE s # 0
      <4>1. j \in Headers(s) /\ \A k : k \in Headers(s)' <=> k \in Headers(s)
        BY <1>10, <3>3
      <4>2. Size(s, j)' = Size(s, j) /\ mem'[s][j] = mem[s][j] /\ InUse(s)' = InUse(s)
        BY <1>12, <1>14, <3>3, <4>1
      <4> QED
        BY <1>3, <4>1, <4>2 DEF ObjectsOK
    <3> QED
      BY <3>1, <3>2, <3>3
  <2> QED
    BY <2>1, <2>2 DEF ObjectsOK
<1>16. PointersOK'
  <2> SUFFICES ASSUME NEW s \in Spaces, NEW j \in Headers(s)', HasPointers(s, j)',
                      NEW i \in j + 1 .. j + Size(s, j)', NEW u, u = mem'[s][i], IsPtr(u)
               PROVE  PointsToObject(u)' /\ SpaceOf(u) >= s
    BY DEF PointersOK
  <2>1. CASE s = 0 /\ j = h
    <3>1. ~ No_scan(Tag_hd(w[h])) /\ i \in h + 1 .. h + sz /\ u = w[i]
      BY <1>5, <1>13, <2>1 DEF HasPointers
    <3>2. PointsToObject(u)
      BY <1>3, <1>6, <3>1, ValidPoints DEF Sound
    <3>3. SpaceOf(u) \in Spaces
      BY <3>2 DEF PointsToObject
    <3> QED
      BY <1>11, <2>1, <3>2, <3>3
  <2>2. CASE ~ (s = 0 /\ j = h)
    <3>1. j \in Headers(s)
      BY <1>9, <1>10, <2>2
    <3>2. Size(s, j)' = Size(s, j) /\ mem'[s][j] = mem[s][j]
      BY <1>14, <3>1
    <3>3. HasPointers(s, j) /\ i \in j + 1 .. j + Size(s, j)
      BY <3>1, <3>2 DEF HasPointers
    <3>4. u = mem[s][i]
      <4>1. CASE s = 0
        <5>1. i \in j .. j + Size(0, j)
          BY <1>8, <3>1, <3>3, <4>1
        <5> QED
          BY <1>5, <1>8, <3>1, <4>1, <5>1
      <4> QED
        BY <1>5, <4>1
    <3>5. PointsToObject(u) /\ SpaceOf(u) >= s
      BY <1>3, <3>1, <3>3, <3>4 DEF PointersOK, ToBeForwarded
    <3> QED
      BY <1>11, <3>5
  <2> QED
    BY <2>1, <2>2
<1> QED
  BY <1>5, <1>11, <1>15, <1>16

LEMMA BodyHeap ==
    ASSUME HeapInv, Bookkeeping, Bookkeeping', AnyBody PROVE HeapInv'
<1> USE SpaceNumbers
<1>1. /\ pc = "mutator" /\ pc' \in {"mutator", "entry"} /\ StoreInArgs
      /\ UNCHANGED <<next, fi, gen, result>>
      /\ UNCHANGED <<mem, alloc>> \/ MakesObject
  BY DEF AnyBody
<1>2. /\ ObjectsOK' /\ PointersOK'
      /\ \A v : PointsToObject(v) => PointsToObject(v)'
      /\ DOMAIN mem' = Spaces /\ \A s \in Spaces : IsSeq(mem'[s])
      /\ \A s \in Spaces : s # 0 => mem'[s] = mem[s]
  <2>1. CASE UNCHANGED <<mem, alloc>>
    BY <1>1, <2>1, MemoryKept DEF HeapInv, TypesOK
  <2>2. CASE MakesObject
    BY <1>1, <2>2, BodyObjects
  <2> QED
    BY <1>1, <2>1, <2>2
<1>3. TypesOK'
  BY <1>1, <1>2 DEF HeapInv, TypesOK, StoreInArgs
<1>4. RootsOK'
  BY <1>1, <1>2, <1>3, RootsStored DEF HeapInv
<1>5. SpacesOK'
  <2>1. mem'[FakeSp] = <<>> /\ next'[FakeSp] = 0
        /\ (result' = Unused => mem'[ValueSp] = <<>> /\ next'[ValueSp] = 0)
    BY <1>1, <1>2 DEF HeapInv, SpacesOK, Dead
  <2> QED
    BY <1>1, <2>1 DEF SpacesOK
<1> QED
  BY <1>1, <1>2, <1>3, <1>4, <1>5 DEF HeapInv, CopyOK

-----------------------------------------------------------------------------
(* The invariant. *)

\* The heap before it is used.
AnyStart ==
    /\ \E n \in {0, NURSERY_SIZE} :
           mem = [s \in Spaces |-> IF s = 0 THEN EmptySpace(n) ELSE <<>>]
    /\ next = [s \in Spaces |-> 0] /\ DOMAIN args = ArgSlots /\ alloc = 0
    /\ limit = Len(mem[0]) /\ fi = [num_allocs |-> 0, roots |-> <<>>] /\ budget = 0
    /\ pc \in {"entry", "mutator"} /\ gen = 0 /\ result = Unused

LEMMA StartInv == AnyStart => IInv /\ GN!Init
<1> SUFFICES ASSUME AnyStart PROVE IInv /\ GN!Init
  OBVIOUS
<1> USE SpaceNumbers
<1>1. PICK n \in Nat : mem = [s \in Spaces |-> IF s = 0 THEN EmptySpace(n) ELSE <<>>]
                       /\ n \in {0, NURSERY_SIZE}
  BY CollectorAssumption DEF AnyStart
<1>2. /\ mem[0] = EmptySpace(n) /\ DOMAIN mem = Spaces
      /\ \A s \in Spaces : s # 0 => mem[s] = <<>>
  BY <1>1
<1>3. \A s \in Spaces : /\ IsSeq(mem[s]) /\ Len(mem[s]) = IF s = 0 THEN n ELSE 0
                        /\ \A k \in DOMAIN mem[s] : ~ IsHeader(mem[s][k])
  <2>1. IsSeq(<<>>) /\ Len(<<>>) = 0
    BY DEF IsSeq
  <2> QED
    BY <1>1, <1>2, <2>1, EmptySpaceWords
<1>4. /\ next = [s \in Spaces |-> 0] /\ DOMAIN args = ArgSlots /\ alloc = 0
      /\ limit = n /\ fi = [num_allocs |-> 0, roots |-> <<>>] /\ budget = 0
      /\ pc \in {"entry", "mutator"} /\ gen = 0 /\ result = Unused
  BY <1>2, EmptySpaceWords DEF AnyStart
<1>5. \A s \in Spaces : NoObjects(s) /\ InUse(s) = 0
  BY <1>3, <1>4 DEF NoObjects, Headers, InUse
<1>6. TypesOK
  <2>1. <<>> \in Seq(ArgSlots)
    OBVIOUS
  <2> QED
    BY <1>2, <1>3, <1>4, <2>1 DEF TypesOK
<1>7. ObjectsOK /\ PointersOK
  <2>1. \A s \in Spaces : InUse(s) <= Len(mem[s])
    BY <1>3, <1>5
  <2> QED
    BY <1>5, <2>1 DEF ObjectsOK, PointersOK, NoObjects
<1>8. RootsOK /\ SpacesOK /\ CopyOK
  BY <1>2, <1>4 DEF RootsOK, SpacesOK, CopyOK, Dead
<1>9. GN!Init
  <2>1. SpaceSizes = [i \in Gens |-> IF i = 0 THEN n ELSE 0]
    BY <1>3 DEF SpaceSizes, Spaces
  <2>2. HeapState = IF n = 0 THEN "null" ELSE "live"
    BY <1>2, <1>3, LengthZero DEF HeapState, HeapExists
  <2>3. NextSettled = [i \in Gens |-> 0]
    BY <1>4 DEF NextSettled, Spaces
  <2>4. GenerationsPc = "mutator" /\ Requested = 0
    BY <1>4 DEF GenerationsPc, Requested
  <2>5. n = 0 \/ (n = NURSERY_SIZE /\ n # 0)
    BY <1>1, CollectorAssumption
  <2>6. [i \in Gens |-> IF i = 0 THEN 0 ELSE 0] = [i \in Gens |-> 0]
    OBVIOUS
  <2> QED
    BY <1>4, <2>1, <2>2, <2>3, <2>4, <2>5, <2>6, SMT
    DEF GN!Init, GN!NurseryOnly, GN!AllEmpty, GN!Gens, Gens
<1>10. GP!IInv
  BY <1>9, SameInit, GP!InitIInv, CollectorAssumption, SizesFitInt, SpaceNumbers, SMT
<1> QED
  BY <1>6, <1>7, <1>8, <1>9, <1>10 DEF IInv, HeapInv

LEMMA InitInv == AnyInit => IInv /\ GN!Init
<1> SUFFICES ASSUME AnyInit PROVE AnyStart
  BY StartInv
<1>1. EmptySpace(0) = <<>>
  BY DEF EmptySpace
<1>2. \E n \in {0, NURSERY_SIZE} :
          mem = [s \in Spaces |-> IF s = 0 THEN EmptySpace(n) ELSE <<>>]
  <2>1. CASE mem = [s \in Spaces |-> <<>>]
    <3>1. mem = [s \in Spaces |-> IF s = 0 THEN EmptySpace(0) ELSE <<>>]
      BY <1>1, <2>1
    <3> QED
      BY <3>1
  <2> QED
    BY <2>1 DEF AnyInit
<1> QED
  BY <1>2 DEF AnyInit, AnyStart

LEMMA NextInv == IInv /\ [AnyNext]_vars => IInv'
<1> SUFFICES ASSUME IInv, [AnyNext]_vars PROVE IInv'
  OBVIOUS
<1>1. GP!IInv /\ HeapInv /\ Bookkeeping
  BY BookkeepingHolds DEF IInv
<1>2. GP!IInv' /\ Bookkeeping'
  BY <1>1, BookkeepingKept, BookkeepingAfter
<1>3. CASE UNCHANGED vars
  <2>1. UNCHANGED HeapInv
    BY <1>3
    DEF HeapInv, vars, TypesOK, ObjectsOK, PointersOK, RootsOK, SpacesOK, CopyOK, CopyPlan,
        CopyWalk, CopyForwards, CopyFits, CallsOK, CallOK, Moved, Boundary, NoObjects,
        HasPointers, PointsToObject, ToBeForwarded, Due, Size, NewHeader, IsForwarded,
        Headers, InUse, Exists
  <2> QED
    BY <1>1, <1>2, <2>1 DEF IInv
<1>4. CASE AnyNext
  <2> SUFFICES HeapInv'
    BY <1>2 DEF IInv
  <2>1. CASE AnyEnter \/ AnyBody \/ AnyExport \/ AnyRestart \/ AnyFree \/ AnyFinish
    BY <1>1, <1>2, <2>1, EnterHeap, BodyHeap, ExportHeap, RestartHeap, FreeHeap, FinishHeap
  <2>2. CASE DoGeneration
    BY <1>1, <2>2, ForwardOtherHeap, ForwardAgainHeap, ForwardCopyHeap, ScanObjectHeap
    DEF DoGeneration
  <2>3. CASE GarbageCollect
    BY <1>1, <1>2, <2>3, CreateHeapHeap, CreateNextSpaceHeap, CollectStartHeap, CollectedHeap,
       StepBetweenHeap DEF GarbageCollect
  <2>4. CASE Export
    BY <1>1, <1>2, <2>4, CollectStartHeap, CollectedHeap, CopyOutHeap, ExportCopiedHeap,
       ExportReturnHeap, StepBetweenHeap DEF Export
  <2>5. CASE MallocFails
    BY <1>1, <1>2, <2>5, StepBetweenHeap
  <2> QED
    BY <1>4, <2>1, <2>2, <2>3, <2>4, <2>5 DEF AnyNext
<1> QED
  BY <1>3, <1>4

\* Whatever a mutator that keeps to gc.h does: every pointer of an object leads to
\* an object, none leads to a younger generation, and in the middle of a copy the
\* words that still point into the from-space are those forward is called for next.
THEOREM HeapWellFormed == AnySpec => []IInv
  BY InitInv, NextInv, PTL DEF AnySpec

\* The bookkeeping of spaces, next pointers and limits is that of module
\* Generations, whose theorems therefore hold of the collector that moves objects.
THEOREM CollectorImplementsGenerations == AnySpec => ImplementsGenerations
<1>1. IInv /\ [AnyNext]_vars => [GN!Next]_(GN!vars)
  BY BookkeepingHolds, Simulation DEF IInv
<1> QED
  BY <1>1, InitInv, HeapWellFormed, PTL DEF AnySpec, ImplementsGenerations, GN!Spec

-----------------------------------------------------------------------------
(* What the invariant says of the graph. *)

\* A pointer to an object that has not been forwarded leads into the used part of its
\* space.
LEMMA WholeValid ==
    ASSUME TypesOK, ObjectsOK, Bookkeeping, NEW v, PointsToObject(v),
           Hd_val(mem, v) # ZeroHeader
    PROVE  Valid(v)
<1>1. PICK s, j : /\ s \in Spaces /\ j \in Headers(s)
                  /\ s = SpaceOf(v) /\ j = IndexOf(v) - 1 /\ IndexOf(v) = j + 1
  BY DEF PointsToObject
<1>2. j \in Nat /\ j > 0 /\ IsHeader(mem[s][j])
  <2>1. j \in 1 .. Len(mem[s]) /\ Len(mem[s]) \in Nat
    BY <1>1, WordIndex
  <2> QED
    BY <1>1, <2>1 DEF Headers
<1>3. /\ mem[s][j] # ZeroHeader /\ Size(s, j) = Wosize_hd(mem[s][j])
      /\ Size(s, j) \in Nat /\ j + Size(s, j) <= InUse(s)
  BY <1>1 DEF ObjectsOK, Size, IsForwarded, Hd_val
<1>4. Hd_val(mem, v) = mem[s][j] /\ Wosize(mem, v) = Size(s, j)
  BY <1>1, <1>3 DEF Hd_val, Wosize
<1>5. j + 1 \in 2 .. InUse(s) + 1
  BY <1>1, <1>2, <1>3, InUseType
<1> QED
  BY <1>1, <1>2, <1>3, <1>4, <1>5 DEF Valid

LEMMA PointsValid ==
    ASSUME TypesOK, ObjectsOK, Bookkeeping, pc # "copying", NEW v, PointsToObject(v)
    PROVE  Valid(v)
<1>1. Hd_val(mem, v) # ZeroHeader
  BY DEF PointsToObject, ObjectsOK, Hd_val
<1> QED
  BY <1>1, WholeValid

\* The headers of the objects that ObjectsBetween names.
LEMMA ObjectsAre ==
    ASSUME TypesOK, NEW s \in Spaces, NEW m \in Nat, NEW n \in Nat, n <= Len(mem[s]),
           NEW v \in ObjectsBetween(s, m, n)
    PROVE  \E k \in Headers(s) :
               /\ k \in m + 1 .. n /\ k \in Nat /\ SpaceOf(v) = s /\ IndexOf(v) = k + 1
               /\ Hd_val(mem, v) = mem[s][k]
               /\ \A i \in Nat : Field(mem, v, i - 1) = mem[s][k + i]
<1>1. PICK k \in m + 1 .. n : IsHeader(mem[s][k]) /\ v = Ptr(s, k + 1)
  BY DEF ObjectsBetween
<1>2. k \in Headers(s) /\ k \in Nat
  BY <1>1, WordIndex DEF Headers
<1>3. SpaceOf(v) = s /\ IndexOf(v) = k + 1
  BY <1>1 DEF SpaceOf, IndexOf, Ptr
<1>4. Hd_val(mem, v) = mem[s][k]
  BY <1>2, <1>3 DEF Hd_val
<1>5. ASSUME NEW i \in Nat PROVE Field(mem, v, i - 1) = mem[s][k + i]
  <2>1. IndexOf(v) + (i - 1) = k + i
    BY <1>2, <1>3
  <2> QED
    BY <1>3, <2>1 DEF Field
<1> QED
  BY <1>1, <1>2, <1>3, <1>4, <1>5

\* Outside a copy, what the fields of an object hold is what they mean.
LEMMA FieldsPoint ==
    ASSUME HeapInv, Bookkeeping, pc # "copying", NEW s \in Spaces,
           NEW v \in ObjectsBetween(s, 0, InUse(s)),
           NEW i \in DOMAIN Children(v), IsPtr(Children(v)[i])
    PROVE  PointsToObject(Children(v)[i]) /\ SpaceOf(Children(v)[i]) >= s
<1>1. TypesOK /\ ObjectsOK /\ PointersOK
  BY DEF HeapInv
<1>2. InUse(s) \in Nat /\ InUse(s) <= Len(mem[s])
  BY <1>1, InUseType DEF ObjectsOK
<1>3. PICK k \in Headers(s) : /\ k \in Nat /\ Hd_val(mem, v) = mem[s][k]
                              /\ \A j \in Nat : Field(mem, v, j - 1) = mem[s][k + j]
  BY <1>1, <1>2, ObjectsAre
<1>4. mem[s][k] # ZeroHeader /\ Size(s, k) = Wosize_hd(mem[s][k]) /\ Size(s, k) \in Nat
  BY <1>1 DEF ObjectsOK, Size
<1>5. ~ No_scan(Tag_hd(mem[s][k]))
  BY <1>3 DEF Children
<1>6. i \in 1 .. Size(s, k) /\ Children(v)[i] = mem[s][k + i]
  <2>1. i \in 1 .. Wosize(mem, v) /\ Children(v)[i] = Field(mem, v, i - 1)
    BY <1>3, <1>5 DEF Children, Current
  <2> QED
    BY <1>3, <1>4, <2>1 DEF Wosize
<1>7. HasPointers(s, k) /\ k + i \in k + 1 .. k + Size(s, k)
  BY <1>3, <1>4, <1>5, <1>6 DEF HasPointers
<1> QED
  BY <1>1, <1>6, <1>7 DEF PointersOK, ToBeForwarded

\* gc.h: "older generations" point to no younger one while the mutator runs, the
\* assumption on which a collection of generation i looks at no older space.
THEOREM OldNeverPointsToYoung == AnySpec => []OldNeverPointsYoung
<1>1. IInv => OldNeverPointsYoung
  <2> SUFFICES ASSUME IInv, pc = "mutator", NEW s \in Gens \ {0},
                      NEW v \in ObjectsBetween(s, 0, InUse(s)), NEW i \in DOMAIN Children(v),
                      IsPtr(Children(v)[i])
               PROVE  SpaceOf(Children(v)[i]) >= s
    BY DEF OldNeverPointsYoung
  <2>1. s \in Spaces
    BY DEF Spaces
  <2> QED
    BY <2>1, FieldsPoint, BookkeepingHolds DEF IInv
<1> QED
  BY <1>1, HeapWellFormed, PTL

\* A collection or an export leaves no pointer to what it has moved, in a root or
\* in an object, live or not.
THEOREM NoPointerDangles == AnySpec => []NothingDangles
<1>1. IInv => NothingDangles
  <2> SUFFICES ASSUME IInv, pc \in {"mutator", "exported"} PROVE NothingDangles
    BY DEF NothingDangles
  <2>1. HeapInv /\ Bookkeeping /\ TypesOK /\ ObjectsOK /\ pc # "copying"
    BY BookkeepingHolds DEF IInv, HeapInv
  <2>2. ASSUME NEW k \in DOMAIN fi.roots, IsPtr(args[fi.roots[k]])
        PROVE  Valid(args[fi.roots[k]])
    BY <2>1, <2>2, PointsValid DEF HeapInv, RootsOK
  <2>3. ASSUME NEW s \in Spaces, NEW v \in ObjectsBetween(s, 0, InUse(s)),
               NEW i \in DOMAIN Children(v), IsPtr(Children(v)[i])
        PROVE  Valid(Children(v)[i])
    BY <2>1, <2>3, FieldsPoint, PointsValid
  <2> QED
    BY <2>2, <2>3 DEF NothingDangles
<1> QED
  BY <1>1, HeapWellFormed, PTL

\* do_scan and forward leave no word behind: in the middle of do_generation, the
\* roots forwarded and the objects scanned no longer point into the from-space.
THEOREM ScanLeavesNothingBehind == AnySpec => []ScannedPointsAway
<1>1. IInv => ScannedPointsAway
  <2> SUFFICES ASSUME IInv, pc = "copying" PROVE ScannedPointsAway
    BY DEF ScannedPointsAway
  <2> DEFINE due == {calls[k].p : k \in DOMAIN calls}
  <2>1. HeapInv /\ Bookkeeping /\ CopyContext
    BY BookkeepingHolds, Context DEF IInv
  <2>2. due = Due
    BY DEF Due, ToSet
  <2>3. ASSUME NEW k \in DOMAIN fi.roots
        PROVE  ~ Is_from(args[fi.roots[k]]) \/ ArgLoc(fi.roots[k]) \in due
    BY <2>1, <2>2 DEF HeapInv, RootsOK, Is_from
  <2>4. ASSUME NEW v \in ObjectsBetween(copy.to, copy.p, scan),
               ~ No_scan(Tag_hd(Hd_val(mem, v))), NEW i \in 1 .. Wosize(mem, v)
        PROVE  \/ ~ Is_from(Field(mem, v, i - 1))
               \/ MemLoc(copy.to, IndexOf(v) + i - 1) \in due
    <3>1. PICK t, f, p : /\ t = copy.to /\ f = copy.from /\ p = copy.p
                         /\ t \in Spaces /\ f \in Spaces /\ f < t /\ t # 0
                         /\ p \in Nat /\ scan \in Nat /\ scan <= next[t] /\ next[t] \in Nat
                         /\ next[t] <= Len(mem[t]) /\ Boundary(scan)
                         /\ TypesOK /\ ObjectsOK /\ PointersOK
      <4>1. copy.to \in Spaces /\ copy.to # 0 /\ copy.from \in Spaces /\ copy.from < copy.to
            /\ CopyWalk /\ TypesOK /\ ObjectsOK /\ PointersOK
        BY <2>1 DEF CopyContext, CopySpaces
      <4>2. next[copy.to] \in Nat /\ next[copy.to] <= Len(mem[copy.to])
        BY <4>1 DEF TypesOK, ObjectsOK, InUse
      <4> QED
        BY <4>1, <4>2 DEF CopyWalk
    <3>2. scan <= Len(mem[t])
      BY <3>1, WordIndex
    <3>3. PICK k \in Headers(t) :
              /\ k \in p + 1 .. scan /\ k \in Nat /\ IndexOf(v) = k + 1
              /\ Hd_val(mem, v) = mem[t][k]
              /\ \A j \in Nat : Field(mem, v, j - 1) = mem[t][k + j]
      <4>1. PICK n \in Nat : n = scan /\ n <= Len(mem[t])
        BY <3>1, <3>2
      <4>2. v \in ObjectsBetween(t, p, n)
        BY <2>4, <3>1, <4>1
      <4>3. \E k \in Headers(t) :
                /\ k \in p + 1 .. n /\ k \in Nat /\ SpaceOf(v) = t /\ IndexOf(v) = k + 1
                /\ Hd_val(mem, v) = mem[t][k]
                /\ \A j \in Nat : Field(mem, v, j - 1) = mem[t][k + j]
        <5>1. TypesOK /\ t \in Spaces /\ p \in Nat /\ n \in Nat /\ n <= Len(mem[t])
          BY <3>1, <4>1
        <5> QED
          BY <4>2, <5>1, ObjectsAre
      <4> QED
        BY <4>1, <4>3
    <3>4. f # t /\ f \in Nat /\ t \in Nat
      BY <3>1, SpaceNumbers
    <3>5. mem[t][k] # ZeroHeader /\ Size(t, k) = Wosize_hd(mem[t][k]) /\ Size(t, k) \in Nat
      BY <3>1, <3>4 DEF ObjectsOK, Size
    <3>6. PICK u : u = mem[t][k + i] /\ u = Field(mem, v, i - 1)
      BY <3>3, <3>5, <2>4 DEF Wosize
    <3>7. SUFFICES ASSUME IsPtr(u), SpaceOf(u) = f
                   PROVE  MemLoc(t, k + i) \in Due
      <4>1. k \in Nat /\ i \in Nat /\ (k + 1) + i - 1 = k + i
        BY <2>4, <3>3, <3>5 DEF Wosize
      <4>2. IndexOf(v) + i - 1 = k + i /\ copy.to = t /\ copy.from = f
        BY <3>1, <3>3, <4>1
      <4> QED
        BY <2>2, <3>6, <4>2 DEF Is_from
    <3>8. HasPointers(t, k) /\ k + i \in k + 1 .. k + Size(t, k)
      BY <2>4, <3>3, <3>5 DEF HasPointers, Wosize
    <3>9. ToBeForwarded(t, k + i)
      <4>1. IsPtr(mem[t][k + i]) /\ ~ (SpaceOf(mem[t][k + i]) >= t)
        BY <3>1, <3>4, <3>6, <3>7
      <4> QED
        BY <3>1, <3>8, <4>1 DEF PointersOK
    <3>10. k + Size(t, k) <= scan
      <4>1. CASE scan = next[t]
        <5>1. k + Size(t, k) <= InUse(t)
          BY <3>1 DEF ObjectsOK
        <5> QED
          BY <3>1, <4>1, <5>1 DEF InUse
      <4>2. CASE scan + 1 \in Headers(t)
        <5>1. k < scan + 1
          BY <3>1, <3>3
        <5>2. k + Size(t, k) < scan + 1
          BY <3>1, <4>2, <5>1, ObjectsApart
        <5> QED
          BY <3>1, <3>3, <3>5, <5>2
      <4> QED
        BY <3>1, <4>1, <4>2 DEF Boundary
    <3>11. ~ (k + i > scan)
      BY <3>1, <3>3, <3>5, <3>8, <3>10
    <3> QED
      BY <3>1, <3>9, <3>11 DEF ToBeForwarded
  <2> QED
    BY <2>3, <2>4 DEF ScannedPointsAway
<1> QED
  BY <1>1, HeapWellFormed, PTL

\* While do_generation runs, the words of the to-space that are in use are written
\* only where forward has been called for them.
LEMMA OnlyCalledForWritten ==
    ASSUME HeapInv, Bookkeeping, AnyNext, pc = "copying", pc' = "copying",
           NEW k \in 1 .. next[copy.to]
    PROVE  \/ mem'[copy.to][k] = mem[copy.to][k]
           \/ calls # <<>> /\ Head(calls).p = MemLoc(copy.to, k)
<1>1. CopyContext
  BY Context
<1>2. CASE ForwardOther \/ ScanObject
  BY <1>2 DEF ForwardOther, ScanObject, heapVars
<1>3. PICK t, f, loc, n : /\ t = copy.to /\ f = copy.from /\ loc = Head(calls).p
                          /\ n = next[t] /\ n \in Nat /\ n <= Len(mem[t]) /\ k \in 1 .. n
                          /\ t \in Spaces /\ k \in DOMAIN mem[t]
  <2>1. /\ copy.to \in Spaces /\ next[copy.to] \in Nat /\ next[copy.to] <= Len(mem[copy.to])
        /\ DOMAIN mem[copy.to] = 1 .. Len(mem[copy.to]) /\ Len(mem[copy.to]) \in Nat
    BY <1>1, ToSpaceIndex, WordIndex DEF CopyContext, CopySpaces
  <2> QED
    BY <2>1
<1>4. CASE ForwardAgain
  <2>1. PICK u : mem' = StoreMem(mem, loc, u) /\ calls # <<>>
    BY <1>3, <1>4 DEF ForwardAgain, Copying
  <2>2. MemoryOK(mem) /\ SameShape(mem, mem)
    BY <1>1, <1>3, WordIndex DEF CopyContext, SameShape
  <2>3. CallStored(mem, loc, u, StoreMem(mem, loc, u), StoreArgs(loc, u))
    BY <1>1, <1>3, <2>1, <2>2, StoreAtCall
  <2> QED
    BY <1>3, <2>1, <2>3 DEF CallStored
<1>5. CASE ForwardCopy
  <2>1. PICK j, sz, h : j = IndexOf(Read(loc)) - 1 /\ sz = Size(f, j) /\ h = next[t] + 1
    OBVIOUS
  <2>2. sz \in Nat \ {0} /\ h \in Nat \ {0} /\ CopyMade(f, t, loc, j, sz, h)
    BY <1>3, <1>5, <2>1, CopyIsMade
  <2>3. k \notin h .. h + sz
    BY <1>3, <2>1, <2>2
  <2>4. calls # <<>>
    BY <1>5 DEF ForwardCopy, Copying
  <2> QED
    BY <1>3, <2>2, <2>3, <2>4 DEF CopyMade
<1> QED
  BY <1>2, <1>4, <1>5
  DEF AnyNext, AnyEnter, Check, AnyBody, AnyExport, ExportUnboxed, ExportStart, AnyRestart,
      AnyFree, AnyFinish, DoGeneration, GarbageCollect, CreateHeap, StartCollection, CreateNextSpace,
      CollectGeneration, GenerationCollected, Resume, RanOutOfGenerations, Export,
      CollectAllGeneration, GenerationCollectedAll, CollectAllReturn, ExportCopy,
      ExportCopied, ExportCompact, ExportReturn, MallocFails, Stop

\* The data of a no_scan object may look like pointers into the from-space: neither
\* do_scan nor the depth-first part of forward changes it.
THEOREM NoScanDataKept == AnySpec => NoScanLeftAlone
<1> DEFINE Kept ==
        (pc = "copying" /\ pc' = "copying") =>
            \A v \in ObjectsBetween(copy.to, copy.p, next[copy.to]) :
                No_scan(Tag_hd(Hd_val(mem, v))) => Fields(mem', v) = Fields(mem, v)
<1>1. IInv /\ [AnyNext]_vars => [Kept]_vars
  <2> SUFFICES ASSUME IInv, AnyNext, pc = "copying", pc' = "copying",
                      NEW v \in ObjectsBetween(copy.to, copy.p, next[copy.to]),
                      No_scan(Tag_hd(Hd_val(mem, v)))
               PROVE  Fields(mem', v) = Fields(mem, v)
    OBVIOUS
  <2>1. HeapInv /\ Bookkeeping /\ CopyContext
    BY BookkeepingHolds, Context DEF IInv
  <2>2. PICK t, p, n : /\ t = copy.to /\ p = copy.p /\ n = next[t]
                       /\ t \in Spaces /\ p \in Nat /\ n \in Nat /\ n <= Len(mem[t])
                       /\ t # copy.from
    BY <2>1, ToSpaceIndex DEF CopyContext, CopySpaces, CopyWalk
  <2>3. PICK h \in Headers(t) :
            /\ h \in p + 1 .. n /\ h \in Nat /\ SpaceOf(v) = t /\ IndexOf(v) = h + 1
            /\ Hd_val(mem, v) = mem[t][h]
            /\ \A i \in Nat : Field(mem, v, i - 1) = mem[t][h + i]
    <3>1. /\ TypesOK /\ v \in ObjectsBetween(t, p, n)
          /\ t \in Spaces /\ p \in Nat /\ n \in Nat /\ n <= Len(mem[t])
      BY <2>1, <2>2 DEF HeapInv
    <3> QED
      BY <3>1, ObjectsAre
  <2>4. PICK sz : sz = Size(t, h) /\ sz = Wosize_hd(mem[t][h]) /\ sz \in Nat /\ h + sz <= n
    BY <2>1, <2>2, <2>3, ToSpaceIndex DEF Size
  <2>5. ASSUME NEW k \in h .. h + sz PROVE mem'[t][k] = mem[t][k]
    <3>1. SUFFICES ASSUME calls # <<>>, Head(calls).p = MemLoc(t, k) PROVE FALSE
      <4>1. k \in 1 .. n
        <5>1. p \in Nat /\ n \in Nat /\ sz \in Nat /\ h \in p + 1 .. n /\ h + sz <= n
          BY <2>2, <2>3, <2>4
        <5> QED
          BY <5>1
      <4>2. k \in 1 .. next[copy.to]
        BY <2>2, <4>1
      <4> QED
        BY <2>1, <2>2, <4>2, OnlyCalledForWritten
    <3>2. CallOK(Head(calls))
      BY <2>1, <3>1, HeadCall DEF CopyContext
    <3>3. PICK j \in Headers(t) : HasPointers(t, j) /\ k \in j + 1 .. j + Size(t, j)
      <4>1. PICK c : c = Head(calls) /\ CallOK(c) /\ c.p = MemLoc(t, k)
        BY <3>1, <3>2
      <4>2. \A a : MemLoc(t, k) # ArgLoc(a)
        BY DEF MemLoc, ArgLoc
      <4>3. \A i : MemLoc(t, k) = MemLoc(t, i) => k = i
        BY DEF MemLoc
      <4> QED
        BY <2>1, <2>2, <4>1, <4>2, <4>3, CallSites
    <3>4. j \in Nat /\ Size(t, j) \in Nat /\ k \in Nat
      BY <2>1, <2>2, <2>3, <2>4, <3>3, ToSpaceIndex, WordIndex DEF CopyContext
    <3>5. k \in j .. j + Size(t, j) /\ k \in h .. h + Size(t, h)
      BY <2>4, <3>3, <3>4
    <3>6. j = h
      BY <2>1, <2>2, <2>3, <3>3, <3>4, <3>5, OneObject DEF HeapInv
    <3> QED
      BY <2>3, <3>3, <3>6 DEF HasPointers
  <2>6. ASSUME NEW i \in 1 .. sz PROVE Field(mem', v, i - 1) = Field(mem, v, i - 1)
    <3>1. IndexOf(v) + (i - 1) = h + i /\ h + i \in h .. h + sz
      BY <2>3, <2>4
    <3> QED
      BY <2>3, <2>5, <3>1 DEF Field
  <2>7. Wosize(mem', v) = sz /\ Wosize(mem, v) = sz
    <3>1. IndexOf(v) - 1 = h /\ h \in h .. h + sz
      BY <2>3, <2>4
    <3> QED
      BY <2>3, <2>4, <2>5, <3>1 DEF Wosize, Hd_val
  <2> QED
    BY <2>6, <2>7 DEF Fields
<1> QED
  BY <1>1, HeapWellFormed, PTL DEF AnySpec, NoScanLeftAlone

-----------------------------------------------------------------------------
(* Each step of the collector is an isomorphism. *)

\* Outside a copy nothing stands for something else; nor does a word of the to-space.
LEMMA CurrentSame ==
    ASSUME NEW x, pc # "copying" \/ ~ IsPtr(x) \/ SpaceOf(x) # copy.from
    PROVE  Current(x) = x
  BY DEF Current

\* What a pointer to an object stands for is an object that has not been forwarded.
LEMMA CurrentValid ==
    ASSUME HeapInv, Bookkeeping, NEW x, IsPtr(x), PointsToObject(x), NEW u, u = Current(x)
    PROVE  /\ IsPtr(u) /\ Valid(u)
           /\ pc = "copying" /\ SpaceOf(u) = copy.from =>
                  u = x /\ ~ IsForwarded(IndexOf(x) - 1)
<1>1. PICK s, j : /\ s \in Spaces /\ j \in Headers(s) /\ s = SpaceOf(x)
                  /\ j = IndexOf(x) - 1 /\ IndexOf(x) \in Nat /\ IndexOf(x) = j + 1
  BY DEF PointsToObject
<1>2. TypesOK /\ ObjectsOK /\ j \in DOMAIN mem[s] /\ Hd_val(mem, x) = mem[s][j]
  BY <1>1 DEF HeapInv, Headers, Hd_val
<1>3. CASE ~ (pc = "copying" /\ s = copy.from /\ mem[s][j] = ZeroHeader)
  <2>1. u = x
    BY <1>1, <1>2, <1>3 DEF Current
  <2>2. mem[s][j] # ZeroHeader
    BY <1>1, <1>2, <1>3 DEF ObjectsOK
  <2> QED
    BY <1>1, <1>2, <1>3, <2>1, <2>2, WholeValid DEF IsForwarded
<1>4. CASE pc = "copying" /\ s = copy.from /\ mem[s][j] = ZeroHeader
  <2>1. u = mem[s][j + 1]
    <3>1. IndexOf(x) + 0 = j + 1
      BY <1>1
    <3> QED
      BY <1>1, <1>2, <1>4, <3>1 DEF Current, Field
  <2>2. CopyContext
    BY <1>4, Context
  <2>3. PICK t, h : /\ t = copy.to /\ h = IndexOf(u) - 1 /\ IsPtr(u) /\ SpaceOf(u) = t
                    /\ IndexOf(u) \in Nat /\ h \in Headers(t) /\ t \in Spaces /\ t # s
    BY <1>1, <1>4, <2>1, <2>2, ToSpaceIndex
    DEF CopyContext, CopySpaces, CopyForwards, IsForwarded, NewHeader
  <2>4. mem[t][h] # ZeroHeader
    BY <1>2, <1>4, <2>3 DEF ObjectsOK
  <2>5. Hd_val(mem, u) # ZeroHeader /\ PointsToObject(u)
    BY <2>3, <2>4 DEF Hd_val, PointsToObject
  <2>6. Valid(u)
    BY <1>2, <2>5, WholeValid
  <2> QED
    BY <1>1, <1>4, <2>3, <2>6
<1> QED
  BY <1>3, <1>4

\* A value a field or a root may hold.
Known(x) == IsPtr(x) => PointsToObject(x)

\* The objects, by their headers.
LEMMA ObjectsHave ==
    ASSUME HeapInv, Bookkeeping, NEW v \in Objects
    PROVE  \E s \in Spaces : \E k \in Headers(s) :
               /\ v = Ptr(s, k + 1) /\ k \in Nat /\ mem[s][k] # ZeroHeader
               /\ Hd_val(mem, v) = mem[s][k] /\ Wosize(mem, v) = Size(s, k)
               /\ Size(s, k) \in Nat
               /\ \A i \in Nat : Field(mem, v, i - 1) = mem[s][k + i]
<1>1. PICK s \in Spaces : v \in ObjectsBetween(s, 0, InUse(s))
  BY DEF Objects
<1>2. TypesOK /\ InUse(s) \in Nat /\ InUse(s) <= Len(mem[s])
  BY InUseType DEF HeapInv, ObjectsOK
<1>3. PICK k \in Headers(s) :
          /\ k \in Nat /\ SpaceOf(v) = s /\ IndexOf(v) = k + 1 /\ Hd_val(mem, v) = mem[s][k]
          /\ \A i \in Nat : Field(mem, v, i - 1) = mem[s][k + i]
  BY <1>2, <1>1, ObjectsAre
<1>4. v = Ptr(s, k + 1)
  BY <1>1, <1>3 DEF ObjectsBetween, Ptr, SpaceOf, IndexOf
<1>5. mem[s][k] # ZeroHeader
  BY <1>3 DEF Objects
<1>6. Wosize(mem, v) = Size(s, k) /\ Size(s, k) \in Nat
  BY <1>3, <1>5 DEF Wosize, Size, IsForwarded, HeapInv, ObjectsOK
<1> QED
  BY <1>3, <1>4, <1>5, <1>6

\* do_generation ends when forward is due nowhere and all that was copied is scanned.
LEMMA CopyEnds ==
    ASSUME AnyNext, pc = "copying", pc' # "copying"
    PROVE  calls = <<>> /\ scan >= next[copy.to]
  BY DEF AnyNext, AnyEnter, Check, AnyBody, AnyExport, ExportUnboxed, ExportStart, AnyRestart,
      AnyFree, AnyFinish, DoGeneration, ForwardOther, ForwardAgain, ForwardCopy, ScanObject, Copying,
      GarbageCollect, CreateHeap, StartCollection, CreateNextSpace,
      CollectGeneration, GenerationCollected, GenerationCopied, Resume, RanOutOfGenerations,
      Export, CollectAllGeneration, GenerationCollectedAll, CollectAllReturn, ExportCopy,
      ExportCopied, ExportCompact, ExportReturn, MallocFails, Stop

\* What a step inside of do_generation may be.
LEMMA CopyGoesOn ==
    ASSUME AnyNext, pc = "copying", pc' = "copying"
    PROVE  DoGeneration /\ UNCHANGED <<copy, fi>>
<1>1. DoGeneration
  BY DEF AnyNext, AnyEnter, Check, AnyBody, AnyExport, ExportUnboxed, ExportStart, AnyRestart,
      AnyFree, AnyFinish,
      GarbageCollect, CreateHeap, StartCollection, CreateNextSpace,
      CollectGeneration, GenerationCollected, GenerationCopied, Resume, RanOutOfGenerations,
      Export, CollectAllGeneration, GenerationCollectedAll, CollectAllReturn, ExportCopy,
      ExportCopied, ExportCompact, ExportReturn, MallocFails, Stop
<1>2. UNCHANGED <<copy, fi>>
  BY <1>1 DEF DoGeneration, ForwardOther, ForwardAgain, ForwardCopy, ScanObject
<1> QED
  BY <1>1, <1>2

\* Between the copies nothing moves but for what the end of a copy gives up.
LEMMA StayInPlace ==
    ASSUME HeapInv, Bookkeeping, AnyNext, CollectorRuns, pc # "copying" \/ pc' # "copying"
    PROVE  /\ UNCHANGED <<args, fi>>
           /\ \A s \in Spaces : Headers(s) # {} /\ (pc = "copying" => s # copy.from)
                  => mem'[s] = mem[s]
<1>1. TypesOK /\ SpacesOK /\ DOMAIN mem = Spaces
  BY DEF HeapInv, TypesOK
<1>2. UNCHANGED <<args, fi>>
  <2>1. GarbageCollect \/ Export \/ MallocFails
    BY DEF CollectorRuns, AnyNext, AnyEnter, Check, AnyBody, AnyExport, ExportUnboxed,
           ExportStart, AnyRestart, AnyFree, AnyFinish, DoGeneration, ForwardOther, ForwardAgain,
           ForwardCopy, ScanObject, Copying
  <2>2. CASE GarbageCollect
    BY <2>2 DEF GarbageCollect, CreateHeap, StartCollection, CreateNextSpace,
      CollectGeneration, GenerationCollected, RanOutOfGenerations, Stop, heapVars
  <2>3. CASE Export
    BY <2>3 DEF Export, CollectAllGeneration, GenerationCollectedAll, CollectAllReturn,
      ExportCopy, CopyOut, ExportCopied, ExportCompact, ExportReturn
  <2>4. CASE MallocFails
    BY <2>4 DEF MallocFails, Stop, heapVars
  <2> QED
    BY <2>1, <2>2, <2>3, <2>4
<1>3. CASE /\ pc = "copying" /\ copy.from \in Spaces
           /\ \E w : mem' = [mem EXCEPT ![copy.from] = w]
  BY <1>1, <1>2, <1>3
<1>4. CASE /\ pc # "copying"
           /\ \E s \in Spaces : mem[s] = <<>> /\ \E w : mem' = [mem EXCEPT ![s] = w]
  <2>1. PICK s \in Spaces : mem[s] = <<>> /\ \E w : mem' = [mem EXCEPT ![s] = w]
    BY <1>4
  <2>2. Headers(s) = {}
    BY <1>1, <2>1, EmptyNoObjects DEF NoObjects
  <2> QED
    BY <1>1, <1>2, <2>1, <2>2
<1>5. CASE mem' = mem
  BY <1>2, <1>5
<1>6. CASE pc = "copying" /\ pc' # "copying"
  <2>1. CopyContext /\ CopyPlan
    BY <1>6, Context DEF HeapInv, CopyOK
  <2>2. copy.from \in Spaces
    BY <2>1 DEF CopyContext, CopySpaces
  <2>3. \/ \E w : mem' = [mem EXCEPT ![copy.from] = w]
        \/ mem' = [mem EXCEPT ![FakeSp] = <<>>] /\ copy.caller = "compact"
    BY <1>6
    DEF AnyNext, AnyEnter, Check, AnyBody, AnyExport, ExportUnboxed, ExportStart, AnyRestart,
      AnyFree, AnyFinish, DoGeneration, ForwardOther, ForwardAgain, ForwardCopy, ScanObject, EmptyFrom,
      GarbageCollect, CreateHeap, StartCollection, CreateNextSpace,
      CollectGeneration, GenerationCollected, GenerationCopied, RanOutOfGenerations,
      Export, CollectAllGeneration, GenerationCollectedAll, CollectAllReturn, ExportCopy,
      ExportCopied, ExportCompact, ExportReturn, MallocFails, Stop
  <2>4. copy.caller = "compact" => copy.from = FakeSp
    BY <2>1 DEF CopyPlan
  <2> QED
    BY <1>3, <1>6, <2>2, <2>3, <2>4
<1>7. CASE pc # "copying"
  <2>1. CASE CreateHeap
    <3>1. 0 \in Spaces
      BY SpaceNumbers
    <3>2. mem[0] = <<>> /\ mem' = [mem EXCEPT ![0] = EmptySpace(NURSERY_SIZE)]
      BY <2>1 DEF CreateHeap, HeapExists
    <3>3. \E w : mem' = [mem EXCEPT ![0] = w]
      BY <3>2
    <3> QED
      BY <1>4, <1>7, <3>1, <3>2, <3>3
  <2>2. CASE CreateNextSpace
    <3>1. gen + 1 \in Spaces
      BY <2>2, SpaceNumbers DEF CreateNextSpace, Bookkeeping, Gens
    <3> QED
      BY <1>4, <1>7, <2>2, <3>1 DEF CreateNextSpace, Exists
  <2>3. CASE ExportCopy
    <3>1. pc = "export" /\ mem[FakeSp] = <<>> /\ FakeSp \in Spaces
      BY <1>1, <2>3 DEF ExportCopy, SpacesOK, Dead, Spaces
    <3> QED
      BY <1>4, <1>7, <2>3, <3>1 DEF ExportCopy, CopyOut
  <2>4. CASE ExportCompact
    <3>1. pc = "compact" /\ mem[ValueSp] = <<>> /\ ValueSp \in Spaces
      BY <1>1, <2>4 DEF ExportCompact, SpacesOK, Dead, Spaces
    <3> QED
      BY <1>4, <1>7, <2>4, <3>1 DEF ExportCompact, CopyOut
  <2> QED
    BY <1>5, <1>7, <2>1, <2>2, <2>3, <2>4
    DEF CollectorRuns, AnyNext, AnyEnter, Check, AnyBody, AnyExport, ExportUnboxed, ExportStart, AnyRestart,
      AnyFree, AnyFinish, DoGeneration, ForwardOther, ForwardAgain, ForwardCopy, ScanObject, Copying, heapVars,
      GarbageCollect, StartCollection, GenerationCopied,
      CollectGeneration, GenerationCollected, RanOutOfGenerations,
      Export, CollectAllGeneration, GenerationCollectedAll, CollectAllReturn,
      ExportCopied, ExportReturn, MallocFails, Stop
<1> QED
  BY <1>6, <1>7

\* What a value stands for after a step inside of do_generation.
LEMMA CurrentAfter ==
    ASSUME pc' = "copying", copy' = copy, NEW f, f = copy.from, NEW x
    PROVE  /\ ~ IsPtr(x) \/ SpaceOf(x) # f \/ mem'[f][IndexOf(x) - 1] # ZeroHeader
                  => Current(x)' = x
           /\ (/\ IsPtr(x) /\ SpaceOf(x) = f /\ IndexOf(x) \in Nat
               /\ IndexOf(x) - 1 \in DOMAIN mem'[f] /\ mem'[f][IndexOf(x) - 1] = ZeroHeader)
                  => Current(x)' = mem'[f][IndexOf(x)]
<1>1. ASSUME IsPtr(x), SpaceOf(x) = f, IndexOf(x) \in Nat,
             IndexOf(x) - 1 \in DOMAIN mem'[f], mem'[f][IndexOf(x) - 1] = ZeroHeader
      PROVE  Current(x)' = mem'[f][IndexOf(x)]
  <2>1. IndexOf(x) + 0 = IndexOf(x)
    BY <1>1
  <2> QED
    BY <1>1, <2>1 DEF Current, Hd_val, Field
<1>2. ASSUME ~ IsPtr(x) \/ SpaceOf(x) # f \/ mem'[f][IndexOf(x) - 1] # ZeroHeader
      PROVE  Current(x)' = x
  BY <1>2 DEF Current, Hd_val
<1> QED
  BY <1>1, <1>2

\* Inside of do_generation a header of the from-space is zeroed once, when the object
\* is copied; from then on the object remembers where its copy is.
LEMMA FromSpaceKept ==
    ASSUME HeapInv, Bookkeeping, AnyNext, pc = "copying", pc' = "copying",
           NEW f, f = copy.from, NEW k \in Headers(f)
    PROVE  /\ k \in DOMAIN mem'[f]
           /\ IsForwarded(k) => mem'[f][k] = ZeroHeader /\ mem'[f][k + 1] = mem[f][k + 1]
           /\ ~ ForwardCopy => mem'[f] = mem[f]
<1>1. CopyContext /\ DoGeneration /\ f \in Spaces /\ k \in DOMAIN mem[f] /\ f # copy.to
  BY Context, CopyGoesOn, ToSpaceIndex DEF CopyContext, CopySpaces, Headers
<1>2. CASE ForwardOther \/ ScanObject
  BY <1>1, <1>2 DEF ForwardOther, ScanObject, heapVars, IsForwarded
<1>3. CASE ForwardAgain
  <2>1. PICK loc, u : loc = Head(calls).p /\ mem' = StoreMem(mem, loc, u) /\ calls # <<>>
    BY <1>3 DEF ForwardAgain, Copying
  <2>2. MemoryOK(mem) /\ SameShape(mem, mem)
    BY <1>1, WordIndex DEF CopyContext, SameShape
  <2>3. CallStored(mem, loc, u, StoreMem(mem, loc, u), StoreArgs(loc, u))
    BY <1>1, <2>1, <2>2, StoreAtCall
  <2>4. mem'[f] = mem[f]
    BY <1>1, <2>1, <2>3 DEF CallStored
  <2> QED
    BY <1>1, <2>4 DEF IsForwarded
<1>4. CASE ForwardCopy
  <2>1. PICK t, loc, j, sz, h :
            /\ t = copy.to /\ loc = Head(calls).p /\ j = IndexOf(Read(loc)) - 1
            /\ sz = Size(f, j) /\ h = next[t] + 1
    OBVIOUS
  <2>2. /\ j \in Headers(f) /\ ~ IsForwarded(j) /\ sz \in Nat \ {0} /\ h \in Nat \ {0}
        /\ h + sz <= Len(mem[t]) /\ sz = Wosize_hd(mem[f][j]) /\ CopyMade(f, t, loc, j, sz, h)
    BY <1>4, <2>1, CopyIsMade
  <2>3. UNCHANGED <<pc, copy>>
    BY <1>4 DEF ForwardCopy
  <2>4. ObjectsAfterCopy(f, t, j, sz, h)
    BY <1>1, <2>1, <2>2, <2>3, CopyMadeObjects
  <2>5. k \in DOMAIN mem'[f]
    BY <1>1, <2>2 DEF CopyMade
  <2>6. IsForwarded(k) => k # j
    BY <2>2
  <2>7. IsForwarded(k) => mem'[f][k] = ZeroHeader /\ mem'[f][k + 1] = mem[f][k + 1]
    BY <1>1, <2>4, <2>6 DEF ObjectsAfterCopy, IsForwarded
  <2> QED
    BY <1>4, <2>5, <2>7
<1> QED
  BY <1>1, <1>2, <1>3, <1>4 DEF DoGeneration

\* What a value stands for stands for the same after the step.
LEMMA MeaningKept ==
    ASSUME HeapInv, Bookkeeping, AnyNext, NEW x, Known(x),
           IsPtr(x) => Survives(x), NEW u, u = Current(x)
    PROVE  /\ IsPtr(u) => Valid(u) /\ Survives(u)
           /\ Current(u)' = Current(x)'
<1>1. CASE ~ IsPtr(x)
  BY <1>1, CurrentSame
<1>2. CASE IsPtr(x)
  <2>1. PointsToObject(x) /\ Survives(x) /\ Valid(u)
    BY <1>2, CurrentValid DEF Known
  <2>2. CASE u = x
    BY <2>1, <2>2
  <2>3. CASE u # x
    <3>1. pc = "copying" /\ SpaceOf(x) = copy.from
      BY <2>3, CurrentSame
    <3>2. pc' = "copying" /\ copy' = copy
      BY <2>1, <3>1, CopyGoesOn DEF Survives
    <3>3. SpaceOf(u) # copy.from
      BY <1>2, <2>1, <2>3, <3>1, CurrentValid
    <3>4. Survives(u)
      BY <3>3 DEF Survives
    <3>5. PICK f, j : /\ f = copy.from /\ j = IndexOf(x) - 1 /\ j \in Headers(f)
                      /\ IndexOf(x) \in Nat /\ IndexOf(x) = j + 1
      BY <2>1, <3>1 DEF PointsToObject
    <3>6. IsForwarded(j) /\ u = mem[f][j + 1]
      <4>1. IndexOf(x) + 0 = j + 1
        BY <3>5
      <4> QED
        BY <2>3, <3>1, <3>5, <4>1 DEF Current, Hd_val, Field, IsForwarded
    <3>7. /\ j \in DOMAIN mem'[f] /\ mem'[f][j] = ZeroHeader /\ mem'[f][j + 1] = u
      BY <3>1, <3>2, <3>5, <3>6, FromSpaceKept
    <3>8. Current(x)' = u
      <4>1. /\ IsPtr(x) /\ SpaceOf(x) = f /\ IndexOf(x) \in Nat
            /\ IndexOf(x) - 1 \in DOMAIN mem'[f] /\ mem'[f][IndexOf(x) - 1] = ZeroHeader
            /\ pc' = "copying" /\ copy' = copy /\ f = copy.from /\ mem'[f][IndexOf(x)] = u
        BY <1>2, <3>1, <3>2, <3>5, <3>7
      <4> QED
        BY <4>1, CurrentAfter
    <3>9. Current(u)' = u
      BY <3>2, <3>3, CurrentAfter
    <3> QED
      BY <2>1, <3>4, <3>8, <3>9
  <2> QED
    BY <2>2, <2>3
<1> QED
  BY <1>1, <1>2

\* After the step, value b stands for what a stands for.
SameMeaning(a, b) == Current(b)' = Current(a)'

\* Where forward is called, a pointer is replaced by one that means the same.
LEMMA WordsFollow ==
    ASSUME HeapInv, Bookkeeping, AnyNext, pc = "copying", pc' = "copying",
           NEW t, t = copy.to
    PROVE  /\ \A k \in ArgSlots : \A a, b :
                  a = args[k] /\ b = args'[k] => SameMeaning(a, b)
           /\ \A i \in 1 .. next[t] : \A a, b :
                  a = mem[t][i] /\ b = mem'[t][i] => SameMeaning(a, b)
<1>1. /\ CopyContext /\ DoGeneration /\ copy' = copy /\ t \in Spaces
      /\ next[t] \in Nat /\ next[t] <= Len(mem[t]) /\ DOMAIN mem[t] = 1 .. Len(mem[t])
      /\ Len(mem[t]) \in Nat
  BY Context, CopyGoesOn, ToSpaceIndex, WordIndex DEF CopyContext, CopySpaces
<1>2. CASE ForwardOther \/ ScanObject
  BY <1>1, <1>2 DEF ForwardOther, ScanObject, heapVars, SameMeaning
<1>3. ASSUME NEW loc, NEW x, NEW y, x = Read(loc), SameMeaning(x, y),
             \A k \in ArgSlots : args'[k] = IF loc = ArgLoc(k) THEN y ELSE args[k],
             \A i \in 1 .. next[t] : mem'[t][i] = IF loc = MemLoc(t, i) THEN y ELSE mem[t][i]
      PROVE  /\ \A k \in ArgSlots : \A a, b :
                    a = args[k] /\ b = args'[k] => SameMeaning(a, b)
             /\ \A i \in 1 .. next[t] : \A a, b :
                    a = mem[t][i] /\ b = mem'[t][i] => SameMeaning(a, b)
  <2>1. ASSUME NEW k \in ArgSlots, NEW a, NEW b, a = args[k], b = args'[k]
        PROVE  SameMeaning(a, b)
    <3>1. CASE loc = ArgLoc(k)
      <4>1. x = a /\ y = b
        BY <1>3, <2>1, <3>1 DEF Read, ArgLoc
      <4> QED
        BY <1>3, <4>1
    <3>2. CASE loc # ArgLoc(k)
      BY <1>3, <2>1, <3>2 DEF SameMeaning
    <3> QED
      BY <3>1, <3>2
  <2>2. ASSUME NEW i \in 1 .. next[t], NEW a, NEW b, a = mem[t][i], b = mem'[t][i]
        PROVE  SameMeaning(a, b)
    <3>1. CASE loc = MemLoc(t, i)
      <4>1. x = a /\ y = b
        BY <1>3, <2>2, <3>1 DEF Read, MemLoc
      <4> QED
        BY <1>3, <4>1
    <3>2. CASE loc # MemLoc(t, i)
      BY <1>3, <2>2, <3>2 DEF SameMeaning
    <3> QED
      BY <3>1, <3>2
  <2> QED
    BY <2>1, <2>2
<1>4. PICK f, loc, x : f = copy.from /\ loc = Head(calls).p /\ x = Read(loc)
  OBVIOUS
<1>5. CASE ForwardAgain
  <2>1. PICK y, j : /\ y = Field(mem, x, 0) /\ j = IndexOf(x) - 1 /\ calls # <<>>
                    /\ mem' = StoreMem(mem, loc, y) /\ args' = StoreArgs(loc, y)
                    /\ Is_from(x) /\ Hd_val(mem, x) = ZeroHeader
    BY <1>4, <1>5 DEF ForwardAgain, Copying
  <2>2. MemoryOK(mem) /\ SameShape(mem, mem)
    BY <1>1, WordIndex DEF CopyContext, SameShape
  <2>3. CallStored(mem, loc, y, StoreMem(mem, loc, y), StoreArgs(loc, y))
    BY <1>1, <1>4, <2>1, <2>2, StoreAtCall
  <2>4. /\ IndexOf(x) \in Nat /\ j \in Headers(f) /\ IndexOf(x) = j + 1 /\ IsPtr(x)
        /\ SpaceOf(x) = f /\ IsForwarded(j) /\ y = mem[f][j + 1]
    <3>1. IndexOf(x) \in Nat /\ j \in Headers(f) /\ IsPtr(x) /\ SpaceOf(x) = f
      <4>1. CallOK(Head(calls)) /\ loc \in Due
        BY <1>1, <1>4, <2>1, HeadCall DEF CopyContext
      <4>2. PICK c : c = Head(calls) /\ CallOK(c) /\ c.p = loc
        BY <1>4, <4>1
      <4>3. Is_from(Read(c.p)) /\ c.p \in Due
        BY <1>4, <2>1, <4>1, <4>2
      <4>4. IndexOf(Read(c.p)) \in Nat /\ IndexOf(Read(c.p)) - 1 \in Headers(copy.from)
        BY <1>1, <4>2, <4>3, CallFollows
      <4> QED
        BY <1>4, <2>1, <4>2, <4>4 DEF Is_from
    <3>2. IndexOf(x) = j + 1 /\ IndexOf(x) + 0 = j + 1
      BY <2>1, <3>1
    <3> QED
      BY <2>1, <3>1, <3>2, <1>4 DEF Field, Hd_val, IsForwarded
  <2>5. j \in DOMAIN mem'[f] /\ mem'[f][j] = ZeroHeader /\ mem'[f][j + 1] = y
    BY <1>4, <2>4, FromSpaceKept
  <2>6. SpaceOf(y) # f
    BY <1>1, <1>4, <2>4, ToSpaceIndex DEF CopyContext, CopyForwards
  <2>7. Current(y)' = y
    BY <1>1, <1>4, <2>6, CurrentAfter
  <2>8. Current(x)' = y
    <3>1. /\ IsPtr(x) /\ SpaceOf(x) = f /\ IndexOf(x) \in Nat
          /\ IndexOf(x) - 1 \in DOMAIN mem'[f] /\ mem'[f][IndexOf(x) - 1] = ZeroHeader
          /\ pc' = "copying" /\ copy' = copy /\ f = copy.from /\ mem'[f][IndexOf(x)] = y
      BY <1>1, <1>4, <2>1, <2>4, <2>5
    <3> QED
      BY <3>1, CurrentAfter
  <2>9. SameMeaning(x, y)
    BY <2>7, <2>8 DEF SameMeaning
  <2>10. /\ \A k \in ArgSlots : args'[k] = IF loc = ArgLoc(k) THEN y ELSE args[k]
         /\ \A i \in 1 .. next[t] : mem'[t][i] = IF loc = MemLoc(t, i) THEN y ELSE mem[t][i]
    BY <1>1, <2>1, <2>3 DEF CallStored
  <2> QED
    BY <1>3, <1>4, <2>9, <2>10
<1>6. CASE ForwardCopy
  <2>1. PICK j, sz, h, y : /\ j = IndexOf(Read(loc)) - 1 /\ sz = Size(f, j)
                           /\ h = next[t] + 1 /\ y = Ptr(t, h + 1)
    OBVIOUS
  <2>2. /\ j \in Headers(f) /\ sz \in Nat \ {0} /\ h \in Nat \ {0}
        /\ h + sz <= Len(mem[t]) /\ CopyMade(f, t, loc, j, sz, h)
    BY <1>4, <1>6, <2>1, CopyIsMade
  <2>3. f \in Spaces /\ j \in DOMAIN mem[f] /\ t # f
    BY <1>1, <1>4, <2>2, ToSpaceIndex DEF CopyContext, CopySpaces, Headers
  <2>4. /\ IsPtr(x) /\ SpaceOf(x) = f /\ IndexOf(x) = j + 1 /\ IndexOf(x) \in Nat
    <3>1. Is_from(x)
      BY <1>4, <1>6 DEF ForwardCopy
    <3>2. IndexOf(x) \in Nat
      <4>1. calls # <<>>
        BY <1>6 DEF ForwardCopy, Copying
      <4>2. CallOK(Head(calls)) /\ loc \in Due
        BY <1>1, <1>4, <4>1, HeadCall DEF CopyContext
      <4>3. PICK c : c = Head(calls) /\ CallOK(c) /\ c.p = loc
        BY <1>4, <4>2
      <4>4. Is_from(Read(c.p)) /\ c.p \in Due
        BY <1>4, <3>1, <4>2, <4>3
      <4>5. IndexOf(Read(c.p)) \in Nat
        BY <1>1, <4>3, <4>4, CallFollows
      <4> QED
        BY <1>4, <4>3, <4>5
    <3> QED
      BY <1>4, <2>1, <3>1, <3>2 DEF Is_from
  <2>5. SpaceOf(y) = t
    BY <2>1 DEF Ptr, SpaceOf
  <2>6. Current(y)' = y
    BY <1>1, <1>4, <2>3, <2>5, CurrentAfter
  <2>7. j \in DOMAIN mem'[f] /\ mem'[f][j] = ZeroHeader /\ mem'[f][j + 1] = y
    BY <2>1, <2>2, <2>3 DEF CopyMade
  <2>8. Current(x)' = y
    <3>1. /\ IsPtr(x) /\ SpaceOf(x) = f /\ IndexOf(x) \in Nat
          /\ IndexOf(x) - 1 \in DOMAIN mem'[f] /\ mem'[f][IndexOf(x) - 1] = ZeroHeader
          /\ pc' = "copying" /\ copy' = copy /\ f = copy.from /\ mem'[f][IndexOf(x)] = y
      BY <1>1, <1>4, <2>1, <2>4, <2>7
    <3> QED
      BY <3>1, CurrentAfter
  <2>9. SameMeaning(x, y)
    BY <2>6, <2>8 DEF SameMeaning
  <2>10. \A k \in ArgSlots : args'[k] = IF loc = ArgLoc(k) THEN y ELSE args[k]
    BY <2>1, <2>2 DEF CopyMade
  <2>11. ASSUME NEW i \in 1 .. next[t]
         PROVE  mem'[t][i] = IF loc = MemLoc(t, i) THEN y ELSE mem[t][i]
    <3>1. i \in DOMAIN mem[t] /\ i \notin h .. h + sz
      BY <1>1, <2>1, <2>2
    <3> QED
      BY <2>1, <2>2, <3>1 DEF CopyMade
  <2> QED
    BY <1>3, <1>4, <2>9, <2>10, <2>11
<1> QED
  BY <1>1, <1>2, <1>5, <1>6 DEF DoGeneration

\* Headers and raw data in the to-space are not written.
LEMMA NotCalledFor ==
    ASSUME HeapInv, Bookkeeping, AnyNext, pc = "copying", pc' = "copying",
           NEW t, t = copy.to, NEW k \in Headers(t), NEW i \in k .. k + Size(t, k),
           i = k \/ No_scan(Tag_hd(mem[t][k]))
    PROVE  i \in 1 .. next[t] /\ mem'[t][i] = mem[t][i]
<1>1. CopyContext /\ t \in Spaces
  BY Context DEF CopyContext, CopySpaces
<1>2. PICK n, sz : /\ n = next[t] /\ n \in Nat /\ sz = Size(t, k) /\ sz \in Nat
                   /\ k \in Nat \ {0} /\ k + sz <= n
  BY <1>1, ToSpaceIndex, WordIndex DEF CopyContext
<1>3. i \in 1 .. n
  BY <1>2
<1>4. ASSUME calls # <<>>, Head(calls).p = MemLoc(t, i) PROVE FALSE
  <2>1. CallOK(Head(calls))
    BY <1>1, <1>4, HeadCall DEF CopyContext
  <2>2. PICK j \in Headers(t) : HasPointers(t, j) /\ i \in j + 1 .. j + Size(t, j)
    <3>1. PICK c : c = Head(calls) /\ CallOK(c) /\ c.p = MemLoc(t, i)
      BY <1>4, <2>1
    <3>2. \A a : MemLoc(t, i) # ArgLoc(a)
      BY DEF MemLoc, ArgLoc
    <3>3. \A a : MemLoc(t, i) = MemLoc(t, a) => i = a
      BY DEF MemLoc
    <3> QED
      BY <1>1, <3>1, <3>2, <3>3, CallSites
  <2>3. j \in Nat /\ Size(t, j) \in Nat /\ i \in Nat
    BY <1>1, <1>2, <1>3, <2>2, ToSpaceIndex, WordIndex DEF CopyContext
  <2>4. i \in j .. j + Size(t, j) /\ i # j
    BY <2>2, <2>3
  <2>5. j = k
    BY <1>1, <2>2, <2>3, <2>4, OneObject DEF CopyContext
  <2> QED
    BY <2>2, <2>4, <2>5 DEF HasPointers
<1> QED
  BY <1>2, <1>3, <1>4, OnlyCalledForWritten

\* Object k of space s is object h of space z after the step.
ObjectFollows(s, k, z, h) ==
    /\ Current(Ptr(s, k + 1))' = Ptr(z, h + 1)
    /\ z \in Spaces /\ h \in Nat
    /\ mem'[z][h] = mem[s][k]
    /\ \A i \in 1 .. Size(s, k) : \A a, b : a = mem[s][k + i] /\ b = mem'[z][h + i] =>
           SameMeaning(a, b) /\ (No_scan(Tag_hd(mem[s][k])) => b = a)

\* Objects stay where they are, but for the one that ForwardCopy moves to the end of
\* what is in use of the to-space.
MovesTo(s, k, z, h) ==
    \/ z = s /\ h = k
    \/ /\ ForwardCopy /\ s = copy.from /\ k = IndexOf(Read(Head(calls).p)) - 1
       /\ z = copy.to /\ h = next[copy.to] + 1

\* Between copies nothing changes at all.
LEMMA ObjectsStay ==
    ASSUME HeapInv, Bookkeeping, AnyNext, CollectorRuns, pc # "copying" \/ pc' # "copying",
           NEW s \in Spaces, NEW k \in Headers(s), mem[s][k] # ZeroHeader,
           pc = "copying" => s # copy.from
    PROVE  ObjectFollows(s, k, s, k)
<1>1. mem'[s] = mem[s]
  BY StayInPlace
<1>2. k \in Nat /\ k + 1 \in Nat /\ k = (k + 1) - 1
  BY WordIndex DEF HeapInv
<1>3. Current(Ptr(s, k + 1))' = Ptr(s, k + 1)
  <2>1. PICK v : v = Ptr(s, k + 1)
    OBVIOUS
  <2>2. IsPtr(v) /\ SpaceOf(v) = s /\ IndexOf(v) = k + 1
    BY <2>1 DEF Ptr, IsPtr, SpaceOf, IndexOf
  <2>3. mem'[SpaceOf(v)][IndexOf(v) - 1] # ZeroHeader
    BY <1>1, <1>2, <2>2
  <2>4. Current(v)' = v
    BY <2>3 DEF Current, Hd_val
  <2> QED
    BY <2>1, <2>4
<1> QED
  BY <1>1, <1>2, <1>3 DEF ObjectFollows, SameMeaning

\* Nor inside of do_generation, but for the words forward is called for.
LEMMA ObjectsStayInCopy ==
    ASSUME HeapInv, Bookkeeping, AnyNext, pc = "copying", pc' = "copying",
           NEW s \in Spaces, NEW k \in Headers(s), mem[s][k] # ZeroHeader,
           \A i \in k .. k + Size(s, k) : s # copy.to => mem'[s][i] = mem[s][i]
    PROVE  ObjectFollows(s, k, s, k)
<1>1. CopyContext /\ copy' = copy
  BY Context, CopyGoesOn
<1>2. PICK sz : sz = Size(s, k) /\ sz \in Nat /\ k \in Nat /\ k + 1 \in Nat /\ k = (k + 1) - 1
  BY <1>1, WordIndex DEF CopyContext, ObjectsOK
<1>3. mem'[s][k] = mem[s][k]
  <2>1. k \in k .. k + sz
    BY <1>2
  <2> QED
    BY <1>2, <2>1, NotCalledFor
<1>4. Current(Ptr(s, k + 1))' = Ptr(s, k + 1)
  <2>1. PICK v, f : v = Ptr(s, k + 1) /\ f = copy.from
    OBVIOUS
  <2>2. IsPtr(v) /\ SpaceOf(v) = s /\ IndexOf(v) = k + 1
    BY <2>1 DEF Ptr, IsPtr, SpaceOf, IndexOf
  <2>3. SpaceOf(v) # f \/ mem'[f][IndexOf(v) - 1] # ZeroHeader
    BY <1>2, <1>3, <2>2
  <2>4. Current(v)' = v
    BY <1>1, <2>1, <2>3, CurrentAfter
  <2> QED
    BY <2>1, <2>4
<1>5. ASSUME NEW i \in 1 .. sz, NEW a, NEW b, a = mem[s][k + i], b = mem'[s][k + i]
      PROVE  SameMeaning(a, b) /\ (No_scan(Tag_hd(mem[s][k])) => b = a)
  <2>1. k + i \in k .. k + sz
    BY <1>2
  <2>2. CASE s # copy.to
    <3>1. b = a
      BY <1>2, <1>5, <2>1, <2>2
    <3> QED
      BY <3>1 DEF SameMeaning
  <2>3. CASE s = copy.to
    <3>1. No_scan(Tag_hd(mem[s][k])) => b = a
      BY <1>2, <1>5, <2>1, <2>3, NotCalledFor
    <3>2. k + i \in 1 .. next[s]
      <4>1. next[s] \in Nat /\ k + sz <= next[s]
        BY <1>1, <1>2, <2>3, ToSpaceIndex
      <4> QED
        BY <1>2, <4>1
    <3>3. SameMeaning(a, b)
      BY <1>5, <2>3, <3>2, WordsFollow
    <3> QED
      BY <3>1, <3>3
  <2> QED
    BY <2>2, <2>3
<1> QED
  BY <1>2, <1>3, <1>4, <1>5 DEF ObjectFollows

\* The object that ForwardCopy copies goes to the end of what is in use.
LEMMA ObjectMoved ==
    ASSUME HeapInv, Bookkeeping, ForwardCopy, NEW k, k = IndexOf(Read(Head(calls).p)) - 1,
           NEW f, f = copy.from, NEW t, t = copy.to, NEW h, h = next[t] + 1
    PROVE  k \in Headers(f) /\ h \in Nat /\ ObjectFollows(f, k, t, h)
<1>1. CopyContext /\ UNCHANGED <<pc, copy>>
  BY Context DEF ForwardCopy, Copying
<1>2. PICK loc, sz : loc = Head(calls).p /\ sz = Size(f, k)
  OBVIOUS
<1>3. /\ k \in Headers(f) /\ ~ IsForwarded(k) /\ sz \in Nat \ {0} /\ h \in Nat \ {0}
      /\ h + sz <= Len(mem[t]) /\ CopyMade(f, t, loc, k, sz, h)
  <2>1. k = IndexOf(Read(loc)) - 1
    BY <1>2
  <2> QED
    BY <1>2, <2>1, CopyIsMade
<1>4. f \in Spaces /\ t \in Spaces /\ t # f /\ k \in DOMAIN mem[f] /\ k \in Nat
  BY <1>1, <1>3, ToSpaceIndex, WordIndex DEF CopyContext, CopySpaces, Headers
<1>5. Current(Ptr(f, k + 1))' = Ptr(t, h + 1)
  <2>1. PICK v : v = Ptr(f, k + 1)
    OBVIOUS
  <2>2. IsPtr(v) /\ SpaceOf(v) = f /\ IndexOf(v) = k + 1
    BY <2>1 DEF Ptr, IsPtr, SpaceOf, IndexOf
  <2>3. IndexOf(v) \in Nat /\ IndexOf(v) - 1 = k
    BY <1>4, <2>2
  <2>4. k \in DOMAIN mem'[f] /\ mem'[f][k] = ZeroHeader /\ mem'[f][k + 1] = Ptr(t, h + 1)
    BY <1>3, <1>4 DEF CopyMade
  <2>5. /\ IsPtr(v) /\ SpaceOf(v) = f /\ IndexOf(v) \in Nat
        /\ IndexOf(v) - 1 \in DOMAIN mem'[f] /\ mem'[f][IndexOf(v) - 1] = ZeroHeader
        /\ pc' = "copying" /\ copy' = copy /\ mem'[f][IndexOf(v)] = Ptr(t, h + 1)
    BY <1>1, <2>2, <2>3, <2>4 DEF CopyContext
  <2> QED
    BY <2>1, <2>5, CurrentAfter
<1>6. ASSUME NEW i \in 0 .. sz PROVE mem'[t][h + i] = mem[f][k + i]
  <2>1. h + i \in h .. h + sz /\ k + ((h + i) - h) = k + i
    BY <1>3, <1>4, <1>6
  <2>2. mem'[t][h + i] = mem[f][k + ((h + i) - h)]
    BY <1>3, <2>1 DEF CopyMade
  <2> QED
    BY <2>1, <2>2
<1>7. mem'[t][h] = mem[f][k]
  <2>1. 0 \in 0 .. sz /\ h + 0 = h /\ k + 0 = k
    BY <1>3, <1>4
  <2> QED
    BY <1>6, <2>1
<1>8. ASSUME NEW i \in 1 .. sz, NEW a, NEW b, a = mem[f][k + i], b = mem'[t][h + i]
      PROVE  SameMeaning(a, b) /\ (No_scan(Tag_hd(mem[f][k])) => b = a)
  <2>1. i \in 0 .. sz
    BY <1>3
  <2>2. b = a
    BY <1>6, <1>8, <2>1
  <2> QED
    BY <2>2 DEF SameMeaning
<1>9. ObjectFollows(f, k, t, h)
  <2>1. h \in Nat
    BY <1>3
  <2> QED
    BY <1>2, <1>4, <1>5, <1>7, <1>8, <2>1 DEF ObjectFollows
<1> QED
  BY <1>3, <1>9

LEMMA ObjectsMove ==
    ASSUME HeapInv, Bookkeeping, AnyNext, CollectorRuns,
           NEW s \in Spaces, NEW k \in Headers(s), mem[s][k] # ZeroHeader,
           pc = "copying" /\ pc' # "copying" => s # copy.from
    PROVE  \E z, h : ObjectFollows(s, k, z, h) /\ MovesTo(s, k, z, h)
<1>1. CASE pc # "copying" \/ pc' # "copying"
  <2>1. (pc = "copying" => s # copy.from) \/ (pc = "copying" /\ pc' = "copying")
    OBVIOUS
  <2>2. ObjectFollows(s, k, s, k)
    BY <1>1, ObjectsStay
  <2> QED
    BY <2>2 DEF MovesTo
<1>2. CASE pc = "copying" /\ pc' = "copying"
  <2>1. CopyContext /\ DoGeneration
    BY <1>2, Context, CopyGoesOn
  <2>2. ASSUME ~ ForwardCopy PROVE ObjectFollows(s, k, s, k)
    <3>1. ASSUME s # copy.to PROVE mem'[s] = mem[s]
      <4>1. CASE ForwardOther \/ ScanObject
        BY <4>1 DEF ForwardOther, ScanObject, heapVars
      <4>2. CASE ForwardAgain
        <5>1. PICK loc, u : loc = Head(calls).p /\ mem' = StoreMem(mem, loc, u) /\ calls # <<>>
          BY <4>2 DEF ForwardAgain, Copying
        <5>2. MemoryOK(mem) /\ SameShape(mem, mem)
          BY <2>1, WordIndex DEF CopyContext, SameShape
        <5>3. CallStored(mem, loc, u, StoreMem(mem, loc, u), StoreArgs(loc, u))
          BY <2>1, <5>1, <5>2, StoreAtCall
        <5> QED
          BY <3>1, <5>1, <5>3 DEF CallStored
      <4> QED
        BY <2>1, <2>2, <4>1, <4>2 DEF DoGeneration
    <3> QED
      BY <1>2, <3>1, ObjectsStayInCopy
  <2>3. ASSUME ForwardCopy PROVE \E z, h : ObjectFollows(s, k, z, h) /\ MovesTo(s, k, z, h)
    <3>1. PICK f, t, loc, j, sz, h :
              /\ f = copy.from /\ t = copy.to /\ loc = Head(calls).p
              /\ j = IndexOf(Read(loc)) - 1 /\ sz = Size(f, j) /\ h = next[t] + 1
      OBVIOUS
    <3>2. CASE s = f /\ k = j
      <4>1. ObjectFollows(f, j, t, h)
        <5>1. j = IndexOf(Read(Head(calls).p)) - 1
          BY <3>1
        <5> QED
          BY <2>3, <3>1, <5>1, ObjectMoved
      <4>2. MovesTo(s, k, t, h)
        BY <2>3, <3>1, <3>2 DEF MovesTo
      <4> QED
        BY <3>2, <4>1, <4>2
    <3>3. CASE ~ (s = f /\ k = j)
      <4>1. j \in Headers(f) /\ sz \in Nat \ {0} /\ CopyMade(f, t, loc, j, sz, h)
        BY <2>3, <3>1, CopyIsMade
      <4>2. TypesOK /\ ObjectsOK /\ Size(s, k) \in Nat /\ k \in Nat /\ j \in Nat /\ f \in Spaces
            /\ k + Size(s, k) <= Len(mem[s]) /\ DOMAIN mem[s] = 1 .. Len(mem[s])
            /\ Len(mem[s]) \in Nat /\ k >= 1
        <5>1. /\ TypesOK /\ ObjectsOK /\ f \in Spaces /\ InUse(s) \in Nat
              /\ InUse(s) <= Len(mem[s]) /\ Len(mem[s]) \in Nat
              /\ DOMAIN mem[s] = 1 .. Len(mem[s]) /\ k \in DOMAIN mem[s]
              /\ Size(s, k) \in Nat /\ k + Size(s, k) <= InUse(s)
          BY <2>1, <3>1, WordIndex, InUseType DEF CopyContext, CopySpaces, ObjectsOK
        <5>2. j \in Nat
          BY <4>1, <5>1, WordIndex
        <5> QED
          BY <5>1, <5>2
      <4>3. ASSUME NEW i \in k .. k + Size(s, k), s # t PROVE mem'[s][i] = mem[s][i]
        <5>1. CASE s # f
          BY <4>1, <4>3, <5>1 DEF CopyMade
        <5>2. CASE s = f
          <6>1. i \in DOMAIN mem[f] /\ i \in Nat
            BY <4>2, <5>2
          <6>2. i # j /\ i # j + 1
            <7>1. ASSUME i \in j .. j + sz PROVE FALSE
              BY <3>1, <3>3, <4>1, <4>2, <4>3, <5>2, <6>1, <7>1, OneObject
            <7> QED
              BY <4>1, <4>2, <7>1
          <6> QED
            BY <4>1, <5>2, <6>1, <6>2 DEF CopyMade
        <5> QED
          BY <5>1, <5>2
      <4>4. ObjectFollows(s, k, s, k)
        BY <1>2, <3>1, <4>3, ObjectsStayInCopy
      <4> QED
        BY <4>4 DEF MovesTo
    <3> QED
      BY <3>2, <3>3
  <2> QED
    BY <2>2, <2>3 DEF MovesTo
<1> QED
  BY <1>1, <1>2

\* Different objects stay different.
LEMMA ObjectsStayApart ==
    ASSUME HeapInv, Bookkeeping,
           NEW s1 \in Spaces, NEW k1 \in Headers(s1), NEW s2 \in Spaces, NEW k2 \in Headers(s2),
           NEW z, NEW h, MovesTo(s1, k1, z, h), MovesTo(s2, k2, z, h)
    PROVE  s1 = s2 /\ k1 = k2
<1>1. ASSUME NEW s \in Spaces, NEW k \in Headers(s), ForwardCopy, s = copy.to,
             k = next[copy.to] + 1
      PROVE  FALSE
  <2>1. CopyContext
    BY <1>1, Context DEF ForwardCopy, Copying
  <2>2. k \in Headers(copy.to) /\ Size(copy.to, k) \in Nat /\ k + Size(copy.to, k) <= next[copy.to]
        /\ next[copy.to] \in Nat
    BY <1>1, <2>1, ToSpaceIndex
  <2> QED
    BY <1>1, <2>2
<1> QED
  BY <1>1 DEF MovesTo

\* What is read through Current(v) after the step is read at what it is then.
LEMMA ReadAfter ==
    ASSUME NEW v, NEW c, c = Current(v)'
    PROVE  /\ Hd_val(mem, Current(v))' = Hd_val(mem', c)
           /\ Fields(mem, Current(v))' = Fields(mem', c)
           /\ \A i, y : y = Field(mem', c, i - 1) =>
                  Current(Field(mem, Current(v), i - 1))' = Current(y)'
<1>1. Hd_val(mem, Current(v))' = Hd_val(mem', c)
  BY DEF Hd_val, Current
<1>2. Fields(mem, Current(v))' = Fields(mem', c)
  BY DEF Fields, Field, Wosize, Hd_val, Current
<1>3. ASSUME NEW i, NEW y, y = Field(mem', c, i - 1)
      PROVE  Current(Field(mem, Current(v), i - 1))' = Current(y)'
  BY <1>3 DEF Current
<1> QED
  BY <1>1, <1>2, <1>3

LEMMA RootAfter ==
    ASSUME NEW k, NEW y, y = args[fi.roots[k]]'
    PROVE  Current(args[fi.roots[k]])' = Current(y)'
  BY DEF Current

\* A pointer found in a root, or in an object that survives, leads to what survives.
LEMMA SurvivorsPoint ==
    ASSUME HeapInv, Bookkeeping, AnyNext
    PROVE  /\ \A k \in DOMAIN fi.roots : \A x :
                  x = args[fi.roots[k]] => Known(x) /\ (IsPtr(x) => Survives(x))
           /\ \A s \in Spaces : \A k \in Headers(s) : \A i \in 1 .. Size(s, k) : \A x :
                  /\ x = mem[s][k + i] /\ HasPointers(s, k)
                  /\ (pc = "copying" /\ pc' # "copying" => s # copy.from)
                  => Known(x) /\ (IsPtr(x) => Survives(x))
<1>1. TypesOK /\ ObjectsOK /\ PointersOK /\ RootsOK
  BY DEF HeapInv
<1>2. ASSUME pc = "copying", pc' # "copying"
      PROVE  /\ PointsOutside(0 .. copy.from) /\ RootsOutside(0 .. copy.from)
             /\ copy.from \in 0 .. copy.from
             /\ \A s \in Spaces : Headers(s) # {} /\ s # copy.from => s \notin 0 .. copy.from
  <2>1. CopySpaces
    BY <1>2, Context DEF CopyContext
  <2>2. PointsOutside(0 .. copy.from) /\ RootsOutside(0 .. copy.from)
    BY <1>2, CopyEnds, OutsideFrom
  <2>3. copy.from \in Nat
    BY <2>1, SpaceNumbers DEF CopySpaces
  <2>4. ASSUME NEW s \in Spaces, Headers(s) # {}, s # copy.from PROVE s \notin 0 .. copy.from
    <3>1. ~ (s < copy.from) /\ s \in Nat
      BY <2>1, <2>4, SpaceNumbers DEF CopySpaces, NoObjects
    <3> QED
      BY <2>3, <2>4, <3>1
  <2> QED
    BY <2>2, <2>3, <2>4
<1>3. ASSUME NEW k \in DOMAIN fi.roots, NEW x, x = args[fi.roots[k]]
      PROVE  Known(x) /\ (IsPtr(x) => Survives(x))
  <2>1. Known(x)
    BY <1>1, <1>3 DEF RootsOK, Known
  <2>2. IsPtr(x) => Survives(x)
    BY <1>2, <1>3 DEF RootsOutside, Survives
  <2> QED
    BY <2>1, <2>2
<1>4. ASSUME NEW s \in Spaces, NEW k \in Headers(s), NEW i \in 1 .. Size(s, k), NEW x,
             x = mem[s][k + i], HasPointers(s, k),
             pc = "copying" /\ pc' # "copying" => s # copy.from
      PROVE  Known(x) /\ (IsPtr(x) => Survives(x))
  <2>1. k + i \in k + 1 .. k + Size(s, k)
    <3>1. k \in Nat /\ Size(s, k) \in Nat
      BY <1>1, WordIndex DEF ObjectsOK
    <3> QED
      BY <1>4, <3>1
  <2>2. Known(x)
    BY <1>1, <1>4, <2>1 DEF PointersOK, Known
  <2>3. ASSUME IsPtr(x), pc = "copying", pc' # "copying" PROVE SpaceOf(x) # copy.from
    <3>1. s \notin 0 .. copy.from
      BY <1>2, <1>4, <2>3
    <3> QED
      BY <1>2, <1>4, <2>1, <2>3, <3>1 DEF PointsOutside
  <2> QED
    BY <2>2, <2>3 DEF Survives
<1> QED
  BY <1>3, <1>4

\* An object that survives is the same after the step.
LEMMA ObjectPreserved ==
    ASSUME HeapInv, Bookkeeping, AnyNext, CollectorRuns, NEW v \in Objects, Survives(v)
    PROVE  Preserved(v)
<1>1. PICK s \in Spaces : \E k \in Headers(s) :
          /\ v = Ptr(s, k + 1) /\ k \in Nat /\ mem[s][k] # ZeroHeader
          /\ Hd_val(mem, v) = mem[s][k] /\ Wosize(mem, v) = Size(s, k)
          /\ Size(s, k) \in Nat
          /\ \A i \in Nat : Field(mem, v, i - 1) = mem[s][k + i]
  BY ObjectsHave
<1>2. PICK k \in Headers(s) :
          /\ v = Ptr(s, k + 1) /\ k \in Nat /\ mem[s][k] # ZeroHeader
          /\ Hd_val(mem, v) = mem[s][k] /\ Wosize(mem, v) = Size(s, k)
          /\ Size(s, k) \in Nat
          /\ \A i \in Nat : Field(mem, v, i - 1) = mem[s][k + i]
  BY <1>1
<1>3. pc = "copying" /\ pc' # "copying" => s # copy.from
  BY <1>2 DEF Survives, Ptr, SpaceOf
<1>4. PICK z, h : ObjectFollows(s, k, z, h)
  BY <1>2, <1>3, ObjectsMove
<1>5. PICK c, sz : /\ c = Current(v)' /\ c = Ptr(z, h + 1) /\ h \in Nat
                   /\ SpaceOf(c) = z /\ IndexOf(c) = h + 1 /\ IndexOf(c) - 1 = h
                   /\ sz = Size(s, k) /\ sz \in Nat /\ Wosize(mem, v) = sz
  <2>1. Current(v)' = Ptr(z, h + 1) /\ h \in Nat
    BY <1>2, <1>4 DEF ObjectFollows
  <2> QED
    BY <1>2, <2>1 DEF Ptr, SpaceOf, IndexOf
<1>6. Hd_val(mem', c) = Hd_val(mem, v)
  BY <1>2, <1>4, <1>5 DEF Hd_val, ObjectFollows
<1>7. \A i \in 1 .. sz : Field(mem', c, i - 1) = mem'[z][h + i]
                         /\ Field(mem, v, i - 1) = mem[s][k + i]
  <2> SUFFICES ASSUME NEW i \in 1 .. sz
               PROVE  Field(mem', c, i - 1) = mem'[z][h + i]
                      /\ Field(mem, v, i - 1) = mem[s][k + i]
    OBVIOUS
  <2>1. i \in Nat /\ IndexOf(c) + (i - 1) = h + i
    BY <1>5
  <2> QED
    BY <1>2, <1>5, <2>1 DEF Field
<1>8. ASSUME No_scan(Tag_hd(Hd_val(mem, v))) PROVE Fields(mem', c) = Fields(mem, v)
  <2>1. Wosize(mem', c) = sz
    BY <1>5, <1>6 DEF Wosize
  <2>2. \A i \in 1 .. sz : Field(mem', c, i - 1) = Field(mem, v, i - 1)
    BY <1>2, <1>4, <1>5, <1>7, <1>8 DEF ObjectFollows
  <2> QED
    BY <1>5, <2>1, <2>2 DEF Fields
<1>9. ASSUME ~ No_scan(Tag_hd(Hd_val(mem, v))), NEW i \in 1 .. Wosize(mem, v),
             NEW u, u = Current(Field(mem, v, i - 1))
      PROVE  Becomes(u, Current(Field(mem, Current(v), i - 1))')
  <2>1. PICK x, y : x = Field(mem, v, i - 1) /\ y = Field(mem', c, i - 1)
    OBVIOUS
  <2>2. x = mem[s][k + i] /\ y = mem'[z][h + i]
    BY <1>5, <1>7, <1>9, <2>1
  <2>3. SameMeaning(x, y)
    BY <1>4, <1>5, <1>9, <2>2 DEF ObjectFollows
  <2>4. HasPointers(s, k)
    BY <1>2, <1>9 DEF HasPointers
  <2>5. Known(x) /\ (IsPtr(x) => Survives(x))
    BY <1>2, <1>3, <1>9, <2>2, <2>4, SurvivorsPoint
  <2>6. u = Current(x)
    BY <1>9, <2>1
  <2>7. /\ IsPtr(u) => Valid(u) /\ Survives(u)
        /\ Current(u)' = Current(x)'
    BY <2>5, <2>6, MeaningKept
  <2>8. Current(Field(mem, Current(v), i - 1))' = Current(y)'
    BY <1>5, <2>1, ReadAfter
  <2> QED
    BY <2>3, <2>7, <2>8 DEF Becomes, SameMeaning
<1>10. /\ Hd_val(mem, Current(v))' = Hd_val(mem, v)
       /\ No_scan(Tag_hd(Hd_val(mem, v))) => Fields(mem, Current(v))' = Fields(mem, v)
  BY <1>5, <1>6, <1>8, ReadAfter
<1> QED
  BY <1>9, <1>10 DEF Preserved

LEMMA ObjectsInjective ==
    ASSUME HeapInv, Bookkeeping, AnyNext, CollectorRuns, NEW v \in Objects, NEW w \in Objects,
           Survives(v), Survives(w), Current(v)' = Current(w)'
    PROVE  v = w
<1>1. ASSUME NEW x \in Objects, Survives(x)
      PROVE  \E s \in Spaces : \E k \in Headers(s) : \E z, h :
                 /\ x = Ptr(s, k + 1) /\ MovesTo(s, k, z, h)
                 /\ Current(x)' = Ptr(z, h + 1) /\ h \in Nat
  <2>1. PICK s \in Spaces : \E k \in Headers(s) :
            x = Ptr(s, k + 1) /\ mem[s][k] # ZeroHeader
    BY <1>1, ObjectsHave
  <2>2. PICK k \in Headers(s) : x = Ptr(s, k + 1) /\ mem[s][k] # ZeroHeader
    BY <2>1
  <2>3. pc = "copying" /\ pc' # "copying" => s # copy.from
    BY <1>1, <2>2 DEF Survives, Ptr, SpaceOf
  <2>4. PICK z, h : ObjectFollows(s, k, z, h) /\ MovesTo(s, k, z, h)
    BY <2>2, <2>3, ObjectsMove
  <2>5. Current(x)' = Ptr(z, h + 1) /\ h \in Nat
    BY <2>2, <2>4 DEF ObjectFollows
  <2> QED
    BY <2>2, <2>4, <2>5
<1>2. PICK s1, k1, z1, h1 :
          /\ s1 \in Spaces /\ k1 \in Headers(s1)
          /\ v = Ptr(s1, k1 + 1) /\ MovesTo(s1, k1, z1, h1)
          /\ Current(v)' = Ptr(z1, h1 + 1) /\ h1 \in Nat
  BY <1>1
<1>3. PICK s2, k2, z2, h2 :
          /\ s2 \in Spaces /\ k2 \in Headers(s2)
          /\ w = Ptr(s2, k2 + 1) /\ MovesTo(s2, k2, z2, h2)
          /\ Current(w)' = Ptr(z2, h2 + 1) /\ h2 \in Nat
  BY <1>1
<1>4. z1 = z2 /\ h1 = h2
  <2>1. Ptr(z1, h1 + 1) = Ptr(z2, h2 + 1)
    BY <1>2, <1>3
  <2>2. z1 = z2 /\ h1 + 1 = h2 + 1
    BY <2>1 DEF Ptr
  <2> QED
    BY <1>2, <1>3, <2>2
<1>5. s1 = s2 /\ k1 = k2
  BY <1>2, <1>3, <1>4, ObjectsStayApart
<1> QED
  BY <1>2, <1>3, <1>5

\* What a step of the collector makes of a root.
LEMMA RootsBecome ==
    ASSUME HeapInv, Bookkeeping, AnyNext, CollectorRuns,
           NEW k \in DOMAIN fi.roots, NEW u, u = Current(args[fi.roots[k]])
    PROVE  Becomes(u, Current(args[fi.roots[k]])')
<1>1. PICK x, y : x = args[fi.roots[k]] /\ y = args[fi.roots[k]]'
  OBVIOUS
<1>2. Known(x) /\ (IsPtr(x) => Survives(x))
  BY <1>1, SurvivorsPoint
<1>3. SameMeaning(x, y)
  <2>1. CASE pc = "copying" /\ pc' = "copying"
    <3>1. fi' = fi
      BY <2>1, CopyGoesOn
    <3>2. fi.roots[k] \in ArgSlots
      BY DEF HeapInv, TypesOK
    <3> QED
      BY <1>1, <2>1, <3>1, <3>2, WordsFollow
  <2>2. CASE pc # "copying" \/ pc' # "copying"
    <3>1. UNCHANGED <<args, fi>>
      BY <2>2, StayInPlace
    <3> QED
      BY <1>1, <3>1 DEF SameMeaning
  <2> QED
    BY <2>1, <2>2
<1>4. u = Current(x)
  BY <1>1
<1>5. /\ IsPtr(u) => Valid(u) /\ Survives(u)
      /\ Current(u)' = Current(x)'
  BY <1>2, <1>4, MeaningKept
<1>6. Current(args[fi.roots[k]])' = Current(y)'
  BY <1>1, RootAfter
<1> QED
  BY <1>3, <1>5, <1>6 DEF Becomes, SameMeaning

\* gc.h 110-119, for every program, depth of forward and number of generations: each
\* step of a collection or an export is an isomorphism of the graph of the objects
\* that survive it, so that what the roots lead to after garbage_collect is what they
\* led to before.
THEOREM StepsAreIsomorphisms == AnySpec => StepsKeepGraph
<1> DEFINE Kept ==
        CollectorRuns =>
            /\ \A k \in DOMAIN fi.roots : \A u \in {Current(args[fi.roots[k]])} :
                   Becomes(u, Current(args[fi.roots[k]])')
            /\ \A v \in Objects : Survives(v) => Preserved(v)
            /\ \A v, w \in Objects :
                   Survives(v) /\ Survives(w) /\ Current(v)' = Current(w)' => v = w
<1>1. IInv /\ [AnyNext]_vars => [Kept]_vars
  <2> SUFFICES ASSUME IInv, AnyNext, CollectorRuns PROVE Kept
    OBVIOUS
  <2>1. HeapInv /\ Bookkeeping
    BY BookkeepingHolds DEF IInv
  <2>2. ASSUME NEW k \in DOMAIN fi.roots, NEW u, u = Current(args[fi.roots[k]])
        PROVE  Becomes(u, Current(args[fi.roots[k]])')
    BY <2>1, <2>2, RootsBecome
  <2>3. \A v \in Objects : Survives(v) => Preserved(v)
    BY <2>1, ObjectPreserved
  <2>4. ASSUME NEW v \in Objects, NEW w \in Objects, Survives(v), Survives(w),
               Current(v)' = Current(w)'
        PROVE  v = w
    BY <2>1, <2>4, ObjectsInjective
  <2> QED
    BY <2>2, <2>3, <2>4
<1> QED
  BY <1>1, HeapWellFormed, PTL DEF AnySpec, StepsKeepGraph

-----------------------------------------------------------------------------
(* The graph of the live objects. *)

Plain(w) == IsPtr(w) => w \in Pointers

\* What looks like a pointer is one, in raw data too.
WordsPlain ==
    /\ \A s \in Spaces : \A i \in DOMAIN mem[s] : Plain(mem[s][i])
    /\ \A k \in ArgSlots : Plain(args[k])

LEMMA PlainWords ==
    /\ ~ IsPtr(Unused) /\ Plain(Unused) /\ Plain(ZeroHeader)
    /\ \A s, i \in Nat : Plain(Ptr(s, i))
    /\ \A v : Word(v) \/ IsHeader(v) => Plain(v)
  BY DEF Plain, Unused, ZeroHeader, Header, IsPtr, IsHeader, Ptr, Pointers, Word

LEMMA InitPlain == AnyInit => WordsPlain
<1> SUFFICES ASSUME AnyInit PROVE WordsPlain
  OBVIOUS
<1>1. \A k \in ArgSlots : ~ IsPtr(args[k])
  BY DEF AnyInit
<1>2. \A s \in Spaces : mem[s] = EmptySpace(NURSERY_SIZE) \/ mem[s] = <<>>
  BY DEF AnyInit
<1>3. \A i \in DOMAIN EmptySpace(NURSERY_SIZE) : EmptySpace(NURSERY_SIZE)[i] = Unused
  BY DEF EmptySpace
<1> QED
  BY <1>1, <1>2, <1>3, PlainWords DEF WordsPlain, Plain

\* One space is replaced by an empty one.
LEMMA ReplacedPlain ==
    ASSUME TypesOK, WordsPlain, UNCHANGED args, NEW s \in Spaces, NEW w,
           \A i \in DOMAIN w : w[i] = Unused, mem' = [mem EXCEPT ![s] = w]
    PROVE  WordsPlain'
<1>1. \A z \in Spaces : mem'[z] = w \/ mem'[z] = mem[z]
  BY DEF TypesOK
<1> QED
  BY <1>1, PlainWords DEF WordsPlain

LEMMA StoredPlain ==
    ASSUME WordsPlain, StoreInArgs
    PROVE  \A k \in ArgSlots : Plain(args'[k])
<1> SUFFICES ASSUME NEW k \in ArgSlots PROVE Plain(args'[k])
  OBVIOUS
<1>1. PICK v : v = args'[k]
  OBVIOUS
<1>2. v = args[k] \/ Word(v)
  BY <1>1 DEF StoreInArgs, Sound, Word
<1> QED
  BY <1>1, <1>2, PlainWords DEF WordsPlain

LEMMA BodyPlain == ASSUME HeapInv, Bookkeeping, WordsPlain, AnyBody PROVE WordsPlain'
<1>1. \A k \in ArgSlots : Plain(args'[k])
  BY StoredPlain DEF AnyBody
<1>2. CASE UNCHANGED mem
  BY <1>1, <1>2 DEF WordsPlain
<1>3. CASE MakesObject
  <2>1. PICK sz, w : /\ ObjectMade(mem[0], w, alloc + 1, sz) /\ sz \in 1 .. budget - 1
                     /\ SpaceReplaced(mem, 0, w, mem')
    BY <1>3, MadeObject DEF HeapInv
  <2>2. PICK h : h = alloc + 1 /\ h \in Nat /\ sz \in Nat
    BY <2>1 DEF Bookkeeping
  <2>3. 0 \in Spaces
    BY SpaceNumbers
  <2>4. ASSUME NEW i \in DOMAIN w PROVE Plain(w[i])
    <3>1. CASE i \notin h .. h + sz
      BY <2>1, <2>2, <2>3, <2>4, <3>1 DEF ObjectMade, WordsPlain
    <3>2. CASE i = h
      BY <2>1, <2>2, <3>2, PlainWords DEF ObjectMade
    <3>3. CASE i \in h + 1 .. h + sz
      BY <2>1, <2>2, <3>3, PlainWords DEF ObjectMade
    <3>4. i \in h .. h + sz => i = h \/ i \in h + 1 .. h + sz
      BY <2>2
    <3> QED
      BY <3>1, <3>2, <3>3, <3>4
  <2>5. ASSUME NEW s \in Spaces, NEW i \in DOMAIN mem'[s] PROVE Plain(mem'[s][i])
    <3>1. CASE s = 0
      BY <2>1, <2>4, <2>5, <3>1 DEF SpaceReplaced
    <3>2. CASE s # 0
      BY <2>1, <2>5, <3>2 DEF SpaceReplaced, WordsPlain
    <3> QED
      BY <3>1, <3>2
  <2> QED
    BY <1>1, <2>5 DEF WordsPlain
<1> QED
  BY <1>2, <1>3 DEF AnyBody

LEMMA ForwardAgainPlain ==
    ASSUME HeapInv, Bookkeeping, WordsPlain, ForwardAgain PROVE WordsPlain'
<1>1. CopyContext /\ calls # <<>>
  BY Context DEF ForwardAgain, Copying
<1>2. PICK loc, v : loc = Head(calls).p /\ v = Read(loc)
  OBVIOUS
<1>3. PICK x : /\ x = Field(mem, v, 0)
               /\ mem' = StoreMem(mem, loc, x) /\ args' = StoreArgs(loc, x)
  BY <1>2 DEF ForwardAgain
<1>4. Plain(x)
  <2>1. CallOK(Head(calls)) /\ Head(calls).p \in Due
    BY <1>1, HeadCall DEF CopyContext
  <2>2. Is_from(v)
    BY <1>2 DEF ForwardAgain
  <2>3. IndexOf(v) \in Nat /\ IndexOf(v) \in DOMAIN mem[copy.from]
    BY <1>1, <1>2, <2>1, <2>2, CallFollows
  <2>4. x = mem[copy.from][IndexOf(v)]
    BY <1>3, <2>2, <2>3 DEF Field, Is_from
  <2> QED
    BY <1>1, <2>3, <2>4 DEF WordsPlain, CopyContext, CopySpaces
<1>5. CallStored(mem, loc, x, StoreMem(mem, loc, x), StoreArgs(loc, x))
  <2>1. MemoryOK(mem) /\ SameShape(mem, mem)
    BY <1>1, WordIndex DEF CopyContext, SameShape, TypesOK, MemoryOK
  <2> QED
    BY <1>1, <1>2, <2>1, StoreAtCall
<1>6. CallStored(mem, loc, x, mem', args')
  BY <1>3, <1>5
<1>7. \A k \in ArgSlots : Plain(args'[k])
  BY <1>4, <1>6 DEF CallStored, WordsPlain
<1>8. ASSUME NEW s \in Spaces, NEW i \in DOMAIN mem'[s] PROVE Plain(mem'[s][i])
  <2>1. i \in DOMAIN mem[s]
    BY <1>6, <1>8 DEF CallStored, SameShape
  <2>2. mem'[s][i] = x \/ mem'[s][i] = mem[s][i]
    BY <1>6, <2>1 DEF CallStored
  <2> QED
    BY <1>4, <2>1, <2>2 DEF WordsPlain
<1> QED
  BY <1>7, <1>8 DEF WordsPlain

LEMMA ForwardCopyPlain ==
    ASSUME HeapInv, Bookkeeping, WordsPlain, ForwardCopy PROVE WordsPlain'
<1>1. CopyContext
  BY Context DEF ForwardCopy, Copying
<1>2. PICK f, t, loc : f = copy.from /\ t = copy.to /\ loc = Head(calls).p
  OBVIOUS
<1>3. PICK j, sz, h : j = IndexOf(Read(loc)) - 1 /\ sz = Size(f, j) /\ h = next[t] + 1
  OBVIOUS
<1>4. /\ j \in Headers(f) /\ sz \in Nat \ {0} /\ h \in Nat \ {0}
      /\ CopyMade(f, t, loc, j, sz, h)
  BY <1>2, <1>3, CopyIsMade
<1>5. /\ f \in Spaces /\ t \in Spaces /\ f # t /\ t \in Nat /\ j \in Nat
      /\ j + sz <= Len(mem[f]) /\ DOMAIN mem[f] = 1 .. Len(mem[f]) /\ Len(mem[f]) \in Nat
  <2>1. f \in Spaces /\ t \in Spaces /\ f # t /\ t \in Nat
    BY <1>1, <1>2, ToSpaceIndex, SpaceNumbers DEF CopyContext, CopySpaces
  <2>2. DOMAIN mem[f] = 1 .. Len(mem[f]) /\ Len(mem[f]) \in Nat /\ Headers(f) \subseteq 1 .. Len(mem[f])
    BY <1>1, <2>1, WordIndex DEF CopyContext
  <2>3. j + sz <= InUse(f) /\ InUse(f) <= Len(mem[f]) /\ InUse(f) \in Nat
    BY <1>1, <1>3, <1>4, <2>1, InUseType DEF CopyContext, ObjectsOK
  <2> QED
    BY <1>4, <2>1, <2>2, <2>3
<1>6. PICK p : p = Ptr(t, h + 1) /\ Plain(p)
  BY <1>4, <1>5, PlainWords
<1>7. \A k \in ArgSlots : Plain(args'[k])
  BY <1>4, <1>6 DEF CopyMade, WordsPlain
<1>8. ASSUME NEW s \in Spaces, NEW i \in DOMAIN mem'[s] PROVE Plain(mem'[s][i])
  <2>1. i \in DOMAIN mem[s]
    BY <1>4, <1>8 DEF CopyMade
  <2>2. CASE s # f /\ s # t
    BY <1>4, <2>1, <2>2 DEF CopyMade, WordsPlain
  <2>3. CASE s = f
    <3>1. mem'[f][i] = ZeroHeader \/ mem'[f][i] = p \/ mem'[f][i] = mem[f][i]
      BY <1>4, <1>6, <2>1, <2>3 DEF CopyMade
    <3> QED
      BY <1>5, <1>6, <2>1, <2>3, <3>1, PlainWords DEF WordsPlain
  <2>4. CASE s = t /\ i \in h .. h + sz
    <3>1. mem'[t][i] = mem[f][j + (i - h)]
      BY <1>4, <2>4 DEF CopyMade
    <3>2. j + (i - h) \in DOMAIN mem[f]
      <4>1. j \in 1 .. Len(mem[f])
        BY <1>1, <1>4, <1>5, WordIndex DEF CopyContext
      <4>2. i - h \in 0 .. sz
        BY <1>4, <2>4
      <4>3. \A x, y, m \in Nat : x >= 1 /\ x + sz <= m /\ y <= sz => x + y \in 1 .. m
        BY <1>4
      <4> QED
        BY <1>4, <1>5, <4>1, <4>2, <4>3
    <3> QED
      BY <1>5, <2>4, <3>1, <3>2 DEF WordsPlain
  <2>5. CASE s = t /\ i \notin h .. h + sz
    <3>1. mem'[t][i] = p \/ mem'[t][i] = mem[t][i]
      BY <1>4, <1>6, <2>1, <2>5 DEF CopyMade
    <3> QED
      BY <1>5, <1>6, <2>1, <2>5, <3>1 DEF WordsPlain
  <2> QED
    BY <2>2, <2>3, <2>4, <2>5
<1> QED
  BY <1>7, <1>8 DEF WordsPlain

LEMMA NextPlain ==
    ASSUME HeapInv, Bookkeeping, WordsPlain, [AnyNext]_vars PROVE WordsPlain'
<1>1. CASE UNCHANGED <<mem, args>>
  BY <1>1 DEF WordsPlain
<1>2. CASE AnyEnter \/ AnyExport \/ AnyFinish
  BY <1>1, <1>2
  DEF AnyEnter, Check, AnyExport, ExportUnboxed, ExportStart, AnyFinish, heapVars, HeapExists
<1>3. CASE AnyBody
  BY <1>3, BodyPlain
<1>4. CASE AnyRestart
  BY <1>4, StoredPlain DEF AnyRestart, WordsPlain
<1>12. CASE AnyFree
  <2>1. \A i : i \notin DOMAIN <<>>
    OBVIOUS
  <2>2. mem' = [mem EXCEPT ![ValueSp] = <<>>] /\ UNCHANGED args /\ ValueSp \in Spaces
    BY <1>12 DEF AnyFree, Spaces
  <2> QED
    BY <2>1, <2>2, ReplacedPlain DEF HeapInv
<1>5. CASE DoGeneration
  <2>1. CASE ForwardOther \/ ScanObject
    BY <1>1, <2>1 DEF ForwardOther, ScanObject, heapVars
  <2> QED
    BY <1>5, <2>1, ForwardAgainPlain, ForwardCopyPlain DEF DoGeneration
<1>6. ASSUME NEW s \in Spaces, NEW n \in Nat, UNCHANGED args, mem' = [mem EXCEPT ![s] = EmptySpace(n)]
      PROVE  WordsPlain'
  <2>1. PICK w : w = EmptySpace(n)
    OBVIOUS
  <2>2. \A i \in DOMAIN w : w[i] = Unused
    BY <2>1 DEF EmptySpace
  <2> QED
    BY <1>6, <2>1, <2>2, ReplacedPlain DEF HeapInv
<1>7. ASSUME EmptyFrom, UNCHANGED args, pc = "copying" PROVE WordsPlain'
  <2>1. copy.from \in Spaces
    BY <1>7, Context DEF CopyContext, CopySpaces
  <2>2. Len(mem[copy.from]) \in Nat
    BY <2>1, WordIndex DEF HeapInv
  <2>3. mem' = [mem EXCEPT ![copy.from] = EmptySpace(Len(mem[copy.from]))]
    BY <1>7 DEF EmptyFrom
  <2> QED
    BY <1>6, <1>7, <2>1, <2>2, <2>3
<1>8. CASE GarbageCollect
  <2>1. CASE CreateHeap
    <3>1. 0 \in Spaces /\ NURSERY_SIZE \in Nat
      BY SpaceNumbers, CollectorAssumption
    <3> QED
      BY <1>6, <2>1, <3>1 DEF CreateHeap
  <2>2. CASE CreateNextSpace
    <3>1. gen \in Spaces /\ gen + 1 \in Spaces
      BY <2>2, SpaceNumbers DEF CreateNextSpace, Bookkeeping, Gens
    <3>2. Len(mem[gen]) \in Nat /\ RATIO \in Nat
      BY <3>1, WordIndex, CollectorAssumption DEF HeapInv
    <3>3. RATIO * Len(mem[gen]) \in Nat
      BY <3>2
    <3>4. PICK n \in Nat : n = RATIO * Len(mem[gen])
      BY <3>3
    <3> QED
      BY <1>6, <2>2, <3>1, <3>4 DEF CreateNextSpace
  <2>3. CASE StartCollection \/ CollectGeneration \/ RanOutOfGenerations
    BY <1>1, <2>3 DEF StartCollection, CollectGeneration, RanOutOfGenerations, Stop, heapVars
  <2>4. CASE GenerationCollected
    BY <1>7, <2>4 DEF GenerationCollected, GenerationCopied
  <2> QED
    BY <1>8, <2>1, <2>2, <2>3, <2>4 DEF GarbageCollect
<1>9. CASE Export
  <2>1. CASE CollectAllGeneration \/ CollectAllReturn
    BY <1>1, <2>1 DEF CollectAllGeneration, CollectAllReturn
  <2>2. CASE GenerationCollectedAll \/ ExportCopied
    BY <1>7, <2>2 DEF GenerationCollectedAll, ExportCopied, GenerationCopied
  <2>3. ASSUME NEW from \in Spaces, NEW to \in Spaces, NEW c, CopyOut(from, to, c) PROVE WordsPlain'
    <3>1. next[from] \in Nat
      BY DEF HeapInv, TypesOK
    <3> QED
      BY <1>6, <2>3, <3>1 DEF CopyOut
  <2>4. CASE ExportCopy \/ ExportCompact
    <3>1. gen \in Spaces /\ FakeSp \in Spaces /\ ValueSp \in Spaces
      BY SpaceNumbers DEF Bookkeeping, Gens
    <3> QED
      BY <2>3, <2>4, <3>1 DEF ExportCopy, ExportCompact
  <2>5. CASE ExportReturn
    <3>1. FakeSp \in Spaces /\ \A i \in DOMAIN <<>> : <<>>[i] = Unused
      BY SpaceNumbers
    <3> QED
      BY <2>5, <3>1, ReplacedPlain DEF ExportReturn, HeapInv
  <2> QED
    BY <1>9, <2>1, <2>2, <2>4, <2>5 DEF Export
<1>10. CASE MallocFails
  BY <1>1, <1>10 DEF MallocFails, Stop, heapVars
<1>11. CASE UNCHANGED vars
  BY <1>1, <1>11 DEF vars
<1> QED
  BY <1>2, <1>3, <1>4, <1>5, <1>8, <1>9, <1>10, <1>11, <1>12 DEF AnyNext

-----------------------------------------------------------------------------
(* Graphs that differ only in where the objects are.                       *)
\* A view of a heap has, for each object, its header and what its words mean.
SuccOf(view) ==
    [v \in DOMAIN view |->
        IF No_scan(Tag_hd(view[v].hd)) THEN <<>> ELSE PointersIn(view[v].words)]

NodeOf(found, object) ==
    [header |-> object.hd,
     fields |-> [i \in DOMAIN object.words |->
         IF No_scan(Tag_hd(object.hd)) THEN object.words[i] ELSE Name(found, object.words[i])]]

GraphOf(found, values, view) ==
    [roots |-> [k \in DOMAIN values |-> Name(found, values[k])],
     nodes |-> [k \in DOMAIN found |-> NodeOf(found, view[found[k]])]]

\* The graph below values in a view, found by the search D.
IsGraph(graph, values, view, D, b) ==
    /\ Searchable(Pointers, DOMAIN view, SuccOf(view), b)
    /\ NoObject \notin DOMAIN view
    /\ IsSearch(D, Pointers, DOMAIN view, SuccOf(view))
    /\ graph = GraphOf(D[<< <<>>, PointersIn(values) >>], values, view)

\* The words t are the words s, once the objects A are where phi says.
Leads(s, t, A, phi) ==
    /\ IsSeq(s) /\ IsSeq(t) /\ Len(t) = Len(s)
    /\ \A i \in DOMAIN s : IF IsPtr(s[i]) THEN s[i] \in A /\ t[i] = phi[s[i]] ELSE t[i] = s[i]

ObjectLeads(a, c, A, phi) ==
    /\ c.hd = a.hd
    /\ IF No_scan(Tag_hd(a.hd)) THEN c.words = a.words ELSE Leads(a.words, c.words, A, phi)

Isomorphism(values, view, values2, view2, A, phi) ==
    /\ A \subseteq DOMAIN view /\ phi \in [A -> DOMAIN view2]
    /\ \A a, c \in A : phi[a] = phi[c] => a = c
    /\ Leads(values, values2, A, phi)
    /\ \A a \in A : ObjectLeads(view[a], view2[phi[a]], A, phi)

\* phi, and what is no object stays none.
Extended(phi, A) == [x \in A \cup {NoObject} |-> IF x = NoObject THEN NoObject ELSE phi[x]]

LEMMA PointersAre ==
    /\ NoObject \in Pointers
    /\ \A v \in Pointers : IsPtr(v)
  BY DEF NoObject, Ptr, Pointers, IsPtr

LEMMA PointersInSeq ==
    ASSUME NEW s, IsSeq(s), NEW B, \A i \in DOMAIN s : IsPtr(s[i]) => s[i] \in B, NoObject \in B
    PROVE  /\ PointersIn(s) \in Seq(B) /\ Len(PointersIn(s)) = Len(s)
           /\ DOMAIN PointersIn(s) = DOMAIN s
           /\ \A i \in DOMAIN s :
                  PointersIn(s)[i] = IF IsPtr(s[i]) THEN s[i] ELSE NoObject
<1>1. PICK q : q = PointersIn(s)
  OBVIOUS
<1>2. Len(s) \in Nat /\ DOMAIN s = 1 .. Len(s)
  BY IsSeqLen
<1>3. q = [i \in 1 .. Len(s) |-> IF IsPtr(s[i]) THEN s[i] ELSE NoObject]
  BY <1>1, <1>2 DEF PointersIn
<1>4. q \in [1 .. Len(s) -> B]
  BY <1>2, <1>3
<1>5. q \in Seq(B) /\ Len(q) = Len(s)
  <2>1. q \in Seq(B)
    BY <1>2, <1>4, SeqDef
  <2>2. DOMAIN q = 1 .. Len(s)
    BY <1>3
  <2> QED
    BY <1>2, <2>1, <2>2, LenProperties
<1> QED
  BY <1>1, <1>2, <1>3, <1>5

LEMMA ExtendedRenaming ==
    ASSUME NEW A, A \subseteq Pointers, NoObject \notin A, NEW W, W \subseteq Pointers,
           NoObject \notin W, NEW phi \in [A -> W], NEW psi, psi = Extended(phi, A)
    PROVE  /\ Renaming(psi, A \cup {NoObject}, Pointers)
           /\ psi[NoObject] = NoObject /\ \A a \in A : psi[a] = phi[a] /\ phi[a] \in W
  BY PointersAre DEF Extended, Renaming

LEMMA LeadsRenamed ==
    ASSUME NEW A, A \subseteq Pointers, NoObject \notin A, NEW W, W \subseteq Pointers,
           NoObject \notin W, NEW phi \in [A -> W], NEW psi, psi = Extended(phi, A),
           NEW s, NEW t, Leads(s, t, A, phi)
    PROVE  /\ PointersIn(s) \in Seq(A \cup {NoObject})
           /\ PointersIn(t) = Renamed(psi, PointersIn(s))
<1>1. /\ Renaming(psi, A \cup {NoObject}, Pointers)
      /\ psi[NoObject] = NoObject /\ \A a \in A : psi[a] = phi[a] /\ phi[a] \in W
  BY ExtendedRenaming
<1>2. PICK B, q, r, u : /\ B = A \cup {NoObject} /\ q = PointersIn(s) /\ r = PointersIn(t)
                        /\ u = Renamed(psi, q)
  OBVIOUS
<1>3. IsSeq(s) /\ IsSeq(t) /\ Len(t) = Len(s) /\ DOMAIN s = 1 .. Len(s) /\ DOMAIN t = 1 .. Len(s)
      /\ Len(s) \in Nat
  BY IsSeqLen DEF Leads
<1>4. /\ q \in Seq(B) /\ Len(q) = Len(s)
      /\ \A i \in DOMAIN s : q[i] = IF IsPtr(s[i]) THEN s[i] ELSE NoObject
  <2>1. \A i \in DOMAIN s : IsPtr(s[i]) => s[i] \in B
    BY <1>2 DEF Leads
  <2>2. NoObject \in B
    BY <1>2
  <2> QED
    BY <1>2, <1>3, <2>1, <2>2, PointersInSeq
<1>5. \A i \in DOMAIN s : /\ IsPtr(t[i]) => t[i] \in Pointers
                          /\ IsPtr(t[i]) <=> IsPtr(s[i])
                          /\ IsPtr(s[i]) => s[i] \in A /\ t[i] = psi[s[i]]
  BY <1>1, PointersAre DEF Leads
<1>6. /\ r \in Seq(Pointers) /\ Len(r) = Len(s)
      /\ \A i \in DOMAIN s : r[i] = IF IsPtr(t[i]) THEN t[i] ELSE NoObject
  <2>1. \A i \in DOMAIN t : IsPtr(t[i]) => t[i] \in Pointers
    BY <1>3, <1>5
  <2> QED
    BY <1>2, <1>3, <2>1, PointersAre, PointersInSeq
<1>7. u \in Seq(Pointers) /\ Len(u) = Len(s) /\ \A i \in 1 .. Len(s) : u[i] = psi[q[i]]
  <2>1. Renaming(psi, B, Pointers)
    BY <1>1, <1>2
  <2> QED
    BY <1>2, <1>4, <2>1, RenamedSeq
<1>8. ASSUME NEW i \in 1 .. Len(s) PROVE r[i] = u[i]
  <2>1. /\ i \in DOMAIN s /\ u[i] = psi[q[i]]
        /\ q[i] = IF IsPtr(s[i]) THEN s[i] ELSE NoObject
        /\ r[i] = IF IsPtr(t[i]) THEN t[i] ELSE NoObject
    BY <1>3, <1>4, <1>6, <1>7, <1>8
  <2>2. CASE IsPtr(s[i])
    BY <1>5, <2>1, <2>2
  <2>3. CASE ~ IsPtr(s[i])
    BY <1>1, <1>5, <2>1, <2>3
  <2> QED
    BY <2>2, <2>3
<1>9. r = u
  BY <1>6, <1>7, <1>8, SeqEqual
<1> QED
  BY <1>2, <1>4, <1>9

\* An object has the same name in both graphs.
LEMMA SameName ==
    ASSUME NEW A, A \subseteq Pointers, NoObject \notin A, NEW W, W \subseteq Pointers,
           NoObject \notin W, NEW phi \in [A -> W], NEW psi, psi = Extended(phi, A),
           \A a, c \in A : phi[a] = phi[c] => a = c,
           NEW found \in Seq(A), NEW found2, found2 = Renamed(psi, found),
           NEW u, NEW w, IF IsPtr(u) THEN u \in A /\ w = phi[u] ELSE w = u
    PROVE  Name(found2, w) = Name(found, u)
<1>1. /\ Renaming(psi, A \cup {NoObject}, Pointers)
      /\ \A a \in A : psi[a] = phi[a] /\ phi[a] \in W
  BY PointersAre DEF Extended, Renaming
<1>2. CASE ~ IsPtr(u)
  BY <1>2 DEF Name
<1>3. CASE IsPtr(u)
  <2>1. u \in A /\ w = psi[u] /\ IsPtr(w)
    BY <1>1, <1>3, PointersAre
  <2>2. PICK B : B = A \cup {NoObject} /\ Renaming(psi, B, Pointers) /\ found \in Seq(B)
    <3>1. A \subseteq A \cup {NoObject}
      OBVIOUS
    <3>2. found \in Seq(A \cup {NoObject})
      BY <3>1, SeqMonotonic
    <3> QED
      BY <1>1, <3>2
  <2>3. /\ Len(found2) = Len(found) /\ Len(found) \in Nat /\ found2 \in Seq(Pointers)
        /\ \A i \in 1 .. Len(found) : found2[i] = psi[found[i]]
    BY <2>2, RenamedSeq
  <2>4. DOMAIN found2 = 1 .. Len(found) /\ DOMAIN found = 1 .. Len(found)
        /\ \A i \in 1 .. Len(found) : found[i] \in A
    BY <2>3, LenProperties, ElementOfSeq
  <2>5. \A i \in 1 .. Len(found) : found2[i] = w <=> found[i] = u
    BY <1>1, <2>1, <2>3, <2>4
  <2>6. Contains(found2, w) <=> Contains(found, u)
    BY <2>3, <2>5 DEF Contains
  <2>7. (CHOOSE k \in DOMAIN found2 : found2[k] = w) = (CHOOSE k \in DOMAIN found : found[k] = u)
    BY <2>4, <2>5
  <2>8. PICK c, d : /\ c = (CHOOSE k \in DOMAIN found2 : found2[k] = w)
                    /\ d = (CHOOSE k \in DOMAIN found : found[k] = u) /\ c = d
    BY <2>7
  <2>9. Name(found2, w) = IF Contains(found2, w) THEN <<"node", c>> ELSE <<"dangling">>
    BY <2>1, <2>8 DEF Name
  <2>10. Name(found, u) = IF Contains(found, u) THEN <<"node", d>> ELSE <<"dangling">>
    BY <1>3, <2>8 DEF Name
  <2> QED
    BY <2>6, <2>8, <2>9, <2>10
<1> QED
  BY <1>2, <1>3

LEMMA GraphsEqual ==
    ASSUME NEW graph, NEW values, NEW view, NEW D, NEW b, IsGraph(graph, values, view, D, b),
           NEW graph2, NEW values2, NEW view2, NEW D2, NEW b2,
           IsGraph(graph2, values2, view2, D2, b2),
           NEW A, NEW phi, Isomorphism(values, view, values2, view2, A, phi)
    PROVE  graph2 = graph
<1>1. PICK V, W, succ, succ2 : /\ V = DOMAIN view /\ W = DOMAIN view2
                               /\ succ = SuccOf(view) /\ succ2 = SuccOf(view2)
  OBVIOUS
<1>2. PICK psi, B : psi = Extended(phi, A) /\ B = A \cup {NoObject}
  OBVIOUS
<1>3. /\ Searchable(Pointers, V, succ, b) /\ IsSearch(D, Pointers, V, succ)
      /\ IsSearch(D2, Pointers, W, succ2)
      /\ V \subseteq Pointers /\ W \subseteq Pointers /\ NoObject \notin V /\ NoObject \notin W
      /\ A \subseteq V /\ A \subseteq Pointers /\ NoObject \notin A /\ phi \in [A -> W]
      /\ \A a, c \in A : phi[a] = phi[c] => a = c
      /\ Leads(values, values2, A, phi)
  BY <1>1 DEF IsGraph, Isomorphism, Searchable
<1>4. /\ Renaming(psi, B, Pointers) /\ psi[NoObject] = NoObject
      /\ \A a \in A : psi[a] = phi[a] /\ phi[a] \in W
  BY <1>2, <1>3, ExtendedRenaming
<1>5. ASSUME NEW a \in A
      PROVE  succ[a] \in Seq(B) /\ succ2[phi[a]] = Renamed(psi, succ[a])
  <2>1. PICK x, y : x = view[a] /\ y = view2[phi[a]] /\ ObjectLeads(x, y, A, phi)
    BY DEF Isomorphism
  <2>2. /\ succ[a] = IF No_scan(Tag_hd(x.hd)) THEN <<>> ELSE PointersIn(x.words)
        /\ succ2[phi[a]] = IF No_scan(Tag_hd(y.hd)) THEN <<>> ELSE PointersIn(y.words)
    BY <1>1, <1>3, <1>4, <2>1 DEF SuccOf
  <2>3. CASE No_scan(Tag_hd(x.hd))
    <3>1. succ[a] = <<>> /\ succ2[phi[a]] = <<>>
      BY <2>1, <2>2, <2>3 DEF ObjectLeads
    <3>2. <<>> \in Seq(B) /\ Renamed(psi, <<>>) = <<>>
      BY EmptySeq DEF Renamed
    <3> QED
      BY <3>1, <3>2
  <2>4. CASE ~ No_scan(Tag_hd(x.hd))
    <3>1. Leads(x.words, y.words, A, phi) /\ y.hd = x.hd
      BY <2>1, <2>4 DEF ObjectLeads
    <3>2. PICK s, t : s = x.words /\ t = y.words /\ Leads(s, t, A, phi)
      BY <3>1
    <3>3. PointersIn(s) \in Seq(B) /\ PointersIn(t) = Renamed(psi, PointersIn(s))
      BY <1>2, <1>3, <3>2, LeadsRenamed
    <3> QED
      BY <2>2, <2>4, <3>1, <3>2, <3>3
  <2> QED
    BY <2>3, <2>4
<1>6. SameSearch(A, B, Pointers, V, W, succ, succ2, psi) /\ B \subseteq Pointers
  BY <1>2, <1>3, <1>4, <1>5, PointersAre DEF SameSearch
<1>7. PICK q, q2 : /\ q = PointersIn(values) /\ q2 = PointersIn(values2)
                   /\ q \in Seq(B) /\ q2 = Renamed(psi, q)
  <2>1. /\ PointersIn(values) \in Seq(A \cup {NoObject})
        /\ PointersIn(values2) = Renamed(psi, PointersIn(values))
    BY <1>2, <1>3, LeadsRenamed
  <2> QED
    BY <1>2, <2>1
<1>8. PICK st, st2 : st = << <<>>, q >> /\ st2 = << <<>>, q2 >>
  OBVIOUS
<1>9. PICK found, found2 : found = D[st] /\ found2 = D2[st2]
  OBVIOUS
<1>10. found \in Seq(A) /\ found2 = Renamed(psi, found)
  <2>1. st[1] = <<>> /\ st[2] = q
    BY <1>8
  <2>2. q \in Seq(Pointers)
    BY <1>6, <1>7, SeqMonotonic
  <2>3. <<>> \in Seq(Pointers) /\ <<>> \in Seq(A) /\ Renamed(psi, <<>>) = <<>>
    BY EmptySeq DEF Renamed
  <2>4. st \in States(Pointers)
    BY <1>8, <2>2, <2>3 DEF States
  <2>5. \A r \in States(Pointers) : r[1] \in Seq(A) /\ r[2] \in Seq(B) =>
            /\ D[r] \in Seq(A)
            /\ D2[<<Renamed(psi, r[1]), Renamed(psi, r[2])>>] = Renamed(psi, D[r])
    BY <1>3, <1>6, SearchRenamed
  <2>6. /\ D[st] \in Seq(A)
        /\ D2[<<Renamed(psi, st[1]), Renamed(psi, st[2])>>] = Renamed(psi, D[st])
    BY <1>7, <2>1, <2>3, <2>4, <2>5
  <2>7. <<Renamed(psi, st[1]), Renamed(psi, st[2])>> = st2
    BY <1>7, <1>8, <2>1, <2>3
  <2> QED
    BY <1>9, <2>6, <2>7
<1>11. graph = GraphOf(found, values, view) /\ graph2 = GraphOf(found2, values2, view2)
  BY <1>7, <1>8, <1>9 DEF IsGraph
<1>12. ASSUME NEW u, NEW w, IF IsPtr(u) THEN u \in A /\ w = phi[u] ELSE w = u
       PROVE  Name(found2, w) = Name(found, u)
  BY <1>2, <1>3, <1>10, <1>12, SameName
<1>13. /\ DOMAIN found2 = DOMAIN found
       /\ \A k \in DOMAIN found : found[k] \in A /\ found2[k] = phi[found[k]]
  <2>1. found \in Seq(B)
    BY <1>2, <1>10, SeqMonotonic
  <2>2. /\ Len(found2) = Len(found) /\ found2 \in Seq(Pointers) /\ Len(found) \in Nat
        /\ \A i \in 1 .. Len(found) : found2[i] = psi[found[i]]
    BY <1>4, <1>10, <2>1, RenamedSeq
  <2>3. DOMAIN found2 = 1 .. Len(found) /\ DOMAIN found = 1 .. Len(found)
        /\ \A i \in 1 .. Len(found) : found[i] \in A
    BY <1>10, <2>2, LenProperties, ElementOfSeq
  <2> QED
    BY <1>4, <2>2, <2>3
<1>14. ASSUME NEW s, NEW t, Leads(s, t, A, phi)
       PROVE  /\ DOMAIN t = DOMAIN s
              /\ \A i \in DOMAIN s : Name(found2, t[i]) = Name(found, s[i])
  <2>1. DOMAIN t = DOMAIN s
    <3>1. IsSeq(s) /\ IsSeq(t) /\ Len(t) = Len(s)
      BY <1>14 DEF Leads
    <3> QED
      BY <3>1, IsSeqLen
  <2>2. ASSUME NEW i \in DOMAIN s PROVE Name(found2, t[i]) = Name(found, s[i])
    <3>1. PICK u, w : u = s[i] /\ w = t[i]
      OBVIOUS
    <3>2. IF IsPtr(u) THEN u \in A /\ w = phi[u] ELSE w = u
      BY <1>14, <3>1 DEF Leads
    <3> QED
      BY <1>12, <3>1, <3>2
  <2> QED
    BY <2>1, <2>2
<1>15. [k \in DOMAIN values2 |-> Name(found2, values2[k])]
           = [k \in DOMAIN values |-> Name(found, values[k])]
  BY <1>3, <1>14
<1>16. ASSUME NEW k \in DOMAIN found
       PROVE  NodeOf(found2, view2[found2[k]]) = NodeOf(found, view[found[k]])
  <2>1. PICK x, y : /\ x = view[found[k]] /\ y = view2[found2[k]] /\ ObjectLeads(x, y, A, phi)
    BY <1>13 DEF Isomorphism
  <2>2. CASE No_scan(Tag_hd(x.hd))
    <3>1. y.hd = x.hd /\ y.words = x.words
      BY <2>1, <2>2 DEF ObjectLeads
    <3>2. NodeOf(found2, y) = [header |-> y.hd, fields |-> [i \in DOMAIN y.words |-> y.words[i]]]
      BY <2>2, <3>1 DEF NodeOf
    <3>3. NodeOf(found, x) = [header |-> x.hd, fields |-> [i \in DOMAIN x.words |-> x.words[i]]]
      BY <2>2 DEF NodeOf
    <3> QED
      BY <2>1, <3>1, <3>2, <3>3
  <2>3. CASE ~ No_scan(Tag_hd(x.hd))
    <3>1. PICK s, t : s = x.words /\ t = y.words /\ Leads(s, t, A, phi) /\ y.hd = x.hd
      BY <2>1, <2>3 DEF ObjectLeads
    <3>2. NodeOf(found2, y) = [header |-> y.hd, fields |-> [i \in DOMAIN t |-> Name(found2, t[i])]]
      BY <2>3, <3>1 DEF NodeOf
    <3>3. NodeOf(found, x) = [header |-> x.hd, fields |-> [i \in DOMAIN s |-> Name(found, s[i])]]
      BY <2>3, <3>1 DEF NodeOf
    <3>4. [i \in DOMAIN t |-> Name(found2, t[i])] = [i \in DOMAIN s |-> Name(found, s[i])]
      BY <1>14, <3>1
    <3> QED
      BY <2>1, <3>1, <3>2, <3>3, <3>4
  <2> QED
    BY <2>2, <2>3
<1>17. [k \in DOMAIN found2 |-> NodeOf(found2, view2[found2[k]])]
           = [k \in DOMAIN found |-> NodeOf(found, view[found[k]])]
  BY <1>13, <1>16
<1> QED
  BY <1>11, <1>15, <1>17 DEF GraphOf

-----------------------------------------------------------------------------
(* What the mutator sees of the heap. *)

View ==
    [v \in Objects |->
        [hd    |-> Hd_val(mem, v),
         words |-> [i \in 1 .. Wosize(mem, v) |->
             IF No_scan(Tag_hd(Hd_val(mem, v)))
             THEN Field(mem, v, i - 1)
             ELSE Current(Field(mem, v, i - 1))]]]

LEMMA ObjectsValid ==
    ASSUME HeapInv, Bookkeeping PROVE Objects = {v \in Pointers : Valid(v)}
<1>1. TypesOK /\ ObjectsOK
  BY DEF HeapInv
<1>2. ASSUME NEW v \in Objects PROVE v \in Pointers /\ Valid(v)
  <2>1. PICK s \in Spaces : \E k \in Headers(s) :
            /\ v = Ptr(s, k + 1) /\ k \in Nat /\ mem[s][k] # ZeroHeader
            /\ Hd_val(mem, v) = mem[s][k]
    BY ObjectsHave
  <2>2. PICK k \in Headers(s) :
            /\ v = Ptr(s, k + 1) /\ k \in Nat /\ mem[s][k] # ZeroHeader
            /\ Hd_val(mem, v) = mem[s][k]
    BY <2>1
  <2>3. s \in Nat /\ k + 1 \in Nat /\ (k + 1) - 1 = k
    BY <2>2, SpaceNumbers
  <2>4. SpaceOf(v) = s /\ IndexOf(v) = k + 1 /\ v \in Pointers
    BY <2>2, <2>3 DEF Ptr, SpaceOf, IndexOf, Pointers
  <2>5. PointsToObject(v)
    BY <2>2, <2>3, <2>4 DEF PointsToObject
  <2> QED
    BY <1>1, <2>2, <2>4, <2>5, WholeValid
<1>3. ASSUME NEW v \in Pointers, Valid(v) PROVE v \in Objects
  <2>1. PICK s, i : /\ s \in Spaces /\ s = SpaceOf(v) /\ i = IndexOf(v)
                    /\ i \in 2 .. InUse(s) + 1 /\ IsHeader(mem[s][i - 1])
                    /\ mem[s][i - 1] # ZeroHeader /\ Hd_val(mem, v) = mem[s][i - 1]
    BY <1>3 DEF Valid, Hd_val
  <2>2. InUse(s) \in Nat
    BY <1>1, <2>1, InUseType
  <2>3. i - 1 \in 0 + 1 .. InUse(s) /\ (i - 1) + 1 = i
    BY <2>1, <2>2
  <2>4. v = Ptr(s, i)
    BY <1>3, <2>1 DEF Pointers, Ptr, SpaceOf, IndexOf
  <2>5. PICK j : j = i - 1 /\ j \in 0 + 1 .. InUse(s) /\ IsHeader(mem[s][j]) /\ v = Ptr(s, j + 1)
    BY <2>1, <2>3, <2>4
  <2>6. v \in ObjectsBetween(s, 0, InUse(s))
    BY <2>5 DEF ObjectsBetween
  <2> QED
    BY <2>1, <2>6 DEF Objects
<1> QED
  BY <1>2, <1>3

LEMMA ObjectsFinite ==
    ASSUME HeapInv, Bookkeeping PROVE IsFiniteSet(Objects)
<1>1. TypesOK /\ ObjectsOK
  BY DEF HeapInv
<1>2. IsFiniteSet(Spaces) /\ Spaces \subseteq Nat
  BY SpaceNumbers, FS_Interval
<1>3. PICK n \in Nat : \A s \in Spaces : InUse(s) + 1 <= n
  <2>1. PICK g : g = [s \in Spaces |-> InUse(s) + 1]
    OBVIOUS
  <2>2. g \in [Spaces -> Nat]
    BY <1>1, <2>1, InUseType
  <2>3. PICK n \in Nat : \A s \in Spaces : g[s] <= n
    BY <1>2, <2>2, FamilyBounded
  <2> QED
    BY <2>1, <2>3
<1>4. PICK P : P = Spaces \X (0 .. n) /\ IsFiniteSet(P)
  <2>1. PICK N : N = 0 .. n /\ IsFiniteSet(N)
    BY FS_Interval
  <2>2. IsFiniteSet(Spaces \X N)
    BY <1>2, <2>1, FS_Product
  <2> QED
    BY <2>1, <2>2
<1>5. PICK f, T : f = [p \in P |-> Ptr(p[1], p[2])] /\ T = {f[p] : p \in P}
  OBVIOUS
<1>6. IsFiniteSet(T)
  <2>1. f \in Surjection(P, T)
    BY <1>5 DEF Surjection
  <2> QED
    BY <1>4, <2>1, FS_Surjection
<1>7. ASSUME NEW v \in Objects PROVE v \in T
  <2>1. v \in Pointers /\ SpaceOf(v) \in Spaces /\ IndexOf(v) \in 2 .. InUse(SpaceOf(v)) + 1
    BY ObjectsValid DEF Valid
  <2>2. PICK s, i : s = SpaceOf(v) /\ i = IndexOf(v) /\ v = Ptr(s, i) /\ s \in Spaces
                    /\ i \in 2 .. InUse(s) + 1 /\ InUse(s) \in Nat
    BY <1>1, <2>1, InUseType DEF Pointers, Ptr, SpaceOf, IndexOf
  <2>3. i \in 0 .. n
    BY <1>3, <2>2
  <2>4. <<s, i>> \in P /\ f[<<s, i>>] = v
    BY <1>4, <1>5, <2>2, <2>3
  <2> QED
    BY <1>5, <2>4
<1> QED
  BY <1>6, <1>7, FS_Subset

LEMMA NoObjectIsNone ==
    ASSUME HeapInv, Bookkeeping PROVE NoObject \notin Objects
<1>1. IndexOf(NoObject) = 0
  BY DEF NoObject, Ptr, IndexOf
<1>2. ASSUME Valid(NoObject) PROVE FALSE
  <2>1. PICK n : n = InUse(SpaceOf(NoObject)) /\ n \in Nat /\ 0 \in 2 .. n + 1
    BY <1>1, <1>2, InUseType DEF Valid, HeapInv
  <2> QED
    BY <2>1
<1> QED
  BY <1>2, ObjectsValid

\* What a value stands for is an object, if it is a pointer at all.
LEMMA CurrentObject ==
    ASSUME HeapInv, Bookkeeping, WordsPlain, NEW x, Known(x), Plain(x), NEW u, u = Current(x),
           IsPtr(u)
    PROVE  u \in Objects
<1>1. CASE ~ IsPtr(x)
  BY <1>1, CurrentSame
<1>2. CASE IsPtr(x)
  <2>1. PointsToObject(x) /\ Valid(u)
    BY <1>2, CurrentValid DEF Known
  <2>2. CASE u = x
    BY <1>2, <2>1, <2>2, ObjectsValid DEF Plain
  <2>3. CASE u # x
    <3>1. PICK f, j : /\ f = copy.from /\ f = SpaceOf(x) /\ f \in Spaces
                      /\ j = IndexOf(x) - 1 /\ j \in Headers(f)
                      /\ IndexOf(x) \in Nat /\ IndexOf(x) = j + 1
      BY <2>1, <2>3, CurrentSame DEF PointsToObject
    <3>2. u = mem[f][j + 1]
      <4>1. IndexOf(x) + 0 = j + 1
        BY <3>1
      <4> QED
        BY <2>3, <3>1, <4>1 DEF Current, Field
    <3>3. j + 1 \in DOMAIN mem[f]
      <4>1. TypesOK /\ ObjectsOK
        BY DEF HeapInv
      <4>2. /\ j \in Nat /\ Size(f, j) \in Nat \ {0} /\ j + Size(f, j) <= InUse(f)
            /\ InUse(f) <= Len(mem[f]) /\ InUse(f) \in Nat /\ Len(mem[f]) \in Nat
            /\ DOMAIN mem[f] = 1 .. Len(mem[f])
        BY <3>1, <4>1, WordIndex, InUseType DEF ObjectsOK
      <4> QED
        BY <4>2
    <3>4. u \in Pointers
      BY <3>1, <3>2, <3>3 DEF WordsPlain, Plain
    <3> QED
      BY <2>1, <3>4, ObjectsValid
  <2> QED
    BY <2>2, <2>3
<1> QED
  BY <1>1, <1>2

\* The words of an object, and what they stand for.
LEMMA ViewWords ==
    ASSUME HeapInv, Bookkeeping, WordsPlain, NEW v \in Objects
    PROVE  /\ View[v].hd = Hd_val(mem, v) /\ Wosize(mem, v) \in Nat
           /\ View[v].words = [i \in 1 .. Wosize(mem, v) |->
                  IF No_scan(Tag_hd(Hd_val(mem, v)))
                  THEN Field(mem, v, i - 1) ELSE Current(Field(mem, v, i - 1))]
           /\ IsSeq(View[v].words) /\ Len(View[v].words) = Wosize(mem, v)
           /\ ~ No_scan(Tag_hd(Hd_val(mem, v))) =>
                  \A i \in 1 .. Wosize(mem, v) :
                      IsPtr(View[v].words[i]) => View[v].words[i] \in Objects
<1>1. PICK s \in Spaces : \E k \in Headers(s) :
          /\ v = Ptr(s, k + 1) /\ k \in Nat /\ mem[s][k] # ZeroHeader
          /\ Hd_val(mem, v) = mem[s][k] /\ Wosize(mem, v) = Size(s, k)
          /\ Size(s, k) \in Nat
          /\ \A i \in Nat : Field(mem, v, i - 1) = mem[s][k + i]
  BY ObjectsHave
<1>2. PICK k \in Headers(s) :
          /\ k \in Nat /\ mem[s][k] # ZeroHeader
          /\ Hd_val(mem, v) = mem[s][k] /\ Wosize(mem, v) = Size(s, k)
          /\ Size(s, k) \in Nat
          /\ \A i \in Nat : Field(mem, v, i - 1) = mem[s][k + i]
  BY <1>1
<1>3. PICK hd, sz : hd = Hd_val(mem, v) /\ sz = Wosize(mem, v) /\ sz \in Nat
  BY <1>2
<1>4. PICK q : q = [i \in 1 .. sz |->
                  IF No_scan(Tag_hd(hd))
                  THEN Field(mem, v, i - 1) ELSE Current(Field(mem, v, i - 1))]
  OBVIOUS
<1>5. View[v] = [hd |-> hd, words |-> q]
  BY <1>3, <1>4 DEF View
<1>6. IsSeq(q) /\ Len(q) = sz
  <2>1. DOMAIN q = 1 .. sz /\ q = [i \in 1 .. sz |-> q[i]]
    BY <1>4
  <2> QED
    BY <1>3, <2>1, SeqOfFunction
<1>7. ASSUME ~ No_scan(Tag_hd(hd)), NEW i \in 1 .. sz, IsPtr(q[i]) PROVE q[i] \in Objects
  <2>1. PICK x : x = Field(mem, v, i - 1) /\ x = mem[s][k + i] /\ q[i] = Current(x)
    <3>1. i \in Nat /\ q[i] = Current(Field(mem, v, i - 1))
      BY <1>3, <1>4, <1>7
    <3> QED
      BY <1>2, <3>1
  <2>2. HasPointers(s, k) /\ i \in 1 .. Size(s, k)
    BY <1>2, <1>3, <1>7 DEF HasPointers
  <2>3. TypesOK /\ ObjectsOK /\ PointersOK
    BY DEF HeapInv
  <2>4. /\ k + i \in k + 1 .. k + Size(s, k) /\ k + i \in DOMAIN mem[s]
    <3>1. /\ k + Size(s, k) <= InUse(s) /\ InUse(s) <= Len(mem[s]) /\ InUse(s) \in Nat
          /\ Len(mem[s]) \in Nat /\ DOMAIN mem[s] = 1 .. Len(mem[s])
      BY <2>3, WordIndex, InUseType DEF ObjectsOK
    <3>2. PICK n : n = Size(s, k) /\ n \in Nat /\ i \in 1 .. n /\ k + n <= Len(mem[s])
      BY <1>2, <2>2, <3>1
    <3> QED
      BY <1>2, <3>1, <3>2
  <2>5. Known(x)
    BY <2>1, <2>2, <2>3, <2>4 DEF PointersOK, Known
  <2>6. Plain(x)
    BY <2>1, <2>4 DEF WordsPlain
  <2> QED
    BY <1>7, <2>1, <2>5, <2>6, CurrentObject
<1> QED
  BY <1>3, <1>4, <1>5, <1>6, <1>7

LEMMA ViewSearchable ==
    ASSUME HeapInv, Bookkeeping, WordsPlain
    PROVE  \E b : Searchable(Pointers, Objects, SuccOf(View), b)
<1>1. Objects \subseteq Pointers /\ IsFiniteSet(Objects) /\ DOMAIN View = Objects
  BY ObjectsValid, ObjectsFinite DEF View
<1>2. PICK succ : succ = SuccOf(View)
  OBVIOUS
<1>3. ASSUME NEW v \in Objects PROVE succ[v] \in Seq(Pointers)
  <2>1. PICK x : x = View[v] /\ succ[v] = IF No_scan(Tag_hd(x.hd)) THEN <<>> ELSE PointersIn(x.words)
    BY <1>1, <1>2 DEF SuccOf
  <2>2. CASE No_scan(Tag_hd(x.hd))
    BY <2>1, <2>2, EmptySeq
  <2>3. CASE ~ No_scan(Tag_hd(x.hd))
    <3>1. PICK s : s = x.words
      OBVIOUS
    <3>2. IsSeq(s) /\ \A i \in DOMAIN s : IsPtr(s[i]) => s[i] \in Pointers
      BY <1>1, <2>1, <2>3, <3>1, ViewWords, IsSeqLen
    <3>3. PointersIn(s) \in Seq(Pointers)
      BY <3>2, PointersInSeq, PointersAre
    <3> QED
      BY <2>1, <2>3, <3>1, <3>3
  <2> QED
    BY <2>2, <2>3
<1>4. succ \in [Objects -> Seq(Pointers)]
  <2>1. succ = [v \in Objects |-> succ[v]]
    BY <1>1, <1>2 DEF SuccOf
  <2> QED
    BY <1>3, <2>1
<1>5. PICK g : g = [v \in Objects |-> Len(succ[v])]
  OBVIOUS
<1>6. g \in [Objects -> Nat]
  BY <1>4, <1>5, LenProperties
<1>7. PICK b \in Nat : \A v \in Objects : g[v] <= b
  BY <1>1, <1>6, FamilyBounded
<1> QED
  BY <1>1, <1>2, <1>4, <1>5, <1>7 DEF Searchable

\* What Discover does with what D does for the rest.
DiscoverStep(D, search) ==
    LET found == search[1]
        todo  == search[2]
    IN  IF todo = <<>> THEN found
        ELSE IF Contains(found, Head(todo)) \/ ~ Valid(Head(todo))
        THEN D[<<found, Tail(todo)>>]
        ELSE D[<<Append(found, Head(todo)),
                 PointersIn(Children(Head(todo))) \o Tail(todo)>>]

LEMMA DiscoverStepIs ==
    ASSUME HeapInv, Bookkeeping, WordsPlain, NEW D, NEW st \in States(Pointers)
    PROVE  DiscoverStep(D, st) = SearchStep(Objects, SuccOf(View), D, st)
<1>1. PICK succ : succ = SuccOf(View)
  OBVIOUS
<1>2. PICK found \in Seq(Pointers), todo \in Seq(Pointers) : found = st[1] /\ todo = st[2]
  BY DEF States
<1>3. CASE todo = <<>>
  BY <1>2, <1>3 DEF DiscoverStep, SearchStep
<1>4. CASE todo # <<>>
  <2>1. PICK v \in Pointers : v = Head(todo)
    BY <1>4, HeadTailProperties
  <2>2. Contains(found, v) <=> v \in Items(found)
    <3>1. DOMAIN found = 1 .. Len(found)
      BY LenProperties
    <3> QED
      BY <3>1 DEF Contains, Items
  <2>3. Valid(v) <=> v \in Objects
    BY <2>1, ObjectsValid
  <2>4. ASSUME v \in Objects PROVE succ[v] = PointersIn(Children(v))
    <3>1. PICK x : x = View[v] /\ succ[v] = IF No_scan(Tag_hd(x.hd)) THEN <<>> ELSE PointersIn(x.words)
      <4>1. DOMAIN View = Objects
        BY DEF View
      <4> QED
        BY <1>1, <2>4, <4>1 DEF SuccOf
    <3>2. x.hd = Hd_val(mem, v) /\ x.words = [i \in 1 .. Wosize(mem, v) |->
                  IF No_scan(Tag_hd(Hd_val(mem, v)))
                  THEN Field(mem, v, i - 1) ELSE Current(Field(mem, v, i - 1))]
      BY <2>4, <3>1, ViewWords
    <3>3. CASE No_scan(Tag_hd(x.hd))
      <4>1. Children(v) = <<>>
        BY <3>2, <3>3 DEF Children
      <4>2. PointersIn(<<>>) = <<>>
        <5>1. DOMAIN <<>> = {}
          OBVIOUS
        <5>2. <<>> = [i \in {} |-> i]
          OBVIOUS
        <5> QED
          BY <5>1, <5>2 DEF PointersIn
      <4> QED
        BY <3>1, <3>3, <4>1, <4>2
    <3>4. CASE ~ No_scan(Tag_hd(x.hd))
      <4>1. Children(v) = x.words
        BY <3>2, <3>4 DEF Children
      <4> QED
        BY <3>1, <3>4, <4>1
    <3> QED
      BY <3>3, <3>4
  <2>5. CASE v \in Items(found) \/ v \notin Objects
    BY <1>2, <1>4, <2>1, <2>2, <2>3, <2>5 DEF DiscoverStep, SearchStep
  <2>6. CASE ~ (v \in Items(found) \/ v \notin Objects)
    <3>1. DiscoverStep(D, st) = D[<<Append(found, v), PointersIn(Children(v)) \o Tail(todo)>>]
      BY <1>2, <1>4, <2>1, <2>2, <2>3, <2>6 DEF DiscoverStep
    <3>2. SearchStep(Objects, succ, D, st) = D[<<Append(found, v), succ[v] \o Tail(todo)>>]
      BY <1>2, <1>4, <2>1, <2>2, <2>3, <2>6 DEF SearchStep
    <3> QED
      BY <1>1, <2>4, <2>6, <3>1, <3>2
  <2> QED
    BY <2>5, <2>6
<1> QED
  BY <1>3, <1>4

\* Discover is the search of what the mutator sees: such a function exists.
LEMMA DiscoverSearches ==
    ASSUME HeapInv, Bookkeeping, WordsPlain
    PROVE  IsSearch(Discover, Pointers, Objects, SuccOf(View))
<1>1. Discover = CHOOSE D : D = [st \in Seq(Pointers) \X Seq(Pointers) |-> DiscoverStep(D, st)]
  BY DEF Discover, DiscoverStep
<1>2. PICK D : IsSearch(D, Pointers, Objects, SuccOf(View))
  BY ViewSearchable, SearchExists
<1>3. D = [st \in Seq(Pointers) \X Seq(Pointers) |-> DiscoverStep(D, st)]
  <2>1. D = [st \in States(Pointers) |-> SearchStep(Objects, SuccOf(View), D, st)]
    BY <1>2 DEF IsSearch
  <2>2. D = [st \in States(Pointers) |-> DiscoverStep(D, st)]
    BY <2>1, DiscoverStepIs
  <2> QED
    BY <2>2 DEF States
<1>4. Discover = [st \in States(Pointers) |-> DiscoverStep(Discover, st)]
  BY <1>1, <1>3 DEF States
<1>5. Discover = [st \in States(Pointers) |-> SearchStep(Objects, SuccOf(View), Discover, st)]
  BY <1>4, DiscoverStepIs
<1> QED
  BY <1>5 DEF IsSearch

\* What is found below values are objects.
LEMMA FoundObjects ==
    ASSUME HeapInv, Bookkeeping, WordsPlain, NEW values, IsSeq(values),
           \A i \in DOMAIN values : Plain(values[i])
    PROVE  ObjectsFrom(values) \in Seq(Pointers) /\ Items(ObjectsFrom(values)) \subseteq Objects
<1>1. PICK succ, b : succ = SuccOf(View) /\ Searchable(Pointers, Objects, succ, b)
  BY ViewSearchable
<1>2. PICK D : D = Discover /\ IsSearch(D, Pointers, Objects, succ)
  BY <1>1, DiscoverSearches
<1>3. PICK q : q = PointersIn(values) /\ q \in Seq(Pointers)
  BY PointersInSeq, PointersAre DEF Plain
<1>4. PICK st : st = << <<>>, q >>
  OBVIOUS
<1>5. st \in States(Pointers) /\ st[1] = <<>> /\ st[2] = q
  BY <1>3, <1>4, EmptySeq DEF States
<1>6. D[st] \in Seq(Pointers)
  BY <1>1, <1>2, <1>5, SearchType
<1>7. Closes(Objects, succ, Items(D[st]), <<>>, q)
  BY <1>1, <1>2, <1>5, SearchCloses
<1>8. Items(<<>>) = {}
  BY DEF Items
<1>9. Items(D[st]) \subseteq Objects
  BY <1>7, <1>8 DEF Closes
<1> QED
  BY <1>2, <1>3, <1>4, <1>6, <1>9 DEF ObjectsFrom

LEMMA GraphIs ==
    ASSUME HeapInv, Bookkeeping, WordsPlain, NEW values, IsSeq(values),
           \A i \in DOMAIN values : Plain(values[i])
    PROVE  \E b : IsGraph(GraphFrom(values), values, View, Discover, b)
<1>1. PICK b : Searchable(Pointers, Objects, SuccOf(View), b)
  BY ViewSearchable
<1>2. DOMAIN View = Objects /\ NoObject \notin Objects
  BY NoObjectIsNone DEF View
<1>3. PICK found : /\ found = ObjectsFrom(values) /\ found = Discover[<< <<>>, PointersIn(values) >>]
                   /\ found \in Seq(Pointers) /\ \A k \in DOMAIN found : found[k] \in Objects
  BY FoundObjects DEF ObjectsFrom, Items
<1>4. GraphFrom(values) =
            [roots |-> [k \in DOMAIN values |-> Name(found, values[k])],
             nodes |-> [k \in DOMAIN found |->
                 [header |-> Hd_val(mem, found[k]),
                  fields |-> [i \in 1 .. Wosize(mem, found[k]) |->
                      IF No_scan(Tag_hd(Hd_val(mem, found[k])))
                      THEN Field(mem, found[k], i - 1)
                      ELSE Name(found, Current(Field(mem, found[k], i - 1)))]]]]
  BY <1>3 DEF GraphFrom
<1>5. ASSUME NEW v \in Objects
      PROVE  NodeOf(found, View[v]) =
                 [header |-> Hd_val(mem, v),
                  fields |-> [i \in 1 .. Wosize(mem, v) |->
                      IF No_scan(Tag_hd(Hd_val(mem, v)))
                      THEN Field(mem, v, i - 1)
                      ELSE Name(found, Current(Field(mem, v, i - 1)))]]
  <2>1. PICK x, hd, sz : x = View[v] /\ hd = Hd_val(mem, v) /\ sz = Wosize(mem, v)
    OBVIOUS
  <2>2. /\ x.hd = hd
        /\ x.words = [i \in 1 .. sz |-> IF No_scan(Tag_hd(hd))
                          THEN Field(mem, v, i - 1) ELSE Current(Field(mem, v, i - 1))]
    BY <2>1, ViewWords
  <2>3. DOMAIN x.words = 1 .. sz
    BY <2>2
  <2>4. \A i \in 1 .. sz :
            (IF No_scan(Tag_hd(hd)) THEN x.words[i] ELSE Name(found, x.words[i]))
              = IF No_scan(Tag_hd(hd)) THEN Field(mem, v, i - 1)
                ELSE Name(found, Current(Field(mem, v, i - 1)))
    BY <2>2
  <2>5. NodeOf(found, x) =
            [header |-> hd,
             fields |-> [i \in 1 .. sz |->
                 IF No_scan(Tag_hd(hd)) THEN x.words[i] ELSE Name(found, x.words[i])]]
    BY <2>2, <2>3 DEF NodeOf
  <2> QED
    BY <2>1, <2>4, <2>5
<1>6. GraphFrom(values) = GraphOf(found, values, View)
  BY <1>3, <1>4, <1>5 DEF GraphOf
<1> QED
  BY <1>1, <1>2, <1>3, <1>6, DiscoverSearches DEF IsGraph

-----------------------------------------------------------------------------
(* Each step of the collector keeps the graph. *)

LEMMA WholeValidAfter ==
    (TypesOK /\ ObjectsOK /\ Bookkeeping =>
        \A v : PointsToObject(v) /\ Hd_val(mem, v) # ZeroHeader => Valid(v))'
<1>1. TypesOK /\ ObjectsOK /\ Bookkeeping =>
          \A v : PointsToObject(v) /\ Hd_val(mem, v) # ZeroHeader => Valid(v)
  BY WholeValid
<1> QED
  BY <1>1, PTL

LEMMA ObjectsValidAfter ==
    (HeapInv /\ Bookkeeping => Objects = {v \in Pointers : Valid(v)})'
  BY ObjectsValid, PTL

\* An object that survives is an object after the step.
LEMMA SurvivorsLand ==
    ASSUME HeapInv, Bookkeeping, AnyNext, CollectorRuns, HeapInv', Bookkeeping',
           NEW v \in Objects, Survives(v), NEW c, c = Current(v)'
    PROVE  c \in Objects'
<1>1. PICK s \in Spaces : \E k \in Headers(s) :
          /\ v = Ptr(s, k + 1) /\ k \in Nat /\ mem[s][k] # ZeroHeader
  BY ObjectsHave
<1>2. PICK k \in Headers(s) : v = Ptr(s, k + 1) /\ k \in Nat /\ mem[s][k] # ZeroHeader
  BY <1>1
<1>3. pc = "copying" /\ pc' # "copying" => s # copy.from
  BY <1>2 DEF Survives, Ptr, SpaceOf
<1>4. PICK z, h : ObjectFollows(s, k, z, h) /\ MovesTo(s, k, z, h)
  BY <1>2, <1>3, ObjectsMove
<1>5. /\ c = Ptr(z, h + 1) /\ z \in Spaces /\ h \in Nat /\ mem'[z][h] = mem[s][k]
      /\ SpaceOf(c) = z /\ IndexOf(c) = h + 1 /\ IndexOf(c) - 1 = h /\ c \in Pointers
  <2>1. c = Ptr(z, h + 1) /\ z \in Spaces /\ h \in Nat /\ mem'[z][h] = mem[s][k]
    BY <1>2, <1>4 DEF ObjectFollows
  <2>2. z \in Nat /\ h + 1 \in Nat /\ (h + 1) - 1 = h
    BY <2>1, SpaceNumbers
  <2> QED
    BY <2>1, <2>2 DEF Ptr, SpaceOf, IndexOf, Pointers
<1>6. TypesOK /\ TypesOK' /\ ObjectsOK'
  BY DEF HeapInv
<1>7. h \in DOMAIN mem'[z]
  <2>1. CASE pc # "copying" \/ pc' # "copying"
    <3>1. z = s /\ h = k
      BY <1>4, <2>1 DEF MovesTo, ForwardCopy, Copying
    <3>2. mem'[s] = mem[s]
      BY <1>3, <2>1, StayInPlace
    <3> QED
      BY <1>2, <3>1, <3>2 DEF Headers
  <2>2. CASE pc = "copying" /\ pc' = "copying"
    <3>1. SameSizes
      BY <2>2, CopyGoesOn, CopySameSizes
    <3>2. h \in 1 .. Len(mem[z])
      <4>1. CASE z = s /\ h = k
        BY <1>2, <1>5, <1>6, <4>1, WordIndex
      <4>2. CASE ForwardCopy /\ z = copy.to /\ h = next[copy.to] + 1
        <5>1. PICK f, t, loc : f = copy.from /\ t = copy.to /\ loc = Head(calls).p
          OBVIOUS
        <5>2. PICK j : j = IndexOf(Read(loc)) - 1
          OBVIOUS
        <5>3. PICK sz : sz = Size(f, j)
          OBVIOUS
        <5>4. h = next[t] + 1 /\ z = t
          BY <4>2, <5>1
        <5>5. sz \in Nat \ {0} /\ h \in Nat \ {0} /\ h + sz <= Len(mem[t])
          BY <4>2, <5>1, <5>2, <5>3, <5>4, CopyIsMade
        <5>6. Len(mem[t]) \in Nat
          BY <1>5, <1>6, <5>4, WordIndex
        <5> QED
          BY <5>4, <5>5, <5>6
      <4> QED
        BY <1>4, <4>1, <4>2 DEF MovesTo
    <3>3. IsSeq(mem'[z]) /\ Len(mem'[z]) = Len(mem[z])
      BY <1>5, <3>1 DEF SameSizes
    <3>4. DOMAIN mem'[z] = 1 .. Len(mem'[z])
      BY <3>3, IsSeqLen
    <3> QED
      BY <3>2, <3>3, <3>4
  <2> QED
    BY <2>1, <2>2
<1>8. IsHeader(mem'[z][h]) /\ mem'[z][h] # ZeroHeader
  BY <1>2, <1>5 DEF Headers
<1>9. PointsToObject(c)' /\ Hd_val(mem', c) # ZeroHeader
  BY <1>5, <1>7, <1>8 DEF PointsToObject, Headers, Hd_val
<1>10. Valid(c)'
  BY <1>6, <1>9, WholeValidAfter
<1> QED
  BY <1>5, <1>10, ObjectsValidAfter

\* A view, word by word.
LEMMA ViewIs ==
    ASSUME HeapInv, Bookkeeping, WordsPlain, NEW view, view = View
    PROVE  /\ DOMAIN view = Objects
           /\ \A c \in Objects :
                /\ view[c].hd = Hd_val(mem, c) /\ Wosize(mem, c) \in Nat
                /\ IsSeq(view[c].words) /\ Len(view[c].words) = Wosize(mem, c)
                /\ No_scan(Tag_hd(Hd_val(mem, c))) => view[c].words = Fields(mem, c)
                /\ ~ No_scan(Tag_hd(Hd_val(mem, c))) =>
                       \A i \in 1 .. Wosize(mem, c) :
                           /\ \A y : y = Field(mem, c, i - 1) => view[c].words[i] = Current(y)
                           /\ IsPtr(view[c].words[i]) => view[c].words[i] \in Objects
<1>1. DOMAIN view = Objects
  BY DEF View
<1>2. ASSUME NEW c \in Objects
      PROVE  /\ view[c].hd = Hd_val(mem, c) /\ Wosize(mem, c) \in Nat
             /\ IsSeq(view[c].words) /\ Len(view[c].words) = Wosize(mem, c)
             /\ No_scan(Tag_hd(Hd_val(mem, c))) => view[c].words = Fields(mem, c)
             /\ ~ No_scan(Tag_hd(Hd_val(mem, c))) =>
                    \A i \in 1 .. Wosize(mem, c) :
                        /\ \A y : y = Field(mem, c, i - 1) => view[c].words[i] = Current(y)
                        /\ IsPtr(view[c].words[i]) => view[c].words[i] \in Objects
  <2>1. PICK x, hd, sz : x = view[c] /\ hd = Hd_val(mem, c) /\ sz = Wosize(mem, c)
    OBVIOUS
  <2>2. /\ x.hd = hd /\ sz \in Nat /\ IsSeq(x.words) /\ Len(x.words) = sz
        /\ x.words = [i \in 1 .. sz |-> IF No_scan(Tag_hd(hd))
                          THEN Field(mem, c, i - 1) ELSE Current(Field(mem, c, i - 1))]
        /\ ~ No_scan(Tag_hd(hd)) =>
               \A i \in 1 .. sz : IsPtr(x.words[i]) => x.words[i] \in Objects
    BY <2>1, ViewWords
  <2>3. No_scan(Tag_hd(hd)) => x.words = Fields(mem, c)
    BY <2>1, <2>2 DEF Fields
  <2>4. ~ No_scan(Tag_hd(hd)) => \A i \in 1 .. sz : x.words[i] = Current(Field(mem, c, i - 1))
    BY <2>2
  <2> QED
    BY <2>1, <2>2, <2>3, <2>4
<1> QED
  BY <1>1, <1>2

LEMMA ViewIsAfter ==
    (HeapInv /\ Bookkeeping /\ WordsPlain => \A view : view = View =>
        /\ DOMAIN view = Objects
        /\ \A c \in Objects :
             /\ view[c].hd = Hd_val(mem, c) /\ Wosize(mem, c) \in Nat
             /\ IsSeq(view[c].words) /\ Len(view[c].words) = Wosize(mem, c)
             /\ No_scan(Tag_hd(Hd_val(mem, c))) => view[c].words = Fields(mem, c)
             /\ ~ No_scan(Tag_hd(Hd_val(mem, c))) =>
                    \A i \in 1 .. Wosize(mem, c) :
                        /\ \A y : y = Field(mem, c, i - 1) => view[c].words[i] = Current(y)
                        /\ IsPtr(view[c].words[i]) => view[c].words[i] \in Objects)'
<1>1. HeapInv /\ Bookkeeping /\ WordsPlain => \A view : view = View =>
        /\ DOMAIN view = Objects
        /\ \A c \in Objects :
             /\ view[c].hd = Hd_val(mem, c) /\ Wosize(mem, c) \in Nat
             /\ IsSeq(view[c].words) /\ Len(view[c].words) = Wosize(mem, c)
             /\ No_scan(Tag_hd(Hd_val(mem, c))) => view[c].words = Fields(mem, c)
             /\ ~ No_scan(Tag_hd(Hd_val(mem, c))) =>
                    \A i \in 1 .. Wosize(mem, c) :
                        /\ \A y : y = Field(mem, c, i - 1) => view[c].words[i] = Current(y)
                        /\ IsPtr(view[c].words[i]) => view[c].words[i] \in Objects
  BY ViewIs
<1> QED
  BY <1>1, PTL

\* The survivors, and where the step leaves them.
Survivors == {v \in Objects : Survives(v)}

\* A value that becomes another leads to where the object is then.
LEMMA BecomesLeads ==
    ASSUME HeapInv, Bookkeeping, NEW phi, \A a \in Survivors : phi[a] = Current(a)',
           NEW u, IsPtr(u) => u \in Pointers, NEW w, Becomes(u, w)
    PROVE  IF IsPtr(u) THEN u \in Survivors /\ w = phi[u] ELSE w = u
<1>1. CASE IsPtr(u)
  <2>1. u \in Objects /\ Survives(u)
    BY <1>1, ObjectsValid DEF Becomes
  <2> QED
    BY <1>1, <2>1 DEF Survivors, Becomes
<1>2. CASE ~ IsPtr(u)
  BY <1>2 DEF Becomes, Current
<1> QED
  BY <1>1, <1>2

LEMMA StepIsomorphic ==
    ASSUME HeapInv, Bookkeeping, WordsPlain, AnyNext, CollectorRuns,
           HeapInv', Bookkeeping', WordsPlain',
           NEW values, values = RootValues(fi.roots), NEW values2, values2 = RootValues(fi.roots)',
           NEW view, view = View, NEW view2, view2 = View',
           NEW phi, phi = [a \in Survivors |-> Current(a)']
    PROVE  Isomorphism(values, view, values2, view2, Survivors, phi)
<1>1. /\ Survivors \subseteq Objects /\ DOMAIN view = Objects /\ DOMAIN view2 = Objects'
      /\ \A a \in Survivors : a \in Objects /\ Survives(a) /\ phi[a] = Current(a)'
  BY ViewIs, ViewIsAfter DEF Survivors
<1>2. phi \in [Survivors -> DOMAIN view2]
  <2>1. \A a \in Survivors : phi[a] \in DOMAIN view2
    BY <1>1, SurvivorsLand
  <2> QED
    BY <2>1
<1>3. \A a, c \in Survivors : phi[a] = phi[c] => a = c
  BY <1>1, ObjectsInjective
<1>4. fi' = fi /\ fi.roots \in Seq(ArgSlots)
  <2>1. fi' = fi
    BY CopyGoesOn, StayInPlace
  <2> QED
    BY <2>1 DEF HeapInv, TypesOK
<1>5. Leads(values, values2, Survivors, phi)
  <2>1. PICK n : n = Len(fi.roots) /\ n \in Nat /\ DOMAIN fi.roots = 1 .. n
    BY <1>4, LenProperties
  <2>2. /\ DOMAIN values = 1 .. n /\ values = [k \in 1 .. n |-> values[k]]
        /\ \A k \in 1 .. n : values[k] = Current(args[fi.roots[k]])
    BY <2>1 DEF RootValues
  <2>3. /\ DOMAIN values2 = 1 .. n /\ values2 = [k \in 1 .. n |-> values2[k]]
        /\ \A k \in 1 .. n : values2[k] = Current(args[fi.roots[k]])'
    BY <1>4, <2>1 DEF RootValues
  <2>4. IsSeq(values) /\ Len(values) = n /\ IsSeq(values2) /\ Len(values2) = n
    BY <2>1, <2>2, <2>3, SeqOfFunction
  <2>5. ASSUME NEW k \in 1 .. n
        PROVE  IF IsPtr(values[k]) THEN values[k] \in Survivors /\ values2[k] = phi[values[k]]
               ELSE values2[k] = values[k]
    <3>1. PICK u, w, x : u = values[k] /\ w = values2[k] /\ x = args[fi.roots[k]]
      OBVIOUS
    <3>2. u = Current(x) /\ w = Current(args[fi.roots[k]])' /\ k \in DOMAIN fi.roots
      BY <2>1, <2>2, <2>3, <3>1
    <3>3. Becomes(u, w)
      BY <3>1, <3>2, RootsBecome
    <3>4. Known(x) /\ Plain(x)
      <4>1. fi.roots[k] \in ArgSlots
        BY <1>4, <3>2, LenProperties, ElementOfSeq
      <4> QED
        BY <3>1, <3>2, <4>1 DEF HeapInv, RootsOK, Known, WordsPlain
    <3>5. IsPtr(u) => u \in Pointers
      BY <3>2, <3>4, CurrentObject, ObjectsValid
    <3> QED
      BY <1>1, <3>1, <3>3, <3>5, BecomesLeads
  <2> QED
    BY <2>1, <2>2, <2>4, <2>5 DEF Leads
<1>6. ASSUME NEW a \in Survivors PROVE ObjectLeads(view[a], view2[phi[a]], Survivors, phi)
  <2>1. PICK c, x, y : c = phi[a] /\ x = view[a] /\ y = view2[c]
    OBVIOUS
  <2>2. c = Current(a)' /\ a \in Objects /\ Survives(a) /\ c \in Objects'
    BY <1>1, <1>2, <2>1
  <2>3. Preserved(a)
    BY <2>2, ObjectPreserved
  <2>4. /\ Hd_val(mem, Current(a))' = Hd_val(mem', c)
        /\ Fields(mem, Current(a))' = Fields(mem', c)
        /\ \A i, z : z = Field(mem', c, i - 1) =>
               Current(Field(mem, Current(a), i - 1))' = Current(z)'
    BY <2>2, ReadAfter
  <2>5. PICK hd, sz : hd = Hd_val(mem, a) /\ sz = Wosize(mem, a)
    OBVIOUS
  <2>6. Hd_val(mem', c) = hd /\ Wosize(mem', c) = sz
    BY <2>3, <2>4, <2>5 DEF Preserved, Wosize
  <2>7. /\ x.hd = hd /\ sz \in Nat /\ IsSeq(x.words) /\ Len(x.words) = sz
        /\ No_scan(Tag_hd(hd)) => x.words = Fields(mem, a)
        /\ ~ No_scan(Tag_hd(hd)) =>
               \A i \in 1 .. sz :
                   /\ \A z : z = Field(mem, a, i - 1) => x.words[i] = Current(z)
                   /\ IsPtr(x.words[i]) => x.words[i] \in Objects
    BY <2>1, <2>2, <2>5, ViewIs
  <2>8. /\ y.hd = hd /\ IsSeq(y.words) /\ Len(y.words) = sz
        /\ No_scan(Tag_hd(hd)) => y.words = Fields(mem', c)
        /\ ~ No_scan(Tag_hd(hd)) =>
               \A i \in 1 .. sz : \A z : z = Field(mem', c, i - 1) => y.words[i] = Current(z)'
    BY <2>1, <2>2, <2>6, ViewIsAfter
  <2>9. CASE No_scan(Tag_hd(hd))
    <3>1. Fields(mem', c) = Fields(mem, a)
      BY <2>3, <2>4, <2>5, <2>9 DEF Preserved
    <3> QED
      BY <2>1, <2>7, <2>8, <2>9, <3>1 DEF ObjectLeads
  <2>10. CASE ~ No_scan(Tag_hd(hd))
    <3>1. ASSUME NEW i \in 1 .. sz
          PROVE  IF IsPtr(x.words[i])
                 THEN x.words[i] \in Survivors /\ y.words[i] = phi[x.words[i]]
                 ELSE y.words[i] = x.words[i]
      <4>1. PICK f, g : f = Field(mem, a, i - 1) /\ g = Field(mem', c, i - 1)
        OBVIOUS
      <4>2. PICK u, w : u = x.words[i] /\ w = y.words[i]
        OBVIOUS
      <4>3. u = Current(f) /\ w = Current(g)' /\ (IsPtr(u) => u \in Objects)
        BY <2>7, <2>8, <2>10, <4>1, <4>2
      <4>4. u = Current(Field(mem, a, i - 1)) /\ w = Current(Field(mem, Current(a), i - 1))'
        BY <2>4, <4>1, <4>3
      <4>5. Becomes(u, w)
        BY <2>3, <2>5, <2>10, <4>4 DEF Preserved
      <4>6. IsPtr(u) => u \in Pointers
        BY <4>3, ObjectsValid
      <4> QED
        BY <1>1, <4>2, <4>5, <4>6, BecomesLeads
    <3>2. DOMAIN x.words = 1 .. sz
      BY <2>7, IsSeqLen
    <3>3. Leads(x.words, y.words, Survivors, phi)
      BY <2>7, <2>8, <3>1, <3>2 DEF Leads
    <3> QED
      BY <2>1, <2>7, <2>8, <2>10, <3>3 DEF ObjectLeads
  <2> QED
    BY <2>9, <2>10
<1> QED
  BY <1>1, <1>2, <1>3, <1>5, <1>6 DEF Isomorphism

LEMMA RootsPlain ==
    ASSUME HeapInv, Bookkeeping, WordsPlain, NEW values, values = RootValues(fi.roots)
    PROVE  IsSeq(values) /\ \A i \in DOMAIN values : Plain(values[i])
<1>1. PICK n : n = Len(fi.roots) /\ n \in Nat /\ DOMAIN fi.roots = 1 .. n
  BY LenProperties DEF HeapInv, TypesOK
<1>2. /\ DOMAIN values = 1 .. n /\ values = [k \in 1 .. n |-> values[k]]
      /\ \A k \in 1 .. n : values[k] = Current(args[fi.roots[k]])
  BY <1>1 DEF RootValues
<1>3. IsSeq(values)
  BY <1>1, <1>2, SeqOfFunction
<1>4. ASSUME NEW k \in 1 .. n, IsPtr(values[k]) PROVE values[k] \in Pointers
  <2>1. PICK x : x = args[fi.roots[k]] /\ values[k] = Current(x)
    BY <1>2
  <2>2. Known(x) /\ Plain(x)
    <3>1. fi.roots[k] \in ArgSlots
      BY <1>1, ElementOfSeq DEF HeapInv, TypesOK
    <3> QED
      BY <1>1, <2>1, <3>1 DEF HeapInv, RootsOK, Known, WordsPlain
  <2> QED
    BY <1>4, <2>1, <2>2, CurrentObject, ObjectsValid
<1> QED
  BY <1>2, <1>3, <1>4 DEF Plain

LEMMA LiveGraphIs ==
    ASSUME HeapInv, Bookkeeping, WordsPlain
    PROVE  \E b : IsGraph(LiveGraph, RootValues(fi.roots), View, Discover, b)
<1>1. PICK values : values = RootValues(fi.roots)
  OBVIOUS
<1>2. \E b : IsGraph(GraphFrom(values), values, View, Discover, b)
  BY <1>1, RootsPlain, GraphIs
<1>3. LiveGraph = GraphFrom(values)
  BY <1>1 DEF LiveGraph
<1> QED
  BY <1>1, <1>2, <1>3

LEMMA LiveGraphIsAfter ==
    (HeapInv /\ Bookkeeping /\ WordsPlain =>
        \E b : IsGraph(LiveGraph, RootValues(fi.roots), View, Discover, b))'
  BY LiveGraphIs, PTL

\* The graph of the live roots is the same after every step of the collector.
LEMMA GraphKept ==
    ASSUME HeapInv, Bookkeeping, WordsPlain, AnyNext, CollectorRuns,
           HeapInv', Bookkeeping', WordsPlain'
    PROVE  LiveGraph' = LiveGraph
<1>1. PICK values, view, graph, D : /\ values = RootValues(fi.roots) /\ view = View
                                    /\ graph = LiveGraph /\ D = Discover
  OBVIOUS
<1>2. PICK values2, view2, graph2, D2 : /\ values2 = RootValues(fi.roots)' /\ view2 = View'
                                        /\ graph2 = LiveGraph' /\ D2 = Discover'
  OBVIOUS
<1>3. PICK b : IsGraph(graph, values, view, D, b)
  BY <1>1, LiveGraphIs
<1>4. PICK b2 : IsGraph(graph2, values2, view2, D2, b2)
  BY <1>2, LiveGraphIsAfter
<1>5. PICK phi : phi = [a \in Survivors |-> Current(a)']
  OBVIOUS
<1>6. Isomorphism(values, view, values2, view2, Survivors, phi)
  BY <1>1, <1>2, <1>5, StepIsomorphic
<1>7. graph2 = graph
  BY <1>3, <1>4, <1>6, GraphsEqual
<1> QED
  BY <1>1, <1>2, <1>7

-----------------------------------------------------------------------------
(* The interface of gc.h. *)

Exporting ==
    \/ pc \in {"collect_all", "export", "compact"}
    \/ pc = "copying" /\ copy.caller # "garbage_collect"

\* export collects for a fun_info of its own, which asks for no room.
ExportAsksNothing == Exporting => fi.num_allocs = 0

LEMMA ExportAsksKept ==
    ASSUME HeapInv, Bookkeeping, ExportAsksNothing, [AnyNext]_vars PROVE ExportAsksNothing'
<1>1. CASE UNCHANGED vars
  BY <1>1 DEF vars, copyVars, heapVars, ExportAsksNothing, Exporting
<1>2. CASE AnyEnter \/ AnyBody \/ AnyRestart \/ AnyFree \/ AnyFinish
  BY <1>2 DEF AnyEnter, Check, AnyBody, AnyRestart, AnyFree, AnyFinish, ExportAsksNothing, Exporting
<1>3. CASE AnyExport
  BY <1>3 DEF AnyExport, ExportUnboxed, ExportStart, fake_fi, ExportAsksNothing, Exporting
<1>4. CASE DoGeneration
  <2>1. UNCHANGED <<pc, fi, copy>>
    BY <1>4 DEF DoGeneration, ForwardOther, ForwardAgain, ForwardCopy, ScanObject
  <2> QED
    BY <2>1 DEF ExportAsksNothing, Exporting
<1>5. CASE GarbageCollect
  <2>1. CASE CollectGeneration
    BY <2>1 DEF CollectGeneration, StartGeneration, ExportAsksNothing, Exporting
  <2>2. CASE GenerationCollected
    BY <2>2 DEF GenerationCollected, Resume, ExportAsksNothing, Exporting
  <2>3. CASE CreateHeap
    BY <2>3 DEF CreateHeap, Resume, ExportAsksNothing, Exporting
  <2>4. CASE StartCollection \/ CreateNextSpace \/ RanOutOfGenerations
    BY <2>4 DEF StartCollection, CreateNextSpace, RanOutOfGenerations, Stop,
                ExportAsksNothing, Exporting
  <2> QED
    BY <1>5, <2>1, <2>2, <2>3, <2>4 DEF GarbageCollect
<1>6. CASE Export
  <2>1. fi' = fi /\ Exporting
    BY <1>6
    DEF Export, CollectAllGeneration, GenerationCollectedAll, CollectAllReturn, ExportCopy,
        ExportCopied, ExportCompact, ExportReturn, CopyOut, GenerationCopied, Exporting
  <2> QED
    BY <2>1 DEF ExportAsksNothing
<1>7. CASE MallocFails
  BY <1>7 DEF MallocFails, Stop, ExportAsksNothing, Exporting
<1> QED
  BY <1>1, <1>2, <1>3, <1>4, <1>5, <1>6, <1>7 DEF AnyNext

MutatorRuns == pc \in {"entry", "mutator", "exported", "finished"}

\* When the collector returns there is the room that was asked for.
LEMMA RoomOnReturn ==
    ASSUME HeapInv, Bookkeeping, ExportAsksNothing, AnyNext, CollectorRuns,
           TypesOK', Bookkeeping', MutatorRuns'
    PROVE  (limit - alloc >= fi.num_allocs)'
<1>1. CASE GarbageCollect
  <2>1. /\ alloc' = 0 /\ limit' = Len(mem'[0]) /\ fi' = fi
        /\ ~ (Len(mem'[0]) < fi.num_allocs)
    BY <1>1
    DEF MutatorRuns, GarbageCollect, CreateHeap, StartCollection, CreateNextSpace,
        CollectGeneration, StartGeneration, GenerationCollected, RanOutOfGenerations, Stop, Resume
  <2>2. limit' \in Nat /\ fi.num_allocs \in Nat
    BY DEF Bookkeeping, HeapInv, TypesOK
  <2> QED
    BY <2>1, <2>2
<1>2. CASE Export
  <2>1. fi' = fi /\ Exporting
    BY <1>2
    DEF Export, CollectAllGeneration, GenerationCollectedAll, CollectAllReturn, ExportCopy,
        ExportCopied, ExportCompact, ExportReturn, CopyOut, GenerationCopied, Exporting
  <2>2. fi'.num_allocs = 0
    BY <2>1 DEF ExportAsksNothing
  <2>3. /\ alloc' \in Nat /\ limit' \in Nat /\ budget' \in Nat /\ alloc' + budget' <= limit'
    BY DEF Bookkeeping
  <2>4. \A a, n, l \in Nat : a + n <= l => l - a >= 0
    OBVIOUS
  <2>5. limit' - alloc' >= 0
    BY <2>3, <2>4
  <2> QED
    BY <2>2, <2>5
<1>3. CASE DoGeneration \/ MallocFails
  <2>1. pc' = pc \/ pc' = "no_memory"
    BY <1>3 DEF DoGeneration, ForwardOther, ForwardAgain, ForwardCopy, ScanObject,
                MallocFails, Stop
  <2> QED
    BY <2>1 DEF CollectorRuns, MutatorRuns
<1>4. CASE AnyEnter \/ AnyBody \/ AnyExport \/ AnyRestart \/ AnyFree \/ AnyFinish
  BY <1>4 DEF CollectorRuns, AnyEnter, Check, AnyBody, AnyExport, ExportUnboxed, ExportStart,
              AnyRestart, AnyFree, AnyFinish
<1> QED
  BY <1>1, <1>2, <1>3, <1>4 DEF AnyNext

LEMMA WhoRuns ==
    ASSUME AnyNext
    PROVE  \/ MutatorRuns /\ (AnyEnter \/ AnyBody \/ AnyExport \/ AnyRestart \/ AnyFree \/ AnyFinish)
           \/ CollectorRuns /\ ~ MutatorRuns
<1>1. ASSUME AnyEnter \/ AnyBody \/ AnyExport \/ AnyRestart \/ AnyFree \/ AnyFinish PROVE MutatorRuns
  BY <1>1 DEF MutatorRuns, AnyEnter, Check, AnyBody, AnyExport, ExportUnboxed, ExportStart,
              AnyRestart, AnyFree, AnyFinish
<1>2. ASSUME DoGeneration PROVE pc = "copying"
  BY <1>2 DEF DoGeneration, ForwardOther, ForwardAgain, ForwardCopy, ScanObject, Copying
<1>3. ASSUME GarbageCollect PROVE pc \in {"garbage_collect", "collect", "copying"}
  BY <1>3 DEF GarbageCollect, CreateHeap, StartCollection, CreateNextSpace, CollectGeneration,
              GenerationCollected, GenerationCopied, RanOutOfGenerations
<1>4. ASSUME Export PROVE pc \in {"collect_all", "export", "compact", "copying"}
  BY <1>4 DEF Export, CollectAllGeneration, GenerationCollectedAll, CollectAllReturn, ExportCopy,
              ExportCopied, ExportCompact, ExportReturn, GenerationCopied
<1>5. ASSUME MallocFails PROVE pc \in {"garbage_collect", "collect", "export", "compact"}
  BY <1>5 DEF MallocFails
<1> QED
  BY <1>1, <1>2, <1>3, <1>4, <1>5 DEF AnyNext, MutatorRuns, CollectorRuns

LEMMA GraphUnchanged == UNCHANGED vars => UNCHANGED GCI!vars
<1> SUFFICES ASSUME UNCHANGED vars PROVE UNCHANGED GCI!vars
  OBVIOUS
<1>1. UNCHANGED <<mem, next, args, alloc, limit, fi, pc, copy>>
  BY DEF vars
<1>2. Discover' = Discover
  BY <1>1 DEF Discover, Current, Valid, Children, PointersIn, Hd_val, Field, Wosize, InUse,
              Contains, Spaces, FakeSp, ValueSp, Gens
<1>3. LiveGraph' = LiveGraph
  BY <1>1, <1>2 DEF LiveGraph, GraphFrom, ObjectsFrom, RootValues, Current, PointersIn, Name,
                    Hd_val, Field, Wosize, Contains
<1> QED
  BY <1>1, <1>3 DEF GCI!vars

LEMMA InterfaceStep ==
    ASSUME HeapInv, Bookkeeping, WordsPlain, ExportAsksNothing,
           HeapInv', Bookkeeping', WordsPlain', [AnyNext]_vars
    PROVE  [GCI!Next]_(GCI!vars)
<1>1. CASE UNCHANGED vars
  BY <1>1, GraphUnchanged
<1>2. CASE AnyNext
  <2>1. TypesOK /\ TypesOK' /\ pc' # "assert_failed"
    BY DEF HeapInv, Bookkeeping, GenerationsPc
  <2>2. CASE MutatorRuns
    <3>1. MutatorRuns' \/ CollectorRuns'
      <4>1. AnyEnter \/ AnyBody \/ AnyExport \/ AnyRestart \/ AnyFree \/ AnyFinish
        BY <1>2, <2>2, WhoRuns
      <4> QED
        BY <2>1, <4>1 DEF MutatorRuns, CollectorRuns, AnyEnter, Check, AnyBody, AnyExport,
                          ExportUnboxed, ExportStart, AnyRestart, AnyFree, AnyFinish
    <3>2. GCI!Mutate
      BY <2>2, <3>1 DEF GCI!Mutate, MutatorRuns, CollectorRuns, Dead
    <3> QED
      BY <3>2 DEF GCI!Next
  <2>3. CASE CollectorRuns
    <3>1. LiveGraph' = LiveGraph
      BY <1>2, <2>3, GraphKept
    <3>2. fi' = fi
      BY <1>2, <2>3, CopyGoesOn, StayInPlace
    <3>3. CASE MutatorRuns'
      <4>1. limit' - alloc' >= fi'.num_allocs
        BY <1>2, <2>1, <2>3, <3>3, RoomOnReturn
      <4>2. GCI!Return
        BY <2>3, <3>1, <3>2, <3>3, <4>1 DEF GCI!Return, MutatorRuns, CollectorRuns, Dead
      <4> QED
        BY <4>2 DEF GCI!Next
    <3>4. CASE CollectorRuns'
      <4>1. GCI!Work
        BY <2>3, <3>1, <3>2, <3>4 DEF GCI!Work, CollectorRuns, Dead
      <4> QED
        BY <4>1 DEF GCI!Next
    <3>5. CASE pc' \in Dead
      <4>1. GCI!Abort
        BY <2>3, <3>5 DEF GCI!Abort, CollectorRuns, Dead
      <4> QED
        BY <4>1 DEF GCI!Next
    <3> QED
      BY <2>1, <3>3, <3>4, <3>5 DEF TypesOK, MutatorRuns, CollectorRuns
  <2>4. CASE pc \in Dead
    BY <1>2, <2>4, WhoRuns DEF Dead, MutatorRuns, CollectorRuns
  <2> QED
    BY <2>1, <2>2, <2>3, <2>4 DEF TypesOK, MutatorRuns, CollectorRuns
<1> QED
  BY <1>1, <1>2

\* gc.h 110-119, for every program that keeps to gc.h, every depth of forward, and every
\* number, size and growth of the generations: when garbage_collect or export returns,
\* the graph of the live roots is isomorphic to what it was, and there is the room that
\* was asked for; so it is at every step in between.
THEOREM CollectorImplementsInterface == AnySpec => ImplementsInterface
<1>1. AnyInit => GCI!Init /\ WordsPlain /\ ExportAsksNothing
  BY InitPlain DEF AnyInit, GCI!Init, ExportAsksNothing, Exporting
<1>2. IInv => HeapInv /\ Bookkeeping
  BY BookkeepingHolds DEF IInv
<1>3. IInv' => HeapInv' /\ Bookkeeping'
  BY <1>2, PTL
<1>4. IInv /\ WordsPlain /\ ExportAsksNothing /\ [AnyNext]_vars
          => WordsPlain' /\ ExportAsksNothing'
  BY <1>2, NextPlain, ExportAsksKept
<1>5. IInv /\ WordsPlain /\ ExportAsksNothing /\ [AnyNext]_vars /\ IInv' /\ WordsPlain'
          => [GCI!Next]_(GCI!vars)
  BY <1>2, <1>3, InterfaceStep
<1> QED
  BY <1>1, <1>4, <1>5, HeapWellFormed, PTL DEF AnySpec, ImplementsInterface, GCI!Spec

-----------------------------------------------------------------------------
(* do_generation copies only what is live. *)

\* The objects it has added to the to-space.
Copied == {Ptr(copy.to, j + 1) : j \in {k \in Headers(copy.to) : k > copy.p}}

\* No pointer leads out of C.
PointsWithin(C) ==
    \A v \in C : ~ No_scan(Tag_hd(Hd_val(mem, v))) =>
        \A i \in 1 .. Wosize(mem, v) : \A u :
            u = Current(Field(mem, v, i - 1)) /\ IsPtr(u) => u \in C

RootsIn(C) ==
    \A k \in DOMAIN fi.roots : \A u : u = Current(args[fi.roots[k]]) /\ IsPtr(u) => u \in C

Closed(C) == RootsIn(C) /\ PointsWithin(C)

\* The objects S are live: every closed set has them.
InEveryClosed(S) == \A C \in SUBSET Objects : Closed(C) => S \subseteq C

\* The inductive form of CopiesOnlyLive.
CopiedLive == pc = "copying" => InEveryClosed(Copied)

\* Nothing has been copied when do_generation starts.
LEMMA NothingCopied ==
    HeapInv /\ Bookkeeping /\ pc = "copying" /\ copy.p = next[copy.to] => Copied = {}
<1> SUFFICES ASSUME HeapInv, Bookkeeping, pc = "copying", copy.p = next[copy.to],
                    NEW j \in Headers(copy.to), j > copy.p
             PROVE  FALSE
  BY DEF Copied
<1>1. CopyContext /\ copy.to \in Spaces
  BY Context DEF CopyContext, CopySpaces
<1>2. /\ Size(copy.to, j) \in Nat \ {0} /\ j + Size(copy.to, j) <= next[copy.to]
      /\ j \in Nat /\ next[copy.to] \in Nat
  BY <1>1, ToSpaceIndex, WordIndex DEF CopyContext
<1> QED
  BY <1>2

LEMMA NothingCopiedAfter ==
    (HeapInv /\ Bookkeeping /\ pc = "copying" /\ copy.p = next[copy.to] => Copied = {})'
  BY NothingCopied, PTL

LEMMA StartsWithNothing ==
    ASSUME AnyNext, pc # "copying", pc' = "copying", HeapInv', Bookkeeping'
    PROVE  Copied' = {}
<1>1. CollectGeneration \/ CollectAllGeneration \/ ExportCopy \/ ExportCompact
  BY DEF AnyNext, AnyEnter, Check, AnyBody, AnyExport, ExportUnboxed, ExportStart, AnyRestart,
      AnyFree, AnyFinish, DoGeneration, ForwardOther, ForwardAgain, ForwardCopy, ScanObject, Copying,
      GarbageCollect, CreateHeap, StartCollection, CreateNextSpace, GenerationCollected,
      GenerationCopied, Resume, RanOutOfGenerations, Export, GenerationCollectedAll,
      CollectAllReturn, ExportCopied, ExportReturn, MallocFails, Stop
<1>2. copy'.p = next'[copy'.to]
  BY <1>1 DEF CollectGeneration, CollectAllGeneration, ExportCopy, ExportCompact, CopyOut,
              StartGeneration
<1> QED
  BY <1>2, NothingCopiedAfter

\* What a step adds to the objects that have been copied.
LEMMA CopiedBy ==
    ASSUME HeapInv, Bookkeeping, AnyNext, pc = "copying", pc' = "copying",
           NEW t, t = copy.to, NEW x \in Copied'
    PROVE  \/ \E j \in Headers(t) : j > copy.p /\ x = Ptr(t, j + 1)
           \/ ForwardCopy /\ x = Ptr(t, next[t] + 2)
<1>1. CopyContext /\ DoGeneration /\ copy' = copy /\ MemoryOK(mem) /\ SameShape(mem, mem)
      /\ t \in Spaces
  <2>1. CopyContext /\ DoGeneration /\ copy' = copy
    BY Context, CopyGoesOn
  <2> QED
    BY <2>1 DEF CopyContext, CopySpaces, TypesOK, MemoryOK, SameShape
<1>2. PICK j \in Headers(t)' : j > copy.p /\ x = Ptr(t, j + 1)
  BY <1>1 DEF Copied
<1>3. CASE ForwardOther \/ ScanObject
  <2>1. mem' = mem
    BY <1>3 DEF ForwardOther, ScanObject, heapVars
  <2> QED
    BY <1>2, <2>1 DEF Headers
<1>4. CASE ForwardAgain
  <2>1. PICK loc, u : /\ loc = Head(calls).p /\ mem' = StoreMem(mem, loc, u) /\ calls # <<>>
                      /\ u = Field(mem, Read(loc), 0)
    BY <1>4 DEF ForwardAgain, Copying
  <2>2. CallStored(mem, loc, u, StoreMem(mem, loc, u), StoreArgs(loc, u))
    BY <1>1, <2>1, StoreAtCall
  <2>3. ~ IsHeader(u)
    <3>1. /\ Is_from(Read(loc)) /\ Hd_val(mem, Read(loc)) = ZeroHeader
      BY <1>4, <2>1 DEF ForwardAgain
    <3>2. PICK i : /\ i = IndexOf(Read(loc)) - 1 /\ i \in Headers(copy.from)
                   /\ IndexOf(Read(loc)) \in Nat
      BY <1>1, <2>1, <3>1, HeadCall, CallFollows DEF CopyContext
    <3>3. IsForwarded(i) /\ u = mem[copy.from][i + 1]
      <4>1. IndexOf(Read(loc)) + 0 = i + 1
        BY <3>2
      <4> QED
        BY <2>1, <3>1, <3>2, <4>1 DEF Is_from, Hd_val, Field, IsForwarded
    <3>4. IsPtr(u)
      BY <1>1, <3>2, <3>3 DEF CopyContext, CopyForwards
    <3> QED
      BY <3>4 DEF IsPtr, IsHeader
  <2>4. j \in DOMAIN mem[t] /\ IsHeader(mem'[t][j])
    BY <1>1, <1>2, <2>1, <2>2 DEF CallStored, SameShape, Headers
  <2>5. mem'[t][j] = mem[t][j]
    BY <1>1, <2>1, <2>2, <2>3, <2>4 DEF CallStored
  <2> QED
    BY <1>2, <2>4, <2>5 DEF Headers
<1>5. CASE ForwardCopy
  <2>1. PICK f, loc, k, h : /\ f = copy.from /\ loc = Head(calls).p
                            /\ k = IndexOf(Read(loc)) - 1 /\ h = next[t] + 1
    OBVIOUS
  <2>2. PICK sz : sz = Size(f, k)
    OBVIOUS
  <2>3. /\ k \in Headers(f) /\ ~ IsForwarded(k) /\ sz \in Nat \ {0} /\ h \in Nat \ {0}
        /\ h + sz <= Len(mem[t]) /\ sz = Wosize_hd(mem[f][k]) /\ CopyMade(f, t, loc, k, sz, h)
    BY <1>5, <2>1, <2>2, CopyIsMade
  <2>4. UNCHANGED <<pc, copy>>
    BY <1>5 DEF ForwardCopy
  <2>5. ObjectsAfterCopy(f, t, k, sz, h)
    BY <1>1, <2>1, <2>2, <2>3, <2>4, CopyMadeObjects
  <2>6. j \in Headers(t) \/ j = h
    BY <1>2, <2>5 DEF ObjectsAfterCopy
  <2>7. h + 1 = next[t] + 2
    BY <1>1, <2>1, ToSpaceIndex
  <2> QED
    BY <1>2, <1>5, <2>6, <2>7
<1> QED
  BY <1>1, <1>3, <1>4, <1>5 DEF DoGeneration

\* forward copies what is in every closed set with the objects copied before.
LEMMA CalledForLive ==
    ASSUME HeapInv, Bookkeeping, ForwardCopy, NEW C, Closed(C), Copied \subseteq C,
           NEW v, v = Read(Head(calls).p)
    PROVE  v \in C
<1>1. CopyContext /\ CallOK(Head(calls))
  <2>1. CopyContext /\ calls # <<>>
    BY Context DEF ForwardCopy, Copying
  <2> QED
    BY <2>1, HeadCall DEF CopyContext
<1>2. IsPtr(v) /\ Current(v) = v
  BY DEF ForwardCopy, Is_from, Current
<1>3. CASE \E k \in DOMAIN fi.roots : Head(calls).p = ArgLoc(fi.roots[k])
  <2>1. PICK k \in DOMAIN fi.roots : Head(calls).p = ArgLoc(fi.roots[k])
    BY <1>3
  <2>2. v = args[fi.roots[k]]
    BY <2>1 DEF Read, ArgLoc
  <2> QED
    BY <1>2, <2>2 DEF Closed, RootsIn, PointsWithin
<1>4. ASSUME NEW t, t = copy.to, NEW j \in Headers(t), j > copy.p, HasPointers(t, j),
             NEW i \in j + 1 .. j + Size(t, j), Head(calls).p = MemLoc(t, i)
      PROVE  v \in C
  <2>1. v = mem[t][i]
    BY <1>4 DEF Read, MemLoc
  <2>2. PICK sz : sz = Size(t, j) /\ sz \in Nat /\ sz = Wosize_hd(mem[t][j]) /\ j \in Nat
    BY <1>1, <1>4, ToSpaceIndex, WordIndex DEF CopyContext, CopySpaces
  <2>3. PICK n : n = i - j /\ n \in 1 .. sz /\ j + n = i /\ j + 1 + (n - 1) = i
                 /\ (j + 1) - 1 = j
    BY <1>4, <2>2
  <2>4. PICK o : o = Ptr(t, j + 1)
    OBVIOUS
  <2>5. SpaceOf(o) = t /\ IndexOf(o) = j + 1
    BY <2>4 DEF Ptr, SpaceOf, IndexOf
  <2>6. o \in C
    BY <1>4, <2>4 DEF Copied
  <2>7. Hd_val(mem, o) = mem[t][j] /\ Wosize(mem, o) = sz /\ Field(mem, o, n - 1) = v
    BY <2>1, <2>2, <2>3, <2>5 DEF Hd_val, Wosize, Field
  <2>8. ~ No_scan(Tag_hd(Hd_val(mem, o)))
    BY <1>4, <2>7 DEF HasPointers
  <2> QED
    BY <1>2, <2>3, <2>6, <2>7, <2>8 DEF Closed, RootsIn, PointsWithin
<1> QED
  BY <1>1, <1>3, <1>4 DEF CallOK

LEMMA PointersHere ==
    ASSUME HeapInv', Bookkeeping', NEW c \in Objects' PROVE IsPtr(c)
  BY ObjectsValidAfter, PointersAre

\* What will be in a closed set is in one.
LEMMA ClosedBefore ==
    ASSUME HeapInv, Bookkeeping, WordsPlain, AnyNext, CollectorRuns,
           HeapInv', Bookkeeping', NEW C2, Closed(C2)',
           NEW C, C = {v \in Objects : Survives(v) /\ Current(v)' \in C2}
    PROVE  Closed(C)
<1>1. fi' = fi
  BY CopyGoesOn, StayInPlace
<1>2. ASSUME NEW u, IsPtr(u), u \in Objects, NEW w, Becomes(u, w), IsPtr(w) => w \in C2
      PROVE  u \in C
  <2>1. w = Current(u)' /\ w \in Objects' /\ Survives(u)
    BY <1>2, SurvivorsLand DEF Becomes
  <2> QED
    BY <1>2, <2>1, PointersHere
<1>3. ASSUME NEW k \in DOMAIN fi.roots, NEW u, u = Current(args[fi.roots[k]]), IsPtr(u)
      PROVE  u \in C
  <2>1. PICK w : w = Current(args[fi.roots[k]])' /\ Becomes(u, w)
    BY <1>3, RootsBecome
  <2>2. IsPtr(w) => w \in C2
    BY <1>1, <2>1 DEF Closed, RootsIn, PointsWithin
  <2>3. u \in Objects
    <3>1. PICK x : x = args[fi.roots[k]] /\ fi.roots[k] \in ArgSlots
      BY DEF HeapInv, TypesOK
    <3>2. Known(x) /\ Plain(x)
      BY <3>1 DEF HeapInv, RootsOK, Known, WordsPlain
    <3> QED
      BY <1>3, <3>1, <3>2, CurrentObject
  <2> QED
    BY <1>2, <1>3, <2>1, <2>2, <2>3
<1>4. ASSUME NEW v \in C, ~ No_scan(Tag_hd(Hd_val(mem, v))), NEW i \in 1 .. Wosize(mem, v),
             NEW u, u = Current(Field(mem, v, i - 1)), IsPtr(u)
      PROVE  u \in C
  <2>1. PICK c : c = Current(v)' /\ c \in C2 /\ v \in Objects /\ Survives(v)
    BY <1>4
  <2>2. Preserved(v)
    BY <2>1, ObjectPreserved
  <2>3. PICK z : z = Field(mem', c, i - 1)
    OBVIOUS
  <2>4. /\ Hd_val(mem', c) = Hd_val(mem, v) /\ Wosize(mem', c) = Wosize(mem, v)
        /\ Current(Field(mem, Current(v), i - 1))' = Current(z)'
    BY <2>1, <2>2, <2>3, ReadAfter DEF Preserved, Wosize
  <2>5. PICK w : w = Current(z)' /\ Becomes(u, w)
    BY <1>4, <2>2, <2>4 DEF Preserved
  <2>6. IsPtr(w) => w \in C2
    <3>1. w = Current(Field(mem, c, i - 1))'
      BY <2>3, <2>5 DEF Current
    <3> QED
      BY <1>4, <2>1, <2>4, <3>1 DEF Closed, RootsIn, PointsWithin
  <2>7. u \in Objects
    <3>1. PICK view : view = View
      OBVIOUS
    <3>2. view[v].words[i] = u
      BY <1>4, <2>1, <3>1, ViewIs
    <3> QED
      BY <1>4, <2>1, <3>1, <3>2, ViewIs
  <2> QED
    BY <1>2, <1>4, <2>5, <2>6, <2>7
<1> QED
  BY <1>3, <1>4 DEF Closed, RootsIn, PointsWithin

LEMMA CopiedLiveKept ==
    ASSUME HeapInv, Bookkeeping, WordsPlain, CopiedLive, [AnyNext]_vars, HeapInv', Bookkeeping'
    PROVE  CopiedLive'
<1>1. CASE UNCHANGED vars
  <2>1. /\ UNCHANGED <<mem, next, args, alloc, fi, pc, copy>>
    BY <1>1 DEF vars, heapVars, copyVars
  <2>2. Objects' = Objects /\ Copied' = Copied
    BY <2>1 DEF Objects, ObjectsBetween, InUse, Copied, Headers
  <2>3. \A C : Closed(C)' <=> Closed(C)
    BY <2>1 DEF Closed, RootsIn, PointsWithin, Current
  <2> QED
    BY <2>1, <2>2, <2>3 DEF CopiedLive, InEveryClosed
<1>2. CASE AnyNext /\ pc # "copying" /\ pc' = "copying"
  BY <1>2, StartsWithNothing DEF CopiedLive, InEveryClosed
<1>3. CASE AnyNext /\ pc = "copying" /\ pc' = "copying"
  <2> SUFFICES ASSUME NEW C2, C2 \subseteq Objects', Closed(C2)', NEW x \in Copied'
               PROVE  x \in C2
    BY DEF CopiedLive, InEveryClosed
  <2>1. PICK C : C = {v \in Objects : Survives(v) /\ Current(v)' \in C2}
    OBVIOUS
  <2>2. Closed(C)
    BY <1>3, <2>1, ClosedBefore DEF CollectorRuns
  <2>3. Copied \subseteq C
    BY <1>3, <2>1, <2>2 DEF CopiedLive, InEveryClosed
  <2>4. CopyContext /\ copy' = copy /\ copy.from # copy.to /\ next[copy.to] \in Nat
    BY <1>3, Context, CopyGoesOn, ToSpaceIndex
  <2>5. PICK t : t = copy.to
    OBVIOUS
  <2>6. CASE \E j \in Headers(t) : j > copy.p /\ x = Ptr(t, j + 1)
    <3>1. x \in Copied /\ SpaceOf(x) # copy.from
      BY <2>4, <2>5, <2>6 DEF Copied, SpaceOf, Ptr
    <3>2. Current(x)' = x
      BY <1>3, <2>4, <3>1, CurrentAfter
    <3> QED
      BY <2>1, <2>3, <3>1, <3>2
  <2>7. CASE ForwardCopy /\ x = Ptr(t, next[t] + 2)
    <3>1. PICK v, k, f, h : /\ v = Read(Head(calls).p) /\ k = IndexOf(v) - 1
                            /\ f = copy.from /\ h = next[t] + 1
      OBVIOUS
    <3>2. v \in C
      BY <2>2, <2>3, <2>7, <3>1, CalledForLive
    <3>3. k \in Headers(f) /\ ObjectFollows(f, k, t, h)
      BY <2>5, <2>7, <3>1, ObjectMoved
    <3>4. v = Ptr(f, k + 1)
      <4>1. v \in Pointers /\ Valid(v)
        BY <2>1, <3>2, ObjectsValid
      <4>2. SpaceOf(v) = f
        BY <2>7, <3>1 DEF ForwardCopy, Is_from
      <4>3. IndexOf(v) \in Nat /\ k + 1 = IndexOf(v)
        BY <3>1, <4>1 DEF Pointers, IndexOf
      <4> QED
        BY <4>1, <4>2, <4>3 DEF Pointers, Ptr, SpaceOf, IndexOf
    <3>5. Current(v)' = Ptr(t, h + 1) /\ h + 1 = next[t] + 2
      BY <2>4, <2>5, <3>1, <3>3, <3>4 DEF ObjectFollows
    <3> QED
      BY <2>1, <2>7, <3>2, <3>5
  <2> QED
    BY <1>3, <2>5, <2>6, <2>7, CopiedBy
<1>4. CASE pc' # "copying"
  BY <1>4 DEF CopiedLive, InEveryClosed
<1> QED
  BY <1>1, <1>2, <1>3, <1>4

\* The successors of an object are its fields, with NoObject for what is no pointer.
LEMMA Successors ==
    ASSUME HeapInv, Bookkeeping, WordsPlain, NEW succ, succ = SuccOf(View), NEW v \in Objects
    PROVE  Items(succ[v]) \cap Objects =
               IF No_scan(Tag_hd(Hd_val(mem, v))) THEN {}
               ELSE {u \in Objects : \E i \in 1 .. Wosize(mem, v) :
                         u = Current(Field(mem, v, i - 1)) /\ IsPtr(u)}
<1>1. PICK view, words : view = View /\ words = view[v].words
  OBVIOUS
<1>2. /\ IsSeq(words) /\ Len(words) = Wosize(mem, v) /\ view[v].hd = Hd_val(mem, v)
      /\ DOMAIN view = Objects /\ DOMAIN words = 1 .. Wosize(mem, v)
  BY <1>1, ViewIs, IsSeqLen
<1>3. CASE No_scan(Tag_hd(Hd_val(mem, v)))
  <2>1. succ[v] = <<>>
    BY <1>1, <1>2, <1>3 DEF SuccOf
  <2> QED
    BY <1>3, <2>1, NoItems
<1>4. CASE ~ No_scan(Tag_hd(Hd_val(mem, v)))
  <2>1. PICK p : p = PointersIn(words) /\ succ[v] = p
    BY <1>1, <1>2, <1>4 DEF SuccOf
  <2>2. \A i \in 1 .. Wosize(mem, v) :
            /\ words[i] = Current(Field(mem, v, i - 1))
            /\ IsPtr(words[i]) => words[i] \in Objects
    <3> TAKE i \in 1 .. Wosize(mem, v)
    <3>1. PICK y : y = Field(mem, v, i - 1)
      OBVIOUS
    <3> QED
      BY <1>1, <1>4, <3>1, ViewIs
  <2>3. /\ DOMAIN p = DOMAIN words
        /\ \A i \in DOMAIN words : p[i] = IF IsPtr(words[i]) THEN words[i] ELSE NoObject
    <3>1. \A i \in DOMAIN words : IsPtr(words[i]) => words[i] \in Pointers
      BY <1>2, <2>2, ObjectsValid
    <3> QED
      BY <1>2, <2>1, <3>1, PointersInSeq, PointersAre
  <2>4. ASSUME NEW u \in Objects
        PROVE  u \in Items(succ[v]) <=>
                   \E i \in 1 .. Wosize(mem, v) : u = Current(Field(mem, v, i - 1)) /\ IsPtr(u)
    <3>1. u # NoObject /\ IsPtr(u)
      BY NoObjectIsNone, ObjectsValid, PointersAre
    <3>2. u \in Items(succ[v]) <=> \E i \in 1 .. Wosize(mem, v) : p[i] = u
      BY <1>2, <2>1, <2>3 DEF Items
    <3>3. \A i \in 1 .. Wosize(mem, v) : p[i] = u <=> Current(Field(mem, v, i - 1)) = u
      BY <1>2, <2>2, <2>3, <3>1
    <3> QED
      BY <3>1, <3>2, <3>3
  <2> QED
    BY <1>4, <2>4
<1> QED
  BY <1>3, <1>4

\* A search finds the objects that values lead to, and no more.
LEMMA FoundBelow ==
    ASSUME HeapInv, Bookkeeping, WordsPlain, NEW values, IsSeq(values),
           \A i \in DOMAIN values : Plain(values[i]),
           NEW found, found = Items(ObjectsFrom(values))
    PROVE  /\ found \subseteq Objects /\ PointsWithin(found)
           /\ \A i \in DOMAIN values : values[i] \in Objects => values[i] \in found
           /\ \A C \in SUBSET Objects :
                  /\ PointsWithin(C)
                  /\ \A i \in DOMAIN values : values[i] \in Objects => values[i] \in C
                  => found \subseteq C
<1>1. PICK succ, b : succ = SuccOf(View) /\ Searchable(Pointers, Objects, succ, b)
  BY ViewSearchable
<1>2. PICK D : D = Discover /\ IsSearch(D, Pointers, Objects, succ)
  BY <1>1, DiscoverSearches
<1>3. PICK q : /\ q = PointersIn(values) /\ q \in Seq(Pointers) /\ DOMAIN q = DOMAIN values
               /\ \A i \in DOMAIN values : q[i] = IF IsPtr(values[i]) THEN values[i] ELSE NoObject
  <2>1. \A i \in DOMAIN values : IsPtr(values[i]) => values[i] \in Pointers
    BY DEF Plain
  <2> QED
    BY <2>1, PointersInSeq, PointersAre
<1>4. \A v \in Objects : v # NoObject /\ IsPtr(v)
  BY NoObjectIsNone, ObjectsValid, PointersAre
<1>5. \A v \in Objects : v \in Items(q) <=> \E i \in DOMAIN values : values[i] = v
  BY <1>3, <1>4 DEF Items
<1>6. PICK st : st = << <<>>, q >>
  OBVIOUS
<1>7. st \in States(Pointers) /\ st[1] = <<>> /\ st[2] = q
  BY <1>3, <1>6, EmptySeq DEF States
<1>8. found = Items(D[st])
  BY <1>2, <1>3, <1>6 DEF ObjectsFrom
<1>9. Closes(Objects, succ, Items(D[st]), <<>>, q)
  BY <1>1, <1>2, <1>7, SearchCloses
<1>10. /\ Items(q) \cap Objects \subseteq found /\ found \subseteq Objects
       /\ \A v \in found : Items(succ[v]) \cap Objects \subseteq found
  BY <1>8, <1>9, NoItems DEF Closes
<1>11. ASSUME NEW v \in found, ~ No_scan(Tag_hd(Hd_val(mem, v))), NEW i \in 1 .. Wosize(mem, v),
              NEW u, u = Current(Field(mem, v, i - 1)), IsPtr(u)
       PROVE  u \in found
  <2>1. PICK view : view = View /\ v \in Objects
    BY <1>10
  <2>2. PICK y : y = Field(mem, v, i - 1) /\ u = Current(y)
    BY <1>11
  <2>3. view[v].words[i] = u
    BY <1>11, <2>1, <2>2, ViewIs
  <2>4. u \in Objects
    BY <1>11, <2>1, <2>3, ViewIs
  <2>5. u \in Items(succ[v]) \cap Objects
    BY <1>1, <1>11, <2>1, <2>4, Successors
  <2> QED
    BY <1>10, <2>5
<1>12. ASSUME NEW C \in SUBSET Objects, PointsWithin(C),
              \A i \in DOMAIN values : values[i] \in Objects => values[i] \in C
       PROVE  found \subseteq C
  <2>1. ASSUME NEW v \in Objects, v \in C PROVE Items(succ[v]) \cap Objects \subseteq C
    BY <1>1, <1>12, <2>1, Successors DEF PointsWithin
  <2>2. StaysIn(Objects, C, Items(D[st]), st[1], st[2])
    <3>1. \A s \in States(Pointers) : StaysIn(Objects, C, Items(D[s]), s[1], s[2])
      BY <1>1, <1>2, <2>1, SearchStaysIn
    <3> QED
      BY <1>7, <3>1
  <2>3. StaysIn(Objects, C, found, <<>>, q)
    BY <1>7, <1>8, <2>2
  <2>4. Items(q) \cap Objects \subseteq C
    BY <1>5, <1>12
  <2> QED
    BY <2>3, <2>4, NoItems DEF StaysIn
<1>13. PointsWithin(found)
  BY <1>11 DEF PointsWithin
<1> QED
  BY <1>5, <1>10, <1>12, <1>13

\* The objects that a search from the roots finds are closed.
LEMMA LiveCloses ==
    ASSUME HeapInv, Bookkeeping, WordsPlain, NEW found,
           found = ObjectsFrom(RootValues(fi.roots))
    PROVE  Items(found) \subseteq Objects /\ Closed(Items(found))
<1>1. PICK values : values = RootValues(fi.roots) /\ IsSeq(values)
                    /\ \A i \in DOMAIN values : Plain(values[i])
  BY RootsPlain
<1>2. PICK items : items = Items(found)
  OBVIOUS
<1>3. /\ items \subseteq Objects /\ PointsWithin(items)
      /\ \A i \in DOMAIN values : values[i] \in Objects => values[i] \in items
  BY <1>1, <1>2, FoundBelow
<1>4. ASSUME NEW k \in DOMAIN fi.roots, NEW u, u = Current(args[fi.roots[k]]), IsPtr(u)
      PROVE  u \in items
  <2>1. PICK x : x = args[fi.roots[k]] /\ fi.roots[k] \in ArgSlots
    BY DEF HeapInv, TypesOK
  <2>2. Known(x) /\ Plain(x)
    BY <2>1 DEF HeapInv, RootsOK, Known, WordsPlain
  <2>3. u \in Objects
    BY <1>4, <2>1, <2>2, CurrentObject
  <2>4. k \in DOMAIN values /\ values[k] = u
    <3>1. DOMAIN fi.roots = 1 .. Len(fi.roots)
      BY LenProperties DEF HeapInv, TypesOK
    <3> QED
      BY <1>1, <1>4, <3>1 DEF RootValues
  <2> QED
    BY <1>3, <2>3, <2>4
<1> QED
  BY <1>2, <1>3, <1>4 DEF Closed, RootsIn

\* do_generation copies nothing but what is reachable from the live roots: what is
\* garbage stays behind in the from-space, for every program and depth of forward.
THEOREM OnlyLiveIsCopied == AnySpec => []CopiesOnlyLive
<1>1. AnyInit => WordsPlain /\ CopiedLive
  BY InitPlain DEF AnyInit, CopiedLive
<1>2. IInv => HeapInv /\ Bookkeeping
  BY BookkeepingHolds DEF IInv
<1>3. IInv' => HeapInv' /\ Bookkeeping'
  BY <1>2, PTL
<1>4. IInv /\ WordsPlain /\ CopiedLive /\ [AnyNext]_vars /\ IInv' => WordsPlain' /\ CopiedLive'
  BY <1>2, <1>3, NextPlain, CopiedLiveKept
<1>5. IInv /\ WordsPlain /\ CopiedLive => CopiesOnlyLive
  <2> SUFFICES ASSUME HeapInv, Bookkeeping, WordsPlain, CopiedLive, pc = "copying",
                      NEW x \in ObjectsBetween(copy.to, copy.p, next[copy.to])
               PROVE  x \in ToSet(ObjectsFrom(RootValues(fi.roots)))
    BY <1>2 DEF CopiesOnlyLive
  <2>1. PICK found : found = ObjectsFrom(RootValues(fi.roots))
    OBVIOUS
  <2>2. Copied \subseteq Items(found)
    BY <2>1, LiveCloses DEF CopiedLive, InEveryClosed
  <2>3. x \in Copied
    <3>1. PICK j \in copy.p + 1 .. next[copy.to] :
              IsHeader(mem[copy.to][j]) /\ x = Ptr(copy.to, j + 1)
      BY DEF ObjectsBetween
    <3>2. CopyContext /\ copy.to \in Spaces
      BY Context DEF CopyContext, CopySpaces
    <3>3. /\ copy.p \in Nat /\ next[copy.to] \in Nat /\ next[copy.to] <= Len(mem[copy.to])
          /\ Len(mem[copy.to]) \in Nat /\ DOMAIN mem[copy.to] = 1 .. Len(mem[copy.to])
      BY <3>2, ToSpaceIndex, WordIndex DEF CopyContext, CopyWalk
    <3>4. j \in DOMAIN mem[copy.to] /\ j > copy.p
      BY <3>3
    <3> QED
      BY <3>1, <3>4 DEF Copied, Headers
  <2> QED
    BY <2>1, <2>2, <2>3 DEF ToSet, Items
<1> QED
  BY <1>1, <1>4, <1>5, HeapWellFormed, PTL DEF AnySpec

-----------------------------------------------------------------------------
(* export returns what the program's answer stands for. *)

ExportRoots == Exporting => fi = fake_fi /\ Is_block(args[1]) /\ 1 \in ArgSlots

\* The answer is the first to be copied into value_sp, where it then starts at word 2.
AnswerFirst ==
    pc = "copying" /\ copy.caller = "compact" /\ IsPtr(args[1]) =>
        \/ args[1] = Ptr(ValueSp, 2)
        \/ /\ SpaceOf(args[1]) = FakeSp /\ next[ValueSp] = 0
           /\ calls = <<Call(ArgLoc(1), DEPTH)>>

AnswerReturned ==
    pc = "exported" /\ (IsPtr(args[1]) \/ ~ Is_block(args[1])) => result = args[1]

AnswerInv == ExportRoots /\ AnswerFirst /\ AnswerReturned

\* While export copies, its one root is the one slot that changes.
LEMMA AnswerForwarded ==
    ASSUME HeapInv, Bookkeeping, ExportRoots, DoGeneration, Exporting
    PROVE  \/ args'[1] = args[1]
           \/ /\ Head(calls).p = ArgLoc(1) /\ Is_from(args[1]) /\ IsPtr(args'[1])
              /\ ForwardAgain \/ ForwardCopy
<1>1. CopyContext /\ fi = fake_fi /\ pc = "copying"
  BY Context DEF DoGeneration, ForwardOther, ForwardAgain, ForwardCopy, ScanObject, Copying,
                 ExportRoots
<1>2. DOMAIN fi.roots = {1} /\ fi.roots[1] = 1 /\ DOMAIN args = ArgSlots
  BY <1>1 DEF fake_fi, CopyContext, TypesOK
<1>3. CASE ForwardOther \/ ScanObject
  BY <1>3 DEF ForwardOther, ScanObject, heapVars
<1>4. CASE ForwardAgain \/ ForwardCopy
  <2>1. PICK loc, v : loc = Head(calls).p /\ v = Read(loc) /\ Is_from(v)
    BY <1>4 DEF ForwardAgain, ForwardCopy
  <2>2. CASE loc[1] = "arg"
    <3>1. CallOK(Head(calls))
      BY <1>1, <1>4, HeadCall DEF CopyContext, ForwardAgain, ForwardCopy, Copying
    <3>2. loc = ArgLoc(1)
      BY <1>2, <2>1, <2>2, <3>1 DEF CallOK, MemLoc, ArgLoc
    <3>3. v = args[1]
      BY <2>1, <3>2 DEF Read, ArgLoc
    <3>4. PICK w : args' = StoreArgs(loc, w) /\ IsPtr(w)
      <4>1. CASE ForwardCopy
        BY <2>1, <4>1 DEF ForwardCopy, Ptr, IsPtr
      <4>2. CASE ForwardAgain
        <5>1. PICK k : k = IndexOf(v) - 1 /\ k \in Headers(copy.from)
          <6>1. IsPtr(v) /\ SpaceOf(v) = copy.from
            BY <2>1 DEF Is_from
          <6>2. PointsToObject(v)
            BY <1>1, <1>2, <3>3, <6>1 DEF CopyContext, RootsOK
          <6> QED
            BY <6>1, <6>2 DEF PointsToObject
        <5>2. IsForwarded(k) /\ k + 1 = IndexOf(v)
          <6>1. mem[SpaceOf(v)][IndexOf(v) - 1] = ZeroHeader
            BY <2>1, <4>2 DEF ForwardAgain, Hd_val
          <6>2. SpaceOf(v) = copy.from /\ PointsToObject(v)
            BY <1>1, <1>2, <2>1, <3>3 DEF CopyContext, RootsOK, Is_from
          <6> QED
            BY <5>1, <6>1, <6>2 DEF IsForwarded, PointsToObject
        <5>3. PICK w : w = mem[copy.from][k + 1] /\ IsPtr(w)
          BY <1>1, <5>1, <5>2 DEF CopyContext, CopyForwards
        <5>4. Field(mem, v, 0) = w
          <6>1. SpaceOf(v) = copy.from /\ IndexOf(v) \in Nat
            BY <1>1, <1>2, <2>1, <3>3 DEF CopyContext, RootsOK, Is_from, PointsToObject
          <6> QED
            BY <5>2, <5>3, <6>1 DEF Field
        <5> QED
          BY <2>1, <4>2, <5>3, <5>4 DEF ForwardAgain
      <4> QED
        BY <1>4, <4>1, <4>2
    <3>5. 1 \in DOMAIN args
      BY <1>2 DEF ExportRoots
    <3>6. args'[1] = w
      BY <3>2, <3>4, <3>5 DEF StoreArgs, ArgLoc
    <3> QED
      BY <1>4, <2>1, <3>2, <3>3, <3>4, <3>6
  <2>3. CASE loc[1] # "arg"
    <3>1. PICK w : args' = StoreArgs(loc, w)
      BY <1>4, <2>1 DEF ForwardAgain, ForwardCopy
    <3> QED
      BY <2>3, <3>1 DEF StoreArgs
  <2> QED
    BY <2>2, <2>3
<1> QED
  BY <1>3, <1>4 DEF DoGeneration

LEMMA AnswerInGeneration ==
    ASSUME HeapInv, Bookkeeping, AnswerInv, DoGeneration
    PROVE  AnswerInv'
<1>1. pc = "copying" /\ UNCHANGED <<pc, copy, fi, result>>
  BY DEF DoGeneration, ForwardOther, ForwardAgain, ForwardCopy, ScanObject, Copying
<1>2. ExportRoots'
  <2>1. CASE Exporting
    <3>1. Is_block(args'[1])
      BY <2>1, AnswerForwarded DEF AnswerInv, ExportRoots, IsPtr, Is_block
    <3> QED
      BY <1>1, <2>1, <3>1 DEF AnswerInv, ExportRoots
  <2>2. CASE ~ Exporting
    BY <1>1, <2>2 DEF Exporting, ExportRoots
  <2> QED
    BY <2>1, <2>2
<1>3. AnswerFirst'
  <2> SUFFICES ASSUME copy.caller = "compact", IsPtr(args'[1])
               PROVE  \/ args'[1] = Ptr(ValueSp, 2)
                      \/ /\ SpaceOf(args'[1]) = FakeSp /\ next'[ValueSp] = 0
                         /\ calls' = <<Call(ArgLoc(1), DEPTH)>>
    BY <1>1 DEF AnswerFirst
  <2>1. Exporting /\ ExportRoots /\ AnswerFirst
    BY <1>1 DEF Exporting, AnswerInv
  <2>2. copy.from = FakeSp /\ copy.to = ValueSp /\ FakeSp # ValueSp /\ CopyContext
    <3>1. MAX_SPACES \in Nat
      BY SpaceNumbers
    <3> QED
      BY <1>1, <3>1, Context DEF HeapInv, CopyOK, CopyPlan, FakeSp, ValueSp
  <2>3. IsPtr(args[1])
    BY <2>1, AnswerForwarded DEF Is_from
  <2>4. CASE args[1] = Ptr(ValueSp, 2)
    <3>1. ~ Is_from(args[1])
      BY <2>2, <2>4 DEF Is_from, SpaceOf, Ptr
    <3> QED
      BY <2>1, <2>4, <3>1, AnswerForwarded
  <2>5. CASE /\ SpaceOf(args[1]) = FakeSp /\ next[ValueSp] = 0
             /\ calls = <<Call(ArgLoc(1), DEPTH)>>
    <3>1. Head(calls).p = ArgLoc(1) /\ Read(Head(calls).p) = args[1] /\ calls # <<>>
      BY <2>5 DEF Call, Read, ArgLoc
    <3>2. Is_block(args[1]) /\ Is_from(args[1])
      BY <2>2, <2>3, <2>5 DEF IsPtr, Is_block, Is_from
    <3>3. ~ ForwardOther /\ ~ ScanObject
      BY <3>1, <3>2 DEF ForwardOther, ScanObject
    <3>4. Headers(ValueSp) = {}
      <4> SUFFICES ASSUME NEW j \in Headers(ValueSp) PROVE FALSE
        OBVIOUS
      <4>1. /\ j \in Nat /\ Size(ValueSp, j) \in Nat \ {0}
            /\ j + Size(ValueSp, j) <= 0
        BY <2>2, <2>5, ToSpaceIndex, WordIndex DEF CopyContext, CopySpaces
      <4> QED
        BY <4>1
    <3>5. ~ ForwardAgain
      <4>1. fi.roots[1] = 1 /\ 1 \in DOMAIN fi.roots
        BY <2>1 DEF ExportRoots, fake_fi
      <4>2. PointsToObject(args[1])
        BY <2>2, <2>3, <4>1 DEF CopyContext, RootsOK
      <4>3. PICK k : k = IndexOf(args[1]) - 1 /\ k \in Headers(FakeSp)
        BY <2>5, <4>2 DEF PointsToObject
      <4>4. ~ IsForwarded(k)
        BY <2>2, <3>4, <4>3 DEF CopyContext, CopyForwards
      <4>5. Hd_val(mem, args[1]) = mem[copy.from][k]
        BY <2>2, <2>5, <4>3 DEF Hd_val
      <4> QED
        BY <3>1, <4>4, <4>5 DEF ForwardAgain, IsForwarded
    <3>6. ForwardCopy
      BY <3>3, <3>5 DEF DoGeneration
    <3>7. args' = StoreArgs(ArgLoc(1), Ptr(ValueSp, 0 + 2))
      BY <2>2, <2>5, <3>1, <3>6 DEF ForwardCopy
    <3>8. 1 \in DOMAIN args
      BY <2>1 DEF HeapInv, TypesOK, ExportRoots
    <3>9. args'[1] = Ptr(ValueSp, 2)
      BY <3>7, <3>8 DEF StoreArgs, ArgLoc
    <3> QED
      BY <3>9
  <2> QED
    BY <1>1, <2>1, <2>3, <2>4, <2>5 DEF AnswerFirst
<1>4. AnswerReturned'
  BY <1>1 DEF AnswerReturned
<1> QED
  BY <1>2, <1>3, <1>4 DEF AnswerInv

\* What the last copy starts with.
LEMMA AnswerInFakeSpace ==
    ASSUME HeapInv, Bookkeeping, AnswerInv, ExportCompact, pc' = "copying"
    PROVE  AnswerFirst'
<1>1. pc = "compact" /\ Exporting /\ result = Unused
  BY DEF ExportCompact, Exporting, HeapInv, SpacesOK
<1>2. /\ fi = fake_fi /\ mem[ValueSp] = <<>> /\ next[ValueSp] = 0
      /\ \A s \in Gens : NoObjects(s)
  BY <1>1 DEF AnswerInv, ExportRoots, HeapInv, SpacesOK, Dead
<1>3. calls' = RootCalls(fi.roots) /\ UNCHANGED <<args, next>>
  BY DEF ExportCompact, CopyOut, StartGeneration
<1>4. RootCalls(fi.roots) = <<Call(ArgLoc(1), DEPTH)>>
  BY <1>2 DEF RootCalls, fake_fi
<1>5. ASSUME IsPtr(args[1]) PROVE SpaceOf(args[1]) = FakeSp
  <2>1. fi.roots[1] = 1 /\ 1 \in DOMAIN fi.roots
    BY <1>2 DEF fake_fi
  <2>2. PointsToObject(args[1])
    BY <1>5, <2>1 DEF HeapInv, RootsOK
  <2>3. Headers(ValueSp) = {}
    BY <1>2 DEF Headers
  <2> QED
    BY <1>2, <2>2, <2>3 DEF PointsToObject, NoObjects, Spaces
<1> QED
  BY <1>2, <1>3, <1>4, <1>5 DEF AnswerFirst

LEMMA AnswerKept ==
    ASSUME HeapInv, Bookkeeping, AnswerInv, [AnyNext]_vars PROVE AnswerInv'
<1>1. CASE UNCHANGED vars
  BY <1>1 DEF vars, copyVars, heapVars, AnswerInv, ExportRoots, AnswerFirst, AnswerReturned,
              Exporting
<1>2. CASE AnyEnter \/ AnyBody \/ AnyRestart \/ AnyFree \/ AnyFinish
  BY <1>2 DEF AnyEnter, Check, AnyBody, AnyRestart, AnyFree, AnyFinish, AnswerInv, ExportRoots,
              AnswerFirst, AnswerReturned, Exporting
<1>3. CASE AnyExport
  BY <1>3 DEF AnyExport, ExportUnboxed, ExportStart, heapVars, AnswerInv, ExportRoots,
              AnswerFirst, AnswerReturned, Exporting
<1>4. CASE DoGeneration
  BY <1>4, AnswerInGeneration
<1>5. CASE GarbageCollect
  <2>1. CASE CollectGeneration
    BY <2>1 DEF CollectGeneration, StartGeneration, AnswerInv, ExportRoots, AnswerFirst,
                AnswerReturned, Exporting
  <2>2. CASE GenerationCollected
    BY <2>2 DEF GenerationCollected, Resume, AnswerInv, ExportRoots, AnswerFirst,
                AnswerReturned, Exporting
  <2>3. CASE CreateHeap
    BY <2>3 DEF CreateHeap, Resume, AnswerInv, ExportRoots, AnswerFirst, AnswerReturned,
                Exporting
  <2>4. CASE StartCollection \/ CreateNextSpace \/ RanOutOfGenerations
    BY <2>4 DEF StartCollection, CreateNextSpace, RanOutOfGenerations, Stop, AnswerInv,
                ExportRoots, AnswerFirst, AnswerReturned, Exporting
  <2> QED
    BY <1>5, <2>1, <2>2, <2>3, <2>4 DEF GarbageCollect
<1>6. CASE Export
  <2>1. fi' = fi /\ args' = args /\ Exporting
    BY <1>6
    DEF Export, CollectAllGeneration, GenerationCollectedAll, CollectAllReturn, ExportCopy,
        ExportCopied, ExportCompact, ExportReturn, CopyOut, GenerationCopied, Exporting
  <2>2. ExportRoots'
    BY <2>1 DEF AnswerInv, ExportRoots
  <2>3. CASE ExportCompact
    <3>1. AnswerFirst'
      BY <2>3, AnswerInFakeSpace DEF AnswerFirst
    <3>2. pc' # "exported"
      BY <2>3 DEF ExportCompact, CopyOut, StartGeneration
    <3> QED
      BY <2>2, <3>1, <3>2 DEF AnswerInv, AnswerReturned
  <2>4. CASE ExportReturn
    <3>1. /\ pc = "copying" /\ copy.caller = "compact" /\ calls = <<>>
          /\ pc' = "exported" /\ result' = Ptr(ValueSp, 2)
      BY <2>4 DEF ExportReturn, GenerationCopied, ResultBlock
    <3>2. Is_block(args[1])
      BY <2>1 DEF AnswerInv, ExportRoots
    <3>3. IsPtr(args[1]) => args[1] = Ptr(ValueSp, 2)
      BY <3>1 DEF AnswerInv, AnswerFirst
    <3> QED
      BY <2>1, <2>2, <3>1, <3>2, <3>3 DEF AnswerInv, AnswerFirst, AnswerReturned
  <2>5. CASE CollectAllGeneration \/ ExportCopy
    <3>1. pc' # "exported" /\ (pc' = "copying" => copy'.caller # "compact")
      BY <2>5 DEF CollectAllGeneration, ExportCopy, CopyOut, StartGeneration
    <3> QED
      BY <2>2, <3>1 DEF AnswerInv, AnswerFirst, AnswerReturned
  <2>6. CASE GenerationCollectedAll \/ CollectAllReturn \/ ExportCopied
    BY <2>2, <2>6 DEF GenerationCollectedAll, CollectAllReturn, ExportCopied, AnswerInv,
                      AnswerFirst, AnswerReturned
  <2> QED
    BY <1>6, <2>3, <2>4, <2>5, <2>6 DEF Export
<1>7. CASE MallocFails
  BY <1>7 DEF MallocFails, Stop, AnswerInv, ExportRoots, AnswerFirst, AnswerReturned, Exporting
<1> QED
  BY <1>1, <1>2, <1>3, <1>4, <1>5, <1>6, <1>7 DEF AnyNext

\* export deep copies its answer: the block it returns, in a space of its own, holds
\* what args[1] stands for, however often that has been copied on the way.
THEOREM ExportCopiesAnswer == AnySpec => []ExportReturnsAnswer
<1>1. AnyInit => AnswerInv
  BY DEF AnyInit, AnswerInv, ExportRoots, AnswerFirst, AnswerReturned, Exporting
<1>2. IInv => HeapInv /\ Bookkeeping
  BY BookkeepingHolds DEF IInv
<1>3. IInv /\ AnswerInv /\ [AnyNext]_vars => AnswerInv'
  BY <1>2, AnswerKept
<1>4. AnswerInv => ExportReturnsAnswer
  BY DEF AnswerInv, AnswerReturned, ExportReturnsAnswer
<1> QED
  BY <1>1, <1>3, <1>4, HeapWellFormed, PTL DEF AnySpec

-----------------------------------------------------------------------------
(* The block that export returns is compact. *)

ObjectsOf(s) == {v \in Objects : SpaceOf(v) = s}

\* Every word in use of s is one of an object.
Covered(s) == \A i \in 1 .. next[s] : \E j \in Headers(s) : i \in j .. j + Size(s, j)

\* fake_sp holds what is live and nothing else, value_sp is as large as that; and once
\* export has returned, value_sp is filled with what is live.
CompactInv ==
    /\ pc = "copying" /\ copy.caller \in {"export", "compact"} => copy.p = 0
    /\ pc = "copying" /\ copy.caller = "compact" => Len(mem[ValueSp]) = next[FakeSp]
    /\ pc = "compact" \/ (pc = "copying" /\ copy.caller = "compact") =>
           Covered(FakeSp) /\ InEveryClosed(ObjectsOf(FakeSp))
    /\ pc = "exported" /\ IsPtr(result) =>
           /\ result = ResultBlock /\ fi = fake_fi /\ 1 \in ArgSlots
           /\ next[ValueSp] = Len(mem[ValueSp])
           /\ Covered(ValueSp) /\ InEveryClosed(ObjectsOf(ValueSp))

\* What was live is live after a step of the collector that leaves it in place.
LEMMA StaysLive ==
    ASSUME HeapInv, Bookkeeping, WordsPlain, AnyNext, CollectorRuns, HeapInv', Bookkeeping',
           NEW S, InEveryClosed(S), NEW T, T \subseteq S, \A x \in T : Current(x)' = x
    PROVE  InEveryClosed(T)'
<1> SUFFICES ASSUME NEW C2, Closed(C2)', NEW x \in T PROVE x \in C2
  BY DEF InEveryClosed
<1>1. PICK C : C = {v \in Objects : Survives(v) /\ Current(v)' \in C2}
  OBVIOUS
<1>2. Closed(C)
  BY <1>1, ClosedBefore
<1>3. x \in C
  BY <1>1, <1>2 DEF InEveryClosed
<1> QED
  BY <1>1, <1>3

\* What has been copied from the start of a space on leaves no gap.
LEMMA CopiedCovers ==
    ASSUME CopyContext, copy.p = 0, NEW t, t = copy.to
    PROVE  Covered(t)
<1>1. /\ next[t] \in Nat /\ next[t] <= Len(mem[t]) /\ t \in Spaces
      /\ \A j \in Headers(t) : /\ j \in Nat /\ Size(t, j) \in Nat \ {0}
                               /\ j + Size(t, j) <= next[t] /\ j > 0
                               /\ Boundary(j + Size(t, j))
  <2>1. t \in Spaces /\ TypesOK /\ CopyWalk
    BY DEF CopyContext, CopySpaces
  <2>2. \A j \in Headers(t) : j \in Nat /\ j > 0
    BY <2>1, WordIndex
  <2>3. \A j \in Headers(t) : Boundary(j + Size(t, j))
    BY <2>1, <2>2 DEF CopyWalk
  <2> QED
    BY <2>1, <2>2, <2>3, ToSpaceIndex
<1>2. PICK T : T = {i \in 1 .. next[t] : ~ \E j \in Headers(t) : i \in j .. j + Size(t, j)}
  OBVIOUS
<1>3. SUFFICES ASSUME T # {} PROVE FALSE
  BY <1>2 DEF Covered
<1>4. T \in SUBSET Nat
  BY <1>1, <1>2
<1>5. PICK i \in T : \A y \in T : i <= y
  BY <1>3, <1>4, LeastNatural
<1>6. i \in 1 .. next[t] /\ i \in Nat
  BY <1>1, <1>2
<1>7. i \notin Headers(t)
  <2>1. ASSUME i \in Headers(t) PROVE i \in i .. i + Size(t, i)
    BY <1>1, <2>1
  <2> QED
    BY <1>2, <2>1
<1>8. PICK k : k = i - 1 /\ k \in Nat /\ k + 1 = i /\ k < next[t]
  BY <1>1, <1>6
<1>9. Boundary(k)
  <2>1. CASE k = 0
    BY <2>1 DEF CopyContext, CopyWalk
  <2>2. CASE k # 0
    <3>1. k \in 1 .. next[t] /\ k \notin T
      BY <1>1, <1>5, <1>8, <2>2
    <3>2. PICK j \in Headers(t) : k \in j .. j + Size(t, j)
      BY <1>2, <3>1
    <3>3. i \notin j .. j + Size(t, j)
      BY <1>2
    <3>4. k = j + Size(t, j)
      <4>1. PICK z : z = j + Size(t, j) /\ z \in Nat /\ j \in Nat
        BY <1>1
      <4> QED
        BY <1>8, <3>2, <3>3, <4>1
    <3> QED
      BY <1>1, <3>4
  <2> QED
    BY <2>1, <2>2
<1> QED
  BY <1>7, <1>8, <1>9, <1>1 DEF Boundary

LEMMA ObjectsHaveAfter ==
    (HeapInv /\ Bookkeeping => \A v \in Objects : \E s \in Spaces : \E k \in Headers(s) :
        v = Ptr(s, k + 1) /\ k \in Nat /\ mem[s][k] # ZeroHeader)'
<1>1. HeapInv /\ Bookkeeping => \A v \in Objects : \E s \in Spaces : \E k \in Headers(s) :
          v = Ptr(s, k + 1) /\ k \in Nat /\ mem[s][k] # ZeroHeader
  BY ObjectsHave
<1> QED
  BY <1>1, PTL

LEMMA HeaderObject ==
    ASSUME HeapInv, Bookkeeping, NEW s \in Spaces, NEW k \in Headers(s), mem[s][k] # ZeroHeader,
           NEW v, v = Ptr(s, k + 1)
    PROVE  v \in Objects /\ SpaceOf(v) = s /\ IsPtr(v)
<1>1. k \in Nat /\ s \in Nat
  BY WordIndex, SpaceNumbers DEF HeapInv
<1>2. SpaceOf(v) = s /\ IndexOf(v) = k + 1 /\ k + 1 \in Nat /\ (k + 1) - 1 = k
      /\ v \in Pointers /\ IsPtr(v)
  BY <1>1 DEF Ptr, SpaceOf, IndexOf, Pointers, IsPtr
<1>3. PointsToObject(v) /\ Hd_val(mem, v) # ZeroHeader
  BY <1>2 DEF PointsToObject, Hd_val
<1>4. Valid(v)
  BY <1>3, WholeValid DEF HeapInv
<1> QED
  BY <1>2, <1>4, ObjectsValid

\* In the from-space objects are forwarded and nothing else.
LEMMA FromObjectsKept ==
    ASSUME HeapInv, Bookkeeping, AnyNext, pc = "copying", pc' = "copying", NEW f, f = copy.from
    PROVE  /\ Headers(f)' = Headers(f)
           /\ \A k \in Headers(f) : /\ Size(f, k)' = Size(f, k)
                                    /\ IsForwarded(k) => mem'[f][k] = ZeroHeader
<1>1. CopyContext /\ DoGeneration /\ copy' = copy /\ copy.from # copy.to
  BY Context, CopyGoesOn, ToSpaceIndex
<1>2. PICK t : t = copy.to
  OBVIOUS
<1>3. \A k \in Headers(f) : IsForwarded(k) => mem'[f][k] = ZeroHeader
  BY FromSpaceKept
<1>4. CASE ForwardCopy
  <2>1. PICK loc, k, h : loc = Head(calls).p /\ k = IndexOf(Read(loc)) - 1 /\ h = next[t] + 1
    OBVIOUS
  <2>2. PICK sz : sz = Size(f, k)
    OBVIOUS
  <2>3. /\ k \in Headers(f) /\ ~ IsForwarded(k) /\ sz \in Nat \ {0} /\ h \in Nat \ {0}
        /\ h + sz <= Len(mem[t]) /\ sz = Wosize_hd(mem[f][k]) /\ CopyMade(f, t, loc, k, sz, h)
    BY <1>2, <1>4, <2>1, <2>2, CopyIsMade
  <2>4. UNCHANGED <<pc, copy>>
    BY <1>4 DEF ForwardCopy
  <2>5. ObjectsAfterCopy(f, t, k, sz, h)
    BY <1>1, <1>2, <2>1, <2>2, <2>3, <2>4, CopyMadeObjects
  <2>6. f \in Spaces \ {t}
    BY <1>1, <1>2 DEF CopyContext, CopySpaces
  <2> QED
    BY <1>3, <2>5, <2>6 DEF ObjectsAfterCopy
<1>5. CASE ~ ForwardCopy
  <2>1. mem'[f] = mem[f] /\ Headers(f)' = Headers(f)
    <3>1. \A k \in Headers(f) : mem'[f] = mem[f]
      BY <1>5, FromSpaceKept
    <3>2. CASE Headers(f) # {}
      BY <3>1, <3>2 DEF Headers
    <3>3. CASE ~ ForwardAgain
      BY <1>1, <1>5, <3>3 DEF DoGeneration, ForwardOther, ScanObject, heapVars, Headers
    <3>4. CASE ForwardAgain
      <4>1. PICK loc, u : /\ loc = Head(calls).p /\ mem' = StoreMem(mem, loc, u) /\ calls # <<>>
        BY <3>4 DEF ForwardAgain, Copying
      <4>2. MemoryOK(mem) /\ SameShape(mem, mem)
        BY <1>1 DEF CopyContext, TypesOK, MemoryOK, SameShape
      <4>3. CallStored(mem, loc, u, StoreMem(mem, loc, u), StoreArgs(loc, u))
        BY <1>1, <4>1, <4>2, StoreAtCall
      <4>4. f \in Spaces /\ f # copy.to
        BY <1>1 DEF CopyContext, CopySpaces
      <4> QED
        BY <4>1, <4>3, <4>4 DEF CallStored, Headers
    <3> QED
      BY <3>2, <3>3, <3>4
  <2>2. ASSUME NEW k \in Headers(f), IsForwarded(k)
        PROVE  Size(f, k)' = Size(f, k)
    <3>1. PICK h : h = NewHeader(k) /\ h \in Headers(t)
      BY <1>1, <1>2, <2>2 DEF CopyContext, CopyForwards
    <3>2. mem'[t][h] = mem[t][h]
      <4>1. h \in h .. h + Size(t, h)
        <5>1. h \in Nat /\ Size(t, h) \in Nat
          BY <1>1, <1>2, <3>1, ToSpaceIndex, WordIndex DEF CopyContext, CopySpaces
        <5> QED
          BY <5>1
      <4> QED
        BY <1>2, <3>1, <4>1, NotCalledFor
    <3>3. NewHeader(k)' = h /\ IsForwarded(k)'
      BY <1>1, <2>1, <2>2, <3>1 DEF NewHeader, IsForwarded
    <3> QED
      BY <1>1, <1>2, <2>2, <3>1, <3>2, <3>3 DEF Size
  <2>3. ASSUME NEW k \in Headers(f), ~ IsForwarded(k)
        PROVE  Size(f, k)' = Size(f, k)
    BY <1>1, <2>1, <2>3 DEF Size, IsForwarded
  <2> QED
    BY <1>3, <2>1, <2>2, <2>3
<1> QED
  BY <1>4, <1>5

LEMMA CompactInGeneration ==
    ASSUME HeapInv, Bookkeeping, WordsPlain, CompactInv, DoGeneration, AnyNext,
           HeapInv', Bookkeeping'
    PROVE  CompactInv'
<1>1. pc = "copying" /\ UNCHANGED <<pc, copy, fi, result>>
  BY DEF DoGeneration, ForwardOther, ForwardAgain, ForwardCopy, ScanObject, Copying
<1>2. CASE copy.caller # "compact"
  BY <1>1, <1>2 DEF CompactInv
<1>3. CASE copy.caller = "compact"
  <2>1. /\ copy.from = FakeSp /\ copy.to = ValueSp /\ FakeSp # ValueSp
        /\ FakeSp \in Spaces /\ ValueSp \in Spaces
    BY <1>1, <1>3, SpaceNumbers DEF HeapInv, CopyOK, CopyPlan
  <2>2. Len(mem'[ValueSp]) = Len(mem[ValueSp])
    BY <2>1, CopySameSizes DEF SameSizes
  <2>3. next'[FakeSp] = next[FakeSp]
    BY <2>1 DEF DoGeneration, ForwardOther, ForwardAgain, ForwardCopy, ScanObject, heapVars,
                HeapInv, TypesOK
  <2>4. /\ Headers(FakeSp)' = Headers(FakeSp)
        /\ \A k \in Headers(FakeSp) : /\ Size(FakeSp, k)' = Size(FakeSp, k)
                                      /\ IsForwarded(k) => mem'[FakeSp][k] = ZeroHeader
    BY <1>1, <2>1, FromObjectsKept
  <2>5. Covered(FakeSp)'
    BY <1>1, <1>3, <2>3, <2>4 DEF CompactInv, Covered
  <2>6. InEveryClosed(ObjectsOf(FakeSp))'
    <3>1. PICK S, T : S = ObjectsOf(FakeSp) /\ T = ObjectsOf(FakeSp)'
      OBVIOUS
    <3>2. ASSUME NEW x \in T PROVE x \in S /\ Current(x)' = x
      <4>1. x \in Objects' /\ SpaceOf(x) = FakeSp
        BY <3>1, <3>2 DEF ObjectsOf
      <4>2. PICK s \in Spaces : \E k \in Headers(s)' :
                x = Ptr(s, k + 1) /\ k \in Nat /\ mem'[s][k] # ZeroHeader
        BY <4>1, ObjectsHaveAfter
      <4>3. s = FakeSp
        BY <4>1, <4>2 DEF SpaceOf, Ptr
      <4>4. PICK k \in Headers(FakeSp) :
                x = Ptr(FakeSp, k + 1) /\ k \in Nat /\ mem'[FakeSp][k] # ZeroHeader
        BY <2>4, <4>2, <4>3
      <4>5. mem[FakeSp][k] # ZeroHeader
        BY <2>1, <2>4, <4>4 DEF IsForwarded
      <4>6. x \in Objects /\ IsPtr(x)
        BY <2>1, <4>4, <4>5, HeaderObject
      <4>7. IndexOf(x) - 1 = k
        BY <4>4 DEF IndexOf, Ptr
      <4>8. Current(x)' = x
        BY <1>1, <2>1, <4>4, <4>7, CurrentAfter
      <4> QED
        BY <3>1, <4>1, <4>6, <4>8 DEF ObjectsOf
    <3>3. InEveryClosed(S) /\ CollectorRuns
      BY <1>1, <1>3, <3>1 DEF CompactInv, CollectorRuns
    <3>4. InEveryClosed(T)'
      BY <3>2, <3>3, StaysLive
    <3> QED
      BY <3>1, <3>4 DEF InEveryClosed
  <2> QED
    BY <1>1, <1>3, <2>2, <2>3, <2>5, <2>6 DEF CompactInv
<1> QED
  BY <1>2, <1>3

\* What is live as do_generation copies it is live when it is done.
LEMMA CopiedStaysLive ==
    ASSUME HeapInv, Bookkeeping, WordsPlain, CopiedLive, AnyNext, HeapInv', Bookkeeping',
           pc = "copying", pc' # "copying", copy.p = 0, NEW t, t = copy.to,
           mem'[t] = mem[t], next'[t] = next[t]
    PROVE  Covered(t)' /\ InEveryClosed(ObjectsOf(t))'
<1>1. CopyContext /\ copy.from # t /\ t \in Spaces
  BY Context, ToSpaceIndex DEF CopyContext, CopySpaces
<1>2. Headers(t)' = Headers(t) /\ \A j \in Headers(t) : Size(t, j)' = Size(t, j)
  BY <1>1 DEF Headers, Size
<1>3. Covered(t)'
  BY <1>1, <1>2, CopiedCovers DEF Covered
<1>4. PICK S, T : S = Copied /\ T = ObjectsOf(t)'
  OBVIOUS
<1>5. ASSUME NEW x \in T PROVE x \in S /\ Current(x)' = x
  <2>1. x \in Objects' /\ SpaceOf(x) = t
    BY <1>4, <1>5 DEF ObjectsOf
  <2>2. PICK s \in Spaces : \E k \in Headers(s)' : x = Ptr(s, k + 1) /\ k \in Nat
    BY <2>1, ObjectsHaveAfter
  <2>3. PICK k \in Headers(t) : x = Ptr(t, k + 1)
    BY <1>2, <2>1, <2>2 DEF SpaceOf, Ptr
  <2>4. k > copy.p
    BY <1>1, WordIndex DEF CopyContext
  <2> QED
    BY <1>4, <2>3, <2>4 DEF Copied, Current
<1>6. InEveryClosed(S) /\ CollectorRuns
  BY <1>4 DEF CopiedLive, CollectorRuns
<1>7. InEveryClosed(T)'
  BY <1>5, <1>6, StaysLive
<1> QED
  BY <1>3, <1>4, <1>7 DEF InEveryClosed

\* What export returns when it is done is closed.
LEMMA BlockCloses ==
    ASSUME HeapInv, Bookkeeping, WordsPlain, pc = "copying", copy.caller = "compact",
           calls = <<>>, scan >= next[copy.to]
    PROVE  Closed(ObjectsOf(ValueSp))
<1>1. /\ copy.from = FakeSp /\ copy.to = ValueSp /\ Spaces = 0 .. ValueSp
      /\ FakeSp \in Nat /\ ValueSp = FakeSp + 1
  BY SpaceNumbers DEF HeapInv, CopyOK, CopyPlan
<1>2. PointsOutside(0 .. FakeSp) /\ RootsOutside(0 .. FakeSp)
  BY <1>1, OutsideFrom
<1>3. ASSUME NEW x, Plain(x), Known(x), IsPtr(x) => SpaceOf(x) \notin 0 .. FakeSp,
             NEW u, u = Current(x), IsPtr(u)
      PROVE  u \in ObjectsOf(ValueSp)
  <2>1. u \in Objects
    BY <1>3, CurrentObject
  <2>2. IsPtr(x) /\ u = x
    BY <1>1, <1>3, CurrentSame
  <2>3. SpaceOf(u) \in Spaces
    BY <2>1, ObjectsValid DEF Valid
  <2>4. SpaceOf(u) = ValueSp
    BY <1>1, <1>3, <2>2, <2>3
  <2> QED
    BY <2>1, <2>4 DEF ObjectsOf
<1>4. RootsIn(ObjectsOf(ValueSp))
  <2> SUFFICES ASSUME NEW k \in DOMAIN fi.roots, NEW u, u = Current(args[fi.roots[k]]), IsPtr(u)
               PROVE  u \in ObjectsOf(ValueSp)
    BY DEF RootsIn
  <2>1. PICK x : x = args[fi.roots[k]] /\ fi.roots[k] \in ArgSlots
    BY DEF HeapInv, TypesOK
  <2>2. Plain(x) /\ Known(x) /\ (IsPtr(x) => SpaceOf(x) \notin 0 .. FakeSp)
    BY <1>2, <2>1 DEF WordsPlain, Known, RootsOutside
  <2> QED
    BY <1>3, <2>1, <2>2
<1>5. PointsWithin(ObjectsOf(ValueSp))
  <2> SUFFICES ASSUME NEW v \in ObjectsOf(ValueSp), ~ No_scan(Tag_hd(Hd_val(mem, v))),
                      NEW i \in 1 .. Wosize(mem, v),
                      NEW u, u = Current(Field(mem, v, i - 1)), IsPtr(u)
               PROVE  u \in ObjectsOf(ValueSp)
    BY DEF PointsWithin
  <2>1. v \in Objects /\ SpaceOf(v) = ValueSp
    BY DEF ObjectsOf
  <2>2. PICK s \in Spaces : \E k \in Headers(s) :
            /\ v = Ptr(s, k + 1) /\ k \in Nat /\ mem[s][k] # ZeroHeader
            /\ Hd_val(mem, v) = mem[s][k] /\ Wosize(mem, v) = Size(s, k)
            /\ Size(s, k) \in Nat
            /\ \A n \in Nat : Field(mem, v, n - 1) = mem[s][k + n]
    BY <2>1, ObjectsHave
  <2>3. PICK k \in Headers(s) :
            /\ v = Ptr(s, k + 1) /\ k \in Nat /\ mem[s][k] # ZeroHeader
            /\ Hd_val(mem, v) = mem[s][k] /\ Wosize(mem, v) = Size(s, k)
            /\ Size(s, k) \in Nat
            /\ \A n \in Nat : Field(mem, v, n - 1) = mem[s][k + n]
    BY <2>2
  <2>4. s = ValueSp /\ i \in Nat /\ i \in 1 .. Size(s, k)
    BY <2>1, <2>3 DEF SpaceOf, Ptr
  <2>5. PICK x : x = Field(mem, v, i - 1) /\ x = mem[s][k + i] /\ u = Current(x)
    BY <2>3, <2>4
  <2>6. HasPointers(s, k) /\ k + i \in k + 1 .. k + Size(s, k) /\ s \notin 0 .. FakeSp
    BY <1>1, <2>3, <2>4 DEF HasPointers
  <2>7. IsPtr(x) => SpaceOf(x) \notin 0 .. FakeSp /\ PointsToObject(x)
    <3>1. IsPtr(mem[s][k + i]) => PointsToObject(mem[s][k + i])
      BY <2>3, <2>6 DEF HeapInv, PointersOK
    <3>2. IsPtr(mem[s][k + i]) => SpaceOf(mem[s][k + i]) \notin 0 .. FakeSp
      BY <1>2, <2>3, <2>6 DEF PointsOutside
    <3> QED
      BY <2>5, <3>1, <3>2
  <2>8. Plain(x)
    <3>1. k + i \in DOMAIN mem[s]
      <4>1. /\ k + Size(s, k) <= InUse(s) /\ InUse(s) <= Len(mem[s])
            /\ DOMAIN mem[s] = 1 .. Len(mem[s]) /\ Len(mem[s]) \in Nat
        BY <2>3, WordIndex DEF HeapInv, ObjectsOK
      <4>2. InUse(s) \in Nat
        BY InUseType DEF HeapInv
      <4>3. PICK n : n = Size(s, k) /\ n \in Nat /\ i \in 1 .. n /\ k \in Nat /\ i \in Nat
        BY <2>3, <2>4
      <4> QED
        BY <4>1, <4>2, <4>3
    <3> QED
      BY <2>5, <3>1 DEF WordsPlain
  <2> QED
    BY <1>3, <2>5, <2>7, <2>8 DEF Known
<1> QED
  BY <1>4, <1>5 DEF Closed

\* All of fake_sp is live, so all of it is copied, and fills value_sp.
LEMMA BlockFull ==
    ASSUME HeapInv, Bookkeeping, WordsPlain, CompactInv, pc = "copying",
           copy.caller = "compact", calls = <<>>, scan >= next[copy.to]
    PROVE  next[ValueSp] = Len(mem[ValueSp])
<1>1. /\ CopyContext /\ copy.from = FakeSp /\ copy.to = ValueSp /\ FakeSp # 0
      /\ FakeSp \in Spaces /\ FakeSp # ValueSp
  BY Context, SpaceNumbers DEF HeapInv, CopyOK, CopyPlan
<1>2. /\ copy.p = 0 /\ Len(mem[ValueSp]) = next[FakeSp]
      /\ Covered(FakeSp) /\ InEveryClosed(ObjectsOf(FakeSp))
  BY DEF CompactInv
<1>3. ObjectsOf(FakeSp) \subseteq ObjectsOf(ValueSp)
  <2>1. ObjectsOf(ValueSp) \subseteq Objects
    BY DEF ObjectsOf
  <2> QED
    BY <1>2, <2>1, BlockCloses DEF InEveryClosed
<1>4. \A k \in Headers(FakeSp) : IsForwarded(k)
  <2> SUFFICES ASSUME NEW k \in Headers(FakeSp), ~ IsForwarded(k) PROVE FALSE
    OBVIOUS
  <2>1. mem[FakeSp][k] # ZeroHeader
    BY <1>1 DEF IsForwarded
  <2>2. PICK v : v = Ptr(FakeSp, k + 1)
    OBVIOUS
  <2>3. v \in Objects /\ SpaceOf(v) = FakeSp
    BY <1>1, <2>1, <2>2, HeaderObject
  <2> QED
    BY <1>1, <1>3, <2>3 DEF ObjectsOf
<1>5. Moved = 1 .. next[FakeSp]
  BY <1>1, <1>2, <1>4 DEF Moved, Covered, InUse
<1>6. next[FakeSp] \in Nat /\ next[ValueSp] \in Nat
  BY <1>1 DEF CopyContext, TypesOK, CopySpaces
<1>7. Cardinality(1 .. next[FakeSp]) = next[FakeSp]
  <2>1. \A n \in Nat : Cardinality(1 .. n) = IF 1 > n THEN 0 ELSE n - 1 + 1
    BY FS_Interval
  <2>2. \A n \in Nat : Cardinality(1 .. n) = n
    BY <2>1
  <2> QED
    BY <1>6, <2>2
<1> QED
  BY <1>1, <1>2, <1>5, <1>6, <1>7 DEF CopyContext, CopyFits

LEMMA CompactStarts ==
    ASSUME HeapInv, Bookkeeping, WordsPlain, CompactInv, AnyNext, HeapInv', Bookkeeping',
           ExportCompact
    PROVE  CompactInv'
<1>1. /\ pc = "compact" /\ CollectorRuns /\ result = Unused
      /\ next[ValueSp] = 0 /\ next[FakeSp] \in Nat
      /\ FakeSp \in Spaces /\ ValueSp \in Spaces /\ FakeSp # ValueSp
  BY SpaceNumbers DEF ExportCompact, CollectorRuns, HeapInv, TypesOK, SpacesOK, Dead
<1>2. UNCHANGED <<next, fi, args, result>> /\ SpaceMade(ValueSp, next[FakeSp])
  <2>1. mem' = [mem EXCEPT ![ValueSp] = EmptySpace(next[FakeSp])]
    BY DEF ExportCompact, CopyOut
  <2>2. SpaceMade(ValueSp, next[FakeSp])
    BY <1>1, <2>1, MakeSpace DEF HeapInv
  <2> QED
    BY <2>2 DEF ExportCompact, CopyOut
<1>3. CASE pc' # "copying"
  BY <1>3 DEF CompactInv, ExportCompact, CopyOut, StartGeneration
<1>4. CASE pc' = "copying"
  <2>1. copy' = [from |-> FakeSp, to |-> ValueSp, p |-> next[ValueSp], caller |-> "compact"]
    BY <1>4 DEF ExportCompact, CopyOut, StartGeneration
  <2>2. mem'[FakeSp] = mem[FakeSp] /\ Len(mem'[ValueSp]) = next[FakeSp]
    BY <1>1, <1>2 DEF SpaceMade
  <2>3. \A k \in Headers(FakeSp) : mem[FakeSp][k] # ZeroHeader
    BY <1>1 DEF HeapInv, ObjectsOK
  <2>4. /\ Headers(FakeSp)' = Headers(FakeSp)
        /\ \A k \in Headers(FakeSp) : Size(FakeSp, k)' = Size(FakeSp, k)
    BY <1>1, <2>1, <2>2, <2>3 DEF Headers, Size, IsForwarded
  <2>5. Covered(FakeSp)'
    BY <1>1, <1>2, <2>4 DEF CompactInv, Covered
  <2>6. PICK S, T : S = ObjectsOf(FakeSp) /\ T = ObjectsOf(FakeSp)'
    OBVIOUS
  <2>7. ASSUME NEW x \in T PROVE x \in S /\ Current(x)' = x
    <3>1. x \in Objects' /\ SpaceOf(x) = FakeSp
      BY <2>6, <2>7 DEF ObjectsOf
    <3>2. PICK s \in Spaces : \E k \in Headers(s)' : x = Ptr(s, k + 1) /\ k \in Nat
      BY <3>1, ObjectsHaveAfter
    <3>3. PICK k \in Headers(FakeSp) : x = Ptr(FakeSp, k + 1) /\ k \in Nat
      BY <2>4, <3>1, <3>2 DEF SpaceOf, Ptr
    <3>4. x \in Objects
      BY <1>1, <2>3, <3>3, HeaderObject
    <3>5. Hd_val(mem', x) # ZeroHeader
      <4>1. IndexOf(x) - 1 = k
        BY <3>3 DEF IndexOf, Ptr
      <4> QED
        BY <2>2, <2>3, <3>1, <3>3, <4>1 DEF Hd_val
    <3>6. Current(x)' = x
      BY <3>5 DEF Current
    <3> QED
      BY <2>6, <3>1, <3>4, <3>6 DEF ObjectsOf
  <2>8. InEveryClosed(S)
    BY <1>1, <2>6 DEF CompactInv
  <2>9. InEveryClosed(T)'
    BY <1>1, <2>7, <2>8, StaysLive
  <2>10. InEveryClosed(ObjectsOf(FakeSp))'
    BY <2>6, <2>9 DEF InEveryClosed
  <2> QED
    BY <1>1, <1>2, <1>4, <2>1, <2>2, <2>5, <2>10 DEF CompactInv
<1> QED
  BY <1>3, <1>4

LEMMA CompactEnds ==
    ASSUME HeapInv, Bookkeeping, WordsPlain, CopiedLive, AnswerInv, CompactInv, AnyNext,
           HeapInv', Bookkeeping', ExportCopied \/ ExportReturn
    PROVE  CompactInv'
<1>1. /\ pc = "copying" /\ pc' # "copying" /\ calls = <<>> /\ scan >= next[copy.to]
      /\ CopyContext /\ copy.from # copy.to /\ UNCHANGED <<fi, args>>
      /\ copy.from \in Spaces /\ copy.to \in Spaces /\ FakeSp # ValueSp
  <2>1. pc = "copying" /\ pc' # "copying" /\ calls = <<>> /\ scan >= next[copy.to]
        /\ UNCHANGED <<fi, args>>
    BY DEF ExportCopied, ExportReturn, GenerationCopied
  <2> QED
    BY <2>1, Context, SpaceNumbers, ToSpaceIndex DEF CopyContext, CopySpaces
<1>2. CASE ExportCopied
  <2>1. /\ copy.caller = "export" /\ pc' = "compact" /\ copy.p = 0 /\ copy.to = FakeSp
        /\ result' = result
    BY <1>1, <1>2 DEF ExportCopied, GenerationCopied, CompactInv, HeapInv, CopyOK, CopyPlan
  <2>2. mem'[FakeSp] = mem[FakeSp] /\ next'[FakeSp] = next[FakeSp]
    BY <1>1, <1>2, <2>1, FromEmptied DEF ExportCopied
  <2>3. Covered(FakeSp)' /\ InEveryClosed(ObjectsOf(FakeSp))'
    BY <1>1, <2>1, <2>2, CopiedStaysLive
  <2> QED
    BY <2>1, <2>3 DEF CompactInv
<1>3. CASE ExportReturn
  <2>1. /\ copy.caller = "compact" /\ pc' = "exported" /\ copy.p = 0 /\ copy.to = ValueSp
        /\ result' = ResultBlock
    BY <1>1, <1>3 DEF ExportReturn, GenerationCopied, CompactInv, HeapInv, CopyOK, CopyPlan
  <2>2. mem'[ValueSp] = mem[ValueSp] /\ next'[ValueSp] = next[ValueSp]
    BY <1>1, <1>3 DEF ExportReturn, CopyContext, TypesOK, Spaces
  <2>3. Covered(ValueSp)' /\ InEveryClosed(ObjectsOf(ValueSp))'
    BY <1>1, <2>1, <2>2, CopiedStaysLive
  <2>4. next[ValueSp] = Len(mem[ValueSp])
    BY <1>1, <2>1, BlockFull
  <2>5. fi = fake_fi /\ 1 \in ArgSlots
    BY <1>1, <2>1 DEF AnswerInv, ExportRoots, Exporting
  <2> QED
    BY <1>1, <2>1, <2>2, <2>3, <2>4, <2>5 DEF CompactInv
<1> QED
  BY <1>2, <1>3

LEMMA CompactKept ==
    ASSUME HeapInv, Bookkeeping, WordsPlain, CopiedLive, AnswerInv, CompactInv, [AnyNext]_vars,
           HeapInv', Bookkeeping'
    PROVE  CompactInv'
<1>1. CASE UNCHANGED vars
  <2>1. UNCHANGED <<mem, next, args, alloc, fi, pc, copy, result>>
    BY <1>1 DEF vars, heapVars, copyVars
  <2>2. \A s : Covered(s)' <=> Covered(s)
    BY <2>1 DEF Covered, Headers, Size, IsForwarded, NewHeader
  <2>3. Objects' = Objects /\ \A C : Closed(C)' <=> Closed(C)
    BY <2>1 DEF Objects, ObjectsBetween, InUse, Closed, RootsIn, PointsWithin, Current
  <2>4. \A s : InEveryClosed(ObjectsOf(s))' <=> InEveryClosed(ObjectsOf(s))
    BY <2>3 DEF InEveryClosed, ObjectsOf
  <2> QED
    BY <2>1, <2>2, <2>4 DEF CompactInv
<1>2. CASE AnyEnter \/ AnyBody \/ AnyRestart \/ AnyFree \/ AnyFinish
  BY <1>2 DEF AnyEnter, Check, AnyBody, AnyRestart, AnyFree, AnyFinish, CompactInv
<1>3. CASE AnyExport
  BY <1>3 DEF AnyExport, ExportUnboxed, ExportStart, CompactInv, Is_block, IsPtr
<1>4. CASE DoGeneration
  BY <1>4, CompactInGeneration DEF AnyNext
<1>5. CASE GarbageCollect \/ MallocFails
  BY <1>5 DEF GarbageCollect, CreateHeap, StartCollection, CreateNextSpace, CollectGeneration,
      GenerationCollected, RanOutOfGenerations, MallocFails, Stop, Resume, StartGeneration,
      CompactInv
<1>6. CASE CollectAllGeneration \/ GenerationCollectedAll \/ CollectAllReturn
  BY <1>6 DEF CollectAllGeneration, GenerationCollectedAll, CollectAllReturn, StartGeneration,
      CompactInv
<1>7. CASE ExportCopy
  <2>1. next[FakeSp] = 0 /\ pc' # "exported" /\ pc' # "compact"
    BY <1>7 DEF ExportCopy, CopyOut, StartGeneration, HeapInv, SpacesOK, Dead
  <2>2. pc' = "copying" => copy'.p = 0 /\ copy'.caller = "export"
    BY <1>7, <2>1 DEF ExportCopy, CopyOut, StartGeneration
  <2> QED
    BY <2>1, <2>2 DEF CompactInv
<1>8. CASE ExportCompact
  BY <1>8, CompactStarts DEF AnyNext, Export
<1>9. CASE ExportCopied \/ ExportReturn
  BY <1>9, CompactEnds DEF AnyNext, Export
<1> QED
  BY <1>1, <1>2, <1>3, <1>4, <1>5, <1>6, <1>7, <1>8, <1>9 DEF AnyNext, Export

\* What export returned leads to all of the block and to nothing else.
LEMMA BlockFound ==
    ASSUME HeapInv, Bookkeeping, WordsPlain, AnswerInv, CompactInv, pc = "exported",
           IsPtr(result), NEW found, found = Items(ObjectsFrom(<<result>>))
    PROVE  found = ObjectsOf(ValueSp)
<1>1. /\ result = ResultBlock /\ fi = fake_fi /\ 1 \in ArgSlots /\ ValueSp \in Spaces
      /\ InEveryClosed(ObjectsOf(ValueSp)) /\ Spaces = 0 .. ValueSp /\ ValueSp \in Nat
  BY SpaceNumbers DEF CompactInv
<1>2. SpaceOf(result) = ValueSp /\ result \in Pointers
  BY <1>1 DEF ResultBlock, Ptr, SpaceOf, Pointers
<1>3. PICK values : /\ values = <<result>> /\ IsSeq(values) /\ DOMAIN values = {1}
                    /\ values[1] = result
  <2>1. IsSeq(<<result>>) /\ DOMAIN <<result>> = {1} /\ <<result>>[1] = result
    BY DEF IsSeq
  <2> QED
    BY <2>1
<1>4. /\ found \subseteq Objects /\ PointsWithin(found) /\ (result \in Objects => result \in found)
      /\ \A C \in SUBSET Objects :
             PointsWithin(C) /\ (result \in Objects => result \in C) => found \subseteq C
  BY <1>2, <1>3, FoundBelow DEF Plain
<1>5. PointsWithin(ObjectsOf(ValueSp))
  <2> SUFFICES ASSUME NEW v \in Objects, SpaceOf(v) = ValueSp, ~ No_scan(Tag_hd(Hd_val(mem, v))),
                      NEW i \in 1 .. Wosize(mem, v),
                      NEW u, u = Current(Field(mem, v, i - 1)), IsPtr(u)
               PROVE  u \in ObjectsOf(ValueSp)
    BY DEF PointsWithin, ObjectsOf
  <2>1. PICK view : view = View
    OBVIOUS
  <2>2. view[v].words[i] = u
    <3>1. PICK y : y = Field(mem, v, i - 1)
      OBVIOUS
    <3> QED
      BY <2>1, <3>1, ViewIs
  <2>3. u \in Objects
    BY <2>1, <2>2, ViewIs
  <2>4. u = Field(mem, v, i - 1)
    BY <1>1, CurrentSame
  <2>5. PICK s \in Spaces : \E k \in Headers(s) :
            /\ v = Ptr(s, k + 1) /\ k \in Nat /\ mem[s][k] # ZeroHeader
            /\ Hd_val(mem, v) = mem[s][k] /\ Wosize(mem, v) = Size(s, k)
            /\ Size(s, k) \in Nat
            /\ \A n \in Nat : Field(mem, v, n - 1) = mem[s][k + n]
    BY ObjectsHave
  <2>6. PICK k \in Headers(s) :
            /\ v = Ptr(s, k + 1) /\ k \in Nat /\ mem[s][k] # ZeroHeader
            /\ Hd_val(mem, v) = mem[s][k] /\ Wosize(mem, v) = Size(s, k)
            /\ Size(s, k) \in Nat
            /\ \A n \in Nat : Field(mem, v, n - 1) = mem[s][k + n]
    BY <2>5
  <2>7. s = ValueSp /\ i \in Nat /\ HasPointers(s, k) /\ k + i \in k + 1 .. k + Size(s, k)
    BY <2>6 DEF SpaceOf, Ptr, HasPointers
  <2>8. u = mem[s][k + i]
    BY <2>4, <2>6, <2>7
  <2>9. SpaceOf(u) >= ValueSp
    BY <2>6, <2>7, <2>8 DEF HeapInv, PointersOK, ToBeForwarded
  <2>10. SpaceOf(u) \in Spaces
    BY <2>3, ObjectsValid DEF Valid
  <2> QED
    BY <1>1, <2>3, <2>9, <2>10 DEF ObjectsOf
<1>6. found \subseteq ObjectsOf(ValueSp)
  <2>1. ObjectsOf(ValueSp) \in SUBSET Objects /\ (result \in Objects => result \in ObjectsOf(ValueSp))
    BY <1>2 DEF ObjectsOf
  <2> QED
    BY <1>4, <1>5, <2>1
<1>7. RootsIn(found)
  <2> SUFFICES ASSUME NEW k \in DOMAIN fi.roots, NEW u, u = Current(args[fi.roots[k]]), IsPtr(u)
               PROVE  u \in found
    BY DEF RootsIn
  <2>1. fi.roots[k] = 1
    BY <1>1 DEF fake_fi
  <2>2. u = args[1]
    BY <2>1, CurrentSame
  <2>3. u = result
    BY <2>2 DEF AnswerInv, AnswerReturned
  <2>4. Known(u) /\ Plain(u)
    BY <1>1, <2>1, <2>2 DEF HeapInv, RootsOK, Known, WordsPlain
  <2>5. u \in Objects
    BY <2>2, <2>4, CurrentSame, CurrentObject
  <2> QED
    BY <1>4, <2>3, <2>5
<1>8. ObjectsOf(ValueSp) \subseteq found
  BY <1>1, <1>4, <1>7 DEF InEveryClosed, Closed
<1> QED
  BY <1>6, <1>8

\* export, for every program that keeps to gc.h: the block it returns has no word that
\* is not of an object the answer leads to, and nothing in it leads out of it.
THEOREM ExportAlwaysCompact == AnySpec => []ExportIsCompact
<1>1. AnyInit => WordsPlain /\ CopiedLive /\ AnswerInv /\ CompactInv
  BY InitPlain DEF AnyInit, CopiedLive, AnswerInv, ExportRoots, AnswerFirst, AnswerReturned,
                   Exporting, CompactInv
<1>2. IInv => HeapInv /\ Bookkeeping
  BY BookkeepingHolds DEF IInv
<1>3. IInv' => HeapInv' /\ Bookkeeping'
  BY <1>2, PTL
<1>4. /\ IInv /\ WordsPlain /\ CopiedLive /\ AnswerInv /\ CompactInv /\ [AnyNext]_vars /\ IInv'
      => WordsPlain' /\ CopiedLive' /\ AnswerInv' /\ CompactInv'
  BY <1>2, <1>3, NextPlain, CopiedLiveKept, AnswerKept, CompactKept
<1>5. IInv /\ WordsPlain /\ AnswerInv /\ CompactInv => ExportIsCompact
  <2> SUFFICES ASSUME HeapInv, Bookkeeping, WordsPlain, AnswerInv, CompactInv, pc = "exported",
                      IsPtr(result)
               PROVE  ExportIsCompact
    BY <1>2 DEF ExportIsCompact
  <2> DEFINE Words(v) == IndexOf(v) - 1 .. IndexOf(v) - 1 + Wosize(mem, v)
  <2>1. PICK found : found = ObjectsFrom(<<result>>)
    OBVIOUS
  <2>2. Items(found) = ObjectsOf(ValueSp)
    BY <2>1, BlockFound
  <2>3. /\ next[ValueSp] = Len(mem[ValueSp]) /\ Covered(ValueSp) /\ ValueSp \in Spaces
        /\ ValueSp # 0 /\ Len(mem[ValueSp]) \in Nat
        /\ DOMAIN mem[ValueSp] = 1 .. Len(mem[ValueSp])
    BY SpaceNumbers, WordIndex DEF CompactInv, HeapInv
  <2>4. ASSUME NEW i \in DOMAIN mem[ValueSp]
        PROVE  \E k \in DOMAIN found : i \in Words(found[k])
    <3>1. PICK j \in Headers(ValueSp) : i \in j .. j + Size(ValueSp, j)
      BY <2>3 DEF Covered
    <3>2. PICK v : v = Ptr(ValueSp, j + 1)
      OBVIOUS
    <3>3. mem[ValueSp][j] # ZeroHeader /\ j \in Nat
      BY <2>3, WordIndex DEF HeapInv, ObjectsOK
    <3>4. v \in ObjectsOf(ValueSp)
      BY <2>3, <3>2, <3>3, HeaderObject DEF ObjectsOf
    <3>5. PICK k \in DOMAIN found : found[k] = v
      BY <2>2, <3>4 DEF Items
    <3>6. IndexOf(v) - 1 = j /\ Wosize(mem, v) = Size(ValueSp, j)
      <4>1. IndexOf(v) = j + 1 /\ SpaceOf(v) = ValueSp /\ (j + 1) - 1 = j
        BY <3>2, <3>3 DEF IndexOf, SpaceOf, Ptr
      <4> QED
        BY <4>1 DEF Wosize, Hd_val, Size
    <3> QED
      BY <3>1, <3>5, <3>6
  <2>5. ASSUME NEW k \in DOMAIN found
        PROVE  SpaceOf(found[k]) = ValueSp /\ Words(found[k]) \subseteq DOMAIN mem[ValueSp]
    <3>1. PICK v : v = found[k] /\ v \in Objects /\ SpaceOf(v) = ValueSp
      BY <2>2 DEF Items, ObjectsOf
    <3>2. PICK s \in Spaces : \E j \in Headers(s) :
              v = Ptr(s, j + 1) /\ j \in Nat /\ Wosize(mem, v) = Size(s, j)
      BY <3>1, ObjectsHave
    <3>3. PICK j \in Headers(ValueSp) :
              v = Ptr(ValueSp, j + 1) /\ j \in Nat /\ Wosize(mem, v) = Size(ValueSp, j)
      BY <3>1, <3>2 DEF SpaceOf, Ptr
    <3>4. PICK sz : sz = Size(ValueSp, j) /\ sz \in Nat /\ j + sz <= Len(mem[ValueSp]) /\ j >= 1
      BY <2>3, WordIndex DEF HeapInv, ObjectsOK, InUse
    <3>5. Words(v) = j .. j + sz
      <4>1. IndexOf(v) = j + 1 /\ (j + 1) - 1 = j
        BY <3>3 DEF IndexOf, Ptr
      <4> QED
        BY <3>3, <3>4, <4>1
    <3>6. j .. j + sz \subseteq 1 .. Len(mem[ValueSp])
      BY <2>3, <3>3, <3>4
    <3>7. Words(v) \subseteq DOMAIN mem[ValueSp]
      BY <2>3, <3>5, <3>6
    <3>8. Words(found[k]) = Words(v)
      BY <3>1
    <3> HIDE DEF Words
    <3> QED
      BY <3>1, <3>7, <3>8
  <2>6. DOMAIN mem[ValueSp] = UNION {Words(found[k]) : k \in DOMAIN found}
    BY <2>4, <2>5
  <2> QED
    BY <2>1, <2>5, <2>6 DEF ExportIsCompact
<1> QED
  BY <1>1, <1>4, <1>5, HeapWellFormed, PTL DEF AnySpec

-----------------------------------------------------------------------------
(* Facts of objects, kept while the objects move. *)

\* The fields of an object, with what they hold in the middle of a copy.
At(v, i) == Current(Field(mem, v, i))

\* What a field holds after a step of the collector.
LEMMA AtAfter ==
    ASSUME HeapInv, Bookkeeping, AnyNext, CollectorRuns, NEW v \in Objects, Survives(v),
           NEW c, c = Current(v)', ~ No_scan(Tag_hd(Hd_val(mem, v))),
           NEW j \in 0 .. Wosize(mem, v) - 1, Wosize(mem, v) \in Nat
    PROVE  Becomes(At(v, j), At(c, j)')
<1>1. PICK i : i = j + 1 /\ i \in 1 .. Wosize(mem, v) /\ i - 1 = j
  OBVIOUS
<1>2. PICK u : u = At(v, j)
  OBVIOUS
<1>3. u = Current(Field(mem, v, i - 1))
  BY <1>1, <1>2 DEF At
<1>4. Becomes(u, Current(Field(mem, Current(v), i - 1))')
  BY <1>1, <1>3, ObjectPreserved DEF Preserved
<1>5. PICK y : y = Field(mem', c, i - 1)
  OBVIOUS
<1>6. Current(Field(mem, Current(v), i - 1))' = Current(y)'
  BY <1>5, ReadAfter
<1>7. Current(y)' = At(c, j)'
  BY <1>1, <1>5 DEF At
<1> QED
  BY <1>2, <1>4, <1>6, <1>7

\* after holds the facts of before, of the same objects where they are after the step.
Carries(before, after) ==
    /\ \A v \in DOMAIN before : Survives(v) => \A c : c = Current(v)' =>
           c \in DOMAIN after /\ after[c] = before[v] /\ Hd_val(mem', c) = Hd_val(mem, v)
    /\ DOMAIN after \subseteq Objects'

\* And no others.
MovedTo(before, after) ==
    /\ Carries(before, after)
    /\ \A c \in DOMAIN after : \E v \in DOMAIN before : Survives(v) /\ c = Current(v)'

LEMMA FactsMove ==
    ASSUME HeapInv, Bookkeeping, AnyNext, CollectorRuns, HeapInv', Bookkeeping',
           NEW before, DOMAIN before \subseteq Objects
    PROVE  \E after : MovedTo(before, after)
<1>1. PICK D : D = {v \in DOMAIN before : Survives(v)}
  OBVIOUS
<1>2. PICK E : E = {Current(v)' : v \in D}
  OBVIOUS
<1>3. PICK after : after = [c \in E |-> before[CHOOSE v \in D : Current(v)' = c]]
  OBVIOUS
<1>4. ASSUME NEW v \in DOMAIN before, Survives(v), NEW c, c = Current(v)'
      PROVE  /\ c \in DOMAIN after /\ after[c] = before[v]
             /\ Hd_val(mem', c) = Hd_val(mem, v)
  <2>1. v \in D /\ c \in E
    BY <1>1, <1>2, <1>4
  <2>2. PICK w : w = (CHOOSE x \in D : Current(x)' = c) /\ w \in D /\ Current(w)' = c
    BY <1>4, <2>1
  <2>3. w = v
    BY <1>1, <1>4, <2>1, <2>2, ObjectsInjective
  <2>4. Hd_val(mem', c) = Hd_val(mem, v)
    <3>1. Hd_val(mem, Current(v))' = Hd_val(mem, v)
      BY <1>4, ObjectPreserved DEF Preserved
    <3> QED
      BY <1>4, <3>1, ReadAfter
  <2> QED
    BY <1>3, <2>1, <2>2, <2>3, <2>4
<1>5. ASSUME NEW c \in DOMAIN after
      PROVE  c \in Objects' /\ \E v \in DOMAIN before : Survives(v) /\ c = Current(v)'
  <2>1. PICK v \in D : c = Current(v)'
    BY <1>2, <1>3, <1>5
  <2>2. v \in Objects /\ Survives(v)
    BY <1>1, <2>1
  <2> QED
    BY <1>1, <2>1, <2>2, SurvivorsLand
<1> QED
  BY <1>4, <1>5 DEF MovedTo, Carries

LEMMA UnboxedStays ==
    ASSUME NEW u, ~ IsPtr(u), NEW w, Becomes(u, w) PROVE w = u
  BY DEF Becomes, Current

LEMMA ObjectSound ==
    ASSUME HeapInv, Bookkeeping, NEW v \in Objects PROVE Sound(v) /\ IsPtr(v) /\ v[1] # "long"
<1>1. v \in Pointers /\ Valid(v) /\ IsPtr(v)
  BY ObjectsValid, PointersAre
<1> QED
  BY <1>1 DEF Sound, Word, IsPtr, IsHeader

LEMMA CurrentHere == ASSUME pc # "copying" PROVE \A x : Current(x) = x
  BY DEF Current

LEMMA CurrentThere == ASSUME pc' # "copying" PROVE \A x : Current(x)' = x
  BY DEF Current


-----------------------------------------------------------------------------
(* Values that stand for trees: a leaf is an integer, a node an object of   *)
(* two fields.                                                              *)

\* The word w stands for a tree; its level, if it is an object, is less than n.
Mean(fact, w, tree, n) ==
    \/ w \in DOMAIN fact /\ fact[w].tree = tree /\ fact[w].level < n
    \/ \E k \in Nat : w = Long(k) /\ tree = <<"leaf", k>>

\* What fact says of the object v is so.
PairIs(fact, v) ==
    /\ fact[v].level \in Nat
    /\ \E t \in Nat : \E l, r :
           /\ ~ No_scan(t) /\ Hd_val(mem, v) = Header(2, t)
           /\ fact[v].tree = <<"node", t, <<l, r>>>>
           /\ Mean(fact, At(v, 0), l, fact[v].level)
           /\ Mean(fact, At(v, 1), r, fact[v].level)

Pairs(fact) == DOMAIN fact \subseteq Objects /\ \A v \in DOMAIN fact : PairIs(fact, v)

\* All p in P are words and trees they stand for.
Explained(P, n) ==
    \E fact : Pairs(fact) /\ \A p \in P : Mean(fact, Current(p[1]), p[2], n)

LEMMA PairHeaders ==
    ASSUME NEW t \in Nat
    PROVE  /\ IsHeader(Header(2, t)) /\ Wosize_hd(Header(2, t)) = 2
           /\ Tag_hd(Header(2, t)) = t /\ Header(2, t) # ZeroHeader
  BY DEF Header, ZeroHeader, IsHeader, Wosize_hd, Tag_hd

LEMMA LongIsNoPointer == \A k : ~ IsPtr(Long(k)) /\ ~ IsHeader(Long(k)) /\ Sound(Long(k))
  BY DEF IsPtr, Long, IsHeader, Sound, Word

LEMMA NothingExplained ==
    ASSUME NEW n PROVE Explained({}, n)
<1>1. PICK fact : fact = [v \in {} |-> v]
  OBVIOUS
<1>2. Pairs(fact)
  BY <1>1 DEF Pairs
<1> QED
  BY <1>2 DEF Explained

LEMMA MeanMore ==
    ASSUME NEW fact, Pairs(fact), NEW w, NEW tree, NEW n \in Nat, NEW m \in Nat, n <= m,
           Mean(fact, w, tree, n)
    PROVE  Mean(fact, w, tree, m)
  BY DEF Mean, Pairs, PairIs

LEMMA ExplainedLess ==
    ASSUME NEW P, NEW n \in Nat, Explained(P, n), NEW Q, Q \subseteq P, NEW m \in Nat, n <= m
    PROVE  Explained(Q, m)
<1>1. PICK fact : Pairs(fact) /\ \A p \in P : Mean(fact, Current(p[1]), p[2], n)
  BY DEF Explained
<1>2. \A p \in Q : Mean(fact, Current(p[1]), p[2], m)
  BY <1>1, MeanMore
<1> QED
  BY <1>1, <1>2 DEF Explained

\* A value that stands for a tree is one that a mutator may store.
LEMMA ExplainedSound ==
    ASSUME HeapInv, Bookkeeping, pc # "copying", NEW P, NEW n, Explained(P, n), NEW p \in P
    PROVE  Sound(p[1])
<1>1. PICK fact : Pairs(fact) /\ Mean(fact, Current(p[1]), p[2], n)
  BY DEF Explained
<1>2. Mean(fact, p[1], p[2], n)
  BY <1>1, CurrentHere
<1> QED
  BY <1>1, <1>2, ObjectSound, LongIsNoPointer DEF Mean, Pairs

-----------------------------------------------------------------------------
(* What the collector does to them. *)

LEMMA MeanMoved ==
    ASSUME HeapInv, Bookkeeping, NEW before, DOMAIN before \subseteq Objects,
           NEW after, Carries(before, after), NEW u, NEW w, Becomes(u, w),
           NEW tree, NEW n, Mean(before, u, tree, n)
    PROVE  Mean(after, w, tree, n)
<1>1. CASE u \in DOMAIN before
  <2>1. IsPtr(u)
    BY <1>1, ObjectsValid, PointersAre
  <2>2. w \in DOMAIN after /\ after[w] = before[u]
    BY <1>1, <2>1 DEF Becomes, Carries
  <2>3. before[u].tree = tree /\ before[u].level < n
    <3>1. \A k : u # Long(k)
      BY <2>1, LongIsNoPointer
    <3> QED
      BY <3>1 DEF Mean
  <2> QED
    BY <2>2, <2>3 DEF Mean
<1>2. CASE u \notin DOMAIN before
  <2>1. PICK k \in Nat : u = Long(k) /\ tree = <<"leaf", k>>
    BY <1>2 DEF Mean
  <2>2. w = u
    BY <2>1, LongIsNoPointer, UnboxedStays
  <2> QED
    BY <2>1, <2>2 DEF Mean
<1> QED
  BY <1>1, <1>2

LEMMA PairsMoved ==
    ASSUME HeapInv, Bookkeeping, AnyNext, CollectorRuns, HeapInv', Bookkeeping',
           NEW before, Pairs(before), NEW after, MovedTo(before, after)
    PROVE  Pairs(after)'
<1>1. DOMAIN before \subseteq Objects /\ DOMAIN after \subseteq Objects' /\ Carries(before, after)
  BY DEF Pairs, MovedTo, Carries
<1> SUFFICES ASSUME NEW c \in DOMAIN after PROVE PairIs(after, c)'
  BY <1>1 DEF Pairs
<1>2. PICK v \in DOMAIN before : Survives(v) /\ c = Current(v)'
  BY DEF MovedTo
<1>3. /\ after[c] = before[v] /\ v \in Objects /\ Hd_val(mem', c) = Hd_val(mem, v)
  BY <1>1, <1>2 DEF Carries
<1>4. PICK t, l, r :
           /\ t \in Nat /\ ~ No_scan(t) /\ Hd_val(mem, v) = Header(2, t)
           /\ before[v].level \in Nat
           /\ before[v].tree = <<"node", t, <<l, r>>>>
           /\ Mean(before, At(v, 0), l, before[v].level)
           /\ Mean(before, At(v, 1), r, before[v].level)
  BY DEF Pairs, PairIs
<1>5. Wosize(mem, v) = 2 /\ ~ No_scan(Tag_hd(Hd_val(mem, v)))
  BY <1>4, PairHeaders DEF Wosize
<1>6. ASSUME NEW j \in {0, 1} PROVE Becomes(At(v, j), At(c, j)')
  <2>1. j \in 0 .. Wosize(mem, v) - 1 /\ Wosize(mem, v) \in Nat
    BY <1>5
  <2> QED
    BY <1>2, <1>3, <1>5, <2>1, AtAfter
<1>7. PICK a, b : a = At(c, 0)' /\ b = At(c, 1)'
  OBVIOUS
<1>8. Mean(after, a, l, after[c].level) /\ Mean(after, b, r, after[c].level)
  BY <1>1, <1>3, <1>4, <1>6, <1>7, MeanMoved
<1>9. Mean(after, At(c, 0), l, after[c].level)' /\ Mean(after, At(c, 1), r, after[c].level)'
  BY <1>7, <1>8 DEF Mean
<1> QED
  BY <1>3, <1>4, <1>9 DEF PairIs

\* A step of the collector: what the roots stand for they stand for after it.
LEMMA RootsExplained ==
    ASSUME HeapInv, Bookkeeping, AnyNext, CollectorRuns, fi' = fi, HeapInv', Bookkeeping',
           NEW P, NEW n, Explained(P, n), NEW Q,
           \A q \in Q : \E k \in DOMAIN fi.roots :
               q[1] = args'[fi.roots[k]] /\ <<args[fi.roots[k]], q[2]>> \in P
    PROVE  Explained(Q, n)'
<1>1. PICK before : Pairs(before) /\ \A p \in P : Mean(before, Current(p[1]), p[2], n)
  BY DEF Explained
<1>2. DOMAIN before \subseteq Objects
  BY <1>1 DEF Pairs
<1>3. PICK after : MovedTo(before, after)
  BY <1>2, FactsMove
<1>4. Pairs(after)' /\ Carries(before, after)
  BY <1>1, <1>3, PairsMoved DEF MovedTo
<1>5. ASSUME NEW q \in Q PROVE Mean(after, Current(q[1]), q[2], n)'
  <2>1. PICK k \in DOMAIN fi.roots :
            q[1] = args'[fi.roots[k]] /\ <<args[fi.roots[k]], q[2]>> \in P
    BY <1>5
  <2>2. PICK u, w : u = Current(args[fi.roots[k]]) /\ w = Current(args[fi.roots[k]])'
    OBVIOUS
  <2>3. Becomes(u, w)
    BY <2>2, RootsBecome
  <2>4. Mean(before, u, q[2], n)
    <3>1. PICK p : p = <<args[fi.roots[k]], q[2]>> /\ p \in P
      BY <2>1
    <3>2. p[1] = args[fi.roots[k]] /\ p[2] = q[2]
      BY <3>1
    <3> QED
      BY <1>1, <2>2, <3>1, <3>2
  <2>5. Mean(after, w, q[2], n)
    BY <1>2, <1>4, <2>3, <2>4, MeanMoved
  <2>6. PICK y : y = q[1]
    OBVIOUS
  <2>7. w = Current(y)'
    <3>1. y = args[fi.roots[k]]'
      BY <2>1, <2>6
    <3> QED
      BY <2>2, <3>1
  <2>8. Mean(after, Current(y), q[2], n)'
    BY <2>5, <2>7 DEF Mean
  <2> QED
    BY <2>6, <2>8
<1> QED
  BY <1>4, <1>5 DEF Explained


-----------------------------------------------------------------------------
(* What a mutator does to them. *)

\* It stores values, and asks for other words than before, or for a collection.
Stores(P) ==
    /\ pc = "mutator" /\ pc' \in {"mutator", "garbage_collect"}
    /\ UNCHANGED <<mem, next, alloc, limit, gen, copyVars, result>>
    /\ budget' \in 0 .. MaxAllocs /\ alloc + budget' <= limit
    /\ fi' \in [num_allocs : 0 .. MaxAllocs, roots : Seq(ArgSlots)]
    /\ DOMAIN args' = ArgSlots
    /\ \A k \in ArgSlots : args'[k] = args[k] \/ \E p \in P : args'[k] = p[1]
    /\ \/ fi' = fi
       \/ \A k \in DOMAIN fi'.roots : \E p \in P : args'[fi'.roots[k]] = p[1]

LEMMA StoresBookkeeping ==
    ASSUME GP!IInv, NEW P, Stores(P) PROVE GP!IInv'
<1>1. /\ GenerationsPc = "mutator" /\ GenerationsPc' \in {"mutator", "garbage_collect"}
      /\ Requested' \in 0 .. MaxAllocs
      /\ UNCHANGED <<SpaceSizes, HeapState, NextSettled, alloc, limit, gen>>
      /\ budget' \in 0 .. MaxAllocs /\ alloc + budget' <= limit
  BY DEF Stores, GenerationsPc, Requested, SpaceSizes, HeapState, HeapExists, NextSettled,
         copyVars
<1>2. GP!TypeOK /\ GP!Grows /\ GP!Bounded /\ GP!Progress
  BY SMT DEF GP!IInv
<1>3. GP!TypeOK'
  BY <1>1, <1>2, SMT DEF GP!TypeOK, GP!Running, GP!Stopped
<1>4. GP!Grows'
  BY <1>1, <1>2, SMT DEF GP!Grows, GP!Exists, GP!AllEmpty
<1>5. GP!Bounded'
  BY <1>1, <1>2, SMT DEF GP!Bounded, GP!Running
<1>6. GP!Progress'
  BY <1>1, <1>2, SMT
  DEF GP!Progress, GP!FitsFrom, GP!EmptyBelow, GP!Fits, GP!Free, GP!Exists
<1>7. GP!AssertionsHold' /\ GP!RanOutOnlyWhenFull'
  BY <1>1, SMT DEF GP!AssertionsHold, GP!RanOutOnlyWhenFull
<1> QED
  BY <1>3, <1>4, <1>5, <1>6, <1>7, SMT DEF GP!IInv

LEMMA StoresHeap ==
    ASSUME HeapInv, Bookkeeping, Bookkeeping', NEW P, Stores(P), NEW n, Explained(P, n)
    PROVE  HeapInv' /\ \A v : PointsToObject(v) => PointsToObject(v)'
<1>1. /\ pc = "mutator" /\ pc' \in {"garbage_collect", "mutator"}
      /\ UNCHANGED <<mem, next, alloc, gen, result>> /\ DOMAIN args' = ArgSlots
      /\ fi' \in [num_allocs : 0 .. MaxAllocs, roots : Seq(ArgSlots)]
  BY DEF Stores
<1>2. ObjectsOK' /\ PointersOK' /\ \A v : PointsToObject(v) => PointsToObject(v)'
  BY <1>1, MemoryKept
<1>3. TypesOK'
  BY <1>1 DEF HeapInv, TypesOK
<1>4. ASSUME NEW p \in P, IsPtr(p[1]) PROVE PointsToObject(p[1])
  BY <1>1, <1>4, ExplainedSound, ValidPoints DEF Sound, HeapInv
<1>5. RootsOK'
  <2> SUFFICES ASSUME NEW k \in DOMAIN fi'.roots, NEW u, u = args'[fi'.roots[k]], IsPtr(u)
               PROVE  PointsToObject(u)'
    BY <1>1 DEF RootsOK
  <2>1. fi'.roots[k] \in ArgSlots
    BY <1>1
  <2>2. CASE \E p \in P : u = p[1]
    BY <1>2, <1>4, <2>2
  <2>3. CASE ~ \E p \in P : u = p[1]
    <3>1. fi' = fi /\ u = args[fi.roots[k]] /\ k \in DOMAIN fi.roots
      BY <2>1, <2>3 DEF Stores
    <3>2. PointsToObject(u)
      BY <3>1 DEF HeapInv, RootsOK
    <3> QED
      BY <1>2, <3>2
  <2> QED
    BY <2>2, <2>3
<1>6. SpacesOK'
  BY <1>1 DEF HeapInv, SpacesOK, Dead
<1> QED
  BY <1>1, <1>2, <1>3, <1>5, <1>6 DEF HeapInv, CopyOK

\* What values stand for does not change when nothing is written in memory.
LEMMA ExplainedStays ==
    ASSUME pc # "copying", pc' # "copying", UNCHANGED <<mem, next, alloc>>,
           NEW P, NEW n, Explained(P, n)
    PROVE  Explained(P, n)'
<1>1. PICK fact : Pairs(fact) /\ \A p \in P : Mean(fact, Current(p[1]), p[2], n)
  BY DEF Explained
<1>2. \A x, y : Current(x) = x /\ Current(x)' = x
  BY CurrentHere, CurrentThere
<1>3. \A v, i : At(v, i)' = At(v, i)
  BY <1>2 DEF At
<1>4. Objects' = Objects
  BY DEF Objects, ObjectsBetween, InUse
<1>5. Pairs(fact)'
  BY <1>1, <1>3, <1>4 DEF Pairs, PairIs, Mean
<1>6. \A p \in P : Mean(fact, Current(p[1]), p[2], n)'
  BY <1>1, <1>2 DEF Mean
<1> QED
  BY <1>5, <1>6 DEF Explained

LEMMA MutatorStores ==
    ASSUME IInv, NEW P, Stores(P), NEW n, Explained(P, n)
    PROVE  IInv' /\ \A Q, m : Explained(Q, m) => Explained(Q, m)'
<1>1. HeapInv /\ Bookkeeping /\ GP!IInv
  BY BookkeepingHolds DEF IInv
<1>2. GP!IInv' /\ Bookkeeping'
  BY <1>1, StoresBookkeeping, BookkeepingAfter
<1>3. HeapInv'
  BY <1>1, <1>2, StoresHeap
<1>4. ASSUME NEW Q, NEW m, Explained(Q, m) PROVE Explained(Q, m)'
  BY <1>4, ExplainedStays DEF Stores
<1> QED
  BY <1>2, <1>3, <1>4 DEF IInv

\* It makes an object of two values.
MakesPair(t, x, y) ==
    /\ pc = "mutator" /\ pc' = "mutator" /\ budget >= 3
    /\ mem' = [mem EXCEPT ![0] = [k \in DOMAIN @ |->
           IF k \in alloc + 1 .. alloc + 3 THEN <<Header(2, t), x, y>>[k - alloc] ELSE @[k]]]
    /\ alloc' = alloc + 3 /\ budget' = budget - 3
    /\ UNCHANGED <<next, args, limit, fi, gen, copyVars, result>>

LEMMA PairWrites ==
    ASSUME HeapInv, Bookkeeping, NEW t, NEW x, NEW y, MakesPair(t, x, y)
    PROVE  /\ alloc \in Nat /\ DOMAIN mem[0] = 1 .. Len(mem[0]) /\ alloc + 3 \in DOMAIN mem[0]
           /\ DOMAIN mem' = Spaces /\ \A s \in Spaces : s # 0 => mem'[s] = mem[s]
           /\ \A k \in DOMAIN mem[0] :
                  k \notin alloc + 1 .. alloc + 3 => mem'[0][k] = mem[0][k]
           /\ mem'[0][alloc + 1] = Header(2, t)
           /\ mem'[0][alloc + 2] = x /\ mem'[0][alloc + 3] = y
<1>1. /\ 0 \in Spaces /\ 0 \in Gens /\ Len(mem[0]) \in Nat /\ DOMAIN mem[0] = 1 .. Len(mem[0])
      /\ DOMAIN mem = Spaces
  BY SpaceNumbers, WordIndex DEF HeapInv, TypesOK, Gens
<1>2. alloc \in Nat /\ alloc + budget <= limit /\ budget \in Nat /\ limit \in Nat /\ budget >= 3
  BY DEF Bookkeeping, MakesPair
<1>3. limit = Len(mem[0])
  <2>1. GenerationsPc \in GP!Running
    BY SMT DEF GenerationsPc, MakesPair, GP!Running
  <2> QED
    BY <1>1, <2>1 DEF Bookkeeping, SpaceSizes
<1>4. alloc + 1 \in DOMAIN mem[0] /\ alloc + 2 \in DOMAIN mem[0] /\ alloc + 3 \in DOMAIN mem[0]
  BY <1>1, <1>2, <1>3
<1>5. PICK w : w = [k \in DOMAIN mem[0] |->
           IF k \in alloc + 1 .. alloc + 3 THEN <<Header(2, t), x, y>>[k - alloc] ELSE mem[0][k]]
  OBVIOUS
<1>6. mem' = [mem EXCEPT ![0] = w]
  BY <1>5 DEF MakesPair
<1>7. mem'[0] = w /\ DOMAIN mem' = Spaces /\ \A s \in Spaces : s # 0 => mem'[s] = mem[s]
  BY <1>1, <1>6
<1>8. w[alloc + 1] = Header(2, t) /\ w[alloc + 2] = x /\ w[alloc + 3] = y
  BY <1>2, <1>4, <1>5
<1> QED
  BY <1>1, <1>2, <1>4, <1>5, <1>7, <1>8

LEMMA PairBody ==
    ASSUME HeapInv, Bookkeeping, NEW t \in Nat, ~ No_scan(t), NEW x, Sound(x), NEW y, Sound(y),
           MakesPair(t, x, y)
    PROVE  AnyBody
<1>1. /\ alloc \in Nat /\ mem'[0][alloc + 1] = Header(2, t)
      /\ mem'[0][alloc + 2] = x /\ mem'[0][alloc + 3] = y
  BY PairWrites
<1>2. PICK hd : hd = mem'[0][alloc + 1]
  OBVIOUS
<1>3. IsHeader(hd) /\ Tag_hd(hd) = t /\ Wosize_hd(hd) = 2
  BY <1>1, <1>2, PairHeaders
<1>4. 2 \in 1 .. budget - 1 /\ budget > 1 /\ budget - 3 = budget - (1 + 2)
      /\ alloc + 3 = alloc + 1 + 2
  BY <1>1 DEF Bookkeeping, MakesPair
<1>5. ASSUME NEW i \in alloc + 2 .. alloc + 1 + 2 PROVE Sound(mem'[0][i])
  <2>1. i = alloc + 2 \/ i = alloc + 3
    BY <1>1
  <2> QED
    BY <1>1, <2>1
<1>6. mem' = [mem EXCEPT ![0] = [k \in DOMAIN @ |->
               IF k \in alloc + 1 .. alloc + 1 + 2 THEN mem'[0][k] ELSE @[k]]]
  <2>1. PICK w : w = [k \in DOMAIN mem[0] |->
           IF k \in alloc + 1 .. alloc + 3 THEN <<Header(2, t), x, y>>[k - alloc] ELSE mem[0][k]]
    OBVIOUS
  <2>2. mem' = [mem EXCEPT ![0] = w]
    BY <2>1 DEF MakesPair
  <2>3. mem'[0] = w
    BY <2>2, SpaceNumbers DEF HeapInv, TypesOK
  <2>4. w = [k \in DOMAIN mem[0] |->
               IF k \in alloc + 1 .. alloc + 1 + 2 THEN w[k] ELSE mem[0][k]]
    BY <1>4, <2>1
  <2> QED
    BY <2>2, <2>3, <2>4
<1>7. MakesObject
  <2>1. alloc' = alloc + 1 + 2 /\ budget' = budget - (1 + 2)
    BY <1>4 DEF MakesPair
  <2> QED
    BY <1>2, <1>3, <1>4, <1>5, <1>6, <2>1 DEF MakesObject, Sound
<1>8. StoreInArgs
  BY DEF StoreInArgs, MakesPair, HeapInv, TypesOK
<1> QED
  BY <1>4, <1>7, <1>8 DEF AnyBody, MakesPair

LEMMA PairKeeps ==
    ASSUME HeapInv, Bookkeeping, HeapInv', Bookkeeping', NEW t, NEW x, NEW y, MakesPair(t, x, y),
           NEW v \in Objects
    PROVE  /\ v \in Objects' /\ Hd_val(mem', v) = Hd_val(mem, v) /\ Wosize(mem, v) \in Nat
           /\ \A i \in 0 .. Wosize(mem, v) - 1 : Field(mem', v, i) = Field(mem, v, i)
<1>1. PICK s, j, sz : /\ s = SpaceOf(v) /\ j = IndexOf(v) /\ sz = Wosize(mem, v)
                      /\ s \in Spaces /\ j \in 2 .. InUse(s) + 1 /\ j - 1 + sz <= InUse(s)
                      /\ IsHeader(mem[s][j - 1]) /\ mem[s][j - 1] # ZeroHeader
  BY ObjectsValid DEF Valid, Hd_val
<1>2. sz \in Nat
  BY <1>1, ObjectsHave
<1>3. PICK u : u = InUse(s) /\ u \in Nat /\ InUse(s)' = (IF s = 0 THEN u + 3 ELSE u)
  <2>1. CASE s = 0
    BY <2>1, PairWrites DEF InUse, MakesPair
  <2>2. CASE s # 0
    BY <1>1, <2>2 DEF InUse, HeapInv, TypesOK, MakesPair
  <2> QED
    BY <2>1, <2>2
<1>4. j \in Nat /\ j \in 2 .. u + 1 /\ j - 1 + sz <= u
  BY <1>1, <1>3
<1>5. ASSUME NEW k \in 1 .. u PROVE mem'[s][k] = mem[s][k]
  <2>1. CASE s = 0
    <3>1. u = alloc /\ k \in DOMAIN mem[0] /\ k \notin alloc + 1 .. alloc + 3
      BY <1>3, <2>1, PairWrites DEF InUse
    <3> QED
      BY <2>1, <3>1, PairWrites
  <2>2. CASE s # 0
    BY <1>1, <2>2, PairWrites
  <2> QED
    BY <2>1, <2>2
<1>6. mem'[s][j - 1] = mem[s][j - 1]
  <2>1. j - 1 \in 1 .. u
    BY <1>4, <1>2, <1>3
  <2> QED
    BY <1>5, <2>1
<1>7. ASSUME NEW i \in 0 .. sz - 1 PROVE mem'[s][j + i] = mem[s][j + i]
  <2>1. j + i \in 1 .. u
    BY <1>4, <1>2, <1>3
  <2> QED
    BY <1>5, <2>1
<1>8. Valid(v)'
  <2>1. Hd_val(mem', v) = mem[s][j - 1] /\ Wosize(mem', v) = sz
    BY <1>1, <1>6 DEF Hd_val, Wosize
  <2>2. j \in 2 .. InUse(s)' + 1 /\ j - 1 + sz <= InUse(s)'
    BY <1>2, <1>3, <1>4
  <2> QED
    BY <1>1, <2>1, <2>2 DEF Valid
<1>9. v \in Objects'
  BY <1>8, ObjectsValid, ObjectsValidAfter
<1> QED
  BY <1>1, <1>2, <1>6, <1>7, <1>9 DEF Hd_val, Field

LEMMA PairIsThere ==
    ASSUME HeapInv, Bookkeeping, HeapInv', Bookkeeping', NEW t \in Nat, NEW x, NEW y,
           MakesPair(t, x, y), NEW new, new = Ptr(0, alloc + 2)
    PROVE  /\ new \notin Objects /\ new \in Objects' /\ Hd_val(mem', new) = Header(2, t)
           /\ Field(mem', new, 0) = x /\ Field(mem', new, 1) = y
<1>1. /\ alloc \in Nat /\ 0 \in Spaces /\ mem'[0][alloc + 1] = Header(2, t)
      /\ mem'[0][alloc + 2] = x /\ mem'[0][alloc + 3] = y /\ alloc' = alloc + 3
  <2>1. /\ alloc \in Nat /\ mem'[0][alloc + 1] = Header(2, t)
        /\ mem'[0][alloc + 2] = x /\ mem'[0][alloc + 3] = y
    BY PairWrites
  <2> QED
    BY <2>1, SpaceNumbers DEF MakesPair
<1>2. SpaceOf(new) = 0 /\ IndexOf(new) = alloc + 2 /\ new \in Pointers
  BY <1>1 DEF Ptr, SpaceOf, IndexOf, Pointers
<1>3. new \notin Objects
  BY <1>1, <1>2, ObjectsValid DEF Valid, InUse
<1>4. Hd_val(mem', new) = Header(2, t) /\ Field(mem', new, 0) = x /\ Field(mem', new, 1) = y
  BY <1>1, <1>2 DEF Hd_val, Field
<1>5. Valid(new)'
  <2>1. InUse(0)' = alloc + 3
    BY <1>1 DEF InUse
  <2>2. Wosize(mem', new) = 2 /\ IsHeader(Hd_val(mem', new)) /\ Hd_val(mem', new) # ZeroHeader
    BY <1>4, PairHeaders DEF Wosize
  <2> QED
    BY <1>1, <1>2, <2>1, <2>2 DEF Valid
<1> QED
  BY <1>2, <1>3, <1>4, <1>5, ObjectsValidAfter

LEMMA PairExplained ==
    ASSUME HeapInv, Bookkeeping, HeapInv', Bookkeeping', NEW t \in Nat, ~ No_scan(t),
           NEW x, NEW y, MakesPair(t, x, y), NEW P, NEW n \in Nat, Explained(P, n),
           NEW l, <<x, l>> \in P, NEW r, <<y, r>> \in P, NEW new, new = Ptr(0, alloc + 2)
    PROVE  Explained(P \cup {<<new, <<"node", t, <<l, r>>>>>>}, n + 1)'
<1>1. pc # "copying" /\ pc' # "copying"
  BY DEF MakesPair
<1>2. PICK before : Pairs(before) /\ \A p \in P : Mean(before, Current(p[1]), p[2], n)
  BY DEF Explained
<1>4. /\ new \notin Objects /\ new \in Objects' /\ Hd_val(mem', new) = Header(2, t)
      /\ Field(mem', new, 0) = x /\ Field(mem', new, 1) = y
  BY PairIsThere
<1>5. PICK after : after = [v \in DOMAIN before \cup {new} |->
          IF v = new THEN [tree |-> <<"node", t, <<l, r>>>>, level |-> n] ELSE before[v]]
  OBVIOUS
<1>6. /\ DOMAIN after = DOMAIN before \cup {new} /\ DOMAIN before \subseteq Objects
      /\ new \notin DOMAIN before
      /\ after[new].tree = <<"node", t, <<l, r>>>> /\ after[new].level = n
      /\ \A v \in DOMAIN before : after[v] = before[v]
  BY <1>2, <1>4, <1>5 DEF Pairs
<1>7. \A w, tree, m : Mean(before, w, tree, m) => Mean(after, w, tree, m)
  BY <1>6 DEF Mean
<1>8. \A z : Current(z) = z /\ Current(z)' = z
  BY <1>1, CurrentHere, CurrentThere
<1>9. Mean(before, x, l, n) /\ Mean(before, y, r, n)
  <2>1. ASSUME NEW p \in P PROVE Mean(before, p[1], p[2], n)
    BY <1>2, <1>8
  <2>2. PICK p, q : p = <<x, l>> /\ q = <<y, r>>
    OBVIOUS
  <2>3. p \in P /\ q \in P /\ p[1] = x /\ p[2] = l /\ q[1] = y /\ q[2] = r
    BY <2>2
  <2> QED
    BY <2>1, <2>3
<1>10. PairIs(after, new)'
  <2>1. At(new, 0)' = x /\ At(new, 1)' = y
    BY <1>4, <1>8 DEF At
  <2>2. Mean(after, At(new, 0), l, n)' /\ Mean(after, At(new, 1), r, n)'
    BY <1>7, <1>9, <2>1 DEF Mean
  <2> QED
    BY <1>4, <1>6, <2>2 DEF PairIs
<1>11. ASSUME NEW v \in DOMAIN before PROVE v \in Objects' /\ PairIs(after, v)'
  <2>1. PICK m, a, b :
           /\ m \in Nat /\ ~ No_scan(m) /\ Hd_val(mem, v) = Header(2, m)
           /\ before[v].level \in Nat
           /\ before[v].tree = <<"node", m, <<a, b>>>>
           /\ Mean(before, At(v, 0), a, before[v].level)
           /\ Mean(before, At(v, 1), b, before[v].level)
    BY <1>2 DEF Pairs, PairIs
  <2>2. /\ v \in Objects' /\ Hd_val(mem', v) = Hd_val(mem, v)
        /\ \A i \in 0 .. Wosize(mem, v) - 1 : Field(mem', v, i) = Field(mem, v, i)
    BY <1>6, PairKeeps
  <2>3. Wosize(mem, v) = 2
    BY <2>1, PairHeaders DEF Wosize
  <2>4. At(v, 0)' = At(v, 0) /\ At(v, 1)' = At(v, 1)
    BY <1>8, <2>2, <2>3 DEF At
  <2>5. /\ Mean(after, At(v, 0), a, after[v].level)'
        /\ Mean(after, At(v, 1), b, after[v].level)'
    BY <1>6, <1>7, <2>1, <2>4 DEF Mean
  <2> QED
    BY <1>6, <2>1, <2>2, <2>5 DEF PairIs
<1>12. Pairs(after)'
  BY <1>4, <1>6, <1>10, <1>11 DEF Pairs
<1>13. ASSUME NEW p \in P PROVE Mean(after, Current(p[1]), p[2], n + 1)'
  <2>1. Mean(before, p[1], p[2], n)
    BY <1>2, <1>8
  <2>2. Mean(before, p[1], p[2], n + 1)
    BY <1>2, <2>1, MeanMore
  <2>3. Mean(after, p[1], p[2], n + 1)
    BY <1>7, <2>2
  <2> QED
    BY <1>8, <2>3 DEF Mean
<1>14. Mean(after, Current(new), <<"node", t, <<l, r>>>>, n + 1)'
  BY <1>6, <1>8 DEF Mean
<1>15. ASSUME NEW p \in P \cup {<<new, <<"node", t, <<l, r>>>>>>}
       PROVE  Mean(after, Current(p[1]), p[2], n + 1)'
  BY <1>13, <1>14
<1> QED
  BY <1>12, <1>15 DEF Explained

\* The step makes an object, of two values of P that stand for l and r; Q has it, too.
MakesNodeOf(t, x, y, l, r, P, n, Q, m) ==
    /\ t \in Nat /\ ~ No_scan(t) /\ MakesPair(t, x, y)
    /\ n \in Nat /\ m = n + 1 /\ Explained(P, n) /\ <<x, l>> \in P /\ <<y, r>> \in P
    /\ Q = P \cup {<<Ptr(0, alloc + 2), <<"node", t, <<l, r>>>>>>}

LEMMA MutatorMakesPair ==
    ASSUME IInv, NEW t, NEW x, NEW y, NEW l, NEW r, NEW P, NEW n, NEW Q, NEW m,
           MakesNodeOf(t, x, y, l, r, P, n, Q, m)
    PROVE  IInv' /\ Explained(Q, m)'
<1> USE DEF MakesNodeOf
<1>1. HeapInv /\ Bookkeeping
  BY BookkeepingHolds DEF IInv
<1>2. Sound(x) /\ Sound(y)
  <2>1. pc # "copying"
    BY DEF MakesPair
  <2>2. PICK p, q : p = <<x, l>> /\ q = <<y, r>>
    OBVIOUS
  <2>3. p \in P /\ q \in P /\ p[1] = x /\ q[1] = y
    BY <2>2
  <2> QED
    BY <1>1, <2>1, <2>3, ExplainedSound
<1>3. AnyBody
  BY <1>1, <1>2, PairBody
<1>4. IInv'
  BY <1>3, NextInv DEF AnyNext
<1>5. HeapInv' /\ Bookkeeping'
  BY <1>4, BookkeepingAfter DEF IInv
<1>6. PICK new : new = Ptr(0, alloc + 2)
  OBVIOUS
<1>7. Q = P \cup {<<new, <<"node", t, <<l, r>>>>>>}
  BY <1>6
<1>8. Explained(P \cup {<<new, <<"node", t, <<l, r>>>>>>}, n + 1)'
  BY <1>1, <1>5, <1>6, PairExplained
<1> QED
  BY <1>4, <1>7, <1>8

LEMMA LeafExplained ==
    ASSUME NEW P, NEW n, Explained(P, n), NEW k \in Nat
    PROVE  Explained(P \cup {<<Long(k), <<"leaf", k>>>>}, n)
<1>1. PICK fact : Pairs(fact) /\ \A p \in P : Mean(fact, Current(p[1]), p[2], n)
  BY DEF Explained
<1>2. Current(Long(k)) = Long(k)
  BY LongIsNoPointer DEF Current
<1>3. Mean(fact, Current(Long(k)), <<"leaf", k>>, n)
  BY <1>2 DEF Mean
<1>4. \A p \in P \cup {<<Long(k), <<"leaf", k>>>>} : Mean(fact, Current(p[1]), p[2], n)
  BY <1>1, <1>3
<1> QED
  BY <1>1, <1>4 DEF Explained

\* Outside of a copy, v is an object and one of the values of P, and i one of its fields.
HoldsNode(P, n, v, tree, i) ==
    /\ pc # "copying" /\ n \in Nat /\ Explained(P, n)
    /\ <<v, tree>> \in P /\ IsPtr(v) /\ i \in {1, 2}

\* A field of a node stands for its kid.
LEMMA FieldExplained ==
    ASSUME NEW P, NEW n, NEW v, NEW tree, NEW i, HoldsNode(P, n, v, tree, i)
    PROVE  Explained(P \cup {<<Field(mem, v, i - 1), tree[3][i]>>}, n)
<1> USE DEF HoldsNode
<1>1. PICK fact : Pairs(fact) /\ \A p \in P : Mean(fact, Current(p[1]), p[2], n)
  BY DEF Explained
<1>2. \A z : Current(z) = z
  BY CurrentHere
<1>3. Mean(fact, v, tree, n)
  <2>1. PICK p : p = <<v, tree>> /\ p \in P /\ p[1] = v /\ p[2] = tree
    OBVIOUS
  <2> QED
    BY <1>1, <1>2, <2>1
<1>4. v \in DOMAIN fact /\ fact[v].tree = tree /\ fact[v].level < n
  BY <1>3, LongIsNoPointer DEF Mean
<1>5. PICK t, l, r :
           /\ fact[v].level \in Nat /\ tree = <<"node", t, <<l, r>>>>
           /\ Mean(fact, At(v, 0), l, fact[v].level)
           /\ Mean(fact, At(v, 1), r, fact[v].level)
  BY <1>1, <1>4 DEF Pairs, PairIs
<1>6. Mean(fact, Field(mem, v, i - 1), tree[3][i], fact[v].level)
  <2>1. tree[3] = <<l, r>>
    BY <1>5
  <2>2. CASE i = 1
    BY <1>2, <1>5, <2>1, <2>2 DEF At
  <2>3. CASE i = 2
    BY <1>2, <1>5, <2>1, <2>3 DEF At
  <2> QED
    BY <2>2, <2>3
<1>7. Mean(fact, Field(mem, v, i - 1), tree[3][i], n)
  BY <1>1, <1>4, <1>5, <1>6, MeanMore
<1>8. \A p \in P \cup {<<Field(mem, v, i - 1), tree[3][i]>>} :
          Mean(fact, Current(p[1]), p[2], n)
  BY <1>1, <1>2, <1>7
<1> QED
  BY <1>1, <1>8 DEF Explained

\* What a program reads of a value that stands for a tree.
PairReads(fact, v) ==
    /\ fact[v].level \in Nat
    /\ \E t, l, r :
        /\ IsPtr(v) /\ v \in Pointers /\ IndexOf(v) - 1 \in DOMAIN mem[SpaceOf(v)]
        /\ IndexOf(v) + 1 <= Len(mem[SpaceOf(v)])
        /\ Hd_val(mem, v) = Header(2, t) /\ fact[v].tree = <<"node", t, <<l, r>>>>
        /\ Mean(fact, Field(mem, v, 0), l, fact[v].level)
        /\ Mean(fact, Field(mem, v, 1), r, fact[v].level)

LEMMA ExplainedReads ==
    ASSUME HeapInv, Bookkeeping, pc # "copying", NEW P, NEW n, Explained(P, n)
    PROVE  \E fact : /\ \A v \in DOMAIN fact : PairReads(fact, v)
                     /\ \A p \in P : Mean(fact, p[1], p[2], n)
<1>1. PICK fact : Pairs(fact) /\ \A p \in P : Mean(fact, Current(p[1]), p[2], n)
  BY DEF Explained
<1>2. \A x : Current(x) = x
  BY CurrentHere
<1>3. ASSUME NEW v \in DOMAIN fact PROVE PairReads(fact, v)
  <2>1. PICK t, l, r :
           /\ t \in Nat /\ Hd_val(mem, v) = Header(2, t) /\ fact[v].level \in Nat
           /\ fact[v].tree = <<"node", t, <<l, r>>>>
           /\ Mean(fact, At(v, 0), l, fact[v].level)
           /\ Mean(fact, At(v, 1), r, fact[v].level)
    BY <1>1 DEF Pairs, PairIs
  <2>2. At(v, 0) = Field(mem, v, 0) /\ At(v, 1) = Field(mem, v, 1)
    BY <1>2 DEF At
  <2>3. v \in Pointers /\ Valid(v) /\ IsPtr(v)
    BY <1>1, ObjectsValid, PointersAre DEF Pairs
  <2>4. Wosize(mem, v) = 2
    BY <2>1, PairHeaders DEF Wosize
  <2>5. PICK s, j : s = SpaceOf(v) /\ j = IndexOf(v) /\ s \in Spaces
                    /\ j \in 2 .. InUse(s) + 1 /\ j + 1 <= InUse(s)
    BY <2>3, <2>4 DEF Valid
  <2>6. InUse(s) <= Len(mem[s]) /\ DOMAIN mem[s] = 1 .. Len(mem[s]) /\ InUse(s) \in Nat
        /\ Len(mem[s]) \in Nat
    <3>1. InUse(s) \in Nat
      BY <2>5 DEF InUse, Bookkeeping, HeapInv, TypesOK
    <3> QED
      BY <2>5, <3>1, WordIndex DEF HeapInv, TypesOK, ObjectsOK
  <2>7. j - 1 \in DOMAIN mem[s] /\ j + 1 <= Len(mem[s])
    BY <2>5, <2>6
  <2> QED
    BY <2>1, <2>2, <2>3, <2>5, <2>7 DEF PairReads
<1> QED
  BY <1>1, <1>2, <1>3

LEMMA ExplainedSame ==
    ASSUME UNCHANGED vars, NEW P, NEW n, Explained(P, n)
    PROVE  Explained(P, n)'
<1>1. PICK fact : Pairs(fact) /\ \A p \in P : Mean(fact, Current(p[1]), p[2], n)
  BY DEF Explained
<1>2. \A x : Current(x)' = Current(x)
  BY DEF Current, vars
<1>3. \A v, i : At(v, i)' = At(v, i)
  <2>1. \A v, i : Field(mem, v, i)' = Field(mem, v, i)
    BY DEF Field, vars
  <2>2. ASSUME NEW v, NEW i PROVE At(v, i)' = At(v, i)
    <3>1. PICK y : y = Field(mem, v, i)
      OBVIOUS
    <3>2. At(v, i) = Current(y) /\ At(v, i)' = Current(y)'
      BY <2>1, <3>1 DEF At
    <3> QED
      BY <1>2, <3>2
  <2> QED
    BY <2>2
<1>4. Objects' = Objects
  BY DEF Objects, ObjectsBetween, InUse, vars
<1>5. Pairs(fact)'
  BY <1>1, <1>3, <1>4 DEF Pairs, PairIs, Mean, vars
<1>6. \A p \in P : Mean(fact, Current(p[1]), p[2], n)'
  BY <1>1, <1>2 DEF Mean
<1> QED
  BY <1>5, <1>6 DEF Explained
=============================================================================
