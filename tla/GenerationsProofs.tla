------------------------- MODULE GenerationsProofs -------------------------
(***************************************************************************)
(* The safety properties of module Generations, proved for every number of *)
(* generations, nursery size, growth ratio and bound on requests.          *)
(***************************************************************************)
EXTENDS Generations, TLAPS

\* Spaces are created youngest first and never shrink with age.
Grows ==
    /\ heap = "null" => size = AllEmpty
    /\ heap # "null" => Exists(0)
    /\ \A i \in 0 .. MAX_SPACES - 2 :
           Exists(i + 1) => Exists(i) /\ size[i] <= size[i + 1]

\* No space is overfull, and the nursery is the mutator's up to limit.
Bounded ==
    /\ \A i \in Gens : next[i] <= size[i]
    /\ alloc + budget <= limit
    /\ pc \in Running => limit = size[0]

\* The spaces from g on can take one full copy of the one before.
FitsFrom(g) == \A i \in 0 .. MAX_SPACES - 2 : i >= g /\ Exists(i + 1) => Fits(i)

\* The spaces younger than g have been copied out.
EmptyBelow(g) == \A i \in Gens : i < g => next[i] = 0

\* A collection has reached generation gen: what is behind it is empty, what
\* is ahead of it is as the mutator left it.
Progress ==
    /\ pc \in {"mutator", "garbage_collect", "compact"} => FitsFrom(0)
    /\ pc \in {"collect", "collect_all", "export"} =>
           heap = "live" /\ Exists(gen) /\ FitsFrom(gen) /\ EmptyBelow(gen)
    /\ pc = "collect" /\ gen = 0 => next[0] = alloc
    /\ pc = "collect" /\ gen > 0 => size[gen - 1] > Free(gen)

IInv ==
    /\ TypeOK
    /\ Grows
    /\ Bounded
    /\ Progress
    /\ AssertionsHold
    /\ RanOutOnlyWhenFull

-----------------------------------------------------------------------------
\* Emptying one entry of a function and adding to another.
LEMMA EntriesMoved ==
    ASSUME NEW S, NEW f \in [S -> Nat], NEW a \in S, NEW b \in S, a # b,
           NEW k \in Nat
    PROVE  LET g == [f EXCEPT ![a] = 0, ![b] = @ + k] IN
           /\ g \in [S -> Nat]
           /\ g[a] = 0 /\ g[b] = f[b] + k
           /\ \A i \in S : i # a /\ i # b => g[i] = f[i]
<1>1. f[b] + k \in Nat
  OBVIOUS
<1> QED
  BY <1>1

\* A space is at most as large as the one create_space makes after it.
LEMMA RatioGrows == \A w \in Nat : RATIO * w \in Nat /\ w <= RATIO * w
<1> TAKE w \in Nat
<1>1. RATIO \in Nat /\ RATIO >= 1
  BY RatioAssumption
<1>2. RATIO * w \in Nat
  BY <1>1
<1>3. RATIO * w = (RATIO - 1) * w + w
  BY <1>1
<1>4. RATIO - 1 \in Nat /\ (RATIO - 1) * w \in Nat
  BY <1>1
<1> QED
  BY <1>2, <1>3, <1>4

-----------------------------------------------------------------------------
LEMMA InitIInv == Init => IInv
  BY MaxSpacesAssumption, NurseryAssumption, MaxAllocsAssumption
  DEF Init, IInv, TypeOK, Grows, Bounded, Progress, FitsFrom, Fits, Free, Exists,
      NurseryOnly, AllEmpty, Gens, Running, Stopped, AssertionsHold,
      RanOutOnlyWhenFull

\* The mutator, and what a main program calls between two executions of it.
LEMMA MutatorStep == IInv /\ Mutate => IInv'
<1> SUFFICES ASSUME IInv, Mutate PROVE IInv'
  OBVIOUS
<1> USE MaxSpacesAssumption, MaxAllocsAssumption
<1> USE DEF IInv, TypeOK, Grows, Bounded, Progress, FitsFrom, Fits, Free, Exists,
            EmptyBelow, Gens, Running, Stopped, AssertionsHold, RanOutOnlyWhenFull
<1>1. ASSUME NEW n \in 0 .. MAX_ALLOCS, Check(n) PROVE IInv'
  BY <1>1 DEF Check, Short
<1>2. ASSUME NEW words \in 1 .. MAX_ALLOCS, Allocate(words) PROVE IInv'
  BY <1>2 DEF Allocate
<1>3. CASE ExportStart
  BY <1>3 DEF ExportStart
<1>4. CASE ResetHeap
  BY <1>4 DEF ResetHeap, AllEmpty
<1>5. CASE FreeHeap
  BY <1>5 DEF FreeHeap
<1> QED
  BY <1>1, <1>2, <1>3, <1>4, <1>5 DEF Mutate

\* A new space takes a full copy of the one before it.
LEMMA CreateNextSpaceStep == IInv /\ CreateNextSpace => IInv'
<1> SUFFICES ASSUME IInv, CreateNextSpace PROVE IInv'
  OBVIOUS
<1> USE MaxSpacesAssumption, MaxAllocsAssumption
<1> USE DEF Gens, Running, Stopped, Exists, Free, Fits
<1> DEFINE to == gen + 1
<1>1. /\ pc = "collect" /\ heap = "live"
      /\ gen \in Gens /\ to \in Gens
      /\ size \in [Gens -> Nat] /\ next \in [Gens -> Nat]
      /\ size[gen] > 0 /\ ~ (size[to] > 0) /\ FitsFrom(gen) /\ EmptyBelow(gen)
      /\ \A i \in Gens : next[i] <= size[i]
  BY DEF IInv, TypeOK, Progress, Bounded, CreateNextSpace
<1>2. /\ size' = [size EXCEPT ![to] = RATIO * size[gen]]
      /\ UNCHANGED <<heap, next, alloc, limit, budget, num_allocs, gen, pc>>
  BY DEF CreateNextSpace
<1>3. RATIO * size[gen] \in Nat /\ size[gen] <= RATIO * size[gen]
  BY <1>1, RatioGrows
<1>4. /\ size' \in [Gens -> Nat] /\ size'[to] = RATIO * size[gen]
      /\ \A i \in Gens : i # to => size'[i] = size[i]
      /\ size[to] = 0 /\ next[to] = 0
  BY <1>1, <1>2, <1>3
<1>5. ASSUME NEW i \in 0 .. MAX_SPACES - 2, size'[i + 1] > 0
      PROVE  /\ size'[i] > 0 /\ size'[i] <= size'[i + 1]
             /\ i >= gen => size'[i] <= size'[i + 1] - next'[i + 1]
  <2>1. i \in Gens /\ i + 1 \in Gens
    OBVIOUS
  <2>2. CASE i = gen
    BY <2>2, <1>1, <1>2, <1>3, <1>4
  <2>3. CASE i # gen
    <3>1. i + 1 # to /\ size'[i + 1] = size[i + 1]
      BY <2>1, <2>3, <1>1, <1>4
    <3>2. size[i] > 0 /\ size[i] <= size[i + 1]
      BY <3>1, <1>5 DEF IInv, Grows
    <3>3. i # to /\ size'[i] = size[i]
      BY <3>2, <2>1, <1>4
    <3>4. i >= gen => size[i] <= size[i + 1] - next[i + 1]
      BY <3>1, <1>1, <1>5 DEF FitsFrom
    <3> QED
      BY <3>1, <3>2, <3>3, <3>4, <1>2
  <2> QED
    BY <2>2, <2>3
<1>6. TypeOK'
  BY <1>2, <1>4 DEF IInv, TypeOK
<1>7. Grows'
  BY <1>1, <1>2, <1>4, <1>5 DEF IInv, Grows
<1>8. Bounded'
  <2>1. \A i \in Gens : next'[i] <= size'[i]
    BY <1>1, <1>2, <1>4
  <2>2. size'[0] = size[0]
    BY <1>1, <1>4
  <2> QED
    BY <2>1, <2>2, <1>2 DEF IInv, Bounded
<1>9. Progress'
  <2>1. FitsFrom(gen)'
    BY <1>2, <1>5 DEF FitsFrom
  <2>2. EmptyBelow(gen)' /\ Exists(gen)'
    BY <1>1, <1>2, <1>4 DEF EmptyBelow
  <2>3. gen > 0 => (size[gen - 1] > Free(gen))'
    <3> SUFFICES ASSUME gen > 0 PROVE (size[gen - 1] > Free(gen))'
      OBVIOUS
    <3>1. size'[gen - 1] = size[gen - 1] /\ size'[gen] = size[gen]
      BY <1>1, <1>4
    <3> QED
      BY <3>1, <1>1, <1>2 DEF IInv, Progress
  <2> QED
    BY <2>1, <2>2, <2>3, <1>1, <1>2 DEF IInv, Progress
<1> QED
  BY <1>1, <1>2, <1>6, <1>7, <1>8, <1>9
     DEF IInv, AssertionsHold, RanOutOnlyWhenFull

\* One iteration of garbage_collect: the generation before the one copied into
\* is empty again.
LEMMA CollectGenerationStep == IInv /\ CollectGeneration => IInv'
<1> SUFFICES ASSUME IInv, CollectGeneration PROVE IInv'
  OBVIOUS
<1> USE MaxSpacesAssumption, MaxAllocsAssumption
<1> USE DEF Gens, Running, Stopped, Exists, Free, Fits
<1> DEFINE to == gen + 1
<1>1. /\ pc = "collect" /\ heap = "live"
      /\ gen \in Gens /\ to \in Gens /\ gen < MAX_SPACES - 1
      /\ size \in [Gens -> Nat] /\ next \in [Gens -> Nat]
      /\ size[gen] > 0 /\ size[to] > 0 /\ FitsFrom(gen) /\ EmptyBelow(gen)
      /\ \A i \in Gens : next[i] <= size[i]
      /\ size[gen] <= size[to] - next[to]
      /\ InUse(gen) = next[gen]
  <2>1. /\ pc = "collect" /\ gen < MAX_SPACES - 1 /\ size[to] > 0
        /\ gen \in Gens /\ size \in [Gens -> Nat] /\ next \in [Gens -> Nat]
    BY DEF IInv, TypeOK, CollectGeneration
  <2>2. to \in Gens /\ gen \in 0 .. MAX_SPACES - 2
    BY <2>1
  <2>3. heap = "live" /\ size[gen] > 0 /\ FitsFrom(gen) /\ EmptyBelow(gen)
    BY <2>1 DEF IInv, Progress
  <2>4. \A i \in Gens : next[i] <= size[i]
    BY DEF IInv, Bounded
  <2>5. size[gen] <= size[to] - next[to]
    BY <2>1, <2>2, <2>3 DEF FitsFrom
  <2>6. InUse(gen) = next[gen]
    BY <2>1 DEF IInv, Progress, InUse
  <2> QED
    BY <2>1, <2>2, <2>3, <2>4, <2>5, <2>6
<1>2. RoomForAll(gen, to)
  BY <1>1 DEF RoomForAll
<1>3. /\ UNCHANGED <<heap, size, num_allocs>>
      /\ DoGeneration(gen, to)
      /\ \/ /\ size[gen] <= size[to] - next'[to]
            /\ Resume(num_allocs) /\ UNCHANGED gen
         \/ /\ ~ (size[gen] <= size[to] - next'[to])
            /\ gen' = to /\ UNCHANGED <<pc, alloc, limit, budget>>
  BY <1>2 DEF CollectGeneration
<1>4. PICK survivors \in 0 .. next[gen] :
        next' = [next EXCEPT ![gen] = 0, ![to] = @ + survivors]
  BY <1>1, <1>3 DEF DoGeneration
<1>5. /\ next' \in [Gens -> Nat]
      /\ next'[gen] = 0 /\ next'[to] <= size[to]
      /\ \A i \in Gens : i # gen /\ i # to => next'[i] = next[i]
  <2>1. /\ next[gen] \in Nat /\ next[to] \in Nat /\ size[gen] \in Nat
        /\ size[to] \in Nat /\ to # gen /\ survivors \in Nat
        /\ survivors <= size[gen]
    BY <1>1
  <2> DEFINE moved == [next EXCEPT ![gen] = 0, ![to] = @ + survivors]
  <2>6. /\ moved \in [Gens -> Nat]
        /\ moved[gen] = 0 /\ moved[to] = next[to] + survivors
        /\ \A i \in Gens : i # gen /\ i # to => moved[i] = next[i]
    <3>1. next \in [Gens -> Nat] /\ gen \in Gens /\ to \in Gens
      BY <1>1
    <3> HIDE DEF Gens
    <3> QED
      BY <3>1, <2>1, EntriesMoved
  <2>7. next' = moved
    BY <1>4
  <2> HIDE DEF moved
  <2>2. next'[gen] = 0 /\ next'[to] = next[to] + survivors
    BY <2>6, <2>7
  <2>3. next' \in [Gens -> Nat]
    BY <2>6, <2>7
  <2>4. next'[to] <= size[to]
    BY <2>1, <2>2, <1>1
  <2>5. \A i \in Gens : i # gen /\ i # to => next'[i] = next[i]
    BY <2>6, <2>7
  <2> QED
    BY <2>2, <2>3, <2>4, <2>5
<1>6. alloc' \in Nat /\ limit' \in Nat /\ budget' \in 0 .. MAX_ALLOCS
  <2>1. \/ UNCHANGED <<alloc, limit, budget>>
        \/ alloc' = 0 /\ limit' = size'[0] /\ budget' = num_allocs
    BY <1>3 DEF Resume
  <2>2. size'[0] \in Nat
    BY <1>1, <1>3
  <2>3. /\ alloc \in Nat /\ limit \in Nat /\ budget \in 0 .. MAX_ALLOCS
        /\ num_allocs \in 0 .. MAX_ALLOCS
    BY DEF IInv, TypeOK
  <2>4. CASE UNCHANGED <<alloc, limit, budget>>
    BY <2>3, <2>4
  <2>5. CASE alloc' = 0 /\ limit' = size'[0] /\ budget' = num_allocs
    BY <2>2, <2>3, <2>5
  <2> QED
    BY <2>1, <2>4, <2>5
<1>7. TypeOK'
  <2>1. gen' \in Gens /\ pc' \in Running \cup Stopped
    BY <1>1, <1>3 DEF Resume
  <2> QED
    BY <2>1, <1>1, <1>3, <1>5, <1>6 DEF IInv, TypeOK
<1>8. Grows'
  BY <1>1, <1>3 DEF IInv, Grows
<1>9. Bounded'
  <2>1. \A i \in Gens : next'[i] <= size[i]
    <3> TAKE i \in Gens
    <3>1. CASE i = gen
      BY <3>1, <1>1, <1>5
    <3>2. CASE i # gen
      BY <3>2, <1>1, <1>5
    <3> QED
      BY <3>1, <3>2
  <2>2. alloc' + budget' <= limit' /\ (pc' \in Running => limit' = size'[0])
    <3>1. alloc + budget <= limit /\ size' = size
      BY <1>3 DEF IInv, Bounded
    <3>2. CASE UNCHANGED <<pc, alloc, limit, budget>> /\ gen' = to
      BY <3>1, <3>2 DEF IInv, Bounded
    <3>3. CASE Resume(num_allocs)
      <4>1. num_allocs \in Nat /\ size[0] \in Nat
        BY <1>1 DEF IInv, TypeOK
      <4>2. CASE size[0] < num_allocs
        BY <4>2, <3>1, <3>3 DEF Resume
      <4>3. CASE ~ (size[0] < num_allocs)
        BY <4>1, <4>3, <3>1, <3>3 DEF Resume
      <4> QED
        BY <4>2, <4>3
    <3> QED
      BY <3>2, <3>3, <1>3
  <2> QED
    BY <2>1, <2>2, <1>3 DEF Bounded
<1>10. \A i \in Gens : i < to => next'[i] = 0
  <2> SUFFICES ASSUME NEW i \in Gens, i < to PROVE next'[i] = 0
    OBVIOUS
  <2>1. i = gen \/ (i < gen /\ i # to)
    BY <1>1
  <2> QED
    BY <2>1, <1>1, <1>5 DEF EmptyBelow
<1>11. \A i \in 0 .. MAX_SPACES - 2 :
           i >= to /\ size[i + 1] > 0 => size[i] <= size[i + 1] - next'[i + 1]
  <2> SUFFICES ASSUME NEW i \in 0 .. MAX_SPACES - 2, i >= to, size[i + 1] > 0
               PROVE  size[i] <= size[i + 1] - next'[i + 1]
    OBVIOUS
  <2>1. i + 1 \in Gens /\ i + 1 # gen /\ i + 1 # to
    BY <1>1
  <2> QED
    BY <2>1, <1>1, <1>5 DEF FitsFrom
<1>12. Progress'
  <2>1. CASE Resume(num_allocs) /\ UNCHANGED gen
                /\ size[gen] <= size[to] - next'[to]
    <3>1. ASSUME NEW i \in 0 .. MAX_SPACES - 2, size[i + 1] > 0
          PROVE  size[i] <= size[i + 1] - next'[i + 1]
      <4>1. CASE i > gen
        BY <4>1, <3>1, <1>11, <1>1
      <4>2. CASE i = gen
        BY <4>2, <2>1
      <4>3. CASE i < gen
        <5>1. next'[i + 1] = 0 /\ size[i] <= size[i + 1]
          BY <4>3, <3>1, <1>10, <1>1 DEF IInv, Grows
        <5>2. size[i] \in Nat /\ size[i + 1] \in Nat
          <6>1. i \in Gens /\ i + 1 \in Gens
            OBVIOUS
          <6>2. size \in [Gens -> Nat]
            BY <1>1
          <6> HIDE DEF Gens
          <6> QED
            BY <6>1, <6>2
        <5> QED
          BY <5>1, <5>2
      <4> QED
        BY <4>1, <4>2, <4>3, <1>1
    <3> QED
      BY <3>1, <2>1, <1>3 DEF Progress, Resume, FitsFrom
  <2>2. CASE gen' = to /\ ~ (size[gen] <= size[to] - next'[to])
                /\ UNCHANGED <<pc, alloc, limit, budget>>
    <3>1. gen' - 1 = gen /\ gen' > 0
      BY <2>2, <1>1
    <3>2. (size[gen - 1] > Free(gen))'
      <4>1. size' = size /\ gen' = to /\ gen' - 1 = gen
        BY <3>1, <2>2, <1>3
      <4>2. size[gen] \in Nat /\ size[to] \in Nat /\ next'[to] \in Nat
        BY <1>1, <1>5
      <4>3. size[gen] > size[to] - next'[to]
        BY <4>2, <2>2
      <4> QED
        BY <4>1, <4>3
    <3>3. FitsFrom(gen)' /\ EmptyBelow(gen)'
      BY <2>2, <1>3, <1>10, <1>11 DEF FitsFrom, EmptyBelow
    <3> QED
      BY <3>1, <3>2, <3>3, <2>2, <1>1, <1>3 DEF Progress
  <2> QED
    BY <2>1, <2>2, <1>3
<1> QED
  BY <1>1, <1>3, <1>7, <1>8, <1>9, <1>12
     DEF IInv, AssertionsHold, RanOutOnlyWhenFull, Resume

\* One iteration of garbage_collect_all.  Its assertion reads a stale next for
\* the nursery; what makes the copy fit is that all of the nursery would.
LEMMA CollectAllGenerationStep == IInv /\ CollectAllGeneration => IInv'
<1> SUFFICES ASSUME IInv, CollectAllGeneration PROVE IInv'
  OBVIOUS
<1> USE MaxSpacesAssumption, MaxAllocsAssumption
<1> USE DEF Gens, Running, Stopped, Exists, Free, Fits
<1> DEFINE to == gen + 1
<1>1. /\ pc = "collect_all"
      /\ gen \in Gens /\ to \in Gens /\ gen < MAX_SPACES - 1
      /\ size \in [Gens -> Nat] /\ next \in [Gens -> Nat] /\ alloc \in Nat
      /\ heap = "live" /\ Exists(gen) /\ Exists(to)
      /\ FitsFrom(gen) /\ EmptyBelow(gen)
      /\ \A i \in Gens : next[i] <= size[i]
      /\ alloc <= size[0]
      /\ size[gen] <= size[to] - next[to]
  BY DEF IInv, TypeOK, Progress, Bounded, CollectAllGeneration, MoreGenerations,
         FitsFrom
<1>2. size' = size /\ UNCHANGED <<heap, alloc, limit, budget, num_allocs>>
  BY DEF CollectAllGeneration
<1>3. RoomForAll(gen, to)
  BY <1>1, <1>2 DEF RoomForAll
<1>4. InUse(gen) \in Nat /\ InUse(gen) <= size[gen]
  BY <1>1 DEF InUse
<1>5. gen' = to /\ pc' = pc /\ DoGeneration(gen, to)
  BY <1>3 DEF CollectAllGeneration
<1>6. PICK survivors \in 0 .. InUse(gen) :
        next' = [next EXCEPT ![gen] = 0, ![to] = @ + survivors]
  BY <1>5 DEF DoGeneration
<1>7. /\ next' \in [Gens -> Nat]
      /\ next'[gen] = 0 /\ next'[to] <= size[to]
      /\ \A i \in Gens : i # gen /\ i # to => next'[i] = next[i]
  <2>1. /\ survivors \in Nat /\ survivors <= size[gen] /\ to # gen
        /\ next[to] \in Nat /\ size[to] \in Nat /\ size[gen] \in Nat
    BY <1>1, <1>4
  <2> DEFINE moved == [next EXCEPT ![gen] = 0, ![to] = @ + survivors]
  <2>6. /\ moved \in [Gens -> Nat]
        /\ moved[gen] = 0 /\ moved[to] = next[to] + survivors
        /\ \A i \in Gens : i # gen /\ i # to => moved[i] = next[i]
    <3>1. next \in [Gens -> Nat] /\ gen \in Gens /\ to \in Gens
      BY <1>1
    <3> HIDE DEF Gens
    <3> QED
      BY <3>1, <2>1, EntriesMoved
  <2>7. next' = moved
    BY <1>6
  <2> HIDE DEF moved
  <2>2. next'[gen] = 0 /\ next'[to] = next[to] + survivors
    BY <2>6, <2>7
  <2>3. next'[to] <= size[to]
    BY <2>1, <2>2, <1>1
  <2>4. next' \in [Gens -> Nat]
    BY <2>6, <2>7
  <2>5. \A i \in Gens : i # gen /\ i # to => next'[i] = next[i]
    BY <2>6, <2>7
  <2> QED
    BY <2>2, <2>3, <2>4, <2>5
<1>8. TypeOK' /\ Grows'
  BY <1>1, <1>2, <1>5, <1>7 DEF IInv, TypeOK, Grows
<1>9. Bounded'
  <2>1. \A i \in Gens : next'[i] <= size[i]
    <3> TAKE i \in Gens
    <3>1. CASE i = gen
      BY <3>1, <1>1, <1>7
    <3>2. CASE i # gen
      BY <3>2, <1>1, <1>7
    <3> QED
      BY <3>1, <3>2
  <2> QED
    BY <2>1, <1>2, <1>5 DEF IInv, Bounded
<1>10. Progress'
  <2>1. FitsFrom(gen)'
    <3> SUFFICES ASSUME NEW i \in 0 .. MAX_SPACES - 2, i >= to, size[i + 1] > 0
                 PROVE  size[i] <= size[i + 1] - next'[i + 1]
      BY <1>2, <1>5 DEF FitsFrom
    <3>1. i + 1 \in Gens /\ i + 1 # gen /\ i + 1 # to
      BY <1>1
    <3> QED
      BY <3>1, <1>1, <1>7 DEF FitsFrom
  <2>2. EmptyBelow(gen)'
    <3> SUFFICES ASSUME NEW i \in Gens, i < to PROVE next'[i] = 0
      BY <1>5 DEF EmptyBelow
    <3>1. i = gen \/ (i < gen /\ i # to)
      BY <1>1
    <3> QED
      BY <3>1, <1>1, <1>7 DEF EmptyBelow
  <2> QED
    BY <2>1, <2>2, <1>1, <1>2, <1>5 DEF Progress
<1> QED
  BY <1>1, <1>5, <1>8, <1>9, <1>10 DEF IInv, AssertionsHold, RanOutOnlyWhenFull

\* The end of export empties the generation it copied from, so the one before
\* it fits again.
LEMMA ExportCopyStep == IInv /\ ExportCopy => IInv'
<1> SUFFICES ASSUME IInv, ExportCopy PROVE IInv'
  OBVIOUS
<1> USE MaxSpacesAssumption, MaxAllocsAssumption
<1> USE DEF Gens, Running, Stopped, Exists, Free, Fits
<1>1. /\ pc' = "compact" /\ next' = [next EXCEPT ![gen] = 0]
      /\ UNCHANGED <<heap, size, alloc, limit, budget, num_allocs, gen>>
      /\ gen \in Gens /\ size \in [Gens -> Nat] /\ next \in [Gens -> Nat]
      /\ FitsFrom(gen) /\ EmptyBelow(gen) /\ pc = "export"
  BY DEF ExportCopy, IInv, TypeOK, Progress
<1>2. FitsFrom(0)'
  <2> SUFFICES ASSUME NEW i \in 0 .. MAX_SPACES - 2, size[i + 1] > 0
               PROVE  size[i] <= size[i + 1] - next'[i + 1]
    BY <1>1 DEF FitsFrom
  <2>1. i \in Gens /\ i + 1 \in Gens /\ size[i] \in Nat /\ size[i + 1] \in Nat
    BY <1>1
  <2>2. size[i] <= size[i + 1]
    BY DEF IInv, Grows
  <2>3. CASE i + 1 <= gen
    <3>1. next'[i + 1] = 0
      BY <2>3, <2>1, <1>1 DEF EmptyBelow
    <3> QED
      BY <3>1, <2>1, <2>2
  <2>4. CASE i + 1 > gen
    BY <2>4, <2>1, <1>1 DEF FitsFrom
  <2> QED
    BY <2>1, <2>3, <2>4, <1>1
<1>3. Bounded' /\ TypeOK' /\ Grows'
  BY <1>1 DEF IInv, Bounded, TypeOK, Grows
<1> QED
  BY <1>1, <1>2, <1>3 DEF IInv, Progress, AssertionsHold, RanOutOnlyWhenFull

\* The remaining steps of the collector move no object.
LEMMA BookkeepingStep ==
    IInv /\ (CreateHeap \/ StartCollection \/ RanOutOfGenerations
                \/ CollectAllReturn \/ ExportCompact \/ MallocFails) => IInv'
<1> SUFFICES ASSUME IInv,
                    CreateHeap \/ StartCollection \/ RanOutOfGenerations
                        \/ CollectAllReturn \/ ExportCompact \/ MallocFails
             PROVE  IInv'
  OBVIOUS
<1> USE MaxSpacesAssumption, MaxAllocsAssumption, NurseryAssumption
<1> USE DEF IInv, TypeOK, Grows, Bounded, Progress, FitsFrom, Fits, Free, Exists,
            EmptyBelow, Gens, Running, Stopped, AssertionsHold, RanOutOnlyWhenFull
<1>1. CASE CreateHeap
  BY <1>1 DEF CreateHeap, Resume, NurseryOnly, AllEmpty
<1>2. CASE StartCollection
  BY <1>2 DEF StartCollection
<1>3. CASE RanOutOfGenerations
  BY <1>3 DEF RanOutOfGenerations, Stop
<1>4. CASE CollectAllReturn
  BY <1>4 DEF CollectAllReturn, MoreGenerations
<1>5. CASE MallocFails
  BY <1>5 DEF MallocFails, Stop
<1>6. CASE ExportCompact
  BY <1>6 DEF ExportCompact
<1> QED
  BY <1>1, <1>2, <1>3, <1>4, <1>5, <1>6

LEMMA NextIInv == IInv /\ [Next]_vars => IInv'
<1> SUFFICES ASSUME IInv, [Next]_vars PROVE IInv'
  OBVIOUS
<1>1. CASE UNCHANGED vars
  BY <1>1 DEF vars, IInv, TypeOK, Grows, Bounded, Progress, FitsFrom, Fits, Free,
              Exists, EmptyBelow, AssertionsHold, RanOutOnlyWhenFull
<1> QED
  BY <1>1, MutatorStep, CreateNextSpaceStep, CollectGenerationStep, CollectAllGenerationStep,
     ExportCopyStep, BookkeepingStep
     DEF Next, Collect

\* IInv holds in every reachable state.
THEOREM Invariance == Spec => []IInv
<1> QED
  BY InitIInv, NextIInv, PTL DEF Spec

-----------------------------------------------------------------------------
\* The runtime's variables keep their types (gc.c's struct space: a space that
\* exists satisfies start <= next <= limit).
THEOREM TypeCorrect == Spec => []TypeOK
<1>1. IInv => TypeOK
  BY DEF IInv
<1> QED
  BY <1>1, Invariance, PTL

\* After garbage_collect, every space could be copied into the next one.
THEOREM NextCollectionAlwaysFits == Spec => []NextCollectionFits
<1>1. IInv => NextCollectionFits
  BY DEF IInv, Progress, FitsFrom, NextCollectionFits
<1> QED
  BY <1>1, Invariance, PTL

\* do_generation's assertion and the one on ti->limit never fail.
THEOREM NoAssertionFails == Spec => []AssertionsHold
<1>1. IInv => AssertionsHold
  BY DEF IInv
<1> QED
  BY <1>1, Invariance, PTL

\* Neither the collector nor an allocation without a test leaves its space.
THEOREM NeverOverruns == Spec => []NoOverrun
<1>1. IInv => NoOverrun
  BY DEF IInv, Bounded, NoOverrun
<1> QED
  BY <1>1, Invariance, PTL

\* "Ran out of generations" is reported only by a nearly full oldest space.
THEOREM RanOutJustified == Spec => []RanOutOnlyWhenFull
<1>1. IInv => RanOutOnlyWhenFull
  BY DEF IInv
<1> QED
  BY <1>1, Invariance, PTL

\* gc.h, garbage_collect (2): the caller gets the words it asked for.
THEOREM CollectAlwaysGivesRoom == Spec => CollectGivesRoom
<1> DEFINE Given == (pc \in {"garbage_collect", "collect"} /\ pc' = "mutator")
                        => limit' - alloc' >= num_allocs
<1>1. IInv /\ [Next]_vars => [Given]_vars
  <2> SUFFICES ASSUME IInv, Next, pc \in {"garbage_collect", "collect"},
                      pc' = "mutator"
               PROVE  limit' - alloc' >= num_allocs
    OBVIOUS
  <2>1. CreateHeap \/ CollectGeneration
    BY DEF Next, Collect, Mutate, Check, Allocate, ExportStart, ResetHeap, FreeHeap,
           StartCollection, RanOutOfGenerations, CollectAllGeneration,
           CreateNextSpace, CollectAllReturn, ExportCopy, ExportCompact,
           MallocFails, Stop
  <2>2. Resume(num_allocs)
    BY <2>1 DEF CreateHeap, CollectGeneration, DoGeneration
  <2>3. alloc' = 0 /\ limit' = size'[0] /\ ~ (size'[0] < num_allocs)
    BY <2>2 DEF Resume
  <2>4. size'[0] \in Nat /\ num_allocs \in Nat
    <3>1. TypeOK /\ TypeOK'
      BY NextIInv DEF IInv
    <3> QED
      BY <3>1, MaxSpacesAssumption, MaxAllocsAssumption DEF TypeOK, Gens
  <2> QED
    BY <2>3, <2>4
<1> QED
  BY <1>1, Invariance, PTL DEF Spec, CollectGivesRoom

\* Generated code may keep its copy of limit across a collection (reserve of
\* L6_to_Clight.v loads alloc only).
THEOREM LimitNeverMoves == Spec => LimitStays
<1> DEFINE Same == heap = "live" /\ pc' = "mutator" => limit' = limit
<1>1. IInv /\ [Next]_vars => [Same]_vars
  <2> SUFFICES ASSUME IInv, Next, heap = "live", pc' = "mutator"
               PROVE  limit' = limit
    OBVIOUS
  <2>1. CASE Mutate
    BY <2>1 DEF Mutate, Check, Allocate, ExportStart, ResetHeap, FreeHeap
  <2>2. CASE CollectGeneration
    <3>1. limit = size[0]
      BY <2>2 DEF CollectGeneration, IInv, Bounded, Running
    <3>2. size' = size
      BY <2>2 DEF CollectGeneration
    <3>3. limit' = size'[0] \/ limit' = limit
      BY <2>2 DEF CollectGeneration, Resume
    <3> QED
      BY <3>1, <3>2, <3>3
  <2>3. CASE Collect /\ ~ CollectGeneration
    BY <2>3 DEF Collect, CreateHeap, StartCollection, CreateNextSpace,
           RanOutOfGenerations, CollectAllGeneration, CollectAllReturn, ExportCopy,
           ExportCompact, MallocFails, Stop
  <2> QED
    BY <2>1, <2>2, <2>3 DEF Next
<1> QED
  BY <1>1, Invariance, PTL DEF Spec, LimitStays
=============================================================================
