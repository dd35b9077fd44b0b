-------------------- MODULE ReplacementCollectorsProofs --------------------
(***************************************************************************)
(* The properties of module ReplacementCollectors, proved for every size   *)
(* of block, every bound on requests and any number of blocks.             *)
(***************************************************************************)
EXTENDS ReplacementCollectors, TLAPS

\* alloc is behind the objects of its block.
AllocBehind == \A w \in written : w[1] = block => w[2] < alloc

\* nogc.c has no heap yet, or one in which alloc and the words still promised are
\* below limit, or has stopped because its heap is too small for the first call.
OneBlock ==
    \/ blocks = <<>> /\ block = 0 /\ alloc = 0 /\ limit = 0 /\ budget = 0 /\ written = {}
    \/ blocks = <<SIZE>> /\ block = 1 /\ limit = SIZE /\ alloc + budget <= SIZE
    \/ pc = "heap_too_small" /\ written = {}

IInv ==
    /\ TypeOK
    /\ blocks \in Seq(Nat)
    /\ AllocBehind
    /\ collector = "nogc" => OneBlock

-----------------------------------------------------------------------------
LEMMA InitIInv == Init => IInv
<1> SUFFICES ASSUME Init PROVE IInv
  OBVIOUS
<1> USE ReplacementAssumption DEF Init
<1>1. blocks \in Seq(Nat) /\ block \in 0 .. Len(blocks) /\ limit \in Nat
  <2>1. CASE blocks = <<>> /\ block = 0 /\ limit = 0
    <3>1. Len(blocks) = 0 /\ blocks \in Seq(Nat)
      BY <2>1
    <3> QED
      BY <2>1, <3>1
  <2>2. CASE blocks = <<SIZE>> /\ block = 1 /\ limit = SIZE
    <3>1. Len(blocks) = 1 /\ blocks \in Seq(Nat)
      BY <2>2
    <3> QED
      BY <2>2, <3>1
  <2>3. CASE blocks = <<FIRST>> /\ block = 1 /\ limit = 0
    <3>1. Len(blocks) = 1 /\ blocks \in Seq(Nat)
      BY <2>3
    <3> QED
      BY <2>3, <3>1
  <2> QED
    BY <2>1, <2>2, <2>3
<1>2. TypeOK
  BY <1>1 DEF TypeOK, Stopped
<1>3. AllocBehind
  BY DEF AllocBehind
<1>4. collector = "nogc" => OneBlock
  BY DEF OneBlock
<1> QED
  BY <1>1, <1>2, <1>3, <1>4 DEF IInv

\* The test of a function that is given what it asked for, in nogc.c: its words
\* are below limit.
LEMMA CheckIInv == ASSUME IInv, NEW n \in 0 .. MAX_ALLOCS, Check(n) PROVE IInv'
<1> USE ReplacementAssumption
<1>1. /\ alloc \in Nat /\ limit \in Nat /\ n \in Nat /\ pc = "mutator"
      /\ budget' \in {budget, n} /\ pc' \in {"mutator", "garbage_collect"}
      /\ num_allocs' = n
      /\ UNCHANGED <<collector, blocks, block, alloc, limit, written>>
  BY DEF IInv, TypeOK, Check
<1>2. budget' = n => limit < alloc \/ alloc + n <= limit \/ budget' = budget
  BY <1>1 DEF Check, Short
<1>3. TypeOK'
  BY <1>1 DEF IInv, TypeOK
<1>4. AllocBehind'
  BY <1>1 DEF IInv, AllocBehind
<1>5. collector' = "nogc" => OneBlock'
  <2> SUFFICES ASSUME collector = "nogc" PROVE OneBlock'
    BY <1>1
  <2>1. CASE blocks = <<>> /\ block = 0 /\ alloc = 0 /\ limit = 0 /\ budget = 0 /\ written = {}
    BY <1>1, <1>2, <2>1 DEF OneBlock
  <2>2. CASE blocks = <<SIZE>> /\ block = 1 /\ limit = SIZE /\ alloc + budget <= SIZE
    <3>1. alloc <= limit
      BY <2>2, <1>1 DEF IInv, TypeOK
    <3>2. alloc + budget' <= SIZE
      BY <1>1, <1>2, <2>2, <3>1
    <3> QED
      BY <1>1, <2>2, <3>2 DEF OneBlock
  <2> QED
    BY <2>1, <2>2, <1>1 DEF IInv, OneBlock
<1> QED
  BY <1>1, <1>3, <1>4, <1>5 DEF IInv

\* An object lies between the old alloc and the new.
LEMMA AllocateIInv ==
    ASSUME IInv, NEW words \in 1 .. MAX_ALLOCS, Allocate(words) PROVE IInv'
<1> USE ReplacementAssumption
<1> DEFINE New == {block} \X (alloc .. alloc + words - 1)
<1>1. /\ alloc \in Nat /\ words \in Nat /\ words > 0 /\ words <= budget /\ budget \in Nat
      /\ block # 0 /\ block \in 1 .. Len(blocks) /\ pc = "mutator"
      /\ budget <= MAX_ALLOCS
      /\ written' = written \cup New
      /\ alloc' = alloc + words
      /\ budget' = budget - words
      /\ UNCHANGED <<collector, blocks, block, limit, num_allocs, pc>>
  BY DEF IInv, TypeOK, Allocate
<1>2. \A w \in New : w[1] = block /\ w[2] \in Nat /\ alloc <= w[2] /\ w[2] < alloc + words
  BY <1>1
<1>3. DOMAIN blocks = 1 .. Len(blocks)
  BY DEF IInv
<1>4. \A w \in written' : w[1] \in DOMAIN blocks' /\ w[2] \in Nat
  BY <1>1, <1>2, <1>3 DEF IInv, TypeOK
<1>5. TypeOK'
  BY <1>1, <1>4 DEF IInv, TypeOK
<1>6. AllocBehind'
  <2> SUFFICES ASSUME NEW w \in written', w[1] = block PROVE w[2] < alloc + words
    BY <1>1 DEF AllocBehind
  <2>1. CASE w \in New
    BY <2>1, <1>2
  <2>2. CASE w \in written
    <3>1. w[2] < alloc /\ w[2] \in Nat
      BY <2>2 DEF IInv, AllocBehind, TypeOK
    <3> QED
      BY <3>1, <1>1
  <2> QED
    BY <2>1, <2>2, <1>1
<1>7. collector' = "nogc" => OneBlock'
  BY <1>1 DEF IInv, OneBlock
<1> QED
  BY <1>1, <1>5, <1>6, <1>7 DEF IInv

\* A process that has stopped has the memory it had.
LEMMA StopIInv ==
    ASSUME IInv, NEW how \in Stopped, Stop(how), pc # "heap_too_small" PROVE IInv'
<1>1. TypeOK' /\ AllocBehind' /\ blocks' \in Seq(Nat)
  BY DEF IInv, TypeOK, AllocBehind, Stop
<1>2. collector' = "nogc" => OneBlock'
  BY DEF IInv, OneBlock, Stop
<1> QED
  BY <1>1, <1>2 DEF IInv

\* nogc.c: nothing has been written when the heap is created.
LEMMA CreateHeapIInv == ASSUME IInv, CreateHeap PROVE IInv'
<1> USE ReplacementAssumption
<1>1. /\ blocks = <<>> /\ blocks' = <<SIZE>> /\ collector = "nogc"
      /\ pc = "garbage_collect"
      /\ UNCHANGED <<collector, num_allocs, written>>
  BY DEF CreateHeap, CalledNoGC
<1>2. written = {} /\ block = 0 /\ alloc = 0 /\ limit = 0 /\ budget = 0
  BY <1>1 DEF IInv, OneBlock
<1>3. blocks' \in Seq(Nat) /\ Len(blocks') = 1 /\ blocks'[1] = SIZE
  BY <1>1
<1>4. AllocBehind'
  BY <1>1, <1>2 DEF AllocBehind
<1>5. num_allocs \in 0 .. MAX_ALLOCS
  BY DEF IInv, TypeOK
<1>6. CASE SIZE < num_allocs
  <2>1. pc' = "heap_too_small" /\ UNCHANGED <<block, alloc, limit, budget>>
    BY <1>3, <1>6 DEF CreateHeap, Resume
  <2>2. TypeOK'
    BY <2>1, <1>1, <1>2, <1>3, <1>5 DEF TypeOK, Stopped
  <2> QED
    BY <2>1, <2>2, <1>1, <1>2, <1>3, <1>4 DEF IInv, OneBlock
<1>7. CASE ~ (SIZE < num_allocs)
  <2>1. /\ pc' = "mutator" /\ block' = 1 /\ alloc' = 0 /\ limit' = SIZE
        /\ budget' = num_allocs
    BY <1>3, <1>7 DEF CreateHeap, Resume
  <2>2. TypeOK'
    BY <2>1, <1>1, <1>2, <1>3, <1>5 DEF TypeOK, Stopped
  <2>3. alloc' + budget' <= SIZE
    BY <2>1, <1>5, <1>7
  <2> QED
    BY <2>1, <2>2, <2>3, <1>1, <1>3, <1>4 DEF IInv, OneBlock
<1> QED
  BY <1>6, <1>7

\* fakegc.c: a block in which nothing has been written, or none.
LEMMA FakeIInv == ASSUME IInv, CollectFresh \/ CollectIntoNull PROVE IInv'
<1> USE ReplacementAssumption
<1>1. /\ collector = "fakegc" /\ num_allocs \in 0 .. MAX_ALLOCS
      /\ pc' = "mutator" /\ alloc' = 0 /\ limit' = 0 /\ budget' = num_allocs
      /\ UNCHANGED <<collector, num_allocs, written>>
  BY DEF CollectFresh, CollectIntoNull, CalledFakeGC, ResumeFake, IInv, TypeOK
<1>2. DOMAIN blocks = 1 .. Len(blocks) /\ Len(blocks) \in Nat
  BY DEF IInv
<1>3. CASE CollectFresh
  <2>1. /\ blocks' = Append(blocks, num_allocs)
        /\ blocks' \in Seq(Nat)
        /\ Len(blocks') = Len(blocks) + 1
        /\ block' = Len(blocks) + 1
        /\ \A i \in 1 .. Len(blocks) + 1 : blocks'[i] \in Nat
    BY <1>1, <1>3 DEF CollectFresh, IInv, TypeOK
  <2>2. \A w \in written : w[1] \in 1 .. Len(blocks) /\ w[2] \in Nat
    BY <1>2 DEF IInv, TypeOK
  <2>3. DOMAIN blocks' = 1 .. Len(blocks) + 1
    BY <2>1
  <2>4. TypeOK'
    BY <1>1, <1>2, <2>1, <2>2, <2>3 DEF IInv, TypeOK
  <2>5. AllocBehind'
    BY <1>1, <1>2, <2>1, <2>2 DEF AllocBehind
  <2> QED
    BY <1>1, <2>1, <2>4, <2>5 DEF IInv
<1>4. CASE CollectIntoNull
  <2>1. blocks' = blocks /\ block' = 0
    BY <1>4 DEF CollectIntoNull
  <2>2. TypeOK'
    BY <1>1, <1>2, <2>1 DEF IInv, TypeOK
  <2>3. AllocBehind'
    BY <1>1, <1>2, <2>1 DEF IInv, AllocBehind, TypeOK
  <2> QED
    BY <1>1, <2>1, <2>2, <2>3 DEF IInv
<1> QED
  BY <1>3, <1>4

-----------------------------------------------------------------------------
LEMMA NextIInv == IInv /\ [Next]_vars => IInv'
<1> SUFFICES ASSUME IInv, [Next]_vars PROVE IInv'
  OBVIOUS
<1>1. CASE \E n \in 0 .. MAX_ALLOCS : Check(n)
  BY <1>1, CheckIInv
<1>2. CASE \E words \in 1 .. MAX_ALLOCS : Allocate(words)
  BY <1>2, AllocateIInv
<1>3. CASE AllocateAtNull \/ FreeHeap \/ OutOfHeap \/ MallocFails
  <2>1. \E how \in Stopped : Stop(how)
    BY <1>3 DEF AllocateAtNull, FreeHeap, OutOfHeap, MallocFails, Stopped
  <2>2. pc # "heap_too_small"
    BY <1>3 DEF AllocateAtNull, FreeHeap, OutOfHeap, MallocFails, CalledNoGC
  <2> QED
    BY <2>1, <2>2, StopIInv
<1>4. CASE CreateHeap
  BY <1>4, CreateHeapIInv
<1>5. CASE CollectFresh \/ CollectIntoNull
  BY <1>5, FakeIInv
<1>6. CASE UNCHANGED vars
  BY <1>6 DEF vars, IInv, TypeOK, AllocBehind, OneBlock
<1> QED
  BY <1>1, <1>2, <1>3, <1>4, <1>5, <1>6 DEF Next

THEOREM Invariance == Spec => []IInv
<1> QED
  BY InitIInv, NextIInv, PTL DEF Spec

-----------------------------------------------------------------------------
\* alloc, limit and the blocks keep their types; in particular no promise of
\* words is ever overdrawn.
THEOREM TypeCorrect == Spec => []TypeOK
<1>1. IInv => TypeOK
  BY DEF IInv
<1> QED
  BY <1>1, Invariance, PTL

\* nogc.c: every object is in memory that was malloc'ed for it.
THEOREM NoGCStaysInside == Spec => []WrittenInBlocks
<1>1. IInv => WrittenInBlocks
  <2> SUFFICES ASSUME IInv, collector = "nogc", NEW w \in written
               PROVE  w[2] < blocks[w[1]]
    BY DEF WrittenInBlocks
  <2>1. blocks = <<SIZE>> /\ block = 1 /\ alloc + budget <= SIZE
    BY DEF IInv, OneBlock, TypeOK
  <2>2. w[1] = 1
    BY <2>1 DEF IInv, TypeOK
  <2>3. w[2] \in Nat /\ w[2] < alloc
    BY <2>1, <2>2 DEF IInv, AllocBehind, TypeOK
  <2>4. w[2] < SIZE
    BY <2>1, <2>3, ReplacementAssumption DEF IInv, TypeOK
  <2> QED
    BY <2>1, <2>2, <2>4
<1> QED
  BY <1>1, Invariance, PTL

\* nogc.c and fakegc.c: no function is given a word that an object occupies.
THEOREM ObjectsNeverOverwritten == Spec => NothingOverwritten
<1> DEFINE Clear == block' = block => written \cap ({block} \X (alloc .. alloc' - 1)) = {}
<1>1. IInv /\ [Next]_vars => [Clear]_vars
  <2> SUFFICES ASSUME IInv, NEW w \in written,
                      w \in {block} \X (alloc .. alloc' - 1)
               PROVE  FALSE
    OBVIOUS
  <2>1. w[1] = block /\ w[2] \in alloc .. alloc' - 1
    OBVIOUS
  <2>2. w[2] < alloc /\ w[2] \in Nat /\ alloc \in Nat
    BY <2>1 DEF IInv, AllocBehind, TypeOK
  <2> QED
    BY <2>1, <2>2
<1> QED
  BY <1>1, Invariance, PTL DEF Spec, NothingOverwritten

\* nogc.c is an implementation of gc.h: objects stay as they are, and a call that
\* returns leaves the room that was asked for.
THEOREM NoGCImplementsInterface == Spec => ImplementsInterface
<1> DEFINE Step == collector = "nogc" => [Interface!Next]_(Interface!vars)
<1>1. IInv /\ [Next]_vars => [Step]_vars
  <2> USE DEF Stopped
  <2> SUFFICES ASSUME IInv, Next, collector = "nogc"
               PROVE  [Interface!Next]_(Interface!vars)
    OBVIOUS
  <2>1. CASE \/ \E n \in 0 .. MAX_ALLOCS : Check(n)
             \/ \E words \in 1 .. MAX_ALLOCS : Allocate(words)
             \/ FreeHeap
    <3>1. pc = "mutator" /\ pc' \in {"mutator", "garbage_collect", "done"}
      BY <2>1 DEF Check, Allocate, FreeHeap, Stop
    <3>2. Interface!Mutate
      BY <3>1 DEF Interface!Mutate
    <3> QED
      BY <3>2 DEF Interface!Next
  <2>2. CASE AllocateAtNull
    BY <2>2, ReplacementAssumption DEF AllocateAtNull, IInv, OneBlock
  <2>3. CASE OutOfHeap \/ MallocFails
    <3>1. pc = "garbage_collect" /\ pc' \in {"crashed", "out_of_heap"}
      BY <2>3 DEF OutOfHeap, CalledNoGC, MallocFails, Stop
    <3>2. Interface!Abort
      BY <3>1 DEF Interface!Abort
    <3> QED
      BY <3>2 DEF Interface!Next
  <2>4. CASE CreateHeap
    <3>1. /\ pc = "garbage_collect" /\ blocks' = <<SIZE>>
          /\ UNCHANGED <<num_allocs, written>>
      BY <2>4 DEF CreateHeap, CalledNoGC
    <3>2. CASE pc' = "heap_too_small"
      <4>1. Interface!Abort
        BY <3>1, <3>2 DEF Interface!Abort
      <4> QED
        BY <4>1 DEF Interface!Next
    <3>3. CASE pc' # "heap_too_small"
      <4>1. pc' = "mutator" /\ alloc' = 0 /\ limit' = SIZE /\ ~ (SIZE < num_allocs)
        BY <2>4, <3>1, <3>3 DEF CreateHeap, Resume
      <4>2. limit' - alloc' >= num_allocs
        BY <4>1, ReplacementAssumption DEF IInv, TypeOK
      <4>3. Interface!Return
        BY <3>1, <4>1, <4>2 DEF Interface!Return
      <4> QED
        BY <4>3 DEF Interface!Next
    <3> QED
      BY <3>2, <3>3
  <2>5. ~ (CollectFresh \/ CollectIntoNull)
    BY DEF CollectFresh, CollectIntoNull, CalledFakeGC
  <2> QED
    BY <2>1, <2>2, <2>3, <2>4, <2>5 DEF Next
<1> QED
  BY <1>1, Invariance, PTL DEF Spec, ImplementsInterface
=============================================================================
