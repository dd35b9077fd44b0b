----------------------- MODULE RegisterMutatorProofs -----------------------
(***************************************************************************)
(* The safety of the programs that keep alloc and limit in registers,      *)
(* proved for every heap, headroom and number of insertions.               *)
(*                                                                         *)
(* While such a program runs, the invariant of GenerationsProofs does not  *)
(* hold of ti->alloc and ti->limit: they are stale, or moved.  It holds    *)
(* from the call of the collector to the reload of the registers, so its   *)
(* lemmas are reused for the collector's steps.                            *)
(***************************************************************************)
EXTENDS RegisterMutator, GenerationsProofs

Programs == {"gctest2", "gctest3", "gctest4"}

RegTypeOK ==
    /\ heap \in {"null", "live"}
    /\ size \in [Gens -> Nat] /\ next \in [Gens -> Nat]
    /\ alloc \in Nat /\ limit \in Int
    /\ budget \in 0 .. MAX_ALLOCS /\ num_allocs \in 0 .. MAX_ALLOCS
    /\ gen \in Gens
    /\ pc \in {"mutator", "garbage_collect", "collect"} \cup Stopped
    /\ program \in Programs
    /\ fun \in DOMAIN FunInfo
    /\ code \in {"entry", "collecting", "body", "done"}
    /\ allocx \in Nat /\ limitx \in Int
    /\ runs \in Nat /\ runs >= 1

\* The first check of buildx collects, in gctest3 and gctest4: there is no heap
\* yet, or build is called again.
FirstCheck(register) ==
    code = "entry" /\ register <= allocx /\ (runs > 1 \/ heap = "null")

\* Where limit and limitx stand while the mutator runs.
Limits ==
    /\ program = "gctest2" => limit = size[0]
    /\ program = "gctest3" => limit = size[0] - HEADROOM \/ FirstCheck(limit)
    /\ program = "gctest4" =>
           /\ limitx = size[0] - HEADROOM \/ FirstCheck(limitx)
           /\ limit = size[0] \/ (FirstCheck(limitx) /\ runs > 1)

RegIInv ==
    /\ RegTypeOK
    /\ Grows
    /\ \A i \in Gens : next[i] <= size[i]
    /\ pc \in {"mutator", "garbage_collect"} => FitsFrom(0)
    /\ pc # "mutator" => code = "collecting"
    /\ IF code = "collecting" THEN alloc + budget <= size[0]
       ELSE allocx + budget <= size[0] /\ Limits
    /\ code = "body" => budget = FunInfo[fun]
    /\ code = "done" => alloc = allocx
    /\ code = "collecting" =>
           /\ num_allocs = FunInfo[fun]
           /\ pc \notin Stopped \cup {"garbage_collect"} => limit = size[0]
           /\ pc = "mutator" => budget = num_allocs
           /\ limit = size[0] /\ AssertionsHold => IInv
           /\ heap = "live" /\ (runs = 1 \/ program = "gctest2")
                 /\ pc = "garbage_collect" => limit = size[0]
    /\ CollectorAssertions
-----------------------------------------------------------------------------
\* What the functions announce is less than the headroom.
LEMMA FunInfoBounds ==
    \A f \in DOMAIN FunInfo :
        FunInfo[f] \in 0 .. MAX_ALLOCS /\ FunInfo[f] < HEADROOM
  BY FunInfoAssumption, HeadroomAssumption, MaxAllocsAssumption DEF FunInfo

LEMMA RegInitIInv == RegInit => RegIInv
<1> SUFFICES ASSUME RegInit PROVE RegIInv
  OBVIOUS
<1> USE MaxSpacesAssumption, MaxAllocsAssumption DEF RegInit
<1>1. IInv
  BY InitIInv
<1>2. limit = 0 /\ size = AllEmpty /\ size[0] = 0
  BY NurseryAssumption DEF Init, AllEmpty, Gens
<1>3. RegTypeOK
  BY <1>1 DEF RegTypeOK, IInv, TypeOK, Init, Programs, FunInfo
<1> QED
  BY <1>1, <1>2, <1>3
     DEF RegIInv, IInv, Bounded, Progress, Init, Limits, FirstCheck, Programs,
         CollectorAssertions

-----------------------------------------------------------------------------
(* The programs. *)

LEMMA EnterStep == RegIInv /\ Enter => RegIInv'
<1> SUFFICES ASSUME RegIInv, Enter PROVE RegIInv'
  OBVIOUS
<1> USE MaxSpacesAssumption, MaxAllocsAssumption, HeadroomAssumption
<1> DEFINE n == FunInfo[fun]
<1>1. /\ pc = "mutator" /\ code = "entry" /\ num_allocs' = n
      /\ UNCHANGED <<heap, size, next, gen>>
      /\ UNCHANGED <<program, fun, allocx, limitx, frames, inserted, runs>>
  BY DEF Enter
<1>2. /\ n \in 0 .. MAX_ALLOCS /\ n < HEADROOM
      /\ size \in [Gens -> Nat] /\ size[0] \in Nat
      /\ allocx + budget <= size[0] /\ Limits /\ FitsFrom(0)
      /\ Grows /\ \A i \in Gens : next[i] <= size[i]
  BY <1>1, FunInfoBounds DEF RegIInv, RegTypeOK, Gens
<1>3. RegTypeOK
  BY DEF RegIInv
<1>4. Grows' /\ FitsFrom(0)' /\ \A i \in Gens : next'[i] <= size'[i]
  BY <1>1, <1>2 DEF Grows, FitsFrom, Fits, Free, Exists
<1>5. CASE code' = "collecting"
  <2>1. /\ alloc' = allocx /\ pc' = "garbage_collect" /\ budget' = budget
        /\ limit' = (IF program = "gctest3" THEN limit + HEADROOM ELSE limit)
    BY <1>5 DEF Enter, CallLimit2, CallLimit3
  <2>2. RegTypeOK'
    BY <1>1, <1>2, <1>3, <1>5, <2>1 DEF RegTypeOK
  <2>3. limit' = size[0] => IInv'
    BY <1>1, <1>2, <1>4, <2>1, <2>2
       DEF IInv, RegTypeOK, TypeOK, Running, Bounded, Progress, AssertionsHold,
           RanOutOnlyWhenFull
  <2>4. heap = "live" /\ (runs = 1 \/ program = "gctest2") => limit' = size[0]
    BY <1>2, <1>3, <2>1 DEF Limits, FirstCheck, RegTypeOK, Programs
  <2> QED
    BY <1>1, <1>2, <1>4, <1>5, <2>1, <2>2, <2>3, <2>4
       DEF RegIInv, CollectorAssertions, AssertionsHold, Stopped
<1>6. CASE code' = "body"
  <2>1. /\ budget' = n /\ UNCHANGED <<alloc, limit, pc>>
        /\ program = "gctest2" => ~ NeedsGC2(n)
        /\ program = "gctest3" => ~ NeedsGC3(n)
        /\ program = "gctest4" => ~ NeedsGC4(n)
    BY <1>6 DEF Enter
  <2>2. RegTypeOK'
    BY <1>1, <1>2, <1>3, <1>6, <2>1 DEF RegTypeOK
  <2>3. allocx + n <= size[0]
    <3>1. allocx \in Nat /\ budget \in Nat /\ limit \in Int /\ limitx \in Int
      BY <1>3 DEF RegTypeOK
    <3>2. CASE program = "gctest2"
      BY <3>1, <3>2, <2>1, <1>2 DEF NeedsGC2, Limits
    <3>3. CASE program = "gctest3"
      BY <3>1, <3>3, <2>1, <1>2 DEF NeedsGC3, Limits, FirstCheck
    <3>4. CASE program = "gctest4"
      BY <3>1, <3>4, <2>1, <1>2 DEF NeedsGC4, Limits, FirstCheck
    <3> QED
      BY <3>2, <3>3, <3>4, <1>3 DEF RegTypeOK, Programs
  <2>4. Limits'
    BY <1>1, <1>2, <1>3, <2>1
       DEF Limits, FirstCheck, NeedsGC3, NeedsGC4, RegTypeOK
  <2> QED
    BY <1>1, <1>2, <1>4, <1>6, <2>1, <2>2, <2>3, <2>4
       DEF RegIInv, CollectorAssertions, AssertionsHold
<1> QED
  BY <1>5, <1>6 DEF Enter

LEMMA CollectedStep == RegIInv /\ Collected => RegIInv'
<1> SUFFICES ASSUME RegIInv, Collected PROVE RegIInv'
  OBVIOUS
<1> USE MaxSpacesAssumption, MaxAllocsAssumption, HeadroomAssumption
<1>1. /\ pc = "mutator" /\ code = "collecting" /\ code' = "body"
      /\ allocx' = alloc
      /\ UNCHANGED <<heap, size, next, alloc, budget, num_allocs, gen, pc>>
      /\ UNCHANGED <<program, fun, frames, inserted, runs>>
  BY DEF Collected
<1>2. /\ limit = size[0] /\ alloc + budget <= size[0]
      /\ budget = num_allocs /\ num_allocs = FunInfo[fun]
      /\ RegTypeOK /\ size[0] \in Nat
  BY <1>1 DEF RegIInv, RegTypeOK, Stopped, Gens
<1>3. /\ program = "gctest2" => UNCHANGED <<limit, limitx>>
      /\ program = "gctest3" => limit' = limit - HEADROOM /\ UNCHANGED limitx
      /\ program = "gctest4" => limitx' = limit - HEADROOM /\ UNCHANGED limit
  BY <1>2 DEF Collected, Reload2, Reload3, Reload4
<1>4. RegTypeOK'
  BY <1>1, <1>2, <1>3 DEF RegTypeOK, Programs
<1>5. Limits'
  BY <1>1, <1>2, <1>3 DEF Limits
<1>6. Grows' /\ FitsFrom(0)' /\ \A i \in Gens : next'[i] <= size'[i]
  BY <1>1 DEF RegIInv, Grows, FitsFrom, Fits, Free, Exists
<1> QED
  BY <1>1, <1>2, <1>4, <1>5, <1>6 DEF RegIInv, CollectorAssertions, AssertionsHold

\* A function body allocates what its check has found room for, and jumps.
LEMMA BodyStep ==
    RegIInv /\ (InsertHere \/ InsertDown \/ InsertRebuild \/ BuildNext) => RegIInv'
<1> SUFFICES ASSUME RegIInv,
                    InsertHere \/ InsertDown \/ InsertRebuild \/ BuildNext
             PROVE  RegIInv'
  OBVIOUS
<1> USE MaxSpacesAssumption, MaxAllocsAssumption
<1>1. /\ pc = "mutator" /\ code = "body"
      /\ \E f \in DOMAIN FunInfo : Jump(f)
      /\ \E words \in 0 .. FunInfo[fun] : Cons(words)
  <2>1. CASE InsertHere
    BY <2>1 DEF InsertHere, Body, Return, FunInfo
  <2>2. CASE InsertDown
    BY <2>2 DEF InsertDown, Body, FunInfo
  <2>3. CASE InsertRebuild
    BY <2>3 DEF InsertRebuild, Body, FunInfo
  <2>4. CASE BuildNext
    BY <2>4 DEF BuildNext, Body, FunInfo
  <2> QED
    BY <2>1, <2>2, <2>3, <2>4
<1>2. PICK f \in DOMAIN FunInfo : Jump(f)
  BY <1>1
<1>3. PICK words \in 0 .. FunInfo[fun] : Cons(words)
  BY <1>1
<1>4. /\ RegTypeOK /\ budget = FunInfo[fun]
      /\ FunInfo[fun] \in 0 .. MAX_ALLOCS
      /\ allocx + budget <= size[0] /\ Limits
  BY <1>1, FunInfoBounds DEF RegIInv, RegTypeOK
<1>5. /\ allocx' \in Nat /\ budget' \in 0 .. MAX_ALLOCS
      /\ allocx' + budget' = allocx + budget
  BY <1>3, <1>4 DEF Cons, RegTypeOK
<1>6. RegTypeOK'
  BY <1>2, <1>4, <1>5 DEF Jump, RegTypeOK
<1>7. Limits'
  BY <1>1, <1>2, <1>4 DEF Jump, Limits, FirstCheck
<1>8. Grows' /\ FitsFrom(0)' /\ \A i \in Gens : next'[i] <= size'[i]
  BY <1>1, <1>2 DEF RegIInv, Jump, Grows, FitsFrom, Fits, Free, Exists
<1> QED
  BY <1>1, <1>2, <1>4, <1>5, <1>6, <1>7, <1>8
     DEF RegIInv, Jump, CollectorAssertions, AssertionsHold

\* build stores alloc when it returns, and is called again.
LEMMA BuildStep == RegIInv /\ (BuildDone \/ BuildAgain) => RegIInv'
<1> SUFFICES ASSUME RegIInv, BuildDone \/ BuildAgain PROVE RegIInv'
  OBVIOUS
<1> USE MaxSpacesAssumption, MaxAllocsAssumption
<1>1. /\ pc = "mutator" /\ code \in {"body", "done"} /\ RegTypeOK
      /\ allocx + budget <= size[0] /\ Limits
  BY DEF RegIInv, BuildDone, BuildAgain, Body
<1>2. UNCHANGED <<heap, size, next, budget, num_allocs, gen, pc, program>>
  BY DEF BuildDone, BuildAgain
<1>3. Grows' /\ FitsFrom(0)' /\ \A i \in Gens : next'[i] <= size'[i]
  BY <1>1, <1>2 DEF RegIInv, Grows, FitsFrom, Fits, Free, Exists
<1>4. CASE BuildDone
  <2>1. RegTypeOK' /\ Limits'
    BY <1>1, <1>2, <1>4 DEF BuildDone, Body, RegTypeOK, Limits, FirstCheck
  <2> QED
    BY <1>1, <1>2, <1>3, <1>4, <2>1
       DEF BuildDone, Body, RegIInv, CollectorAssertions, AssertionsHold
<1>5. CASE BuildAgain
  <2>1. /\ code = "done" /\ runs' = runs + 1 /\ runs >= 1 /\ runs \in Nat
        /\ limit' = (IF program = "gctest2" THEN limit ELSE alloc)
        /\ limitx' = limit' /\ allocx' = alloc /\ alloc' = alloc
        /\ fun' = "buildx" /\ code' = "entry" /\ alloc = allocx
    BY <1>1, <1>5 DEF BuildAgain, RegIInv, RegTypeOK
  <2>2. RegTypeOK'
    BY <1>1, <1>2, <2>1 DEF RegTypeOK, FunInfo
  <2>3. Limits'
    BY <1>1, <1>2, <2>1 DEF Limits, FirstCheck, RegTypeOK
  <2> QED
    BY <1>1, <1>2, <1>3, <2>1, <2>2, <2>3
       DEF RegIInv, CollectorAssertions, AssertionsHold
<1> QED
  BY <1>4, <1>5

-----------------------------------------------------------------------------
(* The collector. *)

\* A collection that finds limit at the end of the nursery is one of module
\* Generations.
LEMMA CollectStep ==
    RegIInv /\ Collect /\ UNCHANGED regVars => RegIInv'
<1> SUFFICES ASSUME RegIInv, Collect, UNCHANGED regVars PROVE RegIInv'
  OBVIOUS
<1> USE MaxSpacesAssumption, MaxAllocsAssumption, NurseryAssumption DEF regVars
<1>1. RegTypeOK /\ size[0] \in Nat
  BY DEF RegIInv, RegTypeOK, Gens
<1>2. /\ pc \in {"garbage_collect", "collect"} /\ code = "collecting"
      /\ pc = "collect" => limit = size[0] /\ heap = "live"
      /\ num_allocs = FunInfo[fun] /\ alloc + budget <= size[0]
      /\ AssertionsHold
  <2>1. pc \in {"garbage_collect", "collect"}
    BY <1>1 DEF RegTypeOK, Stopped, Collect, CreateHeap, StartCollection,
         CreateNextSpace, CollectGeneration, RanOutOfGenerations,
         CollectAllGeneration, CollectAllReturn, ExportCopy, ExportCompact,
         MallocFails
  <2>2. code = "collecting" /\ AssertionsHold
    BY <2>1 DEF RegIInv, AssertionsHold
  <2>3. pc = "collect" => limit = size[0]
    BY <2>2 DEF RegIInv, Stopped
  <2>4. pc = "collect" => heap = "live"
    BY <2>2, <2>3 DEF RegIInv, IInv, Progress
  <2> QED
    BY <2>1, <2>2, <2>3, <2>4 DEF RegIInv
<1>3. CASE heap = "live" /\ limit = size[0]
  <2>1. IInv
    BY <1>2, <1>3 DEF RegIInv
  <2>2. IInv'
    BY <2>1, NextIInv DEF Next
  <2>3. /\ heap' = "live" /\ num_allocs' = num_allocs
        /\ pc' \in {"mutator", "collect"} \cup Stopped
        /\ pc' = "mutator" => budget' = num_allocs /\ limit' = size'[0]
        /\ pc' = "collect" => limit' = size'[0]
    <3>1. CASE StartCollection \/ CreateNextSpace \/ RanOutOfGenerations
      BY <3>1, <1>2, <1>3, <2>2
         DEF StartCollection, CreateNextSpace, RanOutOfGenerations, Stop, Stopped,
             IInv, Bounded, Running
    <3>2. CASE CollectGeneration
      BY <3>2, <1>2, <1>3, <2>2
         DEF CollectGeneration, Resume, Stopped, IInv, Bounded, Running
    <3>3. CASE MallocFails
      BY <3>3, <1>2, <1>3 DEF MallocFails, Stop, Stopped
    <3> QED
      BY <3>1, <3>2, <3>3, <1>2, <1>3
         DEF Collect, CreateHeap, CollectAllGeneration, CollectAllReturn,
             ExportCopy, ExportCompact
  <2>4. alloc' + budget' <= size'[0]
    <3>1. CASE pc' \in Running
      BY <3>1, <2>2 DEF IInv, Bounded
    <3>2. CASE pc' \in Stopped
      BY <3>2, <1>2, <1>3, <1>1
         DEF Collect, StartCollection, CreateNextSpace, CollectGeneration, Resume,
             RanOutOfGenerations, MallocFails, Stop, Stopped, CreateHeap,
             CollectAllGeneration, CollectAllReturn, ExportCopy, ExportCompact
    <3> QED
      BY <3>1, <3>2, <2>3 DEF Running
  <2>5. RegTypeOK'
    BY <1>1, <2>2, <2>3 DEF RegTypeOK, IInv, TypeOK
  <2>6. /\ Grows' /\ AssertionsHold' /\ \A i \in Gens : next'[i] <= size'[i]
        /\ pc' = "mutator" => FitsFrom(0)'
    BY <2>2 DEF IInv, Bounded, Progress
  <2>7. pc' # "garbage_collect"
    BY <2>3 DEF Stopped
  <2>8. code' = "collecting" /\ num_allocs' = FunInfo[fun']
    BY <1>2, <2>3
  <2>9. pc' \notin Stopped \cup {"garbage_collect"} => limit' = size'[0]
    BY <2>3
  <2> QED
    BY <2>2, <2>3, <2>4, <2>5, <2>6, <2>7, <2>8, <2>9
       DEF RegIInv, CollectorAssertions
<1>4. CASE heap = "live" /\ limit # size[0]
  <2>1. StartCollection /\ pc = "garbage_collect"
    BY <1>2, <1>4
       DEF Collect, CreateHeap, StartCollection, CreateNextSpace,
           CollectGeneration, RanOutOfGenerations, CollectAllGeneration,
           CollectAllReturn, ExportCopy, ExportCompact, MallocFails
  <2>2. /\ pc' = "assert_failed" /\ gen' = 0 /\ next' = [next EXCEPT ![0] = alloc]
        /\ UNCHANGED <<heap, size, alloc, limit, budget, num_allocs>>
    BY <2>1, <1>4 DEF StartCollection
  <2>3. ~ (runs = 1 \/ program = "gctest2")
    BY <2>1, <1>2, <1>4 DEF RegIInv
  <2>4. alloc <= size[0] /\ 0 \in Gens
    BY <1>1, <1>2 DEF RegTypeOK, Gens
  <2>5. RegTypeOK' /\ Grows' /\ \A i \in Gens : next'[i] <= size'[i]
    BY <2>2, <2>4, <1>1 DEF RegIInv, RegTypeOK, Stopped, Grows, Exists
  <2> QED
    BY <1>2, <2>2, <2>3, <2>5
       DEF RegIInv, Stopped, CollectorAssertions, AssertionsHold
<1>5. CASE heap = "null"
  <2>1. pc = "garbage_collect" /\ (CreateHeap \/ MallocFails)
    BY <1>2, <1>5
       DEF Collect, CreateHeap, StartCollection, CreateNextSpace,
           CollectGeneration, RanOutOfGenerations, CollectAllGeneration,
           CollectAllReturn, ExportCopy, ExportCompact, MallocFails
  <2>2. size = AllEmpty /\ size[0] = 0 /\ alloc = 0 /\ budget = 0
    BY <1>1, <1>2, <1>5 DEF RegIInv, Grows, AllEmpty, Gens, RegTypeOK
  <2>3. CASE CreateHeap
    <3>1. /\ heap' = "live" /\ size' = NurseryOnly /\ next' = AllEmpty
          /\ size'[0] = NURSERY_SIZE /\ UNCHANGED <<num_allocs, gen>>
          /\ Resume(num_allocs)
      BY <2>3 DEF CreateHeap, NurseryOnly, Gens
    <3>2. /\ size' \in [Gens -> Nat] /\ next' \in [Gens -> Nat]
          /\ Grows' /\ FitsFrom(0)' /\ \A i \in Gens : next'[i] <= size'[i]
      BY <3>1 DEF NurseryOnly, AllEmpty, Gens, Grows, FitsFrom, Fits, Free, Exists
    <3>3. \/ pc' = "nursery_too_small" /\ UNCHANGED <<alloc, limit, budget>>
          \/ /\ pc' = "mutator" /\ alloc' = 0 /\ limit' = size'[0]
             /\ budget' = num_allocs /\ num_allocs <= size'[0]
      BY <3>1, <1>1 DEF Resume, RegTypeOK
    <3>4. RegTypeOK'
      BY <3>1, <3>2, <3>3, <1>1 DEF RegTypeOK, Stopped
    <3>5. alloc' + budget' <= size'[0]
      BY <3>1, <3>3, <2>2, <1>1 DEF RegTypeOK
    <3>6. limit' = size'[0] => IInv'
      BY <3>1, <3>2, <3>3, <3>4, <3>5
         DEF IInv, RegTypeOK, TypeOK, Running, Bounded, Progress, AssertionsHold,
             RanOutOnlyWhenFull
    <3> QED
      BY <3>1, <3>2, <3>3, <3>4, <3>5, <3>6, <1>2
         DEF RegIInv, Stopped, CollectorAssertions, AssertionsHold
  <2>4. CASE MallocFails
    <3>1. /\ pc' = "no_memory"
          /\ UNCHANGED <<heap, size, next, alloc, limit, budget, num_allocs, gen>>
      BY <2>4 DEF MallocFails, Stop
    <3>2. RegTypeOK' /\ Grows' /\ \A i \in Gens : next'[i] <= size'[i]
      BY <3>1, <1>1 DEF RegIInv, RegTypeOK, Stopped, Grows, Exists
    <3>3. limit' = size'[0] => IInv'
      BY <3>1, <3>2, <1>1, <1>2
         DEF RegIInv, RegTypeOK, IInv, TypeOK, Running, Stopped, Bounded, Progress,
             AssertionsHold, RanOutOnlyWhenFull
    <3> QED
      BY <3>1, <3>2, <3>3, <1>2
         DEF RegIInv, Stopped, CollectorAssertions, AssertionsHold
  <2> QED
    BY <2>1, <2>3, <2>4
<1> QED
  BY <1>1, <1>3, <1>4, <1>5 DEF RegTypeOK

LEMMA RegNextIInv == RegIInv /\ [RegNext]_allVars => RegIInv'
<1> SUFFICES ASSUME RegIInv, [RegNext]_allVars PROVE RegIInv'
  OBVIOUS
<1>1. CASE UNCHANGED allVars
  BY <1>1
     DEF allVars, vars, regVars, RegIInv, RegTypeOK, Grows, FitsFrom, Fits, Free,
         Exists, FirstCheck, Limits, AssertionsHold, CollectorAssertions,
         IInv, TypeOK, Bounded, Progress, EmptyBelow, RanOutOnlyWhenFull
<1>2. CASE Run
  BY <1>2, EnterStep, CollectedStep, BodyStep, BuildStep DEF Run
<1> QED
  BY <1>1, <1>2, CollectStep DEF RegNext

THEOREM RegInvariance == RegSpec => []RegIInv
<1> QED
  BY RegInitIInv, RegNextIInv, PTL DEF RegSpec

-----------------------------------------------------------------------------
\* gctest2.c, gctest3.c and gctest4.c: what a function allocates lies in the
\* nursery, though it compares register copies, one of them lowered by HEADROOM.
THEOREM RegistersStayInNursery == RegSpec => []RegistersInNursery
<1>1. RegIInv => RegistersInNursery
  BY DEF RegIInv, RegistersInNursery
<1> QED
  BY <1>1, RegInvariance, PTL

\* The collector finds limit where gc.c asserts it is, in the first call of build.
THEOREM RegistersRestored == RegSpec => []CollectorAssertions
<1>1. RegIInv => CollectorAssertions
  BY DEF RegIInv
<1> QED
  BY <1>1, RegInvariance, PTL
=============================================================================
