---------------------------- MODULE Generations ----------------------------
(***************************************************************************)
(* The generation management of the CertiCoq runtime, theories/Runtime/    *)
(* gc.c: which spaces exist, how many words of each are in use, where the  *)
(* mutator's alloc and limit pointers stand, and how garbage_collect,      *)
(* garbage_collect_all, export, reset_heap and free_heap move them.        *)
(*                                                                         *)
(* Objects are left out: a collection of generation i lets an arbitrary    *)
(* number of its words survive.  Module Collector models the copying; it   *)
(* implements this module (MCCollector checks the refinement).             *)
(*                                                                         *)
(* Pointers are word offsets from the start of their space.                *)
(***************************************************************************)
EXTENDS Integers

CONSTANTS
    MAX_SPACES,     \* how many generations
    NURSERY_SIZE,   \* words of generation 0
    RATIO,          \* size of generation i+1 / size of generation i
    MAX_ALLOCS      \* bound: no function asks for more than this many words

ASSUME MaxSpacesAssumption == MAX_SPACES \in Nat /\ MAX_SPACES >= 2
ASSUME NurseryAssumption   == NURSERY_SIZE \in Nat \ {0}
ASSUME RatioAssumption     == RATIO \in Nat \ {0}
ASSUME MaxAllocsAssumption == MAX_ALLOCS \in Nat

(***************************************************************************)
(* garbage_collect keeps the size of a space in an int (w) and multiplies  *)
(* it there by RATIO.  Sizes are unbounded numbers below; they may be,     *)
(* since the largest one fits an int.  The shipped values give 2^27.       *)
(***************************************************************************)
ASSUME SizesFitInt == NURSERY_SIZE * RATIO^(MAX_SPACES - 1) <= 2147483647

Gens == 0 .. MAX_SPACES - 1

VARIABLES
    heap,        \* ti->heap: "null", "live" or "freed" (a dangling pointer)
    size,        \* limit - start of each space, 0 while start == NULL
    next,        \* next - start of each space
    alloc,       \* ti->alloc, an offset into generation 0
    limit,       \* ti->limit, an offset into generation 0
    budget,      \* words the running function may still allocate of its fi[0]
    num_allocs,  \* fi[0] of the running function, or of the collection in progress
    gen,         \* loop variable i of the collection in progress
    pc           \* who runs, or how the process stopped

vars == <<heap, size, next, alloc, limit, budget, num_allocs, gen, pc>>

Running == {"mutator", "garbage_collect", "collect", "collect_all", "export",
            "compact"}
Stopped == {"done", "assert_failed", "no_memory", "nursery_too_small",
            "ran_out_of_generations"}

TypeOK ==
    /\ heap \in {"null", "live", "freed"}
    /\ size \in [Gens -> Nat]
    /\ next \in [Gens -> Nat]
    /\ alloc \in Nat
    /\ limit \in Nat
    /\ budget \in 0 .. MAX_ALLOCS
    /\ num_allocs \in 0 .. MAX_ALLOCS
    /\ gen \in Gens
    /\ pc \in Running \cup Stopped

-----------------------------------------------------------------------------
(* Spaces. *)

Exists(i) == size[i] > 0                       \* start != NULL
Free(i)   == size[i] - next[i]                 \* limit - next
InUse(i)  == IF i = 0 THEN alloc ELSE next[i]  \* the words objects occupy

NurseryOnly == [i \in Gens |-> IF i = 0 THEN NURSERY_SIZE ELSE 0]
AllEmpty    == [i \in Gens |-> 0]

\* If there is this much room in gen i+1, the next collection into it succeeds.
Fits(i) == size[i] <= Free(i + 1)

-----------------------------------------------------------------------------
(* A program starts with the thread_info of make_tinfo, or with a static   *)
(* one whose heap is NULL and whose alloc and limit are equal (gctest2.c). *)

Init ==
    /\ \/ heap = "live" /\ size = NurseryOnly /\ limit = NURSERY_SIZE
       \/ heap = "null" /\ size = AllEmpty    /\ limit = 0
    /\ next = AllEmpty
    /\ alloc = 0
    /\ budget = 0
    /\ num_allocs = 0
    /\ gen = 0
    /\ pc = "mutator"

Stop(how) ==
    /\ pc' = how
    /\ UNCHANGED <<heap, size, next, alloc, limit, budget, num_allocs, gen>>

-----------------------------------------------------------------------------
(* The mutator. *)

\* (mutant) off by one: a function starts one word short
ShortOffByOne(n) == alloc <= limit /\ limit - alloc + 1 < n

\* The test of check(fi) is unsigned: a negative limit - alloc would pass it.
Short(n) == alloc <= limit /\ limit - alloc < n

\* A function starts: it calls the collector unless it has n words left.
Check(n) ==
    /\ pc = "mutator"
    /\ heap # "freed"
    /\ num_allocs' = n
    /\ IF Short(n)
       THEN pc' = "garbage_collect" /\ UNCHANGED budget
       ELSE budget' = n /\ UNCHANGED pc
    /\ UNCHANGED <<heap, size, next, alloc, limit, gen>>

\* (mutant) more words than fi[0] announced
AllocateUnannounced(words) ==
    /\ pc = "mutator"
    /\ budget > 0
    /\ alloc' = alloc + words
    /\ budget' = budget - words
    /\ UNCHANGED <<heap, size, next, limit, num_allocs, gen, pc>>

\* consN: N+1 words from alloc, without a test.
Allocate(words) ==
    /\ pc = "mutator"
    /\ words <= budget
    /\ alloc' = alloc + words
    /\ budget' = budget - words
    /\ UNCHANGED <<heap, size, next, limit, num_allocs, gen, pc>>

-----------------------------------------------------------------------------
(* garbage_collect. *)

\* (mutant) without the test for num_allocs
ResumeUntested(n) ==
    /\ pc' = "mutator"
    /\ alloc' = 0
    /\ limit' = size'[0]
    /\ budget' = n

\* (mutant) limit is where the words asked for end
ResumeExact(n) ==
    /\ pc' = IF size'[0] < n THEN "nursery_too_small" ELSE "mutator"
    /\ alloc' = 0
    /\ limit' = n
    /\ budget' = n

\* Back to the function that called: the whole nursery is its to allocate from.
Resume(n) ==
    IF size'[0] < n
    THEN /\ pc' = "nursery_too_small"
         /\ UNCHANGED <<alloc, limit, budget>>
    ELSE /\ pc' = "mutator"
         /\ alloc' = 0
         /\ limit' = size'[0]
         /\ budget' = n

CreateHeap ==
    /\ pc = "garbage_collect"
    /\ heap = "null"
    /\ heap' = "live"
    /\ size' = NurseryOnly
    /\ next' = AllEmpty
    /\ Resume(num_allocs)
    /\ UNCHANGED <<num_allocs, gen>>

StartCollection ==
    /\ pc = "garbage_collect"
    /\ heap = "live"
    /\ next' = [next EXCEPT ![0] = alloc]
    /\ gen' = 0
    /\ pc' = IF size[0] = limit THEN "collect" ELSE "assert_failed"
    /\ UNCHANGED <<heap, size, alloc, limit, budget, num_allocs>>

\* do_generation's assertion: all of the from-space could be copied.
RoomForAll(from, to) == next[from] <= Free(to)

\* (mutant) without from->next = from->start
DoGenerationKeepsFrom(from, to) ==
    \E survivors \in 0 .. InUse(from) : next' = [next EXCEPT ![to] = @ + survivors]

\* do_generation: some of the words in use survive into the next space.
DoGeneration(from, to) ==
    \E survivors \in 0 .. InUse(from) :
        next' = [next EXCEPT ![from] = 0, ![to] = @ + survivors]

\* The loop of garbage_collect: the next generation is created on first use ...
CreateNextSpace ==
    /\ pc = "collect"
    /\ gen < MAX_SPACES - 1
    /\ ~ Exists(gen + 1)
    /\ size' = [size EXCEPT ![gen + 1] = RATIO * size[gen]]
    /\ UNCHANGED <<heap, next, alloc, limit, budget, num_allocs, gen, pc>>

\* ... then generation gen is copied into it, and the loop stops if the next
\* collection into it is sure to succeed.
CollectGeneration ==
    /\ pc = "collect"
    /\ gen < MAX_SPACES - 1
    /\ Exists(gen + 1)
    /\ UNCHANGED size
    /\ IF RoomForAll(gen, gen + 1)
       THEN /\ DoGeneration(gen, gen + 1)
            /\ IF size[gen] <= size[gen + 1] - next'[gen + 1]
               THEN Resume(num_allocs) /\ UNCHANGED gen
               ELSE gen' = gen + 1 /\ UNCHANGED <<pc, alloc, limit, budget>>
       ELSE pc' = "assert_failed" /\ UNCHANGED <<next, alloc, limit, budget, gen>>
    /\ UNCHANGED <<heap, num_allocs>>

\* (mutant) the loop stops one generation early
RanOutEarly ==
    /\ pc = "collect"
    /\ gen >= MAX_SPACES - 2
    /\ Stop("ran_out_of_generations")

RanOutOfGenerations ==
    /\ pc = "collect"
    /\ gen = MAX_SPACES - 1
    /\ Stop("ran_out_of_generations")

-----------------------------------------------------------------------------
(* export, called by a main program once the mutator has returned. *)

\* garbage_collect_all: its first test, and a loop that creates no space.  There
\* is a heap by then: a boxed answer has been allocated in it.
ExportStart ==
    /\ pc = "mutator"
    /\ heap = "live"
    /\ gen' = 0
    /\ pc' = IF size[0] = limit THEN "collect_all" ELSE "assert_failed"
    /\ budget' = 0
    /\ num_allocs' = 0
    /\ UNCHANGED <<heap, size, next, alloc, limit>>

MoreGenerations == gen < MAX_SPACES - 1 /\ Exists(gen + 1)

\* (mutant) without i++
CollectAllSameGeneration ==
    /\ pc = "collect_all"
    /\ MoreGenerations
    /\ RoomForAll(gen, gen + 1)
    /\ DoGeneration(gen, gen + 1)
    /\ UNCHANGED <<heap, size, alloc, limit, budget, num_allocs, gen, pc>>

CollectAllGeneration ==
    /\ pc = "collect_all"
    /\ MoreGenerations
    /\ IF RoomForAll(gen, gen + 1)
       THEN DoGeneration(gen, gen + 1) /\ gen' = gen + 1 /\ UNCHANGED pc
       ELSE pc' = "assert_failed" /\ UNCHANGED <<next, gen>>
    /\ UNCHANGED <<heap, size, alloc, limit, budget, num_allocs>>

CollectAllReturn ==
    /\ pc = "collect_all"
    /\ ~ MoreGenerations
    /\ next' = IF gen = 0 THEN [next EXCEPT ![0] = alloc] ELSE next
    /\ pc' = "export"
    /\ UNCHANGED <<heap, size, alloc, limit, budget, num_allocs, gen>>

\* The copy of the collected generation into fake_sp, outside the heap ...
ExportCopy ==
    /\ pc = "export"
    /\ next' = [next EXCEPT ![gen] = 0]
    /\ pc' = "compact"
    /\ UNCHANGED <<heap, size, alloc, limit, budget, num_allocs, gen>>

\* ... and from there into value_sp, which is the result.
ExportCompact ==
    /\ pc = "compact"
    /\ pc' = "mutator"
    /\ UNCHANGED <<heap, size, next, alloc, limit, budget, num_allocs, gen>>

-----------------------------------------------------------------------------
(* malloc fails, wherever a space is created. *)

MallocFails ==
    /\ \/ pc = "garbage_collect" /\ heap = "null"
       \/ pc = "collect" /\ gen < MAX_SPACES - 1 /\ ~ Exists(gen + 1)
       \/ pc \in {"export", "compact"}
    /\ Stop("no_memory")

-----------------------------------------------------------------------------
(* Between two executions of a mutator. *)

\* Only the space descriptors are reset: ti->alloc is out of reset_heap's reach.
ResetHeap ==
    /\ pc = "mutator"
    /\ heap = "live"
    /\ next' = AllEmpty
    /\ budget' = 0
    /\ UNCHANGED <<heap, size, alloc, limit, num_allocs, gen, pc>>

FreeHeap ==
    /\ pc = "mutator"
    /\ heap = "live"
    /\ heap' = "freed"
    /\ pc' = "done"
    /\ UNCHANGED <<size, next, alloc, limit, budget, num_allocs, gen>>

-----------------------------------------------------------------------------
Collect ==
    \/ CreateHeap
    \/ StartCollection
    \/ CreateNextSpace
    \/ CollectGeneration
    \/ RanOutOfGenerations
    \/ CollectAllGeneration
    \/ CollectAllReturn
    \/ ExportCopy
    \/ ExportCompact
    \/ MallocFails

Mutate ==
    \/ \E n \in 0 .. MAX_ALLOCS : Check(n)
    \/ \E words \in 1 .. MAX_ALLOCS : Allocate(words)
    \/ ExportStart
    \/ ResetHeap
    \/ FreeHeap

Next == Mutate \/ Collect

Spec == Init /\ [][Next]_vars

\* The collector runs in the mutator's thread: nothing stops it once called.
FairSpec == Spec /\ WF_vars(Collect)

-----------------------------------------------------------------------------
(* Properties. *)

\* What resume leaves behind: each space could be copied, full, into the next.
\* Without it the assertion in do_generation would fail one collection later.
NextCollectionFits ==
    pc = "mutator" /\ heap = "live" =>
        \A i \in 0 .. MAX_SPACES - 2 : Exists(i + 1) => Fits(i)

\* No assertion of gc.c can fail: neither that the from-space fits the free
\* part of the to-space, nor that the mutator left ti->limit where it was.
AssertionsHold == pc # "assert_failed"

\* No space overflows and the mutator stays in the nursery: the words a
\* function was promised are there, though consN tests nothing.
NoOverrun ==
    /\ heap # "null" => \A i \in Gens : next[i] <= size[i]
    /\ alloc + budget <= limit
    /\ heap = "live" /\ pc \in Running => limit = size[0]

\* gc.h: garbage_collect returns with limit - alloc >= num_allocs.
CollectGivesRoom ==
    [][(pc \in {"garbage_collect", "collect"} /\ pc' = "mutator")
        => limit' - alloc' >= num_allocs]_vars

\* Code that L6_to_Clight.v generates (reserve) loads alloc again after a
\* collection, but not limit, which it stores back into ti when it jumps: that
\* is right because no collection of a heap that exists moves limit.
LimitStays == [][heap = "live" /\ pc' = "mutator" => limit' = limit]_vars

\* A program is stopped for want of generations only when the oldest one,
\* which is never collected, could not take one more full copy.
RanOutOnlyWhenFull ==
    pc = "ran_out_of_generations" =>
        size[MAX_SPACES - 2] > Free(MAX_SPACES - 1)

\* gc.h: reset_heap empties the heap without freeing its storage, so that the
\* next execution has all of the nursery.
ResetEmpties == [][ResetHeap => \A i \in Gens : InUse(i)' = 0]_vars

\* A collection ends: the mutator goes on, or the process stops.
CollectionEnds == pc \in Running \ {"mutator"} ~> pc \in {"mutator"} \cup Stopped
=============================================================================
