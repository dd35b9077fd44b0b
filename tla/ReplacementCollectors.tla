----------------------- MODULE ReplacementCollectors -----------------------
(***************************************************************************)
(* The two implementations of gc.h that collect nothing, meant for         *)
(* debugging.  theories/Runtime/nogc.c has one block of memory, and exits  *)
(* when it is full.  theories/Runtime/fakegc.c mallocs a fresh block at    *)
(* every call of garbage_collect, exactly as large as the calling function *)
(* asked, and sets a limit that leaves no room in it, so that the next     *)
(* function calls again.                                                   *)
(*                                                                         *)
(* Functions check for room and then allocate, as those of gctest.c do.  A *)
(* pointer is a block and an offset in words; block 0 is NULL.  reset_heap *)
(* sets a pointer that nothing reads in the one and nothing in the other.  *)
(***************************************************************************)
EXTENDS Integers, Sequences

CONSTANTS
    SIZE,           \* words of nogc.c's block
    FIRST,          \* words that fakegc.c's create_heap allocates
    MAX_ALLOCS,     \* bound: no function asks for more than this many words
    BLOCKS,         \* bound: how many blocks fakegc.c gives out
    WORDS           \* bound: how many words of a block are written

ASSUME ReplacementAssumption ==
    /\ SIZE \in Nat \ {0}
    /\ FIRST \in Nat \ {0}
    /\ MAX_ALLOCS \in Nat

VARIABLES
    collector,   \* which file the program is linked with
    blocks,      \* the sizes of the blocks malloc has given out
    block,       \* the block ti->alloc and ti->limit point into
    alloc,       \* ti->alloc, an offset into it
    limit,       \* ti->limit, an offset into it
    budget,      \* words the running function may still allocate of its fi[0]
    num_allocs,  \* fi[0] of the running function, or of the call in progress
    written,     \* history: the words, <<block, offset>>, of all objects
    pc           \* who runs, or how the process stopped

vars == <<collector, blocks, block, alloc, limit, budget, num_allocs, written, pc>>

Stopped == {"done", "crashed", "heap_too_small", "out_of_heap"}

TypeOK ==
    /\ collector \in {"nogc", "fakegc"}
    /\ \A i \in DOMAIN blocks : blocks[i] \in Nat
    /\ block \in 0 .. Len(blocks)
    /\ alloc \in Nat
    /\ limit \in Nat
    /\ budget \in 0 .. MAX_ALLOCS
    /\ num_allocs \in 0 .. MAX_ALLOCS
    /\ \A w \in written : w[1] \in DOMAIN blocks /\ w[2] \in Nat
    /\ pc \in {"mutator", "garbage_collect"} \cup Stopped

\* The tinfo of make_tinfo, or a static one whose heap is NULL.  create_heap of
\* fakegc.c puts limit at the start of its block.
Init ==
    /\ \/ collector = "nogc"   /\ blocks = <<SIZE>>  /\ block = 1 /\ limit = SIZE
       \/ collector = "fakegc" /\ blocks = <<FIRST>> /\ block = 1 /\ limit = 0
       \/ collector \in {"nogc", "fakegc"} /\ blocks = <<>> /\ block = 0 /\ limit = 0
    /\ alloc = 0
    /\ budget = 0
    /\ num_allocs = 0
    /\ written = {}
    /\ pc = "mutator"

Stop(how) ==
    /\ pc' = how
    /\ UNCHANGED <<collector, blocks, block, alloc, limit, budget, num_allocs, written>>

-----------------------------------------------------------------------------
(* The mutator. *)

\* (mutant) off by one: a function starts one word short
ShortOffByOne(n) == limit - alloc \in 0 .. n - 2

\* The test of check(fi) is unsigned: with alloc past limit it always passes.
Short(n) == limit - alloc \in 0 .. n - 1

Check(n) ==
    /\ pc = "mutator"
    /\ num_allocs' = n
    /\ IF Short(n)
       THEN pc' = "garbage_collect" /\ UNCHANGED budget
       ELSE budget' = n /\ UNCHANGED pc
    /\ UNCHANGED <<collector, blocks, block, alloc, limit, written>>

\* (mutant) more words than fi[0] announced
AllocateUnannounced(words) ==
    /\ pc = "mutator"
    /\ budget > 0
    /\ block # 0
    /\ alloc < WORDS
    /\ written' = written \cup ({block} \X (alloc .. alloc + words - 1))
    /\ alloc' = alloc + words
    /\ budget' = budget - words
    /\ UNCHANGED <<collector, blocks, block, limit, num_allocs, pc>>

\* consN: N+1 words from alloc, without a test.
Allocate(words) ==
    /\ pc = "mutator"
    /\ words <= budget
    /\ block # 0
    /\ alloc < WORDS
    /\ written' = written \cup ({block} \X (alloc .. alloc + words - 1))
    /\ alloc' = alloc + words
    /\ budget' = budget - words
    /\ UNCHANGED <<collector, blocks, block, limit, num_allocs, pc>>

AllocateAtNull ==
    /\ pc = "mutator"
    /\ budget > 0
    /\ block = 0
    /\ Stop("crashed")

\* free_heap: fakegc.c frees the struct heap only, nogc.c all there is.
FreeHeap ==
    /\ pc = "mutator"
    /\ blocks # <<>>
    /\ Stop("done")

-----------------------------------------------------------------------------
(* nogc.c *)

CalledNoGC == pc = "garbage_collect" /\ collector = "nogc"

\* (mutant) without the test for num_allocs
ResumeUntested ==
    /\ pc' = "mutator"
    /\ block' = 1
    /\ alloc' = 0
    /\ limit' = blocks'[1]
    /\ budget' = num_allocs

Resume ==
    IF blocks'[1] < num_allocs
    THEN pc' = "heap_too_small" /\ UNCHANGED <<block, alloc, limit, budget>>
    ELSE /\ pc' = "mutator"
         /\ block' = 1
         /\ alloc' = 0
         /\ limit' = blocks'[1]
         /\ budget' = num_allocs

\* ti->heap is NULL.
CreateHeap ==
    /\ CalledNoGC
    /\ blocks = <<>>
    /\ blocks' = <<SIZE>>
    /\ Resume
    /\ UNCHANGED <<collector, num_allocs, written>>

\* (mutant) the heap is handed out again
Rewind ==
    /\ CalledNoGC
    /\ blocks # <<>>
    /\ blocks' = blocks
    /\ Resume
    /\ UNCHANGED <<collector, num_allocs, written>>

OutOfHeap ==
    /\ CalledNoGC
    /\ blocks # <<>>
    /\ Stop("out_of_heap")

-----------------------------------------------------------------------------
(* fakegc.c *)

CalledFakeGC == pc = "garbage_collect" /\ collector = "fakegc"

\* resume tests the block it has just been given for the words it was made for,
\* which cannot fail; it sets limit to lo, not to hi.
ResumeFake ==
    /\ pc' = "mutator"
    /\ alloc' = 0
    /\ limit' = 0
    /\ budget' = num_allocs

CollectFresh ==
    /\ CalledFakeGC
    /\ Len(blocks) < BLOCKS
    /\ blocks' = Append(blocks, num_allocs)
    /\ block' = Len(blocks')
    /\ ResumeFake
    /\ UNCHANGED <<collector, num_allocs, written>>

\* The malloc of the block fails and nobody looks: alloc and limit are NULL.
CollectIntoNull ==
    /\ CalledFakeGC
    /\ block' = 0
    /\ ResumeFake
    /\ UNCHANGED <<collector, blocks, num_allocs, written>>

\* In both, the malloc of the struct heap fails and nobody looks.
MallocFails ==
    /\ pc = "garbage_collect"
    /\ collector = "nogc" => blocks = <<>>
    /\ Stop("crashed")

Next ==
    \/ \E n \in 0 .. MAX_ALLOCS : Check(n)
    \/ \E words \in 1 .. MAX_ALLOCS : Allocate(words)
    \/ AllocateAtNull
    \/ FreeHeap
    \/ CreateHeap
    \/ OutOfHeap
    \/ CollectFresh
    \/ CollectIntoNull
    \/ MallocFails

Spec == Init /\ [][Next]_vars

-----------------------------------------------------------------------------
(* Properties. *)

\* nogc.c keeps every object in memory that was malloc'ed for it.  fakegc.c does
\* not: alloc has passed limit as soon as a function has allocated, the next
\* function is not stopped by its test, and writes past the block.
WrittenInBlocks ==
    collector = "nogc" => \A w \in written : w[2] < blocks[w[1]]

\* Without a collection nothing is garbage: no function is ever given a word
\* that an object occupies.
NothingOverwritten ==
    [][block' = block => written \cap ({block} \X (alloc .. alloc' - 1)) = {}]_vars

Interface == INSTANCE GCInterface WITH
    phase <- IF pc \in Stopped \ {"done"} THEN "stopped"
             ELSE IF pc = "garbage_collect" THEN "collector" ELSE "mutator",
    graph <- written,
    need  <- num_allocs,
    room  <- limit - alloc

\* nogc.c calls itself "an alternate implementation of the gc.h interface": what
\* objects there are does not change in a call, which leaves room or exits.
\* fakegc.c says the same of itself, and never leaves any room below limit.
ImplementsInterface ==
    [][collector = "nogc" => [Interface!Next]_(Interface!vars)]_vars
=============================================================================
