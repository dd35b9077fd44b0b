# A verification development for CertiCoq's runtime

CertiCoq compiles Coq (Gallina) to C. Most of the repository is the compiler, a
chain of pure passes written and largely verified in Coq; what runs afterwards is
unverified C: the generated program, a generational copying collector
(`theories/Runtime/gc.c`), and hand-written programs that call the generated one.
This directory models that runtime in TLA+, checks it with TLC, and proves some of
it with TLAPS.

## Inventory

| Component | Source | State it keeps | Operations | What makes it correct |
|---|---|---|---|---|
| Copying collector | `Runtime/gc.c`, `gc.h`, `values.h` | up to 12 spaces (start, next, limit), forwarding pointers in the from-space, `ti->args` | `forward`, `forward_roots`, `do_scan`, `do_generation`, `garbage_collect`, `garbage_collect_all`, `export`, `resume` | the live graph is preserved up to isomorphism, nothing else is copied, no word of a non-pointer object is touched |
| Generation management | `Runtime/gc.c` | sizes of the spaces, `alloc`, `limit` | creation of spaces, the stop test of the loop, `reset_heap`, `free_heap` | no space overflows, no assertion fails, the mutator gets what it asked for, every call ends |
| Test mutator | `Runtime/gctest.c`, `testmain.c` | args array, objects in the nursery, continuation frames | `check`, `consN`, `insert`, `build`, main | the program computes what it would without a collector |
| Later test mutators | `Runtime/gctest2.c`-`gctest4.c` | the same, with `alloc` and `limit` in registers | the same, with a headroom below the end of the nursery | the registers agree with the nursery whenever something is written |
| Shadow-stack collector | `Runtime/gc_stack.c/.h` | the same heap, plus a list of stack frames | as gc.c, roots taken from the frames | as gc.c |
| Program entry | `Runtime/mainT.c` and its variants | the `tinfo` | calls `body` again and again, then prints or exports the answer | each execution starts well from what the one before has left |
| Code generators | `L7/L6_to_Clight.v`, `L7/L6_to_Clight_stack.v` | none at run time: they decide where the program checks for room and which values are roots | `reserve`, `make_fundef_info`, `push_live_vars`, `make_GC_call`, `makeCases` | a promise of words covers every path to the next check; every live variable is a root, in a slot or an array that has room for it; a case takes the right branch |
| Replacement collectors | `Runtime/nogc.c`, `fakegc.c` | one block, or one per call | the interface of gc.h, without collecting | gc.h |
| Glue code, FFI programs | `Glue/*.v`, `benchmarks/*/prog_main.c` | C variables that hold Coq values | `alloc_make_*`, `call`, closures of C functions | C-held values survive, allocation stays in the nursery |
| Optimizer L6 | `L6_PCPS/*.v` | terms, occurrence counts, a fresh-name supply | shrink, uncurry, inline, lambda-lift, closure-convert, hoist, dead parameters | meaning is preserved (proved in Coq for most of them) |
| Front end, pipeline, plugin | `L1*`-`L4*`, `Compiler`, `plugin` | none | translation, error monad | proved in Coq, or input and output only |

**How they interact.** One thread runs everything. A generated function compares
`limit - alloc` with the number of words it may allocate and, if it is too large,
calls `garbage_collect(fi, ti)`. `fi` is a constant array that says how many words
are needed and which slots of `ti->args` hold live roots. The collector moves
objects, updates those slots and resets `alloc` and `limit`; the function then
reads its variables from `args` again and allocates without further tests. When
the program has returned, a C main function reads `args[1]`, or calls `export` to
get a copy outside of the heap.

**What is hard.** Not concurrency, but a protocol between code that never sees
both sides: the generated code promises (how much it allocates, which slots are
live, that old objects never point to young ones), the collector promises in
return (the graph, the room), and both rely on what *earlier* collections left in
each generation. A mistake shows up one or more collections later. Besides: an
object shared or cyclic in the middle of a copy, a to-space that grows while it is
scanned, `malloc` failing half way, a bounded number of generations of which the
oldest is never collected, export running over a heap it has half emptied, and
everything that happens when a program goes on after an export or a reset. The
full list, with the lines, is under `hazards` in `PROJECT.json`.

## The modules

| Module | What it is |
|---|---|
| `Generations` | generation management, in sizes only: which spaces exist, how full they are, where `alloc` and `limit` stand. A collection lets an arbitrary number of words survive. Every constant is a parameter |
| `GenerationsProofs` | the inductive invariant of `Generations`, and the theorems |
| `Heap` | words, headers, fields: the macros of `values.h` |
| `Collector` | the collector of gc.c in words: one action per call of `forward`, per object scanned, per turn of a loop |
| `GCInterface` | the promise of gc.h 110-119 as an abstract specification: a graph, a need, a room |
| `CollectorGraph` | the graph a mutator sees in the collector's memory, the refinements of `GCInterface` and of `Generations`, the properties of a copy and of each step |
| `AnyMutator` | the collector with every mutator that keeps to gc.h |
| `CollectorProofs` | the inductive invariant of the words, and the theorems about the collector of `AnyMutator` |
| `TreeInsert` | the program of gctest.c and testmain.c, composed with `Collector` |
| `TreeInsertProofs` | it is one of the mutators of `AnyMutator`, its trees hold the keys, and the first outlives the second run once exported |
| `ShadowStack` | direct-style code as `L6_to_Clight_stack.v` generates it, for an arbitrary program, composed with `Collector` for `gc_stack.c`; `mainT.c` calling it again |
| `GeneratedCode` | both code generators as algorithms on terms of L6, and the run of what they generate, with memory left out |
| `ReplacementCollectors` | `nogc.c` and `fakegc.c` with a mutator, against `GCInterface` |
| `ReplacementCollectorsProofs` | its inductive invariant and theorems |
| `RegisterMutator` | the programs of gctest2.c, gctest3.c and gctest4.c, composed with `Generations` |
| `RegisterMutatorProofs` | its inductive invariant and theorems, over those of `GenerationsProofs` |
| `ShadowStackProofs` | the frames, the room and the variables of `ShadowStack`, proved |
| `GeneratedCodeProofs` | what the generators count (room and roots) and what the generated code does with variables, proved |
| `DataTheorems` | lemmas on sequences, least and largest numbers, recursive functions and depth-first search that these proofs share |
| `MC...` | the instances TLC checks, one for each of the modules a run is about |

```
 ReplacementCollectors --+
                         v refines
   GCInterface  <--- refines ---  CollectorGraph  --- refines --->  Generations
                                   |  (extends Collector, Heap)      |        |
                              AnyMutator    ShadowStack   RegisterMutator  GenerationsProofs
                              ^    |    \        |                \         /   |
                      refines |    |     \       |           RegisterMutatorProofs |
                              | MCCollector  \  |                                 |
                         TreeInsert           CollectorProofs <-------------------+
                              |                |    |     ^
                              v                |    |     |
                       TreeInsertProofs <------+    |  DataTheorems
                                                    v     |
                                    ShadowStackProofs     v
                                         GeneratedCode -> GeneratedCodeProofs
                              (what ShadowStack leaves open, on terms)
```

### Generations

`size[i]` is `limit - start` of space i (0 while `start == NULL`), `next[i]` is
`next - start`; `alloc` and `limit` are the mutator's pointers, as offsets into the
nursery. `budget` is what the running function may still allocate of its `fi[0]`;
it is the code generator's promise, and is where the mutator's nondeterminism is
bounded. `Check` is the test a function makes on entry, `Allocate` is `consN`,
`CreateHeap`, `StartCollection`, `CreateNextSpace`, `CollectGeneration` and
`RanOutOfGenerations` are the branches of `garbage_collect` in order,
`ExportStart`, `CollectAllGeneration` and `CollectAllReturn` are
`garbage_collect_all`, `ExportCopy` and `ExportCompact` the rest of `export`. An
assertion that fails, `abort_with` and a failing `malloc` each end the process in a
state of their own. Note two details kept from the code: `garbage_collect_all`
does not store `alloc` into `spaces[0].next` before copying, so the nursery's
assertion compares a stale pointer; and neither `export` nor `reset_heap` resets
`alloc`.

### Collector

Memory is a sequence of words per space; a pointer is a space and an index, so
that a pointer into a space that has been emptied can be told from a valid one.
`forward` is recursive when `DEPTH > 0`: `calls` is the list of the calls still to
be made, and a call that copies an object puts the calls for its fields in front,
which is the order of the recursion. `do_scan` is `ScanObject`, enabled when no
call is pending; `copy` holds the arguments of the `do_generation` in progress and
who called it. When a generation has been copied its words are overwritten with
`Unused`, which is sound (the code may reuse them from then on) and makes any
missed pointer visible.

### CollectorGraph

The mutator's view of memory is the graph below the live roots, written in a normal
form: objects numbered in depth-first order, pointers replaced by numbers. Two
graphs are isomorphic exactly when these are equal, so "the after graph is
isomorphic to the before graph" becomes an equation. In the middle of a copy, an
object with a forwarding pointer stands for its copy (`Current`): that makes the
graph constant at *every* call of `forward`, which is what `ImplementsInterface`
checks, with the steps of the collector as `Work` and its end as `Return` or
`Abort`. `ImplementsGenerations` maps the words to the sizes of `Generations`: a
`do_generation` is one step of it, and the words that survive must be no more than
were in use.

`StepsKeepGraph` says the same without the graph, of one step: a root, or a field of
an object, leads after the step to what it led to before (`Becomes`, through
`Current`), headers and raw data are the same (`Preserved`), and no two objects
become one. Only the step that ends a `do_generation` gives anything up, and then
nothing that survives points to it (`Survives`).

`ExportReturnsAnswer` says what the `void *` that `export` returns means to its
caller: the answer, when it was in the heap or is unboxed. That condition is
needed. An `args[1]` that points to static data, or to what an earlier export
returned, is not copied; the block then has no words and the result points one
word into it (gc.c:430-437). TLC finds this when the condition is dropped. No
program here does it, and gc.h does not say what should happen. `ExportIsCompact` is
about the block as a whole: it holds the objects of the answer and not a word more, and
they point nowhere else, so that the caller may free the heap and keep the block.

### AnyMutator

What holds of the collector should hold for every program, not for the one in
gctest.c. `AnyMutator` has an action for each thing a mutator does between the calls
of the collector, and constrains the state it leads to by what gc.h 14-60 and
gc.h 110-119 ask of a mutator: it may store into `args` any value it can hold
(`Sound`), may make an object of any tag and any fields, raw data being any words but
headers (`Word`), at `alloc` within the words it asked for (`MakesObject`), lists slots
with sound values when it enters a function (`AnyEnter`), and never writes to an object
that exists. A function may ask for any
number of words; `NURSERY_SIZE + 1` stands for all the larger ones, which are stopped
alike. It may call `export` as often as it likes (`AnyExport`), go on in the same heap
(`AnyRestart`) and free what it got (`AnyFree`). There are three conditions. With a boxed
answer there must be a heap, since the assertion at gc.c:393 would otherwise find a limit
that it has not set. There is one exported block at a time, a bound: the model has one
space `ValueSp` for it, so that a program must free the block before it exports again, as
testmain.c does. And when it is freed nothing that the program can still reach points into
it (`NothingPointsTo`). Objects of raw data are left out for `DEPTH > 0`, where the code
goes wrong on them (see Findings).
The actions enumerate nothing, so TLC cannot run the module; it checks that a program
is one of these mutators (`ImplementsAnyMutator` of run `tree`), and the theorems of
`CollectorProofs` are about all of them.

### TreeInsert

Each function of gctest.c is one action from its `check` to its jump: it runs in one
go, since only `check` can call the collector. A key is a small number, a
continuation's code is `Code(name)`, a word that is even but points to no space.
`testmain.c` calls `extract_answer`, which gc.h declares and no file defines; the
model calls `export`, which replaced it. The main program is followed to its end
(testmain.c:40-57): a run, an export (`ExportTree`), another run in the same heap while
the first tree is kept (`BuildAgain`), the free of that tree (`FreeFirst`), the export of
the second (`ExportTree` again) and the end (`Finish`). Two lines have no defined
behaviour. `free(y)` in line 51 is given the pointer that `export` returned, one word into
what `malloc` returned: the process may end there, which `Finish` allows, or go on with
the block gone. And when the program is asked for no insertions the answer is unboxed, and
`y[1]` in line 44 reads through a number: the process ends there.

`ProgramAssumption` says what the program needs of the constants: args 1 to 4 for its
values, keys that are compared as numbers, and a nursery of at least 4 words. The last
is no restriction of the program but of the comparison with `AnyMutator`, where
`NURSERY_SIZE + 1` stands for all requests that no nursery can meet: `insert` asks for 5.
`HoldsInserted` says of a tree that its keys (`KeysBelow`) are those inserted, and that
at each node those to the left are smaller and those to the right larger.

### ShadowStack

A direct-style function keeps its variables in C locals, where the collector cannot
see them. `stack` is the C stack, one record per activation with its variables;
`frames` and `fp` are the `stack_frame` structs and the pointer to the newest one.
The roots arrays are slots of `args`, next to `ti->args[1]`, so that `Collector`
serves unchanged with `FrameRoots` (forward_roots of gc_stack.c) for the live slots.
`Enter` is the prologue of a function up to the end of its check, `LetApp` what
precedes a call, `Returned` what follows it, `Entered` and `Collected` what follows
the two calls of the collector; the rest are the constructs of a body.

The program is arbitrary. What the generator computes from the code ahead is chosen
there and then, and binds the body afterwards: `live` restricts the variables it may
read, `budget` the words it may allocate. `means` remembers, as a tree, what each
variable stood for when it was bound; values are immutable, so it must stand for
the same whenever it is read (`VariablesKeepMeaning`), although the object has been
moved by collections in any of the functions called meanwhile. Parameters are passed
as C arguments: those beyond `nParam`, which go through `args`, are read on entry
before anything else happens.

`Ordinals` are the tags that boxed constructors may have. The generator numbers
them from 0 and says "make sure it is under 255" (L6_to_Clight_stack.v:490), which
nothing tests; the collector does not scan objects whose tag is 251 or more. Run
`stack` has constructors up to 250, `stack_tags` one with 254.

`Again` is `mainT.c`: the program is executed anew in the same heap, with `args`,
`alloc` and the older generations as the execution before left them.

### GeneratedCode

`ShadowStack` lets a function use any variable and allocate any words that its
promises allow. Whether the promises follow from the term is the question of this
module. A program is a set of named functions, whose bodies are terms of L6 (`Econstr`, `Ecase`, `Eproj`,
`Eletapp`, `Eapp`, `Ehalt`). What the generators compute from it are operators with
the names of the Coq functions: `exp_fv`, `max_allocs`, `live_vars`, `fvs_list`,
`fv_gc`, the length of the roots array, the branch a switch selects. The actions are
the statements they generate, in their order: entry, test and collection, the
constructs, a call with what is pushed and popped around it, the collection after
a call. There are three schemes: direct style with the shadow stack;
continuation-passing style with roots in `args`; and its variant
(`asgnAppVars_fast`) that does not store an argument which is in its slot already.

What the module may take for granted of a program is what the passes before
guarantee, stated as assumptions on the constants: functions are closed and do not
bind a parameter again (closure conversion and hoisting leave terms so, and
L6_to_Clight.v translates no other), they are called with as many arguments as they
have parameters, the branches of a case are for different constructors and no boxed
one is numbered 256 or more, and a term in continuation-passing style has no call
that returns. `Terms` and `Height` make the recursion over terms well founded;
`Data` is what the program is started with.

A value is the tree it stands for. A collection turns every copy of a pointer that
it was not told of into `Stale`, as if every object moved, which is the worst
case: a value the code reads later must have been a root. Unboxed values survive.
Of the C parameters there is one (`nParam`), and one argument goes through `args`,
so that both kinds meet. Sets of variables that the code turns into lists are
sorted by number; the order does not matter as long as push and pop agree.

Two differences between the generators are kept. `max_allocs` of direct style
counts nothing after a call, since there is another test there; that of
continuation-passing style counts on, but its terms make no calls. And parameters
that come through `args` are read *before* the collection on entry in direct style,
whose collector does not update `args`, but *after* it in the other, whose collector
does.

### ReplacementCollectors

Memory is a list of blocks with sizes; `written` remembers the words of all objects.
`Short` is the unsigned comparison of `check`. `nogc.c` keeps objects in its block and
exits when it is full. `fakegc.c` mallocs a block of exactly the requested words and
sets `limit` to its *start* (fakegc.c:74), so that the next function calls again;
but once anything has been allocated `alloc` is past `limit`, the difference is a
huge unsigned number, and the functions after that write past the block.
`WrittenInBlocks` and `ImplementsInterface` are therefore stated for `nogc.c`; TLC
refutes both for `fakegc.c`. `NothingOverwritten` holds for both, since blocks are
distinguished here by name. In neither file does anybody look at what `malloc`
returns; both outcomes are modelled.

### RegisterMutator

The programs keep `alloc` in a register across jumps, and store and load it around
a collection; gctest4.c does the same with `limit`. gctest3.c and gctest4.c stay
HEADROOM words below the end, so that a function that asks for less only compares
the pointers. The collector meanwhile reads `limit`, and asserts that it is where it
put it. The tree is left out: which way an insertion goes is arbitrary, what counts
is the words each function allocates and the order of the tests. These programs are
written for an older `thread_info` whose `args`, `alloc` and `limit` are pointers to
globals; the module reads them with today's collector, which is all there is.
`CollectorAssertions` is stated for the first `build` of gctest3.c and gctest4.c:
`build` sets `limit` to `alloc` to force a first collection, and in a second call,
when there is a heap, the assertion at gc.c:325 fails. gctest2.c, which leaves
`limit` alone, may build as often as it likes.

## The runs

| Run | Instance | Shows |
|---|---|---|
| `generations` | 3 generations of 4, 8, 16 words; functions ask for 0 to 5 words | `NextCollectionFits`, `AssertionsHold`, `NoOverrun`, `RanOutOnlyWhenFull`, `CollectGivesRoom`, `LimitStays`, `CollectionEnds` |
| `reset` | the same | expected violation: `reset_heap` does not empty the nursery |
| `copy` | every nursery of three objects of 1, 2, 2 fields (any sharing), over none, one or two older generations, or no heap yet; live roots two or one; with and without a no_scan object; `malloc` may fail; a collection, then an export, or an export of the full nursery at once; DEPTH 0 | `ImplementsInterface`, `ScannedPointsAway`, `CopiesOnlyLive`, `NoScanLeftAlone`, `ExportReturnsAnswer` |
| `copy_deep` | the same without no_scan data, over none or one older generation, DEPTH 2 | `ImplementsInterface`, `CopiesOnlyLive`, `StepsKeepGraph` |
| `copy_no_scan` | the same with no_scan data, DEPTH 1 | expected violation of `NoScanLeftAlone` |
| `tree` | 3 generations of 5, 10, 20 words, three keys, three inserts, export, three more, free, export; or no inserts; `malloc` may fail | `TreeHoldsKeys`, `ExportIsCompact`, `ExportOutlivesHeap`, `OldNeverPointsYoung`, `NothingDangles`, `StepsKeepGraph`, both refinements, `ImplementsAnyMutator`, `Terminates` |
| `stack` | 3 generations of 3, 6, 12 words, two variables, calls three deep, programs of five operations, executed again, constructors up to 250 | `VariablesKeepMeaning`, `FramesMatchCalls`, `BodyHasRoom` |
| `stack_export` | the same, then `export` | expected violation of `ExportCopiesAnswer` |
| `stack_tags` | the same, with a boxed constructor 254 | expected violation of `VariablesKeepMeaning` |
| `generated_code` | two functions of two parameters; every term that binds up to two variables (constructors, calls) and then ends in `Ehalt`, `Eapp` or a case with four branches; three bodies of the callee; the three schemes; four functions entered | `VariablesCurrent`, `RootsCurrent`, `RootsFit`, `WithinPromise`, `CaseTakesItsBranch` |
| `replacements` | a heap of 4 words, requests up to 5, three fresh blocks; `malloc` may fail | `WrittenInBlocks`, `NothingOverwritten`, `ImplementsInterface` |
| `registers` | 3 generations of 10, 20, 40 words, headroom 6, four insertions, two builds | `RegistersInNursery`, `CollectorAssertions` |

**Why the bounds are enough.** Three generations are the fewest with a middle one,
which is both copied into and copied from; the stop test of the loop compares a
generation with the next one only, so a fourth adds no new kind of step (and the
theorems hold for every number). A request of 5 words, one more than the nursery
of `generations`, reaches `nursery_too_small`. In `tree` the nursery has exactly
the five words `insert` asks for, so nearly every call collects, several
generations fill up, and one history runs out of generations. In `copy`, sharing
between three objects reaches every branch of `forward`; the second generation is
half full so that a cascade follows when anything survives. In `stack` the nursery
holds one object, so that every second constructor collects, on entry to a function
or after a call; calls three deep put a frame that is linked below one that is not,
since a call that holds nothing links none. In `generated_code`, two bindings before
a case give all the orders of allocation, call and branch in which a promise or the
number of roots could be one too small, and four entries let a frame below be
collected under, returned to and used; the program recurses through `Eapp` and the
calls in branches. In `registers` the nursery leaves 4 words above the headroom,
fewer than the 5 of `insert`, so that the headroom is entered all the time.

**Deadlock** is not checked: the systems stop, when the process does or when the
program has finished. `CollectionEnds` and `Terminates` say instead that they stop
only there.

**Fairness.** There is one thread, and once called the collector is not
interrupted: weak fairness of its steps (`FairSpec` of `Generations`) is the
assumption that a running process keeps running. `Mutate` has none there: a mutator
may stop calling. `TreeInsert` has weak fairness of `Next`, for the same reason.

## What is proved

`GenerationsProofs` proves, for every number and size of generations, every RATIO
and every bound on requests allowed by the assumptions of `Generations`:

| Theorem | Property |
|---|---|
| `TypeCorrect` | `TypeOK` |
| `NextCollectionAlwaysFits` | `NextCollectionFits` |
| `NoAssertionFails` | `AssertionsHold` |
| `NeverOverruns` | `NoOverrun` |
| `RanOutJustified` | `RanOutOnlyWhenFull` |
| `CollectAlwaysGivesRoom` | `CollectGivesRoom` |
| `LimitNeverMoves` | `LimitStays` |

The argument: none of these is inductive. That the assertion in `do_generation`
holds needs room for all of generation i in generation i+1 *before* the copy; while
the mutator runs that is `NextCollectionFits`, but in the middle of a collection it
holds only above generation i, and below it everything is empty. `IInv` therefore
describes the loop: `Progress` says, for each pc, which generations fit, which are
empty and what the loop variable has passed; `Grows` says that sizes never shrink
from one generation to the next (a lemma, `RatioGrows`, from RATIO >= 1) and that
existing spaces form a prefix; `Bounded` keeps `next` and `alloc` within the
spaces. Each action, or group of actions, has a lemma that it preserves `IInv`;
`NextIInv` puts them together, `Invariance` is the temporal theorem, and the
theorems above follow from it. `CollectGivesRoom` and `LimitStays` are action
properties and follow from `IInv` and `[Next]_vars`. `LimitStays` is what
continuation-passing code relies on: it loads `alloc` again after a collection, but
keeps its copy of `limit`.

`CollectorProofs` proves of the collector in words, for every mutator of `AnyMutator`,
every number, size and growth of the generations and every `DEPTH`:

| Theorem | Property |
|---|---|
| `HeapWellFormed` | the inductive invariant itself |
| `CollectorImplementsGenerations` | `ImplementsGenerations`, the refinement of `Generations` |
| `OldNeverPointsToYoung` | `OldNeverPointsYoung` |
| `NoPointerDangles` | `NothingDangles` |
| `ScanLeavesNothingBehind` | `ScannedPointsAway` |
| `NoScanDataKept` | `NoScanLeftAlone` |
| `StepsAreIsomorphisms` | `StepsKeepGraph` |
| `CollectorImplementsInterface` | `ImplementsInterface`, the refinement of `GCInterface` |
| `OnlyLiveIsCopied` | `CopiesOnlyLive` |
| `ExportCopiesAnswer` | `ExportReturnsAnswer` |
| `ExportAlwaysCompact` | `ExportIsCompact` |

The invariant has two halves that are proved together. The bookkeeping is `IInv` of
`GenerationsProofs` under the refinement mapping: a step of the words maps to a step of
`Generations` only while the words are in order, and the words stay in order only as
long as the to-space has room, which is what that invariant knows. `HeapInv` is the
other half. `ObjectsOK` says that the words in use of each space are objects, one after
the other, without overlap; `PointersOK` that the fields that are looked at point to
objects, never to a younger space; `RootsOK` the same of the live roots; `SpacesOK`
which spaces are empty at each stage of a collection or an export. In the middle of a
copy none of this is literally true, and `CopyOK` says what is:

- `PointersOK` and `RootsOK` exempt exactly the words for which a call of `forward` is
  due: those `scan` has not reached, and those named in `calls`. A missed call would
  leave a pointer into the from-space that the exemption no longer covers.
- `CopyWalk` says that `p`, `scan` and `next` fall on boundaries of objects, without
  which `do_scan` would read a field as a header. `CopyForwards` says that a zero header
  is followed by a pointer to a copy behind `p`; the size of the original, which the
  zero header has lost, is read from it (`Size`).
- `CopyFits` says that the words copied so far are as many as those of the objects
  that have been forwarded (`Cardinality(Moved)`). Each object is copied once, so the
  room that was enough for the whole of the from-space stays enough. This is what makes
  the number of words that survive at most the number in use, the step that
  `Generations` takes for granted.

`StepsAreIsomorphisms` follows object by object: each survivor is where it was, or is
the one that `ForwardCopy` has just moved, and a field reads the same through the
forwarding pointer as it did through the old header. The assumption is `SizesFitInt`,
as for `Generations`.

`CollectorImplementsInterface` is about the graph as a whole, whose objects a recursive
function (`Discover`) numbers in depth-first order. What such a function computes cannot
be proved by the induction theorems of the library, so `DataTheorems` has a theory of
depth-first search of its own: over finitely many nodes the definition has a solution
(`SearchExists`, by induction on how much there is left to search, with the least
counterexample in place of an induction theorem); the nodes found are closed under
successors (`SearchCloses`); and a renaming of the nodes that is one-to-one and respects
successors renames what is found, in the same order (`SearchRenamed`). In
`CollectorProofs`, `WordsPlain` says that every value that is looked at is one such a
search can be started from, `View` is the memory as a set of objects with the values in
their fields, and `ViewSearchable` shows that it is finite. `StepsAreIsomorphisms` then
makes a step of the collector an isomorphism of two views (`StepIsomorphic`): the
renaming takes an object to its copy. So the same numbers come out before and after
(`GraphsEqual`), and the two normal forms are equal (`GraphKept`). That the mutator is
given the room it asked for is `RoomOnReturn`, from the bookkeeping; `export`, which
ends in no such test, has asked for none (`ExportAsksNothing`).

`OnlyLiveIsCopied` needs an invariant that does not mention the search. `CopiedLive`
says that each object copied so far is in *every* set of objects that the roots lead
into and no pointer leads out of (`Closed`). A set that is closed after a step was
closed before it, objects being taken for their copies (`ClosedBefore`), and what
`forward` is called for is in all of them (`CalledForLive`); what a search from the
roots finds is one such set (`LiveCloses`).

`ExportCopiesAnswer` follows the one root of `export` (`AnswerFirst`). The last copy goes
from `fake_sp`, where by `SpacesOK` all of the heap is by then, into an empty space; the
first call is that for `args[1]`, nothing has been forwarded yet, and so its object is
put at word 2, where `export` looks for it. No other call writes to `args`
(`AnswerForwarded`).

`ExportAlwaysCompact` is the converse of `OnlyLiveIsCopied`: the block is made as long
as what the first copy of `export` put aside, so it is filled exactly if the second
copies all of that again. `CompactInv` says that what is copied into a space that was
empty leaves no gap from its first word on (`Covered`), and that every object set aside
is in every closed set, not only in that found by the search (`InEveryClosed`).

`TreeInsertProofs` proves of the program of gctest.c and testmain.c, for every set of
keys, any order of insertion and every heap of at least two generations:

| Theorem | Property |
|---|---|
| `ProgramKeepsToInterface` | `ImplementsAnyMutator`: it is a mutator of `AnyMutator` |
| `ProgramHeapWellFormed` | the invariant below |
| `TreeKeepsKeys` | `TreeHoldsKeys` |
| `FirstTreeKept` | `ExportOutlivesHeap` |

By the first of them every theorem of `CollectorProofs` holds of the program. Neither
that nor the second could be proved alone: that what the program stores is sound rests
on the shape of what it finds in `args`, and that this shape survives rests on the
collector. `ProgramInv` therefore adds to the collector's invariant one function from
objects to `Facts`: of a tree node the keys of its subtree, of a continuation frame the
keys that the rest of the tree has to the left and to the right of the hole, of both a
height. It is enough that *some* such function fits the words (`NodeIs`, `FrameIs`). A
step of the collector carries it along to where the objects have moved, since every
field leads where it led (`StepsAreIsomorphisms`), without a search or recursion over the
memory; a step of the program extends it by one object. The two bounds of a frame are what makes the
tree a search tree again when `insert_left` and `insert_right` put it together. The
function and the objects a search finds agree on the keys: those found are among those
meant, since the nodes with such keys are closed (`TreeObjects`), and none is missing,
since a node of least height that misses one would have it in its subtrees (`TreeKeys`).
`FirstTreeKept` is about the second run, until the tree is freed. Nothing but `export`
writes to the block (`BlockKept`), and nothing in the block points out of it, so the tree
found in it is the same after every step (`BlockGraph`).

That the program may free the first tree, and export the second, rests on the converse:
nothing in the heap points into the block (`WordsApart`), nor any slot of `args` but, from
the last copy of an export on, `args[1]` (`ArgsApart`), which the main program overwrites
before it runs again. `Apart` is inductive: a function stores what it has read from `args`
or the heap, and `forward` a pointer into the space it copies to.

`ReplacementCollectorsProofs` proves, for every size of the block, every bound on
requests and any number of fresh blocks:

| Theorem | Property |
|---|---|
| `TypeCorrect` | `TypeOK` |
| `NoGCStaysInside` | `WrittenInBlocks` |
| `ObjectsNeverOverwritten` | `NothingOverwritten` |
| `NoGCImplementsInterface` | `ImplementsInterface`, the refinement of `GCInterface` |

The invariant has two parts besides the types: `alloc` is behind all objects of its
block (`AllocBehind`, for both files), and `nogc.c` is in one of three situations,
without a heap and with nothing promised, with its block and the promise inside
it, or stopped at the first call (`OneBlock`). What makes a promise good is the
unsigned test of `check`: it rejects too large a request only while `alloc` is not
past `limit`, which `OneBlock` says and `fakegc.c` does not maintain.

The assumptions of these are those a reader of gc.c would make: at least two
generations, a nursery and a RATIO above zero, and `SizesFitInt`, that the largest
generation's size fits the `int` it is computed in (2^27 as shipped). A larger RATIO
would break it.

`RegisterMutatorProofs` proves, for every size of the heap, every headroom above the
5 words of the largest request, and any number of insertions and builds:

| Theorem | Property |
|---|---|
| `RegistersStayInNursery` | `RegistersInNursery` |
| `RegistersRestored` | `CollectorAssertions` |

While these programs run, `IInv` of `GenerationsProofs` does *not* hold: `ti->alloc` is
stale and `ti->limit` has been moved. `RegIInv` says what does hold: where the
registers stand (`Limits`, with the exception of a first check, which `build` provokes
by setting the limit to `alloc`), and that `IInv` holds again from the call of the
collector to the reload, unless an assertion fails first. The collector's steps then
reuse the lemmas of `GenerationsProofs`.

`ShadowStackProofs` proves of `ShadowStack`, composed with the collector in words, for
any number of local variables, any depth, any number of operations and every heap:

| Theorem | Property |
|---|---|
| `FramesAlwaysMatch` | `FramesMatchCalls` |
| `BodyAlwaysHasRoom` | `BodyHasRoom` |
| `VariablesAlwaysKeepMeaning` | `VariablesKeepMeaning`, if `ScannedOrdinals` |

`FramesInv` is inductive by itself. `prev` of every frame is the deepest activation
below it that holds something (`Deepest`), and `fp` is the deepest one of all, except
while a function is on its way in or out, which `Pointed` spells out for each place in
the code; frames that hold nothing are skipped, and their stale `prev` does not
matter. `PushesLinked` adds that from a call of the collector until the frame is read
back, its length is the number of variables the function has pushed (`Pushes`), so that
the frames found are the function's own and then those of its callers, in this order. `Room` is about a whole collection: the process gets back to the mutator only
through a successful stop test, with the heap in the shape it needs (`Returning`,
`HeapShape`), and then what was asked for is there. What the collector does to the
words does not matter to either.

To `VariablesAlwaysKeepMeaning` it does. The proof uses `CollectorProofs` as a library,
instantiated with the slots of the shadow stack for `args`, and, for `alloc`, the copy of
it that the running function keeps (`vAlloc`): seen like this, a step of a body is one of
a mutator that stores values or makes one object (`Quiet`, and `W!Stores`), and the
collector is the same one (`SameCollection`, `SameForward`). `Holds` is the set of pairs
of a word and the tree it should mean: for each activation that waits, what is in its
roots; for the newest one, its live variables, or what it has pushed. `Shaped` says where
to look at each place in the code, `Named` that a collection has all of these slots for
roots, from `RootsFound`, and `Explained` that each of the words reads as its tree to the
depth of the operations done so far. As for `TreeInsertProofs`, the memory is explained by *some*
function from objects to what they mean, which a collection carries along to where they
have moved; no search or recursion over memory is needed until the end, where the
recursion of `TreeOf` is compared with it level by level (`ReadsMeaning`). The hypothesis
`ScannedOrdinals`, that no constructor's number is a tag of raw data, is what the
generator does not test (see Findings); without it the theorem is false, as run
`stack_tags` shows. `BoundsAssumption` limits the words of one request to one more than
the nursery, which stands for all larger requests, as in `AnyMutator`.

`GeneratedCodeProofs` proves, for every set of programs that satisfies the assumptions,
whatever terms, numbers of functions and parameters, and in all three schemes:

| Theorem | Property |
|---|---|
| `AlwaysWithinPromise` | `WithinPromise` |
| `RootsAlwaysFit` | `RootsFit` |
| `VariablesAlwaysCurrent` | `VariablesCurrent` |
| `RootsAlwaysCurrent` | `RootsCurrent` |
| `CaseAlwaysTakesItsBranch` | `CaseTakesItsBranch` |

The generators are recursive functions on terms. That such a definition has a solution
at all, and of which type, follows from `Height` (`RecursionExists`, `RecursionType` of
`DataTheorems`); what is then needed of `max_allocs` or `body_slots` is their equation
at one term (`AllocProperties`, `SlotsProperties`, `ScopeProperties`) and that the count
of roots grows with where it starts (`SlotsMonotone`, by induction on the height).

`SizesInv` says that an activation has used no more roots, *and may use no more in the
rest of its body*, than its function declares, and that the room left covers what is
allocated before the next test. `ValuesInv` adds the values. It says for each place in
the code where the variables are: in their cells while the body runs (`Going`), in the
roots or in `args` around a collection (`Saved`, `Reserving`), in the roots of the
activations that wait for a call (`Waiting`), and half in C parameters, half in `args`
on entry (`Entering`). It contains the chain of frames as `Deepest` does for
`ShadowStack`, from which `ChainProperties` derives that the collector finds the frames
of the functions that hold something, and no others. In continuation-passing style it
also says that the slot of a parameter keeps its value while the body runs (`Passed`),
which is what `asgnAppVars_fast` relies on and why it is right there. A value is never
`Stale` because it is a tree of constructors (`Tree`, for trees of any depth), which
constructing and projecting preserve. `CaseAlwaysTakesItsBranch` needs that the scrutinee
is current, that different constructors of a kind have different numbers, and that the
low byte of a header is the number, for numbers below 256 (`BoxedHeader`).

**Only model-checked**: `CollectionEnds` and `Terminates`, since liveness is out of the
prover's reach. `TypeOK` and the other safety properties of the passing runs are all
proved.

## Findings

- `forward` with `DEPTH > 0` goes into the fields of a no_scan object (gc.c:148),
  which `do_scan` leaves alone as its comment says (gc.c:183). Run `copy_no_scan`.
- `export` of gc_stack.c takes its roots from the frames, not from `args[1]` as its
  comment says (gc_stack.c:440, 448): when the program has answered there are no
  frames, nothing is copied, and the result points past an empty block. Run
  `stack_export`.
- `reset_heap` "empties the heap" (gc.h:128) but cannot reset `ti->alloc`: the
  nursery stays as full as it was. Run `reset`.
- The direct-style generator says that tags are made "under 255"
  (L6_to_Clight_stack.v:490) and tests nothing; gc_stack.c:225 takes an object with a
  tag of 251 or more for one without pointers, so that its fields are left behind
  by a collection. It takes a type with more than 251 boxed constructors. Run
  `stack_tags`.

Met while modelling, and stated as conditions in the properties concerned:
`fakegc.c` runs past its blocks (`WrittenInBlocks`); a second `build` of gctest3.c
and gctest4.c fails an assertion of the collector (`CollectorAssertions`); `export`
of a boxed answer outside the heap returns a pointer to no object
(`ExportReturnsAnswer`).

Hazards without a property, with the reason: these three, since the code does go wrong
there and the properties have to except it, and `fakegc.c` going on with `alloc` at NULL
after a failing `malloc` (fakegc.c:83), for the same reason; sizes in an `int` (gc.c:335)
are the assumption `SizesFitInt`; C programs that hold Coq values over calls
(hash/prog_main.c:304) and generated `alloc_make` functions that do not look at
`limit` (glue.v:1048) belong to parts that are not modelled.

## Plan

1. *(done)* `Generations` and its proofs; `Collector` against gc.h; `TreeInsert`.
2. *(done)* The shadow-stack collector with the protocol that `L6_to_Clight_stack.v`
   generates.
3. *(done)* The two code generators on small terms (`GeneratedCode`), with arguments
   left in `args`.
4. *(done)* `nogc.c`, `fakegc.c`; the later test programs; `mainT.c`.
5. *(done)* Proofs of the replacement collectors, of the register programs, of the
   frames and the room of the shadow stack, and of the code generators: what they
   count and where values are.
6. `GeneratedCode` implements the protocol of `ShadowStack`, as a refinement.
7. *(done)* Proofs about the words: the copy of one generation never overruns and
   implements one step of `Generations`; what has been scanned points away from the
   from-space (`ScannedPointsAway`), and from it `NothingDangles` and
   `OldNeverPointsYoung`; each step is an isomorphism, and so the collector implements
   gc.h; only what is live is copied; `export` returns the answer, in a block of just
   its size.
8. *(done)* The program of gctest.c is a mutator that keeps to gc.h, and its tree holds
   the keys.
9. *(done)* `VariablesKeepMeaning` of `ShadowStack`, over the collector's invariant with
   the frames for roots.
10. Candidates after that: `alloc_make` and `call` of the glue code with a C program
   that holds values; dead parameter elimination and shrink reduction of L6.

## What is not modelled, and why

The front end, the passes of L6 and their Coq proofs (pure functions on terms,
verified where they are); debug printing, the plugin and scripts (input and output
only); the trees of gctest2-4 (that of gctest.c is in `TreeInsert`); in the code
generators, primitives, C integers and the encoding of names, and the layout of
`tinfo`; the glue code and the FFI programs (see the plan). Vendored code
(`theories/compcert`, `reify`) is left aside.

Smaller omissions in what is modelled: the assertion `roots[i] < MAX_ARGS` (gc.c:169),
since slots are members of a set and not numbers below a bound; the mallocs of the space
descriptors of `export` (gc.c:421, 426), which fail like those of the blocks they describe;
in `Generations` the branch of `garbage_collect_all` for a program without a heap
(gc.c:387-390), after which the assertion in line 393 fails, and which no program here
reaches (`Collector` has it); in `GeneratedCode` calls through a variable that holds a code
pointer: only named functions are called, so that the variable of the callee, which is
free in the term, is never among those to be kept.

Definitions marked *(mutant)* are mistaken variants of the definition below them,
kept to show that a property notices the mistake; no specification uses them.
