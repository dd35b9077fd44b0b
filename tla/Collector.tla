----------------------------- MODULE Collector -----------------------------
(***************************************************************************)
(* The copying collector of theories/Runtime/gc.c, one call of forward at  *)
(* a time: do_generation forwards the roots and scans what it copied,      *)
(* garbage_collect and garbage_collect_all chain generations, export makes *)
(* a compact copy of the answer outside the heap.                          *)
(*                                                                         *)
(* The mutator is left to the modules that extend this one: a function     *)
(* enters with Check and runs while pc = "mutator".                        *)
(***************************************************************************)
EXTENDS Integers, Heap

CONSTANTS
    MAX_SPACES,     \* how many generations
    NURSERY_SIZE,   \* words of generation 0
    RATIO,          \* size of generation i+1 / size of generation i
    DEPTH,          \* how much depth-first search forward does
    ArgSlots,       \* the indices of the args array that are used
    MallocMayFail   \* whether malloc is allowed to return NULL

ASSUME CollectorAssumption ==
    /\ MAX_SPACES \in Nat /\ MAX_SPACES >= 2
    /\ NURSERY_SIZE \in Nat \ {0}
    /\ RATIO \in Nat \ {0}
    /\ DEPTH \in Nat
    /\ MallocMayFail \in BOOLEAN

\* create_space is given the size of the next generation as an int.
ASSUME SizesFitInt == NURSERY_SIZE * RATIO^(MAX_SPACES - 1) <= 2147483647

Gens     == 0 .. MAX_SPACES - 1
FakeSp   == MAX_SPACES          \* export's fake_sp ...
ValueSp  == MAX_SPACES + 1      \* ... and value_sp, both outside the heap
Spaces   == Gens \cup {FakeSp, ValueSp}

VARIABLES
    mem,      \* the words start..limit of each space, <<>> while start == NULL
    next,     \* how many words of each space lie before its next pointer
    args,     \* ti->args, and any other slots that may hold roots
    alloc,    \* ti->alloc, as words before it in generation 0
    limit,    \* ti->limit, likewise
    fi,       \* the request of the function that runs: num_allocs and roots
    budget,   \* words this function may still allocate of its fi[0]
    pc,       \* where the thread is
    gen,      \* i of garbage_collect and of garbage_collect_all
    copy,     \* do_generation's arguments and p, and who called it
    scan,     \* s of do_scan: words before it in the to-space
    calls,    \* the calls of forward still to make: where, and how deep
    result    \* what export returned, or Unused

heapVars == <<mem, next, args, alloc, limit>>
copyVars == <<copy, scan, calls>>
vars == <<mem, next, args, alloc, limit, fi, budget, pc, gen, copy, scan, calls,
          result>>

NoCopy == [from |-> 0, to |-> 0, p |-> 0, caller |-> "none"]

HeapExists == mem[0] # <<>>
Exists(s)  == mem[s] # <<>>
Free(s)    == Len(mem[s]) - next[s]
InUse(s)   == IF s = 0 THEN alloc ELSE next[s]

Stop(how) ==
    /\ pc' = how
    /\ UNCHANGED <<heapVars, fi, budget, gen, copyVars, result>>

-----------------------------------------------------------------------------
(* A function is entered. *)

Check(info) ==
    /\ pc = "entry"
    /\ fi' = info
    /\ IF alloc <= limit /\ limit - alloc < info.num_allocs
       THEN pc' = "garbage_collect" /\ UNCHANGED budget
       ELSE pc' = "mutator" /\ budget' = info.num_allocs
    /\ UNCHANGED <<heapVars, gen, copyVars, result>>

-----------------------------------------------------------------------------
(* forward.  A location is a slot of args, or a word of the to-space.      *)

ArgLoc(k)    == <<"arg", k>>
MemLoc(s, i) == <<"mem", s, i>>
Read(loc)    == IF loc[1] = "arg" THEN args[loc[2]] ELSE mem[loc[2]][loc[3]]

Call(loc, depth) == [p |-> loc, depth |-> depth]

\* (mutant) the last field is forgotten
FieldCallsButLast(s, i, sz, depth) ==
    [j \in 1 .. sz - 1 |-> Call(MemLoc(s, i + j - 1), depth)]

\* One call of forward for each field of the object at index i of space s.
FieldCalls(s, i, sz, depth) ==
    [j \in 1 .. sz |-> Call(MemLoc(s, i + j - 1), depth)]

\* memory m with v stored at loc
StoreMem(m, loc, v) ==
    IF loc[1] = "mem" THEN [m EXCEPT ![loc[2]][loc[3]] = v] ELSE m

\* (mutant) a root is not updated
StoreArgsNot(loc, v) == args

StoreArgs(loc, v) ==
    IF loc[1] = "arg" THEN [args EXCEPT ![loc[2]] = v] ELSE args

Is_from(v) == IsPtr(v) /\ SpaceOf(v) = copy.from

Copying == pc = "copying" /\ calls # <<>>

\* Not a pointer into from-space: left alone.
ForwardOther ==
    /\ Copying
    /\ LET v == Read(Head(calls).p) IN ~ (Is_block(v) /\ Is_from(v))
    /\ calls' = Tail(calls)
    /\ UNCHANGED <<heapVars, fi, budget, pc, gen, copy, scan, result>>

\* Already forwarded: field 0 of the old object points to the new one.
ForwardAgain ==
    /\ Copying
    /\ LET loc == Head(calls).p
           v   == Read(loc)
       IN  /\ Is_block(v) /\ Is_from(v)
           /\ Hd_val(mem, v) = ZeroHeader
           /\ mem' = StoreMem(mem, loc, Field(mem, v, 0))
           /\ args' = StoreArgs(loc, Field(mem, v, 0))
    /\ calls' = Tail(calls)
    /\ UNCHANGED <<next, alloc, limit, fi, budget, pc, gen, copy, scan, result>>

\* (mutant) the old header is not zeroed
CopyObjectUnmarked(v, sz, new) ==
    [mem EXCEPT
        ![copy.to] = [k \in DOMAIN @ |->
            IF k \in new - 1 .. new + sz - 1
            THEN mem[copy.from][IndexOf(v) + (k - new)]
            ELSE @[k]],
        ![copy.from][IndexOf(v)] = Ptr(copy.to, new)]

\* Memory after the object v has been copied to the words after next[to].
CopyObject(v, sz, new) ==
    [mem EXCEPT
        ![copy.to] = [k \in DOMAIN @ |->
            IF k \in new - 1 .. new + sz - 1
            THEN mem[copy.from][IndexOf(v) + (k - new)]
            ELSE @[k]],
        ![copy.from][IndexOf(v) - 1] = ZeroHeader,
        ![copy.from][IndexOf(v)] = Ptr(copy.to, new)]

\* Not yet forwarded: copy it, and go on into its fields while depth lasts.
ForwardCopy ==
    /\ Copying
    /\ LET loc == Head(calls).p
           d   == Head(calls).depth
           v   == Read(loc)
           sz  == Wosize(mem, v)
           new == next[copy.to] + 2
       IN  /\ Is_block(v) /\ Is_from(v)
           /\ Hd_val(mem, v) # ZeroHeader
           /\ next' = [next EXCEPT ![copy.to] = @ + 1 + sz]
           /\ mem' = StoreMem(CopyObject(v, sz, new), loc, Ptr(copy.to, new))
           /\ args' = StoreArgs(loc, Ptr(copy.to, new))
           /\ calls' = (IF d > 0 THEN FieldCalls(copy.to, new, sz, d - 1) ELSE <<>>)
                           \o Tail(calls)
    /\ UNCHANGED <<alloc, limit, fi, budget, pc, gen, copy, scan, result>>

-----------------------------------------------------------------------------
(* do_generation. *)

\* (mutant) every slot is taken for a root
AllSlotCalls(roots) == [k \in DOMAIN args |-> Call(ArgLoc(k), DEPTH)]

\* forward_roots: one call of forward for each root, in fi's order.
RootCalls(roots) == [k \in 1 .. Len(roots) |-> Call(ArgLoc(roots[k]), DEPTH)]

\* From the assertion to the roots; p is where the new objects will start.
StartGeneration(from, to, roots, caller) ==
    IF next[from] <= Len(mem'[to]) - next[to]
    THEN /\ copy' = [from |-> from, to |-> to, p |-> next[to], caller |-> caller]
         /\ scan' = next[to]
         /\ calls' = RootCalls(roots)
         /\ pc' = "copying"
    ELSE pc' = "assert_failed" /\ UNCHANGED copyVars

\* (mutant) without the test for no_scan
ScanAnyFields(hd) == FieldCalls(copy.to, scan + 2, Wosize_hd(hd), DEPTH)

ScanFields(hd) ==
    IF No_scan(Tag_hd(hd))
    THEN <<>>
    ELSE FieldCalls(copy.to, scan + 2, Wosize_hd(hd), DEPTH)

\* do_scan: the next object of the to-space, header first.
ScanObject ==
    /\ pc = "copying"
    /\ calls = <<>>
    /\ scan < next[copy.to]
    /\ LET hd == mem[copy.to][scan + 1]
       IN  /\ calls' = ScanFields(hd)
           /\ scan' = scan + 1 + Wosize_hd(hd)
    /\ UNCHANGED <<heapVars, fi, budget, pc, gen, copy, result>>

GenerationCopied(caller) ==
    /\ pc = "copying"
    /\ copy.caller = caller
    /\ calls = <<>>
    /\ scan >= next[copy.to]

\* (mutant) from->next is not reset
KeepFrom ==
    /\ mem' = [mem EXCEPT ![copy.from] = EmptySpace(Len(@))]
    /\ UNCHANGED next

\* from->next = from->start: what is there may be overwritten from now on.
EmptyFrom ==
    /\ next' = [next EXCEPT ![copy.from] = 0]
    /\ mem' = [mem EXCEPT ![copy.from] = EmptySpace(Len(@))]

-----------------------------------------------------------------------------
(* garbage_collect. *)

Resume ==
    IF Len(mem'[0]) < fi.num_allocs
    THEN pc' = "nursery_too_small" /\ UNCHANGED <<alloc, limit, budget>>
    ELSE /\ pc' = "mutator"
         /\ alloc' = 0
         /\ limit' = Len(mem'[0])
         /\ budget' = fi.num_allocs

CreateHeap ==
    /\ pc = "garbage_collect"
    /\ ~ HeapExists
    /\ mem' = [mem EXCEPT ![0] = EmptySpace(NURSERY_SIZE)]
    /\ Resume
    /\ UNCHANGED <<next, args, fi, gen, copyVars, result>>

StartCollection ==
    /\ pc = "garbage_collect"
    /\ HeapExists
    /\ next' = [next EXCEPT ![0] = alloc]
    /\ gen' = 0
    /\ pc' = IF Len(mem[0]) = limit THEN "collect" ELSE "assert_failed"
    /\ UNCHANGED <<mem, args, alloc, limit, fi, budget, copyVars, result>>

CreateNextSpace ==
    /\ pc = "collect"
    /\ gen < MAX_SPACES - 1
    /\ ~ Exists(gen + 1)
    /\ mem' = [mem EXCEPT ![gen + 1] = EmptySpace(RATIO * Len(mem[gen]))]
    /\ UNCHANGED <<next, args, alloc, limit, fi, budget, pc, gen, copyVars, result>>

CollectGeneration ==
    /\ pc = "collect"
    /\ gen < MAX_SPACES - 1
    /\ Exists(gen + 1)
    /\ UNCHANGED mem
    /\ StartGeneration(gen, gen + 1, fi.roots, "garbage_collect")
    /\ UNCHANGED <<next, args, alloc, limit, fi, budget, gen, result>>

\* Generation gen has been copied: go on, or back to the mutator.
GenerationCollected ==
    /\ GenerationCopied("garbage_collect")
    /\ EmptyFrom
    /\ IF Len(mem[gen]) <= Free(gen + 1)
       THEN Resume /\ UNCHANGED gen
       ELSE gen' = gen + 1 /\ pc' = "collect" /\ UNCHANGED <<alloc, limit, budget>>
    /\ UNCHANGED <<args, fi, copyVars, result>>

RanOutOfGenerations ==
    /\ pc = "collect"
    /\ gen = MAX_SPACES - 1
    /\ Stop("ran_out_of_generations")

-----------------------------------------------------------------------------
(* export. *)

fake_fi == [num_allocs |-> 0, roots |-> <<1>>]

\* (mutant) a boxed answer is returned without a copy
ExportAsIs ==
    /\ pc = "mutator"
    /\ result' = args[1]
    /\ pc' = "exported"
    /\ UNCHANGED <<heapVars, fi, budget, gen, copyVars>>

ExportUnboxed ==
    /\ pc = "mutator"
    /\ ~ Is_block(args[1])
    /\ result' = args[1]
    /\ pc' = "exported"
    /\ UNCHANGED <<heapVars, fi, budget, gen, copyVars>>

\* A heap created here does not fit ti->limit: the assertion would fail.
ExportStart(info) ==
    /\ pc = "mutator"
    /\ Is_block(args[1])
    /\ mem' = IF HeapExists THEN mem ELSE [mem EXCEPT ![0] = EmptySpace(NURSERY_SIZE)]
    /\ fi' = info
    /\ budget' = 0
    /\ gen' = 0
    /\ pc' = IF Len(mem'[0]) = limit THEN "collect_all" ELSE "assert_failed"
    /\ UNCHANGED <<next, args, alloc, limit, copyVars, result>>

MoreGenerations == gen < MAX_SPACES - 1 /\ Exists(gen + 1)

CollectAllGeneration ==
    /\ pc = "collect_all"
    /\ MoreGenerations
    /\ UNCHANGED mem
    /\ StartGeneration(gen, gen + 1, fi.roots, "garbage_collect_all")
    /\ UNCHANGED <<next, args, alloc, limit, fi, budget, gen, result>>

\* (mutant) without i++
SameGenerationAgain ==
    /\ GenerationCopied("garbage_collect_all")
    /\ EmptyFrom
    /\ pc' = "collect_all"
    /\ UNCHANGED <<args, alloc, limit, fi, budget, gen, copyVars, result>>

GenerationCollectedAll ==
    /\ GenerationCopied("garbage_collect_all")
    /\ EmptyFrom
    /\ gen' = gen + 1
    /\ pc' = "collect_all"
    /\ UNCHANGED <<args, alloc, limit, fi, budget, copyVars, result>>

CollectAllReturn ==
    /\ pc = "collect_all"
    /\ ~ MoreGenerations
    /\ next' = IF gen = 0 THEN [next EXCEPT ![0] = alloc] ELSE next
    /\ pc' = "export"
    /\ UNCHANGED <<mem, args, alloc, limit, fi, budget, gen, copyVars, result>>

\* (mutant) a space as large as the one copied, full or not
CopyOutAll(from, to, caller) ==
    /\ mem' = [mem EXCEPT ![to] = EmptySpace(Len(mem[from]))]
    /\ StartGeneration(from, to, fi.roots, caller)
    /\ UNCHANGED <<next, args, alloc, limit, fi, budget, gen, result>>

\* A space of exactly the size of the objects, and the copy into it.
CopyOut(from, to, caller) ==
    /\ mem' = [mem EXCEPT ![to] = EmptySpace(next[from])]
    /\ StartGeneration(from, to, fi.roots, caller)
    /\ UNCHANGED <<next, args, alloc, limit, fi, budget, gen, result>>

ExportCopy == pc = "export" /\ CopyOut(gen, FakeSp, "export")

ExportCopied ==
    /\ GenerationCopied("export")
    /\ EmptyFrom
    /\ pc' = "compact"
    /\ UNCHANGED <<args, alloc, limit, fi, budget, gen, copyVars, result>>

ExportCompact == pc = "compact" /\ CopyOut(FakeSp, ValueSp, "compact")

\* (mutant) not offset by the header
ResultStart == Ptr(ValueSp, 1)

\* The answer was copied first, and starts after its header.
ResultBlock == Ptr(ValueSp, 2)

\* fake_sp is freed.
ExportReturn ==
    /\ GenerationCopied("compact")
    /\ next' = [next EXCEPT ![FakeSp] = 0]
    /\ mem' = [mem EXCEPT ![FakeSp] = <<>>]
    /\ result' = ResultBlock
    /\ pc' = "exported"
    /\ UNCHANGED <<args, alloc, limit, fi, budget, gen, copyVars>>

-----------------------------------------------------------------------------
MallocFails ==
    /\ MallocMayFail
    /\ \/ pc = "garbage_collect" /\ ~ HeapExists
       \/ pc = "collect" /\ gen < MAX_SPACES - 1 /\ ~ Exists(gen + 1)
       \/ pc \in {"export", "compact"}
    /\ Stop("no_memory")

DoGeneration == ForwardOther \/ ForwardAgain \/ ForwardCopy \/ ScanObject

GarbageCollect ==
    \/ CreateHeap
    \/ StartCollection
    \/ CreateNextSpace
    \/ CollectGeneration
    \/ GenerationCollected
    \/ RanOutOfGenerations

\* export once it has started.
Export ==
    \/ CollectAllGeneration
    \/ GenerationCollectedAll
    \/ CollectAllReturn
    \/ ExportCopy
    \/ ExportCopied
    \/ ExportCompact
    \/ ExportReturn
=============================================================================
