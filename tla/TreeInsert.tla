----------------------------- MODULE TreeInsert -----------------------------
(***************************************************************************)
(* A mutator: the program of theories/Runtime/gctest.c, which inserts      *)
(* random keys into a search tree in continuation-passing style, with the  *)
(* collector of module Collector.  Each function checks for room, naming   *)
(* its live args, reads them, allocates without a test and jumps.  The     *)
(* main program then exports the tree, runs the program once more in the   *)
(* same heap, frees the first tree and exports the second, as testmain.c   *)
(* does.                                                                   *)
(***************************************************************************)
EXTENDS AnyMutator

CONSTANTS
    KeySet,    \* what random() may return
    Inserts    \* how many keys a run inserts: args[4] of the first build

\* The args the functions use; numbers as keys; and a nursery not much smaller than
\* the largest request, 5 words, which AnyMutator has to know of.
ASSUME ProgramAssumption ==
    /\ 1 .. 4 \subseteq ArgSlots
    /\ KeySet \subseteq Nat
    /\ NURSERY_SIZE >= 4

VARIABLES
    fun,       \* the function entered or running
    inserted,  \* history: the keys given to insert in this run
    first,     \* history: the tree of the first run while main has it, or <<>>
    again      \* whether main is doing it again

progVars == <<fun, inserted, first, again>>
allVars  == <<vars, progVars>>

Null == Long(0)

\* (mutant) insert_left does not name the tree it was given
FunInfoForgetsRoot ==
    [build        |-> [num_allocs |-> 0, roots |-> <<4, 1>>],
     insert       |-> [num_allocs |-> 5, roots |-> <<1, 2, 3, 4>>],
     insert_left  |-> [num_allocs |-> 4, roots |-> <<4>>],
     insert_right |-> [num_allocs |-> 4, roots |-> <<4, 1>>]]

\* const uintnat fi_insert [] = {5, 4, 1,2,3,4}, and so on.
FunInfo ==
    [build        |-> [num_allocs |-> 0, roots |-> <<4, 1>>],
     insert       |-> [num_allocs |-> 5, roots |-> <<1, 2, 3, 4>>],
     insert_left  |-> [num_allocs |-> 4, roots |-> <<4, 1>>],
     insert_right |-> [num_allocs |-> 4, roots |-> <<4, 1>>]]

-----------------------------------------------------------------------------
\* ti->args as testmain.c sets it: the number of keys, and an empty tree.
StartArgs(n) == [k \in ArgSlots |-> IF k = 1 THEN Null
                                    ELSE IF k = 4 THEN Long(n) ELSE Unused]

Init ==
    /\ \/ mem = [s \in Spaces |-> IF s = 0 THEN EmptySpace(NURSERY_SIZE) ELSE <<>>]
       \/ mem = [s \in Spaces |-> <<>>]
    /\ next = [s \in Spaces |-> 0]
    /\ \E n \in {0, Inserts} : args = StartArgs(n)
    /\ alloc = 0
    /\ limit = Len(mem[0])
    /\ fi = [num_allocs |-> 0, roots |-> <<>>]
    /\ budget = 0
    /\ pc = "entry"
    /\ gen = 0
    /\ copy = NoCopy
    /\ scan = 0
    /\ calls = <<>>
    /\ result = Unused
    /\ fun = "build"
    /\ inserted = {}
    /\ first = <<>>
    /\ again = FALSE

Enter == Check(FunInfo[fun]) /\ UNCHANGED progVars

-----------------------------------------------------------------------------
(* The function bodies. *)

Running(f) == pc = "mutator" /\ fun = f

\* A word stored past the end of the nursery would be lost; NoOverrun in module
\* Generations says that this does not happen.
ConsN(tag, fields) ==
    /\ mem' = [mem EXCEPT ![0] = [k \in DOMAIN @ |->
            IF k = alloc + 1 THEN Header(Len(fields), tag)
            ELSE IF k \in alloc + 2 .. alloc + 1 + Len(fields)
            THEN fields[k - alloc - 1]
            ELSE @[k]]]
    /\ alloc' = alloc + 1 + Len(fields)
    /\ budget' = budget - (1 + Len(fields))

NewObject == Ptr(0, alloc + 2)

Jump(f) ==
    /\ fun' = f
    /\ pc' = "entry"
    /\ UNCHANGED <<next, limit, fi, gen, copyVars, result>>

NoCons == UNCHANGED <<mem, alloc, budget>>

\* insert at the bottom of the tree: a leaf with key args[2].
InsertLeaf ==
    /\ Running("insert")
    /\ args[1] = Null
    /\ ConsN(0, <<args[2], Null, Null>>)
    /\ args' = [args EXCEPT ![1] = NewObject]
    /\ Jump(args[3][2])
    /\ UNCHANGED <<inserted, first, again>>

\* insert into the left or the right subtree, under a frame that remembers the
\* key, the other subtree and the continuation.
Descend(into, tag, key, other, frameCode) ==
    /\ ConsN(tag, <<key, other, args[3], args[4]>>)
    /\ args' = [args EXCEPT ![1] = into, ![3] = Code(frameCode), ![4] = NewObject]
    /\ Jump("insert")
    /\ UNCHANGED <<inserted, first, again>>

InsertDown ==
    /\ Running("insert")
    /\ args[1] # Null
    /\ LET key   == args[2][2]
           k     == Field(mem, args[1], 0)
           left  == Field(mem, args[1], 1)
           right == Field(mem, args[1], 2)
       IN  \/ key < k[2] /\ Descend(left, 1, k, right, "insert_left")
           \/ key > k[2] /\ Descend(right, 2, k, left, "insert_right")

\* The key is there already.
InsertFound ==
    /\ Running("insert")
    /\ args[1] # Null
    /\ args[2] = Field(mem, args[1], 0)
    /\ NoCons
    /\ UNCHANGED args
    /\ Jump(args[3][2])
    /\ UNCHANGED <<inserted, first, again>>

\* Rebuild a node of the path around the new subtree, and return.
Rebuild(fields) ==
    LET e == args[4] IN
    /\ ConsN(0, fields)
    /\ args' = [args EXCEPT ![1] = NewObject, ![4] = Field(mem, e, 3)]
    /\ Jump(Field(mem, e, 2)[2])
    /\ UNCHANGED <<inserted, first, again>>

InsertLeft ==
    /\ Running("insert_left")
    /\ Rebuild(<<Field(mem, args[4], 0), args[1], Field(mem, args[4], 1)>>)

\* (mutant) the subtrees in the wrong order, copied from insert_left
InsertRightSwapped ==
    /\ Running("insert_right")
    /\ Rebuild(<<Field(mem, args[4], 0), args[1], Field(mem, args[4], 1)>>)

InsertRight ==
    /\ Running("insert_right")
    /\ Rebuild(<<Field(mem, args[4], 0), Field(mem, args[4], 1), args[1]>>)

\* build: insert another random key, or return to the main program.
BuildNext ==
    /\ Running("build")
    /\ args[4][2] > 0
    /\ \E k \in KeySet :
        /\ args' = [args EXCEPT ![2] = Long(k), ![3] = Code("build"),
                                ![4] = Long(args[4][2] - 1)]
        /\ inserted' = inserted \cup {k}
    /\ NoCons
    /\ Jump("insert")
    /\ UNCHANGED <<first, again>>

BuildDone == Running("build") /\ args[4][2] = 0

-----------------------------------------------------------------------------
(* The main program, once build has returned. *)

\* y = extract_answer(ti), in each run.
ExportTree ==
    /\ BuildDone
    /\ result = Unused
    /\ ExportUnboxed \/ ExportStart(fake_fi)
    /\ UNCHANGED progVars

\* A second run in the same heap.
BuildAgain ==
    /\ pc = "exported"
    /\ ~ again
    /\ IsPtr(result)
    /\ first' = <<GraphFrom(<<result>>)>>
    /\ again' = TRUE
    /\ inserted' = {}
    /\ args' = [args EXCEPT ![1] = Null, ![4] = Long(Inserts)]
    /\ fun' = "build"
    /\ pc' = "entry"
    /\ UNCHANGED <<mem, next, alloc, limit, fi, budget, gen, copyVars, result>>

\* free(y) after the second run: what a free of y, which is one word into what malloc
\* returned, does is undefined; this is how it goes on, if it does not end the process.
FreeFirst ==
    /\ BuildDone
    /\ result # Unused
    /\ mem' = [mem EXCEPT ![ValueSp] = <<>>]
    /\ next' = [next EXCEPT ![ValueSp] = 0]
    /\ result' = Unused
    /\ first' = <<>>
    /\ UNCHANGED <<args, alloc, limit, fi, budget, pc, gen, copyVars, fun, inserted, again>>

\* The process ends: in that free, or after the second tree has been exported; or in
\* the first run, if the answer is unboxed, which leaves nothing at y[1].
Finish ==
    /\ \/ BuildDone /\ result # Unused
       \/ pc = "exported" /\ (again \/ ~ IsPtr(result))
    /\ pc' = "finished"
    /\ UNCHANGED <<heapVars, fi, budget, gen, copyVars, result, progVars>>

-----------------------------------------------------------------------------
Mutator ==
    \/ Enter
    \/ InsertLeaf
    \/ InsertDown
    \/ InsertFound
    \/ InsertLeft
    \/ InsertRight
    \/ BuildNext
    \/ ExportTree
    \/ BuildAgain
    \/ FreeFirst
    \/ Finish

CollectorStep == (DoGeneration \/ GarbageCollect \/ Export \/ MallocFails)
                    /\ UNCHANGED progVars

Next == Mutator \/ CollectorStep

Spec == Init /\ [][Next]_allVars

\* One thread: as long as something can run, it does.
FairSpec == Spec /\ WF_allVars(Next)

-----------------------------------------------------------------------------
(* Properties. *)

\* The keys of the nodes below t, t among them.
KeysBelow(t) == {Field(mem, v, 0)[2] : v \in ToSet(ObjectsFrom(<<t>>))}

\* A search tree with the keys inserted: to the left of each node are smaller keys,
\* to its right larger ones, so that no node is there twice.
HoldsInserted(t) ==
    /\ KeysBelow(t) = inserted
    /\ \A v \in ToSet(ObjectsFrom(<<t>>)) :
           /\ \A k \in KeysBelow(Field(mem, v, 1)) : k < Field(mem, v, 0)[2]
           /\ \A k \in KeysBelow(Field(mem, v, 2)) : k > Field(mem, v, 0)[2]

\* The program keeps to the rules that gc.h has for mutators (module AnyMutator):
\* it allocates what it announced, and holds no pointer across a check but in the
\* args that it names.
ImplementsAnyMutator == AnySpec

\* The program works: whatever collections it goes through, the tree build has
\* in args[1] is a search tree of the keys inserted so far, and so is the copy
\* that export returns.
TreeHoldsKeys ==
    /\ pc \in {"entry", "mutator"} /\ fun = "build" => HoldsInserted(args[1])
    /\ pc = "exported" => HoldsInserted(result)

\* testmain.c: the first tree is still there after the program ran again, until it is
\* freed.
ExportOutlivesHeap ==
    first # <<>> => first = <<GraphFrom(<<result>>)>>

\* The program, and with it every collection and export, comes to an end.
Terminates == <>(pc \in Dead \cup {"finished"})
=============================================================================
