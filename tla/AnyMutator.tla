----------------------------- MODULE AnyMutator -----------------------------
(***************************************************************************)
(* The collector with every mutator that keeps to gc.h.  Between a check   *)
(* and the next a function stores into args what it likes of the values it *)
(* can hold, and makes objects of them in the words it asked for; it names *)
(* the args that are live when it enters the next function.  It writes to  *)
(* no object that exists already.                                          *)
(*                                                                         *)
(* The actions constrain the state they lead to instead of enumerating it: *)
(* TLC checks that a program takes no other steps (ImplementsAnyMutator of *)
(* the tree of gctest.c), and module CollectorProofs proves what holds for *)
(* all the programs of which this is true.                                 *)
(***************************************************************************)
EXTENDS CollectorGraph

\* A word that is no header, raw data perhaps.
Word(v) == ~ IsHeader(v) /\ (IsPtr(v) => v \in Pointers)

\* A value a mutator can hold: if it is a pointer, it points to an object.
Sound(v) == Word(v) /\ (IsPtr(v) => Valid(v))

\* No heap yet, or an empty nursery.
AnyInit ==
    /\ \/ mem = [s \in Spaces |-> IF s = 0 THEN EmptySpace(NURSERY_SIZE) ELSE <<>>]
       \/ mem = [s \in Spaces |-> <<>>]
    /\ next = [s \in Spaces |-> 0]
    /\ DOMAIN args = ArgSlots
    /\ \A k \in ArgSlots : ~ IsHeader(args[k]) /\ ~ IsPtr(args[k])
    /\ alloc = 0
    /\ limit = Len(mem[0])
    /\ fi = [num_allocs |-> 0, roots |-> <<>>]
    /\ budget = 0
    /\ pc = "entry"
    /\ gen = 0
    /\ copy = NoCopy
    /\ scan = 0
    /\ calls = <<>>
    /\ result = Unused

\* A function is entered: what its fun_info lists is live.  Bound: one that asks
\* for more than NURSERY_SIZE words is stopped, whatever the number.
AnyEnter ==
    /\ Check(fi')
    /\ fi' \in [num_allocs : 0 .. NURSERY_SIZE + 1, roots : Seq(ArgSlots)]
    /\ \A k \in DOMAIN fi'.roots : Sound(args[fi'.roots[k]])

\* Slots are kept, or given values that point to what exists after the step.
StoreInArgs ==
    /\ DOMAIN args' = ArgSlots
    /\ \A k \in ArgSlots : args'[k] = args[k] \/ Sound(args[k])'

\* The words of the object made at alloc, within the budget.  Where forward goes
\* into the fields of a copy without a test for no_scan (DEPTH > 0), a program
\* must not have such objects.
MakesObject ==
    LET hd == mem'[0][alloc + 1]
        sz == Wosize_hd(hd)
    IN  /\ IsHeader(hd)
        /\ Tag_hd(hd) \in Nat
        /\ DEPTH > 0 => ~ No_scan(Tag_hd(hd))
        /\ sz \in 1 .. budget - 1
        /\ \A i \in alloc + 2 .. alloc + 1 + sz :
               /\ Word(mem'[0][i])
               /\ ~ No_scan(Tag_hd(hd)) => Sound(mem'[0][i])
        /\ mem' = [mem EXCEPT ![0] = [k \in DOMAIN @ |->
               IF k \in alloc + 1 .. alloc + 1 + sz THEN mem'[0][k] ELSE @[k]]]
        /\ alloc' = alloc + 1 + sz
        /\ budget' = budget - (1 + sz)

\* Some of a function's body, and perhaps the jump that ends it.
AnyBody ==
    /\ pc = "mutator"
    /\ pc' \in {"mutator", "entry"}
    /\ UNCHANGED <<mem, alloc, budget>> \/ (budget > 1 /\ MakesObject)
    /\ StoreInArgs
    /\ UNCHANGED <<next, limit, fi, gen, copyVars, result>>

\* The main program exports the answer: a boxed one is in the heap by then.  Bound:
\* the block of an earlier export has been freed.
AnyExport ==
    /\ result = Unused
    /\ 1 \in ArgSlots
    /\ pc = "mutator" => Sound(args[1])
    /\ ExportUnboxed \/ (HeapExists /\ ExportStart(fake_fi))

\* The program runs again in the same heap.
AnyRestart ==
    /\ pc = "exported"
    /\ pc' = "entry"
    /\ StoreInArgs
    /\ UNCHANGED <<mem, next, alloc, limit, fi, budget, gen, copyVars, result>>

\* No live root, and no field of an object outside it, points into space s.
NothingPointsTo(s) ==
    LET PointsTo(v) == IsPtr(v) /\ SpaceOf(v) = s IN
    /\ \A k \in DOMAIN fi.roots : ~ PointsTo(args[fi.roots[k]])
    /\ \A v \in Objects : SpaceOf(v) # s =>
           \A i \in DOMAIN Children(v) : ~ PointsTo(Children(v)[i])

\* The block that export returned is freed, or given up; nothing may lead to it then.
AnyFree ==
    /\ pc = "mutator"
    /\ result # Unused
    /\ NothingPointsTo(ValueSp)
    /\ mem' = [mem EXCEPT ![ValueSp] = <<>>]
    /\ next' = [next EXCEPT ![ValueSp] = 0]
    /\ result' = Unused
    /\ UNCHANGED <<args, alloc, limit, fi, budget, pc, gen, copyVars>>

AnyFinish ==
    /\ pc \in {"mutator", "exported"}
    /\ pc' = "finished"
    /\ UNCHANGED <<heapVars, fi, budget, gen, copyVars, result>>

AnyNext ==
    \/ AnyEnter
    \/ AnyBody
    \/ AnyExport
    \/ AnyRestart
    \/ AnyFree
    \/ AnyFinish
    \/ DoGeneration
    \/ GarbageCollect
    \/ Export
    \/ MallocFails

AnySpec == AnyInit /\ [][AnyNext]_vars
=============================================================================
