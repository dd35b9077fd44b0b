--------------------------- MODULE CollectorGraph ---------------------------
(***************************************************************************)
(* The graph the mutator sees in the collector's memory, and the           *)
(* properties of module Collector that are about it.  The graph is read    *)
(* the same way in the middle of a copy: an object that has already been   *)
(* forwarded stands for its copy.                                          *)
(***************************************************************************)
EXTENDS Collector, SequencesExt

\* v, or the copy of the object it points to.
Current(v) ==
    IF /\ pc = "copying" /\ IsPtr(v) /\ SpaceOf(v) = copy.from
       /\ IndexOf(v) - 1 \in DOMAIN mem[SpaceOf(v)]
       /\ Hd_val(mem, v) = ZeroHeader
    THEN Field(mem, v, 0)
    ELSE v

\* v points to an object in the used part of its space.
Valid(v) ==
    /\ SpaceOf(v) \in Spaces
    /\ IndexOf(v) \in 2 .. InUse(SpaceOf(v)) + 1
    /\ IsHeader(Hd_val(mem, v))
    /\ Hd_val(mem, v) # ZeroHeader
    /\ IndexOf(v) - 1 + Wosize(mem, v) <= InUse(SpaceOf(v))

\* The values the fields of object v hold; the data of a no_scan object is raw.
Children(v) ==
    IF No_scan(Tag_hd(Hd_val(mem, v)))
    THEN <<>>
    ELSE [i \in 1 .. Wosize(mem, v) |-> Current(Field(mem, v, i - 1))]

Pointers == {"ptr"} \X Nat \X Nat

\* Values with what is no pointer replaced by one that is never Valid.
NoObject == Ptr(0, 0)
PointersIn(values) == [i \in DOMAIN values |-> IF IsPtr(values[i]) THEN values[i] ELSE NoObject]

\* All objects reachable from the pointers that are still to do, in the order of a
\* depth-first traversal, after those already found.
Discover[search \in Seq(Pointers) \X Seq(Pointers)] ==
    LET found == search[1]
        todo  == search[2]
    IN  IF todo = <<>> THEN found
        ELSE IF Contains(found, Head(todo)) \/ ~ Valid(Head(todo))
        THEN Discover[<<found, Tail(todo)>>]
        ELSE Discover[<<Append(found, Head(todo)),
                        PointersIn(Children(Head(todo))) \o Tail(todo)>>]

RootValues(roots) == [k \in 1 .. Len(roots) |-> Current(args[roots[k]])]
ObjectsFrom(values) == Discover[<< <<>>, PointersIn(values) >>]

\* A value with its address replaced by the position of the object in found.
Name(found, v) ==
    IF ~ IsPtr(v)              THEN v
    ELSE IF Contains(found, v) THEN <<"node", CHOOSE k \in DOMAIN found : found[k] = v>>
    ELSE <<"dangling">>

\* The graph below values: two are isomorphic exactly when these are equal.
GraphFrom(values) ==
    LET Graph[found \in Seq(Pointers)] ==
            [roots |-> [k \in DOMAIN values |-> Name(found, values[k])],
             nodes |-> [k \in DOMAIN found |->
                 LET v == found[k] IN
                 [header |-> Hd_val(mem, v),
                  fields |-> [i \in 1 .. Wosize(mem, v) |->
                      IF No_scan(Tag_hd(Hd_val(mem, v)))
                      THEN Field(mem, v, i - 1)
                      ELSE Name(found, Current(Field(mem, v, i - 1)))]]]]
    IN  Graph[ObjectsFrom(values)]

LiveGraph == GraphFrom(RootValues(fi.roots))

-----------------------------------------------------------------------------
(* The collector implements gc.h. *)

Dead == {"assert_failed", "no_memory", "nursery_too_small",
         "ran_out_of_generations"}

GCI == INSTANCE GCInterface WITH
    phase <- IF pc \in {"entry", "mutator", "exported", "finished"} THEN "mutator"
             ELSE IF pc \in Dead THEN "stopped" ELSE "collector",
    graph <- LiveGraph,
    need  <- fi.num_allocs,
    room  <- limit - alloc

\* gc.h 110-119: the graph of the live roots is the same after garbage_collect,
\* and after export; so it is between any two calls of forward.
ImplementsInterface == GCI!Spec

(* The collector implements the bookkeeping of module Generations. *)

GenerationsPc ==
    IF pc \in {"entry", "exported", "finished"} THEN "mutator"
    ELSE IF pc # "copying" THEN pc
    ELSE CASE copy.caller = "garbage_collect"     -> "collect"
           [] copy.caller = "garbage_collect_all" -> "collect_all"
           [] copy.caller = "export"              -> "export"
           [] copy.caller = "compact"             -> "compact"

MaxAllocs  == NURSERY_SIZE + 1
HeapState  == IF HeapExists THEN "live" ELSE "null"
SpaceSizes == [i \in Gens |-> Len(mem[i])]
Requested  == fi.num_allocs

\* What is being copied to a space counts once all of it is there.
NextSettled ==
    [i \in Gens |-> IF pc = "copying" /\ i = copy.to THEN copy.p ELSE next[i]]

GN == INSTANCE Generations WITH
    MAX_ALLOCS <- MaxAllocs,
    heap       <- HeapState,
    size       <- SpaceSizes,
    next       <- NextSettled,
    num_allocs <- Requested,
    pc         <- GenerationsPc

\* What survives a collection is at most what was in use: no object is copied
\* twice, so a space that could take all of another takes what is live of it.
ImplementsGenerations == GN!Spec

\* The objects in the words first+1 .. last of space s, one to each header.
ObjectsBetween(s, first, last) ==
    {Ptr(s, k + 1) : k \in {j \in first + 1 .. last : IsHeader(mem[s][j])}}

-----------------------------------------------------------------------------
(* The steps of a collection, or of export, as isomorphisms. *)

CollectorRuns ==
    pc \in {"garbage_collect", "collect", "collect_all", "copying", "export", "compact"}

\* All objects, but for those that only remember where their copy is.
Objects ==
    {v \in UNION {ObjectsBetween(s, 0, InUse(s)) : s \in Spaces} :
        Hd_val(mem, v) # ZeroHeader}

\* The step that ends a do_generation gives up what is in its from-space.
Survives(v) == pc = "copying" /\ pc' # "copying" => SpaceOf(v) # copy.from

\* Value u, found in a root or a field, is w after the step.
Becomes(u, w) ==
    /\ IsPtr(u) => Valid(u) /\ Survives(u)
    /\ w = Current(u)'

\* Object v is the same after the step, wherever it is then.
Preserved(v) ==
    /\ Hd_val(mem, Current(v))' = Hd_val(mem, v)
    /\ IF No_scan(Tag_hd(Hd_val(mem, v)))
       THEN Fields(mem, Current(v))' = Fields(mem, v)
       ELSE \A i \in 1 .. Wosize(mem, v) : \A u \in {Current(Field(mem, v, i - 1))} :
                Becomes(u, Current(Field(mem, Current(v), i - 1))')

\* gc.h 110-119, step by step: whatever the collector does, the roots and the fields
\* of the objects that survive lead to what they led to, moved or not, and different
\* objects stay different. What survives is closed: no pointer leads out of it.
StepsKeepGraph ==
    [][CollectorRuns =>
        /\ \A k \in DOMAIN fi.roots : \A u \in {Current(args[fi.roots[k]])} :
               Becomes(u, Current(args[fi.roots[k]])')
        /\ \A v \in Objects : Survives(v) => Preserved(v)
        /\ \A v, w \in Objects :
               Survives(v) /\ Survives(w) /\ Current(v)' = Current(w)' => v = w]_vars

-----------------------------------------------------------------------------
(* Properties of the copy. *)

\* What do_scan has passed, and the roots once forwarded, no longer point into
\* the from-space, unless a call of forward is still due for the word.
ScannedPointsAway ==
    pc = "copying" =>
        LET due == {calls[k].p : k \in DOMAIN calls}
        IN  /\ \A k \in DOMAIN fi.roots :
                 ~ Is_from(args[fi.roots[k]]) \/ ArgLoc(fi.roots[k]) \in due
            /\ \A v \in ObjectsBetween(copy.to, copy.p, scan) :
                 ~ No_scan(Tag_hd(Hd_val(mem, v))) =>
                     \A i \in 1 .. Wosize(mem, v) :
                         \/ ~ Is_from(Field(mem, v, i - 1))
                         \/ MemLoc(copy.to, IndexOf(v) + i - 1) \in due

\* do_scan: leave alone "no_scan" (nonpointer) data, though it may look like a
\* pointer into the from-space.
NoScanLeftAlone ==
    [][(pc = "copying" /\ pc' = "copying") =>
        \A v \in ObjectsBetween(copy.to, copy.p, next[copy.to]) :
            No_scan(Tag_hd(Hd_val(mem, v))) => Fields(mem', v) = Fields(mem, v)]_vars

\* Only what is live is copied: when do_generation is done, each object it
\* added to the to-space is reachable from the roots.
CopiesOnlyLive ==
    (pc = "copying" /\ calls = <<>> /\ scan >= next[copy.to]) =>
        ObjectsBetween(copy.to, copy.p, next[copy.to])
            \subseteq ToSet(ObjectsFrom(RootValues(fi.roots)))

\* export (deep copy if boxed) the first field of args: the block it returns holds
\* what args[1] stands for, copied three times or more since export was called.
\* This is so for an answer in the heap: one outside it (a static closure, what an
\* earlier export has made) is not copied, and the block is empty.
ExportReturnsAnswer ==
    pc = "exported" /\ (IsPtr(args[1]) \/ ~ Is_block(args[1])) =>
        GraphFrom(<<result>>) = GraphFrom(<<args[1]>>)

\* export: the result is one block outside the heap, exactly as large as its
\* objects, and points nowhere else.
ExportIsCompact ==
    pc = "exported" /\ IsPtr(result) =>
        LET found == ObjectsFrom(<<result>>)
            Words(v) == IndexOf(v) - 1 .. IndexOf(v) - 1 + Wosize(mem, v)
        IN  /\ \A k \in DOMAIN found : SpaceOf(found[k]) = ValueSp
            /\ DOMAIN mem[ValueSp] = UNION {Words(found[k]) : k \in DOMAIN found}

\* gc.h: older generations may not point into the nursery, nor into any
\* generation younger than themselves, when the mutator runs.
OldNeverPointsYoung ==
    (pc = "mutator" /\ HeapExists) =>
        \A s \in Gens \ {0} : \A v \in ObjectsBetween(s, 0, InUse(s)) :
            LET c == Children(v) IN
            \A i \in DOMAIN c :
                IsPtr(c[i]) /\ SpaceOf(c[i]) \in Gens => SpaceOf(c[i]) >= s

\* No live root points to a word that is not in use, and no field of an object
\* does, whether the object is live or not.
NothingDangles ==
    pc \in {"mutator", "exported"} =>
        /\ \A k \in DOMAIN fi.roots : IsPtr(args[fi.roots[k]]) => Valid(args[fi.roots[k]])
        /\ \A s \in Spaces : \A v \in ObjectsBetween(s, 0, InUse(s)) :
               LET c == Children(v) IN
               \A i \in DOMAIN c : IsPtr(c[i]) => Valid(c[i])
=============================================================================
