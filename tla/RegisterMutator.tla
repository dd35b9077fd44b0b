-------------------------- MODULE RegisterMutator --------------------------
(***************************************************************************)
(* The programs of theories/Runtime/gctest2.c, gctest3.c and gctest4.c:    *)
(* the tree insertion of gctest.c with alloc (and limit, in gctest4) kept  *)
(* in a register, which the collector does not see; gctest3 and gctest4    *)
(* moreover stay HEADROOM words below the end of the nursery, and compare  *)
(* pointers where gctest2 subtracts them.                                  *)
(*                                                                         *)
(* The collector is module Generations.  Of the tree, only the words its   *)
(* functions allocate are modelled; which way an insertion goes down is    *)
(* arbitrary.  The programs are written for a thread_info that points to   *)
(* the global variables alloc and limit; those stand for ti->alloc and     *)
(* ti->limit here.                                                         *)
(***************************************************************************)
EXTENDS Generations

CONSTANTS
    HEADROOM,   \* words gctest3 and gctest4 stay below the end
    INSERTS,    \* keys to insert: args[4] of each build
    RUNS        \* how often the main program calls build

\* No function of the programs asks for as much as HEADROOM.
ASSUME HeadroomAssumption == HEADROOM \in Nat /\ HEADROOM > 5

VARIABLES
    program,    \* which of the three programs runs
    fun,        \* the function entered or running
    code,       \* where in it: "entry", "collecting", "body"; or "done"
    allocx,     \* the register copy of alloc
    limitx,     \* that of limit, in gctest4
    frames,     \* continuations between the running insertion and buildx
    inserted,   \* insertions begun in this build
    runs        \* calls of build

regVars == <<program, fun, code, allocx, limitx, frames, inserted, runs>>
allVars == <<vars, regVars>>

\* fi[0] of fi_insert, fi_insert_left, fi_insert_right, fi_buildx.
FunInfo == [insert |-> 5, insert_left |-> 4, insert_right |-> 4, buildx |-> 0]

ASSUME FunInfoAssumption == \A f \in DOMAIN FunInfo : FunInfo[f] <= MAX_ALLOCS

-----------------------------------------------------------------------------
(* check, in the three programs.  The subtractions are unsigned.           *)

NeedsGC2(n) == limit - allocx \in 0 .. n - 1

NeedsGC3(n) ==
    IF n < HEADROOM THEN limit <= allocx
    ELSE limit - allocx \in 0 .. n - HEADROOM - 1

NeedsGC4(n) ==
    IF n < HEADROOM THEN limitx <= allocx
    ELSE limitx - allocx \in 0 .. n - HEADROOM - 1

\* What the collector finds in limit.
CallLimit2 == limit' = limit

\* (mutant) limit is left below the end
CallLimit3Low == limit' = limit

CallLimit3 == limit' = limit + HEADROOM

\* What check makes of it afterwards, in limit and in limitx.
Reload2 == UNCHANGED <<limit, limitx>>

\* (mutant) limit is left at the end
Reload3High == UNCHANGED <<limit, limitx>>

Reload3 == limit' = limit - HEADROOM /\ UNCHANGED limitx
Reload4 == limitx' = limit - HEADROOM /\ UNCHANGED limit

Enter ==
    /\ pc = "mutator"
    /\ code = "entry"
    /\ LET n == FunInfo[fun]
           needs == CASE program = "gctest2" -> NeedsGC2(n)
                      [] program = "gctest3" -> NeedsGC3(n)
                      [] program = "gctest4" -> NeedsGC4(n)
       IN  /\ num_allocs' = n
           /\ IF needs
              THEN /\ alloc' = allocx
                   /\ IF program = "gctest3" THEN CallLimit3 ELSE CallLimit2
                   /\ pc' = "garbage_collect"
                   /\ code' = "collecting"
                   /\ UNCHANGED budget
              ELSE /\ budget' = n
                   /\ code' = "body"
                   /\ UNCHANGED <<alloc, limit, pc>>
    /\ UNCHANGED <<heap, size, next, gen>>
    /\ UNCHANGED <<program, fun, allocx, limitx, frames, inserted, runs>>

Collected ==
    /\ pc = "mutator"
    /\ code = "collecting"
    /\ CASE program = "gctest2" -> Reload2
         [] program = "gctest3" -> Reload3
         [] program = "gctest4" -> Reload4
    /\ allocx' = alloc
    /\ code' = "body"
    /\ UNCHANGED <<heap, size, next, alloc, budget, num_allocs, gen, pc>>
    /\ UNCHANGED <<program, fun, frames, inserted, runs>>

-----------------------------------------------------------------------------
(* The function bodies: the words of consN, and a jump. *)

Body(f) == pc = "mutator" /\ code = "body" /\ fun = f

Cons(words) ==
    /\ allocx' = allocx + words
    /\ budget' = budget - words

Jump(f) ==
    /\ fun' = f
    /\ code' = "entry"
    /\ UNCHANGED <<heap, size, next, alloc, limit, num_allocs, gen, pc>>
    /\ UNCHANGED <<program, limitx, runs>>

\* contf: buildx, or the function of the newest frame.
Return ==
    IF frames = 0 THEN Jump("buildx") ELSE \E f \in {"insert_left", "insert_right"} : Jump(f)

\* insert: a new leaf, or a key that is there already ...
InsertHere ==
    /\ Body("insert")
    /\ \E words \in {0, 4} : Cons(words)
    /\ Return
    /\ UNCHANGED <<frames, inserted>>

\* ... or a frame to go on below, in a tree with fewer levels than insertions.
InsertDown ==
    /\ Body("insert")
    /\ frames < inserted - 1
    /\ Cons(5)
    /\ frames' = frames + 1
    /\ Jump("insert")
    /\ UNCHANGED inserted

InsertRebuild ==
    /\ Body("insert_left") \/ Body("insert_right")
    /\ Cons(4)
    /\ frames' = frames - 1
    /\ IF frames = 1 THEN Jump("buildx")
       ELSE \E f \in {"insert_left", "insert_right"} : Jump(f)
    /\ UNCHANGED inserted

BuildNext ==
    /\ Body("buildx")
    /\ inserted < INSERTS
    /\ Cons(0)
    /\ inserted' = inserted + 1
    /\ Jump("insert")
    /\ UNCHANGED frames

BuildDone ==
    /\ Body("buildx")
    /\ inserted = INSERTS
    /\ alloc' = allocx
    /\ code' = "done"
    /\ UNCHANGED <<heap, size, next, limit, budget, num_allocs, gen, pc>>
    /\ UNCHANGED <<program, fun, allocx, limitx, frames, inserted, runs>>

\* build, called again by the main program.  gctest3 and gctest4 set limit to
\* alloc, which makes the first check of buildx collect.
BuildAgain ==
    /\ code = "done"
    /\ runs < RUNS
    /\ runs' = runs + 1
    /\ limit' = IF program = "gctest2" THEN limit ELSE alloc
    /\ limitx' = limit'
    /\ allocx' = alloc
    /\ fun' = "buildx"
    /\ code' = "entry"
    /\ inserted' = 0
    /\ UNCHANGED <<heap, size, next, alloc, budget, num_allocs, gen, pc>>
    /\ UNCHANGED <<program, frames>>

-----------------------------------------------------------------------------
\* The static tinfo has no heap yet, and alloc and limit are NULL.
RegInit ==
    /\ Init
    /\ heap = "null"
    /\ program \in {"gctest2", "gctest3", "gctest4"}
    /\ fun = "buildx"
    /\ code = "entry"
    /\ allocx = 0
    /\ limitx = 0
    /\ frames = 0
    /\ inserted = 0
    /\ runs = 1

Run ==
    \/ Enter
    \/ Collected
    \/ InsertHere
    \/ InsertDown
    \/ InsertRebuild
    \/ BuildNext
    \/ BuildDone
    \/ BuildAgain

RegNext == Run \/ (Collect /\ UNCHANGED regVars)

RegSpec == RegInit /\ [][RegNext]_allVars

-----------------------------------------------------------------------------
(* Properties. *)

\* The words a function may still allocate are in the nursery, counted from its
\* register, however far limit or limitx was moved for its sake.
RegistersInNursery ==
    pc = "mutator" /\ code = "body" => allocx + budget <= size[0]

\* The assertions of gc.c, one of which is that the mutator left limit where it
\* was: it moved it, and must have put it back.  A second call of build does not:
\* in gctest3 and gctest4 it sets limit to alloc, and there is a heap by then.
CollectorAssertions ==
    runs = 1 \/ program = "gctest2" => AssertionsHold
=============================================================================
