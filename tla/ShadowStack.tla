---------------------------- MODULE ShadowStack ----------------------------
(***************************************************************************)
(* Direct-style code, as theories/L7/L6_to_Clight_stack.v generates it,    *)
(* with the collector of theories/Runtime/gc_stack.c.  Variables are C     *)
(* locals, which the collector cannot see: before a call, and before a     *)
(* collection, those still needed are pushed to a frame of the shadow      *)
(* stack, from which they are read back afterwards.                        *)
(*                                                                         *)
(* The program is arbitrary: a body does any sequence of operations, and   *)
(* what the generator computes from the rest of the body (the variables    *)
(* live after a call, the words allocated up to the next one) is chosen    *)
(* beforehand and binds the body from then on.                             *)
(*                                                                         *)
(* gc_stack.c differs from gc.c in its roots only, so module Collector     *)
(* stands for it; args holds ti->args[1] and the roots arrays of frames.   *)
(***************************************************************************)
EXTENDS CollectorGraph

CONSTANTS
    Ordinals,     \* the numbers of the constructors that are used, among boxed ones
    LocalNames,   \* a sequence: the names of local variables
    CALLS,        \* bound: how deep calls nest
    STEPS,        \* bound: how many operations the program does
    OBJECTS       \* bound: objects a body allocates from one check to the next; a
                  \* request for more words than the nursery has stops the program

Locals == {LocalNames[i] : i \in DOMAIN LocalNames}
Depths == 1 .. CALLS

\* A call passes up to two variables, which its callee gives names.
ASSUME NamesAssumption  == LocalNames \in Seq(Locals) /\ Len(LocalNames) >= 2
ASSUME BoundsAssumption ==
    /\ CALLS \in Nat \ {0} /\ STEPS \in Nat /\ OBJECTS \in Nat
    /\ 3 * OBJECTS <= NURSERY_SIZE + 1

VARIABLES
    stack,    \* the C stack: the activations of functions, the newest last
    frames,   \* the stack_frame struct at each depth, wherever fp points
    fp,       \* ti->fp: the depth of a frame, or 0 for NULL
    code,     \* what the newest activation is about to do
    answer,   \* history: what args[1] stands for, once a function has returned
    steps     \* operations done

stackVars == <<stack, frames, fp, code, answer, steps>>
allVars   == <<vars, stackVars>>

\* max_allocs adds up the words of the objects, which are all pairs here.
Requests == {3 * n : n \in 0 .. OBJECTS}

\* The slots in args: ti->args[1], then Len(LocalNames) roots for each frame.
Answer     == 1
Root(d, i) == 2 + (d - 1) * Len(LocalNames) + i
Slots      == 1 .. 1 + CALLS * Len(LocalNames)

\* PS.elements: a set of variables, in some order.
Elements(S) == SetToSeq(S)

-----------------------------------------------------------------------------
\* Values as trees, which is what a value means to a program.

Leaf(n)       == <<"leaf", n>>
Node(t, kids) == <<"node", t, kids>>

Values == ({"long"} \X Nat) \cup Pointers

\* What v means, read to the depth of fuel: TreeOf[fuel][v].
TreeOf[fuel \in Nat] ==
    [v \in Values |->
        IF ~ IsPtr(v) THEN Leaf(v[2])
        ELSE IF \/ fuel = 0
                \/ IndexOf(v) - 1 \notin DOMAIN mem[SpaceOf(v)]
                \/ ~ IsHeader(Hd_val(mem, v))
                \/ IndexOf(v) + Wosize(mem, v) - 1 > Len(mem[SpaceOf(v)])
        THEN <<"dangling">>
        ELSE Node(Tag_hd(Hd_val(mem, v)),
                  [i \in 1 .. Wosize(mem, v) |->
                      IF Field(mem, v, i - 1) \notin Values THEN <<"dangling">>
                      ELSE TreeOf[fuel - 1][Field(mem, v, i - 1)]])]

-----------------------------------------------------------------------------
(* The shadow stack. *)

\* The roots of at most n frames, from frame f back to NULL: FramesFrom(frs)[n][f].
FramesFrom(frs) ==
    LET From[n \in 0 .. CALLS] ==
            [f \in 0 .. CALLS |->
                IF n = 0 \/ f = 0 THEN <<>>
                ELSE [i \in 1 .. frs[f].next |-> Root(f, i - 1)]
                         \o From[n - 1][frs[f].prev]]
    IN  From

\* forward_roots: the roots of every frame.
FrameRoots(newest, frs) == FramesFrom(frs)[CALLS][newest]

\* args after the variables xs of activation a have been pushed to frame d,
\* from root number off on.
Pushed(d, a, off, xs) ==
    [c \in DOMAIN args |->
        IF c \in Root(d, off) .. Root(d, off + Len(xs) - 1)
        THEN a.vars[xs[c - Root(d, off) + 1]]
        ELSE args[c]]

\* The variables vs after xs have been popped from frame d.
Popped(d, vs, off, xs) ==
    [v \in DOMAIN vs |->
        IF \E i \in DOMAIN xs : xs[i] = v
        THEN args[Root(d, off + (CHOOSE i \in DOMAIN xs : xs[i] = v) - 1)]
        ELSE vs[v]]

init_stack(d) == [frames EXCEPT ![d] = [next |-> 0, prev |-> fp]]

\* (mutant) the frame is not linked
set_stack_not(d, sp, after_call) == fp' = fp

set_stack(d, sp, after_call) == fp' = IF sp = 0 \/ after_call THEN fp ELSE d

update_stack(d, sp) ==
    frames' = IF sp = 0 THEN frames ELSE [frames EXCEPT ![d].next = sp]

\* (mutant) the frame stays linked
reset_stack_not(d, sp, after_call) == fp

reset_stack(d, sp, after_call) ==
    IF sp = 0 \/ after_call THEN fp ELSE frames[d].prev

-----------------------------------------------------------------------------
(* The activation on top of the C stack. *)

cur == Len(stack)     \* its depth
top == stack[cur]

\* live: the variables the rest of the body may use; held: those pushed for the
\* call in progress; fresh: whether its result is live too; means: history.
Activation(params, values, means) ==
    LET Of(f, none) == [v \in Locals |->
            IF \E i \in DOMAIN params : params[i] = v
            THEN f[CHOOSE i \in DOMAIN params : params[i] = v] ELSE none]
    IN  [vars |-> Of(values, Long(0)), means |-> Of(means, Leaf(0)),
         live |-> {params[i] : i \in DOMAIN params},
         held |-> <<>>, result |-> LocalNames[1], fresh |-> FALSE,
         alloc |-> 0, limit |-> 0]

\* The activation with variables S for the live ones; what dead ones hold is
\* never read, and forgotten.
Live(a, S) ==
    [a EXCEPT !.live = S,
              !.vars = [v \in Locals |-> IF v \in S THEN @[v] ELSE Long(0)],
              !.means = [v \in Locals |-> IF v \in S THEN @[v] ELSE Leaf(0)]]

\* make_GC_call, when there is not enough room: xs are pushed at root off.
NeedsGC(n, a) == n # 0 /\ ~ (n <= a.limit - a.alloc)

CallGC(n, a, off, xs, then) ==
    LET slots == off + Len(xs) IN
    /\ args' = Pushed(cur, a, off, xs)
    /\ set_stack(cur, slots, off # 0)
    /\ fi' = [num_allocs |-> n, roots |-> FrameRoots(fp', frames')]
    /\ pc' = "garbage_collect"
    /\ code' = then

\* (mutant) the caller goes on with the alloc and limit it had before
Kept(a) == a

\* The local copies of ti->alloc and ti->limit.
Reloaded(a) == [a EXCEPT !.alloc = alloc, !.limit = limit]

Ready(where) == pc = "mutator" /\ code = where

NoCollector == UNCHANGED <<next, gen, copyVars, result>>

\* An operation of the body of the newest activation, which becomes a.
Operation(a) ==
    /\ steps < STEPS
    /\ steps' = steps + 1
    /\ stack' = [stack EXCEPT ![cur] = a]

-----------------------------------------------------------------------------
(* A function is entered. *)

Enter ==
    /\ Ready("enter")
    /\ \E n \in Requests, used \in SUBSET top.live :
        LET a == Live(Reloaded(top), used)
            xs == Elements(used)
        IN  /\ stack' = [stack EXCEPT ![cur] = a]
            /\ IF NeedsGC(n, a)
               THEN /\ frames' = [init_stack(cur) EXCEPT ![cur].next = Len(xs)]
                    /\ CallGC(n, a, 0, xs, "entered")
                    /\ UNCHANGED budget
               ELSE /\ frames' = init_stack(cur)
                    /\ budget' = n
                    /\ code' = "run"
                    /\ UNCHANGED <<args, fp, fi, pc>>
    /\ NoCollector
    /\ UNCHANGED <<mem, alloc, limit, answer, steps>>

\* Back from the collection on entry.
Entered ==
    /\ Ready("entered")
    /\ LET xs == Elements(top.live) IN
        /\ stack' = [stack EXCEPT
                ![cur] = [Reloaded(top) EXCEPT !.vars = Popped(cur, @, 0, xs)]]
        /\ fp' = reset_stack(cur, Len(xs), FALSE)
    /\ code' = "run"
    /\ NoCollector
    /\ UNCHANGED <<mem, args, alloc, limit, fi, budget, pc, frames, answer, steps>>

-----------------------------------------------------------------------------
(* The operations of a body. *)

\* Variable v gets a value, and with it a meaning.
Defined(a, v, value, mean) ==
    [a EXCEPT !.vars[v] = value, !.means[v] = mean, !.live = @ \cup {v}]

NoCall == /\ NoCollector
          /\ UNCHANGED <<args, alloc, limit, fi, pc, frames, fp, code, answer>>

\* Econstr, of a constructor without arguments.
Enum ==
    /\ Ready("run")
    /\ \E v \in Locals : Operation(Defined(top, v, Long(1), Leaf(1)))
    /\ NoCall
    /\ UNCHANGED <<mem, budget>>

\* Econstr, of a constructor with two: three words from the local alloc.  The
\* tag in the header is the constructor's number (makeTagZ).
Construct ==
    /\ Ready("run")
    /\ budget >= 3
    /\ \E v \in Locals, x \in top.live, y \in top.live, t \in Ordinals :
        LET a == Defined(top, v, Ptr(0, top.alloc + 2),
                         Node(t, <<top.means[x], top.means[y]>>))
            new == <<Header(2, t), top.vars[x], top.vars[y]>>
        IN  /\ Operation([a EXCEPT !.alloc = @ + 3])
            /\ mem' = [mem EXCEPT ![0] = [k \in DOMAIN @ |->
                   IF k \in top.alloc + 1 .. top.alloc + 3
                   THEN new[k - top.alloc] ELSE @[k]]]
    /\ budget' = budget - 3
    /\ NoCall

\* Eproj, after an Ecase that found a boxed constructor.
Project ==
    /\ Ready("run")
    /\ \E v \in Locals, x \in top.live, i \in {1, 2} :
        /\ IsPtr(top.vars[x])
        /\ Operation(Defined(top, v, Field(mem, top.vars[x], i - 1),
                             top.means[x][3][i]))
    /\ NoCall
    /\ UNCHANGED <<mem, budget>>

-----------------------------------------------------------------------------
(* Calls. *)

\* The parameters a callee gets: up to two of the live variables.
Passed == {<<>>} \cup {<<x>> : x \in top.live}
              \cup {<<x, y>> : x \in top.live, y \in top.live}

Callee(xs) ==
    Activation(SubSeq(LocalNames, 1, Len(xs)),
               [i \in DOMAIN xs |-> top.vars[xs[i]]],
               [i \in DOMAIN xs |-> top.means[xs[i]]])

\* Eletapp: push what is live after the call, but for the result, and call.
LetApp ==
    /\ Ready("run")
    /\ cur < CALLS
    /\ \E x \in Locals : \E after \in SUBSET (top.live \ {x}), xs \in Passed :
        LET held == Elements(after)
            a == [Live(top, after) EXCEPT !.result = x, !.held = held]
        IN  /\ steps < STEPS
            /\ steps' = steps + 1
            /\ stack' = Append([stack EXCEPT ![cur] = a], Callee(xs))
            /\ args' = Pushed(cur, top, 0, held)
            /\ update_stack(cur, Len(held))
            /\ set_stack(cur, Len(held), FALSE)
    /\ alloc' = top.alloc
    /\ limit' = top.limit
    /\ code' = "enter"
    /\ NoCollector
    /\ UNCHANGED <<mem, fi, budget, pc, answer>>

\* Eapp, in tail position: nothing is held, the activation is replaced.
App ==
    /\ Ready("run")
    /\ \E xs \in Passed : Operation(Callee(xs))
    /\ alloc' = top.alloc
    /\ limit' = top.limit
    /\ code' = "enter"
    /\ NoCollector
    /\ UNCHANGED <<mem, args, fi, budget, pc, frames, fp, answer>>

\* Ehalt: the result goes to args[1].
Halt ==
    /\ Ready("run")
    /\ \E x \in top.live :
        /\ args' = [args EXCEPT ![Answer] = top.vars[x]]
        /\ answer' = top.means[x]
    /\ stack' = SubSeq(stack, 1, cur - 1)
    /\ alloc' = top.alloc
    /\ limit' = top.limit
    /\ code' = IF cur = 1 THEN "halted" ELSE "returned"
    /\ NoCollector
    /\ UNCHANGED <<mem, fi, budget, pc, frames, fp, steps>>

\* What the caller holds is popped, and its frame is unlinked.
Discard(a) ==
    /\ stack' = [stack EXCEPT ![cur] = Live(
           [a EXCEPT !.vars = Popped(cur, @, 0, a.held), !.held = <<>>, !.fresh = FALSE],
           a.live \cup (IF a.fresh THEN {a.result} ELSE {}))]
    /\ code' = "run"

\* After a call: the result, and a collection if the rest needs the room, with
\* the result pushed above what is held if it is live.
Returned ==
    /\ Ready("returned")
    /\ \E n \in Requests, fresh \in BOOLEAN :
        LET b == [Reloaded(top) EXCEPT !.vars[top.result] = args[Answer],
                                       !.means[top.result] = answer,
                                       !.fresh = fresh]
            k == Len(top.held)
            xs == IF fresh THEN <<top.result>> ELSE <<>>
        IN  IF NeedsGC(n, b)
            THEN /\ stack' = [stack EXCEPT ![cur] = b]
                 /\ update_stack(cur, k + Len(xs))
                 /\ CallGC(n, b, k, xs, "collected")
                 /\ UNCHANGED budget
            ELSE /\ Discard(b)
                 /\ budget' = n
                 /\ fp' = reset_stack(cur, k, FALSE)
                 /\ UNCHANGED <<args, fi, pc, frames>>
    /\ NoCollector
    /\ UNCHANGED <<mem, alloc, limit, answer, steps>>

\* Back from that collection.
Collected ==
    /\ Ready("collected")
    /\ LET k == Len(top.held)
           xs == IF top.fresh THEN <<top.result>> ELSE <<>>
       IN  /\ Discard([Reloaded(top) EXCEPT !.vars = Popped(cur, @, k, xs)])
           /\ fp' = IF k = 0 THEN reset_stack(cur, Len(xs), FALSE)
                    ELSE reset_stack(cur, k, FALSE)
    /\ NoCollector
    /\ UNCHANGED <<mem, args, alloc, limit, fi, budget, pc, frames, answer, steps>>

-----------------------------------------------------------------------------
(* The whole program. *)

Init ==
    /\ mem = [s \in Spaces |-> IF s = 0 THEN EmptySpace(NURSERY_SIZE) ELSE <<>>]
    /\ next = [s \in Spaces |-> 0]
    /\ args = [c \in Slots |-> Long(0)]
    /\ alloc = 0
    /\ limit = Len(mem[0])
    /\ fi = [num_allocs |-> 0, roots |-> <<>>]
    /\ budget = 0
    /\ pc = "mutator"
    /\ gen = 0
    /\ copy = NoCopy
    /\ scan = 0
    /\ calls = <<>>
    /\ result = Unused
    /\ stack = <<Activation(<<>>, <<>>, <<>>)>>
    /\ frames = [f \in Depths |-> [next |-> 0, prev |-> 0]]
    /\ fp = 0
    /\ code = "enter"
    /\ answer = Leaf(0)
    /\ steps = 0

\* The main program calls body again, in the heap there is.
Again ==
    /\ Ready("halted")
    /\ stack' = <<Activation(<<>>, <<>>, <<>>)>>
    /\ code' = "enter"
    /\ answer' = Leaf(0)
    /\ NoCollector
    /\ UNCHANGED <<mem, args, alloc, limit, fi, budget, pc, frames, fp, steps>>

Mutator ==
    \/ Enter
    \/ Entered
    \/ Enum
    \/ Construct
    \/ Project
    \/ LetApp
    \/ App
    \/ Halt
    \/ Again
    \/ Returned
    \/ Collected

\* gc_stack.c, but for its roots.
Collection == GarbageCollect /\ UNCHANGED stackVars
Copy       == DoGeneration /\ UNCHANGED stackVars

\* gc_stack.c's export has the frames for roots, too.
ExportAnswer ==
    /\ code = "halted"
    /\ \/ ExportUnboxed
       \/ ExportStart([num_allocs |-> fi.num_allocs, roots |-> FrameRoots(fp, frames)])
    /\ UNCHANGED stackVars

ExportRest == (Export \/ MallocFails) /\ UNCHANGED stackVars

Next == Mutator \/ Collection \/ Copy \/ ExportAnswer \/ ExportRest

Spec == Init /\ [][Next]_allVars

-----------------------------------------------------------------------------
(* Properties. *)

\* Values are immutable: a variable means the same from where it is bound to its
\* last use, whatever has been collected in the function or in those it called.
VariablesKeepMeaning ==
    /\ Ready("run") =>
        \A v \in top.live : TreeOf[STEPS][top.vars[v]] = top.means[v]
    /\ code = "halted" /\ pc = "mutator" => TreeOf[STEPS][args[Answer]] = answer

\* The roots of what the n oldest activations hold.
Holding ==
    LET Of[n \in 0 .. cur] ==
            IF n = 0 THEN <<>>
            ELSE [i \in 1 .. Len(stack[n].held) |-> Root(n, i - 1)] \o Of[n - 1]
    IN  Of

\* How many variables the newest activation has in its frame for a collection of its
\* own: what is live on entry; after a call, what it holds and the result, if live.
Pushes ==
    IF code = "entered" THEN Len(Elements(top.live))
    ELSE Len(top.held) + (IF top.fresh THEN 1 ELSE 0)

\* Following the frames from ti->fp finds, in order: while a function is entered or
\* runs, the roots of each caller that holds something and no other; from its call of
\* the collector until it reads its frame back, what it has pushed itself, and then
\* those; nothing, once the program has halted.
FramesMatchCalls ==
    /\ code \in {"enter", "run"} => FrameRoots(fp, frames) = Holding[cur - 1]
    /\ code \in {"entered", "collected"} =>
           FrameRoots(fp, frames) =
               [i \in 1 .. Pushes |-> Root(cur, i - 1)] \o Holding[cur - 1]
    /\ code = "halted" => FrameRoots(fp, frames) = <<>>

\* The words a body was promised are free, counted from its own alloc: after a
\* call it does not go on where it was before.
BodyHasRoom ==
    Ready("run") => alloc <= top.alloc /\ top.alloc + budget <= Len(mem[0])

\* export (deep copy if boxed) the first field of args: the copy means the same.
ExportCopiesAnswer == pc = "exported" => TreeOf[STEPS][result] = answer
=============================================================================
