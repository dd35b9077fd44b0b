---------------------------- MODULE GeneratedCode ----------------------------
(***************************************************************************)
(* The two code generators as algorithms on terms of L6, and what the code *)
(* they generate does with variables: theories/L7/L6_to_Clight_stack.v for *)
(* direct style, with the shadow stack of gc_stack.c, and L6_to_Clight.v   *)
(* for terms in continuation-passing style, with gc.c.  The latter also    *)
(* has a variant that leaves an argument in args when it is there already. *)
(*                                                                         *)
(* Memory is left out: a value is the tree it stands for, and a collection *)
(* spoils every copy of a pointer that is not one of its roots.  Where     *)
(* ShadowStack lets a function use and allocate anything, here the term    *)
(* says what it does, and the generator what is saved and promised for it. *)
(***************************************************************************)
EXTENDS Integers, Sequences, FiniteSets, FiniteSetsExt, SequencesExt

CONSTANTS
    nParam,      \* how many arguments are passed as C parameters
    Vars,        \* the variables, numbers
    Names,       \* the names of functions
    Arity,       \* how many parameters each of them has
    Terms,       \* the terms that occur in programs, their subterms included
    CPSTerms,    \* those in continuation-passing style
    Height,      \* a measure of terms, larger than that of any subterm
    Programs,    \* the programs: for each scheme, functions from names to definitions
    Data,        \* the values the program starts with, and what they consist of
    Inputs,      \* what f is called with first: a set of sequences of values
    SLOTS,       \* bound: slots of args that are modelled
    ENTRIES      \* bound: how many functions the program enters

Schemes == {"direct", "cps", "cps_fast"}

VARIABLES
    scheme,    \* which generator, of Schemes
    program,   \* its input: the functions of a hoisted term
    stack,     \* the C stack: the activations of functions, the newest last
    fp,        \* ti->fp: the depth of a frame, or 0 for NULL
    args,      \* ti->args
    code,      \* where the newest activation is
    answer,    \* history: what the function that has returned answered
    entries    \* functions entered

vars == <<scheme, program, stack, fp, args, code, answer, entries>>

-----------------------------------------------------------------------------
(* Terms (L6_PCPS/cps.v) and constructors.                                 *)

Econstr(x, t, vs, e) == [op |-> "constr", x |-> x, t |-> t, vs |-> vs, e |-> e]
Ecase(x, cs)         == [op |-> "case", x |-> x, cs |-> cs]
Eproj(x, n, v, e)    == [op |-> "proj", x |-> x, n |-> n, vs |-> <<v>>, e |-> e]
Eletapp(x, f, vs, e) == [op |-> "letapp", x |-> x, f |-> f, vs |-> vs, e |-> e]
Eapp(f, vs)          == [op |-> "app", f |-> f, vs |-> vs]
Ehalt(x)             == [op |-> "halt", vs |-> <<x>>]

Subterms(e) ==
    CASE e.op = "case"            -> {e.cs[i].e : i \in DOMAIN e.cs}
      [] e.op \in {"app", "halt"} -> {}
      [] OTHER                    -> {e.e}

\* Constructors without and with arguments are numbered apart, each from 0.
Ctor(arity, ordinal) == [arity |-> arity, ordinal |-> ordinal]
Ctors == [arity : Nat, ordinal : Nat]

\* Constructors and functions are applied to as many arguments as they have, and
\* the branches of a case are for different constructors of one type.
WellFormed(e) ==
    /\ e.op \in {"constr", "case", "proj", "letapp", "app", "halt"}
    /\ e.op \in {"constr", "case", "proj", "letapp"} => e.x \in Vars
    /\ e.op # "case" => e.vs \in Seq(Vars)
    /\ e.op = "case" =>
           /\ e.cs \in Seq([c : Ctors, e : Terms])
           /\ \A i \in DOMAIN e.cs : \A j \in DOMAIN e.cs :
                  /\ (e.cs[i].c.arity = 0) = (e.cs[j].c.arity = 0)
                  /\ e.cs[i].c.ordinal = e.cs[j].c.ordinal
                  => i = j
           /\ \A i \in DOMAIN e.cs : e.cs[i].c.arity # 0 => e.cs[i].c.ordinal < 256
    /\ e.op = "constr" => e.t \in Ctors /\ e.t.arity = Len(e.vs)
    /\ e.op \in {"letapp", "app"} => e.f \in Names /\ Len(e.vs) = Arity[e.f]
    /\ e.op \in {"proj", "halt"} => Len(e.vs) = 1

ASSUME BoundsAssumption ==
    /\ nParam \in Nat /\ SLOTS \in Nat \ {0, 1} /\ ENTRIES \in Nat \ {0}
    /\ Arity \in [Names -> 0 .. SLOTS]
ASSUME VarsAssumption  == Vars \subseteq Nat /\ IsFiniteSet(Vars)
ASSUME TermsAssumption ==
    /\ Height \in [Terms -> Nat]
    /\ \A e \in Terms : WellFormed(e) /\ \A s \in Subterms(e) :
           s \in Terms /\ Height[s] < Height[e]
ASSUME CPSAssumption ==
    /\ CPSTerms \subseteq Terms
    /\ \A e \in CPSTerms : e.op # "letapp" /\ Subterms(e) \subseteq CPSTerms
ASSUME ProgramsAssumption ==
    /\ "f" \in Names
    /\ Programs \in [Schemes -> SUBSET [Names -> [vs : Seq(Vars), e : Terms]]]
ASSUME DataAssumption ==
    /\ \A v \in Data : v.c \in Ctors /\ v.kids \in Seq(Data)
    /\ \A vs \in Inputs : vs \in Seq(Data) /\ Len(vs) = Arity["f"]

makeTagZ(c) == IF c.arity = 0 THEN 2 * c.ordinal + 1 ELSE 1024 * c.arity + c.ordinal

\* alloc moves on by a + 1, or not at all.
Words(c) == IF c.arity = 0 THEN 0 ELSE c.arity + 1

Value(c, kids) == [c |-> c, kids |-> kids]

\* A cell that holds no value, or a pointer to where the object was.
Stale == Value(Ctor(0, -1), <<>>)

\* A collection has moved all objects.
Moved(v) == IF v.c.arity = 0 THEN v ELSE Stale

\* (mutant) a constructor without arguments is looked up by its word
LabelUnshifted(c) == IF c.arity = 0 THEN makeTagZ(c) ELSE makeTagZ(c) % 256

\* The label of a branch, as Sswitch finds it.
Label(c) == IF c.arity = 0 THEN c.ordinal ELSE makeTagZ(c) % 256

\* What Sswitch looks at: x >> 1, or the header & 255.
Scrutinee(v) == IF v.c.arity = 0 THEN makeTagZ(v.c) \div 2 ELSE makeTagZ(v.c) % 256

\* The branches of the switch for v: the boxed constructors, or the unboxed ones.
Alike(cs, v) == {i \in DOMAIN cs : (cs[i].c.arity = 0) = (v.c.arity = 0)}

\* makeCases and make_case_switch: the last branch of a switch is its default.
Branch(cs, v) ==
    LET last == Max(Alike(cs, v))
        hits == {i \in Alike(cs, v) \ {last} : Label(cs[i].c) = Scrutinee(v)}
    IN  cs[IF hits = {} THEN last ELSE Min(hits)]

-----------------------------------------------------------------------------
(* What the generators compute from a term. *)

exp_fv[e \in Terms] ==
    CASE e.op = "case" -> {e.x} \cup UNION {exp_fv[e.cs[i].e] : i \in DOMAIN e.cs}
      [] e.op \in {"app", "halt"} -> ToSet(e.vs)
      [] OTHER -> ToSet(e.vs) \cup (exp_fv[e.e] \ {e.x})

get_locals[e \in Terms] ==
    CASE e.op = "case" -> UNION {get_locals[e.cs[i].e] : i \in DOMAIN e.cs}
      [] e.op \in {"app", "halt"} -> {}
      [] OTHER -> {e.x} \cup get_locals[e.e]

\* Functions are closed, and bind their variables once.
ASSUME ClosedAssumption ==
    \A s \in Schemes : \A p \in Programs[s] : \A f \in Names :
        /\ Len(p[f].vs) = Arity[f] /\ IsInjective(p[f].vs)
        /\ exp_fv[p[f].e] \subseteq ToSet(p[f].vs)
        /\ get_locals[p[f].e] \cap ToSet(p[f].vs) = {}
        /\ s # "direct" => p[f].e \in CPSTerms

\* (mutant) the header is forgotten
FieldWords(vs) == Len(vs)

ConstrWords(vs) == IF vs = <<>> THEN 0 ELSE 1 + Len(vs)

\* No word after a call.  L6_to_Clight.v counts on there, but its terms make none.
max_allocs[e \in Terms] ==
    CASE e.op = "case" -> Max({0} \cup {max_allocs[e.cs[i].e] : i \in DOMAIN e.cs})
      [] e.op = "constr" -> ConstrWords(e.vs) + max_allocs[e.e]
      [] e.op = "proj" -> max_allocs[e.e]
      [] OTHER -> 0

\* PS.elements: in increasing order.
Elements(S) ==
    [i \in 1 .. Cardinality(S) |->
        CHOOSE v \in S : Cardinality({u \in S : u < v}) = i - 1]

Params(f)  == program[f].vs
Body(f)    == program[f].e
LocVars(f) == ToSet(Params(f)) \cup get_locals[Body(f)]

\* Pushed before the call e of function f: what is live after it.
fvs_list(f, e) == Elements((exp_fv[e.e] \cap LocVars(f)) \ {e.x})

\* Pushed for a collection after the call: its result, if it is live.
fv_gc(e) == IF e.x \in exp_fv[e.e] THEN <<e.x>> ELSE <<>>

\* Pushed for a collection on entry.
live_vars(f) == Elements(exp_fv[Body(f)] \cap ToSet(Params(f)))

\* (mutant) the roots of the collection after the call are not counted
slots_call(f, e) == Len(fvs_list(f, e))

\* Roots in use during the call e and the collection after it.
slots_gc(f, e) ==
    Len(fvs_list(f, e)) + (IF max_allocs[e.e] = 0 THEN 0 ELSE Len(fv_gc(e)))

\* translate_body's count of roots: body_slots(f)[e][slots] from slots on.
body_slots(f) ==
    LET From[e \in Terms] == [slots \in Nat |->
            CASE e.op = "case" ->
                    Max({slots} \cup {From[e.cs[i].e][slots] : i \in DOMAIN e.cs})
              [] e.op \in {"app", "halt"} -> slots
              [] e.op = "letapp" -> From[e.e][Max({slots, slots_gc(f, e)})]
              [] OTHER -> From[e.e][slots]]
    IN  From

\* The length of the roots array that function f declares.
stack_slots(f) == Max({Len(live_vars(f)), body_slots(f)[Body(f)][0]})

\* makeArgList: argument i has the slot args[i - 1], used if i > nParam.
ArgSlot(i) == i - 1

\* The slots that fi announces as roots: those of all parameters.
FunInfoRoots(f) == {ArgSlot(i) : i \in DOMAIN Params(f)}

-----------------------------------------------------------------------------
(* The newest activation, and what calls and collections do to variables.  *)

cur == Len(stack)
top == stack[cur]
term == top.e

\* The activation of function f that gets the values vs, of which the C
\* parameters have arrived.  means is history: what each variable stands for.
Activation(f, values, means) ==
    LET At(v, seq, some) ==
            LET is == {i \in some : Params(f)[i] = v}
            IN  IF is = {} THEN Stale ELSE seq[Min(is)]
    IN  [f |-> f, e |-> Body(f),
         vars  |-> [v \in Vars |-> At(v, values, 1 .. nParam \cap DOMAIN Params(f))],
         means |-> [v \in Vars |-> At(v, means, DOMAIN Params(f))],
         roots |-> <<>>, next |-> 0, prev |-> 0, room |-> 0]

\* asgnFunVars: parameters from the slots of args; some selects their numbers.
asgnFunVars(a, some) ==
    [a EXCEPT !.vars = [v \in Vars |->
        LET is == {i \in some : Params(a.f)[i] = v}
        IN  IF is = {} THEN @[v] ELSE args[ArgSlot(Min(is))]]]

CParams(f)    == 1 .. nParam \cap DOMAIN Params(f)
SlotParams(f) == DOMAIN Params(f) \ CParams(f)

\* args with values[i] stored for each i of some.
Stored(values, some) ==
    [c \in DOMAIN args |-> IF c + 1 \in some THEN values[c + 1] ELSE args[c]]

Values(a, vs) == [i \in DOMAIN vs |-> a.vars[vs[i]]]

\* asgnAppVars_fast: a parameter passed on in its own slot is not stored.
asgnAppVars_fast(a, vs) ==
    Stored(Values(a, vs),
           {i \in DOMAIN vs : i > nParam /\ ~ (i \in DOMAIN Params(a.f) /\ Params(a.f)[i] = vs[i])})

asgnAppVars(a, vs) == Stored(Values(a, vs), {i \in DOMAIN vs : i > nParam})

\* push_live_vars_offset and update_stack
Push(a, off, xs) ==
    LET pushed == SubSeq(a.roots, 1, off) \o Values(a, xs)
    IN  IF pushed = <<>> THEN a ELSE [a EXCEPT !.roots = pushed, !.next = Len(pushed)]

Pop(a, off, xs) ==
    [a EXCEPT !.vars = [v \in Vars |->
        LET is == {i \in DOMAIN xs : xs[i] = v}
        IN  IF is = {} THEN @[v] ELSE a.roots[off + Min(is)]]]

set_stack(slots, after_call) == IF slots = 0 \/ after_call THEN fp ELSE cur

\* (mutant) the frame stays linked
reset_stack_not(slots, after_call) == fp

reset_stack(slots, after_call) == IF slots = 0 \/ after_call THEN fp ELSE top.prev

\* A frame whose function runs, and that was linked to an older one.
LiveFrame(d) == d <= cur /\ stack[d].prev < d

\* The depths of the frames that forward_roots finds, up to one that is not live.
Chain ==
    LET From[d \in 0 .. ENTRIES] ==
            IF d = 0 THEN {}
            ELSE {d} \cup IF LiveFrame(d) THEN From[stack[d].prev] ELSE {}
    IN  From[fp]

Replaced(a) == [stack EXCEPT ![cur] = a]

-----------------------------------------------------------------------------
(* A function is entered. *)

\* Direct style: remaining parameters first, then the test and its collection.
EnterDirect ==
    /\ scheme = "direct"
    /\ LET a == [asgnFunVars(top, SlotParams(top.f)) EXCEPT !.next = 0, !.prev = fp]
           n == max_allocs[term]
           xs == live_vars(top.f)
       IN  \/ /\ n # 0
              /\ stack' = Replaced([Push(a, 0, xs) EXCEPT !.room = n])
              /\ fp' = set_stack(Len(xs), FALSE)
              /\ code' = "entry_gc"
           \/ /\ stack' = Replaced([a EXCEPT !.room = n])
              /\ code' = "run"
              /\ UNCHANGED fp
    /\ UNCHANGED args

\* CPS: reserve stores the C parameters in their slots around a collection, and
\* the remaining ones are read after it.
EnterCPS ==
    /\ scheme # "direct"
    /\ LET n == max_allocs[term]
       IN  \/ /\ n # 0
              /\ args' = Stored(Values(top, Params(top.f)), CParams(top.f))
              /\ stack' = Replaced([top EXCEPT !.room = n])
              /\ code' = "entry_gc"
           \/ /\ stack' = Replaced([asgnFunVars(top, SlotParams(top.f)) EXCEPT !.room = n])
              /\ code' = "run"
              /\ UNCHANGED args
    /\ UNCHANGED fp

Enter ==
    /\ code = "enter"
    /\ EnterDirect \/ EnterCPS
    /\ UNCHANGED <<scheme, program, answer, entries>>

\* What a collection leaves of an activation's cells.
Spoiled(d) ==
    [stack[d] EXCEPT
        !.vars = [v \in Vars |-> Moved(@[v])],
        !.roots = [i \in DOMAIN @ |->
            IF d \in Chain /\ i <= stack[d].next THEN @[i] ELSE Moved(@[i])]]

\* gc.c updates the slots that fi names, gc_stack.c the roots of the frames.
Roots == IF scheme = "direct" THEN {} ELSE FunInfoRoots(top.f)

Collect ==
    /\ code \in {"entry_gc", "call_gc"}
    /\ stack' = [d \in DOMAIN stack |-> Spoiled(d)]
    /\ args' = [c \in DOMAIN args |-> IF c \in Roots THEN args[c] ELSE Moved(args[c])]
    /\ code' = IF code = "entry_gc" THEN "entered" ELSE "collected"
    /\ UNCHANGED <<scheme, program, fp, answer, entries>>

\* Back from the collection on entry.
Entered ==
    /\ code = "entered"
    /\ IF scheme = "direct"
       THEN LET xs == live_vars(top.f)
            IN  /\ stack' = Replaced(Pop(top, 0, xs))
                /\ fp' = reset_stack(Len(xs), FALSE)
       ELSE /\ stack' = Replaced(asgnFunVars(top, DOMAIN Params(top.f)))
            /\ UNCHANGED fp
    /\ code' = "run"
    /\ UNCHANGED <<scheme, program, args, answer, entries>>

-----------------------------------------------------------------------------
(* The constructs of a body. *)

Running(op) == code = "run" /\ term.op = op

Stay == UNCHANGED <<scheme, program, fp, args, code, answer, entries>>

Define(value, mean) ==
    stack' = Replaced([top EXCEPT !.vars[term.x] = value, !.means[term.x] = mean,
                                  !.e = term.e])

Means(vs) == [i \in DOMAIN vs |-> top.means[vs[i]]]

Constr ==
    /\ Running("constr")
    /\ LET v == Value(term.t, Values(top, term.vs))
           m == Value(term.t, Means(term.vs))
       IN  stack' = Replaced([top EXCEPT !.vars[term.x] = v, !.means[term.x] = m,
                                         !.room = @ - Words(term.t), !.e = term.e])
    /\ Stay

Proj ==
    /\ Running("proj")
    /\ LET v == term.vs[1]
       IN  /\ term.n \in DOMAIN top.vars[v].kids
           /\ Define(top.vars[v].kids[term.n], top.means[v].kids[term.n])
    /\ Stay

\* A case has a branch for each constructor of its type.
Case ==
    /\ Running("case")
    /\ Alike(term.cs, top.vars[term.x]) # {}
    /\ stack' = Replaced([top EXCEPT !.e = Branch(term.cs, top.vars[term.x]).e])
    /\ Stay

Callee(f, vs) == Activation(f, Values(top, vs), Means(vs))

EnterNext == entries < ENTRIES /\ entries' = entries + 1 /\ code' = "enter"

\* Eletapp: arguments, then what is held is pushed, then the call.
LetApp ==
    /\ Running("letapp")
    /\ EnterNext
    /\ LET xs == fvs_list(top.f, term)
       IN  /\ stack' = Append(Replaced(Push(top, 0, xs)), Callee(term.f, term.vs))
           /\ fp' = set_stack(Len(xs), FALSE)
    /\ args' = asgnAppVars(top, term.vs)
    /\ UNCHANGED <<scheme, program, answer>>

\* Eapp: the activation is replaced.
App ==
    /\ Running("app")
    /\ EnterNext
    /\ stack' = Replaced(Callee(term.f, term.vs))
    /\ args' = IF scheme = "cps_fast" THEN asgnAppVars_fast(top, term.vs)
               ELSE asgnAppVars(top, term.vs)
    /\ UNCHANGED <<scheme, program, fp, answer>>

Halt ==
    /\ Running("halt")
    /\ args' = [args EXCEPT ![1] = top.vars[term.vs[1]]]
    /\ answer' = top.means[term.vs[1]]
    /\ stack' = Front(stack)
    /\ code' = IF cur = 1 THEN "halted" ELSE "returned"
    /\ UNCHANGED <<scheme, program, fp, entries>>

\* What is held is popped, the frame unlinked, and the body goes on.
Discard(a) ==
    LET xs == fvs_list(a.f, a.e)
    IN  stack' = Replaced([Pop(a, 0, xs) EXCEPT !.e = a.e.e])

\* After a call: the result, and a collection if the rest needs the room.
Returned ==
    /\ code = "returned"
    /\ LET a == [top EXCEPT !.vars[term.x] = args[1], !.means[term.x] = answer,
                            !.room = max_allocs[term.e]]
           held == Len(fvs_list(top.f, term))
           xs == fv_gc(term)
       IN  \/ /\ max_allocs[term.e] # 0
              /\ stack' = Replaced(Push(a, held, xs))
              /\ fp' = set_stack(held + Len(xs), held # 0)
              /\ code' = "call_gc"
           \/ /\ Discard(a)
              /\ fp' = reset_stack(held, FALSE)
              /\ code' = "run"
    /\ UNCHANGED <<scheme, program, args, answer, entries>>

\* Back from that collection: its roots, then those of the call.
Collected ==
    /\ code = "collected"
    /\ LET held == Len(fvs_list(top.f, term))
           xs == fv_gc(term)
       IN  /\ Discard(Pop(top, held, xs))
           /\ fp' = IF held = 0 THEN reset_stack(Len(xs), FALSE) ELSE reset_stack(held, FALSE)
    /\ code' = "run"
    /\ UNCHANGED <<scheme, program, args, answer, entries>>

-----------------------------------------------------------------------------
\* The function f has just been called with values vs.
Called(f, vs) ==
    /\ stack = <<Activation(f, vs, vs)>>
    /\ args = [c \in 0 .. SLOTS - 1 |->
                  IF c + 1 \in DOMAIN vs /\ c + 1 > nParam THEN vs[c + 1] ELSE Stale]

Init ==
    /\ scheme \in Schemes
    /\ program \in Programs[scheme]
    /\ \E vs \in Inputs : Called("f", vs)
    /\ fp = 0
    /\ code = "enter"
    /\ answer = Stale
    /\ entries = 1

Next ==
    \/ Enter
    \/ Collect
    \/ Entered
    \/ Constr
    \/ Proj
    \/ Case
    \/ LetApp
    \/ App
    \/ Halt
    \/ Returned
    \/ Collected

Spec == Init /\ [][Next]_vars

-----------------------------------------------------------------------------
(* Properties. *)

\* What the code ahead can still read is where it reads it, and is what the term
\* says: not a pointer that a collection has left behind, not what another
\* variable's root or another call's argument has overwritten.
VariablesCurrent ==
    code = "run" =>
        \A v \in exp_fv[term] \cap LocVars(top.f) : top.vars[v] = top.means[v]

\* The collector is shown live frames and current roots only.
RootsCurrent ==
    code \in {"entry_gc", "call_gc"} =>
        IF scheme = "direct"
        THEN \A d \in Chain : LiveFrame(d) /\ \A i \in 1 .. stack[d].next : stack[d].roots[i] # Stale
        ELSE \A c \in Roots : args[c] # Stale

\* No frame uses more roots than the function declares: N.max is taken over all
\* branches, and over the collections after calls.
RootsFit == \A d \in DOMAIN stack : stack[d].next <= stack_slots(stack[d].f)

\* No path allocates more than was tested for before it.
WithinPromise == stack # <<>> => top.room >= 0

\* A switch finds the branch of the constructor, although the last branch has no
\* label, and constructors with and without arguments share their numbers.
CaseTakesItsBranch ==
    code = "run" /\ term.op = "case" =>
        \A i \in DOMAIN term.cs :
            term.cs[i].c = top.means[term.x].c
                => Branch(term.cs, top.vars[term.x]) = term.cs[i]
=============================================================================
