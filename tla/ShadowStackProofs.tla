------------------------- MODULE ShadowStackProofs -------------------------
(***************************************************************************)
(* The shadow stack of module ShadowStack, proved for every number of      *)
(* variables, calls and operations: the frames the collector finds are its *)
(* caller's own and those of the functions that wait and hold something; a *)
(* function has the words it was promised when it runs; and a variable     *)
(* means the same until its last use, by what CollectorProofs proves of    *)
(* the words.                                                              *)
(***************************************************************************)
EXTENDS ShadowStack, DataTheorems

ActivationFields ==
    {"vars", "means", "live", "held", "result", "fresh", "alloc", "limit"}

IsActivation(a) ==
    /\ DOMAIN a = ActivationFields
    /\ a.live \in SUBSET Locals
    /\ a.held \in Seq(Locals)
    /\ a.result \in Locals

StackOK ==
    /\ IsSeq(stack)
    /\ cur <= CALLS
    /\ \A n \in DOMAIN stack : IsActivation(stack[n])
    /\ code \in {"enter", "entered", "run", "returned", "collected", "halted"}
    /\ code = "halted" <=> stack = <<>>

FramesOK ==
    /\ frames \in [Depths -> [next : Nat, prev : 0 .. CALLS]]
    /\ fp \in 0 .. CALLS

\* d is the deepest of the activations 1 .. n that hold something, 0 if none does.
Deepest(stk, d, n) ==
    /\ d \in 0 .. n
    /\ d # 0 => stk[d].held # <<>>
    /\ \A m \in d + 1 .. n : stk[m].held = <<>>

\* The frames are linked as the activations that hold something are nested.
Linked ==
    /\ \A n \in 1 .. cur - 1 :
           stack[n].held # <<>> => frames[n].next = Len(stack[n].held)
    /\ \A n \in 1 .. cur :
           n < cur \/ code # "enter" => Deepest(stack, frames[n].prev, n - 1)

\* Where fp points while its function is on the way in or out.
Pointed ==
    /\ code \in {"enter", "run"} => Deepest(stack, fp, cur - 1)
    /\ code = "returned" => Deepest(stack, fp, cur)
    /\ code = "entered" => IF Elements(top.live) = <<>> THEN Deepest(stack, fp, cur - 1)
                           ELSE fp = cur
    /\ code = "collected" =>
           IF top.held = <<>> /\ ~ top.fresh THEN Deepest(stack, fp, cur - 1) ELSE fp = cur
    /\ code = "halted" => fp = 0

FramesInv == StackOK /\ FramesOK /\ Linked /\ Pointed

\* The process is on its way back to the mutator, or there.
Returning ==
    \/ pc \in {"mutator", "garbage_collect", "collect"}
    \/ pc = "copying" /\ copy.caller = "garbage_collect"

HeapShape == DOMAIN mem = Spaces /\ \A s \in Gens : IsSeq(mem[s])

\* The room there is, when no collector runs.
Settled ==
    /\ limit = Len(mem[0]) /\ alloc \in Nat /\ budget \in Nat
    /\ IF code \in {"entered", "collected"} THEN alloc + budget <= limit ELSE alloc <= limit
    /\ code = "run" => /\ top.limit = limit /\ top.alloc \in Nat
                       /\ alloc <= top.alloc /\ top.alloc + budget <= limit

Room ==
    /\ gen \in Nat /\ fi.num_allocs \in Nat
    /\ Returning => HeapShape
    /\ Returning /\ pc # "mutator" => code \in {"entered", "collected"}
    /\ pc = "mutator" => Settled

StackIInv == FramesInv /\ Room
-----------------------------------------------------------------------------
(* Activations. *)

\* Elements lists a set of variables.
LEMMA ElementsType ==
    ASSUME NEW S \in SUBSET Locals
    PROVE  Elements(S) \in Seq(Locals)
<1>1. IsFiniteSet(Locals)
  <2>1. DOMAIN LocalNames = 1 .. Len(LocalNames) /\ Len(LocalNames) \in Nat
    BY NamesAssumption, LenProperties
  <2>2. LocalNames \in Surjection(1 .. Len(LocalNames), Locals)
    BY <2>1, NamesAssumption DEF Surjection, Locals
  <2> QED
    BY <2>1, <2>2, FS_NatSurjection DEF ExistsSurjection
<1>2. IsFiniteSet(S) /\ Cardinality(S) \in Nat
  BY <1>1, FS_Subset, FS_CardinalityType
<1>3. \E f \in [1 .. Cardinality(S) -> S] : IsInjective(f)
  <2>1. ExistsBijection(1 .. Cardinality(S), S)
    BY <1>2, FS_CardinalityType
  <2> QED
    BY <2>1 DEF ExistsBijection, Bijection, Injection
<1>4. Elements(S) \in [1 .. Cardinality(S) -> S]
  BY <1>3 DEF Elements, SetToSeq
<1> QED
  BY <1>2, <1>4, SeqDef

LEMMA LiveProperties ==
    ASSUME NEW a, IsActivation(a), NEW S \in SUBSET Locals
    PROVE  /\ IsActivation(Live(a, S)) /\ Live(a, S).live = S
           /\ Live(a, S).held = a.held /\ Live(a, S).fresh = a.fresh
           /\ Live(a, S).alloc = a.alloc /\ Live(a, S).limit = a.limit
  BY DEF IsActivation, ActivationFields, Live

LEMMA ReloadedProperties ==
    ASSUME NEW a, IsActivation(a)
    PROVE  /\ IsActivation(Reloaded(a)) /\ Reloaded(a).live = a.live
           /\ Reloaded(a).held = a.held /\ Reloaded(a).fresh = a.fresh
           /\ Reloaded(a).result = a.result
           /\ Reloaded(a).alloc = alloc /\ Reloaded(a).limit = limit
  BY DEF IsActivation, ActivationFields, Reloaded

LEMMA DefinedProperties ==
    ASSUME NEW a, IsActivation(a), NEW v \in Locals, NEW value, NEW mean
    PROVE  /\ IsActivation(Defined(a, v, value, mean))
           /\ Defined(a, v, value, mean).held = a.held
           /\ Defined(a, v, value, mean).alloc = a.alloc
           /\ Defined(a, v, value, mean).limit = a.limit
  BY DEF IsActivation, ActivationFields, Defined

LEMMA VarsProperties ==
    ASSUME NEW a, IsActivation(a), NEW values
    PROVE  /\ IsActivation([a EXCEPT !.vars = values])
           /\ [a EXCEPT !.vars = values].live = a.live
           /\ [a EXCEPT !.vars = values].held = a.held
           /\ [a EXCEPT !.vars = values].fresh = a.fresh
           /\ [a EXCEPT !.vars = values].result = a.result
           /\ [a EXCEPT !.vars = values].alloc = a.alloc
           /\ [a EXCEPT !.vars = values].limit = a.limit
  BY DEF IsActivation, ActivationFields

\* An activation that has discarded what it held.
Discarded(a) ==
    Live([a EXCEPT !.vars = Popped(cur, @, 0, a.held), !.held = <<>>, !.fresh = FALSE],
         a.live \cup (IF a.fresh THEN {a.result} ELSE {}))

LEMMA DiscardedProperties ==
    ASSUME NEW a, IsActivation(a)
    PROVE  /\ IsActivation(Discarded(a))
           /\ Discarded(a).alloc = a.alloc /\ Discarded(a).limit = a.limit
<1> DEFINE b == [a EXCEPT !.vars = Popped(cur, @, 0, a.held), !.held = <<>>,
                          !.fresh = FALSE]
           S == a.live \cup (IF a.fresh THEN {a.result} ELSE {})
<1>1. IsActivation(b) /\ b.alloc = a.alloc /\ b.limit = a.limit
  BY DEF IsActivation, ActivationFields
<1>2. S \in SUBSET Locals
  BY DEF IsActivation
<1> HIDE DEF b, S
<1>3. /\ IsActivation(Live(b, S))
      /\ Live(b, S).alloc = a.alloc /\ Live(b, S).limit = a.limit
  BY <1>1, <1>2, LiveProperties
<1> QED
  BY <1>3 DEF b, S, Discarded

LEMMA ActivationProperties ==
    ASSUME NEW n \in 0 .. 2, NEW values, NEW means
    PROVE  /\ IsActivation(Activation(SubSeq(LocalNames, 1, n), values, means))
           /\ Activation(SubSeq(LocalNames, 1, n), values, means).held = <<>>
<1> DEFINE params == SubSeq(LocalNames, 1, n)
<1>1. LocalNames \in Seq(Locals) /\ Len(LocalNames) \in Nat /\ n <= Len(LocalNames)
  BY NamesAssumption, LenProperties
<1>2. params \in Seq(Locals) /\ \A i \in DOMAIN params : params[i] \in Locals
  BY <1>1
<1>3. LocalNames[1] \in Locals /\ <<>> \in Seq(Locals)
  BY <1>1, NamesAssumption
<1> HIDE DEF params
<1>4. /\ IsActivation(Activation(params, values, means))
      /\ Activation(params, values, means).held = <<>>
  BY <1>2, <1>3 DEF IsActivation, ActivationFields, Activation
<1> QED
  BY <1>4 DEF params

\* An operation of the newest activation leaves the others alone.
LEMMA Replaced ==
    ASSUME StackOK, stack # <<>>, NEW a, IsActivation(a),
           stack' = [stack EXCEPT ![cur] = a]
    PROVE  /\ IsSeq(stack') /\ Len(stack') = cur /\ stack'[cur] = a
           /\ cur \in 1 .. CALLS /\ stack' # <<>>
           /\ \A n \in 1 .. cur - 1 : stack'[n] = stack[n]
           /\ \A n \in DOMAIN stack' : IsActivation(stack'[n])
<1>1. cur \in Nat /\ DOMAIN stack = 1 .. cur /\ cur # 0
  BY IsSeqLen, SeqFunction DEF StackOK, cur
<1>2. cur \in DOMAIN stack
  BY <1>1
<1>3. /\ IsSeq(stack') /\ Len(stack') = cur /\ stack'[cur] = a
      /\ \A n \in DOMAIN stack : n # cur => stack'[n] = stack[n]
  <2>1. Updates(stack', stack, cur, a)
    BY <1>2 DEF StackOK, Updates
  <2> QED
    BY <2>1, ReplaceSeq DEF cur
<1>4. DOMAIN stack' = 1 .. cur
  BY <1>3, IsSeqLen
<1>5. \A n \in DOMAIN stack' : IsActivation(stack'[n])
  BY <1>1, <1>3, <1>4 DEF StackOK
<1>6. stack' # <<>>
  BY <1>1, <1>3
<1> QED
  BY <1>1, <1>3, <1>5, <1>6, BoundsAssumption DEF StackOK

LEMMA TopProperties ==
    ASSUME StackOK, stack # <<>>
    PROVE  IsActivation(top) /\ cur \in 1 .. CALLS /\ DOMAIN stack = 1 .. cur
<1>1. cur \in Nat /\ DOMAIN stack = 1 .. cur /\ cur # 0
  BY IsSeqLen, SeqFunction DEF StackOK, cur
<1> QED
  BY <1>1, BoundsAssumption DEF StackOK, top

\* Deepest is about the activations up to n only.
LEMMA DeepestSame ==
    ASSUME NEW old, NEW new, NEW n \in Nat, NEW d, Deepest(old, d, n),
           \A m \in 1 .. n : new[m].held = old[m].held
    PROVE  Deepest(new, d, n)
  BY DEF Deepest

-----------------------------------------------------------------------------
(* The frames. *)

\* A step of the newest activation that only its own frame takes part in.
LEMMA StepInPlace ==
    ASSUME FramesInv, stack # <<>>, NEW a, IsActivation(a),
           stack' = [stack EXCEPT ![cur] = a],
           code' \in {"enter", "entered", "run", "collected"},
           frames' \in [Depths -> [next : Nat, prev : 0 .. CALLS]],
           fp' \in 0 .. CALLS,
           \A n \in 1 .. cur - 1 : frames'[n] = frames[n],
           code' = "enter" \/ Deepest(stack, frames'[cur].prev, cur - 1),
           code' \in {"enter", "run"} => Deepest(stack, fp', cur - 1),
           code' = "entered" =>
               IF Elements(a.live) = <<>> THEN Deepest(stack, fp', cur - 1)
               ELSE fp' = cur,
           code' = "collected" =>
               IF a.held = <<>> /\ ~ a.fresh THEN Deepest(stack, fp', cur - 1)
               ELSE fp' = cur
    PROVE  FramesInv'
<1>1. /\ IsSeq(stack') /\ cur' = cur /\ top' = a
      /\ cur \in 1 .. CALLS /\ stack' # <<>>
      /\ \A n \in 1 .. cur - 1 : stack'[n] = stack[n]
      /\ \A n \in DOMAIN stack' : IsActivation(stack'[n])
  BY Replaced DEF FramesInv, top, cur
<1>2. ASSUME NEW n \in 0 .. cur - 1, NEW d, Deepest(stack, d, n)
      PROVE  Deepest(stack', d, n)
  <2>1. \A m \in 1 .. n : stack'[m].held = stack[m].held
    BY <1>1, <1>2
  <2>2. n \in Nat
    BY <1>1
  <2> QED
    BY <2>1, <2>2, <1>2, DeepestSame
<1>3. StackOK'
  BY <1>1 DEF StackOK
<1>4. FramesOK'
  BY DEF FramesOK
<1>5. Linked'
  <2>1. ASSUME NEW n \in 1 .. cur - 1, stack'[n].held # <<>>
        PROVE  frames'[n].next = Len(stack'[n].held)
    BY <2>1, <1>1 DEF FramesInv, Linked
  <2>2. ASSUME NEW n \in 1 .. cur, n < cur \/ code' # "enter"
        PROVE  Deepest(stack', frames'[n].prev, n - 1)
    <3>1. Deepest(stack, frames'[n].prev, n - 1)
      <4>1. CASE n < cur
        <5>1. n \in 1 .. cur - 1
          BY <4>1, <1>1
        <5> QED
          BY <5>1, <4>1 DEF FramesInv, Linked
      <4>2. CASE n = cur
        BY <4>2, <2>2
      <4> QED
        BY <4>1, <4>2, <1>1
    <3>2. n - 1 \in 0 .. cur - 1
      BY <1>1
    <3> QED
      BY <3>1, <3>2, <1>2
  <2> QED
    BY <2>1, <2>2, <1>1 DEF Linked
<1>6. Pointed'
  <2>1. Deepest(stack, fp', cur - 1) => Deepest(stack', fp', cur - 1)
    <3>1. cur - 1 \in 0 .. cur - 1
      BY <1>1
    <3> QED
      BY <3>1, <1>2, Zenon
  <2>2. code' \in {"enter", "run"} => Deepest(stack', fp', cur' - 1)
    BY <2>1, <1>1
  <2>3. code' = "entered" =>
            IF Elements(top'.live) = <<>> THEN Deepest(stack', fp', cur' - 1)
            ELSE fp' = cur'
    BY <2>1, <1>1
  <2>4. code' = "collected" =>
            IF top'.held = <<>> /\ ~ top'.fresh THEN Deepest(stack', fp', cur' - 1)
            ELSE fp' = cur'
    BY <2>1, <1>1, Zenon
  <2>5. code' # "returned" /\ code' # "halted"
    OBVIOUS
  <2> QED
    BY <2>2, <2>3, <2>4, <2>5, Zenon DEF Pointed
<1> QED
  BY <1>3, <1>4, <1>5, <1>6 DEF FramesInv

\* The stack is not empty while a function runs.
LEMMA Nested == ASSUME FramesInv, code # "halted" PROVE stack # <<>>
  BY DEF FramesInv, StackOK

LEMMA EnterFrames == ASSUME FramesInv, Enter PROVE FramesInv'
<1>1. code = "enter" /\ stack # <<>> /\ IsActivation(top) /\ cur \in 1 .. CALLS
  BY Nested, TopProperties DEF Enter, Ready, FramesInv
<1>2. PICK n \in Requests, used \in SUBSET top.live :
        LET a == Live(Reloaded(top), used)
            xs == Elements(used)
        IN  /\ stack' = [stack EXCEPT ![cur] = a]
            /\ IF NeedsGC(n, a)
               THEN /\ frames' = [init_stack(cur) EXCEPT ![cur].next = Len(xs)]
                    /\ CallGC(n, a, 0, xs, "entered")
                    /\ UNCHANGED budget
               ELSE /\ frames' = init_stack(cur)
                    /\ budget' = n
                    /\ code' = "run"
                    /\ UNCHANGED <<args, fp, fi, pc>>
  BY DEF Enter
<1> DEFINE a == Live(Reloaded(top), used)
           xs == Elements(used)
<1>3. IsActivation(a) /\ a.live = used
  BY <1>1, ReloadedProperties, LiveProperties DEF IsActivation
<1>4. xs \in Seq(Locals) /\ Len(xs) \in Nat /\ (xs = <<>> <=> Len(xs) = 0)
  <2>1. used \in SUBSET Locals
    BY <1>1 DEF IsActivation
  <2> QED
    BY <2>1, ElementsType, LenProperties, EmptySeq
<1>5. /\ Deepest(stack, fp, cur - 1) /\ fp \in 0 .. CALLS
      /\ frames \in [Depths -> [next : Nat, prev : 0 .. CALLS]]
      /\ cur \in Depths
  BY <1>1 DEF FramesInv, Pointed, FramesOK, Depths
<1> HIDE DEF a, xs
<1>6. CASE ~ NeedsGC(n, a)
  <2>1. /\ stack' = [stack EXCEPT ![cur] = a]
        /\ frames' = [frames EXCEPT ![cur] = [next |-> 0, prev |-> fp]]
        /\ fp' = fp /\ code' = "run"
    BY <1>2, <1>6 DEF init_stack, a, xs
  <2>2. /\ frames' \in [Depths -> [next : Nat, prev : 0 .. CALLS]]
        /\ frames'[cur].prev = fp
        /\ \A m \in 1 .. cur - 1 : frames'[m] = frames[m]
    BY <2>1, <1>5
  <2> QED
    BY <2>1, <2>2, <1>1, <1>3, <1>5, StepInPlace
<1>7. CASE NeedsGC(n, a)
  <2>1. /\ stack' = [stack EXCEPT ![cur] = a]
        /\ frames' = [[frames EXCEPT ![cur] = [next |-> 0, prev |-> fp]]
                          EXCEPT ![cur].next = Len(xs)]
        /\ fp' = (IF Len(xs) = 0 THEN fp ELSE cur) /\ code' = "entered"
    BY <1>2, <1>4, <1>7 DEF init_stack, CallGC, set_stack, a, xs
  <2> DEFINE reset == [frames EXCEPT ![cur] = [next |-> 0, prev |-> fp]]
  <2>2. /\ reset \in [Depths -> [next : Nat, prev : 0 .. CALLS]]
        /\ reset[cur].prev = fp
        /\ \A m \in 1 .. cur - 1 : reset[m] = frames[m]
    BY <1>5
  <2> HIDE DEF reset
  <2>3. frames' = [reset EXCEPT ![cur].next = Len(xs)]
    BY <2>1 DEF reset
  <2>4. /\ frames' \in [Depths -> [next : Nat, prev : 0 .. CALLS]]
        /\ frames'[cur].prev = fp
        /\ \A m \in 1 .. cur - 1 : frames'[m] = frames[m]
    BY <2>2, <2>3, <1>4, <1>5
  <2>5. IF Elements(a.live) = <<>> THEN Deepest(stack, fp', cur - 1) ELSE fp' = cur
    BY <2>1, <1>3, <1>4, <1>5 DEF xs
  <2>6. fp' \in 0 .. CALLS
    BY <2>1, <1>5 DEF Depths
  <2>7. /\ code' \notin {"enter", "run", "collected"}
        /\ code' \in {"enter", "entered", "run", "collected"}
    BY <2>1
  <2>8. Deepest(stack, frames'[cur].prev, cur - 1)
    BY <2>4, <1>5
  <2> QED
    BY <2>1, <2>4, <2>5, <2>6, <2>7, <2>8, <1>1, <1>3, StepInPlace
<1> QED
  BY <1>6, <1>7

LEMMA EnteredFrames == ASSUME FramesInv, Entered PROVE FramesInv'
<1>1. code = "entered" /\ stack # <<>> /\ IsActivation(top) /\ cur \in 1 .. CALLS
  BY Nested, TopProperties DEF Entered, Ready, FramesInv
<1> DEFINE xs == Elements(top.live)
           a == [Reloaded(top) EXCEPT !.vars = Popped(cur, @, 0, xs)]
<1>2. IsActivation(a)
  BY <1>1, ReloadedProperties, VarsProperties
<1>3. xs \in Seq(Locals) /\ (xs = <<>> <=> Len(xs) = 0)
  <2>1. top.live \in SUBSET Locals
    BY <1>1 DEF IsActivation
  <2> QED
    BY <2>1, ElementsType, LenProperties, EmptySeq
<1>4. /\ Deepest(stack, frames[cur].prev, cur - 1) /\ fp \in 0 .. CALLS
      /\ frames \in [Depths -> [next : Nat, prev : 0 .. CALLS]]
      /\ cur \in Depths
      /\ IF xs = <<>> THEN Deepest(stack, fp, cur - 1) ELSE fp = cur
  BY <1>1 DEF FramesInv, Linked, Pointed, FramesOK, Depths
<1>5. /\ stack' = [stack EXCEPT ![cur] = a]
      /\ fp' = (IF Len(xs) = 0 THEN fp ELSE frames[cur].prev)
      /\ code' = "run" /\ frames' = frames
  BY DEF Entered, reset_stack
<1> HIDE DEF a, xs
<1>6. Deepest(stack, fp', cur - 1) /\ fp' \in 0 .. CALLS
  BY <1>3, <1>4, <1>5
<1> QED
  BY <1>1, <1>2, <1>4, <1>5, <1>6, StepInPlace

\* When a call has returned, the newest frame is the caller's if it holds something.
LEMMA ReturnedPointer ==
    ASSUME FramesInv, code = "returned"
    PROVE  IF top.held = <<>> THEN Deepest(stack, fp, cur - 1) ELSE fp = cur
<1>1. stack # <<>> /\ cur \in 1 .. CALLS
  BY Nested, TopProperties DEF FramesInv
<1>2. Deepest(stack, fp, cur)
  BY DEF FramesInv, Pointed
<1> QED
  BY <1>1, <1>2 DEF Deepest, top

LEMMA ReturnedFrames == ASSUME FramesInv, Returned PROVE FramesInv'
<1>1. code = "returned" /\ stack # <<>> /\ IsActivation(top) /\ cur \in 1 .. CALLS
  BY Nested, TopProperties DEF Returned, Ready, FramesInv
<1> DEFINE k == Len(top.held)
           b(fresh) == [Reloaded(top) EXCEPT !.vars[top.result] = args[Answer],
                                             !.means[top.result] = answer,
                                             !.fresh = fresh]
           xs(fresh) == IF fresh THEN <<top.result>> ELSE <<>>
<1>2. PICK n \in Requests, fresh \in BOOLEAN :
          IF NeedsGC(n, b(fresh))
          THEN /\ stack' = [stack EXCEPT ![cur] = b(fresh)]
               /\ update_stack(cur, k + Len(xs(fresh)))
               /\ CallGC(n, b(fresh), k, xs(fresh), "collected")
          ELSE /\ Discard(b(fresh))
               /\ fp' = reset_stack(cur, k, FALSE)
               /\ UNCHANGED frames
  BY DEF Returned
<1>3. IsActivation(b(fresh)) /\ b(fresh).held = top.held /\ b(fresh).fresh = fresh
  <2>1. /\ IsActivation(Reloaded(top)) /\ Reloaded(top).held = top.held
    BY <1>1, ReloadedProperties
  <2> QED
    BY <2>1 DEF IsActivation, ActivationFields
<1>4. k \in Nat /\ (k = 0 <=> top.held = <<>>)
  BY <1>1, LenProperties, EmptySeq DEF IsActivation
<1> DEFINE pushed == Len(xs(fresh))
<1>5. /\ fresh => pushed = 1
      /\ ~ fresh => pushed = 0
  OBVIOUS
<1>6. /\ Deepest(stack, frames[cur].prev, cur - 1) /\ fp \in 0 .. CALLS
      /\ frames \in [Depths -> [next : Nat, prev : 0 .. CALLS]]
      /\ cur \in Depths
      /\ IF top.held = <<>> THEN Deepest(stack, fp, cur - 1) ELSE fp = cur
  BY <1>1, ReturnedPointer DEF FramesInv, Linked, Pointed, FramesOK, Depths
<1> HIDE DEF b, xs, pushed
<1>7. CASE NeedsGC(n, b(fresh))
  <2> DEFINE slots == k + pushed
  <2>1. /\ stack' = [stack EXCEPT ![cur] = b(fresh)] /\ code' = "collected"
        /\ frames' = (IF slots = 0 THEN frames ELSE [frames EXCEPT ![cur].next = slots])
        /\ fp' = (IF slots = 0 \/ k # 0 THEN fp ELSE cur)
    BY <1>2, <1>7 DEF update_stack, CallGC, set_stack, pushed
  <2>2. slots \in Nat
    BY <1>4, <1>5
  <2>3. slots = 0 <=> top.held = <<>> /\ ~ fresh
    BY <1>4, <1>5
  <2> HIDE DEF slots
  <2>4. /\ frames' \in [Depths -> [next : Nat, prev : 0 .. CALLS]]
        /\ frames'[cur].prev = frames[cur].prev
        /\ \A m \in 1 .. cur - 1 : frames'[m] = frames[m]
    BY <2>1, <2>2, <1>6
  <2>5. IF top.held = <<>> /\ ~ fresh THEN Deepest(stack, fp', cur - 1) ELSE fp' = cur
    BY <2>1, <2>3, <1>4, <1>6
  <2>6. IF b(fresh).held = <<>> /\ ~ b(fresh).fresh
        THEN Deepest(stack, fp', cur - 1) ELSE fp' = cur
    BY <2>5, <1>3, Zenon
  <2>7. fp' \in 0 .. CALLS
    BY <2>1, <1>6 DEF Depths
  <2>8. Deepest(stack, frames'[cur].prev, cur - 1)
    BY <2>4, <1>6
  <2>9. /\ code' \notin {"enter", "run", "entered"}
        /\ code' \in {"enter", "entered", "run", "collected"}
    BY <2>1
  <2> QED
    BY <2>1, <2>4, <2>6, <2>7, <2>8, <2>9, <1>1, <1>3, StepInPlace
<1>8. CASE ~ NeedsGC(n, b(fresh))
  <2>1. /\ stack' = [stack EXCEPT ![cur] = Discarded(b(fresh))] /\ code' = "run"
        /\ fp' = (IF k = 0 THEN fp ELSE frames[cur].prev) /\ frames' = frames
    BY <1>2, <1>8 DEF Discard, Discarded, reset_stack
  <2>2. IsActivation(Discarded(b(fresh)))
    BY <1>3, DiscardedProperties
  <2>3. Deepest(stack, fp', cur - 1) /\ fp' \in 0 .. CALLS
    BY <2>1, <1>4, <1>6
  <2> QED
    BY <2>1, <2>2, <2>3, <1>1, <1>6, StepInPlace
<1> QED
  BY <1>7, <1>8

LEMMA CollectedFrames == ASSUME FramesInv, Collected PROVE FramesInv'
<1>1. code = "collected" /\ stack # <<>> /\ IsActivation(top) /\ cur \in 1 .. CALLS
  BY Nested, TopProperties DEF Collected, Ready, FramesInv
<1> DEFINE k == Len(top.held)
           xs == IF top.fresh THEN <<top.result>> ELSE <<>>
           a == [Reloaded(top) EXCEPT !.vars = Popped(cur, @, k, xs)]
<1>2. IsActivation(Discarded(a))
  <2>1. IsActivation(a)
    BY <1>1, ReloadedProperties, VarsProperties
  <2> QED
    BY <2>1, DiscardedProperties
<1>3. k = 0 <=> top.held = <<>>
  BY <1>1, LenProperties, EmptySeq DEF IsActivation
<1>4. /\ Deepest(stack, frames[cur].prev, cur - 1) /\ fp \in 0 .. CALLS
      /\ frames \in [Depths -> [next : Nat, prev : 0 .. CALLS]]
      /\ cur \in Depths
      /\ IF top.held = <<>> /\ ~ top.fresh THEN Deepest(stack, fp, cur - 1)
         ELSE fp = cur
  BY <1>1 DEF FramesInv, Linked, Pointed, FramesOK, Depths
<1>5. /\ stack' = [stack EXCEPT ![cur] = Discarded(a)] /\ code' = "run"
      /\ fp' = (IF k = 0 THEN IF Len(xs) = 0 THEN fp ELSE frames[cur].prev
                ELSE frames[cur].prev)
      /\ frames' = frames
  BY DEF Collected, Discard, Discarded, reset_stack
<1>6. Len(xs) = 0 <=> ~ top.fresh
  OBVIOUS
<1> HIDE DEF a, xs
<1>7. Deepest(stack, fp', cur - 1) /\ fp' \in 0 .. CALLS
  BY <1>3, <1>4, <1>5, <1>6
<1> QED
  BY <1>1, <1>2, <1>4, <1>5, <1>7, StepInPlace

LEMMA BodyFrames ==
    ASSUME FramesInv, Enum \/ Construct \/ Project PROVE FramesInv'
<1>1. /\ code = "run" /\ stack # <<>> /\ IsActivation(top) /\ cur \in 1 .. CALLS
      /\ UNCHANGED <<frames, fp, code>>
  BY Nested, TopProperties
     DEF Enum, Construct, Project, NoCall, Ready, FramesInv
<1>2. PICK a : IsActivation(a) /\ stack' = [stack EXCEPT ![cur] = a]
  <2>1. CASE Enum
    <3>1. PICK v \in Locals : Operation(Defined(top, v, Long(1), Leaf(1)))
      BY <2>1 DEF Enum
    <3> QED
      BY <3>1, <1>1, DefinedProperties DEF Operation
  <2>2. CASE Construct
    <3>1. PICK v, value, mean :
            /\ v \in Locals
            /\ Operation([Defined(top, v, value, mean) EXCEPT !.alloc = @ + 3])
      BY <2>2 DEF Construct
    <3>2. IsActivation(Defined(top, v, value, mean))
      BY <1>1, <3>1, DefinedProperties
    <3>3. ASSUME NEW b, IsActivation(b) PROVE IsActivation([b EXCEPT !.alloc = @ + 3])
      BY <3>3 DEF IsActivation, ActivationFields
    <3> QED
      BY <3>1, <3>2, <3>3 DEF Operation
  <2>3. CASE Project
    <3>1. PICK v, value, mean :
            v \in Locals /\ Operation(Defined(top, v, value, mean))
      BY <2>3 DEF Project
    <3> QED
      BY <3>1, <1>1, DefinedProperties DEF Operation
  <2> QED
    BY <2>1, <2>2, <2>3
<1>3. /\ Deepest(stack, frames[cur].prev, cur - 1) /\ fp \in 0 .. CALLS
      /\ frames \in [Depths -> [next : Nat, prev : 0 .. CALLS]]
      /\ Deepest(stack, fp, cur - 1)
  BY <1>1 DEF FramesInv, Linked, Pointed, FramesOK, Depths
<1> QED
  BY <1>1, <1>2, <1>3, StepInPlace

\* What a callee starts as.
LEMMA CalleeProperties ==
    ASSUME NEW xs \in Passed
    PROVE  IsActivation(Callee(xs)) /\ Callee(xs).held = <<>>
<1>1. Len(xs) \in 0 .. 2
  BY DEF Passed
<1> QED
  BY <1>1, ActivationProperties DEF Callee

LEMMA AppFrames == ASSUME FramesInv, App PROVE FramesInv'
<1>1. /\ code = "run" /\ stack # <<>> /\ cur \in 1 .. CALLS
      /\ UNCHANGED <<frames, fp>> /\ code' = "enter"
  BY Nested, TopProperties DEF App, Ready, FramesInv
<1>2. PICK xs \in Passed : Operation(Callee(xs))
  BY DEF App
<1>3. IsActivation(Callee(xs)) /\ stack' = [stack EXCEPT ![cur] = Callee(xs)]
  BY <1>2, CalleeProperties DEF Operation
<1>4. /\ fp \in 0 .. CALLS
      /\ frames \in [Depths -> [next : Nat, prev : 0 .. CALLS]]
      /\ Deepest(stack, fp, cur - 1)
  BY <1>1 DEF FramesInv, Pointed, FramesOK
<1> QED
  BY <1>1, <1>3, <1>4, StepInPlace

\* A caller that holds something is the newest frame from the call on.
LEMMA LetAppFrames == ASSUME FramesInv, LetApp PROVE FramesInv'
<1>1. /\ code = "run" /\ stack # <<>> /\ IsActivation(top) /\ cur \in 1 .. CALLS
      /\ cur < CALLS /\ code' = "enter"
  BY Nested, TopProperties DEF LetApp, Ready, FramesInv
<1>2. PICK x \in Locals : \E after \in SUBSET (top.live \ {x}), xs \in Passed :
        LET held == Elements(after)
            a == [Live(top, after) EXCEPT !.result = x, !.held = held]
        IN  /\ stack' = Append([stack EXCEPT ![cur] = a], Callee(xs))
            /\ update_stack(cur, Len(held))
            /\ set_stack(cur, Len(held), FALSE)
  BY DEF LetApp
<1>3. PICK after \in SUBSET (top.live \ {x}), xs \in Passed :
        LET held == Elements(after)
            a == [Live(top, after) EXCEPT !.result = x, !.held = held]
        IN  /\ stack' = Append([stack EXCEPT ![cur] = a], Callee(xs))
            /\ update_stack(cur, Len(held))
            /\ set_stack(cur, Len(held), FALSE)
  BY <1>2
<1> DEFINE held == Elements(after)
           a == [Live(top, after) EXCEPT !.result = x, !.held = held]
           waiting == [stack EXCEPT ![cur] = a]
<1>4. /\ held \in Seq(Locals) /\ Len(held) \in Nat
      /\ held = <<>> <=> Len(held) = 0
  <2>1. after \in SUBSET Locals
    BY <1>1 DEF IsActivation
  <2> QED
    BY <2>1, ElementsType, LenProperties, EmptySeq
<1>5. IsActivation(a) /\ a.held = held
  <2>1. after \in SUBSET Locals
    BY <1>1 DEF IsActivation
  <2>2. IsActivation(Live(top, after))
    BY <2>1, <1>1, LiveProperties
  <2> HIDE DEF held
  <2> QED
    BY <2>2, <1>4 DEF IsActivation, ActivationFields
<1>6. /\ stack' = Append(waiting, Callee(xs))
      /\ frames' = (IF Len(held) = 0 THEN frames
                    ELSE [frames EXCEPT ![cur].next = Len(held)])
      /\ fp' = (IF Len(held) = 0 THEN fp ELSE cur)
  BY <1>3 DEF update_stack, set_stack
<1>7. /\ IsSeq(waiting) /\ Len(waiting) = cur /\ waiting[cur] = a
      /\ \A n \in 1 .. cur - 1 : waiting[n] = stack[n]
  <2>1. IsSeq(stack) /\ cur \in DOMAIN stack /\ DOMAIN stack = 1 .. cur
    BY <1>1, TopProperties DEF FramesInv, StackOK
  <2> HIDE DEF a
  <2>2. /\ IsSeq(waiting) /\ Len(waiting) = Len(stack) /\ waiting[cur] = a
        /\ \A n \in DOMAIN stack : n # cur => waiting[n] = stack[n]
    <3>1. Updates(waiting, stack, cur, a)
      BY <2>1 DEF Updates
    <3> HIDE DEF waiting
    <3> QED
      BY <3>1, ReplaceSeq
  <2>3. \A n \in 1 .. cur - 1 : n \in DOMAIN stack /\ n # cur
    BY <2>1, <1>1
  <2> QED
    BY <2>2, <2>3 DEF cur
<1> HIDE DEF a, held, waiting
<1>8. /\ IsSeq(stack') /\ cur' = cur + 1 /\ stack'[cur + 1] = Callee(xs)
      /\ \A n \in 1 .. cur : stack'[n] = waiting[n]
      /\ DOMAIN stack' = 1 .. cur + 1
  BY <1>6, <1>7, AppendSeq, IsSeqLen DEF cur
<1>9. /\ stack'[cur].held = held
      /\ \A n \in 1 .. cur - 1 : stack'[n] = stack[n]
  BY <1>1, <1>5, <1>7, <1>8
<1>10. StackOK'
  <2>1. ASSUME NEW n \in 1 .. cur + 1 PROVE IsActivation(stack'[n])
    <3>1. CASE n = cur + 1
      BY <3>1, <1>8, CalleeProperties
    <3>2. CASE n = cur
      BY <3>2, <1>1, <1>5, <1>7, <1>8
    <3>3. CASE n < cur
      <4>1. n \in 1 .. cur - 1 /\ n \in DOMAIN stack
        BY <3>3, <1>1, TopProperties DEF FramesInv
      <4> QED
        BY <4>1, <1>9 DEF FramesInv, StackOK
    <3> QED
      BY <3>1, <3>2, <3>3, <1>1
  <2>2. cur' <= CALLS /\ stack' # <<>>
    BY <1>1, <1>8, BoundsAssumption
  <2> QED
    BY <2>1, <2>2, <1>1, <1>8 DEF StackOK
<1>11. /\ frames \in [Depths -> [next : Nat, prev : 0 .. CALLS]]
       /\ fp \in 0 .. CALLS /\ cur \in Depths
       /\ Deepest(stack, frames[cur].prev, cur - 1)
       /\ Deepest(stack, fp, cur - 1)
  BY <1>1 DEF FramesInv, FramesOK, Linked, Pointed, Depths
<1>12. /\ frames' \in [Depths -> [next : Nat, prev : 0 .. CALLS]]
       /\ fp' \in 0 .. CALLS
       /\ frames'[cur].prev = frames[cur].prev
       /\ held # <<>> => frames'[cur].next = Len(held)
       /\ \A n \in 1 .. cur - 1 : frames'[n] = frames[n]
  BY <1>4, <1>6, <1>11 DEF Depths
<1>13. ASSUME NEW n \in 0 .. cur - 1, NEW d, Deepest(stack, d, n)
       PROVE  Deepest(stack', d, n)
  <2>1. n \in Nat /\ \A m \in 1 .. n : stack'[m].held = stack[m].held
    BY <1>1, <1>9, <1>13
  <2> QED
    BY <2>1, <1>13, DeepestSame
<1>14. Linked'
  <2>1. ASSUME NEW n \in 1 .. cur, stack'[n].held # <<>>
        PROVE  frames'[n].next = Len(stack'[n].held)
    <3>1. CASE n = cur
      BY <3>1, <2>1, <1>9, <1>12
    <3>2. CASE n # cur
      <4>1. n \in 1 .. cur - 1
        BY <3>2, <1>1
      <4> QED
        BY <4>1, <2>1, <1>9, <1>12 DEF FramesInv, Linked
    <3> QED
      BY <3>1, <3>2
  <2>2. ASSUME NEW n \in 1 .. cur PROVE Deepest(stack', frames'[n].prev, n - 1)
    <3>1. Deepest(stack, frames'[n].prev, n - 1)
      <4>1. CASE n = cur
        BY <4>1, <1>11, <1>12
      <4>2. CASE n # cur
        <5>1. n \in 1 .. cur - 1 /\ n < cur
          BY <4>2, <1>1
        <5> QED
          BY <5>1, <1>12 DEF FramesInv, Linked
      <4> QED
        BY <4>1, <4>2
    <3>2. n - 1 \in 0 .. cur - 1
      BY <1>1
    <3> QED
      BY <3>1, <3>2, <1>13
  <2>3. (1 .. cur' - 1) = 1 .. cur /\ \A n \in 1 .. cur' : n < cur' => n \in 1 .. cur
    BY <1>1, <1>8
  <2> QED
    BY <2>1, <2>2, <2>3, <1>1 DEF Linked
<1>15. Deepest(stack', fp', cur' - 1)
  <2>1. CASE held = <<>>
    <3>1. Deepest(stack', fp, cur - 1) /\ fp' = fp
      <4>1. cur - 1 \in 0 .. cur - 1
        BY <1>1
      <4> QED
        BY <4>1, <2>1, <1>4, <1>6, <1>11, <1>13
    <3> QED
      BY <3>1, <2>1, <1>1, <1>8, <1>9 DEF Deepest
  <2>2. CASE held # <<>>
    BY <2>2, <1>1, <1>4, <1>6, <1>8, <1>9 DEF Deepest
  <2> QED
    BY <2>1, <2>2
<1>16. Pointed'
  BY <1>1, <1>15 DEF Pointed
<1> QED
  BY <1>10, <1>12, <1>14, <1>16 DEF FramesInv, FramesOK

LEMMA HaltFrames == ASSUME FramesInv, Halt PROVE FramesInv'
<1>1. /\ code = "run" /\ stack # <<>> /\ cur \in 1 .. CALLS
      /\ DOMAIN stack = 1 .. cur
      /\ stack' = SubSeq(stack, 1, cur - 1) /\ UNCHANGED <<frames, fp>>
      /\ code' = IF cur = 1 THEN "halted" ELSE "returned"
  BY Nested, TopProperties DEF Halt, Ready, FramesInv
<1>2. /\ IsSeq(stack') /\ cur' = cur - 1
      /\ \A n \in 1 .. cur - 1 : stack'[n] = stack[n]
      /\ DOMAIN stack' = 1 .. cur - 1
  BY <1>1, FrontSeq, IsSeqLen DEF FramesInv, StackOK, cur
<1>3. StackOK'
  <2>1. \A n \in DOMAIN stack' : IsActivation(stack'[n])
    BY <1>1, <1>2 DEF FramesInv, StackOK
  <2>2. stack' = <<>> <=> cur - 1 = 0
    <3>1. Len(stack') = cur - 1 /\ stack' = [i \in 1 .. Len(stack') |-> stack'[i]]
      BY <1>2, SeqFunction DEF cur
    <3>2. CASE stack' = <<>>
      BY <3>1, <3>2
    <3>3. CASE cur - 1 = 0
      <4>1. stack' \in Seq({stack'[i] : i \in DOMAIN stack'})
        BY <1>2 DEF IsSeq
      <4> HIDE DEF cur
      <4> QED
        BY <4>1, <3>1, <3>3, EmptySeq
    <3> QED
      BY <3>2, <3>3
  <2>3. cur' <= CALLS
    BY <1>1, <1>2, BoundsAssumption
  <2>4. code' = "halted" <=> cur - 1 = 0
    BY <1>1
  <2>5. code' \in {"enter", "entered", "run", "returned", "collected", "halted"}
    BY <1>1
  <2> QED
    BY <2>1, <2>2, <2>3, <2>4, <2>5, <1>2 DEF StackOK
<1>4. ASSUME NEW n \in 0 .. cur - 1, NEW d, Deepest(stack, d, n)
      PROVE  Deepest(stack', d, n)
  <2>1. n \in Nat /\ \A m \in 1 .. n : stack'[m].held = stack[m].held
    BY <1>1, <1>2, <1>4
  <2> QED
    BY <2>1, <1>4, DeepestSame
<1>5. Linked'
  <2>1. ASSUME NEW n \in 1 .. cur - 1
        PROVE  /\ stack[n].held # <<>> => frames[n].next = Len(stack[n].held)
               /\ Deepest(stack', frames[n].prev, n - 1)
    <3>1. n - 1 \in 0 .. cur - 1 /\ n \in 1 .. cur /\ n < cur
      BY <1>1
    <3> QED
      BY <3>1, <1>4 DEF FramesInv, Linked
  <2> QED
    BY <2>1, <1>1, <1>2 DEF Linked
<1>6. Pointed'
  <2>1. Deepest(stack, fp, cur - 1) /\ cur - 1 \in 0 .. cur - 1
    BY <1>1 DEF FramesInv, Pointed
  <2>2. Deepest(stack', fp', cur')
    BY <2>1, <1>1, <1>2, <1>4
  <2>3. cur = 1 => fp' = 0
    BY <2>1, <1>1 DEF Deepest
  <2> QED
    BY <2>2, <2>3, <1>1 DEF Pointed
<1> QED
  BY <1>1, <1>3, <1>5, <1>6 DEF FramesInv, FramesOK

\* The program starts, for the first time or again, with one activation.
LEMMA OneActivation ==
    /\ IsSeq(<<Activation(<<>>, <<>>, <<>>)>>)
    /\ IsActivation(Activation(<<>>, <<>>, <<>>))
<1>1. SubSeq(LocalNames, 1, 0) = <<>>
  BY NamesAssumption
<1>2. IsActivation(Activation(<<>>, <<>>, <<>>))
  <2>1. IsActivation(Activation(SubSeq(LocalNames, 1, 0), <<>>, <<>>))
    <3>1. 0 \in 0 .. 2
      OBVIOUS
    <3> QED
      BY <3>1, ActivationProperties, Zenon
  <2> QED
    BY <2>1, <1>1, Zenon
<1>3. <<Activation(<<>>, <<>>, <<>>)>> \in Seq({Activation(<<>>, <<>>, <<>>)})
  OBVIOUS
<1> QED
  BY <1>2, <1>3, SeqOfAny

LEMMA FirstFrames ==
    ASSUME stack = <<Activation(<<>>, <<>>, <<>>)>>, FramesOK, fp = 0, code = "enter"
    PROVE  FramesInv
<1> DEFINE first == Activation(<<>>, <<>>, <<>>)
<1> HIDE DEF first
<1>1. cur = 1 /\ stack # <<>> /\ DOMAIN stack = {1} /\ stack[1] = first
  BY DEF cur, first
<1>2. IsSeq(stack) /\ IsActivation(first)
  BY OneActivation DEF first
<1>3. StackOK
  BY <1>1, <1>2, BoundsAssumption DEF StackOK
<1> QED
  BY <1>1, <1>3 DEF FramesInv, Linked, Pointed, Deepest

LEMMA InitFrames == Init => FramesInv
<1> SUFFICES ASSUME Init PROVE FramesInv
  OBVIOUS
<1>1. FramesOK
  BY BoundsAssumption DEF Init, FramesOK, Depths
<1> QED
  BY <1>1, FirstFrames DEF Init

LEMMA AgainFrames == ASSUME FramesInv, Again PROVE FramesInv'
<1>1. FramesOK' /\ fp' = 0 /\ code' = "enter"
      /\ stack' = <<Activation(<<>>, <<>>, <<>>)>>
  BY DEF Again, Ready, FramesInv, Pointed, FramesOK
<1> DEFINE first == Activation(<<>>, <<>>, <<>>)
<1> HIDE DEF first
<1>2. cur' = 1 /\ stack' # <<>> /\ DOMAIN stack' = {1} /\ stack'[1] = first
  BY <1>1 DEF cur, first
<1>3. IsSeq(stack') /\ IsActivation(first)
  BY <1>1, OneActivation DEF first
<1>4. StackOK'
  BY <1>1, <1>2, <1>3, BoundsAssumption DEF StackOK
<1> QED
  BY <1>1, <1>2, <1>4 DEF FramesInv, Linked, Pointed, Deepest

LEMMA NextFrames == FramesInv /\ [Next]_allVars => FramesInv'
<1> SUFFICES ASSUME FramesInv, [Next]_allVars PROVE FramesInv'
  OBVIOUS
<1>1. CASE Mutator
  BY <1>1, EnterFrames, EnteredFrames, BodyFrames, LetAppFrames, AppFrames,
     HaltFrames, AgainFrames, ReturnedFrames, CollectedFrames DEF Mutator
<1>2. CASE UNCHANGED stackVars
  BY <1>2 DEF stackVars, FramesInv, StackOK, FramesOK, Linked, Pointed, cur, top
<1> QED
  BY <1>1, <1>2
     DEF Next, Collection, Copy, ExportAnswer, ExportRest, allVars, stackVars

\* The frames are linked as the activations that hold something are nested,
\* whatever calls, collections and exports there have been.
THEOREM FramesInvariance == Spec => []FramesInv
<1> QED
  BY InitFrames, NextFrames, PTL DEF Spec

-----------------------------------------------------------------------------
(* What the collector finds by following the frames. *)

RootsOf(d, n) == [i \in 1 .. n |-> Root(d, i - 1)]

LEMMA RootsOfType ==
    ASSUME NEW d \in Nat \ {0}, NEW n \in Nat
    PROVE  RootsOf(d, n) \in Seq(Nat) /\ (n = 0 => RootsOf(d, n) = <<>>)
<1>1. ASSUME NEW i \in 1 .. n PROVE Root(d, i - 1) \in Nat
  <2>1. Len(LocalNames) \in Nat /\ d - 1 \in Nat /\ i - 1 \in Nat
    BY NamesAssumption, LenProperties
  <2>2. (d - 1) * Len(LocalNames) \in Nat
    BY <2>1
  <2> QED
    BY <2>1, <2>2 DEF Root
<1>2. RootsOf(d, n) \in [1 .. n -> Nat]
  BY <1>1 DEF RootsOf
<1>3. RootsOf(d, n) \in Seq(Nat)
  BY <1>2, SeqDef
<1>4. n = 0 => Len(RootsOf(d, n)) = 0
  BY <1>2, <1>3, LenProperties
<1> QED
  BY <1>3, <1>4, EmptySeq

LEMMA EmptyConcat == ASSUME NEW s \in Seq(Nat) PROVE <<>> \o s = s
<1>1. Len(<<>> \o s) = Len(s) /\ \A i \in 1 .. Len(s) : (<<>> \o s)[i] = s[i]
  BY ConcatProperties, EmptySeq
<1> QED
  BY <1>1, ConcatProperties, EmptySeq, SeqEqual

\* The recursive definitions of FramesFrom and of Holding, as equations.
FramesStep(frs, g) ==
    [n \in 0 .. CALLS |->
        [f \in 0 .. CALLS |->
            IF n = 0 \/ f = 0 THEN <<>>
            ELSE RootsOf(f, frs[f].next) \o g[n - 1][frs[f].prev]]]

HoldingStep(g) ==
    [n \in 0 .. cur |->
        IF n = 0 THEN <<>> ELSE RootsOf(n, Len(stack[n].held)) \o g[n - 1]]

LEMMA FramesFromEquation ==
    ASSUME NEW frs \in [Depths -> [next : Nat, prev : 0 .. CALLS]]
    PROVE  FramesFrom(frs) = FramesStep(frs, FramesFrom(frs))
<1> DEFINE V == [0 .. CALLS -> Seq(Nat)]
           base == [f \in 0 .. CALLS |-> <<>>]
           Before(g) == [f \in 0 .. CALLS |->
               IF f = 0 THEN <<>> ELSE RootsOf(f, frs[f].next) \o g[frs[f].prev]]
           Next1 == [n \in 1 .. CALLS |-> [g \in V |-> Before(g)]]
<1>1. CALLS \in Nat /\ base \in V
  BY BoundsAssumption
<1>2. ASSUME NEW g \in V PROVE Before(g) \in V
  <2>1. ASSUME NEW f \in 0 .. CALLS, f # 0
        PROVE  RootsOf(f, frs[f].next) \o g[frs[f].prev] \in Seq(Nat)
    <3>1. /\ f \in Depths /\ f \in Nat \ {0}
          /\ frs[f].next \in Nat /\ frs[f].prev \in 0 .. CALLS
      BY <2>1 DEF Depths
    <3>2. RootsOf(f, frs[f].next) \in Seq(Nat) /\ g[frs[f].prev] \in Seq(Nat)
      BY <3>1, RootsOfType
    <3> QED
      BY <3>2, ConcatProperties
  <2> QED
    BY <2>1
<1>3. Next1 \in [1 .. CALLS -> [V -> V]]
  <2> HIDE DEF V, Before
  <2> QED
    BY <1>2
<1>4. PICK g \in [0 .. CALLS -> V] : g = PrimitiveStep(CALLS, base, Next1, g)
  <2> HIDE DEF V, base, Next1
  <2> QED
    BY <1>1, <1>3, PrimitiveRecursionExists
<1>5. PrimitiveStep(CALLS, base, Next1, g) = FramesStep(frs, g)
  <2>1. ASSUME NEW n \in 0 .. CALLS
        PROVE  PrimitiveStep(CALLS, base, Next1, g)[n] = FramesStep(frs, g)[n]
    <3>1. CASE n = 0
      BY <3>1 DEF PrimitiveStep, FramesStep
    <3>2. CASE n # 0
      <4>1. n \in 1 .. CALLS /\ n - 1 \in 0 .. CALLS /\ g[n - 1] \in V
        BY <3>2, <1>1
      <4>2. Next1[n][g[n - 1]] = Before(g[n - 1])
        <5> HIDE DEF V, Before
        <5> QED
          BY <4>1
      <4>3. PrimitiveStep(CALLS, base, Next1, g)[n] = Before(g[n - 1])
        <5> HIDE DEF V, Before, base, Next1
        <5> QED
          BY <3>2, <4>2 DEF PrimitiveStep
      <4> QED
        BY <3>2, <4>3 DEF FramesStep
    <3> QED
      BY <3>1, <3>2
  <2> QED
    <3>1. /\ DOMAIN PrimitiveStep(CALLS, base, Next1, g) = 0 .. CALLS
          /\ PrimitiveStep(CALLS, base, Next1, g)
                 = [n \in 0 .. CALLS |-> PrimitiveStep(CALLS, base, Next1, g)[n]]
      BY DEF PrimitiveStep
    <3>2. FramesStep(frs, g) = [n \in 0 .. CALLS |-> FramesStep(frs, g)[n]]
      BY DEF FramesStep
    <3> HIDE DEF V, base, Next1
    <3> QED
      BY <2>1, <3>1, <3>2
<1>6. \E h : h = FramesStep(frs, h)
  BY <1>4, <1>5
<1>7. FramesFrom(frs) = CHOOSE h : h = FramesStep(frs, h)
  BY DEF FramesFrom, FramesStep, RootsOf
<1> QED
  BY <1>6, <1>7

LEMMA HoldingEquation ==
    ASSUME StackOK
    PROVE  /\ Holding[0] = <<>>
           /\ \A n \in 1 .. cur :
                  Holding[n] = RootsOf(n, Len(stack[n].held)) \o Holding[n - 1]
           /\ \A n \in 0 .. cur : Holding[n] \in Seq(Nat)
<1> DEFINE V == Seq(Nat)
           Roots(n) == RootsOf(n, Len(stack[n].held))
           Next1 == [n \in 1 .. cur |-> [g \in V |-> Roots(n) \o g]]
<1>1. cur \in Nat /\ <<>> \in V /\ DOMAIN stack = 1 .. cur
  BY IsSeqLen DEF StackOK, cur
<1>2. ASSUME NEW n \in 1 .. cur PROVE Roots(n) \in V
  <2>1. stack[n].held \in Seq(Locals) /\ n \in Nat \ {0}
    BY <1>1 DEF StackOK, IsActivation
  <2>2. Len(stack[n].held) \in Nat
    BY <2>1, LenProperties
  <2> QED
    BY <2>1, <2>2, RootsOfType
<1>3. Next1 \in [1 .. cur -> [V -> V]]
  <2>1. ASSUME NEW n \in 1 .. cur, NEW g \in V PROVE Roots(n) \o g \in V
    BY <1>2, ConcatProperties
  <2> HIDE DEF V, Roots
  <2> QED
    BY <2>1
<1>4. PICK g \in [0 .. cur -> V] : g = PrimitiveStep(cur, <<>>, Next1, g)
  <2> HIDE DEF V, Next1
  <2> QED
    BY <1>1, <1>3, PrimitiveRecursionExists
<1>5. ASSUME NEW h \in [0 .. cur -> V]
      PROVE  PrimitiveStep(cur, <<>>, Next1, h) = HoldingStep(h)
  <2>1. ASSUME NEW n \in 0 .. cur, n # 0 PROVE Next1[n][h[n - 1]] = Roots(n) \o h[n - 1]
    <3>1. n \in 1 .. cur /\ h[n - 1] \in V
      BY <2>1, <1>1
    <3> HIDE DEF V, Roots
    <3> QED
      BY <3>1
  <2> HIDE DEF Next1
  <2> QED
    BY <2>1 DEF PrimitiveStep, HoldingStep
<1>6. \E h : h = HoldingStep(h)
  BY <1>4, <1>5
<1>7. Holding = CHOOSE h : h = HoldingStep(h)
  BY DEF Holding, HoldingStep, RootsOf
<1>8. Holding = HoldingStep(Holding)
  BY <1>6, <1>7
<1>9. ASSUME NEW h, h = HoldingStep(h)
      PROVE  h[0] = <<>> /\ \A n \in 1 .. cur : h[n] = Roots(n) \o h[n - 1]
  <2>1. h[0] = <<>>
    BY <1>1, <1>9 DEF HoldingStep
  <2>2. ASSUME NEW n \in 1 .. cur PROVE h[n] = Roots(n) \o h[n - 1]
    <3>1. n \in 0 .. cur /\ n # 0
      BY <1>1
    <3> QED
      BY <3>1, <1>9 DEF HoldingStep
  <2> QED
    BY <2>1, <2>2
<1>10. /\ Holding[0] = <<>>
       /\ \A n \in 1 .. cur : Holding[n] = Roots(n) \o Holding[n - 1]
  <2> HIDE DEF Roots
  <2> QED
    BY <1>8, <1>9
<1> HIDE DEF Roots
<1>11. \A n \in 0 .. cur : Holding[n] \in Seq(Nat)
  <2> DEFINE S == {n \in 0 .. cur : Holding[n] \in Seq(Nat)}
  <2>1. 0 \in S
    <3>1. 0 \in 0 .. cur /\ <<>> \in Seq(Nat)
      BY <1>1
    <3>2. Holding[0] = <<>>
      BY <1>10
    <3> QED
      BY <3>1, <3>2, Zenon
  <2>2. ASSUME NEW n \in 0 .. cur - 1, n \in S PROVE n + 1 \in S
    <3>1. PICK m \in 1 .. cur : m = n + 1 /\ m - 1 = n /\ m \in 0 .. cur
      BY <2>2, <1>1
    <3>2. Holding[m] = Roots(m) \o Holding[n]
      BY <3>1, <1>10
    <3>3. Roots(m) \in V /\ Holding[n] \in V
      BY <2>2, <1>2
    <3>4. Holding[m] \in Seq(Nat)
      BY <3>2, <3>3, ConcatProperties
    <3> QED
      BY <3>1, <3>4
  <2> HIDE DEF S
  <2>3. \A n \in 0 .. cur : n \in S
    BY <1>1, <2>1, <2>2, BoundedInduction
  <2> QED
    BY <2>3 DEF S
<1> QED
  BY <1>10, <1>11 DEF Roots

\* What is found from frame f on, at most n frames deep.
LEMMA FrameRead ==
    ASSUME FramesOK, NEW n \in 0 .. CALLS, NEW f \in 0 .. CALLS
    PROVE  FramesFrom(frames)[n][f] =
               IF n = 0 \/ f = 0 THEN <<>>
               ELSE RootsOf(f, frames[f].next) \o FramesFrom(frames)[n - 1][frames[f].prev]
<1>1. FramesFrom(frames) = FramesStep(frames, FramesFrom(frames))
  BY FramesFromEquation DEF FramesOK
<1>2. ASSUME NEW h, h = FramesStep(frames, h)
      PROVE  h[n][f] = IF n = 0 \/ f = 0 THEN <<>>
                       ELSE RootsOf(f, frames[f].next) \o h[n - 1][frames[f].prev]
  <2>1. FramesStep(frames, h)[n][f] =
            IF n = 0 \/ f = 0 THEN <<>>
            ELSE RootsOf(f, frames[f].next) \o h[n - 1][frames[f].prev]
    BY DEF FramesStep
  <2> QED
    BY <1>2, <2>1, Zenon
<1> QED
  BY <1>1, <1>2

\* Whichever frame is newest, the frames hold what the activations hold.
LEMMA FramesHold ==
    ASSUME FramesInv, cur # 0
    PROVE  \A n \in 0 .. cur - 1 : \A fuel \in n .. CALLS, p \in 0 .. n :
               Deepest(stack, p, n) => FramesFrom(frames)[fuel][p] = Holding[n]
<1>1. cur \in 1 .. CALLS /\ CALLS \in Nat
  BY IsSeqLen, BoundsAssumption DEF FramesInv, StackOK, cur
<1>2. /\ Holding[0] = <<>>
      /\ \A n \in 1 .. cur : Holding[n] = RootsOf(n, Len(stack[n].held)) \o Holding[n - 1]
      /\ \A n \in 0 .. cur : Holding[n] \in Seq(Nat)
  BY HoldingEquation DEF FramesInv
<1>3. ASSUME NEW n \in 0 .. CALLS, NEW f \in 0 .. CALLS
      PROVE  FramesFrom(frames)[n][f] =
                 IF n = 0 \/ f = 0 THEN <<>>
                 ELSE RootsOf(f, frames[f].next) \o FramesFrom(frames)[n - 1][frames[f].prev]
  BY FrameRead DEF FramesInv
<1> DEFINE Holds(n) == \A fuel \in n .. CALLS, p \in 0 .. n :
               Deepest(stack, p, n) => FramesFrom(frames)[fuel][p] = Holding[n]
           S == {n \in 0 .. cur - 1 : Holds(n)}
<1>4. 0 \in S
  BY <1>1, <1>2, <1>3
<1>5. ASSUME NEW n \in 0 .. (cur - 1) - 1, n \in S PROVE n + 1 \in S
  <2>1. PICK m \in 1 .. cur :
            /\ m = n + 1 /\ m - 1 = n /\ m < cur
            /\ m \in 0 .. cur - 1 /\ m \in 1 .. cur - 1 /\ n \in 0 .. cur
    BY <1>1
  <2>2. Holds(n) /\ Holding[n] \in Seq(Nat)
    BY <1>5, <2>1, <1>2
  <2> HIDE DEF Holds, S
  <2>3. /\ Holding[m] = RootsOf(m, Len(stack[m].held)) \o Holding[n]
        /\ stack[m].held # <<>> => frames[m].next = Len(stack[m].held)
        /\ Deepest(stack, frames[m].prev, n)
    <3>1. Holding[m] = RootsOf(m, Len(stack[m].held)) \o Holding[n]
      BY <2>1, <1>2
    <3>2. stack[m].held # <<>> => frames[m].next = Len(stack[m].held)
      BY <2>1 DEF FramesInv, Linked
    <3>3. Deepest(stack, frames[m].prev, n)
      BY <2>1 DEF FramesInv, Linked
    <3> QED
      BY <3>1, <3>2, <3>3
  <2>4. ASSUME NEW fuel \in m .. CALLS, NEW p \in 0 .. m, Deepest(stack, p, m)
        PROVE  FramesFrom(frames)[fuel][p] = Holding[m]
    <3>1. CASE stack[m].held = <<>>
      <4>1. p # m /\ p \in 0 .. n /\ Deepest(stack, p, n) /\ fuel \in n .. CALLS
        BY <3>1, <2>4, <2>1 DEF Deepest
      <4>2. Len(stack[m].held) = 0 /\ RootsOf(m, 0) = <<>>
        BY <3>1, <2>1, RootsOfType, EmptySeq
      <4>3. Holding[m] = Holding[n]
        BY <4>2, <2>2, <2>3, EmptyConcat
      <4> QED
        BY <4>1, <4>3, <2>2 DEF Holds
    <3>2. CASE stack[m].held # <<>>
      <4>1. p = m
        BY <3>2, <2>4, <2>1 DEF Deepest
      <4>2. /\ fuel \in 0 .. CALLS /\ fuel # 0 /\ fuel - 1 \in n .. CALLS
            /\ p \in 0 .. CALLS /\ p # 0
        BY <4>1, <2>1, <1>1
      <4>3. FramesFrom(frames)[fuel][p] =
                RootsOf(p, frames[p].next) \o FramesFrom(frames)[fuel - 1][frames[p].prev]
        BY <4>2, <1>3
      <4>4. frames[m].prev \in 0 .. n
        BY <2>3 DEF Deepest
      <4>5. FramesFrom(frames)[fuel - 1][frames[m].prev] = Holding[n]
        BY <4>2, <4>4, <2>2, <2>3 DEF Holds
      <4> QED
        BY <3>2, <4>1, <4>3, <4>5, <2>3
    <3> QED
      BY <3>1, <3>2
  <2>5. Holds(m)
    BY <2>4 DEF Holds
  <2>6. m \in S
    BY <2>5, <2>1 DEF S
  <2> QED
    BY <2>6, <2>1
<1>6. \A n \in 0 .. cur - 1 : n \in S
  <2> HIDE DEF S
  <2>1. cur - 1 \in Nat
    BY <1>1
  <2> QED
    BY <2>1, <1>4, <1>5, BoundedInduction
<1> QED
  BY <1>6

\* The newest activation has all it has pushed in its frame.
OwnFrame == Pushes # 0 => frames[cur].next = Pushes

PushesLinked == code \in {"entered", "collected"} => OwnFrame

LEMMA EnterLinked == ASSUME FramesInv, Enter PROVE PushesLinked'
<1>1. code = "enter" /\ stack # <<>> /\ IsActivation(top) /\ cur \in 1 .. CALLS
  BY Nested, TopProperties DEF Enter, Ready, FramesInv
<1>2. PICK n \in Requests, used \in SUBSET top.live :
        LET a == Live(Reloaded(top), used)
            xs == Elements(used)
        IN  /\ stack' = [stack EXCEPT ![cur] = a]
            /\ IF NeedsGC(n, a)
               THEN /\ frames' = [init_stack(cur) EXCEPT ![cur].next = Len(xs)]
                    /\ CallGC(n, a, 0, xs, "entered")
               ELSE code' = "run"
  BY DEF Enter
<1>3. PICK a, len : a = Live(Reloaded(top), used) /\ len = Len(Elements(used))
  OBVIOUS
<1>4. IsActivation(a) /\ a.live = used
  BY <1>1, <1>3, ReloadedProperties, LiveProperties DEF IsActivation
<1>5. CASE NeedsGC(n, a)
  <2>1. /\ stack' = [stack EXCEPT ![cur] = a] /\ code' = "entered"
        /\ frames' = [init_stack(cur) EXCEPT ![cur].next = len]
    BY <1>2, <1>3, <1>5 DEF CallGC
  <2>2. top' = a /\ cur' = cur
    BY <1>1, <1>4, <2>1, Replaced DEF FramesInv, cur, top
  <2>3. Pushes' = len
    BY <1>3, <1>4, <2>1, <2>2 DEF Pushes
  <2>4. frames'[cur].next = len
    BY <1>1, <2>1 DEF init_stack, FramesInv, FramesOK, Depths
  <2> QED
    BY <2>2, <2>3, <2>4 DEF PushesLinked, OwnFrame
<1>6. CASE ~ NeedsGC(n, a)
  BY <1>2, <1>3, <1>6 DEF PushesLinked
<1> QED
  BY <1>5, <1>6

LEMMA ReturnedLinked == ASSUME FramesInv, Returned PROVE PushesLinked'
<1>1. code = "returned" /\ stack # <<>> /\ IsActivation(top) /\ cur \in 1 .. CALLS
  BY Nested, TopProperties DEF Returned, Ready, FramesInv
<1>2. PICK n \in Requests, fresh \in BOOLEAN :
        LET b == [Reloaded(top) EXCEPT !.vars[top.result] = args[Answer],
                                       !.means[top.result] = answer,
                                       !.fresh = fresh]
            k == Len(top.held)
            xs == IF fresh THEN <<top.result>> ELSE <<>>
        IN  IF NeedsGC(n, b)
            THEN /\ stack' = [stack EXCEPT ![cur] = b]
                 /\ update_stack(cur, k + Len(xs))
                 /\ CallGC(n, b, k, xs, "collected")
            ELSE Discard(b)
  BY DEF Returned
<1>3. PICK b, k, own :
        /\ b = [Reloaded(top) EXCEPT !.vars[top.result] = args[Answer],
                                     !.means[top.result] = answer, !.fresh = fresh]
        /\ k = Len(top.held)
        /\ own = Len(IF fresh THEN <<top.result>> ELSE <<>>)
  OBVIOUS
<1>4. IsActivation(b) /\ b.held = top.held /\ b.fresh = fresh
  <2>1. IsActivation(Reloaded(top)) /\ Reloaded(top).held = top.held
    BY <1>1, ReloadedProperties
  <2> QED
    BY <1>3, <2>1 DEF IsActivation, ActivationFields
<1>5. k \in Nat /\ own = IF fresh THEN 1 ELSE 0
  BY <1>1, <1>3, LenProperties DEF IsActivation
<1>6. CASE NeedsGC(n, b)
  <2>1. /\ stack' = [stack EXCEPT ![cur] = b] /\ update_stack(cur, k + own)
        /\ code' = "collected"
    BY <1>2, <1>3, <1>6 DEF CallGC
  <2>2. top' = b /\ cur' = cur
    BY <1>1, <1>4, <2>1, Replaced DEF FramesInv, cur, top
  <2>3. Pushes' = k + own
    BY <1>3, <1>4, <1>5, <2>1, <2>2 DEF Pushes
  <2>4. k + own # 0 => frames'[cur].next = k + own
    BY <1>1, <1>5, <2>1 DEF update_stack, FramesInv, FramesOK, Depths
  <2> QED
    BY <2>2, <2>3, <2>4 DEF PushesLinked, OwnFrame
<1>7. CASE ~ NeedsGC(n, b)
  BY <1>2, <1>3, <1>7 DEF PushesLinked, Discard
<1> QED
  BY <1>6, <1>7

\* The other steps make no call of the collector.
LEMMA NextLinked == FramesInv /\ PushesLinked /\ [Next]_allVars => PushesLinked'
<1> SUFFICES ASSUME FramesInv, PushesLinked, [Next]_allVars PROVE PushesLinked'
  OBVIOUS
<1>1. CASE Mutator
  <2>1. CASE Enter \/ Returned
    BY <2>1, EnterLinked, ReturnedLinked
  <2>2. CASE Entered \/ Collected \/ LetApp \/ App \/ Halt \/ Again
    BY <2>2 DEF PushesLinked, Entered, Collected, Discard, LetApp, App, Halt, Again
  <2>3. CASE Enum \/ Construct \/ Project
    BY <2>3 DEF PushesLinked, Enum, Construct, Project, NoCall, Ready
  <2> QED
    BY <1>1, <2>1, <2>2, <2>3 DEF Mutator
<1>2. CASE UNCHANGED stackVars
  BY <1>2 DEF PushesLinked, OwnFrame, Pushes, cur, top, stackVars
<1> QED
  BY <1>1, <1>2 DEF Next, Collection, Copy, ExportAnswer, ExportRest, allVars

LEMMA FramesInvMatch == FramesInv /\ PushesLinked => FramesMatchCalls
<1> SUFFICES ASSUME FramesInv, PushesLinked PROVE FramesMatchCalls
  OBVIOUS
<1>1. ASSUME code = "halted" PROVE FrameRoots(fp, frames) = <<>>
  <2>1. fp = 0 /\ CALLS \in Nat /\ FramesOK
    BY <1>1, BoundsAssumption DEF FramesInv, Pointed
  <2> QED
    BY <2>1, FrameRead DEF FrameRoots
<1>2. ASSUME code # "halted"
      PROVE  /\ cur \in 1 .. CALLS /\ CALLS \in Nat
             /\ Deepest(stack, fp, cur - 1) =>
                    FrameRoots(fp, frames) = Holding[cur - 1]
  <2>1. cur \in 1 .. CALLS /\ CALLS \in Nat
    BY <1>2, Nested, TopProperties, BoundsAssumption DEF FramesInv
  <2>2. cur # 0 /\ cur - 1 \in 0 .. cur - 1 /\ CALLS \in cur - 1 .. CALLS
    BY <2>1
  <2>3. ASSUME Deepest(stack, fp, cur - 1) PROVE FrameRoots(fp, frames) = Holding[cur - 1]
    <3>1. fp \in 0 .. cur - 1
      BY <2>3 DEF Deepest
    <3> QED
      BY <2>2, <2>3, <3>1, FramesHold DEF FrameRoots
  <2> QED
    BY <2>1, <2>3
<1>3. ASSUME code \in {"enter", "run"} PROVE FrameRoots(fp, frames) = Holding[cur - 1]
  BY <1>2, <1>3 DEF FramesInv, Pointed
<1>4. ASSUME code \in {"entered", "collected"}
      PROVE  FrameRoots(fp, frames) = RootsOf(cur, Pushes) \o Holding[cur - 1]
  <2>1. cur \in 1 .. CALLS /\ CALLS \in Nat /\ IsActivation(top)
    BY <1>2, <1>4, Nested, TopProperties DEF FramesInv
  <2>2. /\ Pushes \in Nat
        /\ Pushes = 0 => Deepest(stack, fp, cur - 1)
        /\ Pushes # 0 => fp = cur
    <3>1. CASE code = "entered"
      <4>1. PICK xs : xs = Elements(top.live) /\ xs \in Seq(Locals)
        BY <2>1, ElementsType DEF IsActivation
      <4>2. Len(xs) \in Nat /\ (xs = <<>> <=> Len(xs) = 0)
        BY <4>1, LenProperties, EmptySeq
      <4>3. IF xs = <<>> THEN Deepest(stack, fp, cur - 1) ELSE fp = cur
        BY <3>1, <4>1 DEF FramesInv, Pointed
      <4> QED
        BY <3>1, <4>1, <4>2, <4>3 DEF Pushes
    <3>2. CASE code = "collected"
      <4>1. Len(top.held) \in Nat /\ (top.held = <<>> <=> Len(top.held) = 0)
        BY <2>1, LenProperties, EmptySeq DEF IsActivation
      <4>2. IF top.held = <<>> /\ ~ top.fresh THEN Deepest(stack, fp, cur - 1) ELSE fp = cur
        BY <3>2 DEF FramesInv, Pointed
      <4>3. CASE top.fresh
        <5>1. Pushes = Len(top.held) + 1
          BY <3>2, <4>3 DEF Pushes
        <5> QED
          BY <4>1, <4>2, <4>3, <5>1
      <4>4. CASE ~ top.fresh
        <5>1. Pushes = Len(top.held) + 0
          BY <3>2, <4>4 DEF Pushes
        <5> QED
          BY <4>1, <4>2, <4>4, <5>1
      <4> QED
        BY <4>3, <4>4
    <3> QED
      BY <1>4, <3>1, <3>2
  <2>3. CASE Pushes = 0
    <3>1. FrameRoots(fp, frames) = Holding[cur - 1]
      BY <1>2, <1>4, <2>2, <2>3
    <3>2. cur - 1 \in 0 .. cur /\ cur \in Nat \ {0} /\ 0 \in Nat
      BY <2>1
    <3>3. Holding[cur - 1] \in Seq(Nat)
      BY <3>2, HoldingEquation DEF FramesInv
    <3>4. RootsOf(cur, Pushes) = <<>>
      BY <2>3, <3>2, RootsOfType
    <3> QED
      BY <3>1, <3>3, <3>4, EmptyConcat
  <2>4. CASE Pushes # 0
    <3>1. fp = cur /\ frames[cur].next = Pushes
      BY <1>4, <2>2, <2>4 DEF PushesLinked, OwnFrame
    <3>2. PICK n : /\ n = cur - 1 /\ n \in 0 .. cur - 1 /\ CALLS - 1 \in n .. CALLS
                   /\ CALLS \in 0 .. CALLS /\ cur \in 0 .. CALLS /\ CALLS # 0 /\ cur # 0
                   /\ cur \in 1 .. cur
      BY <2>1
    <3>3. PICK d : d = frames[cur].prev /\ Deepest(stack, d, n) /\ d \in 0 .. n
      <4>1. Deepest(stack, frames[cur].prev, n)
        BY <1>4, <3>2 DEF FramesInv, Linked
      <4> QED
        BY <4>1 DEF Deepest
    <3>4. FramesFrom(frames)[CALLS - 1][d] = Holding[n]
      BY <3>2, <3>3, FramesHold
    <3>5. FramesFrom(frames)[CALLS][cur] =
              RootsOf(cur, frames[cur].next) \o FramesFrom(frames)[CALLS - 1][d]
      BY <3>2, <3>3, FrameRead DEF FramesInv
    <3> QED
      BY <3>1, <3>2, <3>4, <3>5 DEF FrameRoots
  <2> QED
    BY <2>3, <2>4
<1> QED
  BY <1>1, <1>3, <1>4 DEF FramesMatchCalls, RootsOf

\* What following the frames from ti->fp finds: while a function runs, what those that
\* wait for it hold, in order; at every call of the collector, on entry or after a
\* call, what the function has pushed for it, and then the same; nothing at the end.
THEOREM FramesAlwaysMatch == Spec => []FramesMatchCalls
<1>1. Init => PushesLinked
  BY DEF Init, PushesLinked
<1>2. Spec => [](FramesInv /\ PushesLinked)
  BY <1>1, InitFrames, NextFrames, NextLinked, PTL DEF Spec
<1> QED
  BY <1>2, FramesInvMatch, PTL

-----------------------------------------------------------------------------
(* The shape of the memory. *)

LEMMA SpacesFacts ==
    /\ Gens \subseteq Spaces /\ 0 \in Gens /\ Gens \subseteq Nat
    /\ \A g \in Nat : g < MAX_SPACES - 1 => g \in Gens /\ g + 1 \in Gens
  BY CollectorAssumption DEF Gens, Spaces

LEMMA EmptySpaceSeq ==
    ASSUME NEW n \in Nat
    PROVE  IsSeq(EmptySpace(n)) /\ Len(EmptySpace(n)) = n
<1>1. /\ DOMAIN EmptySpace(n) = 1 .. n
      /\ EmptySpace(n) = [i \in 1 .. n |-> EmptySpace(n)[i]]
  BY DEF EmptySpace
<1> QED
  BY <1>1, SeqOfFunction

\* old and new memory, and a space that is still as long as it was.
SameSpaces(new, old) ==
    /\ DOMAIN new = DOMAIN old
    /\ \A s \in Gens : IsSeq(old[s]) => IsSeq(new[s]) /\ Len(new[s]) = Len(old[s])

LEMMA SameSpacesTrans ==
    ASSUME NEW a, NEW b, NEW c, SameSpaces(c, b), SameSpaces(b, a)
    PROVE  SameSpaces(c, a)
  BY DEF SameSpaces

\* Storing a word leaves a space as long as it was, whatever is stored where.
LEMMA WordStored ==
    ASSUME NEW m, NEW r, NEW s, NEW i, NEW v, DOMAIN m = Spaces, r = [m EXCEPT ![s][i] = v]
    PROVE  SameSpaces(r, m)
<1>1. DOMAIN r = DOMAIN m
  OBVIOUS
<1>2. ASSUME NEW g \in Gens, IsSeq(m[g])
      PROVE  IsSeq(r[g]) /\ Len(r[g]) = Len(m[g])
  <2>1. g \in DOMAIN m
    BY SpacesFacts
  <2>2. Len(m[g]) \in Nat /\ DOMAIN m[g] = 1 .. Len(m[g])
        /\ m[g] = [k \in 1 .. Len(m[g]) |-> m[g][k]]
    BY <1>2, IsSeqLen, SeqFunction
  <2>3. CASE g = s
    <3>1. r[g] = [m[g] EXCEPT ![i] = v]
      BY <2>1, <2>3
    <3>2. DOMAIN r[g] = 1 .. Len(m[g]) /\ r[g] = [k \in 1 .. Len(m[g]) |-> r[g][k]]
      BY <2>2, <3>1
    <3> QED
      BY <2>2, <3>2, SeqOfFunction
  <2>4. CASE g # s
    <3>1. r[g] = m[g]
      BY <2>1, <2>4
    <3> QED
      BY <3>1, <1>2
  <2> QED
    BY <2>3, <2>4
<1> QED
  BY <1>1, <1>2 DEF SameSpaces

\* So does writing a range of words.
LEMMA SpaceRewritten ==
    ASSUME NEW m, NEW r, NEW s, NEW words, DOMAIN m = Spaces,
           DOMAIN words = DOMAIN m[s], words = [k \in DOMAIN m[s] |-> words[k]],
           r = [m EXCEPT ![s] = words]
    PROVE  SameSpaces(r, m)
<1>1. DOMAIN r = DOMAIN m
  OBVIOUS
<1>2. ASSUME NEW g \in Gens, IsSeq(m[g])
      PROVE  IsSeq(r[g]) /\ Len(r[g]) = Len(m[g])
  <2>1. g \in DOMAIN m
    BY SpacesFacts
  <2>2. Len(m[g]) \in Nat /\ DOMAIN m[g] = 1 .. Len(m[g])
    BY <1>2, IsSeqLen
  <2>3. CASE g = s
    <3>1. r[g] = words
      BY <2>1, <2>3
    <3>2. DOMAIN words = 1 .. Len(m[g]) /\ words = [k \in 1 .. Len(m[g]) |-> words[k]]
      BY <2>2, <2>3
    <3> QED
      BY <2>2, <3>1, <3>2, SeqOfFunction
  <2>4. CASE g # s
    <3>1. r[g] = m[g]
      BY <2>1, <2>4
    <3> QED
      BY <3>1, <1>2
  <2> QED
    BY <2>3, <2>4
<1> QED
  BY <1>1, <1>2 DEF SameSpaces

LEMMA StoreShape ==
    ASSUME NEW m, NEW loc, NEW v, DOMAIN m = Spaces
    PROVE  SameSpaces(StoreMem(m, loc, v), m)
<1>1. CASE loc[1] = "mem"
  <2>1. StoreMem(m, loc, v) = [m EXCEPT ![loc[2]][loc[3]] = v]
    BY <1>1 DEF StoreMem
  <2> QED
    BY <2>1, WordStored
<1>2. CASE loc[1] # "mem"
  BY <1>2 DEF StoreMem, SameSpaces
<1> QED
  BY <1>1, <1>2

LEMMA CopyShape ==
    ASSUME DOMAIN mem = Spaces, NEW v, NEW sz, NEW new
    PROVE  SameSpaces(CopyObject(v, sz, new), mem)
<1> DEFINE words == [k \in DOMAIN mem[copy.to] |->
                        IF k \in new - 1 .. new + sz - 1
                        THEN mem[copy.from][IndexOf(v) + (k - new)]
                        ELSE mem[copy.to][k]]
           m1 == [mem EXCEPT ![copy.to] = words]
           m2 == [m1 EXCEPT ![copy.from][IndexOf(v) - 1] = ZeroHeader]
           m3 == [m2 EXCEPT ![copy.from][IndexOf(v)] = Ptr(copy.to, new)]
<1>1. CopyObject(v, sz, new) = m3
  BY DEF CopyObject
<1>2. DOMAIN words = DOMAIN mem[copy.to] /\ words = [k \in DOMAIN mem[copy.to] |-> words[k]]
  OBVIOUS
<1> HIDE DEF words
<1>3. SameSpaces(m1, mem) /\ DOMAIN m1 = Spaces
  BY <1>2, SpaceRewritten
<1> HIDE DEF m1
<1>4. SameSpaces(m2, m1) /\ DOMAIN m2 = Spaces
  BY <1>3, WordStored
<1> HIDE DEF m2
<1>5. SameSpaces(m3, m2)
  BY <1>4, WordStored
<1> QED
  BY <1>1, <1>3, <1>4, <1>5, SameSpacesTrans

LEMMA ShapeKept ==
    ASSUME HeapShape, SameSpaces(mem', mem)
    PROVE  HeapShape' /\ Len(mem'[0]) = Len(mem[0])
  BY SpacesFacts DEF HeapShape, SameSpaces

\* A space is created, or emptied.
LEMMA ShapeCreated ==
    ASSUME HeapShape, NEW s, NEW n, n \in Nat \/ s \notin Gens,
           mem' = [mem EXCEPT ![s] = EmptySpace(n)]
    PROVE  HeapShape'
<1>1. DOMAIN mem' = Spaces
  BY DEF HeapShape
<1>2. ASSUME NEW g \in Gens PROVE IsSeq(mem'[g])
  <2>1. g \in DOMAIN mem /\ IsSeq(mem[g])
    BY SpacesFacts DEF HeapShape
  <2>2. mem'[g] = IF g = s THEN EmptySpace(n) ELSE mem[g]
    BY <2>1
  <2> QED
    BY <2>1, <2>2, EmptySpaceSeq
<1> QED
  BY <1>1, <1>2 DEF HeapShape

LEMMA ForwardShape == ASSUME HeapShape, DoGeneration PROVE HeapShape'
<1>1. CASE ForwardOther
  BY <1>1 DEF ForwardOther, heapVars, HeapShape
<1>2. CASE ScanObject
  BY <1>2 DEF ScanObject, heapVars, HeapShape
<1>3. CASE ForwardAgain
  <2>1. PICK loc, v : mem' = StoreMem(mem, loc, v)
    BY <1>3 DEF ForwardAgain
  <2>2. SameSpaces(mem', mem)
    BY <2>1, StoreShape DEF HeapShape
  <2> QED
    BY <2>2, ShapeKept
<1>4. CASE ForwardCopy
  <2>1. PICK loc, v, sz, new, w : mem' = StoreMem(CopyObject(v, sz, new), loc, w)
    BY <1>4 DEF ForwardCopy
  <2> DEFINE copied == CopyObject(v, sz, new)
  <2>2. SameSpaces(copied, mem) /\ DOMAIN copied = Spaces
    BY CopyShape DEF HeapShape, SameSpaces
  <2> HIDE DEF copied
  <2>3. SameSpaces(StoreMem(copied, loc, w), copied)
    BY <2>2, StoreShape
  <2>4. SameSpaces(mem', mem)
    BY <2>1, <2>2, <2>3, SameSpacesTrans DEF copied
  <2> QED
    BY <2>4, ShapeKept
<1> QED
  BY <1>1, <1>2, <1>3, <1>4 DEF DoGeneration

-----------------------------------------------------------------------------
(* The collector leaves the room that was asked for. *)

\* A process that has left for the mutator's code again, or for good.
LEMMA GoneForGood ==
    ASSUME gen' \in Nat, fi'.num_allocs \in Nat, ~ Returning', pc' # "mutator"
    PROVE  Room'
  BY DEF Room

LEMMA StillReturning ==
    ASSUME Room, Returning, pc # "mutator", HeapShape', UNCHANGED <<fi, code>>,
           gen' \in Nat, pc' # "mutator"
    PROVE  Room'
  BY DEF Room

LEMMA ResumeRoom ==
    ASSUME Room, Returning, pc # "mutator", HeapShape', UNCHANGED <<fi, code>>,
           gen' \in Nat, Resume
    PROVE  Room'
<1>1. Len(mem'[0]) \in Nat
  BY SpacesFacts, IsSeqLen DEF HeapShape
<1>2. code' \in {"entered", "collected"} /\ fi'.num_allocs = fi.num_allocs
      /\ fi.num_allocs \in Nat
  BY DEF Room
<1>3. CASE Len(mem'[0]) < fi.num_allocs
  BY <1>2, <1>3 DEF Resume, Room, Returning
<1>4. CASE ~ (Len(mem'[0]) < fi.num_allocs)
  <2>1. /\ pc' = "mutator" /\ alloc' = 0 /\ limit' = Len(mem'[0])
        /\ budget' = fi.num_allocs
    BY <1>4 DEF Resume
  <2>2. Settled'
    BY <1>1, <1>2, <1>4, <2>1 DEF Settled
  <2> QED
    BY <1>2, <2>1, <2>2 DEF Room
<1> QED
  BY <1>3, <1>4

LEMMA CollectionRoom == ASSUME Room, GarbageCollect, UNCHANGED code PROVE Room'
<1> USE DEF Returning
<1>1. gen \in Nat /\ fi.num_allocs \in Nat /\ (Returning => HeapShape)
  BY DEF Room
<1>2. CASE CreateHeap
  <2>1. HeapShape'
    BY <1>1, <1>2, ShapeCreated, CollectorAssumption DEF CreateHeap
  <2> QED
    BY <1>1, <1>2, <2>1, ResumeRoom DEF CreateHeap
<1>3. CASE StartCollection
  <2>1. HeapShape'
    BY <1>1, <1>3 DEF StartCollection, HeapShape
  <2>2. gen' \in Nat /\ pc' # "mutator" /\ UNCHANGED fi /\ pc = "garbage_collect"
    BY <1>3 DEF StartCollection
  <2> QED
    BY <2>1, <2>2, StillReturning
<1>4. CASE CreateNextSpace
  <2>1. Len(mem[gen]) \in Nat
    BY <1>1, <1>4, SpacesFacts, IsSeqLen DEF CreateNextSpace, HeapShape
  <2>2. RATIO * Len(mem[gen]) \in Nat
    BY <2>1, CollectorAssumption
  <2>3. HeapShape'
    BY <2>2, <1>1, <1>4, ShapeCreated DEF CreateNextSpace
  <2>4. gen' \in Nat /\ pc' # "mutator" /\ UNCHANGED fi /\ pc = "collect"
    BY <1>1, <1>4 DEF CreateNextSpace
  <2> QED
    BY <2>3, <2>4, StillReturning
<1>5. CASE CollectGeneration
  <2>1. HeapShape'
    BY <1>1, <1>5 DEF CollectGeneration, HeapShape
  <2>2. gen' \in Nat /\ pc' # "mutator" /\ UNCHANGED fi /\ pc = "collect"
    BY <1>1, <1>5 DEF CollectGeneration, StartGeneration
  <2> QED
    BY <2>1, <2>2, StillReturning
<1>6. CASE GenerationCollected
  <2>1. HeapShape
    BY <1>1, <1>6 DEF GenerationCollected, GenerationCopied
  <2>2. Len(mem[copy.from]) \in Nat \/ copy.from \notin Gens
    BY <2>1, IsSeqLen DEF HeapShape
  <2>3. HeapShape'
    <3>1. mem' = [mem EXCEPT ![copy.from] = EmptySpace(Len(mem[copy.from]))]
      BY <1>6 DEF GenerationCollected, EmptyFrom
    <3> QED
      BY <2>1, <2>2, <3>1, ShapeCreated
  <2>4. CASE Resume /\ UNCHANGED gen
    <3>1. UNCHANGED fi /\ pc = "copying" /\ copy.caller = "garbage_collect"
      BY <1>6 DEF GenerationCollected, GenerationCopied
    <3> QED
      BY <1>1, <2>3, <2>4, <3>1, ResumeRoom
  <2>5. CASE gen' = gen + 1 /\ pc' = "collect"
    <3>1. UNCHANGED fi /\ pc = "copying" /\ copy.caller = "garbage_collect"
      BY <1>6 DEF GenerationCollected, GenerationCopied
    <3> QED
      BY <1>1, <2>3, <2>5, <3>1, StillReturning
  <2> QED
    BY <1>6, <2>4, <2>5 DEF GenerationCollected
<1>7. CASE RanOutOfGenerations
  BY <1>1, <1>7, GoneForGood DEF RanOutOfGenerations, Stop
<1> QED
  BY <1>2, <1>3, <1>4, <1>5, <1>6, <1>7 DEF GarbageCollect

LEMMA CopyRoom == ASSUME Room, DoGeneration, UNCHANGED code PROVE Room'
<1>1. UNCHANGED <<pc, copy, fi, gen>> /\ pc = "copying"
  BY DEF DoGeneration, ForwardOther, ForwardAgain, ForwardCopy, ScanObject, Copying
<1>2. CASE copy.caller = "garbage_collect"
  <2>1. Returning /\ HeapShape
    BY <1>1, <1>2 DEF Room, Returning
  <2>2. HeapShape'
    BY <2>1, ForwardShape
  <2> QED
    BY <2>1, <2>2, <1>1, StillReturning DEF Room
<1>3. CASE copy.caller # "garbage_collect"
  BY <1>1, <1>3, GoneForGood DEF Room, Returning
<1> QED
  BY <1>2, <1>3

LEMMA ExportRoom ==
    ASSUME Room, ExportAnswer \/ Export \/ MallocFails, UNCHANGED code
    PROVE  Room'
<1>1. gen \in Nat /\ fi.num_allocs \in Nat
  BY DEF Room
<1>2. CASE ExportAnswer
  <2>1. CASE ExportUnboxed
    BY <1>1, <2>1, GoneForGood DEF ExportUnboxed, Returning
  <2>2. CASE ExportStart([num_allocs |-> fi.num_allocs, roots |-> FrameRoots(fp, frames)])
    BY <1>1, <2>2, GoneForGood DEF ExportStart, Returning
  <2> QED
    BY <1>2, <2>1, <2>2 DEF ExportAnswer
<1>3. CASE Export
  <2>1. /\ gen' \in Nat /\ fi' = fi
        /\ \/ pc' \in {"collect_all", "export", "compact", "exported", "assert_failed"}
           \/ pc' = "copying" /\ copy'.caller \in {"garbage_collect_all", "export", "compact"}
    <3>1. CASE CollectAllGeneration
      BY <1>1, <3>1 DEF CollectAllGeneration, StartGeneration
    <3>2. CASE GenerationCollectedAll
      BY <1>1, <3>2 DEF GenerationCollectedAll
    <3>3. CASE CollectAllReturn
      BY <1>1, <3>3 DEF CollectAllReturn
    <3>4. CASE ExportCopy
      BY <1>1, <3>4 DEF ExportCopy, CopyOut, StartGeneration
    <3>5. CASE ExportCopied
      BY <1>1, <3>5 DEF ExportCopied
    <3>6. CASE ExportCompact
      BY <1>1, <3>6 DEF ExportCompact, CopyOut, StartGeneration
    <3>7. CASE ExportReturn
      BY <1>1, <3>7 DEF ExportReturn
    <3> QED
      BY <1>3, <3>1, <3>2, <3>3, <3>4, <3>5, <3>6, <3>7 DEF Export
  <2> QED
    BY <1>1, <2>1, GoneForGood DEF Returning
<1>4. CASE MallocFails
  BY <1>1, <1>4, GoneForGood DEF MallocFails, Stop, Returning
<1> QED
  BY <1>2, <1>3, <1>4

-----------------------------------------------------------------------------
(* The mutator stays within the room. *)

LEMMA RequestsType == \A n \in Requests : n \in Nat
  BY BoundsAssumption DEF Requests

LEMMA AtRest ==
    ASSUME Room, pc = "mutator"
    PROVE  /\ gen \in Nat /\ fi.num_allocs \in Nat /\ HeapShape /\ Settled
           /\ limit \in Nat /\ Len(mem[0]) \in Nat
  BY SpacesFacts, IsSeqLen DEF Room, Returning, HeapShape, Settled

\* The newest activation goes on.
GoesOn(a) ==
    /\ IsActivation(a)
    /\ stack' = [stack EXCEPT ![cur] = a]
    /\ code' = "run"
    /\ UNCHANGED <<pc, gen, fi>>
    /\ HeapShape' /\ limit' = Len(mem'[0])
    /\ a.limit = limit' /\ alloc' \in Nat /\ a.alloc \in Nat /\ budget' \in Nat
    /\ alloc' <= a.alloc /\ a.alloc + budget' <= limit'

LEMMA RunRoom ==
    ASSUME FramesInv, Room, pc = "mutator", stack # <<>>, NEW a, GoesOn(a)
    PROVE  Room'
<1> USE DEF GoesOn
<1>1. top' = a
  BY Replaced DEF FramesInv, top, cur
<1>2. limit' \in Nat
  BY SpacesFacts, IsSeqLen DEF HeapShape
<1>3. alloc' <= limit'
  BY <1>2
<1>4. Settled'
  BY <1>1, <1>3 DEF Settled
<1>5. gen' \in Nat /\ fi'.num_allocs \in Nat /\ pc' = "mutator"
  BY DEF Room
<1> QED
  BY <1>4, <1>5 DEF Room

\* Between two functions.
LEMMA PassRoom ==
    ASSUME Room, pc = "mutator", UNCHANGED <<pc, gen, fi, mem, budget>>,
           code' \in {"enter", "returned", "halted"},
           limit' = limit, alloc' \in Nat, alloc' <= limit
    PROVE  Room'
<1>1. Settled' /\ HeapShape'
  BY AtRest DEF Settled, HeapShape
<1> QED
  BY <1>1 DEF Room

\* A function asks for n words that are not there.
LEMMA CallRoom ==
    ASSUME Room, pc = "mutator", NEW n \in Requests, NEW a, NEW off, NEW xs,
           NEW then \in {"entered", "collected"}, CallGC(n, a, off, xs, then),
           UNCHANGED <<mem, gen>>
    PROVE  Room'
<1>1. fi'.num_allocs = n /\ pc' = "garbage_collect" /\ code' = then /\ n \in Nat
  BY RequestsType DEF CallGC
<1>2. HeapShape' /\ gen' \in Nat
  BY AtRest DEF HeapShape
<1> QED
  BY <1>1, <1>2 DEF Room

\* What it asks for is there.
LEMMA RoomThere ==
    ASSUME Room, pc = "mutator", code \notin {"entered", "collected"},
           NEW n \in Requests, NEW a, a.alloc = alloc, a.limit = limit, ~ NeedsGC(n, a)
    PROVE  n \in Nat /\ alloc \in Nat /\ limit \in Nat /\ alloc + n <= limit
<1>1. n \in Nat /\ alloc \in Nat /\ limit \in Nat /\ alloc <= limit
  BY RequestsType, AtRest DEF Settled
<1> QED
  BY <1>1 DEF NeedsGC

LEMMA EnterRoom == ASSUME FramesInv, Room, Enter PROVE Room'
<1>1. /\ code = "enter" /\ pc = "mutator" /\ stack # <<>> /\ IsActivation(top)
      /\ UNCHANGED <<mem, alloc, limit, gen>>
  BY Nested, TopProperties DEF Enter, Ready, FramesInv, NoCollector
<1>2. PICK n \in Requests, used \in SUBSET top.live :
        LET a == Live(Reloaded(top), used)
            xs == Elements(used)
        IN  /\ stack' = [stack EXCEPT ![cur] = a]
            /\ IF NeedsGC(n, a)
               THEN CallGC(n, a, 0, xs, "entered")
               ELSE budget' = n /\ code' = "run" /\ UNCHANGED <<fi, pc>>
  BY DEF Enter
<1> DEFINE a == Live(Reloaded(top), used)
<1>3. IsActivation(a) /\ a.alloc = alloc /\ a.limit = limit
  BY <1>1, ReloadedProperties, LiveProperties DEF IsActivation
<1> HIDE DEF a
<1>4. CASE NeedsGC(n, a)
  BY <1>1, <1>2, <1>4, CallRoom DEF a
<1>5. CASE ~ NeedsGC(n, a)
  <2>1. n \in Nat /\ alloc \in Nat /\ alloc + n <= limit
    BY <1>1, <1>3, <1>5, RoomThere
  <2>2. HeapShape' /\ limit = Len(mem[0])
    BY <1>1, AtRest DEF HeapShape, Settled
  <2>3. /\ stack' = [stack EXCEPT ![cur] = a]
        /\ budget' = n /\ code' = "run" /\ UNCHANGED <<fi, pc>>
    BY <1>2, <1>5 DEF a
  <2>4. GoesOn(a)
    BY <1>1, <1>3, <2>1, <2>2, <2>3 DEF GoesOn
  <2> QED
    BY <1>1, <2>4, RunRoom
<1> QED
  BY <1>4, <1>5

LEMMA EnteredRoom == ASSUME FramesInv, Room, Entered PROVE Room'
<1>1. /\ code = "entered" /\ pc = "mutator" /\ stack # <<>> /\ IsActivation(top)
      /\ UNCHANGED <<mem, alloc, limit, gen, fi, pc, budget>> /\ code' = "run"
  BY Nested, TopProperties DEF Entered, Ready, FramesInv, NoCollector
<1>2. PICK values : stack' = [stack EXCEPT ![cur] = [Reloaded(top) EXCEPT !.vars = values]]
  BY DEF Entered
<1> DEFINE a == [Reloaded(top) EXCEPT !.vars = values]
<1>3. IsActivation(a) /\ a.alloc = alloc /\ a.limit = limit
  BY <1>1, ReloadedProperties, VarsProperties
<1>4. /\ HeapShape' /\ limit = Len(mem[0]) /\ limit \in Nat
      /\ alloc \in Nat /\ budget \in Nat /\ alloc + budget <= limit
  BY <1>1, AtRest DEF HeapShape, Settled
<1> HIDE DEF a
<1>5. stack' = [stack EXCEPT ![cur] = a]
  BY <1>2 DEF a
<1>6. GoesOn(a)
  BY <1>1, <1>3, <1>4, <1>5 DEF GoesOn
<1> QED
  BY <1>1, <1>6, RunRoom

\* What every operation of a body finds.
LEMMA Running ==
    ASSUME FramesInv, Room, Ready("run")
    PROVE  /\ pc = "mutator" /\ code = "run" /\ stack # <<>> /\ IsActivation(top)
           /\ HeapShape /\ limit = Len(mem[0]) /\ limit \in Nat
           /\ alloc \in Nat /\ budget \in Nat /\ top.limit = limit /\ top.alloc \in Nat
           /\ alloc <= top.alloc /\ top.alloc + budget <= limit
  BY Nested, TopProperties, AtRest DEF Ready, FramesInv, Settled

LEMMA DefineRoom ==
    ASSUME FramesInv, Room, Enum \/ Project
    PROVE  Room'
<1>1. /\ Ready("run") /\ UNCHANGED <<mem, alloc, limit, gen, fi, pc, code, budget>>
  BY DEF Enum, Project, NoCall, NoCollector
<1>2. PICK v, value, mean :
          /\ v \in Locals
          /\ stack' = [stack EXCEPT ![cur] = Defined(top, v, value, mean)]
  BY DEF Enum, Project, Operation
<1> DEFINE a == Defined(top, v, value, mean)
<1>3. IsActivation(a) /\ a.alloc = top.alloc /\ a.limit = top.limit
  BY <1>1, <1>2, Running, DefinedProperties
<1>4. HeapShape'
  BY <1>1, Running DEF HeapShape
<1> HIDE DEF a
<1>5. stack' = [stack EXCEPT ![cur] = a]
  BY <1>2 DEF a
<1>6. GoesOn(a)
  BY <1>1, <1>3, <1>4, <1>5, Running DEF GoesOn
<1> QED
  BY <1>1, <1>6, Running, RunRoom

LEMMA ConstructRoom == ASSUME FramesInv, Room, Construct PROVE Room'
<1>1. /\ Ready("run") /\ budget >= 3 /\ budget' = budget - 3
      /\ UNCHANGED <<alloc, limit, gen, fi, pc, code>>
  BY DEF Construct, NoCall, NoCollector
<1>2. PICK v, value, mean, new :
          /\ v \in Locals
          /\ stack' = [stack EXCEPT ![cur] = [Defined(top, v, value, mean) EXCEPT
                                                 !.alloc = @ + 3]]
          /\ mem' = [mem EXCEPT ![0] = [k \in DOMAIN @ |->
                 IF k \in top.alloc + 1 .. top.alloc + 3
                 THEN new[k - top.alloc] ELSE @[k]]]
  <2>1. PICK v \in Locals, x \in top.live, y \in top.live, t \in Ordinals :
        LET a == Defined(top, v, Ptr(0, top.alloc + 2),
                         Node(t, <<top.means[x], top.means[y]>>))
            new == <<Header(2, t), top.vars[x], top.vars[y]>>
        IN  /\ Operation([a EXCEPT !.alloc = @ + 3])
            /\ mem' = [mem EXCEPT ![0] = [k \in DOMAIN @ |->
                   IF k \in top.alloc + 1 .. top.alloc + 3
                   THEN new[k - top.alloc] ELSE @[k]]]
    BY DEF Construct
  <2> WITNESS v, Ptr(0, top.alloc + 2), Node(t, <<top.means[x], top.means[y]>>),
              <<Header(2, t), top.vars[x], top.vars[y]>>
  <2> QED
    BY <2>1 DEF Operation
<1> DEFINE d == Defined(top, v, value, mean)
           a == [d EXCEPT !.alloc = @ + 3]
           words == [k \in DOMAIN mem[0] |->
                 IF k \in top.alloc + 1 .. top.alloc + 3
                 THEN new[k - top.alloc] ELSE mem[0][k]]
<1>3. IsActivation(d) /\ d.alloc = top.alloc /\ d.limit = top.limit
  BY <1>1, <1>2, Running, DefinedProperties
<1> HIDE DEF d
<1>4. IsActivation(a) /\ a.alloc = top.alloc + 3 /\ a.limit = top.limit
  BY <1>3 DEF IsActivation, ActivationFields
<1>5. HeapShape' /\ Len(mem'[0]) = Len(mem[0])
  <2>1. HeapShape
    BY <1>1, Running
  <2>2. DOMAIN words = DOMAIN mem[0] /\ words = [k \in DOMAIN mem[0] |-> words[k]]
    OBVIOUS
  <2>3. mem' = [mem EXCEPT ![0] = words]
    BY <1>2
  <2> HIDE DEF words
  <2>4. SameSpaces(mem', mem)
    BY <2>1, <2>2, <2>3, SpaceRewritten DEF HeapShape
  <2> QED
    BY <2>1, <2>4, ShapeKept
<1> HIDE DEF a
<1>6. stack' = [stack EXCEPT ![cur] = a]
  BY <1>2 DEF a, d
<1>7. /\ a.alloc \in Nat /\ budget' \in Nat /\ alloc' <= a.alloc
      /\ a.alloc + budget' <= limit' /\ a.limit = limit' /\ limit' = Len(mem'[0])
      /\ alloc' \in Nat
  BY <1>1, <1>4, <1>5, Running
<1>8. GoesOn(a)
  BY <1>1, <1>4, <1>5, <1>6, <1>7, Running DEF GoesOn
<1> QED
  BY <1>1, <1>8, Running, RunRoom

LEMMA LeaveRoom ==
    ASSUME FramesInv, Room, LetApp \/ App \/ Halt
    PROVE  Room'
<1>1. /\ Ready("run") /\ UNCHANGED <<mem, gen, fi, pc, budget>>
      /\ alloc' = top.alloc /\ limit' = top.limit
      /\ code' \in {"enter", "returned", "halted"}
  BY DEF LetApp, App, Halt, NoCollector
<1>2. top.alloc \in Nat /\ top.alloc <= limit /\ top.limit = limit /\ pc = "mutator"
  BY <1>1, Running
<1> QED
  BY <1>1, <1>2, PassRoom

LEMMA AgainRoom == ASSUME FramesInv, Room, Again PROVE Room'
<1>1. /\ code = "halted" /\ pc = "mutator" /\ code' = "enter"
      /\ UNCHANGED <<mem, gen, fi, pc, budget, alloc, limit>>
  BY DEF Again, Ready, NoCollector
<1>2. alloc \in Nat /\ alloc <= limit
  BY <1>1, AtRest DEF Settled
<1> QED
  BY <1>1, <1>2, PassRoom

LEMMA ReturnedRoom == ASSUME FramesInv, Room, Returned PROVE Room'
<1>1. /\ code = "returned" /\ pc = "mutator" /\ stack # <<>> /\ IsActivation(top)
      /\ UNCHANGED <<mem, alloc, limit, gen>>
  BY Nested, TopProperties DEF Returned, Ready, FramesInv, NoCollector
<1> DEFINE b(fresh) == [Reloaded(top) EXCEPT !.vars[top.result] = args[Answer],
                                             !.means[top.result] = answer,
                                             !.fresh = fresh]
           xs(fresh) == IF fresh THEN <<top.result>> ELSE <<>>
<1>2. PICK n \in Requests, fresh \in BOOLEAN :
          IF NeedsGC(n, b(fresh))
          THEN CallGC(n, b(fresh), Len(top.held), xs(fresh), "collected")
          ELSE Discard(b(fresh)) /\ budget' = n /\ UNCHANGED <<fi, pc>>
  BY DEF Returned
<1>3. IsActivation(b(fresh)) /\ b(fresh).alloc = alloc /\ b(fresh).limit = limit
  <2>1. /\ IsActivation(Reloaded(top))
        /\ Reloaded(top).alloc = alloc /\ Reloaded(top).limit = limit
    BY <1>1, ReloadedProperties
  <2> QED
    BY <2>1 DEF IsActivation, ActivationFields
<1> HIDE DEF b, xs
<1>4. CASE NeedsGC(n, b(fresh))
  BY <1>1, <1>2, <1>4, CallRoom
<1>5. CASE ~ NeedsGC(n, b(fresh))
  <2>1. n \in Nat /\ alloc \in Nat /\ alloc + n <= limit
    BY <1>1, <1>3, <1>5, RoomThere
  <2>2. HeapShape' /\ limit = Len(mem[0])
    BY <1>1, AtRest DEF HeapShape, Settled
  <2>3. /\ stack' = [stack EXCEPT ![cur] = Discarded(b(fresh))]
        /\ budget' = n /\ code' = "run" /\ UNCHANGED <<fi, pc>>
    BY <1>2, <1>5 DEF Discard, Discarded
  <2>4. /\ IsActivation(Discarded(b(fresh)))
        /\ Discarded(b(fresh)).alloc = alloc /\ Discarded(b(fresh)).limit = limit
    BY <1>3, DiscardedProperties
  <2> DEFINE c == Discarded(b(fresh))
  <2> HIDE DEF c
  <2>5. GoesOn(c)
    BY <1>1, <2>1, <2>2, <2>3, <2>4 DEF GoesOn, c
  <2> QED
    BY <1>1, <2>5, RunRoom
<1> QED
  BY <1>4, <1>5

LEMMA CollectedRoom == ASSUME FramesInv, Room, Collected PROVE Room'
<1>1. /\ code = "collected" /\ pc = "mutator" /\ stack # <<>> /\ IsActivation(top)
      /\ UNCHANGED <<mem, alloc, limit, gen, fi, pc, budget>>
  BY Nested, TopProperties DEF Collected, Ready, FramesInv, NoCollector
<1>2. PICK values : Discard([Reloaded(top) EXCEPT !.vars = values])
  BY DEF Collected
<1> DEFINE b == [Reloaded(top) EXCEPT !.vars = values]
<1>3. IsActivation(b) /\ b.alloc = alloc /\ b.limit = limit
  <2> DEFINE a == Reloaded(top)
  <2>1. IsActivation(a) /\ a.alloc = alloc /\ a.limit = limit
    BY <1>1, ReloadedProperties
  <2> HIDE DEF a
  <2>2. \A w : /\ IsActivation([a EXCEPT !.vars = w])
               /\ [a EXCEPT !.vars = w].alloc = a.alloc
               /\ [a EXCEPT !.vars = w].limit = a.limit
    BY <2>1, VarsProperties
  <2>3. b = [a EXCEPT !.vars = values]
    BY DEF a
  <2> HIDE DEF b
  <2> QED
    BY <2>1, <2>2, <2>3
<1> HIDE DEF b
<1>4. /\ IsActivation(Discarded(b))
      /\ Discarded(b).alloc = alloc /\ Discarded(b).limit = limit
  BY <1>3, DiscardedProperties
<1>5. stack' = [stack EXCEPT ![cur] = Discarded(b)] /\ code' = "run"
  BY <1>2 DEF b, Discard, Discarded
<1>6. /\ HeapShape' /\ limit = Len(mem[0]) /\ limit \in Nat
      /\ alloc \in Nat /\ budget \in Nat /\ alloc + budget <= limit
  BY <1>1, AtRest DEF HeapShape, Settled
<1>7. GoesOn(Discarded(b))
  BY <1>1, <1>4, <1>5, <1>6 DEF GoesOn
<1> QED
  BY <1>1, <1>7, RunRoom

LEMMA InitRoom == Init => Room
<1> SUFFICES ASSUME Init PROVE Room
  OBVIOUS
<1>1. NURSERY_SIZE \in Nat
  BY CollectorAssumption
<1>2. mem = [s \in Spaces |-> IF s = 0 THEN EmptySpace(NURSERY_SIZE) ELSE <<>>]
  BY DEF Init
<1>3. HeapShape /\ Len(mem[0]) \in Nat
  <2>1. IsSeq(<<>>)
    BY SeqOfAny, EmptySeq
  <2>2. ASSUME NEW s \in Gens PROVE IsSeq(mem[s])
    BY <1>1, <1>2, <2>1, SpacesFacts, EmptySpaceSeq
  <2> QED
    BY <1>2, <2>2, SpacesFacts, IsSeqLen DEF HeapShape
<1>4. /\ limit = Len(mem[0]) /\ alloc = 0 /\ budget = 0 /\ code = "enter"
      /\ gen = 0 /\ fi.num_allocs = 0 /\ pc = "mutator"
  BY DEF Init
<1>5. Settled
  BY <1>3, <1>4 DEF Settled
<1> QED
  BY <1>3, <1>4, <1>5 DEF Room

LEMMA NextRoom == FramesInv /\ Room /\ [Next]_allVars => Room'
<1> SUFFICES ASSUME FramesInv, Room, [Next]_allVars PROVE Room'
  OBVIOUS
<1>1. CASE Mutator
  BY <1>1, EnterRoom, EnteredRoom, DefineRoom, ConstructRoom, LeaveRoom, AgainRoom,
     ReturnedRoom, CollectedRoom DEF Mutator
<1>2. CASE Collection
  BY <1>2, CollectionRoom DEF Collection, stackVars
<1>3. CASE Copy
  BY <1>3, CopyRoom DEF Copy, stackVars
<1>4. CASE ExportAnswer \/ ExportRest
  BY <1>4, ExportRoom DEF ExportAnswer, ExportRest, stackVars
<1>5. CASE UNCHANGED allVars
  BY <1>5 DEF allVars, vars, stackVars, Room, Returning, HeapShape, Settled, top, cur
<1> QED
  BY <1>1, <1>2, <1>3, <1>4, <1>5 DEF Next

\* The inductive invariant of the shadow stack: how its frames are linked, and
\* where alloc and limit stand on the way into and out of the collector.
THEOREM StackInvariance == Spec => []StackIInv
<1>1. Init => StackIInv
  BY InitFrames, InitRoom DEF StackIInv
<1>2. StackIInv /\ [Next]_allVars => StackIInv'
  BY NextFrames, NextRoom DEF StackIInv
<1> QED
  BY <1>1, <1>2, PTL DEF Spec

\* After every call, with or without a collection, and in every function it may
\* have called, a body finds the words it was promised above its own alloc.
THEOREM BodyAlwaysHasRoom == Spec => []BodyHasRoom
<1>1. StackIInv => BodyHasRoom
  BY Running DEF BodyHasRoom, StackIInv
<1> QED
  BY <1>1, StackInvariance, PTL

-----------------------------------------------------------------------------
(* What a word of memory stands for. *)

\* The recursive definition of TreeOf, as an equation.
ReadTree(f, v, n) ==
    IF ~ IsPtr(v) THEN Leaf(v[2])
    ELSE IF \/ n = 0
            \/ IndexOf(v) - 1 \notin DOMAIN mem[SpaceOf(v)]
            \/ ~ IsHeader(Hd_val(mem, v))
            \/ IndexOf(v) + Wosize(mem, v) - 1 > Len(mem[SpaceOf(v)])
    THEN <<"dangling">>
    ELSE Node(Tag_hd(Hd_val(mem, v)),
              [i \in 1 .. Wosize(mem, v) |->
                  IF Field(mem, v, i - 1) \notin Values THEN <<"dangling">>
                  ELSE f[n - 1][Field(mem, v, i - 1)]])

ReadStep(f) == [n \in Nat |-> [v \in Values |-> ReadTree(f, v, n)]]

LEMMA ReadStepIs == ASSUME NEW f PROVE \A v \in Values, n \in Nat : ReadStep(f)[n][v] = ReadTree(f, v, n)
  BY DEF ReadStep

\* f is TreeOf for what can be read in n steps.
ReadsTo(f, n) == \A v \in Values, k \in Nat : k <= n => f[k][v] = ReadTree(f, v, k)

LEMMA ReadSame ==
    ASSUME NEW f, NEW g, NEW n \in Nat, NEW v,
           n > 0 => \A w \in Values : f[n - 1][w] = g[n - 1][w]
    PROVE  ReadTree(f, v, n) = ReadTree(g, v, n)
<1> DEFINE Kids(h) == [i \in 1 .. Wosize(mem, v) |->
                  IF Field(mem, v, i - 1) \notin Values THEN <<"dangling">>
                  ELSE h[n - 1][Field(mem, v, i - 1)]]
<1>1. n > 0 => Kids(f) = Kids(g)
  OBVIOUS
<1> HIDE DEF Kids
<1>2. \A h : ReadTree(h, v, n) =
        (IF ~ IsPtr(v) THEN Leaf(v[2])
         ELSE IF \/ n = 0
                 \/ IndexOf(v) - 1 \notin DOMAIN mem[SpaceOf(v)]
                 \/ ~ IsHeader(Hd_val(mem, v))
                 \/ IndexOf(v) + Wosize(mem, v) - 1 > Len(mem[SpaceOf(v)])
         THEN <<"dangling">>
         ELSE Node(Tag_hd(Hd_val(mem, v)), Kids(h)))
  BY DEF ReadTree, Kids
<1> QED
  BY <1>1, <1>2

LEMMA ReadsSame ==
    ASSUME NEW f, NEW g, NEW n \in Nat, ReadsTo(f, n), ReadsTo(g, n)
    PROVE  \A v \in Values, k \in Nat : k <= n => f[k][v] = g[k][v]
<1> DEFINE T == {k \in Nat : k <= n => \A v \in Values : f[k][v] = g[k][v]}
<1>1. ASSUME NEW k \in Nat, k <= n, k > 0 => \A w \in Values : f[k - 1][w] = g[k - 1][w]
      PROVE  \A v \in Values : f[k][v] = g[k][v]
  BY <1>1, ReadSame DEF ReadsTo
<1>2. 0 \in T
  BY <1>1
<1>3. ASSUME NEW k \in Nat, k \in T PROVE k + 1 \in T
  <2>1. PICK m : m = k + 1 /\ m \in Nat /\ m - 1 = k
    OBVIOUS
  <2>2. m <= n => \A v \in Values : f[m][v] = g[m][v]
    BY <1>1, <1>3, <2>1
  <2> QED
    BY <2>1, <2>2
<1>4. \A k \in Nat : k \in T
  <2> HIDE DEF T
  <2> QED
    BY <1>2, <1>3, SetInduction
<1> QED
  BY <1>4

LEMMA ReadsExist == \A n \in Nat : \E f : ReadsTo(f, n)
<1> DEFINE T == {n \in Nat : \E f : ReadsTo(f, n)}
<1>1. ASSUME NEW n \in Nat, NEW f, n > 0 => ReadsTo(f, n - 1)
      PROVE  ReadsTo(ReadStep(f), n)
  <2>1. PICK g : g = ReadStep(f)
    OBVIOUS
  <2>2. \A v \in Values, k \in Nat : g[k][v] = ReadTree(f, v, k)
    BY <2>1, ReadStepIs
  <2>3. ASSUME NEW v \in Values, NEW k \in Nat, k <= n PROVE g[k][v] = ReadTree(g, v, k)
    <3>1. ASSUME k > 0, NEW w \in Values PROVE f[k - 1][w] = g[k - 1][w]
      <4>1. PICK m : m = k - 1 /\ m \in Nat /\ m <= n - 1 /\ n > 0
        BY <2>3, <3>1
      <4>2. f[m][w] = ReadTree(f, w, m)
        BY <1>1, <4>1 DEF ReadsTo
      <4> QED
        BY <2>2, <4>1, <4>2
    <3>2. ReadTree(f, v, k) = ReadTree(g, v, k)
      BY <3>1, ReadSame
    <3> QED
      BY <2>2, <3>2
  <2> QED
    BY <2>1, <2>3 DEF ReadsTo
<1>2. 0 \in T
  <2>1. ReadsTo(ReadStep(<<>>), 0)
    BY <1>1
  <2> QED
    BY <2>1
<1>3. ASSUME NEW n \in Nat, n \in T PROVE n + 1 \in T
  <2>1. PICK f : ReadsTo(f, n)
    BY <1>3
  <2>2. PICK m : m = n + 1 /\ m \in Nat /\ m - 1 = n
    OBVIOUS
  <2>3. ReadsTo(ReadStep(f), m)
    BY <1>1, <2>1, <2>2
  <2> QED
    BY <2>2, <2>3
<1>4. \A n \in Nat : n \in T
  <2> HIDE DEF T
  <2> QED
    BY <1>2, <1>3, SetInduction
<1> QED
  BY <1>4

LEMMA TreeOfEquation ==
    \A v \in Values, n \in Nat : TreeOf[n][v] = ReadTree(TreeOf, v, n)
<1> DEFINE best == [n \in Nat |-> CHOOSE f : ReadsTo(f, n)]
           all  == [n \in Nat |-> [v \in Values |-> best[n][n][v]]]
<1>1. \A n \in Nat : ReadsTo(best[n], n)
  BY ReadsExist
<1>2. \A v \in Values, n \in Nat : all[n][v] = best[n][n][v]
  OBVIOUS
<1> HIDE DEF best
<1>3. all = ReadStep(all)
  <2>1. ASSUME NEW v \in Values, NEW n \in Nat PROVE all[n][v] = ReadTree(all, v, n)
    <3>1. ASSUME n > 0, NEW w \in Values PROVE best[n][n - 1][w] = all[n - 1][w]
      <4>1. PICK m : m = n - 1 /\ m \in Nat /\ m <= n
        BY <3>1
      <4>2. ReadsTo(best[n], m)
        BY <1>1, <4>1 DEF ReadsTo
      <4>3. best[n][m][w] = best[m][m][w]
        BY <1>1, <4>1, <4>2, ReadsSame
      <4> QED
        BY <1>2, <4>1, <4>3
    <3> HIDE DEF all
    <3>2. ReadTree(best[n], v, n) = ReadTree(all, v, n)
      BY <3>1, ReadSame
    <3>3. best[n][n][v] = ReadTree(best[n], v, n)
      BY <1>1 DEF ReadsTo
    <3> QED
      BY <1>2, <3>2, <3>3
  <2> QED
    BY <2>1 DEF ReadStep
<1> HIDE DEF all
<1>4. TreeOf = CHOOSE f : f = ReadStep(f)
  BY DEF TreeOf, ReadStep, ReadTree
<1>5. TreeOf = ReadStep(TreeOf)
  BY <1>3, <1>4
<1> QED
  BY <1>5, ReadStepIs

\* fact holds what objects of two fields stand for, and how high these trees are.
WordMeans(fact, w, tree, n) ==
    \/ w \in DOMAIN fact /\ fact[w].tree = tree /\ fact[w].level < n
    \/ \E k \in Nat : w = Long(k) /\ tree = Leaf(k)

PairMeans(fact, v) ==
    \E t, l, r :
        /\ IsPtr(v) /\ v \in Pointers /\ IndexOf(v) - 1 \in DOMAIN mem[SpaceOf(v)]
        /\ IndexOf(v) + 1 <= Len(mem[SpaceOf(v)])
        /\ Hd_val(mem, v) = Header(2, t) /\ fact[v].tree = Node(t, <<l, r>>)
        /\ WordMeans(fact, Field(mem, v, 0), l, fact[v].level)
        /\ WordMeans(fact, Field(mem, v, 1), r, fact[v].level)

Meanings(fact) == \A v \in DOMAIN fact : fact[v].level \in Nat /\ PairMeans(fact, v)

LEMMA MeansValue ==
    ASSUME NEW fact, Meanings(fact), NEW w, NEW tree, NEW n, WordMeans(fact, w, tree, n)
    PROVE  w \in Values
<1>1. CASE w \in DOMAIN fact
  <2>1. w \in Pointers
    BY <1>1 DEF Meanings, PairMeans
  <2> QED
    BY <2>1 DEF Values
<1>2. CASE w \notin DOMAIN fact
  BY <1>2 DEF WordMeans, Long, Values
<1> QED
  BY <1>1, <1>2

LEMMA ReadsMeaning ==
    ASSUME NEW fact, Meanings(fact)
    PROVE  \A n \in Nat : \A w, tree : \A fuel \in Nat :
               WordMeans(fact, w, tree, n) /\ n <= fuel => TreeOf[fuel][w] = tree
<1> DEFINE T == {n \in Nat : \A w, tree : \A fuel \in Nat :
                    WordMeans(fact, w, tree, n) /\ n <= fuel => TreeOf[fuel][w] = tree}
<1>1. ASSUME NEW k \in Nat, NEW fuel \in Nat PROVE TreeOf[fuel][Long(k)] = Leaf(k)
  <2>1. Long(k) \in Values /\ ~ IsPtr(Long(k)) /\ Long(k)[2] = k
    BY DEF Long, Values, IsPtr
  <2> QED
    BY <2>1, TreeOfEquation DEF ReadTree
<1>2. 0 \in T
  <2> SUFFICES ASSUME NEW w, NEW tree, NEW fuel \in Nat, WordMeans(fact, w, tree, 0)
               PROVE  TreeOf[fuel][w] = tree
    OBVIOUS
  <2> QED
    BY <1>1 DEF WordMeans, Meanings
<1>3. ASSUME NEW n \in Nat, n \in T PROVE n + 1 \in T
  <2> SUFFICES ASSUME NEW w, NEW tree, NEW fuel \in Nat, WordMeans(fact, w, tree, n + 1),
                      n + 1 <= fuel
               PROVE  TreeOf[fuel][w] = tree
    OBVIOUS
  <2>1. CASE \E k \in Nat : w = Long(k) /\ tree = Leaf(k)
    BY <1>1, <2>1
  <2>2. CASE ~ \E k \in Nat : w = Long(k) /\ tree = Leaf(k)
    <3>1. w \in DOMAIN fact /\ fact[w].tree = tree /\ fact[w].level < n + 1
      BY <2>2 DEF WordMeans
    <3>2. PICK t, l, r :
            /\ IsPtr(w) /\ w \in Pointers /\ IndexOf(w) - 1 \in DOMAIN mem[SpaceOf(w)]
            /\ IndexOf(w) + 1 <= Len(mem[SpaceOf(w)])
            /\ Hd_val(mem, w) = Header(2, t) /\ tree = Node(t, <<l, r>>)
            /\ WordMeans(fact, Field(mem, w, 0), l, fact[w].level)
            /\ WordMeans(fact, Field(mem, w, 1), r, fact[w].level)
      BY <3>1 DEF Meanings, PairMeans
    <3>3. fact[w].level \in Nat /\ fact[w].level <= n
      BY <3>1 DEF Meanings
    <3>4. WordMeans(fact, Field(mem, w, 0), l, n) /\ WordMeans(fact, Field(mem, w, 1), r, n)
      BY <3>2, <3>3 DEF WordMeans, Meanings
    <3>5. PICK m : m = fuel - 1 /\ m \in Nat /\ n <= m /\ fuel # 0
      OBVIOUS
    <3>6. TreeOf[m][Field(mem, w, 0)] = l /\ TreeOf[m][Field(mem, w, 1)] = r
      BY <1>3, <3>4, <3>5
    <3>7. Field(mem, w, 0) \in Values /\ Field(mem, w, 1) \in Values /\ w \in Values
      BY <3>2, <3>4, MeansValue DEF Values
    <3>8. IsHeader(Hd_val(mem, w)) /\ Wosize(mem, w) = 2 /\ Tag_hd(Hd_val(mem, w)) = t
      BY <3>2 DEF Header, IsHeader, Wosize, Wosize_hd, Tag_hd
    <3>9. [i \in 1 .. 2 |-> IF Field(mem, w, i - 1) \notin Values THEN <<"dangling">>
                            ELSE TreeOf[m][Field(mem, w, i - 1)]] = <<l, r>>
      <4>1. ASSUME NEW i \in 1 .. 2
            PROVE  (IF Field(mem, w, i - 1) \notin Values THEN <<"dangling">>
                    ELSE TreeOf[m][Field(mem, w, i - 1)]) = <<l, r>>[i]
        <5>1. CASE i = 1
          BY <3>6, <3>7, <5>1
        <5>2. CASE i = 2
          BY <3>6, <3>7, <5>2
        <5> QED
          BY <5>1, <5>2
      <4>2. <<l, r>> = [i \in 1 .. 2 |-> <<l, r>>[i]]
        OBVIOUS
      <4> QED
        BY <4>1, <4>2
    <3>10. ~ (IndexOf(w) + 2 - 1 > Len(mem[SpaceOf(w)]))
      <4>1. IndexOf(w) \in Nat
        BY <3>2 DEF Pointers, IndexOf
      <4> QED
        BY <3>2, <4>1
    <3>11. ReadTree(TreeOf, w, fuel) = Node(t, <<l, r>>)
      BY <3>2, <3>5, <3>8, <3>9, <3>10 DEF ReadTree
    <3> QED
      BY <3>2, <3>7, <3>11, TreeOfEquation
  <2> QED
    BY <2>1, <2>2
<1>4. \A n \in Nat : n \in T
  <2> HIDE DEF T
  <2> QED
    BY <1>2, <1>3, SetInduction
<1> QED
  BY <1>4

-----------------------------------------------------------------------------
(* The slots of frames. *)

\* xs lists the variables in S, each once.
Listing(xs, S) ==
    /\ xs \in Seq(Locals)
    /\ \A i \in DOMAIN xs : xs[i] \in S
    /\ \A v \in S : \E i \in DOMAIN xs : xs[i] = v
    /\ \A i, j \in DOMAIN xs : xs[i] = xs[j] => i = j

Width == Len(LocalNames)

LEMMA WidthType == Width \in Nat /\ Width >= 2
  BY NamesAssumption, LenProperties DEF Width

LEMMA LocalsFinite == IsFiniteSet(Locals) /\ Cardinality(Locals) \in Nat /\ Cardinality(Locals) <= Width
<1>1. DOMAIN LocalNames = 1 .. Width /\ Width \in Nat
  BY NamesAssumption, LenProperties DEF Width
<1>2. LocalNames \in Surjection(1 .. Width, Locals)
  BY <1>1, NamesAssumption DEF Surjection, Locals
<1> QED
  BY <1>1, <1>2, FS_NatSurjection, FS_SurjCardinalityBound, FS_CardinalityType
  DEF ExistsSurjection

LEMMA ElementsList ==
    ASSUME NEW S \in SUBSET Locals
    PROVE  /\ Listing(Elements(S), S) /\ Len(Elements(S)) \in Nat /\ Len(Elements(S)) <= Width
           /\ S # Locals => Len(Elements(S)) < Width
<1>1. IsFiniteSet(S) /\ Cardinality(S) \in Nat /\ Cardinality(S) <= Width
      /\ (S # Locals => Cardinality(S) < Width)
  BY LocalsFinite, WidthType, FS_Subset, FS_CardinalityType
<1>2. ExistsBijection(1 .. Cardinality(S), S)
  BY <1>1, FS_CardinalityType
<1>3. PICK g \in Bijection(1 .. Cardinality(S), S) : TRUE
  BY <1>2 DEF ExistsBijection
<1>4. g \in [1 .. Cardinality(S) -> S] /\ IsInjective(g)
  BY <1>3 DEF Bijection, Injection
<1>5. \E f \in [1 .. Cardinality(S) -> S] : IsInjective(f)
  BY <1>4
<1>6. Elements(S) \in [1 .. Cardinality(S) -> S] /\ IsInjective(Elements(S))
  BY <1>5 DEF Elements, SetToSeq
<1>7. Elements(S) \in Seq(Locals) /\ Len(Elements(S)) = Cardinality(S)
  BY <1>1, <1>6, ElementsType, LenProperties
<1>8. \A v \in S : \E i \in DOMAIN Elements(S) : Elements(S)[i] = v
  <2>1. Elements(S) \in Injection(1 .. Cardinality(S), S)
    BY <1>6 DEF Injection
  <2>2. Elements(S) \in Surjection(1 .. Cardinality(S), S)
    BY <2>1, <1>1, FS_Interval, FS_Injection
  <2> QED
    BY <2>2 DEF Surjection
<1> QED
  BY <1>1, <1>6, <1>7, <1>8 DEF Listing, IsInjective

RootNumbers == 0 .. Width - 1

LEMMA RootsApart ==
    /\ Answer \in Slots
    /\ \A d \in Depths, i \in RootNumbers :
           /\ Root(d, i) \in Slots /\ Root(d, i) \in Nat /\ Root(d, i) # Answer
           /\ \A e \in Depths, j \in RootNumbers : Root(e, j) = Root(d, i) => e = d /\ j = i
<1>1. CALLS \in Nat /\ Width \in Nat /\ Width >= 2
  BY WidthType, BoundsAssumption
<1>2. ASSUME NEW d \in Depths, NEW i \in RootNumbers
      PROVE  /\ (d - 1) * Width \in Nat /\ Root(d, i) = 2 + (d - 1) * Width + i
             /\ (d - 1) * Width + Width = d * Width /\ d \in Nat /\ i \in Nat /\ i < Width
  BY <1>1, <1>2 DEF Depths, RootNumbers, Root, Width
<1>3. ASSUME NEW d \in Depths, NEW e \in Nat, d <= e PROVE d * Width <= e * Width
  <2>1. e = d + (e - d) /\ e - d \in Nat /\ d \in Nat
    BY <1>3 DEF Depths
  <2>2. (d + (e - d)) * Width = d * Width + (e - d) * Width /\ (e - d) * Width \in Nat
    BY <1>1, <2>1
  <2> QED
    BY <1>1, <2>1, <2>2
<1>4. ASSUME NEW d \in Depths, NEW i \in RootNumbers, NEW e \in Depths, NEW j \in RootNumbers, d < e
      PROVE  Root(d, i) < Root(e, j)
  <2>1. e - 1 \in Nat /\ d <= e - 1
    BY <1>4 DEF Depths
  <2>2. d * Width <= (e - 1) * Width
    BY <1>3, <2>1
  <2>3. d * Width \in Nat /\ (e - 1) * Width \in Nat
    BY <1>1, <1>2 DEF Depths
  <2> QED
    BY <1>1, <1>2, <2>2, <2>3
<1>5. ASSUME NEW d \in Depths, NEW i \in RootNumbers
      PROVE  Root(d, i) \in Nat /\ Root(d, i) >= 2 /\ Root(d, i) <= 1 + CALLS * Width
  <2>1. d * Width <= CALLS * Width /\ CALLS * Width \in Nat /\ d * Width \in Nat
    BY <1>1, <1>3 DEF Depths
  <2> QED
    BY <1>1, <1>2, <2>1
<1>6. Slots = 1 .. 1 + CALLS * Width /\ CALLS * Width \in Nat
  BY <1>1 DEF Slots, Width
<1>7. ASSUME NEW d \in Depths, NEW i \in RootNumbers, NEW e \in Depths, NEW j \in RootNumbers,
             Root(e, j) = Root(d, i)
      PROVE  e = d /\ j = i
  <2>1. d = e
    BY <1>4, <1>5, <1>7 DEF Depths
  <2> QED
    BY <1>2, <1>7, <2>1
<1> QED
  BY <1>5, <1>6, <1>7 DEF Answer

LEMMA Regrouped ==
    ASSUME NEW b \in Nat, NEW off \in Nat
    PROVE  \E s \in Nat : \A k \in Int : off + k \in Int /\ 2 + b + (off + k) = s + k
<1> WITNESS off + 2 + b \in Nat
<1> QED
  OBVIOUS

LEMMA Span ==
    ASSUME NEW r \in Nat, NEW len \in Nat
    PROVE  /\ \A k \in Nat : k < len => r + k \in r .. r + len - 1 /\ (r + k) - r + 1 = k + 1
           /\ \A c \in r .. r + len - 1 : \E k \in Nat : k < len /\ c = r + k
<1>1. ASSUME NEW c \in r .. r + len - 1 PROVE \E k \in Nat : k < len /\ c = r + k
  <2> WITNESS c - r \in Nat
  <2> QED
    OBVIOUS
<1> QED
  BY <1>1

\* Roots are pushed to one frame, and nothing else changes.
PushedTo(new, d, a, off, xs) ==
    /\ DOMAIN new = Slots /\ new[Answer] = args[Answer]
    /\ \A j \in DOMAIN xs : new[Root(d, off + j - 1)] = a.vars[xs[j]]
    /\ \A e \in Depths, i \in RootNumbers :
           e # d \/ i < off \/ i >= off + Len(xs) => new[Root(e, i)] = args[Root(e, i)]
    /\ \A c \in Slots : new[c] = args[c] \/ \E j \in DOMAIN xs : new[c] = a.vars[xs[j]]

LEMMA PushedAt ==
    ASSUME DOMAIN args = Slots, NEW d \in Depths, NEW a, NEW off \in Nat,
           NEW xs \in Seq(Locals), off + Len(xs) <= Width
    PROVE  PushedTo(Pushed(d, a, off, xs), d, a, off, xs)
<1>0. PICK new : new = Pushed(d, a, off, xs)
  OBVIOUS
<1>1. PICK len : len = Len(xs) /\ len \in Nat /\ DOMAIN xs = 1 .. len /\ off + len <= Width
  BY LenProperties
<1>2. PICK r : r \in Nat /\ \A k \in Int : Root(d, off + k) = r + k
  <2>1. (d - 1) * Width \in Nat
    BY WidthType DEF Depths
  <2>2. PICK b : b \in Nat /\ \A k \in Int : Root(d, k) = 2 + b + k
    BY <2>1 DEF Root, Width
  <2>3. PICK s \in Nat : \A k \in Int : off + k \in Int /\ 2 + b + (off + k) = s + k
    BY <2>2, Regrouped
  <2>4. ASSUME NEW k \in Int PROVE Root(d, off + k) = s + k
    <3>1. PICK m : m = off + k /\ m \in Int /\ 2 + b + m = s + k
      BY <2>3
    <3> QED
      BY <2>2, <3>1
  <2> QED
    BY <2>4
<1>3. \A k \in Nat : k < len => off + k \in RootNumbers
  BY <1>1, WidthType DEF RootNumbers
<1>4. new = [c \in Slots |-> IF c \in r .. r + len - 1 THEN a.vars[xs[c - r + 1]] ELSE args[c]]
  <2>1. off + 0 = off /\ off + Len(xs) - 1 = off + (len - 1) /\ len - 1 \in Int
    BY <1>1
  <2>2. Root(d, off) = r /\ Root(d, off + Len(xs) - 1) = r + len - 1
    <3>1. Root(d, off + (len - 1)) = r + (len - 1)
      BY <1>2, <2>1
    <3>2. 0 \in Int /\ Root(d, off + 0) = r + 0
      BY <1>2
    <3> QED
      BY <1>1, <1>2, <2>1, <3>1, <3>2
  <2> QED
    BY <1>0, <2>2 DEF Pushed
<1>5. \A c \in r .. r + len - 1 : \E k \in Nat : k < len /\ c = r + k
  BY <1>1, <1>2, Span
<1>6. ASSUME NEW k \in Nat, k < len PROVE new[Root(d, off + k)] = a.vars[xs[k + 1]]
  <2>1. r + k \in r .. r + len - 1 /\ (r + k) - r + 1 = k + 1
    BY <1>1, <1>2, <1>6, Span
  <2>2. Root(d, off + k) = r + k /\ Root(d, off + k) \in Slots
    BY <1>2, <1>3, <1>6, RootsApart
  <2> QED
    BY <1>4, <2>1, <2>2
<1>7. ASSUME NEW j \in DOMAIN xs PROVE new[Root(d, off + j - 1)] = a.vars[xs[j]]
  <2>1. PICK k : k = j - 1 /\ k \in Nat /\ k < len /\ k + 1 = j /\ off + j - 1 = off + k
    BY <1>1
  <2> QED
    BY <1>6, <2>1
<1>8. ASSUME NEW c \in r .. r + len - 1
      PROVE  \E k \in RootNumbers : c = Root(d, k) /\ k >= off /\ k < off + len
  <2>1. PICK k \in Nat : k < len /\ c = r + k
    BY <1>5
  <2>2. PICK m : m = off + k /\ m \in RootNumbers /\ m >= off /\ m < off + len
    BY <1>1, <1>3, <2>1
  <2> QED
    BY <1>2, <2>1, <2>2
<1>9. ASSUME NEW e \in Depths, NEW i \in RootNumbers, e # d \/ i < off \/ i >= off + Len(xs)
      PROVE  new[Root(e, i)] = args[Root(e, i)]
  <2>1. ASSUME Root(e, i) \in r .. r + len - 1 PROVE FALSE
    <3>1. PICK k \in RootNumbers : Root(e, i) = Root(d, k) /\ k >= off /\ k < off + len
      BY <1>8, <2>1
    <3>2. e = d /\ i = k
      BY <3>1, RootsApart
    <3>3. i \in Nat /\ i >= off /\ i < off + Len(xs)
      BY <1>1, <3>1, <3>2 DEF RootNumbers
    <3> QED
      BY <1>1, <1>9, <3>2, <3>3
  <2>2. Root(e, i) \in Slots
    BY RootsApart
  <2> QED
    BY <1>4, <2>1, <2>2
<1>10. new[Answer] = args[Answer]
  <2>1. Answer \in Slots /\ Answer \notin r .. r + len - 1
    BY <1>8, RootsApart
  <2> QED
    BY <1>4, <2>1
<1>11. ASSUME NEW c \in Slots PROVE new[c] = args[c] \/ \E j \in DOMAIN xs : new[c] = a.vars[xs[j]]
  <2>1. CASE c \in r .. r + len - 1
    <3>1. PICK k \in Nat : k < len /\ c = r + k
      BY <1>5, <2>1
    <3>2. PICK j : j = k + 1 /\ j \in DOMAIN xs /\ c - r + 1 = j
      BY <1>1, <1>2, <3>1
    <3> QED
      BY <1>4, <2>1, <3>2
  <2>2. CASE c \notin r .. r + len - 1
    BY <1>4, <2>2
  <2> QED
    BY <2>1, <2>2
<1>12. DOMAIN new = Slots
  BY <1>4
<1>13. PushedTo(new, d, a, off, xs)
  BY <1>7, <1>9, <1>10, <1>11, <1>12 DEF PushedTo
<1> QED
  BY <1>0, <1>13

\* What has been popped, and what has not.
PoppedTo(new, d, vs, off, xs, S) ==
    /\ DOMAIN new = DOMAIN vs
    /\ \A i \in DOMAIN xs : xs[i] \in DOMAIN vs => new[xs[i]] = args[Root(d, off + i - 1)]
    /\ \A v \in DOMAIN vs : v \notin S => new[v] = vs[v]

LEMMA PoppedAt ==
    ASSUME NEW d, NEW vs, NEW off, NEW xs, NEW S, Listing(xs, S)
    PROVE  PoppedTo(Popped(d, vs, off, xs), d, vs, off, xs, S)
<1>0. PICK new : new = Popped(d, vs, off, xs)
  OBVIOUS
<1>1. new = [v \in DOMAIN vs |->
        IF \E i \in DOMAIN xs : xs[i] = v
        THEN args[Root(d, off + (CHOOSE i \in DOMAIN xs : xs[i] = v) - 1)]
        ELSE vs[v]]
  BY <1>0 DEF Popped
<1>2. ASSUME NEW i \in DOMAIN xs, xs[i] \in DOMAIN vs
      PROVE  new[xs[i]] = args[Root(d, off + i - 1)]
  <2>1. PICK j : j = (CHOOSE k \in DOMAIN xs : xs[k] = xs[i]) /\ j \in DOMAIN xs /\ xs[j] = xs[i]
    OBVIOUS
  <2>2. j = i
    BY <2>1 DEF Listing
  <2> QED
    BY <1>1, <1>2, <2>1, <2>2
<1>3. ASSUME NEW v \in DOMAIN vs, v \notin S PROVE new[v] = vs[v]
  BY <1>1, <1>3 DEF Listing
<1> QED
  BY <1>0, <1>1, <1>2, <1>3 DEF PoppedTo

-----------------------------------------------------------------------------
(* What is held where. *)

Scope(a) == DOMAIN a.vars = Locals /\ DOMAIN a.means = Locals /\ a.fresh \in BOOLEAN

\* An activation that waits for a call holds what is live after it, but for the result.
Waiting(a) == Listing(a.held, a.live) /\ Len(a.held) < Width /\ a.result \notin a.live

Shaped ==
    /\ steps \in 0 .. STEPS
    /\ \A n \in 1 .. cur : Scope(stack[n])
    /\ \A n \in 1 .. cur :
           n < cur \/ code \in {"returned", "collected"} => Waiting(stack[n])
    /\ code \in {"enter", "entered", "run"} => top.held = <<>>

\* The slots of args with something the program still wants, and what that means.
KeptBelow(stk, n) ==
    {s : s \in UNION {{<<Root(m, i - 1), stk[m].means[stk[m].held[i]]>> :
                           i \in DOMAIN stk[m].held} : m \in 1 .. n}}

\* What activation a keeps at depth d besides what it holds, by where it is.
OwnOf(where, d, a, mean) ==
    IF where = "entered"
    THEN {<<Root(d, i - 1), a.means[Elements(a.live)[i]]>> : i \in DOMAIN Elements(a.live)}
    ELSE IF where \in {"returned", "halted"} THEN {<<Answer, mean>>}
    ELSE IF where = "collected" /\ a.fresh THEN {<<Root(d, Len(a.held)), a.means[a.result]>>}
    ELSE {}

Own == OwnOf(code, cur, top, answer)

Saved == KeptBelow(stack, cur) \cup Own

\* All that the program still wants, and what it means.
InVarsOf(where, a) == IF where \in {"enter", "run"} THEN a.live ELSE {}

InVars == InVarsOf(code, top)

Holds == {<<args[s[1]], s[2]>> : s \in Saved} \cup {<<top.vars[v], top.means[v]>> : v \in InVars}

LEMMA KeptBelowIs ==
    ASSUME NEW stk, NEW n
    PROVE  /\ \A s : s \in KeptBelow(stk, n) <=>
                  \E m \in 1 .. n : \E i \in DOMAIN stk[m].held :
                      s = <<Root(m, i - 1), stk[m].means[stk[m].held[i]]>>
  BY DEF KeptBelow

LEMMA Paired == \A x, y : <<x, y>>[1] = x /\ <<x, y>>[2] = y
  OBVIOUS

LEMMA KeptBelowHas ==
    ASSUME NEW stk, NEW n, NEW m \in 1 .. n, NEW i \in DOMAIN stk[m].held
    PROVE  \E s \in KeptBelow(stk, n) :
               s[1] = Root(m, i - 1) /\ s[2] = stk[m].means[stk[m].held[i]]
<1>1. PICK e : e = <<Root(m, i - 1), stk[m].means[stk[m].held[i]]>>
  OBVIOUS
<1>2. e[1] = Root(m, i - 1) /\ e[2] = stk[m].means[stk[m].held[i]]
  BY <1>1
<1>3. e \in KeptBelow(stk, n)
  BY <1>1, KeptBelowIs
<1> QED
  BY <1>2, <1>3

\* What the newest activation holds is kept.
LEMMA TopKept ==
    ASSUME cur \in 1 .. CALLS, NEW i \in DOMAIN top.held
    PROVE  \E s \in KeptBelow(stack, cur) :
               s[1] = Root(cur, i - 1) /\ s[2] = top.means[top.held[i]]
<1>1. PICK n : n = cur /\ n \in 1 .. n /\ top = stack[n]
  BY DEF top
<1>2. \E s \in KeptBelow(stack, n) :
          s[1] = Root(n, i - 1) /\ s[2] = stack[n].means[stack[n].held[i]]
  BY <1>1, KeptBelowHas
<1> QED
  BY <1>1, <1>2

LEMMA HoldsIs ==
    /\ \A c, mean : <<c, mean>> \in Saved => <<args[c], mean>> \in Holds
    /\ \A v \in InVars : <<top.vars[v], top.means[v]>> \in Holds
    /\ \A p \in Holds : \/ \E s \in Saved : p = <<args[s[1]], s[2]>>
                        \/ \E v \in InVars : p = <<top.vars[v], top.means[v]>>
<1>1. ASSUME NEW c, NEW mean, <<c, mean>> \in Saved PROVE <<args[c], mean>> \in Holds
  <2>1. PICK s : s = <<c, mean>> /\ s[1] = c /\ s[2] = mean /\ s \in Saved
    BY <1>1
  <2> QED
    BY <2>1 DEF Holds
<1> QED
  BY <1>1 DEF Holds

LEMMA KeptSlots ==
    ASSUME FramesInv, Shaped
    PROVE  /\ \A m \in 1 .. cur, i \in Nat \ {0} :
                  i \in DOMAIN stack[m].held => i - 1 \in RootNumbers /\ m \in Depths
           /\ \A s \in Saved : s[1] \in Slots
           /\ \A s \in KeptBelow(stack, cur) : s[1] # Answer
<1>1. cur \in Nat /\ cur <= CALLS /\ DOMAIN stack = 1 .. cur /\ CALLS \in Nat
      /\ \A n \in 1 .. cur : IsActivation(stack[n])
  BY IsSeqLen, BoundsAssumption DEF FramesInv, StackOK, cur
<1>2. ASSUME NEW m \in 1 .. cur, NEW i \in DOMAIN stack[m].held
      PROVE  i \in Nat \ {0} /\ i - 1 \in RootNumbers /\ m \in Depths
  <2>1. stack[m].held \in Seq(Locals)
    BY <1>1 DEF IsActivation
  <2>2. PICK len : len = Len(stack[m].held) /\ len \in Nat /\ DOMAIN stack[m].held = 1 .. len
    BY <2>1, LenProperties
  <2>3. len < Width
    <3>1. CASE m < cur \/ code \in {"returned", "collected"}
      BY <2>2, <3>1 DEF Shaped, Waiting
    <3>2. CASE ~ (m < cur \/ code \in {"returned", "collected"})
      <4>1. m = cur /\ code \in {"enter", "entered", "run"}
        <5>1. m = cur
          BY <1>1, <3>2
        <5>2. code # "halted"
          BY <1>1, <5>1, EmptySeq DEF FramesInv, StackOK, cur
        <5> QED
          BY <3>2, <5>1, <5>2 DEF FramesInv, StackOK
      <4>2. stack[m].held = <<>>
        BY <4>1 DEF Shaped, top
      <4> QED
        BY <2>2, <4>2, WidthType, EmptySeq
    <3> QED
      BY <3>1, <3>2
  <2> QED
    BY <1>1, <2>2, <2>3, WidthType DEF RootNumbers, Depths
<1>3. ASSUME NEW s \in KeptBelow(stack, cur) PROVE s[1] \in Slots /\ s[1] # Answer
  <2>1. PICK m \in 1 .. cur : \E i \in DOMAIN stack[m].held :
                      s = <<Root(m, i - 1), stack[m].means[stack[m].held[i]]>>
    BY KeptBelowIs
  <2>2. PICK i \in DOMAIN stack[m].held : s[1] = Root(m, i - 1)
    BY <2>1
  <2> QED
    BY <1>2, <2>2, RootsApart
<1>4. ASSUME NEW s \in Own PROVE s[1] \in Slots
  <2>1. CASE code \in {"returned", "halted"}
    BY <1>4, <2>1, RootsApart DEF Own, OwnOf
  <2>2. CASE code \in {"entered", "collected"}
    <3>1. stack # <<>> /\ cur \in Depths /\ IsActivation(top) /\ cur \in 1 .. cur
      BY <1>1, <2>2, TopProperties DEF FramesInv, StackOK, Depths
    <3>2. CASE code = "entered"
      <4>1. PICK i \in DOMAIN Elements(top.live) : s[1] = Root(cur, i - 1)
        BY <1>4, <3>2 DEF Own, OwnOf
      <4>2. /\ DOMAIN Elements(top.live) = 1 .. Len(Elements(top.live))
            /\ Len(Elements(top.live)) \in Nat /\ Len(Elements(top.live)) <= Width
        BY <3>1, ElementsList, LenProperties DEF IsActivation, Listing
      <4>3. i - 1 \in RootNumbers
        BY <4>1, <4>2, WidthType DEF RootNumbers
      <4> QED
        BY <3>1, <4>1, <4>3, RootsApart
    <3>3. CASE code = "collected"
      <4>1. s[1] = Root(cur, Len(top.held))
        BY <1>4, <3>3 DEF Own, OwnOf
      <4>2. Len(top.held) < Width /\ Len(top.held) \in Nat
        BY <3>1, <3>3, LenProperties DEF Shaped, Waiting, top, IsActivation
      <4>3. Len(top.held) \in RootNumbers
        BY <4>2, WidthType DEF RootNumbers
      <4> QED
        BY <3>1, <4>1, <4>3, RootsApart
    <3> QED
      BY <2>2, <3>2, <3>3
  <2> QED
    BY <1>4, <2>1, <2>2 DEF Own, OwnOf
<1> QED
  BY <1>2, <1>3, <1>4 DEF Saved

LEMMA KeptAt ==
    ASSUME FramesInv, Shaped, NEW m \in 1 .. cur, NEW i \in DOMAIN stack[m].held
    PROVE  m \in Depths /\ i - 1 \in RootNumbers /\ i \in Nat \ {0}
<1>1. stack[m].held \in Seq(Locals)
  BY IsSeqLen DEF FramesInv, StackOK, IsActivation, cur
<1>2. i \in Nat \ {0}
  BY <1>1, LenProperties
<1> QED
  BY <1>2, KeptSlots

-----------------------------------------------------------------------------
(* What the collector will find. *)

\* r lists n roots of frame d, and then what s lists.
StackedOn(r, s, d, n) ==
    /\ r \in Seq(Nat)
    /\ \A k \in DOMAIN r : \/ \E i \in 1 .. n : r[k] = Root(d, i - 1)
                           \/ \E j \in DOMAIN s : r[k] = s[j]
    /\ \A i \in 1 .. n : \E k \in DOMAIN r : r[k] = Root(d, i - 1)
    /\ \A j \in DOMAIN s : \E k \in DOMAIN r : r[k] = s[j]

LEMMA RootsBefore ==
    ASSUME NEW d \in Nat \ {0}, NEW n \in Nat, NEW s \in Seq(Nat), NEW r, r = RootsOf(d, n) \o s
    PROVE  StackedOn(r, s, d, n)
<1>1. PICK q : q = RootsOf(d, n) /\ q \in Seq(Nat)
  BY RootsOfType
<1>2. DOMAIN q = 1 .. n /\ Len(q) = n /\ \A i \in 1 .. n : q[i] = Root(d, i - 1)
  <2>1. DOMAIN q = 1 .. n /\ \A i \in 1 .. n : q[i] = Root(d, i - 1)
    BY <1>1 DEF RootsOf
  <2> QED
    BY <1>1, <2>1, LenProperties
<1>3. PICK len : len = Len(s) /\ len \in Nat /\ DOMAIN s = 1 .. len
  BY LenProperties
<1>4. r \in Seq(Nat) /\ Len(r) = n + len
  BY <1>1, <1>2, <1>3, ConcatProperties
<1>5. \A i \in 1 .. n : r[i] = q[i]
  BY <1>1, <1>2, <1>3, ConcatProperties
<1>6. \A j \in 1 .. len : r[n + j] = s[j]
  <2>1. IsSeq(q) /\ IsSeq(s)
    BY <1>1, SeqOfAny
  <2>2. \A j \in 1 .. Len(s) : (q \o s)[Len(q) + j] = s[j]
    BY <2>1, ConcatSeq
  <2> QED
    BY <1>1, <1>2, <1>3, <2>2
<1>7. DOMAIN r = 1 .. n + len
  BY <1>4, LenProperties
<1>8. ASSUME NEW k \in DOMAIN r
      PROVE  \/ \E i \in 1 .. n : r[k] = Root(d, i - 1)
             \/ \E j \in DOMAIN s : r[k] = s[j]
  <2>1. CASE k \in 1 .. n
    BY <1>2, <1>5, <2>1
  <2>2. CASE k \notin 1 .. n
    <3>1. \E j \in 1 .. len : k = n + j
      <4>1. k - n \in 1 .. len /\ k = n + (k - n)
        BY <1>3, <1>7, <2>2
      <4> QED
        BY <4>1
    <3> QED
      BY <1>3, <1>6, <3>1
  <2> QED
    BY <2>1, <2>2
<1>9. ASSUME NEW i \in 1 .. n PROVE \E k \in DOMAIN r : r[k] = Root(d, i - 1)
  <2>1. i \in DOMAIN r
    BY <1>3, <1>7
  <2> QED
    BY <1>2, <1>5, <2>1
<1>10. ASSUME NEW j \in DOMAIN s PROVE \E k \in DOMAIN r : r[k] = s[j]
  <2>1. n + j \in DOMAIN r
    BY <1>3, <1>7
  <2> QED
    BY <1>3, <1>6, <2>1
<1> QED
  BY <1>4, <1>8, <1>9, <1>10 DEF StackedOn

\* Holding[n] lists the roots of what the first n activations hold.
HoldingIs(n, s) ==
    /\ s \in Seq(Nat)
    /\ \A k \in DOMAIN s : \E m \in 1 .. n : \E i \in DOMAIN stack[m].held : s[k] = Root(m, i - 1)
    /\ \A m \in 1 .. n : \A i \in DOMAIN stack[m].held :
           \E k \in DOMAIN s : s[k] = Root(m, i - 1)

LEMMA HoldingLists == ASSUME FramesInv, NEW last \in 0 .. cur PROVE HoldingIs(last, Holding[last])
<1> DEFINE S == {j \in 0 .. cur : HoldingIs(j, Holding[j])}
<1>1. /\ cur \in Nat /\ Holding[0] = <<>>
      /\ \A n \in 1 .. cur : Holding[n] = RootsOf(n, Len(stack[n].held)) \o Holding[n - 1]
      /\ \A n \in 0 .. cur : Holding[n] \in Seq(Nat)
      /\ \A n \in 1 .. cur : /\ Len(stack[n].held) \in Nat
                             /\ DOMAIN stack[n].held = 1 .. Len(stack[n].held)
  <2>1. cur \in Nat /\ DOMAIN stack = 1 .. cur /\ \A n \in 1 .. cur : IsActivation(stack[n])
    BY IsSeqLen DEF FramesInv, StackOK, cur
  <2>2. \A n \in 1 .. cur : /\ Len(stack[n].held) \in Nat
                            /\ DOMAIN stack[n].held = 1 .. Len(stack[n].held)
    BY <2>1, LenProperties DEF IsActivation
  <2> QED
    BY <2>1, <2>2, HoldingEquation DEF FramesInv
<1>2. 0 \in S
  <2>1. PICK s : s = Holding[0] /\ s \in Seq(Nat) /\ DOMAIN s = {} /\ 0 \in 0 .. cur
    BY <1>1
  <2>2. (1 .. 0) = {}
    OBVIOUS
  <2>3. HoldingIs(0, s)
    BY <2>1, <2>2 DEF HoldingIs
  <2> QED
    BY <2>1, <2>3
<1>3. ASSUME NEW n \in 0 .. cur - 1, n \in S PROVE n + 1 \in S
  <2>1. PICK m : m = n + 1 /\ m \in 1 .. cur /\ m - 1 = n /\ n \in 0 .. cur /\ m \in Nat \ {0}
                 /\ m \in 0 .. cur
    BY <1>1
  <2>2. PICK len : len = Len(stack[m].held) /\ len \in Nat /\ DOMAIN stack[m].held = 1 .. len
    BY <1>1, <2>1
  <2>3. PICK r, s : r = Holding[m] /\ s = Holding[n] /\ r = RootsOf(m, len) \o s /\ s \in Seq(Nat)
    BY <1>1, <2>1, <2>2
  <2>4. StackedOn(r, s, m, len)
    BY <2>1, <2>2, <2>3, RootsBefore
  <2>5. HoldingIs(n, s)
    BY <1>3, <2>3
  <2>6. 1 .. m = (1 .. n) \cup {m}
    BY <2>1
  <2>7. ASSUME NEW k \in DOMAIN r
        PROVE  \E e \in 1 .. m : \E i \in DOMAIN stack[e].held : r[k] = Root(e, i - 1)
    <3>1. CASE \E i \in 1 .. len : r[k] = Root(m, i - 1)
      BY <2>2, <2>6, <3>1
    <3>2. CASE \E j \in DOMAIN s : r[k] = s[j]
      <4>1. PICK j \in DOMAIN s : r[k] = s[j]
        BY <3>2
      <4>2. \E e \in 1 .. n : \E i \in DOMAIN stack[e].held : s[j] = Root(e, i - 1)
        BY <2>5 DEF HoldingIs
      <4> QED
        BY <2>6, <4>1, <4>2
    <3> QED
      BY <2>4, <3>1, <3>2 DEF StackedOn
  <2>8. ASSUME NEW e \in 1 .. m, NEW i \in DOMAIN stack[e].held
        PROVE  \E k \in DOMAIN r : r[k] = Root(e, i - 1)
    <3>1. CASE e = m
      BY <2>2, <2>4, <3>1 DEF StackedOn
    <3>2. CASE e # m
      <4>1. PICK j \in DOMAIN s : s[j] = Root(e, i - 1)
        BY <2>5, <2>6, <3>2 DEF HoldingIs
      <4> QED
        BY <2>4, <4>1 DEF StackedOn
    <3> QED
      BY <3>1, <3>2
  <2>9. r \in Seq(Nat)
    BY <1>1, <2>1, <2>3
  <2>10. HoldingIs(m, r)
    BY <2>7, <2>8, <2>9 DEF HoldingIs
  <2> QED
    BY <2>1, <2>3, <2>10
<1>4. \A j \in 0 .. cur : j \in S
  <2> HIDE DEF S
  <2> QED
    BY <1>1, <1>2, <1>3, BoundedInduction
<1> QED
  BY <1>4

RootsThere ==
    /\ FrameRoots(fp, frames) \in Seq(Slots)
    /\ \A k \in DOMAIN FrameRoots(fp, frames) : \E s \in Saved : FrameRoots(fp, frames)[k] = s[1]
    /\ \A s \in Saved : \E k \in DOMAIN FrameRoots(fp, frames) : FrameRoots(fp, frames)[k] = s[1]

LEMMA KeptSlotsSeq ==
    ASSUME FramesInv, Shaped, NEW r \in Seq(Nat), \A k \in DOMAIN r : \E s \in Saved : r[k] = s[1]
    PROVE  r \in Seq(Slots)
<1>1. \A k \in DOMAIN r : r[k] \in Slots
  BY KeptSlots
<1>2. PICK n : n = Len(r) /\ n \in Nat /\ DOMAIN r = 1 .. n /\ r = [i \in 1 .. n |-> r[i]]
  BY LenProperties
<1>3. r \in [1 .. n -> Slots]
  BY <1>1, <1>2
<1> QED
  BY <1>2, <1>3, SeqDef

LEMMA PushesType ==
    ASSUME FramesInv, Shaped, code \in {"entered", "collected"}
    PROVE  /\ Pushes \in Nat /\ cur \in 1 .. CALLS
           /\ Pushes = 0 => Deepest(stack, fp, cur - 1)
           /\ Pushes # 0 => fp = cur
           /\ \A s \in Own : \E i \in 1 .. Pushes : s[1] = Root(cur, i - 1)
           /\ \A i \in DOMAIN stack[cur].held : i \in 1 .. Pushes
           /\ \A i \in 1 .. Pushes :
                  \E s \in Saved : s[1] = Root(cur, i - 1)
<1>1. stack # <<>> /\ cur \in 1 .. CALLS /\ IsActivation(top) /\ cur \in 1 .. cur
  BY TopProperties DEF FramesInv, StackOK
<1>2. CASE code = "entered"
  <2>1. PICK xs, len : /\ xs = Elements(top.live) /\ xs \in Seq(Locals) /\ len = Len(xs)
                       /\ len \in Nat /\ DOMAIN xs = 1 .. len /\ Pushes = len
    BY <1>1, <1>2, ElementsType, LenProperties DEF IsActivation, Pushes
  <2>2. len = 0 <=> xs = <<>>
    BY <2>1, EmptySeq
  <2>3. Own = {<<Root(cur, i - 1), top.means[xs[i]]>> : i \in DOMAIN xs}
    BY <1>2, <2>1 DEF Own, OwnOf
  <2>4. \A i \in 1 .. len : \E s \in Own : s[1] = Root(cur, i - 1)
    <3>1. ASSUME NEW i \in 1 .. len PROVE \E s \in Own : s[1] = Root(cur, i - 1)
      <4>1. PICK e : e = <<Root(cur, i - 1), top.means[xs[i]]>>
        OBVIOUS
      <4>2. e[1] = Root(cur, i - 1)
        BY <4>1
      <4>3. e \in Own
        BY <2>1, <2>3, <4>1
      <4> QED
        BY <4>2, <4>3
    <3> QED
      BY <3>1
  <2>5. DOMAIN stack[cur].held = {}
    BY <1>2 DEF Shaped, top
  <2>6. IF xs = <<>> THEN Deepest(stack, fp, cur - 1) ELSE fp = cur
    BY <1>2, <2>1 DEF FramesInv, Pointed
  <2>7. \A s \in Own : \E i \in 1 .. len : s[1] = Root(cur, i - 1)
    BY <2>1, <2>3
  <2> QED
    BY <1>1, <2>1, <2>2, <2>4, <2>5, <2>6, <2>7 DEF Saved
<1>3. CASE code = "collected"
  <2>1. PICK xs, len : /\ xs = top.held /\ xs \in Seq(Locals) /\ len = Len(xs)
                       /\ len \in Nat /\ DOMAIN xs = 1 .. len
    BY <1>1, LenProperties DEF IsActivation
  <2>2. len = 0 <=> xs = <<>>
    BY <2>1, EmptySeq
  <2>3. \A i \in 1 .. len : \E s \in Saved : s[1] = Root(cur, i - 1)
    <3>1. ASSUME NEW i \in 1 .. len PROVE \E s \in Saved : s[1] = Root(cur, i - 1)
      <4>1. \E s \in KeptBelow(stack, cur) : s[1] = Root(cur, i - 1)
        BY <1>1, <2>1, TopKept
      <4> QED
        BY <4>1 DEF Saved
    <3> QED
      BY <3>1
  <2>4. IF xs = <<>> /\ ~ top.fresh THEN Deepest(stack, fp, cur - 1) ELSE fp = cur
    BY <1>3, <2>1 DEF FramesInv, Pointed
  <2>5. CASE ~ top.fresh
    <3>1. Pushes = len /\ Own = {}
      BY <1>3, <2>1, <2>5 DEF Pushes, Own, OwnOf
    <3> QED
      BY <1>1, <2>1, <2>2, <2>3, <2>4, <2>5, <3>1 DEF top
  <2>6. CASE top.fresh
    <3>1. Pushes = len + 1 /\ Own = {<<Root(cur, len), top.means[top.result]>>}
      BY <1>3, <2>1, <2>6 DEF Pushes, Own, OwnOf
    <3>2. \E s \in Saved : s[1] = Root(cur, len)
      <4>1. PICK e : e = <<Root(cur, len), top.means[top.result]>>
        OBVIOUS
      <4>2. e[1] = Root(cur, len)
        BY <4>1
      <4>3. e \in Saved
        BY <3>1, <4>1 DEF Saved
      <4> QED
        BY <4>2, <4>3
    <3>3. \A i \in 1 .. len + 1 : i \in 1 .. len \/ i - 1 = len
      BY <2>1
    <3>4. len + 1 \in 1 .. len + 1 /\ (len + 1) - 1 = len /\ len + 1 \in Nat /\ len + 1 # 0
      BY <2>1
    <3>5. \A i \in 1 .. len + 1 : \E s \in Saved : s[1] = Root(cur, i - 1)
      BY <2>3, <3>2, <3>3
    <3>6. \A s \in Own : \E i \in 1 .. len + 1 : s[1] = Root(cur, i - 1)
      BY <3>1, <3>4
    <3>7. \A i \in 1 .. len : i \in 1 .. len + 1
      BY <2>1
    <3> QED
      BY <1>1, <2>1, <2>4, <2>6, <3>1, <3>4, <3>5, <3>6, <3>7 DEF top
  <2> QED
    BY <1>1, <2>5, <2>6 DEF Shaped, Scope, top
<1> QED
  BY <1>2, <1>3

LEMMA RootsFound ==
    FramesInv /\ Shaped /\ code \in {"entered", "collected"} /\ OwnFrame => RootsThere
<1> SUFFICES ASSUME FramesInv, Shaped, code \in {"entered", "collected"}, OwnFrame
             PROVE  RootsThere
  OBVIOUS
<1>1. /\ cur \in 1 .. CALLS /\ CALLS \in Nat /\ Pushes \in Nat
      /\ Pushes = 0 => Deepest(stack, fp, cur - 1)
      /\ Pushes # 0 => fp = cur
      /\ FramesOK /\ Deepest(stack, frames[cur].prev, cur - 1)
  <2>1. cur \in 1 .. CALLS /\ CALLS \in Nat
    BY PushesType, BoundsAssumption
  <2> QED
    BY <2>1, PushesType DEF FramesInv, Linked
<1>2. PICK n : /\ n = cur - 1 /\ n \in 0 .. cur - 1 /\ n \in 0 .. cur /\ CALLS - 1 \in n .. CALLS
               /\ CALLS \in n .. CALLS /\ CALLS \in 0 .. CALLS /\ cur \in 0 .. CALLS
               /\ CALLS # 0 /\ cur # 0 /\ cur \in Nat \ {0}
  BY <1>1
<1>3. PICK s : s = Holding[n]
  OBVIOUS
<1>4. HoldingIs(n, s)
  BY <1>2, <1>3, HoldingLists
<1>5. \A fuel \in n .. CALLS, p \in 0 .. n :
          Deepest(stack, p, n) => FramesFrom(frames)[fuel][p] = s
  BY <1>2, <1>3, FramesHold
<1>6. PICK r : r = FrameRoots(fp, frames)
  OBVIOUS
<1>7. CASE Pushes = 0
  <2>1. Deepest(stack, fp, n) /\ fp \in 0 .. n
    BY <1>1, <1>2, <1>7 DEF Deepest
  <2>2. r = s
    BY <1>2, <1>5, <1>6, <2>1 DEF FrameRoots
  <2>3. r \in Seq(Nat)
    BY <1>4, <2>2 DEF HoldingIs
  <2>4. \A k \in DOMAIN r : \E e \in Saved : r[k] = e[1]
    <3> SUFFICES ASSUME NEW k \in DOMAIN r PROVE \E e \in Saved : r[k] = e[1]
      OBVIOUS
    <3>1. PICK m \in 1 .. n : \E i \in DOMAIN stack[m].held : r[k] = Root(m, i - 1)
      BY <1>4, <2>2 DEF HoldingIs
    <3>2. PICK i \in DOMAIN stack[m].held : r[k] = Root(m, i - 1)
      BY <3>1
    <3>3. m \in 1 .. cur
      BY <1>1, <1>2, <3>1
    <3>4. \E e \in KeptBelow(stack, cur) : e[1] = Root(m, i - 1)
      BY <3>3, KeptBelowHas
    <3> QED
      BY <3>2, <3>4 DEF Saved
  <2>5. \A e \in Saved : \E k \in DOMAIN r : r[k] = e[1]
    <3> SUFFICES ASSUME NEW e \in Saved PROVE \E k \in DOMAIN r : r[k] = e[1]
      OBVIOUS
    <3>1. e \in KeptBelow(stack, cur)
      <4>1. \A i \in 1 .. Pushes : FALSE
        BY <1>7
      <4>2. e \notin Own
        BY <4>1, PushesType
      <4> QED
        BY <4>2 DEF Saved
    <3>2. PICK m \in 1 .. cur : \E i \in DOMAIN stack[m].held :
              e = <<Root(m, i - 1), stack[m].means[stack[m].held[i]]>>
      BY <3>1, KeptBelowIs
    <3>3. PICK i \in DOMAIN stack[m].held : e[1] = Root(m, i - 1)
      BY <3>2
    <3>4. m \in 1 .. n
      <4>1. m # cur
        <5>1. \A j \in 1 .. Pushes : FALSE
          BY <1>7
        <5> QED
          BY <3>3, <5>1, PushesType
      <4> QED
        BY <1>1, <1>2, <4>1
    <3> QED
      BY <1>4, <2>2, <3>3, <3>4 DEF HoldingIs
  <2> QED
    BY <1>6, <2>3, <2>4, <2>5, KeptSlotsSeq DEF RootsThere
<1>8. CASE Pushes # 0
  <2>1. FramesFrom(frames)[CALLS][cur] = RootsOf(cur, frames[cur].next)
                                           \o FramesFrom(frames)[CALLS - 1][frames[cur].prev]
    BY <1>1, <1>2, FrameRead
  <2>2. FramesFrom(frames)[CALLS - 1][frames[cur].prev] = s
    BY <1>1, <1>2, <1>5 DEF Deepest
  <2>3. r = RootsOf(cur, Pushes) \o s
    BY <1>1, <1>6, <1>8, <2>1, <2>2 DEF FrameRoots, OwnFrame
  <2>4. StackedOn(r, s, cur, Pushes)
    <3>1. s \in Seq(Nat)
      BY <1>4 DEF HoldingIs
    <3> QED
      BY <1>1, <1>2, <2>3, <3>1, RootsBefore
  <2>5. \A k \in DOMAIN r : \E e \in Saved : r[k] = e[1]
    <3> SUFFICES ASSUME NEW k \in DOMAIN r PROVE \E e \in Saved : r[k] = e[1]
      OBVIOUS
    <3>1. CASE \E i \in 1 .. Pushes : r[k] = Root(cur, i - 1)
      BY <3>1, PushesType
    <3>2. CASE \E j \in DOMAIN s : r[k] = s[j]
      <4>0. PICK j \in DOMAIN s : r[k] = s[j]
        BY <3>2
      <4>1. PICK m \in 1 .. n : \E i \in DOMAIN stack[m].held : r[k] = Root(m, i - 1)
        BY <1>4, <4>0 DEF HoldingIs
      <4>2. PICK i \in DOMAIN stack[m].held : r[k] = Root(m, i - 1)
        BY <4>1
      <4>3. m \in 1 .. cur
        BY <1>1, <1>2, <4>1
      <4>4. \E e \in KeptBelow(stack, cur) : e[1] = Root(m, i - 1)
        BY <4>3, KeptBelowHas
      <4> QED
        BY <4>2, <4>4 DEF Saved
    <3> QED
      BY <2>4, <3>1, <3>2 DEF StackedOn
  <2>6. \A e \in Saved : \E k \in DOMAIN r : r[k] = e[1]
    <3> SUFFICES ASSUME NEW e \in Saved PROVE \E k \in DOMAIN r : r[k] = e[1]
      OBVIOUS
    <3>1. CASE e \in Own
      <4>1. PICK i \in 1 .. Pushes : e[1] = Root(cur, i - 1)
        BY <3>1, PushesType
      <4> QED
        BY <2>4, <4>1 DEF StackedOn
    <3>2. CASE e \in KeptBelow(stack, cur)
      <4>1. PICK m \in 1 .. cur : \E i \in DOMAIN stack[m].held :
                e = <<Root(m, i - 1), stack[m].means[stack[m].held[i]]>>
        BY <3>2, KeptBelowIs
      <4>2. PICK i \in DOMAIN stack[m].held : e[1] = Root(m, i - 1)
        BY <4>1
      <4>3. CASE m = cur
        <5>1. i \in 1 .. Pushes
          BY <4>3, PushesType
        <5> QED
          BY <2>4, <4>2, <4>3, <5>1 DEF StackedOn
      <4>4. CASE m # cur
        <5>1. m \in 1 .. n
          BY <1>1, <1>2, <4>4
        <5>2. PICK j \in DOMAIN s : s[j] = Root(m, i - 1)
          BY <1>4, <4>2, <5>1 DEF HoldingIs
        <5> QED
          BY <2>4, <4>2, <5>2 DEF StackedOn
      <4> QED
        BY <4>3, <4>4
    <3> QED
      BY <3>1, <3>2 DEF Saved
  <2> QED
    BY <1>6, <2>4, <2>5, <2>6, KeptSlotsSeq DEF RootsThere, StackedOn
<1> QED
  BY <1>7, <1>8

-----------------------------------------------------------------------------
(* The steps of the mutator. *)

\* The words of the nursery before the next object: a function that runs has a
\* copy of alloc of its own.
vAlloc == IF pc = "mutator" /\ code = "run" THEN top.alloc ELSE alloc

\* What the mutator may count on.
Promised ==
    /\ DOMAIN args = Slots /\ fi \in [num_allocs : 0 .. MaxAllocs, roots : Seq(Slots)]
    /\ vAlloc \in Nat /\ budget \in 0 .. MaxAllocs /\ limit \in Nat /\ vAlloc + budget <= limit

\* A collection has all that the program wants for roots.
Named ==
    Returning /\ pc # "mutator" => \A s \in Saved : \E k \in DOMAIN fi.roots : fi.roots[k] = s[1]

\* A step that makes no object: it stores what the program wants, and asks for
\* some words, or for a collection.
Quiet ==
    /\ pc = "mutator" /\ pc' \in {"mutator", "garbage_collect"}
    /\ UNCHANGED <<mem, next, limit, gen, copyVars, result>> /\ vAlloc' = vAlloc
    /\ budget' \in 0 .. MaxAllocs /\ vAlloc + budget' <= limit
    /\ fi' \in [num_allocs : 0 .. MaxAllocs, roots : Seq(Slots)]
    /\ DOMAIN args' = Slots
    /\ \A k \in Slots : args'[k] = args[k] \/ \E p \in Holds : args'[k] = p[1]
    /\ \/ fi' = fi
       \/ \A k \in DOMAIN fi'.roots : \E p \in Holds : args'[fi'.roots[k]] = p[1]

LEMMA HoldsIsAfter ==
    /\ \A c, mean : <<c, mean>> \in Saved' => <<args'[c], mean>> \in Holds'
    /\ \A v \in InVars' : <<top'.vars[v], top'.means[v]>> \in Holds'
    /\ \A p \in Holds' : \/ \E s \in Saved' : p = <<args'[s[1]], s[2]>>
                         \/ \E v \in InVars' : p = <<top'.vars[v], top'.means[v]>>
<1>1. (/\ \A c, mean : <<c, mean>> \in Saved => <<args[c], mean>> \in Holds
       /\ \A v \in InVars : <<top.vars[v], top.means[v]>> \in Holds
       /\ \A p \in Holds : \/ \E s \in Saved : p = <<args[s[1]], s[2]>>
                           \/ \E v \in InVars : p = <<top.vars[v], top.means[v]>>)'
  BY HoldsIs, PTL
<1> QED
  BY <1>1

\* The activations up to n hold what they held.
LEMMA KeptSame ==
    ASSUME NEW old, NEW new, NEW n,
           \A m \in 1 .. n : \A i \in DOMAIN new[m].held :
               /\ new[m].held = old[m].held
               /\ new[m].means[new[m].held[i]] = old[m].means[old[m].held[i]]
    PROVE  KeptBelow(new, n) \subseteq KeptBelow(old, n)
<1> SUFFICES ASSUME NEW s \in KeptBelow(new, n) PROVE s \in KeptBelow(old, n)
  OBVIOUS
<1>1. PICK m \in 1 .. n : \E i \in DOMAIN new[m].held :
          s = <<Root(m, i - 1), new[m].means[new[m].held[i]]>>
  BY KeptBelowIs
<1>2. PICK i \in DOMAIN new[m].held : s = <<Root(m, i - 1), new[m].means[new[m].held[i]]>>
  BY <1>1
<1>3. i \in DOMAIN old[m].held /\ s = <<Root(m, i - 1), old[m].means[old[m].held[i]]>>
  BY <1>2
<1> QED
  BY <1>3, KeptBelowIs

\* A step of the newest activation, which becomes a.
BecomesTop(a) ==
    /\ stack # <<>> /\ IsActivation(a) /\ Scope(a)
    /\ stack' = [stack EXCEPT ![cur] = a]
    /\ steps' \in 0 .. STEPS
    /\ code' \in {"enter", "entered", "run", "collected"}
    /\ code' = "collected" => Waiting(a)
    /\ code' # "collected" => a.held = <<>>
    /\ \A i \in DOMAIN a.held : a.held = top.held /\ a.means[a.held[i]] = top.means[a.held[i]]

LEMMA InPlaceShaped ==
    ASSUME FramesInv, Shaped, NEW a, BecomesTop(a)
    PROVE  /\ Shaped' /\ cur' = cur /\ top' = a /\ cur \in 1 .. CALLS
           /\ KeptBelow(stack', cur') \subseteq KeptBelow(stack, cur)
           /\ Own' = OwnOf(code', cur, a, answer') /\ InVars' = InVarsOf(code', a)
           /\ Saved' = KeptBelow(stack', cur') \cup Own'
<1>1. /\ cur' = cur /\ stack'[cur] = a /\ cur \in 1 .. CALLS /\ cur \in Nat
      /\ \A n \in 1 .. cur - 1 : stack'[n] = stack[n]
  <2>1. /\ stack # <<>> /\ IsActivation(a) /\ stack' = [stack EXCEPT ![cur] = a] /\ StackOK
    BY DEF BecomesTop, FramesInv
  <2>2. /\ Len(stack') = cur /\ stack'[cur] = a /\ cur \in 1 .. CALLS
        /\ \A n \in 1 .. cur - 1 : stack'[n] = stack[n]
    BY <2>1, Replaced
  <2>3. cur' = Len(stack')
    BY DEF cur
  <2> QED
    BY <2>2, <2>3
<1>2. top' = a
  BY <1>1 DEF top
<1>3. Shaped'
  <2>1. \A n \in 1 .. cur : Scope(stack'[n])
    <3> SUFFICES ASSUME NEW n \in 1 .. cur PROVE Scope(stack'[n])
      OBVIOUS
    <3>1. CASE n = cur
      BY <1>1, <3>1 DEF BecomesTop
    <3>2. CASE n # cur
      <4>1. n \in 1 .. cur - 1
        BY <1>1, <3>2
      <4> QED
        BY <1>1, <4>1 DEF Shaped
    <3> QED
      BY <3>1, <3>2
  <2>2. ASSUME NEW n \in 1 .. cur, n < cur \/ code' \in {"returned", "collected"}
        PROVE  Waiting(stack'[n])
    <3>1. CASE n = cur
      BY <1>1, <2>2, <3>1 DEF BecomesTop
    <3>2. CASE n # cur
      <4>1. n \in 1 .. cur - 1 /\ n < cur
        BY <1>1, <3>2
      <4> QED
        BY <1>1, <4>1 DEF Shaped
    <3> QED
      BY <3>1, <3>2
  <2> QED
    BY <1>1, <1>2, <2>1, <2>2 DEF Shaped, BecomesTop
<1>4. KeptBelow(stack', cur) \subseteq KeptBelow(stack, cur)
  <2>1. ASSUME NEW m \in 1 .. cur, NEW i \in DOMAIN stack'[m].held
        PROVE  /\ stack'[m].held = stack[m].held
               /\ stack'[m].means[stack'[m].held[i]] = stack[m].means[stack[m].held[i]]
    <3>1. CASE m = cur
      BY <1>1, <2>1, <3>1 DEF BecomesTop, top
    <3>2. CASE m # cur
      <4>1. m \in 1 .. cur - 1
        BY <1>1, <3>2
      <4> QED
        BY <1>1, <4>1
    <3> QED
      BY <3>1, <3>2
  <2> QED
    BY <2>1, KeptSame
<1> QED
  BY <1>1, <1>2, <1>3, <1>4 DEF Own, InVars, Saved

\* It wants no more than the program wanted before it, and what it has made.
LEMMA InPlaceHolds ==
    ASSUME FramesInv, Shaped, NEW a, BecomesTop(a),
           \A s \in KeptBelow(stack, cur) : args'[s[1]] = args[s[1]],
           NEW H, Holds \subseteq H,
           \A s \in OwnOf(code', cur, a, answer') : <<args'[s[1]], s[2]>> \in H,
           \A v \in InVarsOf(code', a) : <<a.vars[v], a.means[v]>> \in H
    PROVE  Holds' \subseteq H
<1> SUFFICES ASSUME NEW p \in Holds' PROVE p \in H
  OBVIOUS
<1>1. /\ top' = a /\ KeptBelow(stack', cur') \subseteq KeptBelow(stack, cur)
      /\ Own' = OwnOf(code', cur, a, answer') /\ InVars' = InVarsOf(code', a)
      /\ Saved' = KeptBelow(stack', cur') \cup Own'
  BY InPlaceShaped
<1>2. CASE \E s \in Saved' : p = <<args'[s[1]], s[2]>>
  <2>1. PICK s \in Saved' : p = <<args'[s[1]], s[2]>>
    BY <1>2
  <2>2. CASE s \in Own'
    BY <1>1, <2>1, <2>2
  <2>3. CASE s \in KeptBelow(stack', cur')
    <3>1. s \in KeptBelow(stack, cur)
      BY <1>1, <2>3
    <3>2. p = <<args[s[1]], s[2]>>
      BY <2>1, <3>1
    <3> QED
      BY <3>1, <3>2 DEF Holds, Saved
  <2> QED
    BY <1>1, <2>1, <2>2, <2>3
<1>3. CASE \E v \in InVars' : p = <<top'.vars[v], top'.means[v]>>
  BY <1>1, <1>3
<1> QED
  BY <1>2, <1>3, HoldsIsAfter

LEMMA RootsFoundAfter ==
    ASSUME FramesInv', Shaped', code' \in {"entered", "collected"},
           OwnFrame'
    PROVE  RootsThere'
<1>1. (FramesInv /\ Shaped /\ code \in {"entered", "collected"} /\ OwnFrame
       => RootsThere)'
  BY RootsFound, PTL
<1> QED
  BY <1>1

LEMMA RequestsBounded == \A n \in Requests : n \in Nat /\ n <= MaxAllocs
  BY BoundsAssumption, CollectorAssumption DEF Requests, MaxAllocs

\* A function asks for a collection, and pushes xs for it.
AsksGC(n, a, off, xs, then) ==
    /\ pc = "mutator" /\ code # "run" /\ cur \in Depths /\ n \in Requests
    /\ off \in Nat /\ xs \in Seq(Locals) /\ off + Len(xs) <= Width
    /\ then \in {"entered", "collected"} /\ CallGC(n, a, off, xs, then)
    /\ UNCHANGED <<mem, next, alloc, limit, gen, copyVars, result, budget>>

LEMMA CallGCQuiet ==
    ASSUME FramesInv', Shaped', Promised, OwnFrame', Holds' \subseteq Holds,
           NEW n, NEW a, NEW off, NEW xs, NEW then, AsksGC(n, a, off, xs, then),
           \A j \in DOMAIN xs : \E p \in Holds : p[1] = a.vars[xs[j]]
    PROVE  Quiet /\ Named'
<1>0. /\ pc = "mutator" /\ code # "run" /\ cur \in Depths /\ n \in Requests
      /\ off \in Nat /\ xs \in Seq(Locals) /\ off + Len(xs) <= Width
      /\ then \in {"entered", "collected"} /\ CallGC(n, a, off, xs, then)
      /\ UNCHANGED <<mem, next, alloc, limit, gen, copyVars, result, budget>>
  BY DEF AsksGC
<1>1. /\ args' = Pushed(cur, a, off, xs) /\ pc' = "garbage_collect" /\ code' = then
      /\ fi' = [num_allocs |-> n, roots |-> FrameRoots(fp', frames')]
  BY <1>0 DEF CallGC
<1>2. RootsThere'
  BY <1>0, <1>1, RootsFoundAfter
<1>3. PICK roots : roots = fi'.roots
  OBVIOUS
<1>4. /\ roots \in Seq(Slots)
      /\ \A k \in DOMAIN roots : \E s \in Saved' : roots[k] = s[1]
      /\ \A s \in Saved' : \E k \in DOMAIN roots : roots[k] = s[1]
  <2>1. roots = FrameRoots(fp', frames')
    BY <1>1, <1>3
  <2> QED
    BY <1>2, <2>1 DEF RootsThere
<1>5. Named'
  BY <1>3, <1>4 DEF Named
<1>6. /\ DOMAIN args' = Slots
      /\ \A c \in Slots : args'[c] = args[c] \/ \E j \in DOMAIN xs : args'[c] = a.vars[xs[j]]
  <2>1. PushedTo(args', cur, a, off, xs)
    BY <1>0, <1>1, PushedAt DEF Promised
  <2> QED
    BY <2>1 DEF PushedTo
<1>7. \A k \in Slots : args'[k] = args[k] \/ \E p \in Holds : args'[k] = p[1]
  <2> SUFFICES ASSUME NEW k \in Slots, args'[k] # args[k] PROVE \E p \in Holds : args'[k] = p[1]
    OBVIOUS
  <2>1. PICK j \in DOMAIN xs : args'[k] = a.vars[xs[j]]
    BY <1>6
  <2>2. PICK p \in Holds : p[1] = a.vars[xs[j]]
    OBVIOUS
  <2> QED
    BY <2>1, <2>2
<1>8. \A k \in DOMAIN roots : \E p \in Holds : args'[roots[k]] = p[1]
  <2> SUFFICES ASSUME NEW k \in DOMAIN roots PROVE \E p \in Holds : args'[roots[k]] = p[1]
    OBVIOUS
  <2>1. PICK s \in Saved' : roots[k] = s[1]
    BY <1>4
  <2>2. PICK p : p = <<args'[s[1]], s[2]>>
    OBVIOUS
  <2>3. p \in Holds'
    BY <2>1, <2>2 DEF Holds
  <2>4. p \in Holds /\ p[1] = args'[s[1]]
    BY <2>2, <2>3
  <2> QED
    BY <2>1, <2>4
<1>9. fi' \in [num_allocs : 0 .. MaxAllocs, roots : Seq(Slots)]
  <2>1. n \in 0 .. MaxAllocs
    BY <1>0, RequestsBounded, CollectorAssumption DEF MaxAllocs
  <2> QED
    BY <1>1, <1>3, <1>4, <2>1
<1>10. vAlloc' = vAlloc
  BY <1>0, <1>1 DEF vAlloc
<1>11. budget' \in 0 .. MaxAllocs /\ vAlloc + budget' <= limit
  BY <1>0 DEF Promised
<1> QED
  BY <1>0, <1>1, <1>3, <1>5, <1>6, <1>7, <1>8, <1>9, <1>10, <1>11 DEF Quiet

\* The words a function asks for are there.
LEMMA FitsQuiet ==
    ASSUME Promised, pc = "mutator", pc' = "mutator", vAlloc' = vAlloc,
           UNCHANGED <<mem, next, limit, gen, copyVars, result, fi, args>>,
           NEW n \in Requests, NEW a, a.alloc = vAlloc, a.limit = limit, ~ NeedsGC(n, a),
           budget' = n
    PROVE  Quiet /\ Named'
<1>1. n \in 0 .. MaxAllocs /\ vAlloc + n <= limit
  BY RequestsBounded, CollectorAssumption DEF MaxAllocs, NeedsGC, Promised
<1> QED
  BY <1>1 DEF Quiet, Named, Promised

\* Other steps leave the number of words alone.
LEMMA PlainQuiet ==
    ASSUME Promised, pc = "mutator", pc' = "mutator", vAlloc' = vAlloc,
           UNCHANGED <<mem, next, limit, gen, copyVars, result, fi, budget>>,
           DOMAIN args' = Slots,
           \A k \in Slots : args'[k] = args[k] \/ \E p \in Holds : args'[k] = p[1]
    PROVE  Quiet /\ Named'
  BY DEF Quiet, Named, Promised

LEMMA EnterMeaning ==
    ASSUME FramesInv, Room, Shaped, Promised, Enter
    PROVE  Quiet /\ Shaped' /\ Named' /\ Holds' \subseteq Holds
<1>1. /\ code = "enter" /\ pc = "mutator" /\ stack # <<>> /\ IsActivation(top)
      /\ cur \in 1 .. CALLS /\ cur \in Depths
      /\ UNCHANGED <<mem, alloc, limit, answer, steps, next, gen, copyVars, result>>
  BY Nested, TopProperties DEF Enter, Ready, FramesInv, NoCollector, Depths
<1>2. PICK n \in Requests, used \in SUBSET top.live :
        LET a == Live(Reloaded(top), used)
            xs == Elements(used)
        IN  /\ stack' = [stack EXCEPT ![cur] = a]
            /\ IF NeedsGC(n, a)
               THEN /\ frames' = [init_stack(cur) EXCEPT ![cur].next = Len(xs)]
                    /\ CallGC(n, a, 0, xs, "entered")
                    /\ UNCHANGED budget
               ELSE /\ frames' = init_stack(cur)
                    /\ budget' = n
                    /\ code' = "run"
                    /\ UNCHANGED <<args, fp, fi, pc>>
  BY DEF Enter
<1>3. used \in SUBSET Locals
  BY <1>1 DEF IsActivation
<1>4. PICK a, xs : a = Live(Reloaded(top), used) /\ xs = Elements(used)
  OBVIOUS
<1>5. IsActivation(a) /\ a.live = used /\ a.alloc = alloc /\ a.limit = limit /\ a.held = top.held
  BY <1>1, <1>3, <1>4, ReloadedProperties, LiveProperties
<1>6. Scope(top) /\ top.held = <<>>
  BY <1>1 DEF Shaped, top
<1>7. Scope(a) /\ \A v \in used : a.vars[v] = top.vars[v] /\ a.means[v] = top.means[v]
  <2>1. a.fresh = top.fresh
    BY <1>1, <1>3, <1>4, ReloadedProperties, LiveProperties
  <2>2. /\ Reloaded(top).vars = top.vars /\ Reloaded(top).means = top.means
        /\ IsActivation(Reloaded(top))
    BY <1>1, ReloadedProperties DEF Reloaded, IsActivation, ActivationFields
  <2>3. /\ a.vars = [v \in Locals |-> IF v \in used THEN top.vars[v] ELSE Long(0)]
        /\ a.means = [v \in Locals |-> IF v \in used THEN top.means[v] ELSE Leaf(0)]
    BY <1>4, <2>2 DEF Live, IsActivation, ActivationFields
  <2> QED
    BY <1>3, <1>6, <2>1, <2>3 DEF Scope
<1>8. \A v \in used : <<a.vars[v], a.means[v]>> \in Holds
  <2>1. InVars = top.live
    BY <1>1 DEF InVars, InVarsOf
  <2> QED
    BY <1>2, <1>7, <2>1, HoldsIs
<1>9. DOMAIN a.held = {} /\ DOMAIN top.held = {}
  BY <1>5, <1>6
<1>10. Listing(xs, used) /\ xs \in Seq(Locals) /\ Len(xs) \in Nat /\ Len(xs) <= Width
  BY <1>3, <1>4, ElementsList DEF Listing
<1>11. CASE ~ NeedsGC(n, a)
  <2>1. /\ stack' = [stack EXCEPT ![cur] = a] /\ budget' = n /\ code' = "run"
        /\ UNCHANGED <<args, fp, fi, pc>>
    BY <1>2, <1>4, <1>11
  <2>2. BecomesTop(a)
    BY <1>1, <1>5, <1>6, <1>7, <1>9, <2>1 DEF BecomesTop, Shaped
  <2>3. Shaped' /\ top' = a
    BY <2>2, InPlaceShaped
  <2>4. Holds' \subseteq Holds
    <3>1. OwnOf(code', cur, a, answer') = {} /\ InVarsOf(code', a) = used
      BY <1>5, <2>1 DEF OwnOf, InVarsOf
    <3>2. \A s \in KeptBelow(stack, cur) : args'[s[1]] = args[s[1]]
      BY <2>1
    <3> QED
      BY <1>8, <2>2, <3>1, <3>2, InPlaceHolds
  <2>5. vAlloc' = vAlloc /\ a.alloc = vAlloc
    BY <1>1, <1>5, <2>1, <2>3 DEF vAlloc
  <2> QED
    BY <1>1, <1>5, <1>11, <2>1, <2>3, <2>4, <2>5, FitsQuiet
<1>12. CASE NeedsGC(n, a)
  <2>1. /\ stack' = [stack EXCEPT ![cur] = a] /\ CallGC(n, a, 0, xs, "entered") /\ budget' = budget
        /\ frames' = [init_stack(cur) EXCEPT ![cur].next = Len(xs)]
    BY <1>2, <1>4, <1>12
  <2>2. code' = "entered" /\ args' = Pushed(cur, a, 0, xs)
    BY <2>1 DEF CallGC
  <2>3. BecomesTop(a)
    BY <1>1, <1>5, <1>6, <1>7, <1>9, <2>1, <2>2 DEF BecomesTop, Shaped
  <2>4. Shaped' /\ top' = a /\ cur' = cur
    BY <2>3, InPlaceShaped
  <2>5. /\ \A j \in DOMAIN xs : args'[Root(cur, 0 + j - 1)] = a.vars[xs[j]]
        /\ \A e \in Depths, i \in RootNumbers : e # cur => args'[Root(e, i)] = args[Root(e, i)]
    <3>1. 0 \in Nat /\ 0 + Len(xs) <= Width
      BY <1>10
    <3>2. PushedTo(args', cur, a, 0, xs)
      BY <1>1, <1>10, <2>2, <3>1, PushedAt DEF Promised
    <3> QED
      BY <3>2 DEF PushedTo
  <2>6. \A s \in KeptBelow(stack, cur) : args'[s[1]] = args[s[1]]
    <3> SUFFICES ASSUME NEW s \in KeptBelow(stack, cur) PROVE args'[s[1]] = args[s[1]]
      OBVIOUS
    <3>1. PICK m \in 1 .. cur : \E i \in DOMAIN stack[m].held :
              s = <<Root(m, i - 1), stack[m].means[stack[m].held[i]]>>
      BY KeptBelowIs
    <3>2. PICK i \in DOMAIN stack[m].held : s[1] = Root(m, i - 1)
      BY <3>1
    <3>3. m # cur
      BY <1>9, <3>2 DEF top
    <3>4. m \in Depths /\ i - 1 \in RootNumbers
      BY KeptAt
    <3> QED
      BY <2>5, <3>2, <3>3, <3>4
  <2>7. ASSUME NEW s \in OwnOf(code', cur, a, answer') PROVE <<args'[s[1]], s[2]>> \in Holds
    <3>1. PICK i \in DOMAIN xs : s = <<Root(cur, i - 1), a.means[xs[i]]>>
      BY <2>7, <1>4, <1>5, <2>2 DEF OwnOf
    <3>2. xs[i] \in used
      BY <1>10 DEF Listing
    <3>3. 0 + i - 1 = i - 1
      BY <1>10, LenProperties
    <3>4. args'[Root(cur, i - 1)] = a.vars[xs[i]]
      BY <2>5, <3>3
    <3>5. s[1] = Root(cur, i - 1) /\ s[2] = a.means[xs[i]]
      BY <3>1
    <3> QED
      BY <1>8, <3>2, <3>4, <3>5
  <2>8. Holds' \subseteq Holds
    <3>1. InVarsOf(code', a) = {}
      BY <2>2 DEF InVarsOf
    <3> QED
      BY <2>3, <2>6, <2>7, <3>1, InPlaceHolds
  <2>9. OwnFrame'
    <3>1. Pushes' = Len(xs)
      BY <1>4, <1>5, <2>2, <2>4 DEF Pushes
    <3>2. frames'[cur].next = Len(xs)
      BY <1>1, <2>1 DEF init_stack, FramesInv, FramesOK
    <3> QED
      BY <2>4, <3>1, <3>2 DEF OwnFrame
  <2>10. \A j \in DOMAIN xs : \E p \in Holds : p[1] = a.vars[xs[j]]
    <3> SUFFICES ASSUME NEW j \in DOMAIN xs PROVE \E p \in Holds : p[1] = a.vars[xs[j]]
      OBVIOUS
    <3>1. PICK p : p = <<a.vars[xs[j]], a.means[xs[j]]>>
      OBVIOUS
    <3>2. p \in Holds /\ p[1] = a.vars[xs[j]]
      BY <1>8, <1>10, <3>1 DEF Listing
    <3> QED
      BY <3>2
  <2>11. AsksGC(n, a, 0, xs, "entered")
    BY <1>1, <1>10, <2>1 DEF AsksGC
  <2>12. Quiet /\ Named'
    BY <2>4, <2>8, <2>9, <2>10, <2>11, EnterFrames, CallGCQuiet
  <2> QED
    BY <2>4, <2>8, <2>12
<1> QED
  BY <1>11, <1>12

LEMMA VarsReplaced ==
    ASSUME NEW a, IsActivation(a), NEW values
    PROVE  /\ [a EXCEPT !.vars = values].vars = values
           /\ [a EXCEPT !.vars = values].means = a.means
  BY DEF IsActivation, ActivationFields

LEMMA ReloadedSame ==
    ASSUME NEW a, IsActivation(a)
    PROVE  Reloaded(a).vars = a.vars /\ Reloaded(a).means = a.means
  BY DEF IsActivation, ActivationFields, Reloaded

LEMMA EnteredMeaning ==
    ASSUME FramesInv, Room, Shaped, Promised, Entered
    PROVE  Quiet /\ Shaped' /\ Named' /\ Holds' \subseteq Holds
<1>1. /\ code = "entered" /\ pc = "mutator" /\ stack # <<>> /\ IsActivation(top)
      /\ cur \in 1 .. CALLS /\ cur \in 1 .. cur /\ code' = "run" /\ steps' = steps
      /\ UNCHANGED <<mem, alloc, limit, next, gen, copyVars, result, args, fi, budget, pc>>
  BY Nested, TopProperties DEF Entered, Ready, FramesInv, NoCollector
<1>2. PICK a, b, xs, values :
          /\ xs = Elements(top.live) /\ b = Reloaded(top)
          /\ values = Popped(cur, b.vars, 0, xs) /\ a = [b EXCEPT !.vars = values]
  OBVIOUS
<1>3. stack' = [stack EXCEPT ![cur] = a]
  BY <1>2 DEF Entered
<1>4. /\ IsActivation(b) /\ b.live = top.live /\ b.held = top.held /\ b.fresh = top.fresh
      /\ b.alloc = alloc /\ b.vars = top.vars /\ b.means = top.means
  BY <1>1, <1>2, ReloadedProperties, ReloadedSame
<1>5. /\ IsActivation(a) /\ a.live = top.live /\ a.held = top.held /\ a.fresh = top.fresh
      /\ a.alloc = alloc /\ a.vars = values /\ a.means = top.means
  BY <1>2, <1>4, VarsProperties, VarsReplaced
<1>6. Scope(top) /\ top.held = <<>>
  BY <1>1 DEF Shaped, top
<1>7. Listing(xs, top.live)
  BY <1>1, <1>2, ElementsList DEF IsActivation
<1>8. PoppedTo(values, cur, top.vars, 0, xs, top.live)
  BY <1>2, <1>4, <1>7, PoppedAt
<1>9. BecomesTop(a)
  BY <1>1, <1>3, <1>5, <1>6, <1>8 DEF BecomesTop, Scope, PoppedTo, Shaped
<1>10. Shaped' /\ top' = a
  BY <1>9, InPlaceShaped
<1>11. ASSUME NEW v \in InVarsOf(code', a) PROVE <<a.vars[v], a.means[v]>> \in Holds
  <2>1. v \in top.live
    BY <1>1, <1>5, <1>11 DEF InVarsOf
  <2>2. PICK i \in DOMAIN xs : xs[i] = v
    BY <1>7, <2>1 DEF Listing
  <2>3. i \in Nat /\ 0 + i - 1 = i - 1
    BY <1>7, LenProperties DEF Listing
  <2>4. v \in DOMAIN top.vars
    BY <1>1, <1>6, <2>1 DEF Scope, IsActivation
  <2>5. a.vars[v] = args[Root(cur, i - 1)]
    BY <1>5, <1>8, <2>2, <2>3, <2>4 DEF PoppedTo
  <2>6. <<Root(cur, i - 1), top.means[xs[i]]>> \in Own
    BY <1>1, <1>2 DEF Own, OwnOf
  <2>7. <<args[Root(cur, i - 1)], top.means[xs[i]]>> \in Holds
    BY <2>6, HoldsIs DEF Saved
  <2> QED
    BY <1>5, <2>2, <2>5, <2>7
<1>12. Holds' \subseteq Holds
  <2>1. OwnOf(code', cur, a, answer') = {}
    BY <1>1 DEF OwnOf
  <2> QED
    BY <1>1, <1>9, <1>11, <2>1, InPlaceHolds
<1>13. vAlloc' = vAlloc
  BY <1>1, <1>5, <1>10 DEF vAlloc
<1>14. Quiet /\ Named'
  BY <1>1, <1>13, PlainQuiet DEF Promised
<1> QED
  BY <1>10, <1>12, <1>14

\* What a caller has once it has popped what it held.
LEMMA DiscardedValues ==
    ASSUME NEW a, IsActivation(a), Scope(a), Waiting(a), NEW d, d = Discarded(a)
    PROVE  /\ IsActivation(d) /\ Scope(d) /\ d.held = <<>> /\ d.alloc = a.alloc
           /\ \A v \in d.live :
                  \/ a.fresh /\ v = a.result /\ d.vars[v] = a.vars[v] /\ d.means[v] = a.means[v]
                  \/ \E i \in DOMAIN a.held :
                         /\ a.held[i] = v /\ d.vars[v] = args[Root(cur, i - 1)]
                         /\ d.means[v] = a.means[v]
<1>1. PICK b, S, values :
          /\ values = Popped(cur, a.vars, 0, a.held)
          /\ b = [a EXCEPT !.vars = values, !.held = <<>>, !.fresh = FALSE]
          /\ S = a.live \cup (IF a.fresh THEN {a.result} ELSE {})
  OBVIOUS
<1>2. /\ IsActivation(b) /\ b.vars = values /\ b.means = a.means /\ b.held = <<>>
      /\ b.fresh = FALSE /\ b.alloc = a.alloc
  BY <1>1 DEF IsActivation, ActivationFields
<1>3. S \in SUBSET Locals
  BY <1>1 DEF IsActivation
<1>4. d = Live(b, S)
  BY <1>1 DEF Discarded
<1>5. IsActivation(d) /\ d.live = S /\ d.held = <<>> /\ d.fresh = FALSE /\ d.alloc = a.alloc
  BY <1>2, <1>3, <1>4, LiveProperties
<1>6. /\ d.vars = [v \in Locals |-> IF v \in S THEN values[v] ELSE Long(0)]
      /\ d.means = [v \in Locals |-> IF v \in S THEN a.means[v] ELSE Leaf(0)]
  BY <1>2, <1>4 DEF Live, IsActivation, ActivationFields
<1>7. PoppedTo(values, cur, a.vars, 0, a.held, a.live)
  BY <1>1, PoppedAt DEF Waiting
<1>8. ASSUME NEW v \in S
      PROVE  \/ a.fresh /\ v = a.result /\ d.vars[v] = a.vars[v] /\ d.means[v] = a.means[v]
             \/ \E i \in DOMAIN a.held :
                    /\ a.held[i] = v /\ d.vars[v] = args[Root(cur, i - 1)]
                    /\ d.means[v] = a.means[v]
  <2>1. v \in Locals /\ d.vars[v] = values[v] /\ d.means[v] = a.means[v] /\ v \in DOMAIN a.vars
    BY <1>3, <1>6, <1>8 DEF Scope
  <2>2. CASE v \in a.live
    <3>1. PICK i \in DOMAIN a.held : a.held[i] = v
      BY <2>2 DEF Waiting, Listing
    <3>2. 0 + i - 1 = i - 1
      BY LenProperties DEF Waiting, Listing
    <3>3. values[v] = args[Root(cur, i - 1)]
      BY <1>7, <2>1, <3>1, <3>2 DEF PoppedTo
    <3> QED
      BY <2>1, <3>1, <3>3
  <2>3. CASE v \notin a.live
    <3>1. a.fresh /\ v = a.result
      BY <1>1, <1>8, <2>3
    <3>2. values[v] = a.vars[v]
      BY <1>7, <2>1, <2>3 DEF PoppedTo
    <3> QED
      BY <2>1, <3>1, <3>2
  <2> QED
    BY <2>2, <2>3
<1>9. Scope(d)
  BY <1>5, <1>6 DEF Scope
<1> QED
  BY <1>5, <1>8, <1>9

\* A caller goes on: what it has is what it held, and the result.
LEMMA DiscardMeaning ==
    ASSUME FramesInv, Shaped, code \in {"returned", "collected"}, stack # <<>>,
           cur \in 1 .. CALLS, NEW a, IsActivation(a), Scope(a), Waiting(a), a.held = top.held,
           \A i \in DOMAIN a.held : a.means[a.held[i]] = top.means[a.held[i]],
           a.fresh => <<a.vars[a.result], a.means[a.result]>> \in Holds,
           stack' = [stack EXCEPT ![cur] = Discarded(a)], code' = "run",
           args' = args, steps' = steps
    PROVE  Shaped' /\ Holds' \subseteq Holds /\ top'.alloc = a.alloc
<1>1. PICK d : d = Discarded(a)
  OBVIOUS
<1>2. /\ IsActivation(d) /\ Scope(d) /\ d.held = <<>> /\ d.alloc = a.alloc
      /\ \A v \in d.live :
             \/ a.fresh /\ v = a.result /\ d.vars[v] = a.vars[v] /\ d.means[v] = a.means[v]
             \/ \E i \in DOMAIN a.held :
                    /\ a.held[i] = v /\ d.vars[v] = args[Root(cur, i - 1)]
                    /\ d.means[v] = a.means[v]
  BY <1>1, DiscardedValues
<1>3. BecomesTop(d)
  BY <1>1, <1>2 DEF BecomesTop, Shaped
<1>4. Shaped' /\ top' = d
  BY <1>3, InPlaceShaped
<1>5. ASSUME NEW v \in InVarsOf(code', d) PROVE <<d.vars[v], d.means[v]>> \in Holds
  <2>1. v \in d.live
    BY <1>5 DEF InVarsOf
  <2>2. CASE a.fresh /\ v = a.result /\ d.vars[v] = a.vars[v] /\ d.means[v] = a.means[v]
    BY <2>2
  <2>3. CASE \E i \in DOMAIN a.held :
                    /\ a.held[i] = v /\ d.vars[v] = args[Root(cur, i - 1)]
                    /\ d.means[v] = a.means[v]
    <3>1. PICK i \in DOMAIN a.held : /\ a.held[i] = v /\ d.vars[v] = args[Root(cur, i - 1)]
                                     /\ d.means[v] = a.means[v]
      BY <2>3
    <3>2. i \in DOMAIN top.held
      BY <3>1
    <3>3. PICK s \in KeptBelow(stack, cur) :
              s[1] = Root(cur, i - 1) /\ s[2] = top.means[top.held[i]]
      BY <3>2, TopKept
    <3>4. s[2] = a.means[v] /\ s \in Saved
      BY <3>1, <3>3 DEF Saved
    <3>5. <<args[s[1]], s[2]>> \in Holds
      BY <3>4 DEF Holds
    <3> QED
      BY <3>1, <3>3, <3>4, <3>5
  <2> QED
    BY <1>2, <2>1, <2>2, <2>3
<1>6. Holds' \subseteq Holds
  <2>1. OwnOf(code', cur, d, answer') = {}
    BY DEF OwnOf
  <2> QED
    BY <1>3, <1>5, <2>1, InPlaceHolds
<1> QED
  BY <1>2, <1>4, <1>6

LEMMA ReturnedMeaning ==
    ASSUME FramesInv, Room, Shaped, Promised, Returned
    PROVE  Quiet /\ Shaped' /\ Named' /\ Holds' \subseteq Holds
<1>1. /\ code = "returned" /\ pc = "mutator" /\ stack # <<>> /\ IsActivation(top)
      /\ cur \in 1 .. CALLS /\ cur \in Depths
      /\ UNCHANGED <<mem, alloc, limit, answer, steps, next, gen, copyVars, result>>
  BY Nested, TopProperties DEF Returned, Ready, FramesInv, NoCollector, Depths
<1>2. PICK k, c : k = Len(top.held) /\ c = Reloaded(top)
  OBVIOUS
<1>3. PICK n \in Requests, fresh \in BOOLEAN :
        LET b == [c EXCEPT !.vars[top.result] = args[Answer],
                           !.means[top.result] = answer, !.fresh = fresh]
            xs == IF fresh THEN <<top.result>> ELSE <<>>
        IN  IF NeedsGC(n, b)
            THEN /\ stack' = [stack EXCEPT ![cur] = b]
                 /\ update_stack(cur, k + Len(xs))
                 /\ CallGC(n, b, k, xs, "collected")
                 /\ UNCHANGED budget
            ELSE /\ Discard(b)
                 /\ budget' = n
                 /\ fp' = reset_stack(cur, k, FALSE)
                 /\ UNCHANGED <<args, fi, pc, frames>>
  BY <1>2 DEF Returned
<1>4. PICK b, xs :
        /\ b = [c EXCEPT !.vars[top.result] = args[Answer],
                         !.means[top.result] = answer, !.fresh = fresh]
        /\ xs = IF fresh THEN <<top.result>> ELSE <<>>
  OBVIOUS
<1>5. /\ IsActivation(c) /\ c.live = top.live /\ c.held = top.held /\ c.result = top.result
      /\ c.alloc = alloc /\ c.limit = limit /\ c.vars = top.vars /\ c.means = top.means
  BY <1>1, <1>2, ReloadedProperties, ReloadedSame
<1>6. /\ IsActivation(b) /\ b.live = top.live /\ b.held = top.held /\ b.fresh = fresh
      /\ b.result = top.result /\ b.alloc = alloc /\ b.limit = limit
      /\ b.vars = [top.vars EXCEPT ![top.result] = args[Answer]]
      /\ b.means = [top.means EXCEPT ![top.result] = answer]
  <2>1. PICK r, w : r = top.result /\ w = args[Answer]
    OBVIOUS
  <2>2. b = [c EXCEPT !.vars[r] = w, !.means[r] = answer, !.fresh = fresh]
    BY <1>4, <2>1
  <2>3. /\ IsActivation(b) /\ b.live = c.live /\ b.held = c.held /\ b.fresh = fresh
        /\ b.result = c.result /\ b.alloc = c.alloc /\ b.limit = c.limit
        /\ b.vars = [c.vars EXCEPT ![r] = w] /\ b.means = [c.means EXCEPT ![r] = answer]
    <3>1. IsActivation(c)
      BY <1>5
    <3> QED
      BY <2>2, <3>1 DEF IsActivation, ActivationFields
  <2> QED
    BY <1>5, <2>1, <2>3
<1>7. Scope(top) /\ Waiting(top)
  BY <1>1 DEF Shaped, top
<1>8. top.result \in Locals /\ top.result \notin top.live
  BY <1>1, <1>7 DEF IsActivation, Waiting
<1>9. /\ Scope(b) /\ Waiting(b)
      /\ b.vars[top.result] = args[Answer] /\ b.means[top.result] = answer
      /\ \A v \in top.live : b.means[v] = top.means[v]
  BY <1>6, <1>7, <1>8 DEF Scope, Waiting
<1>10. \A i \in DOMAIN b.held : b.means[b.held[i]] = top.means[b.held[i]]
  BY <1>6, <1>7, <1>9 DEF Waiting, Listing
<1>11. <<args[Answer], answer>> \in Holds
  <2>1. <<Answer, answer>> \in Own
    BY <1>1 DEF Own, OwnOf
  <2> QED
    BY <2>1, HoldsIs DEF Saved
<1>12. CASE ~ NeedsGC(n, b)
  <2>1. Discard(b) /\ budget' = n /\ UNCHANGED <<args, fi, pc, frames>>
    BY <1>3, <1>4, <1>12
  <2>2. stack' = [stack EXCEPT ![cur] = Discarded(b)] /\ code' = "run"
    BY <2>1 DEF Discard, Discarded
  <2>3. <<b.vars[b.result], b.means[b.result]>> \in Holds
    BY <1>6, <1>9, <1>11
  <2>4. Shaped' /\ Holds' \subseteq Holds /\ top'.alloc = b.alloc
    BY <1>1, <1>6, <1>9, <1>10, <2>1, <2>2, <2>3, DiscardMeaning
  <2>5. vAlloc' = vAlloc /\ b.alloc = vAlloc
    BY <1>1, <1>6, <2>1, <2>2, <2>4 DEF vAlloc
  <2>6. Quiet /\ Named'
    BY <1>1, <1>6, <1>12, <2>1, <2>5, FitsQuiet
  <2> QED
    BY <2>4, <2>6
<1>13. CASE NeedsGC(n, b)
  <2>1. /\ stack' = [stack EXCEPT ![cur] = b] /\ update_stack(cur, k + Len(xs))
        /\ CallGC(n, b, k, xs, "collected") /\ budget' = budget
    BY <1>3, <1>4, <1>13
  <2>2. code' = "collected" /\ args' = Pushed(cur, b, k, xs)
    BY <2>1 DEF CallGC
  <2>3. BecomesTop(b)
    BY <1>1, <1>6, <1>9, <1>10, <2>1, <2>2 DEF BecomesTop, Shaped
  <2>4. Shaped' /\ top' = b /\ cur' = cur
    BY <2>3, InPlaceShaped
  <2>5. /\ k \in Nat /\ k < Width /\ xs \in Seq(Locals) /\ k + Len(xs) <= Width
        /\ fresh => Len(xs) = 1 /\ DOMAIN xs = {1} /\ xs[1] = top.result
        /\ ~ fresh => Len(xs) = 0 /\ DOMAIN xs = {}
    <3>1. k \in Nat /\ k < Width /\ Width \in Nat
      BY <1>1, <1>2, <1>7, WidthType, LenProperties DEF IsActivation, Waiting
    <3>2. CASE fresh
      <4>1. xs = <<top.result>> /\ xs \in Seq(Locals) /\ Len(xs) = 1 /\ DOMAIN xs = {1}
            /\ xs[1] = top.result
        BY <1>4, <1>8, <3>2
      <4> QED
        BY <3>1, <3>2, <4>1
    <3>3. CASE ~ fresh
      <4>1. xs = <<>> /\ xs \in Seq(Locals) /\ Len(xs) = 0 /\ DOMAIN xs = {}
        BY <1>4, <3>3
      <4> QED
        BY <3>1, <3>3, <4>1
    <3> QED
      BY <3>2, <3>3
  <2>6. PushedTo(args', cur, b, k, xs)
    BY <1>1, <2>2, <2>5, PushedAt DEF Promised
  <2>7. \A s \in KeptBelow(stack, cur) : args'[s[1]] = args[s[1]]
    <3> SUFFICES ASSUME NEW s \in KeptBelow(stack, cur) PROVE args'[s[1]] = args[s[1]]
      OBVIOUS
    <3>1. PICK m \in 1 .. cur : \E i \in DOMAIN stack[m].held :
              s = <<Root(m, i - 1), stack[m].means[stack[m].held[i]]>>
      BY KeptBelowIs
    <3>2. PICK i \in DOMAIN stack[m].held : s[1] = Root(m, i - 1)
      BY <3>1
    <3>3. m \in Depths /\ i - 1 \in RootNumbers
      BY KeptAt
    <3>4. m = cur => i - 1 < k
      BY <1>1, <1>2, <3>2, LenProperties DEF top, IsActivation
    <3> QED
      BY <2>6, <3>2, <3>3, <3>4 DEF PushedTo
  <2>8. fresh => args'[Root(cur, k)] = args[Answer]
    <3>1. k + 1 - 1 = k
      BY <2>5
    <3> QED
      BY <1>9, <2>5, <2>6, <3>1 DEF PushedTo
  <2>9. ASSUME NEW s \in OwnOf(code', cur, b, answer') PROVE <<args'[s[1]], s[2]>> \in Holds
    <3>1. fresh /\ s = <<Root(cur, k), answer>>
      BY <1>2, <1>6, <1>9, <2>2, <2>9 DEF OwnOf
    <3>2. s[1] = Root(cur, k) /\ s[2] = answer
      BY <3>1
    <3> QED
      BY <1>11, <2>8, <3>1, <3>2
  <2>10. Holds' \subseteq Holds
    <3>1. InVarsOf(code', b) = {}
      BY <2>2 DEF InVarsOf
    <3> QED
      BY <2>3, <2>7, <2>9, <3>1, InPlaceHolds
  <2>11. OwnFrame'
    <3>1. Pushes' = k + Len(xs)
      BY <1>2, <1>6, <2>2, <2>4, <2>5 DEF Pushes
    <3>2. k + Len(xs) # 0 => frames'[cur].next = k + Len(xs)
      BY <1>1, <2>1, <2>5 DEF update_stack, FramesInv, FramesOK
    <3> QED
      BY <2>4, <3>1, <3>2 DEF OwnFrame
  <2>12. \A j \in DOMAIN xs : \E p \in Holds : p[1] = b.vars[xs[j]]
    <3> SUFFICES ASSUME NEW j \in DOMAIN xs PROVE \E p \in Holds : p[1] = b.vars[xs[j]]
      OBVIOUS
    <3>1. xs[j] = top.result
      BY <2>5
    <3>2. PICK p : p = <<args[Answer], answer>>
      OBVIOUS
    <3>3. p \in Holds /\ p[1] = args[Answer]
      BY <1>11, <3>2
    <3> QED
      BY <1>9, <3>1, <3>3
  <2>13. AsksGC(n, b, k, xs, "collected")
    BY <1>1, <2>1, <2>5 DEF AsksGC
  <2>14. Quiet /\ Named'
    BY <2>4, <2>10, <2>11, <2>12, <2>13, ReturnedFrames, CallGCQuiet
  <2> QED
    BY <2>4, <2>10, <2>14
<1> QED
  BY <1>12, <1>13

LEMMA CollectedMeaning ==
    ASSUME FramesInv, Room, Shaped, Promised, Collected
    PROVE  Quiet /\ Shaped' /\ Named' /\ Holds' \subseteq Holds
<1>1. /\ code = "collected" /\ pc = "mutator" /\ stack # <<>> /\ IsActivation(top)
      /\ cur \in 1 .. CALLS /\ code' = "run"
      /\ UNCHANGED <<mem, args, alloc, limit, fi, budget, pc, answer, steps, next, gen,
                     copyVars, result>>
  BY Nested, TopProperties DEF Collected, Ready, FramesInv, NoCollector, Discard
<1>2. PICK k, c, xs, values, a :
        /\ k = Len(top.held) /\ c = Reloaded(top)
        /\ xs = (IF top.fresh THEN <<top.result>> ELSE <<>>)
        /\ values = Popped(cur, c.vars, k, xs) /\ a = [c EXCEPT !.vars = values]
  OBVIOUS
<1>3. stack' = [stack EXCEPT ![cur] = Discarded(a)]
  BY <1>2 DEF Collected, Discard, Discarded
<1>4. /\ IsActivation(c) /\ c.live = top.live /\ c.held = top.held /\ c.result = top.result
      /\ c.alloc = alloc /\ c.fresh = top.fresh /\ c.vars = top.vars /\ c.means = top.means
  BY <1>1, <1>2, ReloadedProperties, ReloadedSame
<1>5. /\ IsActivation(a) /\ a.live = top.live /\ a.held = top.held /\ a.fresh = top.fresh
      /\ a.result = top.result /\ a.alloc = alloc /\ a.vars = values /\ a.means = top.means
  <2>1. a = [c EXCEPT !.vars = values] /\ IsActivation(c)
    BY <1>2, <1>4
  <2>2. /\ IsActivation(a) /\ a.live = c.live /\ a.held = c.held /\ a.fresh = c.fresh
        /\ a.result = c.result /\ a.alloc = c.alloc
    BY <2>1, VarsProperties
  <2>3. a.vars = values /\ a.means = c.means
    BY <2>1, VarsReplaced
  <2> QED
    BY <1>4, <2>2, <2>3
<1>6. Scope(top) /\ Waiting(top)
  BY <1>1 DEF Shaped, top
<1>7. top.result \in Locals
  BY <1>1 DEF IsActivation
<1>8. PICK S : Listing(xs, S)
  <2>1. CASE top.fresh
    <3>1. Listing(<<top.result>>, {top.result})
      BY <1>7 DEF Listing
    <3> QED
      BY <1>2, <2>1, <3>1
  <2>2. CASE ~ top.fresh
    <3>1. Listing(<<>>, {})
      BY DEF Listing
    <3> QED
      BY <1>2, <2>2, <3>1
  <2> QED
    BY <2>1, <2>2
<1>9. PoppedTo(values, cur, top.vars, k, xs, S)
  BY <1>2, <1>4, <1>8, PoppedAt
<1>10. Scope(a) /\ Waiting(a)
  BY <1>5, <1>6, <1>9 DEF Scope, Waiting, PoppedTo
<1>11. ASSUME a.fresh PROVE <<a.vars[a.result], a.means[a.result]>> \in Holds
  <2>1. xs = <<top.result>> /\ 1 \in DOMAIN xs /\ xs[1] = top.result
    BY <1>2, <1>5, <1>11
  <2>2. k \in Nat /\ k + 1 - 1 = k
    BY <1>1, <1>2, LenProperties DEF IsActivation
  <2>3. values[top.result] = args[Root(cur, k)]
    BY <1>6, <1>7, <1>9, <2>1, <2>2 DEF PoppedTo, Scope
  <2>4. <<Root(cur, k), top.means[top.result]>> \in Own
    BY <1>1, <1>2, <1>5, <1>11 DEF Own, OwnOf
  <2>5. <<args[Root(cur, k)], top.means[top.result]>> \in Holds
    BY <2>4, HoldsIs DEF Saved
  <2> QED
    BY <1>5, <2>3, <2>5
<1>12. Shaped' /\ Holds' \subseteq Holds /\ top'.alloc = a.alloc
  BY <1>1, <1>3, <1>5, <1>10, <1>11, DiscardMeaning
<1>13. vAlloc' = vAlloc
  BY <1>1, <1>5, <1>12 DEF vAlloc
<1>14. Quiet /\ Named'
  BY <1>1, <1>13, PlainQuiet DEF Promised
<1> QED
  BY <1>12, <1>14

\* A body gives v a value, which stands for mean.
Defines(a, v, value, mean) ==
    /\ IsActivation(a) /\ v \in Locals /\ a.held = top.held /\ a.live = top.live \cup {v}
    /\ a.fresh = top.fresh
    /\ a.vars = [top.vars EXCEPT ![v] = value] /\ a.means = [top.means EXCEPT ![v] = mean]

LEMMA DefinedIs ==
    ASSUME IsActivation(top), NEW v \in Locals, NEW value, NEW mean,
           NEW a, a = Defined(top, v, value, mean)
    PROVE  Defines(a, v, value, mean) /\ a.alloc = top.alloc
  BY DEF IsActivation, ActivationFields, Defined, Defines

LEMMA DefinesMeaning ==
    ASSUME FramesInv, Shaped, code = "run", code' = "run", args' = args,
           steps < STEPS, steps' = steps + 1, stack # <<>>,
           NEW a, NEW v, NEW value, NEW mean, Defines(a, v, value, mean),
           stack' = [stack EXCEPT ![cur] = a]
    PROVE  Shaped' /\ top' = a /\ Holds' \subseteq Holds \cup {<<value, mean>>}
<1>1. /\ IsActivation(a) /\ v \in Locals /\ a.held = top.held /\ a.live = top.live \cup {v}
      /\ a.fresh = top.fresh /\ cur \in 1 .. cur /\ IsActivation(top)
      /\ a.vars = [top.vars EXCEPT ![v] = value] /\ a.means = [top.means EXCEPT ![v] = mean]
  BY TopProperties DEF Defines, FramesInv
<1>2. Scope(top) /\ top.held = <<>>
  BY <1>1 DEF Shaped, top
<1>3. /\ Scope(a) /\ a.held = <<>> /\ a.vars[v] = value /\ a.means[v] = mean
      /\ \A w \in top.live : w # v => a.vars[w] = top.vars[w] /\ a.means[w] = top.means[w]
  BY <1>1, <1>2 DEF Scope, IsActivation
<1>4. steps' \in 0 .. STEPS
  BY BoundsAssumption DEF Shaped
<1>5. BecomesTop(a)
  BY <1>1, <1>3, <1>4 DEF BecomesTop
<1>6. Shaped' /\ top' = a
  BY <1>5, InPlaceShaped
<1>7. PICK H : H = Holds \cup {<<value, mean>>}
  OBVIOUS
<1>8. ASSUME NEW w \in InVarsOf(code', a) PROVE <<a.vars[w], a.means[w]>> \in H
  <2>1. w \in top.live \cup {v}
    BY <1>1, <1>8 DEF InVarsOf
  <2>2. CASE w = v
    BY <1>3, <1>7, <2>2
  <2>3. CASE w # v
    <3>1. w \in InVars
      BY <2>1, <2>3 DEF InVars, InVarsOf
    <3>2. <<top.vars[w], top.means[w]>> \in Holds
      BY <3>1, HoldsIs
    <3> QED
      BY <1>3, <1>7, <2>1, <2>3, <3>2
  <2> QED
    BY <2>2, <2>3
<1>9. Holds' \subseteq H
  <2>1. OwnOf(code', cur, a, answer') = {} /\ Holds \subseteq H
    BY <1>7 DEF OwnOf
  <2> QED
    BY <1>5, <1>8, <2>1, InPlaceHolds
<1> QED
  BY <1>6, <1>7, <1>9

LEMMA EnumMeaning ==
    ASSUME FramesInv, Room, Shaped, Promised, Enum
    PROVE  /\ Quiet /\ Shaped' /\ Named' /\ steps' = steps + 1
           /\ Holds' \subseteq Holds \cup {<<Long(1), Leaf(1)>>}
<1>1. /\ Ready("run") /\ code = "run" /\ pc = "mutator" /\ stack # <<>> /\ IsActivation(top)
  BY Nested, TopProperties DEF Enum, Ready, FramesInv
<1>2. /\ UNCHANGED <<mem, budget, args, alloc, limit, fi, pc, code, answer>>
      /\ UNCHANGED <<next, gen, copyVars, result>>
  BY DEF Enum, NoCall, NoCollector
<1>3. PICK v \in Locals : Operation(Defined(top, v, Long(1), Leaf(1)))
  BY DEF Enum
<1>4. PICK a : a = Defined(top, v, Long(1), Leaf(1))
  OBVIOUS
<1>5. steps < STEPS /\ steps' = steps + 1 /\ stack' = [stack EXCEPT ![cur] = a]
  BY <1>3, <1>4 DEF Operation
<1>6. Defines(a, v, Long(1), Leaf(1)) /\ a.alloc = top.alloc
  BY <1>1, <1>4, DefinedIs
<1>7. Shaped' /\ top' = a /\ Holds' \subseteq Holds \cup {<<Long(1), Leaf(1)>>}
  BY <1>1, <1>2, <1>5, <1>6, DefinesMeaning
<1>8. vAlloc' = vAlloc
  BY <1>1, <1>2, <1>6, <1>7 DEF vAlloc
<1>9. Quiet /\ Named'
  BY <1>1, <1>2, <1>8, PlainQuiet DEF Promised
<1> QED
  BY <1>5, <1>7, <1>9

LEMMA ProjectMeaning ==
    ASSUME FramesInv, Room, Shaped, Promised, Project
    PROVE  /\ Quiet /\ Shaped' /\ Named' /\ steps' = steps + 1
           /\ \E w, mean : \E i \in {1, 2} :
                  /\ <<w, mean>> \in Holds /\ IsPtr(w)
                  /\ Holds' \subseteq Holds \cup {<<Field(mem, w, i - 1), mean[3][i]>>}
<1>1. /\ Ready("run") /\ code = "run" /\ pc = "mutator" /\ stack # <<>> /\ IsActivation(top)
  BY Nested, TopProperties DEF Project, Ready, FramesInv
<1>2. /\ UNCHANGED <<mem, budget, args, alloc, limit, fi, pc, code, answer>>
      /\ UNCHANGED <<next, gen, copyVars, result>>
  BY DEF Project, NoCall, NoCollector
<1>3. PICK v \in Locals, x \in top.live, i \in {1, 2} :
        /\ IsPtr(top.vars[x])
        /\ Operation(Defined(top, v, Field(mem, top.vars[x], i - 1), top.means[x][3][i]))
  BY DEF Project
<1>4. PICK w, mean, value, tree :
        /\ w = top.vars[x] /\ mean = top.means[x]
        /\ value = Field(mem, w, i - 1) /\ tree = mean[3][i]
  OBVIOUS
<1>5. PICK a : a = Defined(top, v, value, tree)
  OBVIOUS
<1>6. steps < STEPS /\ steps' = steps + 1 /\ stack' = [stack EXCEPT ![cur] = a]
  BY <1>3, <1>4, <1>5 DEF Operation
<1>7. Defines(a, v, value, tree) /\ a.alloc = top.alloc
  BY <1>1, <1>5, DefinedIs
<1>8. Shaped' /\ top' = a /\ Holds' \subseteq Holds \cup {<<value, tree>>}
  BY <1>1, <1>2, <1>6, <1>7, DefinesMeaning
<1>9. vAlloc' = vAlloc
  BY <1>1, <1>2, <1>7, <1>8 DEF vAlloc
<1>10. Quiet /\ Named'
  BY <1>1, <1>2, <1>9, PlainQuiet DEF Promised
<1>11. <<w, mean>> \in Holds /\ IsPtr(w)
  <2>1. x \in InVars
    BY <1>1, <1>3 DEF InVars, InVarsOf
  <2> QED
    BY <1>3, <1>4, <2>1, HoldsIs
<1> QED
  BY <1>3, <1>4, <1>6, <1>8, <1>10, <1>11

\* A body makes a pair of what it has, in the words after its alloc.
MakesPairOf(t, x, y) ==
    /\ pc = "mutator" /\ pc' = "mutator" /\ budget >= 3
    /\ mem' = [mem EXCEPT ![0] = [k \in DOMAIN @ |->
           IF k \in vAlloc + 1 .. vAlloc + 3 THEN <<Header(2, t), x, y>>[k - vAlloc] ELSE @[k]]]
    /\ vAlloc' = vAlloc + 3 /\ budget' = budget - 3
    /\ UNCHANGED <<next, args, limit, fi, gen, copyVars, result>>

LEMMA ConstructMeaning ==
    ASSUME FramesInv, Room, Shaped, Promised, Construct
    PROVE  /\ Shaped' /\ Named' /\ steps' = steps + 1
           /\ \E t \in Ordinals : \E x, y, l, r :
                  /\ <<x, l>> \in Holds /\ <<y, r>> \in Holds /\ MakesPairOf(t, x, y)
                  /\ Holds' \subseteq Holds \cup {<<Ptr(0, vAlloc + 2), Node(t, <<l, r>>)>>}
<1>1. /\ Ready("run") /\ code = "run" /\ pc = "mutator" /\ stack # <<>> /\ IsActivation(top)
      /\ vAlloc = top.alloc
  BY Nested, TopProperties DEF Construct, Ready, FramesInv, vAlloc
<1>2. /\ UNCHANGED <<args, alloc, limit, fi, pc, code, answer>>
      /\ UNCHANGED <<next, gen, copyVars, result>> /\ budget >= 3 /\ budget' = budget - 3
  BY DEF Construct, NoCall, NoCollector
<1>3. PICK v \in Locals, x \in top.live, y \in top.live, t \in Ordinals :
        LET a == Defined(top, v, Ptr(0, top.alloc + 2),
                         Node(t, <<top.means[x], top.means[y]>>))
            new == <<Header(2, t), top.vars[x], top.vars[y]>>
        IN  /\ Operation([a EXCEPT !.alloc = @ + 3])
            /\ mem' = [mem EXCEPT ![0] = [k \in DOMAIN @ |->
                   IF k \in top.alloc + 1 .. top.alloc + 3
                   THEN new[k - top.alloc] ELSE @[k]]]
  BY DEF Construct
<1>4. PICK u, w, l, r, value, tree :
        /\ u = top.vars[x] /\ w = top.vars[y] /\ l = top.means[x] /\ r = top.means[y]
        /\ value = Ptr(0, top.alloc + 2) /\ tree = Node(t, <<l, r>>)
  OBVIOUS
<1>5. PICK d, a : d = Defined(top, v, value, tree) /\ a = [d EXCEPT !.alloc = @ + 3]
  OBVIOUS
<1>6. /\ steps < STEPS /\ steps' = steps + 1 /\ stack' = [stack EXCEPT ![cur] = a]
      /\ mem' = [mem EXCEPT ![0] = [k \in DOMAIN @ |->
             IF k \in top.alloc + 1 .. top.alloc + 3
             THEN <<Header(2, t), u, w>>[k - top.alloc] ELSE @[k]]]
  BY <1>3, <1>4, <1>5 DEF Operation
<1>7. Defines(d, v, value, tree) /\ d.alloc = top.alloc
  BY <1>1, <1>5, DefinedIs
<1>8. Defines(a, v, value, tree) /\ a.alloc = top.alloc + 3
  BY <1>5, <1>7 DEF Defines, IsActivation, ActivationFields
<1>9. Shaped' /\ top' = a /\ Holds' \subseteq Holds \cup {<<value, tree>>}
  BY <1>1, <1>2, <1>6, <1>8, DefinesMeaning
<1>10. vAlloc' = vAlloc + 3
  BY <1>1, <1>2, <1>8, <1>9 DEF vAlloc
<1>11. <<u, l>> \in Holds /\ <<w, r>> \in Holds
  <2>1. x \in InVars /\ y \in InVars
    BY <1>1, <1>3 DEF InVars, InVarsOf
  <2> QED
    BY <1>4, <2>1, HoldsIs
<1>12. Named'
  BY <1>1, <1>2 DEF Named
<1>13. MakesPairOf(t, u, w)
  BY <1>1, <1>2, <1>6, <1>10 DEF MakesPairOf
<1> QED
  BY <1>1, <1>4, <1>6, <1>9, <1>11, <1>12, <1>13

\* What a callee gets is what its caller has.
LEMMA CalleeValues ==
    ASSUME NEW xs \in Passed, NEW a, a = Callee(xs)
    PROVE  /\ Scope(a) /\ a.held = <<>>
           /\ \A v \in a.live : \E x \in top.live :
                  a.vars[v] = top.vars[x] /\ a.means[v] = top.means[x]
<1>1. Len(xs) \in 0 .. 2 /\ DOMAIN xs = 1 .. Len(xs) /\ \A i \in DOMAIN xs : xs[i] \in top.live
  BY DEF Passed
<1>2. PICK params : params = SubSeq(LocalNames, 1, Len(xs))
  OBVIOUS
<1>3. DOMAIN params = DOMAIN xs /\ \A i \in DOMAIN params : params[i] \in Locals
  <2>1. PICK n : n = Len(xs) /\ n \in 0 .. 2 /\ DOMAIN xs = 1 .. n
    BY <1>1
  <2>2. LocalNames \in Seq(Locals) /\ Len(LocalNames) \in Nat /\ n <= Len(LocalNames)
    BY <2>1, NamesAssumption, LenProperties
  <2>3. params = SubSeq(LocalNames, 1, n)
    BY <1>2, <2>1
  <2> QED
    BY <2>1, <2>2, <2>3
<1>4. PICK values, means :
        /\ values = [i \in DOMAIN xs |-> top.vars[xs[i]]]
        /\ means = [i \in DOMAIN xs |-> top.means[xs[i]]]
  OBVIOUS
<1>5. a = Activation(params, values, means)
  BY <1>2, <1>4 DEF Callee
<1>6. /\ a.vars = [v \in Locals |->
             IF \E i \in DOMAIN params : params[i] = v
             THEN values[CHOOSE i \in DOMAIN params : params[i] = v] ELSE Long(0)]
      /\ a.means = [v \in Locals |->
             IF \E i \in DOMAIN params : params[i] = v
             THEN means[CHOOSE i \in DOMAIN params : params[i] = v] ELSE Leaf(0)]
      /\ a.live = {params[i] : i \in DOMAIN params} /\ a.held = <<>> /\ a.fresh = FALSE
  BY <1>5 DEF Activation
<1>7. ASSUME NEW v \in a.live
      PROVE  \E x \in top.live : a.vars[v] = top.vars[x] /\ a.means[v] = top.means[x]
  <2>1. \E i \in DOMAIN params : params[i] = v
    BY <1>6
  <2>2. PICK i : i = (CHOOSE j \in DOMAIN params : params[j] = v) /\ i \in DOMAIN xs
    BY <1>3, <2>1
  <2>3. v \in Locals
    BY <1>3, <2>1
  <2>4. a.vars[v] = values[i] /\ a.means[v] = means[i]
    BY <1>6, <2>1, <2>2, <2>3
  <2>5. values[i] = top.vars[xs[i]] /\ means[i] = top.means[xs[i]]
    BY <1>4, <2>2
  <2> QED
    BY <1>1, <2>2, <2>4, <2>5
<1> QED
  BY <1>6, <1>7 DEF Scope

LEMMA HoldsFrom ==
    ASSUME NEW H, \A s \in Saved' : <<args'[s[1]], s[2]>> \in H,
           \A v \in InVars' : <<top'.vars[v], top'.means[v]>> \in H
    PROVE  Holds' \subseteq H
  BY HoldsIsAfter

LEMMA AppMeaning ==
    ASSUME FramesInv, Room, Shaped, Promised, App
    PROVE  Quiet /\ Shaped' /\ Named' /\ Holds' \subseteq Holds /\ steps' = steps + 1
<1>1. /\ Ready("run") /\ code = "run" /\ pc = "mutator" /\ stack # <<>> /\ IsActivation(top)
      /\ code' = "enter" /\ alloc' = top.alloc /\ top.limit = limit
  BY Running DEF App
<1>2. UNCHANGED <<mem, args, fi, budget, pc, answer, next, gen, copyVars, result>>
      /\ limit' = top.limit
  BY DEF App, NoCollector
<1>3. PICK xs \in Passed : Operation(Callee(xs))
  BY DEF App
<1>4. PICK a : a = Callee(xs)
  OBVIOUS
<1>5. steps < STEPS /\ steps' = steps + 1 /\ stack' = [stack EXCEPT ![cur] = a]
  BY <1>3, <1>4 DEF Operation
<1>6. /\ IsActivation(a) /\ Scope(a) /\ a.held = <<>>
      /\ \A v \in a.live : \E x \in top.live :
             a.vars[v] = top.vars[x] /\ a.means[v] = top.means[x]
  BY <1>4, CalleeValues, CalleeProperties
<1>7. steps' \in 0 .. STEPS
  BY <1>5, BoundsAssumption DEF Shaped
<1>8. BecomesTop(a)
  BY <1>1, <1>5, <1>6, <1>7 DEF BecomesTop
<1>9. Shaped'
  BY <1>8, InPlaceShaped
<1>10. ASSUME NEW v \in InVarsOf(code', a) PROVE <<a.vars[v], a.means[v]>> \in Holds
  <2>1. v \in a.live
    BY <1>1, <1>10 DEF InVarsOf
  <2>2. PICK x \in top.live : a.vars[v] = top.vars[x] /\ a.means[v] = top.means[x]
    BY <1>6, <2>1
  <2>3. x \in InVars
    BY <1>1, <2>2 DEF InVars, InVarsOf
  <2> QED
    BY <2>2, <2>3, HoldsIs
<1>11. Holds' \subseteq Holds
  <2>1. OwnOf(code', cur, a, answer') = {}
    BY <1>1 DEF OwnOf
  <2> QED
    BY <1>2, <1>8, <1>10, <2>1, InPlaceHolds
<1>12. vAlloc' = vAlloc
  BY <1>1 DEF vAlloc
<1>13. Quiet /\ Named'
  BY <1>1, <1>2, <1>12, PlainQuiet DEF Promised
<1> QED
  BY <1>5, <1>9, <1>11, <1>13

LEMMA HaltMeaning ==
    ASSUME FramesInv, Room, Shaped, Promised, Halt
    PROVE  Quiet /\ Shaped' /\ Named' /\ Holds' \subseteq Holds
<1>1. /\ Ready("run") /\ code = "run" /\ pc = "mutator" /\ stack # <<>>
      /\ alloc' = top.alloc /\ top.limit = limit
      /\ cur \in 1 .. CALLS /\ DOMAIN stack = 1 .. cur
  BY Running, TopProperties DEF Halt, FramesInv
<1>2. /\ UNCHANGED <<mem, fi, budget, pc, next, gen, copyVars, result, steps>>
      /\ limit' = top.limit /\ code' \in {"returned", "halted"}
      /\ stack' = SubSeq(stack, 1, cur - 1)
  BY DEF Halt, NoCollector
<1>3. PICK x \in top.live : args' = [args EXCEPT ![Answer] = top.vars[x]] /\ answer' = top.means[x]
  BY DEF Halt
<1>4. <<top.vars[x], top.means[x]>> \in Holds
  <2>1. x \in InVars
    BY <1>1, <1>3 DEF InVars, InVarsOf
  <2> QED
    BY <2>1, HoldsIs
<1>5. /\ DOMAIN args' = Slots /\ args'[Answer] = top.vars[x]
      /\ \A k \in Slots : k # Answer => args'[k] = args[k]
  BY <1>3, RootsApart DEF Promised
<1>6. cur' = cur - 1 /\ \A n \in 1 .. cur - 1 : stack'[n] = stack[n]
  BY <1>1, <1>2, FrontSeq, IsSeqLen DEF FramesInv, StackOK, cur
<1>7. Shaped'
  <2>1. \A n \in 1 .. cur - 1 : n \in 1 .. cur /\ n < cur
    BY <1>1
  <2>2. \A n \in 1 .. cur - 1 : Scope(stack'[n]) /\ Waiting(stack'[n])
    BY <1>6, <2>1 DEF Shaped
  <2>3. steps' \in 0 .. STEPS
    BY <1>2 DEF Shaped
  <2> QED
    BY <1>2, <1>6, <2>2, <2>3 DEF Shaped
<1>8. KeptBelow(stack', cur') \subseteq KeptBelow(stack, cur)
  <2> SUFFICES ASSUME NEW s \in KeptBelow(stack', cur') PROVE s \in KeptBelow(stack, cur)
    OBVIOUS
  <2>1. PICK m \in 1 .. cur - 1 : \E i \in DOMAIN stack'[m].held :
            s = <<Root(m, i - 1), stack'[m].means[stack'[m].held[i]]>>
    BY <1>6, KeptBelowIs
  <2>2. \E i \in DOMAIN stack[m].held : s = <<Root(m, i - 1), stack[m].means[stack[m].held[i]]>>
    BY <1>6, <2>1
  <2>3. m \in 1 .. cur
    BY <1>1, <2>1
  <2> QED
    BY <2>2, <2>3, KeptBelowIs
<1>9. Own' = {<<Answer, answer'>>} /\ InVars' = {}
  BY <1>2 DEF Own, OwnOf, InVars, InVarsOf
<1>10. ASSUME NEW s \in Saved' PROVE <<args'[s[1]], s[2]>> \in Holds
  <2>1. CASE s \in Own'
    <3>1. s[1] = Answer /\ s[2] = top.means[x]
      BY <1>3, <1>9, <2>1
    <3> QED
      BY <1>4, <1>5, <3>1
  <2>2. CASE s \in KeptBelow(stack', cur')
    <3>1. s \in KeptBelow(stack, cur) /\ s \in Saved
      BY <1>8, <2>2 DEF Saved
    <3>2. s[1] \in Slots /\ s[1] # Answer
      BY <3>1, KeptSlots
    <3>3. <<args[s[1]], s[2]>> \in Holds
      BY <3>1 DEF Holds
    <3> QED
      BY <1>5, <3>2, <3>3
  <2>3. Saved' = KeptBelow(stack', cur') \cup Own'
    BY DEF Saved
  <2> QED
    BY <1>10, <2>1, <2>2, <2>3
<1>11. Holds' \subseteq Holds
  <2>1. PICK H : H = Holds
    OBVIOUS
  <2>2. \A v \in InVars' : <<top'.vars[v], top'.means[v]>> \in H
    BY <1>9
  <2>3. Holds' \subseteq H
    BY <1>10, <2>1, <2>2, HoldsFrom
  <2> QED
    BY <2>1, <2>3
<1>12. vAlloc' = vAlloc
  BY <1>1, <1>2 DEF vAlloc
<1>13. \A k \in Slots : args'[k] = args[k] \/ \E p \in Holds : args'[k] = p[1]
  <2>1. PICK p : p = <<top.vars[x], top.means[x]>>
    OBVIOUS
  <2>2. p \in Holds /\ args'[Answer] = p[1]
    BY <1>4, <1>5, <2>1
  <2> QED
    BY <1>5, <2>2
<1>14. Quiet /\ Named'
  BY <1>1, <1>2, <1>5, <1>12, <1>13, PlainQuiet
<1> QED
  BY <1>7, <1>11, <1>14

\* A program that starts wants nothing.
LEMMA FirstMeaning ==
    stack = <<Activation(<<>>, <<>>, <<>>)>> /\ code = "enter" /\ steps \in 0 .. STEPS
    => Shaped /\ Holds = {}
<1> SUFFICES ASSUME stack = <<Activation(<<>>, <<>>, <<>>)>>, code = "enter", steps \in 0 .. STEPS
             PROVE  Shaped /\ Holds = {}
  OBVIOUS
<1>1. PICK a : a = Activation(<<>>, <<>>, <<>>)
  OBVIOUS
<1>2. a.live = {} /\ a.held = <<>> /\ Scope(a)
  <2>1. /\ DOMAIN <<>> = {}
        /\ a.vars = [v \in Locals |-> IF \E i \in DOMAIN <<>> : <<>>[i] = v
               THEN <<>>[CHOOSE i \in DOMAIN <<>> : <<>>[i] = v] ELSE Long(0)]
        /\ a.means = [v \in Locals |-> IF \E i \in DOMAIN <<>> : <<>>[i] = v
               THEN <<>>[CHOOSE i \in DOMAIN <<>> : <<>>[i] = v] ELSE Leaf(0)]
        /\ a.live = {<<>>[i] : i \in DOMAIN <<>>} /\ a.held = <<>> /\ a.fresh = FALSE
    BY <1>1 DEF Activation
  <2> QED
    BY <2>1 DEF Scope
<1>3. cur = 1 /\ stack[1] = a /\ top = a
  BY <1>1 DEF cur, top
<1>4. 1 .. 1 = {1} /\ ~ (1 < 1)
  OBVIOUS
<1>5. Shaped
  BY <1>2, <1>3, <1>4 DEF Shaped
<1>6. KeptBelow(stack, 1) = {}
  <2>1. \A s : s \notin KeptBelow(stack, 1)
    BY <1>2, <1>3, <1>4, KeptBelowIs
  <2> QED
    BY <2>1
<1>7. Own = {} /\ InVars = {}
  BY <1>2, <1>3 DEF Own, OwnOf, InVars, InVarsOf
<1> QED
  BY <1>3, <1>5, <1>6, <1>7 DEF Saved, Holds

LEMMA AgainMeaning ==
    ASSUME FramesInv, Room, Shaped, Promised, Again
    PROVE  Quiet /\ Shaped' /\ Named' /\ Holds' \subseteq Holds
<1>1. /\ code = "halted" /\ pc = "mutator" /\ code' = "enter"
      /\ stack' = <<Activation(<<>>, <<>>, <<>>)>>
      /\ UNCHANGED <<mem, args, alloc, limit, fi, budget, pc, steps, next, gen, copyVars, result>>
  BY DEF Again, Ready, NoCollector
<1>2. steps' \in 0 .. STEPS
  BY <1>1 DEF Shaped
<1>3. (stack = <<Activation(<<>>, <<>>, <<>>)>> /\ code = "enter" /\ steps \in 0 .. STEPS
       => Shaped /\ Holds = {})'
  BY FirstMeaning, PTL
<1>4. Shaped' /\ Holds' = {}
  BY <1>1, <1>2, <1>3
<1>5. vAlloc' = vAlloc
  BY <1>1 DEF vAlloc
<1>6. Quiet /\ Named'
  BY <1>1, <1>5, PlainQuiet DEF Promised
<1> QED
  BY <1>4, <1>6

\* A call: the newest activation becomes a, and waits for callee.
LEMMA CallNests ==
    ASSUME FramesInv, stack # <<>>, NEW a, NEW callee,
           stack' = Append([stack EXCEPT ![cur] = a], callee)
    PROVE  /\ cur' = cur + 1 /\ top' = callee /\ stack'[cur] = a
           /\ \A n \in 1 .. cur - 1 : stack'[n] = stack[n]
<1>1. IsSeq(stack) /\ cur \in DOMAIN stack /\ DOMAIN stack = 1 .. cur /\ cur \in Nat \ {0}
  BY TopProperties DEF FramesInv, StackOK
<1>2. PICK waiting : waiting = [stack EXCEPT ![cur] = a]
  OBVIOUS
<1>3. Updates(waiting, stack, cur, a)
  BY <1>1, <1>2 DEF Updates
<1>4. /\ IsSeq(waiting) /\ Len(waiting) = cur /\ waiting[cur] = a
      /\ \A n \in DOMAIN stack : n # cur => waiting[n] = stack[n]
  BY <1>3, ReplaceSeq DEF cur
<1>5. stack' = Append(waiting, callee)
  BY <1>2
<1>6. /\ cur' = cur + 1 /\ stack'[cur + 1] = callee
      /\ \A n \in 1 .. cur : stack'[n] = waiting[n]
  BY <1>4, <1>5, AppendSeq, IsSeqLen DEF cur
<1>7. top' = callee
  BY <1>6 DEF top
<1>8. \A n \in 1 .. cur - 1 : stack'[n] = stack[n]
  BY <1>1, <1>4, <1>6
<1> QED
  BY <1>1, <1>4, <1>6, <1>7, <1>8

LEMMA LetAppMeaning ==
    ASSUME FramesInv, Room, Shaped, Promised, LetApp
    PROVE  Quiet /\ Shaped' /\ Named' /\ Holds' \subseteq Holds /\ steps' = steps + 1
<1>1. /\ Ready("run") /\ code = "run" /\ pc = "mutator" /\ stack # <<>> /\ IsActivation(top)
      /\ code' = "enter" /\ alloc' = top.alloc /\ top.limit = limit /\ limit' = top.limit
      /\ cur \in 1 .. CALLS /\ cur \in Depths /\ cur \in 1 .. cur
  BY Running, TopProperties DEF LetApp, FramesInv, Depths
<1>2. UNCHANGED <<mem, fi, budget, pc, answer, next, gen, copyVars, result>>
  BY DEF LetApp, NoCollector
<1>3. PICK x \in Locals : \E after \in SUBSET (top.live \ {x}), xs \in Passed :
        LET held == Elements(after)
            a == [Live(top, after) EXCEPT !.result = x, !.held = held]
        IN  /\ steps < STEPS
            /\ steps' = steps + 1
            /\ stack' = Append([stack EXCEPT ![cur] = a], Callee(xs))
            /\ args' = Pushed(cur, top, 0, held)
            /\ update_stack(cur, Len(held))
            /\ set_stack(cur, Len(held), FALSE)
  BY DEF LetApp
<1>4. PICK after \in SUBSET (top.live \ {x}), xs \in Passed :
        LET held == Elements(after)
            a == [Live(top, after) EXCEPT !.result = x, !.held = held]
        IN  /\ steps < STEPS
            /\ steps' = steps + 1
            /\ stack' = Append([stack EXCEPT ![cur] = a], Callee(xs))
            /\ args' = Pushed(cur, top, 0, held)
  BY <1>3
<1>5. PICK held, b, a, callee :
        /\ held = Elements(after) /\ b = Live(top, after)
        /\ a = [b EXCEPT !.result = x, !.held = held] /\ callee = Callee(xs)
  OBVIOUS
<1>6. /\ steps < STEPS /\ steps' = steps + 1 /\ args' = Pushed(cur, top, 0, held)
      /\ stack' = Append([stack EXCEPT ![cur] = a], callee)
  BY <1>4, <1>5
<1>7. /\ after \in SUBSET Locals /\ x \in Locals /\ x \notin after /\ after # Locals
      /\ after \subseteq top.live
  BY <1>1, <1>4 DEF IsActivation
<1>8. /\ Listing(held, after) /\ held \in Seq(Locals) /\ Len(held) \in Nat /\ Len(held) < Width
      /\ DOMAIN held = 1 .. Len(held)
  BY <1>5, <1>7, ElementsList, LenProperties DEF Listing
<1>9. Scope(top)
  BY <1>1 DEF Shaped, top
<1>10. /\ IsActivation(b) /\ b.live = after /\ b.fresh = top.fresh
       /\ b.vars = [v \in Locals |-> IF v \in after THEN top.vars[v] ELSE Long(0)]
       /\ b.means = [v \in Locals |-> IF v \in after THEN top.means[v] ELSE Leaf(0)]
  <2>1. IsActivation(b) /\ b.live = after /\ b.fresh = top.fresh
    BY <1>1, <1>5, <1>7, LiveProperties
  <2>2. /\ b.vars = [v \in Locals |-> IF v \in after THEN top.vars[v] ELSE Long(0)]
        /\ b.means = [v \in Locals |-> IF v \in after THEN top.means[v] ELSE Leaf(0)]
    BY <1>1, <1>5 DEF Live, IsActivation, ActivationFields
  <2> QED
    BY <2>1, <2>2
<1>11. /\ a.live = after /\ a.fresh = top.fresh /\ a.held = held /\ a.result = x
       /\ a.vars = b.vars /\ a.means = b.means
  BY <1>5, <1>10 DEF IsActivation, ActivationFields
<1>12. Scope(a) /\ Waiting(a) /\ \A i \in DOMAIN held : a.means[held[i]] = top.means[held[i]]
  <2>1. Scope(a)
    BY <1>9, <1>10, <1>11 DEF Scope
  <2>2. Waiting(a)
    BY <1>7, <1>8, <1>11 DEF Waiting
  <2>3. \A i \in DOMAIN held : held[i] \in after /\ held[i] \in Locals
    BY <1>7, <1>8 DEF Listing
  <2> QED
    BY <1>10, <1>11, <2>1, <2>2, <2>3
<1>13. /\ IsActivation(callee) /\ Scope(callee) /\ callee.held = <<>>
       /\ \A v \in callee.live : \E y \in top.live :
              callee.vars[v] = top.vars[y] /\ callee.means[v] = top.means[y]
  BY <1>5, CalleeValues, CalleeProperties
<1>14. /\ cur' = cur + 1 /\ top' = callee /\ stack'[cur] = a /\ stack'[cur + 1] = callee
       /\ \A n \in 1 .. cur - 1 : stack'[n] = stack[n]
  <2>1. /\ cur' = cur + 1 /\ top' = callee /\ stack'[cur] = a
        /\ \A n \in 1 .. cur - 1 : stack'[n] = stack[n]
    BY <1>1, <1>6, CallNests
  <2> QED
    BY <2>1 DEF top
<1>15. \A n \in 1 .. cur + 1 : n = cur + 1 \/ n = cur \/ (n \in 1 .. cur - 1 /\ n < cur /\ n \in 1 .. cur)
  BY <1>1
<1>16. Shaped'
  <2>1. \A n \in 1 .. cur + 1 : Scope(stack'[n])
    BY <1>12, <1>13, <1>14, <1>15 DEF Shaped
  <2>2. \A n \in 1 .. cur + 1 : n < cur + 1 => Waiting(stack'[n])
    <3>1. ~ (cur + 1 < cur + 1)
      BY <1>1
    <3> QED
      BY <1>12, <1>14, <1>15, <3>1 DEF Shaped
  <2>3. steps' \in 0 .. STEPS
    BY <1>6, BoundsAssumption DEF Shaped
  <2> QED
    BY <1>1, <1>13, <1>14, <2>1, <2>2, <2>3 DEF Shaped
<1>17. PushedTo(args', cur, top, 0, held)
  <2>1. 0 \in Nat /\ 0 + Len(held) <= Width
    BY <1>8, WidthType
  <2> QED
    BY <1>1, <1>6, <1>8, <2>1, PushedAt DEF Promised
<1>18. \A v \in top.live : <<top.vars[v], top.means[v]>> \in Holds
  <2>1. InVars = top.live
    BY <1>1 DEF InVars, InVarsOf
  <2> QED
    BY <2>1, HoldsIs
<1>19. \A i \in DOMAIN held : held[i] \in top.live
  BY <1>7, <1>8 DEF Listing
<1>20. DOMAIN top.held = {}
  BY <1>1 DEF Shaped
<1>21. ASSUME NEW s \in KeptBelow(stack', cur + 1) PROVE <<args'[s[1]], s[2]>> \in Holds
  <2>1. PICK m \in 1 .. cur + 1 : \E i \in DOMAIN stack'[m].held :
            s = <<Root(m, i - 1), stack'[m].means[stack'[m].held[i]]>>
    BY KeptBelowIs
  <2>2. PICK i \in DOMAIN stack'[m].held :
            s = <<Root(m, i - 1), stack'[m].means[stack'[m].held[i]]>>
    BY <2>1
  <2>3. s[1] = Root(m, i - 1) /\ s[2] = stack'[m].means[stack'[m].held[i]]
    BY <2>2
  <2>4. m # cur + 1
    BY <1>13, <1>14
  <2>5. CASE m = cur
    <3>1. i \in DOMAIN held /\ s[1] = Root(cur, i - 1) /\ s[2] = top.means[held[i]]
      BY <1>11, <1>12, <1>14, <2>3, <2>5
    <3>2. 0 + i - 1 = i - 1
      BY <1>8, <3>1
    <3>3. args'[Root(cur, i - 1)] = top.vars[held[i]]
      BY <1>17, <3>1, <3>2 DEF PushedTo
    <3> QED
      BY <1>18, <1>19, <3>1, <3>3
  <2>6. CASE m # cur
    <3>1. m \in 1 .. cur - 1 /\ m \in 1 .. cur
      BY <1>15, <2>4, <2>6
    <3>2. i \in DOMAIN stack[m].held /\ s = <<Root(m, i - 1), stack[m].means[stack[m].held[i]]>>
      BY <1>14, <2>2, <3>1
    <3>3. s \in Saved
      <4>1. s \in KeptBelow(stack, cur)
        BY <3>1, <3>2, KeptBelowIs
      <4> QED
        BY <4>1 DEF Saved
    <3>4. m \in Depths /\ i - 1 \in RootNumbers
      BY <3>1, <3>2, KeptAt
    <3>5. args'[s[1]] = args[s[1]]
      BY <1>17, <2>3, <2>6, <3>4 DEF PushedTo
    <3> QED
      BY <3>3, <3>5 DEF Holds
  <2> QED
    BY <2>5, <2>6
<1>22. Holds' \subseteq Holds
  <2>1. PICK H : H = Holds
    OBVIOUS
  <2>2. Own' = {} /\ InVars' = callee.live
    BY <1>1, <1>14 DEF Own, OwnOf, InVars, InVarsOf
  <2>3. Saved' = KeptBelow(stack', cur + 1)
    BY <1>14, <2>2 DEF Saved
  <2>4. \A s \in Saved' : <<args'[s[1]], s[2]>> \in H
    BY <1>21, <2>1, <2>3
  <2>5. \A v \in InVars' : <<top'.vars[v], top'.means[v]>> \in H
    <3>1. ASSUME NEW v \in callee.live PROVE <<callee.vars[v], callee.means[v]>> \in H
      <4>1. PICK y \in top.live : callee.vars[v] = top.vars[y] /\ callee.means[v] = top.means[y]
        BY <1>13
      <4> QED
        BY <1>18, <2>1, <4>1
    <3> QED
      BY <1>14, <2>2, <3>1
  <2>6. Holds' \subseteq H
    BY <2>4, <2>5, HoldsFrom
  <2> QED
    BY <2>1, <2>6
<1>23. vAlloc' = vAlloc
  BY <1>1 DEF vAlloc
<1>24. ASSUME NEW k \in Slots, args'[k] # args[k] PROVE \E p \in Holds : args'[k] = p[1]
  <2>1. PICK j \in DOMAIN held : args'[k] = top.vars[held[j]]
    BY <1>17, <1>24 DEF PushedTo
  <2>2. PICK p : p = <<top.vars[held[j]], top.means[held[j]]>>
    OBVIOUS
  <2>3. p \in Holds /\ args'[k] = p[1]
    BY <1>18, <1>19, <2>1, <2>2
  <2> QED
    BY <2>3
<1>25. DOMAIN args' = Slots
  BY <1>17 DEF PushedTo
<1>26. \A k \in Slots : args'[k] = args[k] \/ \E p \in Holds : args'[k] = p[1]
  BY <1>24
<1>27. Quiet /\ Named'
  BY <1>1, <1>2, <1>23, <1>25, <1>26, PlainQuiet
<1> QED
  BY <1>6, <1>16, <1>22, <1>27

-----------------------------------------------------------------------------
(* Every step, as what it does to what the program wants. *)

\* The collector moves what the program wants, and nothing else of the program.
LEMMA CollectorMeaning ==
    ASSUME FramesInv, Room, Shaped, Named, Collection \/ Copy, Returning'
    PROVE  /\ Returning /\ pc \in {"garbage_collect", "collect", "copying"} /\ fi' = fi
           /\ vAlloc = alloc /\ vAlloc' = alloc' /\ Shaped' /\ Named' /\ steps' = steps
           /\ \A q \in Holds' : \E k \in DOMAIN fi.roots :
                  q[1] = args'[fi.roots[k]] /\ <<args[fi.roots[k]], q[2]>> \in Holds
<1>1. UNCHANGED <<stack, frames, fp, code, answer, steps>>
  BY DEF Collection, Copy, stackVars
<1>2. pc \in {"garbage_collect", "collect", "copying"} /\ fi' = fi /\ Returning
  <2>1. CASE Collection
    BY <2>1 DEF Collection, GarbageCollect, CreateHeap, StartCollection, CreateNextSpace,
                CollectGeneration, GenerationCollected, GenerationCopied, RanOutOfGenerations,
                Stop, Returning
  <2>2. CASE Copy
    BY <2>2 DEF Copy, DoGeneration, ForwardOther, ForwardAgain, ForwardCopy, ScanObject,
                Copying, Returning
  <2> QED
    BY <2>1, <2>2
<1>3. code \in {"entered", "collected"}
  BY <1>2 DEF Room
<1>4. vAlloc = alloc /\ vAlloc' = alloc'
  BY <1>1, <1>3 DEF vAlloc
<1>5. /\ cur' = cur /\ top' = top
  BY <1>1 DEF cur, top
<1>6. Shaped'
  BY <1>1, <1>5 DEF Shaped
<1>7. Saved' = Saved /\ InVars' = {}
  BY <1>1, <1>3, <1>5 DEF Saved, Own, InVars, InVarsOf
<1>8. \A s \in Saved : \E k \in DOMAIN fi.roots : fi.roots[k] = s[1]
  BY <1>2 DEF Named
<1>9. ASSUME NEW q \in Holds'
      PROVE  \E k \in DOMAIN fi.roots :
                 q[1] = args'[fi.roots[k]] /\ <<args[fi.roots[k]], q[2]>> \in Holds
  <2>1. PICK s \in Saved : q = <<args'[s[1]], s[2]>>
    BY <1>7, HoldsIsAfter
  <2>2. PICK k \in DOMAIN fi.roots : fi.roots[k] = s[1]
    BY <1>8
  <2>3. q[1] = args'[fi.roots[k]] /\ q[2] = s[2]
    BY <2>1, <2>2
  <2>4. <<args[s[1]], s[2]>> \in Holds
    BY DEF Holds
  <2> QED
    BY <2>2, <2>3, <2>4
<1> QED
  BY <1>1, <1>2, <1>4, <1>6, <1>7, <1>8, <1>9 DEF Named

\* export does not come back to the program.
LEMMA ExportLeaves == ASSUME ExportAnswer \/ ExportRest PROVE ~ Returning'
<1>1. CASE ExportAnswer
  BY <1>1 DEF ExportAnswer, ExportUnboxed, ExportStart, Returning
<1>2. CASE Export
  <2>1. CASE CollectAllGeneration
    BY <2>1 DEF CollectAllGeneration, StartGeneration, Returning
  <2>2. CASE GenerationCollectedAll \/ CollectAllReturn \/ ExportCopied \/ ExportReturn
    BY <2>2 DEF GenerationCollectedAll, CollectAllReturn, ExportCopied, ExportReturn, Returning
  <2>3. CASE ExportCopy \/ ExportCompact
    BY <2>3 DEF ExportCopy, ExportCompact, CopyOut, StartGeneration, Returning
  <2> QED
    BY <1>2, <2>1, <2>2, <2>3 DEF Export
<1>3. CASE MallocFails
  BY <1>3 DEF MallocFails, Stop, Returning
<1> QED
  BY <1>1, <1>2, <1>3 DEF ExportRest

\* The program wants no more than it wanted, but for what a step gave it.
StoresOnly == Quiet /\ Holds' \subseteq Holds /\ steps' \in {steps, steps + 1}

MakesLeaf ==
    Quiet /\ Holds' \subseteq Holds \cup {<<Long(1), Leaf(1)>>} /\ steps' = steps + 1

ReadsField ==
    /\ Quiet /\ steps' = steps + 1
    /\ \E w, mean : \E i \in {1, 2} :
           /\ <<w, mean>> \in Holds /\ IsPtr(w)
           /\ Holds' \subseteq Holds \cup {<<Field(mem, w, i - 1), mean[3][i]>>}

MakesNode ==
    /\ steps' = steps + 1
    /\ \E t \in Ordinals : \E x, y, l, r :
           /\ <<x, l>> \in Holds /\ <<y, r>> \in Holds /\ MakesPairOf(t, x, y)
           /\ Holds' \subseteq Holds \cup {<<Ptr(0, vAlloc + 2), Node(t, <<l, r>>)>>}

LEMMA MutatorMeaning ==
    ASSUME FramesInv, Room, Shaped, Promised, Mutator
    PROVE  /\ pc = "mutator" /\ Shaped' /\ Named'
           /\ StoresOnly \/ MakesLeaf \/ ReadsField \/ MakesNode
<1>1. CASE Enter
  BY <1>1, EnterMeaning DEF StoresOnly, Quiet, Enter
<1>2. CASE Entered
  BY <1>2, EnteredMeaning DEF StoresOnly, Quiet, Entered
<1>3. CASE Enum
  BY <1>3, EnumMeaning DEF MakesLeaf, Quiet
<1>4. CASE Construct
  BY <1>4, ConstructMeaning DEF MakesNode, Construct, Ready
<1>5. CASE Project
  BY <1>5, ProjectMeaning DEF ReadsField, Quiet
<1>6. CASE LetApp
  BY <1>6, LetAppMeaning DEF StoresOnly, Quiet
<1>7. CASE App
  BY <1>7, AppMeaning DEF StoresOnly, Quiet
<1>8. CASE Halt
  BY <1>8, HaltMeaning DEF StoresOnly, Quiet, Halt
<1>9. CASE Again
  BY <1>9, AgainMeaning DEF StoresOnly, Quiet, Again
<1>10. CASE Returned
  BY <1>10, ReturnedMeaning DEF StoresOnly, Quiet, Returned
<1>11. CASE Collected
  BY <1>11, CollectedMeaning DEF StoresOnly, Quiet, Collected
<1> QED
  BY <1>1, <1>2, <1>3, <1>4, <1>5, <1>6, <1>7, <1>8, <1>9, <1>10, <1>11 DEF Mutator

LEMMA MutatorRuns == Mutator => pc = "mutator"
<1>1. Enter \/ Entered \/ Enum \/ Construct \/ Project \/ LetApp => pc = "mutator"
  BY DEF Enter, Entered, Enum, Construct, Project, LetApp, Ready
<1>2. App \/ Halt \/ Again \/ Returned \/ Collected => pc = "mutator"
  BY DEF App, Halt, Again, Returned, Collected, Ready
<1> QED
  BY <1>1, <1>2 DEF Mutator

LEMMA ForwardAllocatesNothing == DoGeneration => alloc' = alloc
<1>1. ForwardOther \/ ScanObject => alloc' = alloc
  BY DEF ForwardOther, ScanObject, heapVars
<1>2. ForwardAgain \/ ForwardCopy => alloc' = alloc
  BY DEF ForwardAgain, ForwardCopy
<1> QED
  BY <1>1, <1>2 DEF DoGeneration

LEMMA ShapedStays == ASSUME Shaped, UNCHANGED stackVars PROVE Shaped'
<1>1. UNCHANGED <<stack, code, steps>>
  BY DEF stackVars
<1>2. cur' = cur /\ top' = top
  BY <1>1 DEF cur, top
<1> QED
  BY <1>1, <1>2 DEF Shaped

-----------------------------------------------------------------------------
(* The heap a program uses is that of module CollectorProofs: its mutator   *)
(* makes objects with the alloc of the function that runs.                  *)

W == INSTANCE CollectorProofs WITH alloc <- vAlloc, ArgSlots <- Slots

\* Values are headers, pointers and integers there as here.
LEMMA SameWords ==
    /\ \A v : W!IsPtr(v) = IsPtr(v)
    /\ \A v : W!IsHeader(v) = IsHeader(v) /\ W!Is_block(v) = Is_block(v)
    /\ \A v : W!SpaceOf(v) = SpaceOf(v) /\ W!IndexOf(v) = IndexOf(v)
    /\ \A v : W!Wosize_hd(v) = Wosize_hd(v) /\ W!Tag_hd(v) = Tag_hd(v)
    /\ \A t : W!No_scan(t) = No_scan(t)
  BY SMT
  DEF W!IsPtr, IsPtr, W!IsHeader, IsHeader, W!Is_block, Is_block, W!SpaceOf, SpaceOf, W!IndexOf,
      IndexOf, W!Wosize_hd, Wosize_hd, W!Tag_hd, Tag_hd, W!No_scan, No_scan, W!No_scan_tag,
      No_scan_tag

LEMMA SameMemory ==
    /\ \A m, v : W!Hd_val(m, v) = Hd_val(m, v) /\ W!Wosize(m, v) = Wosize(m, v)
    /\ \A m, v, i : W!Field(m, v, i) = Field(m, v, i)
    /\ \A s, i : W!Ptr(s, i) = Ptr(s, i) /\ W!Header(s, i) = Header(s, i)
    /\ \A k : W!Long(k) = Long(k) /\ W!EmptySpace(k) = EmptySpace(k)
    /\ W!ZeroHeader = ZeroHeader /\ W!Unused = Unused
  BY SameWords, SMT
  DEF W!Hd_val, Hd_val, W!Wosize, Wosize, W!Field, Field, W!Ptr, Ptr, W!Header, Header, W!Long,
      Long, W!EmptySpace, EmptySpace, W!Unused, Unused, W!ZeroHeader, ZeroHeader

LEMMA SameSpaceNumbers ==
    /\ W!Gens = Gens /\ W!FakeSp = FakeSp /\ W!ValueSp = ValueSp /\ W!Spaces = Spaces
    /\ W!MaxAllocs = MaxAllocs /\ W!copyVars = copyVars /\ W!NoCopy = NoCopy
  BY SMT
  DEF W!Gens, Gens, W!FakeSp, FakeSp, W!ValueSp, ValueSp, W!Spaces, Spaces, W!MaxAllocs,
      MaxAllocs, W!copyVars, copyVars, W!NoCopy, NoCopy

\* forward and do_scan are the same.
LEMMA SameForward ==
    ASSUME vAlloc' = vAlloc, DoGeneration PROVE W!DoGeneration
<1>1. /\ \A loc : W!Read(loc) = Read(loc)
      /\ \A v : W!Is_from(v) = Is_from(v)
      /\ W!Copying = Copying
  BY SameWords, SMT DEF W!Read, Read, W!Is_from, Is_from, W!Copying, Copying
<1>2. /\ \A m, loc, v : W!StoreMem(m, loc, v) = StoreMem(m, loc, v)
      /\ \A loc, v : W!StoreArgs(loc, v) = StoreArgs(loc, v)
  BY SMT DEF W!StoreMem, StoreMem, W!StoreArgs, StoreArgs
<1>3. /\ \A v, sz, new : W!CopyObject(v, sz, new) = CopyObject(v, sz, new)
      /\ \A s, i, sz, d : W!FieldCalls(s, i, sz, d) = FieldCalls(s, i, sz, d)
      /\ \A hd : W!ScanFields(hd) = ScanFields(hd)
  <2>1. \A v, sz, new : W!CopyObject(v, sz, new) = CopyObject(v, sz, new)
    BY SMT
    DEF W!CopyObject, CopyObject, W!IndexOf, IndexOf, W!ZeroHeader, ZeroHeader, W!Header, Header,
        W!Ptr, Ptr
  <2>2. \A s, i, sz, d : W!FieldCalls(s, i, sz, d) = FieldCalls(s, i, sz, d)
    BY SMT DEF W!FieldCalls, FieldCalls, W!Call, Call, W!MemLoc, MemLoc
  <2>3. \A hd : W!ScanFields(hd) = ScanFields(hd)
    BY <2>2, SameWords, SMT DEF W!ScanFields, ScanFields
  <2> QED
    BY <2>1, <2>2, <2>3, SMT
<1>4. CASE ForwardOther
  BY <1>1, <1>4, SameWords, SMT
  DEF W!DoGeneration, W!ForwardOther, ForwardOther, W!heapVars, heapVars
<1>5. CASE ForwardAgain
  BY <1>1, <1>2, <1>5, SameWords, SameMemory, SMT
  DEF W!DoGeneration, W!ForwardAgain, ForwardAgain
<1>6. CASE ForwardCopy
  <2>1. PICK loc, d, v, sz, new, p :
            /\ loc = Head(calls).p /\ d = Head(calls).depth /\ v = Read(loc)
            /\ sz = Wosize(mem, v) /\ new = next[copy.to] + 2 /\ p = Ptr(copy.to, new)
    BY SMT
  <2>2. /\ Copying /\ Is_block(v) /\ Is_from(v) /\ Hd_val(mem, v) # ZeroHeader
        /\ next' = [next EXCEPT ![copy.to] = @ + 1 + sz]
        /\ mem' = StoreMem(CopyObject(v, sz, new), loc, p)
        /\ args' = StoreArgs(loc, p)
        /\ calls' = (IF d > 0 THEN FieldCalls(copy.to, new, sz, d - 1) ELSE <<>>)
                        \o Tail(calls)
        /\ UNCHANGED <<alloc, limit, fi, budget, pc, gen, copy, scan, result>>
    BY <1>6, <2>1, SMT DEF ForwardCopy
  <2>3. /\ v = W!Read(loc) /\ sz = W!Wosize(mem, v) /\ p = W!Ptr(copy.to, new)
    BY <1>1, <2>1, SameMemory, SMT
  <2>4. /\ W!Copying /\ W!Is_block(v) /\ W!Is_from(v) /\ W!Hd_val(mem, v) # W!ZeroHeader
    BY <1>1, <2>2, SameWords, SameMemory, SMT
  <2>5. mem' = W!StoreMem(W!CopyObject(v, sz, new), loc, p)
    BY <1>2, <1>3, <2>2, SMT
  <2>6. args' = W!StoreArgs(loc, p)
    BY <1>2, <2>2, SMT
  <2>7. calls' = (IF d > 0 THEN W!FieldCalls(copy.to, new, sz, d - 1) ELSE <<>>)
                     \o Tail(calls)
    <3>1. W!FieldCalls(copy.to, new, sz, d - 1) = FieldCalls(copy.to, new, sz, d - 1)
      BY <1>3, SMT
    <3> QED
      BY <2>2, <3>1, Zenon
  <2>8. W!ForwardCopy
    BY <2>1, <2>2, <2>3, <2>4, <2>5, <2>6, <2>7, Zenon DEF W!ForwardCopy
  <2> QED
    BY <2>8, SMT DEF W!DoGeneration
<1>7. CASE ScanObject
  BY <1>1, <1>3, <1>7, SameWords, SMT
  DEF W!DoGeneration, W!ScanObject, ScanObject, W!heapVars, heapVars
<1> QED
  BY <1>4, <1>5, <1>6, <1>7, SMT DEF DoGeneration

\* So is garbage_collect.
LEMMA SameCollection ==
    ASSUME vAlloc = alloc, vAlloc' = alloc', GarbageCollect PROVE W!GarbageCollect
<1>1. /\ Resume = W!Resume /\ EmptyFrom = W!EmptyFrom /\ HeapExists = W!HeapExists
      /\ \A s : W!Exists(s) = Exists(s) /\ W!Free(s) = Free(s)
      /\ \A c : W!GenerationCopied(c) = GenerationCopied(c)
  BY SameMemory, SMT
  DEF W!Resume, Resume, W!EmptyFrom, EmptyFrom, W!HeapExists, HeapExists, W!Exists, Exists,
      W!Free, Free, W!GenerationCopied, GenerationCopied
<1>2. \A roots : W!RootCalls(roots) = RootCalls(roots)
  BY SMT DEF W!RootCalls, RootCalls, W!Call, Call, W!ArgLoc, ArgLoc
<1>3. CASE CreateHeap
  BY <1>1, <1>3, SameMemory, SameSpaceNumbers, SMT
  DEF W!GarbageCollect, W!CreateHeap, CreateHeap, W!copyVars, copyVars, W!EmptySpace, EmptySpace,
      W!Unused, Unused
<1>4. CASE StartCollection
  BY <1>1, <1>4, SameSpaceNumbers, SMT
  DEF W!GarbageCollect, W!StartCollection, StartCollection, W!copyVars, copyVars
<1>5. CASE CreateNextSpace
  BY <1>1, <1>5, SameMemory, SameSpaceNumbers, SMT
  DEF W!GarbageCollect, W!CreateNextSpace, CreateNextSpace, W!copyVars, copyVars, W!EmptySpace,
      EmptySpace, W!Unused, Unused
<1>6. CASE CollectGeneration
  BY <1>1, <1>2, <1>6, SameSpaceNumbers, SMT
  DEF W!GarbageCollect, W!CollectGeneration, CollectGeneration, W!StartGeneration,
      StartGeneration, W!copyVars, copyVars
<1>7. CASE GenerationCollected
  BY <1>1, <1>7, SameSpaceNumbers, SMT
  DEF W!GarbageCollect, W!GenerationCollected, GenerationCollected, W!copyVars, copyVars
<1>8. CASE RanOutOfGenerations
  BY <1>8, SameSpaceNumbers, SMT
  DEF W!GarbageCollect, W!RanOutOfGenerations, RanOutOfGenerations, W!Stop, Stop, W!heapVars,
      heapVars, W!copyVars, copyVars
<1> QED
  BY <1>3, <1>4, <1>5, <1>6, <1>7, <1>8, SMT DEF GarbageCollect

-----------------------------------------------------------------------------
(* What values stand for, through every step. *)

\* A value that points into the heap means the same as in module CollectorProofs.
LEMMA SameMeans ==
    \A fact, w, tree, n : W!Mean(fact, w, tree, n) = WordMeans(fact, w, tree, n)
  BY SameMemory, SMT DEF W!Mean, WordMeans, Leaf

\* The heap is well formed, and what the program wants stands for what it means; no
\* tree is higher than the program has done steps.
MeaningInv == Returning => W!IInv /\ W!Explained(Holds, steps)

ProgramInv == FramesInv /\ Room /\ Shaped /\ Named /\ MeaningInv

LEMMA HeapThere ==
    ASSUME W!IInv
    PROVE  W!HeapInv /\ W!Bookkeeping /\ Promised
<1>1. W!HeapInv /\ W!Bookkeeping
  <2>1. W!GP!IInv => W!Bookkeeping
    BY W!BookkeepingHolds, CollectorAssumption, SizesFitInt, SMT
  <2> QED
    BY <2>1, SMT DEF W!IInv
<1>2. W!TypesOK
  BY <1>1, SMT DEF W!HeapInv
<1>3. DOMAIN args = Slots /\ fi \in [num_allocs : 0 .. MaxAllocs, roots : Seq(Slots)]
  BY <1>2, SameSpaceNumbers, SMT DEF W!TypesOK
<1>4. vAlloc \in Nat /\ budget \in 0 .. MaxAllocs /\ limit \in Nat /\ vAlloc + budget <= limit
  <2>1. MaxAllocs \in Nat
    BY CollectorAssumption, SMT DEF MaxAllocs
  <2>2. /\ vAlloc \in Nat /\ budget \in Nat /\ limit \in Nat /\ vAlloc + budget <= limit
        /\ budget <= MaxAllocs
    BY <1>1, SameSpaceNumbers, SMT DEF W!Bookkeeping
  <2> QED
    BY <2>1, <2>2, SMT
<1> QED
  BY <1>1, <1>3, <1>4, SMT DEF Promised

LEMMA QuietStores == ASSUME Quiet, NEW H, H = Holds PROVE W!Stores(H)
  BY SMT DEF Quiet, W!Stores, W!copyVars, copyVars, W!MaxAllocs, MaxAllocs

\* A step that makes no object.
LEMMA QuietKeeps ==
    ASSUME W!IInv, Quiet, NEW n, W!Explained(Holds, n)
    PROVE  W!IInv' /\ \A Q, m : W!Explained(Q, m) => W!Explained(Q, m)'
<1>1. PICK H : H = Holds
  BY SMT
<1>2. W!Stores(H) /\ W!Explained(H, n)
  BY <1>1, QuietStores, SMT
<1> QED
  BY <1>2, W!MutatorStores, CollectorAssumption, SizesFitInt, SMT

Lessens ==
    \A R, Q : \A i, m \in Nat :
        W!Explained(R, i) /\ Q \subseteq R /\ i <= m => W!Explained(Q, m)

LEMMA LessMeans == Lessens
  BY W!ExplainedLess, CollectorAssumption, SizesFitInt, SMT DEF Lessens

\* After the step too.
LEMMA LessMeansAfter ==
    ASSUME NEW P, NEW n \in Nat, W!Explained(P, n)', Holds' \subseteq P, steps' \in Nat,
           n <= steps'
    PROVE  W!Explained(Holds, steps)'
<1>1. Lessens'
  BY LessMeans, PTL
<1>2. PICK Q, m : Q = Holds' /\ m = steps'
  BY SMT
<1>3. W!Explained(Q, m)'
  BY <1>1, <1>2, SMT DEF Lessens
<1> QED
  BY <1>2, <1>3, SMT DEF W!Explained

\* The headers of pairs are those of objects that the collector scans.
ScannedOrdinals == \A t \in Ordinals : t \in Nat /\ ~ No_scan(t)

\* What a step without a new object leaves the program with.
LEMMA QuietMeaning ==
    ASSUME W!IInv, Quiet, NEW n \in Nat, W!Explained(Holds, n), NEW P, W!Explained(P, n),
           Holds' \subseteq P, steps' \in Nat, n <= steps'
    PROVE  W!IInv' /\ W!Explained(Holds, steps)'
<1>1. W!IInv' /\ W!Explained(P, n)'
  BY QuietKeeps, SMT
<1>2. W!Explained(Holds, steps)'
  BY <1>1, LessMeansAfter, SMT
<1> QED
  BY <1>1, <1>2, SMT

LEMMA NodeMeaning ==
    ASSUME W!IInv, ScannedOrdinals, NEW n \in Nat, W!Explained(Holds, n), MakesNode, n = steps,
           steps' \in Nat
    PROVE  W!IInv' /\ W!Explained(Holds, steps)'
<1>1. PICK t, x, y, l, r :
           /\ t \in Ordinals /\ <<x, l>> \in Holds /\ <<y, r>> \in Holds /\ MakesPairOf(t, x, y)
           /\ Holds' \subseteq Holds \cup {<<Ptr(0, vAlloc + 2), Node(t, <<l, r>>)>>}
  BY Zenon DEF MakesNode
<1>2. PICK H, new, tree :
          H = Holds /\ new = Ptr(0, vAlloc + 2) /\ tree = <<"node", t, <<l, r>>>>
  BY Zenon
<1>3. t \in Nat /\ ~ W!No_scan(t)
  BY <1>1, SameWords, SMT DEF ScannedOrdinals
<1>4. W!MakesPair(t, x, y)
  BY <1>1, SMT DEF MakesPairOf, W!MakesPair, W!copyVars, copyVars, W!Header, Header
<1>5. new = W!Ptr(0, vAlloc + 2)
  BY <1>2, SameMemory, SMT
<1>6. <<x, l>> \in H /\ <<y, r>> \in H /\ W!Explained(H, n)
  BY <1>1, <1>2, Zenon
<1>7. PICK P, m : P = H \cup {<<new, <<"node", t, <<l, r>>>>>>} /\ m = n + 1
  BY Zenon
<1>8. W!IInv' /\ W!Explained(P, m)'
  <2>1. W!MakesNodeOf(t, x, y, l, r, H, n, P, m)
    BY <1>3, <1>4, <1>5, <1>6, <1>7, SMT DEF W!MakesNodeOf
  <2> QED
    BY <2>1, W!MutatorMakesPair, CollectorAssumption, SizesFitInt, SMT
<1>9. Holds' \subseteq P /\ m \in Nat /\ m <= steps'
  <2>1. Holds' \subseteq H \cup {<<new, tree>>}
    BY <1>1, <1>2, SMT DEF Node
  <2>2. m \in Nat /\ m <= steps'
    BY <1>7, SMT DEF MakesNode
  <2> QED
    BY <1>2, <1>7, <2>1, <2>2, Zenon
<1> QED
  BY <1>8, <1>9, LessMeansAfter, SMT

LEMMA MutatorKeeps ==
    ASSUME ScannedOrdinals, ProgramInv, Mutator
    PROVE  Shaped' /\ Named' /\ MeaningInv'
<1>1. pc = "mutator"
  BY MutatorRuns, SMT
<1>2. W!IInv /\ W!Explained(Holds, steps) /\ Promised
  BY <1>1, HeapThere, SMT DEF ProgramInv, MeaningInv, Returning
<1>3. /\ Shaped' /\ Named'
      /\ StoresOnly \/ MakesLeaf \/ ReadsField \/ MakesNode
  BY <1>2, MutatorMeaning, SMT DEF ProgramInv
<1>4. STEPS \in Nat /\ steps \in Nat /\ steps' \in Nat
  BY <1>3, BoundsAssumption, SMT DEF ProgramInv, Shaped
<1>5. PICK n, H : n = steps /\ H = Holds /\ n \in Nat
  BY <1>4, SMT
<1>6. W!Explained(Holds, n) /\ W!Explained(H, n)
  BY <1>2, <1>5, SMT
<1>7. CASE StoresOnly
  <2>1. Quiet /\ Holds' \subseteq H /\ n <= steps'
    BY <1>4, <1>5, <1>7, SMT DEF StoresOnly
  <2> QED
    BY <1>2, <1>3, <1>4, <1>5, <1>6, <2>1, QuietMeaning, SMT DEF MeaningInv
<1>8. CASE MakesLeaf
  <2>1. PICK P : P = H \cup {<<Long(1), <<"leaf", 1>>>>}
    BY Zenon
  <2>2. Quiet /\ Holds' \subseteq P /\ n <= steps'
    BY <1>4, <1>5, <1>8, <2>1, SMT DEF MakesLeaf, Leaf
  <2>3. W!Explained(P, n)
    <3>1. W!Explained(H \cup {<<W!Long(1), <<"leaf", 1>>>>}, n)
      BY <1>6, W!LeafExplained, CollectorAssumption, SizesFitInt, SMT
    <3> QED
      BY <2>1, <3>1, SameMemory, SMT
  <2> QED
    BY <1>2, <1>3, <1>4, <1>5, <1>6, <2>2, <2>3, QuietMeaning, SMT DEF MeaningInv
<1>9. CASE ReadsField
  <2>1. PICK w, mean, i :
           /\ i \in {1, 2} /\ <<w, mean>> \in H /\ IsPtr(w)
           /\ Holds' \subseteq H \cup {<<Field(mem, w, i - 1), mean[3][i]>>}
    BY <1>5, <1>9, Zenon DEF ReadsField
  <2>2. PICK P : P = H \cup {<<Field(mem, w, i - 1), mean[3][i]>>}
    BY Zenon
  <2>3. Quiet /\ Holds' \subseteq P /\ n <= steps'
    BY <1>4, <1>5, <1>9, <2>1, <2>2, SMT DEF ReadsField
  <2>4. W!Explained(P, n)
    <3>1. W!IsPtr(w) /\ W!Field(mem, w, i - 1) = Field(mem, w, i - 1)
      BY <2>1, SameWords, SameMemory, SMT
    <3>2. W!Explained(H \cup {<<W!Field(mem, w, i - 1), mean[3][i]>>}, n)
      <4>1. W!HoldsNode(H, n, w, mean, i)
        BY <1>1, <1>5, <1>6, <2>1, <3>1, SMT DEF W!HoldsNode
      <4> QED
        BY <4>1, W!FieldExplained, CollectorAssumption, SizesFitInt, SMT
    <3> QED
      BY <2>2, <3>1, <3>2, SMT
  <2> QED
    BY <1>2, <1>3, <1>4, <1>5, <1>6, <2>3, <2>4, QuietMeaning, SMT DEF MeaningInv
<1>10. CASE MakesNode
  BY <1>2, <1>3, <1>4, <1>5, <1>6, <1>10, NodeMeaning, SMT DEF MeaningInv
<1> QED
  BY <1>3, <1>7, <1>8, <1>9, <1>10, SMT

LEMMA CollectorKeeps ==
    ASSUME ProgramInv, Collection \/ Copy, Returning'
    PROVE  Shaped' /\ Named' /\ MeaningInv'
<1>1. /\ Returning /\ pc \in {"garbage_collect", "collect", "copying"} /\ fi' = fi
      /\ vAlloc = alloc /\ vAlloc' = alloc' /\ Shaped' /\ Named' /\ steps' = steps
      /\ \A q \in Holds' : \E k \in DOMAIN fi.roots :
             q[1] = args'[fi.roots[k]] /\ <<args[fi.roots[k]], q[2]>> \in Holds
  BY CollectorMeaning, SMT DEF ProgramInv
<1>2. W!IInv /\ W!Explained(Holds, steps)
  BY <1>1, SMT DEF ProgramInv, MeaningInv
<1>3. W!AnyNext /\ W!CollectorRuns
  <2>1. CASE Collection
    BY <1>1, <2>1, SameCollection, SMT DEF Collection, W!AnyNext, W!CollectorRuns
  <2>2. CASE Copy
    <3>1. UNCHANGED alloc
      BY <2>2, ForwardAllocatesNothing, SMT DEF Copy
    <3> QED
      BY <1>1, <2>2, <3>1, SameForward, SMT DEF Copy, W!AnyNext, W!CollectorRuns
  <2> QED
    BY <2>1, <2>2, SMT
<1>4. W!IInv'
  BY <1>2, <1>3, W!NextInv, CollectorAssumption, SizesFitInt, SMT
<1>5. W!HeapInv /\ W!Bookkeeping
  BY <1>2, HeapThere, SMT
<1>6. W!HeapInv' /\ W!Bookkeeping'
  <2>1. W!GP!IInv' => W!Bookkeeping'
    BY W!BookkeepingAfter, CollectorAssumption, SizesFitInt, SMT
  <2> QED
    BY <1>4, <2>1, SMT DEF W!IInv
<1>7. PICK H, Q, n : H = Holds /\ Q = Holds' /\ n = steps
  BY Zenon
<1>8. W!Explained(H, n)
  BY <1>2, <1>7, SMT
<1>9. \A q \in Q : \E k \in DOMAIN fi.roots :
          q[1] = args'[fi.roots[k]] /\ <<args[fi.roots[k]], q[2]>> \in H
  BY <1>1, <1>7, Zenon
<1>10. W!Explained(Q, n)'
  BY <1>1, <1>3, <1>5, <1>6, <1>8, <1>9, W!RootsExplained, CollectorAssumption, SizesFitInt, SMT
<1>11. W!Explained(Holds, steps)'
  <2>1. Q = Holds' /\ n = steps'
    BY <1>1, <1>7, SMT
  <2> QED
    BY <1>10, <2>1, SMT DEF W!Explained
<1> QED
  BY <1>1, <1>4, <1>11, SMT DEF MeaningInv

\* A step that does nothing.
LEMMA StutterKeeps ==
    ASSUME ProgramInv, UNCHANGED allVars
    PROVE  Shaped' /\ Named' /\ MeaningInv'
<1>1. /\ UNCHANGED <<mem, next, args, limit, fi, budget, pc, gen, copy, scan, calls, result>>
      /\ UNCHANGED <<alloc, stack, frames, fp, code, answer, steps>>
  BY SMT DEF allVars, vars, stackVars
<1>2. cur' = cur /\ top' = top /\ vAlloc' = vAlloc /\ Returning' = Returning
  BY <1>1, SMT DEF cur, top, vAlloc, Returning
<1>3. Holds' = Holds /\ Saved' = Saved /\ Shaped' = Shaped
  BY <1>1, <1>2, SMT DEF Holds, Saved, Own, InVars, Shaped
<1>4. Named'
  BY <1>1, <1>2, <1>3, SMT DEF ProgramInv, Named
<1>5. ASSUME Returning PROVE W!IInv' /\ W!Explained(Holds, steps)'
  <2>1. W!IInv /\ W!Explained(Holds, steps)
    BY <1>5, SMT DEF ProgramInv, MeaningInv
  <2>2. UNCHANGED W!vars
    BY <1>1, <1>2, SMT DEF W!vars
  <2>3. W!IInv'
    BY <2>1, <2>2, W!NextInv, CollectorAssumption, SizesFitInt, SMT
  <2>4. PICK H, n : H = Holds /\ n = steps
    BY SMT
  <2>5. W!Explained(H, n)
    BY <2>1, <2>4, SMT
  <2>6. W!Explained(H, n)'
    BY <2>2, <2>5, W!ExplainedSame, CollectorAssumption, SizesFitInt, SMT
  <2>7. H = Holds' /\ n = steps'
    BY <1>1, <1>3, <2>4, SMT
  <2> QED
    BY <2>3, <2>6, <2>7, SMT DEF W!Explained
<1> QED
  BY <1>2, <1>3, <1>4, <1>5, SMT DEF MeaningInv, ProgramInv

LEMMA InitProgram == Init => ProgramInv
<1> SUFFICES ASSUME Init PROVE ProgramInv
  BY SMT
<1>1. FramesInv /\ Room
  BY InitFrames, InitRoom, SMT
<1>2. /\ stack = <<Activation(<<>>, <<>>, <<>>)>> /\ code = "enter" /\ steps = 0
      /\ pc = "mutator"
  BY SMT DEF Init
<1>3. Shaped /\ Holds = {}
  <2>1. steps \in 0 .. STEPS
    BY <1>2, BoundsAssumption, SMT
  <2> QED
    BY <1>2, <2>1, FirstMeaning, SMT
<1>4. Named
  BY <1>2, SMT DEF Named
<1>5. W!IInv
  <2>1. W!AnyStart
    <3>1. /\ mem = [s \in W!Spaces |-> IF s = 0 THEN W!EmptySpace(NURSERY_SIZE) ELSE <<>>]
          /\ next = [s \in W!Spaces |-> 0] /\ DOMAIN args = Slots /\ limit = Len(mem[0])
          /\ fi = [num_allocs |-> 0, roots |-> <<>>] /\ budget = 0 /\ gen = 0
          /\ result = W!Unused
      BY SameMemory, SameSpaceNumbers, SMT DEF Init
    <3>2. vAlloc = 0
      BY <1>2, SMT DEF Init, vAlloc
    <3> QED
      BY <1>2, <3>1, <3>2, SMT DEF W!AnyStart
  <2> QED
    BY <2>1, W!StartInv, CollectorAssumption, SizesFitInt, SMT
<1>6. W!Explained({}, 0)
  BY W!NothingExplained, CollectorAssumption, SizesFitInt, SMT
<1> QED
  BY <1>1, <1>2, <1>3, <1>4, <1>5, <1>6, SMT DEF ProgramInv, MeaningInv

\* What the program wants reads as it should.
LEMMA ProgramReads == ProgramInv => VariablesKeepMeaning
<1> SUFFICES ASSUME ProgramInv, pc = "mutator" PROVE VariablesKeepMeaning
  BY SMT DEF VariablesKeepMeaning, Ready
<1>1. W!IInv /\ W!Explained(Holds, steps) /\ W!HeapInv /\ W!Bookkeeping
  BY HeapThere, SMT DEF ProgramInv, MeaningInv, Returning
<1>2. PICK fact : /\ \A v \in DOMAIN fact : W!PairReads(fact, v)
                  /\ \A p \in Holds : W!Mean(fact, p[1], p[2], steps)
  BY <1>1, W!ExplainedReads, CollectorAssumption, SizesFitInt, SMT
<1>3. Meanings(fact)
  <2> SUFFICES ASSUME NEW v \in DOMAIN fact PROVE fact[v].level \in Nat /\ PairMeans(fact, v)
    BY SMT DEF Meanings
  <2>1. W!Pointers = Pointers
    BY SameSpaceNumbers, SMT DEF W!Pointers, Pointers
  <2> QED
    BY <1>2, <2>1, SameWords, SameMemory, SameMeans, SMT DEF W!PairReads, PairMeans, Node
<1>4. steps \in Nat /\ STEPS \in Nat /\ steps <= STEPS
  BY BoundsAssumption, SMT DEF ProgramInv, Shaped
<1>5. ASSUME NEW w, NEW tree, <<w, tree>> \in Holds PROVE TreeOf[STEPS][w] = tree
  <2>1. WordMeans(fact, w, tree, steps)
    BY <1>2, <1>5, SameMeans, SMT
  <2> QED
    BY <1>3, <1>4, <2>1, ReadsMeaning, SMT
<1>6. ASSUME code = "run", NEW v \in top.live PROVE TreeOf[STEPS][top.vars[v]] = top.means[v]
  <2>1. v \in InVars
    BY <1>6, SMT DEF InVars, InVarsOf
  <2>2. <<top.vars[v], top.means[v]>> \in Holds
    BY <2>1, HoldsIs, Zenon
  <2> QED
    BY <1>5, <2>2, Zenon
<1>7. ASSUME code = "halted" PROVE TreeOf[STEPS][args[Answer]] = answer
  <2>1. <<Answer, answer>> \in Saved
    BY <1>7, SMT DEF Saved, Own, OwnOf
  <2>2. <<args[Answer], answer>> \in Holds
    BY <2>1, HoldsIs, Zenon
  <2> QED
    BY <1>5, <2>2, Zenon
<1> QED
  BY <1>6, <1>7, SMT DEF VariablesKeepMeaning, Ready

LEMMA NextProgram == ScannedOrdinals /\ ProgramInv /\ [Next]_allVars => ProgramInv'
<1> SUFFICES ASSUME ScannedOrdinals, ProgramInv, [Next]_allVars PROVE ProgramInv'
  BY SMT
<1>1. FramesInv' /\ Room'
  BY NextFrames, NextRoom, SMT DEF ProgramInv
<1>2. CASE Mutator
  BY <1>1, <1>2, MutatorKeeps, SMT DEF ProgramInv
<1>3. CASE Collection \/ Copy \/ ExportAnswer \/ ExportRest
  <2>1. CASE Returning'
    <3>1. Collection \/ Copy
      BY <1>3, <2>1, ExportLeaves, SMT
    <3> QED
      BY <1>1, <2>1, <3>1, CollectorKeeps, SMT DEF ProgramInv
  <2>2. CASE ~ Returning'
    <3>1. UNCHANGED stackVars
      BY <1>3, SMT DEF Collection, Copy, ExportAnswer, ExportRest
    <3>2. Shaped'
      BY <3>1, ShapedStays, SMT DEF ProgramInv
    <3> QED
      BY <1>1, <2>2, <3>2, SMT DEF ProgramInv, Named, MeaningInv
  <2> QED
    BY <2>1, <2>2, SMT
<1>4. CASE UNCHANGED allVars
  BY <1>1, <1>4, StutterKeeps, SMT DEF ProgramInv
<1> QED
  BY <1>2, <1>3, <1>4, SMT DEF Next

\* If the constructors' numbers are tags the collector scans under: a variable means the
\* same from where it is bound to its last use, whatever has been collected in the
\* function or in those it called, in whatever frames it was held meanwhile.
THEOREM VariablesAlwaysKeepMeaning == ScannedOrdinals => (Spec => []VariablesKeepMeaning)
<1> SUFFICES ASSUME ScannedOrdinals PROVE Spec => []VariablesKeepMeaning
  BY SMT
<1>1. ProgramInv /\ [Next]_allVars => ProgramInv'
  BY NextProgram, SMT
<1> QED
  BY <1>1, InitProgram, ProgramReads, PTL DEF Spec
=============================================================================
