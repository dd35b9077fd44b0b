------------------------ MODULE GeneratedCodeProofs ------------------------
(***************************************************************************)
(* What the generators of module GeneratedCode compute from a term, proved *)
(* for every set of programs: the words tested for before a path cover     *)
(* what it allocates, and the roots array of a function holds whatever its *)
(* calls and collections push.  And what the generated code does with      *)
(* variables: where the body goes on, each variable it can still read has  *)
(* the value the term gives it; the collector finds the frames of the      *)
(* functions that hold something, and nothing but live values in them; and *)
(* a switch takes the branch of its constructor.                           *)
(***************************************************************************)
EXTENDS GeneratedCode, DataTheorems

-----------------------------------------------------------------------------
(* Numbers. *)

\* A finite set of numbers has a maximum.
LEMMA MaxProperties ==
    ASSUME NEW S \in SUBSET Nat, IsFiniteSet(S), S # {}
    PROVE  Max(S) \in S /\ Max(S) \in Nat /\ \A y \in S : y <= Max(S)
<1>1. Cardinality(S) \in Nat \ {0} /\ ExistsBijection(1 .. Cardinality(S), S)
  BY FS_CardinalityType, FS_EmptySet
<1>2. PICK g \in [1 .. Cardinality(S) -> S] : \A y \in S : \E i \in 1 .. Cardinality(S) : g[i] = y
  BY <1>1 DEF ExistsBijection, Bijection, Surjection
<1>3. g \in [1 .. Cardinality(S) -> Nat]
  OBVIOUS
<1>4. PICK i \in 1 .. Cardinality(S) : \A j \in 1 .. Cardinality(S) : g[j] <= g[i]
  BY <1>1, <1>3, LargestExists
<1>5. g[i] \in S /\ \A y \in S : g[i] >= y
  BY <1>2, <1>3, <1>4
<1> QED
  BY <1>5 DEF Max

\* M is the largest of z and of the numbers g[1] .. g[n].
Tops(M, z, n, g) ==
    /\ M \in Nat /\ z <= M
    /\ \A i \in 1 .. n : g[i] <= M
    /\ M = z \/ \E i \in 1 .. n : M = g[i]

LEMMA MaxFamily ==
    ASSUME NEW z \in Nat, NEW n \in Nat, NEW g \in [1 .. n -> Nat]
    PROVE  Tops(Max({z} \cup {g[i] : i \in 1 .. n}), z, n, g)
<1> DEFINE S == {g[i] : i \in 1 .. n}
<1>1. g \in Surjection(1 .. n, S)
  BY DEF Surjection
<1>2. IsFiniteSet(S)
  BY <1>1, FS_NatSurjection DEF ExistsSurjection
<1>3. IsFiniteSet({z} \cup S)
  BY <1>2, FS_AddElement
<1>4. z \in {z} \cup S /\ {z} \cup S \in SUBSET Nat
  OBVIOUS
<1>5. PICK M : /\ M = Max({z} \cup S) /\ M \in {z} \cup S /\ M \in Nat
               /\ \A y \in {z} \cup S : y <= M
  BY <1>3, <1>4, MaxProperties
<1> QED
  BY <1>5 DEF Tops

LEMMA MaxPair ==
    ASSUME NEW a \in Nat, NEW b \in Nat
    PROVE  /\ Max({a, b}) \in Nat /\ a <= Max({a, b}) /\ b <= Max({a, b})
           /\ Max({a, b}) = a \/ Max({a, b}) = b
<1>1. {a, b} = {a} \cup {b} /\ IsFiniteSet({b})
  BY FS_Singleton
<1>2. IsFiniteSet({a, b})
  BY <1>1, FS_AddElement
<1> QED
  BY <1>2, MaxProperties

-----------------------------------------------------------------------------
(* Terms. *)

Ops == {"constr", "case", "proj", "letapp", "app", "halt"}

\* The constructs that are followed by one more term.
Inner == {"constr", "proj", "letapp"}

LEMMA TermProperties ==
    ASSUME NEW e \in Terms
    PROVE  /\ e.op \in Ops
           /\ e.op \in Inner => e.x \in Vars /\ e.e \in Terms /\ Height[e.e] < Height[e]
           /\ e.op = "case" =>
                  /\ e.x \in Vars
                  /\ Len(e.cs) \in Nat /\ DOMAIN e.cs = 1 .. Len(e.cs)
                  /\ \A i \in 1 .. Len(e.cs) :
                         e.cs[i].e \in Terms /\ Height[e.cs[i].e] < Height[e]
           /\ e.op # "case" => e.vs \in Seq(Vars)
<1>1. WellFormed(e) /\ \A s \in Subterms(e) : s \in Terms /\ Height[s] < Height[e]
  BY TermsAssumption
<1>2. CASE e.op = "case"
  <2>1. e.cs \in Seq([c : Ctors, e : Terms])
    BY <1>1, <1>2 DEF WellFormed
  <2>2. Len(e.cs) \in Nat /\ DOMAIN e.cs = 1 .. Len(e.cs)
    BY <2>1, LenProperties
  <2>3. Subterms(e) = {e.cs[i].e : i \in DOMAIN e.cs}
    BY <1>2 DEF Subterms
  <2> QED
    BY <1>1, <1>2, <2>2, <2>3 DEF WellFormed, Ops, Inner
<1>3. CASE e.op \in Inner
  <2>1. Subterms(e) = {e.e}
    BY <1>3 DEF Subterms, Inner
  <2> QED
    BY <1>1, <1>3, <2>1 DEF WellFormed, Ops, Inner
<1>4. CASE e.op \notin Inner /\ e.op # "case"
  BY <1>1, <1>4 DEF WellFormed, Ops
<1> QED
  BY <1>2, <1>3, <1>4

\* A set of terms that holds each term whose subterms it holds, holds all terms.
LEMMA TermInduction ==
    ASSUME NEW T,
           \A e \in Terms :
               /\ e.op \in Inner => e.e \in T
               /\ e.op = "case" => \A i \in 1 .. Len(e.cs) : e.cs[i].e \in T
               => e \in T
    PROVE  \A e \in Terms : e \in T
<1>1. ASSUME NEW e \in Terms, \A s \in Terms : Height[s] < Height[e] => s \in T
      PROVE  e \in T
  BY <1>1, TermProperties
<1>2. Height \in [Terms -> Nat]
  BY TermsAssumption
<1> QED
  BY <1>1, <1>2, RankInduction

-----------------------------------------------------------------------------
(* What the generators compute: the recursive definitions as equations.    *)

\* The values of g at the terms of the branches of e.
Branches(e, g) == [i \in 1 .. Len(e.cs) |-> g[e.cs[i].e]]

AllocStep(g) ==
    [e \in Terms |->
        CASE e.op = "case" -> Max({0} \cup {g[e.cs[i].e] : i \in DOMAIN e.cs})
          [] e.op = "constr" -> ConstrWords(e.vs) + g[e.e]
          [] e.op = "proj" -> g[e.e]
          [] OTHER -> 0]

LEMMA ConstrWordsType == ASSUME NEW vs \in Seq(Vars) PROVE ConstrWords(vs) \in Nat
  BY LenProperties DEF ConstrWords

LEMMA BranchesMax ==
    ASSUME NEW e \in Terms, e.op = "case", NEW g \in [Terms -> Nat], NEW z \in Nat
    PROVE  Tops(Max({z} \cup {g[e.cs[i].e] : i \in DOMAIN e.cs}),
                z, Len(e.cs), Branches(e, g))
<1>1. /\ Len(e.cs) \in Nat /\ DOMAIN e.cs = 1 .. Len(e.cs)
      /\ Branches(e, g) \in [1 .. Len(e.cs) -> Nat]
  BY TermProperties DEF Branches
<1>2. {g[e.cs[i].e] : i \in DOMAIN e.cs} = {Branches(e, g)[i] : i \in 1 .. Len(e.cs)}
  BY <1>1 DEF Branches
<1> QED
  BY <1>1, <1>2, MaxFamily

LEMMA AllocStepType == ASSUME NEW g \in [Terms -> Nat] PROVE AllocStep(g) \in [Terms -> Nat]
<1> SUFFICES ASSUME NEW e \in Terms PROVE AllocStep(g)[e] \in Nat
  BY DEF AllocStep
<1>1. CASE e.op = "case"
  BY <1>1, BranchesMax DEF AllocStep, Tops
<1>2. CASE e.op = "constr"
  BY <1>2, TermProperties, ConstrWordsType DEF AllocStep, Inner
<1>3. CASE e.op = "proj"
  BY <1>3, TermProperties DEF AllocStep, Inner
<1>4. CASE e.op \notin {"case", "constr", "proj"}
  BY <1>4 DEF AllocStep
<1> QED
  BY <1>1, <1>2, <1>3, <1>4

LEMMA AllocLocal ==
    ASSUME NEW f, NEW g, NEW e \in Terms,
           \A s \in Terms : Height[s] < Height[e] => f[s] = g[s]
    PROVE  AllocStep(f)[e] = AllocStep(g)[e]
<1>1. CASE e.op = "case"
  <2>1. \A i \in DOMAIN e.cs : f[e.cs[i].e] = g[e.cs[i].e]
    BY <1>1, TermProperties
  <2>2. {f[e.cs[i].e] : i \in DOMAIN e.cs} = {g[e.cs[i].e] : i \in DOMAIN e.cs}
    BY <2>1
  <2> QED
    BY <1>1, <2>2 DEF AllocStep
<1>2. CASE e.op \in {"constr", "proj"}
  <2>1. f[e.e] = g[e.e]
    BY <1>2, TermProperties DEF Inner
  <2> QED
    BY <1>2, <2>1 DEF AllocStep
<1>3. CASE e.op \notin {"case", "constr", "proj"}
  BY <1>3 DEF AllocStep
<1> QED
  BY <1>1, <1>2, <1>3

LEMMA AllocRecursion ==
    /\ max_allocs \in [Terms -> Nat]
    /\ max_allocs = AllocStep(max_allocs)
<1> DEFINE Step == [g \in [Terms -> Nat] |-> AllocStep(g)]
<1>1. Step \in [[Terms -> Nat] -> [Terms -> Nat]]
  BY AllocStepType
<1>2. Recursion(Terms, Nat, Height, Step)
  <2>1. ASSUME NEW f \in [Terms -> Nat], NEW g \in [Terms -> Nat], NEW e \in Terms,
               \A s \in Terms : Height[s] < Height[e] => f[s] = g[s]
        PROVE  Step[f][e] = Step[g][e]
    BY <2>1, AllocLocal
  <2> HIDE DEF Step
  <2> QED
    BY <1>1, <2>1, TermsAssumption DEF Recursion, Descends
<1>3. max_allocs = AllocStep(max_allocs)
  <2>1. Solvable(Terms, Nat, Step)
    <3> HIDE DEF Step
    <3> QED
      BY <1>2, RecursionExists
  <2>2. \E g : g = AllocStep(g)
    BY <2>1 DEF Solvable
  <2>3. max_allocs = CHOOSE g : g = AllocStep(g)
    BY DEF max_allocs, AllocStep
  <2> QED
    BY <2>2, <2>3
<1>4. Follows(max_allocs, Terms, Nat, Height, Step)
  <2>1. max_allocs = [e \in Terms |-> max_allocs[e]]
    BY <1>3 DEF AllocStep
  <2>2. ASSUME NEW g \in [Terms -> Nat], NEW e \in Terms,
               \A s \in Terms : Height[s] < Height[e] => max_allocs[s] = g[s]
        PROVE  max_allocs[e] = Step[g][e]
    <3>1. AllocStep(max_allocs)[e] = AllocStep(g)[e]
      BY <2>2, AllocLocal
    <3> QED
      BY <1>3, <3>1
  <2> HIDE DEF Step
  <2> QED
    BY <2>1, <2>2 DEF Follows
<1>5. max_allocs \in [Terms -> Nat]
  <2> HIDE DEF Step
  <2> QED
    BY <1>2, <1>4, RecursionType
<1> QED
  BY <1>3, <1>5

\* What a term allocates before the next test covers its parts.
LEMMA AllocProperties ==
    ASSUME NEW e \in Terms
    PROVE  /\ max_allocs[e] \in Nat
           /\ e.op = "case" => \A i \in 1 .. Len(e.cs) : max_allocs[e.cs[i].e] <= max_allocs[e]
           /\ e.op = "constr" => max_allocs[e] = ConstrWords(e.vs) + max_allocs[e.e]
           /\ e.op = "proj" => max_allocs[e] = max_allocs[e.e]
<1>1. max_allocs[e] \in Nat
  BY AllocRecursion
<1>2. max_allocs[e] = AllocStep(max_allocs)[e]
  BY AllocRecursion
<1>3. CASE e.op = "case"
  <2>1. max_allocs[e] = Max({0} \cup {max_allocs[e.cs[i].e] : i \in DOMAIN e.cs})
    BY <1>2, <1>3 DEF AllocStep
  <2>2. Tops(max_allocs[e], 0, Len(e.cs), Branches(e, max_allocs))
    BY <2>1, <1>3, AllocRecursion, BranchesMax
  <2> QED
    BY <1>1, <1>3, <2>2 DEF Tops, Branches
<1>4. CASE e.op # "case"
  BY <1>1, <1>2, <1>4 DEF AllocStep
<1> QED
  BY <1>3, <1>4

\* The same for the free variables of a term.
LiveStep(g) ==
    [e \in Terms |->
        CASE e.op = "case" -> {e.x} \cup UNION {g[e.cs[i].e] : i \in DOMAIN e.cs}
          [] e.op \in {"app", "halt"} -> ToSet(e.vs)
          [] OTHER -> ToSet(e.vs) \cup (g[e.e] \ {e.x})]

LEMMA ToSetType == ASSUME NEW S, NEW s \in Seq(S) PROVE ToSet(s) \subseteq S
  BY DEF ToSet

LEMMA LiveStepType ==
    ASSUME NEW g \in [Terms -> SUBSET Vars] PROVE LiveStep(g) \in [Terms -> SUBSET Vars]
<1> SUFFICES ASSUME NEW e \in Terms PROVE LiveStep(g)[e] \subseteq Vars
  BY DEF LiveStep
<1>1. CASE e.op = "case"
  <2>1. e.x \in Vars /\ \A i \in DOMAIN e.cs : g[e.cs[i].e] \subseteq Vars
    BY <1>1, TermProperties
  <2> QED
    BY <1>1, <2>1 DEF LiveStep
<1>2. CASE e.op \in Inner
  <2>1. ToSet(e.vs) \subseteq Vars /\ g[e.e] \subseteq Vars
    BY <1>2, TermProperties, ToSetType DEF Inner
  <2> QED
    BY <1>2, <2>1 DEF LiveStep, Inner
<1>3. CASE e.op \in {"app", "halt"}
  <2>1. ToSet(e.vs) \subseteq Vars
    BY <1>3, TermProperties, ToSetType
  <2> QED
    BY <1>3, <2>1 DEF LiveStep
<1> QED
  BY <1>1, <1>2, <1>3, TermProperties DEF Ops, Inner

LEMMA LiveLocal ==
    ASSUME NEW f, NEW g, NEW e \in Terms,
           \A s \in Terms : Height[s] < Height[e] => f[s] = g[s]
    PROVE  LiveStep(f)[e] = LiveStep(g)[e]
<1>1. CASE e.op = "case"
  <2>1. \A i \in DOMAIN e.cs : f[e.cs[i].e] = g[e.cs[i].e]
    BY <1>1, TermProperties
  <2>2. {f[e.cs[i].e] : i \in DOMAIN e.cs} = {g[e.cs[i].e] : i \in DOMAIN e.cs}
    BY <2>1
  <2> QED
    BY <1>1, <2>2 DEF LiveStep
<1>2. CASE e.op \in Inner
  <2>1. f[e.e] = g[e.e]
    BY <1>2, TermProperties
  <2> QED
    BY <1>2, <2>1 DEF LiveStep, Inner
<1>3. CASE e.op \in {"app", "halt"}
  BY <1>3 DEF LiveStep
<1> QED
  BY <1>1, <1>2, <1>3, TermProperties DEF Ops, Inner

LEMMA LiveRecursion ==
    /\ exp_fv \in [Terms -> (SUBSET Vars)]
    /\ exp_fv = LiveStep(exp_fv)
<1> DEFINE Step == [g \in [Terms -> (SUBSET Vars)] |-> LiveStep(g)]
<1>1. Step \in [[Terms -> (SUBSET Vars)] -> [Terms -> (SUBSET Vars)]]
  BY LiveStepType
<1>2. Recursion(Terms, (SUBSET Vars), Height, Step)
  <2>1. ASSUME NEW f \in [Terms -> (SUBSET Vars)], NEW g \in [Terms -> (SUBSET Vars)],
               NEW e \in Terms,
               \A s \in Terms : Height[s] < Height[e] => f[s] = g[s]
        PROVE  Step[f][e] = Step[g][e]
    BY <2>1, LiveLocal
  <2> HIDE DEF Step
  <2> QED
    BY <1>1, <2>1, TermsAssumption DEF Recursion, Descends
<1>3. exp_fv = LiveStep(exp_fv)
  <2>1. Solvable(Terms, (SUBSET Vars), Step)
    <3> HIDE DEF Step
    <3> QED
      BY <1>2, RecursionExists
  <2>2. \E g : g = LiveStep(g)
    BY <2>1 DEF Solvable
  <2>3. exp_fv = CHOOSE g : g = LiveStep(g)
    BY DEF exp_fv, LiveStep
  <2> QED
    BY <2>2, <2>3
<1>4. Follows(exp_fv, Terms, (SUBSET Vars), Height, Step)
  <2>1. exp_fv = [e \in Terms |-> exp_fv[e]]
    BY <1>3 DEF LiveStep
  <2>2. ASSUME NEW g \in [Terms -> (SUBSET Vars)], NEW e \in Terms,
               \A s \in Terms : Height[s] < Height[e] => exp_fv[s] = g[s]
        PROVE  exp_fv[e] = Step[g][e]
    <3>1. LiveStep(exp_fv)[e] = LiveStep(g)[e]
      BY <2>2, LiveLocal
    <3> QED
      BY <1>3, <3>1
  <2> HIDE DEF Step
  <2> QED
    BY <2>1, <2>2 DEF Follows
<1>5. exp_fv \in [Terms -> (SUBSET Vars)]
  <2> HIDE DEF Step
  <2> QED
    BY <1>2, <1>4, RecursionType
<1> QED
  BY <1>3, <1>5

LEMMA ElementsLen ==
    ASSUME NEW S \in SUBSET Vars
    PROVE  /\ Len(Elements(S)) = Cardinality(S) /\ Cardinality(S) \in Nat
           /\ IsSeq(Elements(S))
<1>1. Cardinality(S) \in Nat
  BY VarsAssumption, FS_Subset, FS_CardinalityType
<1>2. DOMAIN Elements(S) = 1 .. Cardinality(S)
  BY DEF Elements
<1>3. Elements(S) = [i \in 1 .. Cardinality(S) |-> Elements(S)[i]]
  <2> DEFINE nth(i) == CHOOSE v \in S : Cardinality({u \in S : u < v}) = i - 1
  <2>1. Elements(S) = [i \in 1 .. Cardinality(S) |-> nth(i)]
    BY DEF Elements
  <2> HIDE DEF nth
  <2> QED
    BY <2>1
<1> QED
  BY <1>1, <1>2, <1>3, SeqOfFunction

\* What is held during a call, and its roots.
LEMMA HeldType ==
    ASSUME NEW f, NEW e \in Terms, e.op = "letapp"
    PROVE  /\ Len(fvs_list(f, e)) \in Nat /\ slots_gc(f, e) \in Nat
           /\ Len(fv_gc(e)) \in Nat /\ IsSeq(fvs_list(f, e)) /\ IsSeq(fv_gc(e))
           /\ Len(fvs_list(f, e)) <= slots_gc(f, e)
           /\ max_allocs[e.e] # 0 => slots_gc(f, e) = Len(fvs_list(f, e)) + Len(fv_gc(e))
<1>1. (exp_fv[e.e] \cap LocVars(f)) \ {e.x} \in SUBSET Vars
  BY LiveRecursion, TermProperties DEF Inner
<1>2. Len(fvs_list(f, e)) \in Nat /\ IsSeq(fvs_list(f, e))
  BY <1>1, ElementsLen DEF fvs_list
<1>3. Len(fv_gc(e)) \in Nat /\ IsSeq(fv_gc(e))
  <2>1. e.x \in Vars
    BY TermProperties DEF Inner
  <2>2. fv_gc(e) \in Seq(Vars)
    BY <2>1 DEF fv_gc
  <2> QED
    BY <2>2, LenProperties, SeqOfAny
<1> QED
  BY <1>2, <1>3 DEF slots_gc

SlotsStep(f, g) ==
    [e \in Terms |-> [slots \in Nat |->
        CASE e.op = "case" -> Max({slots} \cup {g[e.cs[i].e][slots] : i \in DOMAIN e.cs})
          [] e.op \in {"app", "halt"} -> slots
          [] e.op = "letapp" -> g[e.e][Max({slots, slots_gc(f, e)})]
          [] OTHER -> g[e.e][slots]]]

\* The values of g at the branches of e, when slots are in use before.
LEMMA SlotBranches ==
    ASSUME NEW e \in Terms, e.op = "case", NEW g \in [Terms -> [Nat -> Nat]],
           NEW slots \in Nat
    PROVE  Tops(Max({slots} \cup {g[e.cs[i].e][slots] : i \in DOMAIN e.cs}), slots,
                Len(e.cs), Branches(e, [s \in Terms |-> g[s][slots]]))
<1> DEFINE h == [s \in Terms |-> g[s][slots]]
<1>1. h \in [Terms -> Nat]
  OBVIOUS
<1>2. \A i \in DOMAIN e.cs : h[e.cs[i].e] = g[e.cs[i].e][slots]
  BY TermProperties
<1> HIDE DEF h
<1>3. {g[e.cs[i].e][slots] : i \in DOMAIN e.cs} = {h[e.cs[i].e] : i \in DOMAIN e.cs}
  BY <1>2
<1>4. Tops(Max({slots} \cup {h[e.cs[i].e] : i \in DOMAIN e.cs}), slots,
           Len(e.cs), Branches(e, h))
  BY <1>1, BranchesMax
<1> QED
  BY <1>3, <1>4 DEF h

LEMMA SlotsStepType ==
    ASSUME NEW f, NEW g \in [Terms -> [Nat -> Nat]]
    PROVE  SlotsStep(f, g) \in [Terms -> [Nat -> Nat]]
<1> SUFFICES ASSUME NEW e \in Terms, NEW slots \in Nat
             PROVE  SlotsStep(f, g)[e][slots] \in Nat
  BY DEF SlotsStep
<1>1. CASE e.op = "case"
  <2>1. Max({slots} \cup {g[e.cs[i].e][slots] : i \in DOMAIN e.cs}) \in Nat
    BY <1>1, SlotBranches DEF Tops
  <2> QED
    BY <1>1, <2>1 DEF SlotsStep
<1>2. CASE e.op = "letapp"
  <2>1. Max({slots, slots_gc(f, e)}) \in Nat /\ e.e \in Terms
    BY <1>2, HeldType, MaxPair, TermProperties DEF Inner
  <2> QED
    BY <1>2, <2>1 DEF SlotsStep
<1>3. CASE e.op \in {"constr", "proj"}
  BY <1>3, TermProperties DEF SlotsStep, Inner
<1>4. CASE e.op \in {"app", "halt"}
  BY <1>4 DEF SlotsStep
<1> QED
  BY <1>1, <1>2, <1>3, <1>4, TermProperties DEF Ops

LEMMA SlotsLocal ==
    ASSUME NEW f, NEW g, NEW h, NEW e \in Terms,
           \A s \in Terms : Height[s] < Height[e] => g[s] = h[s]
    PROVE  SlotsStep(f, g)[e] = SlotsStep(f, h)[e]
<1> SUFFICES ASSUME NEW slots \in Nat
             PROVE  SlotsStep(f, g)[e][slots] = SlotsStep(f, h)[e][slots]
  BY DEF SlotsStep
<1>1. CASE e.op = "case"
  <2>1. \A i \in DOMAIN e.cs : g[e.cs[i].e] = h[e.cs[i].e]
    BY <1>1, TermProperties
  <2>2. {g[e.cs[i].e][slots] : i \in DOMAIN e.cs} = {h[e.cs[i].e][slots] : i \in DOMAIN e.cs}
    BY <2>1
  <2> QED
    BY <1>1, <2>2 DEF SlotsStep
<1>2. CASE e.op \in Inner
  <2>1. g[e.e] = h[e.e]
    BY <1>2, TermProperties
  <2> QED
    BY <1>2, <2>1 DEF SlotsStep, Inner
<1>3. CASE e.op \in {"app", "halt"}
  BY <1>3 DEF SlotsStep
<1> QED
  BY <1>1, <1>2, <1>3, TermProperties DEF Ops, Inner

LEMMA SlotsRecursion ==
    ASSUME NEW f PROVE
    /\ body_slots(f) \in [Terms -> [Nat -> Nat]]
    /\ body_slots(f) = SlotsStep(f, body_slots(f))
<1> DEFINE Step == [g \in [Terms -> [Nat -> Nat]] |-> SlotsStep(f, g)]
<1>1. Step \in [[Terms -> [Nat -> Nat]] -> [Terms -> [Nat -> Nat]]]
  BY SlotsStepType
<1>2. Recursion(Terms, [Nat -> Nat], Height, Step)
  <2>1. ASSUME NEW g \in [Terms -> [Nat -> Nat]], NEW h \in [Terms -> [Nat -> Nat]],
               NEW e \in Terms,
               \A s \in Terms : Height[s] < Height[e] => g[s] = h[s]
        PROVE  Step[g][e] = Step[h][e]
    BY <2>1, SlotsLocal
  <2>2. [slots \in Nat |-> 0] \in [Nat -> Nat]
    OBVIOUS
  <2> HIDE DEF Step
  <2> QED
    BY <1>1, <2>1, <2>2, TermsAssumption DEF Recursion, Descends
<1>3. body_slots(f) = SlotsStep(f, body_slots(f))
  <2>1. Solvable(Terms, [Nat -> Nat], Step)
    <3> HIDE DEF Step
    <3> QED
      BY <1>2, RecursionExists
  <2>2. \E g : g = SlotsStep(f, g)
    BY <2>1 DEF Solvable
  <2>3. body_slots(f) = CHOOSE g : g = SlotsStep(f, g)
    BY DEF body_slots, SlotsStep
  <2> QED
    BY <2>2, <2>3
<1>4. Follows(body_slots(f), Terms, [Nat -> Nat], Height, Step)
  <2>1. body_slots(f) = [e \in Terms |-> body_slots(f)[e]]
    BY <1>3 DEF SlotsStep
  <2>2. ASSUME NEW g \in [Terms -> [Nat -> Nat]], NEW e \in Terms,
               \A s \in Terms : Height[s] < Height[e] => body_slots(f)[s] = g[s]
        PROVE  body_slots(f)[e] = Step[g][e]
    <3>1. SlotsStep(f, body_slots(f))[e] = SlotsStep(f, g)[e]
      BY <2>2, SlotsLocal
    <3> QED
      BY <1>3, <3>1
  <2> HIDE DEF Step
  <2> QED
    BY <2>1, <2>2 DEF Follows
<1>5. body_slots(f) \in [Terms -> [Nat -> Nat]]
  <2> HIDE DEF Step
  <2> QED
    BY <1>2, <1>4, RecursionType
<1> QED
  BY <1>3, <1>5

\* Slots taken up before are counted, and the more the higher.
SlotsGrow(f, e) ==
    \A s \in Nat : /\ s <= body_slots(f)[e][s]
                   /\ \A t \in Nat : s <= t => body_slots(f)[e][s] <= body_slots(f)[e][t]

LEMMA SlotsMonotone == ASSUME NEW f PROVE \A e \in Terms : SlotsGrow(f, e)
<1> DEFINE G == body_slots(f)
           T == {e \in Terms : SlotsGrow(f, e)}
<1>1. G \in [Terms -> [Nat -> Nat]] /\ G = SlotsStep(f, G)
  BY SlotsRecursion
<1> HIDE DEF G
<1>2. ASSUME NEW e \in Terms,
             e.op \in Inner => e.e \in T,
             e.op = "case" => \A i \in 1 .. Len(e.cs) : e.cs[i].e \in T
      PROVE  e \in T
  <2> SUFFICES ASSUME NEW s \in Nat, NEW t \in Nat, s <= t
               PROVE  s <= G[e][s] /\ G[e][s] <= G[e][t]
    BY DEF G, SlotsGrow
  <2>1. CASE e.op = "case"
    <3>1. ASSUME NEW k \in Nat
          PROVE  /\ G[e][k] \in Nat /\ k <= G[e][k]
                 /\ \A i \in 1 .. Len(e.cs) : G[e.cs[i].e][k] <= G[e][k]
                 /\ G[e][k] = k \/ \E i \in 1 .. Len(e.cs) : G[e][k] = G[e.cs[i].e][k]
      <4>1. G[e][k] = SlotsStep(f, G)[e][k]
        BY <1>1
      <4>2. SlotsStep(f, G)[e][k] = Max({k} \cup {G[e.cs[i].e][k] : i \in DOMAIN e.cs})
        BY <2>1 DEF SlotsStep
      <4>4. Tops(G[e][k], k, Len(e.cs), Branches(e, [r \in Terms |-> G[r][k]]))
        BY <4>1, <4>2, <2>1, <1>1, SlotBranches
      <4>3. \A i \in 1 .. Len(e.cs) :
                Branches(e, [r \in Terms |-> G[r][k]])[i] = G[e.cs[i].e][k]
        BY <2>1, TermProperties DEF Branches
      <4> QED
        BY <4>3, <4>4 DEF Tops
    <3>2. ASSUME NEW i \in 1 .. Len(e.cs)
          PROVE  /\ G[e.cs[i].e][s] \in Nat /\ G[e.cs[i].e][t] \in Nat
                 /\ G[e.cs[i].e][s] <= G[e.cs[i].e][t]
      BY <1>1, <1>2, <2>1, TermProperties DEF SlotsGrow, G
    <3>3. G[e][s] <= G[e][t]
      <4>1. CASE G[e][s] = s
        BY <4>1, <3>1
      <4>2. CASE \E i \in 1 .. Len(e.cs) : G[e][s] = G[e.cs[i].e][s]
        <5>1. PICK i \in 1 .. Len(e.cs) : G[e][s] = G[e.cs[i].e][s]
          BY <4>2
        <5>2. G[e.cs[i].e][t] <= G[e][t] /\ G[e][t] \in Nat
          BY <3>1
        <5> QED
          BY <5>1, <5>2, <3>2
      <4> QED
        BY <4>1, <4>2, <3>1
    <3> QED
      BY <3>1, <3>3
  <2>2. CASE e.op = "letapp"
    <3> DEFINE m(k) == Max({k, slots_gc(f, e)})
    <3>1. ASSUME NEW k \in Nat
          PROVE  G[e][k] = G[e.e][m(k)] /\ m(k) \in Nat /\ k <= m(k)
      <4>1. G[e][k] = SlotsStep(f, G)[e][k]
        BY <1>1
      <4>2. slots_gc(f, e) \in Nat
        BY <2>2, HeldType
      <4> QED
        BY <4>1, <4>2, <2>2, MaxPair DEF SlotsStep
    <3>2. m(s) <= m(t)
      <4>1. slots_gc(f, e) \in Nat
        BY <2>2, HeldType
      <4>2. /\ m(s) = s \/ m(s) = slots_gc(f, e)
            /\ t <= m(t) /\ slots_gc(f, e) <= m(t) /\ m(t) \in Nat
        BY <4>1, MaxPair
      <4> QED
        BY <4>1, <4>2
    <3>3. e.e \in Terms /\ SlotsGrow(f, e.e)
      BY <1>2, <2>2, TermProperties DEF Inner
    <3> HIDE DEF m
    <3>4. m(s) <= G[e.e][m(s)] /\ G[e.e][m(s)] <= G[e.e][m(t)] /\ G[e.e][m(s)] \in Nat
      BY <1>1, <3>1, <3>2, <3>3 DEF SlotsGrow, G
    <3> QED
      BY <3>1, <3>4
  <2>3. CASE e.op \in {"constr", "proj"}
    <3>1. G[e][s] = G[e.e][s] /\ G[e][t] = G[e.e][t]
      <4>1. G[e][s] = SlotsStep(f, G)[e][s] /\ G[e][t] = SlotsStep(f, G)[e][t]
        BY <1>1
      <4> QED
        BY <4>1, <2>3 DEF SlotsStep
    <3>2. SlotsGrow(f, e.e)
      BY <1>2, <2>3 DEF Inner
    <3> QED
      BY <3>1, <3>2 DEF SlotsGrow, G
  <2>4. CASE e.op \in {"app", "halt"}
    <3>1. G[e][s] = SlotsStep(f, G)[e][s] /\ G[e][t] = SlotsStep(f, G)[e][t]
      BY <1>1
    <3> QED
      BY <3>1, <2>4 DEF SlotsStep
  <2> QED
    BY <2>1, <2>2, <2>3, <2>4, TermProperties DEF Ops
<1>3. \A e \in Terms : e \in T
  <2> HIDE DEF T
  <2> QED
    BY <1>2, TermInduction
<1> QED
  BY <1>3

\* The slots counted for a term cover those of its parts.
LEMMA SlotsProperties ==
    ASSUME NEW f, NEW e \in Terms
    PROVE  /\ body_slots(f)[e][0] \in Nat
           /\ e.op \in Inner => body_slots(f)[e.e][0] <= body_slots(f)[e][0]
           /\ e.op = "case" =>
                  \A i \in 1 .. Len(e.cs) : body_slots(f)[e.cs[i].e][0] <= body_slots(f)[e][0]
           /\ e.op = "letapp" => slots_gc(f, e) <= body_slots(f)[e][0]
<1> DEFINE G == body_slots(f)
<1>1. G \in [Terms -> [Nat -> Nat]] /\ G[e][0] = SlotsStep(f, G)[e][0]
  BY SlotsRecursion
<1>2. e.op \in Inner => e.e \in Terms /\ SlotsGrow(f, e.e)
  BY TermProperties, SlotsMonotone
<1>3. CASE e.op = "case"
  <2> HIDE DEF G
  <2>1. Tops(G[e][0], 0, Len(e.cs), Branches(e, [r \in Terms |-> G[r][0]]))
    BY <1>1, <1>3, SlotBranches DEF SlotsStep
  <2>2. \A i \in 1 .. Len(e.cs) : Branches(e, [r \in Terms |-> G[r][0]])[i] = G[e.cs[i].e][0]
    BY <1>3, TermProperties DEF Branches
  <2>3. \A i \in 1 .. Len(e.cs) : G[e.cs[i].e][0] <= G[e][0]
    BY <2>1, <2>2 DEF Tops
  <2> QED
    BY <2>3, <1>1, <1>3 DEF G, Inner
<1>4. CASE e.op = "letapp"
  <2>1. slots_gc(f, e) \in Nat
    BY <1>4, HeldType
  <2> DEFINE m == Max({0, slots_gc(f, e)})
  <2>2. m \in Nat /\ slots_gc(f, e) <= m /\ 0 <= m
    BY <2>1, MaxPair
  <2>3. G[e][0] = G[e.e][m]
    BY <1>1, <1>4 DEF SlotsStep
  <2> HIDE DEF m
  <2>4. m <= G[e.e][m] /\ G[e.e][0] <= G[e.e][m] /\ G[e.e][m] \in Nat
    BY <2>2, <1>1, <1>2, <1>4 DEF SlotsGrow, Inner
  <2> QED
    BY <2>1, <2>2, <2>3, <2>4, <1>1, <1>4
<1>5. CASE e.op \in {"constr", "proj"}
  <2>1. G[e][0] = G[e.e][0]
    BY <1>1, <1>5 DEF SlotsStep
  <2>2. G[e][0] \in Nat
    BY <1>1
  <2> QED
    BY <2>1, <2>2, <1>5 DEF Inner
<1>6. CASE e.op \in {"app", "halt"}
  BY <1>1, <1>6 DEF Inner
<1> QED
  BY <1>3, <1>4, <1>5, <1>6, TermProperties DEF Ops

-----------------------------------------------------------------------------
(* The sizes: an invariant.                                                *)

ActivationFields == {"f", "e", "vars", "means", "roots", "next", "prev", "room"}

IsActivation(a) ==
    /\ DOMAIN a = ActivationFields
    /\ a.f \in Names /\ a.e \in Terms
    /\ DOMAIN a.vars = Vars /\ DOMAIN a.means = Vars
    /\ IsSeq(a.roots) /\ a.next \in Nat /\ a.room \in Nat

\* Frames fit, those that the rest of the body pushes included.
Counted(a) ==
    /\ a.next <= stack_slots(a.f)
    /\ body_slots(a.f)[a.e][0] <= stack_slots(a.f)

SizesTyped ==
    /\ scheme \in Schemes /\ program \in Programs[scheme]
    /\ IsSeq(stack)
    /\ \A n \in DOMAIN stack : IsActivation(stack[n])
    /\ code \in {"enter", "entry_gc", "entered", "run", "returned", "call_gc",
                 "collected", "halted"}
    /\ code = "halted" <=> stack = <<>>

\* An activation in a call has the roots of what it holds.
Suspended(a) ==
    /\ a.e.op = "letapp"
    /\ Len(fvs_list(a.f, a.e)) <= Len(a.roots)

\* An activation that is not the newest is in a call.
Calling ==
    /\ \A n \in 1 .. cur - 1 : Suspended(stack[n])
    /\ code \in {"returned", "call_gc", "collected"} => Suspended(top)

\* What is left of the room that was tested for covers what is ahead.
Promised ==
    /\ code \in {"entry_gc", "entered", "run"} => max_allocs[top.e] <= top.room
    /\ code \in {"call_gc", "collected"} => max_allocs[top.e.e] <= top.room

SizesInv ==
    /\ SizesTyped
    /\ \A n \in DOMAIN stack : Counted(stack[n])
    /\ Calling /\ Promised

LEMMA CodeSame ==
    ASSUME program' = program, NEW f
    PROVE  /\ stack_slots(f)' = stack_slots(f) /\ body_slots(f)' = body_slots(f)
           /\ Params(f)' = Params(f) /\ Body(f)' = Body(f) /\ LocVars(f)' = LocVars(f)
           /\ \A e : fvs_list(f, e)' = fvs_list(f, e)
  BY DEF stack_slots, live_vars, body_slots, slots_gc, fvs_list, LocVars, Params, Body

LEMMA NewestProperties ==
    ASSUME SizesTyped, stack # <<>>
    PROVE  /\ cur \in Nat \ {0} /\ DOMAIN stack = 1 .. cur /\ Len(stack) = cur
           /\ cur \in DOMAIN stack /\ IsActivation(top)
<1>1. cur \in Nat /\ DOMAIN stack = 1 .. cur /\ cur # 0
  BY IsSeqLen, SeqFunction DEF SizesTyped, cur
<1> QED
  BY <1>1 DEF SizesTyped, top, cur

\* A step of the newest activation leaves the others alone.
LEMMA ReplacedNewest ==
    ASSUME SizesTyped, stack # <<>>, NEW a, stack' = Replaced(a)
    PROVE  /\ IsSeq(stack') /\ cur' = cur /\ top' = a /\ stack' # <<>>
           /\ DOMAIN stack' = 1 .. cur
           /\ \A n \in 1 .. cur - 1 : stack'[n] = stack[n]
<1>1. /\ IsSeq(stack') /\ Len(stack') = Len(stack) /\ stack'[cur] = a
      /\ \A n \in DOMAIN stack : n # cur => stack'[n] = stack[n]
  <2>1. Updates(stack', stack, cur, a)
    BY NewestProperties DEF Updates, SizesTyped, Replaced
  <2> QED
    BY <2>1, ReplaceSeq
<1>2. Len(stack') = cur /\ DOMAIN stack' = 1 .. cur
  BY <1>1, IsSeqLen, NewestProperties
<1>3. cur' = cur
  BY <1>2 DEF cur
<1>4. top' = a /\ stack' # <<>>
  BY <1>1, <1>2, <1>3, NewestProperties DEF top
<1> QED
  BY <1>1, <1>2, <1>3, <1>4, NewestProperties

LEMMA SizesInPlace ==
    ASSUME SizesInv, stack # <<>>, UNCHANGED <<scheme, program>>,
           NEW a, stack' = Replaced(a), IsActivation(a), Counted(a),
           code' \in {"enter", "entry_gc", "entered", "run", "call_gc", "collected"},
           code' \in {"entry_gc", "entered", "run"} => max_allocs[a.e] <= a.room,
           code' \in {"call_gc", "collected"} =>
               Suspended(a) /\ max_allocs[a.e.e] <= a.room
    PROVE  SizesInv'
<1>1. /\ IsSeq(stack') /\ cur' = cur /\ top' = a /\ stack' # <<>>
      /\ DOMAIN stack' = 1 .. cur /\ DOMAIN stack = 1 .. cur /\ cur \in Nat \ {0}
      /\ \A n \in 1 .. cur - 1 : stack'[n] = stack[n]
  BY ReplacedNewest, NewestProperties DEF SizesInv
<1>2. \A n \in 1 .. cur : stack'[n] = stack[n] \/ stack'[n] = a
  BY <1>1 DEF top
<1>3. SizesTyped'
  BY <1>1, <1>2 DEF SizesInv, SizesTyped
<1>4. (\A n \in DOMAIN stack : Counted(stack[n]))'
  <2>1. \A n \in DOMAIN stack' : Counted(stack'[n])
    BY <1>1, <1>2 DEF SizesInv
  <2>2. /\ \A f : stack_slots(f)' = stack_slots(f)
        /\ \A f : body_slots(f)' = body_slots(f)
    BY CodeSame
  <2> QED
    BY <2>1, <2>2 DEF Counted
<1>5. Calling'
  <2>1. \A f : \A e : fvs_list(f, e)' = fvs_list(f, e)
    BY CodeSame
  <2> QED
    BY <1>1, <2>1 DEF SizesInv, Calling, Suspended
<1>6. Promised'
  BY <1>1 DEF Promised
<1> QED
  BY <1>3, <1>4, <1>5, <1>6 DEF SizesInv

\* Operations that leave the sizes of an activation as they are.
SameSizes(a, b) ==
    /\ b.f = a.f /\ b.e = a.e /\ b.next = a.next /\ b.room = a.room
    /\ Len(b.roots) = Len(a.roots)

LEMMA AsgnSizes ==
    ASSUME NEW a, IsActivation(a), NEW some
    PROVE  IsActivation(asgnFunVars(a, some)) /\ SameSizes(a, asgnFunVars(a, some))
  BY DEF IsActivation, ActivationFields, SameSizes, asgnFunVars

LEMMA PopSizes ==
    ASSUME NEW a, IsActivation(a), NEW off, NEW xs
    PROVE  IsActivation(Pop(a, off, xs)) /\ SameSizes(a, Pop(a, off, xs))
  BY DEF IsActivation, ActivationFields, SameSizes, Pop

LEMMA PushSizes ==
    ASSUME NEW a, IsActivation(a), NEW off \in 0 .. Len(a.roots), NEW xs, IsSeq(xs)
    PROVE  /\ IsActivation(Push(a, off, xs))
           /\ Push(a, off, xs).f = a.f /\ Push(a, off, xs).e = a.e
           /\ Push(a, off, xs).room = a.room
           /\ off + Len(xs) <= Len(Push(a, off, xs).roots)
           /\ \/ Push(a, off, xs).next = a.next
              \/ Push(a, off, xs).next = off + Len(xs)
<1> DEFINE ys == Values(a, xs)
           pushed == SubSeq(a.roots, 1, off) \o ys
<1>1. Len(xs) \in Nat /\ DOMAIN xs = 1 .. Len(xs) /\ Len(a.roots) \in Nat
  BY IsSeqLen DEF IsActivation
<1>2. DOMAIN ys = 1 .. Len(xs) /\ ys = [i \in 1 .. Len(xs) |-> ys[i]]
  BY <1>1 DEF Values
<1>3. IsSeq(ys) /\ Len(ys) = Len(xs)
  <2> HIDE DEF ys
  <2> QED
    BY <1>1, <1>2, SeqOfFunction
<1>4. IsSeq(SubSeq(a.roots, 1, off)) /\ Len(SubSeq(a.roots, 1, off)) = off
  BY PrefixSeq DEF IsActivation
<1>5. IsSeq(pushed) /\ Len(pushed) = off + Len(xs)
  <2> HIDE DEF ys
  <2> QED
    BY <1>3, <1>4, ConcatSeq
<1>6. pushed = <<>> <=> Len(pushed) = 0
  <2> HIDE DEF pushed
  <2>1. pushed \in Seq({pushed[i] : i \in DOMAIN pushed})
    BY <1>5 DEF IsSeq
  <2> QED
    BY <2>1, EmptySeq
<1>7. Push(a, off, xs) = IF pushed = <<>> THEN a
                         ELSE [a EXCEPT !.roots = pushed, !.next = Len(pushed)]
  BY DEF Push
<1> HIDE DEF pushed
<1>8. CASE pushed = <<>>
  BY <1>1, <1>5, <1>6, <1>7, <1>8
<1>9. CASE pushed # <<>>
  BY <1>1, <1>5, <1>7, <1>9 DEF IsActivation, ActivationFields
<1> QED
  BY <1>8, <1>9

LEMMA ProgramProperties ==
    ASSUME SizesTyped, NEW f \in Names
    PROVE  /\ Params(f) \in Seq(Vars) /\ Body(f) \in Terms
           /\ IsSeq(live_vars(f)) /\ Len(live_vars(f)) \in Nat
           /\ stack_slots(f) \in Nat /\ Len(live_vars(f)) <= stack_slots(f)
           /\ body_slots(f)[Body(f)][0] <= stack_slots(f)
<1>1. Params(f) \in Seq(Vars) /\ Body(f) \in Terms
  BY ProgramsAssumption DEF SizesTyped, Params, Body
<1>2. exp_fv[Body(f)] \cap ToSet(Params(f)) \in SUBSET Vars
  BY <1>1, LiveRecursion
<1>3. IsSeq(live_vars(f)) /\ Len(live_vars(f)) \in Nat
  BY <1>2, ElementsLen DEF live_vars
<1>4. body_slots(f)[Body(f)][0] \in Nat
  BY <1>1, SlotsProperties
<1> QED
  BY <1>1, <1>3, <1>4, MaxPair DEF stack_slots

LEMMA NestedSizes == ASSUME SizesInv, code # "halted" PROVE SizesTyped /\ stack # <<>>
  BY DEF SizesInv, SizesTyped

LEMMA EnterSizes == ASSUME SizesInv, Enter PROVE SizesInv'
<1>1. /\ SizesTyped /\ stack # <<>> /\ code = "enter" /\ UNCHANGED <<scheme, program>>
      /\ IsActivation(top) /\ Counted(top)
  BY NestedSizes, NewestProperties DEF Enter, SizesInv, top
<1>2. max_allocs[term] \in Nat
  BY <1>1, AllocProperties DEF IsActivation, term
<1>3. CASE EnterDirect
  <2> DEFINE a == [asgnFunVars(top, SlotParams(top.f)) EXCEPT !.next = 0, !.prev = fp]
             xs == live_vars(top.f)
  <2>1. /\ IsActivation(a) /\ a.f = top.f /\ a.e = top.e /\ a.next = 0
        /\ Len(a.roots) \in Nat
    <3>1. /\ IsActivation(asgnFunVars(top, SlotParams(top.f)))
          /\ SameSizes(top, asgnFunVars(top, SlotParams(top.f)))
      BY <1>1, AsgnSizes
    <3> QED
      BY <3>1, IsSeqLen DEF IsActivation, ActivationFields, SameSizes
  <2>2. /\ IsSeq(xs) /\ Len(xs) \in Nat /\ Len(xs) <= stack_slots(top.f)
        /\ stack_slots(top.f) \in Nat
    BY <1>1, ProgramProperties DEF IsActivation
  <2>3. /\ code' \in {"entry_gc", "run"}
        /\ \/ stack' = Replaced([Push(a, 0, xs) EXCEPT !.room = max_allocs[term]])
           \/ stack' = Replaced([a EXCEPT !.room = max_allocs[term]])
    BY <1>3 DEF EnterDirect
  <2> HIDE DEF a, xs
  <2>4. /\ IsActivation(Push(a, 0, xs)) /\ Push(a, 0, xs).f = a.f
        /\ Push(a, 0, xs).e = a.e
        /\ Push(a, 0, xs).next = 0 \/ Push(a, 0, xs).next = Len(xs)
    <3>1. 0 \in 0 .. Len(a.roots)
      BY <2>1
    <3> QED
      BY <3>1, <2>1, <2>2, PushSizes
  <2>5. ASSUME NEW b, b = Push(a, 0, xs) \/ b = a,
               stack' = Replaced([b EXCEPT !.room = max_allocs[term]])
        PROVE  SizesInv'
    <3> DEFINE c == [b EXCEPT !.room = max_allocs[term]]
    <3>1. /\ IsActivation(b) /\ b.f = top.f /\ b.e = top.e
          /\ b.next = 0 \/ b.next = Len(xs)
      BY <2>1, <2>4, <2>5
    <3>2. /\ IsActivation(c) /\ c.f = top.f /\ c.e = top.e /\ c.room = max_allocs[term]
          /\ c.next = b.next
      BY <3>1, <1>2 DEF IsActivation, ActivationFields
    <3>3. stack' = Replaced(c)
      BY <2>5
    <3> HIDE DEF c
    <3>4. Counted(c)
      BY <3>1, <3>2, <2>2, <1>1 DEF Counted
    <3>5. max_allocs[c.e] <= c.room
      BY <3>2, <1>2 DEF term
    <3> QED
      BY <3>2, <3>3, <3>4, <3>5, <2>3, <1>1, SizesInPlace
  <2> QED
    BY <2>3, <2>5
<1>4. CASE EnterCPS
  <2>1. /\ code' \in {"entry_gc", "run"}
        /\ \/ stack' = Replaced([top EXCEPT !.room = max_allocs[term]])
           \/ stack' = Replaced([asgnFunVars(top, SlotParams(top.f))
                                    EXCEPT !.room = max_allocs[term]])
    BY <1>4 DEF EnterCPS
  <2>2. ASSUME NEW b, b = top \/ b = asgnFunVars(top, SlotParams(top.f)),
               stack' = Replaced([b EXCEPT !.room = max_allocs[term]])
        PROVE  SizesInv'
    <3> DEFINE c == [b EXCEPT !.room = max_allocs[term]]
    <3>1. IsActivation(b) /\ b.f = top.f /\ b.e = top.e /\ b.next = top.next
      BY <2>2, <1>1, AsgnSizes DEF SameSizes
    <3>2. /\ IsActivation(c) /\ c.f = top.f /\ c.e = top.e /\ c.room = max_allocs[term]
          /\ c.next = top.next
      BY <3>1, <1>2 DEF IsActivation, ActivationFields
    <3>3. stack' = Replaced(c)
      BY <2>2
    <3> HIDE DEF c
    <3>4. Counted(c)
      BY <3>2, <1>1 DEF Counted
    <3>5. max_allocs[c.e] <= c.room
      BY <3>2, <1>2 DEF term
    <3> QED
      BY <3>2, <3>3, <3>4, <3>5, <2>1, <1>1, SizesInPlace
  <2> QED
    BY <2>1, <2>2
<1> QED
  BY <1>3, <1>4 DEF Enter

LEMMA SpoiledSizes ==
    ASSUME NEW d, IsActivation(stack[d])
    PROVE  IsActivation(Spoiled(d)) /\ SameSizes(stack[d], Spoiled(d))
<1> DEFINE a == stack[d]
           roots == [i \in DOMAIN a.roots |->
                        IF d \in Chain /\ i <= a.next THEN a.roots[i] ELSE Moved(a.roots[i])]
           cells == [v \in Vars |-> Moved(a.vars[v])]
<1>1. DOMAIN a.roots = 1 .. Len(a.roots) /\ Len(a.roots) \in Nat
  BY IsSeqLen DEF IsActivation
<1>2. DOMAIN roots = 1 .. Len(a.roots) /\ roots = [i \in 1 .. Len(a.roots) |-> roots[i]]
  BY <1>1
<1>3. IsSeq(roots) /\ Len(roots) = Len(a.roots)
  <2> HIDE DEF roots, a
  <2> QED
    BY <1>1, <1>2, SeqOfFunction
<1>4. Spoiled(d) = [a EXCEPT !.vars = cells, !.roots = roots]
  BY DEF Spoiled, IsActivation, ActivationFields
<1>5. DOMAIN cells = Vars
  OBVIOUS
<1> HIDE DEF roots, cells
<1> QED
  BY <1>3, <1>4, <1>5 DEF IsActivation, ActivationFields, SameSizes

LEMMA CollectSizes == ASSUME SizesInv, Collect PROVE SizesInv'
<1>1. /\ SizesTyped /\ stack # <<>> /\ code \in {"entry_gc", "call_gc"}
      /\ stack' = [d \in DOMAIN stack |-> Spoiled(d)]
      /\ code' = (IF code = "entry_gc" THEN "entered" ELSE "collected")
      /\ UNCHANGED <<scheme, program>>
  BY NestedSizes DEF Collect
<1>2. cur \in Nat \ {0} /\ DOMAIN stack = 1 .. cur
  BY <1>1, NewestProperties
<1>3. IsSeq(stack') /\ cur' = cur /\ DOMAIN stack' = 1 .. cur /\ stack' # <<>>
  <2>1. DOMAIN stack' = 1 .. cur /\ stack' = [d \in 1 .. cur |-> stack'[d]]
    BY <1>1, <1>2
  <2>2. IsSeq(stack') /\ Len(stack') = cur
    BY <2>1, <1>2, SeqOfFunction
  <2> QED
    BY <2>1, <2>2, <1>2 DEF cur
<1>4. ASSUME NEW d \in 1 .. cur
      PROVE  IsActivation(stack'[d]) /\ SameSizes(stack[d], stack'[d])
  <2>1. stack'[d] = Spoiled(d) /\ IsActivation(stack[d])
    BY <1>1, <1>2 DEF SizesTyped
  <2> QED
    BY <2>1, SpoiledSizes
<1>5. SizesTyped'
  BY <1>1, <1>2, <1>3, <1>4 DEF SizesTyped
<1>6. (\A n \in DOMAIN stack : Counted(stack[n]))'
  <2>1. \A n \in DOMAIN stack' : Counted(stack'[n])
    BY <1>2, <1>3, <1>4 DEF SizesInv, SameSizes, Counted
  <2>2. /\ \A f : stack_slots(f)' = stack_slots(f)
        /\ \A f : body_slots(f)' = body_slots(f)
    BY <1>1, CodeSame
  <2> QED
    BY <2>1, <2>2 DEF Counted
<1>7. top' = stack'[cur]
  BY <1>3 DEF top
<1>8. Calling'
  <2>1. /\ \A n \in 1 .. cur - 1 : Suspended(stack'[n])
        /\ code' = "collected" => Suspended(stack'[cur])
    BY <1>1, <1>2, <1>4 DEF SizesInv, Calling, SameSizes, Suspended, top
  <2>2. \A f : \A e : fvs_list(f, e)' = fvs_list(f, e)
    BY <1>1, CodeSame
  <2> QED
    BY <2>1, <2>2, <1>1, <1>3, <1>7 DEF Calling, Suspended
<1>9. Promised'
  <2>1. top'.e = top.e /\ top'.room = top.room
    BY <1>2, <1>4, <1>7 DEF SameSizes, top
  <2> QED
    BY <2>1, <1>1 DEF SizesInv, Promised
<1> QED
  BY <1>5, <1>6, <1>8, <1>9 DEF SizesInv

LEMMA EnteredSizes == ASSUME SizesInv, Entered PROVE SizesInv'
<1>1. /\ SizesTyped /\ stack # <<>> /\ code = "entered" /\ code' = "run"
      /\ UNCHANGED <<scheme, program>>
      /\ IsActivation(top) /\ Counted(top) /\ max_allocs[top.e] <= top.room
  BY NestedSizes, NewestProperties DEF Entered, SizesInv, Promised, top
<1>2. PICK a : /\ stack' = Replaced(a)
               /\ \/ a = Pop(top, 0, live_vars(top.f))
                  \/ a = asgnFunVars(top, DOMAIN Params(top.f))
  BY DEF Entered
<1>3. IsActivation(a) /\ SameSizes(top, a)
  BY <1>1, <1>2, PopSizes, AsgnSizes
<1>4. Counted(a) /\ max_allocs[a.e] <= a.room
  BY <1>1, <1>3 DEF SameSizes, Counted
<1> QED
  BY <1>1, <1>2, <1>3, <1>4, SizesInPlace

\* The body goes on with one of the terms that the construct is made of.
LEMMA GoOnSizes ==
    ASSUME SizesInv, code = "run", code' = "run", UNCHANGED <<scheme, program>>,
           NEW a, stack' = Replaced(a), IsActivation(a),
           a.f = top.f, a.next = top.next,
           body_slots(top.f)[a.e][0] <= body_slots(top.f)[top.e][0],
           max_allocs[a.e] <= a.room
    PROVE  SizesInv'
<1>1. /\ SizesTyped /\ stack # <<>> /\ IsActivation(top) /\ Counted(top)
  BY NestedSizes, NewestProperties DEF SizesInv, top
<1>2. Counted(a)
  <2>1. /\ body_slots(top.f)[a.e][0] \in Nat /\ body_slots(top.f)[top.e][0] \in Nat
        /\ stack_slots(top.f) \in Nat
    BY <1>1, SlotsProperties, ProgramProperties DEF IsActivation
  <2> QED
    BY <2>1, <1>1 DEF Counted
<1> QED
  BY <1>1, <1>2, SizesInPlace

LEMMA RunningSizes ==
    ASSUME SizesInv, code = "run"
    PROVE  /\ stack # <<>> /\ IsActivation(top) /\ term = top.e /\ term \in Terms
           /\ top.room \in Nat /\ max_allocs[term] <= top.room /\ Counted(top)
           /\ SizesTyped
  BY NestedSizes, NewestProperties DEF SizesInv, Promised, IsActivation, term, top

LEMMA ConstrSizes == ASSUME SizesInv, Constr PROVE SizesInv'
<1>1. /\ code = "run" /\ code' = "run" /\ term.op = "constr"
      /\ UNCHANGED <<scheme, program>>
  BY DEF Constr, Running, Stay
<1>2. PICK v, m : stack' = Replaced([top EXCEPT !.vars[term.x] = v, !.means[term.x] = m,
                                        !.room = @ - Words(term.t), !.e = term.e])
  BY DEF Constr
<1>3. /\ term.e \in Terms
      /\ max_allocs[term] = ConstrWords(term.vs) + max_allocs[term.e]
      /\ max_allocs[term.e] \in Nat /\ max_allocs[term] \in Nat
      /\ body_slots(top.f)[term.e][0] <= body_slots(top.f)[term][0]
  BY <1>1, RunningSizes, TermProperties, AllocProperties, SlotsProperties DEF Inner
<1>4. Words(term.t) = ConstrWords(term.vs) /\ ConstrWords(term.vs) \in Nat
  <2>1. term.t.arity = Len(term.vs) /\ term.vs \in Seq(Vars)
    BY <1>1, RunningSizes, TermsAssumption DEF WellFormed
  <2> QED
    BY <2>1, EmptySeq, LenProperties DEF Words, ConstrWords
<1> DEFINE a == [top EXCEPT !.vars[term.x] = v, !.means[term.x] = m,
                            !.room = @ - Words(term.t), !.e = term.e]
<1>5. /\ IsActivation(a) /\ a.f = top.f /\ a.next = top.next /\ a.e = term.e
      /\ max_allocs[a.e] <= a.room
  <2>1. top.room - Words(term.t) \in Nat /\ max_allocs[term.e] <= top.room - Words(term.t)
    BY <1>1, <1>3, <1>4, RunningSizes
  <2> QED
    BY <2>1, <1>1, <1>3, RunningSizes DEF IsActivation, ActivationFields
<1> HIDE DEF a
<1> QED
  BY <1>1, <1>2, <1>3, <1>5, GoOnSizes, RunningSizes DEF a

LEMMA ProjSizes == ASSUME SizesInv, Proj PROVE SizesInv'
<1>1. /\ code = "run" /\ code' = "run" /\ term.op = "proj"
      /\ UNCHANGED <<scheme, program>>
  BY DEF Proj, Running, Stay
<1>2. PICK v, m : stack' = Replaced([top EXCEPT !.vars[term.x] = v, !.means[term.x] = m,
                                        !.e = term.e])
  BY DEF Proj, Define
<1>3. /\ term.e \in Terms /\ max_allocs[term] = max_allocs[term.e]
      /\ body_slots(top.f)[term.e][0] <= body_slots(top.f)[term][0]
  BY <1>1, RunningSizes, TermProperties, AllocProperties, SlotsProperties DEF Inner
<1> DEFINE a == [top EXCEPT !.vars[term.x] = v, !.means[term.x] = m, !.e = term.e]
<1>4. /\ IsActivation(a) /\ a.f = top.f /\ a.next = top.next /\ a.e = term.e
      /\ max_allocs[a.e] <= a.room
  BY <1>1, <1>3, RunningSizes DEF IsActivation, ActivationFields
<1> HIDE DEF a
<1> QED
  BY <1>1, <1>2, <1>3, <1>4, GoOnSizes, RunningSizes DEF a

\* A switch has one branch or another as its outcome.
LEMMA BranchProperties ==
    ASSUME NEW e \in Terms, e.op = "case", NEW v, Alike(e.cs, v) # {}
    PROVE  \E i \in 1 .. Len(e.cs) : Branch(e.cs, v) = e.cs[i]
<1>1. DOMAIN e.cs = 1 .. Len(e.cs) /\ Len(e.cs) \in Nat
  BY TermProperties
<1> DEFINE all == Alike(e.cs, v)
           last == Max(all)
           hits == {i \in all \ {last} : Label(e.cs[i].c) = Scrutinee(v)}
<1>2. all \subseteq 1 .. Len(e.cs)
  BY <1>1 DEF Alike
<1>3. IsFiniteSet(all) /\ all \in SUBSET Nat /\ all # {}
  <2>1. all # {}
    OBVIOUS
  <2> HIDE DEF all
  <2>2. IsFiniteSet(1 .. Len(e.cs))
    BY <1>1, FS_Interval
  <2>3. IsFiniteSet(all)
    BY <2>2, <1>2, FS_Subset
  <2> QED
    BY <2>1, <2>3, <1>2
<1>4. last \in all
  <2> HIDE DEF all
  <2> QED
    BY <1>3, MaxProperties
<1>5. hits # {} => Min(hits) \in hits
  <2>1. hits \in SUBSET Nat
    BY <1>3
  <2> HIDE DEF hits
  <2> SUFFICES ASSUME hits # {} PROVE \E x \in hits : \A y \in hits : x =< y
    BY DEF Min
  <2> QED
    BY <2>1, LeastNatural
<1>6. Branch(e.cs, v) = e.cs[IF hits = {} THEN last ELSE Min(hits)]
  BY DEF Branch
<1>7. hits \subseteq all
  OBVIOUS
<1> HIDE DEF hits, last, all
<1> QED
  BY <1>2, <1>4, <1>5, <1>6, <1>7

LEMMA CaseSizes == ASSUME SizesInv, Case PROVE SizesInv'
<1>1. /\ code = "run" /\ code' = "run" /\ term.op = "case"
      /\ UNCHANGED <<scheme, program>>
      /\ Alike(term.cs, top.vars[term.x]) # {}
  BY DEF Case, Running, Stay
<1>2. PICK i \in 1 .. Len(term.cs) : Branch(term.cs, top.vars[term.x]) = term.cs[i]
  BY <1>1, RunningSizes, BranchProperties
<1> DEFINE s == term.cs[i].e
           a == [top EXCEPT !.e = s]
<1>3. stack' = Replaced(a)
  BY <1>2 DEF Case
<1>4. /\ s \in Terms /\ max_allocs[s] <= max_allocs[term]
      /\ max_allocs[s] \in Nat /\ max_allocs[term] \in Nat
      /\ body_slots(top.f)[s][0] <= body_slots(top.f)[term][0]
  BY <1>1, RunningSizes, TermProperties, AllocProperties, SlotsProperties
<1> HIDE DEF s
<1>5. /\ IsActivation(a) /\ a.f = top.f /\ a.next = top.next /\ a.e = s
      /\ max_allocs[a.e] <= a.room
  BY <1>1, <1>4, RunningSizes DEF IsActivation, ActivationFields
<1> HIDE DEF a
<1> QED
  BY <1>1, <1>3, <1>4, <1>5, GoOnSizes, RunningSizes

LEMMA CalleeSizes ==
    ASSUME SizesTyped, NEW f \in Names, NEW values, NEW means
    PROVE  /\ IsActivation(Activation(f, values, means))
           /\ Counted(Activation(f, values, means))
<1>1. /\ Body(f) \in Terms /\ stack_slots(f) \in Nat
      /\ body_slots(f)[Body(f)][0] <= stack_slots(f)
  BY ProgramProperties
<1>2. IsSeq(<<>>)
  BY EmptySeq DEF IsSeq
<1> QED
  BY <1>1, <1>2 DEF Activation, IsActivation, ActivationFields, Counted

LEMMA AppSizes == ASSUME SizesInv, App PROVE SizesInv'
<1>1. /\ code = "run" /\ code' = "enter" /\ term.op = "app"
      /\ UNCHANGED <<scheme, program>>
      /\ stack' = Replaced(Callee(term.f, term.vs))
  BY DEF App, Running, EnterNext
<1>2. SizesTyped /\ stack # <<>> /\ term.f \in Names
  BY <1>1, RunningSizes, TermsAssumption DEF WellFormed
<1>3. IsActivation(Callee(term.f, term.vs)) /\ Counted(Callee(term.f, term.vs))
  BY <1>2, CalleeSizes DEF Callee
<1> QED
  BY <1>1, <1>2, <1>3, SizesInPlace

LEMMA LetAppSizes == ASSUME SizesInv, LetApp PROVE SizesInv'
<1>1. /\ code = "run" /\ code' = "enter" /\ term.op = "letapp"
      /\ UNCHANGED <<scheme, program>>
  BY DEF LetApp, Running, EnterNext
<1>2. /\ SizesTyped /\ stack # <<>> /\ IsActivation(top) /\ Counted(top)
      /\ term = top.e /\ term \in Terms /\ term.f \in Names
      /\ cur \in Nat \ {0} /\ DOMAIN stack = 1 .. cur
  BY <1>1, RunningSizes, NewestProperties, TermsAssumption DEF WellFormed
<1> DEFINE xs == fvs_list(top.f, term)
           a == Push(top, 0, xs)
           b == Callee(term.f, term.vs)
           r == Replaced(a)
<1>3. stack' = Append(r, b)
  BY DEF LetApp
<1>4. /\ IsSeq(xs) /\ Len(xs) \in Nat
      /\ Len(xs) <= body_slots(top.f)[term][0]
      /\ body_slots(top.f)[term][0] \in Nat /\ stack_slots(top.f) \in Nat
  <2>1. /\ IsSeq(xs) /\ Len(xs) \in Nat /\ slots_gc(top.f, term) \in Nat
        /\ Len(xs) <= slots_gc(top.f, term)
    BY <1>1, <1>2, HeldType
  <2>2. /\ slots_gc(top.f, term) <= body_slots(top.f)[term][0]
        /\ body_slots(top.f)[term][0] \in Nat /\ stack_slots(top.f) \in Nat
    BY <1>1, <1>2, SlotsProperties, ProgramProperties DEF IsActivation
  <2> HIDE DEF xs
  <2> QED
    BY <2>1, <2>2
<1>5. /\ IsActivation(a) /\ a.f = top.f /\ a.e = term
      /\ Counted(a) /\ Suspended(a)
  <2> HIDE DEF xs
  <2>1. 0 \in 0 .. Len(top.roots)
    BY <1>2, IsSeqLen DEF IsActivation
  <2>2. /\ IsActivation(a) /\ a.f = top.f /\ a.e = top.e
        /\ Len(xs) <= Len(a.roots)
        /\ a.next = top.next \/ a.next = Len(xs)
    BY <2>1, <1>2, <1>4, PushSizes
  <2> HIDE DEF a
  <2>3. Counted(a)
    BY <2>2, <1>2, <1>4 DEF Counted
  <2> QED
    BY <2>2, <2>3, <1>1, <1>2 DEF Suspended, xs
<1>6. IsActivation(b) /\ Counted(b)
  BY <1>2, CalleeSizes DEF Callee
<1> HIDE DEF a, b, xs
<1>7. /\ IsSeq(r) /\ Len(r) = cur /\ r[cur] = a
      /\ \A n \in 1 .. cur : n # cur => r[n] = stack[n]
  <2>1. Updates(r, stack, cur, a)
    BY <1>2 DEF SizesTyped, Updates, Replaced
  <2> QED
    BY <2>1, <1>2, ReplaceSeq, NewestProperties
<1> HIDE DEF r
<1>8. PICK m : m = cur + 1
  OBVIOUS
<1>9. /\ IsSeq(stack') /\ cur' = m /\ DOMAIN stack' = 1 .. m /\ stack'[m] = b
      /\ \A n \in 1 .. cur : stack'[n] = r[n]
  <2>1. /\ IsSeq(stack') /\ Len(stack') = m /\ stack'[m] = b
        /\ \A n \in 1 .. cur : stack'[n] = r[n]
    BY <1>3, <1>7, <1>8, AppendSeq
  <2> QED
    BY <2>1, IsSeqLen DEF cur
<1>10. /\ top' = b /\ stack' # <<>> /\ m \in Nat \ {0}
       /\ \A n \in 1 .. m : n = m \/ n \in 1 .. cur
       /\ 1 .. m - 1 = 1 .. cur
  BY <1>2, <1>8, <1>9 DEF top
<1>11. \A n \in 1 .. cur : IsActivation(stack'[n]) /\ Counted(stack'[n]) /\ Suspended(stack'[n])
  <2>1. ASSUME NEW n \in 1 .. cur
        PROVE  IsActivation(stack'[n]) /\ Counted(stack'[n]) /\ Suspended(stack'[n])
    <3>1. CASE n = cur
      BY <3>1, <1>5, <1>7, <1>9
    <3>2. CASE n # cur
      <4>1. n \in 1 .. cur - 1 /\ n \in DOMAIN stack
        BY <3>2, <1>2
      <4>2. IsActivation(stack[n]) /\ Counted(stack[n]) /\ Suspended(stack[n])
        BY <4>1 DEF SizesInv, SizesTyped, Calling
      <4> QED
        BY <3>2, <4>2, <1>7, <1>9
    <3> QED
      BY <3>1, <3>2
  <2> QED
    BY <2>1
<1>12. SizesTyped'
  BY <1>1, <1>2, <1>6, <1>9, <1>10, <1>11 DEF SizesTyped
<1>13. (\A n \in DOMAIN stack : Counted(stack[n]))'
  <2>1. \A n \in DOMAIN stack' : Counted(stack'[n])
    BY <1>6, <1>9, <1>10, <1>11
  <2>2. /\ \A f : stack_slots(f)' = stack_slots(f)
        /\ \A f : body_slots(f)' = body_slots(f)
    BY <1>1, CodeSame
  <2> QED
    BY <2>1, <2>2 DEF Counted
<1>14. Calling'
  <2>1. \A f : \A e : fvs_list(f, e)' = fvs_list(f, e)
    BY <1>1, CodeSame
  <2> QED
    BY <2>1, <1>1, <1>9, <1>10, <1>11 DEF Calling, Suspended
<1>15. Promised'
  BY <1>1 DEF Promised
<1> QED
  BY <1>12, <1>13, <1>14, <1>15 DEF SizesInv

LEMMA HaltSizes == ASSUME SizesInv, Halt PROVE SizesInv'
<1>1. /\ code = "run" /\ UNCHANGED <<scheme, program>>
      /\ stack' = SubSeq(stack, 1, Len(stack) - 1)
      /\ code' = (IF cur = 1 THEN "halted" ELSE "returned")
  BY DEF Halt, Running, Front
<1>2. SizesTyped /\ stack # <<>> /\ cur \in Nat \ {0} /\ DOMAIN stack = 1 .. cur
  BY <1>1, RunningSizes, NewestProperties
<1>3. /\ IsSeq(stack') /\ cur' = cur - 1 /\ DOMAIN stack' = 1 .. cur - 1
      /\ \A n \in 1 .. cur - 1 : stack'[n] = stack[n]
  <2>1. /\ IsSeq(stack') /\ Len(stack') = cur - 1
        /\ \A n \in 1 .. cur - 1 : stack'[n] = stack[n]
    BY <1>1, <1>2, FrontSeq DEF SizesTyped, cur
  <2> QED
    BY <2>1, IsSeqLen DEF cur
<1>4. \A n \in 1 .. cur - 1 : n \in DOMAIN stack
  BY <1>2
<1>5. stack' = <<>> <=> cur = 1
  <2>1. stack' \in Seq({stack'[i] : i \in DOMAIN stack'})
    BY <1>3 DEF IsSeq
  <2>2. stack' = <<>> <=> Len(stack') = 0
    BY <2>1, EmptySeq
  <2> QED
    BY <2>2, <1>2, <1>3 DEF cur
<1>6. SizesTyped'
  BY <1>1, <1>2, <1>3, <1>4, <1>5 DEF SizesTyped
<1>7. (\A n \in DOMAIN stack : Counted(stack[n]))'
  <2>1. \A n \in DOMAIN stack' : Counted(stack'[n])
    BY <1>3, <1>4 DEF SizesInv
  <2>2. /\ \A f : stack_slots(f)' = stack_slots(f)
        /\ \A f : body_slots(f)' = body_slots(f)
    BY <1>1, CodeSame
  <2> QED
    BY <2>1, <2>2 DEF Counted
<1>8. Calling'
  <2>1. \A n \in 1 .. cur - 1 : Suspended(stack'[n])
    BY <1>3 DEF SizesInv, Calling
  <2>2. code' = "returned" => top' = stack'[cur - 1] /\ cur - 1 \in 1 .. cur - 1
    BY <1>1, <1>2, <1>3 DEF top
  <2>3. \A f : \A e : fvs_list(f, e)' = fvs_list(f, e)
    BY <1>1, CodeSame
  <2>4. 1 .. cur' - 1 \subseteq 1 .. cur - 1
    BY <1>2, <1>3
  <2> QED
    BY <2>1, <2>2, <2>3, <2>4, <1>1 DEF Calling, Suspended
<1>9. Promised'
  BY <1>1 DEF Promised
<1> QED
  BY <1>6, <1>7, <1>8, <1>9 DEF SizesInv

\* An activation in a call, when the call has returned.
LEMMA CallingSizes ==
    ASSUME SizesInv, code \in {"returned", "call_gc", "collected"}
    PROVE  /\ SizesTyped /\ stack # <<>> /\ IsActivation(top) /\ Counted(top)
           /\ Suspended(top) /\ term = top.e /\ term \in Terms /\ term.op = "letapp"
           /\ term.e \in Terms /\ term.x \in Vars
           /\ Len(fvs_list(top.f, term)) \in 0 .. Len(top.roots)
           /\ max_allocs[term.e] \in Nat
           /\ slots_gc(top.f, term) <= stack_slots(top.f)
           /\ body_slots(top.f)[term.e][0] <= stack_slots(top.f)
<1>1. /\ SizesTyped /\ stack # <<>> /\ IsActivation(top) /\ Counted(top)
      /\ Suspended(top) /\ term = top.e /\ term \in Terms /\ term.op = "letapp"
  BY NestedSizes, NewestProperties DEF SizesInv, Calling, IsActivation, Suspended, term, top
<1>2. term.e \in Terms /\ term.x \in Vars /\ max_allocs[term.e] \in Nat
  BY <1>1, TermProperties, AllocProperties DEF Inner
<1>3. /\ slots_gc(top.f, term) <= body_slots(top.f)[term][0]
      /\ body_slots(top.f)[term.e][0] <= body_slots(top.f)[term][0]
      /\ body_slots(top.f)[term][0] \in Nat /\ body_slots(top.f)[term.e][0] \in Nat
      /\ slots_gc(top.f, term) \in Nat /\ Len(fvs_list(top.f, term)) \in Nat
      /\ stack_slots(top.f) \in Nat
  BY <1>1, <1>2, SlotsProperties, HeldType, ProgramProperties DEF Inner, IsActivation
<1>4. /\ Len(fvs_list(top.f, term)) \in 0 .. Len(top.roots)
      /\ slots_gc(top.f, term) <= stack_slots(top.f)
      /\ body_slots(top.f)[term.e][0] <= stack_slots(top.f)
  <2>1. Len(top.roots) \in Nat /\ Len(fvs_list(top.f, term)) <= Len(top.roots)
    BY <1>1, IsSeqLen DEF IsActivation, Suspended
  <2>2. body_slots(top.f)[term][0] <= stack_slots(top.f)
    BY <1>1 DEF Counted
  <2> QED
    BY <2>1, <2>2, <1>3
<1> QED
  BY <1>1, <1>2, <1>4

\* The body goes on after a call.
LEMMA DiscardSizes ==
    ASSUME SizesInv, code \in {"returned", "collected"}, code' = "run",
           UNCHANGED <<scheme, program>>,
           NEW a, IsActivation(a), a.f = top.f, a.e = top.e, a.next = top.next,
           max_allocs[term.e] <= a.room, Discard(a)
    PROVE  SizesInv'
<1> DEFINE b == Pop(a, 0, fvs_list(a.f, a.e))
           c == [b EXCEPT !.e = a.e.e]
<1>1. stack' = Replaced(c)
  BY DEF Discard
<1>2. IsActivation(b) /\ SameSizes(a, b)
  BY PopSizes
<1>3. a.e.e \in Terms /\ a.e = term
  BY CallingSizes
<1> HIDE DEF b
<1>4. IsActivation(c) /\ c.f = a.f /\ c.e = term.e /\ c.next = a.next /\ c.room = a.room
  BY <1>2, <1>3 DEF IsActivation, ActivationFields, SameSizes
<1> HIDE DEF c
<1>5. Counted(c) /\ max_allocs[c.e] <= c.room
  BY <1>4, CallingSizes DEF Counted
<1> QED
  BY <1>1, <1>4, <1>5, CallingSizes, SizesInPlace

LEMMA ReturnedSizes == ASSUME SizesInv, Returned PROVE SizesInv'
<1>1. code = "returned" /\ UNCHANGED <<scheme, program>>
  BY DEF Returned
<1> DEFINE a == [top EXCEPT !.vars[term.x] = args[1], !.means[term.x] = answer,
                            !.room = max_allocs[term.e]]
           held == Len(fvs_list(top.f, term))
           xs == fv_gc(term)
<1>2. \/ /\ max_allocs[term.e] # 0
         /\ stack' = Replaced(Push(a, held, xs)) /\ code' = "call_gc"
      \/ Discard(a) /\ code' = "run"
  BY DEF Returned
<1>3. /\ IsActivation(a) /\ a.f = top.f /\ a.e = top.e /\ a.next = top.next
      /\ a.room = max_allocs[term.e] /\ a.roots = top.roots
  BY <1>1, CallingSizes DEF IsActivation, ActivationFields
<1> HIDE DEF a
<1>4. CASE Discard(a) /\ code' = "run"
  <2>1. max_allocs[term.e] <= a.room
    BY <1>1, <1>3, CallingSizes
  <2> QED
    BY <2>1, <1>1, <1>3, <1>4, DiscardSizes
<1>5. CASE /\ max_allocs[term.e] # 0
           /\ stack' = Replaced(Push(a, held, xs)) /\ code' = "call_gc"
  <2> DEFINE b == Push(a, held, xs)
  <2>1. /\ held \in 0 .. Len(a.roots) /\ IsSeq(xs) /\ Len(xs) \in Nat
        /\ held + Len(xs) = slots_gc(top.f, term) /\ held \in Nat
    BY <1>1, <1>3, <1>5, CallingSizes, HeldType
  <2> HIDE DEF held, xs
  <2>2. /\ IsActivation(b) /\ b.f = top.f /\ b.e = top.e /\ b.room = max_allocs[term.e]
        /\ held + Len(xs) <= Len(b.roots)
        /\ b.next = top.next \/ b.next = held + Len(xs)
    BY <2>1, <1>3, PushSizes
  <2> HIDE DEF b
  <2>3. Counted(b)
    BY <2>1, <2>2, <1>1, CallingSizes DEF Counted
  <2>4. Suspended(b)
    <3>1. Len(b.roots) \in Nat
      BY <2>2, IsSeqLen DEF IsActivation
    <3>2. held <= Len(b.roots)
      BY <3>1, <2>1, <2>2
    <3> QED
      BY <3>2, <2>2, <1>1, CallingSizes DEF Suspended, held
  <2>5. max_allocs[b.e.e] <= b.room
    BY <2>2, <1>1, CallingSizes
  <2>6. stack' = Replaced(b)
    BY <1>5 DEF b
  <2> QED
    BY <2>2, <2>3, <2>4, <2>5, <2>6, <1>1, <1>5, CallingSizes, SizesInPlace
<1> QED
  BY <1>2, <1>4, <1>5

LEMMA CollectedSizes == ASSUME SizesInv, Collected PROVE SizesInv'
<1>1. code = "collected" /\ code' = "run" /\ UNCHANGED <<scheme, program>>
  BY DEF Collected
<1>2. PICK off, xs : Discard(Pop(top, off, xs))
  BY DEF Collected
<1>3. IsActivation(Pop(top, off, xs)) /\ SameSizes(top, Pop(top, off, xs))
  BY <1>1, CallingSizes, PopSizes
<1>4. max_allocs[term.e] <= top.room
  BY <1>1, CallingSizes DEF SizesInv, Promised
<1> QED
  BY <1>1, <1>2, <1>3, <1>4, DiscardSizes DEF SameSizes

LEMMA InitSizes == Init => SizesInv
<1> SUFFICES ASSUME Init PROVE SizesInv
  OBVIOUS
<1>1. PICK vs \in Inputs : Called("f", vs)
  BY DEF Init
<1> DEFINE a == Activation("f", vs, vs)
<1>2. stack = <<a>> /\ scheme \in Schemes /\ program \in Programs[scheme] /\ code = "enter"
  BY <1>1 DEF Init, Called
<1>3. IsActivation(a) /\ Counted(a)
  <2>1. Params("f") \in Seq(Vars) /\ Body("f") \in Terms
    BY <1>2, ProgramsAssumption DEF Params, Body
  <2>2. exp_fv[Body("f")] \cap ToSet(Params("f")) \in SUBSET Vars
    BY <2>1, LiveRecursion
  <2>3. Len(live_vars("f")) \in Nat
    BY <2>2, ElementsLen DEF live_vars
  <2>4. body_slots("f")[Body("f")][0] \in Nat
    BY <2>1, SlotsProperties
  <2>5. stack_slots("f") \in Nat /\ body_slots("f")[Body("f")][0] <= stack_slots("f")
    BY <2>3, <2>4, MaxPair DEF stack_slots
  <2>6. IsSeq(<<>>)
    BY EmptySeq DEF IsSeq
  <2> QED
    BY <2>1, <2>5, <2>6, ProgramsAssumption
    DEF Activation, IsActivation, ActivationFields, Counted
<1> HIDE DEF a
<1>4. /\ IsSeq(stack) /\ DOMAIN stack = 1 .. 1 /\ cur = 1 /\ stack # <<>>
      /\ stack[1] = a
  BY <1>2 DEF IsSeq, cur
<1>5. \A n \in DOMAIN stack : stack[n] = a
  BY <1>4
<1>6. SizesTyped
  BY <1>2, <1>3, <1>4, <1>5 DEF SizesTyped
<1>7. Calling /\ Promised
  BY <1>2, <1>4 DEF Calling, Promised
<1> QED
  BY <1>3, <1>5, <1>6, <1>7 DEF SizesInv

LEMMA NextSizes == SizesInv /\ [Next]_vars => SizesInv'
<1> SUFFICES ASSUME SizesInv, [Next]_vars PROVE SizesInv'
  OBVIOUS
<1>1. CASE UNCHANGED vars
  <2>1. \A f : /\ stack_slots(f)' = stack_slots(f) /\ body_slots(f)' = body_slots(f)
               /\ \A e : fvs_list(f, e)' = fvs_list(f, e)
    BY <1>1, CodeSame DEF vars
  <2> QED
    BY <2>1, <1>1
    DEF SizesInv, SizesTyped, Counted, Calling, Suspended, Promised, cur, top, vars
<1> QED
  BY <1>1, EnterSizes, CollectSizes, EnteredSizes, ConstrSizes, ProjSizes, CaseSizes,
     LetAppSizes, AppSizes, HaltSizes, ReturnedSizes, CollectedSizes DEF Next

\* The inductive invariant: no activation has used more roots, or may use more in
\* the rest of its body, than its function declares; and the room left covers
\* what is allocated before the next test.
THEOREM SizesInvariance == Spec => []SizesInv
  BY InitSizes, NextSizes, PTL DEF Spec

\* No path through a body allocates more than was tested for before it
\* (max_allocs and the collections on entry and after calls).
THEOREM AlwaysWithinPromise == Spec => []WithinPromise
<1>1. SizesInv => WithinPromise
  <2> SUFFICES ASSUME SizesInv, stack # <<>> PROVE top.room >= 0
    BY DEF WithinPromise
  <2>1. top.room \in Nat
    BY NewestProperties DEF SizesInv, IsActivation
  <2> QED
    BY <2>1
<1> QED
  BY <1>1, SizesInvariance, PTL

\* No frame uses more roots than its function declares (stack_slots of
\* translate_fundef), whatever the branches, the calls and the collections.
THEOREM RootsAlwaysFit == Spec => []RootsFit
<1>1. SizesInv => RootsFit
  BY DEF SizesInv, RootsFit, Counted
<1> QED
  BY <1>1, SizesInvariance, PTL

-----------------------------------------------------------------------------
(* The values of the variables, and the frames: the invariant. *)

\* A value is a tree of constructors, as the members of T are.
Hereditary(T) == \A w \in T : w.c \in Ctors /\ \A i \in DOMAIN w.kids : w.kids[i] \in T
Tree(v) == \E T : v \in T /\ Hereditary(T)

\* The variables xs of a are in its roots, and are all that is.
Saved(a, xs) ==
    /\ xs # <<>> => a.next = Len(xs) /\ Len(a.roots) = Len(xs)
    /\ \A i \in DOMAIN xs : a.roots[i] = a.means[xs[i]] /\ Tree(a.means[xs[i]])

\* What an activation holds while the function runs that it has called.
Held(a) == IF a.e.op = "letapp" THEN fvs_list(a.f, a.e) ELSE <<>>

\* The variables that the newest activation a has in its roots when it is at c.
Saving(a, c) ==
    CASE c \in {"entry_gc", "entered"} -> IF scheme = "direct" THEN live_vars(a.f) ELSE <<>>
      [] c = "returned" -> Held(a)
      [] c \in {"call_gc", "collected"} -> Held(a) \o fv_gc(a.e)
      [] OTHER -> <<>>

Holders == {n \in 1 .. cur : Held(stack[n]) # <<>>}

\* d is the largest of the numbers 1 .. n that are in H, 0 if none is.
Deepest(H, d, n) ==
    /\ d \in 0 .. n
    /\ d # 0 => d \in H
    /\ \A m \in d + 1 .. n : m \notin H

\* The term of an activation uses variables of its function.
Scoped(a) ==
    /\ exp_fv[a.e] \subseteq LocVars(a.f)
    /\ get_locals[a.e] \subseteq get_locals[Body(a.f)]

\* An activation in a call, number n of which those in H hold something: what it
\* holds is in its roots, and its frame is linked to that of the last such one.
Waiting(H, n, b) ==
    /\ Scoped(b)
    /\ Saved(b, Held(b))
    /\ Deepest(H, b.prev, n - 1)

\* The variables in S are what the term says.
Current(a, S) == \A v \in S : a.vars[v] = a.means[v] /\ Tree(a.means[v])

\* Some parameters of a, given by their numbers, are in their slots.
Passed(a, store, some) == \A i \in some : store[ArgSlot(i)] = a.means[Params(a.f)[i]]

Arrived(a) == \A i \in DOMAIN Params(a.f) : Tree(a.means[Params(a.f)[i]])

Entering(a, store) ==
    /\ a.e = Body(a.f)
    /\ Arrived(a)
    /\ \A i \in CParams(a.f) : a.vars[Params(a.f)[i]] = a.means[Params(a.f)[i]]
    /\ Passed(a, store, SlotParams(a.f))

\* Around the collection on entry.
Reserving(a, store) ==
    /\ a.e = Body(a.f)
    /\ scheme # "direct" => Arrived(a) /\ Passed(a, store, DOMAIN Params(a.f))

Going(a, store) ==
    /\ Current(a, exp_fv[a.e])
    /\ scheme # "direct" => Passed(a, store, SlotParams(a.f))

\* The newest activation a, number n, when the code is at c, fp is p, args is
\* store and the last answer was ans.
Newest(H, n, a, c, p, store, ans) ==
    /\ Scoped(a)
    /\ scheme # "direct" => n = 1 /\ a.e \in CPSTerms
    /\ Saved(a, Saving(a, c))
    /\ IF c = "enter" THEN a.prev = 0 ELSE Deepest(H, a.prev, n - 1)
    /\ IF Saving(a, c) = <<>> THEN Deepest(H, p, n - 1) ELSE p = n
    /\ c = "enter" => Entering(a, store)
    /\ c \in {"entry_gc", "entered"} => Reserving(a, store)
    /\ c = "run" => Going(a, store)
    /\ c = "returned" => store[1] = ans /\ Tree(ans)

ValuesInv ==
    /\ entries \in Nat /\ cur <= entries /\ entries <= ENTRIES
    /\ DOMAIN args = 0 .. SLOTS - 1
    /\ \A n \in 1 .. cur - 1 : Waiting(Holders, n, stack[n])
    /\ stack # <<>> => Newest(Holders, cur, top, code, fp, args, answer)

-----------------------------------------------------------------------------
(* Data. *)

LEMMA TreeProperties ==
    ASSUME NEW v, Tree(v)
    PROVE  v.c \in Ctors /\ v # Stale /\ \A i \in DOMAIN v.kids : Tree(v.kids[i])
<1>1. PICK T : v \in T /\ Hereditary(T)
  BY DEF Tree
<1>2. v.c \in Ctors /\ \A i \in DOMAIN v.kids : v.kids[i] \in T
  BY <1>1 DEF Hereditary
<1>3. \A i \in DOMAIN v.kids : Tree(v.kids[i])
  BY <1>1, <1>2 DEF Tree
<1>4. Stale.c.ordinal = -1
  BY DEF Stale, Value, Ctor
<1>5. v # Stale
  BY <1>2, <1>4 DEF Ctors
<1> QED
  BY <1>2, <1>3, <1>5

LEMMA TreeNode ==
    ASSUME NEW t \in Ctors, NEW kids, \A i \in DOMAIN kids : Tree(kids[i])
    PROVE  Tree(Value(t, kids))
<1> DEFINE up == [i \in DOMAIN kids |-> CHOOSE T : kids[i] \in T /\ Hereditary(T)]
           below == {up[i] : i \in DOMAIN kids}
           all == UNION (below \cup {{Value(t, kids)}})
<1>1. ASSUME NEW i \in DOMAIN kids PROVE kids[i] \in up[i] /\ Hereditary(up[i])
  <2>1. \E T : kids[i] \in T /\ Hereditary(T)
    BY DEF Tree
  <2> QED
    BY <2>1
<1> HIDE DEF up
<1>2. /\ \A i \in DOMAIN kids : up[i] \in below
      /\ \A T \in below : \E i \in DOMAIN kids : T = up[i]
  OBVIOUS
<1> HIDE DEF below
<1>3. /\ \A T \in below : \A w \in T : w \in all
      /\ Value(t, kids) \in all
      /\ \A w \in all : w = Value(t, kids) \/ \E T \in below : w \in T
  <2>1. PICK node : node = Value(t, kids)
    OBVIOUS
  <2>2. all = UNION (below \cup {{node}})
    BY <2>1
  <2> QED
    BY <2>1, <2>2
<1> HIDE DEF all
<1>5. ASSUME NEW w \in all
      PROVE  w.c \in Ctors /\ \A j \in DOMAIN w.kids : w.kids[j] \in all
  <2>1. CASE w = Value(t, kids)
    <3>1. w.c = t /\ w.kids = kids
      BY <2>1 DEF Value
    <3> QED
      BY <3>1, <1>1, <1>2, <1>3
  <2>2. CASE w # Value(t, kids)
    <3>1. PICK i \in DOMAIN kids : w \in up[i]
      BY <2>2, <1>2, <1>3
    <3>2. w.c \in Ctors /\ \A j \in DOMAIN w.kids : w.kids[j] \in up[i]
      BY <3>1, <1>1 DEF Hereditary
    <3> QED
      BY <3>2, <1>2, <1>3
  <2> QED
    BY <2>1, <2>2
<1>6. Hereditary(all)
  BY <1>5 DEF Hereditary
<1> QED
  BY <1>3, <1>6 DEF Tree

LEMMA TreeData == ASSUME NEW v \in Data PROVE Tree(v)
<1>1. Hereditary(Data)
  BY DataAssumption, LenProperties DEF Hereditary
<1> QED
  BY <1>1 DEF Tree

LEMMA MinProperties ==
    ASSUME NEW S \in SUBSET Nat, S # {} PROVE Min(S) \in S
<1>1. \E x \in S : \A y \in S : x =< y
  BY LeastNatural
<1> QED
  BY <1>1 DEF Min

\* Elements lists a set of variables.
LEMMA ElementsProperties ==
    ASSUME NEW S \in SUBSET Vars
    PROVE  /\ \A i \in DOMAIN Elements(S) : Elements(S)[i] \in S
           /\ \A v \in S : \E i \in DOMAIN Elements(S) : Elements(S)[i] = v
<1> DEFINE Below(v) == {u \in S : u < v}
           r == [v \in S |-> Cardinality(Below(v))]
           n == Cardinality(S)
<1>1. IsFiniteSet(S) /\ n \in Nat
  BY VarsAssumption, FS_Subset, FS_CardinalityType
<1>2. ASSUME NEW v \in S PROVE r[v] \in 0 .. n - 1
  <2>1. Below(v) \in SUBSET S /\ Below(v) # S
    BY VarsAssumption
  <2>2. /\ IsFiniteSet(Below(v)) /\ Cardinality(Below(v)) <= n
        /\ Cardinality(Below(v)) # n
    BY <1>1, <2>1, FS_Subset
  <2>3. Cardinality(Below(v)) \in Nat
    BY <2>2, FS_CardinalityType
  <2> QED
    BY <1>1, <2>2, <2>3
<1>3. ASSUME NEW u \in S, NEW v \in S, u < v PROVE r[u] # r[v]
  <2>1. Below(u) \in SUBSET Below(v)
    <3>1. ASSUME NEW w \in S, w < u PROVE w < v
      <4>1. u \in Nat /\ v \in Nat /\ w \in Nat
        BY VarsAssumption
      <4> QED
        BY <4>1, <3>1, <1>3
    <3> QED
      BY <3>1
  <2>2. u \in Below(v) /\ u \notin Below(u)
    BY <1>3, VarsAssumption
  <2>3. IsFiniteSet(Below(v))
    BY <1>1, FS_Subset
  <2>4. Cardinality(Below(v)) # Cardinality(Below(u))
    BY <2>1, <2>2, <2>3, FS_Subset
  <2> QED
    BY <2>4
<1> HIDE DEF r
<1>4. \A u, v \in S : r[u] = r[v] => u = v
  <2> SUFFICES ASSUME NEW u \in S, NEW v \in S, u # v PROVE r[u] # r[v]
    OBVIOUS
  <2>1. u < v \/ v < u
    BY VarsAssumption
  <2> QED
    BY <2>1, <1>3
<1>5. r \in Injection(S, 0 .. n - 1)
  BY <1>2, <1>4 DEF Injection, IsInjective, r
<1>6. IsFiniteSet(0 .. n - 1) /\ Cardinality(0 .. n - 1) = n
  <2>1. 0 \in Int /\ n - 1 \in Int /\ (0 > n - 1 => n = 0) /\ (n - 1) - 0 + 1 = n
    BY <1>1
  <2>2. /\ IsFiniteSet(0 .. n - 1)
        /\ Cardinality(0 .. n - 1) = IF 0 > n - 1 THEN 0 ELSE (n - 1) - 0 + 1
    BY <2>1, FS_Interval
  <2> QED
    BY <2>1, <2>2
<1>7. r \in Surjection(S, 0 .. n - 1)
  BY <1>5, <1>6, FS_Injection
<1>8. DOMAIN Elements(S) = 1 .. n
  BY DEF Elements
<1>9. ASSUME NEW i \in 1 .. n PROVE Elements(S)[i] \in S /\ r[Elements(S)[i]] = i - 1
  <2>1. i - 1 \in 0 .. n - 1
    BY <1>1
  <2>2. \E v \in S : r[v] = i - 1
    BY <2>1, <1>7 DEF Surjection
  <2>3. Elements(S)[i] = CHOOSE v \in S : Cardinality(Below(v)) = i - 1
    BY DEF Elements
  <2>4. \A v \in S : r[v] = Cardinality(Below(v))
    BY DEF r
  <2>5. \E v \in S : Cardinality(Below(v)) = i - 1
    BY <2>2, <2>4
  <2>6. Elements(S)[i] \in S /\ Cardinality(Below(Elements(S)[i])) = i - 1
    BY <2>3, <2>5
  <2> QED
    BY <2>4, <2>6
<1>10. ASSUME NEW v \in S PROVE \E i \in 1 .. n : Elements(S)[i] = v
  <2>1. PICK k \in 0 .. n - 1 : r[v] = k
    BY <1>2
  <2> HIDE DEF n
  <2>2. k + 1 \in 1 .. n /\ k + 1 - 1 = k
    BY <1>1
  <2>3. r[Elements(S)[k + 1]] = r[v] /\ Elements(S)[k + 1] \in S
    BY <2>1, <2>2, <1>9
  <2> QED
    BY <2>2, <2>3, <1>4
<1> QED
  BY <1>8, <1>9, <1>10

-----------------------------------------------------------------------------
(* Terms. *)

LocalsStep(g) ==
    [e \in Terms |->
        CASE e.op = "case" -> UNION {g[e.cs[i].e] : i \in DOMAIN e.cs}
          [] e.op \in {"app", "halt"} -> {}
          [] OTHER -> {e.x} \cup g[e.e]]

LEMMA LocalsStepType ==
    ASSUME NEW g \in [Terms -> SUBSET Vars] PROVE LocalsStep(g) \in [Terms -> SUBSET Vars]
<1> SUFFICES ASSUME NEW e \in Terms PROVE LocalsStep(g)[e] \subseteq Vars
  BY DEF LocalsStep
<1>1. CASE e.op = "case"
  <2>1. \A i \in DOMAIN e.cs : g[e.cs[i].e] \subseteq Vars
    BY <1>1, TermProperties
  <2> QED
    BY <1>1, <2>1 DEF LocalsStep
<1>2. CASE e.op \in Inner
  <2>1. e.x \in Vars /\ g[e.e] \subseteq Vars
    BY <1>2, TermProperties DEF Inner
  <2> QED
    BY <1>2, <2>1 DEF LocalsStep, Inner
<1>3. CASE e.op \in {"app", "halt"}
  BY <1>3 DEF LocalsStep
<1> QED
  BY <1>1, <1>2, <1>3, TermProperties DEF Ops, Inner

LEMMA LocalsLocal ==
    ASSUME NEW f, NEW g, NEW e \in Terms,
           \A s \in Terms : Height[s] < Height[e] => f[s] = g[s]
    PROVE  LocalsStep(f)[e] = LocalsStep(g)[e]
<1>1. CASE e.op = "case"
  <2>1. \A i \in DOMAIN e.cs : f[e.cs[i].e] = g[e.cs[i].e]
    BY <1>1, TermProperties
  <2>2. {f[e.cs[i].e] : i \in DOMAIN e.cs} = {g[e.cs[i].e] : i \in DOMAIN e.cs}
    BY <2>1
  <2> QED
    BY <1>1, <2>2 DEF LocalsStep
<1>2. CASE e.op \in Inner
  <2>1. f[e.e] = g[e.e]
    BY <1>2, TermProperties
  <2> QED
    BY <1>2, <2>1 DEF LocalsStep, Inner
<1>3. CASE e.op \in {"app", "halt"}
  BY <1>3 DEF LocalsStep
<1> QED
  BY <1>1, <1>2, <1>3, TermProperties DEF Ops, Inner

LEMMA LocalsRecursion == get_locals = LocalsStep(get_locals)
<1> DEFINE Step == [g \in [Terms -> (SUBSET Vars)] |-> LocalsStep(g)]
<1>1. Step \in [[Terms -> (SUBSET Vars)] -> [Terms -> (SUBSET Vars)]]
  BY LocalsStepType
<1>2. Recursion(Terms, (SUBSET Vars), Height, Step)
  <2>1. ASSUME NEW f \in [Terms -> (SUBSET Vars)], NEW g \in [Terms -> (SUBSET Vars)],
               NEW e \in Terms,
               \A s \in Terms : Height[s] < Height[e] => f[s] = g[s]
        PROVE  Step[f][e] = Step[g][e]
    BY <2>1, LocalsLocal
  <2> HIDE DEF Step
  <2> QED
    BY <1>1, <2>1, TermsAssumption DEF Recursion, Descends
<1>3. Solvable(Terms, (SUBSET Vars), Step)
  <2> HIDE DEF Step
  <2> QED
    BY <1>2, RecursionExists
<1>4. \E g : g = LocalsStep(g)
  BY <1>3 DEF Solvable
<1>5. get_locals = CHOOSE g : g = LocalsStep(g)
  BY DEF get_locals, LocalsStep
<1> QED
  BY <1>4, <1>5

\* What a term uses and binds, from what its parts do.
LEMMA ScopeProperties ==
    ASSUME NEW e \in Terms
    PROVE  /\ e.op # "case" => ToSet(e.vs) \subseteq exp_fv[e]
           /\ e.op \in Inner => /\ exp_fv[e.e] \subseteq exp_fv[e] \cup {e.x}
                                /\ get_locals[e] = {e.x} \cup get_locals[e.e]
           /\ e.op = "case" =>
                  /\ e.x \in exp_fv[e]
                  /\ \A i \in 1 .. Len(e.cs) : /\ exp_fv[e.cs[i].e] \subseteq exp_fv[e]
                                               /\ get_locals[e.cs[i].e] \subseteq get_locals[e]
<1>1. exp_fv[e] = LiveStep(exp_fv)[e] /\ get_locals[e] = LocalsStep(get_locals)[e]
  BY LiveRecursion, LocalsRecursion
<1>2. CASE e.op = "case"
  <2>1. /\ exp_fv[e] = {e.x} \cup UNION {exp_fv[e.cs[i].e] : i \in DOMAIN e.cs}
        /\ get_locals[e] = UNION {get_locals[e.cs[i].e] : i \in DOMAIN e.cs}
        /\ DOMAIN e.cs = 1 .. Len(e.cs)
    BY <1>1, <1>2, TermProperties DEF LiveStep, LocalsStep
  <2>2. ASSUME NEW i \in 1 .. Len(e.cs)
        PROVE  /\ exp_fv[e.cs[i].e] \in {exp_fv[e.cs[j].e] : j \in DOMAIN e.cs}
               /\ get_locals[e.cs[i].e] \in {get_locals[e.cs[j].e] : j \in DOMAIN e.cs}
    BY <2>1
  <2> QED
    BY <1>2, <2>1, <2>2, Zenon DEF Inner
<1>3. CASE e.op # "case"
  BY <1>1, <1>3, TermProperties DEF LiveStep, LocalsStep, Ops, Inner
<1> QED
  BY <1>2, <1>3

\* What a constructor's number becomes in a word and in a header, and back.
LEMMA UnboxedWord == ASSUME NEW o \in Nat PROVE (2 * o + 1) \div 2 = o
  OBVIOUS

LEMMA BoxedHeader ==
    ASSUME NEW a \in Nat, NEW o \in Nat, o < 256 PROVE (1024 * a + o) % 256 = o
  OBVIOUS

\* The switch for a value takes the branch of its constructor.
LEMMA BranchTaken ==
    ASSUME NEW e \in Terms, e.op = "case", NEW v, NEW i \in DOMAIN e.cs,
           e.cs[i].c = v.c
    PROVE  Branch(e.cs, v) = e.cs[i]
<1> DEFINE cs == e.cs
           all == Alike(cs, v)
           last == Max(all)
           hits == {j \in all \ {last} : Label(cs[j].c) = Scrutinee(v)}
<1>1. DOMAIN cs = 1 .. Len(cs) /\ Len(cs) \in Nat
  BY TermProperties
<1>2. ASSUME NEW j \in DOMAIN cs
      PROVE  /\ cs[j].c.arity \in Nat /\ cs[j].c.ordinal \in Nat
             /\ cs[j].c.arity # 0 => cs[j].c.ordinal < 256
             /\ (cs[j].c.arity = 0) = (v.c.arity = 0) /\ cs[j].c.ordinal = v.c.ordinal => j = i
  <2>1. WellFormed(e)
    BY TermsAssumption
  <2>2. cs[j] \in [c : Ctors, e : Terms]
    <3>1. cs \in Seq([c : Ctors, e : Terms])
      BY <2>1 DEF WellFormed
    <3> HIDE DEF cs
    <3> QED
      BY <3>1, LenProperties
  <2>3. \A k \in DOMAIN e.cs :
            /\ (e.cs[k].c.arity = 0) = (e.cs[i].c.arity = 0)
            /\ e.cs[k].c.ordinal = e.cs[i].c.ordinal
            => k = i
    BY <2>1, Zenon DEF WellFormed
  <2>4. cs[j].c.arity # 0 => cs[j].c.ordinal < 256
    BY <2>1 DEF WellFormed
  <2> QED
    BY <2>2, <2>3, <2>4 DEF Ctors
<1>3. ASSUME NEW j \in all PROVE Label(cs[j].c) = Scrutinee(v) <=> j = i
  <2>1. j \in DOMAIN cs /\ (cs[j].c.arity = 0) = (v.c.arity = 0)
    BY DEF Alike
  <2>2. /\ v.c.arity \in Nat /\ v.c.ordinal \in Nat
        /\ v.c.arity # 0 => v.c.ordinal < 256
    BY <1>2
  <2>3. Label(cs[j].c) = cs[j].c.ordinal
    BY <1>2, <2>1 DEF Label, makeTagZ
  <2>4. Scrutinee(v) = v.c.ordinal
    BY <2>2, UnboxedWord, BoxedHeader DEF Scrutinee, makeTagZ
  <2> QED
    BY <1>2, <2>1, <2>3, <2>4
<1>4. i \in all /\ all \in SUBSET Nat
  BY <1>1 DEF Alike
<1>5. Branch(cs, v) = cs[IF hits = {} THEN last ELSE Min(hits)]
  BY DEF Branch
<1>6. last \in all
  <2>1. IsFiniteSet(1 .. Len(cs)) /\ all \subseteq 1 .. Len(cs)
    BY <1>1, FS_Interval DEF Alike
  <2>2. IsFiniteSet(all)
    BY <2>1, FS_Subset
  <2> HIDE DEF all
  <2> QED
    BY <2>2, <1>4, MaxProperties
<1>7. hits = IF i = last THEN {} ELSE {i}
  BY <1>3, <1>4
<1>8. Min({i}) = i
  <2>1. {i} \in SUBSET Nat /\ {i} # {}
    BY <1>4
  <2> QED
    BY <2>1, MinProperties
<1> HIDE DEF hits, last, all
<1> QED
  BY <1>5, <1>7, <1>8

-----------------------------------------------------------------------------
(* What the operations do to an activation. *)

\* Operations that leave alone what the links and the meanings are.
SameFrame(a, b) == b.f = a.f /\ b.e = a.e /\ b.prev = a.prev /\ b.means = a.means

SameRoots(a, b) == b.roots = a.roots /\ b.next = a.next

LEMMA SeqEmpty == ASSUME NEW s, IsSeq(s) PROVE s = <<>> <=> Len(s) = 0
  BY EmptySeq DEF IsSeq

\* r is s followed by t.
Joins(r, s, t) ==
    /\ IsSeq(r) /\ Len(r) = Len(s) + Len(t)
    /\ \A i \in 1 .. Len(s) : r[i] = s[i]
    /\ \A i \in 1 .. Len(t) : r[Len(s) + i] = t[i]

LEMMA Concatenation == ASSUME NEW s, IsSeq(s), NEW t, IsSeq(t) PROVE Joins(s \o t, s, t)
  BY ConcatSeq DEF Joins

LEMMA PushSaved ==
    ASSUME NEW a, IsActivation(a), NEW xs, IsSeq(xs), NEW ys, IsSeq(ys),
           Saved(a, xs), Current(a, ToSet(ys))
    PROVE  /\ IsActivation(Push(a, Len(xs), ys)) /\ SameFrame(a, Push(a, Len(xs), ys))
           /\ Push(a, Len(xs), ys).vars = a.vars /\ Push(a, Len(xs), ys).room = a.room
           /\ Saved(Push(a, Len(xs), ys), xs \o ys)
<1> DEFINE b == Push(a, Len(xs), ys)
           values == Values(a, ys)
           held == SubSeq(a.roots, 1, Len(xs))
           pushed == held \o values
<1>1. /\ Len(xs) \in 0 .. Len(a.roots) /\ Len(xs) \in Nat /\ Len(ys) \in Nat
      /\ DOMAIN xs = 1 .. Len(xs) /\ DOMAIN ys = 1 .. Len(ys)
      /\ xs = <<>> <=> Len(xs) = 0
  <2>1. Len(xs) \in Nat /\ Len(a.roots) \in Nat /\ (xs = <<>> <=> Len(xs) = 0)
    BY IsSeqLen, EmptySeq DEF IsActivation, IsSeq
  <2>2. Len(xs) \in 0 .. Len(a.roots)
    BY <2>1 DEF Saved
  <2> QED
    BY <2>1, <2>2, IsSeqLen
<1>2. /\ IsActivation(b) /\ b.f = a.f /\ b.e = a.e /\ b.room = a.room
  BY <1>1, PushSizes
<1>3. /\ DOMAIN values = 1 .. Len(ys)
      /\ \A i \in 1 .. Len(ys) : values[i] = a.means[ys[i]] /\ Tree(a.means[ys[i]])
  <2>1. \A i \in 1 .. Len(ys) : ys[i] \in ToSet(ys)
    BY <1>1 DEF ToSet
  <2> QED
    BY <2>1, <1>1 DEF Values, Current
<1>4. IsSeq(values) /\ Len(values) = Len(ys)
  <2>1. values = [i \in 1 .. Len(ys) |-> values[i]]
    BY <1>1 DEF Values
  <2> HIDE DEF values
  <2> QED
    BY <2>1, <1>1, <1>3, SeqOfFunction
<1>5. /\ IsSeq(held) /\ Len(held) = Len(xs)
      /\ \A i \in 1 .. Len(xs) : held[i] = a.roots[i]
  BY <1>1, PrefixSeq DEF IsActivation
<1> HIDE DEF values, held
<1>6. /\ IsSeq(pushed) /\ Len(pushed) = Len(xs) + Len(ys)
      /\ \A i \in 1 .. Len(xs) : pushed[i] = a.roots[i]
      /\ \A i \in 1 .. Len(ys) : pushed[Len(xs) + i] = values[i]
      /\ pushed = <<>> <=> Len(pushed) = 0
  <2>1. /\ IsSeq(pushed) /\ Len(pushed) = Len(xs) + Len(ys)
        /\ \A i \in 1 .. Len(xs) : pushed[i] = held[i]
        /\ \A i \in 1 .. Len(ys) : pushed[Len(xs) + i] = values[i]
    <3>1. Joins(pushed, held, values)
      BY <1>4, <1>5, Concatenation
    <3> HIDE DEF pushed
    <3> QED
      BY <3>1, <1>4, <1>5 DEF Joins
  <2> HIDE DEF pushed
  <2>2. pushed = <<>> <=> Len(pushed) = 0
    BY <2>1, SeqEmpty
  <2> QED
    BY <2>1, <2>2, <1>5
<1> DEFINE zs == xs \o ys
<1>7. /\ Len(zs) = Len(xs) + Len(ys)
      /\ \A i \in 1 .. Len(xs) : zs[i] = xs[i]
      /\ \A i \in 1 .. Len(ys) : zs[Len(xs) + i] = ys[i]
      /\ DOMAIN zs = 1 .. Len(xs) + Len(ys)
      /\ zs = <<>> <=> Len(zs) = 0
  <2>1. /\ IsSeq(zs) /\ Len(zs) = Len(xs) + Len(ys)
        /\ \A i \in 1 .. Len(xs) : zs[i] = xs[i]
        /\ \A i \in 1 .. Len(ys) : zs[Len(xs) + i] = ys[i]
    BY ConcatSeq
  <2> HIDE DEF zs
  <2>2. DOMAIN zs = 1 .. Len(zs) /\ (zs = <<>> <=> Len(zs) = 0)
    BY <2>1, IsSeqLen, SeqEmpty
  <2> QED
    BY <2>1, <2>2
<1>8. b = IF pushed = <<>> THEN a ELSE [a EXCEPT !.roots = pushed, !.next = Len(pushed)]
  BY DEF Push, values, held
<1> HIDE DEF b, pushed, zs
<1>9. SameFrame(a, b) /\ b.vars = a.vars
  BY <1>2, <1>8 DEF SameFrame, IsActivation, ActivationFields
<1>10. Saved(b, zs)
  <2>1. zs # <<>> => b.roots = pushed /\ b.next = Len(pushed)
    BY <1>6, <1>7, <1>8 DEF IsActivation, ActivationFields
  <2>2. zs # <<>> => b.next = Len(zs) /\ Len(b.roots) = Len(zs)
    BY <2>1, <1>6, <1>7
  <2>3. ASSUME NEW i \in DOMAIN zs
        PROVE  b.roots[i] = a.means[zs[i]] /\ Tree(a.means[zs[i]])
    <3>1. i \in 1 .. Len(xs) + Len(ys)
      BY <1>7, <2>3
    <3>2. b.roots = pushed
      BY <2>1, <3>1, <1>1, <1>7
    <3>3. CASE i \in 1 .. Len(xs)
      <4>1. zs[i] = xs[i] /\ pushed[i] = a.roots[i]
        BY <3>3, <1>6, <1>7
      <4> QED
        BY <4>1, <3>2, <3>3, <1>1 DEF Saved
    <3>4. CASE i \notin 1 .. Len(xs)
      <4>1. PICK j \in 1 .. Len(ys) : i = Len(xs) + j
        <5>1. i - Len(xs) \in 1 .. Len(ys) /\ i = Len(xs) + (i - Len(xs))
          BY <3>1, <3>4, <1>1
        <5> QED
          BY <5>1
      <4>2. zs[i] = ys[j] /\ pushed[i] = values[j]
        BY <4>1, <1>6, <1>7
      <4> QED
        BY <4>2, <3>2, <1>3
    <3> QED
      BY <3>3, <3>4
  <2> QED
    BY <2>2, <2>3, <1>9 DEF Saved, SameFrame
<1> QED
  BY <1>2, <1>9, <1>10 DEF b, zs

LEMMA PopValues ==
    ASSUME NEW a, IsActivation(a), NEW off, NEW xs, IsSeq(xs),
           \A i \in DOMAIN xs : a.roots[off + i] = a.means[xs[i]]
    PROVE  /\ SameFrame(a, Pop(a, off, xs)) /\ SameRoots(a, Pop(a, off, xs))
           /\ \A v \in Vars : Pop(a, off, xs).vars[v] =
                                  IF v \in ToSet(xs) THEN a.means[v] ELSE a.vars[v]
<1> DEFINE is(v) == {i \in DOMAIN xs : xs[i] = v}
           cells == [v \in Vars |-> IF is(v) = {} THEN a.vars[v] ELSE a.roots[off + Min(is(v))]]
<1>1. Pop(a, off, xs) = [a EXCEPT !.vars = cells]
  BY DEF Pop, IsActivation, ActivationFields
<1>2. ASSUME NEW v \in Vars
      PROVE  cells[v] = IF v \in ToSet(xs) THEN a.means[v] ELSE a.vars[v]
  <2>1. is(v) \in SUBSET Nat
    BY IsSeqLen
  <2>2. is(v) = {} <=> v \notin ToSet(xs)
    BY DEF ToSet
  <2>3. is(v) # {} => Min(is(v)) \in is(v)
    BY <2>1, MinProperties
  <2> HIDE DEF is
  <2>4. is(v) # {} => Min(is(v)) \in DOMAIN xs /\ xs[Min(is(v))] = v
    BY <2>3 DEF is
  <2> QED
    BY <2>2, <2>4
<1> HIDE DEF cells
<1> QED
  BY <1>1, <1>2 DEF IsActivation, ActivationFields, SameFrame, SameRoots

LEMMA AsgnValues ==
    ASSUME NEW a, IsActivation(a), Params(a.f) \in Seq(Vars),
           NEW some \in SUBSET DOMAIN Params(a.f), Passed(a, args, some)
    PROVE  /\ SameFrame(a, asgnFunVars(a, some)) /\ SameRoots(a, asgnFunVars(a, some))
           /\ \A v \in Vars : asgnFunVars(a, some).vars[v] =
                  IF \E i \in some : Params(a.f)[i] = v THEN a.means[v] ELSE a.vars[v]
<1> DEFINE is(v) == {i \in some : Params(a.f)[i] = v}
           cells == [v \in Vars |-> IF is(v) = {} THEN a.vars[v] ELSE args[ArgSlot(Min(is(v)))]]
<1>1. asgnFunVars(a, some) = [a EXCEPT !.vars = cells]
  BY DEF asgnFunVars, IsActivation, ActivationFields
<1>2. ASSUME NEW v \in Vars
      PROVE  cells[v] = IF \E i \in some : Params(a.f)[i] = v THEN a.means[v] ELSE a.vars[v]
  <2>1. is(v) \in SUBSET Nat
    BY LenProperties
  <2>2. is(v) = {} <=> ~ \E i \in some : Params(a.f)[i] = v
    OBVIOUS
  <2>3. is(v) # {} => Min(is(v)) \in is(v)
    BY <2>1, MinProperties
  <2> HIDE DEF is
  <2>4. is(v) # {} => Min(is(v)) \in some /\ Params(a.f)[Min(is(v))] = v
    BY <2>3 DEF is
  <2> QED
    BY <2>2, <2>4 DEF Passed
<1> HIDE DEF cells
<1> QED
  BY <1>1, <1>2 DEF IsActivation, ActivationFields, SameFrame, SameRoots

\* What is known of the functions of a program.
LEMMA FunctionProperties ==
    ASSUME SizesTyped, NEW f \in Names
    PROVE  /\ Params(f) \in Seq(Vars) /\ Body(f) \in Terms
           /\ DOMAIN Params(f) = 1 .. Len(Params(f)) /\ Len(Params(f)) = Arity[f]
           /\ Arity[f] \in 0 .. SLOTS
           /\ IsInjective(Params(f))
           /\ exp_fv[Body(f)] \subseteq ToSet(Params(f))
           /\ get_locals[Body(f)] \cap ToSet(Params(f)) = {}
           /\ scheme # "direct" => Body(f) \in CPSTerms
           /\ CParams(f) \subseteq DOMAIN Params(f) /\ SlotParams(f) \subseteq DOMAIN Params(f)
           /\ SlotParams(f) = {i \in DOMAIN Params(f) : i > nParam}
<1>1. Params(f) \in Seq(Vars) /\ Body(f) \in Terms
  BY ProgramProperties
<1>2. /\ Len(program[f].vs) = Arity[f] /\ IsInjective(program[f].vs)
      /\ exp_fv[program[f].e] \subseteq ToSet(program[f].vs)
      /\ get_locals[program[f].e] \cap ToSet(program[f].vs) = {}
      /\ scheme # "direct" => program[f].e \in CPSTerms
  BY ClosedAssumption, Zenon DEF SizesTyped
<1>3. DOMAIN Params(f) = 1 .. Len(Params(f)) /\ Len(Params(f)) \in Nat
  BY <1>1, LenProperties
<1>4. Arity[f] \in 0 .. SLOTS /\ nParam \in Nat
  BY BoundsAssumption
<1> QED
  BY <1>1, <1>2, <1>3, <1>4 DEF Params, Body, CParams, SlotParams

LEMMA CalleeValues ==
    ASSUME SizesTyped, NEW f \in Names, NEW values, NEW means
    PROVE  /\ \A i \in DOMAIN Params(f) : Activation(f, values, means).means[Params(f)[i]] = means[i]
           /\ \A i \in CParams(f) : Activation(f, values, means).vars[Params(f)[i]] = values[i]
           /\ Activation(f, values, means).f = f /\ Activation(f, values, means).e = Body(f)
           /\ Activation(f, values, means).prev = 0
<1> DEFINE ps == Params(f)
           is(v, some) == {i \in some : ps[i] = v}
           At(v, seq, some) == IF is(v, some) = {} THEN Stale ELSE seq[Min(is(v, some))]
<1>1. ASSUME NEW some \in SUBSET DOMAIN ps, NEW i \in some, NEW seq
      PROVE  ps[i] \in Vars /\ At(ps[i], seq, some) = seq[i]
  <2>1. ps[i] \in Vars /\ i \in Nat
    BY FunctionProperties
  <2>2. is(ps[i], some) = {i}
    BY FunctionProperties DEF IsInjective
  <2>3. Min({i}) = i
    <3>1. {i} \in SUBSET Nat /\ {i} # {}
      BY <2>1
    <3> QED
      BY <3>1, MinProperties
  <2> QED
    BY <2>1, <2>2, <2>3
<1>2. /\ Activation(f, values, means).vars = [v \in Vars |-> At(v, values, CParams(f))]
      /\ Activation(f, values, means).means = [v \in Vars |-> At(v, means, DOMAIN ps)]
      /\ Activation(f, values, means).f = f /\ Activation(f, values, means).e = Body(f)
      /\ Activation(f, values, means).prev = 0
  BY DEF Activation, CParams
<1> HIDE DEF At
<1>3. CParams(f) \in SUBSET DOMAIN ps
  BY FunctionProperties
<1> QED
  BY <1>1, <1>2, <1>3

-----------------------------------------------------------------------------
(* The frames that the collector finds. *)

\* Deepest is about the numbers up to n only.
LEMMA DeepestSame ==
    ASSUME NEW G, NEW H, NEW n \in Nat, NEW d, Deepest(G, d, n),
           \A m \in 1 .. n : m \in G <=> m \in H
    PROVE  Deepest(H, d, n)
  BY DEF Deepest

LEMMA DeepestNext ==
    ASSUME NEW H, NEW n \in Nat, NEW d, Deepest(H, d, n)
    PROVE  /\ n + 1 \in H => Deepest(H, n + 1, n + 1)
           /\ n + 1 \notin H => Deepest(H, d, n + 1)
  BY DEF Deepest

LEMMA LinkedProperties ==
    ASSUME SizesTyped, stack # <<>>, ValuesInv, code # "enter"
    PROVE  /\ cur \in 1 .. ENTRIES
           /\ \A n \in 1 .. cur : Deepest(Holders, stack[n].prev, n - 1)
           /\ \A n \in 1 .. cur : stack[n].prev \in 0 .. n - 1 /\ LiveFrame(n)
<1>1. cur \in Nat \ {0} /\ cur <= entries /\ entries <= ENTRIES /\ entries \in Nat
  BY NewestProperties DEF ValuesInv
<1>2. \A n \in 1 .. cur : Deepest(Holders, stack[n].prev, n - 1)
  <2>1. Deepest(Holders, top.prev, cur - 1)
    BY DEF ValuesInv, Newest
  <2>2. \A n \in 1 .. cur - 1 : Deepest(Holders, stack[n].prev, n - 1)
    BY DEF ValuesInv, Waiting
  <2> QED
    BY <1>1, <2>1, <2>2 DEF top
<1>3. \A n \in 1 .. cur : stack[n].prev \in 0 .. n - 1
  BY <1>2 DEF Deepest
<1> QED
  BY <1>1, <1>2, <1>3, BoundsAssumption DEF LiveFrame

ChainStep(g) ==
    [d \in 0 .. ENTRIES |->
        IF d = 0 THEN {}
        ELSE {d} \cup IF LiveFrame(d) THEN g[stack[d].prev] ELSE {}]

LEMMA ChainRecursion ==
    ASSUME SizesTyped, stack # <<>>, ValuesInv, code # "enter"
    PROVE  \E g : g = ChainStep(g) /\ Chain = g[fp]
<1> DEFINE S == 0 .. ENTRIES
           V == SUBSET S
           rank == [d \in S |-> d]
           Step == [g \in [S -> V] |-> ChainStep(g)]
<1>1. ASSUME NEW d \in 1 .. ENTRIES, LiveFrame(d)
      PROVE  stack[d].prev \in S /\ stack[d].prev < d
  <2>1. d \in 1 .. cur
    BY <1>1 DEF LiveFrame
  <2>2. stack[d].prev \in 0 .. d - 1
    BY <2>1, LinkedProperties
  <2> QED
    BY <2>2, BoundsAssumption
<1>2. ASSUME NEW g \in [S -> V] PROVE ChainStep(g) \in [S -> V]
  <2>1. ASSUME NEW d \in S PROVE ChainStep(g)[d] \in V
    <3>1. CASE d = 0
      BY <3>1 DEF ChainStep
    <3>2. CASE d # 0 /\ LiveFrame(d)
      <4>1. g[stack[d].prev] \in V
        BY <3>2, <1>1
      <4>2. ChainStep(g)[d] = {d} \cup g[stack[d].prev]
        BY <3>2 DEF ChainStep
      <4> QED
        BY <4>1, <4>2
    <3>3. CASE d # 0 /\ ~ LiveFrame(d)
      BY <3>3 DEF ChainStep
    <3> QED
      BY <3>1, <3>2, <3>3
  <2> QED
    BY <2>1 DEF ChainStep
<1>3. Step \in [[S -> V] -> [S -> V]] /\ V # {}
  BY <1>2
<1>4. rank \in [S -> Nat] /\ \A d \in S : rank[d] = d
  BY BoundsAssumption
<1>5. ASSUME NEW f \in [S -> V], NEW g \in [S -> V], NEW d \in S,
             \A c \in S : rank[c] < rank[d] => f[c] = g[c]
      PROVE  Step[f][d] = Step[g][d]
  <2>1. d # 0 /\ LiveFrame(d) => f[stack[d].prev] = g[stack[d].prev]
    BY <1>1, <1>4, <1>5
  <2>2. ChainStep(f)[d] = ChainStep(g)[d]
    BY <2>1 DEF ChainStep
  <2> QED
    BY <2>2
<1>6. Solvable(S, V, Step)
  <2> HIDE DEF S, V, rank, Step
  <2>1. Recursion(S, V, rank, Step)
    BY <1>3, <1>4, <1>5 DEF Recursion, Descends
  <2> QED
    BY <2>1, RecursionExists
<1>7. \E g : g = ChainStep(g)
  BY <1>6 DEF Solvable
<1>8. Chain = (CHOOSE g : g = ChainStep(g))[fp]
  BY DEF Chain, ChainStep
<1> QED
  BY <1>7, <1>8

\* The collector finds the frames of those who hold something, and no others.
LEMMA ChainProperties ==
    ASSUME SizesTyped, stack # <<>>, ValuesInv, code # "enter"
    PROVE  \A d : d \in Chain <=> \/ d \in Holders /\ d # cur
                                  \/ d = cur /\ Saving(top, code) # <<>>
<1>1. PICK g : g = ChainStep(g) /\ Chain = g[fp]
  BY ChainRecursion
<1>2. /\ cur \in Nat \ {0} /\ cur \in 1 .. ENTRIES
      /\ \A n \in 1 .. cur : Deepest(Holders, stack[n].prev, n - 1)
      /\ \A n \in 1 .. cur : stack[n].prev \in 0 .. n - 1 /\ LiveFrame(n)
  BY LinkedProperties, NewestProperties
<1>3. /\ g[0] = {}
      /\ \A n \in 1 .. cur : g[n] = {n} \cup g[stack[n].prev]
  <2>1. g[0] = ChainStep(g)[0] /\ \A n \in 1 .. cur : g[n] = ChainStep(g)[n]
    BY <1>1
  <2>2. ChainStep(g)[0] = {}
    BY BoundsAssumption DEF ChainStep
  <2>3. ASSUME NEW n \in 1 .. cur PROVE ChainStep(g)[n] = {n} \cup g[stack[n].prev]
    <3>1. n \in 0 .. ENTRIES /\ n # 0 /\ LiveFrame(n)
      BY <1>2, BoundsAssumption
    <3> QED
      BY <3>1 DEF ChainStep
  <2> QED
    BY <2>1, <2>2, <2>3
<1> DEFINE Upto(n) == {m \in Holders : m <= n}
           Good == {n \in Nat : \A d \in 0 .. n : Deepest(Holders, d, n) => g[d] = Upto(n)}
<1>4. 0 \in Good
  <2>1. \A m \in Holders : m \in Nat \ {0}
    BY DEF Holders
  <2>2. Upto(0) = {}
    BY <2>1
  <2>3. \A d \in 0 .. 0 : g[d] = Upto(0)
    BY <2>2, <1>3
  <2> QED
    BY <2>3
<1>5. ASSUME NEW n \in 0 .. cur - 1 - 1, n \in Good PROVE n + 1 \in Good
  <2>1. ASSUME NEW d \in 0 .. n + 1, Deepest(Holders, d, n + 1) PROVE g[d] = Upto(n + 1)
    <3>1. n \in Nat /\ n + 1 \in 1 .. cur /\ n + 1 - 1 = n
      BY <1>2
    <3>2. CASE n + 1 \in Holders
      <4>1. d = n + 1
        BY <2>1, <3>1, <3>2 DEF Deepest
      <4>2. /\ Deepest(Holders, stack[n + 1].prev, n) /\ stack[n + 1].prev \in 0 .. n
            /\ g[n + 1] = {n + 1} \cup g[stack[n + 1].prev]
        BY <1>2, <1>3, <3>1
      <4>3. g[stack[n + 1].prev] = Upto(n)
        BY <4>2, <1>5
      <4>4. Upto(n + 1) = {n + 1} \cup Upto(n)
        BY <3>1, <3>2 DEF Holders
      <4> QED
        BY <4>1, <4>2, <4>3, <4>4
    <3>3. CASE n + 1 \notin Holders
      <4>1. d \in 0 .. n /\ Deepest(Holders, d, n)
        BY <2>1, <3>1, <3>3 DEF Deepest
      <4>2. g[d] = Upto(n)
        BY <4>1, <1>5
      <4>3. Upto(n + 1) = Upto(n)
        BY <3>1, <3>3 DEF Holders
      <4> QED
        BY <4>2, <4>3
    <3> QED
      BY <3>2, <3>3
  <2> QED
    BY <2>1, <1>2
<1>6. cur - 1 \in Good
  <2> HIDE DEF Good
  <2>1. cur - 1 \in Nat /\ cur - 1 \in 0 .. cur - 1
    BY <1>2
  <2>2. \A n \in 0 .. cur - 1 : n \in Good
    BY <2>1, <1>4, <1>5, BoundedInduction
  <2> QED
    BY <2>1, <2>2
<1>7. \A d : Deepest(Holders, d, cur - 1) => g[d] = Upto(cur - 1)
  BY <1>6 DEF Deepest
<1>8. \A d : d \in Upto(cur - 1) <=> d \in Holders /\ d # cur
  BY <1>2 DEF Holders
<1> HIDE DEF Upto, Good
<1>9. CASE Saving(top, code) = <<>>
  <2>1. Chain = Upto(cur - 1)
    BY <1>1, <1>7, <1>9 DEF ValuesInv, Newest
  <2> QED
    BY <2>1, <1>8, <1>9
<1>10. CASE Saving(top, code) # <<>>
  <2>1. fp = cur /\ cur \in 1 .. cur
    BY <1>2, <1>10 DEF ValuesInv, Newest
  <2>2. Chain = {cur} \cup Upto(cur - 1)
    BY <1>1, <1>2, <1>3, <1>7, <2>1
  <2> QED
    BY <2>2, <1>8, <1>10
<1> QED
  BY <1>9, <1>10

-----------------------------------------------------------------------------
(* Steps. *)

\* The program stays what it is.
LEMMA ValuesSame ==
    ASSUME program' = program, scheme' = scheme
    PROVE  /\ \A H, n, b : Waiting(H, n, b)' <=> Waiting(H, n, b)
           /\ \A H, n, a, c, p, store, ans :
                  Newest(H, n, a, c, p, store, ans)' <=> Newest(H, n, a, c, p, store, ans)
           /\ \A a : Held(a)' = Held(a)
  BY DEF Waiting, Newest, Held, Scoped, Saving, Entering, Reserving, Going, Passed, Arrived,
         Saved, Current, LocVars, Params, Body, fvs_list, live_vars, CParams, SlotParams

\* What is linked below an activation is all it depends on.
LEMMA OthersSame ==
    ASSUME NEW G, NEW H, NEW n \in Nat \ {0}, \A m \in 1 .. n - 1 : m \in G <=> m \in H
    PROVE  /\ \A b : Waiting(G, n, b) => Waiting(H, n, b)
           /\ \A a, c, p, store, ans :
                  Newest(G, n, a, c, p, store, ans) => Newest(H, n, a, c, p, store, ans)
<1>1. \A d : Deepest(G, d, n - 1) => Deepest(H, d, n - 1)
  BY DeepestSame
<1> QED
  BY <1>1 DEF Waiting, Newest

\* A step after which there are n activations, the newest of which is a.
LEMMA ValuesStep ==
    ASSUME ValuesInv, program' = program, scheme' = scheme,
           NEW n \in Nat, cur' = n, stack' = <<>> <=> n = 0,
           entries' \in Nat, n <= entries', entries' <= ENTRIES,
           DOMAIN args' = 0 .. SLOTS - 1,
           \A m \in 1 .. n - 1 : /\ Waiting(Holders, m, stack'[m])
                                 /\ m \in Holders <=> Held(stack'[m]) # <<>>,
           n # 0 => Newest(Holders, n, stack'[n], code', fp', args', answer')
    PROVE  ValuesInv'
<1>1. /\ \A H, m, b : Waiting(H, m, b)' <=> Waiting(H, m, b)
      /\ \A H, m, a, c, p, store, ans :
             Newest(H, m, a, c, p, store, ans)' <=> Newest(H, m, a, c, p, store, ans)
      /\ \A a : Held(a)' = Held(a)
  BY ValuesSame
<1>2. \A m \in 1 .. n - 1 : m \in Holders' <=> m \in Holders
  <2>1. \A m \in 1 .. n - 1 : m \in Holders' <=> Held(stack[m])' # <<>>
    BY DEF Holders
  <2>2. \A m \in 1 .. n - 1 : Held(stack[m])' = Held(stack'[m])
    BY <1>1
  <2> QED
    BY <2>1, <2>2
<1>3. ASSUME NEW m \in 1 .. n - 1 PROVE Waiting(Holders, m, stack[m])'
  <2>1. Waiting(Holders', m, stack'[m])
    <3>1. m \in Nat \ {0} /\ \A k \in 1 .. m - 1 : k \in Holders <=> k \in Holders'
      BY <1>2
    <3> QED
      BY <3>1, OthersSame
  <2> QED
    BY <2>1, <1>1
<1>4. ASSUME n # 0 PROVE Newest(Holders, cur, top, code, fp, args, answer)'
  <2>1. Newest(Holders', n, stack'[n], code', fp', args', answer')
    <3>1. n \in Nat \ {0} /\ \A k \in 1 .. n - 1 : k \in Holders <=> k \in Holders'
      BY <1>2, <1>4
    <3> QED
      BY <3>1, <1>4, OthersSame
  <2>2. top' = stack'[n]
    BY DEF top
  <2> QED
    BY <2>1, <2>2, <1>1
<1> QED
  BY <1>3, <1>4 DEF ValuesInv

\* A step of the newest activation that leaves the others alone.
LEMMA ValuesInPlace ==
    ASSUME SizesInv, ValuesInv, stack # <<>>, program' = program, scheme' = scheme,
           NEW a, stack' = Replaced(a),
           entries' \in Nat, cur <= entries', entries' <= ENTRIES,
           DOMAIN args' = 0 .. SLOTS - 1,
           Newest(Holders, cur, a, code', fp', args', answer')
    PROVE  ValuesInv'
<1>1. /\ cur' = cur /\ cur \in Nat \ {0} /\ stack' # <<>> /\ stack'[cur] = a
      /\ \A m \in 1 .. cur - 1 : stack'[m] = stack[m]
  BY ReplacedNewest, NewestProperties DEF SizesInv, top
<1>2. ASSUME NEW m \in 1 .. cur - 1
      PROVE  /\ Waiting(Holders, m, stack'[m])
             /\ m \in Holders <=> Held(stack'[m]) # <<>>
  <2>1. Waiting(Holders, m, stack[m]) /\ stack'[m] = stack[m] /\ m \in 1 .. cur
    BY <1>1 DEF ValuesInv
  <2>2. m \in Holders <=> Held(stack[m]) # <<>>
    BY <2>1 DEF Holders
  <2> QED
    BY <2>1, <2>2
<1> QED
  BY <1>1, <1>2, ValuesStep

\* What is known where a construct of a body is reached.
LEMMA RunningValues ==
    ASSUME SizesInv, ValuesInv, code = "run"
    PROVE  /\ stack # <<>> /\ IsActivation(top) /\ SizesTyped
           /\ term = top.e /\ term \in Terms /\ top.f \in Names
           /\ Scoped(top) /\ Current(top, exp_fv[term])
           /\ scheme # "direct" => /\ cur = 1 /\ term \in CPSTerms
                                   /\ Passed(top, args, SlotParams(top.f))
           /\ Deepest(Holders, top.prev, cur - 1) /\ Deepest(Holders, fp, cur - 1)
           /\ cur \in Nat \ {0} /\ cur <= entries /\ entries \in Nat /\ entries <= ENTRIES
           /\ DOMAIN args = 0 .. SLOTS - 1
<1>1. /\ stack # <<>> /\ IsActivation(top) /\ SizesTyped /\ term = top.e /\ term \in Terms
  BY RunningSizes
<1>2. Newest(Holders, cur, top, "run", fp, args, answer)
  BY <1>1 DEF ValuesInv
<1>3. cur \in Nat \ {0}
  BY <1>1, NewestProperties
<1>4. Saving(top, "run") = <<>>
  BY DEF Saving
<1> QED
  BY <1>1, <1>2, <1>3, <1>4 DEF ValuesInv, Newest, Going, IsActivation

\* What is saved on entry, and during and after a call.
LEMMA EntryList ==
    ASSUME SizesTyped, NEW f \in Names
    PROVE  /\ IsSeq(live_vars(f)) /\ ToSet(live_vars(f)) = exp_fv[Body(f)]
           /\ ToSet(live_vars(f)) \subseteq ToSet(Params(f))
<1>1. exp_fv[Body(f)] \cap ToSet(Params(f)) = exp_fv[Body(f)] /\ exp_fv[Body(f)] \in SUBSET Vars
  BY FunctionProperties, LiveRecursion
<1>2. IsSeq(live_vars(f))
  BY ProgramProperties
<1>3. ToSet(live_vars(f)) = exp_fv[Body(f)]
  <2>1. live_vars(f) = Elements(exp_fv[Body(f)])
    BY <1>1 DEF live_vars
  <2> QED
    BY <1>1, <2>1, ElementsProperties DEF ToSet
<1> QED
  BY <1>2, <1>3, FunctionProperties

LEMMA CallLists ==
    ASSUME NEW f, NEW e \in Terms, e.op = "letapp"
    PROVE  /\ IsSeq(fvs_list(f, e)) /\ IsSeq(fv_gc(e))
           /\ ToSet(fvs_list(f, e)) = (exp_fv[e.e] \cap LocVars(f)) \ {e.x}
           /\ ToSet(fv_gc(e)) = exp_fv[e.e] \cap {e.x}
<1>1. (exp_fv[e.e] \cap LocVars(f)) \ {e.x} \in SUBSET Vars
  BY LiveRecursion, TermProperties DEF Inner
<1>2. ToSet(fvs_list(f, e)) = (exp_fv[e.e] \cap LocVars(f)) \ {e.x}
  BY <1>1, ElementsProperties DEF fvs_list, ToSet
<1>3. ToSet(fv_gc(e)) = exp_fv[e.e] \cap {e.x}
  BY DEF fv_gc, ToSet
<1> QED
  BY <1>2, <1>3, HeldType

LEMMA StoredValues ==
    ASSUME DOMAIN args = 0 .. SLOTS - 1, NEW values, NEW some
    PROVE  /\ DOMAIN Stored(values, some) = 0 .. SLOTS - 1
           /\ \A i \in 1 .. SLOTS : Stored(values, some)[ArgSlot(i)] =
                                        IF i \in some THEN values[i] ELSE args[ArgSlot(i)]
<1>1. ASSUME NEW i \in 1 .. SLOTS PROVE i - 1 \in 0 .. SLOTS - 1 /\ i - 1 + 1 = i
  BY BoundsAssumption
<1> QED
  BY <1>1 DEF Stored, ArgSlot

\* An activation that differs in its room.
LEMMA RoomValues ==
    ASSUME NEW a, IsActivation(a), NEW n \in Nat
    PROVE  /\ IsActivation([a EXCEPT !.room = n])
           /\ SameFrame(a, [a EXCEPT !.room = n]) /\ SameRoots(a, [a EXCEPT !.room = n])
           /\ [a EXCEPT !.room = n].vars = a.vars
  BY DEF IsActivation, ActivationFields, SameFrame, SameRoots

LEMMA SavedSame ==
    ASSUME NEW a, NEW b, NEW xs, Saved(a, xs), b.means = a.means, SameRoots(a, b)
    PROVE  Saved(b, xs)
  BY DEF Saved, SameRoots

LEMMA NothingSaved == ASSUME NEW a PROVE Saved(a, <<>>) /\ IsSeq(<<>>)
<1>1. IsSeq(<<>>) /\ DOMAIN <<>> = {}
  BY EmptySeq DEF IsSeq
<1> QED
  BY <1>1 DEF Saved

\* The first roots of an activation.
LEMMA PushFirst ==
    ASSUME NEW a, IsActivation(a), NEW ys, IsSeq(ys), Current(a, ToSet(ys))
    PROVE  /\ IsActivation(Push(a, 0, ys)) /\ SameFrame(a, Push(a, 0, ys))
           /\ Push(a, 0, ys).vars = a.vars
           /\ Saved(Push(a, 0, ys), ys)
<1>1. Saved(a, <<>>) /\ IsSeq(<<>>) /\ Len(<<>>) = 0
  BY NothingSaved, EmptySeq
<1>2. <<>> \o ys = ys
  BY ConcatEmptySeq DEF IsSeq
<1> QED
  BY <1>1, <1>2, PushSaved

\* What is known where a function is entered.
LEMMA EnteringValues ==
    ASSUME SizesInv, ValuesInv, code \in {"enter", "entry_gc", "entered"}
    PROVE  /\ stack # <<>> /\ IsActivation(top) /\ SizesTyped /\ top.f \in Names
           /\ term = top.e /\ top.e = Body(top.f) /\ Scoped(top)
           /\ cur \in Nat \ {0} /\ cur <= entries /\ entries \in Nat /\ entries <= ENTRIES
           /\ DOMAIN args = 0 .. SLOTS - 1
           /\ scheme # "direct" => cur = 1 /\ top.e \in CPSTerms
           /\ Newest(Holders, cur, top, code, fp, args, answer)
<1>1. stack # <<>> /\ IsActivation(top) /\ SizesTyped /\ cur \in Nat \ {0}
  BY NestedSizes, NewestProperties
<1>2. Newest(Holders, cur, top, code, fp, args, answer)
  BY <1>1 DEF ValuesInv
<1>3. top.e = Body(top.f)
  BY <1>2 DEF Newest, Entering, Reserving
<1> QED
  BY <1>1, <1>2, <1>3 DEF ValuesInv, Newest, IsActivation, term

LEMMA EnterDirectValues ==
    ASSUME SizesInv, ValuesInv, Enter, EnterDirect PROVE ValuesInv'
<1>1. /\ stack # <<>> /\ IsActivation(top) /\ SizesTyped /\ top.f \in Names
      /\ term = top.e /\ top.e = Body(top.f) /\ Scoped(top)
      /\ cur \in Nat \ {0} /\ cur <= entries /\ entries \in Nat /\ entries <= ENTRIES
      /\ DOMAIN args = 0 .. SLOTS - 1 /\ scheme = "direct" /\ code = "enter"
      /\ Newest(Holders, cur, top, "enter", fp, args, answer)
  BY EnteringValues DEF Enter, EnterDirect
<1>2. /\ program' = program /\ scheme' = scheme /\ entries' = entries /\ args' = args
      /\ answer' = answer
  BY DEF Enter, EnterDirect
<1> DEFINE f == top.f
           ps == Params(f)
           xs == live_vars(f)
           n == max_allocs[term]
           arrived == asgnFunVars(top, SlotParams(f))
           a == [arrived EXCEPT !.next = 0, !.prev = fp]
<1>3. Entering(top, args) /\ Deepest(Holders, fp, cur - 1)
  <2>1. Saving(top, "enter") = <<>>
    BY DEF Saving
  <2> QED
    BY <2>1, <1>1 DEF Newest
<1>4. /\ ps \in Seq(Vars) /\ DOMAIN ps = 1 .. Len(ps)
      /\ SlotParams(f) \in SUBSET DOMAIN ps
      /\ \A i \in DOMAIN ps : i \in CParams(f) \/ i \in SlotParams(f)
  BY <1>1, FunctionProperties DEF SlotParams
<1>5. /\ IsActivation(arrived) /\ SameFrame(top, arrived)
      /\ \A v \in Vars : arrived.vars[v] =
             IF \E i \in SlotParams(f) : ps[i] = v THEN top.means[v] ELSE top.vars[v]
  BY <1>1, <1>3, <1>4, AsgnValues, AsgnSizes DEF Entering
<1>6. ASSUME NEW i \in DOMAIN ps
      PROVE  arrived.vars[ps[i]] = top.means[ps[i]] /\ Tree(top.means[ps[i]])
  <2>1. ps[i] \in Vars
    BY <1>4
  <2>2. i \in CParams(f) => top.vars[ps[i]] = top.means[ps[i]]
    BY <1>3 DEF Entering
  <2> QED
    BY <2>1, <2>2, <1>3, <1>4, <1>5 DEF Entering, Arrived
<1>7. /\ IsActivation(a) /\ a.f = f /\ a.e = top.e /\ a.prev = fp
      /\ a.means = top.means /\ a.vars = arrived.vars
  <2> HIDE DEF arrived
  <2> QED
    BY <1>5 DEF SameFrame, IsActivation, ActivationFields
<1>8. Current(a, ToSet(ps))
  <2> HIDE DEF arrived, a
  <2> QED
    BY <1>6, <1>7 DEF Current, ToSet
<1>9. /\ IsSeq(xs) /\ ToSet(xs) = exp_fv[top.e] /\ Current(a, exp_fv[top.e])
  <2>1. IsSeq(xs) /\ ToSet(xs) = exp_fv[top.e] /\ ToSet(xs) \subseteq ToSet(ps)
    BY <1>1, EntryList
  <2> HIDE DEF a, xs, ps
  <2> QED
    BY <2>1, <1>8 DEF Current
<1>10. n \in Nat
  BY <1>1, AllocProperties DEF IsActivation
<1>11. \/ /\ n # 0 /\ stack' = Replaced([Push(a, 0, xs) EXCEPT !.room = n])
          /\ fp' = set_stack(Len(xs), FALSE) /\ code' = "entry_gc"
       \/ stack' = Replaced([a EXCEPT !.room = n]) /\ code' = "run" /\ fp' = fp
  BY DEF EnterDirect
<1> HIDE DEF a, arrived, xs, ps, n
<1>12. CASE stack' = Replaced([a EXCEPT !.room = n]) /\ code' = "run" /\ fp' = fp
  <2> DEFINE c == [a EXCEPT !.room = n]
  <2>1. c.f = f /\ c.e = top.e /\ c.prev = fp /\ c.means = top.means /\ c.vars = a.vars
    BY <1>7, <1>10, RoomValues DEF SameFrame
  <2> HIDE DEF c
  <2>2. Scoped(c) /\ Going(c, args)
    BY <2>1, <1>1, <1>7, <1>9 DEF Scoped, Going, Current
  <2>3. Saving(c, "run") = <<>> /\ Saved(c, <<>>)
    BY NothingSaved DEF Saving
  <2>4. Newest(Holders, cur, c, "run", fp, args, answer)
    BY <2>1, <2>2, <2>3, <1>1, <1>3 DEF Newest
  <2> QED
    BY <2>4, <1>1, <1>2, <1>12, ValuesInPlace DEF c
<1>13. CASE /\ stack' = Replaced([Push(a, 0, xs) EXCEPT !.room = n])
            /\ fp' = set_stack(Len(xs), FALSE) /\ code' = "entry_gc"
  <2> DEFINE b == Push(a, 0, xs)
             c == [b EXCEPT !.room = n]
  <2>1. IsActivation(b) /\ SameFrame(a, b) /\ Saved(b, xs)
    BY <1>7, <1>9, PushFirst
  <2> HIDE DEF b
  <2>2. SameFrame(b, c) /\ SameRoots(b, c)
    BY <2>1, <1>10, RoomValues
  <2> HIDE DEF c
  <2>3. c.f = f /\ c.e = top.e /\ c.prev = fp /\ Saved(c, xs)
    BY <2>1, <2>2, <1>7, SavedSame DEF SameFrame
  <2>4. Scoped(c) /\ Reserving(c, args)
    BY <2>3, <1>1 DEF Scoped, Reserving
  <2>5. Saving(c, "entry_gc") = xs
    BY <2>3, <1>1 DEF Saving, xs
  <2>6. fp' = IF xs = <<>> THEN fp ELSE cur
    BY <1>9, <1>13, SeqEmpty DEF set_stack
  <2>7. Newest(Holders, cur, c, "entry_gc", fp', args, answer)
    BY <2>3, <2>4, <2>5, <2>6, <1>1, <1>3 DEF Newest
  <2> QED
    BY <2>7, <1>1, <1>2, <1>13, ValuesInPlace DEF c, b
<1> QED
  BY <1>11, <1>12, <1>13

LEMMA EnterCPSValues ==
    ASSUME SizesInv, ValuesInv, Enter, EnterCPS PROVE ValuesInv'
<1>1. /\ stack # <<>> /\ IsActivation(top) /\ SizesTyped /\ top.f \in Names
      /\ term = top.e /\ top.e = Body(top.f) /\ Scoped(top)
      /\ cur = 1 /\ top.e \in CPSTerms /\ cur <= entries /\ entries \in Nat /\ entries <= ENTRIES
      /\ DOMAIN args = 0 .. SLOTS - 1 /\ scheme # "direct" /\ code = "enter"
      /\ Newest(Holders, cur, top, "enter", fp, args, answer)
  BY EnteringValues DEF Enter, EnterCPS
<1>2. /\ program' = program /\ scheme' = scheme /\ entries' = entries /\ fp' = fp
      /\ answer' = answer
  BY DEF Enter, EnterCPS
<1> DEFINE f == top.f
           ps == Params(f)
           n == max_allocs[term]
           stored == Stored(Values(top, ps), CParams(f))
           a == asgnFunVars(top, SlotParams(f))
<1>3. /\ Entering(top, args) /\ Deepest(Holders, fp, cur - 1)
      /\ top.prev = 0 /\ Deepest(Holders, 0, cur - 1)
  <2>1. Saving(top, "enter") = <<>>
    BY DEF Saving
  <2>2. Deepest(Holders, 0, cur - 1)
    BY <1>1 DEF Deepest
  <2> QED
    BY <2>1, <2>2, <1>1 DEF Newest
<1>4. /\ ps \in Seq(Vars) /\ DOMAIN ps = 1 .. Len(ps) /\ DOMAIN ps \subseteq 1 .. SLOTS
      /\ SlotParams(f) \in SUBSET DOMAIN ps
      /\ \A i \in DOMAIN ps : i \in CParams(f) \/ i \in SlotParams(f)
      /\ exp_fv[top.e] \subseteq ToSet(ps)
  <2>1. Len(ps) \in 0 .. SLOTS /\ SLOTS \in Nat
    BY <1>1, FunctionProperties, BoundsAssumption
  <2> QED
    BY <2>1, <1>1, FunctionProperties DEF SlotParams
<1>5. n \in Nat
  BY <1>1, AllocProperties DEF IsActivation
<1>6. \/ args' = stored /\ stack' = Replaced([top EXCEPT !.room = n]) /\ code' = "entry_gc"
      \/ stack' = Replaced([a EXCEPT !.room = n]) /\ code' = "run" /\ args' = args
  BY DEF EnterCPS
<1> HIDE DEF n
<1>7. CASE args' = stored /\ stack' = Replaced([top EXCEPT !.room = n]) /\ code' = "entry_gc"
  <2> DEFINE c == [top EXCEPT !.room = n]
  <2>1. /\ c.f = f /\ c.e = top.e /\ c.prev = top.prev /\ c.means = top.means
    BY <1>1, <1>5, RoomValues DEF SameFrame
  <2> HIDE DEF c
  <2>2. DOMAIN stored = 0 .. SLOTS - 1
    BY <1>1, StoredValues
  <2>3. ASSUME NEW i \in DOMAIN ps PROVE stored[ArgSlot(i)] = top.means[ps[i]]
    <3>1. stored[ArgSlot(i)] = IF i \in CParams(f) THEN Values(top, ps)[i] ELSE args[ArgSlot(i)]
      BY <1>1, <1>4, StoredValues
    <3>2. Values(top, ps)[i] = top.vars[ps[i]]
      BY DEF Values
    <3> QED
      BY <3>1, <3>2, <1>3, <1>4 DEF Entering, Passed
  <2> HIDE DEF stored
  <2>4. Scoped(c) /\ Reserving(c, stored)
    BY <2>1, <2>3, <1>1, <1>3 DEF Scoped, Reserving, Arrived, Passed, Entering
  <2>5. Saving(c, "entry_gc") = <<>> /\ Saved(c, <<>>)
    BY <1>1, NothingSaved DEF Saving
  <2>6. Newest(Holders, cur, c, "entry_gc", fp, stored, answer)
    BY <2>1, <2>4, <2>5, <1>1, <1>3 DEF Newest
  <2> QED
    BY <2>2, <2>6, <1>1, <1>2, <1>7, ValuesInPlace DEF c
<1>8. CASE stack' = Replaced([a EXCEPT !.room = n]) /\ code' = "run" /\ args' = args
  <2>1. /\ IsActivation(a) /\ SameFrame(top, a)
        /\ \A v \in Vars : a.vars[v] =
               IF \E i \in SlotParams(f) : ps[i] = v THEN top.means[v] ELSE top.vars[v]
    BY <1>1, <1>3, <1>4, AsgnValues, AsgnSizes DEF Entering
  <2>2. ASSUME NEW i \in DOMAIN ps
        PROVE  a.vars[ps[i]] = top.means[ps[i]] /\ Tree(top.means[ps[i]])
    <3>1. ps[i] \in Vars
      BY <1>4
    <3>2. i \in CParams(f) => top.vars[ps[i]] = top.means[ps[i]]
      BY <1>3 DEF Entering
    <3> QED
      BY <3>1, <3>2, <1>3, <1>4, <2>1 DEF Entering, Arrived
  <2> DEFINE c == [a EXCEPT !.room = n]
  <2> HIDE DEF a
  <2>3. c.f = f /\ c.e = top.e /\ c.prev = top.prev /\ c.means = top.means /\ c.vars = a.vars
    BY <2>1, <1>5, RoomValues DEF SameFrame
  <2> HIDE DEF c
  <2>4. Current(c, exp_fv[top.e])
    <3>1. \A v \in exp_fv[top.e] : \E i \in DOMAIN ps : v = ps[i]
      BY <1>4 DEF ToSet
    <3> QED
      BY <3>1, <2>2, <2>3 DEF Current
  <2>5. Scoped(c) /\ Going(c, args)
    BY <2>3, <2>4, <1>1, <1>3 DEF Scoped, Going, Entering, Passed
  <2>6. Saving(c, "run") = <<>> /\ Saved(c, <<>>)
    BY NothingSaved DEF Saving
  <2>7. Newest(Holders, cur, c, "run", fp, args, answer)
    BY <2>3, <2>5, <2>6, <1>1, <1>3 DEF Newest
  <2> QED
    BY <2>7, <1>1, <1>2, <1>8, ValuesInPlace DEF c, a
<1> QED
  BY <1>6, <1>7, <1>8

LEMMA EnterValues == ASSUME SizesInv, ValuesInv, Enter PROVE ValuesInv'
  BY EnterDirectValues, EnterCPSValues DEF Enter

\* What a collection leaves of the roots that it finds.
LEMMA SpoiledValues ==
    ASSUME NEW d, IsActivation(stack[d]), NEW xs, IsSeq(xs), Saved(stack[d], xs),
           xs # <<>> => d \in Chain
    PROVE  Saved(Spoiled(d), xs) /\ SameFrame(stack[d], Spoiled(d))
<1> DEFINE a == stack[d]
           roots == [i \in DOMAIN a.roots |->
                        IF d \in Chain /\ i <= a.next THEN a.roots[i] ELSE Moved(a.roots[i])]
           cells == [v \in Vars |-> Moved(a.vars[v])]
<1>1. Spoiled(d) = [a EXCEPT !.vars = cells, !.roots = roots]
  BY DEF Spoiled, IsActivation, ActivationFields
<1>2. IsActivation(Spoiled(d)) /\ SameSizes(a, Spoiled(d))
  BY SpoiledSizes
<1>3. DOMAIN xs = 1 .. Len(xs) /\ Len(xs) \in Nat /\ (xs = <<>> <=> Len(xs) = 0)
  BY IsSeqLen, SeqEmpty
<1>4. DOMAIN a.roots = 1 .. Len(a.roots)
  BY IsSeqLen DEF IsActivation
<1>5. ASSUME NEW i \in DOMAIN xs PROVE roots[i] = a.roots[i]
  <2>1. d \in Chain /\ a.next = Len(xs) /\ Len(a.roots) = Len(xs)
    BY <1>3 DEF Saved
  <2> QED
    BY <2>1, <1>3, <1>4
<1> HIDE DEF cells, roots
<1>6. /\ Spoiled(d).f = a.f /\ Spoiled(d).e = a.e /\ Spoiled(d).prev = a.prev
      /\ Spoiled(d).means = a.means /\ Spoiled(d).roots = roots /\ Spoiled(d).next = a.next
  BY <1>1 DEF IsActivation, ActivationFields
<1> QED
  BY <1>2, <1>5, <1>6 DEF SameFrame, Saved, SameSizes

LEMMA HeldSeq == ASSUME NEW a, IsActivation(a) PROVE IsSeq(Held(a))
  BY HeldType, NothingSaved DEF Held, IsActivation

LEMMA SavingSeq ==
    ASSUME SizesInv, code \in {"entry_gc", "call_gc"}
    PROVE  IsSeq(Saving(top, code))
<1>1. SizesTyped /\ IsActivation(top)
  BY NestedSizes, NewestProperties
<1>2. CASE code = "entry_gc"
  <2>1. Saving(top, code) = IF scheme = "direct" THEN live_vars(top.f) ELSE <<>>
    BY <1>2 DEF Saving
  <2> QED
    BY <2>1, <1>1, ProgramProperties, NothingSaved DEF IsActivation
<1>3. CASE code = "call_gc"
  <2>1. IsSeq(Held(top)) /\ IsSeq(fv_gc(top.e))
    BY <1>1, <1>3, HeldSeq, CallingSizes, CallLists
  <2>2. Joins(Held(top) \o fv_gc(top.e), Held(top), fv_gc(top.e))
    BY <2>1, Concatenation
  <2>3. Saving(top, code) = Held(top) \o fv_gc(top.e)
    BY <1>3 DEF Saving
  <2> QED
    BY <2>2, <2>3 DEF Joins
<1> QED
  BY <1>2, <1>3

LEMMA CollectValues == ASSUME SizesInv, ValuesInv, Collect PROVE ValuesInv'
<1>1. /\ code \in {"entry_gc", "call_gc"}
      /\ stack' = [d \in DOMAIN stack |-> Spoiled(d)]
      /\ args' = [c \in DOMAIN args |-> IF c \in Roots THEN args[c] ELSE Moved(args[c])]
      /\ code' = (IF code = "entry_gc" THEN "entered" ELSE "collected")
      /\ program' = program /\ scheme' = scheme /\ fp' = fp /\ answer' = answer
      /\ entries' = entries
  BY DEF Collect
<1>2. /\ SizesTyped /\ stack # <<>> /\ cur \in Nat \ {0} /\ DOMAIN stack = 1 .. cur
      /\ IsActivation(top) /\ top = stack[cur] /\ cur \in 1 .. cur
      /\ \A n \in 1 .. cur : IsActivation(stack[n])
      /\ cur <= entries /\ entries \in Nat /\ entries <= ENTRIES
      /\ DOMAIN args = 0 .. SLOTS - 1
  BY <1>1, NestedSizes, NewestProperties DEF ValuesInv, SizesTyped, top
<1>3. Newest(Holders, cur, top, code, fp, args, answer)
  BY <1>2 DEF ValuesInv
<1>4. /\ cur' = cur /\ stack' # <<>>
      /\ \A n \in 1 .. cur : stack'[n] = Spoiled(n)
  <2>1. DOMAIN stack' = 1 .. cur /\ stack' = [d \in 1 .. cur |-> stack'[d]]
    BY <1>1, <1>2
  <2>2. IsSeq(stack') /\ Len(stack') = cur
    BY <2>1, <1>2, SeqOfFunction
  <2>3. stack' # <<>>
    BY <2>2, <1>2, SeqEmpty
  <2> QED
    BY <2>2, <2>3, <1>1, <1>2 DEF cur
<1>5. \A n \in 1 .. cur - 1 : Held(stack[n]) # <<>> => n \in Chain
  BY <1>1, <1>2, ChainProperties DEF Holders
<1>6. ASSUME NEW n \in 1 .. cur - 1
      PROVE  /\ Waiting(Holders, n, stack'[n])
             /\ n \in Holders <=> Held(stack'[n]) # <<>>
  <2>1. /\ n \in 1 .. cur /\ stack'[n] = Spoiled(n) /\ IsActivation(stack[n])
        /\ Waiting(Holders, n, stack[n]) /\ (n \in Holders <=> Held(stack[n]) # <<>>)
    <3>1. n \in 1 .. cur
      BY <1>2
    <3>2. n \in Holders <=> Held(stack[n]) # <<>>
      BY <3>1 DEF Holders
    <3>3. Waiting(Holders, n, stack[n])
      BY DEF ValuesInv
    <3> QED
      BY <3>1, <3>2, <3>3, <1>2, <1>4
  <2>2. Saved(Spoiled(n), Held(stack[n])) /\ SameFrame(stack[n], Spoiled(n))
    BY <2>1, <1>5, HeldSeq, SpoiledValues DEF Waiting
  <2>3. Held(Spoiled(n)) = Held(stack[n])
    BY <2>2 DEF SameFrame, Held
  <2> QED
    BY <2>1, <2>2, <2>3 DEF Waiting, SameFrame, Scoped
<1> DEFINE xs == Saving(top, code)
           a == Spoiled(cur)
<1>7. IsSeq(xs)
  BY <1>1, SavingSeq
<1>8. Saved(a, xs) /\ SameFrame(top, a)
  <2>1. xs # <<>> => cur \in Chain
    BY <1>1, <1>2, ChainProperties
  <2>2. Saved(top, xs)
    BY <1>3 DEF Newest
  <2> HIDE DEF xs
  <2> QED
    BY <2>1, <2>2, <1>2, <1>7, SpoiledValues
<1> HIDE DEF a
<1>9. Saving(a, code') = xs
  BY <1>1, <1>8 DEF Saving, Held, SameFrame
<1>10. DOMAIN args' = 0 .. SLOTS - 1
  BY <1>1, <1>2
<1>11. code' = "entered" => Reserving(a, args')
  <2> SUFFICES ASSUME code' = "entered" PROVE Reserving(a, args')
    OBVIOUS
  <2>1. Reserving(top, args) /\ top.f \in Names
    BY <1>1, <1>2, <1>3 DEF Newest, IsActivation
  <2>2. a.e = Body(a.f) /\ a.means = top.means /\ a.f = top.f
    BY <2>1, <1>8 DEF Reserving, SameFrame
  <2>3. ASSUME scheme # "direct", NEW i \in DOMAIN Params(top.f)
        PROVE  args'[ArgSlot(i)] = args[ArgSlot(i)]
    <3>1. ArgSlot(i) \in Roots
      BY <2>3 DEF Roots, FunInfoRoots
    <3>2. ArgSlot(i) \in 0 .. SLOTS - 1
      BY <2>1, <1>2, FunctionProperties, BoundsAssumption DEF ArgSlot
    <3> QED
      BY <3>1, <3>2, <1>1, <1>2
  <2> QED
    BY <2>1, <2>2, <2>3 DEF Reserving, Arrived, Passed
<1>12. Newest(Holders, cur, a, code', fp', args', answer')
  <2>1. a.f = top.f /\ a.e = top.e /\ a.prev = top.prev
    BY <1>8 DEF SameFrame
  <2>2. code' \in {"entered", "collected"}
    BY <1>1
  <2>3. Scoped(a) /\ (scheme # "direct" => cur = 1 /\ a.e \in CPSTerms)
    BY <2>1, <1>3 DEF Newest, Scoped
  <2>4. /\ Deepest(Holders, a.prev, cur - 1)
        /\ IF xs = <<>> THEN Deepest(Holders, fp', cur - 1) ELSE fp' = cur
    BY <2>1, <1>1, <1>3 DEF Newest
  <2> HIDE DEF xs
  <2> QED
    BY <2>2, <2>3, <2>4, <1>8, <1>9, <1>11 DEF Newest
<1> QED
  <2>1. stack'[cur] = a
    BY <1>2, <1>4 DEF a
  <2>2. stack' = <<>> <=> cur = 0
    BY <1>2, <1>4
  <2>3. cur' = cur /\ cur <= entries' /\ entries' \in Nat /\ entries' <= ENTRIES /\ cur \in Nat
    BY <1>1, <1>2, <1>4
  <2>4. program' = program /\ scheme' = scheme
    BY <1>1
  <2> QED
    BY <2>1, <2>2, <2>3, <2>4, <1>6, <1>10, <1>12, ValuesStep

\* What saved variables are after they have been popped.
LEMMA PoppedValues ==
    ASSUME NEW a, IsActivation(a), NEW xs, IsSeq(xs),
           \A i \in DOMAIN xs : a.roots[i] = a.means[xs[i]] /\ Tree(a.means[xs[i]])
    PROVE  /\ SameFrame(a, Pop(a, 0, xs)) /\ SameRoots(a, Pop(a, 0, xs))
           /\ IsActivation(Pop(a, 0, xs))
           /\ \A v \in Vars : v \in ToSet(xs) =>
                  Pop(a, 0, xs).vars[v] = a.means[v] /\ Tree(a.means[v])
           /\ \A v \in Vars : v \notin ToSet(xs) => Pop(a, 0, xs).vars[v] = a.vars[v]
<1>1. \A i \in DOMAIN xs : a.roots[0 + i] = a.means[xs[i]]
  <2>1. \A i \in DOMAIN xs : 0 + i = i
    BY IsSeqLen
  <2> QED
    BY <2>1
<1>2. \A v \in ToSet(xs) : Tree(a.means[v])
  BY DEF ToSet
<1> QED
  BY <1>1, <1>2, PopValues, PopSizes

LEMMA EnteredValues == ASSUME SizesInv, ValuesInv, Entered PROVE ValuesInv'
<1>1. /\ stack # <<>> /\ IsActivation(top) /\ SizesTyped /\ top.f \in Names
      /\ term = top.e /\ top.e = Body(top.f) /\ Scoped(top)
      /\ cur \in Nat \ {0} /\ cur <= entries /\ entries \in Nat /\ entries <= ENTRIES
      /\ DOMAIN args = 0 .. SLOTS - 1
      /\ scheme # "direct" => cur = 1 /\ top.e \in CPSTerms
      /\ Newest(Holders, cur, top, "entered", fp, args, answer)
  BY EnteringValues DEF Entered
<1>2. /\ program' = program /\ scheme' = scheme /\ entries' = entries /\ args' = args
      /\ answer' = answer /\ code' = "run"
  BY DEF Entered
<1> DEFINE f == top.f
           xs == live_vars(f)
<1>3. /\ exp_fv[top.e] \subseteq ToSet(Params(f)) /\ exp_fv[top.e] \subseteq Vars
      /\ Params(f) \in Seq(Vars) /\ SlotParams(f) \subseteq DOMAIN Params(f)
      /\ top.e \in Terms
  BY <1>1, FunctionProperties, LiveRecursion DEF IsActivation
<1>4. ASSUME NEW a, SameFrame(top, a), Current(a, exp_fv[top.e]), stack' = Replaced(a),
             scheme # "direct" => Passed(a, args, SlotParams(f)),
             Deepest(Holders, fp', cur - 1)
      PROVE  ValuesInv'
  <2>1. a.f = f /\ a.e = top.e /\ a.prev = top.prev
    BY <1>4 DEF SameFrame
  <2>2. Scoped(a) /\ Going(a, args)
    BY <2>1, <1>1, <1>4 DEF Scoped, Going
  <2>3. Saving(a, "run") = <<>> /\ Saved(a, <<>>)
    BY NothingSaved DEF Saving
  <2>4. Newest(Holders, cur, a, "run", fp', args, answer)
    BY <2>1, <2>2, <2>3, <1>1, <1>4 DEF Newest
  <2> QED
    BY <2>4, <1>1, <1>2, <1>4, ValuesInPlace
<1>5. CASE scheme = "direct"
  <2> DEFINE a == Pop(top, 0, xs)
  <2>1. stack' = Replaced(a) /\ fp' = reset_stack(Len(xs), FALSE)
    BY <1>5 DEF Entered
  <2>2. Saving(top, "entered") = xs
    BY <1>5 DEF Saving
  <2>3. IsSeq(xs) /\ ToSet(xs) = exp_fv[top.e]
    BY <1>1, EntryList
  <2> HIDE DEF xs
  <2>4. /\ Saved(top, xs)
        /\ IF xs = <<>> THEN Deepest(Holders, fp, cur - 1) ELSE fp = cur
        /\ Deepest(Holders, top.prev, cur - 1)
    BY <2>2, <1>1 DEF Newest
  <2>5. SameFrame(top, a) /\ Current(a, exp_fv[top.e])
    <3>1. SameFrame(top, a) /\ \A v \in ToSet(xs) : a.vars[v] = top.means[v] /\ Tree(top.means[v])
      BY <2>3, <2>4, <1>1, <1>3, PoppedValues DEF Saved
    <3> HIDE DEF a
    <3> QED
      BY <3>1, <2>3 DEF SameFrame, Current
  <2>6. Deepest(Holders, fp', cur - 1)
    <3>1. fp' = IF xs = <<>> THEN fp ELSE top.prev
      BY <2>1, <2>3, SeqEmpty DEF reset_stack
    <3> QED
      BY <3>1, <2>4
  <2> QED
    BY <2>1, <2>5, <2>6, <1>4, <1>5
<1>6. CASE scheme # "direct"
  <2> DEFINE a == asgnFunVars(top, DOMAIN Params(f))
  <2>1. stack' = Replaced(a) /\ fp' = fp
    BY <1>6 DEF Entered
  <2>2. Saving(top, "entered") = <<>>
    BY <1>6 DEF Saving
  <2>3. /\ Arrived(top) /\ Passed(top, args, DOMAIN Params(f))
        /\ Deepest(Holders, fp, cur - 1)
    BY <2>2, <1>1, <1>6 DEF Newest, Reserving
  <2>4. /\ SameFrame(top, a)
        /\ \A v \in Vars : a.vars[v] = IF \E i \in DOMAIN Params(f) : Params(f)[i] = v
                                       THEN top.means[v] ELSE top.vars[v]
    BY <2>3, <1>1, <1>3, AsgnValues
  <2> HIDE DEF a
  <2>5. Current(a, exp_fv[top.e])
    <3>1. \A v \in exp_fv[top.e] : v \in Vars /\ \E i \in DOMAIN Params(f) : Params(f)[i] = v
      BY <1>3 DEF ToSet
    <3> QED
      BY <3>1, <2>3, <2>4 DEF Current, SameFrame, Arrived
  <2>6. Passed(a, args, SlotParams(f))
    BY <2>3, <2>4, <1>3 DEF Passed, SameFrame
  <2> QED
    BY <2>1, <2>3, <2>4, <2>5, <2>6, <1>4
<1> QED
  BY <1>5, <1>6

\* The body goes on.
LEMMA GoOnValues ==
    ASSUME SizesInv, ValuesInv, code = "run", Stay,
           NEW a, stack' = Replaced(a), a.f = top.f, a.prev = top.prev,
           Scoped(a), Current(a, exp_fv[a.e]),
           scheme # "direct" => a.e \in CPSTerms /\ Passed(a, args, SlotParams(top.f))
    PROVE  ValuesInv'
<1>1. /\ stack # <<>> /\ Deepest(Holders, top.prev, cur - 1) /\ Deepest(Holders, fp, cur - 1)
      /\ cur <= entries /\ entries \in Nat /\ entries <= ENTRIES
      /\ DOMAIN args = 0 .. SLOTS - 1
      /\ scheme # "direct" => cur = 1
  BY RunningValues
<1>2. /\ program' = program /\ scheme' = scheme /\ entries' = entries /\ args' = args
      /\ answer' = answer /\ code' = "run" /\ fp' = fp
  BY DEF Stay
<1>3. Saving(a, "run") = <<>> /\ Saved(a, <<>>)
  BY NothingSaved DEF Saving
<1>4. Newest(Holders, cur, a, "run", fp, args, answer)
  BY <1>1, <1>3 DEF Newest, Going
<1> QED
  BY <1>1, <1>2, <1>4, ValuesInPlace

\* A variable gets its value, and the body goes on.
LEMMA DefineValues ==
    ASSUME SizesInv, ValuesInv, code = "run", term.op \in {"constr", "proj"}, Stay,
           NEW v, NEW m, v = m, Tree(m), NEW a, stack' = Replaced(a),
           a.f = top.f, a.prev = top.prev, a.e = term.e,
           \A y \in Vars : /\ a.vars[y] = IF y = term.x THEN v ELSE top.vars[y]
                           /\ a.means[y] = IF y = term.x THEN m ELSE top.means[y]
    PROVE  ValuesInv'
<1>1. /\ term = top.e /\ term \in Terms /\ top.f \in Names /\ Scoped(top)
      /\ Current(top, exp_fv[term]) /\ SizesTyped
      /\ scheme # "direct" => term \in CPSTerms /\ Passed(top, args, SlotParams(top.f))
  BY RunningValues
<1>2. /\ term.x \in Vars /\ term.e \in Terms /\ term.op \in Inner
      /\ exp_fv[term.e] \subseteq exp_fv[term] \cup {term.x}
      /\ get_locals[term] = {term.x} \cup get_locals[term.e]
      /\ exp_fv[term.e] \subseteq Vars
  BY <1>1, TermProperties, ScopeProperties, LiveRecursion DEF Inner
<1>3. term.x \in get_locals[Body(top.f)]
  BY <1>1, <1>2 DEF Scoped
<1>4. Scoped(a)
  BY <1>1, <1>2, <1>3 DEF Scoped, LocVars
<1>5. Current(a, exp_fv[a.e])
  <2>1. ASSUME NEW y \in exp_fv[term.e] PROVE a.vars[y] = a.means[y] /\ Tree(a.means[y])
    <3>1. y \in Vars
      BY <1>2
    <3>2. CASE y = term.x
      BY <3>1, <3>2
    <3>3. CASE y # term.x
      <4>1. top.vars[y] = top.means[y] /\ Tree(top.means[y])
        BY <3>3, <1>1, <1>2 DEF Current
      <4> QED
        BY <4>1, <3>1, <3>3
    <3> QED
      BY <3>2, <3>3
  <2> QED
    BY <2>1 DEF Current
<1>6. ASSUME scheme # "direct" PROVE a.e \in CPSTerms /\ Passed(a, args, SlotParams(top.f))
  <2>1. a.e \in CPSTerms
    BY <1>1, <1>6, CPSAssumption DEF Subterms
  <2>2. ASSUME NEW i \in SlotParams(top.f)
        PROVE  a.means[Params(top.f)[i]] = top.means[Params(top.f)[i]]
    <3>1. i \in DOMAIN Params(top.f) /\ Params(top.f) \in Seq(Vars)
      BY <1>1, FunctionProperties
    <3>2. Params(top.f)[i] \in ToSet(Params(top.f))
      BY <3>1 DEF ToSet
    <3>3. Params(top.f)[i] # term.x
      BY <3>2, <1>1, <1>3, FunctionProperties
    <3>4. Params(top.f)[i] \in Vars
      BY <3>1
    <3> QED
      BY <3>3, <3>4
  <2> QED
    BY <2>1, <2>2, <1>1, <1>6 DEF Passed
<1> QED
  BY <1>4, <1>5, <1>6, GoOnValues

LEMMA ConstrValues == ASSUME SizesInv, ValuesInv, Constr PROVE ValuesInv'
<1>1. code = "run" /\ term.op = "constr" /\ Stay
  BY DEF Constr, Running
<1>2. /\ IsActivation(top) /\ term = top.e /\ term \in Terms /\ Current(top, exp_fv[term])
  BY <1>1, RunningValues
<1> DEFINE v == Value(term.t, Values(top, term.vs))
           m == Value(term.t, Means(term.vs))
           a == [top EXCEPT !.vars[term.x] = v, !.means[term.x] = m,
                            !.room = @ - Words(term.t), !.e = term.e]
<1>3. ASSUME NEW i \in DOMAIN term.vs
      PROVE  /\ top.vars[term.vs[i]] = top.means[term.vs[i]]
             /\ Tree(top.means[term.vs[i]])
  <2>1. term.vs[i] \in exp_fv[term]
    BY <1>1, <1>2, ScopeProperties DEF ToSet
  <2> QED
    BY <2>1, <1>2 DEF Current
<1>4. Values(top, term.vs) = Means(term.vs)
  BY <1>3 DEF Values, Means
<1>5. Tree(m)
  <2>1. term.t \in Ctors
    BY <1>1, <1>2, TermsAssumption DEF WellFormed
  <2>2. \A i \in DOMAIN Means(term.vs) : Tree(Means(term.vs)[i])
    BY <1>3 DEF Means
  <2> QED
    BY <2>1, <2>2, TreeNode
<1>6. v = m /\ stack' = Replaced(a)
  BY <1>4 DEF Constr
<1> HIDE DEF v, m
<1>7. /\ a.f = top.f /\ a.prev = top.prev /\ a.e = term.e
      /\ \A y \in Vars : /\ a.vars[y] = IF y = term.x THEN v ELSE top.vars[y]
                         /\ a.means[y] = IF y = term.x THEN m ELSE top.means[y]
  BY <1>2 DEF IsActivation, ActivationFields
<1> HIDE DEF a
<1> QED
  BY <1>1, <1>5, <1>6, <1>7, DefineValues

LEMMA ProjValues == ASSUME SizesInv, ValuesInv, Proj PROVE ValuesInv'
<1>1. code = "run" /\ term.op = "proj" /\ Stay
  BY DEF Proj, Running
<1>2. /\ IsActivation(top) /\ term = top.e /\ term \in Terms /\ Current(top, exp_fv[term])
  BY <1>1, RunningValues
<1> DEFINE y == term.vs[1]
           v == top.vars[y].kids[term.n]
           m == top.means[y].kids[term.n]
           a == [top EXCEPT !.vars[term.x] = v, !.means[term.x] = m, !.e = term.e]
<1>3. term.n \in DOMAIN top.vars[y].kids /\ stack' = Replaced(a)
  BY DEF Proj, Define
<1>4. y \in exp_fv[term]
  <2>1. WellFormed(term)
    BY <1>2, TermsAssumption
  <2>2. term.vs \in Seq(Vars) /\ Len(term.vs) = 1
    BY <2>1, <1>1 DEF WellFormed
  <2>3. 1 \in DOMAIN term.vs
    BY <2>2, LenProperties
  <2> QED
    BY <2>3, <1>1, <1>2, ScopeProperties DEF ToSet
<1>5. top.vars[y] = top.means[y] /\ Tree(top.means[y])
  BY <1>2, <1>4 DEF Current
<1>6. v = m /\ Tree(m)
  BY <1>3, <1>5, TreeProperties
<1> HIDE DEF v, m
<1>7. /\ a.f = top.f /\ a.prev = top.prev /\ a.e = term.e
      /\ \A z \in Vars : /\ a.vars[z] = IF z = term.x THEN v ELSE top.vars[z]
                         /\ a.means[z] = IF z = term.x THEN m ELSE top.means[z]
  BY <1>2 DEF IsActivation, ActivationFields
<1> HIDE DEF a
<1> QED
  BY <1>1, <1>3, <1>6, <1>7, DefineValues

LEMMA CaseValues == ASSUME SizesInv, ValuesInv, Case PROVE ValuesInv'
<1>1. code = "run" /\ term.op = "case" /\ Stay /\ Alike(term.cs, top.vars[term.x]) # {}
  BY DEF Case, Running
<1>2. /\ IsActivation(top) /\ term = top.e /\ term \in Terms /\ Current(top, exp_fv[term])
      /\ Scoped(top)
      /\ scheme # "direct" => term \in CPSTerms /\ Passed(top, args, SlotParams(top.f))
  BY <1>1, RunningValues
<1>3. PICK i \in 1 .. Len(term.cs) : Branch(term.cs, top.vars[term.x]) = term.cs[i]
  BY <1>1, <1>2, BranchProperties
<1> DEFINE s == term.cs[i].e
           a == [top EXCEPT !.e = s]
<1>4. stack' = Replaced(a)
  BY <1>3 DEF Case
<1>5. exp_fv[s] \subseteq exp_fv[term] /\ get_locals[s] \subseteq get_locals[term]
  BY <1>1, <1>2, ScopeProperties
<1>6. scheme # "direct" => s \in CPSTerms
  <2>1. s \in Subterms(term)
    BY <1>1, <1>2, TermProperties DEF Subterms
  <2> QED
    BY <2>1, <1>2, CPSAssumption
<1> HIDE DEF s
<1>7. /\ a.f = top.f /\ a.prev = top.prev /\ a.e = s
      /\ a.vars = top.vars /\ a.means = top.means
  BY <1>2 DEF IsActivation, ActivationFields
<1> HIDE DEF a
<1>8. Scoped(a) /\ Current(a, exp_fv[a.e])
  BY <1>2, <1>5, <1>7 DEF Scoped, Current
<1>9. scheme # "direct" => Passed(a, args, SlotParams(top.f))
  BY <1>2, <1>7 DEF Passed
<1> QED
  BY <1>1, <1>4, <1>6, <1>7, <1>8, <1>9, GoOnValues

-----------------------------------------------------------------------------
(* Calls. *)

\* The activation of a function whose arguments are where it expects them.
LEMMA CalledValues ==
    ASSUME SizesInv, ValuesInv, code = "run", term.op \in {"letapp", "app"},
           NEW store,
           \A i \in SlotParams(term.f) : store[ArgSlot(i)] = top.means[term.vs[i]]
    PROVE  /\ Entering(Callee(term.f, term.vs), store)
           /\ Scoped(Callee(term.f, term.vs)) /\ Callee(term.f, term.vs).prev = 0
           /\ scheme # "direct" => Callee(term.f, term.vs).e \in CPSTerms
<1> DEFINE f == term.f
           b == Callee(f, term.vs)
<1>1. /\ SizesTyped /\ term \in Terms /\ Current(top, exp_fv[term])
  BY RunningValues
<1>2. /\ f \in Names /\ Len(term.vs) = Arity[f] /\ DOMAIN term.vs = 1 .. Len(term.vs)
  <2>1. WellFormed(term)
    BY <1>1, TermsAssumption
  <2>2. term.vs \in Seq(Vars)
    BY <1>1, TermProperties
  <2> QED
    BY <2>1, <2>2, LenProperties DEF WellFormed
<1>3. /\ DOMAIN Params(f) = DOMAIN term.vs
      /\ exp_fv[Body(f)] \subseteq ToSet(Params(f))
      /\ CParams(f) \subseteq DOMAIN Params(f) /\ SlotParams(f) \subseteq DOMAIN Params(f)
      /\ scheme # "direct" => Body(f) \in CPSTerms
  BY <1>1, <1>2, FunctionProperties
<1>4. ASSUME NEW i \in DOMAIN term.vs
      PROVE  /\ Values(top, term.vs)[i] = top.means[term.vs[i]]
             /\ Means(term.vs)[i] = top.means[term.vs[i]]
             /\ Tree(top.means[term.vs[i]])
  <2>1. term.vs[i] \in exp_fv[term]
    BY <1>1, ScopeProperties DEF ToSet
  <2> QED
    BY <2>1, <1>1 DEF Current, Values, Means
<1>5. /\ \A i \in DOMAIN Params(f) : b.means[Params(f)[i]] = Means(term.vs)[i]
      /\ \A i \in CParams(f) : b.vars[Params(f)[i]] = Values(top, term.vs)[i]
      /\ b.f = f /\ b.e = Body(f) /\ b.prev = 0
  BY <1>1, <1>2, CalleeValues DEF Callee
<1> HIDE DEF b
<1>6. Entering(b, store)
  <2>1. Arrived(b)
    BY <1>3, <1>4, <1>5 DEF Arrived
  <2>2. \A i \in CParams(b.f) : b.vars[Params(b.f)[i]] = b.means[Params(b.f)[i]]
    BY <1>3, <1>4, <1>5
  <2>3. Passed(b, store, SlotParams(b.f))
    BY <1>3, <1>4, <1>5 DEF Passed
  <2> QED
    BY <2>1, <2>2, <2>3, <1>5 DEF Entering
<1>7. Scoped(b)
  BY <1>3, <1>5 DEF Scoped, LocVars
<1> QED
  BY <1>3, <1>5, <1>6, <1>7 DEF b

\* Where the generators put the arguments of a call.
LEMMA ArgumentValues ==
    ASSUME SizesInv, ValuesInv, code = "run", term.op \in {"letapp", "app"},
           NEW store,
           \/ store = asgnAppVars(top, term.vs)
           \/ scheme = "cps_fast" /\ store = asgnAppVars_fast(top, term.vs)
    PROVE  /\ DOMAIN store = 0 .. SLOTS - 1
           /\ \A i \in SlotParams(term.f) : store[ArgSlot(i)] = top.means[term.vs[i]]
<1>1. /\ SizesTyped /\ term \in Terms /\ Current(top, exp_fv[term]) /\ top.f \in Names
      /\ DOMAIN args = 0 .. SLOTS - 1
      /\ scheme # "direct" => Passed(top, args, SlotParams(top.f))
  BY RunningValues
<1>2. /\ term.f \in Names /\ Len(term.vs) = Arity[term.f] /\ DOMAIN term.vs = 1 .. Len(term.vs)
  <2>1. WellFormed(term)
    BY <1>1, TermsAssumption
  <2>2. term.vs \in Seq(Vars)
    BY <1>1, TermProperties
  <2> QED
    BY <2>1, <2>2, LenProperties DEF WellFormed
<1>3. ASSUME NEW i \in SlotParams(term.f)
      PROVE  i \in DOMAIN term.vs /\ i > nParam /\ i \in 1 .. SLOTS
  <2>1. i \in 1 .. Arity[term.f] /\ i > nParam /\ Arity[term.f] \in 0 .. SLOTS
    BY <1>1, <1>2, FunctionProperties
  <2> QED
    BY <2>1, <1>2, BoundsAssumption
<1>4. ASSUME NEW i \in DOMAIN term.vs
      PROVE  Values(top, term.vs)[i] = top.means[term.vs[i]]
  <2>1. term.vs[i] \in exp_fv[term]
    BY <1>1, ScopeProperties DEF ToSet
  <2> QED
    BY <2>1, <1>1 DEF Current, Values
<1>5. CASE store = asgnAppVars(top, term.vs)
  <2> DEFINE some == {i \in DOMAIN term.vs : i > nParam}
  <2>1. store = Stored(Values(top, term.vs), some)
    BY <1>5 DEF asgnAppVars
  <2>2. SlotParams(term.f) \subseteq some
    BY <1>3
  <2> HIDE DEF some
  <2>3. /\ DOMAIN store = 0 .. SLOTS - 1
        /\ \A i \in 1 .. SLOTS : store[ArgSlot(i)] =
               IF i \in some THEN Values(top, term.vs)[i] ELSE args[ArgSlot(i)]
    BY <2>1, <1>1, StoredValues
  <2> QED
    BY <2>2, <2>3, <1>3, <1>4
<1>6. CASE scheme = "cps_fast" /\ store = asgnAppVars_fast(top, term.vs)
  <2> DEFINE there(i) == i \in DOMAIN Params(top.f) /\ Params(top.f)[i] = term.vs[i]
             some == {i \in DOMAIN term.vs : i > nParam /\ ~ there(i)}
  <2>1. store = Stored(Values(top, term.vs), some)
    BY <1>6 DEF asgnAppVars_fast
  <2>2. ASSUME NEW i \in SlotParams(term.f), i \notin some
        PROVE  args[ArgSlot(i)] = top.means[term.vs[i]]
    <3>1. i \in DOMAIN Params(top.f) /\ Params(top.f)[i] = term.vs[i] /\ i > nParam
      BY <2>2, <1>3
    <3>2. i \in SlotParams(top.f)
      BY <3>1, <1>1, FunctionProperties
    <3> QED
      BY <3>1, <3>2, <1>1, <1>6 DEF Passed
  <2> HIDE DEF some
  <2>3. /\ DOMAIN store = 0 .. SLOTS - 1
        /\ \A i \in 1 .. SLOTS : store[ArgSlot(i)] =
               IF i \in some THEN Values(top, term.vs)[i] ELSE args[ArgSlot(i)]
    BY <2>1, <1>1, StoredValues
  <2> QED
    BY <2>2, <2>3, <1>3, <1>4
<1> QED
  BY <1>5, <1>6

LEMMA AppValues == ASSUME SizesInv, ValuesInv, App PROVE ValuesInv'
<1> DEFINE b == Callee(term.f, term.vs)
<1>1. /\ code = "run" /\ term.op = "app" /\ code' = "enter" /\ stack' = Replaced(b)
      /\ entries < ENTRIES /\ entries' = entries + 1
      /\ program' = program /\ scheme' = scheme /\ fp' = fp /\ answer' = answer
      /\ args' = IF scheme = "cps_fast" THEN asgnAppVars_fast(top, term.vs)
                 ELSE asgnAppVars(top, term.vs)
  BY DEF App, Running, EnterNext
<1>2. /\ stack # <<>> /\ Deepest(Holders, fp, cur - 1)
      /\ cur \in Nat \ {0} /\ cur <= entries /\ entries \in Nat /\ entries <= ENTRIES
      /\ scheme # "direct" => cur = 1
  BY <1>1, RunningValues
<1>3. /\ DOMAIN args' = 0 .. SLOTS - 1
      /\ \A i \in SlotParams(term.f) : args'[ArgSlot(i)] = top.means[term.vs[i]]
  BY <1>1, ArgumentValues
<1>4. /\ Entering(b, args') /\ Scoped(b) /\ b.prev = 0
      /\ scheme # "direct" => b.e \in CPSTerms
  BY <1>1, <1>3, CalledValues
<1> HIDE DEF b
<1>5. Saving(b, "enter") = <<>> /\ Saved(b, <<>>)
  BY NothingSaved DEF Saving
<1>6. Newest(Holders, cur, b, "enter", fp, args', answer)
  BY <1>2, <1>4, <1>5 DEF Newest
<1>7. entries' \in Nat /\ cur <= entries' /\ entries' <= ENTRIES
  BY <1>1, <1>2, BoundsAssumption
<1> QED
  BY <1>1, <1>2, <1>3, <1>6, <1>7, ValuesInPlace

LEMMA LetAppValues == ASSUME SizesInv, ValuesInv, LetApp PROVE ValuesInv'
<1> DEFINE xs == fvs_list(top.f, term)
           a == Push(top, 0, xs)
           b == Callee(term.f, term.vs)
           r == Replaced(a)
<1>1. /\ code = "run" /\ term.op = "letapp" /\ code' = "enter" /\ stack' = Append(r, b)
      /\ entries < ENTRIES /\ entries' = entries + 1
      /\ program' = program /\ scheme' = scheme /\ answer' = answer
      /\ fp' = set_stack(Len(xs), FALSE)
      /\ args' = asgnAppVars(top, term.vs)
  BY DEF LetApp, Running, EnterNext
<1>2. /\ SizesTyped /\ stack # <<>> /\ IsActivation(top) /\ term = top.e /\ term \in Terms
      /\ top.f \in Names /\ Scoped(top) /\ Current(top, exp_fv[term])
      /\ Deepest(Holders, fp, cur - 1) /\ Deepest(Holders, top.prev, cur - 1)
      /\ cur \in Nat \ {0} /\ cur <= entries /\ entries \in Nat /\ entries <= ENTRIES
      /\ scheme # "direct" => term \in CPSTerms
  BY <1>1, RunningValues
<1>3. scheme = "direct"
  BY <1>1, <1>2, CPSAssumption
<1>4. /\ DOMAIN args' = 0 .. SLOTS - 1
      /\ \A i \in SlotParams(term.f) : args'[ArgSlot(i)] = top.means[term.vs[i]]
  BY <1>1, ArgumentValues
<1>5. Entering(b, args') /\ Scoped(b) /\ b.prev = 0
  BY <1>1, <1>4, CalledValues
<1>6. /\ IsSeq(xs) /\ Current(top, ToSet(xs)) /\ Held(top) = xs
  <2>1. IsSeq(xs) /\ ToSet(xs) = (exp_fv[term.e] \cap LocVars(top.f)) \ {term.x}
    BY <1>1, <1>2, CallLists
  <2>2. exp_fv[term.e] \subseteq exp_fv[term] \cup {term.x}
    BY <1>1, <1>2, ScopeProperties DEF Inner
  <2>3. Held(top) = xs
    BY <1>1, <1>2 DEF Held
  <2> HIDE DEF xs
  <2> QED
    BY <2>1, <2>2, <2>3, <1>2 DEF Current
<1>7. IsActivation(a) /\ SameFrame(top, a) /\ Saved(a, xs)
  <2> HIDE DEF xs
  <2> QED
    BY <1>2, <1>6, PushFirst
<1> HIDE DEF a, b
<1>8. Held(a) = xs
  BY <1>1, <1>2, <1>7 DEF Held, SameFrame
<1>9. Waiting(Holders, cur, a)
  BY <1>2, <1>7, <1>8 DEF Waiting, SameFrame, Scoped
<1>10. cur \in Holders <=> xs # <<>>
  <2>1. cur \in 1 .. cur /\ top = stack[cur]
    BY <1>2 DEF top
  <2> QED
    BY <2>1, <1>6 DEF Holders
<1> HIDE DEF xs
<1>11. /\ IsSeq(r) /\ Len(r) = cur /\ r[cur] = a
       /\ \A n \in 1 .. cur : n # cur => r[n] = stack[n]
  <2>1. Updates(r, stack, cur, a) /\ DOMAIN stack = 1 .. cur
    BY <1>2, NewestProperties DEF SizesTyped, Updates, Replaced
  <2> QED
    BY <2>1, <1>2, ReplaceSeq, NewestProperties
<1> HIDE DEF r
<1>12. PICK m \in Nat : m = cur + 1
  BY <1>2
<1>13. /\ cur' = m /\ stack' # <<>> /\ stack'[m] = b /\ 1 .. m - 1 = 1 .. cur
       /\ \A n \in 1 .. cur : stack'[n] = r[n]
  <2>1. /\ IsSeq(stack') /\ Len(stack') = m /\ stack'[m] = b
        /\ \A n \in 1 .. cur : stack'[n] = r[n]
    BY <1>1, <1>11, <1>12, AppendSeq
  <2>2. stack' # <<>>
    BY <2>1, <1>2, <1>12, SeqEmpty
  <2> QED
    BY <2>1, <2>2, <1>2, <1>12 DEF cur
<1>14. ASSUME NEW n \in 1 .. m - 1
       PROVE  /\ Waiting(Holders, n, stack'[n])
              /\ n \in Holders <=> Held(stack'[n]) # <<>>
  <2>1. n \in 1 .. cur /\ stack'[n] = r[n]
    BY <1>13
  <2>2. CASE n = cur
    BY <2>1, <2>2, <1>8, <1>9, <1>10, <1>11
  <2>3. CASE n # cur
    <3>1. stack'[n] = stack[n] /\ n \in 1 .. cur - 1
      BY <2>1, <2>3, <1>2, <1>11
    <3>2. n \in Holders <=> Held(stack[n]) # <<>>
      BY <2>1 DEF Holders
    <3> QED
      BY <3>1, <3>2 DEF ValuesInv
  <2> QED
    BY <2>2, <2>3
<1>15. Deepest(Holders, fp', cur)
  <2>1. fp' = IF xs = <<>> THEN fp ELSE cur
    BY <1>1, <1>6, SeqEmpty DEF set_stack
  <2>2. cur - 1 \in Nat /\ cur - 1 + 1 = cur
    BY <1>2
  <2>3. /\ cur \in Holders => Deepest(Holders, cur, cur)
        /\ cur \notin Holders => Deepest(Holders, fp, cur)
    BY <2>2, <1>2, DeepestNext
  <2> QED
    BY <2>1, <2>3, <1>10
<1>16. Newest(Holders, m, b, "enter", fp', args', answer)
  <2>1. Saving(b, "enter") = <<>> /\ Saved(b, <<>>)
    BY NothingSaved DEF Saving
  <2>2. m - 1 = cur
    BY <1>2, <1>12
  <2> QED
    BY <2>1, <2>2, <1>3, <1>5, <1>15 DEF Newest
<1>17. entries' \in Nat /\ m <= entries' /\ entries' <= ENTRIES /\ m # 0
  BY <1>1, <1>2, <1>12, BoundsAssumption
<1> QED
  BY <1>1, <1>4, <1>13, <1>14, <1>16, <1>17, ValuesStep

\* The last frame below n is n's, or the last one below n - 1.
LEMMA DeepestBelow ==
    ASSUME NEW H, NEW n \in Nat \ {0}, NEW d, Deepest(H, d, n)
    PROVE  IF n \in H THEN d = n ELSE Deepest(H, d, n - 1)
<1>1. CASE n \in H
  BY <1>1 DEF Deepest
<1>2. CASE n \notin H
  BY <1>2 DEF Deepest
<1> QED
  BY <1>1, <1>2

LEMMA HaltValues == ASSUME SizesInv, ValuesInv, Halt PROVE ValuesInv'
<1> DEFINE v == term.vs[1]
<1>1. /\ code = "run" /\ term.op = "halt" /\ stack' = SubSeq(stack, 1, Len(stack) - 1)
      /\ code' = (IF cur = 1 THEN "halted" ELSE "returned")
      /\ args' = [args EXCEPT ![1] = top.vars[v]] /\ answer' = top.means[v]
      /\ program' = program /\ scheme' = scheme /\ fp' = fp /\ entries' = entries
  BY DEF Halt, Running, Front
<1>2. /\ SizesTyped /\ stack # <<>> /\ term \in Terms /\ Current(top, exp_fv[term])
      /\ Deepest(Holders, fp, cur - 1)
      /\ scheme # "direct" => cur = 1
      /\ cur \in Nat \ {0} /\ cur <= entries /\ entries \in Nat /\ entries <= ENTRIES
      /\ DOMAIN args = 0 .. SLOTS - 1
  BY <1>1, RunningValues
<1>3. v \in exp_fv[term]
  <2>1. WellFormed(term)
    BY <1>2, TermsAssumption
  <2>2. term.vs \in Seq(Vars) /\ Len(term.vs) = 1
    BY <2>1, <1>1 DEF WellFormed
  <2>3. 1 \in DOMAIN term.vs
    BY <2>2, LenProperties
  <2> QED
    BY <2>3, <1>1, <1>2, ScopeProperties DEF ToSet
<1>4. args'[1] = answer' /\ Tree(answer') /\ DOMAIN args' = 0 .. SLOTS - 1
  <2>1. 1 \in DOMAIN args
    BY <1>2, BoundsAssumption
  <2>2. top.vars[v] = top.means[v] /\ Tree(top.means[v])
    BY <1>2, <1>3 DEF Current
  <2> QED
    BY <2>1, <2>2, <1>1, <1>2
<1> HIDE DEF v
<1>5. PICK m \in Nat : m = cur - 1
  BY <1>2
<1>6. /\ cur' = m /\ (stack' = <<>> <=> m = 0)
      /\ \A n \in 1 .. m : stack'[n] = stack[n]
  <2>1. /\ IsSeq(stack') /\ Len(stack') = m
        /\ \A n \in 1 .. m : stack'[n] = stack[n]
    BY <1>1, <1>2, <1>5, FrontSeq DEF SizesTyped, cur
  <2> QED
    BY <2>1, SeqEmpty DEF cur
<1>7. ASSUME NEW n \in 1 .. m
      PROVE  Waiting(Holders, n, stack[n]) /\ (n \in Holders <=> Held(stack[n]) # <<>>)
  <2>1. n \in 1 .. cur - 1 /\ n \in 1 .. cur
    BY <1>2, <1>5
  <2>2. n \in Holders <=> Held(stack[n]) # <<>>
    BY <2>1 DEF Holders
  <2> QED
    BY <2>1, <2>2 DEF ValuesInv
<1>8. ASSUME m # 0 PROVE Newest(Holders, m, stack[m], "returned", fp, args', answer')
  <2>1. m \in 1 .. m /\ m \in Nat \ {0} /\ cur # 1
    BY <1>2, <1>5, <1>8
  <2>2. Waiting(Holders, m, stack[m]) /\ (m \in Holders <=> Held(stack[m]) # <<>>)
    BY <2>1, <1>7
  <2>3. IF m \in Holders THEN fp = m ELSE Deepest(Holders, fp, m - 1)
    <3>1. Deepest(Holders, fp, m)
      BY <1>2, <1>5
    <3> QED
      BY <3>1, <2>1, DeepestBelow
  <2>4. Saving(stack[m], "returned") = Held(stack[m])
    BY DEF Saving
  <2>5. scheme = "direct"
    BY <2>1, <1>2
  <2> QED
    BY <2>2, <2>3, <2>4, <2>5, <1>4 DEF Newest, Waiting
<1>9. m # 0 => code' = "returned" /\ stack'[m] = stack[m]
  <2>1. m # 0 => cur # 1 /\ m \in 1 .. m
    BY <1>2, <1>5
  <2> QED
    BY <2>1, <1>1, <1>6
<1>10. entries' \in Nat /\ m <= entries' /\ entries' <= ENTRIES
  BY <1>1, <1>2, <1>5
<1>11. ASSUME NEW n \in 1 .. m - 1
       PROVE  /\ Waiting(Holders, n, stack'[n])
              /\ n \in Holders <=> Held(stack'[n]) # <<>>
  <2>1. n \in 1 .. m
    BY <1>5
  <2> QED
    BY <2>1, <1>6, <1>7
<1>12. m # 0 => Newest(Holders, m, stack'[m], code', fp', args', answer')
  BY <1>1, <1>8, <1>9
<1> QED
  BY <1>1, <1>4, <1>6, <1>10, <1>11, <1>12, ValuesStep

-----------------------------------------------------------------------------
(* Back from calls. *)

\* What is known after a call.
LEMMA CallingValues ==
    ASSUME SizesInv, ValuesInv, code \in {"returned", "call_gc", "collected"}
    PROVE  /\ SizesTyped /\ stack # <<>> /\ IsActivation(top)
           /\ term = top.e /\ term \in Terms /\ term.op = "letapp" /\ term.x \in Vars
           /\ top.f \in Names /\ Scoped(top) /\ scheme = "direct"
           /\ Held(top) = fvs_list(top.f, term) /\ IsSeq(Held(top)) /\ IsSeq(fv_gc(term))
           /\ ToSet(Held(top)) = (exp_fv[term.e] \cap LocVars(top.f)) \ {term.x}
           /\ ToSet(fv_gc(term)) = exp_fv[term.e] \cap {term.x}
           /\ Newest(Holders, cur, top, code, fp, args, answer)
           /\ Deepest(Holders, top.prev, cur - 1)
           /\ cur \in Nat \ {0} /\ cur <= entries /\ entries \in Nat /\ entries <= ENTRIES
           /\ DOMAIN args = 0 .. SLOTS - 1
<1>1. /\ SizesTyped /\ stack # <<>> /\ IsActivation(top)
      /\ term = top.e /\ term \in Terms /\ term.op = "letapp" /\ term.x \in Vars
  BY CallingSizes
<1>2. /\ Newest(Holders, cur, top, code, fp, args, answer)
      /\ cur <= entries /\ entries \in Nat /\ entries <= ENTRIES
      /\ DOMAIN args = 0 .. SLOTS - 1
  BY <1>1 DEF ValuesInv
<1>3. Scoped(top) /\ scheme = "direct" /\ Deepest(Holders, top.prev, cur - 1)
  BY <1>1, <1>2, CPSAssumption DEF Newest
<1>4. cur \in Nat \ {0} /\ top.f \in Names
  BY <1>1, NewestProperties DEF IsActivation
<1>5. Held(top) = fvs_list(top.f, term)
  BY <1>1 DEF Held
<1> QED
  BY <1>1, <1>2, <1>3, <1>4, <1>5, CallLists

\* What is held is popped, and the body goes on.
LEMMA DiscardValues ==
    ASSUME SizesInv, ValuesInv, code \in {"returned", "collected"}, code' = "run",
           UNCHANGED <<scheme, program, args, answer, entries>>,
           NEW a, IsActivation(a), a.f = top.f, a.e = top.e, a.prev = top.prev,
           \A i \in DOMAIN Held(top) : /\ a.roots[i] = a.means[Held(top)[i]]
                                       /\ Tree(a.means[Held(top)[i]]),
           Current(a, exp_fv[term.e] \cap {term.x}),
           Discard(a), Deepest(Holders, fp', cur - 1)
    PROVE  ValuesInv'
<1> DEFINE xs == Held(top)
           b == Pop(a, 0, xs)
           c == [b EXCEPT !.e = term.e]
<1>1. /\ SizesTyped /\ stack # <<>> /\ IsActivation(top)
      /\ term = top.e /\ term \in Terms /\ term.op = "letapp" /\ term.x \in Vars
      /\ top.f \in Names /\ Scoped(top) /\ scheme = "direct"
      /\ xs = fvs_list(top.f, term) /\ IsSeq(xs)
      /\ ToSet(xs) = (exp_fv[term.e] \cap LocVars(top.f)) \ {term.x}
      /\ Deepest(Holders, top.prev, cur - 1)
      /\ cur \in Nat \ {0} /\ cur <= entries /\ entries \in Nat /\ entries <= ENTRIES
      /\ DOMAIN args = 0 .. SLOTS - 1
  BY CallingValues
<1>2. stack' = Replaced(c)
  BY <1>1 DEF Discard
<1> HIDE DEF xs
<1>3. /\ term.e \in Terms /\ exp_fv[term.e] \subseteq Vars
      /\ exp_fv[term.e] \subseteq exp_fv[term] \cup {term.x}
      /\ get_locals[term] = {term.x} \cup get_locals[term.e]
  BY <1>1, TermProperties, ScopeProperties, LiveRecursion DEF Inner
<1>4. /\ exp_fv[term.e] \subseteq LocVars(top.f)
      /\ get_locals[term.e] \subseteq get_locals[Body(top.f)]
  BY <1>1, <1>3 DEF Scoped, LocVars
<1>5. /\ SameFrame(a, b) /\ IsActivation(b)
      /\ \A v \in Vars : v \in ToSet(xs) => b.vars[v] = a.means[v] /\ Tree(a.means[v])
      /\ \A v \in Vars : v \notin ToSet(xs) => b.vars[v] = a.vars[v]
  BY <1>1, PoppedValues DEF xs
<1> HIDE DEF b
<1>6. /\ c.f = top.f /\ c.e = term.e /\ c.prev = top.prev
      /\ c.vars = b.vars /\ c.means = a.means
  BY <1>5 DEF IsActivation, ActivationFields, SameFrame
<1> HIDE DEF c
<1>7. Current(c, exp_fv[c.e])
  <2>1. ASSUME NEW v \in exp_fv[term.e] PROVE c.vars[v] = c.means[v] /\ Tree(c.means[v])
    <3>1. CASE v = term.x
      <4>1. v \notin ToSet(xs) /\ v \in Vars /\ v \in exp_fv[term.e] \cap {term.x}
        BY <3>1, <1>1
      <4> QED
        BY <4>1, <1>5, <1>6 DEF Current
    <3>2. CASE v # term.x
      <4>1. v \in ToSet(xs) /\ v \in Vars
        BY <3>2, <1>1, <1>3, <1>4
      <4> QED
        BY <4>1, <1>5, <1>6
    <3> QED
      BY <3>1, <3>2
  <2> QED
    BY <2>1, <1>6 DEF Current
<1>8. Scoped(c) /\ Going(c, args)
  BY <1>1, <1>4, <1>6, <1>7 DEF Scoped, Going
<1>9. Saving(c, "run") = <<>> /\ Saved(c, <<>>)
  BY NothingSaved DEF Saving
<1>10. Newest(Holders, cur, c, "run", fp', args, answer)
  BY <1>1, <1>6, <1>8, <1>9 DEF Newest
<1> QED
  BY <1>1, <1>2, <1>10, ValuesInPlace

LEMMA ReturnedValues == ASSUME SizesInv, ValuesInv, Returned PROVE ValuesInv'
<1> DEFINE hs == Held(top)
           xs == fv_gc(term)
           a == [top EXCEPT !.vars[term.x] = args[1], !.means[term.x] = answer,
                            !.room = max_allocs[term.e]]
<1>1. code = "returned" /\ UNCHANGED <<scheme, program, args, answer, entries>>
  BY DEF Returned
<1>2. /\ SizesTyped /\ stack # <<>> /\ IsActivation(top)
      /\ term = top.e /\ term \in Terms /\ term.op = "letapp" /\ term.x \in Vars
      /\ top.f \in Names /\ Scoped(top) /\ scheme = "direct"
      /\ hs = fvs_list(top.f, term) /\ IsSeq(hs) /\ IsSeq(xs)
      /\ ToSet(hs) = (exp_fv[term.e] \cap LocVars(top.f)) \ {term.x}
      /\ ToSet(xs) = exp_fv[term.e] \cap {term.x}
      /\ Newest(Holders, cur, top, "returned", fp, args, answer)
      /\ Deepest(Holders, top.prev, cur - 1)
      /\ cur \in Nat \ {0} /\ cur <= entries /\ entries \in Nat /\ entries <= ENTRIES
      /\ DOMAIN args = 0 .. SLOTS - 1
  BY <1>1, CallingValues
<1>3. \/ /\ stack' = Replaced(Push(a, Len(hs), xs)) /\ code' = "call_gc"
         /\ fp' = set_stack(Len(hs) + Len(xs), Len(hs) # 0)
      \/ Discard(a) /\ code' = "run" /\ fp' = reset_stack(Len(hs), FALSE)
  <2>1. hs = fvs_list(top.f, term)
    BY <1>2
  <2> HIDE DEF hs, xs
  <2> QED
    BY <2>1 DEF Returned, xs
<1>4. /\ Saved(top, hs) /\ args[1] = answer /\ Tree(answer)
      /\ IF hs = <<>> THEN Deepest(Holders, fp, cur - 1) ELSE fp = cur
  <2>1. Saving(top, "returned") = hs
    BY DEF Saving
  <2> HIDE DEF hs
  <2> QED
    BY <2>1, <1>2 DEF Newest
<1> HIDE DEF hs, xs
<1>5. max_allocs[term.e] \in Nat
  BY <1>1, CallingSizes
<1>6. /\ IsActivation(a) /\ a.f = top.f /\ a.e = top.e /\ a.prev = top.prev
      /\ SameRoots(top, a)
      /\ \A y \in Vars : a.means[y] = IF y = term.x THEN answer ELSE top.means[y]
      /\ a.vars[term.x] = args[1]
  BY <1>2, <1>5 DEF IsActivation, ActivationFields, SameRoots
<1> HIDE DEF a
<1>7. Current(a, exp_fv[term.e] \cap {term.x})
  BY <1>2, <1>4, <1>6 DEF Current
<1>8. Saved(a, hs)
  <2>1. ASSUME NEW i \in DOMAIN hs PROVE a.means[hs[i]] = top.means[hs[i]]
    <3>1. hs[i] \in ToSet(hs)
      BY DEF ToSet
    <3>2. hs[i] # term.x /\ hs[i] \in Vars
      <4>1. exp_fv[term.e] \subseteq Vars
        BY <1>1, CallingSizes, LiveRecursion
      <4> QED
        BY <4>1, <3>1, <1>2
    <3> QED
      BY <3>2, <1>6
  <2> QED
    BY <2>1, <1>4, <1>6 DEF Saved, SameRoots
<1>9. CASE Discard(a) /\ code' = "run" /\ fp' = reset_stack(Len(hs), FALSE)
  <2>1. fp' = IF hs = <<>> THEN fp ELSE top.prev
    BY <1>2, <1>9, SeqEmpty DEF reset_stack
  <2>2. Deepest(Holders, fp', cur - 1)
    BY <2>1, <1>2, <1>4
  <2>3. \A i \in DOMAIN hs : a.roots[i] = a.means[hs[i]] /\ Tree(a.means[hs[i]])
    BY <1>8 DEF Saved
  <2> QED
    BY <2>2, <2>3, <1>1, <1>6, <1>7, <1>9, DiscardValues DEF hs
<1>10. CASE /\ stack' = Replaced(Push(a, Len(hs), xs)) /\ code' = "call_gc"
            /\ fp' = set_stack(Len(hs) + Len(xs), Len(hs) # 0)
  <2> DEFINE b == Push(a, Len(hs), xs)
             all == hs \o xs
  <2>1. SameFrame(a, b) /\ Saved(b, all)
    BY <1>2, <1>6, <1>7, <1>8, PushSaved
  <2> HIDE DEF b
  <2>2. /\ IsSeq(all) /\ Len(all) = Len(hs) + Len(xs)
    <3>1. Joins(all, hs, xs)
      BY <1>2, Concatenation
    <3> HIDE DEF all
    <3> QED
      BY <3>1 DEF Joins
  <2>3. Saving(b, "call_gc") = all
    <3>1. b.e = top.e /\ b.f = top.f
      BY <2>1, <1>6 DEF SameFrame
    <3>2. Held(b) = hs
      BY <3>1 DEF Held, hs
    <3> QED
      BY <3>1, <3>2, <1>2 DEF Saving, xs
  <2> HIDE DEF all
  <2>4. IF all = <<>> THEN Deepest(Holders, fp', cur - 1) ELSE fp' = cur
    <3>1. Len(hs) \in Nat /\ Len(xs) \in Nat /\ (hs = <<>> <=> Len(hs) = 0)
      BY <1>2, SeqEmpty, IsSeqLen
    <3>2. all = <<>> <=> Len(hs) + Len(xs) = 0
      BY <2>2, SeqEmpty
    <3>3. fp' = IF Len(hs) + Len(xs) = 0 \/ Len(hs) # 0 THEN fp ELSE cur
      BY <1>10 DEF set_stack
    <3> QED
      BY <3>1, <3>2, <3>3, <1>4
  <2>5. b.f = top.f /\ b.e = top.e /\ b.prev = top.prev
    BY <2>1, <1>6 DEF SameFrame
  <2>6. Newest(Holders, cur, b, "call_gc", fp', args, answer)
    BY <2>1, <2>3, <2>4, <2>5, <1>2 DEF Newest, Scoped
  <2> QED
    BY <2>6, <1>1, <1>2, <1>10, ValuesInPlace DEF b
<1> QED
  BY <1>3, <1>9, <1>10

LEMMA CollectedValues == ASSUME SizesInv, ValuesInv, Collected PROVE ValuesInv'
<1> DEFINE hs == Held(top)
           xs == fv_gc(term)
           all == hs \o xs
           a == Pop(top, Len(hs), xs)
<1>1. /\ code = "collected" /\ code' = "run"
      /\ UNCHANGED <<scheme, program, args, answer, entries>>
  BY DEF Collected
<1>2. /\ SizesTyped /\ stack # <<>> /\ IsActivation(top)
      /\ term = top.e /\ term \in Terms /\ term.op = "letapp" /\ term.x \in Vars
      /\ hs = fvs_list(top.f, term) /\ IsSeq(hs) /\ IsSeq(xs)
      /\ ToSet(xs) = exp_fv[term.e] \cap {term.x}
      /\ Newest(Holders, cur, top, "collected", fp, args, answer)
      /\ Deepest(Holders, top.prev, cur - 1)
  BY <1>1, CallingValues
<1>3. /\ Discard(a)
      /\ fp' = IF Len(hs) = 0 THEN reset_stack(Len(xs), FALSE) ELSE reset_stack(Len(hs), FALSE)
  <2>1. hs = fvs_list(top.f, term)
    BY <1>2
  <2> HIDE DEF hs, xs
  <2> QED
    BY <2>1 DEF Collected, xs
<1>4. /\ Saved(top, all)
      /\ IF all = <<>> THEN Deepest(Holders, fp, cur - 1) ELSE fp = cur
  <2>1. Saving(top, "collected") = all
    BY <1>2 DEF Saving
  <2> HIDE DEF all
  <2> QED
    BY <2>1, <1>2 DEF Newest
<1> HIDE DEF hs, xs
<1>5. Joins(all, hs, xs)
  BY <1>2, Concatenation
<1> HIDE DEF all
<1>6. /\ Len(hs) \in Nat /\ Len(xs) \in Nat /\ DOMAIN hs = 1 .. Len(hs) /\ DOMAIN xs = 1 .. Len(xs)
      /\ IsSeq(all) /\ DOMAIN all = 1 .. Len(hs) + Len(xs)
      /\ all = <<>> <=> Len(hs) + Len(xs) = 0
  <2>1. IsSeq(all) /\ Len(all) = Len(hs) + Len(xs)
    BY <1>5 DEF Joins
  <2> QED
    BY <2>1, <1>2, IsSeqLen, SeqEmpty
<1>7. ASSUME NEW i \in DOMAIN hs
      PROVE  top.roots[i] = top.means[hs[i]] /\ Tree(top.means[hs[i]])
  <2>1. i \in DOMAIN all /\ all[i] = hs[i]
    BY <1>5, <1>6 DEF Joins
  <2> QED
    BY <2>1, <1>4 DEF Saved
<1>8. ASSUME NEW i \in DOMAIN xs
      PROVE  top.roots[Len(hs) + i] = top.means[xs[i]] /\ Tree(top.means[xs[i]])
  <2>1. Len(hs) + i \in DOMAIN all /\ all[Len(hs) + i] = xs[i]
    BY <1>5, <1>6 DEF Joins
  <2> QED
    BY <2>1, <1>4 DEF Saved
<1>9. /\ SameFrame(top, a) /\ SameRoots(top, a) /\ IsActivation(a)
      /\ \A v \in Vars : a.vars[v] = IF v \in ToSet(xs) THEN top.means[v] ELSE top.vars[v]
  BY <1>2, <1>8, PopValues, PopSizes
<1> HIDE DEF a
<1>10. Current(a, exp_fv[term.e] \cap {term.x})
  <2>1. \A v \in ToSet(xs) : v \in Vars /\ Tree(top.means[v])
    BY <1>2, <1>8 DEF ToSet
  <2> QED
    BY <2>1, <1>2, <1>9 DEF Current, SameFrame
<1>11. \A i \in DOMAIN hs : a.roots[i] = a.means[hs[i]] /\ Tree(a.means[hs[i]])
  BY <1>7, <1>9 DEF SameFrame, SameRoots
<1>12. Deepest(Holders, fp', cur - 1)
  <2>1. fp' = IF Len(hs) + Len(xs) = 0 THEN fp ELSE top.prev
    BY <1>3, <1>6 DEF reset_stack
  <2> QED
    BY <2>1, <1>2, <1>4, <1>6
<1>13. a.f = top.f /\ a.e = top.e /\ a.prev = top.prev
  BY <1>9 DEF SameFrame
<1> QED
  BY <1>1, <1>3, <1>9, <1>10, <1>11, <1>12, <1>13, DiscardValues DEF hs

-----------------------------------------------------------------------------
(* The theorems. *)

LEMMA InitValues == Init => ValuesInv
<1> SUFFICES ASSUME Init PROVE ValuesInv
  OBVIOUS
<1>1. PICK vs \in Inputs : Called("f", vs)
  BY DEF Init
<1> DEFINE b == Activation("f", vs, vs)
<1>2. /\ stack = <<b>> /\ code = "enter" /\ fp = 0 /\ entries = 1
      /\ args = [c \in 0 .. SLOTS - 1 |->
                    IF c + 1 \in DOMAIN vs /\ c + 1 > nParam THEN vs[c + 1] ELSE Stale]
  BY <1>1 DEF Init, Called
<1>3. SizesTyped /\ "f" \in Names
  BY InitSizes, ProgramsAssumption DEF SizesInv
<1>4. /\ DOMAIN vs = DOMAIN Params("f") /\ DOMAIN vs \subseteq 1 .. SLOTS
      /\ \A i \in DOMAIN vs : Tree(vs[i])
      /\ CParams("f") \subseteq DOMAIN vs /\ SlotParams("f") \subseteq DOMAIN vs
      /\ \A i \in SlotParams("f") : i > nParam
      /\ exp_fv[Body("f")] \subseteq ToSet(Params("f"))
      /\ scheme # "direct" => Body("f") \in CPSTerms
  <2>1. vs \in Seq(Data) /\ Len(vs) = Arity["f"]
    BY DataAssumption
  <2>2. /\ DOMAIN vs = 1 .. Arity["f"] /\ \A i \in DOMAIN vs : vs[i] \in Data
    BY <2>1, LenProperties
  <2>3. DOMAIN vs \subseteq 1 .. SLOTS
    BY <2>2, <1>3, FunctionProperties, BoundsAssumption
  <2> QED
    BY <2>2, <2>3, <1>3, TreeData, FunctionProperties
<1>5. /\ \A i \in DOMAIN vs : b.means[Params("f")[i]] = vs[i]
      /\ \A i \in CParams("f") : b.vars[Params("f")[i]] = vs[i]
      /\ b.f = "f" /\ b.e = Body("f") /\ b.prev = 0
  BY <1>3, <1>4, CalleeValues
<1> HIDE DEF b
<1>6. ASSUME NEW i \in SlotParams("f") PROVE args[ArgSlot(i)] = vs[i]
  <2>1. i \in 1 .. SLOTS /\ i > nParam /\ i \in DOMAIN vs
    BY <1>4
  <2>2. i - 1 \in 0 .. SLOTS - 1 /\ i - 1 + 1 = i
    BY <2>1, BoundsAssumption
  <2> QED
    BY <2>1, <2>2, <1>2 DEF ArgSlot
<1>7. Entering(b, args)
  BY <1>4, <1>5, <1>6 DEF Entering, Arrived, Passed
<1>8. Scoped(b)
  BY <1>4, <1>5 DEF Scoped, LocVars
<1>9. cur = 1 /\ top = b /\ 1 .. cur - 1 = {}
  BY <1>2 DEF cur, top
<1>10. Newest(Holders, cur, top, code, fp, args, answer)
  <2>1. Saving(b, "enter") = <<>> /\ Saved(b, <<>>)
    BY NothingSaved DEF Saving
  <2>2. Deepest(Holders, 0, 0)
    BY DEF Deepest
  <2> QED
    BY <2>1, <2>2, <1>2, <1>4, <1>5, <1>7, <1>8, <1>9 DEF Newest
<1>11. DOMAIN args = 0 .. SLOTS - 1 /\ 1 <= ENTRIES
  BY <1>2, BoundsAssumption
<1> QED
  BY <1>2, <1>9, <1>10, <1>11 DEF ValuesInv

LEMMA NextValues == SizesInv /\ ValuesInv /\ [Next]_vars => ValuesInv'
<1> SUFFICES ASSUME SizesInv, ValuesInv, [Next]_vars PROVE ValuesInv'
  OBVIOUS
<1>1. CASE UNCHANGED vars
  <2>1. /\ stack' = stack /\ program' = program /\ scheme' = scheme /\ code' = code
        /\ fp' = fp /\ args' = args /\ answer' = answer /\ entries' = entries
    BY <1>1 DEF vars
  <2>2. PICK n \in Nat : n = cur
    BY IsSeqLen DEF SizesInv, SizesTyped, cur
  <2>3. cur' = n /\ (stack' = <<>> <=> n = 0)
    BY <2>1, <2>2, SeqEmpty DEF SizesInv, SizesTyped, cur
  <2>4. ASSUME NEW m \in 1 .. n - 1
        PROVE  Waiting(Holders, m, stack'[m]) /\ (m \in Holders <=> Held(stack'[m]) # <<>>)
    <3>1. m \in 1 .. cur - 1 /\ m \in 1 .. cur
      BY <2>2
    <3>2. m \in Holders <=> Held(stack[m]) # <<>>
      BY <3>1 DEF Holders
    <3> QED
      BY <3>1, <3>2, <2>1 DEF ValuesInv
  <2>5. n # 0 => Newest(Holders, n, stack'[n], code', fp', args', answer')
    BY <2>1, <2>2, <2>3 DEF ValuesInv, top
  <2>6. /\ entries' \in Nat /\ n <= entries' /\ entries' <= ENTRIES
        /\ DOMAIN args' = 0 .. SLOTS - 1
    BY <2>1, <2>2 DEF ValuesInv
  <2> QED
    BY <2>1, <2>3, <2>4, <2>5, <2>6, ValuesStep
<1> QED
  BY <1>1, EnterValues, CollectValues, EnteredValues, ConstrValues, ProjValues, CaseValues,
     LetAppValues, AppValues, HaltValues, ReturnedValues, CollectedValues DEF Next

\* The inductive invariant: where the newest activation is determines what of its
\* variables is in its cells, in its roots or in args; the older ones have in
\* their roots what the rest of their body uses; and the frames are linked from
\* fp in order, those that hold something and no others.
THEOREM ValuesInvariance == Spec => [](SizesInv /\ ValuesInv)
<1>1. Init => SizesInv /\ ValuesInv
  BY InitSizes, InitValues
<1>2. SizesInv /\ ValuesInv /\ [Next]_vars => (SizesInv /\ ValuesInv)'
  BY NextSizes, NextValues
<1> QED
  BY <1>1, <1>2, PTL DEF Spec

\* After calls, collections and branches alike, each variable that the body can
\* still read has the value the term gives it (push_live_vars_offset and
\* update_stack around a call, asgnFunVars and asgnAppVars_fast for arguments).
THEOREM VariablesAlwaysCurrent == Spec => []VariablesCurrent
<1>1. SizesInv /\ ValuesInv => VariablesCurrent
  BY RunningValues DEF VariablesCurrent, Current
<1> QED
  BY <1>1, ValuesInvariance, PTL

\* The collector never follows a frame of a function that has returned, nor a
\* root or a slot whose value a collection has left behind (set_stack,
\* reset_stack and the fun_info of a function).
THEOREM RootsAlwaysCurrent == Spec => []RootsCurrent
<1>1. ASSUME NEW a, NEW xs, IsSeq(xs), xs # <<>>, Saved(a, xs), NEW i \in 1 .. a.next
      PROVE  a.roots[i] # Stale
  <2>1. i \in DOMAIN xs
    BY <1>1, IsSeqLen DEF Saved
  <2> QED
    BY <2>1, <1>1, TreeProperties DEF Saved
<1>2. SizesInv /\ ValuesInv => RootsCurrent
  <2> SUFFICES ASSUME SizesInv, ValuesInv, code \in {"entry_gc", "call_gc"}
               PROVE  IF scheme = "direct"
                      THEN \A d \in Chain : /\ LiveFrame(d)
                                            /\ \A i \in 1 .. stack[d].next :
                                                   stack[d].roots[i] # Stale
                      ELSE \A c \in Roots : args[c] # Stale
    BY DEF RootsCurrent
  <2>1. /\ SizesTyped /\ stack # <<>> /\ cur \in Nat \ {0} /\ IsActivation(top)
        /\ top = stack[cur] /\ \A n \in 1 .. cur : IsActivation(stack[n])
        /\ Newest(Holders, cur, top, code, fp, args, answer)
    BY NestedSizes, NewestProperties DEF SizesTyped, top, ValuesInv
  <2>2. ASSUME scheme = "direct", NEW d \in Chain
        PROVE  LiveFrame(d) /\ \A i \in 1 .. stack[d].next : stack[d].roots[i] # Stale
    <3>1. \/ d \in Holders /\ d # cur
          \/ d = cur /\ Saving(top, code) # <<>>
      BY <2>1, <2>2, ChainProperties
    <3>2. d \in 1 .. cur
      BY <3>1, <2>1 DEF Holders
    <3>3. LiveFrame(d)
      BY <3>2, <2>1, LinkedProperties
    <3>4. CASE d \in Holders /\ d # cur
      <4>1. d \in 1 .. cur - 1 /\ Held(stack[d]) # <<>> /\ IsSeq(Held(stack[d]))
        BY <3>2, <3>4, <2>1, HeldSeq DEF Holders
      <4>2. Saved(stack[d], Held(stack[d]))
        BY <4>1 DEF ValuesInv, Waiting
      <4> QED
        BY <4>1, <4>2, <3>3, <1>1
    <3>5. CASE d = cur /\ Saving(top, code) # <<>>
      <4>1. Saved(top, Saving(top, code))
        BY <2>1 DEF Newest
      <4>2. IsSeq(Saving(top, code))
        BY <2>1, SavingSeq
      <4> QED
        BY <4>1, <4>2, <3>3, <3>5, <2>1, <1>1
    <3> QED
      BY <3>1, <3>4, <3>5
  <2>3. ASSUME scheme # "direct", NEW c \in Roots PROVE args[c] # Stale
    <3>1. code = "entry_gc"
      BY <2>3, CallingValues
    <3>2. Arrived(top) /\ Passed(top, args, DOMAIN Params(top.f))
      BY <2>1, <2>3, <3>1 DEF Newest, Reserving
    <3>3. PICK i \in DOMAIN Params(top.f) : c = ArgSlot(i)
      BY <2>3 DEF Roots, FunInfoRoots
    <3> QED
      BY <3>2, <3>3, TreeProperties DEF Arrived, Passed
  <2> QED
    BY <2>2, <2>3
<1> QED
  BY <1>2, ValuesInvariance, PTL

\* A switch takes the branch of the constructor that its scrutinee was built
\* with (makeCases and make_case_switch).
THEOREM CaseAlwaysTakesItsBranch == Spec => []CaseTakesItsBranch
<1>1. SizesInv /\ ValuesInv => CaseTakesItsBranch
  <2> SUFFICES ASSUME SizesInv, ValuesInv, code = "run", term.op = "case",
                      NEW i \in DOMAIN term.cs, term.cs[i].c = top.means[term.x].c
               PROVE  Branch(term.cs, top.vars[term.x]) = term.cs[i]
    BY DEF CaseTakesItsBranch
  <2>1. term \in Terms /\ Current(top, exp_fv[term])
    BY RunningValues
  <2>2. top.vars[term.x] = top.means[term.x]
    BY <2>1, ScopeProperties DEF Current
  <2> QED
    BY <2>1, <2>2, BranchTaken
<1> QED
  BY <1>1, ValuesInvariance, PTL
=============================================================================
