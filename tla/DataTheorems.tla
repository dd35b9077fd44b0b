---------------------------- MODULE DataTheorems ----------------------------
(***************************************************************************)
(* What the proofs need of data, whatever the program: sequences of        *)
(* anything; induction over the natural numbers, stated for sets of them;  *)
(* the existence of functions defined by recursion, which follows from a   *)
(* well-foundedness theorem of the library that takes no operator          *)
(* parameter; depth-first search of a graph.                               *)
(***************************************************************************)
EXTENDS Integers, SequencesExt, TLAPS, WellFoundedInduction, FiniteSetTheorems,
        SequenceTheorems

\* s is a sequence, whatever its elements.
IsSeq(s) == s \in Seq({s[i] : i \in DOMAIN s})

-----------------------------------------------------------------------------
(* Sequences. *)

LEMMA SeqOfAny == ASSUME NEW S, NEW s \in Seq(S) PROVE IsSeq(s)
<1>1. PICK E : E = {s[j] : j \in DOMAIN s}
  OBVIOUS
<1>2. PICK n : n = Len(s) /\ n \in Nat /\ DOMAIN s = 1 .. n /\ s = [i \in 1 .. n |-> s[i]]
  BY LenProperties
<1>3. s \in [1 .. n -> E]
  BY <1>1, <1>2
<1>4. s \in Seq(E)
  BY <1>2, <1>3, SeqDef
<1> QED
  BY <1>1, <1>4 DEF IsSeq

LEMMA IsSeqLen ==
    ASSUME NEW s, IsSeq(s)
    PROVE  Len(s) \in Nat /\ DOMAIN s = 1 .. Len(s)
  BY LenProperties DEF IsSeq

LEMMA SeqOfFunction ==
    ASSUME NEW n \in Nat, NEW s, DOMAIN s = 1 .. n, s = [i \in 1 .. n |-> s[i]]
    PROVE  IsSeq(s) /\ Len(s) = n
<1> DEFINE S == {s[i] : i \in DOMAIN s}
<1>1. s \in [1 .. n -> S]
  OBVIOUS
<1>2. s \in Seq(S)
  BY <1>1, SeqDef
<1> QED
  BY <1>2, LenProperties DEF IsSeq

LEMMA SeqFunction ==
    ASSUME NEW s, IsSeq(s) PROVE s = [i \in 1 .. Len(s) |-> s[i]]
  BY LenProperties DEF IsSeq

LEMMA AppendSeq ==
    ASSUME NEW s, IsSeq(s), NEW x
    PROVE  /\ IsSeq(Append(s, x)) /\ Len(Append(s, x)) = Len(s) + 1
           /\ Append(s, x)[Len(s) + 1] = x
           /\ \A i \in 1 .. Len(s) : Append(s, x)[i] = s[i]
<1> DEFINE S == {s[i] : i \in DOMAIN s} \cup {x}
<1>1. s \in Seq(S) /\ x \in S
  BY SeqMonotonic DEF IsSeq
<1> HIDE DEF S
<1>2. Append(s, x) \in Seq(S)
  BY <1>1, AppendProperties
<1>3. IsSeq(Append(s, x))
  BY <1>2, SeqOfAny
<1> QED
  BY <1>1, <1>3, AppendProperties

LEMMA FrontSeq ==
    ASSUME NEW s, IsSeq(s), s # <<>>
    PROVE  /\ IsSeq(SubSeq(s, 1, Len(s) - 1))
           /\ Len(SubSeq(s, 1, Len(s) - 1)) = Len(s) - 1
           /\ \A i \in 1 .. Len(s) - 1 : SubSeq(s, 1, Len(s) - 1)[i] = s[i]
<1>1. Len(s) \in Nat /\ Len(s) >= 1 /\ DOMAIN s = 1 .. Len(s)
  BY EmptySeq, LenProperties DEF IsSeq
<1> DEFINE S == {s[i] : i \in DOMAIN s}
<1>2. s \in Seq(S)
  BY DEF IsSeq
<1>3. SubSeq(s, 1, Len(s) - 1) = [i \in 1 .. Len(s) - 1 |-> s[i]]
  BY <1>1, <1>2
<1> DEFINE r == SubSeq(s, 1, Len(s) - 1)
<1>4. DOMAIN r = 1 .. Len(s) - 1 /\ r = [i \in 1 .. Len(s) - 1 |-> r[i]]
  BY <1>3
<1>5. IsSeq(r) /\ Len(r) = Len(s) - 1
  <2> HIDE DEF r
  <2>1. Len(s) - 1 \in Nat
    BY <1>1
  <2> QED
    BY <2>1, <1>4, SeqOfFunction
<1> QED
  BY <1>3, <1>5

\* r is s with x in place i.
Updates(r, s, i, x) == IsSeq(s) /\ i \in DOMAIN s /\ r = [s EXCEPT ![i] = x]

LEMMA ReplaceSeq ==
    ASSUME NEW s, NEW i, NEW x, NEW r, Updates(r, s, i, x)
    PROVE  /\ IsSeq(r) /\ Len(r) = Len(s) /\ r[i] = x
           /\ \A j \in DOMAIN s : j # i => r[j] = s[j]
<1>1. Len(s) \in Nat /\ DOMAIN s = 1 .. Len(s)
  BY IsSeqLen DEF Updates
<1>2. DOMAIN r = 1 .. Len(s) /\ r = [j \in 1 .. Len(s) |-> r[j]]
  BY <1>1 DEF Updates
<1>3. IsSeq(r) /\ Len(r) = Len(s)
  BY <1>1, <1>2, SeqOfFunction
<1> QED
  BY <1>3 DEF Updates

LEMMA ConcatSeq ==
    ASSUME NEW s, IsSeq(s), NEW t, IsSeq(t)
    PROVE  /\ IsSeq(s \o t) /\ Len(s \o t) = Len(s) + Len(t)
           /\ \A i \in 1 .. Len(s) : (s \o t)[i] = s[i]
           /\ \A i \in 1 .. Len(t) : (s \o t)[Len(s) + i] = t[i]
<1> DEFINE S == {s[i] : i \in DOMAIN s} \cup {t[i] : i \in DOMAIN t}
<1>1. s \in Seq(S) /\ t \in Seq(S)
  BY SeqMonotonic DEF IsSeq
<1>2. Len(s) \in Nat /\ Len(t) \in Nat
  BY IsSeqLen
<1> HIDE DEF S
<1>3. /\ s \o t \in Seq(S) /\ Len(s \o t) = Len(s) + Len(t)
      /\ \A i \in 1 .. Len(s) + Len(t) :
             (s \o t)[i] = IF i <= Len(s) THEN s[i] ELSE t[i - Len(s)]
  BY <1>1, ConcatProperties
<1>4. IsSeq(s \o t)
  BY <1>3, SeqOfAny
<1> QED
  BY <1>2, <1>3, <1>4

\* The first n elements of s.
LEMMA PrefixSeq ==
    ASSUME NEW s, IsSeq(s), NEW n \in 0 .. Len(s)
    PROVE  /\ IsSeq(SubSeq(s, 1, n)) /\ Len(SubSeq(s, 1, n)) = n
           /\ \A i \in 1 .. n : SubSeq(s, 1, n)[i] = s[i]
<1>1. Len(s) \in Nat /\ DOMAIN s = 1 .. Len(s)
  BY IsSeqLen
<1> DEFINE S == {s[i] : i \in DOMAIN s}
<1>2. s \in Seq(S)
  BY DEF IsSeq
<1>3. SubSeq(s, 1, n) = [i \in 1 .. n |-> s[i]]
  BY <1>1, <1>2
<1> DEFINE r == SubSeq(s, 1, n)
<1>4. DOMAIN r = 1 .. n /\ r = [i \in 1 .. n |-> r[i]]
  BY <1>3
<1>5. IsSeq(r) /\ Len(r) = n
  <2> HIDE DEF r
  <2>1. n \in Nat
    BY <1>1
  <2> QED
    BY <2>1, <1>4, SeqOfFunction
<1> QED
  BY <1>3, <1>5

\* Only the empty sequence has length zero.
LEMMA LengthZero ==
    ASSUME NEW s, IsSeq(s) PROVE Len(s) = 0 <=> s = <<>>
  BY IsSeqLen, EmptySeq DEF IsSeq

\* The elements of what is left of a sequence, and of two sequences.
LEMMA TailElements ==
    ASSUME NEW s, IsSeq(s), s # <<>>
    PROVE  IsSeq(Tail(s)) /\ ToSet(s) = {Head(s)} \cup ToSet(Tail(s))
<1> DEFINE S == ToSet(s)
<1>1. s \in Seq(S)
  BY DEF IsSeq, ToSet
<1> HIDE DEF S
<1>2. /\ Tail(s) \in Seq(S) /\ Len(Tail(s)) = Len(s) - 1 /\ Head(s) = s[1]
      /\ \A i \in 1 .. Len(s) - 1 : Tail(s)[i] = s[i + 1]
  BY <1>1, HeadTailProperties
<1>3. Len(s) \in Nat /\ DOMAIN s = 1 .. Len(s) /\ IsSeq(Tail(s))
      /\ DOMAIN Tail(s) = 1 .. Len(s) - 1
  BY <1>1, <1>2, SeqOfAny, IsSeqLen
<1>4. Len(s) >= 1
  BY <1>3, LengthZero
<1>5. ASSUME NEW x \in ToSet(s) PROVE x \in {Head(s)} \cup ToSet(Tail(s))
  <2>1. PICK i \in 1 .. Len(s) : x = s[i]
    BY <1>3 DEF ToSet
  <2>2. CASE i = 1
    BY <2>1, <2>2, <1>2
  <2>3. CASE i # 1
    <3>1. i - 1 \in 1 .. Len(s) - 1 /\ s[(i - 1) + 1] = x
      BY <1>3, <2>1, <2>3
    <3>2. Tail(s)[i - 1] = x
      BY <1>2, <3>1
    <3> QED
      BY <1>3, <3>1, <3>2 DEF ToSet
  <2> QED
    BY <2>2, <2>3
<1>6. \A i \in 1 .. Len(s) - 1 : i + 1 \in 1 .. Len(s)
  BY <1>3
<1>7. ToSet(Tail(s)) \subseteq ToSet(s) /\ Head(s) \in ToSet(s)
  BY <1>2, <1>3, <1>4, <1>6 DEF ToSet
<1> QED
  BY <1>3, <1>5, <1>7

LEMMA ConcatElements ==
    ASSUME NEW s, IsSeq(s), NEW t, IsSeq(t)
    PROVE  IsSeq(s \o t) /\ ToSet(s \o t) = ToSet(s) \cup ToSet(t)
<1>1. /\ IsSeq(s \o t) /\ Len(s \o t) = Len(s) + Len(t)
      /\ \A i \in 1 .. Len(s) : (s \o t)[i] = s[i]
      /\ \A i \in 1 .. Len(t) : (s \o t)[Len(s) + i] = t[i]
  BY ConcatSeq
<1>2. /\ Len(s) \in Nat /\ DOMAIN s = 1 .. Len(s)
      /\ Len(t) \in Nat /\ DOMAIN t = 1 .. Len(t)
      /\ DOMAIN (s \o t) = 1 .. Len(s) + Len(t)
  BY <1>1, IsSeqLen
<1> DEFINE r == s \o t
<1> HIDE DEF r
<1>3. ASSUME NEW x \in ToSet(r) PROVE x \in ToSet(s) \cup ToSet(t)
  <2>1. PICK i \in 1 .. Len(s) + Len(t) : x = r[i]
    BY <1>2 DEF ToSet, r
  <2>2. CASE i <= Len(s)
    <3>1. i \in 1 .. Len(s) /\ r[i] = s[i]
      BY <1>1, <1>2, <2>1, <2>2 DEF r
    <3> QED
      BY <1>2, <2>1, <3>1 DEF ToSet
  <2>3. CASE i > Len(s)
    <3>1. i - Len(s) \in 1 .. Len(t) /\ Len(s) + (i - Len(s)) = i
      BY <1>2, <2>1, <2>3
    <3>2. r[i] = t[i - Len(s)]
      BY <1>1, <3>1 DEF r
    <3> QED
      BY <1>2, <2>1, <3>1, <3>2 DEF ToSet
  <2> QED
    BY <1>2, <2>1, <2>2, <2>3
<1>4. ASSUME NEW i \in 1 .. Len(s) PROVE s[i] \in ToSet(r)
  BY <1>1, <1>2 DEF ToSet, r
<1>5. ASSUME NEW i \in 1 .. Len(t) PROVE t[i] \in ToSet(r)
  <2>1. Len(s) + i \in DOMAIN r /\ r[Len(s) + i] = t[i]
    BY <1>1, <1>2 DEF r
  <2> QED
    BY <2>1 DEF ToSet
<1>6. ToSet(s) \subseteq ToSet(r) /\ ToSet(t) \subseteq ToSet(r)
  BY <1>2, <1>4, <1>5 DEF ToSet
<1> QED
  BY <1>1, <1>3, <1>6 DEF r

\* Two sets of the numbers up to n, without one in common.
LEMMA DisjointUnion ==
    ASSUME NEW n \in Nat, NEW A \in SUBSET (1 .. n), NEW B \in SUBSET (1 .. n), A \cap B = {}
    PROVE  /\ Cardinality(A) \in Nat /\ Cardinality(B) \in Nat
           /\ Cardinality(A \cup B) = Cardinality(A) + Cardinality(B)
           /\ Cardinality(A) + Cardinality(B) <= n
<1>1. IsFiniteSet(1 .. n) /\ Cardinality(1 .. n) = n
  <2>1. IsFiniteSet(1 .. n) /\ Cardinality(1 .. n) = IF 1 > n THEN 0 ELSE n - 1 + 1
    BY FS_Interval
  <2> QED
    BY <2>1
<1>2. IsFiniteSet(A) /\ IsFiniteSet(B) /\ Cardinality(A \cup B) <= Cardinality(1 .. n)
  <2>1. (A \cup B) \in SUBSET (1 .. n)
    OBVIOUS
  <2> QED
    BY <1>1, <2>1, FS_Subset
<1>3. Cardinality(A) \in Nat /\ Cardinality(B) \in Nat
  BY <1>2, FS_CardinalityType
<1>4. Cardinality(A \cup B) = Cardinality(A) + Cardinality(B) - Cardinality(A \cap B)
  BY <1>2, FS_Union
<1>5. Cardinality(A \cap B) = 0
  BY FS_EmptySet
<1> QED
  BY <1>1, <1>2, <1>3, <1>4, <1>5

\* The place of k in h .. h + n.
LEMMA Offset ==
    ASSUME NEW k \in Int, NEW h \in Int, NEW n \in Int, k \in h .. h + n
    PROVE  k - h \in 0 .. n /\ (k # h => k - h \in 1 .. n)
  OBVIOUS

-----------------------------------------------------------------------------
(* Induction and recursion. *)

\* A non-empty set of natural numbers has a least element.
LEMMA LeastNatural ==
    ASSUME NEW T \in SUBSET Nat, T # {}
    PROVE  \E x \in T : \A y \in T : x <= y
<1>1. IsWellFoundedOn(OpToRel(<, Nat), Nat)
  BY NatLessThanWellFounded
<1>2. PICK x \in T : \A y \in T : ~ (<<y, x>> \in OpToRel(<, Nat))
  BY <1>1, WFMin, T \subseteq Nat
<1>3. \A y \in T : y < x => <<y, x>> \in OpToRel(<, Nat)
  BY DEF OpToRel
<1>4. \A y \in T : ~ (y < x)
  BY <1>2, <1>3, Zenon
<1> QED
  BY <1>4

\* A set that holds 0, and the successor of each number below last that it
\* holds, holds every number up to last.
LEMMA BoundedInduction ==
    ASSUME NEW last \in Nat, NEW S,
           0 \in S, \A n \in 0 .. last - 1 : n \in S => n + 1 \in S
    PROVE  \A n \in 0 .. last : n \in S
<1> DEFINE Missing == {n \in 0 .. last : n \notin S}
<1> SUFFICES ASSUME Missing # {} PROVE FALSE
  OBVIOUS
<1>1. PICK x \in Missing : \A y \in Missing : x <= y
  <2>1. Missing \in SUBSET Nat
    OBVIOUS
  <2> QED
    BY <2>1, LeastNatural
<1>2. x # 0 /\ x - 1 \in 0 .. last - 1
  BY <1>1
<1>3. x - 1 \notin S
  BY <1>2
<1> QED
  BY <1>1, <1>2, <1>3

\* A set of natural numbers closed under successor.
LEMMA SetInduction ==
    ASSUME NEW S, 0 \in S, \A n \in Nat : n \in S => n + 1 \in S
    PROVE  \A n \in Nat : n \in S
<1> TAKE n \in Nat
<1>1. \A k \in 0 .. n - 1 : k \in S => k + 1 \in S
  OBVIOUS
<1>2. \A k \in 0 .. n : k \in S
  BY <1>1, BoundedInduction
<1> QED
  BY <1>2

\* Step maps a function f to one whose value at x is computed from the values of
\* f at arguments of lower rank.
Descends(S, V, rank, Step) ==
    \A f, g \in [S -> V] : \A x \in S :
        (\A y \in S : rank[y] < rank[x] => f[y] = g[y]) => Step[f][x] = Step[g][x]

Recursion(S, V, rank, Step) ==
    /\ V # {} /\ rank \in [S -> Nat]
    /\ Step \in [[S -> V] -> [S -> V]]
    /\ Descends(S, V, rank, Step)

Solvable(S, V, Step) == \E f \in [S -> V] : f = Step[f]

\* The recursive equation f = Step[f] has a solution.
LEMMA RecursionExists ==
    ASSUME NEW S, NEW V, NEW rank, NEW Step, Recursion(S, V, rank, Step)
    PROVE  Solvable(S, V, Step)
<1> USE DEF Recursion
<1> DEFINE Solves(f, n) == \A x \in S : rank[x] < n => f[x] = Step[f][x]
           Levels == {n \in Nat : \E f \in [S -> V] : Solves(f, n)}
<1>1. 0 \in Levels
  <2>1. PICK v \in V : TRUE
    OBVIOUS
  <2>2. [x \in S |-> v] \in [S -> V] /\ Solves([x \in S |-> v], 0)
    OBVIOUS
  <2> QED
    BY <2>2
<1>2. \A n \in Nat : n \in Levels => n + 1 \in Levels
  <2> SUFFICES ASSUME NEW n \in Nat, NEW f \in [S -> V], Solves(f, n)
               PROVE  n + 1 \in Levels
    OBVIOUS
  <2> DEFINE g == Step[f]
  <2>1. g \in [S -> V]
    OBVIOUS
  <2>2. ASSUME NEW x \in S, rank[x] < n + 1 PROVE g[x] = Step[g][x]
    <3>1. \A y \in S : rank[y] < rank[x] => f[y] = g[y]
      BY <2>2
    <3>2. Step[f][x] = Step[g][x]
      BY <2>1, <3>1 DEF Descends
    <3> QED
      BY <3>2
  <2> HIDE DEF g
  <2> QED
    BY <2>1, <2>2
<1>3. \A n \in Nat : \E f \in [S -> V] : Solves(f, n)
  <2> HIDE DEF Levels
  <2>1. \A n \in Nat : n \in Levels
    BY <1>1, <1>2, SetInduction
  <2> QED
    BY <2>1 DEF Levels
\* Two functions that solve it for ranks below n agree there.
<1>4. ASSUME NEW n \in Nat, NEW f \in [S -> V], NEW g \in [S -> V], Solves(f, n), Solves(g, n)
      PROVE  \A x \in S : rank[x] < n => f[x] = g[x]
  <2> DEFINE Agree == {k \in Nat : \A x \in S : rank[x] < k /\ rank[x] < n => f[x] = g[x]}
  <2>1. 0 \in Agree
    OBVIOUS
  <2>2. ASSUME NEW k \in Nat, k \in Agree PROVE k + 1 \in Agree
    <3>1. ASSUME NEW x \in S, rank[x] < k + 1, rank[x] < n PROVE f[x] = g[x]
      <4>1. \A y \in S : rank[y] < rank[x] => f[y] = g[y]
        BY <2>2, <3>1
      <4>2. Step[f][x] = Step[g][x]
        BY <4>1 DEF Descends
      <4> QED
        BY <4>2, <3>1, <1>4
    <3> QED
      BY <3>1
  <2> HIDE DEF Agree
  <2>3. n \in Agree
    BY <2>1, <2>2, SetInduction
  <2> QED
    BY <2>3 DEF Agree
\* The value at x is that of any function which solves it up to the rank of x.
<1> DEFINE Up(x) == CHOOSE g \in [S -> V] : Solves(g, rank[x] + 1)
           f == [x \in S |-> Up(x)[x]]
<1>5. ASSUME NEW x \in S PROVE Up(x) \in [S -> V] /\ Solves(Up(x), rank[x] + 1)
  <2>1. rank[x] + 1 \in Nat
    OBVIOUS
  <2>2. \E g \in [S -> V] : Solves(g, rank[x] + 1)
    BY <2>1, <1>3
  <2> HIDE DEF Solves
  <2> QED
    BY <2>2
<1> HIDE DEF Up
<1>6. f \in [S -> V]
  BY <1>5
<1>7. ASSUME NEW x \in S PROVE f[x] = Step[f][x]
  <2>1. ASSUME NEW y \in S, rank[y] < rank[x] PROVE f[y] = Up(x)[y]
    <3>1. rank[y] + 1 \in Nat /\ rank[y] < rank[y] + 1
      OBVIOUS
    <3>2. Solves(Up(x), rank[y] + 1)
      BY <1>5, <2>1
    <3>3. Up(y) \in [S -> V] /\ Up(x) \in [S -> V] /\ Solves(Up(y), rank[y] + 1)
      BY <1>5
    <3> HIDE DEF Solves
    <3>4. Up(y)[y] = Up(x)[y]
      BY <3>1, <3>2, <3>3, <1>4
    <3> QED
      BY <3>4
  <2>2. Step[f][x] = Step[Up(x)][x]
    <3>1. f \in [S -> V] /\ Up(x) \in [S -> V]
      BY <1>5, <1>6
    <3> HIDE DEF f
    <3> QED
      BY <3>1, <2>1 DEF Descends
  <2>3. Up(x)[x] = Step[Up(x)][x]
    BY <1>5
  <2> QED
    BY <2>2, <2>3
<1> HIDE DEF f
<1>8. f = Step[f]
  <2>1. Step[f] \in [S -> V]
    BY <1>6
  <2> QED
    BY <1>6, <1>7, <2>1
<1> QED
  BY <1>6, <1>8 DEF Solvable

\* The same for functions of the numbers up to last, from each to the next.
PrimitiveStep(last, base, Next, f) ==
    [n \in 0 .. last |-> IF n = 0 THEN base ELSE Next[n][f[n - 1]]]

LEMMA PrimitiveRecursionExists ==
    ASSUME NEW last \in Nat, NEW V, NEW base \in V, NEW Next \in [1 .. last -> [V -> V]]
    PROVE  \E f \in [0 .. last -> V] : f = PrimitiveStep(last, base, Next, f)
<1> DEFINE S == 0 .. last
           Step == [f \in [S -> V] |-> PrimitiveStep(last, base, Next, f)]
           rank == [n \in S |-> n]
<1>1. \A f \in [S -> V] : PrimitiveStep(last, base, Next, f) \in [S -> V]
  BY DEF PrimitiveStep
<1>2. /\ Step \in [[S -> V] -> [S -> V]]
      /\ \A f \in [S -> V] : Step[f] = PrimitiveStep(last, base, Next, f)
  BY <1>1
<1>3. rank \in [S -> Nat] /\ \A n \in S : rank[n] = n
  OBVIOUS
<1>4. ASSUME NEW f \in [S -> V], NEW g \in [S -> V], NEW n \in S,
             \A k \in S : rank[k] < rank[n] => f[k] = g[k]
      PROVE  Step[f][n] = Step[g][n]
  <2>1. PrimitiveStep(last, base, Next, f)[n] = PrimitiveStep(last, base, Next, g)[n]
    BY <1>3, <1>4 DEF PrimitiveStep
  <2> QED
    BY <2>1, <1>2
<1>5. Recursion(S, V, rank, Step)
  <2> HIDE DEF Step, rank, S
  <2>1. Descends(S, V, rank, Step)
    BY <1>4 DEF Descends
  <2> QED
    BY <2>1, <1>2, <1>3 DEF Recursion
<1>6. Solvable(S, V, Step)
  BY <1>5, RecursionExists
<1> QED
  BY <1>2, <1>6 DEF Solvable

\* A set that holds x whenever it holds all that is below x, as rank counts,
\* holds everything.
LEMMA RankInduction ==
    ASSUME NEW S, NEW rank \in [S -> Nat], NEW T,
           \A x \in S : (\A y \in S : rank[y] < rank[x] => y \in T) => x \in T
    PROVE  \A x \in S : x \in T
<1> DEFINE Levels == {n \in Nat : \A x \in S : rank[x] < n => x \in T}
<1>1. 0 \in Levels
  OBVIOUS
<1>2. ASSUME NEW n \in Nat, n \in Levels PROVE n + 1 \in Levels
  <2>1. ASSUME NEW x \in S, rank[x] < n + 1 PROVE x \in T
    <3>1. \A y \in S : rank[y] < rank[x] => y \in T
      BY <1>2, <2>1
    <3> QED
      BY <3>1
  <2> QED
    BY <2>1
<1>3. \A n \in Nat : n \in Levels
  <2> HIDE DEF Levels
  <2> QED
    BY <1>1, <1>2, SetInduction
<1> TAKE x \in S
<1>4. rank[x] + 1 \in Levels /\ rank[x] < rank[x] + 1
  BY <1>3
<1> QED
  BY <1>4

\* One of finitely many numbers is the largest.
LEMMA LargestExists ==
    ASSUME NEW n \in Nat \ {0}, NEW g \in [1 .. n -> Nat]
    PROVE  \E i \in 1 .. n : \A j \in 1 .. n : g[j] <= g[i]
<1> DEFINE Good == {k \in 0 .. n - 1 : \E i \in 1 .. k + 1 : \A j \in 1 .. k + 1 : g[j] <= g[i]}
<1>1. 0 \in Good
  OBVIOUS
<1>2. ASSUME NEW k \in 0 .. (n - 1) - 1, k \in Good PROVE k + 1 \in Good
  <2>1. PICK i \in 1 .. k + 1 : \A j \in 1 .. k + 1 : g[j] <= g[i]
    BY <1>2
  <2>2. CASE g[k + 2] <= g[i]
    <3>1. \A j \in 1 .. k + 2 : g[j] <= g[i]
      BY <2>1, <2>2
    <3> QED
      BY <3>1
  <2>3. CASE ~ (g[k + 2] <= g[i])
    <3>1. \A j \in 1 .. k + 2 : g[j] <= g[k + 2]
      <4>1. g[i] \in Nat /\ g[k + 2] \in Nat
        OBVIOUS
      <4> QED
        BY <2>1, <2>3, <4>1
    <3> QED
      BY <3>1
  <2> QED
    BY <2>2, <2>3
<1>3. \A k \in 0 .. n - 1 : k \in Good
  <2>1. n - 1 \in Nat
    OBVIOUS
  <2> HIDE DEF Good
  <2> QED
    BY <2>1, <1>1, <1>2, BoundedInduction
<1>4. n - 1 \in 0 .. n - 1 /\ n - 1 + 1 = n
  OBVIOUS
<1>5. n - 1 \in Good
  <2> HIDE DEF Good
  <2> QED
    BY <1>3, <1>4
<1> QED
  BY <1>4, <1>5

\* h computes its value at x as Step does from any function of the type that has
\* the values of h below x.
Follows(h, S, V, rank, Step) ==
    /\ h = [x \in S |-> h[x]]
    /\ \A g \in [S -> V] : \A x \in S :
           (\A y \in S : rank[y] < rank[x] => h[y] = g[y]) => h[x] = Step[g][x]

\* Such a function has the type.
LEMMA RecursionType ==
    ASSUME NEW S, NEW V, NEW rank, NEW Step, Recursion(S, V, rank, Step),
           NEW h, Follows(h, S, V, rank, Step)
    PROVE  h \in [S -> V]
<1> DEFINE T == {x \in S : h[x] \in V}
<1>1. ASSUME NEW x \in S, \A y \in S : rank[y] < rank[x] => y \in T PROVE x \in T
  <2>1. PICK v \in V : TRUE
    BY DEF Recursion
  <2> DEFINE g == [y \in S |-> IF y \in T THEN h[y] ELSE v]
  <2>2. g \in [S -> V] /\ \A y \in S : rank[y] < rank[x] => h[y] = g[y]
    BY <1>1
  <2>3. Step[g][x] \in V
    BY <2>2 DEF Recursion
  <2> HIDE DEF g
  <2>4. h[x] = Step[g][x]
    BY <2>2 DEF Follows
  <2> QED
    BY <2>3, <2>4
<1>2. \A x \in S : x \in T
  <2> HIDE DEF T
  <2>1. rank \in [S -> Nat]
    BY DEF Recursion
  <2> QED
    BY <2>1, <1>1, RankInduction
<1> QED
  BY <1>2 DEF Follows

-----------------------------------------------------------------------------
(* Searching a graph.  A state of the search is what has been found and what  *)
(* is still to do; V are the nodes, succ their successors, among which may be *)
(* what is no node.                                                           *)

Items(s) == {s[i] : i \in DOMAIN s}

States(P) == Seq(P) \X Seq(P)

SearchStep(V, succ, D, st) ==
    IF st[2] = <<>> THEN st[1]
    ELSE IF Head(st[2]) \in Items(st[1]) \/ Head(st[2]) \notin V
    THEN D[<<st[1], Tail(st[2])>>]
    ELSE D[<<Append(st[1], Head(st[2])), succ[Head(st[2])] \o Tail(st[2])>>]

IsSearch(D, P, V, succ) == D = [st \in States(P) |-> SearchStep(V, succ, D, st)]

\* Finitely many nodes, with at most b successors.
Searchable(P, V, succ, b) ==
    /\ V \subseteq P /\ IsFiniteSet(V)
    /\ succ \in [V -> Seq(P)]
    /\ b \in Nat /\ \A v \in V : Len(succ[v]) <= b

\* Each node found pays for its successors.
SearchRank(P, V, b) ==
    [st \in States(P) |-> Cardinality(V \ Items(st[1])) * (b + 1) + Len(st[2])]

LEMMA SearchSkips ==
    ASSUME NEW P, NEW V, NEW succ, NEW b, Searchable(P, V, succ, b),
           NEW st \in States(P), st[2] # <<>>
    PROVE  /\ <<st[1], Tail(st[2])>> \in States(P)
           /\ SearchRank(P, V, b)[<<st[1], Tail(st[2])>>] < SearchRank(P, V, b)[st]
<1> DEFINE next == <<st[1], Tail(st[2])>>
<1>1. st[1] \in Seq(P) /\ st[2] \in Seq(P)
  BY DEF States
<1>2. Tail(st[2]) \in Seq(P) /\ Len(Tail(st[2])) = Len(st[2]) - 1 /\ Len(st[2]) \in Nat
  BY <1>1, HeadTailProperties, LenProperties
<1>3. next \in States(P) /\ next[1] = st[1] /\ next[2] = Tail(st[2])
  BY <1>1, <1>2 DEF States
<1>4. PICK c : c = Cardinality(V \ Items(st[1])) * (b + 1)
  OBVIOUS
<1>5. c \in Nat
  <2>1. Cardinality(V \ Items(st[1])) \in Nat
    BY FS_Subset, FS_CardinalityType DEF Searchable
  <2> QED
    BY <2>1, <1>4 DEF Searchable
<1>6. /\ SearchRank(P, V, b)[next] = c + Len(Tail(st[2]))
      /\ SearchRank(P, V, b)[st] = c + Len(st[2])
  <2> HIDE DEF next
  <2> QED
    BY <1>3, <1>4 DEF SearchRank
<1> QED
  BY <1>2, <1>3, <1>5, <1>6

LEMMA RankNatural ==
    ASSUME NEW P, NEW V, NEW succ, NEW b, Searchable(P, V, succ, b)
    PROVE  SearchRank(P, V, b) \in [States(P) -> Nat]
<1> SUFFICES ASSUME NEW st \in States(P)
             PROVE  Cardinality(V \ Items(st[1])) * (b + 1) + Len(st[2]) \in Nat
  BY DEF SearchRank
<1>1. Cardinality(V \ Items(st[1])) \in Nat
  BY FS_Subset, FS_CardinalityType DEF Searchable
<1>2. st[2] \in Seq(P)
  BY DEF States
<1>3. Len(st[2]) \in Nat
  BY <1>2, LenProperties
<1>4. b + 1 \in Nat
  BY DEF Searchable
<1>5. \A n, m, l \in Nat : n * m + l \in Nat
  OBVIOUS
<1> QED
  BY <1>1, <1>3, <1>4, <1>5

\* n things at k each, and l more, after one thing has been taken.
LEMMA OneLess ==
    ASSUME NEW n \in Nat, NEW m \in Nat, m + 1 = n, NEW k \in Nat, NEW l \in Nat, NEW x \in Nat,
           x <= k
    PROVE  m * (k + 1) + (x + (l - 1)) < n * (k + 1) + l
<1>1. n * (k + 1) = m * (k + 1) + (k + 1)
  OBVIOUS
<1>2. m * (k + 1) \in Nat
  OBVIOUS
<1> QED
  BY <1>1, <1>2

LEMMA SearchFinds ==
    ASSUME NEW P, NEW V, NEW succ, NEW b, Searchable(P, V, succ, b),
           NEW st \in States(P), st[2] # <<>>,
           NEW v, v = Head(st[2]), v \in V, v \notin Items(st[1])
    PROVE  LET t == <<Append(st[1], v), succ[v] \o Tail(st[2])>> IN
           /\ t \in States(P)
           /\ SearchRank(P, V, b)[t] < SearchRank(P, V, b)[st]
<1> DEFINE t == <<Append(st[1], v), succ[v] \o Tail(st[2])>>
<1>1. st[1] \in Seq(P) /\ st[2] \in Seq(P) /\ v \in P
  BY DEF States, Searchable
<1>2. /\ Tail(st[2]) \in Seq(P) /\ Len(Tail(st[2])) = Len(st[2]) - 1
      /\ Len(st[2]) \in Nat /\ Len(st[2]) - 1 \in Nat
  BY <1>1, HeadTailProperties, LenProperties
<1>3. succ[v] \in Seq(P) /\ Len(succ[v]) \in Nat /\ Len(succ[v]) <= b /\ b \in Nat
  BY LenProperties DEF Searchable
<1>4. /\ succ[v] \o Tail(st[2]) \in Seq(P)
      /\ Len(succ[v] \o Tail(st[2])) = Len(succ[v]) + (Len(st[2]) - 1)
  <2>1. PICK r : r = Tail(st[2]) /\ r \in Seq(P) /\ Len(r) = Len(st[2]) - 1
    BY <1>2
  <2>2. PICK s : s = succ[v] /\ s \in Seq(P)
    BY <1>3
  <2>3. s \o r \in Seq(P) /\ Len(s \o r) = Len(s) + Len(r)
    BY <2>1, <2>2, ConcatProperties
  <2> QED
    BY <2>1, <2>2, <2>3
<1>5. Append(st[1], v) \in Seq(P) /\ Items(Append(st[1], v)) = Items(st[1]) \cup {v}
  <2>1. IsSeq(st[1]) /\ Len(st[1]) \in Nat /\ DOMAIN st[1] = 1 .. Len(st[1])
    BY <1>1, SeqOfAny, LenProperties
  <2>2. /\ IsSeq(Append(st[1], v)) /\ Len(Append(st[1], v)) = Len(st[1]) + 1
        /\ Append(st[1], v)[Len(st[1]) + 1] = v
        /\ \A i \in 1 .. Len(st[1]) : Append(st[1], v)[i] = st[1][i]
    BY <2>1, AppendSeq
  <2>3. Append(st[1], v) \in Seq(P)
    BY <1>1, AppendProperties
  <2>4. DOMAIN Append(st[1], v) = 1 .. Len(st[1]) + 1
    BY <2>2, <2>3, LenProperties
  <2> QED
    BY <2>1, <2>2, <2>3, <2>4 DEF Items
<1>6. t \in States(P) /\ t[1] = Append(st[1], v) /\ t[2] = succ[v] \o Tail(st[2])
  BY <1>4, <1>5 DEF States
<1>7. PICK n, m : /\ n = Cardinality(V \ Items(st[1])) /\ n \in Nat
                  /\ m = Cardinality(V \ Items(Append(st[1], v))) /\ m \in Nat
                  /\ m + 1 = n
  <2>1. IsFiniteSet(V \ Items(st[1])) /\ IsFiniteSet(V \ Items(Append(st[1], v)))
    BY FS_Subset DEF Searchable
  <2>2. V \ Items(Append(st[1], v)) = (V \ Items(st[1])) \ {v} /\ v \in V \ Items(st[1])
    BY <1>5
  <2>3. Cardinality(V \ Items(st[1])) \in Nat /\ Cardinality(V \ Items(Append(st[1], v))) \in Nat
    BY <2>1, FS_CardinalityType
  <2>4. PICK S : S = V \ Items(st[1])
    OBVIOUS
  <2>5. Cardinality(S \ {v}) = Cardinality(S) - 1
    BY <2>1, <2>2, <2>4, FS_RemoveElement
  <2>6. Cardinality(V \ Items(Append(st[1], v))) = Cardinality(V \ Items(st[1])) - 1
    BY <2>2, <2>4, <2>5
  <2>7. \A x, y \in Nat : y = x - 1 => y + 1 = x
    OBVIOUS
  <2> QED
    BY <2>3, <2>6, <2>7
<1>8. /\ SearchRank(P, V, b)[t] = m * (b + 1) + (Len(succ[v]) + (Len(st[2]) - 1))
      /\ SearchRank(P, V, b)[st] = n * (b + 1) + Len(st[2])
  <2> HIDE DEF t
  <2> QED
    BY <1>4, <1>6, <1>7 DEF SearchRank
<1>9. m * (b + 1) + (Len(succ[v]) + (Len(st[2]) - 1)) < n * (b + 1) + Len(st[2])
  BY <1>2, <1>3, <1>7, OneLess
<1> QED
  BY <1>6, <1>8, <1>9

SearchFunction(P, V, succ) ==
    [D \in [States(P) -> Seq(P)] |-> [st \in States(P) |-> SearchStep(V, succ, D, st)]]

\* One step of the search, for any two functions that agree further on.
LEMMA SearchLocal ==
    ASSUME NEW P, NEW V, NEW succ, NEW b, Searchable(P, V, succ, b),
           NEW D, NEW E, NEW st \in States(P),
           \A t \in States(P) :
               SearchRank(P, V, b)[t] < SearchRank(P, V, b)[st] => D[t] = E[t]
    PROVE  SearchStep(V, succ, D, st) = SearchStep(V, succ, E, st)
<1>1. CASE st[2] = <<>>
  BY <1>1 DEF SearchStep
<1>2. CASE st[2] # <<>> /\ (Head(st[2]) \in Items(st[1]) \/ Head(st[2]) \notin V)
  <2>1. D[<<st[1], Tail(st[2])>>] = E[<<st[1], Tail(st[2])>>]
    BY <1>2, SearchSkips
  <2> QED
    BY <1>2, <2>1 DEF SearchStep
<1>3. CASE st[2] # <<>> /\ Head(st[2]) \notin Items(st[1]) /\ Head(st[2]) \in V
  <2>1. PICK v : v = Head(st[2])
    OBVIOUS
  <2>2. PICK t : t = <<Append(st[1], v), succ[v] \o Tail(st[2])>>
    OBVIOUS
  <2>3. t \in States(P) /\ SearchRank(P, V, b)[t] < SearchRank(P, V, b)[st]
    BY <1>3, <2>1, <2>2, SearchFinds
  <2>4. D[t] = E[t]
    BY <2>3
  <2>5. SearchStep(V, succ, D, st) = D[t] /\ SearchStep(V, succ, E, st) = E[t]
    BY <1>3, <2>1, <2>2 DEF SearchStep
  <2> QED
    BY <2>4, <2>5
<1> QED
  BY <1>1, <1>2, <1>3

\* The search ends, and what it finds is a sequence.
LEMMA SearchTyped ==
    ASSUME NEW P, NEW V, NEW succ, NEW b, Searchable(P, V, succ, b),
           NEW D \in [States(P) -> Seq(P)], NEW st \in States(P)
    PROVE  SearchStep(V, succ, D, st) \in Seq(P)
<1>1. st[1] \in Seq(P)
  BY DEF States
<1>2. CASE st[2] = <<>>
  BY <1>1, <1>2 DEF SearchStep
<1>3. CASE st[2] # <<>> /\ (Head(st[2]) \in Items(st[1]) \/ Head(st[2]) \notin V)
  <2>1. <<st[1], Tail(st[2])>> \in States(P)
    BY <1>3, SearchSkips
  <2> QED
    BY <1>3, <2>1 DEF SearchStep
<1>4. CASE st[2] # <<>> /\ Head(st[2]) \notin Items(st[1]) /\ Head(st[2]) \in V
  <2>1. <<Append(st[1], Head(st[2])), succ[Head(st[2])] \o Tail(st[2])>> \in States(P)
    BY <1>4, SearchFinds
  <2> QED
    BY <1>4, <2>1 DEF SearchStep
<1> QED
  BY <1>2, <1>3, <1>4

LEMMA SearchRecursion ==
    ASSUME NEW P, NEW V, NEW succ, NEW b, Searchable(P, V, succ, b)
    PROVE  Recursion(States(P), Seq(P), SearchRank(P, V, b), SearchFunction(P, V, succ))
<1> DEFINE S == States(P)
           F == SearchFunction(P, V, succ)
<1>1. Seq(P) # {}
  BY EmptySeq
<1>2. F \in [[S -> Seq(P)] -> [S -> Seq(P)]]
  BY SearchTyped DEF SearchFunction
<1>3. \A D \in [S -> Seq(P)] : \A st \in S : F[D][st] = SearchStep(V, succ, D, st)
  BY DEF SearchFunction
<1>4. ASSUME NEW D \in [S -> Seq(P)], NEW E \in [S -> Seq(P)], NEW st \in S,
             \A t \in S : SearchRank(P, V, b)[t] < SearchRank(P, V, b)[st] => D[t] = E[t]
      PROVE  F[D][st] = F[E][st]
  <2>1. SearchStep(V, succ, D, st) = SearchStep(V, succ, E, st)
    BY <1>4, SearchLocal
  <2> QED
    BY <1>3, <2>1
<1>5. Descends(S, Seq(P), SearchRank(P, V, b), F)
  <2> HIDE DEF S, F
  <2> QED
    BY <1>4 DEF Descends
<1> QED
  BY <1>1, <1>2, <1>5, RankNatural DEF Recursion

LEMMA SearchExists ==
    ASSUME NEW P, NEW V, NEW succ, NEW b, Searchable(P, V, succ, b)
    PROVE  \E D : IsSearch(D, P, V, succ)
<1>1. Solvable(States(P), Seq(P), SearchFunction(P, V, succ))
  BY SearchRecursion, RecursionExists
<1>2. PICK D \in [States(P) -> Seq(P)] : D = SearchFunction(P, V, succ)[D]
  BY <1>1 DEF Solvable
<1>3. SearchFunction(P, V, succ)[D] = [st \in States(P) |-> SearchStep(V, succ, D, st)]
  BY DEF SearchFunction
<1> QED
  BY <1>2, <1>3 DEF IsSearch

LEMMA SearchType ==
    ASSUME NEW P, NEW V, NEW succ, NEW b, Searchable(P, V, succ, b),
           NEW D, IsSearch(D, P, V, succ)
    PROVE  D \in [States(P) -> Seq(P)]
<1>1. ASSUME NEW E \in [States(P) -> Seq(P)], NEW st \in States(P),
             \A t \in States(P) :
                 SearchRank(P, V, b)[t] < SearchRank(P, V, b)[st] => D[t] = E[t]
      PROVE  D[st] = SearchFunction(P, V, succ)[E][st]
  <2>1. SearchStep(V, succ, D, st) = SearchStep(V, succ, E, st)
    BY <1>1, SearchLocal
  <2>2. D[st] = SearchStep(V, succ, D, st)
    BY DEF IsSearch
  <2>3. SearchFunction(P, V, succ)[E][st] = SearchStep(V, succ, E, st)
    BY DEF SearchFunction
  <2> QED
    BY <2>1, <2>2, <2>3
<1>2. D = [st \in States(P) |-> D[st]]
  BY DEF IsSearch
<1>3. Follows(D, States(P), Seq(P), SearchRank(P, V, b), SearchFunction(P, V, succ))
  BY <1>1, <1>2 DEF Follows
<1> QED
  BY <1>3, SearchRecursion, RecursionType

LEMMA AppendItems ==
    ASSUME NEW P, NEW s \in Seq(P), NEW v \in P
    PROVE  Append(s, v) \in Seq(P) /\ Items(Append(s, v)) = Items(s) \cup {v}
<1>1. IsSeq(s) /\ Len(s) \in Nat /\ DOMAIN s = 1 .. Len(s)
  BY SeqOfAny, LenProperties
<1>2. /\ IsSeq(Append(s, v)) /\ Len(Append(s, v)) = Len(s) + 1
      /\ Append(s, v)[Len(s) + 1] = v
      /\ \A i \in 1 .. Len(s) : Append(s, v)[i] = s[i]
  BY <1>1, AppendSeq
<1>3. Append(s, v) \in Seq(P)
  BY AppendProperties
<1>4. DOMAIN Append(s, v) = 1 .. Len(s) + 1
  BY <1>2, <1>3, LenProperties
<1> QED
  BY <1>1, <1>2, <1>3, <1>4 DEF Items

LEMMA ConcatItems ==
    ASSUME NEW P, NEW s \in Seq(P), NEW t \in Seq(P)
    PROVE  s \o t \in Seq(P) /\ Items(s \o t) = Items(s) \cup Items(t)
<1>1. Len(s) \in Nat /\ Len(t) \in Nat /\ DOMAIN s = 1 .. Len(s) /\ DOMAIN t = 1 .. Len(t)
  BY LenProperties
<1>2. IsSeq(s) /\ IsSeq(t)
  BY SeqOfAny
<1>3. /\ IsSeq(s \o t) /\ Len(s \o t) = Len(s) + Len(t)
      /\ \A i \in 1 .. Len(s) : (s \o t)[i] = s[i]
      /\ \A i \in 1 .. Len(t) : (s \o t)[Len(s) + i] = t[i]
  BY <1>2, ConcatSeq
<1>4. s \o t \in Seq(P) /\ DOMAIN (s \o t) = 1 .. Len(s) + Len(t)
  BY <1>3, ConcatProperties, LenProperties
<1>5. ASSUME NEW x \in Items(s) \cup Items(t) PROVE x \in Items(s \o t)
  <2>1. CASE \E i \in 1 .. Len(s) : x = s[i]
    <3>1. PICK i \in 1 .. Len(s) : x = s[i]
      BY <2>1
    <3>2. i \in DOMAIN (s \o t) /\ (s \o t)[i] = x
      BY <1>1, <1>3, <1>4, <3>1
    <3> QED
      BY <3>2 DEF Items
  <2>2. CASE \E i \in 1 .. Len(t) : x = t[i]
    <3>1. PICK i \in 1 .. Len(t) : x = t[i]
      BY <2>2
    <3>2. Len(s) + i \in DOMAIN (s \o t) /\ (s \o t)[Len(s) + i] = x
      BY <1>1, <1>3, <1>4, <3>1
    <3> QED
      BY <3>2 DEF Items
  <2> QED
    BY <1>1, <1>5, <2>1, <2>2 DEF Items
<1>6. ASSUME NEW i \in 1 .. Len(s) + Len(t)
      PROVE  (s \o t)[i] \in Items(s) \cup Items(t)
  <2>1. CASE i <= Len(s)
    BY <1>1, <1>3, <2>1 DEF Items
  <2>2. CASE ~ (i <= Len(s))
    <3>1. PICK j \in 1 .. Len(t) : i = Len(s) + j
      <4>1. i - Len(s) \in 1 .. Len(t) /\ i = Len(s) + (i - Len(s))
        BY <1>1, <2>2
      <4> QED
        BY <4>1
    <3> QED
      BY <1>1, <1>3, <3>1 DEF Items
  <2> QED
    BY <2>1, <2>2
<1>7. \A x \in Items(s \o t) : x \in Items(s) \cup Items(t)
  BY <1>4, <1>6 DEF Items
<1> QED
  BY <1>4, <1>5, <1>7

LEMMA HeadItems ==
    ASSUME NEW P, NEW s \in Seq(P), s # <<>>
    PROVE  /\ Head(s) \in P /\ Tail(s) \in Seq(P) /\ Items(s) = {Head(s)} \cup Items(Tail(s))
           /\ Len(Tail(s)) = Len(s) - 1 /\ Head(s) = s[1]
           /\ \A i \in 1 .. Len(Tail(s)) : Tail(s)[i] = s[i + 1]
<1>1. Len(s) \in Nat /\ DOMAIN s = 1 .. Len(s) /\ Len(s) >= 1
  BY LenProperties, EmptySeq
<1>2. /\ Head(s) \in P /\ Tail(s) \in Seq(P) /\ Len(Tail(s)) = Len(s) - 1 /\ Head(s) = s[1]
      /\ \A i \in 1 .. Len(Tail(s)) : Tail(s)[i] = s[i + 1]
  BY HeadTailProperties, <1>1
<1>3. DOMAIN Tail(s) = 1 .. Len(s) - 1
  BY <1>2, LenProperties
<1>4. \A i \in 2 .. Len(s) : i - 1 \in 1 .. Len(s) - 1 /\ s[i] = Tail(s)[i - 1]
  <2> TAKE i \in 2 .. Len(s)
  <2>1. i - 1 \in 1 .. Len(Tail(s)) /\ (i - 1) + 1 = i
    BY <1>1, <1>2
  <2> QED
    BY <2>1, <1>2
<1>5. \A i \in 1 .. Len(s) : i = 1 \/ i \in 2 .. Len(s)
  BY <1>1
<1>6. \A x \in Items(s) : x \in {Head(s)} \cup Items(Tail(s))
  <2>1. ASSUME NEW i \in 1 .. Len(s) PROVE s[i] \in {Head(s)} \cup Items(Tail(s))
    <3>1. CASE i = 1
      BY <1>2, <3>1
    <3>2. CASE i \in 2 .. Len(s)
      BY <1>2, <1>3, <1>4, <3>2 DEF Items
    <3> QED
      BY <1>5, <3>1, <3>2
  <2> QED
    BY <1>1, <2>1 DEF Items
<1>7. \A i \in 1 .. Len(s) - 1 : i + 1 \in 1 .. Len(s)
  BY <1>1
<1>8. \A x \in {Head(s)} \cup Items(Tail(s)) : x \in Items(s)
  BY <1>1, <1>2, <1>3, <1>7 DEF Items
<1> QED
  BY <1>2, <1>6, <1>8

LEMMA NoItems == Items(<<>>) = {}
  BY DEF Items

\* All that is to be done is found, with all that it leads to, and nothing is found
\* that leads to what is not.
Closes(V, succ, found, f, t) ==
    /\ Items(f) \subseteq found
    /\ Items(t) \cap V \subseteq found
    /\ \A v \in found : v \notin Items(f) => v \in V /\ Items(succ[v]) \cap V \subseteq found

LEMMA ClosesSkipped ==
    ASSUME NEW P, NEW V, NEW succ, NEW found, NEW f, NEW t \in Seq(P), t # <<>>,
           Head(t) \in Items(f) \/ Head(t) \notin V, Closes(V, succ, found, f, Tail(t))
    PROVE  Closes(V, succ, found, f, t)
<1>1. Items(t) = {Head(t)} \cup Items(Tail(t))
  BY HeadItems
<1> QED
  BY <1>1 DEF Closes

LEMMA ClosesFound ==
    ASSUME NEW P, NEW V, NEW succ, NEW found, NEW f \in Seq(P), NEW t \in Seq(P), t # <<>>,
           NEW v, v = Head(t), v \in V, v \notin Items(f), succ[v] \in Seq(P),
           Closes(V, succ, found, Append(f, v), succ[v] \o Tail(t))
    PROVE  Closes(V, succ, found, f, t)
<1>1. Items(t) = {v} \cup Items(Tail(t)) /\ Tail(t) \in Seq(P) /\ v \in P
  BY HeadItems
<1>2. Items(Append(f, v)) = Items(f) \cup {v}
  BY <1>1, AppendItems
<1>3. Items(succ[v] \o Tail(t)) = Items(succ[v]) \cup Items(Tail(t))
  <2>1. \A p, q \in Seq(P) : Items(p \o q) = Items(p) \cup Items(q)
    BY ConcatItems
  <2> QED
    BY <1>1, <2>1
<1> QED
  BY <1>1, <1>2, <1>3 DEF Closes

LEMMA SearchCloses ==
    ASSUME NEW P, NEW V, NEW succ, NEW b, Searchable(P, V, succ, b),
           NEW D, IsSearch(D, P, V, succ)
    PROVE  \A st \in States(P) : Closes(V, succ, Items(D[st]), st[1], st[2])
<1> DEFINE T == {st \in States(P) : Closes(V, succ, Items(D[st]), st[1], st[2])}
<1>1. ASSUME NEW st \in States(P),
             \A r \in States(P) : SearchRank(P, V, b)[r] < SearchRank(P, V, b)[st] => r \in T
      PROVE  Closes(V, succ, Items(D[st]), st[1], st[2])
  <2>1. D[st] = SearchStep(V, succ, D, st) /\ st[1] \in Seq(P) /\ st[2] \in Seq(P)
    BY DEF IsSearch, States
  <2>2. CASE st[2] = <<>>
    <3>1. D[st] = st[1]
      BY <2>1, <2>2 DEF SearchStep
    <3> QED
      BY <2>2, <3>1, NoItems DEF Closes
  <2>3. CASE st[2] # <<>> /\ (Head(st[2]) \in Items(st[1]) \/ Head(st[2]) \notin V)
    <3>1. PICK r : r = <<st[1], Tail(st[2])>>
      OBVIOUS
    <3>2. r \in States(P) /\ SearchRank(P, V, b)[r] < SearchRank(P, V, b)[st]
      BY <2>3, <3>1, SearchSkips
    <3>3. D[st] = D[r] /\ r[1] = st[1] /\ r[2] = Tail(st[2])
      BY <2>1, <2>3, <3>1 DEF SearchStep
    <3>4. Closes(V, succ, Items(D[r]), r[1], r[2])
      BY <1>1, <3>2
    <3> QED
      BY <2>1, <2>3, <3>3, <3>4, ClosesSkipped
  <2>4. CASE st[2] # <<>> /\ Head(st[2]) \notin Items(st[1]) /\ Head(st[2]) \in V
    <3>1. PICK v : v = Head(st[2]) /\ v \in V /\ v \notin Items(st[1])
      BY <2>4
    <3>2. PICK r : r = <<Append(st[1], v), succ[v] \o Tail(st[2])>>
      OBVIOUS
    <3>3. r \in States(P) /\ SearchRank(P, V, b)[r] < SearchRank(P, V, b)[st]
      BY <2>4, <3>1, <3>2, SearchFinds
    <3>4. D[st] = D[r] /\ r[1] = Append(st[1], v) /\ r[2] = succ[v] \o Tail(st[2])
      BY <2>1, <2>4, <3>1, <3>2 DEF SearchStep
    <3>5. Closes(V, succ, Items(D[r]), r[1], r[2])
      BY <1>1, <3>3
    <3>6. succ[v] \in Seq(P)
      BY <3>1 DEF Searchable
    <3> QED
      BY <2>1, <2>4, <3>1, <3>4, <3>5, <3>6, ClosesFound
  <2> QED
    BY <2>2, <2>3, <2>4
<1>2. SearchRank(P, V, b) \in [States(P) -> Nat]
  BY RankNatural
<1>3. \A st \in States(P) :
          (\A r \in States(P) : SearchRank(P, V, b)[r] < SearchRank(P, V, b)[st] => r \in T)
          => st \in T
  BY <1>1
<1> HIDE DEF T
<1>4. \A st \in States(P) : st \in T
  BY <1>2, <1>3, RankInduction
<1> QED
  BY <1>4 DEF T

\* Nothing is found that is in no closed set: what holds of what is to be done, and
\* of what it leads to, holds of all that is found.
StaysIn(V, C, found, f, t) ==
    Items(f) \subseteq C /\ Items(t) \cap V \subseteq C => found \subseteq C

LEMMA SearchStaysIn ==
    ASSUME NEW P, NEW V, NEW succ, NEW b, Searchable(P, V, succ, b),
           NEW D, IsSearch(D, P, V, succ), NEW C,
           \A v \in V : v \in C => Items(succ[v]) \cap V \subseteq C
    PROVE  \A st \in States(P) : StaysIn(V, C, Items(D[st]), st[1], st[2])
<1> DEFINE T == {st \in States(P) : StaysIn(V, C, Items(D[st]), st[1], st[2])}
<1>1. ASSUME NEW st \in States(P),
             \A r \in States(P) : SearchRank(P, V, b)[r] < SearchRank(P, V, b)[st] => r \in T
      PROVE  StaysIn(V, C, Items(D[st]), st[1], st[2])
  <2>1. D[st] = SearchStep(V, succ, D, st) /\ st[1] \in Seq(P) /\ st[2] \in Seq(P)
    BY DEF IsSearch, States
  <2>2. CASE st[2] = <<>>
    <3>1. D[st] = st[1]
      BY <2>1, <2>2 DEF SearchStep
    <3> QED
      BY <3>1 DEF StaysIn
  <2>3. CASE st[2] # <<>> /\ (Head(st[2]) \in Items(st[1]) \/ Head(st[2]) \notin V)
    <3>1. PICK r : r = <<st[1], Tail(st[2])>>
      OBVIOUS
    <3>2. r \in States(P) /\ SearchRank(P, V, b)[r] < SearchRank(P, V, b)[st]
      BY <2>3, <3>1, SearchSkips
    <3>3. D[st] = D[r] /\ r[1] = st[1] /\ r[2] = Tail(st[2])
      BY <2>1, <2>3, <3>1 DEF SearchStep
    <3>4. StaysIn(V, C, Items(D[r]), r[1], r[2])
      BY <1>1, <3>2
    <3>5. Items(st[2]) = {Head(st[2])} \cup Items(Tail(st[2]))
      BY <2>1, <2>3, HeadItems
    <3> QED
      BY <3>3, <3>4, <3>5 DEF StaysIn
  <2>4. CASE st[2] # <<>> /\ Head(st[2]) \notin Items(st[1]) /\ Head(st[2]) \in V
    <3>1. PICK v : v = Head(st[2]) /\ v \in V /\ v \notin Items(st[1])
      BY <2>4
    <3>2. PICK r : r = <<Append(st[1], v), succ[v] \o Tail(st[2])>>
      OBVIOUS
    <3>3. r \in States(P) /\ SearchRank(P, V, b)[r] < SearchRank(P, V, b)[st]
      BY <2>4, <3>1, <3>2, SearchFinds
    <3>4. D[st] = D[r] /\ r[1] = Append(st[1], v) /\ r[2] = succ[v] \o Tail(st[2])
      BY <2>1, <2>4, <3>1, <3>2 DEF SearchStep
    <3>5. StaysIn(V, C, Items(D[r]), r[1], r[2])
      BY <1>1, <3>3
    <3>6. Items(st[2]) = {v} \cup Items(Tail(st[2])) /\ Tail(st[2]) \in Seq(P) /\ v \in P
      BY <2>1, <2>4, <3>1, HeadItems
    <3>7. Items(Append(st[1], v)) = Items(st[1]) \cup {v}
      BY <2>1, <3>6, AppendItems
    <3>8. Items(succ[v] \o Tail(st[2])) = Items(succ[v]) \cup Items(Tail(st[2]))
      <4>1. succ[v] \in Seq(P)
        BY <3>1 DEF Searchable
      <4>2. \A p, q \in Seq(P) : Items(p \o q) = Items(p) \cup Items(q)
        BY ConcatItems
      <4> QED
        BY <3>6, <4>1, <4>2
    <3>9. v \in C => Items(succ[v]) \cap V \subseteq C
      BY <3>1
    <3> QED
      BY <3>1, <3>4, <3>5, <3>6, <3>7, <3>8, <3>9 DEF StaysIn
  <2> QED
    BY <2>2, <2>3, <2>4
<1>2. SearchRank(P, V, b) \in [States(P) -> Nat]
  BY RankNatural
<1>3. \A st \in States(P) :
          (\A r \in States(P) : SearchRank(P, V, b)[r] < SearchRank(P, V, b)[st] => r \in T)
          => st \in T
  BY <1>1
<1> HIDE DEF T
<1>4. \A st \in States(P) : st \in T
  BY <1>2, <1>3, RankInduction
<1> QED
  BY <1>4 DEF T

-----------------------------------------------------------------------------
(* Two graphs that are the same but for the names of the nodes. *)

\* s with each of its elements renamed.
Renamed(phi, s) == [i \in DOMAIN s |-> phi[s[i]]]

Renaming(phi, B, P) == phi \in [B -> P]

LEMMA RenamedSeq ==
    ASSUME NEW B, NEW P, NEW phi, Renaming(phi, B, P), NEW s \in Seq(B)
    PROVE  /\ Renamed(phi, s) \in Seq(P) /\ Len(Renamed(phi, s)) = Len(s)
           /\ Len(s) \in Nat
           /\ \A i \in 1 .. Len(s) : s[i] \in B /\ Renamed(phi, s)[i] = phi[s[i]]
<1>1. Len(s) \in Nat /\ DOMAIN s = 1 .. Len(s) /\ \A i \in 1 .. Len(s) : s[i] \in B
  BY LenProperties, ElementOfSeq
<1>2. Renamed(phi, s) = [i \in 1 .. Len(s) |-> phi[s[i]]]
  BY <1>1 DEF Renamed
<1>3. Renamed(phi, s) \in [1 .. Len(s) -> P]
  BY <1>1, <1>2 DEF Renaming
<1>4. Renamed(phi, s) \in Seq(P)
  BY <1>1, <1>3, SeqDef
<1>5. DOMAIN Renamed(phi, s) = 1 .. Len(s)
  BY <1>2
<1>6. Len(Renamed(phi, s)) = Len(s)
  BY <1>1, <1>4, <1>5, LenProperties
<1> QED
  BY <1>1, <1>2, <1>4, <1>6

LEMMA RenamedEmpty ==
    ASSUME NEW B, NEW P, NEW phi, Renaming(phi, B, P), NEW s \in Seq(B)
    PROVE  Renamed(phi, s) = <<>> <=> s = <<>>
<1>1. /\ Renamed(phi, s) \in Seq(P) /\ Len(Renamed(phi, s)) = Len(s)
  BY RenamedSeq
<1> QED
  BY <1>1, EmptySeq

LEMMA RenamedTail ==
    ASSUME NEW B, NEW P, NEW phi, Renaming(phi, B, P), NEW s \in Seq(B), s # <<>>
    PROVE  Head(Renamed(phi, s)) = phi[Head(s)] /\ Tail(Renamed(phi, s)) = Renamed(phi, Tail(s))
<1>1. PICK r : r = Renamed(phi, s)
  OBVIOUS
<1>2. PICK t : t = Tail(s)
  OBVIOUS
<1>3. PICK u : u = Renamed(phi, t)
  OBVIOUS
<1>4. PICK q : q = Tail(r)
  OBVIOUS
<1>5. /\ r \in Seq(P) /\ Len(r) = Len(s) /\ r # <<>> /\ Len(s) \in Nat /\ Len(s) >= 1
      /\ \A i \in 1 .. Len(s) : s[i] \in B /\ r[i] = phi[s[i]]
  BY <1>1, RenamedSeq, RenamedEmpty, EmptySeq
<1>6. /\ t \in Seq(B) /\ Len(t) = Len(s) - 1 /\ Head(s) = s[1]
      /\ \A i \in 1 .. Len(t) : t[i] = s[i + 1]
  BY <1>2, HeadItems
<1>7. /\ Head(r) = r[1] /\ q \in Seq(P) /\ Len(q) = Len(r) - 1
      /\ \A i \in 1 .. Len(q) : q[i] = r[i + 1]
  BY <1>4, <1>5, HeadItems
<1>8. /\ u \in Seq(P) /\ Len(u) = Len(t) /\ \A i \in 1 .. Len(t) : u[i] = phi[t[i]]
  BY <1>3, <1>6, RenamedSeq
<1>9. Head(r) = phi[Head(s)]
  BY <1>5, <1>6, <1>7
<1>10. ASSUME NEW i \in 1 .. Len(s) - 1 PROVE q[i] = u[i]
  <2>1. i + 1 \in 1 .. Len(s) /\ i \in 1 .. Len(t) /\ i \in 1 .. Len(q)
    BY <1>5, <1>6, <1>7
  <2>2. q[i] = r[i + 1] /\ r[i + 1] = phi[s[i + 1]] /\ t[i] = s[i + 1]
    BY <2>1, <1>5, <1>6, <1>7
  <2> QED
    BY <1>8, <2>1, <2>2
<1>11. q = u
  BY <1>5, <1>6, <1>7, <1>8, <1>10, SeqEqual
<1> QED
  BY <1>1, <1>2, <1>3, <1>4, <1>9, <1>11

LEMMA RenamedConcat ==
    ASSUME NEW B, NEW P, NEW phi, Renaming(phi, B, P), NEW s \in Seq(B), NEW t \in Seq(B)
    PROVE  Renamed(phi, s \o t) = Renamed(phi, s) \o Renamed(phi, t)
<1>1. PICK r : r = Renamed(phi, s)
  OBVIOUS
<1>2. PICK u : u = Renamed(phi, t)
  OBVIOUS
<1>3. PICK c : c = s \o t
  OBVIOUS
<1>4. PICK v : v = Renamed(phi, c)
  OBVIOUS
<1>5. PICK w : w = r \o u
  OBVIOUS
<1>6. PICK n, m : n = Len(s) /\ m = Len(t) /\ n \in Nat /\ m \in Nat
  BY LenProperties
<1>7. /\ r \in Seq(P) /\ Len(r) = n
      /\ \A i \in 1 .. n : r[i] = phi[s[i]]
  BY <1>1, <1>6, RenamedSeq
<1>8. /\ u \in Seq(P) /\ Len(u) = m
      /\ \A i \in 1 .. m : u[i] = phi[t[i]]
  BY <1>2, <1>6, RenamedSeq
<1>9. /\ c \in Seq(B) /\ Len(c) = n + m
      /\ \A i \in 1 .. n + m : c[i] = IF i <= n THEN s[i] ELSE t[i - n]
  BY <1>3, <1>6, ConcatProperties
<1>10. /\ v \in Seq(P) /\ Len(v) = n + m /\ \A i \in 1 .. n + m : v[i] = phi[c[i]]
  BY <1>4, <1>9, RenamedSeq
<1>11. /\ w \in Seq(P) /\ Len(w) = n + m
       /\ \A i \in 1 .. n + m : w[i] = IF i <= n THEN r[i] ELSE u[i - n]
  <2>1. /\ r \o u \in Seq(P) /\ Len(r \o u) = Len(r) + Len(u)
        /\ \A i \in 1 .. Len(r) + Len(u) :
               (r \o u)[i] = IF i <= Len(r) THEN r[i] ELSE u[i - Len(r)]
    <3>1. r \in Seq(P) /\ u \in Seq(P)
      BY <1>7, <1>8
    <3> QED
      BY <3>1, ConcatProperties
  <2> QED
    BY <1>5, <1>7, <1>8, <2>1
<1>12. ASSUME NEW i \in 1 .. n + m PROVE v[i] = w[i]
  <2>1. CASE i <= n
    <3>1. i \in 1 .. n
      BY <1>6, <2>1
    <3>2. v[i] = phi[c[i]] /\ c[i] = s[i] /\ w[i] = r[i] /\ r[i] = phi[s[i]]
      BY <1>7, <1>9, <1>10, <1>11, <2>1, <3>1
    <3> QED
      BY <3>2
  <2>2. CASE ~ (i <= n)
    <3>1. i - n \in 1 .. m
      BY <1>6, <2>2
    <3>2. v[i] = phi[c[i]] /\ c[i] = t[i - n] /\ w[i] = u[i - n] /\ u[i - n] = phi[t[i - n]]
      BY <1>8, <1>9, <1>10, <1>11, <2>2, <3>1
    <3> QED
      BY <3>2
  <2> QED
    BY <2>1, <2>2
<1>13. v = w
  BY <1>10, <1>11, <1>12, SeqEqual
<1> QED
  BY <1>1, <1>2, <1>3, <1>4, <1>5, <1>13

LEMMA RenamedAppend ==
    ASSUME NEW B, NEW P, NEW phi, Renaming(phi, B, P), NEW s \in Seq(B), NEW x \in B
    PROVE  Renamed(phi, Append(s, x)) = Append(Renamed(phi, s), phi[x])
<1> DEFINE a == Append(s, x)
           r == Renamed(phi, s)
           v == Renamed(phi, Append(s, x))
           w == Append(Renamed(phi, s), phi[x])
<1>1. /\ r \in Seq(P) /\ Len(r) = Len(s) /\ Len(s) \in Nat /\ phi[x] \in P
      /\ \A i \in 1 .. Len(s) : r[i] = phi[s[i]]
  <2>1. phi[x] \in P
    BY DEF Renaming
  <2> QED
    BY <2>1, RenamedSeq
<1>2. /\ a \in Seq(B) /\ Len(a) = Len(s) + 1 /\ a[Len(s) + 1] = x
      /\ \A i \in 1 .. Len(s) : a[i] = s[i]
  BY AppendProperties, SeqOfAny, AppendSeq
<1>3. /\ v \in Seq(P) /\ Len(v) = Len(a) /\ \A i \in 1 .. Len(a) : v[i] = phi[a[i]]
  <2> HIDE DEF a
  <2>1. Renamed(phi, a) = v
    BY DEF a
  <2> QED
    BY <1>2, <2>1, RenamedSeq
<1>4. /\ w \in Seq(P) /\ Len(w) = Len(r) + 1 /\ w[Len(r) + 1] = phi[x]
      /\ \A i \in 1 .. Len(r) : w[i] = r[i]
  <2> HIDE DEF r
  <2>1. w = Append(r, phi[x])
    BY DEF r
  <2> HIDE DEF w
  <2> QED
    BY <1>1, <2>1, AppendProperties, SeqOfAny, AppendSeq
<1> HIDE DEF a, r, v, w
<1>5. ASSUME NEW i \in 1 .. Len(s) + 1 PROVE v[i] = w[i]
  <2>1. CASE i = Len(s) + 1
    BY <1>1, <1>2, <1>3, <1>4, <2>1
  <2>2. CASE i # Len(s) + 1
    <3>1. i \in 1 .. Len(s)
      BY <1>1, <2>2
    <3> QED
      BY <1>1, <1>2, <1>3, <1>4, <3>1
  <2> QED
    BY <2>1, <2>2
<1>6. v = w
  BY <1>1, <1>2, <1>3, <1>4, <1>5, SeqEqual
<1> QED
  BY <1>6 DEF v, w

\* phi takes the part A of one graph to a part of another; what else is in B is a node
\* of neither.
SameSearch(A, B, P, V, W, succ, succ2, phi) ==
    /\ A \subseteq B /\ A \subseteq V /\ Renaming(phi, B, P)
    /\ \A x \in B \ A : x \notin V /\ phi[x] \notin W
    /\ \A a \in A : /\ phi[a] \in W /\ succ[a] \in Seq(B)
                    /\ succ2[phi[a]] = Renamed(phi, succ[a])
    /\ \A a, c \in A : phi[a] = phi[c] => a = c

LEMMA RenamedItem ==
    ASSUME NEW A, NEW P, NEW phi, Renaming(phi, A, P), \A a, c \in A : phi[a] = phi[c] => a = c,
           NEW s \in Seq(A), NEW x \in A
    PROVE  phi[x] \in Items(Renamed(phi, s)) <=> x \in Items(s)
<1>1. /\ Renamed(phi, s) \in Seq(P) /\ Len(Renamed(phi, s)) = Len(s)
      /\ \A i \in 1 .. Len(s) : s[i] \in A /\ Renamed(phi, s)[i] = phi[s[i]]
  BY RenamedSeq
<1>2. DOMAIN s = 1 .. Len(s) /\ DOMAIN Renamed(phi, s) = 1 .. Len(s)
  BY <1>1, LenProperties
<1>3. \A i \in 1 .. Len(s) : Renamed(phi, s)[i] = phi[x] <=> s[i] = x
  BY <1>1
<1> QED
  BY <1>2, <1>3 DEF Items

LEMMA RenamedFound ==
    ASSUME NEW A, NEW B, A \subseteq B, NEW P, NEW phi, Renaming(phi, B, P),
           \A a, c \in A : phi[a] = phi[c] => a = c,
           NEW s \in Seq(A), NEW x \in A
    PROVE  phi[x] \in Items(Renamed(phi, s)) <=> x \in Items(s)
<1>1. PICK psi : psi = [a \in A |-> phi[a]]
  OBVIOUS
<1>2. \A i \in DOMAIN s : s[i] \in A
  BY LenProperties
<1>3. Renaming(psi, A, P) /\ Renamed(phi, s) = Renamed(psi, s)
  BY <1>1, <1>2 DEF Renaming, Renamed
<1>4. \A a \in A : psi[a] = phi[a]
  BY <1>1
<1>5. psi[x] \in Items(Renamed(psi, s)) <=> x \in Items(s)
  BY <1>3, <1>4, RenamedItem
<1> QED
  BY <1>3, <1>4, <1>5

LEMMA SearchRenamed ==
    ASSUME NEW P, NEW V, NEW succ, NEW b, Searchable(P, V, succ, b), NEW D, IsSearch(D, P, V, succ),
           NEW W, NEW succ2, NEW E, IsSearch(E, P, W, succ2),
           NEW A, NEW B, NEW phi, SameSearch(A, B, P, V, W, succ, succ2, phi), B \subseteq P
    PROVE  \A st \in States(P) : st[1] \in Seq(A) /\ st[2] \in Seq(B) =>
               /\ D[st] \in Seq(A)
               /\ E[<<Renamed(phi, st[1]), Renamed(phi, st[2])>>] = Renamed(phi, D[st])
<1> DEFINE Good(st) ==
        st[1] \in Seq(A) /\ st[2] \in Seq(B) =>
            /\ D[st] \in Seq(A)
            /\ E[<<Renamed(phi, st[1]), Renamed(phi, st[2])>>] = Renamed(phi, D[st])
           T == {st \in States(P) : Good(st)}
<1>1. ASSUME NEW st \in States(P), st[1] \in Seq(A), st[2] \in Seq(B),
             \A r \in States(P) : SearchRank(P, V, b)[r] < SearchRank(P, V, b)[st] => Good(r)
      PROVE  /\ D[st] \in Seq(A)
             /\ E[<<Renamed(phi, st[1]), Renamed(phi, st[2])>>] = Renamed(phi, D[st])
  <2>1. PICK f, t, g, u : /\ f = st[1] /\ t = st[2] /\ f \in Seq(A) /\ t \in Seq(B)
                          /\ g = Renamed(phi, f) /\ u = Renamed(phi, t)
    BY <1>1
  <2>2. PICK q : q = <<g, u>>
    OBVIOUS
  <2>3. /\ A \subseteq B /\ Renaming(phi, B, P) /\ \A a, c \in A : phi[a] = phi[c] => a = c
        /\ f \in Seq(B)
    <3>1. A \subseteq B /\ Renaming(phi, B, P) /\ \A a, c \in A : phi[a] = phi[c] => a = c
      BY DEF SameSearch
    <3> QED
      BY <2>1, <3>1, SeqMonotonic
  <2>4. q \in States(P) /\ q[1] = g /\ q[2] = u
    <3>1. g \in Seq(P) /\ u \in Seq(P)
      BY <2>1, <2>3, RenamedSeq
    <3> QED
      BY <2>2, <3>1 DEF States
  <2>5. D[st] = SearchStep(V, succ, D, st) /\ E[q] = SearchStep(W, succ2, E, q)
    BY <2>4 DEF IsSearch
  <2>6. SUFFICES D[st] \in Seq(A) /\ E[q] = Renamed(phi, D[st])
    BY <2>1, <2>2
  <2>7. CASE t = <<>>
    <3>1. u = <<>>
      BY <2>1, <2>3, <2>7, RenamedEmpty
    <3>2. D[st] = f /\ E[q] = g
      BY <2>1, <2>4, <2>5, <2>7, <3>1 DEF SearchStep
    <3> QED
      BY <2>1, <3>2
  <2>8. CASE t # <<>>
    <3>1. PICK v : v = Head(t) /\ v \in B /\ Tail(t) \in Seq(B)
      BY <2>1, <2>8, HeadTailProperties
    <3>2. u # <<>> /\ Head(u) = phi[v] /\ Tail(u) = Renamed(phi, Tail(t))
      BY <2>1, <2>3, <2>8, <3>1, RenamedEmpty, RenamedTail
    <3>3. v \in V => v \in A /\ phi[v] \in W
      BY <3>1 DEF SameSearch
    <3>4. v \notin V => phi[v] \notin W
      BY <3>1 DEF SameSearch
    <3>5. v \in A => (phi[v] \in Items(g) <=> v \in Items(f))
      BY <2>1, <2>3, RenamedFound
    <3>6. CASE v \in Items(f) \/ v \notin V
      <4>1. PICK r : r = <<f, Tail(t)>>
        OBVIOUS
      <4>2. r \in States(P) /\ SearchRank(P, V, b)[r] < SearchRank(P, V, b)[st]
        BY <2>1, <2>8, <4>1, SearchSkips
      <4>3. D[st] = D[r] /\ r[1] = f /\ r[2] = Tail(t)
        BY <2>1, <2>5, <2>8, <3>1, <3>6, <4>1 DEF SearchStep
      <4>4. phi[v] \in Items(g) \/ phi[v] \notin W
        <5>1. v \in Items(f) => v \in A
          BY <2>1, LenProperties DEF Items
        <5> QED
          BY <3>4, <3>5, <3>6, <5>1
      <4>5. E[q] = E[<<g, Tail(u)>>]
        BY <2>4, <2>5, <3>2, <4>4 DEF SearchStep
      <4>6. Good(r)
        BY <1>1, <4>2
      <4>7. D[r] \in Seq(A) /\ E[<<Renamed(phi, f), Renamed(phi, Tail(t))>>] = Renamed(phi, D[r])
        BY <2>1, <3>1, <4>3, <4>6
      <4> QED
        BY <2>1, <3>2, <4>3, <4>5, <4>7
    <3>7. CASE v \notin Items(f) /\ v \in V
      <4>1. v \in A /\ phi[v] \in W /\ phi[v] \notin Items(g)
        BY <3>3, <3>5, <3>7
      <4>2. PICK k, n : k = Append(f, v) /\ n = succ[v] \o Tail(t)
        OBVIOUS
      <4>3. PICK r : r = <<k, n>>
        OBVIOUS
      <4>4. r \in States(P) /\ SearchRank(P, V, b)[r] < SearchRank(P, V, b)[st]
        <5>1. r = <<Append(st[1], v), succ[v] \o Tail(st[2])>>
          BY <2>1, <4>2, <4>3
        <5>2. st[2] # <<>> /\ v = Head(st[2]) /\ v \in V /\ v \notin Items(st[1])
          BY <2>1, <2>8, <3>1, <3>7
        <5> QED
          BY <5>1, <5>2, SearchFinds
      <4>5. D[st] = D[r] /\ r[1] = k /\ r[2] = n
        <5>1. st[2] # <<>> /\ v = Head(st[2]) /\ v \in V /\ v \notin Items(st[1])
          BY <2>1, <2>8, <3>1, <3>7
        <5>2. r = <<Append(st[1], v), succ[v] \o Tail(st[2])>>
          BY <2>1, <4>2, <4>3
        <5>3. D[st] = D[<<Append(st[1], v), succ[v] \o Tail(st[2])>>]
          BY <2>5, <5>1 DEF SearchStep
        <5>4. D[st] = D[r]
          BY <5>2, <5>3
        <5>5. r[1] = k /\ r[2] = n
          BY <4>3
        <5> QED
          BY <5>4, <5>5
      <4>6. E[q] = E[<<Append(g, phi[v]), succ2[phi[v]] \o Tail(u)>>]
        BY <2>4, <2>5, <3>2, <4>1 DEF SearchStep
      <4>7. succ[v] \in Seq(B) /\ succ2[phi[v]] = Renamed(phi, succ[v])
        BY <4>1 DEF SameSearch
      <4>8. k \in Seq(A) /\ n \in Seq(B)
        <5>1. PICK x, y : x = succ[v] /\ y = Tail(t) /\ x \in Seq(B) /\ y \in Seq(B)
          BY <3>1, <4>7
        <5>2. x \o y \in Seq(B)
          BY <5>1, ConcatProperties
        <5>3. Append(f, v) \in Seq(A)
          BY <2>1, <4>1, AppendProperties
        <5> QED
          BY <4>2, <5>1, <5>2, <5>3
      <4>9. Append(g, phi[v]) = Renamed(phi, k)
        BY <2>1, <2>3, <3>1, <4>2, RenamedAppend
      <4>10. succ2[phi[v]] \o Tail(u) = Renamed(phi, n)
        <5>1. PICK x, y : x = succ[v] /\ y = Tail(t) /\ x \in Seq(B) /\ y \in Seq(B)
          BY <3>1, <4>7
        <5>2. Renamed(phi, x \o y) = Renamed(phi, x) \o Renamed(phi, y)
          <6>1. \A B2, P2 : Renaming(phi, B2, P2) => \A p, r2 \in Seq(B2) :
                    Renamed(phi, p \o r2) = Renamed(phi, p) \o Renamed(phi, r2)
            BY RenamedConcat
          <6>2. Renaming(phi, B, P)
            BY <2>3
          <6>3. \A p, r2 \in Seq(B) :
                    Renamed(phi, p \o r2) = Renamed(phi, p) \o Renamed(phi, r2)
            BY <6>1, <6>2
          <6> QED
            BY <5>1, <6>3
        <5> QED
          BY <3>2, <4>2, <4>7, <5>1, <5>2
      <4>11. Good(r)
        BY <1>1, <4>4
      <4>12. D[r] \in Seq(A) /\ E[<<Renamed(phi, k), Renamed(phi, n)>>] = Renamed(phi, D[r])
        BY <4>5, <4>8, <4>11
      <4> QED
        BY <4>5, <4>6, <4>9, <4>10, <4>12
    <3> QED
      BY <3>6, <3>7
  <2> QED
    BY <2>7, <2>8
<1>2. SearchRank(P, V, b) \in [States(P) -> Nat]
  BY RankNatural
<1>3. ASSUME NEW st \in States(P),
             \A r \in States(P) : SearchRank(P, V, b)[r] < SearchRank(P, V, b)[st] => r \in T
      PROVE  st \in T
  <2>1. \A r \in States(P) : SearchRank(P, V, b)[r] < SearchRank(P, V, b)[st] => Good(r)
    BY <1>3
  <2>2. Good(st)
    BY <1>1, <2>1
  <2> QED
    BY <2>2
<1> HIDE DEF T
<1>4. \A st \in States(P) : st \in T
  BY <1>2, <1>3, RankInduction
<1> QED
  BY <1>4 DEF T

\* A finite family of numbers is bounded.
LEMMA FamilyBounded ==
    ASSUME NEW S, IsFiniteSet(S), NEW g \in [S -> Nat]
    PROVE  \E b \in Nat : \A x \in S : g[x] <= b
<1>1. CASE S = {}
  BY <1>1
<1>2. CASE S # {}
  <2>1. Cardinality(S) \in Nat \ {0} /\ ExistsBijection(1 .. Cardinality(S), S)
    BY <1>2, FS_CardinalityType, FS_EmptySet
  <2>2. PICK n : n = Cardinality(S) /\ n \in Nat \ {0}
    BY <2>1
  <2>3. PICK f \in [1 .. n -> S] : \A x \in S : \E i \in 1 .. n : f[i] = x
    BY <2>1, <2>2 DEF ExistsBijection, Bijection, Surjection
  <2>4. PICK h : h = [i \in 1 .. n |-> g[f[i]]]
    OBVIOUS
  <2>5. h \in [1 .. n -> Nat]
    BY <2>3, <2>4
  <2>6. PICK i \in 1 .. n : \A j \in 1 .. n : h[j] <= h[i]
    BY <2>2, <2>5, LargestExists
  <2>7. h[i] \in Nat /\ \A x \in S : g[x] <= h[i]
    BY <2>3, <2>4, <2>5, <2>6
  <2> QED
    BY <2>7
<1> QED
  BY <1>1, <1>2
=============================================================================
