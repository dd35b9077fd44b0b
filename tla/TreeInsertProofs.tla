-------------------------- MODULE TreeInsertProofs --------------------------
(***************************************************************************)
(* The program of gctest.c keeps to gc.h, and so what CollectorProofs says *)
(* of the collector holds for it; it builds a search tree of the keys it   *)
(* inserted, whatever is collected on the way; and the tree of its first   *)
(* run, once exported, outlives the second.                                *)
(***************************************************************************)
EXTENDS TreeInsert, CollectorProofs

-----------------------------------------------------------------------------
(* What the objects of the program mean. *)

\* What is known of an object: the keys of the tree it is, or, if it is a frame, the
\* keys that the rest of the tree has to the left and to the right of the subtree that
\* is being rebuilt; and a height, by which objects are well-founded.
Facts ==
    [keys : SUBSET Nat, below : SUBSET Nat, above : SUBSET Nat, height : Nat]

NodeHeader == Header(3, 0)
LeftHeader == Header(4, 1)
RightHeader == Header(4, 2)

Precedes(S, T) == \A x \in S : \A y \in T : x < y

\* w is a tree of objects that are known.
TreeAt(fact, w) ==
    w = Null \/ (w \in DOMAIN fact /\ Hd_val(mem, w) = NodeHeader)

KeysAt(fact, w)   == IF w = Null THEN {} ELSE fact[w].keys
HeightAt(fact, w) == IF w = Null THEN 0 ELSE fact[w].height

\* e is what the code with pointer c takes from args[4].
KontAt(fact, c, e) ==
    \/ c = Code("build") /\ e[1] = "long"
    \/ c = Code("insert_left")  /\ e \in DOMAIN fact /\ Hd_val(mem, e) = LeftHeader
    \/ c = Code("insert_right") /\ e \in DOMAIN fact /\ Hd_val(mem, e) = RightHeader

BelowAt(fact, e) == IF e[1] = "long" THEN {} ELSE fact[e].below
AboveAt(fact, e) == IF e[1] = "long" THEN {} ELSE fact[e].above

NodeIs(fact, v, k, l, r) ==
    /\ TreeAt(fact, l) /\ TreeAt(fact, r)
    /\ fact[v].keys = KeysAt(fact, l) \cup {k} \cup KeysAt(fact, r)
    /\ Precedes(KeysAt(fact, l), {k}) /\ Precedes({k}, KeysAt(fact, r))
    /\ HeightAt(fact, l) < fact[v].height /\ HeightAt(fact, r) < fact[v].height

\* A frame remembers a key k, the other subtree t, and the frame below it, e.
FrameIs(fact, v, k, t, c, e) ==
    /\ TreeAt(fact, t) /\ KontAt(fact, c, e)
    /\ Precedes(fact[v].below, fact[v].above)
    /\ Precedes(BelowAt(fact, e), {k} \cup KeysAt(fact, t))
    /\ Precedes({k} \cup KeysAt(fact, t), AboveAt(fact, e))

LeftIs(fact, v, k, t, e) ==
    /\ fact[v].below = BelowAt(fact, e)
    /\ fact[v].above = {k} \cup KeysAt(fact, t) \cup AboveAt(fact, e)
    /\ Precedes({k}, KeysAt(fact, t))

RightIs(fact, v, k, t, e) ==
    /\ fact[v].below = BelowAt(fact, e) \cup KeysAt(fact, t) \cup {k}
    /\ fact[v].above = AboveAt(fact, e)
    /\ Precedes(KeysAt(fact, t), {k})

\* An object is a node or a frame, and fact is true of it.
Means(fact, v) ==
    \/ /\ Hd_val(mem, v) = NodeHeader
       /\ \E k \in Nat : At(v, 0) = Long(k) /\ NodeIs(fact, v, k, At(v, 1), At(v, 2))
    \/ /\ Hd_val(mem, v) \in {LeftHeader, RightHeader}
       /\ \E k \in Nat :
              /\ At(v, 0) = Long(k)
              /\ FrameIs(fact, v, k, At(v, 1), At(v, 2), At(v, 3))
              /\ Hd_val(mem, v) = LeftHeader => LeftIs(fact, v, k, At(v, 1), At(v, 3))
              /\ Hd_val(mem, v) = RightHeader => RightIs(fact, v, k, At(v, 1), At(v, 3))

AllMeant(fact) ==
    /\ DOMAIN fact \subseteq Objects
    /\ \A v \in DOMAIN fact : fact[v] \in Facts /\ Means(fact, v)

LEMMA ProgramHeaders ==
    /\ Wosize_hd(NodeHeader) = 3 /\ ~ No_scan(Tag_hd(NodeHeader)) /\ IsHeader(NodeHeader)
    /\ \A hd \in {LeftHeader, RightHeader} :
           Wosize_hd(hd) = 4 /\ ~ No_scan(Tag_hd(hd)) /\ IsHeader(hd) /\ hd # NodeHeader
    /\ LeftHeader # RightHeader
  BY DEF NodeHeader, LeftHeader, RightHeader, Header, Wosize_hd, Tag_hd, No_scan, No_scan_tag,
         IsHeader

-----------------------------------------------------------------------------
(* What the collector does to it. *)

LEMMA NullStays == Current(Null) = Null /\ Current(Null)' = Null /\ ~ IsPtr(Null)
                   /\ \A x : x[1] = "long" => ~ IsPtr(x)
  BY DEF Current, Null, Long, IsPtr

LEMMA TreeMoved ==
    ASSUME HeapInv, Bookkeeping, HeapInv', Bookkeeping',
           NEW before, DOMAIN before \subseteq Objects, NEW after,
           Carries(before, after), NEW u, NEW w, Becomes(u, w), TreeAt(before, u)
    PROVE  /\ TreeAt(after, w)'
           /\ KeysAt(after, w) = KeysAt(before, u) /\ HeightAt(after, w) = HeightAt(before, u)
<1>1. CASE u = Null
  BY <1>1, NullStays, UnboxedStays DEF TreeAt, KeysAt, HeightAt
<1>2. CASE u # Null
  <2>1. u \in DOMAIN before /\ Hd_val(mem, u) = NodeHeader /\ u \in Pointers
    BY <1>2, ObjectsValid DEF TreeAt
  <2>2. IsPtr(u)
    BY <2>1, PointersAre
  <2>3. w \in DOMAIN after /\ after[w] = before[u] /\ Hd_val(mem', w) = Hd_val(mem, u)
        /\ w \in Objects'
    BY <2>1, <2>2 DEF Becomes, Carries
  <2>4. w # Null
    <3>1. Hd_val(mem', w) = NodeHeader /\ IsPtr(w)
      BY <2>1, <2>3, ObjectsValidAfter, PointersAre
    <3> QED
      BY <3>1, NullStays
  <2> QED
    BY <1>2, <2>1, <2>3, <2>4 DEF TreeAt, KeysAt, HeightAt
<1> QED
  BY <1>1, <1>2

LEMMA KontMoved ==
    ASSUME HeapInv, Bookkeeping, HeapInv', Bookkeeping',
           NEW before, DOMAIN before \subseteq Objects,
           NEW after, Carries(before, after), NEW c, NEW u, NEW w, Becomes(u, w),
           KontAt(before, c, u)
    PROVE  /\ KontAt(after, c, w)'
           /\ BelowAt(after, w) = BelowAt(before, u) /\ AboveAt(after, w) = AboveAt(before, u)
<1>1. CASE u[1] = "long"
  <2>1. w = u /\ u \notin DOMAIN before
    <3>1. ~ IsPtr(u)
      BY <1>1, NullStays
    <3> QED
      BY <3>1, UnboxedStays, ObjectsValid, PointersAre
  <2> QED
    BY <1>1, <2>1 DEF KontAt, BelowAt, AboveAt
<1>2. CASE u[1] # "long"
  <2>1. u \in DOMAIN before /\ u \in Pointers
    BY <1>2, ObjectsValid DEF KontAt
  <2>2. IsPtr(u)
    BY <2>1, PointersAre
  <2>3. w \in DOMAIN after /\ after[w] = before[u] /\ Hd_val(mem', w) = Hd_val(mem, u)
        /\ w \in Objects'
    BY <2>1, <2>2 DEF Becomes, Carries
  <2>4. w[1] # "long"
    <3>1. IsPtr(w)
      BY <2>3, ObjectsValidAfter, PointersAre
    <3> QED
      BY <3>1, NullStays
  <2> QED
    BY <1>2, <2>1, <2>3, <2>4 DEF KontAt, BelowAt, AboveAt
<1> QED
  BY <1>1, <1>2

LEMMA NodeMoved ==
    ASSUME HeapInv, Bookkeeping, HeapInv', Bookkeeping',
           NEW before, DOMAIN before \subseteq Objects,
           NEW after, Carries(before, after), NEW v, NEW c, after[c] = before[v],
           NEW k, NEW l, NEW r, NodeIs(before, v, k, l, r),
           NEW l2, Becomes(l, l2), NEW r2, Becomes(r, r2)
    PROVE  NodeIs(after, c, k, l2, r2)'
<1>1. TreeAt(before, l) /\ TreeAt(before, r)
  BY DEF NodeIs
<1>2. /\ TreeAt(after, l2)' /\ KeysAt(after, l2) = KeysAt(before, l)
      /\ HeightAt(after, l2) = HeightAt(before, l)
  BY <1>1, TreeMoved
<1>3. /\ TreeAt(after, r2)' /\ KeysAt(after, r2) = KeysAt(before, r)
      /\ HeightAt(after, r2) = HeightAt(before, r)
  BY <1>1, TreeMoved
<1> QED
  BY <1>2, <1>3 DEF NodeIs

LEMMA FrameMoved ==
    ASSUME HeapInv, Bookkeeping, HeapInv', Bookkeeping',
           NEW before, DOMAIN before \subseteq Objects,
           NEW after, Carries(before, after), NEW v, NEW c, after[c] = before[v],
           NEW k, NEW t, NEW f, NEW e, FrameIs(before, v, k, t, f, e),
           NEW t2, Becomes(t, t2), NEW e2, Becomes(e, e2)
    PROVE  /\ FrameIs(after, c, k, t2, f, e2)'
           /\ LeftIs(before, v, k, t, e) => LeftIs(after, c, k, t2, e2)
           /\ RightIs(before, v, k, t, e) => RightIs(after, c, k, t2, e2)
<1>1. TreeAt(before, t) /\ KontAt(before, f, e)
  BY DEF FrameIs
<1>2. TreeAt(after, t2)' /\ KeysAt(after, t2) = KeysAt(before, t)
  BY <1>1, TreeMoved
<1>3. /\ KontAt(after, f, e2)' /\ BelowAt(after, e2) = BelowAt(before, e)
      /\ AboveAt(after, e2) = AboveAt(before, e)
  BY <1>1, KontMoved
<1> QED
  BY <1>2, <1>3 DEF FrameIs, LeftIs, RightIs

LEMMA MeansMoved ==
    ASSUME HeapInv, Bookkeeping, HeapInv', Bookkeeping',
           NEW before, DOMAIN before \subseteq Objects,
           NEW after, Carries(before, after), NEW v, NEW c, after[c] = before[v],
           Hd_val(mem', c) = Hd_val(mem, v), Means(before, v),
           \A j \in 0 .. Wosize(mem, v) - 1 : Becomes(At(v, j), At(c, j)')
    PROVE  Means(after, c)'
<1>1. Hd_val(mem, v) \in {NodeHeader, LeftHeader, RightHeader}
  BY DEF Means
<1>2. /\ Wosize(mem, v) \in {3, 4}
      /\ Hd_val(mem, v) # NodeHeader => Wosize(mem, v) = 4
  BY <1>1, ProgramHeaders DEF Wosize
<1>3. Becomes(At(v, 0), At(c, 0)') /\ Becomes(At(v, 1), At(c, 1)') /\ Becomes(At(v, 2), At(c, 2)')
  BY <1>2
<1>4. ASSUME NEW k \in Nat, At(v, 0) = Long(k) PROVE At(c, 0)' = Long(k)
  <2>1. ~ IsPtr(Long(k))
    BY DEF IsPtr, Long
  <2> QED
    BY <1>3, <1>4, <2>1, UnboxedStays
<1>5. CASE Hd_val(mem, v) = NodeHeader
  <2>1. PICK k \in Nat : At(v, 0) = Long(k) /\ NodeIs(before, v, k, At(v, 1), At(v, 2))
    BY <1>5, ProgramHeaders DEF Means
  <2>2. PICK l, r : l = At(v, 1) /\ r = At(v, 2)
    OBVIOUS
  <2>3. PICK l2, r2 : l2 = At(c, 1)' /\ r2 = At(c, 2)'
    OBVIOUS
  <2>4. NodeIs(after, c, k, l2, r2)'
    BY <1>3, <2>1, <2>2, <2>3, NodeMoved
  <2>5. NodeIs(after, c, k, At(c, 1), At(c, 2))'
    BY <2>3, <2>4
  <2> QED
    BY <1>4, <1>5, <2>1, <2>5 DEF Means
<1>6. CASE Hd_val(mem, v) # NodeHeader
  <2>1. PICK k \in Nat :
            /\ At(v, 0) = Long(k)
            /\ FrameIs(before, v, k, At(v, 1), At(v, 2), At(v, 3))
            /\ Hd_val(mem, v) = LeftHeader => LeftIs(before, v, k, At(v, 1), At(v, 3))
            /\ Hd_val(mem, v) = RightHeader => RightIs(before, v, k, At(v, 1), At(v, 3))
    BY <1>6 DEF Means
  <2>2. PICK t, f, e : t = At(v, 1) /\ f = At(v, 2) /\ e = At(v, 3)
    OBVIOUS
  <2>3. PICK t2, f2, e2 : t2 = At(c, 1)' /\ f2 = At(c, 2)' /\ e2 = At(c, 3)'
    OBVIOUS
  <2>4. Becomes(e, e2)
    BY <1>2, <1>6, <2>2, <2>3
  <2>5. f2 = f
    <3>1. ~ IsPtr(f)
      BY <2>1, <2>2 DEF FrameIs, KontAt, Code, IsPtr
    <3> QED
      BY <1>3, <2>2, <2>3, <3>1, UnboxedStays
  <2>6. /\ FrameIs(after, c, k, t2, f, e2)'
        /\ Hd_val(mem, v) = LeftHeader => LeftIs(after, c, k, t2, e2)
        /\ Hd_val(mem, v) = RightHeader => RightIs(after, c, k, t2, e2)
    BY <1>3, <2>1, <2>2, <2>3, <2>4, FrameMoved
  <2>7. /\ FrameIs(after, c, k, At(c, 1), At(c, 2), At(c, 3))'
        /\ Hd_val(mem', c) = LeftHeader => LeftIs(after, c, k, At(c, 1)', At(c, 3)')
        /\ Hd_val(mem', c) = RightHeader => RightIs(after, c, k, At(c, 1)', At(c, 3)')
    BY <2>3, <2>5, <2>6
  <2> QED
    BY <1>1, <1>4, <1>6, <2>1, <2>7 DEF Means, LeftIs, RightIs
<1> QED
  BY <1>5, <1>6

\* What was true of the objects is true of them after a step of the collector.
LEMMA AllMeantMoved ==
    ASSUME HeapInv, Bookkeeping, AnyNext, CollectorRuns, HeapInv', Bookkeeping',
           NEW before, AllMeant(before), NEW after, MovedTo(before, after)
    PROVE  AllMeant(after)'
<1>1. DOMAIN before \subseteq Objects /\ DOMAIN after \subseteq Objects' /\ Carries(before, after)
  BY DEF AllMeant, MovedTo, Carries
<1> SUFFICES ASSUME NEW c \in DOMAIN after PROVE after[c] \in Facts /\ Means(after, c)'
  BY <1>1 DEF AllMeant
<1>2. PICK v \in DOMAIN before : Survives(v) /\ c = Current(v)'
  BY DEF MovedTo
<1>3. /\ after[c] = before[v] /\ before[v] \in Facts /\ Means(before, v) /\ v \in Objects
      /\ Hd_val(mem', c) = Hd_val(mem, v)
  BY <1>1, <1>2 DEF Carries, AllMeant
<1>4. Wosize(mem, v) \in Nat /\ ~ No_scan(Tag_hd(Hd_val(mem, v)))
  BY <1>3, ProgramHeaders DEF Means, Wosize
<1>5. ASSUME NEW j \in 0 .. Wosize(mem, v) - 1 PROVE Becomes(At(v, j), At(c, j)')
  BY <1>2, <1>3, <1>4, AtAfter
<1> QED
  BY <1>1, <1>3, <1>5, MeansMoved

-----------------------------------------------------------------------------
(* What the functions do to it. *)

\* A new object, word by word.
LEMMA ConsWrites ==
    ASSUME HeapInv, Bookkeeping, NEW tag \in Nat, NEW fields, NEW n \in Nat \ {0}, n = Len(fields),
           n + 1 <= budget, pc = "mutator", ConsN(tag, fields)
    PROVE  /\ alloc' = alloc + 1 + n /\ alloc' <= Len(mem[0]) /\ DOMAIN mem[0] = 1 .. Len(mem[0])
           /\ DOMAIN mem'[0] = DOMAIN mem[0]
           /\ \A s \in Spaces : s # 0 => mem'[s] = mem[s]
           /\ \A k \in 1 .. Len(mem[0]) : k <= alloc => mem'[0][k] = mem[0][k]
           /\ mem'[0][alloc + 1] = Header(n, tag)
           /\ \A i \in 1 .. n : mem'[0][alloc + 1 + i] = fields[i]
<1>1. /\ 0 \in Spaces /\ Len(mem[0]) \in Nat /\ DOMAIN mem[0] = 1 .. Len(mem[0])
      /\ DOMAIN mem = Spaces /\ alloc \in Nat
  BY SpaceNumbers, WordIndex DEF HeapInv, TypesOK, Bookkeeping
<1>2. limit = Len(mem[0])
  BY SpaceNumbers DEF Bookkeeping, GenerationsPc, GP!Running, SpaceSizes, Gens
<1>3. alloc + 1 + n <= Len(mem[0])
  BY <1>1, <1>2 DEF Bookkeeping
<1>4. PICK w : w = [k \in DOMAIN mem[0] |->
            IF k = alloc + 1 THEN Header(n, tag)
            ELSE IF k \in alloc + 2 .. alloc + 1 + n THEN fields[k - alloc - 1]
            ELSE mem[0][k]]
  OBVIOUS
<1>5. mem' = [mem EXCEPT ![0] = w] /\ alloc' = alloc + 1 + n
  BY <1>4 DEF ConsN
<1>6. mem'[0] = w /\ \A s \in Spaces : s # 0 => mem'[s] = mem[s]
  BY <1>1, <1>5
<1>7. \A k \in 1 .. Len(mem[0]) : k <= alloc => w[k] = mem[0][k]
  BY <1>1, <1>4
<1>8. w[alloc + 1] = Header(n, tag)
  BY <1>1, <1>3, <1>4
<1>9. ASSUME NEW i \in 1 .. n PROVE w[alloc + 1 + i] = fields[i]
  <2>1. PICK k : k = alloc + 1 + i /\ k \in 1 .. Len(mem[0]) /\ k # alloc + 1
                 /\ k \in alloc + 2 .. alloc + 1 + n /\ k - alloc - 1 = i
    BY <1>1, <1>3
  <2> QED
    BY <1>1, <1>4, <2>1
<1>10. DOMAIN w = DOMAIN mem[0]
  BY <1>4
<1> QED
  BY <1>1, <1>3, <1>5, <1>6, <1>7, <1>8, <1>9, <1>10

LEMMA ConsMakesObject ==
    ASSUME HeapInv, Bookkeeping, NEW tag \in 0 .. 2, NEW fields, NEW n \in Nat \ {0},
           n = Len(fields), n + 1 <= budget, pc = "mutator", ConsN(tag, fields),
           \A i \in 1 .. n : Sound(fields[i])
    PROVE  MakesObject
<1>0. tag \in Nat
  OBVIOUS
<1>1. PICK hd : hd = mem'[0][alloc + 1]
  OBVIOUS
<1>11. hd = Header(n, tag)
  BY <1>0, <1>1, ConsWrites
<1>2. IsHeader(hd) /\ Tag_hd(hd) = tag /\ Wosize_hd(hd) = n /\ tag \in Nat
  BY <1>0, <1>11 DEF Header, IsHeader, Tag_hd, Wosize_hd
<1>3. ~ No_scan(Tag_hd(hd))
  BY <1>2 DEF No_scan, No_scan_tag
<1>4. n \in 1 .. budget - 1 /\ alloc \in Nat
  BY DEF Bookkeeping
<1>5. ASSUME NEW i \in alloc + 2 .. alloc + 1 + n PROVE Sound(mem'[0][i])
  <2>1. PICK k \in 1 .. n : alloc + 1 + k = i
    BY <1>4
  <2>2. mem'[0][alloc + 1 + k] = fields[k]
    BY <1>0, ConsWrites
  <2>3. mem'[0][i] = fields[k] /\ Sound(fields[k])
    BY <2>1, <2>2
  <2> QED
    BY <2>3
<1>6. mem' = [mem EXCEPT ![0] = [k \in DOMAIN @ |->
               IF k \in alloc + 1 .. alloc + 1 + n THEN mem'[0][k] ELSE @[k]]]
  <2>1. PICK v : v = [k \in DOMAIN mem[0] |->
            IF k = alloc + 1 THEN Header(n, tag)
            ELSE IF k \in alloc + 2 .. alloc + 1 + n THEN fields[k - alloc - 1]
            ELSE mem[0][k]]
    OBVIOUS
  <2>2. mem' = [mem EXCEPT ![0] = v]
    BY <2>1 DEF ConsN
  <2>3. mem'[0] = v
    BY <2>2, SpaceNumbers DEF HeapInv, TypesOK
  <2>4. v = [k \in DOMAIN mem[0] |->
               IF k \in alloc + 1 .. alloc + 1 + n THEN v[k] ELSE mem[0][k]]
    BY <1>4, <2>1
  <2> QED
    BY <2>2, <2>3, <2>4
<1>7. alloc' = alloc + 1 + n /\ budget' = budget - (1 + n)
  BY DEF ConsN
<1> QED
  BY <1>1, <1>2, <1>3, <1>4, <1>5, <1>6, <1>7 DEF MakesObject, Sound

\* It is there, and what was there is still there.
LEMMA ConsKeeps ==
    ASSUME HeapInv, Bookkeeping, NEW tag \in Nat, NEW fields, NEW n \in Nat \ {0}, n = Len(fields),
           n + 1 <= budget, pc = "mutator", ConsN(tag, fields), UNCHANGED next, NEW v \in Objects
    PROVE  /\ Valid(v)' /\ Hd_val(mem', v) = Hd_val(mem, v) /\ Wosize(mem, v) \in Nat
           /\ \A i \in 0 .. Wosize(mem, v) - 1 : Field(mem', v, i) = Field(mem, v, i)
<1>1. PICK s, j, sz : /\ s = SpaceOf(v) /\ j = IndexOf(v) /\ sz = Wosize(mem, v)
                      /\ s \in Spaces /\ j \in 2 .. InUse(s) + 1 /\ j - 1 + sz <= InUse(s)
                      /\ IsHeader(mem[s][j - 1]) /\ mem[s][j - 1] # ZeroHeader
  BY ObjectsValid DEF Valid, Hd_val
<1>2. sz \in Nat
  BY <1>1, ObjectsHave
<1>3. PICK u, u2 : u = InUse(s) /\ u2 = InUse(s)' /\ u \in Nat /\ u2 \in Nat /\ u2 >= u
  <2>1. CASE s = 0
    BY <2>1, ConsWrites DEF InUse, Bookkeeping
  <2>2. CASE s # 0
    BY <1>1, <2>2 DEF InUse, HeapInv, TypesOK
  <2> QED
    BY <2>1, <2>2
<1>32. u \in Nat /\ u2 \in Nat /\ u2 >= u
  BY <1>3
<1>31. j \in Nat /\ j \in 2 .. u + 1 /\ j - 1 + sz <= u
  BY <1>1, <1>3
<1>4. ASSUME NEW k \in 1 .. u PROVE mem'[s][k] = mem[s][k]
  <2>1. CASE s = 0
    <3>1. k <= alloc /\ k \in 1 .. Len(mem[0])
      <4>1. alloc' = alloc + 1 + n /\ alloc' <= Len(mem[0])
        BY ConsWrites
      <4>2. Len(mem[0]) \in Nat
        BY SpaceNumbers, WordIndex DEF HeapInv, TypesOK
      <4>3. alloc \in Nat /\ u = alloc
        BY <1>3, <2>1 DEF Bookkeeping, InUse
      <4> QED
        BY <4>1, <4>2, <4>3
    <3> QED
      BY <2>1, <3>1, ConsWrites
  <2>2. CASE s # 0
    BY <1>1, <2>2, ConsWrites
  <2> QED
    BY <2>1, <2>2
<1>5. mem'[s][j - 1] = mem[s][j - 1]
  <2>1. j - 1 \in 1 .. u
    BY <1>2, <1>3, <1>31
  <2> QED
    BY <1>4, <2>1
<1>6. ASSUME NEW i \in 0 .. sz - 1 PROVE mem'[s][j + i] = mem[s][j + i]
  <2>1. j + i \in 1 .. u
    BY <1>2, <1>3, <1>31
  <2> QED
    BY <1>4, <2>1
<1>7. Valid(v)'
  <2>1. Hd_val(mem', v) = mem[s][j - 1] /\ Wosize(mem', v) = sz
    BY <1>1, <1>5 DEF Hd_val, Wosize
  <2>2. j \in 2 .. u2 + 1 /\ j - 1 + sz <= u2
    BY <1>2, <1>31, <1>32
  <2> QED
    BY <1>1, <1>3, <2>1, <2>2 DEF Valid
<1> QED
  BY <1>1, <1>2, <1>5, <1>6, <1>7 DEF Hd_val, Field

LEMMA ConsIsThere ==
    ASSUME HeapInv, Bookkeeping, NEW tag \in Nat, NEW fields, NEW n \in Nat \ {0}, n = Len(fields),
           n + 1 <= budget, pc = "mutator", ConsN(tag, fields), NEW new, new = NewObject
    PROVE  /\ new \in Pointers /\ new \notin Objects /\ Valid(new)'
           /\ Hd_val(mem', new) = Header(n, tag)
           /\ \A i \in 0 .. n - 1 : Field(mem', new, i) = fields[i + 1]
<1>0. /\ alloc' = alloc + 1 + n /\ mem'[0][alloc + 1] = Header(n, tag)
      /\ \A i \in 1 .. n : mem'[0][alloc + 1 + i] = fields[i]
  BY ConsWrites, SMTT(30)
<1>1. alloc \in Nat /\ 0 \in Spaces
  BY SpaceNumbers DEF Bookkeeping
<1>2. SpaceOf(new) = 0 /\ IndexOf(new) = alloc + 2 /\ new \in Pointers
  BY <1>1 DEF NewObject, Ptr, SpaceOf, IndexOf, Pointers
<1>3. Hd_val(mem', new) = Header(n, tag)
  <2>1. (alloc + 2) - 1 = alloc + 1
    BY <1>1
  <2> QED
    BY <1>0, <1>2, <2>1 DEF Hd_val
<1>4. ASSUME NEW i \in 0 .. n - 1 PROVE Field(mem', new, i) = fields[i + 1]
  <2>1. PICK k \in 1 .. n : k = i + 1 /\ (alloc + 2) + i = alloc + 1 + k
    BY <1>1
  <2>2. mem'[0][alloc + 1 + k] = fields[k]
    BY <1>0
  <2>3. Field(mem', new, i) = mem'[0][(alloc + 2) + i]
    BY <1>2 DEF Field
  <2> QED
    BY <2>1, <2>2, <2>3
<1>5. Valid(new)'
  <2>1. InUse(0)' = alloc + 1 + n
    BY <1>0 DEF InUse
  <2>2. IsHeader(Header(n, tag)) /\ Header(n, tag) # ZeroHeader /\ Wosize_hd(Header(n, tag)) = n
    BY DEF IsHeader, Header, ZeroHeader, Wosize_hd
  <2>3. alloc + 2 \in 2 .. (alloc + 1 + n) + 1 /\ (alloc + 2) - 1 + n <= alloc + 1 + n
    BY <1>1
  <2> QED
    BY <1>1, <1>2, <1>3, <2>1, <2>2, <2>3 DEF Valid, Wosize
<1>6. ~ Valid(new)
  <2>1. InUse(0) = alloc
    BY DEF InUse
  <2> QED
    BY <1>1, <1>2, <2>1 DEF Valid
<1> QED
  BY <1>2, <1>3, <1>4, <1>5, <1>6, ObjectsValid

-----------------------------------------------------------------------------
(* Where the program is. *)

Live(k) == Current(args[k])

\* The keys S fit into what the frame e has around them, and then none is missing.
Fills(fact, S, e) ==
    /\ Precedes(BelowAt(fact, e), S) /\ Precedes(S, AboveAt(fact, e))
    /\ Precedes(BelowAt(fact, e), AboveAt(fact, e))
    /\ inserted = BelowAt(fact, e) \cup S \cup AboveAt(fact, e)

\* insert is to put the key w into the tree t, and to return to c.
InsertingAt(fact, t, w, c, e) ==
    /\ TreeAt(fact, t) /\ KontAt(fact, c, e)
    /\ \E k \in Nat : w = Long(k) /\ Fills(fact, KeysAt(fact, t) \cup {k}, e)

\* c is given the tree t.
ReturningAt(fact, t, c, e) ==
    /\ TreeAt(fact, t) /\ KontAt(fact, c, e)
    /\ Fills(fact, KeysAt(fact, t), e)

Position(fact) ==
    IF fun = "insert" THEN InsertingAt(fact, Live(1), Live(2), Live(3), Live(4))
    ELSE ReturningAt(fact, Live(1), Code(fun), Live(4))

\* The function fun runs, or a collection that it has asked for.
Serving ==
    \/ pc \in {"mutator", "garbage_collect", "collect"}
    \/ pc = "copying" /\ copy.caller = "garbage_collect"

Requests ==
    /\ fun \in DOMAIN FunInfo /\ inserted \subseteq Nat
    /\ Serving => fi = FunInfo[fun]
    /\ pc = "mutator" => budget = fi.num_allocs

Explains(fact) ==
    /\ AllMeant(fact)
    /\ pc = "entry" \/ Serving => Position(fact)
    /\ Exporting \/ pc = "exported" =>
           fun = "build" /\ TreeAt(fact, Live(1)) /\ KeysAt(fact, Live(1)) = inserted

TreeInv == Requests /\ \E fact : Explains(fact)

-----------------------------------------------------------------------------
(* The values that the program holds. *)

LEMMA PlainValues ==
    /\ \A k : Sound(Long(k)) /\ ~ IsPtr(Long(k))
    /\ \A f : Sound(Code(f)) /\ ~ IsPtr(Code(f)) /\ Code(f)[2] = f
    /\ \A e : e[1] = "long" => Sound(e) /\ ~ IsPtr(e)
    /\ Sound(Null)
  BY DEF Sound, Word, IsPtr, IsHeader, Long, Code, Null

LEMMA TreeSound ==
    ASSUME HeapInv, Bookkeeping, NEW fact, AllMeant(fact), NEW w, TreeAt(fact, w) PROVE Sound(w)
  BY ObjectSound, PlainValues DEF TreeAt, AllMeant

LEMMA KontSound ==
    ASSUME HeapInv, Bookkeeping, NEW fact, AllMeant(fact), NEW c, NEW e, KontAt(fact, c, e)
    PROVE  Sound(e) /\ Sound(c) /\ c[2] \in {"build", "insert_left", "insert_right"}
           /\ c = Code(c[2])
  BY ObjectSound, PlainValues DEF KontAt, AllMeant, Code

\* What an object that is known holds, while no copy is made.
LEMMA NodeFields ==
    ASSUME HeapInv, Bookkeeping, pc # "copying", NEW fact, AllMeant(fact), NEW v \in DOMAIN fact,
           Hd_val(mem, v) = NodeHeader
    PROVE  \E k \in Nat : /\ Field(mem, v, 0) = Long(k)
                          /\ NodeIs(fact, v, k, Field(mem, v, 1), Field(mem, v, 2))
<1>1. Means(fact, v)
  BY DEF AllMeant
<1> QED
  BY <1>1, CurrentHere, ProgramHeaders DEF Means, At

LEMMA FrameFields ==
    ASSUME HeapInv, Bookkeeping, pc # "copying", NEW fact, AllMeant(fact), NEW v \in DOMAIN fact,
           Hd_val(mem, v) \in {LeftHeader, RightHeader}
    PROVE  \E k \in Nat :
              /\ Field(mem, v, 0) = Long(k)
              /\ FrameIs(fact, v, k, Field(mem, v, 1), Field(mem, v, 2), Field(mem, v, 3))
              /\ Hd_val(mem, v) = LeftHeader =>
                     LeftIs(fact, v, k, Field(mem, v, 1), Field(mem, v, 3))
              /\ Hd_val(mem, v) = RightHeader =>
                     RightIs(fact, v, k, Field(mem, v, 1), Field(mem, v, 3))
<1>1. Means(fact, v)
  BY DEF AllMeant
<1> QED
  BY <1>1, CurrentHere, ProgramHeaders DEF Means, At

LEMMA FieldSound ==
    ASSUME HeapInv, Bookkeeping, pc # "copying", NEW fact, AllMeant(fact), NEW v \in DOMAIN fact,
           NEW i \in 0 .. Wosize(mem, v) - 1
    PROVE  Sound(Field(mem, v, i))
<1>1. Hd_val(mem, v) \in {NodeHeader, LeftHeader, RightHeader}
  BY DEF AllMeant, Means
<1>2. CASE Hd_val(mem, v) = NodeHeader
  <2>1. i \in 0 .. 2
    BY <1>2, ProgramHeaders DEF Wosize
  <2>2. PICK k \in Nat : /\ Field(mem, v, 0) = Long(k)
                         /\ NodeIs(fact, v, k, Field(mem, v, 1), Field(mem, v, 2))
    BY <1>2, NodeFields
  <2>3. Sound(Field(mem, v, 0)) /\ Sound(Field(mem, v, 1)) /\ Sound(Field(mem, v, 2))
    BY <2>2, PlainValues, TreeSound DEF NodeIs
  <2>4. i = 0 \/ i = 1 \/ i = 2
    BY <2>1
  <2> QED
    BY <2>3, <2>4
<1>3. CASE Hd_val(mem, v) \in {LeftHeader, RightHeader}
  <2>1. i \in 0 .. 3
    BY <1>3, ProgramHeaders DEF Wosize
  <2>2. PICK k \in Nat :
            /\ Field(mem, v, 0) = Long(k)
            /\ FrameIs(fact, v, k, Field(mem, v, 1), Field(mem, v, 2), Field(mem, v, 3))
    BY <1>3, FrameFields
  <2>3. /\ Sound(Field(mem, v, 0)) /\ Sound(Field(mem, v, 1))
        /\ Sound(Field(mem, v, 2)) /\ Sound(Field(mem, v, 3))
    BY <2>2, PlainValues, TreeSound, KontSound DEF FrameIs
  <2>4. i = 0 \/ i = 1 \/ i = 2 \/ i = 3
    BY <2>1
  <2> QED
    BY <2>3, <2>4
<1> QED
  BY <1>1, <1>2, <1>3

-----------------------------------------------------------------------------
(* The functions keep to gc.h. *)

\* A function makes one object of what it holds, and jumps.
Makes(tag, fields, n) ==
    /\ tag \in 0 .. 2 /\ n \in Nat \ {0} /\ n = Len(fields) /\ n + 1 <= budget
    /\ pc = "mutator" /\ pc' = "entry"
    /\ ConsN(tag, fields)
    /\ UNCHANGED <<next, limit, fi, gen, copyVars, result>>
    /\ \A i \in 1 .. n : Sound(fields[i])

LEMMA SoundKept ==
    ASSUME HeapInv, Bookkeeping, NEW tag, NEW fields, NEW n, Makes(tag, fields, n), NEW v, Sound(v)
    PROVE  Sound(v)'
<1>1. CASE IsPtr(v)
  <2>1. v \in Objects
    BY <1>1, ObjectsValid DEF Sound, Word
  <2>2. Valid(v)'
    BY <2>1, ConsKeeps DEF Makes
  <2> QED
    BY <2>2 DEF Sound
<1>2. CASE ~ IsPtr(v)
  BY <1>2 DEF Sound
<1> QED
  BY <1>1, <1>2

LEMMA NewSound ==
    ASSUME HeapInv, Bookkeeping, NEW tag, NEW fields, NEW n, Makes(tag, fields, n),
           NEW new, new = NewObject
    PROVE  Sound(new)'
<1>2. tag \in Nat
  BY DEF Makes
<1>3. new \in Pointers /\ Valid(new)'
  BY <1>2, ConsIsThere DEF Makes
<1>4. ~ IsHeader(new)
  BY <1>3 DEF Pointers, IsHeader
<1> QED
  BY <1>3, <1>4 DEF Sound, Word

LEMMA MakesBody ==
    ASSUME HeapInv, Bookkeeping, NEW tag, NEW fields, NEW n, Makes(tag, fields, n),
           DOMAIN args' = ArgSlots,
           \A k \in ArgSlots : args'[k] = args[k] \/ Sound(args'[k]) \/ args'[k] = NewObject
    PROVE  AnyBody
<1>0. /\ tag \in 0 .. 2 /\ n \in Nat \ {0} /\ n = Len(fields) /\ n + 1 <= budget
      /\ pc = "mutator" /\ ConsN(tag, fields)
  BY DEF Makes
<1>1. \A i \in 1 .. n : Sound(fields[i])
  BY DEF Makes
<1>2. MakesObject
  BY <1>0, <1>1, ConsMakesObject
<1>3. budget > 1
  BY <1>0 DEF Bookkeeping
<1>4. ASSUME NEW k \in ArgSlots PROVE args'[k] = args[k] \/ Sound(args[k])'
  <2>1. CASE Sound(args'[k])
    <3>1. PICK v : v = args'[k]
      OBVIOUS
    <3>2. Sound(v)'
      BY <2>1, <3>1, SoundKept
    <3> QED
      BY <3>1, <3>2 DEF Sound
  <2>2. CASE args'[k] = NewObject
    <3>1. PICK new : new = NewObject
      OBVIOUS
    <3>2. Sound(new)'
      BY <3>1, NewSound
    <3> QED
      BY <2>2, <3>1, <3>2 DEF Sound
  <2> QED
    BY <2>1, <2>2
<1> QED
  BY <1>2, <1>3, <1>4 DEF AnyBody, Makes, StoreInArgs

-----------------------------------------------------------------------------
(* A new object, and what it means. *)

WithFact(fact, new, f) ==
    [v \in DOMAIN fact \cup {new} |-> IF v = new THEN f ELSE fact[v]]

LEMMA MakesCarries ==
    ASSUME HeapInv, Bookkeeping, HeapInv', Bookkeeping', NEW tag, NEW fields, NEW n,
           Makes(tag, fields, n), NEW fact, AllMeant(fact), NEW new, new = NewObject,
           NEW f, NEW after, after = WithFact(fact, new, f)
    PROVE  /\ Carries(fact, after) /\ new \in DOMAIN after /\ after[new] = f
           /\ new # Null /\ new[1] # "long"
           /\ Hd_val(mem', new) = Header(n, tag)
           /\ \A i \in 0 .. n - 1 : At(new, i)' = fields[i + 1]
<1>1. pc # "copying" /\ pc' # "copying" /\ tag \in Nat
  BY DEF Makes
<1>2. /\ new \in Pointers /\ new \notin Objects /\ Valid(new)'
      /\ Hd_val(mem', new) = Header(n, tag)
      /\ \A i \in 0 .. n - 1 : Field(mem', new, i) = fields[i + 1]
  BY <1>1, ConsIsThere DEF Makes
<1>3. new \in Objects'
  BY <1>2, ObjectsValidAfter
<1>4. ASSUME NEW v \in DOMAIN fact
      PROVE  v \in Objects' /\ v # new /\ after[v] = fact[v] /\ v \in DOMAIN after
             /\ Hd_val(mem', v) = Hd_val(mem, v)
  <2>1. v \in Objects
    BY DEF AllMeant
  <2>2. Valid(v)' /\ Hd_val(mem', v) = Hd_val(mem, v)
    BY <1>1, <2>1, ConsKeeps DEF Makes
  <2>3. v \in Objects'
    BY <2>1, <2>2, ObjectsValid, ObjectsValidAfter
  <2> QED
    BY <1>2, <2>1, <2>2, <2>3 DEF WithFact
<1>5. DOMAIN after = DOMAIN fact \cup {new} /\ after[new] = f
  BY DEF WithFact
<1>6. Carries(fact, after)
  BY <1>1, <1>3, <1>4, <1>5, CurrentThere DEF Carries
<1>7. new # Null /\ new[1] # "long"
  BY <1>2 DEF Pointers, Null, Long
<1>8. \A i \in 0 .. n - 1 : At(new, i)' = fields[i + 1]
  BY <1>1, <1>2, CurrentThere DEF At
<1> QED
  BY <1>2, <1>5, <1>6, <1>7, <1>8

LEMMA MakesMeant ==
    ASSUME HeapInv, Bookkeeping, HeapInv', Bookkeeping', NEW tag, NEW fields, NEW n,
           Makes(tag, fields, n), NEW fact, AllMeant(fact), NEW new, new = NewObject,
           NEW f \in Facts, NEW after, after = WithFact(fact, new, f), Means(after, new)'
    PROVE  AllMeant(after)'
<1>1. pc # "copying" /\ pc' # "copying" /\ tag \in Nat
  BY DEF Makes
<1>2. Carries(fact, after) /\ after[new] = f
  BY MakesCarries
<1>3. DOMAIN after \subseteq Objects' /\ DOMAIN after = DOMAIN fact \cup {new}
  BY <1>2 DEF Carries, WithFact
<1>4. ASSUME NEW v \in DOMAIN after, v # new PROVE after[v] \in Facts /\ Means(after, v)'
  <2>1. v \in DOMAIN fact /\ v \in Objects /\ fact[v] \in Facts /\ Means(fact, v)
    BY <1>3, <1>4 DEF AllMeant
  <2>2. after[v] = fact[v]
    BY <1>4 DEF WithFact
  <2>3. /\ Hd_val(mem', v) = Hd_val(mem, v)
        /\ \A i \in 0 .. Wosize(mem, v) - 1 : Field(mem', v, i) = Field(mem, v, i)
    BY <1>1, <2>1, ConsKeeps DEF Makes
  <2>4. ASSUME NEW i \in 0 .. Wosize(mem, v) - 1 PROVE Becomes(At(v, i), At(v, i)')
    <3>1. PICK u : u = Field(mem, v, i) /\ u = Field(mem', v, i)
      BY <2>3
    <3>2. At(v, i) = u /\ At(v, i)' = u
      BY <1>1, <3>1, CurrentHere, CurrentThere DEF At
    <3>3. Sound(u)
      BY <1>1, <2>1, <3>1, FieldSound
    <3> QED
      BY <1>1, <3>2, <3>3, CurrentThere DEF Sound, Becomes, Survives
  <2>5. DOMAIN fact \subseteq Objects /\ after[v] = fact[v]
    BY <2>2 DEF AllMeant
  <2>6. Means(after, v)'
    BY <1>2, <2>1, <2>3, <2>4, <2>5, MeansMoved
  <2> QED
    BY <2>1, <2>2, <2>6
<1> QED
  BY <1>2, <1>3, <1>4 DEF AllMeant

-----------------------------------------------------------------------------
(* The functions keep the facts true. *)

LEMMA FactsTyped ==
    ASSUME HeapInv, Bookkeeping, NEW fact, AllMeant(fact)
    PROVE  /\ \A w : TreeAt(fact, w) => KeysAt(fact, w) \in SUBSET Nat /\ HeightAt(fact, w) \in Nat
           /\ \A c, e : KontAt(fact, c, e) =>
                  BelowAt(fact, e) \in SUBSET Nat /\ AboveAt(fact, e) \in SUBSET Nat
<1>1. \A v \in DOMAIN fact : fact[v] \in Facts
  BY DEF AllMeant
<1> QED
  BY <1>1 DEF TreeAt, KontAt, KeysAt, HeightAt, BelowAt, AboveAt, Facts

LEMMA TreeStays ==
    ASSUME HeapInv, Bookkeeping, HeapInv', Bookkeeping', pc # "copying", pc' # "copying",
           NEW fact, AllMeant(fact), NEW after, Carries(fact, after), NEW u, TreeAt(fact, u)
    PROVE  /\ TreeAt(after, u)'
           /\ KeysAt(after, u) = KeysAt(fact, u) /\ HeightAt(after, u) = HeightAt(fact, u)
<1>1. DOMAIN fact \subseteq Objects
  BY DEF AllMeant
<1>2. Becomes(u, u)
  <2>1. Sound(u)
    BY TreeSound
  <2> QED
    BY <2>1, CurrentThere DEF Becomes, Survives, Sound
<1> QED
  BY <1>1, <1>2, TreeMoved

LEMMA KontStays ==
    ASSUME HeapInv, Bookkeeping, HeapInv', Bookkeeping', pc # "copying", pc' # "copying",
           NEW fact, AllMeant(fact), NEW after, Carries(fact, after), NEW c, NEW u,
           KontAt(fact, c, u)
    PROVE  /\ KontAt(after, c, u)'
           /\ BelowAt(after, u) = BelowAt(fact, u) /\ AboveAt(after, u) = AboveAt(fact, u)
<1>1. DOMAIN fact \subseteq Objects
  BY DEF AllMeant
<1>2. Becomes(u, u)
  <2>1. Sound(u)
    BY KontSound
  <2> QED
    BY <2>1, CurrentThere DEF Becomes, Survives, Sound
<1> QED
  BY <1>1, <1>2, KontMoved

LEMMA Here ==
    ASSUME pc = "mutator", Requests, NEW fact, Explains(fact)
    PROVE  /\ AllMeant(fact) /\ budget = FunInfo[fun].num_allocs
           /\ fun = "insert" => InsertingAt(fact, args[1], args[2], args[3], args[4])
           /\ fun # "insert" => ReturningAt(fact, args[1], Code(fun), args[4])
<1>1. \A k : Live(k) = args[k]
  BY CurrentHere DEF Live
<1>2. Position(fact)
  BY DEF Explains, Serving
<1> QED
  BY <1>1, <1>2 DEF Explains, Position, Requests, Serving

\* The next function is entered, and finds what it expects.
LEMMA Arrives ==
    ASSUME pc' = "entry", inserted' \subseteq Nat, NEW g \in DOMAIN FunInfo, fun' = g,
           NEW after, AllMeant(after)', NEW t, NEW w, NEW c, NEW e,
           args'[1] = t, args'[2] = w, args'[3] = c, args'[4] = e,
           g = "insert" => InsertingAt(after, t, w, c, e)',
           g # "insert" => ReturningAt(after, t, Code(g), e)'
    PROVE  TreeInv'
<1>1. Live(1)' = t /\ Live(2)' = w /\ Live(3)' = c /\ Live(4)' = e
  BY CurrentThere DEF Live
<1>2. CASE g = "insert"
  <2>1. InsertingAt(after, Live(1), Live(2), Live(3), Live(4))'
    BY <1>1, <1>2
  <2>2. Position(after)'
    BY <1>2, <2>1 DEF Position
  <2> QED
    BY <2>2 DEF TreeInv, Explains, Requests, Serving, Exporting
<1>3. CASE g # "insert"
  <2>1. ReturningAt(after, Live(1), Code(fun), Live(4))'
    BY <1>1, <1>3
  <2>2. Position(after)'
    BY <1>3, <2>1 DEF Position
  <2> QED
    BY <2>2 DEF TreeInv, Explains, Requests, Serving, Exporting
<1> QED
  BY <1>2, <1>3

\* A node is made of two trees, and given to a function that waits for a tree.
LEMMA NodeMade ==
    ASSUME HeapInv, Bookkeeping, HeapInv', Bookkeeping', NEW fact, AllMeant(fact),
           inserted \subseteq Nat, UNCHANGED inserted,
           NEW k \in Nat, NEW l, NEW r, Makes(0, <<Long(k), l, r>>, 3),
           TreeAt(fact, l), TreeAt(fact, r),
           Precedes(KeysAt(fact, l), {k}), Precedes({k}, KeysAt(fact, r)),
           NEW g \in DOMAIN FunInfo, g # "insert", fun' = g, NEW e, KontAt(fact, Code(g), e),
           Fills(fact, KeysAt(fact, l) \cup {k} \cup KeysAt(fact, r), e),
           args'[1] = NewObject, args'[4] = e
    PROVE  TreeInv'
<1>1. pc # "copying" /\ pc' # "copying" /\ pc' = "entry"
  BY DEF Makes
<1>2. PICK keys : /\ keys = KeysAt(fact, l) \cup {k} \cup KeysAt(fact, r) /\ keys \in SUBSET Nat
                  /\ HeightAt(fact, l) \in Nat /\ HeightAt(fact, r) \in Nat
  BY FactsTyped
<1>3. PICK f \in Facts : /\ f.keys = keys
                         /\ f.height = HeightAt(fact, l) + HeightAt(fact, r) + 1
  <2>1. [keys |-> keys, below |-> {}, above |-> {},
         height |-> HeightAt(fact, l) + HeightAt(fact, r) + 1] \in Facts
    BY <1>2 DEF Facts
  <2> QED
    BY <2>1
<1>4. PICK new, after : new = NewObject /\ after = WithFact(fact, new, f)
  OBVIOUS
<1>5. PICK fields : fields = <<Long(k), l, r>> /\ Makes(0, fields, 3)
  OBVIOUS
<1>6. /\ Carries(fact, after) /\ new \in DOMAIN after /\ after[new] = f /\ new # Null
      /\ Hd_val(mem', new) = Header(3, 0)
      /\ \A i \in 0 .. 2 : At(new, i)' = fields[i + 1]
  <2>1. /\ Carries(fact, after) /\ new \in DOMAIN after /\ after[new] = f /\ new # Null
        /\ Hd_val(mem', new) = Header(3, 0)
        /\ \A i \in 0 .. 3 - 1 : At(new, i)' = fields[i + 1]
    BY <1>4, <1>5, MakesCarries
  <2> QED
    BY <2>1
<1>7. At(new, 0)' = Long(k) /\ At(new, 1)' = l /\ At(new, 2)' = r
  BY <1>5, <1>6
<1>8. /\ TreeAt(after, l)' /\ KeysAt(after, l) = KeysAt(fact, l)
      /\ HeightAt(after, l) = HeightAt(fact, l)
      /\ TreeAt(after, r)' /\ KeysAt(after, r) = KeysAt(fact, r)
      /\ HeightAt(after, r) = HeightAt(fact, r)
  BY <1>1, <1>6, TreeStays
<1>9. NodeIs(after, new, k, l, r)'
  BY <1>2, <1>3, <1>6, <1>8 DEF NodeIs
<1>10. Means(after, new)'
  <2>1. NodeIs(after, new, k, At(new, 1), At(new, 2))'
    BY <1>7, <1>9
  <2> QED
    BY <1>6, <1>7, <2>1 DEF Means, NodeHeader
<1>11. AllMeant(after)'
  BY <1>4, <1>5, <1>10, MakesMeant
<1>12. TreeAt(after, new)' /\ KeysAt(after, new) = keys
  BY <1>3, <1>6 DEF TreeAt, KeysAt, NodeHeader
<1>13. /\ KontAt(after, Code(g), e)'
       /\ BelowAt(after, e) = BelowAt(fact, e) /\ AboveAt(after, e) = AboveAt(fact, e)
  BY <1>1, <1>6, KontStays
<1>14. ReturningAt(after, new, Code(g), e)'
  BY <1>2, <1>12, <1>13 DEF ReturningAt, Fills
<1> QED
  BY <1>1, <1>4, <1>11, <1>14, Arrives

\* A frame is made, which remembers the key k and the tree other, and insert is given
\* the key x and the subtree t.
MakesFrame(tag, code, k, x, t, other, c, e) ==
    /\ (tag = 1 /\ code = "insert_left") \/ (tag = 2 /\ code = "insert_right")
    /\ Makes(tag, <<Long(k), other, c, e>>, 4)
    /\ args'[1] = t /\ args'[2] = Long(x) /\ args'[3] = Code(code) /\ args'[4] = NewObject
    /\ fun' = "insert" /\ UNCHANGED inserted

\* f is the fact of that frame.
FrameFact(fact, f, tag, k, x, t, other, e) ==
    /\ Precedes(f.below, f.above)
    /\ Precedes(BelowAt(fact, e), {k} \cup KeysAt(fact, other))
    /\ Precedes({k} \cup KeysAt(fact, other), AboveAt(fact, e))
    /\ tag = 1 => /\ f.below = BelowAt(fact, e)
                  /\ f.above = {k} \cup KeysAt(fact, other) \cup AboveAt(fact, e)
                  /\ Precedes({k}, KeysAt(fact, other))
    /\ tag = 2 => /\ f.below = BelowAt(fact, e) \cup KeysAt(fact, other) \cup {k}
                  /\ f.above = AboveAt(fact, e)
                  /\ Precedes(KeysAt(fact, other), {k})
    /\ Precedes(f.below, KeysAt(fact, t) \cup {x})
    /\ Precedes(KeysAt(fact, t) \cup {x}, f.above)
    /\ inserted = f.below \cup (KeysAt(fact, t) \cup {x}) \cup f.above

LEMMA FrameMade ==
    ASSUME HeapInv, Bookkeeping, HeapInv', Bookkeeping', NEW fact, AllMeant(fact),
           inserted \subseteq Nat,
           NEW code, NEW tag, NEW k \in Nat, NEW x \in Nat, NEW t, NEW other, NEW c, NEW e,
           MakesFrame(tag, code, k, x, t, other, c, e),
           TreeAt(fact, t), TreeAt(fact, other), KontAt(fact, c, e),
           NEW f \in Facts, FrameFact(fact, f, tag, k, x, t, other, e)
    PROVE  TreeInv'
<1>1. pc # "copying" /\ pc' # "copying" /\ pc' = "entry"
  BY DEF MakesFrame, Makes
<1>2. PICK new, after : new = NewObject /\ after = WithFact(fact, new, f)
  OBVIOUS
<1>3. PICK fields : fields = <<Long(k), other, c, e>> /\ Makes(tag, fields, 4)
  BY DEF MakesFrame
<1>4. /\ Carries(fact, after) /\ new \in DOMAIN after /\ after[new] = f /\ new[1] # "long"
      /\ Hd_val(mem', new) = Header(4, tag)
      /\ \A i \in 0 .. 3 : At(new, i)' = fields[i + 1]
  <2>1. /\ Carries(fact, after) /\ new \in DOMAIN after /\ after[new] = f /\ new[1] # "long"
        /\ Hd_val(mem', new) = Header(4, tag)
        /\ \A i \in 0 .. 4 - 1 : At(new, i)' = fields[i + 1]
    BY <1>2, <1>3, MakesCarries
  <2> QED
    BY <2>1
<1>5. At(new, 0)' = Long(k) /\ At(new, 1)' = other /\ At(new, 2)' = c /\ At(new, 3)' = e
  BY <1>3, <1>4
<1>6. /\ TreeAt(after, other)' /\ KeysAt(after, other) = KeysAt(fact, other)
      /\ TreeAt(after, t)' /\ KeysAt(after, t) = KeysAt(fact, t)
  BY <1>1, <1>4, TreeStays
<1>7. /\ KontAt(after, c, e)'
      /\ BelowAt(after, e) = BelowAt(fact, e) /\ AboveAt(after, e) = AboveAt(fact, e)
  BY <1>1, <1>4, KontStays
<1>8. FrameIs(after, new, k, other, c, e)'
  BY <1>4, <1>6, <1>7 DEF FrameIs, FrameFact
<1>9. /\ tag = 1 => LeftIs(after, new, k, other, e)
      /\ tag = 2 => RightIs(after, new, k, other, e)
  BY <1>4, <1>6, <1>7 DEF LeftIs, RightIs, FrameFact
<1>10. Means(after, new)'
  <2>1. FrameIs(after, new, k, At(new, 1), At(new, 2), At(new, 3))'
    BY <1>5, <1>8
  <2>2. /\ tag = 1 => LeftIs(after, new, k, At(new, 1)', At(new, 3)')
        /\ tag = 2 => RightIs(after, new, k, At(new, 1)', At(new, 3)')
    BY <1>5, <1>9
  <2>3. /\ Hd_val(mem', new) \in {LeftHeader, RightHeader}
        /\ Hd_val(mem', new) = LeftHeader => tag = 1
        /\ Hd_val(mem', new) = RightHeader => tag = 2
    BY <1>4 DEF LeftHeader, RightHeader, Header, MakesFrame
  <2> QED
    BY <1>5, <2>1, <2>2, <2>3 DEF Means, LeftIs, RightIs
<1>11. AllMeant(after)'
  BY <1>2, <1>3, <1>10, MakesMeant
<1>12. /\ KontAt(after, Code(code), new)'
       /\ BelowAt(after, new) = f.below /\ AboveAt(after, new) = f.above
  BY <1>4 DEF KontAt, BelowAt, AboveAt, LeftHeader, RightHeader, MakesFrame
<1>13. InsertingAt(after, t, Long(x), Code(code), new)'
  BY <1>6, <1>12 DEF InsertingAt, Fills, FrameFact, MakesFrame
<1>14. "insert" \in DOMAIN FunInfo
  BY DEF FunInfo
<1>15. /\ inserted' = inserted /\ fun' = "insert"
       /\ args'[1] = t /\ args'[2] = Long(x) /\ args'[3] = Code(code) /\ args'[4] = new
  BY <1>2 DEF MakesFrame
<1> QED
  BY <1>1, <1>11, <1>13, <1>14, <1>15, Arrives

-----------------------------------------------------------------------------
(* Each function. *)

\* A function runs and its facts are known.
Runs(fact) ==
    /\ HeapInv /\ Bookkeeping /\ Requests /\ Explains(fact) /\ pc = "mutator"
    /\ DOMAIN args = ArgSlots /\ 1 .. 4 \subseteq ArgSlots

LEMMA Allocations ==
    /\ DOMAIN FunInfo = {"build", "insert", "insert_left", "insert_right"}
    /\ FunInfo["insert"].num_allocs = 5
    /\ FunInfo["insert_left"].num_allocs = 4 /\ FunInfo["insert_right"].num_allocs = 4
  BY DEF FunInfo

\* A function returns: the frame's code is one that waits for a tree.
LEMMA ReturnTo ==
    ASSUME NEW fact, NEW c, NEW e, KontAt(fact, c, e), HeapInv, Bookkeeping, AllMeant(fact)
    PROVE  \E g \in DOMAIN FunInfo : g # "insert" /\ c[2] = g /\ c = Code(g)
  BY KontSound, Allocations

LEMMA InsertLeafStep ==
    ASSUME NEW fact, Runs(fact), InsertLeaf
    PROVE  AnyBody /\ (HeapInv' /\ Bookkeeping' => TreeInv')
<1>1. /\ HeapInv /\ Bookkeeping /\ AllMeant(fact) /\ budget = 5 /\ fun = "insert"
      /\ InsertingAt(fact, args[1], args[2], args[3], args[4])
      /\ inserted \subseteq Nat
  BY Here, Allocations DEF Runs, InsertLeaf, Running, Requests
<1>2. PICK k \in Nat : args[2] = Long(k) /\ Fills(fact, KeysAt(fact, args[1]) \cup {k}, args[4])
  BY <1>1 DEF InsertingAt
<1>3. PICK fields : fields = <<Long(k), Null, Null>> /\ Makes(0, fields, 3)
  <2>1. PICK fields : fields = <<Long(k), Null, Null>>
    OBVIOUS
  <2>2. Len(fields) = 3 /\ \A i \in 1 .. 3 : Sound(fields[i])
    <3>1. Sound(fields[1]) /\ Sound(fields[2]) /\ Sound(fields[3])
      BY <2>1, PlainValues
    <3>2. \A i \in 1 .. 3 : i = 1 \/ i = 2 \/ i = 3
      OBVIOUS
    <3> QED
      BY <2>1, <3>1, <3>2
  <2>3. ConsN(0, fields)
    BY <1>2, <2>1 DEF InsertLeaf
  <2> QED
    BY <1>1, <2>1, <2>2, <2>3 DEF Makes, Runs, InsertLeaf, Jump
<1>4. PICK g \in DOMAIN FunInfo : g # "insert" /\ args[3][2] = g /\ args[3] = Code(g)
  BY <1>1, ReturnTo DEF InsertingAt
<1>5. args' = [args EXCEPT ![1] = NewObject] /\ fun' = g
  BY <1>4 DEF InsertLeaf, Jump
<1>6. AnyBody
  BY <1>1, <1>3, <1>5, MakesBody DEF Runs
<1>7. ASSUME HeapInv', Bookkeeping' PROVE TreeInv'
  <2>1. args'[1] = NewObject /\ args'[4] = args[4]
    BY <1>5 DEF Runs
  <2>2. PICK e : e = args[4] /\ args'[4] = e /\ KontAt(fact, Code(g), e)
    BY <1>1, <1>4, <2>1 DEF InsertingAt
  <2>3. TreeAt(fact, Null) /\ KeysAt(fact, Null) = {}
    BY DEF TreeAt, KeysAt
  <2>4. Fills(fact, KeysAt(fact, Null) \cup {k} \cup KeysAt(fact, Null), e)
    <3>1. KeysAt(fact, args[1]) = {}
      BY DEF InsertLeaf, KeysAt
    <3> QED
      BY <1>2, <2>2, <2>3, <3>1
  <2>5. Precedes(KeysAt(fact, Null), {k}) /\ Precedes({k}, KeysAt(fact, Null))
    BY <2>3 DEF Precedes
  <2>6. inserted' = inserted
    BY DEF InsertLeaf
  <2>7. Makes(0, <<Long(k), Null, Null>>, 3)
    BY <1>3
  <2> QED
    BY <1>1, <1>4, <1>5, <1>7, <2>1, <2>2, <2>3, <2>4, <2>5, <2>6, <2>7, NodeMade
<1> QED
  BY <1>6, <1>7

\* What there is to know of the frame of insert_left: k is the key it remembers, R
\* the keys of the other tree, L those of the tree below, x the new key.
LEMMA LeftSets ==
    ASSUME NEW B \in SUBSET Nat, NEW A \in SUBSET Nat, NEW L \in SUBSET Nat, NEW R \in SUBSET Nat,
           NEW k \in Nat, NEW x \in Nat, x < k,
           Precedes(L, {k}), Precedes({k}, R),
           Precedes(B, (L \cup {k} \cup R) \cup {x}), Precedes((L \cup {k} \cup R) \cup {x}, A),
           Precedes(B, A)
    PROVE  /\ Precedes(B, {k} \cup R \cup A) /\ Precedes(B, {k} \cup R)
           /\ Precedes({k} \cup R, A)
           /\ Precedes(B, L \cup {x}) /\ Precedes(L \cup {x}, {k} \cup R \cup A)
  BY DEF Precedes

LEMMA RightSets ==
    ASSUME NEW B \in SUBSET Nat, NEW A \in SUBSET Nat, NEW L \in SUBSET Nat, NEW R \in SUBSET Nat,
           NEW k \in Nat, NEW x \in Nat, x > k,
           Precedes(L, {k}), Precedes({k}, R),
           Precedes(B, (L \cup {k} \cup R) \cup {x}), Precedes((L \cup {k} \cup R) \cup {x}, A),
           Precedes(B, A)
    PROVE  /\ Precedes(B \cup L \cup {k}, A) /\ Precedes(B, {k} \cup L)
           /\ Precedes({k} \cup L, A)
           /\ Precedes(B \cup L \cup {k}, R \cup {x}) /\ Precedes(R \cup {x}, A)
  BY DEF Precedes

LEMMA InsertDownStep ==
    ASSUME NEW fact, Runs(fact), InsertDown
    PROVE  AnyBody /\ (HeapInv' /\ Bookkeeping' => TreeInv')
<1>1. /\ HeapInv /\ Bookkeeping /\ AllMeant(fact) /\ budget = 5 /\ fun = "insert"
      /\ InsertingAt(fact, args[1], args[2], args[3], args[4])
      /\ inserted \subseteq Nat /\ pc = "mutator"
  BY Here, Allocations DEF Runs, InsertDown, Running, Requests
<1>2. PICK t, c, e : t = args[1] /\ c = args[3] /\ e = args[4]
  OBVIOUS
<1>3. PICK x \in Nat : args[2] = Long(x) /\ Fills(fact, KeysAt(fact, t) \cup {x}, e)
  BY <1>1, <1>2 DEF InsertingAt
<1>4. t \in DOMAIN fact /\ Hd_val(mem, t) = NodeHeader /\ t # Null
  BY <1>1, <1>2 DEF InsertingAt, InsertDown, TreeAt
<1>5. PICK k \in Nat : /\ Field(mem, t, 0) = Long(k)
                       /\ NodeIs(fact, t, k, Field(mem, t, 1), Field(mem, t, 2))
  BY <1>1, <1>4, NodeFields
<1>6. PICK l, r : l = Field(mem, t, 1) /\ r = Field(mem, t, 2) /\ NodeIs(fact, t, k, l, r)
  BY <1>5
<1>7. PICK B, A, L, R : /\ B = BelowAt(fact, e) /\ A = AboveAt(fact, e)
                        /\ L = KeysAt(fact, l) /\ R = KeysAt(fact, r)
  OBVIOUS
<1>8. KontAt(fact, c, e) /\ TreeAt(fact, l) /\ TreeAt(fact, r)
  BY <1>1, <1>2, <1>6 DEF InsertingAt, NodeIs
<1>9. B \in SUBSET Nat /\ A \in SUBSET Nat /\ L \in SUBSET Nat /\ R \in SUBSET Nat
  BY <1>1, <1>7, <1>8, FactsTyped
<1>10. /\ Precedes(L, {k}) /\ Precedes({k}, R) /\ KeysAt(fact, t) = L \cup {k} \cup R
       /\ Precedes(B, (L \cup {k} \cup R) \cup {x}) /\ Precedes((L \cup {k} \cup R) \cup {x}, A)
       /\ Precedes(B, A) /\ inserted = B \cup ((L \cup {k} \cup R) \cup {x}) \cup A
  BY <1>3, <1>4, <1>6, <1>7 DEF NodeIs, KeysAt, Fills
<1>11. Sound(e) /\ Sound(c) /\ Sound(l) /\ Sound(r)
  BY <1>1, <1>8, KontSound, TreeSound
<1>12. ASSUME NEW into, NEW tag \in {1, 2}, NEW other, NEW code, Sound(into), Sound(other),
              Descend(into, tag, Long(k), other, code)
       PROVE  /\ Makes(tag, <<Long(k), other, c, e>>, 4) /\ AnyBody
              /\ args'[1] = into /\ args'[2] = Long(x) /\ args'[3] = Code(code)
              /\ args'[4] = NewObject /\ fun' = "insert" /\ inserted' = inserted
  <2>1. PICK fields : fields = <<Long(k), other, c, e>>
    OBVIOUS
  <2>2. Len(fields) = 4 /\ \A i \in 1 .. 4 : Sound(fields[i])
    <3>1. Sound(fields[1]) /\ Sound(fields[2]) /\ Sound(fields[3]) /\ Sound(fields[4])
      BY <1>11, <1>12, <2>1, PlainValues
    <3>2. \A i \in 1 .. 4 : i = 1 \/ i = 2 \/ i = 3 \/ i = 4
      OBVIOUS
    <3> QED
      BY <2>1, <3>1, <3>2
  <2>3. ConsN(tag, fields)
    BY <1>2, <1>12, <2>1 DEF Descend
  <2>4. Makes(tag, fields, 4)
    BY <1>1, <1>12, <2>2, <2>3 DEF Makes, Descend, Jump
  <2>5. args' = [args EXCEPT ![1] = into, ![3] = Code(code), ![4] = NewObject]
    BY <1>12 DEF Descend
  <2>6. Sound(Code(code))
    BY PlainValues
  <2>7. DOMAIN args' = ArgSlots
        /\ \A j \in ArgSlots : args'[j] = args[j] \/ Sound(args'[j]) \/ args'[j] = NewObject
    BY <1>12, <2>5, <2>6 DEF Runs
  <2>8. AnyBody
    BY <1>1, <2>4, <2>7, MakesBody
  <2>9. /\ args'[1] = into /\ args'[2] = Long(x) /\ args'[3] = Code(code) /\ args'[4] = NewObject
    BY <1>3, <2>5 DEF Runs
  <2> QED
    BY <1>12, <2>1, <2>4, <2>8, <2>9 DEF Descend, Jump
<1>13. CASE x < k /\ Descend(l, 1, Long(k), r, "insert_left")
  <2>1. /\ Makes(1, <<Long(k), r, c, e>>, 4) /\ AnyBody
        /\ args'[1] = l /\ args'[2] = Long(x) /\ args'[3] = Code("insert_left")
        /\ args'[4] = NewObject /\ fun' = "insert" /\ inserted' = inserted
    BY <1>11, <1>12, <1>13
  <2>2. PICK f \in Facts : f.below = B /\ f.above = {k} \cup R \cup A
    <3>1. [keys |-> {}, below |-> B, above |-> {k} \cup R \cup A, height |-> 0] \in Facts
      BY <1>9 DEF Facts
    <3> QED
      BY <3>1
  <2>3. /\ Precedes(B, {k} \cup R \cup A) /\ Precedes(B, {k} \cup R)
        /\ Precedes({k} \cup R, A)
        /\ Precedes(B, L \cup {x}) /\ Precedes(L \cup {x}, {k} \cup R \cup A)
    BY <1>9, <1>10, <1>13, LeftSets
  <2>4. inserted = f.below \cup (L \cup {x}) \cup f.above
    BY <1>10, <2>2
  <2>5. ASSUME HeapInv', Bookkeeping' PROVE TreeInv'
    <3>1. FrameFact(fact, f, 1, k, x, l, r, e)
      BY <1>7, <1>10, <2>2, <2>3, <2>4 DEF FrameFact
    <3>2. MakesFrame(1, "insert_left", k, x, l, r, c, e)
      BY <2>1 DEF MakesFrame
    <3> QED
      BY <1>1, <1>8, <2>5, <3>1, <3>2, FrameMade
  <2> QED
    BY <2>1, <2>5
<1>14. CASE x > k /\ Descend(r, 2, Long(k), l, "insert_right")
  <2>1. /\ Makes(2, <<Long(k), l, c, e>>, 4) /\ AnyBody
        /\ args'[1] = r /\ args'[2] = Long(x) /\ args'[3] = Code("insert_right")
        /\ args'[4] = NewObject /\ fun' = "insert" /\ inserted' = inserted
    BY <1>11, <1>12, <1>14
  <2>2. PICK f \in Facts : f.below = B \cup L \cup {k} /\ f.above = A
    <3>1. [keys |-> {}, below |-> B \cup L \cup {k}, above |-> A, height |-> 0] \in Facts
      BY <1>9 DEF Facts
    <3> QED
      BY <3>1
  <2>3. /\ Precedes(B \cup L \cup {k}, A) /\ Precedes(B, {k} \cup L)
        /\ Precedes({k} \cup L, A)
        /\ Precedes(B \cup L \cup {k}, R \cup {x}) /\ Precedes(R \cup {x}, A)
    BY <1>9, <1>10, <1>14, RightSets
  <2>4. inserted = f.below \cup (R \cup {x}) \cup f.above
    BY <1>10, <2>2
  <2>5. ASSUME HeapInv', Bookkeeping' PROVE TreeInv'
    <3>1. FrameFact(fact, f, 2, k, x, r, l, e)
      BY <1>7, <1>10, <2>2, <2>3, <2>4 DEF FrameFact
    <3>2. MakesFrame(2, "insert_right", k, x, r, l, c, e)
      BY <2>1 DEF MakesFrame
    <3> QED
      BY <1>1, <1>8, <2>5, <3>1, <3>2, FrameMade
  <2> QED
    BY <2>1, <2>5
<1>15. \/ x < k /\ Descend(l, 1, Long(k), r, "insert_left")
       \/ x > k /\ Descend(r, 2, Long(k), l, "insert_right")
  <2>1. Long(x)[2] = x /\ Long(k)[2] = k
    BY DEF Long
  <2> QED
    BY <1>2, <1>3, <1>5, <1>6, <2>1 DEF InsertDown
<1> QED
  BY <1>13, <1>14, <1>15

\* The facts say nothing of what has not changed.
LEMMA MeaningStays ==
    ASSUME mem' = mem, next' = next, alloc' = alloc, pc # "copying", pc' # "copying"
    PROVE  \A fact : AllMeant(fact) => AllMeant(fact)'
<1>1. \A x : Current(x) = x /\ Current(x)' = x
  BY CurrentHere, CurrentThere
<1>2. \A v, i : At(v, i)' = At(v, i)
  BY <1>1 DEF At
<1>3. Objects' = Objects
  BY DEF Objects, ObjectsBetween, InUse
<1>4. \A fact, v, k, l, r : NodeIs(fact, v, k, l, r) => NodeIs(fact, v, k, l, r)'
  BY DEF NodeIs, TreeAt
<1>5. \A fact, v, k, t, c, e : FrameIs(fact, v, k, t, c, e) => FrameIs(fact, v, k, t, c, e)'
  BY DEF FrameIs, TreeAt, KontAt
<1>6. ASSUME NEW fact, NEW v, Means(fact, v) PROVE Means(fact, v)'
  <2>1. PICK l, r, c : l = At(v, 1) /\ r = At(v, 2) /\ c = At(v, 3)
                       /\ l = At(v, 1)' /\ r = At(v, 2)' /\ c = At(v, 3)'
    BY <1>2
  <2>2. \A k : NodeIs(fact, v, k, At(v, 1), At(v, 2)) => NodeIs(fact, v, k, At(v, 1), At(v, 2))'
    BY <1>4, <2>1
  <2>3. \A k : FrameIs(fact, v, k, At(v, 1), At(v, 2), At(v, 3)) =>
                   FrameIs(fact, v, k, At(v, 1), At(v, 2), At(v, 3))'
    BY <1>5, <2>1
  <2> QED
    BY <1>2, <1>6, <2>2, <2>3 DEF Means, LeftIs, RightIs
<1> QED
  BY <1>3, <1>6 DEF AllMeant

LEMMA SoundStays ==
    /\ \A k : Sound(Long(k))' /\ \A f : Sound(Code(f))' /\ Sound(Null)'
  BY DEF Sound, Word, IsPtr, IsHeader, Long, Code, Null

LEMMA InsertFoundStep ==
    ASSUME NEW fact, Runs(fact), InsertFound
    PROVE  AnyBody /\ TreeInv'
<1>1. /\ HeapInv /\ Bookkeeping /\ AllMeant(fact) /\ fun = "insert" /\ pc = "mutator"
      /\ InsertingAt(fact, args[1], args[2], args[3], args[4])
      /\ inserted \subseteq Nat
  BY Here DEF Runs, InsertFound, Running, Requests
<1>2. PICK t, w, c, e : t = args[1] /\ w = args[2] /\ c = args[3] /\ e = args[4]
  OBVIOUS
<1>3. PICK x \in Nat : w = Long(x) /\ Fills(fact, KeysAt(fact, t) \cup {x}, e)
  BY <1>1, <1>2 DEF InsertingAt
<1>4. PICK g \in DOMAIN FunInfo : g # "insert" /\ c[2] = g /\ c = Code(g)
  BY <1>1, <1>2, ReturnTo DEF InsertingAt
<1>5. /\ UNCHANGED <<mem, alloc, budget, args, next, limit, fi, gen, copyVars, result>>
      /\ fun' = g /\ pc' = "entry" /\ inserted' = inserted
  BY <1>2, <1>4 DEF InsertFound, NoCons, Jump
<1>6. AnyBody
  BY <1>1, <1>5 DEF AnyBody, StoreInArgs, Runs
<1>7. x \in KeysAt(fact, t)
  <2>1. t \in DOMAIN fact /\ Hd_val(mem, t) = NodeHeader /\ t # Null
    BY <1>1, <1>2 DEF InsertingAt, InsertFound, TreeAt
  <2>2. PICK k \in Nat : /\ Field(mem, t, 0) = Long(k)
                         /\ NodeIs(fact, t, k, Field(mem, t, 1), Field(mem, t, 2))
    BY <1>1, <2>1, NodeFields
  <2>3. k = x
    BY <1>2, <1>3, <2>2 DEF InsertFound, Long
  <2> QED
    BY <2>1, <2>2, <2>3 DEF NodeIs, KeysAt
<1>8. /\ TreeAt(fact, t) /\ KontAt(fact, Code(g), e)
      /\ Fills(fact, KeysAt(fact, t), e)
  <2>1. KeysAt(fact, t) \cup {x} = KeysAt(fact, t)
    BY <1>7
  <2> QED
    BY <1>1, <1>2, <1>3, <1>4, <2>1 DEF InsertingAt
<1>9. AllMeant(fact)' /\ ReturningAt(fact, t, Code(g), e)'
  BY <1>1, <1>5, <1>8, MeaningStays DEF ReturningAt, Fills, TreeAt, KontAt
<1>10. args'[1] = t /\ args'[2] = w /\ args'[3] = c /\ args'[4] = e /\ inserted' \subseteq Nat
  BY <1>1, <1>2, <1>5
<1> QED
  BY <1>4, <1>5, <1>6, <1>9, <1>10, Arrives

\* A frame is taken off, and the node it remembers is made.
LEMMA RebuildStep ==
    ASSUME NEW fact, Runs(fact), HeapInv, Bookkeeping, AllMeant(fact), budget = 4,
           inserted \subseteq Nat, NEW e, e = args[4],
           NEW k \in Nat, NEW l, NEW r, Rebuild(<<Long(k), l, r>>),
           TreeAt(fact, l), TreeAt(fact, r), Precedes(KeysAt(fact, l), {k}),
           Precedes({k}, KeysAt(fact, r)),
           NEW c, NEW e2, c = Field(mem, e, 2), e2 = Field(mem, e, 3), KontAt(fact, c, e2),
           Fills(fact, KeysAt(fact, l) \cup {k} \cup KeysAt(fact, r), e2)
    PROVE  AnyBody /\ (HeapInv' /\ Bookkeeping' => TreeInv')
<1>1. PICK fields : fields = <<Long(k), l, r>>
  OBVIOUS
<1>2. Len(fields) = 3 /\ \A i \in 1 .. 3 : Sound(fields[i])
  <2>1. Sound(fields[1]) /\ Sound(fields[2]) /\ Sound(fields[3])
    BY <1>1, PlainValues, TreeSound
  <2>2. \A i \in 1 .. 3 : i = 1 \/ i = 2 \/ i = 3
    OBVIOUS
  <2> QED
    BY <1>1, <2>1, <2>2
<1>3. PICK g \in DOMAIN FunInfo : g # "insert" /\ c[2] = g /\ c = Code(g)
  BY ReturnTo
<1>4. /\ ConsN(0, fields) /\ args' = [args EXCEPT ![1] = NewObject, ![4] = e2]
      /\ pc' = "entry" /\ fun' = g /\ inserted' = inserted
      /\ UNCHANGED <<next, limit, fi, gen, copyVars, result>>
  BY <1>1, <1>3 DEF Rebuild, Jump
<1>5. Makes(0, fields, 3)
  BY <1>2, <1>4 DEF Makes, Runs
<1>6. Sound(e2)
  BY KontSound
<1>7. DOMAIN args' = ArgSlots
      /\ \A j \in ArgSlots : args'[j] = args[j] \/ Sound(args'[j]) \/ args'[j] = NewObject
  BY <1>4, <1>6 DEF Runs
<1>8. AnyBody
  BY <1>5, <1>7, MakesBody
<1>9. ASSUME HeapInv', Bookkeeping' PROVE TreeInv'
  <2>1. args'[1] = NewObject /\ args'[4] = e2
    BY <1>4 DEF Runs
  <2>2. Makes(0, <<Long(k), l, r>>, 3)
    BY <1>1, <1>5
  <2>3. KontAt(fact, Code(g), e2)
    BY <1>3
  <2>4. fun' = g /\ inserted' = inserted
    BY <1>4
  <2> QED
    BY <1>3, <1>9, <2>1, <2>2, <2>3, <2>4, NodeMade
<1> QED
  BY <1>8, <1>9

LEMMA LeftBack ==
    ASSUME NEW B \in SUBSET Nat, NEW A \in SUBSET Nat, NEW L \in SUBSET Nat, NEW R \in SUBSET Nat,
           NEW k \in Nat, Precedes(B, L), Precedes(L, {k} \cup R \cup A),
           Precedes(B, {k} \cup R), Precedes({k} \cup R, A), Precedes(B, {k} \cup R \cup A)
    PROVE  /\ Precedes(L, {k}) /\ Precedes(B, A)
           /\ Precedes(B, L \cup {k} \cup R) /\ Precedes(L \cup {k} \cup R, A)
  BY DEF Precedes

LEMMA RightBack ==
    ASSUME NEW B \in SUBSET Nat, NEW A \in SUBSET Nat, NEW L \in SUBSET Nat, NEW R \in SUBSET Nat,
           NEW k \in Nat, Precedes(B \cup L \cup {k}, R), Precedes(R, A),
           Precedes(B, {k} \cup L), Precedes({k} \cup L, A), Precedes(B \cup L \cup {k}, A)
    PROVE  /\ Precedes({k}, R) /\ Precedes(B, A)
           /\ Precedes(B, L \cup {k} \cup R) /\ Precedes(L \cup {k} \cup R, A)
  BY DEF Precedes

LEMMA InsertLeftStep ==
    ASSUME NEW fact, Runs(fact), InsertLeft
    PROVE  AnyBody /\ (HeapInv' /\ Bookkeeping' => TreeInv')
<1>1. /\ HeapInv /\ Bookkeeping /\ AllMeant(fact) /\ fun = "insert_left" /\ pc = "mutator"
      /\ budget = 4 /\ ReturningAt(fact, args[1], Code("insert_left"), args[4])
      /\ inserted \subseteq Nat
  BY Here, Allocations DEF Runs, InsertLeft, Running, Requests
<1>2. PICK l, e : l = args[1] /\ e = args[4]
  OBVIOUS
<1>3. e \in DOMAIN fact /\ Hd_val(mem, e) = LeftHeader /\ TreeAt(fact, l)
      /\ Fills(fact, KeysAt(fact, l), e)
  BY <1>1, <1>2 DEF ReturningAt, KontAt, Code
<1>4. PICK k \in Nat :
          /\ Field(mem, e, 0) = Long(k)
          /\ FrameIs(fact, e, k, Field(mem, e, 1), Field(mem, e, 2), Field(mem, e, 3))
          /\ LeftIs(fact, e, k, Field(mem, e, 1), Field(mem, e, 3))
  BY <1>1, <1>3, FrameFields
<1>5. PICK r, c, e2 : r = Field(mem, e, 1) /\ c = Field(mem, e, 2) /\ e2 = Field(mem, e, 3)
                      /\ FrameIs(fact, e, k, r, c, e2) /\ LeftIs(fact, e, k, r, e2)
  BY <1>4
<1>6. PICK B, A, L, R : /\ B = BelowAt(fact, e2) /\ A = AboveAt(fact, e2)
                        /\ L = KeysAt(fact, l) /\ R = KeysAt(fact, r)
  OBVIOUS
<1>7. TreeAt(fact, r) /\ KontAt(fact, c, e2)
  BY <1>5 DEF FrameIs
<1>8. B \in SUBSET Nat /\ A \in SUBSET Nat /\ L \in SUBSET Nat /\ R \in SUBSET Nat
  BY <1>1, <1>3, <1>6, <1>7, FactsTyped
<1>9. BelowAt(fact, e) = B /\ AboveAt(fact, e) = {k} \cup R \cup A
  <2>1. e[1] # "long"
    BY <1>1, <1>3, ObjectSound DEF AllMeant
  <2> QED
    BY <1>5, <1>6, <2>1 DEF BelowAt, AboveAt, LeftIs
<1>10. /\ Precedes(B, L) /\ Precedes(L, {k} \cup R \cup A)
       /\ Precedes(B, {k} \cup R) /\ Precedes({k} \cup R, A) /\ Precedes(B, {k} \cup R \cup A)
       /\ Precedes({k}, R) /\ inserted = B \cup L \cup ({k} \cup R \cup A)
  BY <1>3, <1>5, <1>6, <1>9 DEF Fills, FrameIs, LeftIs
<1>11. /\ Precedes(L, {k}) /\ Precedes(B, A)
       /\ Precedes(B, L \cup {k} \cup R) /\ Precedes(L \cup {k} \cup R, A)
  BY <1>8, <1>10, LeftBack
<1>12. inserted = B \cup (L \cup {k} \cup R) \cup A
  BY <1>10
<1>13. Fills(fact, KeysAt(fact, l) \cup {k} \cup KeysAt(fact, r), e2)
  BY <1>6, <1>11, <1>12 DEF Fills
<1>14. Rebuild(<<Long(k), l, r>>)
  BY <1>2, <1>4, <1>5 DEF InsertLeft
<1>15. Precedes(KeysAt(fact, l), {k}) /\ Precedes({k}, KeysAt(fact, r))
  BY <1>6, <1>10, <1>11
<1> QED
  BY <1>1, <1>2, <1>3, <1>5, <1>7, <1>13, <1>14, <1>15, RebuildStep

LEMMA InsertRightStep ==
    ASSUME NEW fact, Runs(fact), InsertRight
    PROVE  AnyBody /\ (HeapInv' /\ Bookkeeping' => TreeInv')
<1>1. /\ HeapInv /\ Bookkeeping /\ AllMeant(fact) /\ fun = "insert_right" /\ pc = "mutator"
      /\ budget = 4 /\ ReturningAt(fact, args[1], Code("insert_right"), args[4])
      /\ inserted \subseteq Nat
  BY Here, Allocations DEF Runs, InsertRight, Running, Requests
<1>2. PICK r, e : r = args[1] /\ e = args[4]
  OBVIOUS
<1>3. e \in DOMAIN fact /\ Hd_val(mem, e) = RightHeader /\ TreeAt(fact, r)
      /\ Fills(fact, KeysAt(fact, r), e)
  BY <1>1, <1>2 DEF ReturningAt, KontAt, Code
<1>4. PICK k \in Nat :
          /\ Field(mem, e, 0) = Long(k)
          /\ FrameIs(fact, e, k, Field(mem, e, 1), Field(mem, e, 2), Field(mem, e, 3))
          /\ RightIs(fact, e, k, Field(mem, e, 1), Field(mem, e, 3))
  BY <1>1, <1>3, FrameFields
<1>5. PICK l, c, e2 : l = Field(mem, e, 1) /\ c = Field(mem, e, 2) /\ e2 = Field(mem, e, 3)
                      /\ FrameIs(fact, e, k, l, c, e2) /\ RightIs(fact, e, k, l, e2)
  BY <1>4
<1>6. PICK B, A, L, R : /\ B = BelowAt(fact, e2) /\ A = AboveAt(fact, e2)
                        /\ L = KeysAt(fact, l) /\ R = KeysAt(fact, r)
  OBVIOUS
<1>7. TreeAt(fact, l) /\ KontAt(fact, c, e2)
  BY <1>5 DEF FrameIs
<1>8. B \in SUBSET Nat /\ A \in SUBSET Nat /\ L \in SUBSET Nat /\ R \in SUBSET Nat
  BY <1>1, <1>3, <1>6, <1>7, FactsTyped
<1>9. BelowAt(fact, e) = B \cup L \cup {k} /\ AboveAt(fact, e) = A
  <2>1. e[1] # "long"
    BY <1>1, <1>3, ObjectSound DEF AllMeant
  <2> QED
    BY <1>5, <1>6, <2>1 DEF BelowAt, AboveAt, RightIs
<1>10. /\ Precedes(B \cup L \cup {k}, R) /\ Precedes(R, A)
       /\ Precedes(B, {k} \cup L) /\ Precedes({k} \cup L, A) /\ Precedes(B \cup L \cup {k}, A)
       /\ Precedes(L, {k}) /\ inserted = (B \cup L \cup {k}) \cup R \cup A
  BY <1>3, <1>5, <1>6, <1>9 DEF Fills, FrameIs, RightIs
<1>11. /\ Precedes({k}, R) /\ Precedes(B, A)
       /\ Precedes(B, L \cup {k} \cup R) /\ Precedes(L \cup {k} \cup R, A)
  BY <1>8, <1>10, RightBack
<1>12. inserted = B \cup (L \cup {k} \cup R) \cup A
  BY <1>10
<1>13. Fills(fact, KeysAt(fact, l) \cup {k} \cup KeysAt(fact, r), e2)
  BY <1>6, <1>11, <1>12 DEF Fills
<1>14. Rebuild(<<Long(k), l, r>>)
  BY <1>2, <1>4, <1>5 DEF InsertRight
<1>15. Precedes(KeysAt(fact, l), {k}) /\ Precedes({k}, KeysAt(fact, r))
  BY <1>6, <1>10, <1>11
<1> QED
  BY <1>1, <1>2, <1>3, <1>5, <1>7, <1>13, <1>14, <1>15, RebuildStep

LEMMA NothingMeant == \E fact : AllMeant(fact) /\ AllMeant(fact)'
<1>1. PICK fact : fact = [v \in {} |-> 0]
  OBVIOUS
<1> QED
  BY <1>1 DEF AllMeant

LEMMA BuildNextStep ==
    ASSUME NEW fact, Runs(fact), BuildNext
    PROVE  AnyBody /\ TreeInv'
<1>1. /\ HeapInv /\ Bookkeeping /\ AllMeant(fact) /\ fun = "build" /\ pc = "mutator"
      /\ ReturningAt(fact, args[1], Code("build"), args[4]) /\ inserted \subseteq Nat
  BY Here DEF Runs, BuildNext, Running, Requests
<1>2. PICK k \in KeySet :
          /\ args' = [args EXCEPT ![2] = Long(k), ![3] = Code("build"),
                                  ![4] = Long(args[4][2] - 1)]
          /\ inserted' = inserted \cup {k}
  BY DEF BuildNext
<1>3. k \in Nat /\ "insert" \in DOMAIN FunInfo
  BY ProgramAssumption, Allocations
<1>4. PICK t, c, e : t = args[1] /\ c = Code("build") /\ e = Long(args[4][2] - 1)
  OBVIOUS
<1>5. args'[1] = t /\ args'[2] = Long(k) /\ args'[3] = c /\ args'[4] = e
  BY <1>2, <1>4 DEF Runs
<1>6. /\ UNCHANGED <<mem, alloc, budget, next, limit, fi, gen, copyVars, result>>
      /\ fun' = "insert" /\ pc' = "entry"
  BY DEF BuildNext, NoCons, Jump
<1>7. AnyBody
  <2>1. Sound(Long(k))' /\ Sound(c)' /\ Sound(e)'
    BY <1>4, SoundStays, PlainValues
  <2>2. DOMAIN args' = ArgSlots
    BY <1>2 DEF Runs
  <2>3. ASSUME NEW j \in ArgSlots PROVE args'[j] = args[j] \/ Sound(args[j])'
    BY <1>2, <1>4, <2>1 DEF Runs, Sound
  <2> QED
    BY <1>1, <1>6, <2>2, <2>3 DEF AnyBody, StoreInArgs
<1>8. /\ TreeAt(fact, t) /\ KontAt(fact, c, e) /\ inserted = KeysAt(fact, t)
      /\ BelowAt(fact, e) = {} /\ AboveAt(fact, e) = {}
  <2>1. e[1] = "long"
    BY <1>4 DEF Long
  <2>2. args[4][1] = "long"
    BY <1>1 DEF ReturningAt, KontAt, Code
  <2>3. BelowAt(fact, args[4]) = {} /\ AboveAt(fact, args[4]) = {}
    BY <2>2 DEF BelowAt, AboveAt
  <2> QED
    BY <1>1, <1>4, <2>1, <2>3 DEF ReturningAt, KontAt, Fills, BelowAt, AboveAt
<1>9. AllMeant(fact)' /\ TreeAt(fact, t)' /\ KontAt(fact, c, e)'
  BY <1>1, <1>6, <1>8, MeaningStays DEF TreeAt, KontAt
<1>10. InsertingAt(fact, t, Long(k), c, e)'
  BY <1>2, <1>3, <1>8, <1>9 DEF InsertingAt, Fills, Precedes
<1>11. inserted' \subseteq Nat
  BY <1>1, <1>2, <1>3
<1> QED
  BY <1>3, <1>5, <1>6, <1>7, <1>9, <1>10, <1>11, Arrives

-----------------------------------------------------------------------------
(* The block that export returned is out of the program's reach while it runs. *)

\* v does not lead into the block.
Outside(v) == IsPtr(v) => SpaceOf(v) # ValueSp

\* Where args[1] may be in the block: export has put it there.
AnswerOut ==
    \/ pc \in {"exported", "finished"}
    \/ pc = "copying" /\ copy.to = ValueSp

WordsApart == \A s \in Gens : \A i \in DOMAIN mem[s] : Outside(mem[s][i])
ArgsApart  == \A k \in ArgSlots : Outside(args[k]) \/ (k = 1 /\ AnswerOut)
Apart      == WordsApart /\ ArgsApart

LEMMA PlainOutside ==
    /\ \A k : Outside(Long(k)) /\ \A f : Outside(Code(f))
    /\ Outside(Null) /\ Outside(Unused) /\ \A n, t : Outside(Header(n, t))
    /\ \A s, i : s # ValueSp => Outside(Ptr(s, i))
  BY DEF Outside, IsPtr, SpaceOf, Long, Code, Null, Unused, Header, Ptr

LEMMA ApartStays ==
    ASSUME Apart, UNCHANGED <<mem, args>>, AnswerOut => AnswerOut' PROVE Apart'
<1>1. WordsApart'
  BY DEF Apart, WordsApart
<1>2. ArgsApart'
  BY DEF Apart, ArgsApart
<1> QED
  BY <1>1, <1>2 DEF Apart

LEMMA ArgsOutside ==
    ASSUME Apart, pc = "mutator", 1 .. 4 \subseteq ArgSlots
    PROVE  Outside(args[1]) /\ Outside(args[2]) /\ Outside(args[3]) /\ Outside(args[4])
<1>1. 1 \in ArgSlots /\ 2 \in ArgSlots /\ 3 \in ArgSlots /\ 4 \in ArgSlots
  OBVIOUS
<1> QED
  BY <1>1 DEF Apart, ArgsApart, AnswerOut

\* A new object that leads nowhere into the block.
LEMMA StoresApart ==
    ASSUME HeapInv, Bookkeeping, Apart, pc = "mutator", NEW tag, NEW fields, NEW n \in Nat,
           n = Len(fields), ConsN(tag, fields), \A i \in 1 .. n : Outside(fields[i]),
           \A k \in ArgSlots : args'[k] = args[k] \/ Outside(args'[k])
    PROVE  Apart'
<1>1. /\ 0 \in Spaces /\ DOMAIN mem = Spaces /\ Gens \subseteq Spaces /\ alloc \in Nat /\ 0 \in Gens
  BY SpaceNumbers DEF HeapInv, TypesOK, Bookkeeping, Spaces, Gens
<1>2. PICK w : w = [k \in DOMAIN mem[0] |->
            IF k = alloc + 1 THEN Header(n, tag)
            ELSE IF k \in alloc + 2 .. alloc + 1 + n THEN fields[k - alloc - 1]
            ELSE mem[0][k]]
  OBVIOUS
<1>3. mem' = [mem EXCEPT ![0] = w]
  BY <1>2 DEF ConsN
<1>4. ASSUME NEW k \in DOMAIN w PROVE Outside(w[k])
  <2>1. CASE k = alloc + 1
    BY <1>2, <2>1, PlainOutside
  <2>2. CASE k # alloc + 1 /\ k \in alloc + 2 .. alloc + 1 + n
    <3>1. k - alloc - 1 \in 1 .. n
      BY <1>1, <2>2
    <3> QED
      BY <1>2, <2>2, <3>1
  <2>3. CASE k # alloc + 1 /\ k \notin alloc + 2 .. alloc + 1 + n
    BY <1>1, <1>2, <2>3 DEF Apart, WordsApart
  <2> QED
    BY <2>1, <2>2, <2>3
<1>5. ASSUME NEW s \in Gens, NEW i \in DOMAIN mem'[s] PROVE Outside(mem'[s][i])
  <2>1. CASE s = 0
    BY <1>1, <1>3, <1>4, <1>5, <2>1
  <2>2. CASE s # 0
    BY <1>1, <1>3, <1>5, <2>2 DEF Apart, WordsApart
  <2> QED
    BY <2>1, <2>2
<1>6. WordsApart'
  BY <1>5 DEF WordsApart, Outside
<1>7. ASSUME NEW k \in ArgSlots PROVE Outside(args'[k])
  BY DEF Apart, ArgsApart, AnswerOut
<1>8. ArgsApart'
  BY <1>7 DEF ArgsApart, Outside
<1> QED
  BY <1>6, <1>8 DEF Apart

\* What an object outside the block holds.
LEMMA FieldOutside ==
    ASSUME HeapInv, Bookkeeping, Apart, pc = "mutator", NEW v \in Objects, Outside(v),
           NEW i \in Nat, i < Wosize(mem, v)
    PROVE  Outside(Field(mem, v, i))
<1>1. PICK s \in Spaces : \E k \in Headers(s) :
               /\ v = Ptr(s, k + 1) /\ k \in Nat /\ Wosize(mem, v) = Size(s, k)
               /\ Size(s, k) \in Nat
               /\ \A x \in Nat : Field(mem, v, x - 1) = mem[s][k + x]
  BY ObjectsHave
<1>2. PICK k \in Headers(s) :
               /\ v = Ptr(s, k + 1) /\ k \in Nat /\ Wosize(mem, v) = Size(s, k)
               /\ Size(s, k) \in Nat
               /\ \A x \in Nat : Field(mem, v, x - 1) = mem[s][k + x]
  BY <1>1
<1>3. Field(mem, v, i) = mem[s][k + (i + 1)]
  <2>1. i + 1 \in Nat /\ (i + 1) - 1 = i
    OBVIOUS
  <2> QED
    BY <1>2, <2>1
<1>4. s \in Gens
  <2>1. s # ValueSp
    BY <1>2 DEF Outside, Ptr, IsPtr, SpaceOf
  <2>2. mem[FakeSp] = <<>>
    BY DEF HeapInv, SpacesOK, Dead
  <2>3. Headers(s) # {} /\ DOMAIN <<>> = {}
    BY <1>2
  <2>4. s # FakeSp
    BY <2>2, <2>3 DEF Headers
  <2> QED
    BY <2>1, <2>4 DEF Spaces
<1>5. k + (i + 1) \in DOMAIN mem[s]
  <2>1. /\ k + Size(s, k) <= InUse(s) /\ InUse(s) <= Len(mem[s])
        /\ InUse(s) \in Nat /\ Len(mem[s]) \in Nat /\ DOMAIN mem[s] = 1 .. Len(mem[s])
    BY <1>2, WordIndex, InUseType DEF HeapInv, ObjectsOK
  <2>2. i < Size(s, k)
    BY <1>2
  <2> QED
    BY <1>2, <2>1, <2>2
<1> QED
  BY <1>3, <1>4, <1>5 DEF Apart, WordsApart

\* And what the objects of the program hold.
LEMMA KnownFields ==
    ASSUME HeapInv, Bookkeeping, Apart, pc = "mutator", NEW fact, AllMeant(fact),
           NEW v \in DOMAIN fact, Outside(v)
    PROVE  /\ Outside(Field(mem, v, 0)) /\ Outside(Field(mem, v, 1)) /\ Outside(Field(mem, v, 2))
           /\ Hd_val(mem, v) # NodeHeader => Outside(Field(mem, v, 3))
<1>1. v \in Objects /\ Hd_val(mem, v) \in {NodeHeader, LeftHeader, RightHeader}
  BY DEF AllMeant, Means
<1>2. /\ Wosize(mem, v) \in {3, 4}
      /\ Hd_val(mem, v) # NodeHeader => Wosize(mem, v) = 4
  BY <1>1, ProgramHeaders DEF Wosize
<1>3. \A i \in Nat : i < Wosize(mem, v) => Outside(Field(mem, v, i))
  BY <1>1, FieldOutside
<1>4. 0 < Wosize(mem, v) /\ 1 < Wosize(mem, v) /\ 2 < Wosize(mem, v)
      /\ (Hd_val(mem, v) # NodeHeader => 3 < Wosize(mem, v))
  BY <1>2
<1> QED
  BY <1>3, <1>4

LEMMA FunctionsApart ==
    ASSUME NEW fact, Runs(fact), Apart,
           InsertLeaf \/ InsertDown \/ InsertFound \/ InsertLeft \/ InsertRight \/ BuildNext
    PROVE  Apart'
<1>1. /\ HeapInv /\ Bookkeeping /\ AllMeant(fact) /\ pc = "mutator"
      /\ DOMAIN args = ArgSlots /\ 1 .. 4 \subseteq ArgSlots
      /\ 1 \in ArgSlots /\ 2 \in ArgSlots /\ 3 \in ArgSlots /\ 4 \in ArgSlots
      /\ fun = "insert" => InsertingAt(fact, args[1], args[2], args[3], args[4])
      /\ fun # "insert" => ReturningAt(fact, args[1], Code(fun), args[4])
  BY Here DEF Runs
<1>2. Outside(args[1]) /\ Outside(args[2]) /\ Outside(args[3]) /\ Outside(args[4])
  BY <1>1, ArgsOutside
<1>3. Outside(NewObject)
  <2>1. 0 # ValueSp
    BY SpaceNumbers
  <2> QED
    BY <2>1, PlainOutside DEF NewObject
<1>4. ASSUME NEW a, NEW b, NEW c, NEW fields, fields = <<a, b, c>>,
             Outside(a), Outside(b), Outside(c)
      PROVE  Len(fields) = 3 /\ \A i \in 1 .. 3 : Outside(fields[i])
  <2>1. Outside(fields[1]) /\ Outside(fields[2]) /\ Outside(fields[3])
    BY <1>4
  <2>2. \A i \in 1 .. 3 : i = 1 \/ i = 2 \/ i = 3
    OBVIOUS
  <2> QED
    BY <1>4, <2>1, <2>2
<1>5. CASE InsertLeaf
  <2>1. PICK fields : fields = <<args[2], Null, Null>>
    OBVIOUS
  <2>2. ConsN(0, fields) /\ args' = [args EXCEPT ![1] = NewObject]
    BY <1>5, <2>1 DEF InsertLeaf
  <2>3. Len(fields) = 3 /\ \A i \in 1 .. 3 : Outside(fields[i])
    BY <1>2, <1>4, <2>1, PlainOutside
  <2>4. \A k \in ArgSlots : args'[k] = args[k] \/ Outside(args'[k])
    BY <1>1, <1>3, <2>2
  <2> QED
    BY <1>1, <2>2, <2>3, <2>4, StoresApart
<1>6. CASE InsertDown
  <2>1. PICK v : v = args[1] /\ v \in DOMAIN fact
    BY <1>1, <1>6 DEF InsertDown, Running, InsertingAt, TreeAt
  <2>2. PICK k, l, r : k = Field(mem, v, 0) /\ l = Field(mem, v, 1) /\ r = Field(mem, v, 2)
    OBVIOUS
  <2>3. Outside(k) /\ Outside(l) /\ Outside(r)
    BY <1>1, <1>2, <2>1, <2>2, KnownFields
  <2>4. ASSUME NEW into, NEW tag, NEW other, NEW code, Outside(into), Outside(other),
               Descend(into, tag, k, other, code)
        PROVE  Apart'
    <3>1. PICK fields : fields = <<k, other, args[3], args[4]>>
      OBVIOUS
    <3>2. /\ ConsN(tag, fields)
          /\ args' = [args EXCEPT ![1] = into, ![3] = Code(code), ![4] = NewObject]
      BY <2>4, <3>1 DEF Descend
    <3>3. Len(fields) = 4 /\ \A i \in 1 .. 4 : Outside(fields[i])
      <4>1. Outside(fields[1]) /\ Outside(fields[2]) /\ Outside(fields[3]) /\ Outside(fields[4])
        BY <1>2, <2>3, <2>4, <3>1
      <4>2. \A i \in 1 .. 4 : i = 1 \/ i = 2 \/ i = 3 \/ i = 4
        OBVIOUS
      <4> QED
        BY <3>1, <4>1, <4>2
    <3>4. Outside(Code(code))
      BY PlainOutside
    <3>5. \A j \in ArgSlots : args'[j] = args[j] \/ Outside(args'[j])
      BY <1>1, <1>3, <2>4, <3>2, <3>4
    <3> QED
      BY <1>1, <3>2, <3>3, <3>5, StoresApart
  <2>5. Descend(l, 1, k, r, "insert_left") \/ Descend(r, 2, k, l, "insert_right")
    BY <1>6, <2>1, <2>2 DEF InsertDown
  <2> QED
    BY <2>3, <2>4, <2>5
<1>7. CASE InsertFound
  <2>1. UNCHANGED <<mem, args>>
    BY <1>7 DEF InsertFound, NoCons
  <2> QED
    BY <1>1, <2>1, ApartStays DEF AnswerOut
<1>8. CASE InsertLeft \/ InsertRight
  <2>1. PICK e : e = args[4] /\ e \in DOMAIN fact /\ Hd_val(mem, e) # NodeHeader
    <3>1. KontAt(fact, Code(fun), args[4]) /\ fun \in {"insert_left", "insert_right"}
      BY <1>1, <1>8 DEF InsertLeft, InsertRight, Running, ReturningAt
    <3> QED
      BY <3>1, ProgramHeaders DEF KontAt, Code
  <2>2. PICK k, t, e2 : k = Field(mem, e, 0) /\ t = Field(mem, e, 1) /\ e2 = Field(mem, e, 3)
    OBVIOUS
  <2>3. Outside(k) /\ Outside(t) /\ Outside(e2)
    BY <1>1, <1>2, <2>1, <2>2, KnownFields
  <2>4. PICK fields : /\ fields = <<k, args[1], t>> \/ fields = <<k, t, args[1]>>
                      /\ Rebuild(fields)
    BY <1>8, <2>1, <2>2 DEF InsertLeft, InsertRight
  <2>5. ConsN(0, fields) /\ args' = [args EXCEPT ![1] = NewObject, ![4] = e2]
    BY <2>1, <2>2, <2>4 DEF Rebuild
  <2>6. Len(fields) = 3 /\ \A i \in 1 .. 3 : Outside(fields[i])
    BY <1>2, <1>4, <2>3, <2>4
  <2>7. \A j \in ArgSlots : args'[j] = args[j] \/ Outside(args'[j])
    BY <1>1, <1>3, <2>3, <2>5
  <2> QED
    BY <1>1, <2>5, <2>6, <2>7, StoresApart
<1>9. CASE BuildNext
  <2>1. PICK k \in KeySet :
            /\ mem' = mem
            /\ args' = [args EXCEPT ![2] = Long(k), ![3] = Code("build"),
                                    ![4] = Long(args[4][2] - 1)]
    BY <1>9 DEF BuildNext, NoCons
  <2>2. PICK n, c, e : n = Long(k) /\ c = Code("build") /\ e = Long(args[4][2] - 1)
                       /\ Outside(n) /\ Outside(c) /\ Outside(e)
    BY PlainOutside
  <2>3. \A j \in ArgSlots : args'[j] = args[j] \/ Outside(args'[j])
    BY <1>1, <2>1, <2>2
  <2>4. \A j \in ArgSlots : Outside(args'[j])
    BY <1>1, <2>3 DEF Apart, ArgsApart, AnswerOut
  <2>5. WordsApart'
    BY <2>1 DEF Apart, WordsApart
  <2>6. ArgsApart'
    BY <2>4 DEF ArgsApart, Outside
  <2> QED
    BY <2>5, <2>6 DEF Apart
<1> QED
  BY <1>5, <1>6, <1>7, <1>8, <1>9

-----------------------------------------------------------------------------
(* The main program. *)

\* build has returned to the main program with the tree in args[1].
LEMMA Built ==
    ASSUME NEW fact, Runs(fact), BuildDone
    PROVE  /\ AllMeant(fact) /\ fun = "build" /\ TreeAt(fact, args[1])
           /\ KeysAt(fact, args[1]) = inserted
<1>1. ReturningAt(fact, args[1], Code("build"), args[4]) /\ AllMeant(fact) /\ fun = "build"
  BY Here DEF Runs, BuildDone, Running
<1>2. args[4][1] = "long"
  BY <1>1 DEF ReturningAt, KontAt, Code
<1> QED
  BY <1>1, <1>2 DEF ReturningAt, Fills, BelowAt, AboveAt

\* What is not exported yet is in the heap.
LEMMA ObjectsInHeap ==
    ASSUME HeapInv, Bookkeeping, pc = "mutator", result = Unused, NEW v \in Objects
    PROVE  HeapExists
<1>1. PICK s \in Spaces : \E k \in Headers(s) : k \in Nat
  BY ObjectsHave
<1>2. mem[s] # <<>>
  BY <1>1, EmptySeq DEF Headers
<1>3. mem[FakeSp] = <<>> /\ mem[ValueSp] = <<>>
  BY DEF HeapInv, SpacesOK, Dead
<1>4. s \in Gens
  BY <1>2, <1>3 DEF Spaces
<1>5. Len(mem[s]) # 0
  BY <1>2, LengthZero DEF HeapInv, TypesOK
<1>6. SpaceSizes[s] # 0
  BY <1>4, <1>5 DEF SpaceSizes
<1>7. HeapState # "null"
  BY <1>4, <1>6 DEF Bookkeeping
<1> QED
  BY <1>7 DEF HeapState

LEMMA ExportTreeStep ==
    ASSUME NEW fact, Runs(fact), ExportTree
    PROVE  AnyExport /\ TreeInv'
<1>1. /\ AllMeant(fact) /\ fun = "build" /\ TreeAt(fact, args[1]) /\ pc = "mutator"
      /\ KeysAt(fact, args[1]) = inserted /\ HeapInv /\ Bookkeeping /\ result = Unused
      /\ fun' = fun /\ inserted' = inserted /\ inserted \subseteq Nat /\ 1 \in ArgSlots
  BY Built DEF Runs, ExportTree, progVars, Requests
<1>2. Sound(args[1])
  BY <1>1, TreeSound
<1>3. CASE ExportUnboxed
  <2>1. AnyExport
    BY <1>1, <1>2, <1>3 DEF AnyExport
  <2>2. /\ mem' = mem /\ next' = next /\ alloc' = alloc /\ args' = args /\ pc' = "exported"
    BY <1>3 DEF ExportUnboxed, heapVars
  <2>3. AllMeant(fact)'
    BY <1>1, <2>2, MeaningStays
  <2>4. Live(1)' = args[1]
    BY <2>2, CurrentThere DEF Live
  <2>5. TreeAt(fact, Live(1))' /\ KeysAt(fact, Live(1))' = inserted'
    BY <1>1, <2>2, <2>4 DEF TreeAt, KeysAt
  <2> QED
    BY <1>1, <2>1, <2>2, <2>3, <2>5, Allocations DEF TreeInv, Explains, Requests, Serving, Exporting
<1>4. CASE ExportStart(fake_fi)
  <2>1. args[1] \in Objects
    <3>1. args[1] # Null
      BY <1>4 DEF ExportStart, Is_block, Null, Long
    <3> QED
      BY <1>1, <3>1 DEF TreeAt, AllMeant
  <2>2. HeapExists
    BY <1>1, <2>1, ObjectsInHeap
  <2>3. AnyExport
    BY <1>1, <1>2, <1>4, <2>2 DEF AnyExport
  <2>4. /\ mem' = mem /\ next' = next /\ alloc' = alloc /\ args' = args
        /\ pc' \in {"collect_all", "assert_failed"}
    BY <1>4, <2>2 DEF ExportStart
  <2>5. AllMeant(fact)'
    BY <1>1, <2>4, MeaningStays
  <2>6. Live(1)' = args[1]
    BY <2>4, CurrentThere DEF Live
  <2>7. TreeAt(fact, Live(1))' /\ KeysAt(fact, Live(1))' = inserted'
    BY <1>1, <2>4, <2>6 DEF TreeAt, KeysAt
  <2> QED
    BY <1>1, <2>3, <2>4, <2>5, <2>7, Allocations DEF TreeInv, Explains, Requests, Serving, Exporting
<1> QED
  BY <1>3, <1>4 DEF ExportTree

LEMMA BuildAgainStep ==
    ASSUME HeapInv, DOMAIN args = ArgSlots, BuildAgain
    PROVE  AnyRestart /\ TreeInv'
<1>1. /\ args' = [args EXCEPT ![1] = Null, ![4] = Long(Inserts)] /\ inserted' = {}
      /\ fun' = "build" /\ pc = "exported" /\ pc' = "entry" /\ 1 .. 4 \subseteq ArgSlots
      /\ UNCHANGED <<mem, next, alloc, limit, fi, budget, gen, copyVars, result>>
  BY ProgramAssumption DEF BuildAgain
<1>2. AnyRestart
  <2>1. Sound(Null)' /\ Sound(Long(Inserts))'
    BY SoundStays, PlainValues
  <2>2. DOMAIN args' = ArgSlots
    BY <1>1
  <2>3. ASSUME NEW j \in ArgSlots PROVE args'[j] = args[j] \/ Sound(args[j])'
    BY <1>1, <2>1 DEF Sound
  <2> QED
    BY <1>1, <2>2, <2>3 DEF AnyRestart, StoreInArgs
<1>3. PICK fact : AllMeant(fact)'
  BY NothingMeant
<1>4. ReturningAt(fact, Null, Code("build"), Long(Inserts))'
  BY <1>1 DEF ReturningAt, TreeAt, KontAt, Fills, KeysAt, BelowAt, AboveAt, Precedes, Long
<1>5. args'[1] = Null /\ args'[4] = Long(Inserts)
  BY <1>1
<1> QED
  BY <1>1, <1>2, <1>3, <1>4, <1>5, Arrives, Allocations

\* The block is freed when nothing leads into it; the rest means what it meant.
LEMMA FreeFirstStep ==
    ASSUME NEW fact, Runs(fact), Apart, FreeFirst
    PROVE  AnyFree /\ Apart' /\ (HeapInv' /\ Bookkeeping' => TreeInv')
<1>1. /\ AllMeant(fact) /\ fun = "build" /\ pc = "mutator" /\ HeapInv /\ Bookkeeping
      /\ ReturningAt(fact, args[1], Code("build"), args[4]) /\ Requests
      /\ fi.roots = <<4, 1>> /\ 1 \in ArgSlots /\ 4 \in ArgSlots
      /\ Outside(args[1]) /\ Outside(args[4])
  <2>1. /\ AllMeant(fact) /\ fun = "build" /\ pc = "mutator" /\ HeapInv /\ Bookkeeping
        /\ ReturningAt(fact, args[1], Code("build"), args[4]) /\ Requests
    BY Here DEF Runs, FreeFirst, BuildDone, Running
  <2>2. fi.roots = <<4, 1>>
    BY <2>1 DEF Requests, Serving, FunInfo
  <2>3. 1 \in ArgSlots /\ 4 \in ArgSlots /\ Outside(args[1]) /\ Outside(args[4])
    BY <2>1, ArgsOutside DEF Runs
  <2> QED
    BY <2>1, <2>2, <2>3
<1>2. /\ result # Unused /\ mem' = [mem EXCEPT ![ValueSp] = <<>>]
      /\ next' = [next EXCEPT ![ValueSp] = 0] /\ result' = Unused
      /\ UNCHANGED <<args, alloc, limit, fi, budget, pc, gen, copyVars, fun, inserted>>
  BY DEF FreeFirst
<1>3. NothingPointsTo(ValueSp)
  <2>1. \A k \in DOMAIN fi.roots : Outside(args[fi.roots[k]])
    BY <1>1
  <2>2. ASSUME NEW v \in Objects, SpaceOf(v) # ValueSp, NEW i \in DOMAIN Children(v)
        PROVE  Outside(Children(v)[i])
    <3>1. /\ Children(v) = [x \in 1 .. Wosize(mem, v) |-> Current(Field(mem, v, x - 1))]
          /\ i \in 1 .. Wosize(mem, v)
      BY <2>2 DEF Children
    <3>2. Children(v)[i] = Field(mem, v, i - 1)
      BY <1>1, <3>1, CurrentHere
    <3>3. Wosize(mem, v) \in Nat
      BY <1>1, ObjectsHave
    <3>4. i - 1 \in Nat /\ i - 1 < Wosize(mem, v)
      BY <3>1, <3>3
    <3>5. Outside(v)
      BY <2>2 DEF Outside
    <3> QED
      BY <1>1, <3>2, <3>4, <3>5, FieldOutside
  <2> QED
    BY <2>1, <2>2 DEF NothingPointsTo, Outside
<1>4. AnyFree
  BY <1>1, <1>2, <1>3 DEF AnyFree
<1>5. /\ \A s \in Spaces : s # ValueSp => mem'[s] = mem[s] /\ InUse(s)' = InUse(s)
      /\ \A s \in Gens : s \in Spaces /\ s # ValueSp
  <2>1. TypesOK
    BY <1>1 DEF HeapInv
  <2>2. \A s \in Spaces : s # ValueSp => mem'[s] = mem[s] /\ next'[s] = next[s]
    BY <1>4, <2>1, BlockFreed
  <2>3. \A s \in Gens : s \in Spaces /\ s # ValueSp
    BY SpaceNumbers DEF Gens
  <2> QED
    BY <1>2, <2>2, <2>3 DEF InUse
<1>6. Apart'
  <2>1. WordsApart'
    BY <1>5 DEF Apart, WordsApart
  <2>2. ArgsApart'
    BY <1>1, <1>2 DEF Apart, ArgsApart, AnswerOut
  <2> QED
    BY <2>1, <2>2 DEF Apart
<1>7. PICK kept : kept = [v \in {x \in DOMAIN fact : Outside(x)} |-> fact[v]]
  OBVIOUS
<1>8. \A v \in DOMAIN kept : v \in DOMAIN fact /\ Outside(v) /\ kept[v] = fact[v]
                             /\ v \in Objects /\ fact[v] \in Facts
  BY <1>1, <1>7 DEF AllMeant
<1>9. \A w : TreeAt(fact, w) /\ Outside(w) =>
          /\ TreeAt(kept, w)
          /\ KeysAt(kept, w) = KeysAt(fact, w) /\ HeightAt(kept, w) = HeightAt(fact, w)
  BY <1>7 DEF TreeAt, KeysAt, HeightAt
<1>10. \A c, e : KontAt(fact, c, e) /\ Outside(e) =>
          /\ KontAt(kept, c, e)
          /\ BelowAt(kept, e) = BelowAt(fact, e) /\ AboveAt(kept, e) = AboveAt(fact, e)
  BY <1>7 DEF KontAt, BelowAt, AboveAt
<1>11. ASSUME NEW v \in DOMAIN kept PROVE Means(kept, v)
  <2>1. Hd_val(mem, v) \in {NodeHeader, LeftHeader, RightHeader}
    BY <1>1, <1>8 DEF AllMeant, Means
  <2>2. PICK w, x, y : /\ w = Field(mem, v, 1) /\ x = Field(mem, v, 2) /\ y = Field(mem, v, 3)
                       /\ w = At(v, 1) /\ x = At(v, 2) /\ y = At(v, 3)
    BY <1>1, CurrentHere DEF At
  <2>3. At(v, 0) = Field(mem, v, 0)
    BY <1>1, CurrentHere DEF At
  <2>4. Outside(w) /\ Outside(x) /\ (Hd_val(mem, v) # NodeHeader => Outside(y))
    BY <1>1, <1>8, <2>2, KnownFields
  <2>5. CASE Hd_val(mem, v) = NodeHeader
    <3>1. PICK k \in Nat : Field(mem, v, 0) = Long(k) /\ NodeIs(fact, v, k, w, x)
      BY <1>1, <1>8, <2>2, <2>5, NodeFields
    <3>2. NodeIs(kept, v, k, w, x)
      BY <1>8, <1>9, <2>4, <3>1 DEF NodeIs
    <3> QED
      BY <2>2, <2>3, <2>5, <3>1, <3>2 DEF Means
  <2>6. CASE Hd_val(mem, v) # NodeHeader
    <3>1. PICK k \in Nat :
              /\ Field(mem, v, 0) = Long(k)
              /\ FrameIs(fact, v, k, w, x, y)
              /\ Hd_val(mem, v) = LeftHeader => LeftIs(fact, v, k, w, y)
              /\ Hd_val(mem, v) = RightHeader => RightIs(fact, v, k, w, y)
      BY <1>1, <1>8, <2>1, <2>2, <2>6, FrameFields
    <3>2. FrameIs(kept, v, k, w, x, y)
      BY <1>8, <1>9, <1>10, <2>4, <2>6, <3>1 DEF FrameIs
    <3>3. /\ LeftIs(fact, v, k, w, y) => LeftIs(kept, v, k, w, y)
          /\ RightIs(fact, v, k, w, y) => RightIs(kept, v, k, w, y)
      BY <1>8, <1>9, <1>10, <2>4, <2>6, <3>1 DEF LeftIs, RightIs, FrameIs
    <3> QED
      BY <2>1, <2>2, <2>3, <2>6, <3>1, <3>2, <3>3 DEF Means
  <2> QED
    BY <2>5, <2>6
<1>12. AllMeant(kept)
  BY <1>8, <1>11 DEF AllMeant
<1>13. ASSUME HeapInv', Bookkeeping' PROVE TreeInv'
  <2>1. pc # "copying" /\ pc' # "copying" /\ pc' = "mutator"
    BY <1>1, <1>2
  <2>2. ASSUME NEW v \in DOMAIN kept
        PROVE  /\ v \in Objects' /\ Hd_val(mem', v) = Hd_val(mem, v)
               /\ \A i : Field(mem', v, i) = Field(mem, v, i)
    <3>1. v \in Pointers /\ Valid(v) /\ IsPtr(v)
      BY <1>1, <1>8, ObjectsValid, PointersAre
    <3>2. PICK s : s = SpaceOf(v) /\ s \in Spaces /\ s # ValueSp
      BY <1>8, <3>1 DEF Valid, Outside
    <3>3. mem'[s] = mem[s] /\ InUse(s)' = InUse(s)
      BY <1>5, <3>2
    <3>4. Hd_val(mem', v) = Hd_val(mem, v) /\ \A i : Field(mem', v, i) = Field(mem, v, i)
      BY <3>2, <3>3 DEF Hd_val, Field
    <3>5. InUse(SpaceOf(v))' = InUse(SpaceOf(v))
      BY <1>2, <1>5, <3>1, <3>2, <3>3
    <3>6. Valid(v)'
      BY <3>1, <3>4, <3>5 DEF Valid, Wosize
    <3> QED
      BY <1>13, <3>1, <3>4, <3>6, ObjectsValidAfter
  <2>3. Carries(kept, kept)
    BY <2>1, <2>2, CurrentThere DEF Carries
  <2>4. DOMAIN kept \subseteq Objects
    BY <1>12 DEF AllMeant
  <2>5. ASSUME NEW v \in DOMAIN kept PROVE Means(kept, v)'
    <3>1. Means(kept, v) /\ Hd_val(mem', v) = Hd_val(mem, v)
      BY <1>11, <2>2
    <3>2. ASSUME NEW j \in 0 .. Wosize(mem, v) - 1 PROVE Becomes(At(v, j), At(v, j)')
      <4>1. PICK u : u = Field(mem, v, j) /\ u = Field(mem', v, j)
        BY <2>2
      <4>2. At(v, j) = u /\ At(v, j)' = u
        BY <2>1, <4>1, CurrentHere, CurrentThere DEF At
      <4>3. Sound(u)
        BY <1>1, <1>12, <2>1, <4>1, FieldSound
      <4> QED
        BY <2>1, <4>2, <4>3, CurrentThere DEF Sound, Becomes, Survives
    <3> QED
      BY <1>1, <1>13, <2>3, <2>4, <3>1, <3>2, MeansMoved
  <2>6. AllMeant(kept)'
    BY <1>8, <2>2, <2>5 DEF AllMeant
  <2>7. PICK t, c, e : t = args[1] /\ c = Code("build") /\ e = args[4]
    OBVIOUS
  <2>8. /\ TreeAt(kept, t) /\ KontAt(kept, c, e)
        /\ KeysAt(kept, t) = KeysAt(fact, t)
        /\ BelowAt(kept, e) = BelowAt(fact, e) /\ AboveAt(kept, e) = AboveAt(fact, e)
        /\ Fills(fact, KeysAt(fact, t), e)
    BY <1>1, <1>9, <1>10, <2>7 DEF ReturningAt
  <2>9. TreeAt(kept, t)' /\ KontAt(kept, c, e)'
    BY <1>1, <1>12, <1>13, <2>1, <2>3, <2>8, TreeStays, KontStays
  <2>10. ReturningAt(kept, t, c, e)'
    BY <1>2, <2>8, <2>9 DEF ReturningAt, Fills
  <2>11. Live(1)' = t /\ Live(4)' = e /\ fun' = "build" /\ Code(fun)' = c
    BY <1>1, <1>2, <2>1, <2>7, CurrentThere DEF Live, Code
  <2>12. Position(kept)'
    <3>1. ReturningAt(kept, Live(1), Code(fun), Live(4))'
      BY <2>10, <2>11
    <3> QED
      BY <2>11, <3>1 DEF Position
  <2>13. Requests'
    BY <1>1, <1>2 DEF Requests, Serving
  <2> QED
    BY <2>1, <2>6, <2>12, <2>13 DEF TreeInv, Explains, Exporting
<1> QED
  BY <1>4, <1>6, <1>13

LEMMA FinishStep ==
    ASSUME Requests, Finish PROVE AnyFinish /\ TreeInv'
<1>1. AnyFinish /\ pc' = "finished" /\ fun' = fun /\ inserted' = inserted
  BY DEF Finish, BuildDone, Running, AnyFinish, progVars
<1> QED
  BY <1>1, NothingMeant DEF TreeInv, Explains, Requests, Serving, Exporting

LEMMA EnterStep ==
    ASSUME HeapInv, Bookkeeping, Requests, NEW fact, Explains(fact), DOMAIN args = ArgSlots, Enter
    PROVE  AnyEnter /\ TreeInv'
<1>1. /\ pc = "entry" /\ fi' = FunInfo[fun] /\ pc' \in {"garbage_collect", "mutator"}
      /\ pc' = "mutator" => budget' = FunInfo[fun].num_allocs
      /\ mem' = mem /\ next' = next /\ alloc' = alloc /\ args' = args
      /\ fun' = fun /\ inserted' = inserted /\ Check(fi')
      /\ AllMeant(fact) /\ Position(fact)
      /\ fun \in DOMAIN FunInfo /\ inserted \subseteq Nat /\ 1 .. 4 \subseteq ArgSlots
  BY ProgramAssumption DEF Enter, Check, heapVars, progVars, Explains, Requests
<1>2. PICK t, w, c, e : t = args[1] /\ w = args[2] /\ c = args[3] /\ e = args[4]
  OBVIOUS
<1>3. Live(1) = t /\ Live(2) = w /\ Live(3) = c /\ Live(4) = e
  BY <1>1, <1>2, CurrentHere DEF Live
<1>4. Live(1)' = t /\ Live(2)' = w /\ Live(3)' = c /\ Live(4)' = e
  BY <1>1, <1>2, CurrentThere DEF Live
<1>5. /\ fun = "insert" => InsertingAt(fact, t, w, c, e)
      /\ fun # "insert" => ReturningAt(fact, t, Code(fun), e)
  BY <1>1, <1>3 DEF Position
<1>6. /\ fun = "insert" => InsertingAt(fact, t, w, c, e)'
      /\ fun # "insert" => ReturningAt(fact, t, Code(fun), e)'
  BY <1>1, <1>5 DEF InsertingAt, ReturningAt, TreeAt, KontAt, Fills
<1>7. Position(fact)'
  <2>1. CASE fun = "insert"
    <3>1. InsertingAt(fact, Live(1), Live(2), Live(3), Live(4))'
      BY <1>4, <1>6, <2>1
    <3> QED
      BY <1>1, <2>1, <3>1 DEF Position
  <2>2. CASE fun # "insert"
    <3>1. ReturningAt(fact, Live(1), Code(fun), Live(4))'
      BY <1>4, <1>6, <2>2
    <3> QED
      BY <1>1, <2>2, <3>1 DEF Position
  <2> QED
    BY <2>1, <2>2
<1>8. AllMeant(fact)'
  BY <1>1, MeaningStays
<1>9. TreeInv'
  BY <1>1, <1>7, <1>8 DEF TreeInv, Explains, Requests, Serving, Exporting
<1>10. /\ Sound(t) /\ Sound(e)
       /\ fun = "insert" => Sound(w) /\ Sound(c)
  BY <1>1, <1>5, TreeSound, KontSound, PlainValues DEF InsertingAt, ReturningAt
<1>11. \A k \in DOMAIN FunInfo[fun].roots : Sound(args[FunInfo[fun].roots[k]])
  <2>1. CASE fun = "insert"
    <3>1. FunInfo[fun].roots = <<1, 2, 3, 4>>
      BY <2>1 DEF FunInfo
    <3> QED
      BY <1>2, <1>10, <2>1, <3>1
  <2>2. CASE fun # "insert"
    <3>1. FunInfo[fun].roots = <<4, 1>>
      BY <1>1, <2>2 DEF FunInfo
    <3> QED
      BY <1>2, <1>10, <3>1
  <2> QED
    BY <2>1, <2>2
<1>12. FunInfo[fun] \in [num_allocs : 0 .. NURSERY_SIZE + 1, roots : Seq(ArgSlots)]
  <2>1. NURSERY_SIZE \in Nat /\ NURSERY_SIZE >= 4 /\ {1, 2, 3, 4} \subseteq ArgSlots
    BY CollectorAssumption, ProgramAssumption
  <2>2. PICK n, roots : n = FunInfo[fun].num_allocs /\ roots = FunInfo[fun].roots
    OBVIOUS
  <2>3. n \in {0, 4, 5} /\ (roots = <<1, 2, 3, 4>> \/ roots = <<4, 1>>)
        /\ FunInfo[fun] = [num_allocs |-> n, roots |-> roots]
    BY <1>1, <2>2 DEF FunInfo
  <2>4. <<1, 2, 3, 4>> \in Seq(ArgSlots) /\ <<4, 1>> \in Seq(ArgSlots)
    BY <2>1
  <2>5. n \in 0 .. NURSERY_SIZE + 1
    BY <2>1, <2>3
  <2>6. roots \in Seq(ArgSlots)
    BY <2>3, <2>4
  <2> QED
    BY <2>3, <2>5, <2>6
<1>13. AnyEnter
  BY <1>1, <1>11, <1>12 DEF AnyEnter
<1> QED
  BY <1>9, <1>13

-----------------------------------------------------------------------------
(* The collector keeps the facts true. *)

LEMMA InsertingMoved ==
    ASSUME HeapInv, Bookkeeping, HeapInv', Bookkeeping',
           NEW before, DOMAIN before \subseteq Objects,
           NEW after, Carries(before, after), UNCHANGED inserted,
           NEW t, NEW w, NEW c, NEW e, InsertingAt(before, t, w, c, e),
           NEW t2, Becomes(t, t2), NEW e2, Becomes(e, e2)
    PROVE  InsertingAt(after, t2, w, c, e2)'
<1>1. TreeAt(before, t) /\ KontAt(before, c, e)
  BY DEF InsertingAt
<1>2. TreeAt(after, t2)' /\ KeysAt(after, t2) = KeysAt(before, t)
  BY <1>1, TreeMoved
<1>3. /\ KontAt(after, c, e2)' /\ BelowAt(after, e2) = BelowAt(before, e)
      /\ AboveAt(after, e2) = AboveAt(before, e)
  BY <1>1, KontMoved
<1> QED
  BY <1>2, <1>3 DEF InsertingAt, Fills

LEMMA ReturningMoved ==
    ASSUME HeapInv, Bookkeeping, HeapInv', Bookkeeping',
           NEW before, DOMAIN before \subseteq Objects,
           NEW after, Carries(before, after), UNCHANGED inserted,
           NEW t, NEW c, NEW e, ReturningAt(before, t, c, e),
           NEW t2, Becomes(t, t2), NEW e2, Becomes(e, e2)
    PROVE  ReturningAt(after, t2, c, e2)'
<1>1. TreeAt(before, t) /\ KontAt(before, c, e)
  BY DEF ReturningAt
<1>2. TreeAt(after, t2)' /\ KeysAt(after, t2) = KeysAt(before, t)
  BY <1>1, TreeMoved
<1>3. /\ KontAt(after, c, e2)' /\ BelowAt(after, e2) = BelowAt(before, e)
      /\ AboveAt(after, e2) = AboveAt(before, e)
  BY <1>1, KontMoved
<1> QED
  BY <1>2, <1>3 DEF ReturningAt, Fills

LEMMA RootMoved ==
    ASSUME HeapInv, Bookkeeping, AnyNext, CollectorRuns, fi' = fi, NEW j,
           \E k \in DOMAIN fi.roots : fi.roots[k] = j, NEW u, u = Live(j)
    PROVE  Becomes(u, Live(j)')
<1>1. PICK k \in DOMAIN fi.roots : fi.roots[k] = j
  OBVIOUS
<1>2. u = Current(args[fi.roots[k]])
  BY <1>1 DEF Live
<1>3. Becomes(u, Current(args[fi.roots[k]])')
  BY <1>2, RootsBecome
<1>4. PICK y : y = args'[j]
  OBVIOUS
<1>5. y = args[fi.roots[k]]'
  BY <1>1, <1>4
<1>6. Current(args[fi.roots[k]])' = Current(y)'
  BY <1>5
<1>7. Live(j)' = Current(y)'
  BY <1>4 DEF Live
<1> QED
  BY <1>3, <1>6, <1>7

LEMMA CollectorControl ==
    ASSUME CollectorStep, Requests
    PROVE  /\ AnyNext /\ CollectorRuns /\ fi' = fi /\ fun' = fun /\ inserted' = inserted
           /\ pc' \notin {"entry", "finished"}
           /\ Serving' => Serving
           /\ Exporting' \/ pc' = "exported" => Exporting
           /\ Serving => ~ Exporting
           /\ pc' = "mutator" => budget' = fi.num_allocs
<1>1. AnyNext /\ fun' = fun /\ inserted' = inserted
  BY DEF CollectorStep, AnyNext, progVars
<1>2. CASE DoGeneration
  BY <1>1, <1>2
  DEF DoGeneration, ForwardOther, ForwardAgain, ForwardCopy, ScanObject, Copying, CollectorRuns,
      Serving, Exporting
<1>3. CASE GarbageCollect
  BY <1>1, <1>3
  DEF GarbageCollect, CreateHeap, StartCollection, CreateNextSpace, CollectGeneration,
      GenerationCollected, RanOutOfGenerations, Resume, Stop, StartGeneration, GenerationCopied,
      CollectorRuns, Serving, Exporting
<1>4. CASE Export
  BY <1>1, <1>4
  DEF Export, CollectAllGeneration, GenerationCollectedAll, CollectAllReturn, ExportCopy,
      ExportCopied, ExportCompact, ExportReturn, CopyOut, StartGeneration, GenerationCopied,
      CollectorRuns, Serving, Exporting
<1>5. CASE MallocFails
  BY <1>1, <1>5 DEF MallocFails, Stop, CollectorRuns, Serving, Exporting
<1> QED
  BY <1>2, <1>3, <1>4, <1>5 DEF CollectorStep

LEMMA CollectorKeeps ==
    ASSUME HeapInv, Bookkeeping, HeapInv', Bookkeeping', AnswerInv, Requests,
           NEW before, Explains(before), CollectorStep
    PROVE  TreeInv'
<1>1. /\ AnyNext /\ CollectorRuns /\ fi' = fi /\ fun' = fun /\ inserted' = inserted
      /\ pc' \notin {"entry", "finished"}
      /\ Serving' => Serving
      /\ Exporting' \/ pc' = "exported" => Exporting
      /\ Serving => ~ Exporting
      /\ pc' = "mutator" => budget' = fi.num_allocs
  BY CollectorControl
<1>2. AllMeant(before) /\ DOMAIN before \subseteq Objects
  BY DEF Explains, AllMeant
<1>3. PICK after : MovedTo(before, after)
  BY <1>1, <1>2, FactsMove
<1>4. AllMeant(after)' /\ Carries(before, after)
  BY <1>1, <1>2, <1>3, AllMeantMoved DEF MovedTo
<1>5. ASSUME Serving PROVE Position(after)'
  <2>1. fi = FunInfo[fun] /\ fun \in DOMAIN FunInfo /\ Position(before)
    BY <1>5 DEF Requests, Explains
  <2>2. PICK t, e : t = Live(1) /\ e = Live(4)
    OBVIOUS
  <2>3. PICK t2, e2 : t2 = Live(1)' /\ e2 = Live(4)'
    OBVIOUS
  <2>4. CASE fun = "insert"
    <3>1. fi.roots = <<1, 2, 3, 4>>
      BY <2>1, <2>4 DEF FunInfo
    <3>2. \A j \in {1, 2, 3, 4} : \E k \in DOMAIN fi.roots : fi.roots[k] = j
      BY <3>1
    <3>3. PICK w, c : w = Live(2) /\ c = Live(3)
      OBVIOUS
    <3>4. Becomes(t, t2) /\ Becomes(w, Live(2)') /\ Becomes(c, Live(3)') /\ Becomes(e, e2)
      BY <1>1, <2>2, <2>3, <3>2, <3>3, RootMoved
    <3>5. InsertingAt(before, t, w, c, e)
      BY <2>1, <2>2, <2>4, <3>3 DEF Position
    <3>6. InsertingAt(after, t2, w, c, e2)'
      BY <1>1, <1>2, <1>4, <3>4, <3>5, InsertingMoved
    <3>7. ~ IsPtr(w) /\ ~ IsPtr(c)
      BY <3>5, PlainValues DEF InsertingAt, KontAt
    <3>8. Live(2)' = w /\ Live(3)' = c
      BY <3>4, <3>7, UnboxedStays
    <3>9. InsertingAt(after, Live(1), Live(2), Live(3), Live(4))'
      BY <2>3, <3>6, <3>8
    <3> QED
      BY <1>1, <2>4, <3>9 DEF Position
  <2>5. CASE fun # "insert"
    <3>1. fi.roots = <<4, 1>>
      BY <2>1, <2>5 DEF FunInfo
    <3>2. \A j \in {1, 4} : \E k \in DOMAIN fi.roots : fi.roots[k] = j
      BY <3>1
    <3>3. Becomes(t, t2) /\ Becomes(e, e2)
      BY <1>1, <2>2, <2>3, <3>2, RootMoved
    <3>4. PICK c : c = Code(fun) /\ ReturningAt(before, t, c, e)
      BY <2>1, <2>2, <2>5 DEF Position
    <3>5. ReturningAt(after, t2, c, e2)'
      BY <1>1, <1>2, <1>4, <3>3, <3>4, ReturningMoved
    <3>6. Code(fun)' = c
      BY <1>1, <3>4 DEF Code
    <3>7. ReturningAt(after, Live(1), Code(fun), Live(4))'
      BY <2>3, <3>5, <3>6
    <3> QED
      BY <1>1, <2>5, <3>7 DEF Position
  <2> QED
    BY <2>4, <2>5
<1>6. ASSUME Exporting
      PROVE  fun = "build" /\ TreeAt(after, Live(1))' /\ KeysAt(after, Live(1)') = inserted
  <2>1. fi = fake_fi
    BY <1>6 DEF AnswerInv, ExportRoots
  <2>2. \E k \in DOMAIN fi.roots : fi.roots[k] = 1
    BY <2>1 DEF fake_fi
  <2>3. PICK t, t2 : t = Live(1) /\ t2 = Live(1)'
    OBVIOUS
  <2>4. Becomes(t, t2)
    BY <1>1, <2>2, <2>3, RootMoved
  <2>5. fun = "build" /\ TreeAt(before, t) /\ KeysAt(before, t) = inserted
    BY <1>6, <2>3 DEF Explains
  <2>6. TreeAt(after, t2)' /\ KeysAt(after, t2) = inserted
    BY <1>2, <1>4, <2>4, <2>5, TreeMoved
  <2>7. TreeAt(after, Live(1))'
    BY <2>3, <2>6
  <2> QED
    BY <2>3, <2>5, <2>6, <2>7
<1>7. Requests'
  <2>1. Serving' => fi' = FunInfo[fun']
    BY <1>1 DEF Requests
  <2> QED
    BY <1>1, <2>1 DEF Requests, FunInfo
<1>8. /\ pc' = "entry" \/ Serving' => Position(after)'
      /\ Exporting' \/ pc' = "exported" =>
             fun' = "build" /\ TreeAt(after, Live(1))' /\ KeysAt(after, Live(1))' = inserted'
  <2>1. KeysAt(after, Live(1))' = KeysAt(after, Live(1)')
    BY DEF KeysAt
  <2> QED
    BY <1>1, <1>5, <1>6, <2>1
<1>9. Explains(after)'
  BY <1>4, <1>8 DEF Explains
<1> QED
  BY <1>7, <1>9 DEF TreeInv

-----------------------------------------------------------------------------
(* What the collector writes. *)

\* It copies from the heap, but for the last copy of export; and only that one is into
\* the block.
LEMMA WhereCopied ==
    ASSUME HeapInv, Bookkeeping, pc = "copying"
    PROVE  \/ copy.to # ValueSp /\ copy.from \in Gens
           \/ copy.to = ValueSp /\ copy.from = FakeSp /\ copy.caller = "compact"
<1>1. CopyPlan /\ gen \in Gens
  BY DEF HeapInv, CopyOK, Bookkeeping
<1>2. /\ gen \in Nat /\ ValueSp = MAX_SPACES + 1 /\ FakeSp = MAX_SPACES /\ MAX_SPACES \in Nat
  BY <1>1, SpaceNumbers DEF Gens
<1> QED
  BY <1>1, <1>2 DEF CopyPlan

\* A pointer into the space that is copied to, stored by forward at loc.
LEMMA StoreOutside ==
    ASSUME HeapInv, Bookkeeping, ExportRoots, Apart, pc = "copying", calls # <<>>,
           UNCHANGED <<pc, copy>>, NEW loc, loc = Head(calls).p,
           NEW p, Outside(p) \/ copy.to = ValueSp,
           \A k \in ArgSlots : args'[k] = IF loc = ArgLoc(k) THEN p ELSE args[k]
    PROVE  ArgsApart'
<1> SUFFICES ASSUME NEW k \in ArgSlots PROVE Outside(args'[k]) \/ (k = 1 /\ AnswerOut')
  BY DEF ArgsApart, Outside
<1>1. AnswerOut' <=> AnswerOut
  BY DEF AnswerOut
<1>2. CASE loc # ArgLoc(k)
  BY <1>1, <1>2 DEF Apart, ArgsApart
<1>3. CASE loc = ArgLoc(k) /\ Outside(p)
  BY <1>3
<1>4. CASE loc = ArgLoc(k) /\ copy.to = ValueSp
  <2>1. copy.caller = "compact"
    BY <1>4, WhereCopied
  <2>2. fi = fake_fi
    BY <2>1 DEF ExportRoots, Exporting
  <2>3. CallOK(Head(calls))
    BY Context, HeadCall DEF CopyContext
  <2>4. k = 1
    BY <1>4, <2>2, <2>3 DEF CallOK, ArgLoc, MemLoc, fake_fi
  <2> QED
    BY <1>4, <2>4 DEF AnswerOut
<1> QED
  BY <1>2, <1>3, <1>4

LEMMA ForwardAgainApart ==
    ASSUME HeapInv, Bookkeeping, ExportRoots, Apart, ForwardAgain PROVE Apart'
<1>1. CopyContext /\ calls # <<>> /\ pc = "copying" /\ UNCHANGED <<pc, copy>>
  BY Context DEF ForwardAgain, Copying
<1>2. PICK loc, v : loc = Head(calls).p /\ v = Read(loc)
  OBVIOUS
<1>3. PICK x : /\ x = Field(mem, v, 0)
               /\ mem' = StoreMem(mem, loc, x) /\ args' = StoreArgs(loc, x)
  BY <1>2 DEF ForwardAgain
<1>4. SpaceOf(x) = copy.to
  <2>1. CallOK(Head(calls)) /\ Head(calls).p \in Due
    BY <1>1, HeadCall DEF CopyContext
  <2>2. Is_from(v)
    BY <1>2 DEF ForwardAgain
  <2>3. IndexOf(v) \in Nat /\ IndexOf(v) - 1 \in Headers(copy.from)
    BY <1>2, <1>1, <2>1, <2>2, CallFollows
  <2>4. PICK j : j = IndexOf(v) - 1 /\ j + 1 = IndexOf(v) /\ j \in Headers(copy.from)
    BY <2>3
  <2>5. IsForwarded(j)
    BY <1>2, <2>2, <2>4 DEF ForwardAgain, Hd_val, Is_from, IsForwarded
  <2>6. x = mem[copy.from][j + 1]
    BY <1>3, <2>2, <2>3, <2>4 DEF Field, Is_from
  <2> QED
    BY <1>1, <2>4, <2>5, <2>6 DEF CopyContext, CopyForwards
<1>5. CallStored(mem, loc, x, StoreMem(mem, loc, x), StoreArgs(loc, x))
  <2>1. MemoryOK(mem) /\ SameShape(mem, mem)
    BY <1>1, WordIndex DEF CopyContext, SameShape, TypesOK, MemoryOK
  <2> QED
    BY <1>1, <1>2, <2>1, StoreAtCall
<1>6. CallStored(mem, loc, x, mem', args')
  BY <1>3, <1>5
<1>7. Outside(x) \/ copy.to = ValueSp
  BY <1>4 DEF Outside
<1>8. ArgsApart'
  <2>1. \A k \in ArgSlots : args'[k] = IF loc = ArgLoc(k) THEN x ELSE args[k]
    BY <1>6 DEF CallStored
  <2> QED
    BY <1>1, <1>2, <1>7, <2>1, StoreOutside
<1>9. ASSUME NEW s \in Gens, NEW i \in DOMAIN mem'[s] PROVE Outside(mem'[s][i])
  <2>1. s \in Spaces /\ s # ValueSp
    BY SpaceNumbers DEF Gens
  <2>2. i \in DOMAIN mem[s]
    BY <1>6, <1>9, <2>1 DEF CallStored, SameShape
  <2>3. Outside(mem[s][i])
    BY <2>2 DEF Apart, WordsApart
  <2>4. mem'[s][i] = mem[s][i] \/ (s = copy.to /\ mem'[s][i] = x)
    BY <1>6, <2>1, <2>2 DEF CallStored
  <2> QED
    BY <1>7, <2>1, <2>3, <2>4
<1>10. WordsApart'
  BY <1>9 DEF WordsApart, Outside
<1> QED
  BY <1>8, <1>10 DEF Apart

LEMMA ForwardCopyApart ==
    ASSUME HeapInv, Bookkeeping, ExportRoots, Apart, ForwardCopy PROVE Apart'
<1>1. CopyContext /\ calls # <<>> /\ pc = "copying" /\ UNCHANGED <<pc, copy>>
  BY Context DEF ForwardCopy, Copying
<1>2. PICK f, t, loc : f = copy.from /\ t = copy.to /\ loc = Head(calls).p
  OBVIOUS
<1>3. PICK j, sz, h : j = IndexOf(Read(loc)) - 1 /\ sz = Size(f, j) /\ h = next[t] + 1
  OBVIOUS
<1>4. /\ j \in Headers(f) /\ sz \in Nat \ {0} /\ h \in Nat \ {0}
      /\ CopyMade(f, t, loc, j, sz, h)
  BY <1>2, <1>3, CopyIsMade
<1>5. /\ f \in Spaces /\ t \in Spaces /\ f # t /\ t \in Nat /\ j \in Nat
      /\ j + sz <= Len(mem[f]) /\ DOMAIN mem[f] = 1 .. Len(mem[f]) /\ Len(mem[f]) \in Nat
  <2>1. f \in Spaces /\ t \in Spaces /\ f # t /\ t \in Nat
    BY <1>1, <1>2, ToSpaceIndex, SpaceNumbers DEF CopyContext, CopySpaces
  <2>2. DOMAIN mem[f] = 1 .. Len(mem[f]) /\ Len(mem[f]) \in Nat /\ Headers(f) \subseteq 1 .. Len(mem[f])
    BY <1>1, <2>1, WordIndex DEF CopyContext
  <2>3. j + sz <= InUse(f) /\ InUse(f) <= Len(mem[f]) /\ InUse(f) \in Nat
    BY <1>1, <1>3, <1>4, <2>1, InUseType DEF CopyContext, ObjectsOK
  <2> QED
    BY <1>4, <2>1, <2>2, <2>3
<1>6. PICK p : p = Ptr(t, h + 1) /\ (Outside(p) \/ t = ValueSp)
  BY PlainOutside
<1>7. ArgsApart'
  <2>1. \A k \in ArgSlots : args'[k] = IF loc = ArgLoc(k) THEN p ELSE args[k]
    BY <1>4, <1>6 DEF CopyMade
  <2> QED
    BY <1>1, <1>2, <1>6, <2>1, StoreOutside
<1>8. (t # ValueSp /\ f \in Gens /\ Outside(p)) \/ (t = ValueSp /\ f = FakeSp)
  BY <1>1, <1>2, <1>6, WhereCopied
<1>9. ASSUME NEW s \in Gens, NEW i \in DOMAIN mem'[s] PROVE Outside(mem'[s][i])
  <2>0. s \in Spaces /\ s # ValueSp /\ s # FakeSp
    BY SpaceNumbers DEF Gens
  <2>1. i \in DOMAIN mem[s] /\ Outside(mem[s][i])
    BY <1>4, <1>9, <2>0 DEF CopyMade, Apart, WordsApart
  <2>2. CASE s # f /\ s # t
    BY <1>4, <2>0, <2>1, <2>2 DEF CopyMade
  <2>3. CASE s = f
    <3>1. mem'[f][i] = ZeroHeader \/ mem'[f][i] = p \/ mem'[f][i] = mem[f][i]
      BY <1>4, <1>6, <2>1, <2>3 DEF CopyMade
    <3> QED
      BY <1>8, <2>0, <2>1, <2>3, <3>1, PlainOutside DEF ZeroHeader
  <2>4. CASE s = t /\ i \in h .. h + sz
    <3>1. mem'[t][i] = mem[f][j + (i - h)]
      BY <1>4, <2>4 DEF CopyMade
    <3>2. j + (i - h) \in DOMAIN mem[f]
      <4>1. j \in 1 .. Len(mem[f])
        BY <1>1, <1>4, <1>5, WordIndex DEF CopyContext
      <4>2. i - h \in 0 .. sz
        BY <1>4, <2>4
      <4>3. \A x, y, m \in Nat : x >= 1 /\ x + sz <= m /\ y <= sz => x + y \in 1 .. m
        BY <1>4
      <4> QED
        BY <1>4, <1>5, <4>1, <4>2, <4>3
    <3>3. f \in Gens
      BY <1>8, <2>0, <2>4
    <3>4. Outside(mem[f][j + (i - h)])
      BY <3>2, <3>3 DEF Apart, WordsApart
    <3> QED
      BY <2>4, <3>1, <3>4
  <2>5. CASE s = t /\ i \notin h .. h + sz
    <3>1. mem'[t][i] = p \/ mem'[t][i] = mem[t][i]
      BY <1>4, <1>6, <2>1, <2>5 DEF CopyMade
    <3> QED
      BY <1>8, <2>0, <2>1, <2>5, <3>1
  <2> QED
    BY <2>2, <2>3, <2>4, <2>5
<1>10. WordsApart'
  BY <1>9 DEF WordsApart, Outside
<1> QED
  BY <1>7, <1>10 DEF Apart

LEMMA ReplacedApart ==
    ASSUME TypesOK, Apart, UNCHANGED args, NEW s, NEW w,
           \A i \in DOMAIN w : w[i] = Unused, mem' = [mem EXCEPT ![s] = w],
           AnswerOut => AnswerOut'
    PROVE  Apart'
<1>1. \A z \in Gens : mem'[z] = w \/ mem'[z] = mem[z]
  BY DEF TypesOK, Spaces
<1>2. ASSUME NEW z \in Gens, NEW i \in DOMAIN mem'[z] PROVE Outside(mem'[z][i])
  <2>1. CASE mem'[z] = w
    BY <1>2, <2>1, PlainOutside
  <2>2. CASE mem'[z] = mem[z]
    BY <1>2, <2>2 DEF Apart, WordsApart
  <2> QED
    BY <1>1, <2>1, <2>2
<1>3. WordsApart'
  BY <1>2 DEF WordsApart, Outside
<1>4. ArgsApart'
  BY DEF Apart, ArgsApart, Outside
<1> QED
  BY <1>3, <1>4 DEF Apart

LEMMA CollectorApart ==
    ASSUME HeapInv, Bookkeeping, ExportRoots, Apart,
           DoGeneration \/ GarbageCollect \/ Export \/ MallocFails
    PROVE  Apart'
<1>0. TypesOK
  BY DEF HeapInv
<1>1. ASSUME UNCHANGED <<mem, args>>, pc # "copying" \/ UNCHANGED <<pc, copy>>, ~ MutatorRuns
      PROVE  Apart'
  <2>1. AnswerOut => AnswerOut'
    BY <1>1 DEF AnswerOut, MutatorRuns
  <2> QED
    BY <1>1, <2>1, ApartStays
<1>2. ~ MutatorRuns
  <2>1. AnyNext /\ (DoGeneration => pc = "copying")
        /\ (GarbageCollect => pc \in {"garbage_collect", "collect", "copying"})
        /\ (Export => pc \in {"collect_all", "export", "compact", "copying"})
        /\ (MallocFails => pc \in {"garbage_collect", "collect", "export", "compact"})
    BY DEF AnyNext, DoGeneration, ForwardOther, ForwardAgain, ForwardCopy, ScanObject, Copying,
        GarbageCollect, CreateHeap, StartCollection, CreateNextSpace, CollectGeneration,
        GenerationCollected, GenerationCopied, RanOutOfGenerations,
        Export, CollectAllGeneration, GenerationCollectedAll, CollectAllReturn, ExportCopy,
        ExportCopied, ExportCompact, ExportReturn, MallocFails
  <2> QED
    BY <2>1 DEF MutatorRuns
<1>3. CASE DoGeneration
  <2>1. CASE ForwardOther \/ ScanObject
    BY <1>1, <1>2, <2>1 DEF ForwardOther, ScanObject, heapVars
  <2> QED
    BY <1>3, <2>1, ForwardAgainApart, ForwardCopyApart DEF DoGeneration
<1>4. ASSUME NEW s, NEW n, UNCHANGED args, mem' = [mem EXCEPT ![s] = EmptySpace(n)],
             AnswerOut => AnswerOut'
      PROVE  Apart'
  <2>1. PICK w : w = EmptySpace(n)
    OBVIOUS
  <2>2. \A i \in DOMAIN w : w[i] = Unused
    BY <2>1 DEF EmptySpace
  <2> QED
    BY <1>0, <1>4, <2>1, <2>2, ReplacedApart
<1>5. pc # "copying" => ~ AnswerOut
  BY <1>2 DEF AnswerOut, MutatorRuns
<1>6. ASSUME EmptyFrom, UNCHANGED args, pc = "copying", copy.caller # "compact" PROVE Apart'
  <2>1. ~ AnswerOut
    BY <1>6, WhereCopied DEF AnswerOut
  <2> QED
    BY <1>4, <1>6, <2>1 DEF EmptyFrom
<1>7. CASE GarbageCollect
  <2>1. CASE CreateHeap \/ CreateNextSpace
    BY <1>4, <1>5, <2>1 DEF CreateHeap, CreateNextSpace
  <2>2. CASE StartCollection \/ CollectGeneration \/ RanOutOfGenerations
    BY <1>1, <1>2, <2>2
    DEF StartCollection, CollectGeneration, RanOutOfGenerations, Stop, heapVars
  <2>3. CASE GenerationCollected
    BY <1>6, <2>3 DEF GenerationCollected, GenerationCopied
  <2> QED
    BY <1>7, <2>1, <2>2, <2>3 DEF GarbageCollect
<1>8. CASE Export
  <2>1. CASE CollectAllGeneration \/ CollectAllReturn
    BY <1>1, <1>2, <2>1 DEF CollectAllGeneration, CollectAllReturn
  <2>2. CASE GenerationCollectedAll \/ ExportCopied
    BY <1>6, <2>2 DEF GenerationCollectedAll, ExportCopied, GenerationCopied
  <2>3. CASE ExportCopy \/ ExportCompact
    BY <1>4, <1>5, <2>3 DEF ExportCopy, ExportCompact, CopyOut
  <2>4. CASE ExportReturn
    <3>1. (AnswerOut => AnswerOut') /\ \A i \in DOMAIN <<>> : <<>>[i] = Unused
      BY <2>4 DEF ExportReturn, AnswerOut
    <3> QED
      BY <1>0, <2>4, <3>1, ReplacedApart DEF ExportReturn
  <2> QED
    BY <1>8, <2>1, <2>2, <2>3, <2>4 DEF Export
<1>9. CASE MallocFails
  BY <1>1, <1>2, <1>9 DEF MallocFails, Stop, heapVars
<1> QED
  BY <1>3, <1>7, <1>8, <1>9

\* The main program, and functions that are entered.
LEMMA MainApart ==
    ASSUME HeapInv, Bookkeeping, Apart, DOMAIN args = ArgSlots,
           \/ Enter \/ BuildAgain \/ Finish
           \/ (ExportTree /\ AnyExport)
    PROVE  Apart'
<1>1. CASE Enter \/ Finish
  <2>1. UNCHANGED <<mem, args>> /\ (AnswerOut => AnswerOut')
    BY <1>1 DEF Enter, Check, Finish, BuildDone, Running, AnswerOut, heapVars
  <2> QED
    BY <2>1, ApartStays
<1>2. CASE ExportTree /\ AnyExport
  <2>1. UNCHANGED <<mem, args>> /\ pc = "mutator"
    BY <1>2 DEF AnyExport, ExportUnboxed, ExportStart, heapVars
  <2>2. ~ AnswerOut
    BY <2>1 DEF AnswerOut
  <2> QED
    BY <2>1, <2>2, ApartStays
<1>3. CASE BuildAgain
  <2>1. /\ mem' = mem /\ args' = [args EXCEPT ![1] = Null, ![4] = Long(Inserts)]
    BY <1>3 DEF BuildAgain
  <2>2. PICK n : n = Long(Inserts) /\ Outside(n) /\ Outside(Null)
    BY PlainOutside
  <2>3. \A k \in ArgSlots : k # 1 => Outside(args[k])
    BY DEF Apart, ArgsApart
  <2>4. \A k \in ArgSlots : Outside(args'[k])
    BY <2>1, <2>2, <2>3
  <2>5. ArgsApart'
    BY <2>4 DEF ArgsApart, Outside
  <2>6. WordsApart'
    BY <2>1 DEF Apart, WordsApart
  <2> QED
    BY <2>5, <2>6 DEF Apart
<1> QED
  BY <1>1, <1>2, <1>3

-----------------------------------------------------------------------------
(* The theorems. *)

LEMMA ProgramInit == Init => AnyInit /\ TreeInv /\ Apart
<1> SUFFICES ASSUME Init PROVE AnyInit /\ TreeInv /\ Apart
  OBVIOUS
<1>1. PICK n : args = StartArgs(n)
  BY DEF Init
<1>2. 1 \in ArgSlots /\ 4 \in ArgSlots
  BY ProgramAssumption
<1>3. args[1] = Null /\ args[4] = Long(n) /\ DOMAIN args = ArgSlots
      /\ \A k \in ArgSlots : ~ IsHeader(args[k]) /\ ~ IsPtr(args[k])
  BY <1>1, <1>2 DEF StartArgs, Null, Long, Unused, IsHeader, IsPtr
<1>4. AnyInit
  BY <1>3 DEF Init, AnyInit
<1>5. PICK fact : AllMeant(fact)
  BY NothingMeant
<1>6. fun = "build" /\ inserted = {} /\ pc = "entry"
  BY DEF Init
<1>7. Live(1) = Null /\ Live(4) = Long(n)
  BY <1>3, <1>6, CurrentHere DEF Live
<1>8. ReturningAt(fact, Null, Code("build"), Long(n))
  BY <1>6 DEF ReturningAt, TreeAt, KontAt, Fills, KeysAt, BelowAt, AboveAt, Precedes, Long
<1>9. Position(fact)
  BY <1>6, <1>7, <1>8 DEF Position
<1>10. TreeInv
  BY <1>5, <1>6, <1>9, Allocations DEF TreeInv, Explains, Requests, Serving, Exporting
<1>11. ArgsApart
  BY <1>3 DEF ArgsApart, Outside
<1>12. WordsApart
  <2>1. \A s \in Spaces : mem[s] = EmptySpace(NURSERY_SIZE) \/ mem[s] = <<>>
    BY DEF Init
  <2>2. \A i \in DOMAIN EmptySpace(NURSERY_SIZE) : EmptySpace(NURSERY_SIZE)[i] = Unused
    BY DEF EmptySpace
  <2>3. Gens \subseteq Spaces
    BY DEF Spaces
  <2> QED
    BY <2>1, <2>2, <2>3, PlainOutside DEF WordsApart
<1> QED
  BY <1>4, <1>10, <1>11, <1>12 DEF Apart

LEMMA TreeInvStutters == TreeInv /\ UNCHANGED vars /\ UNCHANGED progVars => TreeInv'
<1> SUFFICES ASSUME TreeInv, UNCHANGED vars, UNCHANGED progVars PROVE TreeInv'
  OBVIOUS
<1>1. /\ mem' = mem /\ next' = next /\ args' = args /\ alloc' = alloc /\ fi' = fi
      /\ budget' = budget /\ pc' = pc /\ copy' = copy
      /\ fun' = fun /\ inserted' = inserted
  BY DEF vars, progVars
<1>2. ASSUME NEW fact, NEW v, Means(fact, v) PROVE Means(fact, v)'
  <2>1. \A i : At(v, i)' = At(v, i)
    BY <1>1 DEF At, Current
  <2>2. \A k, l, r : NodeIs(fact, v, k, l, r)' = NodeIs(fact, v, k, l, r)
    BY <1>1 DEF NodeIs, TreeAt
  <2>3. \A k, t, c, e : FrameIs(fact, v, k, t, c, e)' = FrameIs(fact, v, k, t, c, e)
    BY <1>1 DEF FrameIs, TreeAt, KontAt
  <2>4. PICK l, r, c : l = At(v, 1) /\ r = At(v, 2) /\ c = At(v, 3)
    OBVIOUS
  <2>5. \A k : NodeIs(fact, v, k, At(v, 1), At(v, 2))' = NodeIs(fact, v, k, l, r)
    <3>1. At(v, 1)' = l /\ At(v, 2)' = r
      BY <2>1, <2>4
    <3>2. \A k : NodeIs(fact, v, k, At(v, 1), At(v, 2))' = NodeIs(fact, v, k, l, r)'
      BY <3>1
    <3> QED
      BY <2>2, <3>2
  <2>6. \A k : FrameIs(fact, v, k, At(v, 1), At(v, 2), At(v, 3))' = FrameIs(fact, v, k, l, r, c)
    <3>1. At(v, 1)' = l /\ At(v, 2)' = r /\ At(v, 3)' = c
      BY <2>1, <2>4
    <3>2. \A k : FrameIs(fact, v, k, At(v, 1), At(v, 2), At(v, 3))'
                   = FrameIs(fact, v, k, l, r, c)'
      BY <3>1
    <3> QED
      BY <2>3, <3>2
  <2>7. CASE /\ Hd_val(mem, v) = NodeHeader
             /\ \E k \in Nat : At(v, 0) = Long(k) /\ NodeIs(fact, v, k, At(v, 1), At(v, 2))
    <3>1. PICK k \in Nat : At(v, 0) = Long(k) /\ NodeIs(fact, v, k, l, r)
      BY <2>4, <2>7
    <3> QED
      BY <1>1, <2>1, <2>5, <2>7, <3>1 DEF Means
  <2>8. CASE ~ /\ Hd_val(mem, v) = NodeHeader
               /\ \E k \in Nat : At(v, 0) = Long(k) /\ NodeIs(fact, v, k, At(v, 1), At(v, 2))
    <3>1. Hd_val(mem, v) \in {LeftHeader, RightHeader}
      BY <1>2, <2>8 DEF Means
    <3>2. PICK k \in Nat :
              /\ At(v, 0) = Long(k) /\ FrameIs(fact, v, k, l, r, c)
              /\ Hd_val(mem, v) = LeftHeader => LeftIs(fact, v, k, l, c)
              /\ Hd_val(mem, v) = RightHeader => RightIs(fact, v, k, l, c)
      BY <1>2, <2>4, <2>8 DEF Means
    <3>3. At(v, 1)' = l /\ At(v, 3)' = c /\ At(v, 0)' = Long(k)
      BY <2>1, <2>4, <3>2
    <3>4. /\ Hd_val(mem', v) = LeftHeader => LeftIs(fact, v, k, At(v, 1), At(v, 3))'
          /\ Hd_val(mem', v) = RightHeader => RightIs(fact, v, k, At(v, 1), At(v, 3))'
      BY <1>1, <3>2, <3>3 DEF LeftIs, RightIs
    <3>5. FrameIs(fact, v, k, At(v, 1), At(v, 2), At(v, 3))'
      BY <2>6, <3>2
    <3> QED
      BY <1>1, <3>1, <3>3, <3>4, <3>5 DEF Means
  <2> QED
    BY <2>7, <2>8
<1>3. \A fact : AllMeant(fact) => AllMeant(fact)'
  BY <1>1, <1>2 DEF AllMeant, Objects, ObjectsBetween, InUse
<1>4. \A fact : Position(fact)' = Position(fact)
  <2> SUFFICES ASSUME NEW fact PROVE Position(fact)' = Position(fact)
    OBVIOUS
  <2>1. Live(1)' = Live(1) /\ Live(2)' = Live(2) /\ Live(3)' = Live(3) /\ Live(4)' = Live(4)
    BY <1>1 DEF Live, Current
  <2>2. /\ KontAt(fact, Live(3), Live(4))' = KontAt(fact, Live(3), Live(4))
        /\ KontAt(fact, Code(fun), Live(4))' = KontAt(fact, Code(fun), Live(4))
        /\ TreeAt(fact, Live(1))' = TreeAt(fact, Live(1))
    BY <1>1, <2>1 DEF TreeAt, KontAt
  <2>3. \A S : Fills(fact, S, Live(4))' = Fills(fact, S, Live(4))
    BY <1>1, <2>1 DEF Fills
  <2>4. InsertingAt(fact, Live(1), Live(2), Live(3), Live(4))'
            = InsertingAt(fact, Live(1), Live(2), Live(3), Live(4))
    BY <2>1, <2>2, <2>3 DEF InsertingAt, KeysAt
  <2>5. ReturningAt(fact, Live(1), Code(fun), Live(4))'
            = ReturningAt(fact, Live(1), Code(fun), Live(4))
    BY <2>1, <2>2, <2>3 DEF ReturningAt, KeysAt
  <2> QED
    BY <1>1, <2>4, <2>5 DEF Position
<1>5. \A fact : TreeAt(fact, Live(1))' = TreeAt(fact, Live(1)) /\ Live(1)' = Live(1)
  BY <1>1 DEF Live, Current, TreeAt
<1>6. Serving' = Serving /\ Exporting' = Exporting /\ Requests' = Requests
  BY <1>1 DEF Serving, Exporting, Requests
<1>7. \A fact : Explains(fact) => Explains(fact)'
  BY <1>1, <1>3, <1>4, <1>5, <1>6 DEF Explains, KeysAt
<1> QED
  BY <1>6, <1>7 DEF TreeInv

ProgramInv == IInv /\ AnswerInv /\ TreeInv /\ Apart

LEMMA ProgramStep == ProgramInv /\ [Next]_allVars => [AnyNext]_vars /\ ProgramInv'
<1> SUFFICES ASSUME ProgramInv, [Next]_allVars PROVE [AnyNext]_vars /\ ProgramInv'
  OBVIOUS
<1>1. HeapInv /\ Bookkeeping /\ IInv /\ AnswerInv /\ Requests /\ Apart
  BY BookkeepingHolds DEF IInv, ProgramInv, TreeInv
<1>2. PICK fact : Explains(fact)
  BY DEF ProgramInv, TreeInv
<1>3. ASSUME [AnyNext]_vars PROVE HeapInv' /\ Bookkeeping' /\ IInv' /\ AnswerInv'
  <2>1. IInv' /\ AnswerInv'
    BY <1>1, <1>3, NextInv, AnswerKept
  <2> QED
    BY <2>1, BookkeepingAfter DEF IInv
<1>4. DOMAIN args = ArgSlots /\ 1 .. 4 \subseteq ArgSlots
  BY <1>1, ProgramAssumption DEF HeapInv, TypesOK
<1>5. pc = "mutator" => Runs(fact)
  BY <1>1, <1>2, <1>4 DEF Runs
<1>6. CASE Enter
  <2>1. AnyEnter /\ TreeInv' /\ Apart'
    BY <1>1, <1>2, <1>4, <1>6, EnterStep, MainApart
  <2> QED
    BY <1>3, <2>1 DEF AnyNext, ProgramInv
<1>7. CASE InsertLeaf
  <2>1. AnyBody /\ (HeapInv' /\ Bookkeeping' => TreeInv')
    BY <1>5, <1>7, InsertLeafStep DEF InsertLeaf, Running
  <2>2. Apart'
    BY <1>1, <1>5, <1>7, FunctionsApart DEF InsertLeaf, Running
  <2> QED
    BY <1>3, <2>1, <2>2 DEF AnyNext, ProgramInv
<1>8. CASE InsertDown
  <2>1. AnyBody /\ (HeapInv' /\ Bookkeeping' => TreeInv')
    BY <1>5, <1>8, InsertDownStep DEF InsertDown, Running
  <2>2. Apart'
    BY <1>1, <1>5, <1>8, FunctionsApart DEF InsertDown, Running
  <2> QED
    BY <1>3, <2>1, <2>2 DEF AnyNext, ProgramInv
<1>9. CASE InsertFound
  <2>1. AnyBody /\ TreeInv'
    BY <1>5, <1>9, InsertFoundStep DEF InsertFound, Running
  <2>2. Apart'
    BY <1>1, <1>5, <1>9, FunctionsApart DEF InsertFound, Running
  <2> QED
    BY <1>3, <2>1, <2>2 DEF AnyNext, ProgramInv
<1>10. CASE InsertLeft
  <2>1. AnyBody /\ (HeapInv' /\ Bookkeeping' => TreeInv')
    BY <1>5, <1>10, InsertLeftStep DEF InsertLeft, Running
  <2>2. Apart'
    BY <1>1, <1>5, <1>10, FunctionsApart DEF InsertLeft, Running
  <2> QED
    BY <1>3, <2>1, <2>2 DEF AnyNext, ProgramInv
<1>11. CASE InsertRight
  <2>1. AnyBody /\ (HeapInv' /\ Bookkeeping' => TreeInv')
    BY <1>5, <1>11, InsertRightStep DEF InsertRight, Running
  <2>2. Apart'
    BY <1>1, <1>5, <1>11, FunctionsApart DEF InsertRight, Running
  <2> QED
    BY <1>3, <2>1, <2>2 DEF AnyNext, ProgramInv
<1>12. CASE BuildNext
  <2>1. AnyBody /\ TreeInv'
    BY <1>5, <1>12, BuildNextStep DEF BuildNext, Running
  <2>2. Apart'
    BY <1>1, <1>5, <1>12, FunctionsApart DEF BuildNext, Running
  <2> QED
    BY <1>3, <2>1, <2>2 DEF AnyNext, ProgramInv
<1>13. CASE ExportTree
  <2>1. AnyExport /\ TreeInv'
    BY <1>5, <1>13, ExportTreeStep DEF ExportTree, BuildDone, Running
  <2>2. Apart'
    BY <1>1, <1>4, <1>13, <2>1, MainApart
  <2> QED
    BY <1>3, <2>1, <2>2 DEF AnyNext, ProgramInv
<1>14. CASE BuildAgain
  <2>1. AnyRestart /\ TreeInv'
    BY <1>1, <1>4, <1>14, BuildAgainStep
  <2>2. Apart'
    BY <1>1, <1>4, <1>14, MainApart
  <2> QED
    BY <1>3, <2>1, <2>2 DEF AnyNext, ProgramInv
<1>15. CASE Finish
  <2>1. AnyFinish /\ TreeInv'
    BY <1>1, <1>15, FinishStep
  <2>2. Apart'
    BY <1>1, <1>4, <1>15, MainApart
  <2> QED
    BY <1>3, <2>1, <2>2 DEF AnyNext, ProgramInv
<1>18. CASE FreeFirst
  <2>1. AnyFree /\ Apart' /\ (HeapInv' /\ Bookkeeping' => TreeInv')
    BY <1>1, <1>5, <1>18, FreeFirstStep DEF FreeFirst, BuildDone, Running
  <2> QED
    BY <1>3, <2>1 DEF AnyNext, ProgramInv
<1>16. CASE CollectorStep
  <2>1. AnyNext
    BY <1>1, <1>16, CollectorControl
  <2>2. TreeInv'
    BY <1>1, <1>2, <1>3, <1>16, <2>1, CollectorKeeps
  <2>3. Apart'
    BY <1>1, <1>16, CollectorApart DEF CollectorStep, AnswerInv
  <2> QED
    BY <1>3, <2>1, <2>2, <2>3 DEF ProgramInv
<1>17. CASE UNCHANGED allVars
  <2>1. UNCHANGED vars /\ UNCHANGED progVars
    BY <1>17 DEF allVars
  <2>2. TreeInv'
    BY <2>1, TreeInvStutters DEF ProgramInv
  <2>3. Apart'
    BY <1>1, <2>1, ApartStays DEF vars, AnswerOut
  <2> QED
    BY <1>3, <2>1, <2>2, <2>3 DEF ProgramInv
<1> QED
  BY <1>6, <1>7, <1>8, <1>9, <1>10, <1>11, <1>12, <1>13, <1>14, <1>15, <1>16, <1>17,
     <1>18
  DEF Next, Mutator

\* gctest.c keeps to the rules that gc.h has for mutators, whatever keys it inserts and
\* however often it is interrupted to collect: it allocates what it announced, and holds
\* nothing across a check but in the args it names.
THEOREM ProgramKeepsToInterface == Spec => ImplementsAnyMutator
<1>1. Init => AnyInit /\ ProgramInv
  BY ProgramInit, InitInv DEF ProgramInv, AnyInit, AnswerInv, ExportRoots, AnswerFirst,
                              AnswerReturned, Exporting
<1> QED
  BY <1>1, ProgramStep, PTL DEF Spec, ImplementsAnyMutator, AnySpec

\* What the collector guarantees to all such programs, it guarantees to this one.
THEOREM ProgramHeapWellFormed == Spec => []ProgramInv
<1>1. Init => ProgramInv
  BY ProgramInit, InitInv DEF ProgramInv, AnyInit, AnswerInv, ExportRoots, AnswerFirst,
                              AnswerReturned, Exporting
<1> QED
  BY <1>1, ProgramStep, PTL DEF Spec

-----------------------------------------------------------------------------
(* The keys that are found are those of the facts. *)

LEMMA TreeFields ==
    ASSUME HeapInv, Bookkeeping, pc # "copying", NEW fact, AllMeant(fact), NEW v \in DOMAIN fact,
           Hd_val(mem, v) = NodeHeader
    PROVE  \E k, l, r :
               /\ k \in Nat
               /\ Field(mem, v, 0) = Long(k) /\ Field(mem, v, 1) = l /\ Field(mem, v, 2) = r
               /\ NodeIs(fact, v, k, l, r)
               /\ Wosize(mem, v) = 3 /\ ~ No_scan(Tag_hd(Hd_val(mem, v)))
               /\ \A i \in 1 .. 3 : \A u : u = Current(Field(mem, v, i - 1)) /\ IsPtr(u) =>
                      (u = l /\ l # Null) \/ (u = r /\ r # Null)
<1>1. PICK k \in Nat : /\ Field(mem, v, 0) = Long(k)
                       /\ NodeIs(fact, v, k, Field(mem, v, 1), Field(mem, v, 2))
  BY NodeFields
<1>2. PICK l, r : Field(mem, v, 1) = l /\ Field(mem, v, 2) = r
  OBVIOUS
<1>3. Wosize(mem, v) = 3 /\ ~ No_scan(Tag_hd(Hd_val(mem, v)))
  BY ProgramHeaders DEF Wosize
<1>4. ASSUME NEW i \in 1 .. 3, NEW u, u = Current(Field(mem, v, i - 1)), IsPtr(u)
      PROVE  (u = l /\ l # Null) \/ (u = r /\ r # Null)
  <2>1. u = Field(mem, v, i - 1)
    BY <1>4, CurrentHere
  <2>2. i - 1 = 0 \/ i - 1 = 1 \/ i - 1 = 2
    OBVIOUS
  <2>3. ~ IsPtr(Long(k)) /\ ~ IsPtr(Null)
    BY PlainValues, NullStays
  <2> QED
    BY <1>1, <1>2, <1>4, <2>1, <2>2, <2>3
<1> QED
  BY <1>1, <1>2, <1>3, <1>4

LEMMA TreeObjects ==
    ASSUME HeapInv, Bookkeeping, WordsPlain, pc # "copying", NEW fact, AllMeant(fact),
           NEW t, TreeAt(fact, t), NEW found, found = ToSet(ObjectsFrom(<<t>>))
    PROVE  /\ found \subseteq {v \in DOMAIN fact : Hd_val(mem, v) = NodeHeader
                                   /\ fact[v].keys \subseteq KeysAt(fact, t)}
           /\ t # Null => t \in found
           /\ \A v \in found : \A l \in {Field(mem, v, 1), Field(mem, v, 2)} :
                  l # Null => l \in found
<1>1. DOMAIN fact \subseteq Objects
  BY DEF AllMeant
<1>2. IsPtr(t) => t # Null /\ t \in Objects
  BY <1>1, NullStays DEF TreeAt
<1>3. t # Null => IsPtr(t)
  BY <1>1, ObjectSound DEF TreeAt
<1>4. /\ found \subseteq Objects /\ PointsWithin(found) /\ (IsPtr(t) => t \in found)
      /\ \A C \in SUBSET Objects : PointsWithin(C) /\ (IsPtr(t) => t \in C) => found \subseteq C
  <2>1. PICK values : values = <<t>> /\ IsSeq(values) /\ DOMAIN values = {1} /\ values[1] = t
    <3>1. IsSeq(<<t>>) /\ DOMAIN <<t>> = {1} /\ <<t>>[1] = t
      BY DEF IsSeq
    <3> QED
      BY <3>1
  <2>2. found = Items(ObjectsFrom(values)) /\ Plain(t)
    BY <1>2, <2>1, ObjectsValid DEF ToSet, Items, Plain
  <2>3. IsPtr(t) <=> t \in Objects
    BY <1>2, ObjectsValid, PointersAre
  <2>4. \A i \in DOMAIN values : Plain(values[i])
    BY <2>1, <2>2
  <2>5. /\ found \subseteq Objects /\ PointsWithin(found)
        /\ \A i \in DOMAIN values : values[i] \in Objects => values[i] \in found
        /\ \A C \in SUBSET Objects :
               /\ PointsWithin(C)
               /\ \A i \in DOMAIN values : values[i] \in Objects => values[i] \in C
               => found \subseteq C
    BY <2>1, <2>2, <2>4, FoundBelow
  <2>6. ASSUME NEW C \in SUBSET Objects, PointsWithin(C), IsPtr(t) => t \in C
        PROVE  found \subseteq C
    BY <2>1, <2>3, <2>5, <2>6
  <2> QED
    BY <2>1, <2>3, <2>5, <2>6
<1>5. PICK C : C = {v \in DOMAIN fact : Hd_val(mem, v) = NodeHeader
                        /\ fact[v].keys \subseteq KeysAt(fact, t)}
  OBVIOUS
<1>6. PointsWithin(C)
  <2> SUFFICES ASSUME NEW v \in C, ~ No_scan(Tag_hd(Hd_val(mem, v))),
                      NEW i \in 1 .. Wosize(mem, v), NEW u,
                      u = Current(Field(mem, v, i - 1)), IsPtr(u)
               PROVE  u \in C
    BY DEF PointsWithin
  <2>1. v \in DOMAIN fact /\ Hd_val(mem, v) = NodeHeader /\ fact[v].keys \subseteq KeysAt(fact, t)
    BY <1>5
  <2>2. PICK k, l, r :
               /\ NodeIs(fact, v, k, l, r) /\ Wosize(mem, v) = 3
               /\ \A j \in 1 .. 3 : \A w : w = Current(Field(mem, v, j - 1)) /\ IsPtr(w) =>
                      (w = l /\ l # Null) \/ (w = r /\ r # Null)
    BY <2>1, TreeFields
  <2>3. (u = l /\ l # Null) \/ (u = r /\ r # Null)
    BY <2>2
  <2>4. /\ TreeAt(fact, l) /\ TreeAt(fact, r)
        /\ fact[v].keys = KeysAt(fact, l) \cup {k} \cup KeysAt(fact, r)
    BY <2>2 DEF NodeIs
  <2>5. TreeAt(fact, u) /\ u # Null /\ KeysAt(fact, u) \subseteq fact[v].keys
    BY <2>3, <2>4
  <2> QED
    BY <1>5, <2>1, <2>5 DEF TreeAt, KeysAt
<1>7. IsPtr(t) => t \in C
  BY <1>2, <1>5 DEF TreeAt, KeysAt
<1>8. found \subseteq C
  BY <1>1, <1>4, <1>5, <1>6, <1>7
<1>9. ASSUME NEW v \in found, NEW l \in {Field(mem, v, 1), Field(mem, v, 2)}, l # Null
      PROVE  l \in found
  <2>1. v \in DOMAIN fact /\ Hd_val(mem, v) = NodeHeader
    BY <1>5, <1>8
  <2>2. PICK k \in Nat : NodeIs(fact, v, k, Field(mem, v, 1), Field(mem, v, 2))
    BY <2>1, NodeFields
  <2>3. Wosize(mem, v) = 3 /\ ~ No_scan(Tag_hd(Hd_val(mem, v)))
    BY <2>1, ProgramHeaders DEF Wosize
  <2>4. PICK i \in 1 .. Wosize(mem, v) : l = Field(mem, v, i - 1)
    <3>1. 2 \in 1 .. 3 /\ 2 - 1 = 1 /\ 3 \in 1 .. 3 /\ 3 - 1 = 2
      OBVIOUS
    <3> QED
      BY <2>3, <3>1
  <2>5. l = Current(Field(mem, v, i - 1))
    BY <2>4, CurrentHere
  <2>6. IsPtr(l)
    <3>1. TreeAt(fact, l)
      BY <2>2 DEF NodeIs
    <3> QED
      BY <1>1, <1>9, <3>1, ObjectSound DEF TreeAt
  <2> QED
    BY <1>4, <2>3, <2>5, <2>6 DEF PointsWithin
<1> QED
  BY <1>3, <1>4, <1>5, <1>8, <1>9

\* By the heights: a node of least height whose keys are not all found would have them
\* in its subtrees.
LEMMA TreeKeys ==
    ASSUME HeapInv, Bookkeeping, WordsPlain, pc # "copying", NEW fact, AllMeant(fact),
           NEW t, TreeAt(fact, t)
    PROVE  KeysBelow(t) = KeysAt(fact, t)
<1>1. PICK found : found = ToSet(ObjectsFrom(<<t>>))
  OBVIOUS
<1>2. /\ found \subseteq {v \in DOMAIN fact : Hd_val(mem, v) = NodeHeader
                              /\ fact[v].keys \subseteq KeysAt(fact, t)}
      /\ t # Null => t \in found
      /\ \A v \in found : \A l \in {Field(mem, v, 1), Field(mem, v, 2)} : l # Null => l \in found
  BY <1>1, TreeObjects
<1>3. PICK keys : keys = {Field(mem, v, 0)[2] : v \in found} /\ keys = KeysBelow(t)
  BY <1>1 DEF KeysBelow
<1>4. ASSUME NEW v \in found
      PROVE  \E k, l, r :
                 /\ k \in keys
                 /\ Field(mem, v, 0)[2] = k
                 /\ (l # Null => l \in found) /\ (r # Null => r \in found)
                 /\ NodeIs(fact, v, k, l, r)
  <2>1. v \in DOMAIN fact /\ Hd_val(mem, v) = NodeHeader
    BY <1>2
  <2>2. PICK k, l, r :
            /\ Field(mem, v, 0) = Long(k) /\ Field(mem, v, 1) = l /\ Field(mem, v, 2) = r
            /\ NodeIs(fact, v, k, l, r)
    BY <2>1, TreeFields
  <2>3. Field(mem, v, 0)[2] = k /\ k \in keys
    BY <1>3, <2>2 DEF Long
  <2>4. (l # Null => l \in found) /\ (r # Null => r \in found)
    BY <1>2, <2>2
  <2> QED
    BY <2>2, <2>3, <2>4
<1>5. keys \subseteq KeysAt(fact, t)
  <2> SUFFICES ASSUME NEW v \in found PROVE Field(mem, v, 0)[2] \in KeysAt(fact, t)
    BY <1>3
  <2>1. PICK k, l, r : Field(mem, v, 0)[2] = k /\ NodeIs(fact, v, k, l, r)
    BY <1>4
  <2> QED
    BY <1>2, <2>1 DEF NodeIs
<1>6. ASSUME NEW v \in found, ~ fact[v].keys \subseteq keys
      PROVE  \E w \in found : ~ fact[w].keys \subseteq keys /\ fact[w].height < fact[v].height
  <2>1. PICK k, l, r :
            /\ k \in keys
            /\ (l # Null => l \in found) /\ (r # Null => r \in found)
            /\ NodeIs(fact, v, k, l, r)
    BY <1>4
  <2>2. ~ KeysAt(fact, l) \subseteq keys \/ ~ KeysAt(fact, r) \subseteq keys
    BY <1>6, <2>1 DEF NodeIs
  <2> QED
    BY <2>1, <2>2 DEF NodeIs, KeysAt, HeightAt
<1>7. \A v \in found : fact[v].keys \subseteq keys
  <2> SUFFICES ASSUME NEW v \in found, ~ fact[v].keys \subseteq keys PROVE FALSE
    OBVIOUS
  <2>1. PICK T : T = {fact[w].height : w \in {x \in found : ~ fact[x].keys \subseteq keys}}
    OBVIOUS
  <2>2. T \in SUBSET Nat /\ T # {}
    <3>1. \A w \in found : fact[w].height \in Nat
      BY <1>2 DEF AllMeant, Facts
    <3> QED
      BY <2>1, <3>1
  <2>3. PICK h \in T : \A y \in T : h <= y
    BY <2>2, LeastNatural
  <2>4. PICK w \in found : fact[w].height = h /\ ~ fact[w].keys \subseteq keys
    BY <2>1
  <2>5. PICK x \in found : ~ fact[x].keys \subseteq keys /\ fact[x].height < h
    BY <1>6, <2>4
  <2>6. fact[x].height \in T
    BY <2>1, <2>5
  <2>7. h \in Nat /\ fact[x].height \in Nat /\ h <= fact[x].height
    BY <2>2, <2>3, <2>6
  <2>8. fact[x].height < h
    BY <2>5
  <2> QED
    BY <2>7, <2>8
<1>8. KeysAt(fact, t) \subseteq keys
  BY <1>2, <1>7 DEF KeysAt
<1> QED
  BY <1>3, <1>5, <1>8

\* A tree whose keys are those inserted holds them in order.
LEMMA TreeOrdered ==
    ASSUME HeapInv, Bookkeeping, WordsPlain, pc # "copying", NEW fact, AllMeant(fact),
           NEW t, TreeAt(fact, t), KeysAt(fact, t) = inserted
    PROVE  HoldsInserted(t)
<1>1. KeysBelow(t) = inserted
  BY TreeKeys
<1>2. ASSUME NEW v \in ToSet(ObjectsFrom(<<t>>))
      PROVE  /\ \A k \in KeysBelow(Field(mem, v, 1)) : k < Field(mem, v, 0)[2]
             /\ \A k \in KeysBelow(Field(mem, v, 2)) : k > Field(mem, v, 0)[2]
  <2>1. v \in DOMAIN fact /\ Hd_val(mem, v) = NodeHeader
    BY TreeObjects
  <2>2. PICK x, l, r :
            /\ x \in Nat
            /\ Field(mem, v, 0) = Long(x) /\ Field(mem, v, 1) = l /\ Field(mem, v, 2) = r
            /\ NodeIs(fact, v, x, l, r)
    BY <2>1, TreeFields
  <2>3. /\ TreeAt(fact, l) /\ TreeAt(fact, r)
        /\ Precedes(KeysAt(fact, l), {x}) /\ Precedes({x}, KeysAt(fact, r))
    BY <2>2 DEF NodeIs
  <2>4. KeysBelow(l) = KeysAt(fact, l) /\ KeysBelow(r) = KeysAt(fact, r)
    BY <2>3, TreeKeys
  <2>5. KeysAt(fact, l) \subseteq Nat /\ KeysAt(fact, r) \subseteq Nat
    BY <2>3, FactsTyped
  <2>6. Field(mem, v, 0)[2] = x
    BY <2>2 DEF Long
  <2>7. (\A k \in KeysBelow(l) : k < x) /\ (\A k \in KeysBelow(r) : k > x)
    BY <2>3, <2>4, <2>5 DEF Precedes
  <2> QED
    BY <2>2, <2>6, <2>7
<1> QED
  BY <1>1, <1>2 DEF HoldsInserted

\* The program works, whatever collections it goes through and whatever the sizes of
\* the generations: the tree that build has is a search tree of the keys inserted, and
\* so is the copy that export returns.
THEOREM TreeKeepsKeys == Spec => []TreeHoldsKeys
<1>1. IInv => HeapInv /\ Bookkeeping
  BY BookkeepingHolds DEF IInv
<1>2. Init => WordsPlain
  BY ProgramInit, InitPlain
<1>3. ProgramInv /\ WordsPlain /\ [Next]_allVars => WordsPlain'
  BY <1>1, ProgramStep, NextPlain DEF ProgramInv
<1>4. ProgramInv /\ WordsPlain => TreeHoldsKeys
  <2> SUFFICES ASSUME ProgramInv, WordsPlain PROVE TreeHoldsKeys
    OBVIOUS
  <2>1. HeapInv /\ Bookkeeping /\ AnswerInv /\ Requests
    BY <1>1 DEF ProgramInv, TreeInv
  <2>2. PICK fact : Explains(fact)
    BY DEF ProgramInv, TreeInv
  <2>3. CASE pc \in {"entry", "mutator"} /\ fun = "build"
    <3>1. Live(1) = args[1] /\ AllMeant(fact)
      BY <2>2, <2>3, CurrentHere DEF Live, Explains
    <3>2. ReturningAt(fact, args[1], Code("build"), Live(4))
      BY <2>2, <2>3, <3>1 DEF Explains, Serving, Position
    <3>3. TreeAt(fact, args[1]) /\ KeysAt(fact, args[1]) = inserted
      <4>1. Live(4)[1] = "long"
        BY <3>2 DEF ReturningAt, KontAt, Code
      <4> QED
        BY <3>2, <4>1 DEF ReturningAt, Fills, BelowAt, AboveAt
    <3>4. HoldsInserted(args[1])
      BY <2>1, <2>3, <3>1, <3>3, TreeOrdered
    <3> QED
      BY <2>3, <3>4 DEF TreeHoldsKeys
  <2>4. CASE pc = "exported"
    <3>1. Live(1) = args[1] /\ AllMeant(fact)
      BY <2>2, <2>4, CurrentHere DEF Live, Explains
    <3>2. TreeAt(fact, args[1]) /\ KeysAt(fact, args[1]) = inserted
      BY <2>2, <2>4, <3>1 DEF Explains
    <3>3. result = args[1]
      <4>1. IsPtr(args[1]) \/ ~ Is_block(args[1])
        BY <2>1, <3>1, <3>2, ObjectSound DEF TreeAt, AllMeant, Null, Long, Is_block
      <4> QED
        BY <2>1, <2>4, <4>1 DEF AnswerInv, AnswerReturned
    <3>4. HoldsInserted(args[1])
      BY <2>1, <2>4, <3>1, <3>2, TreeOrdered
    <3> QED
      BY <2>4, <3>3, <3>4 DEF TreeHoldsKeys
  <2> QED
    BY <2>3, <2>4 DEF TreeHoldsKeys
<1> QED
  BY <1>2, <1>3, <1>4, ProgramHeapWellFormed, PTL DEF Spec

-----------------------------------------------------------------------------
(* What has been exported stays as it is. *)

\* Once export has returned, no space is copied from or to outside the heap, and the
\* heap does not change what is there.
LEMMA NoSecondExport ==
    ASSUME HeapInv, Bookkeeping, result # Unused
    PROVE  /\ ~ pc \in {"collect_all", "export", "compact"}
           /\ pc = "copying" => /\ copy.caller = "garbage_collect"
                                /\ copy.from # ValueSp /\ copy.to # ValueSp
<1>1. ~ pc \in {"collect_all", "export", "compact"}
  BY DEF HeapInv, SpacesOK
<1>2. CASE pc = "copying"
  <2>1. CopyPlan /\ gen \in Gens
    BY <1>2 DEF HeapInv, CopyOK, Bookkeeping
  <2>2. copy.caller = "garbage_collect" /\ copy.from = gen /\ copy.to = gen + 1
        /\ gen < MAX_SPACES - 1
    BY <2>1 DEF CopyPlan
  <2>3. gen \in Nat /\ ValueSp = MAX_SPACES + 1 /\ MAX_SPACES \in Nat
    BY <2>1, SpaceNumbers DEF Gens
  <2> QED
    BY <1>1, <2>2, <2>3
<1> QED
  BY <1>1, <1>2

LEMMA BlockKept ==
    ASSUME HeapInv, Bookkeeping, [AnyNext]_vars, result # Unused, ~ AnyFree
    PROVE  /\ result' = result
           /\ mem'[ValueSp] = mem[ValueSp] /\ next'[ValueSp] = next[ValueSp]
<1>1. /\ ~ pc \in {"collect_all", "export", "compact"} /\ TypesOK
      /\ pc = "copying" => /\ copy.caller = "garbage_collect" /\ CopyContext
                           /\ copy.from # ValueSp /\ copy.to # ValueSp
  BY NoSecondExport, Context DEF HeapInv
<1>2. /\ MAX_SPACES \in Nat /\ MAX_SPACES >= 2 /\ ValueSp = MAX_SPACES + 1 /\ ValueSp \in Spaces
      /\ 0 \in Spaces /\ Spaces = 0 .. MAX_SPACES + 1 /\ ValueSp # 0
  BY SpaceNumbers
<1>3. CASE AnyEnter \/ AnyExport \/ AnyRestart \/ AnyFinish \/ MallocFails \/ UNCHANGED vars
  BY <1>3 DEF AnyEnter, Check, AnyExport, AnyRestart, AnyFinish, MallocFails, Stop, heapVars, vars
<1>4. CASE AnyBody
  <2>1. CASE UNCHANGED mem
    BY <1>4, <2>1 DEF AnyBody
  <2>2. CASE MakesObject
    <3>1. PICK w : SpaceReplaced(mem, 0, w, mem')
      BY <1>1, <2>2, MadeObject
    <3> QED
      BY <1>2, <1>4, <3>1 DEF AnyBody, SpaceReplaced
  <2> QED
    BY <1>4, <2>1, <2>2 DEF AnyBody
<1>5. CASE DoGeneration
  <2>1. pc = "copying" /\ UNCHANGED result
    BY <1>5 DEF DoGeneration, ForwardOther, ForwardAgain, ForwardCopy, ScanObject, Copying
  <2>2. CASE ForwardOther \/ ScanObject
    BY <2>1, <2>2 DEF ForwardOther, ScanObject, heapVars
  <2>3. CASE ForwardAgain
    <3>1. PICK loc, u : loc = Head(calls).p /\ mem' = StoreMem(mem, loc, u) /\ calls # <<>>
      BY <2>3 DEF ForwardAgain, Copying
    <3>2. MemoryOK(mem) /\ SameShape(mem, mem)
      BY <1>1 DEF TypesOK, MemoryOK, SameShape
    <3>3. CallStored(mem, loc, u, StoreMem(mem, loc, u), StoreArgs(loc, u))
      BY <1>1, <2>1, <3>1, <3>2, StoreAtCall
    <3> QED
      BY <1>1, <1>2, <2>1, <2>3, <3>1, <3>3 DEF CallStored, ForwardAgain
  <2>4. CASE ForwardCopy
    <3>1. PICK f, t, loc, j, sz, h :
              /\ f = copy.from /\ t = copy.to /\ loc = Head(calls).p
              /\ j = IndexOf(Read(loc)) - 1 /\ sz = Size(f, j) /\ h = next[t] + 1
      OBVIOUS
    <3>2. CopyMade(f, t, loc, j, sz, h) /\ next' = [next EXCEPT ![t] = h + sz]
      BY <2>4, <3>1, CopyIsMade
    <3> QED
      BY <1>1, <1>2, <2>1, <3>1, <3>2 DEF CopyMade, TypesOK
  <2> QED
    BY <1>5, <2>2, <2>3, <2>4 DEF DoGeneration
<1>6. CASE GarbageCollect
  <2>1. UNCHANGED result
    BY <1>6 DEF GarbageCollect, CreateHeap, StartCollection, CreateNextSpace, CollectGeneration,
                GenerationCollected, RanOutOfGenerations, Stop
  <2>2. CASE CreateHeap \/ CreateNextSpace
    <3>1. CASE CreateHeap
      BY <1>1, <1>2, <2>1, <3>1 DEF CreateHeap, TypesOK
    <3>2. CASE CreateNextSpace
      <4>1. gen + 1 # ValueSp /\ next' = next
            /\ mem' = [mem EXCEPT ![gen + 1] = EmptySpace(RATIO * Len(mem[gen]))]
        BY <1>2, <3>2 DEF Bookkeeping, Gens, CreateNextSpace
      <4>2. mem'[ValueSp] = mem[ValueSp]
        BY <1>1, <1>2, <4>1 DEF TypesOK
      <4> QED
        BY <2>1, <4>1, <4>2
    <3> QED
      BY <2>2, <3>1, <3>2
  <2>3. CASE StartCollection \/ CollectGeneration \/ RanOutOfGenerations
    BY <1>1, <1>2, <2>1, <2>3
    DEF StartCollection, CollectGeneration, RanOutOfGenerations, Stop, heapVars, TypesOK
  <2>4. CASE GenerationCollected
    <3>1. pc = "copying" /\ EmptyFrom
      BY <2>4 DEF GenerationCollected, GenerationCopied
    <3> QED
      BY <1>1, <1>2, <2>1, <3>1, FromEmptied
  <2> QED
    BY <1>6, <2>2, <2>3, <2>4 DEF GarbageCollect
<1>7. CASE Export
  <2>1. \/ pc \in {"collect_all", "export", "compact"}
        \/ pc = "copying" /\ copy.caller # "garbage_collect"
    BY <1>7 DEF Export, CollectAllGeneration, GenerationCollectedAll, CollectAllReturn,
      ExportCopy, ExportCopied, ExportCompact, ExportReturn, GenerationCopied
  <2> QED
    BY <1>1, <2>1
<1> QED
  BY <1>3, <1>4, <1>5, <1>6, <1>7 DEF AnyNext

\* An object of the block has its words there, and they lead to objects of the block.
LEMMA BlockObject ==
    ASSUME HeapInv, Bookkeeping, WordsPlain, result # Unused, NEW view, view = View,
           NEW v \in ObjectsOf(ValueSp)
    PROVE  /\ \E k \in Headers(ValueSp) :
                  v = Ptr(ValueSp, k + 1) /\ k \in Nat /\ mem[ValueSp][k] # ZeroHeader
           /\ v \in DOMAIN view /\ view[v].hd = Hd_val(mem, v)
           /\ IsSeq(view[v].words) /\ view[v].words = Fields(mem, v)
           /\ ~ No_scan(Tag_hd(Hd_val(mem, v))) =>
                  \A i \in DOMAIN view[v].words :
                      IsPtr(view[v].words[i]) => view[v].words[i] \in ObjectsOf(ValueSp)
<1>1. v \in Objects /\ SpaceOf(v) = ValueSp
  BY DEF ObjectsOf
<1>2. PICK s \in Spaces : \E k \in Headers(s) :
          /\ v = Ptr(s, k + 1) /\ k \in Nat /\ mem[s][k] # ZeroHeader
          /\ Hd_val(mem, v) = mem[s][k] /\ Wosize(mem, v) = Size(s, k)
          /\ Size(s, k) \in Nat
          /\ \A i \in Nat : Field(mem, v, i - 1) = mem[s][k + i]
  BY <1>1, ObjectsHave
<1>3. s = ValueSp
  BY <1>1, <1>2 DEF SpaceOf, Ptr
<1>4. PICK k \in Headers(ValueSp) :
          /\ v = Ptr(ValueSp, k + 1) /\ k \in Nat /\ mem[ValueSp][k] # ZeroHeader
          /\ Hd_val(mem, v) = mem[ValueSp][k] /\ Wosize(mem, v) = Size(ValueSp, k)
          /\ Size(ValueSp, k) \in Nat
          /\ \A i \in Nat : Field(mem, v, i - 1) = mem[ValueSp][k + i]
  BY <1>2, <1>3
<1>5. PICK x, hd, sz : x = view[v] /\ hd = Hd_val(mem, v) /\ sz = Wosize(mem, v)
  OBVIOUS
<1>6. /\ DOMAIN view = Objects /\ x.hd = hd /\ sz \in Nat /\ IsSeq(x.words) /\ Len(x.words) = sz
      /\ No_scan(Tag_hd(hd)) => x.words = Fields(mem, v)
      /\ ~ No_scan(Tag_hd(hd)) =>
             \A i \in 1 .. sz :
                 /\ \A y : y = Field(mem, v, i - 1) => x.words[i] = Current(y)
                 /\ IsPtr(x.words[i]) => x.words[i] \in Objects
  BY <1>1, <1>5, ViewIs
<1>7. CASE No_scan(Tag_hd(hd))
  <2>1. x.words = Fields(mem, v) /\ No_scan(Tag_hd(Hd_val(mem, v)))
    BY <1>5, <1>6, <1>7
  <2> QED
    BY <1>1, <1>4, <1>5, <1>6, <2>1
<1>8. CASE ~ No_scan(Tag_hd(hd))
  <2>1. DOMAIN x.words = 1 .. sz
    BY <1>6, IsSeqLen
  <2>2. ASSUME NEW i \in 1 .. sz
        PROVE  /\ x.words[i] = Field(mem, v, i - 1)
               /\ IsPtr(x.words[i]) => x.words[i] \in ObjectsOf(ValueSp)
    <3>1. PICK y : y = Field(mem, v, i - 1) /\ y = mem[ValueSp][k + i] /\ x.words[i] = Current(y)
      BY <1>4, <1>6, <1>8
    <3>2. CASE ~ IsPtr(y)
      BY <3>1, <3>2, CurrentSame
    <3>3. CASE IsPtr(y)
      <4>1. HasPointers(ValueSp, k)
        BY <1>4, <1>5, <1>8 DEF HasPointers
      <4>2. k + i \in k + 1 .. k + Size(ValueSp, k)
        <5>1. sz = Size(ValueSp, k)
          BY <1>4, <1>5
        <5> QED
          BY <1>4, <1>6, <5>1
      <4>3. PointsToObject(y) /\ (SpaceOf(y) >= ValueSp \/ ToBeForwarded(ValueSp, k + i))
        BY <1>3, <3>1, <3>3, <4>1, <4>2 DEF HeapInv, PointersOK
      <4>4. ~ ToBeForwarded(ValueSp, k + i) /\ (pc = "copying" => copy.from # ValueSp)
        BY NoSecondExport DEF ToBeForwarded
      <4>5. SpaceOf(y) = ValueSp
        BY <4>3, <4>4, SpaceNumbers DEF PointsToObject
      <4>6. Current(y) = y
        BY <4>4, <4>5 DEF Current
      <4> QED
        BY <1>6, <1>8, <3>1, <3>3, <4>5, <4>6 DEF ObjectsOf
    <3> QED
      BY <3>2, <3>3
  <2>3. x.words = Fields(mem, v)
    <3>1. x.words = [i \in 1 .. sz |-> x.words[i]]
      BY <1>6, <2>1 DEF IsSeq
    <3> QED
      BY <1>5, <2>2, <3>1 DEF Fields
  <2> QED
    BY <1>1, <1>4, <1>5, <1>6, <2>1, <2>2, <2>3
<1> QED
  BY <1>7, <1>8

LEMMA BlockObjectAfter ==
    (HeapInv /\ Bookkeeping /\ WordsPlain /\ result # Unused =>
        \A view : view = View => \A v \in ObjectsOf(ValueSp) :
            /\ v \in DOMAIN view /\ view[v].hd = Hd_val(mem, v)
            /\ IsSeq(view[v].words) /\ view[v].words = Fields(mem, v))'
<1>1. HeapInv /\ Bookkeeping /\ WordsPlain /\ result # Unused =>
        \A view : view = View => \A v \in ObjectsOf(ValueSp) :
            /\ v \in DOMAIN view /\ view[v].hd = Hd_val(mem, v)
            /\ IsSeq(view[v].words) /\ view[v].words = Fields(mem, v)
  BY BlockObject
<1> QED
  BY <1>1, PTL

LEMMA HeaderObjectAfter ==
    (HeapInv /\ Bookkeeping =>
        \A s \in Spaces : \A k \in Headers(s) : mem[s][k] # ZeroHeader =>
            \A v : v = Ptr(s, k + 1) => v \in Objects /\ SpaceOf(v) = s)'
<1>1. HeapInv /\ Bookkeeping =>
        \A s \in Spaces : \A k \in Headers(s) : mem[s][k] # ZeroHeader =>
            \A v : v = Ptr(s, k + 1) => v \in Objects /\ SpaceOf(v) = s
  BY HeaderObject
<1> QED
  BY <1>1, PTL

LEMMA GraphIsAfter ==
    (HeapInv /\ Bookkeeping /\ WordsPlain =>
        \A values : IsSeq(values) /\ (\A i \in DOMAIN values : Plain(values[i])) =>
            \E b : IsGraph(GraphFrom(values), values, View, Discover, b))'
<1>1. HeapInv /\ Bookkeeping /\ WordsPlain =>
        \A values : IsSeq(values) /\ (\A i \in DOMAIN values : Plain(values[i])) =>
            \E b : IsGraph(GraphFrom(values), values, View, Discover, b)
  BY GraphIs
<1> QED
  BY <1>1, PTL

\* The objects of the block are there after a step that keeps its words, as they were.
LEMMA BlockStays ==
    ASSUME HeapInv, Bookkeeping, WordsPlain, HeapInv', Bookkeeping', WordsPlain',
           result # Unused, result' = result, mem'[ValueSp] = mem[ValueSp],
           NEW v \in ObjectsOf(ValueSp), NEW view, view = View, NEW view2, view2 = View'
    PROVE  /\ v \in ObjectsOf(ValueSp)' /\ v \in DOMAIN view2
           /\ view2[v].hd = view[v].hd /\ view2[v].words = view[v].words
<1>1. PICK k \in Headers(ValueSp) :
          v = Ptr(ValueSp, k + 1) /\ k \in Nat /\ mem[ValueSp][k] # ZeroHeader
  BY BlockObject
<1>2. ValueSp \in Spaces /\ SpaceOf(v) = ValueSp
  BY SpaceNumbers DEF ObjectsOf
<1>3. k \in Headers(ValueSp)' /\ mem'[ValueSp][k] # ZeroHeader
  BY <1>1 DEF Headers
<1>4. v \in ObjectsOf(ValueSp)'
  BY <1>1, <1>2, <1>3, HeaderObjectAfter DEF ObjectsOf
<1>5. Hd_val(mem', v) = Hd_val(mem, v) /\ Fields(mem', v) = Fields(mem, v)
  <2>1. Hd_val(mem', v) = Hd_val(mem, v) /\ \A i : Field(mem', v, i) = Field(mem, v, i)
    BY <1>2 DEF Hd_val, Field
  <2> QED
    BY <2>1 DEF Fields, Wosize
<1>6. view[v].hd = Hd_val(mem, v) /\ view[v].words = Fields(mem, v)
  BY BlockObject
<1>7. /\ v \in DOMAIN view2
      /\ view2[v].hd = Hd_val(mem', v) /\ view2[v].words = Fields(mem', v)
  BY <1>4, BlockObjectAfter
<1> QED
  BY <1>4, <1>5, <1>6, <1>7

\* So the graph below a value of the block is the same after such a step.
LEMMA BlockGraph ==
    ASSUME HeapInv, Bookkeeping, WordsPlain, HeapInv', Bookkeeping', WordsPlain',
           result # Unused, result' = result, mem'[ValueSp] = mem[ValueSp],
           NEW r, IsPtr(r) => r \in ObjectsOf(ValueSp)
    PROVE  /\ IsPtr(r) => r \in ObjectsOf(ValueSp)'
           /\ GraphFrom(<<r>>)' = GraphFrom(<<r>>)
<1>1. PICK A, view, view2, D, D2, phi :
          /\ A = ObjectsOf(ValueSp) /\ view = View /\ view2 = View'
          /\ D = Discover /\ D2 = Discover' /\ phi = [a \in A |-> a]
  OBVIOUS
<1>2. PICK values : /\ values = <<r>> /\ IsSeq(values) /\ Len(values) = 1 /\ DOMAIN values = {1}
                    /\ values[1] = r
  <2>1. IsSeq(<<r>>) /\ Len(<<r>>) = 1 /\ DOMAIN <<r>> = {1} /\ <<r>>[1] = r
    BY DEF IsSeq
  <2> QED
    BY <2>1
<1>3. \A i \in DOMAIN values : Plain(values[i])
  BY <1>2, ObjectsValid DEF ObjectsOf, Plain
<1>4. PICK b : IsGraph(GraphFrom(values), values, view, D, b)
  BY <1>1, <1>2, <1>3, GraphIs
<1>5. PICK b2 : IsGraph(GraphFrom(values)', values, view2, D2, b2)
  BY <1>1, <1>2, <1>3, GraphIsAfter
<1>6. \A a \in A : /\ a \in ObjectsOf(ValueSp)' /\ a \in DOMAIN view2
                   /\ view2[a].hd = view[a].hd /\ view2[a].words = view[a].words
  BY <1>1, BlockStays
<1>7. \A a \in A : /\ a \in DOMAIN view /\ IsSeq(view[a].words)
                   /\ ~ No_scan(Tag_hd(view[a].hd)) =>
                          \A i \in DOMAIN view[a].words :
                              IsPtr(view[a].words[i]) => view[a].words[i] \in A
  BY <1>1, BlockObject
<1>8. A \subseteq DOMAIN view /\ phi \in [A -> DOMAIN view2] /\ \A a \in A : phi[a] = a
  BY <1>1, <1>6, <1>7
<1>9. Leads(values, values, A, phi)
  BY <1>1, <1>2, <1>8 DEF Leads
<1>10. ASSUME NEW a \in A PROVE ObjectLeads(view[a], view2[phi[a]], A, phi)
  <2>1. PICK x, y : x = view[a] /\ y = view2[a] /\ y.hd = x.hd /\ y.words = x.words /\ IsSeq(x.words)
    BY <1>6, <1>7
  <2>2. ~ No_scan(Tag_hd(x.hd)) => Leads(x.words, x.words, A, phi)
    BY <1>7, <1>8, <2>1 DEF Leads
  <2> QED
    BY <1>8, <2>1, <2>2 DEF ObjectLeads
<1>11. Isomorphism(values, view, values, view2, A, phi)
  BY <1>8, <1>9, <1>10 DEF Isomorphism
<1>12. PICK graph, graph2 : graph = GraphFrom(values) /\ graph2 = GraphFrom(values)'
  OBVIOUS
<1>13. graph2 = graph
  BY <1>4, <1>5, <1>11, <1>12, GraphsEqual
<1>14. GraphFrom(<<r>>)' = GraphFrom(values)'
  BY <1>2
<1> QED
  BY <1>1, <1>2, <1>6, <1>12, <1>13, <1>14

-----------------------------------------------------------------------------
(* The tree of the first run. *)

\* What export returned is in the block, and still the tree that it was then.
FirstKept ==
    first # <<>> =>
        /\ result # Unused
        /\ IsPtr(result) => result \in ObjectsOf(ValueSp)
        /\ \A r : r = result => first = <<GraphFrom(<<r>>)>>

KeepingInv == ProgramInv /\ WordsPlain /\ CopiedLive /\ CompactInv

LEMMA KeepingHeap == KeepingInv => HeapInv /\ Bookkeeping /\ WordsPlain
  BY BookkeepingHolds DEF KeepingInv, ProgramInv, IInv

LEMMA KeepingHeapAfter == (KeepingInv => HeapInv /\ Bookkeeping /\ WordsPlain)'
  BY KeepingHeap, PTL

\* The tree that export returned is in the block.
LEMMA AnswerInBlock ==
    ASSUME KeepingInv, pc = "exported"
    PROVE  result # Unused /\ (IsPtr(result) => result \in ObjectsOf(ValueSp))
<1>1. AnswerInv /\ CompactInv
  BY DEF KeepingInv, ProgramInv
<1>2. PICK fact : Explains(fact)
  BY DEF KeepingInv, ProgramInv, TreeInv
<1>3. Live(1) = args[1] /\ AllMeant(fact)
  BY <1>2, CurrentHere DEF Live, Explains
<1>4. TreeAt(fact, args[1])
  BY <1>2, <1>3 DEF Explains
<1>5. args[1] = Null \/ (args[1] \in Objects /\ IsPtr(args[1]))
  <2>1. \A x \in DOMAIN fact : x \in Objects /\ IsPtr(x)
    BY <1>1, <1>3, KeepingHeap, ObjectsValid, PointersAre DEF AllMeant
  <2> QED
    BY <1>4, <2>1 DEF TreeAt
<1>6. args[1] # Unused /\ (IsPtr(args[1]) \/ ~ Is_block(args[1]))
  BY <1>5, PlainWords DEF Null, Long, Is_block, Unused
<1>7. result = args[1]
  BY <1>1, <1>6 DEF AnswerInv, AnswerReturned
<1>8. IsPtr(result) => result \in Objects /\ SpaceOf(result) = ValueSp
  <2>1. IsPtr(result) => result \in Objects
    BY <1>5, <1>7, NullStays
  <2>2. IsPtr(result) => result = ResultBlock
    BY <1>1 DEF CompactInv
  <2> QED
    BY <2>1, <2>2 DEF ResultBlock, Ptr, SpaceOf
<1> QED
  BY <1>6, <1>7, <1>8 DEF ObjectsOf

LEMMA KeepingStep == KeepingInv /\ [Next]_allVars => [AnyNext]_vars /\ KeepingInv'
<1> SUFFICES ASSUME KeepingInv, [Next]_allVars PROVE [AnyNext]_vars /\ KeepingInv'
  OBVIOUS
<1>1. /\ ProgramInv /\ HeapInv /\ Bookkeeping /\ WordsPlain /\ CopiedLive /\ CompactInv
      /\ IInv /\ AnswerInv
  BY BookkeepingHolds DEF KeepingInv, ProgramInv, IInv
<1>2. [AnyNext]_vars /\ ProgramInv'
  BY <1>1, ProgramStep
<1>3. IInv' => HeapInv' /\ Bookkeeping'
  BY BookkeepingAfter DEF IInv
<1>4. HeapInv' /\ Bookkeeping'
  BY <1>2, <1>3 DEF ProgramInv
<1>5. WordsPlain' /\ CopiedLive' /\ CompactInv'
  BY <1>1, <1>2, <1>4, NextPlain, CopiedLiveKept, CompactKept
<1> QED
  BY <1>2, <1>5 DEF KeepingInv

LEMMA FirstStays == KeepingInv /\ FirstKept /\ [Next]_allVars => FirstKept'
<1> SUFFICES ASSUME KeepingInv, FirstKept, [Next]_allVars, first' # <<>> PROVE FirstKept'
  BY DEF FirstKept
<1>1. [AnyNext]_vars /\ KeepingInv'
  BY KeepingStep
<1>2. /\ HeapInv /\ Bookkeeping /\ WordsPlain
      /\ HeapInv' /\ Bookkeeping' /\ WordsPlain'
  BY <1>1, KeepingHeap, KeepingHeapAfter
<1>3. PICK r : r = result
  OBVIOUS
<1>4. /\ r # Unused /\ (IsPtr(r) => r \in ObjectsOf(ValueSp))
      /\ first' = <<GraphFrom(<<r>>)>>
  <2>1. CASE BuildAgain
    <3>1. pc = "exported" /\ first' = <<GraphFrom(<<result>>)>>
      BY <2>1 DEF BuildAgain
    <3>2. first' = <<GraphFrom(<<r>>)>>
      BY <1>3, <3>1
    <3> QED
      BY <1>3, <3>1, <3>2, AnswerInBlock
  <2>2. CASE ~ BuildAgain
    <3>1. first' = first
      BY <2>2 DEF Next, Mutator, Enter, InsertLeaf, InsertDown, Descend, InsertFound, InsertLeft,
        InsertRight, Rebuild, BuildNext, ExportTree, FreeFirst, Finish, CollectorStep, progVars,
        allVars
    <3> QED
      BY <1>3, <3>1 DEF FirstKept
  <2> QED
    BY <2>1, <2>2
<1>11. ~ AnyFree
  <2> SUFFICES ASSUME AnyFree PROVE FALSE
    OBVIOUS
  <2>1. pc = "mutator" /\ pc' = "mutator" /\ result # Unused /\ result' = Unused
    BY DEF AnyFree
  <2>2. ~ (InsertLeaf \/ InsertDown \/ InsertFound \/ InsertLeft \/ InsertRight \/ BuildNext)
    BY <2>1 DEF InsertLeaf, InsertDown, Descend, InsertFound, InsertLeft, InsertRight, Rebuild,
                BuildNext, Jump
  <2>3. ~ (Enter \/ ExportTree \/ BuildAgain \/ Finish)
    BY <2>1 DEF Enter, Check, ExportTree, BuildAgain, Finish
  <2>4. ~ FreeFirst
    BY DEF FreeFirst
  <2>5. ~ CollectorStep
    <3>1. Requests
      BY DEF KeepingInv, ProgramInv, TreeInv
    <3>2. CollectorStep => pc # "mutator"
      BY <3>1, CollectorControl DEF CollectorRuns
    <3> QED
      BY <2>1, <3>2
  <2>6. ~ UNCHANGED allVars
    BY <2>1 DEF allVars, vars
  <2> QED
    BY <2>2, <2>3, <2>4, <2>5, <2>6 DEF Next, Mutator
<1>5. result' = result /\ mem'[ValueSp] = mem[ValueSp]
  BY <1>1, <1>2, <1>3, <1>4, <1>11, BlockKept
<1>6. (IsPtr(r) => r \in ObjectsOf(ValueSp)') /\ GraphFrom(<<r>>)' = GraphFrom(<<r>>)
  BY <1>2, <1>3, <1>4, <1>5, BlockGraph
<1>7. \A q : q = result' => q = r
  BY <1>3, <1>5
<1>8. first' = <<GraphFrom(<<r>>)'>>
  BY <1>4, <1>6
<1>9. \A q : q = result' => first' = <<GraphFrom(<<q>>)'>>
  BY <1>7, <1>8
<1>10. result' # Unused /\ (IsPtr(result') => result' \in ObjectsOf(ValueSp)')
  BY <1>3, <1>4, <1>5, <1>6
<1> QED
  BY <1>9, <1>10 DEF FirstKept

\* testmain.c measures the first tree after the program has run again in the same heap,
\* and finds what export returned: nothing that comes after writes to export's block,
\* and nothing in it leads out of it.
THEOREM FirstTreeKept == Spec => []ExportOutlivesHeap
<1>1. Init => KeepingInv /\ FirstKept
  <2>1. Init => AnyInit /\ ProgramInv
    BY ProgramInit, InitInv DEF ProgramInv, AnyInit, AnswerInv, ExportRoots, AnswerFirst,
                                AnswerReturned, Exporting
  <2>2. AnyInit => WordsPlain /\ CopiedLive /\ CompactInv
    BY InitPlain DEF AnyInit, CopiedLive, CompactInv
  <2>3. Init => FirstKept
    BY DEF Init, FirstKept
  <2> QED
    BY <2>1, <2>2, <2>3 DEF KeepingInv
<1>2. FirstKept => ExportOutlivesHeap
  <2> SUFFICES ASSUME FirstKept, first # <<>> PROVE first = <<GraphFrom(<<result>>)>>
    BY DEF ExportOutlivesHeap
  <2>1. PICK r : r = result
    OBVIOUS
  <2>2. first = <<GraphFrom(<<r>>)>>
    BY <2>1 DEF FirstKept
  <2> QED
    BY <2>1, <2>2
<1> QED
  BY <1>1, <1>2, KeepingStep, FirstStays, PTL DEF Spec

=============================================================================
