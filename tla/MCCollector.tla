---------------------------- MODULE MCCollector ----------------------------
(***************************************************************************)
(* One collection, and an export after it, from every small heap of a      *)
(* given shape.  The nursery is full: three objects of one, two and two    *)
(* fields, each pointing to objects made before it, as the values of a     *)
(* CertiCoq program do.  Generation 1 is missing, or half full so that it  *)
(* too has to be collected when anything survives; generation 2, when it   *)
(* exists already, is so full of garbage that the generations run out.     *)
(***************************************************************************)
EXTENDS AnyMutator

CONSTANTS
    Tags,      \* tags of the three objects: a set of triples
    Older      \* how many older generations exist: a set of 0, 1, 2

O1 == Ptr(0, 2)
O2 == Ptr(0, 4)
O3 == Ptr(0, 7)
A  == Ptr(1, 2)
B  == Ptr(1, 5)

Nursery(t, f2, f3) ==
    <<Header(1, t[1]), Long(1)>> \o <<Header(2, t[2])>> \o f2
        \o <<Header(2, t[3])>> \o f3

Old1 == <<Header(2, 0), Long(2), Code("f"), Header(4, 1), A, Long(2), A, Long(3)>>
          \o EmptySpace(8)

Old2 == <<Header(15, 0)>> \o [i \in 1 .. 15 |-> Long(i)] \o EmptySpace(16)

\* The words in use of each generation: the nursery is tracked by alloc.
Used(older) == [s \in Spaces |-> IF s = 1 /\ older >= 1 THEN 8
                                 ELSE IF s = 2 /\ older = 2 THEN 16 ELSE 0]

Pairs(S) == {<<a, b>> : a \in S, b \in S}

Idle ==
    /\ fi = [num_allocs |-> 0, roots |-> <<>>]
    /\ budget = 0
    /\ pc = "entry"
    /\ gen = 0
    /\ copy = NoCopy
    /\ scan = 0
    /\ calls = <<>>
    /\ result = Unused

FullNursery ==
    \E older \in Older, t \in Tags :
    LET Elder == IF older > 0 THEN {Long(0), B} ELSE {Long(0)} IN
    \E f2 \in Pairs(Elder \cup {O1}), f3 \in Pairs(Elder \cup {O1, O2}),
       a1 \in Elder \cup {O1, O2, O3, Code("f")}, a2 \in {Code("f"), O2, O3} :
        /\ mem = [s \in Spaces |-> IF s = 0 THEN Nursery(t, f2, f3)
                                   ELSE IF s = 1 /\ older >= 1 THEN Old1
                                   ELSE IF s = 2 /\ older = 2 THEN Old2 ELSE <<>>]
        /\ next = Used(older)
        /\ args = <<a1, a2>>
        /\ alloc = 8
        /\ limit = 8

NoHeap ==
    /\ mem = [s \in Spaces |-> <<>>]
    /\ next = Used(0)
    /\ args = <<Long(0), Code("f")>>
    /\ alloc = 0
    /\ limit = 0

MCInit == (FullNursery \/ NoHeap) /\ Idle

\* The last one passes the test: export then starts from the full nursery.
Infos == {[num_allocs |-> 3, roots |-> <<2, 1>>], [num_allocs |-> 3, roots |-> <<1>>],
          [num_allocs |-> 0, roots |-> <<1>>]}

MCNext ==
    \/ \E info \in Infos : Check(info)
    \/ DoGeneration
    \/ GarbageCollect
    \/ ExportUnboxed
    \/ ExportStart(fake_fi)
    \/ Export
    \/ MallocFails

MCSpec == MCInit /\ [][MCNext]_vars

PlainTags  == {<<0, 0, 1>>}
NoScanTags == {<<0, 251, 1>>}
AllTags    == PlainTags \cup NoScanTags
=============================================================================
