-------------------------------- MODULE Heap --------------------------------
(***************************************************************************)
(* Words and objects of the CertiCoq runtime, the part of values.h that    *)
(* gc.c uses.  An object of sz fields takes sz+1 words, its header first;  *)
(* a value is a word: an integer, or a pointer to the first field of an    *)
(* object.  Memory is a sequence of words per space; a pointer names its   *)
(* space and the index of the word it points to.                           *)
(***************************************************************************)
EXTENDS Naturals, Sequences, FiniteSets

Unused        == <<"unused">>            \* a word nothing has been stored in
Header(sz, t) == <<"header", sz, t>>     \* Make_header
Long(n)       == <<"long", n>>           \* Val_long: odd, not a pointer
Ptr(s, i)     == <<"ptr", s, i>>         \* a pointer into a space
Code(f)       == <<"code", f>>           \* a pointer out of every space

IsHeader(w)   == w[1] = "header"
IsPtr(w)      == w[1] = "ptr"
Is_block(w)   == w[1] \in {"ptr", "code"}    \* the word is even

SpaceOf(v)    == v[2]
IndexOf(v)    == v[3]
Wosize_hd(hd) == hd[2]
Tag_hd(hd)    == hd[3]

No_scan_tag   == 251
No_scan(t)    == t >= No_scan_tag

\* The all-zero header word that marks an object as forwarded.
ZeroHeader    == Header(0, 0)

\* The words of an object in memory mem, through a pointer v to it.
Hd_val(mem, v)   == mem[SpaceOf(v)][IndexOf(v) - 1]
Field(mem, v, i) == mem[SpaceOf(v)][IndexOf(v) + i]
Wosize(mem, v)   == Wosize_hd(Hd_val(mem, v))
Fields(mem, v)   == [i \in 1 .. Wosize(mem, v) |-> Field(mem, v, i - 1)]

EmptySpace(n)    == [i \in 1 .. n |-> Unused]
=============================================================================
