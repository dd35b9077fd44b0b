--------------------------- MODULE MCGenerations ---------------------------
(* A small heap for TLC: three generations of 4, 8 and 16 words, and       *)
(* functions that ask for at most 5 words, one more than the nursery has.  *)
EXTENDS Generations
=============================================================================
