---------------------------- MODULE MCTreeInsert ----------------------------
(* A nursery of five words, just what insert asks for, so that nearly      *)
(* every function call collects; keys from a set of three.                 *)
EXTENDS TreeInsert
=============================================================================
