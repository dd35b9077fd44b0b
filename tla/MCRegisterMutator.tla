------------------------- MODULE MCRegisterMutator -------------------------
(* A nursery of ten words, of which gctest3 and gctest4 leave six alone.   *)
EXTENDS RegisterMutator
=============================================================================
