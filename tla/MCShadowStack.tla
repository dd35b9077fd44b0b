--------------------------- MODULE MCShadowStack ---------------------------
(* Two local variables, three nested calls, and a nursery that a single    *)
(* object fills.                                                           *)
EXTENDS ShadowStack

Names == <<"x", "y">>
=============================================================================
