---------------------- MODULE MCReplacementCollectors ----------------------
(* A heap of four words for nogc.c, fresh blocks of up to five for         *)
(* fakegc.c, and functions that ask for up to five.                        *)
EXTENDS ReplacementCollectors
=============================================================================
