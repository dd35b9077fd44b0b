---------------------------- MODULE GCInterface ----------------------------
(***************************************************************************)
(* What gc.h promises of garbage_collect, with no heap at all: the graph   *)
(* reachable from the live roots, up to isomorphism, and the room left to  *)
(* allocate.  A call may also end the process.                             *)
(***************************************************************************)
EXTENDS Integers

VARIABLES
    phase,   \* "mutator", "collector" or "stopped"
    graph,   \* the graph reachable from the roots of the current fun_info
    need,    \* fi[0]: num_allocs of the current fun_info
    room     \* limit - alloc

vars == <<phase, graph, need, room>>

Init == phase = "mutator"

\* The mutator is free to change the graph, to allocate and to call.
Mutate ==
    /\ phase = "mutator"
    /\ phase' \in {"mutator", "collector"}

\* (1) the after graph is isomorphic to the before graph, and (2) alloc points
\* to N >= num_allocs words of unallocated heap space, limit - alloc = N.
Return ==
    /\ phase = "collector"
    /\ phase' = "mutator"
    /\ UNCHANGED <<graph, need>>
    /\ room' >= need

Abort ==
    /\ phase = "collector"
    /\ phase' = "stopped"

\* While it runs the collector moves objects, never what they mean.
Work ==
    /\ phase = "collector"
    /\ UNCHANGED <<phase, graph, need>>

Next == Mutate \/ Return \/ Abort \/ Work

Spec == Init /\ [][Next]_vars
=============================================================================
