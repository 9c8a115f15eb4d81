--------------------------- MODULE MCReachability ---------------------------
(* Three states suffice for a chain, a cycle with a tail, an unreachable   *)
(* state, a dead end and an edge below the threshold, all at once.         *)
EXTENDS Reachability
=============================================================================
