--------------------------- MODULE MCBoundedUntil ---------------------------
(***************************************************************************)
(* Three states, s3 unreachable: every matrix over the two reachable ones, *)
(* with leaks below the threshold into s3, a dead end's self-loop and the  *)
(* residue it may keep, every pair of operands and every branch            *)
(* add_restrict may take.                                                  *)
(***************************************************************************)
EXTENDS BoundedUntil

CONSTANTS s1, s2, s3

MCState == {s1, s2, s3}

(* The rows reachability can leave for a reachable state. *)
MCRows(s) ==
    {row \in [State -> Entry] :
        row[s3] <= Eps /\ (IsDistribution(row) \/ IsLoopedDeadEnd(row, s))}

MCInit ==
    /\ reachable = {s1, s2}
    /\ init = s1
    /\ transitions \in {[s \in State |-> IF s = s1 THEN r1 ELSE IF s = s2 THEN r2 ELSE ZeroRow] :
                            r1 \in MCRows(s1), r2 \in MCRows(s2)}
    /\ Init

MCSpec == MCInit /\ [][Next]_vars
=============================================================================
