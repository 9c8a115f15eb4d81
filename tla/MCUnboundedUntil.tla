-------------------------- MODULE MCUnboundedUntil --------------------------
(***************************************************************************)
(* Two states with every row there is and two absorbing ones.  A fifth     *)
(* state is the initial one of most chains; in the others it is an         *)
(* unreachable valuation, which add_restrict has entries to choose for.    *)
(***************************************************************************)
EXTENDS UnboundedUntil

CONSTANTS s1, s2, goal, sink, extra

MCState == {s1, s2, goal, sink, extra}
Core == {s1, s2, goal, sink}

(* The distributions over some of the states. *)
RowsOver(targets) ==
    {[t \in State |-> IF t \in targets THEN f[t] ELSE 0] :
        f \in {g \in [targets -> 0 .. One] : SumFunction(g) = One}}

Absorbing(s) == [t \in State |-> IF t = s THEN One ELSE 0]

Chain(row1, row2, rowExtra) ==
    [s \in State |-> CASE s = s1 -> row1 [] s = s2 -> row2 [] s = extra -> rowExtra
                       [] OTHER -> Absorbing(s)]

FreeChains == {Chain(r1, r2, Absorbing(s1)) : r1 \in RowsOver(Core), r2 \in RowsOver(Core)}

RestrictedChains == {Chain(r1, r2, ZeroRow) : r1 \in RowsOver({s2, goal}), r2 \in RowsOver({s1, sink})}

MCInit ==
    /\ \/ reachable = State /\ transitions \in FreeChains
       \/ reachable = Core /\ transitions \in RestrictedChains
    /\ left \in {Core, {s1, extra}}
    /\ right \in {{goal}, {goal, s1}}
    /\ Init

MCSpec == MCInit /\ [][Next]_vars /\ WF_vars(Next)
=============================================================================
