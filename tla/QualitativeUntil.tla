-------------------------- MODULE QualitativeUntil --------------------------
(***************************************************************************)
(* What the graph precomputation of `P=? [phi1 U phi2]` promises: in one   *)
(* step every reachable state learns whether the probability is 0, 1 or    *)
(* something between.  The verdicts are stated over the runs of the chain  *)
(* and its bottom components, not over the fixpoints the code iterates.    *)
(***************************************************************************)
EXTENDS FiniteSets

VARIABLES
    reachable,      \* the states of the chain
    transitions01,  \* its edges
    phi1, phi2,     \* the states where the two operands hold
    verdict         \* the answer, state by state

vars == <<reachable, transitions01, phi1, phi2, verdict>>

(* The outcome of a run is settled where phi2 holds or phi1 fails: such a  *)
(* state is made absorbing.                                                *)
Follow(s) ==
    IF s \in phi1 \ phi2
    THEN {t \in reachable : <<s, t>> \in transitions01}
    ELSE {s}

FollowClosed(set) == \A s \in set : Follow(s) \subseteq set

(* The states a run from s can visit. *)
Orbit(s) ==
    {t \in reachable : \A set \in SUBSET reachable :
                          s \in set /\ FollowClosed(set) => t \in set}

(* t lies in a bottom component: every state it leads to leads back. *)
Bottom(t) == \A u \in Orbit(t) : t \in Orbit(u)

(* No run from s meets phi2. *)
Never(s) == Orbit(s) \intersect phi2 = {}

(* A finite chain ends in a bottom component almost surely, so phi2 is met *)
(* almost surely exactly if every bottom component within reach is in it.  *)
AlmostSurely(s) == \A t \in Orbit(s) : Bottom(t) => t \in phi2

Unknown == [s \in reachable |-> "unknown"]

Answer ==
    [s \in reachable |-> IF Never(s) THEN "no"
                         ELSE IF AlmostSurely(s) THEN "yes"
                         ELSE "maybe"]

Init == verdict = Unknown

Classify ==
    /\ verdict = Unknown
    /\ verdict' = Answer
    /\ UNCHANGED <<reachable, transitions01, phi1, phi2>>

Spec == Init /\ [][Classify]_vars
=============================================================================
