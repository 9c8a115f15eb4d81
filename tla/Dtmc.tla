-------------------------------- MODULE Dtmc --------------------------------
(***************************************************************************)
(* The matrices and the state sets that construction, reachability and     *)
(* property checking hand to each other.                                   *)
(*                                                                         *)
(* In the code both are decision diagrams over the current-state and       *)
(* next-state bits: an ADD for the matrix P(s, s'), BDDs for sets and      *)
(* relations.  Here a valuation of the bits is one element of State, an    *)
(* ADD over (current, next) bits is a function of two states, a BDD is a   *)
(* set.  A probability is a whole number of units, One units being 1.0;    *)
(* Eps is the threshold EPS of dd_manager.rs in the same units.            *)
(***************************************************************************)
EXTENDS Integers, FiniteSets, Functions

CONSTANTS
    State,  \* the valuations of the current-state bits (those of the next-state bits too)
    One,    \* probability 1.0, in units
    Eps     \* the threshold below which an ADD entry counts as zero, in units

ASSUME DtmcAssumption ==
    /\ IsFiniteSet(State)
    /\ One \in Nat
    /\ Eps \in Nat
    /\ Eps < One

-----------------------------------------------------------------------------
(* Entries of a matrix.  A row that was below the threshold before a       *)
(* self-loop was added to it ends up above One, by at most Eps.            *)
Entry == 0 .. (One + Eps)

Matrix == [State -> [State -> Entry]]

ZeroRow == [t \in State |-> 0]

(* add_sum_abstract over the next-state bits. *)
RowSum(m, s) == SumFunction(m[s])

(* add_to_bdd: the strict threshold EPS turns an ADD into a relation. *)
AddToBdd(m) == {e \in State \X State : m[e[1]][e[2]] > Eps}

(* add_times with bdd_to_add of a set of current states. *)
MaskRows(m, rows) == [s \in State |-> IF s \in rows THEN m[s] ELSE ZeroRow]

(* bdd_and_then_existsabs over the current bits, renamed back by the swap map. *)
Image(rel, src) == {t \in State : \E s \in src : <<s, t>> \in rel}

(* bdd_exists_abstract over the next bits: the states with an outgoing edge. *)
Sources(rel) == {s \in State : \E t \in State : <<s, t>> \in rel}

(* build_identity_transition_bdd, cut down to the given current states. *)
SelfLoops(src) == {<<s, s>> : s \in src}

-----------------------------------------------------------------------------
(* What unif leaves in a row: a distribution, or, where the row summed to  *)
(* no more than EPS and was not divided, the residue it found.  Of the     *)
(* entries of a distribution at least one is above the threshold: it would *)
(* take One / Eps = 10^10 successors to have none.                         *)
IsDistribution(row) == SumFunction(row) = One /\ \E t \in State : row[t] > Eps

IsResidue(row) == SumFunction(row) <= Eps /\ \A t \in State : row[t] <= Eps

Rows == {row \in [State -> 0 .. One] : IsDistribution(row) \/ IsResidue(row)}

(* What set_reachable_and_filter promises to the property checker.         *)
SupportWellFormed(m, rel, reach) ==
    /\ rel = AddToBdd(m)
    /\ rel \subseteq reach \X reach
    /\ reach \subseteq Sources(rel)
    /\ \A s \in State \ reach : m[s] = ZeroRow

(* Every reachable row is a distribution, or the self-loop of a dead end   *)
(* on top of the residue that did not count as an outgoing transition.     *)
IsLoopedDeadEnd(row, s) ==
    row[s] >= One /\ IsResidue([row EXCEPT ![s] = @ - One])

RowsWellFormed(m, reach) ==
    \A s \in reach : IsDistribution(m[s]) \/ IsLoopedDeadEnd(m[s], s)

(* No smaller set holds the initial state and all its successors.          *)
Generates(init, rel, reach) ==
    \A set \in SUBSET reach :
        init \in set /\ Image(rel, set) \subseteq set => set = reach

-----------------------------------------------------------------------------
(* Vectors: ADDs over the current-state bits, renamed to next-state bits   *)
(* where a product needs it (add_compose_with_map with the swap map).      *)
Indicator(set, unit) == [s \in State |-> IF s \in set THEN unit ELSE 0]

(* add_matrix_multiply: the products summed over the next-state bits.      *)
MatMul(m, v) == [s \in State |-> SumFunction([t \in State |-> m[s][t] * v[t]])]

VecPlus(v, w) == [s \in State |-> v[s] + w[s]]

(* add_mask: ite(mask, v, 0).                                              *)
VecMask(v, set) == [s \in State |-> IF s \in set THEN v[s] ELSE 0]
=============================================================================
