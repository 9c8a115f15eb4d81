--------------------------- MODULE UnboundedUntil ---------------------------
(***************************************************************************)
(* The unbounded path probabilities of src/src/sym_check.rs:               *)
(* check_unbounded_until_probability_add, the solve_jacobi it ends in, and *)
(* check_unbounded_release_probability_add.  The graph precomputation is   *)
(* one step here and hands over what QualitativeUntil promises, which      *)
(* UntilPrecomputation implements.                                         *)
(*                                                                         *)
(* The solver divides by the diagonal of I - P, at most One units.  Its    *)
(* vectors are kept whole by counting them in units of 1 / Lcm^n after n   *)
(* passes, Lcm being a multiple of every diagonal there can be.            *)
(***************************************************************************)
EXTENDS Dtmc

CONSTANTS
    Lcm,    \* a common multiple of 1 .. One
    Tol,    \* 1 / Tol is the EPS of the stopping test
    MaxDen  \* the largest denominator of the solutions the answer is compared with

ASSUME JacobiAssumption ==
    /\ Lcm \in Nat \ {0}
    /\ \A d \in 1 .. One : \E q \in 1 .. Lcm : q * d = Lcm
    /\ Tol \in Nat \ {0}
    /\ MaxDen \in Nat

VARIABLES
    pc,
    op,                      \* which of the two checks was called
    reachable, transitions,  \* the model, as reachability left it
    left, right,             \* the two operands as written
    sNo, sYes,               \* the results of prob0 and prob1
    aPrime,                  \* a_prime, in units of 1 / Lcm
    sol,                     \* sol, in units of 1 / scale
    scale,                   \* Lcm^n after n passes
    answer                   \* the ADD the check returns, in units of 1 / scale

model == <<op, reachable, transitions, left, right>>
vars == <<pc, op, reachable, transitions, left, right, sNo, sYes, aPrime, sol, scale, answer>>

Vector == [State -> Int]

TypeOK ==
    /\ pc \in {"precompute", "system", "restrict_next", "restrict_curr", "solve", "return", "done"}
    /\ op \in {"until", "release"}
    /\ reachable \in SUBSET State
    /\ transitions \in Matrix
    /\ left \in SUBSET State
    /\ right \in SUBSET State
    /\ sNo \in SUBSET reachable
    /\ sYes \in SUBSET reachable
    /\ aPrime \in [State -> [State -> 0 .. Lcm]]
    /\ sol \in Vector
    /\ scale \in Nat \ {0}
    /\ answer \in Vector

(* The checks run on a model reachability has filtered.                    *)
Init ==
    /\ pc = "precompute"
    /\ op \in {"until", "release"}
    /\ reachable \in SUBSET State
    /\ transitions \in Matrix
    /\ SupportWellFormed(transitions, AddToBdd(transitions), reachable)
    /\ RowsWellFormed(transitions, reachable)
    /\ {init \in reachable : Generates(init, AddToBdd(transitions), reachable)} # {}
    /\ left \in SUBSET State
    /\ right \in SUBSET State
    /\ sNo = {} /\ sYes = {}
    /\ aPrime = [s \in State |-> ZeroRow]
    /\ sol = ZeroRow
    /\ scale = 1
    /\ answer = ZeroRow

-----------------------------------------------------------------------------
(* state_formula_to_bdd cuts an operand to the reachable states; a release *)
(* negates both operands before it calls the until.                        *)
StateFormula(operand) ==
    IF op = "release" THEN reachable \ operand ELSE reachable \intersect operand

phi1 == StateFormula(left)
phi2 == StateFormula(right)

Graph == INSTANCE QualitativeUntil WITH
    transitions01 <- AddToBdd(transitions),
    verdict <- [s \in reachable |-> IF s \in sNo THEN "no" ELSE IF s \in sYes THEN "yes" ELSE "maybe"]

(* prob0 and prob1. *)
Precompute ==
    /\ pc = "precompute"
    /\ sNo' = {s \in reachable : Graph!Never(s)}
    /\ sYes' = {s \in reachable : ~ Graph!Never(s) /\ Graph!AlmostSurely(s)}
    /\ pc' = "system"
    /\ UNCHANGED <<model, aPrime, sol, scale, answer>>

sQuestion == reachable \ (sNo \union sYes)

tQuestion == MaskRows(transitions, sQuestion)

(* d, the diagonal of I - t_question, in units: the sum over the next bits *)
(* has one term.                                                           *)
Diagonal(s) == One - tQuestion[s][s]

(* Slip: the diagonal is left in the matrix that is iterated. *)
WithDiagonal ==
    [s \in State |-> [t \in State |-> tQuestion[s][t] * (Lcm \div Diagonal(s))]]

(* a_off_diag divided by d, row by row. *)
OffDiagonal ==
    [s \in State |-> [t \in State |->
        IF s = t THEN 0 ELSE tQuestion[s][t] * (Lcm \div Diagonal(s))]]

(* A x = b is set up from the open states and put into the form of the     *)
(* iteration; b_prime is b, whose states have a diagonal of one, and the   *)
(* iteration starts from b.                                                *)
SetUpSystem ==
    /\ pc = "system"
    /\ aPrime' = OffDiagonal
    /\ sol' = Indicator(sYes, 1)
    /\ pc' = "restrict_next"
    /\ UNCHANGED <<model, sNo, sYes, scale, answer>>

(* add_restrict with the renamed reachable set sends a next state outside  *)
(* the set down a branch of one inside; rows that are not open are zero on *)
(* every branch.                                                           *)
RestrictNext ==
    /\ pc = "restrict_next"
    /\ \E branch \in [sQuestion -> [State \ reachable -> reachable]] :
          aPrime' = [s \in State |-> [t \in State |->
              IF s \in sQuestion /\ t \notin reachable THEN aPrime[s][branch[s][t]]
              ELSE aPrime[s][t]]]
    /\ pc' = "restrict_curr"
    /\ UNCHANGED <<model, sNo, sYes, sol, scale, answer>>

(* The same for the current states: rows outside the set take entries of   *)
(* rows inside.                                                            *)
RestrictCurr ==
    /\ pc = "restrict_curr"
    /\ \E branch \in [State \ reachable -> [State -> reachable]] :
          aPrime' = [s \in State |-> [t \in State |->
              IF s \in reachable THEN aPrime[s][t] ELSE aPrime[branch[s][t]][t]]]
    /\ pc' = "solve"
    /\ UNCHANGED <<model, sNo, sYes, sol, scale, answer>>

(* sol_prime, in units of 1 / (Lcm * scale). *)
Swept == VecPlus(VecMask(MatMul(aPrime, sol), reachable), Indicator(sYes, Lcm * scale))

AbsDiff(a, b) == IF a >= b THEN a - b ELSE b - a

(* Slip: the signed difference is compared. *)
CloseOneSided == \A s \in State : (Lcm * sol[s] - Swept[s]) * Tol <= Lcm * scale

(* add_equal_sup_norm of sol and sol_prime. *)
Close == \A s \in State : AbsDiff(Swept[s], Lcm * sol[s]) * Tol <= Lcm * scale

(* Slip: sol is not replaced by sol_prime. *)
SweepForgotten ==
    /\ pc = "solve"
    /\ ~ Close
    /\ UNCHANGED vars

Sweep ==
    /\ pc = "solve"
    /\ ~ Close
    /\ sol' = Swept
    /\ scale' = Lcm * scale
    /\ UNCHANGED <<pc, model, sNo, sYes, aPrime, answer>>

(* The pass that is close to the one before returns its vector. *)
Converge ==
    /\ pc = "solve"
    /\ Close
    /\ sol' = Swept
    /\ scale' = Lcm * scale
    /\ pc' = "return"
    /\ UNCHANGED <<model, sNo, sYes, aPrime, answer>>

(* A release returns one minus the until. *)
Return ==
    /\ pc = "return"
    /\ answer' = IF op = "release" THEN [s \in State |-> scale - sol[s]] ELSE sol
    /\ pc' = "done"
    /\ UNCHANGED <<model, sNo, sYes, aPrime, sol, scale>>

Next ==
    \/ Precompute
    \/ SetUpSystem
    \/ RestrictNext
    \/ RestrictCurr
    \/ Sweep
    \/ Converge
    \/ Return

(* A sequential function that is called runs on while it can. *)
Spec == Init /\ [][Next]_vars /\ WF_vars(Next)

-----------------------------------------------------------------------------
(* No probability of the model is below the threshold. *)
ExactModel ==
    \A s \in reachable :
        /\ RowSum(transitions, s) = One
        /\ \A t \in State : transitions[s][t] = 0 \/ transitions[s][t] > Eps

(* The operands, as written, settle the matter without a look at the next  *)
(* states.                                                                 *)
Settled(s) == IF op = "until" THEN s \in right \/ s \notin left ELSE s \notin right \/ s \in left

(* The candidates for a solution, as numerators over den; settled states   *)
(* are given their value.                                                  *)
Candidates(den) ==
    {[s \in State |-> IF s \notin reachable THEN 0
                      ELSE IF ~ Settled(s) THEN f[s]
                      ELSE IF s \in right THEN den ELSE 0] :
        f \in [{s \in reachable : ~ Settled(s)} -> 0 .. den]}

(* p / den satisfies the fixpoint equations of the formula: elsewhere than *)
(* on the settled states it is the mean of the successors.                 *)
Solves(p) ==
    \A s \in reachable : ~ Settled(s) => One * p[s] = MatMul(transitions, p)[s]

(* The error of the solver has one side.  An until is the least solution   *)
(* of its equations and a release the greatest one; the printed number is  *)
(* never above any solution of an until nor below any of a release, so     *)
(* also not above, or below, the probability itself.  A vector that starts *)
(* too high, a diagonal counted twice or a state wrongly taken for certain *)
(* breaks it (sym_check.rs:137-206, 290-328, 356-377).                     *)
OneSided ==
    pc = "done" /\ ExactModel =>
        \A den \in 1 .. MaxDen : \A p \in Candidates(den) :
            Solves(p) =>
                \A s \in reachable :
                    IF op = "until" THEN answer[s] * den <= p[s] * scale
                    ELSE answer[s] * den >= p[s] * scale

(* Two passes that are close mean a small residual: the vector returned    *)
(* satisfies A x = b up to EPS in every row, although the test compares    *)
(* two vectors and never the two sides (sym_check.rs:189-203, and          *)
(* docs/dtmc_details.md:164-168).                                          *)
ResidualSmall ==
    pc \in {"return", "done"} =>
        \A s \in reachable :
            AbsDiff(One * sol[s],
                    MatMul(tQuestion, sol)[s]
                      + (IF s \in sYes THEN One * scale ELSE 0)) * Tol
              <= One * scale

(* The iteration stops on every model and for every pair of operands:      *)
(* what prob0 and prob1 leave open leaks, whatever the self-loops          *)
(* (sym_check.rs:181-205).                                                 *)
Terminates == <>(pc = "done")
=============================================================================
