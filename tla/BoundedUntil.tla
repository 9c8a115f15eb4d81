---------------------------- MODULE BoundedUntil ----------------------------
(***************************************************************************)
(* The step-bounded path probabilities of src/src/sym_check.rs:            *)
(* check_next_probability_add, check_bounded_until_probability_add and     *)
(* check_bounded_release_probability_add.  The until loop runs on a matrix *)
(* that add_restrict has simplified: entries outside the care set hold     *)
(* whatever made the diagram small, and a mask repairs the rows after      *)
(* every product.                                                          *)
(***************************************************************************)
EXTENDS Dtmc, Products

CONSTANT MaxK  \* the largest step bound a property may carry

ASSUME MaxKNat == MaxK \in Nat

VARIABLES
    pc,
    op,                         \* which of the three checks was called
    init, reachable, transitions,  \* the model, as reachability left it
    left, right,                \* the two operands as written: add_to_bdd of their ADDs
    k,                          \* the step bound
    tQuestion,                  \* t_question
    i,                          \* completed passes of the loop
    resAdd,                     \* res_add, in units of 1 / scale
    scale,                      \* One^i
    answer                      \* the ADD the check returns, in units of 1 / scale

model == <<op, init, reachable, transitions, left, right, k>>
vars == <<pc, op, init, reachable, transitions, left, right, k, tQuestion, i, resAdd, scale, answer>>

Vector == [State -> Int]

TypeOK ==
    /\ pc \in {"setup", "restrict_next", "restrict_curr", "loop", "done"}
    /\ op \in {"next", "until", "release"}
    /\ reachable \in SUBSET State
    /\ init \in reachable
    /\ transitions \in Matrix
    /\ left \in SUBSET State
    /\ right \in SUBSET State
    /\ k \in 0 .. MaxK
    /\ tQuestion \in Matrix
    /\ i \in 0 .. k
    /\ resAdd \in Vector
    /\ scale \in Nat
    /\ answer \in Vector

(* The checks run on a model reachability has filtered, at any bound.      *)
Init ==
    /\ pc = "setup"
    /\ op \in {"next", "until", "release"}
    /\ reachable \in SUBSET State
    /\ init \in reachable
    /\ transitions \in Matrix
    /\ SupportWellFormed(transitions, AddToBdd(transitions), reachable)
    /\ RowsWellFormed(transitions, reachable)
    /\ Generates(init, AddToBdd(transitions), reachable)
    /\ left \in SUBSET State
    /\ right \in SUBSET State
    /\ k \in 0 .. MaxK
    /\ tQuestion = [s \in State |-> ZeroRow]
    /\ i = 0
    /\ resAdd = ZeroRow
    /\ scale = 1
    /\ answer = ZeroRow

-----------------------------------------------------------------------------
(* state_formula_to_bdd cuts an operand to the reachable states; a release *)
(* negates both operands before it calls the until.                        *)
StateFormula(operand) ==
    IF op = "release" THEN reachable \ operand ELSE reachable \intersect operand

phi1 == StateFormula(left)
phi2 == StateFormula(right)

(* Slip: states that satisfy phi2 are propagated too. *)
sQuestionWithPhi2 == reachable \intersect phi1

sQuestion == reachable \intersect (phi1 \ phi2)

(* P=? [X phi]: one product, and the operand is the right one. *)
CheckNext ==
    /\ pc = "setup"
    /\ op = "next"
    /\ scale' = One
    /\ answer' = MatMul(transitions, Indicator(phi2, 1))
    /\ pc' = "done"
    /\ UNCHANGED <<model, tQuestion, i, resAdd>>

SetUp ==
    /\ pc = "setup"
    /\ op \in {"until", "release"}
    /\ tQuestion' = MaskRows(transitions, sQuestion)
    /\ resAdd' = Indicator(phi2, 1)
    /\ pc' = "restrict_next"
    /\ UNCHANGED <<model, i, scale, answer>>

(* add_restrict with the renamed reachable set: the diagram is rebuilt by  *)
(* sending a next state outside the set down a branch of one inside.       *)
RestrictNext ==
    /\ pc = "restrict_next"
    /\ \E branch \in [State -> [State \ reachable -> reachable]] :
          tQuestion' = [s \in State |-> [t \in State |->
              IF t \in reachable THEN tQuestion[s][t] ELSE tQuestion[s][branch[s][t]]]]
    /\ pc' = "restrict_curr"
    /\ UNCHANGED <<model, i, resAdd, scale, answer>>

(* The same for the current states: rows outside the set take entries of   *)
(* rows inside.                                                            *)
RestrictCurr ==
    /\ pc = "restrict_curr"
    /\ \E branch \in [State \ reachable -> [State -> reachable]] :
          tQuestion' = [s \in State |-> [t \in State |->
              IF s \in reachable THEN tQuestion[s][t] ELSE tQuestion[branch[s][t]][t]]]
    /\ pc' = "loop"
    /\ UNCHANGED <<model, i, resAdd, scale, answer>>

(* Slip: the rows outside the care set are not masked after the product. *)
SteppedUnmasked == MatMul(tQuestion, resAdd)

Stepped == VecMask(MatMul(tQuestion, resAdd), reachable)

(* Slip: s_yes is not added back. *)
IterateWithoutYes ==
    /\ pc = "loop"
    /\ i < k
    /\ resAdd' = Stepped
    /\ i' = i + 1
    /\ scale' = One * scale
    /\ UNCHANGED <<pc, model, tQuestion, answer>>

(* Slip: one pass too many. *)
IterateOnceMore ==
    /\ pc = "loop"
    /\ i <= k
    /\ resAdd' = VecPlus(Stepped, Indicator(phi2, One * scale))
    /\ i' = i + 1
    /\ scale' = One * scale
    /\ UNCHANGED <<pc, model, tQuestion, answer>>

Iterate ==
    /\ pc = "loop"
    /\ i < k
    /\ resAdd' = VecPlus(Stepped, Indicator(phi2, One * scale))
    /\ i' = i + 1
    /\ scale' = One * scale
    /\ UNCHANGED <<pc, model, tQuestion, answer>>

(* The loop ran k times; a release returns one minus the until.            *)
Return ==
    /\ pc = "loop"
    /\ i = k
    /\ answer' = IF op = "release"
                 THEN [s \in State |-> scale - resAdd[s]]
                 ELSE resAdd
    /\ pc' = "done"
    /\ UNCHANGED <<model, tQuestion, i, resAdd, scale>>

Next ==
    \/ CheckNext
    \/ SetUp
    \/ RestrictNext
    \/ RestrictCurr
    \/ Iterate
    \/ Return

Spec == Init /\ [][Next]_vars

-----------------------------------------------------------------------------
(* What docs/dd_restrict.md assumes when it drops the fix-up of the next   *)
(* states: the vector of every pass is zero on unreachable valuations      *)
(* (sym_check.rs:117-133).                                                 *)
ZeroOutside ==
    \A s \in State \ reachable : resAdd[s] = 0

(* More steps cannot make an until less likely (in units of the new pass). *)
Monotone ==
    [][pc = "loop" => \A s \in State : resAdd'[s] * scale >= resAdd[s] * scale']_vars

(* A path of n steps through reachable states, as a function of 0 .. n.    *)
Paths(s, n) == {path \in [0 .. n -> reachable] : path[0] = s}

(* The weight of a path, One^n being certainty. *)
Weight(path, n) == ProductFunction([j \in 0 .. n - 1 |-> transitions[path[j]][path[j + 1]]])

(* The probability of a set of paths of n steps. *)
PathSum(set, n) == SumFunction([path \in set |-> Weight(path, n)])

(* What the operands, as written, say of a path of k steps. *)
Holds(path) ==
    CASE op = "next" -> path[1] \in right
      [] op = "until" ->
            \E n \in 0 .. k : path[n] \in right /\ \A j \in 0 .. n - 1 : path[j] \in left
      [] op = "release" ->
            \A n \in 0 .. k : path[n] \in right \/ \E j \in 0 .. n - 1 : path[j] \in left

(* The length of the paths the formula speaks of, and what "none of whose  *)
(* probabilities is below the threshold" means for the matrix.             *)
Horizon == IF op = "next" THEN 1 ELSE k

ExactModel ==
    /\ \A s \in reachable : RowSum(transitions, s) = One
    /\ \A s \in reachable, t \in State \ reachable : transitions[s][t] = 0

(* For a model none of whose probabilities is below the threshold the      *)
(* answer is, state by state, the probability of the paths that satisfy    *)
(* the formula: the bound is exact, phi1 is asked of all states before the *)
(* first phi2 and of no other, and a release is what its definition in     *)
(* docs/dtmc_details.md says, not only a dual (sym_check.rs:46-135).       *)
AnswerIsPathProbability ==
    pc = "done" /\ ExactModel =>
        \A s \in reachable :
            answer[s] = PathSum({path \in Paths(s, Horizon) : Holds(path)}, Horizon)

-----------------------------------------------------------------------------
Recurrence == INSTANCE BoundedRecurrence WITH
    yes <- phi2,
    question <- sQuestion,
    v <- IF pc = "setup" \/ op = "next" THEN Indicator(phi2, 1) ELSE resAdd,
    scale <- IF op = "next" THEN 1 ELSE scale

(* Whatever add_restrict makes of the entries it may choose, the loop      *)
(* computes the documented recurrence, on unreachable valuations too       *)
(* (docs/dtmc_details.md:97-103, sym_check.rs:106-133).                    *)
ImplementsRecurrence == Recurrence!Spec
=============================================================================
