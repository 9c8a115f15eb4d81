------------------------- MODULE BoundedUntil_proof -------------------------
(***************************************************************************)
(* Theorems about BoundedUntil, for every finite set of states, every      *)
(* matrix, every step bound and every choice add_restrict may make.        *)
(***************************************************************************)
EXTENDS BoundedUntil, SumTheorems

Inside == pc \in {"restrict_next", "restrict_curr", "loop", "done"} /\ op # "next"

(* Where both indices are reachable, t_question still is what the mask     *)
(* with s_question made it.                                                *)
CareSetKept ==
    Inside => \A s, t \in reachable :
                 tQuestion[s][t] = IF s \in sQuestion THEN transitions[s][t] ELSE 0

(* Nothing has been computed before the loop.                              *)
Fresh ==
    /\ pc \in {"setup", "restrict_next", "restrict_curr"} => i = 0 /\ scale = 1
    /\ pc \in {"restrict_next", "restrict_curr"} => resAdd = Indicator(phi2, 1)
    /\ pc = "setup" => resAdd = ZeroRow
    /\ op = "next" => pc \in {"setup", "done"}

(* What the loop would compute from a vector, at row s.                    *)
Pass(v, sc, s) ==
    (IF s \in reachable THEN SumFunction([t \in State |-> tQuestion[s][t] * v[t]]) ELSE 0)
      + (IF s \in phi2 THEN One * sc ELSE 0)

(* The next pass will not be below the present one: true of the first pass *)
(* because no vector is below zero, and passed on because a product with a *)
(* nonnegative matrix is monotone and linear.                              *)
Growing ==
    /\ \A s \in State : resAdd[s] >= 0
    /\ pc = "loop" => \A s \in State : Pass(resAdd, scale, s) >= One * resAdd[s]

IInv ==
    /\ TypeOK
    /\ ZeroOutside
    /\ CareSetKept
    /\ Fresh
    /\ Growing

-----------------------------------------------------------------------------
LEMMA Constants == One \in Nat /\ Eps \in Nat /\ Eps < One /\ IsFiniteSet(State) /\ MaxK \in Nat
  BY DtmcAssumption, MaxKNat DEF DtmcAssumption, MaxKNat

LEMMA ProductBounds ==
  ASSUME NEW a \in Nat, NEW b \in Int, NEW c \in Int, b <= c
  PROVE  a * b <= a * c /\ b * a <= c * a /\ a * b \in Int
  OBVIOUS

LEMMA Associate ==
  ASSUME NEW a \in Int, NEW b \in Int, NEW c \in Int
  PROVE  a * (b * c) = b * (a * c)
  OBVIOUS

(* A row times a vector is a whole number.                                 *)
LEMMA RowProduct ==
  ASSUME NEW row \in [State -> Entry], NEW v \in Vector
  PROVE  /\ [t \in State |-> row[t] * v[t]] \in [State -> Int]
         /\ SumFunction([t \in State |-> row[t] * v[t]]) \in Int
<1>1. [t \in State |-> row[t] * v[t]] \in [State -> Int]
  BY Constants DEF Entry, Vector
<1> QED
  BY <1>1, SumInt, Constants

LEMMA MatMulVector ==
  ASSUME NEW m \in Matrix, NEW v \in Vector
  PROVE  MatMul(m, v) \in Vector
  BY RowProduct DEF MatMul, Matrix, Vector

(* ... not below zero if the vector is not, ...                            *)
LEMMA RowProductNonnegative ==
  ASSUME NEW row \in [State -> Entry], NEW v \in Vector, \A t \in State : v[t] >= 0
  PROVE  SumFunction([t \in State |-> row[t] * v[t]]) >= 0
<1> DEFINE zero == [t \in State |-> 0]
           f == [t \in State |-> row[t] * v[t]]
<1>0. zero \in [State -> Int]
  OBVIOUS
<1>1. zero \in [State -> Int] /\ f \in [State -> Int]
  BY <1>0, RowProduct
<1>2. \A t \in State : zero[t] <= f[t]
  <2> SUFFICES ASSUME NEW t \in State PROVE 0 <= row[t] * v[t]
    OBVIOUS
  <2>1. row[t] \in Nat /\ v[t] \in Nat
    BY Constants DEF Entry, Vector
  <2> QED
    BY <2>1
<1> HIDE DEF f, zero
<1>3. SumFunction(zero) <= SumFunction(f)
  BY <1>1, <1>2, SumMonotone, Constants
<1>4. SumFunction(zero) = 0
  BY SumZero, Constants DEF zero
<1>5. SumFunction(f) \in Int
  BY <1>1, SumInt, Constants
<1> QED
  BY <1>3, <1>4, <1>5 DEF f

(* ... and grows by a factor where the vector does.                        *)
LEMMA RowProductGrows ==
  ASSUME NEW row \in [State -> Entry], NEW v \in Vector, NEW w \in Vector,
         \A t \in State : w[t] >= One * v[t]
  PROVE  SumFunction([t \in State |-> row[t] * w[t]])
           >= One * SumFunction([t \in State |-> row[t] * v[t]])
<1> DEFINE f == [t \in State |-> row[t] * v[t]]
           g == [t \in State |-> row[t] * w[t]]
           h == [t \in State |-> One * f[t]]
<1>1. f \in [State -> Int] /\ g \in [State -> Int]
  BY RowProduct
<1>2. h \in [State -> Int]
  BY <1>1, Constants
<1>3. ASSUME NEW t \in State PROVE h[t] <= g[t]
  <2>1. row[t] \in Nat /\ v[t] \in Int /\ w[t] \in Int /\ One \in Nat
    BY Constants DEF Entry, Vector
  <2>2. row[t] * (One * v[t]) <= row[t] * w[t]
    BY <2>1, ProductBounds
  <2>3. row[t] * (One * v[t]) = One * (row[t] * v[t])
    BY <2>1, Associate
  <2> QED
    BY <2>2, <2>3
<1> HIDE DEF f, g
<1>4. SumFunction(h) = One * SumFunction(f)
  BY <1>1, SumScaled, Constants
<1> HIDE DEF h
<1>5. SumFunction(h) <= SumFunction(g)
  BY <1>1, <1>2, <1>3, SumMonotone, Constants
<1>6. SumFunction(g) \in Int /\ SumFunction(f) \in Int /\ SumFunction(h) \in Int
  BY <1>1, <1>2, SumInt, Constants
<1> QED
  BY <1>4, <1>5, <1>6 DEF f, g

LEMMA Sets == TypeOK => /\ phi1 \subseteq reachable
                        /\ phi2 \subseteq reachable
                        /\ sQuestion \subseteq reachable
                        /\ sQuestion \intersect phi2 = {}
                        /\ reachable \subseteq State
  BY DEF TypeOK, phi1, phi2, sQuestion, StateFormula
-----------------------------------------------------------------------------
LEMMA InitIInv == Init => IInv
<1> SUFFICES ASSUME Init PROVE IInv
  OBVIOUS
<1>1. ZeroRow \in [State -> Entry] /\ ZeroRow \in Vector /\ \A s \in State : ZeroRow[s] = 0
  BY Constants DEF ZeroRow, Entry, Vector
<1>2. TypeOK
  BY <1>1, Constants DEF Init, TypeOK, Matrix
<1> QED
  BY <1>1, <1>2 DEF Init, IInv, ZeroOutside, CareSetKept, Fresh, Growing, Inside

(* One pass of the loop, row by row.                                       *)
LEMMA PassIsIteration ==
  ASSUME IInv, Iterate
  PROVE  /\ Stepped \in Vector
         /\ resAdd' \in Vector
         /\ \A s \in State : resAdd'[s] = Pass(resAdd, scale, s)
<1>1. /\ tQuestion \in Matrix /\ resAdd \in Vector /\ scale \in Nat
      /\ phi2 \subseteq State
  BY Sets DEF IInv, TypeOK
<1>2. Stepped \in Vector
  BY <1>1, MatMulVector DEF Stepped, VecMask, Vector
<1>3. resAdd' = VecPlus(Stepped, Indicator(phi2, One * scale))
  BY DEF Iterate
<1>4. Indicator(phi2, One * scale) \in Vector
  BY <1>1, Constants DEF Indicator, Vector
<1>5. resAdd' \in Vector
  BY <1>2, <1>3, <1>4 DEF VecPlus, Vector
<1>6. ASSUME NEW s \in State PROVE resAdd'[s] = Pass(resAdd, scale, s)
  BY <1>1, <1>3 DEF VecPlus, Indicator, Stepped, VecMask, MatMul, Pass
<1> QED
  BY <1>2, <1>5, <1>6

LEMMA NextIInv == IInv /\ [Next]_vars => IInv'
<1> SUFFICES ASSUME IInv, [Next]_vars PROVE IInv'
  OBVIOUS
<1>0. TypeOK /\ ZeroOutside /\ CareSetKept /\ Fresh /\ Growing
  BY DEF IInv
<1>1. CASE CheckNext
  <2>1. Indicator(phi2, 1) \in Vector
    BY DEF Indicator, Vector
  <2>2. answer' \in Vector
    BY <1>0, <1>1, <2>1, MatMulVector DEF CheckNext, TypeOK
  <2>3. TypeOK'
    BY <1>0, <1>1, <2>2, Constants DEF CheckNext, TypeOK, model
  <2> QED
    BY <1>0, <1>1, <2>3
    DEF CheckNext, model, IInv, ZeroOutside, CareSetKept, Fresh, Growing, Inside, Pass
<1>2. CASE SetUp
  <2>1. tQuestion' \in Matrix
    BY <1>0, <1>2, Constants DEF SetUp, TypeOK, MaskRows, Matrix, ZeroRow, Entry
  <2>2. resAdd' \in Vector /\ \A s \in State : resAdd'[s] >= 0
    BY <1>2 DEF SetUp, Indicator, Vector
  <2>3. TypeOK'
    BY <1>0, <1>2, <2>1, <2>2 DEF SetUp, TypeOK, model
  <2>4. ZeroOutside'
    BY <1>0, <1>2, Sets DEF SetUp, ZeroOutside, Indicator, model
  <2>5. CareSetKept'
    BY <1>0, <1>2, Sets
    DEF SetUp, CareSetKept, Inside, MaskRows, ZeroRow, model, sQuestion, phi1, phi2, StateFormula
  <2>6. Fresh'
    BY <1>0, <1>2 DEF SetUp, Fresh, model, phi2, StateFormula
  <2> QED
    BY <1>2, <2>2, <2>3, <2>4, <2>5, <2>6 DEF SetUp, IInv, Growing
<1>3. CASE RestrictNext
  <2>1. PICK branch \in [State -> [State \ reachable -> reachable]] :
          tQuestion' = [s \in State |-> [t \in State |->
              IF t \in reachable THEN tQuestion[s][t] ELSE tQuestion[s][branch[s][t]]]]
    BY <1>3 DEF RestrictNext
  <2>2. reachable \subseteq State /\ tQuestion \in Matrix
    BY <1>0 DEF TypeOK
  <2>3. \A s, t \in State : t \notin reachable => branch[s][t] \in State
    BY <2>2
  <2>4. tQuestion' \in Matrix
    BY <2>1, <2>2, <2>3 DEF Matrix
  <2>5. TypeOK'
    BY <1>0, <1>3, <2>4 DEF RestrictNext, TypeOK, model
  <2>6. CareSetKept'
    BY <1>0, <1>3, <2>1, <2>2
    DEF RestrictNext, CareSetKept, Inside, model, sQuestion, phi1, phi2, StateFormula
  <2> QED
    BY <1>0, <1>3, <2>5, <2>6
    DEF RestrictNext, IInv, ZeroOutside, Fresh, Growing, model, phi2, StateFormula
<1>4. CASE RestrictCurr
  <2>1. PICK branch \in [State \ reachable -> [State -> reachable]] :
          tQuestion' = [s \in State |-> [t \in State |->
              IF s \in reachable THEN tQuestion[s][t] ELSE tQuestion[branch[s][t]][t]]]
    BY <1>4 DEF RestrictCurr
  <2>2. reachable \subseteq State /\ tQuestion \in Matrix
    BY <1>0 DEF TypeOK
  <2>3. \A s, t \in State : s \notin reachable => branch[s][t] \in State
    BY <2>2
  <2>4. tQuestion' \in Matrix
    BY <2>1, <2>2, <2>3 DEF Matrix
  <2>5. TypeOK'
    BY <1>0, <1>4, <2>4 DEF RestrictCurr, TypeOK, model
  <2>6. CareSetKept'
    BY <1>0, <1>4, <2>1, <2>2
    DEF RestrictCurr, CareSetKept, Inside, model, sQuestion, phi1, phi2, StateFormula
  <2>7. Growing'
    <3>1. /\ resAdd' = resAdd /\ scale' = 1 /\ scale = 1 /\ phi2' = phi2
          /\ reachable' = reachable
          /\ resAdd = Indicator(phi2, 1)
          /\ resAdd \in Vector
      BY <1>0, <1>4 DEF RestrictCurr, Fresh, TypeOK, model, phi2, StateFormula
    <3>2. \A s \in State : resAdd[s] >= 0
      BY <1>0 DEF Growing
    <3>3. ASSUME NEW s \in State
          PROVE  Pass(resAdd, scale, s)' >= One * resAdd[s]
      <4> DEFINE sum == SumFunction([t \in State |-> tQuestion'[s][t] * resAdd[t]])
      <4>1. tQuestion'[s] \in [State -> Entry]
        BY <2>4 DEF Matrix
      <4>2. sum \in Int /\ sum >= 0
        BY <3>1, <3>2, <4>1, RowProduct, RowProductNonnegative
      <4>3. resAdd[s] = IF s \in phi2 THEN 1 ELSE 0
        BY <3>1 DEF Indicator
      <4>4. Pass(resAdd, scale, s)' =
              (IF s \in reachable THEN sum ELSE 0) + (IF s \in phi2 THEN One * 1 ELSE 0)
        BY <3>1 DEF Pass
      <4> HIDE DEF sum
      <4>5. One * 1 = One /\ One * 0 = 0 /\ One \in Nat
        BY Constants
      <4> QED
        BY <4>2, <4>3, <4>4, <4>5
    <3> QED
      BY <3>1, <3>2, <3>3 DEF Growing
  <2> QED
    BY <1>0, <1>4, <2>5, <2>6, <2>7
    DEF RestrictCurr, IInv, ZeroOutside, Fresh, model, phi2, StateFormula
<1>5. CASE Iterate
  <2>1. /\ resAdd' \in Vector
        /\ \A s \in State : resAdd'[s] = Pass(resAdd, scale, s)
    BY <1>5, PassIsIteration
  <2>2. /\ tQuestion \in Matrix /\ resAdd \in Vector /\ scale \in Nat /\ One \in Nat
        /\ reachable \subseteq State /\ phi2 \subseteq reachable
        /\ scale' = One * scale /\ scale' \in Nat
        /\ tQuestion' = tQuestion /\ reachable' = reachable /\ phi2' = phi2
    BY <1>0, <1>5, Sets, Constants DEF Iterate, TypeOK, model, phi2, StateFormula
  <2>3. TypeOK'
    BY <1>0, <1>5, <2>1, <2>2 DEF Iterate, TypeOK, model
  <2>4. ZeroOutside'
    <3>1. ASSUME NEW s \in State, s \notin reachable
          PROVE  resAdd'[s] = 0
      <4>1. Pass(resAdd, scale, s) = 0 + 0
        BY <2>2, <3>1 DEF Pass
      <4> QED
        BY <2>1, <4>1
    <3> QED
      BY <2>2, <3>1 DEF ZeroOutside
  <2>5. \A s \in State : resAdd'[s] >= One * resAdd[s]
    BY <1>0, <1>5, <2>1 DEF Growing, Iterate
  <2>6. \A s \in State : resAdd'[s] >= 0
    <3> SUFFICES ASSUME NEW s \in State PROVE resAdd'[s] >= 0
      OBVIOUS
    <3>1. resAdd[s] \in Nat /\ resAdd'[s] \in Int
      BY <1>0, <2>1, <2>2 DEF Growing, Vector
    <3>2. One * resAdd[s] >= 0 /\ One * resAdd[s] \in Int
      BY <2>2, <3>1
    <3> QED
      BY <2>5, <3>1, <3>2
  <2>7. ASSUME NEW s \in State
        PROVE  Pass(resAdd, scale, s)' >= One * resAdd'[s]
    <3> DEFINE old == SumFunction([t \in State |-> tQuestion[s][t] * resAdd[t]])
               new == SumFunction([t \in State |-> tQuestion[s][t] * resAdd'[t]])
    <3>1. tQuestion[s] \in [State -> Entry]
      BY <2>2 DEF Matrix
    <3>2. old \in Int /\ new \in Int /\ new >= One * old
      BY <2>1, <2>2, <2>5, <3>1, RowProduct, RowProductGrows
    <3>3. Pass(resAdd, scale, s)' =
            (IF s \in reachable THEN new ELSE 0)
              + (IF s \in phi2 THEN One * (One * scale) ELSE 0)
      BY <2>2 DEF Pass
    <3>4. resAdd'[s] = (IF s \in reachable THEN old ELSE 0)
              + (IF s \in phi2 THEN One * scale ELSE 0)
      BY <2>1 DEF Pass
    <3> HIDE DEF old, new
    <3>5. /\ One * scale \in Int
          /\ \A a, b \in Int : One * (a + b) = One * a + One * b
      BY <2>2
    <3>6. CASE s \in reachable /\ s \in phi2
      BY <2>2, <3>2, <3>3, <3>4, <3>5, <3>6
    <3>7. CASE s \in reachable /\ s \notin phi2
      BY <2>2, <3>2, <3>3, <3>4, <3>5, <3>7
    <3>8. CASE s \notin reachable
      BY <2>2, <3>3, <3>4, <3>8
    <3> QED
      BY <3>6, <3>7, <3>8
  <2>8. Growing'
    BY <2>6, <2>7 DEF Growing
  <2>9. CareSetKept' /\ Fresh'
    BY <1>0, <1>5
    DEF Iterate, CareSetKept, Fresh, Inside, model, sQuestion, phi1, phi2, StateFormula
  <2> QED
    BY <2>3, <2>4, <2>8, <2>9 DEF IInv
<1>6. CASE Return
  <2>1. answer' \in Vector
    BY <1>0, <1>6 DEF Return, TypeOK, Vector
  <2>2. TypeOK'
    BY <1>0, <1>6, <2>1 DEF Return, TypeOK, model
  <2> QED
    BY <1>0, <1>6, <2>2
    DEF Return, model, IInv, ZeroOutside, CareSetKept, Fresh, Growing, Inside,
        sQuestion, phi1, phi2, StateFormula
<1>7. CASE UNCHANGED vars
  BY <1>0, <1>7
  DEF vars, model, IInv, TypeOK, ZeroOutside, CareSetKept, Fresh, Growing, Inside, Pass,
      sQuestion, phi1, phi2, StateFormula
<1> QED
  BY <1>1, <1>2, <1>3, <1>4, <1>5, <1>6, <1>7 DEF Next

THEOREM Invariant == Spec => []IInv
  BY InitIInv, NextIInv, PTL DEF Spec

-----------------------------------------------------------------------------
(* Type correctness: the loop runs exactly k times at most, and no vector  *)
(* leaves the whole numbers.                                               *)
THEOREM TypeCorrect == Spec => []TypeOK
  BY Invariant, PTL DEF IInv

(* The mask after every product keeps the vector zero on unreachable       *)
(* valuations (sym_check.rs:121-125), which makes the restriction of the   *)
(* next states harmless.                                                   *)
THEOREM MaskSuffices == Spec => []ZeroOutside
  BY Invariant, PTL DEF IInv

(* Every pass of the loop of sym_check.rs:117-133 can only raise the       *)
(* probability of each state.                                              *)
THEOREM MorePathsMoreLikely == Spec => Monotone
<1> DEFINE Raised == pc = "loop" => \A s \in State : resAdd'[s] * scale >= resAdd[s] * scale'
<1>1. IInv /\ [Next]_vars => [Raised]_vars
  <2> SUFFICES ASSUME IInv, Next, pc = "loop", NEW s \in State
               PROVE  resAdd'[s] * scale >= resAdd[s] * scale'
    BY DEF vars
  <2>0. resAdd \in Vector /\ scale \in Nat /\ One \in Nat
    BY Constants DEF IInv, TypeOK
  <2>1. CASE Iterate
    <3>1. resAdd'[s] \in Int /\ resAdd'[s] >= One * resAdd[s]
      BY <2>1, PassIsIteration DEF IInv, Growing, Vector
    <3>2. resAdd[s] \in Int /\ One * resAdd[s] \in Int
      BY <2>0 DEF Vector
    <3>3. (One * resAdd[s]) * scale <= resAdd'[s] * scale
      BY <2>0, <3>1, <3>2, ProductBounds
    <3>4. (One * resAdd[s]) * scale = resAdd[s] * (One * scale)
      BY <2>0, <3>2
    <3>5. scale' = One * scale
      BY <2>1 DEF Iterate
    <3> QED
      BY <3>3, <3>4, <3>5
  <2>2. CASE Return
    BY <2>0, <2>2 DEF Return, Vector
  <2> QED
    BY <2>1, <2>2 DEF Next, CheckNext, SetUp, RestrictNext, RestrictCurr
<1> QED
  BY <1>1, Invariant, PTL DEF Spec, Monotone

(* One pass, by the kind of the row: the entries add_restrict may choose   *)
(* meet zeros of the vector, or are masked.                                *)
LEMMA PassByKind ==
  ASSUME IInv, Iterate
  PROVE  /\ resAdd' \in Vector
         /\ \A s \in State :
              resAdd'[s] = IF s \in phi2 THEN One * scale
                           ELSE IF s \in sQuestion THEN MatMul(transitions, resAdd)[s]
                           ELSE 0
<1>0. /\ TypeOK /\ ZeroOutside /\ CareSetKept /\ Fresh
      /\ op # "next" /\ pc = "loop"
  BY DEF IInv, Iterate, Fresh
<1>1. /\ resAdd' \in Vector
      /\ \A s \in State : resAdd'[s] = Pass(resAdd, scale, s)
  BY PassIsIteration
<1>2. /\ phi2 \subseteq reachable /\ sQuestion \subseteq reachable
      /\ sQuestion \intersect phi2 = {} /\ reachable \subseteq State
      /\ tQuestion \in Matrix /\ transitions \in Matrix /\ resAdd \in Vector
      /\ scale \in Nat /\ One \in Nat
  BY <1>0, Sets, Constants DEF TypeOK
<1>3. ASSUME NEW s \in State
      PROVE  resAdd'[s] = IF s \in phi2 THEN One * scale
                          ELSE IF s \in sQuestion THEN MatMul(transitions, resAdd)[s]
                          ELSE 0
  <2> DEFINE f == [t \in State |-> tQuestion[s][t] * resAdd[t]]
             g == [t \in State |-> transitions[s][t] * resAdd[t]]
             zero == [t \in State |-> 0]
  <2>1. /\ \A t \in State : tQuestion[s][t] \in Int /\ transitions[s][t] \in Int
        /\ \A t \in State : resAdd[t] \in Int
    BY <1>2, Constants DEF Matrix, Entry, Vector
  <2>2. \A t \in State \ reachable : resAdd[t] = 0
    BY <1>0 DEF ZeroOutside
  <2>3. s \in reachable => \A t \in reachable :
          tQuestion[s][t] = IF s \in sQuestion THEN transitions[s][t] ELSE 0
    BY <1>0, <1>0 DEF CareSetKept, Inside
  <2>4. CASE s \in sQuestion
    <3>1. \A t \in State : tQuestion[s][t] * resAdd[t] = transitions[s][t] * resAdd[t]
      BY <1>2, <2>1, <2>2, <2>3, <2>4
    <3>2. f = g
      BY <3>1
    <3>3. MatMul(transitions, resAdd)[s] = SumFunction(g)
      BY DEF MatMul
    <3>4. SumFunction(g) \in Int
      <4>1. transitions[s] \in [State -> Entry]
        BY <1>2 DEF Matrix
      <4> QED
        BY <1>2, <4>1, RowProduct
    <3>5. s \notin phi2 /\ s \in reachable
      BY <1>2, <2>4
    <3>6. resAdd'[s] = SumFunction(f) + 0
      BY <1>1, <3>5 DEF Pass
    <3> HIDE DEF f, g
    <3> QED
      BY <2>4, <3>2, <3>3, <3>4, <3>5, <3>6
  <2>5. CASE s \in reachable /\ s \notin sQuestion
    <3>1. \A t \in State : tQuestion[s][t] * resAdd[t] = 0
      BY <1>2, <2>1, <2>2, <2>3, <2>5
    <3>2. f = zero
      BY <3>1
    <3>3. SumFunction(zero) = 0
      BY SumZero, Constants
    <3>4. resAdd'[s] = SumFunction(f) + (IF s \in phi2 THEN One * scale ELSE 0)
      BY <1>1, <2>5 DEF Pass
    <3> HIDE DEF f, zero
    <3> QED
      BY <1>2, <2>5, <3>2, <3>3, <3>4
  <2>6. CASE s \notin reachable
    <3>1. Pass(resAdd, scale, s) = 0 + 0
      BY <1>2, <2>6 DEF Pass
    <3> QED
      BY <1>1, <1>2, <2>6, <3>1
  <2> QED
    BY <2>4, <2>5, <2>6
<1> QED
  BY <1>1, <1>3

(* The loop computes the recurrence of docs/dtmc_details.md:97-103: at a   *)
(* reachable question state the entries add_restrict invented meet zeros   *)
(* of the vector, at every other state the row is empty or masked.         *)
THEOREM Refinement == Spec => ImplementsRecurrence
<1>1. Init => Recurrence!Init
  BY DEF Init, Recurrence!Init, Indicator, Recurrence!Indicator
<1>2. IInv /\ [Next]_vars => [Recurrence!Step]_(Recurrence!vars)
  <2> SUFFICES ASSUME IInv, [Next]_vars
               PROVE  Recurrence!Step \/ UNCHANGED Recurrence!vars
    OBVIOUS
  <2>0. TypeOK /\ ZeroOutside /\ CareSetKept /\ Fresh
    BY DEF IInv
  <2>1. CASE CheckNext
    BY <2>1 DEF CheckNext, Recurrence!vars, model, phi1, phi2, sQuestion, StateFormula, Indicator
  <2>2. CASE SetUp
    BY <2>2 DEF SetUp, Recurrence!vars, model, phi1, phi2, sQuestion, StateFormula, Indicator
  <2>3. CASE RestrictNext
    BY <2>3 DEF RestrictNext, Recurrence!vars, model, phi1, phi2, sQuestion, StateFormula, Indicator
  <2>4. CASE RestrictCurr
    BY <2>4 DEF RestrictCurr, Recurrence!vars, model, phi1, phi2, sQuestion, StateFormula, Indicator
  <2>5. CASE Iterate
    <3>0. /\ op # "next" /\ pc = "loop" /\ pc' = "loop" /\ op' = op /\ i < k
          /\ i' = i + 1 /\ scale' = One * scale
          /\ UNCHANGED <<transitions, phi2, sQuestion, k>>
      BY <2>0, <2>5 DEF Iterate, Fresh, model, phi1, phi2, sQuestion, StateFormula
    <3>1. /\ resAdd' \in Vector
          /\ \A s \in State :
               resAdd'[s] = IF s \in phi2 THEN One * scale
                            ELSE IF s \in sQuestion THEN MatMul(transitions, resAdd)[s]
                            ELSE 0
      BY <2>5, PassByKind
    <3>4. resAdd' = [s \in State |->
                       IF s \in phi2 THEN One * scale
                       ELSE IF s \in sQuestion THEN MatMul(transitions, resAdd)[s]
                       ELSE 0]
      BY <3>1 DEF Vector
    <3>5. Recurrence!MatMul(transitions, resAdd) = MatMul(transitions, resAdd)
      BY DEF Recurrence!MatMul, MatMul, SumFunction, SumFunctionOnSet, FoldFunctionOnSet,
             MapThenFoldSet, Recurrence!SumFunction, Recurrence!SumFunctionOnSet,
             Recurrence!FoldFunctionOnSet, Recurrence!MapThenFoldSet
    <3> QED
      BY <3>0, <3>4, <3>5 DEF Recurrence!Step
  <2>6. CASE Return
    BY <2>0, <2>6
    DEF Return, Fresh, Recurrence!vars, model, phi1, phi2, sQuestion, StateFormula, Indicator
  <2>7. CASE UNCHANGED vars
    BY <2>7 DEF vars, Recurrence!vars, model, phi1, phi2, sQuestion, StateFormula, Indicator
  <2> QED
    BY <2>1, <2>2, <2>3, <2>4, <2>5, <2>6, <2>7 DEF Next
<1> QED
  BY <1>1, <1>2, Invariant, PTL DEF Spec, Recurrence!Spec, ImplementsRecurrence

-----------------------------------------------------------------------------
(* A path without its first state.                                         *)
Shift(path, n) == [j \in 0 .. n |-> path[j + 1]]

(* The paths that reach phi2 through phi1, the sets the loop works with.   *)
UntilPaths(s, n) ==
    {path \in Paths(s, n) :
        \E m \in 0 .. n : path[m] \in phi2 /\ \A j \in 0 .. m - 1 : path[j] \in phi1}

LEMMA PathsFinite ==
  ASSUME TypeOK, NEW s \in reachable, NEW n \in Nat
  PROVE  IsFiniteSet(Paths(s, n))
<1> DEFINE pairs == (0 .. n) \X reachable
           graph == [path \in Paths(s, n) |-> {<<j, path[j]>> : j \in 0 .. n}]
<1>1. IsFiniteSet(reachable)
  BY Constants, FS_Subset DEF TypeOK
<1>2. IsFiniteSet(0 .. n)
  BY FS_Interval
<1>3. IsFiniteSet(SUBSET pairs)
  BY <1>1, <1>2, FS_Product, FS_SUBSET
<1>4. graph \in [Paths(s, n) -> SUBSET pairs]
  BY DEF Paths
<1>5. ASSUME NEW p \in Paths(s, n), NEW q \in Paths(s, n), graph[p] = graph[q]
      PROVE  p = q
  <2>1. p \in [0 .. n -> reachable] /\ q \in [0 .. n -> reachable]
    BY DEF Paths
  <2>2. ASSUME NEW j \in 0 .. n PROVE p[j] = q[j]
    <3>1. <<j, p[j]>> \in graph[p]
      OBVIOUS
    <3>2. <<j, p[j]>> \in graph[q]
      BY <1>5, <3>1
    <3> QED
      BY <3>2
  <2> QED
    BY <2>1, <2>2
<1>6. graph \in Injection(Paths(s, n), SUBSET pairs)
  <2> HIDE DEF graph, pairs
  <2> QED
    BY <1>4, <1>5 DEF Injection, IsInjective
<1> HIDE DEF graph, pairs
<1> QED
  BY <1>3, <1>6, FS_Injection

LEMMA Steps ==
  ASSUME TypeOK, NEW n \in Nat, NEW path \in [0 .. n -> reachable]
  PROVE  /\ [j \in 0 .. n - 1 |-> transitions[path[j]][path[j + 1]]] \in [0 .. n - 1 -> Int]
         /\ IsFiniteSet(0 .. n - 1)
<1>1. \A s, t \in reachable : transitions[s][t] \in Int
  BY Constants DEF TypeOK, Matrix, Entry
<1>2. \A j \in 0 .. n - 1 : j \in 0 .. n /\ j + 1 \in 0 .. n
  OBVIOUS
<1>3. IsFiniteSet(0 .. n - 1)
  BY FS_Interval
<1> QED
  BY <1>1, <1>2, <1>3

LEMMA WeightIsProduct ==
  \A path, n : Weight(path, n)
                 = ProductFunction([j \in 0 .. n - 1 |-> transitions[path[j]][path[j + 1]]])
  BY DEF Weight

LEMMA WeightInt ==
  ASSUME TypeOK, NEW n \in Nat, NEW path \in [0 .. n -> reachable]
  PROVE  Weight(path, n) \in Int
  BY Steps, ProductInt, WeightIsProduct

LEMMA WeightNone ==
  ASSUME NEW path
  PROVE  Weight(path, 0) = 1
<1> DEFINE f == [j \in 0 .. 0 - 1 |-> transitions[path[j]][path[j + 1]]]
<1>1. f \in [{} -> Int]
  OBVIOUS
<1>2. Weight(path, 0) = ProductFunction(f)
  BY WeightIsProduct
<1> HIDE DEF f
<1> QED
  BY <1>1, <1>2, ProductOfNone

(* The first step taken off a path.                                        *)
LEMMA ShiftPath ==
  ASSUME NEW n \in Nat, NEW path \in [0 .. n + 1 -> reachable]
  PROVE  /\ Shift(path, n) \in Paths(path[1], n)
         /\ Shift(path, n) \in [0 .. n -> reachable]
         /\ path[0] \in reachable /\ path[1] \in reachable
<1>1. \A j \in 0 .. n : j + 1 \in 0 .. n + 1
  OBVIOUS
<1>2. 0 \in 0 .. n /\ 0 \in 0 .. n + 1 /\ 1 \in 0 .. n + 1 /\ 0 + 1 = 1
  OBVIOUS
<1> QED
  BY <1>1, <1>2 DEF Shift, Paths

LEMMA WeightSplit ==
  ASSUME TypeOK, NEW n \in Nat, NEW path \in [0 .. n + 1 -> reachable]
  PROVE  Weight(path, n + 1) = transitions[path[0]][path[1]] * Weight(Shift(path, n), n)
<1> DEFINE f == [j \in 0 .. (n + 1) - 1 |-> transitions[path[j]][path[j + 1]]]
           g == [j \in 0 .. n - 1 |-> transitions[Shift(path, n)[j]][Shift(path, n)[j + 1]]]
           h == [j \in 0 .. n - 1 |-> j + 1]
           E == 0 .. n
           D == 0 .. n - 1
           others == E \ {0}
<1>0. (n + 1) - 1 = n /\ n + 1 \in Nat
  OBVIOUS
<1>1. IsFiniteSet(E) /\ f \in [E -> Int]
  BY <1>0, Steps
<1>2. IsFiniteSet(D) /\ g \in [D -> Int]
  <2> DEFINE rest == Shift(path, n)
  <2>1. rest \in [0 .. n -> reachable]
    BY ShiftPath
  <2> HIDE DEF rest
  <2>2. /\ [j \in 0 .. n - 1 |-> transitions[rest[j]][rest[j + 1]]] \in [0 .. n - 1 -> Int]
        /\ IsFiniteSet(0 .. n - 1)
    BY <2>1, Steps
  <2> QED
    BY <2>2 DEF rest
<1>3. /\ h \in [D -> E]
      /\ \A x, y \in D : h[x] = h[y] => x = y
      /\ 0 \in E
  OBVIOUS
<1>4. \A e \in E : e # 0 <=> \E x \in D : h[x] = e
  <2>1. ASSUME NEW e \in E, e # 0 PROVE \E x \in D : h[x] = e
    <3>1. e - 1 \in D /\ (e - 1) + 1 = e
      BY <2>1
    <3>2. h[e - 1] = e
      BY <3>1
    <3> QED
      BY <3>1, <3>2
  <2> QED
    BY <2>1
<1>5. \A x \in D : g[x] = f[h[x]]
  <2>1. \A x \in D : x \in 0 .. n /\ x + 1 \in 0 .. n /\ x + 1 \in E
    OBVIOUS
  <2> QED
    BY <1>0, <2>1 DEF Shift
<1>6. f[0] = transitions[path[0]][path[1]]
  BY <1>0
<1>7. Weight(path, n + 1) = ProductFunction(f) /\ Weight(Shift(path, n), n) = ProductFunction(g)
  BY WeightIsProduct
<1> HIDE DEF f, g, h, D, E, others
<1>8. ProductFunction(f) = f[0] * ProductIter(f)[others]
  BY <1>1, <1>3, ProductTakeOut DEF others
<1>9. Renames(h, D, E, others)
  BY <1>3, <1>4 DEF others, Renames
<1>10. ProductFunction(g) = ProductIter(f)[others]
  BY <1>1, <1>2, <1>5, <1>9, ProductReindex
<1> QED
  BY <1>6, <1>7, <1>8, <1>10

(* The probabilities of a set of paths from s, in terms of the sets of     *)
(* paths that are left after a first step: Y[t] after a step to t.         *)
LEMMA SplitFirst ==
  ASSUME TypeOK, NEW s \in reachable, NEW n \in Nat,
         NEW X \in SUBSET Paths(s, n + 1),
         NEW Y, \A t \in reachable : Y[t] \in SUBSET Paths(t, n),
         \A path \in Paths(s, n + 1) : path \in X <=> Shift(path, n) \in Y[path[1]]
  PROVE  PathSum(X, n + 1) =
           SumFunction([t \in State |->
             transitions[s][t] * (IF t \in reachable THEN PathSum(Y[t], n) ELSE 0)])
<1> DEFINE w == [path \in X |-> Weight(path, n + 1)]
           first == [path \in X |-> path[1]]
           fibre(t) == {path \in X : first[path] = t}
           rest(t) == IF t \in reachable THEN PathSum(Y[t], n) ELSE 0
<1>0. n + 1 \in Nat /\ IsFiniteSet(State) /\ reachable \subseteq State
  BY Constants DEF TypeOK
<1>1. \A path \in X : path \in [0 .. n + 1 -> reachable] /\ path[0] = s
  BY DEF Paths
<1>2. IsFiniteSet(X)
  BY <1>0, PathsFinite, FS_Subset
<1>3. w \in [X -> Int]
  BY <1>0, <1>1, WeightInt
<1>4. first \in [X -> State]
  BY <1>0, <1>1, ShiftPath
<1>5. ASSUME NEW t \in State
      PROVE  SumFunction([path \in fibre(t) |-> w[path]]) = transitions[s][t] * rest(t)
  <2>0. transitions[s][t] \in Int
    BY <1>0, Constants DEF TypeOK, Matrix, Entry
  <2>1. CASE t \notin reachable
    <3>1. fibre(t) = {}
      BY <1>1, <2>1, ShiftPath
    <3>2. [path \in fibre(t) |-> w[path]] = [path \in {} |-> 0]
      BY <3>1
    <3>3. SumFunction([path \in {} |-> 0]) = 0
      BY SumZero, FS_EmptySet
    <3>4. transitions[s][t] * rest(t) = 0
      BY <2>0, <2>1
    <3> HIDE DEF fibre, w, rest
    <3> QED
      BY <3>2, <3>3, <3>4
  <2>2. CASE t \in reachable
    <3> DEFINE g == [path \in fibre(t) |-> Weight(Shift(path, n), n)]
               f == [path \in Y[t] |-> Weight(path, n)]
               h == [path \in fibre(t) |-> Shift(path, n)]
    <3>1. ASSUME NEW path \in fibre(t)
          PROVE  /\ path \in X /\ path[1] = t /\ path[0] = s
                 /\ path \in [0 .. n + 1 -> reachable]
                 /\ path \in Paths(s, n + 1)
                 /\ Shift(path, n) \in Y[t]
                 /\ Shift(path, n) \in [0 .. n -> reachable]
      BY <1>1, ShiftPath
    <3>2. IsFiniteSet(fibre(t)) /\ IsFiniteSet(Y[t])
      BY <1>2, <2>2, PathsFinite, FS_Subset
    <3>3. g \in [fibre(t) -> Int]
      BY <3>1, WeightInt
    <3>4. f \in [Y[t] -> Int]
      <4>1. \A path \in Y[t] : path \in [0 .. n -> reachable]
        BY <2>2 DEF Paths
      <4> QED
        BY <4>1, WeightInt
    <3>5. h \in [fibre(t) -> Y[t]] /\ \A path \in fibre(t) : g[path] = f[h[path]]
      BY <3>1
    <3>6. ASSUME NEW p \in fibre(t), NEW q \in fibre(t), h[p] = h[q]
          PROVE  p = q
      <4>1. /\ p \in [0 .. n + 1 -> reachable] /\ q \in [0 .. n + 1 -> reachable]
            /\ p[0] = s /\ q[0] = s
        BY <3>1
      <4>2. Shift(p, n) = Shift(q, n)
        BY <3>6
      <4>3. ASSUME NEW j \in 0 .. n + 1, j # 0 PROVE p[j] = q[j]
        <5>1. j - 1 \in 0 .. n /\ (j - 1) + 1 = j
          BY <4>3
        <5>2. Shift(p, n)[j - 1] = p[j] /\ Shift(q, n)[j - 1] = q[j]
          BY <5>1 DEF Shift
        <5> QED
          BY <4>2, <5>2
      <4> QED
        BY <4>1, <4>3
    <3>7. ASSUME NEW q \in Y[t] PROVE \E path \in fibre(t) : h[path] = q
      <4> DEFINE path == [j \in 0 .. n + 1 |-> IF j = 0 THEN s ELSE q[j - 1]]
      <4>1. q \in [0 .. n -> reachable] /\ q[0] = t
        BY <2>2 DEF Paths
      <4>2. \A j \in 0 .. n + 1 : j # 0 => j - 1 \in 0 .. n
        OBVIOUS
      <4>3. path \in [0 .. n + 1 -> reachable] /\ path[0] = s
        BY <4>1, <4>2
      <4>4. path[1] = t
        <5>1. 1 \in 0 .. n + 1 /\ 1 # 0 /\ 1 - 1 = 0
          OBVIOUS
        <5> QED
          BY <4>1, <5>1
      <4>5. Shift(path, n) = q
        <5>1. \A j \in 0 .. n : j + 1 \in 0 .. n + 1 /\ j + 1 # 0 /\ (j + 1) - 1 = j
          OBVIOUS
        <5>2. \A j \in 0 .. n : path[j + 1] = q[j]
          BY <5>1
        <5> HIDE DEF path
        <5> QED
          BY <4>1, <5>2 DEF Shift
      <4> HIDE DEF path
      <4>6. path \in Paths(s, n + 1)
        BY <4>3 DEF Paths
      <4>7. path \in X
        BY <4>4, <4>5, <4>6
      <4> QED
        BY <4>4, <4>5, <4>7
    <3>8. ASSUME NEW path \in fibre(t) PROVE w[path] = transitions[s][t] * g[path]
      BY <3>1, WeightSplit
    <3> DEFINE part == [path \in fibre(t) |-> w[path]]
    <3>9. part \in [fibre(t) -> Int] /\ \A path \in fibre(t) : part[path] = transitions[s][t] * g[path]
      BY <1>3, <3>8
    <3>10. SumFunction(f) = rest(t)
      BY <2>2 DEF PathSum
    <3> HIDE DEF f, g, h, part, fibre, w, rest
    <3>11. SumFunction(part) = transitions[s][t] * SumFunction(g)
      BY <2>0, <3>2, <3>3, <3>9, SumScaledPoints
    <3>12. Renames(h, fibre(t), Y[t], Y[t])
      BY <3>5, <3>6, <3>7 DEF Renames
    <3>13. SumFunction(g) = SumFunction(f)
      BY <3>2, <3>3, <3>4, <3>5, <3>12, SumReindex
    <3> QED
      BY <3>10, <3>11, <3>13 DEF part
  <2> QED
    BY <2>1, <2>2
<1>6. SumFunction(w) =
        SumFunction([t \in State |-> SumFunction([path \in {p \in X : first[p] = t} |-> w[path]])])
  <2> HIDE DEF w, first
  <2> QED
    BY <1>0, <1>2, <1>3, <1>4, SumFibres
<1>7. [t \in State |-> SumFunction([path \in {p \in X : first[p] = t} |-> w[path]])]
        = [t \in State |-> transitions[s][t] * rest(t)]
  <2> HIDE DEF w, first, rest
  <2> QED
    BY <1>5
<1> QED
  BY <1>6, <1>7 DEF PathSum

LEMMA UntilFirst ==
  ASSUME TypeOK, NEW s \in reachable, NEW n \in Nat, NEW path \in Paths(s, n + 1)
  PROVE  /\ s \in phi2 => path \in UntilPaths(s, n + 1)
         /\ s \in sQuestion =>
              (path \in UntilPaths(s, n + 1) <=> Shift(path, n) \in UntilPaths(path[1], n))
         /\ s \notin phi2 /\ s \notin sQuestion => path \notin UntilPaths(s, n + 1)
<1> DEFINE rest == Shift(path, n)
<1>0. /\ path \in [0 .. n + 1 -> reachable] /\ path[0] = s
      /\ rest \in Paths(path[1], n)
      /\ \A j \in 0 .. n : rest[j] = path[j + 1]
  <2>1. path \in [0 .. n + 1 -> reachable] /\ path[0] = s
    BY DEF Paths
  <2> QED
    BY <2>1, ShiftPath DEF Shift
<1> HIDE DEF rest
<1>1. ASSUME s \in phi2 PROVE path \in UntilPaths(s, n + 1)
  <2>1. 0 \in 0 .. n + 1 /\ \A j \in 0 .. 0 - 1 : path[j] \in phi1
    OBVIOUS
  <2> QED
    BY <1>0, <1>1, <2>1 DEF UntilPaths
<1>2. ASSUME s \in sQuestion, path \in UntilPaths(s, n + 1)
      PROVE  rest \in UntilPaths(path[1], n)
  <2>1. PICK m \in 0 .. n + 1 : path[m] \in phi2 /\ \A j \in 0 .. m - 1 : path[j] \in phi1
    BY <1>2 DEF UntilPaths
  <2>2. m # 0
    BY <1>0, <1>2, <2>1 DEF sQuestion
  <2>3. m - 1 \in 0 .. n /\ (m - 1) + 1 = m
    BY <2>2
  <2>4. rest[m - 1] \in phi2
    BY <1>0, <2>1, <2>3
  <2>5. ASSUME NEW j \in 0 .. (m - 1) - 1 PROVE rest[j] \in phi1
    <3>1. j \in 0 .. n /\ j + 1 \in 0 .. m - 1
      BY <2>3
    <3> QED
      BY <1>0, <2>1, <3>1
  <2> QED
    BY <1>0, <2>3, <2>4, <2>5 DEF UntilPaths
<1>3. ASSUME s \in sQuestion, rest \in UntilPaths(path[1], n)
      PROVE  path \in UntilPaths(s, n + 1)
  <2>1. PICK m \in 0 .. n : rest[m] \in phi2 /\ \A j \in 0 .. m - 1 : rest[j] \in phi1
    BY <1>3 DEF UntilPaths
  <2>2. m + 1 \in 0 .. n + 1 /\ path[m + 1] \in phi2
    BY <1>0, <2>1
  <2>3. ASSUME NEW j \in 0 .. (m + 1) - 1 PROVE path[j] \in phi1
    <3>1. CASE j = 0
      BY <1>0, <1>3, <3>1 DEF sQuestion
    <3>2. CASE j # 0
      <4>1. j - 1 \in 0 .. m - 1 /\ j - 1 \in 0 .. n /\ (j - 1) + 1 = j
        BY <3>2
      <4> QED
        BY <1>0, <2>1, <4>1
    <3> QED
      BY <3>1, <3>2
  <2> QED
    BY <2>2, <2>3 DEF UntilPaths
<1>4. ASSUME s \notin phi2, s \notin sQuestion, path \in UntilPaths(s, n + 1)
      PROVE  FALSE
  <2>1. PICK m \in 0 .. n + 1 : path[m] \in phi2 /\ \A j \in 0 .. m - 1 : path[j] \in phi1
    BY <1>4 DEF UntilPaths
  <2>2. m # 0
    BY <1>0, <1>4, <2>1
  <2>3. 0 \in 0 .. m - 1
    BY <2>2
  <2> QED
    BY <1>0, <1>4, <2>1, <2>3 DEF sQuestion
<1> QED
  BY <1>1, <1>2, <1>3, <1>4 DEF rest

(* A step away from a reachable state of a model none of whose             *)
(* probabilities is below the threshold is certain to stay reachable.      *)
LEMMA CertainStep ==
  ASSUME TypeOK, ExactModel, NEW s \in reachable, NEW c \in Int
  PROVE  SumFunction([t \in State |-> transitions[s][t] * (IF t \in reachable THEN c ELSE 0)])
           = c * One
<1> DEFINE row == transitions[s]
           f == [t \in State |-> row[t] * (IF t \in reachable THEN c ELSE 0)]
<1>1. row \in [State -> Int] /\ IsFiniteSet(State) /\ s \in State
  BY Constants DEF TypeOK, Matrix, Entry
<1>2. SumFunction(row) = One
  BY DEF ExactModel, RowSum
<1>3. \A t \in State \ reachable : row[t] = 0
  BY DEF ExactModel
<1> HIDE DEF row
<1>4. f \in [State -> Int] /\ \A t \in State : f[t] = c * row[t]
  BY <1>1, <1>3
<1> HIDE DEF f
<1>5. SumFunction(f) = c * SumFunction(row)
  BY <1>1, <1>4, SumScaledPoints
<1> QED
  BY <1>2, <1>5 DEF f, row

-----------------------------------------------------------------------------
(* The number the loop holds for a state is the probability of the paths   *)
(* of i steps that have reached phi2 through phi1, and scale that of all   *)
(* paths of i steps.                                                       *)
Meaning(s, v, sc, n) ==
    /\ v[s] = PathSum(UntilPaths(s, n), n)
    /\ sc = PathSum(Paths(s, n), n)

PathMeaning ==
    pc = "loop" /\ ExactModel => \A s \in reachable : Meaning(s, resAdd, scale, i)

LEMMA PathSumInt ==
  ASSUME TypeOK, NEW s \in reachable, NEW n \in Nat, NEW X \in SUBSET Paths(s, n)
  PROVE  /\ IsFiniteSet(X)
         /\ [path \in X |-> Weight(path, n)] \in [X -> Int]
         /\ PathSum(X, n) \in Int
<1>1. IsFiniteSet(X)
  BY PathsFinite, FS_Subset
<1>2. \A path \in X : path \in [0 .. n -> reachable]
  BY DEF Paths
<1>3. [path \in X |-> Weight(path, n)] \in [X -> Int]
  BY <1>2, WeightInt
<1> QED
  BY <1>1, <1>3, SumInt DEF PathSum

LEMMA NoPath == ASSUME NEW n PROVE PathSum({}, n) = 0
<1>1. [path \in {} |-> Weight(path, n)] = [path \in {} |-> 0]
  OBVIOUS
<1> QED
  BY <1>1, SumZero, FS_EmptySet DEF PathSum

(* The one path of no steps is certain.                                    *)
LEMMA StandStill ==
  ASSUME TypeOK, NEW s \in reachable
  PROVE  PathSum(Paths(s, 0), 0) = 1
<1> DEFINE here == [j \in 0 .. 0 |-> s]
           f == [path \in Paths(s, 0) |-> Weight(path, 0)]
<1>1. here \in Paths(s, 0) /\ \A path \in Paths(s, 0) : path = here
  <2>1. 0 .. 0 = {0}
    OBVIOUS
  <2> QED
    BY <2>1 DEF Paths
<1> HIDE DEF here
<1>2. f = Spike(Paths(s, 0), here, 1)
  <2>1. \A path \in Paths(s, 0) : f[path] = 1
    BY WeightNone
  <2> QED
    BY <1>1, <2>1 DEF Spike
<1>3. IsFiniteSet(Paths(s, 0))
  BY PathsFinite
<1>4. SumFunction(Spike(Paths(s, 0), here, 1)) = 1
  BY <1>1, <1>3, SumSpike
<1> HIDE DEF f
<1> QED
  BY <1>2, <1>4 DEF PathSum, f

(* No step changes the model, so none changes what paths weigh.            *)
LEMMA WeightKept ==
  ASSUME UNCHANGED transitions
  PROVE  \A path, n : Weight(path, n)' = Weight(path, n)
  BY DEF Weight, ProductFunction, FoldFunction, FoldFunctionOnSet, MapThenFoldSet

LEMMA SetsKept ==
  ASSUME UNCHANGED model
  PROVE  /\ \A s, n : Paths(s, n)' = Paths(s, n)
         /\ \A s, n : UntilPaths(s, n)' = UntilPaths(s, n)
         /\ ExactModel' <=> ExactModel
         /\ reachable' = reachable
  BY DEF model, Paths, UntilPaths, phi1, phi2, StateFormula, ExactModel, RowSum

LEMMA PathSumKept ==
  ASSUME UNCHANGED model
  PROVE  \A set, n : PathSum(set, n)' = PathSum(set, n)
  BY WeightKept DEF PathSum, model

LEMMA MeaningKept ==
  ASSUME UNCHANGED model, NEW s, Meaning(s, resAdd', scale', i')
  PROVE  Meaning(s, resAdd, scale, i)'
  BY SetsKept, PathSumKept DEF Meaning

(* Before the first pass: s_yes as an indicator.                           *)
LEMMA MeaningAtFirst ==
  ASSUME TypeOK, NEW s \in reachable
  PROVE  Meaning(s, Indicator(phi2, 1), 1, 0)
<1>1. PathSum(Paths(s, 0), 0) = 1
  BY StandStill
<1>2. Indicator(phi2, 1)[s] = IF s \in phi2 THEN 1 ELSE 0
  BY DEF Indicator, TypeOK
<1>3. UntilPaths(s, 0) = IF s \in phi2 THEN Paths(s, 0) ELSE {}
  <2>1. 0 .. 0 = {0} /\ 0 .. 0 - 1 = {}
    OBVIOUS
  <2> QED
    BY <2>1 DEF UntilPaths, Paths
<1>4. PathSum({}, 0) = 0
  BY NoPath
<1> QED
  BY <1>1, <1>2, <1>3, <1>4 DEF Meaning

(* A pass takes the paths one step further back.                           *)
LEMMA MeaningAfterPass ==
  ASSUME IInv, Iterate, ExactModel, NEW s \in reachable,
         \A t \in reachable : Meaning(t, resAdd, scale, i)
  PROVE  Meaning(s, resAdd', scale', i')
<1>0. /\ TypeOK /\ ZeroOutside
      /\ i \in Nat /\ i' = i + 1 /\ scale' = One * scale
      /\ scale \in Int /\ One \in Int /\ s \in State /\ resAdd \in Vector
  BY Constants DEF IInv, Iterate, TypeOK
<1>1. resAdd'[s] = IF s \in phi2 THEN One * scale
                   ELSE IF s \in sQuestion THEN MatMul(transitions, resAdd)[s]
                   ELSE 0
  BY <1>0, PassByKind
<1>2. PathSum(Paths(s, i + 1), i + 1) = One * scale
  <2> DEFINE Y == [t \in reachable |-> Paths(t, i)]
  <2>1. \A path \in Paths(s, i + 1) : Shift(path, i) \in Y[path[1]]
    <3> SUFFICES ASSUME NEW path \in Paths(s, i + 1) PROVE Shift(path, i) \in Y[path[1]]
      OBVIOUS
    <3>1. path \in [0 .. i + 1 -> reachable]
      BY DEF Paths
    <3> QED
      BY <1>0, <3>1, ShiftPath
  <2>2. \A t \in reachable : Y[t] \in SUBSET Paths(t, i) /\ PathSum(Y[t], i) = scale
    BY DEF Meaning
  <2> HIDE DEF Y
  <2>3. PathSum(Paths(s, i + 1), i + 1) =
          SumFunction([t \in State |->
            transitions[s][t] * (IF t \in reachable THEN PathSum(Y[t], i) ELSE 0)])
    BY <1>0, <2>1, <2>2, SplitFirst
  <2>4. [t \in State |-> transitions[s][t] * (IF t \in reachable THEN PathSum(Y[t], i) ELSE 0)]
          = [t \in State |-> transitions[s][t] * (IF t \in reachable THEN scale ELSE 0)]
    BY <2>2
  <2>5. SumFunction([t \in State |-> transitions[s][t] * (IF t \in reachable THEN scale ELSE 0)])
          = scale * One
    BY <1>0, CertainStep
  <2> QED
    BY <1>0, <2>3, <2>4, <2>5
<1>3. resAdd'[s] = PathSum(UntilPaths(s, i + 1), i + 1)
  <2>1. CASE s \in phi2
    <3>1. UntilPaths(s, i + 1) = Paths(s, i + 1)
      BY <1>0, <2>1, UntilFirst DEF UntilPaths
    <3> QED
      BY <1>1, <1>2, <2>1, <3>1
  <2>2. CASE s \notin phi2 /\ s \notin sQuestion
    <3>1. UntilPaths(s, i + 1) = {}
      BY <1>0, <2>2, UntilFirst DEF UntilPaths
    <3> QED
      BY <1>1, <2>2, <3>1, NoPath
  <2>3. CASE s \notin phi2 /\ s \in sQuestion
    <3> DEFINE Y == [t \in reachable |-> UntilPaths(t, i)]
               X == UntilPaths(s, i + 1)
    <3>1. \A path \in Paths(s, i + 1) : path \in X <=> Shift(path, i) \in Y[path[1]]
      <4> SUFFICES ASSUME NEW path \in Paths(s, i + 1)
                   PROVE  path \in X <=> Shift(path, i) \in Y[path[1]]
        OBVIOUS
      <4>1. path \in [0 .. i + 1 -> reachable]
        BY DEF Paths
      <4>2. path[1] \in reachable
        BY <1>0, <4>1, ShiftPath
      <4> QED
        BY <1>0, <2>3, <4>2, UntilFirst
    <3>2. \A t \in reachable : Y[t] \in SUBSET Paths(t, i) /\ PathSum(Y[t], i) = resAdd[t]
      BY DEF Meaning, UntilPaths
    <3>3. X \in SUBSET Paths(s, i + 1)
      BY DEF UntilPaths
    <3> HIDE DEF X, Y
    <3>4. PathSum(X, i + 1) =
            SumFunction([t \in State |->
              transitions[s][t] * (IF t \in reachable THEN PathSum(Y[t], i) ELSE 0)])
      BY <1>0, <3>1, <3>2, <3>3, SplitFirst
    <3>5. [t \in State |-> transitions[s][t] * (IF t \in reachable THEN PathSum(Y[t], i) ELSE 0)]
            = [t \in State |-> transitions[s][t] * resAdd[t]]
      BY <1>0, <3>2 DEF ZeroOutside
    <3>6. resAdd'[s] = SumFunction([t \in State |-> transitions[s][t] * resAdd[t]])
      BY <1>0, <1>1, <2>3 DEF MatMul
    <3> QED
      BY <3>4, <3>5, <3>6 DEF X
  <2> QED
    BY <2>1, <2>2, <2>3
<1> QED
  BY <1>0, <1>2, <1>3 DEF Meaning

Satisfying(s) == {path \in Paths(s, Horizon) : Holds(path)}

AnswerMeaning(s, v) == v[s] = PathSum(Satisfying(s), Horizon)

LEMMA AnswerKept ==
  ASSUME UNCHANGED model, NEW s, AnswerMeaning(s, answer')
  PROVE  AnswerMeaning(s, answer)'
<1>1. Horizon' = Horizon /\ \A path : Holds(path)' <=> Holds(path)
  BY DEF model, Horizon, Holds
<1>2. Satisfying(s)' = Satisfying(s)
  BY <1>1, SetsKept DEF Satisfying
<1> QED
  BY <1>1, <1>2, PathSumKept DEF AnswerMeaning

(* A next looks at the right operand after one step.                       *)
LEMMA AnswerOfNext ==
  ASSUME IInv, CheckNext, ExactModel, NEW s \in reachable
  PROVE  AnswerMeaning(s, answer')
<1> DEFINE Y == [t \in reachable |-> IF t \in right THEN Paths(t, 0) ELSE {}]
           X == Satisfying(s)
           v == Indicator(phi2, 1)
<1>0. /\ TypeOK /\ op = "next" /\ Horizon = 1 /\ s \in State
      /\ answer' = MatMul(transitions, v)
      /\ phi2 = reachable \intersect right
  BY DEF IInv, CheckNext, Horizon, TypeOK, phi2, StateFormula
<1>1. X = {path \in Paths(s, 1) : path[1] \in right}
  BY <1>0 DEF Satisfying, Holds
<1>2. \A path \in Paths(s, 0 + 1) : path \in X <=> Shift(path, 0) \in Y[path[1]]
  <2> SUFFICES ASSUME NEW path \in Paths(s, 1)
               PROVE  path \in X <=> Shift(path, 0) \in Y[path[1]]
    OBVIOUS
  <2>1. path \in [0 .. 0 + 1 -> reachable]
    BY DEF Paths
  <2>2. path[1] \in reachable /\ Shift(path, 0) \in Paths(path[1], 0)
    BY <2>1, ShiftPath
  <2> HIDE DEF X
  <2> QED
    BY <1>1, <2>2
<1>3. \A t \in reachable : Y[t] \in SUBSET Paths(t, 0)
  OBVIOUS
<1>4. \A t \in reachable : PathSum(Y[t], 0) = v[t]
  <2>1. \A t \in reachable : PathSum(Paths(t, 0), 0) = 1 /\ PathSum({}, 0) = 0
    BY <1>0, StandStill, NoPath
  <2>2. \A t \in reachable : v[t] = IF t \in right THEN 1 ELSE 0
    BY <1>0 DEF Indicator, TypeOK
  <2> HIDE DEF v
  <2> QED
    BY <2>1, <2>2
<1>5. \A t \in State \ reachable : v[t] = 0
  BY <1>0 DEF Indicator
<1>6. X \in SUBSET Paths(s, 0 + 1)
  BY <1>1
<1> HIDE DEF X, Y, v
<1>7. PathSum(X, 0 + 1) =
        SumFunction([t \in State |->
          transitions[s][t] * (IF t \in reachable THEN PathSum(Y[t], 0) ELSE 0)])
  BY <1>0, <1>2, <1>3, <1>6, SplitFirst
<1>8. [t \in State |-> transitions[s][t] * (IF t \in reachable THEN PathSum(Y[t], 0) ELSE 0)]
        = [t \in State |-> transitions[s][t] * v[t]]
  BY <1>4, <1>5
<1>9. answer'[s] = SumFunction([t \in State |-> transitions[s][t] * v[t]])
  BY <1>0 DEF MatMul
<1> QED
  BY <1>0, <1>7, <1>8, <1>9 DEF AnswerMeaning, X

(* An until returns what the loop holds, a release what is left of all     *)
(* paths.                                                                  *)
LEMMA AnswerOfLoop ==
  ASSUME IInv, Return, ExactModel, NEW s \in reachable, Meaning(s, resAdd, scale, i)
  PROVE  AnswerMeaning(s, answer')
<1>0. /\ TypeOK /\ op \in {"until", "release"} /\ Horizon = k /\ i = k /\ k \in Nat /\ s \in State
      /\ answer'[s] = IF op = "release" THEN scale - resAdd[s] ELSE resAdd[s]
  BY Constants DEF IInv, Return, Fresh, Horizon, TypeOK
<1>1. UntilPaths(s, k) \in SUBSET Paths(s, k)
  BY DEF UntilPaths
<1>2. ASSUME NEW path \in Paths(s, k), NEW m \in 0 .. k
      PROVE  path[m] \in reachable /\ \A j \in 0 .. m - 1 : path[j] \in reachable
  <2>1. path \in [0 .. k -> reachable] /\ \A j \in 0 .. m - 1 : j \in 0 .. k
    BY <1>0 DEF Paths
  <2> QED
    BY <2>1
<1>3. CASE op = "until"
  <2>1. phi1 = reachable \intersect left /\ phi2 = reachable \intersect right
    BY <1>3 DEF phi1, phi2, StateFormula
  <2>2. \A path \in Paths(s, k) : Holds(path) <=> path \in UntilPaths(s, k)
    BY <1>2, <1>3, <2>1 DEF Holds, UntilPaths
  <2>3. Satisfying(s) = UntilPaths(s, k)
    BY <1>0, <1>1, <2>2 DEF Satisfying
  <2> QED
    BY <1>0, <1>3, <2>3 DEF AnswerMeaning, Meaning
<1>4. CASE op = "release"
  <2>1. phi1 = reachable \ left /\ phi2 = reachable \ right
    BY <1>4 DEF phi1, phi2, StateFormula
  <2>2. \A path \in Paths(s, k) : Holds(path) <=> path \notin UntilPaths(s, k)
    BY <1>2, <1>4, <2>1 DEF Holds, UntilPaths
  <2>3. Satisfying(s) = Paths(s, k) \ UntilPaths(s, k)
    BY <1>0, <2>2 DEF Satisfying
  <2> DEFINE all == Paths(s, k)
             some == UntilPaths(s, k)
             f == [path \in all |-> Weight(path, k)]
  <2>4. IsFiniteSet(all) /\ f \in [all -> Int]
    BY <1>0, PathSumInt
  <2>5. /\ [path \in some |-> f[path]] = [path \in some |-> Weight(path, k)]
        /\ [path \in all \ some |-> f[path]] = [path \in all \ some |-> Weight(path, k)]
    BY <1>1
  <2>6. SumFunction(f) =
          SumFunction([path \in some |-> f[path]]) + SumFunction([path \in all \ some |-> f[path]])
    <3> HIDE DEF f, all, some
    <3>1. some \in SUBSET all
      BY <1>1 DEF some, all
    <3> QED
      BY <2>4, <3>1, SumSplit
  <2>7. PathSum(all, k) = PathSum(some, k) + PathSum(all \ some, k)
    BY <2>5, <2>6 DEF PathSum
  <2>8. PathSum(some, k) \in Int /\ PathSum(all \ some, k) \in Int
    BY <1>0, <1>1, PathSumInt
  <2>9. answer'[s] = PathSum(all, k) - PathSum(some, k)
    BY <1>0, <1>4 DEF Meaning
  <2> HIDE DEF all, some
  <2>10. answer'[s] = PathSum(all \ some, k)
    BY <2>7, <2>8, <2>9
  <2> QED
    BY <1>0, <2>3, <2>10 DEF AnswerMeaning, all, some
<1> QED
  BY <1>0, <1>3, <1>4

LEMMA NextPathMeaning ==
  IInv /\ PathMeaning /\ AnswerIsPathProbability /\ [Next]_vars
    => PathMeaning' /\ AnswerIsPathProbability'
<1> SUFFICES ASSUME IInv, PathMeaning, AnswerIsPathProbability, [Next]_vars
             PROVE  PathMeaning' /\ AnswerIsPathProbability'
  OBVIOUS
<1>0. /\ TypeOK /\ Fresh
      /\ UNCHANGED model
      /\ (ExactModel' <=> ExactModel) /\ reachable' = reachable
  <2>1. UNCHANGED model
    BY DEF Next, vars, CheckNext, SetUp, RestrictNext, RestrictCurr, Iterate, Return, model
  <2> QED
    BY <2>1, SetsKept DEF IInv
<1>1. ASSUME \A s \in reachable : ExactModel => Meaning(s, resAdd', scale', i')
      PROVE  PathMeaning'
  BY <1>0, <1>1, MeaningKept DEF PathMeaning
<1>2. ASSUME \A s \in reachable : ExactModel => AnswerMeaning(s, answer')
      PROVE  AnswerIsPathProbability'
  <2>1. \A s \in reachable' : ExactModel' => AnswerMeaning(s, answer)'
    BY <1>0, <1>2, AnswerKept
  <2> QED
    BY <2>1 DEF AnswerIsPathProbability, AnswerMeaning, Satisfying
<1>3. CASE CheckNext
  <2>1. PathMeaning'
    BY <1>3 DEF CheckNext, PathMeaning
  <2> QED
    BY <1>2, <1>3, <2>1, AnswerOfNext
<1>4. CASE SetUp \/ RestrictNext
  BY <1>4 DEF SetUp, RestrictNext, PathMeaning, AnswerIsPathProbability
<1>5. CASE RestrictCurr
  <2>1. resAdd' = Indicator(phi2, 1) /\ scale' = 1 /\ i' = 0 /\ pc' # "done"
    BY <1>0, <1>5 DEF RestrictCurr, Fresh
  <2>2. \A s \in reachable : Meaning(s, resAdd', scale', i')
    BY <1>0, <2>1, MeaningAtFirst
  <2> QED
    BY <1>1, <2>1, <2>2 DEF AnswerIsPathProbability
<1>6. CASE Iterate
  <2>1. \A s \in reachable : ExactModel => Meaning(s, resAdd', scale', i')
    BY <1>6, MeaningAfterPass DEF PathMeaning, Iterate
  <2>2. AnswerIsPathProbability'
    BY <1>6 DEF Iterate, AnswerIsPathProbability
  <2> QED
    BY <1>1, <2>1, <2>2
<1>7. CASE Return
  <2>1. \A s \in reachable : ExactModel => AnswerMeaning(s, answer')
    BY <1>7, AnswerOfLoop DEF PathMeaning, Return
  <2>2. PathMeaning'
    BY <1>7 DEF Return, PathMeaning
  <2> QED
    BY <1>2, <2>1, <2>2
<1>8. CASE UNCHANGED vars
  <2>1. UNCHANGED <<pc, resAdd, scale, i, answer>>
    BY <1>8 DEF vars
  <2>2. pc # "loop" => PathMeaning'
    BY <2>1 DEF PathMeaning
  <2>3. pc = "loop" => PathMeaning'
    BY <1>1, <2>1 DEF PathMeaning
  <2>4. pc # "done" => AnswerIsPathProbability'
    BY <2>1 DEF AnswerIsPathProbability
  <2>5. pc = "done" => AnswerIsPathProbability'
    BY <1>2, <2>1 DEF AnswerIsPathProbability, AnswerMeaning, Satisfying
  <2> QED
    BY <2>2, <2>3, <2>4, <2>5
<1> QED
  BY <1>3, <1>4, <1>5, <1>6, <1>7, <1>8 DEF Next

(* Whatever the model, the operands, the step bound and the choices of     *)
(* add_restrict, a check on a model none of whose probabilities is below   *)
(* the threshold returns for every reachable state the probability of the  *)
(* paths that satisfy the formula as it is written (sym_check.rs:46-135).  *)
THEOREM PathProbability == Spec => []AnswerIsPathProbability
<1>1. Init => PathMeaning /\ AnswerIsPathProbability
  BY DEF Init, PathMeaning, AnswerIsPathProbability
<1> QED
  BY <1>1, Invariant, NextPathMeaning, PTL DEF Spec
=============================================================================
