------------------------ MODULE UnboundedUntil_proof ------------------------
(***************************************************************************)
(* Theorems about UnboundedUntil, for every finite chain, every pair of    *)
(* operands, every threshold, every tolerance, every number of passes and  *)
(* every choice add_restrict may make.                                     *)
(***************************************************************************)
EXTENDS UnboundedUntil, SumTheorems, WellFoundedInduction

Orbit(s) == Graph!Orbit(s)

(* What the environment hands over and nothing changes.                    *)
ModelOK ==
    /\ reachable \in SUBSET State
    /\ transitions \in Matrix
    /\ SupportWellFormed(transitions, AddToBdd(transitions), reachable)
    /\ RowsWellFormed(transitions, reachable)

Edges == AddToBdd(transitions)

LEMMA Constants ==
    /\ IsFiniteSet(State) /\ One \in Nat /\ One > 0 /\ Eps \in Nat /\ Eps < One
    /\ Lcm \in Nat /\ Lcm > 0 /\ Tol \in Nat /\ Tol > 0 /\ MaxDen \in Nat
    /\ \A d \in 1 .. One : \E q \in 1 .. Lcm : q * d = Lcm
  BY DtmcAssumption, JacobiAssumption DEF DtmcAssumption, JacobiAssumption

LEMMA Sets == ModelOK => phi1 \subseteq reachable /\ phi2 \subseteq reachable /\ reachable \subseteq State
  BY DEF ModelOK, phi1, phi2, StateFormula

-----------------------------------------------------------------------------
(* Facts about the runs of the chain.                                      *)

LEMMA OrbitSelf ==
  ASSUME NEW s \in reachable
  PROVE  s \in Orbit(s) /\ Orbit(s) \subseteq reachable
  BY DEF Orbit, Graph!Orbit

LEMMA OrbitWithin ==
  ASSUME NEW s, NEW set \in SUBSET reachable, s \in set, Graph!FollowClosed(set)
  PROVE  Orbit(s) \subseteq set
  BY DEF Orbit, Graph!Orbit

LEMMA OrbitClosed ==
  ASSUME NEW s \in reachable
  PROVE  Graph!FollowClosed(Orbit(s))
<1> SUFFICES ASSUME NEW t \in Orbit(s), NEW u \in Graph!Follow(t)
             PROVE  u \in Orbit(s)
  BY DEF Graph!FollowClosed
<1>1. t \in reachable
  BY OrbitSelf
<1>2. u \in reachable
  BY <1>1 DEF Graph!Follow
<1>3. ASSUME NEW set \in SUBSET reachable, s \in set, Graph!FollowClosed(set)
      PROVE  u \in set
  <2>1. t \in set
    BY <1>3, OrbitWithin
  <2> QED
    BY <1>3, <2>1 DEF Graph!FollowClosed
<1> QED
  BY <1>2, <1>3 DEF Orbit, Graph!Orbit

LEMMA OrbitMonotone ==
  ASSUME NEW s \in reachable, NEW t \in Orbit(s)
  PROVE  t \in reachable /\ Orbit(t) \subseteq Orbit(s)
  BY OrbitSelf, OrbitClosed, OrbitWithin

(* A state that leads nowhere else is its own orbit.                       *)
LEMMA OrbitOfTrap ==
  ASSUME NEW s \in reachable, Graph!Follow(s) \subseteq {s}
  PROVE  Orbit(s) = {s}
<1>1. Graph!FollowClosed({s})
  BY DEF Graph!FollowClosed
<1> QED
  BY <1>1, OrbitSelf, OrbitWithin

(* Every state leads into a bottom component: of the states on its runs    *)
(* take one with the fewest states on its own.                             *)
LEMMA BottomExists ==
  ASSUME ModelOK, NEW n \in reachable
  PROVE  \E t \in Orbit(n) : Graph!Bottom(t)
<1> DEFINE sizes == {Cardinality(Orbit(t)) : t \in Orbit(n)}
<1>1. \A t \in Orbit(n) : IsFiniteSet(Orbit(t)) /\ Cardinality(Orbit(t)) \in Nat
  <2> SUFFICES ASSUME NEW t \in Orbit(n)
               PROVE  IsFiniteSet(Orbit(t)) /\ Cardinality(Orbit(t)) \in Nat
    OBVIOUS
  <2>1. Orbit(t) \subseteq State
    BY OrbitMonotone, OrbitSelf DEF ModelOK
  <2> QED
    BY <2>1, Constants, FS_Subset, FS_CardinalityType
<1>2. sizes \subseteq Nat /\ sizes # {}
  BY <1>1, OrbitSelf
<1>3. PICK m \in sizes : \A k \in sizes : ~ (<<k, m>> \in OpToRel(<, Nat))
  BY <1>2, NatLessThanWellFounded, WFMin
<1>4. \A k \in sizes : ~ (k < m)
  BY <1>2, <1>3 DEF OpToRel
<1>5. PICK t \in Orbit(n) : Cardinality(Orbit(t)) = m
  BY <1>3
<1>6. ASSUME NEW u \in Orbit(t)
      PROVE  t \in Orbit(u)
  <2>1. t \in reachable /\ u \in Orbit(n) /\ Orbit(u) \subseteq Orbit(t)
    BY OrbitMonotone
  <2>2. Cardinality(Orbit(u)) \in sizes
    BY <2>1
  <2>3. ~ (Cardinality(Orbit(u)) < Cardinality(Orbit(t)))
    BY <1>4, <1>5, <2>2
  <2>4. Orbit(u) = Orbit(t)
    BY <1>1, <2>1, <2>3, FS_Subset
  <2> QED
    BY <2>1, <2>4, OrbitSelf
<1> QED
  BY <1>6 DEF Graph!Bottom, Orbit

-----------------------------------------------------------------------------
(* The states left open.                                                   *)
Open(s) == s \in reachable /\ ~ Graph!Never(s) /\ ~ Graph!AlmostSurely(s)

(* A state all of whose runs stay in it is not open.                       *)
LEMMA TrapNotOpen ==
  ASSUME NEW s \in reachable, Orbit(s) = {s}
  PROVE  ~ Open(s)
<1>1. CASE s \in phi2
  BY <1>1 DEF Open, Graph!AlmostSurely, Orbit
<1>2. CASE s \notin phi2
  BY <1>2 DEF Open, Graph!Never, Orbit
<1> QED
  BY <1>1, <1>2

(* So an open state satisfies phi1 and not phi2, and has an edge that      *)
(* leaves it: its row is a distribution and 1 - P(s, s) is above zero.     *)
LEMMA OpenRow ==
  ASSUME ModelOK, NEW s, Open(s)
  PROVE  /\ s \in State /\ s \in phi1 /\ s \notin phi2
         /\ transitions[s] \in [State -> Entry]
         /\ SumFunction(transitions[s]) = One
         /\ \A t \in State : t # s => transitions[s][s] + transitions[s][t] <= One
         /\ transitions[s][s] < One
<1>0. s \in reachable /\ s \in State /\ transitions[s] \in [State -> Entry]
  BY DEF Open, ModelOK, Matrix
<1>1. ~ (Graph!Follow(s) \subseteq {s})
  BY <1>0, OrbitOfTrap, TrapNotOpen
<1>2. s \in phi1 /\ s \notin phi2
  BY <1>1 DEF Graph!Follow
<1>3. PICK u \in reachable : u # s /\ <<s, u>> \in Edges
  BY <1>1, <1>2 DEF Graph!Follow, Edges
<1>4. u \in State /\ transitions[s][u] > Eps
  BY <1>0, <1>3 DEF Edges, AddToBdd
<1>5. ~ IsLoopedDeadEnd(transitions[s], s)
  <2> SUFFICES ASSUME IsLoopedDeadEnd(transitions[s], s) PROVE FALSE
    OBVIOUS
  <2> DEFINE rest == [transitions[s] EXCEPT ![s] = @ - One]
  <2>1. rest[u] = transitions[s][u]
    BY <1>0, <1>3, <1>4
  <2>2. rest[u] <= Eps
    BY <1>4 DEF IsLoopedDeadEnd, IsResidue
  <2>3. transitions[s][u] \in Int /\ Eps \in Int
    BY <1>0, <1>4, Constants DEF Entry
  <2> QED
    BY <1>4, <2>1, <2>2, <2>3
<1>6. SumFunction(transitions[s]) = One
  BY <1>0, <1>5 DEF ModelOK, RowsWellFormed, IsDistribution
<1>7. transitions[s] \in [State -> Int] /\ \A t \in State : transitions[s][t] >= 0
  BY <1>0, Constants DEF Entry
<1>8. ASSUME NEW t \in State, t # s
      PROVE  transitions[s][s] + transitions[s][t] <= One
  <2> DEFINE rest == [x \in State |-> IF x = s THEN 0 ELSE transitions[s][x]]
  <2>1. SumFunction(rest) = One - transitions[s][s]
    BY <1>0, <1>6, <1>7, SumWithout, Constants
  <2>2. rest \in [State -> Int] /\ (\A x \in State : rest[x] >= 0) /\ rest[t] = transitions[s][t]
    BY <1>7, <1>8
  <2> HIDE DEF rest
  <2>3. SumFunction(rest) >= rest[t]
    BY <2>2, SumNonnegative, Constants
  <2>4. transitions[s][s] \in Int /\ transitions[s][t] \in Int /\ One \in Int
    BY <1>0, <1>7, <1>8, Constants
  <2> QED
    BY <2>1, <2>2, <2>3, <2>4
<1>9. transitions[s][s] < One
  BY <1>0, <1>3, <1>4, <1>7, <1>8, Constants
<1> QED
  BY <1>0, <1>2, <1>6, <1>8, <1>9

-----------------------------------------------------------------------------
(* The system that is solved.                                              *)

(* What prob0 and prob1 left.                                              *)
Verdicts ==
    /\ sNo = {s \in reachable : Graph!Never(s)}
    /\ sYes = {s \in reachable : ~ Graph!Never(s) /\ Graph!AlmostSurely(s)}

LEMMA QuestionIsOpen ==
  ASSUME ModelOK, Verdicts
  PROVE  /\ \A s : s \in sQuestion <=> Open(s)
         /\ sNo \subseteq reachable /\ sYes \subseteq reachable /\ sNo \intersect sYes = {}
  BY DEF Verdicts, sQuestion, Open

LEMMA ExactDivision ==
  ASSUME NEW q \in Nat, NEW d \in Nat, d > 0
  PROVE  (q * d) \div d = q
  OBVIOUS

(* The factor that takes a row of the system to a row of the iteration.    *)
Factor(s) == Lcm \div Diagonal(s)

LEMMA Factors ==
  ASSUME ModelOK, Verdicts, NEW s \in State
  PROVE  /\ Diagonal(s) \in 1 .. One
         /\ Factor(s) \in 1 .. Lcm
         /\ Diagonal(s) * Factor(s) = Lcm
<1>1. Diagonal(s) \in 1 .. One
  <2>1. CASE s \in sQuestion
    <3>1. Open(s)
      BY <2>1, QuestionIsOpen
    <3>2. transitions[s][s] \in Nat /\ transitions[s][s] < One
      BY <3>1, OpenRow, Constants DEF Entry
    <3> QED
      BY <2>1, <3>2, Constants DEF Diagonal, tQuestion, MaskRows
  <2>2. CASE s \notin sQuestion
    BY <2>2, Constants DEF Diagonal, tQuestion, MaskRows, ZeroRow
  <2> QED
    BY <2>1, <2>2
<1> HIDE DEF Diagonal
<1>2. PICK q \in 1 .. Lcm : q * Diagonal(s) = Lcm
  BY <1>1, Constants
<1>3. Factor(s) = q
  <2>1. (q * Diagonal(s)) \div Diagonal(s) = q
    BY <1>1, <1>2, ExactDivision, Constants
  <2> QED
    BY <1>2, <2>1 DEF Factor
<1> QED
  BY <1>1, <1>2, <1>3, Constants

(* The rows of the matrix that is iterated, and the entries of them all.   *)
LEMMA OffDiagonalRows ==
  ASSUME ModelOK, Verdicts
  PROVE  /\ OffDiagonal \in [State -> [State -> 0 .. Lcm]]
         /\ \A s, t \in State :
              OffDiagonal[s][t] = IF s \in sQuestion /\ t # s
                                  THEN transitions[s][t] * Factor(s) ELSE 0
<1>1. ASSUME NEW s \in State, NEW t \in State
      PROVE  /\ OffDiagonal[s][t] = IF s \in sQuestion /\ t # s
                                    THEN transitions[s][t] * Factor(s) ELSE 0
             /\ OffDiagonal[s][t] \in 0 .. Lcm
  <2>0. /\ OffDiagonal[s][t] = IF s = t THEN 0 ELSE tQuestion[s][t] * Factor(s)
        /\ Factor(s) \in 1 .. Lcm /\ Diagonal(s) \in 1 .. One
        /\ Diagonal(s) * Factor(s) = Lcm
    BY Factors DEF OffDiagonal, Factor
  <2>1. CASE s \notin sQuestion
    <3>1. tQuestion[s][t] = 0
      BY <2>1 DEF tQuestion, MaskRows, ZeroRow
    <3> QED
      BY <2>0, <2>1, <3>1, Constants
  <2>2. CASE s \in sQuestion /\ t = s
    BY <2>0, <2>2, Constants
  <2>3. CASE s \in sQuestion /\ t # s
    <3>1. tQuestion[s][t] = transitions[s][t] /\ Diagonal(s) = One - transitions[s][s]
      BY <2>3 DEF tQuestion, MaskRows, Diagonal
    <3>2. /\ transitions[s][t] \in Nat /\ transitions[s][s] \in Nat
          /\ transitions[s][s] + transitions[s][t] <= One
      BY <2>3, QuestionIsOpen, OpenRow, Constants DEF Entry
    <3>3. transitions[s][t] <= Diagonal(s)
      BY <3>1, <3>2, Constants
    <3>4. \A a, b, c \in Nat : a <= b => a * c <= b * c /\ a * c \in Nat
      OBVIOUS
    <3>5. transitions[s][t] * Factor(s) <= Lcm /\ transitions[s][t] * Factor(s) \in Nat
      BY <2>0, <3>2, <3>3, <3>4, Constants
    <3> QED
      BY <2>0, <2>3, <3>1, <3>5, Constants
  <2> QED
    BY <2>1, <2>2, <2>3
<1>2. OffDiagonal = [s \in State |-> [t \in State |-> OffDiagonal[s][t]]]
  BY DEF OffDiagonal
<1> QED
  BY <1>1, <1>2

(* The product of an open row and a vector, the self-loop left out.        *)
Leaving(s, v) == SumFunction([t \in State |-> IF t = s THEN 0 ELSE transitions[s][t] * v[t]])

LEMMA LeavingIsRest ==
  ASSUME NEW s \in State, transitions[s] \in [State -> Entry], NEW v \in Vector
  PROVE  /\ Leaving(s, v) \in Int
         /\ MatMul(transitions, v)[s] \in Int
         /\ Leaving(s, v) = MatMul(transitions, v)[s] - transitions[s][s] * v[s]
<1> DEFINE f == [t \in State |-> transitions[s][t] * v[t]]
           rest == [t \in State |-> IF t = s THEN 0 ELSE f[t]]
<1>1. f \in [State -> Int]
  BY Constants DEF Entry, Vector
<1>2. Leaving(s, v) = SumFunction(rest)
  <2>1. rest = [t \in State |-> IF t = s THEN 0 ELSE transitions[s][t] * v[t]]
    OBVIOUS
  <2> QED
    BY <2>1 DEF Leaving
<1>3. MatMul(transitions, v)[s] = SumFunction(f) /\ f[s] = transitions[s][s] * v[s]
  BY DEF MatMul
<1>4. rest \in [State -> Int]
  BY <1>1
<1>5. SumFunction(rest) = SumFunction(f) - f[s]
  <2> HIDE DEF f
  <2> QED
    BY <1>1, SumWithout, Constants
<1> HIDE DEF f, rest
<1>6. SumFunction(f) \in Int /\ SumFunction(rest) \in Int
  BY <1>1, <1>4, SumInt, Constants
<1> QED
  BY <1>2, <1>3, <1>5, <1>6

-----------------------------------------------------------------------------
(* Solutions of the equations of an until.                                 *)
Solution(q, den) ==
    /\ q \in [State -> 0 .. den]
    /\ \A s \in reachable :
          /\ s \in phi2 => q[s] = den
          /\ s \notin phi1 /\ s \notin phi2 => q[s] = 0
          /\ s \in phi1 /\ s \notin phi2 => One * q[s] = MatMul(transitions, q)[s]

(* An edge of a model with no entry below the threshold is an entry that   *)
(* is not zero, and it stays among the reachable states.                   *)
LEMMA ExactEdges ==
  ASSUME ModelOK, ExactModel, NEW s \in reachable, NEW t \in State
  PROVE  /\ s \in State
         /\ transitions[s] \in [State -> Entry] /\ transitions[s][t] \in Nat
         /\ SumFunction(transitions[s]) = One
         /\ transitions[s][t] # 0 => <<s, t>> \in Edges /\ t \in reachable
         /\ <<s, t>> \in Edges => transitions[s][t] > 0
<1>1. s \in State /\ transitions[s] \in [State -> Entry]
  BY DEF ModelOK, Matrix
<1>2. transitions[s][t] \in Nat
  BY <1>1, Constants DEF Entry
<1>3. SumFunction(transitions[s]) = One
  BY DEF ExactModel, RowSum
<1>4. transitions[s][t] # 0 => transitions[s][t] > Eps
  BY DEF ExactModel
<1>5. transitions[s][t] > Eps <=> <<s, t>> \in Edges
  BY <1>1 DEF Edges, AddToBdd
<1>6. Edges \subseteq reachable \X reachable
  BY DEF ModelOK, SupportWellFormed, Edges
<1> QED
  BY <1>1, <1>2, <1>3, <1>4, <1>5, <1>6, Constants

(* If the smallest value on the runs from a state is m, the successors of  *)
(* a state of value m have value m: it is their mean.                      *)
LEMMA MeanOfSmallest ==
  ASSUME ModelOK, ExactModel, NEW den \in Nat, NEW q, Solution(q, den),
         NEW t \in reachable, NEW m \in Nat, q[t] = m, t \in phi1, t \notin phi2,
         \A x \in Graph!Follow(t) : q[x] >= m,
         NEW u \in Graph!Follow(t)
  PROVE  q[u] = m
<1> DEFINE row == transitions[t]
           f == [x \in State |-> row[x] * q[x]]
           g == [x \in State |-> row[x] * (q[x] - m)]
           h == [x \in State |-> m * row[x]]
<1>1. /\ u \in reachable /\ u \in State /\ <<t, u>> \in Edges
  BY DEF Graph!Follow, Edges, ModelOK
<1>2. /\ \A x \in State : row[x] \in Nat /\ q[x] \in Int
      /\ row \in [State -> Int]
      /\ SumFunction(row) = One
  BY <1>1, ExactEdges, Constants DEF Solution, Entry
<1>3. f \in [State -> Int] /\ g \in [State -> Int] /\ h \in [State -> Int]
  BY <1>2
<1>4. \A x \in State : g[x] + h[x] = f[x]
  <2> SUFFICES ASSUME NEW x \in State PROVE row[x] * (q[x] - m) + m * row[x] = row[x] * q[x]
    OBVIOUS
  <2> QED
    BY <1>2
<1>5. SumFunction(f) = One * m
  <2>1. t \in State /\ One * m = MatMul(transitions, q)[t]
    BY DEF Solution, ModelOK
  <2> QED
    BY <2>1 DEF MatMul
<1>6. SumFunction(h) = m * One
  <2> HIDE DEF row
  <2> QED
    BY <1>2, SumScaled, Constants
<1>7. \A x \in State : g[x] >= 0
  <2> SUFFICES ASSUME NEW x \in State PROVE row[x] * (q[x] - m) >= 0
    OBVIOUS
  <2>1. row[x] # 0 => q[x] >= m
    BY <1>1, ExactEdges DEF Graph!Follow, Edges
  <2>2. \A a \in Nat, b \in Int : (a # 0 => b >= 0) => a * b >= 0
    OBVIOUS
  <2>3. row[x] \in Nat /\ q[x] - m \in Int /\ (row[x] # 0 => q[x] - m >= 0)
    BY <1>2, <2>1
  <2> HIDE DEF row
  <2> QED
    BY <2>2, <2>3
<1>8. SumFunction(f) = SumFunction(g) + SumFunction(h)
  <2>1. \A x \in State : f[x] = g[x] + h[x]
    BY <1>4
  <2>2. IsFiniteSet(State)
    BY Constants
  <2> HIDE DEF f, g, h
  <2> QED
    BY <1>3, <2>1, <2>2, SumPlusPoints, SMT
<1>9. SumFunction(g) >= g[u] /\ SumFunction(g) \in Int
  <2> HIDE DEF g
  <2> QED
    BY <1>1, <1>3, <1>7, SumNonnegative, SumInt, Constants
<1>10. SumFunction(g) = 0
  <2>1. One * m = m * One /\ m * One \in Int
    BY Constants
  <2> HIDE DEF f, g, h
  <2> QED
    BY <1>5, <1>6, <1>8, <1>9, <2>1
<1>11. row[u] > 0 /\ q[u] >= m /\ g[u] = row[u] * (q[u] - m)
  BY <1>1, ExactEdges
<1>12. \A a \in Nat, b \in Int : a > 0 /\ b >= 0 /\ a * b <= 0 => b = 0
  OBVIOUS
<1>13. row[u] \in Nat /\ q[u] - m \in Int /\ q[u] - m >= 0 /\ row[u] * (q[u] - m) <= 0
  BY <1>1, <1>2, <1>3, <1>9, <1>10, <1>11
<1>14. q[u] - m = 0
  BY <1>11, <1>12, <1>13
<1> QED
  BY <1>1, <1>2, <1>14

(* Where phi2 is met almost surely every solution is 1: the states of the  *)
(* smallest value on its runs hold a bottom component, which is in phi2.   *)
LEMMA CertainIsOne ==
  ASSUME ModelOK, ExactModel, NEW den \in Nat, NEW q, Solution(q, den),
         NEW s \in reachable, Graph!AlmostSurely(s)
  PROVE  q[s] = den
<1> DEFINE values == {q[t] : t \in Orbit(s)}
<1>0. \A t \in reachable : q[t] \in Nat /\ q[t] <= den
  BY DEF Solution, ModelOK
<1>1. s \in Orbit(s) /\ Orbit(s) \subseteq reachable /\ Graph!FollowClosed(Orbit(s))
  BY OrbitSelf, OrbitClosed
<1>2. values \subseteq Nat /\ values # {}
  BY <1>0, <1>1
<1>3. PICK m \in values : \A k \in values : ~ (<<k, m>> \in OpToRel(<, Nat))
  BY <1>2, NatLessThanWellFounded, WFMin
<1>4. m \in Nat /\ \A t \in Orbit(s) : q[t] >= m
  <2>1. m \in Nat /\ \A k \in values : ~ (k < m)
    <3> HIDE DEF values
    <3> QED
      BY <1>2, <1>3 DEF OpToRel
  <2>2. \A t \in Orbit(s) : q[t] \in Nat /\ ~ (q[t] < m)
    BY <1>0, <1>1, <2>1
  <2> QED
    BY <2>1, <2>2
<1>5. PICK u \in Orbit(s) : q[u] = m
  BY <1>3
<1> HIDE DEF values
<1> DEFINE smallest == {t \in Orbit(s) : q[t] = m}
<1>6. Graph!FollowClosed(smallest)
  <2> SUFFICES ASSUME NEW t \in smallest, NEW x \in Graph!Follow(t)
               PROVE  x \in smallest
    BY DEF Graph!FollowClosed
  <2>1. t \in reachable /\ Graph!Follow(t) \subseteq Orbit(s)
    BY <1>1 DEF Graph!FollowClosed
  <2>2. CASE t \in phi1 /\ t \notin phi2
    <3>1. q[x] = m
      BY <1>4, <2>1, <2>2, MeanOfSmallest
    <3> QED
      BY <2>1, <3>1
  <2>3. CASE ~ (t \in phi1 /\ t \notin phi2)
    BY <2>3 DEF Graph!Follow
  <2> QED
    BY <2>2, <2>3
<1>7. Orbit(u) \subseteq smallest
  BY <1>1, <1>5, <1>6, OrbitWithin
<1>8. PICK t \in Orbit(u) : Graph!Bottom(t)
  BY <1>1, <1>5, BottomExists
<1>9. t \in Orbit(s) /\ q[t] = m
  BY <1>7, <1>8
<1>10. t \in phi2
  BY <1>8, <1>9 DEF Graph!AlmostSurely, Orbit
<1>11. q[t] = den
  BY <1>1, <1>9, <1>10 DEF Solution
<1> QED
  BY <1>0, <1>1, <1>4, <1>9, <1>11

-----------------------------------------------------------------------------
(* One pass.                                                               *)

(* Where both indices are reachable, a_prime still is what the solver set  *)
(* up, and no unreachable valuation has a value.                           *)
CareSetKept == \A s, t \in reachable : aPrime[s][t] = OffDiagonal[s][t]

ZeroOutside == \A s \in State \ reachable : sol[s] = 0

LEMMA SweptRows ==
  ASSUME TypeOK, ModelOK, Verdicts, CareSetKept, ZeroOutside
  PROVE  /\ Swept \in Vector
         /\ \A s \in State : Swept[s] = IF s \in sYes THEN Lcm * scale
                                      ELSE IF s \in sQuestion THEN Factor(s) * Leaving(s, sol)
                                      ELSE 0
<1>0. /\ aPrime \in [State -> [State -> 0 .. Lcm]] /\ sol \in Vector /\ scale \in Nat
      /\ reachable \subseteq State /\ transitions \in Matrix
  BY DEF TypeOK, ModelOK
<1>1. ASSUME NEW s \in State
      PROVE  /\ MatMul(aPrime, sol)[s] \in Int
             /\ s \in reachable => MatMul(aPrime, sol)[s] =
                  IF s \in sQuestion THEN Factor(s) * Leaving(s, sol) ELSE 0
  <2> DEFINE f == [t \in State |-> aPrime[s][t] * sol[t]]
             g == [t \in State |-> IF t = s THEN 0 ELSE transitions[s][t] * sol[t]]
  <2>1. f \in [State -> Int]
    BY <1>0, Constants DEF Vector
  <2>2. MatMul(aPrime, sol)[s] = SumFunction(f)
    BY DEF MatMul
  <2>3. SumFunction(f) \in Int
    <3> HIDE DEF f
    <3> QED
      BY <2>1, SumInt, Constants
  <2>4. ASSUME s \in reachable, NEW t \in State
        PROVE  f[t] = IF s \in sQuestion /\ t # s
                      THEN (transitions[s][t] * Factor(s)) * sol[t] ELSE 0
    <3>1. /\ aPrime[s][t] \in Int /\ sol[t] \in Int
          /\ transitions[s][t] \in Int /\ Factor(s) \in Int
      BY <1>0, Constants, Factors DEF Vector, Matrix, Entry
    <3>2. CASE t \in reachable
      <4>1. aPrime[s][t] = IF s \in sQuestion /\ t # s THEN transitions[s][t] * Factor(s) ELSE 0
        BY <2>4, <3>2, OffDiagonalRows DEF CareSetKept
      <4> QED
        BY <3>1, <4>1
    <3>3. CASE t \notin reachable
      <4>1. sol[t] = 0
        BY <3>3 DEF ZeroOutside
      <4> QED
        BY <3>1, <4>1
    <3> QED
      BY <3>2, <3>3
  <2>5. CASE s \in reachable /\ s \in sQuestion
    <3>1. g \in [State -> Int] /\ Factor(s) \in Int
      BY <1>0, Constants, Factors DEF Vector, Matrix, Entry
    <3>2. ASSUME NEW t \in State PROVE f[t] = Factor(s) * g[t]
      <4>1. transitions[s][t] \in Int /\ sol[t] \in Int
        BY <1>0, Constants DEF Vector, Matrix, Entry
      <4>2. \A a, b, c \in Int : (a * b) * c = b * (a * c) /\ b * 0 = 0
        OBVIOUS
      <4> QED
        BY <2>4, <2>5, <3>1, <4>1, <4>2
    <3>3. f = [t \in State |-> Factor(s) * g[t]]
      BY <3>2
    <3>4. SumFunction(g) = Leaving(s, sol)
      BY DEF Leaving
    <3> HIDE DEF f, g
    <3>5. SumFunction(f) = Factor(s) * SumFunction(g)
      BY <3>1, <3>3, SumScaled, Constants
    <3> QED
      BY <2>2, <2>3, <2>5, <3>4, <3>5
  <2>6. CASE s \in reachable /\ s \notin sQuestion
    <3>1. f = [t \in State |-> 0]
      BY <2>4, <2>6
    <3>2. SumFunction(f) = 0
      BY <3>1, SumZero, Constants
    <3> HIDE DEF f
    <3> QED
      BY <2>2, <2>3, <2>6, <3>2
  <2> QED
    BY <2>2, <2>3, <2>5, <2>6
<1>2. Lcm * scale \in Int
  BY <1>0, Constants
<1>3. ASSUME NEW s \in State
      PROVE  Swept[s] = (IF s \in reachable THEN MatMul(aPrime, sol)[s] ELSE 0)
                          + (IF s \in sYes THEN Lcm * scale ELSE 0)
  BY DEF Swept, VecPlus, VecMask, Indicator
<1>4. \A s : s \in sYes => s \in reachable /\ s \notin sQuestion
  BY QuestionIsOpen DEF sQuestion
<1>5. \A s : s \in sQuestion => s \in reachable
  BY DEF sQuestion
<1>6. ASSUME NEW s \in State
      PROVE  /\ Swept[s] = IF s \in sYes THEN Lcm * scale
                           ELSE IF s \in sQuestion THEN Factor(s) * Leaving(s, sol)
                           ELSE 0
             /\ Swept[s] \in Int
  BY <1>1, <1>2, <1>3, <1>4, <1>5
<1>7. Swept = [s \in State |-> Swept[s]]
  BY DEF Swept, VecPlus
<1> QED
  BY <1>6, <1>7 DEF Vector

(* Three ways to put the factors of a product into order.                  *)
LEMMA Reorder ==
  ASSUME NEW a \in Int, NEW b \in Int, NEW c \in Int
  PROVE  /\ (a * b) * c = a * (b * c)
         /\ (a * b) * c = (a * c) * b
         /\ a * (b * c) = b * (a * c)
         /\ a * b = b * a /\ a * b \in Int /\ a * (b * c) \in Int
  OBVIOUS

LEMMA ProductBounds ==
  ASSUME NEW a \in Nat, NEW b \in Int, NEW c \in Int, b <= c
  PROVE  a * b <= a * c
  OBVIOUS

(* A pass keeps the vector below every solution.                           *)
LEMMA PassBelow ==
  ASSUME TypeOK, ModelOK, Verdicts, CareSetKept, ZeroOutside, ExactModel,
         NEW den \in Nat, NEW q, Solution(q, den),
         \A t \in reachable : sol[t] * den <= q[t] * scale,
         NEW s \in reachable
  PROVE  Swept[s] * den <= q[s] * (Lcm * scale)
<1>0. /\ s \in State /\ sol \in Vector /\ q \in Vector /\ q[s] \in Nat /\ scale \in Nat
      /\ transitions[s] \in [State -> Entry]
      /\ Lcm \in Nat /\ Lcm * scale \in Nat
  BY Constants DEF TypeOK, ModelOK, Solution, Vector, Matrix
<1>1. Swept[s] = IF s \in sYes THEN Lcm * scale
                 ELSE IF s \in sQuestion THEN Factor(s) * Leaving(s, sol) ELSE 0
  BY <1>0, SweptRows
<1>2. CASE s \in sYes
  <2>1. q[s] = den
    BY <1>2, CertainIsOne DEF Verdicts
  <2>2. (Lcm * scale) * den = den * (Lcm * scale)
    BY <1>0, Reorder
  <2>3. den * (Lcm * scale) \in Int
    BY <1>0
  <2> QED
    BY <1>1, <1>2, <2>1, <2>2, <2>3
<1>3. CASE s \notin sYes /\ s \notin sQuestion
  <2>1. q[s] * (Lcm * scale) \in Nat
    BY <1>0
  <2>2. Swept[s] * den = 0
    BY <1>1, <1>3
  <2> QED
    BY <2>1, <2>2
<1>4. CASE s \notin sYes /\ s \in sQuestion
  <2> DEFINE f == [t \in State |-> IF t = s THEN 0 ELSE transitions[s][t] * sol[t]]
             g == [t \in State |-> IF t = s THEN 0 ELSE transitions[s][t] * q[t]]
             df == [t \in State |-> den * f[t]]
             sg == [t \in State |-> scale * g[t]]
  <2>1. f \in [State -> Int] /\ g \in [State -> Int]
    BY <1>0, Constants DEF Entry, Vector
  <2>2. df \in [State -> Int] /\ sg \in [State -> Int]
    BY <1>0, <2>1
  <2>3. ASSUME NEW t \in State PROVE df[t] <= sg[t]
    <3>1. transitions[s][t] \in Nat /\ sol[t] \in Int /\ q[t] \in Int
      BY <1>0, Constants DEF Entry, Vector
    <3>2. CASE t = s
      BY <1>0, <3>2
    <3>3. CASE t # s /\ transitions[s][t] = 0
      BY <1>0, <3>1, <3>3
    <3>4. CASE t # s /\ transitions[s][t] # 0
      <4>1. sol[t] * den <= q[t] * scale
        BY <3>4, ExactEdges
      <4>2. transitions[s][t] * (sol[t] * den) <= transitions[s][t] * (q[t] * scale)
        <5>1. sol[t] * den \in Int /\ q[t] * scale \in Int
          BY <1>0, <3>1
        <5> QED
          BY <3>1, <4>1, <5>1, ProductBounds
      <4>3. /\ den * (transitions[s][t] * sol[t]) = transitions[s][t] * (sol[t] * den)
            /\ scale * (transitions[s][t] * q[t]) = transitions[s][t] * (q[t] * scale)
        BY <1>0, <3>1, Reorder
      <4> QED
        BY <3>4, <4>2, <4>3
    <3> QED
      BY <3>2, <3>3, <3>4
  <2>4. SumFunction(f) = Leaving(s, sol) /\ SumFunction(g) = Leaving(s, q)
    BY DEF Leaving
  <2> HIDE DEF f, g
  <2>5. SumFunction(df) = den * SumFunction(f) /\ SumFunction(sg) = scale * SumFunction(g)
    BY <1>0, <2>1, SumScaled, Constants
  <2> HIDE DEF df, sg
  <2>6. SumFunction(df) <= SumFunction(sg)
    BY <2>2, <2>3, SumMonotone, Constants
  <2>7. den * Leaving(s, sol) <= scale * Leaving(s, q)
    BY <2>4, <2>5, <2>6
  <2>8. Leaving(s, q) = Diagonal(s) * q[s]
    <3>1. Open(s)
      BY <1>4, QuestionIsOpen
    <3>2. One * q[s] = MatMul(transitions, q)[s]
      BY <3>1, OpenRow DEF Solution
    <3>3. Leaving(s, q) = MatMul(transitions, q)[s] - transitions[s][s] * q[s]
      BY <1>0, LeavingIsRest
    <3>4. Diagonal(s) = One - transitions[s][s]
      BY <1>0, <1>4 DEF Diagonal, tQuestion, MaskRows
    <3>5. \A a, b, c \in Int : (a - b) * c = a * c - b * c
      OBVIOUS
    <3>6. transitions[s][s] \in Int /\ One \in Int
      BY <1>0, Constants DEF Entry
    <3> QED
      BY <1>0, <3>2, <3>3, <3>4, <3>5, <3>6
  <2>9. /\ Factor(s) \in Nat /\ Diagonal(s) \in Nat /\ Diagonal(s) * Factor(s) = Lcm
        /\ Leaving(s, sol) \in Int
    BY <1>0, Factors, LeavingIsRest
  <2>10. Factor(s) * (den * Leaving(s, sol)) <= Factor(s) * (scale * (Diagonal(s) * q[s]))
    <3>1. den * Leaving(s, sol) \in Int /\ scale * (Diagonal(s) * q[s]) \in Int
      BY <1>0, <2>9
    <3> QED
      BY <2>7, <2>8, <2>9, <3>1, ProductBounds
  <2>11. Factor(s) * (den * Leaving(s, sol)) = (Factor(s) * Leaving(s, sol)) * den
    BY <1>0, <2>9, Reorder
  <2>12. Factor(s) * (scale * (Diagonal(s) * q[s])) = q[s] * ((Diagonal(s) * Factor(s)) * scale)
    <3>1. \A a, b, c, d \in Int : a * (b * (c * d)) = d * ((c * a) * b)
      OBVIOUS
    <3> QED
      BY <1>0, <2>9, <3>1
  <2> QED
    BY <1>1, <1>4, <2>9, <2>10, <2>11, <2>12
<1> QED
  BY <1>2, <1>3, <1>4

LEMMA LinearBound ==
  ASSUME NEW f \in [State -> Int], NEW g \in [State -> Int], NEW h \in [State -> Int],
         NEW a \in Int, NEW b \in Int, NEW c \in Int,
         \A t \in State : a * f[t] + b * g[t] <= c * h[t]
  PROVE  a * SumFunction(f) + b * SumFunction(g) <= c * SumFunction(h)
<1> DEFINE af == [t \in State |-> a * f[t]]
           bg == [t \in State |-> b * g[t]]
           ch == [t \in State |-> c * h[t]]
           both == [t \in State |-> af[t] + bg[t]]
<1>1. af \in [State -> Int] /\ bg \in [State -> Int] /\ ch \in [State -> Int]
  OBVIOUS
<1>2. both \in [State -> Int] /\ \A t \in State : both[t] <= ch[t]
  OBVIOUS
<1>3. /\ SumFunction(af) = a * SumFunction(f)
      /\ SumFunction(bg) = b * SumFunction(g)
      /\ SumFunction(ch) = c * SumFunction(h)
  BY SumScaled, Constants
<1> HIDE DEF af, bg, ch
<1>4. SumFunction(both) = SumFunction(af) + SumFunction(bg)
  BY <1>1, SumPlus, Constants
<1> HIDE DEF both
<1>5. SumFunction(both) <= SumFunction(ch)
  BY <1>1, <1>2, SumMonotone, Constants
<1> QED
  BY <1>3, <1>4, <1>5

(* How far a vector is from solving row s.                                 *)
Residual(v, sc, s) ==
    AbsDiff(One * v[s], MatMul(tQuestion, v)[s] + (IF s \in sYes THEN One * sc ELSE 0))

(* A pass that changes no state by more than the tolerance ends at a       *)
(* vector that solves every row up to the tolerance.                       *)
LEMMA PassResidual ==
  ASSUME TypeOK, ModelOK, Verdicts, CareSetKept, ZeroOutside, Close, NEW s \in reachable
  PROVE  Residual(Swept, Lcm * scale, s) * Tol <= One * (Lcm * scale)
<1> DEFINE w == Swept
           sc == Lcm * scale
<1>0. /\ s \in State /\ sol \in Vector /\ w \in Vector /\ sc \in Nat
      /\ transitions[s] \in [State -> Entry] /\ Tol \in Nat /\ One \in Nat /\ Lcm \in Nat
  BY SweptRows, Constants DEF TypeOK, ModelOK, Matrix
<1>1. w[s] = IF s \in sYes THEN sc
             ELSE IF s \in sQuestion THEN Factor(s) * Leaving(s, sol) ELSE 0
  BY <1>0, SweptRows
<1>2. \A t \in State : AbsDiff(w[t], Lcm * sol[t]) * Tol <= sc
  BY DEF Close
<1> HIDE DEF w
<1>3. sc \in Nat /\ One * sc \in Nat
  BY <1>0
<1> HIDE DEF sc
<1>4. CASE s \notin sQuestion
  <2>1. MatMul(tQuestion, w)[s] = 0
    <3> DEFINE f == [t \in State |-> tQuestion[s][t] * w[t]]
    <3>1. ASSUME NEW t \in State PROVE f[t] = 0
      <4>1. tQuestion[s][t] = 0 /\ w[t] \in Int
        BY <1>0, <1>4 DEF tQuestion, MaskRows, ZeroRow, Vector
      <4> QED
        BY <4>1
    <3>2. f = [t \in State |-> 0]
      BY <3>1
    <3>3. MatMul(tQuestion, w)[s] = SumFunction(f)
      BY <1>0 DEF MatMul
    <3> HIDE DEF f
    <3> QED
      BY <3>2, <3>3, SumZero, Constants
  <2>2. Residual(w, sc, s) = 0
    <3>1. CASE s \in sYes
      BY <1>1, <1>3, <2>1, <3>1 DEF Residual, AbsDiff
    <3>2. CASE s \notin sYes
      BY <1>1, <1>0, <1>4, <2>1, <3>2 DEF Residual, AbsDiff
    <3> QED
      BY <3>1, <3>2
  <2> QED
    BY <1>0, <1>3, <2>2 DEF w, sc
<1>5. CASE s \in sQuestion
  <2> DEFINE row == transitions[s]
             f == [t \in State |-> IF t = s THEN 0 ELSE row[t] * sol[t]]
             g == [t \in State |-> IF t = s THEN 0 ELSE row[t] * w[t]]
             up == Tol * Lcm
             down == - Tol
  <2>0. s \notin sYes
    BY <1>5 DEF sQuestion
  <2>1. f \in [State -> Int] /\ g \in [State -> Int] /\ row \in [State -> Int] /\ up \in Int /\ down \in Int
    BY <1>0, Constants DEF Entry, Vector
  <2>2. SumFunction(f) = Leaving(s, sol) /\ SumFunction(g) = Leaving(s, w)
    BY DEF Leaving
  <2>3. SumFunction(row) = One
    BY <1>5, QuestionIsOpen, OpenRow
  <2>4. ASSUME NEW t \in State
        PROVE  /\ up * f[t] + down * g[t] <= sc * row[t]
               /\ (- up) * f[t] + (- down) * g[t] <= sc * row[t]
    <3>1. row[t] \in Nat /\ sol[t] \in Int /\ w[t] \in Int
      BY <1>0, Constants DEF Entry, Vector
    <3>2. CASE t = s
      <4>1. sc * row[t] \in Nat
        BY <1>3, <3>1
      <4> QED
        BY <2>1, <3>2, <4>1
    <3>3. CASE t # s
      <4> DEFINE x == Tol * (Lcm * sol[t] - w[t])
      <4>0. Lcm * sol[t] \in Int /\ x \in Int
        BY <1>0, <3>1
      <4>1. x <= sc /\ - x <= sc
        <5>1. ASSUME NEW a \in Int, NEW b \in Int, NEW c \in Nat, NEW d \in Int, AbsDiff(a, b) * c <= d
              PROVE  c * (b - a) <= d /\ - (c * (b - a)) <= d
          <6>1. CASE a >= b
            <7>1. (a - b) * c = - (c * (b - a)) /\ (a - b) * c >= 0
              BY <6>1
            <7>2. c * (b - a) \in Int
              OBVIOUS
            <7> QED
              BY <5>1, <6>1, <7>1, <7>2 DEF AbsDiff
          <6>2. CASE ~ (a >= b)
            <7>1. (b - a) * c = c * (b - a) /\ c * (b - a) >= 0
              BY <6>2
            <7>2. c * (b - a) \in Int
              OBVIOUS
            <7> QED
              BY <5>1, <6>2, <7>1, <7>2 DEF AbsDiff
          <6> QED
            BY <6>1, <6>2
        <5>2. w[t] \in Int /\ Lcm * sol[t] \in Int /\ Tol \in Nat /\ sc \in Int
          BY <1>0, <1>3, <3>1, <4>0
        <5>3. AbsDiff(w[t], Lcm * sol[t]) * Tol <= sc
          BY <1>2
        <5> QED
          BY <5>1, <5>2, <5>3
      <4>2. row[t] * x <= row[t] * sc /\ row[t] * (- x) <= row[t] * sc
        BY <1>3, <3>1, <4>0, <4>1, ProductBounds
      <4>3. /\ up * f[t] + down * g[t] = row[t] * x
            /\ (- up) * f[t] + (- down) * g[t] = row[t] * (- x)
        <5>1. \A r, a, b, u, v \in Int :
                /\ (u * v) * (r * a) + (- u) * (r * b) = r * (u * (v * a - b))
                /\ (- (u * v)) * (r * a) + (- (- u)) * (r * b) = r * (- (u * (v * a - b)))
          OBVIOUS
        <5>2. f[t] = row[t] * sol[t] /\ g[t] = row[t] * w[t]
          BY <3>3
        <5>3. row[t] \in Int /\ sol[t] \in Int /\ w[t] \in Int /\ Tol \in Int /\ Lcm \in Int
          BY <1>0, <3>1
        <5> HIDE DEF f, g, row
        <5> QED
          BY <5>1, <5>2, <5>3
      <4>4. row[t] * sc = sc * row[t]
        BY <1>3, <3>1
      <4> QED
        BY <4>2, <4>3, <4>4
    <3> QED
      BY <3>2, <3>3
  <2> HIDE DEF f, g, row, up, down
  <2>5. /\ up * Leaving(s, sol) + down * Leaving(s, w) <= sc * One
        /\ (- up) * Leaving(s, sol) + (- down) * Leaving(s, w) <= sc * One
    <3>1. - up \in Int /\ - down \in Int /\ sc \in Int
      BY <1>3, <2>1
    <3>2. /\ \A t \in State : up * f[t] + down * g[t] <= sc * row[t]
          /\ \A t \in State : (- up) * f[t] + (- down) * g[t] <= sc * row[t]
      BY <2>4
    <3>3. up * SumFunction(f) + down * SumFunction(g) <= sc * SumFunction(row)
      BY <2>1, <3>1, <3>2, LinearBound, Zenon
    <3>4. (- up) * SumFunction(f) + (- down) * SumFunction(g) <= sc * SumFunction(row)
      BY <2>1, <3>1, <3>2, LinearBound, Zenon
    <3> QED
      BY <2>2, <2>3, <3>3, <3>4
  <2>6. /\ Leaving(s, sol) \in Int /\ Leaving(s, w) \in Int
        /\ Leaving(s, w) = MatMul(transitions, w)[s] - transitions[s][s] * w[s]
        /\ MatMul(transitions, w)[s] \in Int
    BY <1>0, LeavingIsRest
  <2>7. MatMul(tQuestion, w)[s] = MatMul(transitions, w)[s]
    <3>1. tQuestion[s] = transitions[s]
      BY <1>0, <1>5 DEF tQuestion, MaskRows
    <3> QED
      BY <1>0, <3>1 DEF MatMul
  <2>8. One * w[s] - MatMul(tQuestion, w)[s] = Lcm * Leaving(s, sol) - Leaving(s, w)
    <3>1. Diagonal(s) = One - transitions[s][s]
      BY <1>0, <1>5 DEF Diagonal, tQuestion, MaskRows
    <3>2. /\ Diagonal(s) \in Int /\ Factor(s) \in Int /\ Diagonal(s) * Factor(s) = Lcm
          /\ transitions[s][s] \in Int /\ w[s] \in Int
      BY <1>0, Factors, Constants DEF Entry, Vector
    <3>3. Diagonal(s) * w[s] = One * w[s] - transitions[s][s] * w[s]
      <4>1. \A a, b, c \in Int : (a - b) * c = a * c - b * c
        OBVIOUS
      <4> QED
        BY <1>0, <3>1, <3>2, <4>1
    <3>4. Diagonal(s) * w[s] = Lcm * Leaving(s, sol)
      <4>1. w[s] = Factor(s) * Leaving(s, sol)
        BY <1>1, <1>5, <2>0
      <4>2. (Diagonal(s) * Factor(s)) * Leaving(s, sol) = Diagonal(s) * (Factor(s) * Leaving(s, sol))
        <5>1. Diagonal(s) \in Int /\ Factor(s) \in Int /\ Leaving(s, sol) \in Int
          BY <2>6, <3>2
        <5> QED
          BY <5>1, Reorder
      <4> QED
        BY <3>2, <4>1, <4>2
    <3>5. One * w[s] \in Int /\ transitions[s][s] * w[s] \in Int
      BY <1>0, <3>2
    <3> QED
      BY <2>6, <2>7, <3>3, <3>4, <3>5
  <2> DEFINE l == Lcm * Leaving(s, sol)
             r == Leaving(s, w)
  <2>9. l \in Int /\ r \in Int /\ Tol * (l - r) <= One * sc /\ Tol * (r - l) <= One * sc
    <3>0. /\ Tol \in Int /\ Lcm \in Int /\ Leaving(s, sol) \in Int /\ Leaving(s, w) \in Int
          /\ \A t, m, a, b \in Int :
                /\ (t * m) * a + (- t) * b = t * (m * a - b)
                /\ (- (t * m)) * a + (- (- t)) * b = t * (b - m * a)
      BY <1>0, <2>6
    <3>1. up * Leaving(s, sol) + down * Leaving(s, w) = Tol * (l - r)
      BY <3>0 DEF up, down
    <3>2. (- up) * Leaving(s, sol) + (- down) * Leaving(s, w) = Tol * (r - l)
      BY <3>0 DEF up, down
    <3>3. sc * One = One * sc
      BY <1>0, <1>3
    <3> QED
      BY <1>0, <2>5, <2>6, <3>1, <3>2, <3>3
  <2>10. /\ One * w[s] \in Int /\ MatMul(tQuestion, w)[s] \in Int
         /\ One * w[s] - MatMul(tQuestion, w)[s] = l - r
         /\ Residual(w, sc, s) = AbsDiff(One * w[s], MatMul(tQuestion, w)[s] + 0)
    <3>1. w[s] \in Int
      BY <1>0 DEF Vector
    <3> QED
      BY <1>0, <2>0, <2>6, <2>7, <2>8, <3>1 DEF Residual
  <2> HIDE DEF l, r
  <2>11. Residual(w, sc, s) = IF l >= r THEN l - r ELSE r - l
    BY <2>9, <2>10 DEF AbsDiff
  <2>12. \A a \in Int : a * Tol = Tol * a
    BY <1>0
  <2>13. Residual(w, sc, s) * Tol <= One * sc
    BY <2>9, <2>11, <2>12
  <2> QED
    BY <2>13 DEF w, sc
<1> QED
  BY <1>4, <1>5

-----------------------------------------------------------------------------
(* A solution as OneSided means it is one of the until that is solved, for *)
(* a release after the exchange of 0 and 1.                                *)
Solved(p, den) ==
    IF op = "until" THEN p
    ELSE [s \in State |-> IF s \in reachable THEN den - p[s] ELSE 0]

LEMMA CandidateValues ==
  ASSUME ModelOK, NEW den \in Nat, NEW p \in Candidates(den)
  PROVE  /\ p \in [State -> 0 .. den]
         /\ \A s \in reachable : Settled(s) => p[s] = IF s \in right THEN den ELSE 0
<1>1. PICK f \in [{s \in reachable : ~ Settled(s)} -> 0 .. den] :
        p = [s \in State |-> IF s \notin reachable THEN 0
                             ELSE IF ~ Settled(s) THEN f[s]
                             ELSE IF s \in right THEN den ELSE 0]
  BY DEF Candidates
<1>2. \A s \in State : p[s] \in 0 .. den
  <2> SUFFICES ASSUME NEW s \in State PROVE p[s] \in 0 .. den
    OBVIOUS
  <2>1. s \in reachable /\ ~ Settled(s) => f[s] \in 0 .. den
    OBVIOUS
  <2> QED
    BY <1>1, <2>1
<1>3. reachable \subseteq State
  BY DEF ModelOK
<1> QED
  BY <1>1, <1>2, <1>3

LEMMA SolvedIsSolution ==
  ASSUME ModelOK, ExactModel, op \in {"until", "release"},
         NEW den \in Nat, NEW p \in Candidates(den), Solves(p)
  PROVE  Solution(Solved(p, den), den)
<1>0. /\ p \in [State -> 0 .. den] /\ p \in Vector /\ reachable \subseteq State
      /\ \A s \in reachable : Settled(s) => p[s] = IF s \in right THEN den ELSE 0
      /\ \A s \in reachable : ~ Settled(s) => One * p[s] = MatMul(transitions, p)[s]
  BY CandidateValues DEF Solves, Vector, ModelOK
<1>1. CASE op = "until"
  <2>1. ASSUME NEW s \in reachable
        PROVE  /\ s \in phi1 <=> s \in left
               /\ s \in phi2 <=> s \in right
               /\ Settled(s) <=> s \in right \/ s \notin left
    BY <1>1 DEF phi1, phi2, StateFormula, Settled
  <2>2. Solved(p, den) = p
    BY <1>1 DEF Solved
  <2> QED
    BY <1>0, <2>1, <2>2 DEF Solution
<1>2. CASE op = "release"
  <2> DEFINE q == Solved(p, den)
  <2>1. ASSUME NEW s \in reachable
        PROVE  /\ s \in phi1 <=> s \notin left
               /\ s \in phi2 <=> s \notin right
               /\ Settled(s) <=> s \notin right \/ s \in left
    BY <1>2 DEF phi1, phi2, StateFormula, Settled
  <2>2. \A s \in State : /\ q[s] = IF s \in reachable THEN den - p[s] ELSE 0
                         /\ q[s] \in 0 .. den
    BY <1>0, <1>2 DEF Solved
  <2>3. q \in [State -> 0 .. den]
    BY <2>2, <1>2 DEF Solved
  <2>4. ASSUME NEW s \in reachable, ~ Settled(s)
        PROVE  One * q[s] = MatMul(transitions, q)[s]
    <3> DEFINE row == transitions[s]
               f == [t \in State |-> row[t] * p[t]]
               g == [t \in State |-> den * row[t]]
               h == [t \in State |-> row[t] * q[t]]
    <3>1. ASSUME NEW t \in State
          PROVE  row[t] \in Nat /\ h[t] + f[t] = g[t]
      <4>1. row[t] \in Nat /\ p[t] \in Nat /\ (row[t] # 0 => t \in reachable)
        <5>1. p[t] \in Nat
          BY <1>0
        <5>2. transitions[s][t] \in Nat /\ (transitions[s][t] # 0 => t \in reachable)
          BY ExactEdges
        <5> QED
          BY <5>1, <5>2
      <4>2. CASE row[t] = 0
        <5>1. q[t] \in Nat
          BY <2>2
        <5> QED
          BY <4>1, <4>2, <5>1
      <4>3. CASE row[t] # 0
        <5>1. q[t] = den - p[t]
          BY <2>2, <4>1, <4>3
        <5>2. \A a, b, c \in Int : a * (b - c) + a * c = b * a
          OBVIOUS
        <5>3. row[t] \in Int /\ p[t] \in Int /\ den \in Int
          BY <4>1
        <5>4. h[t] = row[t] * (den - p[t]) /\ f[t] = row[t] * p[t] /\ g[t] = den * row[t]
          BY <5>1
        <5> HIDE DEF f, g, h, q, row
        <5> QED
          BY <4>1, <5>2, <5>3, <5>4
      <4> QED
        BY <4>1, <4>2, <4>3
    <3>2. f \in [State -> Int] /\ g \in [State -> Int] /\ h \in [State -> Int] /\ row \in [State -> Int]
      <4>1. \A t \in State : row[t] \in Int /\ p[t] \in Int /\ q[t] \in Int
        BY <1>0, <2>2, <3>1
      <4>2. row \in [State -> Int]
        BY ExactEdges, Constants DEF Entry, ModelOK, Matrix
      <4> HIDE DEF q, row
      <4> QED
        BY <4>1, <4>2
    <3>3. [t \in State |-> h[t] + f[t]] = g
      BY <3>1
    <3>4. /\ One * p[s] = SumFunction(f)
          /\ MatMul(transitions, q)[s] = SumFunction(h)
          /\ SumFunction(row) = One
      <4>1. s \in State
        BY <1>0
      <4>2. SumFunction(row) = One
        BY <4>1, ExactEdges
      <4>3. One * p[s] = MatMul(transitions, p)[s]
        BY <1>0, <2>4
      <4> HIDE DEF q
      <4>4. MatMul(transitions, p)[s] = SumFunction(f) /\ MatMul(transitions, q)[s] = SumFunction(h)
        BY <4>1 DEF MatMul
      <4> HIDE DEF f, h, row
      <4> QED
        BY <4>2, <4>3, <4>4
    <3>5. SumFunction(g) = den * One
      <4>1. row \in [State -> Int] /\ SumFunction(row) = One
        BY <3>2, <3>4
      <4> HIDE DEF row
      <4>2. den \in Int /\ IsFiniteSet(State)
        BY Constants
      <4>3. SumFunction(g) = den * SumFunction(row)
        BY <4>1, <4>2, SumScaled, Zenon
      <4> QED
        BY <4>1, <4>3
    <3>6. SumFunction(h) + SumFunction(f) = SumFunction(g)
      <4> HIDE DEF f, g, h
      <4> QED
        BY <3>2, <3>3, SumPlus, Constants
    <3>7. SumFunction(h) \in Int
      <4> HIDE DEF h
      <4> QED
        BY <3>2, SumInt, Constants
    <3>8. s \in State /\ q[s] = den - p[s] /\ p[s] \in Int
      BY <1>0, <2>2
    <3>9. One * (den - p[s]) = den * One - One * p[s]
      BY <3>8, Constants
    <3> HIDE DEF f, g, h, q, row
    <3>10. One * p[s] \in Int /\ den * One \in Int
      BY <3>8, Constants
    <3> QED
      BY <3>4, <3>5, <3>6, <3>7, <3>8, <3>9, <3>10
  <2> HIDE DEF q
  <2>5. Solution(q, den)
    <3>1. ASSUME NEW s \in reachable
          PROVE  /\ s \in phi2 => q[s] = den
                 /\ s \notin phi1 /\ s \notin phi2 => q[s] = 0
                 /\ s \in phi1 /\ s \notin phi2 => One * q[s] = MatMul(transitions, q)[s]
      <4>1. s \in State /\ q[s] = den - p[s] /\ p[s] \in 0 .. den
        BY <1>0, <2>2
      <4>2. CASE s \in phi2
        <5>1. p[s] = 0
          BY <1>0, <2>1, <4>2
        <5> QED
          BY <4>1, <4>2, <5>1
      <4>3. CASE s \notin phi2 /\ s \notin phi1
        <5>1. p[s] = den
          BY <1>0, <2>1, <4>3
        <5> QED
          BY <4>1, <4>3, <5>1
      <4>4. CASE s \notin phi2 /\ s \in phi1
        BY <2>1, <2>4, <4>4
      <4> QED
        BY <4>2, <4>3, <4>4
    <3> QED
      BY <2>3, <3>1 DEF Solution
  <2> QED
    BY <2>5 DEF q
<1> QED
  BY <1>1, <1>2

-----------------------------------------------------------------------------
(* The inductive invariant: the matrix keeps, on the care set, what the    *)
(* solver set up, and the vector stays below every solution.               *)

SetUpDone == pc \notin {"precompute", "system"}

Below ==
    ExactModel =>
        \A den \in Nat : \A q \in [State -> 0 .. den] :
            Solution(q, den) => \A s \in reachable : sol[s] * den <= q[s] * scale

IInv ==
    /\ TypeOK
    /\ ModelOK
    /\ ZeroOutside
    /\ pc # "precompute" => Verdicts
    /\ ~ SetUpDone => scale = 1
    /\ SetUpDone => CareSetKept /\ Below
    /\ ResidualSmall
    /\ pc = "done" => answer = IF op = "release" THEN [s \in State |-> scale - sol[s]] ELSE sol

LEMMA InitIInv == Init => IInv
<1> SUFFICES ASSUME Init PROVE IInv
  OBVIOUS
<1>1. /\ ZeroRow \in Vector /\ [s \in State |-> ZeroRow] \in [State -> [State -> 0 .. Lcm]]
      /\ \A s \in State : ZeroRow[s] = 0
  BY Constants DEF ZeroRow, Vector
<1>2. TypeOK
  BY <1>1, Constants DEF Init, TypeOK
<1>3. ModelOK
  BY DEF Init, ModelOK
<1> QED
  BY <1>1, <1>2, <1>3 DEF Init, IInv, ZeroOutside, SetUpDone, ResidualSmall

(* Nothing that is defined from the model changes.                         *)
LEMMA Rigid ==
  ASSUME UNCHANGED model
  PROVE  /\ ModelOK' = ModelOK /\ ExactModel' = ExactModel
         /\ phi1' = phi1 /\ phi2' = phi2
         /\ \A s : Graph!Never(s)' = Graph!Never(s) /\ Graph!AlmostSurely(s)' = Graph!AlmostSurely(s)
         /\ \A q, den : Solution(q, den)' = Solution(q, den)
  BY DEF model, ModelOK, ExactModel, phi1, phi2, StateFormula, Solution,
         Graph!Never, Graph!AlmostSurely, Graph!Bottom, Graph!Orbit, Graph!FollowClosed, Graph!Follow

LEMMA RigidSystem ==
  ASSUME UNCHANGED <<model, sNo, sYes>>
  PROVE  /\ Verdicts' = Verdicts
         /\ sQuestion' = sQuestion /\ tQuestion' = tQuestion /\ OffDiagonal' = OffDiagonal
  BY Rigid DEF Verdicts, sQuestion, tQuestion, OffDiagonal, Diagonal, model

LEMMA NextIInv == IInv /\ [Next]_vars => IInv'
<1> SUFFICES ASSUME IInv, [Next]_vars PROVE IInv'
  OBVIOUS
<1>0. /\ TypeOK /\ ModelOK /\ ZeroOutside /\ ResidualSmall
      /\ pc # "precompute" => Verdicts
      /\ ~ SetUpDone => scale = 1
      /\ SetUpDone => CareSetKept /\ Below
  BY DEF IInv
<1>same. UNCHANGED model
  BY DEF Next, vars, model, Precompute, SetUpSystem, RestrictNext, RestrictCurr, Sweep, Converge,
         Return
<1>model. ModelOK'
  BY <1>0, <1>same, Rigid
<1>1. CASE Precompute
  <2>1. TypeOK'
    BY <1>0, <1>1 DEF Precompute, TypeOK, model
  <2>2. Verdicts'
    <3>1. /\ sNo' = {s \in reachable : Graph!Never(s)}
          /\ sYes' = {s \in reachable : ~ Graph!Never(s) /\ Graph!AlmostSurely(s)}
          /\ reachable' = reachable
      BY <1>1 DEF Precompute, model
    <3>2. \A s : Graph!Never(s)' = Graph!Never(s) /\ Graph!AlmostSurely(s)' = Graph!AlmostSurely(s)
      BY <1>same, Rigid
    <3> QED
      BY <3>1, <3>2 DEF Verdicts
  <2>3. pc' = "system" /\ pc = "precompute" /\ reachable' = reachable /\ UNCHANGED <<sol, scale>>
    BY <1>1 DEF Precompute, model
  <2>4. ZeroOutside' /\ ResidualSmall' /\ scale' = 1
    BY <1>0, <2>3 DEF ZeroOutside, ResidualSmall, SetUpDone
  <2> QED
    BY <1>model, <2>1, <2>2, <2>3, <2>4 DEF IInv, SetUpDone
<1>2. CASE SetUpSystem
  <2>0. Verdicts /\ Verdicts' /\ OffDiagonal' = OffDiagonal /\ scale = 1
    BY <1>0, <1>2, RigidSystem DEF SetUpSystem, SetUpDone
  <2>1. OffDiagonal \in [State -> [State -> 0 .. Lcm]] /\ sYes \subseteq reachable
    BY <1>0, <2>0, OffDiagonalRows, QuestionIsOpen
  <2>2. sol' = Indicator(sYes, 1) /\ sol' \in Vector
    BY <1>2 DEF SetUpSystem, Indicator, Vector
  <2>3. TypeOK'
    BY <1>0, <1>2, <2>1, <2>2 DEF SetUpSystem, TypeOK, model
  <2>4. ZeroOutside'
    BY <1>2, <2>1, <2>2 DEF SetUpSystem, ZeroOutside, Indicator, model
  <2>5. CareSetKept'
    BY <1>2, <2>0 DEF SetUpSystem, CareSetKept, model
  <2>6. Below'
    <3> SUFFICES ASSUME ExactModel, NEW den \in Nat, NEW q \in [State -> 0 .. den],
                        Solution(q, den), NEW s \in reachable
                 PROVE  sol'[s] * den <= q[s] * scale'
      BY <1>same, <1>2, Rigid DEF Below, SetUpSystem, model
    <3>1. s \in State /\ q[s] \in Nat /\ scale' = 1
      BY <1>0, <1>2, <2>0 DEF ModelOK, SetUpSystem
    <3>2. s \in sYes => q[s] = den
      BY <1>0, <2>0, CertainIsOne DEF Verdicts
    <3>3. sol'[s] = IF s \in sYes THEN 1 ELSE 0
      BY <2>2, <3>1 DEF Indicator
    <3> QED
      BY <3>1, <3>2, <3>3
  <2> QED
    BY <1>2, <1>model, <2>0, <2>3, <2>4, <2>5, <2>6 DEF SetUpSystem, IInv, SetUpDone, ResidualSmall
<1>3. CASE RestrictNext
  <2>0. /\ Verdicts /\ Verdicts' /\ OffDiagonal' = OffDiagonal /\ SetUpDone
        /\ reachable' = reachable /\ UNCHANGED <<sol, scale>>
    BY <1>0, <1>3, RigidSystem DEF RestrictNext, SetUpDone, model
  <2>1. PICK branch \in [sQuestion -> [State \ reachable -> reachable]] :
          aPrime' = [s \in State |-> [t \in State |->
              IF s \in sQuestion /\ t \notin reachable THEN aPrime[s][branch[s][t]]
              ELSE aPrime[s][t]]]
    BY <1>3 DEF RestrictNext
  <2>2. aPrime \in [State -> [State -> 0 .. Lcm]] /\ reachable \subseteq State
    BY <1>0 DEF TypeOK
  <2>3. \A s, t \in State : s \in sQuestion /\ t \notin reachable => branch[s][t] \in State
    BY <2>2
  <2>4. aPrime' \in [State -> [State -> 0 .. Lcm]]
    BY <2>1, <2>2, <2>3
  <2>5. TypeOK'
    BY <1>0, <1>3, <2>4 DEF RestrictNext, TypeOK, model
  <2>6. CareSetKept'
    BY <1>0, <2>0, <2>1, <2>2 DEF CareSetKept
  <2>7. Below' /\ ZeroOutside'
    BY <1>0, <1>same, <2>0, Rigid DEF Below, ZeroOutside
  <2> QED
    BY <1>3, <1>model, <2>0, <2>5, <2>6, <2>7 DEF RestrictNext, IInv, SetUpDone, ResidualSmall
<1>4. CASE RestrictCurr
  <2>0. /\ Verdicts /\ Verdicts' /\ OffDiagonal' = OffDiagonal /\ SetUpDone
        /\ reachable' = reachable /\ UNCHANGED <<sol, scale>>
    BY <1>0, <1>4, RigidSystem DEF RestrictCurr, SetUpDone, model
  <2>1. PICK branch \in [State \ reachable -> [State -> reachable]] :
          aPrime' = [s \in State |-> [t \in State |->
              IF s \in reachable THEN aPrime[s][t] ELSE aPrime[branch[s][t]][t]]]
    BY <1>4 DEF RestrictCurr
  <2>2. aPrime \in [State -> [State -> 0 .. Lcm]] /\ reachable \subseteq State
    BY <1>0 DEF TypeOK
  <2>3. \A s, t \in State : s \notin reachable => branch[s][t] \in State
    BY <2>2
  <2>4. aPrime' \in [State -> [State -> 0 .. Lcm]]
    BY <2>1, <2>2, <2>3
  <2>5. TypeOK'
    BY <1>0, <1>4, <2>4 DEF RestrictCurr, TypeOK, model
  <2>6. CareSetKept'
    BY <1>0, <2>0, <2>1, <2>2 DEF CareSetKept
  <2>7. Below' /\ ZeroOutside'
    BY <1>0, <1>same, <2>0, Rigid DEF Below, ZeroOutside
  <2> QED
    BY <1>4, <1>model, <2>0, <2>5, <2>6, <2>7 DEF RestrictCurr, IInv, SetUpDone, ResidualSmall
<1>5. ASSUME pc = "solve", sol' = Swept, scale' = Lcm * scale, UNCHANGED <<model, sNo, sYes, aPrime, answer>>
      PROVE  /\ sol' \in Vector /\ scale' \in Nat \ {0}
             /\ ZeroOutside' /\ Verdicts' /\ CareSetKept' /\ Below'
             /\ Close => \A s \in reachable : Residual(sol, scale, s)' * Tol <= One * scale'
  <2>0. /\ Verdicts /\ Verdicts' /\ OffDiagonal' = OffDiagonal /\ SetUpDone /\ CareSetKept /\ Below
        /\ reachable' = reachable /\ tQuestion' = tQuestion /\ sYes' = sYes
    BY <1>0, <1>5, RigidSystem DEF SetUpDone, model
  <2>1. /\ Swept \in Vector
        /\ \A s \in State : Swept[s] = IF s \in sYes THEN Lcm * scale
                                     ELSE IF s \in sQuestion THEN Factor(s) * Leaving(s, sol)
                                     ELSE 0
    BY <1>0, <2>0, SweptRows
  <2>2. scale' \in Nat \ {0}
    BY <1>0, <1>5, Constants DEF TypeOK
  <2>3. ZeroOutside'
    <3>1. \A s \in State \ reachable : s \notin sYes /\ s \notin sQuestion
      BY <1>0, <2>0, QuestionIsOpen DEF sQuestion
    <3> QED
      BY <1>5, <2>0, <2>1, <3>1 DEF ZeroOutside
  <2>4. CareSetKept'
    BY <1>5, <2>0 DEF CareSetKept
  <2>5. Below'
    <3> SUFFICES ASSUME ExactModel, NEW den \in Nat, NEW q \in [State -> 0 .. den],
                        Solution(q, den), NEW s \in reachable
                 PROVE  sol'[s] * den <= q[s] * scale'
      BY <1>5, <2>0, Rigid DEF Below
    <3>1. \A t \in reachable : sol[t] * den <= q[t] * scale
      BY <2>0 DEF Below
    <3> QED
      BY <1>0, <1>5, <2>0, <3>1, PassBelow
  <2>6. ASSUME Close, NEW s \in reachable
        PROVE  Residual(sol, scale, s)' * Tol <= One * scale'
    <3>1. Residual(sol, scale, s)' = Residual(Swept, Lcm * scale, s)
      BY <1>5, <2>0 DEF Residual
    <3>2. Residual(Swept, Lcm * scale, s) * Tol <= One * (Lcm * scale)
      BY <1>0, <2>0, <2>6, PassResidual
    <3> QED
      BY <1>5, <3>1, <3>2
  <2> QED
    BY <1>5, <2>0, <2>1, <2>2, <2>3, <2>4, <2>5, <2>6
<1>6. CASE Sweep
  <2>1. pc = "solve" /\ pc' = pc /\ sol' = Swept /\ scale' = Lcm * scale
        /\ UNCHANGED <<model, sNo, sYes, aPrime, answer>>
    BY <1>6 DEF Sweep
  <2>2. /\ sol' \in Vector /\ scale' \in Nat \ {0}
        /\ ZeroOutside' /\ Verdicts' /\ CareSetKept' /\ Below'
    BY <1>5, <2>1
  <2>3. TypeOK'
    BY <1>0, <2>1, <2>2 DEF TypeOK, model
  <2> QED
    BY <1>model, <2>1, <2>2, <2>3 DEF IInv, SetUpDone, ResidualSmall
<1>7. CASE Converge
  <2>1. pc = "solve" /\ pc' = "return" /\ sol' = Swept /\ scale' = Lcm * scale /\ Close
        /\ UNCHANGED <<model, sNo, sYes, aPrime, answer>>
    BY <1>7 DEF Converge
  <2>2. /\ sol' \in Vector /\ scale' \in Nat \ {0}
        /\ ZeroOutside' /\ Verdicts' /\ CareSetKept' /\ Below'
        /\ \A s \in reachable : Residual(sol, scale, s)' * Tol <= One * scale'
    BY <1>5, <2>1
  <2>3. TypeOK'
    BY <1>0, <2>1, <2>2 DEF TypeOK, model
  <2>4. ResidualSmall'
    BY <2>1, <2>2 DEF ResidualSmall, Residual, model
  <2> QED
    BY <1>model, <2>1, <2>2, <2>3, <2>4 DEF IInv, SetUpDone
<1>8. CASE Return
  <2>0. /\ Verdicts' = Verdicts /\ OffDiagonal' = OffDiagonal /\ tQuestion' = tQuestion
        /\ reachable' = reachable /\ UNCHANGED <<sol, scale, aPrime, sYes, op>>
        /\ pc = "return" /\ pc' = "done"
    BY <1>8, RigidSystem DEF Return, model
  <2>1. answer' = IF op = "release" THEN [s \in State |-> scale - sol[s]] ELSE sol
    BY <1>8 DEF Return
  <2>2. answer' \in Vector
    BY <1>0, <2>1 DEF TypeOK, Vector
  <2>3. TypeOK'
    BY <1>0, <1>8, <2>2 DEF Return, TypeOK, model
  <2>4. Below' /\ ZeroOutside' /\ CareSetKept' /\ ResidualSmall'
    BY <1>0, <1>same, <2>0, Rigid DEF Below, ZeroOutside, CareSetKept, ResidualSmall, SetUpDone
  <2> QED
    BY <1>0, <1>model, <2>0, <2>1, <2>3, <2>4 DEF IInv, SetUpDone
<1>9. CASE UNCHANGED vars
  <2>0. /\ Verdicts' = Verdicts /\ OffDiagonal' = OffDiagonal /\ tQuestion' = tQuestion
        /\ reachable' = reachable /\ UNCHANGED <<sol, scale, aPrime, sYes, op, answer, pc>>
    BY <1>9, RigidSystem DEF vars, model
  <2>1. TypeOK'
    BY <1>0, <1>9 DEF vars, TypeOK, model
  <2>2. (SetUpDone => Below)' /\ ZeroOutside' /\ (SetUpDone => CareSetKept)' /\ ResidualSmall'
    BY <1>0, <1>same, <2>0, Rigid DEF Below, ZeroOutside, CareSetKept, ResidualSmall, SetUpDone
  <2> QED
    BY <1>0, <1>model, <2>0, <2>1, <2>2 DEF IInv, SetUpDone
<1> QED
  BY <1>1, <1>2, <1>3, <1>4, <1>6, <1>7, <1>8, <1>9 DEF Next

THEOREM Invariant == Spec => []IInv
  BY InitIInv, NextIInv, PTL DEF Spec

-----------------------------------------------------------------------------
(* Type correctness: whatever prob0 and prob1 leave open has a diagonal    *)
(* between one unit and 1.0, also in a model with entries below the        *)
(* threshold, so the solver never divides by zero and its matrix has       *)
(* entries between 0 and 1 (sym_check.rs:137-165).                         *)
THEOREM TypeCorrect == Spec => []TypeOK
  BY Invariant, PTL DEF IInv

THEOREM NoZeroDivisor == Spec => [](SetUpDone => \A s \in State : Diagonal(s) \in 1 .. One)
<1>1. IInv => (SetUpDone => \A s \in State : Diagonal(s) \in 1 .. One)
  BY Factors DEF IInv, SetUpDone
<1> QED
  BY <1>1, Invariant, PTL

(* The stopping test of sym_check.rs:198, which compares two vectors,      *)
(* bounds the residual of the system.                                      *)
THEOREM ResidualBounded == Spec => []ResidualSmall
  BY Invariant, PTL DEF IInv

(* The computed value of an until is never above any solution of its       *)
(* fixpoint equations, and that of a release never below one, after any    *)
(* number of passes, for solutions of every denominator.                   *)
THEOREM ErrorHasOneSide == Spec => []OneSided
<1>1. IInv => OneSided
  <2> SUFFICES ASSUME IInv, pc = "done", ExactModel,
                      NEW den \in 1 .. MaxDen, NEW p \in Candidates(den), Solves(p),
                      NEW s \in reachable
               PROVE  IF op = "until" THEN answer[s] * den <= p[s] * scale
                      ELSE answer[s] * den >= p[s] * scale
    BY DEF OneSided
  <2>0. /\ TypeOK /\ ModelOK /\ Below /\ op \in {"until", "release"} /\ den \in Nat
        /\ s \in State /\ sol[s] \in Int /\ scale \in Int
        /\ answer = IF op = "release" THEN [x \in State |-> scale - sol[x]] ELSE sol
    BY Constants DEF IInv, SetUpDone, TypeOK, ModelOK, Vector
  <2>1. p[s] \in Nat /\ p[s] <= den
    BY <2>0, CandidateValues
  <2> DEFINE q == Solved(p, den)
  <2>2. Solution(q, den) /\ q \in [State -> 0 .. den]
    BY <2>0, SolvedIsSolution DEF Solution
  <2>3. sol[s] * den <= q[s] * scale
    BY <2>0, <2>2 DEF Below
  <2>4. CASE op = "until"
    BY <2>0, <2>3, <2>4 DEF Solved
  <2>5. CASE op = "release"
    <3>1. q[s] = den - p[s] /\ answer[s] = scale - sol[s]
      BY <2>0, <2>5 DEF Solved
    <3>2. /\ (den - p[s]) * scale = den * scale - p[s] * scale
          /\ (scale - sol[s]) * den = den * scale - sol[s] * den
          /\ den * scale \in Int /\ p[s] * scale \in Int /\ sol[s] * den \in Int
      BY <2>0, <2>1
    <3> HIDE DEF q
    <3> QED
      BY <2>3, <2>5, <3>1, <3>2
  <2> QED
    BY <2>0, <2>4, <2>5
<1> QED
  BY <1>1, Invariant, PTL
=============================================================================
