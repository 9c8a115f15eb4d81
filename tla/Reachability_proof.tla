-------------------------- MODULE Reachability_proof ------------------------
(***************************************************************************)
(* Theorems about Reachability, for every finite set of states, every      *)
(* matrix and every threshold.                                             *)
(***************************************************************************)
EXTENDS Reachability, SumTheorems

(* Until the self-loops are added every entry is at most One: what makes   *)
(* the entries after the addition fit in Entry.                            *)
Unlooped ==
    pc # "done" => transitions \in [State -> [State -> 0 .. One]]

(* The search is always inside every closed set that holds init.           *)
SearchInside ==
    \A closed \in SUBSET State :
        init \in closed /\ ClosedUnder(transRel, closed) => reachable \subseteq closed

(* What holds of the search once it has started and once it has stopped.   *)
SearchShape ==
    /\ pc = "start" => reachable = {} /\ iterations = 0
    /\ pc # "start" => init \in reachable
    /\ pc = "search" => iterations < Cardinality(reachable)
    /\ Searched => Image(transRel, reachable) \subseteq reachable
    /\ Searched => iterations <= Cardinality(reachable)

(* Until filtering, the followed relation is the matrix's own; after it,   *)
(* its restriction to the reachable rows.                                  *)
RelationShape ==
    /\ pc \in {"search", "filter"} => transRel = AddToBdd(transitions)
    /\ pc = "dead_ends" =>
           /\ AddToBdd(transitions) = {e \in transRel : e[1] \in reachable}
           /\ \A s \in State \ reachable : transitions[s] = ZeroRow

(* Until the self-loops are added a reachable row is what unif left.       *)
RowsKept ==
    /\ pc \in {"start", "search", "filter"} => transitions \in [State -> Rows]
    /\ pc = "dead_ends" => \A s \in reachable : transitions[s] \in Rows

(* The inductive invariant: what a step needs to know of the state it      *)
(* leaves, beyond the properties themselves.                               *)
SupportInv ==
    /\ TypeOK
    /\ Unlooped
    /\ SearchInside
    /\ SearchShape
    /\ RelationShape
    /\ SupportAgrees

IInv ==
    /\ SupportInv
    /\ RowsKept
    /\ RowsStochastic

-----------------------------------------------------------------------------
LEMMA EpsFacts == One \in Nat /\ Eps \in Nat /\ Eps < One /\ IsFiniteSet(State)
  BY DtmcAssumption DEF DtmcAssumption

(* A set that grew by at least one element of State has a larger           *)
(* cardinality, and all these sets are finite.                             *)
LEMMA GrowthCounts ==
  ASSUME NEW A \in SUBSET State, NEW B \in SUBSET State, A \subseteq B, A # B
  PROVE  /\ Cardinality(A) \in Nat
         /\ Cardinality(B) \in Nat
         /\ Cardinality(A) < Cardinality(B)
<1>1. IsFiniteSet(B) /\ IsFiniteSet(A)
  BY EpsFacts, FS_Subset
<1> QED
  BY <1>1, FS_Subset, FS_CardinalityType

LEMMA CountIsNat ==
  ASSUME NEW A \in SUBSET State
  PROVE  IsFiniteSet(A) /\ Cardinality(A) \in Nat
  BY EpsFacts, FS_Subset, FS_CardinalityType

LEMMA InitSupport == Init => SupportInv
<1> SUFFICES ASSUME Init PROVE SupportInv
  OBVIOUS
<1>1. TypeOK /\ Unlooped
  BY EpsFacts DEF Init, TypeOK, Unlooped, Rows, Matrix, Entry
<1> QED
  BY <1>1 DEF Init, SupportInv, SearchInside, SearchShape, RelationShape, SupportAgrees, Searched

LEMMA NextSupport == SupportInv /\ [Next]_vars => SupportInv'
<1> SUFFICES ASSUME SupportInv, [Next]_vars PROVE SupportInv'
  OBVIOUS
<1> USE DEF SupportInv
<1>1. CASE StartSearch
  <2>1. TypeOK' /\ Unlooped'
    BY <1>1 DEF StartSearch, TypeOK, Unlooped, AddToBdd
  <2>2. SearchInside'
    BY <1>1 DEF StartSearch, SearchInside, TypeOK
  <2>3. SearchShape'
    <3>1. Cardinality({init}) = 1
      BY FS_Singleton
    <3> QED
      BY <1>1, <3>1 DEF StartSearch, SearchShape, Searched
  <2> QED
    BY <1>1, <2>1, <2>2, <2>3 DEF StartSearch, RelationShape, SupportAgrees
<1>2. CASE Expand
  <2>1. reachable \subseteq NewReachable /\ NewReachable \subseteq State
    BY DEF NewReachable, Image, TypeOK
  <2>2. TypeOK' /\ Unlooped'
    BY <1>2, <2>1 DEF Expand, TypeOK, Unlooped
  <2>3. SearchInside'
    BY <1>2 DEF Expand, SearchInside, NewReachable, Image, ClosedUnder
  <2>4. SearchShape'
    <3>0. reachable \in SUBSET State /\ NewReachable \in SUBSET State
      BY <2>1 DEF TypeOK
    <3>1. /\ Cardinality(reachable) < Cardinality(NewReachable)
          /\ Cardinality(reachable) \in Nat
          /\ Cardinality(NewReachable) \in Nat
      <4>1. reachable # NewReachable
        BY <1>2 DEF Expand
      <4> QED
        BY <2>1, <3>0, <4>1, GrowthCounts
    <3> QED
      BY <1>2, <2>1, <3>1 DEF Expand, SearchShape, Searched, TypeOK
  <2> QED
    BY <1>2, <2>2, <2>3, <2>4 DEF Expand, RelationShape, SupportAgrees
<1>3. CASE Converge
  <2>1. TypeOK' /\ Unlooped'
    BY <1>3 DEF Converge, TypeOK, Unlooped
  <2>2. SearchInside'
    BY <1>3 DEF Converge, SearchInside, ClosedUnder
  <2>3. SearchShape'
    <3>1. Image(transRel, reachable) \subseteq reachable
      BY <1>3 DEF Converge, NewReachable
    <3>2. Cardinality(reachable) \in Nat
      BY CountIsNat DEF TypeOK
    <3> QED
      BY <1>3, <3>1, <3>2 DEF Converge, SearchShape, Searched, TypeOK, Image
  <2> QED
    BY <1>3, <2>1, <2>2, <2>3 DEF Converge, RelationShape, SupportAgrees
<1>4. CASE FilterTransitions
  <2>1. TypeOK' /\ Unlooped'
    BY <1>4, EpsFacts
    DEF FilterTransitions, TypeOK, Unlooped, MaskRows, ZeroRow, Matrix, Entry
  <2>2. SearchInside' /\ SearchShape'
    BY <1>4 DEF FilterTransitions, SearchInside, SearchShape, ClosedUnder, Searched, Image
  <2>3. AddToBdd(transitions') = {e \in transRel : e[1] \in reachable}
    BY <1>4, EpsFacts
    DEF FilterTransitions, RelationShape, AddToBdd, MaskRows, ZeroRow, TypeOK
  <2>4. \A s \in State \ reachable : transitions'[s] = ZeroRow
    BY <1>4 DEF FilterTransitions, MaskRows
  <2> QED
    BY <1>4, <2>1, <2>2, <2>3, <2>4
    DEF FilterTransitions, RelationShape, SupportAgrees, ZeroRow
<1>5. CASE AddSelfLoops
  <2> DEFINE rel == AddToBdd(transitions)
  <2>0. /\ DeadEnds \subseteq reachable
        /\ rel = {e \in transRel : e[1] \in reachable}
        /\ transitions \in [State -> [State -> 0 .. One]]
        /\ reachable \subseteq State
    BY <1>5 DEF AddSelfLoops, DeadEnds, RelationShape, Unlooped, TypeOK
  <2>1. \A s \in DeadEnds, t \in State : transitions[s][t] \in 0 .. Eps
    BY <2>0, EpsFacts DEF DeadEnds, Sources, AddToBdd
  <2>2. transitions' \in Matrix
    BY <1>5, <2>0, <2>1, EpsFacts DEF AddSelfLoops, Matrix, Entry, SelfLoops
  <2>3. TypeOK' /\ Unlooped'
    BY <1>5, <2>0, <2>2 DEF AddSelfLoops, TypeOK, Unlooped, SelfLoops, AddToBdd
  <2>4. SearchInside' /\ SearchShape'
    BY <1>5 DEF AddSelfLoops, SearchInside, SearchShape, ClosedUnder, Searched, Image
  <2>5. SupportAgrees'
    <3>1. transitions01' = AddToBdd(transitions')
      <4>1. \A s, t \in State : transitions'[s][t] =
              transitions[s][t] + (IF <<s, t>> \in SelfLoops(DeadEnds) THEN One ELSE 0)
        BY <1>5 DEF AddSelfLoops
      <4>2. \A s, t \in State :
              transitions'[s][t] > Eps
                <=> transitions[s][t] > Eps \/ <<s, t>> \in SelfLoops(DeadEnds)
        <5> SUFFICES ASSUME NEW s \in State, NEW t \in State
                     PROVE  transitions'[s][t] > Eps
                              <=> transitions[s][t] > Eps \/ <<s, t>> \in SelfLoops(DeadEnds)
          OBVIOUS
        <5>1. transitions[s][t] \in 0 .. One
          BY <2>0
        <5>2. CASE <<s, t>> \in SelfLoops(DeadEnds)
          BY <4>1, <5>1, <5>2, EpsFacts
        <5>3. CASE <<s, t>> \notin SelfLoops(DeadEnds)
          BY <4>1, <5>1, <5>3, EpsFacts
        <5> QED
          BY <5>2, <5>3
      <4>3. SelfLoops(DeadEnds) \subseteq State \X State
        BY <2>0 DEF SelfLoops
      <4> QED
        BY <1>5, <4>2, <4>3 DEF AddSelfLoops, AddToBdd
    <3>2. transitions01' \subseteq reachable \X reachable
      <4>1. rel \subseteq reachable \X reachable
        BY <1>5, <2>0 DEF AddSelfLoops, SearchShape, Searched, Image, AddToBdd
      <4> QED
        BY <1>5, <4>1, <2>0 DEF AddSelfLoops, SelfLoops
    <3>3. reachable \subseteq Sources(transitions01')
      BY <1>5, <2>0 DEF AddSelfLoops, Sources, SelfLoops, DeadEnds
    <3>4. \A s \in State \ reachable : transitions'[s] = ZeroRow
      <4> SUFFICES ASSUME NEW s \in State \ reachable PROVE transitions'[s] = ZeroRow
        OBVIOUS
      <4>1. transitions[s] = ZeroRow /\ s \notin DeadEnds
        BY <1>5, <2>0 DEF AddSelfLoops, RelationShape
      <4>2. transitions'[s] = [t \in State |-> transitions[s][t]]
        BY <1>5, <4>1, <2>0 DEF AddSelfLoops, SelfLoops
      <4> QED
        BY <4>1, <4>2 DEF ZeroRow
    <3> QED
      BY <1>5, <3>1, <3>2, <3>3, <3>4 DEF AddSelfLoops, SupportAgrees, SupportWellFormed
  <2> QED
    BY <1>5, <2>3, <2>4, <2>5 DEF AddSelfLoops, RelationShape
<1>6. CASE NoDeadEnds
  <2>1. TypeOK' /\ Unlooped'
    BY <1>6 DEF NoDeadEnds, TypeOK, Unlooped, AddToBdd
  <2>2. SearchInside' /\ SearchShape'
    BY <1>6 DEF NoDeadEnds, SearchInside, SearchShape, ClosedUnder, Searched, Image
  <2>3. SupportAgrees'
    <3>1. AddToBdd(transitions) \subseteq reachable \X reachable
      BY <1>6 DEF NoDeadEnds, RelationShape, SearchShape, Searched, Image, AddToBdd
    <3>2. reachable \subseteq Sources(AddToBdd(transitions))
      BY <1>6 DEF NoDeadEnds, DeadEnds
    <3> QED
      BY <1>6, <3>1, <3>2 DEF NoDeadEnds, SupportAgrees, SupportWellFormed, RelationShape
  <2> QED
    BY <1>6, <2>1, <2>2, <2>3 DEF NoDeadEnds, RelationShape
<1>7. CASE UNCHANGED vars
  BY <1>7 DEF vars, TypeOK, Unlooped, SearchInside, SearchShape, RelationShape,
              SupportAgrees, Searched
<1> QED
  BY <1>1, <1>2, <1>3, <1>4, <1>5, <1>6, <1>7 DEF Next

(* The rows: a state without successor has all its entries below the       *)
(* threshold, so it was left as a residue; every other row is a            *)
(* distribution and is not touched.                                        *)
LEMMA LoopedRows ==
  ASSUME SupportInv, RowsKept, AddSelfLoops
  PROVE  RowsWellFormed(transitions', reachable)
<1> SUFFICES ASSUME NEW s \in reachable
             PROVE  IsDistribution(transitions'[s]) \/ IsLoopedDeadEnd(transitions'[s], s)
  BY DEF RowsWellFormed
<1>1. /\ pc = "dead_ends" /\ s \in State
      /\ transitions[s] \in [State -> 0 .. One]
      /\ IsDistribution(transitions[s]) \/ IsResidue(transitions[s])
  BY DEF AddSelfLoops, RowsKept, SupportInv, TypeOK, Rows
<1>2. transitions'[s] = [t \in State |->
          transitions[s][t] + (IF <<s, t>> \in SelfLoops(DeadEnds) THEN One ELSE 0)]
  BY <1>1 DEF AddSelfLoops
<1>3. CASE s \in DeadEnds
  <2>1. \A t \in State : ~ (transitions[s][t] > Eps)
    BY <1>1, <1>3 DEF DeadEnds, Sources, AddToBdd
  <2>2. IsResidue(transitions[s])
    BY <1>1, <2>1 DEF IsDistribution
  <2>3. transitions'[s] = [t \in State |-> transitions[s][t] + (IF t = s THEN One ELSE 0)]
    BY <1>1, <1>2, <1>3 DEF SelfLoops
  <2>4. transitions'[s][s] >= One
    BY <1>1, <2>3, EpsFacts
  <2>5. ASSUME NEW t \in State
        PROVE  [transitions'[s] EXCEPT ![s] = @ - One][t] = transitions[s][t]
    <3>1. transitions[s][t] \in Int /\ One \in Int
      BY <1>1, EpsFacts
    <3>2. CASE t = s
      BY <1>1, <2>3, <3>1, <3>2
    <3>3. CASE t # s
      BY <1>1, <2>3, <3>1, <3>3
    <3> QED
      BY <3>2, <3>3
  <2>6. [transitions'[s] EXCEPT ![s] = @ - One] = transitions[s]
    BY <1>1, <2>3, <2>5
  <2> QED
    BY <2>2, <2>4, <2>6 DEF IsLoopedDeadEnd
<1>4. CASE s \notin DeadEnds
  <2>1. PICK t \in State : transitions[s][t] > Eps
    BY <1>1, <1>4 DEF DeadEnds, Sources, AddToBdd
  <2>2. IsDistribution(transitions[s])
    BY <1>1, <2>1, EpsFacts DEF IsResidue
  <2>3. transitions'[s] = [u \in State |-> transitions[s][u] + 0]
    BY <1>1, <1>2, <1>4 DEF SelfLoops
  <2>4. transitions'[s] = transitions[s]
    BY <1>1, <2>3, EpsFacts
  <2> QED
    BY <2>2, <2>4
<1> QED
  BY <1>3, <1>4

LEMMA UnloopedRows ==
  ASSUME SupportInv, RowsKept, NoDeadEnds
  PROVE  RowsWellFormed(transitions', reachable)
<1> SUFFICES ASSUME NEW s \in reachable PROVE IsDistribution(transitions[s])
  BY DEF RowsWellFormed, NoDeadEnds
<1>1. /\ s \in State
      /\ transitions[s] \in [State -> 0 .. One]
      /\ IsDistribution(transitions[s]) \/ IsResidue(transitions[s])
  BY DEF NoDeadEnds, RowsKept, SupportInv, TypeOK, Rows
<1>2. PICK t \in State : transitions[s][t] > Eps
  BY <1>1 DEF NoDeadEnds, DeadEnds, Sources, AddToBdd
<1> QED
  BY <1>1, <1>2, EpsFacts DEF IsResidue

LEMMA InitIInv == Init => IInv
  BY InitSupport DEF IInv, Init, RowsKept, RowsStochastic

LEMMA NextIInv == IInv /\ [Next]_vars => IInv'
<1> SUFFICES ASSUME IInv, [Next]_vars PROVE IInv'
  OBVIOUS
<1>0. SupportInv /\ RowsKept /\ RowsStochastic /\ SupportInv'
  BY NextSupport DEF IInv
<1>1. CASE StartSearch \/ Expand \/ Converge
  BY <1>0, <1>1 DEF StartSearch, Expand, Converge, IInv, RowsKept, RowsStochastic
<1>2. CASE FilterTransitions
  <2>1. \A s \in reachable : s \in State /\ transitions'[s] = transitions[s]
    BY <1>0, <1>2 DEF FilterTransitions, MaskRows, SupportInv, TypeOK
  <2> QED
    BY <1>0, <1>2, <2>1 DEF FilterTransitions, IInv, RowsKept, RowsStochastic
<1>3. CASE AddSelfLoops
  BY <1>0, <1>3, LoopedRows
  DEF AddSelfLoops, IInv, RowsKept, RowsStochastic, RowsWellFormed
<1>4. CASE NoDeadEnds
  BY <1>0, <1>4, UnloopedRows
  DEF NoDeadEnds, IInv, RowsKept, RowsStochastic, RowsWellFormed
<1>5. CASE UNCHANGED vars
  BY <1>0, <1>5 DEF vars, IInv, RowsKept, RowsStochastic, RowsWellFormed
<1> QED
  BY <1>1, <1>2, <1>3, <1>4, <1>5 DEF Next

THEOREM Invariant == Spec => []IInv
  BY InitIInv, NextIInv, PTL DEF Spec

-----------------------------------------------------------------------------
(* Type correctness of the search and of the filtering.                    *)
THEOREM TypeCorrect == Spec => []TypeOK
  BY Invariant, PTL DEF IInv, SupportInv

(* reachability.rs:16-29 stops with exactly the states reachable from the  *)
(* initial state, whatever the matrix.                                     *)
THEOREM Exactness == Spec => []ReachableExact
<1>1. IInv => ReachableExact
  BY DEF IInv, SupportInv, ReachableExact, SearchInside, SearchShape, ClosedUnder, Searched
<1> QED
  BY <1>1, Invariant, PTL

(* set_reachable_and_filter leaves matrix, 0-1 relation and reachable set  *)
(* in agreement.                                                           *)
THEOREM Agreement == Spec => []SupportAgrees
  BY Invariant, PTL DEF IInv, SupportInv

(* Every row of the matrix the checker gets: a reachable one is a          *)
(* distribution with an entry above the threshold, or the self-loop of a   *)
(* dead end on top of a residue of at most the threshold; every other row  *)
(* is zero.                                                                *)
THEOREM EveryRow ==
    Spec => [](/\ RowsStochastic
               /\ pc = "done" => \A s \in State \ reachable : transitions[s] = ZeroRow)
<1>1. IInv => /\ RowsStochastic
              /\ pc = "done" => \A s \in State \ reachable : transitions[s] = ZeroRow
  BY DEF IInv, SupportInv, SupportAgrees, SupportWellFormed
<1> QED
  BY <1>1, Invariant, PTL

(* The loop of reachability.rs passes at most once per reachable state.    *)
THEOREM Bounded == Spec => []IterationBound
<1>1. IInv => IterationBound
  <2> SUFFICES ASSUME IInv PROVE IterationBound
    OBVIOUS
  <2>1. Cardinality(reachable) \in Nat /\ iterations \in Nat
    BY CountIsNat DEF IInv, SupportInv, TypeOK
  <2>2. CASE pc = "start"
    <3>1. Cardinality(reachable) = 0
      BY <2>2, FS_EmptySet DEF IInv, SupportInv, SearchShape
    <3> QED
      BY <2>1, <2>2, <3>1 DEF IInv, SupportInv, SearchShape, IterationBound
  <2>3. CASE pc # "start"
    BY <2>1, <2>3 DEF IInv, SupportInv, TypeOK, SearchShape, Searched, IterationBound
  <2> QED
    BY <2>2, <2>3
<1> QED
  BY <1>1, Invariant, PTL

(* No step of the filtering changes the row of a reachable state that had  *)
(* a successor.                                                            *)
THEOREM Transparency == Spec => DistributionKept
<1> DEFINE Kept == \A s \in reachable :
                     IsDistribution(transitions[s]) => transitions'[s] = transitions[s]
<1>1. IInv /\ [Next]_vars => [Kept]_vars
  <2> SUFFICES ASSUME IInv, Next, NEW s \in reachable, IsDistribution(transitions[s])
               PROVE  transitions'[s] = transitions[s]
    BY DEF vars
  <2>1. s \in State /\ transitions[s] \in [State -> Entry]
    BY DEF IInv, SupportInv, TypeOK, Matrix
  <2>2. CASE AddSelfLoops
    <3>1. s \notin DeadEnds
      BY <2>1 DEF IsDistribution, DeadEnds, Sources, AddToBdd
    <3>2. transitions'[s] = [t \in State |-> transitions[s][t] + 0]
      BY <2>1, <2>2, <3>1 DEF AddSelfLoops, SelfLoops
    <3>3. transitions'[s] = [t \in State |-> transitions[s][t]]
      BY <2>1, <3>2, EpsFacts DEF Entry
    <3> QED
      BY <2>1, <3>3
  <2> QED
    BY <2>1, <2>2
    DEF Next, StartSearch, Expand, Converge, FilterTransitions, NoDeadEnds, MaskRows
<1> QED
  BY <1>1, Invariant, PTL DEF Spec, DistributionKept
-----------------------------------------------------------------------------
(* What is left of the model is what the property checker starts from: the *)
(* initial states of the modules of the checks, with the state the search  *)
(* ends in as their model.                                                 *)
GraphCheck(phi1, phi2) == INSTANCE UntilPrecomputation WITH
    pc <- "prob0", sol <- phi2, sNo <- {}, sYes <- {}, sQuestion <- {}

BoundedCheck(MaxK, op, left, right, k) == INSTANCE BoundedUntil WITH
    pc <- "setup", tQuestion <- [s \in State |-> ZeroRow], i <- 0, resAdd <- ZeroRow,
    scale <- 1, answer <- ZeroRow

UnboundedCheck(Lcm, Tol, MaxDen, op, left, right) == INSTANCE UnboundedUntil WITH
    pc <- "precompute", sNo <- {}, sYes <- {}, aPrime <- [s \in State |-> ZeroRow],
    sol <- ZeroRow, scale <- 1, answer <- ZeroRow

(* The edges the search followed are edges of the relation it hands over.  *)
EdgesKept ==
    pc = "done" => {e \in transRel : e[1] \in reachable} \subseteq transitions01

(* A matrix none of whose entries is lost to the threshold. *)
NoneBelowThreshold == \A s, t \in State : transitions[s][t] = 0 \/ transitions[s][t] > Eps

(* Such a matrix stays one, and in the end its reachable rows sum to one.  *)
ThresholdKept ==
    /\ pc # "done" => NoneBelowThreshold
    /\ pc = "done" =>
          /\ \A s \in reachable : RowSum(transitions, s) = One
          /\ \A s \in reachable, t \in State \ reachable : transitions[s][t] = 0

LEMMA EdgesStep == IInv /\ EdgesKept /\ [Next]_vars => EdgesKept'
<1> SUFFICES ASSUME IInv, EdgesKept, [Next]_vars PROVE EdgesKept'
  OBVIOUS
<1>1. CASE StartSearch \/ Expand \/ Converge \/ FilterTransitions
  BY <1>1 DEF StartSearch, Expand, Converge, FilterTransitions, EdgesKept
<1>2. CASE AddSelfLoops
  BY <1>2 DEF AddSelfLoops, EdgesKept, IInv, SupportInv, RelationShape
<1>3. CASE NoDeadEnds
  BY <1>3 DEF NoDeadEnds, EdgesKept, IInv, SupportInv, RelationShape
<1>4. CASE UNCHANGED vars
  BY <1>4 DEF vars, EdgesKept
<1> QED
  BY <1>1, <1>2, <1>3, <1>4 DEF Next

THEOREM EdgesInvariant == Spec => []EdgesKept
<1>1. Init => EdgesKept
  BY DEF Init, EdgesKept
<1> QED
  BY <1>1, EdgesStep, Invariant, PTL DEF Spec

(* All of the model is reachable by the relation that is handed over.      *)
LEMMA AllGenerated ==
  ASSUME IInv, EdgesKept, pc = "done"
  PROVE  Generates(init, AddToBdd(transitions), reachable)
<1> SUFFICES ASSUME NEW set \in SUBSET reachable, init \in set,
                    Image(AddToBdd(transitions), set) \subseteq set
             PROVE  set = reachable
  BY DEF Generates
<1>1. AddToBdd(transitions) = transitions01 /\ reachable \subseteq State
  BY DEF IInv, SupportInv, SupportAgrees, SupportWellFormed, TypeOK
<1>2. set \in SUBSET State
  BY <1>1
<1>3. Image(transRel, set) \subseteq set
  BY <1>1 DEF EdgesKept, Image
<1> QED
  BY <1>2, <1>3 DEF IInv, SupportInv, SearchInside, ClosedUnder

LEMMA HandedOver ==
  ASSUME IInv, EdgesKept, pc = "done"
  PROVE  /\ reachable \in SUBSET State /\ init \in reachable /\ transitions \in Matrix
         /\ SupportWellFormed(transitions, transitions01, reachable)
         /\ transitions01 = AddToBdd(transitions)
         /\ RowsWellFormed(transitions, reachable)
         /\ Generates(init, AddToBdd(transitions), reachable)
  BY AllGenerated DEF IInv, SupportInv, TypeOK, SearchShape, SupportAgrees, SupportWellFormed, RowsStochastic

(* prob0 and prob1 get a relation among the reachable states with a        *)
(* successor for each, and an initial state that leads to all of them.     *)
LEMMA GraphInit ==
  ASSUME IInv, EdgesKept, pc = "done", NEW phi1 \in SUBSET reachable, NEW phi2 \in SUBSET reachable
  PROVE  GraphCheck(phi1, phi2)!Init
<1> DEFINE Before(set) == GraphCheck(phi1, phi2)!Post(set)
<1>1. /\ reachable \in (SUBSET State) \ {{}}
      /\ transitions01 \in SUBSET (reachable \X reachable)
      /\ \A s \in reachable : \E t \in reachable : <<s, t>> \in transitions01
      /\ init \in reachable
  BY HandedOver DEF SupportWellFormed, Sources
<1>2. ASSUME NEW set \in SUBSET reachable, Before(set) \subseteq set, set # {}, init \notin set
      PROVE  FALSE
  <2> DEFINE rest == reachable \ set
  <2>1. Image(AddToBdd(transitions), rest) \subseteq rest
    <3> SUFFICES ASSUME NEW t \in State, NEW s \in rest, <<s, t>> \in transitions01
                 PROVE  t \in rest
      BY HandedOver DEF Image
    <3>1. t \in reachable
      BY <1>1
    <3>2. t \in set => s \in Before(set)
      BY DEF GraphCheck!Post
    <3> QED
      BY <1>2, <3>1, <3>2
  <2>2. rest = reachable
    BY <1>1, <1>2, <2>1, HandedOver DEF Generates
  <2> QED
    BY <1>2, <2>2
<1>3. \E s \in reachable : \A set \in SUBSET reachable :
        Before(set) \subseteq set /\ set # {} => s \in set
  BY <1>1, <1>2
<1> QED
  BY <1>1, <1>3 DEF GraphCheck!Init

(* A component's copy of the vocabulary of Dtmc is the vocabulary.         *)
LEMMA BoundedWords ==
  ASSUME NEW maxK, NEW op, NEW left, NEW right, NEW k, NEW reach, NEW m
  PROVE  /\ BoundedCheck(maxK, op, left, right, k)!Matrix = Matrix
         /\ BoundedCheck(maxK, op, left, right, k)!AddToBdd(m) = AddToBdd(m)
         /\ BoundedCheck(maxK, op, left, right, k)!RowsWellFormed(m, reach) <=> RowsWellFormed(m, reach)
<1>1. BoundedCheck(maxK, op, left, right, k)!Matrix = Matrix
  BY DEF BoundedCheck!Matrix, BoundedCheck!Entry, Matrix, Entry
<1>2. BoundedCheck(maxK, op, left, right, k)!AddToBdd(m) = AddToBdd(m)
  BY DEF BoundedCheck!AddToBdd, AddToBdd
<1>3. \A row : BoundedCheck(maxK, op, left, right, k)!SumFunction(row) = SumFunction(row)
  BY DEF SumFunction, SumFunctionOnSet, FoldFunctionOnSet, MapThenFoldSet,
         BoundedCheck!SumFunction, BoundedCheck!SumFunctionOnSet, BoundedCheck!FoldFunctionOnSet, BoundedCheck!MapThenFoldSet
<1>4. BoundedCheck(maxK, op, left, right, k)!RowsWellFormed(m, reach) <=> RowsWellFormed(m, reach)
  BY <1>3
  DEF BoundedCheck!RowsWellFormed, BoundedCheck!IsDistribution, BoundedCheck!IsLoopedDeadEnd, BoundedCheck!IsResidue,
      RowsWellFormed, IsDistribution, IsLoopedDeadEnd, IsResidue
<1> QED
  BY <1>1, <1>2, <1>4

LEMMA UnboundedWords ==
  ASSUME NEW lcm, NEW tol, NEW maxDen, NEW op, NEW left, NEW right, NEW reach, NEW m
  PROVE  /\ UnboundedCheck(lcm, tol, maxDen, op, left, right)!Matrix = Matrix
         /\ UnboundedCheck(lcm, tol, maxDen, op, left, right)!AddToBdd(m) = AddToBdd(m)
         /\ UnboundedCheck(lcm, tol, maxDen, op, left, right)!RowsWellFormed(m, reach)
              <=> RowsWellFormed(m, reach)
<1>1. UnboundedCheck(lcm, tol, maxDen, op, left, right)!Matrix = Matrix
  BY DEF UnboundedCheck!Matrix, UnboundedCheck!Entry, Matrix, Entry
<1>2. UnboundedCheck(lcm, tol, maxDen, op, left, right)!AddToBdd(m) = AddToBdd(m)
  BY DEF UnboundedCheck!AddToBdd, AddToBdd
<1>3. \A row : UnboundedCheck(lcm, tol, maxDen, op, left, right)!SumFunction(row) = SumFunction(row)
  BY DEF SumFunction, SumFunctionOnSet, FoldFunctionOnSet, MapThenFoldSet,
         UnboundedCheck!SumFunction, UnboundedCheck!SumFunctionOnSet,
         UnboundedCheck!FoldFunctionOnSet, UnboundedCheck!MapThenFoldSet
<1>4. UnboundedCheck(lcm, tol, maxDen, op, left, right)!RowsWellFormed(m, reach)
        <=> RowsWellFormed(m, reach)
  BY <1>3
  DEF UnboundedCheck!RowsWellFormed, UnboundedCheck!IsDistribution,
      UnboundedCheck!IsLoopedDeadEnd, UnboundedCheck!IsResidue,
      RowsWellFormed, IsDistribution, IsLoopedDeadEnd, IsResidue
<1> QED
  BY <1>1, <1>2, <1>4

LEMMA BoundedInit ==
  ASSUME IInv, EdgesKept, pc = "done", NEW maxK \in Nat, NEW op \in {"next", "until", "release"},
         NEW left \in SUBSET State, NEW right \in SUBSET State, NEW k \in 0 .. maxK
  PROVE  BoundedCheck(maxK, op, left, right, k)!Init
<1>1. /\ transitions \in BoundedCheck(maxK, op, left, right, k)!Matrix
      /\ BoundedCheck(maxK, op, left, right, k)!AddToBdd(transitions) = transitions01
      /\ BoundedCheck(maxK, op, left, right, k)!RowsWellFormed(transitions, reachable)
  BY HandedOver, BoundedWords
<1>2. BoundedCheck(maxK, op, left, right, k)!SupportWellFormed(transitions, transitions01, reachable)
  BY <1>1, HandedOver
  DEF BoundedCheck!SupportWellFormed, BoundedCheck!Sources, BoundedCheck!ZeroRow,
      SupportWellFormed, Sources, ZeroRow
<1>3. BoundedCheck(maxK, op, left, right, k)!Generates(init, transitions01, reachable)
  BY HandedOver DEF BoundedCheck!Generates, BoundedCheck!Image, Generates, Image
<1> QED
  BY <1>1, <1>2, <1>3, HandedOver DEF BoundedCheck!Init, BoundedCheck!ZeroRow, ZeroRow

LEMMA UnboundedInit ==
  ASSUME IInv, EdgesKept, pc = "done", NEW lcm, NEW tol, NEW maxDen, NEW op \in {"until", "release"},
         NEW left \in SUBSET State, NEW right \in SUBSET State
  PROVE  UnboundedCheck(lcm, tol, maxDen, op, left, right)!Init
<1>1. /\ transitions \in UnboundedCheck(lcm, tol, maxDen, op, left, right)!Matrix
      /\ UnboundedCheck(lcm, tol, maxDen, op, left, right)!AddToBdd(transitions) = transitions01
      /\ UnboundedCheck(lcm, tol, maxDen, op, left, right)!RowsWellFormed(transitions, reachable)
  BY HandedOver, UnboundedWords
<1>2. UnboundedCheck(lcm, tol, maxDen, op, left, right)!SupportWellFormed(transitions, transitions01, reachable)
  BY <1>1, HandedOver
  DEF UnboundedCheck!SupportWellFormed, UnboundedCheck!Sources, UnboundedCheck!ZeroRow,
      SupportWellFormed, Sources, ZeroRow
<1>3. UnboundedCheck(lcm, tol, maxDen, op, left, right)!Generates(init, transitions01, reachable)
  BY HandedOver DEF UnboundedCheck!Generates, UnboundedCheck!Image, Generates, Image
<1> QED
  BY <1>1, <1>2, <1>3, HandedOver DEF UnboundedCheck!Init, UnboundedCheck!ZeroRow, ZeroRow

(* Every check of a path formula starts from a state its own theorems      *)
(* start from, whatever the matrix, the operands and the bound: what they  *)
(* prove holds of the model that set_reachable_and_filter leaves           *)
(* (main.rs:198-243, symbolic_dtmc.rs:240-290).                            *)
THEOREM ChecksStartInOrder ==
  Spec => [](pc = "done" =>
    /\ \A phi1, phi2 \in SUBSET reachable : GraphCheck(phi1, phi2)!Init
    /\ \A maxK \in Nat : \A op \in {"next", "until", "release"} :
         \A left, right \in SUBSET State, k \in 0 .. maxK :
           BoundedCheck(maxK, op, left, right, k)!Init
    /\ \A lcm, tol, maxDen \in Nat : \A op \in {"until", "release"} :
         \A left, right \in SUBSET State :
           UnboundedCheck(lcm, tol, maxDen, op, left, right)!Init)
<1> DEFINE Ready ==
      /\ \A phi1, phi2 \in SUBSET reachable : GraphCheck(phi1, phi2)!Init
      /\ \A maxK \in Nat : \A op \in {"next", "until", "release"} :
           \A left, right \in SUBSET State, k \in 0 .. maxK :
             BoundedCheck(maxK, op, left, right, k)!Init
      /\ \A lcm, tol, maxDen \in Nat : \A op \in {"until", "release"} :
           \A left, right \in SUBSET State :
             UnboundedCheck(lcm, tol, maxDen, op, left, right)!Init
<1>1. IInv /\ EdgesKept => (pc = "done" => Ready)
  <2> SUFFICES ASSUME IInv, EdgesKept, pc = "done" PROVE Ready
    OBVIOUS
  <2>1. \A phi1, phi2 \in SUBSET reachable : GraphCheck(phi1, phi2)!Init
    BY GraphInit
  <2>2. \A maxK \in Nat : \A op \in {"next", "until", "release"} :
          \A left, right \in SUBSET State, k \in 0 .. maxK :
            BoundedCheck(maxK, op, left, right, k)!Init
    BY BoundedInit
  <2>3. \A lcm, tol, maxDen \in Nat : \A op \in {"until", "release"} :
          \A left, right \in SUBSET State :
            UnboundedCheck(lcm, tol, maxDen, op, left, right)!Init
    BY UnboundedInit
  <2> QED
    BY <2>1, <2>2, <2>3
<1> HIDE DEF Ready
<1>2. Spec => [](pc = "done" => Ready)
  BY <1>1, Invariant, EdgesInvariant, PTL
<1> QED
  BY <1>2 DEF Ready

(* A reachable row with a successor was divided by its sum.                *)
LEMMA SuccessorRow ==
  ASSUME IInv, pc = "dead_ends", NEW s \in reachable, s \notin DeadEnds
  PROVE  IsDistribution(transitions[s])
<1>1. /\ s \in State /\ transitions[s] \in [State -> 0 .. One]
      /\ IsDistribution(transitions[s]) \/ IsResidue(transitions[s])
  BY DEF IInv, SupportInv, TypeOK, RowsKept, Rows
<1>2. PICK t \in State : transitions[s][t] > Eps
  BY <1>1 DEF DeadEnds, Sources, AddToBdd
<1> QED
  BY <1>1, <1>2, EpsFacts DEF IsResidue

(* In a matrix without entries below the threshold the row of a dead end   *)
(* is empty before it gets its self-loop, and no row has mass on states    *)
(* that do not count as its successors.                                    *)
LEMMA LoopedSums ==
  ASSUME IInv, IInv', NoneBelowThreshold, AddSelfLoops, NEW s \in reachable
  PROVE  /\ RowSum(transitions', s) = One
         /\ \A t \in State \ reachable : transitions'[s][t] = 0
<1>1. /\ s \in State /\ reachable \subseteq State /\ transitions \in [State -> [State -> 0 .. One]]
      /\ pc = "dead_ends" /\ pc' = "done" /\ reachable' = reachable
  BY DEF AddSelfLoops, IInv, SupportInv, TypeOK, Unlooped
<1>2. transitions'[s] = [t \in State |->
          transitions[s][t] + (IF <<s, t>> \in SelfLoops(DeadEnds) THEN One ELSE 0)]
  BY <1>1 DEF AddSelfLoops
<1>3. RowSum(transitions', s) = One
  <2>1. CASE s \in DeadEnds
    <3>1. \A t \in State : transitions[s][t] = 0
      BY <1>1, <2>1 DEF DeadEnds, Sources, AddToBdd, NoneBelowThreshold
    <3>2. \A t \in State : <<s, t>> \in SelfLoops(DeadEnds) <=> t = s
      BY <2>1 DEF SelfLoops
    <3>3. transitions'[s] = Spike(State, s, One)
      BY <1>2, <3>1, <3>2, EpsFacts DEF Spike
    <3> QED
      BY <1>1, <3>3, SumSpike, EpsFacts DEF RowSum
  <2>2. CASE s \notin DeadEnds
    <3>1. transitions'[s] = [t \in State |-> transitions[s][t] + 0]
      BY <1>2, <2>2 DEF SelfLoops
    <3>2. transitions'[s] = transitions[s]
      BY <1>1, <3>1
    <3> QED
      BY <1>1, <2>2, <3>2, SuccessorRow DEF IsDistribution, RowSum
  <2> QED
    BY <2>1, <2>2
<1>4. ASSUME NEW t \in State \ reachable PROVE transitions'[s][t] = 0
  <2>1. <<s, t>> \notin SelfLoops(DeadEnds)
    BY <1>1 DEF SelfLoops
  <2>2. transitions'[s][t] = transitions[s][t] + 0
    BY <1>2, <2>1
  <2>3. transitions'[s][t] = transitions[s][t]
    BY <1>1, <2>2
  <2>4. AddToBdd(transitions') \subseteq reachable \X reachable
    BY <1>1 DEF IInv, SupportInv, SupportAgrees, SupportWellFormed
  <2>5. ~ (transitions'[s][t] > Eps)
    <3>1. t \in State /\ <<s, t>> \notin AddToBdd(transitions')
      BY <1>1, <2>4
    <3> QED
      BY <1>1, <3>1 DEF AddToBdd
  <2> QED
    BY <1>1, <2>3, <2>5 DEF NoneBelowThreshold
<1> QED
  BY <1>3, <1>4

LEMMA UnloopedSums ==
  ASSUME IInv, IInv', NoneBelowThreshold, NoDeadEnds, NEW s \in reachable
  PROVE  /\ RowSum(transitions', s) = One
         /\ \A t \in State \ reachable : transitions'[s][t] = 0
<1>1. /\ s \in State /\ pc = "dead_ends" /\ pc' = "done"
      /\ reachable' = reachable /\ transitions' = transitions /\ reachable \subseteq State
  BY DEF NoDeadEnds, IInv, SupportInv, TypeOK
<1>2. RowSum(transitions', s) = One
  BY <1>1, SuccessorRow DEF IsDistribution, RowSum, NoDeadEnds
<1>3. AddToBdd(transitions') \subseteq reachable \X reachable
  BY <1>1 DEF IInv, SupportInv, SupportAgrees, SupportWellFormed
<1>4. ASSUME NEW t \in State \ reachable PROVE transitions'[s][t] = 0
  <2>1. t \in State /\ <<s, t>> \notin AddToBdd(transitions')
    BY <1>3
  <2> QED
    BY <1>1, <2>1 DEF AddToBdd, NoneBelowThreshold
<1> QED
  BY <1>2, <1>4

LEMMA ThresholdStep == IInv /\ IInv' /\ ThresholdKept /\ [Next]_vars => ThresholdKept'
<1> SUFFICES ASSUME IInv, IInv', ThresholdKept, [Next]_vars PROVE ThresholdKept'
  OBVIOUS
<1>1. CASE StartSearch \/ Expand \/ Converge
  BY <1>1 DEF StartSearch, Expand, Converge, ThresholdKept, NoneBelowThreshold
<1>2. CASE FilterTransitions
  BY <1>2 DEF FilterTransitions, MaskRows, ZeroRow, ThresholdKept, NoneBelowThreshold
<1>3. CASE AddSelfLoops
  <2>1. NoneBelowThreshold /\ pc' = "done" /\ reachable' = reachable
    BY <1>3 DEF AddSelfLoops, ThresholdKept
  <2>2. \A s \in reachable : RowSum(transitions', s) = One
                               /\ \A t \in State \ reachable : transitions'[s][t] = 0
    BY <1>3, <2>1, LoopedSums
  <2> QED
    BY <2>1, <2>2 DEF ThresholdKept, RowSum
<1>4. CASE NoDeadEnds
  <2>1. NoneBelowThreshold /\ pc' = "done" /\ reachable' = reachable
    BY <1>4 DEF NoDeadEnds, ThresholdKept
  <2>2. \A s \in reachable : RowSum(transitions', s) = One
                               /\ \A t \in State \ reachable : transitions'[s][t] = 0
    BY <1>4, <2>1, UnloopedSums
  <2> QED
    BY <2>1, <2>2 DEF ThresholdKept, RowSum
<1>5. CASE UNCHANGED vars
  BY <1>5 DEF vars, ThresholdKept, NoneBelowThreshold, RowSum
<1> QED
  BY <1>1, <1>2, <1>3, <1>4, <1>5 DEF Next

LEMMA ExactInit ==
  ASSUME ThresholdKept, pc = "done", NEW maxK, NEW op, NEW left, NEW right, NEW k
  PROVE  BoundedCheck(maxK, op, left, right, k)!ExactModel
<1>1. \A row : BoundedCheck(maxK, op, left, right, k)!SumFunction(row) = SumFunction(row)
  BY DEF SumFunction, SumFunctionOnSet, FoldFunctionOnSet, MapThenFoldSet,
         BoundedCheck!SumFunction, BoundedCheck!SumFunctionOnSet,
         BoundedCheck!FoldFunctionOnSet, BoundedCheck!MapThenFoldSet
<1> QED
  BY <1>1 DEF ThresholdKept, BoundedCheck!ExactModel, BoundedCheck!RowSum, RowSum

(* If none of its probabilities is below the threshold when the search     *)
(* starts, the model the bounded checks get is exact: each reachable row   *)
(* sums to one and has nothing on unreachable states.  This is what        *)
(* AnswerIsPathProbability of BoundedUntil asks of the model, so that the  *)
(* printed number is the probability of the paths.                         *)
THEOREM ExactModelHandedOver ==
  Spec /\ NoneBelowThreshold => [](pc = "done" =>
    \A maxK \in Nat : \A op \in {"next", "until", "release"} :
      \A left, right \in SUBSET State, k \in 0 .. maxK :
        BoundedCheck(maxK, op, left, right, k)!ExactModel)
<1> DEFINE Exact ==
      \A maxK \in Nat : \A op \in {"next", "until", "release"} :
        \A left, right \in SUBSET State, k \in 0 .. maxK :
          BoundedCheck(maxK, op, left, right, k)!ExactModel
<1>1. ThresholdKept => (pc = "done" => Exact)
  BY ExactInit
<1>2. Init /\ NoneBelowThreshold => ThresholdKept
  BY DEF Init, ThresholdKept
<1> HIDE DEF Exact
<1>3. Spec /\ NoneBelowThreshold => [](pc = "done" => Exact)
  BY <1>1, <1>2, ThresholdStep, Invariant, PTL DEF Spec
<1> QED
  BY <1>3 DEF Exact
=============================================================================
