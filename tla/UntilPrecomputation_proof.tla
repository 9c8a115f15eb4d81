---------------------- MODULE UntilPrecomputation_proof ---------------------
(***************************************************************************)
(* The graph precomputation is right for every finite chain: it implements *)
(* QualitativeUntil, and what it leaves to the solver holds no trap.       *)
(***************************************************************************)
EXTENDS UntilPrecomputation, FiniteSetTheorems, WellFoundedInduction, TLAPS

Orbit(s) == Abstract!Orbit(s)

NeverSet == {s \in reachable : Abstract!Never(s)}

(* The states from which a run can visit the set. *)
Leads(set) == {s \in reachable : Orbit(s) \intersect set # {}}

(* One backward step of either fixpoint stays in the set. *)
BackClosed(set) == (phi1 \ phi2) \intersect Post(set) \subseteq set

(* sol is inside every set that holds the base and is closed backwards. *)
SolInside(base) ==
    \A set \in SUBSET reachable : base \subseteq set /\ BackClosed(set) => sol \subseteq set

Chain ==
    /\ reachable \in SUBSET State
    /\ transitions01 \in SUBSET (reachable \X reachable)
    /\ phi1 \in SUBSET reachable
    /\ phi2 \in SUBSET reachable

(* The inductive invariant: while a fixpoint runs, sol lies between its    *)
(* base and the least closed set; afterwards the result is named in terms  *)
(* of the runs of the chain.                                               *)
IInv ==
    /\ TypeOK
    /\ pc = "prob0" => phi2 \subseteq sol /\ SolInside(phi2)
    /\ pc # "prob0" => sNo = NeverSet
    /\ pc = "prob1" => sNo \subseteq sol /\ SolInside(sNo)
    /\ pc \in {"split", "done"} => sYes = reachable \ Leads(sNo)
    /\ pc = "done" => sQuestion = reachable \ (sNo \union sYes)

-----------------------------------------------------------------------------
(* Facts about the runs of the chain.                                      *)

LEMMA OrbitSelf ==
  ASSUME NEW s \in reachable
  PROVE  s \in Orbit(s) /\ Orbit(s) \subseteq reachable
  BY DEF Orbit, Abstract!Orbit

LEMMA OrbitWithin ==
  ASSUME NEW s, NEW set \in SUBSET reachable, s \in set, Abstract!FollowClosed(set)
  PROVE  Orbit(s) \subseteq set
  BY DEF Orbit, Abstract!Orbit

LEMMA OrbitClosed ==
  ASSUME NEW s \in reachable
  PROVE  Abstract!FollowClosed(Orbit(s))
<1> SUFFICES ASSUME NEW t \in Orbit(s), NEW u \in Abstract!Follow(t)
             PROVE  u \in Orbit(s)
  BY DEF Abstract!FollowClosed
<1>1. t \in reachable
  BY OrbitSelf
<1>2. u \in reachable
  BY <1>1 DEF Abstract!Follow
<1>3. ASSUME NEW set \in SUBSET reachable, s \in set, Abstract!FollowClosed(set)
      PROVE  u \in set
  <2>1. t \in set
    BY <1>3, OrbitWithin
  <2> QED
    BY <1>3, <2>1 DEF Abstract!FollowClosed
<1> QED
  BY <1>2, <1>3 DEF Orbit, Abstract!Orbit

LEMMA OrbitMonotone ==
  ASSUME NEW s \in reachable, NEW t \in Orbit(s)
  PROVE  t \in reachable /\ Orbit(t) \subseteq Orbit(s)
  BY OrbitSelf, OrbitClosed, OrbitWithin

LEMMA OrbitOfSettled ==
  ASSUME NEW s \in reachable, s \notin phi1 \ phi2
  PROVE  Orbit(s) = {s}
<1>1. Abstract!FollowClosed({s})
  BY DEF Abstract!FollowClosed, Abstract!Follow
<1> QED
  BY <1>1, OrbitSelf, OrbitWithin

LEMMA OrbitOfSuccessor ==
  ASSUME NEW s \in phi1 \ phi2, s \in reachable, NEW t \in reachable,
         <<s, t>> \in transitions01
  PROVE  Orbit(t) \subseteq Orbit(s)
<1>1. t \in Abstract!Follow(s)
  BY DEF Abstract!Follow
<1>2. t \in Orbit(s)
  BY <1>1, OrbitSelf, OrbitClosed DEF Abstract!FollowClosed
<1> QED
  BY <1>2, OrbitMonotone

(* The least backward closed set that holds the base is the set of states  *)
(* from which a run visits the base.                                       *)
LEMMA BackwardReach ==
  ASSUME Chain, NEW base \in SUBSET reachable,
         sol \in SUBSET reachable, base \subseteq sol, BackClosed(sol), SolInside(base)
  PROVE  sol = Leads(base)
<1>1. sol \subseteq Leads(base)
  <2>1. base \subseteq Leads(base)
    BY OrbitSelf DEF Leads
  <2>2. BackClosed(Leads(base))
    <3> SUFFICES ASSUME NEW s \in phi1 \ phi2, s \in Post(Leads(base))
                 PROVE  s \in Leads(base)
      BY DEF BackClosed
    <3>1. PICK t \in Leads(base) : <<s, t>> \in transitions01
      BY DEF Post
    <3>2. s \in reachable /\ t \in reachable
      BY <3>1 DEF Post, Leads
    <3>3. Orbit(t) \subseteq Orbit(s)
      BY <3>1, <3>2, OrbitOfSuccessor
    <3> QED
      BY <3>1, <3>2, <3>3 DEF Leads
  <2>3. Leads(base) \in SUBSET reachable
    BY DEF Leads
  <2> QED
    BY <2>1, <2>2, <2>3 DEF SolInside
<1>2. ASSUME NEW s \in reachable, s \notin sol
      PROVE  Orbit(s) \intersect base = {}
  <2> DEFINE rest == reachable \ sol
  <2>1. Abstract!FollowClosed(rest)
    BY DEF Abstract!FollowClosed, Abstract!Follow, BackClosed, Post
  <2>2. Orbit(s) \subseteq rest
    BY <1>2, <2>1, OrbitWithin
  <2> QED
    BY <2>2
<1> QED
  BY <1>1, <1>2 DEF Leads

(* Every state leads into a bottom component: of the states on its runs    *)
(* take one with the fewest states on its own.                             *)
LEMMA BottomExists ==
  ASSUME Chain, NEW n \in reachable
  PROVE  \E t \in Orbit(n) : Abstract!Bottom(t)
<1> DEFINE sizes == {Cardinality(Orbit(t)) : t \in Orbit(n)}
<1>1. \A t \in Orbit(n) : IsFiniteSet(Orbit(t)) /\ Cardinality(Orbit(t)) \in Nat
  <2> SUFFICES ASSUME NEW t \in Orbit(n)
               PROVE  IsFiniteSet(Orbit(t)) /\ Cardinality(Orbit(t)) \in Nat
    OBVIOUS
  <2>1. Orbit(t) \subseteq State
    BY OrbitMonotone, OrbitSelf DEF Chain
  <2> QED
    BY <2>1, StateFinite, FS_Subset, FS_CardinalityType
<1>2. sizes \subseteq Nat /\ sizes # {}
  BY <1>1, OrbitSelf
<1>3. PICK m \in sizes : \A k \in sizes : ~ (<<k, m>> \in OpToRel(<, Nat))
  BY <1>2, NatLessThanWellFounded, WFMin
<1>4. \A k \in sizes : ~ (k < m)
  BY <1>2, <1>3 DEF OpToRel
<1>5. PICK t \in Orbit(n) : Cardinality(Orbit(t)) = m
  BY <1>3
<1>6. ASSUME NEW u \in Orbit(t)
      PROVE  t \in Orbit(u)
  <2>1. t \in reachable /\ u \in Orbit(n) /\ Orbit(u) \subseteq Orbit(t)
    BY OrbitMonotone
  <2>2. Cardinality(Orbit(u)) \in sizes
    BY <2>1
  <2>3. ~ (Cardinality(Orbit(u)) < Cardinality(Orbit(t)))
    BY <1>4, <1>5, <2>2
  <2>4. Orbit(u) = Orbit(t)
    BY <1>1, <2>1, <2>3, FS_Subset
  <2> QED
    BY <2>1, <2>4, OrbitSelf
<1> QED
  BY <1>6 DEF Abstract!Bottom, Orbit

(* Meeting phi2 almost surely is the same as never meeting a state from    *)
(* which phi2 is out of reach.                                             *)
LEMMA AlmostSurelyIsAvoidance ==
  ASSUME Chain, NEW s \in reachable
  PROVE  Abstract!AlmostSurely(s) <=> s \notin Leads(NeverSet)
<1>1. ASSUME s \notin Leads(NeverSet)
      PROVE  Abstract!AlmostSurely(s)
  <2> SUFFICES ASSUME NEW t \in Orbit(s), Abstract!Bottom(t)
               PROVE  t \in phi2
    BY DEF Abstract!AlmostSurely, Orbit
  <2>1. t \in reachable /\ t \notin NeverSet
    BY <1>1, OrbitMonotone DEF Leads
  <2>2. PICK u \in Orbit(t) : u \in phi2
    BY <2>1 DEF NeverSet, Abstract!Never, Orbit
  <2>3. Orbit(u) = {u}
    BY <2>1, <2>2, OrbitMonotone, OrbitOfSettled
  <2>4. t \in Orbit(u)
    BY <2>2 DEF Abstract!Bottom, Orbit
  <2> QED
    BY <2>2, <2>3, <2>4
<1>2. ASSUME s \in Leads(NeverSet)
      PROVE  ~ Abstract!AlmostSurely(s)
  <2>1. PICK n \in Orbit(s) : n \in NeverSet
    BY <1>2 DEF Leads
  <2>2. PICK t \in Orbit(n) : Abstract!Bottom(t)
    BY <2>1, BottomExists DEF NeverSet
  <2>3. t \in Orbit(s)
    BY <2>1, OrbitMonotone
  <2>4. t \notin phi2
    BY <2>1, <2>2 DEF NeverSet, Abstract!Never, Orbit
  <2> QED
    BY <2>2, <2>3, <2>4 DEF Abstract!AlmostSurely, Orbit
<1> QED
  BY <1>1, <1>2

LEMMA NeverIsAvoidance == NeverSet = reachable \ Leads(phi2)
  BY DEF NeverSet, Leads, Abstract!Never, Orbit

(* The chain does not change, so neither does what is defined from it. *)
LEMMA Rigid ==
  ASSUME UNCHANGED model
  PROVE  /\ NeverSet' = NeverSet
         /\ \A set : Leads(set)' = Leads(set)
         /\ \A set : BackClosed(set)' = BackClosed(set)
  BY DEF model, NeverSet, Leads, Orbit, BackClosed, Post, Abstract!Never, Abstract!Orbit,
         Abstract!FollowClosed, Abstract!Follow

-----------------------------------------------------------------------------
(* The inductive invariant.                                                *)

LEMMA InitIInv == Init => IInv
  BY DEF Init, IInv, TypeOK, SolInside

LEMMA NextIInv == IInv /\ [Next]_vars => IInv'
<1> SUFFICES ASSUME IInv, [Next]_vars PROVE IInv'
  OBVIOUS
<1>0. Chain /\ TypeOK
  BY DEF IInv, TypeOK, Chain
<1>1. UNCHANGED model
  BY DEF Next, vars, model, GrowProb0, ReturnProb0, GrowProb1, ReturnProb1, Split
<1>2. /\ NeverSet' = NeverSet
      /\ \A set : Leads(set)' = Leads(set)
      /\ \A set : BackClosed(set)' = BackClosed(set)
  BY <1>1, Rigid
<1>3. CASE GrowProb0
  <2>1. Prob0Step \subseteq reachable /\ sol \subseteq Prob0Step
    BY <1>0 DEF Prob0Step, TypeOK
  <2>2. TypeOK'
    BY <1>0, <1>3, <2>1 DEF GrowProb0, TypeOK
  <2>3. phi2' \subseteq sol'
    BY <1>3, <2>1 DEF GrowProb0, IInv
  <2>4. SolInside(phi2)'
    <3> SUFFICES ASSUME NEW set \in SUBSET reachable, phi2 \subseteq set, BackClosed(set)
                 PROVE  Prob0Step \subseteq set
      BY <1>1, <1>2, <1>3 DEF SolInside, GrowProb0, model
    <3>1. sol \subseteq set
      BY <1>3 DEF IInv, SolInside, GrowProb0
    <3> QED
      BY <3>1 DEF Prob0Step, BackClosed, Post
  <2> QED
    BY <1>3, <2>2, <2>3, <2>4 DEF IInv, GrowProb0
<1>4. CASE ReturnProb0
  <2>1. sol = Leads(phi2)
    <3>1. BackClosed(sol)
      BY <1>4 DEF ReturnProb0, Prob0Step, BackClosed
    <3> QED
      BY <1>0, <1>4, <3>1, BackwardReach DEF IInv, TypeOK, ReturnProb0
  <2>2. sNo' = NeverSet /\ sol' = sNo'
    BY <1>4, <2>1, NeverIsAvoidance DEF ReturnProb0
  <2>3. TypeOK'
    BY <1>0, <1>4, <2>2 DEF ReturnProb0, TypeOK, NeverSet
  <2>4. SolInside(sNo)'
    BY <1>4 DEF SolInside, ReturnProb0
  <2> QED
    BY <1>2, <1>4, <2>2, <2>3, <2>4 DEF IInv, ReturnProb0
<1>5. CASE GrowProb1
  <2>1. Prob1Step \subseteq reachable /\ sol \subseteq Prob1Step
    BY <1>0 DEF Prob1Step, TypeOK
  <2>2. TypeOK'
    BY <1>0, <1>5, <2>1 DEF GrowProb1, TypeOK
  <2>3. sNo' \subseteq sol'
    BY <1>5, <2>1 DEF GrowProb1, IInv
  <2>4. SolInside(sNo)'
    <3> SUFFICES ASSUME NEW set \in SUBSET reachable, sNo \subseteq set, BackClosed(set)
                 PROVE  Prob1Step \subseteq set
      BY <1>1, <1>2, <1>5 DEF SolInside, GrowProb1, model
    <3>1. sol \subseteq set
      BY <1>5 DEF IInv, SolInside, GrowProb1
    <3> QED
      BY <3>1 DEF Prob1Step, BackClosed, Post
  <2> QED
    BY <1>2, <1>5, <2>2, <2>3, <2>4 DEF IInv, GrowProb1
<1>6. CASE ReturnProb1
  <2>1. sol = Leads(sNo)
    <3>1. BackClosed(sol)
      BY <1>6 DEF ReturnProb1, Prob1Step, BackClosed
    <3> QED
      BY <1>0, <1>6, <3>1, BackwardReach DEF IInv, TypeOK, ReturnProb1
  <2>2. sYes' = reachable \ Leads(sNo)
    BY <1>6, <2>1 DEF ReturnProb1
  <2>3. TypeOK'
    BY <1>0, <1>6, <2>2 DEF ReturnProb1, TypeOK
  <2>4. sYes' = (reachable \ Leads(sNo))'
    BY <1>2, <1>6, <2>2 DEF ReturnProb1
  <2> QED
    BY <1>2, <1>6, <2>3, <2>4 DEF IInv, ReturnProb1
<1>7. CASE Split
  <2>1. TypeOK'
    BY <1>0, <1>7 DEF Split, TypeOK
  <2>2. (sYes = reachable \ Leads(sNo))'
    BY <1>2, <1>7 DEF IInv, Split
  <2> QED
    BY <1>2, <1>7, <2>1, <2>2 DEF IInv, Split
<1>8. CASE UNCHANGED vars
  <2>1. TypeOK' /\ SolInside(phi2)' = SolInside(phi2) /\ SolInside(sNo)' = SolInside(sNo)
    BY <1>0, <1>2, <1>8 DEF vars, TypeOK, SolInside
  <2>2. Leads(sNo)' = Leads(sNo)
    BY <1>2, <1>8 DEF vars
  <2> QED
    BY <1>2, <1>8, <2>1, <2>2 DEF IInv, vars
<1> QED
  BY <1>3, <1>4, <1>5, <1>6, <1>7, <1>8 DEF Next

THEOREM Invariant == Spec => []IInv
  BY InitIInv, NextIInv, PTL DEF Spec

-----------------------------------------------------------------------------
(* Type correctness of the precomputation: in particular no fixpoint       *)
(* leaves the reachable states.                                            *)
THEOREM TypeCorrect == Spec => []TypeOK
  BY Invariant, PTL DEF IInv

(* The sets of yes, no and undecided states split the reachable states and *)
(* respect the operands.                                                   *)
THEOREM Partitioned == Spec => []Partition
<1>1. IInv => Partition
  <2> SUFFICES ASSUME IInv, pc = "done" PROVE Partition
    BY DEF Partition
  <2>0. /\ sNo = NeverSet /\ sYes = reachable \ Leads(sNo)
        /\ sQuestion = reachable \ (sNo \union sYes)
        /\ phi2 \subseteq reachable
    BY DEF IInv, TypeOK
  <2>1. sNo \intersect sYes = {}
    BY <2>0, OrbitSelf DEF NeverSet, Leads
  <2>2. ASSUME NEW s \in phi2 PROVE s \in sYes
    <3>1. s \in reachable /\ Orbit(s) = {s}
      BY <2>0, OrbitOfSettled
    <3> QED
      BY <2>0, <3>1 DEF NeverSet, Leads, Abstract!Never, Orbit
  <2>3. ASSUME NEW s \in reachable \ (phi1 \union phi2) PROVE s \in sNo
    <3>1. Orbit(s) = {s}
      BY OrbitOfSettled
    <3> QED
      BY <2>0, <3>1 DEF NeverSet, Abstract!Never, Orbit
  <2> QED
    BY <2>0, <2>1, <2>2, <2>3 DEF Partition
<1> QED
  BY <1>1, Invariant, PTL

(* No set of undecided states is closed: what makes the equations solvable *)
(* that solve_jacobi iterates.                                             *)
THEOREM Trapless == Spec => []NoTrap
<1>1. IInv => NoTrap
  <2> SUFFICES ASSUME IInv, pc = "done",
                      NEW trap \in SUBSET sQuestion, trap # {},
                      \A s \in trap, t \in reachable \ trap : <<s, t>> \notin transitions01
               PROVE  FALSE
    BY DEF NoTrap
  <2>1. trap \in SUBSET reachable /\ sQuestion = reachable \ (sNo \union sYes)
        /\ sYes = reachable \ Leads(sNo)
    BY DEF IInv, TypeOK
  <2>2. PICK s \in trap : TRUE
    OBVIOUS
  <2>3. Abstract!FollowClosed(trap)
    BY <2>1 DEF Abstract!FollowClosed, Abstract!Follow
  <2>4. Orbit(s) \subseteq trap
    BY <2>1, <2>3, OrbitWithin
  <2>5. Orbit(s) \intersect sNo = {}
    BY <2>1, <2>4
  <2> QED
    BY <2>1, <2>2, <2>5 DEF Leads
<1> QED
  BY <1>1, Invariant, PTL

(* prob0 and prob1 implement the verdicts of QualitativeUntil: the two     *)
(* fixpoints never show a partial answer and end in the right one.         *)
THEOREM Refinement == Spec => ImplementsQualitativeUntil
<1>1. Init => Abstract!Init
  BY DEF Init, Abstract!Init, Verdict, Abstract!Unknown
<1>2. IInv /\ IInv' /\ [Next]_vars => [Abstract!Classify]_(Abstract!vars)
  <2> SUFFICES ASSUME IInv, IInv', [Next]_vars
               PROVE  [Abstract!Classify]_(Abstract!vars)
    OBVIOUS
  <2>0. UNCHANGED model
    BY DEF Next, vars, model, GrowProb0, ReturnProb0, GrowProb1, ReturnProb1, Split
  <2>1. CASE Split
    <3>1. Verdict = Abstract!Unknown
      BY <2>1 DEF Split, Verdict, Abstract!Unknown
    <3>2. Verdict' = Abstract!Answer
      <4>0. /\ sNo = NeverSet
            /\ sYes = reachable \ Leads(NeverSet)
        BY <2>1 DEF IInv, Split
      <4>1. Verdict' = [s \in reachable |->
                          IF s \in sNo THEN "no"
                          ELSE IF s \in reachable \ (sNo \union sYes) THEN "maybe"
                          ELSE "yes"]
        BY <2>1 DEF Split, Verdict
      <4>2. \A s \in reachable : s \in sNo <=> Abstract!Never(s)
        BY <4>0 DEF NeverSet
      <4>3. \A s \in reachable : s \in sYes <=> Abstract!AlmostSurely(s)
        BY <4>0, AlmostSurelyIsAvoidance DEF IInv, TypeOK, Chain
      <4> QED
        BY <4>1, <4>2, <4>3 DEF Abstract!Answer
    <3> QED
      BY <2>0, <3>1, <3>2 DEF Abstract!Classify, model
  <2>2. CASE ~ Split
    <3>1. Verdict' = Verdict
      BY <2>2 DEF Next, vars, Verdict, GrowProb0, ReturnProb0, GrowProb1, ReturnProb1
    <3> QED
      BY <2>0, <3>1 DEF Abstract!vars, model
  <2> QED
    BY <2>1, <2>2
<1> QED
  BY <1>1, <1>2, Invariant, PTL DEF Spec, ImplementsQualitativeUntil, Abstract!Spec
=============================================================================
