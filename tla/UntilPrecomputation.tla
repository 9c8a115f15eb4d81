------------------------ MODULE UntilPrecomputation -------------------------
(***************************************************************************)
(* The graph part of check_unbounded_until_probability_add                 *)
(* (src/src/sym_check.rs): prob0, prob1 and the split of the reachable     *)
(* states into s_no, s_yes and s_question that the linear equation system  *)
(* is set up from.                                                         *)
(***************************************************************************)
EXTENDS FiniteSets

CONSTANT State  \* the valuations of the current-state bits

ASSUME StateFinite == IsFiniteSet(State)

VARIABLES
    pc,             \* which of the functions runs
    reachable,      \* get_reachable_bdd
    transitions01,  \* get_transitions_01
    phi1, phi2,     \* phi1_bdd and phi2_bdd, cut to the reachable states
    sol,            \* the set the running fixpoint has grown so far
    sNo, sYes,      \* the results of prob0 and prob1
    sQuestion       \* the states left to the solver

model == <<reachable, transitions01, phi1, phi2>>
vars == <<pc, reachable, transitions01, phi1, phi2, sol, sNo, sYes, sQuestion>>

TypeOK ==
    /\ pc \in {"prob0", "prob1", "split", "done"}
    /\ reachable \in SUBSET State
    /\ transitions01 \in SUBSET (reachable \X reachable)
    /\ phi1 \in SUBSET reachable
    /\ phi2 \in SUBSET reachable
    /\ sol \in SUBSET reachable
    /\ sNo \in SUBSET reachable
    /\ sYes \in SUBSET reachable
    /\ sQuestion \in SUBSET reachable

(* bdd_and_then_existsabs with the renamed set over the next-state bits:   *)
(* the states with a successor in the set.                                 *)
Post(set) == {s \in reachable : \E t \in set : <<s, t>> \in transitions01}

(* Reachability hands over the states reachable from an initial one and a  *)
(* relation among them with a successor for each;  state_formula_to_bdd    *)
(* cuts the operands to the reachable states.  That all states are         *)
(* reachable from init is said by its consequence for closed sets: every   *)
(* nonempty set that holds the predecessors of its members holds init.     *)
(* prob0 starts its fixpoint from phi2.                                    *)
Init ==
    /\ reachable \in (SUBSET State) \ {{}}
    /\ transitions01 \in SUBSET (reachable \X reachable)
    /\ \A s \in reachable : \E t \in reachable : <<s, t>> \in transitions01
    /\ \E init \in reachable : \A set \in SUBSET reachable :
          Post(set) \subseteq set /\ set # {} => init \in set
    /\ phi1 \in SUBSET reachable
    /\ phi2 \in SUBSET reachable
    /\ pc = "prob0"
    /\ sol = phi2
    /\ sNo = {} /\ sYes = {} /\ sQuestion = {}

-----------------------------------------------------------------------------
(* Slip: phi1 is not required of the states that are added. *)
Prob0StepAnywhere == sol \union Post(sol)

Prob0Step == sol \union (phi1 \intersect Post(sol))

(* Slip: states that already satisfy phi2 are added too. *)
Prob1StepThroughPhi2 == sol \union (phi1 \intersect Post(sol))

Prob1Step == sol \union ((phi1 \ phi2) \intersect Post(sol))

GrowProb0 ==
    /\ pc = "prob0"
    /\ Prob0Step # sol
    /\ sol' = Prob0Step
    /\ UNCHANGED <<pc, reachable, transitions01, phi1, phi2, sNo, sYes, sQuestion>>

(* Slip: the complement is not cut to the reachable states. *)
ReturnProb0Uncut ==
    /\ pc = "prob0"
    /\ Prob0Step = sol
    /\ sNo' = State \ sol
    /\ sol' = sNo'
    /\ pc' = "prob1"
    /\ UNCHANGED <<reachable, transitions01, phi1, phi2, sYes, sQuestion>>

(* prob0 returns the complement of its fixpoint, which prob1 starts from. *)
ReturnProb0 ==
    /\ pc = "prob0"
    /\ Prob0Step = sol
    /\ sNo' = reachable \ sol
    /\ sol' = sNo'
    /\ pc' = "prob1"
    /\ UNCHANGED <<reachable, transitions01, phi1, phi2, sYes, sQuestion>>

GrowProb1 ==
    /\ pc = "prob1"
    /\ Prob1Step # sol
    /\ sol' = Prob1Step
    /\ UNCHANGED <<pc, reachable, transitions01, phi1, phi2, sNo, sYes, sQuestion>>

(* Slip: the loop tests the step against the set of prob0. *)
ReturnProb1AtNo ==
    /\ pc = "prob1"
    /\ Prob1Step = sNo
    /\ sYes' = reachable \ sol
    /\ pc' = "split"
    /\ UNCHANGED <<reachable, transitions01, phi1, phi2, sol, sNo, sQuestion>>

ReturnProb1 ==
    /\ pc = "prob1"
    /\ Prob1Step = sol
    /\ sYes' = reachable \ sol
    /\ pc' = "split"
    /\ UNCHANGED <<reachable, transitions01, phi1, phi2, sol, sNo, sQuestion>>

(* Slip: the states of probability 0 are left to the solver. *)
SplitOffYes ==
    /\ pc = "split"
    /\ sQuestion' = reachable \ sYes
    /\ pc' = "done"
    /\ UNCHANGED <<reachable, transitions01, phi1, phi2, sol, sNo, sYes>>

Split ==
    /\ pc = "split"
    /\ sQuestion' = reachable \ (sNo \union sYes)
    /\ pc' = "done"
    /\ UNCHANGED <<reachable, transitions01, phi1, phi2, sol, sNo, sYes>>

Next == GrowProb0 \/ ReturnProb0 \/ GrowProb1 \/ ReturnProb1 \/ Split

(* A sequential function that is called runs to its end. *)
Spec == Init /\ [][Next]_vars /\ WF_vars(Next)

-----------------------------------------------------------------------------
(* The three sets split the reachable states; phi2 is among the yes states *)
(* and what satisfies neither operand among the no states, so the right    *)
(* hand side of the equations, bdd_to_add(s_yes), is 1 where it must be    *)
(* and no state gets two values (sym_check.rs:305-325).                    *)
Partition ==
    pc = "done" =>
        /\ sNo \intersect sYes = {}
        /\ sQuestion = reachable \ (sNo \union sYes)
        /\ phi2 \subseteq sYes
        /\ reachable \ (phi1 \union phi2) \subseteq sNo

(* No set of undecided states keeps its runs to itself.  The matrix        *)
(* I - t_question is then nonsingular and the Jacobi iteration has one     *)
(* solution to converge to (sym_check.rs:308-327).                         *)
NoTrap ==
    pc = "done" =>
        \A trap \in SUBSET sQuestion :
            trap # {} => \E s \in trap, t \in reachable \ trap : <<s, t>> \in transitions01

(* Both fixpoints are reached for every relation and every pair of         *)
(* operands.                                                               *)
Terminates == <>(pc = "done")

-----------------------------------------------------------------------------
Verdict ==
    [s \in reachable |->
        IF pc # "done" THEN "unknown"
        ELSE IF s \in sNo THEN "no"
        ELSE IF s \in sQuestion THEN "maybe"
        ELSE "yes"]

Abstract == INSTANCE QualitativeUntil WITH verdict <- Verdict

(* The two backward fixpoints compute the verdicts that the chain's runs   *)
(* and bottom components define (sym_check.rs:208-288, and the sets        *)
(* S_no, S_yes of docs/dtmc_details.md).                                   *)
ImplementsQualitativeUntil == Abstract!Spec
=============================================================================
