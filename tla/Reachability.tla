---------------------------- MODULE Reachability ----------------------------
(***************************************************************************)
(* compute_reachable_and_filter (src/src/reachability.rs) with the         *)
(* set_reachable_and_filter it ends in (src/src/symbolic_dtmc.rs): a       *)
(* breadth-first closure of the initial state under the thresholded        *)
(* transition relation, then the rows of unreachable states are zeroed and *)
(* every reachable state left without successor gets a self-loop.          *)
(***************************************************************************)
EXTENDS Dtmc

VARIABLES
    pc,            \* where the two functions stand
    init,          \* the state of get_init_bdd (one minterm)
    transitions,   \* dtmc.transitions
    transRel,      \* trans_rel, the thresholded relation the search follows
    reachable,     \* the reachable set, a local until the cell is set from it
    iterations,    \* passes through the loop
    transitions01  \* dtmc.transitions_01

vars == <<pc, init, transitions, transRel, reachable, iterations, transitions01>>

TypeOK ==
    /\ pc \in {"start", "search", "filter", "dead_ends", "done"}
    /\ init \in State
    /\ transitions \in Matrix
    /\ transRel \in SUBSET (State \X State)
    /\ reachable \in SUBSET State
    /\ iterations \in Nat
    /\ transitions01 \in SUBSET (State \X State)

(* translate_dtmc hands over a matrix normalised by unif. *)
Init ==
    /\ pc = "start"
    /\ init \in State
    /\ transitions \in [State -> Rows]
    /\ transRel = {}
    /\ reachable = {}
    /\ iterations = 0
    /\ transitions01 = {}

-----------------------------------------------------------------------------
StartSearch ==
    /\ pc = "start"
    /\ reachable' = {init}
    /\ transRel' = AddToBdd(transitions)
    /\ pc' = "search"
    /\ UNCHANGED <<init, transitions, iterations, transitions01>>

(* Slip: the image replaces the set instead of joining it. *)
NewReachableImageOnly == Image(transRel, reachable)

NewReachable == reachable \union Image(transRel, reachable)

(* Slip: the loop goes on although nothing was found. *)
ExpandUnguarded ==
    /\ pc = "search"
    /\ reachable' = NewReachable
    /\ iterations' = iterations + 1
    /\ UNCHANGED <<pc, init, transitions, transRel, transitions01>>

(* One pass of the loop that found a new state. *)
Expand ==
    /\ pc = "search"
    /\ NewReachable # reachable
    /\ reachable' = NewReachable
    /\ iterations' = iterations + 1
    /\ UNCHANGED <<pc, init, transitions, transRel, transitions01>>

(* Slip: the break compares the image with the set it was taken from. *)
ConvergeOnImage ==
    /\ pc = "search"
    /\ Image(transRel, reachable) = reachable
    /\ iterations' = iterations + 1
    /\ pc' = "filter"
    /\ UNCHANGED <<init, transitions, transRel, reachable, transitions01>>

(* The pass that finds none breaks out of the loop. *)
Converge ==
    /\ pc = "search"
    /\ NewReachable = reachable
    /\ iterations' = iterations + 1
    /\ pc' = "filter"
    /\ UNCHANGED <<init, transitions, transRel, reachable, transitions01>>

(* Slip: the columns of unreachable states are cleared as well. *)
FilterBothSides ==
    /\ pc = "filter"
    /\ transitions' = [s \in State |-> [t \in State |->
           IF s \in reachable /\ t \in reachable THEN transitions[s][t] ELSE 0]]
    /\ pc' = "dead_ends"
    /\ UNCHANGED <<init, transRel, reachable, iterations, transitions01>>

FilterTransitions ==
    /\ pc = "filter"
    /\ transitions' = MaskRows(transitions, reachable)
    /\ pc' = "dead_ends"
    /\ UNCHANGED <<init, transRel, reachable, iterations, transitions01>>

(* Slip: dead ends are not cut down to the states without successor. *)
DeadEndsEverywhere == reachable

DeadEnds == reachable \ Sources(AddToBdd(transitions))

(* Slip: only the 0-1 relation gets the self-loops. *)
AddSelfLoopsToSupport ==
    /\ pc = "dead_ends"
    /\ DeadEnds # {}
    /\ transitions01' = AddToBdd(transitions) \union SelfLoops(DeadEnds)
    /\ pc' = "done"
    /\ UNCHANGED <<init, transitions, transRel, reachable, iterations>>

(* Slip: only the matrix gets the self-loops. *)
AddSelfLoopsToMatrix ==
    /\ pc = "dead_ends"
    /\ DeadEnds # {}
    /\ transitions01' = AddToBdd(transitions)
    /\ transitions' = [s \in State |-> [t \in State |->
           transitions[s][t] + (IF <<s, t>> \in SelfLoops(DeadEnds) THEN One ELSE 0)]]
    /\ pc' = "done"
    /\ UNCHANGED <<init, transRel, reachable, iterations>>

(* The branch dead_end_count > 0: both relations get the self-loops. *)
AddSelfLoops ==
    /\ pc = "dead_ends"
    /\ DeadEnds # {}
    /\ transitions01' = AddToBdd(transitions) \union SelfLoops(DeadEnds)
    /\ transitions' = [s \in State |-> [t \in State |->
           transitions[s][t] + (IF <<s, t>> \in SelfLoops(DeadEnds) THEN One ELSE 0)]]
    /\ pc' = "done"
    /\ UNCHANGED <<init, transRel, reachable, iterations>>

NoDeadEnds ==
    /\ pc = "dead_ends"
    /\ DeadEnds = {}
    /\ transitions01' = AddToBdd(transitions)
    /\ pc' = "done"
    /\ UNCHANGED <<init, transitions, transRel, reachable, iterations>>

Next ==
    \/ StartSearch
    \/ Expand
    \/ Converge
    \/ FilterTransitions
    \/ AddSelfLoops
    \/ NoDeadEnds

(* A sequential function that is called runs to its end. *)
Spec == Init /\ [][Next]_vars /\ WF_vars(Next)

-----------------------------------------------------------------------------
Searched == pc \in {"filter", "dead_ends", "done"}

ClosedUnder(rel, set) == Image(rel, set) \subseteq set

(* The set the loop stops with is the least set that holds the initial     *)
(* state and is closed under the thresholded relation: nothing reachable   *)
(* is missed and nothing unreachable slips in (reachability.rs:16-29).     *)
ReachableExact ==
    Searched =>
        /\ init \in reachable
        /\ ClosedUnder(transRel, reachable)
        /\ \A closed \in SUBSET State :
               init \in closed /\ ClosedUnder(transRel, closed) => reachable \subseteq closed

(* When the checker gets the model, the matrix and its 0-1 relation agree, *)
(* no edge leaves the reachable set, every reachable state has a successor *)
(* and unreachable rows are empty (symbolic_dtmc.rs:243-286).              *)
SupportAgrees ==
    pc = "done" => SupportWellFormed(transitions, transitions01, reachable)

(* The row of every reachable state is a distribution, or a dead end's     *)
(* self-loop of probability 1.0 on top of a residue below the threshold:   *)
(* no state gets a loop it does not need and none is left short            *)
(* (symbolic_dtmc.rs:252-286).                                             *)
RowsStochastic ==
    pc = "done" => RowsWellFormed(transitions, reachable)

(* The loop runs at most once for every state it reaches, which bounds the *)
(* search for every size of the model.                                     *)
IterationBound ==
    iterations <= Cardinality(reachable)

(* Filtering is invisible from inside: a step never changes the row of a   *)
(* reachable state that had successors, so also not the mass that row puts *)
(* on states below the threshold.                                          *)
DistributionKept ==
    [][\A s \in reachable : IsDistribution(transitions[s]) => transitions'[s] = transitions[s]]_vars

(* Construction always gets past reachability. *)
Terminates == <>(pc = "done")
=============================================================================
