------------------------- MODULE BoundedRecurrence --------------------------
(***************************************************************************)
(* The recurrence docs/dtmc_details.md gives for `P=? [phi1 U<=k phi2]`:   *)
(*   V_0(s) = I_yes(s)                                                     *)
(*   V_i(s) = I_yes(s) + I_question(s) * sum_t P(s, t) V_{i-1}(t)          *)
(* V_i is kept in units of 1 / One^i, so that every value is whole.        *)
(***************************************************************************)
EXTENDS Dtmc

VARIABLES
    transitions,  \* P
    yes,          \* S_yes
    question,     \* S_question
    k,            \* the step bound
    i,            \* steps taken
    v,            \* V_i
    scale         \* One^i, the unit of V_i

vars == <<transitions, yes, question, k, i, v, scale>>

Init ==
    /\ i = 0
    /\ scale = 1
    /\ v = Indicator(yes, 1)

Step ==
    /\ i < k
    /\ i' = i + 1
    /\ scale' = One * scale
    /\ v' = [s \in State |->
                IF s \in yes THEN scale'
                ELSE IF s \in question THEN MatMul(transitions, v)[s]
                ELSE 0]
    /\ UNCHANGED <<transitions, yes, question, k>>

Spec == Init /\ [][Step]_vars
=============================================================================
