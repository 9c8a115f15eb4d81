------------------------------ MODULE DdBodies ------------------------------
(***************************************************************************)
(* The bodies of the functions that call decision-diagram operations, as   *)
(* Protection runs them.  A call of another function of the program is one *)
(* step: its convention is to root its own temporaries.  Names are the     *)
(* source's; a loop is unrolled to two passes, an expression to its call,  *)
(* a branch to its longer arm, a match to one body for each kind of arm.   *)
(* What a function returns and its caller roots at once is written as the  *)
(* caller's store.                                                         *)
(***************************************************************************)
EXTENDS Sequences

Let(n, reads) == <<[kind |-> "let", to |-> n, reads |-> reads]>>
Protect(n, reads) == <<[kind |-> "protect", to |-> n, reads |-> reads]>>
Store(n, m) == <<[kind |-> "store", to |-> n, reads |-> {m}]>>
Read(ns) == <<[kind |-> "read", to |-> "_", reads |-> ns]>>
Drop(ns) == <<[kind |-> "drop", to |-> "_", reads |-> ns]>>
Call(reads) == Let("_", reads)  \* a call with no node for a result
Twice(steps) == steps \o steps

-----------------------------------------------------------------------------
(* constr_symbolic.rs *)

BitEquality(eq) ==
    Protect("curr_var", {}) \o Protect("next_var", {}) \o Protect(eq, {"curr_var", "next_var"})

allocate_dd_vars ==
    [owned |-> {},
     steps |-> Let("curr_vars", {}) \o Store("curr_var_set", "curr_vars")
               \o Let("next_vars", {}) \o Store("next_var_set", "next_vars")
               \o Protect("curr_to_next_map", {})]

get_variable_encoding ==
    [owned |-> {},
     steps |-> Protect("offset_add", {}) \o Protect("encoding", {})
               \o Let("value", {"encoding", "offset_add"})]

(* translate_expr: negations, arithmetic, comparisons, "or", conditionals. *)
translate_expr_unary ==
    [owned |-> {},
     steps |-> Protect("value", {}) \o Protect("one", {}) \o Let("result", {"one", "value"})]

translate_expr_arithmetic ==
    [owned |-> {},
     steps |-> Protect("left", {}) \o Protect("right", {}) \o Let("result", {"left", "right"})]

translate_expr_comparison ==
    [owned |-> {},
     steps |-> Protect("left", {}) \o Protect("right", {})
               \o Protect("bdd", {"left", "right"}) \o Let("result", {"bdd"})]

translate_expr_or ==
    [owned |-> {},
     steps |-> Protect("left", {}) \o Protect("right", {})
               \o Protect("add01_left", {"left"}) \o Protect("add01_right", {"right"})
               \o Protect("bdd_or", {"add01_left", "add01_right"}) \o Let("result", {"bdd_or"})]

translate_expr_ternary ==
    [owned |-> {},
     steps |-> Protect("cond_expr", {}) \o Protect("cond_add", {"cond_expr"})
               \o Protect("then_add", {}) \o Protect("else_add", {})
               \o Let("result", {"cond_add", "then_add", "else_add"})]

translate_update ==
    [owned |-> {},
     steps |-> Protect("prob", {}) \o Protect("assign", {})
               \o Twice(Protect("symbolic_update", {})
                        \o Protect("assign", {"assign", "symbolic_update"})
                        \o Drop({"symbolic_update"}))
               \o Twice(BitEquality("eq")
                        \o Protect("eq_add", {"eq"})
                        \o Protect("assign", {"assign", "eq_add"}))
               \o Let("update", {"prob", "assign"})]

(* Slip: the sum is kept in a plain variable. *)
translate_command_unrooted ==
    [owned |-> {},
     steps |-> Protect("cmd_guard", {}) \o Let("updates_sum", {})
               \o Twice(Protect("symbolic_update", {})
                        \o Let("updates_sum", {"updates_sum", "symbolic_update"})
                        \o Drop({"symbolic_update"}))
               \o Let("transition", {"cmd_guard", "updates_sum"})
               \o Store("command", "transition")]

translate_command ==
    [owned |-> {},
     steps |-> Protect("cmd_guard", {}) \o Protect("updates_sum", {})
               \o Twice(Protect("symbolic_update", {})
                        \o Protect("updates_sum", {"updates_sum", "symbolic_update"})
                        \o Drop({"symbolic_update"}))
               \o Let("transition", {"cmd_guard", "updates_sum"})
               \o Store("command", "transition")]

(* The module identity is converted after its loop and put into the slot   *)
(* of the module only after all commands are translated.                   *)
translate_module ==
    [owned |-> {},
     steps |-> Protect("ident", {})
               \o Twice(BitEquality("eq") \o Protect("ident", {"ident", "eq"}))
               \o Let("ident_add", {"ident"})
               \o Let("transition", {}) \o Store("command_1", "transition")
               \o Let("transition", {}) \o Store("command_2", "transition")
               \o Store("module_ident", "ident_add")]

(* Slip: the action's product is not in a slot while the next factor is    *)
(* summed.                                                                 *)
translate_dtmc_unrooted ==
    [owned |-> {"command_1", "command_2", "module_ident", "next_var_set"},
     steps |-> Protect("transitions", {})
               \o Let("act_trans", {})
               \o Protect("act_mod_trans", {})
               \o Protect("act_mod_trans", {"act_mod_trans", "command_1"})
               \o Store("dtmc_transitions", "act_trans")]

translate_dtmc ==
    [owned |-> {"command_1", "command_2", "module_ident", "next_var_set"},
     steps |-> Protect("transitions", {})
               \o Twice(Protect("act_trans", {})
                        \o Protect("act_mod_trans", {})
                        \o Protect("act_mod_trans", {"act_mod_trans", "command_1"})
                        \o Protect("act_mod_trans", {"act_mod_trans", "command_2"})
                        \o Protect("act_trans", {"act_trans", "act_mod_trans"})
                        \o Drop({"act_mod_trans"})
                        \o Protect("act_trans", {"act_trans", "module_ident"})
                        \o Protect("transitions", {"transitions", "act_trans"})
                        \o Drop({"act_trans"}))
               \o Protect("transitions", {"transitions", "next_var_set"})
               \o Store("dtmc_transitions", "transitions")]

-----------------------------------------------------------------------------
(* dd.rs *)

unif ==
    [owned |-> {"m", "vars"},
     steps |-> Protect("denom", {"m", "vars"})
               \o Protect("denom_bdd", {"denom"})
               \o Protect("one", {})
               \o Protect("denom_safe", {"denom_bdd", "denom", "one"})
               \o Let("quotient", {"m", "denom_safe"})]

bdd_to_add ==
    [owned |-> {"b"},
     steps |-> Protect("one", {}) \o Protect("zero", {}) \o Let("add", {"b", "one", "zero"})]

add_less_than ==
    [owned |-> {"a", "b"},
     steps |-> Protect("diff", {"a", "b"}) \o Let("less", {"diff"})]

add_less_or_equal ==
    [owned |-> {"a", "b"},
     steps |-> Protect("gt", {"a", "b"}) \o Let("less_or_equal", {"gt"})]

add_nequals ==
    [owned |-> {"a", "b"},
     steps |-> Protect("gt", {"a", "b"}) \o Protect("lt", {"a", "b"}) \o Let("neq", {"gt", "lt"})]

add_equals ==
    [owned |-> {"a", "b"},
     steps |-> Protect("gt", {"a", "b"}) \o Protect("lt", {"a", "b"})
               \o Protect("neq", {"gt", "lt"}) \o Let("equal", {"neq"})]

get_encoding ==
    [owned |-> {},
     steps |-> Protect("result", {}) \o Protect("bdd_one_node", {})
               \o Twice(Store("term", "bdd_one_node")
                        \o Protect("var_node", {}) \o Let("not_var", {"var_node"})
                        \o Store("literal", "not_var") \o Drop({"var_node"})
                        \o Protect("term", {"term", "literal"}) \o Drop({"literal"})
                        \o Protect("term_as_add", {"term"})
                        \o Protect("value", {})
                        \o Protect("weighted_term", {"term_as_add", "value"})
                        \o Protect("result", {"result", "weighted_term"})
                        \o Drop({"term", "term_as_add", "value", "weighted_term"}))]

build_swap_map ==
    [owned |-> {},
     steps |-> Protect("map", {})
               \o Twice(Protect("y_var", {}) \o Protect("map", {"map", "y_var"})
                        \o Protect("x_var", {}) \o Protect("map", {"map", "x_var"})
                        \o Drop({"x_var", "y_var"}))
               \o Store("curr_to_next_map", "map")]

(* add_ite(mask, f, add_const(0.0)): the constant is not rooted. *)
add_mask ==
    [owned |-> {"f", "mask"},
     steps |-> Let("zero", {}) \o Let("masked", {"mask", "f", "zero"})]

-----------------------------------------------------------------------------
(* symbolic_dtmc.rs and reachability.rs *)

build_init_bdd ==
    [owned |-> {},
     steps |-> Protect("init", {})
               \o Twice(Protect("var", {}) \o Let("not_var", {"var"})
                        \o Store("lit", "not_var") \o Drop({"var"})
                        \o Protect("init", {"init", "lit"}) \o Drop({"lit"}))
               \o Call({"init"})
               \o Store("dtmc_init", "init")]

build_identity_transition_bdd ==
    [owned |-> {},
     steps |-> Protect("ident", {})
               \o Twice(BitEquality("eq") \o Protect("ident", {"ident", "eq"})
                        \o Drop({"curr_var", "next_var", "eq"}))
               \o Store("curr_next_identity", "ident")]

set_reachable_and_filter ==
    [owned |-> {"reachable", "dtmc_transitions", "next_var_set"},
     steps |-> Protect("reachable_add", {"reachable"})
               \o Protect("dtmc_transitions", {"dtmc_transitions", "reachable_add"})
               \o Protect("filtered_01", {"dtmc_transitions"})
               \o Protect("out_curr", {"filtered_01", "next_var_set"})
               \o Protect("not_out_curr", {"out_curr"})
               \o Protect("dead_end_curr", {"reachable", "not_out_curr"})
               \o Call({"dead_end_curr"}) \o Protect("curr_next_identity", {})
               \o Protect("self_loops", {"dead_end_curr", "curr_next_identity"})
               \o Protect("transitions_01", {"filtered_01", "self_loops"})
               \o Protect("self_loops_add", {"self_loops"})
               \o Protect("dtmc_transitions", {"dtmc_transitions", "self_loops_add"})]

(* image_next and image_curr are plain arguments of the next call. *)
compute_reachable_and_filter ==
    [owned |-> {"dtmc_transitions", "curr_var_set", "curr_to_next_map"},
     steps |-> Protect("dtmc_init", {}) \o Store("reachable", "dtmc_init")
               \o Protect("trans_rel", {"dtmc_transitions"})
               \o Twice(Store("old", "reachable")
                        \o Let("image_next", {"old", "trans_rel", "curr_var_set"})
                        \o Let("image_curr", {"image_next", "curr_to_next_map"})
                        \o Let("new_reachable", {"old", "image_curr"})
                        \o Store("reachable", "new_reachable")
                        \o Drop({"old"}))
               \o Call({"reachable"}) \o Call({"reachable"})]

-----------------------------------------------------------------------------
(* sym_check.rs *)

Fields == {"reachable", "transitions", "transitions_01", "next_var_set",
           "curr_to_next_map", "curr_next_identity"}

state_formula_to_bdd ==
    [owned |-> Fields,
     steps |-> Protect("expr_add", {}) \o Protect("expr_bdd", {"expr_add"})
               \o Let("states", {"expr_bdd", "reachable"})]

check_next_probability_add ==
    [owned |-> Fields,
     steps |-> Protect("phi_bdd", {}) \o Protect("phi_add", {"phi_bdd"})
               \o Protect("phi_next", {"phi_add", "curr_to_next_map"})
               \o Let("probability_add", {"transitions", "phi_next", "next_var_set"})]

(* The argument of the first bdd_to_add is a plain negation, and the first *)
(* factor of tmp a plain conversion.                                       *)
check_bounded_until_probability_add ==
    [owned |-> Fields,
     steps |-> Let("not_reachable", {"reachable"})
               \o Protect("not_reachable_add", {"not_reachable"})
               \o Protect("phi1_bdd", {}) \o Protect("phi2_bdd", {})
               \o Let("phi2_add", {"phi2_bdd"})
               \o Protect("tmp", {"phi2_add", "not_reachable_add"}) \o Read({"tmp"})
               \o Protect("s_yes_add", {"phi2_bdd"})
               \o Protect("not_phi2", {"phi2_bdd"})
               \o Protect("phi1_and_not_phi2", {"phi1_bdd", "not_phi2"})
               \o Protect("s_question", {"reachable", "phi1_and_not_phi2"})
               \o Protect("s_question_add", {"s_question"})
               \o Protect("t_question", {"s_question_add", "transitions"})
               \o Store("res_add", "s_yes_add")
               \o Protect("renamed", {}) \o Protect("stepped", {})
               \o Protect("reachable_next", {"reachable", "curr_to_next_map"})
               \o Protect("t_question", {"t_question", "reachable_next"})
               \o Protect("t_question", {"t_question", "reachable"})
               \o Twice(Protect("renamed", {"res_add", "curr_to_next_map"})
                        \o Protect("stepped", {"t_question", "renamed", "next_var_set"})
                        \o Protect("stepped", {"stepped", "reachable"})
                        \o Protect("res_add", {"stepped", "s_yes_add"}))]

(* One backward fixpoint; phi1 is phi1_and_not_phi2 in prob1, which starts *)
(* from s_no instead of phi2.                                              *)
Fixpoint(start, through) ==
    Store("sol", start) \o Store("sol_next", "sol") \o Store("post", "sol")
    \o Store("step", "sol") \o Store("sol_prime", "sol")
    \o Twice(Protect("sol_next", {"sol", "curr_to_next_map"})
             \o Protect("post", {"transitions_01", "sol_next", "next_var_set"})
             \o Protect("step", {through, "post"})
             \o Protect("sol_prime", {"sol", "step"})
             \o Store("sol", "sol_prime"))
    \o Protect("not_sol", {"sol"})
    \o Let("result", {"reachable", "not_sol"})

prob0 ==
    [owned |-> Fields \union {"phi1", "phi2"},
     steps |-> Fixpoint("phi2", "phi1")]

prob1 ==
    [owned |-> Fields \union {"phi1", "phi2", "s_no"},
     steps |-> Protect("not_phi2", {"phi2"})
               \o Protect("phi1_and_not_phi2", {"phi1", "not_phi2"})
               \o Fixpoint("s_no", "phi1_and_not_phi2")]

check_unbounded_until_probability_add ==
    [owned |-> Fields,
     steps |-> Protect("phi1_bdd", {}) \o Protect("phi2_bdd", {})
               \o Protect("s_no", {"phi1_bdd", "phi2_bdd"})
               \o Protect("s_yes", {"phi1_bdd", "phi2_bdd", "s_no"})
               \o Protect("no_or_yes", {"s_no", "s_yes"})
               \o Protect("not_no_or_yes", {"no_or_yes"})
               \o Protect("s_question", {"reachable", "not_no_or_yes"})
               \o Protect("s_question_add", {"s_question"})
               \o Protect("t_question", {"transitions", "s_question_add"})
               \o Protect("identity_add", {"curr_next_identity"})
               \o Protect("a", {"identity_add", "t_question"})
               \o Protect("b", {"s_yes"})
               \o Let("probability_add", {"a", "b"})]

solve_jacobi ==
    [owned |-> Fields \union {"a", "b"},
     steps |-> Protect("identity_add", {"curr_next_identity"})
               \o Protect("a_diag", {"a", "identity_add"})
               \o Protect("ones", {})
               \o Protect("d_sum", {"a_diag", "ones", "next_var_set"})
               \o Protect("d", {"d_sum", "next_var_set"})
               \o Protect("neg_one", {}) \o Protect("a_neg", {"a", "neg_one"})
               \o Protect("not_identity_bdd", {"curr_next_identity"})
               \o Protect("not_identity_add", {"not_identity_bdd"})
               \o Protect("a_off_diag", {"a_neg", "not_identity_add"})
               \o Protect("a_prime", {"a_off_diag", "d"})
               \o Protect("b_prime", {"b", "d"})
               \o Store("sol", "b")
               \o Protect("sol_next", {}) \o Protect("matmul", {}) \o Protect("sol_prime", {})
               \o Protect("reachable_next", {"reachable", "curr_to_next_map"})
               \o Protect("a_prime", {"a_prime", "reachable_next"})
               \o Protect("a_prime", {"a_prime", "reachable"})
               \o Twice(Protect("sol_next", {"sol", "curr_to_next_map"})
                        \o Protect("matmul", {"a_prime", "sol_next", "next_var_set"})
                        \o Protect("matmul", {"matmul", "reachable"})
                        \o Protect("sol_prime", {"matmul", "b_prime"})
                        \o Call({"sol", "sol_prime"})
                        \o Store("sol", "sol_prime"))]

check_release_probability_add ==
    [owned |-> Fields,
     steps |-> Protect("tmp", {}) \o Protect("one", {}) \o Let("probability_add", {"one", "tmp"})]

(* The value is returned plain, and walked with no call in between: the    *)
(* initial state was made when the states were searched.                   *)
evaluate_property_at_initial_state ==
    [owned |-> Fields \union {"init"},
     steps |-> Let("probability_add", Fields) \o Read({"init", "probability_add"})]

-----------------------------------------------------------------------------
(* All bodies but one. *)
Bodies ==
    [allocate_dd_vars |-> allocate_dd_vars,
     get_variable_encoding |-> get_variable_encoding,
     translate_expr_unary |-> translate_expr_unary,
     translate_expr_arithmetic |-> translate_expr_arithmetic,
     translate_expr_comparison |-> translate_expr_comparison,
     translate_expr_or |-> translate_expr_or,
     translate_expr_ternary |-> translate_expr_ternary,
     translate_update |-> translate_update,
     translate_command |-> translate_command,
     translate_dtmc |-> translate_dtmc,
     unif |-> unif,
     bdd_to_add |-> bdd_to_add,
     add_less_than |-> add_less_than,
     add_less_or_equal |-> add_less_or_equal,
     add_nequals |-> add_nequals,
     add_equals |-> add_equals,
     add_mask |-> add_mask,
     get_encoding |-> get_encoding,
     build_swap_map |-> build_swap_map,
     build_init_bdd |-> build_init_bdd,
     build_identity_transition_bdd |-> build_identity_transition_bdd,
     set_reachable_and_filter |-> set_reachable_and_filter,
     compute_reachable_and_filter |-> compute_reachable_and_filter,
     state_formula_to_bdd |-> state_formula_to_bdd,
     check_next_probability_add |-> check_next_probability_add,
     check_bounded_until_probability_add |-> check_bounded_until_probability_add,
     prob0 |-> prob0,
     prob1 |-> prob1,
     check_unbounded_until_probability_add |-> check_unbounded_until_probability_add,
     solve_jacobi |-> solve_jacobi,
     check_release_probability_add |-> check_release_probability_add,
     evaluate_property_at_initial_state |-> evaluate_property_at_initial_state]

(* It keeps a plain node across other functions, and stores it after.      *)
LosingBodies == [translate_module |-> translate_module]

(* What a body hands plain to the call just after (reachability.rs:20-23,  *)
(* sym_check.rs:73 and 81, dd.rs:537).                                     *)
HandedOn(f) ==
    CASE f = "compute_reachable_and_filter" -> {"image_next", "image_curr"}
      [] f = "check_bounded_until_probability_add" -> {"not_reachable", "phi2_add"}
      [] f = "add_mask" -> {"zero"}
      [] OTHER -> {}
=============================================================================
