---------------------------- MODULE Construction ----------------------------
(***************************************************************************)
(* The transition matrix of a DTMC from its modules: the implicit action   *)
(* labels that analysis gives (src/src/analyze.rs), the encoding of the    *)
(* variables in bits, the relation of each command, the product of the     *)
(* modules action by action and the normalisation of the sum               *)
(* (src/src/constr_symbolic.rs, unif of src/src/dd_manager/dd.rs).         *)
(*                                                                         *)
(* An ADD over current and next bits is a function of two valuations; an   *)
(* entry is a whole number of units, which get smaller by a factor One     *)
(* with every factor of the product.                                       *)
(***************************************************************************)
EXTENDS Products, Sequences, FiniteSets

CONSTANTS
    Module,   \* the modules, as a sequence in the order of the model
    Var,      \* the local variables of all modules
    Owner,    \* the module a variable is declared in
    Lo, Hi,   \* the declared bounds of a variable (0 and 1 for a bool)
    Default,  \* the implicit label of a module, `__M_action__`
    NoLabel,  \* the label of a command written without one
    One,      \* probability 1.0, in units
    Eps,      \* EPS of dd_manager.rs, in units
    Model     \* the models that may be given: the commands of every module

Name == {Module[j] : j \in DOMAIN Module}

-----------------------------------------------------------------------------
(* The bits allocate_dd_vars gives a variable, and the values they decode  *)
(* to in get_variable_encoding.  A bound pair of one value panics.         *)
RangeSize(x) == Hi[x] - Lo[x] + 1

Ilog2(n) == CHOOSE b \in 0 .. n : Power(2, b) <= n /\ n < Power(2, b + 1)

(* Slip: the bits that the largest offset needs, less one. *)
NumBitsShort(x) == IF RangeSize(x) = 2 THEN 1 ELSE Ilog2(RangeSize(x) - 1)

NumBits(x) == Ilog2(RangeSize(x) - 1) + 1

Decoded(x) == Lo[x] .. Lo[x] + Power(2, NumBits(x)) - 1

(* The valuations of the current bits; those of the next bits are the same. *)
State == {s \in [Var -> UNION {Decoded(x) : x \in Var}] : \A x \in Var : s[x] \in Decoded(x)}

(* The valuations the declarations allow. *)
Declared == {s \in State : \A x \in Var : s[x] <= Hi[x]}

LocalVars(m) == {x \in Var : Owner[x] = m}

(* An update has a probability and gives the variables it assigns to the   *)
(* values of expressions over the current state; a command has a label, a  *)
(* guard (the states it holds in) and a sequence of updates.  Two          *)
(* simplifications: the code translates an expression for the probability, *)
(* which may depend on the state, and multiplies the equations of a        *)
(* variable that one update assigns twice.                                 *)
Labels == {Default[m] : m \in Name}
    \union UNION {UNION {{model[m][j].label : j \in DOMAIN model[m]} : m \in Name} : model \in Model}

Update == [prob : Int, assigned : SUBSET Var, value : [Var -> [State -> Int]]]

Command == [label : Labels, guard : SUBSET State, updates : Seq(Update)]

(* What the construction is given: modules with names of their own, and    *)
(* variables of theirs with more than one value.                           *)
ASSUME Layout ==
    /\ Module \in Seq(Name)
    /\ \A i, j \in DOMAIN Module : Module[i] = Module[j] => i = j
    /\ IsFiniteSet(Var)
    /\ Owner \in [Var -> Name]
    /\ Lo \in [Var -> Int] /\ Hi \in [Var -> Int]
    /\ \A x \in Var : Lo[x] < Hi[x]
    /\ Default \in [Name -> Labels]
    /\ One \in Nat /\ Eps \in Nat /\ Eps < One

ASSUME Models == Model \subseteq [Name -> Seq(Command)]

Matrix == [State -> [State -> Int]]

VARIABLES
    pc,
    commands,     \* the commands of every module
    modulesOf,    \* info.modules_of_act
    todo,         \* the actions the outer loop has yet to visit
    act,          \* the action it is at
    at,           \* the position of the next module in the inner loop
    actTrans,     \* act_trans, in units of 1 / One^(at - 1)
    transitions,  \* transitions, in units of 1 / One^Len(Module)
    denom         \* what unif divides every row by, in the same units

vars == <<pc, commands, modulesOf, todo, act, at, actTrans, transitions, denom>>

TypeOK ==
    /\ pc \in {"label", "rejected", "actions", "modules", "done"}
    /\ commands \in [Name -> Seq(Command)]
    /\ DOMAIN modulesOf \subseteq Labels
    /\ \A a \in DOMAIN modulesOf : modulesOf[a] \in (SUBSET Name) \ {{}}
    /\ todo \subseteq DOMAIN modulesOf
    /\ act \in Labels \union {NoLabel}
    /\ at \in 1 .. Len(Module) + 1
    /\ actTrans \in Matrix
    /\ transitions \in Matrix
    /\ denom \in [State -> Nat \ {0}]

Zero == [s \in State |-> [t \in State |-> 0]]
Ones == [s \in State |-> [t \in State |-> 1]]
Scale == ProductFunction([m \in Name |-> One])

Init ==
    /\ pc = "label"
    /\ commands \in Model
    /\ modulesOf = << >>
    /\ todo = {}
    /\ act = NoLabel
    /\ at = 1
    /\ actTrans = Ones
    /\ transitions = Zero
    /\ denom = [s \in State |-> Scale]

-----------------------------------------------------------------------------
Clashes(m) == \E j \in DOMAIN commands[m] : commands[m][j].label = Default[m]

(* analyse_basic_model rejects an explicit label that is the implicit one  *)
(* of the same module.                                                     *)
Reject ==
    /\ pc = "label"
    /\ \E m \in Name : Clashes(m)
    /\ pc' = "rejected"
    /\ UNCHANGED <<commands, modulesOf, todo, act, at, actTrans, transitions, denom>>

Labelled ==
    [m \in Name |-> [j \in DOMAIN commands[m] |->
        IF commands[m][j].label = NoLabel
        THEN [commands[m][j] EXCEPT !.label = Default[m]]
        ELSE commands[m][j]]]

CommandsOf(m, a) == {j \in DOMAIN commands[m] : commands[m][j].label = a}

(* The unlabelled commands get their label, and the actions their modules. *)
Label ==
    /\ pc = "label"
    /\ \A m \in Name : ~ Clashes(m)
    /\ commands' = Labelled
    /\ LET actions == UNION {{Labelled[m][j].label : j \in DOMAIN Labelled[m]} : m \in Name}
       IN  /\ modulesOf' = [a \in actions |-> {m \in Name : CommandsOf(m, a)' # {}}]
           /\ todo' = actions
    /\ pc' = "actions"
    /\ UNCHANGED <<act, at, actTrans, transitions, denom>>

-----------------------------------------------------------------------------
(* The relation of an update: assigned variables have the value of their   *)
(* expression, the other variables of the module keep their bits.          *)
UpdateWeight(m, update, s, t) ==
    IF /\ \A x \in update.assigned : t[x] = update.value[x][s]
       /\ \A x \in LocalVars(m) \ update.assigned : t[x] = s[x]
    THEN update.prob
    ELSE 0

(* guard * sum of the updates. *)
CommandWeight(m, command, s, t) ==
    IF s \in command.guard
    THEN SumFunction([u \in DOMAIN command.updates |-> UpdateWeight(m, command.updates[u], s, t)])
    ELSE 0

(* The module's commands of the action, summed: act_mod_trans. *)
ModuleWeight(m, a, s, t) ==
    SumFunction([j \in CommandsOf(m, a) |-> CommandWeight(m, commands[m][j], s, t)])

(* The identity relation of the module. *)
IdentityWeight(m, s, t) == IF \A x \in LocalVars(m) : t[x] = s[x] THEN One ELSE 0

(* The outer loop visits the actions in the order of a hash map. *)
StartAction ==
    /\ pc = "actions"
    /\ \E a \in todo :
          /\ act' = a
          /\ todo' = todo \ {a}
    /\ at' = 1
    /\ actTrans' = Ones
    /\ pc' = "modules"
    /\ UNCHANGED <<commands, modulesOf, transitions, denom>>

Times(m1, m2) == [s \in State |-> [t \in State |-> m1[s][t] * m2[s][t]]]

MultiplyCommands ==
    /\ pc = "modules"
    /\ at <= Len(Module)
    /\ Module[at] \in modulesOf[act]
    /\ actTrans' = Times(actTrans, [s \in State |-> [t \in State |-> ModuleWeight(Module[at], act, s, t)]])
    /\ at' = at + 1
    /\ UNCHANGED <<pc, commands, modulesOf, todo, act, transitions, denom>>

(* Slip: a module without part in the action is left out of the product. *)
SkipModule ==
    /\ pc = "modules"
    /\ at <= Len(Module)
    /\ Module[at] \notin modulesOf[act]
    /\ actTrans' = [s \in State |-> [t \in State |-> One * actTrans[s][t]]]
    /\ at' = at + 1
    /\ UNCHANGED <<pc, commands, modulesOf, todo, act, transitions, denom>>

MultiplyIdentity ==
    /\ pc = "modules"
    /\ at <= Len(Module)
    /\ Module[at] \notin modulesOf[act]
    /\ actTrans' = Times(actTrans, [s \in State |-> [t \in State |-> IdentityWeight(Module[at], s, t)]])
    /\ at' = at + 1
    /\ UNCHANGED <<pc, commands, modulesOf, todo, act, transitions, denom>>

AddAction ==
    /\ pc = "modules"
    /\ at > Len(Module)
    /\ transitions' = [s \in State |-> [t \in State |-> transitions[s][t] + actTrans[s][t]]]
    /\ pc' = "actions"
    /\ UNCHANGED <<commands, modulesOf, todo, act, at, actTrans, denom>>

(* Slip: a row that sums to nothing is divided by its sum. *)
NormaliseAll ==
    /\ pc = "actions"
    /\ todo = {}
    /\ denom' = [s \in State |-> SumFunction(transitions[s])]
    /\ pc' = "done"
    /\ UNCHANGED <<commands, modulesOf, todo, act, at, actTrans, transitions>>

(* unif: a row is divided by its sum if that is above the threshold. *)
Normalise ==
    /\ pc = "actions"
    /\ todo = {}
    /\ denom' = [s \in State |->
                    LET sum == SumFunction(transitions[s])
                    IN  IF sum * One > Eps * Scale THEN sum ELSE Scale]
    /\ pc' = "done"
    /\ UNCHANGED <<commands, modulesOf, todo, act, at, actTrans, transitions>>

Next ==
    \/ Reject
    \/ Label
    \/ StartAction
    \/ MultiplyCommands
    \/ MultiplyIdentity
    \/ AddAction
    \/ Normalise

Spec == Init /\ [][Next]_vars

-----------------------------------------------------------------------------
Built == pc = "done"

Enabled(m, a, s) == {j \in CommandsOf(m, a) : s \in commands[m][j].guard}

EnabledActions(s) ==
    {a \in DOMAIN modulesOf : \A m \in modulesOf[a] : Enabled(m, a, s) # {}}

(* The joint moves of an action: every module with part in it takes an     *)
(* update of an enabled command.                                           *)
Moves(m, a, s) ==
    UNION {{<<j, u>> : u \in DOMAIN commands[m][j].updates} : j \in Enabled(m, a, s)}

Taken(m, move) == commands[m][move[1]].updates[move[2]]

JointMoves(a, s) ==
    {joint \in [modulesOf[a] -> UNION {Moves(m, a, s) : m \in modulesOf[a]}] :
        \A m \in modulesOf[a] : joint[m] \in Moves(m, a, s)}

(* A variable takes the value its module's update assigns, or keeps its    *)
(* own.                                                                    *)
Target(a, joint, s) ==
    [x \in Var |->
        IF Owner[x] \in modulesOf[a] /\ x \in Taken(Owner[x], joint[Owner[x]]).assigned
        THEN Taken(Owner[x], joint[Owner[x]]).value[x][s]
        ELSE s[x]]

(* docs/dtmc_details.md:3-11 on a model: at most one enabled command for   *)
(* a module and an action, updates that are distributions over assignments *)
(* to the module's own variables, and within their bounds.                 *)
WellFormed ==
    \A m \in Name : \A a \in DOMAIN modulesOf : \A s \in Declared :
        /\ Cardinality(Enabled(m, a, s)) <= 1
        /\ \A j \in Enabled(m, a, s) :
              LET updates == commands[m][j].updates
              IN  /\ SumFunction([u \in DOMAIN updates |-> updates[u].prob]) = One
                  /\ \A u \in DOMAIN updates : \A x \in updates[u].assigned :
                        Owner[x] = m /\ updates[u].value[x][s] \in Lo[x] .. Hi[x]

(* The weight of a joint move, of the joint moves of an action from s to t.*)
JointWeight(a, joint) ==
    ProductFunction([m \in modulesOf[a] |-> Taken(m, joint[m]).prob])
      * ProductFunction([m \in Name \ modulesOf[a] |-> One])

MoveWeight(a, s, t) ==
    SumFunction([joint \in {joint \in JointMoves(a, s) : Target(a, joint, s) = t}
                   |-> JointWeight(a, joint)])

(* In a well-formed model the next action is chosen uniformly among the    *)
(* enabled ones, its modules move independently by their own enabled       *)
(* command, and everything else stays (docs/dtmc_details.md:9-13); the     *)
(* order in which the hash map gives the actions does not matter.          *)
UniformChoice ==
    Built /\ WellFormed =>
        \A s \in Declared, t \in State :
            LET enabled == EnabledActions(s)
            IN  transitions[s][t] * Cardinality(enabled) * Scale
                  = denom[s] * SumFunction([a \in enabled |-> MoveWeight(a, s, t)])

(* What the docs say of an update and the code does not look at: its       *)
(* probability is one, and it assigns to variables of its own module.      *)
Proper ==
    \A m \in Name : \A j \in DOMAIN commands[m] : \A u \in DOMAIN commands[m][j].updates :
        LET update == commands[m][j].updates[u]
        IN  update.prob >= 0 /\ update.assigned \subseteq LocalVars(m)

(* However many commands of a module are enabled at once, the matrix has a *)
(* positive entry exactly where some action has a joint move of updates    *)
(* with a positive probability: no transition is lost and none is made up, *)
(* and a move out of a variable's bits is no move                          *)
(* (constr_symbolic.rs:245-389).                                           *)
SupportExact ==
    Built /\ Proper =>
        \A s \in State, t \in State :
            transitions[s][t] > 0
              <=> \E a \in DOMAIN modulesOf : \E joint \in JointMoves(a, s) :
                     /\ Target(a, joint, s) = t
                     /\ \A m \in modulesOf[a] : Taken(m, joint[m]).prob > 0

(* The implicit label of a module is unique to it: unlabelled commands     *)
(* synchronise with no other module (docs/dtmc_details.md:15).             *)
ImplicitLabelUnique ==
    \A m \in Name :
        Default[m] \in DOMAIN modulesOf /\ m \in modulesOf[Default[m]]
          => modulesOf[Default[m]] = {m}
=============================================================================
