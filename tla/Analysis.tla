------------------------------ MODULE Analysis ------------------------------
(***************************************************************************)
(* The semantic analysis of a DTMC (analyse_dtmc): constants are           *)
(* overridden and resolved, variable declarations, one command and the     *)
(* labels are folded and checked, and then, as the code does, the symbol   *)
(* table and the labels are computed a second time from the result before  *)
(* the property is analysed.                                               *)
(*                                                                         *)
(* An input holds                                                          *)
(*   consts    the declarations <<[name, type, value]>>, value Absent when   *)
(*             the declaration gives none;                                 *)
(*   overrides the --const arguments, a literal per name for the text;     *)
(*   vars      the variables <<[name, type, lo, hi, init]>>;               *)
(*   command   [guard, prob, assign], assign an equation on a primed name; *)
(*   labels    <<[name, expr]>>;                                           *)
(*   phi       the path formula [lhs, rhs, bound], bound Absent when the     *)
(*             operator has none, lhs TRUE for X.                          *)
(* Module renaming and action labels are not part of this module.          *)
(***************************************************************************)
EXTENDS Expressions

CONSTANTS
  Inputs,     \* the models and --const arguments to analyse
  Levels      \* no expression of an input has more levels

Source == Within[Levels]

\* What the parser gives: well-shaped declarations, the target of an assignment
\* a primed name and no primed name elsewhere.  A label that is expanded adds
\* the levels of its body, and no label is expanded inside itself; the second
\* pass puts such bodies into a tree of an input once more.
InputShape ==
  /\ "" \in Name /\ Height \in Nat /\ Levels \in Nat \ {0}
  /\ \A m \in Inputs :
       /\ m.consts \in Seq([name : Name, type : Kinds, value : Source])
       /\ m.vars \in Seq([name : Name, type : {"bool", "int"}, lo : Source, hi : Source, init : Source])
       /\ m.labels \in Seq([name : Name, expr : Source])
       /\ m.command \in [guard : Source, prob : Source, assign : Source]
       /\ m.phi \in [lhs : Source, rhs : Source, bound : Source]
       /\ \A name \in DOMAIN m.overrides : m.overrides[name] \in Source /\ IsLiteral(m.overrides[name])
       /\ m.command.assign.op = "=" /\ m.command.assign.args[1].op = "primed"
       /\ \A x \in {m.command.guard, m.command.prob, m.command.assign.args[2], m.phi.lhs, m.phi.rhs} \cup
                     {m.labels[i].expr : i \in DOMAIN m.labels} : "primed" \notin Ops(x)
       /\ Levels * (Len(m.labels) + 2) <= Height
ASSUME InputAssumption == InputShape

VARIABLES
  input,      \* the model and the arguments as given
  consts,     \* the constant declarations, values replaced as they resolve
  pending,    \* the overrides not applied yet
  resolved,   \* resolved_map: the literal of each constant resolved so far
  changed,    \* changed: this round resolved one
  next,       \* the declaration the inner loop is at
  decls,      \* the variable declarations, folded
  command,    \* the command, folded
  labels,     \* the label declarations, folded and expanded
  bodies,     \* labels_by_name
  phi,        \* the path formula
  pass,       \* 1 in analyse_basic_model, 2 afterwards
  pc,         \* where the analysis is
  reason      \* the step that gave up, "" if none

vars == <<input, consts, pending, resolved, changed, next, decls, command,
          labels, bodies, phi, pass, pc, reason>>

constVars == <<consts, pending, resolved, changed, next>>
modelParts == <<decls, command, labels, bodies, phi>>

NamesIn(s)   == {s[i].name : i \in DOMAIN s}
Distinct(s) == \A i, j \in DOMAIN s : s[i].name = s[j].name => i = j
Named(s, name) == s[CHOOSE i \in DOMAIN s : s[i].name = name]

\* The symbol table: the declared type of every constant and variable.
TypesIn(model) ==
  LET all == model.consts \o model.vars
  IN [n \in NamesIn(all) |-> Named(all, n).type]

SymbolTypes == TypesIn(input)

TypeIn(model, x) == Infer(x, TypesIn(model))

TypeOf(x) == Infer(x, SymbolTypes)

\* const_cli_value_expr: the literal an override's text stands for.
\* A slip: an integer text is not accepted for a float.
CliValueExact(text, type) == IF text.op = type THEN text ELSE Bad

\* const_cli_value_expr: the literal an override's text stands for.
CliValue(text, type) ==
  IF text.op = type \/ (type = "float" /\ text.op = "int")
  THEN Literal(type, text.val)
  ELSE Bad

\* A slip: an int is not promoted.
ResolvedValueUnpromoted(type, x) ==
  IF x.op = type \/ (type = "float" /\ x.op = "int") THEN x ELSE Absent

\* fold_resolved_const_value: a literal of the declared type, or Absent.
ResolvedValue(type, x) ==
  IF x.op = type \/ (type = "float" /\ x.op = "int")
  THEN Literal(type, x.val)
  ELSE Absent

AnalysisInit ==
  /\ input \in Inputs
  /\ consts = input.consts
  /\ pending = DOMAIN input.overrides
  /\ resolved = <<>>
  /\ changed = FALSE
  /\ next = 1
  /\ decls = input.vars
  /\ command = input.command
  /\ labels = input.labels
  /\ bodies = <<>>
  /\ phi = input.phi
  /\ pass = 1
  /\ pc = "declare"
  /\ reason = ""

Refuse(why) ==
  /\ pc' = "rejected"
  /\ reason' = why
  /\ UNCHANGED <<input, constVars, modelParts, pass>>

Goto(where) ==
  /\ pc' = where
  /\ UNCHANGED <<input, reason>>

-----------------------------------------------------------------------------
(* Constants *)

\* Symbols are declared once and every override names a constant.
Declare ==
  /\ pc = "declare"
  /\ IF ~Distinct(input.consts \o input.vars) \/ ~(pending \subseteq NamesIn(consts))
     THEN Refuse("declarations")
     ELSE /\ Goto("override")
          /\ UNCHANGED <<constVars, modelParts, pass>>

\* The overrides are visited in the order of a hash map.
ApplyOverride ==
  /\ pc = "override"
  /\ \E name \in pending :
       LET i == CHOOSE i \in DOMAIN consts : consts[i].name = name
           value == CliValue(input.overrides[name], consts[i].type)
       IN IF value = Bad
          THEN Refuse("override")
          ELSE /\ consts' = [consts EXCEPT ![i].value = value]
               /\ pending' = pending \ {name}
               /\ Goto("override")
               /\ UNCHANGED <<resolved, changed, next, modelParts, pass>>

\* Every constant has a value, of its declared type or an int for a float.
CheckConstants ==
  /\ pc = "override" /\ pending = {}
  /\ IF \/ \E i \in DOMAIN consts : consts[i].value = Absent
        \/ \E i \in DOMAIN consts :
             LET t == TypeOf(consts[i].value)
             IN ~(t = consts[i].type \/ (consts[i].type = "float" /\ t = "int"))
     THEN Refuse("constants")
     ELSE /\ Goto("resolve")
          /\ next' = 1 /\ changed' = FALSE /\ resolved' = <<>>
          /\ UNCHANGED <<consts, pending, modelParts, pass>>

\* One turn of the inner loop: fold a declaration with what is resolved.
ResolveConst ==
  /\ pc = "resolve" /\ next <= Len(consts)
  /\ LET decl == consts[next]
         value == ResolvedValue(decl.type, Fold(decl.value, resolved))
     IN IF decl.name \in DOMAIN resolved \/ value = Absent
        THEN UNCHANGED <<consts, resolved, changed>>
        ELSE /\ consts' = [consts EXCEPT ![next].value = value]
             /\ resolved' = [n \in DOMAIN resolved \cup {decl.name} |->
                               IF n = decl.name THEN value ELSE resolved[n]]
             /\ changed' = TRUE
  /\ next' = next + 1
  /\ Goto("resolve")
  /\ UNCHANGED <<pending, modelParts, pass>>

AllResolved == DOMAIN resolved = NamesIn(consts)

NextRound(open) ==
  /\ next' = 1 /\ changed' = FALSE
  /\ Goto(IF open THEN "resolve" ELSE IF pass = 1 THEN "variables" ELSE "labels")
  /\ UNCHANGED <<consts, pending, resolved, modelParts, pass>>

\* A slip: one round, as if constants were declared before their use.
EndRoundOnce ==
  /\ pc = "resolve" /\ next > Len(consts)
  /\ IF ~AllResolved THEN Refuse("unresolved") ELSE NextRound(FALSE)

\* A slip: rounds until everything is resolved.
EndRoundAlways ==
  /\ pc = "resolve" /\ next > Len(consts)
  /\ NextRound(~AllResolved)

\* After a round: done, another round, or nothing left that can be folded.
EndRound ==
  /\ pc = "resolve" /\ next > Len(consts)
  /\ IF ~AllResolved /\ ~changed THEN Refuse("unresolved") ELSE NextRound(~AllResolved)

-----------------------------------------------------------------------------
(* Variables and commands *)

Folded(x) == Fold(x, resolved)

FoldDecl(d) == [d EXCEPT !.lo = Folded(@), !.hi = Folded(@), !.init = Folded(@)]

BoundsFit(d) ==
  d.type = "int" =>
    /\ d.lo.op = "int" /\ d.hi.op = "int"
    /\ Compare("<=", d.lo.val, d.hi.val)

\* The initial value of an integer is read as a literal without a check.
InitInRange(d) ==
  d.type = "int" =>
    Compare("<=", d.lo.val, d.init.val) /\ Compare("<=", d.init.val, d.hi.val)

FoldVariable ==
  /\ pc = "variables" /\ next <= Len(decls)
  /\ LET d == FoldDecl(decls[next]) IN
     IF ~BoundsFit(d) \/ TypeOf(d.init) # d.type
     THEN Refuse("variables")
     ELSE IF d.type = "int" /\ ~IsLiteral(d.init)
     THEN Goto("panicked") /\ UNCHANGED <<constVars, modelParts, pass>>
     ELSE IF ~InitInRange(d)
     THEN Refuse("variables")
     ELSE /\ decls' = [decls EXCEPT ![next] = d]
          /\ next' = next + 1
          /\ Goto("variables")
          /\ UNCHANGED <<consts, pending, resolved, changed, command, labels, bodies, phi, pass>>

FoldCommand ==
  /\ pc = "variables" /\ next > Len(decls)
  /\ LET c == [guard |-> Folded(command.guard), prob |-> Folded(command.prob),
               assign |-> Folded(command.assign)]
     IN IF \/ TypeOf(c.guard) # "bool"
           \/ TypeOf(c.prob) \notin Numeric
           \/ TypeOf(c.assign) = "error"
           \/ TypeOf(c.assign.args[1]) # TypeOf(c.assign.args[2])
        THEN Refuse("command")
        ELSE /\ command' = c
             /\ Goto("labels")
             /\ UNCHANGED <<constVars, decls, labels, bodies, phi, pass>>

-----------------------------------------------------------------------------
(* Labels and the property *)

\* The bodies are remembered before the labels are folded.
FoldLabels ==
  /\ pc = "labels"
  /\ IF ~Distinct(labels)
     THEN Refuse("labels")
     ELSE /\ bodies' = [n \in NamesIn(labels) |-> Named(labels, n).expr]
          /\ labels' = [i \in DOMAIN labels |-> [labels[i] EXCEPT !.expr = Folded(@)]]
          /\ next' = 1
          /\ Goto("expand")
          /\ UNCHANGED <<consts, pending, resolved, changed, decls, command, phi, pass>>

ExpandLabel ==
  /\ pc = "expand" /\ next <= Len(labels)
  /\ LET x == Expand(labels[next].expr, bodies) IN
     IF "bad" \in Ops(x) \/ TypeOf(x) # "bool"
     THEN Refuse("labels")
     ELSE /\ labels' = [labels EXCEPT ![next].expr = x]
          /\ next' = next + 1
          /\ Goto("expand")
          /\ UNCHANGED <<consts, pending, resolved, changed, decls, command, bodies, phi, pass>>

\* The first pass drops its constants and labels; get_symbol_table and
\* analyze_labels compute them again from the analysed model.
FinishLabels ==
  /\ pc = "expand" /\ next > Len(labels)
  /\ IF pass = 1
     THEN /\ pass' = 2
          /\ pending' = DOMAIN input.overrides
          /\ bodies' = <<>>
          /\ Goto("override")
     ELSE /\ bodies' = [n \in NamesIn(labels) |-> Named(labels, n).expr]
          /\ Goto("property")
          /\ UNCHANGED <<pass, pending>>
  /\ UNCHANGED <<consts, resolved, changed, next, decls, command, labels, phi>>

\* A slip: the right operand is left as it is.
FoldPhiLeft(x) == [x EXCEPT !.lhs = Folded(@), !.bound = Folded(@)]

\* fold_path_formula
FoldPhi(x) == [x EXCEPT !.lhs = Folded(@), !.rhs = Folded(@), !.bound = Folded(@)]

Open(x) ==
  [lhs |-> Expand(x.lhs, bodies), rhs |-> Expand(x.rhs, bodies), bound |-> Expand(x.bound, bodies)]

\* Both operands are truth values; a bound has folded to a literal >= 0.
WellTyped(x) ==
  /\ TypeOf(x.lhs) = "bool" /\ TypeOf(x.rhs) = "bool"
  /\ x.bound # Absent => x.bound.op = "int" /\ Compare(">=", x.bound.val, Zero)

AnalyzeProperty ==
  /\ pc = "property"
  /\ LET open == Open(phi)
         psi  == FoldPhi(open)
     IN IF "bad" \in Ops(open.lhs) \cup Ops(open.rhs) \cup Ops(open.bound) \/ ~WellTyped(psi)
        THEN Refuse("property")
        ELSE /\ phi' = psi
             /\ Goto("done")
             /\ UNCHANGED <<constVars, decls, command, labels, bodies, pass>>

AnalysisNext ==
  \/ Declare \/ ApplyOverride \/ CheckConstants \/ ResolveConst \/ EndRound
  \/ FoldVariable \/ FoldCommand
  \/ FoldLabels \/ ExpandLabel \/ FinishLabels \/ AnalyzeProperty

Ended == pc \in {"done", "rejected", "panicked"}

\* One thread runs the analysis to its end.  This is WF_vars(AnalysisNext)
\* written out with the action enabled exactly until the end, as every step
\* changes vars: TLC need not evaluate ENABLED on the passes over trees.
AnalysisSpec == AnalysisInit /\ [][AnalysisNext]_vars /\ ([]<>Ended \/ []<><<TRUE>>_vars)

-----------------------------------------------------------------------------
(* What an input means, read off its text: a name stands for the           *)
(* expression it is declared with.  Meaning is the set of the value, empty *)
(* when the text has none, because it depends on itself, on a constant     *)
(* without a value, or on a variable that `at` does not give.              *)

SourceOf(model, name) ==
  IF name \in DOMAIN model.overrides THEN model.overrides[name] ELSE Named(model.consts, name).value

\* A node with operands of the meanings m.
MeaningNode(x, m, means) ==
  CASE IsLiteral(x) -> {x.val}
    [] <<x.op, x.name>> \in DOMAIN means -> means[<<x.op, x.name>>]
    [] x.op = "not" -> {AsTruth(v = Zero) : v \in m[1]}
    [] x.op = "neg" -> {Calculate("-", Zero, v) : v \in m[1]}
    [] x.op = "?:"  -> UNION {IF c = One THEN m[2] ELSE m[3] : c \in m[1]}
    [] x.op = "&"   -> {AsTruth(v = One /\ w = One) : v \in m[1], w \in m[2]}
    [] x.op = "|"   -> {AsTruth(v = One \/ w = One) : v \in m[1], w \in m[2]}
    [] x.op \in Arith -> {Calculate(x.op, v, w) : v \in m[1], w \in m[2]}
    [] x.op \in Order \cup Equal -> {AsTruth(Compare(x.op, v, w)) : v \in m[1], w \in m[2]}
    [] OTHER -> {}

MeaningUnder(x, means) ==
  LET meaning[y \in Tree] == MeaningNode(y, Mapped(y, meaning), means)
  IN meaning[x]

ConstKeys(model) == {"ident"} \X NamesIn(model.consts)
VarKeys(model)   == {"ident"} \X NamesIn(model.vars)
LabelKeys(model) == {"label"} \X NamesIn(model.labels)
Keys(model)      == ConstKeys(model) \cup VarKeys(model) \cup LabelKeys(model)

TextOf(model, key) ==
  IF key \in LabelKeys(model) THEN Named(model.labels, key[2]).expr ELSE SourceOf(model, key[2])

\* The meaning of every name, read through at most as many declarations as
\* there are names.
Means(model, at) ==
  LET means[n \in Nat] ==
        [key \in Keys(model) |->
           IF key \in VarKeys(model) THEN {at[name] : name \in DOMAIN at \cap {key[2]}}
           ELSE IF n = 0 THEN {}
           ELSE MeaningUnder(TextOf(model, key), means[n - 1])]
  IN means[Cardinality(Keys(model))]

Meaning(model, x, at) == MeaningUnder(x, Means(model, at))
Closed(model, x)      == Meaning(model, x, <<>>)

\* The states in which formulas are compared.
Valuations(model) ==
  [NamesIn(model.vars) -> {Zero, One}] \cup
  {[n \in NamesIn(model.vars) |-> IF Named(model.vars, n).type = "int" THEN <<2, 1>> ELSE One]}

\* The type of a text, every label taken for a truth value.
SourceType(model, x) == InferWith(x, TypesIn(model), "bool")

-----------------------------------------------------------------------------
(* Properties *)

PastConstants == pc \in {"variables", "labels", "expand", "property", "done", "panicked"}

\* The variables have their types: a resolved constant is a literal of its
\* declared type, and stands in its declaration.
TypeOK ==
  /\ pending \subseteq DOMAIN input.overrides
  /\ DOMAIN resolved \subseteq NamesIn(input.consts)
  /\ \A n \in DOMAIN resolved : resolved[n].op = SymbolTypes[n]
  /\ pc # "override" => \A n \in DOMAIN resolved : Named(consts, n).value = resolved[n]
  /\ changed \in BOOLEAN
  /\ next \in 1 .. Len(consts) + Len(decls) + Len(labels) + 1
  /\ pass \in {1, 2}
  /\ (pc = "rejected") = (reason # "")

\* Constants resolve to what their declarations mean, whatever the order of
\* declaration and of the overrides, in both passes: an override wins, a
\* branch that is not taken may be undefined, and only constants without a
\* meaning stay unresolved (apply_and_resolve_constants_for_decls).
ResolvedByMeaning ==
  /\ \A n \in DOMAIN resolved : {resolved[n].val} = Closed(input, SourceOf(input, n))
  /\ reason = "unresolved" =>
       \A n \in NamesIn(consts) : n \in DOMAIN resolved <=> Closed(input, SourceOf(input, n)) # {}

\* The property that reaches translate_expr mentions variables only: a label
\* or a constant left in it would make the translation panic.
OnlyVariablesLeft ==
  pc = "done" =>
    \A x \in {phi.lhs, phi.rhs} :
      /\ Ops(x) \cap {"label", "primed", "bad"} = {}
      /\ Idents(x) \subseteq NamesIn(input.vars)

\* Analysis and translation keep the meaning: in every state the diagrams of
\* the operands of the property, of the guard, the probability and the value
\* assigned have the value their text has with names read through, the same
\* variable is assigned, and the folded bound is the number the text stands for.
MeaningKept ==
  pc = "done" =>
    /\ \A at \in Valuations(input) :
         /\ {Translate(phi.lhs, at, at)} = Meaning(input, input.phi.lhs, at)
         /\ {Translate(phi.rhs, at, at)} = Meaning(input, input.phi.rhs, at)
         /\ {Translate(command.guard, at, at)} = Meaning(input, input.command.guard, at)
         /\ {Translate(command.prob, at, at)} = Meaning(input, input.command.prob, at)
         /\ {Translate(command.assign.args[2], at, at)} = Meaning(input, input.command.assign.args[2], at)
    /\ command.assign.args[1] = input.command.assign.args[1]
    /\ phi.bound # Absent => {phi.bound.val} = Closed(input, input.phi.bound)

\* Every label a text leads to is declared, and none leads back to itself:
\* those whose bodies mention no label, then those that mention these, ...
Founded(model) ==
  LET founded[n \in Nat] ==
        IF n = 0
        THEN {}
        ELSE {name \in NamesIn(model.labels) :
                Labels(Named(model.labels, name).expr) \subseteq founded[n - 1]}
  IN founded[Len(model.labels)]

Promotes(from, to) == from = to \/ (from = "int" /\ to = "float")

StateFormula(model, x) == Labels(x) \subseteq Founded(model) /\ SourceType(model, x) = "bool"

ConstantsWellFormed(model) ==
  /\ \A n \in DOMAIN model.overrides :
       n \in NamesIn(model.consts) /\ Promotes(model.overrides[n].op, TypesIn(model)[n])
  /\ \A n \in NamesIn(model.consts) :
       /\ SourceOf(model, n) # Absent
       /\ Promotes(TypeIn(model, SourceOf(model, n)), TypesIn(model)[n])
       /\ Closed(model, SourceOf(model, n)) # {}

VariablesWellFormed(model) ==
  \A i \in DOMAIN model.vars : LET d == model.vars[i] IN
    /\ TypeIn(model, d.init) = d.type
    /\ d.type = "int" =>
         /\ TypeIn(model, d.lo) = "int" /\ TypeIn(model, d.hi) = "int"
         /\ \E lo \in Closed(model, d.lo), hi \in Closed(model, d.hi), init \in Closed(model, d.init) :
              Compare("<=", lo, hi) /\ Compare("<=", lo, init) /\ Compare("<=", init, hi)

CommandWellFormed(model) ==
  LET target == model.command.assign.args[1]
      value  == model.command.assign.args[2]
  IN /\ TypeIn(model, model.command.guard) = "bool"
     /\ TypeIn(model, model.command.prob) \in Numeric
     /\ target.name \in NamesIn(model.vars) /\ TypeIn(model, value) = TypeIn(model, target)

PropertyWellFormed(model) ==
  /\ \A i \in DOMAIN model.labels : StateFormula(model, model.labels[i].expr)
  /\ StateFormula(model, model.phi.lhs) /\ StateFormula(model, model.phi.rhs)
  /\ model.phi.bound # Absent =>
       /\ Labels(model.phi.bound) \subseteq Founded(model) /\ SourceType(model, model.phi.bound) = "int"
       /\ \E k \in Closed(model, model.phi.bound) : Compare(">=", k, Zero)

\* Nothing well formed is rejected: not a constant used before its
\* declaration, not a label used twice, not an int text for a float, and
\* folding takes no type away (analyse_dtmc).
RejectedIsIllFormed ==
  pc = "rejected" =>
    ~ /\ Distinct(input.consts \o input.vars) /\ Distinct(input.labels)
      /\ ConstantsWellFormed(input) /\ VariablesWellFormed(input)
      /\ CommandWellFormed(input) /\ PropertyWellFormed(input)

\* The analysis ends, in a result or in an error: the rounds of constant
\* resolution stop on a cycle.
Terminates == <>Ended

\* What the code asserts of an integer variable, that its initial value is a
\* literal once folded (analyse_basic_model).
InitIsLiteral == pc # "panicked"
=============================================================================
