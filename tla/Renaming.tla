------------------------------ MODULE Renaming ------------------------------
(***************************************************************************)
(* Modules declared as renamed copies, `module p2 = p1 [x1=x2, ...]`, and  *)
(* the symbols of the model they expand to: expand_renamed_modules and the *)
(* declaration checks analyse_basic_model makes right after it.            *)
(*                                                                         *)
(* An expression is its shape (operators, literals, references to labels)  *)
(* with the sequence of the identifiers it reads; what it evaluates to is  *)
(* a function of the shape and of the values of those identifiers.         *)
(***************************************************************************)
EXTENDS Integers, SequencesExt

CONSTANTS
    ModuleName, Ident, Label, Shape,   \* the names and shapes the source uses
    Value,                             \* values an identifier may have
    Models                             \* the models that may be parsed

Expr        == [shape : Shape, names : Seq(Ident)]
VarDecl     == [name : Ident, exprs : Seq(Expr)]         \* bounds, if any, and init
Assignment  == [target : Ident, value : Expr]
ProbUpdate  == [prob : Expr, assignments : Seq(Assignment)]
Command     == [labels : Seq(Label), guard : Expr, updates : Seq(ProbUpdate)]
Module      == [name : ModuleName, local_vars : Seq(VarDecl), commands : Seq(Command)]
RenamedModule == [name : ModuleName, base : ModuleName, renames : Seq(Ident \X Ident)]
BasicAst    == [modules : Seq(Module), renamed_modules : Seq(RenamedModule), constants : Seq(Ident)]

ASSUME ModelsAssumption == Models \subseteq BasicAst

VARIABLES
    given,      \* the model as parsed
    modules,    \* model.modules: the plain modules, then the copies made so far
    expanded,   \* how many declarations of copies have been expanded
    stage,         \* where the program is
    diagnosis   \* the step that ended the run with a message, "" if none

modelVars == <<given, modules, expanded>>

Names(ms)  == {ms[i].name : i \in DOMAIN ms}
Froms(pairs) == {pairs[i][1] : i \in DOMAIN pairs}

-----------------------------------------------------------------------------
(* One copy *)

(* A pair may be repeated, but a name has one replacement. *)
Conflicting(pairs) ==
    \E i, j \in DOMAIN pairs : pairs[i][1] = pairs[j][1] /\ pairs[i][2] # pairs[j][2]

(* A slip: the pairs are substituted one after the other, so that a name   *)
(* introduced by one pair is replaced by the next.                         *)
RenameMapChained(pairs) ==
    LET Step(map, pair) == [n \in DOMAIN map |-> IF map[n] = pair[1] THEN pair[2] ELSE map[n]]
    IN  FoldLeft(Step, [n \in Froms(pairs) |-> n], pairs)

(* rename_map of a list without conflicts. *)
RenameMap(pairs) ==
    [n \in Froms(pairs) |-> pairs[CHOOSE i \in DOMAIN pairs : pairs[i][1] = n][2]]

Rename(n, map) == IF n \in DOMAIN map THEN map[n] ELSE n

(* rename_expr: every identifier at once; labels are kept. *)
RenameExpr(e, map) == [e EXCEPT !.names = [i \in DOMAIN e.names |-> Rename(e.names[i], map)]]

(* A slip: primed identifiers are forgotten. *)
RenameValueOnly(a, map) ==
    [target |-> a.target, value |-> RenameExpr(a.value, map)]

(* An assignment is an equation on a primed identifier, renamed as a whole. *)
RenameAssignment(a, map) ==
    [target |-> Rename(a.target, map), value |-> RenameExpr(a.value, map)]

RenameUpdate(u, map) ==
    [prob |-> RenameExpr(u.prob, map),
     assignments |-> [i \in DOMAIN u.assignments |-> RenameAssignment(u.assignments[i], map)]]

RenameCommand(c, map) ==
    [labels |-> c.labels,
     guard |-> RenameExpr(c.guard, map),
     updates |-> [i \in DOMAIN c.updates |-> RenameUpdate(c.updates[i], map)]]

RenameLocal(v, map) ==
    [name |-> Rename(v.name, map),
     exprs |-> [i \in DOMAIN v.exprs |-> RenameExpr(v.exprs[i], map)]]

(* apply_module_renames on a clone of the base. *)
Copy(base, name, map) ==
    [name |-> name,
     local_vars |-> [i \in DOMAIN base.local_vars |-> RenameLocal(base.local_vars[i], map)],
     commands |-> [i \in DOMAIN base.commands |-> RenameCommand(base.commands[i], map)]]

-----------------------------------------------------------------------------
(* The expansion *)

Reject(why) ==
    /\ stage' = "end"
    /\ diagnosis' = why
    /\ UNCHANGED modelVars

(* The first module of that name, plain or copied before. *)
Base(name) ==
    modules[CHOOSE i \in DOMAIN modules :
              modules[i].name = name /\ \A j \in DOMAIN modules : j < i => modules[j].name # name]

AllRenamed(locals, map) == Names(locals) \subseteq DOMAIN map

ExpandModule ==
    /\ stage = "expand" /\ expanded < Len(given.renamed_modules)
    /\ LET renamed == given.renamed_modules[expanded + 1]
           map == RenameMap(renamed.renames)
       IN  IF \/ renamed.name \in Names(modules)
              \/ Conflicting(renamed.renames)
              \/ renamed.base \notin Names(modules)
              \/ ~ AllRenamed(Base(renamed.base).local_vars, map)
           THEN Reject("renamed module")
           ELSE /\ modules' = Append(modules, Copy(Base(renamed.base), renamed.name, map))
                /\ expanded' = expanded + 1
                /\ UNCHANGED <<given, stage, diagnosis>>

(* The symbol table takes every constant and every local variable once. *)
SymbolsDistinct ==
    /\ \A i, j \in DOMAIN given.constants : given.constants[i] = given.constants[j] => i = j
    /\ \A i \in DOMAIN modules : \A k \in DOMAIN modules[i].local_vars :
         LET name == modules[i].local_vars[k].name IN
         /\ name \notin Range(given.constants)
         /\ \A j \in DOMAIN modules : \A l \in DOMAIN modules[j].local_vars :
              modules[j].local_vars[l].name = name => j = i /\ l = k

DeclareSymbols ==
    /\ stage = "expand" /\ expanded = Len(given.renamed_modules)
    /\ IF SymbolsDistinct
       THEN stage' = "override" /\ UNCHANGED <<modelVars, diagnosis>>
       ELSE Reject("symbols")

-----------------------------------------------------------------------------
(* What a copy promises *)

(* The value of the base's names when the copy's have the values of s: a   *)
(* replaced name reads its replacement.                                    *)
SeenByBase(renamed, s) ==
    [n \in Ident |->
       IF \E pair \in Range(renamed.renames) : pair[1] = n
       THEN s[(CHOOSE pair \in Range(renamed.renames) : pair[1] = n)[2]]
       ELSE s[n]]

Evaluate(e, s) == [shape |-> e.shape, values |-> [i \in DOMAIN e.names |-> s[e.names[i]]]]

(* The copy's assignment writes what the base's would, and where the base  *)
(* writes x the copy writes the replacement of x: after both, the base     *)
(* sees its own result.                                                    *)
AssignsAs(copied, base, renamed, s) ==
    /\ Evaluate(copied.value, s) = Evaluate(base.value, SeenByBase(renamed, s))
    /\ \A v \in Value :
         SeenByBase(renamed, [s EXCEPT ![copied.target] = v])[base.target] = v

UpdatesAs(copied, base, renamed, s) ==
    /\ Evaluate(copied.prob, s) = Evaluate(base.prob, SeenByBase(renamed, s))
    /\ DOMAIN copied.assignments = DOMAIN base.assignments
    /\ \A i \in DOMAIN base.assignments :
         AssignsAs(copied.assignments[i], base.assignments[i], renamed, s)

CommandAs(copied, base, renamed, s) ==
    /\ copied.labels = base.labels
    /\ Evaluate(copied.guard, s) = Evaluate(base.guard, SeenByBase(renamed, s))
    /\ DOMAIN copied.updates = DOMAIN base.updates
    /\ \A i \in DOMAIN base.updates : UpdatesAs(copied.updates[i], base.updates[i], renamed, s)

LocalAs(copied, base, renamed, s) ==
    /\ DOMAIN copied.exprs = DOMAIN base.exprs
    /\ \A i \in DOMAIN base.exprs :
         Evaluate(copied.exprs[i], s) = Evaluate(base.exprs[i], SeenByBase(renamed, s))
    /\ s[copied.name] = SeenByBase(renamed, s)[base.name]

BehavesAs(copied, base, renamed) ==
    /\ DOMAIN copied.commands = DOMAIN base.commands
    /\ DOMAIN copied.local_vars = DOMAIN base.local_vars
    /\ \A s \in [Ident -> Value] :
         /\ \A i \in DOMAIN base.commands : CommandAs(copied.commands[i], base.commands[i], renamed, s)
         /\ \A i \in DOMAIN base.local_vars : LocalAs(copied.local_vars[i], base.local_vars[i], renamed, s)

(* A copy evaluates, writes and synchronises as a module of the base's     *)
(* name does, with all its names replaced at once: a swap is a swap        *)
(* (rename_expr, apply_module_renames).                                    *)
CopyBehavesAsBase ==
    \A k \in 1 .. expanded :
        LET renamed == given.renamed_modules[k]
            copied  == modules[Len(given.modules) + k]
        IN  /\ copied.name = renamed.name
            /\ \E i \in 1 .. Len(given.modules) + k - 1 :
                 modules[i].name = renamed.base /\ BehavesAs(copied, modules[i], renamed)

(* The module assigns its own variables only. *)
WritesOwn(module) ==
    \A i \in DOMAIN module.commands : \A j \in DOMAIN module.commands[i].updates :
        LET assignments == module.commands[i].updates[j].assignments IN
        \A k \in DOMAIN assignments : assignments[k].target \in Names(module.local_vars)

(* Once the symbols are accepted no variable has two writers: if each      *)
(* plain module writes its own variables, so does each copy, and the       *)
(* variables of two modules differ.  The product of the modules' diagrams  *)
(* relies on it (translate_dtmc).                                          *)
WritesStayLocal ==
    /\ diagnosis = "" /\ stage # "expand"
    /\ \A i \in DOMAIN given.modules : WritesOwn(given.modules[i])
    =>
    /\ \A i \in DOMAIN modules : WritesOwn(modules[i])
    /\ \A i, j \in DOMAIN modules :
         i # j => Names(modules[i].local_vars) \cap Names(modules[j].local_vars) = {}

(* What construction relies on of an expanded model. *)
ExpansionSound == CopyBehavesAsBase /\ WritesStayLocal
=============================================================================
