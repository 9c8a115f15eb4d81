----------------------------- MODULE MCAnalysis -----------------------------
(* Small models with constants n, p and on, variables x and up, and labels *)
(* l1 and l2; each set of inputs varies one part of the model.             *)
EXTENDS Analysis

n  == Read("n")
p  == Read("p")
on == Read("on")
x  == Read("x")
up == Read("up")
l1 == LabelRef("l1")
l2 == LabelRef("l2")
If(c, t, e) == Apply("?:", <<c, t, e>>)
Not(a)      == Apply("not", <<a>>)
Neg(a)      == Apply("neg", <<a>>)
Op(a, o, b) == Apply(o, <<a, b>>)
Half        == Literal("float", <<1, 2>>)
yes         == Truth(TRUE)
no          == Truth(FALSE)

Const(name, type, value) == [name |-> name, type |-> type, value |-> value]
Label(name, expr) == [name |-> name, expr |-> expr]
IntVar(lo, hi, init) == [name |-> "x", type |-> "int", lo |-> lo, hi |-> hi, init |-> init]
BoolVar(init) == [name |-> "up", type |-> "bool", lo |-> Absent, hi |-> Absent, init |-> init]
Formula(lhs, rhs, bound) == [lhs |-> lhs, rhs |-> rhs, bound |-> bound]
Assign(name, value) == Op(Primed(name), "=", value)
Command(g, pr, a) == [guard |-> g, prob |-> pr, assign |-> a]

NoArgs == <<>>
Model(cs, overrides, decl, cmd, lbls, psi) ==
  [consts |-> cs, overrides |-> overrides, vars |-> <<decl, BoolVar(no)>>,
   command |-> cmd, labels |-> lbls, phi |-> psi]

PlainConsts  == <<Const("n", "int", Int32(2)), Const("p", "float", Half), Const("on", "bool", yes)>>
PlainVar     == IntVar(Int32(0), Int32(3), Int32(0))
PlainCommand == Command(Op(x, "<", n), p, Assign("x", Op(x, "+", Int32(1))))
PlainLabels  == <<Label("l1", Op(Op(x, ">=", n), "&", on)), Label("l2", Op(l1, "|", up))>>
PlainFormula == Formula(yes, If(on, l2, Op(p, ">", x)), Op(n, "-", Int32(1)))

ConstOverrides ==
  { NoArgs, [n |-> Int32(1)], [p |-> Int32(1)], [on |-> no], [n |-> yes],
    [m |-> Int32(1)], [n |-> Int32(3), on |-> yes], [p |-> Half, n |-> Int32(0)] }

\* Cycles, a cycle behind a branch that is not taken, a variable, a missing
\* value, ill-typed values, and uses before the declaration.
ConstInputs ==
  { Model(c, o, PlainVar, PlainCommand, PlainLabels, PlainFormula) :
      o \in ConstOverrides,
      c \in UNION { { <<a, b, d>>, <<d, b, a>> } :
        a \in { Const("n", "int", v) : v \in
                  {Absent, Int32(2), If(on, Int32(1), n), Op(n, "+", Int32(1)), x, Half} },
        b \in { Const("p", "float", v) : v \in
                  {Half, n, Op(n, "/", Int32(2)), Neg(Op(p, "*", n)), If(on, n, p)} },
        d \in { Const("on", "bool", v) : v \in
                  {yes, Op(n, "!=", Int32(2)), Op(no, "&", on), Not(Op(p, "<=", n)), n} } } }

\* Labels used before their declaration, twice, in a cycle, or not declared.
LabelInputs ==
  { Model(PlainConsts, NoArgs, PlainVar, PlainCommand, ls, Formula(lhs, rhs, k)) :
      ls \in { <<Label("l1", a), Label(m, b)>> :
                 m \in {"l1", "l2"},
                 a \in {Op(x, "=", n), l2, Op(l2, "&", Not(l2)), x},
                 b \in {up, l1, If(on, up, l1), LabelRef("l3")} },
      lhs \in {yes, Not(l1)},
      rhs \in {l1, Op(l2, "|", Op(x, "<", p)), If(Op(n, "=", Int32(2)), l1, l2)},
      k \in {Absent, n, Op(n, "-", Int32(3)), Op(n, "/", Int32(1)), x} }

\* Bounds, initial values, guards, probabilities and assignments.
DeclInputs ==
  { Model(PlainConsts, o, IntVar(lo, hi, init), Command(g, pr, a), PlainLabels, PlainFormula) :
      o \in {NoArgs, [n |-> Int32(0)]},
      lo \in {Int32(0), n}, hi \in {n, Int32(1), p},
      init \in {Int32(0), n, up},
      g \in {Op(x, "<", n), up, x},
      pr \in {Op(Int32(1), "/", Op(n, "+", Int32(1))), Op(up, "=", on), p},
      a \in {Assign("x", Op(n, "-", x)), Assign("up", Not(up)), Assign("x", p), Assign("y", n)} }

AllNames == {"", "n", "p", "on", "m", "x", "up", "y", "l1", "l2", "l3"}

AllInputs == ConstInputs \cup LabelInputs \cup DeclInputs

\* An initial value that names a variable.
InitInputs ==
  { Model(PlainConsts, NoArgs, IntVar(Int32(0), Int32(2), init), PlainCommand, PlainLabels, PlainFormula) :
      init \in {Int32(0), n, x, Op(x, "+", n), If(up, n, n)} }
=============================================================================
