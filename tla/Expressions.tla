---------------------------- MODULE Expressions ----------------------------
(***************************************************************************)
(* Expressions of the modelling language and the four passes over them:    *)
(* type inference and constant folding (analyze.rs), the expansion of      *)
(* label references (analyze.rs) and the translation into a decision       *)
(* diagram (constr_symbolic.rs), here the value it has in each state.      *)
(*                                                                         *)
(* A node is a record: op is the constructor or operator, name the         *)
(* identifier or label of a leaf, val the value of a literal, args the     *)
(* operands.  Numbers are exact fractions <<numerator, denominator>> in    *)
(* lowest terms, truth values the fractions 0 and 1 as in the diagrams;    *)
(* the rounding of doubles, the tolerances of =, and the width of i32 are  *)
(* abstracted, and no input divides by zero.                               *)
(*                                                                         *)
(* A pass over an expression is a recursive function on the trees of at    *)
(* most Height levels: what it makes of a node is an operator of its own,  *)
(* given what it has made of the operands.                                 *)
(***************************************************************************)
EXTENDS Integers, Sequences, FiniteSets

CONSTANTS
  Name,       \* identifiers and labels, and "" for a node that has neither
  Height      \* no expression has more levels

Kinds   == {"bool", "int", "float"}
Numeric == {"int", "float"}
Arith   == {"+", "-", "*", "/"}
Order   == {"<", "<=", ">", ">="}
Equal   == {"=", "!="}
Logical == {"&", "|"}
Binary  == Arith \cup Order \cup Equal \cup Logical
Leaves  == Kinds \cup {"ident", "primed", "label", "none", "bad"}

\* How many operands a constructor or operator has.
Arity(op) ==
  CASE op \in Leaves -> 0
    [] op \in {"not", "neg"} -> 1
    [] op \in Binary -> 2
    [] op = "?:" -> 3

Constructors == Leaves \cup {"not", "neg", "?:"} \cup Binary

Node(op, name, val, args) == [op |-> op, name |-> name, val |-> val, args |-> args]

Fraction == Int \X Int
Zero == <<0, 1>>
One  == <<1, 1>>

\* The trees of at most n levels.
Within[n \in Nat] ==
  IF n = 0
  THEN {}
  ELSE {x \in [op : Constructors, name : Name, val : Fraction, args : Seq(Within[n - 1])] :
          Len(x.args) = Arity(x.op) /\ (x.op = "bool" => x.val \in {Zero, One})}

Tree == Within[Height]

Literal(kind, val) == Node(kind, "", val, <<>>)
Truth(p)           == Literal("bool", IF p THEN One ELSE Zero)
Int32(n)           == Literal("int", <<n, 1>>)
Read(name)         == Node("ident", name, Zero, <<>>)
Primed(name)       == Node("primed", name, Zero, <<>>)
LabelRef(name)     == Node("label", name, Zero, <<>>)
Apply(op, args)    == Node(op, "", Zero, args)
Absent             == Node("none", "", Zero, <<>>)
Bad                == Node("bad", "", Zero, <<>>)

IsLiteral(x) == x.op \in Kinds

\* What a pass makes of the operands of x, as a tuple: TLC computes each once.
Mapped(x, pass) == <<>> \o [i \in DOMAIN x.args |-> pass[x.args[i]]]

\* Every node of an expression.
Parts(x) ==
  LET parts[y \in Tree] == {y} \cup UNION {parts[y.args[i]] : i \in DOMAIN y.args}
  IN parts[x]

\* The constructors it uses, the identifiers it reads or writes, its labels.
Ops(x)    == {y.op : y \in Parts(x)}
Idents(x) == {y.name : y \in {z \in Parts(x) : z.op \in {"ident", "primed"}}}
Labels(x) == {y.name : y \in {z \in Parts(x) : z.op = "label"}}

-----------------------------------------------------------------------------
(* Numbers. *)

Abs(n) == IF n < 0 THEN -n ELSE n

\* n / d in lowest terms.
Lowest(n, d) ==
  LET g == CHOOSE g \in 1 .. Abs(n) + Abs(d) + 1 :
             /\ n % g = 0 /\ d % g = 0
             /\ \A h \in g + 1 .. Abs(n) + Abs(d) + 1 : ~(n % h = 0 /\ d % h = 0)
      s == IF d < 0 THEN -1 ELSE 1
  IN <<s * (n \div g), s * (d \div g)>>

Calculate(op, a, b) ==
  CASE op = "+" -> Lowest(a[1] * b[2] + b[1] * a[2], a[2] * b[2])
    [] op = "-" -> Lowest(a[1] * b[2] - b[1] * a[2], a[2] * b[2])
    [] op = "*" -> Lowest(a[1] * b[1], a[2] * b[2])
    [] op = "/" -> Lowest(a[1] * b[2], a[2] * b[1])

Compare(op, a, b) ==
  LET l == a[1] * b[2]
      r == b[1] * a[2]
  IN CASE op = "="  -> l = r
       [] op = "!=" -> l # r
       [] op = "<"  -> l < r
       [] op = "<=" -> l <= r
       [] op = ">"  -> l > r
       [] op = ">=" -> l >= r

-----------------------------------------------------------------------------
(* infer_expr_type: the type of an expression, "error" when it has none.   *)

\* The common type of two branches or operands: ints promote to floats.
Join(s, t) ==
  IF s = t THEN s ELSE IF {s, t} \subseteq Numeric THEN "float" ELSE "error"

\* The type of a node with operands of types t; a label has the type ref.
InferNode(x, t, types, ref) ==
  LET numbers == \A i \in DOMAIN t : t[i] \in Numeric
      truths  == \A i \in DOMAIN t : t[i] = "bool"
  IN CASE IsLiteral(x) -> x.op
       [] x.op \in {"ident", "primed"} /\ x.name \in DOMAIN types -> types[x.name]
       [] x.op = "label" -> ref
       [] x.op = "not" /\ truths -> "bool"
       [] x.op = "neg" /\ numbers -> t[1]
       [] x.op \in Logical /\ truths -> "bool"
       [] x.op = "/" /\ numbers -> "float"
       [] x.op \in Arith \ {"/"} /\ numbers -> Join(t[1], t[2])
       [] x.op \in Order /\ numbers -> "bool"
       [] x.op \in Equal /\ "error" \notin {t[1], t[2], Join(t[1], t[2])} -> "bool"
       [] x.op = "?:" /\ t[1] = "bool" -> Join(t[2], t[3])
       [] OTHER -> "error"

InferWith(x, types, ref) ==
  LET infer[y \in Tree] == InferNode(y, Mapped(y, infer), types, ref)
  IN infer[x]

\* A label that is still there has no type.
Infer(x, types) == InferWith(x, types, "error")

-----------------------------------------------------------------------------
(* fold_expr: replaces the identifiers in vals and computes what is closed. *)

\* Two literal operands; an operator they do not fit is left in place.
FoldBinary(op, a, b) ==
  LET kinds   == <<a.op, b.op>>
      numbers == {a.op, b.op} \subseteq Numeric
      whole   == kinds = <<"int", "int">> /\ op # "/"
  IN CASE whole /\ op \in Arith -> Literal("int", Calculate(op, a.val, b.val))
       [] numbers /\ ~whole /\ op \in Arith -> Literal("float", Calculate(op, a.val, b.val))
       [] numbers /\ op \in Order \cup Equal -> Truth(Compare(op, a.val, b.val))
       [] kinds = <<"bool", "bool">> /\ op = "&" -> Truth(a.val = One /\ b.val = One)
       [] kinds = <<"bool", "bool">> /\ op = "|" -> Truth(a.val = One \/ b.val = One)
       [] kinds = <<"bool", "bool">> /\ op \in Equal -> Truth(Compare(op, a.val, b.val))
       [] OTHER -> Apply(op, <<a, b>>)

\* A slip: a branch is dropped without a look at the condition.
BranchFirst(cond, then, else) == then

\* The branch a closed condition selects, whatever the other one holds.
Branch(cond, then, else) == IF cond.val = One THEN then ELSE else

\* A node with the operands a, folded already.
FoldNode(x, a, vals) ==
  CASE x.op = "ident" /\ x.name \in DOMAIN vals -> vals[x.name]
    [] x.op = "not" /\ a[1].op = "bool" -> Truth(a[1].val = Zero)
    [] x.op = "neg" /\ a[1].op \in Numeric -> Literal(a[1].op, Calculate("-", Zero, a[1].val))
    [] x.op = "?:" /\ a[1].op = "bool" -> Branch(a[1], a[2], a[3])
    [] Len(a) = 2 /\ IsLiteral(a[1]) /\ IsLiteral(a[2]) -> FoldBinary(x.op, a[1], a[2])
    [] OTHER -> [x EXCEPT !.args = a]

Fold(x, vals) ==
  LET fold[y \in Tree] == FoldNode(y, Mapped(y, fold), vals)
  IN fold[x]

-----------------------------------------------------------------------------
(* expand_label_refs_in_expr: a reference becomes the body of its label,   *)
(* expanded in turn.  Where the code bails out, on an unknown label and on *)
(* one that is being expanded already, the result holds a Bad node.        *)

SubstituteNode(x, a, by) ==
  IF x.op # "label" THEN [x EXCEPT !.args = a]
  ELSE IF x.name \in DOMAIN by THEN by[x.name] ELSE Bad

\* Each label of x replaced by what `by` gives for it.
Substitute(x, by) ==
  LET substitute[y \in Tree] == SubstituteNode(y, Mapped(y, substitute), by)
  IN substitute[x]

\* What a label becomes while those in resolving are being expanded.
Expanded(bodies) ==
  LET expanded[resolving \in SUBSET DOMAIN bodies] ==
        [name \in DOMAIN bodies |->
           IF name \in resolving THEN Bad
           ELSE Substitute(bodies[name], expanded[resolving \cup {name}])]
  IN expanded

Expand(x, bodies) == Substitute(x, Expanded(bodies)[{}])

-----------------------------------------------------------------------------
(* translate_expr: the value of the diagram in the state that gives the    *)
(* variables the values cur and, after the step, nxt.  A truth value is    *)
(* read from a diagram by the threshold add_to_bdd.  Where the code panics, *)
(* on a label and on a name without an encoding, there is no such value.   *)

AsTruth(p) == IF p THEN One ELSE Zero

NoValue == <<0, 0>>

TranslateNode(x, v, cur, nxt) ==
  CASE IsLiteral(x) -> x.val
    [] x.op = "ident"  /\ x.name \in DOMAIN cur -> cur[x.name]
    [] x.op = "primed" /\ x.name \in DOMAIN nxt -> nxt[x.name]
    [] x.op = "not" -> Calculate("-", One, v[1])
    [] x.op = "neg" -> Calculate("-", Zero, v[1])
    [] x.op = "&" -> Calculate("*", v[1], v[2])
    [] x.op = "|" -> AsTruth(Compare(">", v[1], Zero) \/ Compare(">", v[2], Zero))
    [] x.op \in Arith -> Calculate(x.op, v[1], v[2])
    [] x.op \in Order \cup Equal -> AsTruth(Compare(x.op, v[1], v[2]))
    [] x.op = "?:" -> IF Compare(">", v[1], Zero) THEN v[2] ELSE v[3]
    [] OTHER -> NoValue

Translate(x, cur, nxt) ==
  LET translate[y \in Tree] == TranslateNode(y, Mapped(y, translate), cur, nxt)
  IN translate[x]
=============================================================================
