--------------------------- MODULE Analysis_proof ---------------------------
(***************************************************************************)
(* The analysis of a model, for every set of inputs, in two parts.         *)
(*                                                                         *)
(* The first is about the constants: they resolve to what their            *)
(* declarations mean.  A pass over expressions obeys its rule on every     *)
(* tree (the sections up to `The type of a tree'), and from that follow,   *)
(* by induction on the height of a tree, the three laws of folding the     *)
(* invariant rests on: FoldMeaning, it keeps what a tree means; FoldType,  *)
(* it keeps the type, up to an int in the place of a float; FoldCloses, a  *)
(* tree whose names are resolved as far as it needs them folds to a        *)
(* literal.  NothingLeft turns the last into what the loop is for: a round *)
(* that resolves nothing leaves no constant with a meaning.                *)
(*                                                                         *)
(* The second is about the rest of the model, from `What is left to read   *)
(* in an expression' on: the property that comes out mentions variables    *)
(* only and its diagrams mean what the text means, and nothing well formed *)
(* is rejected.  It rests on three more laws: ExpandMeaning and            *)
(* ExpandTyped, replacing labels keeps meaning and type (by induction on   *)
(* the set of labels that are being expanded, from the largest down), and  *)
(* TranslateMeaning, the diagram of a typed tree over the variables has    *)
(* the value the tree means.  KeptInv is the invariant: what each part of  *)
(* the model has been made into, in each of the two passes.                *)
(***************************************************************************)
EXTENDS Analysis, SumTheorems, WellFoundedInduction

-----------------------------------------------------------------------------
(* Trees *)

(* The trees whose operands are in W. *)
Layer(W) ==
  {x \in [op : Constructors, name : Name, val : Fraction, args : Seq(W)] :
     Len(x.args) = Arity(x.op) /\ (x.op = "bool" => x.val \in {Zero, One})}

(* The first layers, up to the n-th. *)
IsTower(f, n) ==
  /\ f = [k \in 0 .. n |-> f[k]]
  /\ \A k \in 0 .. n : f[k] = IF k = 0 THEN {} ELSE Layer(f[k - 1])

LEMMA TowerExists == \A n \in Nat : \E f : IsTower(f, n)
<1> DEFINE good == {n \in Nat : \E f : IsTower(f, n)}
<1>1. 0 \in good
  <2> DEFINE f == [k \in 0 .. 0 |-> {}]
  <2>1. IsTower(f, 0)
    BY DEF IsTower
  <2> QED
    BY <2>1
<1>2. ASSUME NEW n \in good PROVE n + 1 \in good
  <2>1. PICK f : IsTower(f, n)
    OBVIOUS
  <2> DEFINE g == [k \in 0 .. n + 1 |-> IF k = n + 1 THEN Layer(f[n]) ELSE f[k]]
  <2>2. ASSUME NEW k \in 0 .. n + 1
        PROVE  g[k] = IF k = 0 THEN {} ELSE Layer(g[k - 1])
    <3>1. n \in Nat /\ k \in Int
      OBVIOUS
    <3>2. CASE k = n + 1
      BY <3>1, <3>2
    <3>3. CASE k # n + 1
      <4>1. k \in 0 .. n /\ (k # 0 => k - 1 \in 0 .. n)
        BY <3>1, <3>3
      <4>2. g[k] = f[k] /\ (k # 0 => g[k - 1] = f[k - 1])
        BY <3>1, <3>3, <4>1
      <4>3. f[k] = IF k = 0 THEN {} ELSE Layer(f[k - 1])
        BY <2>1, <4>1 DEF IsTower
      <4> QED
        BY <4>2, <4>3
    <3> QED
      BY <3>2, <3>3
  <2>3. g = [k \in 0 .. n + 1 |-> g[k]]
    OBVIOUS
  <2>4. IsTower(g, n + 1)
    BY <2>2, <2>3 DEF IsTower
  <2> QED
    BY <2>4
<1> QED
  BY <1>1, <1>2, SetInduction

LEMMA TowersAgree ==
  ASSUME NEW f, NEW g, NEW n \in Nat, NEW m \in Nat, IsTower(f, n), IsTower(g, m)
  PROVE  \A k \in Nat : k <= n /\ k <= m => f[k] = g[k]
<1> DEFINE good == {k \in Nat : k <= n /\ k <= m => f[k] = g[k]}
<1>1. 0 \in good
  <2>1. 0 \in 0 .. n /\ 0 \in 0 .. m
    OBVIOUS
  <2>2. f[0] = {} /\ g[0] = {}
    BY <2>1 DEF IsTower
  <2> QED
    BY <2>2
<1>2. ASSUME NEW k \in good PROVE k + 1 \in good
  <2>1. k \in Nat /\ (k + 1) - 1 = k /\ k + 1 # 0
    OBVIOUS
  <2>2. ASSUME k + 1 <= n, k + 1 <= m PROVE f[k + 1] = g[k + 1]
    <3>1. f[k] = g[k] /\ k + 1 \in 0 .. n /\ k + 1 \in 0 .. m
      BY <2>1, <2>2
    <3>2. f[k + 1] = Layer(f[k]) /\ g[k + 1] = Layer(g[k])
      BY <2>1, <3>1 DEF IsTower
    <3> QED
      BY <3>1, <3>2
  <2> QED
    BY <2>1, <2>2
<1> QED
  BY <1>1, <1>2, SetInduction

LEMMA WithinLaw ==
  \A n \in Nat : Within[n] = IF n = 0 THEN {} ELSE Layer(Within[n - 1])
<1> DEFINE tower(n) == CHOOSE f : IsTower(f, n)
           all == [n \in Nat |-> tower(n)[n]]
<1>1. \A n \in Nat : IsTower(tower(n), n)
  BY TowerExists
<1>2. ASSUME NEW n \in Nat PROVE all[n] = IF n = 0 THEN {} ELSE Layer(all[n - 1])
  <2>1. tower(n)[n] = IF n = 0 THEN {} ELSE Layer(tower(n)[n - 1])
    BY <1>1 DEF IsTower
  <2>2. CASE n = 0
    BY <2>1, <2>2
  <2>3. CASE n # 0
    <3>1. n - 1 \in Nat /\ n - 1 <= n
      BY <2>3
    <3>2. tower(n)[n - 1] = tower(n - 1)[n - 1]
      BY <1>1, <3>1, TowersAgree
    <3> QED
      BY <2>1, <2>3, <3>1, <3>2
  <2> QED
    BY <2>2, <2>3
<1> HIDE DEF all, tower
<1> DEFINE law(f) == f = [n \in Nat |-> IF n = 0 THEN {} ELSE Layer(f[n - 1])]
<1>3. law(all)
  BY <1>2 DEF all
<1>4. Within = CHOOSE f : law(f)
  BY DEF Within, Layer
<1>5. law(Within)
  BY <1>3, <1>4
<1> QED
  BY <1>5

LEMMA SeqWider == ASSUME NEW W, NEW V, W \subseteq V PROVE Seq(W) \subseteq Seq(V)
<1> SUFFICES ASSUME NEW s \in Seq(W) PROVE s \in Seq(V)
  OBVIOUS
<1>1. \A i \in 1 .. Len(s) : s[i] \in V
  OBVIOUS
<1> QED
  BY <1>1

LEMMA LayerWider == ASSUME NEW W, NEW V, W \subseteq V PROVE Layer(W) \subseteq Layer(V)
  BY SeqWider DEF Layer

LEMMA HeightNat == Height \in Nat /\ Levels \in Nat \ {0}
  BY InputAssumption DEF InputShape

LEMMA WithinGrows == \A n \in Nat : Within[n] \subseteq Within[n + 1]
<1> DEFINE good == {n \in Nat : Within[n] \subseteq Within[n + 1]}
<1>1. 0 \in good
  BY WithinLaw
<1>2. ASSUME NEW n \in good PROVE n + 1 \in good
  <2>1. /\ n \in Nat /\ n + 1 \in Nat /\ n + 2 \in Nat
        /\ n + 1 # 0 /\ n + 2 # 0 /\ (n + 1) - 1 = n /\ (n + 2) - 1 = n + 1
        /\ (n + 1) + 1 = n + 2
    OBVIOUS
  <2>2. Within[n + 1] = Layer(Within[n]) /\ Within[n + 2] = Layer(Within[n + 1])
    BY <2>1, WithinLaw
  <2>3. Within[n] \subseteq Within[n + 1]
    OBVIOUS
  <2> QED
    BY <2>1, <2>2, <2>3, LayerWider
<1> QED
  BY <1>1, <1>2, SetInduction

LEMMA WithinMonotone == \A n, m \in Nat : n <= m => Within[n] \subseteq Within[m]
<1> SUFFICES ASSUME NEW n \in Nat PROVE \A m \in Nat : n <= m => Within[n] \subseteq Within[m]
  OBVIOUS
<1> DEFINE good == {m \in Nat : n <= m => Within[n] \subseteq Within[m]}
<1>1. 0 \in good
  <2>1. n <= 0 => n = 0
    OBVIOUS
  <2> QED
    BY <2>1
<1>2. ASSUME NEW m \in good PROVE m + 1 \in good
  <2>1. CASE n <= m
    BY <2>1, WithinGrows
  <2>2. CASE ~(n <= m)
    <3>1. n <= m + 1 => n = m + 1
      BY <2>2
    <3> QED
      BY <3>1
  <2> QED
    BY <2>1, <2>2
<1> QED
  BY <1>1, <1>2, SetInduction

(* The shape of a node, and of its operands. *)
Shaped(x) ==
  /\ x = [op |-> x.op, name |-> x.name, val |-> x.val, args |-> x.args]
  /\ x.op \in Constructors /\ x.name \in Name /\ x.val \in Fraction
  /\ x.op = "bool" => x.val \in {Zero, One}
  /\ Len(x.args) = Arity(x.op)
  /\ DOMAIN x.args = 1 .. Arity(x.op)

LEMMA LayerNode ==
  ASSUME NEW W, NEW x \in Layer(W)
  PROVE  Shaped(x) /\ x.args \in Seq(W) /\ \A i \in DOMAIN x.args : x.args[i] \in W
<1>1. x \in [op : Constructors, name : Name, val : Fraction, args : Seq(W)]
  BY DEF Layer
<1>2. x.args \in Seq(W)
  BY <1>1
<1>3. DOMAIN x.args = 1 .. Len(x.args) /\ \A i \in DOMAIN x.args : x.args[i] \in W
  BY <1>2
<1> QED
  BY <1>1, <1>2, <1>3 DEF Layer, Shaped

LEMMA WithinNode ==
  ASSUME NEW n \in Nat, NEW x \in Within[n]
  PROVE  /\ n # 0 /\ n - 1 \in Nat
         /\ Shaped(x) /\ x.args \in Seq(Within[n - 1])
         /\ \A i \in DOMAIN x.args : x.args[i] \in Within[n - 1]
<1>1. n # 0 /\ n - 1 \in Nat /\ x \in Layer(Within[n - 1])
  BY WithinLaw
<1> QED
  BY <1>1, LayerNode

LEMMA TreeNode ==
  ASSUME NEW x \in Tree
  PROVE  Shaped(x) /\ x.args \in Seq(Tree) /\ \A i \in DOMAIN x.args : x.args[i] \in Tree
<1>1. Height \in Nat /\ x \in Within[Height]
  BY HeightNat DEF Tree
<1>2. /\ Shaped(x) /\ x.args \in Seq(Within[Height - 1]) /\ Height - 1 \in Nat
      /\ \A i \in DOMAIN x.args : x.args[i] \in Within[Height - 1]
  BY <1>1, WithinNode
<1>3. Within[Height - 1] \subseteq Tree
  BY <1>1, <1>2, WithinMonotone DEF Tree
<1> QED
  BY <1>2, <1>3, SeqWider

LEMMA BuildWithin ==
  ASSUME NEW n \in Nat, n # 0, NEW x, Shaped(x), x.args \in Seq(Within[n - 1])
  PROVE  x \in Within[n]
<1>1. Within[n] = Layer(Within[n - 1])
  BY WithinLaw
<1>2. x \in Layer(Within[n - 1])
  BY DEF Layer, Shaped
<1> QED
  BY <1>1, <1>2

LEMMA TreeInduction ==
  ASSUME NEW S,
         \A x \in Tree : (\A i \in DOMAIN x.args : x.args[i] \in S) => x \in S
  PROVE  \A x \in Tree : x \in S
<1> DEFINE good == {n \in Nat : n <= Height => Within[n] \subseteq S}
<1>1. 0 \in good
  BY WithinLaw
<1>2. ASSUME NEW n \in good PROVE n + 1 \in good
  <2> SUFFICES ASSUME n + 1 <= Height, NEW x \in Within[n + 1] PROVE x \in S
    OBVIOUS
  <2>1. n \in Nat /\ n + 1 \in Nat /\ (n + 1) - 1 = n /\ n <= Height /\ Height \in Nat
    BY HeightNat
  <2>2. x \in Tree
    BY <2>1, WithinMonotone DEF Tree
  <2>3. \A i \in DOMAIN x.args : x.args[i] \in Within[n]
    BY <2>1, WithinNode
  <2> QED
    BY <2>1, <2>2, <2>3
<1>3. good = Nat
  BY <1>1, <1>2, SetInduction
<1> QED
  BY <1>3, HeightNat DEF Tree

-----------------------------------------------------------------------------
(* Passes: a rule for a node, given the results for its operands, has a    *)
(* function on all trees that obeys it.                                    *)

LEMMA EmptyConcat == ASSUME NEW R, NEW s \in Seq(R) PROVE <<>> \o s = s
  OBVIOUS

LEMMA MappedIs ==
  ASSUME NEW R, NEW g \in [Tree -> R], NEW x \in Tree
  PROVE  /\ Mapped(x, g) \in Seq(R)
         /\ Mapped(x, g) = [i \in DOMAIN x.args |-> g[x.args[i]]]
         /\ Len(Mapped(x, g)) = Arity(x.op)
         /\ DOMAIN Mapped(x, g) = 1 .. Arity(x.op)
         /\ \A i \in DOMAIN x.args : Mapped(x, g)[i] = g[x.args[i]]
<1> DEFINE s == [i \in DOMAIN x.args |-> g[x.args[i]]]
<1>1. x.args \in Seq(Tree) /\ Len(x.args) = Arity(x.op) /\ DOMAIN x.args = 1 .. Arity(x.op)
  BY TreeNode DEF Shaped
<1>2. s \in Seq(R) /\ Len(s) = Len(x.args) /\ DOMAIN s = 1 .. Arity(x.op)
  BY <1>1
<1>3. Mapped(x, g) = s
  BY <1>2, EmptyConcat DEF Mapped
<1> QED
  BY <1>1, <1>2, <1>3

LEMMA MappedEach ==
  ASSUME NEW R, NEW g \in [Tree -> R], NEW x \in Tree
  PROVE  Mapped(x, g) = [i \in DOMAIN x.args |-> g[x.args[i]]]
<1> DEFINE s == [i \in DOMAIN x.args |-> g[x.args[i]]]
<1>1. x.args \in Seq(Tree)
  BY TreeNode
<1>2. s \in Seq(R)
  BY <1>1
<1> QED
  BY <1>2, EmptyConcat DEF Mapped

LEMMA TreeRecursion ==
  ASSUME NEW R, NEW F \in [Tree \X Seq(R) -> R]
  PROVE  \E g \in [Tree -> R] : \A x \in Tree : g[x] = F[<<x, Mapped(x, g)>>]
<1> DEFINE obeys(g, n) == \A x \in Tree : x \in Within[n] => g[x] = F[<<x, Mapped(x, g)>>]
           good == {n \in Nat : \E g \in [Tree -> R] : obeys(g, n)}
<1>1. 0 \in good
  <2>1. CASE Tree = {}
    BY <2>1, WithinLaw
  <2>2. CASE Tree # {}
    <3>1. PICK x \in Tree : TRUE
      BY <2>2
    <3>2. <<x, <<>>>> \in Tree \X Seq(R)
      <4>1. <<>> \in Seq(R)
        OBVIOUS
      <4> QED
        BY <4>1
    <3>3. PICK r \in R : TRUE
      BY <3>2
    <3>4. [y \in Tree |-> r] \in [Tree -> R]
      OBVIOUS
    <3>5. \A y : y \notin Within[0]
      BY WithinLaw
    <3> QED
      BY <3>4, <3>5
  <2> QED
    BY <2>1, <2>2
<1>2. ASSUME NEW n \in good PROVE n + 1 \in good
  <2>1. PICK g \in [Tree -> R] : obeys(g, n)
    OBVIOUS
  <2> DEFINE h == [x \in Tree |-> IF x \in Within[n] THEN g[x] ELSE F[<<x, Mapped(x, g)>>]]
  <2>2. ASSUME NEW x \in Tree PROVE F[<<x, Mapped(x, g)>>] \in R
    BY MappedIs
  <2>3. h \in [Tree -> R]
    BY <2>2
  <2>4. ASSUME NEW x \in Tree, x \in Within[n + 1] PROVE Mapped(x, h) = Mapped(x, g)
    <3>1. n + 1 \in Nat /\ (n + 1) - 1 = n /\ n \in Nat
      OBVIOUS
    <3>2. \A i \in DOMAIN x.args : x.args[i] \in Within[n] /\ x.args[i] \in Tree
      BY <3>1, <2>4, WithinNode, TreeNode
    <3>3. \A i \in DOMAIN x.args : h[x.args[i]] = g[x.args[i]]
      BY <3>2
    <3>4. \A f \in [Tree -> R] : Mapped(x, f) = [i \in DOMAIN x.args |-> f[x.args[i]]]
      BY MappedEach
    <3> HIDE DEF h
    <3> QED
      BY <2>3, <3>3, <3>4
  <2>5. ASSUME NEW x \in Tree, x \in Within[n + 1] PROVE h[x] = F[<<x, Mapped(x, h)>>]
    <3>1. h[x] = F[<<x, Mapped(x, g)>>]
      BY <2>1
    <3> QED
      BY <3>1, <2>4, <2>5
  <2>6. obeys(h, n + 1)
    BY <2>5
  <2> HIDE DEF h, obeys
  <2> QED
    BY <2>3, <2>6
<1>3. good = Nat
  <2> HIDE DEF obeys
  <2> QED
    BY <1>1, <1>2, SetInduction
<1> QED
  BY <1>3, HeightNat DEF Tree

(* The same for a recursion on the naturals. *)
LEMMA NatRecursion ==
  ASSUME NEW R, NEW base \in R, NEW F \in [R -> R]
  PROVE  \E g \in [Nat -> R] : \A n \in Nat : g[n] = IF n = 0 THEN base ELSE F[g[n - 1]]
<1> DEFINE obeys(g, n) == \A k \in Nat : k <= n => g[k] = IF k = 0 THEN base ELSE F[g[k - 1]]
           good == {n \in Nat : \E g \in [Nat -> R] : obeys(g, n)}
<1>1. 0 \in good
  <2>1. [k \in Nat |-> base] \in [Nat -> R] /\ obeys([k \in Nat |-> base], 0)
    OBVIOUS
  <2> QED
    BY <2>1
<1>2. ASSUME NEW n \in good PROVE n + 1 \in good
  <2>1. PICK g \in [Nat -> R] : obeys(g, n)
    OBVIOUS
  <2> DEFINE h == [k \in Nat |-> IF k <= n THEN g[k] ELSE F[g[n]]]
  <2>2. h \in [Nat -> R]
    OBVIOUS
  <2>3. ASSUME NEW k \in Nat, k <= n + 1 PROVE h[k] = IF k = 0 THEN base ELSE F[h[k - 1]]
    <3>1. n \in Nat /\ (k # 0 => k - 1 \in Nat /\ k - 1 <= n)
      BY <2>3
    <3>2. CASE k <= n
      BY <3>1, <3>2, <2>1
    <3>3. CASE ~(k <= n)
      <4>1. k = n + 1 /\ k # 0 /\ k - 1 = n
        BY <3>1, <3>3, <2>3
      <4> QED
        BY <4>1, <3>1
    <3> QED
      BY <3>2, <3>3
  <2>4. obeys(h, n + 1)
    BY <2>3
  <2> HIDE DEF h, obeys
  <2> QED
    BY <2>2, <2>4
<1>3. good = Nat
  <2> HIDE DEF obeys
  <2> QED
    BY <1>1, <1>2, SetInduction
<1> QED
  <2> DEFINE level(n) == CHOOSE g \in [Nat -> R] : obeys(g, n)
             all == [n \in Nat |-> level(n)[n]]
  <2>0. \A n \in Nat : level(n) \in [Nat -> R] /\ obeys(level(n), n)
    BY <1>3
  <2> HIDE DEF level
  <2>1. \A n \in Nat : /\ level(n) \in [Nat -> R]
                      /\ \A k \in Nat : k <= n =>
                           level(n)[k] = IF k = 0 THEN base ELSE F[level(n)[k - 1]]
    BY <2>0
  <2>2. ASSUME NEW n \in Nat, NEW m \in Nat, n <= m
        PROVE  \A k \in Nat : k <= n => level(n)[k] = level(m)[k]
    <3> DEFINE same == {k \in Nat : k <= n => level(n)[k] = level(m)[k]}
    <3>1. 0 \in same
      <4>1. level(n)[0] = base /\ level(m)[0] = base
        BY <2>1
      <4> QED
        BY <4>1
    <3>2. ASSUME NEW k \in same PROVE k + 1 \in same
      <4> SUFFICES ASSUME k + 1 <= n PROVE level(n)[k + 1] = level(m)[k + 1]
        OBVIOUS
      <4>1. k \in Nat /\ k + 1 \in Nat /\ (k + 1) - 1 = k /\ k + 1 # 0 /\ k + 1 <= m /\ k <= n
        BY <2>2
      <4>2. level(n)[k + 1] = F[level(n)[k]] /\ level(m)[k + 1] = F[level(m)[k]]
        BY <4>1, <2>1
      <4>3. level(n)[k] = level(m)[k]
        BY <4>1
      <4> QED
        BY <4>2, <4>3
    <3> QED
      BY <3>1, <3>2, SetInduction
  <2>3. all \in [Nat -> R]
    BY <2>1
  <2>4. ASSUME NEW n \in Nat PROVE all[n] = IF n = 0 THEN base ELSE F[all[n - 1]]
    <3>1. level(n)[n] = IF n = 0 THEN base ELSE F[level(n)[n - 1]]
      BY <2>1
    <3>2. n # 0 => n - 1 \in Nat /\ n - 1 <= n /\ level(n - 1)[n - 1] = level(n)[n - 1]
      <4> SUFFICES ASSUME n # 0 PROVE n - 1 \in Nat /\ n - 1 <= n /\ level(n - 1)[n - 1] = level(n)[n - 1]
        OBVIOUS
      <4>1. n - 1 \in Nat /\ n - 1 <= n /\ n - 1 <= n - 1
        OBVIOUS
      <4> QED
        BY <4>1, <2>2
    <3> QED
      BY <3>1, <3>2
  <2> QED
    BY <2>3, <2>4

-----------------------------------------------------------------------------
(* Numbers *)

LEMMA Largest ==
  ASSUME NEW b \in Nat, NEW S \in SUBSET (1 .. b), S # {}
  PROVE  \E g \in S : \A h \in S : h <= g
<1> DEFINE rest == {b - g : g \in S}
<1>1. rest \in SUBSET Nat /\ rest # {}
  <2>1. \A g \in S : g \in Nat /\ g <= b /\ b - g \in Nat
    OBVIOUS
  <2> QED
    BY <2>1
<1>2. PICK m \in rest : \A n \in rest : ~ (<<n, m>> \in OpToRel(<, Nat))
  BY <1>1, NatLessThanWellFounded, WFMin
<1>3. m \in Nat /\ \A n \in rest : n \in Nat /\ ~ (n < m)
  BY <1>1, <1>2 DEF OpToRel
<1>4. PICK g \in S : m = b - g
  BY <1>2
<1>5. ASSUME NEW h \in S PROVE h <= g
  <2>1. b - h \in rest
    OBVIOUS
  <2>2. ~ (b - h < b - g)
    BY <1>3, <1>4, <2>1
  <2> QED
    BY <2>2
<1> QED
  BY <1>5

LEMMA LowestFraction == \A n, d \in Int : Lowest(n, d) \in Fraction
<1> SUFFICES ASSUME NEW n \in Int, NEW d \in Int PROVE Lowest(n, d) \in Fraction
  OBVIOUS
<1> DEFINE top == Abs(n) + Abs(d) + 1
           divides(g) == n % g = 0 /\ d % g = 0
           most(g) == divides(g) /\ \A h \in g + 1 .. top : ~divides(h)
           g == CHOOSE g \in 1 .. top : most(g)
<1>1. top \in Nat /\ top >= 1
  BY DEF Abs
<1>2. divides(1)
  OBVIOUS
<1> HIDE DEF top
<1>3. \E k \in 1 .. top : most(k)
  <2> DEFINE S == {k \in 1 .. top : divides(k)}
  <2>1. S # {} /\ S \in SUBSET (1 .. top)
    BY <1>1, <1>2
  <2> HIDE DEF divides
  <2>2. PICK k \in S : \A h \in S : h <= k
    BY <1>1, <2>1, Largest
  <2>3. most(k)
    BY <1>1, <2>2
  <2> QED
    BY <2>3
<1>4. g \in 1 .. top
  <2> HIDE DEF most
  <2> QED
    BY <1>3
<1>5. n \div g \in Int /\ d \div g \in Int
  <2>1. g \in Nat /\ g > 0
    BY <1>1, <1>4
  <2> HIDE DEF g
  <2> QED
    BY <2>1
<1> DEFINE s == IF d < 0 THEN -1 ELSE 1
<1>6. Lowest(n, d) = <<s * (n \div g), s * (d \div g)>>
  BY DEF Lowest, top
<1>7. s * (n \div g) \in Int /\ s * (d \div g) \in Int
  <2> HIDE DEF g
  <2> QED
    BY <1>5
<1> HIDE DEF s, g
<1> QED
  BY <1>6, <1>7 DEF Fraction

LEMMA CalculateFraction ==
  ASSUME NEW op \in Arith, NEW a \in Fraction, NEW b \in Fraction
  PROVE  Calculate(op, a, b) \in Fraction
<1>1. a[1] \in Int /\ a[2] \in Int /\ b[1] \in Int /\ b[2] \in Int
  BY DEF Fraction
<1>2. /\ a[1] * b[2] \in Int /\ b[1] * a[2] \in Int /\ a[2] * b[2] \in Int
      /\ a[1] * b[1] \in Int /\ a[2] * b[1] \in Int
      /\ a[1] * b[2] + b[1] * a[2] \in Int /\ a[1] * b[2] - b[1] * a[2] \in Int
  BY <1>1
<1>3. op \in {"+", "-", "*", "/"}
  BY DEF Arith
<1> QED
  BY <1>2, <1>3, LowestFraction DEF Calculate

LEMMA Constants ==
  Zero \in Fraction /\ One \in Fraction /\ Zero # One /\ \A p : AsTruth(p) \in {Zero, One}
  BY DEF Zero, One, Fraction, AsTruth

-----------------------------------------------------------------------------
(* The laws of the passes *)

(* F is a rule for nodes whose operands have results in R.                 *)
IsRule(F, R) ==
  \A x \in Tree : \A a \in Seq(R) :
    Len(a) = Arity(x.op) /\ DOMAIN a = 1 .. Arity(x.op) => F[<<x, a>>] \in R

LEMMA PassExists ==
  ASSUME NEW R, NEW F, IsRule(F, R)
  PROVE  \E g \in [Tree -> R] : \A x \in Tree : g[x] = F[<<x, Mapped(x, g)>>]
<1>1. CASE Tree = {}
  <2>1. [x \in Tree |-> x] \in [Tree -> R]
    BY <1>1
  <2> QED
    BY <1>1, <2>1
<1>2. CASE Tree # {}
  <2>1. PICK r \in R : TRUE
    <3>1. PICK n \in Nat : \E x \in Tree : x \in Within[n]
      BY <1>2, HeightNat DEF Tree
    <3> DEFINE good == {m \in Nat : (\E x \in Tree : x \in Within[m]) => R # {}}
    <3>2. 0 \in good
      BY WithinLaw
    <3>3. ASSUME NEW m \in good PROVE m + 1 \in good
      <4> SUFFICES ASSUME NEW x \in Tree, x \in Within[m + 1] PROVE R # {}
        OBVIOUS
      <4>1. m + 1 \in Nat /\ (m + 1) - 1 = m
        OBVIOUS
      <4>2. \A i \in DOMAIN x.args : x.args[i] \in Within[m] /\ x.args[i] \in Tree
        BY <4>1, WithinNode, TreeNode
      <4>3. CASE DOMAIN x.args # {}
        BY <4>2, <4>3
      <4>4. CASE DOMAIN x.args = {}
        <5>1. 1 .. Arity(x.op) = {} /\ Len(x.args) = Arity(x.op) /\ x.args \in Seq(Tree)
          BY <4>4, TreeNode DEF Shaped
        <5>2. Arity(x.op) \in Nat
          BY <5>1
        <5>4. Arity(x.op) = 0
          <6>1. 1 \notin 1 .. Arity(x.op)
            BY <5>1
          <6> QED
            BY <5>2, <6>1
        <5>3. <<>> \in Seq(R) /\ Len(<<>>) = 0 /\ DOMAIN <<>> = 1 .. 0
          OBVIOUS
        <5> QED
          BY <5>4, <5>3 DEF IsRule
      <4> QED
        BY <4>3, <4>4
    <3>4. good = Nat
      BY <3>2, <3>3, SetInduction
    <3> QED
      BY <3>1, <3>4
  <2> DEFINE G == [p \in Tree \X Seq(R) |-> IF F[p] \in R THEN F[p] ELSE r]
  <2>2. G \in [Tree \X Seq(R) -> R]
    OBVIOUS
  <2>3. PICK g \in [Tree -> R] : \A x \in Tree : g[x] = G[<<x, Mapped(x, g)>>]
    <3> HIDE DEF G
    <3> QED
      BY <2>2, TreeRecursion
  <2>4. ASSUME NEW x \in Tree PROVE g[x] = F[<<x, Mapped(x, g)>>]
    <3>1. /\ Mapped(x, g) \in Seq(R)
          /\ Len(Mapped(x, g)) = Arity(x.op) /\ DOMAIN Mapped(x, g) = 1 .. Arity(x.op)
      BY MappedIs
    <3>2. F[<<x, Mapped(x, g)>>] \in R
      BY <3>1 DEF IsRule
    <3> QED
      BY <2>3, <3>1, <3>2
  <2> QED
    BY <2>4
<1> QED
  BY <1>1, <1>2

LEMMA PartsLaw ==
  \A x \in Tree : /\ Parts(x) = {x} \cup UNION {Parts(x.args[i]) : i \in DOMAIN x.args}
                  /\ Parts(x) \subseteq Tree
<1> DEFINE R == SUBSET Tree
           F == [p \in Tree \X Seq(R) |-> {p[1]} \cup UNION {p[2][i] : i \in DOMAIN p[2]}]
           law(f) == f = [y \in Tree |-> {y} \cup UNION {f[y.args[i]] : i \in DOMAIN y.args}]
           parts == CHOOSE f : law(f)
<1>1. ASSUME NEW x \in Tree, NEW a \in Seq(R)
      PROVE  F[<<x, a>>] = {x} \cup UNION {a[i] : i \in DOMAIN a} /\ F[<<x, a>>] \in R
  <2>1. \A i \in DOMAIN a : a[i] \in R
    OBVIOUS
  <2> QED
    BY <2>1
<1> HIDE DEF F, R
<1>0. IsRule(F, R)
  BY <1>1 DEF IsRule
<1>2. PICK g \in [Tree -> R] : \A x \in Tree : g[x] = F[<<x, Mapped(x, g)>>]
  BY <1>0, PassExists
<1>3. ASSUME NEW x \in Tree
      PROVE  g[x] = {x} \cup UNION {g[x.args[i]] : i \in DOMAIN x.args}
  <2>1. /\ Mapped(x, g) \in Seq(R) /\ DOMAIN Mapped(x, g) = 1 .. Arity(x.op)
        /\ \A i \in DOMAIN x.args : Mapped(x, g)[i] = g[x.args[i]]
    BY MappedIs
  <2>2. DOMAIN x.args = 1 .. Arity(x.op)
    BY TreeNode DEF Shaped
  <2>3. {Mapped(x, g)[i] : i \in DOMAIN Mapped(x, g)} = {g[x.args[i]] : i \in DOMAIN x.args}
    BY <2>1, <2>2
  <2>4. g[x] = {x} \cup UNION {Mapped(x, g)[i] : i \in DOMAIN Mapped(x, g)}
    BY <1>1, <1>2, <2>1
  <2> QED
    BY <2>3, <2>4
<1>4. law(g)
  BY <1>3
<1>5. law(parts)
  <2> HIDE DEF law
  <2> QED
    BY <1>4
<1>6. \A x : Parts(x) = parts[x]
  BY DEF Parts
<1>7. \A x \in Tree : parts[x] = {x} \cup UNION {parts[x.args[i]] : i \in DOMAIN x.args}
  BY <1>5
<1> HIDE DEF parts, law
<1>8. \A x \in Tree : Parts(x) \subseteq Tree
  <2> DEFINE S == {x \in Tree : Parts(x) \subseteq Tree}
  <2>1. ASSUME NEW x \in Tree, \A i \in DOMAIN x.args : x.args[i] \in S PROVE x \in S
    BY <1>6, <1>7, <2>1
  <2> QED
    BY <2>1, TreeInduction
<1> QED
  BY <1>6, <1>7, <1>8

-----------------------------------------------------------------------------
(* The operands of a node, by its constructor. *)
LEMMA ArityIs ==
  /\ \A op \in Leaves : Arity(op) = 0
  /\ Arity("not") = 1 /\ Arity("neg") = 1
  /\ \A op \in Binary : Arity(op) = 2
  /\ Arity("?:") = 3
<1>1. \A op \in Leaves : Arity(op) = 0
  BY DEF Arity, Leaves, Kinds, Binary, Arith, Order, Equal, Logical
<1>2. Arity("not") = 1 /\ Arity("neg") = 1
  BY DEF Arity, Leaves, Kinds, Binary, Arith, Order, Equal, Logical
<1>3. \A op \in Binary : Arity(op) = 2
  BY DEF Arity, Leaves, Kinds, Binary, Arith, Order, Equal, Logical
<1>4. Arity("?:") = 3
  BY DEF Arity, Leaves, Kinds, Binary, Arith, Order, Equal, Logical
<1> QED
  BY <1>1, <1>2, <1>3, <1>4

Types == Kinds \cup {"error"}
IsTypes(types) == types \in [DOMAIN types -> Kinds]

LEMMA InferRule ==
  ASSUME NEW types, IsTypes(types), NEW ref \in {"bool", "error"},
         NEW x \in Tree, NEW t \in Seq(Types), Len(t) = Arity(x.op), DOMAIN t = 1 .. Arity(x.op)
  PROVE  InferNode(x, t, types, ref) \in Types
<1>1. x.op \in Constructors
  BY TreeNode DEF Shaped
<1>2. \A i \in DOMAIN t : t[i] \in Types
  OBVIOUS
<1>3. x.op = "neg" => t[1] \in Types
  BY <1>2, ArityIs
<1>4. \A s, u \in Types : Join(s, u) \in Types
  BY DEF Join, Types, Kinds
<1>5. x.op \in Arith => t[1] \in Types /\ t[2] \in Types
  BY <1>2, ArityIs DEF Binary
<1>6. x.op = "?:" => t[2] \in Types /\ t[3] \in Types
  BY <1>2, ArityIs
<1>7. \A n \in DOMAIN types : types[n] \in Types
  BY DEF IsTypes, Types
<1>8. "bool" \in Types /\ "float" \in Types /\ "error" \in Types /\ ref \in Types
  BY DEF Types, Kinds
<1>9. IsLiteral(x) => x.op \in Types
  BY DEF IsLiteral, Types
<1> QED
  BY <1>3, <1>4, <1>5, <1>6, <1>7, <1>8, <1>9 DEF InferNode

LEMMA InferLaw ==
  ASSUME NEW types, IsTypes(types), NEW ref \in {"bool", "error"}
  PROVE  \A x \in Tree :
           /\ InferWith(x, types, ref) = InferNode(x, [i \in DOMAIN x.args |-> InferWith(x.args[i], types, ref)], types, ref)
           /\ InferWith(x, types, ref) \in Types
<1> DEFINE F == [p \in Tree \X Seq(Types) |-> InferNode(p[1], p[2], types, ref)]
           law(f) == f = [y \in Tree |-> InferNode(y, Mapped(y, f), types, ref)]
           made == CHOOSE f : law(f)
<1>1. ASSUME NEW x \in Tree, NEW a \in Seq(Types)
      PROVE  F[<<x, a>>] = InferNode(x, a, types, ref)
  OBVIOUS
<1> HIDE DEF F
<1>2. ASSUME NEW x \in Tree, NEW a \in Seq(Types), Len(a) = Arity(x.op), DOMAIN a = 1 .. Arity(x.op)
      PROVE  F[<<x, a>>] \in Types
  BY <1>1, <1>2, InferRule
<1>3. IsRule(F, Types)
  BY <1>2 DEF IsRule
<1>4. PICK g \in [Tree -> Types] : \A x \in Tree : g[x] = F[<<x, Mapped(x, g)>>]
  BY <1>3, PassExists
<1>5. ASSUME NEW x \in Tree PROVE g[x] = InferNode(x, Mapped(x, g), types, ref)
  <2>1. Mapped(x, g) \in Seq(Types)
    BY MappedIs
  <2> QED
    BY <1>1, <1>4, <2>1
<1>6. law(g)
  BY <1>5
<1>7. law(made)
  <2> HIDE DEF law
  <2> QED
    BY <1>6
<1>8. \A x : InferWith(x, types, ref) = made[x]
  BY DEF InferWith
<1>9. \A x \in Tree : made[x] = InferNode(x, Mapped(x, made), types, ref)
  BY <1>7
<1>10. made = [x \in Tree |-> made[x]]
  BY <1>7
<1> HIDE DEF made, law
<1>11. made \in [Tree -> Types]
  <2> DEFINE S == {x \in Tree : made[x] \in Types}
  <2>1. ASSUME NEW x \in Tree, \A i \in DOMAIN x.args : x.args[i] \in S PROVE x \in S
    <3> DEFINE a == [i \in DOMAIN x.args |-> made[x.args[i]]]
    <3>1. /\ x.args \in Seq(Tree) /\ Len(x.args) = Arity(x.op)
          /\ DOMAIN x.args = 1 .. Arity(x.op)
      BY TreeNode DEF Shaped
    <3>2. a \in Seq(Types) /\ Len(a) = Arity(x.op) /\ DOMAIN a = 1 .. Arity(x.op)
      BY <3>1, <2>1
    <3>3. Mapped(x, made) = a
      BY <3>2, EmptyConcat DEF Mapped
    <3> HIDE DEF a
    <3>4. made[x] \in Types
      BY <1>9, <3>2, <3>3, InferRule
    <3> QED
      BY <3>4
  <2>2. \A x \in Tree : x \in S
    <3> HIDE DEF S
    <3> QED
      BY <2>1, TreeInduction
  <2> QED
    BY <2>2, <1>10
<1>12. ASSUME NEW x \in Tree
       PROVE  made[x] = InferNode(x, [i \in DOMAIN x.args |-> made[x.args[i]]], types, ref)
  <2>1. Mapped(x, made) = [i \in DOMAIN x.args |-> made[x.args[i]]]
    BY <1>11, MappedEach
  <2> QED
    BY <1>9, <2>1
<1>13. \A x \in Tree : [i \in DOMAIN x.args |-> made[x.args[i]]] = [i \in DOMAIN x.args |-> InferWith(x.args[i], types, ref)]
  BY <1>8
<1> QED
  BY <1>8, <1>11, <1>12, <1>13

(* Meanings of identifiers and labels. *)
IsMeans(means) ==
  /\ means \in [DOMAIN means -> SUBSET Fraction]
  /\ \A op, name : <<op, name>> \in DOMAIN means => op \in {"ident", "label"}

LEMMA MeaningRule ==
  ASSUME NEW means, IsMeans(means), NEW x \in Tree, NEW m \in Seq(SUBSET Fraction),
         Len(m) = Arity(x.op), DOMAIN m = 1 .. Arity(x.op)
  PROVE  MeaningNode(x, m, means) \in SUBSET Fraction
<1>1. x.op \in Constructors /\ x.val \in Fraction
  BY TreeNode DEF Shaped
<1>2. \A i \in DOMAIN m : m[i] \in SUBSET Fraction
  OBVIOUS
<1>3. \A p : AsTruth(p) \in Fraction
  BY Constants
<1>4. \A n \in DOMAIN means : means[n] \in SUBSET Fraction
  BY DEF IsMeans
<1>5. x.op = "neg" => {Calculate("-", Zero, v) : v \in m[1]} \in SUBSET Fraction
  <2> SUFFICES ASSUME x.op = "neg", NEW v \in m[1] PROVE Calculate("-", Zero, v) \in Fraction
    OBVIOUS
  <2>1. v \in Fraction
    BY <1>2, ArityIs
  <2> QED
    BY <2>1, Constants, CalculateFraction DEF Arith
<1>6. x.op = "?:" => UNION {IF c = One THEN m[2] ELSE m[3] : c \in m[1]} \in SUBSET Fraction
  <2> SUFFICES ASSUME x.op = "?:" PROVE m[2] \in SUBSET Fraction /\ m[3] \in SUBSET Fraction
    OBVIOUS
  <2> QED
    BY <1>2, ArityIs
<1>7. x.op \in Arith => {Calculate(x.op, v, w) : v \in m[1], w \in m[2]} \in SUBSET Fraction
  <2> SUFFICES ASSUME x.op \in Arith, NEW v \in m[1], NEW w \in m[2]
               PROVE  Calculate(x.op, v, w) \in Fraction
    OBVIOUS
  <2>1. v \in Fraction /\ w \in Fraction
    BY <1>2, ArityIs DEF Binary
  <2> QED
    BY <2>1, CalculateFraction
<1>8. {x.val} \in SUBSET Fraction /\ {} \in SUBSET Fraction
  BY <1>1
<1>9. /\ {AsTruth(v = Zero) : v \in m[1]} \in SUBSET Fraction
      /\ {AsTruth(v = One /\ w = One) : v \in m[1], w \in m[2]} \in SUBSET Fraction
      /\ {AsTruth(v = One \/ w = One) : v \in m[1], w \in m[2]} \in SUBSET Fraction
      /\ {AsTruth(Compare(x.op, v, w)) : v \in m[1], w \in m[2]} \in SUBSET Fraction
  BY <1>3
<1> QED
  BY <1>4, <1>5, <1>6, <1>7, <1>8, <1>9 DEF MeaningNode

LEMMA MeaningLaw ==
  ASSUME NEW means, IsMeans(means)
  PROVE  \A x \in Tree :
           /\ MeaningUnder(x, means) = MeaningNode(x, [i \in DOMAIN x.args |-> MeaningUnder(x.args[i], means)], means)
           /\ MeaningUnder(x, means) \in SUBSET Fraction
<1> DEFINE F == [p \in Tree \X Seq(SUBSET Fraction) |-> MeaningNode(p[1], p[2], means)]
           law(f) == f = [y \in Tree |-> MeaningNode(y, Mapped(y, f), means)]
           made == CHOOSE f : law(f)
<1>1. ASSUME NEW x \in Tree, NEW a \in Seq(SUBSET Fraction)
      PROVE  F[<<x, a>>] = MeaningNode(x, a, means)
  OBVIOUS
<1> HIDE DEF F
<1>2. ASSUME NEW x \in Tree, NEW a \in Seq(SUBSET Fraction), Len(a) = Arity(x.op), DOMAIN a = 1 .. Arity(x.op)
      PROVE  F[<<x, a>>] \in SUBSET Fraction
  BY <1>1, <1>2, MeaningRule
<1>3. IsRule(F, SUBSET Fraction)
  BY <1>2 DEF IsRule
<1>4. PICK g \in [Tree -> SUBSET Fraction] : \A x \in Tree : g[x] = F[<<x, Mapped(x, g)>>]
  BY <1>3, PassExists
<1>5. ASSUME NEW x \in Tree PROVE g[x] = MeaningNode(x, Mapped(x, g), means)
  <2>1. Mapped(x, g) \in Seq(SUBSET Fraction)
    BY MappedIs
  <2> QED
    BY <1>1, <1>4, <2>1
<1>6. law(g)
  BY <1>5
<1>7. law(made)
  <2> HIDE DEF law
  <2> QED
    BY <1>6
<1>8. \A x : MeaningUnder(x, means) = made[x]
  BY DEF MeaningUnder
<1>9. \A x \in Tree : made[x] = MeaningNode(x, Mapped(x, made), means)
  BY <1>7
<1>10. made = [x \in Tree |-> made[x]]
  BY <1>7
<1> HIDE DEF made, law
<1>11. made \in [Tree -> SUBSET Fraction]
  <2> DEFINE S == {x \in Tree : made[x] \in SUBSET Fraction}
  <2>1. ASSUME NEW x \in Tree, \A i \in DOMAIN x.args : x.args[i] \in S PROVE x \in S
    <3> DEFINE a == [i \in DOMAIN x.args |-> made[x.args[i]]]
    <3>1. /\ x.args \in Seq(Tree) /\ Len(x.args) = Arity(x.op)
          /\ DOMAIN x.args = 1 .. Arity(x.op)
      BY TreeNode DEF Shaped
    <3>2. a \in Seq(SUBSET Fraction) /\ Len(a) = Arity(x.op) /\ DOMAIN a = 1 .. Arity(x.op)
      BY <3>1, <2>1
    <3>3. Mapped(x, made) = a
      BY <3>2, EmptyConcat DEF Mapped
    <3> HIDE DEF a
    <3>4. made[x] \in SUBSET Fraction
      BY <1>9, <3>2, <3>3, MeaningRule
    <3> QED
      BY <3>4
  <2>2. \A x \in Tree : x \in S
    <3> HIDE DEF S
    <3> QED
      BY <2>1, TreeInduction
  <2> QED
    BY <2>2, <1>10
<1>12. ASSUME NEW x \in Tree
       PROVE  made[x] = MeaningNode(x, [i \in DOMAIN x.args |-> made[x.args[i]]], means)
  <2>1. Mapped(x, made) = [i \in DOMAIN x.args |-> made[x.args[i]]]
    BY <1>11, MappedEach
  <2> QED
    BY <1>9, <2>1
<1>13. \A x \in Tree : [i \in DOMAIN x.args |-> made[x.args[i]]] = [i \in DOMAIN x.args |-> MeaningUnder(x.args[i], means)]
  BY <1>8
<1> QED
  BY <1>8, <1>11, <1>12, <1>13

-----------------------------------------------------------------------------
(* Trees of any height *)
Trees == UNION {Within[n] : n \in Nat}

LEMMA ArityOne ==
  /\ Arity("ident") = 0 /\ Arity("primed") = 0 /\ Arity("label") = 0
  /\ \A op \in Constructors : Arity(op) = 2 => op \in Binary
<1>1. "ident" \in Leaves /\ "primed" \in Leaves /\ "label" \in Leaves
  BY DEF Leaves
<1> QED
  BY <1>1, ArityIs DEF Constructors

LEMMA EmptyName == "" \in Name
  BY InputAssumption DEF InputShape

LEMMA TreesAre == Tree \subseteq Trees /\ \A x \in Trees : \E n \in Nat : x \in Within[n]
  BY HeightNat DEF Tree, Trees

LEMMA OperandCount == \A x \in Tree : Arity(x.op) \in 0 .. 3
<1> SUFFICES ASSUME NEW x \in Tree PROVE Arity(x.op) \in 0 .. 3
  OBVIOUS
<1>1. x.op \in Constructors
  BY TreeNode DEF Shaped
<1> QED
  BY <1>1, ArityIs DEF Constructors

LEMMA CommonHeight ==
  ASSUME NEW a \in Seq(Trees), Len(a) \in 0 .. 3
  PROVE  \E n \in Nat : a \in Seq(Within[n])
<1> DEFINE h == [i \in 1 .. 3 |-> IF i \in DOMAIN a THEN CHOOSE n \in Nat : a[i] \in Within[n] ELSE 0]
           m == h[1] + h[2] + h[3]
<1>1. DOMAIN a = 1 .. Len(a) /\ \A i \in DOMAIN a : a[i] \in Trees
  OBVIOUS
<1>2. ASSUME NEW i \in 1 .. 3 PROVE h[i] \in Nat /\ (i \in DOMAIN a => a[i] \in Within[h[i]])
  <2>1. CASE i \in DOMAIN a
    <3>1. \E n \in Nat : a[i] \in Within[n]
      BY <1>1, <2>1, TreesAre
    <3> QED
      BY <2>1, <3>1
  <2>2. CASE i \notin DOMAIN a
    BY <2>2
  <2> QED
    BY <2>1, <2>2
<1> HIDE DEF h
<1>3. h[1] \in Nat /\ h[2] \in Nat /\ h[3] \in Nat
  BY <1>2
<1>4. m \in Nat /\ h[1] <= m /\ h[2] <= m /\ h[3] <= m
  <2>1. \A u, v, w \in Nat : LET k == u + v + w IN k \in Nat /\ u <= k /\ v <= k /\ w <= k
    OBVIOUS
  <2> QED
    BY <1>3, <2>1
<1> HIDE DEF m
<1>5. ASSUME NEW i \in DOMAIN a PROVE a[i] \in Within[m]
  <2>1. i \in 1 .. 3 /\ (i = 1 \/ i = 2 \/ i = 3)
    BY <1>1
  <2>2. a[i] \in Within[h[i]] /\ h[i] \in Nat /\ h[i] <= m
    BY <1>2, <1>4, <2>1
  <2> QED
    BY <1>4, <2>2, WithinMonotone
<1> QED
  BY <1>1, <1>4, <1>5

LEMMA LeafWithin ==
  ASSUME NEW op \in Leaves, NEW name \in Name, NEW val \in Fraction,
         op = "bool" => val \in {Zero, One}
  PROVE  Node(op, name, val, <<>>) \in Within[1]
<1> DEFINE x == Node(op, name, val, <<>>)
<1>1. x = [op |-> op, name |-> name, val |-> val, args |-> <<>>]
  BY DEF Node
<1> HIDE DEF x
<1>2. x.op = op /\ x.name = name /\ x.val = val /\ x.args = <<>>
  BY <1>1
<1>3. Arity(op) = 0 /\ op \in Constructors
  BY ArityIs DEF Constructors
<1>4. <<>> \in Seq(Within[1 - 1]) /\ Len(<<>>) = 0 /\ DOMAIN <<>> = 1 .. 0
  OBVIOUS
<1>5. Shaped(x)
  BY <1>1, <1>2, <1>3, <1>4 DEF Shaped
<1>6. 1 \in Nat /\ 1 # 0 /\ x.args \in Seq(Within[1 - 1])
  BY <1>2, <1>4
<1>7. x \in Within[1]
  BY <1>5, <1>6, BuildWithin
<1> QED
  BY <1>7 DEF x

LEMMA LiteralWithin ==
  ASSUME NEW kind \in Kinds, NEW val \in Fraction, kind = "bool" => val \in {Zero, One}
  PROVE  Literal(kind, val) \in Within[1]
<1>1. kind \in Leaves /\ "" \in Name
  BY EmptyName DEF Leaves
<1> QED
  BY <1>1, LeafWithin DEF Literal

LEMMA TruthWithin == \A p : Truth(p) \in Within[1]
  BY LiteralWithin, Constants DEF Truth, Kinds

LEMMA BadWithin == Bad \in Within[1] /\ Absent \in Within[1]
<1>1. "bad" \in Leaves /\ "none" \in Leaves /\ "" \in Name /\ Zero \in Fraction
  BY Constants, EmptyName DEF Leaves
<1> QED
  BY <1>1, LeafWithin DEF Bad, Absent

LEMMA ListSeq ==
  ASSUME NEW W, NEW n \in Nat, NEW f, f = [i \in 1 .. n |-> f[i]], \A i \in 1 .. n : f[i] \in W
  PROVE  f \in Seq(W)
OBVIOUS

LEMMA PairSeq == ASSUME NEW W, NEW a \in W, NEW b \in W PROVE <<a, b>> \in Seq(W)
  OBVIOUS

LEMMA OneWithin == \A n \in Nat : Within[1] \subseteq Within[n + 1]
  BY WithinMonotone

(* Other operands for the same node. *)
LEMMA RebuildWithin ==
  ASSUME NEW x, Shaped(x), NEW n \in Nat, NEW a \in Seq(Within[n]),
         Len(a) = Arity(x.op), DOMAIN a = 1 .. Arity(x.op)
  PROVE  /\ [x EXCEPT !.args = a] \in Within[n + 1]
         /\ [x EXCEPT !.args = a] = Node(x.op, x.name, x.val, a)
<1> DEFINE y == [op |-> x.op, name |-> x.name, val |-> x.val, args |-> a]
<1>1. [x EXCEPT !.args = a] = y
  BY DEF Shaped
<1>2. y.op = x.op /\ y.name = x.name /\ y.val = x.val /\ y.args = a
  OBVIOUS
<1>3. y = [op |-> y.op, name |-> y.name, val |-> y.val, args |-> y.args]
  OBVIOUS
<1> HIDE DEF y
<1>4. Shaped(y)
  BY <1>2, <1>3 DEF Shaped
<1>5. n + 1 \in Nat /\ n + 1 # 0 /\ (n + 1) - 1 = n
  OBVIOUS
<1>6. y \in Within[n + 1]
  BY <1>2, <1>4, <1>5, BuildWithin
<1> QED
  BY <1>1, <1>6 DEF y, Node

(* Literals for names. *)
IsVals(vals) == \A n \in DOMAIN vals : vals[n] \in Within[1] /\ IsLiteral(vals[n])

LEMMA ValidValue ==
  ASSUME NEW n \in Nat, NEW x \in Within[n]
  PROVE  x.val \in Fraction /\ x.op \in Constructors /\ (x.op = "bool" => x.val \in {Zero, One})
  BY WithinNode DEF Shaped

LEMMA FoldBinaryWithin ==
  ASSUME NEW op \in Binary, NEW n \in Nat,
         NEW a \in Within[n], NEW b \in Within[n]
  PROVE  FoldBinary(op, a, b) \in Within[n + 1]
<1>1. a.val \in Fraction /\ b.val \in Fraction
  BY ValidValue
<1>2. op \in Arith => Calculate(op, a.val, b.val) \in Fraction
  BY <1>1, CalculateFraction
<1>3. /\ op \in Arith => Literal("int", Calculate(op, a.val, b.val)) \in Within[n + 1]
      /\ op \in Arith => Literal("float", Calculate(op, a.val, b.val)) \in Within[n + 1]
  BY <1>2, LiteralWithin, OneWithin DEF Kinds
<1>4. \A p : Truth(p) \in Within[n + 1]
  BY TruthWithin, OneWithin
<1>5. Apply(op, <<a, b>>) \in Within[n + 1]
  <2> DEFINE x == [op |-> op, name |-> "", val |-> Zero, args |-> <<a, b>>]
  <2>1. Apply(op, <<a, b>>) = x
    BY DEF Apply, Node
  <2>2. x.op = op /\ x.name = "" /\ x.val = Zero /\ x.args = <<a, b>>
    OBVIOUS
  <2>3. x = [op |-> x.op, name |-> x.name, val |-> x.val, args |-> x.args]
    OBVIOUS
  <2>4. op \in Constructors /\ Arity(op) = 2 /\ op # "bool"
    BY ArityIs DEF Constructors, Binary, Arith, Order, Equal, Logical
  <2>5. <<a, b>> \in Seq(Within[n]) /\ Len(<<a, b>>) = 2 /\ DOMAIN <<a, b>> = 1 .. 2
    <3>1. <<a, b>> \in Seq(Within[n])
      BY PairSeq
    <3> QED
      BY <3>1
  <2> HIDE DEF x
  <2>6. "" \in Name
    BY EmptyName
  <2>7. Shaped(x)
    BY <2>2, <2>3, <2>4, <2>5, <2>6, Constants DEF Shaped
  <2>8. n + 1 \in Nat /\ n + 1 # 0 /\ (n + 1) - 1 = n
    OBVIOUS
  <2> QED
    BY <2>1, <2>2, <2>5, <2>7, <2>8, BuildWithin
<1> QED
  BY <1>3, <1>4, <1>5 DEF FoldBinary

(* What folding makes of a node, case by case. *)
LEMMA FoldCases ==
  ASSUME NEW x, NEW a, NEW vals, x.op \in Constructors, Len(a) = Arity(x.op)
  PROVE  /\ x.op = "ident" /\ x.name \in DOMAIN vals => FoldNode(x, a, vals) = vals[x.name]
         /\ x.op = "not" /\ a[1].op = "bool" => FoldNode(x, a, vals) = Truth(a[1].val = Zero)
         /\ x.op = "neg" /\ a[1].op \in Numeric =>
              FoldNode(x, a, vals) = Literal(a[1].op, Calculate("-", Zero, a[1].val))
         /\ x.op = "?:" /\ a[1].op = "bool" => FoldNode(x, a, vals) = Branch(a[1], a[2], a[3])
         /\ Len(a) = 2 /\ IsLiteral(a[1]) /\ IsLiteral(a[2]) =>
              FoldNode(x, a, vals) = FoldBinary(x.op, a[1], a[2])
         /\ /\ ~(x.op = "ident" /\ x.name \in DOMAIN vals)
            /\ ~(x.op = "not" /\ a[1].op = "bool")
            /\ ~(x.op = "neg" /\ a[1].op \in Numeric)
            /\ ~(x.op = "?:" /\ a[1].op = "bool")
            /\ ~(Len(a) = 2 /\ IsLiteral(a[1]) /\ IsLiteral(a[2]))
            => FoldNode(x, a, vals) = [x EXCEPT !.args = a]
<1>1. x.op \in {"ident", "not", "neg", "?:"} => Len(a) # 2
  BY ArityIs, ArityOne
<1>2. ASSUME x.op = "ident", x.name \in DOMAIN vals
      PROVE  FoldNode(x, a, vals) = vals[x.name]
  BY <1>1, <1>2 DEF FoldNode
<1>3. ASSUME x.op = "not", a[1].op = "bool"
      PROVE  FoldNode(x, a, vals) = Truth(a[1].val = Zero)
  BY <1>1, <1>3 DEF FoldNode
<1>4. ASSUME x.op = "neg", a[1].op \in Numeric
      PROVE  FoldNode(x, a, vals) = Literal(a[1].op, Calculate("-", Zero, a[1].val))
  BY <1>1, <1>4 DEF FoldNode
<1>5. ASSUME x.op = "?:", a[1].op = "bool"
      PROVE  FoldNode(x, a, vals) = Branch(a[1], a[2], a[3])
  BY <1>1, <1>5 DEF FoldNode
<1>6. ASSUME Len(a) = 2, IsLiteral(a[1]), IsLiteral(a[2])
      PROVE  FoldNode(x, a, vals) = FoldBinary(x.op, a[1], a[2])
  BY <1>1, <1>6 DEF FoldNode
<1>7. ASSUME ~(x.op = "ident" /\ x.name \in DOMAIN vals),
             ~(x.op = "not" /\ a[1].op = "bool"),
             ~(x.op = "neg" /\ a[1].op \in Numeric),
             ~(x.op = "?:" /\ a[1].op = "bool"),
             ~(Len(a) = 2 /\ IsLiteral(a[1]) /\ IsLiteral(a[2]))
      PROVE  FoldNode(x, a, vals) = [x EXCEPT !.args = a]
  BY <1>7 DEF FoldNode
<1> QED
  BY <1>2, <1>3, <1>4, <1>5, <1>6, <1>7

LEMMA FoldWithin ==
  ASSUME NEW vals, IsVals(vals), NEW x, Shaped(x), NEW n \in Nat, NEW a \in Seq(Within[n]),
         Len(a) = Arity(x.op), DOMAIN a = 1 .. Arity(x.op)
  PROVE  FoldNode(x, a, vals) \in Within[n + 1]
<1>1. x.op \in Constructors /\ \A i \in DOMAIN a : a[i] \in Within[n]
  BY DEF Shaped
<1>2. CASE x.op = "ident" /\ x.name \in DOMAIN vals
  BY <1>1, <1>2, FoldCases, OneWithin DEF IsVals
<1>3. CASE x.op = "not" /\ a[1].op = "bool"
  BY <1>1, <1>3, FoldCases, TruthWithin, OneWithin
<1>4. CASE x.op = "neg" /\ a[1].op \in Numeric
  <2>1. a[1] \in Within[n]
    BY <1>1, <1>4, ArityIs
  <2>2. a[1].val \in Fraction
    BY <2>1, ValidValue
  <2>3. Calculate("-", Zero, a[1].val) \in Fraction
    BY <2>2, CalculateFraction, Constants DEF Arith
  <2>4. a[1].op \in Kinds /\ a[1].op # "bool"
    BY <1>4 DEF Numeric, Kinds
  <2>5. Literal(a[1].op, Calculate("-", Zero, a[1].val)) \in Within[n + 1]
    BY <2>3, <2>4, LiteralWithin, OneWithin
  <2>6. FoldNode(x, a, vals) = Literal(a[1].op, Calculate("-", Zero, a[1].val))
    BY <1>1, <1>4, FoldCases
  <2> QED
    BY <2>5, <2>6
<1>5. CASE x.op = "?:" /\ a[1].op = "bool"
  <2>1. a[2] \in Within[n] /\ a[3] \in Within[n]
    BY <1>1, <1>5, ArityIs
  <2>2. FoldNode(x, a, vals) = Branch(a[1], a[2], a[3])
    BY <1>1, <1>5, FoldCases
  <2> QED
    BY <2>1, <2>2, WithinGrows DEF Branch
<1>6. CASE /\ Len(a) = 2 /\ IsLiteral(a[1]) /\ IsLiteral(a[2])
           /\ x.op \notin {"ident", "not", "neg", "?:"}
  <2>1. a[1] \in Within[n] /\ a[2] \in Within[n]
    BY <1>1, <1>6
  <2>2. x.op \in Binary
    BY <1>1, <1>6, ArityOne
  <2>3. FoldNode(x, a, vals) = FoldBinary(x.op, a[1], a[2])
    BY <1>6 DEF FoldNode
  <2> QED
    BY <2>1, <2>2, <2>3, FoldBinaryWithin
<1>7. [x EXCEPT !.args = a] \in Within[n + 1]
  BY RebuildWithin
<1>8. Len(a) = 2 => x.op \notin {"ident", "not", "neg", "?:"}
  <2>1. \A op : op = "ident" \/ op = "not" \/ op = "neg" \/ op = "?:" => Arity(op) # 2
    BY ArityIs, ArityOne
  <2> QED
    BY <2>1
<1>9. CASE /\ ~(x.op = "ident" /\ x.name \in DOMAIN vals)
           /\ ~(x.op = "not" /\ a[1].op = "bool")
           /\ ~(x.op = "neg" /\ a[1].op \in Numeric)
           /\ ~(x.op = "?:" /\ a[1].op = "bool")
           /\ ~(Len(a) = 2 /\ IsLiteral(a[1]) /\ IsLiteral(a[2]))
  <2>1. FoldNode(x, a, vals) = [x EXCEPT !.args = a]
    BY <1>9 DEF FoldNode
  <2> QED
    BY <1>7, <2>1
<1> QED
  BY <1>2, <1>3, <1>4, <1>5, <1>6, <1>8, <1>9

LEMMA FoldRule ==
  ASSUME NEW vals, IsVals(vals), NEW x \in Tree, NEW a \in Seq(Trees),
         Len(a) = Arity(x.op), DOMAIN a = 1 .. Arity(x.op)
  PROVE  FoldNode(x, a, vals) \in Trees
<1>1. PICK n \in Nat : a \in Seq(Within[n])
  BY CommonHeight, OperandCount
<1>2. n + 1 \in Nat /\ Shaped(x)
  BY TreeNode
<1>3. FoldNode(x, a, vals) \in Within[n + 1]
  BY <1>1, <1>2, FoldWithin
<1> QED
  BY <1>2, <1>3 DEF Trees

LEMMA FoldLaw ==
  ASSUME NEW vals, IsVals(vals)
  PROVE  \A x \in Tree :
           /\ Fold(x, vals) = FoldNode(x, [i \in DOMAIN x.args |-> Fold(x.args[i], vals)], vals)
           /\ Fold(x, vals) \in Trees
<1> DEFINE F == [p \in Tree \X Seq(Trees) |-> FoldNode(p[1], p[2], vals)]
           law(f) == f = [y \in Tree |-> FoldNode(y, Mapped(y, f), vals)]
           made == CHOOSE f : law(f)
<1>1. ASSUME NEW x \in Tree, NEW a \in Seq(Trees)
      PROVE  F[<<x, a>>] = FoldNode(x, a, vals)
  OBVIOUS
<1> HIDE DEF F
<1>2. ASSUME NEW x \in Tree, NEW a \in Seq(Trees), Len(a) = Arity(x.op), DOMAIN a = 1 .. Arity(x.op)
      PROVE  F[<<x, a>>] \in Trees
  BY <1>1, <1>2, FoldRule
<1>3. IsRule(F, Trees)
  BY <1>2 DEF IsRule
<1>4. PICK g \in [Tree -> Trees] : \A x \in Tree : g[x] = F[<<x, Mapped(x, g)>>]
  BY <1>3, PassExists
<1>5. ASSUME NEW x \in Tree PROVE g[x] = FoldNode(x, Mapped(x, g), vals)
  <2>1. Mapped(x, g) \in Seq(Trees)
    BY MappedIs
  <2> QED
    BY <1>1, <1>4, <2>1
<1>6. law(g)
  BY <1>5
<1>7. law(made)
  <2> HIDE DEF law
  <2> QED
    BY <1>6
<1>8. \A x : Fold(x, vals) = made[x]
  BY DEF Fold
<1>9. \A x \in Tree : made[x] = FoldNode(x, Mapped(x, made), vals)
  BY <1>7
<1>10. made = [x \in Tree |-> made[x]]
  BY <1>7
<1> HIDE DEF made, law
<1>11. made \in [Tree -> Trees]
  <2> DEFINE S == {x \in Tree : made[x] \in Trees}
  <2>1. ASSUME NEW x \in Tree, \A i \in DOMAIN x.args : x.args[i] \in S PROVE x \in S
    <3> DEFINE a == [i \in DOMAIN x.args |-> made[x.args[i]]]
    <3>1. /\ x.args \in Seq(Tree) /\ Len(x.args) = Arity(x.op)
          /\ DOMAIN x.args = 1 .. Arity(x.op)
      BY TreeNode DEF Shaped
    <3>2. a \in Seq(Trees) /\ Len(a) = Arity(x.op) /\ DOMAIN a = 1 .. Arity(x.op)
      BY <3>1, <2>1
    <3>3. Mapped(x, made) = a
      BY <3>2, EmptyConcat DEF Mapped
    <3> HIDE DEF a
    <3>4. made[x] \in Trees
      BY <1>9, <3>2, <3>3, FoldRule
    <3> QED
      BY <3>4
  <2>2. \A x \in Tree : x \in S
    <3> HIDE DEF S
    <3> QED
      BY <2>1, TreeInduction
  <2> QED
    BY <2>2, <1>10
<1>12. ASSUME NEW x \in Tree
       PROVE  made[x] = FoldNode(x, [i \in DOMAIN x.args |-> made[x.args[i]]], vals)
  <2>1. Mapped(x, made) = [i \in DOMAIN x.args |-> made[x.args[i]]]
    BY <1>11, MappedEach
  <2> QED
    BY <1>9, <2>1
<1>13. \A x \in Tree : [i \in DOMAIN x.args |-> made[x.args[i]]] = [i \in DOMAIN x.args |-> Fold(x.args[i], vals)]
  BY <1>8
<1> QED
  BY <1>8, <1>11, <1>12, <1>13

IsTreesFor(by) == \A n \in DOMAIN by : by[n] \in Trees

LEMMA SubstituteRule ==
  ASSUME NEW by, IsTreesFor(by), NEW x \in Tree, NEW a \in Seq(Trees),
         Len(a) = Arity(x.op), DOMAIN a = 1 .. Arity(x.op)
  PROVE  SubstituteNode(x, a, by) \in Trees
<1>1. PICK n \in Nat : a \in Seq(Within[n])
  BY CommonHeight, OperandCount
<1>2. n + 1 \in Nat /\ Shaped(x)
  BY TreeNode
<1>3. [x EXCEPT !.args = a] \in Within[n + 1]
  BY <1>1, <1>2, RebuildWithin
<1>4. [x EXCEPT !.args = a] \in Trees /\ Bad \in Trees
  BY <1>2, <1>3, BadWithin DEF Trees
<1> QED
  BY <1>4 DEF SubstituteNode, IsTreesFor

LEMMA SubstituteLaw ==
  ASSUME NEW by, IsTreesFor(by)
  PROVE  \A x \in Tree :
           /\ Substitute(x, by) = SubstituteNode(x, [i \in DOMAIN x.args |-> Substitute(x.args[i], by)], by)
           /\ Substitute(x, by) \in Trees
<1> DEFINE F == [p \in Tree \X Seq(Trees) |-> SubstituteNode(p[1], p[2], by)]
           law(f) == f = [y \in Tree |-> SubstituteNode(y, Mapped(y, f), by)]
           made == CHOOSE f : law(f)
<1>1. ASSUME NEW x \in Tree, NEW a \in Seq(Trees)
      PROVE  F[<<x, a>>] = SubstituteNode(x, a, by)
  OBVIOUS
<1> HIDE DEF F
<1>2. ASSUME NEW x \in Tree, NEW a \in Seq(Trees), Len(a) = Arity(x.op), DOMAIN a = 1 .. Arity(x.op)
      PROVE  F[<<x, a>>] \in Trees
  BY <1>1, <1>2, SubstituteRule
<1>3. IsRule(F, Trees)
  BY <1>2 DEF IsRule
<1>4. PICK g \in [Tree -> Trees] : \A x \in Tree : g[x] = F[<<x, Mapped(x, g)>>]
  BY <1>3, PassExists
<1>5. ASSUME NEW x \in Tree PROVE g[x] = SubstituteNode(x, Mapped(x, g), by)
  <2>1. Mapped(x, g) \in Seq(Trees)
    BY MappedIs
  <2> QED
    BY <1>1, <1>4, <2>1
<1>6. law(g)
  BY <1>5
<1>7. law(made)
  <2> HIDE DEF law
  <2> QED
    BY <1>6
<1>8. \A x : Substitute(x, by) = made[x]
  BY DEF Substitute
<1>9. \A x \in Tree : made[x] = SubstituteNode(x, Mapped(x, made), by)
  BY <1>7
<1>10. made = [x \in Tree |-> made[x]]
  BY <1>7
<1> HIDE DEF made, law
<1>11. made \in [Tree -> Trees]
  <2> DEFINE S == {x \in Tree : made[x] \in Trees}
  <2>1. ASSUME NEW x \in Tree, \A i \in DOMAIN x.args : x.args[i] \in S PROVE x \in S
    <3> DEFINE a == [i \in DOMAIN x.args |-> made[x.args[i]]]
    <3>1. /\ x.args \in Seq(Tree) /\ Len(x.args) = Arity(x.op)
          /\ DOMAIN x.args = 1 .. Arity(x.op)
      BY TreeNode DEF Shaped
    <3>2. a \in Seq(Trees) /\ Len(a) = Arity(x.op) /\ DOMAIN a = 1 .. Arity(x.op)
      BY <3>1, <2>1
    <3>3. Mapped(x, made) = a
      BY <3>2, EmptyConcat DEF Mapped
    <3> HIDE DEF a
    <3>4. made[x] \in Trees
      BY <1>9, <3>2, <3>3, SubstituteRule
    <3> QED
      BY <3>4
  <2>2. \A x \in Tree : x \in S
    <3> HIDE DEF S
    <3> QED
      BY <2>1, TreeInduction
  <2> QED
    BY <2>2, <1>10
<1>12. ASSUME NEW x \in Tree
       PROVE  made[x] = SubstituteNode(x, [i \in DOMAIN x.args |-> made[x.args[i]]], by)
  <2>1. Mapped(x, made) = [i \in DOMAIN x.args |-> made[x.args[i]]]
    BY <1>11, MappedEach
  <2> QED
    BY <1>9, <2>1
<1>13. \A x \in Tree : [i \in DOMAIN x.args |-> made[x.args[i]]] = [i \in DOMAIN x.args |-> Substitute(x.args[i], by)]
  BY <1>8
<1> QED
  BY <1>8, <1>11, <1>12, <1>13

-----------------------------------------------------------------------------
(* Folding keeps the height of an expression. *)

LEMMA TreeHasLeaves == ASSUME NEW x \in Tree PROVE Within[1] \subseteq Tree /\ Height >= 1
<1>1. Height \in Nat /\ Height # 0
  BY HeightNat, WithinNode DEF Tree
<1>2. 1 <= Height
  BY <1>1
<1> QED
  BY <1>1, <1>2, WithinMonotone DEF Tree

LEMMA FoldHeight ==
  ASSUME NEW vals, IsVals(vals)
  PROVE  \A x \in Tree : \A n \in Nat : x \in Within[n] => Fold(x, vals) \in Within[n]
<1> DEFINE S == {x \in Tree : \A n \in Nat : x \in Within[n] => Fold(x, vals) \in Within[n]}
<1>1. ASSUME NEW x \in Tree, \A i \in DOMAIN x.args : x.args[i] \in S PROVE x \in S
  <2> SUFFICES ASSUME NEW n \in Nat, x \in Within[n] PROVE Fold(x, vals) \in Within[n]
    OBVIOUS
  <2> DEFINE a == [i \in DOMAIN x.args |-> Fold(x.args[i], vals)]
  <2>1. /\ n # 0 /\ n - 1 \in Nat /\ Shaped(x) /\ x.args \in Seq(Within[n - 1])
        /\ \A i \in DOMAIN x.args : x.args[i] \in Within[n - 1]
    BY WithinNode
  <2>2. \A i \in DOMAIN x.args : Fold(x.args[i], vals) \in Within[n - 1]
    BY <1>1, <2>1
  <2>3. a \in Seq(Within[n - 1]) /\ Len(a) = Arity(x.op) /\ DOMAIN a = 1 .. Arity(x.op)
    <3>1. DOMAIN a = 1 .. Arity(x.op) /\ Arity(x.op) \in Nat
      BY <2>1, OperandCount DEF Shaped
    <3>2. a = [i \in 1 .. Arity(x.op) |-> a[i]] /\ \A i \in 1 .. Arity(x.op) : a[i] \in Within[n - 1]
      BY <2>2, <3>1
    <3> HIDE DEF a
    <3>3. a \in Seq(Within[n - 1])
      BY <3>1, <3>2, ListSeq
    <3> QED
      BY <3>1, <3>3
  <2>4. Fold(x, vals) = FoldNode(x, a, vals)
    BY FoldLaw
  <2> HIDE DEF a
  <2>5. FoldNode(x, a, vals) \in Within[(n - 1) + 1]
    BY <2>1, <2>3, FoldWithin
  <2>6. (n - 1) + 1 = n
    OBVIOUS
  <2> QED
    BY <2>4, <2>5, <2>6
<1>2. \A x \in Tree : x \in S
  <2> HIDE DEF S
  <2> QED
    BY <1>1, TreeInduction
<1> QED
  BY <1>2

LEMMA FoldTree ==
  ASSUME NEW vals, IsVals(vals)
  PROVE  \A x \in Tree : Fold(x, vals) \in Tree
  BY FoldHeight, HeightNat DEF Tree

LEMMA FoldSource ==
  ASSUME NEW vals, IsVals(vals)
  PROVE  \A x \in Source : x \in Tree => Fold(x, vals) \in Source
  BY FoldHeight, HeightNat DEF Source

(* A node of a tree, its operands being others. *)
LEMMA Rebuilt ==
  ASSUME NEW x, Shaped(x), NEW a,
         NEW y, y = [x EXCEPT !.args = a]
  PROVE  y.op = x.op /\ y.name = x.name /\ y.val = x.val /\ y.args = a
  BY DEF Shaped

LEMMA FoldBinaryCases ==
  ASSUME NEW op \in Binary, NEW a, NEW b, IsLiteral(a), IsLiteral(b),
         NEW r, r = FoldBinary(op, a, b)
  PROVE  \/ /\ a.op = "int" /\ b.op = "int" /\ op \in Arith \ {"/"}
            /\ r = Literal("int", Calculate(op, a.val, b.val))
         \/ /\ a.op \in Numeric /\ b.op \in Numeric /\ op \in Arith
            /\ ~(a.op = "int" /\ b.op = "int" /\ op # "/")
            /\ r = Literal("float", Calculate(op, a.val, b.val))
         \/ /\ a.op \in Numeric /\ b.op \in Numeric /\ op \in Order \cup Equal
            /\ r = Truth(Compare(op, a.val, b.val))
         \/ /\ a.op = "bool" /\ b.op = "bool" /\ op = "&"
            /\ r = Truth(a.val = One /\ b.val = One)
         \/ /\ a.op = "bool" /\ b.op = "bool" /\ op = "|"
            /\ r = Truth(a.val = One \/ b.val = One)
         \/ /\ a.op = "bool" /\ b.op = "bool" /\ op \in Equal
            /\ r = Truth(Compare(op, a.val, b.val))
         \/ /\ r = Apply(op, <<a, b>>)
            /\ ~(a.op \in Numeric /\ b.op \in Numeric /\ op \in Arith \cup Order \cup Equal)
            /\ ~(a.op = "bool" /\ b.op = "bool" /\ op \in Logical \cup Equal)
<1>1. /\ a.op \in {"bool", "int", "float"} /\ b.op \in {"bool", "int", "float"}
      /\ Numeric = {"int", "float"} /\ Logical = {"&", "|"}
  BY DEF IsLiteral, Kinds, Numeric, Logical
<1>2. /\ (<<a.op, b.op>> = <<"int", "int">>) = (a.op = "int" /\ b.op = "int")
      /\ (<<a.op, b.op>> = <<"bool", "bool">>) = (a.op = "bool" /\ b.op = "bool")
  OBVIOUS
<1>3. ({a.op, b.op} \subseteq Numeric) = (a.op \in Numeric /\ b.op \in Numeric)
  OBVIOUS
<1>4. /\ op \in Arith => op \notin Order \cup Equal \cup Logical
      /\ op \in Order \cup Equal => op \notin Arith \cup Logical
      /\ op \in Logical => op \notin Arith \cup Order \cup Equal
  BY DEF Arith, Order, Equal, Logical
<1>5. "bool" \notin Numeric /\ "int" \in Numeric
  BY <1>1
<1> QED
  BY <1>1, <1>2, <1>3, <1>4, <1>5 DEF FoldBinary

(* What folding makes of a node, by cases that exclude each other. *)
LEMMA FoldSplit ==
  ASSUME NEW x, Shaped(x), NEW a, NEW vals, Len(a) = Arity(x.op),
         NEW r, r = FoldNode(x, a, vals)
  PROVE  \/ x.op = "ident" /\ x.name \in DOMAIN vals /\ r = vals[x.name]
         \/ x.op = "not" /\ a[1].op = "bool" /\ r = Truth(a[1].val = Zero)
         \/ x.op = "neg" /\ a[1].op \in Numeric /\ r = Literal(a[1].op, Calculate("-", Zero, a[1].val))
         \/ x.op = "?:" /\ a[1].op = "bool" /\ r = Branch(a[1], a[2], a[3])
         \/ /\ x.op \in Binary
            /\ IsLiteral(a[1]) /\ IsLiteral(a[2]) /\ r = FoldBinary(x.op, a[1], a[2])
         \/ /\ ~(x.op = "ident" /\ x.name \in DOMAIN vals)
            /\ ~(x.op = "not" /\ a[1].op = "bool")
            /\ ~(x.op = "neg" /\ a[1].op \in Numeric)
            /\ ~(x.op = "?:" /\ a[1].op = "bool")
            /\ ~(x.op \in Binary /\ IsLiteral(a[1]) /\ IsLiteral(a[2]))
            /\ r = [x EXCEPT !.args = a]
<1>1. x.op \in Constructors
  BY DEF Shaped
<1>2. Len(a) = 2 => x.op \in Binary
  BY <1>1, ArityOne
<1>3. x.op \in Binary => Len(a) = 2
  BY ArityIs
<1> HIDE DEF Arity
<1> QED
  BY <1>2, <1>3 DEF FoldNode

-----------------------------------------------------------------------------
(* What a tree means, by its constructor. *)

LEMMA OpsDiffer ==
  /\ \A op \in Arith : op \notin Order \cup Equal \cup Logical \cup Leaves \cup {"not", "neg", "?:"}
  /\ \A op \in Order \cup Equal : op \notin Arith \cup Logical \cup Leaves \cup {"not", "neg", "?:"}
  /\ \A op \in Logical : op \notin Arith \cup Order \cup Equal \cup Leaves \cup {"not", "neg", "?:"}
  /\ \A op \in Leaves : op \notin {"not", "neg", "?:"}
  /\ \A op \in Kinds : op \in Leaves /\ op \notin {"ident", "label", "primed", "none", "bad"}
  /\ "&" \in Logical /\ "|" \in Logical /\ {"ident", "label", "primed", "none", "bad"} \subseteq Leaves
  BY DEF Arith, Order, Equal, Logical, Leaves, Kinds

LEMMA Operands ==
  ASSUME NEW x \in Tree
  PROVE  /\ x.op \in {"not", "neg"} => DOMAIN x.args = {1} /\ x.args[1] \in Tree
         /\ x.op \in Binary => DOMAIN x.args = {1, 2} /\ x.args[1] \in Tree /\ x.args[2] \in Tree
         /\ x.op = "?:" => /\ DOMAIN x.args = {1, 2, 3}
                           /\ x.args[1] \in Tree /\ x.args[2] \in Tree /\ x.args[3] \in Tree
         /\ x.op \in Leaves => DOMAIN x.args = {}
<1>1. DOMAIN x.args = 1 .. Arity(x.op) /\ \A i \in DOMAIN x.args : x.args[i] \in Tree
  BY TreeNode DEF Shaped
<1>2. 1 .. 0 = {} /\ 1 .. 1 = {1} /\ 1 .. 2 = {1, 2} /\ 1 .. 3 = {1, 2, 3}
  OBVIOUS
<1>3. /\ x.op \in {"not", "neg"} => Arity(x.op) = 1
      /\ x.op \in Binary => Arity(x.op) = 2
      /\ x.op = "?:" => Arity(x.op) = 3
      /\ x.op \in Leaves => Arity(x.op) = 0
  BY ArityIs
<1>4. /\ x.op \in {"not", "neg"} => DOMAIN x.args = {1}
      /\ x.op \in Binary => DOMAIN x.args = {1, 2}
      /\ x.op = "?:" => DOMAIN x.args = {1, 2, 3}
      /\ x.op \in Leaves => DOMAIN x.args = {}
  BY <1>1, <1>2, <1>3
<1> QED
  BY <1>1, <1>4

(* The constructors of a tree. *)
LEMMA Constructs ==
  ASSUME NEW x \in Tree
  PROVE  /\ x.op \in Leaves \cup {"not", "neg", "?:"} \cup Binary
         /\ x.op \in Leaves => \/ IsLiteral(x) \/ x.op \in {"ident", "label", "primed", "none", "bad"}
<1>1. x.op \in Constructors
  BY TreeNode DEF Shaped
<1> QED
  BY <1>1 DEF Constructors, Leaves, IsLiteral

(* What an operator of two operands makes of their values. *)
Meant(op, v, w) ==
  IF op = "&" THEN AsTruth(v = One /\ w = One)
  ELSE IF op = "|" THEN AsTruth(v = One \/ w = One)
  ELSE IF op \in Arith THEN Calculate(op, v, w)
  ELSE AsTruth(Compare(op, v, w))

LEMMA LeafMeaning ==
  ASSUME NEW means, IsMeans(means), NEW x \in Tree, x.op \in Leaves
  PROVE  MeaningUnder(x, means) =
           IF IsLiteral(x) THEN {x.val}
           ELSE IF <<x.op, x.name>> \in DOMAIN means THEN means[<<x.op, x.name>>] ELSE {}
<1> DEFINE m == [i \in DOMAIN x.args |-> MeaningUnder(x.args[i], means)]
<1>1. MeaningUnder(x, means) = MeaningNode(x, m, means)
  BY MeaningLaw
<1> HIDE DEF m
<1>2. IsLiteral(x) => x.op \in Kinds
  BY DEF IsLiteral
<1>3. <<x.op, x.name>> \in DOMAIN means => x.op \in {"ident", "label"}
  BY DEF IsMeans
<1> DEFINE key == <<x.op, x.name>>
<1>4. key \in DOMAIN means => ~IsLiteral(x)
  BY <1>2, <1>3, OpsDiffer
<1>5. /\ x.op \notin Arith /\ x.op \notin Order \cup Equal /\ x.op # "&" /\ x.op # "|"
      /\ x.op # "not" /\ x.op # "neg" /\ x.op # "?:"
  BY OpsDiffer
<1>6. MeaningNode(x, m, means) =
        IF IsLiteral(x) THEN {x.val} ELSE IF key \in DOMAIN means THEN means[key] ELSE {}
  <2>1. CASE IsLiteral(x)
    BY <1>4, <1>5, <2>1 DEF MeaningNode
  <2>2. CASE key \in DOMAIN means
    BY <1>4, <1>5, <2>2 DEF MeaningNode
  <2>3. CASE ~IsLiteral(x) /\ key \notin DOMAIN means
    BY <1>5, <2>3 DEF MeaningNode
  <2> QED
    BY <1>4, <2>1, <2>2, <2>3
<1> QED
  BY <1>1, <1>6

LEMMA LiteralMeaning ==
  ASSUME NEW means, IsMeans(means), NEW x \in Tree, IsLiteral(x)
  PROVE  MeaningUnder(x, means) = {x.val}
  BY LeafMeaning, OpsDiffer DEF IsLiteral

(* An operator's node is neither a literal nor a name. *)
LEMMA NotLeaf ==
  ASSUME NEW means, IsMeans(means), NEW x, x.op \notin Leaves
  PROVE  ~IsLiteral(x) /\ <<x.op, x.name>> \notin DOMAIN means
<1>1. IsLiteral(x) => x.op \in Kinds
  BY DEF IsLiteral
<1>2. <<x.op, x.name>> \in DOMAIN means => x.op \in {"ident", "label"}
  BY DEF IsMeans
<1> QED
  BY <1>1, <1>2, OpsDiffer

LEMMA NotMeaning ==
  ASSUME NEW means, IsMeans(means), NEW x \in Tree, x.op = "not"
  PROVE  MeaningUnder(x, means) = {AsTruth(v = Zero) : v \in MeaningUnder(x.args[1], means)}
<1> DEFINE m == [i \in DOMAIN x.args |-> MeaningUnder(x.args[i], means)]
<1>1. MeaningUnder(x, means) = MeaningNode(x, m, means)
  BY MeaningLaw
<1>2. m[1] = MeaningUnder(x.args[1], means)
  BY Operands
<1> HIDE DEF m
<1>3. ~IsLiteral(x) /\ <<x.op, x.name>> \notin DOMAIN means
  BY NotLeaf, OpsDiffer
<1>4. x.op \notin Arith /\ x.op \notin Order \cup Equal
  BY OpsDiffer
<1>5. MeaningNode(x, m, means) = {AsTruth(v = Zero) : v \in m[1]}
  BY <1>3, <1>4 DEF MeaningNode
<1> QED
  BY <1>1, <1>2, <1>5

LEMMA NegMeaning ==
  ASSUME NEW means, IsMeans(means), NEW x \in Tree, x.op = "neg"
  PROVE  MeaningUnder(x, means) = {Calculate("-", Zero, v) : v \in MeaningUnder(x.args[1], means)}
<1> DEFINE m == [i \in DOMAIN x.args |-> MeaningUnder(x.args[i], means)]
<1>1. MeaningUnder(x, means) = MeaningNode(x, m, means)
  BY MeaningLaw
<1>2. m[1] = MeaningUnder(x.args[1], means)
  BY Operands
<1> HIDE DEF m
<1>3. ~IsLiteral(x) /\ <<x.op, x.name>> \notin DOMAIN means
  BY NotLeaf, OpsDiffer
<1>4. x.op \notin Arith /\ x.op \notin Order \cup Equal
  BY OpsDiffer
<1>5. MeaningNode(x, m, means) = {Calculate("-", Zero, v) : v \in m[1]}
  BY <1>3, <1>4 DEF MeaningNode
<1> QED
  BY <1>1, <1>2, <1>5

LEMMA IfMeaning ==
  ASSUME NEW means, IsMeans(means), NEW x \in Tree, x.op = "?:"
  PROVE  MeaningUnder(x, means) =
           UNION {IF c = One THEN MeaningUnder(x.args[2], means) ELSE MeaningUnder(x.args[3], means) :
                    c \in MeaningUnder(x.args[1], means)}
<1> DEFINE m == [i \in DOMAIN x.args |-> MeaningUnder(x.args[i], means)]
<1>1. MeaningUnder(x, means) = MeaningNode(x, m, means)
  BY MeaningLaw
<1>2. /\ m[1] = MeaningUnder(x.args[1], means) /\ m[2] = MeaningUnder(x.args[2], means)
      /\ m[3] = MeaningUnder(x.args[3], means)
  BY Operands
<1> HIDE DEF m
<1>3. ~IsLiteral(x) /\ <<x.op, x.name>> \notin DOMAIN means
  BY NotLeaf, OpsDiffer
<1>4. x.op \notin Arith /\ x.op \notin Order \cup Equal
  BY OpsDiffer
<1>5. MeaningNode(x, m, means) = UNION {IF c = One THEN m[2] ELSE m[3] : c \in m[1]}
  BY <1>3, <1>4 DEF MeaningNode
<1> QED
  BY <1>1, <1>2, <1>5

LEMMA PairMeaning ==
  ASSUME NEW means, IsMeans(means), NEW x \in Tree, x.op \in Binary
  PROVE  MeaningUnder(x, means) =
           {Meant(x.op, v, w) : v \in MeaningUnder(x.args[1], means), w \in MeaningUnder(x.args[2], means)}
<1> DEFINE m == [i \in DOMAIN x.args |-> MeaningUnder(x.args[i], means)]
<1>1. MeaningUnder(x, means) = MeaningNode(x, m, means)
  BY MeaningLaw
<1>2. m[1] = MeaningUnder(x.args[1], means) /\ m[2] = MeaningUnder(x.args[2], means)
  BY Operands
<1> HIDE DEF m
<1>3. x.op \notin Leaves /\ x.op # "not" /\ x.op # "neg" /\ x.op # "?:"
  BY OpsDiffer DEF Binary
<1>4. ~IsLiteral(x) /\ <<x.op, x.name>> \notin DOMAIN means
  BY <1>3, NotLeaf
<1>5. CASE x.op \in Arith
  <2>1. x.op \notin Order \cup Equal /\ x.op # "&" /\ x.op # "|"
    BY <1>5, OpsDiffer
  <2>2. MeaningNode(x, m, means) = {Calculate(x.op, v, w) : v \in m[1], w \in m[2]}
    BY <1>3, <1>4, <1>5, <2>1 DEF MeaningNode
  <2>3. \A v, w : Meant(x.op, v, w) = Calculate(x.op, v, w)
    BY <1>5, <2>1 DEF Meant
  <2> QED
    BY <1>1, <1>2, <2>2, <2>3
<1>6. CASE x.op \in Order \cup Equal
  <2>1. x.op \notin Arith /\ x.op # "&" /\ x.op # "|"
    BY <1>6, OpsDiffer
  <2>2. MeaningNode(x, m, means) = {AsTruth(Compare(x.op, v, w)) : v \in m[1], w \in m[2]}
    BY <1>3, <1>4, <1>6, <2>1 DEF MeaningNode
  <2>3. \A v, w : Meant(x.op, v, w) = AsTruth(Compare(x.op, v, w))
    BY <1>6, <2>1 DEF Meant
  <2> QED
    BY <1>1, <1>2, <2>2, <2>3
<1>7. CASE x.op = "&"
  <2>1. x.op \notin Arith /\ x.op \notin Order \cup Equal
    BY <1>7, OpsDiffer
  <2>2. MeaningNode(x, m, means) = {AsTruth(v = One /\ w = One) : v \in m[1], w \in m[2]}
    BY <1>3, <1>4, <1>7, <2>1 DEF MeaningNode
  <2>3. \A v, w : Meant(x.op, v, w) = AsTruth(v = One /\ w = One)
    BY <1>7 DEF Meant
  <2> QED
    BY <1>1, <1>2, <2>2, <2>3
<1>8. CASE x.op = "|"
  <2>1. x.op \notin Arith /\ x.op \notin Order \cup Equal
    BY <1>8, OpsDiffer
  <2>2. MeaningNode(x, m, means) = {AsTruth(v = One \/ w = One) : v \in m[1], w \in m[2]}
    BY <1>3, <1>4, <1>8, <2>1 DEF MeaningNode
  <2>3. \A v, w : Meant(x.op, v, w) = AsTruth(v = One \/ w = One)
    BY <1>8 DEF Meant
  <2> QED
    BY <1>1, <1>2, <2>2, <2>3
<1> QED
  BY <1>5, <1>6, <1>7, <1>8 DEF Binary, Logical

LEMMA PairSingle ==
  ASSUME NEW means, IsMeans(means), NEW x \in Tree, x.op \in Binary,
         NEW p, MeaningUnder(x.args[1], means) = {p}, NEW q, MeaningUnder(x.args[2], means) = {q}
  PROVE  MeaningUnder(x, means) = {Meant(x.op, p, q)}
<1> DEFINE U == MeaningUnder(x.args[1], means)
           V == MeaningUnder(x.args[2], means)
<1>1. MeaningUnder(x, means) = {Meant(x.op, v, w) : v \in U, w \in V}
  BY PairMeaning
<1>2. U = {p} /\ V = {q}
  OBVIOUS
<1> HIDE DEF U, V
<1> QED
  BY <1>1, <1>2

LEMMA SameMeaning ==
  ASSUME NEW means, IsMeans(means), NEW x \in Tree, NEW y \in Tree, y.op = x.op,
         x.op \in Leaves => y.name = x.name /\ y.val = x.val,
         \A i \in DOMAIN x.args : MeaningUnder(y.args[i], means) = MeaningUnder(x.args[i], means)
  PROVE  MeaningUnder(y, means) = MeaningUnder(x, means)
<1>1. CASE x.op \in Leaves
  BY <1>1, LeafMeaning DEF IsLiteral
<1>2. CASE x.op = "not"
  <2>1. DOMAIN x.args = {1}
    BY <1>2, Operands
  <2>2. MeaningUnder(x, means) = {AsTruth(v = Zero) : v \in MeaningUnder(x.args[1], means)}
    BY <1>2, NotMeaning
  <2>3. MeaningUnder(y, means) = {AsTruth(v = Zero) : v \in MeaningUnder(y.args[1], means)}
    BY <1>2, NotMeaning
  <2>4. MeaningUnder(y.args[1], means) = MeaningUnder(x.args[1], means)
    BY <2>1
  <2> QED
    BY <1>2, <2>2, <2>3, <2>4
<1>3. CASE x.op = "neg"
  <2>1. DOMAIN x.args = {1}
    BY <1>3, Operands
  <2>2. MeaningUnder(x, means) = {Calculate("-", Zero, v) : v \in MeaningUnder(x.args[1], means)}
    BY <1>3, NegMeaning
  <2>3. MeaningUnder(y, means) = {Calculate("-", Zero, v) : v \in MeaningUnder(y.args[1], means)}
    BY <1>3, NegMeaning
  <2>4. MeaningUnder(y.args[1], means) = MeaningUnder(x.args[1], means)
    BY <2>1
  <2> QED
    BY <1>3, <2>2, <2>3, <2>4
<1>4. CASE x.op = "?:"
  <2>1. DOMAIN x.args = {1, 2, 3}
    BY <1>4, Operands
  <2>2. MeaningUnder(x, means) = 
          UNION {IF c = One THEN MeaningUnder(x.args[2], means) ELSE MeaningUnder(x.args[3], means) : c \in MeaningUnder(x.args[1], means)}
    BY <1>4, IfMeaning
  <2>3. MeaningUnder(y, means) = 
          UNION {IF c = One THEN MeaningUnder(y.args[2], means) ELSE MeaningUnder(y.args[3], means) : c \in MeaningUnder(y.args[1], means)}
    BY <1>4, IfMeaning
  <2>4. MeaningUnder(y.args[1], means) = MeaningUnder(x.args[1], means) /\ MeaningUnder(y.args[2], means) = MeaningUnder(x.args[2], means) /\ MeaningUnder(y.args[3], means) = MeaningUnder(x.args[3], means)
    BY <2>1
  <2> QED
    BY <1>4, <2>2, <2>3, <2>4
<1>5. CASE x.op \in Binary
  <2>1. DOMAIN x.args = {1, 2}
    BY <1>5, Operands
  <2>2. MeaningUnder(x, means) = 
          {Meant(x.op, v, w) : v \in MeaningUnder(x.args[1], means), w \in MeaningUnder(x.args[2], means)}
    BY <1>5, PairMeaning
  <2>3. MeaningUnder(y, means) = 
          {Meant(y.op, v, w) : v \in MeaningUnder(y.args[1], means), w \in MeaningUnder(y.args[2], means)}
    BY <1>5, PairMeaning
  <2>4. MeaningUnder(y.args[1], means) = MeaningUnder(x.args[1], means) /\ MeaningUnder(y.args[2], means) = MeaningUnder(x.args[2], means)
    BY <2>1
  <2> QED
    BY <1>5, <2>2, <2>3, <2>4
<1> QED
  BY <1>1, <1>2, <1>3, <1>4, <1>5, Constructs

LEMMA LiteralParts ==
  /\ \A kind, val : /\ Literal(kind, val).op = kind /\ Literal(kind, val).val = val
  /\ \A p : Truth(p).op = "bool" /\ Truth(p).val = AsTruth(p)
  BY DEF Literal, Node, Truth, AsTruth

LEMMA ApplyParts ==
  ASSUME NEW op, NEW s, NEW r, r = Apply(op, s)
  PROVE  r.op = op /\ r.args = s
  BY DEF Apply, Node

(* Folding two literals gives the literal of their value, or nothing new.  *)
PairFolds(op, a, b, r) == r = FoldBinary(op, a, b)

LEMMA FoldBinaryMeant ==
  ASSUME NEW op \in Binary, NEW a, NEW b, IsLiteral(a), IsLiteral(b),
         NEW r, PairFolds(op, a, b, r)
  PROVE  \/ r.op \in Kinds /\ r.val = Meant(op, a.val, b.val)
         \/ r.op = op /\ r.args = <<a, b>>
<1>1. /\ "int" \in Kinds /\ "float" \in Kinds /\ "bool" \in Kinds
  BY DEF Kinds
<1>2. op \in Arith => Meant(op, a.val, b.val) = Calculate(op, a.val, b.val)
  BY OpsDiffer DEF Meant
<1>3. op \in Order \cup Equal => Meant(op, a.val, b.val) = AsTruth(Compare(op, a.val, b.val))
  BY OpsDiffer DEF Meant
<1>4. op = "&" => Meant(op, a.val, b.val) = AsTruth(a.val = One /\ b.val = One)
  BY DEF Meant
<1>5. op = "|" => Meant(op, a.val, b.val) = AsTruth(a.val = One \/ b.val = One)
  BY DEF Meant
<1>6. r = Apply(op, <<a, b>>) => r.op = op /\ r.args = <<a, b>>
  BY ApplyParts
<1>7. \/ \E kind \in Kinds : op \in Arith /\ r = Literal(kind, Calculate(op, a.val, b.val))
      \/ op \in Order \cup Equal /\ r = Truth(Compare(op, a.val, b.val))
      \/ op = "&" /\ r = Truth(a.val = One /\ b.val = One)
      \/ op = "|" /\ r = Truth(a.val = One \/ b.val = One)
      \/ r = Apply(op, <<a, b>>)
  BY <1>1, FoldBinaryCases DEF PairFolds
<1> QED
  BY <1>1, <1>2, <1>3, <1>4, <1>5, <1>6, <1>7, LiteralParts

NodeFolds(x, a, vals, r) == r = FoldNode(x, a, vals)

(* A folded node means what the node does, if its folded operands do.      *)
LEMMA FoldMeaningStep ==
  ASSUME NEW means, IsMeans(means), NEW vals, IsVals(vals),
         \A n \in DOMAIN vals : <<"ident", n>> \in DOMAIN means /\ means[<<"ident", n>>] = {vals[n].val},
         NEW x \in Tree, NEW a, Len(a) = Arity(x.op), DOMAIN a = DOMAIN x.args,
         \A i \in DOMAIN x.args : a[i] \in Tree,
         \A i \in DOMAIN x.args : MeaningUnder(a[i], means) = MeaningUnder(x.args[i], means),
         NEW r \in Tree, NodeFolds(x, a, vals, r)
  PROVE  MeaningUnder(r, means) = MeaningUnder(x, means)
<1>1. \A y \in Tree : IsLiteral(y) => MeaningUnder(y, means) = {y.val}
  BY LiteralMeaning
<1>2. IsLiteral(r) => MeaningUnder(r, means) = {r.val}
  BY <1>1
<1>3. CASE x.op = "ident" /\ x.name \in DOMAIN vals /\ r = vals[x.name]
  <2>1. IsLiteral(r)
    BY <1>3 DEF IsVals
  <2>2. <<x.op, x.name>> \in DOMAIN means /\ means[<<x.op, x.name>>] = {r.val}
    BY <1>3
  <2>3. x.op \in Leaves /\ ~IsLiteral(x)
    BY <1>3, OpsDiffer DEF IsLiteral
  <2> QED
    BY <1>2, <2>1, <2>2, <2>3, LeafMeaning
<1>4. CASE x.op = "not" /\ a[1].op = "bool" /\ r = Truth(a[1].val = Zero)
  <2>1. 1 \in DOMAIN x.args /\ IsLiteral(a[1])
    BY <1>4, Operands DEF IsLiteral, Kinds
  <2>2. MeaningUnder(x.args[1], means) = {a[1].val}
    BY <1>1, <2>1
  <2>3. MeaningUnder(x, means) = {AsTruth(v = Zero) : v \in MeaningUnder(x.args[1], means)}
    BY <1>4, NotMeaning
  <2>4. IsLiteral(r) /\ r.val = AsTruth(a[1].val = Zero)
    BY <1>4, LiteralParts DEF IsLiteral, Kinds
  <2> QED
    BY <1>2, <2>2, <2>3, <2>4
<1>5. CASE x.op = "neg" /\ a[1].op \in Numeric /\ r = Literal(a[1].op, Calculate("-", Zero, a[1].val))
  <2>1. 1 \in DOMAIN x.args /\ IsLiteral(a[1])
    BY <1>5, Operands DEF IsLiteral, Kinds, Numeric
  <2>2. MeaningUnder(x.args[1], means) = {a[1].val}
    BY <1>1, <2>1
  <2>3. MeaningUnder(x, means) = {Calculate("-", Zero, v) : v \in MeaningUnder(x.args[1], means)}
    BY <1>5, NegMeaning
  <2>4. IsLiteral(r) /\ r.val = Calculate("-", Zero, a[1].val)
    BY <1>5, <2>1, LiteralParts DEF IsLiteral
  <2> QED
    BY <1>2, <2>2, <2>3, <2>4
<1>6. CASE x.op = "?:" /\ a[1].op = "bool" /\ r = Branch(a[1], a[2], a[3])
  <2>1. DOMAIN x.args = {1, 2, 3} /\ IsLiteral(a[1])
    BY <1>6, Operands DEF IsLiteral, Kinds
  <2>2. MeaningUnder(x.args[1], means) = {a[1].val}
    BY <1>1, <2>1
  <2>3. /\ MeaningUnder(x.args[2], means) = MeaningUnder(a[2], means)
        /\ MeaningUnder(x.args[3], means) = MeaningUnder(a[3], means)
    BY <2>1
  <2>4. MeaningUnder(x, means) =
          UNION {IF c = One THEN MeaningUnder(x.args[2], means) ELSE MeaningUnder(x.args[3], means) :
                   c \in MeaningUnder(x.args[1], means)}
    BY <1>6, IfMeaning
  <2>5. MeaningUnder(x, means) =
          IF a[1].val = One THEN MeaningUnder(x.args[2], means) ELSE MeaningUnder(x.args[3], means)
    BY <2>2, <2>4
  <2> QED
    BY <1>6, <2>3, <2>5 DEF Branch
<1>7. CASE x.op \in Binary /\ IsLiteral(a[1]) /\ IsLiteral(a[2]) /\ r = FoldBinary(x.op, a[1], a[2])
  <2>1. DOMAIN x.args = {1, 2}
    BY <1>7, Operands
  <2>2. CASE r.op \in Kinds /\ r.val = Meant(x.op, a[1].val, a[2].val)
    <3>1. MeaningUnder(x.args[1], means) = {a[1].val} /\ MeaningUnder(x.args[2], means) = {a[2].val}
      BY <1>1, <1>7, <2>1
    <3>2. x.op \in Binary
      BY <1>7
    <3>3. MeaningUnder(x, means) = {Meant(x.op, a[1].val, a[2].val)}
      <4> DEFINE p == a[1].val
                 q == a[2].val
      <4>1. MeaningUnder(x.args[1], means) = {p} /\ MeaningUnder(x.args[2], means) = {q}
        BY <3>1
      <4> HIDE DEF p, q
      <4>2. MeaningUnder(x, means) = {Meant(x.op, p, q)}
        <5>1. IsMeans(means) /\ x \in Tree
          OBVIOUS
        <5> QED
          BY ONLY <3>2, <4>1, <5>1, PairSingle
      <4> QED
        BY <4>2 DEF p, q
    <3> QED
      BY <1>2, <2>2, <3>3 DEF IsLiteral
  <2>3. CASE r.op = x.op /\ r.args = <<a[1], a[2]>>
    <3>1. r.args[1] = a[1] /\ r.args[2] = a[2]
      BY <2>3
    <3>3. x.op \notin Leaves
      BY <1>7, OpsDiffer DEF Binary
    <3>4. \A i \in DOMAIN x.args : MeaningUnder(r.args[i], means) = MeaningUnder(x.args[i], means)
      BY <2>1, <3>1
    <3> QED
      BY <2>3, <3>3, <3>4, SameMeaning
  <2> QED
    BY <1>7, <2>2, <2>3, FoldBinaryMeant DEF PairFolds
<1>8. CASE r = [x EXCEPT !.args = a]
  <2>1. r.op = x.op /\ r.name = x.name /\ r.val = x.val /\ r.args = a
    BY <1>8, Rebuilt, TreeNode
  <2> QED
    BY <2>1, SameMeaning
<1>9. Shaped(x)
  BY TreeNode
<1> QED
  BY <1>3, <1>4, <1>5, <1>6, <1>7, <1>8, <1>9, FoldSplit DEF NodeFolds

(* The folded operands of a tree. *)
LEMMA FoldedOperands ==
  ASSUME NEW vals, IsVals(vals), NEW x \in Tree,
         NEW a, a = [i \in DOMAIN x.args |-> Fold(x.args[i], vals)]
  PROVE  /\ Len(a) = Arity(x.op) /\ DOMAIN a = DOMAIN x.args
         /\ \A i \in DOMAIN x.args : a[i] = Fold(x.args[i], vals) /\ a[i] \in Tree
         /\ Fold(x, vals) = FoldNode(x, a, vals) /\ Fold(x, vals) \in Tree
<1>1. /\ x.args \in Seq(Tree) /\ Len(x.args) = Arity(x.op)
      /\ DOMAIN x.args = 1 .. Arity(x.op) /\ \A i \in DOMAIN x.args : x.args[i] \in Tree
  BY TreeNode DEF Shaped
<1>2. \A i \in DOMAIN x.args : Fold(x.args[i], vals) \in Tree
  BY <1>1, FoldTree
<1>3. a \in Seq(Tree) /\ Len(a) = Arity(x.op)
  BY <1>1, <1>2
<1>4. Fold(x, vals) = FoldNode(x, a, vals) /\ Fold(x, vals) \in Tree
  BY FoldLaw, FoldTree
<1> QED
  BY <1>2, <1>3, <1>4

LEMMA FoldMeaning ==
  ASSUME NEW means, IsMeans(means), NEW vals, IsVals(vals),
         \A n \in DOMAIN vals : <<"ident", n>> \in DOMAIN means /\ means[<<"ident", n>>] = {vals[n].val}
  PROVE  \A x \in Tree : MeaningUnder(Fold(x, vals), means) = MeaningUnder(x, means)
<1> DEFINE S == {x \in Tree : MeaningUnder(Fold(x, vals), means) = MeaningUnder(x, means)}
<1>1. ASSUME NEW x \in Tree, \A i \in DOMAIN x.args : x.args[i] \in S PROVE x \in S
  <2> DEFINE a == [i \in DOMAIN x.args |-> Fold(x.args[i], vals)]
  <2>1. /\ Len(a) = Arity(x.op) /\ DOMAIN a = DOMAIN x.args
        /\ \A i \in DOMAIN x.args : a[i] = Fold(x.args[i], vals) /\ a[i] \in Tree
        /\ Fold(x, vals) = FoldNode(x, a, vals) /\ Fold(x, vals) \in Tree
    BY FoldedOperands
  <2> HIDE DEF a
  <2>2. \A i \in DOMAIN x.args : MeaningUnder(a[i], means) = MeaningUnder(x.args[i], means)
    BY <1>1, <2>1
  <2>3. MeaningUnder(Fold(x, vals), means) = MeaningUnder(x, means)
    BY <2>1, <2>2, FoldMeaningStep DEF NodeFolds
  <2> QED
    BY <2>3
<1>2. \A x \in Tree : x \in S
  <2> HIDE DEF S
  <2> QED
    BY <1>1, TreeInduction
<1> QED
  BY <1>2

-----------------------------------------------------------------------------
(* Names with one meaning give expressions one meaning, and more names     *)
(* with a meaning leave those that are there.                              *)

AtMostOne(V) == \A v, w \in V : v = w
Single(means) == \A k \in DOMAIN means : AtMostOne(means[k])

LEMMA OneMeaning ==
  ASSUME NEW means, IsMeans(means), Single(means)
  PROVE  \A x \in Tree : AtMostOne(MeaningUnder(x, means))
<1> DEFINE S == {x \in Tree : AtMostOne(MeaningUnder(x, means))}
<1>1. ASSUME NEW x \in Tree, \A i \in DOMAIN x.args : x.args[i] \in S PROVE x \in S
  <2> DEFINE m(i) == MeaningUnder(x.args[i], means)
  <2>1. \A i \in DOMAIN x.args : AtMostOne(m(i))
    BY <1>1
  <2> HIDE DEF m
  <2>2. CASE x.op \in Leaves
    <3> DEFINE key == <<x.op, x.name>>
    <3>1. MeaningUnder(x, means) =
            IF IsLiteral(x) THEN {x.val} ELSE IF key \in DOMAIN means THEN means[key] ELSE {}
      BY <2>2, LeafMeaning
    <3> HIDE DEF key
    <3>2. key \in DOMAIN means => AtMostOne(means[key])
      BY DEF Single
    <3>3. AtMostOne({x.val}) /\ AtMostOne({})
      BY DEF AtMostOne
    <3>4. AtMostOne(MeaningUnder(x, means))
      BY <3>1, <3>2, <3>3
    <3> QED
      BY <3>4
  <2>3. CASE x.op = "not"
    <3>1. MeaningUnder(x, means) = {AsTruth(v = Zero) : v \in m(1)}
      BY <2>3, NotMeaning DEF m
    <3>2. AtMostOne(m(1))
      BY <2>1, <2>3, Operands
    <3> QED
      BY <3>1, <3>2 DEF AtMostOne
  <2>4. CASE x.op = "neg"
    <3>1. MeaningUnder(x, means) = {Calculate("-", Zero, v) : v \in m(1)}
      BY <2>4, NegMeaning DEF m
    <3>2. AtMostOne(m(1))
      BY <2>1, <2>4, Operands
    <3> QED
      BY <3>1, <3>2 DEF AtMostOne
  <2>5. CASE x.op = "?:"
    <3>1. MeaningUnder(x, means) = UNION {IF c = One THEN m(2) ELSE m(3) : c \in m(1)}
      BY <2>5, IfMeaning DEF m
    <3>2. AtMostOne(m(1)) /\ AtMostOne(m(2)) /\ AtMostOne(m(3))
      BY <2>1, <2>5, Operands
    <3>3. \A v \in MeaningUnder(x, means) : \E c \in m(1) : v \in IF c = One THEN m(2) ELSE m(3)
      BY <3>1
    <3> QED
      BY <3>2, <3>3 DEF AtMostOne
  <2>6. CASE x.op \in Binary
    <3>1. MeaningUnder(x, means) = {Meant(x.op, v, w) : v \in m(1), w \in m(2)}
      BY <2>6, PairMeaning DEF m
    <3>2. AtMostOne(m(1)) /\ AtMostOne(m(2))
      BY <2>1, <2>6, Operands
    <3> QED
      BY <3>1, <3>2 DEF AtMostOne
  <2>7. AtMostOne(MeaningUnder(x, means))
    BY <2>2, <2>3, <2>4, <2>5, <2>6, Constructs
  <2> QED
    BY <2>7
<1>2. \A x \in Tree : x \in S
  <2> HIDE DEF S
  <2> QED
    BY <1>1, TreeInduction
<1> QED
  BY <1>2

(* What has a meaning by m has the same by n. *)
Below(m, n) == DOMAIN m = DOMAIN n /\ \A k \in DOMAIN m : m[k] = {} \/ n[k] = m[k]

LEMMA MeaningGrows ==
  ASSUME NEW m, IsMeans(m), Single(m), NEW n, IsMeans(n), Below(m, n)
  PROVE  \A x \in Tree : MeaningUnder(x, m) = {} \/ MeaningUnder(x, n) = MeaningUnder(x, m)
<1> DEFINE S == {x \in Tree : MeaningUnder(x, m) = {} \/ MeaningUnder(x, n) = MeaningUnder(x, m)}
<1>1. ASSUME NEW x \in Tree, \A i \in DOMAIN x.args : x.args[i] \in S PROVE x \in S
  <2> DEFINE u(i) == MeaningUnder(x.args[i], m)
             v(i) == MeaningUnder(x.args[i], n)
  <2>1. \A i \in DOMAIN x.args : u(i) = {} \/ v(i) = u(i)
    BY <1>1
  <2>0. \A i \in DOMAIN x.args : AtMostOne(u(i))
    BY OneMeaning, TreeNode
  <2> HIDE DEF u, v
  <2>2. CASE x.op \in Leaves
    BY <2>2, LeafMeaning DEF Below
  <2>3. CASE x.op = "not"
    <3>1. MeaningUnder(x, m) = {AsTruth(a = Zero) : a \in u(1)}
      BY <2>3, NotMeaning DEF u
    <3>2. MeaningUnder(x, n) = {AsTruth(a = Zero) : a \in v(1)}
      BY <2>3, NotMeaning DEF v
    <3>3. u(1) = {} \/ v(1) = u(1)
      BY <2>1, <2>3, Operands
    <3> QED
      BY <3>1, <3>2, <3>3
  <2>4. CASE x.op = "neg"
    <3>1. MeaningUnder(x, m) = {Calculate("-", Zero, a) : a \in u(1)}
      BY <2>4, NegMeaning DEF u
    <3>2. MeaningUnder(x, n) = {Calculate("-", Zero, a) : a \in v(1)}
      BY <2>4, NegMeaning DEF v
    <3>3. u(1) = {} \/ v(1) = u(1)
      BY <2>1, <2>4, Operands
    <3> QED
      BY <3>1, <3>2, <3>3
  <2>5. CASE x.op = "?:"
    <3>1. MeaningUnder(x, m) = UNION {IF c = One THEN u(2) ELSE u(3) : c \in u(1)}
      BY <2>5, IfMeaning DEF u
    <3>2. MeaningUnder(x, n) = UNION {IF c = One THEN v(2) ELSE v(3) : c \in v(1)}
      BY <2>5, IfMeaning DEF v
    <3>3. /\ u(1) = {} \/ v(1) = u(1)
          /\ u(2) = {} \/ v(2) = u(2)
          /\ u(3) = {} \/ v(3) = u(3)
          /\ AtMostOne(u(1))
      BY <2>0, <2>1, <2>5, Operands
    <3>4. CASE u(1) = {}
      BY <3>1, <3>4
    <3>5. ASSUME NEW c \in u(1) PROVE x \in S
      <4>1. u(1) = {c} /\ v(1) = {c}
        BY <3>3, <3>5 DEF AtMostOne
      <4>2. MeaningUnder(x, m) = IF c = One THEN u(2) ELSE u(3)
        BY <3>1, <4>1
      <4>3. MeaningUnder(x, n) = IF c = One THEN v(2) ELSE v(3)
        BY <3>2, <4>1
      <4> QED
        BY <3>3, <4>2, <4>3
    <3> QED
      BY <3>4, <3>5
  <2>6. CASE x.op \in Binary
    <3>1. MeaningUnder(x, m) = {Meant(x.op, a, b) : a \in u(1), b \in u(2)}
      BY <2>6, PairMeaning DEF u
    <3>2. MeaningUnder(x, n) = {Meant(x.op, a, b) : a \in v(1), b \in v(2)}
      BY <2>6, PairMeaning DEF v
    <3>3. (u(1) = {} \/ v(1) = u(1)) /\ (u(2) = {} \/ v(2) = u(2))
      BY <2>1, <2>6, Operands
    <3>4. CASE u(1) = {} \/ u(2) = {}
      <4>1. MeaningUnder(x, m) = {}
        BY <3>1, <3>4
      <4> QED
        BY <4>1
    <3>5. CASE v(1) = u(1) /\ v(2) = u(2)
      BY <3>1, <3>2, <3>5
    <3> QED
      BY <3>3, <3>4, <3>5
  <2> QED
    BY <2>2, <2>3, <2>4, <2>5, <2>6, Constructs
<1>2. \A x \in Tree : x \in S
  <2> HIDE DEF S
  <2> QED
    BY <1>1, TreeInduction
<1> QED
  BY <1>2

-----------------------------------------------------------------------------
(* The type of a tree, by its constructor. *)

PairTyped(op, s, t) ==
  IF op \in Logical THEN (IF s = "bool" /\ t = "bool" THEN "bool" ELSE "error")
  ELSE IF op \in Arith
  THEN (IF s \in Numeric /\ t \in Numeric THEN IF op = "/" THEN "float" ELSE Join(s, t) ELSE "error")
  ELSE IF op \in Order THEN (IF s \in Numeric /\ t \in Numeric THEN "bool" ELSE "error")
  ELSE IF s # "error" /\ t # "error" /\ Join(s, t) # "error" THEN "bool" ELSE "error"

LEMMA LeafType ==
  ASSUME NEW types, IsTypes(types), NEW ref \in {"bool", "error"}, NEW x \in Tree, x.op \in Leaves
  PROVE  InferWith(x, types, ref) =
           IF IsLiteral(x) THEN x.op
           ELSE IF x.op \in {"ident", "primed"} /\ x.name \in DOMAIN types THEN types[x.name]
           ELSE IF x.op = "label" THEN ref ELSE "error"
<1> DEFINE t == [i \in DOMAIN x.args |-> InferWith(x.args[i], types, ref)]
<1>1. InferWith(x, types, ref) = InferNode(x, t, types, ref)
  BY InferLaw
<1> HIDE DEF t
<1>2. IsLiteral(x) => x.op \notin {"ident", "primed", "label"}
  BY OpsDiffer DEF IsLiteral
<1>3. /\ x.op \notin Arith /\ x.op \notin Order /\ x.op \notin Equal /\ x.op \notin Logical
      /\ x.op # "not" /\ x.op # "neg" /\ x.op # "?:" /\ x.op # "/" /\ "/" \in Arith
  BY OpsDiffer DEF Arith
<1>4. InferNode(x, t, types, ref) =
           IF IsLiteral(x) THEN x.op
           ELSE IF x.op \in {"ident", "primed"} /\ x.name \in DOMAIN types THEN types[x.name]
           ELSE IF x.op = "label" THEN ref ELSE "error"
  <2>1. CASE IsLiteral(x)
    BY <1>2, <1>3, <2>1 DEF InferNode
  <2>2. CASE x.op \in {"ident", "primed"} /\ x.name \in DOMAIN types
    BY <1>2, <1>3, <2>2 DEF InferNode
  <2>3. CASE x.op = "label"
    BY <1>2, <1>3, <2>3 DEF InferNode
  <2>4. CASE ~IsLiteral(x) /\ ~(x.op \in {"ident", "primed"} /\ x.name \in DOMAIN types) /\ x.op # "label"
    BY <1>3, <2>4 DEF InferNode
  <2> QED
    BY <1>2, <2>1, <2>2, <2>3, <2>4
<1> QED
  BY <1>1, <1>4

LEMMA NotType ==
  ASSUME NEW types, IsTypes(types), NEW ref \in {"bool", "error"}, NEW x \in Tree, x.op = "not"
  PROVE  InferWith(x, types, ref) = IF InferWith(x.args[1], types, ref) = "bool" THEN "bool" ELSE "error"
<1> DEFINE t == [i \in DOMAIN x.args |-> InferWith(x.args[i], types, ref)]
<1>1. InferWith(x, types, ref) = InferNode(x, t, types, ref)
  BY InferLaw
<1>2. DOMAIN t = {1} /\ t[1] = InferWith(x.args[1], types, ref)
  BY Operands
<1> HIDE DEF t
<1>3. /\ x.op \notin Arith /\ x.op \notin Order /\ x.op \notin Equal /\ x.op \notin Logical
      /\ ~IsLiteral(x)
  BY OpsDiffer DEF IsLiteral
<1>4. InferNode(x, t, types, ref) = IF t[1] = "bool" THEN "bool" ELSE "error"
  BY <1>2, <1>3 DEF InferNode
<1> QED
  BY <1>1, <1>2, <1>4

LEMMA NegType ==
  ASSUME NEW types, IsTypes(types), NEW ref \in {"bool", "error"}, NEW x \in Tree, x.op = "neg"
  PROVE  InferWith(x, types, ref) =
           IF InferWith(x.args[1], types, ref) \in Numeric THEN InferWith(x.args[1], types, ref) ELSE "error"
<1> DEFINE t == [i \in DOMAIN x.args |-> InferWith(x.args[i], types, ref)]
<1>1. InferWith(x, types, ref) = InferNode(x, t, types, ref)
  BY InferLaw
<1>2. DOMAIN t = {1} /\ t[1] = InferWith(x.args[1], types, ref)
  BY Operands
<1> HIDE DEF t
<1>3. /\ x.op \notin Arith /\ x.op \notin Order /\ x.op \notin Equal /\ x.op \notin Logical
      /\ ~IsLiteral(x)
  BY OpsDiffer DEF IsLiteral
<1>4. InferNode(x, t, types, ref) = IF t[1] \in Numeric THEN t[1] ELSE "error"
  BY <1>2, <1>3 DEF InferNode
<1> QED
  BY <1>1, <1>2, <1>4

LEMMA IfType ==
  ASSUME NEW types, IsTypes(types), NEW ref \in {"bool", "error"}, NEW x \in Tree, x.op = "?:"
  PROVE  InferWith(x, types, ref) =
           IF InferWith(x.args[1], types, ref) = "bool"
           THEN Join(InferWith(x.args[2], types, ref), InferWith(x.args[3], types, ref)) ELSE "error"
<1> DEFINE t == [i \in DOMAIN x.args |-> InferWith(x.args[i], types, ref)]
<1>1. InferWith(x, types, ref) = InferNode(x, t, types, ref)
  BY InferLaw
<1>2. /\ t[1] = InferWith(x.args[1], types, ref) /\ t[2] = InferWith(x.args[2], types, ref)
      /\ t[3] = InferWith(x.args[3], types, ref)
  BY Operands
<1> HIDE DEF t
<1>3. /\ x.op \notin Arith /\ x.op \notin Order /\ x.op \notin Equal /\ x.op \notin Logical
      /\ ~IsLiteral(x)
  BY OpsDiffer DEF IsLiteral
<1>4. InferNode(x, t, types, ref) = IF t[1] = "bool" THEN Join(t[2], t[3]) ELSE "error"
  BY <1>3 DEF InferNode
<1> QED
  BY <1>1, <1>2, <1>4

LEMMA PairType ==
  ASSUME NEW types, IsTypes(types), NEW ref \in {"bool", "error"}, NEW x \in Tree, x.op \in Binary
  PROVE  InferWith(x, types, ref) =
           PairTyped(x.op, InferWith(x.args[1], types, ref), InferWith(x.args[2], types, ref))
<1> DEFINE t == [i \in DOMAIN x.args |-> InferWith(x.args[i], types, ref)]
<1>1. InferWith(x, types, ref) = InferNode(x, t, types, ref)
  BY InferLaw
<1>2. /\ DOMAIN t = {1, 2}
      /\ t[1] = InferWith(x.args[1], types, ref) /\ t[2] = InferWith(x.args[2], types, ref)
  BY Operands
<1> HIDE DEF t
<1>3. x.op \notin Leaves /\ x.op # "not" /\ x.op # "neg" /\ x.op # "?:"
  BY OpsDiffer DEF Binary
<1>4. ~IsLiteral(x) /\ x.op # "ident" /\ x.op # "primed" /\ x.op # "label"
  BY <1>3, OpsDiffer DEF IsLiteral
<1>5. "/" \in Arith /\ \A op \in Order : op \notin Equal
  BY DEF Arith, Order, Equal
<1>6. InferNode(x, t, types, ref) = PairTyped(x.op, t[1], t[2])
  <2>1. CASE x.op \in Logical
    <3>1. x.op \notin Arith /\ x.op \notin Order /\ x.op \notin Equal
      BY <2>1, OpsDiffer
    <3> QED
      BY <1>2, <1>3, <1>4, <1>5, <2>1, <3>1 DEF InferNode, PairTyped
  <2>2. CASE x.op \in Arith
    <3>1. x.op \notin Logical /\ x.op \notin Order /\ x.op \notin Equal
      BY <2>2, OpsDiffer
    <3> QED
      BY <1>2, <1>3, <1>4, <1>5, <2>2, <3>1 DEF InferNode, PairTyped
  <2>3. CASE x.op \in Order
    <3>1. x.op \notin Logical /\ x.op \notin Arith /\ x.op \notin Equal /\ x.op # "/"
      BY <1>5, <2>3, OpsDiffer
    <3> QED
      BY <1>2, <1>3, <1>4, <1>5, <2>3, <3>1 DEF InferNode, PairTyped
  <2>4. CASE x.op \in Equal
    <3>1. x.op \notin Logical /\ x.op \notin Arith /\ x.op \notin Order /\ x.op # "/"
      BY <1>5, <2>4, OpsDiffer
    <3> QED
      BY <1>2, <1>3, <1>4, <1>5, <2>4, <3>1 DEF InferNode, PairTyped
  <2> QED
    BY <2>1, <2>2, <2>3, <2>4 DEF Binary
<1> QED
  BY <1>1, <1>2, <1>6

-----------------------------------------------------------------------------
(* Folding keeps the type, up to an int in the place of a float. *)

LEMMA JoinTypes ==
  /\ \A s, t : Join(s, t) # "error" => s # "error" /\ t # "error"
  /\ \A s, t, u, v : Join(s, t) # "error" /\ Promotes(u, s) /\ Promotes(v, t) => Promotes(Join(u, v), Join(s, t))
<1>1. \A s, t : Join(s, t) # "error" => s # "error" /\ t # "error"
  BY DEF Join, Numeric
<1>2. ASSUME NEW s, NEW t, NEW u, NEW v, Join(s, t) # "error", Promotes(u, s), Promotes(v, t)
      PROVE  Promotes(Join(u, v), Join(s, t))
  BY <1>2 DEF Join, Numeric, Promotes
<1> QED
  BY <1>1, <1>2

LEMMA PairOperands ==
  ASSUME NEW op, NEW s, NEW t, PairTyped(op, s, t) # "error"
  PROVE  s # "error" /\ t # "error"
  BY DEF PairTyped, Numeric

LEMMA PairPromoted ==
  ASSUME NEW op, NEW s, NEW t, NEW u, NEW v,
         PairTyped(op, s, t) # "error", Promotes(u, s), Promotes(v, t)
  PROVE  Promotes(PairTyped(op, u, v), PairTyped(op, s, t))
<1>1. /\ s \in Numeric => u \in Numeric
      /\ t \in Numeric => v \in Numeric
      /\ s = "bool" => u = "bool"
      /\ t = "bool" => v = "bool"
      /\ s # "error" => u # "error"
      /\ t # "error" => v # "error"
  BY DEF Promotes, Numeric
<1>2. Join(s, t) # "error" => Promotes(Join(u, v), Join(s, t))
  BY JoinTypes
<1>3. Join(s, t) # "error" => Join(u, v) # "error"
  BY <1>2 DEF Promotes
<1>4. \A w : Promotes(w, w)
  BY DEF Promotes
<1>5. s \in Numeric /\ t \in Numeric => Join(s, t) # "error"
  BY DEF Join, Numeric
<1> HIDE DEF Join
<1> QED
  BY <1>1, <1>2, <1>3, <1>4, <1>5 DEF PairTyped

LEMMA PairLiteral ==
  ASSUME NEW op \in Binary, NEW a, NEW b, IsLiteral(a), IsLiteral(b),
         PairTyped(op, a.op, b.op) # "error", NEW r, PairFolds(op, a, b, r)
  PROVE  r.op = PairTyped(op, a.op, b.op) /\ IsLiteral(r)
<1>1. /\ a.op \in {"bool", "int", "float"} /\ b.op \in {"bool", "int", "float"}
      /\ Numeric = {"int", "float"} /\ Logical = {"&", "|"}
  BY DEF IsLiteral, Kinds, Numeric, Logical
<1>2. \/ a.op = "int" /\ b.op = "int" /\ op \in Arith \ {"/"} /\ r.op = "int"
      \/ /\ a.op \in Numeric /\ b.op \in Numeric /\ op \in Arith
         /\ ~(a.op = "int" /\ b.op = "int" /\ op # "/") /\ r.op = "float"
      \/ a.op \in Numeric /\ b.op \in Numeric /\ op \in Order \cup Equal /\ r.op = "bool"
      \/ a.op = "bool" /\ b.op = "bool" /\ op \in Logical \cup Equal /\ r.op = "bool"
      \/ /\ ~(a.op \in Numeric /\ b.op \in Numeric /\ op \in Arith \cup Order \cup Equal)
         /\ ~(a.op = "bool" /\ b.op = "bool" /\ op \in Logical \cup Equal)
  <2>0. r = FoldBinary(op, a, b)
    BY DEF PairFolds
  <2>1. CASE /\ a.op = "int" /\ b.op = "int" /\ op \in Arith \ {"/"}
             /\ r = Literal("int", Calculate(op, a.val, b.val))
    BY <2>1, LiteralParts
  <2>2. CASE /\ a.op \in Numeric /\ b.op \in Numeric /\ op \in Arith
             /\ ~(a.op = "int" /\ b.op = "int" /\ op # "/")
             /\ r = Literal("float", Calculate(op, a.val, b.val))
    BY <2>2, LiteralParts
  <2>3. CASE /\ a.op \in Numeric /\ b.op \in Numeric /\ op \in Order \cup Equal
             /\ r = Truth(Compare(op, a.val, b.val))
    BY <2>3, LiteralParts
  <2>4. CASE a.op = "bool" /\ b.op = "bool" /\ op = "&" /\ r = Truth(a.val = One /\ b.val = One)
    BY <1>1, <2>4, LiteralParts
  <2>5. CASE a.op = "bool" /\ b.op = "bool" /\ op = "|" /\ r = Truth(a.val = One \/ b.val = One)
    BY <1>1, <2>5, LiteralParts
  <2>6. CASE a.op = "bool" /\ b.op = "bool" /\ op \in Equal /\ r = Truth(Compare(op, a.val, b.val))
    BY <2>6, LiteralParts
  <2>7. CASE /\ r = Apply(op, <<a, b>>)
             /\ ~(a.op \in Numeric /\ b.op \in Numeric /\ op \in Arith \cup Order \cup Equal)
             /\ ~(a.op = "bool" /\ b.op = "bool" /\ op \in Logical \cup Equal)
    BY <2>7
  <2> QED
    BY <2>0, <2>1, <2>2, <2>3, <2>4, <2>5, <2>6, <2>7, FoldBinaryCases
<1>3. /\ op \in Arith => op \notin Order /\ op \notin Equal /\ op \notin Logical
      /\ op \in Order => op \notin Arith /\ op \notin Equal /\ op \notin Logical
      /\ op \in Equal => op \notin Arith /\ op \notin Order /\ op \notin Logical
      /\ op \in Logical => op \notin Arith /\ op \notin Order /\ op \notin Equal
  BY DEF Arith, Order, Equal, Logical
<1>4. op \in Arith \/ op \in Order \/ op \in Equal \/ op \in Logical
  BY DEF Binary
<1>5. r.op = PairTyped(op, a.op, b.op)
  BY <1>1, <1>2, <1>3, <1>4 DEF PairTyped, Join
<1>6. r.op \in Kinds
  BY <1>1, <1>2, <1>3, <1>4, <1>5 DEF PairTyped, Join, Kinds
<1> QED
  BY <1>5, <1>6 DEF IsLiteral

LEMMA TypedOperands ==
  ASSUME NEW types, IsTypes(types), NEW ref \in {"bool", "error"}, NEW x \in Tree,
         InferWith(x, types, ref) # "error"
  PROVE  \A i \in DOMAIN x.args : InferWith(x.args[i], types, ref) # "error"
<1> DEFINE t(i) == InferWith(x.args[i], types, ref)
<1> SUFFICES ASSUME NEW i \in DOMAIN x.args PROVE t(i) # "error"
  OBVIOUS
<1>1. CASE x.op \in Leaves
  BY <1>1, Operands
<1>2. CASE x.op = "not"
  BY <1>2, NotType, Operands
<1>3. CASE x.op = "neg"
  <2>1. i = 1 /\ t(1) \in Numeric
    BY <1>3, NegType, Operands
  <2> HIDE DEF t
  <2> QED
    BY <2>1 DEF Numeric
<1>4. CASE x.op = "?:"
  <2>1. t(1) = "bool" /\ Join(t(2), t(3)) # "error"
    BY <1>4, IfType
  <2>2. i \in {1, 2, 3}
    BY <1>4, Operands
  <2> HIDE DEF t
  <2>3. t(2) # "error" /\ t(3) # "error"
    BY <2>1, JoinTypes
  <2> QED
    BY <2>1, <2>2, <2>3
<1>5. CASE x.op \in Binary
  <2>1. PairTyped(x.op, t(1), t(2)) # "error"
    BY <1>5, PairType
  <2>2. i \in {1, 2}
    BY <1>5, Operands
  <2> HIDE DEF t
  <2>3. t(1) # "error" /\ t(2) # "error"
    BY <2>1, PairOperands
  <2> QED
    BY <2>2, <2>3
<1> QED
  BY <1>1, <1>2, <1>3, <1>4, <1>5, Constructs

LEMMA SamePromoted ==
  ASSUME NEW types, IsTypes(types), NEW ref \in {"bool", "error"}, NEW x \in Tree, NEW y \in Tree,
         InferWith(x, types, ref) # "error", y.op = x.op, x.op \in Leaves => y.name = x.name,
         \A i \in DOMAIN x.args :
           InferWith(x.args[i], types, ref) # "error" =>
             Promotes(InferWith(y.args[i], types, ref), InferWith(x.args[i], types, ref))
  PROVE  Promotes(InferWith(y, types, ref), InferWith(x, types, ref))
<1> DEFINE t(i) == InferWith(x.args[i], types, ref)
           u(i) == InferWith(y.args[i], types, ref)
<1>0. \A i \in DOMAIN x.args : Promotes(u(i), t(i))
  BY TypedOperands
<1> HIDE DEF t, u
<1>1. CASE x.op \in Leaves
  <2>1. IsLiteral(x) = IsLiteral(y)
    BY DEF IsLiteral
  <2>2. InferWith(y, types, ref) = InferWith(x, types, ref)
    BY <1>1, <2>1, LeafType
  <2> QED
    BY <2>2 DEF Promotes
<1>2. CASE x.op = "not"
  <2>1. InferWith(x, types, ref) = (IF t(1) = "bool" THEN "bool" ELSE "error")
    BY <1>2, NotType DEF t
  <2>2. InferWith(y, types, ref) = (IF u(1) = "bool" THEN "bool" ELSE "error")
    BY <1>2, NotType DEF u
  <2>3. Promotes(u(1), t(1))
    BY <1>0, <1>2, Operands
  <2> QED
    BY <2>1, <2>2, <2>3 DEF Promotes
<1>3. CASE x.op = "neg"
  <2>1. InferWith(x, types, ref) = (IF t(1) \in Numeric THEN t(1) ELSE "error")
    BY <1>3, NegType DEF t
  <2>2. InferWith(y, types, ref) = (IF u(1) \in Numeric THEN u(1) ELSE "error")
    BY <1>3, NegType DEF u
  <2>3. Promotes(u(1), t(1))
    BY <1>0, <1>3, Operands
  <2> QED
    BY <2>1, <2>2, <2>3 DEF Promotes, Numeric
<1>4. CASE x.op = "?:"
  <2>1. InferWith(x, types, ref) = (IF t(1) = "bool" THEN Join(t(2), t(3)) ELSE "error")
    BY <1>4, IfType DEF t
  <2>2. InferWith(y, types, ref) = (IF u(1) = "bool" THEN Join(u(2), u(3)) ELSE "error")
    BY <1>4, IfType DEF u
  <2>3. Promotes(u(1), t(1)) /\ Promotes(u(2), t(2)) /\ Promotes(u(3), t(3))
    BY <1>0, <1>4, Operands
  <2>4. t(1) = "bool" /\ Join(t(2), t(3)) # "error"
    BY <2>1
  <2>5. u(1) = "bool"
    BY <2>3, <2>4 DEF Promotes
  <2>6. Promotes(Join(u(2), u(3)), Join(t(2), t(3)))
    BY <2>3, <2>4, JoinTypes
  <2> QED
    BY <2>1, <2>2, <2>4, <2>5, <2>6
<1>5. CASE x.op \in Binary
  <2>1. InferWith(x, types, ref) = PairTyped(x.op, t(1), t(2))
    BY <1>5, PairType DEF t
  <2>2. InferWith(y, types, ref) = PairTyped(x.op, u(1), u(2))
    BY <1>5, PairType DEF u
  <2>3. Promotes(u(1), t(1)) /\ Promotes(u(2), t(2))
    BY <1>0, <1>5, Operands
  <2>4. PairTyped(x.op, t(1), t(2)) # "error"
    BY <2>1
  <2>5. Promotes(PairTyped(x.op, u(1), u(2)), PairTyped(x.op, t(1), t(2)))
    BY <2>3, <2>4, PairPromoted
  <2> QED
    BY <2>1, <2>2, <2>5
<1> QED
  BY <1>1, <1>2, <1>3, <1>4, <1>5, Constructs

(* Literals of the declared types. *)
ValsTyped(vals, types) ==
  IsVals(vals) /\ \A n \in DOMAIN vals : n \in DOMAIN types /\ vals[n].op = types[n]

LEMMA LiteralType ==
  ASSUME NEW types, IsTypes(types), NEW ref \in {"bool", "error"}, NEW x \in Tree, IsLiteral(x)
  PROVE  InferWith(x, types, ref) = x.op /\ x.op # "error"
<1>1. x.op \in Leaves /\ x.op \in Kinds
  BY OpsDiffer DEF IsLiteral
<1> QED
  BY <1>1, LeafType DEF Kinds

LEMMA FoldTypeStep ==
  ASSUME NEW types, IsTypes(types), NEW ref \in {"bool", "error"}, NEW vals, ValsTyped(vals, types),
         NEW x \in Tree, InferWith(x, types, ref) # "error",
         NEW a, Len(a) = Arity(x.op), DOMAIN a = DOMAIN x.args,
         \A i \in DOMAIN x.args : a[i] \in Tree,
         \A i \in DOMAIN x.args :
           InferWith(x.args[i], types, ref) # "error" =>
             Promotes(InferWith(a[i], types, ref), InferWith(x.args[i], types, ref)),
         NEW r \in Tree, NodeFolds(x, a, vals, r)
  PROVE  Promotes(InferWith(r, types, ref), InferWith(x, types, ref))
<1> DEFINE t(i) == InferWith(x.args[i], types, ref)
           u(i) == InferWith(a[i], types, ref)
           type == InferWith(x, types, ref)
<1>0. \A i \in DOMAIN x.args : Promotes(u(i), t(i))
  BY TypedOperands
<1>1. \A y \in Tree : IsLiteral(y) => InferWith(y, types, ref) = y.op
  BY LiteralType
<1>2. /\ IsLiteral(r) => InferWith(r, types, ref) = r.op
      /\ \A i \in DOMAIN x.args : IsLiteral(a[i]) => u(i) = a[i].op
  BY <1>1
<1> HIDE DEF t, u, type
<1>3. CASE x.op = "ident" /\ x.name \in DOMAIN vals /\ r = vals[x.name]
  <2>1. IsLiteral(r) /\ x.name \in DOMAIN types /\ r.op = types[x.name]
    BY <1>3 DEF ValsTyped, IsVals
  <2>2. x.op \in Leaves /\ ~IsLiteral(x)
    BY <1>3, OpsDiffer DEF IsLiteral
  <2>3. type = types[x.name]
    BY <1>3, <2>1, <2>2, LeafType DEF type
  <2> QED
    BY <1>2, <2>1, <2>3 DEF Promotes, type
<1>4. CASE x.op = "not" /\ a[1].op = "bool" /\ r = Truth(a[1].val = Zero)
  <2>1. type = (IF t(1) = "bool" THEN "bool" ELSE "error")
    BY <1>4, NotType DEF t, type
  <2>2. IsLiteral(r) /\ r.op = "bool"
    BY <1>4, LiteralParts DEF IsLiteral, Kinds
  <2>3. type # "error"
    BY DEF type
  <2> QED
    BY <1>2, <2>1, <2>2, <2>3 DEF Promotes, type
<1>5. CASE x.op = "neg" /\ a[1].op \in Numeric /\ r = Literal(a[1].op, Calculate("-", Zero, a[1].val))
  <2>1. type = (IF t(1) \in Numeric THEN t(1) ELSE "error")
    BY <1>5, NegType DEF t, type
  <2>2. IsLiteral(a[1]) /\ 1 \in DOMAIN x.args
    BY <1>5, Operands DEF IsLiteral, Kinds, Numeric
  <2>3. IsLiteral(r) /\ r.op = a[1].op
    BY <1>5, <2>2, LiteralParts DEF IsLiteral
  <2>4. type # "error" /\ Promotes(u(1), t(1)) /\ u(1) = a[1].op
    BY <1>0, <1>2, <2>2 DEF type
  <2> QED
    BY <1>2, <2>1, <2>3, <2>4 DEF type
<1>6. CASE x.op = "?:" /\ a[1].op = "bool" /\ r = Branch(a[1], a[2], a[3])
  <2>1. type = (IF t(1) = "bool" THEN Join(t(2), t(3)) ELSE "error")
    BY <1>6, IfType DEF t, type
  <2>2. Promotes(u(2), t(2)) /\ Promotes(u(3), t(3))
    BY <1>0, <1>6, Operands
  <2>3. type # "error"
    BY DEF type
  <2>4. Promotes(u(2), Join(t(2), t(3))) /\ Promotes(u(3), Join(t(2), t(3)))
    BY <2>1, <2>2, <2>3 DEF Promotes, Join, Numeric
  <2>5. InferWith(r, types, ref) = u(2) \/ InferWith(r, types, ref) = u(3)
    BY <1>6 DEF Branch, u
  <2> QED
    BY <2>1, <2>3, <2>4, <2>5 DEF type
<1>7. CASE x.op \in Binary /\ IsLiteral(a[1]) /\ IsLiteral(a[2]) /\ r = FoldBinary(x.op, a[1], a[2])
  <2>1. DOMAIN x.args = {1, 2} /\ x.op \in Binary
    BY <1>7, Operands
  <2>2. type = PairTyped(x.op, t(1), t(2))
    BY <2>1, PairType DEF t, type
  <2>3. Promotes(u(1), t(1)) /\ Promotes(u(2), t(2)) /\ u(1) = a[1].op /\ u(2) = a[2].op
    BY <1>0, <1>2, <1>7, <2>1
  <2>4. PairTyped(x.op, t(1), t(2)) # "error"
    BY <2>2 DEF type
  <2>5. Promotes(PairTyped(x.op, u(1), u(2)), type)
    BY <2>2, <2>3, <2>4, PairPromoted
  <2>6. PairTyped(x.op, a[1].op, a[2].op) # "error"
    BY <2>2, <2>3, <2>4, <2>5 DEF Promotes
  <2>7. r.op = PairTyped(x.op, a[1].op, a[2].op) /\ IsLiteral(r)
    BY <1>7, <2>6, PairLiteral DEF PairFolds
  <2> QED
    BY <1>2, <2>3, <2>5, <2>7 DEF type
<1>8. CASE r = [x EXCEPT !.args = a]
  <2>1. r.op = x.op /\ r.name = x.name /\ r.val = x.val /\ r.args = a
    BY <1>8, Rebuilt, TreeNode
  <2> QED
    BY <2>1, SamePromoted
<1>9. Shaped(x)
  BY TreeNode
<1> QED
  BY <1>3, <1>4, <1>5, <1>6, <1>7, <1>8, <1>9, FoldSplit DEF NodeFolds

LEMMA FoldType ==
  ASSUME NEW types, IsTypes(types), NEW ref \in {"bool", "error"}, NEW vals, ValsTyped(vals, types)
  PROVE  \A x \in Tree : InferWith(x, types, ref) # "error" =>
           Promotes(InferWith(Fold(x, vals), types, ref), InferWith(x, types, ref))
<1> DEFINE S == {x \in Tree : InferWith(x, types, ref) # "error" =>
                   Promotes(InferWith(Fold(x, vals), types, ref), InferWith(x, types, ref))}
<1>0. IsVals(vals)
  BY DEF ValsTyped
<1>1. ASSUME NEW x \in Tree, \A i \in DOMAIN x.args : x.args[i] \in S PROVE x \in S
  <2> SUFFICES ASSUME InferWith(x, types, ref) # "error"
               PROVE  Promotes(InferWith(Fold(x, vals), types, ref), InferWith(x, types, ref))
    OBVIOUS
  <2> DEFINE a == [i \in DOMAIN x.args |-> Fold(x.args[i], vals)]
  <2>1. /\ Len(a) = Arity(x.op) /\ DOMAIN a = DOMAIN x.args
        /\ \A i \in DOMAIN x.args : a[i] = Fold(x.args[i], vals) /\ a[i] \in Tree
        /\ Fold(x, vals) = FoldNode(x, a, vals) /\ Fold(x, vals) \in Tree
    BY <1>0, FoldedOperands
  <2> HIDE DEF a
  <2>2. \A i \in DOMAIN x.args :
           InferWith(x.args[i], types, ref) # "error" =>
             Promotes(InferWith(a[i], types, ref), InferWith(x.args[i], types, ref))
    BY <1>1, <2>1
  <2> QED
    BY <2>1, <2>2, FoldTypeStep DEF NodeFolds
<1>2. \A x \in Tree : x \in S
  <2> HIDE DEF S
  <2> QED
    BY <1>1, TreeInduction
<1> QED
  BY <1>2

-----------------------------------------------------------------------------
(* An expression whose names are resolved as far as it needs them folds to *)
(* a literal.                                                              *)

Agrees(vals, means) ==
  \A n \in DOMAIN vals : <<"ident", n>> \in DOMAIN means /\ means[<<"ident", n>>] = {vals[n].val}

LEMMA PairMeant ==
  ASSUME NEW m, IsMeans(m), NEW x \in Tree, x.op \in Binary
  PROVE  MeaningUnder(x, m) # {} =>
           MeaningUnder(x.args[1], m) # {} /\ MeaningUnder(x.args[2], m) # {}
<1>1. MeaningUnder(x, m) =
        {Meant(x.op, w, z) : w \in MeaningUnder(x.args[1], m), z \in MeaningUnder(x.args[2], m)}
  BY PairMeaning
<1> QED
  BY <1>1

LEMMA FoldClosesStep ==
  ASSUME NEW types, IsTypes(types), NEW vals, ValsTyped(vals, types),
         NEW n, IsMeans(n), NEW m, IsMeans(m), Single(m), Below(m, n),
         \A name : <<"ident", name>> \in DOMAIN m /\ m[<<"ident", name>>] # {} => name \in DOMAIN vals,
         NEW x \in Tree, InferWith(x, types, "error") # "error", MeaningUnder(x, m) # {},
         NEW a, Len(a) = Arity(x.op), DOMAIN a = DOMAIN x.args,
         \A i \in DOMAIN x.args : a[i] \in Tree,
         \A i \in DOMAIN x.args :
           InferWith(x.args[i], types, "error") # "error" =>
             Promotes(InferWith(a[i], types, "error"), InferWith(x.args[i], types, "error")),
         \A i \in DOMAIN x.args : MeaningUnder(a[i], n) = MeaningUnder(x.args[i], n),
         \A i \in DOMAIN x.args :
           InferWith(x.args[i], types, "error") # "error" /\ MeaningUnder(x.args[i], m) # {} => IsLiteral(a[i]),
         NEW r, NodeFolds(x, a, vals, r)
  PROVE  IsLiteral(r)
<1> DEFINE t(i) == InferWith(x.args[i], types, "error")
           u(i) == InferWith(a[i], types, "error")
           v(i) == MeaningUnder(x.args[i], m)
           type == InferWith(x, types, "error")
<1>0. \A i \in DOMAIN x.args : Promotes(u(i), t(i)) /\ (v(i) # {} => IsLiteral(a[i]))
  BY TypedOperands
<1>1. \A i \in DOMAIN x.args : IsLiteral(a[i]) => u(i) = a[i].op
  BY LiteralType
<1>2. type # "error" /\ Shaped(x)
  BY TreeNode
<1> HIDE DEF t, u, v, type
<1>3. CASE x.op \in Leaves
  <2>1. \/ x.op = "ident" /\ x.name \in DOMAIN vals /\ r = vals[x.name]
        \/ /\ ~(x.op = "ident" /\ x.name \in DOMAIN vals)
           /\ r = [x EXCEPT !.args = a]
    <3>1. x.op \notin {"not", "neg", "?:"} /\ x.op \notin Binary
      BY <1>3, OpsDiffer DEF Binary
    <3> QED
      BY <1>2, <3>1, FoldSplit DEF NodeFolds
  <2>2. MeaningUnder(x, m) =
           IF IsLiteral(x) THEN {x.val}
           ELSE IF <<x.op, x.name>> \in DOMAIN m THEN m[<<x.op, x.name>>] ELSE {}
    BY <1>3, LeafMeaning
  <2>3. type = (IF IsLiteral(x) THEN x.op
                ELSE IF x.op \in {"ident", "primed"} /\ x.name \in DOMAIN types THEN types[x.name]
                ELSE IF x.op = "label" THEN "error" ELSE "error")
    BY <1>3, LeafType DEF type
  <2>4. IsLiteral(x) \/ (x.op = "ident" /\ x.name \in DOMAIN vals)
    <3> SUFFICES ASSUME ~IsLiteral(x) PROVE x.op = "ident" /\ x.name \in DOMAIN vals
      OBVIOUS
    <3>1. <<x.op, x.name>> \in DOMAIN m /\ m[<<x.op, x.name>>] # {}
      BY <2>2
    <3>2. x.op \in {"ident", "label"}
      BY <3>1 DEF IsMeans
    <3>3. x.op = "ident"
      BY <1>2, <2>3, <3>2
    <3> QED
      BY <3>1, <3>3
  <2>5. CASE r = [x EXCEPT !.args = a] /\ ~(x.op = "ident" /\ x.name \in DOMAIN vals)
    <3>1. r.op = x.op
      BY <1>2, <2>5, Rebuilt
    <3> QED
      BY <2>4, <2>5, <3>1 DEF IsLiteral
  <2>6. CASE x.op = "ident" /\ x.name \in DOMAIN vals /\ r = vals[x.name]
    BY <2>6 DEF ValsTyped, IsVals
  <2> QED
    BY <2>1, <2>5, <2>6
<1>4. CASE x.op = "not"
  <2>1. type = (IF t(1) = "bool" THEN "bool" ELSE "error")
    BY <1>4, NotType DEF t, type
  <2>2. MeaningUnder(x, m) = {AsTruth(w = Zero) : w \in v(1)}
    BY <1>4, NotMeaning DEF v
  <2>3. 1 \in DOMAIN x.args /\ v(1) # {}
    BY <1>4, <2>2, Operands
  <2>4. IsLiteral(a[1]) /\ Promotes(u(1), t(1)) /\ u(1) = a[1].op
    BY <1>0, <1>1, <2>3
  <2>5. a[1].op = "bool"
    BY <1>2, <2>1, <2>4 DEF Promotes
  <2>6. r = Truth(a[1].val = Zero)
    BY <1>2, <1>4, <2>5, FoldSplit, OpsDiffer DEF NodeFolds, Binary
  <2> QED
    BY <2>6, LiteralParts DEF IsLiteral, Kinds
<1>5. CASE x.op = "neg"
  <2>1. type = (IF t(1) \in Numeric THEN t(1) ELSE "error")
    BY <1>5, NegType DEF t, type
  <2>2. MeaningUnder(x, m) = {Calculate("-", Zero, w) : w \in v(1)}
    BY <1>5, NegMeaning DEF v
  <2>3. 1 \in DOMAIN x.args /\ v(1) # {}
    BY <1>5, <2>2, Operands
  <2>4. IsLiteral(a[1]) /\ Promotes(u(1), t(1)) /\ u(1) = a[1].op
    BY <1>0, <1>1, <2>3
  <2>5. a[1].op \in Numeric
    BY <1>2, <2>1, <2>4 DEF Promotes, Numeric
  <2>6. r = Literal(a[1].op, Calculate("-", Zero, a[1].val))
    BY <1>2, <1>5, <2>5, FoldSplit, OpsDiffer DEF NodeFolds, Binary
  <2> QED
    BY <2>4, <2>6, LiteralParts DEF IsLiteral
<1>6. CASE x.op = "?:"
  <2>1. type = (IF t(1) = "bool" THEN Join(t(2), t(3)) ELSE "error")
    BY <1>6, IfType DEF t, type
  <2>2. MeaningUnder(x, m) = UNION {IF c = One THEN v(2) ELSE v(3) : c \in v(1)}
    BY <1>6, IfMeaning DEF v
  <2>3. DOMAIN x.args = {1, 2, 3} /\ \A i \in {1, 2, 3} : x.args[i] \in Tree
    BY <1>6, Operands
  <2>4. PICK c \in v(1) : (IF c = One THEN v(2) ELSE v(3)) # {}
    BY <2>2
  <2>5. IsLiteral(a[1]) /\ Promotes(u(1), t(1)) /\ u(1) = a[1].op
    BY <1>0, <1>1, <2>3, <2>4
  <2>6. a[1].op = "bool"
    BY <1>2, <2>1, <2>5 DEF Promotes
  <2>7. c = a[1].val
    <3>1. MeaningUnder(x.args[1], n) = v(1)
      BY <2>3, <2>4, MeaningGrows DEF v
    <3>2. MeaningUnder(a[1], n) = {a[1].val}
      BY <2>3, <2>5, LiteralMeaning
    <3> QED
      BY <2>3, <2>4, <3>1, <3>2
  <2>8. r = Branch(a[1], a[2], a[3])
    BY <1>2, <1>6, <2>6, FoldSplit, OpsDiffer DEF NodeFolds, Binary
  <2>9. (v(2) # {} => IsLiteral(a[2])) /\ (v(3) # {} => IsLiteral(a[3]))
    BY <1>0, <2>3
  <2> QED
    BY <2>4, <2>7, <2>8, <2>9 DEF Branch
<1>7. CASE x.op \in Binary
  <2>1. DOMAIN x.args = {1, 2}
    BY <1>7, Operands
  <2>2. type = PairTyped(x.op, t(1), t(2))
    BY <1>7, PairType DEF t, type
  <2>4. v(1) # {} /\ v(2) # {}
    BY <1>7, PairMeant DEF v
  <2>5. /\ IsLiteral(a[1]) /\ Promotes(u(1), t(1)) /\ u(1) = a[1].op
        /\ IsLiteral(a[2]) /\ Promotes(u(2), t(2)) /\ u(2) = a[2].op
    BY <1>0, <1>1, <2>1, <2>4
  <2>6. PairTyped(x.op, t(1), t(2)) # "error"
    BY <1>2, <2>2
  <2>7. PairTyped(x.op, a[1].op, a[2].op) # "error"
    <3>1. Promotes(PairTyped(x.op, u(1), u(2)), PairTyped(x.op, t(1), t(2)))
      BY <2>5, <2>6, PairPromoted
    <3> QED
      BY <2>5, <2>6, <3>1 DEF Promotes
  <2>8. PairFolds(x.op, a[1], a[2], r)
    <3>1. x.op \notin {"ident", "not", "neg", "?:"}
      BY <1>7, OpsDiffer DEF Binary
    <3> QED
      BY <1>2, <1>7, <2>5, <3>1, FoldSplit DEF NodeFolds, PairFolds
  <2> QED
    BY <1>7, <2>5, <2>7, <2>8, PairLiteral
<1> QED
  BY <1>3, <1>4, <1>5, <1>6, <1>7, Constructs

LEMMA FoldCloses ==
  ASSUME NEW types, IsTypes(types), NEW vals, ValsTyped(vals, types),
         NEW n, IsMeans(n), Agrees(vals, n), NEW m, IsMeans(m), Single(m), Below(m, n),
         \A name : <<"ident", name>> \in DOMAIN m /\ m[<<"ident", name>>] # {} => name \in DOMAIN vals
  PROVE  \A x \in Tree : InferWith(x, types, "error") # "error" /\ MeaningUnder(x, m) # {}
           => IsLiteral(Fold(x, vals))
<1> DEFINE S == {x \in Tree : InferWith(x, types, "error") # "error" /\ MeaningUnder(x, m) # {}
                   => IsLiteral(Fold(x, vals))}
<1>0. IsVals(vals)
  BY DEF ValsTyped
<1>1. ASSUME NEW x \in Tree, \A i \in DOMAIN x.args : x.args[i] \in S PROVE x \in S
  <2> SUFFICES ASSUME InferWith(x, types, "error") # "error", MeaningUnder(x, m) # {}
               PROVE  IsLiteral(Fold(x, vals))
    OBVIOUS
  <2> DEFINE a == [i \in DOMAIN x.args |-> Fold(x.args[i], vals)]
  <2>1. /\ Len(a) = Arity(x.op) /\ DOMAIN a = DOMAIN x.args
        /\ \A i \in DOMAIN x.args : a[i] = Fold(x.args[i], vals) /\ a[i] \in Tree
        /\ Fold(x, vals) = FoldNode(x, a, vals) /\ Fold(x, vals) \in Tree
    BY <1>0, FoldedOperands
  <2> HIDE DEF a
  <2>0. \A i \in DOMAIN x.args : x.args[i] \in Tree
    BY TreeNode
  <2>2. \A i \in DOMAIN x.args :
           InferWith(x.args[i], types, "error") # "error" =>
             Promotes(InferWith(a[i], types, "error"), InferWith(x.args[i], types, "error"))
    <3>1. \A y \in Tree : InferWith(y, types, "error") # "error" =>
            Promotes(InferWith(Fold(y, vals), types, "error"), InferWith(y, types, "error"))
      BY FoldType
    <3> QED
      BY <2>0, <2>1, <3>1
  <2>3. \A i \in DOMAIN x.args : MeaningUnder(a[i], n) = MeaningUnder(x.args[i], n)
    <3>1. \A y \in Tree : MeaningUnder(Fold(y, vals), n) = MeaningUnder(y, n)
      BY <1>0, FoldMeaning DEF Agrees
    <3> QED
      BY <2>0, <2>1, <3>1
  <2>4. \A i \in DOMAIN x.args :
           InferWith(x.args[i], types, "error") # "error" /\ MeaningUnder(x.args[i], m) # {} => IsLiteral(a[i])
    BY <1>1, <2>1
  <2>5. NodeFolds(x, a, vals, Fold(x, vals))
    BY <2>1 DEF NodeFolds
  <2> QED
    BY <2>1, <2>2, <2>3, <2>4, <2>5, FoldClosesStep
<1>2. \A x \in Tree : x \in S
  <2> HIDE DEF S
  <2> QED
    BY <1>1, TreeInduction
<1> QED
  BY <1>2

-----------------------------------------------------------------------------
(* The meaning of the names of an input *)

LEMMA InputIs ==
  ASSUME NEW model \in Inputs
  PROVE  /\ model.consts \in Seq([name : Name, type : Kinds, value : Source])
         /\ model.vars \in Seq([name : Name, type : {"bool", "int"}, lo : Source, hi : Source, init : Source])
         /\ model.labels \in Seq([name : Name, expr : Source])
         /\ model.command \in [guard : Source, prob : Source, assign : Source]
         /\ model.phi \in [lhs : Source, rhs : Source, bound : Source]
         /\ \A name \in DOMAIN model.overrides :
              model.overrides[name] \in Source /\ IsLiteral(model.overrides[name])
         /\ Source \subseteq Tree
<1>1. /\ Levels \in Nat \ {0} /\ Height \in Nat
      /\ model.labels \in Seq([name : Name, expr : Source])
      /\ Levels * (Len(model.labels) + 2) <= Height
  BY InputAssumption DEF InputShape
<1>2. \A a, b \in Nat : a <= a * (b + 2)
  OBVIOUS
<1>3. Len(model.labels) \in Nat
  BY <1>1
<1>4. Levels <= Height
  <2>1. Levels <= Levels * (Len(model.labels) + 2) /\ Levels * (Len(model.labels) + 2) \in Int
    BY <1>1, <1>2, <1>3
  <2> QED
    BY <1>1, <2>1
<1>5. Source \subseteq Tree
  BY <1>1, <1>4, WithinMonotone DEF Source, Tree
<1> QED
  BY <1>5, InputAssumption DEF InputShape

LEMMA NamedIs ==
  ASSUME NEW R, NEW s \in Seq(R), NEW name \in NamesIn(s)
  PROVE  \E i \in DOMAIN s : Named(s, name) = s[i] /\ s[i].name = name /\ s[i] \in R
<1>1. \E i \in DOMAIN s : s[i].name = name
  BY DEF NamesIn
<1> DEFINE i == CHOOSE i \in DOMAIN s : s[i].name = name
<1>2. i \in DOMAIN s /\ s[i].name = name
  BY <1>1
<1>3. \A j \in DOMAIN s : s[j] \in R
  OBVIOUS
<1> QED
  BY <1>2, <1>3 DEF Named

LEMMA TextIs ==
  ASSUME NEW model \in Inputs
  PROVE  /\ \A n \in NamesIn(model.consts) \cup DOMAIN model.overrides : SourceOf(model, n) \in Source
         /\ \A key \in Keys(model) \ VarKeys(model) : TextOf(model, key) \in Source
<1>1. ASSUME NEW n \in NamesIn(model.consts) \cup DOMAIN model.overrides
      PROVE  SourceOf(model, n) \in Source
  <2>1. CASE n \in DOMAIN model.overrides
    BY <2>1, InputIs DEF SourceOf
  <2>2. CASE n \notin DOMAIN model.overrides
    <3> DEFINE R == [name : Name, type : Kinds, value : Source]
    <3>1. model.consts \in Seq(R) /\ n \in NamesIn(model.consts)
      BY <2>2, InputIs
    <3>2. \A r \in R : r.value \in Source
      OBVIOUS
    <3> HIDE DEF R
    <3>3. Named(model.consts, n) \in R
      BY <3>1, NamedIs
    <3> QED
      BY <2>2, <3>2, <3>3 DEF SourceOf
  <2> QED
    BY <2>1, <2>2
<1>2. ASSUME NEW key \in Keys(model) \ VarKeys(model) PROVE TextOf(model, key) \in Source
  <2>1. CASE key \in LabelKeys(model)
    <3> DEFINE R == [name : Name, expr : Source]
    <3>1. key[2] \in NamesIn(model.labels) /\ model.labels \in Seq(R)
      BY <2>1, InputIs DEF LabelKeys
    <3>2. \A r \in R : r.expr \in Source
      OBVIOUS
    <3> HIDE DEF R
    <3>3. Named(model.labels, key[2]) \in R
      BY <3>1, NamedIs
    <3> QED
      BY <2>1, <3>2, <3>3 DEF TextOf
  <2>2. CASE key \notin LabelKeys(model)
    <3>1. key[2] \in NamesIn(model.consts)
      BY <2>2 DEF Keys, ConstKeys
    <3> QED
      BY <2>2, <3>1, <1>1 DEF TextOf
  <2> QED
    BY <2>1, <2>2
<1> QED
  BY <1>1, <1>2

LEMMA NamesFinite == ASSUME NEW R, NEW s \in Seq(R) PROVE IsFiniteSet(NamesIn(s))
<1> DEFINE f == [i \in DOMAIN s |-> s[i].name]
<1>1. IsFiniteSet(DOMAIN s)
  <2>1. Len(s) \in Nat /\ DOMAIN s = 1 .. Len(s)
    OBVIOUS
  <2>2. IsFiniteSet(1 .. Len(s))
    BY <2>1, FS_Interval
  <2> QED
    BY <2>1, <2>2
<1>2. f \in Surjection(DOMAIN s, NamesIn(s))
  BY DEF Surjection, NamesIn
<1> QED
  BY <1>1, <1>2, FS_Surjection

LEMMA KeysFinite == ASSUME NEW model \in Inputs PROVE IsFiniteSet(Keys(model))
<1>1. /\ IsFiniteSet(NamesIn(model.consts)) /\ IsFiniteSet(NamesIn(model.vars))
      /\ IsFiniteSet(NamesIn(model.labels))
  <2>1. IsFiniteSet(NamesIn(model.consts))
    BY InputIs, NamesFinite
  <2>2. IsFiniteSet(NamesIn(model.vars))
    BY InputIs, NamesFinite
  <2>3. IsFiniteSet(NamesIn(model.labels))
    BY InputIs, NamesFinite
  <2> QED
    BY <2>1, <2>2, <2>3
<1>2. IsFiniteSet({"ident"}) /\ IsFiniteSet({"label"})
  BY FS_Singleton
<1>3. IsFiniteSet(ConstKeys(model)) /\ IsFiniteSet(VarKeys(model)) /\ IsFiniteSet(LabelKeys(model))
  BY <1>1, <1>2, FS_Product DEF ConstKeys, VarKeys, LabelKeys
<1> QED
  BY <1>3, FS_Union DEF Keys

(* What is known of the names after no round, and after one more.          *)
Given(env, key) == {env[name] : name \in DOMAIN env \cap {key[2]}}
Start(model, env) == [key \in Keys(model) |-> IF key \in VarKeys(model) THEN Given(env, key) ELSE {}]
Round(model, env, m) ==
  [key \in Keys(model) |->
     IF key \in VarKeys(model) THEN Given(env, key) ELSE MeaningUnder(TextOf(model, key), m)]
Known(model) == [Keys(model) -> SUBSET Fraction]
IsState(env) == \A name \in DOMAIN env : env[name] \in Fraction

LEMMA KnownIs ==
  ASSUME NEW model, NEW m \in Known(model)
  PROVE  IsMeans(m) /\ DOMAIN m = Keys(model)
<1>1. \A key \in Keys(model) : key[1] \in {"ident", "label"}
  BY DEF Keys, ConstKeys, VarKeys, LabelKeys
<1>2. DOMAIN m = Keys(model)
  BY DEF Known
<1>3. \A op, name : <<op, name>> \in DOMAIN m => op \in {"ident", "label"}
  BY <1>1, <1>2
<1> QED
  BY <1>2, <1>3 DEF IsMeans, Known

LEMMA RoundKnown ==
  ASSUME NEW model \in Inputs, NEW env, IsState(env)
  PROVE  /\ Start(model, env) \in Known(model)
         /\ \A m \in Known(model) : Round(model, env, m) \in Known(model)
<1>1. \A key \in Keys(model) : Given(env, key) \in SUBSET Fraction
  BY DEF Given, IsState
<1>2. Start(model, env) \in Known(model)
  BY <1>1 DEF Start, Known
<1>3. ASSUME NEW m \in Known(model) PROVE Round(model, env, m) \in Known(model)
  <2>1. ASSUME NEW key \in Keys(model), key \notin VarKeys(model)
        PROVE  MeaningUnder(TextOf(model, key), m) \in SUBSET Fraction
    <3>1. TextOf(model, key) \in Tree
      BY <2>1, TextIs, InputIs
    <3>2. IsMeans(m)
      BY KnownIs
    <3> QED
      BY <3>1, <3>2, MeaningLaw
  <2> QED
    BY <1>1, <2>1 DEF Round, Known
<1> QED
  BY <1>2, <1>3

(* The meanings after 0, 1, 2, ... rounds. *)
IsRounds(model, env, g) ==
  /\ g \in [Nat -> Known(model)]
  /\ g[0] = Start(model, env)
  /\ \A n \in Nat : g[n + 1] = Round(model, env, g[n])

LEMMA RoundsAt ==
  ASSUME NEW model, NEW env, NEW g, IsRounds(model, env, g)
  PROVE  /\ \A key \in Keys(model) :
              g[0][key] = IF key \in VarKeys(model) THEN Given(env, key) ELSE {}
         /\ \A n \in Nat : \A key \in Keys(model) :
              g[n + 1][key] = IF key \in VarKeys(model) THEN Given(env, key)
                              ELSE MeaningUnder(TextOf(model, key), g[n])
<1>1. g[0] = Start(model, env) /\ \A n \in Nat : g[n + 1] = Round(model, env, g[n])
  BY DEF IsRounds
<1>2. \A key \in Keys(model) :
        g[0][key] = IF key \in VarKeys(model) THEN Given(env, key) ELSE {}
  BY <1>1 DEF Start
<1>3. ASSUME NEW m, NEW key \in Keys(model)
      PROVE  Round(model, env, m)[key] =
               IF key \in VarKeys(model) THEN Given(env, key) ELSE MeaningUnder(TextOf(model, key), m)
  BY DEF Round
<1> QED
  BY <1>1, <1>2, <1>3

LEMMA MeansLaw ==
  ASSUME NEW model \in Inputs, NEW env, IsState(env)
  PROVE  \E g : IsRounds(model, env, g) /\ Means(model, env) = g[Cardinality(Keys(model))]
<1> DEFINE law(f) == f = [n \in Nat |->
             [key \in Keys(model) |->
                IF key \in VarKeys(model) THEN {env[name] : name \in DOMAIN env \cap {key[2]}}
                ELSE IF n = 0 THEN {}
                ELSE MeaningUnder(TextOf(model, key), f[n - 1])]]
           made == CHOOSE f : law(f)
           F == [m \in Known(model) |-> Round(model, env, m)]
           base == Start(model, env)
<1>1. base \in Known(model) /\ F \in [Known(model) -> Known(model)]
  BY RoundKnown
<1>2. \A m \in Known(model) : F[m] = Round(model, env, m)
  OBVIOUS
<1> HIDE DEF F
<1>3. PICK g \in [Nat -> Known(model)] : \A n \in Nat : g[n] = IF n = 0 THEN base ELSE F[g[n - 1]]
  BY <1>1, NatRecursion
<1>4. ASSUME NEW f, f = [n \in Nat |-> f[n]],
             \A n \in Nat : f[n] = IF n = 0 THEN Start(model, env) ELSE Round(model, env, f[n - 1])
      PROVE  law(f)
  <2>1. \A n \in Nat : f[n] = [key \in Keys(model) |->
                IF key \in VarKeys(model) THEN {env[name] : name \in DOMAIN env \cap {key[2]}}
                ELSE IF n = 0 THEN {}
                ELSE MeaningUnder(TextOf(model, key), f[n - 1])]
    BY <1>4 DEF Start, Round, Given
  <2> QED
    BY <1>4, <2>1
<1>5. law(g)
  <2>1. \A n \in Nat : g[n] = IF n = 0 THEN Start(model, env) ELSE Round(model, env, g[n - 1])
    BY <1>2, <1>3
  <2> HIDE DEF law
  <2> QED
    BY <1>3, <1>4, <2>1
<1>6. law(made)
  <2> HIDE DEF law
  <2> QED
    BY <1>5
<1>7. Means(model, env) = made[Cardinality(Keys(model))]
  BY DEF Means
<1>8. \A n \in Nat : made[n] = [key \in Keys(model) |->
                IF key \in VarKeys(model) THEN {env[name] : name \in DOMAIN env \cap {key[2]}}
                ELSE IF n = 0 THEN {}
                ELSE MeaningUnder(TextOf(model, key), made[n - 1])]
  BY <1>6
<1>9. made = [n \in Nat |-> made[n]]
  BY <1>6
<1> HIDE DEF made, law
<1>10. made[0] = Start(model, env)
  BY <1>8 DEF Start, Given
<1>11. ASSUME NEW n \in Nat PROVE made[n + 1] = Round(model, env, made[n])
  <2>1. n + 1 \in Nat /\ n + 1 # 0 /\ (n + 1) - 1 = n
    OBVIOUS
  <2>2. made[n + 1] = [key \in Keys(model) |->
                IF key \in VarKeys(model) THEN {env[name] : name \in DOMAIN env \cap {key[2]}}
                ELSE MeaningUnder(TextOf(model, key), made[n])]
    BY <1>8, <2>1
  <2> QED
    BY <2>2 DEF Round, Given
<1>12. \A n \in Nat : made[n] \in Known(model)
  <2> DEFINE good == {n \in Nat : made[n] \in Known(model)}
  <2>1. 0 \in good
    BY <1>10, RoundKnown
  <2>2. ASSUME NEW n \in good PROVE n + 1 \in good
    BY <1>11, RoundKnown
  <2> QED
    BY <2>1, <2>2, SetInduction
<1>13. IsRounds(model, env, made)
  BY <1>9, <1>10, <1>11, <1>12 DEF IsRounds
<1> QED
  BY <1>7, <1>13

LEMMA RoundsGrow ==
  ASSUME NEW model \in Inputs, NEW env, IsState(env), NEW g, IsRounds(model, env, g)
  PROVE  \A n \in Nat : Single(g[n]) /\ Below(g[n], g[n + 1])
<1>1. \A n \in Nat : g[n] \in Known(model) /\ IsMeans(g[n]) /\ DOMAIN g[n] = Keys(model)
  BY KnownIs DEF IsRounds
<1>2. \A key : AtMostOne(Given(env, key))
  BY DEF Given, AtMostOne
<1>3. AtMostOne({})
  BY DEF AtMostOne
<1>4. \A key \in Keys(model) \ VarKeys(model) : TextOf(model, key) \in Tree
  BY TextIs, InputIs
<1>5. /\ \A key \in Keys(model) :
           g[0][key] = IF key \in VarKeys(model) THEN Given(env, key) ELSE {}
      /\ \A n \in Nat : \A key \in Keys(model) :
           g[n + 1][key] = IF key \in VarKeys(model) THEN Given(env, key)
                           ELSE MeaningUnder(TextOf(model, key), g[n])
  BY RoundsAt
<1> DEFINE good == {n \in Nat : Single(g[n]) /\ Below(g[n], g[n + 1])}
<1>6. 0 \in good
  <2>1. Single(g[0])
    BY <1>1, <1>2, <1>3, <1>5 DEF Single
  <2>2. Below(g[0], g[0 + 1])
    BY <1>1, <1>5 DEF Below
  <2> QED
    BY <2>1, <2>2
<1>7. ASSUME NEW n \in good PROVE n + 1 \in good
  <2>1. n \in Nat /\ n + 1 \in Nat /\ Single(g[n]) /\ Below(g[n], g[n + 1])
    OBVIOUS
  <2>2. \A x \in Tree : AtMostOne(MeaningUnder(x, g[n]))
    BY <1>1, <2>1, OneMeaning
  <2>3. \A x \in Tree : MeaningUnder(x, g[n]) = {} \/ MeaningUnder(x, g[n + 1]) = MeaningUnder(x, g[n])
    BY <1>1, <2>1, MeaningGrows
  <2>4. Single(g[n + 1])
    BY <1>1, <1>2, <1>4, <1>5, <2>1, <2>2 DEF Single
  <2>5. Below(g[n + 1], g[(n + 1) + 1])
    <3>1. DOMAIN g[n + 1] = Keys(model) /\ DOMAIN g[(n + 1) + 1] = Keys(model)
      BY <1>1, <2>1
    <3>2. ASSUME NEW key \in Keys(model)
          PROVE  g[n + 1][key] = {} \/ g[(n + 1) + 1][key] = g[n + 1][key]
      BY <1>4, <1>5, <2>1, <2>3
    <3> QED
      BY <3>1, <3>2 DEF Below
  <2> QED
    BY <2>1, <2>4, <2>5
<1> HIDE DEF good
<1>8. good = Nat
  <2>1. good \in SUBSET Nat
    BY DEF good
  <2> QED
    BY <1>6, <1>7, <2>1, SetInduction
<1> QED
  BY <1>8 DEF good

(* A growing set of keys stops growing after as many steps as there are    *)
(* keys, when it never grows again once it has not grown.                  *)
LEMMA GrowingStops ==
  ASSUME NEW K, IsFiniteSet(K), NEW D \in [Nat -> SUBSET K],
         \A n \in Nat : D[n] \subseteq D[n + 1],
         \A n \in Nat : D[n + 1] = D[n] => D[(n + 1) + 1] = D[n + 1]
  PROVE  Cardinality(K) \in Nat /\ D[Cardinality(K) + 1] = D[Cardinality(K)]
<1> DEFINE good == {n \in Nat : n <= Cardinality(D[n]) \/ D[n + 1] = D[n]}
<1>1. \A n \in Nat : /\ IsFiniteSet(D[n]) /\ Cardinality(D[n]) \in Nat
                     /\ Cardinality(D[n]) <= Cardinality(K)
                     /\ Cardinality(D[n]) = Cardinality(K) => D[n] = K
  BY FS_Subset, FS_CardinalityType
<1>2. Cardinality(K) \in Nat
  BY FS_CardinalityType
<1>3. 0 \in good
  BY <1>1
<1>4. ASSUME NEW n \in good PROVE n + 1 \in good
  <2>1. n \in Nat /\ n + 1 \in Nat
    OBVIOUS
  <2>2. CASE D[n + 1] = D[n]
    BY <2>1, <2>2
  <2>3. CASE D[n + 1] # D[n]
    <3>1. n <= Cardinality(D[n])
      BY <2>3
    <3>2. D[n] \in SUBSET D[n + 1] /\ IsFiniteSet(D[n + 1])
      BY <1>1, <2>1
    <3>3. Cardinality(D[n]) <= Cardinality(D[n + 1]) /\ Cardinality(D[n + 1]) # Cardinality(D[n])
      BY <3>2, <2>3, FS_Subset
    <3>4. n + 1 <= Cardinality(D[n + 1])
      <4>1. \A i, a, b \in Nat : i <= a /\ a <= b /\ b # a => i + 1 <= b
        OBVIOUS
      <4>2. Cardinality(D[n]) \in Nat /\ Cardinality(D[n + 1]) \in Nat
        BY <1>1, <2>1
      <4> QED
        BY <2>1, <3>1, <3>3, <4>1, <4>2
    <3> QED
      BY <2>1, <3>4
  <2> QED
    BY <2>2, <2>3
<1>5. good = Nat
  BY <1>3, <1>4, SetInduction
<1> DEFINE c == Cardinality(K)
<1>6. c <= Cardinality(D[c]) \/ D[c + 1] = D[c]
  BY <1>2, <1>5
<1>7. ASSUME c <= Cardinality(D[c]) PROVE D[c + 1] = D[c]
  <2>1. Cardinality(D[c]) = Cardinality(K)
    <3>1. \A a, b \in Nat : a <= b /\ b <= a => b = a
      OBVIOUS
    <3>2. Cardinality(D[c]) \in Nat /\ Cardinality(D[c]) <= Cardinality(K)
      BY <1>1, <1>2
    <3> QED
      BY <1>2, <1>7, <3>1, <3>2
  <2>2. D[c] = K
    BY <1>1, <1>2, <2>1
  <2>3. D[c + 1] \subseteq K /\ D[c] \subseteq D[c + 1]
    BY <1>2
  <2> QED
    BY <2>2, <2>3
<1> QED
  BY <1>2, <1>6, <1>7

(* The last round changes nothing: what a name means is what its text      *)
(* means.                                                                  *)
LEMMA MeansFixed ==
  ASSUME NEW model \in Inputs, NEW env, IsState(env), NEW g, IsRounds(model, env, g),
         NEW c, c = Cardinality(Keys(model))
  PROVE  c \in Nat /\ g[c + 1] = g[c]
<1> DEFINE K == Keys(model)
           D == [n \in Nat |-> {key \in K : g[n][key] # {}}]
<1>1. \A n \in Nat : g[n] \in Known(model) /\ g[n + 1] = Round(model, env, g[n])
  BY DEF IsRounds
<1>2. \A n \in Nat : DOMAIN g[n] = K /\ g[n] = [key \in K |-> g[n][key]]
  BY <1>1 DEF Known
<1>3. \A n \in Nat : \A key \in K : g[n][key] = {} \/ g[n + 1][key] = g[n][key]
  <2> SUFFICES ASSUME NEW n \in Nat PROVE \A key \in K : g[n][key] = {} \/ g[n + 1][key] = g[n][key]
    OBVIOUS
  <2>1. Below(g[n], g[n + 1]) /\ DOMAIN g[n] = K
    BY <1>2, RoundsGrow
  <2> QED
    BY <2>1 DEF Below
<1>4. \A n \in Nat : n + 1 \in Nat
  OBVIOUS
<1>5. D \in [Nat -> SUBSET K] /\ \A n \in Nat : D[n] = {key \in K : g[n][key] # {}}
  OBVIOUS
<1>6. IsFiniteSet(K)
  BY KeysFinite
<1> HIDE DEF D, K
<1>7. \A n \in Nat : D[n] \subseteq D[n + 1]
  BY <1>3, <1>4, <1>5
<1>8. ASSUME NEW n \in Nat, D[n + 1] = D[n] PROVE g[n + 1] = g[n]
  <2>1. ASSUME NEW key \in K PROVE g[n + 1][key] = g[n][key]
    <3>1. g[n][key] = {} \/ g[n + 1][key] = g[n][key]
      BY <1>3
    <3>2. key \in D[n] <=> g[n][key] # {}
      BY <1>5
    <3>3. key \in D[n + 1] <=> g[n + 1][key] # {}
      BY <1>4, <1>5
    <3> QED
      BY <1>8, <3>1, <3>2, <3>3
  <2> QED
    BY <1>2, <1>4, <2>1
<1>9. ASSUME NEW n \in Nat, D[n + 1] = D[n] PROVE D[(n + 1) + 1] = D[n + 1]
  <2>1. g[n + 1] = g[n]
    BY <1>8, <1>9
  <2>2. g[(n + 1) + 1] = g[n + 1]
    BY <1>1, <1>4, <2>1
  <2>3. /\ D[(n + 1) + 1] = {key \in K : g[(n + 1) + 1][key] # {}}
        /\ D[n + 1] = {key \in K : g[n + 1][key] # {}}
    BY <1>4, <1>5
  <2> QED
    BY <2>2, <2>3
<1>10. Cardinality(K) \in Nat /\ D[Cardinality(K) + 1] = D[Cardinality(K)]
  BY <1>5, <1>6, <1>7, <1>9, GrowingStops
<1> QED
  BY <1>8, <1>10 DEF K

THEOREM MeansIs ==
  ASSUME NEW model \in Inputs, NEW env, IsState(env)
  PROVE  /\ IsMeans(Means(model, env)) /\ Single(Means(model, env))
         /\ DOMAIN Means(model, env) = Keys(model)
         /\ \A key \in Keys(model) :
              Means(model, env)[key] =
                IF key \in VarKeys(model) THEN Given(env, key)
                ELSE MeaningUnder(TextOf(model, key), Means(model, env))
<1>1. PICK g : IsRounds(model, env, g) /\ Means(model, env) = g[Cardinality(Keys(model))]
  BY MeansLaw
<1> DEFINE c == Cardinality(Keys(model))
<1>2. c \in Nat /\ g[c + 1] = g[c]
  BY <1>1, MeansFixed
<1>3. g[c] \in Known(model) /\ g[c + 1] = Round(model, env, g[c])
  BY <1>1, <1>2 DEF IsRounds
<1>4. Single(g[c])
  BY <1>1, <1>2, RoundsGrow
<1>5. IsMeans(g[c]) /\ DOMAIN g[c] = Keys(model)
  BY <1>3, KnownIs
<1> HIDE DEF c
<1>6. \A key \in Keys(model) :
        g[c][key] = IF key \in VarKeys(model) THEN Given(env, key)
                    ELSE MeaningUnder(TextOf(model, key), g[c])
  BY <1>2, <1>3 DEF Round
<1> QED
  BY <1>1, <1>4, <1>5, <1>6 DEF c

(* Every round is below the result.                                        *)
LEMMA RoundsBelow ==
  ASSUME NEW model \in Inputs, NEW env, IsState(env), NEW g, IsRounds(model, env, g),
         Means(model, env) = g[Cardinality(Keys(model))]
  PROVE  \A n \in Nat : n <= Cardinality(Keys(model)) => Below(g[n], Means(model, env))
<1> DEFINE c == Cardinality(Keys(model))
           good == {k \in Nat : k <= c => Below(g[c - k], g[c])}
<1>1. c \in Nat
  BY KeysFinite, FS_CardinalityType
<1>2. \A n \in Nat : Below(g[n], g[n + 1])
  BY RoundsGrow
<1> HIDE DEF c
<1>3. 0 \in good
  <2>1. c - 0 = c
    BY <1>1
  <2> QED
    BY <2>1 DEF Below
<1>4. ASSUME NEW k \in good PROVE k + 1 \in good
  <2> SUFFICES ASSUME k + 1 <= c PROVE Below(g[c - (k + 1)], g[c])
    OBVIOUS
  <2>1. k \in Nat /\ k <= c /\ c - (k + 1) \in Nat /\ (c - (k + 1)) + 1 = c - k
    BY <1>1
  <2>2. Below(g[c - (k + 1)], g[c - k])
    BY <1>2, <2>1
  <2>3. Below(g[c - k], g[c])
    BY <2>1
  <2> QED
    BY <2>2, <2>3 DEF Below
<1>5. good = Nat
  BY <1>3, <1>4, SetInduction
<1>6. ASSUME NEW n \in Nat, n <= c PROVE Below(g[n], g[c])
  <2>1. c - n \in Nat /\ c - n <= c /\ c - (c - n) = n
    BY <1>1, <1>6
  <2> QED
    BY <1>5, <2>1
<1> QED
  BY <1>6 DEF c

LEMMA TypesInIs ==
  ASSUME NEW model \in Inputs
  PROVE  /\ IsTypes(TypesIn(model))
         /\ DOMAIN TypesIn(model) = NamesIn(model.consts) \cup NamesIn(model.vars)
         /\ Distinct(model.consts \o model.vars) =>
              /\ \A i \in DOMAIN model.consts : TypesIn(model)[model.consts[i].name] = model.consts[i].type
              /\ \A i \in DOMAIN model.vars : TypesIn(model)[model.vars[i].name] = model.vars[i].type
<1> DEFINE a == model.consts
           b == model.vars
           all == a \o b
           A == [name : Name, type : Kinds, value : Source]
           B == [name : Name, type : {"bool", "int"}, lo : Source, hi : Source, init : Source]
<1>1. a \in Seq(A) /\ b \in Seq(B)
  BY InputIs
<1>2. (\A r \in A : r.type \in Kinds) /\ (\A r \in B : r.type \in Kinds)
  BY DEF Kinds
<1> HIDE DEF A, B, a, b
<1>3. /\ DOMAIN all = 1 .. Len(a) + Len(b) /\ Len(a) \in Nat /\ Len(b) \in Nat
      /\ DOMAIN a = 1 .. Len(a) /\ DOMAIN b = 1 .. Len(b)
      /\ \A i \in DOMAIN a : i \in DOMAIN all /\ all[i] = a[i]
      /\ \A i \in DOMAIN b : Len(a) + i \in DOMAIN all /\ all[Len(a) + i] = b[i]
  BY <1>1
<1>4. \A i \in DOMAIN all : (i \in DOMAIN a /\ all[i] = a[i]) \/ (\E j \in DOMAIN b : i = Len(a) + j /\ all[i] = b[j])
  <2>1. ASSUME NEW i \in DOMAIN all, i \notin DOMAIN a
        PROVE  i - Len(a) \in DOMAIN b /\ i = Len(a) + (i - Len(a))
    BY <1>3, <2>1
  <2> QED
    BY <1>3, <2>1
<1> HIDE DEF all
<1>5. NamesIn(all) = NamesIn(a) \cup NamesIn(b)
  <2>1. NamesIn(all) \subseteq NamesIn(a) \cup NamesIn(b)
    BY <1>4 DEF NamesIn
  <2>2. NamesIn(a) \subseteq NamesIn(all)
    BY <1>3 DEF NamesIn
  <2>3. NamesIn(b) \subseteq NamesIn(all)
    BY <1>3 DEF NamesIn
  <2> QED
    BY <2>1, <2>2, <2>3
<1>6. (\A i \in DOMAIN a : a[i].type \in Kinds) /\ (\A i \in DOMAIN b : b[i].type \in Kinds)
  <2>1. (\A i \in DOMAIN a : a[i] \in A) /\ (\A i \in DOMAIN b : b[i] \in B)
    BY <1>1
  <2> QED
    BY <1>2, <2>1
<1>7. \A i \in DOMAIN all : all[i].type \in Kinds
  BY <1>4, <1>6
<1>8. TypesIn(model) = [n \in NamesIn(all) |-> Named(all, n).type]
  BY DEF TypesIn, a, b, all
<1>9. ASSUME NEW n \in NamesIn(all) PROVE \E i \in DOMAIN all : Named(all, n) = all[i] /\ all[i].name = n
  BY DEF Named, NamesIn
<1>10. IsTypes(TypesIn(model)) /\ DOMAIN TypesIn(model) = NamesIn(a) \cup NamesIn(b)
  BY <1>5, <1>7, <1>8, <1>9 DEF IsTypes
<1>11. ASSUME Distinct(all), NEW i \in DOMAIN all PROVE TypesIn(model)[all[i].name] = all[i].type
  <2>1. all[i].name \in NamesIn(all)
    BY DEF NamesIn
  <2>2. Named(all, all[i].name) = all[i]
    BY <1>9, <1>11, <2>1 DEF Distinct
  <2> QED
    BY <1>8, <2>1, <2>2
<1>12. ASSUME Distinct(all)
       PROVE  /\ \A i \in DOMAIN a : TypesIn(model)[a[i].name] = a[i].type
              /\ \A i \in DOMAIN b : TypesIn(model)[b[i].name] = b[i].type
  <2>1. \A i \in DOMAIN all : TypesIn(model)[all[i].name] = all[i].type
    BY <1>11, <1>12
  <2> QED
    BY <1>3, <2>1
<1> QED
  BY <1>10, <1>12 DEF a, b, all

-----------------------------------------------------------------------------
(* Constants: the state of their resolution *)

ConstDecl == [name : Name, type : Kinds, value : Source]

(* The declarations of the input, with other values.                       *)
SameConsts(model, cs) ==
  /\ cs \in Seq(ConstDecl) /\ Len(cs) = Len(model.consts)
  /\ \A i \in DOMAIN cs : cs[i].name = model.consts[i].name /\ cs[i].type = model.consts[i].type

Declared(model) ==
  Distinct(model.consts \o model.vars) /\ DOMAIN model.overrides \subseteq NamesIn(model.consts)

(* The value of a declaration is the literal its constant stands for, or   *)
(* its text still.                                                         *)
Stated(model, d) ==
  /\ d.value = Literal(d.type, d.value.val) /\ d.value \in Within[1]
  /\ {d.value.val} = Closed(model, SourceOf(model, d.name))
Stands(model, d) == d.value = SourceOf(model, d.name) \/ Stated(model, d)

Resolves(model, res) ==
  \A n \in DOMAIN res :
    /\ n \in NamesIn(model.consts)
    /\ res[n] = Literal(TypesIn(model)[n], res[n].val) /\ res[n] \in Within[1]
    /\ {res[n].val} = Closed(model, SourceOf(model, n))

LEMMA NoState == IsState(<<>>) /\ \A key : Given(<<>>, key) = {}
  BY DEF IsState, Given

LEMMA ClosedRounds ==
  ASSUME NEW model, NEW g, IsRounds(model, <<>>, g)
  PROVE  /\ \A key \in Keys(model) : g[0][key] = {}
         /\ \A k \in Nat : \A key \in Keys(model) :
              g[k + 1][key] = IF key \in VarKeys(model) THEN {} ELSE MeaningUnder(TextOf(model, key), g[k])
<1> DEFINE env == <<>>
<1>1. IsRounds(model, env, g)
  OBVIOUS
<1>2. \A key : Given(env, key) = {}
  BY NoState
<1> HIDE DEF env
<1>3. \A key \in Keys(model) : g[0][key] = IF key \in VarKeys(model) THEN Given(env, key) ELSE {}
  BY <1>1, RoundsAt
<1>4. \A k \in Nat : \A key \in Keys(model) :
        g[k + 1][key] = IF key \in VarKeys(model) THEN Given(env, key) ELSE MeaningUnder(TextOf(model, key), g[k])
  BY <1>1, RoundsAt
<1> QED
  BY <1>2, <1>3, <1>4

LEMMA NamesApart ==
  ASSUME NEW model \in Inputs, Distinct(model.consts \o model.vars)
  PROVE  /\ \A i \in DOMAIN model.consts, j \in DOMAIN model.vars : model.consts[i].name # model.vars[j].name
         /\ NamesIn(model.consts) \cap NamesIn(model.vars) = {}
         /\ Distinct(model.consts) /\ Distinct(model.vars)
<1> DEFINE a == model.consts
           b == model.vars
           all == a \o b
           A == [name : Name, type : Kinds, value : Source]
           B == [name : Name, type : {"bool", "int"}, lo : Source, hi : Source, init : Source]
<1>1. a \in Seq(A) /\ b \in Seq(B)
  BY InputIs
<1>2. Distinct(all)
  OBVIOUS
<1> HIDE DEF A, B, a, b
<1>3. /\ Len(a) \in Nat /\ Len(b) \in Nat /\ DOMAIN a = 1 .. Len(a) /\ DOMAIN b = 1 .. Len(b)
      /\ \A i \in DOMAIN a : i \in DOMAIN all /\ all[i] = a[i]
      /\ \A i \in DOMAIN b : Len(a) + i \in DOMAIN all /\ all[Len(a) + i] = b[i]
  BY <1>1
<1> HIDE DEF all
<1>4. ASSUME NEW i \in DOMAIN a, NEW j \in DOMAIN b PROVE a[i].name # b[j].name
  <2>1. i # Len(a) + j
    BY <1>3
  <2> QED
    BY <1>2, <1>3, <2>1 DEF Distinct
<1>5. NamesIn(a) \cap NamesIn(b) = {}
  BY <1>4 DEF NamesIn
<1>6. Distinct(a)
  BY <1>2, <1>3 DEF Distinct
<1>7. ASSUME NEW i \in DOMAIN b, NEW j \in DOMAIN b, b[i].name = b[j].name PROVE i = j
  <2>1. Len(a) + i = Len(a) + j
    BY <1>2, <1>3, <1>7 DEF Distinct
  <2> QED
    BY <1>3, <2>1
<1>8. Distinct(b)
  BY <1>7 DEF Distinct
<1> QED
  BY <1>4, <1>5, <1>6, <1>8 DEF a, b

LEMMA ConstKey ==
  ASSUME NEW model \in Inputs, Distinct(model.consts \o model.vars), NEW n \in NamesIn(model.consts)
  PROVE  /\ <<"ident", n>> \in Keys(model) \ VarKeys(model)
         /\ TextOf(model, <<"ident", n>>) = SourceOf(model, n)
<1>1. <<"ident", n>> \in ConstKeys(model) /\ <<"ident", n>> \notin LabelKeys(model)
  BY DEF ConstKeys, LabelKeys
<1>2. <<"ident", n>> \notin VarKeys(model)
  BY NamesApart DEF VarKeys
<1> QED
  BY <1>1, <1>2 DEF Keys, TextOf

LEMMA ClosedIs ==
  ASSUME NEW model \in Inputs, Distinct(model.consts \o model.vars), NEW n \in NamesIn(model.consts),
         NEW means, means = Means(model, <<>>)
  PROVE  /\ <<"ident", n>> \in DOMAIN means
         /\ means[<<"ident", n>>] = Closed(model, SourceOf(model, n))
<1> DEFINE key == <<"ident", n>>
<1>1. key \in Keys(model) \ VarKeys(model) /\ TextOf(model, key) = SourceOf(model, n)
  BY ConstKey
<1>2. /\ DOMAIN means = Keys(model)
      /\ \A k \in Keys(model) :
           means[k] = IF k \in VarKeys(model) THEN Given(<<>>, k) ELSE MeaningUnder(TextOf(model, k), means)
  BY NoState, MeansIs
<1> QED
  BY <1>1, <1>2 DEF Closed, Meaning

LEMMA ConstIs ==
  ASSUME NEW model \in Inputs, NEW cs, SameConsts(model, cs)
  PROVE  /\ Len(cs) \in Nat /\ DOMAIN cs = 1 .. Len(cs) /\ DOMAIN cs = DOMAIN model.consts
         /\ NamesIn(cs) = NamesIn(model.consts)
         /\ \A i \in DOMAIN cs : /\ cs[i] \in ConstDecl /\ cs[i].type \in Kinds /\ cs[i].value \in Tree
                                 /\ cs[i].value \in Source /\ cs[i].name \in NamesIn(model.consts)
         /\ Distinct(model.consts \o model.vars) =>
              Distinct(cs) /\ \A i \in DOMAIN cs : TypesIn(model)[cs[i].name] = cs[i].type
<1>1. Len(cs) \in Nat /\ DOMAIN cs = 1 .. Len(cs) /\ \A i \in DOMAIN cs : cs[i] \in ConstDecl
  BY DEF SameConsts
<1> DEFINE a == model.consts
<1>2. Len(a) \in Nat /\ DOMAIN a = 1 .. Len(a)
  BY InputIs
<1>3. DOMAIN cs = DOMAIN a /\ \A i \in DOMAIN cs : cs[i].name = a[i].name /\ cs[i].type = a[i].type
  BY <1>1, <1>2 DEF SameConsts
<1>4. NamesIn(cs) = NamesIn(a)
  BY <1>3 DEF NamesIn
<1>5. \A d \in ConstDecl : d.type \in Kinds /\ d.value \in Source /\ d.value \in Tree
  BY InputIs DEF ConstDecl
<1>6. \A i \in DOMAIN cs : cs[i].name \in NamesIn(a)
  BY <1>3 DEF NamesIn
<1>7. ASSUME Distinct(model.consts \o model.vars)
      PROVE  Distinct(cs) /\ \A i \in DOMAIN cs : TypesIn(model)[cs[i].name] = cs[i].type
  <2>1. Distinct(a) /\ \A i \in DOMAIN a : TypesIn(model)[a[i].name] = a[i].type
    BY <1>7, NamesApart, TypesInIs
  <2> HIDE DEF a
  <2> QED
    BY <1>3, <2>1 DEF Distinct
<1> QED
  BY <1>1, <1>3, <1>4, <1>5, <1>6, <1>7

LEMMA StatedParts ==
  ASSUME NEW model, NEW d, Stated(model, d), d.type \in Kinds
  PROVE  IsLiteral(d.value) /\ d.value.op = d.type
  BY LiteralParts DEF Stated, IsLiteral

(* A value that stands for the text means what the text does.              *)
LEMMA StandsMeans ==
  ASSUME NEW model \in Inputs, NEW d \in ConstDecl, Stands(model, d)
  PROVE  MeaningUnder(d.value, Means(model, <<>>)) = Closed(model, SourceOf(model, d.name))
<1>1. d.type \in Kinds /\ d.value \in Tree
  BY InputIs DEF ConstDecl
<1>2. CASE d.value = SourceOf(model, d.name)
  BY <1>2 DEF Closed, Meaning
<1>3. CASE Stated(model, d)
  <2>1. IsLiteral(d.value)
    BY <1>1, <1>3, StatedParts
  <2>2. IsMeans(Means(model, <<>>))
    BY NoState, MeansIs
  <2>3. MeaningUnder(d.value, Means(model, <<>>)) = {d.value.val}
    BY <1>1, <2>1, <2>2, LiteralMeaning
  <2> QED
    BY <2>3, <1>3 DEF Stated
<1> QED
  BY <1>2, <1>3 DEF Stands

LEMMA ResolvesVals ==
  ASSUME NEW model \in Inputs, Distinct(model.consts \o model.vars), NEW res, Resolves(model, res)
  PROVE  /\ ValsTyped(res, TypesIn(model)) /\ Agrees(res, Means(model, <<>>))
<1>1. ASSUME NEW n \in DOMAIN res
      PROVE  n \in DOMAIN TypesIn(model) /\ res[n].op = TypesIn(model)[n] /\ IsLiteral(res[n]) /\ res[n] \in Within[1]
  <2>1. n \in NamesIn(model.consts) /\ res[n] = Literal(TypesIn(model)[n], res[n].val) /\ res[n] \in Within[1]
    BY DEF Resolves
  <2>2. n \in DOMAIN TypesIn(model) /\ IsTypes(TypesIn(model))
    BY <2>1, TypesInIs
  <2>3. TypesIn(model)[n] \in Kinds
    BY <2>2 DEF IsTypes
  <2>4. res[n].op = TypesIn(model)[n]
    BY <2>1, LiteralParts
  <2> QED
    BY <2>1, <2>2, <2>3, <2>4 DEF IsLiteral
<1>2. ASSUME NEW n \in DOMAIN res
      PROVE  /\ <<"ident", n>> \in DOMAIN Means(model, <<>>)
             /\ Means(model, <<>>)[<<"ident", n>>] = {res[n].val}
  <2>1. n \in NamesIn(model.consts) /\ {res[n].val} = Closed(model, SourceOf(model, n))
    BY DEF Resolves
  <2> QED
    BY <2>1, ClosedIs
<1> QED
  BY <1>1, <1>2 DEF ValsTyped, IsVals, Agrees

LEMMA ValidPromoted ==
  ASSUME NEW x \in Tree, NEW type \in Kinds, IsLiteral(x), Promotes(x.op, type)
  PROVE  Literal(type, x.val) \in Within[1]
<1>1. Height \in Nat /\ x \in Within[Height]
  BY HeightNat DEF Tree
<1>2. x.val \in Fraction /\ (x.op = "bool" => x.val \in {Zero, One})
  BY <1>1, ValidValue
<1> QED
  BY <1>2, LiteralWithin DEF Promotes

(* What a turn of the loop resolves is what the declaration means.         *)
LEMMA ResolvedMeans ==
  ASSUME NEW model \in Inputs, Distinct(model.consts \o model.vars), NEW res, Resolves(model, res),
         NEW d \in ConstDecl, Stands(model, d),
         NEW value, value = ResolvedValue(d.type, Fold(d.value, res)), value # Absent
  PROVE  Stated(model, [d EXCEPT !.value = value]) /\ value \in Source
<1> DEFINE x == Fold(d.value, res)
           M == Means(model, <<>>)
<1>1. d.type \in Kinds /\ d.value \in Tree /\ d = [name |-> d.name, type |-> d.type, value |-> d.value]
  BY InputIs DEF ConstDecl
<1>2. ValsTyped(res, TypesIn(model)) /\ Agrees(res, M) /\ IsMeans(M)
  BY ResolvesVals, NoState, MeansIs
<1>3. x \in Tree
  BY <1>1, <1>2, FoldTree DEF ValsTyped
<1>4. MeaningUnder(x, M) = Closed(model, SourceOf(model, d.name))
  <2>1. MeaningUnder(x, M) = MeaningUnder(d.value, M)
    BY <1>1, <1>2, FoldMeaning DEF ValsTyped, Agrees
  <2> QED
    BY <2>1, StandsMeans
<1> HIDE DEF x, M
<1>5. Promotes(x.op, d.type) /\ value = Literal(d.type, x.val)
  BY DEF ResolvedValue, Promotes, x
<1>6. IsLiteral(x)
  BY <1>1, <1>5 DEF IsLiteral, Promotes, Kinds
<1>7. MeaningUnder(x, M) = {x.val}
  BY <1>2, <1>3, <1>6, LiteralMeaning
<1>8. value \in Within[1] /\ value.val = x.val
  BY <1>1, <1>3, <1>5, <1>6, ValidPromoted, LiteralParts
<1>9. value \in Source
  BY <1>8, HeightNat, WithinMonotone DEF Source
<1>10. /\ [d EXCEPT !.value = value].value = value
       /\ [d EXCEPT !.value = value].type = d.type
       /\ [d EXCEPT !.value = value].name = d.name
  BY <1>1
<1> QED
  BY <1>4, <1>5, <1>7, <1>8, <1>9, <1>10 DEF Stated

(* A typed value that has a meaning once the resolved constants have one   *)
(* is resolved in its turn.                                                *)
Typed(model, d) == Promotes(Infer(d.value, TypesIn(model)), d.type)
Turned(d, res)  == d.name \in DOMAIN res \/ ResolvedValue(d.type, Fold(d.value, res)) = Absent

LEMMA AbsentIs == \A kind \in Kinds : \A val : Literal(kind, val) # Absent
<1>1. \A kind, val : Literal(kind, val).op = kind
  BY LiteralParts
<1>2. Absent.op = "none"
  BY DEF Absent, Node
<1>3. "none" \notin Kinds
  BY DEF Kinds
<1> QED
  BY <1>1, <1>2, <1>3

LEMMA LiteralResolves ==
  ASSUME NEW model \in Inputs, Distinct(model.consts \o model.vars), NEW res, Resolves(model, res),
         NEW d \in ConstDecl, Typed(model, d), IsLiteral(Fold(d.value, res))
  PROVE  ResolvedValue(d.type, Fold(d.value, res)) # Absent
<1> DEFINE x == Fold(d.value, res)
           T == TypesIn(model)
<1>1. d.type \in Kinds /\ d.value \in Tree
  BY InputIs DEF ConstDecl
<1>2. ValsTyped(res, T) /\ IsTypes(T)
  BY ResolvesVals, TypesInIs
<1>3. x \in Tree
  BY <1>1, <1>2, FoldTree DEF ValsTyped
<1>4. InferWith(d.value, T, "error") # "error" /\ Promotes(InferWith(d.value, T, "error"), d.type)
  BY <1>1 DEF Typed, Infer, Promotes, Kinds
<1>5. Promotes(InferWith(x, T, "error"), InferWith(d.value, T, "error"))
  BY <1>1, <1>2, <1>4, FoldType
<1>6. InferWith(x, T, "error") = x.op
  BY <1>2, <1>3, LiteralType
<1> HIDE DEF x, T
<1>7. x.op = d.type \/ (d.type = "float" /\ x.op = "int")
  BY <1>4, <1>5, <1>6 DEF Promotes
<1>8. ResolvedValue(d.type, x) = Literal(d.type, x.val)
  BY <1>7 DEF ResolvedValue
<1> QED
  BY <1>1, <1>8, AbsentIs DEF x

LEMMA MeaningTurned ==
  ASSUME NEW model \in Inputs, Distinct(model.consts \o model.vars), NEW res, Resolves(model, res),
         NEW d \in ConstDecl, Stands(model, d), Typed(model, d), Turned(d, res),
         NEW m, IsMeans(m), Single(m), Below(m, Means(model, <<>>)),
         \A name : <<"ident", name>> \in DOMAIN m /\ m[<<"ident", name>>] # {} => name \in DOMAIN res,
         MeaningUnder(SourceOf(model, d.name), m) # {}
  PROVE  d.name \in DOMAIN res
<1> DEFINE M == Means(model, <<>>)
           T == TypesIn(model)
<1>1. d.type \in Kinds /\ d.value \in Tree
  BY InputIs DEF ConstDecl
<1>2. ValsTyped(res, T) /\ Agrees(res, M) /\ IsTypes(T) /\ IsMeans(M)
  BY ResolvesVals, TypesInIs, NoState, MeansIs
<1>3. MeaningUnder(d.value, m) # {}
  <2>1. CASE d.value = SourceOf(model, d.name)
    BY <2>1
  <2>2. CASE Stated(model, d)
    <3>1. IsLiteral(d.value)
      BY <1>1, <2>2, StatedParts
    <3>2. MeaningUnder(d.value, m) = {d.value.val}
      BY <1>1, <3>1, LiteralMeaning
    <3> QED
      BY <3>2
  <2> QED
    BY <2>1, <2>2 DEF Stands
<1>4. InferWith(d.value, T, "error") # "error"
  BY <1>1 DEF Typed, Infer, Promotes, Kinds
<1>5. IsLiteral(Fold(d.value, res))
  <2> HIDE DEF M, T
  <2>1. Below(m, M)
    BY DEF M
  <2>2. \A x \in Tree : InferWith(x, T, "error") # "error" /\ MeaningUnder(x, m) # {} => IsLiteral(Fold(x, res))
    BY <1>2, <2>1, FoldCloses
  <2> QED
    BY <1>1, <1>3, <1>4, <2>2
<1> QED
  BY <1>5, LiteralResolves DEF Turned

(* When a round resolves nothing, every constant with a meaning has been   *)
(* resolved: by induction on the round in which it gets its meaning.       *)
LEMMA NothingLeft ==
  ASSUME NEW model \in Inputs, Distinct(model.consts \o model.vars), NEW res, Resolves(model, res),
         NEW cs, SameConsts(model, cs),
         \A i \in DOMAIN cs : Stands(model, cs[i]) /\ Typed(model, cs[i]) /\ Turned(cs[i], res)
  PROVE  \A n \in NamesIn(cs) : n \in DOMAIN res <=> Closed(model, SourceOf(model, n)) # {}
<1> DEFINE M == Means(model, <<>>)
           c == Cardinality(Keys(model))
<1>1. IsState(<<>>)
  BY NoState
<1>2. PICK g : IsRounds(model, <<>>, g) /\ M = g[c]
  BY <1>1, MeansLaw
<1>3. c \in Nat
  BY KeysFinite, FS_CardinalityType
<1>4. \A k \in Nat : Single(g[k]) /\ Below(g[k], g[k + 1])
  BY <1>1, <1>2, RoundsGrow
<1>5. \A k \in Nat : k <= c => Below(g[k], M)
  BY <1>1, <1>2, RoundsBelow
<1>6. \A k \in Nat : g[k] \in Known(model) /\ IsMeans(g[k]) /\ DOMAIN g[k] = Keys(model)
  BY <1>2, KnownIs DEF IsRounds
<1>7. NamesIn(cs) = NamesIn(model.consts) /\ \A i \in DOMAIN cs : cs[i] \in ConstDecl
  BY ConstIs
<1>8. ASSUME NEW name, <<"ident", name>> \in Keys(model), name \notin NamesIn(model.consts)
      PROVE  <<"ident", name>> \in VarKeys(model)
  BY <1>8 DEF Keys, ConstKeys, LabelKeys, VarKeys
<1>9. /\ \A key \in Keys(model) : g[0][key] = {}
      /\ \A k \in Nat : \A key \in Keys(model) :
           g[k + 1][key] = IF key \in VarKeys(model) THEN {} ELSE MeaningUnder(TextOf(model, key), g[k])
  <2> HIDE DEF M, c
  <2>1. IsRounds(model, <<>>, g)
    BY <1>2
  <2>2. \A key \in Keys(model) : g[0][key] = {}
    BY <2>1, ClosedRounds
  <2>3. \A k \in Nat : \A key \in Keys(model) :
          g[k + 1][key] = IF key \in VarKeys(model) THEN {} ELSE MeaningUnder(TextOf(model, key), g[k])
    BY <2>1, ClosedRounds
  <2> QED
    BY <2>2, <2>3
<1> DEFINE reaches(k) == \A name : <<"ident", name>> \in DOMAIN g[k] /\ g[k][<<"ident", name>>] # {} => name \in DOMAIN res
           good == {k \in Nat : k <= c => reaches(k)}
<1>10. 0 \in good
  BY <1>6, <1>9
<1>11. ASSUME NEW k \in good PROVE k + 1 \in good
  <2> SUFFICES ASSUME k + 1 <= c PROVE reaches(k + 1)
    OBVIOUS
  <2>1. k \in Nat /\ k + 1 \in Nat /\ k <= c
    BY <1>3
  <2>2. reaches(k) /\ IsMeans(g[k]) /\ Single(g[k]) /\ Below(g[k], M)
    BY <1>4, <1>5, <1>6, <2>1
  <2>3. SUFFICES ASSUME NEW name, <<"ident", name>> \in DOMAIN g[k + 1], g[k + 1][<<"ident", name>>] # {}
                 PROVE  name \in DOMAIN res
    OBVIOUS
  <2>4. /\ <<"ident", name>> \in Keys(model) /\ <<"ident", name>> \notin VarKeys(model)
        /\ MeaningUnder(TextOf(model, <<"ident", name>>), g[k]) # {}
    BY <1>6, <1>9, <2>1, <2>3
  <2>5. name \in NamesIn(model.consts)
    BY <1>8, <2>4
  <2>6. MeaningUnder(SourceOf(model, name), g[k]) # {}
    BY <2>4, <2>5, ConstKey
  <2>7. PICK i \in DOMAIN cs : cs[i].name = name
    BY <1>7, <2>5 DEF NamesIn
  <2> DEFINE d == cs[i]
             m == g[k]
  <2>8. d \in ConstDecl /\ Stands(model, d) /\ Typed(model, d) /\ Turned(d, res) /\ d.name = name
    BY <1>7, <2>7
  <2>9. /\ IsMeans(m) /\ Single(m) /\ Below(m, Means(model, <<>>))
        /\ \A nm : <<"ident", nm>> \in DOMAIN m /\ m[<<"ident", nm>>] # {} => nm \in DOMAIN res
        /\ MeaningUnder(SourceOf(model, d.name), m) # {}
    BY <2>2, <2>6, <2>8
  <2> HIDE DEF d, m, M
  <2>10. d.name \in DOMAIN res
    BY <2>8, <2>9, MeaningTurned
  <2> QED
    BY <2>8, <2>10
<1>12. reaches(c)
  <2>1. good = Nat
    <3>1. good \in SUBSET Nat
      OBVIOUS
    <3> HIDE DEF good
    <3> QED
      BY <1>10, <1>11, <3>1, SetInduction
  <2> QED
    BY <1>3, <2>1
<1>13. ASSUME NEW n \in NamesIn(cs), Closed(model, SourceOf(model, n)) # {} PROVE n \in DOMAIN res
  <2>1. <<"ident", n>> \in DOMAIN M /\ M[<<"ident", n>>] = Closed(model, SourceOf(model, n))
    BY <1>7, ClosedIs
  <2> QED
    BY <1>2, <1>12, <1>13, <2>1
<1>14. ASSUME NEW n \in DOMAIN res PROVE Closed(model, SourceOf(model, n)) # {}
  <2>1. {res[n].val} = Closed(model, SourceOf(model, n))
    BY DEF Resolves
  <2> QED
    BY <2>1
<1> QED
  BY <1>13, <1>14

-----------------------------------------------------------------------------
(* The steps of their resolution *)

ConstsOK(model, cs, res, pend, p) ==
  /\ SameConsts(model, cs) /\ Resolves(model, res)
  /\ \A i \in DOMAIN cs : cs[i].name \in DOMAIN res => cs[i].value = res[cs[i].name]
  /\ Declared(model) => \A i \in DOMAIN cs : Stands(model, cs[i]) \/ (p = 1 /\ cs[i].name \in pend)
  /\ p = 2 => \A i \in DOMAIN cs : Stated(model, cs[i])

(* A declaration with another value.                                       *)
With(d, value)     == [d EXCEPT !.value = value]
Put(cs, i, value)  == [cs EXCEPT ![i].value = value]

LEMMA Replaced ==
  ASSUME NEW model \in Inputs, NEW cs, SameConsts(model, cs), NEW i \in DOMAIN cs, NEW value \in Source,
         NEW to, to = Put(cs, i, value)
  PROVE  /\ SameConsts(model, to) /\ DOMAIN to = DOMAIN cs
         /\ \A j \in DOMAIN cs : to[j] = IF j = i THEN With(cs[i], value) ELSE cs[j]
         /\ to[i].value = value /\ to[i].name = cs[i].name /\ to[i].type = cs[i].type
         /\ \A j \in DOMAIN cs : to[j].name = cs[j].name /\ to[j].type = cs[j].type
<1>1. cs \in Seq(ConstDecl) /\ cs[i] \in ConstDecl
  BY ConstIs DEF SameConsts
<1> DEFINE d == With(cs[i], value)
<1>2. cs[i] \in [name : Name, type : Kinds, value : Source]
  BY <1>1 DEF ConstDecl
<1>3. /\ d \in [name : Name, type : Kinds, value : Source]
      /\ d.value = value /\ d.name = cs[i].name /\ d.type = cs[i].type
  BY <1>2 DEF With
<1>4. d \in ConstDecl
  BY <1>3 DEF ConstDecl
<1>5. to = [cs EXCEPT ![i] = d]
  BY DEF Put, With
<1> HIDE DEF d
<1>6. /\ to \in Seq(ConstDecl) /\ Len(to) = Len(cs) /\ DOMAIN to = DOMAIN cs
      /\ \A j \in DOMAIN cs : to[j] = IF j = i THEN d ELSE cs[j]
  BY <1>1, <1>4, <1>5
<1>7. \A j \in DOMAIN cs : to[j].name = cs[j].name /\ to[j].type = cs[j].type
  BY <1>3, <1>6
<1>8. SameConsts(model, to)
  BY <1>6, <1>7 DEF SameConsts
<1> QED
  BY <1>3, <1>6, <1>7, <1>8 DEF d

(* A declaration that gets a literal its constant stands for.              *)
LEMMA StateLiteral ==
  ASSUME NEW model \in Inputs, Declared(model), NEW cs, NEW res, NEW pend, NEW p \in {1, 2},
         ConstsOK(model, cs, res, pend, p), NEW i \in DOMAIN cs, NEW value \in Source,
         Stated(model, With(cs[i], value)),
         cs[i].name \in DOMAIN res => value = res[cs[i].name],
         NEW to, to = Put(cs, i, value),
         NEW pd, pd \in {pend, pend \ {cs[i].name}}
  PROVE  /\ ConstsOK(model, to, res, pd, p)
         /\ (\A j \in DOMAIN cs : Typed(model, cs[j])) => \A j \in DOMAIN to : Typed(model, to[j])
<1>1. SameConsts(model, cs)
  BY DEF ConstsOK
<1>2. /\ SameConsts(model, to) /\ DOMAIN to = DOMAIN cs
      /\ \A j \in DOMAIN cs : to[j] = IF j = i THEN With(cs[i], value) ELSE cs[j]
      /\ to[i].value = value /\ to[i].name = cs[i].name /\ to[i].type = cs[i].type
      /\ \A j \in DOMAIN cs : to[j].name = cs[j].name /\ to[j].type = cs[j].type
  BY <1>1, Replaced
<1>3. Stated(model, to[i])
  BY <1>2
<1>4. Distinct(cs)
  BY <1>1, ConstIs DEF Declared
<1>5. \A j \in DOMAIN cs : j # i => cs[j].name # cs[i].name
  BY <1>4 DEF Distinct
<1>6. \A j \in DOMAIN to : to[j].name \in DOMAIN res => to[j].value = res[to[j].name]
  BY <1>2 DEF ConstsOK
<1>7. \A j \in DOMAIN to : Stands(model, to[j]) \/ (p = 1 /\ to[j].name \in pd)
  <2> SUFFICES ASSUME NEW j \in DOMAIN to PROVE Stands(model, to[j]) \/ (p = 1 /\ to[j].name \in pd)
    OBVIOUS
  <2>1. CASE j = i
    BY <2>1, <1>3 DEF Stands
  <2>2. CASE j # i
    <3>1. to[j] = cs[j] /\ cs[j].name # cs[i].name /\ j \in DOMAIN cs
      BY <1>2, <1>5, <2>2
    <3>2. Stands(model, cs[j]) \/ (p = 1 /\ cs[j].name \in pend)
      BY <3>1 DEF ConstsOK
    <3> QED
      BY <3>1, <3>2
  <2> QED
    BY <2>1, <2>2
<1>8. p = 2 => \A j \in DOMAIN to : Stated(model, to[j])
  BY <1>2, <1>3 DEF ConstsOK
<1>9. ConstsOK(model, to, res, pd, p)
  BY <1>2, <1>6, <1>7, <1>8 DEF ConstsOK
<1>10. Typed(model, to[i])
  <2>1. to[i] \in ConstDecl /\ to[i].type \in Kinds /\ to[i].value \in Tree
    BY <1>2, ConstIs
  <2>2. IsLiteral(to[i].value) /\ to[i].value.op = to[i].type
    BY <1>3, <2>1, StatedParts
  <2>3. InferWith(to[i].value, TypesIn(model), "error") = to[i].value.op
    BY <2>1, <2>2, TypesInIs, LiteralType
  <2> QED
    BY <2>2, <2>3 DEF Typed, Infer, Promotes
<1> QED
  BY <1>2, <1>9, <1>10

LEMMA TextStands ==
  ASSUME NEW model \in Inputs, Declared(model), NEW name \in DOMAIN model.overrides,
         NEW type \in Kinds, NEW value, value = CliValue(model.overrides[name], type), value # Bad
  PROVE  /\ value = Literal(type, value.val) /\ value \in Within[1] /\ value \in Source
         /\ value.val = model.overrides[name].val
         /\ {value.val} = Closed(model, SourceOf(model, name))
<1> DEFINE text == model.overrides[name]
<1>1. text \in Tree /\ IsLiteral(text) /\ SourceOf(model, name) = text
  BY InputIs DEF SourceOf
<1>2. Closed(model, text) = {text.val}
  <2>1. IsMeans(Means(model, <<>>))
    BY NoState, MeansIs
  <2>2. MeaningUnder(text, Means(model, <<>>)) = {text.val}
    BY <1>1, <2>1, LiteralMeaning
  <2> QED
    BY <2>2 DEF Closed, Meaning
<1> HIDE DEF text
<1>3. Promotes(text.op, type) /\ value = Literal(type, text.val)
  BY DEF CliValue, Promotes, text
<1>4. value \in Within[1] /\ value.val = text.val
  BY <1>1, <1>3, ValidPromoted, LiteralParts
<1>5. value \in Source
  BY <1>4, HeightNat, WithinMonotone DEF Source
<1> QED
  BY <1>1, <1>2, <1>3, <1>4, <1>5 DEF text

(* An override that applies to the i-th declaration.                       *)
Applies(model, cs, pend, name, i, value) ==
  /\ pend \subseteq DOMAIN model.overrides /\ name \in pend
  /\ i \in DOMAIN cs /\ cs[i].name = name
  /\ value = CliValue(model.overrides[name], cs[i].type) /\ value # Bad

LEMMA OverrideStep ==
  ASSUME NEW model \in Inputs, Declared(model), NEW cs, NEW res, NEW pend, NEW p \in {1, 2},
         ConstsOK(model, cs, res, pend, p),
         NEW name, NEW i, NEW value, Applies(model, cs, pend, name, i, value)
  PROVE  ConstsOK(model, Put(cs, i, value), res, pend \ {name}, p)
<1>1. SameConsts(model, cs)
  BY DEF ConstsOK
<1>2. i \in DOMAIN cs /\ cs[i].name = name /\ name \in pend
  BY DEF Applies
<1>3. cs[i] \in ConstDecl /\ cs[i].type \in Kinds /\ TypesIn(model)[name] = cs[i].type
  BY <1>1, <1>2, ConstIs DEF Declared
<1>4. /\ name \in DOMAIN model.overrides
      /\ value = CliValue(model.overrides[name], cs[i].type) /\ value # Bad
  BY DEF Applies
<1>5. /\ value = Literal(cs[i].type, value.val) /\ value \in Within[1] /\ value \in Source
      /\ {value.val} = Closed(model, SourceOf(model, name))
  BY <1>3, <1>4, TextStands
<1>6. Stated(model, With(cs[i], value))
  <2> DEFINE d == With(cs[i], value)
  <2>1. cs[i] \in [name : Name, type : Kinds, value : Source]
    BY <1>3 DEF ConstDecl
  <2>2. d.value = value /\ d.name = name /\ d.type = cs[i].type
    BY <1>2, <2>1 DEF With
  <2> HIDE DEF d
  <2>3. Stated(model, d)
    BY <1>5, <2>2 DEF Stated
  <2> QED
    BY <2>3 DEF d
<1>7. ASSUME name \in DOMAIN res PROVE value = res[name]
  <2>1. res[name] = Literal(cs[i].type, res[name].val) /\ {res[name].val} = Closed(model, SourceOf(model, name))
    BY <1>3, <1>7 DEF ConstsOK, Resolves
  <2>2. res[name].val = value.val
    BY <1>5, <2>1
  <2> QED
    BY <1>5, <2>1, <2>2
<1>8. pend \ {name} \in {pend, pend \ {cs[i].name}}
  BY <1>2
<1> QED
  BY <1>2, <1>5, <1>6, <1>7, <1>8, StateLiteral

LEMMA ResolveStep ==
  ASSUME NEW model \in Inputs, Declared(model), NEW cs, NEW res, NEW p \in {1, 2},
         ConstsOK(model, cs, res, {}, p), NEW i \in DOMAIN cs, cs[i].name \notin DOMAIN res,
         NEW value, value = ResolvedValue(cs[i].type, Fold(cs[i].value, res)), value # Absent,
         NEW new, new = [n \in DOMAIN res \cup {cs[i].name} |-> IF n = cs[i].name THEN value ELSE res[n]],
         NEW to, to = Put(cs, i, value)
  PROVE  /\ ConstsOK(model, to, new, {}, p)
         /\ (\A j \in DOMAIN cs : Typed(model, cs[j])) => \A j \in DOMAIN to : Typed(model, to[j])
<1>1. SameConsts(model, cs) /\ Resolves(model, res) /\ Stands(model, cs[i])
  BY DEF ConstsOK
<1>2. /\ cs[i] \in ConstDecl /\ TypesIn(model)[cs[i].name] = cs[i].type
      /\ cs[i].name \in NamesIn(model.consts) /\ cs[i].type \in Kinds
  BY <1>1, ConstIs DEF Declared
<1>3. Stated(model, With(cs[i], value)) /\ value \in Source
  BY <1>1, <1>2, ResolvedMeans DEF Declared, With
<1>4. /\ ConstsOK(model, to, res, {}, p)
      /\ (\A j \in DOMAIN cs : Typed(model, cs[j])) => \A j \in DOMAIN to : Typed(model, to[j])
  BY <1>3, StateLiteral
<1>5. /\ DOMAIN to = DOMAIN cs /\ to[i].value = value /\ to[i].name = cs[i].name
      /\ \A j \in DOMAIN cs : to[j].name = cs[j].name
      /\ to[i] = With(cs[i], value) /\ to[i].type = cs[i].type
  BY <1>1, <1>3, Replaced
<1>6. Distinct(to)
  BY <1>4, ConstIs DEF ConstsOK, Declared
<1>7. Resolves(model, new)
  <2>1. Stated(model, to[i])
    BY <1>3, <1>5
  <2>2. /\ value = Literal(TypesIn(model)[cs[i].name], value.val) /\ value \in Within[1]
        /\ {value.val} = Closed(model, SourceOf(model, cs[i].name))
    BY <1>2, <1>5, <2>1 DEF Stated
  <2> QED
    BY <1>1, <1>2, <2>2 DEF Resolves
<1>8. \A j \in DOMAIN to : to[j].name \in DOMAIN new => to[j].value = new[to[j].name]
  <2> SUFFICES ASSUME NEW j \in DOMAIN to, to[j].name \in DOMAIN new PROVE to[j].value = new[to[j].name]
    OBVIOUS
  <2>1. CASE j = i
    BY <1>5, <2>1
  <2>2. CASE j # i
    <3>1. to[j].name # cs[i].name
      BY <1>5, <1>6, <2>2 DEF Distinct
    <3>2. to[j].name \in DOMAIN res /\ new[to[j].name] = res[to[j].name]
      BY <3>1
    <3> QED
      BY <1>4, <3>2 DEF ConstsOK
  <2> QED
    BY <2>1, <2>2
<1> QED
  BY <1>4, <1>7, <1>8 DEF ConstsOK

-----------------------------------------------------------------------------
(* The invariant of the resolution of constants *)

Stages == {"declare", "override", "resolve", "variables", "labels", "expand", "property",
           "done", "rejected", "panicked"}
Listed(s, n) == s = [i \in 1 .. n |-> s[i]]
Bound == Len(input.consts) + Len(input.vars) + Len(input.labels) + 1

ShapeInv ==
  /\ input \in Inputs
  /\ Listed(decls, Len(input.vars)) /\ Listed(labels, Len(input.labels))
  /\ pending \subseteq DOMAIN input.overrides
  /\ changed \in BOOLEAN /\ next \in 1 .. Bound /\ pass \in {1, 2} /\ pc \in Stages
  /\ pc # "rejected" => reason = ""
  /\ pc = "rejected" => reason # ""

ConstInv ==
  /\ pc # "declare" /\ reason # "declarations" => Declared(input)
  /\ ConstsOK(input, consts, resolved, pending, pass)
  /\ pc = "declare" => pending = DOMAIN input.overrides
  /\ pc = "resolve" => pending = {} /\ \A i \in DOMAIN consts : Typed(input, consts[i])
  /\ pc = "resolve" /\ ~changed => \A i \in DOMAIN consts : i < next => Turned(consts[i], resolved)
  /\ PastConstants => NamesIn(input.consts) \subseteq DOMAIN resolved
  /\ reason = "unresolved" =>
       \A n \in NamesIn(consts) : n \in DOMAIN resolved <=> Closed(input, SourceOf(input, n)) # {}

(* The inductive invariant of the resolution.                              *)
ResolveInv == ShapeInv /\ ConstInv

LEMMA ListedLen ==
  ASSUME NEW n \in Nat, NEW s, Listed(s, n)
  PROVE  Len(s) = n /\ DOMAIN s = 1 .. n
<1> DEFINE R == {s[i] : i \in 1 .. n}
<1>1. s \in [1 .. n -> R]
  BY DEF Listed
<1>2. s \in Seq(R) /\ DOMAIN s = 1 .. n
  BY <1>1
<1> HIDE DEF R
<1>3. Len(s) \in Nat /\ 1 .. Len(s) = 1 .. n
  BY <1>2
<1>4. Len(s) = n
  BY <1>3
<1> QED
  BY <1>2, <1>4

LEMMA SeqListed ==
  ASSUME NEW R, NEW s \in Seq(R)
  PROVE  Len(s) \in Nat /\ Listed(s, Len(s)) /\ DOMAIN s = 1 .. Len(s)
  BY DEF Listed

LEMMA Lengths ==
  ASSUME NEW model \in Inputs
  PROVE  /\ Len(model.consts) \in Nat /\ Len(model.vars) \in Nat /\ Len(model.labels) \in Nat
         /\ Listed(model.consts, Len(model.consts)) /\ Listed(model.vars, Len(model.vars))
         /\ Listed(model.labels, Len(model.labels))
         /\ DOMAIN model.consts = 1 .. Len(model.consts) /\ DOMAIN model.vars = 1 .. Len(model.vars)
         /\ DOMAIN model.labels = 1 .. Len(model.labels)
<1>1. Len(model.consts) \in Nat /\ Listed(model.consts, Len(model.consts)) /\ DOMAIN model.consts = 1 .. Len(model.consts)
  BY InputIs, SeqListed
<1>2. Len(model.vars) \in Nat /\ Listed(model.vars, Len(model.vars)) /\ DOMAIN model.vars = 1 .. Len(model.vars)
  BY InputIs, SeqListed
<1>3. Len(model.labels) \in Nat /\ Listed(model.labels, Len(model.labels)) /\ DOMAIN model.labels = 1 .. Len(model.labels)
  BY InputIs, SeqListed
<1> QED
  BY <1>1, <1>2, <1>3

LEMMA ThreeLengths == \A a, b, c \in Nat : a + b + c + 1 \in Nat /\ 1 \in 1 .. a + b + c + 1
  OBVIOUS

LEMMA NextBelow ==
  \A n, a, b, c \in Nat : n \in 1 .. a + b + c + 1 /\ (n <= a \/ n <= b \/ n <= c) => n + 1 \in 1 .. a + b + c + 1
  OBVIOUS

LEMMA BoundIs == ASSUME input \in Inputs PROVE Bound \in Nat /\ 1 \in 1 .. Bound
<1>1. Len(input.consts) \in Nat /\ Len(input.vars) \in Nat /\ Len(input.labels) \in Nat
  BY Lengths
<1> QED
  BY <1>1, ThreeLengths DEF Bound

LEMMA ShapeLengths ==
  ASSUME ShapeInv, SameConsts(input, consts)
  PROVE  /\ Len(consts) = Len(input.consts) /\ Len(decls) = Len(input.vars) /\ Len(labels) = Len(input.labels)
         /\ Len(consts) \in Nat /\ Len(decls) \in Nat /\ Len(labels) \in Nat
         /\ DOMAIN consts = 1 .. Len(consts) /\ DOMAIN decls = 1 .. Len(decls) /\ DOMAIN labels = 1 .. Len(labels)
         /\ Bound \in Nat /\ Bound = Len(consts) + Len(decls) + Len(labels) + 1
<1>1. /\ Len(input.consts) \in Nat /\ Len(input.vars) \in Nat /\ Len(input.labels) \in Nat
  BY Lengths DEF ShapeInv
<1>2. Len(consts) = Len(input.consts) /\ DOMAIN consts = 1 .. Len(consts)
  BY ConstIs DEF SameConsts, ShapeInv
<1>3. Len(decls) = Len(input.vars) /\ DOMAIN decls = 1 .. Len(decls)
  BY <1>1, ListedLen DEF ShapeInv
<1>4. Len(labels) = Len(input.labels) /\ DOMAIN labels = 1 .. Len(labels)
  BY <1>1, ListedLen DEF ShapeInv
<1>5. Bound = Len(consts) + Len(decls) + Len(labels) + 1
  BY <1>2, <1>3, <1>4 DEF Bound
<1>6. Bound \in Nat
  BY BoundIs DEF ShapeInv
<1> QED
  BY <1>1, <1>2, <1>3, <1>4, <1>5, <1>6

LEMMA ResolveInit == AnalysisInit => ResolveInv
<1> SUFFICES ASSUME AnalysisInit PROVE ResolveInv
  OBVIOUS
<1>1. /\ input \in Inputs /\ consts = input.consts /\ pending = DOMAIN input.overrides /\ resolved = <<>>
      /\ changed = FALSE /\ next = 1 /\ decls = input.vars /\ labels = input.labels
      /\ pass = 1 /\ pc = "declare" /\ reason = ""
  BY DEF AnalysisInit
<1>2. ShapeInv
  <2>2. next \in 1 .. Bound
    BY <1>1, BoundIs
  <2>3. Listed(decls, Len(input.vars)) /\ Listed(labels, Len(input.labels))
    BY <1>1, Lengths
  <2> QED
    BY <1>1, <2>2, <2>3 DEF ShapeInv, Stages
<1>3. SameConsts(input, consts)
  BY <1>1, InputIs DEF SameConsts, ConstDecl
<1>4. resolved = <<>> /\ DOMAIN resolved = {}
  <2>1. DOMAIN <<>> = {}
    OBVIOUS
  <2> QED
    BY <1>1, <2>1
<1>5. ASSUME Declared(input), NEW i \in DOMAIN consts
      PROVE  Stands(input, consts[i]) \/ (pass = 1 /\ consts[i].name \in pending)
  <2>1. Distinct(consts)
    BY <1>1, <1>5, NamesApart DEF Declared
  <2> DEFINE name == consts[i].name
  <2>2. Named(consts, name) = consts[i]
    <3>1. \E j \in DOMAIN consts : consts[j].name = name
      BY <1>1, <1>5
    <3> QED
      BY <2>1, <3>1 DEF Named, Distinct
  <2>3. name \notin DOMAIN input.overrides => SourceOf(input, name) = consts[i].value
    BY <1>1, <2>2 DEF SourceOf
  <2> HIDE DEF name
  <2>4. name \in DOMAIN input.overrides => name \in pending
    BY <1>1
  <2> QED
    BY <1>1, <2>3, <2>4 DEF Stands, name
<1>6. ConstsOK(input, consts, resolved, pending, pass)
  <2>1. Resolves(input, resolved)
    BY <1>4 DEF Resolves
  <2>2. pass = 1 /\ \A i \in DOMAIN consts : consts[i].name \notin DOMAIN resolved
    BY <1>1, <1>4
  <2>3. Declared(input) => \A i \in DOMAIN consts : Stands(input, consts[i]) \/ (pass = 1 /\ consts[i].name \in pending)
    BY <1>1, <1>5
  <2> QED
    BY <1>3, <2>1, <2>2, <2>3 DEF ConstsOK
<1> QED
  BY <1>1, <1>2, <1>4, <1>6 DEF ResolveInv, ConstInv, PastConstants

LEMMA RefuseKeeps ==
  ASSUME ResolveInv, NEW why, Refuse(why), why \notin {"", "unresolved"}, pc # "rejected",
         pc = "declare" => why = "declarations"
  PROVE  ResolveInv'
<1>1. /\ pc' = "rejected" /\ reason' = why /\ input' = input /\ consts' = consts /\ pending' = pending
      /\ resolved' = resolved /\ changed' = changed /\ next' = next /\ decls' = decls /\ labels' = labels
      /\ pass' = pass
  BY DEF Refuse, constVars, modelParts
<1>2. ShapeInv'
  BY <1>1 DEF ResolveInv, ShapeInv, Bound, Stages
<1>3. why # "declarations" => Declared(input)
  BY DEF ResolveInv, ConstInv, ShapeInv
<1>4. ConstInv'
  BY <1>1, <1>3 DEF ResolveInv, ConstInv, PastConstants
<1> QED
  BY <1>2, <1>4 DEF ResolveInv

LEMMA DeclareKeeps == ASSUME ResolveInv, Declare PROVE ResolveInv'
<1>1. pc = "declare" /\ SameConsts(input, consts)
  BY DEF Declare, ResolveInv, ConstInv, ConstsOK
<1>2. CASE Refuse("declarations")
  BY <1>1, <1>2, RefuseKeeps
<1>3. CASE ~Refuse("declarations")
  <2>1. /\ Distinct(input.consts \o input.vars) /\ pending \subseteq NamesIn(consts)
        /\ pc' = "override" /\ reason' = reason /\ input' = input
        /\ UNCHANGED <<constVars, modelParts, pass>>
    BY <1>3 DEF Declare, Goto
  <2>2. /\ consts' = consts /\ pending' = pending /\ resolved' = resolved /\ changed' = changed /\ next' = next
        /\ decls' = decls /\ labels' = labels /\ pass' = pass
    BY <2>1 DEF constVars, modelParts
  <2>3. ShapeInv'
    BY <1>1, <2>1, <2>2 DEF ResolveInv, ShapeInv, Bound, Stages
  <2>4. Declared(input)
    <3>1. DOMAIN input.overrides \subseteq NamesIn(input.consts)
      <4>1. NamesIn(consts) = NamesIn(input.consts)
        BY <1>1, ConstIs DEF ResolveInv, ShapeInv
      <4>2. pending = DOMAIN input.overrides
        BY <1>1 DEF ResolveInv, ConstInv
      <4> QED
        BY <2>1, <4>1, <4>2
    <3> QED
      BY <2>1, <3>1 DEF Declared
  <2>5. ConstInv'
    BY <1>1, <2>1, <2>2, <2>4 DEF ResolveInv, ShapeInv, ConstInv, PastConstants
  <2> QED
    BY <2>3, <2>5 DEF ResolveInv
<1> QED
  BY <1>2, <1>3

LEMMA OverrideKeeps == ASSUME ResolveInv, ApplyOverride PROVE ResolveInv'
<1>1. pc = "override" /\ reason = "" /\ Declared(input) /\ input \in Inputs /\ pass \in {1, 2}
  BY DEF ApplyOverride, ResolveInv, ConstInv, ShapeInv
<1>2. ConstsOK(input, consts, resolved, pending, pass) /\ SameConsts(input, consts)
  BY DEF ResolveInv, ConstInv, ConstsOK
<1>3. pending \subseteq DOMAIN input.overrides
  BY DEF ResolveInv, ShapeInv
<1>4. PICK name \in pending :
        LET i == CHOOSE i \in DOMAIN consts : consts[i].name = name
            value == CliValue(input.overrides[name], consts[i].type)
        IN IF value = Bad
           THEN Refuse("override")
           ELSE /\ consts' = [consts EXCEPT ![i].value = value]
                /\ pending' = pending \ {name}
                /\ Goto("override")
                /\ UNCHANGED <<resolved, changed, next, modelParts, pass>>
  BY DEF ApplyOverride
<1> DEFINE i == CHOOSE i \in DOMAIN consts : consts[i].name = name
           value == CliValue(input.overrides[name], consts[i].type)
<1>5. i \in DOMAIN consts /\ consts[i].name = name
  <2>1. name \in NamesIn(consts)
    BY <1>1, <1>2, <1>3, ConstIs DEF Declared
  <2> QED
    BY <2>1 DEF NamesIn
<1>6. CASE value = Bad
  <2>1. Refuse("override")
    BY <1>4, <1>6
  <2> QED
    BY <1>1, <2>1, RefuseKeeps
<1>7. CASE value # Bad
  <2>1. /\ consts' = [consts EXCEPT ![i].value = value]
        /\ pending' = pending \ {name} /\ pc' = "override" /\ reason' = reason /\ input' = input
        /\ UNCHANGED <<resolved, changed, next, modelParts, pass>>
    BY <1>4, <1>7 DEF Goto
  <2>2. /\ resolved' = resolved /\ changed' = changed /\ next' = next
        /\ decls' = decls /\ labels' = labels /\ pass' = pass /\ consts' = Put(consts, i, value)
    BY <2>1 DEF modelParts, Put
  <2> HIDE DEF i, value
  <2>3. ShapeInv'
    BY <1>1, <1>3, <2>1, <2>2 DEF ResolveInv, ShapeInv, Bound, Stages
  <2>4. ConstsOK(input, Put(consts, i, value), resolved, pending \ {name}, pass)
    <3>1. value = CliValue(input.overrides[name], consts[i].type)
      BY DEF value
    <3>2. value # Bad /\ Declared(input) /\ input \in Inputs /\ pass \in {1, 2}
      BY <1>1, <1>7
    <3>3. ConstsOK(input, consts, resolved, pending, pass)
      BY <1>2
    <3>4. Applies(input, consts, pending, name, i, value)
      BY <1>3, <1>5, <3>1, <3>2 DEF Applies
    <3> QED
      BY <3>2, <3>3, <3>4, OverrideStep
  <2>5. ConstInv'
    BY <1>1, <2>1, <2>2, <2>4 DEF ConstInv, PastConstants
  <2> QED
    BY <2>3, <2>5 DEF ResolveInv
<1> QED
  BY <1>6, <1>7

LEMMA CheckKeeps == ASSUME ResolveInv, CheckConstants PROVE ResolveInv'
<1>1. /\ pc = "override" /\ reason = "" /\ Declared(input) /\ input \in Inputs /\ pass \in {1, 2}
      /\ pending = {}
  BY DEF CheckConstants, ResolveInv, ConstInv, ShapeInv
<1>2. ConstsOK(input, consts, resolved, pending, pass) /\ SameConsts(input, consts)
  BY DEF ResolveInv, ConstInv, ConstsOK
<1>3. CASE Refuse("constants")
  BY <1>1, <1>3, RefuseKeeps
<1>4. CASE ~Refuse("constants")
  <2>1. /\ \A i \in DOMAIN consts :
             TypeOf(consts[i].value) = consts[i].type \/ (consts[i].type = "float" /\ TypeOf(consts[i].value) = "int")
        /\ pc' = "resolve" /\ reason' = reason /\ input' = input
        /\ next' = 1 /\ changed' = FALSE /\ resolved' = <<>>
        /\ UNCHANGED <<consts, pending, modelParts, pass>>
    BY <1>4 DEF CheckConstants, Goto
  <2>2. /\ consts' = consts /\ pending' = pending /\ decls' = decls /\ labels' = labels /\ pass' = pass
    BY <2>1 DEF modelParts
  <2>3. ShapeInv'
    <3>1. 1 \in 1 .. Bound
      BY <1>1, BoundIs
    <3> QED
      BY <1>1, <2>1, <2>2, <3>1 DEF ResolveInv, ShapeInv, Bound, Stages
  <2>4. \A i \in DOMAIN consts : Typed(input, consts[i])
    BY <2>1 DEF Typed, TypeOf, SymbolTypes, Promotes
  <2>5. ConstsOK(input, consts, <<>>, {}, pass)
    <3>1. DOMAIN <<>> = {}
      OBVIOUS
    <3>2. Resolves(input, <<>>) /\ \A i \in DOMAIN consts : consts[i].name \notin DOMAIN <<>>
      BY <3>1 DEF Resolves
    <3> QED
      BY <1>1, <1>2, <3>2 DEF ConstsOK
  <2>6. \A i \in DOMAIN consts : ~(i < 1)
    <3>1. DOMAIN consts = 1 .. Len(consts) /\ Len(consts) \in Nat
      BY <1>1, <1>2, ConstIs
    <3> QED
      BY <3>1
  <2>7. ConstInv'
    BY <1>1, <2>1, <2>2, <2>4, <2>5, <2>6 DEF ConstInv, PastConstants
  <2> QED
    BY <2>3, <2>7 DEF ResolveInv
<1> QED
  BY <1>3, <1>4

LEMMA ResolveKeeps == ASSUME ResolveInv, ResolveConst PROVE ResolveInv'
<1>1. /\ pc = "resolve" /\ reason = "" /\ Declared(input) /\ input \in Inputs /\ pass \in {1, 2}
      /\ pending = {} /\ next <= Len(consts)
      /\ \A i \in DOMAIN consts : Typed(input, consts[i])
  BY DEF ResolveConst, ResolveInv, ConstInv, ShapeInv
<1>2. ConstsOK(input, consts, resolved, {}, pass) /\ SameConsts(input, consts)
  BY <1>1 DEF ResolveInv, ConstInv, ConstsOK
<1> DEFINE decl == consts[next]
           value == ResolvedValue(decl.type, Fold(decl.value, resolved))
           new == [n \in DOMAIN resolved \cup {decl.name} |-> IF n = decl.name THEN value ELSE resolved[n]]
<1>3. /\ next' = next + 1 /\ pc' = "resolve" /\ reason' = reason /\ input' = input
      /\ pending' = pending /\ decls' = decls /\ labels' = labels /\ pass' = pass
  BY DEF ResolveConst, Goto, modelParts
<1>4. IF decl.name \in DOMAIN resolved \/ value = Absent
      THEN consts' = consts /\ resolved' = resolved /\ changed' = changed
      ELSE consts' = Put(consts, next, value) /\ resolved' = new /\ changed' = TRUE
  BY DEF ResolveConst, Put
<1>5. /\ Len(consts) \in Nat /\ DOMAIN consts = 1 .. Len(consts) /\ Len(decls) \in Nat /\ Len(labels) \in Nat
      /\ Bound = Len(consts) + Len(decls) + Len(labels) + 1
  BY <1>2, ShapeLengths DEF ResolveInv
<1>6. next \in 1 .. Bound /\ changed \in BOOLEAN
  BY DEF ResolveInv, ShapeInv
<1>7. next + 1 \in 1 .. Bound /\ next \in DOMAIN consts /\ next \in Nat
  <2>1. next \in Nat /\ next >= 1
    BY <1>6
  <2>2. next \in DOMAIN consts
    <3>1. \A n, a \in Nat : n >= 1 /\ n <= a => n \in 1 .. a
      OBVIOUS
    <3> QED
      BY <1>1, <1>5, <2>1, <3>1
  <2> QED
    BY <1>1, <1>5, <1>6, <2>1, <2>2, NextBelow
<1>8. ShapeInv'
  <2>1. changed' \in BOOLEAN
    BY <1>4, <1>6
  <2> QED
    BY <1>1, <1>3, <1>7, <2>1 DEF ResolveInv, ShapeInv, Bound, Stages
<1>9. CASE decl.name \in DOMAIN resolved \/ value = Absent
  <2>1. consts' = consts /\ resolved' = resolved /\ changed' = changed
    BY <1>4, <1>9
  <2>2. Turned(consts[next], resolved)
    BY <1>9 DEF Turned
  <2>3. ~changed => \A i \in DOMAIN consts : i < next => Turned(consts[i], resolved)
    BY <1>1 DEF ResolveInv, ConstInv
  <2>4. ~changed => \A i \in DOMAIN consts : i < next + 1 => Turned(consts[i], resolved)
    <3>1. \A i \in DOMAIN consts : i < next + 1 => i < next \/ i = next
      BY <1>5, <1>7
    <3> QED
      BY <2>2, <2>3, <3>1
  <2>5. ConstInv'
    BY <1>1, <1>2, <1>3, <2>1, <2>4 DEF ConstInv, PastConstants
  <2> QED
    BY <1>8, <2>5 DEF ResolveInv
<1>10. CASE ~(decl.name \in DOMAIN resolved \/ value = Absent)
  <2>1. consts' = Put(consts, next, value) /\ resolved' = new /\ changed' = TRUE
    BY <1>4, <1>10
  <2>2. /\ ConstsOK(input, Put(consts, next, value), new, {}, pass)
        /\ \A j \in DOMAIN Put(consts, next, value) : Typed(input, Put(consts, next, value)[j])
    <3>1. consts[next].name \notin DOMAIN resolved /\ value # Absent
      BY <1>10
    <3> DEFINE to == Put(consts, next, value)
    <3>2. ConstsOK(input, to, new, {}, pass) /\ \A j \in DOMAIN to : Typed(input, to[j])
      <4> DEFINE i == next
      <4>1. i \in DOMAIN consts /\ consts[i].name \notin DOMAIN resolved
        BY <1>7, <3>1
      <4>2. value = ResolvedValue(consts[i].type, Fold(consts[i].value, resolved))
        OBVIOUS
      <4>3. new = [n \in DOMAIN resolved \cup {consts[i].name} |-> IF n = consts[i].name THEN value ELSE resolved[n]]
        OBVIOUS
      <4>4. to = Put(consts, i, value)
        OBVIOUS
      <4>5. value # Absent /\ Declared(input) /\ input \in Inputs /\ pass \in {1, 2}
        BY <1>1, <3>1
      <4>6. \A j \in DOMAIN consts : Typed(input, consts[j])
        BY <1>1
      <4> HIDE DEF value, new, to, i
      <4>7. ConstsOK(input, to, new, {}, pass) /\ ((\A j \in DOMAIN consts : Typed(input, consts[j])) => \A j \in DOMAIN to : Typed(input, to[j]))
        BY <1>2, <4>1, <4>2, <4>3, <4>4, <4>5, ResolveStep
      <4> QED
        BY <4>6, <4>7
    <3> QED
      BY <3>2
  <2> HIDE DEF new, value
  <2>3. ConstInv'
    BY <1>1, <1>3, <2>1, <2>2 DEF ConstInv, PastConstants
  <2> QED
    BY <1>8, <2>3 DEF ResolveInv
<1> QED
  BY <1>9, <1>10

Later == {"variables", "labels", "expand", "property", "done", "panicked"}

LEMMA LaterKeeps ==
  ASSUME ResolveInv, pc \in Later, pc' \in Later, reason' = reason, changed' \in BOOLEAN, next' \in 1 .. Bound,
         input' = input, consts' = consts, pending' = pending, resolved' = resolved, pass' = pass,
         Listed(decls', Len(input.vars)), Listed(labels', Len(input.labels))
  PROVE  ResolveInv'
<1>1. reason = ""
  BY DEF ResolveInv, ShapeInv, Later
<1>2. ShapeInv'
  BY <1>1 DEF ResolveInv, ShapeInv, Bound, Stages, Later
<1>3. Declared(input) /\ NamesIn(input.consts) \subseteq DOMAIN resolved
  BY <1>1 DEF ResolveInv, ConstInv, PastConstants, Later
<1>4. pc' \notin {"declare", "resolve"} /\ reason' # "unresolved"
  BY <1>1 DEF Later
<1>5. ConstInv'
  BY <1>3, <1>4 DEF ResolveInv, ConstInv
<1> QED
  BY <1>2, <1>5 DEF ResolveInv

LEMMA PutListed ==
  ASSUME NEW n, NEW s, Listed(s, n), NEW i, NEW e
  PROVE  Listed([s EXCEPT ![i] = e], n)
  BY DEF Listed

LEMMA LaterLengths ==
  ASSUME ResolveInv
  PROVE  /\ Len(input.vars) \in Nat /\ Len(input.labels) \in Nat /\ Len(consts) \in Nat
         /\ Len(decls) = Len(input.vars) /\ Len(labels) = Len(input.labels)
         /\ DOMAIN decls = 1 .. Len(input.vars) /\ DOMAIN labels = 1 .. Len(input.labels)
         /\ Bound = Len(consts) + Len(decls) + Len(labels) + 1 /\ 1 \in 1 .. Bound
         /\ next \in Nat /\ next \in 1 .. Bound
         /\ next <= Len(decls) \/ next <= Len(labels) => next + 1 \in 1 .. Bound
<1>1. SameConsts(input, consts) /\ input \in Inputs /\ next \in 1 .. Bound
  BY DEF ResolveInv, ConstInv, ConstsOK, ShapeInv
<1>2. /\ Len(consts) = Len(input.consts) /\ Len(decls) = Len(input.vars) /\ Len(labels) = Len(input.labels)
      /\ Len(consts) \in Nat /\ Len(decls) \in Nat /\ Len(labels) \in Nat
      /\ DOMAIN consts = 1 .. Len(consts) /\ DOMAIN decls = 1 .. Len(decls) /\ DOMAIN labels = 1 .. Len(labels)
      /\ Bound \in Nat /\ Bound = Len(consts) + Len(decls) + Len(labels) + 1
  BY <1>1, ShapeLengths DEF ResolveInv
<1>3. 1 \in 1 .. Bound
  BY <1>1, BoundIs
<1>4. next \in Nat
  <2>1. \A b \in Nat : \A n \in 1 .. b : n \in Nat
    OBVIOUS
  <2> QED
    BY <1>1, <1>2, <2>1
<1>5. next <= Len(decls) \/ next <= Len(labels) => next + 1 \in 1 .. Bound
  BY <1>1, <1>2, <1>4, NextBelow
<1> QED
  BY <1>1, <1>2, <1>3, <1>4, <1>5

LEMMA EndRoundKeeps == ASSUME ResolveInv, EndRound PROVE ResolveInv'
<1>1. /\ pc = "resolve" /\ reason = "" /\ Declared(input) /\ input \in Inputs /\ pass \in {1, 2}
      /\ pending = {} /\ next > Len(consts) /\ changed \in BOOLEAN
      /\ \A i \in DOMAIN consts : Typed(input, consts[i])
      /\ ~changed => \A i \in DOMAIN consts : i < next => Turned(consts[i], resolved)
  BY DEF EndRound, ResolveInv, ConstInv, ShapeInv
<1>2. ConstsOK(input, consts, resolved, {}, pass) /\ SameConsts(input, consts) /\ Resolves(input, resolved)
  BY <1>1 DEF ResolveInv, ConstInv, ConstsOK
<1>3. CASE ~AllResolved /\ ~changed
  <2>1. Refuse("unresolved")
    BY <1>3 DEF EndRound
  <2>2. /\ pc' = "rejected" /\ reason' = "unresolved" /\ input' = input /\ consts' = consts /\ pending' = pending
        /\ resolved' = resolved /\ changed' = changed /\ next' = next /\ decls' = decls /\ labels' = labels
        /\ pass' = pass
    BY <2>1 DEF Refuse, constVars, modelParts
  <2>3. ShapeInv'
    BY <2>2 DEF ResolveInv, ShapeInv, Bound, Stages
  <2>4. \A i \in DOMAIN consts : i < next
    <3>1. Len(consts) \in Nat /\ DOMAIN consts = 1 .. Len(consts) /\ next \in Int
      <4>1. next \in Nat
        BY LaterLengths
      <4>2. Len(consts) \in Nat /\ DOMAIN consts = 1 .. Len(consts)
        BY <1>1, <1>2, ConstIs
      <4> QED
        BY <4>1, <4>2
    <3>2. \A n \in Int, a \in Nat : n > a => \A i \in 1 .. a : i < n
      OBVIOUS
    <3> QED
      BY <1>1, <3>1, <3>2
  <2>5. \A i \in DOMAIN consts : Stands(input, consts[i]) /\ Typed(input, consts[i]) /\ Turned(consts[i], resolved)
    BY <1>1, <1>2, <1>3, <2>4 DEF ConstsOK
  <2>6. \A n \in NamesIn(consts) : n \in DOMAIN resolved <=> Closed(input, SourceOf(input, n)) # {}
    BY <1>1, <1>2, <2>5, NothingLeft DEF Declared
  <2>7. ConstInv'
    BY <1>1, <1>2, <2>2, <2>6 DEF ConstInv, PastConstants
  <2> QED
    BY <2>3, <2>7 DEF ResolveInv
<1>4. CASE ~(~AllResolved /\ ~changed)
  <2>1. NextRound(~AllResolved)
    BY <1>4 DEF EndRound
  <2>2. /\ next' = 1 /\ changed' = FALSE /\ input' = input /\ reason' = reason
        /\ consts' = consts /\ pending' = pending /\ resolved' = resolved
        /\ decls' = decls /\ labels' = labels /\ pass' = pass
    BY <2>1 DEF NextRound, Goto, modelParts
  <2>3. pc' = IF ~AllResolved THEN "resolve" ELSE IF pass = 1 THEN "variables" ELSE "labels"
    BY <2>1 DEF NextRound, Goto
  <2>4. ShapeInv'
    <3>1. 1 \in 1 .. Bound
      BY <1>1, BoundIs
    <3> QED
      BY <1>1, <2>2, <2>3, <3>1 DEF ResolveInv, ShapeInv, Bound, Stages
  <2>5. AllResolved => NamesIn(input.consts) \subseteq DOMAIN resolved
    BY <1>1, <1>2, ConstIs DEF AllResolved
  <2>6. \A i \in DOMAIN consts : ~(i < 1)
    <3>1. DOMAIN consts = 1 .. Len(consts) /\ Len(consts) \in Nat
      BY <1>1, <1>2, ConstIs
    <3> QED
      BY <3>1
  <2>7. CASE AllResolved
    <3>1. pc' \in {"variables", "labels"}
      BY <2>3, <2>7
    <3>2. ConstInv'
      BY <1>1, <1>2, <2>2, <2>5, <2>7, <3>1 DEF ConstInv
    <3> QED
      BY <2>4, <3>2 DEF ResolveInv
  <2>8. CASE ~AllResolved
    <3>1. pc' = "resolve"
      BY <2>3, <2>8
    <3>2. ConstInv'
      BY <1>1, <1>2, <2>2, <2>6, <3>1 DEF ConstInv, PastConstants
    <3> QED
      BY <2>4, <3>2 DEF ResolveInv
  <2> QED
    BY <2>7, <2>8
<1> QED
  BY <1>3, <1>4

LEMMA VariableKeeps == ASSUME ResolveInv, FoldVariable PROVE ResolveInv'
<1>1. pc = "variables" /\ next <= Len(decls) /\ pc \in Later
  BY DEF FoldVariable, Later
<1>2. changed \in BOOLEAN /\ Listed(decls, Len(input.vars)) /\ Listed(labels, Len(input.labels))
  BY DEF ResolveInv, ShapeInv
<1>3. CASE Refuse("variables")
  BY <1>1, <1>3, RefuseKeeps
<1>4. CASE ~Refuse("variables")
  <2> DEFINE d == FoldDecl(decls[next])
  <2>1. \/ pc' = "panicked" /\ UNCHANGED <<input, reason, constVars, modelParts, pass>>
        \/ /\ decls' = [decls EXCEPT ![next] = d]
           /\ next' = next + 1 /\ pc' = "variables"
           /\ UNCHANGED <<input, reason, consts, pending, resolved, changed, labels, pass>>
    BY <1>4 DEF FoldVariable, Goto
  <2> HIDE DEF d
  <2>2. CASE pc' = "panicked" /\ UNCHANGED <<input, reason, constVars, modelParts, pass>>
    BY <1>1, <1>2, <2>2, LaterKeeps, LaterLengths DEF Later, constVars, modelParts
  <2>3. CASE /\ decls' = [decls EXCEPT ![next] = d]
             /\ next' = next + 1 /\ pc' = "variables"
             /\ UNCHANGED <<input, reason, consts, pending, resolved, changed, labels, pass>>
    <3>1. Listed(decls', Len(input.vars)) /\ Listed(labels', Len(input.labels))
      BY <1>2, <2>3, PutListed
    <3>2. next' \in 1 .. Bound /\ pc' \in Later /\ changed' \in BOOLEAN
      BY <1>1, <1>2, <2>3, LaterLengths DEF Later
    <3>3. /\ reason' = reason /\ input' = input /\ consts' = consts /\ pending' = pending
          /\ resolved' = resolved /\ pass' = pass
      BY <2>3
    <3> QED
      BY <1>1, <3>1, <3>2, <3>3, LaterKeeps
  <2> QED
    BY <2>1, <2>2, <2>3
<1> QED
  BY <1>3, <1>4

LEMMA CommandKeeps == ASSUME ResolveInv, FoldCommand PROVE ResolveInv'
<1>1. pc = "variables" /\ pc \in Later
  BY DEF FoldCommand, Later
<1>2. changed \in BOOLEAN /\ Listed(decls, Len(input.vars)) /\ Listed(labels, Len(input.labels))
  BY DEF ResolveInv, ShapeInv
<1>3. CASE Refuse("command")
  BY <1>1, <1>3, RefuseKeeps
<1>4. CASE ~Refuse("command")
  <2>1. pc' = "labels" /\ UNCHANGED <<input, reason, constVars, decls, labels, pass>>
    BY <1>4 DEF FoldCommand, Goto
  <2> QED
    BY <1>1, <1>2, <2>1, LaterKeeps, LaterLengths DEF Later, constVars
<1> QED
  BY <1>3, <1>4

LEMMA LabelsKeep == ASSUME ResolveInv, FoldLabels PROVE ResolveInv'
<1>1. pc = "labels" /\ pc \in Later
  BY DEF FoldLabels, Later
<1>2. changed \in BOOLEAN /\ Listed(decls, Len(input.vars)) /\ Listed(labels, Len(input.labels))
  BY DEF ResolveInv, ShapeInv
<1>3. CASE Refuse("labels")
  BY <1>1, <1>3, RefuseKeeps
<1>4. CASE ~Refuse("labels")
  <2>1. /\ labels' = [i \in DOMAIN labels |-> [labels[i] EXCEPT !.expr = Folded(@)]]
        /\ next' = 1 /\ pc' = "expand"
        /\ UNCHANGED <<input, reason, consts, pending, resolved, changed, decls, pass>>
    BY <1>4 DEF FoldLabels, Goto
  <2>2. Listed(labels', Len(input.labels))
    <3>1. DOMAIN labels = 1 .. Len(input.labels)
      BY LaterLengths
    <3> QED
      BY <2>1, <3>1 DEF Listed
  <2>3. next' \in 1 .. Bound
    BY <2>1, LaterLengths
  <2> QED
    BY <1>1, <1>2, <2>1, <2>2, <2>3, LaterKeeps DEF Later
<1> QED
  BY <1>3, <1>4

LEMMA ExpandKeeps == ASSUME ResolveInv, ExpandLabel PROVE ResolveInv'
<1>1. pc = "expand" /\ next <= Len(labels) /\ pc \in Later
  BY DEF ExpandLabel, Later
<1>2. changed \in BOOLEAN /\ Listed(decls, Len(input.vars)) /\ Listed(labels, Len(input.labels))
  BY DEF ResolveInv, ShapeInv
<1>3. CASE Refuse("labels")
  BY <1>1, <1>3, RefuseKeeps
<1>4. CASE ~Refuse("labels")
  <2> DEFINE x == Expand(labels[next].expr, bodies)
             to == [labels[next] EXCEPT !.expr = x]
  <2>1. /\ labels' = [labels EXCEPT ![next] = to]
        /\ next' = next + 1 /\ pc' = "expand"
        /\ UNCHANGED <<input, reason, consts, pending, resolved, changed, decls, pass>>
    BY <1>4 DEF ExpandLabel, Goto
  <2> HIDE DEF to
  <2>2. Listed(labels', Len(input.labels))
    BY <1>2, <2>1, PutListed
  <2>3. next' \in 1 .. Bound
    BY <1>1, <2>1, LaterLengths
  <2> QED
    BY <1>1, <1>2, <2>1, <2>2, <2>3, LaterKeeps DEF Later
<1> QED
  BY <1>3, <1>4

(* The second pass starts from constants that are all stated.              *)
LEMMA FinishKeeps == ASSUME ResolveInv, FinishLabels PROVE ResolveInv'
<1>1. pc = "expand" /\ pc \in Later
  BY DEF FinishLabels, Later
<1>2. changed \in BOOLEAN /\ Listed(decls, Len(input.vars)) /\ Listed(labels, Len(input.labels))
  BY DEF ResolveInv, ShapeInv
<1>3. /\ UNCHANGED <<input, reason, consts, resolved, changed, next, decls, labels>>
      /\ IF pass = 1 THEN pass' = 2 /\ pending' = DOMAIN input.overrides /\ pc' = "override"
         ELSE pass' = pass /\ pending' = pending /\ pc' = "property"
  BY DEF FinishLabels, Goto
<1>4. CASE pass = 1
  <2>1. pass' = 2 /\ pending' = DOMAIN input.overrides /\ pc' = "override"
    BY <1>3, <1>4
  <2>2. reason = "" /\ Declared(input) /\ input \in Inputs /\ NamesIn(input.consts) \subseteq DOMAIN resolved
    BY <1>1 DEF ResolveInv, ConstInv, ShapeInv, PastConstants
  <2>3. ConstsOK(input, consts, resolved, pending, pass) /\ SameConsts(input, consts)
    BY DEF ResolveInv, ConstInv, ConstsOK
  <2>4. ShapeInv'
    BY <1>1, <1>3, <2>1, <2>2 DEF ResolveInv, ShapeInv, Bound, Stages
  <2>5. ASSUME NEW i \in DOMAIN consts PROVE Stated(input, consts[i])
    <3>1. /\ consts[i].name \in DOMAIN resolved /\ TypesIn(input)[consts[i].name] = consts[i].type
      BY <2>2, <2>3, ConstIs DEF Declared
    <3>2. consts[i].value = resolved[consts[i].name]
      BY <2>3, <3>1 DEF ConstsOK
    <3> QED
      BY <2>3, <3>1, <3>2 DEF Stated, ConstsOK, Resolves
  <2>6. ConstsOK(input, consts, resolved, DOMAIN input.overrides, 2)
    BY <2>3, <2>5 DEF ConstsOK, Stands
  <2>7. ConstInv'
    BY <1>3, <2>1, <2>2, <2>6 DEF ConstInv, PastConstants
  <2> QED
    BY <2>4, <2>7 DEF ResolveInv
<1>5. CASE pass # 1
  <2>1. pc' \in Later /\ next' \in 1 .. Bound
    BY <1>3, <1>5, LaterLengths DEF Later
  <2> QED
    BY <1>1, <1>2, <1>3, <1>5, <2>1, LaterKeeps
<1> QED
  BY <1>4, <1>5

LEMMA PropertyKeeps == ASSUME ResolveInv, AnalyzeProperty PROVE ResolveInv'
<1>1. pc = "property" /\ pc \in Later
  BY DEF AnalyzeProperty, Later
<1>2. changed \in BOOLEAN /\ Listed(decls, Len(input.vars)) /\ Listed(labels, Len(input.labels))
  BY DEF ResolveInv, ShapeInv
<1>3. CASE Refuse("property")
  BY <1>1, <1>3, RefuseKeeps
<1>4. CASE ~Refuse("property")
  <2>1. pc' = "done" /\ UNCHANGED <<input, reason, constVars, decls, labels, pass>>
    BY <1>4 DEF AnalyzeProperty, Goto
  <2> QED
    BY <1>1, <1>2, <2>1, LaterKeeps, LaterLengths DEF Later, constVars
<1> QED
  BY <1>3, <1>4

LEMMA ResolveNext == ResolveInv /\ [AnalysisNext]_vars => ResolveInv'
<1> SUFFICES ASSUME ResolveInv, [AnalysisNext]_vars PROVE ResolveInv'
  OBVIOUS
<1>1. CASE AnalysisNext
  BY <1>1, DeclareKeeps, OverrideKeeps, CheckKeeps, ResolveKeeps, EndRoundKeeps, VariableKeeps, CommandKeeps,
     LabelsKeep, ExpandKeeps, FinishKeeps, PropertyKeeps DEF AnalysisNext
<1>2. CASE UNCHANGED vars
  BY <1>2 DEF vars, ResolveInv, ShapeInv, ConstInv, Bound, PastConstants
<1> QED
  BY <1>1, <1>2

THEOREM ResolveInvariant == AnalysisSpec => []ResolveInv
  BY ResolveInit, ResolveNext, PTL DEF AnalysisSpec

(* The variables have their types: a constant that is resolved is a        *)
(* literal of its declared type, also in the second pass, and the          *)
(* declaration holds it: the overrides that are applied again change       *)
(* nothing (apply_and_resolve_constants_for_decls).                        *)
THEOREM ConstantsTyped == AnalysisSpec => []TypeOK
<1>1. ResolveInv => TypeOK
  <2> SUFFICES ASSUME ResolveInv PROVE TypeOK
    OBVIOUS
  <2>1. /\ pending \subseteq DOMAIN input.overrides /\ changed \in BOOLEAN /\ pass \in {1, 2}
        /\ (pc = "rejected") = (reason # "")
    BY DEF ResolveInv, ShapeInv
  <2>2. input \in Inputs /\ SameConsts(input, consts) /\ Resolves(input, resolved)
    BY DEF ResolveInv, ShapeInv, ConstInv, ConstsOK
  <2>3. next \in 1 .. Len(consts) + Len(decls) + Len(labels) + 1
    BY LaterLengths
  <2>4. ASSUME NEW n \in DOMAIN resolved
        PROVE  n \in NamesIn(input.consts) /\ resolved[n].op = SymbolTypes[n]
    BY <2>2, LiteralParts DEF Resolves, SymbolTypes
  <2>5. ASSUME NEW n \in DOMAIN resolved PROVE Named(consts, n).value = resolved[n]
    <3>1. n \in NamesIn(consts) /\ consts \in Seq(ConstDecl)
      BY <2>2, <2>4, ConstIs DEF SameConsts
    <3>2. PICK i \in DOMAIN consts : Named(consts, n) = consts[i] /\ consts[i].name = n
      BY <3>1, NamedIs
    <3> QED
      BY <3>2 DEF ResolveInv, ConstInv, ConstsOK
  <2> QED
    BY <2>1, <2>3, <2>4, <2>5 DEF TypeOK
<1> QED
  BY <1>1, ResolveInvariant, PTL

(* Constants resolve to what their declarations mean, whatever the order   *)
(* of declaration and of the overrides, in both passes, and the rounds     *)
(* stop only when every constant with a meaning is resolved                *)
(* (apply_and_resolve_constants_for_decls).                                *)
THEOREM ConstantsByMeaning == AnalysisSpec => []ResolvedByMeaning
<1>1. ResolveInv => ResolvedByMeaning
  BY DEF ResolveInv, ConstInv, ConstsOK, Resolves, ResolvedByMeaning
<1> QED
  BY <1>1, ResolveInvariant, PTL

-----------------------------------------------------------------------------
(* What is left to read in an expression *)

(* The leaves that are no literals.                                        *)
Gaps     == {"ident", "primed", "label", "none", "bad"}
Holes(x) == {y \in Parts(x) : y.op \in Gaps}

LEMMA GapsAre == Gaps = Leaves \ Kinds /\ \A x : IsLiteral(x) => x.op \notin Gaps
  BY DEF Gaps, Leaves, Kinds, IsLiteral

LEMMA HolesLaw ==
  ASSUME NEW x \in Tree
  PROVE  /\ x.op \in Gaps => Holes(x) = {x}
         /\ x.op \notin Gaps => Holes(x) = UNION {Holes(x.args[i]) : i \in DOMAIN x.args}
         /\ Holes(x) \subseteq Tree
<1>1. Parts(x) = {x} \cup UNION {Parts(x.args[i]) : i \in DOMAIN x.args} /\ Parts(x) \subseteq Tree
  BY PartsLaw
<1>2. CASE x.op \in Gaps
  <2>1. DOMAIN x.args = {}
    BY <1>2, Operands, GapsAre
  <2>2. Parts(x) = {x}
    BY <1>1, <2>1
  <2> QED
    BY <1>2, <2>2 DEF Holes
<1>3. CASE x.op \notin Gaps
  BY <1>1, <1>3 DEF Holes
<1> QED
  BY <1>1, <1>2, <1>3 DEF Holes

LEMMA HolesAre ==
  ASSUME NEW x \in Tree
  PROVE  /\ \A op \in Gaps : op \in Ops(x) <=> \E h \in Holes(x) : h.op = op
         /\ Idents(x) = {h.name : h \in {y \in Holes(x) : y.op \in {"ident", "primed"}}}
         /\ Labels(x) = {h.name : h \in {y \in Holes(x) : y.op = "label"}}
         /\ \A h \in Holes(x) : h.op \in Gaps /\ h \in Tree
<1>1. {y \in Holes(x) : y.op \in {"ident", "primed"}} = {y \in Parts(x) : y.op \in {"ident", "primed"}}
  BY DEF Holes, Gaps
<1>2. {y \in Holes(x) : y.op = "label"} = {y \in Parts(x) : y.op = "label"}
  BY DEF Holes, Gaps
<1>3. \A op \in Gaps : op \in Ops(x) <=> \E h \in Holes(x) : h.op = op
  BY DEF Ops, Holes
<1>4. \A h \in Holes(x) : h.op \in Gaps /\ h \in Tree
  BY HolesLaw DEF Holes
<1>5. Idents(x) = {h.name : h \in {y \in Holes(x) : y.op \in {"ident", "primed"}}}
  BY <1>1 DEF Idents
<1>6. Labels(x) = {h.name : h \in {y \in Holes(x) : y.op = "label"}}
  BY <1>2 DEF Labels
<1> QED
  BY <1>3, <1>4, <1>5, <1>6

LEMMA LiteralHoles == ASSUME NEW x \in Tree, IsLiteral(x) PROVE Holes(x) = {}
<1>1. x.op \notin Gaps /\ x.op \in Leaves
  BY GapsAre DEF IsLiteral, Leaves
<1>2. DOMAIN x.args = {}
  BY <1>1, Operands
<1> QED
  BY <1>1, <1>2, HolesLaw

LEMMA SameHoles ==
  ASSUME NEW x \in Tree, NEW y \in Tree, y.op = x.op, x.op \notin Gaps, DOMAIN y.args = DOMAIN x.args,
         NEW T, \A i \in DOMAIN x.args : Holes(y.args[i]) \subseteq Holes(x.args[i]) \cap T
  PROVE  Holes(y) \subseteq Holes(x) \cap T
<1>1. /\ Holes(x) = UNION {Holes(x.args[i]) : i \in DOMAIN x.args}
      /\ Holes(y) = UNION {Holes(y.args[i]) : i \in DOMAIN x.args}
  BY HolesLaw
<1> QED
  BY <1>1

(* Without operands a node stays what it is. *)
LEMMA LeafStays ==
  ASSUME NEW x \in Tree, x.op \in Leaves, NEW a, a = [i \in DOMAIN x.args |-> a[i]],
         NEW r, r = [x EXCEPT !.args = a]
  PROVE  r = x
<1>1. Shaped(x) /\ x.args \in Seq(Tree) /\ DOMAIN x.args = {}
  BY TreeNode, Operands
<1>2. x.args = [i \in DOMAIN x.args |-> x.args[i]]
  <2>1. \A R : \A s \in Seq(R) : s = [i \in DOMAIN s |-> s[i]]
    OBVIOUS
  <2> QED
    BY <1>1, <2>1
<1>3. a = x.args
  BY <1>1, <1>2
<1>4. x = [op |-> x.op, name |-> x.name, val |-> x.val, args |-> x.args]
  BY <1>1 DEF Shaped
<1>5. r = [op |-> x.op, name |-> x.name, val |-> x.val, args |-> a]
  BY <1>4
<1> QED
  BY <1>3, <1>4, <1>5

(* A folded node leaves what its folded operands leave.                    *)
LEMMA FoldHolesStep ==
  ASSUME NEW vals, IsVals(vals), NEW T,
         NEW x \in Tree, x.op \notin Gaps, NEW a, Len(a) = Arity(x.op), DOMAIN a = DOMAIN x.args,
         \A i \in DOMAIN x.args : a[i] \in Tree,
         \A i \in DOMAIN x.args : Holes(a[i]) \subseteq Holes(x.args[i]) \cap T,
         NEW r \in Tree, NodeFolds(x, a, vals, r)
  PROVE  Holes(r) \subseteq Holes(x) \cap T
<1>1. Shaped(x) /\ r = FoldNode(x, a, vals) /\ x.op # "ident"
  BY TreeNode DEF NodeFolds, Gaps
<1>2. CASE IsLiteral(r)
  BY <1>2, LiteralHoles
<1>3. CASE x.op = "?:" /\ r = Branch(a[1], a[2], a[3])
  <2>1. r = a[2] \/ r = a[3]
    BY <1>3 DEF Branch
  <2>2. DOMAIN x.args = {1, 2, 3}
    BY <1>3, Operands
  <2>3. Holes(x) = UNION {Holes(x.args[i]) : i \in DOMAIN x.args}
    BY HolesLaw
  <2> QED
    BY <2>1, <2>2, <2>3
<1>4. CASE x.op \in Binary /\ IsLiteral(a[1]) /\ IsLiteral(a[2]) /\ r = FoldBinary(x.op, a[1], a[2])
  <2>1. r.op \in Kinds \/ (r.op = x.op /\ r.args = <<a[1], a[2]>>)
    BY <1>4, FoldBinaryMeant DEF PairFolds
  <2>2. CASE r.op = x.op /\ r.args = <<a[1], a[2]>>
    <3>1. DOMAIN x.args = {1, 2}
      BY <1>4, Operands
    <3>2. Holes(a[1]) = {} /\ Holes(a[2]) = {}
      BY <1>4, <3>1, LiteralHoles
    <3>3. DOMAIN r.args = {1, 2} /\ r.args[1] = a[1] /\ r.args[2] = a[2]
      BY <2>2
    <3>4. Holes(r) = UNION {Holes(r.args[i]) : i \in DOMAIN r.args}
      BY <2>2, HolesLaw
    <3>5. Holes(r) = {}
      BY <3>2, <3>3, <3>4
    <3> QED
      BY <3>5
  <2> QED
    BY <2>1, <2>2, <1>2 DEF IsLiteral
<1>5. CASE r = [x EXCEPT !.args = a]
  <2>1. r.op = x.op /\ r.args = a
    BY <1>1, <1>5, Rebuilt
  <2> HIDE DEF Holes
  <2> QED
    BY <2>1, SameHoles
<1>6. \/ x.op = "not" /\ r = Truth(a[1].val = Zero)
      \/ x.op = "neg" /\ a[1].op \in Numeric /\ r = Literal(a[1].op, Calculate("-", Zero, a[1].val))
      \/ x.op = "?:" /\ r = Branch(a[1], a[2], a[3])
      \/ x.op \in Binary /\ IsLiteral(a[1]) /\ IsLiteral(a[2]) /\ r = FoldBinary(x.op, a[1], a[2])
      \/ r = [x EXCEPT !.args = a]
  BY <1>1, FoldSplit
<1>7. CASE x.op = "not" /\ r = Truth(a[1].val = Zero)
  BY <1>2, <1>7, LiteralParts DEF IsLiteral, Kinds
<1>8. CASE x.op = "neg" /\ a[1].op \in Numeric /\ r = Literal(a[1].op, Calculate("-", Zero, a[1].val))
  BY <1>2, <1>8, LiteralParts DEF IsLiteral, Kinds, Numeric
<1> QED
  BY <1>3, <1>4, <1>5, <1>6, <1>7, <1>8

(* Folding leaves nothing new, and no name that it replaces.               *)
LEMMA FoldHoles ==
  ASSUME NEW vals, IsVals(vals)
  PROVE  \A x \in Tree :
           Holes(Fold(x, vals)) \subseteq {h \in Holes(x) : ~(h.op = "ident" /\ h.name \in DOMAIN vals)}
<1> DEFINE T == {h \in Tree : ~(h.op = "ident" /\ h.name \in DOMAIN vals)}
           S == {x \in Tree : Holes(Fold(x, vals)) \subseteq Holes(x) \cap T}
<1>1. ASSUME NEW x \in Tree, \A i \in DOMAIN x.args : x.args[i] \in S PROVE x \in S
  <2> DEFINE a == [i \in DOMAIN x.args |-> Fold(x.args[i], vals)]
             r == Fold(x, vals)
  <2>1. /\ Len(a) = Arity(x.op) /\ DOMAIN a = DOMAIN x.args
        /\ \A i \in DOMAIN x.args : a[i] = Fold(x.args[i], vals) /\ a[i] \in Tree
        /\ r = FoldNode(x, a, vals) /\ r \in Tree
    BY FoldedOperands
  <2>2. a = [i \in DOMAIN x.args |-> a[i]]
    BY <2>1
  <2> HIDE DEF a, r, T
  <2>3. \A i \in DOMAIN x.args : Holes(a[i]) \subseteq Holes(x.args[i]) \cap T
    BY <1>1, <2>1
  <2>4. CASE x.op \notin Gaps
    <3>1. Holes(r) \subseteq Holes(x) \cap T
      BY <2>1, <2>3, <2>4, FoldHolesStep DEF NodeFolds
    <3> QED
      BY <3>1 DEF r
  <2>5. CASE x.op \in Gaps
    <3>1. x.op \in Leaves /\ Shaped(x) /\ x.op \notin {"not", "neg", "?:"} \cup Binary
      BY <2>5, TreeNode, GapsAre, OpsDiffer DEF Gaps, Binary
    <3>2. CASE x.op = "ident" /\ x.name \in DOMAIN vals
      <4>1. r = vals[x.name]
        BY <2>1, <3>1, <3>2, FoldCases DEF Shaped
      <4>2. Holes(r) = {}
        BY <2>1, <3>2, <4>1, LiteralHoles DEF IsVals
      <4> QED
        BY <4>2 DEF r
    <3>3. CASE ~(x.op = "ident" /\ x.name \in DOMAIN vals)
      <4>1. r = [x EXCEPT !.args = a]
        BY <2>1, <3>1, <3>3, FoldSplit
      <4>2. r = x
        BY <2>2, <3>1, <4>1, LeafStays
      <4>3. Holes(x) = {x} /\ x \in T
        BY <2>5, <3>3, HolesLaw DEF T
      <4>4. Holes(r) \subseteq Holes(x) \cap T
        BY <4>2, <4>3
      <4> QED
        BY <4>4 DEF r
    <3> QED
      BY <3>2, <3>3
  <2> QED
    BY <2>4, <2>5
<1>2. \A x \in Tree : x \in S
  <2> HIDE DEF S
  <2> QED
    BY <1>1, TreeInduction
<1> QED
  BY <1>2, HolesAre

(* What has a type has only names in it that have one.                     *)
LEMMA TypedHoles ==
  ASSUME NEW types, IsTypes(types), NEW ref \in {"bool", "error"}
  PROVE  \A x \in Tree : InferWith(x, types, ref) # "error" =>
           \A h \in Holes(x) : \/ h.op \in {"ident", "primed"} /\ h.name \in DOMAIN types
                               \/ h.op = "label" /\ ref = "bool"
<1> DEFINE Good(h) == \/ h.op \in {"ident", "primed"} /\ h.name \in DOMAIN types
                      \/ h.op = "label" /\ ref = "bool"
           S == {x \in Tree : InferWith(x, types, ref) # "error" => \A h \in Holes(x) : Good(h)}
<1>1. ASSUME NEW x \in Tree, \A i \in DOMAIN x.args : x.args[i] \in S, InferWith(x, types, ref) # "error"
      PROVE  \A h \in Holes(x) : Good(h)
  <2>1. CASE x.op \in Gaps
    <3>1. Holes(x) = {x} /\ x.op \in Leaves /\ ~IsLiteral(x)
      BY <2>1, HolesLaw, GapsAre
    <3>2. Good(x)
      BY <1>1, <3>1, LeafType
    <3> QED
      BY <3>1, <3>2
  <2>2. CASE x.op \notin Gaps
    <3>1. \A i \in DOMAIN x.args : InferWith(x.args[i], types, ref) # "error"
      BY <1>1, TypedOperands
    <3>2. \A i \in DOMAIN x.args : \A h \in Holes(x.args[i]) : Good(h)
      BY <1>1, <3>1
    <3> HIDE DEF Good
    <3> QED
      BY <2>2, <3>2, HolesLaw
  <2> QED
    BY <2>1, <2>2
<1>2. \A x \in Tree : x \in S
  <2>1. \A x \in Tree : (\A i \in DOMAIN x.args : x.args[i] \in S) => x \in S
    BY <1>1
  <2> HIDE DEF S
  <2> QED
    BY <2>1, TreeInduction
<1> QED
  BY <1>2

-----------------------------------------------------------------------------
(* Labels replaced by expressions *)

(* What takes the place of a label.                                        *)
Filler(by, n) == IF n \in DOMAIN by THEN by[n] ELSE Bad

LEMMA LabelsLaw ==
  ASSUME NEW x \in Tree
  PROVE  /\ x.op = "label" => Labels(x) = {x.name}
         /\ x.op \in Gaps \ {"label"} => Labels(x) = {}
         /\ x.op \notin Gaps => Labels(x) = UNION {Labels(x.args[i]) : i \in DOMAIN x.args}
<1>1. \A y \in Tree : Labels(y) = {h.name : h \in {z \in Holes(y) : z.op = "label"}}
  BY HolesAre
<1>2. CASE x.op \in Gaps
  <2>1. Holes(x) = {x}
    BY <1>2, HolesLaw
  <2>2. Labels(x) = {h.name : h \in {z \in {x} : z.op = "label"}}
    BY <1>1, <2>1
  <2>3. x.op = "label" => {z \in {x} : z.op = "label"} = {x}
    OBVIOUS
  <2>4. x.op # "label" => {z \in {x} : z.op = "label"} = {}
    OBVIOUS
  <2> QED
    BY <1>2, <2>2, <2>3, <2>4 DEF Gaps
<1>3. CASE x.op \notin Gaps
  <2>1. Holes(x) = UNION {Holes(x.args[i]) : i \in DOMAIN x.args}
    BY <1>3, HolesLaw
  <2>2. \A i \in DOMAIN x.args : x.args[i] \in Tree
    BY TreeNode
  <2>3. \A n : n \in Labels(x) <=> \E h \in Holes(x) : h.op = "label" /\ n = h.name
    BY <1>1
  <2>4. \A i \in DOMAIN x.args : \A n :
          n \in Labels(x.args[i]) <=> \E h \in Holes(x.args[i]) : h.op = "label" /\ n = h.name
    BY <1>1, <2>2
  <2> HIDE DEF Holes, Labels
  <2>5. \A n : n \in Labels(x) <=> \E i \in DOMAIN x.args : n \in Labels(x.args[i])
    BY <2>1, <2>3, <2>4
  <2>6. x.op # "label"
    BY <1>3 DEF Gaps
  <2> QED
    BY <1>3, <2>5, <2>6
<1> QED
  BY <1>2, <1>3 DEF Gaps

LEMMA SubstitutedOperands ==
  ASSUME NEW by, IsTreesFor(by), NEW x \in Tree,
         NEW a, a = [i \in DOMAIN x.args |-> Substitute(x.args[i], by)],
         NEW r, r = Substitute(x, by)
  PROVE  /\ Len(a) = Arity(x.op) /\ DOMAIN a = DOMAIN x.args /\ a \in Seq(Trees)
         /\ \A i \in DOMAIN x.args : a[i] = Substitute(x.args[i], by)
         /\ x.op = "label" => r = Filler(by, x.name)
         /\ x.op # "label" => /\ r = [x EXCEPT !.args = a] /\ r.args = a
                              /\ r.op = x.op /\ r.name = x.name /\ r.val = x.val
<1>1. /\ x.args \in Seq(Tree) /\ Len(x.args) = Arity(x.op) /\ Shaped(x)
      /\ DOMAIN x.args = 1 .. Arity(x.op) /\ \A i \in DOMAIN x.args : x.args[i] \in Tree
  BY TreeNode DEF Shaped
<1>2. \A i \in DOMAIN x.args : Substitute(x.args[i], by) \in Trees
  BY <1>1, SubstituteLaw
<1>3. a \in Seq(Trees) /\ Len(a) = Arity(x.op)
  BY <1>1, <1>2
<1>4. r = SubstituteNode(x, a, by)
  BY SubstituteLaw
<1>5. x.op = "label" => r = Filler(by, x.name)
  BY <1>4 DEF SubstituteNode, Filler
<1>6. x.op # "label" => r = [x EXCEPT !.args = a]
  BY <1>4 DEF SubstituteNode
<1>7. x.op # "label" => r.args = a /\ r.op = x.op /\ r.name = x.name /\ r.val = x.val
  <2>1. ASSUME NEW y, y = [x EXCEPT !.args = a]
        PROVE  y.args = a /\ y.op = x.op /\ y.name = x.name /\ y.val = x.val
    BY <1>1, <2>1, Rebuilt
  <2> QED
    BY <1>6, <2>1
<1> QED
  BY <1>1, <1>2, <1>3, <1>5, <1>6, <1>7

LEMMA SubstituteHeight ==
  ASSUME NEW by, NEW h \in Nat, h # 0, \A n \in DOMAIN by : by[n] \in Within[h]
  PROVE  \A x \in Tree : \A n \in Nat : x \in Within[n] => Substitute(x, by) \in Within[n - 1 + h]
<1> DEFINE S == {x \in Tree : \A n \in Nat : x \in Within[n] => Substitute(x, by) \in Within[n - 1 + h]}
<1>0. IsTreesFor(by)
  BY DEF IsTreesFor, Trees
<1>1. ASSUME NEW x \in Tree, \A i \in DOMAIN x.args : x.args[i] \in S,
             NEW n \in Nat, x \in Within[n]
      PROVE  Substitute(x, by) \in Within[n - 1 + h]
  <2> DEFINE a == [i \in DOMAIN x.args |-> Substitute(x.args[i], by)]
             r == Substitute(x, by)
             m == n - 1 - 1 + h
  <2>1. /\ n # 0 /\ n - 1 \in Nat /\ Shaped(x) /\ \A i \in DOMAIN x.args : x.args[i] \in Within[n - 1]
    BY <1>1, WithinNode
  <2>2. m \in Nat /\ m + 1 = n - 1 + h /\ n - 1 + h \in Nat /\ h <= n - 1 + h /\ 1 <= n - 1 + h
    BY <2>1
  <2>3. /\ Len(a) = Arity(x.op) /\ DOMAIN a = DOMAIN x.args /\ a \in Seq(Trees)
        /\ \A i \in DOMAIN x.args : a[i] = Substitute(x.args[i], by)
        /\ x.op = "label" => r = Filler(by, x.name)
        /\ x.op # "label" => r = [x EXCEPT !.args = a]
    BY <1>0, SubstitutedOperands
  <2>4. CASE x.op = "label"
    <3>1. Filler(by, x.name) \in Within[h] \cup Within[1]
      BY BadWithin DEF Filler
    <3>2. Within[h] \subseteq Within[n - 1 + h] /\ Within[1] \subseteq Within[n - 1 + h]
      <4> DEFINE k == n - 1 + h
      <4>1. k \in Nat /\ h <= k /\ 1 <= k
        BY <2>2
      <4> HIDE DEF k
      <4>2. Within[h] \subseteq Within[k] /\ Within[1] \subseteq Within[k]
        BY <4>1, WithinMonotone
      <4> QED
        BY <4>2 DEF k
    <3> QED
      BY <2>3, <2>4, <3>1, <3>2
  <2>5. CASE x.op # "label"
    <3>1. \A i \in DOMAIN x.args : a[i] \in Within[m]
      <4>1. \A i \in DOMAIN x.args : Substitute(x.args[i], by) \in Within[(n - 1) - 1 + h]
        BY <1>1, <2>1
      <4> QED
        BY <2>3, <4>1
    <3>2. a \in Seq(Within[m]) /\ DOMAIN a = 1 .. Arity(x.op)
      <4>1. DOMAIN a = 1 .. Arity(x.op) /\ Arity(x.op) \in Nat
        BY <2>1, <2>3, OperandCount DEF Shaped
      <4> HIDE DEF m
      <4>2. a = [i \in 1 .. Arity(x.op) |-> a[i]]
        BY <2>3, <4>1
      <4>3. \A i \in 1 .. Arity(x.op) : a[i] \in Within[m]
        BY <2>3, <3>1, <4>1
      <4> HIDE DEF a
      <4>4. a \in Seq(Within[m])
        BY <4>1, <4>2, <4>3, ListSeq
      <4> QED
        BY <4>1, <4>4
    <3>3. [x EXCEPT !.args = a] \in Within[m + 1]
      <4> HIDE DEF a, m
      <4> QED
        BY <2>1, <2>2, <2>3, <3>2, RebuildWithin
    <3> QED
      BY <2>2, <2>3, <2>5, <3>3
  <2> QED
    BY <2>4, <2>5
<1>2. \A x \in Tree : (\A i \in DOMAIN x.args : x.args[i] \in S) => x \in S
  BY <1>1
<1>3. \A x \in Tree : x \in S
  <2> HIDE DEF S
  <2> QED
    BY <1>2, TreeInduction
<1> QED
  BY <1>3

(* The operands of a node that is replaced by no label.                    *)
LEMMA SubstitutedTree ==
  ASSUME NEW by, IsTreesFor(by), NEW x \in Tree, Substitute(x, by) \in Tree, x.op # "label"
  PROVE  \A i \in DOMAIN x.args : Substitute(x.args[i], by) \in Tree
<1> DEFINE a == [i \in DOMAIN x.args |-> Substitute(x.args[i], by)]
           r == Substitute(x, by)
<1>1. /\ DOMAIN a = DOMAIN x.args /\ \A i \in DOMAIN x.args : a[i] = Substitute(x.args[i], by)
      /\ r.args = a
  BY SubstitutedOperands
<1> HIDE DEF a
<1>2. \A i \in DOMAIN r.args : r.args[i] \in Tree
  BY TreeNode
<1> QED
  BY <1>1, <1>2

(* What is left after labels are replaced.                                 *)
LEMMA SubstituteHoles ==
  ASSUME NEW by, IsTreesFor(by)
  PROVE  \A x \in Tree : Substitute(x, by) \in Tree =>
           \A h : h \in Holes(Substitute(x, by)) <=>
                    \/ h \in Holes(x) /\ h.op # "label"
                    \/ \E n \in Labels(x) : h \in Holes(Filler(by, n))
<1> DEFINE Of(x, h) == \/ h \in Holes(x) /\ h.op # "label"
                       \/ \E n \in Labels(x) : h \in Holes(Filler(by, n))
           S == {x \in Tree : Substitute(x, by) \in Tree =>
                   \A h : h \in Holes(Substitute(x, by)) <=> Of(x, h)}
<1>1. ASSUME NEW x \in Tree, \A i \in DOMAIN x.args : x.args[i] \in S, Substitute(x, by) \in Tree
      PROVE  \A h : h \in Holes(Substitute(x, by)) <=> Of(x, h)
  <2> DEFINE a == [i \in DOMAIN x.args |-> Substitute(x.args[i], by)]
             r == Substitute(x, by)
  <2>1. /\ Len(a) = Arity(x.op) /\ DOMAIN a = DOMAIN x.args /\ a \in Seq(Trees)
        /\ \A i \in DOMAIN x.args : a[i] = Substitute(x.args[i], by)
        /\ x.op = "label" => r = Filler(by, x.name)
        /\ x.op # "label" => r = [x EXCEPT !.args = a] /\ r.args = a /\ r.op = x.op
    BY SubstitutedOperands
  <2>2. a = [i \in DOMAIN x.args |-> a[i]]
    BY <2>1
  <2>3. r \in Tree
    BY <1>1
  <2> HIDE DEF a, r
  <2>4. CASE x.op = "label"
    <3>1. Holes(x) = {x} /\ Labels(x) = {x.name}
      BY <2>4, HolesLaw, LabelsLaw DEF Gaps
    <3> QED
      BY <2>1, <2>4, <3>1 DEF r
  <2>5. CASE x.op \in Gaps /\ x.op # "label"
    <3>1. Holes(x) = {x} /\ Labels(x) = {} /\ x.op \in Leaves
      BY <2>5, HolesLaw, LabelsLaw, GapsAre
    <3>2. r = x
      BY <2>1, <2>2, <2>5, <3>1, LeafStays
    <3> QED
      BY <2>5, <3>1, <3>2 DEF r
  <2>6. CASE x.op \notin Gaps
    <3>1. /\ Holes(x) = UNION {Holes(x.args[i]) : i \in DOMAIN x.args} /\ x.op # "label"
          /\ Labels(x) = UNION {Labels(x.args[i]) : i \in DOMAIN x.args}
      BY <2>6, HolesLaw, LabelsLaw DEF Gaps
    <3>2. Holes(r) = UNION {Holes(a[i]) : i \in DOMAIN x.args}
      <4>1. Holes(r) = UNION {Holes(r.args[i]) : i \in DOMAIN r.args}
        BY <2>1, <2>3, <2>6, <3>1, HolesLaw
      <4> QED
        BY <2>1, <3>1, <4>1
    <3>3. \A i \in DOMAIN x.args : Substitute(x.args[i], by) \in Tree
      BY <1>1, <3>1, SubstitutedTree
    <3>4. \A i \in DOMAIN x.args : \A h : h \in Holes(a[i]) <=> Of(x.args[i], h)
      <4> HIDE DEF Of
      <4> QED
        BY <1>1, <2>1, <3>3
    <3> HIDE DEF Holes, Labels
    <3>5. \A h : h \in Holes(r) <=> \E i \in DOMAIN x.args : h \in Holes(a[i])
      BY <3>2
    <3>6. \A h : Of(x, h) <=> \E i \in DOMAIN x.args : Of(x.args[i], h)
      BY <3>1
    <3> HIDE DEF Of
    <3> QED
      BY <3>4, <3>5, <3>6 DEF r
  <2> QED
    BY <2>4, <2>5, <2>6
<1>2. \A x \in Tree : x \in S
  <2>1. \A x \in Tree : (\A i \in DOMAIN x.args : x.args[i] \in S) => x \in S
    <3> HIDE DEF Of
    <3> QED
      BY <1>1
  <2> HIDE DEF S
  <2> QED
    BY <2>1, TreeInduction
<1> QED
  BY <1>2

(* Labels replaced by what means the same give what means the same.        *)
LEMMA SubstituteMeaning ==
  ASSUME NEW by, IsTreesFor(by), NEW means, IsMeans(means)
  PROVE  \A x \in Tree :
           /\ Substitute(x, by) \in Tree
           /\ \A n \in Labels(x) : /\ <<"label", n>> \in DOMAIN means
                                   /\ MeaningUnder(Filler(by, n), means) = means[<<"label", n>>]
           => MeaningUnder(Substitute(x, by), means) = MeaningUnder(x, means)
<1> DEFINE Fits(n) == /\ <<"label", n>> \in DOMAIN means
                      /\ MeaningUnder(Filler(by, n), means) = means[<<"label", n>>]
           S == {x \in Tree : Substitute(x, by) \in Tree /\ (\A n \in Labels(x) : Fits(n)) =>
                   MeaningUnder(Substitute(x, by), means) = MeaningUnder(x, means)}
<1>1. ASSUME NEW x \in Tree, \A i \in DOMAIN x.args : x.args[i] \in S, Substitute(x, by) \in Tree,
             \A n \in Labels(x) : Fits(n)
      PROVE  MeaningUnder(Substitute(x, by), means) = MeaningUnder(x, means)
  <2> DEFINE a == [i \in DOMAIN x.args |-> Substitute(x.args[i], by)]
             r == Substitute(x, by)
  <2>1. /\ Len(a) = Arity(x.op) /\ DOMAIN a = DOMAIN x.args /\ a \in Seq(Trees)
        /\ \A i \in DOMAIN x.args : a[i] = Substitute(x.args[i], by)
        /\ x.op = "label" => r = Filler(by, x.name)
        /\ x.op # "label" => r.args = a /\ r.op = x.op /\ r.name = x.name /\ r.val = x.val
    BY SubstitutedOperands
  <2>2. r \in Tree
    BY <1>1
  <2> HIDE DEF a, r
  <2>3. CASE x.op = "label"
    <3>1. x.name \in Labels(x) /\ x.op \in Leaves /\ ~IsLiteral(x)
      BY <2>3, LabelsLaw DEF Leaves, IsLiteral, Kinds
    <3>2. MeaningUnder(x, means) = means[<<"label", x.name>>]
      BY <1>1, <2>3, <3>1, LeafMeaning
    <3> QED
      BY <1>1, <2>1, <2>3, <3>1, <3>2 DEF r
  <2>4. CASE x.op # "label"
    <3>1. \A i \in DOMAIN x.args : Substitute(x.args[i], by) \in Tree
      BY <1>1, <2>4, SubstitutedTree
    <3>2. \A i \in DOMAIN x.args : \A n \in Labels(x.args[i]) : Fits(n)
      <4>1. DOMAIN x.args # {} => x.op \notin Gaps
        BY Operands, GapsAre
      <4>2. \A i \in DOMAIN x.args : Labels(x.args[i]) \subseteq Labels(x)
        BY <4>1, LabelsLaw
      <4> QED
        BY <1>1, <4>2
    <3>3. \A i \in DOMAIN x.args : MeaningUnder(r.args[i], means) = MeaningUnder(x.args[i], means)
      <4> HIDE DEF Fits
      <4> QED
        BY <1>1, <2>1, <2>4, <3>1, <3>2
    <3>4. MeaningUnder(r, means) = MeaningUnder(x, means)
      BY <2>1, <2>2, <2>4, <3>3, SameMeaning
    <3> QED
      BY <3>4 DEF r
  <2> QED
    BY <2>3, <2>4
<1>2. \A x \in Tree : x \in S
  <2>1. \A x \in Tree : (\A i \in DOMAIN x.args : x.args[i] \in S) => x \in S
    <3> HIDE DEF Fits
    <3> QED
      BY <1>1
  <2> HIDE DEF S
  <2> QED
    BY <2>1, TreeInduction
<1> QED
  BY <1>2

(* Operands of the same types give the same type, whatever a label has.    *)
LEMMA SameType ==
  ASSUME NEW types, IsTypes(types), NEW ref \in {"bool", "error"}, NEW s \in {"bool", "error"},
         NEW x \in Tree, NEW y \in Tree, y.op = x.op, y.op # "label",
         x.op \in Leaves => y.name = x.name,
         \A i \in DOMAIN x.args : InferWith(y.args[i], types, s) = InferWith(x.args[i], types, ref)
  PROVE  InferWith(y, types, s) = InferWith(x, types, ref)
<1>1. x.op \in Leaves \cup {"not", "neg", "?:"} \cup Binary
  BY Constructs
<1>2. CASE x.op \in Leaves
  <2>1. IsLiteral(x) <=> IsLiteral(y)
    BY DEF IsLiteral
  <2>2. InferWith(x, types, ref) =
          IF IsLiteral(x) THEN x.op
          ELSE IF x.op \in {"ident", "primed"} /\ x.name \in DOMAIN types THEN types[x.name] ELSE "error"
    BY <1>2, LeafType
  <2>3. InferWith(y, types, s) =
          IF IsLiteral(y) THEN y.op
          ELSE IF y.op \in {"ident", "primed"} /\ y.name \in DOMAIN types THEN types[y.name] ELSE "error"
    BY <1>2, LeafType
  <2> QED
    BY <1>2, <2>1, <2>2, <2>3
<1>3. CASE x.op = "not"
  <2>1. DOMAIN x.args = {1}
    BY <1>3, Operands
  <2>2. InferWith(y, types, s) = IF InferWith(y.args[1], types, s) = "bool" THEN "bool" ELSE "error"
    BY <1>3, NotType
  <2>3. InferWith(x, types, ref) = IF InferWith(x.args[1], types, ref) = "bool" THEN "bool" ELSE "error"
    BY <1>3, NotType
  <2> QED
    BY <2>1, <2>2, <2>3
<1>4. CASE x.op = "neg"
  <2>1. DOMAIN x.args = {1}
    BY <1>4, Operands
  <2>2. InferWith(y, types, s) =
          IF InferWith(y.args[1], types, s) \in Numeric THEN InferWith(y.args[1], types, s) ELSE "error"
    BY <1>4, NegType
  <2>3. InferWith(x, types, ref) =
          IF InferWith(x.args[1], types, ref) \in Numeric THEN InferWith(x.args[1], types, ref) ELSE "error"
    BY <1>4, NegType
  <2> QED
    BY <2>1, <2>2, <2>3
<1>5. CASE x.op = "?:"
  <2>1. DOMAIN x.args = {1, 2, 3}
    BY <1>5, Operands
  <2>2. InferWith(y, types, s) =
          IF InferWith(y.args[1], types, s) = "bool"
          THEN Join(InferWith(y.args[2], types, s), InferWith(y.args[3], types, s)) ELSE "error"
    BY <1>5, IfType
  <2>3. InferWith(x, types, ref) =
          IF InferWith(x.args[1], types, ref) = "bool"
          THEN Join(InferWith(x.args[2], types, ref), InferWith(x.args[3], types, ref)) ELSE "error"
    BY <1>5, IfType
  <2>4. /\ InferWith(y.args[1], types, s) = InferWith(x.args[1], types, ref)
        /\ InferWith(y.args[2], types, s) = InferWith(x.args[2], types, ref)
        /\ InferWith(y.args[3], types, s) = InferWith(x.args[3], types, ref)
    BY <2>1
  <2> QED
    BY <2>2, <2>3, <2>4
<1>6. CASE x.op \in Binary
  <2>1. DOMAIN x.args = {1, 2}
    BY <1>6, Operands
  <2>2. InferWith(y, types, s) =
          PairTyped(y.op, InferWith(y.args[1], types, s), InferWith(y.args[2], types, s))
    BY <1>6, PairType
  <2>3. InferWith(x, types, ref) =
          PairTyped(x.op, InferWith(x.args[1], types, ref), InferWith(x.args[2], types, ref))
    BY <1>6, PairType
  <2>4. /\ InferWith(y.args[1], types, s) = InferWith(x.args[1], types, ref)
        /\ InferWith(y.args[2], types, s) = InferWith(x.args[2], types, ref)
    BY <2>1
  <2> QED
    BY <2>2, <2>3, <2>4
<1> QED
  BY <1>1, <1>2, <1>3, <1>4, <1>5, <1>6

(* Labels replaced by truth values have the type of truth values.          *)
LEMMA SubstituteType ==
  ASSUME NEW by, IsTreesFor(by), NEW types, IsTypes(types)
  PROVE  \A x \in Tree :
           /\ Substitute(x, by) \in Tree
           /\ \A n \in Labels(x) : InferWith(Filler(by, n), types, "error") = "bool"
           => InferWith(Substitute(x, by), types, "error") = InferWith(x, types, "bool")
<1> DEFINE Fits(n) == InferWith(Filler(by, n), types, "error") = "bool"
           S == {x \in Tree : Substitute(x, by) \in Tree /\ (\A n \in Labels(x) : Fits(n)) =>
                   InferWith(Substitute(x, by), types, "error") = InferWith(x, types, "bool")}
<1>1. ASSUME NEW x \in Tree, \A i \in DOMAIN x.args : x.args[i] \in S, Substitute(x, by) \in Tree,
             \A n \in Labels(x) : Fits(n)
      PROVE  InferWith(Substitute(x, by), types, "error") = InferWith(x, types, "bool")
  <2> DEFINE a == [i \in DOMAIN x.args |-> Substitute(x.args[i], by)]
             r == Substitute(x, by)
  <2>1. /\ Len(a) = Arity(x.op) /\ DOMAIN a = DOMAIN x.args /\ a \in Seq(Trees)
        /\ \A i \in DOMAIN x.args : a[i] = Substitute(x.args[i], by)
        /\ x.op = "label" => r = Filler(by, x.name)
        /\ x.op # "label" => r.args = a /\ r.op = x.op /\ r.name = x.name /\ r.val = x.val
    BY SubstitutedOperands
  <2>2. r \in Tree
    BY <1>1
  <2> HIDE DEF a, r
  <2>3. CASE x.op = "label"
    <3>1. x.name \in Labels(x) /\ x.op \in Leaves /\ ~IsLiteral(x)
      BY <2>3, LabelsLaw DEF Leaves, IsLiteral, Kinds
    <3>2. InferWith(x, types, "bool") = "bool"
      BY <2>3, <3>1, LeafType
    <3> QED
      BY <1>1, <2>1, <2>3, <3>1, <3>2 DEF r
  <2>4. CASE x.op # "label"
    <3>1. \A i \in DOMAIN x.args : Substitute(x.args[i], by) \in Tree
      BY <1>1, <2>4, SubstitutedTree
    <3>2. \A i \in DOMAIN x.args : \A n \in Labels(x.args[i]) : Fits(n)
      <4>1. DOMAIN x.args # {} => x.op \notin Gaps
        BY Operands, GapsAre
      <4>2. \A i \in DOMAIN x.args : Labels(x.args[i]) \subseteq Labels(x)
        BY <4>1, LabelsLaw
      <4> QED
        BY <1>1, <4>2
    <3>3. \A i \in DOMAIN x.args : InferWith(r.args[i], types, "error") = InferWith(x.args[i], types, "bool")
      <4> HIDE DEF Fits
      <4> QED
        BY <1>1, <2>1, <2>4, <3>1, <3>2
    <3>4. InferWith(r, types, "error") = InferWith(x, types, "bool")
      BY <2>1, <2>2, <2>4, <3>3, SameType
    <3> QED
      BY <3>4 DEF r
  <2> QED
    BY <2>3, <2>4
<1>2. \A x \in Tree : x \in S
  <2>1. \A x \in Tree : (\A i \in DOMAIN x.args : x.args[i] \in S) => x \in S
    <3> HIDE DEF Fits
    <3> QED
      BY <1>1
  <2> HIDE DEF S
  <2> QED
    BY <2>1, TreeInduction
<1> QED
  BY <1>2

(* Without labels there is nothing to replace.                             *)
LEMMA SubstituteNone ==
  ASSUME NEW by, IsTreesFor(by)
  PROVE  \A x \in Tree : Labels(x) = {} => Substitute(x, by) = x
<1> DEFINE S == {x \in Tree : Labels(x) = {} => Substitute(x, by) = x}
<1>1. ASSUME NEW x \in Tree, \A i \in DOMAIN x.args : x.args[i] \in S, Labels(x) = {}
      PROVE  Substitute(x, by) = x
  <2> DEFINE a == [i \in DOMAIN x.args |-> Substitute(x.args[i], by)]
  <2>1. x.op # "label" /\ Shaped(x) /\ x.args \in Seq(Tree)
    BY <1>1, LabelsLaw, TreeNode
  <2>2. \A i \in DOMAIN x.args : Labels(x.args[i]) = {}
    <3>1. DOMAIN x.args # {} => x.op \notin Gaps
      BY Operands, GapsAre
    <3> QED
      BY <1>1, <3>1, LabelsLaw
  <2>3. Substitute(x, by) = [x EXCEPT !.args = a]
    <3>1. ASSUME NEW b, b = a, NEW r, r = Substitute(x, by) PROVE r = [x EXCEPT !.args = b]
      <4> HIDE DEF S
      <4> QED
        BY <2>1, <3>1, SubstitutedOperands
    <3> QED
      BY <3>1
  <2>4. a = x.args
    <3>1. \A i \in DOMAIN x.args : a[i] = x.args[i]
      BY <1>1, <2>2
    <3>2. \A R : \A s \in Seq(R) : s = [i \in DOMAIN s |-> s[i]]
      OBVIOUS
    <3> QED
      BY <2>1, <3>1, <3>2
  <2>5. x = [op |-> x.op, name |-> x.name, val |-> x.val, args |-> x.args]
    BY <2>1 DEF Shaped
  <2> HIDE DEF a
  <2> QED
    BY <2>3, <2>4, <2>5
<1>2. \A x \in Tree : x \in S
  <2>1. \A x \in Tree : (\A i \in DOMAIN x.args : x.args[i] \in S) => x \in S
    BY <1>1
  <2> HIDE DEF S
  <2> QED
    BY <2>1, TreeInduction
<1> QED
  BY <1>2

-----------------------------------------------------------------------------
(* Labels expanded *)

(* Bodies of labels that are trees.                                        *)
IsBodies(bs) ==
  /\ IsFiniteSet(DOMAIN bs) /\ \A n \in DOMAIN bs : bs[n] \in Tree

(* One more level of labels.                                               *)
ExpandOnce(bs, f) ==
  [R \in SUBSET DOMAIN bs |->
     [n \in DOMAIN bs |-> IF n \in R THEN Bad ELSE Substitute(bs[n], f[R \cup {n}])]]

Expansions(bs) == [SUBSET DOMAIN bs -> [DOMAIN bs -> Trees]]

LEMMA ExpandOnceIs ==
  ASSUME NEW bs, IsBodies(bs), NEW f \in Expansions(bs)
  PROVE  ExpandOnce(bs, f) \in Expansions(bs)
<1>1. ASSUME NEW R \in SUBSET DOMAIN bs, NEW n \in DOMAIN bs
      PROVE  (IF n \in R THEN Bad ELSE Substitute(bs[n], f[R \cup {n}])) \in Trees
  <2>1. Bad \in Trees
    BY BadWithin DEF Trees
  <2>2. R \cup {n} \in SUBSET DOMAIN bs
    OBVIOUS
  <2>3. f[R \cup {n}] \in [DOMAIN bs -> Trees]
    BY <2>2 DEF Expansions
  <2>4. IsTreesFor(f[R \cup {n}])
    BY <2>3 DEF IsTreesFor
  <2>5. Substitute(bs[n], f[R \cup {n}]) \in Trees
    BY <2>4, SubstituteLaw DEF IsBodies
  <2> QED
    BY <2>1, <2>5
<1> QED
  BY <1>1 DEF ExpandOnce, Expansions

LEMMA FewerLeft ==
  ASSUME NEW D, IsFiniteSet(D), NEW R \in SUBSET D
  PROVE  /\ Cardinality(D \ R) \in Nat /\ Cardinality(D \ R) <= Cardinality(D)
         /\ \A n \in D \ R : Cardinality(D \ (R \cup {n})) = Cardinality(D \ R) - 1
         /\ Cardinality(D \ R) = 0 => D \subseteq R
<1>1. IsFiniteSet(D \ R) /\ Cardinality(D \ R) <= Cardinality(D)
  BY FS_Subset
<1>2. ASSUME NEW n \in D \ R PROVE Cardinality(D \ (R \cup {n})) = Cardinality(D \ R) - 1
  <2>1. D \ (R \cup {n}) = (D \ R) \ {n}
    OBVIOUS
  <2> DEFINE L == D \ R
  <2>2. n \in L /\ IsFiniteSet(L)
    BY <1>1
  <2> HIDE DEF L
  <2>3. Cardinality(L \ {n}) = Cardinality(L) - 1
    BY <2>2, FS_RemoveElement
  <2> QED
    BY <2>1, <2>3 DEF L
<1>3. Cardinality(D \ R) = 0 => D \ R = {}
  BY <1>1, FS_EmptySet
<1>4. Cardinality(D \ R) \in Nat
  BY <1>1, FS_CardinalityType
<1> QED
  BY <1>1, <1>2, <1>3, <1>4

(* What holds of a set of labels in expansion once it holds of the larger  *)
(* ones holds of each: one more is in expansion inside it.                 *)
LEMMA DownwardInduction ==
  ASSUME NEW D, IsFiniteSet(D), NEW S,
         \A R \in SUBSET D : (\A n \in D \ R : R \cup {n} \in S) => R \in S
  PROVE  \A R \in SUBSET D : R \in S
<1> DEFINE Left(R) == Cardinality(D \ R)
           P(k) == \A R \in SUBSET D : Left(R) <= k => R \in S
           good == {k \in Nat : P(k)}
<1>1. 0 \in good
  <2>1. ASSUME NEW R \in SUBSET D, Left(R) <= 0 PROVE R \in S
    <3>1. D \ R = {}
      BY <2>1, FewerLeft
    <3> QED
      BY <3>1
  <2> QED
    BY <2>1
<1>2. ASSUME NEW k \in good PROVE k + 1 \in good
  <2>1. k \in Nat /\ k + 1 \in Nat
    OBVIOUS
  <2>2. ASSUME NEW R \in SUBSET D, Left(R) <= k + 1 PROVE R \in S
    <3>1. ASSUME NEW n \in D \ R PROVE R \cup {n} \in S
      <4>1. R \cup {n} \in SUBSET D /\ Left(R \cup {n}) = Left(R) - 1 /\ Left(R) \in Nat
        BY FewerLeft
      <4>2. Left(R \cup {n}) <= k
        <5> HIDE DEF Left
        <5> QED
          BY <2>1, <2>2, <4>1
      <4> HIDE DEF Left
      <4> QED
        BY <1>2, <4>1, <4>2
    <3> QED
      BY <3>1
  <2> HIDE DEF Left
  <2> QED
    BY <2>1, <2>2
<1>3. \A k \in Nat : P(k)
  <2> HIDE DEF P
  <2> QED
    BY <1>1, <1>2, SetInduction
<1>4. ASSUME NEW R \in SUBSET D PROVE R \in S
  <2> DEFINE c == Left(R)
  <2>1. c \in Nat
    BY FewerLeft
  <2>2. P(c)
    BY <1>3, <2>1
  <2>3. c <= c
    <3> HIDE DEF c
    <3> QED
      BY <2>1
  <2> QED
    BY <2>2, <2>3
<1> QED
  BY <1>4

(* What Expanded asks for, a level for every set of labels in expansion.    *)
IsExpansion(bs, f) ==
  f = [R \in SUBSET DOMAIN bs |->
         [n \in DOMAIN bs |-> IF n \in R THEN Bad ELSE Substitute(bs[n], f[R \cup {n}])]]

Level(bs, f, R) ==
  [n \in DOMAIN bs |-> IF n \in R THEN Bad ELSE Substitute(bs[n], f[R \cup {n}])]

LEMMA ExpansionIs ==
  ASSUME NEW bs, NEW f, IsExpansion(bs, f)
  PROVE  /\ DOMAIN f = SUBSET DOMAIN bs /\ f = [R \in DOMAIN f |-> f[R]]
         /\ \A R \in SUBSET DOMAIN bs : f[R] = Level(bs, f, R)
<1> DEFINE D == DOMAIN bs
           e(R) == [n \in D |-> IF n \in R THEN Bad ELSE Substitute(bs[n], f[R \cup {n}])]
<1>1. f = [R \in SUBSET D |-> e(R)]
  BY DEF IsExpansion
<1> HIDE DEF e
<1>2. \A R \in SUBSET D : f[R] = e(R)
  BY <1>1
<1>3. DOMAIN f = SUBSET D /\ f = [R \in DOMAIN f |-> f[R]]
  BY <1>1
<1> QED
  BY <1>2, <1>3 DEF e, Level

LEMMA ExpansionUnique ==
  ASSUME NEW bs, IsBodies(bs), NEW f, IsExpansion(bs, f), NEW g, IsExpansion(bs, g)
  PROVE  g = f
<1> DEFINE D == DOMAIN bs
           S == {R \in SUBSET D : g[R] = f[R]}
<1>1. IsFiniteSet(D)
  BY DEF IsBodies
<1>2. ASSUME NEW R \in SUBSET D, \A n \in D \ R : g[R \cup {n}] = f[R \cup {n}]
      PROVE  g[R] = f[R]
  <2>1. g[R] = Level(bs, g, R) /\ f[R] = Level(bs, f, R)
    BY ExpansionIs
  <2> QED
    BY <1>2, <2>1 DEF Level
<1>6. \A R \in SUBSET D : R \in S
  <2>1. \A R \in SUBSET D : (\A n \in D \ R : R \cup {n} \in S) => R \in S
    BY <1>2
  <2> HIDE DEF S
  <2> QED
    BY <1>1, <2>1, DownwardInduction
<1>7. /\ DOMAIN f = SUBSET D /\ f = [R \in DOMAIN f |-> f[R]]
      /\ DOMAIN g = SUBSET D /\ g = [R \in DOMAIN g |-> g[R]]
  BY ExpansionIs
<1> QED
  BY <1>6, <1>7

LEMMA ExpandedLaw ==
  ASSUME NEW bs, IsBodies(bs)
  PROVE  /\ Expanded(bs) \in Expansions(bs)
         /\ \A R \in SUBSET DOMAIN bs : \A n \in DOMAIN bs :
              Expanded(bs)[R][n] = IF n \in R THEN Bad ELSE Substitute(bs[n], Expanded(bs)[R \cup {n}])
<1> DEFINE D == DOMAIN bs
           E == Expansions(bs)
           base == [R \in SUBSET D |-> [n \in D |-> Bad]]
           F == [f \in E |-> ExpandOnce(bs, f)]
<1>1. base \in E
  <2>1. Bad \in Trees
    BY BadWithin DEF Trees
  <2> QED
    BY <2>1 DEF Expansions
<1>2. F \in [E -> E]
  BY ExpandOnceIs
<1>3. PICK g \in [Nat -> E] : \A n \in Nat : g[n] = IF n = 0 THEN base ELSE F[g[n - 1]]
  <2> HIDE DEF base, F, E
  <2> QED
    BY <1>1, <1>2, NatRecursion
<1>4. \A k \in Nat : g[k] \in E /\ g[k + 1] = ExpandOnce(bs, g[k])
  <2> SUFFICES ASSUME NEW k \in Nat PROVE g[k] \in E /\ g[k + 1] = ExpandOnce(bs, g[k])
    OBVIOUS
  <2>1. k + 1 \in Nat /\ k + 1 # 0 /\ (k + 1) - 1 = k
    OBVIOUS
  <2>2. g[k] \in E
    BY <1>3
  <2>3. g[k + 1] = F[g[k]]
    <3> HIDE DEF F, base
    <3> QED
      BY <1>3, <2>1
  <2> QED
    BY <2>2, <2>3
<1> HIDE DEF F, base, E
<1> DEFINE Left(R) == Cardinality(D \ R)
           P(k) == \A R \in SUBSET D : Left(R) <= k => g[k + 1][R] = g[(k + 1) + 1][R]
           good == {k \in Nat : P(k)}
<1>5. IsFiniteSet(D)
  BY DEF IsBodies
<1>6. \A k \in Nat : \A R \in SUBSET D :
        g[k + 1][R] = [n \in D |-> IF n \in R THEN Bad ELSE Substitute(bs[n], g[k][R \cup {n}])]
  BY <1>4 DEF ExpandOnce
<1>7. 0 \in good
  <2>1. ASSUME NEW R \in SUBSET D, Left(R) <= 0 PROVE g[0 + 1][R] = g[(0 + 1) + 1][R]
    <3>1. D \subseteq R
      BY <1>5, <2>1, FewerLeft
    <3>2. g[0 + 1][R] = [n \in D |-> IF n \in R THEN Bad ELSE Substitute(bs[n], g[0][R \cup {n}])]
      <4>1. 0 \in Nat
        OBVIOUS
      <4> DEFINE z == 0
      <4>2. g[z + 1][R] = [n \in D |-> IF n \in R THEN Bad ELSE Substitute(bs[n], g[z][R \cup {n}])]
        <5> HIDE DEF z
        <5> QED
          BY <1>6, <4>1 DEF z
      <4> QED
        BY <4>2
    <3>3. g[(0 + 1) + 1][R] = [n \in D |-> IF n \in R THEN Bad ELSE Substitute(bs[n], g[0 + 1][R \cup {n}])]
      <4>1. 0 + 1 \in Nat
        OBVIOUS
      <4> QED
        BY <1>6, <4>1
    <3>4. \A n \in D : n \in R
      BY <3>1
    <3> QED
      BY <3>2, <3>3, <3>4
  <2> QED
    BY <2>1
<1>8. ASSUME NEW k \in good PROVE k + 1 \in good
  <2>0. k \in Nat /\ k + 1 \in Nat /\ (k + 1) + 1 \in Nat
    OBVIOUS
  <2>1. ASSUME NEW R \in SUBSET D, Left(R) <= k + 1 PROVE g[(k + 1) + 1][R] = g[((k + 1) + 1) + 1][R]
    <3>1. ASSUME NEW n \in D \ R PROVE g[k + 1][R \cup {n}] = g[(k + 1) + 1][R \cup {n}]
      <4>1. R \cup {n} \in SUBSET D /\ Left(R \cup {n}) = Left(R) - 1 /\ Left(R) \in Nat
        BY <1>5, FewerLeft
      <4>2. Left(R \cup {n}) <= k
        <5> HIDE DEF Left
        <5> QED
          BY <2>0, <2>1, <4>1
      <4> HIDE DEF Left
      <4> QED
        BY <1>8, <4>1, <4>2
    <3>2. g[(k + 1) + 1][R]
            = [n \in D |-> IF n \in R THEN Bad ELSE Substitute(bs[n], g[k + 1][R \cup {n}])]
      BY <1>6, <2>0
    <3>3. g[((k + 1) + 1) + 1][R]
            = [n \in D |-> IF n \in R THEN Bad ELSE Substitute(bs[n], g[(k + 1) + 1][R \cup {n}])]
      BY <1>6, <2>0
    <3> QED
      BY <3>1, <3>2, <3>3
  <2> HIDE DEF Left
  <2> QED
    BY <2>0, <2>1
<1>9. \A k \in Nat : P(k)
  <2> HIDE DEF P
  <2> QED
    BY <1>7, <1>8, SetInduction
<1> DEFINE c == Cardinality(D)
           f == g[c + 1]
<1>10. c \in Nat /\ c + 1 \in Nat /\ f \in E
  BY <1>3, <1>5, FS_CardinalityType
<1>11. \A R \in SUBSET D : f[R] = g[(c + 1) + 1][R]
  <2>1. \A R \in SUBSET D : Left(R) <= c
    BY <1>5, FewerLeft
  <2>2. P(c)
    BY <1>9, <1>10
  <2> HIDE DEF Left
  <2> QED
    BY <2>1, <2>2
<1>12. IsExpansion(bs, f)
  <2>1. \A R \in SUBSET D :
          f[R] = [n \in D |-> IF n \in R THEN Bad ELSE Substitute(bs[n], f[R \cup {n}])]
    BY <1>6, <1>10, <1>11
  <2>2. f = [R \in SUBSET D |-> f[R]]
    BY <1>10 DEF E, Expansions
  <2> HIDE DEF f, D
  <2> QED
    BY <2>1, <2>2 DEF IsExpansion, D
<1>13. Expanded(bs) = CHOOSE h : IsExpansion(bs, h)
  BY DEF Expanded, IsExpansion
<1>14. IsExpansion(bs, Expanded(bs))
  BY <1>12, <1>13
<1>15. Expanded(bs) = f
  <2> HIDE DEF f
  <2> QED
    BY <1>12, <1>14, ExpansionUnique
<1>16. Expanded(bs) \in Expansions(bs)
  BY <1>10, <1>15 DEF E
<1>17. \A R \in SUBSET D : Expanded(bs)[R] = Level(bs, Expanded(bs), R)
  BY <1>14, ExpansionIs
<1>18. ASSUME NEW R \in SUBSET D, NEW n \in D
       PROVE  Expanded(bs)[R][n] = IF n \in R THEN Bad ELSE Substitute(bs[n], Expanded(bs)[R \cup {n}])
  <2> HIDE DEF f, D, E, F, base
  <2>1. Expanded(bs)[R] = Level(bs, Expanded(bs), R)
    BY <1>17
  <2>2. n \in DOMAIN bs
    BY DEF D
  <2>3. Level(bs, Expanded(bs), R)[n] = IF n \in R THEN Bad ELSE Substitute(bs[n], Expanded(bs)[R \cup {n}])
    BY <2>2 DEF Level
  <2> QED
    BY <2>1, <2>3
<1> HIDE DEF f
<1> QED
  BY <1>16, <1>18

(* A label expanded adds the levels of its body for every label that can   *)
(* still be expanded inside it.                                            *)
LEMMA ExpandedHeight ==
  ASSUME NEW bs, IsBodies(bs), NEW l \in Nat \ {0}, \A n \in DOMAIN bs : bs[n] \in Within[l]
  PROVE  \A R \in SUBSET DOMAIN bs : \A n \in DOMAIN bs :
           Expanded(bs)[R][n] \in Within[(l - 1) * Cardinality(DOMAIN bs \ R) + 1]
<1> DEFINE D == DOMAIN bs
           Left(R) == Cardinality(D \ R)
           H(k) == (l - 1) * k + 1
           S == {R \in SUBSET D : \A n \in D : Expanded(bs)[R][n] \in Within[H(Left(R))]}
<1>1. IsFiniteSet(D)
  BY DEF IsBodies
<1>2. /\ Expanded(bs) \in Expansions(bs)
      /\ \A R \in SUBSET D : \A n \in D :
           Expanded(bs)[R][n] = IF n \in R THEN Bad ELSE Substitute(bs[n], Expanded(bs)[R \cup {n}])
  BY ExpandedLaw
<1>3. \A k \in Nat : H(k) \in Nat /\ H(k) # 0 /\ H(k + 1) = l - 1 + H(k)
  <2> TAKE k \in Nat
  <2>1. (l - 1) * k \in Nat
    OBVIOUS
  <2>2. (l - 1) * (k + 1) = (l - 1) * k + (l - 1)
    OBVIOUS
  <2> DEFINE p == (l - 1) * k
  <2> HIDE DEF p
  <2>3. p \in Nat /\ (l - 1) * (k + 1) = p + (l - 1)
    BY <2>1, <2>2 DEF p
  <2> QED
    BY <2>3 DEF p
<1>4. \A k \in Nat : Bad \in Within[H(k)]
  <2> TAKE k \in Nat
  <2>1. H(k) \in Nat /\ 1 <= H(k)
    <3> HIDE DEF H
    <3> QED
      BY <1>3
  <2> HIDE DEF H
  <2>2. Within[1] \subseteq Within[H(k)]
    BY <2>1, WithinMonotone
  <2> QED
    BY <2>2, BadWithin
<1>5. \A R \in SUBSET D : Left(R) \in Nat
  BY <1>1, FewerLeft
<1>6. ASSUME NEW R \in SUBSET D, \A n \in D \ R : R \cup {n} \in S, NEW n \in D
      PROVE  Expanded(bs)[R][n] \in Within[H(Left(R))]
  <2>1. CASE n \in R
    <3> HIDE DEF H, Left
    <3> QED
      BY <1>2, <1>4, <1>5, <2>1
  <2>2. CASE n \notin R
    <3> DEFINE by == Expanded(bs)[R \cup {n}]
               k  == Left(R \cup {n})
    <3>1. R \cup {n} \in SUBSET D /\ k = Left(R) - 1 /\ Left(R) \in Nat /\ k \in Nat
      BY <1>1, <2>2, FewerLeft
    <3>2. k + 1 = Left(R)
      <4> HIDE DEF k, Left
      <4> QED
        BY <3>1
    <3>3. \A m \in D : by[m] \in Within[H(k)]
      <4> HIDE DEF Left, H
      <4> QED
        BY <1>6, <2>2
    <3>4. DOMAIN by = D
      BY <1>2, <3>1 DEF Expansions
    <3>5. bs[n] \in Tree /\ bs[n] \in Within[l] /\ H(k) \in Nat /\ H(k) # 0 /\ H(k + 1) = l - 1 + H(k)
      <4> HIDE DEF H, k
      <4> QED
        BY <1>3, <3>1 DEF IsBodies
    <3>6. Substitute(bs[n], by) \in Within[l - 1 + H(k)]
      <4> HIDE DEF H, by, k
      <4> QED
        BY <3>3, <3>4, <3>5, SubstituteHeight
    <3>7. Expanded(bs)[R][n] = Substitute(bs[n], by)
      BY <1>2, <2>2
    <3> HIDE DEF H, by, k, Left
    <3> QED
      BY <3>2, <3>5, <3>6, <3>7
  <2> QED
    BY <2>1, <2>2
<1>7. \A R \in SUBSET D : R \in S
  <2>1. \A R \in SUBSET D : (\A n \in D \ R : R \cup {n} \in S) => R \in S
    <3> HIDE DEF H, Left
    <3> QED
      BY <1>6
  <2> HIDE DEF S, H, Left, D
  <2> QED
    BY <1>1, <2>1, DownwardInduction
<1> QED
  BY <1>7

(* An expression expanded, and the levels it then has.                     *)
LEMMA ExpandHeight ==
  ASSUME NEW bs, IsBodies(bs), NEW l \in Nat \ {0}, \A n \in DOMAIN bs : bs[n] \in Within[l],
         NEW x \in Tree, NEW k \in Nat, x \in Within[k]
  PROVE  Expand(x, bs) \in Within[k - 1 + ((l - 1) * Cardinality(DOMAIN bs) + 1)]
<1> DEFINE D == DOMAIN bs
           by == Expanded(bs)[{}]
           h == (l - 1) * Cardinality(D) + 1
<1>1. IsFiniteSet(D) /\ Cardinality(D) \in Nat
  BY FS_CardinalityType DEF IsBodies
<1>2. h \in Nat /\ h # 0
  <2> DEFINE c == Cardinality(D)
  <2>1. c \in Nat
    BY <1>1
  <2> HIDE DEF c
  <2>2. (l - 1) * c \in Nat
    BY <2>1
  <2> DEFINE p == (l - 1) * c
  <2>3. p \in Nat
    BY <2>2
  <2>4. h = p + 1
    BY DEF c
  <2> HIDE DEF p, h
  <2> QED
    BY <2>3, <2>4
<1>3. D \ {} = D /\ {} \in SUBSET D
  OBVIOUS
<1>4. \A n \in D : by[n] \in Within[h]
  BY <1>3, ExpandedHeight
<1>5. DOMAIN by = D
  <2>1. Expanded(bs) \in [SUBSET D -> [D -> Trees]]
    BY ExpandedLaw DEF Expansions
  <2> QED
    BY <1>3, <2>1
<1>6. Substitute(x, by) \in Within[k - 1 + h]
  <2> HIDE DEF by, h
  <2> QED
    BY <1>2, <1>4, <1>5, SubstituteHeight
<1> QED
  BY <1>6 DEF Expand

(* No bad node, as the code checks of what it has expanded.                *)
Whole(x) == \A h \in Holes(x) : h.op # "bad"
(* No primed name.                                                         *)
Unprimed(x) == \A h \in Holes(x) : h.op # "primed"

(* Every label expanded is a tree of the pass.                             *)
Fitting(bs) ==
  /\ IsBodies(bs)
  /\ \A R \in SUBSET DOMAIN bs : \A n \in DOMAIN bs : Expanded(bs)[R][n] \in Tree

LEMMA BadHoles == ASSUME Bad \in Tree PROVE Holes(Bad) = {Bad} /\ Bad.op = "bad" /\ Unprimed(Bad)
<1>1. Bad.op = "bad" /\ Bad.op \in Gaps
  BY DEF Bad, Node, Gaps
<1> QED
  BY <1>1, HolesLaw DEF Unprimed

(* What a whole substitution has put in is declared and whole.             *)
LEMMA WholeParts ==
  ASSUME NEW by, IsTreesFor(by), NEW x \in Tree, Substitute(x, by) \in Tree, Bad \in Tree,
         Whole(Substitute(x, by))
  PROVE  \A n \in Labels(x) : n \in DOMAIN by /\ Filler(by, n) = by[n] /\ Whole(by[n])
<1> SUFFICES ASSUME NEW n \in Labels(x)
             PROVE  n \in DOMAIN by /\ Filler(by, n) = by[n] /\ Whole(by[n])
  OBVIOUS
<1>1. \A h \in Holes(Filler(by, n)) : h \in Holes(Substitute(x, by))
  BY SubstituteHoles
<1>2. \A h \in Holes(Filler(by, n)) : h.op # "bad"
  BY <1>1 DEF Whole
<1>3. n \in DOMAIN by
  <2> SUFFICES ASSUME n \notin DOMAIN by PROVE FALSE
    OBVIOUS
  <2>1. Filler(by, n) = Bad
    BY DEF Filler
  <2> QED
    BY <1>2, <2>1, BadHoles
<1>4. Filler(by, n) = by[n]
  BY <1>3 DEF Filler
<1> QED
  BY <1>2, <1>3, <1>4 DEF Whole

(* Labels are expanded to what they mean.                                  *)
LEMMA ExpandedMeaning ==
  ASSUME NEW bs, Fitting(bs), Bad \in Tree, NEW means, IsMeans(means),
         \A n \in DOMAIN bs : <<"label", n>> \in DOMAIN means /\ MeaningUnder(bs[n], means) = means[<<"label", n>>]
  PROVE  \A R \in SUBSET DOMAIN bs : \A n \in DOMAIN bs :
           Whole(Expanded(bs)[R][n]) => MeaningUnder(Expanded(bs)[R][n], means) = means[<<"label", n>>]
<1> DEFINE D == DOMAIN bs
           E(R, n) == Expanded(bs)[R][n]
           Fine(R) == \A n \in D : Whole(E(R, n)) => MeaningUnder(E(R, n), means) = means[<<"label", n>>]
           S == {R \in SUBSET D : Fine(R)}
<1>1. IsFiniteSet(D) /\ \A n \in D : bs[n] \in Tree
  BY DEF Fitting, IsBodies
<1>2. /\ Expanded(bs) \in Expansions(bs)
      /\ \A R \in SUBSET D : \A n \in D : E(R, n) = IF n \in R THEN Bad ELSE Substitute(bs[n], Expanded(bs)[R \cup {n}])
  BY ExpandedLaw DEF Fitting
<1>3. \A R \in SUBSET D : \A n \in D : E(R, n) \in Tree
  BY DEF Fitting
<1>4. ~Whole(Bad)
  BY BadHoles DEF Whole
<1>5. ASSUME NEW R \in SUBSET D, \A n \in D \ R : Fine(R \cup {n})
      PROVE  Fine(R)
  <2> SUFFICES ASSUME NEW n \in D, Whole(E(R, n)) PROVE MeaningUnder(E(R, n), means) = means[<<"label", n>>]
    OBVIOUS
  <2> DEFINE by == Expanded(bs)[R \cup {n}]
  <2>1. n \notin R /\ R \cup {n} \in SUBSET D
    BY <1>2, <1>4
  <2>2. DOMAIN by = D /\ IsTreesFor(by) /\ \A m \in D : by[m] = E(R \cup {n}, m)
    BY <1>2, <2>1 DEF Expansions, IsTreesFor
  <2>3. Substitute(bs[n], by) = E(R, n) /\ bs[n] \in Tree /\ E(R, n) \in Tree
    BY <1>1, <1>2, <1>3, <2>1
  <2>4. Fine(R \cup {n})
    BY <1>5, <2>1
  <2> HIDE DEF by, E
  <2>5. \A m \in Labels(bs[n]) : m \in D /\ Filler(by, m) = by[m] /\ Whole(by[m])
    BY <2>2, <2>3, WholeParts
  <2>6. \A m \in Labels(bs[n]) : <<"label", m>> \in DOMAIN means /\ MeaningUnder(Filler(by, m), means) = means[<<"label", m>>]
    BY <2>2, <2>4, <2>5
  <2>7. MeaningUnder(Substitute(bs[n], by), means) = MeaningUnder(bs[n], means)
    BY <2>2, <2>3, <2>6, SubstituteMeaning
  <2> QED
    BY <2>3, <2>7
<1> HIDE DEF Fine
<1>6. \A R \in SUBSET D : R \in S
  <2>1. \A R \in SUBSET D : (\A n \in D \ R : R \cup {n} \in S) => R \in S
    BY <1>5
  <2> HIDE DEF S
  <2> QED
    BY <1>1, <2>1, DownwardInduction
<1> QED
  BY <1>6 DEF Fine

(* A substitution brings in primed names only with what it puts in.        *)
LEMMA SubstituteUnprimed ==
  ASSUME NEW by, IsTreesFor(by), NEW x \in Tree, Substitute(x, by) \in Tree, Bad \in Tree,
         Unprimed(x), \A n \in DOMAIN by : Unprimed(by[n])
  PROVE  Unprimed(Substitute(x, by))
<1>1. \A n : Unprimed(Filler(by, n))
  BY BadHoles DEF Filler
<1>2. \A h \in Holes(Substitute(x, by)) : h \in Holes(x) \/ \E n \in Labels(x) : h \in Holes(Filler(by, n))
  BY SubstituteHoles
<1> QED
  BY <1>1, <1>2 DEF Unprimed

LEMMA ExpandedUnprimed ==
  ASSUME NEW bs, Fitting(bs), Bad \in Tree, \A n \in DOMAIN bs : Unprimed(bs[n])
  PROVE  \A R \in SUBSET DOMAIN bs : \A n \in DOMAIN bs : Unprimed(Expanded(bs)[R][n])
<1> DEFINE D == DOMAIN bs
           E(R, n) == Expanded(bs)[R][n]
           S == {R \in SUBSET D : \A n \in D : Unprimed(E(R, n))}
<1>1. IsFiniteSet(D) /\ \A n \in D : bs[n] \in Tree
  BY DEF Fitting, IsBodies
<1>2. /\ Expanded(bs) \in Expansions(bs)
      /\ \A R \in SUBSET D : \A n \in D : E(R, n) = IF n \in R THEN Bad ELSE Substitute(bs[n], Expanded(bs)[R \cup {n}])
  BY ExpandedLaw DEF Fitting
<1>3. \A R \in SUBSET D : \A n \in D : E(R, n) \in Tree
  BY DEF Fitting
<1>4. ASSUME NEW R \in SUBSET D, \A n \in D \ R : R \cup {n} \in S, NEW n \in D PROVE Unprimed(E(R, n))
  <2>1. CASE n \in R
    BY <1>2, <2>1, BadHoles
  <2>2. CASE n \notin R
    <3> DEFINE by == Expanded(bs)[R \cup {n}]
    <3>1. R \cup {n} \in SUBSET D
      OBVIOUS
    <3>2. DOMAIN by = D /\ IsTreesFor(by)
      BY <1>2, <3>1 DEF Expansions, IsTreesFor
    <3>3. Substitute(bs[n], by) = E(R, n) /\ bs[n] \in Tree /\ E(R, n) \in Tree
      BY <1>1, <1>2, <1>3, <2>2
    <3>4. \A m \in D : Unprimed(by[m])
      BY <1>4, <2>2
    <3> HIDE DEF by, E
    <3> QED
      BY <3>2, <3>3, <3>4, SubstituteUnprimed
  <2> QED
    BY <2>1, <2>2
<1>5. \A R \in SUBSET D : R \in S
  <2>1. \A R \in SUBSET D : (\A n \in D \ R : R \cup {n} \in S) => R \in S
    <3> HIDE DEF E
    <3> QED
      BY <1>4
  <2> HIDE DEF S
  <2> QED
    BY <1>1, <2>1, DownwardInduction
<1> QED
  BY <1>5

(* What an expression is expanded with, no label being in expansion.       *)
LEMMA Outermost ==
  ASSUME NEW bs, Fitting(bs), NEW by, by = Expanded(bs)[{}]
  PROVE  /\ DOMAIN by = DOMAIN bs /\ IsTreesFor(by)
         /\ \A n \in DOMAIN bs : by[n] \in Tree
         /\ \A x : Expand(x, bs) = Substitute(x, by)
<1>1. {} \in SUBSET DOMAIN bs
  OBVIOUS
<1>2. Expanded(bs) \in [SUBSET DOMAIN bs -> [DOMAIN bs -> Trees]]
  BY ExpandedLaw DEF Expansions, Fitting
<1>3. by \in [DOMAIN bs -> Trees]
  BY <1>1, <1>2
<1>4. \A n \in DOMAIN bs : by[n] \in Tree
  BY <1>1 DEF Fitting
<1> QED
  BY <1>3, <1>4 DEF IsTreesFor, Expand

LEMMA ExpandUnprimed ==
  ASSUME NEW bs, Fitting(bs), Bad \in Tree, \A n \in DOMAIN bs : Unprimed(bs[n]),
         NEW x \in Tree, Unprimed(x), Expand(x, bs) \in Tree
  PROVE  Unprimed(Expand(x, bs))
<1> DEFINE by == Expanded(bs)[{}]
<1>1. {} \in SUBSET DOMAIN bs
  OBVIOUS
<1>2. \A n \in DOMAIN bs : Unprimed(by[n])
  BY <1>1, ExpandedUnprimed
<1>3. DOMAIN by = DOMAIN bs /\ IsTreesFor(by) /\ Expand(x, bs) = Substitute(x, by)
  BY Outermost
<1> HIDE DEF by
<1> QED
  BY <1>2, <1>3, SubstituteUnprimed

(* Expanding keeps the meaning of what it leaves whole.                    *)
LEMMA ExpandMeaning ==
  ASSUME NEW bs, Fitting(bs), Bad \in Tree, NEW means, IsMeans(means),
         \A n \in DOMAIN bs : <<"label", n>> \in DOMAIN means /\ MeaningUnder(bs[n], means) = means[<<"label", n>>],
         NEW x \in Tree, Expand(x, bs) \in Tree, Whole(Expand(x, bs))
  PROVE  MeaningUnder(Expand(x, bs), means) = MeaningUnder(x, means)
<1> DEFINE by == Expanded(bs)[{}]
<1>1. {} \in SUBSET DOMAIN bs
  OBVIOUS
<1>2. \A n \in DOMAIN bs : Whole(by[n]) => MeaningUnder(by[n], means) = means[<<"label", n>>]
  BY <1>1, ExpandedMeaning
<1>3. DOMAIN by = DOMAIN bs /\ IsTreesFor(by) /\ Expand(x, bs) = Substitute(x, by)
  BY Outermost
<1> HIDE DEF by
<1>4. \A n \in Labels(x) : n \in DOMAIN by /\ Filler(by, n) = by[n] /\ Whole(by[n])
  BY <1>3, WholeParts
<1>5. \A n \in Labels(x) : /\ <<"label", n>> \in DOMAIN means
                           /\ MeaningUnder(Filler(by, n), means) = means[<<"label", n>>]
  BY <1>2, <1>3, <1>4
<1> QED
  BY <1>3, <1>5, SubstituteMeaning

(* Nothing to expand.                                                      *)
LEMMA ExpandNone ==
  ASSUME NEW bs, IsBodies(bs), NEW x \in Tree, Labels(x) = {}
  PROVE  Expand(x, bs) = x
<1> DEFINE by == Expanded(bs)[{}]
<1>1. {} \in SUBSET DOMAIN bs
  OBVIOUS
<1>2. Expanded(bs) \in [SUBSET DOMAIN bs -> [DOMAIN bs -> Trees]]
  BY ExpandedLaw DEF Expansions
<1>3. by \in [DOMAIN bs -> Trees]
  BY <1>1, <1>2
<1>4. IsTreesFor(by)
  BY <1>3 DEF IsTreesFor
<1> HIDE DEF by
<1>5. Substitute(x, by) = x
  BY <1>4, SubstituteNone
<1> QED
  BY <1>5 DEF Expand, by

(* Bodies without labels are put in as they are.                           *)
LEMMA ExpandFlat ==
  ASSUME NEW bs, IsBodies(bs), \A n \in DOMAIN bs : Labels(bs[n]) = {}, Bad \in Tree
  PROVE  /\ Fitting(bs)
         /\ \A n \in DOMAIN bs : Expanded(bs)[{}][n] = bs[n]
<1> DEFINE D == DOMAIN bs
<1>1. \A R \in SUBSET D : \A n \in D :
        Expanded(bs)[R][n] = IF n \in R THEN Bad ELSE Substitute(bs[n], Expanded(bs)[R \cup {n}])
  BY ExpandedLaw
<1>2. ASSUME NEW R \in SUBSET D, NEW n \in D, n \notin R
      PROVE  Expanded(bs)[R][n] = bs[n]
  <2> DEFINE by == Expanded(bs)[R \cup {n}]
  <2>1. R \cup {n} \in SUBSET D
    OBVIOUS
  <2>2. Expanded(bs) \in [SUBSET D -> [D -> Trees]]
    BY ExpandedLaw DEF Expansions
  <2>3. IsTreesFor(by)
    BY <2>1, <2>2 DEF IsTreesFor
  <2>4. bs[n] \in Tree /\ Labels(bs[n]) = {}
    BY DEF IsBodies
  <2>5. Expanded(bs)[R][n] = Substitute(bs[n], by)
    BY <1>1, <1>2
  <2> HIDE DEF by
  <2> QED
    BY <2>3, <2>4, <2>5, SubstituteNone
<1>3. \A R \in SUBSET D : \A n \in D : Expanded(bs)[R][n] \in Tree
  BY <1>1, <1>2 DEF IsBodies
<1>4. {} \in SUBSET D /\ \A n \in D : n \notin {}
  OBVIOUS
<1> QED
  BY <1>2, <1>3, <1>4 DEF Fitting

-----------------------------------------------------------------------------
(* What the analysis has made of a text *)

(* The states in which texts are compared, with the empty one in which     *)
(* constants are read.                                                     *)
States(model) == Valuations(model) \cup {<<>>}

(* The levels of a label's body once it is expanded.                       *)
Top(model) == (Levels - 1) * (Len(model.labels) + 1) + 1

LEMMA TopIs ==
  ASSUME NEW model \in Inputs
  PROVE  /\ Top(model) \in Nat \ {0} /\ Levels - 1 + Top(model) \in Nat
         /\ Within[Top(model)] \subseteq Tree /\ Source \subseteq Within[Top(model)]
         /\ Within[Levels - 1 + Top(model)] \subseteq Tree
         /\ Within[1] \subseteq Within[Top(model)] /\ Bad \in Tree /\ Absent \in Tree
<1> DEFINE k == Len(model.labels)
           l == Levels
           t == Top(model)
<1>1. k \in Nat
  BY InputIs
<1>2. l \in Nat /\ 1 <= l /\ Height \in Nat /\ l * (k + 2) <= Height
  <2>1. Levels * (Len(model.labels) + 2) <= Height
    BY InputAssumption DEF InputShape
  <2>2. l \in Nat /\ 1 <= l /\ Height \in Nat
    BY HeightNat
  <2> QED
    BY <2>1, <2>2
<1>3. t = (l - 1) * (k + 1) + 1
  BY DEF Top
<1> HIDE DEF k, l, t
<1>4. (l - 1) * (k + 1) = l * (k + 2) - l - k - 1
  <2>1. (l - 1) * (k + 1) = l * k + l - k - 1
    BY <1>1, <1>2
  <2>2. l * (k + 2) = l * k + 2 * l
    BY <1>1, <1>2
  <2>3. l * k \in Nat
    BY <1>1, <1>2
  <2> QED
    BY <1>1, <1>2, <2>1, <2>2, <2>3
<1>5. l - 1 <= (l - 1) * (k + 1) /\ (l - 1) * (k + 1) \in Nat
  <2> DEFINE m == l - 1
  <2>1. m \in Nat
    BY <1>2
  <2> HIDE DEF m
  <2>2. m * (k + 1) = m * k + m /\ m * k \in Nat
    BY <1>1, <2>1
  <2>3. m <= m * (k + 1) /\ m * (k + 1) \in Nat
    BY <2>1, <2>2
  <2> QED
    BY <2>3 DEF m
<1> DEFINE p == (l - 1) * (k + 1)
           q == l * (k + 2)
<1>6. p = q - l - k - 1 /\ l - 1 <= p /\ p \in Nat /\ q <= Height /\ t = p + 1 /\ q \in Int
  BY <1>1, <1>2, <1>3, <1>4, <1>5
<1> HIDE DEF p, q
<1>7. t \in Nat \ {0} /\ l <= t /\ 1 <= t /\ t <= Height /\ l - 1 + t \in Nat /\ l - 1 + t <= Height /\ 1 <= Height
  BY <1>1, <1>2, <1>6
<1>8. Within[t] \subseteq Tree /\ Within[l] \subseteq Within[t] /\ Within[1] \subseteq Within[t] /\ Within[1] \subseteq Tree
  BY <1>2, <1>7, WithinMonotone DEF Tree
<1> DEFINE s == l - 1 + t
<1>9. Within[s] \subseteq Tree
  <2>1. s \in Nat /\ s <= Height
    BY <1>7
  <2> HIDE DEF s
  <2> QED
    BY <1>2, <2>1, WithinMonotone DEF Tree
<1>10. Bad \in Tree /\ Absent \in Tree
  BY <1>8, BadWithin
<1> QED
  BY <1>7, <1>8, <1>9, <1>10 DEF Source, t, l

LEMMA NamesFewer ==
  ASSUME NEW R, NEW s \in Seq(R)
  PROVE  /\ IsFiniteSet(NamesIn(s)) /\ Cardinality(NamesIn(s)) \in Nat
         /\ Cardinality(NamesIn(s)) <= Len(s) /\ Len(s) \in Nat
<1> DEFINE f == [i \in DOMAIN s |-> s[i].name]
<1>1. Len(s) \in Nat /\ DOMAIN s = 1 .. Len(s)
  OBVIOUS
<1>2. IsFiniteSet(DOMAIN s) /\ Cardinality(DOMAIN s) = Len(s)
  <2> DEFINE n == Len(s)
  <2>1. n \in Nat
    BY <1>1
  <2> HIDE DEF n
  <2>2. IsFiniteSet(1 .. n) /\ Cardinality(1 .. n) = n
    BY <2>1, FS_Interval
  <2> QED
    BY <1>1, <2>2 DEF n
<1>3. f \in Surjection(DOMAIN s, NamesIn(s))
  BY DEF Surjection, NamesIn
<1>4. IsFiniteSet(NamesIn(s)) /\ Cardinality(NamesIn(s)) <= Cardinality(DOMAIN s)
  BY <1>2, <1>3, FS_Surjection
<1> QED
  BY <1>1, <1>2, <1>4, FS_CardinalityType

(* Bodies of labels as the first pass has them.                            *)
SourceBodies(model, bs) ==
  /\ DOMAIN bs = NamesIn(model.labels)
  /\ \A n \in DOMAIN bs : bs[n] \in Source /\ Unprimed(bs[n])

LEMMA SourceFitting ==
  ASSUME NEW model \in Inputs, NEW bs, SourceBodies(model, bs)
  PROVE  /\ Fitting(bs)
         /\ \A x \in Source : Expand(x, bs) \in Within[Top(model)]
<1> DEFINE D == DOMAIN bs
           c == Cardinality(D)
           t == Top(model)
           m == Levels - 1
<1>1. IsBodies(bs) /\ c \in Nat /\ c <= Len(model.labels) /\ Len(model.labels) \in Nat
  <2>1. IsFiniteSet(D) /\ c \in Nat /\ c <= Len(model.labels) /\ Len(model.labels) \in Nat
    BY InputIs, NamesFewer DEF SourceBodies
  <2> QED
    BY <2>1, InputIs DEF SourceBodies, IsBodies
<1>2. Levels \in Nat \ {0} /\ m \in Nat /\ Levels = m + 1 /\ t \in Nat /\ Within[t] \subseteq Tree
  BY HeightNat, TopIs
<1>3. t = m * (Len(model.labels) + 1) + 1
  BY DEF Top
<1>4. \A n \in D : bs[n] \in Within[Levels]
  BY DEF SourceBodies, Source
<1> HIDE DEF m, t
<1>5. ASSUME NEW k \in Nat, k <= Len(model.labels)
      PROVE  m * k + 1 \in Nat /\ m * k + 1 <= t /\ Levels - 1 + (m * k + 1) <= t /\ Levels - 1 + (m * k + 1) \in Nat
  <2> DEFINE j == Len(model.labels) - k
  <2>1. j \in Nat /\ Len(model.labels) = k + j
    BY <1>1, <1>5
  <2> HIDE DEF j
  <2>2. m * (Len(model.labels) + 1) = m * k + m * j + m
    BY <1>2, <1>5, <2>1
  <2>3. m * k \in Nat /\ m * j \in Nat
    BY <1>2, <1>5, <2>1
  <2> DEFINE p == m * k
             q == m * j
  <2> HIDE DEF p, q
  <2>4. p \in Nat /\ q \in Nat /\ t = p + q + m + 1
    BY <1>3, <2>2, <2>3 DEF p, q
  <2>5. p + 1 \in Nat /\ p + 1 <= t /\ Levels - 1 + (p + 1) <= t /\ Levels - 1 + (p + 1) \in Nat
    BY <1>2, <2>4
  <2> QED
    BY <2>5 DEF p
<1>6. ASSUME NEW R \in SUBSET D, NEW n \in D PROVE Expanded(bs)[R][n] \in Tree
  <2> DEFINE k == Cardinality(D \ R)
  <2>1. Expanded(bs)[R][n] \in Within[m * k + 1]
    BY <1>1, <1>2, <1>4, ExpandedHeight DEF m
  <2>2. k \in Nat /\ k <= c
    BY <1>1, FewerLeft DEF IsBodies
  <2>3. k <= Len(model.labels)
    <3> HIDE DEF k, c
    <3> QED
      BY <1>1, <2>2
  <2> HIDE DEF k
  <2>4. m * k + 1 \in Nat /\ m * k + 1 <= t
    BY <1>5, <2>2, <2>3
  <2> QED
    BY <1>2, <2>1, <2>4, WithinMonotone
<1>7. ASSUME NEW x \in Source PROVE Expand(x, bs) \in Within[t]
  <2>1. x \in Tree /\ x \in Within[Levels]
    BY InputIs DEF Source
  <2>2. Expand(x, bs) \in Within[Levels - 1 + (m * c + 1)]
    BY <1>1, <1>2, <1>4, <2>1, ExpandHeight DEF m
  <2> HIDE DEF c
  <2>3. Levels - 1 + (m * c + 1) <= t /\ Levels - 1 + (m * c + 1) \in Nat
    BY <1>1, <1>5
  <2> DEFINE s == Levels - 1 + (m * c + 1)
  <2> HIDE DEF s
  <2>4. s \in Nat /\ s <= t /\ Expand(x, bs) \in Within[s]
    BY <2>2, <2>3 DEF s
  <2> QED
    BY <1>2, <2>4, WithinMonotone
<1> QED
  BY <1>1, <1>6, <1>7 DEF Fitting, t

(* What was known before the states are given is known in each of them.    *)
LEMMA MeansBelow ==
  ASSUME NEW model \in Inputs, NEW env, IsState(env)
  PROVE  Below(Means(model, <<>>), Means(model, env))
<1>1. PICK g : IsRounds(model, <<>>, g) /\ Means(model, <<>>) = g[Cardinality(Keys(model))]
  BY NoState, MeansLaw
<1> DEFINE means == Means(model, env)
           good  == {k \in Nat : Below(g[k], means)}
<1>2. /\ IsMeans(means) /\ DOMAIN means = Keys(model)
      /\ \A key \in Keys(model) :
           means[key] = IF key \in VarKeys(model) THEN Given(env, key) ELSE MeaningUnder(TextOf(model, key), means)
  BY MeansIs
<1>3. \A n \in Nat : g[n] \in Known(model) /\ Single(g[n]) /\ g[n + 1] = Round(model, <<>>, g[n])
  <2>1. \A n \in Nat : Single(g[n])
    BY <1>1, NoState, RoundsGrow
  <2> QED
    BY <1>1, <2>1 DEF IsRounds
<1>4. \A n \in Nat : IsMeans(g[n]) /\ DOMAIN g[n] = Keys(model)
  BY <1>3, KnownIs
<1> HIDE DEF means
<1>5. 0 \in good
  <2>1. g[0] = Start(model, <<>>)
    BY <1>1 DEF IsRounds
  <2>2. \A key \in Keys(model) : g[0][key] = {}
    BY <2>1, NoState DEF Start
  <2>3. DOMAIN g[0] = Keys(model)
    BY <2>1 DEF Start
  <2> QED
    BY <1>2, <2>2, <2>3 DEF Below
<1>6. ASSUME NEW k \in good PROVE k + 1 \in good
  <2>1. k \in Nat /\ k + 1 \in Nat /\ Below(g[k], means)
    OBVIOUS
  <2>2. ASSUME NEW key \in Keys(model) PROVE g[k + 1][key] = {} \/ means[key] = g[k + 1][key]
    <3>1. g[k + 1][key] = IF key \in VarKeys(model) THEN Given(<<>>, key) ELSE MeaningUnder(TextOf(model, key), g[k])
      BY <1>3, <2>1 DEF Round
    <3>2. CASE key \in VarKeys(model)
      BY <3>1, <3>2, NoState
    <3>3. CASE key \notin VarKeys(model)
      <4> DEFINE x == TextOf(model, key)
      <4>1. x \in Tree
        <5>1. x \in Source
          BY <3>3, TextIs
        <5> QED
          BY <5>1, InputIs
      <4>2. MeaningUnder(x, g[k]) = {} \/ MeaningUnder(x, means) = MeaningUnder(x, g[k])
        <5> HIDE DEF x
        <5>1. IsMeans(g[k]) /\ Single(g[k])
          BY <1>3, <1>4, <2>1
        <5> QED
          BY <1>2, <2>1, <4>1, <5>1, MeaningGrows
      <4> HIDE DEF x
      <4>3. means[key] = MeaningUnder(x, means) /\ g[k + 1][key] = MeaningUnder(x, g[k])
        BY <1>2, <3>1, <3>3 DEF x
      <4> QED
        BY <4>2, <4>3
    <3> QED
      BY <3>2, <3>3
  <2>3. DOMAIN g[k + 1] = Keys(model)
    BY <1>4, <2>1
  <2> QED
    BY <1>2, <2>1, <2>2, <2>3 DEF Below
<1>7. good = Nat
  BY <1>5, <1>6, SetInduction
<1>8. Cardinality(Keys(model)) \in Nat
  BY KeysFinite, FS_CardinalityType
<1> QED
  BY <1>1, <1>7, <1>8 DEF means

LEMMA StatesAre ==
  ASSUME NEW model \in Inputs, NEW env \in States(model)
  PROVE  IsState(env)
<1>1. Zero \in Fraction /\ One \in Fraction /\ <<2, 1>> \in Fraction
  BY Constants DEF Fraction
<1>2. CASE env = <<>>
  BY <1>2, NoState
<1>3. CASE env \in [NamesIn(model.vars) -> {Zero, One}]
  BY <1>1, <1>3 DEF IsState
<1>4. CASE env = [n \in NamesIn(model.vars) |-> IF Named(model.vars, n).type = "int" THEN <<2, 1>> ELSE One]
  BY <1>1, <1>4 DEF IsState
<1> QED
  BY <1>2, <1>3, <1>4 DEF States, Valuations

(* The resolved constants have their values in every state.                *)
LEMMA ResolvedAgree ==
  ASSUME NEW model \in Inputs, Distinct(model.consts \o model.vars), NEW res, Resolves(model, res),
         NEW env, IsState(env)
  PROVE  ValsTyped(res, TypesIn(model)) /\ Agrees(res, Means(model, env))
<1>1. ValsTyped(res, TypesIn(model)) /\ Agrees(res, Means(model, <<>>))
  BY ResolvesVals
<1>2. Below(Means(model, <<>>), Means(model, env))
  BY MeansBelow
<1> DEFINE m == Means(model, <<>>)
           n == Means(model, env)
<1>3. Agrees(res, m) /\ Below(m, n)
  BY <1>1, <1>2
<1> HIDE DEF m, n
<1>4. Agrees(res, n)
  BY <1>3 DEF Agrees, Below
<1> QED
  BY <1>1, <1>4 DEF n

(* The text has this meaning still, in every state.                        *)
Keeps(model, text, x) ==
  \A env \in States(model) : MeaningUnder(x, Means(model, env)) = Meaning(model, text, env)

LEMMA KeepsItself == ASSUME NEW model, NEW x PROVE Keeps(model, x, x)
BY DEF Keeps, Meaning

(* Folding a tree with the constants resolved.                             *)
LEMMA FoldKeeps ==
  ASSUME NEW model \in Inputs, Distinct(model.consts \o model.vars), NEW res, Resolves(model, res),
         NEW text, NEW x \in Tree, Keeps(model, text, x)
  PROVE  /\ Keeps(model, text, Fold(x, res))
         /\ Fold(x, res) \in Tree
         /\ \A n \in Nat : x \in Within[n] => Fold(x, res) \in Within[n]
         /\ Unprimed(x) => Unprimed(Fold(x, res))
         /\ \A ref \in {"bool", "error"} :
              InferWith(x, TypesIn(model), ref) # "error" =>
                Promotes(InferWith(Fold(x, res), TypesIn(model), ref), InferWith(x, TypesIn(model), ref))
<1>1. ValsTyped(res, TypesIn(model))
  BY NoState, ResolvedAgree
<1>2. IsVals(res) /\ IsTypes(TypesIn(model))
  BY <1>1, TypesInIs DEF ValsTyped
<1>3. ASSUME NEW env \in States(model)
      PROVE  MeaningUnder(Fold(x, res), Means(model, env)) = MeaningUnder(x, Means(model, env))
  <2> DEFINE means == Means(model, env)
  <2>1. Agrees(res, means) /\ IsMeans(means)
    BY StatesAre, ResolvedAgree, MeansIs
  <2> HIDE DEF means
  <2>2. MeaningUnder(Fold(x, res), means) = MeaningUnder(x, means)
    BY <1>2, <2>1, FoldMeaning DEF Agrees
  <2> QED
    BY <2>2 DEF means
<1>4. Keeps(model, text, Fold(x, res))
  BY <1>3 DEF Keeps
<1>5. Fold(x, res) \in Tree /\ \A n \in Nat : x \in Within[n] => Fold(x, res) \in Within[n]
  BY <1>2, FoldTree, FoldHeight
<1>6. Unprimed(x) => Unprimed(Fold(x, res))
  BY <1>2, FoldHoles DEF Unprimed
<1>7. \A ref \in {"bool", "error"} :
        InferWith(x, TypesIn(model), ref) # "error" =>
          Promotes(InferWith(Fold(x, res), TypesIn(model), ref), InferWith(x, TypesIn(model), ref))
  BY <1>1, <1>2, FoldType
<1> QED
  BY <1>4, <1>5, <1>6, <1>7

(* A label as the first pass leaves it: a truth value without labels.      *)
Opened(model, x) ==
  x \in Within[Top(model)] /\ Unprimed(x) /\ Infer(x, TypesIn(model)) = "bool"

(* The bodies of the labels as the input gives them, and as a pass over    *)
(* opened labels finds them.                                               *)
LabelText(model, n) == Named(model.labels, n).expr
Texts(model) == [n \in NamesIn(model.labels) |-> LabelText(model, n)]
OpenBodies(model, bs) ==
  /\ DOMAIN bs = NamesIn(model.labels)
  /\ \A n \in DOMAIN bs : Opened(model, bs[n]) /\ Keeps(model, LabelText(model, n), bs[n])

LEMMA TypedHere ==
  ASSUME NEW model \in Inputs, NEW x \in Tree, Infer(x, TypesIn(model)) # "error"
  PROVE  /\ \A h \in Holes(x) : h.op \in {"ident", "primed"} /\ h.name \in DOMAIN TypesIn(model)
         /\ Labels(x) = {} /\ Whole(x)
<1>1. InferWith(x, TypesIn(model), "error") # "error" /\ IsTypes(TypesIn(model))
  BY TypesInIs DEF Infer
<1>2. \A h \in Holes(x) : h.op \in {"ident", "primed"} /\ h.name \in DOMAIN TypesIn(model)
  BY <1>1, TypedHoles
<1>3. Labels(x) = {}
  BY <1>2, HolesAre
<1> QED
  BY <1>2, <1>3 DEF Whole

LEMMA OpenedIs ==
  ASSUME NEW model \in Inputs, NEW x, Opened(model, x)
  PROVE  x \in Tree /\ Labels(x) = {} /\ Whole(x)
<1>1. x \in Tree /\ Infer(x, TypesIn(model)) # "error"
  BY TopIs DEF Opened
<1> QED
  BY <1>1, TypedHere

LEMMA OpenedFolds ==
  ASSUME NEW model \in Inputs, Distinct(model.consts \o model.vars), NEW res, Resolves(model, res),
         NEW text, NEW x, Opened(model, x), Keeps(model, text, x)
  PROVE  Opened(model, Fold(x, res)) /\ Keeps(model, text, Fold(x, res))
<1>1. x \in Tree /\ Top(model) \in Nat
  BY OpenedIs, TopIs
<1>2. /\ Keeps(model, text, Fold(x, res))
      /\ \A n \in Nat : x \in Within[n] => Fold(x, res) \in Within[n]
      /\ Unprimed(x) => Unprimed(Fold(x, res))
      /\ \A ref \in {"bool", "error"} :
           InferWith(x, TypesIn(model), ref) # "error" =>
             Promotes(InferWith(Fold(x, res), TypesIn(model), ref), InferWith(x, TypesIn(model), ref))
  BY <1>1, FoldKeeps
<1>3. InferWith(x, TypesIn(model), "error") = "bool"
  BY DEF Opened, Infer
<1>4. Promotes(InferWith(Fold(x, res), TypesIn(model), "error"), "bool")
  BY <1>2, <1>3
<1>5. Infer(Fold(x, res), TypesIn(model)) = "bool"
  BY <1>4 DEF Promotes, Infer
<1> QED
  BY <1>1, <1>2, <1>5 DEF Opened

(* What a label means is what its text means.                              *)
LEMMA LabelMeans ==
  ASSUME NEW model \in Inputs, NEW env, IsState(env), NEW n \in NamesIn(model.labels),
         NEW means, means = Means(model, env)
  PROVE  /\ IsMeans(means) /\ <<"label", n>> \in DOMAIN means
         /\ means[<<"label", n>>] = MeaningUnder(LabelText(model, n), means)
<1> DEFINE key == <<"label", n>>
<1>1. key \in LabelKeys(model) /\ key \notin VarKeys(model) /\ key \in Keys(model)
  BY DEF LabelKeys, VarKeys, Keys
<1>2. TextOf(model, key) = LabelText(model, n)
  BY <1>1 DEF TextOf, LabelText
<1>3. /\ IsMeans(Means(model, env)) /\ DOMAIN Means(model, env) = Keys(model)
      /\ \A k \in Keys(model) :
           Means(model, env)[k] = IF k \in VarKeys(model) THEN Given(env, k) ELSE MeaningUnder(TextOf(model, k), Means(model, env))
  BY MeansIs
<1> HIDE DEF key
<1>4. means[key] = MeaningUnder(LabelText(model, n), means)
  BY <1>1, <1>2, <1>3
<1> QED
  BY <1>1, <1>3, <1>4 DEF key

LEMMA TextsAre ==
  ASSUME NEW model \in Inputs
  PROVE  /\ SourceBodies(model, Texts(model)) /\ Fitting(Texts(model))
         /\ \A i \in DOMAIN model.labels : model.labels[i].expr \in Source /\ Unprimed(model.labels[i].expr)
<1>1. ASSUME NEW x \in Source, "primed" \notin Ops(x) PROVE Unprimed(x)
  <2>1. x \in Tree /\ "primed" \in Gaps
    BY InputIs DEF Gaps
  <2> QED
    BY <1>1, <2>1, HolesAre DEF Unprimed
<1> DEFINE R == [name : Name, expr : Source]
<1>2. model.labels \in Seq(R)
  BY InputIs
<1>3. \A i \in DOMAIN model.labels : model.labels[i].expr \in Source
  <2>1. \A r \in R : r.expr \in Source
    OBVIOUS
  <2> HIDE DEF R
  <2>2. \A i \in DOMAIN model.labels : model.labels[i] \in R
    BY <1>2
  <2> QED
    BY <2>1, <2>2
<1>4. ASSUME NEW i \in DOMAIN model.labels PROVE Unprimed(model.labels[i].expr)
  <2>1. "primed" \notin Ops(model.labels[i].expr)
    BY InputAssumption DEF InputShape
  <2> QED
    BY <1>1, <1>3, <2>1
<1>5. ASSUME NEW n \in NamesIn(model.labels) PROVE LabelText(model, n) \in Source /\ Unprimed(LabelText(model, n))
  <2> HIDE DEF R
  <2>1. \E i \in DOMAIN model.labels : Named(model.labels, n) = model.labels[i]
    BY <1>2, NamedIs
  <2> QED
    BY <1>3, <1>4, <2>1 DEF LabelText
<1>6. SourceBodies(model, Texts(model))
  BY <1>5 DEF SourceBodies, Texts
<1> QED
  BY <1>3, <1>4, <1>6, SourceFitting

(* The first pass opens a label.                                           *)
LEMMA SourceOpens ==
  ASSUME NEW model \in Inputs, NEW text, NEW x \in Source, Unprimed(x), Keeps(model, text, x),
         NEW y, y = Expand(x, Texts(model)), Infer(y, TypesIn(model)) = "bool"
  PROVE  Opened(model, y) /\ Keeps(model, text, y)
<1> DEFINE bs == Texts(model)
<1>1. SourceBodies(model, bs) /\ Fitting(bs) /\ Bad \in Tree /\ x \in Tree
  BY TextsAre, TopIs, InputIs
<1>2. y \in Within[Top(model)] /\ y \in Tree
  BY <1>1, SourceFitting, TopIs
<1>3. Whole(y)
  BY <1>2, TypedHere
<1>4. Unprimed(y)
  <2>1. \A n \in DOMAIN bs : Unprimed(bs[n])
    BY <1>1 DEF SourceBodies
  <2> HIDE DEF bs
  <2>2. y = Expand(x, bs)
    BY DEF bs
  <2> QED
    BY <1>1, <1>2, <2>1, <2>2, ExpandUnprimed
<1>5. ASSUME NEW env \in States(model)
      PROVE  MeaningUnder(y, Means(model, env)) = Meaning(model, text, env)
  <2> DEFINE means == Means(model, env)
  <2>1. \A n \in NamesIn(model.labels) :
          <<"label", n>> \in DOMAIN means /\ means[<<"label", n>>] = MeaningUnder(LabelText(model, n), means)
    BY StatesAre, LabelMeans
  <2>2. IsMeans(means)
    BY StatesAre, MeansIs
  <2>3. MeaningUnder(x, means) = Meaning(model, text, env)
    BY DEF Keeps
  <2> HIDE DEF means
  <2>4. \A n \in DOMAIN bs : <<"label", n>> \in DOMAIN means /\ MeaningUnder(bs[n], means) = means[<<"label", n>>]
    BY <2>1 DEF Texts
  <2> HIDE DEF bs
  <2>5. y = Expand(x, bs)
    BY DEF bs
  <2>6. MeaningUnder(y, means) = MeaningUnder(x, means)
    BY <1>1, <1>2, <1>3, <2>2, <2>4, <2>5, ExpandMeaning
  <2> QED
    BY <2>3, <2>6 DEF means
<1> QED
  BY <1>2, <1>4, <1>5 DEF Opened, Keeps

(* Opened bodies, and a text expanded with them.                           *)
LEMMA OpenFitting ==
  ASSUME NEW model \in Inputs, NEW bs, OpenBodies(model, bs)
  PROVE  /\ IsBodies(bs) /\ Fitting(bs) /\ \A n \in DOMAIN bs : Expanded(bs)[{}][n] = bs[n]
         /\ \A x \in Source : Expand(x, bs) \in Tree
<1>1. \A n \in DOMAIN bs : bs[n] \in Tree /\ Labels(bs[n]) = {} /\ bs[n] \in Within[Top(model)]
  BY OpenedIs DEF OpenBodies, Opened
<1>2. IsBodies(bs)
  BY <1>1, InputIs, NamesFinite DEF OpenBodies, IsBodies
<1>3. Fitting(bs) /\ \A n \in DOMAIN bs : Expanded(bs)[{}][n] = bs[n]
  BY <1>1, <1>2, TopIs, ExpandFlat
<1>4. ASSUME NEW x \in Source PROVE Expand(x, bs) \in Tree
  <2> DEFINE by == Expanded(bs)[{}]
  <2>1. DOMAIN by = DOMAIN bs /\ Expand(x, bs) = Substitute(x, by)
    BY <1>3, Outermost
  <2>2. \A n \in DOMAIN by : by[n] \in Within[Top(model)]
    BY <1>1, <1>3, <2>1
  <2>3. x \in Tree /\ x \in Within[Levels] /\ Levels \in Nat /\ Top(model) \in Nat /\ Top(model) # 0
    BY InputIs, HeightNat, TopIs DEF Source
  <2> HIDE DEF by
  <2>4. Substitute(x, by) \in Within[Levels - 1 + Top(model)]
    BY <2>2, <2>3, SubstituteHeight
  <2> QED
    BY <2>1, <2>4, TopIs
<1> QED
  BY <1>2, <1>3, <1>4

LEMMA OpenExpands ==
  ASSUME NEW model \in Inputs, NEW bs, OpenBodies(model, bs), NEW x \in Source,
         NEW y, y = Expand(x, bs)
  PROVE  /\ y \in Tree
         /\ Unprimed(x) => Unprimed(y)
         /\ Whole(y) => Keeps(model, x, y)
<1>1. Fitting(bs) /\ y \in Tree /\ x \in Tree /\ Bad \in Tree
  BY OpenFitting, InputIs, TopIs
<1>2. Unprimed(x) => Unprimed(y)
  <2>1. \A n \in DOMAIN bs : Unprimed(bs[n])
    BY DEF OpenBodies, Opened
  <2> QED
    BY <1>1, <2>1, ExpandUnprimed
<1>3. ASSUME NEW env \in States(model), Whole(y)
      PROVE  MeaningUnder(y, Means(model, env)) = Meaning(model, x, env)
  <2> DEFINE means == Means(model, env)
  <2>1. \A n \in NamesIn(model.labels) :
          <<"label", n>> \in DOMAIN means /\ means[<<"label", n>>] = MeaningUnder(LabelText(model, n), means)
    BY StatesAre, LabelMeans
  <2>2. IsMeans(means)
    BY StatesAre, MeansIs
  <2>3. \A n \in DOMAIN bs : MeaningUnder(bs[n], means) = MeaningUnder(LabelText(model, n), means)
    BY DEF OpenBodies, Keeps, Meaning
  <2>4. \A n \in DOMAIN bs : <<"label", n>> \in DOMAIN means /\ MeaningUnder(bs[n], means) = means[<<"label", n>>]
    BY <2>1, <2>3 DEF OpenBodies
  <2> HIDE DEF means
  <2>5. MeaningUnder(y, means) = MeaningUnder(x, means)
    BY <1>1, <1>3, <2>2, <2>4, ExpandMeaning
  <2> QED
    BY <2>5 DEF means, Meaning
<1> QED
  BY <1>1, <1>2, <1>3 DEF Keeps

-----------------------------------------------------------------------------
(* The translation *)

IsEnv(env) == env \in [DOMAIN env -> Fraction]

LEMMA NoValueIs == NoValue \in Fraction
BY DEF NoValue, Fraction

LEMMA TranslateRule ==
  ASSUME NEW cur, IsEnv(cur), NEW nxt, IsEnv(nxt), NEW x \in Tree, NEW v \in Seq(Fraction),
         Len(v) = Arity(x.op), DOMAIN v = 1 .. Arity(x.op)
  PROVE  TranslateNode(x, v, cur, nxt) \in Fraction
<1>1. x.val \in Fraction /\ (x.name \in DOMAIN cur => cur[x.name] \in Fraction)
      /\ (x.name \in DOMAIN nxt => nxt[x.name] \in Fraction)
  BY TreeNode DEF IsEnv, Shaped
<1>2. x.op \in {"not", "neg"} => v[1] \in Fraction
  BY ArityIs
<1>3. x.op \in Binary => v[1] \in Fraction /\ v[2] \in Fraction
  BY ArityIs
<1>4. x.op = "?:" => v[2] \in Fraction /\ v[3] \in Fraction
  BY ArityIs
<1>5. /\ "-" \in Arith /\ "*" \in Arith /\ "&" \in Binary /\ Arith \subseteq Binary
      /\ Zero \in Fraction /\ One \in Fraction /\ \A p : AsTruth(p) \in Fraction
  BY Constants DEF Arith, Binary, Logical
<1>6. \A op \in Arith : \A a, b \in Fraction : Calculate(op, a, b) \in Fraction
  BY CalculateFraction
<1>7. x.op = "not" => Calculate("-", One, v[1]) \in Fraction
  BY <1>2, <1>5, <1>6
<1>8. x.op = "neg" => Calculate("-", Zero, v[1]) \in Fraction
  BY <1>2, <1>5, <1>6
<1>9. x.op = "&" => Calculate("*", v[1], v[2]) \in Fraction
  BY <1>3, <1>5, <1>6
<1>10. x.op \in Arith => Calculate(x.op, v[1], v[2]) \in Fraction
  BY <1>3, <1>5, <1>6
<1>11. x.op = "?:" => (IF Compare(">", v[1], Zero) THEN v[2] ELSE v[3]) \in Fraction
  BY <1>4
<1> QED
  BY <1>1, <1>5, <1>7, <1>8, <1>9, <1>10, <1>11, NoValueIs DEF TranslateNode

(* What a node is translated to, constructor by constructor.               *)
LEMMA TranslateCases ==
  ASSUME NEW x, NEW v, NEW cur, NEW nxt
  PROVE  /\ IsLiteral(x) => TranslateNode(x, v, cur, nxt) = x.val
         /\ x.op = "ident" /\ x.name \in DOMAIN cur => TranslateNode(x, v, cur, nxt) = cur[x.name]
         /\ x.op = "not" => TranslateNode(x, v, cur, nxt) = Calculate("-", One, v[1])
         /\ x.op = "neg" => TranslateNode(x, v, cur, nxt) = Calculate("-", Zero, v[1])
         /\ x.op = "&" => TranslateNode(x, v, cur, nxt) = Calculate("*", v[1], v[2])
         /\ x.op = "|" => TranslateNode(x, v, cur, nxt) = AsTruth(Compare(">", v[1], Zero) \/ Compare(">", v[2], Zero))
         /\ x.op \in Arith => TranslateNode(x, v, cur, nxt) = Calculate(x.op, v[1], v[2])
         /\ x.op \in Order \cup Equal => TranslateNode(x, v, cur, nxt) = AsTruth(Compare(x.op, v[1], v[2]))
         /\ x.op = "?:" => TranslateNode(x, v, cur, nxt) = IF Compare(">", v[1], Zero) THEN v[2] ELSE v[3]
<1> USE DEF IsLiteral, Kinds, Arith, Order, Equal
<1>1. IsLiteral(x) => TranslateNode(x, v, cur, nxt) = x.val
  BY DEF TranslateNode
<1>2. x.op = "ident" /\ x.name \in DOMAIN cur => TranslateNode(x, v, cur, nxt) = cur[x.name]
  BY DEF TranslateNode
<1>3. x.op = "not" => TranslateNode(x, v, cur, nxt) = Calculate("-", One, v[1])
  BY DEF TranslateNode
<1>4. x.op = "neg" => TranslateNode(x, v, cur, nxt) = Calculate("-", Zero, v[1])
  BY DEF TranslateNode
<1>5. x.op = "&" => TranslateNode(x, v, cur, nxt) = Calculate("*", v[1], v[2])
  BY DEF TranslateNode
<1>6. x.op = "|" => TranslateNode(x, v, cur, nxt) = AsTruth(Compare(">", v[1], Zero) \/ Compare(">", v[2], Zero))
  BY DEF TranslateNode
<1>7. x.op \in Arith => TranslateNode(x, v, cur, nxt) = Calculate(x.op, v[1], v[2])
  BY DEF TranslateNode
<1>8. x.op \in Order \cup Equal => TranslateNode(x, v, cur, nxt) = AsTruth(Compare(x.op, v[1], v[2]))
  BY DEF TranslateNode
<1>9. x.op = "?:" => TranslateNode(x, v, cur, nxt) = IF Compare(">", v[1], Zero) THEN v[2] ELSE v[3]
  BY DEF TranslateNode
<1> QED
  BY <1>1, <1>2, <1>3, <1>4, <1>5, <1>6, <1>7, <1>8, <1>9

LEMMA TranslateLaw ==
  ASSUME NEW cur, IsEnv(cur), NEW nxt, IsEnv(nxt)
  PROVE  \A x \in Tree :
           /\ Translate(x, cur, nxt)
                = TranslateNode(x, [i \in DOMAIN x.args |-> Translate(x.args[i], cur, nxt)], cur, nxt)
           /\ Translate(x, cur, nxt) \in Fraction
<1> DEFINE F == [p \in Tree \X Seq(Fraction) |-> TranslateNode(p[1], p[2], cur, nxt)]
           law(f) == f = [y \in Tree |-> TranslateNode(y, Mapped(y, f), cur, nxt)]
           made == CHOOSE f : law(f)
<1>1. ASSUME NEW x \in Tree, NEW a \in Seq(Fraction)
      PROVE  F[<<x, a>>] = TranslateNode(x, a, cur, nxt)
  OBVIOUS
<1> HIDE DEF F
<1>2. ASSUME NEW x \in Tree, NEW a \in Seq(Fraction), Len(a) = Arity(x.op), DOMAIN a = 1 .. Arity(x.op)
      PROVE  F[<<x, a>>] \in Fraction
  BY <1>1, <1>2, TranslateRule
<1>3. IsRule(F, Fraction)
  BY <1>2 DEF IsRule
<1>4. PICK g \in [Tree -> Fraction] : \A x \in Tree : g[x] = F[<<x, Mapped(x, g)>>]
  BY <1>3, PassExists
<1>5. ASSUME NEW x \in Tree PROVE g[x] = TranslateNode(x, Mapped(x, g), cur, nxt)
  <2>1. Mapped(x, g) \in Seq(Fraction)
    BY MappedIs
  <2> QED
    BY <1>1, <1>4, <2>1
<1>6. law(g)
  BY <1>5
<1>7. law(made)
  <2> HIDE DEF law
  <2> QED
    BY <1>6
<1>8. \A x : Translate(x, cur, nxt) = made[x]
  BY DEF Translate
<1>9. \A x \in Tree : made[x] = TranslateNode(x, Mapped(x, made), cur, nxt)
  BY <1>7
<1>10. made = [x \in Tree |-> made[x]]
  BY <1>7
<1> HIDE DEF made, law
<1>11. made \in [Tree -> Fraction]
  <2> DEFINE S == {x \in Tree : made[x] \in Fraction}
  <2>1. ASSUME NEW x \in Tree, \A i \in DOMAIN x.args : x.args[i] \in S PROVE x \in S
    <3> DEFINE a == [i \in DOMAIN x.args |-> made[x.args[i]]]
    <3>1. /\ x.args \in Seq(Tree) /\ Len(x.args) = Arity(x.op)
          /\ DOMAIN x.args = 1 .. Arity(x.op)
      BY TreeNode DEF Shaped
    <3>2. a \in Seq(Fraction) /\ Len(a) = Arity(x.op) /\ DOMAIN a = 1 .. Arity(x.op)
      BY <3>1, <2>1
    <3>3. Mapped(x, made) = a
      BY <3>2, EmptyConcat DEF Mapped
    <3> HIDE DEF a
    <3>4. made[x] \in Fraction
      BY <1>9, <3>2, <3>3, TranslateRule
    <3> QED
      BY <3>4
  <2>2. \A x \in Tree : x \in S
    <3> HIDE DEF S
    <3> QED
      BY <2>1, TreeInduction
  <2> QED
    BY <2>2, <1>10
<1>12. ASSUME NEW x \in Tree
       PROVE  made[x] = TranslateNode(x, [i \in DOMAIN x.args |-> made[x.args[i]]], cur, nxt)
  <2>1. Mapped(x, made) = [i \in DOMAIN x.args |-> made[x.args[i]]]
    BY <1>11, MappedEach
  <2> QED
    BY <1>9, <2>1
<1>13. \A x \in Tree : [i \in DOMAIN x.args |-> made[x.args[i]]] = [i \in DOMAIN x.args |-> Translate(x.args[i], cur, nxt)]
  BY <1>8
<1> QED
  BY <1>8, <1>11, <1>12, <1>13

(* Arithmetic on truth values.                                             *)
LEMMA LowestTruth == Lowest(1, 1) = One /\ Lowest(0, 1) = Zero
<1>1. Lowest(1, 1) = One
  <2> DEFINE G(g) == /\ 1 % g = 0 /\ 1 % g = 0
                     /\ \A h \in g + 1 .. 3 : ~(1 % h = 0 /\ 1 % h = 0)
             g == CHOOSE k \in 1 .. 3 : G(k)
  <2>1. Abs(1) = 1
    BY DEF Abs
  <2>2. G(1)
    <3>1. \A h \in 2 .. 3 : h = 2 \/ h = 3
      OBVIOUS
    <3>2. 1 % 1 = 0 /\ 1 % 2 = 1 /\ 1 % 3 = 1
      OBVIOUS
    <3> QED
      BY <3>1, <3>2
  <2>3. \A k \in 1 .. 3 : G(k) => k = 1
    <3>1. \A h \in 1 .. 3 : h = 1 \/ h = 2 \/ h = 3
      OBVIOUS
    <3>2. 1 % 2 = 1 /\ 1 % 3 = 1
      OBVIOUS
    <3> QED
      BY <3>1, <3>2
  <2>4. g = 1
    <3> HIDE DEF G
    <3> QED
      BY <2>2, <2>3
  <2>5. Lowest(1, 1) = <<1 * (1 \div g), 1 * (1 \div g)>>
    BY <2>1 DEF Lowest
  <2>6. Lowest(1, 1) = <<1 * (1 \div 1), 1 * (1 \div 1)>>
    <3> HIDE DEF g
    <3> QED
      BY <2>4, <2>5
  <2>7. 1 * (1 \div 1) = 1
    OBVIOUS
  <2> QED
    BY <2>6, <2>7 DEF One
<1>2. Lowest(0, 1) = Zero
  <2> DEFINE G(g) == /\ 0 % g = 0 /\ 1 % g = 0
                     /\ \A h \in g + 1 .. 2 : ~(0 % h = 0 /\ 1 % h = 0)
             g == CHOOSE k \in 1 .. 2 : G(k)
  <2>1. Abs(1) = 1 /\ Abs(0) = 0
    BY DEF Abs
  <2>2. G(1)
    <3>1. \A h \in 2 .. 2 : h = 2
      OBVIOUS
    <3>2. 1 % 1 = 0 /\ 0 % 1 = 0 /\ 1 % 2 = 1
      OBVIOUS
    <3> QED
      BY <3>1, <3>2
  <2>3. \A k \in 1 .. 2 : G(k) => k = 1
    <3>1. \A h \in 1 .. 2 : h = 1 \/ h = 2
      OBVIOUS
    <3>2. 1 % 2 = 1
      OBVIOUS
    <3> QED
      BY <3>1, <3>2
  <2>4. g = 1
    <3> HIDE DEF G
    <3> QED
      BY <2>2, <2>3
  <2>5. Lowest(0, 1) = <<1 * (0 \div g), 1 * (1 \div g)>>
    <3>1. Abs(0) + Abs(1) + 1 = 2 /\ ~(1 < 0)
      BY <2>1
    <3>2. Lowest(0, 1) =
            LET k == CHOOSE k \in 1 .. Abs(0) + Abs(1) + 1 :
                       /\ 0 % k = 0 /\ 1 % k = 0
                       /\ \A h \in k + 1 .. Abs(0) + Abs(1) + 1 : ~(0 % h = 0 /\ 1 % h = 0)
            IN <<1 * (0 \div k), 1 * (1 \div k)>>
      BY <3>1 DEF Lowest
    <3> QED
      BY <3>1, <3>2
  <2>6. Lowest(0, 1) = <<1 * (0 \div 1), 1 * (1 \div 1)>>
    <3> HIDE DEF g
    <3> QED
      BY <2>4, <2>5
  <2>7. 1 * (0 \div 1) = 0 /\ 1 * (1 \div 1) = 1
    OBVIOUS
  <2> QED
    BY <2>6, <2>7 DEF Zero
<1> QED
  BY <1>1, <1>2

LEMMA TruthArithmetic ==
  ASSUME NEW v \in {Zero, One}
  PROVE  /\ Calculate("-", One, v) = AsTruth(v = Zero)
         /\ Compare(">", v, Zero) <=> v = One
         /\ \A w \in {Zero, One} : Calculate("*", v, w) = AsTruth(v = One /\ w = One)
<1>0. Zero # One /\ Zero[1] = 0 /\ Zero[2] = 1 /\ One[1] = 1 /\ One[2] = 1
  BY DEF Zero, One
<1>1. Calculate("-", One, v) = AsTruth(v = Zero)
  <2>1. Calculate("-", One, v) = Lowest(One[1] * v[2] - v[1] * One[2], One[2] * v[2])
    BY DEF Calculate
  <2>2. CASE v = Zero
    <3>1. One[1] * v[2] - v[1] * One[2] = 1 /\ One[2] * v[2] = 1
      BY <1>0, <2>2
    <3> QED
      BY <2>1, <2>2, <3>1, LowestTruth DEF AsTruth
  <2>3. CASE v = One
    <3>1. One[1] * v[2] - v[1] * One[2] = 0 /\ One[2] * v[2] = 1
      BY <1>0, <2>3
    <3> QED
      BY <1>0, <2>1, <2>3, <3>1, LowestTruth DEF AsTruth
  <2> QED
    BY <2>2, <2>3
<1>2. Compare(">", v, Zero) <=> v = One
  <2>1. Compare(">", v, Zero) <=> v[1] * Zero[2] > Zero[1] * v[2]
    BY DEF Compare
  <2> QED
    BY <1>0, <2>1
<1>3. ASSUME NEW w \in {Zero, One} PROVE Calculate("*", v, w) = AsTruth(v = One /\ w = One)
  <2>1. Calculate("*", v, w) = Lowest(v[1] * w[1], v[2] * w[2])
    BY DEF Calculate
  <2>2. v[2] * w[2] = 1 /\ v[1] * w[1] = IF v = One /\ w = One THEN 1 ELSE 0
    BY <1>0
  <2> QED
    BY <2>1, <2>2, LowestTruth DEF AsTruth
<1> QED
  BY <1>1, <1>2, <1>3

(* A state that gives the variables their values, as read by a pass.       *)
Gives(env, types, means) ==
  /\ IsEnv(env)
  /\ \A n \in DOMAIN env : /\ n \in DOMAIN types
                           /\ types[n] = "bool" => env[n] \in {Zero, One}
                           /\ <<"ident", n>> \in DOMAIN means /\ means[<<"ident", n>>] = {env[n]}

(* The diagram of x has the value that x means.                            *)
Renders(x, env, types, means) ==
  LET value == Translate(x, env, env)
  IN /\ MeaningUnder(x, means) = {value}
     /\ Infer(x, types) = "bool" => value \in {Zero, One}

LEMMA RendersBinary ==
  ASSUME NEW types, IsTypes(types), NEW means, IsMeans(means), NEW env, Gives(env, types, means),
         NEW x \in Tree, x.op \in Binary, Infer(x, types) # "error",
         \A i \in DOMAIN x.args : Renders(x.args[i], env, types, means)
  PROVE  Renders(x, env, types, means)
<1> DEFINE a == x.args[1]
           b == x.args[2]
           v == Translate(a, env, env)
           w == Translate(b, env, env)
           s == [i \in DOMAIN x.args |-> Translate(x.args[i], env, env)]
           r == Translate(x, env, env)
<1>1. DOMAIN x.args = {1, 2} /\ a \in Tree /\ b \in Tree
  BY Operands
<1>2. r = TranslateNode(x, s, env, env) /\ s[1] = v /\ s[2] = w
  BY <1>1, TranslateLaw DEF Gives
<1>3. /\ MeaningUnder(a, means) = {v} /\ (Infer(a, types) = "bool" => v \in {Zero, One})
      /\ MeaningUnder(b, means) = {w} /\ (Infer(b, types) = "bool" => w \in {Zero, One})
  BY <1>1 DEF Renders
<1>4. MeaningUnder(x, means) = {Meant(x.op, v, w)}
  <2>1. MeaningUnder(x, means) = {Meant(x.op, p, q) : p \in MeaningUnder(a, means), q \in MeaningUnder(b, means)}
    BY PairMeaning
  <2> HIDE DEF a, b, v, w
  <2> QED
    BY <1>3, <2>1
<1>5. Infer(x, types) = PairTyped(x.op, Infer(a, types), Infer(b, types))
  BY PairType DEF Infer
<1> HIDE DEF a, b, v, w, r, s
<1>6. CASE x.op \in Logical
  <2>1. Infer(a, types) = "bool" /\ Infer(b, types) = "bool"
    BY <1>5, <1>6 DEF PairTyped
  <2>2. v \in {Zero, One} /\ w \in {Zero, One}
    BY <1>3, <2>1
  <2>3. CASE x.op = "&"
    <3>1. r = Calculate("*", v, w)
      BY <1>2, <2>3, TranslateCases
    <3>2. Meant(x.op, v, w) = AsTruth(v = One /\ w = One)
      BY <2>3 DEF Meant
    <3>3. r = AsTruth(v = One /\ w = One)
      BY <2>2, <3>1, TruthArithmetic
    <3> QED
      BY <1>4, <3>2, <3>3, Constants DEF Renders, r
  <2>4. CASE x.op = "|"
    <3>1. r = AsTruth(Compare(">", v, Zero) \/ Compare(">", w, Zero))
      BY <1>2, <2>4, TranslateCases
    <3>2. Meant(x.op, v, w) = AsTruth(v = One \/ w = One)
      BY <2>4 DEF Meant
    <3>3. r = AsTruth(v = One \/ w = One)
      BY <2>2, <3>1, TruthArithmetic
    <3> QED
      BY <1>4, <3>2, <3>3, Constants DEF Renders, r
  <2> QED
    BY <1>6, <2>3, <2>4 DEF Logical
<1>7. CASE x.op \in Arith
  <2>1. x.op # "&" /\ x.op # "|" /\ x.op \notin Logical
    BY <1>7, OpsDiffer
  <2>2. r = Calculate(x.op, v, w)
    BY <1>2, <1>7, TranslateCases
  <2>3. Meant(x.op, v, w) = Calculate(x.op, v, w)
    BY <1>7, <2>1 DEF Meant
  <2>4. Infer(x, types) # "bool"
    BY <1>5, <1>7, <2>1 DEF PairTyped, Join, Numeric
  <2> QED
    BY <1>4, <2>2, <2>3, <2>4 DEF Renders, r
<1>8. CASE x.op \in Order \cup Equal
  <2>1. x.op # "&" /\ x.op # "|" /\ x.op \notin Arith
    BY <1>8, OpsDiffer
  <2>2. r = AsTruth(Compare(x.op, v, w))
    BY <1>2, <1>8, TranslateCases
  <2>3. Meant(x.op, v, w) = AsTruth(Compare(x.op, v, w))
    BY <2>1 DEF Meant
  <2> QED
    BY <1>4, <2>2, <2>3, Constants DEF Renders, r
<1> QED
  BY <1>6, <1>7, <1>8 DEF Binary

LEMMA RendersNode ==
  ASSUME NEW types, IsTypes(types), NEW means, IsMeans(means), NEW env, Gives(env, types, means),
         NEW x \in Tree, Infer(x, types) # "error",
         x.op = "ident" => x.name \in DOMAIN env, x.op # "primed",
         \A i \in DOMAIN x.args : Renders(x.args[i], env, types, means)
  PROVE  Renders(x, env, types, means)
<1> DEFINE v(i) == Translate(x.args[i], env, env)
           s == [i \in DOMAIN x.args |-> v(i)]
           r == Translate(x, env, env)
<1>1. r = TranslateNode(x, s, env, env) /\ \A i \in DOMAIN x.args : s[i] = v(i)
  BY TranslateLaw DEF Gives
<1>2. \A i \in DOMAIN x.args : /\ x.args[i] \in Tree /\ MeaningUnder(x.args[i], means) = {v(i)}
                               /\ Infer(x.args[i], types) = "bool" => v(i) \in {Zero, One}
  BY TreeNode DEF Renders
<1>3. \A y \in Tree : InferWith(y, types, "error") = Infer(y, types)
  BY DEF Infer
<1> HIDE DEF r, s, v
<1>4. CASE x.op \in Leaves
  <2>1. Infer(x, types) = IF IsLiteral(x) THEN x.op
                          ELSE IF x.op \in {"ident", "primed"} /\ x.name \in DOMAIN types THEN types[x.name]
                          ELSE IF x.op = "label" THEN "error" ELSE "error"
    BY <1>4, LeafType DEF Infer
  <2>2. MeaningUnder(x, means) =
          IF IsLiteral(x) THEN {x.val}
          ELSE IF <<x.op, x.name>> \in DOMAIN means THEN means[<<x.op, x.name>>] ELSE {}
    BY <1>4, LeafMeaning
  <2>3. CASE IsLiteral(x)
    <3>1. r = x.val
      BY <1>1, <2>3, TranslateCases
    <3>2. x.op = "bool" => x.val \in {Zero, One}
      BY TreeNode DEF Shaped
    <3> QED
      BY <2>1, <2>2, <2>3, <3>1, <3>2 DEF Renders, r
  <2>4. CASE ~IsLiteral(x)
    <3>1. x.op = "ident" /\ x.name \in DOMAIN env
      BY <2>1, <2>4
    <3>2. r = env[x.name]
      BY <1>1, <3>1, TranslateCases
    <3> QED
      BY <2>1, <2>2, <2>4, <3>1, <3>2 DEF Renders, r, Gives
  <2> QED
    BY <2>3, <2>4
<1>5. CASE x.op = "not"
  <2>1. DOMAIN x.args = {1}
    BY <1>5, Operands
  <2>2. Infer(x, types) = IF Infer(x.args[1], types) = "bool" THEN "bool" ELSE "error"
    BY <1>5, NotType DEF Infer
  <2>3. v(1) \in {Zero, One} /\ MeaningUnder(x.args[1], means) = {v(1)}
    BY <1>2, <2>1, <2>2
  <2>4. MeaningUnder(x, means) = {AsTruth(v(1) = Zero)}
    <3>1. MeaningUnder(x, means) = {AsTruth(w = Zero) : w \in MeaningUnder(x.args[1], means)}
      BY <1>5, NotMeaning
    <3> QED
      BY <2>3, <3>1
  <2>5. r = Calculate("-", One, v(1))
    BY <1>1, <1>5, <2>1, TranslateCases
  <2>6. r = AsTruth(v(1) = Zero)
    BY <2>3, <2>5, TruthArithmetic
  <2> QED
    BY <2>4, <2>6, Constants DEF Renders, r
<1>6. CASE x.op = "neg"
  <2>1. DOMAIN x.args = {1}
    BY <1>6, Operands
  <2>2. Infer(x, types) = IF Infer(x.args[1], types) \in Numeric THEN Infer(x.args[1], types) ELSE "error"
    BY <1>6, NegType DEF Infer
  <2>3. MeaningUnder(x, means) = {Calculate("-", Zero, v(1))}
    <3>1. MeaningUnder(x, means) = {Calculate("-", Zero, w) : w \in MeaningUnder(x.args[1], means)}
      BY <1>6, NegMeaning
    <3> QED
      BY <1>2, <2>1, <3>1
  <2>4. r = Calculate("-", Zero, v(1))
    BY <1>1, <1>6, <2>1, TranslateCases
  <2>5. Infer(x, types) # "bool"
    BY <2>2 DEF Numeric
  <2> QED
    BY <2>3, <2>4, <2>5 DEF Renders, r
<1>7. CASE x.op = "?:"
  <2>1. DOMAIN x.args = {1, 2, 3}
    BY <1>7, Operands
  <2>2. Infer(x, types) =
          IF Infer(x.args[1], types) = "bool"
          THEN Join(Infer(x.args[2], types), Infer(x.args[3], types)) ELSE "error"
    BY <1>7, IfType DEF Infer
  <2>3. v(1) \in {Zero, One} /\ MeaningUnder(x.args[1], means) = {v(1)}
    BY <1>2, <2>1, <2>2
  <2>4. MeaningUnder(x, means) = IF v(1) = One THEN {v(2)} ELSE {v(3)}
    <3>1. MeaningUnder(x, means) =
            UNION {IF c = One THEN MeaningUnder(x.args[2], means) ELSE MeaningUnder(x.args[3], means) :
                     c \in MeaningUnder(x.args[1], means)}
      BY <1>7, IfMeaning
    <3>2. MeaningUnder(x.args[2], means) = {v(2)} /\ MeaningUnder(x.args[3], means) = {v(3)}
      BY <1>2, <2>1
    <3> QED
      BY <2>3, <3>1, <3>2
  <2>5. r = IF Compare(">", v(1), Zero) THEN v(2) ELSE v(3)
    BY <1>1, <1>7, <2>1, TranslateCases
  <2>6. r = IF v(1) = One THEN v(2) ELSE v(3)
    BY <2>3, <2>5, TruthArithmetic
  <2>7. Infer(x, types) = "bool" => Infer(x.args[2], types) = "bool" /\ Infer(x.args[3], types) = "bool"
    BY <2>2 DEF Join
  <2>8. Infer(x, types) = "bool" => r \in {Zero, One}
    BY <1>2, <2>1, <2>6, <2>7
  <2> QED
    BY <2>4, <2>6, <2>8 DEF Renders, r
<1>8. CASE x.op \in Binary
  BY <1>8, RendersBinary
<1> QED
  BY <1>4, <1>5, <1>6, <1>7, <1>8, Constructs

(* A typed tree over the variables is translated to what it means.         *)
LEMMA TranslateMeaning ==
  ASSUME NEW types, IsTypes(types), NEW means, IsMeans(means), NEW env, Gives(env, types, means)
  PROVE  \A x \in Tree :
           /\ Infer(x, types) # "error"
           /\ \A h \in Holes(x) : h.op = "ident" /\ h.name \in DOMAIN env
           => Renders(x, env, types, means)
<1> DEFINE S == {x \in Tree : /\ Infer(x, types) # "error"
                              /\ \A h \in Holes(x) : h.op = "ident" /\ h.name \in DOMAIN env
                              => Renders(x, env, types, means)}
<1>1. ASSUME NEW x \in Tree, \A i \in DOMAIN x.args : x.args[i] \in S, Infer(x, types) # "error",
             \A h \in Holes(x) : h.op = "ident" /\ h.name \in DOMAIN env
      PROVE  Renders(x, env, types, means)
  <2>1. x.op \in Gaps => x \in Holes(x)
    BY HolesLaw
  <2>2. x.op = "ident" => x.name \in DOMAIN env
    BY <1>1, <2>1 DEF Gaps
  <2>3. x.op # "primed"
    BY <1>1, <2>1 DEF Gaps
  <2>4. ASSUME NEW i \in DOMAIN x.args PROVE Renders(x.args[i], env, types, means)
    <3>1. x.op \notin Gaps
      <4>1. x.op \notin Leaves
        BY Operands
      <4> QED
        BY <4>1, GapsAre
    <3>2. \A h \in Holes(x.args[i]) : h \in Holes(x)
      BY <3>1, HolesLaw
    <3>3. Infer(x.args[i], types) # "error"
      BY <1>1, TypedOperands DEF Infer
    <3> QED
      BY <1>1, <3>2, <3>3
  <2> QED
    BY <1>1, <2>2, <2>3, <2>4, RendersNode
<1>2. \A x \in Tree : (\A i \in DOMAIN x.args : x.args[i] \in S) => x \in S
  BY <1>1
<1>3. \A x \in Tree : x \in S
  <2> HIDE DEF S
  <2> QED
    BY <1>2, TreeInduction
<1> QED
  BY <1>3

LEMMA ValuationGives ==
  ASSUME NEW model \in Inputs, Distinct(model.consts \o model.vars), NEW env \in Valuations(model)
  PROVE  DOMAIN env = NamesIn(model.vars) /\ Gives(env, TypesIn(model), Means(model, env))
<1>1. env \in States(model) /\ IsState(env)
  BY StatesAre DEF States
<1>2. DOMAIN env = NamesIn(model.vars) /\ IsEnv(env)
  <2>1. DOMAIN env = NamesIn(model.vars) /\ env = [n \in DOMAIN env |-> env[n]]
    BY DEF Valuations
  <2> QED
    BY <1>1, <2>1 DEF IsState, IsEnv
<1>3. ASSUME NEW n \in NamesIn(model.vars)
      PROVE  /\ n \in DOMAIN TypesIn(model)
             /\ TypesIn(model)[n] = Named(model.vars, n).type
  <2> DEFINE R == [name : Name, type : {"bool", "int"}, lo : Source, hi : Source, init : Source]
  <2>1. model.vars \in Seq(R)
    BY InputIs
  <2> HIDE DEF R
  <2>2. \E i \in DOMAIN model.vars : Named(model.vars, n) = model.vars[i] /\ model.vars[i].name = n
    BY <2>1, NamedIs
  <2> QED
    BY <2>2, TypesInIs
<1>4. ASSUME NEW n \in NamesIn(model.vars), TypesIn(model)[n] = "bool" PROVE env[n] \in {Zero, One}
  <2>1. CASE env \in [NamesIn(model.vars) -> {Zero, One}]
    BY <2>1
  <2>2. CASE env = [k \in NamesIn(model.vars) |-> IF Named(model.vars, k).type = "int" THEN <<2, 1>> ELSE One]
    <3>1. Named(model.vars, n).type = "bool"
      BY <1>3, <1>4
    <3>2. env[n] = One
      BY <2>2, <3>1
    <3> QED
      BY <3>2
  <2> QED
    BY <2>1, <2>2 DEF Valuations
<1>5. ASSUME NEW n \in NamesIn(model.vars)
      PROVE  <<"ident", n>> \in DOMAIN Means(model, env) /\ Means(model, env)[<<"ident", n>>] = {env[n]}
  <2> DEFINE key == <<"ident", n>>
  <2>1. key \in VarKeys(model) /\ key \in Keys(model)
    BY DEF VarKeys, Keys
  <2>2. Means(model, env)[key] = Given(env, key)
    BY <1>1, <2>1, MeansIs
  <2>3. Given(env, key) = {env[n]}
    <3>1. key[2] = n /\ DOMAIN env \cap {n} = {n}
      BY <1>2
    <3> HIDE DEF key
    <3> QED
      BY <3>1 DEF Given
  <2> QED
    BY <1>1, <2>1, <2>2, <2>3, MeansIs
<1> QED
  BY <1>2, <1>3, <1>4, <1>5 DEF Gives

(* Nothing left but variables.                                             *)
OverVariables(model, x) == \A h \in Holes(x) : h.op = "ident" /\ h.name \in NamesIn(model.vars)

LEMMA VariablesLeft ==
  ASSUME NEW model \in Inputs, NEW x \in Tree, OverVariables(model, x)
  PROVE  Ops(x) \cap {"label", "primed", "bad"} = {} /\ Idents(x) \subseteq NamesIn(model.vars)
<1>1. {"label", "primed", "bad"} \subseteq Gaps
  BY DEF Gaps
<1>2. \A op \in {"label", "primed", "bad"} : op \notin Ops(x)
  BY <1>1, HolesAre DEF OverVariables
<1>3. Idents(x) \subseteq NamesIn(model.vars)
  BY HolesAre DEF OverVariables
<1> QED
  BY <1>2, <1>3

(* What is folded with every constant and has a type is over the variables *)
(* alone, and its diagram has the value that the text means.               *)
LEMMA Finished ==
  ASSUME NEW model \in Inputs, Distinct(model.consts \o model.vars), NEW res, Resolves(model, res),
         NamesIn(model.consts) \subseteq DOMAIN res,
         NEW text, NEW y \in Tree, Unprimed(y), Keeps(model, text, y),
         NEW z, z = Fold(y, res), Infer(z, TypesIn(model)) # "error"
  PROVE  /\ z \in Tree /\ OverVariables(model, z) /\ Keeps(model, text, z)
         /\ \A env \in Valuations(model) : {Translate(z, env, env)} = Meaning(model, text, env)
<1>1. z \in Tree /\ Keeps(model, text, z) /\ Unprimed(z)
  BY FoldKeeps
<1>2. IsVals(res) /\ IsTypes(TypesIn(model))
  BY ResolvesVals, TypesInIs DEF ValsTyped
<1>3. \A h \in Holes(z) : h.op \in {"ident", "primed"} /\ h.name \in DOMAIN TypesIn(model)
  BY <1>1, TypedHere
<1>4. \A h \in Holes(z) : ~(h.op = "ident" /\ h.name \in DOMAIN res)
  BY <1>2, FoldHoles
<1>5. \A h \in Holes(z) : h.op = "ident" /\ h.name \notin NamesIn(model.consts)
  BY <1>1, <1>3, <1>4 DEF Unprimed
<1>6. OverVariables(model, z)
  BY <1>3, <1>5, TypesInIs DEF OverVariables
<1>7. ASSUME NEW env \in Valuations(model)
      PROVE  {Translate(z, env, env)} = Meaning(model, text, env)
  <2> DEFINE means == Means(model, env)
  <2>1. env \in States(model) /\ IsMeans(means)
    BY StatesAre, MeansIs DEF States
  <2>2. DOMAIN env = NamesIn(model.vars) /\ Gives(env, TypesIn(model), means)
    BY ValuationGives
  <2>3. MeaningUnder(z, means) = Meaning(model, text, env)
    BY <1>1, <2>1 DEF Keeps
  <2>4. \A h \in Holes(z) : h.op = "ident" /\ h.name \in DOMAIN env
    BY <1>6, <2>2 DEF OverVariables
  <2> HIDE DEF means
  <2>5. Renders(z, env, TypesIn(model), means)
    BY <1>1, <1>2, <2>1, <2>2, <2>4, TranslateMeaning
  <2> QED
    BY <2>3, <2>5 DEF Renders
<1> QED
  BY <1>1, <1>6, <1>7

-----------------------------------------------------------------------------
(* Labels that are well founded *)

(* Founded, level by level.                                                *)
IsLevels(model, g) ==
  /\ g \in [Nat -> SUBSET NamesIn(model.labels)]
  /\ g[0] = {}
  /\ \A n \in Nat : g[n + 1] = {name \in NamesIn(model.labels) : Labels(LabelText(model, name)) \subseteq g[n]}

LEMMA FoundedLaw ==
  ASSUME NEW model \in Inputs
  PROVE  \E g : IsLevels(model, g) /\ Founded(model) = g[Len(model.labels)]
<1> DEFINE N == NamesIn(model.labels)
           step(s) == {name \in N : Labels(LabelText(model, name)) \subseteq s}
           F == [s \in SUBSET N |-> step(s)]
           law(f) == f = [n \in Nat |-> IF n = 0 THEN {} ELSE step(f[n - 1])]
           founded == CHOOSE f : law(f)
           zero == {}
<1>1. F \in [SUBSET N -> SUBSET N] /\ zero \in SUBSET N
  OBVIOUS
<1>2. PICK g \in [Nat -> SUBSET N] : \A n \in Nat : g[n] = IF n = 0 THEN zero ELSE F[g[n - 1]]
  <2> DEFINE Q == SUBSET N
  <2>1. F \in [Q -> Q] /\ zero \in Q
    BY <1>1
  <2> HIDE DEF F, N, zero, Q
  <2>2. \E g \in [Nat -> Q] : \A n \in Nat : g[n] = IF n = 0 THEN zero ELSE F[g[n - 1]]
    BY <2>1, NatRecursion
  <2> QED
    BY <2>2 DEF Q
<1>3. \A s \in SUBSET N : F[s] = step(s)
  OBVIOUS
<1> HIDE DEF F, step
<1>4. \A n \in Nat : g[n] = IF n = 0 THEN {} ELSE step(g[n - 1])
  <2> SUFFICES ASSUME NEW n \in Nat PROVE g[n] = IF n = 0 THEN {} ELSE step(g[n - 1])
    OBVIOUS
  <2>1. g[n] = IF n = 0 THEN {} ELSE F[g[n - 1]]
    BY <1>2
  <2> HIDE DEF law, founded
  <2>2. CASE n = 0
    BY <2>1, <2>2
  <2>3. CASE n # 0
    <3>1. n - 1 \in Nat
      BY <2>3
    <3>2. g[n - 1] \in SUBSET N
      BY <1>2, <3>1
    <3>3. F[g[n - 1]] = step(g[n - 1])
      BY <1>3, <3>2
    <3> QED
      BY <2>1, <2>3, <3>3
  <2> QED
    BY <2>2, <2>3
<1>5. law(g)
  BY <1>4
<1>6. law(founded)
  <2> HIDE DEF law
  <2> QED
    BY <1>5
<1>7. \A n \in Nat : founded[n] = IF n = 0 THEN {} ELSE step(founded[n - 1])
  BY <1>6
<1>8. founded = [n \in Nat |-> founded[n]]
  BY <1>6
<1>9. Founded(model) = founded[Len(model.labels)]
  BY DEF Founded, LabelText, step
<1> HIDE DEF founded, law
<1>10. founded[0] = {} /\ \A n \in Nat : founded[n + 1] = step(founded[n])
  <2>1. \A n \in Nat : n + 1 \in Nat /\ n + 1 # 0 /\ (n + 1) - 1 = n
    OBVIOUS
  <2> QED
    BY <1>7, <2>1
<1>11. \A n \in Nat : founded[n] \in SUBSET N
  BY <1>7 DEF step
<1>12. IsLevels(model, founded)
  BY <1>8, <1>10, <1>11 DEF IsLevels, step
<1> QED
  BY <1>9, <1>12

LEMMA LevelsGrow ==
  ASSUME NEW model \in Inputs, NEW g, IsLevels(model, g)
  PROVE  \A n \in Nat : g[n] \subseteq g[n + 1]
<1> DEFINE S == {n \in Nat : g[n] \subseteq g[n + 1]}
<1>1. 0 \in S
  BY DEF IsLevels
<1>2. ASSUME NEW n \in S PROVE n + 1 \in S
  <2>1. n \in Nat /\ n + 1 \in Nat /\ g[n] \subseteq g[n + 1]
    OBVIOUS
  <2>2. /\ g[n + 1] = {name \in NamesIn(model.labels) : Labels(LabelText(model, name)) \subseteq g[n]}
        /\ g[(n + 1) + 1] = {name \in NamesIn(model.labels) : Labels(LabelText(model, name)) \subseteq g[n + 1]}
    BY <2>1 DEF IsLevels
  <2> QED
    BY <2>1, <2>2
<1>3. S = Nat
  <2> HIDE DEF S
  <2>1. S \subseteq Nat
    BY DEF S
  <2> QED
    BY <1>1, <1>2, <2>1, SetInduction
<1> QED
  BY <1>3

(* The bodies of the labels are truth values, their labels taken for some. *)
TruthTexts(model) == \A n \in NamesIn(model.labels) : SourceType(model, LabelText(model, n)) = "bool"

(* A label that leads to no cycle expands to a truth value.                *)
LEMMA FoundedTyped ==
  ASSUME NEW model \in Inputs, TruthTexts(model), NEW g, IsLevels(model, g),
         NEW bs, bs = Texts(model)
  PROVE  \A k \in Nat : \A R \in SUBSET DOMAIN bs : \A n \in DOMAIN bs :
           n \in g[k] /\ R \cap g[k] = {} => Infer(Expanded(bs)[R][n], TypesIn(model)) = "bool"
<1> DEFINE D == DOMAIN bs
           types == TypesIn(model)
           E(R, n) == Expanded(bs)[R][n]
           P(k) == \A R \in SUBSET D : \A n \in D : n \in g[k] /\ R \cap g[k] = {} => Infer(E(R, n), types) = "bool"
           good == {k \in Nat : P(k)}
<1>1. Fitting(bs) /\ D = NamesIn(model.labels) /\ \A n \in D : bs[n] = LabelText(model, n) /\ bs[n] \in Tree
  <2>1. Fitting(bs) /\ D = NamesIn(model.labels) /\ \A n \in D : bs[n] = LabelText(model, n)
    BY TextsAre DEF Texts
  <2> QED
    BY <2>1 DEF Fitting, IsBodies
<1>2. /\ Expanded(bs) \in Expansions(bs)
      /\ \A R \in SUBSET D : \A n \in D : E(R, n) = IF n \in R THEN Bad ELSE Substitute(bs[n], Expanded(bs)[R \cup {n}])
  BY <1>1, ExpandedLaw DEF Fitting
<1>3. \A R \in SUBSET D : \A n \in D : E(R, n) \in Tree
  BY <1>1 DEF Fitting
<1>4. 0 \in good
  BY DEF IsLevels
<1>5. ASSUME NEW k \in good PROVE k + 1 \in good
  <2>1. k \in Nat /\ k + 1 \in Nat /\ P(k)
    OBVIOUS
  <2>2. /\ g[k] \subseteq g[k + 1]
        /\ g[k + 1] = {name \in NamesIn(model.labels) : Labels(LabelText(model, name)) \subseteq g[k]}
        /\ g[k] \subseteq D
    BY <1>1, <2>1, LevelsGrow DEF IsLevels
  <2>3. ASSUME NEW R \in SUBSET D, NEW n \in D, n \in g[k + 1], R \cap g[k + 1] = {}
        PROVE  Infer(E(R, n), types) = "bool"
    <3>1. R \cap g[k] = {} /\ n \notin R
      BY <2>2, <2>3
    <3>2. CASE n \in g[k]
      BY <2>1, <3>1, <3>2
    <3>3. CASE n \notin g[k]
      <4> DEFINE by == Expanded(bs)[R \cup {n}]
      <4>1. R \cup {n} \in SUBSET D /\ (R \cup {n}) \cap g[k] = {}
        BY <3>1, <3>3
      <4>2. DOMAIN by = D /\ IsTreesFor(by) /\ \A m \in D : by[m] = E(R \cup {n}, m)
        BY <1>2, <4>1 DEF Expansions, IsTreesFor
      <4>3. Substitute(bs[n], by) = E(R, n) /\ bs[n] \in Tree /\ E(R, n) \in Tree
        <5>1. E(R, n) = Substitute(bs[n], by)
          <6>1. n \notin R
            BY <3>1
          <6>2. \A S \in SUBSET D : \A m \in D :
                  E(S, m) = IF m \in S THEN Bad ELSE Substitute(bs[m], Expanded(bs)[S \cup {m}])
            BY <1>2
          <6> QED
            BY <6>1, <6>2
        <5> HIDE DEF E, by
        <5> QED
          BY <1>1, <1>3, <5>1
      <4>4. \A m \in g[k] : m \in D /\ Infer(E(R \cup {n}, m), types) = "bool"
        BY <2>1, <2>2, <4>1
      <4>5. Labels(bs[n]) \subseteq g[k]
        BY <1>1, <2>2, <2>3
      <4> HIDE DEF by, E
      <4>6. \A m \in Labels(bs[n]) : InferWith(Filler(by, m), types, "error") = "bool"
        BY <4>2, <4>4, <4>5 DEF Filler, Infer
      <4>7. IsTypes(types)
        BY TypesInIs
      <4>8. InferWith(bs[n], types, "bool") = "bool"
        BY <1>1 DEF TruthTexts, SourceType
      <4> HIDE DEF types
      <4>9. InferWith(Substitute(bs[n], by), types, "error") = InferWith(bs[n], types, "bool")
        BY <4>2, <4>3, <4>6, <4>7, SubstituteType
      <4> QED
        BY <4>3, <4>8, <4>9 DEF Infer
    <3> QED
      BY <3>2, <3>3
  <2> HIDE DEF E
  <2> QED
    BY <2>1, <2>3
<1>6. \A k \in Nat : P(k)
  <2> HIDE DEF P
  <2> QED
    BY <1>4, <1>5, SetInduction
<1> QED
  BY <1>6

(* A text whose labels are well founded keeps its type when expanded.      *)
LEMMA ExpandTyped ==
  ASSUME NEW model \in Inputs, TruthTexts(model), NEW x \in Source, Labels(x) \subseteq Founded(model)
  PROVE  Infer(Expand(x, Texts(model)), TypesIn(model)) = SourceType(model, x)
<1> DEFINE bs == Texts(model)
           by == Expanded(bs)[{}]
           types == TypesIn(model)
           y == Expand(x, bs)
<1>1. PICK g : IsLevels(model, g) /\ Founded(model) = g[Len(model.labels)]
  BY FoundedLaw
<1>2. Len(model.labels) \in Nat /\ {} \in SUBSET DOMAIN bs /\ {} \cap g[Len(model.labels)] = {}
  BY InputIs
<1>3. DOMAIN bs = NamesIn(model.labels) /\ Founded(model) \subseteq DOMAIN bs
  BY <1>1, <1>2 DEF Texts, IsLevels
<1>4. \A n \in Founded(model) : Infer(by[n], types) = "bool"
  BY <1>1, <1>2, <1>3, FoundedTyped
<1>5. Fitting(bs) /\ SourceBodies(model, bs)
  BY TextsAre
<1>6. DOMAIN by = DOMAIN bs /\ IsTreesFor(by) /\ y = Substitute(x, by)
  BY <1>5, Outermost
<1>7. y \in Tree /\ x \in Tree /\ IsTypes(types)
  BY <1>5, SourceFitting, TopIs, InputIs, TypesInIs
<1> HIDE DEF by, y, bs
<1>8. \A n \in Labels(x) : InferWith(Filler(by, n), types, "error") = "bool"
  BY <1>3, <1>4, <1>6 DEF Filler, Infer
<1> HIDE DEF types
<1>9. InferWith(Substitute(x, by), types, "error") = InferWith(x, types, "bool")
  BY <1>6, <1>7, <1>8, SubstituteType
<1> QED
  BY <1>6, <1>9 DEF Infer, SourceType, y, bs, types

(* So does a text over labels that are opened.                             *)
LEMMA OpenTyped ==
  ASSUME NEW model \in Inputs, NEW bs, OpenBodies(model, bs), NEW x \in Source,
         Labels(x) \subseteq NamesIn(model.labels)
  PROVE  Infer(Expand(x, bs), TypesIn(model)) = SourceType(model, x)
<1> DEFINE by == Expanded(bs)[{}]
           types == TypesIn(model)
<1>1. Fitting(bs) /\ Expand(x, bs) \in Tree /\ x \in Tree /\ IsTypes(types)
  BY OpenFitting, InputIs, TypesInIs
<1>2. DOMAIN by = DOMAIN bs /\ IsTreesFor(by) /\ Expand(x, bs) = Substitute(x, by)
  BY <1>1, Outermost
<1>3. \A n \in DOMAIN bs : by[n] = bs[n] /\ Infer(bs[n], types) = "bool"
  BY OpenFitting DEF OpenBodies, Opened
<1> HIDE DEF by
<1>4. \A n \in Labels(x) : InferWith(Filler(by, n), types, "error") = "bool"
  BY <1>2, <1>3 DEF Filler, Infer, OpenBodies
<1> HIDE DEF types
<1>5. InferWith(Substitute(x, by), types, "error") = InferWith(x, types, "bool")
  BY <1>1, <1>2, <1>4, SubstituteType
<1> QED
  BY <1>2, <1>5 DEF Infer, SourceType, types

-----------------------------------------------------------------------------
(* The invariant of the analysis *)

(* The parts the analysis has not come to are as given, and those behind   *)
(* it keep what their text means.                                          *)
CommandKept(model, cmd) ==
  /\ \A env \in Valuations(model) :
       /\ {Translate(cmd.guard, env, env)} = Meaning(model, model.command.guard, env)
       /\ {Translate(cmd.prob, env, env)} = Meaning(model, model.command.prob, env)
       /\ {Translate(cmd.assign.args[2], env, env)} = Meaning(model, model.command.assign.args[2], env)
  /\ cmd.assign.args[1] = model.command.assign.args[1]

LabelOpen(model, ls, i) ==
  /\ ls[i] = [name |-> model.labels[i].name, expr |-> ls[i].expr]
  /\ Opened(model, ls[i].expr) /\ Keeps(model, model.labels[i].expr, ls[i].expr)

LabelFolded(model, ls, res, i) ==
  ls[i] = [name |-> model.labels[i].name, expr |-> Fold(model.labels[i].expr, res)]

Untouched == {"declare", "override", "resolve"}
PastCommand == {"labels", "expand", "property", "done"}

PartsInv ==
  /\ pc # "done" => phi = input.phi
  /\ pass = 1 /\ pc \in Untouched => decls = input.vars
  /\ pc = "variables" => pass = 1 /\ \A i \in DOMAIN decls : i >= next => decls[i] = input.vars[i]
  /\ pass = 1 /\ pc \in Untouched \cup {"variables"} => command = input.command
  /\ pass = 2 \/ pc \in PastCommand => CommandKept(input, command)

LabelsInv ==
  /\ pass = 1 /\ pc \in Untouched \cup {"variables", "labels"} => labels = input.labels
  /\ pass = 1 /\ pc = "expand" =>
       /\ bodies = Texts(input)
       /\ \A i \in DOMAIN labels :
            IF i < next THEN LabelOpen(input, labels, i) ELSE LabelFolded(input, labels, resolved, i)
  /\ pass = 2 => \A i \in DOMAIN labels : LabelOpen(input, labels, i)
  /\ pc \in {"property", "done"} => pass = 2
  /\ pass = 2 \/ pc = "expand" => Distinct(input.labels)
  /\ pass = 2 /\ pc \in {"expand", "property"} => OpenBodies(input, bodies)

(* The inductive invariant of the analysis, with that of the constants.    *)
KeptInv == PartsInv /\ LabelsInv /\ OnlyVariablesLeft /\ MeaningKept

(* An update is an equation of a primed name and the value it gets.        *)
LEMMA AssignmentShape ==
  ASSUME NEW model \in Inputs, NEW x, x = model.command.assign
  PROVE  /\ x \in Tree /\ x.op = "=" /\ x.op \in Binary /\ DOMAIN x.args = {1, 2}
         /\ x.args[1] \in Tree /\ x.args[1].op = "primed"
         /\ x.args[2] \in Tree /\ "primed" \notin Ops(x.args[2])
<1>1. model.command \in [guard : Source, prob : Source, assign : Source] /\ Source \subseteq Tree
  BY InputIs
<1>2. x.op = "=" /\ x.args[1].op = "primed" /\ "primed" \notin Ops(x.args[2])
  BY InputAssumption DEF InputShape
<1>3. x \in Tree /\ x.op \in Binary
  BY <1>1, <1>2 DEF Binary, Equal
<1> QED
  BY <1>2, <1>3, Operands

(* The texts of a model, without primed names but for the target.          *)
LEMMA TextsPlain ==
  ASSUME NEW model \in Inputs,
         NEW x \in {model.command.guard, model.command.prob, model.command.assign.args[2],
                    model.phi.lhs, model.phi.rhs}
  PROVE  x \in Tree /\ Unprimed(x)
<1>1. x \in Tree
  <2>1. /\ model.command \in [guard : Source, prob : Source, assign : Source]
        /\ model.phi \in [lhs : Source, rhs : Source, bound : Source]
        /\ Source \subseteq Tree
    BY InputIs
  <2> QED
    BY <2>1, AssignmentShape
<1>2. "primed" \notin Ops(x) /\ "primed" \in Gaps
  BY InputAssumption DEF InputShape, Gaps
<1> QED
  BY <1>1, <1>2, HolesAre DEF Unprimed

(* While the constants are resolved, in either pass, nothing else changes. *)
LEMMA ResolvingKept ==
  ASSUME KeptInv, pc \in Untouched, UNCHANGED <<input, modelParts, pass>>,
         pc' \in Untouched \/ (pc' = "variables" /\ pass = 1) \/ (pc' = "labels" /\ pass = 2)
  PROVE  KeptInv'
<1>1. /\ input' = input /\ decls' = decls /\ command' = command /\ labels' = labels /\ bodies' = bodies
      /\ phi' = phi /\ pass' = pass
  BY DEF modelParts
<1>2. PartsInv'
  BY <1>1 DEF KeptInv, PartsInv, Untouched, PastCommand
<1>3. LabelsInv'
  BY <1>1 DEF KeptInv, LabelsInv, Untouched
<1>4. pc' # "done"
  BY DEF Untouched
<1> QED
  BY <1>2, <1>3, <1>4 DEF KeptInv, OnlyVariablesLeft, MeaningKept

(* Giving up changes no part.                                              *)
LEMMA EndedKept ==
  ASSUME KeptInv, pc # "done", UNCHANGED <<input, modelParts, pass>>, pc' \in {"rejected", "panicked"}
  PROVE  KeptInv'
<1>1. /\ input' = input /\ decls' = decls /\ command' = command /\ labels' = labels /\ bodies' = bodies
      /\ phi' = phi /\ pass' = pass
  BY DEF modelParts
<1>2. PartsInv'
  BY <1>1 DEF KeptInv, PartsInv, Untouched, PastCommand
<1>3. LabelsInv'
  BY <1>1 DEF KeptInv, LabelsInv, Untouched
<1> QED
  BY <1>2, <1>3 DEF KeptInv, OnlyVariablesLeft, MeaningKept

LEMMA RefuseKept ==
  ASSUME KeptInv, pc # "done", NEW why, Refuse(why)
  PROVE  KeptInv'
  BY EndedKept DEF Refuse

LEMMA ConstantsKept ==
  ASSUME KeptInv, ShapeInv, Declare \/ ApplyOverride \/ CheckConstants \/ ResolveConst \/ EndRound
  PROVE  KeptInv'
<1>1. pc \in Untouched /\ pc # "done"
  BY DEF Declare, ApplyOverride, CheckConstants, ResolveConst, EndRound, Untouched
<1>2. CASE \E why : Refuse(why)
  BY <1>1, <1>2, RefuseKept
<1>3. CASE ~ \E why : Refuse(why)
  <2>1. UNCHANGED <<input, modelParts, pass>>
    BY <1>3 DEF Declare, ApplyOverride, CheckConstants, ResolveConst, EndRound, NextRound, Goto
  <2>2. pass \in {1, 2}
    BY DEF ShapeInv
  <2>3. pc' \in Untouched \/ (pc' = "variables" /\ pass = 1) \/ (pc' = "labels" /\ pass = 2)
    BY <1>3, <2>2 DEF Declare, ApplyOverride, CheckConstants, ResolveConst, EndRound, NextRound, Goto, Untouched
  <2> QED
    BY <1>1, <2>1, <2>3, ResolvingKept
<1> QED
  BY <1>2, <1>3

(* The declarations before the next one are folded, the others as given.   *)
LEMMA VariableKept ==
  ASSUME KeptInv, ResolveInv, FoldVariable
  PROVE  KeptInv'
<1>1. pc = "variables" /\ pc # "done" /\ pass = 1
  BY DEF FoldVariable, KeptInv, PartsInv
<1>2. CASE Refuse("variables")
  BY <1>1, <1>2, RefuseKept
<1>3. CASE ~Refuse("variables")
  <2> DEFINE d == FoldDecl(decls[next])
  <2>1. \/ pc' = "panicked" /\ UNCHANGED <<input, constVars, modelParts, pass>>
        \/ /\ decls' = [decls EXCEPT ![next] = d] /\ next' = next + 1 /\ pc' = "variables"
           /\ UNCHANGED <<input, command, labels, bodies, phi, pass>>
    BY <1>3 DEF FoldVariable, Goto
  <2> HIDE DEF d
  <2>2. CASE pc' = "panicked" /\ UNCHANGED <<input, constVars, modelParts, pass>>
    BY <1>1, <2>2, EndedKept
  <2>3. CASE /\ decls' = [decls EXCEPT ![next] = d] /\ next' = next + 1 /\ pc' = "variables"
             /\ UNCHANGED <<input, command, labels, bodies, phi, pass>>
    <3>1. next \in Nat /\ DOMAIN decls \subseteq Nat
      BY LaterLengths
    <3>2. \A i \in DOMAIN decls : i >= next + 1 => i >= next /\ i # next
      BY <3>1
    <3>3. \A i \in DOMAIN decls' : i >= next' => decls'[i] = input'.vars[i]
      BY <1>1, <2>3, <3>2 DEF KeptInv, PartsInv
    <3>4. PartsInv'
      BY <1>1, <2>3, <3>3 DEF KeptInv, PartsInv, Untouched, PastCommand
    <3>5. LabelsInv'
      BY <1>1, <2>3 DEF KeptInv, LabelsInv, Untouched
    <3> QED
      BY <2>3, <3>4, <3>5 DEF KeptInv, OnlyVariablesLeft, MeaningKept
  <2> QED
    BY <2>1, <2>2, <2>3
<1> QED
  BY <1>2, <1>3

(* What the constants are once they are resolved.                          *)
LEMMA ConstantsThere ==
  ASSUME ResolveInv, pc \in Later
  PROVE  /\ input \in Inputs /\ reason = "" /\ Distinct(input.consts \o input.vars) /\ Declared(input)
         /\ Resolves(input, resolved) /\ NamesIn(input.consts) \subseteq DOMAIN resolved
<1>1. input \in Inputs /\ reason = ""
  BY DEF ResolveInv, ShapeInv, Later
<1>2. Declared(input) /\ NamesIn(input.consts) \subseteq DOMAIN resolved /\ Resolves(input, resolved)
  BY <1>1 DEF ResolveInv, ConstInv, ConstsOK, PastConstants, Later
<1> QED
  BY <1>1, <1>2 DEF Declared

(* A text that is folded with every constant has a diagram with its value. *)
LEMMA TextFinished ==
  ASSUME NEW model \in Inputs, Distinct(model.consts \o model.vars), NEW res, Resolves(model, res),
         NamesIn(model.consts) \subseteq DOMAIN res,
         NEW x \in Tree, Unprimed(x), Infer(Fold(x, res), TypesIn(model)) # "error"
  PROVE  \A env \in Valuations(model) : {Translate(Fold(x, res), env, env)} = Meaning(model, x, env)
<1>1. Keeps(model, x, x)
  BY KeepsItself
<1>2. ASSUME NEW y \in Tree, Unprimed(y), Keeps(model, x, y),
             NEW z, z = Fold(y, res), Infer(z, TypesIn(model)) # "error"
      PROVE  /\ z \in Tree /\ OverVariables(model, z)
             /\ \A env \in Valuations(model) : {Translate(z, env, env)} = Meaning(model, x, env)
  BY <1>2, Finished
<1> QED
  BY <1>1, <1>2

(* Folding an update folds its value and leaves its target alone.          *)
LEMMA AssignmentFolded ==
  ASSUME NEW model \in Inputs, NEW res, IsVals(res),
         NEW x, x = model.command.assign, NEW z, z = Fold(x, res)
  PROVE  /\ z \in Tree /\ z.op = "="
         /\ z.args[1] = x.args[1] /\ z.args[2] = Fold(x.args[2], res)
<1> DEFINE target == x.args[1]
           a == [i \in DOMAIN x.args |-> Fold(x.args[i], res)]
<1>1. /\ x \in Tree /\ x.op = "=" /\ x.op \in Binary /\ DOMAIN x.args = {1, 2}
      /\ target \in Tree /\ target.op = "primed"
  BY AssignmentShape
<1>2. "primed" \in Leaves /\ "primed" \notin Kinds
  BY DEF Leaves, Kinds
<1>3. /\ Len(a) = Arity(x.op) /\ DOMAIN a = DOMAIN x.args
      /\ \A i \in DOMAIN x.args : a[i] = Fold(x.args[i], res) /\ a[i] \in Tree
      /\ z = FoldNode(x, a, res) /\ z \in Tree
  <2> HIDE DEF target
  <2>1. x \in Tree /\ a = [i \in DOMAIN x.args |-> Fold(x.args[i], res)]
    BY <1>1
  <2> HIDE DEF a
  <2> QED
    BY <2>1, FoldedOperands
<1>4. Fold(target, res) = target
  <2> DEFINE b == [i \in DOMAIN target.args |-> Fold(target.args[i], res)]
  <2>1. Len(b) = Arity(target.op) /\ Fold(target, res) = FoldNode(target, b, res) /\ Shaped(target)
    <3> HIDE DEF target
    <3>1. Len(b) = Arity(target.op) /\ Fold(target, res) = FoldNode(target, b, res)
      BY <1>1, FoldedOperands
    <3>2. Shaped(target)
      BY <1>1, TreeNode
    <3> QED
      BY <3>1, <3>2
  <2>2. b = [i \in DOMAIN target.args |-> b[i]]
    OBVIOUS
  <2> HIDE DEF b, target
  <2>3. "primed" \notin {"ident", "not", "neg", "?:"} \cup Binary
    BY DEF Binary, Arith, Order, Equal, Logical
  <2>4. Fold(target, res) = [target EXCEPT !.args = b]
    BY <1>1, <2>1, <2>3, FoldSplit
  <2> QED
    BY <1>1, <1>2, <2>2, <2>4, LeafStays
<1>5. a[1] = target /\ a[2] = Fold(x.args[2], res)
  BY <1>1, <1>3, <1>4
<1>6. z.op = "=" /\ z.args = a
  <2>1. Shaped(x) /\ ~IsLiteral(a[1])
    BY <1>1, <1>2, <1>5, TreeNode DEF IsLiteral
  <2> HIDE DEF a, target
  <2>2. z = [x EXCEPT !.args = a]
    BY <1>1, <1>3, <2>1, FoldSplit
  <2> QED
    BY <1>1, <2>1, <2>2, Rebuilt
<1> QED
  BY <1>3, <1>5, <1>6

LEMMA CommandKeptStep ==
  ASSUME KeptInv, ResolveInv, FoldCommand
  PROVE  KeptInv'
<1>1. pc = "variables" /\ pc # "done" /\ pass = 1 /\ command = input.command /\ pc \in Later
  BY DEF FoldCommand, KeptInv, PartsInv, Later
<1>2. CASE Refuse("command")
  BY <1>1, <1>2, RefuseKept
<1>3. CASE ~Refuse("command")
  <2> DEFINE g == Fold(input.command.guard, resolved)
             p == Fold(input.command.prob, resolved)
             a == Fold(input.command.assign, resolved)
             c == [guard |-> g, prob |-> p, assign |-> a]
  <2>1. /\ Infer(g, TypesIn(input)) = "bool" /\ Infer(p, TypesIn(input)) \in Numeric
        /\ Infer(a, TypesIn(input)) # "error"
        /\ command' = c /\ pc' = "labels"
        /\ UNCHANGED <<input, constVars, decls, labels, bodies, phi, pass>>
    BY <1>1, <1>3 DEF FoldCommand, Goto, Folded, TypeOf, SymbolTypes
  <2>2. Infer(g, TypesIn(input)) # "error" /\ Infer(p, TypesIn(input)) # "error"
    BY <2>1 DEF Numeric
  <2>3. /\ input \in Inputs /\ Distinct(input.consts \o input.vars)
        /\ Resolves(input, resolved) /\ NamesIn(input.consts) \subseteq DOMAIN resolved
    BY <1>1, ConstantsThere
  <2>4. ASSUME NEW x \in Tree, Unprimed(x), Infer(Fold(x, resolved), TypesIn(input)) # "error"
        PROVE  \A env \in Valuations(input) : {Translate(Fold(x, resolved), env, env)} = Meaning(input, x, env)
    BY <2>3, <2>4, TextFinished
  <2>5. c.guard = g /\ c.prob = p /\ c.assign = a
    OBVIOUS
  <2> DEFINE v == Fold(input.command.assign.args[2], resolved)
  <2>6. a.args[1] = input.command.assign.args[1] /\ a.args[2] = v /\ Infer(v, TypesIn(input)) # "error"
    <3>1. IsVals(resolved) /\ IsTypes(TypesIn(input))
      BY <2>3, ResolvesVals, TypesInIs DEF ValsTyped
    <3>2. /\ a \in Tree /\ a.op = "="
          /\ a.args[1] = input.command.assign.args[1] /\ a.args[2] = v
      BY <2>3, <3>1, AssignmentFolded
    <3>3. a.op \in Binary /\ "=" \notin Logical \cup Arith \cup Order
      BY <3>2 DEF Binary, Equal, Logical, Arith, Order
    <3> HIDE DEF a, v
    <3>4. Infer(a, TypesIn(input)) = PairTyped("=", Infer(a.args[1], TypesIn(input)), Infer(a.args[2], TypesIn(input)))
      BY <3>1, <3>2, <3>3, PairType DEF Infer
    <3> QED
      BY <2>1, <3>2, <3>3, <3>4 DEF PairTyped
  <2>7. CommandKept(input, c)
    <3> HIDE DEF a, c
    <3>0. \A x \in {input.command.guard, input.command.prob, input.command.assign.args[2]} :
            x \in Tree /\ Unprimed(x)
      BY <2>3, TextsPlain
    <3>1. \A env \in Valuations(input) :
            /\ {Translate(g, env, env)} = Meaning(input, input.command.guard, env)
            /\ {Translate(p, env, env)} = Meaning(input, input.command.prob, env)
            /\ {Translate(v, env, env)} = Meaning(input, input.command.assign.args[2], env)
      BY <2>2, <2>4, <2>6, <3>0
    <3> HIDE DEF v
    <3> QED
      BY <2>5, <2>6, <3>1 DEF CommandKept
  <2> HIDE DEF a, c
  <2>8. PartsInv'
    BY <1>1, <2>1, <2>7 DEF KeptInv, PartsInv, Untouched, PastCommand
  <2>9. LabelsInv'
    BY <1>1, <2>1 DEF KeptInv, LabelsInv, Untouched
  <2> QED
    BY <2>1, <2>8, <2>9 DEF KeptInv, OnlyVariablesLeft, MeaningKept
<1> QED
  BY <1>2, <1>3

(* Labels by name.                                                         *)
LEMMA LabelNamed ==
  ASSUME NEW model \in Inputs, NEW ls, Listed(ls, Len(model.labels)),
         \A i \in DOMAIN ls : ls[i].name = model.labels[i].name
  PROVE  /\ NamesIn(ls) = NamesIn(model.labels)
         /\ Distinct(ls) <=> Distinct(model.labels)
         /\ \A n \in NamesIn(ls) : \E i \in DOMAIN ls : Named(ls, n) = ls[i] /\ ls[i].name = n
<1>1. DOMAIN ls = DOMAIN model.labels
  BY Lengths DEF Listed
<1>2. NamesIn(ls) = NamesIn(model.labels)
  BY <1>1 DEF NamesIn
<1>3. Distinct(ls) <=> Distinct(model.labels)
  BY <1>1 DEF Distinct
<1>4. ASSUME NEW n \in NamesIn(ls) PROVE \E i \in DOMAIN ls : Named(ls, n) = ls[i] /\ ls[i].name = n
  <2>1. \E i \in DOMAIN ls : ls[i].name = n
    BY DEF NamesIn
  <2> DEFINE k == CHOOSE i \in DOMAIN ls : ls[i].name = n
  <2>2. k \in DOMAIN ls /\ ls[k].name = n
    BY <2>1
  <2> QED
    BY <2>2 DEF Named
<1> QED
  BY <1>2, <1>3, <1>4

LEMMA OpenNamed ==
  ASSUME NEW model \in Inputs, NEW ls, Listed(ls, Len(model.labels)), Distinct(model.labels),
         \A i \in DOMAIN ls : LabelOpen(model, ls, i),
         NEW bs, bs = [n \in NamesIn(ls) |-> Named(ls, n).expr]
  PROVE  OpenBodies(model, bs)
<1>1. /\ NamesIn(ls) = NamesIn(model.labels)
      /\ \A n \in NamesIn(ls) : \E i \in DOMAIN ls : Named(ls, n) = ls[i] /\ ls[i].name = n
  <2>1. \A i \in DOMAIN ls : ls[i].name = model.labels[i].name
    BY DEF LabelOpen
  <2> QED
    BY <2>1, LabelNamed
<1>2. DOMAIN ls = DOMAIN model.labels
  BY Lengths DEF Listed
<1>3. ASSUME NEW n \in NamesIn(ls) PROVE Opened(model, bs[n]) /\ Keeps(model, LabelText(model, n), bs[n])
  <2>1. PICK i \in DOMAIN ls : Named(ls, n) = ls[i] /\ ls[i].name = n
    BY <1>1
  <2>2. bs[n] = ls[i].expr
    BY <2>1
  <2>3. LabelOpen(model, ls, i)
    OBVIOUS
  <2>4. LabelText(model, n) = model.labels[i].expr
    <3> DEFINE R == [name : Name, expr : Source]
    <3>1. model.labels \in Seq(R)
      BY InputIs
    <3> HIDE DEF R
    <3>2. PICK j \in DOMAIN model.labels : Named(model.labels, n) = model.labels[j] /\ model.labels[j].name = n
      BY <1>1, <3>1, NamedIs
    <3>3. model.labels[i].name = n
      BY <2>1, <2>3 DEF LabelOpen
    <3>4. i = j
      BY <1>2, <3>2, <3>3 DEF Distinct
    <3> QED
      BY <3>2, <3>4 DEF LabelText
  <2> QED
    BY <2>2, <2>3, <2>4 DEF LabelOpen
<1>4. DOMAIN bs = NamesIn(ls)
  OBVIOUS
<1> QED
  BY <1>1, <1>3, <1>4 DEF OpenBodies

(* A label folded in the second pass is open still.                        *)
LEMMA FoldOpen ==
  ASSUME NEW model \in Inputs, Distinct(model.consts \o model.vars), NEW res, Resolves(model, res),
         NEW ls, NEW i, LabelOpen(model, ls, i),
         NEW to, to[i] = [ls[i] EXCEPT !.expr = Fold(@, res)]
  PROVE  LabelOpen(model, to, i)
<1> DEFINE x == ls[i].expr
<1>1. Opened(model, x) /\ Keeps(model, model.labels[i].expr, x)
  BY DEF LabelOpen
<1>3. to[i] = [name |-> model.labels[i].name, expr |-> Fold(x, res)]
  <2>1. ls[i] = [name |-> model.labels[i].name, expr |-> x]
    BY DEF LabelOpen
  <2> HIDE DEF x
  <2>2. ls[i].expr = x
    BY <2>1
  <2>3. to[i] = [ls[i] EXCEPT !.expr = Fold(x, res)]
    BY <2>2
  <2> QED
    BY <2>1, <2>3
<1> HIDE DEF x
<1>2. Opened(model, Fold(x, res)) /\ Keeps(model, model.labels[i].expr, Fold(x, res))
  BY <1>1, OpenedFolds
<1> QED
  <2>1. to[i].expr = Fold(x, res)
    BY <1>3
  <2> QED
    BY <1>2, <1>3, <2>1 DEF LabelOpen

LEMMA FoldLabelsKept ==
  ASSUME KeptInv, ResolveInv, FoldLabels
  PROVE  KeptInv'
<1>1. pc = "labels" /\ pc # "done" /\ pc \in Later /\ pass \in {1, 2}
  BY DEF FoldLabels, Later, ResolveInv, ShapeInv
<1>2. CASE Refuse("labels")
  BY <1>1, <1>2, RefuseKept
<1>3. CASE ~Refuse("labels")
  <2> DEFINE bs == [n \in NamesIn(labels) |-> Named(labels, n).expr]
             to == [i \in DOMAIN labels |-> [labels[i] EXCEPT !.expr = Fold(@, resolved)]]
  <2>1. /\ Distinct(labels) /\ bodies' = bs /\ labels' = to /\ next' = 1 /\ pc' = "expand"
        /\ UNCHANGED <<input, consts, pending, resolved, changed, decls, command, phi, pass>>
    BY <1>3 DEF FoldLabels, Goto, Folded
  <2>2. /\ input \in Inputs /\ Distinct(input.consts \o input.vars) /\ Resolves(input, resolved)
    BY <1>1, ConstantsThere
  <2>3. Listed(labels, Len(input.labels)) /\ DOMAIN labels = 1 .. Len(input.labels) /\ Len(input.labels) \in Nat
    BY <2>2, LaterLengths DEF ResolveInv, ShapeInv
  <2>5. PartsInv'
    BY <1>1, <2>1 DEF KeptInv, PartsInv, Untouched, PastCommand
  <2>6. CASE pass = 1
    <3>1. labels = input.labels
      BY <1>1, <2>6 DEF KeptInv, LabelsInv
    <3>2. bs = Texts(input)
      BY <3>1 DEF Texts, LabelText
    <3>3. ASSUME NEW i \in DOMAIN to PROVE ~(i < 1) /\ LabelFolded(input, to, resolved, i)
      <4>1. i \in DOMAIN labels /\ ~(i < 1)
        BY <2>3
      <4>2. to[i] = [labels[i] EXCEPT !.expr = Fold(@, resolved)]
        BY <4>1
      <4>3. labels[i] = [name |-> input.labels[i].name, expr |-> input.labels[i].expr]
        <5> DEFINE R == [name : Name, expr : Source]
        <5>1. \A r \in R : r = [name |-> r.name, expr |-> r.expr]
          OBVIOUS
        <5>2. labels \in Seq(R)
          BY <2>2, <3>1, InputIs
        <5> HIDE DEF R
        <5>3. labels[i] \in R
          BY <4>1, <5>2
        <5> QED
          BY <3>1, <5>1, <5>3
      <4>4. labels[i].expr = input.labels[i].expr
        BY <3>1
      <4> QED
        BY <4>1, <4>2, <4>3, <4>4 DEF LabelFolded
    <3> HIDE DEF bs, to
    <3>4. LabelsInv'
      BY <1>1, <2>1, <2>6, <3>1, <3>2, <3>3 DEF KeptInv, LabelsInv, Untouched
    <3> QED
      BY <2>1, <2>5, <3>4 DEF KeptInv, OnlyVariablesLeft, MeaningKept
  <2>7. CASE pass = 2
    <3>1. (\A i \in DOMAIN labels : LabelOpen(input, labels, i)) /\ Distinct(input.labels)
      BY <2>7 DEF KeptInv, LabelsInv
    <3>2. OpenBodies(input, bs)
      BY <2>2, <2>3, <3>1, OpenNamed
    <3>3. ASSUME NEW i \in DOMAIN to PROVE LabelOpen(input, to, i)
      <4>1. LabelOpen(input, labels, i) /\ to[i] = [labels[i] EXCEPT !.expr = Fold(@, resolved)]
        BY <3>1
      <4> HIDE DEF to
      <4> QED
        BY <2>2, <4>1, FoldOpen
    <3> HIDE DEF bs, to
    <3>4. LabelsInv'
      BY <1>1, <2>1, <2>7, <3>1, <3>2, <3>3 DEF KeptInv, LabelsInv, Untouched
    <3> QED
      BY <2>1, <2>5, <3>4 DEF KeptInv, OnlyVariablesLeft, MeaningKept
  <2> QED
    BY <1>1, <2>6, <2>7
<1> QED
  BY <1>2, <1>3

(* One label that is given another body.                                   *)
LEMMA LabelReplaced ==
  ASSUME NEW model, NEW ls, NEW i \in DOMAIN ls, NEW e,
         ls[i] = [name |-> model.labels[i].name, expr |-> e],
         NEW y, Opened(model, y), Keeps(model, model.labels[i].expr, y),
         NEW to, to = [ls EXCEPT ![i].expr = y]
  PROVE  /\ LabelOpen(model, to, i) /\ DOMAIN to = DOMAIN ls
         /\ \A j \in DOMAIN ls : j # i => to[j] = ls[j]
<1>1. to[i] = [name |-> model.labels[i].name, expr |-> y] /\ DOMAIN to = DOMAIN ls
  OBVIOUS
<1>2. to[i].expr = y
  BY <1>1
<1> QED
  BY <1>1, <1>2 DEF LabelOpen

LEMMA SameOpen ==
  ASSUME NEW model, NEW ls, NEW to, NEW i, to[i] = ls[i]
  PROVE  /\ LabelOpen(model, ls, i) => LabelOpen(model, to, i)
         /\ \A res : LabelFolded(model, ls, res, i) => LabelFolded(model, to, res, i)
  BY DEF LabelOpen, LabelFolded

(* The next label is opened, or has been before.                           *)
LEMMA NextOpened ==
  ASSUME KeptInv, ResolveInv, pc = "expand", next \in DOMAIN labels,
         NEW y, y = Expand(labels[next].expr, bodies), Infer(y, TypesIn(input)) = "bool"
  PROVE  /\ labels[next] = [name |-> input.labels[next].name, expr |-> labels[next].expr]
         /\ Opened(input, y) /\ Keeps(input, input.labels[next].expr, y)
<1>1. /\ input \in Inputs /\ Distinct(input.consts \o input.vars) /\ Resolves(input, resolved)
      /\ pass \in {1, 2} /\ next \in DOMAIN input.labels
  <2>1. pc \in Later
    BY DEF Later
  <2>2. input \in Inputs
    BY <2>1, ConstantsThere
  <2>3. DOMAIN labels = 1 .. Len(input.labels) /\ DOMAIN input.labels = 1 .. Len(input.labels)
    BY <2>2, LaterLengths, Lengths
  <2> QED
    BY <2>1, <2>3, ConstantsThere DEF ResolveInv, ShapeInv
<1> DEFINE text == input.labels[next].expr
<1>2. CASE pass = 1
  <2> DEFINE x == Fold(text, resolved)
  <2>1. bodies = Texts(input) /\ LabelFolded(input, labels, resolved, next)
    <3>1. ~(next < next)
      BY LaterLengths
    <3> QED
      BY <1>2, <3>1 DEF KeptInv, LabelsInv
  <2>2. labels[next] = [name |-> input.labels[next].name, expr |-> x]
    BY <2>1 DEF LabelFolded
  <2>3. text \in Source /\ text \in Tree /\ Unprimed(text)
    BY <1>1, TextsAre, InputIs
  <2>4. IsVals(resolved)
    BY <1>1, ResolvesVals DEF ValsTyped
  <2>5. x \in Source /\ Unprimed(x) /\ Keeps(input, text, x)
    <3>1. Keeps(input, text, text)
      BY KeepsItself
    <3> HIDE DEF text
    <3> QED
      BY <1>1, <2>3, <2>4, <3>1, FoldSource, FoldKeeps
  <2> HIDE DEF x, text
  <2>6. labels[next].expr = x
    BY <2>2
  <2>7. y = Expand(x, Texts(input))
    BY <2>1, <2>6
  <2>8. Opened(input, y) /\ Keeps(input, text, y)
    BY <1>1, <2>5, <2>7, SourceOpens
  <2> QED
    BY <2>2, <2>6, <2>8 DEF text
<1>3. CASE pass = 2
  <2>1. LabelOpen(input, labels, next) /\ OpenBodies(input, bodies)
    BY <1>3 DEF KeptInv, LabelsInv
  <2>2. Opened(input, labels[next].expr) /\ Keeps(input, text, labels[next].expr)
    BY <2>1 DEF LabelOpen
  <2>3. labels[next].expr \in Tree /\ Labels(labels[next].expr) = {} /\ IsBodies(bodies)
    BY <1>1, <2>1, <2>2, OpenedIs, OpenFitting
  <2>4. y = labels[next].expr
    BY <2>3, ExpandNone
  <2> QED
    BY <2>1, <2>2, <2>4 DEF LabelOpen
<1> QED
  BY <1>1, <1>2, <1>3

LEMMA ExpandKept ==
  ASSUME KeptInv, ResolveInv, ExpandLabel
  PROVE  KeptInv'
<1>1. pc = "expand" /\ pc # "done" /\ next <= Len(labels)
  BY DEF ExpandLabel
<1>2. CASE Refuse("labels")
  BY <1>1, <1>2, RefuseKept
<1>3. CASE ~Refuse("labels")
  <2> DEFINE y == Expand(labels[next].expr, bodies)
             to == [labels EXCEPT ![next].expr = y]
  <2>1. /\ Infer(y, TypesIn(input)) = "bool" /\ labels' = to /\ next' = next + 1 /\ pc' = "expand"
        /\ UNCHANGED <<input, consts, pending, resolved, changed, decls, command, bodies, phi, pass>>
    BY <1>3 DEF ExpandLabel, Goto, TypeOf, SymbolTypes
  <2>2. next \in DOMAIN labels /\ DOMAIN labels \subseteq Nat /\ next \in Nat
    <3>1. /\ Len(labels) = Len(input.labels) /\ DOMAIN labels = 1 .. Len(input.labels)
          /\ next \in Nat /\ next \in 1 .. Bound
      BY LaterLengths
    <3>2. \A n, k, b \in Int : n \in 1 .. b /\ n <= k => n \in 1 .. k
      OBVIOUS
    <3>3. Bound \in Int /\ Len(labels) \in Int
      BY LaterLengths
    <3>4. next \in 1 .. Len(labels)
      BY <1>1, <3>1, <3>2, <3>3
    <3> QED
      BY <3>1, <3>4
  <2>3. /\ labels[next] = [name |-> input.labels[next].name, expr |-> labels[next].expr]
        /\ Opened(input, y) /\ Keeps(input, input.labels[next].expr, y)
    BY <1>1, <2>1, <2>2, NextOpened
  <2>4. /\ LabelOpen(input, to, next) /\ DOMAIN to = DOMAIN labels
        /\ \A j \in DOMAIN labels : j # next => to[j] = labels[j]
    <3> HIDE DEF y
    <3> QED
      BY <2>2, <2>3, LabelReplaced
  <2> HIDE DEF y, to
  <2>5. PartsInv'
    BY <1>1, <2>1 DEF KeptInv, PartsInv, Untouched, PastCommand
  <2>6. pass = 1 => /\ bodies = Texts(input)
                    /\ \A i \in DOMAIN to :
                         IF i < next + 1 THEN LabelOpen(input, to, i) ELSE LabelFolded(input, to, resolved, i)
    <3> SUFFICES ASSUME pass = 1
                 PROVE  /\ bodies = Texts(input)
                        /\ \A i \in DOMAIN to :
                             IF i < next + 1 THEN LabelOpen(input, to, i) ELSE LabelFolded(input, to, resolved, i)
      OBVIOUS
    <3>1. /\ bodies = Texts(input)
          /\ \A i \in DOMAIN labels :
               IF i < next THEN LabelOpen(input, labels, i) ELSE LabelFolded(input, labels, resolved, i)
      BY <1>1 DEF KeptInv, LabelsInv
    <3>2. ASSUME NEW i \in DOMAIN labels
          PROVE IF i < next + 1 THEN LabelOpen(input, to, i) ELSE LabelFolded(input, to, resolved, i)
      <4>1. CASE i = next
        <5>1. next < next + 1
          BY <2>2
        <5> QED
          BY <2>4, <4>1, <5>1
      <4>2. CASE i # next
        <5>1. i < next + 1 <=> i < next
          BY <2>2, <4>2
        <5>2. to[i] = labels[i]
          BY <2>4, <4>2
        <5>3. /\ LabelOpen(input, labels, i) => LabelOpen(input, to, i)
              /\ LabelFolded(input, labels, resolved, i) => LabelFolded(input, to, resolved, i)
          BY <5>2, SameOpen
        <5> QED
          BY <3>1, <5>1, <5>3
      <4> QED
        BY <4>1, <4>2
    <3> QED
      BY <2>4, <3>1, <3>2
  <2>7. pass = 2 => \A i \in DOMAIN to : LabelOpen(input, to, i)
    <3> SUFFICES ASSUME pass = 2, NEW i \in DOMAIN labels PROVE LabelOpen(input, to, i)
      BY <2>4
    <3>1. LabelOpen(input, labels, i)
      BY DEF KeptInv, LabelsInv
    <3>2. i # next => to[i] = labels[i]
      BY <2>4
    <3> QED
      BY <2>4, <3>1, <3>2, SameOpen
  <2>8. LabelsInv'
    BY <1>1, <2>1, <2>6, <2>7 DEF KeptInv, LabelsInv, Untouched
  <2> QED
    BY <2>1, <2>5, <2>8 DEF KeptInv, OnlyVariablesLeft, MeaningKept
<1> QED
  BY <1>2, <1>3

LEMMA FinishKept ==
  ASSUME KeptInv, ResolveInv, FinishLabels
  PROVE  KeptInv'
<1>1. pc = "expand" /\ next > Len(labels) /\ pc \in Later
  BY DEF FinishLabels, Later
<1>2. input \in Inputs /\ pass \in {1, 2} /\ Listed(labels, Len(input.labels))
  BY DEF ResolveInv, ShapeInv
<1>3. UNCHANGED <<input, decls, command, labels, phi, resolved>>
  BY DEF FinishLabels, Goto
<1>4. \A i \in DOMAIN labels : i < next
  <2>1. next \in Nat /\ Len(labels) \in Nat /\ DOMAIN labels = 1 .. Len(labels)
    BY LaterLengths
  <2> QED
    BY <1>1, <2>1
<1>5. (\A i \in DOMAIN labels : LabelOpen(input, labels, i)) /\ Distinct(input.labels)
  BY <1>1, <1>2, <1>4 DEF KeptInv, LabelsInv
<1>6. CASE pass = 1
  <2>1. pass' = 2 /\ pc' = "override"
    BY <1>6 DEF FinishLabels, Goto
  <2>2. PartsInv'
    BY <1>1, <1>3, <2>1 DEF KeptInv, PartsInv, Untouched, PastCommand
  <2>3. LabelsInv'
    BY <1>3, <1>5, <2>1 DEF LabelsInv
  <2> QED
    BY <2>1, <2>2, <2>3 DEF KeptInv, OnlyVariablesLeft, MeaningKept
<1>7. CASE pass = 2
  <2> DEFINE bs == [n \in NamesIn(labels) |-> Named(labels, n).expr]
  <2>1. pass' = pass /\ pc' = "property" /\ bodies' = bs
    BY <1>7 DEF FinishLabels, Goto
  <2>2. OpenBodies(input, bs)
    BY <1>2, <1>5, OpenNamed
  <2> HIDE DEF bs
  <2>3. PartsInv'
    BY <1>1, <1>3, <2>1 DEF KeptInv, PartsInv, Untouched, PastCommand
  <2>4. LabelsInv'
    BY <1>3, <1>5, <1>7, <2>1, <2>2 DEF LabelsInv
  <2> QED
    BY <2>1, <2>3, <2>4 DEF KeptInv, OnlyVariablesLeft, MeaningKept
<1> QED
  BY <1>2, <1>6, <1>7

(* A folded bound is the number that its text means.                       *)
LEMMA BoundKept ==
  ASSUME NEW model \in Inputs, Distinct(model.consts \o model.vars), NEW res, Resolves(model, res),
         NEW text, NEW y \in Tree, Keeps(model, text, y),
         NEW z, z = Fold(y, res), IsLiteral(z)
  PROVE  {z.val} = Closed(model, text)
<1> DEFINE means == Means(model, <<>>)
<1>1. z \in Tree /\ Keeps(model, text, z)
  BY FoldKeeps
<1>2. IsMeans(means)
  BY NoState, MeansIs
<1>3. MeaningUnder(z, means) = Closed(model, text)
  BY <1>1 DEF Keeps, States, Closed
<1> HIDE DEF means
<1> QED
  BY <1>1, <1>2, <1>3, LiteralMeaning

LEMMA FormulaFolded ==
  ASSUME NEW a, NEW b, NEW c
  PROVE  FoldPhi([lhs |-> a, rhs |-> b, bound |-> c]) = [lhs |-> Folded(a), rhs |-> Folded(b), bound |-> Folded(c)]
<1> DEFINE r == [lhs |-> a, rhs |-> b, bound |-> c]
<1>1. r.lhs = a /\ r.rhs = b /\ r.bound = c
  OBVIOUS
<1>2. FoldPhi(r) = [r EXCEPT !.lhs = Folded(a), !.rhs = Folded(b), !.bound = Folded(c)]
  <2> HIDE DEF r
  <2> QED
    BY <1>1 DEF FoldPhi
<1>3. \A l, m, n, k : /\ [[lhs |-> l, rhs |-> m, bound |-> n] EXCEPT !.lhs = k] = [lhs |-> k, rhs |-> m, bound |-> n]
                       /\ [[lhs |-> l, rhs |-> m, bound |-> n] EXCEPT !.rhs = k] = [lhs |-> l, rhs |-> k, bound |-> n]
                       /\ [[lhs |-> l, rhs |-> m, bound |-> n] EXCEPT !.bound = k] = [lhs |-> l, rhs |-> m, bound |-> k]
  OBVIOUS
<1>4. FoldPhi(r) = [[[r EXCEPT !.lhs = Folded(a)] EXCEPT !.rhs = Folded(b)] EXCEPT !.bound = Folded(c)]
  BY <1>2
<1>5. [r EXCEPT !.lhs = Folded(a)] = [lhs |-> Folded(a), rhs |-> b, bound |-> c]
  BY <1>3
<1>6. [[lhs |-> Folded(a), rhs |-> b, bound |-> c] EXCEPT !.rhs = Folded(b)]
        = [lhs |-> Folded(a), rhs |-> Folded(b), bound |-> c]
  BY <1>3
<1>7. [[lhs |-> Folded(a), rhs |-> Folded(b), bound |-> c] EXCEPT !.bound = Folded(c)]
        = [lhs |-> Folded(a), rhs |-> Folded(b), bound |-> Folded(c)]
  BY <1>3
<1> QED
  BY <1>4, <1>5, <1>6, <1>7

(* The property, expanded with the opened labels and folded.               *)
LEMMA PropertyKept ==
  ASSUME KeptInv, ResolveInv, AnalyzeProperty
  PROVE  KeptInv'
<1>1. pc = "property" /\ pc # "done" /\ pc \in Later
  BY DEF AnalyzeProperty, Later
<1>2. CASE Refuse("property")
  BY <1>1, <1>2, RefuseKept
<1>3. CASE ~Refuse("property")
  <2> DEFINE open(x) == Expand(x, bodies)
             shut(x) == Fold(open(x), resolved)
             psi == [lhs |-> shut(input.phi.lhs), rhs |-> shut(input.phi.rhs), bound |-> shut(input.phi.bound)]
  <2>1. /\ input \in Inputs /\ Distinct(input.consts \o input.vars)
        /\ Resolves(input, resolved) /\ NamesIn(input.consts) \subseteq DOMAIN resolved
    BY <1>1, ConstantsThere
  <2>2. OpenBodies(input, bodies) /\ phi = input.phi
    BY <1>1 DEF KeptInv, LabelsInv, PartsInv
  <2>3. /\ input.phi.lhs \in Source /\ input.phi.rhs \in Source /\ input.phi.bound \in Source
        /\ Unprimed(input.phi.lhs) /\ Unprimed(input.phi.rhs)
    <3>1. input.phi \in [lhs : Source, rhs : Source, bound : Source]
      BY <2>1, InputIs
    <3> QED
      BY <2>1, <3>1, TextsPlain
  <2>4. \A x \in {input.phi.lhs, input.phi.rhs, input.phi.bound} : "bad" \notin Ops(open(x))
    BY <1>3, <2>2 DEF AnalyzeProperty, Open
  <2>5. /\ Infer(shut(input.phi.lhs), TypesIn(input)) = "bool"
        /\ Infer(shut(input.phi.rhs), TypesIn(input)) = "bool"
        /\ shut(input.phi.bound) # Absent => shut(input.phi.bound).op = "int"
        /\ phi' = psi /\ pc' = "done"
        /\ UNCHANGED <<input, constVars, decls, command, labels, bodies, pass>>
    <3>1. FoldPhi(Open(phi)) = psi
      <4>1. Open(phi) = [lhs |-> open(input.phi.lhs), rhs |-> open(input.phi.rhs), bound |-> open(input.phi.bound)]
        BY <2>2 DEF Open
      <4>2. \A a, b, c : FoldPhi([lhs |-> a, rhs |-> b, bound |-> c])
                           = [lhs |-> Fold(a, resolved), rhs |-> Fold(b, resolved), bound |-> Fold(c, resolved)]
        BY FormulaFolded DEF Folded
      <4> HIDE DEF open
      <4> QED
        BY <4>1, <4>2
    <3>2. WellTyped(psi) /\ phi' = psi /\ pc' = "done"
          /\ UNCHANGED <<input, constVars, decls, command, labels, bodies, pass>>
      BY <1>3, <3>1 DEF AnalyzeProperty, Goto
    <3> HIDE DEF open, shut
    <3>3. /\ psi.lhs = shut(input.phi.lhs) /\ psi.rhs = shut(input.phi.rhs)
          /\ psi.bound = shut(input.phi.bound)
      OBVIOUS
    <3> QED
      BY <3>2, <3>3 DEF WellTyped, TypeOf, SymbolTypes
  <2>6. ASSUME NEW x \in {input.phi.lhs, input.phi.rhs, input.phi.bound}
        PROVE  open(x) \in Tree /\ (Unprimed(x) => Unprimed(open(x))) /\ Keeps(input, x, open(x))
    <3>1. open(x) \in Tree /\ (Unprimed(x) => Unprimed(open(x))) /\ (Whole(open(x)) => Keeps(input, x, open(x)))
      BY <2>1, <2>2, <2>3, OpenExpands
    <3>2. "bad" \notin Ops(open(x)) /\ "bad" \in Gaps
      BY <2>4 DEF Gaps
    <3> HIDE DEF open
    <3>3. Whole(open(x))
      BY <3>1, <3>2, HolesAre DEF Whole
    <3> QED
      BY <3>1, <3>3
  <2>7. ASSUME NEW x \in {input.phi.lhs, input.phi.rhs}
        PROVE  /\ shut(x) \in Tree /\ OverVariables(input, shut(x))
               /\ \A env \in Valuations(input) : {Translate(shut(x), env, env)} = Meaning(input, x, env)
    <3>1. Infer(shut(x), TypesIn(input)) # "error"
      BY <2>5
    <3>2. open(x) \in Tree /\ Unprimed(open(x)) /\ Keeps(input, x, open(x))
      BY <2>3, <2>6
    <3>3. shut(x) = Fold(open(x), resolved)
      OBVIOUS
    <3> HIDE DEF open, shut, psi
    <3>4. ASSUME NEW y \in Tree, Unprimed(y), Keeps(input, x, y),
                 NEW z, z = Fold(y, resolved), Infer(z, TypesIn(input)) # "error"
          PROVE  /\ z \in Tree /\ OverVariables(input, z)
                 /\ \A env \in Valuations(input) : {Translate(z, env, env)} = Meaning(input, x, env)
      BY <2>1, <3>4, Finished
    <3> QED
      BY <3>1, <3>2, <3>3, <3>4
  <2>8. shut(input.phi.bound) # Absent => {shut(input.phi.bound).val} = Closed(input, input.phi.bound)
    <3> SUFFICES ASSUME shut(input.phi.bound) # Absent
                 PROVE  {shut(input.phi.bound).val} = Closed(input, input.phi.bound)
      OBVIOUS
    <3>1. IsLiteral(shut(input.phi.bound))
      BY <2>5 DEF IsLiteral, Kinds
    <3>2. open(input.phi.bound) \in Tree /\ Keeps(input, input.phi.bound, open(input.phi.bound))
      BY <2>6
    <3>3. shut(input.phi.bound) = Fold(open(input.phi.bound), resolved)
      OBVIOUS
    <3> HIDE DEF open, shut
    <3> QED
      BY <2>1, <3>1, <3>2, <3>3, BoundKept
  <2> HIDE DEF open, shut
  <2>9. /\ phi'.lhs = shut(input.phi.lhs) /\ phi'.rhs = shut(input.phi.rhs)
        /\ phi'.bound = shut(input.phi.bound)
    BY <2>5
  <2> HIDE DEF psi
  <2>10. CommandKept(input, command) /\ input' = input /\ command' = command /\ labels' = labels /\ pass' = pass
    BY <1>1, <2>5 DEF KeptInv, PartsInv, PastCommand
  <2>11. PartsInv'
    BY <1>1, <2>5, <2>10 DEF KeptInv, PartsInv, Untouched, PastCommand
  <2>12. LabelsInv'
    BY <1>1, <2>5, <2>10 DEF KeptInv, LabelsInv, Untouched
  <2>13. OnlyVariablesLeft'
    <3>1. ASSUME NEW x \in {input.phi.lhs, input.phi.rhs}
          PROVE  /\ Ops(shut(x)) \cap {"label", "primed", "bad"} = {}
                 /\ Idents(shut(x)) \subseteq NamesIn(input.vars)
      BY <2>1, <2>7, VariablesLeft
    <3> QED
      BY <2>9, <2>10, <3>1 DEF OnlyVariablesLeft
  <2>14. MeaningKept'
    BY <2>7, <2>8, <2>9, <2>10 DEF MeaningKept, CommandKept
  <2> QED
    BY <2>11, <2>12, <2>13, <2>14 DEF KeptInv
<1> QED
  BY <1>2, <1>3

LEMMA KeptInit == AnalysisInit => KeptInv
<1> SUFFICES ASSUME AnalysisInit PROVE KeptInv
  OBVIOUS
<1>1. /\ pc = "declare" /\ pass = 1 /\ phi = input.phi /\ decls = input.vars /\ command = input.command
      /\ labels = input.labels
  BY DEF AnalysisInit
<1>2. PartsInv
  BY <1>1 DEF PartsInv, PastCommand
<1>3. LabelsInv
  BY <1>1 DEF LabelsInv
<1> QED
  BY <1>1, <1>2, <1>3 DEF KeptInv, OnlyVariablesLeft, MeaningKept

LEMMA KeptNext == ResolveInv /\ KeptInv /\ [AnalysisNext]_vars => KeptInv'
<1> SUFFICES ASSUME ResolveInv, KeptInv, [AnalysisNext]_vars PROVE KeptInv'
  OBVIOUS
<1>1. CASE AnalysisNext
  <2>1. ShapeInv
    BY DEF ResolveInv
  <2> QED
    BY <1>1, <2>1, ConstantsKept, VariableKept, CommandKeptStep, FoldLabelsKept, ExpandKept, FinishKept,
       PropertyKept DEF AnalysisNext
<1>2. CASE UNCHANGED vars
  <2>1. PartsInv'
    BY <1>2 DEF KeptInv, vars, PartsInv, Untouched, PastCommand
  <2>2. LabelsInv'
    BY <1>2 DEF KeptInv, vars, LabelsInv, Untouched
  <2> QED
    BY <1>2, <2>1, <2>2 DEF KeptInv, vars, OnlyVariablesLeft, MeaningKept
<1> QED
  BY <1>1, <1>2

(* The parts that the analysis has passed keep what their text means: the  *)
(* command once it is folded, every label once it is opened.               *)
THEOREM KeptInvariant == AnalysisSpec => []KeptInv
  BY ResolveInvariant, KeptInit, KeptNext, PTL DEF AnalysisSpec

(* The operands of the property that reach the translation mention         *)
(* variables only, no label and no constant (analyze_property).            *)
THEOREM VariablesOnly == AnalysisSpec => []OnlyVariablesLeft
<1>1. KeptInv => OnlyVariablesLeft
  BY DEF KeptInv
<1> QED
  BY <1>1, KeptInvariant, PTL

(* Folding, expanding, analysing twice and translating keep the meaning:   *)
(* in every state the diagrams of the operands of the property, of the     *)
(* guard, the probability and the value the command assigns have the       *)
(* values of their texts, and a folded bound is the number of its text     *)
(* (analyse_dtmc and translate_expr).                                      *)
THEOREM AnalysisKeepsMeaning == AnalysisSpec => []MeaningKept
<1>1. KeptInv => MeaningKept
  BY DEF KeptInv
<1> QED
  BY <1>1, KeptInvariant, PTL

-----------------------------------------------------------------------------
(* Nothing well formed is rejected *)

WellFormed(model) ==
  /\ Distinct(model.consts \o model.vars) /\ Distinct(model.labels)
  /\ ConstantsWellFormed(model) /\ VariablesWellFormed(model)
  /\ CommandWellFormed(model) /\ PropertyWellFormed(model)

(* Only a constant has a meaning before a state is given.                  *)
LEMMA ConstantsKnown ==
  ASSUME NEW model \in Inputs, NEW m, m = Means(model, <<>>), NEW name,
         <<"ident", name>> \in DOMAIN m, m[<<"ident", name>>] # {}
  PROVE  name \in NamesIn(model.consts)
<1> DEFINE key == <<"ident", name>>
<1>1. /\ DOMAIN m = Keys(model)
      /\ \A k \in Keys(model) :
           m[k] = IF k \in VarKeys(model) THEN Given(<<>>, k) ELSE MeaningUnder(TextOf(model, k), m)
  BY NoState, MeansIs
<1>2. key \in Keys(model) /\ m[key] # {}
  BY <1>1
<1>3. key \notin VarKeys(model)
  BY <1>1, <1>2, NoState
<1>4. key \notin LabelKeys(model)
  BY DEF LabelKeys
<1>5. key \in ConstKeys(model)
  BY <1>2, <1>3, <1>4 DEF Keys
<1> QED
  BY <1>5 DEF ConstKeys

(* A typed tree whose text has a value folds to the literal of that value. *)
LEMMA ClosedFolds ==
  ASSUME NEW model \in Inputs, Distinct(model.consts \o model.vars), NEW res, Resolves(model, res),
         NamesIn(model.consts) \subseteq DOMAIN res,
         NEW text, NEW y \in Tree, Keeps(model, text, y), TypeIn(model, y) # "error",
         NEW v \in Closed(model, text),
         NEW z, z = Fold(y, res)
  PROVE  IsLiteral(z) /\ z.val = v /\ z \in Tree /\ Promotes(z.op, TypeIn(model, y))
<1> DEFINE m == Means(model, <<>>)
           types == TypesIn(model)
<1>1. IsMeans(m) /\ Single(m)
  BY NoState, MeansIs
<1>2. IsTypes(types) /\ ValsTyped(res, types) /\ Agrees(res, m)
  BY TypesInIs, ResolvesVals
<1>3. \A name : <<"ident", name>> \in DOMAIN m /\ m[<<"ident", name>>] # {} => name \in DOMAIN res
  BY ConstantsKnown
<1>4. InferWith(y, types, "error") # "error" /\ MeaningUnder(y, m) = Closed(model, text)
  BY DEF TypeIn, Infer, Keeps, States, Closed
<1>5. MeaningUnder(y, m) # {}
  BY <1>4
<1> HIDE DEF m, types
<1>6. Below(m, m)
  BY DEF Below
<1>7. IsLiteral(z)
  BY <1>1, <1>2, <1>3, <1>4, <1>5, <1>6, FoldCloses
<1>8. z.val = v
  BY <1>7, BoundKept
<1>9. z \in Tree
  BY FoldKeeps
<1>10. Promotes(InferWith(z, types, "error"), InferWith(y, types, "error"))
  BY <1>4, FoldKeeps DEF types
<1>11. InferWith(z, types, "error") = z.op
  BY <1>2, <1>7, <1>9, LiteralType
<1> QED
  BY <1>7, <1>8, <1>9, <1>10, <1>11 DEF TypeIn, Infer, types

(* Folding keeps a type that nothing else is promoted to.                  *)
LEMMA TypeStays ==
  ASSUME NEW model \in Inputs, Distinct(model.consts \o model.vars), NEW res, Resolves(model, res),
         NEW x \in Tree, NEW z, z = Fold(x, res), TypeIn(model, x) # "error"
  PROVE  /\ TypeIn(model, x) \in {"bool", "int"} => TypeIn(model, z) = TypeIn(model, x)
         /\ TypeIn(model, x) \in Numeric => TypeIn(model, z) \in Numeric
<1>1. Keeps(model, x, x)
  BY KeepsItself
<1>2. Promotes(InferWith(z, TypesIn(model), "error"), InferWith(x, TypesIn(model), "error"))
  BY <1>1, FoldKeeps DEF TypeIn, Infer
<1> QED
  BY <1>2 DEF TypeIn, Infer, Promotes, Numeric

LEMMA DeclareAccepts ==
  ASSUME ResolveInv, WellFormed(input), Declare
  PROVE  pc' # "rejected"
<1>1. pc = "declare" /\ input \in Inputs /\ SameConsts(input, consts) /\ pending = DOMAIN input.overrides
  BY DEF Declare, ResolveInv, ShapeInv, ConstInv, ConstsOK
<1>2. pending \subseteq NamesIn(consts)
  BY <1>1, ConstIs DEF WellFormed, ConstantsWellFormed
<1>3. Distinct(input.consts \o input.vars)
  BY DEF WellFormed
<1> QED
  BY <1>2, <1>3 DEF Declare, Goto

LEMMA OverrideAccepts ==
  ASSUME ResolveInv, WellFormed(input), ApplyOverride
  PROVE  pc' # "rejected"
<1>1. /\ input \in Inputs /\ SameConsts(input, consts) /\ pending \subseteq DOMAIN input.overrides
  BY DEF ResolveInv, ShapeInv, ConstInv, ConstsOK
<1>2. ASSUME NEW name \in pending, NEW i, i = CHOOSE j \in DOMAIN consts : consts[j].name = name
      PROVE  CliValue(input.overrides[name], consts[i].type) # Bad
  <2>1. name \in NamesIn(consts) /\ Promotes(input.overrides[name].op, TypesIn(input)[name])
    BY <1>1, ConstIs DEF WellFormed, ConstantsWellFormed
  <2>2. i \in DOMAIN consts /\ consts[i].name = name
    <3>1. \E j \in DOMAIN consts : consts[j].name = name
      BY <2>1 DEF NamesIn
    <3> QED
      BY <1>2, <3>1
  <2>3. consts[i].type = TypesIn(input)[name] /\ consts[i].type \in Kinds
    BY <1>1, <2>2, ConstIs DEF WellFormed
  <2>4. CliValue(input.overrides[name], consts[i].type) = Literal(consts[i].type, input.overrides[name].val)
    BY <2>1, <2>3 DEF CliValue, Promotes
  <2>5. Bad.op = "bad" /\ "bad" \notin Kinds
    BY DEF Bad, Node, Kinds
  <2> QED
    BY <2>3, <2>4, <2>5, LiteralParts
<1>3. \E name \in pending :
        LET i == CHOOSE i \in DOMAIN consts : consts[i].name = name
            value == CliValue(input.overrides[name], consts[i].type)
        IN IF value = Bad THEN TRUE ELSE pc' = "override"
  BY DEF ApplyOverride, Goto
<1> QED
  BY <1>2, <1>3

LEMMA CheckAccepts ==
  ASSUME ResolveInv, WellFormed(input), CheckConstants
  PROVE  pc' # "rejected"
<1>1. /\ input \in Inputs /\ SameConsts(input, consts) /\ pending = {}
      /\ \A i \in DOMAIN consts : Stands(input, consts[i])
  <2>1. pc = "override" /\ reason = "" /\ pending = {} /\ input \in Inputs
    BY DEF CheckConstants, ResolveInv, ShapeInv
  <2>2. Declared(input) /\ ConstsOK(input, consts, resolved, {}, pass)
    BY <2>1 DEF ResolveInv, ConstInv
  <2> QED
    BY <2>1, <2>2 DEF ConstsOK
<1>2. ASSUME NEW i \in DOMAIN consts
      PROVE  consts[i].value # Absent /\ Promotes(TypeOf(consts[i].value), consts[i].type)
  <2>1. /\ consts[i].name \in NamesIn(input.consts) /\ consts[i].type \in Kinds /\ consts[i].value \in Tree
        /\ TypesIn(input)[consts[i].name] = consts[i].type
    BY <1>1, ConstIs DEF WellFormed
  <2>2. CASE consts[i].value = SourceOf(input, consts[i].name)
    BY <2>1, <2>2 DEF WellFormed, ConstantsWellFormed, TypeOf, SymbolTypes, TypeIn
  <2>3. CASE Stated(input, consts[i])
    <3>1. IsLiteral(consts[i].value) /\ consts[i].value.op = consts[i].type
      BY <2>1, <2>3, StatedParts
    <3>2. TypeOf(consts[i].value) = consts[i].type
      <4>1. IsTypes(TypesIn(input))
        BY <1>1, TypesInIs
      <4> QED
        BY <2>1, <3>1, <4>1, LiteralType DEF TypeOf, SymbolTypes, Infer
    <3>3. Absent.op = "none" /\ "none" \notin Kinds
      BY DEF Absent, Node, Kinds
    <3> QED
      BY <2>1, <3>1, <3>2, <3>3 DEF Promotes
  <2> QED
    BY <1>1, <2>2, <2>3 DEF Stands
<1> QED
  BY <1>2 DEF CheckConstants, Goto, Promotes

LEMMA RoundAccepts ==
  ASSUME ResolveInv, WellFormed(input), EndRound
  PROVE  pc' # "rejected"
<1> SUFFICES ASSUME pc' = "rejected" PROVE FALSE
  OBVIOUS
<1>1. Refuse("unresolved") /\ ~AllResolved
  BY DEF EndRound, NextRound, Goto
<1>2. reason' = "unresolved" /\ input' = input /\ consts' = consts /\ resolved' = resolved
  BY <1>1 DEF Refuse, constVars
<1>3. ResolveInv'
  BY EndRoundKeeps
<1>4. \A n \in NamesIn(consts) : n \in DOMAIN resolved <=> Closed(input, SourceOf(input, n)) # {}
  BY <1>2, <1>3 DEF ResolveInv, ConstInv
<1>5. /\ NamesIn(consts) = NamesIn(input.consts) /\ DOMAIN resolved \subseteq NamesIn(input.consts)
  <2>1. input \in Inputs /\ SameConsts(input, consts) /\ Resolves(input, resolved)
    BY DEF ResolveInv, ShapeInv, ConstInv, ConstsOK
  <2> QED
    BY <2>1, ConstIs DEF Resolves
<1>6. DOMAIN resolved = NamesIn(consts)
  BY <1>4, <1>5 DEF WellFormed, ConstantsWellFormed
<1> QED
  BY <1>1, <1>6 DEF AllResolved

VarDeclaration == [name : Name, type : {"bool", "int"}, lo : Source, hi : Source, init : Source]

LEMMA DeclFolded ==
  ASSUME NEW d0 \in VarDeclaration, NEW d, d = FoldDecl(d0)
  PROVE  d.type = d0.type /\ d.lo = Folded(d0.lo) /\ d.hi = Folded(d0.hi) /\ d.init = Folded(d0.init)
<1>1. d = [[[d0 EXCEPT !.lo = Folded(d0.lo)] EXCEPT !.hi = Folded(d0.hi)] EXCEPT !.init = Folded(d0.init)]
  BY DEF FoldDecl, VarDeclaration
<1>2. DOMAIN d0 = {"name", "type", "lo", "hi", "init"}
  BY DEF VarDeclaration
<1>3. \A f, k : DOMAIN f = {"name", "type", "lo", "hi", "init"} =>
        /\ DOMAIN [f EXCEPT !.lo = k] = DOMAIN f /\ DOMAIN [f EXCEPT !.hi = k] = DOMAIN f
        /\ DOMAIN [f EXCEPT !.init = k] = DOMAIN f
        /\ [f EXCEPT !.lo = k].lo = k /\ [f EXCEPT !.hi = k].hi = k /\ [f EXCEPT !.init = k].init = k
        /\ [f EXCEPT !.lo = k].type = f.type /\ [f EXCEPT !.hi = k].type = f.type /\ [f EXCEPT !.init = k].type = f.type
        /\ [f EXCEPT !.hi = k].lo = f.lo /\ [f EXCEPT !.init = k].lo = f.lo /\ [f EXCEPT !.init = k].hi = f.hi
  OBVIOUS
<1> DEFINE a == [d0 EXCEPT !.lo = Folded(d0.lo)]
           b == [a EXCEPT !.hi = Folded(d0.hi)]
<1>4. a.lo = Folded(d0.lo) /\ a.type = d0.type /\ DOMAIN a = {"name", "type", "lo", "hi", "init"}
  BY <1>2, <1>3
<1> HIDE DEF a
<1>5. b.lo = Folded(d0.lo) /\ b.hi = Folded(d0.hi) /\ b.type = d0.type /\ DOMAIN b = {"name", "type", "lo", "hi", "init"}
  BY <1>3, <1>4
<1>6. d = [b EXCEPT !.init = Folded(d0.init)]
  BY <1>1 DEF a
<1> HIDE DEF b
<1> QED
  BY <1>3, <1>5, <1>6

(* A declaration that is well formed is accepted.                          *)
LEMMA DeclarationAccepted ==
  ASSUME NEW model \in Inputs, Distinct(model.consts \o model.vars), NEW res, Resolves(model, res),
         NamesIn(model.consts) \subseteq DOMAIN res, VariablesWellFormed(model),
         NEW i \in DOMAIN model.vars, NEW d0, d0 = model.vars[i],
         NEW lo, lo = Fold(d0.lo, res), NEW hi, hi = Fold(d0.hi, res), NEW init, init = Fold(d0.init, res)
  PROVE  /\ TypeIn(model, init) = d0.type
         /\ d0.type = "int" =>
              /\ lo.op = "int" /\ hi.op = "int" /\ IsLiteral(init)
              /\ Compare("<=", lo.val, hi.val)
              /\ Compare("<=", lo.val, init.val) /\ Compare("<=", init.val, hi.val)
<1>1. d0.lo \in Tree /\ d0.hi \in Tree /\ d0.init \in Tree /\ d0.type \in {"bool", "int"}
  <2>1. \A r \in VarDeclaration : r.lo \in Source /\ r.hi \in Source /\ r.init \in Source /\ r.type \in {"bool", "int"}
    BY DEF VarDeclaration
  <2>2. model.vars \in Seq(VarDeclaration) /\ Source \subseteq Tree
    BY InputIs DEF VarDeclaration
  <2>3. d0 \in VarDeclaration
    BY <2>2
  <2> QED
    BY <2>1, <2>2, <2>3
<1>2. TypeIn(model, d0.init) = d0.type
  BY DEF VariablesWellFormed
<1>3. TypeIn(model, init) = d0.type
  <2>1. TypeIn(model, d0.init) # "error" /\ TypeIn(model, d0.init) \in {"bool", "int"}
    BY <1>1, <1>2
  <2> QED
    BY <1>1, <1>2, <2>1, TypeStays
<1>4. ASSUME d0.type = "int"
      PROVE  /\ lo.op = "int" /\ hi.op = "int" /\ IsLiteral(init)
             /\ Compare("<=", lo.val, hi.val)
             /\ Compare("<=", lo.val, init.val) /\ Compare("<=", init.val, hi.val)
  <2>1. /\ TypeIn(model, d0.lo) = "int" /\ TypeIn(model, d0.hi) = "int" /\ TypeIn(model, d0.init) = "int"
        /\ \E l \in Closed(model, d0.lo), h \in Closed(model, d0.hi), v \in Closed(model, d0.init) :
             Compare("<=", l, h) /\ Compare("<=", l, v) /\ Compare("<=", v, h)
    BY <1>2, <1>4 DEF VariablesWellFormed
  <2>2. PICK l \in Closed(model, d0.lo), h \in Closed(model, d0.hi), v \in Closed(model, d0.init) :
          Compare("<=", l, h) /\ Compare("<=", l, v) /\ Compare("<=", v, h)
    BY <2>1
  <2>3. ASSUME NEW x \in Tree, TypeIn(model, x) = "int", NEW k \in Closed(model, x), NEW z, z = Fold(x, res)
        PROVE  IsLiteral(z) /\ z.val = k /\ z.op = "int"
    <3>1. Keeps(model, x, x) /\ TypeIn(model, x) # "error"
      BY <2>3, KeepsItself
    <3>2. IsLiteral(z) /\ z.val = k /\ Promotes(z.op, "int")
      BY <2>3, <3>1, ClosedFolds
    <3> QED
      BY <3>2 DEF Promotes
  <2>4. lo.val = l /\ lo.op = "int"
    BY <1>1, <2>1, <2>3
  <2>5. hi.val = h /\ hi.op = "int"
    BY <1>1, <2>1, <2>3
  <2>6. init.val = v /\ IsLiteral(init)
    BY <1>1, <2>1, <2>3
  <2> QED
    BY <2>2, <2>4, <2>5, <2>6
<1> QED
  BY <1>3, <1>4

LEMMA VariableAccepts ==
  ASSUME ResolveInv, KeptInv, WellFormed(input), FoldVariable
  PROVE  pc' # "rejected"
<1>1. pc = "variables" /\ next <= Len(decls) /\ pc \in Later
  BY DEF FoldVariable, Later
<1>2. /\ input \in Inputs /\ Distinct(input.consts \o input.vars)
      /\ Resolves(input, resolved) /\ NamesIn(input.consts) \subseteq DOMAIN resolved
  BY <1>1, ConstantsThere
<1>3. next \in DOMAIN input.vars /\ decls[next] = input.vars[next]
  <2>1. /\ Len(decls) = Len(input.vars) /\ DOMAIN decls = 1 .. Len(input.vars)
        /\ next \in Nat /\ next \in 1 .. Bound /\ Len(input.vars) \in Nat /\ Bound \in Int
    BY LaterLengths
  <2>2. \A n, k, b \in Int : n \in 1 .. b /\ n <= k => n \in 1 .. k
    OBVIOUS
  <2>3. next \in DOMAIN decls /\ next >= next
    BY <1>1, <2>1, <2>2
  <2>4. DOMAIN input.vars = DOMAIN decls
    BY <1>2, <2>1, Lengths
  <2> QED
    BY <1>1, <2>3, <2>4 DEF KeptInv, PartsInv
<1> DEFINE d0 == input.vars[next]
           d == FoldDecl(d0)
<1>4. d0 \in VarDeclaration
  <2>1. input.vars \in Seq(VarDeclaration)
    BY <1>2, InputIs DEF VarDeclaration
  <2> QED
    BY <1>3, <2>1
<1>5. /\ d.type = d0.type /\ d.lo = Fold(d0.lo, resolved) /\ d.hi = Fold(d0.hi, resolved)
      /\ d.init = Fold(d0.init, resolved)
  <2> HIDE DEF d0
  <2> QED
    BY <1>4, DeclFolded DEF Folded
<1>6. /\ TypeIn(input, d.init) = d0.type
      /\ d0.type = "int" =>
           /\ d.lo.op = "int" /\ d.hi.op = "int" /\ IsLiteral(d.init)
           /\ Compare("<=", d.lo.val, d.hi.val)
           /\ Compare("<=", d.lo.val, d.init.val) /\ Compare("<=", d.init.val, d.hi.val)
  <2> HIDE DEF d
  <2>1. VariablesWellFormed(input)
    BY DEF WellFormed
  <2> QED
    BY <1>2, <1>3, <1>5, <2>1, DeclarationAccepted
<1>7. IF ~BoundsFit(d) \/ TypeOf(d.init) # d.type THEN TRUE
      ELSE IF d.type = "int" /\ ~IsLiteral(d.init) THEN pc' = "panicked"
      ELSE IF ~InitInRange(d) THEN TRUE
      ELSE pc' = "variables"
  BY <1>3 DEF FoldVariable, Goto
<1> HIDE DEF d, d0
<1>8. BoundsFit(d) /\ TypeOf(d.init) = d.type /\ InitInRange(d)
  BY <1>5, <1>6 DEF BoundsFit, InitInRange, TypeOf, SymbolTypes, TypeIn
<1>9. pc' \in {"panicked", "variables"}
  BY <1>7, <1>8
<1> QED
  BY <1>9

(* The update of a command keeps its target, and has the type of a truth   *)
(* value when target and value have the same.                              *)
LEMMA AssignmentTyped ==
  ASSUME NEW model \in Inputs, Distinct(model.consts \o model.vars), NEW res, Resolves(model, res),
         CommandWellFormed(model), NEW x, x = model.command.assign, NEW z, z = Fold(x, res)
  PROVE  TypeIn(model, z) # "error" /\ TypeIn(model, z.args[1]) = TypeIn(model, z.args[2])
<1> DEFINE target == x.args[1]
           types == TypesIn(model)
<1>1. /\ x.op = "=" /\ x.op \in Binary /\ target \in Tree /\ target.op = "primed" /\ x.args[2] \in Tree
      /\ "primed" \in Leaves /\ "primed" \notin Kinds /\ "=" \in Equal
  BY AssignmentShape DEF Binary, Equal, Leaves, Kinds
<1>2. IsVals(res) /\ IsTypes(types)
  BY ResolvesVals, TypesInIs DEF ValsTyped
<1>3. z \in Tree /\ z.op = "=" /\ z.args[1] = target /\ z.args[2] = Fold(x.args[2], res)
  BY <1>2, AssignmentFolded
<1>4. /\ target.name \in NamesIn(model.vars) /\ TypeIn(model, x.args[2]) = TypeIn(model, target)
  BY DEF CommandWellFormed
<1>5. TypeIn(model, target) \in {"bool", "int"}
  <2> DEFINE n == target.name
  <2>1. n \in DOMAIN types /\ TypeIn(model, target) = types[n]
    <3>1. n \in DOMAIN types
      BY <1>4, TypesInIs
    <3>2. ~IsLiteral(target)
      BY <1>1 DEF IsLiteral
    <3> HIDE DEF target, types
    <3>3. InferWith(target, types, "error") = types[target.name]
      BY <1>1, <1>2, <3>1, <3>2, LeafType
    <3> QED
      BY <3>1, <3>3 DEF TypeIn, Infer, types
  <2>2. model.vars \in Seq(VarDeclaration)
    BY InputIs DEF VarDeclaration
  <2>3. PICK j \in DOMAIN model.vars : model.vars[j].name = n
    BY <1>4 DEF NamesIn
  <2>4. model.vars[j] \in VarDeclaration
    BY <2>2
  <2>5. model.vars[j].type \in {"bool", "int"}
    BY <2>4 DEF VarDeclaration
  <2>6. types[model.vars[j].name] = model.vars[j].type
    BY TypesInIs
  <2> QED
    BY <2>1, <2>3, <2>5, <2>6
<1>6. TypeIn(model, z.args[2]) = TypeIn(model, target)
  <2> DEFINE v == x.args[2]
  <2>1. v \in Tree /\ TypeIn(model, v) # "error" /\ TypeIn(model, v) \in {"bool", "int"}
    BY <1>1, <1>4, <1>5
  <2>2. z.args[2] = Fold(v, res)
    BY <1>3
  <2> HIDE DEF v
  <2>3. TypeIn(model, z.args[2]) = TypeIn(model, v)
    BY <2>1, <2>2, TypeStays
  <2> QED
    BY <1>4, <2>3 DEF v
<1>7. TypeIn(model, z) = PairTyped("=", TypeIn(model, z.args[1]), TypeIn(model, z.args[2]))
  <2>1. z \in Tree /\ z.op \in Binary
    BY <1>1, <1>3
  <2>2. InferWith(z, types, "error")
          = PairTyped(z.op, InferWith(z.args[1], types, "error"), InferWith(z.args[2], types, "error"))
    BY <1>2, <2>1, PairType
  <2> QED
    BY <1>3, <2>2 DEF TypeIn, Infer
<1>8. \A t \in {"bool", "int"} : PairTyped("=", t, t) = "bool"
  BY DEF PairTyped, Logical, Arith, Order, Join
<1> QED
  BY <1>3, <1>5, <1>6, <1>7, <1>8

LEMMA CommandAccepts ==
  ASSUME ResolveInv, KeptInv, WellFormed(input), FoldCommand
  PROVE  pc' # "rejected"
<1>1. pc = "variables" /\ pass = 1 /\ command = input.command /\ pc \in Later
  BY DEF FoldCommand, KeptInv, PartsInv, Later
<1>2. /\ input \in Inputs /\ Distinct(input.consts \o input.vars) /\ Resolves(input, resolved)
      /\ CommandWellFormed(input)
  BY <1>1, ConstantsThere DEF WellFormed
<1> DEFINE g == Fold(input.command.guard, resolved)
           p == Fold(input.command.prob, resolved)
           a == Fold(input.command.assign, resolved)
           c == [guard |-> g, prob |-> p, assign |-> a]
<1>3. TypeIn(input, g) = "bool" /\ TypeIn(input, p) \in Numeric
  <2>1. /\ TypeIn(input, input.command.guard) = "bool" /\ TypeIn(input, input.command.prob) \in Numeric
        /\ input.command.guard \in Tree /\ input.command.prob \in Tree
    BY <1>2, TextsPlain DEF CommandWellFormed
  <2>2. TypeIn(input, input.command.guard) # "error" /\ TypeIn(input, input.command.prob) # "error"
    BY <2>1 DEF Numeric
  <2>3. TypeIn(input, g) = TypeIn(input, input.command.guard)
    BY <1>2, <2>1, <2>2, TypeStays
  <2>4. TypeIn(input, p) \in Numeric
    BY <1>2, <2>1, <2>2, TypeStays
  <2> QED
    BY <2>1, <2>3, <2>4
<1>4. TypeIn(input, a) # "error" /\ TypeIn(input, a.args[1]) = TypeIn(input, a.args[2])
  <2> DEFINE x == input.command.assign
  <2>1. a = Fold(x, resolved)
    OBVIOUS
  <2> HIDE DEF a
  <2> QED
    BY <1>2, <2>1, AssignmentTyped
<1>5. /\ c.guard = g /\ c.prob = p /\ c.assign = a
  OBVIOUS
<1>6. \/ TypeOf(c.guard) # "bool" \/ TypeOf(c.prob) \notin Numeric \/ TypeOf(c.assign) = "error"
      \/ TypeOf(c.assign.args[1]) # TypeOf(c.assign.args[2])
      \/ pc' = "labels"
  BY <1>1 DEF FoldCommand, Goto, Folded
<1> HIDE DEF g, p, a, c
<1>7. pc' = "labels"
  BY <1>3, <1>4, <1>5, <1>6 DEF TypeOf, SymbolTypes, TypeIn
<1> QED
  BY <1>7

(* The labels of a well-formed model.                                      *)
LEMMA LabelsFounded ==
  ASSUME NEW model \in Inputs, PropertyWellFormed(model)
  PROVE  /\ TruthTexts(model) /\ Founded(model) \subseteq NamesIn(model.labels)
         /\ \A i \in DOMAIN model.labels :
              Labels(model.labels[i].expr) \subseteq Founded(model) /\ SourceType(model, model.labels[i].expr) = "bool"
<1>1. \A i \in DOMAIN model.labels :
        Labels(model.labels[i].expr) \subseteq Founded(model) /\ SourceType(model, model.labels[i].expr) = "bool"
  BY DEF PropertyWellFormed, StateFormula
<1>2. Founded(model) \subseteq NamesIn(model.labels)
  <2>1. PICK g : IsLevels(model, g) /\ Founded(model) = g[Len(model.labels)]
    BY FoundedLaw
  <2>2. Len(model.labels) \in Nat
    BY Lengths
  <2> QED
    BY <2>1, <2>2 DEF IsLevels
<1>3. ASSUME NEW n \in NamesIn(model.labels) PROVE SourceType(model, LabelText(model, n)) = "bool"
  <2> DEFINE R == [name : Name, expr : Source]
  <2>1. model.labels \in Seq(R)
    BY InputIs
  <2> HIDE DEF R
  <2>2. \E i \in DOMAIN model.labels : Named(model.labels, n) = model.labels[i]
    BY <2>1, NamedIs
  <2> QED
    BY <1>1, <2>2 DEF LabelText
<1> QED
  BY <1>1, <1>2, <1>3 DEF TruthTexts

(* A folded label is a truth value once it is expanded.                    *)
LEMMA FoldedLabelTyped ==
  ASSUME NEW model \in Inputs, Distinct(model.consts \o model.vars), NEW res, Resolves(model, res),
         PropertyWellFormed(model), NEW i \in DOMAIN model.labels,
         NEW x, x = Fold(model.labels[i].expr, res), NEW y, y = Expand(x, Texts(model))
  PROVE  y \in Tree /\ Infer(y, TypesIn(model)) = "bool"
<1> DEFINE text == model.labels[i].expr
           types == TypesIn(model)
<1>1. TruthTexts(model) /\ Labels(text) \subseteq Founded(model) /\ SourceType(model, text) = "bool"
  BY LabelsFounded
<1>2. text \in Source /\ text \in Tree
  BY TextsAre, InputIs
<1>3. IsVals(res)
  BY ResolvesVals DEF ValsTyped
<1> HIDE DEF text
<1>4. x = Fold(text, res)
  BY DEF text
<1>5. x \in Source /\ x \in Tree
  BY <1>2, <1>3, <1>4, FoldSource, FoldTree
<1>6. Labels(x) \subseteq Labels(text)
  <2>1. Holes(x) \subseteq Holes(text)
    BY <1>2, <1>3, <1>4, FoldHoles
  <2>2. Labels(x) = {h.name : h \in {z \in Holes(x) : z.op = "label"}}
    BY <1>5, HolesAre
  <2>3. Labels(text) = {h.name : h \in {z \in Holes(text) : z.op = "label"}}
    BY <1>2, HolesAre
  <2> QED
    BY <2>1, <2>2, <2>3
<1>7. SourceType(model, x) = "bool"
  <2>1. Keeps(model, text, text)
    BY KeepsItself
  <2>2. InferWith(text, types, "bool") = "bool"
    BY <1>1 DEF SourceType
  <2>3. \A ref \in {"bool", "error"} :
          InferWith(text, types, ref) # "error" => Promotes(InferWith(x, types, ref), InferWith(text, types, ref))
    BY <1>2, <1>4, <2>1, FoldKeeps
  <2>4. Promotes(InferWith(x, types, "bool"), "bool")
    BY <2>2, <2>3
  <2> QED
    BY <2>4 DEF Promotes, SourceType
<1>8. Infer(y, types) = "bool"
  <2>1. Labels(x) \subseteq Founded(model)
    BY <1>1, <1>6
  <2> QED
    BY <1>1, <1>5, <1>7, <2>1, ExpandTyped
<1>9. y \in Tree
  BY <1>5, TextsAre, SourceFitting, TopIs
<1> QED
  BY <1>8, <1>9

LEMMA FoldLabelsAccepts ==
  ASSUME ResolveInv, KeptInv, WellFormed(input), FoldLabels
  PROVE  pc' # "rejected"
<1>1. pc = "labels" /\ pass \in {1, 2} /\ input \in Inputs /\ Listed(labels, Len(input.labels))
  BY DEF FoldLabels, ResolveInv, ShapeInv
<1>2. CASE pass = 1
  <2>1. labels = input.labels
    BY <1>1, <1>2 DEF KeptInv, LabelsInv
  <2> QED
    BY <2>1 DEF FoldLabels, Goto, WellFormed
<1>3. CASE pass = 2
  <2>1. \A i \in DOMAIN labels : labels[i].name = input.labels[i].name
    BY <1>3 DEF KeptInv, LabelsInv, LabelOpen
  <2>2. Distinct(labels) <=> Distinct(input.labels)
    BY <1>1, <2>1, LabelNamed
  <2> QED
    BY <2>2 DEF FoldLabels, Goto, WellFormed
<1> QED
  BY <1>1, <1>2, <1>3

LEMMA ExpandAccepts ==
  ASSUME ResolveInv, KeptInv, WellFormed(input), ExpandLabel
  PROVE  pc' # "rejected"
<1>1. pc = "expand" /\ next <= Len(labels) /\ pc \in Later
  BY DEF ExpandLabel, Later
<1>2. /\ input \in Inputs /\ Distinct(input.consts \o input.vars) /\ Resolves(input, resolved)
      /\ pass \in {1, 2} /\ PropertyWellFormed(input)
  BY <1>1, ConstantsThere DEF ResolveInv, ShapeInv, WellFormed
<1>3. next \in DOMAIN labels /\ next \in DOMAIN input.labels
  <2>1. /\ Len(labels) = Len(input.labels) /\ DOMAIN labels = 1 .. Len(input.labels)
        /\ next \in Nat /\ next \in 1 .. Bound
    BY LaterLengths
  <2>2. \A n, k, b \in Int : n \in 1 .. b /\ n <= k => n \in 1 .. k
    OBVIOUS
  <2>3. Bound \in Int /\ Len(labels) \in Int
    BY LaterLengths
  <2>4. next \in 1 .. Len(labels)
    BY <1>1, <2>1, <2>2, <2>3
  <2> QED
    BY <1>2, <2>1, <2>4, Lengths
<1> DEFINE x == labels[next].expr
           y == Expand(x, bodies)
<1>4. y \in Tree /\ Infer(y, TypesIn(input)) = "bool"
  <2>1. CASE pass = 1
    <3>1. ~(next < next)
      BY LaterLengths
    <3>2. bodies = Texts(input) /\ LabelFolded(input, labels, resolved, next)
      BY <1>1, <1>3, <2>1, <3>1 DEF KeptInv, LabelsInv
    <3>3. x = Fold(input.labels[next].expr, resolved)
      BY <3>2 DEF LabelFolded
    <3> HIDE DEF x
    <3> QED
      BY <1>2, <1>3, <3>2, <3>3, FoldedLabelTyped
  <2>2. CASE pass = 2
    <3>1. LabelOpen(input, labels, next) /\ OpenBodies(input, bodies)
      BY <1>1, <1>3, <2>2 DEF KeptInv, LabelsInv
    <3>2. Opened(input, x)
      BY <3>1 DEF LabelOpen
    <3> HIDE DEF x
    <3>3. x \in Tree /\ Labels(x) = {} /\ IsBodies(bodies)
      BY <1>2, <3>1, <3>2, OpenedIs, OpenFitting
    <3>4. y = x
      BY <3>3, ExpandNone
    <3> QED
      BY <3>2, <3>3, <3>4 DEF Opened
  <2> QED
    BY <1>2, <2>1, <2>2
<1>5. "bad" \notin Ops(y)
  <2> HIDE DEF y
  <2>1. Whole(y) /\ "bad" \in Gaps
    BY <1>2, <1>4, TypedHere DEF Gaps
  <2> QED
    BY <1>4, <2>1, HolesAre DEF Whole
<1>6. "bad" \in Ops(y) \/ TypeOf(y) # "bool" \/ pc' = "expand"
  BY DEF ExpandLabel, Goto
<1>7. pc' = "expand"
  BY <1>4, <1>5, <1>6 DEF TypeOf, SymbolTypes
<1> QED
  BY <1>7

(* A text over founded labels, expanded with the opened ones.              *)
LEMMA FoundedOpens ==
  ASSUME NEW model \in Inputs, PropertyWellFormed(model), NEW bs, OpenBodies(model, bs), NEW x \in Source,
         Labels(x) \subseteq Founded(model), SourceType(model, x) # "error", NEW y, y = Expand(x, bs)
  PROVE  y \in Tree /\ TypeIn(model, y) = SourceType(model, x) /\ "bad" \notin Ops(y) /\ Keeps(model, x, y)
<1>1. Labels(x) \subseteq NamesIn(model.labels)
  BY LabelsFounded
<1>2. Infer(y, TypesIn(model)) = SourceType(model, x)
  BY <1>1, OpenTyped
<1>3. y \in Tree /\ (Whole(y) => Keeps(model, x, y))
  BY OpenExpands
<1>4. Whole(y) /\ "bad" \in Gaps
  BY <1>2, <1>3, TypedHere DEF Gaps
<1> QED
  BY <1>2, <1>3, <1>4, HolesAre DEF Whole, TypeIn

(* Without a bound there is nothing to expand or to fold.                  *)
LEMMA AbsentStays ==
  ASSUME NEW bs, IsBodies(bs), NEW vals, IsVals(vals), Absent \in Tree
  PROVE  Expand(Absent, bs) = Absent /\ Fold(Absent, vals) = Absent /\ "bad" \notin Ops(Absent)
<1>1. Absent.op = "none" /\ "none" \in Gaps /\ "none" \in Leaves /\ "none" \notin Kinds /\ "bad" \in Gaps
  BY DEF Absent, Node, Gaps, Leaves, Kinds
<1>2. Holes(Absent) = {Absent}
  BY <1>1, HolesLaw
<1>3. Labels(Absent) = {} /\ "bad" \notin Ops(Absent)
  BY <1>1, <1>2, HolesAre
<1> DEFINE x == Absent
           b == [i \in DOMAIN x.args |-> Fold(x.args[i], vals)]
<1>4. Fold(x, vals) = x
  <2>1. Len(b) = Arity(x.op) /\ Fold(x, vals) = FoldNode(x, b, vals) /\ Shaped(x)
    BY FoldedOperands, TreeNode
  <2>2. b = [i \in DOMAIN x.args |-> b[i]]
    OBVIOUS
  <2>3. "none" \notin {"ident", "not", "neg", "?:"} \cup Binary
    BY DEF Binary, Arith, Order, Equal, Logical
  <2>4. x.op = "none" /\ x \in Tree
    BY <1>1
  <2> HIDE DEF b, x
  <2>5. Fold(x, vals) = [x EXCEPT !.args = b]
    BY <2>1, <2>3, <2>4, FoldSplit
  <2> QED
    BY <1>1, <2>2, <2>4, <2>5, LeafStays
<1> QED
  BY <1>3, <1>4, ExpandNone

(* A bound that is well formed folds to a number that is not negative.     *)
LEMMA BoundAccepted ==
  ASSUME NEW model \in Inputs, Distinct(model.consts \o model.vars), NEW res, Resolves(model, res),
         NamesIn(model.consts) \subseteq DOMAIN res, PropertyWellFormed(model),
         NEW bs, OpenBodies(model, bs),
         NEW y, y = Expand(model.phi.bound, bs), NEW z, z = Fold(y, res)
  PROVE  "bad" \notin Ops(y) /\ (z # Absent => z.op = "int" /\ Compare(">=", z.val, Zero))
<1> DEFINE x == model.phi.bound
<1>1. x \in Source
  BY InputIs
<1>2. CASE x = Absent
  <2>1. IsBodies(bs) /\ IsVals(res) /\ Absent \in Tree
    BY OpenFitting, ResolvesVals, TopIs DEF ValsTyped
  <2>2. y = Absent /\ z = Absent /\ "bad" \notin Ops(Absent)
    BY <1>2, <2>1, AbsentStays
  <2> QED
    BY <2>2
<1>3. CASE x # Absent
  <2>1. /\ Labels(x) \subseteq Founded(model) /\ SourceType(model, x) = "int"
        /\ \E k \in Closed(model, x) : Compare(">=", k, Zero)
    BY <1>3 DEF PropertyWellFormed
  <2>2. PICK k \in Closed(model, x) : Compare(">=", k, Zero)
    BY <2>1
  <2>3. y = Expand(x, bs) /\ SourceType(model, x) # "error"
    BY <2>1
  <2> HIDE DEF x
  <2>4. y \in Tree /\ TypeIn(model, y) = "int" /\ "bad" \notin Ops(y) /\ Keeps(model, x, y)
    BY <1>1, <2>1, <2>3, FoundedOpens
  <2>5. TypeIn(model, y) # "error"
    BY <2>4
  <2>6. z.val = k /\ Promotes(z.op, "int")
    BY <2>4, <2>5, ClosedFolds
  <2> QED
    BY <2>2, <2>4, <2>6 DEF Promotes
<1> QED
  BY <1>2, <1>3

LEMMA PropertyAccepts ==
  ASSUME ResolveInv, KeptInv, WellFormed(input), AnalyzeProperty
  PROVE  pc' # "rejected"
<1>1. pc = "property" /\ pc \in Later
  BY DEF AnalyzeProperty, Later
<1>2. /\ input \in Inputs /\ Distinct(input.consts \o input.vars) /\ Resolves(input, resolved)
      /\ NamesIn(input.consts) \subseteq DOMAIN resolved /\ PropertyWellFormed(input)
  BY <1>1, ConstantsThere DEF WellFormed
<1>3. OpenBodies(input, bodies) /\ phi = input.phi
  BY <1>1 DEF KeptInv, LabelsInv, PartsInv
<1> DEFINE open(x) == Expand(x, bodies)
           shut(x) == Fold(open(x), resolved)
           psi == [lhs |-> shut(input.phi.lhs), rhs |-> shut(input.phi.rhs), bound |-> shut(input.phi.bound)]
<1>4. ASSUME NEW x \in {input.phi.lhs, input.phi.rhs}
      PROVE  "bad" \notin Ops(open(x)) /\ TypeIn(input, shut(x)) = "bool"
  <2>1. /\ x \in Source /\ Labels(x) \subseteq Founded(input) /\ SourceType(input, x) = "bool"
        /\ SourceType(input, x) # "error"
    BY <1>2, InputIs DEF PropertyWellFormed, StateFormula
  <2> DEFINE y == open(x)
             z == shut(x)
  <2>2. y = Expand(x, bodies) /\ z = Fold(y, resolved)
    OBVIOUS
  <2> HIDE DEF open, shut, y, z
  <2>3. y \in Tree /\ TypeIn(input, y) = "bool" /\ "bad" \notin Ops(y)
    BY <1>2, <1>3, <2>1, <2>2, FoundedOpens
  <2>4. TypeIn(input, y) # "error" /\ TypeIn(input, y) \in {"bool", "int"}
    BY <2>3
  <2>5. TypeIn(input, z) = TypeIn(input, y)
    BY <1>2, <2>2, <2>3, <2>4, TypeStays
  <2> QED
    BY <2>3, <2>5 DEF y, z
<1>5. /\ "bad" \notin Ops(open(input.phi.bound))
      /\ shut(input.phi.bound) # Absent =>
           shut(input.phi.bound).op = "int" /\ Compare(">=", shut(input.phi.bound).val, Zero)
  BY <1>2, <1>3, BoundAccepted
<1>6. /\ Open(phi) = [lhs |-> open(input.phi.lhs), rhs |-> open(input.phi.rhs), bound |-> open(input.phi.bound)]
      /\ FoldPhi(Open(phi)) = psi
  <2>1. Open(phi) = [lhs |-> open(input.phi.lhs), rhs |-> open(input.phi.rhs), bound |-> open(input.phi.bound)]
    BY <1>3 DEF Open
  <2>2. \A a, b, c : FoldPhi([lhs |-> a, rhs |-> b, bound |-> c])
                       = [lhs |-> Fold(a, resolved), rhs |-> Fold(b, resolved), bound |-> Fold(c, resolved)]
    BY FormulaFolded DEF Folded
  <2> HIDE DEF open
  <2> QED
    BY <2>1, <2>2
<1> HIDE DEF open, shut
<1>7. WellTyped(psi)
  <2>1. /\ psi.lhs = shut(input.phi.lhs) /\ psi.rhs = shut(input.phi.rhs)
        /\ psi.bound = shut(input.phi.bound)
    OBVIOUS
  <2> HIDE DEF psi
  <2> QED
    BY <1>4, <1>5, <2>1 DEF WellTyped, TypeOf, SymbolTypes, TypeIn
<1>8. "bad" \notin Ops(Open(phi).lhs) \cup Ops(Open(phi).rhs) \cup Ops(Open(phi).bound)
  <2>1. /\ Open(phi).lhs = open(input.phi.lhs) /\ Open(phi).rhs = open(input.phi.rhs)
        /\ Open(phi).bound = open(input.phi.bound)
    BY <1>6
  <2> QED
    BY <1>4, <1>5, <2>1
<1> HIDE DEF psi
<1>9. \/ "bad" \in Ops(Open(phi).lhs) \cup Ops(Open(phi).rhs) \cup Ops(Open(phi).bound)
      \/ ~WellTyped(FoldPhi(Open(phi)))
      \/ pc' = "done"
  BY DEF AnalyzeProperty, Goto
<1>10. pc' = "done"
  BY <1>6, <1>7, <1>8, <1>9
<1> QED
  BY <1>10

LEMMA RejectInit == AnalysisInit => RejectedIsIllFormed
  BY DEF AnalysisInit, RejectedIsIllFormed

LEMMA RejectNext ==
  ResolveInv /\ KeptInv /\ RejectedIsIllFormed /\ [AnalysisNext]_vars => RejectedIsIllFormed'
<1> SUFFICES ASSUME ResolveInv, KeptInv, RejectedIsIllFormed, [AnalysisNext]_vars PROVE RejectedIsIllFormed'
  OBVIOUS
<1>1. \/ input' = input
      \/ UNCHANGED vars
  BY DEF AnalysisNext, Declare, ApplyOverride, CheckConstants, ResolveConst, EndRound, NextRound, FoldVariable,
     FoldCommand, FoldLabels, ExpandLabel, FinishLabels, AnalyzeProperty, Refuse, Goto
<1>2. input' = input
  BY <1>1 DEF vars
<1>3. CASE AnalysisNext /\ WellFormed(input)
  <2>1. ResolveConst \/ FinishLabels => pc' # "rejected"
    BY DEF ResolveConst, FinishLabels, Goto
  <2>2. pc' # "rejected"
    BY <1>3, <2>1, DeclareAccepts, OverrideAccepts, CheckAccepts, RoundAccepts, VariableAccepts, CommandAccepts,
       FoldLabelsAccepts, ExpandAccepts, PropertyAccepts DEF AnalysisNext
  <2> QED
    BY <2>2 DEF RejectedIsIllFormed
<1>4. CASE ~WellFormed(input)
  BY <1>2, <1>4 DEF RejectedIsIllFormed, WellFormed
<1>5. CASE UNCHANGED vars
  BY <1>5 DEF vars, RejectedIsIllFormed
<1> QED
  BY <1>3, <1>4, <1>5

(* Nothing well formed is rejected, for every model and every choice of    *)
(* overrides: no check of the analysis is stricter than what the text      *)
(* means and how it is typed, in either pass (analyse_dtmc).               *)
THEOREM WellFormedAccepted == AnalysisSpec => []RejectedIsIllFormed
  BY ResolveInvariant, KeptInvariant, RejectInit, RejectNext, PTL DEF AnalysisSpec
=============================================================================
