---------------------------- MODULE SumTheorems -----------------------------
(***************************************************************************)
(* Facts about SumFunction of the community module Functions, and about    *)
(* the product that is written like it, over finite domains: the recursion *)
(* they are written with has a solution, the order of the elements and     *)
(* their names do not matter, sums are monotone, linear and can be taken   *)
(* class by class.  They are the facts about add_sum_abstract and          *)
(* add_matrix_multiply the proofs about rows and vectors of probabilities  *)
(* rest on.                                                                *)
(***************************************************************************)
EXTENDS Products, FiniteSets, FiniteSetTheorems, NaturalsInduction, TLAPS

(* The element a sum takes next, and what it sums along the way.           *)
First(set) == CHOOSE x \in set : TRUE

IsSumOf(iter, f) ==
    iter = [set \in SUBSET (DOMAIN f) |->
              IF set = {} THEN 0 ELSE f[First(set)] + iter[set \ {First(set)}]]

Iter(f) == CHOOSE iter : IsSumOf(iter, f)

-----------------------------------------------------------------------------
LEMMA SumIsIter == \A f : SumFunction(f) = Iter(f)[DOMAIN f]
  BY DEF SumFunction, SumFunctionOnSet, FoldFunctionOnSet, MapThenFoldSet, Iter, IsSumOf, First

LEMMA FirstInside == ASSUME NEW set, set # {} PROVE First(set) \in set
  BY DEF First

(* Induction over the whole numbers, for sets of them.                     *)
LEMMA SetInduction ==
  ASSUME NEW S \in SUBSET Nat, 0 \in S, \A n \in S : n + 1 \in S
  PROVE  S = Nat
<1> DEFINE missing == Nat \ S
<1> SUFFICES ASSUME missing # {} PROVE FALSE
  OBVIOUS
<1>1. PICK m \in missing : \A n \in missing : ~ (<<n, m>> \in OpToRel(<, Nat))
  BY NatLessThanWellFounded, WFMin
<1>2. \A n \in missing : ~ (n < m)
  BY <1>1 DEF OpToRel
<1>3. m \in Nat /\ m # 0 /\ m \notin S
  BY <1>1
<1>4. m - 1 \in Nat /\ m - 1 < m /\ (m - 1) + 1 = m
  BY <1>3
<1>5. m - 1 \in S
  BY <1>2, <1>4
<1>6. (m - 1) + 1 \in S
  BY <1>5
<1> QED
  BY <1>3, <1>4, <1>6

(* Induction over the subsets of a finite set, smaller ones first.         *)
LEMMA StrongSubsetInduction ==
  ASSUME NEW D, IsFiniteSet(D),
         NEW good \in SUBSET (SUBSET D),
         \A set \in SUBSET D : (\A a \in set : set \ {a} \in good) => set \in good
  PROVE  good = SUBSET D
<1> DEFINE upTo == {n \in Nat : \A set \in SUBSET D : Cardinality(set) <= n => set \in good}
<1>0. \A set \in SUBSET D : IsFiniteSet(set) /\ Cardinality(set) \in Nat
  BY FS_Subset, FS_CardinalityType
<1>1. 0 \in upTo
  <2>1. \A set \in SUBSET D : Cardinality(set) <= 0 => Cardinality(set) = 0
    BY <1>0
  <2>2. \A set \in SUBSET D : Cardinality(set) <= 0 => set = {}
    BY <1>0, <2>1, FS_EmptySet
  <2> QED
    BY <2>2
<1>2. \A n \in upTo : n + 1 \in upTo
  <2> SUFFICES ASSUME NEW n \in upTo, NEW set \in SUBSET D, Cardinality(set) <= n + 1
               PROVE  set \in good
    OBVIOUS
  <2>1. ASSUME NEW a \in set PROVE set \ {a} \in good
    <3>1. Cardinality(set \ {a}) = Cardinality(set) - 1
      BY <1>0, FS_RemoveElement
    <3> QED
      BY <1>0, <3>1
  <2> QED
    BY <2>1
<1> HIDE DEF upTo
<1>3. upTo = Nat
  BY <1>1, <1>2, SetInduction DEF upTo
<1>4. \A set \in SUBSET D : Cardinality(set) \in upTo
  BY <1>0, <1>3
<1> QED
  BY <1>0, <1>4 DEF upTo

(* The same, taking First away.                                            *)
LEMMA SubsetInduction ==
  ASSUME NEW D, IsFiniteSet(D),
         NEW good \in SUBSET (SUBSET D),
         {} \in good,
         \A set \in SUBSET D : set # {} /\ set \ {First(set)} \in good => set \in good
  PROVE  good = SUBSET D
<1>1. \A set \in SUBSET D : (\A a \in set : set \ {a} \in good) => set \in good
  BY FirstInside
<1> QED
  BY <1>1, StrongSubsetInduction

-----------------------------------------------------------------------------
(* A fold over the subsets of a finite set, with an operation that is a    *)
(* function: what sums and products have in common.                        *)
IsFold(fold, op, base, f, D) ==
    \A set \in SUBSET D :
        fold[set] = IF set = {} THEN base
                    ELSE op[<<f[First(set)], fold[set \ {First(set)}]>>]

AnyFirst(fold, op, f, D) ==
    \A set \in SUBSET D : \A a \in set : fold[set] = op[<<f[a], fold[set \ {a}]>>]

(* h gives every element of D a name in E, and uses the names of the set.  *)
Renames(h, D, E, names) ==
    /\ h \in [D -> E]
    /\ \A x, y \in D : h[x] = h[y] => x = y
    /\ names \in SUBSET E
    /\ \A e \in E : e \in names <=> \E x \in D : h[x] = e

Commutes(op, T) ==
    \A a, b, c \in T : op[<<a, op[<<b, c>>]>>] = op[<<b, op[<<a, c>>]>>]

(* The recursion has a solution: level by level of the cardinality.        *)
LEMMA FoldExists ==
  ASSUME NEW D, IsFiniteSet(D), NEW T, NEW op \in [T \X T -> T], NEW base \in T,
         NEW f \in [D -> T]
  PROVE  \E fold \in [SUBSET D -> T] : IsFold(fold, op, base, f, D)
<1> DEFINE level(n) == {set \in SUBSET D : Cardinality(set) <= n}
           rule(fold, set) ==
             IF set = {} THEN base ELSE op[<<f[First(set)], fold[set \ {First(set)}]>>]
           solved == {n \in Nat : \E fold \in [SUBSET D -> T] :
                        \A set \in level(n) : fold[set] = rule(fold, set)}
<1>0. \A set \in SUBSET D : /\ IsFiniteSet(set)
                            /\ Cardinality(set) \in Nat
                            /\ Cardinality(set) <= Cardinality(D)
                            /\ set # {} =>
                                 /\ First(set) \in D
                                 /\ set \ {First(set)} \in SUBSET D
                                 /\ Cardinality(set \ {First(set)}) = Cardinality(set) - 1
  BY FS_Subset, FS_CardinalityType, FS_RemoveElement, FirstInside
<1>1. 0 \in solved
  <2> DEFINE constant == [set \in SUBSET D |-> base]
  <2>1. constant \in [SUBSET D -> T]
    OBVIOUS
  <2>2. ASSUME NEW set \in SUBSET D, Cardinality(set) <= 0
        PROVE  set = {}
    <3>1. IsFiniteSet(set) /\ Cardinality(set) \in Nat
      BY <1>0
    <3>2. Cardinality(set) = 0
      BY <2>2, <3>1
    <3> QED
      BY <3>1, <3>2, FS_EmptySet
  <2> QED
    BY <2>1, <2>2
<1>2. \A n \in solved : n + 1 \in solved
  <2> SUFFICES ASSUME NEW n \in solved PROVE n + 1 \in solved
    OBVIOUS
  <2>1. PICK old \in [SUBSET D -> T] : \A set \in level(n) : old[set] = rule(old, set)
    OBVIOUS
  <2> DEFINE new == [set \in SUBSET D |->
                       IF Cardinality(set) <= n THEN old[set] ELSE rule(old, set)]
  <2>2. ASSUME NEW set \in SUBSET D
        PROVE  rule(old, set) \in T
    <3>1. set # {} => f[First(set)] \in T /\ old[set \ {First(set)}] \in T
      BY <1>0
    <3> QED
      BY <3>1
  <2>3. new \in [SUBSET D -> T]
    BY <2>2
  <2>4. ASSUME NEW set \in level(n + 1)
        PROVE  new[set] = rule(new, set)
    <3>1. n \in Nat /\ set \in SUBSET D /\ Cardinality(set) <= n + 1
      OBVIOUS
    <3>2. new[set] = rule(old, set)
      BY <2>1, <3>1
    <3>3. set # {} => new[set \ {First(set)}] = old[set \ {First(set)}]
      BY <1>0, <3>1
    <3> QED
      BY <3>2, <3>3
  <2>5. n + 1 \in Nat
    OBVIOUS
  <2> HIDE DEF new, level, rule
  <2> QED
    BY <2>3, <2>4, <2>5
<1> HIDE DEF solved
<1>3. solved = Nat
  BY <1>1, <1>2, SetInduction DEF solved
<1>4. Cardinality(D) \in solved
  BY <1>3, FS_CardinalityType
<1>5. PICK fold \in [SUBSET D -> T] :
        \A set \in level(Cardinality(D)) : fold[set] = rule(fold, set)
  BY <1>4 DEF solved
<1>6. \A set \in SUBSET D : fold[set] = rule(fold, set)
  BY <1>0, <1>5
<1> QED
  BY <1>6 DEF IsFold

(* Any element of the set can be the first.                                *)
LEMMA FoldTakeOut ==
  ASSUME NEW D, IsFiniteSet(D), NEW T, NEW op \in [T \X T -> T], Commutes(op, T),
         NEW base \in T, NEW f \in [D -> T],
         NEW fold \in [SUBSET D -> T], IsFold(fold, op, base, f, D)
  PROVE  AnyFirst(fold, op, f, D)
<1> DEFINE good == {set \in SUBSET D : \A a \in set : fold[set] = op[<<f[a], fold[set \ {a}]>>]}
<1>1. ASSUME NEW set \in SUBSET D, \A a \in set : set \ {a} \in good
      PROVE  set \in good
  <2> SUFFICES ASSUME NEW a \in set PROVE fold[set] = op[<<f[a], fold[set \ {a}]>>]
    OBVIOUS
  <2> DEFINE b == First(set)
  <2>1. b \in set /\ fold[set] = op[<<f[b], fold[set \ {b}]>>]
    BY FirstInside DEF IsFold
  <2> HIDE DEF b
  <2>2. CASE a = b
    BY <2>1, <2>2
  <2>3. CASE a # b
    <3>1. a \in set \ {b} /\ b \in set \ {a} /\ (set \ {b}) \ {a} = (set \ {a}) \ {b}
      BY <2>1, <2>3
    <3>2. fold[set \ {b}] = op[<<f[a], fold[(set \ {b}) \ {a}]>>]
      BY <1>1, <2>1, <3>1
    <3>3. fold[set \ {a}] = op[<<f[b], fold[(set \ {a}) \ {b}]>>]
      BY <1>1, <3>1
    <3> DEFINE rest == fold[(set \ {a}) \ {b}]
    <3>4. f[a] \in T /\ f[b] \in T /\ rest \in T
      BY <2>1
    <3>5. fold[set \ {b}] = op[<<f[a], rest>>] /\ fold[set \ {a}] = op[<<f[b], rest>>]
      BY <3>1, <3>2, <3>3
    <3> HIDE DEF rest
    <3>6. op[<<f[b], op[<<f[a], rest>>]>>] = op[<<f[a], op[<<f[b], rest>>]>>]
      BY <3>4 DEF Commutes
    <3> QED
      BY <2>1, <3>5, <3>6
  <2> QED
    BY <2>2, <2>3
<1>2. good \in SUBSET (SUBSET D)
  OBVIOUS
<1> HIDE DEF good
<1>3. good = SUBSET D
  BY <1>1, <1>2, StrongSubsetInduction
<1> QED
  BY <1>3 DEF good, AnyFirst

(* The names of the elements do not matter, nor what lies outside the set. *)
LEMMA FoldReindex ==
  ASSUME NEW D, IsFiniteSet(D), NEW E, IsFiniteSet(E),
         NEW op, NEW base,
         NEW h, NEW names, Renames(h, D, E, names),
         NEW f, NEW g, \A x \in D : g[x] = f[h[x]],
         NEW foldF, foldF[{}] = base, AnyFirst(foldF, op, f, E),
         NEW foldG, IsFold(foldG, op, base, g, D)
  PROVE  foldG[D] = foldF[names]
<1>0. /\ h \in [D -> E]
      /\ \A x, y \in D : h[x] = h[y] => x = y
      /\ names \in SUBSET E
      /\ \A e \in E : e \in names <=> \E x \in D : h[x] = e
  BY DEF Renames
<1> DEFINE image(set) == {h[x] : x \in set}
           good == {set \in SUBSET D : foldG[set] = foldF[image(set)]}
<1>1. {} \in good
  <2>1. foldG[{}] = base /\ foldF[{}] = base
    BY DEF IsFold
  <2>2. image({}) = {}
    OBVIOUS
  <2> QED
    BY <2>1, <2>2
<1>2. ASSUME NEW set \in SUBSET D, set # {}, set \ {First(set)} \in good
      PROVE  set \in good
  <2> DEFINE a == First(set)
  <2>1. a \in set /\ foldG[set] = op[<<g[a], foldG[set \ {a}]>>]
    BY <1>2, FirstInside DEF IsFold
  <2>2. foldG[set \ {a}] = foldF[image(set \ {a})]
    BY <1>2
  <2> HIDE DEF a
  <2>3. image(set) \in SUBSET E /\ h[a] \in image(set)
    BY <1>0, <2>1
  <2>4. image(set \ {a}) = image(set) \ {h[a]}
    BY <1>0, <2>1
  <2>5. foldF[image(set)] = op[<<f[h[a]], foldF[image(set) \ {h[a]}]>>]
    <3> HIDE DEF image
    <3> QED
      BY <2>3 DEF AnyFirst
  <2> QED
    BY <2>1, <2>2, <2>4, <2>5
<1>3. good \in SUBSET (SUBSET D)
  OBVIOUS
<1> HIDE DEF good
<1>4. good = SUBSET D
  BY ONLY IsFiniteSet(D), <1>1, <1>2, <1>3, SubsetInduction
<1>5. image(D) = names
  BY <1>0
<1> QED
  BY <1>4, <1>5 DEF good

-----------------------------------------------------------------------------
Add == [p \in Int \X Int |-> p[1] + p[2]]

LEMMA AddFacts ==
  /\ Add \in [Int \X Int -> Int]
  /\ \A a, b \in Int : Add[<<a, b>>] = a + b
  /\ Commutes(Add, Int)
<1>1. Add \in [Int \X Int -> Int] /\ \A a, b \in Int : Add[<<a, b>>] = a + b
  BY DEF Add
<1>2. \A a, b, c \in Int : a + (b + c) = b + (a + c) /\ b + c \in Int /\ a + c \in Int
  OBVIOUS
<1> QED
  BY <1>1, <1>2 DEF Commutes

LEMMA IterExists ==
  ASSUME NEW D, IsFiniteSet(D), NEW f \in [D -> Int]
  PROVE  \E iter \in [SUBSET D -> Int] : IsSumOf(iter, f)
<1>1. PICK iter \in [SUBSET D -> Int] : IsFold(iter, Add, 0, f, D)
  <2>1. 0 \in Int
    OBVIOUS
  <2> QED
    BY <2>1, FoldExists, AddFacts, Zenon
<1>2. ASSUME NEW set \in SUBSET D
      PROVE  iter[set] = IF set = {} THEN 0 ELSE f[First(set)] + iter[set \ {First(set)}]
  <2>1. set # {} => f[First(set)] \in Int /\ iter[set \ {First(set)}] \in Int
    BY FirstInside
  <2> QED
    BY <1>1, <2>1, AddFacts DEF IsFold
<1>3. iter = [set \in SUBSET D |->
                IF set = {} THEN 0 ELSE f[First(set)] + iter[set \ {First(set)}]]
  BY <1>2
<1> QED
  BY <1>3 DEF IsSumOf

(* What a sum over a finite domain is, step by step.                       *)
LEMMA IterRule ==
  ASSUME NEW D, IsFiniteSet(D), NEW f \in [D -> Int]
  PROVE  /\ SumFunction(f) = Iter(f)[D]
         /\ Iter(f)[{}] = 0
         /\ \A set \in SUBSET D : set # {} =>
              Iter(f)[set] = f[First(set)] + Iter(f)[set \ {First(set)}]
<1>1. IsSumOf(Iter(f), f)
  BY IterExists DEF Iter
<1>2. DOMAIN f = D
  OBVIOUS
<1>3. \A set \in SUBSET D : Iter(f)[set] =
        IF set = {} THEN 0 ELSE f[First(set)] + Iter(f)[set \ {First(set)}]
  BY <1>1, <1>2 DEF IsSumOf
<1> QED
  BY <1>2, <1>3, SumIsIter

LEMMA IterInt ==
  ASSUME NEW D, IsFiniteSet(D), NEW f \in [D -> Int]
  PROVE  \A set \in SUBSET D : Iter(f)[set] \in Int
<1> DEFINE good == {set \in SUBSET D : Iter(f)[set] \in Int}
<1>1. {} \in good
  BY IterRule
<1>2. \A set \in SUBSET D : set # {} /\ set \ {First(set)} \in good => set \in good
  BY IterRule, FirstInside
<1>3. good \in SUBSET (SUBSET D)
  OBVIOUS
<1> HIDE DEF good
<1>4. good = SUBSET D
  BY <1>1, <1>2, <1>3, SubsetInduction
<1> QED
  BY <1>4 DEF good

-----------------------------------------------------------------------------
(* A sum of whole numbers is a whole number.                               *)
THEOREM SumInt ==
  ASSUME NEW D, IsFiniteSet(D), NEW f \in [D -> Int]
  PROVE  SumFunction(f) \in Int
  BY IterRule, IterInt

(* A sum is monotone in what it sums.                                      *)
THEOREM SumMonotone ==
  ASSUME NEW D, IsFiniteSet(D), NEW f \in [D -> Int], NEW g \in [D -> Int],
         \A x \in D : f[x] <= g[x]
  PROVE  SumFunction(f) <= SumFunction(g)
<1> DEFINE good == {set \in SUBSET D : Iter(f)[set] <= Iter(g)[set]}
<1>1. {} \in good
  BY IterRule
<1>2. ASSUME NEW set \in SUBSET D, set # {}, set \ {First(set)} \in good
      PROVE  set \in good
  <2>1. First(set) \in D /\ set \ {First(set)} \in SUBSET D
    BY <1>2, FirstInside
  <2>2. /\ Iter(f)[set] = f[First(set)] + Iter(f)[set \ {First(set)}]
        /\ Iter(g)[set] = g[First(set)] + Iter(g)[set \ {First(set)}]
    BY <1>2, IterRule
  <2>3. /\ f[First(set)] \in Int /\ g[First(set)] \in Int
        /\ Iter(f)[set \ {First(set)}] \in Int /\ Iter(g)[set \ {First(set)}] \in Int
        /\ f[First(set)] <= g[First(set)]
        /\ Iter(f)[set \ {First(set)}] <= Iter(g)[set \ {First(set)}]
    BY <1>2, <2>1, IterInt
  <2> QED
    BY <2>2, <2>3
<1>3. good \in SUBSET (SUBSET D)
  OBVIOUS
<1> HIDE DEF good
<1>4. good = SUBSET D
  BY <1>1, <1>2, <1>3, SubsetInduction
<1> QED
  BY <1>4, IterRule DEF good

(* A common factor can be taken out of a sum.                              *)
THEOREM SumScaled ==
  ASSUME NEW D, IsFiniteSet(D), NEW f \in [D -> Int], NEW c \in Int
  PROVE  SumFunction([x \in D |-> c * f[x]]) = c * SumFunction(f)
<1> DEFINE g == [x \in D |-> c * f[x]]
           good == {set \in SUBSET D : Iter(g)[set] = c * Iter(f)[set]}
<1>0. g \in [D -> Int]
  OBVIOUS
<1> HIDE DEF g
<1>1. {} \in good
  BY <1>0, IterRule
<1>2. ASSUME NEW set \in SUBSET D, set # {}, set \ {First(set)} \in good
      PROVE  set \in good
  <2>1. First(set) \in D /\ set \ {First(set)} \in SUBSET D
    BY <1>2, FirstInside
  <2>2. /\ Iter(f)[set] = f[First(set)] + Iter(f)[set \ {First(set)}]
        /\ Iter(g)[set] = g[First(set)] + Iter(g)[set \ {First(set)}]
    BY <1>0, <1>2, IterRule
  <2>3. /\ f[First(set)] \in Int /\ g[First(set)] = c * f[First(set)]
        /\ Iter(f)[set \ {First(set)}] \in Int
        /\ Iter(g)[set \ {First(set)}] = c * Iter(f)[set \ {First(set)}]
    BY <1>2, <2>1, IterInt DEF g
  <2>4. \A a, b \in Int : c * a + c * b = c * (a + b)
    OBVIOUS
  <2> QED
    BY <2>2, <2>3, <2>4
<1>3. good \in SUBSET (SUBSET D)
  OBVIOUS
<1> HIDE DEF good
<1>4. good = SUBSET D
  BY <1>1, <1>2, <1>3, SubsetInduction
<1> QED
  BY <1>0, <1>4, IterRule DEF good, g

(* The sum of nothing but zeros.                                           *)
THEOREM SumZero ==
  ASSUME NEW D, IsFiniteSet(D)
  PROVE  SumFunction([x \in D |-> 0]) = 0
<1> DEFINE zero == [x \in D |-> 0]
<1>1. zero \in [D -> Int]
  OBVIOUS
<1>2. [x \in D |-> 0 * zero[x]] = zero
  OBVIOUS
<1>3. SumFunction([x \in D |-> 0 * zero[x]]) = 0 * SumFunction(zero)
  BY <1>1, SumScaled
<1> HIDE DEF zero
<1>4. SumFunction(zero) = 0
  BY <1>1, <1>2, <1>3, SumInt
<1> QED
  BY <1>4 DEF zero

(* The sum of two functions, summand by summand.                           *)
THEOREM SumPlus ==
  ASSUME NEW D, IsFiniteSet(D), NEW f \in [D -> Int], NEW g \in [D -> Int]
  PROVE  SumFunction([x \in D |-> f[x] + g[x]]) = SumFunction(f) + SumFunction(g)
<1> DEFINE h == [x \in D |-> f[x] + g[x]]
           good == {set \in SUBSET D : Iter(h)[set] = Iter(f)[set] + Iter(g)[set]}
<1>0. h \in [D -> Int]
  OBVIOUS
<1> HIDE DEF h
<1>1. {} \in good
  BY <1>0, IterRule
<1>2. ASSUME NEW set \in SUBSET D, set # {}, set \ {First(set)} \in good
      PROVE  set \in good
  <2>1. First(set) \in D /\ set \ {First(set)} \in SUBSET D
    BY <1>2, FirstInside
  <2>2. /\ Iter(f)[set] = f[First(set)] + Iter(f)[set \ {First(set)}]
        /\ Iter(g)[set] = g[First(set)] + Iter(g)[set \ {First(set)}]
        /\ Iter(h)[set] = h[First(set)] + Iter(h)[set \ {First(set)}]
    BY <1>0, <1>2, IterRule
  <2>3. /\ f[First(set)] \in Int /\ g[First(set)] \in Int
        /\ h[First(set)] = f[First(set)] + g[First(set)]
        /\ Iter(f)[set \ {First(set)}] \in Int /\ Iter(g)[set \ {First(set)}] \in Int
        /\ Iter(h)[set \ {First(set)}]
              = Iter(f)[set \ {First(set)}] + Iter(g)[set \ {First(set)}]
    BY <1>2, <2>1, IterInt DEF h
  <2> QED
    BY <2>2, <2>3
<1>3. good \in SUBSET (SUBSET D)
  OBVIOUS
<1> HIDE DEF good
<1>4. good = SUBSET D
  BY <1>1, <1>2, <1>3, SubsetInduction
<1> QED
  BY <1>0, <1>4, IterRule DEF good, h

(* The function that is c at one place and zero at all others.             *)
Spike(D, a, c) == [x \in D |-> IF x = a THEN c ELSE 0]

THEOREM SumSpike ==
  ASSUME NEW D, IsFiniteSet(D), NEW a \in D, NEW c \in Int
  PROVE  SumFunction(Spike(D, a, c)) = c
<1> DEFINE f == Spike(D, a, c)
           good == {set \in SUBSET D : Iter(f)[set] = IF a \in set THEN c ELSE 0}
<1>0. f \in [D -> Int] /\ \A x \in D : f[x] = IF x = a THEN c ELSE 0
  BY DEF Spike
<1> HIDE DEF f
<1>rule. /\ SumFunction(f) = Iter(f)[D]
      /\ Iter(f)[{}] = 0
      /\ \A set \in SUBSET D : set # {} =>
           Iter(f)[set] = f[First(set)] + Iter(f)[set \ {First(set)}]
  <2>1. f \in [D -> Int]
    BY <1>0
  <2> HIDE DEF good
  <2> QED
    BY <2>1, IterRule
<1>1. {} \in good
  BY <1>rule
<1>2. ASSUME NEW set \in SUBSET D, set # {}, set \ {First(set)} \in good
      PROVE  set \in good
  <2>1. First(set) \in set /\ set \ {First(set)} \in SUBSET D
    BY <1>2, FirstInside
  <2>2. Iter(f)[set] = f[First(set)] + Iter(f)[set \ {First(set)}]
    BY <1>2, <1>rule
  <2>3. Iter(f)[set \ {First(set)}] = IF a \in set \ {First(set)} THEN c ELSE 0
    BY <1>2
  <2>4. f[First(set)] = IF First(set) = a THEN c ELSE 0
    BY <1>0, <2>1
  <2>5. CASE First(set) = a
    BY <2>1, <2>2, <2>3, <2>4, <2>5
  <2>6. CASE First(set) # a
    BY <2>1, <2>2, <2>3, <2>4, <2>6
  <2> QED
    BY <2>5, <2>6
<1>3. good \in SUBSET (SUBSET D)
  OBVIOUS
<1> HIDE DEF good
<1>4. good = SUBSET D
  BY <1>1, <1>2, <1>3, SubsetInduction
<1> QED
  BY <1>4, <1>rule DEF good, f

(* A summand taken out of a sum.                                           *)
THEOREM SumWithout ==
  ASSUME NEW D, IsFiniteSet(D), NEW f \in [D -> Int], NEW a \in D
  PROVE  SumFunction([x \in D |-> IF x = a THEN 0 ELSE f[x]]) = SumFunction(f) - f[a]
<1> DEFINE rest == [x \in D |-> IF x = a THEN 0 ELSE f[x]]
           spike == Spike(D, a, f[a])
<1>1. rest \in [D -> Int] /\ spike \in [D -> Int] /\ f[a] \in Int
  BY DEF Spike
<1>2. [x \in D |-> rest[x] + spike[x]] = f
  <2>1. \A x \in D : rest[x] + spike[x] = f[x]
    BY DEF Spike
  <2> HIDE DEF rest, spike
  <2> QED
    BY <2>1
<1> HIDE DEF rest
<1>3. SumFunction(f) = SumFunction(rest) + SumFunction(spike)
  <2> HIDE DEF spike
  <2> QED
    BY <1>1, <1>2, SumPlus
<1>4. SumFunction(spike) = f[a]
  BY <1>1, SumSpike
<1> HIDE DEF spike
<1>5. SumFunction(rest) \in Int
  BY <1>1, SumInt
<1> QED
  BY <1>1, <1>3, <1>4, <1>5 DEF rest

(* A sum of summands that are not below zero is not below zero, and not    *)
(* below any of them.                                                      *)
THEOREM SumNonnegative ==
  ASSUME NEW D, IsFiniteSet(D), NEW f \in [D -> Int], \A x \in D : f[x] >= 0
  PROVE  SumFunction(f) >= 0 /\ \A a \in D : SumFunction(f) >= f[a]
<1> DEFINE zero == [x \in D |-> 0]
<1>1. zero \in [D -> Int] /\ \A x \in D : zero[x] <= f[x]
  OBVIOUS
<1>2. SumFunction(zero) = 0
  BY SumZero
<1> HIDE DEF zero
<1>3. SumFunction(f) \in Int /\ SumFunction(f) >= 0
  BY <1>1, <1>2, SumMonotone, SumInt
<1>4. ASSUME NEW a \in D PROVE SumFunction(f) >= f[a]
  <2>1. Spike(D, a, f[a]) \in [D -> Int] /\ \A x \in D : Spike(D, a, f[a])[x] <= f[x]
    BY DEF Spike
  <2>2. SumFunction(Spike(D, a, f[a])) <= SumFunction(f)
    BY <2>1, SumMonotone
  <2>3. SumFunction(Spike(D, a, f[a])) = f[a]
    BY SumSpike
  <2> QED
    BY <1>3, <2>2, <2>3
<1> QED
  BY <1>3, <1>4

(* The same two laws for functions that are given point by point.          *)
THEOREM SumPlusPoints ==
  ASSUME NEW D, IsFiniteSet(D), NEW f \in [D -> Int], NEW g \in [D -> Int], NEW h \in [D -> Int],
         \A x \in D : h[x] = f[x] + g[x]
  PROVE  SumFunction(h) = SumFunction(f) + SumFunction(g)
<1>1. h = [x \in D |-> f[x] + g[x]]
  OBVIOUS
<1> QED
  BY <1>1, SumPlus

THEOREM SumScaledPoints ==
  ASSUME NEW D, IsFiniteSet(D), NEW f \in [D -> Int], NEW g \in [D -> Int], NEW c \in Int,
         \A x \in D : g[x] = c * f[x]
  PROVE  SumFunction(g) = c * SumFunction(f)
<1>1. g = [x \in D |-> c * f[x]]
  OBVIOUS
<1> QED
  BY <1>1, SumScaled

-----------------------------------------------------------------------------
(* The sums over the subsets of a domain are a fold, in any order.         *)
LEMMA IterFold ==
  ASSUME NEW D, IsFiniteSet(D), NEW f \in [D -> Int]
  PROVE  /\ Iter(f) \in [SUBSET D -> Int]
         /\ Iter(f)[{}] = 0
         /\ IsFold(Iter(f), Add, 0, f, D)
         /\ AnyFirst(Iter(f), Add, f, D)
<1> DEFINE iter == Iter(f)
<1>1. IsSumOf(iter, f)
  BY IterExists DEF Iter
<1>2. iter \in [SUBSET D -> Int]
  BY <1>1, IterInt DEF IsSumOf
<1>3. iter[{}] = 0 /\ \A set \in SUBSET D : set # {} =>
         iter[set] = f[First(set)] + iter[set \ {First(set)}]
  BY IterRule
<1> HIDE DEF iter
<1>4. IsFold(iter, Add, 0, f, D)
  <2> SUFFICES ASSUME NEW set \in SUBSET D, set # {}
               PROVE  iter[set] = Add[<<f[First(set)], iter[set \ {First(set)}]>>]
    BY <1>3 DEF IsFold
  <2>1. f[First(set)] \in Int /\ iter[set \ {First(set)}] \in Int
    BY <1>2, FirstInside
  <2> QED
    BY <1>3, <2>1, AddFacts
<1>5. 0 \in Int
  OBVIOUS
<1>6. AnyFirst(iter, Add, f, D)
  BY <1>2, <1>4, <1>5, AddFacts, FoldTakeOut, Zenon
<1> QED
  BY <1>2, <1>3, <1>4, <1>6 DEF iter

LEMMA IterTakeOut ==
  ASSUME NEW D, IsFiniteSet(D), NEW f \in [D -> Int]
  PROVE  \A set \in SUBSET D : \A a \in set : Iter(f)[set] = f[a] + Iter(f)[set \ {a}]
<1> TAKE set \in SUBSET D
<1> TAKE a \in set
<1>0. AnyFirst(Iter(f), Add, f, D)
  BY IterFold
<1>1. Iter(f)[set] = Add[<<f[a], Iter(f)[set \ {a}]>>]
  BY <1>0 DEF AnyFirst
<1>2. f[a] \in Int /\ Iter(f)[set \ {a}] \in Int
  BY IterInt
<1> QED
  BY <1>1, <1>2, AddFacts

(* Renaming what is summed over, into a domain that may hold more.         *)
LEMMA IterReindex ==
  ASSUME NEW D, IsFiniteSet(D), NEW E, IsFiniteSet(E),
         NEW f \in [E -> Int], NEW g \in [D -> Int],
         NEW h, NEW names, Renames(h, D, E, names), \A x \in D : g[x] = f[h[x]]
  PROVE  SumFunction(g) = Iter(f)[names]
<1>1. Iter(f)[{}] = 0 /\ AnyFirst(Iter(f), Add, f, E)
  BY IterFold
<1>2. IsFold(Iter(g), Add, 0, g, D)
  BY IterFold
<1>3. Iter(g)[D] = Iter(f)[names]
  BY <1>1, <1>2, FoldReindex
<1> QED
  BY <1>3, IterRule

(* Renaming what is summed over.                                           *)
THEOREM SumReindex ==
  ASSUME NEW D, IsFiniteSet(D), NEW E, IsFiniteSet(E),
         NEW f \in [E -> Int], NEW g \in [D -> Int],
         NEW h, Renames(h, D, E, E), \A x \in D : g[x] = f[h[x]]
  PROVE  SumFunction(g) = SumFunction(f)
<1>1. SumFunction(g) = Iter(f)[E]
  BY IterReindex
<1> QED
  BY <1>1, IterRule

(* The sum over a part of the domain.                                      *)
LEMMA IterIsSum ==
  ASSUME NEW D, IsFiniteSet(D), NEW f \in [D -> Int], NEW S \in SUBSET D
  PROVE  Iter(f)[S] = SumFunction([x \in S |-> f[x]])
<1> DEFINE g == [x \in S |-> f[x]]
           h == [x \in S |-> x]
<1>1. IsFiniteSet(S)
  BY FS_Subset
<1>2. /\ g \in [S -> Int] /\ h \in [S -> D] /\ \A x \in S : g[x] = f[h[x]]
      /\ Renames(h, S, D, S)
  BY DEF Renames
<1> HIDE DEF g, h
<1>3. SumFunction(g) = Iter(f)[S]
  BY <1>1, <1>2, IterReindex
<1> QED
  BY <1>2, <1>3 DEF g

(* A summand taken out, and the sum of the others.                         *)
THEOREM SumTakeOut ==
  ASSUME NEW D, IsFiniteSet(D), NEW f \in [D -> Int], NEW a \in D
  PROVE  SumFunction(f) = f[a] + SumFunction([x \in D \ {a} |-> f[x]])
<1>1. D \in SUBSET D /\ D \ {a} \in SUBSET D
  OBVIOUS
<1>2. Iter(f)[D] = f[a] + Iter(f)[D \ {a}]
  BY <1>1, IterTakeOut
<1>3. Iter(f)[D \ {a}] = SumFunction([x \in D \ {a} |-> f[x]])
  BY <1>1, IterIsSum
<1>4. SumFunction(f) = Iter(f)[D]
  BY IterRule
<1> QED
  BY <1>2, <1>3, <1>4

(* A sum in two parts.                                                     *)
THEOREM SumSplit ==
  ASSUME NEW D, IsFiniteSet(D), NEW f \in [D -> Int], NEW S \in SUBSET D
  PROVE  SumFunction(f) = SumFunction([x \in S |-> f[x]]) + SumFunction([x \in D \ S |-> f[x]])
<1> DEFINE good == {set \in SUBSET D :
                      Iter(f)[set] = Iter(f)[set \intersect S] + Iter(f)[set \ S]}
<1>1. {} \in good
  <2>1. {} \intersect S = {} /\ {} \ S = {} /\ Iter(f)[{}] = 0
    BY IterRule
  <2> QED
    BY <2>1
<1>2. ASSUME NEW set \in SUBSET D, set # {}, set \ {First(set)} \in good
      PROVE  set \in good
  <2>1. PICK a \in set : a = First(set)
    BY <1>2, FirstInside
  <2> DEFINE restIn == Iter(f)[(set \ {a}) \intersect S]
             restOut == Iter(f)[(set \ {a}) \ S]
  <2>2. /\ Iter(f)[set] = f[a] + Iter(f)[set \ {a}]
        /\ Iter(f)[set \ {a}] = restIn + restOut
    BY <1>2, <2>1, IterTakeOut
  <2>3. /\ f[a] \in Int
        /\ restIn \in Int
        /\ restOut \in Int
    BY IterInt
  <2>4. CASE a \in S
    <3>1. /\ (set \ {a}) \ S = set \ S
          /\ (set \ {a}) \intersect S = (set \intersect S) \ {a}
          /\ a \in set \intersect S
      BY <2>4
    <3>2. Iter(f)[set \intersect S] = f[a] + restIn /\ Iter(f)[set \ S] = restOut
      <4>1. set \intersect S \in SUBSET D
        OBVIOUS
      <4>2. Iter(f)[set \intersect S] = f[a] + Iter(f)[(set \intersect S) \ {a}]
        BY <3>1, <4>1, IterTakeOut
      <4> QED
        BY <3>1, <4>2
    <3> HIDE DEF restIn, restOut, good
    <3>3. Iter(f)[set] = Iter(f)[set \intersect S] + Iter(f)[set \ S]
      BY <2>2, <2>3, <3>2
    <3> QED
      BY <3>3 DEF good
  <2>5. CASE a \notin S
    <3>1. /\ (set \ {a}) \intersect S = set \intersect S
          /\ (set \ {a}) \ S = (set \ S) \ {a}
          /\ a \in set \ S
      BY <2>5
    <3>2. Iter(f)[set \ S] = f[a] + restOut /\ Iter(f)[set \intersect S] = restIn
      <4>1. set \ S \in SUBSET D
        OBVIOUS
      <4>2. Iter(f)[set \ S] = f[a] + Iter(f)[(set \ S) \ {a}]
        BY <3>1, <4>1, IterTakeOut
      <4> QED
        BY <3>1, <4>2
    <3> HIDE DEF restIn, restOut, good
    <3>3. Iter(f)[set] = Iter(f)[set \intersect S] + Iter(f)[set \ S]
      BY <2>2, <2>3, <3>2
    <3> QED
      BY <3>3 DEF good
  <2> QED
    BY <2>4, <2>5
<1>3. good \in SUBSET (SUBSET D)
  OBVIOUS
<1> HIDE DEF good
<1>4. good = SUBSET D
  BY <1>1, <1>2, <1>3, SubsetInduction
<1>5. D \intersect S = S /\ D \ S \in SUBSET D
  OBVIOUS
<1>6. Iter(f)[D] = Iter(f)[S] + Iter(f)[D \ S]
  BY <1>4, <1>5 DEF good
<1> QED
  BY <1>5, <1>6, IterIsSum, IterRule

(* A sum class by class: the classes are the values of h.                  *)
THEOREM SumFibres ==
  ASSUME NEW D, IsFiniteSet(D), NEW E, IsFiniteSet(E),
         NEW f \in [D -> Int], NEW h \in [D -> E]
  PROVE  SumFunction(f) =
           SumFunction([e \in E |-> SumFunction([x \in {y \in D : h[y] = e} |-> f[x]])])
<1> DEFINE fibre(set, e) == {y \in set : h[y] = e}
           classes(set) == [e \in E |-> Iter(f)[fibre(set, e)]]
           good == {set \in SUBSET D : Iter(f)[set] = SumFunction(classes(set))}
<1>0. \A set \in SUBSET D : classes(set) \in [E -> Int]
  BY IterInt
<1>1. {} \in good
  <2>1. classes({}) = [e \in E |-> 0]
    <3>1. \A e \in E : fibre({}, e) = {}
      OBVIOUS
    <3> QED
      BY <3>1, IterRule
  <2>2. SumFunction([e \in E |-> 0]) = 0
    BY SumZero
  <2>3. Iter(f)[{}] = 0
    BY IterRule
  <2> HIDE DEF classes
  <2> QED
    BY <2>1, <2>2, <2>3
<1>2. ASSUME NEW set \in SUBSET D, set # {}, set \ {First(set)} \in good
      PROVE  set \in good
  <2>1. PICK a \in set : a = First(set)
    BY <1>2, FirstInside
  <2> DEFINE rest == set \ {a}
             spike == Spike(E, h[a], f[a])
  <2>2. Iter(f)[set] = f[a] + Iter(f)[rest]
    BY IterTakeOut
  <2>3. Iter(f)[rest] = SumFunction(classes(rest))
    BY <1>2, <2>1
  <2>4. f[a] \in Int /\ h[a] \in E /\ spike \in [E -> Int]
    BY DEF Spike
  <2>5. SumFunction(spike) = f[a]
    BY <2>4, SumSpike
  <2>6. classes(rest) \in [E -> Int] /\ classes(set) \in [E -> Int]
    BY <1>0
  <2>7. ASSUME NEW e \in E PROVE classes(set)[e] = spike[e] + classes(rest)[e]
    <3>1. Iter(f)[fibre(rest, e)] \in Int /\ fibre(set, e) \in SUBSET D
      BY IterInt
    <3>2. CASE e = h[a]
      <4>1. a \in fibre(set, e) /\ fibre(rest, e) = fibre(set, e) \ {a}
        BY <3>2
      <4> HIDE DEF fibre
      <4>2. Iter(f)[fibre(set, e)] = f[a] + Iter(f)[fibre(set, e) \ {a}]
        BY <3>1, <4>1, IterTakeOut
      <4> QED
        BY <3>2, <4>1, <4>2 DEF Spike
    <3>3. CASE e # h[a]
      <4>1. fibre(rest, e) = fibre(set, e)
        BY <3>3
      <4> HIDE DEF fibre
      <4> QED
        BY <3>1, <3>3, <4>1 DEF Spike
    <3> QED
      BY <3>2, <3>3
  <2> DEFINE after == classes(set)
             before == classes(rest)
  <2>8. SumFunction(after) = SumFunction(spike) + SumFunction(before)
    <3>1. /\ after \in [E -> Int] /\ before \in [E -> Int]
          /\ \A e \in E : after[e] = spike[e] + before[e]
      BY <2>6, <2>7
    <3> HIDE DEF spike, after, before, fibre, good
    <3> QED
      BY <2>4, <3>1, SumPlusPoints
  <2> HIDE DEF classes, spike
  <2> QED
    BY <2>2, <2>3, <2>5, <2>8
<1>3. good \in SUBSET (SUBSET D)
  OBVIOUS
<1> HIDE DEF good
<1>4. good = SUBSET D
  BY <1>1, <1>2, <1>3, SubsetInduction
<1>5. Iter(f)[D] = SumFunction(classes(D))
  BY <1>4 DEF good
<1>6. classes(D) = [e \in E |-> SumFunction([x \in {y \in D : h[y] = e} |-> f[x]])]
  <2>1. ASSUME NEW e \in E
        PROVE  Iter(f)[fibre(D, e)] = SumFunction([x \in fibre(D, e) |-> f[x]])
    <3>1. fibre(D, e) \in SUBSET D
      OBVIOUS
    <3> HIDE DEF fibre
    <3> QED
      BY <3>1, IterIsSum
  <2> QED
    BY <2>1
<1> HIDE DEF classes
<1> QED
  BY <1>5, <1>6, IterRule

-----------------------------------------------------------------------------
Multiply == [p \in Int \X Int |-> p[1] * p[2]]

IsProductOf(iter, f) ==
    iter = [set \in SUBSET (DOMAIN f) |->
              IF set = {} THEN 1 ELSE f[First(set)] * iter[set \ {First(set)}]]

ProductIter(f) == CHOOSE iter : IsProductOf(iter, f)

LEMMA ProductIsIter == \A f : ProductFunction(f) = ProductIter(f)[DOMAIN f]
  BY DEF ProductFunction, FoldFunction, FoldFunctionOnSet, MapThenFoldSet,
         ProductIter, IsProductOf, First

LEMMA MultiplyFacts ==
  /\ Multiply \in [Int \X Int -> Int]
  /\ \A a, b \in Int : Multiply[<<a, b>>] = a * b
  /\ Commutes(Multiply, Int)
<1>1. Multiply \in [Int \X Int -> Int] /\ \A a, b \in Int : Multiply[<<a, b>>] = a * b
  BY DEF Multiply
<1>2. \A a, b, c \in Int : a * (b * c) = b * (a * c) /\ b * c \in Int /\ a * c \in Int
  OBVIOUS
<1> QED
  BY <1>1, <1>2 DEF Commutes

(* The products over the subsets of a domain are a fold, in any order.     *)
LEMMA ProductFold ==
  ASSUME NEW D, IsFiniteSet(D), NEW f \in [D -> Int]
  PROVE  /\ ProductFunction(f) = ProductIter(f)[D]
         /\ ProductIter(f) \in [SUBSET D -> Int]
         /\ ProductIter(f)[{}] = 1
         /\ IsFold(ProductIter(f), Multiply, 1, f, D)
         /\ AnyFirst(ProductIter(f), Multiply, f, D)
<1>0. 1 \in Int
  OBVIOUS
<1>1. PICK fold \in [SUBSET D -> Int] : IsFold(fold, Multiply, 1, f, D)
  BY <1>0, FoldExists, MultiplyFacts, Zenon
<1>2. IsProductOf(fold, f)
  <2>1. ASSUME NEW set \in SUBSET D
        PROVE  fold[set] = IF set = {} THEN 1 ELSE f[First(set)] * fold[set \ {First(set)}]
    <3>1. set # {} => f[First(set)] \in Int /\ fold[set \ {First(set)}] \in Int
      BY FirstInside
    <3> QED
      BY <1>1, <3>1, MultiplyFacts DEF IsFold
  <2>2. fold = [set \in SUBSET D |->
                  IF set = {} THEN 1 ELSE f[First(set)] * fold[set \ {First(set)}]]
    BY <2>1
  <2> QED
    BY <2>2 DEF IsProductOf
<1> DEFINE iter == ProductIter(f)
<1>3. IsProductOf(iter, f)
  BY <1>2 DEF ProductIter
<1>4. \A set \in SUBSET D :
        iter[set] = IF set = {} THEN 1 ELSE f[First(set)] * iter[set \ {First(set)}]
  BY <1>3 DEF IsProductOf
<1>5. iter = [set \in SUBSET D |-> iter[set]]
  BY <1>3 DEF IsProductOf
<1> HIDE DEF iter
<1> DEFINE good == {set \in SUBSET D : iter[set] \in Int}
<1>6. {} \in good
  <2>1. iter[{}] = 1
    BY <1>4
  <2> QED
    BY <2>1
<1>7. ASSUME NEW set \in SUBSET D, set # {}, set \ {First(set)} \in good
      PROVE  set \in good
  <2>1. f[First(set)] \in Int /\ iter[set \ {First(set)}] \in Int
    BY <1>7, FirstInside
  <2>2. f[First(set)] * iter[set \ {First(set)}] \in Int
    BY <2>1
  <2> QED
    BY <1>4, <1>7, <2>2
<1>8. good \in SUBSET (SUBSET D)
  OBVIOUS
<1> HIDE DEF good
<1>9. good = SUBSET D
  BY <1>6, <1>7, <1>8, SubsetInduction
<1>10. iter \in [SUBSET D -> Int]
  BY <1>5, <1>9 DEF good
<1>11. IsFold(iter, Multiply, 1, f, D)
  <2> SUFFICES ASSUME NEW set \in SUBSET D, set # {}
               PROVE  iter[set] = Multiply[<<f[First(set)], iter[set \ {First(set)}]>>]
    BY <1>4 DEF IsFold
  <2>1. f[First(set)] \in Int /\ iter[set \ {First(set)}] \in Int
    BY <1>10, FirstInside
  <2> QED
    BY <1>4, <2>1, MultiplyFacts
<1>12. AnyFirst(iter, Multiply, f, D)
  BY <1>0, <1>10, <1>11, MultiplyFacts, FoldTakeOut, Zenon
<1>13. DOMAIN f = D
  OBVIOUS
<1> QED
  BY <1>4, <1>10, <1>11, <1>12, <1>13, ProductIsIter DEF iter

THEOREM ProductInt ==
  ASSUME NEW D, IsFiniteSet(D), NEW f \in [D -> Int]
  PROVE  ProductFunction(f) \in Int
<1>1. ProductFunction(f) = ProductIter(f)[D] /\ ProductIter(f) \in [SUBSET D -> Int]
  BY ProductFold
<1> QED
  BY <1>1

THEOREM ProductOfNone ==
  ASSUME NEW f \in [{} -> Int]
  PROVE  ProductFunction(f) = 1
<1>1. IsFiniteSet({})
  BY FS_EmptySet
<1> QED
  BY <1>1, ProductFold

(* A factor taken out.                                                     *)
THEOREM ProductTakeOut ==
  ASSUME NEW E, IsFiniteSet(E), NEW f \in [E -> Int], NEW a \in E
  PROVE  ProductFunction(f) = f[a] * ProductIter(f)[E \ {a}]
<1> DEFINE fold == ProductIter(f)
<1>1. /\ AnyFirst(fold, Multiply, f, E) /\ fold \in [SUBSET E -> Int]
      /\ ProductFunction(f) = fold[E]
  BY ProductFold
<1> HIDE DEF fold
<1>2. fold[E] = Multiply[<<f[a], fold[E \ {a}]>>]
  BY <1>1 DEF AnyFirst
<1>3. f[a] \in Int /\ fold[E \ {a}] \in Int
  BY <1>1
<1> QED
  BY <1>1, <1>2, <1>3, MultiplyFacts DEF fold

(* Renaming the factors, into a domain that may hold more.                 *)
THEOREM ProductReindex ==
  ASSUME NEW D, IsFiniteSet(D), NEW E, IsFiniteSet(E),
         NEW f \in [E -> Int], NEW g \in [D -> Int],
         NEW h, NEW names, Renames(h, D, E, names), \A x \in D : g[x] = f[h[x]]
  PROVE  ProductFunction(g) = ProductIter(f)[names]
<1>1. ProductIter(f)[{}] = 1 /\ AnyFirst(ProductIter(f), Multiply, f, E)
  BY ProductFold
<1>2. IsFold(ProductIter(g), Multiply, 1, g, D)
  BY ProductFold
<1>3. ProductIter(g)[D] = ProductIter(f)[names]
  BY <1>1, <1>2, FoldReindex
<1>4. ProductFunction(g) = ProductIter(g)[D]
  BY ProductFold
<1> QED
  BY <1>3, <1>4

(* The product over a part of the domain.                                  *)
LEMMA ProductIterIsProduct ==
  ASSUME NEW D, IsFiniteSet(D), NEW f \in [D -> Int], NEW S \in SUBSET D
  PROVE  ProductIter(f)[S] = ProductFunction([x \in S |-> f[x]])
<1> DEFINE g == [x \in S |-> f[x]]
           h == [x \in S |-> x]
<1>1. IsFiniteSet(S)
  BY FS_Subset
<1>2. /\ g \in [S -> Int] /\ h \in [S -> D] /\ \A x \in S : g[x] = f[h[x]]
      /\ Renames(h, S, D, S)
  BY DEF Renames
<1> HIDE DEF g, h
<1>3. ProductFunction(g) = ProductIter(f)[S]
  BY <1>1, <1>2, ProductReindex
<1> QED
  BY <1>3 DEF g

THEOREM ProductWithout ==
  ASSUME NEW D, IsFiniteSet(D), NEW f \in [D -> Int], NEW a \in D
  PROVE  ProductFunction(f) = f[a] * ProductFunction([x \in D \ {a} |-> f[x]])
<1>1. ProductFunction(f) = f[a] * ProductIter(f)[D \ {a}]
  BY ProductTakeOut
<1>2. D \ {a} \in SUBSET D
  OBVIOUS
<1> QED
  BY <1>1, <1>2, ProductIterIsProduct

(* What a product over the subsets of a domain does with an element.       *)
LEMMA ProductIterTakeOut ==
  ASSUME NEW D, IsFiniteSet(D), NEW f \in [D -> Int], NEW set \in SUBSET D, NEW a \in set
  PROVE  /\ ProductIter(f)[set] = f[a] * ProductIter(f)[set \ {a}]
         /\ f[a] \in Int /\ ProductIter(f)[set \ {a}] \in Int
<1>1. AnyFirst(ProductIter(f), Multiply, f, D) /\ ProductIter(f) \in [SUBSET D -> Int]
  BY ProductFold
<1>2. f[a] \in Int /\ ProductIter(f)[set \ {a}] \in Int
  BY <1>1
<1> QED
  BY <1>1, <1>2, MultiplyFacts DEF AnyFirst

(* Factors that are not below zero.                                        *)
THEOREM ProductPositive ==
  ASSUME NEW D, IsFiniteSet(D), NEW f \in [D -> Int], \A x \in D : f[x] >= 0
  PROVE  /\ ProductFunction(f) >= 0
         /\ ProductFunction(f) > 0 <=> \A x \in D : f[x] > 0
<1> DEFINE p(set) == ProductIter(f)[set]
           good == {set \in SUBSET D : /\ p(set) \in Int /\ p(set) >= 0
                                       /\ p(set) > 0 <=> \A x \in set : f[x] > 0}
<1>1. {} \in good
  <2>1. p({}) = 1
    BY ProductFold
  <2> QED
    BY <2>1
<1>2. ASSUME NEW set \in SUBSET D, set # {}, set \ {First(set)} \in good
      PROVE  set \in good
  <2>1. PICK a \in set : a = First(set)
    BY <1>2, FirstInside
  <2>2. p(set) = f[a] * p(set \ {a}) /\ f[a] \in Int
    BY ProductIterTakeOut
  <2>3. /\ p(set \ {a}) \in Int /\ p(set \ {a}) >= 0
        /\ p(set \ {a}) > 0 <=> \A x \in set \ {a} : f[x] > 0
    BY <1>2, <2>1
  <2>4. f[a] >= 0
    OBVIOUS
  <2> HIDE DEF p
  <2>5. CASE f[a] = 0
    BY <2>2, <2>3, <2>5
  <2>6. CASE f[a] > 0
    <3>1. (\A x \in set : f[x] > 0) <=> \A x \in set \ {a} : f[x] > 0
      BY <2>6
    <3>2. \A q \in Int : q >= 0 => f[a] * q \in Int /\ f[a] * q >= 0 /\ (f[a] * q > 0 <=> q > 0)
      <4>1. ASSUME NEW c \in Int, c > 0, NEW q \in Int, q >= 0
            PROVE  c * q \in Int /\ c * q >= 0 /\ (c * q > 0 <=> q > 0)
        <5>1. q = 0 => c * q = 0
          BY <4>1
        <5>2. q > 0 => c * q > 0
          BY <4>1
        <5> QED
          BY <4>1, <5>1, <5>2
      <4> QED
        BY <2>2, <2>6, <4>1
    <3> QED
      BY <2>2, <2>3, <3>1, <3>2
  <2> QED
    BY <2>2, <2>4, <2>5, <2>6
<1>3. good \in SUBSET (SUBSET D)
  OBVIOUS
<1> HIDE DEF good
<1>4. good = SUBSET D
  BY <1>1, <1>2, <1>3, SubsetInduction
<1>5. ProductFunction(f) = p(D)
  BY ProductFold
<1> QED
  BY <1>4, <1>5 DEF good

(* A factor that is zero.                                                  *)
THEOREM ProductZero ==
  ASSUME NEW D, IsFiniteSet(D), NEW f \in [D -> Int], NEW a \in D, f[a] = 0
  PROVE  ProductFunction(f) = 0
<1>1. ProductFunction(f) = f[a] * ProductIter(f)[D \ {a}]
  BY ProductTakeOut
<1>2. D \in SUBSET D
  OBVIOUS
<1>3. ProductIter(f)[D \ {a}] \in Int
  BY <1>2, ProductIterTakeOut
<1> QED
  BY <1>1, <1>3

(* Summands that are not below zero.                                       *)
THEOREM SumPositive ==
  ASSUME NEW D, IsFiniteSet(D), NEW f \in [D -> Int], \A x \in D : f[x] >= 0
  PROVE  SumFunction(f) > 0 <=> \E x \in D : f[x] > 0
<1>1. ASSUME NEW a \in D, f[a] > 0 PROVE SumFunction(f) > 0
  BY <1>1, SumNonnegative, SumInt
<1>2. ASSUME \A x \in D : ~ f[x] > 0 PROVE SumFunction(f) = 0
  <2>1. \A x \in D : f[x] = 0
    BY <1>2
  <2>2. f = [x \in D |-> 0]
    BY <2>1
  <2> QED
    BY <2>2, SumZero
<1> QED
  BY <1>1, <1>2

(* A product in two parts.                                                 *)
THEOREM ProductSplit ==
  ASSUME NEW D, IsFiniteSet(D), NEW f \in [D -> Int], NEW S \in SUBSET D
  PROVE  ProductFunction(f) = ProductFunction([x \in S |-> f[x]])
                                * ProductFunction([x \in D \ S |-> f[x]])
<1> DEFINE p(set) == ProductIter(f)[set]
           good == {set \in SUBSET D : p(set) = p(set \intersect S) * p(set \ S)}
<1>0. \A set \in SUBSET D : p(set) \in Int
  <2>1. ProductIter(f) \in [SUBSET D -> Int]
    BY ProductFold
  <2> QED
    BY <2>1
<1>t. \A set \in SUBSET D : \A a \in set : p(set) = f[a] * p(set \ {a}) /\ f[a] \in Int
  <2> SUFFICES ASSUME NEW set \in SUBSET D, NEW a \in set
               PROVE  p(set) = f[a] * p(set \ {a}) /\ f[a] \in Int
    OBVIOUS
  <2>1. /\ ProductIter(f)[set] = f[a] * ProductIter(f)[set \ {a}]
        /\ f[a] \in Int /\ ProductIter(f)[set \ {a}] \in Int
    BY ProductIterTakeOut, Zenon
  <2> QED
    BY <2>1
<1>1. {} \in good
  <2>1. {} \intersect S = {} /\ {} \ S = {} /\ p({}) = 1
    BY ProductFold
  <2> QED
    BY <2>1
<1>2. ASSUME NEW set \in SUBSET D, set # {}, set \ {First(set)} \in good
      PROVE  set \in good
  <2>1. PICK a \in set : a = First(set)
    BY <1>2, FirstInside
  <2> DEFINE restIn == p((set \ {a}) \intersect S)
             restOut == p((set \ {a}) \ S)
  <2>2. p(set) = f[a] * p(set \ {a}) /\ f[a] \in Int
    BY <1>t
  <2>3. p(set \ {a}) = restIn * restOut
    BY <1>2, <2>1
  <2>4. restIn \in Int /\ restOut \in Int
    BY <1>0
  <2>5. \A x, y, z \in Int : x * (y * z) = (x * y) * z /\ x * (y * z) = y * (x * z)
    OBVIOUS
  <2>6. CASE a \in S
    <3>1. /\ (set \ {a}) \ S = set \ S
          /\ (set \ {a}) \intersect S = (set \intersect S) \ {a}
          /\ a \in set \intersect S
          /\ set \intersect S \in SUBSET D
      BY <2>6
    <3>2. p(set \intersect S) = f[a] * p((set \intersect S) \ {a})
      BY <1>t, <3>1
    <3>3. p(set \intersect S) = f[a] * restIn /\ p(set \ S) = restOut
      BY <3>1, <3>2
    <3> HIDE DEF restIn, restOut, good, p
    <3>4. p(set) = p(set \intersect S) * p(set \ S)
      BY <2>2, <2>3, <2>4, <2>5, <3>3
    <3> QED
      BY <3>4 DEF good
  <2>7. CASE a \notin S
    <3>1. /\ (set \ {a}) \intersect S = set \intersect S
          /\ (set \ {a}) \ S = (set \ S) \ {a}
          /\ a \in set \ S
          /\ set \ S \in SUBSET D
      BY <2>7
    <3>2. p(set \ S) = f[a] * p((set \ S) \ {a})
      BY <1>t, <3>1
    <3>3. p(set \ S) = f[a] * restOut /\ p(set \intersect S) = restIn
      BY <3>1, <3>2
    <3> HIDE DEF restIn, restOut, good, p
    <3>4. p(set) = p(set \intersect S) * p(set \ S)
      BY <2>2, <2>3, <2>4, <2>5, <3>3
    <3> QED
      BY <3>4 DEF good
  <2> QED
    BY <2>6, <2>7
<1>3. good \in SUBSET (SUBSET D)
  OBVIOUS
<1> HIDE DEF good
<1>4. good = SUBSET D
  BY <1>1, <1>2, <1>3, SubsetInduction
<1>5. D \intersect S = S /\ D \ S \in SUBSET D
  OBVIOUS
<1>6. p(D) = p(S) * p(D \ S)
  BY <1>4, <1>5 DEF good
<1> QED
  BY <1>5, <1>6, ProductIterIsProduct, ProductFold

(* Functions between finite sets are finitely many.                        *)
THEOREM FunctionsFinite ==
  ASSUME NEW D, IsFiniteSet(D), NEW R, IsFiniteSet(R)
  PROVE  IsFiniteSet([D -> R])
<1> DEFINE graph == [f \in [D -> R] |-> {<<x, f[x]>> : x \in D}]
<1>1. IsFiniteSet(SUBSET (D \X R))
  BY FS_Product, FS_SUBSET
<1>2. graph \in [[D -> R] -> SUBSET (D \X R)]
  OBVIOUS
<1>3. ASSUME NEW f \in [D -> R], NEW g \in [D -> R], graph[f] = graph[g]
      PROVE  f = g
  <2>1. ASSUME NEW x \in D PROVE f[x] = g[x]
    <3>1. <<x, f[x]>> \in graph[f]
      OBVIOUS
    <3>2. <<x, f[x]>> \in graph[g]
      BY <1>3, <3>1
    <3> QED
      BY <3>2
  <2> QED
    BY <2>1
<1>4. graph \in Injection([D -> R], SUBSET (D \X R))
  BY <1>2, <1>3 DEF Injection, IsInjective
<1> QED
  BY <1>1, <1>4, FS_Injection

(* A sum of those that have a property.                                    *)
THEOREM SumWhere ==
  ASSUME NEW D, IsFiniteSet(D), NEW f \in [D -> Int], NEW S \in SUBSET D
  PROVE  SumFunction([x \in D |-> IF x \in S THEN f[x] ELSE 0]) = SumFunction([x \in S |-> f[x]])
<1> DEFINE g == [x \in D |-> IF x \in S THEN f[x] ELSE 0]
<1>1. g \in [D -> Int]
  OBVIOUS
<1>2. [x \in S |-> g[x]] = [x \in S |-> f[x]] /\ [x \in D \ S |-> g[x]] = [x \in D \ S |-> 0]
  OBVIOUS
<1> HIDE DEF g
<1>3. SumFunction(g) = SumFunction([x \in S |-> g[x]]) + SumFunction([x \in D \ S |-> g[x]])
  BY <1>1, SumSplit
<1>4. SumFunction([x \in D \ S |-> 0]) = 0
  BY FS_Difference, SumZero
<1>5. SumFunction([x \in S |-> f[x]]) \in Int
  <2>1. [x \in S |-> f[x]] \in [S -> Int] /\ IsFiniteSet(S)
    BY FS_Subset
  <2> QED
    BY <2>1, SumInt
<1> QED
  BY <1>2, <1>3, <1>4, <1>5 DEF g

(* The totals of the rows and of the columns of a table.                   *)
RowTotals(D, E, w) == [x \in D |-> SumFunction([y \in E |-> w[x][y]])]
ColumnTotals(D, E, w) == [y \in E |-> SumFunction([x \in D |-> w[x][y]])]

(* One sum of sums for the other.                                          *)
THEOREM SumExchange ==
  ASSUME NEW D, IsFiniteSet(D), NEW E, IsFiniteSet(E),
         NEW w, \A x \in D : \A y \in E : w[x][y] \in Int
  PROVE  SumFunction(RowTotals(D, E, w)) = SumFunction(ColumnTotals(D, E, w))
<1> DEFINE row == [x \in D |-> SumFunction([y \in E |-> w[x][y]])]
           column(y) == [x \in D |-> w[x][y]]
           part(set) == [y \in E |-> Iter(column(y))[set]]
           good == {set \in SUBSET D : Iter(row)[set] = SumFunction(part(set))}
<1>1. row \in [D -> Int]
  <2>1. \A x \in D : [y \in E |-> w[x][y]] \in [E -> Int]
    OBVIOUS
  <2>2. \A x \in D : SumFunction([y \in E |-> w[x][y]]) \in Int
    BY <2>1, SumInt
  <2> QED
    BY <2>2
<1>2. \A y \in E : column(y) \in [D -> Int]
  OBVIOUS
<1>r. \A x \in D : row[x] = SumFunction([y \in E |-> w[x][y]])
  OBVIOUS
<1>c. \A y \in E : \A x \in D : column(y)[x] = w[x][y]
  OBVIOUS
<1> HIDE DEF row, column
<1>3. \A y \in E : \A set \in SUBSET D : Iter(column(y))[set] \in Int
  BY <1>2, IterInt
<1>4. {} \in good
  <2>1. \A y \in E : Iter(column(y))[{}] = 0
    BY <1>2, IterRule
  <2>2. part({}) = [y \in E |-> 0]
    BY <2>1
  <2>3. Iter(row)[{}] = 0
    BY <1>1, IterRule
  <2>4. SumFunction([y \in E |-> 0]) = 0
    BY SumZero
  <2> HIDE DEF part
  <2> QED
    BY <2>2, <2>3, <2>4
<1>5. ASSUME NEW set \in SUBSET D, set # {}, set \ {First(set)} \in good
      PROVE  set \in good
  <2>1. PICK a \in set : a = First(set)
    BY <1>5, FirstInside
  <2> DEFINE rest == set \ {a}
             new == [y \in E |-> w[a][y]]
             before == part(rest)
             after == part(set)
  <2>2. Iter(row)[set] = row[a] + Iter(row)[rest]
    BY <1>1, IterTakeOut
  <2>3. ASSUME NEW y \in E
        PROVE  Iter(column(y))[set] = column(y)[a] + Iter(column(y))[rest]
    <3>1. column(y) \in [D -> Int]
      BY <1>2
    <3> HIDE DEF good, part
    <3> QED
      BY <3>1, IterTakeOut
  <2>4. Iter(row)[rest] = SumFunction(before)
    BY <1>5, <2>1
  <2>5. new \in [E -> Int] /\ before \in [E -> Int] /\ after \in [E -> Int]
    BY <1>3
  <2>6. \A y \in E : after[y] = new[y] + before[y]
    BY <2>3, <1>c
  <2>7. row[a] = SumFunction(new)
    BY <1>r
  <2> HIDE DEF part, new, before, after, good
  <2>8. SumFunction(after) = SumFunction(new) + SumFunction(before)
    BY <2>5, <2>6, SumPlusPoints
  <2> QED
    BY <2>2, <2>4, <2>7, <2>8 DEF good, after
<1>6. good \in SUBSET (SUBSET D)
  OBVIOUS
<1> HIDE DEF good
<1>7. good = SUBSET D
  BY <1>4, <1>5, <1>6, SubsetInduction
<1>8. Iter(row)[D] = SumFunction(part(D))
  BY <1>7 DEF good
<1>9. SumFunction(row) = Iter(row)[D] /\ \A y \in E : SumFunction(column(y)) = Iter(column(y))[D]
  BY <1>1, <1>2, IterRule
<1>10. part(D) = [y \in E |-> SumFunction([x \in D |-> w[x][y]])]
  BY <1>9 DEF column
<1> HIDE DEF part
<1> QED
  BY <1>8, <1>9, <1>10 DEF row, RowTotals, ColumnTotals

(* A sum that counts.                                                      *)
THEOREM SumCount ==
  ASSUME NEW D, IsFiniteSet(D), NEW c \in Int
  PROVE  SumFunction([x \in D |-> c]) = Cardinality(D) * c
<1> DEFINE f == [x \in D |-> c]
           good == {set \in SUBSET D : Iter(f)[set] = Cardinality(set) * c}
<1>0. f \in [D -> Int] /\ \A x \in D : f[x] = c
  OBVIOUS
<1> HIDE DEF f
<1>1. {} \in good
  <2>1. Iter(f)[{}] = 0 /\ Cardinality({}) = 0
    BY <1>0, IterRule, FS_EmptySet
  <2> QED
    BY <2>1
<1>2. ASSUME NEW set \in SUBSET D, set # {}, set \ {First(set)} \in good
      PROVE  set \in good
  <2>1. PICK a \in set : a = First(set)
    BY <1>2, FirstInside
  <2>2. Iter(f)[set] = c + Iter(f)[set \ {a}]
    <3>1. f \in [D -> Int] /\ f[a] = c
      BY <1>0
    <3>2. Iter(f)[set] = f[a] + Iter(f)[set \ {a}]
      BY <3>1, IterTakeOut
    <3> QED
      BY <3>1, <3>2
  <2>3. /\ Cardinality(set \ {a}) = Cardinality(set) - 1
        /\ Cardinality(set) \in Nat
    BY FS_Subset, FS_RemoveElement, FS_CardinalityType
  <2>4. Iter(f)[set \ {a}] = (Cardinality(set) - 1) * c
    BY <1>2, <2>1, <2>3
  <2>5. c + (Cardinality(set) - 1) * c = Cardinality(set) * c
    BY <2>3
  <2> QED
    BY <2>2, <2>4, <2>5
<1>3. good \in SUBSET (SUBSET D)
  OBVIOUS
<1> HIDE DEF good
<1>4. good = SUBSET D
  BY <1>1, <1>2, <1>3, SubsetInduction
<1>5. Iter(f)[D] = Cardinality(D) * c
  BY <1>4 DEF good
<1>6. SumFunction(f) = Iter(f)[D]
  BY <1>0, IterRule
<1> QED
  BY <1>5, <1>6 DEF f

(* The powers are whole, grow, and follow their recursion.                 *)
LEMMA PowerNext ==
  ASSUME NEW base \in Int, NEW n \in Nat
  PROVE  /\ Power(base, 0) = 1
         /\ Power(base, n) \in Int
         /\ Power(base, n + 1) = base * Power(base, n)
<1> DEFINE f(k) == [j \in 1 .. k |-> base]
<1>1. \A k \in Nat : f(k) \in [1 .. k -> Int] /\ IsFiniteSet(1 .. k)
  BY FS_Interval
<1>2. f(0) \in [{} -> Int]
  OBVIOUS
<1>3. [x \in (1 .. n + 1) \ {n + 1} |-> f(n + 1)[x]] = f(n)
  <2>1. (1 .. n + 1) \ {n + 1} = 1 .. n
    OBVIOUS
  <2>2. \A x \in 1 .. n : f(n + 1)[x] = base
    OBVIOUS
  <2> QED
    BY <2>1, <2>2
<1>4. f(n + 1)[n + 1] = base /\ n + 1 \in 1 .. n + 1 /\ n + 1 \in Nat
  OBVIOUS
<1>p. \A k : Power(base, k) = ProductFunction(f(k))
  BY DEF Power
<1> HIDE DEF f
<1>5. ProductFunction(f(0)) = 1 /\ ProductFunction(f(n)) \in Int
  BY <1>1, <1>2, ProductOfNone, ProductInt
<1>6. ProductFunction(f(n + 1)) = base * ProductFunction(f(n))
  <2> DEFINE g == f(n + 1)
             D == 1 .. n + 1
             a == n + 1
  <2>1. g \in [D -> Int] /\ IsFiniteSet(D) /\ a \in D /\ g[a] = base
    BY <1>1, <1>4
  <2>2. [x \in D \ {a} |-> g[x]] = f(n)
    BY <1>3
  <2> HIDE DEF g, D, a
  <2>3. ProductFunction(g) = g[a] * ProductFunction([x \in D \ {a} |-> g[x]])
    BY <2>1, ProductWithout
  <2> QED
    BY <2>1, <2>2, <2>3 DEF g
<1> QED
  BY <1>p, <1>5, <1>6

-----------------------------------------------------------------------------
(* The ways of taking one element of V[m] for every m, each with a weight. *)
Selections(M, V) == {c \in [M -> UNION {V[m] : m \in M}] : \A m \in M : c[m] \in V[m]}

Weighted(M, V, w) == \A m \in M : IsFiniteSet(V[m]) /\ w[m] \in [V[m] -> Int]

ChoiceWeight(M, w, c) == ProductFunction([m \in M |-> w[m][c[m]]])

ChoiceSum(M, V, w) == SumFunction([c \in Selections(M, V) |-> ChoiceWeight(M, w, c)])

(* The sum over the choices that take v for a.                             *)
SliceSum(M, V, w, a, v) ==
    SumFunction([c \in {d \in Selections(M, V) : d[a] = v} |-> ChoiceWeight(M, w, c)])

LEMMA ChoicesFinite ==
  ASSUME NEW M, IsFiniteSet(M), NEW V, NEW w, Weighted(M, V, w)
  PROVE  IsFiniteSet(Selections(M, V))
<1> DEFINE all == {V[m] : m \in M}
           f == [m \in M |-> V[m]]
<1>1. f \in Surjection(M, all)
  BY DEF Surjection
<1>2. IsFiniteSet(all)
  BY <1>1, FS_Surjection
<1>3. \A T \in all : IsFiniteSet(T)
  BY DEF Weighted
<1>4. IsFiniteSet(UNION all)
  BY <1>2, <1>3, FS_UNION
<1>5. IsFiniteSet([M -> UNION all])
  BY <1>4, FunctionsFinite
<1>6. Selections(M, V) \in SUBSET [M -> UNION all]
  BY DEF Selections
<1> QED
  BY <1>5, <1>6, FS_Subset

LEMMA ChoiceFacts ==
  ASSUME NEW M, IsFiniteSet(M), NEW V, NEW w, Weighted(M, V, w), NEW c \in Selections(M, V)
  PROVE  /\ c = [m \in M |-> c[m]] /\ \A m \in M : c[m] \in V[m]
         /\ [m \in M |-> w[m][c[m]]] \in [M -> Int]
         /\ ChoiceWeight(M, w, c) \in Int
<1>1. c = [m \in M |-> c[m]] /\ \A m \in M : c[m] \in V[m]
  BY DEF Selections
<1>2. \A m \in M : w[m][c[m]] \in Int
  BY <1>1 DEF Weighted
<1> DEFINE f == [m \in M |-> w[m][c[m]]]
<1>3. f \in [M -> Int]
  BY <1>2
<1> HIDE DEF f
<1>4. ProductFunction(f) \in Int
  BY <1>3, ProductInt
<1> QED
  BY <1>1, <1>3, <1>4 DEF f, ChoiceWeight

(* The choices that agree on one place are those of the other places.      *)
LEMMA ChoiceStep ==
  ASSUME NEW M, IsFiniteSet(M), NEW V, NEW w, Weighted(M, V, w), NEW a \in M, NEW v \in V[a]
  PROVE  SliceSum(M, V, w, a, v) = w[a][v] * ChoiceSum(M \ {a}, V, w)
<1> DEFINE R == M \ {a}
           F == {d \in Selections(M, V) : d[a] = v}
           E == Selections(R, V)
           h == [c \in F |-> [m \in R |-> c[m]]]
           f == [c \in E |-> ChoiceWeight(R, w, c)]
           g == [c \in F |-> ChoiceWeight(R, w, h[c])]
           k == [c \in F |-> ChoiceWeight(M, w, c)]
<1>1. IsFiniteSet(R) /\ Weighted(R, V, w)
  BY FS_RemoveElement DEF Weighted
<1>2. IsFiniteSet(F) /\ IsFiniteSet(E)
  <2>1. IsFiniteSet(Selections(M, V)) /\ IsFiniteSet(Selections(R, V))
    BY <1>1, ChoicesFinite
  <2>2. F \in SUBSET Selections(M, V)
    OBVIOUS
  <2> QED
    BY <2>1, <2>2, FS_Subset
<1>3. ASSUME NEW c \in F
      PROVE  /\ h[c] \in E /\ c = [m \in M |-> c[m]] /\ c[a] = v
             /\ \A m \in R : h[c][m] = c[m]
  <2>1. c = [m \in M |-> c[m]] /\ \A m \in M : c[m] \in V[m]
    BY ChoiceFacts
  <2>2. h[c] = [m \in R |-> c[m]]
    OBVIOUS
  <2>3. [m \in R |-> c[m]] \in E
    BY <2>1 DEF Selections
  <2> QED
    BY <2>1, <2>2, <2>3
<1>4. Renames(h, F, E, E)
  <2>1. h \in [F -> E]
    BY <1>3
  <2>2. ASSUME NEW c \in F, NEW d \in F, h[c] = h[d] PROVE c = d
    <3>1. ASSUME NEW m \in M PROVE c[m] = d[m]
      <4>1. CASE m = a
        BY <1>3, <4>1
      <4>2. CASE m # a
        <5>1. m \in R
          BY <4>2
        <5> QED
          BY <1>3, <2>2, <5>1
      <4> QED
        BY <4>1, <4>2
    <3>2. c = [m \in M |-> c[m]] /\ d = [m \in M |-> d[m]]
      BY <1>3
    <3> QED
      BY <3>1, <3>2
  <2>3. ASSUME NEW e \in E PROVE \E c \in F : h[c] = e
    <3> DEFINE c == [m \in M |-> IF m = a THEN v ELSE e[m]]
    <3>1. e = [m \in R |-> e[m]] /\ \A m \in R : e[m] \in V[m]
      BY DEF Selections
    <3>2. c \in Selections(M, V)
      <4>1. \A m \in M : c[m] \in V[m]
        BY <3>1
      <4> QED
        BY <4>1 DEF Selections
    <3>3. c \in F
      BY <3>2
    <3>4. h[c] = [m \in R |-> c[m]]
      BY <3>3
    <3>5. \A m \in R : c[m] = e[m]
      OBVIOUS
    <3>6. h[c] = e
      BY <3>1, <3>4, <3>5
    <3> QED
      BY <3>3, <3>6
  <2> HIDE DEF h, E, F
  <2> QED
    BY <2>1, <2>2, <2>3 DEF Renames
<1>5. f \in [E -> Int] /\ g \in [F -> Int]
  <2>1. \A c \in E : ChoiceWeight(R, w, c) \in Int
    BY <1>1, ChoiceFacts
  <2>2. \A c \in F : ChoiceWeight(R, w, h[c]) \in Int
    BY <1>3, <2>1
  <2> HIDE DEF E, F, h
  <2> QED
    BY <2>1, <2>2
<1>6. SumFunction(g) = SumFunction(f)
  <2>1. \A c \in F : g[c] = f[h[c]]
    BY <1>3
  <2> HIDE DEF f, g, h, E, F
  <2> QED
    BY <1>2, <1>4, <1>5, <2>1, SumReindex
<1>7. k \in [F -> Int] /\ \A c \in F : k[c] = w[a][v] * g[c]
  <2> SUFFICES ASSUME NEW c \in F
               PROVE  ChoiceWeight(M, w, c) \in Int /\ k[c] = w[a][v] * g[c]
    OBVIOUS
  <2> DEFINE p == [m \in M |-> w[m][c[m]]]
             q == [m \in R |-> w[m][h[c][m]]]
  <2>1. p \in [M -> Int] /\ ChoiceWeight(M, w, c) \in Int /\ p[a] = w[a][v]
    BY <1>3, ChoiceFacts
  <2>2. [m \in R |-> p[m]] = q
    BY <1>3
  <2>3. ProductFunction(p) = p[a] * ProductFunction([m \in R |-> p[m]])
    <3> HIDE DEF p
    <3> QED
      BY <2>1, ProductWithout
  <2>4. ChoiceWeight(M, w, c) = ProductFunction(p) /\ g[c] = ProductFunction(q)
    BY DEF ChoiceWeight
  <2>5. k[c] = ChoiceWeight(M, w, c)
    OBVIOUS
  <2> HIDE DEF p, q, g, k
  <2> QED
    BY <2>1, <2>2, <2>3, <2>4, <2>5
<1>8. w[a][v] \in Int
  BY DEF Weighted
<1>9. SumFunction(k) = w[a][v] * SumFunction(g)
  <2> HIDE DEF f, g, h, E, F, k
  <2> QED
    BY <1>2, <1>5, <1>7, <1>8, SumScaledPoints
<1> HIDE DEF f, g
<1> QED
  BY <1>6, <1>9 DEF ChoiceSum, SliceSum, f

(* A product of sums is the sum, over the choices of a summand in each, of *)
(* the products.                                                           *)
THEOREM ProductOfSums ==
  ASSUME NEW M, IsFiniteSet(M), NEW V, NEW w, Weighted(M, V, w)
  PROVE  ProductFunction([m \in M |-> SumFunction(w[m])]) = ChoiceSum(M, V, w)
<1> DEFINE f == [m \in M |-> SumFunction(w[m])]
           good == {set \in SUBSET M : ProductIter(f)[set] = ChoiceSum(set, V, w)}
<1>0. \A set \in SUBSET M : IsFiniteSet(set) /\ Weighted(set, V, w)
  BY FS_Subset DEF Weighted
<1>1. f \in [M -> Int] /\ \A m \in M : f[m] = SumFunction(w[m])
  <2>1. \A m \in M : SumFunction(w[m]) \in Int
    BY SumInt DEF Weighted
  <2> QED
    BY <2>1
<1> HIDE DEF f
<1>2. {} \in good
  <2> DEFINE none == [m \in {} |-> {}]
             one == [c \in Selections({}, V) |-> ChoiceWeight({}, w, c)]
  <2>1. Selections({}, V) = {none}
    <3>1. none \in Selections({}, V)
      BY DEF Selections
    <3>2. \A c \in Selections({}, V) : c = none
      BY DEF Selections
    <3> QED
      BY <3>1, <3>2
  <2>2. ChoiceWeight({}, w, none) = 1
    <3>1. [m \in {} |-> w[m][none[m]]] \in [{} -> Int]
      OBVIOUS
    <3> QED
      BY <3>1, ProductOfNone DEF ChoiceWeight
  <2>3. one = Spike({none}, none, 1)
    BY <2>1, <2>2 DEF Spike
  <2>4. SumFunction(Spike({none}, none, 1)) = 1
    <3> HIDE DEF none
    <3>1. IsFiniteSet({none}) /\ none \in {none} /\ 1 \in Int
      BY FS_Singleton
    <3> QED
      BY <3>1, SumSpike
  <2>5. ChoiceSum({}, V, w) = SumFunction(one)
    BY DEF ChoiceSum
  <2>6. ProductIter(f)[{}] = 1
    BY <1>1, ProductFold
  <2> HIDE DEF one, none
  <2> QED
    BY <2>3, <2>4, <2>5, <2>6
<1>3. ASSUME NEW set \in SUBSET M, set # {}, set \ {First(set)} \in good
      PROVE  set \in good
  <2>1. PICK a \in set : a = First(set)
    BY <1>3, FirstInside
  <2> DEFINE rest == ChoiceSum(set \ {a}, V, w)
             all == Selections(set, V)
             g == [c \in all |-> ChoiceWeight(set, w, c)]
             h == [c \in all |-> c[a]]
             part(v) == SumFunction([c \in {d \in all : h[d] = v} |-> g[c]])
             parts == [v \in V[a] |-> part(v)]
  <2>2. ProductIter(f)[set] = f[a] * ProductIter(f)[set \ {a}]
    BY <1>1, ProductIterTakeOut
  <2>3. ProductIter(f)[set \ {a}] = rest
    BY <1>3, <2>1
  <2>4. IsFiniteSet(V[a]) /\ w[a] \in [V[a] -> Int] /\ IsFiniteSet(all)
    BY <1>0, ChoicesFinite DEF Weighted
  <2>5. g \in [all -> Int] /\ h \in [all -> V[a]]
    <3>1. \A c \in all : ChoiceWeight(set, w, c) \in Int /\ c[a] \in V[a]
      BY <1>0, ChoiceFacts
    <3> HIDE DEF all
    <3> QED
      BY <3>1
  <2>6. ASSUME NEW v \in V[a] PROVE part(v) = w[a][v] * rest
    <3>1. {d \in all : h[d] = v} = {d \in Selections(set, V) : d[a] = v}
      OBVIOUS
    <3>2. [c \in {d \in all : h[d] = v} |-> g[c]]
            = [c \in {d \in Selections(set, V) : d[a] = v} |-> ChoiceWeight(set, w, c)]
      BY <3>1
    <3>3. part(v) = SliceSum(set, V, w, a, v)
      BY <3>2 DEF SliceSum
    <3>4. IsFiniteSet(set) /\ Weighted(set, V, w)
      BY <1>0
    <3>5. \A W : IsFiniteSet(W) /\ Weighted(W, V, w) =>
            \A b \in W : \A x \in V[b] :
              SliceSum(W, V, w, b, x) = w[b][x] * ChoiceSum(W \ {b}, V, w)
      BY ChoiceStep
    <3> HIDE DEF g, h, all, part, good, parts
    <3>6. SliceSum(set, V, w, a, v) = w[a][v] * rest
      BY <3>4, <3>5
    <3> QED
      BY <3>3, <3>6
  <2>7. SumFunction(g) = SumFunction(parts)
    <3> HIDE DEF g, h, all
    <3> QED
      BY <2>4, <2>5, SumFibres
  <2>8. rest \in Int
    <3>1. ProductIter(f)[set \ {a}] \in Int
      BY <1>1, ProductIterTakeOut
    <3> QED
      BY <2>3, <3>1
  <2>9. \A v \in V[a] : parts[v] = rest * w[a][v] /\ parts[v] \in Int
    <3>1. \A v \in V[a] : parts[v] = part(v) /\ w[a][v] \in Int
      BY <2>4
    <3>2. \A x, y \in Int : x * y = y * x /\ x * y \in Int
      OBVIOUS
    <3> HIDE DEF parts, part, rest
    <3> QED
      BY <2>6, <2>8, <3>1, <3>2
  <2>10. parts \in [V[a] -> Int]
    BY <2>9
  <2>11. SumFunction(parts) = rest * SumFunction(w[a])
    <3> HIDE DEF parts, rest
    <3> QED
      BY <2>4, <2>8, <2>9, <2>10, SumScaledPoints
  <2>12. SumFunction(g) = ChoiceSum(set, V, w)
    BY DEF ChoiceSum
  <2>13. f[a] = SumFunction(w[a]) /\ f[a] \in Int
    BY <1>1
  <2>14. f[a] * rest = rest * f[a]
    BY <2>8, <2>13
  <2> HIDE DEF rest, g, parts
  <2> QED
    BY <2>2, <2>3, <2>7, <2>11, <2>12, <2>13, <2>14
<1>4. good \in SUBSET (SUBSET M)
  OBVIOUS
<1> HIDE DEF good
<1>5. good = SUBSET M
  BY <1>2, <1>3, <1>4, SubsetInduction
<1>6. ProductIter(f)[M] = ChoiceSum(M, V, w)
  BY <1>5 DEF good
<1>7. ProductFunction(f) = ProductIter(f)[M]
  BY <1>1, ProductFold
<1> QED
  BY <1>6, <1>7 DEF f
=============================================================================
