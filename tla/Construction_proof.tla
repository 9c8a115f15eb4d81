------------------------- MODULE Construction_proof -------------------------
(***************************************************************************)
(* The transition matrix that construction builds is the one of            *)
(* docs/dtmc_details.md, for every model.  The invariant says what the     *)
(* loops have accumulated: a product over the modules visited, a sum over  *)
(* the actions visited.  The rest is algebra of the finished matrix: a     *)
(* product of sums over commands is a sum over joint moves, and the rows   *)
(* of an enabled action sum to one.                                        *)
(***************************************************************************)
EXTENDS Construction, SumTheorems

-----------------------------------------------------------------------------
(* The layout.                                                             *)
LEMMA Modules ==
  /\ IsFiniteSet(Name)
  /\ Len(Module) \in Nat /\ DOMAIN Module = 1 .. Len(Module)
  /\ \A j \in 1 .. Len(Module) : Module[j] \in Name
<1>1. Len(Module) \in Nat /\ DOMAIN Module = 1 .. Len(Module) /\ Module \in [1 .. Len(Module) -> Name]
  BY Layout
<1>2. Module \in Surjection(1 .. Len(Module), Name)
  BY <1>1 DEF Surjection, Name
<1>3. IsFiniteSet(1 .. Len(Module))
  BY <1>1, FS_Interval
<1>4. IsFiniteSet(Name)
  BY <1>2, <1>3, FS_Surjection
<1> QED
  BY <1>1, <1>4

(* A power of two is above its exponent.                                   *)
LEMMA PowerOfTwo == \A n \in Nat : Power(2, n) \in Nat /\ n < Power(2, n)
<1> DEFINE good == {n \in Nat : Power(2, n) \in Nat /\ n < Power(2, n)}
<1>0. \A n \in Nat : /\ Power(2, 0) = 1 /\ Power(2, n) \in Int
                     /\ Power(2, n + 1) = 2 * Power(2, n)
  BY PowerNext
<1>1. 0 \in good
  BY <1>0
<1>2. \A n \in good : n + 1 \in good
  BY <1>0
<1> HIDE DEF good
<1>3. good = Nat
  <2>1. good \in SUBSET Nat
    BY DEF good
  <2> QED
    BY <1>1, <1>2, <2>1, SetInduction
<1> QED
  BY <1>3 DEF good

(* ilog2 of a number that is not zero.                                     *)
LEMMA Ilog2Exists ==
  ASSUME NEW n \in Nat, n # 0
  PROVE  /\ Ilog2(n) \in Nat
         /\ Power(2, Ilog2(n)) <= n /\ n < Power(2, Ilog2(n) + 1)
<1> DEFINE above == {b \in Nat : n < Power(2, b + 1)}
<1>1. n \in above
  <2>1. n + 1 < Power(2, n + 1) /\ Power(2, n + 1) \in Nat
    BY PowerOfTwo
  <2> QED
    BY <2>1
<1>2. PICK b \in above : \A c \in above : ~ (<<c, b>> \in OpToRel(<, Nat))
  BY <1>1, NatLessThanWellFounded, WFMin
<1>3. b \in Nat /\ \A c \in above : ~ (c < b)
  BY <1>2 DEF OpToRel
<1>4. Power(2, b) <= n
  <2>1. CASE b = 0
    BY <2>1, PowerNext
  <2>2. CASE b # 0
    <3>1. b - 1 \in Nat /\ b - 1 < b /\ (b - 1) + 1 = b
      BY <1>3, <2>2
    <3>2. ~ (n < Power(2, b))
      BY <1>3, <3>1
    <3> QED
      BY <1>3, <3>2, PowerOfTwo
  <2> QED
    BY <2>1, <2>2
<1>5. b \in 0 .. n
  BY <1>3, <1>4, PowerOfTwo
<1>6. \E c \in 0 .. n : Power(2, c) <= n /\ n < Power(2, c + 1)
  BY <1>2, <1>4, <1>5
<1> QED
  BY <1>6 DEF Ilog2

(* The bits of a variable decode to the declared values and fewer than as  *)
(* many others (allocate_dd_vars, get_variable_encoding).                  *)
THEOREM BitsSuffice ==
  ASSUME NEW x \in Var
  PROVE  /\ Lo[x] .. Hi[x] \subseteq Decoded(x)
         /\ Decoded(x) \subseteq Lo[x] .. Hi[x] + RangeSize(x) - 1
         /\ IsFiniteSet(Decoded(x))
<1> DEFINE n == RangeSize(x) - 1
           b == Ilog2(n)
<1>1. Lo[x] \in Int /\ Hi[x] \in Int /\ n = Hi[x] - Lo[x] /\ n \in Nat /\ n # 0
  BY Layout DEF RangeSize
<1> HIDE DEF n
<1>2. b \in Nat /\ Power(2, b) <= n /\ n < Power(2, b + 1)
  BY <1>1, Ilog2Exists
<1>3. NumBits(x) = b + 1
  BY DEF NumBits, n
<1> HIDE DEF b
<1>4. Power(2, b) \in Int /\ Power(2, b + 1) = 2 * Power(2, b)
  BY <1>2, PowerNext
<1>5. Decoded(x) = Lo[x] .. Lo[x] + 2 * Power(2, b) - 1
  BY <1>3, <1>4 DEF Decoded
<1>6. RangeSize(x) = n + 1
  BY <1>1 DEF RangeSize
<1>7. IsFiniteSet(Decoded(x))
  BY <1>1, <1>4, <1>5, FS_Interval
<1> HIDE DEF RangeSize
<1> DEFINE p == Power(2, b)
<1>8. p \in Int /\ p <= n /\ n < 2 * p
  BY <1>2, <1>4
<1>9. Decoded(x) = Lo[x] .. Lo[x] + 2 * p - 1
  BY <1>5
<1> HIDE DEF p
<1> QED
  BY <1>1, <1>6, <1>7, <1>8, <1>9

LEMMA States ==
  /\ IsFiniteSet(State)
  /\ \A s \in State : s \in [Var -> Int] /\ s = [x \in Var |-> s[x]]
                      /\ \A x \in Var : s[x] \in Decoded(x)
  /\ \A s \in [Var -> Int] : (\A x \in Var : s[x] \in Decoded(x)) => s \in State
<1> DEFINE ranges == {Decoded(x) : x \in Var}
           f == [x \in Var |-> Decoded(x)]
<1>1. \A x \in Var : IsFiniteSet(Decoded(x)) /\ Decoded(x) \subseteq Int
  BY BitsSuffice, Layout DEF Decoded
<1>2. IsFiniteSet(ranges)
  <2>1. f \in Surjection(Var, ranges)
    BY DEF Surjection
  <2> QED
    BY <2>1, FS_Surjection, Layout
<1>3. IsFiniteSet(UNION ranges)
  BY <1>1, <1>2, FS_UNION
<1>4. IsFiniteSet([Var -> UNION ranges])
  BY <1>3, FunctionsFinite, Layout
<1>5. State = {s \in [Var -> UNION ranges] : \A x \in Var : s[x] \in Decoded(x)}
  BY DEF State
<1>6. IsFiniteSet(State)
  BY <1>4, <1>5, FS_Subset
<1>7. \A s \in State : s \in [Var -> Int] /\ s = [x \in Var |-> s[x]]
                       /\ \A x \in Var : s[x] \in Decoded(x)
  BY <1>1, <1>5
<1>8. ASSUME NEW s \in [Var -> Int], \A x \in Var : s[x] \in Decoded(x) PROVE s \in State
  <2>1. s \in [Var -> UNION ranges]
    BY <1>8
  <2> QED
    BY <1>5, <1>8, <2>1
<1> QED
  BY <1>6, <1>7, <1>8
-----------------------------------------------------------------------------
(* What a module does in an action, and what modules and actions do        *)
(* together.                                                               *)
Factor(m, a, s, t) ==
    IF m \in modulesOf[a] THEN ModuleWeight(m, a, s, t) ELSE IdentityWeight(m, s, t)

ActionWeight(set, a, s, t) == ProductFunction([m \in set |-> Factor(m, a, s, t)])

ActionSum(set, s, t) == SumFunction([a \in set |-> ActionWeight(Name, a, s, t)])

(* Commands and updates are finitely many.                                 *)
LEMMA CommandsShape ==
  ASSUME TypeOK, NEW m \in Name
  PROVE  /\ IsFiniteSet(DOMAIN commands[m])
         /\ \A a : IsFiniteSet(CommandsOf(m, a)) /\ CommandsOf(m, a) \subseteq DOMAIN commands[m]
         /\ \A j \in DOMAIN commands[m] : commands[m][j] \in Command
<1>1. commands[m] \in Seq(Command)
  BY DEF TypeOK
<1> HIDE DEF Command
<1>2. /\ DOMAIN commands[m] = 1 .. Len(commands[m]) /\ Len(commands[m]) \in Nat
      /\ \A j \in DOMAIN commands[m] : commands[m][j] \in Command
  BY <1>1
<1>3. IsFiniteSet(DOMAIN commands[m])
  BY <1>2, FS_Interval
<1>4. \A a : CommandsOf(m, a) \in SUBSET (DOMAIN commands[m])
  BY DEF CommandsOf
<1> QED
  BY <1>2, <1>3, <1>4, FS_Subset

LEMMA UpdatesShape ==
  ASSUME NEW command \in Command
  PROVE  /\ IsFiniteSet(DOMAIN command.updates)
         /\ \A u \in DOMAIN command.updates : command.updates[u] \in Update
<1>1. command.updates \in Seq(Update)
  BY DEF Command
<1>2. /\ DOMAIN command.updates = 1 .. Len(command.updates) /\ Len(command.updates) \in Nat
      /\ \A u \in DOMAIN command.updates : command.updates[u] \in Update
  BY <1>1
<1> QED
  BY <1>2, FS_Interval

LEMMA CommandInt ==
  ASSUME NEW m, NEW command \in Command, NEW s, NEW t
  PROVE  CommandWeight(m, command, s, t) \in Int
<1> DEFINE f == [u \in DOMAIN command.updates |-> UpdateWeight(m, command.updates[u], s, t)]
<1>1. \A update \in Update : UpdateWeight(m, update, s, t) \in Int
  BY DEF Update, UpdateWeight
<1>2. f \in [DOMAIN command.updates -> Int]
  BY <1>1, UpdatesShape
<1> HIDE DEF f
<1>3. SumFunction(f) \in Int
  BY <1>2, UpdatesShape, SumInt
<1> QED
  BY <1>3 DEF CommandWeight, f

LEMMA ModuleInt ==
  ASSUME TypeOK, NEW m \in Name, NEW a, NEW s, NEW t
  PROVE  /\ ModuleWeight(m, a, s, t) \in Int
         /\ [j \in CommandsOf(m, a) |-> CommandWeight(m, commands[m][j], s, t)]
               \in [CommandsOf(m, a) -> Int]
<1> DEFINE f == [j \in CommandsOf(m, a) |-> CommandWeight(m, commands[m][j], s, t)]
<1>1. f \in [CommandsOf(m, a) -> Int]
  BY CommandsShape, CommandInt
<1> HIDE DEF f
<1>2. SumFunction(f) \in Int
  BY <1>1, CommandsShape, SumInt
<1> QED
  BY <1>1, <1>2 DEF ModuleWeight, f

LEMMA IdentityInt ==
  \A m, s, t : IdentityWeight(m, s, t) \in Int
  BY Layout DEF IdentityWeight

LEMMA FactorInt ==
  ASSUME TypeOK, NEW m \in Name, NEW a, NEW s, NEW t
  PROVE  Factor(m, a, s, t) \in Int
  BY ModuleInt, IdentityInt DEF Factor

LEMMA ActionInt ==
  ASSUME TypeOK, NEW set \in SUBSET Name, NEW a, NEW s, NEW t
  PROVE  /\ [m \in set |-> Factor(m, a, s, t)] \in [set -> Int]
         /\ IsFiniteSet(set)
         /\ ActionWeight(set, a, s, t) \in Int
<1> DEFINE f == [m \in set |-> Factor(m, a, s, t)]
<1>1. f \in [set -> Int]
  BY FactorInt
<1>2. IsFiniteSet(set)
  BY Modules, FS_Subset
<1> HIDE DEF f
<1>3. ProductFunction(f) \in Int
  BY <1>1, <1>2, ProductInt
<1> QED
  BY <1>1, <1>2, <1>3 DEF ActionWeight, f

-----------------------------------------------------------------------------
(* The inductive invariant.                                                *)
Labelling == pc \in {"label", "rejected"}

(* modules_of_act holds the modules with a command of the action.          *)
ModulesKnown ==
    /\ Labelling => transitions = Zero
    /\ ~ Labelling =>
           /\ IsFiniteSet(DOMAIN modulesOf)
           /\ \A a \in DOMAIN modulesOf : modulesOf[a] = {m \in Name : CommandsOf(m, a) # {}}

(* The modules the inner loop has been at, the actions the outer loop has  *)
(* added.                                                                  *)
Visited(n) == {Module[j] : j \in 1 .. n - 1}

Added == DOMAIN modulesOf \ (todo \union (IF pc = "modules" THEN {act} ELSE {}))

Accumulated ==
    /\ pc = "modules" =>
           /\ act \in DOMAIN modulesOf \ todo
           /\ \A s \in State, t \in State : actTrans[s][t] = ActionWeight(Visited(at), act, s, t)
    /\ ~ Labelling =>
           \A s \in State, t \in State : transitions[s][t] = ActionSum(Added, s, t)

RowSum(s) == SumFunction(transitions[s])

Normalised ==
    pc = "done" =>
        /\ todo = {}
        /\ \A s \in State :
              denom[s] = IF RowSum(s) * One > Eps * Scale THEN RowSum(s) ELSE Scale

IInv == TypeOK /\ ModulesKnown /\ Accumulated /\ Normalised

(* While the commands stay, so do the weights.                             *)
LEMMA VisitedKept ==
  ASSUME UNCHANGED <<commands, modulesOf>>, NEW s, NEW t
  PROVE  ActionWeight(Visited(at), act, s, t)' = ActionWeight(Visited(at'), act', s, t)
  BY DEF ActionWeight, Factor, ModuleWeight, IdentityWeight, CommandsOf, CommandWeight,
         UpdateWeight, LocalVars, SumFunction, SumFunctionOnSet, FoldFunctionOnSet,
         MapThenFoldSet, ProductFunction, FoldFunction, Visited

LEMMA AddedKept ==
  ASSUME UNCHANGED <<commands, modulesOf>>, NEW s, NEW t
  PROVE  ActionSum(Added, s, t)' = ActionSum(Added', s, t)
  BY DEF ActionSum, ActionWeight, Factor, ModuleWeight, IdentityWeight, CommandsOf, CommandWeight,
         UpdateWeight, LocalVars, SumFunction, SumFunctionOnSet, FoldFunctionOnSet,
         MapThenFoldSet, ProductFunction, FoldFunction

LEMMA ScaleNat == Scale \in Nat /\ Scale > 0
<1> DEFINE f == [m \in Name |-> One]
<1>0. One \in Int /\ One > 0
  BY Layout
<1>1. f \in [Name -> Int] /\ \A m \in Name : f[m] = One
  BY <1>0
<1>2. Scale = ProductFunction(f)
  BY DEF Scale
<1> HIDE DEF f
<1>3. ProductFunction(f) \in Int /\ ProductFunction(f) > 0
  BY <1>0, <1>1, Modules, ProductInt, ProductPositive
<1> QED
  BY <1>2, <1>3

LEMMA InitHolds == Init => IInv
<1> SUFFICES ASSUME Init PROVE IInv
  OBVIOUS
<1>1. commands \in [Name -> Seq(Command)]
  BY Models DEF Init
<1>2. Zero \in Matrix /\ Ones \in Matrix
  BY DEF Zero, Ones, Matrix
<1>3. denom \in [State -> Nat \ {0}]
  BY ScaleNat DEF Init
<1>4. 1 \in 1 .. Len(Module) + 1
  BY Modules
<1>5. TypeOK
  BY <1>1, <1>2, <1>3, <1>4 DEF Init, TypeOK
<1> QED
  BY <1>5 DEF Init, IInv, ModulesKnown, Accumulated, Normalised, Labelling

(* One module more, one action more.                                       *)
LEMMA OneModuleMore ==
  ASSUME TypeOK, at <= Len(Module), NEW a, NEW s, NEW t
  PROVE  ActionWeight(Visited(at + 1), a, s, t)
           = Factor(Module[at], a, s, t) * ActionWeight(Visited(at), a, s, t)
<1> DEFINE m == Module[at]
           D == Visited(at + 1)
           f == [k \in D |-> Factor(k, a, s, t)]
<1>1. at \in 1 .. Len(Module) /\ Len(Module) \in Nat
  BY Modules DEF TypeOK
<1>2. m \in D /\ D \ {m} = Visited(at) /\ D \in SUBSET Name
  <2>1. \A j \in 1 .. Len(Module) : Module[j] = m => j = at
    BY <1>1, Layout, Modules
  <2>2. (at + 1) - 1 = at
    BY <1>1
  <2>3. D = {Module[j] : j \in 1 .. at} /\ Visited(at) = {Module[j] : j \in 1 .. at - 1}
    BY <2>2 DEF Visited
  <2>4. m \in D
    BY <1>1, <2>3
  <2>5. \A j \in 1 .. at : j \in 1 .. Len(Module) /\ (j = at \/ j \in 1 .. at - 1)
    BY <1>1
  <2>6. \A j \in 1 .. at - 1 : j \in 1 .. Len(Module) /\ j # at /\ j \in 1 .. at
    BY <1>1
  <2>7. D \in SUBSET Name
    BY <2>3, <2>5, Modules
  <2>8. D \ {m} = Visited(at)
    BY <2>1, <2>3, <2>5, <2>6
  <2> QED
    BY <2>4, <2>7, <2>8
<1>3. f \in [D -> Int] /\ IsFiniteSet(D) /\ f[m] = Factor(m, a, s, t)
  <2>1. \A k \in D : Factor(k, a, s, t) \in Int
    BY <1>2, FactorInt
  <2>2. IsFiniteSet(D)
    BY <1>2, Modules, FS_Subset
  <2> HIDE DEF D, m
  <2> QED
    BY <1>2, <2>1, <2>2
<1>4. [k \in D \ {m} |-> f[k]] = [k \in Visited(at) |-> Factor(k, a, s, t)]
  BY <1>2
<1>5. ProductFunction(f) = f[m] * ProductFunction([k \in D \ {m} |-> f[k]])
  <2> HIDE DEF f, D, m
  <2>1. m \in D
    BY <1>2
  <2> QED
    BY <1>3, <2>1, ProductWithout
<1> HIDE DEF m
<1> QED
  BY <1>3, <1>4, <1>5 DEF ActionWeight, m

LEMMA OneActionMore ==
  ASSUME TypeOK, NEW set, IsFiniteSet(set), NEW a \in set, NEW s, NEW t
  PROVE  ActionSum(set, s, t) = ActionWeight(Name, a, s, t) + ActionSum(set \ {a}, s, t)
<1> DEFINE f == [b \in set |-> ActionWeight(Name, b, s, t)]
<1>1. f \in [set -> Int] /\ f[a] = ActionWeight(Name, a, s, t)
  BY ActionInt
<1>2. [b \in set \ {a} |-> f[b]] = [b \in set \ {a} |-> ActionWeight(Name, b, s, t)]
  OBVIOUS
<1> HIDE DEF f
<1>3. SumFunction(f) = f[a] + SumFunction([b \in set \ {a} |-> f[b]])
  BY <1>1, SumTakeOut
<1> QED
  BY <1>1, <1>2, <1>3 DEF ActionSum, f

LEMMA NoModule ==
  \A a, s, t : ActionWeight(Visited(1), a, s, t) = 1
<1> SUFFICES ASSUME NEW a, NEW s, NEW t PROVE ActionWeight(Visited(1), a, s, t) = 1
  OBVIOUS
<1>1. Visited(1) = {}
  BY DEF Visited
<1>2. [m \in Visited(1) |-> Factor(m, a, s, t)] \in [{} -> Int]
  BY <1>1
<1> QED
  BY <1>2, ProductOfNone DEF ActionWeight

(* The inner loop multiplies by the factor of the module.                  *)
LEMMA MultiplyKept ==
  ASSUME IInv, pc = "modules", at <= Len(Module), at' = at + 1,
         UNCHANGED <<pc, commands, modulesOf, todo, act, transitions, denom>>,
         actTrans' = [s \in State |-> [t \in State |->
                         actTrans[s][t] * Factor(Module[at], act, s, t)]]
  PROVE  IInv'
<1> USE DEF IInv
<1>1. at \in 1 .. Len(Module) /\ Module[at] \in Name
  BY Modules DEF TypeOK
<1>2. \A s \in State, t \in State :
         /\ actTrans[s][t] \in Int /\ Factor(Module[at], act, s, t) \in Int
         /\ actTrans[s][t] * Factor(Module[at], act, s, t) \in Int
  <2>1. \A s \in State, t \in State :
          actTrans[s][t] \in Int /\ Factor(Module[at], act, s, t) \in Int
    BY <1>1, FactorInt DEF TypeOK, Matrix
  <2> QED
    BY <2>1
<1>3. actTrans' \in Matrix
  BY <1>2 DEF Matrix
<1>4. TypeOK'
  <2>1. at' \in 1 .. Len(Module) + 1
    BY <1>1, Modules
  <2> QED
    BY <1>3, <2>1 DEF TypeOK
<1>5. \A s \in State, t \in State :
         actTrans'[s][t] = ActionWeight(Visited(at + 1), act, s, t)
  <2> SUFFICES ASSUME NEW s \in State, NEW t \in State
               PROVE  actTrans'[s][t] = ActionWeight(Visited(at + 1), act, s, t)
    OBVIOUS
  <2> DEFINE w == ActionWeight(Visited(at), act, s, t)
             f == Factor(Module[at], act, s, t)
  <2>1. actTrans[s][t] = w /\ w \in Int /\ f \in Int
    BY <1>2 DEF Accumulated
  <2>2. actTrans'[s][t] = actTrans[s][t] * f
    OBVIOUS
  <2>3. ActionWeight(Visited(at + 1), act, s, t) = f * w
    BY OneModuleMore
  <2> HIDE DEF f, w
  <2> QED
    BY <2>1, <2>2, <2>3
<1>6. Accumulated'
  <2>1. Added' = Added
    BY DEF Added
  <2>2. \A s \in State, t \in State :
           actTrans'[s][t] = ActionWeight(Visited(at), act, s, t)'
    BY <1>5, VisitedKept
  <2>3. \A s \in State, t \in State : transitions'[s][t] = ActionSum(Added, s, t)'
    BY <2>1, AddedKept DEF Accumulated, Labelling
  <2> QED
    BY <2>2, <2>3 DEF Accumulated, Labelling
<1>7. ModulesKnown' /\ Normalised'
  BY DEF ModulesKnown, Normalised, Labelling, CommandsOf
<1> QED
  BY <1>4, <1>6, <1>7

(* A command with the label that analysis gives it is a command.           *)
LEMMA LabelledType ==
  ASSUME TypeOK
  PROVE  Labelled \in [Name -> Seq(Command)]
<1>1. ASSUME NEW m \in Name PROVE Labelled[m] \in Seq(Command)
  <2> DEFINE given == commands[m]
             Relabelled(j) == IF given[j].label = NoLabel
                              THEN [given[j] EXCEPT !.label = Default[m]] ELSE given[j]
  <2>1. given \in Seq(Command)
    BY DEF TypeOK
  <2>2. DOMAIN given = 1 .. Len(given) /\ Len(given) \in Nat
    <3> HIDE DEF Command
    <3> QED
      BY <2>1
  <2>3. ASSUME NEW j \in 1 .. Len(given) PROVE Relabelled(j) \in Command
    <3>1. given[j] \in Command
      BY <2>2, CommandsShape
    <3>2. Default[m] \in Labels
      BY Layout
    <3>3. [given[j] EXCEPT !.label = Default[m]] \in Command
      BY <3>1, <3>2 DEF Command
    <3> QED
      BY <3>1, <3>3
  <2>4. Labelled[m] = [j \in 1 .. Len(given) |-> Relabelled(j)]
    BY <2>2 DEF Labelled
  <2> HIDE DEF Command, Relabelled, given
  <2>5. [j \in 1 .. Len(given) |-> Relabelled(j)] \in [1 .. Len(given) -> Command]
    BY <2>3
  <2> QED
    BY <2>2, <2>4, <2>5
<1>2. Labelled = [m \in Name |-> Labelled[m]]
  BY DEF Labelled
<1> QED
  BY <1>1, <1>2

(* Analysis labels the commands and finds the modules of every action.     *)
LEMMA LabelKept ==
  ASSUME IInv, Label
  PROVE  IInv'
<1> USE DEF IInv, Label
<1> DEFINE labelsOf == [m \in Name |-> {Labelled[m][j].label : j \in DOMAIN Labelled[m]}]
           actions == UNION {{Labelled[m][j].label : j \in DOMAIN Labelled[m]} : m \in Name}
<1>1. commands' \in [Name -> Seq(Command)] /\ commands' = Labelled
  BY LabelledType
<1>2. \A m \in Name :
         /\ DOMAIN Labelled[m] = 1 .. Len(Labelled[m]) /\ Len(Labelled[m]) \in Nat
         /\ \A j \in DOMAIN Labelled[m] : Labelled[m][j] \in Command
  <2> HIDE DEF Command
  <2> QED
    BY LabelledType
<1>3. IsFiniteSet(actions)
  <2>1. ASSUME NEW m \in Name PROVE IsFiniteSet(labelsOf[m])
    <3> DEFINE D == DOMAIN Labelled[m]
               f == [j \in D |-> Labelled[m][j].label]
    <3>1. IsFiniteSet(D)
      BY <1>2, FS_Interval
    <3>2. f \in Surjection(D, labelsOf[m])
      BY DEF Surjection
    <3> HIDE DEF f, D, labelsOf
    <3> QED
      BY <3>1, <3>2, FS_Surjection
  <2>2. labelsOf \in Surjection(Name, {labelsOf[m] : m \in Name})
    BY DEF Surjection
  <2>3. IsFiniteSet({labelsOf[m] : m \in Name})
    <3> HIDE DEF labelsOf
    <3> QED
      BY <2>2, Modules, FS_Surjection
  <2>4. actions = UNION {labelsOf[m] : m \in Name}
    OBVIOUS
  <2>5. \A T \in {labelsOf[m] : m \in Name} : IsFiniteSet(T)
    <3> HIDE DEF labelsOf
    <3> QED
      BY <2>1
  <2> HIDE DEF actions, labelsOf
  <2> QED
    BY <2>3, <2>4, <2>5, FS_UNION
<1>4. /\ modulesOf' = [a \in actions |-> {m \in Name : CommandsOf(m, a)' # {}}]
      /\ todo' = actions /\ pc' = "actions"
      /\ UNCHANGED <<act, at, actTrans, transitions, denom>>
  OBVIOUS
<1>5. \A a \in actions : {m \in Name : CommandsOf(m, a)' # {}} \in (SUBSET Name) \ {{}}
  <2> SUFFICES ASSUME NEW a \in actions PROVE \E m \in Name : CommandsOf(m, a)' # {}
    OBVIOUS
  <2>1. PICK m \in Name : \E j \in DOMAIN Labelled[m] : Labelled[m][j].label = a
    OBVIOUS
  <2>2. PICK j \in DOMAIN Labelled[m] : Labelled[m][j].label = a
    BY <2>1
  <2>3. j \in CommandsOf(m, a)'
    BY <1>1, <2>2 DEF CommandsOf
  <2> QED
    BY <2>3
<1>a. actions \subseteq Labels
  BY <1>2 DEF Command
<1> HIDE DEF actions, Label
<1>6. TypeOK'
  <2>1. /\ DOMAIN modulesOf' = actions
        /\ \A a \in actions : modulesOf'[a] \in (SUBSET Name) \ {{}}
    BY <1>4, <1>5
  <2>2. todo' \subseteq DOMAIN modulesOf' /\ DOMAIN modulesOf' \subseteq Labels
    BY <1>4, <1>a, <2>1
  <2>3. /\ act' \in Labels \union {NoLabel} /\ at' \in 1 .. Len(Module) + 1
        /\ actTrans' \in Matrix /\ transitions' \in Matrix
        /\ denom' \in [State -> Nat \ {0}]
    BY <1>4 DEF TypeOK
  <2> QED
    BY <1>1, <1>4, <2>1, <2>2, <2>3 DEF TypeOK
<1>7. ModulesKnown'
  BY <1>3, <1>4 DEF ModulesKnown, Labelling
<1>8. Accumulated'
  <2>1. Added' = {}
    BY <1>4 DEF Added
  <2>2. \A s \in State, t \in State : ActionSum(Added, s, t)' = 0
    <3> SUFFICES ASSUME NEW s \in State, NEW t \in State PROVE ActionSum(Added, s, t)' = 0
      OBVIOUS
    <3>1. [a \in Added |-> ActionWeight(Name, a, s, t)]' = [a \in {} |-> 0]
      BY <2>1
    <3>2. SumFunction([a \in {} |-> 0]) = 0
      BY FS_EmptySet, SumZero
    <3>3. ActionSum(Added, s, t)' = SumFunction([a \in {} |-> 0])
      BY <2>1 DEF ActionSum, SumFunction, SumFunctionOnSet, FoldFunctionOnSet, MapThenFoldSet
    <3> QED
      BY <3>2, <3>3
  <2>3. transitions' = Zero
    BY <1>4 DEF ModulesKnown, Labelling, Label
  <2> QED
    BY <1>4, <2>2, <2>3 DEF Accumulated, Labelling, Zero
<1>9. Normalised'
  BY <1>4 DEF Normalised
<1> QED
  BY <1>6, <1>7, <1>8, <1>9

(* The outer loop takes an action.                                         *)
LEMMA StartKept ==
  ASSUME IInv, StartAction
  PROVE  IInv'
<1> USE DEF IInv, StartAction
<1>1. PICK a \in todo : act' = a /\ todo' = todo \ {a}
  OBVIOUS
<1>2. Ones \in Matrix /\ \A s \in State, t \in State : Ones[s][t] = 1
  BY DEF Ones, Matrix
<1>3. TypeOK'
  <2>1. 1 \in 1 .. Len(Module) + 1
    BY Modules
  <2>2. a \in DOMAIN modulesOf /\ DOMAIN modulesOf \subseteq Labels
    BY DEF TypeOK
  <2> QED
    BY <1>1, <1>2, <2>1, <2>2 DEF TypeOK
<1>4. Accumulated'
  <2>1. Added' = Added
    BY <1>1 DEF Added, TypeOK
  <2>2. \A s \in State, t \in State : actTrans'[s][t] = ActionWeight(Visited(at), act, s, t)'
    BY <1>2, NoModule, VisitedKept
  <2>3. \A s \in State, t \in State : transitions'[s][t] = ActionSum(Added, s, t)'
    BY <2>1, AddedKept DEF Accumulated, Labelling
  <2>4. act' \in DOMAIN modulesOf' \ todo'
    BY <1>1 DEF TypeOK
  <2> QED
    BY <2>2, <2>3, <2>4 DEF Accumulated, Labelling
<1>5. ModulesKnown' /\ Normalised'
  BY DEF ModulesKnown, Normalised, Labelling, CommandsOf
<1> QED
  BY <1>3, <1>4, <1>5

(* The product of all modules is added.                                    *)
LEMMA AddKept ==
  ASSUME IInv, AddAction
  PROVE  IInv'
<1> USE DEF IInv, AddAction
<1>1. \A s \in State, t \in State : transitions[s][t] \in Int /\ actTrans[s][t] \in Int
  BY DEF TypeOK, Matrix
<1>2. TypeOK'
  <2>1. transitions' \in Matrix
    BY <1>1 DEF Matrix
  <2> QED
    BY <2>1 DEF TypeOK
<1>3. Visited(at) = Name
  <2>1. at = Len(Module) + 1
    BY Modules DEF TypeOK
  <2>2. at - 1 = Len(Module)
    BY <2>1, Modules
  <2> QED
    BY <2>2, Modules DEF Visited, Name
<1>4. IsFiniteSet(Added') /\ act \in Added' /\ Added' \ {act} = Added
  <2>1. Added' = DOMAIN modulesOf \ todo /\ Added = DOMAIN modulesOf \ (todo \union {act})
    BY DEF Added
  <2>2. IsFiniteSet(DOMAIN modulesOf \ todo)
    BY FS_Difference DEF ModulesKnown, Labelling
  <2> QED
    BY <2>1, <2>2 DEF Accumulated
<1>5. ASSUME NEW s \in State, NEW t \in State
      PROVE  transitions'[s][t] = ActionSum(Added, s, t)'
  <2>1. ActionSum(Added', s, t) = ActionWeight(Name, act, s, t) + ActionSum(Added' \ {act}, s, t)
    BY <1>4, OneActionMore
  <2>2. transitions[s][t] = ActionSum(Added, s, t) /\ actTrans[s][t] = ActionWeight(Name, act, s, t)
    BY <1>3 DEF Accumulated, Labelling
  <2>3. transitions'[s][t] = transitions[s][t] + actTrans[s][t]
    OBVIOUS
  <2>4. ActionSum(Added, s, t)' = ActionSum(Added', s, t)
    BY AddedKept
  <2>5. ActionSum(Added' \ {act}, s, t) = ActionSum(Added, s, t)
    BY <1>4
  <2> HIDE DEF AddAction
  <2> QED
    BY <1>1, <2>1, <2>2, <2>3, <2>4, <2>5
<1>6. ModulesKnown' /\ Normalised' /\ Accumulated'
  BY <1>5 DEF ModulesKnown, Normalised, Accumulated, Labelling, CommandsOf
<1> QED
  BY <1>2, <1>6

(* The rows are divided by their sums.                                     *)
LEMMA NormaliseKept ==
  ASSUME IInv, Normalise
  PROVE  IInv'
<1> USE DEF IInv, Normalise
<1>1. ASSUME NEW s \in State PROVE RowSum(s) \in Int
  BY States, SumInt DEF RowSum, TypeOK, Matrix
<1>2. ASSUME NEW s \in State, RowSum(s) * One > Eps * Scale PROVE RowSum(s) > 0
  <2>1. One \in Nat /\ Eps * Scale \in Int /\ Eps * Scale >= 0
    BY Layout, ScaleNat
  <2>2. RowSum(s) * One > 0
    <3> HIDE DEF RowSum
    <3> QED
      BY <1>1, <1>2, <2>1
  <2> QED
    BY <1>1, <2>1, <2>2
<1>3. \A s \in State :
         denom'[s] = IF RowSum(s) * One > Eps * Scale THEN RowSum(s) ELSE Scale
  BY DEF RowSum
<1>4. denom' = [s \in State |-> denom'[s]]
  OBVIOUS
<1>5. \A s \in State : denom'[s] \in Nat \ {0}
  BY <1>1, <1>2, <1>3, ScaleNat
<1>6. TypeOK'
  BY <1>4, <1>5 DEF TypeOK
<1>7. Normalised'
  BY <1>3 DEF Normalised, RowSum
<1>8. Accumulated'
  <2>1. Added' = Added
    BY DEF Added
  <2> QED
    BY <2>1, AddedKept DEF Accumulated, Labelling
<1>9. ModulesKnown'
  BY DEF ModulesKnown, Labelling, CommandsOf
<1> QED
  BY <1>6, <1>7, <1>8, <1>9

LEMMA StepKept == IInv /\ [Next]_vars => IInv'
<1> SUFFICES ASSUME IInv, [Next]_vars PROVE IInv'
  OBVIOUS
<1>1. CASE Reject
  BY <1>1 DEF Reject, IInv, TypeOK, ModulesKnown, Accumulated, Normalised, Labelling
<1>2. CASE Label
  BY <1>2, LabelKept
<1>3. CASE StartAction
  BY <1>3, StartKept
<1>4. CASE MultiplyCommands
  <2>1. actTrans' = [s \in State |-> [t \in State |->
                        actTrans[s][t] * Factor(Module[at], act, s, t)]]
    BY <1>4 DEF MultiplyCommands, Times, Factor
  <2> QED
    BY <1>4, <2>1, MultiplyKept DEF MultiplyCommands
<1>5. CASE MultiplyIdentity
  <2>1. actTrans' = [s \in State |-> [t \in State |->
                        actTrans[s][t] * Factor(Module[at], act, s, t)]]
    BY <1>5 DEF MultiplyIdentity, Times, Factor
  <2> QED
    BY <1>5, <2>1, MultiplyKept DEF MultiplyIdentity
<1>6. CASE AddAction
  BY <1>6, AddKept
<1>7. CASE Normalise
  BY <1>7, NormaliseKept
<1>8. CASE UNCHANGED vars
  <2>1. Added' = Added
    BY <1>8 DEF vars, Added
  <2>2. Accumulated'
    BY <1>8, <2>1, AddedKept, VisitedKept DEF vars, IInv, Accumulated, Labelling
  <2>3. TypeOK' /\ ModulesKnown' /\ Normalised'
    BY <1>8 DEF vars, IInv, TypeOK, ModulesKnown, Normalised, Labelling, CommandsOf, RowSum
  <2> QED
    BY <2>2, <2>3 DEF IInv
<1> QED
  BY <1>1, <1>2, <1>3, <1>4, <1>5, <1>6, <1>7, <1>8 DEF Next

LEMMA Inductive == Spec => []IInv
  BY InitHolds, StepKept, PTL DEF Spec
-----------------------------------------------------------------------------
(* The weight of an action is the weight of its joint moves.               *)
LEMMA MovesShape ==
  ASSUME TypeOK, NEW m \in Name, NEW a, NEW s
  PROVE  /\ IsFiniteSet(Moves(m, a, s))
         /\ \A v \in Moves(m, a, s) :
               /\ v = <<v[1], v[2]>>
               /\ v[1] \in Enabled(m, a, s) /\ v[1] \in CommandsOf(m, a)
               /\ v[2] \in DOMAIN commands[m][v[1]].updates
               /\ Taken(m, v) \in Update
         /\ \A j \in Enabled(m, a, s) : \A u \in DOMAIN commands[m][j].updates :
               <<j, u>> \in Moves(m, a, s)
<1> DEFINE D == Enabled(m, a, s)
           of == [j \in D |-> {<<j, u>> : u \in DOMAIN commands[m][j].updates}]
<1>1. IsFiniteSet(D) /\ \A j \in D : j \in CommandsOf(m, a) /\ commands[m][j] \in Command
  <2>1. D \in SUBSET CommandsOf(m, a)
    BY DEF Enabled
  <2>2. \A j \in CommandsOf(m, a) : commands[m][j] \in Command
    BY CommandsShape
  <2>3. IsFiniteSet(D)
    BY <2>1, CommandsShape, FS_Subset
  <2> HIDE DEF D
  <2> QED
    BY <2>1, <2>2, <2>3
<1>2. ASSUME NEW j \in D PROVE IsFiniteSet(of[j])
  <2> DEFINE U == DOMAIN commands[m][j].updates
             f == [u \in U |-> <<j, u>>]
  <2>1. IsFiniteSet(U)
    BY <1>1, UpdatesShape
  <2>2. f \in Surjection(U, of[j])
    BY DEF Surjection
  <2> HIDE DEF f, U, of
  <2> QED
    BY <2>1, <2>2, FS_Surjection
<1>3. IsFiniteSet({of[j] : j \in D})
  <2>1. of \in Surjection(D, {of[j] : j \in D})
    BY DEF Surjection
  <2> HIDE DEF of, D
  <2> QED
    BY <1>1, <2>1, FS_Surjection
<1>4. Moves(m, a, s) = UNION {of[j] : j \in D}
  BY DEF Moves
<1>5. IsFiniteSet(Moves(m, a, s))
  <2>1. \A T \in {of[j] : j \in D} : IsFiniteSet(T)
    <3> HIDE DEF of, D
    <3> QED
      BY <1>2
  <2> HIDE DEF of, D
  <2> QED
    BY <1>3, <1>4, <2>1, FS_UNION
<1>6. ASSUME NEW v \in Moves(m, a, s)
      PROVE  /\ v = <<v[1], v[2]>> /\ v[1] \in D
             /\ v[2] \in DOMAIN commands[m][v[1]].updates
  <2>1. PICK j \in D : \E u \in DOMAIN commands[m][j].updates : v = <<j, u>>
    BY DEF Moves
  <2> HIDE DEF D
  <2> QED
    BY <2>1
<1>7. ASSUME NEW v \in Moves(m, a, s) PROVE Taken(m, v) \in Update
  <2>1. commands[m][v[1]] \in Command /\ v[2] \in DOMAIN commands[m][v[1]].updates
    BY <1>1, <1>6
  <2> HIDE DEF D
  <2> QED
    BY <2>1, UpdatesShape DEF Taken
<1>8. \A j \in D : \A u \in DOMAIN commands[m][j].updates : <<j, u>> \in Moves(m, a, s)
  BY DEF Moves
<1> HIDE DEF of
<1> QED
  BY <1>1, <1>5, <1>6, <1>7, <1>8

(* The commands of a module, summed, are its moves, summed.                *)
LEMMA ModuleAsMoves ==
  ASSUME TypeOK, NEW m \in Name, NEW a, NEW s, NEW t
  PROVE  /\ [v \in Moves(m, a, s) |-> UpdateWeight(m, Taken(m, v), s, t)]
               \in [Moves(m, a, s) -> Int]
         /\ ModuleWeight(m, a, s, t)
              = SumFunction([v \in Moves(m, a, s) |-> UpdateWeight(m, Taken(m, v), s, t)])
<1> DEFINE D == Moves(m, a, s)
           E == CommandsOf(m, a)
           f == [v \in D |-> UpdateWeight(m, Taken(m, v), s, t)]
           h == [v \in D |-> v[1]]
           fibre(j) == {v \in D : h[v] = j}
           part(j) == [v \in fibre(j) |-> f[v]]
<1>0. \A update \in Update : UpdateWeight(m, update, s, t) \in Int
  BY DEF Update, UpdateWeight
<1>1. IsFiniteSet(D) /\ IsFiniteSet(E)
  BY MovesShape, CommandsShape
<1>2. f \in [D -> Int] /\ h \in [D -> E]
  BY <1>0, MovesShape
<1>3. ASSUME NEW j \in E
      PROVE  SumFunction(part(j)) = CommandWeight(m, commands[m][j], s, t)
  <2> DEFINE U == DOMAIN commands[m][j].updates
             g == [u \in U |-> UpdateWeight(m, commands[m][j].updates[u], s, t)]
             name == [u \in U |-> <<j, u>>]
  <2>1. CASE s \in commands[m][j].guard
    <3>1. j \in Enabled(m, a, s) /\ commands[m][j] \in Command
      BY <2>1, CommandsShape DEF Enabled
    <3>2. IsFiniteSet(U) /\ g \in [U -> Int]
      BY <1>0, <3>1, UpdatesShape
    <3>3. IsFiniteSet(fibre(j)) /\ part(j) \in [fibre(j) -> Int]
      <4>1. fibre(j) \in SUBSET D
        OBVIOUS
      <4>2. \A v \in fibre(j) : f[v] \in Int
        BY <1>2
      <4> HIDE DEF fibre, f, D
      <4> QED
        BY <1>1, <4>1, <4>2, FS_Subset
    <3>4. \A u \in U : name[u] \in fibre(j)
      <4>1. \A u \in U : <<j, u>> \in D
        BY <3>1, MovesShape
      <4> QED
        BY <4>1
    <3>5. ASSUME NEW v \in fibre(j) PROVE \E u \in U : name[u] = v
      <4>1. v = <<v[1], v[2]>> /\ v[1] = j /\ v[2] \in U
        BY MovesShape
      <4> QED
        BY <4>1
    <3>6. Renames(name, U, fibre(j), fibre(j))
      <4>1. name \in [U -> fibre(j)] /\ \A x, y \in U : name[x] = name[y] => x = y
        BY <3>4
      <4> HIDE DEF name, fibre, U
      <4> QED
        BY <3>5, <4>1 DEF Renames
    <3>7. \A u \in U : g[u] = part(j)[name[u]]
      <4>1. ASSUME NEW u \in U PROVE part(j)[<<j, u>>] = g[u]
        <5>1. <<j, u>> \in fibre(j) /\ Taken(m, <<j, u>>) = commands[m][j].updates[u]
          BY <3>4 DEF Taken
        <5> QED
          BY <5>1
      <4> QED
        BY <4>1
    <3> DEFINE p == part(j)
               F == fibre(j)
    <3>8. SumFunction(g) = SumFunction(p)
      <4>1. /\ IsFiniteSet(F) /\ p \in [F -> Int] /\ Renames(name, U, F, F)
            /\ \A u \in U : g[u] = p[name[u]]
        BY <3>3, <3>6, <3>7
      <4> HIDE DEF p, F, g, name, U
      <4> QED
        BY <3>2, <4>1, SumReindex
    <3>9. CommandWeight(m, commands[m][j], s, t) = SumFunction(g)
      BY <2>1 DEF CommandWeight
    <3> QED
      BY <3>8, <3>9
  <2>2. CASE s \notin commands[m][j].guard
    <3>1. fibre(j) = {}
      <4>1. j \notin Enabled(m, a, s)
        BY <2>2 DEF Enabled
      <4> QED
        BY <4>1, MovesShape
    <3>2. part(j) = [v \in {} |-> 0]
      BY <3>1
    <3>3. SumFunction([v \in {} |-> 0]) = 0
      BY FS_EmptySet, SumZero
    <3> HIDE DEF part
    <3> QED
      BY <2>2, <3>2, <3>3 DEF CommandWeight
  <2> QED
    BY <2>1, <2>2
<1>4. SumFunction(f) = SumFunction([j \in E |-> SumFunction(part(j))])
  <2> HIDE DEF D, E, f, h
  <2> QED
    BY <1>1, <1>2, SumFibres
<1>5. [j \in E |-> SumFunction(part(j))]
        = [j \in E |-> CommandWeight(m, commands[m][j], s, t)]
  <2> HIDE DEF part, E
  <2> QED
    BY <1>3
<1> HIDE DEF part, E
<1> QED
  BY <1>2, <1>4, <1>5 DEF ModuleWeight, E

(* The moves of the modules of an action with what they are worth: in the  *)
(* relation, and as probabilities.                                         *)
MoveSets(a, s) == [m \in modulesOf[a] |-> Moves(m, a, s)]

Relations(a, s, t) ==
    [m \in modulesOf[a] |-> [v \in Moves(m, a, s) |-> UpdateWeight(m, Taken(m, v), s, t)]]

Probabilities(a, s) ==
    [m \in modulesOf[a] |-> [v \in Moves(m, a, s) |-> Taken(m, v).prob]]

Others(a) == Name \ modulesOf[a]

Stay(a, s, t) == ProductFunction([m \in Others(a) |-> IdentityWeight(m, s, t)])

(* A joint move is a choice of a move for every module of the action.      *)
LEMMA JointsAreChoices ==
  ASSUME TypeOK, NEW a \in DOMAIN modulesOf, NEW s
  PROVE  /\ modulesOf[a] \in SUBSET Name /\ IsFiniteSet(modulesOf[a]) /\ modulesOf[a] # {}
         /\ IsFiniteSet(Others(a)) /\ Others(a) \in SUBSET Name
         /\ JointMoves(a, s) = Selections(modulesOf[a], MoveSets(a, s))
         /\ IsFiniteSet(JointMoves(a, s))
         /\ \A t : Weighted(modulesOf[a], MoveSets(a, s), Relations(a, s, t))
         /\ Weighted(modulesOf[a], MoveSets(a, s), Probabilities(a, s))
<1> DEFINE M == modulesOf[a]
<1>1. M \in SUBSET Name /\ M # {}
  BY DEF TypeOK
<1>2. IsFiniteSet(M) /\ IsFiniteSet(Others(a)) /\ Others(a) \in SUBSET Name
  BY <1>1, Modules, FS_Subset, FS_Difference DEF Others
<1>3. \A m \in M : MoveSets(a, s)[m] = Moves(m, a, s) /\ IsFiniteSet(Moves(m, a, s))
  BY <1>1, MovesShape DEF MoveSets
<1>4. ASSUME NEW t PROVE Weighted(M, MoveSets(a, s), Relations(a, s, t))
  <2>1. \A m \in M : Relations(a, s, t)[m] \in [Moves(m, a, s) -> Int]
    BY <1>1, ModuleAsMoves DEF Relations
  <2> HIDE DEF M
  <2> QED
    BY <1>3, <2>1 DEF Weighted
<1>5. Weighted(M, MoveSets(a, s), Probabilities(a, s))
  <2>1. \A m \in M : \A v \in Moves(m, a, s) : Taken(m, v).prob \in Int
    BY <1>1, MovesShape DEF Update
  <2>2. \A m \in M : Probabilities(a, s)[m] \in [Moves(m, a, s) -> Int]
    BY <2>1 DEF Probabilities
  <2> HIDE DEF M
  <2> QED
    BY <1>3, <2>2 DEF Weighted
<1>6. JointMoves(a, s) = Selections(M, MoveSets(a, s))
  <2>1. {Moves(m, a, s) : m \in M} = {MoveSets(a, s)[m] : m \in M}
    BY <1>3
  <2> QED
    BY <1>3, <2>1 DEF JointMoves, Selections
<1>7. IsFiniteSet(Selections(M, MoveSets(a, s)))
  <2> HIDE DEF M
  <2> QED
    BY <1>2, <1>5, ChoicesFinite
<1> HIDE DEF M
<1> QED
  BY <1>1, <1>2, <1>4, <1>5, <1>6, <1>7 DEF M

LEMMA IdentityProduct ==
  ASSUME TypeOK, NEW a \in DOMAIN modulesOf, NEW s, NEW t
  PROVE  /\ [m \in Others(a) |-> IdentityWeight(m, s, t)] \in [Others(a) -> Int]
         /\ Stay(a, s, t) \in Int
<1> DEFINE f == [m \in Others(a) |-> IdentityWeight(m, s, t)]
<1>1. f \in [Others(a) -> Int] /\ IsFiniteSet(Others(a))
  BY IdentityInt, JointsAreChoices
<1> HIDE DEF f
<1>2. ProductFunction(f) \in Int
  BY <1>1, ProductInt
<1> QED
  BY <1>1, <1>2 DEF f, Stay

(* The product of the modules, multiplied out.                             *)
LEMMA MultipliedOut ==
  ASSUME TypeOK, NEW a \in DOMAIN modulesOf, NEW s, NEW t
  PROVE  ActionWeight(Name, a, s, t)
           = Stay(a, s, t) * ChoiceSum(modulesOf[a], MoveSets(a, s), Relations(a, s, t))
<1> DEFINE M == modulesOf[a]
           f == [m \in Name |-> Factor(m, a, s, t)]
<1>1. M \in SUBSET Name /\ IsFiniteSet(M) /\ Weighted(M, MoveSets(a, s), Relations(a, s, t))
  BY JointsAreChoices
<1>2. f \in [Name -> Int]
  <2>1. \A m \in Name : Factor(m, a, s, t) \in Int
    BY FactorInt
  <2> QED
    BY <2>1
<1>3. [m \in M |-> f[m]] = [m \in M |-> SumFunction(Relations(a, s, t)[m])]
  <2>1. \A m \in M : f[m] = SumFunction(Relations(a, s, t)[m])
    BY <1>1, ModuleAsMoves DEF Factor, Relations
  <2> HIDE DEF f, M
  <2> QED
    BY <2>1
<1>4. [m \in Name \ M |-> f[m]] = [m \in Others(a) |-> IdentityWeight(m, s, t)]
  BY DEF Factor, Others
<1>5. ProductFunction(f) = ProductFunction([m \in M |-> f[m]]) * ProductFunction([m \in Name \ M |-> f[m]])
  <2> HIDE DEF f, M
  <2> QED
    BY <1>1, <1>2, Modules, ProductSplit
<1>6. ProductFunction([m \in M |-> SumFunction(Relations(a, s, t)[m])])
        = ChoiceSum(M, MoveSets(a, s), Relations(a, s, t))
  <2> HIDE DEF M
  <2> QED
    BY <1>1, ProductOfSums
<1>7. ActionWeight(Name, a, s, t)
        = ChoiceSum(M, MoveSets(a, s), Relations(a, s, t)) * Stay(a, s, t)
  BY <1>3, <1>4, <1>5, <1>6 DEF ActionWeight, Stay
<1>8. ProductFunction([m \in M |-> f[m]]) \in Int /\ Stay(a, s, t) \in Int
  <2>1. [m \in M |-> f[m]] \in [M -> Int]
    BY <1>1, <1>2
  <2> HIDE DEF f, M
  <2> QED
    BY <1>1, <2>1, ProductInt, IdentityProduct
<1>9. ChoiceSum(M, MoveSets(a, s), Relations(a, s, t)) \in Int
  BY <1>3, <1>6, <1>8
<1> HIDE DEF M
<1> QED
  BY <1>7, <1>8, <1>9 DEF M

(* The updates of the moves of an action assign to their own module.       *)
OwnMoves(a, s) ==
    \A m \in modulesOf[a] : \A v \in Moves(m, a, s) : Taken(m, v).assigned \subseteq LocalVars(m)

(* A joint move contributes its weight to its target and to no other.      *)
LEMMA JointContribution ==
  ASSUME TypeOK, NEW a \in DOMAIN modulesOf, NEW s \in State, NEW t \in State,
         OwnMoves(a, s), NEW joint \in JointMoves(a, s)
  PROVE  /\ ChoiceWeight(modulesOf[a], Relations(a, s, t), joint) \in Int
         /\ Stay(a, s, t) * ChoiceWeight(modulesOf[a], Relations(a, s, t), joint)
              = IF Target(a, joint, s) = t THEN JointWeight(a, joint) ELSE 0
<1> DEFINE M == modulesOf[a]
           w(m) == UpdateWeight(m, Taken(m, joint[m]), s, t)
           f == [m \in M |-> w(m)]
           g == [m \in Others(a) |-> IdentityWeight(m, s, t)]
<1>0. M \in SUBSET Name /\ IsFiniteSet(M) /\ IsFiniteSet(Others(a))
  BY JointsAreChoices
<1>1. \A m \in M : joint[m] \in Moves(m, a, s) /\ Taken(m, joint[m]).assigned \subseteq LocalVars(m)
  BY DEF JointMoves, OwnMoves
<1>2. [m \in M |-> Relations(a, s, t)[m][joint[m]]] = f
  BY <1>1 DEF Relations
<1>3. f \in [M -> Int]
  <2>1. \A m \in M : w(m) \in Int
    <3>1. \A m \in M : Taken(m, joint[m]) \in Update
      BY <1>0, <1>1, MovesShape
    <3> QED
      BY <3>1 DEF Update, UpdateWeight
  <2> HIDE DEF w, M
  <2> QED
    BY <2>1
<1>4. g \in [Others(a) -> Int] /\ Stay(a, s, t) = ProductFunction(g) /\ ProductFunction(g) \in Int
  BY IdentityProduct DEF Stay
<1>5. /\ ChoiceWeight(M, Relations(a, s, t), joint) = ProductFunction(f)
      /\ ProductFunction(f) \in Int
  <2>1. ProductFunction(f) \in Int
    <3> HIDE DEF f, M
    <3> QED
      BY <1>0, <1>3, ProductInt
  <2> QED
    BY <1>2, <2>1 DEF ChoiceWeight
<1>6. \A m \in Name : m \in M \/ m \in Others(a)
  BY DEF Others
<1>7. \A m \in M : m \notin Others(a)
  BY DEF Others
<1>8. t = [x \in Var |-> t[x]]
  BY States
<1>9. CASE Target(a, joint, s) = t
  <2>1. ASSUME NEW m \in M PROVE w(m) = Taken(m, joint[m]).prob
    <3>1. \A x \in Taken(m, joint[m]).assigned : t[x] = Taken(m, joint[m]).value[x][s]
      BY <1>1, <1>9 DEF Target, LocalVars
    <3>2. \A x \in LocalVars(m) \ Taken(m, joint[m]).assigned : t[x] = s[x]
      BY <1>9 DEF Target, LocalVars
    <3> QED
      BY <3>1, <3>2 DEF UpdateWeight
  <2>2. ASSUME NEW m \in Others(a) PROVE IdentityWeight(m, s, t) = One
    <3>1. \A x \in LocalVars(m) : t[x] = s[x]
      BY <1>9, <1>7 DEF Target, LocalVars
    <3> QED
      BY <3>1 DEF IdentityWeight
  <2>3. f = [m \in M |-> Taken(m, joint[m]).prob]
    <3> HIDE DEF w, M
    <3> QED
      BY <2>1
  <2>4. g = [m \in Name \ M |-> One]
    BY <2>2 DEF Others
  <2>5. JointWeight(a, joint) = ProductFunction(f) * ProductFunction(g)
    BY <2>3, <2>4 DEF JointWeight
  <2> HIDE DEF f, g
  <2> QED
    BY <1>4, <1>5, <1>9, <2>5
<1>10. CASE Target(a, joint, s) # t
  <2>1. PICK x \in Var : Target(a, joint, s)[x] # t[x]
    <3>1. Target(a, joint, s) = [x \in Var |-> Target(a, joint, s)[x]]
      BY DEF Target
    <3> QED
      BY <1>8, <1>10, <3>1
  <2> DEFINE m == Owner[x]
  <2>2. m \in Name /\ x \in LocalVars(m)
    BY Layout DEF LocalVars
  <2>3. CASE m \in M
    <3>1. w(m) = 0
      <4>1. CASE x \in Taken(m, joint[m]).assigned
        <5>1. Target(a, joint, s)[x] = Taken(m, joint[m]).value[x][s]
          BY <2>3, <4>1 DEF Target
        <5> QED
          BY <2>1, <4>1, <5>1 DEF UpdateWeight
      <4>2. CASE x \notin Taken(m, joint[m]).assigned
        <5>1. Target(a, joint, s)[x] = s[x]
          BY <4>2 DEF Target
        <5> QED
          BY <2>1, <2>2, <4>2, <5>1 DEF UpdateWeight
      <4> QED
        BY <4>1, <4>2
    <3>2. f[m] = 0
      BY <2>3, <3>1
    <3>3. ProductFunction(f) = 0
      <4> HIDE DEF f, M, m
      <4> QED
        BY <1>0, <1>3, <2>3, <3>2, ProductZero
    <3> HIDE DEF f, g
    <3> QED
      BY <1>4, <1>5, <1>10, <3>3
  <2>4. CASE m \in Others(a)
    <3>1. m \notin M
      BY <1>7, <2>4
    <3>2. g[m] = 0
      <4>1. Target(a, joint, s)[x] = s[x]
        BY <3>1 DEF Target
      <4>2. IdentityWeight(m, s, t) = 0
        BY <2>1, <2>2, <4>1 DEF IdentityWeight
      <4> QED
        BY <2>4, <4>2
    <3>3. ProductFunction(g) = 0
      <4> HIDE DEF g, m
      <4> QED
        BY <1>0, <1>4, <2>4, <3>2, ProductZero
    <3> HIDE DEF f, g
    <3> QED
      BY <1>4, <1>5, <1>10, <3>3
  <2> QED
    BY <1>6, <2>2, <2>3, <2>4
<1> HIDE DEF M
<1> QED
  BY <1>5, <1>9, <1>10 DEF M

(* The weight of a joint move, for probabilities that are probabilities.   *)
LEMMA JointWeightFacts ==
  ASSUME TypeOK, NEW a \in DOMAIN modulesOf, NEW s, NEW joint \in JointMoves(a, s)
  PROVE  /\ JointWeight(a, joint) \in Int
         /\ (\A m \in modulesOf[a] : Taken(m, joint[m]).prob >= 0) =>
               /\ JointWeight(a, joint) >= 0
               /\ JointWeight(a, joint) > 0
                    <=> \A m \in modulesOf[a] : Taken(m, joint[m]).prob > 0
<1> DEFINE M == modulesOf[a]
           p == [m \in M |-> Taken(m, joint[m]).prob]
           q == [m \in Others(a) |-> One]
<1>1. M \in SUBSET Name /\ IsFiniteSet(M) /\ IsFiniteSet(Others(a))
  BY JointsAreChoices
<1>2. \A m \in M : p[m] \in Int
  <2>1. \A m \in M : joint[m] \in Moves(m, a, s)
    BY DEF JointMoves
  <2> QED
    BY <1>1, <2>1, MovesShape DEF Update
<1>3. p \in [M -> Int] /\ q \in [Others(a) -> Int] /\ \A m \in Others(a) : q[m] > 0 /\ q[m] >= 0
  BY <1>2, Layout
<1>4. JointWeight(a, joint) = ProductFunction(p) * ProductFunction(q)
  BY DEF JointWeight, Others
<1>5. \A m \in M : p[m] = Taken(m, joint[m]).prob
  OBVIOUS
<1> HIDE DEF p, q, M
<1>6. ProductFunction(p) \in Int /\ ProductFunction(q) \in Int /\ ProductFunction(q) > 0
  BY <1>1, <1>3, ProductInt, ProductPositive
<1>7. (\A m \in M : p[m] >= 0) =>
         ProductFunction(p) >= 0 /\ (ProductFunction(p) > 0 <=> \A m \in M : p[m] > 0)
  BY <1>1, <1>3, ProductPositive
<1> DEFINE x == ProductFunction(p)
           y == ProductFunction(q)
<1>8. x \in Int /\ y \in Int /\ y > 0
  BY <1>6
<1>9. x * y \in Int /\ (x >= 0 => x * y >= 0 /\ (x * y > 0 <=> x > 0))
  <2> HIDE DEF x, y
  <2> QED
    BY <1>8
<1> QED
  BY <1>4, <1>5, <1>7, <1>9 DEF M

(* The relation of an action is the weight of the joint moves between the  *)
(* two states.                                                             *)
LEMMA ActionIsMoves ==
  ASSUME TypeOK, NEW a \in DOMAIN modulesOf, NEW s \in State, NEW t \in State, OwnMoves(a, s)
  PROVE  ActionWeight(Name, a, s, t) = MoveWeight(a, s, t)
<1> DEFINE D == JointMoves(a, s)
           M == modulesOf[a]
           S == {joint \in D : Target(a, joint, s) = t}
           f == [joint \in D |-> ChoiceWeight(M, Relations(a, s, t), joint)]
           j == [joint \in D |-> JointWeight(a, joint)]
           g == [joint \in D |-> IF joint \in S THEN j[joint] ELSE 0]
           c == Stay(a, s, t)
<1>1. IsFiniteSet(D) /\ ChoiceSum(M, MoveSets(a, s), Relations(a, s, t)) = SumFunction(f)
  BY JointsAreChoices DEF ChoiceSum
<1>2. \A joint \in D : f[joint] \in Int /\ g[joint] = c * f[joint]
  BY JointContribution
<1>3. f \in [D -> Int] /\ c \in Int
  BY <1>2, IdentityProduct
<1>4. j \in [D -> Int]
  BY JointWeightFacts
<1>5. g \in [D -> Int]
  BY <1>4
<1>6. SumFunction(g) = c * SumFunction(f)
  <2> HIDE DEF g, f, D, c
  <2> QED
    BY <1>1, <1>2, <1>3, <1>5, SumScaledPoints
<1>7. SumFunction(g) = SumFunction([joint \in S |-> j[joint]])
  <2>1. S \in SUBSET D
    OBVIOUS
  <2> HIDE DEF j, D, S
  <2> QED
    BY <1>1, <1>4, <2>1, SumWhere
<1>8. SumFunction([joint \in S |-> j[joint]]) = MoveWeight(a, s, t)
  BY DEF MoveWeight
<1>9. ActionWeight(Name, a, s, t) = c * SumFunction(f)
  BY <1>1, MultipliedOut
<1> HIDE DEF g, f, j, S, D
<1> QED
  BY <1>6, <1>7, <1>8, <1>9

-----------------------------------------------------------------------------
(* Every step keeps the types: the matrix stays one of whole numbers over  *)
(* the bits of the variables, every action has a module, and no row is     *)
(* divided by zero (unif of src/src/dd_manager/dd.rs).                     *)
THEOREM TypeCorrect == Spec => []TypeOK
  BY Inductive, PTL DEF IInv

(* The finished matrix, when every update keeps to its module.             *)
LEMMA FinishedMatrix ==
  ASSUME IInv, Built, NEW s \in State, NEW t \in State,
         \A a \in DOMAIN modulesOf : OwnMoves(a, s)
  PROVE  /\ IsFiniteSet(DOMAIN modulesOf)
         /\ [a \in DOMAIN modulesOf |-> MoveWeight(a, s, t)] \in [DOMAIN modulesOf -> Int]
         /\ transitions[s][t] = SumFunction([a \in DOMAIN modulesOf |-> MoveWeight(a, s, t)])
<1> USE DEF IInv, Built
<1>1. Added = DOMAIN modulesOf /\ IsFiniteSet(DOMAIN modulesOf)
  BY DEF Added, Normalised, ModulesKnown, Labelling
<1>2. transitions[s][t] = ActionSum(Added, s, t)
  BY DEF Accumulated, Labelling
<1>3. \A a \in DOMAIN modulesOf : ActionWeight(Name, a, s, t) = MoveWeight(a, s, t)
  BY ActionIsMoves
<1>4. [a \in DOMAIN modulesOf |-> ActionWeight(Name, a, s, t)]
        = [a \in DOMAIN modulesOf |-> MoveWeight(a, s, t)]
  BY <1>3
<1>5. [a \in DOMAIN modulesOf |-> ActionWeight(Name, a, s, t)] \in [DOMAIN modulesOf -> Int]
  <2>1. \A a \in DOMAIN modulesOf : ActionWeight(Name, a, s, t) \in Int
    <3>1. Name \in SUBSET Name /\ TypeOK
      OBVIOUS
    <3> QED
      BY <3>1, ActionInt
  <2> QED
    BY <2>1
<1> QED
  BY <1>1, <1>2, <1>4, <1>5 DEF ActionSum

(* No transition is lost and none is made up.                              *)
(* An entry is not below zero, and above it where some joint move leads.   *)
LEMMA EntryMeaning ==
  ASSUME IInv, Built, Proper, NEW s \in State, NEW t \in State
  PROVE  /\ transitions[s][t] >= 0
         /\ transitions[s][t] > 0
              <=> \E a \in DOMAIN modulesOf : \E joint \in JointMoves(a, s) :
                     /\ Target(a, joint, s) = t
                     /\ \A m \in modulesOf[a] : Taken(m, joint[m]).prob > 0
<1> DEFINE A == DOMAIN modulesOf
           w == [a \in A |-> MoveWeight(a, s, t)]
           To(a) == {joint \in JointMoves(a, s) : Target(a, joint, s) = t}
<1>0. TypeOK
  BY DEF IInv
<1>1. ASSUME NEW a \in A, NEW m \in modulesOf[a], NEW v \in Moves(m, a, s)
      PROVE  Taken(m, v).prob >= 0 /\ Taken(m, v).assigned \subseteq LocalVars(m)
  <2>1. m \in Name
    BY <1>0, JointsAreChoices
  <2>2. v[1] \in DOMAIN commands[m] /\ v[2] \in DOMAIN commands[m][v[1]].updates
    BY <1>0, <2>1, MovesShape, CommandsShape
  <2> QED
    BY <2>1, <2>2 DEF Proper, Taken
<1>2. /\ IsFiniteSet(A) /\ w \in [A -> Int] /\ transitions[s][t] = SumFunction(w)
  BY <1>1, FinishedMatrix DEF OwnMoves
<1>3. ASSUME NEW a \in A
      PROVE  /\ w[a] >= 0
             /\ w[a] > 0 <=> \E joint \in To(a) :
                               \A m \in modulesOf[a] : Taken(m, joint[m]).prob > 0
  <2> DEFINE f == [joint \in To(a) |-> JointWeight(a, joint)]
             D == To(a)
  <2>1. IsFiniteSet(D)
    BY <1>0, JointsAreChoices, FS_Subset
  <2>2. \A joint \in D : \A m \in modulesOf[a] : Taken(m, joint[m]).prob >= 0
    BY <1>1 DEF JointMoves
  <2>3. \A joint \in D :
           /\ f[joint] \in Int /\ f[joint] >= 0
           /\ f[joint] > 0 <=> \A m \in modulesOf[a] : Taken(m, joint[m]).prob > 0
    BY <1>0, <2>2, JointWeightFacts
  <2>4. f \in [D -> Int]
    BY <2>3
  <2>5. w[a] = SumFunction(f)
    BY DEF MoveWeight
  <2>6. SumFunction(f) >= 0 /\ (SumFunction(f) > 0 <=> \E joint \in D : f[joint] > 0)
    <3> HIDE DEF f, D
    <3> QED
      BY <2>1, <2>3, <2>4, SumPositive, SumNonnegative
  <2> HIDE DEF f, w
  <2> QED
    BY <2>3, <2>5, <2>6
<1>4. SumFunction(w) >= 0 /\ (SumFunction(w) > 0 <=> \E a \in A : w[a] > 0)
  <2> HIDE DEF w, A
  <2> QED
    BY <1>2, <1>3, SumPositive, SumNonnegative
<1> HIDE DEF w
<1> QED
  BY <1>2, <1>3, <1>4

LEMMA SupportHolds == IInv => SupportExact
  BY EntryMeaning DEF SupportExact

(* The finished matrix has a positive entry exactly where some joint move  *)
(* leads, for models of any size and for any number of enabled commands    *)
(* (src/src/constr_symbolic.rs, translate_dtmc).                           *)
THEOREM Support == Spec => []SupportExact
  BY Inductive, SupportHolds, PTL

-----------------------------------------------------------------------------
(* The rows of a well-formed model.  The probabilities of the moves of a   *)
(* module in an action are those of its one enabled command.               *)
LEMMA ModuleSumsToOne ==
  ASSUME TypeOK, WellFormed, NEW a \in DOMAIN modulesOf, NEW m \in modulesOf[a], NEW s \in Declared,
         Enabled(m, a, s) # {}
  PROVE  SumFunction(Probabilities(a, s)[m]) = One
<1>1. m \in Name
  BY JointsAreChoices
<1>2. PICK j : Enabled(m, a, s) = {j}
  <2>1. IsFiniteSet(Enabled(m, a, s))
    <3>1. Enabled(m, a, s) \in SUBSET CommandsOf(m, a)
      BY DEF Enabled
    <3> QED
      BY <1>1, <3>1, CommandsShape, FS_Subset
  <2>2. Cardinality(Enabled(m, a, s)) <= 1
    BY <1>1 DEF WellFormed
  <2>3. Cardinality(Enabled(m, a, s)) = 1
    BY <2>1, <2>2, FS_CardinalityType, FS_EmptySet
  <2> QED
    BY <2>1, <2>3, FS_Singleton
<1> DEFINE updates == commands[m][j].updates
           U == DOMAIN updates
           V == Moves(m, a, s)
           f == [u \in U |-> updates[u].prob]
           g == [v \in V |-> Taken(m, v).prob]
           h == [u \in U |-> <<j, u>>]
<1>3. commands[m][j] \in Command
  <2>1. j \in CommandsOf(m, a)
    BY <1>2 DEF Enabled
  <2> QED
    BY <1>1, <2>1, CommandsShape
<1>4. IsFiniteSet(U) /\ f \in [U -> Int]
  BY <1>3, UpdatesShape DEF Update
<1>5. IsFiniteSet(V) /\ g \in [V -> Int]
  <2>1. \A v \in V : Taken(m, v).prob \in Int
    BY <1>1, MovesShape DEF Update
  <2> QED
    BY <1>1, <2>1, MovesShape
<1>6. SumFunction(f) = One
  BY <1>1, <1>2 DEF WellFormed
<1>7. \A u \in U : <<j, u>> \in V /\ Taken(m, <<j, u>>) = updates[u]
  BY <1>1, <1>2, MovesShape DEF Taken
<1>8. \A v \in V : v = <<j, v[2]>> /\ v[2] \in U
  BY <1>1, <1>2, MovesShape
<1>9. Renames(h, U, V, V)
  <2>1. h \in [U -> V] /\ \A x, y \in U : h[x] = h[y] => x = y
    BY <1>7
  <2>2. \A v \in V : \E u \in U : h[u] = v
    BY <1>8
  <2> HIDE DEF h, U, V
  <2> QED
    BY <2>1, <2>2 DEF Renames
<1>10. \A u \in U : f[u] = g[h[u]]
  BY <1>7
<1>11. Probabilities(a, s)[m] = g
  BY DEF Probabilities
<1> HIDE DEF f, g, h, U, V
<1>12. SumFunction(f) = SumFunction(g)
  BY <1>4, <1>5, <1>9, <1>10, SumReindex
<1> QED
  BY <1>6, <1>11, <1>12

(* The joint moves of an enabled action sum to one.                        *)
LEMMA JointsSumToOne ==
  ASSUME TypeOK, WellFormed, NEW s \in Declared, NEW a \in EnabledActions(s)
  PROVE  SumFunction([joint \in JointMoves(a, s) |-> JointWeight(a, joint)]) = Scale
<1> DEFINE M == modulesOf[a]
           D == JointMoves(a, s)
           P == Probabilities(a, s)
           one == [m \in Name |-> One]
           q == [m \in Others(a) |-> One]
           c == ProductFunction(q)
           f == [joint \in D |-> ChoiceWeight(M, P, joint)]
           g == [joint \in D |-> JointWeight(a, joint)]
<1>0. a \in DOMAIN modulesOf /\ \A m \in M : Enabled(m, a, s) # {}
  BY DEF EnabledActions
<1>1. /\ M \in SUBSET Name /\ IsFiniteSet(M) /\ IsFiniteSet(D) /\ IsFiniteSet(Others(a))
      /\ D = Selections(M, MoveSets(a, s)) /\ Weighted(M, MoveSets(a, s), P)
  BY <1>0, JointsAreChoices
<1>2. q \in [Others(a) -> Int] /\ c \in Int
  <2>1. q \in [Others(a) -> Int]
    BY Layout
  <2> HIDE DEF q
  <2> QED
    BY <1>1, <2>1, ProductInt
<1>3. f \in [D -> Int]
  <2>1. \A joint \in D : ChoiceWeight(M, P, joint) \in Int
    <3> HIDE DEF M, D, P
    <3> QED
      BY <1>1, ChoiceFacts
  <2> QED
    BY <2>1
<1>4. g \in [D -> Int]
  BY <1>0, JointWeightFacts
<1>5. ASSUME NEW joint \in D PROVE g[joint] = c * f[joint]
  <2>1. \A m \in M : joint[m] \in Moves(m, a, s)
    BY DEF JointMoves
  <2>2. [m \in M |-> P[m][joint[m]]] = [m \in M |-> Taken(m, joint[m]).prob]
    BY <2>1 DEF Probabilities
  <2>3. f[joint] = ProductFunction([m \in M |-> Taken(m, joint[m]).prob])
    BY <2>2 DEF ChoiceWeight
  <2>4. g[joint] = f[joint] * c
    BY <2>3 DEF JointWeight, Others
  <2>5. f[joint] \in Int
    BY <1>3
  <2> HIDE DEF f, g, c
  <2> QED
    BY <1>2, <2>4, <2>5
<1>6. SumFunction(g) = c * SumFunction(f)
  <2> HIDE DEF f, g, c, D
  <2> QED
    BY <1>1, <1>2, <1>3, <1>4, <1>5, SumScaledPoints
<1>7. SumFunction(f) = ProductFunction([m \in M |-> SumFunction(P[m])])
  <2>1. SumFunction(f) = ChoiceSum(M, MoveSets(a, s), P)
    BY <1>1 DEF ChoiceSum
  <2> HIDE DEF f, M, P, D
  <2> QED
    BY <1>1, <2>1, ProductOfSums
<1>8. [m \in M |-> SumFunction(P[m])] = [m \in M |-> one[m]]
  <2>1. \A m \in M : SumFunction(P[m]) = One /\ one[m] = One
    BY <1>0, <1>1, ModuleSumsToOne
  <2> HIDE DEF M, P, one
  <2> QED
    BY <2>1
<1>9. one \in [Name -> Int] /\ [m \in Name \ M |-> one[m]] = q
  BY Layout DEF Others
<1>10. Scale = ProductFunction([m \in M |-> one[m]]) * c
  <2>1. ProductFunction(one) = Scale
    BY DEF Scale
  <2>2. IsFiniteSet(Name)
    BY Modules
  <2> HIDE DEF one, M, q
  <2>3. ProductFunction(one)
        = ProductFunction([m \in M |-> one[m]]) * ProductFunction([m \in Name \ M |-> one[m]])
    BY <1>1, <1>9, <2>2, ProductSplit
  <2> QED
    BY <1>9, <2>1, <2>3
<1>11. SumFunction(f) \in Int
  <2> HIDE DEF f, D
  <2> QED
    BY <1>1, <1>3, SumInt
<1> HIDE DEF f, c, M
<1> QED
  BY <1>2, <1>6, <1>7, <1>8, <1>10, <1>11 DEF M

(* What a move assigns in a well-formed model.                             *)
LEMMA OwnAndWithin ==
  ASSUME TypeOK, WellFormed, NEW a \in DOMAIN modulesOf, NEW m \in modulesOf[a],
         NEW s \in Declared, NEW v \in Moves(m, a, s), NEW x \in Taken(m, v).assigned
  PROVE  Owner[x] = m /\ Taken(m, v).value[x][s] \in Lo[x] .. Hi[x]
<1> DEFINE j == v[1]
           u == v[2]
<1>1. m \in Name
  BY JointsAreChoices
<1>2. j \in Enabled(m, a, s) /\ u \in DOMAIN commands[m][j].updates
  BY <1>1, MovesShape
<1>3. Taken(m, v) = commands[m][j].updates[u]
  BY DEF Taken
<1>4. x \in commands[m][j].updates[u].assigned
  BY <1>3
<1> HIDE DEF j, u
<1>5. Owner[x] = m /\ commands[m][j].updates[u].value[x][s] \in Lo[x] .. Hi[x]
  BY <1>1, <1>2, <1>4 DEF WellFormed
<1> QED
  BY <1>3, <1>5

(* A joint move stays inside the bits of the variables.                    *)
LEMMA TargetInState ==
  ASSUME TypeOK, WellFormed, NEW s \in Declared, NEW a \in DOMAIN modulesOf,
         NEW joint \in JointMoves(a, s)
  PROVE  Target(a, joint, s) \in State
<1>1. s \in State
  BY DEF Declared
<1>2. ASSUME NEW x \in Var PROVE Target(a, joint, s)[x] \in Decoded(x)
  <2> DEFINE m == Owner[x]
  <2>1. CASE m \in modulesOf[a] /\ x \in Taken(m, joint[m]).assigned
    <3>1. joint[m] \in Moves(m, a, s)
      BY <2>1 DEF JointMoves
    <3>2. Taken(m, joint[m]).value[x][s] \in Lo[x] .. Hi[x]
      BY <2>1, <3>1, OwnAndWithin
    <3> QED
      BY <2>1, <3>2, BitsSuffice DEF Target
  <2>2. CASE ~ (m \in modulesOf[a] /\ x \in Taken(m, joint[m]).assigned)
    BY <1>1, <2>2, States DEF Target
  <2> QED
    BY <2>1, <2>2
<1>3. \A x \in Var : Decoded(x) \subseteq Int
  BY Layout DEF Decoded
<1>4. Target(a, joint, s) \in [Var -> Int]
  <2>1. Target(a, joint, s) = [x \in Var |-> Target(a, joint, s)[x]]
    BY DEF Target
  <2> QED
    BY <1>2, <1>3, <2>1
<1> QED
  BY <1>2, <1>4, States

(* What an action adds to a row: one if it is enabled, else nothing.       *)
LEMMA RowOfAction ==
  ASSUME TypeOK, WellFormed, NEW s \in Declared, NEW a \in DOMAIN modulesOf
  PROVE  /\ [t \in State |-> MoveWeight(a, s, t)] \in [State -> Int]
         /\ a \notin EnabledActions(s) => \A t : MoveWeight(a, s, t) = 0
         /\ SumFunction([t \in State |-> MoveWeight(a, s, t)])
              = IF a \in EnabledActions(s) THEN Scale ELSE 0
<1> DEFINE D == JointMoves(a, s)
           j == [joint \in D |-> JointWeight(a, joint)]
           h == [joint \in D |-> Target(a, joint, s)]
           row == [t \in State |-> MoveWeight(a, s, t)]
<1>1. IsFiniteSet(D) /\ IsFiniteSet(State)
  BY JointsAreChoices, States
<1>2. j \in [D -> Int] /\ h \in [D -> State]
  BY JointWeightFacts, TargetInState
<1>3. \A t \in State : MoveWeight(a, s, t) = SumFunction([x \in {y \in D : h[y] = t} |-> j[x]])
  <2> TAKE t \in State
  <2>1. {y \in D : h[y] = t} = {joint \in JointMoves(a, s) : Target(a, joint, s) = t}
    OBVIOUS
  <2>2. [x \in {y \in D : h[y] = t} |-> j[x]]
          = [joint \in {joint \in JointMoves(a, s) : Target(a, joint, s) = t} |-> JointWeight(a, joint)]
    OBVIOUS
  <2> HIDE DEF j, h, D
  <2> QED
    BY <2>1, <2>2 DEF MoveWeight
<1>4. row \in [State -> Int]
  <2>1. ASSUME NEW t \in State PROVE MoveWeight(a, s, t) \in Int
    <3> DEFINE F == {y \in D : h[y] = t}
               part == [x \in F |-> j[x]]
    <3>1. F \in SUBSET D
      OBVIOUS
    <3>2. part \in [F -> Int]
      BY <1>2
    <3>3. IsFiniteSet(F)
      BY <1>1, <3>1, FS_Subset
    <3>4. MoveWeight(a, s, t) = SumFunction(part)
      BY <1>3
    <3> HIDE DEF part, F
    <3> QED
      BY <3>2, <3>3, <3>4, SumInt
  <2> QED
    BY <2>1
<1>5. SumFunction(j) = SumFunction(row)
  <2>1. SumFunction(j) = SumFunction([t \in State |-> SumFunction([x \in {y \in D : h[y] = t} |-> j[x]])])
    <3> HIDE DEF j, h, D
    <3> QED
      BY <1>1, <1>2, SumFibres
  <2>2. [t \in State |-> SumFunction([x \in {y \in D : h[y] = t} |-> j[x]])] = row
    <3> HIDE DEF j, h, D
    <3> QED
      BY <1>3
  <2> QED
    BY <2>1, <2>2
<1>6. CASE a \in EnabledActions(s)
  <2>1. SumFunction(j) = Scale
    BY <1>6, JointsSumToOne
  <2> QED
    BY <1>4, <1>5, <1>6, <2>1
<1>7. CASE a \notin EnabledActions(s)
  <2>1. PICK m \in modulesOf[a] : Enabled(m, a, s) = {}
    BY <1>7 DEF EnabledActions
  <2>2. D = {}
    <3>1. m \in Name
      BY JointsAreChoices
    <3>2. \A joint \in D : joint[m] \in Moves(m, a, s)
      BY <2>1 DEF JointMoves
    <3>3. Moves(m, a, s) = {}
      BY <2>1, <3>1, MovesShape
    <3> QED
      BY <3>2, <3>3
  <2>3. \A t : MoveWeight(a, s, t) = 0
    <3> TAKE t
    <3>1. [joint \in {joint \in JointMoves(a, s) : Target(a, joint, s) = t} |-> JointWeight(a, joint)]
            = [joint \in {} |-> 0]
      BY <2>2
    <3>2. SumFunction([joint \in {} |-> 0]) = 0
      BY FS_EmptySet, SumZero
    <3> QED
      BY <3>1, <3>2 DEF MoveWeight
  <2>4. row = [t \in State |-> 0]
    BY <2>3
  <2>5. SumFunction([t \in State |-> 0]) = 0
    BY <1>1, SumZero
  <2> QED
    BY <1>4, <1>7, <2>3, <2>4, <2>5
<1> QED
  BY <1>6, <1>7

(* A row of the matrix: the enabled actions, each with one in all.         *)
LEMMA RowOfMatrix ==
  ASSUME IInv, Built, WellFormed, NEW s \in Declared
  PROVE  /\ IsFiniteSet(EnabledActions(s))
         /\ RowSum(s) = Cardinality(EnabledActions(s)) * Scale
         /\ \A t \in State : /\ transitions[s][t] \in Int
                             /\ transitions[s][t] =
                                  SumFunction([a \in EnabledActions(s) |-> MoveWeight(a, s, t)])
<1> DEFINE A == DOMAIN modulesOf
           E == EnabledActions(s)
           w == [t \in State |-> [a \in A |-> MoveWeight(a, s, t)]]
           total == [a \in A |-> SumFunction([t \in State |-> w[t][a]])]
           scales == [a \in A |-> Scale]
<1>0. TypeOK /\ s \in State /\ E \in SUBSET A
  BY DEF IInv, Declared, EnabledActions
<1>1. ASSUME NEW a \in A PROVE OwnMoves(a, s)
  <2> SUFFICES ASSUME NEW m \in modulesOf[a], NEW v \in Moves(m, a, s)
               PROVE  Taken(m, v).assigned \subseteq LocalVars(m)
    BY DEF OwnMoves
  <2>1. m \in Name
    BY <1>0, JointsAreChoices
  <2>2. Taken(m, v) \in Update
    BY <1>0, <2>1, MovesShape
  <2>3. Taken(m, v).assigned \subseteq Var
    BY <2>2 DEF Update
  <2>4. \A x \in Taken(m, v).assigned : Owner[x] = m
    BY <1>0, OwnAndWithin
  <2> QED
    BY <2>3, <2>4 DEF LocalVars
<1>2. ASSUME NEW t \in State
      PROVE  /\ IsFiniteSet(A) /\ w[t] \in [A -> Int] /\ transitions[s][t] = SumFunction(w[t])
  BY <1>0, <1>1, FinishedMatrix
<1>3. State # {}
  BY <1>0
<1>4. IsFiniteSet(A) /\ IsFiniteSet(E)
  BY <1>0, <1>2, <1>3, FS_Subset
<1>5. \A t \in State : \A a \in A : w[t][a] \in Int
  BY <1>2
<1>6. SumFunction(RowTotals(State, A, w)) = SumFunction(ColumnTotals(State, A, w))
  <2>1. IsFiniteSet(State) /\ IsFiniteSet(A) /\ \A t \in State : \A a \in A : w[t][a] \in Int
    BY <1>4, <1>5, States
  <2> HIDE DEF w, A, E, total, scales
  <2> QED
    BY <2>1, SumExchange
<1>7. transitions[s] = [t \in State |-> SumFunction([a \in A |-> w[t][a]])]
  <2>1. transitions[s] = [t \in State |-> transitions[s][t]]
    BY <1>0 DEF TypeOK, Matrix
  <2>2. \A t \in State : [a \in A |-> w[t][a]] = w[t]
    BY <1>2
  <2>3. \A t \in State : transitions[s][t] = SumFunction([a \in A |-> w[t][a]])
    BY <1>2, <2>2
  <2> HIDE DEF w, A
  <2> QED
    BY <2>1, <2>3
<1>8. total = [a \in A |-> IF a \in E THEN scales[a] ELSE 0]
  <2>1. ASSUME NEW a \in A PROVE total[a] = IF a \in E THEN Scale ELSE 0
    <3>1. [t \in State |-> w[t][a]] = [t \in State |-> MoveWeight(a, s, t)]
      OBVIOUS
    <3>2. total[a] = SumFunction([t \in State |-> MoveWeight(a, s, t)])
      BY <3>1
    <3> HIDE DEF total
    <3> QED
      BY <1>0, <3>2, RowOfAction
  <2>2. total = [a \in A |-> total[a]]
    OBVIOUS
  <2> HIDE DEF total, E, A
  <2> QED
    BY <2>1, <2>2
<1>9. SumFunction(total) = SumFunction([a \in E |-> scales[a]])
  <2>1. scales \in [A -> Int]
    BY ScaleNat
  <2> HIDE DEF scales, total, E, A
  <2> QED
    BY <1>0, <1>4, <1>8, <2>1, SumWhere
<1>10. SumFunction([a \in E |-> scales[a]]) = Cardinality(E) * Scale
  <2>1. [a \in E |-> scales[a]] = [a \in E |-> Scale]
    BY <1>0
  <2>2. SumFunction([a \in E |-> Scale]) = Cardinality(E) * Scale
    <3> DEFINE c == Scale
    <3>1. c \in Int /\ IsFiniteSet(E)
      BY <1>4, ScaleNat
    <3> HIDE DEF c, E
    <3>2. SumFunction([a \in E |-> c]) = Cardinality(E) * c
      BY <3>1, SumCount
    <3> QED
      BY <3>2 DEF c
  <2> QED
    BY <2>1, <2>2
<1>11. RowSum(s) = Cardinality(E) * Scale
  <2>1. RowSum(s) = SumFunction(total)
    BY <1>6, <1>7 DEF RowSum, RowTotals, ColumnTotals
  <2> HIDE DEF total
  <2> QED
    BY <1>9, <1>10, <2>1
<1>12. ASSUME NEW t \in State
       PROVE  /\ transitions[s][t] \in Int
              /\ transitions[s][t] = SumFunction([a \in E |-> MoveWeight(a, s, t)])
  <2>1. w[t] = [a \in A |-> IF a \in E THEN w[t][a] ELSE 0]
    <3>1. \A a \in A : a \notin E => w[t][a] = 0
      BY <1>0, RowOfAction
    <3> HIDE DEF E
    <3> QED
      BY <3>1
  <2>2. SumFunction([a \in A |-> IF a \in E THEN w[t][a] ELSE 0]) = SumFunction([a \in E |-> w[t][a]])
    <3> DEFINE f == w[t]
    <3>1. f \in [A -> Int]
      BY <1>2
    <3> HIDE DEF f, E, A
    <3>2. SumFunction([a \in A |-> IF a \in E THEN f[a] ELSE 0]) = SumFunction([a \in E |-> f[a]])
      BY <1>0, <1>4, <3>1, SumWhere
    <3> QED
      BY <3>2 DEF f
  <2>3. [a \in E |-> w[t][a]] = [a \in E |-> MoveWeight(a, s, t)]
    BY <1>0
  <2>4. transitions[s][t] \in Int
    BY <1>0 DEF TypeOK, Matrix
  <2> HIDE DEF w, E, A
  <2> QED
    BY <1>2, <2>1, <2>2, <2>3, <2>4
<1> QED
  BY <1>4, <1>11, <1>12

LEMMA UniformHolds == IInv => UniformChoice
<1> SUFFICES ASSUME IInv, Built, WellFormed, NEW s \in Declared, NEW t \in State
             PROVE  transitions[s][t] * Cardinality(EnabledActions(s)) * Scale
                      = denom[s] * SumFunction([a \in EnabledActions(s) |-> MoveWeight(a, s, t)])
  BY DEF UniformChoice
<1> DEFINE E == EnabledActions(s)
           n == Cardinality(E)
           p == transitions[s][t]
           moved == SumFunction([a \in E |-> MoveWeight(a, s, t)])
<1>1. IsFiniteSet(E) /\ RowSum(s) = n * Scale /\ p \in Int /\ p = moved
  BY RowOfMatrix
<1>2. denom[s] = IF RowSum(s) * One > Eps * Scale THEN RowSum(s) ELSE Scale
  BY DEF IInv, Normalised, Built, Declared
<1>3. n \in Nat /\ (n = 0 => E = {})
  <2> HIDE DEF E
  <2> QED
    BY <1>1, FS_CardinalityType, FS_EmptySet
<1>4. CASE n = 0
  <2>1. [a \in E |-> MoveWeight(a, s, t)] = [a \in {} |-> 0]
    BY <1>3, <1>4
  <2>2. SumFunction([a \in {} |-> 0]) = 0
    BY FS_EmptySet, SumZero
  <2>3. moved = 0
    BY <2>1, <2>2
  <2>4. denom[s] \in Int
    BY DEF IInv, TypeOK, Declared
  <2> HIDE DEF moved, p, n
  <2> QED
    BY <1>1, <1>4, <2>3, <2>4, ScaleNat DEF moved, p, n
<1>5. CASE n # 0
  <2>1. (n * Scale) * One > Eps * Scale
    <3> DEFINE c == Scale
    <3>1. c \in Nat /\ c > 0 /\ One \in Nat /\ Eps \in Nat /\ Eps < One /\ n \in Nat /\ n >= 1
      BY <1>3, <1>5, ScaleNat, Layout
    <3> HIDE DEF c, n
    <3>2. n * c >= c /\ n * c \in Nat
      BY <3>1
    <3>3. (n * c) * One >= c * One
      BY <3>1, <3>2
    <3>4. c * One > c * Eps
      BY <3>1
    <3> QED
      BY <3>1, <3>2, <3>3, <3>4 DEF c
  <2>2. denom[s] = n * Scale
    BY <1>1, <1>2, <2>1
  <2> HIDE DEF moved, p, n
  <2>3. p * n * Scale = (n * Scale) * moved
    BY <1>1, <1>3, ScaleNat
  <2> QED
    BY <2>2, <2>3 DEF moved, p, n
<1> QED
  BY <1>4, <1>5

(* In a well-formed model every row is the uniform choice of an enabled    *)
(* action and then of its joint moves, whatever the threshold of unif as   *)
(* long as it is below one: the rows of the enabled actions sum to one     *)
(* each, so that a row that is not empty is never below it.                *)
THEOREM Uniform == Spec => []UniformChoice
  BY Inductive, UniformHolds, PTL

-----------------------------------------------------------------------------
(* What reachability analysis is given.  The entries are fractions with    *)
(* the divisors of unif as denominators; in a unit that all of them divide *)
(* they are whole again, and the threshold is counted in the same unit.    *)
CommonUnit(unit) == \A s \in State : \E q \in Nat : q * denom[s] = unit

Divided(unit) ==
    [s \in State |-> [t \in State |-> One * transitions[s][t] * (unit \div denom[s])]]

SearchFrom(unit, initial) == INSTANCE Reachability WITH
    One <- One * unit, Eps <- Eps * unit, pc <- "start", init <- initial,
    transitions <- Divided(unit), transRel <- {}, reachable <- {}, iterations <- 0,
    transitions01 <- {}

(* A row has so few successors that one of them is above the threshold:    *)
(* with the EPS of dd_manager.rs, fewer than 10^10.                        *)
Sparse == \A s \in State : Cardinality({t \in State : transitions[s][t] > 0}) * Eps < One

LEMMA ExactQuotient ==
  ASSUME NEW q \in Nat, NEW d \in Nat \ {0}
  PROVE  (q * d) \div d = q
  OBVIOUS

LEMMA ProductCompare ==
  ASSUME NEW a \in Int, NEW b \in Int, NEW q \in Nat
  PROVE  /\ a <= b => a * q <= b * q
         /\ a < b /\ q > 0 => a * q < b * q
  OBVIOUS

(* A common unit of the divisors of a finite matrix is their product.      *)
THEOREM CommonUnitExists == Spec => [](\E unit \in Nat \ {0} : CommonUnit(unit))
<1>1. ASSUME IInv PROVE \E unit \in Nat \ {0} : CommonUnit(unit)
  <2> DEFINE unit == ProductFunction(denom)
  <2>1. /\ IsFiniteSet(State) /\ denom \in [State -> Int] /\ \A s \in State : denom[s] > 0
        /\ \A s \in State : denom[s] \in Nat
    BY <1>1, States DEF IInv, TypeOK
  <2>2. unit \in Nat \ {0}
    BY <2>1, ProductInt, ProductPositive
  <2>3. ASSUME NEW s \in State PROVE \E q \in Nat : q * denom[s] = unit
    <3> DEFINE rest == [x \in State \ {s} |-> denom[x]]
               q == ProductFunction(rest)
    <3>1. /\ IsFiniteSet(State \ {s}) /\ rest \in [State \ {s} -> Int]
          /\ \A x \in State \ {s} : rest[x] >= 0
      BY <2>1, FS_RemoveElement
    <3>2. q \in Int /\ q >= 0
      <4> HIDE DEF rest
      <4> QED
        BY <3>1, ProductInt, ProductPositive
    <3>3. unit = denom[s] * q
      BY <2>1, ProductWithout
    <3>4. q \in Nat /\ denom[s] \in Nat
      BY <2>1, <3>2
    <3> HIDE DEF q, unit
    <3>5. q * denom[s] = unit
      BY <3>3, <3>4
    <3> QED
      BY <3>4, <3>5
  <2> HIDE DEF unit
  <2> QED
    BY <2>2, <2>3 DEF CommonUnit
<1> QED
  BY <1>1, Inductive, PTL

(* A row as unif leaves it, in a common unit. *)
LEMMA DividedRow ==
  ASSUME IInv, Built, Proper, NEW unit \in Nat \ {0}, CommonUnit(unit), NEW s \in State
  PROVE  \E q \in Nat \ {0} :
           /\ q * denom[s] = unit
           /\ Divided(unit)[s] = [t \in State |-> (One * q) * transitions[s][t]]
           /\ SumFunction(Divided(unit)[s]) = (One * q) * RowSum(s)
           /\ Divided(unit)[s] \in [State -> Nat]
           /\ \A t \in State : Divided(unit)[s][t] <= SumFunction(Divided(unit)[s])
<1>1. PICK q \in Nat : q * denom[s] = unit
  BY DEF CommonUnit
<1>2. denom[s] \in Nat \ {0} /\ transitions[s] \in [State -> Int] /\ One \in Nat /\ IsFiniteSet(State)
  BY States, Layout DEF IInv, TypeOK, Matrix
<1>3. q # 0
  BY <1>1, <1>2
<1>4. unit \div denom[s] = q
  BY <1>1, <1>2, ExactQuotient
<1>5. Divided(unit)[s] = [t \in State |-> One * transitions[s][t] * q]
  BY <1>4 DEF Divided
<1>6. ASSUME NEW t \in State
      PROVE  /\ One * transitions[s][t] * q = (One * q) * transitions[s][t]
             /\ (One * q) * transitions[s][t] \in Nat
  <2>1. transitions[s][t] \in Nat
    BY <1>2, EntryMeaning
  <2> QED
    BY <1>2, <2>1
<1>7. Divided(unit)[s] = [t \in State |-> (One * q) * transitions[s][t]]
  BY <1>5, <1>6
<1>8. SumFunction(Divided(unit)[s]) = (One * q) * RowSum(s)
  <2>1. One * q \in Int
    BY <1>2
  <2> QED
    BY <1>2, <1>7, <2>1, SumScaled DEF RowSum
<1>9. Divided(unit)[s] \in [State -> Nat]
  BY <1>6, <1>7
<1>10. \A t \in State : Divided(unit)[s][t] <= SumFunction(Divided(unit)[s])
  <2> DEFINE f == Divided(unit)[s]
  <2>1. f \in [State -> Int] /\ \A t \in State : f[t] >= 0
    BY <1>9
  <2> HIDE DEF f
  <2>2. SumFunction(f) \in Int /\ \A t \in State : SumFunction(f) >= f[t]
    BY <1>2, <2>1, SumNonnegative, SumInt
  <2>3. \A t \in State : f[t] <= SumFunction(f)
    BY <2>1, <2>2
  <2> QED
    BY <2>3 DEF f
<1> QED
  BY <1>1, <1>3, <1>7, <1>8, <1>9, <1>10

(* A divided row sums to one, and has a successor above the threshold as   *)
(* it has few of them.                                                     *)
LEMMA DividedDistribution ==
  ASSUME IInv, Built, Proper, Sparse, NEW unit \in Nat \ {0}, CommonUnit(unit), NEW s \in State,
         RowSum(s) * One > Eps * Scale
  PROVE  /\ SumFunction(Divided(unit)[s]) = One * unit
         /\ \E t \in State : Divided(unit)[s][t] > Eps * unit
<1> DEFINE f == Divided(unit)[s]
           S == {t \in State : transitions[s][t] > 0}
           c == Eps * unit
           g == [t \in State |-> IF t \in S THEN c ELSE 0]
<1>1. PICK q \in Nat \ {0} :
        /\ q * denom[s] = unit
        /\ f = [t \in State |-> (One * q) * transitions[s][t]]
        /\ SumFunction(f) = (One * q) * RowSum(s)
        /\ f \in [State -> Nat]
  BY DividedRow
<1>2. /\ denom[s] = RowSum(s) /\ denom[s] \in Nat \ {0} /\ IsFiniteSet(State)
      /\ One \in Nat /\ Eps \in Nat /\ transitions[s] \in [State -> Int]
  BY States, Layout DEF IInv, TypeOK, Matrix, Normalised, Built
<1>3. SumFunction(f) = One * unit
  <2> HIDE DEF f
  <2> QED
    BY <1>1, <1>2
<1>4. ASSUME \A t \in State : ~ (f[t] > c) PROVE FALSE
  <2>1. /\ S \in SUBSET State /\ IsFiniteSet(S) /\ Cardinality(S) \in Nat /\ c \in Nat
        /\ Cardinality(S) * Eps < One
    BY <1>2, FS_Subset, FS_CardinalityType DEF Sparse
  <2>2. \A t \in State : f[t] <= g[t]
    <3> SUFFICES ASSUME NEW t \in State PROVE f[t] <= g[t]
      OBVIOUS
    <3>1. f[t] \in Nat /\ f[t] <= c
      BY <1>1, <1>4, <2>1
    <3>2. t \notin S => f[t] = 0
      <4>1. ASSUME t \notin S PROVE transitions[s][t] = 0
        BY <1>2, <4>1, EntryMeaning
      <4>2. One * q \in Int
        BY <1>1, <1>2
      <4> QED
        BY <1>1, <4>1, <4>2
    <3> QED
      BY <3>1, <3>2
  <2>3. SumFunction(g) = Cardinality(S) * c
    <3> DEFINE h == [t \in State |-> c]
    <3>1. h \in [State -> Int] /\ g = [t \in State |-> IF t \in S THEN h[t] ELSE 0]
      BY <2>1
    <3>2. [t \in S |-> h[t]] = [t \in S |-> c]
      BY <2>1
    <3>5. c \in Int /\ IsFiniteSet(S)
      BY <2>1
    <3> HIDE DEF S, c, g, h
    <3>3. SumFunction(g) = SumFunction([t \in S |-> h[t]])
      BY <1>2, <2>1, <3>1, SumWhere
    <3>4. SumFunction([t \in S |-> c]) = Cardinality(S) * c
      BY <3>5, SumCount
    <3> QED
      BY <3>2, <3>3, <3>4
  <2>4. SumFunction(f) <= SumFunction(g)
    <3>1. g \in [State -> Int] /\ f \in [State -> Int]
      BY <1>1, <2>1
    <3> HIDE DEF f, g
    <3> QED
      BY <1>2, <2>2, <3>1, SumMonotone
  <2>5. (Cardinality(S) * Eps) * unit < One * unit
    <3> DEFINE a == Cardinality(S) * Eps
    <3>1. a \in Int /\ a < One /\ One \in Int /\ unit \in Nat /\ unit > 0
      BY <1>2, <2>1
    <3> HIDE DEF a
    <3>2. a * unit < One * unit
      BY <3>1, ProductCompare
    <3> QED
      BY <3>2 DEF a
  <2>6. (Cardinality(S) * Eps) * unit = Cardinality(S) * c
    <3> HIDE DEF S
    <3> QED
      BY <1>2, <2>1
  <2>7. One * unit <= Cardinality(S) * c
    BY <1>3, <2>3, <2>4
  <2> HIDE DEF S, c
  <2>8. One * unit \in Int /\ Cardinality(S) * c \in Int
    BY <1>2, <2>1
  <2> QED
    BY <2>5, <2>6, <2>7, <2>8
<1> HIDE DEF f, c
<1>5. \E t \in State : f[t] > c
  BY <1>4
<1> QED
  BY <1>3, <1>5 DEF f, c

(* A row that was not divided stays below the threshold. *)
LEMMA DividedResidue ==
  ASSUME IInv, Built, Proper, NEW unit \in Nat \ {0}, CommonUnit(unit), NEW s \in State,
         ~ (RowSum(s) * One > Eps * Scale)
  PROVE  /\ SumFunction(Divided(unit)[s]) <= Eps * unit
         /\ \A t \in State : Divided(unit)[s][t] <= Eps * unit
<1> DEFINE f == Divided(unit)[s]
<1>1. PICK q \in Nat \ {0} :
        /\ q * denom[s] = unit
        /\ SumFunction(f) = (One * q) * RowSum(s)
        /\ f \in [State -> Nat]
        /\ \A t \in State : f[t] <= SumFunction(f)
  BY DividedRow
<1>2. /\ denom[s] = Scale /\ Scale \in Nat /\ IsFiniteSet(State) /\ One \in Nat /\ Eps \in Nat
      /\ transitions[s] \in [State -> Int]
  BY States, Layout, ScaleNat DEF IInv, TypeOK, Matrix, Normalised, Built
<1>3. RowSum(s) \in Int
  BY <1>2, SumInt DEF RowSum
<1>4. RowSum(s) * One <= Eps * Scale
  <2> HIDE DEF RowSum
  <2>1. RowSum(s) * One \in Int /\ Eps * Scale \in Int
    BY <1>2, <1>3
  <2> QED
    BY <2>1
<1>5. SumFunction(f) <= Eps * unit
  <2> DEFINE a == RowSum(s) * One
             b == Eps * Scale
  <2>1. a \in Int /\ b \in Int /\ a <= b
    BY <1>2, <1>3, <1>4
  <2>2. a * q <= b * q
    <3> HIDE DEF a, b
    <3> QED
      BY <2>1, ProductCompare
  <2>3. SumFunction(f) = a * q /\ b * q = Eps * unit
    <3> HIDE DEF f, RowSum
    <3> QED
      BY <1>1, <1>2, <1>3
  <2> QED
    BY <2>2, <2>3
<1>6. \A t \in State : f[t] <= Eps * unit
  <2>1. SumFunction(f) \in Int /\ Eps * unit \in Int /\ \A t \in State : f[t] \in Int
    <3>1. f \in [State -> Int]
      BY <1>1
    <3> HIDE DEF f
    <3> QED
      BY <1>2, <3>1, SumInt
  <2> HIDE DEF f
  <2> QED
    BY <1>1, <1>5, <2>1
<1> QED
  BY <1>5, <1>6

(* Whatever the commands of a model with nonnegative probabilities over    *)
(* the own variables of its modules, overlapping guards and rows below the *)
(* threshold included, the matrix that translate_dtmc returns is one that  *)
(* compute_reachable_and_filter may be given, so that the theorems of      *)
(* Reachability hold of it (constr_symbolic.rs:378-389,                    *)
(* reachability.rs:9).                                                     *)
THEOREM SearchStartsInOrder ==
  Spec => [](Built /\ Proper /\ Sparse =>
    \A unit \in Nat \ {0} : CommonUnit(unit) =>
      /\ IsFiniteSet(State) /\ One * unit \in Nat /\ Eps * unit \in Nat /\ Eps * unit < One * unit
      /\ \A initial \in State : SearchFrom(unit, initial)!Init)
<1> DEFINE Ready(unit) ==
      /\ IsFiniteSet(State) /\ One * unit \in Nat /\ Eps * unit \in Nat /\ Eps * unit < One * unit
      /\ \A initial \in State : SearchFrom(unit, initial)!Init
<1>1. ASSUME IInv, Built, Proper, Sparse, NEW unit \in Nat \ {0}, CommonUnit(unit)
      PROVE  Ready(unit)
  <2>1. /\ IsFiniteSet(State) /\ One * unit \in Nat /\ Eps * unit \in Nat /\ Eps * unit < One * unit
    <3>1. IsFiniteSet(State) /\ One \in Nat /\ Eps \in Nat /\ Eps < One
      BY States, Layout
    <3>2. Eps * unit < One * unit
      BY <3>1, ProductCompare
    <3> QED
      BY <3>1, <3>2
  <2>2. ASSUME NEW initial \in State PROVE SearchFrom(unit, initial)!Init
    <3>1. \A row : SearchFrom(unit, initial)!SumFunction(row) = SumFunction(row)
      BY DEF SumFunction, SumFunctionOnSet, FoldFunctionOnSet, MapThenFoldSet,
             SearchFrom!SumFunction, SearchFrom!SumFunctionOnSet, SearchFrom!FoldFunctionOnSet,
             SearchFrom!MapThenFoldSet
    <3>2. ASSUME NEW s \in State PROVE Divided(unit)[s] \in SearchFrom(unit, initial)!Rows
      <4> DEFINE f == Divided(unit)[s]
      <4>1. f \in [State -> Nat] /\ \A t \in State : f[t] <= SumFunction(f)
        BY <1>1, DividedRow
      <4>2. SumFunction(f) \in Int
        <5>1. f \in [State -> Int]
          BY <4>1
        <5> HIDE DEF f
        <5> QED
          BY <2>1, <5>1, SumInt
      <4>3. CASE RowSum(s) * One > Eps * Scale
        <5>1. SumFunction(f) = One * unit /\ \E t \in State : f[t] > Eps * unit
          BY <1>1, <4>3, DividedDistribution
        <5> HIDE DEF f
        <5>2. f \in [State -> 0 .. One * unit]
          BY <2>1, <4>1, <5>1
        <5> QED
          BY <3>1, <5>1, <5>2 DEF SearchFrom!Rows, SearchFrom!IsDistribution, f
      <4>4. CASE ~ (RowSum(s) * One > Eps * Scale)
        <5>1. SumFunction(f) <= Eps * unit /\ \A t \in State : f[t] <= Eps * unit
          BY <1>1, <4>4, DividedResidue
        <5> HIDE DEF f
        <5>2. f \in [State -> 0 .. One * unit]
          BY <2>1, <4>1, <5>1
        <5> QED
          BY <3>1, <5>1, <5>2 DEF SearchFrom!Rows, SearchFrom!IsResidue, f
      <4> QED
        BY <4>3, <4>4
    <3>3. Divided(unit) \in [State -> SearchFrom(unit, initial)!Rows]
      BY <3>2 DEF Divided
    <3> QED
      BY <3>3 DEF SearchFrom!Init
  <2> QED
    BY <2>1, <2>2
<1> HIDE DEF Ready
<1>2. IInv => (Built /\ Proper /\ Sparse => \A unit \in Nat \ {0} : CommonUnit(unit) => Ready(unit))
  BY <1>1
<1>3. Spec => [](Built /\ Proper /\ Sparse =>
                   \A unit \in Nat \ {0} : CommonUnit(unit) => Ready(unit))
  BY <1>2, Inductive, PTL
<1> QED
  BY <1>3 DEF Ready
=============================================================================
