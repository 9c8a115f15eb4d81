# A TLA+ development for prismulti

prismulti reads a discrete-time Markov chain in the PRISM language and a list of
`P=? [...]` properties, builds the chain as Sylvan decision diagrams and prints the
probability of each property at the initial state. These modules model that
program from its Rust source (`src/src/*.rs`): the algorithms on the diagrams, the
discipline that keeps diagram nodes alive, the ownership of the Sylvan runtime by
several threads, the analysis of the text and the command line around it all. TLC checks each on a small instance
and TLAPS proves the safety of every state machine for all values of the constants; section 4 names what stays with TLC.

## 1. The system

```
main.rs ── parser ── analyze.rs ── constr_symbolic.rs ── symbolic_dtmc.rs ── sym_check.rs
           (tree)    (passes)      (matrix)              + reachability.rs    (answers)
                                        │                       │                │
                                        └──────── dd_manager (Sylvan) ───────────┘
```

The phases run once each, in this order, in one thread. The concurrency is
elsewhere: Sylvan has worker threads and may collect garbage inside any call, and
several threads (the tests) may each build a manager of the one runtime.

| Component | State | Operations | Hard behaviour | What makes it correct |
|---|---|---|---|---|
| Parser (`parser.rs`, `parser.lalrpop`) | none | `parse_dtmc`, `parse_mdp`, `parse_dtmc_props` | none | not modelled |
| Semantic analysis (`analyze.rs`) | the tree, tables of constants, labels, variables | `analyse_dtmc` and its passes | constants that refer forward or to themselves, labels in cycles, overrides, a second pass over what the first has changed | a text and its analysed form mean the same; nothing well formed is refused; no later `unreachable!` can be reached |
| Renaming (`analyze.rs` 617-730) | the modules | `expand_renamed_modules`, `rename_expr` | copies of copies; names that are permuted; a list of pairs that repeats or contradicts itself | a copy behaves as its base with all names replaced at once, and nobody else writes its variables |
| Construction (`constr_symbolic.rs`) | DD variables, module and action diagrams | `translate_expr`, `translate_update`, `translate_command`, `translate_module`, `translate_dtmc` | values outside a range or outside its bits, synchronisation, overlap of guards, order of a hash map | the matrix is the uniform choice among the enabled actions |
| Chain (`symbolic_dtmc.rs`, `reachability.rs`) | matrix, 0-1 relation, reachable set | `compute_reachable_and_filter`, `set_reachable_and_filter` (filter and self-loops) | a fixpoint that must stop; three diagrams that must agree; rows below the threshold | exact reachable set; reachable rows sum to one, but for the residue of a dead end; relation = support of the matrix |
| Checker (`sym_check.rs`) | vectors and sets of states | next, bounded until/release, `prob0`, `prob1`, Jacobi, unbounded until/release | don't-care entries left by `add_restrict`, off-by-one in the bound, a singular linear system | the printed number is the measure of the paths |
| Root protection (`protected_local.rs`, `protected_slot.rs`, `dd.rs`) | registered slots, nodes | `protect`, `set`, `drop`, every diagram call | a collection inside any call reclaims what no slot holds | no argument and no slot is ever reclaimed |
| Runtime (`dd_manager.rs`) | one mutex, one started flag | `DDManager::new`, drop | two threads start it; a panic while it is held; drop order of fields | every call made by the holder of the mutex, but for the slots of a chain that are unregistered after its manager; started once, no root leaked, nobody locked out |
| Command line (`main.rs`) | the arguments, the overrides, the selection | reads, calls, prints | every phase may end the run; numbers count from 1; the properties and constants of a second file are appended | one message, or the answers asked for in the order asked |

The components share state through the diagrams only: a component hands another a
node, and it is the rooting convention (next-to-last row) that makes that sound.
`Construction` hands `Reachability` a matrix, and `Reachability` hands `UntilPrecomputation`,
`BoundedUntil` and `UnboundedUntil` a reachable set, a relation and the filtered matrix. What the later
module assumes in its `Init` is what a theorem about the earlier one concludes
(`SearchStartsInOrder`, `ChecksStartInOrder`), so the runs of the later ones begin where the code does. `Analysis` hands `Construction`
commands whose expressions mention variables only (`OnlyVariablesLeft`).
`UnboundedUntil` takes from `QualitativeUntil` what `UntilPrecomputation` implements.
`CommandLine` extends `Renaming` and runs it as the first part of the analysis.

## 2. The modules

A probability is a number of units, `One` of which make certainty; the threshold
`EPS` is the constant `Eps`, in the same units. A diagram over the variable bits is a
function on states, and one over current and next bits a matrix. The states are the
valuations of the bits, so a set of states is a BDD and a function an ADD.

| Module | Code | State and actions |
|---|---|---|
| `Dtmc` | operations of `dd.rs` on matrices | constants `State`, `One`, `Eps`, rows, thresholds; used by `Reachability`, `BoundedUntil` and `UnboundedUntil` |
| `Reachability` | `reachability.rs`, `symbolic_dtmc.rs` | `reachable`, `matrix`, `transitions01`, one action for an iteration of the search, one for its end, then the filter and the self-loops |
| `QualitativeUntil` | (abstract) | the verdict of every state by orbits and bottom components, in one step and with no fixpoint loop |
| `UntilPrecomputation` | `prob0`, `prob1`, the split (`sym_check.rs` 208-330) | `sol` grown by the two loops, `sNo`, `sYes`, `sQuestion` |
| `BoundedRecurrence` | (abstract) | the plain recurrence on the unrestricted matrix |
| `BoundedUntil` | `X`, `U<=k`, `R<=k` (`sym_check.rs`) | the restricted matrix (any content in the rows outside the care set), the vector, the iterations left |
| `UnboundedUntil` | `U`, `R` and `solve_jacobi` (`sym_check.rs` 137-206, 290-328, 356-377) | `aPrime` through its set-up and two restrictions, `sol` with one `Sweep` a pass and `Converge` for the last, `scale`: a vector after n passes is counted in units of 1 / `Lcm`^n, so that dividing by the diagonal stays exact |
| `Protection`, `DdBodies` | `protected_local.rs`, `protected_slot.rs`, `dd.rs`, and all function bodies that hold nodes | a machine that executes a body given as a list of steps (a call with a plain result, a call into a slot, a store into a slot, a walk over nodes, a drop), with `Collect` inside any call; `DdBodies` is the table of the bodies, and `HandedOn` names the plain results that a body gives to its next call |
| `Renaming` | `expand_renamed_modules`, `apply_module_renames`, `rename_expr`, the symbol table (`analyze.rs` 617-730, 942-963) | `modules`, `expanded`: one `ExpandModule` for each declaration, then `DeclareSymbols`; an expression is its shape and the names it reads |
| `CommandLine` | `main.rs` | `stage` over the phases, `diagnosis`, `overrides`, `selected`, `answers`; every phase with each of its early returns; one step for each turn of the loops over the entries of `--const`, over those of `--props`, and over the selected properties |
| `SylvanRuntime` | `dd_manager.rs`, slots' `drop` | per-thread program counter, the mutexes and their poison, `started`, slots in use; a job may panic between any two of its calls |
| `Construction`, `Products` | `constr_symbolic.rs` | encoding, updates, commands, modules, actions in any order, normalisation; `Products` is the product over the modules of an action |
| `Expressions` | `ast.rs` expressions, type inference, folding, label expansion and translation | each pass a recursive function on the trees of at most `Height` levels, given by what it makes of one node (`InferNode`, `FoldNode`, `SubstituteNode`, `TranslateNode`); numbers as exact fractions |
| `Analysis` | `analyse_dtmc` and its passes | `pc` over the passes, `pending` overrides, the constants `resolved`, the declarations, labels and property as they are rewritten; one action per pass or per turn of its loop, each with its early returns |

`Construction` and `Analysis` interact through `Expressions`: the first takes a guard
as the set of states it holds in, and the second checks that an analysed expression
translated by `Translate` has the value of its text in every state.

### Abstract specifications

`QualitativeUntil` states what prob0 and prob1 promise by the runs of the chain: a state
is hopeless when none of its runs meets `phi2`, and certain when every bottom component
its runs can end in is inside `phi2`. `UntilPrecomputation` implements it (`ImplementsQualitativeUntil`):
the abstract sets change when the fixpoints end and the growing of `sol` is a stutter.

`BoundedRecurrence` is `x' = phi2 + phi1 * P x` on the original matrix.
`BoundedUntil` implements it (`ImplementsRecurrence`) although it multiplies a matrix
that `add_restrict` has filled with arbitrary entries outside the care set.

## 3. The runs

All configurations say `CHECK_DEADLOCK FALSE`: the functions return and the threads
run out of jobs, which are proper ends.

| Run | Instance | What it shows |
|---|---|---|
| `reachability` | 3 states, `One` = 3, `Eps` = 1; 27,033 states | every matrix whose rows are distributions or sum to no more than the threshold: the search ends within one iteration per state and one more, finds the least closed set (`ReachableExact`), and after the filter and the self-loops the reachable rows sum to one (a dead end's loop may sit on a residue below the threshold) and the 0-1 relation is the support (`RowsStochastic`, `SupportAgrees`); a row that was a distribution is untouched (`DistributionKept`) |
| `until_graph` | every graph on up to 3 states, and on 4 of which two are absorbing; 210,568 states | without dead ends, for every `phi1` and `phi2`: no set of open states is closed (`NoTrap`: I - P is regular), and the abstract specification is implemented |
| `bounded_until` | 3 states, one unreachable, `One` = 3, `Eps` = 1, `MaxK` = 3; 322,128 states | the answer is the sum over all paths of the semantics of `X`, `U<=k`, `R<=k` (`AnswerIsPathProbability`), whatever `add_restrict` leaves in the unreachable row; nothing leaks out of the mask (`ZeroOutside`); one step more never lowers an until (`Monotone`) |
| `unbounded_until` | 5 states, `One` = 3, `Lcm` = 6, `Tol` = 20, `MaxDen` = 9; 15,459 states | the loop stops on every chain (`Terminates`); what it returns is on the near side of every solution of the equations, so of the true probability (`OneSided`), and solves the linear system up to the threshold (`ResidualSmall`), although the test compares two vectors and never the two sides |
| `front_end` | 9,796 combinations of models and arguments; 48,823 states | each copy behaves as its base with its names replaced at once, and if no plain module writes a foreign variable, each variable of an accepted model has one writer (`ExpansionSound`); a run ends with one message and no answer, or with the answers asked for, by their numbers, in the order asked and under the overrides given last (`AnsweredAsAsked`) |
| `protection` | 32 bodies, all but `translate_module`; 2,068 states | with a collection possible in every call, every node is there when a call is entered with it or the program walks it, and stays there during the call, and no slot holds a reclaimed node; each call follows the rooting convention of `docs/dd_usage.md`. Five arguments in three functions are exempt by name (`HandedOn`): against that document they are handed unrooted to the call just after. `Convention` says that there are no others and that each of the five is one; that they outlive the call they are given to is not claimed (section 5) |
| `protection_ident` | `translate_module` | **violation**: finding 1 |
| `runtime` | 3 threads with 2 jobs, 2 stack slots and 2 fields each; 86,737 states | every call into Sylvan is made by the thread that holds the mutex, and so by one thread at a time, except the calls that unregister the fields of a dropped chain: these come after its manager, may overlap with another thread, and are made when the thread has no stack slot left (`Serialized`); one start, every root given back, every thread is served although others may panic |
| `construction` | two modules, `x : 1..3` in two bits, `One` = 2; 7,672 states | on well-formed models the matrix is the uniform choice among the enabled actions; on all models its support is exact |
| `construction_intruder` | same | **violation**: finding 2 |
| `analysis` | 4,656 models; 57,106 states | the two passes give each constant the value of its text, leave only variables, keep the meaning of the guard, the probability, the value assigned, and the operands and bound of the property (of a label as far as the property leads to it), and refuse only what is ill formed |
| `analysis_init` | same | **violation**: finding 3 |

### Why the bounds are enough

* Three states are an initial one, a reachable one and an unreachable one, which is
  what the filter, the self-loops and the mask tell apart; the search needs
  three to have an iteration between the first and the last. With `One` = 3 and
  `Eps` = 1 a row can be split evenly, unevenly, and lie below the threshold.
* Three states give `until_graph` fixpoints of up to three passes and every reachable
  set. Two open states that hold each other in a cycle need a hopeless and a certain state
  besides, so there is a fourth; with all relations on four states the run is too long,
  and two of the four are absorbing.
* `unbounded_until` has two states with every row in thirds over four states, two absorbing
  ones, and a fifth that is either the initial state or unreachable, in which case the restricted
  rows and columns have something to fill. Two states with free rows have self-loops and
  a cycle of any strength, so diagonals of one, two and three thirds. A solution of two equations
  in thirds has a denominator of at most 9, which is `MaxDen`. A tolerance of 1/20 makes
  up to six passes on the slowest chains; the proof has no such bound.
* `front_end` has a process that owns one variable and reads another, as in
  `tests/dtmc/herman3.prism`, up to two copies with nine lists of pairs (a permutation, a
  chain, a repetition, a contradiction, a name left out), copies of copies,
  and a process that writes the variable of another module. The arguments vary one small
  model: every file missing, malformed or fine, repeated and blank entries, the constant
  set twice, numbers out of order, twice, zero and beyond the last.
* `MaxK` = 3 is longer than any path through the two reachable states that does not
  repeat one, so the bounds 0 and 1 occur and so does one that revisits a state. `s3` is
  unreachable and gives `add_restrict` rows and columns to fill.
* Three threads with two jobs are the least with one inside, one waiting and one
  that returns after a panic. The jobs are bounded since `std::sync::Mutex` is unfair:
  with endless jobs a thread may lose every race.
* `x : 1..3` in two bits has one pattern outside the range; updates reach it,
  its neighbours and values outside the bits.
* The models of `analysis` have one module with one command and one update, two
  variables, three constants and two labels: enough for a cycle of labels, a cycle of
  constants, a constant referring forward, and one overridden. The inputs are
  three sets that vary the constants, the labels with the property, and the declarations
  with the command, one set at a time, well typed and ill typed.

* Expressions of the `analysis` inputs have at most `Levels` = 3 levels, and with two labels
  expanded into one another, and put into the property by the second pass, no tree is higher than
  `Height` = 12, four times as many. What a name
  means is read through at most as many declarations as there are names, and one more round changes
  nothing (`MeansIs`), so that this is no bound on the inputs.

No model caps a counter beyond what the instance says: iterations are bounded by
`IterationBound`, the bound `k` by `MaxK`, the jobs by `MaxJobs`, the stack slots by
`MaxLocals`.

### Fairness

`Reachability`, `UntilPrecomputation`, `UnboundedUntil` and `Analysis` assume weak fairness of
`Next`: they are functions of one thread which, once called, are executed to their end.
`Analysis` writes it as `[]<>Ended \/ []<><<TRUE>>_vars`, which is the same and
spares TLC evaluating `ENABLED` over the passes on trees. `BoundedUntil`,
`Construction` and `CommandLine` check safety only, as their loops are `for` loops over a given range.
`SylvanRuntime` assumes weak fairness of the steps a thread takes alone
(a call returns, a drop goes on, the manager's own steps) and strong fairness of ending a
job, which is possible again and again between calls and must happen some time. Taking the
lock is weakly fair only: a waiter gets it once it stays free, and may lose any race before.

## 4. The proofs

The assumptions on constants are named in the modules and evaluated by TLC:
`DtmcAssumption` (finite states, `One` and `Eps` naturals with `Eps` below `One`),
`StateFinite`, `MaxKNat`, `BodyShape` (bodies are finite sequences of well-shaped steps) and
`RuntimeAssumption` (the holder of a free mutex is no thread, the bounds are naturals),
`JacobiAssumption` (`Lcm` is a multiple of every number up to `One`), `Layout` and `Models` of
`Construction` (the modules have distinct names, a variable belongs to one of them and has two values
or more, `Eps` is below `One`; a model gives each module its commands), `ModelsAssumption` (the models
are syntax trees) and `ArgumentsAssumption` (the arguments name such models, and the options are lists of
entries of the kinds the loops tell apart).

**`Reachability_proof`** proves the six safety properties of the run. The invariant says
that `reachable` is inside every closed set with the initial state (`SearchInside`), that
it is closed once the search has stopped and that the iterations counted are fewer than the
states found (`SearchShape`, by the cardinality of a set that grows in each), that the
relation the search followed is the support of the matrix, and after the filter its
restriction to the reachable rows (`RelationShape`), and that each row is still what `unif`
left until the self-loops (`RowsKept`, `Unlooped`). `SupportAgrees` and `RowsStochastic`
speak of the last step only and are not inductive: that a self-loop goes to exactly the rows
that need one follows from the shapes of the relation and of the rows before it.
`EveryRow` adds to the latter that an unreachable row is zero. `ChecksStartInOrder` then instantiates the three modules of the checks with the variables of this
one and proves that their initial predicates hold when the filtering is done, for every pair of operands and
every bound; `ExactModelHandedOver` adds that no probability has fallen below the threshold on the way.

**`UntilPrecomputation_proof`** proves type correctness, `Partition` (that the three sets
cover the reachable states and do not meet, which no run repeats), `NoTrap` and the
refinement. The abstract verdicts speak of runs and bottom components and the code iterates
sets, so the invariant brackets each fixpoint: `sol` holds its base and is inside every
set that holds the base and is closed backwards. When the loop ends the two meet, and the
result is named by runs: `sNo` is the set of states whose runs never meet `phi2`,
and `sYes` the states whose runs cannot get into `sNo`. That the latter are the states
whose bottom components are all in `phi2` rests on a lemma that every run can reach a
bottom component, which needs the state set to be finite.

**`BoundedUntil_proof`** proves type correctness, `ZeroOutside`, `Monotone`,
`AnswerIsPathProbability` and the refinement, for every matrix and whatever `add_restrict` chooses. The invariant says that
`t_question` is what the mask made it wherever both indices are reachable (`CareSetKept`),
that the vector is zero elsewhere (`ZeroOutside`, so the other columns do not matter), and that
the pass to come will not be below the present one (`Growing`), which is passed on because
a product with a nonnegative matrix is monotone and linear.

That the printed number is the probability of the paths, in a model none of whose probabilities is below
the threshold, is an argument of its own. The invariant `PathMeaning` says that after i passes the
vector holds, at each reachable state, the summed weight of the paths of i steps that come to `phi2`
through `phi1`, and `scale` the weight of all paths of i steps. A pass prepends a step:
paths of i + 1 steps are split by their first successor (`SplitFirst`), the weight of a
path is that of its first step times that of the rest (`WeightSplit`), whether it satisfies the until is
decided by its first state and the rest (`UntilFirst`), and no weight is lost on the way since
rows sum to one and stay among the reachable states (`CertainStep`). A release is what is left of
the whole by an until of the negated operands, here by its meaning on paths and in the code by a subtraction.

**`SumTheorems`** holds what the other proofs need of finite sums and products: `SumFunction` and
`FoldFunction` of the community modules are recursive functions on subsets, so that they have a value is
shown first (`FoldExists`), then that it does not depend on the order (`FoldTakeOut`,
`FoldReindex`). From these follow linearity and monotony, a sum over the fibres of a map
(`SumFibres`), the exchange of two sums (`SumExchange`), counting (`SumCount`), and that a product of sums
is the sum over all choices of one term from each (`ProductOfSums`). Inductions over finite sets are done by
hand on the set of good subsets, as the library's theorem takes an operator.

**`Construction_proof`** proves that the bits of a variable suffice for its values
(`BitsSuffice`), type correctness, `SupportExact` and `UniformChoice`, for any number of modules, variables,
commands and updates, any order of the hash map and any threshold below one. The invariant is what
the two loops have accumulated (`Accumulated`): `act_trans` is the product of the diagrams of
the modules visited, and of the identities of those that do not know the action; `transitions`
is the sum over the actions added. The rest is algebra of the finished matrix. A module's diagram is a sum
over its moves (`ModuleAsMoves`), so the product for an action is a sum over joint moves (`ActionIsMoves`),
and a joint move contributes to the state it leads to and to no other (`JointContribution`).
That gives the support. In a well-formed model one command of a module is enabled at most and its
probabilities sum to one, so the joint moves of an enabled action sum to one, and the row of a state to the
number of its enabled actions (`RowOfMatrix`). The threshold of the normalisation therefore
never mistakes an enabled state for a dead end, and dividing by the row sum is the uniform choice.
`SearchStartsInOrder` carries this to the next module: a common unit of all the rows exists
(`CommonUnitExists`), the entries and the threshold are naturals in it, and the initial predicate of
`Reachability` holds of them. Its hypothesis `Sparse`, that a state has fewer than `One / Eps` successors
(10^10 in the code), excludes the row whose every entry is below the threshold though it sums to one.

**`UnboundedUntil_proof`** proves type correctness, `NoZeroDivisor`, `ResidualSmall` and `OneSided`
for every chain, tolerance and number of passes and every choice of `add_restrict`. That an open state has
a diagonal above zero is a fact about runs: a state that only loops is its own bottom component,
and so is hopeless or certain. From it the row of the iterated matrix and the diagonal
make up the row of the model again (`LeavingIsRest`). The residual of a
vector is the distance of two passes scaled by the diagonal (`PassResidual`), which is at most
one, so that the stopping test bounds it. For the one-sided error the invariant `Below` says
that no vector of the iteration is above a solution of the equations: the
first is the indicator of the certain states, at which every solution is one because the smallest value
on the runs of such a state is passed on to the successors until they meet `phi2` (`MeanOfSmallest`,
`CertainIsOne`), and a pass keeps the order since the matrix is nonnegative (`PassBelow`). A release
is one minus an until of the negated operands, and a solution of the one is one minus a solution
of the other (`SolvedIsSolution`).

**`Analysis_proof`** has two parts. The first is about the constants of `Analysis`: for every set of inputs of the shape `InputShape`
they are literals of their declared types in both passes (`ConstantsTyped`), and each is the value its
declaration means, while an analysis that gives up on unresolved constants has resolved every one that
means something (`ConstantsByMeaning`). The code knows nothing of a meaning: it visits the overrides in the
order of a hash map, folds the declarations in rounds with what is resolved so far, and goes over the result again in the
second pass. The meaning is the fixpoint of reading names through their declarations (`MeansIs`), reached after at most one
round for each name since a growing set of names stops growing (`GrowingStops`).

A recursive function on trees has no value for the prover until it is shown to have one. The set of trees
is a tower of layers (`IsTower`), and any rule that gives a node a result from the results of
its operands has exactly one function on all trees that obeys it; the passes are instances of this, so each comes
with its law (what it makes of a node). Three facts about folding follow by induction on the height of a tree:
it keeps what a tree means (`FoldMeaning`), it keeps the type, up to an int where a float is declared
(`FoldType`), and it turns a tree whose names are resolved as far as its meaning needs them into a literal
(`FoldCloses`), a branch not taken excepted. The invariant `ResolveInv` is that each constant resolved is the
literal its declaration means, that the value of a declaration is such a literal or still its text (`ConstsOK`),
and that a declaration the present round has passed is resolved or cannot be folded yet unless the round has resolved
something. When a round ends with nothing resolved, `NothingLeft` goes through the rounds of the meaning: a constant
that gets its meaning in round n + 1 refers, where it matters, to constants that got theirs by round n, which are resolved,
so it folds to a literal, and has been resolved as well.

Its second part is about what the analysis makes of the rest of the model, for every set of inputs: only variables are
left in the property that reaches the translation (`VariablesOnly`), the diagrams of the operands of the property and of
the guard, the probability and the assigned value of the command have in every state the values of their texts (`AnalysisKeepsMeaning`), and nothing well formed is rejected
(`WellFormedAccepted`). It needs three more laws. Substituting for a label a tree that means the same keeps meaning and
type (`SubstituteMeaning`, `SubstituteType`). Labels are expanded with the set of those being expanded, which grows towards the leaves,
so what is true of `Expand` is proved from the largest such set down (`DownwardInduction`): a label that leads to no cycle
is replaced by a tree without labels that means what it means (`ExpandMeaning`, `ExpandTyped`). And the diagram of a typed
tree over the variables has the value the tree means (`TranslateMeaning`): the code computes truth values as numbers, so this needs
that each operator gets operands of the types it was checked with.

The invariant is `KeptInv`. Of each part of the model it says what the passes so far have made of it (`PartsInv`): the text itself, its
folding, or a tree that means the same as the text. For the labels this is finer (`LabelsInv`): within the first pass the labels already visited
are opened, and those still to come folded, while the loop reads bodies remembered before any was folded; the second pass
finds labels already opened and expands them once more. Had the invariant only the outcome of a pass,
the second could not be shown to start from anything typed. For `WellFormedAccepted` the
premise is a fact about the input, and each action has a lemma that no check of its own fails under it (`ResolveInv` gives the
constants, `KeptInv` the rest): `DeclareAccepts` to `PropertyAccepts`. The check that needs most is the one for unresolved constants, where
`ResolvedByMeaning` says that a constant with a meaning is resolved when the rounds stop.

**`Program_proof`** is about the program around the algorithms. Its first part proves of `Protection`, for every set of
bodies, type correctness and that a body whose text keeps to the rules of `docs/dd_usage.md` gives no call a
reclaimed argument and lets no slot be reclaimed, whenever the collector runs
(`ConventionSuffices`, `RootsProtected`). The hypothesis `Convention` is a condition on the text of the body in
hand: a call reads registered slots, and a slot is given what a slot holds or the result of the call
just before; a result listed in `Fresh` may go to the next call unrooted, and of such an argument the conclusion
says only that it is there when the call is entered. TLC checks the hypothesis of each of the 32 bodies of the run `protection`;
`translate_module` does not satisfy it (finding 1). The invariant follows the text: the slots that are registered are the
ones the text has filled so far and not dropped (`SlotsAsWritten`), each is alive, and the result of
the latest call is bound and alive until the next (`LastResultBound`, `LastResultAlive`).

Its second part proves of `SylvanRuntime` type correctness, guarded entry (`GuardedEntry`), a single
start before use and that no root leaks, for every number of threads, jobs and slots. The
invariant ties the program counters to the mutexes (`MutexesHeld`), the registered
slots to the owning thread (`SlotsInPlace`), and the started flag to the counters
(`StartSettled`); that two threads are not inside at once says nothing by itself of who holds the lock.

Its third part proves of `CommandLine`, with `Renaming`, `ExpansionSound` and `AnsweredAsAsked` for every model and every list of arguments. A
list of pairs without conflicts is a function (`MapIsPairs`), and reading a renamed name in a
state is reading the name itself in the state the base sees (`RenamedReads`); from that each part of a
copy, from an identifier up to the module, evaluates as its original. The invariant holds that of all copies
made so far, that a copy writes its own variables if its base does (`CopiesWriteOwn`), where the copies are
in the list of modules (`Expanding`), and that the symbols are distinct once declared
(`SymbolsChecked`). A base may be a copy, so both promises are needed of the copies made so far to
pass them on to the next.

`AnsweredAsAsked` has a second invariant, `OptionsInv`, on what the loops over the options have collected. The
map is the one the entries before the present one fill (`Collected`: the last pair of a name
decides); what is printed and what is still selected, one after the other, are what the entries
before the present one ask for, by an increasing function onto their numbers (`Follows`). A turn
of each loop extends it (`PairCollected`, `NumberServed`, `AnswerServed`), and as the analysis accepts
neither an unknown property nor an unknown constant no evaluation can fail.

**Only model-checked**: all liveness (`Terminates`, `Served`), for which the fairness is needed; that the
bodies of the run `protection` keep to the convention (`Convention`), as they are data, and TLC evaluates the
condition on each of them. Every other invariant and safety property of the passing runs is also a theorem.

## 5. Findings

1. `translate_module` (`constr_symbolic.rs:330`) keeps the identity node in a plain
   variable while the commands are translated and roots it after that; a collection
   in between reclaims it. `docs/dd_usage.md:131` forbids it. It is the one body outside the run `protection`.
2. A command without an action has an implicit label that `docs/dtmc_details.md:15` calls
   unique to its module. `analyze.rs:1103` refuses that label in the module's own
   commands only, so another module can name it and synchronise.
3. `x : [0..2] init y;` passes the type check, and `analyze.rs:1028` panics in the
   `unreachable!` that asserts a literal after folding.

**Disclosed deviations.** `docs/dd_usage.md:74-75` says "The caller is responsible for protecting all argument
nodes before calling a function." and line 133 "Never assume that temporaries between DD calls stay alive unless you protect them by
storing the intermediate result in a `protected_local` or `protected_slot`." Three functions besides
`translate_module` do otherwise, and hand a plain result straight to the next call:

* `compute_reachable_and_filter`: `image_next` and `image_curr` (`reachability.rs:20-23`);
* `check_bounded_until_probability_add`: the negation of `reachable` (`sym_check.rs:73`) and the
  conversion of `phi2` (`sym_check.rs:81`), each the argument of a nested call;
* `add_mask`: the constant zero (`dd.rs:537`).

The run `protection` executes these bodies like all others, with the five results listed in `HandedOn`. It shows that
no call lies between the making of such a result and the call it is given to, so that it is
there on entry, and that there are no other such arguments. Whether it survives a collection inside that call
depends on Sylvan, which may or may not root its own arguments: with `Collect` as modelled it is reclaimed, so
`ArgumentsIntact` exempts exactly these. They are not counted as a finding of a run of their own, as the run
would show no more than the text does. The model makes each result a node of its own. Sylvan shares equal nodes, so a slot
elsewhere may happen to keep such a result (the zero of `add_mask`, say); this errs on the side of reporting a loss.

Noted on the way and not counted as findings, as nothing in the repository says
otherwise: two plain modules of one name are accepted if their variables differ, and
`translate_modules` keeps the second only, for both; a renamed module of a name in use is
refused; `x : [0..0]` passes the analysis and panics in `allocate_dd_vars`; an assignment
to a constant is accepted and panics in the translation; `SymbolicDTMC` drops its
manager, and with it the mutex, before the slots of its other fields are unregistered.

## 6. What is not modelled, and why

* The **parser** is generated and has no state; the **printing** of trees is text.
* **MDPs** go through the same analysis, with which the run ends (`CommandLine`); the code has no
  construction or checking for them.
* **Dumps, statistics, benchmarks** only read.
* In **`Construction`** the probability of an update is a constant and a variable is assigned once by an update. The code
  translates any expression for the probability (`constr_symbolic.rs:250`), which may depend on the state, and
  multiplies the equations of repeated assignments (259-262), so that two that differ give no successor.
* **`Analysis`** compares meanings for the parts named at `MeaningKept`; the bodies of labels that no property
  leads to are analysed but not compared.
* **Rounding** of floating point is left out: probabilities are units, and the vectors of the Jacobi loop
  exact fractions. How far from the true probability the loop stops is not bounded by the code
  and not by the model: `OneSided` says on which side, `ResidualSmall` how well it solves the system.
* The **width of i32** in constant folding: numbers in `Expressions` are exact fractions
  and there is no division by zero among the inputs.
* **Sylvan** itself: its operations are the functions they compute, its collector the
  action `Collect`.

## 7. Plan

Done in this order, the algorithms with the most to get wrong first: `Reachability`,
`UntilPrecomputation`, `BoundedUntil`, `Protection`, `SylvanRuntime`, `Construction`,
`Expressions` and `Analysis`, `UnboundedUntil`, `Renaming` and `CommandLine`; all of them proved.
To come:

1. `Analysis` with several modules and commands, on the modules that `Renaming` leaves: the
   target of an assignment in another module, constants across files.
2. A threshold above zero in the run of `Construction`. The theorems hold for every threshold below
   one; what the run would add are small products in models that are not well formed, whose rows
   `unif` leaves as they are.
