# A TLA+ development for DryadSynth

DryadSynth is a program synthesiser for SyGuS problems. It has two solvers: a
general one in Java (`src/dryadsynth`), which runs several z3-based search
threads against each other, and one for bit-vector problems in Rust
(`src/dryadsynth-bv`), which enumerates expressions and conditions and combines
them into a decision tree. This directory models the coordination and the core
search loops of both, checks them with TLC on small instances and proves their
main safety properties with TLAPS for every instance.

## 1. Inventory

| Component | State | Operations | Interaction | Hard behaviour | Correct means |
|---|---|---|---|---|---|
| `SygusDispatcher` | method, threads, `numCore`, `results`, `nosolution` | `prescreen`, `initAlgorithm`, `runAlgorithm`, `checkTmplt` | starts workers, waits on the monitor `env`, scans their volatile `results` | lost and early notifications; scan and counter read apart; `results` read twice | returns a verified result or gives up rightly, and returns at all |
| `Cegis` | bounds, `iterCount`, `functions`, `results`, `running` | `run`, `cegis`, `cegisGeneral`, `search` | shares `CEGISEnv` (counterexamples, thread count) and `Producer1D` (heights) | counterexamples added while others synthesise; timeouts; unknown answers | results solve the problem; a refuted height has no solution |
| `ITCegis`, `AT`, `InvDnC` | as `Cegis`, templates, subproblems | `run`, `findExtension`, `solve` | the same monitor and counter | early returns and exceptions between increment and decrement | counted exactly, and they end when told to |
| `DnCegis`, `DnCEnv` | subproblems, intermediate results, grammars that grow | `run`, `addSubSolutionToAll`, `translate`, `rewrite` | threads share the maps of subproblems and solutions | two threads solve one subproblem; results that hold a subproblem's solution; filling in while others store | one body per function, no cycle among them, only finished answers reported |
| Rust `tree_learning` | stack of leaves, counter, tree | `new_in`, `run`, `select`, `bvexpr` | called with a snapshot of options and conditions | greedy splits, node limit, word boundaries | a solved tree is right on every example |
| Rust `search`, `sample`, `filter`, `solutions` | unsolved examples, solutions, samples, shared condition buffer | `search`, `add_solution`, `tree_learning`, `get_tree` | the condition thread publishes under a lock, the main thread reads twice | a buffer that grows between two reads, samples that miss examples | no panic, nothing missed, the loops end |
| Rust `cegis`, `main` | examples, additional checks, channel | `cegis_loop`, `verify`, the ChatGPT race | drives `search`; two threads send, `main` takes the first message | a verifier timeout taken as success, models on which the reference cannot be evaluated, `eval` that differs from the logic, threads left behind | the answer is right unless the verifier gave none; `main` decides, once |
| Rust `deductive` | mask, list of rules | `new`, `test`, `collect_expr`, `reverse` | called by `filter` for every expression | a predicted value next to the real one, rules in any order, examples outside the sample | what is returned has the output's value; the assertion holds; few rules |
| Rust `enumerate` | tables of values | `run` | calls `filter` | generated loops | not modelled: `BvSearch` allows any expression in any order |
| `SSI`, `Region`, `Transf`, `BVEnum`, `PBEEnum` | terms, tables | sequential algorithms | called by the dispatcher | what the terms mean | not modelled (section 6) |
| launcher, parsers, external solvers, ChatGPT client | files, terms | unpack, parse, run | processes | I/O | not modelled, except how the ChatGPT client may answer |

`PROJECT.json` lists every component with its status, and every hazard at its
line.

## 2. Modules

* `SynthTask`: the abstract specification. Solvers publish solutions that are
  never withdrawn; the run is decided once, for one of them or for none.
  `Portfolio` and `BvCegis` implement it.
* `Portfolio`: `runAlgorithm`'s waiting loops and the workers' `run` methods.
* `CegisLoop`: `Cegis.cegis()` in several threads over one counterexample
  store.
* `GeneralDnC`: the GENERALDNC loop of `runAlgorithm` and the `DnCegis` threads.
* `DecisionTrees`: when a decision tree exists; `DecisionTreesProofs` has the
  lemmas on it.
* `TreeLearning`: the greedy learner.
* `BvSearch`: `SearchConfig::search` with `Solutions`; it takes tree learning
  as `HasTree`, the property that `TreeLearning` is proved to decide.
* `BvCegis`: `main_inner`, `cegis_loop` and `verify`; a search yields an
  expression that fits the examples a tree is learned for (`Ones` of
  `BvSearch`), an error, or a panic.
* `CombineRules`: the deductive combination, which `BvSearch` leaves open.

Each has an `MC` module with its instances and a `Proofs` module.

### Portfolio

`main` is the dispatcher's position and `pc[t]` each worker's. One iteration of
the scan loop, the read of `runningThreads`, the notification and the decrement
are steps of their own, as is each assignment to an element of `results`. The
worker's search is one step with the outcomes the code has: a verified result,
a height given up, the iteration limit, a stop request, an exception. The
CEGIS, AT and INVDNC loops have the same shape; a configuration says which
`run` each thread executes and what the dispatcher was asked for. `heightsOnly`
and `methodOnly` are one mode ("report"). A worker that leaves `run` without
decrementing (`ITCegis` on a general problem or without any candidate, whose
`lastCands` is then null, and an exception in `InvDnC.solve`) is "leaked".
EUSolver is absent because `initAlgorithm` then uses one core, and so is ADDSUB.
Threads that hold the answer and those still running when
`runAlgorithm` returns go on: the code ends the JVM later.

### CegisLoop

A candidate is a value with the tree heights that express it (`HeightsOf`), the
coefficient bound it needs and the inputs it is right on, so that a query is a
set (`Consistent`), and z3 picks any element of it, says UNSAT if it is empty,
or says unknown. Any set of heights is allowed: a higher tree need not express
what a lower one does, since above `eqBound` the conditions have no equations
(`Expand.java:281`) and a function without arguments has no tree above height 1
(`Expand.java:219-239`). The clock is a nondeterministic choice where the code
reads it. A regime, fixed in the initial state, says whether queries may fail
and what the iteration limit is.
`refuted` is a history variable. The model lets every feed type have several
threads, which is more than the dispatcher does: it uses one for FIXED and
ALLINONE. `synthesis` never returns null, so lines 1167-1175 of `Cegis.java`
have no counterpart, nor has the second producer (`HEIGHTANDCOND`), which
nothing creates. `running` is left to `Portfolio`.

### GeneralDnC

A solution is the problem it solves and the intermediate functions it applies.
A search yields any solution over the grammar of the moment, or none, or the
iteration limit. The steps between the locks are apart: `results` is published,
then the subproblem's solution stored under the lock (`Store`), the grammar
copied by `translate`, and the main solution filled in after its intermediate
functions were listed without the lock, so that the listing may throw
(`ConcurrentModificationException`). The dispatcher tests a `results` for null
and reads it again in two steps. Threads that throw are "leaked". A
configuration says whether the functions have arguments: without any, an
application is a leaf, which `rewrite` copies (`DefinedFunc.java:100-102`), and
the filling in goes round for ever. The branch that calls EUSolver is absent:
`initAlgorithm` then uses one core, and a single thread runs in the
dispatcher's own. The heights of `Producer1D` and
the elements of a results array are left to `Portfolio`. A variable that is
written before it is next read is reset when it was last read, which keeps the
states few.

### TreeLearning

An option or condition is the set of examples in its bits. Leaves carry the
conditions on their path instead of pointers, and entropies are compared after
multiplication by the number of examples, with a fixed-point logarithm and the
penalty of a split that leaves a side empty (1e10 in the code, `Penalty`) as
parameters. The proofs hold for any logarithm whose values for the numbers of
examples are natural and below the penalty, as those of log2 are. `boxed_ones` is modelled with its word
boundary. The code's `entro <= 0.0001` is `entropy = 0`, which is the same
while there are fewer than some 100000 examples.

### BvSearch

The condition thread (`CondBit`, `CondSample`, `CondFound`, `CondEnd`)
interleaves with the main thread (the rest). An expression is the set of
examples it is right on. A tree is learned for `Ones`, the examples without
those of a last word that they fill, as in `TreeLearning`; what `get_tree`
returns may be wrong on the others. Enumeration and the combine and reverse rules may
yield any expression of `Exprs`. `TreeFound` is what `tree_learning` may
answer; it may miss a tree under the limit of 7 used during the expression
loop, and is exact under the final limit, which is assumed to be at least twice
the number of examples (its default is 100000). The time limits, `wait_cond`
(a sleep) and a single example (no tree is needed) are left out, and an
`ite_tree_limit` below that bound is not covered.

### BvCegis

An expression has two sets of inputs: `right`, where it equals the reference in
the solver's logic, and `fits`, where `eval` gives the output of the example.
They differ because `eval` shifts right by 64 or more to 0 (`op.rs:33`) where
`bvashr` fills with the sign. A search yields any expression that fits the
examples (`Consistent`), except those of a last word that they fill
(`Covered`, `bits.rs:52`). So `verify` may refute a candidate on an input that
already is an example; it records the input again (`Recorded`: examples are a
sequence), and where `eval` and logic differ that can go on for ever, up to the
bound `maxExamples` of a configuration. On some inputs the reference divides by
zero: the logic defines that, `eval` refuses it, and `verify` excludes such a
model and asks again (`Exclude`), while any other model becomes an example
(`Refute`). A search panics in limited mode (`get_tree`), and in any mode where
a defined function or an expression of the guided loop divides
(`MayDivide`, `op.rs:84-87`). `Accept` is
UNSAT or no answer; the second sets the history variable `unsure`. `conds`
counts the condition threads that earlier searches left running. With a key and
a description, the loop runs beside a thread that asks ChatGPT, tries its
replies (`Try`) and otherwise runs the loop itself on its own examples; both
send into `channel` and `main` takes the first message. A client that repeats a
failing request for ever is `Ask` that is never taken.

### CombineRules

A value is the set of its bits that are 1, over the positions of all examples;
the rules see those of the sample. `test` keeps an expression as an And rule if
it is above the output there, as an Or rule if it is below, each with the masked
value it had then, and completes the first that is right on the mask.
`collect_expr` then walks back over the rules, one per step; `value` is the
value it predicts and asserts, `real` the value of the expression it builds.
The call that made the rule and the walk are not interleaved with anything, but
the rules come in any order.

## 3. Runs

| Run | Checks | Shows |
|---|---|---|
| `portfolio` | `IndInv`, `RunningThreadsExact`, `HeightsDistinct`, `AnswerCompleteOrFilling`, `ResultsMonotone`, `RefinesTask`, `PublishedBeforeScanIsReturned`, `StoppedWorkersEnd` | three workers, every kind and mode, spurious wake-ups, fair scheduling |
| `portfolio_limit` | `GivesUpOnlyWhenAllEnded` (violated) | the dispatcher may give up while a thread has yet to begin |
| `portfolio_hang` | `AllEndedReturns` (violated) | every thread has ended and the dispatcher waits for ever |
| `portfolio_nosol` | `NoSolutionReported` (violated) | "no invariant" never reaches the user when several threads run |
| `cegis` | `IndInv`, `ResultSolves`, `CopiesBounded`, `RefutedHasNoSolution`, `NoHeightSkipped`, `SolvableIsSolved` | every constraint on three candidates and two inputs, with failures and without; without, what is solvable is solved |
| `general_dnc` | `IndInv`, `EndedIsFinal`, `WriteOnce`, `FillDescends`, `FillingEnds`, `LastThreadReturned` | two threads and two subproblems, with an iteration limit and with functions without arguments |
| `general_dnc_answer` | `AnswerFinal` (violated) | another thread's notify makes the dispatcher return a subproblem's solution, or one that is not filled in |
| `tree_learning` | `IndInv`, `SolvedIsRight`, `DecidesLearnable`, `TreeSmall` | every call of bounded size, words of three bits |
| `bv_search` | `IndInv`, `NoPanic`, `FullIsLast`, `TreeStays`, `LeavesExpr`, `LeavesImprove` | both threads, unlimited and limited configurations, words filled and not |
| `bv_search_limited` | `NeverPanics` (violated) | limited mode with a sample smaller than the examples panics |
| `bv_cegis` | `IndInv`, `AnswerRight`, `CondThreadsBounded`, `RoundsBounded`, `RefinesTask`, `Decides` | the loop, its verifier and the race; examples, reference implementation, ChatGPT |
| `combine` | `IndInv`, `AssertHolds`, `ReturnedRight`, `RulesBounded` | any expressions in any order, over the sample and beside it |

Bounds. Three workers are needed for the scan to pass one thread, be at another
and have a third still to come; two functions for an array to be half filled;
with two heights, workers compete for them and come away empty. In `cegis`, two
inputs and two threads are enough for a thread to be refuted by an input
another thread recorded; the three candidates lie in different regions and
heights, and one is lost at the greatest. In `general_dnc`, two threads solve the same subproblem at once, and
the second subproblem's solution can apply the first's, which takes two rounds
to fill in. In `tree_learning`, four examples in words of three bits cross a
word boundary, and three fill a word; the crossed options need two conditions,
none of which helps alone. In `bv_search`, three examples with samples of two
leave one out, and samples of four are padded. In `bv_cegis`, two of four inputs
cannot be evaluated, so that exclusions follow each other and a wrong
expression can be wrong on such inputs only; one expression fits an input it is
wrong on, in some problems; words of three bits (128 in the code) are filled by
given examples and in the loop; `CheckAfter` is 1 (8 in the code) so that
`additional_check` comes in. `maxExamples` is above the number of examples at
which a loop ends by itself where `eval` and logic agree. In `combine`, four sampled bits and one
beside them let two rules of each kind be found; `MinGain` is 0 and `MaxSize` 1
where the code has `2 * N` of `64 * N` bits and 4. `MaxHeight` and `MaxConds`
are bounds of the models, named as such. Deadlock is not checked, because every
one of these programs ends or is cut off there.

Fairness. `FairSpec` of `Portfolio` has the JVM schedule every runnable thread,
and nothing more: a solver call may last for ever. `FairSolverSpec`, which the
run uses, also has the solver call of a stopped worker return, as
`StoppedWorkersEnd` needs, since a stop request is only read between calls.
`CegisLoop` schedules every thread and has z3 answer. `GeneralDnC` schedules
the dispatcher and what the threads do between searches; of the searches
nothing is assumed, nor that one ends. `BvSearch` schedules the main thread,
and assumes that a complete expression of the grammar is found if searches keep
being able to find it, since each round that fails multiplies the limit by
`ar_ratio`; nothing is assumed of the condition thread. `BvCegis` schedules its
threads and has a search in limited mode without additional checks (the default
with a reference) end if it can succeed, which is what `LeavesExpr` shows of
`BvSearch`; nothing is assumed of other searches, of ChatGPT or of the condition
threads.

What the liveness properties leave out is part of what they say.
`LeavesImprove` holds for samples that hold every example: with a smaller
sample the search may have solved it already, everything found later is
dominated, and the loop goes round. For that reason `Decides` speaks of limited
mode only, where there is no such loop. It also needs that `eval` and the logic
agree (`Agree`), since the same counterexample may come back for ever
otherwise, and a right expression that passes every test; and it leaves out a
panic of the search thread, after which `recv` depends on a client that never
gives up. `FillingEnds` leaves out functions without arguments.
`LastThreadReturned` speaks of the last thread: the result of another can be
overwritten by the null read from a later thread.

Every property has a mutant in `PROJECT.json` that breaks it: operators named
after what they change and marked "Mutant" in the modules.

## 4. Proofs

All theorems hold for every value of the constants under the `ASSUME`s of their
modules (`PortfolioAssumption`, `CegisAssumption`, `DnCAssumption`,
`TreeAssumption`, `SearchAssumption`, `BvCegisAssumption`,
`CombineAssumption`), which TLC evaluates in every run. Each module's `IndInv`
is inductive; the other properties follow from it.

* `PortfolioProofs`. `IndInv` joins types, the dispatcher's loop index, the
  agreement of a worker's position with its results, distinct heights, and the
  count. The agreement is what makes the answer complete: an array can be
  incomplete only while its worker fills it. The count needs a lemma that one
  worker's move changes a cardinality by one. From it follow the safety
  properties, `ResultsMonotone`, and that `Portfolio` implements `SynthTask`.
* `CegisLoopProofs`. The region number and coefficient bound stay in step, so
  that UNSAT in the last region speaks of all coefficients; a candidate under
  verification was consistent with the store when it was made. `CopiesBounded`
  counts the threads about to record an input as well, since a thread whose
  candidate is wrong on it may find it recorded by another meanwhile.
  `NoHeightSkipped` is inductive beside `IndInv`: a thread that has fetched a
  height owns it until it is refuted or solved. `SolutionNotMissed` joins the
  two: a height handed out that can express a solution is never refuted, so
  some thread is at it or has ended there with a result. Nothing is assumed of
  the heights, so that neither needs a higher tree to express more.
* `GeneralDnCProofs`. A stored body applies functions stored before it: this
  needs that every function a grammar, a result or an AST mentions is stored
  (`UsesStored`) and that a thread whose subproblem was stored meanwhile does
  not store its own. `EndedIsFinal` then follows from where a thread's result
  may be the main problem's, and `WriteOnce` from the one step that stores.
  `FillDescends` is the variant of the filling in: the AST, read as a binary
  number over the order in which functions were stored, falls in each round,
  because a body applies earlier functions only, each stored under one index;
  by `WriteOnce` the order itself does not change.
* `TreeLearningProofs`, with the lemmas of `DecisionTreesProofs`. The bits of a
  leaf are the examples that follow its path, and every example follows one
  (`PathInv`); so a solved tree is right, and its problem has a tree. The other
  direction of `DecidesLearnable` needs that a learnable problem is only split
  by conditions that tell examples apart (`SplitsTell`). The entropy is a sum
  over the options that gain something, whose pieces are disjoint: its terms
  are bounded by the pieces' sizes times the largest logarithm, so a real split
  costs less than the penalty of an empty one (`EntropyBound`,
  `TellingIsCheaper`); it is 0 when one option has everything (`EntropyZero`);
  and if no condition told the examples of a leaf apart, a tree would have one
  option for all of them and the leaf would have been accepted (`SomeTells`).
  Hence the leaves are disjoint and not empty, there are at most as many as
  examples (`LeavesFew`), and `TreeSmall` and the limit follow. The sum is the
  fold of the community modules: that its recursive definition has a solution
  and that the bound holds are shown by a least counterexample (`LeastNumber`,
  `SumExists`, `SumBound`), since the induction rules of the library are out of
  reach.
* `BvSearchProofs`. `get_tree` may see more conditions than `tree_learning`
  did: `TreeMonotone` shows that a tree that exists does not go away. In limited
  mode with complete samples, the search ends only with an answer or a tree.
  `TreeStays` states the first for every step of both threads.
* `BvCegisProofs`. No evaluable input is ever excluded, so UNSAT speaks of all
  of them, whatever `eval` makes of a candidate; without a verifier, a candidate
  fits the examples its search looked at (`AnswerRight`). A refutation adds an
  example, so that refutations, and with them the threads left behind, are
  fewer than the examples. Where `eval` and logic agree, the example is a new
  input unless the examples filled a word, which happens every `WordBits`
  examples (`Counts`, `CondThreadsBounded`). All examples can be evaluated
  (`ExamplesEvaluable`), which then bounds the rounds (`RoundsBounded`). The race
  implements `SynthTask`.
* `CombineRulesProofs`. Every bit outside the mask is settled by a rule, and
  while rules are collected a bit that is predicted wrong is settled by a rule
  still to come: so the assertion holds. That a rule is left out when it does
  not change the *prediction* is harmless because a bit predicted right is
  right (`Collecting`), which needs that And rules are above the output and Or
  rules below it (`RulesRight`).

Every safety and action property that a passing run checks is proved.
Model-checked only: the liveness properties, since fairness is out of the
prover's reach, and the violations. For three of them the argument for
termination is proved as a safety property: `NoHeightSkipped` with
`RefutedHasNoSolution` for `SolvableIsSolved`, `FillDescends` for
`FillingEnds` and `RoundsBounded` for `Decides`; what TLC adds is that fair
threads take these steps. `ExamplesEvaluable` and `SolutionNotMissed` are proved
without a run of their own.

## 5. Disagreements between the code and what it says

1. The help says the iteration limit is per thread (`Run.java:36`); the
   dispatcher gives up when `runningThreads` is 0, which it is before the
   workers have begun (`portfolio_limit`).
2. "Iteration Limit Hit, returning without a result." (`Cegis.java:1148`): the
   program may hang instead, because `notify` precedes the decrement and the
   wait is not guarded (`portfolio_hang`).
3. "There is no invariant for this benchmark." (`Cegis.java:807`) is lost when
   several threads run (`portfolio_nosol`).
4. `panic!("Still subproblem remain.")` (`tree_learning/mod.rs:197`) is reached
   in limited mode (`bv_search_limited`).
5. "We should have results at this point, we need to fill in all intermediate
   results" (`DnCegis.java:157`): the thread does so before it notifies, but
   the dispatcher, woken by another thread, may take the results before that
   (`general_dnc_answer`).

## 6. Not modelled

The map covers 2062 of the 21567 lines of DryadSynth's own Java and Rust
(`src/dryadsynth/src`, `src/dryadsynth-bv/src`): the threads, the monitors, the
channel and the loops they run. The C and C++ files of the repository are third
party code (z3, tree-sitter grammars). What is left out, and why:

* `prescreen`, the single-threaded methods and `Run`: one sequential choice of
  a method by syntactic tests on z3 terms, without state that steps of others
  could disturb.
* `cegisGeneral` and the fixed-height search of `Cegis.java`, `Expand`,
  `ASTGeneral`: they build z3 terms; the models have them by their outcomes.
* `SSI`, `SSICommu`, `Region`, `Transf`, `InvDnC`'s subproblems, `BVEnum`,
  `PBEEnum`: sequential rewriting of z3 terms and enumeration. What could be
  wrong there is what terms mean, and a model of that would be a logic.
* The enumeration algorithms of the Rust solver: nested loops over tables, made
  by macros; `ReverseRule`: one lookup in such a table, without state.
* Time limits of the Rust search and tree limits too small for the examples.
* Parsers and formatters (syntax over z3 terms), the launcher (unpacks and
  starts one process), external solvers and the prompts of the ChatGPT client
  (I/O), vendored grammars and benchmarks.

Candidates for an extension, by what they would add: a composition of
`GeneralDnC`'s workers with `CegisLoop`, and the refinement of a task by
`GeneralDnC` once its answers are final.
