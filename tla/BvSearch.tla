------------------------------ MODULE BvSearch ------------------------------
(***************************************************************************)
(* SearchConfig::search of the bit-vector solver, with the Solutions and   *)
(* the sampled enumerations (SampleConfig::search, FilterState::filter) it *)
(* drives. One thread enumerates conditions and publishes them, under a    *)
(* lock, in a buffer; the main thread enumerates expressions, each search  *)
(* on a fresh sample of the examples, until its expressions cover all      *)
(* examples and the decision tree over the published conditions is right.  *)
(*                                                                         *)
(* Data: an expression is the set of examples it is right on and a         *)
(* condition the set it is zero on (PbeConstraint::test). Enumeration, the *)
(* combine and the reverse rules yield expressions in some order, so an    *)
(* operator of the model takes any. Tree learning is HasTree: the module   *)
(* TreeLearning shows that the learner decides it when the node limit is   *)
(* at least twice the number of examples, as the default ite_tree_limit    *)
(* is; the limit of 7 used while expressions are searched may miss a tree. *)
(***************************************************************************)
EXTENDS Integers, Sequences, FiniteSets, DecisionTrees

CONSTANTS
  Size,       \* pbecstr.len()
  Exprs,      \* the expressions the grammar has
  Conds,      \* the conditions the grammar has
  Configs,    \* the configurations
  MaxConds    \* bound on the conditions found

\* limited: limited_ite. check: additional_check has examples. n: the samples'
\* size, cover: the cover limit of expr_search, and the same of cond_search.
\* word: the bits of a word, 128 in the code; here some sizes fill one.
Config == [limited : BOOLEAN, check : BOOLEAN, n : Nat \ {0}, cover : Nat,
           condn : Nat \ {0}, condcover : Nat, word : Nat \ {0}]

Examples == 0 .. Size - 1

\* One example needs no tree: every expression that is added is right on it.
ASSUME SearchAssumption ==
  /\ Size \in Nat \ {0, 1}
  /\ Exprs \subseteq SUBSET Examples
  /\ Conds \subseteq SUBSET Examples
  /\ Configs \subseteq Config
  /\ MaxConds \in Nat

VARIABLES
  cfg,          \* the configuration
  conds,        \* the condition thread: conds.solved
  buffer,       \*   the shared cond_buffer
  condpc,       \*   "bits" (shifted bits first), "search" or "end"
  condsample,   \*   its sample
  phase,        \* the main thread: "expr", "learn", "improve", "tree" (about to
                \*   call get_tree), "done" or "panicked"
  unsolved,     \*   exprs.unsolved
  solved,       \*   exprs.solved
  searching,    \*   a sample is being searched
  sample,       \*   its examples
  early,        \*   algo.count() < 1000
  samplesolved  \*   filter.solved

condvars == <<conds, buffer, condpc, condsample>>
exprvars == <<unsolved, solved, searching, sample, early, samplesolved>>
vars == <<cfg, condvars, phase, exprvars>>

Live == phase \notin {"done", "panicked"}

TypeOK ==
  /\ cfg \in Configs
  /\ conds \in Seq(Conds) /\ buffer \in Seq(Conds)
  /\ condpc \in {"bits", "search", "end"} /\ condsample \subseteq Examples
  /\ phase \in {"expr", "learn", "improve", "tree", "done", "panicked"}
  /\ unsolved \subseteq Examples /\ solved \in Seq(Exprs)
  /\ searching \in BOOLEAN /\ sample \subseteq Examples
  /\ early \in BOOLEAN /\ samplesolved \in BOOLEAN

Init ==
  /\ cfg \in Configs
  /\ conds = <<>> /\ buffer = <<>> /\ condpc = "bits" /\ condsample = {}
  /\ phase = "expr" /\ unsolved = Examples /\ solved = <<>>
  /\ searching = FALSE /\ sample = {} /\ early = FALSE /\ samplesolved = FALSE

\* sample(): n of the pool, or all of it and index 0 for the places left.
Samples(pool, n) ==
  {S \cup (IF Cardinality(pool) < n THEN {0} ELSE {}) :
     S \in {T \in SUBSET pool :
              Cardinality(T) = IF Cardinality(pool) < n THEN Cardinality(pool) ELSE n}}

-----------------------------------------------------------------------------
(* The condition thread.                                                   *)

\* Mutant: the new condition is pushed before the buffer is extended.
PublishedEager(C) == Append(conds, C)

\* Mutant: the buffer is replaced by the conditions it does not have.
PublishedNewOnly(C) == SubSeq(conds, Len(buffer) + 1, Len(conds))

\* add_solution: the buffer gets what conds.solved has beyond it, before the
\* new condition is pushed.
Published(C) == buffer \o SubSeq(conds, Len(buffer) + 1, Len(conds))

AddCondition(C) ==
  /\ C # Examples
  /\ Len(conds) < MaxConds
  /\ conds' = Append(conds, C)
  /\ buffer' = Published(C)

\* The bits of the arguments, with the cover limit Solutions::new sets.
CondBit(C) ==
  /\ Live /\ condpc = "bits"
  /\ C # {}
  /\ AddCondition(C)
  /\ UNCHANGED <<cfg, condpc, condsample, phase, exprvars>>

CondSample ==
  /\ Live /\ condpc = "bits"
  /\ condpc' = "search"
  /\ condsample' \in Samples(Examples, cfg.condn)
  /\ UNCHANGED <<cfg, conds, buffer, phase, exprvars>>

CondFound(C) ==
  /\ Live /\ condpc = "search"
  /\ C \cap condsample # {}
  /\ Cardinality(C) >= cfg.condcover
  /\ AddCondition(C)
  /\ UNCHANGED <<cfg, condpc, condsample, phase, exprvars>>

\* count_limit is 10000 with limited_ite, and unlimited without.
CondEnd ==
  /\ Live /\ condpc = "search" /\ cfg.limited
  /\ condpc' = "end"
  /\ UNCHANGED <<cfg, conds, buffer, condsample, phase, exprvars>>

-----------------------------------------------------------------------------
(* Solutions, for expressions.                                             *)

\* boxed_ones: the examples a tree is learned for. The last word's mask is 0 when
\* the examples fill it, and the tree may then be wrong on them.
Ones == {e \in Examples : Size % cfg.word = 0 => e < Size - cfg.word}

HasTreeNow(opts) == HasTree(Ones, Elements(opts), Elements(buffer))

cover_limit == IF cfg.limited \/ phase = "improve" THEN 1 ELSE cfg.cover

Covers(S) ==
  Cardinality(S) >= cover_limit \/ Cardinality(S) >= Cardinality(unsolved)

\* Mutant: an expression right on the same examples is no duplicate.
DominatedStrictly(S) == \E i \in DOMAIN solved : S \subseteq solved[i] /\ S # solved[i]

Dominated(S) == \E i \in DOMAIN solved : S \subseteq solved[i]

\* Mutant: only the sampled examples are taken off.
RemainingSampled(S) == unsolved \ (S \cap sample)

Remaining(S) == unsolved \ S

\* Mutant: the learner's answer is not looked at.
TreeFoundAlways(left, opts) == {TRUE}

\* What tree_learning may answer, with left unsolved and the options opts: yes
\* if nothing is asked of it, and otherwise whether there is a tree, which the
\* small limit of the first loop may miss.
TreeFound(left, opts) ==
  IF phase = "expr" /\ ~cfg.limited THEN {TRUE}
  ELSE LET found == left = {} /\ buffer # <<>> /\ HasTreeNow(opts)
       IN  {b \in BOOLEAN : (b => found) /\ (found => b \/ phase = "expr")}

-----------------------------------------------------------------------------
(* The main thread.                                                        *)

StartSearch ==
  /\ ~searching
  /\ (phase = "expr" /\ unsolved # {}) \/ phase = "improve"
  /\ searching' = TRUE /\ early' = TRUE
  /\ sample' \in Samples(IF cfg.limited \/ phase = "improve" THEN Examples ELSE unsolved,
                         cfg.n)
  /\ UNCHANGED <<cfg, condvars, phase, unsolved, solved, samplesolved>>

\* Mutant: the search returns filter.solved.
EndSearchInverted ==
  /\ searching' = FALSE /\ sample' = {} /\ early' = FALSE /\ samplesolved' = FALSE
  /\ phase' = IF phase = "improve" /\ samplesolved THEN "tree" ELSE phase

\* The search of this sample returns !filter.solved.
EndSearch ==
  /\ searching' = FALSE /\ sample' = {} /\ early' = FALSE /\ samplesolved' = FALSE
  /\ phase' = IF phase = "improve" /\ ~samplesolved THEN "tree" ELSE phase

\* filter: the search goes on; a match of the whole sample is remembered.
GoOn(S) ==
  /\ samplesolved' = (samplesolved \/ sample \subseteq S)
  /\ UNCHANGED <<phase, searching, sample, early>>

\* An expression that matches the sample somewhere goes to add_solution. In
\* limited mode (no partial_solution) only the first 1000, and complete ones.
Matches(S) ==
  /\ searching
  /\ S \cap sample # {}
  /\ ~cfg.limited \/ early \/ sample \subseteq S

Reject(S) ==
  /\ Matches(S)
  /\ ~Covers(S) \/ cfg.check \/ Dominated(S)
  /\ GoOn(S)
  /\ UNCHANGED <<cfg, condvars, unsolved, solved>>

Add(S) ==
  /\ Matches(S)
  /\ Covers(S) /\ ~Dominated(S)
  /\ solved' = Append(solved, S)
  /\ unsolved' = Remaining(S)
  /\ \/ S = Examples /\ EndSearch
     \/ /\ S # Examples
        /\ \E b \in TreeFound(unsolved', solved') : IF b THEN EndSearch ELSE GoOn(S)
  /\ UNCHANGED <<cfg, condvars>>

\* algo.count() reaches 1000.
EarlyEnds ==
  /\ searching /\ cfg.limited /\ early
  /\ early' = FALSE
  /\ UNCHANGED <<cfg, condvars, phase, unsolved, solved, searching, sample, samplesolved>>

\* filter.solved and algo.count() > count_limit_solved.
EndByLimit ==
  /\ searching /\ samplesolved
  /\ EndSearch
  /\ UNCHANGED <<cfg, condvars, unsolved, solved>>

\* The loop on remaining() ends; a last expression that is right is returned.
LeaveExpr ==
  /\ phase = "expr" /\ ~searching /\ unsolved = {}
  /\ phase' = IF solved[Len(solved)] = Examples THEN "done" ELSE "learn"
  /\ UNCHANGED <<cfg, condvars, exprvars>>

\* tree_learning, and improve_search unless limited.
Learn ==
  /\ phase = "learn"
  /\ \E b \in TreeFound(unsolved, solved) :
       phase' = IF b \/ cfg.limited THEN "tree" ELSE "improve"
  /\ UNCHANGED <<cfg, condvars, exprvars>>

\* get_tree locks the buffer anew; bvexpr panics on an unsolved leaf, and
\* select on a leaf to split without a condition.
GetTree ==
  /\ phase = "tree"
  /\ phase' = IF HasTreeNow(solved) THEN "done" ELSE "panicked"
  /\ UNCHANGED <<cfg, condvars, exprvars>>

Next ==
  \/ \E C \in Conds : CondBit(C) \/ CondFound(C)
  \/ CondSample \/ CondEnd
  \/ StartSearch
  \/ \E S \in Exprs : Reject(S) \/ Add(S)
  \/ EarlyEnds \/ EndByLimit
  \/ LeaveExpr \/ Learn \/ GetTree

Spec == Init /\ [][Next]_vars

\* The main thread never stops by itself, and each unfinished round multiplies
\* the limit by ar_ratio, so a right expression of the grammar is found.
Fairness ==
  /\ WF_vars(StartSearch) /\ WF_vars(EndByLimit)
  /\ WF_vars(LeaveExpr) /\ WF_vars(Learn) /\ WF_vars(GetTree)
  /\ SF_vars(Add(Examples))

FairSpec == Spec /\ Fairness

-----------------------------------------------------------------------------
(***************************************************************************)
(* Properties.                                                             *)
(***************************************************************************)

\* unsolved is what no expression found so far is right on.
UnsolvedExact == unsolved = Examples \ UNION Elements(solved)

\* The buffer is the conditions found, but for the last one.
BufferLags ==
  IF conds = <<>> THEN buffer = <<>>
  ELSE buffer = SubSeq(conds, 1, Len(conds) - 1)

\* An expression is right on an example that each earlier one is wrong on.
NoDominated ==
  \A i, j \in DOMAIN solved : i < j => ~(solved[j] \subseteq solved[i])

\* Where get_tree cannot fail: the mode that improves, and limited mode if the
\* sample holds every example and no additional check may reject an answer.
Safe == ~cfg.limited \/ (cfg.n >= Size /\ ~cfg.check)

\* A complete sample of limited mode is matched by answers only, and the first
\* of them ends the search.
CompleteSample ==
  cfg.limited /\ Safe =>
    /\ ~samplesolved
    /\ searching => sample = Examples /\ Examples \notin Elements(solved)

\* get_tree, which locks the buffer again after tree_learning has looked at
\* it, is called only if there is a tree.
TreeReady ==
  Safe =>
    /\ phase = "tree" => HasTreeNow(solved)
    /\ cfg.limited /\ unsolved = {} /\ ~searching => HasTreeNow(solved)
    /\ phase \in {"learn", "tree", "improve"} => unsolved = {}

\* No search runs but in the two loops, and limited mode has only one.
SearchPhase ==
  /\ searching => phase \in {"expr", "improve"}
  /\ phase = "improve" => ~cfg.limited

\* The inductive invariant the proofs use.
IndInv ==
  /\ TypeOK /\ UnsolvedExact /\ BufferLags /\ NoDominated
  /\ CompleteSample /\ TreeReady /\ SearchPhase

\* search does not panic in get_tree, although conditions are published between
\* the two looks at the buffer and the last one found never is.
NoPanic == Safe => phase # "panicked"

\* Looking only at the last expression for a complete answer misses none.
FullIsLast == \A i \in DOMAIN solved : solved[i] = Examples => i = Len(solved)

\* A tree there is stays: whatever the condition thread publishes between
\* tree_learning's look at the buffer and get_tree's, and whatever expressions
\* come in, nothing that a tree needs is withdrawn.
TreeStays == [][HasTreeNow(solved) => HasTreeNow(solved)']_vars

\* panic!("Still subproblem remain.") and .expect("At least have one
\* condition.") are never reached, in every configuration.
NeverPanics == phase # "panicked"

\* If the grammar has a right expression, the loop on remaining() ends.
LeavesExpr == phase = "expr" /\ ~cfg.check ~> phase # "expr"

\* So does the loop of improve_search, which goes on while a search has solved
\* its sample, if the sample holds every example: the search that adds the
\* right expression has then not solved it before. With a smaller sample it
\* may have, and everything found later is dominated.
LeavesImprove ==
  phase = "improve" /\ ~cfg.check /\ cfg.n >= Size ~> phase # "improve"
=============================================================================
