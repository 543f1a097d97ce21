---------------------------- MODULE CombineRules ----------------------------
(***************************************************************************)
(* The deductive combination of the bit-vector search                      *)
(* (deductive/combine.rs): expressions that are above the output on every  *)
(* bit of the sample are kept as conjuncts, those below it as disjuncts.   *)
(* Each kept one settles bits, mask is what is not settled, and the first  *)
(* expression that is right on mask is completed by the kept ones.         *)
(*                                                                         *)
(* Data: a value is the set of the positions (example and bit) that are 1. *)
(* test computes on the sample only; the kept expressions also have bits   *)
(* on the examples left out. collect_expr predicts the value of what it    *)
(* builds (value) and checks that prediction, while real is the value the  *)
(* built expression has.                                                   *)
(***************************************************************************)
EXTENDS Integers, Sequences, FiniteSets

CONSTANTS
  Sample,     \* the positions of the sample, 64 for each of N examples
  Rest,       \* the positions of the examples left out
  Problems,   \* the problems considered
  MinGain,    \* a rule settles more positions than this, 2 * N in the code
  MaxSize     \* the most operators collect_expr may add, 4 in the code

All == Sample \cup Rest

\* defined: eval succeeds on every example.
Expr == [bits : SUBSET All, defined : BOOLEAN]

\* tested: there are more examples than N, and then test_and and test_or are
\* asked. (Without it Rest need not be empty: a sample of the unsolved
\* examples is padded and leaves the solved ones out.)
Problem == [output : SUBSET All, exprs : SUBSET Expr, tested : BOOLEAN]

ASSUME CombineAssumption ==
  /\ IsFiniteSet(Sample) /\ Sample \cap Rest = {}
  /\ Problems \subseteq Problem
  /\ MinGain \in Nat /\ MaxSize \in Nat

VARIABLES
  problem,    \* the problem
  mask,       \* CombineRules.mask
  subexprs,   \* CombineRules.subexprs: the rules
  pc,         \* where test is
  expr,       \* the expression it was called with
  i,          \* the rules that collect_expr has still to go through
  value,      \* collect_expr's value
  real,       \* the value of collect_expr's res
  size        \* collect_expr's size

rules == <<mask, subexprs>>
collecting == <<expr, i, value, real, size>>
vars == <<problem, rules, pc, collecting>>

\* bits: the expression's value. first: the value that test keeps with it.
SubExpr == [op : {"And", "Or"}, bits : SUBSET All, first : SUBSET Sample]

Output == problem.output \cap Sample

TypeOK ==
  /\ problem \in Problems
  /\ mask \subseteq Sample
  /\ subexprs \in Seq(SubExpr)
  /\ pc \in {"idle", "collect", "some", "panicked"}
  /\ expr \in Expr
  /\ i \in 0 .. Len(subexprs)
  /\ value \subseteq Sample
  /\ real \subseteq All
  /\ size \in Nat

NoExpr == [bits |-> {}, defined |-> FALSE]

Init ==
  /\ problem \in Problems
  /\ mask = Sample /\ subexprs = <<>>
  /\ pc = "idle"
  /\ expr = NoExpr /\ i = 0 /\ value = {} /\ real = {} /\ size = 0

-----------------------------------------------------------------------------
(* test: the rules.                                                        *)

\* Mutant: the expression is compared the wrong way round.
test_and_swapped(e) == e.defined /\ e.bits \subseteq problem.output

\* On all examples, or not asked.
test_and(e) == e.defined /\ problem.output \subseteq e.bits
test_or(e) == e.defined /\ e.bits \subseteq problem.output

\* Mutant: imples is called the other way round.
and_cond_swapped(e) == e.bits \cap Sample \subseteq Output

\* imples, on the sample.
and_cond(e) == Output \subseteq e.bits
or_cond(e) == e.bits \cap Sample \subseteq Output

IsAnd(e, m) ==
  /\ and_cond(e)
  /\ Cardinality(m) - Cardinality(m \cap e.bits) > MinGain
  /\ 3 * Cardinality(Sample \ e.bits) > Cardinality(Sample \ Output)
  /\ problem.tested => test_and(e)

IsOr(e, m) ==
  /\ or_cond(e)
  /\ Cardinality(m) - Cardinality(m \ e.bits) > MinGain
  /\ 3 * Cardinality(e.bits \cap Sample) > Cardinality(Output)
  /\ problem.tested => test_or(e)

\* Mutant: what is settled stays in the mask, and the rest leaves it.
AddAndInverted(s, e) ==
  IF IsAnd(e, s.mask)
  THEN [mask |-> s.mask \ e.bits,
        subexprs |-> Append(s.subexprs,
          [op |-> "And", bits |-> e.bits, first |-> (Sample \ s.mask) \cup (e.bits \cap Sample)])]
  ELSE s

AddAnd(s, e) ==
  IF IsAnd(e, s.mask)
  THEN [mask |-> s.mask \cap e.bits,
        subexprs |-> Append(s.subexprs,
          [op |-> "And", bits |-> e.bits, first |-> (Sample \ s.mask) \cup (e.bits \cap Sample)])]
  ELSE s

\* Mutant: the mask is not reduced.
AddOrUnmasked(s, e) ==
  IF IsOr(e, s.mask)
  THEN [mask |-> s.mask,
        subexprs |-> Append(s.subexprs,
          [op |-> "Or", bits |-> e.bits, first |-> s.mask \cap e.bits])]
  ELSE s

AddOr(s, e) ==
  IF IsOr(e, s.mask)
  THEN [mask |-> s.mask \ e.bits,
        subexprs |-> Append(s.subexprs,
          [op |-> "Or", bits |-> e.bits, first |-> s.mask \cap e.bits])]
  ELSE s

\* mask & (first ^ output) == 0
Completes(e, m) == m \cap e.bits = m \cap Output

\* test: first the rules, then whether e can be completed. The filter calls it
\* for every expression, after a completed one too.
Test(e) ==
  /\ pc \in {"idle", "some"}
  /\ LET s == AddOr(AddAnd([mask |-> mask, subexprs |-> subexprs], e), e)
     IN  /\ mask' = s.mask /\ subexprs' = s.subexprs
         /\ IF Completes(e, s.mask)
            THEN /\ pc' = "collect" /\ expr' = e
                 /\ i' = Len(s.subexprs)
                 /\ value' = e.bits \cap Sample /\ real' = e.bits
            ELSE /\ pc' = "idle" /\ expr' = NoExpr
                 /\ i' = 0 /\ value' = {} /\ real' = {}
  /\ size' = 0
  /\ UNCHANGED problem

-----------------------------------------------------------------------------
(* collect_expr: the rules from the last to the first.                     *)

Wrap(v, r) ==
  /\ value' = v /\ real' = r
  /\ size' = size + 1

CollectAnd ==
  /\ pc = "collect" /\ i > 0 /\ subexprs[i].op = "And"
  /\ IF value \cap subexprs[i].first # value
     THEN Wrap(value \cap subexprs[i].first, real \cap subexprs[i].bits)
     ELSE UNCHANGED <<value, real, size>>
  /\ i' = i - 1
  /\ UNCHANGED <<problem, rules, pc, expr>>

CollectOr ==
  /\ pc = "collect" /\ i > 0 /\ subexprs[i].op = "Or"
  /\ IF value \cup subexprs[i].first # value
     THEN Wrap(value \cup subexprs[i].first, real \cup subexprs[i].bits)
     ELSE UNCHANGED <<value, real, size>>
  /\ i' = i - 1
  /\ UNCHANGED <<problem, rules, pc, expr>>

\* size > 4: None, and the search goes on.
TooLarge ==
  /\ pc = "collect" /\ i = 0 /\ value = Output /\ size > MaxSize
  /\ pc' = "idle"
  /\ expr' = NoExpr /\ value' = {} /\ real' = {} /\ size' = 0
  /\ UNCHANGED <<problem, rules, i>>

\* The end of collect_expr: assert!(value == self.output), then Some.
Return ==
  /\ pc = "collect" /\ i = 0
  /\ value = Output => size <= MaxSize
  /\ pc' = IF value = Output THEN "some" ELSE "panicked"
  /\ UNCHANGED <<problem, rules, collecting>>

Next ==
  \/ \E e \in problem.exprs : Test(e)
  \/ CollectAnd \/ CollectOr \/ TooLarge \/ Return

Spec == Init /\ [][Next]_vars

-----------------------------------------------------------------------------
(***************************************************************************)
(* Properties.                                                             *)
(***************************************************************************)

\* Whether set S has bit b right.
Right(S, b) == b \in S <=> b \in problem.output

\* The positions a rule settles.
Settled(s) == IF s.op = "And" THEN Sample \ s.first ELSE s.first

\* A kept conjunct is above the output and a disjunct below it, so that no
\* rule spoils a bit that is right; on all examples where that was tested.
RulesRight ==
  \A j \in DOMAIN subexprs :
    LET s == subexprs[j] D == IF problem.tested THEN All ELSE Sample
    IN  IF s.op = "And"
        THEN Output \subseteq s.first /\ s.bits \cap Sample \subseteq s.first
               /\ problem.output \cap D \subseteq s.bits
        ELSE s.first \subseteq Output /\ s.first \subseteq s.bits
               /\ s.bits \cap D \subseteq problem.output

\* What has left the mask is settled by a rule.
MaskSettled == \A b \in Sample \ mask : \E j \in DOMAIN subexprs : b \in Settled(subexprs[j])

\* While rules are collected: a rule to come settles each predicted bit that
\* is wrong; a bit predicted to be right is right, although a rule that looks
\* superfluous for the prediction is left out; and other examples are not spoilt.
Collecting ==
  pc \in {"collect", "some"} =>
    /\ \A b \in Sample : Right(value, b) \/ \E j \in 1 .. i : b \in Settled(subexprs[j])
    /\ \A b \in Sample : Right(value, b) => Right(real, b)
    /\ problem.tested => \A b \in Rest : Right(expr.bits, b) => Right(real, b)
    /\ pc = "some" => i = 0

\* Every rule settles more than MinGain positions, so there are few of them
\* however many expressions are enumerated: with 64 bits in each of N
\* examples and 2 * N for MinGain, less than 32.
RulesBounded ==
  Len(subexprs) * (MinGain + 1) + Cardinality(mask) <= Cardinality(Sample)

\* The assertion in collect_expr does not fail, whichever expressions came
\* before and in whatever order.
AssertHolds == pc # "panicked"

\* The inductive invariant the proofs use.
IndInv == TypeOK /\ RulesRight /\ MaskSettled /\ Collecting /\ AssertHolds

\* What test returns really has the output's value on the whole sample, not
\* only by the prediction; and if the rules were tested on all examples, it
\* is right on any example's bit on which the completed expression was.
ReturnedRight ==
  pc = "some" =>
    /\ real \cap Sample = Output
    /\ problem.tested => \A b \in Rest : Right(expr.bits, b) => Right(real, b)
=============================================================================
