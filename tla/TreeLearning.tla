---------------------------- MODULE TreeLearning ----------------------------
(***************************************************************************)
(* TreeLearning::run of the bit-vector solver: from options (expressions,  *)
(* each with the examples it is right on) and conditions (each with the    *)
(* examples it is zero on) a decision tree is grown greedily, splitting a  *)
(* subproblem by the condition of least conditional entropy until some     *)
(* option is right on all of it or the node limit is passed.               *)
(*                                                                         *)
(* Data: an option or a condition is the set of examples its Bits hold. A  *)
(* leaf holds the conditions taken from the root to it, in t those it lies *)
(* on the zero side of and in f the others, so that the tree is the set of *)
(* its leaves. Entropies are compared as count * entropy, with Log2 the    *)
(* binary logarithm in fixed point.                                        *)
(***************************************************************************)
EXTENDS Integers, Sequences, FiniteSets, FiniteSetsExt, DecisionTrees

CONSTANTS
  Problems,    \* the calls considered: size, options, conditions and limit
  WordBits,    \* u128::BITS
  Log2(_),     \* binary logarithm, scaled to an integer
  Penalty      \* 1e10, in the same scale

Range0(size) == 0 .. size - 1

ASSUME TreeAssumption ==
  /\ WordBits \in Nat \ {0}
  /\ Penalty \in Nat
  /\ \A p \in Problems :
       /\ p.size \in Nat \ {0}
       /\ p.options \in Seq(SUBSET Range0(p.size))
       /\ p.conditions \in Seq(SUBSET Range0(p.size))
       /\ p.limit \in Nat
       /\ \A n \in 1 .. p.size : Log2(n) \in 0 .. Penalty - 1
       /\ \A e \in Range0(p.size) : \E i \in DOMAIN p.options : e \in p.options[i]

VARIABLES
  prob,         \* the arguments of tree_learning
  subproblems,  \* the stack of unsolved leaves, with their bits and branches
  accepted,     \* the accepted leaves and the option chosen for each
  counter,      \* nodes made so far
  status        \* "run", "solved", "limit" (left unsolved) or "panicked"

vars == <<prob, subproblems, accepted, counter, status>>

Options == prob.options
Conditions == prob.conditions
Path == SUBSET DOMAIN Conditions
Bits == SUBSET Range0(prob.size)

TypeOK ==
  /\ prob \in Problems
  /\ subproblems \in Seq([bits : Bits, t : Path, f : Path])
  /\ accepted \subseteq [bits : Bits, t : Path, f : Path, option : DOMAIN Options]
  /\ counter \in Nat
  /\ status \in {"run", "solved", "limit", "panicked"}

-----------------------------------------------------------------------------
ceildiv(a, b) == (a + b - 1) \div b

\* boxed_ones: whole words, then the last word, which has (1 << rem) - 1.
boxed_ones(size) ==
  LET rem == size % WordBits
  IN  {i \in Range0(size) : i < (ceildiv(size, WordBits) - 1) * WordBits + rem}

\* The options by falling number of hits, earlier ones first among equals.
Before(S, j, k) ==
  LET hits(i) == Cardinality(Options[i] \cap S)
  IN  hits(j) > hits(k) \/ (hits(j) = hits(k) /\ j < k)

\* How many examples option k is the first to be right on.
Gain(S, k) ==
  Cardinality({e \in Options[k] \cap S :
                 \A j \in DOMAIN Options : Before(S, j, k) => e \notin Options[j]})

\* entropy(S), times the number of examples in S.
entropy(S) ==
  MapThenSumSet(LAMBDA k : Gain(S, k) * (Log2(Cardinality(S)) - Log2(Gain(S, k))),
                {k \in DOMAIN Options : Gain(S, k) > 0})

\* Mutant: a split that leaves one side empty is not penalised.
cond_entropy_plain(S, C) == entropy(S \cap C) + entropy(S \ C)

\* cond_entropy(S, C), times the number of examples in S.
cond_entropy(S, C) ==
  IF S \cap C = {} \/ S \ C = {} THEN Cardinality(S) * Penalty
  ELSE entropy(S \cap C) + entropy(S \ C)

\* min_by: the first condition of least conditional entropy.
Best(S, c) ==
  \A d \in DOMAIN Conditions :
    LET x == cond_entropy(S, Conditions[c])
        y == cond_entropy(S, Conditions[d])
    IN  x < y \/ (x = y /\ c <= d)

\* Mutant: the test for a subset is the wrong way round.
FitsReversed(S, i) == entropy(S) = 0 /\ Options[i] \subseteq S

\* An option that ends the subproblem.
Fits(S, i) == entropy(S) = 0 /\ S \subseteq Options[i]

-----------------------------------------------------------------------------
Init ==
  /\ prob \in Problems
  /\ subproblems = <<[bits |-> boxed_ones(prob.size), t |-> {}, f |-> {}]>>
  /\ accepted = {}
  /\ counter = 1
  /\ status = "run"

Running == status = "run" /\ subproblems # <<>>
Top == subproblems[Len(subproblems)]
Rest == SubSeq(subproblems, 1, Len(subproblems) - 1)

\* SelectResult::Accept, the first option that fits.
Accept ==
  /\ Running
  /\ \E i \in DOMAIN Options :
       /\ Fits(Top.bits, i)
       /\ \A j \in DOMAIN Options : Fits(Top.bits, j) => i <= j
       /\ accepted' = accepted \cup
            {[bits |-> Top.bits, t |-> Top.t, f |-> Top.f, option |-> i]}
  /\ subproblems' = Rest
  /\ UNCHANGED <<prob, counter, status>>

ZeroSide(c) ==
  [bits |-> Top.bits \cap Conditions[c], t |-> Top.t \cup {c}, f |-> Top.f]

OtherSide(c) ==
  [bits |-> Top.bits \ Conditions[c], t |-> Top.t, f |-> Top.f \cup {c}]

\* SelectResult::Ite: both sides are pushed, then the limit is tested.
Split ==
  /\ Running
  /\ \A i \in DOMAIN Options : ~Fits(Top.bits, i)
  /\ \E c \in DOMAIN Conditions :
       /\ Best(Top.bits, c)
       /\ subproblems' = Append(Append(Rest, OtherSide(c)), ZeroSide(c))
  /\ counter' = counter + 2
  /\ status' = IF counter + 2 > prob.limit THEN "limit" ELSE "run"
  /\ UNCHANGED <<prob, accepted>>

\* .expect("At least have one condition.")
NoCondition ==
  /\ Running
  /\ \A i \in DOMAIN Options : ~Fits(Top.bits, i)
  /\ Conditions = <<>>
  /\ status' = "panicked"
  /\ UNCHANGED <<prob, subproblems, accepted, counter>>

\* The stack is empty.
Finish ==
  /\ status = "run"
  /\ subproblems = <<>>
  /\ status' = "solved"
  /\ UNCHANGED <<prob, subproblems, accepted, counter>>

Next == Accept \/ Split \/ NoCondition \/ Finish

Spec == Init /\ [][Next]_vars

-----------------------------------------------------------------------------
(***************************************************************************)
(* Properties.                                                             *)
(***************************************************************************)

\* Example e takes every branch on the way to leaf l.
Follows(e, l) ==
  /\ \A c \in l.t : e \in Conditions[c]
  /\ \A c \in l.f : e \notin Conditions[c]

Leaves == {subproblems[i] : i \in DOMAIN subproblems} \cup accepted

\* The bits of a leaf are the examples that reach it, and an accepted leaf's
\* option is right on them.
BitsMatchPath ==
  /\ \A l \in Leaves : l.bits = {e \in boxed_ones(prob.size) : Follows(e, l)}
  /\ \A l \in accepted : l.bits \subseteq Options[l.option]

\* Every example reaches a leaf.
LeavesCover ==
  \A e \in boxed_ones(prob.size) : \E l \in Leaves : Follows(e, l)

StackDone == status = "solved" => subproblems = <<>>

\* The value of the tree on e is that of an option that is right on e.
RightOn(e) ==
  /\ \E l \in accepted : Follows(e, l)
  /\ \A l \in accepted : Follows(e, l) => e \in Options[l.option]

\* A tree reported as solved (and so turned into an expression by bvexpr) is
\* right on every example. boxed_ones is all of them only if their number is
\* not a multiple of the word size: then the last word is left out.
SolvedIsRight ==
  status = "solved" /\ prob.size % WordBits # 0 =>
    \A e \in Range0(prob.size) : RightOn(e)

\* Some tree over these conditions solves the problem.
Learnable ==
  HasTree(boxed_ones(prob.size), Elements(Options), Elements(Conditions))

\* If there is a tree, every split tells examples apart: the leaves share out
\* the examples, none gets nothing, and counter is the number of nodes of a
\* binary tree with these leaves.
SplitsTell ==
  Learnable /\ boxed_ones(prob.size) # {} =>
    /\ \A l \in Leaves : l.bits # {}
    /\ \A i, j \in DOMAIN subproblems :
         i # j => subproblems[i].bits \cap subproblems[j].bits = {}
    /\ \A a, b \in accepted : a # b => a.bits \cap b.bits = {}
    /\ \A i \in DOMAIN subproblems, a \in accepted : subproblems[i].bits \cap a.bits = {}
    /\ IsFiniteSet(accepted)
    /\ counter = 2 * (Len(subproblems) + Cardinality(accepted)) - 1

\* With room for one leaf per example, the limit is passed only without a tree,
\* and select is never left without a condition if there is one.
FailureIsHopeless ==
  status = "panicked" \/ (status = "limit" /\ prob.limit >= 2 * prob.size) => ~Learnable

\* What the leaves hold, and the inductive invariant the proofs use.
PathInv == TypeOK /\ BitsMatchPath /\ LeavesCover /\ StackDone
IndInv == PathInv /\ SplitsTell /\ FailureIsHopeless

\* The nodes made for a problem that has a tree are no more than those of a
\* binary tree with one leaf for each example, whatever the limit.
TreeSmall == Learnable /\ boxed_ones(prob.size) # {} => counter < 2 * prob.size

\* Greedy as it is, the learner decides learnability: it never solves what has
\* no tree; if there is one it does not panic for want of a condition, and given
\* room for one leaf per example it finds one, without splitting for ever by
\* conditions that tell nothing apart.
DecidesLearnable == (status = "solved" => Learnable) /\ FailureIsHopeless
=============================================================================
