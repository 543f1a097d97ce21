---------------------------- MODULE DecisionTrees ----------------------------
(* What a decision tree can and cannot tell apart, for TreeLearning and its *)
(* caller BvSearch.                                                         *)

Elements(q) == {q[i] : i \in DOMAIN q}

\* Some tree over the conditions Conds, with options of Opts at its leaves, is
\* right on all of E: examples that no condition tells apart have an option
\* in common. Options and conditions are sets of examples.
HasTree(E, Opts, Conds) ==
  \A e \in E : \E O \in Opts :
    \A d \in E : (\A C \in Conds : (d \in C) = (e \in C)) => d \in O
=============================================================================
