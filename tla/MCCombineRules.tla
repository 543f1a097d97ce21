--------------------------- MODULE MCCombineRules ---------------------------
(* An instance of CombineRules for TLC. *)
EXTENDS CombineRules

MCSample == 1 .. 4
MCRest == {5}

\* Any expressions may come, in any order; one of them is not always defined.
MCExprs == [bits : SUBSET (1 .. 5), defined : {TRUE}] \cup {[bits |-> {1, 2, 3, 5}, defined |-> FALSE]}

\* Two ones and two zeros, or ones only, so that each can be settled by
\* several rules of either kind.
MCProblems ==
  [output : {{1, 2}, {1, 2, 5}, {1, 2, 3, 4}}, exprs : {MCExprs}, tested : BOOLEAN]
=============================================================================
