--------------------------- MODULE MCTreeLearning ---------------------------
(* Instances of TreeLearning for TLC. *)
EXTENDS TreeLearning

\* 1000 * log2
MCLog2(n) == <<0, 1000, 1585, 2000>>[n]

SeqsUpTo(S, n) == UNION {[1 .. k -> S] : k \in 0 .. n}

Covering(size, n) ==
  {o \in SeqsUpTo(SUBSET Range0(size), n) :
     \A e \in Range0(size) : \E i \in DOMAIN o : e \in o[i]}

Calls(size, options, conditions, limits) ==
  [size : {size}, options : Covering(size, options),
   conditions : SeqsUpTo(SUBSET Range0(size), conditions), limit : limits]

\* Words of three bits: four examples are two words, three are one full word.
Small == Calls(4, 2, 2, {3, 8}) \cup Calls(3, 2, 2, {7}) \cup Calls(2, 3, 2, {4})

\* Two options that only two conditions together tell apart.
Crossed == [size : {4}, options : {<<{0, 3}, {1, 2}>>},
            conditions : [1 .. 3 -> SUBSET Range0(4)], limit : {8}]

MCProblems == Small \cup Crossed
=============================================================================
