------------------------------ MODULE MCBvCegis ------------------------------
(* Four inputs, two of which the reference refuses; three expressions, of   *)
(* which the last is right everywhere or nowhere, and the first fits inputs *)
(* it is wrong on, or does not. Three examples fill a word.                 *)
EXTENDS BvCegis, TLC

CONSTANTS a, b, c

MCInputs == 1 .. 4
MCEvaluable == {1, 2}
MCExprs == {a, b, c}

P(fa, rb, rc) == [right |-> a :> {1} @@ b :> rb @@ c :> rc,
                  fits |-> a :> fa @@ b :> rb @@ c :> rc]
MCProblems ==
  {P({1}, {2}, MCInputs), P({1}, {1, 2, 3}, MCInputs), P({1, 2}, {2}, MCInputs),
   P({1}, {1, 2, 3}, {}), P({1, 2}, {2}, {})}

MCGiven == {<<1, 4>>, <<1, 2, 4>>}
MCReplies == {<<>>, <<a, b>>}

C(mode, limited, check, random, bad, divides, max) ==
  [mode |-> mode, limited |-> limited, check |-> check, random |-> random,
   bad |-> bad, divides |-> divides, maxExamples |-> max]

MCConfigs ==
  {C("pbe", FALSE, FALSE, 1, FALSE, TRUE, 0), C("refimpl", FALSE, TRUE, 0, FALSE, FALSE, 5),
   C("refimpl", TRUE, FALSE, 2, FALSE, FALSE, 7), C("chat", TRUE, FALSE, 1, FALSE, FALSE, 2),
   C("chat", TRUE, FALSE, 1, TRUE, FALSE, 0)}
=============================================================================
