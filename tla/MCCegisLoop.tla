----------------------------- MODULE MCCegisLoop -----------------------------
(* Instances of CegisLoop for TLC. *)
EXTENDS CegisLoop, TLC

CONSTANTS t1, t2, i1, i2, c1, c2, c3

\* c1 is a small tree with small coefficients that needs an equation and is lost
\* at height 3, c2 a small one with large coefficients, c3 a deeper tree that
\* needs the middle region.
MCThreads == {t1, t2}
MCInputs == {i1, i2}
MCCandidates == {c1, c2, c3}
MCHeightsOf == (c1 :> {1, 2}) @@ (c2 :> {1, 2, 3}) @@ (c3 :> {2, 3})
MCCoeffOf == (c1 :> 1) @@ (c2 :> 1000) @@ (c3 :> 50)
\* Every constraint over these candidates and inputs.
MCProblems == [MCCandidates -> SUBSET MCInputs]
MCFeeds == {"HEIGHTONLY", "FIXED", "ALLINONE"}
\* Failing queries with a limit of four iterations, and neither.
MCRegimes == {[fails |-> TRUE, iterLimit |-> 4], [fails |-> FALSE, iterLimit |-> 0]}
=============================================================================
