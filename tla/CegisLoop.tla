------------------------------ MODULE CegisLoop ------------------------------
(***************************************************************************)
(* Cegis.cegis(), the counterexample-guided loop of the CLIA and INV       *)
(* tracks, run by several threads that share one counterexample store      *)
(* (CEGISEnv.counterExamples) and fetch tree heights from one Producer1D.  *)
(* Within a height the synthesiser looks through coefficient regions of    *)
(* growing bound: 1, then 100, then unbounded (condBound = -1).            *)
(*                                                                         *)
(* Data: a candidate is an opaque value with the tree heights that can     *)
(* express it, the coefficient bound it needs, and the set of inputs on    *)
(* which it meets the constraint. A higher tree need not express what a    *)
(* lower one does: above eqBound the conditions lose the equations, and a  *)
(* function without arguments has a tree of height 1 only. z3 is external: *)
(* a query is answered correctly or "unknown".                             *)
(***************************************************************************)
EXTENDS Integers, FiniteSets

CONSTANTS
  Threads,       \* the worker threads
  Inputs,        \* valuations of problem.vars
  Candidates,    \* functions the expansion can express
  HeightsOf,     \* the tree heights that express a candidate
  CoeffOf,       \* the least coefficient bound that expresses it
  Problems,      \* the constraints considered: candidate -> inputs it meets
  Feeds,         \* the CEGISEnv.feedTypes considered
  MaxSMT,        \* maxsmtFlag: the synthesiser ignores condBound
  Regimes,       \* the regimes considered: iterLimit, 0 for none, and whether
                 \* z3 may answer unknown and the clock run out
  MaxHeight,     \* bound: heights past it are not fetched
  None           \* no candidate: a null reference

ASSUME CegisAssumption ==
  /\ HeightsOf \in [Candidates -> SUBSET (Nat \ {0})]
  /\ CoeffOf \in [Candidates -> Nat]
  /\ Problems \subseteq [Candidates -> SUBSET Inputs]
  /\ Feeds \subseteq {"HEIGHTONLY", "FIXED", "ALLINONE"}
  /\ MaxSMT \in BOOLEAN
  /\ Regimes \subseteq [fails : BOOLEAN, iterLimit : Nat]
  /\ MaxHeight \in Nat
  /\ None \notin Candidates
  /\ IsFiniteSet(Threads)

searchRegions == 2      \* Cegis.searchRegions
Infinity == -1          \* condBound of the last region

VARIABLES
  problem,          \* which inputs each candidate meets the constraint on
  regime,           \* the regime of this run
  feedType,         \* CEGISEnv.feedType
  height,           \* Producer1D.height
  counterExamples,  \* copies of each input in the shared store: it holds
                    \* arrays, compared by identity, so repeats are kept
  pc,               \* where each thread is
  heightBound,      \* the height it searches
  condBound,        \* its coefficient bound
  condBoundInc,     \* the number of its region
  iterCount,        \* its iterations, never reset
  functions,        \* its current candidate
  results,          \* the candidate it has published
  refuted           \* heights given up because the last region was UNSAT

shared == <<problem, regime, feedType, height, counterExamples, refuted>>
bounds == <<heightBound, condBound, condBoundInc>>
vars == <<shared, bounds, pc, iterCount, functions, results>>

PCs == {"fetch", "iterate", "verify", "ended"}

TypeOK ==
  /\ problem \in Problems
  /\ regime \in Regimes /\ feedType \in Feeds
  /\ height \in Nat \ {0}
  /\ counterExamples \in [Inputs -> Nat]
  /\ pc \in [Threads -> PCs]
  /\ heightBound \in [Threads -> Nat \ {0}]
  /\ condBound \in [Threads -> {1, 100, Infinity}]
  /\ condBoundInc \in [Threads -> 1 .. searchRegions + 1]
  /\ iterCount \in [Threads -> Nat]
  /\ functions \in [Threads -> Candidates \cup {None}]
  /\ results \in [Threads -> Candidates \cup {None}]
  /\ refuted \subseteq Nat

\* The counterexamples in the store.
Recorded == {i \in Inputs : counterExamples[i] > 0}

Solves(c) == problem[c] = Inputs

\* expandCoefficient: the candidates a thread's bounds admit.
Admits(t, c) ==
  /\ heightBound[t] \in HeightsOf[c]
  /\ MaxSMT \/ condBound[t] = Infinity \/ CoeffOf[c] <= condBound[t]

\* Mutant: the query leaves the recorded counterexamples out.
ConsistentUnconstrained(t) == {c \in Candidates : Admits(t, c)}

\* What synthesis(condBound) may return: the candidates within the bounds
\* that are right on every recorded counterexample.
Consistent(t) == {c \in Candidates : Admits(t, c) /\ Recorded \subseteq problem[c]}

Init ==
  /\ problem \in Problems
  /\ regime \in Regimes /\ feedType \in Feeds
  /\ height = 1
  /\ counterExamples = [i \in Inputs |-> 0]
  /\ pc = [t \in Threads |-> "fetch"]
  /\ heightBound = [t \in Threads |-> 1]
  /\ condBound = [t \in Threads |-> 1]
  /\ condBoundInc = [t \in Threads |-> 1]
  /\ iterCount = [t \in Threads |-> 0]
  /\ functions = [t \in Threads |-> None]
  /\ results = [t \in Threads |-> None]
  /\ refuted = {}

Goto(t, l) == pc' = [pc EXCEPT ![t] = l]

SetBounds(t, h, b, r) ==
  /\ heightBound' = [heightBound EXCEPT ![t] = h]
  /\ condBound' = [condBound EXCEPT ![t] = b]
  /\ condBoundInc' = [condBoundInc EXCEPT ![t] = r]

\* Leaving cegis() for the loop of run(): with a producer there is another
\* height, without one the thread is done.
Return(t) == Goto(t, IF feedType = "HEIGHTONLY" THEN "fetch" ELSE "ended")

-----------------------------------------------------------------------------
\* Mutant: the producer counts up before it hands out, and height 1 is lost.
FetchSkips(t) ==
  /\ pc[t] = "fetch"
  /\ results[t] = None
  /\ IF feedType = "HEIGHTONLY"
     THEN /\ height <= MaxHeight
          /\ SetBounds(t, height + 1, 1, 1)
          /\ height' = height + 1
     ELSE /\ SetBounds(t, 1, 1, 1)
          /\ UNCHANGED height
  /\ Goto(t, "iterate")
  /\ UNCHANGED <<problem, regime, feedType, counterExamples, refuted, iterCount,
                 functions, results>>

\* Entering cegis() with the next height, or with the fixed or first one.
Fetch(t) ==
  /\ pc[t] = "fetch"
  /\ results[t] = None
  /\ IF feedType = "HEIGHTONLY"
     THEN /\ height <= MaxHeight
          /\ SetBounds(t, height, 1, 1)
          /\ height' = height + 1
     ELSE /\ SetBounds(t, 1, 1, 1)
          /\ UNCHANGED height
  /\ Goto(t, "iterate")
  /\ UNCHANGED <<problem, regime, feedType, counterExamples, refuted, iterCount,
                 functions, results>>

\* iterCount > iterLimit: cegis() returns, and so does run().
LimitHit(t) ==
  /\ pc[t] = "iterate"
  /\ iterCount' = [iterCount EXCEPT ![t] = @ + 1]
  /\ regime.iterLimit > 0 /\ iterCount[t] + 1 > regime.iterLimit
  /\ Goto(t, "ended")
  /\ UNCHANGED <<shared, bounds, functions, results>>

\* One more iteration within the limit. The counter is never reset, so the
\* limit holds over all heights; it is not read, nor kept here, without one.
Iterate(t) ==
  /\ pc[t] = "iterate"
  /\ regime.iterLimit = 0 \/ iterCount[t] + 1 <= regime.iterLimit
  /\ iterCount' = IF regime.iterLimit = 0 THEN iterCount
                  ELSE [iterCount EXCEPT ![t] = @ + 1]

\* synthesis: SATISFIABLE, the model is decoded into functions.
Synthesize(t) ==
  /\ Iterate(t)
  /\ \E c \in Consistent(t) : functions' = [functions EXCEPT ![t] = c]
  /\ Goto(t, "verify")
  /\ UNCHANGED <<shared, bounds, results>>

\* Mutant: the bound is lifted one region late.
WidenBoundLate(t) ==
  SetBounds(t, heightBound[t],
            IF condBoundInc[t] > searchRegions THEN Infinity ELSE 100,
            condBoundInc[t] + 1)

\* The next region of the same height.
WidenBound(t) ==
  SetBounds(t, heightBound[t],
            IF condBoundInc[t] = searchRegions THEN Infinity ELSE 100,
            condBoundInc[t] + 1)

\* Mutant: the unbounded region is taken for searched when it was not entered.
LastRegionEarly(t) == condBoundInc[t] >= searchRegions

\* The unbounded region is being searched.
LastRegion(t) == condBoundInc[t] > searchRegions

\* All regions done: leave this height, or grow it when none is fixed.
NextHeight(t) ==
  IF feedType = "ALLINONE"
  THEN /\ heightBound[t] < MaxHeight
       /\ SetBounds(t, heightBound[t] + 1, 1, 1)
       /\ Goto(t, "iterate")
  ELSE /\ Return(t)
       /\ UNCHANGED bounds

\* synthesis: UNSATISFIABLE.
Unsat(t) ==
  /\ Iterate(t)
  /\ Consistent(t) = {}
  /\ \/ /\ LastRegion(t)
        /\ refuted' = refuted \cup {heightBound[t]}
        /\ NextHeight(t)
     \/ /\ ~LastRegion(t)
        /\ WidenBound(t)
        /\ UNCHANGED <<pc, refuted>>
  /\ UNCHANGED <<problem, regime, feedType, height, counterExamples, functions, results>>

\* synthesis: UNKNOWN, the height is given up whatever was found.
SynthUnknown(t) ==
  /\ Iterate(t)
  /\ regime.fails
  /\ Return(t)
  /\ UNCHANGED <<shared, bounds, functions, results>>

\* Mutant: a candidate right on the recorded counterexamples is accepted.
AcceptRecorded(t) ==
  /\ pc[t] = "verify"
  /\ Recorded \subseteq problem[functions[t]]
  /\ results' = [results EXCEPT ![t] = functions[t]]
  /\ Goto(t, "ended")
  /\ UNCHANGED <<shared, bounds, iterCount, functions>>

\* verify: UNSATISFIABLE, the candidate is right on every input.
Accept(t) ==
  /\ pc[t] = "verify"
  /\ Solves(functions[t])
  /\ results' = [results EXCEPT ![t] = functions[t]]
  /\ Goto(t, "ended")
  /\ UNCHANGED <<shared, bounds, iterCount, functions>>

\* verify: UNKNOWN.
VerifyUnknown(t) ==
  /\ pc[t] = "verify"
  /\ regime.fails
  /\ Return(t)
  /\ UNCHANGED <<shared, bounds, iterCount, functions, results>>

\* verify: SATISFIABLE; the model is an input the candidate is wrong on, and
\* it is added to the store under the store's lock. Then the clock is read:
\* past minFinite the next region is entered, past minInfinite the next height.
Refute(t) ==
  /\ pc[t] = "verify"
  /\ \E i \in Inputs \ problem[functions[t]] :
       counterExamples' = [counterExamples EXCEPT ![i] = @ + 1]
  /\ \/ /\ Goto(t, "iterate")
        /\ UNCHANGED bounds
     \/ /\ regime.fails
        /\ condBoundInc[t] > 1 /\ ~LastRegion(t)
        /\ WidenBound(t)
        /\ Goto(t, "iterate")
     \/ /\ regime.fails
        /\ LastRegion(t)
        /\ NextHeight(t)
  /\ UNCHANGED <<problem, regime, feedType, height, refuted, iterCount, functions,
                 results>>

Step(t) ==
  \/ Fetch(t) \/ LimitHit(t) \/ Synthesize(t) \/ Unsat(t) \/ SynthUnknown(t)
  \/ Accept(t) \/ VerifyUnknown(t) \/ Refute(t)

Next == \E t \in Threads : Step(t)

Spec == Init /\ [][Next]_vars

\* Every thread is scheduled and every query is answered.
FairSpec == Spec /\ \A t \in Threads : WF_vars(Step(t))

-----------------------------------------------------------------------------
(***************************************************************************)
(* Properties.                                                             *)
(***************************************************************************)

\* The threads about to record input i: their candidate is wrong on it.
Pending(i) ==
  {t \in Threads : pc[t] = "verify" /\ i \notin problem[functions[t]]}

\* A published result meets the constraint on every input and fits the
\* height it is reported at, even if the store grew while it was verified.
ResultSolves ==
  \A t \in Threads : results[t] # None =>
    Solves(results[t]) /\ heightBound[t] \in HeightsOf[results[t]]

\* The store, which compares arrays by identity and so keeps repeats, stays
\* small all the same: no thread records the same input twice, at whatever
\* height or region, because its next candidate is right on it.
CopiesBounded ==
  \A i \in Inputs :
    counterExamples[i] + Cardinality(Pending(i)) <= Cardinality(Threads)

\* A height left for UNSAT in the last region has no solution, whatever
\* counterexamples other threads contributed and whichever region was cut
\* short by the clock.
RefutedHasNoSolution ==
  \A h \in refuted : \A c \in Candidates : h \in HeightsOf[c] => ~Solves(c)

\* The region number and the coefficient bound stay in step: 1, 100, unbounded.
RegionBound ==
  \A t \in Threads :
    condBound[t] = IF condBoundInc[t] = 1 THEN 1
                   ELSE IF condBoundInc[t] = searchRegions THEN 100
                   ELSE Infinity

\* A candidate under verification fits the bounds it was synthesised under.
CandidateAdmitted ==
  \A t \in Threads : pc[t] = "verify" =>
    functions[t] \in Candidates /\ Admits(t, functions[t])

\* A thread that has published has left the loop for good.
ResultEnds == \A t \in Threads : results[t] # None => pc[t] = "ended"

\* The inductive invariant the proofs use: types, the agreement of region
\* number and bound, and of candidate and bounds, carry the safety properties.
IndInv ==
  /\ TypeOK
  /\ RegionBound
  /\ CandidateAdmitted
  /\ ResultEnds
  /\ ResultSolves
  /\ RefutedHasNoSolution
  /\ CopiesBounded

\* Thread t searches height h, or has ended there with a result.
Owns(t, h) ==
  heightBound[t] = h /\ (pc[t] \in {"iterate", "verify"} \/ results[t] # None)

\* A height that a producer has handed out, or that a thread without one has
\* passed, was refuted, is being searched or has given a result: between the
\* threads, none is skipped as long as z3 answers and there is no limit. With
\* RefutedHasNoSolution, a solution that is missed so far is still ahead.
NoHeightSkipped ==
  ~regime.fails /\ regime.iterLimit = 0 =>
    /\ feedType = "HEIGHTONLY" => \A h \in 1 .. height - 1 :
         h \in refuted \/ \E t \in Threads : Owns(t, h)
    /\ feedType = "ALLINONE" => \A t \in Threads : 1 .. heightBound[t] - 1 \subseteq refuted

\* If some candidate of reachable height solves the problem, z3 always answers
\* and there is no iteration limit, a thread publishes a solution: the loop makes
\* progress in every region and no height is skipped.
SolvableIsSolved ==
  (/\ ~regime.fails /\ regime.iterLimit = 0 /\ feedType # "FIXED"
   /\ \E c \in Candidates : Solves(c) /\ HeightsOf[c] \cap 1 .. MaxHeight # {})
    ~> (\E t \in Threads : results[t] # None)
=============================================================================
