--------------------------- MODULE CegisLoopProofs ---------------------------
(* Safety of the counterexample-guided loop, for every set of threads,     *)
(* inputs and candidates, every family of problems and every bound.        *)
EXTENDS CegisLoop, FiniteSetTheorems, TLAPS

\* Every step keeps the types.
LEMMA StepTypeOK ==
  ASSUME TypeOK, NEW t \in Threads, Step(t)
  PROVE  TypeOK'
PROOF
<1> USE CegisAssumption DEF TypeOK, PCs, LastRegion, searchRegions, Infinity
<1>1. CASE Fetch(t)
  BY <1>1 DEF Fetch, SetBounds, Goto
<1>2. CASE LimitHit(t)
  BY <1>2 DEF LimitHit, shared, bounds, Goto
<1>3. CASE Synthesize(t)
  BY <1>3 DEF Synthesize, Iterate, Consistent, shared, bounds, Goto
<1>4. CASE Unsat(t)
  <2>1. iterCount' \in [Threads -> Nat]
    BY <1>4 DEF Unsat, Iterate
  <2>2. refuted' \subseteq Nat
    <3>1. refuted' = refuted \/ refuted' = refuted \cup {heightBound[t]}
      BY <1>4 DEF Unsat
    <3>2. heightBound[t] \in Nat /\ refuted \subseteq Nat
      OBVIOUS
    <3> HIDE DEF TypeOK
    <3> QED BY ONLY <3>1, <3>2
  <2>3. pc' \in [Threads -> PCs]
    BY <1>4 DEF Unsat, NextHeight, Return, Goto
  <2>4. /\ heightBound' \in [Threads -> Nat \ {0}]
        /\ condBound' \in [Threads -> {1, 100, Infinity}]
        /\ condBoundInc' \in [Threads -> 1 .. searchRegions + 1]
    BY <1>4 DEF Unsat, NextHeight, WidenBound, SetBounds, bounds
  <2> QED BY <1>4, <2>1, <2>2, <2>3, <2>4 DEF Unsat
<1>5. CASE SynthUnknown(t)
  BY <1>5 DEF SynthUnknown, Iterate, Return, shared, bounds, Goto
<1>6. CASE Accept(t)
  BY <1>6 DEF Accept, shared, bounds, Goto
<1>7. CASE VerifyUnknown(t)
  BY <1>7 DEF VerifyUnknown, Return, shared, bounds, Goto
<1>8. CASE Refute(t)
  BY <1>8 DEF Refute, NextHeight, WidenBound, SetBounds, Return, bounds, Goto
<1> QED BY <1>1, <1>2, <1>3, <1>4, <1>5, <1>6, <1>7, <1>8 DEF Step

\* The region number and the coefficient bound change together.
LEMMA StepRegionBound ==
  ASSUME TypeOK, RegionBound, NEW t \in Threads, Step(t)
  PROVE  RegionBound'
PROOF
<1> USE DEF TypeOK, RegionBound, LastRegion, searchRegions, Infinity
<1>1. CASE Fetch(t)
  BY <1>1 DEF Fetch, SetBounds
<1>2. CASE LimitHit(t) \/ Synthesize(t) \/ SynthUnknown(t) \/ Accept(t) \/ VerifyUnknown(t)
  BY <1>2 DEF LimitHit, Synthesize, SynthUnknown, Accept, VerifyUnknown, bounds
<1>3. CASE Unsat(t)
  BY <1>3 DEF Unsat, NextHeight, WidenBound, SetBounds, bounds
<1>4. CASE Refute(t)
  BY <1>4 DEF Refute, NextHeight, WidenBound, SetBounds, bounds
<1> QED BY <1>1, <1>2, <1>3, <1>4 DEF Step

\* A thread's bounds change only on the way out of verification, so that its
\* candidate is verified under the bounds it was synthesised under.
LEMMA StepCandidateAdmitted ==
  ASSUME TypeOK, CandidateAdmitted, NEW t \in Threads, Step(t)
  PROVE  CandidateAdmitted'
PROOF
<1> USE DEF TypeOK, CandidateAdmitted, Admits, Infinity
<1>1. CASE Fetch(t)
  BY <1>1 DEF Fetch, SetBounds, Goto
<1>2. CASE LimitHit(t)
  BY <1>2 DEF LimitHit, shared, bounds, Goto
<1>3. CASE Synthesize(t)
  BY <1>3 DEF Synthesize, Consistent, shared, bounds, Goto
<1>4. CASE Unsat(t)
  BY <1>4 DEF Unsat, Iterate, NextHeight, WidenBound, SetBounds, Return, bounds, Goto
<1>5. CASE SynthUnknown(t)
  BY <1>5 DEF SynthUnknown, Return, shared, bounds, Goto
<1>6. CASE Accept(t)
  BY <1>6 DEF Accept, shared, bounds, Goto
<1>7. CASE VerifyUnknown(t)
  BY <1>7 DEF VerifyUnknown, Return, shared, bounds, Goto
<1>8. CASE Refute(t)
  BY <1>8 DEF Refute, NextHeight, WidenBound, SetBounds, Return, bounds, Goto
<1> QED BY <1>1, <1>2, <1>3, <1>4, <1>5, <1>6, <1>7, <1>8 DEF Step

\* Only an accepted candidate is published, and its thread stops there.
LEMMA StepResult ==
  ASSUME TypeOK, CandidateAdmitted, ResultEnds, ResultSolves,
         NEW t \in Threads, Step(t)
  PROVE  ResultEnds' /\ ResultSolves'
PROOF
<1> USE DEF TypeOK, ResultEnds, ResultSolves, Solves
<1>1. CASE Fetch(t)
  BY <1>1 DEF Fetch, SetBounds, Goto
<1>2. CASE LimitHit(t)
  BY <1>2 DEF LimitHit, shared, bounds, Goto
<1>3. CASE Synthesize(t)
  BY <1>3 DEF Synthesize, Iterate, shared, bounds, Goto
<1>4. CASE Unsat(t)
  BY <1>4 DEF Unsat, Iterate, NextHeight, WidenBound, SetBounds, Return, bounds, Goto
<1>5. CASE SynthUnknown(t)
  BY <1>5 DEF SynthUnknown, Iterate, Return, shared, bounds, Goto
<1>6. CASE Accept(t)
  BY <1>6 DEF Accept, CandidateAdmitted, Admits, shared, bounds, Goto
<1>7. CASE VerifyUnknown(t)
  BY <1>7 DEF VerifyUnknown, Return, shared, bounds, Goto
<1>8. CASE Refute(t)
  BY <1>8 DEF Refute, NextHeight, WidenBound, SetBounds, Return, bounds, Goto
<1> QED BY <1>1, <1>2, <1>3, <1>4, <1>5, <1>6, <1>7, <1>8 DEF Step

\* In the last region every candidate of the height is admitted, and one that
\* is right on all inputs is right on the recorded ones.
LEMMA StepRefuted ==
  ASSUME TypeOK, RegionBound, RefutedHasNoSolution, NEW t \in Threads, Step(t)
  PROVE  RefutedHasNoSolution'
PROOF
<1>1. CASE refuted' = refuted
  <2>1. problem' = problem
    BY DEF Step, Fetch, LimitHit, Synthesize, Unsat, SynthUnknown, Accept,
           VerifyUnknown, Refute, shared
  <2> QED BY <1>1, <2>1 DEF RefutedHasNoSolution, Solves
<1>2. CASE refuted' # refuted
  <2>1. /\ Consistent(t) = {}
        /\ condBoundInc[t] > searchRegions
        /\ refuted' = refuted \cup {heightBound[t]}
        /\ problem' = problem
    BY <1>2 DEF Step, Fetch, LimitHit, Synthesize, Unsat, SynthUnknown, Accept,
                VerifyUnknown, Refute, LastRegion, shared
  <2>2. condBound[t] = Infinity
    BY <2>1 DEF TypeOK, RegionBound, searchRegions
  <2>3. \A c \in Candidates : heightBound[t] \in HeightsOf[c] => ~Solves(c)
    BY <2>1, <2>2 DEF Consistent, Admits, Recorded, Solves
  <2> QED BY <2>1, <2>3 DEF RefutedHasNoSolution, Solves
<1> QED BY <1>1, <1>2
\* Counting one thread more or less.
LEMMA CardinalityStep ==
  ASSUME NEW S, IsFiniteSet(S), NEW t
  PROVE  /\ Cardinality(S) \in Nat
         /\ IsFiniteSet(S \cup {t}) /\ IsFiniteSet(S \ {t})
         /\ Cardinality(S \cup {t}) <= Cardinality(S) + 1
         /\ t \in S => Cardinality(S \ {t}) = Cardinality(S) - 1
PROOF
  BY FS_CardinalityType, FS_AddElement, FS_RemoveElement

\* A thread that is not pending on i and starts a candidate wrong on i does so
\* while i is not recorded; a pending one that leaves verification adds at
\* most one copy of i and is pending no longer.
LEMMA StepCopies ==
  ASSUME TypeOK, TypeOK', CandidateAdmitted, CopiesBounded,
         NEW t \in Threads, Step(t)
  PROVE  CopiesBounded'
PROOF
<1> SUFFICES ASSUME NEW i \in Inputs
             PROVE  (counterExamples[i] + Cardinality(Pending(i)) <= Cardinality(Threads))'
  BY DEF CopiesBounded
<1> DEFINE P == Pending(i)
           Q == Pending(i)'
<1>1. /\ P \subseteq Threads /\ Q \subseteq Threads
      /\ IsFiniteSet(P) /\ IsFiniteSet(Q)
      /\ Cardinality(Threads) \in Nat /\ Cardinality(P) \in Nat /\ Cardinality(Q) \in Nat
      /\ Cardinality(P) <= Cardinality(Threads) /\ Cardinality(Q) <= Cardinality(Threads)
  <2>1. P \subseteq Threads /\ Q \subseteq Threads
    BY DEF Pending
  <2> HIDE DEF P, Q
  <2> QED BY <2>1, CegisAssumption, FS_Subset, FS_CardinalityType
<1>2. /\ counterExamples[i] \in Nat
      /\ counterExamples'[i] \in Nat
      /\ counterExamples[i] + Cardinality(P) <= Cardinality(Threads)
  BY DEF TypeOK, CopiesBounded
<1>3. CASE Synthesize(t)
  <2>1. counterExamples' = counterExamples
    BY <1>3 DEF Synthesize, shared
  <2>2. CASE counterExamples[i] = 0
    <3> HIDE DEF P, Q
    <3> QED BY <1>1, <2>1, <2>2 DEF Q
  <2>3. CASE counterExamples[i] # 0
    <3>1. i \in Recorded
      BY <2>3, <1>2 DEF Recorded
    <3>2. t \notin Q
      BY <1>3, <3>1 DEF Synthesize, Consistent, Pending, shared, TypeOK
    <3>3. Q \subseteq P
      BY <1>3, <3>2 DEF Synthesize, Pending, shared, Goto, TypeOK
    <3> HIDE DEF P, Q
    <3>4. Cardinality(Q) <= Cardinality(P)
      BY <1>1, <3>3, FS_Subset
    <3> QED BY <1>1, <1>2, <2>1, <3>4 DEF Q
  <2> QED BY <2>2, <2>3
<1>4. CASE Refute(t)
  <2>1. t \notin Q
    BY <1>4 DEF Refute, Pending, NextHeight, Return, Goto, TypeOK
  <2>2. Q \subseteq P
    BY <1>4, <2>1 DEF Refute, Pending, NextHeight, Return, Goto, TypeOK
  <2>3. counterExamples'[i] = counterExamples[i]
          \/ (t \in P /\ counterExamples'[i] = counterExamples[i] + 1)
    BY <1>4 DEF Refute, Pending, TypeOK
  <2> HIDE DEF P, Q
  <2>4. Cardinality(Q) <= Cardinality(P)
    BY <1>1, <2>2, FS_Subset
  <2>5. t \in P => Cardinality(Q) <= Cardinality(P) - 1
    <3>1. Q \subseteq P \ {t}
      BY <2>1, <2>2
    <3>2. IsFiniteSet(P \ {t}) /\ (t \in P => Cardinality(P \ {t}) = Cardinality(P) - 1)
      BY <1>1, CardinalityStep
    <3> QED BY <3>1, <3>2, FS_Subset
  <2> QED BY <1>1, <1>2, <2>3, <2>4, <2>5 DEF Q
<1>5. CASE ~Synthesize(t) /\ ~Refute(t)
  <2>1. counterExamples' = counterExamples /\ problem' = problem
    BY <1>5 DEF Step, Fetch, LimitHit, Unsat, SynthUnknown, Accept, VerifyUnknown, shared
  <2>2. functions' = functions /\ pc'[t] # "verify"
        /\ \A u \in Threads : u # t => pc'[u] = pc[u]
    BY <1>5 DEF Step, Fetch, LimitHit, Unsat, Iterate, NextHeight, SynthUnknown,
                Accept, VerifyUnknown, Return, Goto, TypeOK
  <2>3. Q \subseteq P
    BY <2>1, <2>2 DEF Pending
  <2> HIDE DEF P, Q
  <2>4. Cardinality(Q) <= Cardinality(P)
    BY <1>1, <2>3, FS_Subset
  <2> QED BY <1>1, <1>2, <2>1, <2>4 DEF Q
<1> QED BY <1>3, <1>4, <1>5

\* The inductive invariant holds in every reachable state of the loop.
THEOREM IndInvHolds == Spec => []IndInv
PROOF
<1>1. Init => IndInv
  <2> SUFFICES ASSUME Init PROVE IndInv
    OBVIOUS
  <2>1. TypeOK
    BY CegisAssumption DEF Init, TypeOK, PCs, searchRegions, Infinity
  <2>2. /\ RegionBound /\ CandidateAdmitted /\ ResultEnds /\ ResultSolves
        /\ RefutedHasNoSolution
    BY DEF Init, RegionBound, CandidateAdmitted, ResultEnds, ResultSolves,
           RefutedHasNoSolution
  <2>3. CopiesBounded
    <3> SUFFICES ASSUME NEW i \in Inputs
                 PROVE  counterExamples[i] + Cardinality(Pending(i)) <= Cardinality(Threads)
      BY DEF CopiesBounded
    <3>1. Pending(i) = {} /\ counterExamples[i] = 0
      BY DEF Init, Pending
    <3>2. Cardinality(Pending(i)) = 0
      BY <3>1, FS_EmptySet
    <3>3. Cardinality(Threads) \in Nat
      BY CegisAssumption, FS_CardinalityType
    <3> QED BY <3>1, <3>2, <3>3
  <2> QED BY <2>1, <2>2, <2>3 DEF IndInv
<1>2. IndInv /\ [Next]_vars => IndInv'
  <2> SUFFICES ASSUME IndInv, [Next]_vars PROVE IndInv'
    OBVIOUS
  <2>1. CASE UNCHANGED vars
    BY <2>1 DEF IndInv, TypeOK, RegionBound, CandidateAdmitted, Admits, ResultEnds,
                ResultSolves, Solves, RefutedHasNoSolution, CopiesBounded, Pending,
                vars, shared, bounds
  <2>2. CASE Next
    <3> PICK t \in Threads : Step(t)
      BY <2>2 DEF Next
    <3>1. TypeOK'
      BY StepTypeOK DEF IndInv
    <3> QED BY <3>1, StepRegionBound, StepCandidateAdmitted, StepResult,
               StepRefuted, StepCopies DEF IndInv
  <2> QED BY <2>1, <2>2
<1> QED BY <1>1, <1>2, PTL DEF Spec

\* Only correct candidates are published, at a height that expresses them.
THEOREM ResultSolvesHolds == Spec => []ResultSolves
PROOF
<1>1. IndInv => ResultSolves
  BY DEF IndInv
<1> QED BY <1>1, IndInvHolds, PTL

\* A height refuted in its last region has no solution.
THEOREM RefutedHasNoSolutionHolds == Spec => []RefutedHasNoSolution
PROOF
<1>1. IndInv => RefutedHasNoSolution
  BY DEF IndInv
<1> QED BY <1>1, IndInvHolds, PTL

\* The shared store holds at most one copy of an input per thread.
THEOREM CopiesBoundedHolds == Spec => []CopiesBounded
PROOF
<1>1. IndInv => CopiesBounded
  BY DEF IndInv
<1> QED BY <1>1, IndInvHolds, PTL

\* A thread gives a height up for UNSAT only, unless queries fail or there is
\* a limit, and takes another one only when it has no result.
LEMMA StepNoHeightSkipped ==
  ASSUME TypeOK, CandidateAdmitted, ResultEnds, NoHeightSkipped, NEW t \in Threads, Step(t)
  PROVE  NoHeightSkipped'
PROOF
<1> SUFFICES ASSUME ~regime.fails, regime.iterLimit = 0
             PROVE  NoHeightSkipped'
  <2>1. regime' = regime
    BY DEF Step, Fetch, LimitHit, Synthesize, Unsat, SynthUnknown, Accept,
           VerifyUnknown, Refute, shared
  <2> QED BY <2>1 DEF NoHeightSkipped
<1> USE DEF TypeOK
<1>1. feedType' = feedType
  BY DEF Step, Fetch, LimitHit, Synthesize, Unsat, SynthUnknown, Accept,
         VerifyUnknown, Refute, shared
<1>2. /\ feedType = "HEIGHTONLY" => \A h \in 1 .. height - 1 :
           h \in refuted \/ \E u \in Threads : Owns(u, h)
      /\ feedType = "ALLINONE" =>
           \A u \in Threads : 1 .. heightBound[u] - 1 \subseteq refuted
  BY DEF NoHeightSkipped
<1>3. CASE Fetch(t)
  <2>1. refuted' = refuted /\ \A u \in Threads : u # t => \A h : Owns(u, h)' = Owns(u, h)
    BY <1>3 DEF Fetch, SetBounds, Goto, Owns
  <2>2. \A h : ~Owns(t, h)
    BY <1>3 DEF Fetch, Owns
  <2>3. feedType = "HEIGHTONLY" => height' = height + 1 /\ \A h : h = height => Owns(t, h)'
    BY <1>3 DEF Fetch, SetBounds, Goto, Owns
  <2>4. feedType = "HEIGHTONLY" => \A h \in 1 .. height' - 1 :
          h \in refuted' \/ \E u \in Threads : Owns(u, h)'
    <3> SUFFICES ASSUME feedType = "HEIGHTONLY", NEW h \in 1 .. height' - 1
                 PROVE  h \in refuted' \/ \E u \in Threads : Owns(u, h)'
      OBVIOUS
    <3>1. CASE h = height
      BY <2>3, <3>1
    <3>2. CASE h # height
      <4>1. h \in 1 .. height - 1
        BY <2>3, <3>2
      <4> QED BY <1>2, <2>1, <2>2, <4>1
    <3> QED BY <3>1, <3>2
  <2>5. feedType = "ALLINONE" =>
          \A u \in Threads : 1 .. heightBound'[u] - 1 \subseteq refuted'
    BY <1>2, <1>3, <2>1 DEF Fetch, SetBounds
  <2> QED BY <1>1, <2>4, <2>5 DEF NoHeightSkipped
<1>4. CASE Unsat(t)
  <2>1. height' = height /\ refuted \subseteq refuted'
    BY <1>4 DEF Unsat
  <2>2. \A u \in Threads : u # t => \A h : Owns(u, h)' = Owns(u, h)
    BY <1>4 DEF Unsat, Iterate, NextHeight, WidenBound, SetBounds, Return, bounds, Goto, Owns
  <2>3. \A h : Owns(t, h) => h \in refuted' \/ Owns(t, h)'
    BY <1>4 DEF Unsat, Iterate, NextHeight, WidenBound, SetBounds, Return, bounds, Goto, Owns,
                ResultEnds
  <2>4. feedType = "ALLINONE" =>
          \A u \in Threads : 1 .. heightBound'[u] - 1 \subseteq refuted'
    <3> SUFFICES ASSUME feedType = "ALLINONE", NEW u \in Threads,
                        NEW h \in 1 .. heightBound'[u] - 1
                 PROVE  h \in refuted'
      OBVIOUS
    <3>1. \/ heightBound'[u] = heightBound[u]
          \/ heightBound'[u] = heightBound[u] + 1 /\ heightBound[u] \in refuted'
      BY <1>4 DEF Unsat, NextHeight, WidenBound, SetBounds, bounds
    <3>2. CASE heightBound'[u] = heightBound[u]
      <4>1. h \in 1 .. heightBound[u] - 1
        BY <3>2
      <4> QED BY <1>2, <2>1, <4>1
    <3>3. CASE heightBound'[u] = heightBound[u] + 1 /\ heightBound[u] \in refuted'
      <4>1. PICK n \in Nat : n = heightBound[u]
        OBVIOUS
      <4>2. h \in 1 .. (n + 1) - 1
        BY <3>3, <4>1
      <4>3. h = n \/ h \in 1 .. n - 1
        BY ONLY <4>2, n \in Nat
      <4> QED BY <1>2, <2>1, <3>3, <4>1, <4>3
    <3> QED BY <3>1, <3>2, <3>3
  <2> QED BY <1>1, <1>2, <2>1, <2>2, <2>3, <2>4 DEF NoHeightSkipped
<1>5. CASE LimitHit(t) \/ SynthUnknown(t) \/ VerifyUnknown(t)
  BY <1>5 DEF LimitHit, SynthUnknown, VerifyUnknown
<1>6. CASE Synthesize(t) \/ Accept(t) \/ Refute(t)
  <2>1. height' = height /\ refuted' = refuted /\ heightBound' = heightBound
    BY <1>6 DEF Synthesize, Accept, Refute, WidenBound, SetBounds, shared, bounds
  <2>2. \A u \in Threads : \A h : Owns(u, h) => Owns(u, h)'
    <3> SUFFICES ASSUME NEW u \in Threads, NEW h, Owns(u, h)
                 PROVE  Owns(u, h)'
      OBVIOUS
    <3>1. CASE u # t
      BY <1>6, <2>1, <3>1 DEF Synthesize, Accept, Refute, Iterate, Goto, Owns
    <3>2. CASE u = t
      <4>1. Synthesize(t) \/ Refute(t) => pc'[t] \in {"iterate", "verify"}
        BY DEF Synthesize, Refute, Goto
      <4>2. Accept(t) => results'[t] = functions[t] /\ functions[t] # None
        BY CegisAssumption DEF Accept, CandidateAdmitted
      <4> QED BY <1>6, <2>1, <3>2, <4>1, <4>2 DEF Owns
    <3> QED BY <3>1, <3>2
  <2> QED BY <1>1, <1>2, <2>1, <2>2 DEF NoHeightSkipped
<1> QED BY <1>3, <1>4, <1>5, <1>6 DEF Step

\* Between them the threads skip no height.
THEOREM NoHeightSkippedHolds == Spec => []NoHeightSkipped
PROOF
<1>1. Init => NoHeightSkipped
  BY DEF Init, NoHeightSkipped
<1>2. IndInv /\ IndInv' /\ NoHeightSkipped /\ [Next]_vars => NoHeightSkipped'
  <2> SUFFICES ASSUME IndInv, IndInv', NoHeightSkipped, [Next]_vars
               PROVE  NoHeightSkipped'
    OBVIOUS
  <2>1. CASE UNCHANGED vars
    BY <2>1 DEF NoHeightSkipped, Owns, vars, shared, bounds
  <2>2. CASE Next
    <3> PICK t \in Threads : Step(t)
      BY <2>2 DEF Next
    <3> QED BY StepNoHeightSkipped DEF IndInv
  <2> QED BY <2>1, <2>2
<1> QED BY <1>1, <1>2, IndInvHolds, PTL DEF Spec

\* No solution is missed: of the heights handed out, each that can express a
\* solution is being searched or has given its thread a result.
THEOREM SolutionNotMissed ==
  Spec => [](~regime.fails /\ regime.iterLimit = 0 /\ feedType = "HEIGHTONLY" =>
               \A c \in Candidates : Solves(c) =>
                 \A h \in HeightsOf[c] \cap 1 .. height - 1 : \E t \in Threads : Owns(t, h))
PROOF
<1> DEFINE Covered ==
      ~regime.fails /\ regime.iterLimit = 0 /\ feedType = "HEIGHTONLY" =>
        \A c \in Candidates : Solves(c) =>
          \A h \in HeightsOf[c] \cap 1 .. height - 1 : \E t \in Threads : Owns(t, h)
<1>1. IndInv /\ NoHeightSkipped => Covered
  <2> SUFFICES ASSUME IndInv, NoHeightSkipped,
                      ~regime.fails, regime.iterLimit = 0, feedType = "HEIGHTONLY",
                      NEW c \in Candidates, Solves(c), NEW h \in HeightsOf[c] \cap 1 .. height - 1
               PROVE  \E t \in Threads : Owns(t, h)
    OBVIOUS
  <2>1. h \notin refuted
    BY DEF IndInv, RefutedHasNoSolution
  <2> QED BY <2>1 DEF NoHeightSkipped
<1> HIDE DEF Covered
<1>2. Spec => []Covered
  BY <1>1, IndInvHolds, NoHeightSkippedHolds, PTL
<1> QED BY <1>2 DEF Covered
====
