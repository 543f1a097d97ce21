--------------------------- MODULE PortfolioProofs ---------------------------
(***************************************************************************)
(* Proofs about Portfolio, for any number of threads, any number of        *)
(* requested functions and any set of configurations.                      *)
(***************************************************************************)
EXTENDS Portfolio, FiniteSetTheorems, TLAPS

\* There are finitely many workers, so the counted ones have a number.
LEMMA ThreadsFinite == IsFiniteSet(Threads)
<1>1. 0 \in Int /\ NumCore - 1 \in Int
  BY PortfolioAssumption
<1>2. QED
  BY <1>1, FS_Interval DEF Threads

\* Moving one worker changes the number of counted workers by one when it
\* enters or leaves the counted positions, and not at all otherwise.
LEMMA CountedStep ==
  ASSUME TypeOK, NEW t \in Threads, NEW l \in PCs, pc' = [pc EXCEPT ![t] = l]
  PROVE  LET n == Cardinality({u \in Threads : pc[u] \in Counted})
             m == Cardinality({u \in Threads : pc'[u] \in Counted})
         IN  /\ n \in Nat
             /\ pc[t] \in Counted /\ l \in Counted => m = n
             /\ pc[t] \notin Counted /\ l \notin Counted => m = n
             /\ pc[t] \notin Counted /\ l \in Counted => m = n + 1
             /\ pc[t] \in Counted /\ l \notin Counted => m = n - 1
<1> DEFINE A == {u \in Threads : pc[u] \in Counted}
           B == {u \in Threads : pc'[u] \in Counted}
<1>1. IsFiniteSet(A) /\ Cardinality(A) \in Nat
  <2>1. A \subseteq Threads
    OBVIOUS
  <2>2. QED
    BY <2>1, ThreadsFinite, FS_Subset, FS_CardinalityType
<1>2. ASSUME pc[t] \in Counted, l \in Counted PROVE B = A
  BY <1>2 DEF TypeOK
<1>3. ASSUME pc[t] \notin Counted, l \notin Counted PROVE B = A
  BY <1>3 DEF TypeOK
<1>4. ASSUME pc[t] \notin Counted, l \in Counted
      PROVE  Cardinality(B) = Cardinality(A) + 1
  <2>1. B = A \cup {t} /\ t \notin A
    BY <1>4 DEF TypeOK
  <2> HIDE DEF A, B
  <2>2. QED
    BY <2>1, <1>1, FS_AddElement
<1>5. ASSUME pc[t] \in Counted, l \notin Counted
      PROVE  Cardinality(B) = Cardinality(A) - 1
  <2>1. B = A \ {t} /\ t \in A
    BY <1>5 DEF TypeOK
  <2> HIDE DEF A, B
  <2>2. QED
    BY <2>1, <1>1, FS_RemoveElement
<1>6. QED
  BY <1>1, <1>2, <1>3, <1>4, <1>5

-----------------------------------------------------------------------------
\* Type correctness of one worker step.
LEMMA WorkerTypeOK ==
  ASSUME TypeOK, NEW t \in Threads, Control(t) \/ Search(t),
         pc[t] = "fill" => results[t] \in 0 .. Requests - 1
  PROVE  TypeOK'
<1> USE PortfolioAssumption DEF TypeOK, PCs, Counted, MainPCs, Goto, Null,
        workerVars, envVars, mainVars
<1>1. CASE Begin(t)
  BY <1>1 DEF Begin, Entry
<1>2. CASE NextHeight(t)
  BY <1>2 DEF NextHeight, TakeHeight
<1>3. CASE LeaveLoop(t)
  BY <1>3 DEF LeaveLoop
<1>4. CASE ITNextHeight(t)
  BY <1>4 DEF ITNextHeight, TakeHeight
<1>5. CASE ITLoop(t)
  BY <1>5 DEF ITLoop
<1>6. CASE Fill(t)
  BY <1>6 DEF Fill, AfterFill
<1>7. CASE Extend(t)
  BY <1>7 DEF Extend
<1>8. CASE Notify(t)
  BY <1>8 DEF Notify
<1>9. CASE Decrement(t)
  BY <1>9 DEF Decrement
<1>10. CASE Publish(t)
  BY <1>10 DEF Publish
<1>11. CASE GiveUpHeight(t)
  BY <1>11 DEF GiveUpHeight, AfterCegis
<1>12. CASE HitIterLimit(t)
  BY <1>12 DEF HitIterLimit
<1>13. CASE StopSearch(t)
  BY <1>13 DEF StopSearch, AfterCegis
<1>14. CASE FHSolve(t)
  <2>1. results' \in [Threads -> {Null} \cup 0 .. Requests]
    BY <1>14 DEF FHSolve
  <2>2. nosolution' \in [Threads -> BOOLEAN]
    BY <1>14, Zenon DEF FHSolve
  <2>3. pc' \in [Threads -> PCs]
    BY <1>14 DEF FHSolve
  <2>4. UNCHANGED <<running, fixedHeight, envVars, mainVars>>
    BY <1>14 DEF FHSolve
  <2>5. QED
    BY <2>1, <2>2, <2>3, <2>4
<1>15. CASE LeadSolve(t)
  BY <1>15 DEF LeadSolve
<1>16. CASE LeadThrow(t)
  BY <1>16 DEF LeadThrow
<1>17. QED
  BY <1>1, <1>2, <1>3, <1>4, <1>5, <1>6, <1>7, <1>8, <1>9, <1>10, <1>11,
     <1>12, <1>13, <1>14, <1>15, <1>16 DEF Control, Search

\* The three safety conjuncts that relate a worker's phase, its array, the
\* heights and the dispatcher's reference, under one worker step.
LEMMA WorkerPhases ==
  ASSUME IndInv, NEW t \in Threads, Control(t) \/ Search(t)
  PROVE  /\ MainIndex'
         /\ ResultsMatchPhase'
         /\ HeightsDistinct'
         /\ AnswerCompleteOrFilling'
<1> USE PortfolioAssumption DEF IndInv, TypeOK, MainIndex, ResultsMatchPhase,
        HeightsDistinct, AnswerCompleteOrFilling, PCs, Counted, MainPCs, Goto,
        Null, Threads, Leads, workerVars, envVars, mainVars
<1>1. CASE Begin(t)
  BY <1>1 DEF Begin, Entry
<1>2. CASE NextHeight(t)
  BY <1>2 DEF NextHeight, TakeHeight
<1>3. CASE LeaveLoop(t)
  BY <1>3 DEF LeaveLoop
<1>4. CASE ITNextHeight(t)
  BY <1>4 DEF ITNextHeight, TakeHeight
<1>5. CASE ITLoop(t)
  BY <1>5 DEF ITLoop
<1>6. CASE Fill(t)
  <2>1. pc[t] = "fill" /\ results[t] \in 0 .. Requests - 1
    BY <1>6 DEF Fill
  <2>2. /\ results' = [results EXCEPT ![t] = results[t] + 1]
        /\ UNCHANGED <<fixedHeight, height, main, next, answer, opts>>
    BY <1>6 DEF Fill
  <2>3. CASE results[t] + 1 < Requests
    <3>1. pc' = [pc EXCEPT ![t] = "fill"]
      BY <1>6, <2>3 DEF Fill
    <3>2. QED
      BY <2>1, <2>2, <2>3, <3>1
  <2>4. CASE results[t] + 1 = Requests
    <3>0. ~(results[t] + 1 < Requests)
      BY <2>1, <2>4
    <3>1. pc' = [pc EXCEPT ![t] = AfterFill(t)]
      BY <1>6, <3>0, Zenon DEF Fill
    <3>2. CASE opts.kind[t] = "it"
      BY <2>1, <2>2, <2>4, <3>1, <3>2 DEF AfterFill
    <3>3. CASE opts.kind[t] # "it"
      BY <2>1, <2>2, <2>4, <3>1, <3>3 DEF AfterFill
    <3>4. QED
      BY <3>2, <3>3
  <2>5. QED
    BY <2>1, <2>3, <2>4
<1>7. CASE Extend(t)
  BY <1>7 DEF Extend
<1>8. CASE Notify(t)
  BY <1>8 DEF Notify
<1>9. CASE Decrement(t)
  BY <1>9 DEF Decrement
<1>10. CASE Publish(t)
  BY <1>10 DEF Publish
<1>11. CASE GiveUpHeight(t)
  BY <1>11 DEF GiveUpHeight, AfterCegis
<1>12. CASE HitIterLimit(t)
  BY <1>12 DEF HitIterLimit
<1>13. CASE StopSearch(t)
  BY <1>13 DEF StopSearch, AfterCegis
<1>14. CASE FHSolve(t)
  <2>1. PICK r \in {Null, Requests} : results' = [results EXCEPT ![t] = r]
    BY <1>14 DEF FHSolve
  <2>2. /\ pc[t] = "search" /\ pc' = [pc EXCEPT ![t] = "notify"]
        /\ UNCHANGED <<fixedHeight, height, main, next, answer, opts>>
    BY <1>14 DEF FHSolve
  <2>3. MainIndex'
    BY <2>2
  <2>4. ResultsMatchPhase'
    BY <2>1, <2>2
  <2>5. HeightsDistinct'
    BY <2>2
  <2>6. AnswerCompleteOrFilling'
    BY <2>1, <2>2
  <2>7. QED
    BY <2>3, <2>4, <2>5, <2>6
<1>15. CASE LeadSolve(t)
  BY <1>15 DEF LeadSolve
<1>16. CASE LeadThrow(t)
  BY <1>16 DEF LeadThrow
<1>17. QED
  BY <1>1, <1>2, <1>3, <1>4, <1>5, <1>6, <1>7, <1>8, <1>9, <1>10, <1>11,
     <1>12, <1>13, <1>14, <1>15, <1>16 DEF Control, Search

\* runningThreads keeps counting the workers inside run().
LEMMA WorkerCount ==
  ASSUME IndInv, NEW t \in Threads, Control(t) \/ Search(t)
  PROVE  RunningThreadsExact'
<1> USE DEF IndInv, RunningThreadsExact, Goto, envVars
<1>0. TypeOK
  OBVIOUS
<1>1. CASE Begin(t)
  <2>1. pc' = [pc EXCEPT ![t] = Entry(t)]
    BY <1>1 DEF Begin
  <2>2. /\ pc[t] \notin Counted /\ Entry(t) \in Counted /\ Entry(t) \in PCs
        /\ runningThreads' = runningThreads + 1
    BY <1>1 DEF Begin, Entry, PCs, Counted
  <2>3. QED
    BY <1>0, <2>1, <2>2, CountedStep
<1>2. CASE Decrement(t)
  <2>1. /\ pc[t] \in Counted /\ "done" \notin Counted /\ "done" \in PCs
        /\ runningThreads' = runningThreads - 1
        /\ pc' = [pc EXCEPT ![t] = "done"]
    BY <1>2 DEF Decrement, PCs, Counted
  <2>2. QED
    BY <1>0, <2>1, CountedStep
<1>3. CASE Fill(t) \/ LeaveLoop(t) \/ ITLoop(t) \/ Extend(t) \/ Notify(t)
             \/ NextHeight(t) \/ ITNextHeight(t) \/ Search(t)
  <2>1. pc[t] \in Counted /\ UNCHANGED runningThreads
    BY <1>3 DEF Fill, LeaveLoop, ITLoop, Extend, Notify, NextHeight,
       ITNextHeight, TakeHeight, Search, Publish, GiveUpHeight, HitIterLimit,
       StopSearch, FHSolve, LeadSolve, LeadThrow, Counted
  <2>2. PICK l \in Counted : pc' = [pc EXCEPT ![t] = l]
    BY <1>3 DEF Fill, LeaveLoop, ITLoop, Extend, Notify, NextHeight,
       ITNextHeight, TakeHeight, Search, Publish, GiveUpHeight, HitIterLimit,
       StopSearch, FHSolve, LeadSolve, LeadThrow, AfterCegis, AfterFill, Counted
  <2>3. QED
    BY <1>0, <2>1, <2>2, CountedStep DEF PCs
<1>4. QED
  BY <1>1, <1>2, <1>3 DEF Control

\* The dispatcher's own steps.
LEMMA MainStep ==
  ASSUME IndInv, Main \/ SpuriousWake
  PROVE  IndInv'
<1> USE PortfolioAssumption DEF IndInv, TypeOK, MainIndex, ResultsMatchPhase,
        HeightsDistinct, AnswerCompleteOrFilling, PCs, MainPCs, Null, Threads,
        workerVars, envVars, mainVars
<1>1. CASE StartThread
  <2>1. next \in Threads /\ pc[next] = "created"
    BY <1>1 DEF StartThread
  <2>2. pc' = [pc EXCEPT ![next] = "started"]
    BY <1>1 DEF StartThread, Goto
  <2>3. RunningThreadsExact'
    <3>1. /\ "created" \notin Counted
          /\ "started" \notin Counted /\ "started" \in PCs
          /\ runningThreads' = runningThreads
      BY <1>1 DEF StartThread, Counted
    <3>2. TypeOK
      OBVIOUS
    <3> HIDE DEF TypeOK, Threads, PCs
    <3>3. QED
      BY <2>1, <2>2, <3>1, <3>2, CountedStep DEF RunningThreadsExact
  <2>4. /\ main = "start" /\ answer = Null
        /\ next' = IF next + 1 = NumCore THEN 0 ELSE next + 1
        /\ main' = IF next + 1 = NumCore THEN "wait" ELSE "start"
        /\ UNCHANGED <<results, running, nosolution, fixedHeight, envVars,
                       answer, noAnswer>>
    BY <1>1 DEF StartThread
  <2>5. TypeOK'
    BY <2>1, <2>2, <2>4 DEF Counted
  <2>6. MainIndex'
    BY <2>1, <2>2, <2>4
  <2>7. ResultsMatchPhase'
    BY <2>1, <2>2, <2>4
  <2>8. HeightsDistinct' /\ AnswerCompleteOrFilling'
    BY <2>4
  <2>9. QED
    BY <2>3, <2>5, <2>6, <2>7, <2>8
<1>2. CASE EnterWait \/ SpuriousWake \/ ScanThread \/ ReturnIdle
             \/ ReturnReport \/ LoopOrReturn
  <2>0. UNCHANGED <<workerVars, envVars>>
    BY <1>2 DEF EnterWait, SpuriousWake, ScanThread, ReturnIdle, ReturnReport,
       LoopOrReturn
  <2>1. RunningThreadsExact'
    BY <2>0 DEF RunningThreadsExact
  <2>2. CASE EnterWait
    BY <2>0, <2>1, <2>2 DEF EnterWait
  <2>3. CASE SpuriousWake
    BY <2>0, <2>1, <2>3 DEF SpuriousWake
  <2>4. CASE ScanThread
    BY <2>0, <2>1, <2>4 DEF ScanThread
  <2>5. CASE ReturnIdle
    BY <2>0, <2>1, <2>5 DEF ReturnIdle
  <2>6. CASE ReturnReport
    BY <2>0, <2>1, <2>6 DEF ReturnReport
  <2>7. CASE LoopOrReturn
    BY <2>0, <2>1, <2>7 DEF LoopOrReturn
  <2>8. QED
    BY <1>2, <2>2, <2>3, <2>4, <2>5, <2>6, <2>7
<1>3. CASE StopAndReturn
  <2>1. RunningThreadsExact'
    BY <1>3 DEF StopAndReturn, RunningThreadsExact
  <2>2. QED
    BY <1>3, <2>1 DEF StopAndReturn
<1>4. QED
  BY <1>1, <1>2, <1>3 DEF Main

-----------------------------------------------------------------------------
\* The inductive invariant: phases, heights, the dispatcher's reference and
\* the thread count stay consistent under every interleaving.
THEOREM IndInvHolds == Spec => []IndInv
<1>1. Init => IndInv
  <2> SUFFICES ASSUME Init PROVE IndInv
    OBVIOUS
  <2> USE PortfolioAssumption DEF Init
  <2>1. TypeOK
    <3>1. running \in [Threads -> BOOLEAN] /\ nosolution \in [Threads -> BOOLEAN]
      BY Zenon
    <3>2. /\ pc \in [Threads -> PCs]
          /\ results \in [Threads -> {Null} \cup 0 .. Requests]
          /\ fixedHeight \in [Threads -> Nat]
      BY DEF PCs, Null
    <3>3. /\ main \in MainPCs
          /\ next \in 0 .. NumCore
          /\ height \in Nat \ {0} /\ runningThreads \in Int
      BY DEF MainPCs
    <3>4. /\ opts \in Options
          /\ answer \in {Null} \cup Threads
          /\ tmpltApplied \in BOOLEAN /\ noAnswer \in BOOLEAN
      BY Zenon
    <3>5. QED
      BY <3>1, <3>2, <3>3, <3>4, Zenon DEF TypeOK
  <2>2. MainIndex
    BY DEF MainIndex, Threads
  <2>3. ResultsMatchPhase /\ HeightsDistinct /\ AnswerCompleteOrFilling
    BY DEF ResultsMatchPhase, HeightsDistinct, AnswerCompleteOrFilling
  <2>4. RunningThreadsExact
    <3>1. {t \in Threads : pc[t] \in Counted} = {}
      BY DEF Counted
    <3>2. QED
      BY <3>1, FS_EmptySet DEF RunningThreadsExact
  <2>5. QED
    BY <2>1, <2>2, <2>3, <2>4 DEF IndInv
<1>2. IndInv /\ [Next]_vars => IndInv'
  <2> SUFFICES ASSUME IndInv, [Next]_vars PROVE IndInv'
    OBVIOUS
  <2>1. CASE Main \/ SpuriousWake
    BY <2>1, MainStep
  <2>2. ASSUME NEW t \in Threads, Control(t) \/ Search(t) PROVE IndInv'
    <3>1. TypeOK'
      BY <2>2, WorkerTypeOK DEF IndInv, ResultsMatchPhase
    <3>2. QED
      BY <2>2, <3>1, WorkerPhases, WorkerCount DEF IndInv
  <2>3. CASE UNCHANGED vars
    BY <2>3 DEF vars, workerVars, envVars, mainVars, IndInv, TypeOK, MainIndex,
       ResultsMatchPhase, HeightsDistinct, AnswerCompleteOrFilling,
       RunningThreadsExact
  <2>4. QED
    BY <2>1, <2>2, <2>3 DEF Next
<1>3. QED
  BY <1>1, <1>2, PTL DEF Spec

\* No array that was published is withdrawn or loses an element: a worker
\* assigns results only when it has none, or to fill it.
THEOREM ResultsMonotoneHolds == Spec => ResultsMonotone
<1>1. IndInv /\ [Next]_vars => [\A t \in Threads : results'[t] >= results[t]]_vars
  <2> SUFFICES ASSUME IndInv, Next
               PROVE  \A t \in Threads : results'[t] >= results[t]
    OBVIOUS
  <2> USE PortfolioAssumption DEF IndInv, TypeOK, Null
  <2>1. CASE UNCHANGED results
    BY <2>1
  <2>2. ASSUME NEW t \in Threads, Fill(t)
        PROVE  \A u \in Threads : results'[u] >= results[u]
    BY <2>2 DEF Fill, ResultsMatchPhase
  <2>3. ASSUME NEW t \in Threads, Publish(t) \/ FHSolve(t) \/ LeadSolve(t)
        PROVE  \A u \in Threads : results'[u] >= results[u]
    <3>1. results[t] = -1
      BY <2>3 DEF ResultsMatchPhase, Publish, FHSolve, LeadSolve
    <3>2. \E r \in {-1} \cup 0 .. Requests : results' = [results EXCEPT ![t] = r]
      BY <2>3 DEF Publish, FHSolve, LeadSolve
    <3>3. QED
      BY <3>1, <3>2
  <2>4. QED
    BY <2>1, <2>2, <2>3
    DEF Next, Main, StartThread, EnterWait, SpuriousWake, ScanThread,
        ReturnIdle, StopAndReturn, ReturnReport, LoopOrReturn, Control, Search,
        Begin, NextHeight, LeaveLoop, ITNextHeight, TakeHeight, ITLoop, Extend,
        Notify, Decrement, GiveUpHeight, HitIterLimit, StopSearch, LeadThrow,
        workerVars
<1>2. QED
  BY <1>1, IndInvHolds, PTL DEF Spec, ResultsMonotone

\* The portfolio implements the abstract synthesis task: what runAlgorithm
\* returns is one of the published results or null, decided once, and the
\* published results only grow.
THEOREM PortfolioRefinesTask == Spec => RefinesTask
<1> DEFINE pub == {t \in Threads : results[t] # Null}
           dec == (main = "returned")
           ver == IF main = "returned" /\ answer # Null THEN {answer} ELSE {}
<1>1. Init => Task!Init
  BY DEF Init, Task!Init
<1>2. IndInv /\ [Next]_vars => [Task!Next]_(Task!vars)
  <2> SUFFICES ASSUME IndInv, [Next]_vars
               PROVE  Task!Next \/ UNCHANGED Task!vars
    OBVIOUS
  <2>1. CASE UNCHANGED <<results, main, answer>>
    BY <2>1 DEF Task!vars
  <2>2. CASE StartThread \/ EnterWait \/ SpuriousWake \/ ScanThread
    <3>1. UNCHANGED results /\ main # "returned" /\ main' # "returned"
      BY <2>2 DEF StartThread, EnterWait, SpuriousWake, ScanThread, workerVars
    <3>2. QED
      BY <3>1 DEF Task!vars
  <2>3. CASE ReturnIdle \/ StopAndReturn \/ ReturnReport \/ LoopOrReturn
    <3>1. /\ UNCHANGED results
          /\ main = "check"
          /\ answer' = answer \/ answer' = Null
      BY <2>3 DEF ReturnIdle, StopAndReturn, ReturnReport, LoopOrReturn,
         workerVars
    <3>2. CASE main' # "returned"
      BY <3>1, <3>2 DEF Task!vars
    <3>3. CASE main' = "returned"
      <4>1. ver' = {} \/ (ver' = {answer} /\ answer \in pub)
        BY <3>1, <3>3 DEF IndInv, TypeOK, AnswerCompleteOrFilling
      <4>2. ver' \in {{}} \cup {{s} : s \in pub}
        BY <4>1
      <4>3. ~dec /\ dec' = TRUE /\ pub' = pub
        BY <3>1, <3>3
      <4>4. Task!Return
        BY <4>2, <4>3 DEF Task!Return
      <4>5. QED
        BY <4>4 DEF Task!Next
    <3>4. QED
      BY <3>2, <3>3
  <2>4. ASSUME NEW t \in Threads, Control(t) \/ Search(t)
        PROVE  Task!Next \/ UNCHANGED Task!vars
    <3>1. /\ UNCHANGED answer
          /\ main' = main \/ (main # "returned" /\ main' # "returned")
      BY <2>4 DEF Control, Search, Begin, NextHeight, LeaveLoop, ITNextHeight,
         TakeHeight, ITLoop, Fill, Extend, Notify, Decrement, Publish,
         GiveUpHeight, HitIterLimit, StopSearch, FHSolve, LeadSolve, LeadThrow,
         mainVars
    <3>2. dec' = dec /\ ver' = ver
      BY <3>1
    <3>3. CASE pub' = pub
      BY <3>2, <3>3 DEF Task!vars
    <3>4. CASE pub' = pub \cup {t} /\ t \notin pub
      <4>1. Task!Publish(t)
        BY <3>2, <3>4 DEF Task!Publish
      <4>2. QED
        BY <4>1 DEF Task!Next
    <3>5. pub' = pub \/ (pub' = pub \cup {t} /\ t \notin pub)
      <4>1. CASE UNCHANGED results
        BY <4>1
      <4>2. CASE Fill(t)
        BY <4>2, PortfolioAssumption
        DEF Fill, IndInv, TypeOK, ResultsMatchPhase, Null
      <4>3. CASE Publish(t) \/ FHSolve(t) \/ LeadSolve(t)
        <5>1. results[t] = Null
          BY <4>3 DEF IndInv, ResultsMatchPhase, Publish, FHSolve, LeadSolve
        <5>2. PICK r \in {Null} \cup 0 .. Requests :
                results' = [results EXCEPT ![t] = r]
          BY <4>3, PortfolioAssumption, <5>1
          DEF Publish, FHSolve, LeadSolve, IndInv, TypeOK
        <5>3. QED
          BY <5>1, <5>2 DEF IndInv, TypeOK
      <4>4. QED
        BY <2>4, <4>1, <4>2, <4>3
        DEF Control, Search, Begin, NextHeight, LeaveLoop, ITNextHeight,
            TakeHeight, ITLoop, Extend, Notify, Decrement, GiveUpHeight,
            HitIterLimit, StopSearch, LeadThrow
    <3>6. QED
      BY <3>3, <3>4, <3>5
  <2>5. QED
    BY <2>1, <2>2, <2>3, <2>4
    DEF Next, Main, vars, workerVars, mainVars
<1>3. QED
  BY <1>1, <1>2, IndInvHolds, PTL DEF Spec, RefinesTask, Task!Spec

\* runningThreads is exactly the number of workers inside run().
THEOREM RunningThreadsExactHolds == Spec => []RunningThreadsExact
<1>1. IndInv => RunningThreadsExact
  BY DEF IndInv
<1>2. QED
  BY <1>1, IndInvHolds, PTL

\* The heights handed out by Producer1D are searched by one worker each.
THEOREM HeightsDistinctHolds == Spec => []HeightsDistinct
<1>1. IndInv => HeightsDistinct
  BY DEF IndInv
<1>2. QED
  BY <1>1, IndInvHolds, PTL

\* The array the dispatcher refers to is complete or being completed.
THEOREM AnswerCompleteOrFillingHolds == Spec => []AnswerCompleteOrFilling
<1>1. IndInv => AnswerCompleteOrFilling
  BY DEF IndInv
<1>2. QED
  BY <1>1, IndInvHolds, PTL
=============================================================================
