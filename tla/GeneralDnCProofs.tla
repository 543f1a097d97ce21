-------------------------- MODULE GeneralDnCProofs --------------------------
(***************************************************************************)
(* The safety properties of GeneralDnC for any number of threads and of    *)
(* subproblems.                                                            *)
(***************************************************************************)
EXTENDS GeneralDnC, FiniteSetTheorems, TLAPS

LEMMA ThreadsFinite == IsFiniteSet(Threads)
<1>1. 0 \in Int /\ NumCore - 1 \in Int
  BY DnCAssumption
<1> QED BY <1>1, FS_Interval DEF Threads

\* What a step of one thread does to the number of threads inside run().
LEMMA CountStep ==
  ASSUME TypeOK, CountExact, NEW t \in Threads, NEW l \in PCs,
         pc' = [pc EXCEPT ![t] = l],
         \/ pc[t] \in Inside /\ l \in Inside /\ runningThreads' = runningThreads
         \/ pc[t] \notin Inside /\ l \notin Inside /\ runningThreads' = runningThreads
         \/ pc[t] \notin Inside /\ l \in Inside /\ runningThreads' = runningThreads + 1
         \/ pc[t] \in Inside /\ l \notin Inside /\ runningThreads' = runningThreads - 1
  PROVE  CountExact'
<1> DEFINE A == {u \in Threads : pc[u] \in Inside}
           B == {u \in Threads : pc'[u] \in Inside}
<1>0. CountExact' <=> runningThreads' = Cardinality(B)
  BY DEF CountExact
<1>1. IsFiniteSet(A) /\ Cardinality(A) \in Nat
  <2>1. A \subseteq Threads
    OBVIOUS
  <2> QED BY <2>1, ThreadsFinite, FS_Subset, FS_CardinalityType
<1>2. runningThreads = Cardinality(A)
  BY DEF CountExact
<1>3. CASE (pc[t] \in Inside <=> l \in Inside)
  <2>1. B = A
    BY <1>3 DEF TypeOK
  <2> QED BY <1>0, <1>2, <1>3, <2>1
<1>4. CASE pc[t] \notin Inside /\ l \in Inside
  <2>1. B = A \cup {t} /\ t \notin A
    BY <1>4 DEF TypeOK
  <2> HIDE DEF A, B
  <2>2. Cardinality(B) = Cardinality(A) + 1
    BY <2>1, <1>1, FS_AddElement
  <2> QED BY <1>0, <1>1, <1>2, <1>4, <2>2
<1>5. CASE pc[t] \in Inside /\ l \notin Inside
  <2>1. B = A \ {t} /\ t \in A
    BY <1>5 DEF TypeOK
  <2> HIDE DEF A, B
  <2>2. Cardinality(B) = Cardinality(A) - 1
    BY <2>1, <1>1, FS_RemoveElement
  <2> QED BY <1>0, <1>1, <1>2, <1>5, <2>2
<1> QED BY <1>3, <1>4, <1>5

LEMMA CountSame == ASSUME CountExact, UNCHANGED <<pc, runningThreads>> PROVE CountExact'
BY DEF CountExact

LEMMA StoredSubs == ASSUME TypeOK PROVE Stored \subseteq Subs
<1>1. ASSUME NEW i \in DOMAIN interResults PROVE interResults[i].name \in Subs
  <2> DEFINE E == [name : Subs, uses : SUBSET Subs]
  <2>1. interResults \in Seq(E)
    BY DEF TypeOK
  <2>2. ASSUME NEW e \in E PROVE e.name \in Subs
    OBVIOUS
  <2> HIDE DEF E
  <2>3. interResults[i] \in E
    BY <2>1
  <2> QED BY <2>2, <2>3
<1> QED BY <1>1 DEF Stored

LEMMA InitIndInv == Init => IndInv
<1> SUFFICES ASSUME Init PROVE IndInv
  OBVIOUS
<1>0. 0 \in Threads
  BY DnCAssumption DEF Threads
<1>1. TypeOK
  BY <1>0, DnCAssumption DEF Init, TypeOK, PCs, MainPCs
<1>2. NotStarted /\ UsesEarlier /\ UsesStored /\ ResultOf
  BY DEF Init, NotStarted, UsesEarlier, UsesStored, ResultOf
<1>3. CountExact
  <2>1. {t \in Threads : pc[t] \in Inside} = {}
    BY DEF Init, Inside
  <2> QED BY <2>1, FS_EmptySet DEF Init, CountExact
<1> QED BY <1>1, <1>2, <1>3 DEF IndInv

\* What the dispatcher does between its start loop and its return.
LEMMA ScanIndInv ==
  ASSUME IndInv, EnterWait \/ SpuriousWake \/ ScanCheck \/ ScanRead \/ Test
  PROVE  IndInv'
<1> USE DEF IndInv
<1>a. next + 1 # NumCore => next + 1 \in Threads
  BY DnCAssumption DEF TypeOK, Threads
<1>b. 0 \in Threads /\ next \in Threads
  BY DnCAssumption DEF TypeOK, Threads
<1>c. Advance => next' \in Threads /\ main' \in {"test", "scan"}
  BY <1>a, <1>b DEF Advance
<1>d. UNCHANGED <<cfg, pc, local, results, interResults, runningThreads>>
  BY DEF EnterWait, SpuriousWake, ScanCheck, ScanRead, Test
<1>e. main \in {"wait", "waiting", "scan", "read", "test"}
  BY DEF EnterWait, SpuriousWake, ScanCheck, ScanRead, Test
<1>f. /\ main' \in {"wait", "waiting", "scan", "read", "test", "returned"}
      /\ next' \in Threads
  BY <1>b, <1>c DEF EnterWait, SpuriousWake, ScanCheck, ScanRead, Test
<1>0. /\ UNCHANGED <<cfg, pc, local, results, interResults, runningThreads>>
      /\ main # "start" /\ main' \in MainPCs \ {"start"}
      /\ next' \in Threads
  BY <1>d, <1>e, <1>f DEF MainPCs
<1>1. answer' = answer \/ answer' = Null
        \/ (results[next] # Null /\ answer' = [by |-> next, res |-> results[next]])
  BY DEF EnterWait, SpuriousWake, ScanCheck, ScanRead, Test
<1>2. TypeOK'
  BY <1>0, <1>1 DEF TypeOK, local
<1>3. UsesStored'
  BY <1>0, <1>1 DEF TypeOK, UsesStored, Stored, local
<1>4. NotStarted' /\ UsesEarlier' /\ ResultOf'
  BY <1>0 DEF NotStarted, UsesEarlier, ResultOf, local
<1>5. CountExact'
  BY <1>0, CountSame
<1> QED BY <1>2, <1>3, <1>4, <1>5

LEMMA StartThreadIndInv ==
  ASSUME IndInv, StartThread
  PROVE  IndInv'
<1> USE DEF IndInv
<1>0. /\ pc[next] = "created" /\ next \in Threads
      /\ pc' = [pc EXCEPT ![next] = "started"]
      /\ UNCHANGED <<cfg, local, results, interResults, runningThreads, answer>>
  BY DnCAssumption DEF StartThread, Goto, NotStarted, TypeOK, Threads
<1>1. next' \in Threads /\ main' \in {"wait", "start"}
      /\ (main' = "start" => next' = next + 1)
  BY DnCAssumption DEF StartThread, TypeOK, Threads
<1>2. TypeOK'
  BY <1>0, <1>1 DEF TypeOK, PCs, MainPCs, local
<1>3. NotStarted'
  BY <1>0, <1>1, DnCAssumption DEF NotStarted, StartThread, TypeOK, Threads
<1>4. UsesEarlier' /\ UsesStored'
  BY <1>0 DEF UsesEarlier, UsesStored, Stored, local
<1>5. ResultOf'
  BY <1>0 DEF ResultOf, TypeOK, local
<1>6. CountExact'
  BY <1>0, CountStep DEF PCs, Inside
<1> QED BY <1>2, <1>3, <1>4, <1>5, <1>6

\* A thread's step leaves the threads that were not started alone.
LEMMA ThreadNotStarted ==
  ASSUME TypeOK, NotStarted, NEW t \in Threads, NEW l \in PCs,
         pc[t] # "created", pc' = [pc EXCEPT ![t] = l], next' = next,
         main' = main \/ main' = "scan"
  PROVE  NotStarted'
BY DEF NotStarted, TypeOK

\* Steps that change a thread's place and nothing the other parts mention.
LEMMA MoveIndInv ==
  ASSUME IndInv, NEW t \in Threads,
         Begin(t) \/ Notify(t) \/ Decrement(t) \/ LoopHead(t)
  PROVE  IndInv'
<1> USE DEF IndInv
<1>0. PICK l \in {"pick", "head", "dec", "ended", "main"} :
        /\ pc' = [pc EXCEPT ![t] = l]
        /\ pc[t] \in {"started", "notify", "dec", "head"}
        /\ l \in {"pick", "head"} => pc[t] = "started" /\ runningThreads' = runningThreads + 1
        /\ l = "dec" => pc[t] = "notify" /\ runningThreads' = runningThreads
        /\ l = "ended" => pc[t] = "dec" /\ runningThreads' = runningThreads - 1
        /\ l = "main" => /\ pc[t] = "head" /\ runningThreads' = runningThreads
                         /\ results' = [results EXCEPT ![t] = Null]
        /\ l # "main" => results' = results
  BY DEF Begin, Notify, Decrement, LoopHead, Goto
<1>1. /\ UNCHANGED <<cfg, local, interResults, next, answer>>
      /\ main' = main \/ main' = "scan"
  BY DEF Begin, Notify, Decrement, LoopHead, mainVars
<1>2. TypeOK'
  BY <1>0, <1>1 DEF TypeOK, PCs, Inside, MainPCs, local
<1>3. NotStarted'
  BY <1>0, <1>1, ThreadNotStarted DEF PCs, Inside
<1>4. CountExact'
  BY <1>0, CountStep DEF PCs, Inside
<1>5. UsesEarlier'
  BY <1>1 DEF UsesEarlier
<1>6. UsesStored'
  BY <1>0, <1>1 DEF UsesStored, Stored, TypeOK, local
<1>7. ResultOf'
  BY <1>0, <1>1 DEF ResultOf, TypeOK, local
<1> QED BY <1>2, <1>3, <1>4, <1>5, <1>6, <1>7

\* The outcomes of a search.
LEMMA SearchIndInv ==
  ASSUME IndInv, NEW t \in Threads, Search(t)
  PROVE  IndInv'
<1> USE DEF IndInv
<1>0. PICK l \in {"gather", "pick", "leaked", "head", "notify", "store"} :
        /\ pc' = [pc EXCEPT ![t] = l]
        /\ pc[t] \in {"main", "again", "sub"}
        /\ l = "store" => pc[t] = "sub"
  BY DEF Search, SolveMain, FailMain, HitLimit, SolveSub, FailSub, Searching, Goto
<1>1. /\ UNCHANGED <<cfg, newInter, defAST, seen, interResults, runningThreads,
                     main, next, answer>>
      /\ gram' = gram \/ gram' = [gram EXCEPT ![t] = {}]
  BY DEF Search, SolveMain, FailMain, HitLimit, SolveSub, FailSub, Drop, mainVars, local
<1>2. \/ l \in {"pick", "leaked", "head", "notify"} /\ results' = results
      \/ \E U \in SUBSET gram[t], p \in {Main} \cup Subs :
           /\ results' = [results EXCEPT ![t] = [of |-> p, uses |-> U]]
           /\ (l = "gather" /\ p = Main) \/ (l = "store" /\ p = pos[t])
  <2>1. CASE SolveMain(t)
    <3>1. l = "gather"
      BY <1>0, <2>1 DEF SolveMain, Goto, TypeOK
    <3>2. PICK U \in SUBSET gram[t] :
            results' = [results EXCEPT ![t] = [of |-> Main, uses |-> U]]
      BY <2>1 DEF SolveMain, Publish
    <3> QED BY <3>1, <3>2
  <2>2. CASE SolveSub(t)
    <3>1. l = "store" /\ pos[t] \in Subs
      BY <1>0, <2>2 DEF SolveSub, Goto, TypeOK, ResultOf, Searching
    <3>2. PICK U \in SUBSET gram[t] :
            results' = [results EXCEPT ![t] = [of |-> pos[t], uses |-> U]]
      BY <2>2 DEF SolveSub, Publish
    <3> QED BY <3>1, <3>2
  <2>3. CASE FailMain(t) \/ HitLimit(t) \/ FailSub(t)
    BY <1>0, <2>3 DEF FailMain, HitLimit, FailSub, Goto, TypeOK
  <2> QED BY <2>1, <2>2, <2>3 DEF Search
<1>3. \/ pos' = pos
      \/ l = "pick" /\ pos' = [pos EXCEPT ![t] = @ + 1] /\ pos[t] \in Subs
  <2>1. CASE FailSub(t)
    <3>1. l = "pick"
      BY <1>0, <2>1 DEF FailSub, Goto, TypeOK
    <3>2. pc[t] = "sub" /\ pos' = [pos EXCEPT ![t] = @ + 1]
      BY <2>1 DEF FailSub, Searching
    <3> QED BY <3>1, <3>2 DEF ResultOf
  <2>2. CASE SolveMain(t) \/ FailMain(t) \/ HitLimit(t) \/ SolveSub(t)
    <3>1. pos' = pos
      BY <2>2 DEF SolveMain, FailMain, HitLimit, SolveSub
    <3> QED BY <3>1
  <2> QED BY <2>1, <2>2 DEF Search
<1>4. results' \in [Threads -> Result \cup {Null}]
  <2>1. \A U \in SUBSET gram[t], p \in {Main} \cup Subs : [of |-> p, uses |-> U] \in Result
    BY DEF TypeOK, Result
  <2>2. ASSUME NEW r \in Result, results' = [results EXCEPT ![t] = r]
        PROVE  results' \in [Threads -> Result \cup {Null}]
    BY <2>2 DEF TypeOK
  <2>3. CASE results' = results
    BY <2>3 DEF TypeOK
  <2> QED BY <1>2, <2>1, <2>2, <2>3
<1>5. TypeOK'
  <2>1. pos' \in [Threads -> 1 .. NumSubs + 1]
    <3>1. pos[t] \in Subs => pos[t] + 1 \in 1 .. NumSubs + 1
      BY DnCAssumption DEF Subs
    <3> QED BY <1>3, <3>1 DEF TypeOK
  <2>2. pc' \in [Threads -> PCs]
    BY <1>0 DEF TypeOK, PCs, Inside
  <2>3. gram' \in [Threads -> SUBSET Subs]
    BY <1>1 DEF TypeOK
  <2> QED BY <1>1, <1>4, <2>1, <2>2, <2>3 DEF TypeOK
<1>6. NotStarted'
  BY <1>0, <1>1, ThreadNotStarted DEF PCs, Inside
<1>7. CountExact'
  BY <1>0, <1>1, CountStep DEF PCs, Inside
<1>8. UsesEarlier'
  BY <1>1 DEF UsesEarlier
<1>9. UsesStored'
  <2>1. Stored' = Stored
    BY <1>1 DEF Stored
  <2>2. \A u \in Threads : gram'[u] \subseteq Stored
    BY <1>1 DEF UsesStored, TypeOK
  <2>3. \A u \in Threads : results'[u] # Null => results'[u].uses \subseteq Stored
    <3>1. CASE results' = results
      BY <3>1 DEF UsesStored
    <3>2. ASSUME NEW U \in SUBSET gram[t], NEW p \in {Main} \cup Subs,
                 results' = [results EXCEPT ![t] = [of |-> p, uses |-> U]]
          PROVE  \A u \in Threads : results'[u] # Null => results'[u].uses \subseteq Stored
      BY <3>2 DEF UsesStored, TypeOK
    <3> QED BY <1>2, <3>1, <3>2
  <2> QED BY <1>1, <2>1, <2>2, <2>3 DEF UsesStored
<1>10. ResultOf'
  <2>1. CASE results' = results /\ l \in {"pick", "leaked", "head", "notify"}
    BY <1>0, <1>3, <2>1 DEF ResultOf, TypeOK
  <2>2. ASSUME NEW U \in SUBSET gram[t], NEW p \in {Main} \cup Subs,
               results' = [results EXCEPT ![t] = [of |-> p, uses |-> U]],
               (l = "gather" /\ p = Main) \/ (l = "store" /\ p = pos[t])
        PROVE  ResultOf'
    <3>1. [of |-> p, uses |-> U] # Null /\ [of |-> p, uses |-> U].of = p
      BY DnCAssumption DEF Result, TypeOK
    <3>2. pos' = pos
      BY <1>3, <2>2
    <3> QED BY <1>0, <2>2, <3>1, <3>2 DEF ResultOf, TypeOK
  <2> QED BY <1>2, <2>1, <2>2
<1> QED BY <1>5, <1>6, <1>7, <1>8, <1>9, <1>10

LEMMA PickSubIndInv ==
  ASSUME IndInv, NEW t \in Threads, PickSub(t)
  PROVE  IndInv'
<1> USE DEF IndInv
<1>0. /\ pc[t] = "pick" /\ pos[t] \in Subs
      /\ UNCHANGED <<cfg, newInter, defAST, seen, interResults, runningThreads,
                     main, next, answer>>
  BY DnCAssumption DEF PickSub, TypeOK, Subs, mainVars
<1>1. \/ /\ pos' = [pos EXCEPT ![t] = @ + 1]
         /\ UNCHANGED <<gram, results, pc>>
      \/ /\ gram' = [gram EXCEPT ![t] = Stored]
         /\ results' = [results EXCEPT ![t] = Null]
         /\ pc' = [pc EXCEPT ![t] = "sub"] /\ pos' = pos
  BY DEF PickSub, Translate, Goto
<1>2. Stored \subseteq Subs
  BY StoredSubs
<1>3. pos[t] + 1 \in 1 .. NumSubs + 1
  BY <1>0, DnCAssumption DEF Subs
<1>4. TypeOK'
  BY <1>0, <1>1, <1>2, <1>3 DEF TypeOK, PCs, Inside
<1>5. NotStarted'
  BY <1>0, <1>1 DEF NotStarted, TypeOK
<1>6. CountExact'
  <2>1. CASE pc' = pc
    BY <1>0, <2>1, CountSame
  <2>2. CASE pc' = [pc EXCEPT ![t] = "sub"]
    BY <1>0, <2>2, CountStep DEF PCs, Inside
  <2> QED BY <1>1, <2>1, <2>2
<1>7. UsesEarlier'
  BY <1>0 DEF UsesEarlier
<1>8. UsesStored'
  BY <1>0, <1>1 DEF UsesStored, Stored, TypeOK
<1>9. ResultOf'
  BY <1>0, <1>1 DEF ResultOf, TypeOK
<1> QED BY <1>4, <1>5, <1>6, <1>7, <1>8, <1>9

\* A stored body applies what the grammar of its search offered: functions
\* stored before it.
LEMMA StoreIndInv ==
  ASSUME IndInv, NEW t \in Threads, Store(t)
  PROVE  /\ IndInv'
         /\ \A i \in DOMAIN interResults :
              i \in DOMAIN interResults' /\ interResults'[i] = interResults[i]
<1> USE DEF IndInv
<1> DEFINE e == [name |-> pos[t], uses |-> results[t].uses]
<1>0. /\ pc[t] = "store" /\ pos[t] \in Subs
      /\ results[t] # Null /\ results[t] \in Result
      /\ UNCHANGED <<cfg, gram, defAST, seen, results, runningThreads, main, next, answer>>
      /\ pc' = [pc EXCEPT ![t] = "pick"]
      /\ pos' = [pos EXCEPT ![t] = @ + 1]
  BY DEF Store, ResultOf, TypeOK, Goto, mainVars
<1>1. /\ newInter' \in [Threads -> BOOLEAN]
      /\ \/ interResults' = interResults
         \/ pos[t] \notin Stored /\ interResults' = Append(interResults, e)
  BY DEF Store, TypeOK
<1>2. e \in [name : Subs, uses : SUBSET Subs] /\ e.uses \subseteq Stored /\ e.name = pos[t]
  BY <1>0 DEF Result, UsesStored
<1>3. /\ interResults' \in Seq([name : Subs, uses : SUBSET Subs])
      /\ \A i \in DOMAIN interResults :
           i \in DOMAIN interResults' /\ interResults'[i] = interResults[i]
  <2>1. CASE interResults' = interResults
    BY <2>1 DEF TypeOK
  <2>2. CASE interResults' = Append(interResults, e)
    <3> HIDE DEF e
    <3>1. interResults \in Seq([name : Subs, uses : SUBSET Subs])
      BY DEF TypeOK
    <3> QED BY <1>2, <2>2, <3>1
  <2> QED BY <1>1, <2>1, <2>2
<1>4. Stored \subseteq Stored'
  BY <1>3 DEF Stored
<1>5. pos[t] + 1 \in 1 .. NumSubs + 1
  BY <1>0, DnCAssumption DEF Subs
<1>6. TypeOK'
  <2>1. pos' \in [Threads -> 1 .. NumSubs + 1]
    BY <1>0, <1>5 DEF TypeOK
  <2>2. pc' \in [Threads -> PCs]
    BY <1>0 DEF TypeOK, PCs, Inside
  <2> QED BY <1>0, <1>1, <1>3, <2>1, <2>2 DEF TypeOK
<1>7. NotStarted'
  BY <1>0 DEF NotStarted, TypeOK
<1>8. CountExact'
  BY <1>0, CountStep DEF PCs, Inside
<1>9. UsesEarlier'
  <2>1. CASE interResults' = interResults
    BY <2>1 DEF UsesEarlier
  <2>2. CASE pos[t] \notin Stored /\ interResults' = Append(interResults, e)
    <3>1. /\ Len(interResults) \in Nat
          /\ DOMAIN interResults = 1 .. Len(interResults)
          /\ DOMAIN interResults' = 1 .. Len(interResults) + 1
          /\ interResults'[Len(interResults) + 1] = e
      BY <1>2, <2>2 DEF TypeOK
    <3>2. \A i \in DOMAIN interResults : interResults[i].name # e.name
      BY <1>2, <2>2 DEF Stored
    <3>3. \A f \in e.uses : \E j \in 1 .. Len(interResults) : interResults[j].name = f
      BY <1>2, <3>1 DEF Stored
    <3>4. ASSUME NEW i \in DOMAIN interResults',
                 NEW j \in DOMAIN interResults', interResults'[i].name = interResults'[j].name
          PROVE  i = j
      BY <1>3, <3>1, <3>2, <3>4 DEF UsesEarlier
    <3>5. ASSUME NEW i \in DOMAIN interResults', NEW f \in interResults'[i].uses
          PROVE  \E j \in 1 .. i - 1 : interResults'[j].name = f
      <4>1. CASE i = Len(interResults) + 1
        <5>1. PICK j \in 1 .. Len(interResults) : interResults[j].name = f
          BY <3>1, <3>3, <3>5, <4>1
        <5>2. j \in 1 .. i - 1 /\ interResults'[j] = interResults[j]
          BY <1>3, <3>1, <4>1, <5>1
        <5> QED BY <5>1, <5>2
      <4>2. CASE i \in DOMAIN interResults
        <5>1. PICK j \in 1 .. i - 1 : interResults[j].name = f
          BY <1>3, <3>5, <4>2 DEF UsesEarlier
        <5>2. j \in DOMAIN interResults
          BY <3>1, <4>2, <5>1
        <5> QED BY <1>3, <5>1, <5>2
      <4> QED BY <3>1, <4>1, <4>2
    <3> QED BY <3>4, <3>5 DEF UsesEarlier
  <2> QED BY <1>1, <2>1, <2>2
<1>10. UsesStored'
  BY <1>0, <1>4 DEF UsesStored
<1>11. ResultOf'
  BY <1>0 DEF ResultOf, TypeOK
<1> QED BY <1>3, <1>6, <1>7, <1>8, <1>9, <1>10, <1>11

LEMMA AllPickedIndInv ==
  ASSUME IndInv, NEW t \in Threads, AllPicked(t)
  PROVE  IndInv'
<1> USE DEF IndInv
<1>0. /\ pc[t] = "pick"
      /\ gram' = [gram EXCEPT ![t] = Stored]
      /\ pos' = [pos EXCEPT ![t] = 1]
      /\ newInter' = [newInter EXCEPT ![t] = FALSE]
      /\ UNCHANGED <<cfg, defAST, seen, interResults, runningThreads, main, next, answer>>
  BY DEF AllPicked, Translate, mainVars
<1>1. \/ /\ results' = [results EXCEPT ![t] = Null]
         /\ pc' = [pc EXCEPT ![t] = "again"]
      \/ results' = results /\ pc' = [pc EXCEPT ![t] = "head"]
  BY DEF AllPicked, Goto
<1>2. Stored \subseteq Subs /\ 1 \in 1 .. NumSubs + 1
  BY DnCAssumption, StoredSubs
<1>3. TypeOK'
  BY <1>0, <1>1, <1>2 DEF TypeOK, PCs, Inside
<1>4. NotStarted'
  BY <1>0, <1>1 DEF NotStarted, TypeOK
<1>5. CountExact'
  BY <1>0, <1>1, CountStep DEF PCs, Inside
<1>6. UsesEarlier'
  BY <1>0 DEF UsesEarlier
<1>7. UsesStored'
  BY <1>0, <1>1 DEF UsesStored, Stored, TypeOK
<1>8. ResultOf'
  BY <1>0, <1>1 DEF ResultOf, TypeOK
<1> QED BY <1>3, <1>4, <1>5, <1>6, <1>7, <1>8

\* Gathering and rewriting: a body brings in stored functions only.
LEMMA RewriteIndInv ==
  ASSUME IndInv, NEW t \in Threads, Gather(t) \/ ListAll(t) \/ Rewrite(t)
  PROVE  IndInv'
<1> USE DEF IndInv
<1>0. UNCHANGED <<cfg, pos, gram, newInter, results, interResults, runningThreads,
                  main, next, answer>>
  BY DEF Gather, ListAll, Rewrite, mainVars
<1>1. PICK l \in {"list", "fill", "leaked"} :
        /\ pc' = [pc EXCEPT ![t] = l]
        /\ pc[t] \in {"gather", "list", "fill"}
  <2>1. pc' = pc /\ pc[t] = "fill" => pc' = [pc EXCEPT ![t] = "fill"]
    BY DEF TypeOK
  <2> QED BY <2>1 DEF Gather, ListAll, Rewrite, Goto
<1>2. seen' \in [Threads -> Nat]
  BY DEF Gather, ListAll, Rewrite, TypeOK
<1>3. Stored \subseteq Subs
  BY StoredSubs
<1>4. \A i \in DOMAIN interResults : interResults[i].uses \subseteq Stored
  <2> SUFFICES ASSUME NEW i \in DOMAIN interResults, NEW f \in interResults[i].uses
               PROVE  f \in Stored
    OBVIOUS
  <2>1. PICK j \in 1 .. i - 1 : interResults[j].name = f
    BY DEF UsesEarlier
  <2>2. j \in DOMAIN interResults
    BY <2>1 DEF TypeOK
  <2> QED BY <2>1, <2>2 DEF Stored
<1>5. PICK A \in SUBSET Stored : defAST' = [defAST EXCEPT ![t] = A]
  <2>1. CASE Gather(t)
    <3>1. results[t].uses \subseteq Stored
      BY <2>1 DEF Gather, UsesStored, ResultOf
    <3> QED BY <2>1, <3>1 DEF Gather
  <2>2. CASE defAST' = defAST
    <3>1. defAST[t] \subseteq Stored /\ defAST' = [defAST EXCEPT ![t] = defAST[t]]
      BY <2>2 DEF UsesStored, TypeOK
    <3> QED BY <3>1
  <2>3. ASSUME NEW f \in defAST[t], defAST' = [defAST EXCEPT ![t] = Body(t, f)]
        PROVE  \E A \in SUBSET Stored : defAST' = [defAST EXCEPT ![t] = A]
    <3>1. Body(t, f) \subseteq Stored
      BY <1>4 DEF Body, UsesStored
    <3> QED BY <2>3, <3>1
  <2>4. Rewrite(t) \/ ListAll(t) =>
          \/ defAST' = defAST
          \/ \E f \in defAST[t] : defAST' = [defAST EXCEPT ![t] = Body(t, f)]
    BY DEF Rewrite, ListAll
  <2> QED BY <2>1, <2>2, <2>3, <2>4
<1>6. TypeOK'
  BY <1>0, <1>1, <1>2, <1>3, <1>5 DEF TypeOK, PCs, Inside
<1>7. NotStarted'
  BY <1>0, <1>1 DEF NotStarted, TypeOK
<1>8. CountExact'
  BY <1>0, <1>1, CountStep DEF PCs, Inside
<1>9. UsesEarlier'
  BY <1>0 DEF UsesEarlier
<1>10. UsesStored'
  BY <1>0, <1>5 DEF UsesStored, Stored, TypeOK
<1>11. ResultOf'
  BY <1>0, <1>1 DEF ResultOf, TypeOK
<1> QED BY <1>6, <1>7, <1>8, <1>9, <1>10, <1>11

LEMMA FilledIndInv ==
  ASSUME IndInv, NEW t \in Threads, Filled(t)
  PROVE  IndInv'
<1> USE DEF IndInv
<1> DEFINE r == [results[t] EXCEPT !.uses = {}]
<1>0. /\ pc[t] = "fill" /\ pc' = [pc EXCEPT ![t] = "notify"]
      /\ results' = [results EXCEPT ![t] = r]
      /\ UNCHANGED <<cfg, pos, gram, newInter, defAST, seen, interResults,
                     runningThreads, main, next>>
  BY DEF Filled, Goto, local
<1>1. results[t] \in Result /\ results[t] # Null /\ results[t].of = Main
  BY <1>0 DEF ResultOf, TypeOK
<1>2. r \in Result /\ r.of = Main /\ r.uses = {} /\ r # Null
  BY <1>1, DnCAssumption DEF Result
<1>3. results'[t] = r
  BY <1>0 DEF TypeOK
<1>4. answer' = answer \/ answer' = [by |-> t, res |-> r]
  BY <1>3 DEF Filled
<1>5. TypeOK'
  <2>1. results' \in [Threads -> Result \cup {Null}]
    BY <1>0, <1>2 DEF TypeOK
  <2>2. answer' \in [by : Threads, res : Result] \cup {Null}
    <3> HIDE DEF r
    <3> QED BY <1>2, <1>4 DEF TypeOK
  <2> QED BY <1>0, <2>1, <2>2 DEF TypeOK, PCs, Inside
<1>6. NotStarted'
  BY <1>0 DEF NotStarted, TypeOK
<1>7. CountExact'
  BY <1>0, CountStep DEF PCs, Inside
<1>8. UsesEarlier'
  BY <1>0 DEF UsesEarlier
<1>9. UsesStored'
  <2>1. \A u \in Threads : results'[u] # Null => results'[u].uses \subseteq Stored
    BY <1>0, <1>2 DEF UsesStored, TypeOK
  <2>2. answer' # Null => answer'.res.uses \subseteq Stored
    <3>1. CASE answer' = answer
      BY <3>1 DEF UsesStored
    <3>2. CASE answer' = [by |-> t, res |-> r]
      <4>1. answer'.res = r
        BY <3>2
      <4> HIDE DEF r
      <4> QED BY <1>2, <4>1
    <3> QED BY <1>4, <3>1, <3>2
  <2>3. Stored' = Stored
    BY <1>0 DEF Stored
  <2> QED BY <1>0, <2>1, <2>2, <2>3 DEF UsesStored
<1>10. ResultOf'
  BY <1>0, <1>2 DEF ResultOf, TypeOK
<1> QED BY <1>5, <1>6, <1>7, <1>8, <1>9, <1>10

LEMMA StutterIndInv == ASSUME IndInv, UNCHANGED vars PROVE IndInv'
BY DEF IndInv, TypeOK, NotStarted, CountExact, UsesEarlier, UsesStored, Stored,
       ResultOf, vars, local, mainVars

LEMMA NextIndInv == IndInv /\ [Next]_vars => IndInv'
<1> SUFFICES ASSUME IndInv, [Next]_vars PROVE IndInv'
  OBVIOUS
<1>1. CASE UNCHANGED vars
  BY <1>1, StutterIndInv
<1>2. CASE Dispatch \/ SpuriousWake
  BY <1>2, StartThreadIndInv, ScanIndInv DEF Dispatch
<1>3. ASSUME NEW t \in Threads, Control(t) \/ Search(t)
      PROVE  IndInv'
  BY <1>3, MoveIndInv, SearchIndInv, PickSubIndInv, StoreIndInv, AllPickedIndInv,
     RewriteIndInv, FilledIndInv DEF Control
<1> QED BY <1>1, <1>2, <1>3 DEF Next

-----------------------------------------------------------------------------

\* The GENERALDNC loop and its DnCegis threads keep the inductive invariant:
\* the calls between stored functions have no cycle, and everything that is
\* mentioned has a definition.
THEOREM IndInvHolds == Spec => []IndInv
<1>1. Init => IndInv
  BY InitIndInv
<1>2. IndInv /\ [Next]_vars => IndInv'
  BY NextIndInv
<1> QED BY <1>1, <1>2, PTL DEF Spec

\* A DnCegis thread that has ended holds no result but a solution of the main
\* problem in which all intermediate functions are filled in.
THEOREM EndedIsFinalHolds == Spec => []EndedIsFinal
<1>1. IndInv => EndedIsFinal
  <2> SUFFICES ASSUME IndInv, NEW t \in Threads, results[t] # Null,
                      pc[t] \in {"notify", "dec", "ended"}
               PROVE  results[t] = [of |-> Main, uses |-> {}]
    BY DEF EndedIsFinal
  <2>1. results[t] \in Result
    BY DEF IndInv, TypeOK
  <2>2. results[t].of = Main /\ results[t].uses = {}
    BY DEF IndInv, ResultOf
  <2> QED BY <2>1, <2>2 DEF Result
<1> QED BY <1>1, IndInvHolds, PTL

\* interResults is written once for each subproblem, whichever threads solve it.
THEOREM WriteOnceHolds == Spec => WriteOnce
<1> DEFINE Kept == \A i \in DOMAIN interResults :
              i \in DOMAIN interResults' /\ interResults'[i] = interResults[i]
<1>1. IndInv /\ [Next]_vars => [Kept]_vars
  <2> SUFFICES ASSUME IndInv, Next PROVE Kept
    OBVIOUS
  <2>1. CASE interResults' = interResults
    BY <2>1
  <2>2. ASSUME NEW t \in Threads, Store(t) PROVE Kept
    BY <2>2, StoreIndInv
  <2>3. (\A t \in Threads : ~Store(t)) => interResults' = interResults
    BY DEF Next, Dispatch, StartThread, EnterWait, SpuriousWake, ScanCheck, ScanRead,
       Test, Control, Search, Begin, LoopHead, PickSub, AllPicked, Gather, ListAll,
       Rewrite, Filled, Notify, Decrement, SolveMain, FailMain, HitLimit, SolveSub, FailSub
  <2> QED BY <2>1, <2>2, <2>3
<1> QED BY <1>1, IndInvHolds, PTL DEF Spec, WriteOnce

\* Filling in replaces a function by functions stored before it, whatever the
\* other threads store in between: it can go on for a bounded number of rounds.
THEOREM FillDescendsHolds == Spec => FillDescends
<1> DEFINE Falls(t) == pc[t] = "fill" /\ defAST'[t] # defAST[t] =>
             \E i \in DOMAIN interResults :
               /\ interResults[i].name \in defAST[t] \ defAST'[t]
               /\ \A j \in DOMAIN interResults : j > i =>
                    (interResults[j].name \in defAST'[t] <=> interResults[j].name \in defAST[t])
<1>1. IndInv /\ [Next]_vars => [\A t \in Threads : Falls(t)]_vars
  <2> SUFFICES ASSUME IndInv, Next, NEW t \in Threads,
                      pc[t] = "fill", defAST'[t] # defAST[t]
               PROVE  \E i \in DOMAIN interResults :
                        /\ interResults[i].name \in defAST[t] \ defAST'[t]
                        /\ \A j \in DOMAIN interResults : j > i =>
                             (interResults[j].name \in defAST'[t] <=> interResults[j].name \in defAST[t])
    OBVIOUS
  <2>1. \E u \in Threads : Rewrite(u) \/ Gather(u)
    BY DEF Next, Dispatch, StartThread, EnterWait, SpuriousWake, ScanCheck, ScanRead,
       Test, Control, Search, Begin, LoopHead, PickSub, Store, AllPicked, ListAll,
       Filled, Notify, Decrement, SolveMain, FailMain, HitLimit, SolveSub, FailSub, local
  <2>2. PICK f \in defAST[t] : f \in Stored /\ defAST'[t] = Body(t, f)
    BY <2>1 DEF Rewrite, Gather, IndInv, TypeOK
  <2>3. PICK i \in DOMAIN interResults : interResults[i].name = f
    BY <2>2 DEF Stored
  <2>4. DOMAIN interResults \subseteq Nat
    BY DEF IndInv, TypeOK
  <2>5. /\ \A j \in DOMAIN interResults : interResults[j].name = f => j = i
        /\ \A g \in interResults[i].uses : \E j \in 1 .. i - 1 : interResults[j].name = g
    BY <2>3 DEF IndInv, UsesEarlier
  <2>6. defAST'[t] = (defAST[t] \ {f}) \cup interResults[i].uses
    BY <2>2, <2>3, <2>5 DEF Body
  <2>7. \A j \in DOMAIN interResults : j >= i => interResults[j].name \notin interResults[i].uses
    <3> SUFFICES ASSUME NEW j \in DOMAIN interResults, j >= i,
                        interResults[j].name \in interResults[i].uses
                 PROVE  FALSE
      OBVIOUS
    <3>1. PICK k \in 1 .. i - 1 : interResults[k].name = interResults[j].name
      BY <2>5
    <3>2. k \in DOMAIN interResults
      BY <3>1 DEF IndInv, TypeOK
    <3>3. k = j
      BY <3>1, <3>2 DEF IndInv, UsesEarlier
    <3> QED BY <2>4, <3>1, <3>3
  <2>8. f \notin defAST'[t]
    BY <2>3, <2>4, <2>6, <2>7
  <2>9. \A j \in DOMAIN interResults : j > i =>
          (interResults[j].name \in defAST'[t] <=> interResults[j].name \in defAST[t])
    BY <2>4, <2>5, <2>6, <2>7
  <2> QED BY <2>3, <2>8, <2>9
<1> QED BY <1>1, IndInvHolds, PTL DEF Spec, FillDescends
=============================================================================
