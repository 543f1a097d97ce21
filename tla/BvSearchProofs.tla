--------------------------- MODULE BvSearchProofs ---------------------------
(* The bookkeeping of SearchConfig::search is exact, and get_tree does not  *)
(* panic where Safe holds, for every set of examples, grammar and           *)
(* configuration and any number of conditions.                              *)
EXTENDS BvSearch, DecisionTreesProofs, FiniteSetTheorems, TLAPS

\* The examples are finitely many, at least two, and a tree is for some of them.
LEMMA ExamplesFacts ==
  /\ IsFiniteSet(Examples) /\ Cardinality(Examples) = Size /\ Size \in Nat
  /\ 0 \in Examples
  /\ Ones \subseteq Examples
PROOF
<1>1. Size \in Nat \ {0, 1}
  BY SearchAssumption
<1>2. IsFiniteSet(0 .. Size - 1) /\ Cardinality(0 .. Size - 1) = Size
  BY <1>1, FS_Interval
<1>3. 0 \in 0 .. Size - 1
  BY <1>1
<1> QED BY <1>1, <1>2, <1>3 DEF Examples, Ones

\* What the buffer gets: all conditions found before the new one.
LEMMA PublishedAll ==
  ASSUME IndInv, NEW C
  PROVE  Published(C) = conds
PROOF
<1>1. conds \in Seq(Conds) /\ Len(conds) \in Nat
  BY DEF IndInv, TypeOK
<1>2. CASE conds = <<>>
  BY <1>2 DEF Published, IndInv, BufferLags
<1>3. CASE conds # <<>>
  <2>1. PICK k \in Nat : Len(conds) = k + 1 /\ Len(conds) - 1 = k
    <3>1. Len(conds) # 0
      BY <1>1, <1>3
    <3>2. Len(conds) - 1 \in Nat /\ Len(conds) = (Len(conds) - 1) + 1
      BY <1>1, <3>1
    <3> QED BY <3>2
  <2>2. buffer = SubSeq(conds, 1, k)
    BY <1>3, <2>1 DEF IndInv, BufferLags
  <2> QED BY <1>1, <2>1, <2>2, RestAndLast DEF Published
<1> QED BY <1>2, <1>3

\* The conditions in the buffer are among those found.
LEMMA BufferElements ==
  ASSUME IndInv
  PROVE  Elements(buffer) \subseteq Elements(conds)
PROOF
<1>1. conds \in Seq(Conds) /\ Len(conds) \in Nat
  BY DEF IndInv, TypeOK
<1>2. CASE conds = <<>>
  BY <1>2 DEF IndInv, BufferLags
<1>3. CASE conds # <<>>
  <2>1. buffer = SubSeq(conds, 1, Len(conds) - 1)
    BY <1>3 DEF IndInv, BufferLags
  <2>2. DOMAIN buffer \subseteq DOMAIN conds
        /\ \A i \in DOMAIN buffer : buffer[i] = conds[i]
    BY <1>1, <2>1
  <2> QED BY <2>2 DEF Elements
<1> QED BY <1>2, <1>3

\* Nothing but the conditions is touched by a condition thread's step.
LEMMA CondStep ==
  ASSUME IndInv, NEW C \in Conds, AddCondition(C),
         condpc' = condpc, condsample' = condsample, cfg' = cfg, phase' = phase,
         UNCHANGED exprvars
  PROVE  IndInv'
PROOF
<1>1. buffer' = conds /\ conds' = Append(conds, C) /\ conds \in Seq(Conds)
  BY PublishedAll DEF AddCondition, IndInv, TypeOK
<1>2. /\ unsolved' = unsolved /\ solved' = solved /\ searching' = searching
      /\ sample' = sample /\ early' = early /\ samplesolved' = samplesolved
  BY DEF exprvars
<1>3. TypeOK'
  BY <1>1, <1>2 DEF IndInv, TypeOK
<1>4. UnsolvedExact' /\ NoDominated' /\ CompleteSample' /\ SearchPhase'
  BY <1>2 DEF IndInv, UnsolvedExact, NoDominated, CompleteSample, SearchPhase, Safe
<1>5. BufferLags'
  <2>1. conds' # <<>> /\ SubSeq(conds', 1, Len(conds') - 1) = conds
    BY <1>1
  <2> QED BY <1>1, <2>1 DEF BufferLags
<1>6. HasTreeNow(solved) => HasTreeNow(solved)'
  BY <1>1, <1>2, BufferElements, TreeMonotone DEF HasTreeNow, Ones
<1>7. TreeReady'
  BY <1>2, <1>6 DEF IndInv, TreeReady, Safe
<1> QED BY <1>3, <1>4, <1>5, <1>7 DEF IndInv

\* A complete sample: all of a pool that the sample size does not exceed.
LEMMA SampleWhole ==
  ASSUME NEW n \in Nat, n >= Size, NEW S \in Samples(Examples, n)
  PROVE  S = Examples
PROOF
<1>1. Cardinality(Examples) \in Nat /\ 0 \in Examples
  BY ExamplesFacts
<1>2. PICK T \in SUBSET Examples :
        /\ Cardinality(T) = IF Cardinality(Examples) < n THEN Cardinality(Examples) ELSE n
        /\ S = T \cup (IF Cardinality(Examples) < n THEN {0} ELSE {})
  BY DEF Samples
<1>3. Cardinality(T) = Cardinality(Examples)
  BY <1>1, <1>2, ExamplesFacts
<1>4. T = Examples
  BY <1>3, ExamplesFacts, FS_Subset
<1> QED BY <1>1, <1>2, <1>4

\* A sample is a set of examples.
LEMMA SampleType ==
  ASSUME NEW pool \in SUBSET Examples, NEW n, NEW S \in Samples(pool, n)
  PROVE  S \subseteq Examples
PROOF BY ExamplesFacts DEF Samples

\* tree_learning answers yes only if there is a tree.
LEMMA TreeFoundRight ==
  ASSUME NEW left, NEW opts, TRUE \in TreeFound(left, opts),
         ~(phase = "expr" /\ ~cfg.limited)
  PROVE  left = {} /\ HasTreeNow(opts)
PROOF BY DEF TreeFound

\* What StartSearch leaves of the invariant.
LEMMA StartStep ==
  ASSUME IndInv, StartSearch
  PROVE  IndInv'
PROOF
<1>1. /\ cfg' = cfg /\ phase' = phase /\ unsolved' = unsolved /\ solved' = solved
      /\ conds' = conds /\ buffer' = buffer /\ condpc' = condpc
      /\ condsample' = condsample /\ samplesolved' = samplesolved
      /\ searching' = TRUE /\ early' = TRUE
  BY DEF StartSearch, condvars
<1>2. TypeOK'
  <2>1. sample' \subseteq Examples
    <3>1. (IF cfg.limited \/ phase = "improve" THEN Examples ELSE unsolved)
            \in SUBSET Examples
      BY DEF IndInv, TypeOK
    <3> QED BY <3>1, SampleType DEF StartSearch
  <2> QED BY <1>1, <2>1 DEF IndInv, TypeOK
<1>3. CompleteSample'
  <2> SUFFICES ASSUME cfg.limited, Safe
               PROVE  ~samplesolved /\ sample' = Examples /\ Examples \notin Elements(solved)
    BY <1>1 DEF CompleteSample, Safe
  <2>1. cfg.n \in Nat /\ cfg.n >= Size
    BY SearchAssumption DEF Safe, IndInv, TypeOK, Config
  <2>2. sample' \in Samples(Examples, cfg.n)
    BY DEF StartSearch
  <2>3. sample' = Examples
    BY <2>1, <2>2, SampleWhole
  <2>4. unsolved # {}
    BY DEF StartSearch, IndInv, SearchPhase
  <2>5. Examples \notin Elements(solved)
    BY <2>4 DEF IndInv, UnsolvedExact
  <2> QED BY <2>3, <2>5 DEF IndInv, CompleteSample
<1>4. TreeReady' /\ SearchPhase'
  BY <1>1 DEF IndInv, TreeReady, SearchPhase, StartSearch, Safe, HasTreeNow
<1> QED BY <1>1, <1>2, <1>3, <1>4 DEF IndInv, UnsolvedExact, BufferLags, NoDominated

\* Limited mode with a complete sample rejects no answer.
LEMMA AnswersAccepted ==
  ASSUME IndInv, searching, cfg.limited, Safe, NEW S \in Exprs, sample \subseteq S
  PROVE  S = Examples /\ Covers(S) /\ ~cfg.check /\ ~Dominated(S)
PROOF
<1>1. S = Examples
  BY SearchAssumption DEF IndInv, CompleteSample
<1>2. Cardinality(Examples) >= Cardinality(unsolved)
  <2>1. unsolved \subseteq Examples
    BY DEF IndInv, TypeOK
  <2>2. /\ Cardinality(unsolved) <= Cardinality(Examples)
        /\ Cardinality(unsolved) \in Nat /\ Cardinality(Examples) \in Nat
    BY <2>1, ExamplesFacts, FS_Subset, FS_CardinalityType
  <2> QED BY <2>2
<1>3. ~Dominated(S)
  <2> SUFFICES ASSUME NEW i \in DOMAIN solved, S \subseteq solved[i]
               PROVE  FALSE
    BY DEF Dominated
  <2>1. solved[i] \subseteq Examples
    BY SearchAssumption DEF IndInv, TypeOK
  <2>2. solved[i] = Examples /\ solved[i] \in Elements(solved)
    BY <1>1, <2>1 DEF Elements
  <2> QED BY <2>2 DEF IndInv, CompleteSample
<1> QED BY <1>1, <1>2, <1>3 DEF Covers, Safe

\* A rejected expression.
LEMMA RejectStep ==
  ASSUME IndInv, NEW S \in Exprs, Reject(S)
  PROVE  IndInv'
PROOF
<1>1. /\ cfg' = cfg /\ phase' = phase /\ unsolved' = unsolved /\ solved' = solved
      /\ conds' = conds /\ buffer' = buffer /\ condpc' = condpc
      /\ condsample' = condsample /\ searching' = searching
      /\ sample' = sample /\ early' = early /\ searching
      /\ samplesolved' = (samplesolved \/ sample \subseteq S)
  BY DEF Reject, GoOn, Matches, condvars
<1>2. TypeOK'
  BY <1>1 DEF IndInv, TypeOK
<1>3. CompleteSample'
  <2> SUFFICES ASSUME cfg.limited, Safe
               PROVE  ~samplesolved'
    BY <1>1 DEF CompleteSample, Safe, IndInv
  <2>1. ~(sample \subseteq S)
    BY <1>1, AnswersAccepted DEF Reject
  <2> QED BY <1>1, <2>1 DEF IndInv, CompleteSample
<1> QED BY <1>1, <1>2, <1>3
        DEF IndInv, UnsolvedExact, BufferLags, NoDominated, TreeReady, SearchPhase,
            Safe, HasTreeNow

\* An added expression.
LEMMA AddStep ==
  ASSUME IndInv, NEW S \in Exprs, Add(S)
  PROVE  IndInv'
PROOF
<1>1. /\ cfg' = cfg /\ conds' = conds /\ buffer' = buffer /\ condpc' = condpc
      /\ condsample' = condsample /\ searching
      /\ solved' = Append(solved, S) /\ unsolved' = unsolved \ S
      /\ Covers(S) /\ ~Dominated(S)
  BY DEF Add, Matches, condvars, Remaining
<1>2. /\ solved' \in Seq(Exprs) /\ solved \in Seq(Exprs)
      /\ Elements(solved') = Elements(solved) \cup {S}
  BY <1>1, PushElements DEF IndInv, TypeOK
<1>3. \/ EndSearch /\ (S = Examples \/ TRUE \in TreeFound(unsolved', solved'))
      \/ GoOn(S) /\ S # Examples
  BY DEF Add
<1>4. UnsolvedExact'
  BY <1>1, <1>2 DEF IndInv, UnsolvedExact
<1>5. NoDominated'
  <2>1. /\ DOMAIN solved' = 1 .. Len(solved) + 1 /\ DOMAIN solved = 1 .. Len(solved)
        /\ \A i \in DOMAIN solved : solved'[i] = solved[i]
        /\ solved'[Len(solved) + 1] = S /\ Len(solved) \in Nat
    BY <1>1, <1>2
  <2> SUFFICES ASSUME NEW i \in DOMAIN solved', NEW j \in DOMAIN solved', i < j
               PROVE  ~(solved'[j] \subseteq solved'[i])
    BY DEF NoDominated
  <2>2. i \in DOMAIN solved /\ (j \in DOMAIN solved \/ j = Len(solved) + 1)
    BY <2>1
  <2>3. CASE j \in DOMAIN solved
    BY <2>1, <2>2, <2>3 DEF IndInv, NoDominated
  <2>4. CASE j = Len(solved) + 1
    BY <1>1, <2>1, <2>2, <2>4 DEF Dominated
  <2> QED BY <2>2, <2>3, <2>4
<1>6. BufferLags'
  BY <1>1 DEF IndInv, BufferLags
<1>7. TypeOK' /\ SearchPhase'
  BY <1>1, <1>2, <1>3 DEF EndSearch, GoOn, IndInv, TypeOK, SearchPhase
<1>8. CompleteSample'
  <2> SUFFICES ASSUME cfg.limited, Safe
               PROVE  /\ ~samplesolved'
                      /\ searching' => sample' = Examples
                                       /\ Examples \notin Elements(solved')
    BY <1>1 DEF CompleteSample, Safe
  <2>1. CASE EndSearch
    BY <2>1 DEF EndSearch
  <2>2. CASE GoOn(S) /\ S # Examples
    <3>1. ~(sample \subseteq S)
      BY <1>1, <2>2, AnswersAccepted
    <3> QED BY <1>1, <1>2, <2>2, <3>1 DEF GoOn, IndInv, CompleteSample
  <2> QED BY <1>3, <2>1, <2>2
<1>9. TreeReady'
  <2> SUFFICES ASSUME Safe
               PROVE  /\ phase' = "tree" => HasTreeNow(solved')
                      /\ cfg.limited /\ unsolved' = {} /\ ~searching' => HasTreeNow(solved')
                      /\ phase' \in {"learn", "tree", "improve"} => unsolved' = {}
    BY <1>1 DEF TreeReady, Safe, HasTreeNow, Ones
  <2>1. phase \in {"expr", "improve"} /\ (phase = "improve" => ~cfg.limited /\ unsolved = {})
    BY <1>1 DEF IndInv, SearchPhase, TreeReady
  <2>2. CASE EndSearch /\ (S = Examples \/ TRUE \in TreeFound(unsolved', solved'))
    <3>1. CASE phase = "expr" /\ ~cfg.limited
      BY <2>2, <3>1 DEF EndSearch
    <3>2. CASE ~(phase = "expr" /\ ~cfg.limited)
      <4>1. HasTreeNow(solved')
        BY <1>2, <2>2, <3>2, TreeFoundRight, FullTree, ExamplesFacts DEF HasTreeNow
      <4>2. phase' \in {"learn", "tree", "improve"} => phase = "improve"
        BY <2>1, <2>2 DEF EndSearch
      <4> QED BY <1>1, <2>1, <4>1, <4>2
    <3> QED BY <3>1, <3>2
  <2>3. CASE GoOn(S)
    BY <1>1, <2>1, <2>3 DEF GoOn
  <2> QED BY <1>3, <2>2, <2>3
<1> QED BY <1>4, <1>5, <1>6, <1>7, <1>8, <1>9 DEF IndInv

\* The steps of the main thread between searches, and the end of a search by
\* the count limit.
LEMMA PhaseStep ==
  ASSUME IndInv, EndByLimit \/ LeaveExpr \/ Learn \/ GetTree
  PROVE  IndInv'
PROOF
<1>1. /\ cfg' = cfg /\ unsolved' = unsolved /\ solved' = solved
      /\ conds' = conds /\ buffer' = buffer /\ condpc' = condpc
      /\ condsample' = condsample
  BY DEF EndByLimit, LeaveExpr, Learn, GetTree, condvars, exprvars
<1>2. HasTreeNow(solved)' <=> HasTreeNow(solved)
  BY <1>1 DEF HasTreeNow, Ones
<1>3. UnsolvedExact' /\ BufferLags' /\ NoDominated'
  BY <1>1 DEF IndInv, UnsolvedExact, BufferLags, NoDominated
<1>4. CASE EndByLimit
  <2>1. /\ ~searching' /\ sample' = {} /\ early' = FALSE /\ samplesolved' = FALSE
        /\ phase' = phase /\ searching /\ samplesolved
    BY <1>4 DEF EndByLimit, EndSearch
  <2>2. TypeOK' /\ SearchPhase' /\ CompleteSample'
    BY <1>1, <1>4, <2>1
       DEF IndInv, TypeOK, SearchPhase, CompleteSample, EndByLimit, EndSearch
  <2>3. TreeReady'
    BY <1>1, <1>2, <2>1 DEF IndInv, TreeReady, CompleteSample, Safe
  <2> QED BY <1>3, <2>2, <2>3 DEF IndInv
<1>5. ASSUME LeaveExpr \/ Learn \/ GetTree
      PROVE  IndInv'
  <2>1. /\ searching' = searching /\ sample' = sample /\ early' = early
        /\ samplesolved' = samplesolved
    BY <1>5 DEF LeaveExpr, Learn, GetTree, exprvars
  <2>2. ~searching
    BY <1>5 DEF LeaveExpr, Learn, GetTree, IndInv, SearchPhase
  <2>3. CompleteSample'
    BY <1>1, <2>1 DEF IndInv, CompleteSample, Safe
  <2>4. TypeOK' /\ SearchPhase'
    BY <1>1, <1>5, <2>1, <2>2 DEF IndInv, TypeOK, SearchPhase, LeaveExpr, Learn, GetTree
  <2>5. TreeReady'
    <3>1. CASE LeaveExpr
      BY <1>1, <1>2, <2>1, <3>1 DEF IndInv, TreeReady, Safe, LeaveExpr
    <3>2. CASE GetTree
      BY <1>1, <1>2, <2>1, <3>2 DEF IndInv, TreeReady, Safe, GetTree
    <3>3. CASE Learn
      <4> SUFFICES ASSUME Safe, phase' = "tree"
                   PROVE  HasTreeNow(solved)
        BY <1>1, <1>2, <2>1, <3>3 DEF IndInv, TreeReady, Safe, Learn
      <4>1. cfg.limited \/ TRUE \in TreeFound(unsolved, solved)
        BY <3>3 DEF Learn
      <4>2. CASE cfg.limited
        BY <2>2, <3>3, <4>2 DEF IndInv, TreeReady, Learn
      <4>3. CASE TRUE \in TreeFound(unsolved, solved)
        BY <3>3, <4>3, TreeFoundRight DEF Learn
      <4> QED BY <4>1, <4>2, <4>3
    <3> QED BY <1>5, <3>1, <3>2, <3>3
  <2> QED BY <1>3, <2>3, <2>4, <2>5 DEF IndInv
<1> QED BY <1>4, <1>5

\* The bookkeeping of both threads is exact in every reachable state.
THEOREM IndInvHolds == Spec => []IndInv
PROOF
<1>1. Init => IndInv
  <2> SUFFICES ASSUME Init PROVE IndInv
    OBVIOUS
  <2>1. Elements(solved) = {} /\ unsolved # {}
    BY ExamplesFacts DEF Init, Elements
  <2>2. TypeOK
    <3>1. conds \in Seq(Conds) /\ buffer \in Seq(Conds)
      BY DEF Init
    <3>2. solved \in Seq(Exprs)
      BY DEF Init
    <3> QED BY <3>1, <3>2 DEF Init, TypeOK
  <2>3. BufferLags /\ CompleteSample /\ SearchPhase
    BY DEF Init, BufferLags, CompleteSample, SearchPhase
  <2>4. NoDominated
    BY DEF Init, NoDominated
  <2>5. UnsolvedExact /\ TreeReady
    BY <2>1 DEF Init, UnsolvedExact, TreeReady
  <2> QED BY <2>2, <2>3, <2>4, <2>5 DEF IndInv
<1>2. IndInv /\ [Next]_vars => IndInv'
  <2> SUFFICES ASSUME IndInv, [Next]_vars PROVE IndInv'
    OBVIOUS
  <2>1. CASE \E C \in Conds : CondBit(C) \/ CondFound(C)
    BY <2>1, CondStep DEF CondBit, CondFound
  <2>2. CASE CondSample \/ CondEnd
    <3>1. /\ cfg' = cfg /\ phase' = phase /\ conds' = conds /\ buffer' = buffer
          /\ unsolved' = unsolved /\ solved' = solved /\ searching' = searching
          /\ sample' = sample /\ early' = early /\ samplesolved' = samplesolved
      BY <2>2 DEF CondSample, CondEnd, exprvars
    <3>2. condpc' \in {"bits", "search", "end"} /\ condsample' \subseteq Examples
      BY <2>2, SampleType DEF CondSample, CondEnd, IndInv, TypeOK
    <3> QED BY <3>1, <3>2
            DEF IndInv, TypeOK, UnsolvedExact, BufferLags, NoDominated, CompleteSample,
                TreeReady, SearchPhase, Safe, HasTreeNow, Ones
  <2>3. CASE StartSearch
    BY <2>3, StartStep
  <2>4. CASE \E S \in Exprs : Reject(S) \/ Add(S)
    BY <2>4, RejectStep, AddStep
  <2>5. CASE EarlyEnds
    <3>1. /\ cfg' = cfg /\ phase' = phase /\ conds' = conds /\ buffer' = buffer
          /\ unsolved' = unsolved /\ solved' = solved /\ searching' = searching
          /\ sample' = sample /\ early' = FALSE /\ samplesolved' = samplesolved
          /\ condpc' = condpc /\ condsample' = condsample
      BY <2>5 DEF EarlyEnds, condvars
    <3> QED BY <3>1
            DEF IndInv, TypeOK, UnsolvedExact, BufferLags, NoDominated, CompleteSample,
                TreeReady, SearchPhase, Safe, HasTreeNow, Ones
  <2>6. CASE EndByLimit \/ LeaveExpr \/ Learn \/ GetTree
    BY <2>6, PhaseStep
  <2>7. CASE UNCHANGED vars
    BY <2>7 DEF vars, condvars, exprvars, IndInv, TypeOK, UnsolvedExact, BufferLags,
                NoDominated, CompleteSample, TreeReady, SearchPhase, Safe, HasTreeNow, Ones
  <2> QED BY <2>1, <2>2, <2>3, <2>4, <2>5, <2>6, <2>7 DEF Next
<1> QED BY <1>1, <1>2, PTL DEF Spec

\* search does not panic in get_tree, in the mode that improves and in limited
\* mode with complete samples.
THEOREM NoPanicHolds == Spec => []NoPanic
PROOF
<1>1. Init => NoPanic
  BY DEF Init, NoPanic
<1>2. IndInv /\ NoPanic /\ [Next]_vars => NoPanic'
  <2> SUFFICES ASSUME IndInv, NoPanic, [Next]_vars PROVE NoPanic'
    OBVIOUS
  <2>0. cfg' = cfg
    BY DEF Next, vars, CondBit, CondFound, CondSample, CondEnd, StartSearch, Reject,
           Add, EarlyEnds, EndByLimit, LeaveExpr, Learn, GetTree
  <2> SUFFICES ASSUME Safe, phase' = "panicked" PROVE FALSE
    BY <2>0 DEF NoPanic, Safe
  <2>1. phase # "panicked"
    BY DEF NoPanic
  <2>2. CASE GetTree
    BY <2>2 DEF GetTree, IndInv, TreeReady
  <2>3. CASE [Next]_vars /\ ~GetTree
    BY <2>1, <2>3
       DEF Next, vars, CondBit, CondFound, CondSample, CondEnd, StartSearch, Reject, Add,
           EarlyEnds, EndByLimit, LeaveExpr, Learn, EndSearch, GoOn
  <2> QED BY <2>2, <2>3
<1> QED BY <1>1, <1>2, IndInvHolds, PTL DEF Spec

\* Looking at the last expression only is enough to find a complete answer.
THEOREM FullIsLastHolds == Spec => []FullIsLast
PROOF
<1>1. IndInv => FullIsLast
  <2> SUFFICES ASSUME IndInv, NEW i \in DOMAIN solved, solved[i] = Examples
               PROVE  i = Len(solved)
    BY DEF FullIsLast
  <2>1. solved \in Seq(Exprs)
    BY DEF IndInv, TypeOK
  <2>2. /\ Len(solved) \in DOMAIN solved /\ i \in 1 .. Len(solved)
        /\ Len(solved) \in Nat /\ solved[Len(solved)] \in Exprs
    BY <2>1
  <2>3. solved[Len(solved)] \subseteq solved[i]
    BY <2>2, SearchAssumption
  <2>4. ~(i < Len(solved))
    BY <2>2, <2>3 DEF IndInv, NoDominated
  <2> QED BY <2>2, <2>4
<1> QED BY <1>1, IndInvHolds, PTL

\* A step adds to the conditions published and to the expressions, and takes
\* nothing away.
LEMMA StepGrows ==
  ASSUME IndInv, [Next]_vars
  PROVE  Elements(solved) \subseteq Elements(solved') /\ Elements(buffer) \subseteq Elements(buffer')
         /\ Ones' = Ones
PROOF
<1>1. ASSUME NEW C \in Conds, CondBit(C) \/ CondFound(C)
      PROVE  solved' = solved /\ Elements(buffer) \subseteq Elements(buffer')
  <2>1. solved' = solved /\ buffer' = Published(C)
    BY <1>1 DEF CondBit, CondFound, AddCondition, exprvars
  <2> QED BY <2>1, PublishedAll, BufferElements
<1>2. ASSUME NEW S \in Exprs, Add(S)
      PROVE  buffer' = buffer /\ Elements(solved) \subseteq Elements(solved')
  <2>1. buffer' = buffer /\ solved' = Append(solved, S) /\ solved \in Seq(Exprs)
    BY <1>2 DEF Add, condvars, IndInv, TypeOK
  <2> QED BY <2>1, PushElements
<1>3. UNCHANGED <<solved, buffer>> =>
        Elements(solved) \subseteq Elements(solved') /\ Elements(buffer) \subseteq Elements(buffer')
  OBVIOUS
<1>4. Elements(solved) \subseteq Elements(solved') /\ Elements(buffer) \subseteq Elements(buffer')
  BY <1>1, <1>2, <1>3
     DEF Next, vars, condvars, exprvars, CondSample, CondEnd, StartSearch, Reject,
         EarlyEnds, EndByLimit, LeaveExpr, Learn, GetTree
<1>5. cfg' = cfg
  BY DEF Next, vars, CondBit, CondFound, CondSample, CondEnd, StartSearch, Reject,
         Add, EarlyEnds, EndByLimit, LeaveExpr, Learn, GetTree
<1> QED BY <1>4, <1>5 DEF Ones

\* The tree that tree_learning has seen is still there for get_tree.
THEOREM TreeStaysHolds == Spec => TreeStays
PROOF
<1>1. IndInv /\ [Next]_vars => [HasTreeNow(solved) => HasTreeNow(solved)']_vars
  BY StepGrows, TreeMonotone DEF HasTreeNow
<1> QED BY <1>1, IndInvHolds, PTL DEF Spec, TreeStays
=============================================================================
