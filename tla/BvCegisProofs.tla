---------------------------- MODULE BvCegisProofs ----------------------------
(***************************************************************************)
(* The safety properties of BvCegis for any inputs, expressions, problems  *)
(* and replies, and that it implements SynthTask.                          *)
(***************************************************************************)
EXTENDS BvCegis, FiniteSetTheorems, TLAPS

\* A nonempty finite set has at least one element, and a new one adds one.
LEMMA CardFacts ==
  ASSUME NEW S, IsFiniteSet(S)
  PROVE  /\ Cardinality(S) \in Nat
         /\ S # {} => Cardinality(S) > 0
         /\ \A i : /\ IsFiniteSet(S \cup {i})
                   /\ i \notin S => Cardinality(S \cup {i}) = Cardinality(S) + 1
                   /\ Cardinality(S \cup {i}) \in Nat
                   /\ Cardinality(S \cup {i}) >= Cardinality(S)
<1>1. Cardinality(S) \in Nat
  BY FS_CardinalityType
<1>2. S # {} => Cardinality(S) > 0
  BY <1>1, FS_EmptySet
<1>3. ASSUME NEW i
      PROVE  /\ IsFiniteSet(S \cup {i})
             /\ i \notin S => Cardinality(S \cup {i}) = Cardinality(S) + 1
             /\ Cardinality(S \cup {i}) \in Nat
             /\ Cardinality(S \cup {i}) >= Cardinality(S)
  <2>1. /\ IsFiniteSet(S \cup {i})
        /\ Cardinality(S \cup {i}) = IF i \in S THEN Cardinality(S) ELSE Cardinality(S) + 1
    BY FS_AddElement
  <2> QED BY <2>1, <1>1
<1> QED BY <1>1, <1>2, <1>3

\* One more example: the words filled before it.
LEMMA DivStep ==
  ASSUME NEW L \in Nat \ {0}, NEW W \in Nat \ {0, 1}
  PROVE  /\ (L - 1) \div W \in Nat
         /\ L \div W \in Nat
         /\ L \div W >= (L - 1) \div W
         /\ L % W = 0 => L \div W = (L - 1) \div W + 1
         /\ W * ((L - 1) \div W) <= L - 1
<1>1. (L - 1) \div W \in Nat /\ L \div W \in Nat
  OBVIOUS
<1>2. W * ((L - 1) \div W) <= L - 1
  OBVIOUS
<1>3. L \div W >= (L - 1) \div W
  OBVIOUS
<1>4. L % W = 0 => L \div W = (L - 1) \div W + 1
  OBVIOUS
<1> QED BY <1>1, <1>2, <1>3, <1>4

\* From the rounds in terms of the words filled to a bound without them.
LEMMA RoundsArithmetic ==
  ASSUME NEW W \in Nat \ {0, 1}, NEW r \in Nat, NEW n \in Nat, NEW E \in Nat,
         NEW q \in Nat, NEW d \in Nat, d <= E, r < d + q, W * q <= n + r - 1
  PROVE  r * (W - 1) < W * (E - 1) + n
<1>1. r + 1 <= E + q 
  OBVIOUS
<1>2. W * (r+1) <= W * (E+q)
  BY <1>1
<1>3. W * (r+1) = W * r + W /\ W * (E+q) = W*E + W*q
  OBVIOUS
<1>4. W*(E-1) = W*E - W /\ r * (W-1) = W*r - r
  OBVIOUS
<1>5. W * r \in Nat /\ W * E \in Nat /\ W*q \in Nat
  OBVIOUS
<1> QED BY <1>2, <1>3, <1>4, <1>5

\* The inputs of a list of examples, and of one that is longer by one.
LEMMA RangeFacts ==
  ASSUME NEW s \in Seq(Inputs)
  PROVE  /\ Range(s) \subseteq Inputs /\ IsFiniteSet(Range(s))
         /\ Cardinality(Range(s)) \in Nat
         /\ Seen(s) \subseteq Range(s)
         /\ Len(s) % WordBits # 0 => Seen(s) = Range(s)
         /\ s # <<>> => Len(s) > 0 /\ Range(s) # {}
         /\ \A i \in Inputs : /\ Append(s, i) \in Seq(Inputs) /\ Append(s, i) # <<>>
                              /\ Len(Append(s, i)) = Len(s) + 1
                              /\ Range(Append(s, i)) = Range(s) \cup {i}
<1>1. Range(s) \subseteq Inputs
  BY DEF Range
<1>2. IsFiniteSet(Range(s)) /\ Cardinality(Range(s)) \in Nat
  BY <1>1, BvCegisAssumption, FS_Subset, FS_CardinalityType
<1>3. Seen(s) \subseteq Range(s)
  <2>1. Covered(Len(s)) <= Len(s) /\ Covered(Len(s)) \in Int
    BY BvCegisAssumption DEF Covered
  <2> QED BY <2>1 DEF Seen, Range
<1>4. Len(s) % WordBits # 0 => Seen(s) = Range(s)
  BY DEF Seen, Range, Covered
<1>5. s # <<>> => Len(s) > 0 /\ Range(s) # {}
  BY DEF Range
<1>6. ASSUME NEW i \in Inputs
      PROVE  /\ Append(s, i) \in Seq(Inputs) /\ Append(s, i) # <<>>
             /\ Len(Append(s, i)) = Len(s) + 1
             /\ Range(Append(s, i)) = Range(s) \cup {i}
  <2> DEFINE u == Append(s, i)
  <2>1. u \in Seq(Inputs) /\ Len(u) = Len(s) + 1
    OBVIOUS
  <2>6. u # <<>>
    <3>1. Len(s) \in Nat /\ Len(<<>>) = 0
      OBVIOUS
    <3> HIDE DEF u
    <3> QED BY <2>1, <3>1
  <2>2. \A j \in DOMAIN s : j \in DOMAIN u /\ u[j] = s[j]
    OBVIOUS
  <2>3. \A j \in DOMAIN u : j \in DOMAIN s \/ u[j] = i
    OBVIOUS
  <2>4. Len(s) + 1 \in DOMAIN u /\ u[Len(s) + 1] = i
    OBVIOUS
  <2>5. Range(u) = Range(s) \cup {i}
    BY <2>2, <2>3, <2>4 DEF Range
  <2> QED BY <2>1, <2>5, <2>6
<1> QED BY <1>1, <1>2, <1>3, <1>4, <1>5, <1>6

LEMMA InitIndInv == Init => IndInv
<1> SUFFICES ASSUME Init PROVE IndInv
  OBVIOUS
<1>0. right \in [Exprs -> SUBSET Inputs] /\ fits \in [Exprs -> SUBSET Inputs]
  BY BvCegisAssumption DEF Init, Problem
<1>1. TypeOK
  BY <1>0 DEF Init, TypeOK, Threads, PCs
<1>2. Phases /\ Candidates
  BY DEF Init, Phases, Candidates, Threads
<1>3. Counts
  BY DEF Init, Counts, Threads
<1>4. Results
  BY DEF Init, Results, Delivered, Sent, Threads
<1> QED BY <1>1, <1>2, <1>3, <1>4 DEF IndInv

LEMMA StartIndInv ==
  ASSUME IndInv, NEW t \in Threads, Start(t)
  PROVE  IndInv'
<1> USE DEF IndInv, given
<1>a. Larger(cfg.random, 1) \in Nat \ {0}
  BY BvCegisAssumption DEF TypeOK, Config, Larger
<1>b. \A E \in [1 .. Larger(cfg.random, 1) -> Evaluable] :
        /\ E \in Seq(Inputs) /\ E # <<>>
        /\ Len(E) = Larger(cfg.random, 1)
  <2> SUFFICES ASSUME NEW E \in [1 .. Larger(cfg.random, 1) -> Evaluable]
               PROVE  /\ E \in Seq(Inputs) /\ E # <<>>
                      /\ Len(E) = Larger(cfg.random, 1)
    OBVIOUS
  <2>1. E \in Seq(Inputs) /\ Len(E) = Larger(cfg.random, 1)
    BY <1>a, BvCegisAssumption
  <2> QED BY <1>a, <2>1
<1> PICK E \in Seq(Inputs), K \in SUBSET Inputs :
      /\ E # <<>>
      /\ cfg.mode # "pbe" => Len(E) = Larger(cfg.random, 1)
      /\ examples' = [examples EXCEPT ![t] = E]
      /\ checks' = [checks EXCEPT ![t] = K]
  <2>1. CASE cfg.mode = "pbe"
    BY <2>1, BvCegisAssumption DEF Start
  <2>2. CASE cfg.mode # "pbe"
    BY <2>2, <1>b, BvCegisAssumption DEF Start
  <2> QED BY <2>1, <2>2
<1>1. TypeOK'
  BY DEF Start, At, Goto, TypeOK, PCs
<1>2. Phases'
  BY DEF Start, At, Goto, TypeOK, Phases, Threads
<1>3. Candidates'
  BY DEF Start, At, Goto, TypeOK, Candidates
<1>4. Counts'
  <2>1. refuted[t] = 0 /\ conds[t] = 0
    BY DEF Start, At, Phases
  <2> QED BY <1>a, <2>1 DEF Start, At, Goto, TypeOK, Counts, Agree, Distinct, WordsFilled
<1>5. Results'
  BY DEF Start, At, Goto, TypeOK, Results, Delivered, Sent, Right
<1> QED BY <1>1, <1>2, <1>3, <1>4, <1>5

\* A thread that searches or verifies has examples.
LEMMA SomeExamples ==
  ASSUME IndInv, NEW t \in Threads, pc[t] \in {"search", "searching", "verify"}
  PROVE  /\ Len(examples[t]) \in Nat \ {0}
         /\ Distinct(t) \in Nat \ {0} /\ WordsFilled(t) \in Nat
<1>1. examples[t] \in Seq(Inputs) /\ examples[t] # <<>>
  BY DEF IndInv, TypeOK, Phases
<1>2. Len(examples[t]) \in Nat \ {0}
  BY <1>1
<1>3. Cardinality(Range(examples[t])) > 0
  BY <1>1, RangeFacts, CardFacts
<1>4. (Len(examples[t]) - 1) \div WordBits \in Nat
  BY <1>2, DivStep, BvCegisAssumption
<1> QED BY <1>1, <1>2, <1>3, <1>4, RangeFacts DEF Distinct, WordsFilled

LEMMA SpawnIndInv ==
  ASSUME IndInv, NEW t \in Threads, Spawn(t)
  PROVE  IndInv'
<1> USE DEF IndInv, given
<1>1. TypeOK'
  BY DEF Spawn, At, Goto, TypeOK, PCs, local
<1>2. Phases'
  BY DEF Spawn, At, Goto, TypeOK, Phases, local, Threads
<1>3. Candidates'
  BY DEF Spawn, At, Goto, TypeOK, Candidates, local
<1>4. Counts'
  <2>1. /\ Len(examples[t]) \in Nat \ {0}
        /\ Distinct(t) \in Nat \ {0} /\ WordsFilled(t) \in Nat
    BY SomeExamples DEF Spawn, At
  <2>2. UNCHANGED <<cfg, right, fits, examples, refuted>>
    BY DEF Spawn, local
  <2> QED BY <2>1, <2>2 DEF Spawn, At, Goto, TypeOK, Counts, Agree, Distinct, WordsFilled
<1>5. Results'
  BY DEF Spawn, At, Goto, TypeOK, Results, Delivered, Sent, Right, local
<1> QED BY <1>1, <1>2, <1>3, <1>4, <1>5

LEMMA CondEndIndInv ==
  ASSUME IndInv, NEW t \in Threads, CondEnd(t)
  PROVE  IndInv'
<1> USE DEF IndInv, given
<1>1. TypeOK'
  BY DEF CondEnd, TypeOK, local
<1>2. Phases'
  BY DEF CondEnd, TypeOK, Phases, local
<1>3. Candidates'
  BY DEF CondEnd, TypeOK, Candidates, local
<1>4. Counts'
  <2>1. UNCHANGED <<cfg, right, fits, examples, refuted, pc>>
    BY DEF CondEnd, local
  <2> QED BY <2>1 DEF CondEnd, TypeOK, Counts, Agree, Distinct, WordsFilled
<1>5. Results'
  BY DEF CondEnd, TypeOK, Results, Delivered, Sent, Right, local
<1> QED BY <1>1, <1>2, <1>3, <1>4, <1>5

LEMMA SearchIndInv ==
  ASSUME IndInv, NEW t \in Threads, SearchOk(t) \/ SearchErr(t) \/ SearchPanic(t)
  PROVE  IndInv'
<1> USE DEF IndInv, given
<1>0. pc[t] = "searching"
  BY DEF SearchOk, SearchErr, SearchPanic, At
<1>a. UNCHANGED <<cfg, right, fits, examples, checks, replies, blocked, refuted,
                  unsure, conds, channel, main, answer>>
  BY DEF SearchOk, SearchErr, SearchPanic, local
<1>b. PICK l \in {"send", "verify", "fail", "panicked"} :
        /\ pc' = [pc EXCEPT ![t] = l]
        /\ l = "verify" => cfg.mode # "pbe"
        /\ l = "send" => cfg.mode = "pbe"
        /\ l \in {"fail", "panicked"} => result' = result
  BY DEF SearchOk, SearchErr, SearchPanic, Goto
<1>c. PICK e \in Exprs \cup {None} :
        /\ result' = [result EXCEPT ![t] = e]
        /\ l \in {"send", "verify"} => e \in Exprs /\ Seen(examples[t]) \subseteq fits[e]
  <2>1. CASE SearchOk(t)
    BY <2>1 DEF SearchOk, Consistent
  <2>2. CASE l \in {"fail", "panicked"}
    BY <1>b, <2>2 DEF TypeOK
  <2>3. SearchErr(t) \/ SearchPanic(t) => l \in {"fail", "panicked"}
    BY <1>b DEF SearchErr, SearchPanic, Goto, TypeOK
  <2> QED BY <2>1, <2>2, <2>3
<1>1. TypeOK'
  BY <1>a, <1>b, <1>c DEF TypeOK, PCs
<1>2. Phases'
  BY <1>0, <1>a, <1>b DEF TypeOK, Phases, Threads
<1>3. Candidates'
  BY <1>0, <1>a, <1>b, <1>c DEF TypeOK, Candidates
<1>4. Counts'
  BY <1>0, <1>a, <1>b DEF TypeOK, Counts, Agree, Distinct, WordsFilled
<1>5. Results'
  <2>1. Delivered' = Delivered
    BY <1>a DEF Delivered, Sent
  <2> QED BY <1>0, <1>a, <1>b, <1>c, <2>1 DEF TypeOK, Results, Right
<1> QED BY <1>1, <1>2, <1>3, <1>4, <1>5

LEMMA RefuteIndInv ==
  ASSUME IndInv, NEW t \in Threads, Refute(t)
  PROVE  IndInv'
<1> USE DEF IndInv, given
<1>1. CASE pc[t] = "test"
  <2> UNCHANGED <<examples, refuted>>
    BY <1>1 DEF Refute
  <2>1. TypeOK'
    BY <1>1 DEF Refute, FreshSolver, AfterFalse, Goto, TypeOK, PCs
  <2>2. Phases'
    BY <1>1 DEF Refute, FreshSolver, AfterFalse, Goto, TypeOK, Phases, Threads
  <2>3. Candidates'
    BY <1>1 DEF Refute, FreshSolver, AfterFalse, Goto, TypeOK, Candidates
  <2>4. Counts'
    BY <1>1 DEF Refute, FreshSolver, AfterFalse, Goto, TypeOK, Counts, Agree, Distinct, WordsFilled
  <2>5. Results'
    BY <1>1 DEF Refute, AfterFalse, Goto, TypeOK, Results, Delivered, Sent, Right
  <2> QED BY <2>1, <2>2, <2>3, <2>4, <2>5
<1>2. CASE pc[t] # "test"
  <2>0. pc[t] = "verify"
    BY <1>2 DEF Refute, Verifying, At
  <2> PICK i \in Evaluable :
        /\ i \in Inputs /\ i \notin right[result[t]]
        /\ examples' = [examples EXCEPT ![t] = Append(@, i)]
        /\ refuted' = [refuted EXCEPT ![t] = @ + 1]
    BY <1>2 DEF Refute, Models, Recorded
  <2> DEFINE s == examples[t]
             u == Append(s, i)
  <2>s. s \in Seq(Inputs) /\ examples' = [examples EXCEPT ![t] = u]
    BY DEF TypeOK
  <2>u. /\ u \in Seq(Inputs) /\ u # <<>> /\ Len(u) = Len(s) + 1
        /\ Range(u) = Range(s) \cup {i}
    BY <2>s, RangeFacts
  <2> HIDE DEF u
  <2>1. TypeOK'
    BY <2>0, <2>s, <2>u DEF Refute, FreshSolver, AfterFalse, Goto, TypeOK, PCs
  <2>2. Phases'
    BY <2>0, <2>s, <2>u DEF Refute, FreshSolver, AfterFalse, Goto, TypeOK, Phases, Threads
  <2>3. Candidates'
    BY <2>0, <2>s DEF Refute, FreshSolver, AfterFalse, Goto, TypeOK, Candidates
  <2>4. Counts'
    <3>1. Agree => Range(u) # Range(s) \/ Len(s) % WordBits = 0
      <4> SUFFICES ASSUME Agree, Len(s) % WordBits # 0 PROVE i \notin Range(s)
        BY <2>u
      <4>1. result[t] \in Exprs /\ Range(s) \subseteq fits[result[t]]
        BY <2>0, <2>s, RangeFacts DEF Candidates
      <4> QED BY <4>1 DEF Agree
    <3>2. /\ Len(s) \in Nat \ {0} /\ Distinct(t) \in Nat \ {0} /\ WordsFilled(t) \in Nat
      BY <2>0, SomeExamples
    <3>3. /\ Cardinality(Range(u)) \in Nat /\ Cardinality(Range(u)) >= Distinct(t)
          /\ Range(u) # Range(s) => Cardinality(Range(u)) = Distinct(t) + 1
      <4>1. IsFiniteSet(Range(s)) /\ Distinct(t) = Cardinality(Range(s))
        BY <2>s, RangeFacts DEF Distinct
      <4>2. Range(u) # Range(s) => i \notin Range(s)
        BY <2>u
      <4> QED BY <2>u, <4>1, <4>2, CardFacts
    <3>4. /\ Len(s) \div WordBits \in Nat
          /\ Len(s) \div WordBits >= WordsFilled(t)
          /\ Len(s) % WordBits = 0 => Len(s) \div WordBits = WordsFilled(t) + 1
      BY <3>2, DivStep, BvCegisAssumption DEF WordsFilled
    <3>5. /\ Distinct(t)' = Cardinality(Range(u)) /\ WordsFilled(t)' = Len(s) \div WordBits
          /\ Len(examples[t])' = Len(s) + 1 /\ refuted'[t] = refuted[t] + 1
          /\ Agree' = Agree /\ cfg' = cfg /\ conds' = conds
          /\ pc'[t] = "search"
      <4>1. examples'[t] = u /\ refuted'[t] = refuted[t] + 1
        BY <2>s DEF TypeOK
      <4>2. /\ cfg' = cfg /\ conds' = conds /\ right' = right /\ fits' = fits
            /\ pc'[t] = "search"
        BY <2>0 DEF Refute, AfterFalse, Goto, TypeOK
      <4>3. (Len(s) + 1) - 1 = Len(s)
        BY <3>2
      <4> QED BY <2>u, <4>1, <4>2, <4>3 DEF Distinct, WordsFilled, Agree
    <3>6. \A r \in Threads \ {t} : /\ examples'[r] = examples[r] /\ refuted'[r] = refuted[r]
                                   /\ pc'[r] = pc[r]
      BY DEF TypeOK, Refute, Goto
    <3>7. ASSUME NEW r \in Threads \ {t}
          PROVE  /\ Distinct(r)' = Distinct(r) /\ WordsFilled(r)' = WordsFilled(r)
      BY <3>6 DEF Distinct, WordsFilled
    <3>8. Larger(cfg.random, 1) \in Nat
      BY BvCegisAssumption DEF TypeOK, Config, Larger
    <3>9. ASSUME NEW r \in Threads
          PROVE  /\ refuted'[r] > 0 \/ conds'[r] > 0 => refuted'[r] < Len(examples'[r])
                 /\ Agree' /\ (refuted'[r] > 0 \/ conds'[r] > 0) =>
                      refuted'[r] < Distinct(r)' + WordsFilled(r)'
                 /\ conds'[r] <= IF pc'[r] = "search" THEN refuted'[r] ELSE refuted'[r] + 1
                 /\ cfg'.mode # "pbe" /\ (refuted'[r] > 0 \/ pc'[r] \in {"search", "searching", "verify"}) =>
                      Len(examples'[r]) = Larger(cfg'.random, 1) + refuted'[r]
      <4>1. CASE r # t
        BY <4>1, <3>5, <3>6, <3>7 DEF Counts
      <4>2. CASE r = t
        <5>1. refuted[t] \in Nat /\ conds[t] \in Nat
          BY DEF TypeOK
        <5>2. refuted[t] < Len(s) /\ (Agree => refuted[t] < Distinct(t) + WordsFilled(t))
          BY <3>2, <5>1 DEF Counts
        <5>3. conds[t] <= refuted[t] + 1
          BY <2>0 DEF Counts
        <5>4. cfg.mode # "pbe" => Len(s) = Larger(cfg.random, 1) + refuted[t]
          BY <2>0 DEF Counts
        <5>5. Agree => refuted[t] + 1 < Cardinality(Range(u)) + Len(s) \div WordBits
          BY <3>1, <3>2, <3>3, <3>4, <5>1, <5>2
        <5> QED BY <4>2, <3>2, <3>5, <3>8, <5>1, <5>2, <5>3, <5>4, <5>5
      <4> QED BY <4>1, <4>2
    <3> QED BY <3>9 DEF Counts
  <2>5. Results'
    <3>1. \A r \in Threads : r \in Delivered \/ pc[r] = "send" => r # t
      BY <2>0 DEF Results
    <3>2. Delivered' = Delivered /\ pc' = [pc EXCEPT ![t] = "search"]
      BY <2>0 DEF Refute, AfterFalse, Goto, Delivered, Sent
    <3>3. UNCHANGED <<cfg, right, fits, result, unsure>>
      BY DEF Refute
    <3>4. \A r \in Threads : r # t => examples'[r] = examples[r] /\ (Right(r) => Right(r)')
      BY <3>3 DEF TypeOK, Right
    <3> QED BY <3>1, <3>2, <3>3, <3>4 DEF Results, TypeOK
  <2> QED BY <2>1, <2>2, <2>3, <2>4, <2>5
<1> QED BY <1>1, <1>2

LEMMA ExcludeIndInv ==
  ASSUME IndInv, NEW t \in Threads, Exclude(t)
  PROVE  IndInv'
<1> USE DEF IndInv, given
<1>0. pc[t] \in {"verify", "test"}
  BY DEF Exclude, Verifying, At
<1>1. TypeOK'
  BY DEF Exclude, Models, TypeOK
<1>2. Phases'
  BY DEF Exclude, TypeOK, Phases
<1>3. Candidates'
  BY <1>0 DEF Exclude, Models, TypeOK, Candidates
<1>4. Counts'
  BY DEF Exclude, TypeOK, Counts, Agree, Distinct, WordsFilled
<1>5. Results'
  BY DEF Exclude, TypeOK, Results, Delivered, Sent, Right
<1> QED BY <1>1, <1>2, <1>3, <1>4, <1>5

\* An unsat answer is an answer about every input that can be evaluated.
LEMMA AcceptIndInv ==
  ASSUME IndInv, NEW t \in Threads, Accept(t)
  PROVE  IndInv'
<1> USE DEF IndInv, given
<1>0. pc[t] \in {"verify", "test"}
  BY DEF Accept, Verifying, At
<1>1. TypeOK'
  BY DEF Accept, FreshSolver, Goto, TypeOK, PCs
<1>2. Phases'
  BY <1>0 DEF Accept, FreshSolver, Goto, TypeOK, Phases, Threads
<1>3. Candidates'
  BY <1>0 DEF Accept, FreshSolver, Goto, TypeOK, Candidates
<1>4. Counts'
  BY <1>0 DEF Accept, FreshSolver, Goto, TypeOK, Counts, Agree, Distinct, WordsFilled
<1>5. Results'
  <2>1. cfg.mode # "pbe"
    BY <1>0 DEF Phases, Threads
  <2>2. unsure'[t] \/ Evaluable \subseteq right[result[t]]
    <3>1. CASE Unsat(t)
      BY <3>1, BvCegisAssumption DEF Unsat, Models, Candidates
    <3>2. CASE unsure' = [unsure EXCEPT ![t] = TRUE]
      BY <3>2 DEF TypeOK
    <3> QED BY <3>1, <3>2 DEF Accept
  <2>3. \A s \in Threads : s # t => unsure'[s] = unsure[s]
    BY DEF Accept, TypeOK
  <2>4. Delivered' = Delivered
    BY DEF Accept, Delivered, Sent
  <2>5. UNCHANGED <<cfg, right, fits, examples, result>> /\ pc' = [pc EXCEPT ![t] = "send"]
    BY DEF Accept, Goto
  <2>6. Right(t)'
    BY <1>0, <2>2, <2>5 DEF Right, Candidates
  <2>7. \A r \in Threads : r # t /\ Right(r) => Right(r)'
    BY <2>3, <2>5 DEF Right
  <2>8. t \notin Delivered
    BY <1>0 DEF Results
  <2> QED BY <1>0, <2>4, <2>5, <2>6, <2>7, <2>8 DEF TypeOK, Results
<1> QED BY <1>1, <1>2, <1>3, <1>4, <1>5

LEMMA AskIndInv ==
  ASSUME IndInv, Ask
  PROVE  IndInv'
<1> USE DEF IndInv, given
<1> DEFINE t == "chat"
<1>3e. [1 .. 3 -> Evaluable] \subseteq Seq(Inputs)
  <2> SUFFICES ASSUME NEW E \in [1 .. 3 -> Evaluable] PROVE E \in Seq(Inputs)
    OBVIOUS
  <2> QED BY BvCegisAssumption
<1> PICK E \in Seq(Inputs), r \in Seq(Exprs) :
      /\ examples' = [examples EXCEPT ![t] = E]
      /\ replies' = r
  BY <1>3e, BvCegisAssumption DEF Ask
<1>0. t \in Threads
  BY DEF Threads
<1>1. TypeOK'
  BY <1>0 DEF Ask, At, Goto, TypeOK, PCs
<1>2. Phases'
  BY <1>0 DEF Ask, At, Goto, TypeOK, Phases, Threads
<1>3. Candidates'
  BY <1>0 DEF Ask, At, Goto, TypeOK, Candidates
<1>4. Counts'
  BY <1>0 DEF Ask, At, Goto, TypeOK, Counts, Phases, Agree, Distinct, WordsFilled
<1>5. Results'
  BY <1>0 DEF Ask, At, Goto, TypeOK, Results, Delivered, Sent, Right
<1> QED BY <1>1, <1>2, <1>3, <1>4, <1>5

LEMMA ReplyIndInv ==
  ASSUME IndInv, Try \/ NoReply
  PROVE  IndInv'
<1> USE DEF IndInv, given
<1>0. "chat" \in Threads /\ pc["chat"] = "try" /\ cfg.mode # "pbe"
  BY DEF Try, NoReply, At, Phases, Threads
<1>1. TypeOK'
  <2>1. CASE Try
    BY <1>0, <2>1 DEF Try, Goto, TypeOK, PCs
  <2>2. CASE NoReply
    BY <1>0, <2>2 DEF NoReply, Goto, TypeOK, PCs
  <2> QED BY <2>1, <2>2
<1>2. Phases'
  <2>1. CASE Try
    BY <1>0, <2>1 DEF Try, Goto, TypeOK, Phases, Threads
  <2>2. CASE NoReply
    BY <1>0, <2>2 DEF NoReply, Goto, TypeOK, Phases, Threads
  <2> QED BY <2>1, <2>2
<1>3. Candidates'
  <2>1. Range(examples["chat"]) \subseteq fits[Head(replies)] =>
          Seen(examples["chat"]) \subseteq fits[Head(replies)]
    BY <1>0, RangeFacts DEF TypeOK
  <2>2. replies # <<>> => Head(replies) \in Exprs
    BY DEF TypeOK
  <2>3. CASE Try
    BY <1>0, <2>1, <2>2, <2>3 DEF Try, Goto, TypeOK, Candidates
  <2>4. CASE NoReply
    BY <1>0, <2>4 DEF NoReply, Goto, TypeOK, Candidates
  <2> QED BY <2>3, <2>4
<1>4. Counts'
  <2>1. refuted["chat"] = 0 /\ conds["chat"] = 0
    BY <1>0 DEF Phases
  <2>2. CASE Try
    BY <1>0, <2>1, <2>2 DEF Try, Goto, TypeOK, Counts, Agree, Distinct, WordsFilled
  <2>3. CASE NoReply
    BY <1>0, <2>1, <2>3 DEF NoReply, Goto, TypeOK, Counts, Agree, Distinct, WordsFilled
  <2> QED BY <2>2, <2>3
<1>5. Results'
  <2>1. "chat" \notin Delivered
    BY <1>0 DEF Results
  <2>2. CASE Try
    <3>1. Delivered' = Delivered
      BY <2>2 DEF Try, Delivered, Sent
    <3> QED BY <1>0, <2>1, <2>2, <3>1 DEF Try, Goto, TypeOK, Results, Right
  <2>3. CASE NoReply
    <3>1. Delivered' = Delivered
      BY <2>3 DEF NoReply, Delivered, Sent
    <3> QED BY <1>0, <2>1, <2>3, <3>1 DEF NoReply, Goto, TypeOK, Results, Right
  <2> QED BY <2>2, <2>3
<1> QED BY <1>1, <1>2, <1>3, <1>4, <1>5

\* What a message adds to the results sent.
LEMMA SendDelivers ==
  ASSUME TypeOK, NEW t \in Threads, Send(t)
  PROVE  Delivered' = IF pc[t] = "send" THEN Delivered \cup {t} ELSE Delivered
<1> DEFINE m == [from |-> t, ok |-> pc[t] = "send"]
<1>1. /\ channel' = Append(channel, m) /\ answer' = answer
      /\ channel \in Seq(Message) /\ m \in Message
  <2>1. (pc[t] = "send") \in BOOLEAN
    OBVIOUS
  <2> QED BY <2>1 DEF Send, TypeOK, Message
<1>2. \A i \in DOMAIN channel : i \in DOMAIN channel' /\ channel'[i] = channel[i]
  BY <1>1
<1>3. \A i \in DOMAIN channel' : i \in DOMAIN channel \/ channel'[i] = m
  BY <1>1
<1>4. \E i \in DOMAIN channel' : channel'[i] = m
  <2>1. Len(channel) + 1 \in DOMAIN channel' /\ channel'[Len(channel) + 1] = m
    BY <1>1
  <2> QED BY <2>1
<1>5. ASSUME NEW s \in Threads
      PROVE  m = [from |-> s, ok |-> TRUE] <=> s = t /\ pc[t] = "send"
  <2>1. m.from = t /\ m.ok = (pc[t] = "send")
    OBVIOUS
  <2>2. [from |-> s, ok |-> TRUE].from = s /\ [from |-> s, ok |-> TRUE].ok = TRUE
    OBVIOUS
  <2>3. CASE pc[t] = "send"
    <3>1. m = [from |-> t, ok |-> TRUE]
      BY <2>3
    <3> QED BY <2>1, <2>2, <2>3, <3>1
  <2>4. CASE pc[t] # "send"
    <3>1. m.ok = FALSE
      BY <2>1, <2>4
    <3> QED BY <2>2, <2>4, <3>1
  <2> QED BY <2>3, <2>4
<1>6. Sent' \subseteq IF pc[t] = "send" THEN Sent \cup {t} ELSE Sent
  <2> SUFFICES ASSUME NEW s \in Sent', s \notin Sent PROVE s = t /\ pc[t] = "send"
    OBVIOUS
  <2>1. s \in Threads /\ \E i \in DOMAIN channel' : channel'[i] = [from |-> s, ok |-> TRUE]
    BY DEF Sent
  <2>2. PICK i \in DOMAIN channel' : channel'[i] = [from |-> s, ok |-> TRUE]
    BY <2>1
  <2>3. i \notin DOMAIN channel
    BY <1>2, <2>1, <2>2 DEF Sent
  <2> QED BY <1>3, <1>5, <2>1, <2>2, <2>3
<1>7. Sent \subseteq Sent'
  BY <1>2 DEF Sent
<1>8. pc[t] = "send" => t \in Sent'
  BY <1>4, <1>5 DEF Sent
<1> QED BY <1>1, <1>6, <1>7, <1>8 DEF Delivered

LEMMA SendIndInv ==
  ASSUME IndInv, NEW t \in Threads, Send(t)
  PROVE  IndInv'
<1> USE DEF IndInv, given
<1>0. pc[t] \in {"send", "fail"}
  BY DEF Send, At
<1>1. TypeOK'
  <2>1. [from |-> t, ok |-> pc[t] = "send"] \in Message
    <3>1. (pc[t] = "send") \in BOOLEAN
      OBVIOUS
    <3> QED BY <3>1 DEF Message
  <2>2. channel' \in Seq(Message)
    BY <2>1 DEF Send, TypeOK
  <2> QED BY <2>2 DEF Send, Goto, TypeOK, PCs, local
<1>2. Phases'
  BY <1>0 DEF Send, Goto, TypeOK, Phases, Threads, local
<1>3. Candidates'
  BY <1>0 DEF Send, Goto, TypeOK, Candidates, local
<1>4. Counts'
  BY <1>0 DEF Send, Goto, TypeOK, Counts, local, Agree, Distinct, WordsFilled
<1>5. Results'
  <2>1. Delivered' = IF pc[t] = "send" THEN Delivered \cup {t} ELSE Delivered
    BY SendDelivers
  <2>2. pc' = [pc EXCEPT ![t] = "ended"]
    BY DEF Send, Goto
  <2>3. UNCHANGED <<cfg, right, fits, examples, result, unsure>>
    BY DEF Send, local
  <2> QED BY <1>0, <2>1, <2>2, <2>3 DEF TypeOK, Results, Candidates, Right
<1> QED BY <1>1, <1>2, <1>3, <1>4, <1>5

\* Taking a message leaves the results sent as they are.
LEMMA RecvDelivers ==
  ASSUME IndInv, Recv
  PROVE  /\ answer' \subseteq Delivered
         /\ Sent' \subseteq Sent
         /\ Delivered' = Delivered
         /\ answer' = {} \/ \E s \in Delivered : answer' = {s}
<1> USE DEF IndInv, given
<1>1. /\ channel \in Seq(Message) /\ channel # <<>> /\ answer = {}
      /\ channel' = Tail(channel)
      /\ answer' = IF Head(channel).ok THEN {Head(channel).from} ELSE {}
  BY DEF Recv, Live, TypeOK, Phases
<1>2. /\ 1 \in DOMAIN channel /\ Head(channel) = channel[1]
      /\ channel[1] \in Message
  BY <1>1
<1>3. \A i \in DOMAIN channel' : i + 1 \in DOMAIN channel /\ channel'[i] = channel[i + 1]
  BY <1>1
<1>4. \A i \in DOMAIN channel : i = 1 \/ (i - 1 \in DOMAIN channel' /\ channel[i] = channel'[i - 1])
  BY <1>1
<1>5. \A s \in Threads : channel[1] = [from |-> s, ok |-> TRUE]
                           <=> channel[1].ok = TRUE /\ channel[1].from = s
  BY <1>2 DEF Message
<1>6. channel[1].from \in Threads /\ channel[1].ok \in BOOLEAN
  BY <1>2 DEF Message
<1>7. Sent' \subseteq Sent
  BY <1>3 DEF Sent
<1>8. Sent \subseteq Sent' \cup answer'
  <2> SUFFICES ASSUME NEW s \in Sent, s \notin Sent' PROVE s \in answer'
    OBVIOUS
  <2>1. PICK i \in DOMAIN channel : channel[i] = [from |-> s, ok |-> TRUE]
    BY DEF Sent
  <2>2. s \in Threads /\ i = 1
    BY <1>4, <2>1 DEF Sent
  <2>3. channel[1].ok = TRUE /\ channel[1].from = s
    BY <1>5, <2>1, <2>2
  <2> QED BY <1>1, <1>2, <2>3
<1>9. answer' \subseteq Sent
  BY <1>1, <1>2, <1>5, <1>6 DEF Sent
<1> QED BY <1>1, <1>6, <1>7, <1>8, <1>9 DEF Delivered

LEMMA RecvIndInv ==
  ASSUME IndInv, Recv
  PROVE  IndInv'
<1> USE DEF IndInv, given
<1>0. Delivered' = Delivered /\ answer' \subseteq Threads
  BY RecvDelivers DEF Delivered, Sent, TypeOK
<1>1. TypeOK'
  <2>1. channel' \in Seq(Message)
    BY DEF Recv, TypeOK
  <2> QED BY <1>0, <2>1 DEF Recv, TypeOK, local
<1>2. Phases'
  BY DEF Recv, TypeOK, Phases, local
<1>3. Candidates'
  BY DEF Recv, Candidates, local
<1>4. Counts'
  BY DEF Recv, Counts, local, Agree, Distinct, WordsFilled
<1>5. Results'
  BY <1>0 DEF Recv, Results, Right, local
<1> QED BY <1>1, <1>2, <1>3, <1>4, <1>5

LEMMA RecvFailsIndInv ==
  ASSUME IndInv, RecvFails
  PROVE  IndInv'
<1> USE DEF IndInv, given
<1>1. TypeOK' /\ Phases'
  BY DEF RecvFails, TypeOK, Phases, local
<1>2. Candidates' /\ Counts'
  BY DEF RecvFails, Candidates, Counts, local, Agree, Distinct, WordsFilled
<1>3. Results'
  BY DEF RecvFails, Results, Delivered, Sent, Right, local
<1> QED BY <1>1, <1>2, <1>3

LEMMA StutterIndInv ==
  ASSUME IndInv, UNCHANGED vars
  PROVE  IndInv'
BY DEF IndInv, TypeOK, Phases, Candidates, Counts, Agree, Distinct, WordsFilled,
       Results, Delivered, Sent, Right, vars, local, given

LEMMA NextIndInv == IndInv /\ [Next]_vars => IndInv'
<1> SUFFICES ASSUME IndInv, [Next]_vars PROVE IndInv'
  OBVIOUS
<1>1. CASE UNCHANGED vars
  BY <1>1, StutterIndInv
<1>2. ASSUME NEW t \in Threads, Step(t) \/ SearchEnd(t) \/ CondEnd(t)
      PROVE  IndInv'
  BY <1>2, StartIndInv, SpawnIndInv, CondEndIndInv, SearchIndInv, RefuteIndInv,
     ExcludeIndInv, AcceptIndInv, SendIndInv DEF Step, SearchEnd
<1>3. CASE Ask \/ Try \/ NoReply \/ Recv \/ RecvFails
  BY <1>3, AskIndInv, ReplyIndInv, RecvIndInv, RecvFailsIndInv
<1> QED BY <1>1, <1>2, <1>3 DEF Next

-----------------------------------------------------------------------------

\* main_inner, cegis_loop and verify keep the inductive invariant: candidates
\* fit the examples that search looked at, exclusions hide nothing that counts,
\* and each refutation adds an example.
THEOREM IndInvHolds == Spec => []IndInv
<1>1. Init => IndInv
  BY InitIndInv
<1>2. IndInv /\ [Next]_vars => IndInv'
  BY NextIndInv
<1> QED BY <1>1, <1>2, PTL DEF Spec

\* What main prints equals the reference wherever that can be evaluated, unless
\* verify returned true without an answer or was not called; it fits its examples
\* but for a last word that they fill.
THEOREM AnswerRightHolds == Spec => []AnswerRight
<1>1. IndInv => AnswerRight
  BY DEF IndInv, Results, Delivered, AnswerRight, TypeOK
<1> QED BY <1>1, IndInvHolds, PTL

\* The condition threads that search leaves behind are no more than the records
\* of cegis.examples, nor, where eval and logic agree, than the distinct inputs
\* among them and the words they fill.
THEOREM CondThreadsBoundedHolds == Spec => []CondThreadsBounded
<1>1. IndInv => CondThreadsBounded
  <2> SUFFICES ASSUME IndInv, NEW t \in Threads, conds[t] > 0
               PROVE  /\ conds[t] <= Len(examples[t])
                      /\ Agree => conds[t] <= Distinct(t) + WordsFilled(t)
    BY DEF CondThreadsBounded
  <2>1. conds[t] \in Nat /\ refuted[t] \in Nat /\ examples[t] \in Seq(Inputs)
    BY DEF IndInv, TypeOK
  <2>2. refuted[t] < Len(examples[t]) /\ conds[t] <= refuted[t] + 1
    BY <2>1 DEF IndInv, Counts
  <2>3. Agree => refuted[t] < Distinct(t) + WordsFilled(t)
    BY DEF IndInv, Counts
  <2>4. Distinct(t) \in Nat /\ WordsFilled(t) \in Nat
    <3>1. Len(examples[t]) \in Nat \ {0}
      BY <2>1, <2>2
    <3> QED BY <2>1, <3>1, RangeFacts, DivStep, BvCegisAssumption DEF Distinct, WordsFilled
  <2> QED BY <2>1, <2>2, <2>3, <2>4
<1> QED BY <1>1, IndInvHolds, PTL

\* Examples enter the loop by generate_examples and by verify only, and verify
\* is not called when the examples are given.
LEMMA ExamplesEvaluableStep ==
  IndInv /\ ExamplesEvaluable /\ [Next]_vars => ExamplesEvaluable'
<1> SUFFICES ASSUME IndInv, ExamplesEvaluable, [Next]_vars,
                    ~UNCHANGED <<cfg, examples, refuted>>
             PROVE  ExamplesEvaluable'
  BY DEF ExamplesEvaluable
<1> USE DEF IndInv, TypeOK, given
<1>1. CASE Ask
  <2>1. PICK E \in [1 .. 3 -> Evaluable] : examples' = [examples EXCEPT !["chat"] = E]
    BY <1>1 DEF Ask
  <2>2. UNCHANGED <<cfg, refuted>> /\ Range(E) \subseteq Evaluable
    BY <1>1 DEF Ask, Range
  <2> QED BY <2>1, <2>2 DEF ExamplesEvaluable
<1>2. ASSUME NEW t \in Threads, Start(t)
      PROVE  ExamplesEvaluable'
  <2>1. PICK E : /\ examples' = [examples EXCEPT ![t] = E]
                 /\ cfg.mode # "pbe" => E \in [1 .. Larger(cfg.random, 1) -> Evaluable]
    BY <1>2 DEF Start
  <2>2. cfg.mode # "pbe" => Range(E) \subseteq Evaluable
    BY <2>1 DEF Range
  <2>3. UNCHANGED <<cfg, refuted>>
    BY <1>2 DEF Start
  <2> QED BY <2>1, <2>2, <2>3 DEF ExamplesEvaluable
<1>3. ASSUME NEW t \in Threads, Refute(t)
      PROVE  ExamplesEvaluable'
  <2>1. cfg' = cfg /\ cfg.mode # "pbe"
    BY <1>3 DEF Refute, Verifying, At, Phases, Threads
  <2>2. \/ examples' = examples
        \/ \E i \in Evaluable : examples' = [examples EXCEPT ![t] = Append(@, i)]
    BY <1>3 DEF Refute, Recorded
  <2>3. \A u \in Threads : Range(examples[u]) \subseteq Evaluable
    BY <2>1 DEF ExamplesEvaluable
  <2>4. ASSUME NEW i \in Evaluable, examples' = [examples EXCEPT ![t] = Append(@, i)],
               NEW u \in Threads
        PROVE  Range(examples'[u]) \subseteq Evaluable
    <3>1. Range(Append(examples[t], i)) = Range(examples[t]) \cup {i}
      BY RangeFacts, BvCegisAssumption
    <3>2. CASE u = t
      BY <3>1, <3>2, <2>3, <2>4
    <3>3. CASE u # t
      BY <3>3, <2>3, <2>4
    <3> QED BY <3>2, <3>3
  <2> QED BY <2>1, <2>2, <2>3, <2>4 DEF ExamplesEvaluable
<1>4. CASE NoReply
  <2>1. examples' = [examples EXCEPT !["chat"] = <<>>] /\ UNCHANGED <<cfg, refuted>>
    BY <1>4 DEF NoReply
  <2>2. Range(<<>>) = {}
    BY DEF Range
  <2> QED BY <2>1, <2>2 DEF ExamplesEvaluable
<1> QED
  BY <1>1, <1>2, <1>3, <1>4 DEF Next, Step, SearchEnd, vars, Spawn, CondEnd, SearchOk,
     SearchErr, SearchPanic, Exclude, Accept, Send, Try, Recv, RecvFails, local

\* What the loop records can be evaluated, and without a reference nothing is
\* refuted.
THEOREM ExamplesEvaluableHolds == Spec => []ExamplesEvaluable
<1>1. Init => ExamplesEvaluable
  BY DEF Init, ExamplesEvaluable, Range
<1> QED BY <1>1, ExamplesEvaluableStep, IndInvHolds, PTL DEF Spec

\* Where eval and logic agree, cegis_loop refutes a number of candidates that the
\* evaluable inputs and the examples drawn at the start bound: an input refutes a
\* second one only once in WordBits rounds.
THEOREM RoundsBoundedHolds == Spec => []RoundsBounded
<1>1. IndInv /\ ExamplesEvaluable => RoundsBounded
  <2> SUFFICES ASSUME IndInv, ExamplesEvaluable, Agree, NEW t \in Threads, refuted[t] > 0
               PROVE  refuted[t] * (WordBits - 1)
                        < WordBits * (Cardinality(Evaluable) - 1) + Larger(cfg.random, 1)
    BY DEF RoundsBounded
  <2> DEFINE r == refuted[t]
             n == Larger(cfg.random, 1)
             E == Cardinality(Evaluable)
             q == WordsFilled(t)
             W == WordBits
  <2>1. /\ r \in Nat /\ r < Distinct(t) + q
        /\ examples[t] \in Seq(Inputs) /\ r < Len(examples[t])
    BY DEF IndInv, Counts, TypeOK
  <2>2. Range(examples[t]) \subseteq Evaluable /\ cfg.mode # "pbe"
    <3>1. r # 0
      BY <2>1
    <3> QED BY <3>1 DEF ExamplesEvaluable
  <2>3. /\ Distinct(t) <= E /\ Distinct(t) \in Nat /\ E \in Nat
    <3>1. IsFiniteSet(Evaluable)
      BY BvCegisAssumption, FS_Subset
    <3> QED BY <2>2, <3>1, FS_Subset, FS_CardinalityType DEF Distinct
  <2>4. n \in Nat /\ Len(examples[t]) = n + r
    BY <2>2, BvCegisAssumption DEF IndInv, Counts, TypeOK, Config, Larger
  <2>5. q \in Nat /\ W * q <= n + r - 1
    <3>1. Len(examples[t]) \in Nat \ {0}
      BY <2>1
    <3>2. WordsFilled(t) \in Nat /\ WordBits * WordsFilled(t) <= Len(examples[t]) - 1
      BY <3>1, DivStep, BvCegisAssumption DEF WordsFilled
    <3>3. Len(examples[t]) - 1 = n + r - 1
      BY <2>1, <2>4
    <3> QED BY <3>2, <3>3
  <2>6. W \in Nat \ {0, 1}
    BY BvCegisAssumption
  <2> HIDE DEF r, n, E, q, W
  <2>9. r * (W - 1) < W * (E - 1) + n
    BY <2>1, <2>3, <2>4, <2>5, <2>6, RoundsArithmetic
  <2> QED BY <2>9 DEF r, n, E, q, W
<1> QED BY <1>1, IndInvHolds, ExamplesEvaluableHolds, PTL

\* A step of the race that sends no result and does not decide changes nothing
\* that the abstract task sees.
LEMMA QuietStep ==
  ASSUME UNCHANGED <<channel, main, answer>>
  PROVE  UNCHANGED Task!vars
BY DEF Task!vars, Delivered, Sent

LEMMA NextRefines == IndInv /\ [Next]_vars => [Task!Next]_(Task!vars)
<1> SUFFICES ASSUME IndInv, [Next]_vars PROVE [Task!Next]_(Task!vars)
  OBVIOUS
<1>1. CASE UNCHANGED vars
  BY <1>1, QuietStep DEF vars
<1>2. ASSUME NEW t \in Threads, Send(t)
      PROVE  [Task!Next]_(Task!vars)
  <2>1. Delivered' = IF pc[t] = "send" THEN Delivered \cup {t} ELSE Delivered
    BY <1>2, SendDelivers DEF IndInv
  <2>2. pc[t] = "send" => t \notin Delivered
    BY DEF IndInv, Results
  <2>3. UNCHANGED <<main, answer>>
    BY <1>2 DEF Send
  <2> QED BY <2>1, <2>2, <2>3 DEF Task!Next, Task!Publish, Task!vars
<1>3. ASSUME NEW t \in Threads, (Step(t) /\ ~Send(t)) \/ SearchEnd(t) \/ CondEnd(t)
      PROVE  [Task!Next]_(Task!vars)
  BY <1>3, QuietStep DEF Step, SearchEnd, Start, Spawn, CondEnd, SearchOk, SearchErr,
     SearchPanic, Refute, Exclude, Accept
<1>4. CASE Ask \/ Try \/ NoReply
  BY <1>4, QuietStep DEF Ask, Try, NoReply
<1>5. CASE Recv
  <2>1. main = "recv" /\ main' # "recv"
    BY <1>5 DEF Recv, Live
  <2>2. Delivered' = Delivered
    BY <1>5, RecvDelivers
  <2>3. answer' = {} \/ \E s \in Delivered : answer' = {s}
    BY <1>5, RecvDelivers
  <2> QED BY <2>1, <2>2, <2>3 DEF Task!Next, Task!Return
<1>6. CASE RecvFails
  <2>1. main = "recv" /\ main' # "recv" /\ answer = {} /\ answer' = {}
    BY <1>6 DEF RecvFails, Live, IndInv, Phases
  <2>2. Delivered' = Delivered
    BY <1>6 DEF RecvFails, Delivered, Sent
  <2> QED BY <2>1, <2>2 DEF Task!Next, Task!Return
<1> QED BY <1>1, <1>2, <1>3, <1>4, <1>5, <1>6 DEF Next, Step

\* The race between the loop and ChatGPT implements the abstract synthesis
\* task: main returns once, with an expression some thread has sent or none.
THEOREM BvCegisRefinesTask == Spec => RefinesTask
<1>1. Init => Task!Init
  BY DEF Init, Task!Init, Delivered, Sent
<1>2. IndInv /\ [Next]_vars => [Task!Next]_(Task!vars)
  BY NextRefines
<1> QED BY <1>1, <1>2, IndInvHolds, PTL DEF Spec, RefinesTask, Task!Spec
=============================================================================
