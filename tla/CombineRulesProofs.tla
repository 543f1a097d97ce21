------------------------- MODULE CombineRulesProofs -------------------------
(***************************************************************************)
(* What the combination returns, for any sample, any expressions and any   *)
(* order in which they are enumerated.                                     *)
(***************************************************************************)
EXTENDS CombineRules, FiniteSetTheorems, TLAPS

\* The rules as a value of their own: those test may hold.
RuleRight(s, p) ==
  LET D == IF p.tested THEN All ELSE Sample
  IN  IF s.op = "And"
      THEN p.output \cap Sample \subseteq s.first /\ s.bits \cap Sample \subseteq s.first
             /\ p.output \cap D \subseteq s.bits
      ELSE s.first \subseteq p.output \cap Sample /\ s.first \subseteq s.bits
             /\ s.bits \cap D \subseteq p.output

RuleState(s) ==
  /\ s.mask \subseteq Sample
  /\ s.subexprs \in Seq(SubExpr)
  /\ \A j \in DOMAIN s.subexprs : RuleRight(s.subexprs[j], problem)
  /\ \A b \in Sample \ s.mask : \E j \in DOMAIN s.subexprs : b \in Settled(s.subexprs[j])

LEMMA RuleStateNow ==
  TypeOK => (RuleState([mask |-> mask, subexprs |-> subexprs]) <=> RulesRight /\ MaskSettled)
BY DEF TypeOK, RuleState, RulesRight, MaskSettled, RuleRight, Output

\* A rule that is right joins the others and settles what leaves the mask.
LEMMA AppendRule ==
  ASSUME NEW s, RuleState(s), NEW r \in SubExpr, RuleRight(r, problem),
         NEW m \in SUBSET Sample, s.mask \ m \subseteq Settled(r)
  PROVE  RuleState([mask |-> m, subexprs |-> Append(s.subexprs, r)])
<1> DEFINE q == Append(s.subexprs, r)
           n == Len(s.subexprs)
<1>1. s.subexprs \in Seq(SubExpr) /\ n \in Nat /\ DOMAIN s.subexprs = 1 .. n
  BY DEF RuleState
<1>2. /\ q \in Seq(SubExpr) /\ DOMAIN q = 1 .. n + 1
      /\ q[n + 1] = r /\ \A j \in 1 .. n : q[j] = s.subexprs[j]
  BY <1>1
<1> HIDE DEF q, n
<1>3. \A j \in DOMAIN q : RuleRight(q[j], problem)
  BY <1>1, <1>2 DEF RuleState
<1>4. ASSUME NEW b \in Sample \ m PROVE \E j \in DOMAIN q : b \in Settled(q[j])
  <2>1. CASE b \in s.mask
    BY <1>1, <1>2, <2>1
  <2>2. CASE b \notin s.mask
    <3>1. PICK j \in 1 .. n : b \in Settled(s.subexprs[j])
      BY <1>1, <2>2 DEF RuleState
    <3>2. j \in DOMAIN q /\ q[j] = s.subexprs[j]
      BY <1>1, <1>2
    <3> QED BY <3>1, <3>2
  <2> QED BY <2>1, <2>2
<1> QED BY <1>2, <1>3, <1>4 DEF RuleState, q

LEMMA AddAndRight ==
  ASSUME TypeOK, NEW s, RuleState(s), NEW e \in Expr
  PROVE  RuleState(AddAnd(s, e))
<1>1. CASE ~IsAnd(e, s.mask)
  BY <1>1 DEF AddAnd
<1>2. CASE IsAnd(e, s.mask)
  <2> DEFINE r == [op |-> "And", bits |-> e.bits,
                   first |-> (Sample \ s.mask) \cup (e.bits \cap Sample)]
  <2>1. e.bits \subseteq All
    BY DEF Expr
  <2>2. r \in SubExpr
    BY <2>1 DEF SubExpr
  <2>3. Output \subseteq e.bits /\ (problem.tested => problem.output \subseteq e.bits)
    BY <1>2 DEF IsAnd, and_cond, test_and
  <2>4. RuleRight(r, problem)
    BY <2>3 DEF RuleRight, Output
  <2>5. s.mask \ (s.mask \cap e.bits) \subseteq Settled(r)
    BY DEF Settled, RuleState
  <2>6. s.mask \cap e.bits \in SUBSET Sample
    BY DEF RuleState
  <2>7. AddAnd(s, e) = [mask |-> s.mask \cap e.bits, subexprs |-> Append(s.subexprs, r)]
    BY <1>2 DEF AddAnd
  <2> HIDE DEF r
  <2> QED BY <2>2, <2>4, <2>5, <2>6, <2>7, AppendRule
<1> QED BY <1>1, <1>2

LEMMA AddOrRight ==
  ASSUME TypeOK, NEW s, RuleState(s), NEW e \in Expr
  PROVE  RuleState(AddOr(s, e))
<1>1. CASE ~IsOr(e, s.mask)
  BY <1>1 DEF AddOr
<1>2. CASE IsOr(e, s.mask)
  <2> DEFINE r == [op |-> "Or", bits |-> e.bits, first |-> s.mask \cap e.bits]
  <2>1. e.bits \subseteq All /\ s.mask \subseteq Sample
    BY DEF Expr, RuleState
  <2>2. r \in SubExpr
    BY <2>1 DEF SubExpr
  <2>3. e.bits \cap Sample \subseteq Output
          /\ (problem.tested => e.bits \subseteq problem.output)
    BY <1>2 DEF IsOr, or_cond, test_or
  <2>4. RuleRight(r, problem)
    BY <2>1, <2>3 DEF RuleRight, Output
  <2>5. s.mask \ (s.mask \ e.bits) \subseteq Settled(r)
    BY DEF Settled
  <2>6. s.mask \ e.bits \in SUBSET Sample
    BY <2>1
  <2>7. AddOr(s, e) = [mask |-> s.mask \ e.bits, subexprs |-> Append(s.subexprs, r)]
    BY <1>2 DEF AddOr
  <2> HIDE DEF r
  <2> QED BY <2>2, <2>4, <2>5, <2>6, <2>7, AppendRule
<1> QED BY <1>1, <1>2

LEMMA InitIndInv == Init => IndInv
BY DEF Init, IndInv, TypeOK, RulesRight, MaskSettled, Collecting, AssertHolds, NoExpr, Expr

LEMMA TestIndInv ==
  ASSUME IndInv, NEW e \in problem.exprs, Test(e)
  PROVE  IndInv'
<1> DEFINE s0 == [mask |-> mask, subexprs |-> subexprs]
           s == AddOr(AddAnd(s0, e), e)
<1>1. e \in Expr
  BY CombineAssumption DEF IndInv, TypeOK, Problem
<1>2. RuleState(s)
  BY <1>1, RuleStateNow, AddAndRight, AddOrRight DEF IndInv
<1>3. mask' = s.mask /\ subexprs' = s.subexprs /\ problem' = problem /\ size' = 0
  BY DEF Test
<1>4. \/ /\ Completes(e, mask')
         /\ pc' = "collect" /\ expr' = e /\ i' = Len(subexprs')
         /\ value' = e.bits \cap Sample /\ real' = e.bits
      \/ pc' = "idle" /\ expr' = NoExpr /\ i' = 0 /\ value' = {} /\ real' = {}
  BY DEF Test
<1> HIDE DEF s
<1>5. mask' \subseteq Sample /\ subexprs' \in Seq(SubExpr)
  BY <1>2, <1>3 DEF RuleState
<1>6. Len(subexprs') \in Nat /\ DOMAIN subexprs' = 1 .. Len(subexprs')
  BY <1>5
<1>7. TypeOK'
  <2>1. e.bits \subseteq All /\ NoExpr \in Expr
    BY <1>1 DEF Expr, NoExpr
  <2>2. problem' \in Problems
    BY <1>3 DEF IndInv, TypeOK
  <2> QED BY <1>1, <1>3, <1>4, <1>5, <1>6, <2>1, <2>2 DEF TypeOK
<1>8. RulesRight' /\ MaskSettled'
  BY <1>2, <1>3 DEF RuleState, RuleRight, RulesRight, MaskSettled, Output, Settled
<1>9. Collecting'
  <2>1. SUFFICES ASSUME Completes(e, mask'), pc' = "collect", expr' = e,
                        i' = Len(subexprs'), value' = e.bits \cap Sample, real' = e.bits
                 PROVE  Collecting'
    BY <1>4 DEF Collecting
  <2>2. ASSUME NEW b \in Sample
        PROVE  Right(value, b)' \/ \E j \in 1 .. i' : b \in Settled(subexprs'[j])
    <3>1. CASE b \in mask'
      BY <1>3, <2>1, <3>1 DEF Completes, Right, Output
    <3>2. CASE b \notin mask'
      BY <1>6, <1>8, <2>1, <3>2 DEF MaskSettled, Settled
    <3> QED BY <3>1, <3>2
  <2>3. ASSUME NEW b \in Sample PROVE Right(value, b)' => Right(real, b)'
    BY <2>1 DEF Right
  <2>4. ASSUME NEW b \in Rest PROVE Right(expr.bits, b)' => Right(real, b)'
    BY <2>1 DEF Right
  <2> QED BY <2>1, <2>2, <2>3, <2>4 DEF Collecting, Settled
<1>10. AssertHolds'
  BY <1>4 DEF AssertHolds
<1> QED BY <1>7, <1>8, <1>9, <1>10 DEF IndInv

\* One rule of collect_expr. A bit it would change wrongly would have to be
\* one that the rule is not above (below).
LEMMA CollectIndInv ==
  ASSUME IndInv, CollectAnd \/ CollectOr
  PROVE  IndInv'
<1> DEFINE s == subexprs[i]
<1>1. /\ pc = "collect" /\ i \in 1 .. Len(subexprs) /\ i' = i - 1
      /\ UNCHANGED <<problem, mask, subexprs, pc, expr>>
  BY DEF IndInv, TypeOK, CollectAnd, CollectOr, rules
<1>2. subexprs \in Seq(SubExpr) /\ i \in DOMAIN subexprs /\ Len(subexprs) \in Nat
  BY <1>1 DEF IndInv, TypeOK
<1>3. s \in SubExpr
  BY <1>2
<1>4. s.op \in {"And", "Or"} /\ s.bits \subseteq All /\ s.first \subseteq Sample
  BY <1>3 DEF SubExpr
<1>5. RuleRight(s, problem)
  BY <1>2 DEF IndInv, RulesRight, RuleRight, Output
<1>a. value \subseteq Sample /\ real \subseteq All /\ size \in Nat
  BY DEF IndInv, TypeOK
<1>6. \/ /\ s.op = "And"
         /\ value' = value \cap s.first
         /\ \/ real' = real \cap s.bits
            \/ real' = real /\ value' = value
      \/ /\ s.op = "Or"
         /\ value' = value \cup s.first
         /\ \/ real' = real \cup s.bits
            \/ real' = real /\ value' = value
  BY DEF CollectAnd, CollectOr, Wrap
<1>7. size' \in Nat
  BY <1>a DEF CollectAnd, CollectOr, Wrap
<1>8. TypeOK'
  <2>1. value' \subseteq Sample /\ real' \subseteq All
    BY <1>4, <1>6, <1>a
  <2>2. i' \in 0 .. Len(subexprs')
    BY <1>1, <1>2
  <2> QED BY <1>1, <1>7, <2>1, <2>2 DEF IndInv, TypeOK
<1>9. RulesRight' /\ MaskSettled' /\ AssertHolds'
  BY <1>1 DEF IndInv, RulesRight, MaskSettled, AssertHolds, Output, Settled
<1>10. Collecting'
  <2>0. Collecting /\ pc = "collect"
    BY <1>1 DEF IndInv
  <2>1. ASSUME NEW b \in Sample
        PROVE  Right(value, b)' \/ \E j \in 1 .. i' : b \in Settled(subexprs'[j])
    <3>1. CASE b \in Settled(s)
      BY <1>1, <1>4, <1>5, <1>6, <3>1 DEF Settled, Right, RuleRight
    <3>2. CASE b \notin Settled(s)
      <4>1. b \in value' <=> b \in value
        BY <1>6, <3>2 DEF Settled
      <4>2. Right(value, b) \/ \E j \in 1 .. i : b \in Settled(subexprs[j])
        BY <2>0 DEF Collecting
      <4>3. CASE Right(value, b)
        BY <1>1, <4>1, <4>3 DEF Right
      <4>4. ASSUME NEW j \in 1 .. i, b \in Settled(subexprs[j])
            PROVE  \E k \in 1 .. i' : b \in Settled(subexprs'[k])
        <5>1. j # i
          BY <3>2, <4>4
        <5>2. j \in 1 .. i'
          BY <1>1, <5>1
        <5> QED BY <1>1, <4>4, <5>2
      <4> QED BY <4>2, <4>3, <4>4
    <3> QED BY <3>1, <3>2
  <2>2. ASSUME NEW b \in Sample, Right(value, b)' PROVE Right(real, b)'
    <3>1. Right(value, b) => Right(real, b)
      BY <2>0 DEF Collecting
    <3> QED BY <1>1, <1>4, <1>5, <1>6, <2>2, <3>1 DEF Right, RuleRight, All
  <2>3. ASSUME problem.tested, NEW b \in Rest, Right(expr.bits, b)' PROVE Right(real, b)'
    <3>1. Right(real, b)
      BY <1>1, <2>0, <2>3 DEF Collecting, Right
    <3> QED BY <1>1, <1>5, <1>6, <2>3, <3>1 DEF Right, RuleRight, All
  <2> QED BY <1>1, <2>1, <2>2, <2>3 DEF Collecting, Settled
<1> QED BY <1>8, <1>9, <1>10 DEF IndInv

\* With no rule left to come, the prediction is right on every position.
LEMMA CollectedAll ==
  ASSUME IndInv, pc = "collect" \/ pc = "some", i = 0 PROVE value = Output
<1>1. \A b \in Sample : Right(value, b)
  BY DEF IndInv, Collecting
<1>2. value \subseteq Sample
  BY DEF IndInv, TypeOK
<1> QED BY <1>1, <1>2 DEF Right, Output

LEMMA EndIndInv == ASSUME IndInv, TooLarge \/ Return PROVE IndInv'
<1>1. pc = "collect" /\ i = 0 /\ UNCHANGED <<problem, mask, subexprs, i>>
  BY DEF TooLarge, Return, rules, collecting
<1>2. CASE TooLarge
  BY <1>1, <1>2 DEF TooLarge, IndInv, TypeOK, RulesRight, MaskSettled, Collecting,
     AssertHolds, Output, Settled, NoExpr, Expr
<1>3. CASE Return
  <2>1. value = Output
    BY <1>1, CollectedAll
  <2>2. pc' = "some" /\ UNCHANGED <<problem, mask, subexprs, expr, i, value, real, size>>
    BY <1>3, <2>1 DEF Return, rules, collecting
  <2> QED BY <1>1, <2>2 DEF IndInv, TypeOK, RulesRight, MaskSettled, Collecting,
             AssertHolds, Output, Settled, Right
<1> QED BY <1>2, <1>3

LEMMA StutterIndInv == ASSUME IndInv, UNCHANGED vars PROVE IndInv'
BY DEF vars, rules, collecting, IndInv, TypeOK, RulesRight, MaskSettled, Collecting,
   AssertHolds, Output, Settled, Right

\* The inductive invariant of the combination, for any sample and expressions.
THEOREM IndInvHolds == Spec => []IndInv
<1>1. IndInv /\ [Next]_vars => IndInv'
  BY TestIndInv, CollectIndInv, EndIndInv, StutterIndInv DEF Next
<1> QED BY <1>1, InitIndInv, PTL DEF Spec

\* collect_expr's assertion never fails.
THEOREM AssertHoldsAlways == Spec => []AssertHolds
<1>1. IndInv => AssertHolds
  BY DEF IndInv
<1> QED BY <1>1, IndInvHolds, PTL

\* What test returns has the output's value on the sample, and spoils nothing
\* on the other examples if the rules were tested there.
THEOREM ReturnedRightHolds == Spec => []ReturnedRight
<1>1. ASSUME IndInv PROVE ReturnedRight
  <2> SUFFICES ASSUME pc = "some" PROVE ReturnedRight
    BY DEF ReturnedRight
  <2>1. value = Output
    BY <1>1, CollectedAll DEF IndInv, Collecting
  <2>2. \A b \in Sample : Right(real, b)
    BY <1>1, <2>1 DEF IndInv, Collecting, Right, Output
  <2> QED BY <1>1, <2>2 DEF IndInv, Collecting, ReturnedRight, Right, Output
<1> QED BY <1>1, IndInvHolds, PTL

LEMMA NextRule == \A n \in Nat, k \in Nat : (n + 1) * k = n * k + k
BY SMT

\* The rules settle positions of the sample, MinGain + 1 or more each.
Bound(s) == Len(s.subexprs) * (MinGain + 1) + Cardinality(s.mask) <= Cardinality(Sample)

LEMMA AppendBound ==
  ASSUME NEW s, RuleState(s), Bound(s), NEW r, NEW m \in SUBSET s.mask,
         Cardinality(s.mask) - Cardinality(m) > MinGain
  PROVE  Bound([mask |-> m, subexprs |-> Append(s.subexprs, r)])
<1> DEFINE n == Len(s.subexprs)
           k == MinGain + 1
<1>1. n \in Nat /\ k \in Nat /\ Len(Append(s.subexprs, r)) = n + 1
  BY CombineAssumption DEF RuleState
<1>2. IsFiniteSet(s.mask) /\ IsFiniteSet(m)
  BY CombineAssumption, FS_Subset DEF RuleState
<1>3. Cardinality(s.mask) \in Nat /\ Cardinality(m) \in Nat /\ Cardinality(Sample) \in Nat
  BY <1>2, CombineAssumption, FS_CardinalityType
<1>4. n * k \in Nat /\ (n + 1) * k = n * k + k
  BY <1>1, NextRule
<1>5. n * k + Cardinality(s.mask) <= Cardinality(Sample)
  BY DEF Bound
<1>6. Cardinality(m) + k <= Cardinality(s.mask)
  BY <1>3, CombineAssumption
<1>7. (n + 1) * k + Cardinality(m) <= Cardinality(Sample)
  <2> DEFINE a == n * k
             b == (n + 1) * k
  <2>1. a \in Nat /\ b = a + k /\ a + Cardinality(s.mask) <= Cardinality(Sample)
    BY <1>4, <1>5
  <2> HIDE DEF a, b
  <2>2. b + Cardinality(m) <= Cardinality(Sample)
    BY <1>1, <1>3, <1>6, <2>1
  <2> QED BY <2>2 DEF b
<1> QED BY <1>1, <1>7 DEF Bound

LEMMA AddAndBound ==
  ASSUME NEW s, RuleState(s), Bound(s), NEW e \in Expr PROVE Bound(AddAnd(s, e))
<1>1. CASE IsAnd(e, s.mask)
  <2> DEFINE m == s.mask \cap e.bits
  <2>1. m \in SUBSET s.mask /\ Cardinality(s.mask) - Cardinality(m) > MinGain
    BY <1>1 DEF IsAnd
  <2> HIDE DEF m
  <2>2. PICK r : AddAnd(s, e) = [mask |-> m, subexprs |-> Append(s.subexprs, r)]
    BY <1>1 DEF AddAnd, m
  <2> QED BY <2>1, <2>2, AppendBound
<1> QED BY <1>1 DEF AddAnd

LEMMA AddOrBound ==
  ASSUME NEW s, RuleState(s), Bound(s), NEW e \in Expr PROVE Bound(AddOr(s, e))
<1>1. CASE IsOr(e, s.mask)
  <2> DEFINE m == s.mask \ e.bits
  <2>1. m \in SUBSET s.mask /\ Cardinality(s.mask) - Cardinality(m) > MinGain
    BY <1>1 DEF IsOr
  <2> HIDE DEF m
  <2>2. PICK r : AddOr(s, e) = [mask |-> m, subexprs |-> Append(s.subexprs, r)]
    BY <1>1 DEF AddOr, m
  <2> QED BY <2>1, <2>2, AppendBound
<1> QED BY <1>1 DEF AddOr

\* The rules stay few, however many expressions are enumerated.
THEOREM RulesBoundedHolds == Spec => []RulesBounded
<1>1. Init => RulesBounded
  <2>1. Cardinality(Sample) \in Nat
    BY CombineAssumption, FS_CardinalityType
  <2> QED BY <2>1, CombineAssumption DEF Init, RulesBounded
<1>2. IndInv /\ RulesBounded /\ [Next]_vars => RulesBounded'
  <2> SUFFICES ASSUME IndInv, RulesBounded, [Next]_vars PROVE RulesBounded'
    OBVIOUS
  <2>1. ASSUME NEW e \in problem.exprs, Test(e) PROVE RulesBounded'
    <3> DEFINE s0 == [mask |-> mask, subexprs |-> subexprs]
               s1 == AddAnd(s0, e)
               s2 == AddOr(s1, e)
    <3>1. e \in Expr
      BY CombineAssumption DEF IndInv, TypeOK, Problem
    <3>2. RuleState(s0) /\ Bound(s0)
      BY RuleStateNow DEF IndInv, RulesBounded, Bound
    <3>3. mask' = s2.mask /\ subexprs' = s2.subexprs
      BY <2>1 DEF Test
    <3> HIDE DEF s0, s1, s2
    <3>4. RuleState(s1) /\ Bound(s1)
      BY <3>1, <3>2, AddAndRight, AddAndBound DEF IndInv, s1
    <3>5. Bound(s2)
      BY <3>1, <3>4, AddOrBound DEF s2
    <3> QED BY <3>3, <3>5 DEF Bound, RulesBounded
  <2>2. CASE UNCHANGED <<mask, subexprs>>
    BY <2>2 DEF RulesBounded
  <2> QED BY <2>1, <2>2 DEF Next, CollectAnd, CollectOr, TooLarge, Return, vars, rules
<1> QED BY <1>1, <1>2, IndInvHolds, PTL DEF Spec
=============================================================================
