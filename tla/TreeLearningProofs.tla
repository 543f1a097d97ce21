------------------------- MODULE TreeLearningProofs -------------------------
(* The trees TreeLearning reports as solved are right, and the greedy      *)
(* learner decides whether there is a tree, for every number of examples,  *)
(* every set of options and conditions and every limit.                    *)
EXTENDS TreeLearning, DecisionTreesProofs, FiniteSetTheorems, WellFoundedInduction

-----------------------------------------------------------------------------
(* Sums over finite sets.                                                  *)

\* Every non-empty set of naturals has a least element: induction, in a form
\* without predicates.
LEMMA LeastNumber ==
  ASSUME NEW T \in SUBSET Nat, T # {}
  PROVE  \E n \in T : \A m \in T : n <= m
PROOF
<1>1. PICK n \in T : \A m \in T : ~(<<m, n>> \in OpToRel(<, Nat))
  BY NatLessThanWellFounded, WFMin, Zenon
<1>2. \A m \in T : ~(m < n)
  BY <1>1 DEF OpToRel
<1> QED BY <1>2

\* Disjoint sets have as many elements as they have together.
LEMMA DisjointCardinality ==
  ASSUME NEW A, NEW B, IsFiniteSet(A), IsFiniteSet(B), A \cap B = {}
  PROVE  /\ IsFiniteSet(A \cup B)
         /\ Cardinality(A \cup B) = Cardinality(A) + Cardinality(B)
PROOF
<1>1. Cardinality(A) \in Nat /\ Cardinality(B) \in Nat
  BY FS_CardinalityType
<1>2. Cardinality(A \cap B) = 0
  BY FS_EmptySet
<1>3. /\ IsFiniteSet(A \cup B)
      /\ Cardinality(A \cup B) = Cardinality(A) + Cardinality(B) - Cardinality(A \cap B)
  BY FS_Union, Zenon
<1> QED BY <1>1, <1>2, <1>3

\* The element a fold takes next, and the function it computes from h.
Pick(s) == CHOOSE x \in s : TRUE
SumOf(s, g, h) == IF s = {} THEN 0 ELSE h[Pick(s)] + g[s \ {Pick(s)}]
IsSum(g, K, h) == g = [s \in SUBSET K |-> SumOf(s, g, h)]

LEMMA PickIn ==
  ASSUME NEW s, s # {}
  PROVE  Pick(s) \in s
PROOF BY DEF Pick

\* The recursive definition of a sum over a finite set has a solution.
LEMMA SumExists ==
  ASSUME NEW K, IsFiniteSet(K), NEW h \in [K -> Int]
  PROVE  \E g : IsSum(g, K, h)
PROOF
<1> DEFINE D(n) == {s \in SUBSET K : Cardinality(s) <= n}
           Good(n) == \E g \in [D(n) -> Int] : \A s \in D(n) : g[s] = SumOf(s, g, h)
           Bad == {n \in Nat : ~Good(n)}
<1>1. \A s \in SUBSET K : IsFiniteSet(s) /\ Cardinality(s) \in Nat
  BY FS_Subset, FS_CardinalityType
<1>2. \A s \in SUBSET K : s # {} =>
        /\ Pick(s) \in s /\ s \ {Pick(s)} \in SUBSET K
        /\ Cardinality(s \ {Pick(s)}) = Cardinality(s) - 1
        /\ Cardinality(s) > 0
  <2> SUFFICES ASSUME NEW s \in SUBSET K, s # {}
               PROVE  /\ Pick(s) \in s /\ s \ {Pick(s)} \in SUBSET K
                      /\ Cardinality(s \ {Pick(s)}) = Cardinality(s) - 1
                      /\ Cardinality(s) > 0
    OBVIOUS
  <2>1. Pick(s) \in s
    BY PickIn
  <2>2. Cardinality(s \ {Pick(s)}) = Cardinality(s) - 1
    BY <1>1, <2>1, FS_RemoveElement
  <2>3. Cardinality(s) # 0
    BY <1>1, FS_EmptySet
  <2> QED BY <1>1, <2>1, <2>2, <2>3
<1>3. Good(0)
  <2> DEFINE g == [s \in D(0) |-> 0]
  <2>1. ASSUME NEW s \in SUBSET K, Cardinality(s) <= 0
        PROVE  s = {}
    <3>1. Cardinality(s) \in Nat /\ (s # {} => Cardinality(s) > 0)
      BY <1>1, <1>2
    <3> QED BY <2>1, <3>1
  <2>2. g \in [D(0) -> Int] /\ \A s \in D(0) : g[s] = SumOf(s, g, h)
    BY <2>1 DEF SumOf
  <2> QED BY <2>2
<1>4. ASSUME NEW n \in Nat, Good(n)
      PROVE  Good(n + 1)
  <2>1. PICK g \in [D(n) -> Int] : \A s \in D(n) : g[s] = SumOf(s, g, h)
    BY <1>4
  <2> DEFINE f == [s \in D(n + 1) |-> SumOf(s, g, h)]
  <2>2. \A s \in D(n + 1) : s # {} => s \ {Pick(s)} \in D(n) /\ Pick(s) \in K
    BY <1>1, <1>2
  <2>3. \A s \in D(n + 1) : SumOf(s, g, h) \in Int
    BY <2>1, <2>2 DEF SumOf
  <2>4. \A s \in D(n) : s \in D(n + 1) /\ f[s] = g[s]
    BY <1>1, <2>1
  <2>5. \A s \in D(n + 1) : f[s] = SumOf(s, f, h)
    BY <2>2, <2>4 DEF SumOf
  <2>6. f \in [D(n + 1) -> Int]
    BY <2>3
  <2> HIDE DEF f, D
  <2> QED BY <2>5, <2>6
<1>5. Bad = {}
  <2> SUFFICES ASSUME Bad # {} PROVE FALSE
    OBVIOUS
  <2>1. PICK n \in Bad : \A m \in Bad : n <= m
    <3> HIDE DEF Good
    <3> QED BY LeastNumber
  <2> HIDE DEF Good
  <2>2. n # 0
    BY <1>3
  <2>3. n - 1 \in Nat /\ n - 1 \notin Bad
    BY <2>1, <2>2
  <2>4. Good((n - 1) + 1)
    BY <1>4, <2>3
  <2> QED BY <2>1, <2>4
<1>6. D(Cardinality(K)) = SUBSET K
  BY FS_Subset, FS_CardinalityType
<1>7. Cardinality(K) \in Nat
  BY FS_CardinalityType
<1>8. PICK g \in [SUBSET K -> Int] : \A s \in SUBSET K : g[s] = SumOf(s, g, h)
  BY <1>5, <1>6, <1>7
<1> QED BY <1>8 DEF IsSum

\* A sum of terms that are at most L for each element of a piece is at most L
\* for each element of the set the pieces are disjoint parts of.
LEMMA SumBound ==
  ASSUME NEW K, IsFiniteSet(K), NEW h \in [K -> Int], NEW g, IsSum(g, K, h),
         NEW S, IsFiniteSet(S), NEW P \in [K -> SUBSET S], NEW L \in Nat,
         \A j, k \in K : j # k => P[j] \cap P[k] = {},
         \A k \in K : h[k] <= Cardinality(P[k]) * L
  PROVE  g[K] \in Int /\ g[K] <= Cardinality(S) * L
PROOF
<1> DEFINE All(T) == UNION {P[k] : k \in T}
           Ok(T) == g[T] \in Int /\ g[T] <= Cardinality(All(T)) * L
           Bad == {T \in SUBSET K : ~Ok(T)}
<1>1. \A T \in SUBSET K : All(T) \in SUBSET S
  OBVIOUS
<1>2. \A R \in SUBSET S : IsFiniteSet(R) /\ Cardinality(R) \in Nat
        /\ Cardinality(R) <= Cardinality(S)
  BY FS_Subset, FS_CardinalityType
<1>3. \A T \in SUBSET K : g[T] = SumOf(T, g, h)
  BY DEF IsSum
<1>4. Ok({})
  <2>1. g[{}] = 0
    BY <1>3 DEF SumOf
  <2>2. Cardinality(All({})) = 0
    BY FS_EmptySet
  <2> QED BY <2>1, <2>2
<1>5. ASSUME NEW T \in SUBSET K, T # {}, Ok(T \ {Pick(T)})
      PROVE  Ok(T)
  <2> DEFINE x == Pick(T)
             U == T \ {x}
  <2>1. x \in T /\ x \in K
    BY <1>5, PickIn
  <2>2. g[T] = h[x] + g[U]
    BY <1>3, <1>5 DEF SumOf
  <2>3. All(T) = All(U) \cup P[x] /\ All(U) \cap P[x] = {}
    BY <2>1
  <2>4. All(U) \in SUBSET S /\ P[x] \in SUBSET S
    BY <1>1, <2>1
  <2>5. Cardinality(All(T)) = Cardinality(All(U)) + Cardinality(P[x])
    <3>1. IsFiniteSet(All(U)) /\ IsFiniteSet(P[x])
      BY <1>2, <2>4
    <3> HIDE DEF All, U, x
    <3> QED BY <2>3, <3>1, DisjointCardinality
  <2> DEFINE a == Cardinality(All(U))
             b == Cardinality(P[x])
  <2>6. a \in Nat /\ b \in Nat
    BY <1>2, <2>4
  <2>7. g[U] \in Int /\ g[U] <= a * L /\ h[x] \in Int /\ h[x] <= b * L
    BY <1>5, <2>1
  <2>8. Cardinality(All(T)) = a + b
    BY <2>5
  <2> HIDE DEF a, b, All, U, x
  <2>9. (a + b) * L = a * L + b * L /\ a * L \in Nat /\ b * L \in Nat
    BY <2>6
  <2>10. h[x] + g[U] <= (a + b) * L
    BY <2>7, <2>9
  <2> QED BY <2>2, <2>7, <2>8, <2>10
<1>6. Bad = {}
  <2> SUFFICES ASSUME Bad # {} PROVE FALSE
    OBVIOUS
  <2> DEFINE R == StrictSubsetOrdering(K)
  <2>1. IsWellFoundedOn(R, SUBSET K)
    BY FS_StrictSubsetOrderingWellFounded, FS_FiniteSubsetsOfFinite
  <2>2. Bad \subseteq SUBSET K
    OBVIOUS
  <2> HIDE DEF Ok
  <2>3. PICK T \in Bad : \A V \in Bad : ~(<<V, T>> \in R)
    <3> HIDE DEF Bad, R
    <3> QED BY <2>1, <2>2, WFMin
  <2>4. T # {}
    BY <1>4
  <2>5. T \ {Pick(T)} \notin Bad
    BY <2>3, <2>4, PickIn DEF StrictSubsetOrdering
  <2> QED BY <1>5, <2>4, <2>5
<1>7. Ok(K)
  <2> HIDE DEF Ok
  <2> QED BY <1>6
<1>8. Cardinality(All(K)) * L <= Cardinality(S) * L
  <2>1. Cardinality(All(K)) \in Nat /\ Cardinality(S) \in Nat
        /\ Cardinality(All(K)) <= Cardinality(S)
    <3> HIDE DEF All
    <3> QED BY <1>1, <1>2, FS_CardinalityType
  <2>2. \A m, n, k \in Nat : m <= n => m * k <= n * k
    OBVIOUS
  <2> HIDE DEF All
  <2> QED BY <2>1, <2>2
<1>9. Cardinality(All(K)) * L \in Int /\ Cardinality(S) * L \in Int
  <2> HIDE DEF All
  <2> QED BY <1>1, <1>2, FS_CardinalityType
<1> HIDE DEF All
<1> QED BY <1>7, <1>8, <1>9

-----------------------------------------------------------------------------
(* Entropies.                                                              *)

Piece(S, k) ==
  {e \in Options[k] \cap S : \A j \in DOMAIN Options : Before(S, j, k) => e \notin Options[j]}
Terms(S) == {k \in DOMAIN Options : Gain(S, k) > 0}
Term(S) == [k \in Terms(S) |-> Gain(S, k) * (Log2(Cardinality(S)) - Log2(Gain(S, k)))]

\* The entropy is a sum in the sense of IsSum.
LEMMA EntropyIsSum ==
  ASSUME NEW S, IsFiniteSet(Terms(S)), Term(S) \in [Terms(S) -> Int]
  PROVE  \E g : IsSum(g, Terms(S), Term(S)) /\ entropy(S) = g[Terms(S)]
PROOF
<1> DEFINE K == Terms(S)
           h == Term(S)
           op(k) == Gain(S, k) * (Log2(Cardinality(S)) - Log2(Gain(S, k)))
           Rec(g) == g = [s \in SUBSET K |->
                            IF s = {} THEN 0
                            ELSE op(CHOOSE x \in s : TRUE) + g[s \ {CHOOSE x \in s : TRUE}]]
           g0 == CHOOSE g : Rec(g)
<1>1. entropy(S) = g0[K]
  BY DEF entropy, MapThenSumSet, MapThenFoldSet, Terms
<1>2. \A s \in SUBSET K : s # {} => h[Pick(s)] = op(CHOOSE x \in s : TRUE)
  <2> SUFFICES ASSUME NEW s \in SUBSET K, s # {}
               PROVE  h[Pick(s)] = op(CHOOSE x \in s : TRUE)
    OBVIOUS
  <2>1. Pick(s) \in K
    BY PickIn
  <2>2. h[Pick(s)] = op(Pick(s))
    BY <2>1 DEF Term
  <2> HIDE DEF op
  <2> QED BY <2>2 DEF Pick
<1>3. ASSUME NEW g
      PROVE  Rec(g) <=> IsSum(g, K, h)
  <2> DEFINE a(s) == IF s = {} THEN 0
                     ELSE op(CHOOSE x \in s : TRUE) + g[s \ {CHOOSE x \in s : TRUE}]
  <2>1. \A s \in SUBSET K : a(s) = SumOf(s, g, h)
    <3> HIDE DEF op, h, K
    <3> QED BY <1>2 DEF SumOf, Pick
  <2>2. [s \in SUBSET K |-> a(s)] = [s \in SUBSET K |-> SumOf(s, g, h)]
    <3> HIDE DEF a, K, h
    <3> QED BY <2>1
  <2> QED BY <2>2 DEF IsSum
<1>4. \E g : Rec(g)
  <2>1. \E g : IsSum(g, K, h)
    BY SumExists
  <2> HIDE DEF Rec, K, h
  <2> QED BY <1>3, <2>1
<1>5. Rec(g0)
  <2> HIDE DEF Rec
  <2> QED BY <1>4
<1>6. IsSum(g0, K, h)
  <2> HIDE DEF Rec, K, h, g0
  <2> QED BY <1>3, <1>5
<1> HIDE DEF g0
<1> QED BY <1>1, <1>6

\* What is known of the arguments.
LEMMA ProblemFacts ==
  ASSUME prob \in Problems, NEW S \in SUBSET Range0(prob.size)
  PROVE  /\ IsFiniteSet(DOMAIN Options) /\ DOMAIN Options \subseteq Nat
         /\ \A k \in DOMAIN Options : Options[k] \subseteq Range0(prob.size)
         /\ IsFiniteSet(S) /\ Cardinality(S) \in 0 .. prob.size
         /\ \A T \in SUBSET S : IsFiniteSet(T) /\ Cardinality(T) \in 0 .. Cardinality(S)
PROOF
<1>1. prob.size \in Nat \ {0} /\ Options \in Seq(SUBSET Range0(prob.size))
  BY TreeAssumption DEF Options
<1>2. DOMAIN Options = 1 .. Len(Options) /\ Len(Options) \in Nat
      /\ \A k \in DOMAIN Options : Options[k] \subseteq Range0(prob.size)
  BY <1>1
<1>3. IsFiniteSet(DOMAIN Options)
  BY <1>2, FS_Interval
<1>4. IsFiniteSet(Range0(prob.size)) /\ Cardinality(Range0(prob.size)) = prob.size
  <2> DEFINE b == prob.size - 1
  <2>1. 0 \in Int /\ b \in Int /\ ~(0 > b) /\ b - 0 + 1 = prob.size
    BY <1>1
  <2>2. Range0(prob.size) = 0 .. b
    BY DEF Range0
  <2> HIDE DEF b
  <2>3. IsFiniteSet(0 .. b) /\ Cardinality(0 .. b) = b - 0 + 1
    BY <2>1, FS_Interval
  <2> QED BY <2>1, <2>2, <2>3
<1>5. IsFiniteSet(S) /\ Cardinality(S) \in Nat /\ Cardinality(S) <= prob.size
  BY <1>4, FS_Subset, FS_CardinalityType
<1>6. \A T \in SUBSET S :
        IsFiniteSet(T) /\ Cardinality(T) \in Nat /\ Cardinality(T) <= Cardinality(S)
  BY <1>5, FS_Subset, FS_CardinalityType
<1> QED BY <1>1, <1>2, <1>3, <1>5, <1>6

\* The terms of an entropy are integers, and each is at most Penalty - 1 for an
\* example; no two are about the same example.
LEMMA TermFacts ==
  ASSUME prob \in Problems, NEW S \in SUBSET Range0(prob.size)
  PROVE  /\ IsFiniteSet(Terms(S)) /\ Term(S) \in [Terms(S) -> Int]
         /\ \A k \in DOMAIN Options : Piece(S, k) \subseteq S /\ Gain(S, k) = Cardinality(Piece(S, k))
         /\ \A j, k \in DOMAIN Options : j # k => Before(S, j, k) \/ Before(S, k, j)
         /\ \A j, k \in DOMAIN Options : j # k => Piece(S, j) \cap Piece(S, k) = {}
         /\ \A k \in Terms(S) : Term(S)[k] <= Cardinality(Piece(S, k)) * (Penalty - 1)
         /\ Penalty - 1 \in Nat
PROOF
<1>1. /\ IsFiniteSet(DOMAIN Options) /\ DOMAIN Options \subseteq Nat
      /\ IsFiniteSet(S) /\ Cardinality(S) \in 0 .. prob.size
      /\ \A T \in SUBSET S : IsFiniteSet(T) /\ Cardinality(T) \in 0 .. Cardinality(S)
  BY ProblemFacts
<1>2. \A k \in DOMAIN Options : Piece(S, k) \subseteq S /\ Gain(S, k) = Cardinality(Piece(S, k))
  BY DEF Piece, Gain
<1>3. IsFiniteSet(Terms(S))
  BY <1>1, FS_Subset DEF Terms
<1>4. prob.size \in Nat \ {0} /\ Penalty \in Nat
      /\ \A n \in 1 .. prob.size : Log2(n) \in 0 .. Penalty - 1
  BY TreeAssumption
<1>5. Penalty - 1 \in Nat
  BY <1>4
<1>6. ASSUME NEW k \in Terms(S)
      PROVE  Term(S)[k] \in Int /\ Term(S)[k] <= Cardinality(Piece(S, k)) * (Penalty - 1)
  <2> DEFINE G == Gain(S, k)
             A == Log2(Cardinality(S))
             B == Log2(G)
  <2>1. G \in 1 .. Cardinality(S) /\ G = Cardinality(Piece(S, k))
    BY <1>1, <1>2 DEF Terms
  <2>2. Cardinality(S) \in 1 .. prob.size /\ G \in 1 .. prob.size
    BY <1>1, <1>4, <2>1
  <2>3. A \in 0 .. Penalty - 1 /\ B \in 0 .. Penalty - 1
    BY <1>4, <2>2
  <2>4. Term(S)[k] = G * (A - B)
    BY DEF Term
  <2> HIDE DEF G, A, B
  <2>5. G \in Nat /\ A \in Nat /\ B \in Nat /\ A - B \in Int /\ A - B <= Penalty - 1
    BY <1>4, <2>1, <2>3
  <2>6. \A m \in Nat, x, y \in Int : x <= y => m * x <= m * y
    OBVIOUS
  <2>7. G * (A - B) <= G * (Penalty - 1) /\ G * (A - B) \in Int
    BY <1>5, <2>5, <2>6
  <2> QED BY <2>1, <2>4, <2>7
<1>7. Term(S) \in [Terms(S) -> Int]
  BY <1>6 DEF Term
<1>8. ASSUME NEW j \in DOMAIN Options, NEW k \in DOMAIN Options, j # k
      PROVE  Before(S, j, k) \/ Before(S, k, j)
  <2>1. \A i \in DOMAIN Options : Cardinality(Options[i] \cap S) \in Nat
    BY <1>1
  <2>2. j \in Nat /\ k \in Nat
    BY <1>1
  <2> QED BY <1>8, <2>1, <2>2 DEF Before
<1>9. \A j, k \in DOMAIN Options : j # k => Piece(S, j) \cap Piece(S, k) = {}
  BY <1>8 DEF Piece
<1> QED BY <1>2, <1>3, <1>5, <1>6, <1>7, <1>8, <1>9

\* No entropy reaches the penalty of a split that tells nothing apart.
LEMMA EntropyBound ==
  ASSUME prob \in Problems, NEW S \in SUBSET Range0(prob.size)
  PROVE  entropy(S) \in Int /\ entropy(S) <= Cardinality(S) * (Penalty - 1)
PROOF
<1> DEFINE K == Terms(S)
           h == Term(S)
           P == [k \in K |-> Piece(S, k)]
<1>1. /\ IsFiniteSet(K) /\ h \in [K -> Int] /\ Penalty - 1 \in Nat
      /\ \A k \in K : h[k] <= Cardinality(P[k]) * (Penalty - 1)
  BY TermFacts
<1>2. K \subseteq DOMAIN Options
  BY DEF Terms
<1>3. P \in [K -> SUBSET S] /\ \A j, k \in K : j # k => P[j] \cap P[k] = {}
  BY <1>2, TermFacts
<1>4. IsFiniteSet(S)
  BY ProblemFacts
<1>5. PICK g : IsSum(g, K, h) /\ entropy(S) = g[K]
  BY <1>1, EntropyIsSum
<1> HIDE DEF K, h, P
<1>6. g[K] \in Int /\ g[K] <= Cardinality(S) * (Penalty - 1)
  BY <1>1, <1>3, <1>4, <1>5, SumBound
<1> QED BY <1>5, <1>6

\* If one option is right on all of S, the entropy of S is 0: the first such
\* option has the only term.
LEMMA EntropyZero ==
  ASSUME prob \in Problems, NEW S \in SUBSET Range0(prob.size),
         NEW i \in DOMAIN Options, S \subseteq Options[i]
  PROVE  entropy(S) = 0
PROOF
<1> DEFINE hits(j) == Cardinality(Options[j] \cap S)
           Full == {j \in DOMAIN Options : S \subseteq Options[j]}
<1>1. /\ DOMAIN Options \subseteq Nat
      /\ IsFiniteSet(S) /\ Cardinality(S) \in 0 .. prob.size
      /\ \A T \in SUBSET S : IsFiniteSet(T) /\ Cardinality(T) \in 0 .. Cardinality(S)
      /\ prob.size \in Nat
  BY ProblemFacts, TreeAssumption
<1>2. /\ IsFiniteSet(Terms(S)) /\ Term(S) \in [Terms(S) -> Int]
  BY TermFacts
<1>3. PICK g : IsSum(g, Terms(S), Term(S)) /\ entropy(S) = g[Terms(S)]
  BY <1>2, EntropyIsSum
<1>4. \A T \in SUBSET Terms(S) : g[T] = SumOf(T, g, Term(S))
  BY <1>3 DEF IsSum
<1>5. g[{}] = 0
  BY <1>4 DEF SumOf
<1>6. CASE S = {}
  <2>1. \A k \in DOMAIN Options : Gain(S, k) = 0
    BY <1>6, FS_EmptySet DEF Gain
  <2>2. Terms(S) = {}
    BY <2>1 DEF Terms
  <2> QED BY <1>3, <1>5, <2>2
<1>7. CASE S # {}
  <2>1. PICK k \in Full : \A j \in Full : k <= j
    <3>1. Full \in SUBSET Nat /\ Full # {}
      BY <1>1
    <3> QED BY <3>1, LeastNumber
  <2>2. k \in DOMAIN Options /\ Options[k] \cap S = S /\ hits(k) = Cardinality(S)
    BY <2>1
  <2>3. \A j \in DOMAIN Options :
          /\ hits(j) \in Nat /\ hits(j) <= Cardinality(S)
          /\ hits(j) = Cardinality(S) => j \in Full
    <3> SUFFICES ASSUME NEW j \in DOMAIN Options
                 PROVE  /\ hits(j) \in Nat /\ hits(j) <= Cardinality(S)
                        /\ hits(j) = Cardinality(S) => j \in Full
      OBVIOUS
    <3>1. Options[j] \cap S \in SUBSET S
      OBVIOUS
    <3>2. hits(j) = Cardinality(S) => Options[j] \cap S = S
      BY <1>1, <3>1, FS_Subset
    <3> QED BY <1>1, <3>1, <3>2
  <2>4. ASSUME NEW j \in DOMAIN Options, j # k
        PROVE  Before(S, k, j) /\ ~Before(S, j, k)
    <3>1. hits(j) = Cardinality(S) => k < j
      BY <1>1, <2>1, <2>2, <2>3, <2>4
    <3>2. j \in Nat /\ k \in Nat /\ Cardinality(S) \in Nat
      BY <1>1, <2>2
    <3> QED BY <2>2, <2>3, <3>1, <3>2 DEF Before
  <2>5. ~Before(S, k, k)
    BY <1>1, <2>2, <2>3 DEF Before
  <2>6. Gain(S, k) = Cardinality(S) /\ Cardinality(S) > 0
    <3>1. {e \in Options[k] \cap S :
             \A j \in DOMAIN Options : Before(S, j, k) => e \notin Options[j]} = S
      BY <2>2, <2>4, <2>5
    <3>2. Cardinality(S) # 0
      BY <1>1, <1>7, FS_EmptySet
    <3> QED BY <1>1, <3>1, <3>2 DEF Gain
  <2>7. ASSUME NEW j \in DOMAIN Options, j # k
        PROVE  Gain(S, j) = 0
    <3>1. {e \in Options[j] \cap S :
             \A m \in DOMAIN Options : Before(S, m, j) => e \notin Options[m]} = {}
      BY <2>2, <2>4, <2>7
    <3> QED BY <3>1, FS_EmptySet DEF Gain
  <2>8. Terms(S) = {k}
    BY <1>1, <2>2, <2>6, <2>7 DEF Terms
  <2>9. g[{k}] = Term(S)[k] + g[{}]
    <3>1. Pick({k}) = k
      BY PickIn
    <3>2. {k} \ {Pick({k})} = {} /\ {k} # {}
      BY <3>1
    <3> QED BY <1>4, <2>8, <3>1, <3>2 DEF SumOf
  <2>10. Term(S)[k] = 0
    <3> DEFINE A == Log2(Cardinality(S))
    <3>1. A \in Int
      <4>1. Cardinality(S) \in 1 .. prob.size
        BY <1>1, <2>6
      <4>2. Penalty \in Nat /\ \A n \in 1 .. prob.size : Log2(n) \in 0 .. Penalty - 1
        BY TreeAssumption
      <4> QED BY <4>1, <4>2
    <3>2. Term(S)[k] = Cardinality(S) * (A - A)
      BY <2>6, <2>8 DEF Term
    <3> HIDE DEF A
    <3> QED BY <1>1, <3>1, <3>2
  <2> QED BY <1>3, <1>5, <2>8, <2>9, <2>10
<1> QED BY <1>6, <1>7

-----------------------------------------------------------------------------
(* What the leaves hold.                                                   *)

Leaf == [bits : Bits, t : Path, f : Path]

\* Accepting the top leaf moves it from the stack to the accepted leaves.
LEMMA AcceptStep ==
  ASSUME PathInv, Accept
  PROVE  PathInv'
PROOF
<1> DEFINE Rst == Rest
<1>1. PICK i \in DOMAIN Options :
        /\ Fits(Top.bits, i)
        /\ accepted' = accepted \cup
             {[bits |-> Top.bits, t |-> Top.t, f |-> Top.f, option |-> i]}
  BY DEF Accept
<1>2. /\ prob' = prob /\ counter' = counter /\ status' = status /\ status = "run"
      /\ subproblems' = Rst /\ subproblems # <<>>
  BY DEF Accept, Running
<1>3. subproblems \in Seq(Leaf) /\ prob \in Problems
  BY DEF PathInv, TypeOK, Leaf
<1>4. /\ Rst \in Seq(Leaf) /\ Top \in Leaf
      /\ Elements(subproblems) = Elements(Rst) \cup {Top}
  <2>1. Rst = SubSeq(subproblems, 1, Len(subproblems) - 1)
        /\ Top = subproblems[Len(subproblems)]
    BY DEF Rest, Top
  <2> HIDE DEF Rst
  <2> QED BY <1>2, <1>3, <2>1, RestElements
<1>5. Top.bits \subseteq Options[i]
  BY <1>1 DEF Fits
<1>6. Top \in Leaves
  BY <1>4 DEF Leaves, Elements
<1>7. TypeOK'
  BY <1>1, <1>2, <1>4 DEF PathInv, TypeOK, Leaf, Bits, Path, Options, Conditions
<1>8. BitsMatchPath'
  <2> DEFINE new == [bits |-> Top.bits, t |-> Top.t, f |-> Top.f, option |-> i]
  <2>1. \A l \in Leaves' : l \in Leaves \/ l = new
    BY <1>1, <1>2, <1>4 DEF Leaves, Elements
  <2>2. \A l \in Leaves : l.bits = {e \in boxed_ones(prob.size) : Follows(e, l)}
    BY DEF PathInv, BitsMatchPath
  <2>3. new.bits = {e \in boxed_ones(prob.size) : Follows(e, new)}
    <3>1. \A e : Follows(e, new) <=> Follows(e, Top)
      BY DEF Follows
    <3>2. Top.bits = {e \in boxed_ones(prob.size) : Follows(e, Top)}
      BY <1>6, <2>2
    <3> QED BY <3>1, <3>2
  <2>4. \A e, p : Follows(e, p)' <=> Follows(e, p)
    BY <1>2 DEF Follows, Conditions
  <2>5. \A l \in Leaves' : l.bits = {e \in boxed_ones(prob.size) : Follows(e, l)}
    BY <2>1, <2>2, <2>3
  <2>6. \A l \in accepted' : l.bits \subseteq Options[l.option]
    BY <1>1, <1>5 DEF PathInv, BitsMatchPath
  <2> HIDE DEF new
  <2> QED BY <1>2, <2>4, <2>5, <2>6 DEF BitsMatchPath, Options
<1>9. LeavesCover'
  <2> SUFFICES ASSUME NEW e \in boxed_ones(prob.size)
               PROVE  \E l \in Leaves' : Follows(e, l)
    BY <1>2 DEF LeavesCover, Follows, Conditions
  <2>1. PICK l \in Leaves : Follows(e, l)
    BY DEF PathInv, LeavesCover
  <2>2. CASE l \in accepted \/ l \in Elements(Rst)
    BY <1>1, <1>2, <2>1, <2>2 DEF Leaves, Elements
  <2>3. CASE l = Top
    <3> DEFINE new == [bits |-> Top.bits, t |-> Top.t, f |-> Top.f, option |-> i]
    <3>1. new \in Leaves' /\ (Follows(e, l) => Follows(e, new))
      BY <1>1, <2>3 DEF Leaves, Elements, Follows
    <3> QED BY <2>1, <3>1
  <2> QED BY <1>4, <2>1, <2>2, <2>3 DEF Leaves, Elements
<1> QED BY <1>2, <1>7, <1>8, <1>9 DEF PathInv, StackDone

\* Splitting the top leaf sends each of its examples to one of two leaves.
LEMMA SplitStep ==
  ASSUME PathInv, Split
  PROVE  PathInv'
PROOF
<1> DEFINE Rst == Rest
<1>1. PICK c \in DOMAIN Conditions :
        subproblems' = Append(Append(Rest, OtherSide(c)), ZeroSide(c))
  BY DEF Split
<1>2. /\ prob' = prob /\ accepted' = accepted /\ counter' = counter + 2
      /\ status' \in {"limit", "run"} /\ subproblems # <<>>
  BY DEF Split, Running
<1>3. subproblems \in Seq(Leaf) /\ prob \in Problems
  BY DEF PathInv, TypeOK, Leaf
<1>4. /\ Rst \in Seq(Leaf) /\ Top \in Leaf
      /\ Elements(subproblems) = Elements(Rst) \cup {Top}
  <2>1. Rst = SubSeq(subproblems, 1, Len(subproblems) - 1)
        /\ Top = subproblems[Len(subproblems)]
    BY DEF Rest, Top
  <2> HIDE DEF Rst
  <2> QED BY <1>2, <1>3, <2>1, RestElements
<1>5. OtherSide(c) \in Leaf /\ ZeroSide(c) \in Leaf
  BY <1>4 DEF OtherSide, ZeroSide, Leaf, Bits, Path
<1>6. /\ subproblems' \in Seq(Leaf)
      /\ Elements(subproblems') = Elements(Rst) \cup {OtherSide(c), ZeroSide(c)}
  <2> DEFINE A == OtherSide(c)
             B == ZeroSide(c)
             P == Append(Rst, A)
  <2>1. A \in Leaf /\ B \in Leaf
    BY <1>5
  <2>2. subproblems' = Append(P, B)
    BY <1>1
  <2> HIDE DEF Rst, A, B
  <2>3. P \in Seq(Leaf) /\ Elements(P) = Elements(Rst) \cup {A}
    BY <1>4, <2>1, PushElements
  <2> HIDE DEF P
  <2>4. /\ Append(P, B) \in Seq(Leaf)
        /\ Elements(Append(P, B)) = Elements(P) \cup {B}
    BY <2>1, <2>3, PushElements
  <2>5. /\ Append(P, B) \in Seq(Leaf)
        /\ Elements(Append(P, B)) = Elements(Rst) \cup {A, B}
    BY <2>3, <2>4
  <2> QED BY <2>2, <2>5 DEF A, B
<1>7. /\ Leaves = Elements(Rst) \cup {Top} \cup accepted
      /\ Leaves' = Elements(Rst) \cup {OtherSide(c), ZeroSide(c)} \cup accepted
  BY <1>2, <1>4, <1>6 DEF Leaves, Elements
<1>8. TypeOK'
  BY <1>2, <1>6 DEF PathInv, TypeOK, Leaf, Bits, Path, Options, Conditions
<1>9. \A e, p : Follows(e, p)' <=> Follows(e, p)
  BY <1>2 DEF Follows, Conditions
<1>10. \A e :
         /\ Follows(e, ZeroSide(c)) <=> (Follows(e, Top) /\ e \in Conditions[c])
         /\ Follows(e, OtherSide(c)) <=> (Follows(e, Top) /\ e \notin Conditions[c])
  BY DEF Follows, ZeroSide, OtherSide
<1>11. BitsMatchPath'
  <2>1. \A l \in Leaves : l.bits = {e \in boxed_ones(prob.size) : Follows(e, l)}
    BY DEF PathInv, BitsMatchPath
  <2>2. Top.bits = {e \in boxed_ones(prob.size) : Follows(e, Top)}
    BY <1>7, <2>1
  <2>3. /\ ZeroSide(c).bits = Top.bits \cap Conditions[c]
        /\ OtherSide(c).bits = Top.bits \ Conditions[c]
    BY DEF ZeroSide, OtherSide
  <2>4. /\ ZeroSide(c).bits =
             {e \in boxed_ones(prob.size) : Follows(e, ZeroSide(c))}
        /\ OtherSide(c).bits =
             {e \in boxed_ones(prob.size) : Follows(e, OtherSide(c))}
    BY <1>10, <2>2, <2>3
  <2>5. \A l \in Leaves' : l.bits = {e \in boxed_ones(prob.size) : Follows(e, l)}
    BY <1>7, <2>1, <2>4
  <2> QED BY <1>2, <1>9, <2>5 DEF BitsMatchPath, PathInv, Options
<1>12. LeavesCover'
  <2> SUFFICES ASSUME NEW e \in boxed_ones(prob.size)
               PROVE  \E l \in Leaves' : Follows(e, l)
    BY <1>2, <1>9 DEF LeavesCover
  <2>1. PICK l \in Leaves : Follows(e, l)
    BY DEF PathInv, LeavesCover
  <2> QED BY <1>7, <1>10, <2>1
<1> QED BY <1>2, <1>8, <1>11, <1>12 DEF PathInv, StackDone

-----------------------------------------------------------------------------
(* Splits that tell examples apart.                                        *)

\* Non-empty disjoint parts of a set are not more than it has elements.
LEMMA DisjointParts ==
  ASSUME NEW U, IsFiniteSet(U), NEW I, NEW F \in [I -> SUBSET U],
         \A i \in I : F[i] # {},
         \A i, j \in I : i # j => F[i] \cap F[j] = {}
  PROVE  IsFiniteSet(I) /\ Cardinality(I) <= Cardinality(U)
PROOF
<1> DEFINE f == [i \in I |-> Pick(F[i])]
<1>1. \A i \in I : f[i] \in F[i]
  BY PickIn
<1>2. f \in [I -> U] /\ \A i, j \in I : f[i] = f[j] => i = j
  BY <1>1
<1> HIDE DEF f
<1>3. f \in Injection(I, U)
  BY <1>2 DEF Injection, IsInjective
<1> QED BY <1>3, FS_Injection

\* Leaves F on a stack of n and accepted leaves G over A, each holding some of
\* the examples R and no two sharing one.
Apart(R, n, F, A, G) ==
  /\ n \in Nat
  /\ F \in [1 .. n -> SUBSET R]
  /\ G \in [A -> SUBSET R]
  /\ \A i \in 1 .. n : F[i] # {}
  /\ \A a \in A : G[a] # {}
  /\ \A i, j \in 1 .. n : i # j => F[i] \cap F[j] = {}
  /\ \A a, b \in A : a # b => G[a] \cap G[b] = {}
  /\ \A i \in 1 .. n, a \in A : F[i] \cap G[a] = {}

\* So the leaves on the stack and the accepted ones are not more than the
\* examples.
LEMMA LeavesFew ==
  ASSUME NEW R, IsFiniteSet(R), NEW n, NEW F, NEW A, NEW G, Apart(R, n, F, A, G)
  PROVE  n + Cardinality(A) <= Cardinality(R)
PROOF
<1> USE DEF Apart
<1> DEFINE U == UNION {F[i] : i \in 1 .. n}
           V == UNION {G[a] : a \in A}
<1>1. Cardinality(1 .. n) = n
  BY FS_Interval
<1>2. U \in SUBSET R /\ V \in SUBSET R /\ U \cap V = {}
  OBVIOUS
<1>3. F \in [1 .. n -> SUBSET U] /\ G \in [A -> SUBSET V]
  OBVIOUS
<1> HIDE DEF U, V
<1>4. IsFiniteSet(U) /\ IsFiniteSet(V) /\ U \cup V \in SUBSET R
  BY <1>2, FS_Subset
<1>5. /\ n <= Cardinality(U)
      /\ IsFiniteSet(A) /\ Cardinality(A) <= Cardinality(V)
  <2>1. Cardinality(1 .. n) <= Cardinality(U)
    BY <1>3, <1>4, DisjointParts
  <2>2. IsFiniteSet(A) /\ Cardinality(A) <= Cardinality(V)
    BY <1>3, <1>4, DisjointParts
  <2> QED BY <1>1, <2>1, <2>2
<1>6. Cardinality(U \cup V) = Cardinality(U) + Cardinality(V)
  BY <1>2, <1>4, DisjointCardinality
<1>7. Cardinality(U \cup V) <= Cardinality(R)
  BY <1>4, FS_Subset
<1>8. /\ Cardinality(U) \in Nat /\ Cardinality(V) \in Nat
      /\ Cardinality(A) \in Nat /\ Cardinality(R) \in Nat
  BY <1>4, <1>5, FS_CardinalityType
<1> QED BY <1>5, <1>6, <1>7, <1>8

\* A condition that splits S costs less than one that leaves a side empty.
LEMMA TellingIsCheaper ==
  ASSUME prob \in Problems, NEW S \in SUBSET Range0(prob.size), S # {},
         NEW C, NEW D, S \cap C = {} \/ S \ C = {}, S \cap D # {}, S \ D # {}
  PROVE  /\ cond_entropy(S, C) \in Int /\ cond_entropy(S, D) \in Int
         /\ cond_entropy(S, D) < cond_entropy(S, C)
PROOF
<1> DEFINE a == Cardinality(S \cap D)
           b == Cardinality(S \ D)
           n == Cardinality(S)
<1>1. IsFiniteSet(S) /\ n \in Nat
      /\ \A T \in SUBSET S : IsFiniteSet(T) /\ Cardinality(T) \in Nat
  BY ProblemFacts, FS_CardinalityType
<1>2. a \in Nat /\ b \in Nat
  BY <1>1
<1>3. n = a + b
  <2>1. S = (S \cap D) \cup (S \ D) /\ (S \cap D) \cap (S \ D) = {}
    OBVIOUS
  <2>2. IsFiniteSet(S \cap D) /\ IsFiniteSet(S \ D)
    BY <1>1
  <2> QED BY <2>1, <2>2, DisjointCardinality
<1>4. n > 0
  BY <1>1, FS_EmptySet
<1>5. Penalty - 1 \in Nat /\ Penalty \in Nat
  BY TermFacts, TreeAssumption
<1>6. /\ entropy(S \cap D) \in Int /\ entropy(S \cap D) <= a * (Penalty - 1)
      /\ entropy(S \ D) \in Int /\ entropy(S \ D) <= b * (Penalty - 1)
  <2>1. S \cap D \in SUBSET Range0(prob.size) /\ S \ D \in SUBSET Range0(prob.size)
    OBVIOUS
  <2> QED BY <2>1, EntropyBound
<1>7. /\ cond_entropy(S, C) = n * Penalty
      /\ cond_entropy(S, D) = entropy(S \cap D) + entropy(S \ D)
  BY DEF cond_entropy
<1> HIDE DEF a, b, n
<1>8. a * (Penalty - 1) + b * (Penalty - 1) = n * Penalty - n
  BY <1>2, <1>3, <1>5
<1>9. n * Penalty \in Int /\ a * (Penalty - 1) \in Int /\ b * (Penalty - 1) \in Int
  BY <1>1, <1>2, <1>5
<1> QED BY <1>1, <1>4, <1>6, <1>7, <1>8, <1>9

\* If there is a tree and no option fits the top leaf, some condition tells some
\* of its examples apart: otherwise the tree has one option for all of them.
LEMMA SomeTells ==
  ASSUME PathInv, Learnable, Running, \A i \in DOMAIN Options : ~Fits(Top.bits, i)
  PROVE  /\ Top.bits \in SUBSET Range0(prob.size) /\ Top.bits # {}
         /\ \E d \in DOMAIN Conditions :
              Top.bits \cap Conditions[d] # {} /\ Top.bits \ Conditions[d] # {}
PROOF
<1> DEFINE S == Top.bits
           E == boxed_ones(prob.size)
<1>1. prob \in Problems /\ subproblems \in Seq(Leaf) /\ subproblems # <<>>
  BY DEF PathInv, TypeOK, Leaf, Running
<1>2. Top \in Leaf /\ Top \in Leaves
  BY <1>1 DEF Top, Leaves
<1>3. S \in SUBSET Range0(prob.size) /\ S \subseteq E
  BY <1>2 DEF Leaf, Bits, PathInv, BitsMatchPath
<1> HIDE DEF S
<1>4. \A i \in DOMAIN Options : ~(S \subseteq Options[i])
  BY <1>1, <1>3, EntropyZero DEF Fits, S
<1>5. S # {}
  <2>1. PICK i \in DOMAIN Options : 0 \in Options[i]
    <3>1. prob.size \in Nat \ {0}
          /\ \A e \in Range0(prob.size) : \E i \in DOMAIN Options : e \in Options[i]
      BY <1>1, TreeAssumption DEF Options
    <3>2. 0 \in Range0(prob.size)
      BY <3>1 DEF Range0
    <3> QED BY <3>1, <3>2
  <2> QED BY <1>4
<1> SUFFICES ASSUME \A d \in DOMAIN Conditions :
                      S \cap Conditions[d] = {} \/ S \ Conditions[d] = {}
             PROVE  FALSE
  BY <1>3, <1>5 DEF S
<1>7. PICK e \in S : TRUE
  BY <1>5
<1>8. PICK O \in Elements(Options) :
        \A d \in E : (\A C \in Elements(Conditions) : (d \in C) = (e \in C)) => d \in O
  BY <1>3, <1>7 DEF Learnable, HasTree
<1>9. \A d \in S : \A C \in Elements(Conditions) : (d \in C) = (e \in C)
  BY <1>7 DEF Elements
<1>10. S \subseteq O
  BY <1>3, <1>8, <1>9
<1> QED BY <1>4, <1>8, <1>10 DEF Elements

\* So if the top leaf is split, then by such a condition, which costs less than
\* any that leaves a side empty.
LEMMA SplitTells ==
  ASSUME PathInv, Learnable, Running, \A i \in DOMAIN Options : ~Fits(Top.bits, i),
         NEW c \in DOMAIN Conditions, Best(Top.bits, c)
  PROVE  Top.bits \cap Conditions[c] # {} /\ Top.bits \ Conditions[c] # {}
PROOF
<1> DEFINE S == Top.bits
<1>1. prob \in Problems
  BY DEF PathInv, TypeOK
<1>2. /\ S \in SUBSET Range0(prob.size) /\ S # {}
      /\ \E d \in DOMAIN Conditions : S \cap Conditions[d] # {} /\ S \ Conditions[d] # {}
  BY SomeTells
<1> HIDE DEF S
<1> SUFFICES ASSUME S \cap Conditions[c] = {} \/ S \ Conditions[c] = {}
             PROVE  FALSE
  BY DEF S
<1>3. PICK d \in DOMAIN Conditions : S \cap Conditions[d] # {} /\ S \ Conditions[d] # {}
  BY <1>2
<1> DEFINE x == cond_entropy(S, Conditions[c])
           y == cond_entropy(S, Conditions[d])
<1>4. x \in Int /\ y \in Int /\ y < x
  BY <1>1, <1>2, <1>3, TellingIsCheaper
<1>5. x < y \/ x = y
  BY DEF Best, S
<1> HIDE DEF x, y
<1> QED BY <1>4, <1>5

\* Accepting moves a leaf and makes no node.
LEMMA AcceptTells ==
  ASSUME IndInv, Accept
  PROVE  SplitsTell' /\ FailureIsHopeless'
PROOF
<1>0. PICK n \in Nat \ {0} : Len(subproblems) = n
  <2>1. subproblems \in Seq(Leaf) /\ subproblems # <<>>
    BY DEF Accept, Running, IndInv, PathInv, TypeOK, Leaf
  <2>2. Len(subproblems) \in Nat \ {0}
    BY <2>1
  <2> QED BY <2>2
<1>1. PICK i \in DOMAIN Options :
        accepted' = accepted \cup
          {[bits |-> Top.bits, t |-> Top.t, f |-> Top.f, option |-> i]}
  BY DEF Accept
<1> DEFINE new == [bits |-> Top.bits, t |-> Top.t, f |-> Top.f, option |-> i]
<1>2. /\ prob' = prob /\ counter' = counter /\ status' = status /\ status = "run"
      /\ subproblems' = SubSeq(subproblems, 1, n - 1) /\ Top = subproblems[n]
      /\ subproblems \in Seq(Leaf) /\ subproblems # <<>>
  BY <1>0 DEF Accept, Running, Rest, Top, IndInv, PathInv, TypeOK, Leaf
<1>3. /\ Len(subproblems) = n /\ DOMAIN subproblems = 1 .. n
      /\ Len(subproblems') = n - 1 /\ DOMAIN subproblems' = 1 .. n - 1
      /\ \A j \in 1 .. n - 1 : subproblems'[j] = subproblems[j]
  <2>1. DOMAIN subproblems = 1 .. n
    BY <1>0, <1>2
  <2> DEFINE r == SubSeq(subproblems, 1, n - 1)
  <2>2. Len(r) = n - 1 /\ DOMAIN r = 1 .. n - 1 /\ \A j \in 1 .. n - 1 : r[j] = subproblems[j]
    BY <1>0, <1>2
  <2> HIDE DEF r
  <2> QED BY <1>0, <1>2, <2>1, <2>2 DEF r
<1>4. Learnable' <=> Learnable
  BY <1>2 DEF Learnable, Options, Conditions
<1>5. FailureIsHopeless'
  BY <1>2 DEF FailureIsHopeless
<1>6. ASSUME Learnable, boxed_ones(prob.size) # {}
      PROVE  /\ \A l \in Leaves' : l.bits # {}
             /\ \A j, k \in 1 .. n - 1 :
                  j # k => subproblems'[j].bits \cap subproblems'[k].bits = {}
             /\ \A a, b \in accepted' : a # b => a.bits \cap b.bits = {}
             /\ \A j \in 1 .. n - 1, a \in accepted' :
                  subproblems'[j].bits \cap a.bits = {}
             /\ IsFiniteSet(accepted')
             /\ counter' = 2 * (Len(subproblems') + Cardinality(accepted')) - 1
  <2>1. /\ \A l \in Leaves : l.bits # {}
        /\ \A j, k \in 1 .. n :
             j # k => subproblems[j].bits \cap subproblems[k].bits = {}
        /\ \A a, b \in accepted : a # b => a.bits \cap b.bits = {}
        /\ \A j \in 1 .. n, a \in accepted : subproblems[j].bits \cap a.bits = {}
        /\ IsFiniteSet(accepted)
        /\ counter = 2 * (n + Cardinality(accepted)) - 1
    BY <1>3, <1>6 DEF IndInv, SplitsTell
  <2>2. new.bits = subproblems[n].bits /\ new.bits # {} /\ n \in 1 .. n
    <3>1. n \in 1 .. n
      OBVIOUS
    <3>2. subproblems[n] \in Leaves
      BY <1>3, <3>1 DEF Leaves
    <3>3. new.bits = subproblems[n].bits
      BY <1>2
    <3> QED BY <2>1, <3>1, <3>2, <3>3
  <2>3. accepted' = accepted \cup {new}
    BY <1>1
  <2> HIDE DEF new
  <2>4. new \notin accepted
    BY <2>1, <2>2
  <2>5. IsFiniteSet(accepted') /\ Cardinality(accepted') = Cardinality(accepted) + 1
        /\ Cardinality(accepted) \in Nat
    BY <2>1, <2>3, <2>4, FS_AddElement, FS_CardinalityType
  <2>6. \A l \in Leaves' : l.bits # {}
    <3>1. \A l \in Leaves' : l \in Leaves \/ l = new
      BY <1>3, <2>3 DEF Leaves
    <3> QED BY <2>1, <2>2, <3>1
  <2>7. \A a, b \in accepted' : a # b => a.bits \cap b.bits = {}
    BY <2>1, <2>2, <2>3
  <2>8. \A j \in 1 .. n - 1, a \in accepted' : subproblems'[j].bits \cap a.bits = {}
    <3> SUFFICES ASSUME NEW j \in 1 .. n - 1, NEW a \in accepted'
                 PROVE  subproblems[j].bits \cap a.bits = {}
      BY <1>3
    <3>1. j \in 1 .. n /\ j # n
      BY <1>3
    <3> QED BY <2>1, <2>2, <2>3, <3>1
  <2>9. \A j, k \in 1 .. n - 1 :
          j # k => subproblems'[j].bits \cap subproblems'[k].bits = {}
    <3>1. \A j \in 1 .. n - 1 : j \in 1 .. n
      BY <1>3
    <3> QED BY <1>3, <2>1, <3>1
  <2>10. counter' = 2 * (Len(subproblems') + Cardinality(accepted')) - 1
    <3>1. Len(subproblems') + Cardinality(accepted') = n + Cardinality(accepted)
      BY <1>3, <2>5
    <3> QED BY <1>2, <2>1, <3>1
  <2> QED BY <2>5, <2>6, <2>7, <2>8, <2>9, <2>10
<1>7. SplitsTell'
  BY <1>2, <1>3, <1>4, <1>6 DEF SplitsTell
<1> QED BY <1>5, <1>7

\* A split replaces a leaf by two that share its examples, none empty; and then
\* there are not more leaves than examples, so the limit is not passed.
LEMMA SplitTellsStep ==
  ASSUME IndInv, Split
  PROVE  SplitsTell' /\ FailureIsHopeless'
PROOF
<1> DEFINE E == boxed_ones(prob.size)
<1>0. PICK n \in Nat \ {0} : Len(subproblems) = n
  <2>1. subproblems \in Seq(Leaf) /\ subproblems # <<>>
    BY DEF Split, Running, IndInv, PathInv, TypeOK, Leaf
  <2>2. Len(subproblems) \in Nat \ {0}
    BY <2>1
  <2> QED BY <2>2
<1>1. PICK c \in DOMAIN Conditions :
        /\ Best(Top.bits, c)
        /\ subproblems' = Append(Append(Rest, OtherSide(c)), ZeroSide(c))
  BY DEF Split
<1> DEFINE A == OtherSide(c)
           B == ZeroSide(c)
<1>2. /\ prob' = prob /\ accepted' = accepted /\ counter' = counter + 2
      /\ status' = IF counter + 2 > prob.limit THEN "limit" ELSE "run"
      /\ Rest = SubSeq(subproblems, 1, n - 1) /\ Top = subproblems[n]
      /\ subproblems \in Seq(Leaf) /\ subproblems # <<>> /\ prob \in Problems
      /\ counter \in Nat
  BY <1>0 DEF Split, Running, Rest, Top, IndInv, PathInv, TypeOK, Leaf
<1>3. Len(subproblems) = n /\ DOMAIN subproblems = 1 .. n
  BY <1>0, <1>2
<1>4. /\ Len(subproblems') = n + 1 /\ DOMAIN subproblems' = 1 .. n + 1
      /\ \A j \in 1 .. n - 1 : subproblems'[j] = subproblems[j]
      /\ subproblems'[n] = A /\ subproblems'[n + 1] = B
  <2> DEFINE r == SubSeq(subproblems, 1, n - 1)
             q == Append(r, A)
  <2>1. /\ r \in Seq(Leaf) /\ Len(r) = n - 1
        /\ \A j \in 1 .. n - 1 : r[j] = subproblems[j]
    BY <1>2, <1>3
  <2> HIDE DEF r
  <2>2. A \in Leaf /\ B \in Leaf
    <3>1. Top \in Leaf
      BY <1>2, <1>3
    <3> QED BY <3>1 DEF OtherSide, ZeroSide, Leaf, Bits, Path
  <2>3. subproblems' = Append(q, B)
    BY <1>1, <1>2 DEF r
  <2> HIDE DEF A, B
  <2>4. /\ q \in Seq(Leaf) /\ Len(q) = n
        /\ \A j \in 1 .. n - 1 : q[j] = subproblems[j]
        /\ q[n] = A
    BY <1>3, <2>1, <2>2
  <2> HIDE DEF q
  <2> QED BY <1>3, <2>2, <2>3, <2>4
<1>5. Learnable' <=> Learnable
  BY <1>2 DEF Learnable, Options, Conditions
<1>6. CASE ~Learnable
  BY <1>5, <1>6 DEF SplitsTell, FailureIsHopeless
<1>7. CASE Learnable
  <2>1. /\ A.bits = Top.bits \ Conditions[c] /\ A.bits # {}
        /\ B.bits = Top.bits \cap Conditions[c] /\ B.bits # {}
    <3>1. PathInv /\ Running /\ \A i \in DOMAIN Options : ~Fits(Top.bits, i)
      BY DEF IndInv, Split
    <3> QED BY <1>1, <1>7, <3>1, SplitTells DEF OtherSide, ZeroSide
  <2> HIDE DEF A, B
  <2>2. /\ \A l \in Leaves : l.bits \subseteq E
        /\ \A l \in accepted : l \in Leaves
        /\ \A j \in 1 .. n : subproblems[j] \in Leaves
    BY <1>3 DEF IndInv, PathInv, BitsMatchPath, Leaves
  <2>3. E # {}
    BY <1>2, <1>3, <2>1, <2>2
  <2>4. /\ \A l \in Leaves : l.bits # {}
        /\ \A j, k \in 1 .. n :
             j # k => subproblems[j].bits \cap subproblems[k].bits = {}
        /\ \A a, b \in accepted : a # b => a.bits \cap b.bits = {}
        /\ \A j \in 1 .. n, a \in accepted : subproblems[j].bits \cap a.bits = {}
        /\ IsFiniteSet(accepted)
        /\ counter = 2 * (n + Cardinality(accepted)) - 1
    BY <1>3, <1>7, <2>3 DEF IndInv, SplitsTell
  <2>5. ASSUME NEW j \in 1 .. n + 1
        PROVE  \/ j \in 1 .. n - 1 /\ subproblems'[j] = subproblems[j]
               \/ j = n /\ subproblems'[j] = A
               \/ j = n + 1 /\ subproblems'[j] = B
    BY <1>3, <1>4
  <2>6. \A j \in 1 .. n - 1 : j \in 1 .. n /\ j # n
    BY <1>3
  <2>7. /\ A.bits \subseteq subproblems[n].bits /\ B.bits \subseteq subproblems[n].bits
        /\ A.bits \cap B.bits = {} /\ n \in 1 .. n
    BY <1>2, <1>3, <2>1
  <2>8. \A j, k \in 1 .. n + 1 :
          j # k => subproblems'[j].bits \cap subproblems'[k].bits = {}
    <3> SUFFICES ASSUME NEW j \in 1 .. n + 1, NEW k \in 1 .. n + 1, j # k
                 PROVE  subproblems'[j].bits \cap subproblems'[k].bits = {}
      OBVIOUS
    <3>1. \A m \in 1 .. n - 1 : subproblems[m].bits \cap subproblems[n].bits = {}
      BY <2>4, <2>6, <2>7
    <3>2. CASE j \in 1 .. n - 1 /\ k \in 1 .. n - 1
      BY <1>4, <2>4, <2>6, <3>2
    <3>3. CASE ~(j \in 1 .. n - 1) /\ ~(k \in 1 .. n - 1)
      BY <2>5, <2>7, <3>3
    <3>4. CASE j \in 1 .. n - 1 /\ ~(k \in 1 .. n - 1)
      BY <1>4, <2>5, <2>7, <3>1, <3>4
    <3>5. CASE ~(j \in 1 .. n - 1) /\ k \in 1 .. n - 1
      BY <1>4, <2>5, <2>7, <3>1, <3>5
    <3> QED BY <3>2, <3>3, <3>4, <3>5
  <2>9. \A j \in 1 .. n + 1, a \in accepted : subproblems'[j].bits \cap a.bits = {}
    <3> SUFFICES ASSUME NEW j \in 1 .. n + 1, NEW a \in accepted
                 PROVE  subproblems'[j].bits \cap a.bits = {}
      OBVIOUS
    <3> QED BY <2>4, <2>5, <2>6, <2>7
  <2>10. \A j \in 1 .. n + 1 : subproblems'[j].bits # {} /\ subproblems'[j].bits \subseteq E
    <3> SUFFICES ASSUME NEW j \in 1 .. n + 1
                 PROVE  subproblems'[j].bits # {} /\ subproblems'[j].bits \subseteq E
      OBVIOUS
    <3>1. subproblems[n].bits \subseteq E
      BY <2>2, <2>7
    <3> QED BY <2>1, <2>2, <2>4, <2>5, <2>6, <2>7, <3>1
  <2>11. \A l \in Leaves' : l.bits # {}
    BY <1>2, <1>4, <2>2, <2>4, <2>10 DEF Leaves
  <2>12. counter' = 2 * (Len(subproblems') + Cardinality(accepted')) - 1
    BY <1>2, <1>3, <1>4, <2>4, FS_CardinalityType
  <2>13. SplitsTell'
    BY <1>2, <1>4, <2>4, <2>8, <2>9, <2>11, <2>12 DEF SplitsTell
  <2>14. n + 1 + Cardinality(accepted) <= prob.size
    <3> DEFINE m == n + 1
               F == [j \in 1 .. m |-> subproblems'[j].bits]
               G == [a \in accepted |-> a.bits]
    <3>1. IsFiniteSet(E) /\ Cardinality(E) \in 0 .. prob.size
      <4>1. E \in SUBSET Range0(prob.size)
        BY DEF boxed_ones
      <4> HIDE DEF E
      <4> QED BY <1>2, <4>1, ProblemFacts
    <3>2. F \in [1 .. m -> SUBSET E] /\ G \in [accepted -> SUBSET E]
      BY <2>2, <2>10
    <3>3. /\ \A j \in 1 .. m : F[j] # {}
          /\ \A a \in accepted : G[a] # {}
          /\ \A j, k \in 1 .. m : j # k => F[j] \cap F[k] = {}
          /\ \A a, b \in accepted : a # b => G[a] \cap G[b] = {}
          /\ \A j \in 1 .. m, a \in accepted : F[j] \cap G[a] = {}
      BY <2>2, <2>4, <2>8, <2>9, <2>10
    <3>4. m \in Nat /\ m = n + 1
      OBVIOUS
    <3> HIDE DEF F, G, E, m
    <3>5. m + Cardinality(accepted) <= Cardinality(E)
      <4>1. Apart(E, m, F, accepted, G)
        BY <3>2, <3>3, <3>4 DEF Apart
      <4> QED BY <3>1, <4>1, LeavesFew
    <3>6. Cardinality(accepted) \in Nat /\ prob.size \in Nat
      BY <1>2, <2>4, FS_CardinalityType, TreeAssumption
    <3> QED BY <3>1, <3>4, <3>5, <3>6
  <2>15. FailureIsHopeless'
    <3> SUFFICES ASSUME prob.limit >= 2 * prob.size
                 PROVE  status' # "limit"
      BY <1>2 DEF FailureIsHopeless
    <3>1. prob.limit \in Nat /\ prob.size \in Nat
      BY <1>2, TreeAssumption
    <3>2. Cardinality(accepted) \in Nat
      BY <2>4, FS_CardinalityType
    <3>3. ~(counter + 2 > prob.limit)
      BY <1>2, <1>3, <2>4, <2>14, <3>1, <3>2
    <3> QED BY <1>2, <3>3
  <2> QED BY <2>13, <2>15
<1> QED BY <1>6, <1>7

\* The invariant of the learner holds throughout.
THEOREM IndInvHolds == Spec => []IndInv
PROOF
<1>1. Init => IndInv
  <2> SUFFICES ASSUME Init PROVE IndInv
    OBVIOUS
  <2> DEFINE root == [bits |-> boxed_ones(prob.size), t |-> {}, f |-> {}]
  <2>1. subproblems = <<root>> /\ root \in [bits : Bits, t : Path, f : Path]
    BY DEF Init, Bits, Path, boxed_ones
  <2>2. Leaves = {root}
    BY <2>1 DEF Leaves, Init
  <2>3. \A e : Follows(e, root)
    BY DEF Follows
  <2>4. TypeOK
    BY <2>1 DEF Init, TypeOK
  <2>5. BitsMatchPath /\ LeavesCover
    BY <2>2, <2>3 DEF BitsMatchPath, LeavesCover, Init
  <2>6. SplitsTell
    <3>1. accepted = {} /\ counter = 1 /\ IsFiniteSet({}) /\ Cardinality({}) = 0
      BY FS_EmptySet DEF Init
    <3>2. Len(subproblems) = 1 /\ DOMAIN subproblems = 1 .. 1
      BY <2>1
    <3> QED BY <2>2, <3>1, <3>2 DEF SplitsTell
  <2> QED BY <2>4, <2>5, <2>6 DEF IndInv, PathInv, StackDone, FailureIsHopeless, Init
<1>2. IndInv /\ [Next]_vars => IndInv'
  <2> SUFFICES ASSUME IndInv, [Next]_vars PROVE IndInv'
    OBVIOUS
  <2>1. CASE NoCondition \/ Finish \/ UNCHANGED vars
    <3>1. /\ UNCHANGED <<prob, subproblems, accepted, counter>>
          /\ status' \in {"run", "solved", "limit", "panicked"}
          /\ status' = "solved" => subproblems = <<>>
          /\ status' = "limit" => status = "limit"
          /\ status' = "panicked" => status = "panicked" \/ NoCondition
      BY <2>1 DEF NoCondition, Finish, vars, IndInv, PathInv, TypeOK, StackDone
    <3>2. PathInv'
      BY <3>1 DEF IndInv, PathInv, TypeOK, BitsMatchPath, LeavesCover, StackDone,
                  Leaves, Follows, Options, Conditions, Bits, Path
    <3>3. Learnable' <=> Learnable
      BY <3>1 DEF Learnable, Options, Conditions
    <3>4. NoCondition => ~Learnable
      <4> SUFFICES ASSUME NoCondition, Learnable PROVE FALSE
        OBVIOUS
      <4>1. \E d \in DOMAIN Conditions : TRUE
        BY SomeTells DEF NoCondition, IndInv
      <4>2. DOMAIN Conditions = {}
        BY DEF NoCondition
      <4> QED BY <4>1, <4>2
    <3>5. SplitsTell' /\ FailureIsHopeless'
      BY <3>1, <3>3, <3>4 DEF IndInv, SplitsTell, FailureIsHopeless, Leaves
    <3> QED BY <3>2, <3>5 DEF IndInv
  <2>2. CASE Accept
    BY <2>2, AcceptStep, AcceptTells DEF IndInv
  <2>3. CASE Split
    BY <2>3, SplitStep, SplitTellsStep DEF IndInv
  <2> QED BY <2>1, <2>2, <2>3 DEF Next
<1> QED BY <1>1, <1>2, PTL DEF Spec

\* boxed_ones has every example, unless they fill their words exactly.
LEMMA BoxedOnesAll ==
  ASSUME NEW n \in Nat \ {0}, n % WordBits # 0
  PROVE  boxed_ones(n) = Range0(n)
PROOF
<1> DEFINE W == WordBits
           q == n \div W
           r == n % W
<1>1. W \in Nat \ {0}
  BY TreeAssumption
<1>2. /\ q \in Nat /\ r \in 1 .. W - 1
      /\ n = W * q + r
  BY <1>1
<1>3. ceildiv(n, W) = q + 1
  <2>1. n + W - 1 = W * (q + 1) + (r - 1) /\ r - 1 \in 0 .. W - 1
    BY <1>1, <1>2
  <2>2. \A x \in Nat, y \in Nat, z \in 0 .. W - 1 : x = W * y + z => x \div W = y
    BY <1>1
  <2> QED BY <1>1, <1>2, <2>1, <2>2 DEF ceildiv
<1>4. (ceildiv(n, W) - 1) * W + r = n
  BY <1>1, <1>2, <1>3
<1> QED BY <1>4 DEF boxed_ones, Range0

\* A solved tree is right on every example.
THEOREM SolvedIsRightHolds == Spec => []SolvedIsRight
PROOF
<1>1. IndInv => SolvedIsRight
  <2> SUFFICES ASSUME IndInv, status = "solved", prob.size % WordBits # 0,
                      NEW e \in Range0(prob.size)
               PROVE  RightOn(e)
    BY DEF SolvedIsRight
  <2>1. prob.size \in Nat \ {0}
    BY TreeAssumption DEF IndInv, PathInv, TypeOK
  <2>2. e \in boxed_ones(prob.size)
    BY <2>1, BoxedOnesAll
  <2>3. Leaves = accepted
    BY DEF IndInv, PathInv, StackDone, Leaves
  <2> QED BY <2>2, <2>3 DEF IndInv, PathInv, BitsMatchPath, LeavesCover, RightOn
<1> QED BY <1>1, IndInvHolds, PTL

\* The greedy learner decides whether there is a tree. What it solves has one:
\* examples that no condition tells apart follow the same path and share its
\* option. And what has one is solved before the limit, since every split
\* tells examples apart.
THEOREM DecidesLearnableHolds == Spec => []DecidesLearnable
PROOF
<1>1. IndInv => DecidesLearnable
  <2> SUFFICES ASSUME IndInv, status = "solved"
               PROVE  Learnable
    BY DEF IndInv, DecidesLearnable
  <2> DEFINE E == boxed_ones(prob.size)
  <2> SUFFICES ASSUME NEW e \in E
               PROVE  \E O \in Elements(Options) : \A d \in E :
                        (\A C \in Elements(Conditions) : (d \in C) = (e \in C)) => d \in O
    BY DEF Learnable, HasTree
  <2>1. PICK l \in accepted : Follows(e, l)
    BY DEF IndInv, PathInv, StackDone, LeavesCover, Leaves
  <2>2. /\ l.option \in DOMAIN Options /\ l.t \in Path /\ l.f \in Path
        /\ l.bits \subseteq Options[l.option]
        /\ l.bits = {d \in E : Follows(d, l)}
    BY DEF IndInv, PathInv, TypeOK, BitsMatchPath, Leaves
  <2>3. ASSUME NEW d \in E, \A C \in Elements(Conditions) : (d \in C) = (e \in C)
        PROVE  d \in Options[l.option]
    <3>1. \A c \in DOMAIN Conditions : (d \in Conditions[c]) = (e \in Conditions[c])
      BY <2>3 DEF Elements
    <3>2. Follows(d, l)
      BY <2>1, <2>2, <3>1 DEF Follows, Path
    <3> QED BY <2>2, <3>2
  <2>4. Options[l.option] \in Elements(Options)
    BY <2>2 DEF Elements
  <2> QED BY <2>3, <2>4
<1> QED BY <1>1, IndInvHolds, PTL

\* A problem that has a tree gets no more nodes than one leaf for each example
\* needs: the leaves share out the examples and none of them is empty.
THEOREM TreeSmallHolds == Spec => []TreeSmall
PROOF
<1>1. IndInv => TreeSmall
  <2> SUFFICES ASSUME IndInv, Learnable, boxed_ones(prob.size) # {}
               PROVE  counter < 2 * prob.size
    BY DEF TreeSmall
  <2> DEFINE E == boxed_ones(prob.size)
  <2>1. prob \in Problems /\ subproblems \in Seq(Leaf)
    BY DEF IndInv, PathInv, TypeOK, Leaf
  <2>2. PICK n \in Nat : Len(subproblems) = n /\ DOMAIN subproblems = 1 .. n
    BY <2>1
  <2>3. /\ \A l \in Leaves : l.bits # {} /\ l.bits \subseteq E
        /\ \A j, k \in 1 .. n : j # k => subproblems[j].bits \cap subproblems[k].bits = {}
        /\ \A a, b \in accepted : a # b => a.bits \cap b.bits = {}
        /\ \A j \in 1 .. n, a \in accepted : subproblems[j].bits \cap a.bits = {}
        /\ IsFiniteSet(accepted)
        /\ counter = 2 * (n + Cardinality(accepted)) - 1
    BY <2>2 DEF IndInv, SplitsTell, PathInv, BitsMatchPath
  <2> DEFINE F == [j \in 1 .. n |-> subproblems[j].bits]
             G == [a \in accepted |-> a.bits]
  <2>4. Apart(E, n, F, accepted, G)
    <3>1. (\A j \in 1 .. n : subproblems[j] \in Leaves) /\ \A a \in accepted : a \in Leaves
      BY <2>2 DEF Leaves
    <3>2. F \in [1 .. n -> SUBSET E] /\ G \in [accepted -> SUBSET E]
      BY <2>3, <3>1
    <3>3. (\A j \in 1 .. n : F[j] # {}) /\ \A a \in accepted : G[a] # {}
      BY <2>3, <3>1
    <3>4. /\ \A j, k \in 1 .. n : j # k => F[j] \cap F[k] = {}
          /\ \A a, b \in accepted : a # b => G[a] \cap G[b] = {}
          /\ \A j \in 1 .. n, a \in accepted : F[j] \cap G[a] = {}
      BY <2>3
    <3> HIDE DEF E, F, G
    <3> QED BY <3>2, <3>3, <3>4 DEF Apart
  <2>5. IsFiniteSet(E) /\ Cardinality(E) \in 0 .. prob.size
    <3>1. E \in SUBSET Range0(prob.size)
      BY DEF boxed_ones
    <3> HIDE DEF E
    <3> QED BY <2>1, <3>1, ProblemFacts
  <2> HIDE DEF E, F, G
  <2>6. n + Cardinality(accepted) <= Cardinality(E)
    BY <2>4, <2>5, LeavesFew
  <2>7. Cardinality(accepted) \in Nat /\ prob.size \in Nat
    BY <2>1, <2>3, FS_CardinalityType, TreeAssumption
  <2> QED BY <2>3, <2>5, <2>6, <2>7
<1> QED BY <1>1, IndInvHolds, PTL
=============================================================================
