------------------------ MODULE DecisionTreesProofs ------------------------
(* Lemmas shared by the proofs about tree learning and its caller.          *)
EXTENDS DecisionTrees, Integers, Sequences, SequenceTheorems, TLAPS

\* The elements of a stack without its top.
LEMMA RestElements ==
  ASSUME NEW R, NEW s \in Seq(R), s # <<>>,
         NEW r, r = SubSeq(s, 1, Len(s) - 1)
  PROVE  /\ r \in Seq(R)
         /\ s[Len(s)] \in R
         /\ Elements(s) = Elements(r) \cup {s[Len(s)]}
PROOF
<1>1. /\ Len(s) \in Nat \ {0}
      /\ DOMAIN s = 1 .. Len(s)
      /\ \A i \in 1 .. Len(s) : s[i] \in R
  OBVIOUS
<1>2. /\ r \in Seq(R)
      /\ DOMAIN r = 1 .. Len(s) - 1
      /\ \A i \in 1 .. Len(s) - 1 : r[i] = s[i]
  BY <1>1
<1>3. ASSUME NEW i \in DOMAIN s
      PROVE  s[i] \in {r[j] : j \in DOMAIN r} \cup {s[Len(s)]}
  <2>1. i = Len(s) \/ i \in 1 .. Len(s) - 1
    BY <1>1
  <2>2. CASE i = Len(s)
    BY <2>2
  <2>3. CASE i \in 1 .. Len(s) - 1
    <3>1. i \in DOMAIN r /\ s[i] = r[i]
      BY <1>2, <2>3
    <3> QED BY <3>1
  <2> QED BY <2>1, <2>2, <2>3
<1>4. ASSUME NEW j \in DOMAIN r
      PROVE  r[j] \in {s[i] : i \in DOMAIN s}
  BY <1>1, <1>2
<1> QED BY <1>1, <1>2, <1>3, <1>4 DEF Elements

\* The elements of a stack with one more on top.
LEMMA PushElements ==
  ASSUME NEW R, NEW r \in Seq(R), NEW a \in R
  PROVE  /\ Append(r, a) \in Seq(R)
         /\ Elements(Append(r, a)) = Elements(r) \cup {a}
PROOF
<1> DEFINE q == Append(r, a)
<1>1. /\ q \in Seq(R)
      /\ Len(r) \in Nat
      /\ DOMAIN r = 1 .. Len(r)
      /\ DOMAIN q = 1 .. Len(r) + 1
      /\ \A i \in 1 .. Len(r) : q[i] = r[i]
      /\ q[Len(r) + 1] = a
  OBVIOUS
<1> HIDE DEF q
<1>2. ASSUME NEW i \in DOMAIN q
      PROVE  q[i] \in {r[j] : j \in DOMAIN r} \cup {a}
  <2>1. i \in 1 .. Len(r) \/ i = Len(r) + 1
    BY <1>1
  <2> QED BY <1>1, <2>1
<1>3. ASSUME NEW x \in {r[j] : j \in DOMAIN r} \cup {a}
      PROVE  x \in {q[i] : i \in DOMAIN q}
  <2>1. CASE x = a
    <3>1. Len(r) + 1 \in DOMAIN q
      BY <1>1
    <3> QED BY <1>1, <2>1, <3>1
  <2>2. CASE x \in {r[j] : j \in DOMAIN r}
    <3>1. PICK j \in DOMAIN r : x = r[j]
      BY <2>2
    <3>2. j \in DOMAIN q /\ x = q[j]
      BY <1>1, <3>1
    <3> QED BY <3>2
  <2> QED BY <2>1, <2>2
<1>4. {q[i] : i \in DOMAIN q} = {r[j] : j \in DOMAIN r} \cup {a}
  BY <1>2, <1>3
<1>5. Elements(q) = Elements(r) \cup {a}
  BY <1>4 DEF Elements
<1> QED BY <1>1, <1>5 DEF q

\* A sequence is all but its last element, and then what is beyond that.
LEMMA RestAndLast ==
  ASSUME NEW R, NEW s \in Seq(R), NEW k \in Nat, Len(s) = k + 1
  PROVE  LET r == SubSeq(s, 1, k) IN r \o SubSeq(s, Len(r) + 1, Len(s)) = s
PROOF
<1>1. Len(SubSeq(s, 1, k)) = k
  OBVIOUS
<1>2. 1 \in 1 .. Len(s) + 1 /\ k \in 1 - 1 .. Len(s) /\ Len(s) \in k .. Len(s)
  OBVIOUS
<1>3. SubSeq(s, 1, k) \o SubSeq(s, k + 1, Len(s)) = SubSeq(s, 1, Len(s))
  BY <1>2, ConcatAdjacentSubSeq
<1>4. SubSeq(s, 1, Len(s)) = s
  OBVIOUS
<1> QED BY <1>1, <1>3, <1>4, Zenon

\* More options and more conditions never lose a tree.
LEMMA TreeMonotone ==
  ASSUME NEW E, NEW O1, NEW O2, NEW C1, NEW C2,
         O1 \subseteq O2, C1 \subseteq C2, HasTree(E, O1, C1)
  PROVE  HasTree(E, O2, C2)
PROOF
<1> SUFFICES ASSUME NEW e \in E
             PROVE  \E O \in O2 : \A d \in E :
                      (\A C \in C2 : (d \in C) = (e \in C)) => d \in O
  BY DEF HasTree
<1>1. PICK O \in O1 : \A d \in E :
        (\A C \in C1 : (d \in C) = (e \in C)) => d \in O
  BY DEF HasTree
<1> QED BY <1>1

\* One option that is right everywhere is a tree.
LEMMA FullTree ==
  ASSUME NEW E, NEW O, NEW C, NEW S \in O, E \subseteq S
  PROVE  HasTree(E, O, C)
PROOF BY DEF HasTree
=============================================================================
