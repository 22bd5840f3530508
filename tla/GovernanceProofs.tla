-------------------------- MODULE GovernanceProofs --------------------------
(***************************************************************************)
(* What the rules of governance return: merged, filtered, cut and          *)
(* validated lists of hypotheses.                                          *)
(***************************************************************************)
EXTENDS EvidenceGovernance, OrderingProofs

Hypotheses == [cause : Cause, confidence : Confidence,
               support : SUBSET Nat, contra : SUBSET Nat, rank : Nat]

DistinctCauses(hs) == \A i, j \in DOMAIN hs : i # j => hs[i].cause # hs[j].cause

\* The strongest of some levels is one of them.
LEMMA StrongestOf ==
    ASSUME NEW levels \in SUBSET Confidence, levels # {}
    PROVE  /\ Strongest(levels) \in levels
           /\ \A d \in levels : Weight[d] <= Weight[Strongest(levels)]
<1>1. \E c \in levels : \A d \in levels : Weight[d] <= Weight[c]
  <2>1. CASE "HIGH" \in levels
    BY <2>1 DEF Confidence, Weight
  <2>2. CASE "HIGH" \notin levels /\ "MEDIUM" \in levels
    BY <2>2 DEF Confidence, Weight
  <2>3. CASE "HIGH" \notin levels /\ "MEDIUM" \notin levels
    <3>1. levels = {"LOW"}
      BY <2>3 DEF Confidence
    <3> QED BY <3>1 DEF Weight
  <2> QED BY <2>1, <2>2, <2>3
<1> QED BY <1>1 DEF Strongest

\* What merging the hypotheses of the cause of hs[i] yields.
LEMMA MergedOf ==
    ASSUME NEW hs \in Seq(Hypotheses), NEW i \in DOMAIN hs
    PROVE  /\ Merged(hs, i) \in Hypotheses
           /\ Merged(hs, i).cause = hs[i].cause
           /\ Merged(hs, i).rank = hs[i].rank
           /\ \A n : n \in Merged(hs, i).support <=>
                 \E j \in DOMAIN hs : hs[j].cause = hs[i].cause /\ n \in hs[j].support
           /\ \A n : n \in Merged(hs, i).contra <=>
                 \E j \in DOMAIN hs : hs[j].cause = hs[i].cause /\ n \in hs[j].contra
           /\ \E j \in DOMAIN hs : /\ hs[j].cause = hs[i].cause
                                  /\ Merged(hs, i).confidence = hs[j].confidence
           /\ \A j \in DOMAIN hs : hs[j].cause = hs[i].cause =>
                 Weight[hs[j].confidence] <= Weight[Merged(hs, i).confidence]
<1> DEFINE same == {hs[j] : j \in {k \in DOMAIN hs : hs[k].cause = hs[i].cause}}
           levels == {h.confidence : h \in same}
<1>1. \A h : h \in same <=> \E j \in DOMAIN hs : hs[j].cause = hs[i].cause /\ h = hs[j]
  OBVIOUS
<1>2. \A j \in DOMAIN hs : hs[j] \in Hypotheses
  OBVIOUS
<1>3. \A h \in same : h.confidence \in Confidence /\ h.support \subseteq Nat /\ h.contra \subseteq Nat
  BY <1>1, <1>2 DEF Hypotheses
<1>4. hs[i] \in same
  OBVIOUS
<1>5. Merged(hs, i) = [hs[i] EXCEPT !.confidence = Strongest(levels),
                                    !.support = UNION {h.support : h \in same},
                                    !.contra = UNION {h.contra : h \in same}]
  BY DEF Merged
<1> HIDE DEF same
<1>6. levels \in SUBSET Confidence /\ levels # {}
  BY <1>3, <1>4
<1>7. /\ Strongest(levels) \in levels
      /\ \A d \in levels : Weight[d] <= Weight[Strongest(levels)]
  BY <1>6, StrongestOf
<1>8. UNION {h.support : h \in same} \in SUBSET Nat /\ UNION {h.contra : h \in same} \in SUBSET Nat
  BY <1>3
<1>9. /\ Merged(hs, i) \in Hypotheses
      /\ Merged(hs, i).cause = hs[i].cause
      /\ Merged(hs, i).rank = hs[i].rank
      /\ Merged(hs, i).confidence = Strongest(levels)
      /\ Merged(hs, i).support = UNION {h.support : h \in same}
      /\ Merged(hs, i).contra = UNION {h.contra : h \in same}
  BY <1>2, <1>5, <1>6, <1>7, <1>8 DEF Hypotheses
<1>10. \A n : n \in UNION {h.support : h \in same} <=>
          \E j \in DOMAIN hs : hs[j].cause = hs[i].cause /\ n \in hs[j].support
  BY <1>1
<1>11. \A n : n \in UNION {h.contra : h \in same} <=>
          \E j \in DOMAIN hs : hs[j].cause = hs[i].cause /\ n \in hs[j].contra
  BY <1>1
<1>12. \E j \in DOMAIN hs : hs[j].cause = hs[i].cause /\ Strongest(levels) = hs[j].confidence
  <2>1. PICK h \in same : h.confidence = Strongest(levels)
    BY <1>7
  <2>2. PICK j \in DOMAIN hs : hs[j].cause = hs[i].cause /\ h = hs[j]
    BY <1>1
  <2> QED BY <2>1, <2>2
<1>13. \A j \in DOMAIN hs : hs[j].cause = hs[i].cause =>
          Weight[hs[j].confidence] <= Weight[Strongest(levels)]
  BY <1>1, <1>7
<1> QED BY <1>9, <1>10, <1>11, <1>12, <1>13

\* After the causes are merged there is one hypothesis for each cause.
LEMMA MergedCauses ==
    ASSUME NEW hs \in Seq(Hypotheses)
    PROVE  /\ MergeCauses(hs) \in Seq(Hypotheses)
           /\ DistinctCauses(MergeCauses(hs))
           /\ \A k \in DOMAIN MergeCauses(hs) :
                 \E i \in DOMAIN hs : MergeCauses(hs)[k] = Merged(hs, i)
           /\ \A i \in DOMAIN hs : \E k \in DOMAIN MergeCauses(hs) :
                 MergeCauses(hs)[k].cause = hs[i].cause
<1> DEFINE first == {i \in DOMAIN hs : \A j \in 1..i - 1 : hs[j].cause # hs[i].cause}
           q == Ascending(first)
           n == Cardinality(first)
<1>1. DOMAIN hs = 1..Len(hs) /\ Len(hs) \in Nat
  OBVIOUS
<1>2. IsFiniteSet(first)
  BY <1>1, PlacesFinite, FS_Subset
<1>3. /\ n \in Nat /\ q \in [1..n -> first]
      /\ \A x \in first : \E k \in 1..n : q[k] = x
      /\ \A j, k \in 1..n : j < k => q[j] < q[k]
  <2>1. first \in SUBSET Nat
    BY <1>1
  <2> HIDE DEF first
  <2> QED BY <1>2, <2>1, AscendingListed
<1>4. MergeCauses(hs) = [k \in 1..n |-> Merged(hs, q[k])]
  BY <1>3 DEF MergeCauses
<1>5. \A x, y \in first : x < y => hs[x].cause # hs[y].cause
  BY <1>1
<1>6. ASSUME NEW i \in DOMAIN hs PROVE \E x \in first : hs[x].cause = hs[i].cause
  <2> DEFINE same == {j \in DOMAIN hs : hs[j].cause = hs[i].cause}
  <2>1. same \in SUBSET Nat /\ same # {}
    BY <1>1
  <2>2. PICK x \in same : \A y \in same : x <= y
    BY <2>1, LeastNumber
  <2>3. \A j \in 1..x - 1 : hs[j].cause # hs[x].cause
    BY <1>1, <2>2
  <2> QED BY <2>2, <2>3
<1>7. first \subseteq DOMAIN hs
  OBVIOUS
<1> HIDE DEF first, q, n
<1>8. \A x \in first : Merged(hs, x) \in Hypotheses /\ Merged(hs, x).cause = hs[x].cause
  BY <1>7, MergedOf
<1>9. MergeCauses(hs) \in Seq(Hypotheses) /\ DOMAIN MergeCauses(hs) = 1..n
  BY <1>3, <1>4, <1>8
<1>10. \A k \in 1..n : MergeCauses(hs)[k] = Merged(hs, q[k]) /\ q[k] \in first
  BY <1>3, <1>4
<1>11. DistinctCauses(MergeCauses(hs))
  <2> SUFFICES ASSUME NEW j \in 1..n, NEW k \in 1..n, j # k
               PROVE  MergeCauses(hs)[j].cause # MergeCauses(hs)[k].cause
    BY <1>9 DEF DistinctCauses
  <2>1. q[j] < q[k] \/ q[k] < q[j]
    BY <1>3
  <2> QED BY <1>5, <1>8, <1>10, <2>1
<1>12. ASSUME NEW i \in DOMAIN hs PROVE \E k \in 1..n : MergeCauses(hs)[k].cause = hs[i].cause
  <2>1. PICK x \in first : hs[x].cause = hs[i].cause
    BY <1>6
  <2>2. PICK k \in 1..n : q[k] = x
    BY <1>3
  <2> QED BY <1>8, <1>10, <2>1, <2>2
<1> QED BY <1>7, <1>9, <1>10, <1>11, <1>12

\* If the first m hypotheses have two causes only, these causes are among the
\* first two that the merge yields.
LEMMA MergedFirst ==
    ASSUME NEW hs \in Seq(Hypotheses), NEW m \in 0..Len(hs), NEW c, NEW d,
           \A i \in 1..m : hs[i].cause \in {c, d},
           NEW g \in 1..m
    PROVE  \E k \in DOMAIN MergeCauses(hs) :
              /\ k <= 2
              /\ \E i \in DOMAIN hs : /\ hs[i].cause = hs[g].cause
                                     /\ MergeCauses(hs)[k] = Merged(hs, i)
<1> DEFINE P == {i \in DOMAIN hs : \A j \in 1..i - 1 : hs[j].cause # hs[i].cause}
           q == Ascending(P)
           n == Cardinality(P)
           T == {i \in DOMAIN hs : hs[i].cause = hs[g].cause}
<1>1. DOMAIN hs = 1..Len(hs) /\ Len(hs) \in Nat /\ m \in Nat /\ m <= Len(hs) /\ g \in DOMAIN hs
  OBVIOUS
<1>2. P \in SUBSET Nat /\ IsFiniteSet(P)
  <2>1. IsFiniteSet(DOMAIN hs)
    BY <1>1, PlacesFinite
  <2> QED BY <1>1, <2>1, FS_Subset
<1>3. \A i, j \in P : i < j => hs[i].cause # hs[j].cause
  <2> SUFFICES ASSUME NEW i \in P, NEW j \in P, i < j PROVE hs[i].cause # hs[j].cause
    OBVIOUS
  <2>1. i \in 1..j - 1
    BY <1>2
  <2> QED BY <2>1
<1>4. \E i \in P : i <= g /\ hs[i].cause = hs[g].cause
  <2>1. T \in SUBSET Nat /\ T # {} /\ g \in T
    BY <1>1
  <2> HIDE DEF T
  <2>2. PICK i \in T : \A j \in T : i <= j
    BY <2>1, LeastNumber
  <2> USE DEF T
  <2>3. \A j \in 1..i - 1 : hs[j].cause # hs[i].cause
    <3> SUFFICES ASSUME NEW j \in 1..i - 1, hs[j].cause = hs[i].cause PROVE FALSE
      OBVIOUS
    <3>1. j \in T /\ i \in Nat /\ j < i
      BY <1>1, <2>2
    <3>2. i <= j
      BY <2>2, <3>1
    <3> QED BY <3>1, <3>2
  <2> QED BY <2>1, <2>2, <2>3
<1> HIDE DEF T
<1>5. PICK i \in P : i <= g /\ hs[i].cause = hs[g].cause
  BY <1>4
<1>6. MergeCauses(hs) = [k \in DOMAIN q |-> Merged(hs, q[k])]
  BY DEF MergeCauses
<1>7. P \subseteq DOMAIN hs
  OBVIOUS
<1> HIDE DEF P
<1>8. /\ n \in Nat /\ q \in [1..n -> P]
      /\ \A x \in P : \E k \in 1..n : q[k] = x
      /\ \A j, k \in 1..n : j < k => q[j] < q[k]
  BY <1>2, AscendingListed
<1> HIDE DEF q, n
<1>9. PICK k \in 1..n : q[k] = i
  BY <1>5, <1>8
<1>10. k <= 2
  <2> SUFFICES ASSUME k >= 3 PROVE FALSE
    BY <1>8
  <2>1. 1 \in 1..n /\ 2 \in 1..n /\ 1 < k /\ 2 < k
    BY <1>8
  <2>2. q[1] < q[2] /\ q[1] < i /\ q[2] < i
    BY <1>8, <1>9, <2>1
  <2>3. q[1] \in P /\ q[2] \in P
    BY <1>8, <2>1
  <2>4. /\ hs[q[1]].cause # hs[q[2]].cause
        /\ hs[q[1]].cause # hs[i].cause /\ hs[q[2]].cause # hs[i].cause
    BY <1>3, <1>5, <2>2, <2>3
  <2>5. q[1] \in 1..m /\ q[2] \in 1..m /\ i \in 1..m
    <3>1. q[1] \in 1..Len(hs) /\ q[2] \in 1..Len(hs) /\ i \in 1..Len(hs)
      BY <1>1, <1>5, <1>7, <2>3
    <3>2. g \in Nat /\ g <= m
      BY <1>1
    <3> QED BY <1>1, <1>5, <2>2, <3>1, <3>2
  <2> QED BY <2>4, <2>5
<1>11. DOMAIN MergeCauses(hs) = 1..n /\ MergeCauses(hs)[k] = Merged(hs, i)
  BY <1>6, <1>8, <1>9
<1> QED BY <1>5, <1>7, <1>10, <1>11

\* The merge begins with the cause of the first hypothesis.
LEMMA MergedHead ==
    ASSUME NEW hs \in Seq(Hypotheses), 1 \in DOMAIN hs
    PROVE  /\ MergeCauses(hs) \in Seq(Hypotheses) /\ 1 \in DOMAIN MergeCauses(hs)
           /\ MergeCauses(hs)[1].cause = hs[1].cause
<1> DEFINE mc == MergeCauses(hs)
           P == {i \in DOMAIN hs : \A j \in 1..i - 1 : hs[j].cause # hs[i].cause}
           q == Ascending(P)
           n == Cardinality(P)
<1>1. mc \in Seq(Hypotheses) /\ mc = [k \in DOMAIN q |-> Merged(hs, q[k])]
  BY MergedCauses DEF MergeCauses
<1>2. DOMAIN hs = 1..Len(hs) /\ Len(hs) \in Nat
  OBVIOUS
<1>3. P \in SUBSET Nat /\ IsFiniteSet(P)
  <2>1. IsFiniteSet(DOMAIN hs)
    BY <1>2, PlacesFinite
  <2> QED BY <1>2, <2>1, FS_Subset
<1>4. 1 \in P /\ \A x \in P : x \in DOMAIN hs /\ x >= 1
  BY <1>2
<1> HIDE DEF P, mc
<1>5. /\ n \in Nat /\ q \in [1..n -> P]
      /\ \A x \in P : \E k \in 1..n : q[k] = x
      /\ \A j, k \in 1..n : j < k => q[j] < q[k]
  BY <1>3, AscendingListed
<1> HIDE DEF q, n
<1>6. PICK k \in 1..n : q[k] = 1
  BY <1>4, <1>5
<1>7. k = 1
  <2> SUFFICES ASSUME 1 < k PROVE FALSE
    BY <1>5
  <2>1. 1 \in 1..n /\ q[1] < q[k]
    BY <1>5, <1>6
  <2>2. q[1] \in P
    BY <1>5, <2>1
  <2>3. q[1] \in Nat /\ q[1] >= 1
    BY <1>3, <1>4, <2>2
  <2> QED BY <1>6, <2>1, <2>3
<1>8. 1 \in DOMAIN mc /\ mc[1] = Merged(hs, 1)
  BY <1>1, <1>5, <1>6, <1>7
<1> QED BY <1>1, <1>8, MergedOf DEF mc

\* Picking elements at different places keeps the causes apart.
LEMMA DistinctPicked ==
    ASSUME NEW hs \in Seq(Hypotheses), DistinctCauses(hs),
           NEW t \in Seq(Hypotheses), NEW q \in [DOMAIN t -> DOMAIN hs],
           \A k \in DOMAIN t : t[k].cause = hs[q[k]].cause,
           \A j, k \in DOMAIN t : j # k => q[j] # q[k]
    PROVE  DistinctCauses(t)
BY DEF DistinctCauses

\* A filtered list of hypotheses.
LEMMA KeptHypotheses ==
    ASSUME NEW hs \in Seq(Hypotheses), DistinctCauses(hs), NEW P \in SUBSET DOMAIN hs
    PROVE  /\ At(hs, P) \in Seq(Hypotheses) /\ Len(At(hs, P)) <= Len(hs)
           /\ DistinctCauses(At(hs, P))
           /\ \A k \in DOMAIN At(hs, P) : \E i \in P : At(hs, P)[k] = hs[i]
           /\ \A i \in P : \E k \in DOMAIN At(hs, P) : At(hs, P)[k] = hs[i]
<1> DEFINE t == At(hs, P)
<1>1. t \in Seq(Hypotheses) /\ Len(t) <= Len(hs)
  BY AtListed
<1>2. PICK q : /\ Picks(t, hs, q, P)
               /\ \A j, k \in 1..Len(t) : j < k => q[j] < q[k]
  BY AtListed
<1> HIDE DEF t
<1>3. DOMAIN t = 1..Len(t) /\ Len(t) \in Nat
  BY <1>1
<1>4. q \in [DOMAIN t -> P] /\ \A k \in DOMAIN t : t[k] = hs[q[k]]
  BY <1>2, <1>3 DEF Picks
<1>5. \A j, k \in DOMAIN t : j # k => q[j] # q[k]
  <2> SUFFICES ASSUME NEW j \in 1..Len(t), NEW k \in 1..Len(t), j # k PROVE q[j] # q[k]
    BY <1>3
  <2>1. q[j] \in Nat /\ q[k] \in Nat
    BY <1>3, <1>4
  <2>2. q[j] < q[k] \/ q[k] < q[j]
    BY <1>2, <1>3
  <2> QED BY <2>1, <2>2
<1>6. q \in [DOMAIN t -> DOMAIN hs]
  BY <1>4
<1>7. DistinctCauses(t)
  BY <1>1, <1>4, <1>5, <1>6, DistinctPicked
<1>8. \A i \in P : \E k \in DOMAIN t : q[k] = i
  BY <1>2, <1>3 DEF Picks
<1> QED BY <1>1, <1>4, <1>7, <1>8 DEF t

\* Without the cause that a measured pool usage refutes.
LEMMA Uncontradicted ==
    ASSUME NEW hs \in Seq(Hypotheses), DistinctCauses(hs), NEW evidence
    PROVE  LET t == RemoveMetricContradicted(hs, evidence)
           IN  /\ t \in Seq(Hypotheses) /\ Len(t) <= Len(hs)
               /\ DistinctCauses(t)
               /\ \A k \in DOMAIN t : /\ \E i \in DOMAIN hs : t[k] = hs[i]
                                      /\ PoolIsLow(evidence) => t[k].cause # Pool
               /\ \A i \in DOMAIN hs : \/ PoolIsLow(evidence) /\ hs[i].cause = Pool
                                       \/ \E k \in DOMAIN t : t[k] = hs[i]
<1> DEFINE P == {i \in DOMAIN hs : hs[i].cause # Pool}
<1>1. CASE PoolIsLow(evidence)
  <2>1. RemoveMetricContradicted(hs, evidence) = At(hs, P)
    BY <1>1 DEF RemoveMetricContradicted
  <2>2. P \in SUBSET DOMAIN hs
    OBVIOUS
  <2>3. /\ At(hs, P) \in Seq(Hypotheses) /\ Len(At(hs, P)) <= Len(hs)
        /\ DistinctCauses(At(hs, P))
        /\ \A k \in DOMAIN At(hs, P) : \E i \in P : At(hs, P)[k] = hs[i]
        /\ \A i \in P : \E k \in DOMAIN At(hs, P) : At(hs, P)[k] = hs[i]
    BY <2>2, KeptHypotheses
  <2> DEFINE t == At(hs, P)
  <2>4. \A k \in DOMAIN t : (\E i \in DOMAIN hs : t[k] = hs[i]) /\ t[k].cause # Pool
    BY <2>3
  <2>5. \A i \in DOMAIN hs : hs[i].cause = Pool \/ \E k \in DOMAIN t : t[k] = hs[i]
    BY <2>3
  <2>6. t \in Seq(Hypotheses) /\ Len(t) <= Len(hs) /\ DistinctCauses(t)
    BY <2>3
  <2>7. RemoveMetricContradicted(hs, evidence) = t
    BY <2>1
  <2> HIDE DEF t
  <2> QED BY <1>1, <2>4, <2>5, <2>6, <2>7
<1>2. CASE ~PoolIsLow(evidence)
  BY <1>2 DEF RemoveMetricContradicted
<1> QED BY <1>1, <1>2

\* Numbers added to a list change nothing else.
LEMMA NumberedOf ==
    ASSUME NEW hs \in Seq(Hypotheses)
    PROVE  /\ Numbered(hs) \in Seq(Hypotheses) /\ Len(Numbered(hs)) = Len(hs)
           /\ DistinctCauses(hs) => DistinctCauses(Numbered(hs))
           /\ \A i \in DOMAIN hs : /\ Numbered(hs)[i].cause = hs[i].cause
                                   /\ Numbered(hs)[i].confidence = hs[i].confidence
                                   /\ Numbered(hs)[i].support = hs[i].support
                                   /\ Numbered(hs)[i].contra = hs[i].contra
                                   /\ Numbered(hs)[i].rank = i
<1>1. DOMAIN hs = 1..Len(hs) /\ Len(hs) \in Nat /\ \A i \in DOMAIN hs : hs[i] \in Hypotheses
  OBVIOUS
<1>2. Numbered(hs) = [i \in 1..Len(hs) |-> [hs[i] EXCEPT !.rank = i]]
  BY <1>1 DEF Numbered
<1>3. \A i \in 1..Len(hs) : /\ Numbered(hs)[i] \in Hypotheses
                            /\ Numbered(hs)[i].cause = hs[i].cause
                            /\ Numbered(hs)[i].confidence = hs[i].confidence
                            /\ Numbered(hs)[i].support = hs[i].support
                            /\ Numbered(hs)[i].contra = hs[i].contra
                            /\ Numbered(hs)[i].rank = i
  BY <1>1, <1>2 DEF Hypotheses
<1>4. Numbered(hs) \in Seq(Hypotheses) /\ Len(Numbered(hs)) = Len(hs)
  BY <1>1, <1>2, <1>3
<1>5. DistinctCauses(hs) => DistinctCauses(Numbered(hs))
  BY <1>1, <1>3, <1>4 DEF DistinctCauses
<1> QED BY <1>1, <1>3, <1>4, <1>5

\* The first elements of a list.
LEMMA TopThreeOf ==
    ASSUME NEW X, NEW s \in Seq(X)
    PROVE  /\ TopThree(s) \in Seq(X)
           /\ Len(TopThree(s)) = (IF Len(s) < 3 THEN Len(s) ELSE 3)
           /\ \A k \in DOMAIN TopThree(s) : k \in DOMAIN s /\ TopThree(s)[k] = s[k]
<1> DEFINE n == IF Len(s) < 3 THEN Len(s) ELSE 3
<1>1. Len(s) \in Nat /\ n \in Nat /\ n <= Len(s)
  OBVIOUS
<1>2. TopThree(s) = SubSeq(s, 1, n)
  BY DEF TopThree
<1> HIDE DEF n
<1>3. /\ SubSeq(s, 1, n) \in Seq(X) /\ Len(SubSeq(s, 1, n)) = n
      /\ \A k \in 1..n : SubSeq(s, 1, n)[k] = s[k]
  BY <1>1
<1> QED BY <1>1, <1>2, <1>3 DEF n

\* The place i comes before j: it has a lower key, or the same and stands first.
Leads(key, i, j) == key[i] < key[j] \/ (key[i] = key[j] /\ i < j)

\* t[k] is the element of s at the place q[k]; t is in the order of the keys,
\* and what is not in t comes after its three elements.
Selects(t, s, key, q) ==
    /\ q \in [DOMAIN t -> DOMAIN s]
    /\ \A k \in DOMAIN t : t[k] = s[q[k]]
    /\ \A j, k \in DOMAIN t : j < k => Leads(key, q[j], q[k])
    /\ \A i \in DOMAIN s : \/ \E k \in DOMAIN t : q[k] = i
                           \/ Len(t) = 3 /\ \A k \in DOMAIN t : Leads(key, q[k], i)

\* The three elements of a list with the least keys, in their order, and where
\* the keys are the same in the order before.
LEMMA LeastThree ==
    ASSUME NEW X, NEW s \in Seq(X), NEW key \in [DOMAIN s -> Nat]
    PROVE  LET t == TopThree(SortedBy(s, key))
           IN  /\ t \in Seq(X)
               /\ Len(t) = (IF Len(s) < 3 THEN Len(s) ELSE 3)
               /\ \E q : Selects(t, s, key, q)
<1> DEFINE r == SortedBy(s, key)
           t == TopThree(r)
           n == Len(s)
<1>1. DOMAIN s = 1..n /\ n \in Nat
  OBVIOUS
<1>2. r \in Seq(X) /\ Len(r) = n
  BY SortedListed
<1>3. PICK p : /\ Picks(r, s, p, DOMAIN s)
               /\ \A j, k \in 1..n : j < k => \/ key[p[j]] < key[p[k]]
                                              \/ key[p[j]] = key[p[k]] /\ p[j] < p[k]
  BY SortedListed
<1> HIDE DEF r
<1>4. /\ t \in Seq(X) /\ Len(t) = (IF n < 3 THEN n ELSE 3)
      /\ \A k \in DOMAIN t : t[k] = r[k]
  BY <1>2, TopThreeOf
<1> HIDE DEF t, n
<1>5. DOMAIN t = 1..Len(t) /\ Len(t) \in Nat /\ Len(t) <= n
  <2> t \in Seq(X)
    BY <1>4
  <2>1. DOMAIN t = 1..Len(t) /\ Len(t) \in Nat
    OBVIOUS
  <2>2. n \in Nat
    BY <1>1
  <2> QED BY <1>4, <2>1, <2>2
<1>6. \A k \in 1..n : p[k] \in DOMAIN s /\ r[k] = s[p[k]]
  BY <1>2, <1>3 DEF Picks
<1> DEFINE q == [k \in DOMAIN t |-> p[k]]
<1>7. q \in [DOMAIN t -> DOMAIN s] /\ \A k \in DOMAIN t : q[k] = p[k] /\ t[k] = s[q[k]]
  <2>1. \A k \in DOMAIN t : k \in 1..n
    BY <1>1, <1>5
  <2>2. \A k \in DOMAIN t : p[k] \in DOMAIN s /\ t[k] = s[p[k]]
    BY <1>4, <1>6, <2>1
  <2> QED BY <2>2
<1> HIDE DEF q
<1>8. \A j, k \in DOMAIN t : j < k => \/ key[q[j]] < key[q[k]]
                                      \/ key[q[j]] = key[q[k]] /\ q[j] < q[k]
  <2>1. \A k \in DOMAIN t : k \in 1..n /\ q[k] = p[k]
    BY <1>1, <1>5, <1>7
  <2> QED BY <1>3, <2>1
<1>9. ASSUME NEW i \in DOMAIN s, ~\E k \in DOMAIN t : q[k] = i
      PROVE  /\ Len(t) = 3
             /\ \A k \in DOMAIN t : \/ key[q[k]] < key[i]
                                    \/ key[q[k]] = key[i] /\ q[k] < i
  <2>1. PICK m \in 1..n : p[m] = i
    BY <1>2, <1>3 DEF Picks
  <2>2. m \notin DOMAIN t
    BY <1>7, <1>9, <2>1
  <2>3. Len(t) = 3 /\ m > 3
    BY <1>1, <1>4, <1>5, <2>2
  <2>4. \A k \in DOMAIN t : k \in 1..n /\ k < m
    BY <1>1, <1>5, <2>3
  <2>5. ASSUME NEW k \in DOMAIN t
        PROVE  key[q[k]] < key[i] \/ (key[q[k]] = key[i] /\ q[k] < i)
    <3>1. k \in 1..n /\ k < m /\ q[k] = p[k]
      BY <1>7, <2>4
    <3>2. key[p[k]] < key[p[m]] \/ (key[p[k]] = key[p[m]] /\ p[k] < p[m])
      BY <1>3, <3>1
    <3> QED BY <2>1, <3>1, <3>2
  <2> QED BY <2>3, <2>5
<1>10. Selects(t, s, key, q)
  BY <1>7, <1>8, <1>9 DEF Selects, Leads
<1> QED BY <1>4, <1>10 DEF t, r, n

\* A filter that keeps the first m elements leaves them in their places.
LEMMA PrefixKept ==
    ASSUME NEW X, NEW s \in Seq(X), NEW P \in SUBSET DOMAIN s, NEW m \in Nat, 1..m \subseteq P
    PROVE  m <= Len(At(s, P)) /\ \A i \in 1..m : At(s, P)[i] = s[i]
<1> DEFINE t == At(s, P)
<1>1. t \in Seq(X)
  BY AtListed
<1>2. PICK q : /\ Picks(t, s, q, P)
               /\ \A j, k \in 1..Len(t) : j < k => q[j] < q[k]
  BY AtListed
<1> HIDE DEF t
<1>3. DOMAIN s = 1..Len(s) /\ Len(s) \in Nat /\ Len(t) \in Nat
  BY <1>1
<1>4. \A k \in 1..Len(t) : q[k] \in P /\ q[k] \in Nat /\ q[k] >= 1
  BY <1>2, <1>3 DEF Picks
<1>5. \A i \in 1..m : i \in 1..Len(t) /\ q[i] = i
  <2> DEFINE wrong == {i \in 1..m : ~(i \in 1..Len(t) /\ q[i] = i)}
  <2> SUFFICES ASSUME wrong # {} PROVE FALSE
    OBVIOUS
  <2>1. PICK i \in wrong : \A j \in wrong : i <= j
    <3>1. wrong \in SUBSET Nat
      OBVIOUS
    <3> HIDE DEF wrong
    <3> QED BY <3>1, LeastNumber
  <2>2. i \in 1..m /\ ~(i \in 1..Len(t) /\ q[i] = i)
    BY <2>1
  <2>3. \A j \in 1..i - 1 : j \in 1..Len(t) /\ q[j] = j
    BY <2>1, <2>2
  <2> HIDE DEF wrong
  <2>4. PICK k \in 1..Len(t) : q[k] = i
    BY <1>2, <2>2 DEF Picks
  <2>5. i < k
    <3>1. CASE k < i
      BY <1>3, <2>2, <2>3, <2>4, <3>1
    <3>2. CASE k = i
      BY <2>2, <2>4, <3>2
    <3> QED BY <1>3, <2>2, <2>4, <3>1, <3>2
  <2>6. i \in 1..Len(t) /\ q[i] < i
    BY <1>2, <1>3, <2>2, <2>4, <2>5
  <2>7. q[q[i]] = q[i] /\ q[i] \in 1..Len(t)
    BY <1>4, <2>2, <2>3, <2>6
  <2>8. q[q[i]] < q[i]
    BY <1>2, <2>6, <2>7
  <2> QED BY <1>4, <2>6, <2>7, <2>8
<1>6. \A i \in 1..m : t[i] = s[i]
  BY <1>2, <1>5 DEF Picks
<1>7. m <= Len(t)
  BY <1>3, <1>5
<1> QED BY <1>6, <1>7 DEF t

\* t has the hypotheses of hs, t[k] that at the place p[k]: those with evidence
\* come first and in the order they had, and of the others only the confidence
\* changes.
Refiled(t, hs, p) ==
    /\ p \in [DOMAIN t -> DOMAIN hs]
    /\ \A i \in DOMAIN hs : \E k \in DOMAIN t : p[k] = i
    /\ \A j, k \in DOMAIN t : j # k => p[j] # p[k]
    /\ \A j, k \in DOMAIN t : j < k /\ Backed(t[k]) => Backed(t[j]) /\ p[j] < p[k]
    /\ \A k \in DOMAIN t :
          /\ t[k].cause = hs[p[k]].cause
          /\ t[k].support = hs[p[k]].support
          /\ t[k].contra = hs[p[k]].contra
          /\ t[k].rank = k
          /\ t[k].confidence = IF Backed(t[k]) THEN hs[p[k]].confidence ELSE "LOW"
    /\ hs # <<>> /\ Backed(hs[1]) => p[1] = 1

\* What filtering the hypotheses without evidence yields: none is lost.
LEMMA FilteredOf ==
    ASSUME NEW hs \in Seq(Hypotheses)
    PROVE  LET t == FilterWithoutEvidence(hs)
           IN  /\ t \in Seq(Hypotheses) /\ Len(t) = Len(hs)
               /\ \E p : Refiled(t, hs, p)
<1> DEFINE D == DOMAIN hs
           backed == {i \in D : Backed(hs[i])}
           others == D \ backed
           b == At(hs, backed)
           o == At(hs, others)
           low == [i \in DOMAIN o |-> [o[i] EXCEPT !.confidence = "LOW"]]
           l == b \o low
           t == FilterWithoutEvidence(hs)
           n == Len(hs)
           m == Len(b)
<1>1. D = 1..n /\ n \in Nat /\ \A i \in D : hs[i] \in Hypotheses
  OBVIOUS
<1>2. t = Numbered(l)
  BY DEF FilterWithoutEvidence
<1>3. backed \in SUBSET D /\ others \in SUBSET D /\ \A i \in D : i \in backed <=> Backed(hs[i])
  OBVIOUS
<1> HIDE DEF backed
<1>4. \A i \in D : i \in others <=> i \notin backed
  OBVIOUS
<1>5. Cardinality(backed) \in Nat /\ Cardinality(backed) + Cardinality(others) = n
  <2>1. IsFiniteSet(D) /\ Cardinality(D) = n
    BY <1>1, PlacesFinite
  <2>2. IsFiniteSet(backed) /\ Cardinality(backed) \in Nat
    BY <1>3, <2>1, FS_Subset, FS_CardinalityType
  <2>3. D \cap backed = backed
    BY <1>3
  <2>4. others = D \ backed
    BY <1>3
  <2>5. Cardinality(D \ backed) = Cardinality(D) - Cardinality(D \cap backed)
    BY <2>1, FS_Difference
  <2>6. Cardinality(others) = n - Cardinality(backed)
    BY <2>1, <2>3, <2>4, <2>5
  <2> DEFINE x == Cardinality(backed)
             y == Cardinality(others)
  <2>7. x \in Nat /\ y = n - x
    BY <2>2, <2>6
  <2> HIDE DEF x, y
  <2>8. x + y = n
    BY <1>1, <2>7
  <2> QED BY <2>7, <2>8 DEF x, y
<1> HIDE DEF others
<1>6. b \in Seq(Hypotheses) /\ o \in Seq(Hypotheses)
  BY <1>3, AtListed
<1>7. PICK qb : Picks(b, hs, qb, backed) /\ \A j, k \in 1..m : j < k => qb[j] < qb[k]
  BY <1>3, AtListed
<1>8. PICK qo : Picks(o, hs, qo, others)
  BY <1>3, AtListed
<1> HIDE DEF b, o
<1>9. m \in Nat /\ Len(o) \in Nat /\ m + Len(o) = n
  BY <1>5, <1>6, <1>7, <1>8 DEF Picks
<1>10. DOMAIN b = 1..m /\ DOMAIN o = 1..Len(o)
  BY <1>6
<1>11. \A i \in 1..Len(o) : o[i] \in Hypotheses
  BY <1>6
<1>12. \A i \in 1..Len(o) : /\ low[i] \in Hypotheses
                            /\ low[i].cause = o[i].cause
                            /\ low[i].support = o[i].support
                            /\ low[i].contra = o[i].contra
                            /\ low[i].confidence = "LOW"
  BY <1>10, <1>11 DEF Hypotheses, Confidence
<1>13. low \in Seq(Hypotheses) /\ Len(low) = Len(o)
  BY <1>9, <1>10, <1>12
<1> HIDE DEF low
<1>14. l \in Seq(Hypotheses) /\ Len(l) = n
  BY <1>6, <1>9, <1>13
<1>15. \A k \in 1..n : l[k] = IF k <= m THEN b[k] ELSE low[k - m]
  BY <1>6, <1>9, <1>13
<1> HIDE DEF l
<1>16. t \in Seq(Hypotheses) /\ Len(t) = n /\ DOMAIN t = 1..n
  BY <1>1, <1>2, <1>14, NumberedOf
<1>17. \A k \in 1..n : /\ t[k].cause = l[k].cause
                       /\ t[k].confidence = l[k].confidence
                       /\ t[k].support = l[k].support
                       /\ t[k].contra = l[k].contra
                       /\ t[k].rank = k
  BY <1>2, <1>14, NumberedOf
<1> HIDE DEF t
<1> DEFINE p == [k \in 1..n |-> IF k <= m THEN qb[k] ELSE qo[k - m]]
<1>18. \A k \in 1..m : k \in 1..n /\ qb[k] \in backed /\ b[k] = hs[qb[k]] /\ p[k] = qb[k]
  BY <1>7, <1>9 DEF Picks
<1>19. ASSUME NEW k \in 1..n, ~(k <= m)
       PROVE  k - m \in 1..Len(o) /\ qo[k - m] \in others /\ o[k - m] = hs[qo[k - m]] /\ p[k] = qo[k - m]
  <2>1. k - m \in 1..Len(o)
    BY <1>1, <1>9, <1>19
  <2> QED BY <1>8, <1>19, <2>1 DEF Picks
<1> HIDE DEF p
<1>20. ASSUME NEW k \in 1..n
       PROVE  /\ p[k] \in D
              /\ Backed(t[k]) <=> k <= m
              /\ p[k] \in backed <=> k <= m
              /\ t[k].cause = hs[p[k]].cause
              /\ t[k].support = hs[p[k]].support
              /\ t[k].contra = hs[p[k]].contra
              /\ t[k].confidence = IF Backed(t[k]) THEN hs[p[k]].confidence ELSE "LOW"
  <2>1. CASE k <= m
    <3>1. k \in 1..m
      BY <1>9, <2>1
    <3>2. p[k] \in backed /\ l[k] = hs[p[k]]
      BY <1>15, <1>18, <2>1, <3>1
    <3> QED BY <1>3, <1>17, <2>1, <3>2 DEF Backed
  <2>2. CASE ~(k <= m)
    <3>1. /\ k - m \in 1..Len(o) /\ p[k] \in others
          /\ o[k - m] = hs[p[k]] /\ l[k] = low[k - m]
      BY <1>15, <1>19, <2>2
    <3> QED BY <1>3, <1>4, <1>12, <1>17, <2>2, <3>1 DEF Backed
  <2> QED BY <2>1, <2>2
<1>21. \A i \in D : \E k \in 1..n : p[k] = i
  <2> SUFFICES ASSUME NEW i \in D PROVE \E k \in 1..n : p[k] = i
    OBVIOUS
  <2>1. CASE i \in backed
    BY <1>7, <1>18, <2>1 DEF Picks
  <2>2. CASE i \notin backed
    <3>1. PICK j \in 1..Len(o) : qo[j] = i
      BY <1>4, <1>8, <2>2 DEF Picks
    <3>2. j + m \in 1..n /\ ~(j + m <= m) /\ (j + m) - m = j
      BY <1>9
    <3> QED BY <1>19, <3>1, <3>2
  <2> QED BY <2>1, <2>2
<1>22. p \in [1..n -> D]
  BY <1>20 DEF p
<1>23. \A j, k \in 1..n : j # k => p[j] # p[k]
  <2>1. IsFiniteSet(1..n) /\ Cardinality(1..n) = n
    BY <1>1, PlacesFinite
  <2>2. p \in Surjection(1..n, D)
    BY <1>21, <1>22 DEF Surjection
  <2>3. p \in Injection(1..n, D)
    BY <1>1, <2>1, <2>2, FS_Surjection
  <2> QED BY <2>3 DEF Injection, IsInjective
<1>24. ASSUME NEW j \in 1..n, NEW k \in 1..n, j < k, Backed(t[k])
       PROVE  Backed(t[j]) /\ p[j] < p[k]
  <2>1. j \in 1..m /\ k \in 1..m
    BY <1>9, <1>20, <1>24
  <2> QED BY <1>7, <1>9, <1>18, <1>20, <1>24, <2>1
<1>25. ASSUME hs # <<>>, Backed(hs[1]) PROVE p[1] = 1
  <2>1. 1 \in D
    BY <1>1, <1>25
  <2>2. PICK k \in 1..n : p[k] = 1
    BY <1>21, <2>1
  <2>3. k <= m
    BY <1>3, <1>20, <1>25, <2>1, <2>2
  <2>4. CASE k > 1
    <3>1. 1 \in 1..n /\ Backed(t[k]) /\ 1 < k
      BY <1>1, <1>20, <2>3, <2>4
    <3>2. p[1] < p[k] /\ p[1] \in 1..n
      BY <1>1, <1>20, <1>24, <3>1
    <3> QED BY <1>1, <2>2, <3>2
  <2>5. CASE ~(k > 1)
    <3>1. k = 1
      BY <1>1, <2>5
    <3> QED BY <2>2, <3>1
  <2> QED BY <2>4, <2>5
<1>26. Refiled(t, hs, p)
  <2>1. /\ p \in [DOMAIN t -> DOMAIN hs]
        /\ \A i \in DOMAIN hs : \E k \in DOMAIN t : p[k] = i
        /\ \A j, k \in DOMAIN t : j # k => p[j] # p[k]
    BY <1>16, <1>21, <1>22, <1>23
  <2>2. \A j, k \in DOMAIN t : j < k /\ Backed(t[k]) => Backed(t[j]) /\ p[j] < p[k]
    BY <1>16, <1>24
  <2> QED BY <1>16, <1>17, <1>20, <1>25, <2>1, <2>2 DEF Refiled
<1> QED BY <1>16, <1>26 DEF t, n

\* Only the references to collected evidence are left.
LEMMA ReferencesDropped ==
    ASSUME NEW hs \in Seq(Hypotheses), NEW evidence
    PROVE  LET t == DropUnknownReferences(hs, evidence)
           IN  /\ t \in Seq(Hypotheses) /\ Len(t) = Len(hs) /\ DOMAIN t = DOMAIN hs
               /\ DistinctCauses(hs) => DistinctCauses(t)
               /\ \A i \in DOMAIN hs : /\ t[i].cause = hs[i].cause
                                       /\ t[i].confidence = hs[i].confidence
                                       /\ t[i].support = hs[i].support \cap Ids(evidence)
                                       /\ t[i].contra = hs[i].contra \cap Ids(evidence)
<1> DEFINE t == DropUnknownReferences(hs, evidence)
<1>1. DOMAIN hs = 1..Len(hs) /\ Len(hs) \in Nat /\ \A i \in DOMAIN hs : hs[i] \in Hypotheses
  OBVIOUS
<1>2. t = [i \in 1..Len(hs) |-> [hs[i] EXCEPT !.support = @ \cap Ids(evidence),
                                              !.contra = @ \cap Ids(evidence)]]
  BY <1>1 DEF DropUnknownReferences
<1> HIDE DEF t
<1>3. \A i \in 1..Len(hs) : /\ t[i] \in Hypotheses
                            /\ t[i].cause = hs[i].cause
                            /\ t[i].confidence = hs[i].confidence
                            /\ t[i].support = hs[i].support \cap Ids(evidence)
                            /\ t[i].contra = hs[i].contra \cap Ids(evidence)
  BY <1>1, <1>2 DEF Hypotheses
<1>4. t \in Seq(Hypotheses) /\ Len(t) = Len(hs) /\ DOMAIN t = DOMAIN hs
  <2>1. t = [i \in 1..Len(hs) |-> t[i]]
    BY <1>2
  <2> QED BY <1>1, <1>3, <2>1
<1>5. DistinctCauses(hs) => DistinctCauses(t)
  BY <1>1, <1>3, <1>4 DEF DistinctCauses
<1> QED BY <1>1, <1>3, <1>4, <1>5 DEF t

\* The hypotheses stand in the order of their ranks, with different causes, and
\* those with evidence first.
Ranked(hs) ==
    \A i, j \in DOMAIN hs :
        /\ hs[i].rank = i
        /\ i < j => hs[i].cause # hs[j].cause /\ (Backed(hs[j]) => Backed(hs[i]))

\* What the validation of the evidence yields: hypotheses of the same causes
\* that can be reported.
LEMMA ValidatedOf ==
    ASSUME NEW hs \in Seq(Hypotheses), DistinctCauses(hs), NEW evidence
    PROVE  LET t == FilterWithoutEvidence(DropUnknownReferences(hs, evidence))
           IN  /\ t \in Seq(Hypotheses) /\ Len(t) = Len(hs)
               /\ DistinctCauses(t)
               /\ Ranked(t)
               /\ FullyTraceable(t, evidence)
<1> DEFINE d == DropUnknownReferences(hs, evidence)
           t == FilterWithoutEvidence(d)
<1>1. /\ d \in Seq(Hypotheses) /\ Len(d) = Len(hs)
      /\ DistinctCauses(d)
      /\ \A i \in DOMAIN d : d[i].support \cup d[i].contra \subseteq Ids(evidence)
  BY ReferencesDropped
<1> HIDE DEF d
<1>2. t \in Seq(Hypotheses) /\ Len(t) = Len(d)
  BY <1>1, FilteredOf
<1>3. PICK p : Refiled(t, d, p)
  BY <1>1, FilteredOf
<1> HIDE DEF t
<1>4. DistinctCauses(t)
  <2>1. /\ p \in [DOMAIN t -> DOMAIN d]
        /\ \A k \in DOMAIN t : t[k].cause = d[p[k]].cause
        /\ \A j, k \in DOMAIN t : j # k => p[j] # p[k]
    BY <1>3 DEF Refiled
  <2> QED BY <1>1, <1>2, <2>1, DistinctPicked
<1>5. Ranked(t)
  <2>1. DOMAIN t \in SUBSET Nat
    BY <1>2
  <2>2. \A i, j \in DOMAIN t : i < j => t[i].cause # t[j].cause
    BY <1>4, <2>1 DEF DistinctCauses
  <2> QED BY <1>3, <2>2 DEF Ranked, Refiled
<1>6. FullyTraceable(t, evidence)
  BY <1>1, <1>3 DEF FullyTraceable, Refiled
<1> QED BY <1>1, <1>2, <1>4, <1>5, <1>6 DEF t, d
=============================================================================
