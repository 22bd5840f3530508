--------------------------- MODULE OrderingProofs ---------------------------
(***************************************************************************)
(* What the list operators of Ordering return, for any lists.              *)
(***************************************************************************)
EXTENDS Ordering, FiniteSetTheorems, WellFoundedInduction, TLAPS

\* before is a strict total order of S.
StrictlyOrders(before, S) ==
    /\ \A x \in S : <<x, x>> \notin before
    /\ \A x, y \in S : x # y => <<x, y>> \in before \/ <<y, x>> \in before
    /\ \A x, y, z \in S : <<x, y>> \in before /\ <<y, z>> \in before => <<x, z>> \in before

\* q lists the elements of S, each once, in the order before.
Lists(q, S, before) ==
    /\ Cardinality(S) \in Nat
    /\ q \in [1..Cardinality(S) -> S]
    /\ \A x \in S : \E k \in 1..Cardinality(S) : q[k] = x
    /\ \A j, k \in 1..Cardinality(S) : j < k => <<q[j], q[k]>> \in before

\* InOrder lists a finite set that is strictly ordered.
LEMMA OrderListed ==
    ASSUME NEW S, IsFiniteSet(S), NEW before, StrictlyOrders(before, S)
    PROVE  Lists(InOrder(S, before), S, before)
<1> DEFINE n == Cardinality(S)
           Below(x) == {y \in S : <<y, x>> \in before}
           Place(x) == Cardinality(Below(x)) + 1
           q == InOrder(S, before)
<1>1. n \in Nat
  BY FS_CardinalityType
<1>2. \A x \in S : IsFiniteSet(Below(x)) /\ Cardinality(Below(x)) \in Nat
  BY FS_Subset, FS_CardinalityType
<1>3. ASSUME NEW x \in S, NEW T \in SUBSET S, IsFiniteSet(T), Cardinality(T) \in Nat,
             Below(x) \cup {x} \subseteq T
      PROVE  Cardinality(Below(x)) < Cardinality(T)
  <2>1. x \notin Below(x)
    BY DEF StrictlyOrders
  <2>2. /\ IsFiniteSet(Below(x) \cup {x})
        /\ Cardinality(Below(x) \cup {x}) = Cardinality(Below(x)) + 1
    BY <1>2, <2>1, FS_AddElement
  <2>3. Cardinality(Below(x) \cup {x}) <= Cardinality(T)
    BY <1>3, FS_Subset
  <2> QED BY <1>2, <1>3, <2>2, <2>3
<1>4. \A x \in S : Place(x) \in 1..n
  BY <1>1, <1>2, <1>3
<1>5. ASSUME NEW x \in S, NEW y \in S, <<x, y>> \in before
      PROVE  Place(x) < Place(y)
  <2>1. Below(x) \cup {x} \subseteq Below(y)
    <3>1. x \in Below(y)
      BY <1>5
    <3>2. ASSUME NEW z \in Below(x) PROVE z \in Below(y)
      <4>1. z \in S /\ <<z, x>> \in before
        OBVIOUS
      <4>2. <<z, y>> \in before
        BY <1>5, <4>1 DEF StrictlyOrders
      <4> QED BY <4>1, <4>2
    <3> QED BY <3>1, <3>2
  <2>2. Cardinality(Below(x)) < Cardinality(Below(y))
    BY <1>2, <1>3, <2>1
  <2>3. Cardinality(Below(x)) \in Nat /\ Cardinality(Below(y)) \in Nat
    BY <1>2
  <2> HIDE DEF Below
  <2> QED BY <2>2, <2>3
<1>6. \A x, y \in S : Place(x) = Place(y) => x = y
  <2> SUFFICES ASSUME NEW x \in S, NEW y \in S, x # y PROVE Place(x) # Place(y)
    OBVIOUS
  <2>1. Place(x) \in Nat /\ Place(y) \in Nat
    BY <1>1, <1>4
  <2>2. <<x, y>> \in before \/ <<y, x>> \in before
    BY DEF StrictlyOrders
  <2>3. Place(x) < Place(y) \/ Place(y) < Place(x)
    <3> HIDE DEF Place
    <3> QED BY <1>5, <2>2
  <2> HIDE DEF Place
  <2> QED BY <2>1, <2>3
<1> DEFINE f == [x \in S |-> Place(x)]
<1>7. f \in Injection(S, 1..n)
  BY <1>4, <1>6 DEF Injection, IsInjective
<1>8. IsFiniteSet(1..n) /\ Cardinality(1..n) = n
  BY <1>1, FS_Interval
<1>9. f \in Surjection(S, 1..n)
  BY <1>7, <1>8, FS_Injection
<1>10. \A k \in 1..n : \E x \in S : Place(x) = k
  BY <1>9 DEF Surjection
<1>11. q = [k \in 1..n |-> CHOOSE x \in S : Place(x) = k]
  BY DEF InOrder
<1> HIDE DEF Place, q, f, n
<1>12. \A k \in 1..n : q[k] \in S /\ Place(q[k]) = k
  BY <1>10, <1>11
<1>13. q \in [1..n -> S]
  BY <1>11, <1>12
<1>14. \A x \in S : q[Place(x)] = x
  BY <1>4, <1>6, <1>12
<1>15. \A j, k \in 1..n : j < k => <<q[j], q[k]>> \in before
  <2> SUFFICES ASSUME NEW j \in 1..n, NEW k \in 1..n, j < k PROVE <<q[j], q[k]>> \in before
    OBVIOUS
  <2>1. q[j] # q[k]
    BY <1>1, <1>12
  <2>2. <<q[k], q[j]>> \notin before
    BY <1>1, <1>5, <1>12
  <2> QED BY <1>12, <2>1, <2>2 DEF StrictlyOrders
<1> QED BY <1>1, <1>4, <1>13, <1>14, <1>15 DEF Lists, n, q

\* A set of numbers has a least one.
LEMMA LeastNumber ==
    ASSUME NEW T \in SUBSET Nat, T # {}
    PROVE  \E m \in T : \A n \in T : m <= n
<1> DEFINE less == OpToRel(<, Nat)
<1>1. \A m, n \in Nat : m < n => <<m, n>> \in less
  BY DEF OpToRel
<1>2. \E m \in T : \A n \in T : <<n, m>> \notin less
  <2> HIDE DEF less
  <2> QED BY NatLessThanWellFounded, WFMin DEF less
<1> HIDE DEF less
<1>3. PICK m \in T : \A n \in T : <<n, m>> \notin less
  BY <1>2
<1>4. \A n \in T : ~(n < m)
  BY <1>1, <1>3
<1> QED BY <1>4

\* The numbers 1 to n are n numbers.
LEMMA PlacesFinite ==
    ASSUME NEW n \in Nat
    PROVE  IsFiniteSet(1..n) /\ Cardinality(1..n) = n
BY FS_Interval

\* Places in ascending order.
LEMMA AscendingListed ==
    ASSUME NEW P \in SUBSET Nat, IsFiniteSet(P)
    PROVE  /\ Cardinality(P) \in Nat
           /\ Ascending(P) \in [1..Cardinality(P) -> P]
           /\ \A x \in P : \E k \in 1..Cardinality(P) : Ascending(P)[k] = x
           /\ \A j, k \in 1..Cardinality(P) : j < k => Ascending(P)[j] < Ascending(P)[k]
<1> DEFINE less == {p \in P \X P : p[1] < p[2]}
<1>1. \A x, y \in P : <<x, y>> \in less <=> x < y
  OBVIOUS
<1>2. Ascending(P) = InOrder(P, less)
  BY DEF Ascending
<1> HIDE DEF less
<1>3. StrictlyOrders(less, P)
  BY <1>1 DEF StrictlyOrders
<1>4. Lists(Ascending(P), P, less)
  BY <1>2, <1>3, OrderListed
<1> QED BY <1>1, <1>4 DEF Lists

\* t holds the elements of s at the places q[1], q[2], ...
Picks(t, s, q, P) ==
    /\ Len(t) = Cardinality(P)
    /\ q \in [1..Len(t) -> P]
    /\ \A k \in 1..Len(t) : t[k] = s[q[k]]
    /\ \A x \in P : \E k \in 1..Len(t) : q[k] = x

\* A filtered list: the elements at the places P, in their order.
LEMMA AtListed ==
    ASSUME NEW X, NEW s \in Seq(X), NEW P \in SUBSET DOMAIN s
    PROVE  /\ At(s, P) \in Seq(X)
           /\ IsFiniteSet(P) /\ Len(At(s, P)) <= Len(s)
           /\ \E q : /\ Picks(At(s, P), s, q, P)
                    /\ \A j, k \in 1..Len(At(s, P)) : j < k => q[j] < q[k]
<1>1. DOMAIN s = 1..Len(s) /\ Len(s) \in Nat
  OBVIOUS
<1>2. IsFiniteSet(DOMAIN s) /\ Cardinality(DOMAIN s) = Len(s)
  BY <1>1, PlacesFinite
<1>3. IsFiniteSet(P) /\ Cardinality(P) <= Len(s)
  BY <1>2, FS_Subset
<1>4. P \in SUBSET Nat
  BY <1>1
<1> DEFINE q == Ascending(P)
           n == Cardinality(P)
<1>5. /\ n \in Nat /\ q \in [1..n -> P]
      /\ \A x \in P : \E k \in 1..n : q[k] = x
      /\ \A j, k \in 1..n : j < k => q[j] < q[k]
  BY <1>3, <1>4, AscendingListed
<1>6. At(s, P) = [k \in 1..n |-> s[q[k]]]
  BY <1>5 DEF At
<1> HIDE DEF q, n
<1>7. At(s, P) \in Seq(X) /\ Len(At(s, P)) = n
  BY <1>1, <1>5, <1>6
<1>8. Picks(At(s, P), s, q, P)
  BY <1>5, <1>6, <1>7 DEF Picks, n
<1> QED BY <1>3, <1>5, <1>7, <1>8 DEF n

\* A sorted list: a permutation in the order of the keys, and where these are
\* the same in the order before.
LEMMA SortedListed ==
    ASSUME NEW X, NEW s \in Seq(X), NEW key \in [DOMAIN s -> Nat]
    PROVE  /\ SortedBy(s, key) \in Seq(X) /\ Len(SortedBy(s, key)) = Len(s)
           /\ \E q : /\ Picks(SortedBy(s, key), s, q, DOMAIN s)
                    /\ \A j, k \in 1..Len(s) : j < k =>
                          \/ key[q[j]] < key[q[k]]
                          \/ key[q[j]] = key[q[k]] /\ q[j] < q[k]
<1> DEFINE D == DOMAIN s
           before == {p \in D \X D : \/ key[p[1]] < key[p[2]]
                                     \/ key[p[1]] = key[p[2]] /\ p[1] < p[2]}
           q == InOrder(D, before)
           n == Len(s)
<1>1. D = 1..n /\ n \in Nat
  OBVIOUS
<1>2. IsFiniteSet(D) /\ Cardinality(D) = n
  BY <1>1, PlacesFinite
<1>3. \A x, y \in D : <<x, y>> \in before <=> key[x] < key[y] \/ (key[x] = key[y] /\ x < y)
  OBVIOUS
<1>4. SortedBy(s, key) = [k \in DOMAIN q |-> s[q[k]]]
  BY DEF SortedBy
<1>5. \A x \in D : key[x] \in Nat
  OBVIOUS
<1> HIDE DEF before
<1>6. StrictlyOrders(before, D)
  BY <1>1, <1>3, <1>5 DEF StrictlyOrders
<1>7. Lists(q, D, before)
  BY <1>2, <1>6, OrderListed
<1> HIDE DEF q
<1>8. SortedBy(s, key) = [k \in 1..n |-> s[q[k]]] /\ q \in [1..n -> D]
  BY <1>2, <1>4, <1>7 DEF Lists
<1>9. SortedBy(s, key) \in Seq(X) /\ Len(SortedBy(s, key)) = n
  BY <1>1, <1>8
<1>10. Picks(SortedBy(s, key), s, q, D)
  BY <1>2, <1>7, <1>8, <1>9 DEF Lists, Picks
<1>11. \A j, k \in 1..n : j < k => \/ key[q[j]] < key[q[k]]
                                   \/ key[q[j]] = key[q[k]] /\ q[j] < q[k]
  BY <1>2, <1>3, <1>7 DEF Lists
<1> QED BY <1>9, <1>10, <1>11

\* t[k] is the element of the list ss[p[k][1]] at the place p[k][2], in the order
\* of the lists and of their elements.
Lines(t, ss, p) ==
    /\ \A k \in DOMAIN t : /\ p[k][1] \in DOMAIN ss /\ p[k][2] \in DOMAIN ss[p[k][1]]
                           /\ t[k] = ss[p[k][1]][p[k][2]]
    /\ \A i \in DOMAIN ss : \A j \in DOMAIN ss[i] : \E k \in DOMAIN t : p[k] = <<i, j>>
    /\ \A j, k \in DOMAIN t : j < k => \/ p[j][1] < p[k][1]
                                       \/ p[j][1] = p[k][1] /\ p[j][2] < p[k][2]

\* Lists in one: nothing is lost and nothing is added.
LEMMA FlattenedListed ==
    ASSUME NEW X, NEW ss \in Seq(Seq(X))
    PROVE  /\ Flattened(ss) \in Seq(X)
           /\ \A k \in DOMAIN Flattened(ss) :
                 \E i \in DOMAIN ss : \E j \in DOMAIN ss[i] : Flattened(ss)[k] = ss[i][j]
           /\ \A i \in DOMAIN ss : \A j \in DOMAIN ss[i] :
                 \E k \in DOMAIN Flattened(ss) : Flattened(ss)[k] = ss[i][j]
           /\ \E p : Lines(Flattened(ss), ss, p)
<1> DEFINE places == UNION {{i} \X (DOMAIN ss[i]) : i \in DOMAIN ss}
           before == {p \in places \X places : \/ p[1][1] < p[2][1]
                                               \/ p[1][1] = p[2][1] /\ p[1][2] < p[2][2]}
           q == InOrder(places, before)
           n == Cardinality(places)
<1>1. \A i \in DOMAIN ss : ss[i] \in Seq(X) /\ DOMAIN ss[i] = 1..Len(ss[i]) /\ Len(ss[i]) \in Nat
  OBVIOUS
<1>2. DOMAIN ss = 1..Len(ss) /\ Len(ss) \in Nat
  OBVIOUS
<1>3. IsFiniteSet(places)
  <2> DEFINE part(i) == {i} \X (DOMAIN ss[i])
             parts == {part(i) : i \in DOMAIN ss}
  <2>1. ASSUME NEW i \in DOMAIN ss PROVE IsFiniteSet(part(i))
    <3>1. IsFiniteSet(DOMAIN ss[i])
      BY <1>1, PlacesFinite
    <3>2. IsFiniteSet({i})
      BY FS_Singleton
    <3> QED BY <3>1, <3>2, FS_Product
  <2>2. IsFiniteSet(DOMAIN ss)
    BY <1>2, PlacesFinite
  <2>3. [i \in DOMAIN ss |-> part(i)] \in Surjection(DOMAIN ss, parts)
    BY DEF Surjection
  <2>4. IsFiniteSet(parts)
    BY <2>2, <2>3, FS_Surjection
  <2>5. \A T \in parts : IsFiniteSet(T)
    BY <2>1
  <2>6. places = UNION parts
    OBVIOUS
  <2> HIDE DEF parts, places
  <2> QED BY <2>4, <2>5, <2>6, FS_UNION
<1>4. \A x : x \in places <=> \E i \in DOMAIN ss : \E j \in DOMAIN ss[i] : x = <<i, j>>
  OBVIOUS
<1> HIDE DEF places
<1>5. \A x \in places : x[1] \in Nat /\ x[2] \in Nat /\ x = <<x[1], x[2]>>
  BY <1>1, <1>2, <1>4
<1>6. \A x, y \in places : <<x, y>> \in before <=> x[1] < y[1] \/ (x[1] = y[1] /\ x[2] < y[2])
  OBVIOUS
<1>7. Flattened(ss) = [k \in DOMAIN q |-> ss[q[k][1]][q[k][2]]]
  BY DEF Flattened, places
<1> HIDE DEF before
<1>8. StrictlyOrders(before, places)
  BY <1>5, <1>6 DEF StrictlyOrders
<1>9. Lists(q, places, before)
  BY <1>3, <1>8, OrderListed
<1> HIDE DEF q
<1>10. n \in Nat /\ q \in [1..n -> places]
  BY <1>9 DEF Lists
<1>11. Flattened(ss) = [k \in 1..n |-> ss[q[k][1]][q[k][2]]]
  BY <1>7, <1>10
<1>12. \A k \in 1..n : \E i \in DOMAIN ss : \E j \in DOMAIN ss[i] : q[k] = <<i, j>>
  BY <1>4, <1>10
<1>13. \A k \in 1..n : Flattened(ss)[k] \in X
  BY <1>1, <1>11, <1>12
<1>14. Flattened(ss) \in Seq(X) /\ DOMAIN Flattened(ss) = 1..n
  BY <1>10, <1>11, <1>13
<1>15. \A i \in DOMAIN ss : \A j \in DOMAIN ss[i] : \E k \in 1..n : q[k] = <<i, j>>
  BY <1>4, <1>9 DEF Lists
<1>16. ASSUME NEW k \in 1..n
       PROVE  \E i \in DOMAIN ss : \E j \in DOMAIN ss[i] : Flattened(ss)[k] = ss[i][j]
  <2>1. PICK i \in DOMAIN ss : \E j \in DOMAIN ss[i] : q[k] = <<i, j>>
    BY <1>12
  <2>2. PICK j \in DOMAIN ss[i] : q[k] = <<i, j>>
    BY <2>1
  <2>3. Flattened(ss)[k] = ss[i][j]
    BY <1>11, <2>2
  <2> QED BY <2>3
<1>17. ASSUME NEW i \in DOMAIN ss, NEW j \in DOMAIN ss[i]
       PROVE  \E k \in 1..n : Flattened(ss)[k] = ss[i][j]
  <2>1. PICK k \in 1..n : q[k] = <<i, j>>
    BY <1>15
  <2>2. Flattened(ss)[k] = ss[i][j]
    BY <1>11, <2>1
  <2> QED BY <2>2
<1>18. Lines(Flattened(ss), ss, q)
  <2>1. \A j, k \in 1..n : j < k => \/ q[j][1] < q[k][1]
                                    \/ q[j][1] = q[k][1] /\ q[j][2] < q[k][2]
    BY <1>6, <1>9, <1>10 DEF Lists
  <2>2. ASSUME NEW k \in 1..n
        PROVE  /\ q[k][1] \in DOMAIN ss /\ q[k][2] \in DOMAIN ss[q[k][1]]
               /\ Flattened(ss)[k] = ss[q[k][1]][q[k][2]]
    BY <1>11, <1>12
  <2> QED BY <1>14, <1>15, <2>1, <2>2 DEF Lines
<1> DEFINE all == Flattened(ss)
<1>19. DOMAIN all = 1..n /\ Lines(all, ss, q)
  BY <1>14, <1>18
<1>20. \A k \in 1..n : \E i \in DOMAIN ss : \E j \in DOMAIN ss[i] : all[k] = ss[i][j]
  BY <1>16
<1>21. \A i \in DOMAIN ss : \A j \in DOMAIN ss[i] : \E k \in 1..n : all[k] = ss[i][j]
  BY <1>17
<1>22. all \in Seq(X)
  BY <1>14
<1> HIDE DEF all, q, n
<1>23. \E p : Lines(all, ss, p)
  BY <1>19
<1>24. \A k \in DOMAIN all : \E i \in DOMAIN ss : \E j \in DOMAIN ss[i] : all[k] = ss[i][j]
  BY <1>19, <1>20
<1>25. \A i \in DOMAIN ss : \A j \in DOMAIN ss[i] : \E k \in DOMAIN all : all[k] = ss[i][j]
  BY <1>19, <1>21
<1> QED BY <1>22, <1>23, <1>24, <1>25 DEF all
=============================================================================
