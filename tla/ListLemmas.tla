----------------------------- MODULE ListLemmas -----------------------------
(***************************************************************************)
(* Facts about numbers and sequences that the proofs of several components *)
(* need: a least element, which stands for induction, and what Min and Max *)
(* choose.                                                                 *)
(***************************************************************************)
EXTENDS ListFilter, Integers, SequencesExt, SequenceTheorems, FiniteSetTheorems, TLAPS

\* Every set of natural numbers has a least element.  If one had none, the numbers
\* below all of it would be closed under + 1, and adding 1 would inject those up to
\* one of its elements into themselves without 0.
LEMMA LeastNatural ==
  ASSUME NEW S, S \subseteq Nat, S # {}
  PROVE  \E x \in S : \A y \in S : x <= y
<1> SUFFICES ASSUME \A x \in S : \E y \in S : y < x PROVE FALSE
  OBVIOUS
<1>1. PICK n \in S : TRUE
  OBVIOUS
<1> DEFINE Below == {x \in 0..n : \A y \in S : x < y}
<1>2. 0 \in Below
  OBVIOUS
<1>3. \A x \in Below : x + 1 \in Below \ {0}
  <2> SUFFICES ASSUME NEW x \in Below PROVE x + 1 \in Below \ {0}
    OBVIOUS
  <2>1. x \in Nat /\ x < n
    OBVIOUS
  <2>2. \A y \in S : x + 1 <= y
    OBVIOUS
  <2>3. x + 1 \notin S
    BY <2>1, <2>2
  <2>4. QED
    BY <2>1, <2>2, <2>3
<1>4. IsFiniteSet(Below) /\ Cardinality(Below) \in Nat
  <2>1. IsFiniteSet(0..n)
    BY FS_Interval
  <2>2. Below \subseteq 0..n
    OBVIOUS
  <2> HIDE DEF Below
  <2>3. QED
    BY <2>1, <2>2, FS_Subset, FS_CardinalityType
<1> HIDE DEF Below
<1>5. IsFiniteSet(Below \ {0}) /\ Cardinality(Below \ {0}) = Cardinality(Below) - 1
  BY <1>2, <1>4, FS_RemoveElement
<1> DEFINE next == [x \in Below |-> x + 1]
<1>6. next \in [Below -> Below \ {0}]
  BY <1>3
<1>7. \A x, y \in Below : x # y => next[x] # next[y]
  BY DEF Below
<1> HIDE DEF next
<1>8. Cardinality(Below \ {0}) < Cardinality(Below)
  BY <1>4, <1>5
<1>9. QED
  BY <1>4, <1>5, <1>6, <1>7, <1>8, FS_PigeonHole

\* What Min chooses is the least element, whenever the set has one.
LEMMA MinIsLeast ==
  ASSUME NEW S, S \subseteq Nat, S # {}
  PROVE  Min(S) \in S /\ \A y \in S : Min(S) <= y
  BY LeastNatural DEF Min

\* What Max chooses of a bounded set is the greatest element.
LEMMA MaxIsGreatest ==
  ASSUME NEW n \in Nat, NEW S, S \subseteq 0..n, S # {}
  PROVE  Max(S) \in S /\ \A y \in S : Max(S) >= y
<1> DEFINE T == {n - x : x \in S}
<1>1. T \subseteq Nat /\ T # {}
  <2>1. \A x \in S : n - x \in Nat
    OBVIOUS
  <2>2. QED
    BY <2>1
<1>2. PICK t \in T : \A u \in T : t <= u
  BY <1>1, LeastNatural
<1>3. PICK x \in S : t = n - x
  BY <1>2
<1>4. \A y \in S : x >= y
  BY <1>2, <1>3
<1>5. QED
  BY <1>4 DEF Max

\* The greater of two numbers.
LEMMA MaxOfTwo ==
  ASSUME NEW a \in Nat, NEW b \in Nat
  PROVE  Max({a, b}) \in {a, b} /\ Max({a, b}) >= a /\ Max({a, b}) >= b
  BY DEF Max

Increasing(q) == \A i, j \in DOMAIN q : i < j => q[i] < q[j]
Before(p, q) == \A i \in DOMAIN p, j \in DOMAIN q : p[i] < q[j]
AtMost(q, n) == \A i \in DOMAIN q : q[i] <= n

\* An increasing sequence stays so when something greater is appended.
LEMMA AppendIncreases ==
  ASSUME NEW q \in Seq(Nat), NEW n \in Nat, NEW m \in Nat, Increasing(q), AtMost(q, n), n < m
  PROVE  Append(q, m) \in Seq(Nat) /\ Increasing(Append(q, m)) /\ AtMost(Append(q, m), m)
<1>1. /\ Append(q, m) \in Seq(Nat) /\ Len(Append(q, m)) = Len(q) + 1
      /\ \A i \in 1..Len(q) : Append(q, m)[i] = q[i]
      /\ Append(q, m)[Len(q) + 1] = m
  OBVIOUS
<1>2. \A i \in 1..Len(q) : q[i] \in Nat /\ q[i] <= n
  BY DEF AtMost
<1>3. QED
  BY <1>1, <1>2 DEF Increasing, AtMost

\* One that is followed by greater ones goes on with them.
LEMMA ConcatIncreases ==
  ASSUME NEW p \in Seq(Nat), NEW q \in Seq(Nat), Increasing(p), Increasing(q), Before(p, q)
  PROVE  p \o q \in Seq(Nat) /\ Increasing(p \o q)
<1>1. /\ p \o q \in Seq(Nat) /\ Len(p \o q) = Len(p) + Len(q)
      /\ \A i \in 1..Len(p) : (p \o q)[i] = p[i]
      /\ \A i \in 1..Len(q) : (p \o q)[Len(p) + i] = q[i]
  OBVIOUS
<1>2. ASSUME NEW i \in 1..Len(p \o q), NEW j \in 1..Len(p \o q), i < j
      PROVE  (p \o q)[i] < (p \o q)[j]
  <2>1. CASE j <= Len(p)
    BY <1>1, <1>2, <2>1 DEF Increasing
  <2>2. CASE i <= Len(p) /\ j > Len(p)
    <3>1. j - Len(p) \in 1..Len(q) /\ j = Len(p) + (j - Len(p))
      BY <1>1, <2>2
    <3>2. QED
      BY <1>1, <2>2, <3>1 DEF Before
  <2>3. CASE i > Len(p)
    <3>1. /\ i - Len(p) \in 1..Len(q) /\ i = Len(p) + (i - Len(p))
          /\ j - Len(p) \in 1..Len(q) /\ j = Len(p) + (j - Len(p))
          /\ i - Len(p) < j - Len(p)
      BY <1>1, <1>2, <2>3
    <3>2. q[i - Len(p)] < q[j - Len(p)]
      BY <3>1 DEF Increasing
    <3>3. QED
      BY <1>1, <3>1, <3>2
  <2>4. QED
    BY <2>1, <2>2, <2>3, SMTT(40)
<1>3. QED
  BY <1>1, <1>2, SMTT(40) DEF Increasing

\* What is before a sequence and less than what is appended is before both.
LEMMA AppendFollows ==
  ASSUME NEW p \in Seq(Nat), NEW q \in Seq(Nat), NEW n \in Nat, NEW m \in Nat, n < m,
         AtMost(p, n), Before(p, q)
  PROVE  Before(p, Append(q, m))
<1>1. /\ DOMAIN Append(q, m) = 1..(Len(q) + 1) /\ DOMAIN q = 1..Len(q) /\ Len(q) \in Nat
      /\ \A j \in 1..Len(q) : Append(q, m)[j] = q[j]
      /\ Append(q, m)[Len(q) + 1] = m
  OBVIOUS
<1> SUFFICES ASSUME NEW i \in DOMAIN p, NEW j \in 1..(Len(q) + 1) PROVE p[i] < Append(q, m)[j]
  BY <1>1 DEF Before
<1>2. CASE j \in 1..Len(q)
  BY <1>1, <1>2 DEF Before
<1>3. CASE j = Len(q) + 1
  <2>1. p[i] \in Nat /\ p[i] <= n
    BY DEF AtMost
  <2>2. QED
    BY <1>1, <1>3, <2>1
<1>4. QED
  BY <1>1, <1>2, <1>3

\* What bounds two sequences bounds them together.
LEMMA ConcatBounded ==
  ASSUME NEW p \in Seq(Nat), NEW q \in Seq(Nat)
  PROVE  /\ \A n : AtMost(p, n) /\ AtMost(q, n) => AtMost(p \o q, n)
         /\ \A r : Before(p, r) /\ Before(q, r) => Before(p \o q, r)
<1>1. \A i \in DOMAIN (p \o q) : (\E j \in DOMAIN p : (p \o q)[i] = p[j]) \/ (\E j \in DOMAIN q : (p \o q)[i] = q[j])
  <2>1. /\ DOMAIN (p \o q) = 1..(Len(p) + Len(q)) /\ DOMAIN p = 1..Len(p) /\ DOMAIN q = 1..Len(q)
        /\ Len(p) \in Nat /\ Len(q) \in Nat
        /\ \A i \in 1..Len(p) : (p \o q)[i] = p[i]
        /\ \A i \in 1..Len(q) : (p \o q)[Len(p) + i] = q[i]
    OBVIOUS
  <2> SUFFICES ASSUME NEW i \in 1..(Len(p) + Len(q))
               PROVE  (\E j \in 1..Len(p) : (p \o q)[i] = p[j]) \/ (\E j \in 1..Len(q) : (p \o q)[i] = q[j])
    BY <2>1
  <2>2. CASE i \in 1..Len(p)
    BY <2>1, <2>2
  <2>3. CASE i - Len(p) \in 1..Len(q)
    <3>1. i = Len(p) + (i - Len(p))
      BY <2>1
    <3>2. (p \o q)[i] = q[i - Len(p)]
      BY <2>1, <2>3, <3>1
    <3>3. QED
      BY <2>3, <3>2
  <2>4. QED
    BY <2>1, <2>2, <2>3
<1>2. QED
  BY <1>1, Zenon DEF AtMost, Before

\* A finite set of numbers has a greatest element: one with the fewest above it.
LEMMA FiniteHasGreatest ==
  ASSUME NEW S, S \subseteq Nat, IsFiniteSet(S), S # {}
  PROVE  \E m \in S : \A y \in S : y <= m
<1> DEFINE Above(x) == {y \in S : x < y}
           Counts == {Cardinality(Above(x)) : x \in S}
<1>1. \A x \in S : IsFiniteSet(Above(x)) /\ Cardinality(Above(x)) \in Nat
  <2> SUFFICES ASSUME NEW x \in S PROVE IsFiniteSet(Above(x)) /\ Cardinality(Above(x)) \in Nat
    OBVIOUS
  <2>1. Above(x) \in SUBSET S
    OBVIOUS
  <2> HIDE DEF Above
  <2>2. QED
    BY <2>1, FS_Subset, FS_CardinalityType
<1>2. Counts \subseteq Nat /\ Counts # {}
  BY <1>1
<1>3. PICK c \in Counts : \A d \in Counts : c <= d
  BY <1>2, LeastNatural
<1>4. PICK m \in S : c = Cardinality(Above(m))
  OBVIOUS
<1>5. ASSUME NEW z \in S, m < z PROVE FALSE
  <2>1. \A y \in S : z < y => m < y
    <3> TAKE y \in S
    <3>1. y \in Nat /\ z \in Nat /\ m \in Nat
      OBVIOUS
    <3>2. QED
      BY <1>5, <3>1
  <2>2. Above(z) \in SUBSET Above(m) /\ z \in Above(m) /\ z \notin Above(z)
    <3>1. z \in Nat
      OBVIOUS
    <3>2. Above(z) \subseteq Above(m)
      BY <2>1
    <3>3. z \in Above(m)
      BY <1>5
    <3>4. z \notin Above(z)
      BY <3>1
    <3>5. QED
      BY <3>2, <3>3, <3>4
  <2>3. Cardinality(Above(z)) \in Counts
    OBVIOUS
  <2> HIDE DEF Above, Counts
  <2>4. Cardinality(Above(z)) # Cardinality(Above(m)) /\ Cardinality(Above(z)) <= Cardinality(Above(m))
    BY <1>1, <2>2, FS_Subset
  <2>5. QED
    BY <1>1, <1>3, <1>4, <2>3, <2>4
<1>6. QED
  BY <1>5

\* Positions that leave no gap from 1 on are as many as the last of them.
LEMMA NoGapIsInterval ==
  ASSUME NEW n \in Nat, NEW S, S \subseteq 1..n, \A i \in S : \A j \in 1..i : j \in S
  PROVE  Cardinality(S) \in 0..n /\ S = 1..Cardinality(S)
<1>1. CASE S = {}
  BY <1>1, FS_EmptySet
<1>2. CASE S # {}
  <2>1. S \subseteq Nat /\ IsFiniteSet(S)
    <3>1. IsFiniteSet(1..n) /\ S \in SUBSET (1..n)
      BY FS_Interval
    <3>2. IsFiniteSet(S)
      BY <3>1, FS_Subset
    <3>3. QED
      BY <3>2
  <2>2. PICK m \in S : \A y \in S : y <= m
    BY <1>2, <2>1, FiniteHasGreatest
  <2>3. S = 1..m
    <3>1. m \in 1..n /\ \A y \in S : y \in 1..m
      BY <2>2
    <3>2. \A y \in 1..m : y \in S
      BY <2>2
    <3>3. QED
      BY <3>1, <3>2
  <2>4. Cardinality(S) = m
    BY <2>3, FS_Interval
  <2>5. QED
    BY <2>3, <2>4
<1>3. QED
  BY <1>1, <1>2

\* The elements of a finite set of numbers have the ranks from 0 on, one each and
\* in order.
LEMMA RanksAreDense ==
  ASSUME NEW S, S \subseteq Nat, IsFiniteSet(S)
  PROVE  /\ \A i, j \in S : i < j => Rank(S, i) < Rank(S, j)
         /\ \A i \in S : Rank(S, i) \in 0..(Cardinality(S) - 1)
         /\ \A r \in 0..(Cardinality(S) - 1) : \E i \in S : Rank(S, i) = r
<1> DEFINE Below(i) == {h \in S : h < i}
<1>1. \A i \in S : Below(i) \in SUBSET (S \ {i})
  OBVIOUS
<1>2. \A i, j \in S : i < j => Below(i) \in SUBSET Below(j) /\ i \in Below(j) /\ i \notin Below(i)
  <2> SUFFICES ASSUME NEW i \in S, NEW j \in S, i < j
               PROVE  Below(i) \in SUBSET Below(j) /\ i \in Below(j) /\ i \notin Below(i)
    OBVIOUS
  <2>1. \A h \in S : h < i => h < j
    <3> TAKE h \in S
    <3>1. h \in Nat /\ i \in Nat /\ j \in Nat
      OBVIOUS
    <3>2. QED
      BY <3>1
  <2>2. i \in Below(j)
    OBVIOUS
  <2>3. i \notin Below(i)
    <3>1. i \in Nat
      OBVIOUS
    <3>2. QED
      BY <3>1
  <2>4. Below(i) \subseteq Below(j)
    BY <2>1
  <2>5. QED
    BY <2>2, <2>3, <2>4
<1>3. \A i : Rank(S, i) = Cardinality(Below(i))
  BY DEF Rank
<1>4. \A i : Below(i) \in SUBSET S
  OBVIOUS
<1>5. Cardinality(S) \in Nat
  BY FS_CardinalityType
<1> HIDE DEF Below
<1>6. \A i : IsFiniteSet(Below(i)) /\ Cardinality(Below(i)) \in Nat
  BY <1>4, FS_Subset, FS_CardinalityType
<1>7. \A i, j \in S : i < j => Rank(S, i) < Rank(S, j)
  <2> SUFFICES ASSUME NEW i \in S, NEW j \in S, i < j PROVE Cardinality(Below(i)) < Cardinality(Below(j))
    BY <1>3
  <2>1. Cardinality(Below(i)) <= Cardinality(Below(j)) /\ Cardinality(Below(i)) # Cardinality(Below(j))
    BY <1>2, <1>6, FS_Subset
  <2>2. QED
    BY <1>6, <2>1
<1>8. \A i \in S : Rank(S, i) \in 0..(Cardinality(S) - 1)
  <2> SUFFICES ASSUME NEW i \in S PROVE Cardinality(Below(i)) \in 0..(Cardinality(S) - 1)
    BY <1>3
  <2>1. IsFiniteSet(S \ {i}) /\ Cardinality(S \ {i}) = Cardinality(S) - 1
    BY FS_RemoveElement
  <2>2. Cardinality(Below(i)) <= Cardinality(S \ {i})
    BY <1>1, <2>1, FS_Subset
  <2>3. QED
    BY <1>5, <1>6, <2>1, <2>2
<1>9. \A r \in 0..(Cardinality(S) - 1) : \E i \in S : Rank(S, i) = r
  <2> DEFINE rank == [i \in S |-> Rank(S, i)]
  <2>1. rank \in [S -> 0..(Cardinality(S) - 1)]
    BY <1>8
  <2>2. \A i, j \in S : rank[i] = rank[j] => i = j
    <3> SUFFICES ASSUME NEW i \in S, NEW j \in S, Rank(S, i) = Rank(S, j) PROVE i = j
      OBVIOUS
    <3>1. Rank(S, i) \in Nat /\ Rank(S, j) \in Nat
      BY <1>8
    <3>2. ~ (i < j) /\ ~ (j < i)
      BY <1>7, <3>1
    <3>3. QED
      BY <3>2
  <2>3. IsFiniteSet(0..(Cardinality(S) - 1)) /\ Cardinality(0..(Cardinality(S) - 1)) = Cardinality(S)
    <3>1. Cardinality(S) - 1 \in Int
      BY <1>5
    <3>2. /\ IsFiniteSet(0..(Cardinality(S) - 1))
          /\ Cardinality(0..(Cardinality(S) - 1))
               = IF 0 > Cardinality(S) - 1 THEN 0 ELSE Cardinality(S) - 1 - 0 + 1
      BY <3>1, FS_Interval
    <3>3. QED
      BY <1>5, <3>2
  <2> HIDE DEF rank
  <2>4. rank \in Injection(S, 0..(Cardinality(S) - 1))
    BY <2>1, <2>2 DEF Injection, IsInjective
  <2>5. rank \in Surjection(S, 0..(Cardinality(S) - 1))
    BY <2>3, <2>4, FS_Injection
  <2>6. QED
    BY <2>5 DEF Surjection, rank
<1>10. QED
  BY <1>7, <1>8, <1>9

\* The elements of Picked: their positions in the list, in order, all that stay and
\* no others.
PickedAt(list, kept, nth, m) ==
  /\ Len(Picked(list, kept)) = m
  /\ \A j \in 1..m : Picked(list, kept)[j] = list[nth[j]]
  /\ \A i, j \in 1..m : i < j => nth[i] < nth[j]
  /\ \A i \in kept : \E j \in 1..m : nth[j] = i

LEMMA PickedElements ==
  ASSUME NEW S, NEW list \in Seq(S), NEW kept \in SUBSET (1..Len(list))
  PROVE  /\ Picked(list, kept) \in Seq(S)
         /\ \E m \in 0..Len(list) : \E nth \in [1..m -> kept] : PickedAt(list, kept, nth, m)
<1> DEFINE m == Cardinality(kept)
           nth == [j \in 1..m |-> CHOOSE i \in kept : Rank(kept, i) = j - 1]
<1>1. /\ Len(list) \in Nat
      /\ \A i \in 1..Len(list) : list[i] \in S
  OBVIOUS
<1>2. kept \subseteq Nat
  BY <1>1
<1>3. IsFiniteSet(1..Len(list)) /\ Cardinality(1..Len(list)) = Len(list)
  <2>1. Len(list) \in Nat /\ Len(list) \in Int
    OBVIOUS
  <2>2. /\ IsFiniteSet(1..Len(list))
        /\ Cardinality(1..Len(list)) = IF 1 > Len(list) THEN 0 ELSE Len(list) - 1 + 1
    BY <2>1, FS_Interval
  <2>3. QED
    BY <2>1, <2>2
<1>4. IsFiniteSet(kept) /\ m \in 0..Len(list)
  <2>1. IsFiniteSet(kept) /\ Cardinality(kept) <= Len(list)
    BY <1>3, FS_Subset
  <2>2. Cardinality(kept) \in Nat
    BY <2>1, FS_CardinalityType
  <2>3. QED
    BY <1>1, <2>1, <2>2
<1>5. Picked(list, kept) = [j \in 1..m |-> list[nth[j]]]
  BY DEF Picked
<1>8. /\ \A i, j \in kept : i < j => Rank(kept, i) < Rank(kept, j)
      /\ \A i \in kept : Rank(kept, i) \in 0..(m - 1)
      /\ \A r \in 0..(m - 1) : \E i \in kept : Rank(kept, i) = r
  BY <1>2, <1>4, RanksAreDense
<1>9. \A j \in 1..m : nth[j] \in kept /\ Rank(kept, nth[j]) = j - 1
  <2> TAKE j \in 1..m
  <2>1. j - 1 \in 0..(m - 1)
    BY <1>4
  <2>2. \E i \in kept : Rank(kept, i) = j - 1
    BY <1>8, <2>1
  <2>3. QED
    BY <2>2
<1>10. nth \in [1..m -> kept]
  BY <1>9
<1>11. \A i \in kept : \E j \in 1..m : nth[j] = i
  <2> TAKE i \in kept
  <2>1. Rank(kept, i) + 1 \in 1..m /\ Rank(kept, i) \in Nat
    BY <1>4, <1>8
  <2>2. nth[Rank(kept, i) + 1] \in kept /\ Rank(kept, nth[Rank(kept, i) + 1]) = Rank(kept, i)
    <3>1. Rank(kept, i) + 1 - 1 = Rank(kept, i)
      BY <2>1
    <3>2. QED
      BY <1>9, <2>1, <3>1
  <2> DEFINE j == nth[Rank(kept, i) + 1]
  <2>3. j \in kept /\ Rank(kept, j) = Rank(kept, i)
    BY <2>2
  <2> HIDE DEF j
  <2>4. j = i
    <3>1. i \in Nat /\ j \in Nat
      BY <1>2, <2>3
    <3>2. ~ (i < j) /\ ~ (j < i)
      BY <1>8, <2>1, <2>3
    <3>3. QED
      BY <3>1, <3>2
  <2>5. QED
    BY <2>1, <2>4 DEF j
<1>12. \A i, j \in 1..m : i < j => nth[i] < nth[j]
  <2> SUFFICES ASSUME NEW i \in 1..m, NEW j \in 1..m, i < j PROVE nth[i] < nth[j]
    OBVIOUS
  <2> DEFINE x == nth[i]
             y == nth[j]
  <2>1. x \in kept /\ y \in kept /\ Rank(kept, x) = i - 1 /\ Rank(kept, y) = j - 1
    BY <1>9
  <2> HIDE DEF x, y
  <2>2. x \in Nat /\ y \in Nat
    BY <1>2, <2>1
  <2>3. i - 1 < j - 1 /\ i \in Nat /\ j \in Nat
    BY <1>4
  <2>4. x # y /\ ~ (y < x)
    BY <1>8, <2>1, <2>3
  <2>5. x < y
    BY <2>2, <2>4
  <2>6. QED
    BY <2>5 DEF x, y
<1> HIDE DEF nth, m
<1>13. \A j \in 1..m : list[nth[j]] \in S
  BY <1>1, <1>10
<1>14. Picked(list, kept) \in Seq(S) /\ Len(Picked(list, kept)) = m
  BY <1>4, <1>5, <1>13
<1>15. \A j \in 1..m : Picked(list, kept)[j] = list[nth[j]]
  BY <1>5
<1>16. PickedAt(list, kept, nth, m)
  BY <1>11, <1>12, <1>14, <1>15 DEF PickedAt
<1>17. QED
  BY <1>4, <1>10, <1>14, <1>16

\* What InsertAt makes of a sequence: the m elements before the place, the new one,
\* and the others one place later.
LEMMA InsertedElements ==
  ASSUME NEW S, NEW q \in Seq(S), NEW m \in 0..Len(q), NEW e \in S
  PROVE  /\ InsertAt(q, m + 1, e) \in Seq(S) /\ Len(InsertAt(q, m + 1, e)) = Len(q) + 1
         /\ \A i \in 1..(Len(q) + 1) :
              InsertAt(q, m + 1, e)[i] = IF i <= m THEN q[i] ELSE IF i = m + 1 THEN e ELSE q[i - 1]
<1> DEFINE n == Len(q)
           front == SubSeq(q, 1, m)
           back == SubSeq(q, m + 1, n)
           start == front \o <<e>>
           all == start \o back
<1>1. n \in Nat /\ m \in Nat /\ m <= n /\ \A i \in 1..n : q[i] \in S
  OBVIOUS
<1>2. /\ m \in Int /\ n \in Int /\ m + 1 \in Int /\ 1 \in Int
      /\ \A i \in 1..m : q[i] \in S
      /\ \A i \in (m + 1)..n : q[i] \in S
  BY <1>1
<1> HIDE DEF n
<1>3. /\ front \in Seq(S)
      /\ Len(front) = IF 1 <= m THEN m - 1 + 1 ELSE 0
      /\ \A i \in 1..(m - 1 + 1) : front[i] = q[1 + i - 1]
  BY <1>2, SubSeqProperties
<1>4. /\ back \in Seq(S)
      /\ Len(back) = IF m + 1 <= n THEN n - (m + 1) + 1 ELSE 0
      /\ \A i \in 1..(n - (m + 1) + 1) : back[i] = q[(m + 1) + i - 1]
  BY <1>2, SubSeqProperties
<1>5. Len(front) = m /\ \A i \in 1..m : front[i] = q[i]
  <2>1. m - 1 + 1 = m /\ \A i \in 1..m : 1 + i - 1 = i
    BY <1>1
  <2>2. QED
    BY <1>1, <1>3, <2>1
<1>6. Len(back) = n - m /\ \A i \in 1..(n - m) : back[i] = q[m + i]
  <2>1. n - (m + 1) + 1 = n - m /\ \A i \in 1..(n - m) : (m + 1) + i - 1 = m + i
    BY <1>1
  <2>2. QED
    BY <1>1, <1>4, <2>1
<1>7. InsertAt(q, m + 1, e) = all
  <2>1. m + 1 - 1 = m
    BY <1>1
  <2>2. PICK k : k = m + 1
    OBVIOUS
  <2>3. k - 1 = m
    BY <2>1, <2>2
  <2>4. InsertAt(q, k, e) = SubSeq(q, 1, k - 1) \o <<e>> \o SubSeq(q, k, n)
    BY DEF InsertAt, n
  <2>5. InsertAt(q, k, e) = front \o <<e>> \o SubSeq(q, k, n)
    BY <2>3, <2>4
  <2>6. SubSeq(q, k, n) = back
    BY <2>2
  <2> HIDE DEF front, back
  <2>7. QED
    BY <2>2, <2>5, <2>6
<1>8. <<e>> \in Seq(S) /\ Len(<<e>>) = 1 /\ <<e>>[1] = e
  OBVIOUS
<1> HIDE DEF front, back
<1>9. /\ start \in Seq(S) /\ Len(start) = Len(front) + Len(<<e>>)
      /\ \A i \in 1..(Len(front) + Len(<<e>>)) :
           start[i] = IF i <= Len(front) THEN front[i] ELSE <<e>>[i - Len(front)]
  BY <1>3, <1>8, ConcatProperties
<1>10. Len(start) = m + 1 /\ (\A i \in 1..m : start[i] = q[i]) /\ start[m + 1] = e
  <2>1. \A i \in 1..m : i \in 1..(m + 1) /\ i <= m
    BY <1>1
  <2>2. m + 1 \in 1..(m + 1) /\ ~ (m + 1 <= m) /\ m + 1 - m = 1
    BY <1>1
  <2> HIDE DEF start
  <2>3. QED
    BY <1>5, <1>8, <1>9, <2>1, <2>2
<1> HIDE DEF start
<1>11. /\ all \in Seq(S) /\ Len(all) = Len(start) + Len(back)
       /\ \A i \in 1..(Len(start) + Len(back)) :
            all[i] = IF i <= Len(start) THEN start[i] ELSE back[i - Len(start)]
  <2>1. start \in Seq(S) /\ back \in Seq(S)
    BY <1>4, <1>9
  <2>2. QED
    BY <2>1, ConcatProperties, Zenon
<1> HIDE DEF all
<1>12. Len(start) + Len(back) = n + 1
  BY <1>1, <1>6, <1>10
<1>13. ASSUME NEW i \in 1..(n + 1)
       PROVE  all[i] = IF i <= m THEN q[i] ELSE IF i = m + 1 THEN e ELSE q[i - 1]
  <2>1. CASE i <= m + 1
    <3>1. all[i] = start[i]
      BY <1>10, <1>11, <1>12, <2>1
    <3>2. i \in 1..m \/ i = m + 1
      BY <1>1, <2>1
    <3>3. ~ (m + 1 <= m)
      BY <1>1
    <3>4. QED
      BY <1>10, <3>1, <3>2, <3>3
  <2>2. CASE ~ (i <= m + 1)
    <3>1. i - (m + 1) \in 1..(n - m) /\ m + (i - (m + 1)) = i - 1 /\ ~ (i <= m) /\ i # m + 1
      BY <1>1, <2>2
    <3>2. all[i] = back[i - (m + 1)]
      BY <1>10, <1>11, <1>12, <2>2
    <3>3. QED
      BY <1>6, <3>1, <3>2
  <2>3. QED
    BY <2>1, <2>2
<1>14. QED
  BY <1>7, <1>11, <1>12, <1>13 DEF n

\* The first c elements of a sequence.
LEMMA FirstElements ==
  ASSUME NEW S, NEW q \in Seq(S), NEW c \in 0..Len(q)
  PROVE  /\ SubSeq(q, 1, c) \in Seq(S) /\ Len(SubSeq(q, 1, c)) = c
         /\ \A i \in 1..c : SubSeq(q, 1, c)[i] = q[i]
<1>1. c \in Int /\ 1 \in Int /\ \A i \in 1..c : q[i] \in S
  OBVIOUS
<1>2. /\ SubSeq(q, 1, c) \in Seq(S)
      /\ Len(SubSeq(q, 1, c)) = IF 1 <= c THEN c - 1 + 1 ELSE 0
      /\ \A i \in 1..(c - 1 + 1) : SubSeq(q, 1, c)[i] = q[1 + i - 1]
  BY <1>1, SubSeqProperties
<1>3. c \in Nat /\ c - 1 + 1 = c /\ \A i \in 1..c : 1 + i - 1 = i
  OBVIOUS
<1>4. QED
  BY <1>2, <1>3

\* What RemoveAt leaves of a sequence.
LEMMA RemovedElement ==
  ASSUME NEW S, NEW q \in Seq(S), NEW i \in DOMAIN q
  PROVE  /\ RemoveAt(q, i) \in Seq(S) /\ Len(RemoveAt(q, i)) = Len(q) - 1
         /\ \A j \in DOMAIN RemoveAt(q, i) : \E k \in DOMAIN q : RemoveAt(q, i)[j] = q[k]
<1> DEFINE n == Len(q)
           front == SubSeq(q, 1, i - 1)
           back == SubSeq(q, i + 1, n)
           all == front \o back
<1>1. n \in Nat /\ i \in 1..n /\ DOMAIN q = 1..n /\ \A j \in 1..n : q[j] \in S
  OBVIOUS
<1> HIDE DEF n
<1>2. /\ i \in Int /\ n \in Int /\ i + 1 \in Int /\ 1 \in Int /\ i - 1 \in Int
      /\ \A j \in 1..(i - 1) : q[j] \in S
      /\ \A j \in (i + 1)..n : q[j] \in S
  BY <1>1
<1>3. /\ front \in Seq(S)
      /\ Len(front) = IF 1 <= i - 1 THEN (i - 1) - 1 + 1 ELSE 0
      /\ \A j \in 1..((i - 1) - 1 + 1) : front[j] = q[1 + j - 1]
  BY <1>2, SubSeqProperties
<1>4. /\ back \in Seq(S)
      /\ Len(back) = IF i + 1 <= n THEN n - (i + 1) + 1 ELSE 0
      /\ \A j \in 1..(n - (i + 1) + 1) : back[j] = q[(i + 1) + j - 1]
  BY <1>2, SubSeqProperties
<1>5. Len(front) = i - 1 /\ \A j \in 1..(i - 1) : front[j] = q[j] /\ j \in 1..n
  <2>1. (i - 1) - 1 + 1 = i - 1 /\ \A j \in 1..(i - 1) : 1 + j - 1 = j /\ j \in 1..n
    BY <1>1
  <2>2. ~ (1 <= i - 1) => i - 1 = 0
    BY <1>1
  <2>3. QED
    BY <1>3, <2>1, <2>2
<1>6. Len(back) = n - i /\ \A j \in 1..(n - i) : back[j] = q[i + j] /\ i + j \in 1..n
  <2>1. n - (i + 1) + 1 = n - i /\ \A j \in 1..(n - i) : (i + 1) + j - 1 = i + j /\ i + j \in 1..n
    BY <1>1
  <2>2. ~ (i + 1 <= n) => n - i = 0
    BY <1>1
  <2>3. QED
    BY <1>4, <2>1, <2>2
<1>7. RemoveAt(q, i) = all
  BY DEF RemoveAt, n
<1> HIDE DEF front, back
<1>8. /\ all \in Seq(S) /\ Len(all) = Len(front) + Len(back)
      /\ \A j \in 1..(Len(front) + Len(back)) :
           all[j] = IF j <= Len(front) THEN front[j] ELSE back[j - Len(front)]
  BY <1>3, <1>4, ConcatProperties
<1> HIDE DEF all
<1>9. Len(front) + Len(back) = n - 1
  BY <1>1, <1>5, <1>6
<1>10. DOMAIN all = 1..(n - 1)
  BY <1>8, <1>9
<1>11. ASSUME NEW j \in 1..(n - 1) PROVE \E k \in 1..n : all[j] = q[k]
  <2>1. CASE j <= i - 1
    BY <1>1, <1>5, <1>8, <1>9, <2>1
  <2>2. CASE ~ (j <= i - 1)
    <3>1. j - (i - 1) \in 1..(n - i)
      BY <1>1, <2>2
    <3>2. all[j] = back[j - (i - 1)]
      BY <1>5, <1>8, <1>9, <2>2
    <3>3. QED
      BY <1>6, <3>1, <3>2
  <2>3. QED
    BY <2>1, <2>2
<1>12. QED
  BY <1>1, <1>7, <1>8, <1>9, <1>10, <1>11 DEF n

\* A list of all the numbers in a set, in order.
Enumerates(kept, m, nth) ==
  /\ m \in Nat /\ nth \in [1..m -> kept]
  /\ \A i, j \in 1..m : i < j => nth[i] < nth[j]
  /\ \A i \in kept : \E j \in 1..m : nth[j] = i

\* The places below one of an increasing enumeration.
LEMMA EnumeratedRank ==
  ASSUME NEW kept, kept \subseteq Nat, NEW m \in Nat, NEW nth \in [1..m -> kept],
         \A i, j \in 1..m : i < j => nth[i] < nth[j],
         \A i \in kept : \E j \in 1..m : nth[j] = i,
         NEW k \in 1..m
  PROVE  Rank(kept, nth[k]) = k - 1
<1> DEFINE below == {h \in kept : h < nth[k]}
           first == [i \in 1..(k - 1) |-> nth[i]]
<1>1. \A i \in 1..m : nth[i] \in kept /\ nth[i] \in Nat
  OBVIOUS
<1>2. \A i \in 1..m : nth[i] < nth[k] <=> i < k
  <2> TAKE i \in 1..m
  <2>1. i < k \/ i = k \/ k < i
    OBVIOUS
  <2>2. nth[i] \in Nat /\ nth[k] \in Nat
    BY <1>1
  <2>3. QED
    BY <2>1, <2>2
<1>3. \A i \in 1..(k - 1) : i \in 1..m /\ i < k
  OBVIOUS
<1>4. first \in [1..(k - 1) -> below]
  BY <1>1, <1>2, <1>3
<1>5. \A i, j \in 1..(k - 1) : first[i] = first[j] => i = j
  <2> TAKE i, j \in 1..(k - 1)
  <2>1. i < j \/ i = j \/ j < i
    OBVIOUS
  <2>2. nth[i] \in Nat /\ nth[j] \in Nat /\ i \in 1..m /\ j \in 1..m
    BY <1>1, <1>3
  <2>3. QED
    BY <2>1, <2>2
<1>6. \A h \in below : \E i \in 1..(k - 1) : first[i] = h
  <2> TAKE h \in below
  <2>1. PICK i \in 1..m : nth[i] = h
    OBVIOUS
  <2>2. i \in 1..(k - 1)
    BY <1>2, <2>1
  <2>3. QED
    BY <2>1, <2>2
<1>7. Rank(kept, nth[k]) = Cardinality(below)
  BY DEF Rank
<1> HIDE DEF below, first
<1>8. first \in Bijection(1..(k - 1), below)
  BY <1>4, <1>5, <1>6 DEF Bijection, Injection, Surjection, IsInjective
<1>9. k - 1 \in Nat
  OBVIOUS
<1>10. ExistsBijection(1..(k - 1), below)
  BY <1>8 DEF ExistsBijection
<1>11. QED
  BY <1>7, <1>9, <1>10, FS_CountingElements

\* Picked gives the elements at the positions that an increasing enumeration of them
\* gives.
LEMMA PickedIs ==
  ASSUME NEW list, NEW kept, kept \subseteq Nat, NEW m, NEW nth, Enumerates(kept, m, nth)
  PROVE  DOMAIN Picked(list, kept) = 1..m /\ PickedAt(list, kept, nth, m)
<1>0. /\ m \in Nat /\ nth \in [1..m -> kept]
      /\ \A i, j \in 1..m : i < j => nth[i] < nth[j]
      /\ \A i \in kept : \E j \in 1..m : nth[j] = i
  BY DEF Enumerates
<1>1. \A k \in 1..m : Rank(kept, nth[k]) = k - 1 /\ nth[k] \in kept
  BY <1>0, EnumeratedRank
<1>2. nth \in Bijection(1..m, kept)
  <2>1. \A i, j \in 1..m : nth[i] = nth[j] => i = j
    <3> TAKE i, j \in 1..m
    <3>1. nth[i] \in Nat /\ nth[j] \in Nat
      BY <1>0
    <3>2. i < j \/ i = j \/ j < i
      BY <1>0
    <3>3. QED
      BY <1>0, <3>1, <3>2
  <2>2. QED
    BY <1>0, <2>1 DEF Bijection, Injection, Surjection, IsInjective
<1>3. Cardinality(kept) = m
  BY <1>0, <1>2, FS_CountingElements DEF ExistsBijection
<1>4. \A k \in 1..m : (CHOOSE i \in kept : Rank(kept, i) = k - 1) = nth[k]
  <2> TAKE k \in 1..m
  <2>1. PICK h : h = CHOOSE i \in kept : Rank(kept, i) = k - 1
    OBVIOUS
  <2>2. h \in kept /\ Rank(kept, h) = k - 1
    BY <1>1, <2>1
  <2>3. PICK g \in 1..m : nth[g] = h
    BY <1>0, <2>2
  <2>4. g - 1 = k - 1
    BY <1>1, <2>2, <2>3
  <2>5. g = k
    BY <1>0, <2>4
  <2>6. QED
    BY <2>1, <2>3, <2>5
<1>5. Picked(list, kept) = [j \in 1..m |-> list[CHOOSE i \in kept : Rank(kept, i) = j - 1]]
  BY <1>3 DEF Picked
<1>6. \A j \in 1..m : Picked(list, kept)[j] = list[CHOOSE i \in kept : Rank(kept, i) = j - 1]
  BY <1>5
<1>7. \A j \in 1..m : Picked(list, kept)[j] = list[nth[j]]
  BY <1>4, <1>6, Zenon
<1>8. DOMAIN Picked(list, kept) = 1..m /\ Len(Picked(list, kept)) = m
  BY <1>0, <1>5
<1>9. QED
  BY <1>0, <1>7, <1>8 DEF PickedAt

\* The elements before a place of a sequence stay where they are when it is removed,
\* those after it move one place down.
LEMMA RemovedElements ==
  ASSUME NEW S, NEW q \in Seq(S), NEW i \in DOMAIN q
  PROVE  /\ RemoveAt(q, i) \in Seq(S) /\ Len(RemoveAt(q, i)) = Len(q) - 1
         /\ \A j \in 1..(Len(q) - 1) : RemoveAt(q, i)[j] = IF j < i THEN q[j] ELSE q[j + 1]
<1> DEFINE n == Len(q)
           front == SubSeq(q, 1, i - 1)
           back == SubSeq(q, i + 1, n)
           all == front \o back
<1>1. n \in Nat /\ i \in 1..n /\ DOMAIN q = 1..n /\ \A j \in 1..n : q[j] \in S
  OBVIOUS
<1> HIDE DEF n
<1>2. /\ i \in Int /\ n \in Int /\ i + 1 \in Int /\ 1 \in Int /\ i - 1 \in Int
      /\ \A j \in 1..(i - 1) : q[j] \in S
      /\ \A j \in (i + 1)..n : q[j] \in S
  BY <1>1
<1>3. /\ front \in Seq(S)
      /\ Len(front) = IF 1 <= i - 1 THEN (i - 1) - 1 + 1 ELSE 0
      /\ \A j \in 1..((i - 1) - 1 + 1) : front[j] = q[1 + j - 1]
  BY <1>2, SubSeqProperties
<1>4. /\ back \in Seq(S)
      /\ Len(back) = IF i + 1 <= n THEN n - (i + 1) + 1 ELSE 0
      /\ \A j \in 1..(n - (i + 1) + 1) : back[j] = q[(i + 1) + j - 1]
  BY <1>2, SubSeqProperties
<1>5. Len(front) = i - 1 /\ \A j \in 1..(i - 1) : front[j] = q[j]
  <2>1. (i - 1) - 1 + 1 = i - 1 /\ \A j \in 1..(i - 1) : 1 + j - 1 = j
    BY <1>1
  <2>2. ~ (1 <= i - 1) => i - 1 = 0
    BY <1>1
  <2>3. QED
    BY <1>3, <2>1, <2>2
<1>6. Len(back) = n - i /\ \A j \in 1..(n - i) : back[j] = q[i + j]
  <2>1. n - (i + 1) + 1 = n - i /\ \A j \in 1..(n - i) : (i + 1) + j - 1 = i + j
    BY <1>1
  <2>2. ~ (i + 1 <= n) => n - i = 0
    BY <1>1
  <2>3. QED
    BY <1>4, <2>1, <2>2
<1>7. RemoveAt(q, i) = all
  BY DEF RemoveAt, n
<1> HIDE DEF front, back
<1>8. /\ all \in Seq(S) /\ Len(all) = Len(front) + Len(back)
      /\ \A j \in 1..(Len(front) + Len(back)) :
           all[j] = IF j <= Len(front) THEN front[j] ELSE back[j - Len(front)]
  BY <1>3, <1>4, ConcatProperties
<1> HIDE DEF all
<1>9. Len(front) + Len(back) = n - 1
  BY <1>1, <1>5, <1>6
<1>10. ASSUME NEW j \in 1..(n - 1) PROVE all[j] = IF j < i THEN q[j] ELSE q[j + 1]
  <2>1. CASE j < i
    <3>1. j \in 1..(i - 1) /\ j <= i - 1
      BY <1>1, <2>1
    <3>2. QED
      BY <1>5, <1>8, <1>9, <2>1, <3>1
  <2>2. CASE ~ (j < i)
    <3>1. j - (i - 1) \in 1..(n - i) /\ i + (j - (i - 1)) = j + 1 /\ ~ (j <= i - 1)
      BY <1>1, <2>2
    <3>2. all[j] = back[j - (i - 1)]
      BY <1>5, <1>8, <1>9, <3>1
    <3>3. QED
      BY <1>6, <2>2, <3>1, <3>2
  <2>3. QED
    BY <2>1, <2>2
<1>11. QED
  BY <1>1, <1>7, <1>8, <1>9, <1>10 DEF n
=============================================================================
