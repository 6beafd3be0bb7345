-------------------------- MODULE SortedSetsProofs --------------------------
(***************************************************************************)
(* What Sorted returns, for every finite set, and the least of a set; the  *)
(* places that an order gives to the elements of a set; that a function    *)
(* defined by recursion over numbers has the values its definition states; *)
(* and what FlattenSeq returns.                                            *)
(***************************************************************************)
EXTENDS SortedSets, SequencesExt, FiniteSetTheorems, WellFoundedInduction, TLAPS

LEMMA HasLeast ==
  ASSUME NEW T, T \subseteq Nat, T # {}
  PROVE  \E n \in T : \A m \in T : n <= m
<1>1. PICK n \in T : \A m \in T : <<m, n>> \notin OpToRel(<, Nat)
  BY NatLessThanWellFounded, WFMin
<1>2. ASSUME NEW m \in T, m < n
      PROVE  FALSE
  BY <1>1, <1>2 DEF OpToRel
<1> QED
  BY <1>2

LEMMA MinIsLeast ==
  ASSUME NEW T, T \subseteq Nat, T # {}
  PROVE  Min(T) \in T /\ \A m \in T : Min(T) <= m
  BY HasLeast DEF Min

LEMMA MinOfTwo ==
  ASSUME NEW a \in Int, NEW b \in Int
  PROVE  Min({a, b}) = IF a <= b THEN a ELSE b
<1>1. \A x \in {a, b} : (\A y \in {a, b} : x <= y) <=> x = (IF a <= b THEN a ELSE b)
  OBVIOUS
<1> QED
  BY <1>1 DEF Min

LEMMA MaxOfTwo ==
  ASSUME NEW a \in Int, NEW b \in Int
  PROVE  Max({a, b}) = IF a <= b THEN b ELSE a
<1>1. \A x \in {a, b} : (\A y \in {a, b} : x >= y) <=> x = (IF a <= b THEN b ELSE a)
  OBVIOUS
<1> QED
  BY <1>1 DEF Max

(* Induction over the number of elements, by way of the least number that  *)
(* would be a counterexample.                                              *)
LEMMA SortingExists ==
  ASSUME NEW S, NEW key, IsFiniteSet(S), Keyed(S, key)
  PROVE  \E s \in [1..Cardinality(S) -> S] : Ascending(s, key)
<1> DEFINE Sortable(T) == \E s \in [1..Cardinality(T) -> T] : Ascending(s, key)
           Bad == {n \in Nat : \E T \in SUBSET S : Cardinality(T) = n /\ ~Sortable(T)}
<1>1. SUFFICES ASSUME ~Sortable(S)
               PROVE  FALSE
  OBVIOUS
<1>2. \A T \in SUBSET S : IsFiniteSet(T) /\ Cardinality(T) \in Nat
  BY FS_Subset, FS_CardinalityType
<1>3. Cardinality(S) \in Bad
  BY <1>1, <1>2
<1>4. PICK n \in Bad : \A m \in Bad : n <= m
  BY <1>3, HasLeast
<1>5. PICK T \in SUBSET S : Cardinality(T) = n /\ ~Sortable(T)
  BY <1>4
<1>6. n \in Nat /\ n # 0
  <2>1. CASE T = {}
    <3>1. Cardinality(T) = 0
      BY <2>1, FS_EmptySet
    <3>2. 1..Cardinality(T) = {}
      BY <3>1
    <3>3. [i \in 1..Cardinality(T) |-> 0] \in [1..Cardinality(T) -> T]
      BY <3>2
    <3>4. Ascending([i \in 1..Cardinality(T) |-> 0], key)
      BY <3>2 DEF Ascending
    <3> QED
      BY <1>5, <3>3, <3>4
  <2>2. CASE T # {}
    BY <1>2, <1>4, <1>5, <2>2, FS_EmptySet
  <2> QED
    BY <2>1, <2>2
<1>7. PICK x \in T : \A y \in T : key[x] <= key[y]
  <2> DEFINE Keys == {key[y] : y \in T}
  <2>1. Keys \in SUBSET Nat
    BY DEF Keyed
  <2>2. Keys # {}
    BY <1>2, <1>5, <1>6, FS_EmptySet
  <2>3. PICK k \in Keys : \A m \in Keys : k <= m
    BY <2>1, <2>2, HasLeast
  <2> QED
    BY <2>3
<1> DEFINE U == T \ {x}
<1>8. U \in SUBSET S /\ Cardinality(U) = n - 1 /\ n - 1 \in Nat
  BY <1>2, <1>5, <1>6, <1>7, FS_RemoveElement
<1>9. PICK u \in [1..(n - 1) -> U] : Ascending(u, key)
  <2>1. n - 1 \notin Bad
    BY <1>4, <1>6, <1>8
  <2> HIDE DEF U
  <2> QED
    BY <1>8, <2>1
<1> DEFINE t == [i \in 1..n |-> IF i = 1 THEN x ELSE u[i - 1]]
<1>10. \A i \in 1..n : i # 1 => i - 1 \in 1..(n - 1) /\ u[i - 1] \in U
  BY <1>6, <1>9
<1>11. t \in [1..n -> T]
  BY <1>7, <1>10
<1>12. Ascending(t, key)
  <2> SUFFICES ASSUME NEW i \in 1..n, NEW j \in 1..n, i < j
               PROVE  key[t[i]] < key[t[j]]
    BY DEF Ascending
  <2>1. j # 1 /\ t[j] = u[j - 1] /\ u[j - 1] \in U /\ j - 1 \in 1..(n - 1)
    BY <1>6, <1>10
  <2>2. CASE i = 1
    <3>1. t[i] = x
      BY <2>2
    <3>2. x # u[j - 1] /\ u[j - 1] \in T
      BY <2>1
    <3>3. key[x] # key[u[j - 1]] /\ key[x] \in Nat /\ key[u[j - 1]] \in Nat
      BY <1>5, <1>7, <3>2 DEF Keyed
    <3> QED
      BY <1>7, <2>1, <3>1, <3>2, <3>3
  <2>3. CASE i # 1
    <3>1. t[i] = u[i - 1] /\ i - 1 \in 1..(n - 1) /\ i - 1 < j - 1
      BY <1>6, <1>10, <2>1, <2>3
    <3> QED
      BY <1>9, <2>1, <3>1 DEF Ascending
  <2> QED
    BY <2>2, <2>3
<1> QED
  BY <1>5, <1>11, <1>12

(* What a cursor reads: every element once, in the order of the keys.      *)
LEMMA SortedProperties ==
  ASSUME NEW S, NEW key, IsFiniteSet(S), Keyed(S, key)
  PROVE  /\ Sorted(S, key) \in Seq(S)
         /\ Len(Sorted(S, key)) = Cardinality(S) /\ Cardinality(S) \in Nat
         /\ \A i, j \in 1..Cardinality(S) : i < j => key[Sorted(S, key)[i]] < key[Sorted(S, key)[j]]
         /\ \A x \in S : \E i \in 1..Cardinality(S) : Sorted(S, key)[i] = x
<1> DEFINE n == Cardinality(S)
           s == Sorted(S, key)
<1>1. n \in Nat
  BY FS_CardinalityType
<1>2. s \in [1..n -> S] /\ Ascending(s, key)
  BY SortingExists DEF Sorted
<1> HIDE DEF s
<1>3. DOMAIN s = 1..n /\ s \in Seq(S) /\ Len(s) = n
  BY <1>1, <1>2
<1>4. \A i, j \in 1..n : i < j => key[s[i]] < key[s[j]]
  BY <1>2, <1>3 DEF Ascending
<1>5. s \in Injection(1..n, S)
  <2>1. ASSUME NEW i \in 1..n, NEW j \in 1..n, s[i] = s[j]
        PROVE  i = j
    <3>1. key[s[i]] \in Nat /\ s[i] \in S
      BY <1>2 DEF Keyed
    <3>2. ~(i < j) /\ ~(j < i)
      BY <1>4, <2>1, <3>1
    <3> QED
      BY <1>1, <3>2
  <2> QED
    BY <1>2, <2>1 DEF Injection, IsInjective
<1>6. IsFiniteSet(1..n) /\ Cardinality(1..n) = n
  BY <1>1, FS_Interval
<1>7. s \in Surjection(1..n, S)
  BY <1>5, <1>6, FS_Injection
<1>8. \A x \in S : \E i \in 1..n : s[i] = x
  BY <1>7 DEF Surjection
<1> QED
  BY <1>1, <1>3, <1>4, <1>8 DEF s

-----------------------------------------------------------------------------
(* The place of an element is one more than the elements before it.        *)
OrdersAll(before, S) ==
  /\ \A e \in S : <<e, e>> \notin before
  /\ \A e, f, g \in S : <<e, f>> \in before /\ <<f, g>> \in before => <<e, g>> \in before
  /\ \A e, f \in S : e # f => <<e, f>> \in before \/ <<f, e>> \in before

PlaceIn(S, before, e) == Cardinality({f \in S : <<f, e>> \in before}) + 1

LEMMA PlacesCount ==
  ASSUME NEW S, NEW before, IsFiniteSet(S), OrdersAll(before, S)
  PROVE  /\ Cardinality(S) \in Nat
         /\ \A e \in S : PlaceIn(S, before, e) \in 1..Cardinality(S)
         /\ \A e, f \in S : <<e, f>> \in before <=> PlaceIn(S, before, e) < PlaceIn(S, before, f)
         /\ \A e, f \in S : PlaceIn(S, before, e) = PlaceIn(S, before, f) => e = f
         /\ \A i \in 1..Cardinality(S) : \E e \in S : PlaceIn(S, before, e) = i
<1> DEFINE B(e) == {f \in S : <<f, e>> \in before}
           n == Cardinality(S)
<1>1. n \in Nat
  BY FS_CardinalityType
<1>2. \A e \in S : IsFiniteSet(B(e)) /\ Cardinality(B(e)) \in Nat
  <2> TAKE e \in S
  <2>1. B(e) \in SUBSET S
    OBVIOUS
  <2> HIDE DEF B
  <2> QED
    BY <2>1, FS_Subset, FS_CardinalityType
<1>3. \A e \in S : PlaceIn(S, before, e) = Cardinality(B(e)) + 1
  BY DEF PlaceIn
<1>4. \A e \in S : Cardinality(B(e)) < n
  <2> TAKE e \in S
  <2>1. B(e) \in SUBSET S /\ e \notin B(e)
    BY DEF OrdersAll
  <2> HIDE DEF B
  <2>2. Cardinality(B(e)) <= n /\ Cardinality(B(e)) # n
    BY <2>1, FS_Subset
  <2> QED
    BY <1>1, <1>2, <2>2
<1>5. \A e, f \in S : <<e, f>> \in before => Cardinality(B(e)) < Cardinality(B(f))
  <2> SUFFICES ASSUME NEW e \in S, NEW f \in S, <<e, f>> \in before
               PROVE  Cardinality(B(e)) < Cardinality(B(f))
    OBVIOUS
  <2>1. B(e) \in SUBSET B(f) /\ e \in B(f) /\ e \notin B(e)
    BY DEF OrdersAll
  <2> HIDE DEF B
  <2>2. Cardinality(B(e)) <= Cardinality(B(f)) /\ Cardinality(B(e)) # Cardinality(B(f))
    BY <1>2, <2>1, FS_Subset
  <2> QED
    BY <1>2, <2>2
<1>6. \A e, f \in S : <<e, f>> \in before \/ <<f, e>> \in before \/ e = f
  BY DEF OrdersAll
<1> HIDE DEF B
<1>7. \A e, f \in S : Cardinality(B(e)) = Cardinality(B(f)) => e = f
  <2> SUFFICES ASSUME NEW e \in S, NEW f \in S, Cardinality(B(e)) = Cardinality(B(f)), e # f
               PROVE  FALSE
    OBVIOUS
  <2>1. Cardinality(B(e)) < Cardinality(B(f)) \/ Cardinality(B(f)) < Cardinality(B(e))
    BY <1>5, <1>6
  <2> QED
    BY <1>2, <2>1
<1> DEFINE g == [e \in S |-> Cardinality(B(e)) + 1]
<1>8. g \in [S -> 1..n]
  BY <1>1, <1>2, <1>4
<1>9. g \in Injection(S, 1..n)
  <2>1. \A e, f \in S : g[e] = g[f] => e = f
    BY <1>2, <1>7
  <2> QED
    BY <1>8, <2>1 DEF Injection, IsInjective
<1>10. IsFiniteSet(1..n) /\ Cardinality(1..n) = n
  BY <1>1, FS_Interval
<1>11. g \in Surjection(S, 1..n)
  BY <1>9, <1>10, FS_Injection
<1>12. \A i \in 1..n : \E e \in S : g[e] = i
  BY <1>11 DEF Surjection
<1>13. \A e, f \in S : PlaceIn(S, before, e) = PlaceIn(S, before, f) => e = f
  BY <1>2, <1>3, <1>7
<1>14. \A e \in S : PlaceIn(S, before, e) \in 1..n
  BY <1>1, <1>2, <1>3, <1>4
<1>15. ASSUME NEW e \in S, NEW f \in S
       PROVE  <<e, f>> \in before <=> PlaceIn(S, before, e) < PlaceIn(S, before, f)
  <2>1. /\ PlaceIn(S, before, e) = Cardinality(B(e)) + 1 /\ Cardinality(B(e)) \in Nat
        /\ PlaceIn(S, before, f) = Cardinality(B(f)) + 1 /\ Cardinality(B(f)) \in Nat
    BY <1>2, <1>3
  <2>2. <<e, f>> \in before => Cardinality(B(e)) < Cardinality(B(f))
    BY <1>5
  <2>3. <<e, f>> \notin before => e = f \/ Cardinality(B(f)) < Cardinality(B(e))
    BY <1>5, <1>6
  <2> QED
    BY <2>1, <2>2, <2>3
<1>16. \A i \in 1..n : \E e \in S : PlaceIn(S, before, e) = i
  BY <1>3, <1>12
<1> QED
  BY <1>1, <1>13, <1>14, <1>15, <1>16

-----------------------------------------------------------------------------
(* A function that is defined from its value before: there is one.         *)
Recurs(f, a, g, m, n) == f = [i \in m..n |-> IF i = m THEN a ELSE g[<<f[i - 1], i>>]]

LEMMA RecursionHolds ==
  ASSUME NEW A, NEW a \in A, NEW g \in [A \X Nat -> A], NEW m \in Nat, NEW n \in Nat, m <= n
  PROVE  \E f \in [m..n -> A] : Recurs(f, a, g, m, n)
<1> DEFINE Follows(f, k) == \A i \in m..k : f[i] = IF i = m THEN a ELSE g[<<f[i - 1], i>>]
           Ends(k) == \E f \in [m..k -> A] : Follows(f, k)
           Bad == {k \in Nat : m <= k /\ ~Ends(k)}
<1>1. Ends(n)
  <2>1. SUFFICES ASSUME ~Ends(n)
                 PROVE  FALSE
    OBVIOUS
  <2>2. Bad \subseteq Nat /\ n \in Bad
    BY <2>1
  <2> HIDE DEF Ends
  <2>3. PICK k \in Bad : \A j \in Bad : k <= j
    BY <2>2, HasLeast
  <2>4. k \in Nat /\ m <= k /\ ~Ends(k)
    BY <2>3
  <2>5. CASE k = m
    <3>1. [i \in m..k |-> a] \in [m..k -> A] /\ Follows([i \in m..k |-> a], k)
      BY <2>5
    <3> QED
      BY <2>4, <3>1 DEF Ends
  <2>6. CASE k # m
    <3>1. k - 1 \in Nat /\ m <= k - 1 /\ k - 1 \notin Bad
      BY <2>3, <2>4, <2>6
    <3>2. Ends(k - 1)
      BY <3>1
    <3>3. PICK f \in [m..(k - 1) -> A] : Follows(f, k - 1)
      BY <3>2 DEF Ends
    <3> DEFINE h == [i \in m..k |-> IF i = k THEN g[<<f[k - 1], k>>] ELSE f[i]]
    <3>4. f[k - 1] \in A /\ g[<<f[k - 1], k>>] \in A
      BY <2>4, <3>1
    <3>5. h \in [m..k -> A]
      BY <2>4, <3>4
    <3>6. ASSUME NEW i \in m..k
          PROVE  h[i] = IF i = m THEN a ELSE g[<<h[i - 1], i>>]
      <4>1. CASE i = k
        <5>1. h[i] = g[<<f[k - 1], k>>] /\ i # m /\ h[k - 1] = f[k - 1]
          BY <2>4, <2>6, <3>1, <4>1
        <5> QED
          BY <4>1, <5>1
      <4>2. CASE i # k
        <5>1. i \in m..(k - 1) /\ h[i] = f[i] /\ (i # m => h[i - 1] = f[i - 1])
          BY <2>4, <3>1, <4>2
        <5> QED
          BY <3>3, <5>1
      <4> QED
        BY <4>1, <4>2
    <3> HIDE DEF h
    <3>7. Ends(k)
      BY <3>5, <3>6 DEF Ends
    <3> QED
      BY <2>4, <3>7
  <2> QED
    BY <2>5, <2>6
<1>2. PICK f \in [m..n -> A] : Follows(f, n)
  BY <1>1
<1>3. Recurs(f, a, g, m, n)
  BY <1>2 DEF Recurs
<1> QED
  BY <1>3

(* What FlattenSeq computes, sequence by sequence.                         *)
LEMMA FlattenSteps ==
  ASSUME NEW X, NEW ss \in Seq(Seq(X)), Len(ss) # 0
  PROVE  \E f \in [1..Len(ss) -> Seq(X)] :
           /\ FlattenSeq(ss) = f[Len(ss)]
           /\ f[1] = ss[1]
           /\ \A i \in 2..Len(ss) : f[i] = f[i - 1] \o ss[i]
<1> DEFINE n == Len(ss)
           A == Seq(X)
           g == [p \in A \X Nat |-> IF p[2] \in 1..n THEN p[1] \o ss[p[2]] ELSE p[1]]
           Is(f) == f = [i \in 1..n |-> IF i = 1 THEN ss[i] ELSE f[i - 1] \o ss[i]]
<1>1. n \in Nat /\ 1 <= n /\ 1 \in Nat /\ \A i \in 1..n : ss[i] \in A
  OBVIOUS
<1>2. g \in [A \X Nat -> A]
  BY <1>1
<1>3. PICK f \in [1..n -> A] : Recurs(f, ss[1], g, 1, n)
  <2>1. ss[1] \in A /\ n \in Nat /\ 1 <= n /\ 1 \in Nat
    BY <1>1
  <2> HIDE DEF g, A, n
  <2> QED
    BY <1>2, <2>1, RecursionHolds
<1>4. ASSUME NEW i \in 1..n, i # 1
      PROVE  g[<<f[i - 1], i>>] = f[i - 1] \o ss[i]
  <2>1. i - 1 \in 1..n /\ i \in Nat
    BY <1>1, <1>4
  <2>2. f[i - 1] \in A
    <3> HIDE DEF A, n
    <3> QED
      BY <1>3, <2>1
  <2> HIDE DEF A, n
  <2> QED
    BY <1>4, <2>1, <2>2
<1>5. Is(f)
  <2> HIDE DEF g
  <2> QED
    BY <1>3, <1>4 DEF Recurs
<1>6. FlattenSeq(ss) = (CHOOSE h : Is(h))[n]
  BY DEF FlattenSeq
<1> DEFINE h == CHOOSE x : Is(x)
<1>7. Is(h)
  <2> HIDE DEF Is
  <2> QED
    BY <1>5
<1> HIDE DEF h
<1>8. DOMAIN h = 1..n /\ h[1] = ss[1] /\ \A i \in 2..n : h[i] = h[i - 1] \o ss[i]
  <2>1. h = [i \in 1..n |-> IF i = 1 THEN ss[i] ELSE h[i - 1] \o ss[i]]
    BY <1>7
  <2>2. \A i \in 1..n : h[i] = IF i = 1 THEN ss[i] ELSE h[i - 1] \o ss[i]
    <3> DEFINE e(i) == IF i = 1 THEN ss[i] ELSE h[i - 1] \o ss[i]
    <3>1. h = [i \in 1..n |-> e(i)]
      BY <2>1
    <3> HIDE DEF e
    <3>2. \A i \in 1..n : h[i] = e(i)
      BY <3>1
    <3> QED
      BY <3>2 DEF e
  <2>3. DOMAIN h = 1..n
    BY <2>1, Zenon
  <2>4. 1 \in 1..n /\ \A i \in 2..n : i \in 1..n /\ i # 1
    BY <1>1
  <2> QED
    BY <2>2, <2>3, <2>4
<1>9. h \in [1..n -> A]
  <2> DEFINE Bad == {i \in Nat : i \in 1..n /\ h[i] \notin A}
  <2>1. SUFFICES ASSUME Bad # {}
                 PROVE  FALSE
    <3>1. SUFFICES Bad = {} => h \in [1..n -> A]
      OBVIOUS
    <3>2. \A i \in 1..n : i \in Nat
      BY <1>1
    <3>3. Bad = {} => \A i \in 1..n : h[i] \in A
      BY <3>2
    <3>4. h = [i \in 1..n |-> h[i]]
      BY <1>7
    <3> HIDE DEF A
    <3> QED
      BY <3>3, <3>4
  <2>2. PICK i \in Bad : \A j \in Bad : i <= j
    BY <2>1, HasLeast
  <2>3. i \in 1..n /\ h[i] \notin A /\ i # 1
    BY <1>1, <1>8, <2>2
  <2>4. i - 1 \in 1..n /\ h[i - 1] \in A
    BY <1>1, <2>2, <2>3
  <2>5. i \in 2..n /\ ss[i] \in A
    BY <1>1, <2>3
  <2>6. h[i] = h[i - 1] \o ss[i]
    BY <1>8, <2>5
  <2> QED
    BY <2>3, <2>4, <2>5, <2>6
<1> QED
  BY <1>6, <1>8, <1>9 DEF h
=============================================================================
