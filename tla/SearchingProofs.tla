-------------------------- MODULE SearchingProofs ---------------------------
(***************************************************************************)
(* The invariants of a search, for every value of Searching's constants:   *)
(* the comparison of two texts finds their longest common passages, the    *)
(* tallies count every document that shares more than a window, and the    *)
(* limit of results leaves out only worse documents.                       *)
(***************************************************************************)
EXTENDS Searching, SortedSetsProofs, SequenceTheorems

-----------------------------------------------------------------------------
(* Numbers.                                                                *)
LEMMA MaxIsGreatest ==
  ASSUME NEW T, T \subseteq Nat, T # {}, NEW n \in Nat, \A m \in T : m <= n
  PROVE  Max(T) \in T /\ \A m \in T : m <= Max(T)
<1> DEFINE Below == {n - m : m \in T}
<1>1. Below \subseteq Nat /\ Below # {}
  <2>1. \A m \in T : n - m \in Nat
    OBVIOUS
  <2>2. PICK m \in T : TRUE
    OBVIOUS
  <2>3. n - m \in Below
    OBVIOUS
  <2> QED
    BY <2>1, <2>3
<1>2. PICK b \in Below : \A x \in Below : b <= x
  BY <1>1, HasLeast
<1>3. PICK g \in T : b = n - g
  OBVIOUS
<1>4. \A m \in T : m <= g
  <2>1. \A m \in T : n - m \in Below
    OBVIOUS
  <2>2. \A m \in T : b <= n - m
    BY <1>2, <2>1
  <2> QED
    BY <1>3, <2>2
<1>5. \A x \in T : (\A y \in T : x >= y) => x = g
  BY <1>3, <1>4
<1>6. g \in T /\ \A y \in T : g >= y
  BY <1>3, <1>4
<1> QED
  BY <1>5, <1>6 DEF Max

LEMMA Multiples ==
  ASSUME NEW m \in Nat, NEW k \in Int, -m < m * k, m * k < m
  PROVE  k = 0
<1>1. ASSUME k >= 1
      PROVE  m * k >= m
  <2>1. PICK x \in Nat : k = x + 1
    <3>1. k - 1 \in Nat /\ k = (k - 1) + 1
      BY <1>1
    <3> QED
      BY <3>1
  <2>2. m * (x + 1) = m * x + m /\ m * x \in Nat
    OBVIOUS
  <2> QED
    BY <2>1, <2>2
<1>2. ASSUME k <= -1
      PROVE  m * k <= -m
  <2>1. PICK x \in Nat : k = -x - 1
    <3>1. -k - 1 \in Nat /\ k = -(-k - 1) - 1
      BY <1>2
    <3> QED
      BY <3>1
  <2>2. m * (-x - 1) = -(m * x) - m /\ m * x \in Nat
    OBVIOUS
  <2> QED
    BY <2>1, <2>2
<1> QED
  BY <1>1, <1>2

LEMMA Remainder ==
  ASSUME NEW x \in Int, NEW m \in Nat \ {0}
  PROVE  /\ x % m \in 0..(m - 1)
         /\ x \div m \in Int
         /\ x = m * (x \div m) + (x % m)
  BY Z3

(* One step after a position, reduced or not.                              *)
LEMMA NextPosition ==
  ASSUME NEW p \in Nat \ {0}, NEW m \in Nat \ {0, 1}
  PROVE  (p - ((p - 1) % m)) % m = 1
<1> DEFINE x == p - ((p - 1) % m)
           q == (p - 1) \div m
           d == x \div m
<1>1. (p - 1) % m \in 0..(m - 1) /\ q \in Int /\ p - 1 = m * q + ((p - 1) % m)
  <2>1. p - 1 \in Int /\ m \in Nat \ {0}
    OBVIOUS
  <2> QED
    BY <2>1, Remainder
<1>2. x \in Int /\ x = m * q + 1
  BY <1>1
<1> HIDE DEF q, x
<1>3. x % m \in 0..(m - 1) /\ d \in Int /\ x = m * d + (x % m)
  BY <1>2, Remainder
<1> HIDE DEF d
<1>4. m * (d - q) = 1 - (x % m)
  <2>1. m * (d - q) = m * d - m * q
    BY <1>1, <1>3
  <2> QED
    BY <1>1, <1>2, <1>3, <2>1
<1>5. d - q = 0
  <2>1. -m < 1 - (x % m) /\ 1 - (x % m) < m /\ d - q \in Int
    BY <1>1, <1>3
  <2> QED
    BY <1>4, <2>1, Multiples
<1>6. m * 0 = 0
  OBVIOUS
<1>7. x % m = 1
  BY <1>3, <1>4, <1>5, <1>6
<1> QED
  BY <1>7 DEF x

-----------------------------------------------------------------------------
(* Texts and their windows.                                                *)
Signs == Letters \cup Marks \cup {Blank}

CleanSign(sign) == IF sign \in Letters THEN sign ELSE Blank

(* The texts agree at a distance from two positions.                       *)
Agree(a, i, b, j, k) == CleanSign(a[i + k]) = CleanSign(b[j + k])

LEMMA SameClean ==
  ASSUME NEW a, NEW b, NEW i \in Nat, NEW j \in Nat, NEW n \in Nat
  PROVE  Clean(a, i, n) = Clean(b, j, n) <=>
           \A k \in 0..(n - 1) : Agree(a, i, b, j, k)
<1>1. ASSUME Clean(a, i, n) = Clean(b, j, n), NEW k \in 0..(n - 1)
      PROVE  Agree(a, i, b, j, k)
  <2>1. k + 1 \in 1..n /\ i + (k + 1) - 1 = i + k /\ j + (k + 1) - 1 = j + k
    OBVIOUS
  <2>2. Clean(a, i, n)[k + 1] = Clean(b, j, n)[k + 1]
    BY <1>1
  <2> QED
    BY <2>1, <2>2 DEF Clean, CleanSign, Agree
<1>2. ASSUME \A k \in 0..(n - 1) : Agree(a, i, b, j, k)
      PROVE  Clean(a, i, n) = Clean(b, j, n)
  <2>1. ASSUME NEW k \in 1..n
        PROVE  CleanSign(a[i + k - 1]) = CleanSign(b[j + k - 1])
    <3>1. k - 1 \in 0..(n - 1) /\ i + (k - 1) = i + k - 1 /\ j + (k - 1) = j + k - 1
      OBVIOUS
    <3> QED
      BY <1>2, <3>1 DEF Agree
  <2> QED
    BY <2>1 DEF Clean, CleanSign, Agree
<1> QED
  BY <1>1, <1>2

LEMMA AgreeingClean ==
  ASSUME NEW a, NEW b, NEW i \in Nat, NEW j \in Nat, NEW n \in Nat,
         \A k \in 0..(n - 1) : Agree(a, i, b, j, k)
  PROVE  Clean(a, i, n) = Clean(b, j, n)
BY SameClean

LEMMA SameLetters ==
  ASSUME NEW x, NEW y, CleanSign(x) = CleanSign(y)
  PROVE  x \in Letters <=> y \in Letters
  BY MatchAssumptions DEF CleanSign

LEMMA WindowNumbers == WindowSize \in Nat \ {0} /\ PostingThreshold \in Nat /\ BlankLimit \in Nat
  BY MatchAssumptions

(* The pairs of windows that are equal.                                    *)
LEMMA PairFacts ==
  ASSUME NEW a \in Seq(Signs), NEW b \in Seq(Signs)
  PROVE  /\ \A e \in EqualPairs(a, b) :
              /\ e = <<e[1], e[2]>>
              /\ e[1] \in 1..(Len(a) - WindowSize + 1)
              /\ e[2] \in 1..(Len(b) - WindowSize + 1)
              /\ e[2] \in EqualWindows(a, b, e[1])
              /\ e[1] \in DOMAIN Hashes(a, WindowSize)
         /\ \A i \in DOMAIN Hashes(a, WindowSize) : \A j \in EqualWindows(a, b, i) :
              <<i, j>> \in EqualPairs(a, b)
<1> USE WindowNumbers
<1>1. Len(a) \in Nat /\ Len(b) \in Nat
  OBVIOUS
<1>2. DOMAIN Hashes(a, WindowSize) \subseteq 1..(Len(a) - WindowSize + 1)
  BY <1>1 DEF Hashes
<1>3. \A i : EqualWindows(a, b, i) \subseteq 1..(Len(b) - WindowSize + 1)
  BY DEF EqualWindows, Candidates
<1>4. ASSUME NEW e \in EqualPairs(a, b)
      PROVE  \E i \in DOMAIN Hashes(a, WindowSize) : \E j \in EqualWindows(a, b, i) : e = <<i, j>>
  BY DEF EqualPairs
<1>5. \A i \in DOMAIN Hashes(a, WindowSize) : \A j \in EqualWindows(a, b, i) :
              <<i, j>> \in EqualPairs(a, b)
  BY DEF EqualPairs
<1> QED
  BY <1>2, <1>3, <1>4, <1>5

LEMMA PairsAreEqual ==
  ASSUME NEW a \in Seq(Signs), NEW b \in Seq(Signs), NEW e \in EqualPairs(a, b)
  PROVE  \A k \in 0..(WindowSize - 1) : Agree(a, e[1], b, e[2], k)
<1> DEFINE i == e[1]
           j == e[2]
<1>1. e[1] \in Nat /\ e[2] \in Nat /\ e[2] \in EqualWindows(a, b, e[1]) /\ WindowSize \in Nat
  <2>1. /\ e[1] \in 1..(Len(a) - WindowSize + 1)
        /\ e[2] \in 1..(Len(b) - WindowSize + 1)
        /\ e[2] \in EqualWindows(a, b, e[1])
    BY PairFacts
  <2> QED
    BY <2>1, WindowNumbers
<1>2. Clean(a, e[1], WindowSize) = Clean(b, e[2], WindowSize)
  BY <1>1 DEF EqualWindows
<1> HIDE DEF i, j
<1>3. \A k \in 0..(WindowSize - 1) : Agree(a, i, b, j, k)
  <2>1. i \in Nat /\ j \in Nat /\ WindowSize \in Nat /\ Clean(a, i, WindowSize) = Clean(b, j, WindowSize)
    BY <1>1, <1>2 DEF i, j
  <2> QED
    BY <2>1, SameClean
<1> QED
  BY <1>3 DEF i, j

(* All of a run of equal windows is equal.                                 *)
Covered(n) == n - 1 + WindowSize

LEMMA CoveredNumber ==
  ASSUME NEW n \in Nat \ {0}
  PROVE  Covered(n) \in Nat \ {0} /\ n <= Covered(n)
BY WindowNumbers DEF Covered

LEMMA RunsAreEqual ==
  ASSUME NEW a \in Seq(Signs), NEW b \in Seq(Signs), NEW i \in Nat, NEW j \in Nat,
         NEW n \in Nat \ {0}, \A k \in 0..(n - 1) : <<i + k, j + k>> \in EqualPairs(a, b)
  PROVE  /\ i \in 1..Len(a) /\ j \in 1..Len(b)
         /\ i + Covered(n) - 1 <= Len(a) /\ j + Covered(n) - 1 <= Len(b)
         /\ \A k \in 0..(Covered(n) - 1) : Agree(a, i, b, j, k)
<1> USE WindowNumbers DEF Covered
<1>1. <<i + (n - 1), j + (n - 1)>> \in EqualPairs(a, b) /\ <<i + 0, j + 0>> \in EqualPairs(a, b)
  <2>1. n - 1 \in 0..(n - 1) /\ 0 \in 0..(n - 1)
    OBVIOUS
  <2> QED
    BY <2>1
<1>2. /\ i + (n - 1) \in 1..(Len(a) - WindowSize + 1)
      /\ j + (n - 1) \in 1..(Len(b) - WindowSize + 1)
      /\ i + 0 \in 1..(Len(a) - WindowSize + 1)
      /\ j + 0 \in 1..(Len(b) - WindowSize + 1)
  BY <1>1, PairFacts
<1>3. Len(a) \in Nat /\ Len(b) \in Nat
  OBVIOUS
<1>4. ASSUME NEW k \in 0..(Covered(n) - 1)
      PROVE  Agree(a, i, b, j, k)
  <2>1. PICK s \in 0..(n - 1), t \in 0..(WindowSize - 1) : k = s + t
    <3>1. CASE k <= n - 1
      <4>1. k \in 0..(n - 1) /\ 0 \in 0..(WindowSize - 1) /\ k = k + 0
        BY <3>1
      <4> QED
        BY <4>1
    <3>2. CASE ~(k <= n - 1)
      <4>1. n - 1 \in 0..(n - 1) /\ k - (n - 1) \in 0..(WindowSize - 1) /\ k = (n - 1) + (k - (n - 1))
        BY <3>2
      <4> QED
        BY <4>1
    <3> QED
      BY <3>1, <3>2
  <2>2. PICK e \in EqualPairs(a, b) : e[1] = i + s /\ e[2] = j + s
    <3>1. <<i + s, j + s>> \in EqualPairs(a, b)
      OBVIOUS
    <3> QED
      BY <3>1
  <2>3. Agree(a, e[1], b, e[2], t)
    BY PairsAreEqual
  <2>4. e[1] + t = i + k /\ e[2] + t = j + k
    BY <2>1, <2>2
  <2> QED
    BY <2>3, <2>4 DEF Agree
<1> QED
  BY <1>2, <1>3, <1>4

-----------------------------------------------------------------------------
(* What a comparison looks for and what it still has to look at.           *)
Windows == [left : Nat, right : SUBSET Nat]

Rising(ms) == \A k, l \in DOMAIN ms : k < l => ms[k].left < ms[l].left

Remaining(ms) ==
  {e \in Nat \X Nat : \E k \in DOMAIN ms : e[1] = ms[k].left /\ e[2] \in ms[k].right}

(* The equal windows that are left are whole runs, and the passages of all *)
(* others have been found.                                                 *)
MatchOK ==
  LET equal == EqualPairs(from, to)
  IN  /\ from \in Seq(Signs) /\ to \in Seq(Signs)
      /\ matches \in Seq(Windows) /\ Rising(matches)
      /\ Remaining(matches) \subseteq equal
      /\ \A e \in equal : <<e[1] + 1, e[2] + 1>> \in equal =>
           (e \in Remaining(matches) <=> <<e[1] + 1, e[2] + 1>> \in Remaining(matches))
      /\ results = PassagesFrom(from, equal, equal \ Remaining(matches))

LEMMA LeftsAreFinite ==
  ASSUME NEW a \in Seq(Signs), NEW S, S \subseteq DOMAIN Hashes(a, WindowSize)
  PROVE  /\ S \subseteq Nat /\ IsFiniteSet(S)
         /\ Keyed(S, [i \in S |-> i])
<1>1. Len(a) \in Nat /\ DOMAIN Hashes(a, WindowSize) \subseteq 0..Len(a)
  BY WindowNumbers DEF Hashes
<1>2. IsFiniteSet(0..Len(a)) /\ S \in SUBSET (0..Len(a))
  BY <1>1, FS_Interval
<1>3. IsFiniteSet(S)
  BY <1>2, FS_Subset
<1> QED
  BY <1>1, <1>2, <1>3 DEF Keyed

LEMMA BuiltMatches ==
  ASSUME NEW a \in Seq(Signs), NEW b \in Seq(Signs)
  PROVE  /\ BuildMatches(a, b) \in Seq(Windows)
         /\ Rising(BuildMatches(a, b))
         /\ Remaining(BuildMatches(a, b)) = EqualPairs(a, b)
<1> DEFINE found == {i \in DOMAIN Hashes(a, WindowSize) : EqualWindows(a, b, i) # {}}
           key   == [i \in found |-> i]
           lefts == Sorted(found, key)
           n     == Cardinality(found)
           ms    == [k \in DOMAIN lefts |-> [left |-> lefts[k], right |-> EqualWindows(a, b, lefts[k])]]
<1>1. found \subseteq Nat /\ IsFiniteSet(found) /\ Keyed(found, key)
  <2>1. found \subseteq DOMAIN Hashes(a, WindowSize)
    OBVIOUS
  <2> HIDE DEF found
  <2> QED
    BY <2>1, LeftsAreFinite
<1>2. BuildMatches(a, b) = ms
  BY DEF BuildMatches
<1>3. \A i : EqualWindows(a, b, i) \in SUBSET Nat
  BY WindowNumbers DEF EqualWindows, Candidates
<1>4. \A i \in found : i \in DOMAIN Hashes(a, WindowSize)
  OBVIOUS
<1>5. \A i \in DOMAIN Hashes(a, WindowSize) : EqualWindows(a, b, i) # {} => i \in found
  OBVIOUS
<1>6. \A i \in found : key[i] = i
  OBVIOUS
<1> HIDE DEF found, key
<1>7. /\ lefts \in Seq(found) /\ Len(lefts) = n /\ n \in Nat
      /\ \A i, j \in 1..n : i < j => key[lefts[i]] < key[lefts[j]]
      /\ \A x \in found : \E i \in 1..n : lefts[i] = x
  BY <1>1, SortedProperties
<1>8. DOMAIN lefts = 1..n /\ \A k \in 1..n : lefts[k] \in found
  BY <1>7
<1> HIDE DEF lefts, n
<1>9. \A k \in 1..n : ms[k] = [left |-> lefts[k], right |-> EqualWindows(a, b, lefts[k])]
  BY <1>8
<1>10. ms \in [1..n -> Windows]
  BY <1>1, <1>3, <1>8 DEF Windows
<1>11. ms \in Seq(Windows) /\ DOMAIN ms = 1..n
  BY <1>7, <1>10
<1>12. Rising(ms)
  BY <1>6, <1>7, <1>8, <1>9, <1>11 DEF Rising
<1> HIDE DEF ms
<1>13. ASSUME NEW e \in Remaining(ms)
       PROVE  e \in EqualPairs(a, b)
  <2>1. PICK k \in 1..n : e = <<e[1], e[2]>> /\ e[1] = ms[k].left /\ e[2] \in ms[k].right
    BY <1>11 DEF Remaining
  <2>2. e[1] \in DOMAIN Hashes(a, WindowSize) /\ e[2] \in EqualWindows(a, b, e[1])
    <3>1. ms[k].left = lefts[k] /\ ms[k].right = EqualWindows(a, b, lefts[k])
      <4>1. ms[k] = [left |-> lefts[k], right |-> EqualWindows(a, b, lefts[k])]
        BY <1>9
      <4> QED
        BY <4>1
    <3>2. lefts[k] \in DOMAIN Hashes(a, WindowSize)
      BY <1>4, <1>8
    <3> QED
      BY <2>1, <3>1, <3>2
  <2> QED
    BY <2>1, <2>2, PairFacts
<1>14. ASSUME NEW e \in EqualPairs(a, b)
       PROVE  e \in Remaining(ms)
  <2>1. /\ e = <<e[1], e[2]>> /\ e[2] \in EqualWindows(a, b, e[1])
        /\ e[1] \in DOMAIN Hashes(a, WindowSize)
    BY PairFacts
  <2>2. PICK k \in 1..n : lefts[k] = e[1]
    BY <1>5, <1>7, <2>1
  <2>3. e[1] \in Nat /\ e[2] \in Nat
    BY <1>1, <1>3, <1>8, <2>1, <2>2
  <2> QED
    BY <1>9, <1>11, <2>1, <2>2, <2>3 DEF Remaining
<1> QED
  BY <1>2, <1>11, <1>12, <1>13, <1>14

LEMMA NothingFrom ==
  ASSUME NEW a, NEW equal
  PROVE  PassagesFrom(a, equal, {}) = {}
BY DEF PassagesFrom

(* A comparison begins with all pairs of equal windows.                    *)
LEMMA StartedMatch ==
  ASSUME NEW a \in Seq(Signs), NEW b \in Seq(Signs), StartMatch(a, b)
  PROVE  /\ MatchOK'
         /\ from' = IF Inverted(a, b) THEN b ELSE a
         /\ to' = IF Inverted(a, b) THEN a ELSE b
<1>1. /\ from' = IF Inverted(a, b) THEN b ELSE a
      /\ to' = IF Inverted(a, b) THEN a ELSE b
      /\ matches' = BuildMatches(from', to')
      /\ results' = {}
  BY DEF StartMatch
<1>2. from' \in Seq(Signs) /\ to' \in Seq(Signs)
  BY <1>1
<1>3. /\ matches' \in Seq(Windows) /\ Rising(matches')
      /\ Remaining(matches') = EqualPairs(from', to')
  BY <1>1, <1>2, BuiltMatches
<1>4. PassagesFrom(from', EqualPairs(from', to'), EqualPairs(from', to') \ EqualPairs(from', to')) = {}
  BY NothingFrom
<1> QED
  BY <1>1, <1>2, <1>3, <1>4 DEF MatchOK

(* The windows of an empty text.                                           *)
LEMMA EmptyMatch ==
  ASSUME from = <<>>, to = <<>>, matches = <<>>, results = {}
  PROVE  MatchOK
<1>1. from \in Seq(Signs) /\ to \in Seq(Signs) /\ Len(from) = 0
  BY EmptySeq
<1>2. EqualPairs(from, to) = {}
  <2>1. ASSUME NEW e \in EqualPairs(from, to)
        PROVE  FALSE
    <3>1. e[1] \in 1..(Len(from) - WindowSize + 1)
      BY <1>1, PairFacts
    <3> QED
      BY <1>1, <3>1, WindowNumbers
  <2> QED
    BY <2>1
<1>3. matches \in Seq(Windows) /\ DOMAIN matches = {}
  BY EmptySeq
<1>4. Rising(matches) /\ Remaining(matches) = {}
  BY <1>3 DEF Rising, Remaining
<1>5. PassagesFrom(from, {}, {}) = {}
  BY NothingFrom
<1> QED
  BY <1>1, <1>2, <1>3, <1>4, <1>5 DEF MatchOK

-----------------------------------------------------------------------------
(* One run of equal windows is taken from beginning to end.                *)
Run(i, j, n) == {<<i + k, j + k>> : k \in 0..(n - 1)}

(* The longest run from a pair is the only one.                            *)
LEMMA OneLongest ==
  ASSUME NEW equal, NEW i \in Nat, NEW j \in Nat, NEW m \in Nat, NEW n \in Nat,
         IsLongest(equal, i, j, m), IsLongest(equal, i, j, n)
  PROVE  m = n
<1>1. ~(m < n)
  <2>1. m < n => m \in 0..(n - 1)
    OBVIOUS
  <2> QED
    BY <2>1 DEF IsLongest
<1>2. ~(n < m)
  <2>1. n < m => n \in 0..(m - 1)
    OBVIOUS
  <2> QED
    BY <2>1 DEF IsLongest
<1> QED
  BY <1>1, <1>2

(* Only the first pair of a run begins it.                                 *)
LEMMA PassagesOfRun ==
  ASSUME NEW a, NEW equal, NEW i \in Nat, NEW j \in Nat, NEW n \in DOMAIN a, n \in Nat \ {0},
         DOMAIN a \subseteq Nat, IsLongest(equal, i, j, n)
  PROVE  PassagesFrom(a, equal, Run(i, j, n)) = Trimmed(a, i, j, n - 1 + WindowSize)
<1> DEFINE Runs == {x \in Run(i, j, n) \X DOMAIN a : IsLongest(equal, x[1][1], x[1][2], x[2])}
<1>1. ASSUME NEW x \in Runs
      PROVE  x = <<<<i, j>>, n>>
  <2>1. PICK k \in 0..(n - 1), m \in DOMAIN a :
          x = <<<<i + k, j + k>>, m>> /\ IsLongest(equal, i + k, j + k, m)
    BY DEF Run
  <2>2. k = 0
    <3>1. SUFFICES ASSUME k # 0
                   PROVE  FALSE
      OBVIOUS
    <3>2. k - 1 \in 0..(n - 1) /\ i + (k - 1) = i + k - 1 /\ j + (k - 1) = j + k - 1
      BY <3>1
    <3>3. <<i + k - 1, j + k - 1>> \in equal
      BY <3>2 DEF IsLongest
    <3> QED
      BY <2>1, <3>3 DEF IsLongest
  <2>3. i + k = i /\ j + k = j
    BY <2>2
  <2>4. m = n
    BY <2>1, <2>3, OneLongest
  <2> QED
    BY <2>1, <2>3, <2>4
<1>2. <<<<i, j>>, n>> \in Runs
  <2>1. 0 \in 0..(n - 1) /\ i + 0 = i /\ j + 0 = j
    OBVIOUS
  <2>2. <<i, j>> \in Run(i, j, n)
    BY <2>1 DEF Run
  <2> QED
    BY <2>2
<1>3. Runs = {<<<<i, j>>, n>>}
  BY <1>1, <1>2
<1>4. PassagesFrom(a, equal, Run(i, j, n)) =
        UNION {Trimmed(a, r[1][1], r[1][2], r[2] - 1 + WindowSize) : r \in Runs}
  BY DEF PassagesFrom
<1> HIDE DEF Runs
<1> QED
  BY <1>3, <1>4

LEMMA PassagesFromBoth ==
  ASSUME NEW a, NEW equal, NEW S, NEW T
  PROVE  PassagesFrom(a, equal, S \cup T) = PassagesFrom(a, equal, S) \cup PassagesFrom(a, equal, T)
BY DEF PassagesFrom

LEMMA LongestContinues ==
  ASSUME matches \in Seq(Windows), matches # <<>>, NEW right, NEW n,
         n = Max({m \in DOMAIN matches : Continues(right, m)})
  PROVE  /\ n \in 1..Len(matches) /\ Continues(right, n)
         /\ n + 1 \in DOMAIN matches => ~Continues(right, n + 1)
<1> DEFINE Lengths == {m \in DOMAIN matches : Continues(right, m)}
<1>1. Len(matches) \in Nat \ {0} /\ DOMAIN matches = 1..Len(matches)
  BY EmptySeq
<1>2. 1 \in Lengths
  BY <1>1 DEF Continues
<1>3. Lengths \subseteq Nat /\ \A m \in Lengths : m <= Len(matches)
  BY <1>1
<1>4. n \in Lengths /\ \A m \in Lengths : m <= n
  BY <1>1, <1>2, <1>3, MaxIsGreatest
<1>5. n \in 1..Len(matches) /\ Continues(right, n)
  BY <1>1, <1>4
<1>6. n + 1 \notin Lengths
  <2> HIDE DEF Lengths
  <2> QED
    BY <1>1, <1>4, <1>5
<1> QED
  BY <1>5, <1>6

(* What TakeRun takes: the whole run, and it is a longest one.             *)
LEMMA TakenRun ==
  ASSUME MatchOK, matches # <<>>, NEW right \in matches[1].right,
         NEW n \in 1..Len(matches), Continues(right, n),
         n + 1 \in DOMAIN matches => ~Continues(right, n + 1)
  PROVE  /\ n \in 1..Len(matches) /\ matches[1].left \in Nat /\ right \in Nat
         /\ \A k \in 1..n : matches[k].left = matches[1].left + k - 1 /\ right + k - 1 \in matches[k].right
         /\ Run(matches[1].left, right, n) \subseteq Remaining(matches)
         /\ IsLongest(EqualPairs(from, to), matches[1].left, right, n)
<1> DEFINE left == matches[1].left
<1>1. matches \in Seq(Windows) /\ Len(matches) \in Nat \ {0} /\ DOMAIN matches = 1..Len(matches)
  BY EmptySeq DEF MatchOK
<1>2. ASSUME NEW k \in 1..Len(matches)
      PROVE  matches[k].left \in Nat /\ matches[k].right \in SUBSET Nat
  <2>1. matches[k] \in Windows
    BY <1>1, ElementOfSeq
  <2> QED
    BY <2>1 DEF Windows
<1>3. left \in Nat /\ right \in Nat
  BY <1>1, <1>2
<1>5. n \in 1..Len(matches) /\ n \in Nat \ {0} /\ Continues(right, n)
  BY <1>1
<1>6. ASSUME NEW k \in 1..n
      PROVE  matches[k].left = left + k - 1 /\ right + k - 1 \in matches[k].right
  <2>1. CASE k = 1
    BY <1>3, <2>1
  <2>2. CASE k # 1
    <3>1. k - 1 \in 1..(n - 1) /\ k - 1 + 1 = k
      BY <1>5, <2>2
    <3>2. matches[k].left = left + (k - 1) /\ right + (k - 1) \in matches[k].right
      BY <1>5, <3>1 DEF Continues
    <3> QED
      BY <1>3, <3>2
  <2> QED
    BY <2>1, <2>2
<1>7. ASSUME NEW k \in 0..(n - 1)
      PROVE  <<left + k, right + k>> \in Remaining(matches)
  <2>1. k + 1 \in 1..n /\ k + 1 \in DOMAIN matches /\ left + (k + 1) - 1 = left + k /\ right + (k + 1) - 1 = right + k
    BY <1>1, <1>3, <1>5
  <2>2. matches[k + 1].left = left + k /\ right + k \in matches[k + 1].right
    BY <1>6, <2>1
  <2>3. left + k \in Nat /\ right + k \in Nat
    BY <1>3
  <2> QED
    BY <2>1, <2>2, <2>3 DEF Remaining
<1> DEFINE equal == EqualPairs(from, to)
<1>8. /\ Remaining(matches) \subseteq equal
      /\ \A e \in equal : <<e[1] + 1, e[2] + 1>> \in equal =>
           (e \in Remaining(matches) <=> <<e[1] + 1, e[2] + 1>> \in Remaining(matches))
      /\ Rising(matches)
  BY DEF MatchOK
<1> HIDE DEF left, equal
<1>9. <<left - 1, right - 1>> \notin equal
  <2>1. SUFFICES ASSUME <<left - 1, right - 1>> \in equal
                 PROVE  FALSE
    OBVIOUS
  <2>2. <<left + 0, right + 0>> \in Remaining(matches)
    <3>1. 0 \in 0..(n - 1)
      BY <1>5
    <3> QED
      BY <1>7, <3>1
  <2>3. left - 1 + 1 = left + 0 /\ right - 1 + 1 = right + 0
    BY <1>3
  <2>4. <<left - 1, right - 1>> \in Remaining(matches)
    BY <1>8, <2>1, <2>2, <2>3
  <2>5. PICK k \in 1..Len(matches) : left - 1 = matches[k].left
    BY <1>1, <2>4 DEF Remaining
  <2>6. matches[1].left = left /\ 1 \in DOMAIN matches
    BY <1>1 DEF left
  <2>7. k # 1 /\ 1 < k
    BY <1>3, <2>5, <2>6
  <2>8. matches[1].left < matches[k].left
    BY <1>1, <1>8, <2>7 DEF Rising
  <2> QED
    BY <1>3, <2>5, <2>6, <2>8
<1>10. <<left + n, right + n>> \notin equal
  <2>1. SUFFICES ASSUME <<left + n, right + n>> \in equal
                 PROVE  FALSE
    OBVIOUS
  <2>2. <<left + (n - 1), right + (n - 1)>> \in Remaining(matches)
    <3>1. n - 1 \in 0..(n - 1)
      BY <1>5
    <3> QED
      BY <1>7, <3>1
  <2>3. left + (n - 1) + 1 = left + n /\ right + (n - 1) + 1 = right + n
    BY <1>3, <1>5
  <2>4. <<left + n, right + n>> \in Remaining(matches)
    <3> DEFINE e == <<left + (n - 1), right + (n - 1)>>
    <3>1. e \in Remaining(matches) /\ e \in equal
      BY <1>8, <2>2
    <3>2. e[1] + 1 = left + n /\ e[2] + 1 = right + n
      BY <2>3
    <3> HIDE DEF e
    <3>3. <<e[1] + 1, e[2] + 1>> \in equal
      BY <2>1, <3>2
    <3>4. <<e[1] + 1, e[2] + 1>> \in Remaining(matches)
      BY <1>8, <3>1, <3>3
    <3> QED
      BY <3>2, <3>4
  <2>5. PICK k \in 1..Len(matches) : left + n = matches[k].left /\ right + n \in matches[k].right
    BY <1>1, <2>4 DEF Remaining
  <2>6. matches[n].left = left + n - 1 /\ n \in 1..Len(matches)
    BY <1>5, <1>6 DEF left
  <2>7. \A x, y \in 1..Len(matches) : x < y => matches[x].left < matches[y].left
    BY <1>1, <1>8 DEF Rising
  <2>8. n < k
    <3>1. ~(k < n)
      <4>1. k < n => matches[k].left < matches[n].left
        BY <2>6, <2>7
      <4> QED
        BY <1>3, <1>5, <2>5, <2>6, <4>1
    <3>2. k # n
      BY <1>3, <1>5, <2>5, <2>6
    <3> QED
      BY <1>1, <1>5, <3>1, <3>2
  <2>9. k = n + 1
    <3>1. SUFFICES ASSUME n + 1 < k
                   PROVE  FALSE
      BY <1>5, <2>8
    <3>2. n + 1 \in 1..Len(matches) /\ n < n + 1
      BY <1>1, <1>5, <3>1
    <3>3. matches[n].left < matches[n + 1].left /\ matches[n + 1].left < matches[k].left
      BY <2>6, <2>7, <3>1, <3>2
    <3>4. matches[n + 1].left \in Nat
      BY <1>2, <3>2
    <3> QED
      BY <1>1, <1>3, <1>5, <2>5, <2>6, <3>3, <3>4
  <2>10. Continues(right, n + 1)
    <3>1. ASSUME NEW m \in 1..(n + 1 - 1)
          PROVE  matches[m + 1].left = matches[1].left + m /\ right + m \in matches[m + 1].right
      <4>1. CASE m = n
        BY <2>5, <2>9, <4>1 DEF left
      <4>2. CASE m # n
        <5>1. m \in 1..(n - 1)
          BY <1>5, <4>2
        <5> QED
          BY <1>5, <5>1 DEF Continues
      <4> QED
        BY <4>1, <4>2
    <3>2. \A m \in 1..(n + 1 - 1) :
            /\ matches[m + 1].left = matches[1].left + m
            /\ right + m \in matches[m + 1].right
      BY <3>1
    <3> QED
      BY <3>2 DEF Continues
  <2>11. n + 1 \in DOMAIN matches
    BY <1>1, <2>9
  <2> QED
    BY <2>10, <2>11
<1>11. Run(left, right, n) \subseteq Remaining(matches)
  BY <1>7 DEF Run
<1>12. IsLongest(equal, left, right, n)
  BY <1>7, <1>8, <1>9, <1>10 DEF IsLongest
<1> QED
  BY <1>3, <1>5, <1>6, <1>11, <1>12 DEF left, equal

LEMMA RunIsClosed ==
  ASSUME NEW equal, NEW i \in Nat, NEW j \in Nat, NEW n \in Nat \ {0}, IsLongest(equal, i, j, n),
         NEW e \in equal, e = <<e[1], e[2]>>, e[1] \in Nat, e[2] \in Nat,
         <<e[1] + 1, e[2] + 1>> \in equal
  PROVE  e \in Run(i, j, n) <=> <<e[1] + 1, e[2] + 1>> \in Run(i, j, n)
<1>1. ASSUME e \in Run(i, j, n)
      PROVE  <<e[1] + 1, e[2] + 1>> \in Run(i, j, n)
  <2>1. PICK k \in 0..(n - 1) : e = <<i + k, j + k>>
    BY <1>1 DEF Run
  <2>2. e[1] + 1 = i + (k + 1) /\ e[2] + 1 = j + (k + 1)
    BY <2>1
  <2>3. k + 1 # n
    BY <2>2 DEF IsLongest
  <2>4. k + 1 \in 0..(n - 1)
    BY <2>3
  <2> QED
    BY <2>2, <2>4 DEF Run
<1>2. ASSUME <<e[1] + 1, e[2] + 1>> \in Run(i, j, n)
      PROVE  e \in Run(i, j, n)
  <2>1. PICK k \in 0..(n - 1) : <<e[1] + 1, e[2] + 1>> = <<i + k, j + k>>
    BY <1>2 DEF Run
  <2>2. e[1] = i + k - 1 /\ e[2] = j + k - 1
    BY <2>1
  <2>3. k # 0
    <3>1. SUFFICES ASSUME k = 0
                   PROVE  FALSE
      OBVIOUS
    <3>2. e[1] = i - 1 /\ e[2] = j - 1
      BY <2>2, <3>1
    <3> QED
      BY <3>2 DEF IsLongest
  <2>4. k - 1 \in 0..(n - 1) /\ e[1] = i + (k - 1) /\ e[2] = j + (k - 1)
    BY <2>2, <2>3
  <2> QED
    BY <2>4 DEF Run
<1> QED
  BY <1>1, <1>2

Shortened(right, n) ==
  [k \in DOMAIN matches |->
     IF k > n THEN matches[k] ELSE [matches[k] EXCEPT !.right = @ \ {right + k - 1}]]

LEMMA RemovedRun ==
  ASSUME MatchOK, NEW right \in Nat, NEW left \in Nat, NEW n \in 1..Len(matches),
         \A k \in 1..n : matches[k].left = left + k - 1 /\ right + k - 1 \in matches[k].right
  PROVE  /\ Shortened(right, n) \in Seq(Windows) /\ Rising(Shortened(right, n))
         /\ Remaining(Shortened(right, n)) = Remaining(matches) \ Run(left, right, n)
<1> DEFINE ms == Shortened(right, n)
<1>1. matches \in Seq(Windows) /\ Len(matches) \in Nat /\ DOMAIN matches = 1..Len(matches)
  BY DEF MatchOK
<1>2. n \in Nat \ {0}
  BY <1>1
<1>3. ASSUME NEW k \in 1..Len(matches)
      PROVE  /\ matches[k] \in Windows /\ ms[k] \in Windows
             /\ ms[k].left = matches[k].left /\ ms[k].left \in Nat
             /\ ms[k].right = IF k > n THEN matches[k].right ELSE matches[k].right \ {right + k - 1}
  <2>1. matches[k] \in Windows
    BY <1>1, ElementOfSeq
  <2>2. ms[k] = IF k > n THEN matches[k]
                ELSE [matches[k] EXCEPT !.right = matches[k].right \ {right + k - 1}]
    BY <1>1 DEF Shortened
  <2>3. CASE k > n
    BY <2>1, <2>2, <2>3 DEF Windows
  <2>4. CASE ~(k > n)
    <3>1. ms[k] = [matches[k] EXCEPT !.right = matches[k].right \ {right + k - 1}]
      BY <2>2, <2>4
    <3> QED
      BY <2>1, <2>4, <3>1 DEF Windows
  <2> QED
    BY <2>3, <2>4
<1>4. DOMAIN ms = 1..Len(matches) /\ ms \in Seq(Windows)
  <2>1. ms = [k \in 1..Len(matches) |-> ms[k]]
    BY <1>1 DEF Shortened
  <2>2. \A k \in 1..Len(matches) : ms[k] \in Windows
    BY <1>3
  <2>3. ms \in [1..Len(matches) -> Windows]
    BY <2>1, <2>2
  <2> QED
    BY <1>1, <2>3
<1>5. \A x, y \in 1..Len(matches) : x < y => matches[x].left < matches[y].left
  BY <1>1 DEF MatchOK, Rising
<1> HIDE DEF ms
<1>6. Rising(ms)
  BY <1>3, <1>4, <1>5 DEF Rising
<1>7. ASSUME NEW e \in Remaining(ms)
      PROVE  e \in Remaining(matches) /\ e \notin Run(left, right, n)
  <2>1. PICK k \in 1..Len(matches) : e[1] = ms[k].left /\ e[2] \in ms[k].right
    BY <1>4 DEF Remaining
  <2>2. e[1] = matches[k].left /\ e[2] \in matches[k].right /\ e \in Nat \X Nat
    BY <1>3, <2>1 DEF Remaining
  <2>3. e \in Remaining(matches)
    BY <1>1, <2>2 DEF Remaining
  <2>4. ASSUME NEW m \in 0..(n - 1), e = <<left + m, right + m>>
        PROVE  FALSE
    <3>1. m + 1 \in 1..n /\ m + 1 \in 1..Len(matches) /\ left + (m + 1) - 1 = left + m /\ right + (m + 1) - 1 = right + m
      BY <1>1, <1>2
    <3>2. matches[m + 1].left = left + m
      BY <3>1
    <3>3. matches[k].left = matches[m + 1].left
      BY <2>2, <2>4, <3>2
    <3>4. k = m + 1
      <4>1. ~(k < m + 1) /\ ~(m + 1 < k)
        <5>1. PICK j \in 1..Len(matches) : j = m + 1
          BY <3>1
        <5>2. matches[k].left \in Nat /\ matches[j].left \in Nat /\ matches[k].left = matches[j].left
          BY <1>3, <3>3, <5>1
        <5>3. ~(k < j) /\ ~(j < k)
          BY <1>5, <5>2
        <5> QED
          BY <5>1, <5>3
      <4> QED
        BY <1>1, <3>1, <4>1
    <3>5. ms[m + 1].right = matches[m + 1].right \ {right + m}
      <4>1. ~(m + 1 > n)
        BY <1>2, <3>1
      <4> QED
        BY <1>3, <3>1, <4>1
    <3> QED
      BY <2>1, <2>4, <3>4, <3>5
  <2> QED
    BY <2>3, <2>4 DEF Run
<1>8. ASSUME NEW e \in Remaining(matches), e \notin Run(left, right, n)
      PROVE  e \in Remaining(ms)
  <2>1. PICK k \in 1..Len(matches) : e[1] = matches[k].left /\ e[2] \in matches[k].right
    BY <1>1 DEF Remaining
  <2>2. e \in Nat \X Nat /\ e = <<e[1], e[2]>>
    BY DEF Remaining
  <2>3. e[2] \in ms[k].right
    <3>1. CASE k > n
      BY <1>3, <2>1, <3>1
    <3>2. CASE ~(k > n)
      <4>1. k \in 1..n /\ k - 1 \in 0..(n - 1) /\ left + (k - 1) = left + k - 1 /\ right + (k - 1) = right + k - 1
        BY <1>1, <1>2, <3>2
      <4>2. e[1] = left + (k - 1)
        BY <2>1, <4>1
      <4>3. <<left + (k - 1), right + (k - 1)>> \in Run(left, right, n)
        BY <4>1 DEF Run
      <4>4. e[2] # right + k - 1
        BY <2>2, <4>1, <4>2, <4>3, <1>8
      <4> QED
        BY <1>3, <2>1, <3>2, <4>4
    <3> QED
      BY <3>1, <3>2
  <2>4. e[1] = ms[k].left
    BY <1>3, <2>1
  <2> QED
    BY <1>4, <2>2, <2>3, <2>4 DEF Remaining
<1> QED
  BY <1>4, <1>6, <1>7, <1>8 DEF ms

LEMMA TookRun ==
  ASSUME MatchOK, matches # <<>>, NEW right \in matches[1].right, TakeRun(right),
         from' = from, to' = to
  PROVE  MatchOK'
<1> DEFINE n     == Max({m \in DOMAIN matches : Continues(right, m)})
           left  == matches[1].left
           equal == EqualPairs(from, to)
           run   == Run(left, right, n)
<1>1. /\ matches' = [k \in DOMAIN matches |->
                       IF k > n THEN matches[k]
                       ELSE [matches[k] EXCEPT !.right = @ \ {right + k - 1}]]
      /\ results' = results \cup Trimmed(from, left, right, n - 1 + WindowSize)
  BY DEF TakeRun
<1>2. matches \in Seq(Windows) /\ Len(matches) \in Nat
  BY DEF MatchOK
<1>3. /\ n \in 1..Len(matches) /\ Continues(right, n)
      /\ n + 1 \in DOMAIN matches => ~Continues(right, n + 1)
  BY <1>2, LongestContinues
<1> HIDE DEF n
<1>4. /\ left \in Nat /\ right \in Nat
      /\ \A k \in 1..n : matches[k].left = left + k - 1 /\ right + k - 1 \in matches[k].right
      /\ run \subseteq Remaining(matches)
      /\ IsLongest(equal, left, right, n)
  BY <1>3, TakenRun
<1> HIDE DEF left
<1>5. /\ matches' \in Seq(Windows) /\ Rising(matches')
      /\ Remaining(matches') = Remaining(matches) \ run
  <2>1. matches' = Shortened(right, n)
    BY <1>1 DEF Shortened
  <2> QED
    BY <1>3, <1>4, <2>1, RemovedRun
<1>6. /\ from \in Seq(Signs) /\ to \in Seq(Signs)
      /\ Remaining(matches) \subseteq equal
      /\ \A e \in equal : <<e[1] + 1, e[2] + 1>> \in equal =>
           (e \in Remaining(matches) <=> <<e[1] + 1, e[2] + 1>> \in Remaining(matches))
      /\ results = PassagesFrom(from, equal, equal \ Remaining(matches))
  BY DEF MatchOK
<1>7. n \in Nat \ {0} /\ n \in DOMAIN from /\ DOMAIN from \subseteq Nat
  <2>1. \A k \in 0..(n - 1) : <<left + k, right + k>> \in equal
    BY <1>4 DEF IsLongest
  <2>2. n \in Nat \ {0}
    BY <1>2, <1>3
  <2> HIDE DEF equal
  <2>3. left \in 1..Len(from) /\ left + Covered(n) - 1 <= Len(from)
    BY <1>4, <1>6, <2>1, <2>2, RunsAreEqual DEF equal
  <2>4. n <= Covered(n) /\ Covered(n) \in Nat
    BY <2>2, CoveredNumber
  <2>5. DOMAIN from = 1..Len(from) /\ Len(from) \in Nat
    BY <1>6
  <2>6. n <= Len(from)
    BY <2>2, <2>3, <2>4, <2>5
  <2> QED
    BY <2>2, <2>5, <2>6
<1>8. \A e \in equal : e = <<e[1], e[2]>> /\ e[1] \in Nat /\ e[2] \in Nat
  <2>1. \A e \in equal :
              /\ e = <<e[1], e[2]>>
              /\ e[1] \in 1..(Len(from) - WindowSize + 1)
              /\ e[2] \in 1..(Len(to) - WindowSize + 1)
    BY <1>6, PairFacts
  <2> QED
    BY <1>6, <2>1, WindowNumbers
<1>9. PassagesFrom(from, equal, run) = Trimmed(from, left, right, n - 1 + WindowSize)
  BY <1>4, <1>7, PassagesOfRun
<1> HIDE DEF equal, run
<1>10. ASSUME NEW e \in equal, <<e[1] + 1, e[2] + 1>> \in equal
       PROVE  e \in Remaining(matches') <=> <<e[1] + 1, e[2] + 1>> \in Remaining(matches')
  <2>1. e \in run <=> <<e[1] + 1, e[2] + 1>> \in run
    BY <1>4, <1>7, <1>8, <1>10, RunIsClosed DEF run
  <2> QED
    BY <1>5, <1>6, <1>10, <2>1
<1>11. equal \ Remaining(matches') = (equal \ Remaining(matches)) \cup run
  BY <1>4, <1>5, <1>6
<1>12. results' = PassagesFrom(from, equal, equal \ Remaining(matches'))
  <2>1. PassagesFrom(from, equal, (equal \ Remaining(matches)) \cup run) =
          PassagesFrom(from, equal, equal \ Remaining(matches)) \cup PassagesFrom(from, equal, run)
    BY PassagesFromBoth
  <2> QED
    BY <1>1, <1>6, <1>9, <1>11, <2>1
<1>13. Remaining(matches') \subseteq equal
  BY <1>5, <1>6
<1> QED
  BY <1>5, <1>6, <1>10, <1>12, <1>13 DEF MatchOK, equal

LEMMA DroppedMatch ==
  ASSUME MatchOK, DropMatch
  PROVE  MatchOK'
<1>1. /\ matches \in Seq(Windows) /\ matches # <<>> /\ matches[1].right = {}
      /\ matches' = Tail(matches) /\ from' = from /\ to' = to /\ results' = results
  BY DEF MatchOK, DropMatch
<1>2. Len(matches) \in Nat \ {0} /\ DOMAIN matches = 1..Len(matches)
  BY <1>1, EmptySeq
<1>3. /\ matches' \in Seq(Windows) /\ Len(matches') = Len(matches) - 1
      /\ \A k \in 1..Len(matches') : matches'[k] = matches[k + 1]
  BY <1>1, HeadTailProperties
<1>4. DOMAIN matches' = 1..(Len(matches) - 1)
  BY <1>3
<1>5. Rising(matches')
  <2>1. \A k \in 1..(Len(matches) - 1) : k + 1 \in 1..Len(matches)
    BY <1>2
  <2>2. \A x, y \in 1..Len(matches) : x < y => matches[x].left < matches[y].left
    BY <1>2 DEF MatchOK, Rising
  <2> QED
    BY <1>2, <1>3, <1>4, <2>1, <2>2 DEF Rising
<1>6. Remaining(matches') = Remaining(matches)
  <2>1. ASSUME NEW e \in Remaining(matches')
        PROVE  e \in Remaining(matches)
    <3>1. PICK k \in 1..(Len(matches) - 1) : e[1] = matches'[k].left /\ e[2] \in matches'[k].right
      BY <1>4 DEF Remaining
    <3>2. k + 1 \in 1..Len(matches) /\ matches'[k] = matches[k + 1] /\ e \in Nat \X Nat
      BY <1>2, <1>3 DEF Remaining
    <3> QED
      BY <1>2, <3>1, <3>2 DEF Remaining
  <2>2. ASSUME NEW e \in Remaining(matches)
        PROVE  e \in Remaining(matches')
    <3>1. PICK k \in 1..Len(matches) : e[1] = matches[k].left /\ e[2] \in matches[k].right
      BY <1>2 DEF Remaining
    <3>2. k # 1
      BY <1>1, <3>1
    <3>3. k - 1 \in 1..(Len(matches) - 1) /\ k - 1 + 1 = k
      BY <1>2, <3>2
    <3>4. matches'[k - 1] = matches[k] /\ e \in Nat \X Nat
      BY <1>3, <3>3 DEF Remaining
    <3> QED
      BY <1>4, <3>1, <3>3, <3>4 DEF Remaining
  <2> QED
    BY <2>1, <2>2
<1> QED
  BY <1>1, <1>3, <1>5, <1>6 DEF MatchOK

-----------------------------------------------------------------------------
(* What is found.                                                          *)
Passages == [left : Nat, right : Nat, length : Nat]

TrimmedTo(a, i, j, p, s, t) ==
  /\ a[i + s] \in Letters /\ a[i + t] \in Letters
  /\ t - s + 1 >= WindowSize
  /\ p = [left |-> i + s, right |-> j + s, length |-> t - s + 1]

LEMMA TrimmedPassage ==
  ASSUME NEW a, NEW i \in Nat, NEW j \in Nat, NEW n \in Nat, NEW p \in Trimmed(a, i, j, n)
  PROVE  \E s, t \in 0..(n - 1) : TrimmedTo(a, i, j, p, s, t)
<1> DEFINE letters == {k \in 0..(n - 1) : a[i + k] \in Letters}
           s == Min(letters)
           t == Max(letters)
<1>1. letters # {} /\ ~(t - s + 1 < WindowSize) /\ p = [left |-> i + s, right |-> j + s, length |-> t - s + 1]
  BY DEF Trimmed
<1>2. letters \subseteq Nat /\ \A m \in letters : m <= n
  OBVIOUS
<1>3. s \in letters /\ t \in letters
  <2> HIDE DEF letters
  <2> QED
    BY <1>1, <1>2, MinIsLeast, MaxIsGreatest
<1> HIDE DEF s, t
<1>4. s \in 0..(n - 1) /\ t \in 0..(n - 1) /\ a[i + s] \in Letters /\ a[i + t] \in Letters
  BY <1>3
<1>5. t - s + 1 >= WindowSize
  BY <1>1, <1>4, WindowNumbers
<1> QED
  BY <1>1, <1>4, <1>5 DEF TrimmedTo

LEMMA LongestRun ==
  ASSUME NEW a \in Seq(Signs), NEW b \in Seq(Signs), NEW i, NEW j, NEW n \in DOMAIN a,
         <<i, j>> \in EqualPairs(a, b), IsLongest(EqualPairs(a, b), i, j, n)
  PROVE  /\ i \in 1..Len(a) /\ j \in 1..Len(b) /\ i \in Nat /\ j \in Nat
         /\ n \in Nat \ {0} /\ Covered(n) \in Nat
         /\ i + Covered(n) - 1 <= Len(a) /\ j + Covered(n) - 1 <= Len(b)
         /\ \A k \in 0..(Covered(n) - 1) : Agree(a, i, b, j, k)
<1>1. n \in Nat \ {0} /\ Len(a) \in Nat /\ Len(b) \in Nat
  OBVIOUS
<1>2. i \in Nat /\ j \in Nat
  <2>1. /\ <<i, j>>[1] \in 1..(Len(a) - WindowSize + 1)
        /\ <<i, j>>[2] \in 1..(Len(b) - WindowSize + 1)
    BY PairFacts
  <2> QED
    BY <1>1, <2>1, WindowNumbers
<1>3. \A k \in 0..(n - 1) : <<i + k, j + k>> \in EqualPairs(a, b)
  BY DEF IsLongest
<1>4. /\ i \in 1..Len(a) /\ j \in 1..Len(b)
      /\ i + Covered(n) - 1 <= Len(a) /\ j + Covered(n) - 1 <= Len(b)
      /\ \A k \in 0..(Covered(n) - 1) : Agree(a, i, b, j, k)
  BY <1>1, <1>2, <1>3, RunsAreEqual
<1>5. Covered(n) \in Nat
  BY <1>1, CoveredNumber
<1> QED
  BY <1>1, <1>2, <1>4, <1>5

LEMMA PassageOfRun ==
  ASSUME NEW a, NEW equal, NEW S, NEW p \in PassagesFrom(a, equal, S), \A e \in S : e = <<e[1], e[2]>>
  PROVE  \E i, j : \E n \in DOMAIN a :
           <<i, j>> \in S /\ IsLongest(equal, i, j, n) /\ p \in Trimmed(a, i, j, Covered(n))
<1>1. PICK x \in S \X DOMAIN a :
        IsLongest(equal, x[1][1], x[1][2], x[2]) /\ p \in Trimmed(a, x[1][1], x[1][2], x[2] - 1 + WindowSize)
  BY DEF PassagesFrom
<1>2. x[2] \in DOMAIN a /\ <<x[1][1], x[1][2]>> \in S
  OBVIOUS
<1> QED
  BY <1>1, <1>2 DEF Covered

LEMMA TrimmedIsCommon ==
  ASSUME from \in Seq(Signs), to \in Seq(Signs), NEW i \in Nat, NEW j \in Nat, NEW m \in Nat,
         NEW p \in Trimmed(from, i, j, m),
         i + m - 1 <= Len(from), j + m - 1 <= Len(to),
         \A k \in 0..(m - 1) : Agree(from, i, to, j, k)
  PROVE  Common(p) /\ p \in Passages
<1>1. Len(from) \in Nat /\ Len(to) \in Nat
  OBVIOUS
<1>2. PICK s \in 0..(m - 1), t \in 0..(m - 1) : TrimmedTo(from, i, j, p, s, t)
  BY TrimmedPassage
<1>3. PICK l \in Nat, r \in Nat, q \in Nat : l = i + s /\ r = j + s /\ q = t - s + 1
  <2>1. i + s \in Nat /\ j + s \in Nat /\ t - s + 1 \in Nat
    BY <1>2, WindowNumbers DEF TrimmedTo
  <2> QED
    BY <2>1
<1>4. p = [left |-> l, right |-> r, length |-> q] /\ q >= WindowSize
  BY <1>2, <1>3 DEF TrimmedTo
<1>5. l + q - 1 = i + t /\ r + q - 1 = j + t /\ i + t <= Len(from) /\ j + t <= Len(to)
  BY <1>1, <1>3
<1>6. ASSUME NEW k \in 0..(q - 1)
      PROVE  Agree(from, l, to, r, k)
  <2>1. s + k \in 0..(m - 1) /\ l + k = i + (s + k) /\ r + k = j + (s + k)
    BY <1>3
  <2>2. Agree(from, i, to, j, s + k)
    BY <2>1
  <2> QED
    BY <2>1, <2>2 DEF Agree
<1>7. Clean(from, l, q) = Clean(to, r, q)
  <2>1. \A k \in 0..(q - 1) : Agree(from, l, to, r, k)
    BY <1>6
  <2> QED
    BY <2>1, AgreeingClean
<1>8. from[l] \in Letters /\ from[l + q - 1] \in Letters
  BY <1>2, <1>3, <1>5 DEF TrimmedTo
<1>9. p.left = l /\ p.right = r /\ p.length = q /\ p \in Passages
  BY <1>4 DEF Passages
<1> QED
  BY <1>4, <1>5, <1>7, <1>8, <1>9 DEF Common

LEMMA SharedIsCommon ==
  ASSUME from \in Seq(Signs), to \in Seq(Signs), NEW S \in SUBSET EqualPairs(from, to),
         NEW p \in PassagesFrom(from, EqualPairs(from, to), S)
  PROVE  Common(p) /\ p \in Passages
<1>1. \A e \in EqualPairs(from, to) : e = <<e[1], e[2]>>
  BY PairFacts
<1>2. \A e \in S : e = <<e[1], e[2]>>
  BY <1>1
<1>3. PICK i, j : \E n \in DOMAIN from :
        /\ <<i, j>> \in S /\ IsLongest(EqualPairs(from, to), i, j, n)
        /\ p \in Trimmed(from, i, j, Covered(n))
  BY <1>2, PassageOfRun
<1>4. PICK n \in DOMAIN from :
        /\ IsLongest(EqualPairs(from, to), i, j, n) /\ <<i, j>> \in EqualPairs(from, to)
        /\ p \in Trimmed(from, i, j, Covered(n))
  BY <1>3
<1>5. /\ i \in Nat /\ j \in Nat /\ Covered(n) \in Nat
      /\ i + Covered(n) - 1 <= Len(from) /\ j + Covered(n) - 1 <= Len(to)
      /\ \A k \in 0..(Covered(n) - 1) : Agree(from, i, to, j, k)
  BY <1>4, LongestRun
<1> QED
  BY <1>4, <1>5, TrimmedIsCommon

(* At the end every passage has been found, and none that is not one.      *)
LEMMA MatchedPassages ==
  ASSUME MatchOK
  PROVE  PassagesAreLongestCommon
<1> DEFINE equal == EqualPairs(from, to)
<1>1. /\ from \in Seq(Signs) /\ to \in Seq(Signs)
      /\ results = PassagesFrom(from, equal, equal \ Remaining(matches))
  BY DEF MatchOK
<1>2. ASSUME NEW p \in results
      PROVE  Common(p)
  <2>1. equal \ Remaining(matches) \in SUBSET EqualPairs(from, to)
    OBVIOUS
  <2>2. p \in PassagesFrom(from, EqualPairs(from, to), equal \ Remaining(matches))
    BY <1>1
  <2> HIDE DEF equal
  <2> QED
    BY <1>1, <2>1, <2>2, SharedIsCommon
<1>3. ASSUME matches = <<>>
      PROVE  results = SharedPassages(from, to)
  <2>1. Remaining(matches) = {}
    <3>1. DOMAIN matches = {}
      BY <1>3
    <3> QED
      BY <3>1 DEF Remaining
  <2>2. equal \ Remaining(matches) = equal
    BY <2>1
  <2> QED
    BY <1>1, <2>2 DEF SharedPassages
<1> QED
  BY <1>2, <1>3 DEF PassagesAreLongestCommon

-----------------------------------------------------------------------------
(* The other way round.                                                    *)
FlipOf(p) == [left |-> p.right, right |-> p.left, length |-> p.length]

LEMMA SharedShape ==
  ASSUME NEW a \in Seq(Signs), NEW b \in Seq(Signs), NEW p \in SharedPassages(a, b)
  PROVE  /\ p \in Passages
         /\ \E i, j : \E n \in DOMAIN a :
              /\ <<i, j>> \in EqualPairs(a, b) /\ IsLongest(EqualPairs(a, b), i, j, n)
              /\ p \in Trimmed(a, i, j, Covered(n))
<1>1. \A e \in EqualPairs(a, b) : e = <<e[1], e[2]>>
  BY PairFacts
<1>2. PICK i, j : \E n \in DOMAIN a :
        /\ <<i, j>> \in EqualPairs(a, b) /\ IsLongest(EqualPairs(a, b), i, j, n)
        /\ p \in Trimmed(a, i, j, Covered(n))
  BY <1>1, PassageOfRun DEF SharedPassages
<1>3. PICK n \in DOMAIN a :
        /\ <<i, j>> \in EqualPairs(a, b) /\ IsLongest(EqualPairs(a, b), i, j, n)
        /\ p \in Trimmed(a, i, j, Covered(n))
  BY <1>2
<1>4. i \in Nat /\ j \in Nat /\ Covered(n) \in Nat
  BY <1>3, LongestRun
<1>5. PICK s \in 0..(Covered(n) - 1), t \in 0..(Covered(n) - 1) : TrimmedTo(a, i, j, p, s, t)
  BY <1>3, <1>4, TrimmedPassage
<1>6. i + s \in Nat /\ j + s \in Nat /\ t - s + 1 \in Nat
  BY <1>4, <1>5, WindowNumbers DEF TrimmedTo
<1> QED
  BY <1>2, <1>5, <1>6 DEF TrimmedTo, Passages

LEMMA RunIsShared ==
  ASSUME NEW a \in Seq(Signs), NEW b \in Seq(Signs), NEW i, NEW j, NEW n \in DOMAIN a,
         <<i, j>> \in EqualPairs(a, b), IsLongest(EqualPairs(a, b), i, j, n),
         NEW p \in Trimmed(a, i, j, Covered(n))
  PROVE  p \in SharedPassages(a, b)
<1> DEFINE equal == EqualPairs(a, b)
           x == <<<<i, j>>, n>>
<1>1. x \in equal \X DOMAIN a /\ IsLongest(equal, x[1][1], x[1][2], x[2])
  OBVIOUS
<1>2. p \in Trimmed(a, x[1][1], x[1][2], x[2] - 1 + WindowSize)
  BY DEF Covered
<1> HIDE DEF x, equal
<1>3. p \in PassagesFrom(a, equal, equal)
  BY <1>1, <1>2 DEF PassagesFrom
<1> QED
  BY <1>3 DEF SharedPassages, equal

LEMMA TrimmedFlips ==
  ASSUME NEW a, NEW b, NEW i \in Nat, NEW j \in Nat, NEW n \in Nat,
         \A k \in 0..(n - 1) : Agree(a, i, b, j, k), NEW p \in Trimmed(a, i, j, n)
  PROVE  FlipOf(p) \in Trimmed(b, j, i, n)
<1> DEFINE letters == {k \in 0..(n - 1) : a[i + k] \in Letters}
           others  == {k \in 0..(n - 1) : b[j + k] \in Letters}
<1>1. letters = others
  <2>1. \A k \in 0..(n - 1) : a[i + k] \in Letters <=> b[j + k] \in Letters
    BY SameLetters DEF Agree
  <2> QED
    BY <2>1
<1>2. /\ letters # {} /\ ~(Max(letters) - Min(letters) + 1 < WindowSize)
      /\ p = [left |-> i + Min(letters), right |-> j + Min(letters),
              length |-> Max(letters) - Min(letters) + 1]
  BY DEF Trimmed
<1>3. Trimmed(b, j, i, n) =
        IF others = {} \/ Max(others) - Min(others) + 1 < WindowSize THEN {}
        ELSE {[left |-> j + Min(others), right |-> i + Min(others),
               length |-> Max(others) - Min(others) + 1]}
  BY DEF Trimmed
<1> HIDE DEF letters, others
<1>4. FlipOf(p) = [left |-> j + Min(others), right |-> i + Min(others),
                   length |-> Max(others) - Min(others) + 1]
  BY <1>1, <1>2 DEF FlipOf
<1> QED
  BY <1>1, <1>2, <1>3, <1>4

LEMMA SymmetricPairs ==
  ASSUME NEW a \in Seq(Signs), NEW b \in Seq(Signs), Len(a) = Len(b), ~Crowded(a),
         NEW i, NEW j, <<i, j>> \in EqualPairs(a, b)
  PROVE  <<j, i>> \in EqualPairs(b, a)
<1> DEFINE ha == Hashes(a, WindowSize)
           hb == Hashes(b, WindowSize)
<1>1. /\ i \in 1..(Len(a) - WindowSize + 1)
      /\ j \in 1..(Len(b) - WindowSize + 1)
      /\ j \in EqualWindows(a, b, i)
      /\ i \in DOMAIN ha
  <2>1. /\ <<i, j>>[1] \in 1..(Len(a) - WindowSize + 1)
        /\ <<i, j>>[2] \in 1..(Len(b) - WindowSize + 1)
        /\ <<i, j>>[2] \in EqualWindows(a, b, <<i, j>>[1])
        /\ <<i, j>>[1] \in DOMAIN Hashes(a, WindowSize)
    BY PairFacts
  <2> QED
    BY <2>1
<1>2. /\ ha[i] # WhiteSpaceHash /\ hb[j] = ha[i]
      /\ Clean(a, i, WindowSize) = Clean(b, j, WindowSize)
  BY <1>1 DEF EqualWindows, Candidates
<1>3. Len(a) \in Nat /\ Len(b) \in Nat /\ ~(Len(a) < WindowSize)
  BY <1>1, WindowNumbers
<1>4. DOMAIN ha = 1..(Len(a) - WindowSize + 1) /\ DOMAIN hb = 1..(Len(b) - WindowSize + 1)
  BY <1>3 DEF Hashes
<1> HIDE DEF ha, hb
<1> DEFINE found == {k \in 1..(Len(a) - WindowSize + 1) : ha[k] = hb[j]}
<1>5. ~(Cardinality(found) > PostingThreshold)
  <2>1. ~(Cardinality({k \in DOMAIN ha : ha[k] = ha[i]}) > PostingThreshold)
    BY <1>1, <1>2 DEF Crowded, ha
  <2>2. found = {k \in DOMAIN ha : ha[k] = ha[i]}
    BY <1>2, <1>4
  <2> QED
    BY <2>1, <2>2
<1>6. Candidates(b, a, j) = found
  <2>1. ~(hb[j] = WhiteSpaceHash \/ Cardinality(found) > PostingThreshold)
    BY <1>2, <1>5
  <2> QED
    BY <2>1 DEF Candidates, ha, hb
<1>7. i \in EqualWindows(b, a, j)
  BY <1>1, <1>2, <1>6 DEF EqualWindows
<1>8. j \in DOMAIN Hashes(b, WindowSize)
  BY <1>1, <1>4 DEF hb
<1> QED
  BY <1>7, <1>8, PairFacts

LEMMA FlippedIsShared ==
  ASSUME NEW a \in Seq(Signs), NEW b \in Seq(Signs), Len(a) = Len(b), ~Crowded(a), ~Crowded(b),
         NEW p \in SharedPassages(a, b)
  PROVE  FlipOf(p) \in SharedPassages(b, a)
<1>1. PICK i, j : \E n \in DOMAIN a :
        /\ <<i, j>> \in EqualPairs(a, b) /\ IsLongest(EqualPairs(a, b), i, j, n)
        /\ p \in Trimmed(a, i, j, Covered(n))
  BY SharedShape
<1>2. PICK n \in DOMAIN a :
        /\ <<i, j>> \in EqualPairs(a, b) /\ IsLongest(EqualPairs(a, b), i, j, n)
        /\ p \in Trimmed(a, i, j, Covered(n))
  BY <1>1
<1>3. /\ i \in Nat /\ j \in Nat /\ Covered(n) \in Nat
      /\ \A k \in 0..(Covered(n) - 1) : Agree(a, i, b, j, k)
  BY <1>2, LongestRun
<1>4. FlipOf(p) \in Trimmed(b, j, i, Covered(n))
  BY <1>2, <1>3, TrimmedFlips
<1>5. \A x, y : <<x, y>> \in EqualPairs(a, b) => <<y, x>> \in EqualPairs(b, a)
  BY SymmetricPairs
<1>6. \A x, y : <<x, y>> \in EqualPairs(b, a) => <<y, x>> \in EqualPairs(a, b)
  BY SymmetricPairs
<1>7. IsLongest(EqualPairs(b, a), j, i, n)
  <2> DEFINE E == EqualPairs(a, b)
             F == EqualPairs(b, a)
  <2> HIDE DEF E, F
  <2>1. /\ \A k \in 0..(n - 1) : <<i + k, j + k>> \in E
        /\ <<i - 1, j - 1>> \notin E
        /\ <<i + n, j + n>> \notin E
    BY <1>2 DEF IsLongest, E
  <2>2. \A x, y : <<x, y>> \in E <=> <<y, x>> \in F
    BY <1>5, <1>6 DEF E, F
  <2>3. \A k \in 0..(n - 1) : <<j + k, i + k>> \in F
    BY <2>1, <2>2
  <2>4. <<j - 1, i - 1>> \notin F /\ <<j + n, i + n>> \notin F
    BY <2>1, <2>2
  <2> QED
    BY <2>3, <2>4 DEF IsLongest, F
<1>8. n \in DOMAIN b
  <2>1. DOMAIN a = 1..Len(a) /\ DOMAIN b = 1..Len(b)
    OBVIOUS
  <2> QED
    BY <2>1
<1>9. <<j, i>> \in EqualPairs(b, a)
  BY <1>2, <1>5
<1> QED
  BY <1>4, <1>7, <1>8, <1>9, RunIsShared

LEMMA FlipTwice ==
  ASSUME NEW p \in Passages
  PROVE  FlipOf(FlipOf(p)) = p
BY DEF FlipOf, Passages

LEMMA FlipMembers ==
  ASSUME NEW S, NEW p
  PROVE  p \in Flip(S) <=> \E q \in S : p = FlipOf(q)
BY DEF Flip, FlipOf

LEMMA FlippedShared ==
  ASSUME NEW a \in Seq(Signs), NEW b \in Seq(Signs), Len(a) = Len(b), ~Crowded(a), ~Crowded(b)
  PROVE  SharedPassages(b, a) = Flip(SharedPassages(a, b))
<1>1. ASSUME NEW p \in SharedPassages(b, a)
      PROVE  p \in Flip(SharedPassages(a, b))
  <2>1. FlipOf(p) \in SharedPassages(a, b)
    BY FlippedIsShared
  <2>2. p \in Passages
    BY SharedShape
  <2>3. p = FlipOf(FlipOf(p))
    BY <2>2, FlipTwice
  <2> QED
    BY <2>1, <2>3, FlipMembers
<1>2. ASSUME NEW p \in Flip(SharedPassages(a, b))
      PROVE  p \in SharedPassages(b, a)
  <2>1. PICK q \in SharedPassages(a, b) : p = FlipOf(q)
    BY FlipMembers
  <2> QED
    BY <2>1, FlippedIsShared
<1> QED
  BY <1>1, <1>2

LEMMA FlippedBack ==
  ASSUME NEW S, S \subseteq Passages
  PROVE  Flip(Flip(S)) = S
<1>1. ASSUME NEW p \in Flip(Flip(S))
      PROVE  p \in S
  <2>1. PICK q \in Flip(S) : p = FlipOf(q)
    BY FlipMembers
  <2>2. PICK o \in S : q = FlipOf(o)
    BY FlipMembers
  <2>3. o \in Passages
    BY <2>2
  <2> QED
    BY <2>1, <2>2, <2>3, FlipTwice
<1>2. ASSUME NEW p \in S
      PROVE  p \in Flip(Flip(S))
  <2>1. p \in Passages /\ FlipOf(p) \in Flip(S)
    BY FlipMembers
  <2>2. p = FlipOf(FlipOf(p))
    BY <2>1, FlipTwice
  <2> QED
    BY <2>1, <2>2, FlipMembers
<1> QED
  BY <1>1, <1>2

(* Which of two texts is searched for decides nothing.                     *)
LEMMA OtherWayRound ==
  ASSUME NEW a \in Seq(Signs), NEW b \in Seq(Signs),
         Len(b) # Len(a) \/ ~(Crowded(b) \/ Crowded(a))
  PROVE  PassagesWith(b, a) = Flip(PassagesWith(a, b))
<1>1. Len(a) \in Nat /\ Len(b) \in Nat
  OBVIOUS
<1>2. SharedPassages(a, b) \subseteq Passages /\ SharedPassages(b, a) \subseteq Passages
  BY SharedShape
<1>3. CASE Len(b) < Len(a)
  <2>1. PassagesWith(a, b) = Flip(SharedPassages(b, a))
    BY <1>3 DEF PassagesWith, Inverted
  <2>2. PassagesWith(b, a) = SharedPassages(b, a)
    BY <1>1, <1>3 DEF PassagesWith, Inverted
  <2> QED
    BY <1>2, <2>1, <2>2, FlippedBack
<1>4. CASE Len(a) < Len(b)
  <2>1. PassagesWith(a, b) = SharedPassages(a, b)
    BY <1>1, <1>4 DEF PassagesWith, Inverted
  <2>2. PassagesWith(b, a) = Flip(SharedPassages(a, b))
    BY <1>4 DEF PassagesWith, Inverted
  <2> QED
    BY <2>1, <2>2
<1>5. CASE Len(a) = Len(b)
  <2>1. PassagesWith(a, b) = SharedPassages(a, b) /\ PassagesWith(b, a) = SharedPassages(b, a)
    BY <1>1, <1>5 DEF PassagesWith, Inverted
  <2>2. SharedPassages(b, a) = Flip(SharedPassages(a, b))
    BY <1>5, FlippedShared
  <2> QED
    BY <2>1, <2>2
<1> QED
  BY <1>1, <1>3, <1>4, <1>5

-----------------------------------------------------------------------------
(* The tallies.                                                            *)
Tallies == [count : Nat, previous : Nat, differences : [1..RunLength -> Int]]

(* The p-th window of the text is one of the document's.                   *)
HitAt(d, p) ==
  /\ p \in DOMAIN PostingHashes(search)
  /\ PostingHashes(search)[p] # WhiteSpaceHash
  /\ PostingHashes(search)[p] \in ToSet(PostingHashes(texts[d]))

Hits(d, first, last) == \A q \in first..last : HitAt(d, q)

(* What a tally knows of the positions that have been looked up: the last  *)
(* hit, the runs that end here, and that there has been a run.             *)
TallyFits(d, t, last) ==
  /\ HitAt(d, last) => t.previous = (last - 1) % Modulus
  /\ \A k \in 1..RunLength : Hits(d, last - k, last) => t.differences[RunLength - k + 1] = 1
  /\ d # doc => \A p \in 1..last : Hits(d, p - RunLength, p) => t.count > 0
  /\ d = doc => t.count = 0

TallyOK(d) == TallyFits(d, tally[d], position)

SearchTypes ==
  /\ pc \in {"lookup", "compare", "match", "done"}
  /\ texts \in [Docs -> Seq(Signs)] /\ search \in Seq(Signs)
  /\ position \in 0..Len(PostingHashes(search))
  /\ pc # "lookup" => position = Len(PostingHashes(search))
  /\ tally \in [Docs -> Tallies] /\ pruned \in Seq(Docs)

LEMMA SearchNumbers ==
  /\ RunLength \in Nat \ {0} /\ RunLength <= WindowSize
  /\ Modulus \in Nat \ {0, 1} /\ NumResults \in Nat \ {0}
  /\ PostingWindowSize \in Nat \ {0} /\ PostingWindowSize = WindowSize - RunLength + 1
  /\ TargetDocs \subseteq Docs /\ IsFiniteSet(Docs) /\ NoDoc \notin Docs
BY SearchAssumptions, WindowNumbers DEF PostingWindowSize

LEMMA HashesOfText ==
  ASSUME NEW a \in Seq(Signs)
  PROVE  /\ Len(PostingHashes(a)) \in Nat
         /\ Len(PostingHashes(a)) =
              IF Len(a) < WindowSize THEN 0 ELSE Len(a) - PostingWindowSize + 1
         /\ DOMAIN PostingHashes(a) = 1..Len(PostingHashes(a))
<1> DEFINE h == PostingHashes(a)
           n == IF Len(a) < WindowSize THEN 0 ELSE Len(a) - PostingWindowSize + 1
           S == {h[i] : i \in 1..n}
<1>1. n \in Nat
  <2>1. Len(a) \in Nat
    OBVIOUS
  <2> QED
    BY <2>1, SearchNumbers, WindowNumbers
<1>2. DOMAIN h = 1..n /\ h = [i \in 1..n |-> h[i]]
  BY DEF PostingHashes, Hashes
<1> HIDE DEF h, n
<1>3. h \in [1..n -> S]
  BY <1>2
<1>4. h \in Seq(S)
  BY <1>1, <1>3
<1>5. Len(h) = n
  BY <1>1, <1>3, <1>4, LenProperties
<1> QED
  BY <1>1, <1>2, <1>5 DEF h, n

(* A difference comes in at the end and the first goes.                    *)
LEMMA ShiftedIn ==
  ASSUME NEW f \in [1..RunLength -> Int], NEW x \in Int
  PROVE  /\ Append(Tail(f), x) \in [1..RunLength -> Int]
         /\ \A k \in 1..RunLength :
              Append(Tail(f), x)[k] = IF k = RunLength THEN x ELSE f[k + 1]
<1>1. f \in Seq(Int) /\ Len(f) = RunLength /\ RunLength \in Nat \ {0}
  BY SearchNumbers
<1>2. f # <<>>
  BY <1>1, EmptySeq
<1>3. /\ Tail(f) \in Seq(Int) /\ Len(Tail(f)) = RunLength - 1
      /\ \A i \in 1..(RunLength - 1) : Tail(f)[i] = f[i + 1]
  BY <1>1, <1>2, HeadTailProperties
<1> DEFINE g == Tail(f)
<1> HIDE DEF g
<1>4. g \in Seq(Int) /\ Len(g) = RunLength - 1 /\ \A i \in 1..(RunLength - 1) : g[i] = f[i + 1]
  BY <1>3 DEF g
<1>5. /\ Append(g, x) \in Seq(Int) /\ Len(Append(g, x)) = RunLength
      /\ \A i \in 1..RunLength : Append(g, x)[i] = IF i = RunLength THEN x ELSE g[i]
  BY <1>1, <1>4
<1> DEFINE h == Append(g, x)
<1> HIDE DEF h
<1>6. h \in [1..RunLength -> Int]
  <2>1. h \in Seq(Int) /\ Len(h) = RunLength
    BY <1>5 DEF h
  <2> QED
    BY <2>1, LenProperties
<1>7. ASSUME NEW k \in 1..RunLength
      PROVE  h[k] = IF k = RunLength THEN x ELSE f[k + 1]
  <2>1. CASE k = RunLength
    BY <1>5, <2>1 DEF h
  <2>2. CASE k # RunLength
    <3>1. k \in 1..(RunLength - 1)
      BY <1>1, <2>2
    <3>2. g[k] = f[k + 1]
      BY <1>4, <3>1
    <3> QED
      BY <1>5, <2>2, <3>2 DEF h
  <2> QED
    BY <2>1, <2>2
<1> QED
  BY <1>6, <1>7 DEF g, h

LEMMA HitTally ==
  ASSUME NEW t \in Tallies, NEW d, position \in Nat
  PROVE  /\ Hit(t, d) \in Tallies
         /\ Hit(t, d).previous = position % Modulus
         /\ \A k \in 1..RunLength :
              Hit(t, d).differences[k] = IF k = RunLength THEN (position - t.previous) % Modulus
                                         ELSE t.differences[k + 1]
         /\ (\A k \in 1..RunLength : Hit(t, d).differences[k] = 1) /\ d # doc
              => Hit(t, d).count = t.count + 1
         /\ Hit(t, d).count >= t.count /\ (d = doc => Hit(t, d).count = t.count)
<1> DEFINE x == (position - t.previous) % Modulus
           ds == Append(Tail(t.differences), x)
<1>1. /\ t.count \in Nat /\ t.previous \in Nat /\ t.differences \in [1..RunLength -> Int]
      /\ position - t.previous \in Int /\ position \in Int /\ Modulus \in Nat \ {0}
  BY SearchNumbers DEF Tallies
<1>2. x \in Int /\ position % Modulus \in Nat
  <2>1. x \in 0..(Modulus - 1)
    BY <1>1, Remainder
  <2>2. position % Modulus \in 0..(Modulus - 1)
    BY <1>1, Remainder
  <2> QED
    BY <2>1, <2>2
<1> HIDE DEF x
<1>3. /\ ds \in [1..RunLength -> Int]
      /\ \A k \in 1..RunLength : ds[k] = IF k = RunLength THEN x ELSE t.differences[k + 1]
  BY <1>1, <1>2, ShiftedIn
<1>4. Hit(t, d) = [count |-> IF (\A k \in 1..RunLength : ds[k] = 1) /\ d # doc
                             THEN t.count + 1 ELSE t.count,
                   previous |-> position % Modulus, differences |-> ds]
  BY DEF Hit, x
<1> HIDE DEF ds
<1>5. Hit(t, d).differences = ds /\ Hit(t, d).previous = position % Modulus
  BY <1>4
<1>6. Hit(t, d).count = IF (\A k \in 1..RunLength : ds[k] = 1) /\ d # doc THEN t.count + 1 ELSE t.count
  BY <1>4
<1>7. Hit(t, d) \in Tallies
  BY <1>1, <1>2, <1>3, <1>4 DEF Tallies
<1>8. Hit(t, d).count >= t.count /\ (d = doc => Hit(t, d).count = t.count)
  BY <1>1, <1>6
<1> QED
  BY <1>3, <1>5, <1>6, <1>7, <1>8 DEF x

LEMMA SameHits ==
  ASSUME NEW d, texts' = texts, search' = search
  PROVE  /\ \A p : HitAt(d, p)' <=> HitAt(d, p)
         /\ \A p, q : Hits(d, p, q)' <=> Hits(d, p, q)
BY DEF HitAt, Hits, PostingHashes

LEMMA FewerHits ==
  ASSUME NEW d, NEW p \in Int, NEW q \in Int, NEW l \in Int, NEW r \in Int,
         p <= l, r <= q, Hits(d, p, q)
  PROVE  Hits(d, l, r)
BY DEF Hits

LEMMA HitPositions ==
  ASSUME search \in Seq(Signs), NEW d, NEW p, HitAt(d, p)
  PROVE  p \in 1..Len(PostingHashes(search))
BY HashesOfText DEF HitAt

(* One position is looked up and hits the document.                        *)
LEMMA HitKeepsTally ==
  ASSUME SearchTypes, NEW d \in Docs, TallyOK(d), HitAt(d, position + 1),
         texts' = texts, search' = search, doc' = doc, position' = position + 1,
         tally'[d] = Hit(tally[d], d)
  PROVE  TallyOK(d)'
<1> DEFINE t == tally[d]
           u == tally'[d]
           P == position
<1>1. /\ t \in Tallies /\ P \in Nat /\ search \in Seq(Signs)
      /\ RunLength \in Nat \ {0} /\ Modulus \in Nat \ {0, 1}
  BY SearchNumbers DEF SearchTypes
<1>2. /\ u \in Tallies /\ u.previous = P % Modulus
      /\ \A k \in 1..RunLength :
           u.differences[k] = IF k = RunLength THEN (P - t.previous) % Modulus
                              ELSE t.differences[k + 1]
      /\ (\A k \in 1..RunLength : u.differences[k] = 1) /\ d # doc => u.count = t.count + 1
      /\ u.count >= t.count /\ (d = doc => u.count = t.count)
  BY <1>1, HitTally
<1>3. /\ HitAt(d, P) => t.previous = (P - 1) % Modulus
      /\ \A k \in 1..RunLength : Hits(d, P - k, P) => t.differences[RunLength - k + 1] = 1
      /\ d # doc => \A p \in 1..P : Hits(d, p - RunLength, p) => t.count > 0
      /\ d = doc => t.count = 0
  BY DEF TallyOK, TallyFits
<1>4. t.count \in Nat /\ u.count \in Nat
  BY <1>1, <1>2 DEF Tallies
<1> HIDE DEF t, u, P
<1>5. ASSUME NEW k \in 1..RunLength, Hits(d, P + 1 - k, P + 1)
      PROVE  u.differences[RunLength - k + 1] = 1
  <2>1. CASE k = 1
    <3>1. HitAt(d, P)
      BY <1>1, <1>5, <2>1 DEF Hits
    <3>2. P \in Nat \ {0} /\ t.previous = (P - 1) % Modulus
      BY <1>1, <1>3, <3>1, HitPositions
    <3>3. (P - t.previous) % Modulus = 1
      BY <1>1, <3>2, NextPosition
    <3>4. RunLength - k + 1 = RunLength /\ RunLength \in 1..RunLength
      BY <1>1, <2>1
    <3> QED
      BY <1>2, <3>3, <3>4
  <2>2. CASE k # 1
    <3>1. /\ k - 1 \in 1..RunLength
          /\ P - (k - 1) \in Int /\ P + 1 - k \in Int /\ P + 1 \in Int /\ P \in Int
          /\ P + 1 - k <= P - (k - 1) /\ P <= P + 1
      BY <1>1, <2>2
    <3>2. Hits(d, P - (k - 1), P)
      BY <1>5, <3>1, FewerHits
    <3>3. t.differences[RunLength - (k - 1) + 1] = 1
      BY <1>3, <3>1, <3>2
    <3>4. /\ RunLength - k + 1 \in 1..RunLength /\ RunLength - k + 1 # RunLength
          /\ RunLength - k + 1 + 1 = RunLength - (k - 1) + 1
      BY <1>1, <2>2
    <3>5. u.differences[RunLength - k + 1] = t.differences[RunLength - k + 1 + 1]
      BY <1>2, <3>4
    <3> QED
      BY <3>3, <3>4, <3>5
  <2> QED
    BY <2>1, <2>2
<1>6. ASSUME d # doc, NEW p \in 1..(P + 1), Hits(d, p - RunLength, p)
      PROVE  u.count > 0
  <2>1. CASE p \in 1..P
    BY <1>2, <1>3, <1>4, <1>6, <2>1
  <2>2. CASE p \notin 1..P
    <3>1. p = P + 1
      BY <1>1, <2>2
    <3>2. ASSUME NEW i \in 1..RunLength
          PROVE  u.differences[i] = 1
      <4>1. PICK k \in 1..RunLength : i = RunLength - k + 1
        <5>1. RunLength - i + 1 \in 1..RunLength /\ i = RunLength - (RunLength - i + 1) + 1
          BY <1>1
        <5> QED
          BY <5>1
      <4>2. /\ p - RunLength \in Int /\ p \in Int /\ P + 1 - k \in Int /\ P + 1 \in Int
            /\ p - RunLength <= P + 1 - k /\ P + 1 <= p
        BY <1>1, <3>1
      <4>3. Hits(d, P + 1 - k, P + 1)
        BY <1>6, <4>2, FewerHits
      <4> QED
        BY <1>5, <4>1, <4>3
    <3> QED
      BY <1>2, <1>4, <1>6, <3>2
  <2> QED
    BY <2>1, <2>2
<1>7. /\ \A p : HitAt(d, p)' <=> HitAt(d, p)
      /\ \A p, q : Hits(d, p, q)' <=> Hits(d, p, q)
  BY SameHits
<1>8. P + 1 - 1 = P /\ position' = P + 1 /\ doc' = doc /\ tally[d]' = u
  BY <1>1 DEF P, u
<1>9. TallyFits(d, u, P + 1)
  <2>1. u.previous = (P + 1 - 1) % Modulus /\ (d = doc => u.count = 0)
    BY <1>2, <1>3, <1>8
  <2> DEFINE Q == P + 1
  <2>2. ASSUME NEW k \in 1..RunLength, Hits(d, Q - k, Q)
        PROVE  u.differences[RunLength - k + 1] = 1
    BY <1>1, <1>5, <2>2
  <2>3. d # doc => \A p \in 1..Q : Hits(d, p - RunLength, p) => u.count > 0
    BY <1>6
  <2>4. u.previous = (Q - 1) % Modulus
    BY <1>1, <1>2
  <2> HIDE DEF Q
  <2>5. TallyFits(d, u, Q)
    BY <2>1, <2>2, <2>3, <2>4 DEF TallyFits
  <2> QED
    BY <2>5 DEF Q
<1>10. TallyFits(d, u, position')
  BY <1>8, <1>9
<1> QED
  BY <1>7, <1>8, <1>10 DEF TallyOK, TallyFits

(* One position is passed over, or does not hit the document.              *)
LEMMA MissKeepsTally ==
  ASSUME SearchTypes, NEW d \in Docs, TallyOK(d), ~HitAt(d, position + 1),
         texts' = texts, search' = search, doc' = doc, position' = position + 1,
         tally'[d] = tally[d]
  PROVE  TallyOK(d)'
<1> DEFINE t == tally[d]
           P == position
<1>1. P \in Nat /\ RunLength \in Nat \ {0}
  BY SearchNumbers DEF SearchTypes
<1>2. /\ d # doc => \A p \in 1..P : Hits(d, p - RunLength, p) => t.count > 0
      /\ d = doc => t.count = 0
  BY DEF TallyOK, TallyFits
<1> HIDE DEF t, P
<1>3. ~HitAt(d, P + 1)
  BY DEF P
<1>4. \A k \in 1..RunLength : ~Hits(d, P + 1 - k, P + 1)
  BY <1>1, <1>3 DEF Hits
<1>5. ASSUME d # doc, NEW p \in 1..(P + 1), Hits(d, p - RunLength, p)
      PROVE  t.count > 0
  <2>1. p # P + 1
    <3>1. p \in (p - RunLength)..p
      BY <1>1
    <3> QED
      BY <1>3, <1>5, <3>1 DEF Hits
  <2>2. p \in 1..P
    BY <1>1, <2>1
  <2> QED
    BY <1>2, <1>5, <2>2
<1>6. /\ \A p : HitAt(d, p)' <=> HitAt(d, p)
      /\ \A p, q : Hits(d, p, q)' <=> Hits(d, p, q)
  BY SameHits
<1>7. position' = P + 1 /\ doc' = doc /\ tally[d]' = t
  BY DEF P, t
<1>8. TallyFits(d, t, P + 1)
  <2> DEFINE Q == P + 1
  <2>1. ~HitAt(d, Q) /\ \A k \in 1..RunLength : ~Hits(d, Q - k, Q)
    BY <1>1, <1>3, <1>4
  <2>2. d # doc => \A p \in 1..Q : Hits(d, p - RunLength, p) => t.count > 0
    BY <1>5
  <2> HIDE DEF Q
  <2>3. TallyFits(d, t, Q)
    BY <1>2, <2>1, <2>2 DEF TallyFits
  <2> QED
    BY <2>3 DEF Q
<1>9. TallyFits(d, t, position')
  BY <1>7, <1>8
<1> QED
  BY <1>6, <1>7, <1>9 DEF TallyOK, TallyFits

SearchInv ==
  /\ SearchTypes
  /\ \A d \in Docs : TallyOK(d)
  /\ MatchOK

LEMMA TextsAreTexts ==
  \A d \in Docs \cup {NoDoc} : StoredTexts(d) \subseteq Seq(Signs)
BY SearchAssumptions DEF Signs

LEMMA InitSearchInv == Init => SearchInv
<1> SUFFICES ASSUME Init
             PROVE  SearchInv
  OBVIOUS
<1>1. /\ \A d \in Docs : texts[d] \in StoredTexts(d)
      /\ texts = [d \in Docs |-> texts[d]]
      /\ doc \in Docs \cup {NoDoc}
      /\ IF doc = NoDoc THEN search \in StoredTexts(NoDoc) ELSE search = texts[doc]
      /\ position = 0 /\ pc = "lookup" /\ tally = [d \in Docs |-> NoTally]
      /\ from = <<>> /\ to = <<>> /\ matches = <<>> /\ results = {}
  BY DEF Init
<1>2. \A d \in Docs : texts[d] \in Seq(Signs)
  BY <1>1, TextsAreTexts
<1>3. texts \in [Docs -> Seq(Signs)]
  BY <1>1, <1>2
<1>4. search \in Seq(Signs)
  <2>1. CASE doc = NoDoc
    BY <1>1, <2>1, TextsAreTexts
  <2>2. CASE doc # NoDoc
    BY <1>1, <1>2, <2>2
  <2> QED
    BY <2>1, <2>2
<1>5. NoTally \in Tallies
  BY DEF NoTally, Tallies
<1>6. tally \in [Docs -> Tallies]
  BY <1>1, <1>5
<1>7. SearchTypes
  <2>1. position \in 0..Len(PostingHashes(search))
    BY <1>1, <1>4, HashesOfText
  <2>2. pruned \in Seq(Docs)
    BY EmptySeq DEF Init
  <2> QED
    BY <1>1, <1>3, <1>4, <1>6, <2>1, <2>2 DEF SearchTypes
<1>8. ASSUME NEW d \in Docs
      PROVE  TallyOK(d)
  <2>1. ~HitAt(d, 0)
    BY <1>4, HitPositions, HashesOfText
  <2>2. \A k \in 1..RunLength : ~Hits(d, 0 - k, 0)
    BY <2>1, SearchNumbers DEF Hits
  <2>3. tally[d].count = 0
    BY <1>1 DEF NoTally
  <2>4. TallyFits(d, tally[d], 0)
    BY <2>1, <2>2, <2>3 DEF TallyFits
  <2> QED
    BY <1>1, <2>4 DEF TallyOK
<1>9. MatchOK
  BY <1>1, EmptyMatch
<1> QED
  BY <1>7, <1>8, <1>9 DEF SearchInv

LEMMA SameMatch ==
  ASSUME MatchOK, UNCHANGED matching
  PROVE  MatchOK'
BY DEF MatchOK, matching

LEMMA SameTallies ==
  ASSUME NEW d \in Docs, TallyOK(d), UNCHANGED <<texts, search, doc, position, tally>>
  PROVE  TallyOK(d)'
<1>1. /\ \A p : HitAt(d, p)' <=> HitAt(d, p)
      /\ \A p, q : Hits(d, p, q)' <=> Hits(d, p, q)
  BY SameHits
<1> QED
  BY <1>1 DEF TallyOK, TallyFits

LEMMA LookUpKeepsInv ==
  ASSUME SearchInv, LookUp
  PROVE  SearchInv'
<1> DEFINE hash == PostingHashes(search)[position + 1]
<1>1. /\ pc = "lookup" /\ position < Len(PostingHashes(search)) /\ position' = position + 1
      /\ tally' = IF hash = WhiteSpaceHash THEN tally
                  ELSE [d \in Docs |-> IF hash \in ToSet(PostingHashes(texts[d]))
                                       THEN Hit(tally[d], d) ELSE tally[d]]
      /\ UNCHANGED <<matching, pc, texts, doc, search, pruned, other, associations>>
  BY DEF LookUp
<1>2. /\ texts \in [Docs -> Seq(Signs)] /\ search \in Seq(Signs)
      /\ position \in Nat /\ Len(PostingHashes(search)) \in Nat /\ tally \in [Docs -> Tallies]
      /\ position \in 0..Len(PostingHashes(search))
      /\ SearchTypes /\ MatchOK /\ \A d \in Docs : TallyOK(d)
  BY HashesOfText DEF SearchInv, SearchTypes
<1>3. position + 1 \in DOMAIN PostingHashes(search)
  BY <1>1, <1>2, HashesOfText
<1>4. ASSUME NEW d \in Docs
      PROVE  /\ HitAt(d, position + 1) => tally'[d] = Hit(tally[d], d)
             /\ ~HitAt(d, position + 1) => tally'[d] = tally[d]
  BY <1>1, <1>2, <1>3 DEF HitAt
<1>5. tally' \in [Docs -> Tallies]
  <2>1. \A d \in Docs : tally'[d] \in Tallies
    BY <1>2, <1>4, HitTally
  <2>2. tally' = [d \in Docs |-> tally'[d]]
    BY <1>1, <1>2
  <2> QED
    BY <2>1, <2>2
<1> HIDE DEF hash
<1>6. SearchTypes'
  <2>1. position' \in 0..Len(PostingHashes(search))
    BY <1>1, <1>2
  <2>2. search' = search /\ texts' = texts /\ pc' = "lookup" /\ pruned' = pruned
    BY <1>1
  <2>3. PostingHashes(search)' = PostingHashes(search)
    BY <2>2 DEF PostingHashes
  <2> QED
    BY <1>2, <1>5, <2>1, <2>2, <2>3 DEF SearchTypes
<1>7. ASSUME NEW d \in Docs
      PROVE  TallyOK(d)'
  <2>1. texts' = texts /\ search' = search /\ doc' = doc /\ position' = position + 1
    BY <1>1
  <2>2. CASE HitAt(d, position + 1)
    BY <1>2, <1>4, <2>1, <2>2, HitKeepsTally
  <2>3. CASE ~HitAt(d, position + 1)
    BY <1>2, <1>4, <2>1, <2>3, MissKeepsTally
  <2> QED
    BY <2>2, <2>3
<1>8. MatchOK'
  BY <1>1, <1>2, SameMatch
<1> QED
  BY <1>6, <1>7, <1>8 DEF SearchInv

(* Every other step leaves the tallies alone.                              *)
LEMMA OthersKeepTallies ==
  ASSUME SearchInv, UNCHANGED <<texts, search, doc, position, tally>>,
         pc' \in {"compare", "match", "done"}, pruned' \in Seq(Docs),
         pc # "lookup" \/ position = Len(PostingHashes(search))
  PROVE  SearchTypes' /\ \A d \in Docs : TallyOK(d)'
<1>1. PostingHashes(search)' = PostingHashes(search)
  BY DEF PostingHashes
<1>2. SearchTypes'
  BY <1>1 DEF SearchInv, SearchTypes
<1>3. \A d \in Docs : TallyOK(d)'
  BY SameTallies DEF SearchInv
<1> QED
  BY <1>2, <1>3

(* The documents that were counted, the best first.                        *)
LEMMA Ordered ==
  ASSUME NEW S \in SUBSET Docs, NEW s \in SetToSeqs(S)
  PROVE  /\ s \in Seq(S) /\ s \in Seq(Docs) /\ DOMAIN s = 1..Len(s)
         /\ \A d \in S : \E i \in DOMAIN s : s[i] = d
<1> DEFINE n == Cardinality(S)
<1>1. IsFiniteSet(S) /\ n \in Nat
  BY SearchNumbers, FS_Subset, FS_CardinalityType
<1>2. s \in [1..n -> S] /\ \A i, j \in 1..n : i # j => s[i] # s[j]
  BY DEF SetToSeqs
<1> HIDE DEF n
<1>3. s \in Seq(S) /\ s \in Seq(Docs) /\ DOMAIN s = 1..n
  BY <1>1, <1>2
<1>4. DOMAIN s = 1..Len(s)
  BY <1>3
<1>5. s \in Injection(1..n, S)
  BY <1>2 DEF Injection, IsInjective
<1>6. IsFiniteSet(1..n) /\ Cardinality(1..n) = n
  BY <1>1, FS_Interval
<1>7. s \in Surjection(1..n, S)
  BY <1>1, <1>5, <1>6, FS_Injection DEF n
<1>8. \A d \in S : \E i \in DOMAIN s : s[i] = d
  BY <1>3, <1>7 DEF Surjection
<1> QED
  BY <1>3, <1>4, <1>8

LEMMA PrunedDocs ==
  \A s \in BestFirst : s \in Seq(Docs)
<1>1. Counted \in SUBSET Docs
  BY SearchNumbers DEF Counted
<1> QED
  BY <1>1, Ordered DEF BestFirst

LEMMA StartedAssociation ==
  ASSUME SearchInv, StartAssociation, Head(pruned) \in Docs
  PROVE  /\ MatchOK'
         /\ from' = IF Inverted(search, texts[Head(pruned)]) THEN texts[Head(pruned)] ELSE search
         /\ to' = IF Inverted(search, texts[Head(pruned)]) THEN search ELSE texts[Head(pruned)]
<1>1. StartMatch(search, texts[Head(pruned)])
  BY DEF StartAssociation
<1>2. search \in Seq(Signs) /\ texts[Head(pruned)] \in Seq(Signs)
  BY DEF SearchInv, SearchTypes
<1> QED
  BY <1>1, <1>2, StartedMatch

LEMMA SearchStep ==
  ASSUME SearchInv, [Next]_vars
  PROVE  SearchInv'
<1>1. CASE LookUp
  BY <1>1, LookUpKeepsInv
<1>2. CASE Prune
  <2>1. /\ UNCHANGED <<texts, search, doc, position, tally>> /\ pc' = "compare"
        /\ position = Len(PostingHashes(search)) /\ UNCHANGED matching
    BY <1>2 DEF Prune
  <2>4. pruned' \in Seq(Docs)
    BY <1>2, PrunedDocs DEF Prune
  <2>2. SearchTypes' /\ \A d \in Docs : TallyOK(d)'
    BY <2>1, <2>4, OthersKeepTallies
  <2>3. MatchOK'
    BY <2>1, SameMatch DEF SearchInv
  <2> QED
    BY <2>2, <2>3 DEF SearchInv
<1>3. CASE StartAssociation
  <2>1. /\ UNCHANGED <<texts, search, doc, position, tally>> /\ pc' = "match" /\ pc = "compare"
    BY <1>3 DEF StartAssociation
  <2>4. pruned' \in Seq(Docs)
    <3>1. pruned \in Seq(Docs) /\ pruned # <<>> /\ pruned' = Tail(pruned)
      BY <1>3 DEF SearchInv, SearchTypes, StartAssociation
    <3> QED
      BY <3>1, HeadTailProperties
  <2>2. SearchTypes' /\ \A d \in Docs : TallyOK(d)'
    BY <2>1, <2>4, OthersKeepTallies
  <2>3. MatchOK'
    <3>1. pruned \in Seq(Docs) /\ pruned # <<>>
      BY <1>3 DEF SearchInv, SearchTypes, StartAssociation
    <3>2. Head(pruned) \in Docs
      BY <3>1, HeadTailProperties
    <3> QED
      BY <1>3, <3>2, StartedAssociation
  <2> QED
    BY <2>2, <2>3 DEF SearchInv
<1>4. CASE Match
  <2>1. /\ UNCHANGED <<texts, search, doc, position, tally>> /\ pc' = "match" /\ pc = "match"
    BY <1>4 DEF Match
  <2>4. pruned' \in Seq(Docs)
    BY <1>4 DEF Match, SearchInv, SearchTypes
  <2>2. SearchTypes' /\ \A d \in Docs : TallyOK(d)'
    BY <2>1, <2>4, OthersKeepTallies
  <2>3. MatchOK'
    <3>1. CASE TakePassage
      BY <3>1, TookRun DEF TakePassage, SearchInv
    <3>2. CASE DropMatch
      BY <3>2, DroppedMatch DEF SearchInv
    <3> QED
      BY <1>4, <3>1, <3>2 DEF Match
  <2> QED
    BY <2>2, <2>3 DEF SearchInv
<1>5. CASE EndAssociation \/ EndSearch
  <2>1. /\ UNCHANGED <<texts, search, doc, position, tally>> /\ pc' \in {"compare", "done"}
        /\ pc # "lookup" /\ UNCHANGED matching
    BY <1>5 DEF EndAssociation, EndSearch
  <2>4. pruned' \in Seq(Docs)
    BY <1>5 DEF EndAssociation, EndSearch, SearchInv, SearchTypes
  <2>2. SearchTypes' /\ \A d \in Docs : TallyOK(d)'
    BY <2>1, <2>4, OthersKeepTallies
  <2>3. MatchOK'
    BY <2>1, SameMatch DEF SearchInv
  <2> QED
    BY <2>2, <2>3 DEF SearchInv
<1>6. CASE UNCHANGED vars
  <2>1. /\ UNCHANGED <<texts, search, doc, position, tally, pc, pruned>> /\ UNCHANGED matching
    BY <1>6 DEF vars
  <2>2. SearchTypes'
    BY <2>1 DEF SearchInv, SearchTypes, PostingHashes
  <2>3. \A d \in Docs : TallyOK(d)'
    BY <2>1, SameTallies DEF SearchInv
  <2>4. MatchOK'
    BY <2>1, SameMatch DEF SearchInv
  <2> QED
    BY <2>2, <2>3, <2>4 DEF SearchInv
<1> QED
  BY <1>1, <1>2, <1>3, <1>4, <1>5, <1>6 DEF Next

LEMMA SearchInvariant == Spec => []SearchInv
<1>1. Init => SearchInv
  BY InitSearchInv
<1>2. SearchInv /\ [Next]_vars => SearchInv'
  BY SearchStep
<1> QED
  BY <1>1, <1>2, PTL DEF Spec

(* What a comparison finds is in both texts, is as long as a window at     *)
(* least, begins and ends with a letter, and is in the end every longest   *)
(* common passage, in whatever order the positions come                    *)
(* (Association::match).                                                   *)
THEOREM LongestPassagesFound == Spec => []PassagesAreLongestCommon
<1>1. SearchInv => PassagesAreLongestCommon
  BY MatchedPassages DEF SearchInv
<1> QED
  BY <1>1, SearchInvariant, PTL

-----------------------------------------------------------------------------
(* No document that shares more than a window is passed over.              *)
IsLookedUp(window) == ~IsBlank(window) => Hash(window) # WhiteSpaceHash

NoHashIsBlank ==
  \A d \in Docs \cup {NoDoc} : \A t \in StoredTexts(d) :
    \A i \in 1..(Len(t) - PostingWindowSize + 1) : IsLookedUp(Window(t, i, PostingWindowSize))

SearchStored == \E d \in Docs \cup {NoDoc} : search \in StoredTexts(d)

LEMMA SearchIsStored == Spec => []SearchStored
<1>1. Init => SearchStored
  BY DEF Init, SearchStored
<1>2. SearchStored /\ [Next]_vars => SearchStored'
  <2> SUFFICES ASSUME SearchStored, [Next]_vars
               PROVE  SearchStored'
    OBVIOUS
  <2>1. search' = search
    BY DEF Next, LookUp, Prune, StartAssociation, Match, EndAssociation, EndSearch, vars
  <2> QED
    BY <2>1 DEF SearchStored
<1> QED
  BY <1>1, <1>2, PTL DEF Spec

LEMMA WindowSigns ==
  ASSUME NEW a \in Seq(Signs), NEW i \in Nat, NEW n \in Nat, 1 <= i, i + n - 1 <= Len(a)
  PROVE  /\ Window(a, i, n) \in Seq(Signs) /\ Len(Window(a, i, n)) = n
         /\ \A x \in 1..n : Window(a, i, n)[x] = a[i + x - 1]
<1>1. Len(a) \in Nat /\ \A x \in 1..Len(a) : a[x] \in Signs
  BY ElementOfSeq
<1>2. PICK l \in Int : l = i + n - 1
  OBVIOUS
<1>3. \A x \in i..l : a[x] \in Signs
  BY <1>1, <1>2
<1>4. /\ SubSeq(a, i, l) \in Seq(Signs)
      /\ Len(SubSeq(a, i, l)) = IF i <= l THEN l - i + 1 ELSE 0
      /\ \A x \in 1..(l - i + 1) : SubSeq(a, i, l)[x] = a[i + x - 1]
  BY <1>3, SubSeqProperties
<1>5. l - i + 1 = n /\ (IF i <= l THEN l - i + 1 ELSE 0) = n
  BY <1>2
<1> QED
  BY <1>2, <1>4, <1>5 DEF Window

(* Windows at u and v are at the same place in equal windows at i and j.   *)
Inside(a, b, i, j, n, u, v, m) ==
  /\ {i, j, n, u, v, m} \subseteq Nat
  /\ 1 <= i /\ i + n - 1 <= Len(a) /\ 1 <= j /\ j + n - 1 <= Len(b)
  /\ Window(a, i, n) = Window(b, j, n)
  /\ i <= u /\ u - i = v - j /\ u - i + m <= n

LEMMA SubWindow ==
  ASSUME NEW a \in Seq(Signs), NEW b \in Seq(Signs), NEW i, NEW j, NEW n, NEW u, NEW v, NEW m,
         Inside(a, b, i, j, n, u, v, m)
  PROVE  Window(a, u, m) = Window(b, v, m) /\ Window(a, u, m) \in Seq(Signs)
<1>1. /\ i \in Nat /\ j \in Nat /\ n \in Nat /\ u \in Nat /\ v \in Nat /\ m \in Nat
      /\ Len(a) \in Nat /\ Len(b) \in Nat
      /\ 1 <= i /\ i + n - 1 <= Len(a) /\ 1 <= j /\ j + n - 1 <= Len(b)
      /\ Window(a, i, n) = Window(b, j, n)
      /\ i <= u /\ u - i = v - j /\ u - i + m <= n
  BY DEF Inside
<1>2. \A x \in 1..n : Window(a, i, n)[x] = a[i + x - 1]
  BY <1>1, WindowSigns
<1>3. \A x \in 1..n : Window(b, j, n)[x] = b[j + x - 1]
  BY <1>1, WindowSigns
<1>4. 1 <= u /\ u + m - 1 <= Len(a) /\ 1 <= v /\ v + m - 1 <= Len(b)
  BY <1>1
<1>5. /\ Window(a, u, m) \in Seq(Signs) /\ Len(Window(a, u, m)) = m
      /\ \A x \in 1..m : Window(a, u, m)[x] = a[u + x - 1]
  BY <1>1, <1>4, WindowSigns
<1>6. /\ Window(b, v, m) \in Seq(Signs) /\ Len(Window(b, v, m)) = m
      /\ \A x \in 1..m : Window(b, v, m)[x] = b[v + x - 1]
  BY <1>1, <1>4, WindowSigns
<1>7. ASSUME NEW x \in 1..m
      PROVE  Window(a, u, m)[x] = Window(b, v, m)[x]
  <2>1. PICK y \in 1..n : y = u - i + x
    <3>1. u - i + x \in 1..n
      BY <1>1
    <3> QED
      BY <3>1
  <2>2. a[i + y - 1] = b[j + y - 1]
    BY <1>1, <1>2, <1>3
  <2>3. i + y - 1 = u + x - 1 /\ j + y - 1 = v + x - 1
    BY <1>1, <2>1
  <2>4. a[u + x - 1] = b[v + x - 1]
    BY <2>2, <2>3
  <2> QED
    BY <1>5, <1>6, <2>4
<1> DEFINE s == Window(a, u, m)
           t == Window(b, v, m)
<1>8. s \in Seq(Signs) /\ t \in Seq(Signs) /\ Len(s) = Len(t) /\ \A x \in 1..Len(s) : s[x] = t[x]
  BY <1>1, <1>5, <1>6, <1>7
<1> HIDE DEF s, t
<1>9. s = t
  BY <1>8, SeqEqual
<1> QED
  BY <1>5, <1>9 DEF s, t

LEMMA SharedHits ==
  ASSUME SearchInv, SearchStored, NoHashIsBlank, NEW d \in Docs, pc # "lookup",
         SharesMoreThanWindow(search, texts[d])
  PROVE  \E p \in 1..position : Hits(d, p - RunLength, p)
<1> DEFINE a == search
           b == texts[d]
           R == RunLength
           n == WindowSize + 1
           m == PostingWindowSize
<1>1. PICK i \in 1..(Len(a) - WindowSize), j \in 1..(Len(b) - WindowSize) :
        /\ Window(a, i, WindowSize + 1) = Window(b, j, WindowSize + 1)
        /\ \A k \in 0..RunLength : ~IsBlank(Window(a, i + k, PostingWindowSize))
  BY DEF SharesMoreThanWindow
<1>2. /\ a \in Seq(Signs) /\ b \in Seq(Signs) /\ position = Len(PostingHashes(a))
      /\ Len(a) \in Nat /\ Len(b) \in Nat
  BY DEF SearchInv, SearchTypes
<1>3. /\ R \in Nat \ {0} /\ n \in Nat /\ m \in Nat \ {0} /\ m = WindowSize - R + 1
      /\ WindowSize \in Nat /\ R + m <= n
  BY SearchNumbers, WindowNumbers
<1>4. /\ DOMAIN PostingHashes(a) = 1..Len(PostingHashes(a))
      /\ DOMAIN PostingHashes(b) = 1..Len(PostingHashes(b))
      /\ Len(PostingHashes(a)) = Len(a) - m + 1
      /\ Len(PostingHashes(b)) = Len(b) - m + 1
  <2>1. ~(Len(a) < WindowSize) /\ ~(Len(b) < WindowSize)
    BY <1>1, <1>2, <1>3
  <2> QED
    BY <1>2, <2>1, HashesOfText
<1>5. i \in 1..(Len(a) - n + 1) /\ j \in 1..(Len(b) - n + 1) /\ i \in Nat /\ j \in Nat
  BY <1>1, <1>2, <1>3
<1>6. Window(a, i, n) = Window(b, j, n)
  BY <1>1
<1> HIDE DEF a, b, R, n, m
<1>7. ASSUME NEW k \in 0..R
      PROVE  HitAt(d, i + k)
  <2>1. k \in Nat /\ k + m <= n
    BY <1>3
  <2>2. Window(a, i + k, m) = Window(b, j + k, m) /\ Window(a, i + k, m) \in Seq(Signs)
    <3>1. PICK u \in Nat, v \in Nat : u = i + k /\ v = j + k
      BY <1>5, <2>1
    <3>2. Inside(a, b, i, j, n, u, v, m)
      BY <1>2, <1>3, <1>5, <1>6, <2>1, <3>1 DEF Inside
    <3>3. Window(a, u, m) = Window(b, v, m) /\ Window(a, u, m) \in Seq(Signs)
      BY <1>2, <3>2, SubWindow
    <3> QED
      BY <3>1, <3>3
  <2>3. i + k \in 1..(Len(a) - m + 1) /\ j + k \in 1..(Len(b) - m + 1)
    BY <1>2, <1>3, <1>5, <2>1
  <2>4. i + k \in DOMAIN PostingHashes(a) /\ j + k \in DOMAIN PostingHashes(b)
    BY <1>4, <2>3
  <2>5. ~IsBlank(Window(a, i + k, m))
    BY <1>1 DEF a, m, R
  <2>6. PostingHashes(a)[i + k] = Hash(Window(a, i + k, m))
    BY <2>4, <2>5 DEF PostingHashes, Hashes, m
  <2>7. PostingHashes(b)[j + k] = Hash(Window(a, i + k, m))
    BY <2>2, <2>4, <2>5 DEF PostingHashes, Hashes, m
  <2>8. PostingHashes(a)[i + k] # WhiteSpaceHash
    <3>1. PICK e \in Docs \cup {NoDoc} : a \in StoredTexts(e)
      BY DEF SearchStored, a
    <3>2. PICK u \in 1..(Len(a) - m + 1) : u = i + k
      BY <2>3
    <3>3. IsLookedUp(Window(a, u, m))
      BY <3>1, <3>2 DEF NoHashIsBlank, m
    <3> QED
      BY <2>5, <2>6, <3>2, <3>3 DEF IsLookedUp
  <2>9. PostingHashes(a)[i + k] \in ToSet(PostingHashes(b))
    BY <2>4, <2>6, <2>7 DEF ToSet
  <2> QED
    BY <2>4, <2>8, <2>9 DEF HitAt, a, b
<1>8. PICK p \in Nat : p = i + R
  BY <1>3, <1>5
<1>9. p \in 1..position
  BY <1>2, <1>3, <1>4, <1>5, <1>8
<1>10. ASSUME NEW q \in (p - R)..p
       PROVE  HitAt(d, q)
  <2>1. PICK k \in 0..R : q = i + k
    <3>1. q - i \in 0..R /\ q = i + (q - i)
      BY <1>3, <1>5, <1>8
    <3> QED
      BY <3>1
  <2> QED
    BY <1>7, <2>1
<1> QED
  BY <1>9, <1>10 DEF Hits, R

(* A search passes over no document that shares more than a window with    *)
(* its text, and never comes up with the document itself.  A window whose  *)
(* hash happens to be that of the blank windows is not looked up, whatever *)
(* its signs: the theorem is about texts without such windows.             *)
THEOREM SharersAreCounted ==
  ASSUME NoHashIsBlank
  PROVE  Spec => []SearchFindsAll
<1>1. ASSUME SearchInv, SearchStored
      PROVE  SearchFindsAll
  <2> SUFFICES ASSUME pc # "lookup"
               PROVE  /\ {d \in TargetDocs \ {doc} : SharesMoreThanWindow(search, texts[d])} \subseteq Counted
                      /\ doc \notin Counted
    BY DEF SearchFindsAll
  <2>1. ASSUME NEW d \in TargetDocs, d # doc, SharesMoreThanWindow(search, texts[d])
        PROVE  d \in Counted
    <3>1. d \in Docs
      BY SearchNumbers
    <3>2. PICK p \in 1..position : Hits(d, p - RunLength, p)
      BY <1>1, <2>1, <3>1, SharedHits
    <3>3. TallyFits(d, tally[d], position)
      BY <1>1, <3>1 DEF SearchInv, TallyOK
    <3>4. tally[d].count > 0
      BY <2>1, <3>2, <3>3 DEF TallyFits
    <3> QED
      BY <3>4 DEF Counted
  <2>2. doc \notin Counted
    <3>1. SUFFICES ASSUME doc \in TargetDocs
                   PROVE  ~(tally[doc].count > 0)
      BY DEF Counted
    <3>2. doc \in Docs
      BY <3>1, SearchNumbers
    <3>3. tally[doc].count = 0
      BY <1>1, <3>2 DEF SearchInv, TallyOK, TallyFits
    <3> QED
      BY <3>3
  <2> QED
    BY <2>1, <2>2
<1>2. SearchInv /\ SearchStored => SearchFindsAll
  BY <1>1
<1> QED
  BY <1>2, SearchInvariant, SearchIsStored, PTL

-----------------------------------------------------------------------------
(* The order in which documents are compared.                              *)
Associations == [doc : Docs, passages : SUBSET Passages]

Associated == {associations[k].doc : k \in DOMAIN associations}

(* Documents that have been compared and have a passage, or are compared.  *)
Seen == Associated \cup (IF pc = "match" THEN {other} ELSE {})

ToCompare(d) == \E i \in DOMAIN pruned : pruned[i] = d

BeatsTheRest(d) ==
  d \in Counted /\ \A i \in DOMAIN pruned : tally[d].count >= tally[pruned[i]].count

CompareOK ==
  LET text == texts[other]
  IN  /\ Room
      /\ from = IF Inverted(search, text) THEN text ELSE search
      /\ to = IF Inverted(search, text) THEN search ELSE text

RankOK ==
  /\ associations \in Seq(Associations) /\ Len(associations) <= NumResults
  /\ pc = "lookup" => pruned = <<>> /\ associations = <<>>
  /\ \A i, j \in DOMAIN pruned : i < j => tally[pruned[i]].count >= tally[pruned[j]].count
  /\ \A i \in DOMAIN pruned : pruned[i] \in Counted
  /\ \A d \in Seen : BeatsTheRest(d)
  /\ pc # "lookup" =>
       \A d \in Counted : d \in Seen \/ ToCompare(d) \/ PassagesWith(search, texts[d]) = {}
  /\ pc = "match" => CompareOK
  /\ \A k \in DOMAIN associations :
       associations[k].passages = PassagesWith(search, texts[associations[k].doc])
  /\ pc = "done" => pruned = <<>> \/ Len(associations) = NumResults

LEMMA EmptyDomain == DOMAIN <<>> = {}
OBVIOUS

LEMMA NothingRanked ==
  ASSUME pc = "lookup", pruned = <<>>, associations = <<>>
  PROVE  RankOK
<1>1. associations \in Seq(Associations) /\ Len(associations) <= NumResults
  BY EmptySeq, SearchNumbers
<1>2. Seen = {}
  BY EmptyDomain DEF Seen, Associated
<1> QED
  BY <1>1, <1>2, EmptyDomain DEF RankOK

LEMMA PrunedRanks ==
  ASSUME SearchInv, RankOK, Prune
  PROVE  RankOK'
<1>1. /\ pc = "lookup" /\ pc' = "compare" /\ pruned' \in BestFirst
      /\ UNCHANGED <<texts, search, tally, associations>>
      /\ associations = <<>>
  BY DEF Prune, RankOK
<1>2. Counted' = Counted /\ Counted \in SUBSET Docs
  BY <1>1, SearchNumbers DEF Counted
<1>3. pruned' \in SetToSeqs(Counted)
  BY <1>1 DEF BestFirst
<1>4. \A i, j \in DOMAIN pruned' : i < j => tally[pruned'[i]].count >= tally[pruned'[j]].count
  BY <1>1 DEF BestFirst
<1>5. /\ \A i \in DOMAIN pruned' : pruned'[i] \in Counted
      /\ \A d \in Counted : \E i \in DOMAIN pruned' : pruned'[i] = d
  <2>1. /\ pruned' \in Seq(Counted) /\ DOMAIN pruned' = 1..Len(pruned')
        /\ \A d \in Counted : \E i \in DOMAIN pruned' : pruned'[i] = d
    BY <1>2, <1>3, Ordered
  <2> QED
    BY <2>1, ElementOfSeq
<1>6. associations' = <<>> /\ associations' \in Seq(Associations) /\ Len(associations') <= NumResults
  BY <1>1, EmptySeq, SearchNumbers
<1>7. Seen' = {} /\ DOMAIN associations' = {}
  BY <1>1, <1>6, EmptyDomain DEF Seen, Associated
<1> QED
  BY <1>1, <1>2, <1>4, <1>5, <1>6, <1>7 DEF RankOK, ToCompare

LEMMA StartedRanks ==
  ASSUME SearchInv, RankOK, StartAssociation
  PROVE  RankOK'
<1>1. /\ pc = "compare" /\ pruned # <<>> /\ Room /\ pc' = "match"
      /\ pruned' = Tail(pruned) /\ other' = Head(pruned)
      /\ UNCHANGED <<texts, search, tally, associations>>
  BY DEF StartAssociation
<1>2. pruned \in Seq(Docs) /\ Len(pruned) \in Nat \ {0} /\ DOMAIN pruned = 1..Len(pruned)
  BY <1>1, EmptySeq DEF SearchInv, SearchTypes
<1>3. Counted' = Counted
  BY <1>1 DEF Counted
<1>4. /\ Head(pruned) = pruned[1] /\ Head(pruned) \in Docs
      /\ DOMAIN pruned' = 1..(Len(pruned) - 1)
      /\ \A i \in 1..(Len(pruned) - 1) : pruned'[i] = pruned[i + 1] /\ i + 1 \in DOMAIN pruned /\ 1 < i + 1
  <2>1. /\ Head(pruned) \in Docs /\ Tail(pruned) \in Seq(Docs) /\ Len(Tail(pruned)) = Len(pruned) - 1
        /\ \A i \in 1..Len(Tail(pruned)) : Tail(pruned)[i] = pruned[i + 1]
    BY <1>1, <1>2, HeadTailProperties
  <2>2. DOMAIN Tail(pruned) = 1..(Len(pruned) - 1)
    BY <2>1
  <2> QED
    BY <1>1, <1>2, <2>1, <2>2
<1>5. /\ \A i, j \in DOMAIN pruned : i < j => tally[pruned[i]].count >= tally[pruned[j]].count
      /\ \A i \in DOMAIN pruned : pruned[i] \in Counted
      /\ \A d \in Associated : BeatsTheRest(d)
      /\ \A d \in Counted : d \in Associated \/ ToCompare(d) \/ PassagesWith(search, texts[d]) = {}
      /\ associations \in Seq(Associations) /\ Len(associations) <= NumResults
      /\ \A k \in DOMAIN associations :
           associations[k].passages = PassagesWith(search, texts[associations[k].doc])
  BY <1>1 DEF RankOK, Seen
<1> DEFINE first == pruned[1]
<1>6. other' = first /\ first \in Counted /\ 1 \in DOMAIN pruned
  BY <1>1, <1>2, <1>4, <1>5
<1>7. Associated' = Associated /\ Seen' = Associated \cup {first}
  BY <1>1, <1>6 DEF Associated, Seen
<1>8. \A i, j \in DOMAIN pruned' : i < j => tally[pruned'[i]].count >= tally[pruned'[j]].count
  <2> SUFFICES ASSUME NEW i \in DOMAIN pruned', NEW j \in DOMAIN pruned', i < j
               PROVE  tally[pruned'[i]].count >= tally[pruned'[j]].count
    OBVIOUS
  <2>1. /\ pruned'[i] = pruned[i + 1] /\ pruned'[j] = pruned[j + 1]
        /\ i + 1 \in DOMAIN pruned /\ j + 1 \in DOMAIN pruned /\ i + 1 < j + 1
    BY <1>4
  <2>2. tally[pruned[i + 1]].count >= tally[pruned[j + 1]].count
    BY <1>5, <2>1
  <2> QED
    BY <2>1, <2>2
<1>9. \A i \in DOMAIN pruned' : pruned'[i] \in Counted
  BY <1>4, <1>5
<1>10. ASSUME NEW d \in Associated \cup {first}
       PROVE  BeatsTheRest(d)'
  <2>1. d \in Counted /\ \A i \in DOMAIN pruned : 1 < i => tally[d].count >= tally[pruned[i]].count
    <3>1. CASE d \in Associated
      BY <1>5, <3>1 DEF BeatsTheRest
    <3>2. CASE d = first
      BY <1>5, <1>6, <3>2
    <3> QED
      BY <1>10, <3>1, <3>2
  <2>2. \A i \in DOMAIN pruned' : tally[d].count >= tally[pruned'[i]].count
    BY <1>4, <2>1
  <2> QED
    BY <1>1, <1>3, <2>1, <2>2 DEF BeatsTheRest
<1>11. ASSUME NEW d \in Counted
       PROVE  d \in Associated \cup {first} \/ ToCompare(d)' \/ PassagesWith(search, texts[d]) = {}
  <2>1. SUFFICES ASSUME ToCompare(d), d # first
                 PROVE  ToCompare(d)'
    BY <1>5
  <2>2. PICK i \in DOMAIN pruned : pruned[i] = d
    BY <2>1 DEF ToCompare
  <2>3. i # 1
    BY <2>1, <2>2
  <2>4. i - 1 \in 1..(Len(pruned) - 1) /\ i - 1 + 1 = i
    BY <1>2, <2>3
  <2>5. pruned'[i - 1] = d /\ i - 1 \in DOMAIN pruned'
    BY <1>4, <2>2, <2>4
  <2> QED
    BY <2>5 DEF ToCompare
<1>12. CompareOK'
  <2>1. /\ from' = IF Inverted(search, texts[Head(pruned)]) THEN texts[Head(pruned)] ELSE search
        /\ to' = IF Inverted(search, texts[Head(pruned)]) THEN search ELSE texts[Head(pruned)]
    BY <1>4, StartedAssociation
  <2>2. Room' /\ search' = search /\ texts' = texts /\ other' = Head(pruned)
    BY <1>1 DEF Room
  <2> QED
    BY <2>1, <2>2 DEF CompareOK, Inverted
<1> QED
  BY <1>1, <1>3, <1>5, <1>7, <1>8, <1>9, <1>10, <1>11, <1>12 DEF RankOK

LEMMA EndedRanks ==
  ASSUME SearchInv, RankOK, EndAssociation
  PROVE  RankOK'
<1>1. /\ pc = "match" /\ pc' = "compare" /\ matches = <<>>
      /\ associations' =
           IF results = {} THEN associations
           ELSE Append(associations,
                  [doc      |-> other,
                   passages |-> IF Inverted(search, texts[other]) THEN Flip(results) ELSE results])
      /\ UNCHANGED <<texts, search, tally, pruned>>
  BY DEF EndAssociation
<1>2. Counted' = Counted /\ Counted \subseteq Docs
  BY <1>1, SearchNumbers DEF Counted
<1>3. /\ \A i, j \in DOMAIN pruned : i < j => tally[pruned[i]].count >= tally[pruned[j]].count
      /\ \A i \in DOMAIN pruned : pruned[i] \in Counted
      /\ \A d \in Associated \cup {other} : BeatsTheRest(d)
      /\ \A d \in Counted : \/ d \in Associated \/ d = other \/ ToCompare(d)
                            \/ PassagesWith(search, texts[d]) = {}
      /\ associations \in Seq(Associations) /\ CompareOK
      /\ \A k \in DOMAIN associations :
           associations[k].passages = PassagesWith(search, texts[associations[k].doc])
  BY <1>1 DEF RankOK, Seen
<1> DEFINE found == PassagesWith(search, texts[other])
           new   == [doc |-> other, passages |-> found]
<1>4. /\ other \in Docs /\ search \in Seq(Signs) /\ texts[other] \in Seq(Signs)
      /\ BeatsTheRest(other)
  BY <1>2, <1>3 DEF BeatsTheRest, SearchInv, SearchTypes
<1>5. /\ found = IF Inverted(search, texts[other]) THEN Flip(results) ELSE results
      /\ results = {} => found = {}
  <2>1. results = SharedPassages(from, to)
    BY <1>1, MatchedPassages DEF SearchInv, PassagesAreLongestCommon
  <2>2. /\ from = IF Inverted(search, texts[other]) THEN texts[other] ELSE search
        /\ to = IF Inverted(search, texts[other]) THEN search ELSE texts[other]
    BY <1>3 DEF CompareOK
  <2>3. Flip({}) = {}
    BY DEF Flip
  <2> QED
    BY <2>1, <2>2, <2>3 DEF PassagesWith
<1>6. found \subseteq Passages
  <2>1. SharedPassages(search, texts[other]) \subseteq Passages
    BY <1>4, SharedShape
  <2>2. SharedPassages(texts[other], search) \subseteq Passages
    BY <1>4, SharedShape
  <2>3. Flip(SharedPassages(texts[other], search)) \subseteq Passages
    BY <2>2 DEF Flip, Passages
  <2> QED
    BY <2>1, <2>3 DEF PassagesWith
<1>7. new \in Associations
  BY <1>4, <1>6 DEF Associations
<1>8. /\ results = {} => associations' = associations
      /\ results # {} => associations' = Append(associations, new)
  BY <1>1, <1>5
<1>9. Len(associations) \in Nat /\ Len(associations) < NumResults /\ NumResults \in Nat
      /\ DOMAIN associations = 1..Len(associations)
  BY <1>3, SearchNumbers DEF CompareOK, Room
<1> HIDE DEF new, found
<1>10. /\ associations' \in Seq(Associations) /\ Len(associations') <= NumResults
       /\ Associated' \subseteq Associated \cup {other}
       /\ Associated \subseteq Associated'
       /\ results # {} => other \in Associated'
       /\ \A k \in DOMAIN associations' :
            \/ associations'[k].passages = found /\ associations'[k].doc = other
            \/ k \in DOMAIN associations /\ associations'[k] = associations[k]
  <2>1. CASE results = {}
    BY <1>3, <1>8, <1>9, <2>1 DEF Associated
  <2>2. CASE results # {}
    <3>1. /\ Append(associations, new) \in Seq(Associations)
          /\ Len(Append(associations, new)) = Len(associations) + 1
          /\ DOMAIN Append(associations, new) = 1..(Len(associations) + 1)
          /\ \A k \in 1..Len(associations) : Append(associations, new)[k] = associations[k]
          /\ Append(associations, new)[Len(associations) + 1] = new
      BY <1>3, <1>7, <1>9
    <3>2. new.doc = other /\ new.passages = found
      BY DEF new
    <3>3. associations' = Append(associations, new)
      BY <1>8, <2>2
    <3>4. \A k \in 1..(Len(associations) + 1) : k \in 1..Len(associations) \/ k = Len(associations) + 1
      BY <1>9
    <3>5. Len(associations) + 1 <= NumResults /\ Len(associations) + 1 \in 1..(Len(associations) + 1)
      BY <1>9
    <3>6. \A k \in 1..Len(associations) : k \in 1..(Len(associations) + 1)
      BY <1>9
    <3> DEFINE l == Len(associations)
               next == Append(associations, new)
    <3>7. /\ next \in Seq(Associations) /\ Len(next) = l + 1 /\ DOMAIN next = 1..(l + 1)
          /\ \A k \in 1..l : next[k] = associations[k] /\ k \in 1..(l + 1)
          /\ next[l + 1] = new /\ associations' = next /\ DOMAIN associations = 1..l
          /\ l + 1 <= NumResults /\ l + 1 \in 1..(l + 1)
          /\ \A k \in 1..(l + 1) : k \in 1..l \/ k = l + 1
      BY <1>9, <3>1, <3>3, <3>4, <3>5, <3>6
    <3> HIDE DEF l, next
    <3>8. associations' \in Seq(Associations) /\ Len(associations') <= NumResults
      BY <3>7
    <3>9. Associated' = Associated \cup {other}
      BY <3>2, <3>7 DEF Associated
    <3>10. \A k \in DOMAIN associations' :
            \/ associations'[k].passages = found /\ associations'[k].doc = other
            \/ k \in DOMAIN associations /\ associations'[k] = associations[k]
      BY <3>2, <3>7
    <3> QED
      BY <3>8, <3>9, <3>10
  <2> QED
    BY <2>1, <2>2
<1>11. Seen' = Associated'
  BY <1>1 DEF Seen
<1>12. \A d \in Associated' : BeatsTheRest(d)'
  <2>1. \A d \in Associated \cup {other} : BeatsTheRest(d)'
    BY <1>1, <1>2, <1>3 DEF BeatsTheRest
  <2> QED
    BY <1>10, <2>1
<1>13. \A d \in Counted : d \in Associated' \/ ToCompare(d) \/ PassagesWith(search, texts[d]) = {}
  BY <1>3, <1>5, <1>10 DEF found
<1>14. \A k \in DOMAIN associations' :
         associations'[k].passages = PassagesWith(search, texts[associations'[k].doc])
  BY <1>3, <1>10 DEF found
<1> QED
  BY <1>1, <1>2, <1>3, <1>10, <1>11, <1>12, <1>13, <1>14 DEF RankOK, ToCompare

LEMMA MatchRanks ==
  ASSUME RankOK, Match
  PROVE  RankOK'
<1>1. /\ pc = "match" /\ from' = from /\ to' = to
      /\ UNCHANGED <<pc, texts, search, tally, pruned, other, associations>>
  BY DEF Match, TakePassage, DropMatch
<1>2. Counted' = Counted /\ Seen' = Seen /\ \A d : BeatsTheRest(d)' <=> BeatsTheRest(d)
  BY <1>1 DEF Counted, Seen, Associated, BeatsTheRest
<1>3. CompareOK' <=> CompareOK
  BY <1>1 DEF CompareOK, Room, Inverted
<1> QED
  BY <1>1, <1>2, <1>3 DEF RankOK, ToCompare

LEMMA EndedSearch ==
  ASSUME RankOK, EndSearch
  PROVE  RankOK'
<1>1. /\ pc = "compare" /\ pc' = "done" /\ (pruned = <<>> \/ ~Room)
      /\ UNCHANGED <<texts, search, tally, pruned, other, associations>>
  BY DEF EndSearch
<1>2. Counted' = Counted /\ Associated' = Associated
  BY <1>1 DEF Counted, Associated
<1>4. Seen = Associated /\ Seen' = Associated
  BY <1>1, <1>2 DEF Seen
<1>5. \A d \in Seen : BeatsTheRest(d)'
  <2>1. \A d \in Seen : BeatsTheRest(d)
    BY DEF RankOK
  <2> QED
    BY <1>1, <1>2, <2>1 DEF BeatsTheRest
<1>6. pc' # "lookup" /\ pc' # "match" /\ pc # "lookup"
  BY <1>1
<1>3. pruned = <<>> \/ Len(associations) = NumResults
  <2>1. Len(associations) \in Nat /\ Len(associations) <= NumResults /\ NumResults \in Nat
    BY SearchNumbers DEF RankOK
  <2> QED
    BY <1>1, <2>1 DEF Room
<1> QED
  BY <1>1, <1>2, <1>3, <1>4, <1>5, <1>6 DEF RankOK, ToCompare

LEMMA SameRanks ==
  ASSUME RankOK, UNCHANGED vars
  PROVE  RankOK'
<1>1. /\ from' = from /\ to' = to
      /\ UNCHANGED <<pc, texts, search, tally, pruned, other, associations>>
  BY DEF vars, matching
<1>2. Counted' = Counted /\ Seen' = Seen /\ \A d : BeatsTheRest(d)' <=> BeatsTheRest(d)
  BY <1>1 DEF Counted, Seen, Associated, BeatsTheRest
<1>3. CompareOK' <=> CompareOK
  BY <1>1 DEF CompareOK, Room, Inverted
<1> QED
  BY <1>1, <1>2, <1>3 DEF RankOK, ToCompare

LEMMA RankStep ==
  ASSUME SearchInv, RankOK, [Next]_vars
  PROVE  RankOK'
<1>1. CASE LookUp
  <2>1. pc' = "lookup" /\ pruned' = <<>> /\ associations' = <<>>
    BY <1>1 DEF LookUp, RankOK
  <2>2. Seen' = {} /\ DOMAIN pruned' = {} /\ DOMAIN associations' = {}
    BY <2>1, EmptyDomain DEF Seen, Associated
  <2>3. associations' \in Seq(Associations) /\ Len(associations') <= NumResults
    BY <2>1, EmptySeq, SearchNumbers
  <2> QED
    BY <2>1, <2>2, <2>3 DEF RankOK
<1> QED
  BY <1>1, PrunedRanks, StartedRanks, MatchRanks, EndedRanks, EndedSearch, SameRanks DEF Next

LEMMA RankInvariant == Spec => [](SearchInv /\ RankOK)
<1>1. Init => RankOK
  BY NothingRanked DEF Init
<1>2. SearchInv /\ RankOK /\ [Next]_vars => RankOK'
  BY RankStep
<1> QED
  BY <1>1, <1>2, SearchInvariant, PTL DEF Spec

(* The limit of results leaves out only documents that were hit less than  *)
(* those it lets in, or as often; below the limit none that shares a       *)
(* passage is left out (search.cc).                                        *)
THEOREM BestMatchesTaken == Spec => []BestAreAssociated
<1>1. ASSUME RankOK
      PROVE  BestAreAssociated
  <2> SUFFICES ASSUME pc = "done"
               PROVE  /\ Len(associations) <= NumResults
                      /\ \A d \in Counted \ Associated :
                           PassagesWith(search, texts[d]) # {} =>
                             /\ Len(associations) = NumResults
                             /\ \A a \in Associated : tally[a].count >= tally[d].count
    BY DEF BestAreAssociated, Associated
  <2>1. /\ Len(associations) <= NumResults
        /\ \A d \in Associated : BeatsTheRest(d)
        /\ \A d \in Counted : d \in Associated \/ ToCompare(d) \/ PassagesWith(search, texts[d]) = {}
        /\ pruned = <<>> \/ Len(associations) = NumResults
    BY <1>1 DEF RankOK, Seen
  <2>2. ASSUME NEW d \in Counted \ Associated, PassagesWith(search, texts[d]) # {}
        PROVE  /\ Len(associations) = NumResults
               /\ \A a \in Associated : tally[a].count >= tally[d].count
    <3>1. PICK i \in DOMAIN pruned : pruned[i] = d
      BY <2>1, <2>2 DEF ToCompare
    <3>2. pruned # <<>>
      BY <3>1, EmptyDomain
    <3> QED
      BY <2>1, <3>1, <3>2 DEF BeatsTheRest
  <2> QED
    BY <2>1, <2>2
<1>2. RankOK => BestAreAssociated
  BY <1>1
<1> QED
  BY <1>2, RankInvariant, PTL

(* A search for the other document finds the same passages the other way   *)
(* round, so that one record serves both.                                  *)
THEOREM PassagesReadBothWays == Spec => []SameFromBothEnds
<1>1. ASSUME SearchInv, RankOK
      PROVE  SameFromBothEnds
  <2> SUFFICES ASSUME NEW k \in DOMAIN associations,
                      LET text == texts[associations[k].doc]
                      IN  Len(text) # Len(search) \/ ~(Crowded(text) \/ Crowded(search))
               PROVE  PassagesWith(texts[associations[k].doc], search) = Flip(associations[k].passages)
    BY DEF SameFromBothEnds
  <2>1. associations[k].doc \in Docs
    <3>1. associations \in Seq(Associations)
      BY <1>1 DEF RankOK
    <3>2. associations[k] \in Associations
      BY <3>1, ElementOfSeq
    <3> QED
      BY <3>2 DEF Associations
  <2>2. texts[associations[k].doc] \in Seq(Signs) /\ search \in Seq(Signs)
    BY <1>1, <2>1 DEF SearchInv, SearchTypes
  <2>3. associations[k].passages = PassagesWith(search, texts[associations[k].doc])
    BY <1>1 DEF RankOK
  <2> QED
    BY <2>2, <2>3, OtherWayRound
<1>2. SearchInv /\ RankOK => SameFromBothEnds
  BY <1>1
<1> QED
  BY <1>2, RankInvariant, PTL
=============================================================================
