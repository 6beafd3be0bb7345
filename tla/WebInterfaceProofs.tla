------------------------- MODULE WebInterfaceProofs -------------------------
(***************************************************************************)
(* What is displayed is what was asked for last, for any documents,        *)
(* orders, filters and sizes of pages, and any number of requests under    *)
(* way.                                                                    *)
(***************************************************************************)
EXTENDS WebInterface, SortedSetsProofs, SequenceTheorems

ListRequests  == [kind : {"list"}, types : Filters, order : Orders, start : Cursors]
OtherRequests ==
  [kind : {"document", "compare"}, doc : Docs] \cup [kind : {"search"}, doc : {NoDoc}]
Requests      == ListRequests \cup OtherRequests

TypeOK ==
  /\ field \in Filters \cup {Invalid}
  /\ order \in Orders
  /\ list.page \in Seq(Docs)
  /\ \A position \in DOMAIN NoCursors : list.cursors[position] \in Cursors
  /\ selected \in Docs \cup {NoDoc}
  /\ shown \in [text : Docs \cup {NoDoc}, matches : Docs \cup {NoDoc}, fragments : Docs \cup {NoDoc}]
  /\ window # NoWindow => window \in [match : Docs, right : Docs \cup {NoDoc}]
  /\ requests \in Seq(Requests)
  /\ calm \in BOOLEAN
  /\ goal \in Docs \cup {NoDoc}

(* The request of a kind that was made last, if one is under way.          *)
Latest(reqs, kind) ==
  {reqs[i] : i \in {j \in DOMAIN reqs : /\ reqs[j].kind = kind
                                        /\ \A k \in DOMAIN reqs : j < k => reqs[k].kind # kind}}

(* As long as answers come in order, what is not yet as it should be will  *)
(* be made so by the answer that comes last.                               *)
ListComing ==
  calm /\ field # Invalid =>
    IF Latest(requests, "list") = {} THEN list.types = field /\ list.order = order
    ELSE \A r \in Latest(requests, "list") : r.types = field /\ r.order = order

IsShown(d) == shown.text = d /\ shown.matches = d /\ (d # NoDoc => shown.fragments = d)

ShownComing ==
  calm /\ Latest(requests, "list") = {} =>
    IF Latest(requests, "document") = {} THEN IsShown(selected)
    ELSE \A r \in Latest(requests, "document") : r.doc = selected

(* The list that is asked for begins with d.                               *)
BeginsWith(r, d) ==
  /\ r.types = {} \/ DocType[d] \in r.types
  /\ r.order = DefaultOrder
  /\ r.start = Key[DefaultOrder][d]

GoalComing ==
  calm /\ goal # NoDoc =>
    IF Latest(requests, "list") # {} THEN \A r \in Latest(requests, "list") : BeginsWith(r, goal)
    ELSE IF Latest(requests, "document") # {}
         THEN \A r \in Latest(requests, "document") : r.doc = goal
    ELSE shown.text = goal

WindowComing ==
  calm /\ window # NoWindow =>
    IF Latest(requests, "compare") = {} THEN window.right = window.match
    ELSE \A r \in Latest(requests, "compare") : r.doc = window.match

Coming == ListComing /\ ShownComing /\ GoalComing /\ WindowComing

WebInv == TypeOK /\ Coming

-----------------------------------------------------------------------------
LEMMA ToSetType ==
  ASSUME NEW S, NEW s \in Seq(S)
  PROVE  ToSet(s) \subseteq S
  BY LenProperties, ElementOfSeq DEF ToSet

(* Removing an answered request.                                           *)
LEMMA RemoveAtProperties ==
  ASSUME NEW S, NEW s \in Seq(S), NEW i \in 1..Len(s)
  PROVE  /\ RemoveAt(s, i) \in Seq(S)
         /\ Len(RemoveAt(s, i)) = Len(s) - 1
         /\ \A j \in 1..(Len(s) - 1) : RemoveAt(s, i)[j] = IF j < i THEN s[j] ELSE s[j + 1]
<1> DEFINE front == SubSeq(s, 1, i - 1)
           back  == SubSeq(s, i + 1, Len(s))
<1>1. Len(s) \in Nat /\ i \in Nat /\ i >= 1 /\ i <= Len(s) /\ \A j \in 1..Len(s) : s[j] \in S
  BY LenProperties, ElementOfSeq
<1>2. /\ front \in Seq(S) /\ Len(front) = i - 1
      /\ \A j \in 1..(i - 1) : front[j] = s[j]
  <2>1. \A j \in 1..(i - 1) : s[j] \in S
    BY <1>1
  <2>2. /\ front \in Seq(S)
        /\ Len(front) = (IF 1 <= i - 1 THEN (i - 1) - 1 + 1 ELSE 0)
        /\ \A j \in 1..((i - 1) - 1 + 1) : front[j] = s[1 + j - 1]
    BY <1>1, <2>1, SubSeqProperties
  <2> HIDE DEF front
  <2> QED
    BY <1>1, <2>2
<1>3. /\ back \in Seq(S) /\ Len(back) = Len(s) - i
      /\ \A j \in 1..(Len(s) - i) : back[j] = s[i + j]
  <2>1. \A j \in (i + 1)..Len(s) : s[j] \in S
    BY <1>1
  <2>2. /\ back \in Seq(S)
        /\ Len(back) = (IF i + 1 <= Len(s) THEN Len(s) - (i + 1) + 1 ELSE 0)
        /\ \A j \in 1..(Len(s) - (i + 1) + 1) : back[j] = s[(i + 1) + j - 1]
    BY <1>1, <2>1, SubSeqProperties
  <2> HIDE DEF back
  <2> QED
    BY <1>1, <2>2
<1>4. RemoveAt(s, i) = front \o back
  BY DEF RemoveAt
<1> HIDE DEF front, back
<1>5. /\ RemoveAt(s, i) \in Seq(S) /\ Len(RemoveAt(s, i)) = Len(s) - 1
      /\ \A j \in 1..(Len(s) - 1) : RemoveAt(s, i)[j] =
           IF j <= i - 1 THEN front[j] ELSE back[j - (i - 1)]
  <2>1. /\ front \o back \in Seq(S) /\ Len(front \o back) = Len(front) + Len(back)
        /\ \A j \in 1..(Len(front) + Len(back)) : (front \o back)[j] =
             IF j <= Len(front) THEN front[j] ELSE back[j - Len(front)]
    BY <1>2, <1>3, ConcatProperties
  <2>2. Len(front) + Len(back) = Len(s) - 1
    BY <1>1, <1>2, <1>3
  <2> QED
    BY <1>2, <1>4, <2>1, <2>2
<1>6. ASSUME NEW j \in 1..(Len(s) - 1)
      PROVE  RemoveAt(s, i)[j] = IF j < i THEN s[j] ELSE s[j + 1]
  <2>1. RemoveAt(s, i)[j] = IF j <= i - 1 THEN front[j] ELSE back[j - (i - 1)]
    BY <1>1, <1>5
  <2>2. CASE j < i
    BY <1>1, <1>2, <2>1, <2>2
  <2>3. CASE ~(j < i)
    <3>1. j - (i - 1) \in 1..(Len(s) - i) /\ i + (j - (i - 1)) = j + 1
      BY <1>1, <2>3
    <3>2. RemoveAt(s, i)[j] = back[j - (i - 1)]
      BY <1>1, <2>1, <2>3
    <3> QED
      BY <1>3, <2>3, <3>1, <3>2
  <2> QED
    BY <2>2, <2>3
<1> QED
  BY <1>1, <1>5, <1>6

-----------------------------------------------------------------------------
(* The latest requests.                                                    *)
LEMMA LatestOf ==
  ASSUME NEW S, NEW s \in Seq(S), NEW kind, NEW r
  PROVE  r \in Latest(s, kind) <=>
           \E i \in 1..Len(s) : /\ r = s[i] /\ s[i].kind = kind
                                /\ \A k \in 1..Len(s) : i < k => s[k].kind # kind
  BY LenProperties DEF Latest

LEMMA LatestOfNone ==
  ASSUME NEW kind
  PROVE  Latest(<<>>, kind) = {}
  BY DEF Latest

LEMMA LatestAppend ==
  ASSUME NEW S, NEW s \in Seq(S), NEW r \in S, NEW kind
  PROVE  Latest(Append(s, r), kind) = IF r.kind = kind THEN {r} ELSE Latest(s, kind)
<1> DEFINE t == Append(s, r)
<1>1. /\ t \in Seq(S) /\ Len(t) = Len(s) + 1 /\ t[Len(s) + 1] = r
      /\ \A i \in 1..Len(s) : t[i] = s[i]
      /\ Len(s) \in Nat
  BY AppendProperties, LenProperties
<1> HIDE DEF t
<1>2. \A i \in 1..Len(t) : i \in 1..Len(s) \/ i = Len(s) + 1
  BY <1>1
<1>3. Len(t) \in 1..Len(t) /\ \A i \in 1..Len(s) : i \in 1..Len(t) /\ i < Len(t)
  BY <1>1
<1>4. CASE r.kind = kind
  <2>1. ASSUME NEW x
        PROVE  x \in Latest(t, kind) <=> x = r
    BY <1>1, <1>2, <1>3, <1>4, LatestOf
  <2> QED
    BY <1>4, <2>1 DEF t
<1>5. CASE r.kind # kind
  <2>1. ASSUME NEW x
        PROVE  x \in Latest(t, kind) <=> x \in Latest(s, kind)
    BY <1>1, <1>2, <1>3, <1>5, LatestOf
  <2> QED
    BY <1>5, <2>1 DEF t
<1> QED
  BY <1>4, <1>5

LEMMA LatestThere ==
  ASSUME NEW S, NEW s \in Seq(S), NEW i \in 1..Len(s)
  PROVE  Latest(s, s[i].kind) # {}
<1> DEFINE kind == s[i].kind
           Left == {Len(s) - j : j \in {k \in 1..Len(s) : s[k].kind = kind}}
<1>1. Len(s) \in Nat
  BY LenProperties
<1>2. Left \subseteq Nat /\ Left # {}
  BY <1>1
<1>3. PICK n \in Left : \A m \in Left : n <= m
  BY <1>2, HasLeast
<1>4. PICK j \in 1..Len(s) : s[j].kind = kind /\ n = Len(s) - j
  BY <1>3
<1>5. ASSUME NEW k \in 1..Len(s), j < k, s[k].kind = kind
      PROVE  FALSE
  <2>1. Len(s) - k \in Left
    BY <1>5
  <2> QED
    <3>1. n <= Len(s) - k
      BY <1>3, <2>1
    <3> QED
      BY <1>1, <1>4, <1>5, <3>1
<1>6. s[j] \in Latest(s, kind)
  BY <1>4, <1>5, LatestOf
<1> QED
  BY <1>6

LEMMA LatestRest ==
  ASSUME NEW S, NEW s \in Seq(S), 1 \in 1..Len(s), NEW kind
  PROVE  \/ Latest(RemoveAt(s, 1), kind) = Latest(s, kind)
         \/ /\ Latest(RemoveAt(s, 1), kind) = {} /\ Latest(s, kind) = {s[1]}
            /\ s[1].kind = kind
<1> DEFINE t == RemoveAt(s, 1)
<1>1. Len(s) \in Nat
  BY LenProperties
<1>2. t \in Seq(S) /\ Len(t) = Len(s) - 1 /\ \A i \in 1..(Len(s) - 1) : t[i] = s[i + 1]
  BY <1>1, RemoveAtProperties
<1> HIDE DEF t
<1>3. \A i \in 1..Len(s) : i = 1 \/ (i - 1 \in 1..Len(t) /\ t[i - 1] = s[i])
  BY <1>1, <1>2
<1>4. \A i \in 1..Len(t) : i + 1 \in 1..Len(s) /\ i + 1 # 1 /\ t[i] = s[i + 1]
  BY <1>1, <1>2
<1>5. ASSUME NEW r \in Latest(t, kind)
      PROVE  r \in Latest(s, kind)
  <2>1. PICK i \in 1..Len(t) : /\ r = t[i] /\ t[i].kind = kind
                               /\ \A k \in 1..Len(t) : i < k => t[k].kind # kind
    BY <1>2, LatestOf
  <2>2. ASSUME NEW k \in 1..Len(s), i + 1 < k
        PROVE  s[k].kind # kind
    <3>1. k - 1 \in 1..Len(t) /\ t[k - 1] = s[k] /\ i < k - 1
      BY <1>1, <1>2, <1>3, <2>2
    <3> QED
      BY <2>1, <3>1
  <2>3. i + 1 \in 1..Len(s) /\ r = s[i + 1] /\ s[i + 1].kind = kind
    BY <1>4, <2>1
  <2> QED
    BY <2>2, <2>3, LatestOf
<1>6. ASSUME NEW i \in 1..Len(s), i # 1, s[i].kind = kind, \A k \in 1..Len(s) : i < k => s[k].kind # kind
      PROVE  s[i] \in Latest(t, kind)
  <2>1. i - 1 \in 1..Len(t) /\ t[i - 1] = s[i]
    BY <1>3, <1>6
  <2>2. ASSUME NEW k \in 1..Len(t), i - 1 < k
        PROVE  t[k].kind # kind
    <3>1. k + 1 \in 1..Len(s) /\ t[k] = s[k + 1] /\ i < k + 1
      BY <1>1, <1>4, <2>2
    <3> QED
      BY <1>6, <3>1
  <2> QED
    BY <1>2, <1>6, <2>1, <2>2, LatestOf
<1>7. CASE s[1].kind = kind /\ \A k \in 1..Len(s) : 1 < k => s[k].kind # kind
  <2>1. \A r : r \in Latest(s, kind) <=> r = s[1]
    <3>1. \A i \in 1..Len(s) : s[i].kind = kind => i = 1
      BY <1>1, <1>7
    <3> QED
      BY <1>7, <3>1, LatestOf
  <2>2. ASSUME NEW r \in Latest(t, kind)
        PROVE  FALSE
    <3>1. PICK i \in 1..Len(t) : t[i].kind = kind
      BY <1>2, LatestOf
    <3>2. i + 1 \in 1..Len(s) /\ 1 < i + 1 /\ s[i + 1].kind = kind
      BY <1>1, <1>4, <3>1
    <3> QED
      BY <1>7, <3>2
  <2> QED
    BY <1>7, <2>1, <2>2 DEF t
<1>8. CASE ~(s[1].kind = kind /\ \A k \in 1..Len(s) : 1 < k => s[k].kind # kind)
  <2>1. ASSUME NEW r \in Latest(s, kind)
        PROVE  r \in Latest(t, kind)
    <3>1. PICK i \in 1..Len(s) : /\ r = s[i] /\ s[i].kind = kind
                                 /\ \A k \in 1..Len(s) : i < k => s[k].kind # kind
      BY LatestOf
    <3>2. i # 1
      BY <1>8, <3>1
    <3> QED
      BY <1>6, <3>1, <3>2
  <2> QED
    BY <1>5, <2>1 DEF t
<1> QED
  BY <1>7, <1>8

-----------------------------------------------------------------------------
(* What the server answers.                                                *)
Matching(types) == {d \in Docs : types = {} \/ DocType[d] \in types}

LEMMA ListingOK ==
  ASSUME WebAssumptions, NEW types \in Filters, NEW o \in Orders
  PROVE  LET all == Listing[types][o] IN
         /\ all \in Seq(Docs)
         /\ \A i, j \in 1..Len(all) : i < j => Key[o][all[i]] < Key[o][all[j]]
         /\ \A d \in Matching(types) : \E i \in 1..Len(all) : all[i] = d
<1>1. Matching(types) \subseteq Docs /\ IsFiniteSet(Matching(types))
  BY FS_Subset DEF Matching, WebAssumptions
<1>2. Keyed(Matching(types), Key[o])
  BY <1>1 DEF Keyed, WebAssumptions
<1>3. Listing[types][o] = Sorted(Matching(types), Key[o])
  BY DEF Listing, Matching
<1>4. Sorted(Matching(types), Key[o]) \in Seq(Docs)
  BY <1>1, <1>2, SortedProperties, SeqMonotonic
<1> QED
  BY <1>1, <1>2, <1>3, <1>4, SortedProperties

LEMMA PageOK ==
  ASSUME WebAssumptions, NEW types \in Filters, NEW o \in Orders, NEW start \in Nat
  PROVE  /\ PageAt(types, o, start) \in Seq(Docs)
         /\ PageAt(types, o, start) # <<>> => Listing[types][o] # <<>>
         /\ \A d \in Matching(types) : start = Key[o][d] =>
              PageAt(types, o, start) # <<>> /\ Head(PageAt(types, o, start)) = d
<1> DEFINE all    == Listing[types][o]
           passed == {i \in DOMAIN all : Key[o][all[i]] < start}
           n      == Cardinality(passed)
           end    == Min({n + PageSize, Len(all)})
           page   == SubSeq(all, n + 1, end)
<1>1. /\ all \in Seq(Docs)
      /\ \A i, j \in 1..Len(all) : i < j => Key[o][all[i]] < Key[o][all[j]]
      /\ \A d \in Matching(types) : \E i \in 1..Len(all) : all[i] = d
  BY ListingOK
<1>2. PageAt(types, o, start) = page
  BY DEF PageAt
<1>3. PageSize \in Nat \ {0}
  BY DEF WebAssumptions
<1> HIDE DEF all
<1>4. Len(all) \in Nat /\ DOMAIN all = 1..Len(all) /\ \A i \in 1..Len(all) : all[i] \in Docs
  BY <1>1, LenProperties, ElementOfSeq
<1>5. passed \subseteq 1..Len(all) /\ IsFiniteSet(1..Len(all))
  BY <1>4, FS_Interval
<1>6. n \in Nat
  BY <1>5, FS_Subset, FS_CardinalityType
<1> HIDE DEF n
<1>7. end \in Nat /\ end <= Len(all) /\ (end = Len(all) \/ end = n + PageSize)
  <2>1. end = IF n + PageSize <= Len(all) THEN n + PageSize ELSE Len(all)
    BY <1>3, <1>4, <1>6, MinOfTwo
  <2>2. n + PageSize \in Nat /\ Len(all) \in Nat
    BY <1>3, <1>4, <1>6
  <2> HIDE DEF end
  <2> QED
    BY <2>1, <2>2
<1> HIDE DEF end
<1>8. /\ page \in Seq(Docs)
      /\ Len(page) = (IF n + 1 <= end THEN end - (n + 1) + 1 ELSE 0)
      /\ \A i \in 1..(end - (n + 1) + 1) : page[i] = all[(n + 1) + i - 1]
  <2>1. \A i \in (n + 1)..end : all[i] \in Docs
    BY <1>4, <1>6, <1>7
  <2> QED
    BY <1>6, <1>7, <2>1, SubSeqProperties
<1> HIDE DEF page
<1>9. page # <<>> => all # <<>>
  <2>1. page # <<>> => Len(page) # 0
    BY <1>8, EmptySeq
  <2>2. all = <<>> => Len(all) = 0
    BY EmptySeq
  <2> QED
    BY <1>6, <1>7, <1>8, <2>1, <2>2
<1>10. ASSUME NEW d \in Matching(types), start = Key[o][d]
       PROVE  page # <<>> /\ Head(page) = d
  <2>1. PICK k \in 1..Len(all) : all[k] = d
    BY <1>1, <1>10
  <2>2. \A i \in 1..Len(all) : Key[o][all[i]] \in Nat
    BY <1>4 DEF WebAssumptions
  <2>3. \A i \in 1..Len(all) : Key[o][all[i]] < start <=> i < k
    <3> SUFFICES ASSUME NEW i \in 1..Len(all)
                 PROVE  Key[o][all[i]] < start <=> i < k
      OBVIOUS
    <3>1. start = Key[o][all[k]]
      BY <1>10, <2>1
    <3>2. i < k \/ i = k \/ k < i
      BY <1>4, <2>1
    <3>3. i < k => Key[o][all[i]] < start
      BY <1>1, <3>1
    <3>4. k < i => start < Key[o][all[i]]
      BY <1>1, <3>1
    <3> QED
      BY <1>4, <2>2, <3>1, <3>2, <3>3, <3>4
  <2>4. passed = 1..(k - 1)
    BY <1>4, <2>1, <2>3
  <2>5. n = k - 1
    <3>1. Cardinality(1..(k - 1)) = k - 1
      BY <1>4, <2>1, FS_Interval
    <3> HIDE DEF passed
    <3> QED
      BY <2>4, <3>1 DEF n
  <2>6. n + 1 <= end
    <3>1. k \in Nat /\ k <= Len(all) /\ k >= 1
      BY <1>4, <2>1
    <3>2. CASE end = Len(all)
      BY <2>5, <3>1, <3>2
    <3>3. CASE end = n + PageSize
      BY <1>3, <1>6, <3>3
    <3> QED
      BY <1>7, <3>2, <3>3
  <2>7. Len(page) >= 1 /\ page[1] = all[k] /\ page # <<>>
    <3>1. Len(page) >= 1 /\ page[1] = all[k]
      BY <1>6, <1>7, <1>8, <2>5, <2>6
    <3> QED
      BY <3>1, EmptySeq
  <2> QED
    BY <1>8, <2>1, <2>7, HeadTailProperties
<1> QED
  BY <1>1, <1>2, <1>8, <1>9, <1>10 DEF all

LEMMA CursorsOK ==
  ASSUME WebAssumptions, NEW types \in Filters, NEW o \in Orders, NEW page \in Seq(Docs),
         page # <<>> => Listing[types][o] # <<>>
  PROVE  \A position \in DOMAIN NoCursors : CursorsOf(page, types, o)[position] \in Cursors
<1> DEFINE all    == Listing[types][o]
           n      == Len(all)
           at(i)  == Key[o][all[Max({1, i})]]
           found  == {i \in 1..n : all[i] = Head(page)}
           front  == SelectInSeq(all, LAMBDA d : d = Head(page))
           behind == front + Len(page)
<1>1. CursorsOf(page, types, o) =
        [first    |-> 0,
         last     |-> IF all = <<>> THEN 0 ELSE at(n - PageSize + 1),
         previous |-> IF page = <<>> THEN 0 ELSE at(front - PageSize),
         next     |-> IF page = <<>> \/ behind > n THEN 0 ELSE at(behind)]
  BY DEF CursorsOf
<1>2. all \in Seq(Docs)
  BY ListingOK
<1>3. front = IF found # {} THEN Min(found) ELSE 0
  BY DEF SelectInSeq
<1>4. PageSize \in Nat \ {0} /\ (page # <<>> => all # <<>>)
  BY DEF WebAssumptions
<1> HIDE DEF all, front
<1>5. n \in Nat /\ Len(page) \in Nat /\ (all # <<>> => n # 0) /\ \A i \in 1..n : all[i] \in Docs
  BY <1>2, LenProperties, EmptySeq, ElementOfSeq
<1>6. front \in 0..n
  <2>1. CASE found = {}
    BY <1>3, <1>5, <2>1
  <2>2. CASE found # {}
    <3>1. found \subseteq 1..n /\ found \subseteq Nat
      BY <1>5
    <3>2. Min(found) \in found
      BY <2>2, <3>1, MinIsLeast
    <3> QED
      BY <1>3, <1>5, <2>2, <3>1, <3>2
  <2> QED
    BY <2>1, <2>2
<1> HIDE DEF found
<1>7. ASSUME NEW i \in Int, i <= n, n # 0
      PROVE  at(i) \in Cursors
  <2>1. Max({1, i}) \in 1..n
    BY <1>5, <1>7, MaxOfTwo
  <2>2. all[Max({1, i})] \in Docs
    BY <1>5, <2>1
  <2> QED
    <3>1. \A d \in Docs : Key[o][d] \in Cursors
      BY DEF Cursors
    <3> QED
      BY <2>2, <3>1
<1>8. 0 \in Cursors
  BY DEF Cursors
<1> HIDE DEF at
<1>9. all # <<>> => at(n - PageSize + 1) \in Cursors
  BY <1>4, <1>5, <1>7
<1>10. page # <<>> => at(front - PageSize) \in Cursors
  BY <1>4, <1>5, <1>6, <1>7
<1>11. page # <<>> /\ ~(behind > n) => at(behind) \in Cursors
  BY <1>4, <1>5, <1>6, <1>7
<1> QED
  BY <1>1, <1>8, <1>9, <1>10, <1>11 DEF NoCursors

(* A page of the documents of some types, in the order asked for, that     *)
(* begins with the document it was to begin with.                          *)
LEMMA AnswerOK ==
  ASSUME WebAssumptions, NEW r \in ListRequests
  PROVE  LET answer == AnswerTo(r) IN
         /\ answer.page \in Seq(Docs)
         /\ \A position \in DOMAIN NoCursors : answer.cursors[position] \in Cursors
         /\ answer.types = r.types /\ answer.order = r.order
         /\ \A d \in Docs : BeginsWith(r, d) => answer.page # <<>> /\ Head(answer.page) = d
<1> DEFINE page == PageAt(r.types, r.order, r.start)
<1>1. r.types \in Filters /\ r.order \in Orders /\ r.start \in Cursors
  BY DEF ListRequests
<1>2. AnswerTo(r) =
        [page |-> page, cursors |-> CursorsOf(page, r.types, r.order),
         types |-> r.types, order |-> r.order]
  BY <1>1 DEF ListAnswer, AnswerTo
<1>3. r.start \in Nat
  BY <1>1 DEF Cursors, WebAssumptions
<1>4. /\ page \in Seq(Docs)
      /\ page # <<>> => Listing[r.types][r.order] # <<>>
      /\ \A d \in Docs : BeginsWith(r, d) => page # <<>> /\ Head(page) = d
  <2>1. ASSUME NEW d \in Docs, BeginsWith(r, d)
        PROVE  page # <<>> /\ Head(page) = d
    <3>1. d \in Matching(r.types) /\ r.start = Key[r.order][d]
      BY <2>1 DEF BeginsWith, Matching
    <3> QED
      BY <1>1, <1>3, <3>1, PageOK
  <2> QED
    BY <1>1, <1>3, <2>1, PageOK
<1> HIDE DEF page
<1>5. \A position \in DOMAIN NoCursors : CursorsOf(page, r.types, r.order)[position] \in Cursors
  BY <1>1, <1>4, CursorsOK
<1> QED
  BY <1>2, <1>4, <1>5

-----------------------------------------------------------------------------
(* What is asked.                                                          *)
LEMMA AskOne ==
  ASSUME NEW s \in Seq(Requests), NEW r \in Requests
  PROVE  s \o <<r>> = Append(s, r) /\ Append(s, r) \in Seq(Requests)
  BY AppendIsConcat, AppendProperties

LEMMA ListRequestType ==
  ASSUME WebAssumptions, NEW f \in Filters \cup {Invalid}, NEW o \in Orders, NEW start \in Cursors
  PROVE  /\ ListRequest(f, o, start) \in ListRequests
         /\ ListRequest(f, o, start) \in Requests
         /\ ListRequest(f, o, start).kind = "list"
  BY DEF ListRequest, ListRequests, Requests, WebAssumptions

LEMMA KindOfRequest ==
  ASSUME NEW r \in Requests
  PROVE  /\ r.kind = "list" => r \in ListRequests
         /\ r \in ListRequests => r.kind = "list"
         /\ r.kind \in {"document", "compare"} => r.doc \in Docs
  BY DEF Requests, ListRequests, OtherRequests

LEMMA FirstLoad ==
  ASSUME WebAssumptions, TypeOK
  PROVE  \/ LoadIfEmpty = <<>>
         \/ \E r \in ListRequests : /\ LoadIfEmpty = <<r>>
                                    /\ field # Invalid => r.types = field
                                    /\ r.order = order
<1> DEFINE r == ListRequest(field, order, list.cursors.first)
<1>1. list.cursors.first \in Cursors
  BY DEF TypeOK, NoCursors
<1>2. r \in ListRequests
  BY <1>1, ListRequestType DEF TypeOK
<1>3. (field # Invalid => r.types = field) /\ r.order = order
  BY DEF ListRequest
<1>4. LoadIfEmpty = <<>> \/ LoadIfEmpty = <<r>>
  BY DEF LoadIfEmpty
<1> HIDE DEF r
<1> QED
  BY <1>2, <1>3, <1>4

(* The requests after one for a list, which another may come before.       *)
ListAsked(r) ==
  \E mid \in Seq(Requests) :
    /\ requests' = Append(mid, r)
    /\ mid = requests \/ \E q \in ListRequests : mid = Append(requests, q)

LEMMA ListAskedLatest ==
  ASSUME TypeOK, NEW r \in ListRequests, ListAsked(r)
  PROVE  /\ requests' \in Seq(Requests)
         /\ Latest(requests', "list") = {r}
         /\ \A kind : kind # "list" => Latest(requests', kind) = Latest(requests, kind)
<1>1. PICK mid \in Seq(Requests) :
        /\ requests' = Append(mid, r)
        /\ mid = requests \/ \E q \in ListRequests : mid = Append(requests, q)
  BY DEF ListAsked
<1>2. r \in Requests /\ r.kind = "list" /\ \A q \in ListRequests : q \in Requests /\ q.kind = "list"
  BY DEF Requests, ListRequests
<1>3. requests' \in Seq(Requests)
  BY <1>1, <1>2, AppendProperties
<1>4. \A kind : Latest(requests', kind) = IF r.kind = kind THEN {r} ELSE Latest(mid, kind)
  BY <1>1, <1>2, LatestAppend
<1>5. ASSUME NEW kind, kind # "list"
      PROVE  Latest(mid, kind) = Latest(requests, kind)
  <2>1. CASE mid = requests
    BY <2>1
  <2>2. ASSUME NEW q \in ListRequests, mid = Append(requests, q)
        PROVE  Latest(mid, kind) = Latest(requests, kind)
    BY <1>2, <1>5, <2>2, LatestAppend DEF TypeOK
  <2> QED
    BY <1>1, <2>1, <2>2
<1> QED
  BY <1>2, <1>3, <1>4, <1>5

LEMMA AsksOneList ==
  ASSUME TypeOK, NEW r \in ListRequests, Ask(<<r>>)
  PROVE  ListAsked(r)
<1>1. r \in Requests /\ requests \in Seq(Requests)
  BY DEF Requests, TypeOK
<1>2. requests' = requests \o <<r>>
  BY DEF Ask
<1>3. requests' = Append(requests, r)
  BY <1>1, <1>2, AskOne
<1> QED
  BY <1>1, <1>3 DEF ListAsked

LEMMA AsksTwoLists ==
  ASSUME WebAssumptions, TypeOK, NEW r \in ListRequests, Ask(LoadIfEmpty \o <<r>>)
  PROVE  ListAsked(r)
<1>1. r \in Requests /\ requests \in Seq(Requests) /\ <<r>> \in Seq(Requests)
  BY DEF Requests, TypeOK
<1>2. requests' = requests \o (LoadIfEmpty \o <<r>>)
  BY DEF Ask
<1>3. CASE LoadIfEmpty = <<>>
  <2>1. requests' = requests \o <<r>>
    BY <1>1, <1>2, <1>3, ConcatEmptySeq
  <2> QED
    BY <1>1, <2>1, AskOne DEF ListAsked
<1>4. ASSUME NEW q \in ListRequests, LoadIfEmpty = <<q>>
      PROVE  ListAsked(r)
  <2>1. q \in Requests /\ <<q>> \in Seq(Requests)
    BY DEF Requests
  <2>2. requests' = (requests \o <<q>>) \o <<r>>
    BY <1>1, <1>2, <1>4, <2>1, ConcatAssociative
  <2>3. requests' = Append(Append(requests, q), r) /\ Append(requests, q) \in Seq(Requests)
    BY <1>1, <2>1, <2>2, AskOne
  <2> QED
    BY <2>3 DEF ListAsked
<1> QED
  BY <1>3, <1>4, FirstLoad

-----------------------------------------------------------------------------
(* The kinds of steps.  Nothing is asked, and nothing but the window goes. *)
LEMMA StandingKeeps ==
  ASSUME Coming, UNCHANGED <<order, list, selected, shown, requests, calm>>,
         field' \in {field, Invalid}, window' \in {window, NoWindow}, goal' \in {goal, NoDoc}
  PROVE  Coming'
  BY DEF Coming, ListComing, ShownComing, GoalComing, WindowComing, IsShown

(* A list is asked for, with what the field holds.                         *)
LEMMA AskingKeeps ==
  ASSUME TypeOK, NEW r \in ListRequests, ListAsked(r), window' = NoWindow,
         field' # Invalid => r.types = field' /\ r.order = order',
         goal' # NoDoc => BeginsWith(r, goal')
  PROVE  Coming'
<1>1. Latest(requests', "list") = {r}
  BY ListAskedLatest
<1> QED
  BY <1>1 DEF Coming, ListComing, ShownComing, GoalComing, WindowComing

LEMMA SelectingKeeps ==
  ASSUME TypeOK, Coming, NEW d, SelectRow(d)
  PROVE  Coming'
<1> DEFINE r == DocumentRequest(d)
<1>1. /\ d \in Docs /\ selected' = d /\ goal' = NoDoc /\ window' = NoWindow
      /\ requests' = requests \o <<r>>
      /\ calm' = (calm \/ (requests = <<>> /\ <<r>> # <<>> /\ Last(<<r>>).kind = "list"))
      /\ UNCHANGED <<field, order, list>>
  BY ToSetType DEF SelectRow, Ask, Acting, TypeOK
<1>2. r \in Requests /\ r.kind = "document" /\ r.doc = d
  BY <1>1 DEF DocumentRequest, Request, Requests, OtherRequests
<1>3. requests \in Seq(Requests)
  BY DEF TypeOK
<1>4. Last(<<r>>) = r
  BY DEF Last
<1> HIDE DEF r
<1>5. calm' => calm
  BY <1>1, <1>2, <1>4
<1>6. requests' = Append(requests, r)
  BY <1>1, <1>2, <1>3, AskOne
<1>7. Latest(requests', "document") = {r} /\ Latest(requests', "list") = Latest(requests, "list")
  BY <1>2, <1>3, <1>6, LatestAppend
<1> QED
  BY <1>1, <1>2, <1>5, <1>7 DEF Coming, ListComing, ShownComing, GoalComing, WindowComing

LEMMA SearchingKeeps ==
  ASSUME TypeOK, Coming, Search
  PROVE  Coming'
<1> DEFINE r == Request("search", NoDoc)
<1>1. /\ requests' = Append(requests, r)
      /\ UNCHANGED <<field, order, list, selected, shown, window, calm, goal>>
  BY DEF Search
<1>2. r \in Requests /\ r.kind = "search" /\ requests \in Seq(Requests)
  BY DEF Request, Requests, OtherRequests, TypeOK
<1> HIDE DEF r
<1>3. \A kind \in {"list", "document", "compare"} : Latest(requests', kind) = Latest(requests, kind)
  BY <1>1, <1>2, LatestAppend
<1> QED
  BY <1>1, <1>3 DEF Coming, ListComing, ShownComing, GoalComing, WindowComing, IsShown

LEMMA ComparingKeeps ==
  ASSUME WebAssumptions, TypeOK, Coming, NEW d, Compare(d)
  PROVE  Coming'
<1> DEFINE r == Request("compare", d)
<1>1. /\ requests' = Append(requests, r) /\ window' = [match |-> d, right |-> NoDoc]
      /\ UNCHANGED <<field, order, list, selected, shown, calm, goal>>
      /\ shown.matches # NoDoc /\ d \in Matches[shown.matches]
  BY DEF Compare
<1>2. d \in Docs
  BY <1>1 DEF TypeOK, WebAssumptions
<1>3. r \in Requests /\ r.kind = "compare" /\ r.doc = d /\ requests \in Seq(Requests)
  BY <1>2 DEF Request, Requests, OtherRequests, TypeOK
<1> HIDE DEF r
<1>4. /\ \A kind \in {"list", "document"} : Latest(requests', kind) = Latest(requests, kind)
      /\ Latest(requests', "compare") = {r}
  BY <1>1, <1>3, LatestAppend
<1> QED
  BY <1>1, <1>3, <1>4 DEF Coming, ListComing, ShownComing, GoalComing, WindowComing, IsShown

-----------------------------------------------------------------------------
(* The answers.  After one that came out of its order nothing is promised. *)
LEMMA TroubleKeeps ==
  ASSUME calm' = FALSE
  PROVE  Coming'
  BY DEF Coming, ListComing, ShownComing, GoalComing, WindowComing

(* The oldest request is answered: the latest of its kind is another one,  *)
(* or it was this.                                                         *)
LEMMA OldestAnswered ==
  ASSUME TypeOK, NEW kind, 1 \in DOMAIN requests, requests[1].kind = kind
  PROVE  LET rest == RemoveAt(requests, 1) IN
         /\ rest \in Seq(Requests)
         /\ requests[1] \in Requests
         /\ Latest(requests, kind) # {}
         /\ \/ Latest(rest, kind) = Latest(requests, kind)
            \/ Latest(rest, kind) = {} /\ Latest(requests, kind) = {requests[1]}
         /\ \A other : other # kind => Latest(rest, other) = Latest(requests, other)
<1>1. requests \in Seq(Requests) /\ 1 \in 1..Len(requests)
  BY LenProperties DEF TypeOK
<1>2. RemoveAt(requests, 1) \in Seq(Requests)
  BY <1>1, RemoveAtProperties
<1>3. requests[1] \in Requests
  BY <1>1, ElementOfSeq
<1>4. Latest(requests, kind) # {}
  BY <1>1, LatestThere
<1>5. \A k : \/ Latest(RemoveAt(requests, 1), k) = Latest(requests, k)
             \/ /\ Latest(RemoveAt(requests, 1), k) = {} /\ Latest(requests, k) = {requests[1]}
                /\ requests[1].kind = k
  BY <1>1, LatestRest
<1> QED
  BY <1>2, <1>3, <1>4, <1>5

LEMMA InOrder ==
  ASSUME NEW i, NEW undisturbed \in BOOLEAN, calm \in BOOLEAN, Answered(i, undisturbed), calm' # FALSE
  PROVE  i = 1 /\ calm /\ undisturbed /\ calm' /\ UNCHANGED <<field, order, goal>>
  BY DEF Answered

LEMMA ListKeeps ==
  ASSUME WebAssumptions, TypeOK, Coming, NEW i, AnswerList(i)
  PROVE  Coming'
<1> DEFINE r     == requests[1]
           page  == AnswerTo(r).page
           rest  == RemoveAt(requests, 1)
           quiet == AnswerTo(requests[i]).page # <<>> \/ ~InFlight("document")
<1>1. Answered(i, quiet)
  BY DEF AnswerList
<1> SUFFICES ASSUME calm' # FALSE
             PROVE  Coming'
  BY TroubleKeeps
<1>2. i = 1 /\ calm /\ quiet /\ calm' /\ UNCHANGED <<field, order, goal>>
  <2> HIDE DEF quiet
  <2>1. calm' = (calm /\ i = 1 /\ quiet)
    BY <1>1 DEF Answered
  <2>2. calm' /\ calm /\ i = 1 /\ quiet
    BY <2>1
  <2> QED
    BY <1>1, <2>2 DEF Answered
<1>3. 1 \in DOMAIN requests /\ r.kind = "list"
  BY <1>2 DEF AnswerList
<1>4. /\ rest \in Seq(Requests) /\ r \in Requests
      /\ Latest(requests, "list") # {}
      /\ \/ Latest(rest, "list") = Latest(requests, "list")
         \/ Latest(rest, "list") = {} /\ Latest(requests, "list") = {r}
      /\ \A other : other # "list" => Latest(rest, other) = Latest(requests, other)
  BY <1>3, OldestAnswered
<1>5. r \in ListRequests
  BY <1>3, <1>4, KindOfRequest
<1>6. /\ page \in Seq(Docs)
      /\ AnswerTo(r).types = r.types /\ AnswerTo(r).order = r.order
      /\ \A d \in Docs : BeginsWith(r, d) => page # <<>> /\ Head(page) = d
  BY <1>5, AnswerOK
<1>7. /\ list' = AnswerTo(r) /\ window' = window
      /\ page = <<>> => /\ selected' = NoDoc
                        /\ shown' = [shown EXCEPT !.text = NoDoc, !.matches = NoDoc]
                        /\ requests' = rest
      /\ page # <<>> => /\ selected' = Head(page)
                        /\ requests' = Append(rest, DocumentRequest(Head(page)))
                        /\ shown' = shown
  BY <1>2 DEF AnswerList
<1>8. page = <<>> => Latest(requests, "document") = {}
  BY <1>2 DEF InFlight, Latest
<1> HIDE DEF page, rest, quiet
<1>9. page # <<>> => /\ Latest(requests', "document") = {DocumentRequest(Head(page))}
                     /\ \A other : other # "document" => Latest(requests', other) = Latest(rest, other)
  <2> HAVE page # <<>>
  <2> DEFINE q == DocumentRequest(Head(page))
  <2>1. Head(page) \in Docs
    BY <1>6, HeadTailProperties
  <2>2. q \in Requests /\ q.kind = "document"
    BY <2>1 DEF DocumentRequest, Request, Requests, OtherRequests
  <2> HIDE DEF q
  <2>3. \A kind : Latest(Append(rest, q), kind) = IF q.kind = kind THEN {q} ELSE Latest(rest, kind)
    BY <1>4, <2>2, LatestAppend
  <2> QED
    BY <1>7, <2>2, <2>3 DEF q
<1>10. /\ Latest(requests', "list") = Latest(rest, "list")
       /\ Latest(requests', "compare") = Latest(requests, "compare")
  BY <1>4, <1>7, <1>9
<1> HIDE DEF r
<1>11. ListComing'
  BY <1>2, <1>4, <1>6, <1>7, <1>10 DEF Coming, ListComing
<1>12. ShownComing'
  <2>1. CASE page = <<>>
    <3>1. shown'.text = NoDoc /\ shown'.matches = NoDoc
      BY <1>7, <2>1 DEF TypeOK
    <3> QED
      BY <1>4, <1>7, <1>8, <2>1, <3>1 DEF ShownComing, IsShown
  <2>2. CASE page # <<>>
    BY <1>7, <1>9, <2>2 DEF ShownComing, DocumentRequest, Request
  <2> QED
    BY <2>1, <2>2
<1>13. GoalComing'
  <2> SUFFICES ASSUME goal # NoDoc
               PROVE  GoalComing'
    BY <1>2 DEF GoalComing
  <2>1. \A q \in Latest(requests, "list") : BeginsWith(q, goal)
    BY <1>2, <1>4 DEF Coming, GoalComing
  <2>2. CASE Latest(rest, "list") = Latest(requests, "list")
    BY <1>2, <1>4, <1>10, <2>1, <2>2 DEF GoalComing
  <2>3. CASE Latest(rest, "list") = {} /\ Latest(requests, "list") = {r}
    <3>1. page # <<>> /\ Head(page) = goal
      BY <1>6, <2>1, <2>3 DEF TypeOK
    <3>2. DocumentRequest(goal).doc = goal
      BY DEF DocumentRequest, Request
    <3>3. /\ Latest(requests', "document") = {DocumentRequest(goal)}
          /\ Latest(requests', "list") = {}
      BY <1>9, <1>10, <2>3, <3>1
    <3>4. goal' = goal
      BY <1>2
    <3> QED
      BY <3>2, <3>3, <3>4 DEF GoalComing
  <2> QED
    BY <1>4, <2>2, <2>3
<1>14. WindowComing'
  BY <1>2, <1>7, <1>10 DEF Coming, WindowComing
<1> QED
  BY <1>11, <1>12, <1>13, <1>14 DEF Coming

LEMMA DocumentKeeps ==
  ASSUME TypeOK, Coming, NEW i, AnswerDocument(i)
  PROVE  Coming'
<1> DEFINE r    == requests[1]
           rest == RemoveAt(requests, 1)
<1> SUFFICES ASSUME calm' # FALSE
             PROVE  Coming'
  BY TroubleKeeps
<1>1. i = 1 /\ calm /\ calm' /\ UNCHANGED <<field, order, goal>>
  BY InOrder DEF AnswerDocument, TypeOK
<1>2. /\ 1 \in DOMAIN requests /\ r.kind = "document"
      /\ shown' = [text |-> r.doc, matches |-> r.doc, fragments |-> r.doc]
      /\ requests' = rest /\ UNCHANGED <<list, selected, window>>
  BY <1>1 DEF AnswerDocument
<1>3. /\ Latest(requests, "document") # {}
      /\ \/ Latest(rest, "document") = Latest(requests, "document")
         \/ Latest(rest, "document") = {} /\ Latest(requests, "document") = {r}
      /\ \A other : other # "document" => Latest(rest, other) = Latest(requests, other)
  BY <1>2, OldestAnswered
<1>4. shown'.text = r.doc /\ shown'.matches = r.doc /\ shown'.fragments = r.doc
  BY <1>2
<1> HIDE DEF r, rest
<1>5. ListComing' /\ WindowComing'
  BY <1>1, <1>2, <1>3 DEF Coming, ListComing, WindowComing
<1>6. ShownComing'
  BY <1>1, <1>2, <1>3, <1>4 DEF Coming, ShownComing, IsShown
<1>7. GoalComing'
  BY <1>1, <1>2, <1>3, <1>4 DEF Coming, GoalComing
<1> QED
  BY <1>5, <1>6, <1>7 DEF Coming

LEMMA SearchedKeeps ==
  ASSUME TypeOK, Coming, NEW i, AnswerSearch(i)
  PROVE  Coming'
<1> SUFFICES ASSUME calm' # FALSE
             PROVE  Coming'
  BY TroubleKeeps
<1>1. i = 1 /\ calm /\ calm' /\ UNCHANGED <<field, order, goal>>
  BY InOrder DEF AnswerSearch, TypeOK
<1>2. /\ 1 \in DOMAIN requests /\ requests[1].kind = "search"
      /\ requests' = RemoveAt(requests, 1) /\ UNCHANGED <<list, selected, shown, window>>
  BY <1>1 DEF AnswerSearch
<1>3. \A other : other # "search" => Latest(requests', other) = Latest(requests, other)
  BY <1>2, OldestAnswered
<1> QED
  BY <1>1, <1>2, <1>3 DEF Coming, ListComing, ShownComing, GoalComing, WindowComing, IsShown

LEMMA ComparedKeeps ==
  ASSUME TypeOK, Coming, NEW i, AnswerCompare(i)
  PROVE  Coming'
<1> DEFINE r    == requests[1]
           rest == RemoveAt(requests, 1)
<1> SUFFICES ASSUME calm' # FALSE
             PROVE  Coming'
  BY TroubleKeeps
<1>1. i = 1 /\ calm /\ calm' /\ UNCHANGED <<field, order, goal>>
  BY InOrder DEF AnswerCompare, TypeOK
<1>2. /\ 1 \in DOMAIN requests /\ r.kind = "compare"
      /\ window' = IF window = NoWindow THEN NoWindow ELSE [window EXCEPT !.right = r.doc]
      /\ requests' = rest /\ UNCHANGED <<list, selected, shown>>
  BY <1>1 DEF AnswerCompare
<1>3. /\ Latest(requests, "compare") # {}
      /\ \/ Latest(rest, "compare") = Latest(requests, "compare")
         \/ Latest(rest, "compare") = {} /\ Latest(requests, "compare") = {r}
      /\ \A other : other # "compare" => Latest(rest, other) = Latest(requests, other)
  BY <1>2, OldestAnswered
<1> HIDE DEF r, rest
<1>4. ListComing' /\ ShownComing' /\ GoalComing'
  BY <1>1, <1>2, <1>3 DEF Coming, ListComing, ShownComing, GoalComing, IsShown
<1>5. WindowComing'
  <2> SUFFICES ASSUME window' # NoWindow
               PROVE  WindowComing'
    BY DEF WindowComing
  <2>1. window # NoWindow /\ window' = [window EXCEPT !.right = r.doc]
    BY <1>2
  <2>2. window'.match = window.match /\ window'.right = r.doc
    BY <2>1 DEF TypeOK
  <2>3. \A q \in Latest(requests, "compare") : q.doc = window.match
    BY <1>1, <1>3, <2>1 DEF Coming, WindowComing
  <2> QED
    BY <1>2, <1>3, <2>2, <2>3 DEF WindowComing
<1> QED
  BY <1>4, <1>5 DEF Coming

-----------------------------------------------------------------------------
(* The types of the variables.                                             *)
LEMMA InitType ==
  ASSUME WebAssumptions, Init
  PROVE  TypeOK
<1>1. \A position \in DOMAIN NoCursors : NoCursors[position] = 0
  BY DEF NoCursors
<1>2. 0 \in Cursors /\ {} \in Filters /\ DefaultOrder \in Orders
  BY DEF Cursors, WebAssumptions
<1>3. list.page \in Seq(Docs) /\ list.cursors = NoCursors /\ requests \in Seq(Requests)
  BY EmptySeq DEF Init
<1> QED
  BY <1>1, <1>2, <1>3 DEF Init, TypeOK

(* Of the steps that ask for a list only the requests are of interest.     *)
LEMMA AskingType ==
  ASSUME TypeOK, NEW r \in ListRequests, ListAsked(r), calm' \in BOOLEAN,
         field' \in Filters \cup {Invalid}, order' \in Orders, goal' \in Docs \cup {NoDoc},
         UNCHANGED <<list, selected, shown, window>>
  PROVE  TypeOK'
<1>1. requests' \in Seq(Requests)
  BY ListAskedLatest
<1> QED
  BY <1>1 DEF TypeOK

LEMMA RequestType ==
  ASSUME WebAssumptions, NEW d
  PROVE  /\ d \in Docs => DocumentRequest(d) \in Requests /\ Request("compare", d) \in Requests
         /\ Request("search", NoDoc) \in Requests
  BY DEF DocumentRequest, Request, Requests, OtherRequests

LEMMA SelectingType ==
  ASSUME WebAssumptions, TypeOK, NEW d, SelectRow(d)
  PROVE  TypeOK'
<1>1. /\ d \in Docs /\ selected' = d /\ goal' = NoDoc
      /\ requests' = requests \o <<DocumentRequest(d)>>
      /\ calm' \in BOOLEAN
      /\ UNCHANGED <<field, order, list, shown, window>>
  BY ToSetType DEF SelectRow, Ask, TypeOK
<1>2. requests' \in Seq(Requests)
  BY <1>1, AskOne, RequestType DEF TypeOK
<1> QED
  BY <1>1, <1>2 DEF TypeOK

LEMMA SearchingType ==
  ASSUME WebAssumptions, TypeOK, Search
  PROVE  TypeOK'
<1>1. requests' \in Seq(Requests)
  BY AskOne, RequestType DEF Search, TypeOK
<1> QED
  BY <1>1 DEF Search, TypeOK

LEMMA ComparingType ==
  ASSUME WebAssumptions, TypeOK, NEW d, Compare(d)
  PROVE  TypeOK'
<1>1. d \in Docs
  <2>1. shown.matches \in Docs /\ d \in Matches[shown.matches]
    BY DEF Compare, TypeOK
  <2> QED
    BY <2>1 DEF WebAssumptions
<1>2. requests' \in Seq(Requests)
  BY <1>1, AskOne, RequestType DEF Compare, TypeOK
<1>3. /\ window' = [match |-> d, right |-> NoDoc]
      /\ UNCHANGED <<field, order, list, selected, shown, calm, goal>>
  BY DEF Compare
<1> QED
  BY <1>1, <1>2, <1>3 DEF TypeOK

(* What every answer leaves.                                               *)
LEMMA AnsweredType ==
  ASSUME TypeOK, NEW i \in DOMAIN requests
  PROVE  /\ RemoveAt(requests, i) \in Seq(Requests)
         /\ requests[i] \in Requests
         /\ \A undisturbed \in BOOLEAN : Answered(i, undisturbed) =>
              /\ calm' \in BOOLEAN /\ goal' \in Docs \cup {NoDoc}
              /\ UNCHANGED <<field, order>>
<1>1. requests \in Seq(Requests) /\ i \in 1..Len(requests)
  BY LenProperties DEF TypeOK
<1>2. RemoveAt(requests, i) \in Seq(Requests) /\ requests[i] \in Requests
  BY <1>1, RemoveAtProperties, ElementOfSeq
<1> QED
  BY <1>2 DEF Answered, TypeOK

LEMMA ListType ==
  ASSUME WebAssumptions, TypeOK, NEW i, AnswerList(i)
  PROVE  TypeOK'
<1> DEFINE r     == requests[i]
           page  == AnswerTo(r).page
           quiet == page # <<>> \/ ~InFlight("document")
<1>1. i \in DOMAIN requests /\ r.kind = "list" /\ Answered(i, quiet) /\ quiet \in BOOLEAN
  BY DEF AnswerList, InFlight
<1> HIDE DEF quiet
<1>2. /\ RemoveAt(requests, i) \in Seq(Requests) /\ r \in Requests
      /\ calm' \in BOOLEAN /\ goal' \in Docs \cup {NoDoc}
      /\ UNCHANGED <<field, order>>
  BY <1>1, AnsweredType
<1>3. r \in ListRequests
  BY <1>1, <1>2, KindOfRequest
<1>4. page \in Seq(Docs) /\ \A position \in DOMAIN NoCursors : AnswerTo(r).cursors[position] \in Cursors
  BY <1>3, AnswerOK
<1>5. /\ list' = AnswerTo(r) /\ window' = window
      /\ page = <<>> => /\ selected' = NoDoc
                        /\ shown' = [shown EXCEPT !.text = NoDoc, !.matches = NoDoc]
                        /\ requests' = RemoveAt(requests, i)
      /\ page # <<>> => /\ selected' = Head(page) /\ shown' = shown
                        /\ requests' = Append(RemoveAt(requests, i), DocumentRequest(Head(page)))
  BY DEF AnswerList
<1>6. list'.page \in Seq(Docs) /\ \A position \in DOMAIN NoCursors : list'.cursors[position] \in Cursors
  BY <1>4, <1>5
<1> HIDE DEF page, r
<1>7. CASE page = <<>>
  BY <1>2, <1>5, <1>6, <1>7 DEF TypeOK
<1>8. CASE page # <<>>
  <2>1. Head(page) \in Docs
    BY <1>4, <1>8, HeadTailProperties
  <2>2. requests' \in Seq(Requests)
    BY <1>2, <1>5, <1>8, <2>1, RequestType, AskOne
  <2> QED
    BY <1>2, <1>5, <1>6, <1>8, <2>1, <2>2 DEF TypeOK
<1> QED
  BY <1>7, <1>8

LEMMA OtherAnswerType ==
  ASSUME WebAssumptions, TypeOK, NEW i, AnswerDocument(i) \/ AnswerSearch(i) \/ AnswerCompare(i)
  PROVE  TypeOK'
<1> DEFINE r == requests[i]
<1>1. /\ i \in DOMAIN requests /\ Answered(i, TRUE) /\ requests' = RemoveAt(requests, i)
      /\ UNCHANGED <<list, selected>>
  BY DEF AnswerDocument, AnswerSearch, AnswerCompare
<1>2. /\ requests' \in Seq(Requests) /\ r \in Requests
      /\ calm' \in BOOLEAN /\ goal' \in Docs \cup {NoDoc}
      /\ UNCHANGED <<field, order>>
  BY <1>1, AnsweredType
<1>3. CASE AnswerDocument(i)
  <2>1. r.doc \in Docs
    BY <1>2, <1>3, KindOfRequest DEF AnswerDocument
  <2> QED
    BY <1>1, <1>2, <1>3, <2>1 DEF TypeOK, AnswerDocument
<1>4. CASE AnswerSearch(i)
  BY <1>1, <1>2, <1>4 DEF TypeOK, AnswerSearch
<1>5. CASE AnswerCompare(i)
  <2>1. r.doc \in Docs
    BY <1>2, <1>5, KindOfRequest DEF AnswerCompare
  <2>2. /\ window' = IF window = NoWindow THEN NoWindow ELSE [window EXCEPT !.right = r.doc]
        /\ shown' = shown
    BY <1>5 DEF AnswerCompare
  <2> HIDE DEF r
  <2>3. window' # NoWindow => window' \in [match : Docs, right : Docs \cup {NoDoc}]
    BY <2>1, <2>2 DEF TypeOK
  <2> QED
    BY <1>1, <1>2, <2>2, <2>3 DEF TypeOK
<1> QED
  BY <1>3, <1>4, <1>5

LEMMA FailType ==
  ASSUME TypeOK, NEW i, Fail(i)
  PROVE  TypeOK'
<1>1. requests' \in Seq(Requests) /\ calm' = FALSE /\ goal' = NoDoc /\ UNCHANGED seen
  BY AnsweredType DEF Fail
<1> QED
  BY <1>1 DEF TypeOK, seen

-----------------------------------------------------------------------------
(* Every step keeps the invariant.                                         *)
LEMMA AskKeepsInv ==
  ASSUME TypeOK, NEW r \in ListRequests, ListAsked(r), calm' \in BOOLEAN,
         field' \in Filters \cup {Invalid}, order' \in Orders, goal' \in Docs \cup {NoDoc},
         UNCHANGED <<list, selected, shown, window>>, window = NoWindow,
         field' # Invalid => r.types = field' /\ r.order = order',
         goal' # NoDoc => BeginsWith(r, goal')
  PROVE  WebInv'
<1>1. TypeOK'
  BY AskingType
<1>2. window' = NoWindow
  OBVIOUS
<1>3. Coming'
  BY <1>2, AskingKeeps
<1> QED
  BY <1>1, <1>3 DEF WebInv

LEMMA ShowDocumentsKeeps ==
  ASSUME WebAssumptions, WebInv, ShowDocuments
  PROVE  WebInv'
<1>1. /\ Ask(LoadIfEmpty) /\ goal' = NoDoc /\ window = NoWindow
      /\ UNCHANGED <<field, order, list, selected, shown, window>>
      /\ TypeOK /\ Coming
  BY DEF ShowDocuments, Acting, WebInv
<1>2. CASE LoadIfEmpty = <<>>
  <2>1. requests' = requests /\ calm' = calm
    BY <1>1, <1>2, ConcatEmptySeq DEF Ask, TypeOK
  <2>2. TypeOK'
    BY <1>1, <2>1 DEF TypeOK
  <2>3. Coming'
    BY <1>1, <2>1, StandingKeeps
  <2> QED
    BY <2>2, <2>3 DEF WebInv
<1>3. ASSUME NEW r \in ListRequests, LoadIfEmpty = <<r>>,
             field # Invalid => r.types = field, r.order = order
      PROVE  WebInv'
  <2>1. ListAsked(r) /\ calm' \in BOOLEAN
    BY <1>1, <1>3, AsksOneList DEF Ask, TypeOK
  <2>2. field' \in Filters \cup {Invalid} /\ order' \in Orders /\ goal' \in Docs \cup {NoDoc}
    BY <1>1 DEF TypeOK
  <2> QED
    BY <1>1, <1>3, <2>1, <2>2, AskKeepsInv
<1> QED
  BY <1>1, <1>2, <1>3, FirstLoad

(* Nothing is asked.                                                       *)
LEMMA StandingKeepsInv ==
  ASSUME WebInv, UNCHANGED <<order, list, selected, shown, requests, calm>>,
         field' \in {field, Invalid}, window' \in {window, NoWindow}, goal' \in {goal, NoDoc}
  PROVE  WebInv'
<1>1. TypeOK'
  BY DEF WebInv, TypeOK
<1> QED
  BY <1>1, StandingKeeps DEF WebInv

LEMMA TypeFilterKeeps ==
  ASSUME WebAssumptions, WebInv, NEW f \in Filters \cup {Invalid}, TypeFilter(f)
  PROVE  WebInv'
<1>1. /\ field' = f /\ window = NoWindow /\ TypeOK
      /\ UNCHANGED <<order, list, selected, shown, window>>
  BY DEF TypeFilter, Acting, WebInv
<1>2. CASE f = Invalid
  BY <1>1, <1>2, StandingKeepsInv DEF TypeFilter
<1>3. CASE f # Invalid
  <2> DEFINE r == ListRequest(f, order, list.cursors.first)
  <2>1. Ask(<<r>>) /\ goal' = NoDoc
    BY <1>3 DEF TypeFilter
  <2>2. list.cursors.first \in Cursors /\ order \in Orders
    BY <1>1 DEF TypeOK, NoCursors
  <2>3. r \in ListRequests
    BY <2>2, ListRequestType
  <2>4. r.types = f /\ r.order = order
    BY <1>3 DEF ListRequest
  <2> HIDE DEF r
  <2>5. ListAsked(r) /\ calm' \in BOOLEAN
    BY <1>1, <2>1, <2>3, AsksOneList DEF Ask, TypeOK
  <2> QED
    BY <1>1, <2>1, <2>2, <2>3, <2>4, <2>5, AskKeepsInv
<1> QED
  BY <1>2, <1>3

LEMMA SortKeeps ==
  ASSUME WebAssumptions, WebInv, NEW o \in Orders, Sort(o)
  PROVE  WebInv'
<1> DEFINE r == ListRequest(field, o, 0)
<1>1. /\ order' = o /\ window = NoWindow /\ TypeOK /\ Ask(<<r>>) /\ goal' = NoDoc
      /\ UNCHANGED <<field, list, selected, shown, window>>
  BY DEF Sort, Acting, WebInv
<1>2. 0 \in Cursors /\ field \in Filters \cup {Invalid}
  BY <1>1 DEF Cursors, TypeOK
<1>3. r \in ListRequests
  BY <1>2, ListRequestType
<1>4. (field # Invalid => r.types = field) /\ r.order = o
  BY DEF ListRequest
<1> HIDE DEF r
<1>5. ListAsked(r) /\ calm' \in BOOLEAN
  BY <1>1, <1>3, AsksOneList DEF Ask, TypeOK
<1> QED
  BY <1>1, <1>2, <1>3, <1>4, <1>5, AskKeepsInv

LEMMA MoveKeeps ==
  ASSUME WebAssumptions, WebInv, NEW position \in DOMAIN NoCursors, Move(position)
  PROVE  WebInv'
<1> DEFINE r == ListRequest(field, order, list.cursors[position])
<1>1. /\ window = NoWindow /\ TypeOK /\ Ask(<<r>>) /\ goal' = NoDoc
      /\ UNCHANGED <<field, order, list, selected, shown, window>>
  BY DEF Move, Acting, WebInv
<1>2. /\ list.cursors[position] \in Cursors
      /\ field \in Filters \cup {Invalid} /\ order \in Orders
  BY <1>1 DEF TypeOK
<1>3. r \in ListRequests
  BY <1>2, ListRequestType
<1>4. (field # Invalid => r.types = field) /\ r.order = order
  BY DEF ListRequest
<1> HIDE DEF r
<1>5. ListAsked(r) /\ calm' \in BOOLEAN
  BY <1>1, <1>3, AsksOneList DEF Ask, TypeOK
<1> QED
  BY <1>1, <1>2, <1>3, <1>4, <1>5, AskKeepsInv

(* The page that is asked for begins with the document gone to, unless the *)
(* filter leaves it out.                                                   *)
LEMMA GoToKeeps ==
  ASSUME WebAssumptions, WebInv, NEW d \in Docs, GoTo(d)
  PROVE  WebInv'
<1> DEFINE r == ListRequest(field, DefaultOrder, Key[DefaultOrder][d])
<1>1. /\ order' = DefaultOrder /\ window = NoWindow /\ TypeOK /\ Ask(LoadIfEmpty \o <<r>>)
      /\ goal' = IF field \in {{}, Invalid} \/ DocType[d] \in field THEN d ELSE NoDoc
      /\ UNCHANGED <<field, list, selected, shown, window>>
  BY DEF GoTo, Acting, WebInv
<1>2. /\ Key[DefaultOrder][d] \in Cursors /\ DefaultOrder \in Orders
      /\ field \in Filters \cup {Invalid}
  BY <1>1 DEF Cursors, TypeOK, WebAssumptions
<1>3. r \in ListRequests
  BY <1>2, ListRequestType
<1>4. /\ r.types = IF field = Invalid THEN {} ELSE field
      /\ r.order = DefaultOrder /\ r.start = Key[DefaultOrder][d]
  BY DEF ListRequest
<1> HIDE DEF r
<1>5. ListAsked(r) /\ calm' \in BOOLEAN
  BY <1>1, <1>3, AsksTwoLists DEF Ask, TypeOK
<1>6. goal' # NoDoc => BeginsWith(r, goal')
  BY <1>1, <1>4 DEF BeginsWith
<1>7. goal' \in Docs \cup {NoDoc}
  BY <1>1
<1>8. field' # Invalid => r.types = field' /\ r.order = order'
  BY <1>1, <1>4
<1> QED
  BY <1>1, <1>2, <1>3, <1>5, <1>6, <1>7, <1>8, AskKeepsInv

LEMMA RespondKeeps ==
  ASSUME WebAssumptions, WebInv, NEW i, Respond(i)
  PROVE  WebInv'
<1> TypeOK /\ Coming
  BY DEF WebInv
<1>1. CASE AnswerList(i)
  BY <1>1, ListType, ListKeeps DEF WebInv
<1>2. CASE AnswerDocument(i)
  BY <1>2, OtherAnswerType, DocumentKeeps DEF WebInv
<1>3. CASE AnswerSearch(i)
  BY <1>3, OtherAnswerType, SearchedKeeps DEF WebInv
<1>4. CASE AnswerCompare(i)
  BY <1>4, OtherAnswerType, ComparedKeeps DEF WebInv
<1>5. CASE Fail(i)
  <2>1. calm' = FALSE
    BY <1>5 DEF Fail
  <2> QED
    BY <1>5, <2>1, FailType, TroubleKeeps DEF WebInv
<1> QED
  BY <1>1, <1>2, <1>3, <1>4, <1>5 DEF Respond

LEMMA InitInv ==
  ASSUME WebAssumptions, Init
  PROVE  WebInv
<1>1. \A kind : Latest(requests, kind) = {}
  BY LatestOfNone DEF Init
<1> QED
  BY <1>1, InitType DEF Init, WebInv, Coming, ListComing, ShownComing, GoalComing, WindowComing, IsShown

LEMMA StepInv ==
  ASSUME WebAssumptions, WebInv, [Next]_vars
  PROVE  WebInv'
<1> TypeOK /\ Coming
  BY DEF WebInv
<1>1. CASE ShowDocuments
  BY <1>1, ShowDocumentsKeeps
<1>2. CASE ShowSearch \/ CloseWindow \/ UNCHANGED vars
  BY <1>2, StandingKeepsInv DEF ShowSearch, CloseWindow, vars, seen, history
<1>3. ASSUME NEW f \in Filters \cup {Invalid}, TypeFilter(f)
      PROVE  WebInv'
  BY <1>3, TypeFilterKeeps
<1>4. ASSUME NEW o \in Orders, Sort(o)
      PROVE  WebInv'
  BY <1>4, SortKeeps
<1>5. ASSUME NEW position \in DOMAIN NoCursors, Move(position)
      PROVE  WebInv'
  BY <1>5, MoveKeeps
<1>6. ASSUME NEW d \in Docs, SelectRow(d)
      PROVE  WebInv'
  BY <1>6, SelectingType, SelectingKeeps DEF WebInv
<1>7. ASSUME NEW d \in Docs, GoTo(d)
      PROVE  WebInv'
  BY <1>7, GoToKeeps
<1>8. ASSUME NEW d \in Docs, Compare(d)
      PROVE  WebInv'
  BY <1>8, ComparingType, ComparingKeeps DEF WebInv
<1>9. CASE Search
  BY <1>9, SearchingType, SearchingKeeps DEF WebInv
<1>10. ASSUME NEW i \in 1..MaxInFlight, Respond(i)
       PROVE  WebInv'
  BY <1>10, RespondKeeps
<1> QED
  BY <1>1, <1>2, <1>3, <1>4, <1>5, <1>6, <1>7, <1>8, <1>9, <1>10 DEF Next

(* When nothing is under way no request is the latest, and what was coming *)
(* has come.                                                               *)
LEMMA SettledIs ==
  ASSUME WebInv
  PROVE  ListFitsField /\ ShownIsSelected /\ GoToShows /\ WindowShowsMatch
<1> SUFFICES ASSUME Settled
             PROVE  /\ field # Invalid => list.types = field /\ list.order = order
                    /\ IsShown(selected)
                    /\ goal # NoDoc => shown.text = goal
                    /\ window # NoWindow => window.right = window.match
  BY DEF ListFitsField, ShownIsSelected, GoToShows, WindowShowsMatch, IsShown
<1>1. calm /\ \A kind : Latest(requests, kind) = {}
  BY LatestOfNone DEF Settled
<1> QED
  BY <1>1 DEF WebInv, Coming, ListComing, ShownComing, GoalComing, WindowComing

LEMMA WebInvariant ==
  ASSUME WebAssumptions
  PROVE  Spec => []WebInv
<1>1. Init => WebInv
  BY InitInv
<1>2. WebInv /\ [Next]_vars => WebInv'
  BY StepInv
<1> QED
  BY <1>1, <1>2, PTL DEF Spec

-----------------------------------------------------------------------------
(* Whatever is typed, sorted, turned and gone to before the answers come,  *)
(* and however many requests are under way, the list ends as a page of     *)
(* what the filter holds in the order of the headers, if the answers come  *)
(* in order (DocumentBrowser.js:94-106, Documents.js:33-60).               *)
THEOREM ListIsOfTheField ==
  ASSUME WebAssumptions
  PROVE  Spec => []ListFitsField
<1>1. WebInv => ListFitsField
  BY SettledIs
<1> QED
  BY <1>1, WebInvariant, PTL

(* The text, the matches and the fragments end as those of the selected    *)
(* row, though every list that comes selects another and asks for it       *)
(* behind the requests made meanwhile (DocumentBrowser.js:108-135).        *)
THEOREM SelectedIsShown ==
  ASSUME WebAssumptions
  PROVE  Spec => []ShownIsSelected
<1>1. WebInv => ShownIsSelected
  BY SettledIs
<1> QED
  BY <1>1, WebInvariant, PTL

(* A document gone to is what ends displayed, also when going to it loads  *)
(* the list twice: its key is the cursor of a page that it heads, whatever *)
(* the size of a page (controller/Documents.js:37-40).                     *)
THEOREM DocumentGoneToIsShown ==
  ASSUME WebAssumptions
  PROVE  Spec => []GoToShows
<1>1. WebInv => GoToShows
  BY SettledIs
<1> QED
  BY <1>1, WebInvariant, PTL

(* The window ends with the text of the match it was opened for, although  *)
(* an answer for a window closed before goes to the one there is           *)
(* (SideBySide.js:69-88).                                                  *)
THEOREM WindowComparesItsMatch ==
  ASSUME WebAssumptions
  PROVE  Spec => []WindowShowsMatch
<1>1. WebInv => WindowShowsMatch
  BY SettledIs
<1> QED
  BY <1>1, WebInvariant, PTL
=============================================================================
