---------------------------- MODULE LoaderProofs ----------------------------
(***************************************************************************)
(* A load creates every document once, in order, and misses none but those *)
(* that a failure costs, for any numbers of documents, sizes of pages and  *)
(* attempts, whatever the network and the other instance do.               *)
(***************************************************************************)
EXTENDS Loader, SortedSetsProofs, SequenceTheorems

TypeOK ==
  /\ remote \subseteq Docs /\ stay \subseteq remote
  /\ step \in {"page", "text", "done"}
  /\ cursor \in Nat /\ more \in BOOLEAN
  /\ page \in Seq(Docs) /\ created \in Seq(Docs)

(* What is fetched next is what there is to fetch.                         *)
StepOK ==
  /\ step = "page" => page = <<>> /\ more
  /\ step = "text" => page # <<>>
  /\ step = "done" => page = <<>> /\ ~more

Rising(s) == \A i, j \in 1..Len(s) : i < j => s[i] < s[j]

(* Documents of a page lie behind those created, and the next page behind  *)
(* all of them.                                                            *)
OrderOK ==
  /\ Rising(created) /\ Rising(page)
  /\ \A d \in ToSet(created), e \in ToSet(page) : d < e
  /\ more => \A d \in ToSet(created) \cup ToSet(page) : d < cursor

(* A document that was there all the time is created, lost or still to be  *)
(* read, on this page or a later one.                                      *)
NoneMissed ==
  \A d \in stay : d \in ToSet(created) \cup ToSet(page) \cup lost \/ (more /\ cursor <= d)

LoaderInv == TypeOK /\ StepOK /\ OrderOK /\ NoneMissed

-----------------------------------------------------------------------------
(* Sequences and the sets of their elements.                               *)
LEMMA ToSetAppend ==
  ASSUME NEW S, NEW s \in Seq(S), NEW e \in S
  PROVE  ToSet(Append(s, e)) = ToSet(s) \cup {e}
<1>1. /\ Append(s, e) \in Seq(S) /\ Len(Append(s, e)) = Len(s) + 1
      /\ \A i \in 1..Len(s) : Append(s, e)[i] = s[i]
      /\ Append(s, e)[Len(s) + 1] = e
  BY AppendProperties
<1>2. DOMAIN s = 1..Len(s) /\ DOMAIN Append(s, e) = 1..(Len(s) + 1) /\ Len(s) \in Nat
  BY <1>1, LenProperties
<1> QED
  BY <1>1, <1>2 DEF ToSet

LEMMA ToSetTail ==
  ASSUME NEW S, NEW s \in Seq(S), s # <<>>
  PROVE  /\ Head(s) \in ToSet(s) /\ ToSet(Tail(s)) \subseteq ToSet(s)
         /\ ToSet(s) = {Head(s)} \cup ToSet(Tail(s))
<1>1. /\ Tail(s) \in Seq(S) /\ Len(Tail(s)) = Len(s) - 1 /\ Head(s) = s[1]
      /\ \A i \in 1..(Len(s) - 1) : Tail(s)[i] = s[i + 1]
  BY HeadTailProperties
<1>2. DOMAIN s = 1..Len(s) /\ DOMAIN Tail(s) = 1..(Len(s) - 1) /\ Len(s) \in Nat \ {0}
  BY <1>1, LenProperties, EmptySeq
<1>3. \A i \in 2..Len(s) : i - 1 \in 1..(Len(s) - 1) /\ Tail(s)[i - 1] = s[i]
  BY <1>1, <1>2
<1>4. \A i \in 1..(Len(s) - 1) : i + 1 \in 1..Len(s)
  BY <1>2
<1>5. 1 \in 1..Len(s) /\ \A i \in 1..Len(s) : i = 1 \/ i \in 2..Len(s)
  BY <1>2
<1>6. ToSet(s) = {s[i] : i \in 1..Len(s)} /\ ToSet(Tail(s)) = {Tail(s)[i] : i \in 1..(Len(s) - 1)}
  BY <1>2 DEF ToSet
<1>7. ToSet(Tail(s)) \subseteq ToSet(s) /\ Head(s) \in ToSet(s)
  BY <1>1, <1>4, <1>5, <1>6
<1>8. \A i \in 2..Len(s) : s[i] \in ToSet(Tail(s))
  BY <1>3, <1>6
<1> QED
  BY <1>1, <1>5, <1>6, <1>7, <1>8

LEMMA ToSetEmpty == ToSet(<<>>) = {}
  BY DEF ToSet

LEMMA ToSetType ==
  ASSUME NEW S, NEW s \in Seq(S)
  PROVE  ToSet(s) \subseteq S
  BY LenProperties, ElementOfSeq DEF ToSet

LEMMA LastIsGreatest ==
  ASSUME NEW s \in Seq(Nat), s # <<>>, Rising(s)
  PROVE  Last(s) \in ToSet(s) /\ \A e \in ToSet(s) : e <= Last(s)
<1>1. DOMAIN s = 1..Len(s) /\ Len(s) \in Nat \ {0} /\ \A i \in 1..Len(s) : s[i] \in Nat
  BY LenProperties, EmptySeq, ElementOfSeq
<1>2. Len(s) \in 1..Len(s)
  BY <1>1
<1>3. ASSUME NEW i \in 1..Len(s)
      PROVE  s[i] <= s[Len(s)]
  BY <1>1, <1>2 DEF Rising
<1> QED
  BY <1>1, <1>2, <1>3 DEF ToSet, Last

-----------------------------------------------------------------------------
(* What the other instance answers.                                        *)
LEMMA ListingOK ==
  ASSUME LoaderAssumptions, TypeOK
  PROVE  /\ Listing \in Seq(Docs)
         /\ Rising(Listing)
         /\ \A d \in ToSet(Listing) : d \in remote /\ cursor <= d
         /\ \A d \in remote : cursor <= d =>
              d \in ToSet(Listing) \/ (Listing # <<>> /\ Last(Listing) < d)
<1> DEFINE S    == {d \in remote : d >= cursor}
           key  == [d \in Docs |-> d]
           rest == Sorted(S, key)
           n    == Cardinality(S)
           size == Min({PageSize, Len(rest)})
<1>1. S \subseteq Docs /\ Docs \subseteq Nat /\ IsFiniteSet(S) /\ PageSize \in Nat \ {0}
  BY FS_Subset DEF LoaderAssumptions, TypeOK
<1>2. \A d \in S : key[d] = d
  BY <1>1
<1>3. Keyed(S, key)
  BY <1>1 DEF Keyed
<1>3a. \A d \in remote : cursor <= d <=> d \in S
  BY <1>1 DEF TypeOK, LoaderAssumptions
<1> HIDE DEF key, S
<1>4. /\ rest \in Seq(S) /\ Len(rest) = n /\ n \in Nat
      /\ \A i, j \in 1..n : i < j => key[rest[i]] < key[rest[j]]
      /\ \A x \in S : \E i \in 1..n : rest[i] = x
  BY <1>1, <1>3, SortedProperties
<1>5. \A i \in 1..n : rest[i] \in S
  BY <1>4, ElementOfSeq
<1>6. \A i, j \in 1..n : i < j => rest[i] < rest[j]
  BY <1>2, <1>4, <1>5
<1>7. size \in Nat /\ size <= n /\ (n = 0 \/ size >= 1) /\ (size = n \/ size = PageSize)
  <2>1. size = Min({PageSize, n})
    BY <1>4
  <2> HIDE DEF size, n, rest
  <2>2. size = IF PageSize <= n THEN PageSize ELSE n
    BY <1>1, <1>4, <2>1, MinOfTwo
  <2> QED
    BY <1>1, <1>4, <2>2
<1>8. Listing = SubSeq(rest, 1, size)
  BY DEF Listing, key, S
<1> HIDE DEF rest, size, n
<1>9. /\ Listing \in Seq(S) /\ Len(Listing) = size
      /\ \A i \in 1..size : Listing[i] = rest[i]
  BY <1>5, <1>7, <1>8, <1>4, SubSeqProperties
<1>10. DOMAIN Listing = 1..size
  BY <1>9, LenProperties
<1>11. Listing \in Seq(Docs)
  BY <1>1, <1>9, SeqMonotonic
<1>12. Rising(Listing)
  BY <1>4, <1>6, <1>7, <1>9 DEF Rising
<1>13. \A d \in ToSet(Listing) : d \in remote /\ cursor <= d
  <2>1. \A d \in S : d \in remote /\ cursor <= d
    BY <1>3a DEF S
  <2> QED
    BY <1>4, <1>5, <1>7, <1>9, <1>10, <2>1 DEF ToSet
<1>14. ASSUME NEW d \in remote, cursor <= d
       PROVE  d \in ToSet(Listing) \/ (Listing # <<>> /\ Last(Listing) < d)
  <2>1. d \in S
    BY <1>3a, <1>14
  <2>2. PICK i \in 1..n : rest[i] = d
    BY <1>4, <2>1
  <2>3. CASE i <= size
    BY <1>4, <1>7, <1>9, <1>10, <2>2, <2>3 DEF ToSet
  <2>4. CASE size < i
    <3>1. size \in 1..n
      BY <1>4, <1>7, <2>4
    <3>2. Last(Listing) = rest[size] /\ Listing # <<>>
      BY <1>9, <3>1 DEF Last
    <3> QED
      BY <1>6, <2>2, <2>4, <3>1, <3>2
  <2> QED
    BY <1>4, <1>7, <2>2, <2>3, <2>4
<1> QED
  BY <1>11, <1>12, <1>13, <1>14

LEMMA NextCursorOK ==
  ASSUME LoaderAssumptions, TypeOK, NEW rows \in Seq(Docs)
  PROVE  /\ NextCursor(rows) \in Nat
         /\ NextCursor(rows) # 0 => rows # <<>> /\ Last(rows) < NextCursor(rows)
         /\ \A d \in remote : rows # <<>> /\ Last(rows) < d =>
              NextCursor(rows) # 0 /\ NextCursor(rows) <= d
<1> DEFINE behind == {d \in remote : rows # <<>> /\ d > Last(rows)}
<1>1. behind \subseteq Nat \ {0} /\ Docs \subseteq Nat
  BY DEF LoaderAssumptions, TypeOK
<1>2. rows # <<>> => Last(rows) \in Nat
  <2>1. rows # <<>> => Len(rows) \in 1..Len(rows)
    BY EmptySeq
  <2> QED
    BY <1>1, <2>1, ElementOfSeq DEF Last
<1>3. NextCursor(rows) = IF behind = {} THEN 0 ELSE Min(behind)
  BY DEF NextCursor
<1>4. ASSUME behind # {}
      PROVE  Min(behind) \in behind /\ \A d \in behind : Min(behind) <= d
  BY <1>1, <1>4, MinIsLeast
<1>5. \A d \in behind : rows # <<>> /\ Last(rows) < d
  BY <1>1, <1>2
<1>6. \A d \in remote : rows # <<>> /\ Last(rows) < d => d \in behind
  BY <1>2, <1>1 DEF TypeOK, LoaderAssumptions
<1> HIDE DEF behind
<1>7. CASE behind = {}
  BY <1>3, <1>6, <1>7
<1>8. CASE behind # {}
  <2>1. NextCursor(rows) = Min(behind) /\ Min(behind) \in Nat \ {0}
    BY <1>1, <1>3, <1>4, <1>8
  <2> QED
    BY <1>4, <1>5, <1>6, <1>8, <2>1
<1> QED
  BY <1>7, <1>8

-----------------------------------------------------------------------------
(* The load's steps.                                                       *)
LEMMA TurnOK ==
  ASSUME NEW rows, more' \in BOOLEAN
  PROVE  /\ Turn(rows) \in {"page", "text", "done"}
         /\ Turn(rows) = "page" => rows = <<>> /\ more'
         /\ Turn(rows) = "text" => rows # <<>>
         /\ Turn(rows) = "done" => rows = <<>> /\ ~more'
  BY DEF Turn

LEMMA PageKeeps ==
  ASSUME LoaderAssumptions, LoaderInv, GetNextPage
  PROVE  LoaderInv'
<1> DEFINE rows == Listing
<1>1. /\ step = "page" /\ page' = rows /\ cursor' = NextCursor(rows)
      /\ more' = (cursor' # 0) /\ step' = Turn(rows)
      /\ UNCHANGED <<remote, created, stay, lost>>
  BY DEF GetNextPage
<1>2. TypeOK /\ page = <<>> /\ more
  BY <1>1 DEF LoaderInv, StepOK
<1>3. /\ rows \in Seq(Docs)
      /\ Rising(rows)
      /\ \A d \in ToSet(rows) : d \in remote /\ cursor <= d
      /\ \A d \in remote : cursor <= d => d \in ToSet(rows) \/ (rows # <<>> /\ Last(rows) < d)
  BY <1>2, ListingOK
<1> HIDE DEF rows
<1>4. /\ cursor' \in Nat
      /\ cursor' # 0 => rows # <<>> /\ Last(rows) < cursor'
      /\ \A d \in remote : rows # <<>> /\ Last(rows) < d => cursor' # 0 /\ cursor' <= d
  BY <1>1, <1>2, <1>3, NextCursorOK
<1>5. ToSet(created) \subseteq Nat /\ ToSet(rows) \subseteq Nat /\ cursor \in Nat /\ stay \subseteq remote
  <2>1. ToSet(created) \subseteq Docs /\ ToSet(rows) \subseteq Docs
    BY <1>2, <1>3, ToSetType DEF TypeOK
  <2> QED
    BY <1>2, <2>1 DEF TypeOK, LoaderAssumptions
<1>6. TypeOK'
  BY <1>1, <1>2, <1>3, <1>4, TurnOK DEF TypeOK
<1>7. StepOK'
  BY <1>1, TurnOK DEF StepOK
<1>8. \A d \in ToSet(created), e \in ToSet(rows) : d < e
  <2>1. \A d \in ToSet(created) : d < cursor
    BY <1>2 DEF LoaderInv, OrderOK
  <2> QED
    BY <1>3, <1>5, <2>1
<1>9. ASSUME more', NEW d \in ToSet(created) \cup ToSet(rows)
      PROVE  d < cursor'
  <2>1. rows # <<>> /\ Last(rows) < cursor'
    BY <1>1, <1>4, <1>9
  <2>2. Last(rows) \in ToSet(rows) /\ \A e \in ToSet(rows) : e <= Last(rows)
    <3>1. rows \in Seq(Nat)
      BY <1>3, SeqMonotonic DEF LoaderAssumptions
    <3> QED
      BY <1>3, <2>1, <3>1, LastIsGreatest
  <2>3. d <= Last(rows)
    BY <1>5, <1>8, <2>2
  <2> QED
    BY <1>4, <1>5, <2>1, <2>2, <2>3
<1>10. OrderOK'
  BY <1>1, <1>3, <1>8, <1>9 DEF LoaderInv, OrderOK, Rising
<1>11. NoneMissed'
  <2> SUFFICES ASSUME NEW d \in stay
               PROVE  d \in ToSet(created) \cup ToSet(rows) \cup lost \/ (more' /\ cursor' <= d)
    BY <1>1 DEF NoneMissed
  <2>1. d \in ToSet(created) \cup lost \/ cursor <= d
    BY <1>2, ToSetEmpty DEF LoaderInv, NoneMissed
  <2> QED
    BY <1>1, <1>3, <1>4, <1>5, <2>1
<1> QED
  BY <1>6, <1>7, <1>10, <1>11 DEF LoaderInv

LEMMA NoPageKeeps ==
  ASSUME LoaderAssumptions, LoaderInv, GetNoPage
  PROVE  LoaderInv'
<1>1. /\ page' = <<>> /\ page = <<>> /\ ~more' /\ more' \in BOOLEAN /\ step' = "done"
      /\ lost' = lost \cup {d \in Docs : d >= cursor}
      /\ UNCHANGED <<remote, cursor, created, stay>>
  BY DEF GetNoPage, LoaderInv, StepOK
<1>2. TypeOK' /\ StepOK' /\ OrderOK'
  BY <1>1 DEF LoaderInv, TypeOK, StepOK, OrderOK, Rising
<1>3. NoneMissed'
  <2> SUFFICES ASSUME NEW d \in stay
               PROVE  d \in ToSet(created) \cup ToSet(page) \cup lost'
    BY <1>1 DEF NoneMissed
  <2>1. d \in Docs /\ d \in Nat /\ cursor \in Nat
    BY DEF LoaderInv, TypeOK, LoaderAssumptions
  <2>2. cursor <= d => d \in lost'
    BY <1>1, <2>1
  <2> QED
    BY <1>1, <2>2 DEF LoaderInv, NoneMissed
<1> QED
  BY <1>2, <1>3 DEF LoaderInv

LEMMA DocumentKeeps ==
  ASSUME LoaderAssumptions, LoaderInv, GetNextDocument
  PROVE  LoaderInv'
<1>1. /\ created' = Append(created, Head(page)) /\ page' = Tail(page) /\ page # <<>>
      /\ step' = Turn(page') /\ UNCHANGED <<remote, cursor, more, stay, lost>>
  BY DEF GetNextDocument, LoaderInv, StepOK
<1>2. /\ TypeOK /\ page \in Seq(Docs) /\ created \in Seq(Docs) /\ more \in BOOLEAN
  BY DEF LoaderInv, TypeOK
<1>3. /\ Head(page) \in Docs /\ page' \in Seq(Docs) /\ Len(page') = Len(page) - 1
      /\ Head(page) = page[1] /\ \A i \in 1..Len(page') : page'[i] = page[i + 1]
      /\ Len(page) \in Nat \ {0}
  BY <1>1, <1>2, HeadTailProperties, EmptySeq
<1>4. /\ created' \in Seq(Docs) /\ Len(created') = Len(created) + 1 /\ Len(created) \in Nat
      /\ \A i \in 1..Len(created) : created'[i] = created[i]
      /\ created'[Len(created) + 1] = Head(page)
  BY <1>1, <1>2, <1>3, AppendProperties
<1>5. /\ ToSet(created') = ToSet(created) \cup {Head(page)}
      /\ ToSet(page) = ToSet(page') \cup {Head(page)}
  BY <1>1, <1>2, <1>3, ToSetAppend, ToSetTail
<1>6. /\ \A i \in 1..Len(created) : created[i] \in ToSet(created)
      /\ \A i \in 1..Len(page') : page'[i] \in ToSet(page')
  BY <1>2, <1>3, LenProperties DEF ToSet
<1>7. TypeOK'
  BY <1>1, <1>2, <1>3, <1>4, TurnOK DEF TypeOK
<1>8. StepOK'
  <2>1. more' \in BOOLEAN /\ step' = Turn(page')
    BY <1>1, <1>2
  <2> QED
    BY <2>1, TurnOK DEF StepOK
<1>9. Rising(created')
  <2> SUFFICES ASSUME NEW i \in 1..Len(created'), NEW j \in 1..Len(created'), i < j
               PROVE  created'[i] < created'[j]
    BY DEF Rising
  <2>1. i \in 1..Len(created) /\ (j \in 1..Len(created) \/ j = Len(created) + 1)
    BY <1>4
  <2>2. created[i] < Head(page)
    BY <1>5, <1>6, <2>1 DEF LoaderInv, OrderOK
  <2> QED
    BY <1>4, <2>1, <2>2 DEF LoaderInv, OrderOK, Rising
<1>10. Rising(page')
  <2> SUFFICES ASSUME NEW i \in 1..Len(page'), NEW j \in 1..Len(page'), i < j
               PROVE  page'[i] < page'[j]
    BY DEF Rising
  <2>1. i + 1 \in 1..Len(page) /\ j + 1 \in 1..Len(page) /\ i + 1 < j + 1
    BY <1>3
  <2> QED
    BY <1>3, <2>1 DEF LoaderInv, OrderOK, Rising
<1>11. \A d \in ToSet(created'), e \in ToSet(page') : d < e
  <2>1. ASSUME NEW e \in ToSet(page')
        PROVE  Head(page) < e
    <3>1. PICK i \in 1..Len(page') : e = page'[i]
      BY <1>3, LenProperties DEF ToSet
    <3>2. 1 \in 1..Len(page) /\ i + 1 \in 1..Len(page) /\ 1 < i + 1
      BY <1>3
    <3> QED
      BY <1>3, <3>1, <3>2 DEF LoaderInv, OrderOK, Rising
  <2> QED
    BY <1>5, <2>1 DEF LoaderInv, OrderOK
<1>12. OrderOK' /\ NoneMissed'
  BY <1>1, <1>5, <1>9, <1>10, <1>11 DEF LoaderInv, OrderOK, NoneMissed, Rising
<1> QED
  BY <1>7, <1>8, <1>12 DEF LoaderInv

LEMMA NoDocumentKeeps ==
  ASSUME LoaderInv, GetNoDocument
  PROVE  LoaderInv'
<1>1. /\ page' = <<>> /\ step' = Turn(page') /\ lost' = lost \cup ToSet(page)
      /\ UNCHANGED <<remote, cursor, more, created, stay>>
  BY DEF GetNoDocument
<1>2. more' \in BOOLEAN
  BY <1>1 DEF LoaderInv, TypeOK
<1>3. TypeOK' /\ StepOK'
  BY <1>1, <1>2, TurnOK DEF LoaderInv, TypeOK, StepOK
<1>4. ToSet(page') = {} /\ Rising(page')
  BY <1>1, ToSetEmpty DEF Rising
<1>5. OrderOK' /\ NoneMissed'
  BY <1>1, <1>4 DEF LoaderInv, OrderOK, NoneMissed, Rising
<1> QED
  BY <1>3, <1>5 DEF LoaderInv

LEMMA LoaderInvStep ==
  ASSUME LoaderAssumptions, LoaderInv, [Next]_vars
  PROVE  LoaderInv'
<1>1. CASE UNCHANGED vars \/ TryAgain
  <2>1. UNCHANGED <<remote, step, cursor, more, page, created, stay, lost>>
    BY <1>1 DEF vars, TryAgain
  <2> QED
    BY <2>1 DEF LoaderInv, TypeOK, StepOK, OrderOK, NoneMissed, Rising
<1>2. CASE Change
  <2>1. /\ remote' \subseteq Docs /\ stay' \subseteq remote' /\ stay' \subseteq stay
        /\ UNCHANGED <<step, cursor, more, page, created, lost>>
    BY <1>2 DEF Change, LoaderInv, TypeOK, LoaderAssumptions
  <2> QED
    BY <2>1 DEF LoaderInv, TypeOK, StepOK, OrderOK, NoneMissed, Rising
<1> QED
  BY <1>1, <1>2, PageKeeps, NoPageKeeps, DocumentKeeps, NoDocumentKeeps DEF Next, Load

(* A load creates every document at most once, in order, and misses none   *)
(* that is there all the time and that no failure costs, for any numbers   *)
(* of documents, sizes of pages and attempts (Loader::getNextPage,         *)
(* getNextDocument).                                                       *)
THEOREM NoneLoadedTwiceOrMissed ==
  ASSUME LoaderAssumptions
  PROVE  Spec => []LoadsEachOnce
<1>1. Init => LoaderInv
  <2> SUFFICES ASSUME Init
               PROVE  LoaderInv
    OBVIOUS
  <2>1. TypeOK /\ StepOK
    BY DEF Init, TypeOK, StepOK
  <2>2. ToSet(created) = {} /\ ToSet(page) = {}
    BY ToSetEmpty DEF Init
  <2>3. OrderOK
    BY <2>2 DEF Init, OrderOK, Rising
  <2>4. \A d \in stay : d \in Nat
    BY DEF Init, LoaderAssumptions
  <2> QED
    BY <2>1, <2>3, <2>4 DEF Init, LoaderInv, NoneMissed
<1>2. LoaderInv /\ [Next]_vars => LoaderInv'
  BY LoaderInvStep
<1>3. LoaderInv => LoadsEachOnce
  <2> SUFFICES ASSUME LoaderInv
               PROVE  LoadsEachOnce
    OBVIOUS
  <2>1. DOMAIN created = 1..Len(created)
    BY LenProperties DEF LoaderInv, TypeOK
  <2> QED
    BY <2>1, ToSetEmpty DEF LoadsEachOnce, LoaderInv, StepOK, OrderOK, NoneMissed, Rising
<1> QED
  BY <1>1, <1>2, <1>3, PTL DEF Spec
=============================================================================
