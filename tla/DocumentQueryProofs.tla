------------------------- MODULE DocumentQueryProofs -------------------------
(***************************************************************************)
(* What the listings of DocumentQuery answer, for every number of          *)
(* documents, values and requests.                                         *)
(***************************************************************************)
EXTENDS DocumentQuery, SortedSetsProofs, FiniteSetTheorems, TLAPS

-----------------------------------------------------------------------------
(* First part: a walk over finitely many keys.                             *)

LEMMA WalkIsOrdered ==
  ASSUME NEW desc \in BOOLEAN
  PROVE  /\ \A e \in Nat \X Nat : ~Earlier(desc, e, e)
         /\ \A e, f, g \in Nat \X Nat :
              Earlier(desc, e, f) /\ Earlier(desc, f, g) => Earlier(desc, e, g)
         /\ \A e, f \in Nat \X Nat : e # f => Earlier(desc, e, f) \/ Earlier(desc, f, e)
         /\ \A e, f \in Nat \X Nat : ~(Earlier(desc, e, f) /\ Earlier(desc, f, e))
         /\ \A e, f \in Nat \X Nat : Earlier(~desc, e, f) <=> Earlier(desc, f, e)
<1>1. \A e, f \in Nat \X Nat : e[1] = f[1] /\ e[2] = f[2] => e = f
  OBVIOUS
<1>2. \A e \in Nat \X Nat : e[1] \in Nat /\ e[2] \in Nat
  OBVIOUS
<1> QED
  BY <1>1, <1>2 DEF Earlier, Before

LEMMA PlacesAreNumbers ==
  ASSUME NEW desc \in BOOLEAN, NEW S \in SUBSET (Nat \X Nat), IsFiniteSet(S)
  PROVE  /\ Cardinality(S) \in Nat
         /\ \A e \in S : Place(S, desc, e) \in 1..Cardinality(S)
         /\ \A e, f \in S : Earlier(desc, e, f) <=> Place(S, desc, e) < Place(S, desc, f)
         /\ \A e, f \in S : Place(S, desc, e) = Place(S, desc, f) => e = f
         /\ \A i \in 1..Cardinality(S) : \E e \in S : Place(S, desc, e) = i
<1> DEFINE earlier == {p \in S \X S : Earlier(desc, p[1], p[2])}
<1>1. \A e, f \in S : <<e, f>> \in earlier <=> Earlier(desc, e, f)
  OBVIOUS
<1>2. OrdersAll(earlier, S)
  <2> HIDE DEF earlier
  <2>1. \A e \in S : e \in Nat \X Nat
    OBVIOUS
  <2> QED
    BY <1>1, <2>1, WalkIsOrdered DEF OrdersAll
<1>3. \A e \in S : Place(S, desc, e) = PlaceIn(S, earlier, e)
  <2> TAKE e \in S
  <2>1. {f \in S : <<f, e>> \in earlier} = {f \in S : Earlier(desc, f, e)}
    BY <1>1
  <2> QED
    BY <2>1 DEF Place, PlaceIn
<1> HIDE DEF earlier
<1>4. /\ Cardinality(S) \in Nat
      /\ \A e \in S : PlaceIn(S, earlier, e) \in 1..Cardinality(S)
      /\ \A e, f \in S : <<e, f>> \in earlier <=> PlaceIn(S, earlier, e) < PlaceIn(S, earlier, f)
      /\ \A e, f \in S : PlaceIn(S, earlier, e) = PlaceIn(S, earlier, f) => e = f
      /\ \A i \in 1..Cardinality(S) : \E e \in S : PlaceIn(S, earlier, e) = i
  BY <1>2, PlacesCount
<1>5. ASSUME NEW i \in 1..Cardinality(S)
      PROVE  \E e \in S : Place(S, desc, e) = i
  <2>1. PICK e \in S : PlaceIn(S, earlier, e) = i
    BY <1>4
  <2> QED
    BY <1>3, <2>1
<1>6. ASSUME NEW e \in S, NEW f \in S
      PROVE  Earlier(desc, e, f) <=> Place(S, desc, e) < Place(S, desc, f)
  <2>1. /\ Place(S, desc, e) = PlaceIn(S, earlier, e)
        /\ Place(S, desc, f) = PlaceIn(S, earlier, f)
        /\ <<e, f>> \in earlier <=> Earlier(desc, e, f)
    BY <1>1, <1>3
  <2>2. <<e, f>> \in earlier <=> PlaceIn(S, earlier, e) < PlaceIn(S, earlier, f)
    BY <1>4
  <2> QED
    BY <2>1, <2>2
<1>7. \A e, f \in S : Place(S, desc, e) = Place(S, desc, f) => e = f
  BY <1>3, <1>4
<1>8. \A e \in S : Place(S, desc, e) \in 1..Cardinality(S)
  BY <1>3, <1>4
<1> QED
  BY <1>4, <1>5, <1>6, <1>7, <1>8

(* What is listed: the first keys of those that the walk meets.            *)
LEMMA FirstInOrder ==
  ASSUME NEW desc \in BOOLEAN, NEW S \in SUBSET (Nat \X Nat), IsFiniteSet(S), NEW n \in Nat
  PROVE  LET s == FirstOf(S, n, desc)
         IN  /\ s \in Seq(S)
             /\ Len(s) = IF n < Cardinality(S) THEN n ELSE Cardinality(S)
             /\ \A i \in 1..Len(s) : s[i] \in S /\ Place(S, desc, s[i]) = i
             /\ \A e \in S : Place(S, desc, e) <= Len(s) => s[Place(S, desc, e)] = e
             /\ \A i, j \in 1..Len(s) : i < j => Earlier(desc, s[i], s[j])
             /\ \A e \in S : e \in ToSet(s) <=> Place(S, desc, e) <= n
             /\ \A e \in S : e \in ToSet(s) \/ (Len(s) = n /\ \A f \in ToSet(s) : Earlier(desc, f, e))
<1> DEFINE m == IF n < Cardinality(S) THEN n ELSE Cardinality(S)
           s == FirstOf(S, n, desc)
<1>1. /\ Cardinality(S) \in Nat
      /\ \A e \in S : Place(S, desc, e) \in 1..Cardinality(S)
      /\ \A e, f \in S : Earlier(desc, e, f) <=> Place(S, desc, e) < Place(S, desc, f)
      /\ \A e, f \in S : Place(S, desc, e) = Place(S, desc, f) => e = f
      /\ \A i \in 1..Cardinality(S) : \E e \in S : Place(S, desc, e) = i
  BY PlacesAreNumbers
<1>2. m \in Nat /\ m <= n /\ m <= Cardinality(S) /\ (m = n \/ m = Cardinality(S))
  BY <1>1
<1>3. s = [i \in 1..m |-> CHOOSE e \in S : Place(S, desc, e) = i]
  BY DEF FirstOf
<1> HIDE DEF m, s
<1>4. \A i \in 1..m : s[i] \in S /\ Place(S, desc, s[i]) = i
  <2> TAKE i \in 1..m
  <2>1. i \in 1..Cardinality(S)
    BY <1>1, <1>2
  <2>2. \E e \in S : Place(S, desc, e) = i
    BY <1>1, <2>1
  <2>3. s[i] = CHOOSE e \in S : Place(S, desc, e) = i
    BY <1>3
  <2> QED
    BY <2>2, <2>3
<1>5. s \in [1..m -> S] /\ Len(s) = m /\ DOMAIN s = 1..m
  <2>1. DOMAIN s = 1..m /\ s = [i \in 1..m |-> s[i]]
    BY <1>3
  <2> QED
    BY <1>2, <1>4, <2>1
<1>6. ToSet(s) = {s[i] : i \in 1..m}
  BY <1>5 DEF ToSet
<1>7. \A e \in S : Place(S, desc, e) <= m => s[Place(S, desc, e)] = e
  <2> SUFFICES ASSUME NEW e \in S, Place(S, desc, e) <= m
               PROVE  s[Place(S, desc, e)] = e
    OBVIOUS
  <2>1. Place(S, desc, e) \in 1..m
    BY <1>1, <1>2
  <2> QED
    BY <1>1, <1>4, <2>1
<1>8. \A e \in S : e \in ToSet(s) <=> Place(S, desc, e) <= m
  <2> TAKE e \in S
  <2>1. CASE Place(S, desc, e) <= m
    <3>1. Place(S, desc, e) \in 1..m
      BY <1>1, <1>2, <2>1
    <3> QED
      BY <1>6, <1>7, <2>1, <3>1
  <2>2. CASE ~(Place(S, desc, e) <= m)
    <3>1. ASSUME NEW i \in 1..m, s[i] = e
          PROVE  FALSE
      BY <1>2, <1>4, <2>2, <3>1
    <3> QED
      BY <1>6, <2>2, <3>1
  <2> QED
    BY <2>1, <2>2
<1>9. \A e \in S : Place(S, desc, e) <= m <=> Place(S, desc, e) <= n
  BY <1>1, <1>2
<1>10. \A i, j \in 1..m : i < j => Earlier(desc, s[i], s[j])
  BY <1>1, <1>4
<1>11. \A e \in S : e \in ToSet(s) \/ (m = n /\ \A f \in ToSet(s) : Earlier(desc, f, e))
  <2> SUFFICES ASSUME NEW e \in S, e \notin ToSet(s)
               PROVE  m = n /\ \A i \in 1..m : Earlier(desc, s[i], e)
    BY <1>6
  <2>1. Place(S, desc, e) > m /\ Place(S, desc, e) \in 1..Cardinality(S)
    BY <1>1, <1>2, <1>8
  <2> QED
    BY <1>1, <1>2, <1>4, <2>1
<1>12. s \in Seq(S)
  BY <1>2, <1>5
<1>13. m = IF n < Cardinality(S) THEN n ELSE Cardinality(S)
  BY DEF m
<1> QED
  BY <1>4, <1>5, <1>7, <1>8, <1>9, <1>10, <1>11, <1>12, <1>13 DEF s

-----------------------------------------------------------------------------
(* Second part: the inductive invariants.                                  *)

(* The hypotheses of the theorems: of a cursor's value, the url-encoded    *)
(* form is the value itself; a page has room for a document.               *)
Plain          == \A v \in Values : Escape[v] = v
LimitsPositive == \A r \in Requests : r.limit > 0

Key(d) == <<meta[d], d>>

(* Cursors that a request comes with, and those that it answers.           *)
Cursors == {NoCursor} \cup (Nat \X Docs)
Written == {NoCursor} \cup ((Values \cup {NoMeta}) \X Docs)

Serving == Reading \cup {"listEnd", "last", "lastAgain", "previous", "next"}
(* The request has its page and has not found the next one.                *)
AtPage  == Serving \ {"nextLink"}

Writers ==
  {NoWriter} \cup [step : {"meta", "ordered"}, doc : Docs, todo : Seq(Values) \ {<<>>}]
             \cup [step : {"erase"}, doc : Docs, todo : {<<v>> : v \in Values}]

Clients ==
  [desc : BOOLEAN, limit : Nat,
   stage : Serving \cup {"idle", "list"}, link : {"none", "first", "last", "previous", "next"},
   cursor : Cursors, page : Seq(Values \X Docs), at : Nat, doc : Nat,
   keys : {"unread", "none", "some", "read", "missing"}, from : Written,
   links : [last : Written, previous : Written, next : Written]]

TypeOK ==
  /\ meta \in [Docs -> Values \cup {NoMeta}]
  /\ ordered \in SUBSET (Values \X Docs) /\ IsFiniteSet(ordered)
  /\ writer \in Writers
  /\ client \in Clients
  /\ walk \in [on : BOOLEAN, stay : SUBSET Docs, seen : SUBSET Docs, torn : BOOLEAN, quiet : BOOLEAN]
  /\ aborted \in BOOLEAN

(* What the stages of a request have in common, whatever is written.       *)
StageOK ==
  /\ IF client.stage \in Reading THEN client.doc \in Docs ELSE client.keys = "unread"
  /\ client.stage = "fill" => client.at \in 1..Len(client.page)
  /\ client.stage \in {"previousFrom", "previousLink", "nextFrom", "nextLink"} => client.page # <<>>
  /\ client.stage # "idle" => client.links.next = NoCursor
  /\ client.stage = "list" => client.links = NoLinks
  /\ ~IsValid => client.stage = "idle" /\ client.links = NoLinks
  /\ walk.seen \subseteq Source

(* While nothing is written, a request finds what it has found before.     *)
AnswersOK ==
  /\ aborted => ~walk.quiet
  /\ walk.quiet /\ ~aborted =>
       /\ client.keys # "missing"
       /\ client.keys = "some" => meta[client.doc] # NoMeta
       /\ client.stage = "listEnd" => Pairs(client.cursor, client.limit, client.desc) = <<>>
       /\ client.stage = "lastAgain" => Pairs(NoCursor, client.limit, ~client.desc) # <<>>

(* The ordered keys that the items should have.                            *)
Kept(d, v) ==
  \/ meta[d] = v /\ ~(writer.step = "ordered" /\ writer.doc = d)
  \/ writer.step = "erase" /\ writer.doc = d /\ writer.todo = <<v>>

(* They are there, and unless one is left over, no other is.               *)
KeysOK ==
  /\ \A d \in Docs, v \in Values : Kept(d, v) => <<v, d>> \in ordered
  /\ ~walk.torn => \A d \in Docs, v \in Values : <<v, d>> \in ordered => Kept(d, v)
  /\ writer.step = "ordered" =>
       meta[writer.doc] = Head(writer.todo) /\ <<Head(writer.todo), writer.doc>> \notin ordered
  /\ writer.step = "erase" => meta[writer.doc] = NoMeta

(* The first n values of a form are given, the others are still to do.     *)
Gave(f, n, todo) ==
  /\ n + Len(todo) = Len(f)
  /\ \A i \in 1..Len(todo) : todo[i] = f[n + i]

Creating(d) == writer.step \in {"meta", "ordered"} /\ writer.doc = d

(* Every item has its ordered key, but for the document being created; a   *)
(* key of another value was superseded, or may still be.                   *)
LeftOK ==
  /\ \A d \in Docs : meta[d] # NoMeta /\ ~Creating(d) => <<meta[d], d>> \in ordered
  /\ \A d \in Docs, v \in Values :
       <<v, d>> \in ordered =>
         \/ v \in Superseded \/ meta[d] = v \/ Creating(d)
         \/ writer.step = "erase" /\ writer.doc = d /\ writer.todo = <<v>>
  /\ writer.step \in {"meta", "ordered"} =>
       \E f \in Forms, n \in Nat :
         /\ Gave(f, n, writer.todo)
         /\ \A v \in Values :
              <<v, writer.doc>> \in ordered => v \in Superseded \/ \E i \in 1..n : v = f[i]
  /\ writer.step = "ordered" => meta[writer.doc] = Head(writer.todo)
  /\ writer.step = "erase" => meta[writer.doc] = NoMeta

(* If no key is removed, what a request has listed stays, and it reads the *)
(* keys that it has listed.                                                *)
UntornOK ==
  ~walk.torn =>
    /\ client.stage \in Serving => writer.step # "erase" /\ ToSet(client.page) \subseteq Listed
    /\ client.stage \in Reading =>
         /\ Key(client.doc) \in Listed
         /\ client.keys \in {"unread", "some", "read"}
         /\ client.keys = "read" => client.from = Key(client.doc)

InOrder(page, desc) == \A i, j \in DOMAIN page : i < j => Earlier(desc, page[i], page[j])

(* The next page begins behind the last document of this one.              *)
BeyondOK ==
  /\ InOrder(client.page, client.desc)
  /\ ~walk.torn =>
       /\ client.stage = "nextFrom" => Key(client.doc) = Last(client.page)
       /\ client.stage = "nextLink" => Precedes(Last(client.page), Key(client.doc))
       /\ client.stage = "idle" /\ client.links.next # NoCursor =>
            /\ client.page # <<>> /\ client.links.next \in Values \X Docs
            /\ Precedes(Last(client.page), client.links.next)
       /\ client.stage = "list" /\ client.link = "next" =>
            /\ client.page # <<>> /\ client.cursor # NoCursor
            /\ Precedes(Last(client.page), client.cursor)

(* What stays keeps its key, and lies ahead until it is met.               *)
AheadOK ==
  /\ client.limit > 0
  /\ ~IsValid => walk.seen = {}
  /\ \A d \in walk.stay : Key(d) \in Listed /\ d # writer.doc
  /\ walk.on /\ ~walk.torn =>
       \A d \in walk.stay \ walk.seen :
         /\ client.stage = "list" /\ client.cursor # NoCursor => ~Precedes(Key(d), client.cursor)
         /\ client.stage \in AtPage => client.page # <<>> /\ Precedes(Last(client.page), Key(d))
         /\ client.stage = "nextLink" => ~Precedes(Key(d), Key(client.doc))
         /\ client.stage = "idle" => client.links.next # NoCursor /\ ~Precedes(Key(d), client.links.next)

PairsOfLast  == Pairs(NoCursor, client.limit, ~client.desc)
PairsBefore  == Pairs(Head(client.page), client.limit + 1, ~client.desc)

IsLast(c)     == c \in Listed /\ PairsOfLast # <<>> /\ c = Last(PairsOfLast)
IsPrevious(c) == c \in Listed /\ client.page # <<>> /\ c = Last(PairsBefore)

(* While nothing is written, the cursors found from behind are still right.*)
BehindOK ==
  /\ walk.quiet => ToSet(client.page) \subseteq Listed
  /\ walk.quiet /\ ~walk.torn =>
       /\ client.stage = "lastLink" => IsLast(Key(client.doc))
       /\ client.links.last # NoCursor => IsLast(client.links.last)
       /\ client.stage = "list" /\ client.link = "last" => IsLast(client.cursor)
       /\ client.stage = "previousFrom" => Key(client.doc) = Head(client.page)
       /\ client.stage = "previousLink" => IsPrevious(Key(client.doc))
       /\ client.links.previous # NoCursor => IsPrevious(client.links.previous)
       /\ client.stage = "list" /\ client.link = "previous" => IsPrevious(client.cursor)

-----------------------------------------------------------------------------
(* Third part: what a request reads, and the types.                        *)

LEMMA Sorts ==
  /\ Docs \subseteq Nat /\ 0 \notin Docs /\ Values \subseteq Nat /\ 0 \notin Values
  /\ Values \X Docs \subseteq Nat \X Nat /\ Source \subseteq Docs
  /\ \A v \in Values : Escape[v] \in Nat
BY QueryAssumptions DEF Source

LEMMA Listing ==
  ASSUME TypeOK, NEW c, NEW n \in Nat, NEW desc \in BOOLEAN
  PROVE  LET s == Pairs(c, n, desc)
         IN  /\ s \in Seq(Values \X Docs) /\ Len(s) <= n
             /\ \A i \in 1..Len(s) : s[i] \in From(c, desc) /\ s[i] \in Listed /\ s[i] \in Values \X Docs
             /\ ToSet(s) \subseteq Listed
             /\ InOrder(s, desc)
             /\ \A e \in From(c, desc) :
                  e \in ToSet(s) \/ (Len(s) = n /\ \A f \in ToSet(s) : Earlier(desc, f, e))
<1> DEFINE S == From(c, desc)
           s == FirstOf(S, n, desc)
<1>1. S \in SUBSET ordered /\ S \in SUBSET (Nat \X Nat) /\ S \subseteq Values \X Docs
  BY Sorts DEF From, TypeOK
<1>2. IsFiniteSet(S)
  <2> HIDE DEF S
  <2> QED
    BY <1>1, FS_Subset DEF TypeOK
<1>3. S \subseteq Listed
  BY DEF From, Listed, NoCursor
<1> HIDE DEF S
<1>4. /\ s \in Seq(S)
      /\ Len(s) = IF n < Cardinality(S) THEN n ELSE Cardinality(S)
      /\ \A i \in 1..Len(s) : s[i] \in S
      /\ \A i, j \in 1..Len(s) : i < j => Earlier(desc, s[i], s[j])
      /\ \A e \in S : e \in ToSet(s) \/ (Len(s) = n /\ \A f \in ToSet(s) : Earlier(desc, f, e))
  BY <1>1, <1>2, FirstInOrder
<1>5. Cardinality(S) \in Nat
  BY <1>2, FS_CardinalityType
<1>6. s = Pairs(c, n, desc)
  BY DEF Pairs, S
<1> HIDE DEF s
<1>7. Len(s) <= n
  BY <1>4, <1>5
<1>8. DOMAIN s = 1..Len(s) /\ s \in Seq(Values \X Docs)
  BY <1>1, <1>4
<1>9. InOrder(s, desc)
  BY <1>4, <1>8 DEF InOrder
<1>10. ToSet(s) \subseteq Listed
  BY <1>3, <1>4, <1>8 DEF ToSet
<1> QED
  BY <1>1, <1>3, <1>4, <1>6, <1>7, <1>8, <1>9, <1>10 DEF S

(* Of a page that is not empty.                                            *)
LEMMA Ends ==
  ASSUME NEW S, NEW s \in Seq(S), s # <<>>
  PROVE  /\ Len(s) \in Nat \ {0} /\ 1 \in 1..Len(s) /\ Len(s) \in 1..Len(s) /\ DOMAIN s = 1..Len(s)
         /\ Head(s) = s[1] /\ Last(s) = s[Len(s)]
         /\ Head(s) \in S /\ Last(s) \in S /\ Head(s) \in ToSet(s) /\ Last(s) \in ToSet(s)
<1>1. Len(s) \in Nat \ {0} /\ DOMAIN s = 1..Len(s)
  OBVIOUS
<1>2. Head(s) = s[1] /\ Last(s) = s[Len(s)]
  BY DEF Last
<1> QED
  BY <1>1, <1>2 DEF ToSet

(* Of a sequence of more than one.                                         *)
LEMMA Rest ==
  ASSUME NEW S, NEW s \in Seq(S), s # <<>>, Len(s) # 1
  PROVE  /\ Tail(s) \in Seq(S) \ {<<>>} /\ Head(Tail(s)) \in ToSet(Tail(s))
         /\ \A i \in DOMAIN Tail(s) : i + 1 \in DOMAIN s /\ Tail(s)[i] = s[i + 1]
<1>1. Len(s) \in Nat \ {0, 1} /\ DOMAIN s = 1..Len(s)
  OBVIOUS
<1>2. /\ Tail(s) \in Seq(S) /\ Len(Tail(s)) = Len(s) - 1
      /\ \A i \in 1..(Len(s) - 1) : Tail(s)[i] = s[i + 1]
  BY <1>1
<1> DEFINE t == Tail(s)
<1> HIDE DEF t
<1>3. t \in Seq(S) /\ Len(t) = Len(s) - 1 /\ \A i \in 1..(Len(s) - 1) : t[i] = s[i + 1]
  BY <1>2 DEF t
<1>4. Len(<<>>) = 0
  OBVIOUS
<1>5. t # <<>>
  BY <1>1, <1>3, <1>4
<1>6. DOMAIN t = 1..(Len(s) - 1)
  BY <1>3
<1>7. Head(t) \in ToSet(t)
  BY <1>3, <1>5, Ends
<1> QED
  BY <1>1, <1>3, <1>5, <1>6, <1>7 DEF t

LEMMA TypesInit ==
  ASSUME Init
  PROVE  TypeOK /\ StageOK
<1>1. meta \in [Docs -> Values \cup {NoMeta}] /\ writer \in Writers /\ aborted \in BOOLEAN
  BY DEF Init, Writers
<1>2. ordered \in SUBSET (Values \X Docs)
  BY DEF Init
<1>3. IsFiniteSet(ordered)
  <2> DEFINE D == {d \in Docs : meta[d] \in Values}
             f == [d \in D |-> <<meta[d], d>>]
  <2>1. IsFiniteSet(D)
    BY QueryAssumptions, FS_Subset
  <2>2. f \in [D -> ordered]
    BY DEF Init
  <2>3. \A e \in ordered : \E d \in D : f[d] = e
    <3> TAKE e \in ordered
    <3>1. e[2] \in D /\ e = <<e[1], e[2]>> /\ e[1] = meta[e[2]]
      BY DEF Init
    <3> QED
      BY <3>1
  <2>4. f \in Surjection(D, ordered)
    BY <2>2, <2>3 DEF Surjection
  <2> QED
    BY <2>1, <2>4, FS_Surjection
<1>4. client \in Clients
  <2>1. PICK r \in Requests :
          client = [desc |-> r.desc, limit |-> r.limit,
                    stage |-> "idle", link |-> "none", cursor |-> NoCursor, page |-> <<>>, at |-> 0,
                    doc |-> 0, keys |-> "unread", from |-> NoCursor, links |-> NoLinks]
    BY DEF Init
  <2>2. r.desc \in BOOLEAN /\ r.limit \in Nat
    BY QueryAssumptions
  <2>3. NoCursor \in Cursors /\ NoCursor \in Written
    BY DEF Cursors, Written
  <2>4. NoLinks \in [last : Written, previous : Written, next : Written]
    BY <2>3 DEF NoLinks
  <2>5. <<>> \in Seq(Values \X Docs)
    OBVIOUS
  <2> QED
    BY <2>1, <2>2, <2>3, <2>4, <2>5 DEF Clients
<1>5. walk \in [on : BOOLEAN, stay : SUBSET Docs, seen : SUBSET Docs, torn : BOOLEAN, quiet : BOOLEAN]
  BY DEF Init
<1>6. StageOK
  BY DEF Init, StageOK, Reading, NoLinks
<1> QED
  BY <1>1, <1>2, <1>3, <1>4, <1>5, <1>6 DEF TypeOK

(* The writer's steps leave the request alone.                             *)
Writing == (\E d \in Docs : Create(d) \/ EraseMeta(d)) \/ SetMeta \/ SetOrdered \/ EraseOrdered

LEMMA WritingTypes ==
  ASSUME TypeOK, Writing
  PROVE  /\ TypeOK' /\ client' = client /\ aborted' = aborted
         /\ walk'.on = walk.on /\ walk'.seen = walk.seen
         /\ walk'.stay \subseteq walk.stay
         /\ ~walk'.torn => ~walk.torn
<1> DEFINE Walks == [on : BOOLEAN, stay : SUBSET Docs, seen : SUBSET Docs, torn : BOOLEAN, quiet : BOOLEAN]
<1> USE DEF TypeOK
<1>1. ASSUME NEW d \in Docs, Create(d)
      PROVE  writer' \in Writers
  <2>1. PICK f \in Forms : writer' = [step |-> "meta", doc |-> d, todo |-> f]
    BY <1>1 DEF Create
  <2>2. f \in Seq(Values) \ {<<>>}
    BY QueryAssumptions
  <2> QED
    BY <2>1, <2>2 DEF Writers
<1>2. ASSUME NEW d \in Docs, EraseMeta(d)
      PROVE  writer' \in Writers /\ meta' \in [Docs -> Values \cup {NoMeta}]
  BY <1>2 DEF EraseMeta, Writers, Described
<1>3. ASSUME writer.step \in {"meta", "ordered"}
      PROVE  /\ writer \in [step : {"meta", "ordered"}, doc : Docs, todo : Seq(Values) \ {<<>>}]
             /\ Head(writer.todo) \in Values /\ writer.doc \in Docs
  <2>1. writer \in [step : {"meta", "ordered"}, doc : Docs, todo : Seq(Values) \ {<<>>}]
    BY <1>3 DEF Writers, NoWriter
  <2> QED
    BY <2>1, Ends
<1>4. ASSUME SetMeta
      PROVE  /\ writer' \in Writers /\ meta' \in [Docs -> Values \cup {NoMeta}]
             /\ ordered' \in SUBSET (Values \X Docs) /\ IsFiniteSet(ordered')
  <2>1. writer' = [writer EXCEPT !.step = "ordered"] /\ writer.step = "meta"
    BY <1>4 DEF SetMeta
  <2>2. writer' \in [step : {"meta", "ordered"}, doc : Docs, todo : Seq(Values) \ {<<>>}]
    BY <1>3, <2>1
  <2>3. meta' = [meta EXCEPT ![writer.doc] = Head(writer.todo)]
    BY <1>4 DEF SetMeta
  <2>4. ordered' \in SUBSET ordered
    BY <1>4 DEF SetMeta
  <2> QED
    BY <1>3, <2>1, <2>2, <2>3, <2>4, FS_Subset DEF Writers
<1>5. ASSUME SetOrdered
      PROVE  /\ writer' \in Writers
             /\ ordered' \in SUBSET (Values \X Docs) /\ IsFiniteSet(ordered')
  <2>1. /\ ordered' = ordered \cup {<<Head(writer.todo), writer.doc>>}
        /\ writer.step = "ordered"
        /\ writer' = IF Len(writer.todo) = 1 THEN NoWriter
                     ELSE [writer EXCEPT !.step = "meta", !.todo = Tail(@)]
    BY <1>5 DEF SetOrdered
  <2>2. IsFiniteSet(ordered')
    BY <2>1, FS_AddElement
  <2>3. ASSUME Len(writer.todo) # 1
        PROVE  Tail(writer.todo) \in Seq(Values) \ {<<>>}
    BY <1>3, <2>1, <2>3, Rest
  <2>4. ASSUME Len(writer.todo) # 1
        PROVE  writer' \in [step : {"meta", "ordered"}, doc : Docs, todo : Seq(Values) \ {<<>>}]
    BY <1>3, <2>1, <2>3, <2>4
  <2>5. writer' \in Writers
    BY <2>1, <2>4 DEF Writers
  <2>6. ordered' \in SUBSET (Values \X Docs)
    BY <1>3, <2>1
  <2> QED
    BY <2>2, <2>5, <2>6
<1>6. ASSUME EraseOrdered
      PROVE  writer' \in Writers /\ ordered' \in SUBSET ordered /\ IsFiniteSet(ordered')
  <2>1. writer' \in Writers /\ ordered' \in SUBSET ordered
    BY <1>6 DEF EraseOrdered, Writers
  <2> QED
    BY <2>1, FS_Subset
<1>0. (\E d \in Docs : Create(d)) \/ (\E d \in Docs : EraseMeta(d)) \/ SetMeta \/ SetOrdered \/ EraseOrdered
  BY DEF Writing
<1>7. /\ walk' \in Walks /\ walk'.on = walk.on /\ walk'.seen = walk.seen
      /\ walk'.stay \subseteq walk.stay
      /\ ~walk'.torn => ~walk.torn
  <2> HIDE DEF TypeOK
  <2>1. walk \in Walks
    BY DEF TypeOK
  <2>2. CASE \E d \in Docs : Create(d)
    BY <2>1, <2>2 DEF Create
  <2>3. CASE \E d \in Docs : EraseMeta(d)
    <3> PICK d \in Docs : EraseMeta(d)
      BY <2>3
    <3> DEFINE x == walk.torn \/ client.stage # "idle"
               S == walk.stay \ {d}
    <3>1. walk' = [walk EXCEPT !.stay = S, !.torn = x, !.quiet = FALSE]
      BY DEF EraseMeta
    <3>2. x \in BOOLEAN /\ (walk.torn => x) /\ S \subseteq walk.stay
      OBVIOUS
    <3> HIDE DEF x, S
    <3> QED
      BY <2>1, <3>1, <3>2
  <2>4. CASE SetMeta
    <3> DEFINE e == <<Head(writer.todo), writer.doc>>
               x == \/ walk.torn \/ meta[e[2]] \notin {NoMeta, e[1]}
                    \/ client.stage # "idle" /\ e \in ordered
    <3>1. walk' = [walk EXCEPT !.quiet = FALSE, !.torn = x]
      BY <2>4 DEF SetMeta
    <3>2. x \in BOOLEAN /\ (walk.torn => x)
      OBVIOUS
    <3> HIDE DEF x
    <3> QED
      BY <2>1, <3>1, <3>2
  <2>5. CASE SetOrdered
    BY <2>1, <2>5 DEF SetOrdered
  <2>6. CASE EraseOrdered
    BY <2>1, <2>6 DEF EraseOrdered
  <2> QED
    BY <1>0, <2>2, <2>3, <2>4, <2>5, <2>6
<1>8. client' = client /\ aborted' = aborted
  BY DEF Writing, Create, EraseMeta, SetMeta, SetOrdered, EraseOrdered
<1>9. CASE \E d \in Docs : Create(d)
  BY <1>1, <1>7, <1>8, <1>9 DEF Create
<1>10. CASE \E d \in Docs : EraseMeta(d)
  BY <1>2, <1>7, <1>8, <1>10 DEF EraseMeta
<1>11. CASE SetMeta
  BY <1>4, <1>7, <1>8, <1>11
<1>12. CASE SetOrdered
  BY <1>5, <1>7, <1>8, <1>12 DEF SetOrdered
<1>13. CASE EraseOrdered
  BY <1>6, <1>7, <1>8, <1>13 DEF EraseOrdered
<1> QED
  BY <1>0, <1>9, <1>10, <1>11, <1>12, <1>13

(* The steps of a request write nothing.                                   *)
Asking ==
  \/ FirstPage
  \/ \E link \in {"last", "previous", "next"} : Follow(link)
  \/ ReadKeys \/ ReadMeta
  \/ ListPage \/ ListPageEnd \/ FillDocument
  \/ ListLast \/ ListLastAgain \/ LinkLast
  \/ Previous \/ ListPrevious \/ LinkPrevious
  \/ NextPage \/ ListNext \/ LinkNext

LEMMA CursorsOfKeys ==
  /\ NoCursor \in Cursors /\ NoCursor \in Written
  /\ \A e \in Values \X Docs : e[2] \in Docs /\ e[2] \in Nat /\ e[1] \in Values /\ e = <<e[1], e[2]>>
  /\ \A d \in Docs, v \in Values \cup {NoMeta} : <<v, d>> \in Written
  /\ \A c \in Written : ParseCursor(c) \in Cursors
<1>1. \A v \in Values : Escape[v] \in Nat /\ v # 0
  BY Sorts
<1>2. ASSUME NEW c \in (Values \cup {NoMeta}) \X Docs, c[1] # 0
      PROVE  <<Escape[c[1]], c[2]>> \in Nat \X Docs
  BY <1>1, <1>2 DEF NoMeta
<1>3. \A c \in Written : ParseCursor(c) \in Cursors
  BY <1>2 DEF Cursors, Written, ParseCursor, Encoded
<1>4. \A e \in Values \X Docs : e[2] \in Docs /\ e[2] \in Nat /\ e[1] \in Values /\ e = <<e[1], e[2]>>
  BY Sorts
<1> QED
  BY <1>3, <1>4 DEF Cursors, Written

(* Going on to a stage.                                                    *)
LEMMA GoingOn ==
  ASSUME TypeOK
  PROVE  /\ \A stage \in Serving \cup {"idle", "list"} :
              /\ Go(stage) \in Clients /\ Go(stage).stage = stage /\ Go(stage).keys = "unread"
              /\ Go(stage).desc = client.desc /\ Go(stage).limit = client.limit
              /\ Go(stage).link = client.link /\ Go(stage).cursor = client.cursor
              /\ Go(stage).page = client.page /\ Go(stage).links = client.links
         /\ \A stage \in Serving, e \in Values \X Docs :
              LET c == ReadFor(stage, e)
              IN  /\ c \in Clients /\ c.stage = stage /\ c.keys = "unread" /\ c.doc = e[2]
                  /\ c.desc = client.desc /\ c.limit = client.limit
                  /\ c.link = client.link /\ c.cursor = client.cursor
                  /\ c.page = client.page /\ c.links = client.links /\ c.at = client.at
<1>1. client \in Clients
  BY DEF TypeOK
<1> DEFINE Stages == Serving \cup {"idle", "list"}
<1>2. ASSUME NEW stage \in Stages
      PROVE  Go(stage) \in Clients
  BY <1>1, CursorsOfKeys DEF Clients, Go
<1>3. ASSUME NEW stage \in Stages
      PROVE  /\ Go(stage).stage = stage /\ Go(stage).keys = "unread"
             /\ Go(stage).desc = client.desc /\ Go(stage).limit = client.limit
             /\ Go(stage).link = client.link /\ Go(stage).cursor = client.cursor
             /\ Go(stage).page = client.page /\ Go(stage).links = client.links
  BY <1>1 DEF Clients, Go
<1>4. ASSUME NEW stage \in Serving, NEW e \in Values \X Docs
      PROVE  ReadFor(stage, e) \in Clients
  <2>1. e[2] \in Nat
    BY CursorsOfKeys
  <2> QED
    BY <1>1, <2>1, CursorsOfKeys DEF Clients, ReadFor
<1>5. ASSUME NEW stage \in Serving, NEW e \in Values \X Docs
      PROVE  LET c == ReadFor(stage, e)
             IN  /\ c.stage = stage /\ c.keys = "unread" /\ c.doc = e[2]
                 /\ c.desc = client.desc /\ c.limit = client.limit
                 /\ c.link = client.link /\ c.cursor = client.cursor
                 /\ c.page = client.page /\ c.links = client.links /\ c.at = client.at
  BY <1>1 DEF Clients, ReadFor
<1> QED
  BY <1>2, <1>3, <1>4, <1>5

-----------------------------------------------------------------------------
(* Fourth part: the steps of a request, field by field.                    *)
Same ==
  /\ client' \in Clients /\ client'.desc = client.desc /\ client'.limit = client.limit
  /\ UNCHANGED <<meta, ordered, writer>>

SamePage == Same /\ client'.page = client.page

(* The request goes on, or comes to read the document of a key.            *)
To(stage) ==
  /\ client'.cursor = client.cursor /\ client'.link = client.link
  /\ client'.stage = stage /\ client'.keys = "unread"

ToRead(stage, e) == To(stage) /\ client'.doc = e[2]

LEMMA FirstPageStep ==
  ASSUME TypeOK, FirstPage
  PROVE  /\ SamePage /\ aborted' = aborted
         /\ client'.stage = "list" /\ client'.keys = "unread" /\ client'.link = "first"
         /\ client'.cursor = NoCursor /\ client'.links = NoLinks
<1> DEFINE g == Go("list")
<1>1. g \in Clients /\ g.stage = "list" /\ g.keys = "unread" /\ g.desc = client.desc
      /\ g.limit = client.limit /\ g.page = client.page
  BY GoingOn
<1>2. client' = [g EXCEPT !.link = "first", !.links = NoLinks, !.cursor = NoCursor]
  BY DEF FirstPage
<1> HIDE DEF g
<1>3. NoLinks \in [last : Written, previous : Written, next : Written]
  BY CursorsOfKeys DEF NoLinks
<1> QED
  BY <1>1, <1>2, <1>3, CursorsOfKeys DEF Clients, FirstPage, Same, SamePage

LEMMA FollowStep ==
  ASSUME TypeOK, NEW link \in {"last", "previous", "next"}, Follow(link)
  PROVE  /\ SamePage /\ aborted' = aborted
         /\ client'.stage = "list" /\ client'.keys = "unread" /\ client'.link = link
         /\ client.links[link] \in Written
         /\ client'.cursor = ParseCursor(client.links[link]) /\ client'.links = NoLinks
<1> DEFINE g == Go("list")
           c == ParseCursor(client.links[link])
<1>1. g \in Clients /\ g.stage = "list" /\ g.keys = "unread" /\ g.desc = client.desc
      /\ g.limit = client.limit /\ g.page = client.page
  BY GoingOn
<1>2. client' = [g EXCEPT !.link = link, !.links = NoLinks, !.cursor = c]
  BY DEF Follow
<1>3. client.links[link] \in Written
  BY DEF TypeOK, Clients
<1>4. c \in Cursors
  BY <1>3, CursorsOfKeys
<1> HIDE DEF g, c
<1>5. NoLinks \in [last : Written, previous : Written, next : Written]
  BY CursorsOfKeys DEF NoLinks
<1>6. client' \in Clients
  BY <1>1, <1>2, <1>4, <1>5 DEF Clients
<1> QED
  BY <1>1, <1>2, <1>3, <1>6 DEF Clients, Follow, Same, SamePage, c

LEMMA ReadKeysStep ==
  ASSUME TypeOK, StageOK, ReadKeys
  PROVE  /\ SamePage /\ aborted' = aborted /\ walk' = walk
         /\ client'.cursor = client.cursor /\ client'.link = client.link /\ client'.links = client.links
         /\ client'.stage = client.stage /\ client'.doc = client.doc /\ client'.at = client.at
         /\ client.stage \in Reading
         /\ client'.keys = IF meta[client.doc] = NoMeta THEN "none" ELSE "some"
BY DEF TypeOK, Clients, ReadKeys, Same, SamePage

LEMMA ReadMetaStep ==
  ASSUME TypeOK, StageOK, ReadMeta
  PROVE  /\ SamePage /\ aborted' = aborted /\ walk' = walk
         /\ client'.cursor = client.cursor /\ client'.link = client.link /\ client'.links = client.links
         /\ client'.stage = client.stage /\ client'.doc = client.doc /\ client'.at = client.at
         /\ client.stage \in Reading /\ client.keys \in {"none", "some"}
         /\ client'.keys = IF client.keys = "some" /\ meta[client.doc] = NoMeta THEN "missing" ELSE "read"
         /\ client.keys = "some" /\ meta[client.doc] # NoMeta => client'.from = Key(client.doc)
<1>1. client \in Clients /\ client.stage \in Reading /\ client.doc \in Docs /\ client.keys \in {"none", "some"}
  BY DEF ReadMeta, StageOK, TypeOK
<1>2. <<0, client.doc>> \in Written /\ <<meta[client.doc], client.doc>> \in Written /\ NoCursor \in Written
  BY <1>1, CursorsOfKeys DEF TypeOK, NoMeta
<1>3. CASE client.keys = "none"
  BY <1>1, <1>2, <1>3 DEF Clients, ReadMeta, Same, SamePage
<1>4. CASE client.keys = "some" /\ meta[client.doc] = NoMeta
  BY <1>1, <1>2, <1>4 DEF Clients, ReadMeta, Same, SamePage
<1>5. CASE client.keys = "some" /\ meta[client.doc] # NoMeta
  BY <1>1, <1>2, <1>5 DEF Clients, ReadMeta, Same, SamePage, Key
<1> QED
  BY <1>1, <1>3, <1>4, <1>5

LEMMA ListPageStep ==
  ASSUME TypeOK, StageOK, ListPage
  PROVE  /\ Same /\ aborted' = aborted
         /\ client.stage = "list" /\ client'.links = NoLinks /\ client'.at = 1
         /\ client'.page = Pairs(client.cursor, client.limit, client.desc)
         /\ IF client'.page = <<>> THEN To("listEnd") ELSE ToRead("fill", Head(client'.page))
         /\ walk'.on = walk.on /\ walk'.stay = walk.stay /\ walk'.quiet = TRUE
         /\ walk'.seen = walk.seen \cup {e[2] : e \in ToSet(client'.page)}
         /\ walk'.torn = (walk.torn \/ writer.step = "erase")
<1> DEFINE page == Pairs(client.cursor, client.limit, client.desc)
           g == IF page = <<>> THEN Go("listEnd") ELSE ReadFor("fill", Head(page))
<1>1. client \in Clients /\ client.limit \in Nat /\ client.desc \in BOOLEAN
  BY DEF TypeOK, Clients
<1>2. page \in Seq(Values \X Docs)
  BY <1>1, Listing
<1>3. page # <<>> => Head(page) \in Values \X Docs
  BY <1>2, Ends
<1>4. "listEnd" \in Serving /\ "fill" \in Serving
  BY DEF Serving, Reading
<1>5. /\ g \in Clients /\ g.keys = "unread" /\ g.desc = client.desc /\ g.limit = client.limit
      /\ g.link = client.link /\ g.cursor = client.cursor /\ g.links = client.links
      /\ IF page = <<>> THEN g.stage = "listEnd" ELSE g.stage = "fill" /\ g.doc = Head(page)[2]
  <2>1. CASE page = <<>>
    <3>1. g = Go("listEnd")
      BY <2>1
    <3> HIDE DEF g, page
    <3> QED
      BY <1>4, <2>1, <3>1, GoingOn
  <2>2. CASE page # <<>>
    <3> DEFINE e == Head(page)
    <3>1. g = ReadFor("fill", e) /\ e \in Values \X Docs
      BY <1>3, <2>2
    <3> HIDE DEF g, e
    <3>2. /\ g \in Clients /\ g.stage = "fill" /\ g.keys = "unread" /\ g.doc = e[2]
          /\ g.desc = client.desc /\ g.limit = client.limit
          /\ g.link = client.link /\ g.cursor = client.cursor /\ g.links = client.links
      BY <1>4, <3>1, GoingOn
    <3> QED
      BY <2>2, <3>2 DEF e
  <2> QED
    BY <2>1, <2>2
<1>6. /\ client' = [g EXCEPT !.page = page, !.at = 1] /\ client.stage = "list"
      /\ walk' = [walk EXCEPT !.seen = @ \cup {e[2] : e \in ToSet(page)},
                    !.torn = @ \/ writer.step = "erase", !.quiet = TRUE]
      /\ UNCHANGED <<meta, ordered, writer, aborted>>
  BY DEF ListPage
<1>7. client.links = NoLinks
  BY <1>6 DEF StageOK
<1> HIDE DEF page, g
<1>8. /\ client' \in Clients /\ client'.page = page /\ client'.at = 1
      /\ client'.keys = "unread" /\ client'.desc = client.desc /\ client'.limit = client.limit
      /\ client'.link = client.link /\ client'.cursor = client.cursor /\ client'.links = client.links
      /\ IF page = <<>> THEN client'.stage = "listEnd" ELSE client'.stage = "fill" /\ client'.doc = Head(page)[2]
  BY <1>2, <1>5, <1>6 DEF Clients
<1>9. /\ walk'.on = walk.on /\ walk'.stay = walk.stay /\ walk'.quiet = TRUE
      /\ walk'.seen = walk.seen \cup {e[2] : e \in ToSet(page)}
      /\ walk'.torn = (walk.torn \/ writer.step = "erase")
  BY <1>6 DEF TypeOK
<1> QED
  BY <1>6, <1>7, <1>8, <1>9 DEF Same, To, ToRead, page

LEMMA ListPageEndStep ==
  ASSUME TypeOK, ListPageEnd
  PROVE  /\ SamePage /\ walk' = walk /\ client.stage = "listEnd" /\ client'.links = client.links
         /\ To("last")
         /\ aborted' = (Pairs(client.cursor, client.limit, client.desc) # <<>>)
<1>1. "last" \in Serving
  BY DEF Serving
<1> QED
  BY <1>1, GoingOn DEF ListPageEnd, Same, SamePage, To

LEMMA FillDocumentStep ==
  ASSUME TypeOK, StageOK, FillDocument
  PROVE  /\ SamePage /\ walk' = walk /\ client.stage = "fill" /\ client'.links = client.links
         /\ client.keys \in {"read", "missing"}
         /\ aborted' = (client.keys = "missing")
         /\ \/ To("last")
            \/ /\ client'.at \in 1..Len(client.page) /\ client'.at \in DOMAIN client.page
               /\ ToRead("fill", client.page[client'.at])
<1>1. client.at \in 1..Len(client.page) /\ client \in Clients /\ client.page \in Seq(Values \X Docs)
  BY DEF FillDocument, StageOK, TypeOK, Clients
<1>2. "last" \in Serving /\ "fill" \in Serving
  BY DEF Serving, Reading
<1>3. CASE ~(client.at < Len(client.page))
  BY <1>2, <1>3, GoingOn DEF FillDocument, Same, SamePage, To, IsRead
<1>4. CASE client.at < Len(client.page)
  <2> DEFINE i == client.at + 1
             g == ReadFor("fill", client.page[i])
  <2>1. i \in 1..Len(client.page) /\ i \in Nat /\ i \in DOMAIN client.page
    BY <1>1, <1>4
  <2>2. client.page[i] \in Values \X Docs
    BY <1>1, <2>1
  <2>3. /\ g \in Clients /\ g.stage = "fill" /\ g.keys = "unread" /\ g.doc = client.page[i][2]
        /\ g.desc = client.desc /\ g.limit = client.limit /\ g.link = client.link
        /\ g.cursor = client.cursor /\ g.page = client.page /\ g.links = client.links
    BY <1>2, <2>2, GoingOn
  <2>4. client' = [g EXCEPT !.at = i]
    BY <1>4 DEF FillDocument
  <2> HIDE DEF g, i
  <2>5. /\ client' \in Clients /\ client'.at = i /\ client'.stage = "fill" /\ client'.keys = "unread"
        /\ client'.doc = client.page[i][2]
        /\ client'.desc = client.desc /\ client'.limit = client.limit /\ client'.link = client.link
        /\ client'.cursor = client.cursor /\ client'.page = client.page /\ client'.links = client.links
    BY <2>1, <2>3, <2>4 DEF Clients
  <2> QED
    BY <2>1, <2>5 DEF FillDocument, Same, SamePage, To, ToRead, IsRead
<1> QED
  BY <1>3, <1>4

LEMMA ListLastStep ==
  ASSUME TypeOK, ListLast
  PROVE  /\ SamePage /\ walk' = walk /\ aborted' = aborted
         /\ client.stage = "last" /\ client'.links = client.links
         /\ IF PairsOfLast = <<>> THEN To("previous") ELSE To("lastAgain")
<1>1. "previous" \in Serving /\ "lastAgain" \in Serving
  BY DEF Serving
<1> QED
  BY <1>1, GoingOn DEF ListLast, Same, SamePage, To, PairsOfLast

LEMMA ListLastAgainStep ==
  ASSUME TypeOK, ListLastAgain
  PROVE  /\ SamePage /\ walk' = walk
         /\ client.stage = "lastAgain" /\ client'.links = client.links
         /\ aborted' = (PairsOfLast = <<>>)
         /\ IF aborted' THEN client' = client
            ELSE PairsOfLast # <<>> /\ ToRead("lastLink", Last(PairsOfLast))
<1>1. "lastLink" \in Serving /\ client \in Clients /\ client.limit \in Nat /\ client.desc \in BOOLEAN
  BY DEF Serving, Reading, TypeOK, Clients
<1>2. PairsOfLast \in Seq(Values \X Docs)
  BY <1>1, Listing DEF PairsOfLast
<1>3. PairsOfLast # <<>> => Last(PairsOfLast) \in Values \X Docs
  BY <1>2, Ends
<1>4. CASE PairsOfLast = <<>>
  BY <1>1, <1>4 DEF ListLastAgain, Same, SamePage, PairsOfLast
<1>5. CASE PairsOfLast # <<>>
  <2>1. /\ client' = ReadFor("lastLink", Last(PairsOfLast)) /\ aborted' = FALSE
        /\ client.stage = "lastAgain" /\ UNCHANGED <<meta, ordered, writer, walk>>
    BY <1>5 DEF ListLastAgain, PairsOfLast
  <2> HIDE DEF PairsOfLast
  <2> QED
    BY <1>1, <1>3, <1>5, <2>1, GoingOn DEF Same, SamePage, To, ToRead
<1> QED
  BY <1>4, <1>5

LEMMA LinkLastStep ==
  ASSUME TypeOK, LinkLast
  PROVE  /\ SamePage /\ walk' = walk /\ aborted' = aborted
         /\ client.stage = "lastLink" /\ client.keys \in {"read", "missing"} /\ To("previous")
         /\ client'.links = [client.links EXCEPT !.last = client.from]
<1> DEFINE g == Go("previous")
<1>1. "previous" \in Serving
  BY DEF Serving
<1>2. /\ g \in Clients /\ g.stage = "previous" /\ g.keys = "unread"
      /\ g.desc = client.desc /\ g.limit = client.limit /\ g.link = client.link
      /\ g.cursor = client.cursor /\ g.page = client.page /\ g.links = client.links
  BY <1>1, GoingOn
<1>3. client' = [g EXCEPT !.links.last = client.from]
  BY DEF LinkLast
<1>4. client.from \in Written
  BY DEF TypeOK, Clients
<1> HIDE DEF g
<1> QED
  BY <1>2, <1>3, <1>4 DEF LinkLast, IsRead, Clients, Same, SamePage, To

LEMMA PageNowListed ==
  ASSUME TypeOK
  PROVE  /\ PageNow \in Seq(Values \X Docs)
         /\ client.page # <<>> => PageNow = client.page
         /\ PageNow # <<>> => Head(PageNow) \in Values \X Docs /\ Last(PageNow) \in Values \X Docs
<1>1. client.page \in Seq(Values \X Docs) /\ client.limit \in Nat /\ client.desc \in BOOLEAN
  BY DEF TypeOK, Clients
<1>2. Pairs(client.cursor, client.limit, client.desc) \in Seq(Values \X Docs)
  BY <1>1, Listing
<1>3. PageNow \in Seq(Values \X Docs) /\ (client.page # <<>> => PageNow = client.page)
  BY <1>1, <1>2 DEF PageNow
<1> QED
  BY <1>3, Ends

LEMMA PreviousStep ==
  ASSUME TypeOK, Previous
  PROVE  /\ Same /\ walk' = walk /\ aborted' = aborted
         /\ client.stage = "previous" /\ client'.links = client.links /\ client'.page = PageNow
         /\ IF PageNow = <<>> THEN To("next") ELSE ToRead("previousFrom", Head(PageNow))
<1>1. "next" \in Serving /\ "previousFrom" \in Serving
  BY DEF Serving, Reading
<1> DEFINE g == IF PageNow = <<>> THEN Go("next") ELSE ReadFor("previousFrom", Head(PageNow))
<1>2. /\ g \in Clients /\ g.keys = "unread"
      /\ g.desc = client.desc /\ g.limit = client.limit /\ g.link = client.link
      /\ g.cursor = client.cursor /\ g.links = client.links
      /\ IF PageNow = <<>> THEN g.stage = "next" ELSE g.stage = "previousFrom" /\ g.doc = Head(PageNow)[2]
  <2>1. CASE PageNow = <<>>
    BY <1>1, <2>1, GoingOn
  <2>2. CASE PageNow # <<>>
    <3> DEFINE e == Head(PageNow)
    <3>1. g = ReadFor("previousFrom", e) /\ e \in Values \X Docs
      BY <2>2, PageNowListed
    <3> HIDE DEF g, e
    <3>2. /\ g \in Clients /\ g.stage = "previousFrom" /\ g.keys = "unread" /\ g.doc = e[2]
          /\ g.desc = client.desc /\ g.limit = client.limit
          /\ g.link = client.link /\ g.cursor = client.cursor /\ g.links = client.links
      BY <1>1, <3>1, GoingOn
    <3> QED
      BY <2>2, <3>2 DEF e
  <2> QED
    BY <2>1, <2>2
<1>3. client' = [g EXCEPT !.page = PageNow]
  BY DEF Previous
<1> HIDE DEF g
<1> QED
  BY <1>2, <1>3, PageNowListed DEF Previous, Clients, Same, To, ToRead

LEMMA ListPreviousStep ==
  ASSUME TypeOK, StageOK, ListPrevious
  PROVE  LET pairs == Pairs(Encoded(client.from), client.limit + 1, ~client.desc)
         IN  /\ SamePage /\ walk' = walk /\ aborted' = aborted
             /\ client.stage = "previousFrom" /\ client.keys \in {"read", "missing"}
             /\ client'.links = client.links
             /\ IF pairs = <<>> THEN To("next") ELSE ToRead("previousLink", Last(pairs))
<1> DEFINE pairs == Pairs(Encoded(client.from), client.limit + 1, ~client.desc)
<1>1. "next" \in Serving /\ "previousLink" \in Serving
  BY DEF Serving, Reading
<1>2. client.limit + 1 \in Nat /\ (~client.desc) \in BOOLEAN
  <2>1. client.limit \in Nat
    BY DEF TypeOK, Clients
  <2> QED
    BY <2>1
<1>3. pairs \in Seq(Values \X Docs)
  BY <1>2, Listing
<1>4. pairs # <<>> => Last(pairs) \in Values \X Docs
  BY <1>3, Ends
<1>5. /\ client' = (IF pairs = <<>> THEN Go("next") ELSE ReadFor("previousLink", Last(pairs)))
      /\ client.stage = "previousFrom" /\ client.keys \in {"read", "missing"}
      /\ UNCHANGED <<meta, ordered, writer, walk, aborted>>
  BY DEF ListPrevious, PairsOfPrevious, IsRead
<1> HIDE DEF pairs
<1>6. CASE pairs = <<>>
  BY <1>1, <1>5, <1>6, GoingOn DEF Same, SamePage, To, pairs
<1>7. CASE pairs # <<>>
  <2>1. /\ client' \in Clients /\ client'.keys = "unread"
        /\ client'.desc = client.desc /\ client'.limit = client.limit /\ client'.link = client.link
        /\ client'.cursor = client.cursor /\ client'.links = client.links /\ client'.page = client.page
        /\ client'.stage = "previousLink" /\ client'.doc = Last(pairs)[2]
    BY <1>1, <1>4, <1>5, <1>7, GoingOn
  <2> QED
    BY <1>5, <1>7, <2>1 DEF Same, SamePage, To, ToRead, pairs
<1> QED
  BY <1>6, <1>7

LEMMA LinkPreviousStep ==
  ASSUME TypeOK, LinkPrevious
  PROVE  /\ SamePage /\ walk' = walk /\ aborted' = aborted
         /\ client.stage = "previousLink" /\ client.keys \in {"read", "missing"} /\ To("next")
         /\ client'.links = [client.links EXCEPT !.previous = client.from]
<1> DEFINE g == Go("next")
<1>1. "next" \in Serving
  BY DEF Serving
<1>2. /\ g \in Clients /\ g.stage = "next" /\ g.keys = "unread"
      /\ g.desc = client.desc /\ g.limit = client.limit /\ g.link = client.link
      /\ g.cursor = client.cursor /\ g.page = client.page /\ g.links = client.links
  BY <1>1, GoingOn
<1>3. client' = [g EXCEPT !.links.previous = client.from]
  BY DEF LinkPrevious
<1>4. client.from \in Written
  BY DEF TypeOK, Clients
<1>5. /\ client.stage = "previousLink" /\ client.keys \in {"read", "missing"}
      /\ walk' = walk /\ aborted' = aborted /\ UNCHANGED <<meta, ordered, writer>>
  BY DEF LinkPrevious, IsRead
<1> HIDE DEF g
<1>6. client' \in Clients
  BY <1>2, <1>3, <1>4 DEF Clients
<1>7. /\ client'.stage = "next" /\ client'.keys = "unread"
      /\ client'.desc = client.desc /\ client'.limit = client.limit /\ client'.link = client.link
      /\ client'.cursor = client.cursor /\ client'.page = client.page
      /\ client'.links = [client.links EXCEPT !.previous = client.from]
  BY <1>2, <1>3 DEF Clients
<1> QED
  BY <1>5, <1>6, <1>7 DEF Same, SamePage, To

LEMMA NextPageStep ==
  ASSUME TypeOK, NextPage
  PROVE  /\ Same /\ walk' = walk /\ aborted' = aborted
         /\ client.stage = "next" /\ client'.links = client.links /\ client'.page = PageNow
         /\ IF PageNow = <<>> THEN To("idle") ELSE ToRead("nextFrom", Last(PageNow))
<1>1. "nextFrom" \in Serving
  BY DEF Serving, Reading
<1> DEFINE g == IF PageNow = <<>> THEN Go("idle") ELSE ReadFor("nextFrom", Last(PageNow))
<1>2. /\ g \in Clients /\ g.keys = "unread"
      /\ g.desc = client.desc /\ g.limit = client.limit /\ g.link = client.link
      /\ g.cursor = client.cursor /\ g.links = client.links
      /\ IF PageNow = <<>> THEN g.stage = "idle" ELSE g.stage = "nextFrom" /\ g.doc = Last(PageNow)[2]
  <2>1. CASE PageNow = <<>>
    BY <2>1, GoingOn
  <2>2. CASE PageNow # <<>>
    <3>1. g = ReadFor("nextFrom", Last(PageNow)) /\ Last(PageNow) \in Values \X Docs
      BY <2>2, PageNowListed
    <3> HIDE DEF g
    <3> QED
      BY <1>1, <2>2, <3>1, GoingOn
  <2> QED
    BY <2>1, <2>2
<1>3. client' = [g EXCEPT !.page = PageNow]
  BY DEF NextPage
<1> HIDE DEF g
<1> QED
  BY <1>2, <1>3, PageNowListed DEF NextPage, Clients, Same, To, ToRead

LEMMA ListNextStep ==
  ASSUME TypeOK, ListNext
  PROVE  LET pairs == Pairs(Encoded(client.from), 2, client.desc)
         IN  /\ SamePage /\ walk' = walk /\ aborted' = aborted
             /\ client.stage = "nextFrom" /\ client.keys \in {"read", "missing"}
             /\ client'.links = client.links
             /\ IF Len(pairs) <= 1 THEN To("idle") ELSE pairs # <<>> /\ ToRead("nextLink", Last(pairs))
<1> DEFINE pairs == Pairs(Encoded(client.from), 2, client.desc)
<1>1. "nextLink" \in Serving
  BY DEF Serving, Reading
<1>2. client.desc \in BOOLEAN
  BY DEF TypeOK, Clients
<1>3. pairs \in Seq(Values \X Docs)
  BY <1>2, Listing
<1>4. pairs # <<>> => Last(pairs) \in Values \X Docs
  BY <1>3, Ends
<1>5. /\ client' = (IF Len(pairs) <= 1 THEN Go("idle") ELSE ReadFor("nextLink", Last(pairs)))
      /\ client.stage = "nextFrom" /\ client.keys \in {"read", "missing"}
      /\ UNCHANGED <<meta, ordered, writer, walk, aborted>>
  BY DEF ListNext, NoNext, IsRead
<1>6. Len(<<>>) <= 1
  OBVIOUS
<1> HIDE DEF pairs
<1>7. CASE Len(pairs) <= 1
  BY <1>1, <1>5, <1>7, GoingOn DEF Same, SamePage, To, pairs
<1>8. CASE ~(Len(pairs) <= 1)
  <2>1. pairs # <<>>
    BY <1>6, <1>8
  <2>2. /\ client' \in Clients /\ client'.keys = "unread"
        /\ client'.desc = client.desc /\ client'.limit = client.limit /\ client'.link = client.link
        /\ client'.cursor = client.cursor /\ client'.links = client.links /\ client'.page = client.page
        /\ client'.stage = "nextLink" /\ client'.doc = Last(pairs)[2]
    BY <1>1, <1>4, <1>5, <1>8, <2>1, GoingOn
  <2> QED
    BY <1>5, <1>8, <2>1, <2>2 DEF Same, SamePage, To, ToRead, pairs
<1> QED
  BY <1>7, <1>8

LEMMA LinkNextStep ==
  ASSUME TypeOK, LinkNext
  PROVE  /\ SamePage /\ walk' = walk /\ aborted' = aborted
         /\ client.stage = "nextLink" /\ client.keys \in {"read", "missing"} /\ To("idle")
         /\ client'.links = [client.links EXCEPT !.next = client.from]
<1> DEFINE g == Go("idle")
<1>1. /\ g \in Clients /\ g.stage = "idle" /\ g.keys = "unread"
      /\ g.desc = client.desc /\ g.limit = client.limit /\ g.link = client.link
      /\ g.cursor = client.cursor /\ g.page = client.page /\ g.links = client.links
  BY GoingOn
<1>2. client' = [g EXCEPT !.links.next = client.from]
  BY DEF LinkNext
<1>3. client.from \in Written
  BY DEF TypeOK, Clients
<1> HIDE DEF g
<1> QED
  BY <1>1, <1>2, <1>3 DEF LinkNext, IsRead, Clients, Same, SamePage, To

-----------------------------------------------------------------------------
(* Fifth part: the types and stages stay as they are.                      *)

LEMMA NextSplits ==
  ASSUME Next
  PROVE  Writing \/ Asking
BY DEF Next, Writing, Asking

LEMMA StagesDiffer ==
  /\ "idle" \notin Serving /\ "list" \notin Serving /\ "nextLink" \notin AtPage
  /\ AtPage \subseteq Serving /\ Reading \subseteq Serving
  /\ \A s \in Reading : s \notin {"listEnd", "last", "lastAgain", "previous", "next"}
  /\ \A s \in {"listEnd", "last", "lastAgain", "previous", "next"} : s \in AtPage /\ s \notin Reading
  /\ \A s \in {"fill", "lastLink", "previousFrom", "previousLink", "nextFrom"} : s \in AtPage /\ s \in Reading
  /\ "nextLink" \in Reading
BY DEF Serving, AtPage, Reading

LEMMA AskingWalks ==
  ASSUME TypeOK, StageOK, Asking
  PROVE  /\ walk' \in [on : BOOLEAN, stay : SUBSET Docs, seen : SUBSET Docs, torn : BOOLEAN, quiet : BOOLEAN]
         /\ aborted' \in BOOLEAN
         /\ walk'.seen \subseteq Source
<1> DEFINE Walks == [on : BOOLEAN, stay : SUBSET Docs, seen : SUBSET Docs, torn : BOOLEAN, quiet : BOOLEAN]
<1>1. walk \in Walks /\ walk.seen \subseteq Source /\ aborted \in BOOLEAN
  BY DEF TypeOK, StageOK
<1>2. CASE FirstPage
  <2> DEFINE S == {d \in Wanted : d # writer.doc /\ <<meta[d], d>> \in ordered}
  <2> DEFINE x == ordered \ ItemKeys # {}
  <2>1. walk' = [walk EXCEPT !.on = TRUE, !.seen = {}, !.torn = x, !.stay = S] /\ aborted' = aborted
    BY <1>2 DEF FirstPage
  <2>2. S \in SUBSET Docs /\ x \in BOOLEAN
    BY DEF Wanted
  <2> HIDE DEF S, x
  <2> QED
    BY <1>1, <2>1, <2>2
<1>3. ASSUME NEW link \in {"last", "previous", "next"}, Follow(link)
      PROVE  walk' \in Walks /\ aborted' \in BOOLEAN /\ walk'.seen \subseteq Source
  <2> DEFINE x == walk.on /\ link = "next"
  <2>1. walk' = [walk EXCEPT !.on = x] /\ aborted' = aborted
    BY <1>3 DEF Follow
  <2>2. x \in BOOLEAN
    OBVIOUS
  <2> HIDE DEF x
  <2> QED
    BY <1>1, <2>1, <2>2
<1>4. CASE ListPage
  <2> DEFINE D == {e[2] : e \in ToSet(client'.page)}
             x == walk.torn \/ writer.step = "erase"
             y == walk.seen \cup D
  <2>1. client'.page = Pairs(client.cursor, client.limit, client.desc) /\ aborted' = aborted
    BY <1>4, ListPageStep
  <2>2. walk' = [walk EXCEPT !.seen = y, !.torn = x, !.quiet = TRUE]
    <3>1. walk' = [walk EXCEPT !.seen = @ \cup {e[2] : e \in ToSet(Pairs(client.cursor, client.limit, client.desc))},
                     !.torn = @ \/ writer.step = "erase", !.quiet = TRUE]
      BY <1>4 DEF ListPage
    <3> QED
      BY <2>1, <3>1
  <2>3. client.limit \in Nat /\ client.desc \in BOOLEAN
    BY DEF TypeOK, Clients
  <2>4. ToSet(client'.page) \subseteq Listed
    <3>1. ToSet(Pairs(client.cursor, client.limit, client.desc)) \subseteq Listed
      BY <2>3, Listing
    <3> QED
      BY <2>1, <3>1
  <2>5. D \subseteq Source
    BY <2>4 DEF Listed, From
  <2>6. x \in BOOLEAN /\ y \subseteq Source /\ y \subseteq Docs
    BY <1>1, <2>5, Sorts
  <2> HIDE DEF x, y, D
  <2> QED
    BY <1>1, <2>1, <2>2, <2>6
<1>5. CASE ReadKeys \/ ReadMeta
  BY <1>1, <1>5 DEF ReadKeys, ReadMeta
<1>6. CASE ListPageEnd \/ FillDocument \/ ListLastAgain
  BY <1>1, <1>6 DEF ListPageEnd, FillDocument, ListLastAgain
<1>7. CASE ListLast \/ LinkLast \/ Previous \/ ListPrevious \/ LinkPrevious \/ NextPage \/ ListNext \/ LinkNext
  BY <1>1, <1>7 DEF ListLast, LinkLast, Previous, ListPrevious, LinkPrevious, NextPage, ListNext, LinkNext
<1> QED
  BY <1>2, <1>3, <1>4, <1>5, <1>6, <1>7 DEF Asking

LEMMA AskingTypes ==
  ASSUME TypeOK, StageOK, Asking
  PROVE  /\ TypeOK' /\ StageOK'
         /\ Same
<1>1. walk' \in [on : BOOLEAN, stay : SUBSET Docs, seen : SUBSET Docs, torn : BOOLEAN, quiet : BOOLEAN]
      /\ aborted' \in BOOLEAN /\ walk'.seen \subseteq Source
  BY AskingWalks
<1> DEFINE Stages ==
      /\ IF client.stage \in Reading THEN client.doc \in Docs ELSE client.keys = "unread"
      /\ client.stage = "fill" => client.at \in 1..Len(client.page)
      /\ client.stage \in {"previousFrom", "previousLink", "nextFrom", "nextLink"} => client.page # <<>>
      /\ client.stage # "idle" => client.links.next = NoCursor
      /\ client.stage = "list" => client.links = NoLinks
      /\ ~IsValid => client.stage = "idle" /\ client.links = NoLinks
<1>2. Stages
  BY DEF StageOK
<1>3. /\ client \in Clients /\ client.page \in Seq(Values \X Docs)
      /\ client.links \in [last : Written, previous : Written, next : Written]
      /\ client.limit \in Nat /\ client.desc \in BOOLEAN
  BY DEF TypeOK, Clients
<1> SUFFICES Stages' /\ Same
  BY <1>1 DEF TypeOK, StageOK, Same
<1>4. CASE FirstPage
  BY <1>2, <1>4, FirstPageStep, StagesDiffer DEF FirstPage, SamePage, NoLinks
<1>5. ASSUME NEW link \in {"last", "previous", "next"}, Follow(link)
      PROVE  Stages' /\ Same
  <2>1. IsValid
    BY <1>2, <1>5 DEF Follow, NoLinks
  <2> QED
    BY <1>2, <1>5, <2>1, FollowStep, StagesDiffer DEF SamePage, NoLinks
<1>6. CASE ReadKeys
  BY <1>2, <1>6, ReadKeysStep DEF SamePage
<1>7. CASE ReadMeta
  BY <1>2, <1>7, ReadMetaStep DEF SamePage
<1>8. CASE ListPage
  <2>1. /\ Same /\ client.stage = "list" /\ client'.links = NoLinks /\ client'.at = 1
        /\ client'.page = Pairs(client.cursor, client.limit, client.desc)
        /\ IF client'.page = <<>> THEN To("listEnd") ELSE ToRead("fill", Head(client'.page))
    BY <1>8, ListPageStep
  <2>2. client'.page \in Seq(Values \X Docs)
    <3>1. Pairs(client.cursor, client.limit, client.desc) \in Seq(Values \X Docs)
      BY <1>3, Listing
    <3> QED
      BY <2>1, <3>1
  <2>3. CASE client'.page = <<>>
    BY <1>2, <2>1, <2>3, StagesDiffer DEF To, NoLinks
  <2>4. CASE client'.page # <<>>
    <3>1. Head(client'.page)[2] \in Docs /\ client'.at \in 1..Len(client'.page)
      BY <2>1, <2>2, <2>4, Ends, CursorsOfKeys
    <3> QED
      BY <1>2, <2>1, <2>4, <3>1, StagesDiffer DEF To, ToRead, NoLinks
  <2> QED
    BY <2>3, <2>4
<1>9. CASE ListPageEnd
  BY <1>2, <1>9, ListPageEndStep, StagesDiffer DEF SamePage, To
<1>10. CASE FillDocument
  <2>1. SamePage /\ client.stage = "fill" /\ client'.links = client.links
    BY <1>10, FillDocumentStep
  <2>2. CASE To("last")
    BY <1>2, <2>1, <2>2, StagesDiffer DEF SamePage, To
  <2>3. CASE /\ client'.at \in 1..Len(client.page) /\ client'.at \in DOMAIN client.page
             /\ ToRead("fill", client.page[client'.at])
    <3>1. client.page[client'.at] \in Values \X Docs
      BY <1>3, <2>3
    <3>2. client.page[client'.at][2] \in Docs
      BY <3>1, CursorsOfKeys
    <3> QED
      BY <1>2, <2>1, <2>3, <3>2, StagesDiffer DEF SamePage, To, ToRead
  <2> QED
    BY <1>10, <2>2, <2>3, FillDocumentStep
<1>11. CASE ListLast
  BY <1>2, <1>11, ListLastStep, StagesDiffer DEF SamePage, To
<1>12. CASE ListLastAgain
  <2>1. (~client.desc) \in BOOLEAN
    OBVIOUS
  <2>2. PairsOfLast \in Seq(Values \X Docs)
    BY <1>3, <2>1, Listing DEF PairsOfLast
  <2>3. PairsOfLast # <<>> => Last(PairsOfLast)[2] \in Docs
    BY <2>2, Ends, CursorsOfKeys
  <2> QED
    BY <1>2, <1>3, <1>12, <2>3, ListLastAgainStep, StagesDiffer DEF SamePage, Same, To, ToRead
<1>13. CASE LinkLast
  BY <1>2, <1>3, <1>13, LinkLastStep, StagesDiffer DEF SamePage, To
<1>14. CASE Previous
  <2>1. PageNow # <<>> => Head(PageNow)[2] \in Docs
    BY PageNowListed, CursorsOfKeys
  <2> QED
    BY <1>2, <1>14, <2>1, PreviousStep, StagesDiffer DEF To, ToRead
<1>15. CASE ListPrevious
  <2> DEFINE pairs == Pairs(Encoded(client.from), client.limit + 1, ~client.desc)
  <2>1. client.limit + 1 \in Nat /\ (~client.desc) \in BOOLEAN
    BY <1>3
  <2>2. pairs \in Seq(Values \X Docs)
    BY <2>1, Listing
  <2>3. pairs # <<>> => Last(pairs)[2] \in Docs
    BY <2>2, Ends, CursorsOfKeys
  <2>4. /\ SamePage /\ client.stage = "previousFrom" /\ client'.links = client.links
        /\ IF pairs = <<>> THEN To("next") ELSE ToRead("previousLink", Last(pairs))
    BY <1>15, ListPreviousStep
  <2> HIDE DEF pairs
  <2> QED
    BY <1>2, <2>3, <2>4, StagesDiffer DEF SamePage, To, ToRead
<1>16. CASE LinkPrevious
  BY <1>2, <1>3, <1>16, LinkPreviousStep, StagesDiffer DEF SamePage, To
<1>17. CASE NextPage
  <2>1. PageNow # <<>> => Last(PageNow)[2] \in Docs
    BY PageNowListed, CursorsOfKeys
  <2> QED
    BY <1>2, <1>17, <2>1, NextPageStep, StagesDiffer DEF To, ToRead
<1>18. CASE ListNext
  <2> DEFINE pairs == Pairs(Encoded(client.from), 2, client.desc)
  <2>1. pairs \in Seq(Values \X Docs)
    BY <1>3, Listing
  <2>2. pairs # <<>> => Last(pairs)[2] \in Docs
    BY <2>1, Ends, CursorsOfKeys
  <2>3. /\ SamePage /\ client.stage = "nextFrom" /\ client'.links = client.links
        /\ IF Len(pairs) <= 1 THEN To("idle") ELSE pairs # <<>> /\ ToRead("nextLink", Last(pairs))
    BY <1>18, ListNextStep
  <2> HIDE DEF pairs
  <2> QED
    BY <1>2, <2>2, <2>3, StagesDiffer DEF SamePage, To, ToRead
<1>19. CASE LinkNext
  BY <1>2, <1>3, <1>19, LinkNextStep, StagesDiffer DEF SamePage, To
<1> QED
  BY <1>4, <1>5, <1>6, <1>7, <1>8, <1>9, <1>10, <1>11, <1>12, <1>13, <1>14, <1>15, <1>16, <1>17, <1>18, <1>19
  DEF Asking

LEMMA TypesNext ==
  ASSUME TypeOK, StageOK, Next
  PROVE  TypeOK' /\ StageOK'
<1>1. CASE Writing
  <2>1. TypeOK' /\ client' = client /\ walk'.seen = walk.seen
    BY <1>1, WritingTypes
  <2> QED
    BY <2>1 DEF StageOK
<1> QED
  BY <1>1, NextSplits, AskingTypes

-----------------------------------------------------------------------------
(* Sixth part: what a request meets while nothing is written.              *)

LEMMA WritingDisturbs ==
  ASSUME TypeOK, Writing
  PROVE  /\ ~aborted
         /\ ~walk'.quiet \/ (UNCHANGED <<meta, ordered, walk>> /\ writer.step = "idle" /\ writer'.step = "meta")
<1>1. CASE \E d \in Docs : Create(d)
  BY <1>1 DEF Create, NoWriter
<1>2. CASE (\E d \in Docs : EraseMeta(d)) \/ SetMeta \/ SetOrdered \/ EraseOrdered
  BY <1>2 DEF TypeOK, EraseMeta, SetMeta, SetOrdered, EraseOrdered
<1> QED
  BY <1>1, <1>2 DEF Writing

LEMMA AnswersStay ==
  ASSUME TypeOK, StageOK, AnswersOK, Next
  PROVE  AnswersOK'
<1> DEFINE Quiet ==
      walk.quiet /\ ~aborted =>
        /\ client.keys # "missing"
        /\ client.keys = "some" => meta[client.doc] # NoMeta
        /\ client.stage = "listEnd" => Pairs(client.cursor, client.limit, client.desc) = <<>>
        /\ client.stage = "lastAgain" => PairsOfLast # <<>>
<1>1. Quiet /\ (aborted => ~walk.quiet) /\ client.keys \in {"unread", "none", "some", "read", "missing"}
  BY DEF AnswersOK, PairsOfLast, TypeOK, Clients
<1> SUFFICES (aborted' => ~walk'.quiet) /\ Quiet'
  BY DEF AnswersOK, PairsOfLast
<1>2. CASE Writing
  <2>1. client' = client /\ aborted' = aborted /\ ~aborted
    BY <1>2, WritingTypes, WritingDisturbs
  <2>2. CASE UNCHANGED <<meta, ordered, walk>>
    BY <1>1, <2>1, <2>2 DEF Pairs, From, PairsOfLast
  <2>3. CASE ~walk'.quiet
    BY <2>3
  <2> QED
    BY <1>2, <2>2, <2>3, WritingDisturbs
<1>3. ASSUME aborted' = aborted, ~aborted, client'.keys = "unread", client'.stage \notin {"listEnd", "lastAgain"}
      PROVE  (aborted' => ~walk'.quiet) /\ Quiet'
  BY <1>3
<1>4. CASE FirstPage
  BY <1>3, <1>4, FirstPageStep DEF FirstPage
<1>5. ASSUME NEW link \in {"last", "previous", "next"}, Follow(link)
      PROVE  (aborted' => ~walk'.quiet) /\ Quiet'
  BY <1>3, <1>5, FollowStep DEF Follow
<1>6. CASE ReadKeys
  BY <1>1, <1>6, ReadKeysStep, StagesDiffer DEF SamePage, Same, ReadKeys
<1>7. CASE ReadMeta
  BY <1>1, <1>7, ReadMetaStep, StagesDiffer DEF SamePage, Same, ReadMeta
<1>8. CASE ListPage
  <2>1. /\ Same /\ aborted' = aborted /\ ~aborted
        /\ client'.page = Pairs(client.cursor, client.limit, client.desc)
        /\ IF client'.page = <<>> THEN To("listEnd") ELSE ToRead("fill", Head(client'.page))
    BY <1>8, ListPageStep DEF ListPage
  <2>2. CASE client'.page = <<>>
    BY <2>1, <2>2 DEF To, Same, Pairs, From
  <2>3. CASE client'.page # <<>>
    BY <1>3, <2>1, <2>3 DEF To, ToRead
  <2> QED
    BY <2>2, <2>3
<1>9. CASE ListPageEnd
  BY <1>1, <1>9, ListPageEndStep DEF To, ListPageEnd
<1>10. CASE FillDocument
  BY <1>1, <1>10, FillDocumentStep DEF To, ToRead, FillDocument
<1>11. CASE ListLast
  BY <1>11, ListLastStep DEF To, ListLast, SamePage, Same, PairsOfLast, Pairs, From
<1>12. CASE ListLastAgain
  BY <1>1, <1>12, ListLastAgainStep DEF To, ToRead, ListLastAgain
<1>13. CASE LinkLast
  BY <1>3, <1>13, LinkLastStep DEF To, LinkLast
<1>14. CASE Previous
  BY <1>3, <1>14, PreviousStep DEF To, ToRead, Previous
<1>15. CASE ListPrevious
  BY <1>3, <1>15, ListPreviousStep DEF To, ToRead, ListPrevious
<1>16. CASE LinkPrevious
  BY <1>3, <1>16, LinkPreviousStep DEF To, LinkPrevious
<1>17. CASE NextPage
  BY <1>3, <1>17, NextPageStep DEF To, ToRead, NextPage
<1>18. CASE ListNext
  BY <1>3, <1>18, ListNextStep DEF To, ToRead, ListNext
<1>19. CASE LinkNext
  BY <1>3, <1>19, LinkNextStep DEF To, LinkNext
<1> QED
  BY <1>2, <1>4, <1>5, <1>6, <1>7, <1>8, <1>9, <1>10, <1>11, <1>12, <1>13, <1>14, <1>15, <1>16, <1>17,
     <1>18, <1>19, NextSplits DEF Asking

(* No document is missing, and no list turns out empty, in a request       *)
(* during which nothing is written (query.cc:286-288, 161-163).            *)
THEOREM ListingsAnswer == Spec => []ListingAnswers
<1>1. Init => TypeOK /\ StageOK /\ AnswersOK
  <2>1. Init => client.keys = "unread" /\ client.stage = "idle" /\ aborted = FALSE
    BY DEF Init
  <2> QED
    BY <2>1, TypesInit DEF AnswersOK
<1>2. TypeOK /\ StageOK /\ AnswersOK /\ [Next]_vars => (TypeOK /\ StageOK /\ AnswersOK)'
  <2>1. ASSUME TypeOK, StageOK, AnswersOK, UNCHANGED vars
        PROVE  (TypeOK /\ StageOK /\ AnswersOK)'
    BY <2>1 DEF vars, TypeOK, StageOK, AnswersOK, Pairs, From
  <2> QED
    BY <2>1, TypesNext, AnswersStay
<1>3. TypeOK /\ StageOK /\ AnswersOK => ListingAnswers
  BY DEF AnswersOK, ListingAnswers
<1> QED
  BY <1>1, <1>2, <1>3, PTL DEF Spec

-----------------------------------------------------------------------------
(* Seventh part: the ordered keys, of the items and left over.          *)

LEMMA KeysInit ==
  ASSUME Init
  PROVE  KeysOK
<1>1. writer.step = "idle"
  BY DEF Init, NoWriter
<1>2. \A d \in Docs, v \in Values : <<v, d>> \in ordered <=> meta[d] = v
  BY DEF Init
<1> QED
  BY <1>1, <1>2 DEF KeysOK, Kept

LEMMA KeysStay ==
  ASSUME TypeOK, KeysOK, Writing
  PROVE  KeysOK'
<1> DEFINE There(d, v) == Kept(d, v) => <<v, d>> \in ordered
           Only(d, v)  == ~walk.torn => (<<v, d>> \in ordered => Kept(d, v))
           Writes      ==
             /\ writer.step = "ordered" =>
                  meta[writer.doc] = Head(writer.todo) /\ <<Head(writer.todo), writer.doc>> \notin ordered
             /\ writer.step = "erase" => meta[writer.doc] = NoMeta
<1>1. (\A d \in Docs, v \in Values : There(d, v) /\ Only(d, v)) /\ Writes
  BY DEF KeysOK
<1> SUFFICES (\A d \in Docs, v \in Values : There(d, v)' /\ Only(d, v)') /\ Writes'
  BY DEF KeysOK
<1>2. meta \in [Docs -> Values \cup {NoMeta}] /\ writer \in Writers /\ NoMeta \notin Values
  BY Sorts DEF TypeOK, NoMeta
<1>3. ASSUME writer.step \in {"meta", "ordered"}
      PROVE  /\ writer \in [step : {"meta", "ordered"}, doc : Docs, todo : Seq(Values) \ {<<>>}]
             /\ Head(writer.todo) \in Values /\ writer.doc \in Docs
  <2>1. writer \in [step : {"meta", "ordered"}, doc : Docs, todo : Seq(Values) \ {<<>>}]
    BY <1>2, <1>3 DEF Writers, NoWriter
  <2> QED
    BY <2>1, Ends
<1>0. ~walk'.torn => ~walk.torn
  BY WritingTypes
<1>4. ASSUME NEW d \in Docs, Create(d)
      PROVE  (\A c \in Docs, v \in Values : There(c, v)' /\ Only(c, v)') /\ Writes'
  <2>1. meta' = meta /\ ordered' = ordered /\ writer.step = "idle" /\ writer'.step = "meta"
    BY <1>4 DEF Create, NoWriter
  <2>2. ASSUME NEW c \in Docs, NEW v \in Values
        PROVE  There(c, v)' /\ Only(c, v)'
    BY <1>0, <1>1, <2>1 DEF Kept
  <2> QED
    BY <2>1, <2>2
<1>5. ASSUME NEW d \in Docs, EraseMeta(d)
      PROVE  (\A c \in Docs, v \in Values : There(c, v)' /\ Only(c, v)') /\ Writes'
  <2>1. /\ writer.step = "idle" /\ ordered' = ordered /\ meta' = [meta EXCEPT ![d] = NoMeta]
        /\ writer' = [step |-> "erase", doc |-> d, todo |-> <<meta[d]>>] /\ meta[d] \in Values
    BY <1>2, <1>5 DEF EraseMeta, NoWriter, Described
  <2>2. ASSUME NEW c \in Docs, NEW v \in Values
        PROVE  There(c, v)' /\ Only(c, v)'
    <3>1. There(c, v) /\ Only(c, v)
      BY <1>1
    <3>2. <<meta[d]>> = <<v>> <=> meta[d] = v
      OBVIOUS
    <3> QED
      BY <1>0, <1>2, <2>1, <3>1, <3>2 DEF Kept
  <2> QED
    BY <1>2, <2>1, <2>2
<1>6. CASE SetMeta
  <2> DEFINE h == Head(writer.todo)
             e == <<h, writer.doc>>
             x == \/ walk.torn \/ meta[e[2]] \notin {NoMeta, e[1]}
                  \/ client.stage # "idle" /\ e \in ordered
  <2>1. /\ writer.step = "meta" /\ ordered' = ordered \ {<<h, writer.doc>>}
        /\ meta' = [meta EXCEPT ![writer.doc] = h] /\ writer' = [writer EXCEPT !.step = "ordered"]
        /\ walk' = [walk EXCEPT !.quiet = FALSE, !.torn = x]
    BY <1>6 DEF SetMeta
  <2>2. /\ h \in Values /\ writer.doc \in Docs
        /\ writer'.step = "ordered" /\ writer'.doc = writer.doc /\ writer'.todo = writer.todo
    BY <1>3, <2>1
  <2>3. meta'[writer.doc] = h
    BY <1>2, <2>1, <2>2
  <2>4. walk'.torn = x
    <3> HIDE DEF x
    <3> QED
      BY <2>1 DEF TypeOK
  <2>5. ~walk'.torn => meta[writer.doc] \in {NoMeta, h}
    BY <2>4
  <2>6. ASSUME NEW c \in Docs, NEW v \in Values
        PROVE  There(c, v)' /\ Only(c, v)'
    <3>1. There(c, v) /\ Only(c, v)
      BY <1>1
    <3> HIDE DEF h, x
    <3>2. CASE c = writer.doc
      BY <1>0, <1>2, <2>1, <2>2, <2>5, <3>1, <3>2 DEF Kept
    <3>3. CASE c # writer.doc
      BY <1>0, <1>2, <2>1, <2>2, <3>1, <3>3 DEF Kept
    <3> QED
      BY <3>2, <3>3
  <2> QED
    BY <2>1, <2>2, <2>3, <2>6
<1>7. CASE SetOrdered
  <2> DEFINE h == Head(writer.todo)
             t == writer.todo
  <2>1. /\ writer.step = "ordered" /\ ordered' = ordered \cup {<<h, writer.doc>>} /\ meta' = meta
        /\ writer' = IF Len(t) = 1 THEN NoWriter ELSE [writer EXCEPT !.step = "meta", !.todo = Tail(@)]
    BY <1>7 DEF SetOrdered
  <2>2. h \in Values /\ writer.doc \in Docs /\ meta[writer.doc] = h
    BY <1>1, <1>3, <2>1
  <2>3. writer'.step # "ordered" /\ writer'.step # "erase"
    BY <1>3, <2>1 DEF NoWriter
  <2>4. ASSUME NEW c \in Docs, NEW v \in Values
        PROVE  There(c, v)' /\ Only(c, v)'
    <3>1. There(c, v) /\ Only(c, v)
      BY <1>1
    <3> HIDE DEF h
    <3>2. CASE c = writer.doc
      BY <1>0, <2>1, <2>2, <2>3, <3>1, <3>2 DEF Kept
    <3>3. CASE c # writer.doc
      BY <1>0, <2>1, <2>2, <2>3, <3>1, <3>3 DEF Kept
    <3> QED
      BY <3>2, <3>3
  <2> QED
    BY <2>3, <2>4
<1>8. CASE EraseOrdered
  <2>1. /\ writer.step = "erase" /\ ordered' = ordered \ (ToSet(writer.todo) \X {writer.doc})
        /\ meta' = meta /\ writer' = NoWriter
    BY <1>8 DEF EraseOrdered
  <2>2. writer \in [step : {"erase"}, doc : Docs, todo : {<<v>> : v \in Values}]
    BY <1>2, <2>1 DEF Writers, NoWriter
  <2>3. PICK w \in Values : writer.todo = <<w>>
    BY <2>2
  <2>4. ToSet(writer.todo) = {w}
    BY <2>3 DEF ToSet
  <2>5. ordered' = ordered \ {<<w, writer.doc>>} /\ writer.doc \in Docs /\ meta[writer.doc] = NoMeta
    BY <1>1, <2>1, <2>2, <2>4
  <2>6. ASSUME NEW c \in Docs, NEW v \in Values
        PROVE  There(c, v)' /\ Only(c, v)'
    <3>1. There(c, v) /\ Only(c, v)
      BY <1>1
    <3>2. <<w>> = <<v>> <=> w = v
      OBVIOUS
    <3> QED
      BY <1>0, <1>2, <2>1, <2>3, <2>5, <3>1, <3>2 DEF Kept, NoWriter
  <2> QED
    BY <2>1, <2>6 DEF NoWriter
<1> QED
  BY <1>4, <1>5, <1>6, <1>7, <1>8 DEF Writing

(* A request whose first page is asked for while no key is left over.      *)
LEMMA KeysAsked ==
  ASSUME TypeOK, KeysOK, FirstPage
  PROVE  KeysOK'
<1>1. UNCHANGED <<meta, ordered, writer>>
  BY DEF FirstPage
<1>2. walk'.torn = (ordered \ ItemKeys # {})
  BY DEF FirstPage, TypeOK
<1>3. ASSUME ~walk'.torn, NEW d \in Docs, NEW v \in Values, <<v, d>> \in ordered
      PROVE  Kept(d, v)
  <2>1. <<v, d>> \in ItemKeys
    BY <1>2, <1>3
  <2>2. meta[d] = v
    BY <2>1 DEF ItemKeys
  <2> QED
    BY <1>3, <2>2 DEF KeysOK, Kept
<1> QED
  BY <1>1, <1>3 DEF KeysOK, Kept

(* Only a new walk is whole again.                                         *)
LEMMA UntornAsking ==
  ASSUME TypeOK, StageOK, Asking, ~FirstPage, ~walk'.torn
  PROVE  ~walk.torn
<1>1. CASE ListPage
  BY <1>1, ListPageStep
<1>2. CASE \E link \in {"last", "previous", "next"} : Follow(link)
  BY <1>2 DEF Follow, TypeOK
<1>3. CASE walk' = walk
  BY <1>3
<1> QED
  BY <1>1, <1>2, <1>3
  DEF Asking, ReadKeys, ReadMeta, ListPageEnd, FillDocument, ListLast, ListLastAgain, LinkLast,
      Previous, ListPrevious, LinkPrevious, NextPage, ListNext, LinkNext

LEMMA KeysNext ==
  ASSUME TypeOK, StageOK, KeysOK, [Next]_vars
  PROVE  KeysOK'
<1>1. CASE Writing
  BY <1>1, KeysStay
<1>2. CASE FirstPage
  BY <1>2, KeysAsked
<1>3. CASE (Asking /\ ~FirstPage) \/ UNCHANGED vars
  <2>1. UNCHANGED <<meta, ordered, writer>>
    BY <1>3, AskingTypes DEF Same, vars
  <2>2. ~walk'.torn => ~walk.torn
    BY <1>3, UntornAsking DEF vars
  <2> QED
    BY <2>1, <2>2 DEF KeysOK, Kept
<1> QED
  BY <1>1, <1>2, <1>3, NextSplits

LEMMA LeftInit ==
  ASSUME Init
  PROVE  LeftOK
<1>1. writer.step = "idle" /\ meta \in [Docs -> Values \cup {NoMeta}]
  BY DEF Init, NoWriter
<1>2. \A d \in Docs, v \in Values : <<v, d>> \in ordered <=> meta[d] = v
  BY DEF Init
<1> QED
  BY <1>1, <1>2 DEF LeftOK, Creating

(* A value of a form is superseded or the one that stays.                  *)
LEMMA GivenOrLast ==
  ASSUME NEW f \in Forms, NEW i \in 1..Len(f)
  PROVE  f[i] \in Superseded \/ f[i] = f[Len(f)]
<1>1. f \in Seq(Values) /\ f # <<>>
  BY QueryAssumptions
<1>2. Last(f) = f[Len(f)] /\ f[i] \in ToSet(f) /\ f[i] \in Values
  BY <1>1, Ends DEF ToSet
<1> QED
  BY <1>2 DEF Superseded

LEMMA LeftStays ==
  ASSUME TypeOK, LeftOK, Writing
  PROVE  LeftOK'
<1> DEFINE Has(d)  == meta[d] # NoMeta /\ ~Creating(d) => <<meta[d], d>> \in ordered
           Left(d, v) == <<v, d>> \in ordered =>
                           \/ v \in Superseded \/ meta[d] = v \/ Creating(d)
                           \/ writer.step = "erase" /\ writer.doc = d /\ writer.todo = <<v>>
           Doing(f, n) == /\ Gave(f, n, writer.todo)
                          /\ \A v \in Values : <<v, writer.doc>> \in ordered =>
                               v \in Superseded \/ \E i \in 1..n : v = f[i]
           Todo == /\ writer.step \in {"meta", "ordered"} => \E f \in Forms, n \in Nat : Doing(f, n)
                   /\ writer.step = "ordered" => meta[writer.doc] = Head(writer.todo)
                   /\ writer.step = "erase" => meta[writer.doc] = NoMeta
<1>1. (\A d \in Docs : Has(d)) /\ (\A d \in Docs, v \in Values : Left(d, v)) /\ Todo
  BY DEF LeftOK
<1> SUFFICES (\A d \in Docs : Has(d)') /\ (\A d \in Docs, v \in Values : Left(d, v)') /\ Todo'
  BY DEF LeftOK
<1>2. meta \in [Docs -> Values \cup {NoMeta}] /\ writer \in Writers /\ NoMeta \notin Values
  BY Sorts DEF TypeOK, NoMeta
<1>3. ASSUME writer.step \in {"meta", "ordered"}
      PROVE  /\ writer \in [step : {"meta", "ordered"}, doc : Docs, todo : Seq(Values) \ {<<>>}]
             /\ Head(writer.todo) \in Values /\ writer.doc \in Docs
  <2>1. writer \in [step : {"meta", "ordered"}, doc : Docs, todo : Seq(Values) \ {<<>>}]
    BY <1>2, <1>3 DEF Writers, NoWriter
  <2> QED
    BY <2>1, Ends
<1>4. ASSUME NEW d \in Docs, Create(d)
      PROVE  (\A c \in Docs : Has(c)') /\ (\A c \in Docs, v \in Values : Left(c, v)') /\ Todo'
  <2>1. PICK f \in Forms : writer' = [step |-> "meta", doc |-> d, todo |-> f]
    BY <1>4 DEF Create
  <2>2. meta' = meta /\ ordered' = ordered /\ writer.step = "idle" /\ meta[d] = NoMeta
    BY <1>4 DEF Create, NoWriter
  <2>3. f \in Seq(Values) /\ 0 + Len(f) = Len(f) /\ \A i \in 1..Len(f) : f[i] = f[0 + i]
    BY QueryAssumptions
  <2>4. Gave(f, 0, writer'.todo)
    BY <2>1, <2>3 DEF Gave
  <2>5. \A v \in Values : <<v, d>> \in ordered => v \in Superseded
    BY <1>1, <1>2, <2>2 DEF Creating
  <2>6. Doing(f, 0)'
    BY <2>1, <2>2, <2>4, <2>5
  <2>7. Todo'
    BY <2>1, <2>6
  <2>8. \A c \in Docs : Creating(c)' <=> c = d
    BY <2>1 DEF Creating
  <2>9. \A c \in Docs : ~Creating(c)
    BY <2>2 DEF Creating
  <2> QED
    BY <1>1, <2>2, <2>7, <2>8, <2>9
<1>5. ASSUME NEW d \in Docs, EraseMeta(d)
      PROVE  (\A c \in Docs : Has(c)') /\ (\A c \in Docs, v \in Values : Left(c, v)') /\ Todo'
  <2>1. /\ writer.step = "idle" /\ ordered' = ordered /\ meta' = [meta EXCEPT ![d] = NoMeta]
        /\ writer' = [step |-> "erase", doc |-> d, todo |-> <<meta[d]>>] /\ meta[d] \in Values
    BY <1>2, <1>5 DEF EraseMeta, NoWriter, Described
  <2>2. \A c \in Docs : ~Creating(c) /\ ~Creating(c)'
    BY <2>1 DEF Creating
  <2>3. /\ meta'[d] = NoMeta
        /\ \A c \in Docs : c # d => meta'[c] = meta[c]
    BY <1>2, <2>1
  <2>4. ASSUME NEW c \in Docs, NEW v \in Values
        PROVE  Left(c, v)'
    <3>1. Left(c, v)
      BY <1>1
    <3>2. <<meta[d]>> = <<v>> <=> meta[d] = v
      OBVIOUS
    <3> QED
      BY <2>1, <2>2, <2>3, <3>1, <3>2
  <2>5. \A c \in Docs : Has(c)'
    BY <1>1, <2>1, <2>2, <2>3
  <2> QED
    BY <2>1, <2>3, <2>4, <2>5
<1>6. CASE SetMeta
  <2> DEFINE h == Head(writer.todo)
  <2>1. /\ writer.step = "meta" /\ ordered' = ordered \ {<<h, writer.doc>>}
        /\ meta' = [meta EXCEPT ![writer.doc] = h] /\ writer' = [writer EXCEPT !.step = "ordered"]
    BY <1>6 DEF SetMeta
  <2>2. /\ h \in Values /\ writer.doc \in Docs
        /\ writer'.step = "ordered" /\ writer'.doc = writer.doc /\ writer'.todo = writer.todo
    BY <1>3, <2>1
  <2>3. /\ meta'[writer.doc] = h
        /\ \A c \in Docs : c # writer.doc => meta'[c] = meta[c]
    BY <1>2, <2>1, <2>2
  <2>4. \A c \in Docs : /\ Creating(c) <=> c = writer.doc
                        /\ Creating(c)' <=> c = writer.doc
    BY <2>1, <2>2 DEF Creating
  <2>5. PICK f \in Forms, n \in Nat : Doing(f, n)
    BY <1>1, <2>1
  <2>6. Doing(f, n)'
    BY <2>1, <2>2, <2>5
  <2>7. Todo'
    BY <2>2, <2>3, <2>6
  <2> HIDE DEF h, Doing
  <2>8. ASSUME NEW c \in Docs
        PROVE  Has(c)'
    BY <1>1, <2>1, <2>3, <2>4
  <2>9. ASSUME NEW c \in Docs, NEW v \in Values
        PROVE  Left(c, v)'
    <3>1. Left(c, v)
      BY <1>1
    <3> QED
      BY <2>1, <2>3, <2>4, <3>1
  <2> QED
    BY <2>7, <2>8, <2>9
<1>7. CASE SetOrdered
  <2> DEFINE h == Head(writer.todo)
             t == writer.todo
  <2>1. /\ writer.step = "ordered" /\ ordered' = ordered \cup {<<h, writer.doc>>} /\ meta' = meta
        /\ writer' = IF Len(t) = 1 THEN NoWriter ELSE [writer EXCEPT !.step = "meta", !.todo = Tail(@)]
    BY <1>7 DEF SetOrdered
  <2>2. h \in Values /\ writer.doc \in Docs /\ t \in Seq(Values) /\ t # <<>> /\ meta[writer.doc] = h
    BY <1>1, <1>3, <2>1
  <2>3. PICK f \in Forms, n \in Nat : Doing(f, n)
    BY <1>1, <2>1
  <2>4. /\ Len(t) \in Nat \ {0} /\ h = t[1] /\ n + Len(t) = Len(f)
        /\ \A i \in 1..Len(t) : t[i] = f[n + i]
    BY <2>2, <2>3, Ends DEF Gave
  <2>5. h = f[n + 1] /\ n + 1 \in 1..Len(f)
    BY <2>4
  <2>6. \A v \in Values : <<v, writer.doc>> \in ordered' =>
                            v \in Superseded \/ \E i \in 1..(n + 1) : v = f[i]
    <3> SUFFICES ASSUME NEW v \in Values, <<v, writer.doc>> \in ordered', v \notin Superseded
                 PROVE  \E i \in 1..(n + 1) : v = f[i]
      OBVIOUS
    <3>1. CASE <<v, writer.doc>> \in ordered
      <4>1. PICK i \in 1..n : v = f[i]
        BY <2>3, <3>1
      <4>2. i \in 1..(n + 1)
        OBVIOUS
      <4> QED
        BY <4>1, <4>2
    <3>2. CASE v = h
      BY <2>5, <3>2
    <3> HIDE DEF h, t
    <3> QED
      BY <2>1, <3>1, <3>2
  <2> HIDE DEF Doing
  <2>7. CASE Len(t) = 1
    <3>1. writer'.step = "idle"
      BY <2>1, <2>7 DEF NoWriter
    <3>2. h = f[Len(f)] /\ n + 1 = Len(f)
      BY <2>4, <2>5, <2>7
    <3>3. \A v \in Values : <<v, writer.doc>> \in ordered' => v \in Superseded \/ v = h
      BY <2>6, <3>2, GivenOrLast
    <3>4. \A c \in Docs : ~Creating(c)' /\ (Creating(c) <=> c = writer.doc)
      BY <2>1, <3>1 DEF Creating
    <3> HIDE DEF h, t
    <3>5. ASSUME NEW c \in Docs
          PROVE  Has(c)'
      <4>1. CASE c = writer.doc
        BY <2>1, <2>2, <4>1
      <4>2. CASE c # writer.doc
        BY <1>1, <2>1, <3>4, <4>2
      <4> QED
        BY <4>1, <4>2
    <3>6. ASSUME NEW c \in Docs, NEW v \in Values
          PROVE  Left(c, v)'
      <4>1. CASE c = writer.doc
        BY <2>1, <2>2, <3>3, <4>1
      <4>2. CASE c # writer.doc
        <5>1. Left(c, v)
          BY <1>1
        <5>2. <<v, c>> \in ordered' => <<v, c>> \in ordered
          BY <2>1, <4>2
        <5> QED
          BY <2>1, <3>4, <4>2, <5>1, <5>2
      <4> QED
        BY <4>1, <4>2
    <3> QED
      BY <3>1, <3>5, <3>6
  <2>8. CASE Len(t) # 1
    <3>1. writer'.step = "meta" /\ writer'.doc = writer.doc /\ writer'.todo = Tail(t)
      BY <1>3, <2>1, <2>8
    <3>2. Len(Tail(t)) = Len(t) - 1 /\ \A i \in 1..(Len(t) - 1) : Tail(t)[i] = t[i + 1]
      BY <2>2, <2>4, <2>8
    <3>3. Gave(f, n + 1, writer'.todo)
      <4> HIDE DEF t
      <4>1. (n + 1) + (Len(t) - 1) = Len(f)
        <5>1. \A k \in Nat : (n + 1) + (k - 1) = n + k
          OBVIOUS
        <5> QED
          BY <2>4, <5>1
      <4>2. ASSUME NEW i \in 1..(Len(t) - 1)
            PROVE  t[i + 1] = f[(n + 1) + i]
        <5>1. i + 1 \in 1..Len(t) /\ n + (i + 1) = (n + 1) + i
          BY <2>4
        <5> QED
          BY <2>4, <5>1
      <4> QED
        BY <3>1, <3>2, <4>1, <4>2 DEF Gave
    <3>4. n + 1 \in Nat /\ Doing(f, n + 1)'
      BY <2>6, <3>1, <3>3 DEF Doing
    <3>5. Todo'
      BY <3>1, <3>4
    <3>6. \A c \in Docs : /\ Creating(c) <=> c = writer.doc
                          /\ Creating(c)' <=> c = writer.doc
      BY <2>1, <3>1 DEF Creating
    <3> HIDE DEF h, t
    <3>7. ASSUME NEW c \in Docs
          PROVE  Has(c)'
      BY <1>1, <2>1, <3>6
    <3>8. ASSUME NEW c \in Docs, NEW v \in Values
          PROVE  Left(c, v)'
      <4>1. CASE c = writer.doc
        BY <3>6, <4>1
      <4>2. CASE c # writer.doc
        <5>1. Left(c, v)
          BY <1>1
        <5>2. <<v, c>> \in ordered' => <<v, c>> \in ordered
          BY <2>1, <4>2
        <5> QED
          BY <2>1, <3>6, <4>2, <5>1, <5>2
      <4> QED
        BY <4>1, <4>2
    <3> QED
      BY <3>5, <3>7, <3>8
  <2> QED
    BY <2>7, <2>8
<1>8. CASE EraseOrdered
  <2>1. /\ writer.step = "erase" /\ ordered' = ordered \ (ToSet(writer.todo) \X {writer.doc})
        /\ meta' = meta /\ writer' = NoWriter
    BY <1>8 DEF EraseOrdered
  <2>2. writer \in [step : {"erase"}, doc : Docs, todo : {<<v>> : v \in Values}]
    BY <1>2, <2>1 DEF Writers, NoWriter
  <2>3. PICK w \in Values : writer.todo = <<w>>
    BY <2>2
  <2>4. ToSet(writer.todo) = {w}
    BY <2>3 DEF ToSet
  <2>5. ordered' = ordered \ {<<w, writer.doc>>} /\ writer.doc \in Docs /\ meta[writer.doc] = NoMeta
    BY <1>1, <2>1, <2>2, <2>4
  <2>6. \A c \in Docs : ~Creating(c) /\ ~Creating(c)'
    BY <2>1 DEF Creating, NoWriter
  <2>7. ASSUME NEW c \in Docs
        PROVE  Has(c)'
    BY <1>1, <2>1, <2>5, <2>6
  <2>8. ASSUME NEW c \in Docs, NEW v \in Values
        PROVE  Left(c, v)'
    <3>1. Left(c, v)
      BY <1>1
    <3>2. <<w>> = <<v>> <=> w = v
      OBVIOUS
    <3> QED
      BY <2>1, <2>3, <2>5, <2>6, <3>1, <3>2
  <2> QED
    BY <2>1, <2>7, <2>8 DEF NoWriter
<1> QED
  BY <1>4, <1>5, <1>6, <1>7, <1>8 DEF Writing

LEMMA LeftNext ==
  ASSUME TypeOK, StageOK, LeftOK, [Next]_vars
  PROVE  LeftOK'
<1>1. CASE Writing
  BY <1>1, LeftStays
<1>2. CASE Asking \/ UNCHANGED vars
  <2>1. UNCHANGED <<meta, ordered, writer>>
    BY <1>2, AskingTypes DEF Same, vars
  <2> QED
    BY <2>1 DEF LeftOK, Creating
<1> QED
  BY <1>1, <1>2, NextSplits

(* When nothing is being written, every item has its ordered key, and a    *)
(* key of another value is of one that a form gave before another,         *)
(* whatever the forms give (document.cc:100-130).                          *)
THEOREM OrderedKeysAgree == Spec => []OrderedAgrees
<1>1. Init => TypeOK /\ StageOK /\ LeftOK
  BY TypesInit, LeftInit
<1>2. TypeOK /\ StageOK /\ LeftOK /\ [Next]_vars => (TypeOK /\ StageOK /\ LeftOK)'
  <2>1. ASSUME TypeOK, StageOK, UNCHANGED vars
        PROVE  (TypeOK /\ StageOK)'
    BY <2>1 DEF vars, TypeOK, StageOK
  <2> QED
    BY <2>1, TypesNext, LeftNext
<1>3. ASSUME TypeOK, LeftOK, writer = NoWriter
      PROVE  /\ ItemKeys \subseteq ordered
             /\ \A e \in ordered \ ItemKeys : e[1] \in Superseded
  <2>1. /\ writer.step = "idle" /\ ordered \subseteq Values \X Docs
        /\ meta \in [Docs -> Values \cup {NoMeta}] /\ NoMeta \notin Values
    BY <1>3, Sorts DEF TypeOK, NoWriter, NoMeta
  <2>2. /\ \A d \in Docs : meta[d] # NoMeta => <<meta[d], d>> \in ordered
        /\ \A d \in Docs, v \in Values : <<v, d>> \in ordered => v \in Superseded \/ meta[d] = v
    BY <1>3, <2>1 DEF LeftOK, Creating
  <2>3. ItemKeys \subseteq ordered
    BY <2>2 DEF ItemKeys, Described
  <2>4. ASSUME NEW e \in ordered, e \notin ItemKeys
        PROVE  e[1] \in Superseded
    <3>1. e[1] \in Values /\ e[2] \in Docs /\ e = <<e[1], e[2]>>
      BY <2>1
    <3>2. meta[e[2]] = e[1] => e \in ItemKeys
      BY <2>1, <3>1 DEF ItemKeys, Described
    <3>3. <<e[1], e[2]>> \in ordered
      BY <3>1
    <3> QED
      BY <2>2, <2>4, <3>1, <3>2, <3>3
  <2> QED
    BY <2>3, <2>4
<1>4. TypeOK /\ LeftOK => OrderedAgrees
  BY <1>3 DEF OrderedAgrees
<1> QED
  BY <1>1, <1>2, <1>4, PTL DEF Spec

-----------------------------------------------------------------------------
(* Eighth part: what is listed while no key is removed.                    *)

LEMMA KeysOfListed ==
  ASSUME TypeOK, KeysOK
  PROVE  /\ \A e \in Listed : e \in Values \X Docs /\ e \in Nat \X Nat /\ e[2] \in Docs
         /\ writer.step # "erase" /\ ~walk.torn => \A e \in Listed : Key(e[2]) = e
         /\ \A d \in Docs : Key(d) \in Listed => meta[d] \in Values /\ meta[d] # NoMeta
<1>1. \A e \in Listed : e \in ordered /\ e \in Values \X Docs
  BY DEF Listed, From, TypeOK
<1>2. \A e \in Listed : e[1] \in Values /\ e[2] \in Docs /\ e = <<e[1], e[2]>> /\ e \in Nat \X Nat
  BY <1>1, CursorsOfKeys, Sorts
<1>3. ASSUME writer.step # "erase", ~walk.torn, NEW e \in Listed
      PROVE  Key(e[2]) = e
  <2>1. <<e[1], e[2]>> \in ordered
    BY <1>1, <1>2
  <2>2. meta[e[2]] = e[1]
    BY <1>2, <1>3, <2>1 DEF KeysOK, Kept
  <2> QED
    BY <1>2, <2>2 DEF Key
<1>4. ASSUME NEW d \in Docs, Key(d) \in Listed
      PROVE  meta[d] \in Values /\ meta[d] # NoMeta
  <2>1. Key(d)[1] = meta[d] /\ Key(d)[1] \in Values
    BY <1>2, <1>4 DEF Key
  <2> QED
    BY <2>1, Sorts DEF NoMeta
<1> QED
  BY <1>1, <1>2, <1>3, <1>4

LEMMA ListedGrows ==
  ASSUME ordered \subseteq ordered'
  PROVE  Listed \subseteq Listed'
BY DEF Listed, From

(* Nothing that a request has listed is removed or written.                *)
LEMMA UntornWriting ==
  ASSUME TypeOK, KeysOK, Writing, ~walk'.torn, client.stage # "idle"
  PROVE  /\ ~walk.torn /\ Listed \subseteq Listed'
         /\ writer'.step = "erase" => writer.step = "erase"
         /\ \A d \in Docs : Key(d) \in Listed => Key(d)' = Key(d)
<1>1. /\ walk \in [on : BOOLEAN, stay : SUBSET Docs, seen : SUBSET Docs, torn : BOOLEAN, quiet : BOOLEAN]
      /\ meta \in [Docs -> Values \cup {NoMeta}]
  BY DEF TypeOK
<1>2. CASE \E d \in Docs : Create(d)
  <2>1. UNCHANGED <<meta, ordered, walk>> /\ writer'.step = "meta"
    BY <1>2 DEF Create
  <2> QED
    BY <2>1, ListedGrows DEF Key
<1>3. ASSUME NEW d \in Docs, EraseMeta(d)
      PROVE  FALSE
  BY <1>1, <1>3 DEF EraseMeta
<1>4. CASE SetMeta
  <2> DEFINE e == <<Head(writer.todo), writer.doc>>
             x == \/ walk.torn \/ meta[e[2]] \notin {NoMeta, e[1]}
                  \/ client.stage # "idle" /\ e \in ordered
  <2>1. /\ ordered' = ordered \ {e} /\ meta' = [meta EXCEPT ![writer.doc] = Head(writer.todo)]
        /\ writer.step = "meta" /\ writer' = [writer EXCEPT !.step = "ordered"]
        /\ walk' = [walk EXCEPT !.quiet = FALSE, !.torn = x]
    BY <1>4 DEF SetMeta
  <2>2. x = walk'.torn
    <3> HIDE DEF x
    <3> QED
      BY <1>1, <2>1
  <2>3. e \notin ordered /\ ordered' = ordered /\ ~walk.torn
    BY <2>1, <2>2
  <2>4. writer'.step = "ordered"
    BY <2>1 DEF TypeOK, Writers, NoWriter
  <2>5. ASSUME NEW d \in Docs, Key(d) \in Listed
        PROVE  Key(d)' = Key(d)
    <3>1. Key(d) \in ordered /\ meta[d] # NoMeta
      BY <2>5, KeysOfListed DEF Listed, From
    <3>2. CASE d = writer.doc
      <4>1. meta[d] = Head(writer.todo)
        BY <2>2, <3>1, <3>2
      <4> QED
        BY <2>3, <3>1, <3>2, <4>1 DEF Key
    <3>3. CASE d # writer.doc
      BY <1>1, <2>1, <3>3 DEF Key
    <3> QED
      BY <3>2, <3>3
  <2> QED
    BY <2>3, <2>4, <2>5, ListedGrows
<1>5. CASE SetOrdered
  <2>1. /\ ordered \subseteq ordered' /\ meta' = meta /\ writer'.step # "erase"
        /\ ~walk.torn
    BY <1>1, <1>5 DEF SetOrdered, TypeOK, Writers, NoWriter
  <2> QED
    BY <2>1, ListedGrows DEF Key
<1>6. CASE EraseOrdered
  BY <1>1, <1>6 DEF EraseOrdered
<1> QED
  BY <1>2, <1>3, <1>4, <1>5, <1>6 DEF Writing

LEMMA ListedSame ==
  ASSUME Same
  PROVE  Listed' = Listed /\ \A d \in Docs : Key(d)' = Key(d)
BY DEF Same, Listed, From, Key

(* A request goes on with a page, or reads a document, that it has listed. *)
LEMMA GoesOnUntorn ==
  ASSUME TypeOK, KeysOK, Same, writer.step # "erase", ~walk.torn, ToSet(client'.page) \subseteq Listed,
         client'.keys = "unread",
         client'.stage \in Reading => \E e \in Listed : client'.doc = e[2]
  PROVE  UntornOK'
<1>1. Listed' = Listed /\ writer' = writer /\ \A d \in Docs : Key(d)' = Key(d)
  BY ListedSame DEF Same
<1>2. ASSUME client'.stage \in Reading
      PROVE  Key(client.doc)' \in Listed
  <2>1. PICK e \in Listed : client'.doc = e[2]
    BY <1>2
  <2>2. Key(e[2]) = e /\ e[2] \in Docs
    BY KeysOfListed
  <2>3. meta' = meta
    BY DEF Same
  <2> QED
    BY <2>1, <2>2, <2>3 DEF Key
<1> QED
  BY <1>1, <1>2 DEF UntornOK

LEMMA PageNowUntorn ==
  ASSUME TypeOK, ToSet(client.page) \subseteq Listed
  PROVE  /\ ToSet(PageNow) \subseteq Listed
         /\ PageNow # <<>> => Head(PageNow) \in Listed /\ Last(PageNow) \in Listed
<1>1. client.limit \in Nat /\ client.desc \in BOOLEAN
  BY DEF TypeOK, Clients
<1>2. ToSet(Pairs(client.cursor, client.limit, client.desc)) \subseteq Listed
  BY <1>1, Listing
<1>3. ToSet(PageNow) \subseteq Listed
  BY <1>2 DEF PageNow
<1>4. PageNow \in Seq(Values \X Docs)
  BY PageNowListed
<1> QED
  BY <1>3, <1>4, Ends

LEMMA UntornStays ==
  ASSUME TypeOK, StageOK, KeysOK, UntornOK, Next
  PROVE  UntornOK'
<1> SUFFICES ASSUME ~walk'.torn
             PROVE  UntornOK'
  BY DEF UntornOK
<1>1. CASE Writing
  <2>1. client' = client
    BY <1>1, WritingTypes
  <2>2. CASE client.stage = "idle"
    BY <2>1, <2>2, StagesDiffer DEF UntornOK
  <2>3. CASE client.stage # "idle"
    <3>1. /\ ~walk.torn /\ Listed \subseteq Listed'
          /\ writer'.step = "erase" => writer.step = "erase"
          /\ \A d \in Docs : Key(d) \in Listed => Key(d)' = Key(d)
      BY <1>1, <2>3, UntornWriting
    <3>2. client.stage \in Reading => client.doc \in Docs
      BY DEF StageOK
    <3>3. client.stage \in Reading => Key(client.doc)' = Key(client.doc)
      <4>1. client.stage \in Reading => (meta'[client.doc] = meta[client.doc])
        BY <3>1, <3>2 DEF UntornOK, Key
      <4> QED
        BY <2>1, <4>1 DEF Key
    <3> QED
      BY <2>1, <3>1, <3>3 DEF UntornOK
  <2> QED
    BY <2>2, <2>3
<1>2. ASSUME Asking, client.stage \notin {"idle", "list"}
      PROVE  /\ ~walk.torn /\ Same /\ walk' = walk
             /\ writer.step # "erase" /\ ToSet(client.page) \subseteq Listed
  <2>1. client.stage \in Serving
    BY <1>2 DEF TypeOK, Clients
  <2>2. walk' = walk
    BY <1>2 DEF Asking, FirstPage, Follow, ReadKeys, ReadMeta, ListPage, ListPageEnd, FillDocument, ListLast,
                ListLastAgain, LinkLast, Previous, ListPrevious, LinkPrevious, NextPage, ListNext, LinkNext
  <2> QED
    BY <1>2, <2>1, <2>2, AskingTypes DEF UntornOK
<1>3. client.limit \in Nat /\ client.desc \in BOOLEAN /\ (~client.desc) \in BOOLEAN /\ client.limit + 1 \in Nat
  <2>1. client.limit \in Nat /\ client.desc \in BOOLEAN
    BY DEF TypeOK, Clients
  <2> QED
    BY <2>1
<1>5. CASE FirstPage \/ \E link \in {"last", "previous", "next"} : Follow(link)
  <2>1. client'.stage = "list"
    BY <1>5, FirstPageStep, FollowStep
  <2> QED
    BY <2>1, StagesDiffer DEF UntornOK
<1>6. CASE ReadKeys \/ ReadMeta
  <2>1. /\ SamePage /\ client'.stage = client.stage /\ client'.doc = client.doc
        /\ client.stage \in Reading /\ client.doc \in Docs
    BY <1>6, ReadKeysStep, ReadMetaStep DEF StageOK
  <2>2. /\ ~walk.torn /\ Same /\ writer.step # "erase" /\ ToSet(client.page) \subseteq Listed
    BY <1>2, <1>6, <2>1, StagesDiffer DEF Asking
  <2>3. /\ Key(client.doc) \in Listed /\ client.keys \in {"unread", "some", "read"} /\ meta[client.doc] # NoMeta
    BY <2>1, <2>2, KeysOfListed DEF UntornOK
  <2>4. client'.keys \in {"some", "read"} /\ (client'.keys = "read" => client'.from = Key(client.doc))
    BY <1>6, <2>3, ReadKeysStep, ReadMetaStep
  <2>5. Key(client.doc)' = Key(client.doc) /\ Listed' = Listed /\ writer' = writer
    BY <2>1, <2>2, ListedSame DEF Same, Key
  <2> QED
    BY <2>1, <2>2, <2>3, <2>4, <2>5 DEF UntornOK, SamePage
<1>7. CASE ListPage
  <2> DEFINE page == Pairs(client.cursor, client.limit, client.desc)
  <2>1. /\ Same /\ client'.page = page
        /\ IF client'.page = <<>> THEN To("listEnd") ELSE ToRead("fill", Head(client'.page))
        /\ walk'.torn = (walk.torn \/ writer.step = "erase")
    BY <1>7, ListPageStep
  <2>2. page \in Seq(Values \X Docs) /\ ToSet(page) \subseteq Listed
    BY <1>3, Listing
  <2>3. page # <<>> => Head(page) \in Listed
    BY <2>2, Ends
  <2> HIDE DEF page
  <2>4. writer.step # "erase"
    BY <2>1
  <2> QED
    BY <2>1, <2>2, <2>3, <2>4, StagesDiffer, GoesOnUntorn DEF To, ToRead
<1>8. CASE ListPageEnd \/ ListLast \/ LinkLast \/ LinkPrevious
  <2>1. /\ SamePage /\ client'.stage \in {"last", "previous", "lastAgain", "next"} /\ client'.keys = "unread"
        /\ client.stage \in Serving
    BY <1>8, ListPageEndStep, ListLastStep, LinkLastStep, LinkPreviousStep, StagesDiffer DEF To
  <2> QED
    BY <1>2, <1>8, <2>1, StagesDiffer, GoesOnUntorn DEF Asking, SamePage
<1>9. CASE FillDocument
  <2>1. /\ SamePage /\ client.stage = "fill"
        /\ \/ To("last")
           \/ /\ client'.at \in 1..Len(client.page) /\ client'.at \in DOMAIN client.page
              /\ ToRead("fill", client.page[client'.at])
    BY <1>9, FillDocumentStep
  <2>2. ToSet(client.page) \subseteq Listed /\ writer.step # "erase" /\ ~walk.torn
    BY <1>2, <1>9, <2>1 DEF Asking
  <2>3. client'.at \in DOMAIN client.page => client.page[client'.at] \in Listed
    BY <2>2 DEF ToSet
  <2> QED
    BY <2>1, <2>2, <2>3, StagesDiffer, GoesOnUntorn DEF SamePage, To, ToRead
<1>10. CASE ListLastAgain
  <2>1. /\ SamePage /\ client.stage = "lastAgain"
        /\ IF aborted' THEN client' = client
           ELSE PairsOfLast # <<>> /\ ToRead("lastLink", Last(PairsOfLast))
    BY <1>10, ListLastAgainStep
  <2>2. ToSet(client.page) \subseteq Listed /\ writer.step # "erase" /\ ~walk.torn
    BY <1>2, <1>10, <2>1 DEF Asking
  <2>3. PairsOfLast \in Seq(Values \X Docs) /\ ToSet(PairsOfLast) \subseteq Listed
    BY <1>3, Listing DEF PairsOfLast
  <2>4. PairsOfLast # <<>> => Last(PairsOfLast) \in Listed
    BY <2>3, Ends
  <2>5. client.keys = "unread"
    BY <2>1, StagesDiffer DEF StageOK
  <2> QED
    BY <2>1, <2>2, <2>4, <2>5, StagesDiffer, GoesOnUntorn DEF SamePage, To, ToRead
<1>11. CASE Previous \/ NextPage
  <2>1. /\ Same /\ client'.page = PageNow /\ client.stage \in {"previous", "next"}
        /\ IF PageNow = <<>> THEN To("next") \/ To("idle")
           ELSE ToRead("previousFrom", Head(PageNow)) \/ ToRead("nextFrom", Last(PageNow))
    BY <1>11, PreviousStep, NextPageStep
  <2>2. ToSet(client.page) \subseteq Listed /\ writer.step # "erase" /\ ~walk.torn
    BY <1>2, <1>11, <2>1 DEF Asking
  <2>3. /\ ToSet(PageNow) \subseteq Listed
        /\ PageNow # <<>> => Head(PageNow) \in Listed /\ Last(PageNow) \in Listed
    BY <2>2, PageNowUntorn
  <2> QED
    BY <2>1, <2>2, <2>3, StagesDiffer, GoesOnUntorn DEF To, ToRead
<1>12. CASE ListPrevious
  <2> DEFINE pairs == Pairs(Encoded(client.from), client.limit + 1, ~client.desc)
  <2>1. /\ SamePage /\ client.stage = "previousFrom"
        /\ IF pairs = <<>> THEN To("next") ELSE ToRead("previousLink", Last(pairs))
    BY <1>12, ListPreviousStep
  <2>2. ToSet(client.page) \subseteq Listed /\ writer.step # "erase" /\ ~walk.torn
    BY <1>2, <1>12, <2>1 DEF Asking
  <2>3. pairs \in Seq(Values \X Docs) /\ ToSet(pairs) \subseteq Listed
    BY <1>3, Listing
  <2>4. pairs # <<>> => Last(pairs) \in Listed
    BY <2>3, Ends
  <2> HIDE DEF pairs
  <2> QED
    BY <2>1, <2>2, <2>4, StagesDiffer, GoesOnUntorn DEF SamePage, To, ToRead
<1>13. CASE ListNext
  <2> DEFINE pairs == Pairs(Encoded(client.from), 2, client.desc)
  <2>1. /\ SamePage /\ client.stage = "nextFrom"
        /\ IF Len(pairs) <= 1 THEN To("idle") ELSE pairs # <<>> /\ ToRead("nextLink", Last(pairs))
    BY <1>13, ListNextStep
  <2>2. ToSet(client.page) \subseteq Listed /\ writer.step # "erase" /\ ~walk.torn
    BY <1>2, <1>13, <2>1 DEF Asking
  <2>3. pairs \in Seq(Values \X Docs) /\ ToSet(pairs) \subseteq Listed
    BY <1>3, Listing
  <2>4. pairs # <<>> => Last(pairs) \in Listed
    BY <2>3, Ends
  <2> HIDE DEF pairs
  <2> QED
    BY <2>1, <2>2, <2>4, StagesDiffer, GoesOnUntorn DEF SamePage, To, ToRead
<1>14. CASE LinkNext
  BY <1>14, LinkNextStep, StagesDiffer DEF UntornOK, To
<1> QED
  BY <1>1, <1>5, <1>6, <1>7, <1>8, <1>9, <1>10, <1>11, <1>12, <1>13, <1>14, NextSplits DEF Asking

-----------------------------------------------------------------------------
(* Ninth part: the next page lies behind this one.                         *)

(* The cursor that a document is given, read back.                         *)
LEMMA HasRead ==
  ASSUME TypeOK, KeysOK, UntornOK, ~walk.torn, client.stage \in Reading, client.keys \in {"read", "missing"}
  PROVE  /\ client.from = Key(client.doc) /\ client.from \in Listed
         /\ client.from \in Values \X Docs /\ client.from # NoCursor
         /\ Plain => Encoded(client.from) = client.from
<1>1. client.from = Key(client.doc) /\ client.from \in Listed
  BY DEF UntornOK
<1>2. client.from \in Values \X Docs
  BY <1>1, KeysOfListed
<1> DEFINE e == client.from
<1>3. e \in Values \X Docs
  BY <1>2
<1> HIDE DEF e
<1>4. e # NoCursor /\ e[1] \in Values /\ e = <<e[1], e[2]>> /\ e[1] # 0
  BY <1>3, CursorsOfKeys, Sorts DEF NoCursor
<1>5. Plain => Encoded(e) = e
  BY <1>4 DEF Plain, Encoded
<1> QED
  BY <1>1, <1>2, <1>4, <1>5 DEF e

LEMMA PlainCursors ==
  ASSUME Plain, NEW c \in Values \X Docs
  PROVE  ParseCursor(c) = c /\ c # NoCursor
<1>1. c # NoCursor /\ c[1] \in Values /\ c = <<c[1], c[2]>> /\ c[1] # 0
  BY CursorsOfKeys, Sorts DEF NoCursor
<1> QED
  BY <1>1 DEF Plain, ParseCursor, Encoded

LEMMA BeyondStays ==
  ASSUME TypeOK, StageOK, KeysOK, UntornOK, BeyondOK, Plain, Next
  PROVE  BeyondOK'
<1> DEFINE Beyond ==
      /\ client.stage = "nextFrom" => Key(client.doc) = Last(client.page)
      /\ client.stage = "nextLink" => Earlier(client.desc, Last(client.page), Key(client.doc))
      /\ client.stage = "idle" /\ client.links.next # NoCursor =>
           /\ client.page # <<>> /\ client.links.next \in Values \X Docs
           /\ Earlier(client.desc, Last(client.page), client.links.next)
      /\ client.stage = "list" /\ client.link = "next" =>
           /\ client.page # <<>> /\ client.cursor # NoCursor
           /\ Earlier(client.desc, Last(client.page), client.cursor)
<1>1. InOrder(client.page, client.desc) /\ (~walk.torn => Beyond)
  BY DEF BeyondOK, Precedes
<1> SUFFICES InOrder(client.page, client.desc)' /\ (~walk'.torn => Beyond')
  BY DEF BeyondOK, Precedes
<1>2. UntornOK' /\ TypeOK' /\ StageOK'
  BY UntornStays, TypesNext
<1>3. client.limit \in Nat /\ client.desc \in BOOLEAN /\ client.page \in Seq(Values \X Docs)
  BY DEF TypeOK, Clients
<1>4. CASE Writing
  <2>1. client' = client
    BY <1>4, WritingTypes
  <2>2. ASSUME ~walk'.torn, client.stage # "idle"
        PROVE  Beyond'
    <3>1. ~walk.torn /\ \A d \in Docs : Key(d) \in Listed => Key(d)' = Key(d)
      BY <1>4, <2>2, UntornWriting
    <3>2. client.stage \in Reading => client.doc \in Docs /\ meta'[client.doc] = meta[client.doc]
      BY <3>1 DEF StageOK, UntornOK, Key
    <3>3. "nextFrom" \in Reading /\ "nextLink" \in Reading
      BY StagesDiffer
    <3> QED
      BY <1>1, <2>1, <2>2, <3>1, <3>2, <3>3 DEF Key
  <2>3. ASSUME ~walk'.torn, client.stage = "idle"
        PROVE  Beyond'
    <3>1. ~walk.torn
      BY <1>4, <2>3, WritingTypes
    <3> QED
      BY <1>1, <2>1, <2>3, <3>1
  <2> QED
    BY <1>1, <2>1, <2>2, <2>3 DEF InOrder
<1>5. CASE FirstPage
  <2>1. SamePage /\ client'.stage = "list" /\ client'.link = "first"
    BY <1>5, FirstPageStep
  <2> QED
    BY <1>1, <2>1 DEF SamePage, Same, InOrder
<1>6. ASSUME NEW link \in {"last", "previous", "next"}, Follow(link)
      PROVE  InOrder(client.page, client.desc)' /\ (~walk'.torn => Beyond')
  <2>1. /\ SamePage /\ client'.stage = "list" /\ client'.link = link /\ client.stage = "idle"
        /\ client'.cursor = ParseCursor(client.links[link]) /\ client.links[link] # NoCursor
    BY <1>6, FollowStep DEF Follow
  <2>2. walk'.torn = walk.torn
    BY <1>6 DEF Follow, TypeOK
  <2>3. ASSUME ~walk.torn, link = "next"
        PROVE  client.page # <<>> /\ client'.cursor = client.links.next /\ client'.cursor # NoCursor
    <3>1. client.links.next \in Values \X Docs /\ client.page # <<>>
      BY <1>1, <2>1, <2>3
    <3> QED
      BY <2>1, <2>3, <3>1, PlainCursors
  <2> QED
    BY <1>1, <2>1, <2>2, <2>3 DEF SamePage, Same, InOrder
<1>7. CASE ReadKeys \/ ReadMeta
  <2>1. /\ SamePage /\ walk' = walk /\ client'.stage = client.stage /\ client'.doc = client.doc
        /\ client.stage \in Reading
    BY <1>7, ReadKeysStep, ReadMetaStep
  <2> QED
    BY <1>1, <2>1, StagesDiffer DEF SamePage, Same, InOrder, Key, Reading
<1>8. CASE ListPage
  <2>1. /\ Same /\ client'.page = Pairs(client.cursor, client.limit, client.desc)
        /\ client'.stage \in {"listEnd", "fill"}
    BY <1>8, ListPageStep DEF To, ToRead
  <2>2. InOrder(Pairs(client.cursor, client.limit, client.desc), client.desc)
    BY <1>3, Listing
  <2> QED
    BY <2>1, <2>2 DEF Same, InOrder
<1>9. CASE ListPageEnd \/ FillDocument \/ ListLast \/ ListLastAgain \/ LinkLast \/ ListPrevious \/ LinkPrevious
  <2>1. /\ SamePage /\ walk' = walk
        /\ client'.stage \notin {"nextFrom", "nextLink", "idle", "list"}
    BY <1>9, ListPageEndStep, FillDocumentStep, ListLastStep, ListLastAgainStep, LinkLastStep,
       ListPreviousStep, LinkPreviousStep DEF To, ToRead
  <2> QED
    BY <1>1, <2>1 DEF SamePage, Same, InOrder
<1>10. InOrder(PageNow, client.desc)
  <2>1. InOrder(Pairs(client.cursor, client.limit, client.desc), client.desc)
    BY <1>3, Listing
  <2> QED
    BY <1>1, <2>1 DEF PageNow
<1>11. CASE Previous
  <2>1. /\ Same /\ client'.page = PageNow /\ client'.stage \in {"next", "previousFrom"}
    BY <1>11, PreviousStep DEF To, ToRead
  <2> QED
    BY <1>10, <2>1 DEF Same, InOrder
<1>12. CASE NextPage
  <2>1. /\ Same /\ walk' = walk /\ client.stage = "next" /\ client'.page = PageNow /\ client'.links = client.links
        /\ IF PageNow = <<>> THEN To("idle") ELSE ToRead("nextFrom", Last(PageNow))
    BY <1>12, NextPageStep
  <2>2. client.links.next = NoCursor
    BY <2>1 DEF StageOK
  <2>3. ASSUME ~walk.torn, PageNow # <<>>
        PROVE  meta[Last(PageNow)[2]] = Last(PageNow)[1] /\ Last(PageNow) = <<Last(PageNow)[1], Last(PageNow)[2]>>
    <3>1. writer.step # "erase" /\ ToSet(client.page) \subseteq Listed
      BY <2>1, <2>3, StagesDiffer DEF UntornOK
    <3>2. Last(PageNow) \in Listed
      BY <2>3, <3>1, PageNowUntorn
    <3>3. Key(Last(PageNow)[2]) = Last(PageNow)
      BY <2>3, <3>1, <3>2, KeysOfListed
    <3> QED
      BY <3>3 DEF Key
  <2>4. CASE PageNow = <<>>
    BY <1>10, <2>1, <2>2, <2>4 DEF Same, InOrder, To
  <2>5. CASE PageNow # <<>>
    BY <1>10, <2>1, <2>3, <2>5 DEF Same, InOrder, To, ToRead, Key
  <2> QED
    BY <2>4, <2>5
<1>13. CASE ListNext
  <2> DEFINE pairs == Pairs(Encoded(client.from), 2, client.desc)
  <2>1. /\ SamePage /\ walk' = walk /\ client.stage = "nextFrom" /\ client.keys \in {"read", "missing"}
        /\ client'.links = client.links
        /\ IF Len(pairs) <= 1 THEN To("idle") ELSE pairs # <<>> /\ ToRead("nextLink", Last(pairs))
    BY <1>13, ListNextStep
  <2>2. client.links.next = NoCursor
    BY <2>1 DEF StageOK
  <2>3. ASSUME ~walk.torn, ~(Len(pairs) <= 1)
        PROVE  /\ Earlier(client.desc, Last(client.page), Last(pairs))
               /\ meta[Last(pairs)[2]] = Last(pairs)[1] /\ Last(pairs) = <<Last(pairs)[1], Last(pairs)[2]>>
    <3> DEFINE l == Last(client.page)
    <3>1. client.from = l /\ client.from \in Listed /\ Encoded(client.from) = l /\ l # NoCursor
      BY <1>1, <2>1, <2>3, HasRead, StagesDiffer
    <3>2. writer.step # "erase"
      BY <2>1, <2>3, StagesDiffer DEF UntornOK
    <3>3. /\ pairs \in Seq(Values \X Docs)
          /\ \A i \in 1..Len(pairs) : pairs[i] \in From(l, client.desc) /\ pairs[i] \in Listed
          /\ InOrder(pairs, client.desc)
      BY <1>3, <3>1, Listing
    <3>4. pairs = Pairs(l, 2, client.desc)
      BY <3>1
    <3> HIDE DEF pairs
    <3>5. Len(pairs) \in Nat /\ DOMAIN pairs = 1..Len(pairs) /\ 1 < Len(pairs) /\ Last(pairs) = pairs[Len(pairs)]
      BY <2>3, <3>3 DEF Last
    <3>6. Earlier(client.desc, pairs[1], Last(pairs))
      BY <3>3, <3>5 DEF InOrder
    <3>7. ~Earlier(client.desc, pairs[1], l)
      BY <3>1, <3>3, <3>5 DEF From
    <3>8. l \in Nat \X Nat /\ pairs[1] \in Nat \X Nat /\ Last(pairs) \in Nat \X Nat /\ Last(pairs) \in Listed
      BY <3>1, <3>3, <3>5, KeysOfListed
    <3>9. Earlier(client.desc, l, Last(pairs))
      <4> HIDE DEF l
      <4>1. Earlier(client.desc, l, pairs[1]) \/ l = pairs[1]
        BY <1>3, <3>7, <3>8, WalkIsOrdered
      <4> QED
        BY <1>3, <3>6, <3>8, <4>1, WalkIsOrdered
    <3>10. Key(Last(pairs)[2]) = Last(pairs)
      BY <2>3, <3>2, <3>8, KeysOfListed
    <3> QED
      BY <3>9, <3>10 DEF Key
  <2> HIDE DEF pairs
  <2>4. CASE Len(pairs) <= 1
    BY <1>1, <2>1, <2>2, <2>4 DEF SamePage, Same, InOrder, To
  <2>5. CASE ~(Len(pairs) <= 1)
    BY <1>1, <2>1, <2>3, <2>5 DEF SamePage, Same, InOrder, To, ToRead, Key
  <2> QED
    BY <2>4, <2>5
<1>14. CASE LinkNext
  <2>1. /\ SamePage /\ walk' = walk /\ client.stage = "nextLink" /\ client.keys \in {"read", "missing"} /\ To("idle")
        /\ client'.links = [client.links EXCEPT !.next = client.from]
    BY <1>14, LinkNextStep
  <2>2. client'.links.next = client.from /\ client.page # <<>>
    BY <2>1 DEF TypeOK, Clients, StageOK
  <2>3. ~walk.torn => client.from = Key(client.doc) /\ client.from \in Values \X Docs
    BY <2>1, HasRead, StagesDiffer
  <2> QED
    BY <1>1, <2>1, <2>2, <2>3 DEF SamePage, Same, InOrder, To
<1> QED
  BY <1>4, <1>5, <1>6, <1>7, <1>8, <1>9, <1>11, <1>12, <1>13, <1>14, NextSplits DEF Asking

LEMMA InitBeyond ==
  ASSUME Init
  PROVE  UntornOK /\ BeyondOK
<1>1. client.stage = "idle" /\ client.page = <<>> /\ client.links = NoLinks
  BY DEF Init
<1> QED
  BY <1>1, StagesDiffer DEF UntornOK, BeyondOK, InOrder, NoLinks

(* What the two theorems on following the pages rest on.                   *)
WalkOK == TypeOK /\ StageOK /\ KeysOK /\ UntornOK /\ BeyondOK

LEMMA WalkAlways ==
  ASSUME Plain
  PROVE  Spec => []WalkOK
<1>1. Init => WalkOK
  BY TypesInit, KeysInit, InitBeyond DEF WalkOK
<1>2. WalkOK /\ [Next]_vars => WalkOK'
  <2>1. ASSUME WalkOK, UNCHANGED vars
        PROVE  WalkOK'
    BY <2>1 DEF vars, WalkOK, TypeOK, StageOK, KeysOK, Kept, UntornOK, BeyondOK, Key, Listed, From, Precedes
  <2> QED
    BY <2>1, TypesNext, KeysNext, UntornStays, BeyondStays DEF WalkOK
<1> QED
  BY <1>1, <1>2, PTL DEF Spec

(* Nothing is listed twice: the next page lies behind the page it follows, *)
(* if no key is removed while a request is answered and none is left over  *)
(* that a document does not have (query.cc getNext).                       *)
THEOREM NextPageAdvances ==
  ASSUME Plain
  PROVE  Spec => PagesAdvance
<1>1. ASSUME WalkOK, ListPage, client.link = "next", ~walk'.torn,
             NEW e \in ToSet(client.page), NEW f \in ToSet(client'.page)
      PROVE  Precedes(e, f)
  <2> DEFINE l == Last(client.page)
             c == client.cursor
             pairs == Pairs(c, client.limit, client.desc)
  <2>1. /\ client.stage = "list" /\ client'.page = pairs /\ ~walk.torn
        /\ client.limit \in Nat /\ client.desc \in BOOLEAN /\ client.page \in Seq(Values \X Docs)
        /\ client.cursor \in Cursors
    BY <1>1, ListPageStep DEF WalkOK, TypeOK, Clients
  <2>2. client.page # <<>> /\ c # NoCursor /\ Earlier(client.desc, l, c) /\ InOrder(client.page, client.desc)
    BY <1>1, <2>1 DEF WalkOK, BeyondOK, Precedes
  <2>3. c \in Nat \X Nat
    BY <2>1, <2>2, Sorts DEF Cursors
  <2>4. /\ pairs \in Seq(Values \X Docs)
        /\ \A i \in 1..Len(pairs) : pairs[i] \in From(c, client.desc)
    BY <1>1, <2>1, Listing DEF WalkOK
  <2>5. f \in From(c, client.desc) /\ f \in Values \X Docs
    <3>1. PICK i \in DOMAIN pairs : f = pairs[i]
      BY <1>1, <2>1 DEF ToSet
    <3>2. i \in 1..Len(pairs)
      BY <2>4
    <3> HIDE DEF pairs
    <3> QED
      BY <2>4, <3>1, <3>2
  <2>6. ~Earlier(client.desc, f, c)
    BY <2>2, <2>5 DEF From
  <2>7. e \in Values \X Docs /\ (e = l \/ Earlier(client.desc, e, l))
    <3>1. PICK i \in DOMAIN client.page : e = client.page[i]
      BY <1>1 DEF ToSet
    <3>2. i \in 1..Len(client.page) /\ Len(client.page) \in 1..Len(client.page) /\ l = client.page[Len(client.page)]
          /\ DOMAIN client.page = 1..Len(client.page)
      BY <2>1, <2>2, <3>1, Ends
    <3>3. i = Len(client.page) \/ i < Len(client.page)
      BY <3>2
    <3> QED
      BY <2>1, <2>2, <3>1, <3>2, <3>3 DEF InOrder
  <2>8. l \in Values \X Docs
    BY <2>1, <2>2, Ends
  <2> HIDE DEF l, c, pairs
  <2>9. e \in Nat \X Nat /\ f \in Nat \X Nat /\ l \in Nat \X Nat
    BY <2>5, <2>7, <2>8, Sorts
  <2>10. Earlier(client.desc, e, c)
    BY <2>1, <2>2, <2>3, <2>7, <2>9, WalkIsOrdered
  <2>11. f = c \/ Earlier(client.desc, c, f)
    BY <2>1, <2>3, <2>6, <2>9, WalkIsOrdered
  <2> QED
    BY <2>1, <2>3, <2>9, <2>10, <2>11, WalkIsOrdered DEF Precedes
<1>2. WalkOK /\ [Next]_vars =>
        [ListPage /\ client.link = "next" /\ ~walk'.torn =>
           \A e \in ToSet(client.page), f \in ToSet(client'.page) : Precedes(e, f)]_vars
  BY <1>1
<1> QED
  BY <1>2, WalkAlways, PTL DEF Spec, PagesAdvance

-----------------------------------------------------------------------------
(* Tenth part: following the pages meets what stays.                       *)

LEMMA WantedIsSource ==
  ASSUME IsValid
  PROVE  Wanted = Source
<1>1. ASSUME NEW k \in DOMAIN Sections
      PROVE  /\ \E n \in Nat : n \in Min(ToSet(Sections[k]))..Max(ToSet(Sections[k]))
             /\ \A n \in Nat : n \in Min(ToSet(Sections[k]))..Max(ToSet(Sections[k])) <=>
                  \E first, last \in ToSet(Sections[k]) : n \in first..last
  <2> DEFINE s == Sections[k]
  <2>1. s \in Seq(Nat) /\ Len(s) \in {1, 2}
    BY <1>1, QueryAssumptions
  <2> HIDE DEF s
  <2>2. PICK a, b \in Nat : ToSet(s) = {a, b}
    <3>1. CASE Len(s) = 1
      <4>1. ToSet(s) = {s[1], s[1]} /\ s[1] \in Nat
        BY <2>1, <3>1 DEF ToSet
      <4> QED
        BY <4>1
    <3>2. CASE Len(s) = 2
      <4>1. ToSet(s) = {s[1], s[2]} /\ s[1] \in Nat /\ s[2] \in Nat
        BY <2>1, <3>2 DEF ToSet
      <4> QED
        BY <4>1
    <3> QED
      BY <2>1, <3>1, <3>2
  <2>3. /\ Min(ToSet(s)) = IF a <= b THEN a ELSE b
        /\ Max(ToSet(s)) = IF a <= b THEN b ELSE a
    BY <2>2, MinOfTwo, MaxOfTwo
  <2>4. \A n \in Nat : n \in Min(ToSet(s))..Max(ToSet(s)) <=>
          \E first, last \in ToSet(s) : n \in first..last
    BY <2>2, <2>3
  <2>5. Min(ToSet(s)) \in Min(ToSet(s))..Max(ToSet(s)) /\ Min(ToSet(s)) \in Nat
    BY <2>3
  <2> QED
    BY <2>4, <2>5 DEF s
<1>2. DocTypes = UNION {Min(ToSet(Sections[k]))..Max(ToSet(Sections[k])) : k \in DOMAIN Sections}
  BY DEF DocTypes
<1>3. Sections = <<>> <=> DOMAIN Sections = {}
  <2>1. Sections \in Seq(Seq(Nat))
    BY QueryAssumptions
  <2> QED
    BY <2>1
<1>4. DocTypes = {} <=> Sections = <<>>
  <2>1. CASE DOMAIN Sections = {}
    BY <1>2, <1>3, <2>1
  <2>2. ASSUME NEW k \in DOMAIN Sections
        PROVE  DocTypes # {}
    <3>1. PICK n \in Nat : n \in Min(ToSet(Sections[k]))..Max(ToSet(Sections[k]))
      BY <1>1
    <3> QED
      BY <1>2, <3>1
  <2> QED
    BY <1>3, <2>1, <2>2
<1>5. ASSUME NEW d \in Docs
      PROVE  d \in Wanted <=> d \in Source
  <2>1. DocType[d] \in Nat
    BY QueryAssumptions
  <2>2. DocType[d] \in DocTypes <=>
          \E k \in DOMAIN Sections : \E first, last \in ToSet(Sections[k]) : DocType[d] \in first..last
    BY <1>1, <1>2, <2>1
  <2> QED
    BY <1>4, <2>2 DEF Wanted, Source, IsInRange
<1> QED
  BY <1>5 DEF Wanted, Source

LEMMA StayWriting ==
  ASSUME TypeOK, KeysOK, AheadOK, Writing, NEW d \in walk'.stay
  PROVE  d \in walk.stay /\ meta'[d] = meta[d] /\ Key(d)' = Key(d) /\ Key(d) \in Listed' /\ d # writer'.doc
<1>1. d \in walk.stay /\ d \in Docs /\ d \in Nat /\ d # 0
  BY WritingTypes, Sorts DEF TypeOK
<1>2. Key(d) \in Listed /\ d # writer.doc /\ meta[d] # NoMeta
  BY <1>1, KeysOfListed DEF AheadOK
<1>3. Key(d) \in ordered /\ Key(d)[2] = d /\ d \in Source
  BY <1>2 DEF Listed, From, Key
<1>4. meta \in [Docs -> Values \cup {NoMeta}]
  BY DEF TypeOK
<1> SUFFICES meta'[d] = meta[d] /\ Key(d) \in ordered' /\ d # writer'.doc
  BY <1>1, <1>3 DEF Listed, From, Key
<1>5. CASE \E c \in Docs : Create(c)
  BY <1>2, <1>3, <1>5 DEF Create
<1>6. ASSUME NEW c \in Docs, EraseMeta(c)
      PROVE  meta'[d] = meta[d] /\ Key(d) \in ordered' /\ d # writer'.doc
  <2>1. walk'.stay = walk.stay \ {c}
    BY <1>6 DEF EraseMeta, TypeOK
  <2> QED
    BY <1>1, <1>3, <1>4, <1>6, <2>1 DEF EraseMeta
<1>7. CASE SetMeta
  <2>1. /\ ordered' = ordered \ {<<Head(writer.todo), writer.doc>>}
        /\ meta' = [meta EXCEPT ![writer.doc] = Head(writer.todo)]
        /\ writer.step = "meta" /\ writer' = [writer EXCEPT !.step = "ordered"]
    BY <1>7 DEF SetMeta
  <2>2. writer'.doc = writer.doc
    BY <2>1 DEF TypeOK, Writers, NoWriter
  <2> QED
    BY <1>1, <1>2, <1>3, <1>4, <2>1, <2>2
<1>8. CASE SetOrdered
  <2>1. ordered \subseteq ordered' /\ meta' = meta /\ writer'.doc \in {writer.doc, 0}
    BY <1>8 DEF SetOrdered, TypeOK, Writers, NoWriter
  <2> QED
    BY <1>1, <1>2, <1>3, <2>1
<1>9. CASE EraseOrdered
  <2>1. ordered' = ordered \ (ToSet(writer.todo) \X {writer.doc}) /\ meta' = meta /\ writer' = NoWriter
    BY <1>9 DEF EraseOrdered
  <2> QED
    BY <1>1, <1>2, <1>3, <2>1 DEF NoWriter
<1> QED
  BY <1>5, <1>6, <1>7, <1>8, <1>9 DEF Writing

(* The first two keys from a key on.                                       *)
LEMMA NextTwo ==
  ASSUME TypeOK, NEW desc \in BOOLEAN, NEW l \in Listed, NEW k \in Listed, Earlier(desc, l, k), l # NoCursor
  PROVE  LET pairs == Pairs(l, 2, desc)
         IN  ~(Len(pairs) <= 1) /\ ~Earlier(desc, k, Last(pairs))
<1> DEFINE pairs == Pairs(l, 2, desc)
           S == From(l, desc)
<1>1. l \in Nat \X Nat /\ k \in Nat \X Nat
  BY Sorts DEF Listed, From, TypeOK
<1>2. l \in S /\ k \in S
  <2>1. l \in ordered /\ l[2] \in Source /\ k \in ordered /\ k[2] \in Source
    BY DEF Listed, From
  <2>2. ~Earlier(desc, l, l) /\ ~Earlier(desc, k, l)
    BY <1>1, WalkIsOrdered
  <2> QED
    BY <2>1, <2>2 DEF From
<1>3. /\ pairs \in Seq(Values \X Docs) /\ Len(pairs) <= 2
      /\ \A i \in 1..Len(pairs) : pairs[i] \in S /\ pairs[i] \in Values \X Docs
      /\ InOrder(pairs, desc)
      /\ \A e \in S : e \in ToSet(pairs) \/ (Len(pairs) = 2 /\ \A f \in ToSet(pairs) : Earlier(desc, f, e))
  BY Listing
<1>4. \A e \in S : ~Earlier(desc, e, l)
  BY DEF From
<1> HIDE DEF pairs, S
<1>5. Len(pairs) \in Nat /\ DOMAIN pairs = 1..Len(pairs) /\ ToSet(pairs) = {pairs[i] : i \in 1..Len(pairs)}
  BY <1>3 DEF ToSet
<1>6. l # k
  BY <1>1, WalkIsOrdered
<1>7. Len(pairs) = 2
  <2> SUFFICES ASSUME Len(pairs) # 2
               PROVE  FALSE
    OBVIOUS
  <2>1. l \in ToSet(pairs) /\ k \in ToSet(pairs)
    BY <1>2, <1>3
  <2>2. Len(pairs) \in {0, 1}
    BY <1>3, <1>5
  <2> QED
    BY <1>5, <1>6, <2>1, <2>2
<1>8. Last(pairs) = pairs[2] /\ pairs[1] \in S /\ pairs[2] \in S /\ Last(pairs) \in ToSet(pairs)
      /\ pairs[1] \in Nat \X Nat /\ pairs[2] \in Nat \X Nat /\ Earlier(desc, pairs[1], pairs[2])
  BY <1>3, <1>5, <1>7, Sorts DEF Last, InOrder
<1>9. ToSet(pairs) = {pairs[1], pairs[2]}
  BY <1>5, <1>7
<1>10. l = pairs[1]
  <2>1. l \in ToSet(pairs)
    BY <1>2, <1>3, <1>4, <1>8, <1>9
  <2>2. l # pairs[2]
    BY <1>4, <1>8
  <2> QED
    BY <1>9, <2>1, <2>2
<1>11. k = pairs[2] \/ Earlier(desc, pairs[2], k)
  BY <1>2, <1>3, <1>6, <1>9, <1>10
<1>12. ~Earlier(desc, k, pairs[2])
  BY <1>1, <1>8, <1>11, WalkIsOrdered
<1> QED
  BY <1>7, <1>8, <1>12 DEF pairs

LEMMA AheadInit ==
  ASSUME Init, LimitsPositive
  PROVE  AheadOK
<1>1. PICK r \in Requests : client.limit = r.limit
  BY DEF Init
<1>2. walk.stay = {} /\ walk.on = FALSE /\ walk.seen = {}
  BY DEF Init
<1> QED
  BY <1>1, <1>2 DEF AheadOK, LimitsPositive

LEMMA ListingFills ==
  ASSUME TypeOK, NEW n \in Nat, NEW desc \in BOOLEAN
  PROVE  \A c : \A e \in From(c, desc) :
           \/ e \in ToSet(Pairs(c, n, desc))
           \/ Len(Pairs(c, n, desc)) = n /\ \A f \in ToSet(Pairs(c, n, desc)) : Earlier(desc, f, e)
BY Listing

LEMMA AheadStays ==
  ASSUME WalkOK, AheadOK, Plain, Next
  PROVE  AheadOK'
<1> USE DEF WalkOK
<1> DEFINE Unseen == walk.stay \ walk.seen
           Ahead ==
             walk.on /\ ~walk.torn =>
               \A d \in Unseen :
                 /\ client.stage = "list" /\ client.cursor # NoCursor =>
                      ~Earlier(client.desc, Key(d), client.cursor)
                 /\ client.stage \in AtPage =>
                      client.page # <<>> /\ Earlier(client.desc, Last(client.page), Key(d))
                 /\ client.stage = "nextLink" => ~Earlier(client.desc, Key(d), Key(client.doc))
                 /\ client.stage = "idle" =>
                      client.links.next # NoCursor /\ ~Earlier(client.desc, Key(d), client.links.next)
           Stay == \A d \in walk.stay : Key(d) \in Listed /\ d # writer.doc
<1>1. Ahead /\ Stay /\ client.limit > 0 /\ (~IsValid => walk.seen = {})
  BY DEF AheadOK, Precedes
<1> SUFFICES Ahead' /\ Stay' /\ client'.limit > 0 /\ (~IsValid => walk'.seen = {})
  BY DEF AheadOK, Precedes
<1>2. TypeOK' /\ StageOK' /\ walk.stay \subseteq Docs
  BY TypesNext DEF TypeOK
<1>3. client.limit \in Nat /\ client.desc \in BOOLEAN /\ client.page \in Seq(Values \X Docs)
  BY DEF TypeOK, Clients
<1>4. CASE Writing
  <2>1. client' = client /\ walk'.on = walk.on /\ walk'.seen = walk.seen /\ (~walk'.torn => ~walk.torn)
    BY <1>4, WritingTypes
  <2>2. \A d \in walk'.stay :
          d \in walk.stay /\ meta'[d] = meta[d] /\ Key(d)' = Key(d) /\ Key(d) \in Listed' /\ d # writer'.doc
    BY <1>4, StayWriting
  <2>3. ASSUME ~walk'.torn, client.stage = "nextLink"
        PROVE  client.doc \in Docs /\ meta'[client.doc] = meta[client.doc]
    <3>1. client.stage \in Reading /\ client.doc \in Docs /\ ~walk.torn
      BY <1>4, <2>1, <2>3, StagesDiffer DEF StageOK
    <3>2. Key(client.doc) \in Listed
      BY <3>1 DEF UntornOK
    <3>3. \A d \in Docs : Key(d) \in Listed => Key(d)' = Key(d)
      BY <1>4, <2>3, UntornWriting
    <3> QED
      BY <3>1, <3>2, <3>3 DEF Key
  <2> QED
    BY <1>1, <2>1, <2>2, <2>3 DEF Key
(* The request moves on in its page, or behind it.                         *)
<1>5. ASSUME Same, walk' = walk,
             walk.on /\ ~walk.torn =>
               \A d \in Unseen :
                 /\ client'.stage = "list" /\ client'.cursor # NoCursor =>
                      ~Earlier(client.desc, Key(d), client'.cursor)
                 /\ client'.stage \in AtPage =>
                      client'.page # <<>> /\ Earlier(client.desc, Last(client'.page), Key(d))
                 /\ client'.stage = "nextLink" => ~Earlier(client.desc, Key(d), <<meta[client'.doc], client'.doc>>)
                 /\ client'.stage = "idle" =>
                      client'.links.next # NoCursor /\ ~Earlier(client.desc, Key(d), client'.links.next)
      PROVE  Ahead' /\ Stay' /\ client'.limit > 0 /\ (~IsValid => walk'.seen = {})
  BY <1>1, <1>5, ListedSame DEF Same, Key
<1>6. CASE FirstPage
  <2> DEFINE S == {d \in Wanted : d # writer.doc /\ <<meta[d], d>> \in ordered}
  <2>1. Same /\ client'.stage = "list" /\ client'.cursor = NoCursor /\ IsValid
    BY <1>6, FirstPageStep DEF SamePage, FirstPage
  <2>2. walk' = [walk EXCEPT !.on = TRUE, !.seen = {}, !.torn = ordered \ ItemKeys # {}, !.stay = S]
    BY <1>6 DEF FirstPage
  <2>3. walk'.stay = S /\ S \subseteq Source
    BY <2>1, <2>2, WantedIsSource DEF TypeOK
  <2>4. Stay'
    BY <2>1, <2>3 DEF Same, Listed, From, Key
  <2> QED
    BY <1>1, <2>1, <2>4, StagesDiffer DEF Same
<1>7. ASSUME NEW link \in {"last", "previous", "next"}, Follow(link)
      PROVE  Ahead' /\ Stay' /\ client'.limit > 0 /\ (~IsValid => walk'.seen = {})
  <2>1. /\ Same /\ client'.stage = "list" /\ client.stage = "idle"
        /\ client'.cursor = ParseCursor(client.links[link]) /\ client.links[link] # NoCursor
    BY <1>7, FollowStep DEF Follow, SamePage
  <2>2. /\ walk'.on => walk.on /\ link = "next"
        /\ walk'.torn = walk.torn /\ walk'.stay = walk.stay /\ walk'.seen = walk.seen
    BY <1>7 DEF Follow, TypeOK
  <2>3. ASSUME walk'.on, ~walk.torn
        PROVE  client'.cursor = client.links.next
    <3>1. client.links.next \in Values \X Docs
      BY <2>1, <2>2, <2>3 DEF BeyondOK
    <3> QED
      BY <2>1, <2>2, <2>3, <3>1, PlainCursors
  <2> QED
    BY <1>1, <2>1, <2>2, <2>3, StagesDiffer, ListedSame DEF Same, Key
<1>8. CASE ReadKeys \/ ReadMeta
  <2>1. /\ SamePage /\ walk' = walk /\ client'.stage = client.stage /\ client'.doc = client.doc
        /\ client'.cursor = client.cursor /\ client'.links = client.links
    BY <1>8, ReadKeysStep, ReadMetaStep
  <2> QED
    BY <1>1, <1>5, <2>1 DEF SamePage, Key
<1>9. CASE ListPage
  <2> DEFINE page == Pairs(client.cursor, client.limit, client.desc)
  <2>1. /\ Same /\ client.stage = "list" /\ client'.page = page
        /\ client'.stage \in {"listEnd", "fill"}
        /\ walk'.on = walk.on /\ walk'.stay = walk.stay
        /\ walk'.seen = walk.seen \cup {e[2] : e \in ToSet(page)}
        /\ ~walk'.torn => ~walk.torn
    BY <1>9, ListPageStep DEF To, ToRead
  <2>2. ASSUME walk.on, ~walk.torn, NEW d \in walk'.stay \ walk'.seen
        PROVE  page # <<>> /\ Earlier(client.desc, Last(page), Key(d))
    <3>1. d \in Unseen /\ Key(d) \in Listed
      BY <1>1, <2>1, <2>2
    <3>2. client.cursor # NoCursor => ~Earlier(client.desc, Key(d), client.cursor)
      BY <1>1, <2>1, <2>2, <3>1
    <3>3. Key(d) \in From(client.cursor, client.desc)
      BY <3>1, <3>2 DEF Listed, From
    <3>4. Key(d) \notin ToSet(page)
      BY <2>1, <2>2 DEF Key
    <3>5. Len(page) = client.limit /\ \A f \in ToSet(page) : Earlier(client.desc, f, Key(d))
      <4>1. \A e \in From(client.cursor, client.desc) :
              e \in ToSet(page) \/ (Len(page) = client.limit /\ \A f \in ToSet(page) : Earlier(client.desc, f, e))
        <5>1. TypeOK /\ client.limit \in Nat /\ client.desc \in BOOLEAN
          BY <1>3
        <5> QED
          BY <5>1, ListingFills
      <4> HIDE DEF page
      <4> QED
        BY <3>3, <3>4, <4>1
    <3>6. page \in Seq(Values \X Docs)
      BY <1>3, Listing
    <3> HIDE DEF page
    <3>7. page # <<>>
      <4>1. Len(<<>>) = 0
        OBVIOUS
      <4> QED
        BY <1>1, <1>3, <3>5, <4>1
    <3> QED
      BY <3>5, <3>6, <3>7, Ends
  <2>3. Stay'
    BY <1>1, <2>1, ListedSame DEF Same, Key
  <2>4. ~IsValid => walk'.seen = {}
    BY <2>1 DEF StageOK
  <2> QED
    BY <1>1, <2>1, <2>2, <2>3, <2>4 DEF Same, Key
<1>10. CASE ListPageEnd \/ FillDocument \/ ListLast \/ ListLastAgain \/ LinkLast \/ ListPrevious \/ LinkPrevious
  <2>1. /\ SamePage /\ walk' = walk /\ client.stage \in AtPage
        /\ client'.stage \notin {"nextLink", "idle", "list"}
    BY <1>10, ListPageEndStep, FillDocumentStep, ListLastStep, ListLastAgainStep, LinkLastStep,
       ListPreviousStep, LinkPreviousStep, StagesDiffer DEF To, ToRead
  <2> QED
    BY <1>1, <1>5, <2>1 DEF SamePage
<1>11. CASE Previous \/ NextPage
  <2>1. /\ Same /\ walk' = walk /\ client'.page = PageNow /\ client.stage \in AtPage
        /\ client'.stage \notin {"nextLink", "list"} /\ (client'.stage = "idle" => PageNow = <<>>)
    BY <1>11, PreviousStep, NextPageStep, StagesDiffer DEF To, ToRead
  <2>2. client.page # <<>> => PageNow = client.page
    BY PageNowListed
  <2> QED
    BY <1>1, <1>5, <2>1, <2>2
<1>12. CASE ListNext
  <2> DEFINE pairs == Pairs(Encoded(client.from), 2, client.desc)
             l     == Last(client.page)
  <2>1. /\ SamePage /\ walk' = walk /\ client.stage = "nextFrom" /\ client.keys \in {"read", "missing"}
        /\ client'.links = client.links
        /\ IF Len(pairs) <= 1 THEN To("idle") ELSE pairs # <<>> /\ ToRead("nextLink", Last(pairs))
    BY <1>12, ListNextStep
  <2>2. ASSUME walk.on, ~walk.torn, NEW d \in Unseen
        PROVE  /\ ~(Len(pairs) <= 1) /\ ~Earlier(client.desc, Key(d), Last(pairs))
               /\ <<meta[Last(pairs)[2]], Last(pairs)[2]>> = Last(pairs)
    <3>1. client.from = l /\ client.from \in Listed /\ Encoded(client.from) = l /\ l # NoCursor
      BY <2>1, <2>2, HasRead, StagesDiffer DEF BeyondOK
    <3>2. Key(d) \in Listed /\ Earlier(client.desc, l, Key(d))
      BY <1>1, <2>1, <2>2, StagesDiffer
    <3>3. pairs = Pairs(l, 2, client.desc) /\ l \in Listed
      BY <3>1
    <3>4. ~(Len(pairs) <= 1) /\ ~Earlier(client.desc, Key(d), Last(pairs))
      <4> HIDE DEF l
      <4> QED
        BY <1>3, <3>1, <3>2, <3>3, NextTwo
    <3>5. writer.step # "erase"
      BY <2>1, <2>2, StagesDiffer DEF UntornOK
    <3>6. pairs \in Seq(Values \X Docs) /\ ToSet(pairs) \subseteq Listed
      BY <1>3, Listing
    <3> HIDE DEF pairs
    <3>7. pairs # <<>>
      <4>1. Len(<<>>) <= 1
        OBVIOUS
      <4> QED
        BY <3>4, <4>1
    <3>8. Last(pairs) \in Listed
      BY <3>6, <3>7, Ends
    <3>9. Key(Last(pairs)[2]) = Last(pairs)
      BY <2>2, <3>5, <3>8, KeysOfListed
    <3> QED
      BY <3>4, <3>9 DEF Key
  <2> HIDE DEF pairs
  <2>3. CASE Len(pairs) <= 1
    BY <1>5, <2>1, <2>2, <2>3 DEF SamePage
  <2>4. CASE ~(Len(pairs) <= 1)
    BY <1>5, <2>1, <2>2, <2>4, StagesDiffer DEF SamePage, To, ToRead
  <2> QED
    BY <2>3, <2>4
<1>13. CASE LinkNext
  <2>1. /\ SamePage /\ walk' = walk /\ client.stage = "nextLink" /\ client.keys \in {"read", "missing"} /\ To("idle")
        /\ client'.links = [client.links EXCEPT !.next = client.from]
    BY <1>13, LinkNextStep
  <2>2. client'.links.next = client.from
    BY <2>1 DEF TypeOK, Clients
  <2>3. ~walk.torn => client.from = Key(client.doc) /\ client.from # NoCursor
    BY <2>1, HasRead, StagesDiffer
  <2> QED
    BY <1>1, <1>5, <2>1, <2>2, <2>3, StagesDiffer DEF SamePage, To
<1> QED
  BY <1>4, <1>6, <1>7, <1>8, <1>9, <1>10, <1>11, <1>12, <1>13, NextSplits DEF Asking

(* Following the pages meets every document that is there all along, and   *)
(* none that was not asked for, if no key is removed while a request is    *)
(* answered, none is left over that a document does not have, and pages    *)
(* have room (query.cc getNext, DocTypeRange::parse).                      *)
THEOREM FollowingMeetsAll ==
  ASSUME Plain, LimitsPositive
  PROVE  Spec => []PagesCoverAll
<1>1. Init => AheadOK
  BY AheadInit
<1>2. WalkOK /\ AheadOK /\ [Next]_vars => AheadOK'
  <2>1. ASSUME AheadOK, UNCHANGED vars
        PROVE  AheadOK'
    BY <2>1 DEF vars, AheadOK, Key, Listed, From, Precedes
  <2> QED
    BY <2>1, AheadStays
<1>3. WalkOK /\ AheadOK => PagesCoverAll
  <2> SUFFICES ASSUME WalkOK, AheadOK
               PROVE  PagesCoverAll
    OBVIOUS
  <2>1. walk.seen \subseteq Wanted
    BY WantedIsSource DEF WalkOK, StageOK, AheadOK
  <2> QED
    BY <2>1 DEF AheadOK, PagesCoverAll, WalkEnded
<1> QED
  BY <1>1, <1>2, <1>3, WalkAlways, PTL DEF Spec

-----------------------------------------------------------------------------
(* Eleventh part: pages that are found from behind.                        *)

LEMMA PlaceOf ==
  ASSUME NEW desc \in BOOLEAN, NEW S \in SUBSET (Nat \X Nat), IsFiniteSet(S), NEW e \in S
  PROVE  LET B == {f \in S : Earlier(desc, f, e)}
         IN  IsFiniteSet(B) /\ Cardinality(B) \in Nat /\ Place(S, desc, e) = Cardinality(B) + 1
<1> DEFINE B == {f \in S : Earlier(desc, f, e)}
<1>1. B \in SUBSET S
  OBVIOUS
<1>2. Place(S, desc, e) = Cardinality(B) + 1
  BY DEF Place
<1> HIDE DEF B
<1>3. IsFiniteSet(B) /\ Cardinality(B) \in Nat
  BY <1>1, FS_Subset, FS_CardinalityType
<1> QED
  BY <1>2, <1>3 DEF B

(* The last page, which is counted from the end and listed from there on.  *)
LEMMA LastIsEnd ==
  ASSUME NEW desc \in BOOLEAN, NEW S \in SUBSET (Nat \X Nat), IsFiniteSet(S), NEW n \in Nat,
         FirstOf(S, n, ~desc) # <<>>
  PROVE  LET c == Last(FirstOf(S, n, ~desc))
             t == FirstOf({e \in S : ~Earlier(desc, e, c)}, n, desc)
         IN  /\ t # <<>> /\ Len(t) \in {n, Cardinality(S)}
             /\ \A e \in S : ~Earlier(desc, Last(t), e)
<1> DEFINE back == ~desc
           s == FirstOf(S, n, back)
           m == Len(s)
           c == Last(FirstOf(S, n, ~desc))
           T == {e \in S : ~Earlier(desc, e, c)}
           t == FirstOf(T, n, desc)
           B == {f \in S : Earlier(back, f, c)}
<1>1. back \in BOOLEAN /\ Cardinality(S) \in Nat
  BY FS_CardinalityType
<1>0. SUFFICES /\ t # <<>> /\ Len(t) \in {n, Cardinality(S)}
               /\ \A e \in S : ~Earlier(desc, Last(t), e)
  OBVIOUS
<1>2. /\ s \in Seq(S)
      /\ m = IF n < Cardinality(S) THEN n ELSE Cardinality(S)
      /\ \A i \in 1..m : s[i] \in S /\ Place(S, back, s[i]) = i
  BY <1>1, FirstInOrder
<1>3. s # <<>> /\ c = Last(s)
  OBVIOUS
<1>15. t = FirstOf(T, n, desc) /\ T = {e \in S : ~Earlier(desc, e, c)}
  OBVIOUS
<1> HIDE DEF s, m, c
<1>4. m \in 1..m /\ m \in Nat \ {0} /\ c = s[m] /\ c \in S
  BY <1>2, <1>3, Ends DEF m
<1>5. Place(S, back, c) = m
  BY <1>2, <1>4
<1>6. IsFiniteSet(B) /\ Cardinality(B) = m - 1
  <2>1. IsFiniteSet(B) /\ Cardinality(B) \in Nat /\ Place(S, back, c) = Cardinality(B) + 1
    BY <1>1, <1>4, PlaceOf
  <2> QED
    BY <1>4, <1>5, <2>1
<1>7. T = B \cup {c} /\ c \notin B
  <2>1. \A e \in S : ~Earlier(desc, e, c) <=> (Earlier(desc, c, e) \/ e = c)
    BY <1>4, WalkIsOrdered
  <2>2. \A e \in S : Earlier(back, e, c) <=> Earlier(desc, c, e)
    BY <1>4, WalkIsOrdered
  <2>3. ~Earlier(desc, c, c)
    BY <1>4, WalkIsOrdered
  <2> QED
    BY <1>4, <2>1, <2>2, <2>3
<1>8. IsFiniteSet(T) /\ Cardinality(T) = m /\ T \in SUBSET (Nat \X Nat)
  <2>1. T \in SUBSET (Nat \X Nat)
    OBVIOUS
  <2>2. IsFiniteSet(B \cup {c}) /\ Cardinality(B \cup {c}) = m
    <3> HIDE DEF B, T
    <3>1. IsFiniteSet(B \cup {c}) /\ Cardinality(B \cup {c}) = Cardinality(B) + 1
      BY <1>6, <1>7, FS_AddElement
    <3> QED
      BY <1>4, <1>6, <3>1
  <2> HIDE DEF B, T
  <2> QED
    BY <1>7, <2>1, <2>2
<1> HIDE DEF T
<1>9. /\ t \in Seq(T) /\ Len(t) = IF n < m THEN n ELSE m
      /\ \A i, j \in 1..Len(t) : i < j => Earlier(desc, t[i], t[j])
      /\ \A e \in T : Place(T, desc, e) <= Len(t) => t[Place(T, desc, e)] = e
  <2>1. /\ t \in Seq(T) /\ Len(t) = IF n < Cardinality(T) THEN n ELSE Cardinality(T)
        /\ \A i, j \in 1..Len(t) : i < j => Earlier(desc, t[i], t[j])
        /\ \A e \in T : Place(T, desc, e) <= Len(t) => t[Place(T, desc, e)] = e
    BY <1>8, FirstInOrder
  <2> HIDE DEF t
  <2> QED
    BY <1>8, <2>1
<1> HIDE DEF t
<1>10. \A e \in T : Place(T, desc, e) \in 1..m
  BY <1>8, PlacesAreNumbers
<1>11. Len(t) = m
  BY <1>1, <1>2, <1>4, <1>9
<1>12. t # <<>> /\ Last(t) = t[m] /\ Last(t) \in T
  <2>1. Len(<<>>) = 0
    OBVIOUS
  <2>2. t # <<>>
    BY <1>4, <1>11, <2>1
  <2> QED
    BY <1>9, <1>11, <2>2, Ends
<1>13. ASSUME NEW e \in S, Earlier(desc, Last(t), e)
       PROVE  FALSE
  <2>1. Last(t) \in S /\ ~Earlier(desc, Last(t), c)
    BY <1>12, <1>15
  <2>2. c = Last(t) \/ Earlier(desc, c, Last(t))
    BY <1>4, <2>1, WalkIsOrdered
  <2>3. Earlier(desc, c, e)
    BY <1>4, <1>13, <2>1, <2>2, WalkIsOrdered
  <2>4. e \in T
    BY <1>4, <1>15, <2>3, WalkIsOrdered
  <2>5. PICK i \in 1..m : e = t[i]
    BY <1>9, <1>10, <1>11, <2>4
  <2>6. e = t[m] \/ Earlier(desc, e, t[m])
    BY <1>4, <1>9, <1>11, <2>5
  <2> QED
    BY <1>12, <1>13, <2>1, <2>6, WalkIsOrdered
<1>14. m \in {n, Cardinality(S)}
  BY <1>2
<1> QED
  BY <1>11, <1>12, <1>13, <1>14

(* The page before a key, whose beginning is counted back from that key.   *)
LEMMA PreviousIsBefore ==
  ASSUME NEW desc \in BOOLEAN, NEW S \in SUBSET (Nat \X Nat), IsFiniteSet(S), NEW n \in Nat, NEW h \in S,
         NEW e \in S, Earlier(desc, e, h),
         Cardinality({f \in {g \in S : Earlier(desc, g, h)} : Earlier(desc, e, f)}) < n
  PROVE  LET U == {f \in S : ~Earlier(~desc, f, h)}
             c == Last(FirstOf(U, n + 1, ~desc))
         IN  e \in ToSet(FirstOf({f \in S : ~Earlier(desc, f, c)}, n, desc))
<1> DEFINE back == ~desc
           U == {f \in S : ~Earlier(~desc, f, h)}
           c == Last(FirstOf(U, n + 1, ~desc))
           T == {f \in S : ~Earlier(desc, f, c)}
           P == {f \in S : Earlier(desc, f, h)}
           p == FirstOf(U, n + 1, back)
           m == Len(p)
           A == {f \in P : Earlier(desc, e, f)}
<1>0. SUFFICES e \in ToSet(FirstOf(T, n, desc))
  OBVIOUS
<1>1. back \in BOOLEAN /\ n + 1 \in Nat /\ e \in S /\ Earlier(desc, e, h)
  OBVIOUS
<1> HIDE DEF c
<1>23. p = FirstOf(U, n + 1, back) /\ m = Len(p) /\ c = Last(p) /\ e \in P
  BY DEF c
<1>24. T = {f \in S : ~Earlier(desc, f, c)}
  OBVIOUS
<1>2. \A f, g \in S : Earlier(back, f, g) <=> Earlier(desc, g, f)
  BY WalkIsOrdered
<1>3. U = P \cup {h} /\ h \notin P
  <2>1. \A f \in S : ~Earlier(desc, h, f) <=> (Earlier(desc, f, h) \/ f = h)
    BY WalkIsOrdered
  <2>2. ~Earlier(desc, h, h)
    BY WalkIsOrdered
  <2> QED
    BY <1>2, <2>1, <2>2
<1>4. U \in SUBSET S /\ P \in SUBSET S /\ T \in SUBSET S
  OBVIOUS
<1>5. IsFiniteSet(U) /\ IsFiniteSet(P) /\ IsFiniteSet(T) /\ U \in SUBSET (Nat \X Nat) /\ T \in SUBSET (Nat \X Nat)
  <2>1. U \in SUBSET (Nat \X Nat) /\ T \in SUBSET (Nat \X Nat)
    OBVIOUS
  <2> HIDE DEF U, P, T
  <2> QED
    BY <1>4, <2>1, FS_Subset
<1>6. IsFiniteSet(A) /\ Cardinality(A) \in Nat /\ Cardinality(A) < n
  <2>1. A \in SUBSET P /\ Cardinality(A) < n
    OBVIOUS
  <2> HIDE DEF A
  <2> QED
    BY <1>5, <2>1, FS_Subset, FS_CardinalityType
<1>7. Place(U, back, e) <= n + 1
  <2> DEFINE D == {f \in U : Earlier(back, f, e)}
  <2>1. D = A \cup {h} /\ h \notin A
    BY <1>1, <1>2, <1>3
  <2>2. Cardinality(D) = Cardinality(A) + 1
    <3> HIDE DEF D, A, U, P
    <3> QED
      BY <1>6, <2>1, FS_AddElement
  <2>3. Place(U, back, e) = Cardinality(D) + 1
    BY DEF Place
  <2> QED
    BY <1>6, <2>2, <2>3
<1> HIDE DEF U, T
<1>8. /\ p \in Seq(U) /\ m <= n + 1
      /\ \A i \in 1..m : p[i] \in U /\ Place(U, back, p[i]) = i
      /\ \A i, j \in 1..m : i < j => Earlier(back, p[i], p[j])
      /\ e \in ToSet(p)
  <2>1. /\ p \in Seq(U) /\ m = IF n + 1 < Cardinality(U) THEN n + 1 ELSE Cardinality(U)
        /\ \A i \in 1..m : p[i] \in U /\ Place(U, back, p[i]) = i
        /\ \A i, j \in 1..m : i < j => Earlier(back, p[i], p[j])
        /\ \A f \in U : f \in ToSet(p) <=> Place(U, back, f) <= n + 1
    <3> DEFINE k == n + 1
               q == FirstOf(U, k, back)
    <3>1. k \in Nat
      BY <1>1
    <3> HIDE DEF k, back
    <3>2. /\ q \in Seq(U) /\ Len(q) = IF k < Cardinality(U) THEN k ELSE Cardinality(U)
          /\ \A i \in 1..Len(q) : q[i] \in U /\ Place(U, back, q[i]) = i
          /\ \A i, j \in 1..Len(q) : i < j => Earlier(back, q[i], q[j])
          /\ \A f \in U : f \in ToSet(q) <=> Place(U, back, f) <= k
      <4>1. back \in BOOLEAN /\ U \in SUBSET (Nat \X Nat) /\ IsFiniteSet(U)
        BY <1>1, <1>5
      <4>2. /\ q \in Seq(U)
            /\ Len(q) = IF k < Cardinality(U) THEN k ELSE Cardinality(U)
            /\ \A i \in 1..Len(q) : q[i] \in U /\ Place(U, back, q[i]) = i
            /\ \A f \in U : Place(U, back, f) <= Len(q) => q[Place(U, back, f)] = f
            /\ \A i, j \in 1..Len(q) : i < j => Earlier(back, q[i], q[j])
            /\ \A f \in U : f \in ToSet(q) <=> Place(U, back, f) <= k
            /\ \A f \in U : f \in ToSet(q) \/ (Len(q) = k /\ \A g \in ToSet(q) : Earlier(back, g, f))
        BY <3>1, <4>1, FirstInOrder
      <4> QED
        BY <4>2
    <3>3. q = p /\ k = n + 1
      BY DEF k
    <3> HIDE DEF q, p
    <3> QED
      BY <3>2, <3>3
  <2> HIDE DEF p, m
  <2>2. e \in U
    BY <1>3, <1>23
  <2>3. Cardinality(U) \in Nat
    BY <1>5, FS_CardinalityType
  <2>4. m <= n + 1
    BY <1>1, <2>1, <2>3
  <2> QED
    BY <1>7, <2>1, <2>2, <2>4
<1>9. c = Last(p)
  BY <1>23
<1> HIDE DEF p, m
<1>10. PICK k \in DOMAIN p : e = p[k]
  BY <1>8 DEF ToSet
<1>11. p # <<>>
  <2>1. DOMAIN <<>> = {}
    OBVIOUS
  <2> QED
    BY <1>10, <2>1
<1>12. /\ m \in 1..m /\ m \in Nat \ {0} /\ k \in 1..m /\ c = p[m] /\ c \in U
  BY <1>8, <1>9, <1>10, <1>11, Ends DEF m
<1>13. c \in S /\ (e = c \/ Earlier(desc, c, e))
  <2>1. k = m \/ k < m
    BY <1>12
  <2>2. e = c \/ Earlier(back, e, c)
    BY <1>8, <1>10, <1>12, <2>1
  <2> QED
    BY <1>1, <1>2, <1>4, <1>12, <2>2
<1>14. e \in T
  BY <1>1, <1>13, <1>24, WalkIsOrdered
<1> DEFINE X == {f \in T : Earlier(desc, f, e)}
           Y == {f \in U : Earlier(back, f, c)}
           Z == ((X \cup {e}) \ {c}) \cup {h}
<1>15. IsFiniteSet(Y) /\ Cardinality(Y) \in Nat /\ Cardinality(Y) <= n
  <2>1. IsFiniteSet(Y) /\ Cardinality(Y) \in Nat /\ Place(U, back, c) = Cardinality(Y) + 1
    BY <1>1, <1>5, <1>12, PlaceOf
  <2>2. Place(U, back, c) = m
    BY <1>8, <1>12
  <2> HIDE DEF Y
  <2> QED
    BY <1>8, <1>12, <2>1, <2>2
<1>16. IsFiniteSet(X) /\ Cardinality(X) \in Nat /\ Place(T, desc, e) = Cardinality(X) + 1
  BY <1>5, <1>14, PlaceOf
<1>17. \A f \in T : f \in S /\ (f = c \/ Earlier(desc, c, f))
  BY <1>13, <1>24, WalkIsOrdered
<1>18. Z \in SUBSET Y
  <2>1. ASSUME NEW f \in S, f # c, f = c \/ Earlier(desc, c, f), Earlier(desc, f, h) \/ f = h
        PROVE  f \in Y
    BY <1>2, <1>3, <1>4, <1>13, <2>1
  <2>2. ASSUME NEW f \in X
        PROVE  Earlier(desc, f, h) /\ f \in S /\ (f = c \/ Earlier(desc, c, f))
    BY <1>1, <1>17, <2>2, WalkIsOrdered
  <2>3. h # c /\ Earlier(desc, c, h)
    BY <1>1, <1>13, WalkIsOrdered
  <2>4. h \in Y
    BY <2>1, <2>3
  <2>5. e # c => e \in Y
    BY <1>1, <1>13, <2>1
  <2>6. ASSUME NEW f \in X, f # c
        PROVE  f \in Y
    BY <2>1, <2>2, <2>6
  <2> QED
    BY <2>4, <2>5, <2>6
<1>19. c \in X \cup {e} /\ e \notin X /\ h \notin (X \cup {e}) \ {c}
  <2>1. ~Earlier(desc, e, e) /\ ~Earlier(desc, h, e) /\ h # e
    BY <1>1, WalkIsOrdered
  <2>2. c \in T
    BY <1>13, <1>24, WalkIsOrdered
  <2> QED
    BY <1>13, <2>1, <2>2
<1>20. IsFiniteSet(Z) /\ Cardinality(Z) = Cardinality(X) + 1
  <2> HIDE DEF X
  <2>1. IsFiniteSet(X \cup {e}) /\ Cardinality(X \cup {e}) = Cardinality(X) + 1
    BY <1>16, <1>19, FS_AddElement
  <2> DEFINE V == X \cup {e}
  <2> HIDE DEF V
  <2>2. IsFiniteSet(V \ {c}) /\ Cardinality(V \ {c}) = Cardinality(X)
    <3>1. IsFiniteSet(V) /\ Cardinality(V) = Cardinality(X) + 1 /\ c \in V
      BY <1>19, <2>1 DEF V
    <3>2. IsFiniteSet(V \ {c}) /\ Cardinality(V \ {c}) = Cardinality(V) - 1
      BY <3>1, FS_RemoveElement
    <3> QED
      BY <1>16, <3>1, <3>2
  <2> DEFINE W == V \ {c}
  <2>3. h \notin W
    BY <1>19 DEF V
  <2> HIDE DEF W
  <2>4. IsFiniteSet(W \cup {h}) /\ Cardinality(W \cup {h}) = Cardinality(X) + 1
    BY <1>16, <2>2, <2>3, FS_AddElement DEF W
  <2> QED
    BY <2>4 DEF W, V
<1>21. Place(T, desc, e) <= n
  <2> HIDE DEF X, Y, Z
  <2>1. Cardinality(Z) <= Cardinality(Y)
    BY <1>15, <1>18, FS_Subset
  <2> QED
    BY <1>15, <1>16, <1>20, <2>1
<1>22. \A f \in T : f \in ToSet(FirstOf(T, n, desc)) <=> Place(T, desc, f) <= n
  BY <1>5, FirstInOrder
<1> QED
  BY <1>14, <1>21, <1>22

LEMMA PairsSame ==
  ASSUME Same
  PROVE  /\ PairsOfLast' = PairsOfLast
         /\ client'.page = client.page => PairsBefore' = PairsBefore
BY DEF Same, PairsOfLast, PairsBefore, Pairs, From

LEMMA BehindStays ==
  ASSUME WalkOK, BehindOK, Plain, Next
  PROVE  BehindOK'
<1> USE DEF WalkOK
<1> DEFINE Behind ==
      /\ client.stage = "lastLink" => IsLast(Key(client.doc))
      /\ client.links.last # NoCursor => IsLast(client.links.last)
      /\ client.stage = "list" /\ client.link = "last" => IsLast(client.cursor)
      /\ client.stage = "previousFrom" => Key(client.doc) = Head(client.page)
      /\ client.stage = "previousLink" => IsPrevious(Key(client.doc))
      /\ client.links.previous # NoCursor => IsPrevious(client.links.previous)
      /\ client.stage = "list" /\ client.link = "previous" => IsPrevious(client.cursor)
           Quiet == walk.quiet => ToSet(client.page) \subseteq Listed
           Found == walk.quiet /\ ~walk.torn => Behind
<1>1. Quiet /\ Found
  BY DEF BehindOK
<1> SUFFICES Quiet' /\ Found'
  BY DEF BehindOK
<1>2. /\ client.limit \in Nat /\ client.desc \in BOOLEAN /\ client.page \in Seq(Values \X Docs)
      /\ client.links \in [last : Written, previous : Written, next : Written]
      /\ (~client.desc) \in BOOLEAN /\ client.limit + 1 \in Nat
  <2>1. /\ client.limit \in Nat /\ client.desc \in BOOLEAN /\ client.page \in Seq(Values \X Docs)
        /\ client.links \in [last : Written, previous : Written, next : Written]
    BY DEF TypeOK, Clients
  <2> QED
    BY <2>1
<1>3. CASE Writing
  <2>1. client' = client
    BY <1>3, WritingTypes
  <2>2. CASE ~walk'.quiet
    BY <2>2
  <2>3. CASE UNCHANGED <<meta, ordered, walk>>
    BY <1>1, <2>1, <2>3
    DEF IsLast, IsPrevious, PairsOfLast, PairsBefore, Pairs, From, Listed, Key
  <2> QED
    BY <1>3, <2>2, <2>3, WritingDisturbs
(* What stays right while the request goes on.                             *)
<1>4. ASSUME SamePage
      PROVE  /\ Listed' = Listed /\ PairsOfLast' = PairsOfLast /\ PairsBefore' = PairsBefore
             /\ meta' = meta /\ client'.page = client.page
  BY <1>4, PairsSame, ListedSame DEF SamePage, Same
<1>5. ASSUME SamePage, walk' = walk
      PROVE  Quiet'
  BY <1>1, <1>4, <1>5
<1>6. CASE FirstPage
  <2>1. /\ SamePage /\ client'.stage = "list" /\ client'.link = "first" /\ client'.links = NoLinks
    BY <1>6, FirstPageStep
  <2>2. walk'.quiet = walk.quiet
    BY <1>6 DEF FirstPage, TypeOK
  <2> QED
    BY <1>1, <1>4, <2>1, <2>2 DEF NoLinks
<1>7. ASSUME NEW link \in {"last", "previous", "next"}, Follow(link)
      PROVE  Quiet' /\ Found'
  <2>1. /\ SamePage /\ client'.stage = "list" /\ client'.link = link /\ client'.links = NoLinks
        /\ client'.cursor = ParseCursor(client.links[link]) /\ client.links[link] # NoCursor
    BY <1>7, FollowStep DEF Follow
  <2>2. walk'.torn = walk.torn /\ walk'.quiet = walk.quiet
    BY <1>7 DEF Follow, TypeOK
  <2>3. Quiet'
    BY <1>1, <1>4, <2>1, <2>2
  <2>4. ASSUME walk.quiet, ~walk.torn, link \in {"last", "previous"}
        PROVE  client'.cursor = client.links[link]
    <3>1. client.links[link] \in Listed
      BY <1>1, <2>1, <2>4 DEF IsLast, IsPrevious
    <3>2. client.links[link] \in Values \X Docs
      BY <3>1, KeysOfListed
    <3> QED
      BY <2>1, <3>2, PlainCursors
  <2>5. ASSUME walk.quiet, ~walk.torn
        PROVE  /\ link = "last" => IsLast(client.links.last)
               /\ link = "previous" => IsPrevious(client.links.previous)
    BY <1>1, <2>1, <2>5
  <2>6. Found'
    BY <1>4, <2>1, <2>2, <2>4, <2>5 DEF IsLast, IsPrevious, NoLinks
  <2> QED
    BY <2>3, <2>6
<1>8. CASE ReadKeys \/ ReadMeta
  <2>1. /\ SamePage /\ walk' = walk /\ client'.stage = client.stage /\ client'.doc = client.doc
        /\ client'.cursor = client.cursor /\ client'.link = client.link /\ client'.links = client.links
    BY <1>8, ReadKeysStep, ReadMetaStep
  <2> QED
    BY <1>1, <1>4, <2>1 DEF IsLast, IsPrevious, Key
<1>9. CASE ListPage
  <2>1. /\ Same /\ client'.page = Pairs(client.cursor, client.limit, client.desc)
        /\ client'.stage \in {"listEnd", "fill"} /\ client'.links = NoLinks
    BY <1>9, ListPageStep DEF To, ToRead
  <2>2. ToSet(Pairs(client.cursor, client.limit, client.desc)) \subseteq Listed
    BY <1>2, Listing
  <2> QED
    BY <2>1, <2>2, ListedSame DEF NoLinks
(* The links so far stay, and no new one is being read.                    *)
<1>10. ASSUME SamePage, walk' = walk, client'.links = client.links,
              client'.stage \notin {"lastLink", "list", "previousFrom", "previousLink"}
       PROVE  Quiet' /\ Found'
  BY <1>1, <1>4, <1>10 DEF IsLast, IsPrevious
<1>11. CASE ListPageEnd \/ FillDocument \/ ListLast
  <2>1. /\ SamePage /\ walk' = walk /\ client'.links = client.links
        /\ client'.stage \notin {"lastLink", "list", "previousFrom", "previousLink"}
    BY <1>11, ListPageEndStep, FillDocumentStep, ListLastStep DEF To, ToRead
  <2> QED
    BY <1>10, <2>1
<1>12. CASE ListLastAgain
  <2>1. /\ SamePage /\ walk' = walk /\ client.stage = "lastAgain" /\ client'.links = client.links
        /\ IF aborted' THEN client' = client
           ELSE PairsOfLast # <<>> /\ ToRead("lastLink", Last(PairsOfLast))
    BY <1>12, ListLastAgainStep
  <2>2. CASE aborted'
    BY <1>10, <2>1, <2>2
  <2>3. CASE ~aborted'
    <3>1. PairsOfLast \in Seq(Values \X Docs) /\ ToSet(PairsOfLast) \subseteq Listed
      BY <1>2, Listing DEF PairsOfLast
    <3>2. Last(PairsOfLast) \in Listed
      BY <2>1, <2>3, <3>1, Ends
    <3>3. ~walk.torn => <<meta[Last(PairsOfLast)[2]], Last(PairsOfLast)[2]>> = Last(PairsOfLast)
      <4>1. ~walk.torn => writer.step # "erase"
        BY <2>1, StagesDiffer DEF UntornOK
      <4>2. ~walk.torn => Key(Last(PairsOfLast)[2]) = Last(PairsOfLast)
        BY <3>2, <4>1, KeysOfListed
      <4> QED
        BY <4>2 DEF Key
    <3>4. Quiet'
      BY <1>5, <2>1
    <3>5. client'.stage = "lastLink" /\ client'.doc = Last(PairsOfLast)[2]
      BY <2>1, <2>3 DEF To, ToRead
    <3>6. Found'
      BY <1>1, <1>4, <2>1, <2>3, <3>2, <3>3, <3>5 DEF IsLast, IsPrevious, Key
    <3> QED
      BY <3>4, <3>6
  <2> QED
    BY <2>2, <2>3
<1>13. CASE LinkLast
  <2>1. /\ SamePage /\ walk' = walk
        /\ client.stage = "lastLink" /\ client.keys \in {"read", "missing"} /\ To("previous")
        /\ client'.links = [client.links EXCEPT !.last = client.from]
    BY <1>13, LinkLastStep
  <2>2. client'.links.last = client.from /\ client'.links.previous = client.links.previous
    BY <1>2, <2>1
  <2>3. walk.quiet /\ ~walk.torn => IsLast(client.from)
    BY <1>1, <2>1, HasRead, StagesDiffer
  <2> QED
    BY <1>1, <1>4, <1>5, <2>1, <2>2, <2>3 DEF IsLast, IsPrevious, To
<1>14. CASE Previous \/ NextPage
  <2>1. /\ Same /\ walk' = walk /\ client'.page = PageNow /\ client.stage \in AtPage
        /\ client'.links = client.links
        /\ IF PageNow = <<>> THEN To("next") \/ To("idle")
           ELSE ToRead("previousFrom", Head(PageNow)) \/ ToRead("nextFrom", Last(PageNow))
    BY <1>14, PreviousStep, NextPageStep, StagesDiffer
  <2>2. client.page # <<>> => PageNow = client.page
    BY PageNowListed
  <2>3. Listed' = Listed /\ PairsOfLast' = PairsOfLast /\ meta' = meta
        /\ (client.page # <<>> => PairsBefore' = PairsBefore)
    BY <2>1, <2>2, PairsSame, ListedSame DEF Same
  <2>4. walk.quiet => /\ ToSet(PageNow) \subseteq Listed
                      /\ PageNow # <<>> => Head(PageNow) \in Listed
    BY <1>1, PageNowUntorn
  <2>5. Quiet'
    BY <2>1, <2>3, <2>4
  <2>6. ~walk.torn => writer.step # "erase"
    BY <2>1, StagesDiffer DEF UntornOK
  <2>7. walk.quiet /\ ~walk.torn /\ PageNow # <<>> => Key(Head(PageNow)[2]) = Head(PageNow)
    BY <2>4, <2>6, KeysOfListed
  <2>8. /\ client'.stage \notin {"lastLink", "list", "previousLink"}
        /\ client'.stage = "previousFrom" => PageNow # <<>> /\ client'.doc = Head(PageNow)[2]
    BY <2>1 DEF To, ToRead
  <2>9. Found'
    BY <1>1, <2>1, <2>2, <2>3, <2>7, <2>8 DEF IsLast, IsPrevious, Key
  <2> QED
    BY <2>5, <2>9
<1>15. CASE ListPrevious
  <2> DEFINE pairs == Pairs(Encoded(client.from), client.limit + 1, ~client.desc)
  <2>1. /\ SamePage /\ walk' = walk /\ client.stage = "previousFrom" /\ client.keys \in {"read", "missing"}
        /\ client'.links = client.links
        /\ IF pairs = <<>> THEN To("next") ELSE ToRead("previousLink", Last(pairs))
    BY <1>15, ListPreviousStep
  <2>2. CASE pairs = <<>>
    BY <1>10, <2>1, <2>2 DEF To
  <2>3. CASE pairs # <<>>
    <3>1. pairs \in Seq(Values \X Docs) /\ ToSet(pairs) \subseteq Listed
      BY <1>2, Listing
    <3>2. walk.quiet /\ ~walk.torn => pairs = PairsBefore
      <4>1. walk.quiet /\ ~walk.torn => Encoded(client.from) = Head(client.page)
        BY <1>1, <2>1, HasRead, StagesDiffer
      <4> QED
        BY <4>1 DEF PairsBefore
    <3> HIDE DEF pairs
    <3>3. Last(pairs) \in Listed
      BY <2>3, <3>1, Ends
    <3>4. ~walk.torn => <<meta[Last(pairs)[2]], Last(pairs)[2]>> = Last(pairs)
      <4>1. ~walk.torn => writer.step # "erase"
        BY <2>1, StagesDiffer DEF UntornOK
      <4>2. ~walk.torn => Key(Last(pairs)[2]) = Last(pairs)
        BY <3>3, <4>1, KeysOfListed
      <4> QED
        BY <4>2 DEF Key
    <3>5. client'.stage = "previousLink" /\ client'.doc = Last(pairs)[2] /\ client.page # <<>>
      BY <2>1, <2>3 DEF To, ToRead, StageOK
    <3>6. Found'
      BY <1>1, <1>4, <2>1, <3>2, <3>3, <3>4, <3>5 DEF IsLast, IsPrevious, Key
    <3> QED
      BY <1>5, <2>1, <3>6
  <2> QED
    BY <2>2, <2>3
<1>16. CASE LinkPrevious
  <2>1. /\ SamePage /\ walk' = walk
        /\ client.stage = "previousLink" /\ client.keys \in {"read", "missing"} /\ To("next")
        /\ client'.links = [client.links EXCEPT !.previous = client.from]
    BY <1>16, LinkPreviousStep
  <2>2. client'.links.previous = client.from /\ client'.links.last = client.links.last
    BY <1>2, <2>1
  <2>3. walk.quiet /\ ~walk.torn => IsPrevious(client.from)
    BY <1>1, <2>1, HasRead, StagesDiffer
  <2> QED
    BY <1>1, <1>4, <1>5, <2>1, <2>2, <2>3 DEF IsLast, IsPrevious, To
<1>17. CASE ListNext
  <2>1. /\ SamePage /\ walk' = walk /\ client'.links = client.links /\ client'.stage \in {"idle", "nextLink"}
    BY <1>17, ListNextStep DEF To, ToRead
  <2> QED
    BY <1>10, <2>1
<1>18. CASE LinkNext
  <2>1. /\ SamePage /\ walk' = walk /\ client'.stage = "idle"
        /\ client'.links = [client.links EXCEPT !.next = client.from]
    BY <1>18, LinkNextStep DEF To
  <2>2. client'.links.previous = client.links.previous /\ client'.links.last = client.links.last
    BY <1>2, <2>1
  <2> QED
    BY <1>1, <1>4, <1>5, <2>1, <2>2 DEF IsLast, IsPrevious
<1> QED
  BY <1>3, <1>6, <1>7, <1>8, <1>9, <1>11, <1>12, <1>13, <1>14, <1>15, <1>16, <1>17, <1>18, NextSplits DEF Asking

LEMMA ListedIsFrom ==
  ASSUME TypeOK
  PROVE  /\ Listed \in SUBSET (Nat \X Nat) /\ IsFiniteSet(Listed)
         /\ \A desc \in BOOLEAN : From(NoCursor, desc) = Listed
         /\ \A desc \in BOOLEAN, c \in Listed : From(c, desc) = {e \in Listed : ~Earlier(desc, e, c)}
<1>1. Listed \in SUBSET ordered /\ Listed \in SUBSET (Nat \X Nat)
  BY Sorts DEF Listed, From, TypeOK
<1>2. IsFiniteSet(Listed)
  <2> HIDE DEF Listed
  <2> QED
    BY <1>1, FS_Subset DEF TypeOK
<1>3. \A c \in Listed : c # NoCursor
  BY <1>1 DEF NoCursor
<1> QED
  BY <1>1, <1>2, <1>3 DEF Listed, From

LEMMA LastPageEnds ==
  ASSUME WalkOK, ListPage, IsLast(client.cursor)
  PROVE  LastEnds
<1> DEFINE S == Listed
           c == client.cursor
           T == {e \in S : ~Earlier(client.desc, e, c)}
           t == FirstOf(T, client.limit, client.desc)
<1>1. client.limit \in Nat /\ client.desc \in BOOLEAN /\ (~client.desc) \in BOOLEAN /\ TypeOK
  BY DEF WalkOK, TypeOK, Clients
<1>2. S \in SUBSET (Nat \X Nat) /\ IsFiniteSet(S)
  BY <1>1, ListedIsFrom
<1>3. c \in Listed /\ PairsOfLast # <<>> /\ c = Last(PairsOfLast)
  BY DEF IsLast
<1>4. PairsOfLast = FirstOf(S, client.limit, ~client.desc)
  BY <1>1, ListedIsFrom DEF PairsOfLast, Pairs
<1>5. client'.page = t
  <2>1. client'.page = Pairs(c, client.limit, client.desc)
    BY <1>1, ListPageStep DEF WalkOK
  <2>2. From(c, client.desc) = T
    BY <1>1, <1>3, ListedIsFrom
  <2> QED
    BY <2>1, <2>2 DEF Pairs
<1>6. /\ t # <<>> /\ Len(t) \in {client.limit, Cardinality(S)}
      /\ \A e \in S : ~Earlier(client.desc, Last(t), e)
  <2> DEFINE d == Last(FirstOf(S, client.limit, ~client.desc))
             u == FirstOf({e \in S : ~Earlier(client.desc, e, d)}, client.limit, client.desc)
  <2>1. FirstOf(S, client.limit, ~client.desc) # <<>> /\ d = c
    BY <1>3, <1>4
  <2>2. u = t
    BY <2>1
  <2> HIDE DEF S
  <2>3. /\ u # <<>> /\ Len(u) \in {client.limit, Cardinality(S)}
        /\ \A e \in S : ~Earlier(client.desc, Last(u), e)
    BY <1>1, <1>2, <2>1, LastIsEnd
  <2> QED
    BY <2>2, <2>3
<1> HIDE DEF t
<1> QED
  BY <1>5, <1>6 DEF LastEnds, Precedes

LEMMA PreviousPageAdjoins ==
  ASSUME WalkOK, ListPage, IsPrevious(client.cursor), ToSet(client.page) \subseteq Listed
  PROVE  PreviousAdjoins
<1> DEFINE S == Listed
           n == client.limit
           desc == client.desc
           h == Head(client.page)
           c == client.cursor
           P == {g \in S : Earlier(desc, g, h)}
<1>1. n \in Nat /\ desc \in BOOLEAN /\ (~desc) \in BOOLEAN /\ TypeOK /\ client.page \in Seq(Values \X Docs)
  BY DEF WalkOK, TypeOK, Clients
<1>2. S \in SUBSET (Nat \X Nat) /\ IsFiniteSet(S)
  BY <1>1, ListedIsFrom
<1>3. c \in Listed /\ client.page # <<>> /\ c = Last(PairsBefore)
  BY DEF IsPrevious
<1>4. h \in S
  BY <1>1, <1>3, Ends
<1>5. PairsBefore = FirstOf({f \in S : ~Earlier(~desc, f, h)}, n + 1, ~desc)
  <2>1. From(h, ~desc) = {f \in S : ~Earlier(~desc, f, h)}
    BY <1>1, <1>4, ListedIsFrom
  <2> QED
    BY <2>1 DEF PairsBefore, Pairs
<1>6. client'.page = FirstOf({f \in S : ~Earlier(desc, f, c)}, n, desc)
  <2>1. client'.page = Pairs(c, n, desc)
    BY <1>1, ListPageStep DEF WalkOK
  <2>2. From(c, desc) = {f \in S : ~Earlier(desc, f, c)}
    BY <1>1, <1>3, ListedIsFrom
  <2> QED
    BY <2>1, <2>2 DEF Pairs
<1>7. ASSUME NEW e \in S, Earlier(desc, e, h), Cardinality({f \in P : Earlier(desc, e, f)}) < n
      PROVE  e \in ToSet(client'.page)
  <2> DEFINE U == {f \in S : ~Earlier(~desc, f, h)}
             d == Last(FirstOf(U, n + 1, ~desc))
  <2>1. d = c
    BY <1>3, <1>5
  <2>2. e \in ToSet(FirstOf({f \in S : ~Earlier(desc, f, d)}, n, desc))
    <3> HIDE DEF S, n, desc, h
    <3> QED
      BY <1>1, <1>2, <1>4, <1>7, PreviousIsBefore
  <2> QED
    BY <1>6, <2>1, <2>2
<1> QED
  BY <1>7 DEF PreviousAdjoins, Precedes

(* While nothing is written, and no key is left over that a document does  *)
(* not have, the previous page is full or the first and ends right before  *)
(* the one it precedes, and the last page is full and ends the listing     *)
(* (query.cc getPrevious, getLast).                                        *)
THEOREM PagesBehindAreRight ==
  ASSUME Plain
  PROVE  Spec => PagesFromBehind
<1>1. Init => BehindOK
  <2>1. ASSUME Init
        PROVE  client.page = <<>> /\ client.stage = "idle" /\ client.links = NoLinks
    BY <2>1 DEF Init
  <2>2. ToSet(<<>>) = {}
    BY DEF ToSet
  <2> QED
    BY <2>1, <2>2 DEF BehindOK, NoLinks
<1>2. WalkOK /\ BehindOK /\ [Next]_vars => BehindOK'
  <2>1. ASSUME BehindOK, UNCHANGED vars
        PROVE  BehindOK'
    BY <2>1 DEF vars, BehindOK, IsLast, IsPrevious, PairsOfLast, PairsBefore, Pairs, From, Listed, Key
  <2> QED
    BY <2>1, BehindStays
<1>3. ASSUME WalkOK, BehindOK, ListPage, walk.quiet, ~walk'.torn
      PROVE  /\ client.link = "previous" => PreviousAdjoins
             /\ client.link = "last" => LastEnds
  <2>1. client.stage = "list" /\ ~walk.torn
    BY <1>3, ListPageStep DEF WalkOK
  <2> QED
    BY <1>3, <2>1, PreviousPageAdjoins, LastPageEnds DEF BehindOK
<1>4. WalkOK /\ BehindOK /\ [Next]_vars =>
        [ListPage /\ walk.quiet /\ ~walk'.torn =>
           /\ client.link = "previous" => PreviousAdjoins
           /\ client.link = "last" => LastEnds]_vars
  BY <1>3
<1> QED
  BY <1>1, <1>2, <1>4, WalkAlways, PTL DEF Spec, PagesFromBehind
=============================================================================
