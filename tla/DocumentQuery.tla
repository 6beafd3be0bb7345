---------------------------- MODULE DocumentQuery ----------------------------
(***************************************************************************)
(* Listings of documents by a metadata item, page by page, while documents *)
(* come and go (query.cc; setMeta and remove of document.cc).              *)
(*                                                                         *)
(* A document has its items in metaDB, and each item once more as a key of *)
(* orderedMetaDB: name, value, document.  A request walks the keys that    *)
(* begin with the name of the order and answers a page of documents, with  *)
(* cursors for the last, the previous and the next page.  It takes many    *)
(* calls to the databases and no lock.  The processor is the only writer.  *)
(*                                                                         *)
(* Modelled is one order.  A value is its rank among the keys' bytes, a    *)
(* document its rank among the documents' keys, an entry <<value, doc>>;   *)
(* one walk over the ordered keys is one step.  An operator that stands    *)
(* unused before a like one is a faulty variant of it.                     *)
(***************************************************************************)
EXTENDS Naturals, FiniteSets, SequencesExt

CONSTANTS
  Docs,      \* documents, as ranks
  DocType,   \* their doctypes, by which their keys are ordered first
  Sections,  \* the range of doctypes a request asks for: single ones and pairs
  Values,    \* values of the item, as ranks
  Forms,     \* what a document is given for the item, see below
  Escape,    \* rank of a value's url-encoded form
  Requests,  \* the orders and limits that clients ask for
  Moving,    \* bound of the model: documents that come and go
  MaxWrites  \* bound of the model: documents created

(* The item is set to one value after another, the last of which stays:    *)
(* for a generated item, the one of the form and then the true one.        *)
ASSUME QueryAssumptions ==
  /\ Docs \subseteq Nat \ {0} /\ IsFiniteSet(Docs)
  /\ DocType \in [Docs -> Nat \ {0}]
  /\ \A d, e \in Docs : d < e => DocType[d] <= DocType[e]
  /\ Sections \in Seq(Seq(Nat)) /\ \A k \in DOMAIN Sections : Len(Sections[k]) \in {1, 2}
  /\ Values \subseteq Nat \ {0}
  /\ Forms \subseteq Seq(Values) \ {<<>>}
  /\ Escape \in [Values -> Nat \ {0}]
  /\ Requests \subseteq [desc : BOOLEAN, limit : Nat]
  /\ Moving \subseteq Docs /\ MaxWrites \in Nat

VARIABLES
  meta,     \* metaDB: document -> its value, 0 for a document not there
  ordered,  \* orderedMetaDB: entries
  writer,   \* the document being created or removed
  writes,   \* documents created so far
  client,   \* the request being answered
  walk,     \* history: what following the pages has met
  aborted   \* undefined behaviour has been met

vars == <<meta, ordered, writer, writes, client, walk, aborted>>

NoMeta   == 0
NoWriter == [step |-> "idle", doc |-> 0, todo |-> <<>>]

(* The empty cursor, and the cursor of a document without a value.         *)
NoCursor == <<>>
NoLinks  == [last |-> NoCursor, previous |-> NoCursor, next |-> NoCursor]

(* The databases may hold documents from before.                           *)
Init ==
  /\ meta \in [Docs -> Values \cup {NoMeta}]
  /\ ordered = {e \in Values \X Docs : meta[e[2]] = e[1]}
  /\ writer = NoWriter
  /\ writes = 0
  /\ \E r \in Requests :
       client = [desc |-> r.desc, limit |-> r.limit,
                 stage |-> "idle", link |-> "none", cursor |-> NoCursor, page |-> <<>>, at |-> 0,
                 doc |-> 0, keys |-> "unread", from |-> NoCursor, links |-> NoLinks]
  /\ walk = [on |-> FALSE, stay |-> {}, seen |-> {}, torn |-> FALSE, quiet |-> TRUE]
  /\ aborted = FALSE

Described == {d \in Docs : meta[d] # NoMeta}
ItemKeys  == {<<meta[d], d>> : d \in Described}

Before(e, f) == e[1] < f[1] \/ (e[1] = f[1] /\ e[2] < f[2])

-----------------------------------------------------------------------------
(* DocTypeRange::parse: of a range 4-2 the lesser end comes first.  With a *)
(* section that is no doctype the whole range is void.                     *)
IsValid == \A k \in DOMAIN Sections : 0 \notin ToSet(Sections[k])

FirstEndFirst ==
  IF IsValid THEN UNION {Head(Sections[k])..Last(Sections[k]) : k \in DOMAIN Sections} ELSE {}

DocTypes ==
  IF IsValid THEN UNION {Min(ToSet(Sections[k]))..Max(ToSet(Sections[k])) : k \in DOMAIN Sections}
  ELSE {}

IsInRange(doctype) == DocTypes = {} \/ doctype \in DocTypes

Source == {d \in Docs : IsInRange(DocType[d])}

-----------------------------------------------------------------------------
(* createDocument: setMeta for each item of the form, then for the         *)
(* generated ones.                                                         *)
Create(d) ==
  /\ ~aborted
  /\ writer = NoWriter
  /\ writes < MaxWrites
  /\ d \in Moving /\ meta[d] = NoMeta
  /\ \E f \in Forms : writer' = [step |-> "meta", doc |-> d, todo |-> f]
  /\ writes' = writes + 1
  /\ UNCHANGED <<meta, ordered, client, walk, aborted>>

(* The map has the new value already when the old key is put together, so  *)
(* the key that is removed is the new one; that of another value before it *)
(* stays, and remove, which knows the last value only, leaves it too.      *)
SetMeta ==
  /\ ~aborted
  /\ writer.step = "meta"
  /\ LET e == <<Head(writer.todo), writer.doc>>
     IN  /\ ordered' = ordered \ {e}
         /\ meta' = [meta EXCEPT ![e[2]] = e[1]]
         /\ walk' = [walk EXCEPT !.quiet = FALSE,
                                 !.torn = \/ @ \/ meta[e[2]] \notin {NoMeta, e[1]}
                                          \/ client.stage # "idle" /\ e \in ordered]
  /\ writer' = [writer EXCEPT !.step = "ordered"]
  /\ UNCHANGED <<writes, client, aborted>>

SetOrdered ==
  /\ ~aborted
  /\ writer.step = "ordered"
  /\ ordered' = ordered \cup {<<Head(writer.todo), writer.doc>>}
  /\ writer' = IF Len(writer.todo) = 1 THEN NoWriter
               ELSE [writer EXCEPT !.step = "meta", !.todo = Tail(@)]
  /\ walk' = [walk EXCEPT !.quiet = FALSE]
  /\ UNCHANGED <<meta, writes, client, aborted>>

EraseAnyMeta(d) ==
  /\ ~aborted
  /\ writer = NoWriter
  /\ d \in Moving \cap Described
  /\ meta' = [meta EXCEPT ![d] = NoMeta]
  /\ writer' = [step |-> "erase", doc |-> d, todo |-> <<>>]
  /\ walk' = [walk EXCEPT !.stay = @ \ {d}, !.torn = @ \/ client.stage # "idle", !.quiet = FALSE]
  /\ UNCHANGED <<ordered, writes, client, aborted>>

(* Document::remove erases the items of the map it has read, in two calls. *)
EraseMeta(d) ==
  /\ ~aborted
  /\ writer = NoWriter
  /\ d \in Moving \cap Described
  /\ meta' = [meta EXCEPT ![d] = NoMeta]
  /\ writer' = [step |-> "erase", doc |-> d, todo |-> <<meta[d]>>]
  /\ walk' = [walk EXCEPT !.stay = @ \ {d}, !.torn = @ \/ client.stage # "idle", !.quiet = FALSE]
  /\ UNCHANGED <<ordered, writes, client, aborted>>

EraseOrdered ==
  /\ ~aborted
  /\ writer.step = "erase"
  /\ ordered' = ordered \ (ToSet(writer.todo) \X {writer.doc})
  /\ writer' = NoWriter
  /\ walk' = [walk EXCEPT !.torn = @ \/ client.stage # "idle", !.quiet = FALSE]
  /\ UNCHANGED <<meta, writes, client, aborted>>

-----------------------------------------------------------------------------
(* The order of a walk, forwards or backwards.                             *)
Earlier(desc, e, f) == IF desc THEN Before(f, e) ELSE Before(e, f)

(* The ordered keys of the range, from the cursor on.                      *)
From(cursor, desc) ==
  {e \in ordered : e[2] \in Source /\ (cursor = NoCursor \/ ~Earlier(desc, e, cursor))}

Place(S, desc, e) == Cardinality({f \in S : Earlier(desc, f, e)}) + 1

(* The first n of the keys, in the order of the walk.                      *)
FirstOf(S, n, desc) ==
  [i \in 1..(IF n < Cardinality(S) THEN n ELSE Cardinality(S)) |->
     CHOOSE e \in S : Place(S, desc, e) = i]

(* getDocPairs: from the cursor, or from the end.                          *)
Pairs(cursor, n, desc) == FirstOf(From(cursor, desc), n, desc)

(* A cursor as getCursor writes it has its value url-encoded, and          *)
(* parseCursor does not decode it.                                         *)
Encoded(c) == IF c = NoCursor \/ c[1] = 0 THEN c ELSE <<Escape[c[1]], c[2]>>

(* What the server makes of a cursor it gave, from a client that encodes   *)
(* what it sends: the value as getCursor wrote it.  A cursor that starts   *)
(* with its colon is refused and stands for none.                          *)
ParseCursor(c) == IF c = NoCursor \/ c[1] = 0 THEN NoCursor ELSE Encoded(c)

(* The documents a client means.                                           *)
Wanted ==
  {d \in Docs : \/ Sections = <<>>
                \/ \E k \in DOMAIN Sections : \E first, last \in ToSet(Sections[k]) :
                     DocType[d] \in first..last}

Reading == {"fill", "lastLink", "previousFrom", "previousLink", "nextFrom", "nextLink"}

(* getDocument: the keys of the items are listed, then each is read; if one *)
(* is gone by then, there is no document.                                  *)
ReadKeys ==
  /\ ~aborted
  /\ client.stage \in Reading /\ client.keys = "unread"
  /\ client' = [client EXCEPT !.keys = IF meta[client.doc] = NoMeta THEN "none" ELSE "some"]
  /\ UNCHANGED <<meta, ordered, writer, writes, walk, aborted>>

ReadMeta ==
  /\ ~aborted
  /\ client.keys \in {"none", "some"}
  /\ LET m == meta[client.doc]
     IN  client' = IF client.keys = "none"
                   THEN [client EXCEPT !.keys = "read", !.from = <<0, client.doc>>]
                   ELSE IF m = NoMeta
                   THEN [client EXCEPT !.keys = "missing", !.from = NoCursor]
                   ELSE [client EXCEPT !.keys = "read", !.from = <<m, client.doc>>]
  /\ UNCHANGED <<meta, ordered, writer, writes, walk, aborted>>

(* The request goes on to a stage, in most with a document to be read.     *)
Go(stage)         == [client EXCEPT !.stage = stage, !.at = 0, !.doc = 0, !.keys = "unread", !.from = NoCursor]
ReadFor(stage, e) == [client EXCEPT !.stage = stage, !.doc = e[2], !.keys = "unread", !.from = NoCursor]

IsRead == client.keys \in {"read", "missing"}

(* A client asks for the first page, and may go on from there; a request   *)
(* with a void range is refused.                                           *)
FirstPage ==
  /\ ~aborted
  /\ IsValid
  /\ client.stage = "idle"
  /\ client' = [Go("list") EXCEPT !.link = "first", !.links = NoLinks, !.cursor = NoCursor]
  /\ walk' = [walk EXCEPT !.on = TRUE, !.seen = {}, !.torn = ordered \ ItemKeys # {},
                !.stay = {d \in Wanted : d # writer.doc /\ <<meta[d], d>> \in ordered}]
  /\ UNCHANGED <<meta, ordered, writer, writes, aborted>>

Follow(link) ==
  /\ ~aborted
  /\ client.stage = "idle"
  /\ client.links[link] # NoCursor
  /\ client' = [Go("list") EXCEPT !.link = link, !.links = NoLinks,
                                  !.cursor = ParseCursor(client.links[link])]
  /\ walk' = [walk EXCEPT !.on = @ /\ link = "next"]
  /\ UNCHANGED <<meta, ordered, writer, writes, aborted>>

ListPage ==
  /\ ~aborted
  /\ client.stage = "list"
  /\ LET page == Pairs(client.cursor, client.limit, client.desc)
     IN  /\ client' = [(IF page = <<>> THEN Go("listEnd") ELSE ReadFor("fill", Head(page)))
                         EXCEPT !.page = page, !.at = 1]
         /\ walk' = [walk EXCEPT !.seen = @ \cup {e[2] : e \in ToSet(page)},
                       !.torn = @ \/ writer.step = "erase", !.quiet = TRUE]
  /\ UNCHANGED <<meta, ordered, writer, writes, aborted>>

(* An empty page is listed again for the end of the loop, whose start is   *)
(* then void if there is a document now.                                   *)
ListPageEnd ==
  /\ ~aborted
  /\ client.stage = "listEnd"
  /\ aborted' = (Pairs(client.cursor, client.limit, client.desc) # <<>>)
  /\ client' = Go("last")
  /\ UNCHANGED <<meta, ordered, writer, writes, walk>>

(* A document that is missing is dereferenced.                             *)
FillDocument ==
  /\ ~aborted
  /\ client.stage = "fill" /\ IsRead
  /\ aborted' = (client.keys = "missing")
  /\ client' = IF client.at < Len(client.page)
               THEN [ReadFor("fill", client.page[client.at + 1]) EXCEPT !.at = client.at + 1]
               ELSE Go("last")
  /\ UNCHANGED <<meta, ordered, writer, writes, walk>>

ListLastUnseen ==
  /\ ~aborted
  /\ client.stage = "last"
  /\ client' = Go("lastAgain")
  /\ UNCHANGED <<meta, ordered, writer, writes, walk, aborted>>

(* getLast lists twice, and takes the last of the second list unseen.      *)
ListLast ==
  /\ ~aborted
  /\ client.stage = "last"
  /\ client' = IF Pairs(NoCursor, client.limit, ~client.desc) = <<>> THEN Go("previous") ELSE Go("lastAgain")
  /\ UNCHANGED <<meta, ordered, writer, writes, walk, aborted>>

ListLastForwards ==
  /\ ~aborted
  /\ client.stage = "lastAgain"
  /\ LET pairs == Pairs(NoCursor, client.limit, client.desc)
     IN  /\ aborted' = (pairs = <<>>)
         /\ client' = IF pairs = <<>> THEN client ELSE ReadFor("lastLink", Last(pairs))
  /\ UNCHANGED <<meta, ordered, writer, writes, walk>>

ListLastAgain ==
  /\ ~aborted
  /\ client.stage = "lastAgain"
  /\ LET pairs == Pairs(NoCursor, client.limit, ~client.desc)
     IN  /\ aborted' = (pairs = <<>>)
         /\ client' = IF pairs = <<>> THEN client ELSE ReadFor("lastLink", Last(pairs))
  /\ UNCHANGED <<meta, ordered, writer, writes, walk>>

LinkLast ==
  /\ ~aborted
  /\ client.stage = "lastLink" /\ IsRead
  /\ client' = [Go("previous") EXCEPT !.links.last = client.from]
  /\ UNCHANGED <<meta, ordered, writer, writes, walk, aborted>>

(* getPrevious and getNext list an empty page once more.                   *)
PageNow == IF client.page = <<>> THEN Pairs(client.cursor, client.limit, client.desc) ELSE client.page

Previous ==
  /\ ~aborted
  /\ client.stage = "previous"
  /\ client' = [(IF PageNow = <<>> THEN Go("next") ELSE ReadFor("previousFrom", Head(PageNow)))
                  EXCEPT !.page = PageNow]
  /\ UNCHANGED <<meta, ordered, writer, writes, walk, aborted>>

OnlyPrevious == client.limit

PairsOfPrevious == client.limit + 1

ListPrevious ==
  /\ ~aborted
  /\ client.stage = "previousFrom" /\ IsRead
  /\ LET pairs == Pairs(Encoded(client.from), PairsOfPrevious, ~client.desc)
     IN  client' = IF pairs = <<>> THEN Go("next") ELSE ReadFor("previousLink", Last(pairs))
  /\ UNCHANGED <<meta, ordered, writer, writes, walk, aborted>>

LinkPrevious ==
  /\ ~aborted
  /\ client.stage = "previousLink" /\ IsRead
  /\ client' = [Go("next") EXCEPT !.links.previous = client.from]
  /\ UNCHANGED <<meta, ordered, writer, writes, walk, aborted>>

NextPage ==
  /\ ~aborted
  /\ client.stage = "next"
  /\ client' = [(IF PageNow = <<>> THEN Go("idle") ELSE ReadFor("nextFrom", Last(PageNow)))
                  EXCEPT !.page = PageNow]
  /\ UNCHANGED <<meta, ordered, writer, writes, walk, aborted>>

EndsOneEarly(pairs) == Len(pairs) <= 2

NoNext(pairs) == Len(pairs) <= 1

ListNextAtLast ==
  /\ ~aborted
  /\ client.stage = "nextFrom" /\ IsRead
  /\ LET pairs == Pairs(Encoded(client.from), 2, client.desc)
     IN  client' = IF NoNext(pairs) THEN Go("idle") ELSE ReadFor("nextLink", Head(pairs))
  /\ UNCHANGED <<meta, ordered, writer, writes, walk, aborted>>

(* The second of two pairs begins the next page.                           *)
ListNext ==
  /\ ~aborted
  /\ client.stage = "nextFrom" /\ IsRead
  /\ LET pairs == Pairs(Encoded(client.from), 2, client.desc)
     IN  client' = IF NoNext(pairs) THEN Go("idle") ELSE ReadFor("nextLink", Last(pairs))
  /\ UNCHANGED <<meta, ordered, writer, writes, walk, aborted>>

LinkNext ==
  /\ ~aborted
  /\ client.stage = "nextLink" /\ IsRead
  /\ client' = [Go("idle") EXCEPT !.links.next = client.from]
  /\ UNCHANGED <<meta, ordered, writer, writes, walk, aborted>>

-----------------------------------------------------------------------------
Next ==
  \/ \E d \in Docs : Create(d) \/ EraseMeta(d)
  \/ SetMeta \/ SetOrdered \/ EraseOrdered
  \/ FirstPage
  \/ \E link \in {"last", "previous", "next"} : Follow(link)
  \/ ReadKeys \/ ReadMeta
  \/ ListPage \/ ListPageEnd \/ FillDocument
  \/ ListLast \/ ListLastAgain \/ LinkLast
  \/ Previous \/ ListPrevious \/ LinkPrevious
  \/ NextPage \/ ListNext \/ LinkNext

Spec == Init /\ [][Next]_vars

-----------------------------------------------------------------------------
(* The values that a form gives before another one: a client may send an   *)
(* item called characters, doctype or docid, each of which is then set     *)
(* once more to what is true (document.cc:378-383).                        *)
Superseded == {v \in Values : \E f \in Forms : v \in ToSet(f) /\ v # Last(f)}

(* When nothing is being written, every item has its ordered key, and a    *)
(* key of a value that the document does not have is of one that a form    *)
(* gave before another: setMeta overwrites the map before it puts the old  *)
(* key together and so removes the new one (document.cc:120-125), and      *)
(* remove knows the last value only (document.cc:105-113).  No other       *)
(* order of creations and removals leaves a key or loses one.              *)
OrderedAgrees ==
  writer = NoWriter =>
    /\ ItemKeys \subseteq ordered
    /\ \A e \in ordered \ ItemKeys : e[1] \in Superseded

(* A request during which nothing is written meets no document that is     *)
(* null and takes nothing from an empty list (query.cc:286-288, 161-163);  *)
(* with writes it does both.                                               *)
ListingAnswers == aborted => ~walk.quiet

(* The client has followed the pages to the end.                           *)
WalkEnded == client.stage = "idle" /\ walk.on /\ client.links.next = NoCursor

(* Following the pages meets every document of the range that was there    *)
(* all along, and none of another doctype, if no ordered key is removed    *)
(* while a request is answered, and none is left over that a document does *)
(* not have; between requests documents may come, go, and come back        *)
(* elsewhere (query.cc getNext, DocTypeRange::parse).                      *)
PagesCoverAll ==
  /\ walk.seen \subseteq Wanted
  /\ WalkEnded /\ ~walk.torn => walk.stay \subseteq walk.seen

Precedes(e, f) == Earlier(client.desc, e, f)

(* The next page lies behind the page it follows, but for the same two     *)
(* exceptions: nothing is listed twice, and the pages come to an end.      *)
PagesAdvance ==
  [][ListPage /\ client.link = "next" /\ ~walk'.torn =>
       \A e \in ToSet(client.page), f \in ToSet(client'.page) : Precedes(e, f)]_vars

Listed == From(NoCursor, FALSE)

PreviousAdjoins ==
  LET before == {e \in Listed : Precedes(e, Head(client.page))}
  IN  {e \in before : Cardinality({f \in before : Precedes(e, f)}) < client.limit}
        \subseteq ToSet(client'.page)

LastEnds ==
  /\ client'.page # <<>>
  /\ \A e \in Listed : ~Precedes(Last(client'.page), e)
  /\ Len(client'.page) \in {client.limit, Cardinality(Listed)}

(* While nothing is written, and no key is left over, pages that are found *)
(* from behind are where they should be: the previous page is full or the  *)
(* first and ends right before the page it precedes, the last one is full  *)
(* and ends the listing.                                                   *)
PagesFromBehind ==
  [][ListPage /\ walk.quiet /\ ~walk'.torn =>
       /\ client.link = "previous" => PreviousAdjoins
       /\ client.link = "last" => LastEnds]_vars
=============================================================================
