---------------------------- MODULE WebInterface ----------------------------
(***************************************************************************)
(* The web interface (public/app): one page of tabs in a browser.          *)
(*                                                                         *)
(* The tab of documents has a list, read page by page, whose selected      *)
(* document is shown below it with its matches; a match can be gone to, or *)
(* compared in a window over the page.  Every one of these asks the server *)
(* and goes on at once.  Several requests are under way at a time, they    *)
(* are answered in any order, and no handler asks whether its answer is    *)
(* still wanted; none handles a failure.                                   *)
(*                                                                         *)
(* The server answers from documents that do not change here, see          *)
(* DocumentQuery for those that do.  ExtJS is external: its stores call    *)
(* the handlers in the order of the answers.  An operator that stands      *)
(* unused before a like one is a faulty variant of it.                     *)
(***************************************************************************)
EXTENDS SortedSets, SequencesExt

CONSTANTS
  Docs,         \* documents
  DocType,      \* their doctypes
  Orders,       \* items of the metadata a list can be ordered by
  Key,          \* place of a document in an order, from 1
  DefaultOrder, \* the order of a list without sorters: by doctype
  Filters,      \* contents of the doctype filter: sets of doctypes, {} when empty
  Matches,      \* the documents that match a document
  Invalid,      \* a content that the field does not accept
  NoDoc, NoWindow,
  PageSize,
  MaxInFlight   \* bound of the model: requests under way

ASSUME WebAssumptions ==
  /\ DefaultOrder \in Orders /\ IsFiniteSet(Docs)
  /\ \A o \in Orders, d \in Docs : DocType[d] \in Nat /\ Key[o][d] \in Nat \ {0}
  /\ \A o \in Orders, d, e \in Docs : d # e => Key[o][d] # Key[o][e]
  /\ Matches \in [Docs -> SUBSET Docs]
  /\ {} \in Filters /\ \A f \in Filters : f \subseteq Nat
  /\ Invalid \notin Filters /\ NoDoc \notin Docs /\ NoWindow \notin Docs
  /\ PageSize \in Nat \ {0} /\ MaxInFlight \in Nat

VARIABLES
  tab,       \* the active tab
  field,     \* content of the doctype filter
  order,     \* sorters of the list's store
  list,      \* the page of the list with its cursors, and what it is a page of
  selected,  \* the selected row
  shown,     \* the documents whose text, matches and fragments are displayed
  window,    \* the match being compared and the text at its right
  masked,    \* parts that are masked until an answer comes
  requests,  \* requests under way, oldest first
  calm,      \* history: answers have come in order, none failed, and no list
             \* came empty while a document was under way
  denied,    \* history: masked parts whose request has failed
  goal       \* history: the document gone to last

seen    == <<tab, field, order, list, selected, shown, window, masked>>
history == <<calm, denied, goal>>
vars    == <<seen, requests, history>>

Tabs  == {"Search", "Documents"}
Parts == {"form", "results", "window"}

NoCursors == [first |-> 0, last |-> 0, previous |-> 0, next |-> 0]

Init ==
  /\ tab = "Search"
  /\ field = {}
  /\ order = DefaultOrder
  /\ list = [page |-> <<>>, cursors |-> NoCursors, types |-> {}, order |-> DefaultOrder]
  /\ selected = NoDoc
  /\ shown = [text |-> NoDoc, matches |-> NoDoc, fragments |-> NoDoc]
  /\ window = NoWindow
  /\ masked = {}
  /\ requests = <<>>
  /\ calm = TRUE
  /\ denied = {}
  /\ goal = NoDoc

-----------------------------------------------------------------------------
(* The server: a page of the documents of some doctypes in an order, from  *)
(* a cursor on, and the cursors of the pages around it.  A cursor is the   *)
(* place of a document; 0 is the empty one.                                *)
Listing ==
  [types \in Filters |-> [o \in Orders |->
     Sorted({d \in Docs : types = {} \/ DocType[d] \in types}, Key[o])]]

PageAt(types, o, start) ==
  LET all    == Listing[types][o]
      before == Cardinality({i \in DOMAIN all : Key[o][all[i]] < start})
  IN  SubSeq(all, before + 1, Min({before + PageSize, Len(all)}))

CursorsOf(page, types, o) ==
  LET all    == Listing[types][o]
      n      == Len(all)
      at(i)  == Key[o][all[Max({1, i})]]
      front  == SelectInSeq(all, LAMBDA d : d = Head(page))
      behind == front + Len(page)
  IN  [first    |-> 0,
       last     |-> IF all = <<>> THEN 0 ELSE at(n - PageSize + 1),
       previous |-> IF page = <<>> THEN 0 ELSE at(front - PageSize),
       next     |-> IF page = <<>> \/ behind > n THEN 0 ELSE at(behind)]

Cursors == {0} \cup {Key[o][d] : o \in Orders, d \in Docs}

ListAnswer ==
  [types \in Filters |-> [o \in Orders |-> [start \in Cursors |->
     LET page == PageAt(types, o, start)
     IN  [page |-> page, cursors |-> CursorsOf(page, types, o), types |-> types, order |-> o]]]]

AnswerTo(r) == ListAnswer[r.types][r.order][r.start]

-----------------------------------------------------------------------------
(* What is sent to the server.  The list is filtered by what the field     *)
(* holds, if it accepts it.                                                *)
Request(kind, d) == [kind |-> kind, doc |-> d]

DocumentRequest(d) == Request("document", d)

ListRequest(f, o, start) ==
  [kind |-> "list", types |-> IF f = Invalid THEN {} ELSE f, order |-> o, start |-> start]

InFlight(kind) == \E i \in DOMAIN requests : requests[i].kind = kind

(* A user looks at a window only while there is one.                       *)
Acting == window = NoWindow /\ Len(requests) < MaxInFlight

(* A list that is asked for while nothing else is under way puts an end to *)
(* what trouble there was before.                                          *)
Ask(reqs) ==
  /\ requests' = requests \o reqs
  /\ Len(requests') <= MaxInFlight
  /\ calm' = (calm \/ (requests = <<>> /\ reqs # <<>> /\ Last(reqs).kind = "list"))

(* Masked are the text's matches (ResultsContainer.js:124-127, 141-142),   *)
(* the search form (SearchForm.js:70, 88) and the right text of the window *)
(* (SideBySide.js:78, 83), each in the steps that do it; the list of the   *)
(* documents and the results of the Search tab have masks that are not.    *)
Mask(part)   == masked' = masked \cup {part} /\ denied' = denied \ {part}
Unmask(part) == masked' = masked \ {part} /\ denied' = denied \ {part}

(* activate of the documents' tab: DocumentBrowser.load without a document. *)
LoadIfEmpty ==
  IF tab # "Documents" /\ list.page = <<>> THEN <<ListRequest(field, order, list.cursors.first)>> ELSE <<>>

ShowDocuments ==
  /\ Acting /\ tab # "Documents"
  /\ tab' = "Documents"
  /\ Ask(LoadIfEmpty)
  /\ goal' = NoDoc
  /\ UNCHANGED <<field, order, list, selected, shown, window, masked, denied>>

ShowSearch ==
  /\ Acting /\ tab # "Search"
  /\ tab' = "Search"
  /\ UNCHANGED <<field, order, list, selected, shown, window, masked, requests, history>>

LastField(f) ==
  /\ Acting /\ tab = "Documents" /\ f # field
  /\ field' = f
  /\ IF f = Invalid THEN UNCHANGED <<requests, calm, goal>>
     ELSE Ask(<<ListRequest(field, order, list.cursors.first)>>) /\ goal' = NoDoc
  /\ UNCHANGED <<tab, order, list, selected, shown, window, masked, denied>>

(* onDoctypeFilterChange, at every key.                                    *)
TypeFilter(f) ==
  /\ Acting /\ tab = "Documents" /\ f # field
  /\ field' = f
  /\ IF f = Invalid THEN UNCHANGED <<requests, calm, goal>>
     ELSE Ask(<<ListRequest(f, order, list.cursors.first)>>) /\ goal' = NoDoc
  /\ UNCHANGED <<tab, order, list, selected, shown, window, masked, denied>>

(* A click on the header of a column.                                      *)
Sort(o) ==
  /\ Acting /\ tab = "Documents" /\ o # order
  /\ order' = o
  /\ Ask(<<ListRequest(field, o, 0)>>)
  /\ goal' = NoDoc
  /\ UNCHANGED <<tab, field, list, selected, shown, window, masked, denied>>

(* The buttons below the list; there is a next page if it has a cursor.    *)
Move(position) ==
  /\ Acting /\ tab = "Documents"
  /\ position = "next" => list.cursors.next # 0
  /\ Ask(<<ListRequest(field, order, list.cursors[position])>>)
  /\ goal' = NoDoc
  /\ UNCHANGED <<tab, field, order, list, selected, shown, window, masked, denied>>

SelectRow(d) ==
  /\ Acting /\ tab = "Documents"
  /\ d \in ToSet(list.page) /\ d # selected
  /\ selected' = d
  /\ Mask("results")
  /\ Ask(<<DocumentRequest(d)>>) /\ UNCHANGED <<tab, field, order, list, shown, window>>
  /\ goal' = NoDoc

GoToBeforeTab(d) ==
  /\ Acting
  /\ tab' = "Documents"
  /\ order' = DefaultOrder
  /\ Ask(<<ListRequest(field, DefaultOrder, Key[DefaultOrder][d])>> \o LoadIfEmpty)
  /\ goal' = IF field \in {{}, Invalid} \/ DocType[d] \in field THEN d ELSE NoDoc
  /\ UNCHANGED <<field, list, selected, shown, window, masked, denied>>

(* onDocumentShow: first the tab, then the page that begins with the       *)
(* document, without sorters but with the filter, which may leave it out.  *)
GoTo(d) ==
  /\ Acting
  /\ tab' = "Documents"
  /\ order' = DefaultOrder
  /\ Ask(LoadIfEmpty \o <<ListRequest(field, DefaultOrder, Key[DefaultOrder][d])>>)
  /\ goal' = IF field \in {{}, Invalid} \/ DocType[d] \in field THEN d ELSE NoDoc
  /\ UNCHANGED <<field, list, selected, shown, window, masked, denied>>

(* SearchForm.search, once at a time because the form is masked.           *)
Search ==
  /\ Acting /\ tab = "Search" /\ "form" \notin masked
  /\ Mask("form")
  /\ requests' = Append(requests, Request("search", NoDoc))
  /\ UNCHANGED <<tab, field, order, list, selected, shown, window, calm, goal>>

(* SideBySide.compare, from the matches that are displayed.                *)
Compare(d) ==
  /\ Acting /\ tab = "Documents" /\ "results" \notin masked
  /\ shown.matches # NoDoc /\ d \in Matches[shown.matches]
  /\ window' = [match |-> d, right |-> NoDoc]
  /\ Mask("window")
  /\ requests' = Append(requests, Request("compare", d))
  /\ UNCHANGED <<tab, field, order, list, selected, shown, calm, goal>>

CloseWindow ==
  /\ window # NoWindow
  /\ window' = NoWindow
  /\ Unmask("window")
  /\ UNCHANGED <<tab, field, order, list, selected, shown, requests, calm, goal>>

-----------------------------------------------------------------------------
(* The answer to the i-th request; it overtakes those before it.           *)
Answered(i, undisturbed) ==
  /\ calm' = (calm /\ i = 1 /\ undisturbed)
  /\ goal' = IF calm' THEN goal ELSE NoDoc
  /\ UNCHANGED <<tab, field, order>>

KeepSelection(i) ==
  /\ i \in DOMAIN requests /\ requests[i].kind = "list"
  /\ LET page == AnswerTo(requests[i]).page
     IN  /\ list' = AnswerTo(requests[i])
         /\ selected' = IF page = <<>> THEN NoDoc ELSE Head(page)
  /\ requests' = RemoveAt(requests, i)
  /\ UNCHANGED <<shown, masked, denied, window>>
  /\ Answered(i, TRUE)

(* onLoad of the store and of the browser: the first row is selected and   *)
(* its document asked for.  With no row the text and the matches are       *)
(* cleared; the fragments stay, and so does the mask.  A document that the *)
(* list before has asked for is still to come, and will be shown.          *)
AnswerList(i) ==
  /\ i \in DOMAIN requests /\ requests[i].kind = "list"
  /\ LET page == AnswerTo(requests[i]).page
     IN  /\ list' = AnswerTo(requests[i])
         /\ IF page = <<>>
            THEN /\ selected' = NoDoc
                 /\ shown' = [shown EXCEPT !.text = NoDoc, !.matches = NoDoc]
                 /\ requests' = RemoveAt(requests, i)
                 /\ UNCHANGED <<masked, denied>>
            ELSE /\ selected' = Head(page)
                 /\ requests' = Append(RemoveAt(requests, i), DocumentRequest(Head(page)))
                 /\ Mask("results")
                 /\ UNCHANGED shown
         /\ Answered(i, page # <<>> \/ ~InFlight("document"))
  /\ UNCHANGED window

KeepMask(i) ==
  /\ i \in DOMAIN requests /\ requests[i].kind = "document"
  /\ LET d == requests[i].doc IN shown' = [text |-> d, matches |-> d, fragments |-> d]
  /\ requests' = RemoveAt(requests, i)
  /\ UNCHANGED <<list, selected, window, masked, denied>>
  /\ Answered(i, TRUE)

(* onResults, onDocumentSelected.                                          *)
AnswerDocument(i) ==
  /\ i \in DOMAIN requests /\ requests[i].kind = "document"
  /\ LET d == requests[i].doc IN shown' = [text |-> d, matches |-> d, fragments |-> d]
  /\ Unmask("results")
  /\ requests' = RemoveAt(requests, i)
  /\ UNCHANGED <<list, selected, window>>
  /\ Answered(i, TRUE)

AnswerSearch(i) ==
  /\ i \in DOMAIN requests /\ requests[i].kind = "search"
  /\ Unmask("form")
  /\ requests' = RemoveAt(requests, i)
  /\ UNCHANGED <<list, selected, shown, window>>
  /\ Answered(i, TRUE)

FirstTextStays(i) ==
  /\ i \in DOMAIN requests /\ requests[i].kind = "compare"
  /\ window' = IF window = NoWindow \/ window.right # NoDoc THEN window
               ELSE [window EXCEPT !.right = requests[i].doc]
  /\ Unmask("window")
  /\ requests' = RemoveAt(requests, i)
  /\ UNCHANGED <<list, selected, shown>>
  /\ Answered(i, TRUE)

(* For want of a comma, right is a global variable (SideBySide.js:71): an  *)
(* answer goes to the window there is, not to the one that asked for it.   *)
AnswerCompare(i) ==
  /\ i \in DOMAIN requests /\ requests[i].kind = "compare"
  /\ window' = IF window = NoWindow THEN NoWindow ELSE [window EXCEPT !.right = requests[i].doc]
  /\ Unmask("window")
  /\ requests' = RemoveAt(requests, i)
  /\ UNCHANGED <<list, selected, shown>>
  /\ Answered(i, TRUE)

PartOf(kind) ==
  CASE kind = "document" -> {"results"} [] kind = "search" -> {"form"}
    [] kind = "compare" -> {"window"} [] kind = "list" -> {}

(* No answer, a refusal or a document that is gone: no handler is told, or *)
(* it stops at a list that is null (DocumentBrowser.js:113).               *)
Fail(i) ==
  /\ i \in DOMAIN requests
  /\ requests' = RemoveAt(requests, i)
  /\ calm' = FALSE
  /\ goal' = NoDoc
  /\ denied' = denied \cup (PartOf(requests[i].kind) \cap masked)
  /\ UNCHANGED seen

Respond(i) == AnswerList(i) \/ AnswerDocument(i) \/ AnswerSearch(i) \/ AnswerCompare(i) \/ Fail(i)

Next ==
  \/ ShowDocuments \/ ShowSearch
  \/ \E f \in Filters \cup {Invalid} : TypeFilter(f)
  \/ \E o \in Orders : Sort(o)
  \/ \E position \in DOMAIN NoCursors : Move(position)
  \/ \E d \in Docs : SelectRow(d) \/ GoTo(d) \/ Compare(d)
  \/ Search \/ CloseWindow
  \/ \E i \in 1..MaxInFlight : Respond(i)

(* Every request is answered or fails some day.                            *)
Fairness == WF_vars(Respond(1))

Spec == Init /\ [][Next]_vars /\ Fairness

-----------------------------------------------------------------------------
(* Nothing is under way, and there was no trouble since a list was asked   *)
(* for.                                                                    *)
Settled == requests = <<>> /\ calm

(* When all is answered in order, the list is a page of the doctypes in    *)
(* the filter, in the order of the headers, whatever was typed, clicked    *)
(* and gone to before the answers came; while the filter holds what the    *)
(* field does not accept, it is the list of before, or one unfiltered      *)
(* (DocumentBrowser.js:94-106, Documents.js:33-60).                        *)
ListFitsField ==
  Settled /\ field # Invalid => list.types = field /\ list.order = order

(* The text and the matches are those of the selected document, and so are *)
(* the fragments unless the list is empty (DocumentBrowser.js:108-135,     *)
(* controller/Documents.js:42-51).  Answers out of order show another one. *)
ShownIsSelected ==
  Settled =>
    /\ shown.text = selected /\ shown.matches = selected
    /\ selected # NoDoc => shown.fragments = selected

(* Who goes to a document sees it, from whatever tab, order and page, if   *)
(* the filter has its doctype (controller/Documents.js:37-40).             *)
GoToShows ==
  Settled /\ goal # NoDoc => shown.text = goal

(* The window shows at its right the text of the match it was opened for,  *)
(* once there are no answers to come for windows closed before             *)
(* (SideBySide.js:69-88).                                                  *)
WindowShowsMatch ==
  Settled /\ window # NoWindow => window.right = window.match

(* What is masked until an answer comes is unmasked when it comes; only a  *)
(* failure leaves the mask for good (SearchForm.js:64-90, DocumentBrowser  *)
(* .js:124-127, SideBySide.js:78-84).                                      *)
MasksLift ==
  \A part \in Parts : part \in masked ~> (part \notin masked \/ part \in denied)
=============================================================================
