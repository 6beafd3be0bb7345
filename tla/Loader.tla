------------------------------- MODULE Loader -------------------------------
(***************************************************************************)
(* A command that loads the documents of another instance (loader.cc,      *)
(* Command::loadDocuments of command.cc): it reads their listing page by   *)
(* page, fetches the text of each, and creates a command that adds it.     *)
(*                                                                         *)
(* The other instance is external: its documents come and go meanwhile, a  *)
(* connection is refused or breaks at any time, an answer may be no page.  *)
(* Documents are numbers in the order of the listing (see DocumentQuery).  *)
(* One call of getUrl is one step; what becomes of the commands that are   *)
(* created is in CommandQueue.  An operator that stands unused before a    *)
(* like one is a faulty variant of it.                                     *)
(***************************************************************************)
EXTENDS SortedSets, SequencesExt

CONSTANTS
  Docs,        \* documents the other instance may have, numbers from 1
  Moving,      \* those that come and go
  PageSize,    \* 10
  MaxAttempts  \* 5

ASSUME LoaderAssumptions ==
  /\ Docs \subseteq Nat \ {0} /\ IsFiniteSet(Docs) /\ Moving \subseteq Docs
  /\ PageSize \in Nat \ {0} /\ MaxAttempts \in Nat

VARIABLES
  remote,    \* the documents of the other instance
  step,      \* "page", "text", "done": what is fetched next
  open,      \* open_
  attempts,  \* attempts_
  cursor,    \* where the next page begins, 0 for the first
  more,      \* whether there is a page behind this one
  page,      \* documents_, from index_ on
  created,   \* the documents commands were created for, in order
  stay,      \* history: documents that were there all the time
  lost       \* history: documents that a failure has cost

connection == <<open, attempts>>
vars == <<remote, step, connection, cursor, more, page, created, stay, lost>>

(* Nothing sets open_ before it is read.                                   *)
Init ==
  /\ remote \in SUBSET Docs
  /\ step = "page"
  /\ open \in BOOLEAN
  /\ attempts = 0
  /\ cursor = 0
  /\ more = TRUE
  /\ page = <<>>
  /\ created = <<>>
  /\ stay = remote
  /\ lost = {}

-----------------------------------------------------------------------------
(* A request is answered over a connection that is there, or can be made.  *)
Answered ==
  /\ open' = TRUE
  /\ attempts' = 0

RetryAfresh ==
  /\ attempts < MaxAttempts
  /\ open' \in BOOLEAN
  /\ UNCHANGED attempts

(* Whether closing the connection succeeds decides whether it is made anew. *)
Retry ==
  /\ attempts < MaxAttempts
  /\ attempts' = attempts + 1
  /\ open' \in BOOLEAN

(* No connection can be made, or one attempt too many has failed.          *)
GivenUp ==
  \/ ~open /\ UNCHANGED connection
  \/ attempts = MaxAttempts /\ open' = TRUE /\ attempts' = 0

(* The request, which has failed, is made again.                           *)
TryAgain ==
  /\ step # "done"
  /\ Retry
  /\ UNCHANGED <<remote, step, cursor, more, page, created, stay, lost>>

(* The page there is from the cursor on, and where the one behind begins:  *)
(* both of one moment here, see DocumentQuery.                             *)
Listing ==
  LET rest == Sorted({d \in remote : d >= cursor}, [d \in Docs |-> d])
  IN  SubSeq(rest, 1, Min({PageSize, Len(rest)}))

NextCursorAtLast(rows) ==
  IF rows = <<>> \/ \A d \in remote : d <= Last(rows) THEN 0 ELSE Last(rows)

NextCursor(rows) ==
  LET behind == {d \in remote : rows # <<>> /\ d > Last(rows)}
  IN  IF behind = {} THEN 0 ELSE Min(behind)

Turn(documents) == IF documents # <<>> THEN "text" ELSE IF more' THEN "page" ELSE "done"

GetNextPage ==
  /\ step = "page"
  /\ Answered
  /\ page' = Listing
  /\ cursor' = NextCursor(Listing)
  /\ more' = (cursor' # 0)
  /\ step' = Turn(page')
  /\ UNCHANGED <<remote, created, stay, lost>>

(* Without an answer, or with one that is no page, the load is over.       *)
GetNoPage ==
  /\ step = "page"
  /\ Answered \/ GivenUp
  /\ page' = <<>>
  /\ more' = FALSE
  /\ step' = "done"
  /\ lost' = lost \cup {d \in Docs : d >= cursor}
  /\ UNCHANGED <<remote, cursor, created, stay>>

(* An answer that there is no such document is taken for its text.         *)
GetNextDocument ==
  /\ step = "text"
  /\ Answered
  /\ created' = Append(created, Head(page))
  /\ page' = Tail(page)
  /\ UNCHANGED more
  /\ step' = Turn(page')
  /\ UNCHANGED <<remote, cursor, stay, lost>>

(* A text that is not answered for costs the rest of the page.             *)
GetNoDocument ==
  /\ step = "text"
  /\ GivenUp
  /\ page' = <<>>
  /\ UNCHANGED more
  /\ step' = Turn(page')
  /\ lost' = lost \cup ToSet(page)
  /\ UNCHANGED <<remote, cursor, created, stay>>

Load == TryAgain \/ GetNextPage \/ GetNoPage \/ GetNextDocument \/ GetNoDocument

(* The other instance goes on adding and dropping documents.               *)
Change ==
  /\ \E d \in Moving :
       /\ remote' = IF d \in remote THEN remote \ {d} ELSE remote \cup {d}
       /\ stay' = stay \ {d}
  /\ UNCHANGED <<step, connection, cursor, more, page, created, lost>>

Next == Load \/ Change

(* A call of the network returns some day.                                 *)
Spec == Init /\ [][Next]_vars /\ WF_vars(Load)

-----------------------------------------------------------------------------
(* A load creates every document at most once, in the order of the         *)
(* listing, and misses none that is there all the time except those that   *)
(* a failure costs: the rest of a page whose text was not answered for, or *)
(* everything from a page on that was not answered for.  Pages behind a    *)
(* text that failed are loaded nevertheless (command.cc:153-158).          *)
LoadsEachOnce ==
  /\ \A i, j \in DOMAIN created : i < j => created[i] < created[j]
  /\ step = "done" => stay \subseteq ToSet(created) \cup lost

(* A load comes to an end, whatever the network does and while documents   *)
(* come and go: a request is made again a limited number of times, and     *)
(* every page lies behind the one before.                                  *)
LoadEnds == <>(step = "done")
=============================================================================
