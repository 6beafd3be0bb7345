----------------------------- MODULE Searching ------------------------------
(***************************************************************************)
(* One search (search.cc, searchIndex of posting.cc): the hashes of the    *)
(* text are looked up position by position, documents that are hit at      *)
(* consecutive positions are counted, and the best of them are compared    *)
(* with the text, until enough of them share a passage with it.            *)
(*                                                                         *)
(* The windows of the index are shorter than those of the passages, so     *)
(* that a passage hits several positions in a row.  The index is settled   *)
(* and holds all stored documents (see CommandQueue), if its lines have    *)
(* had room for them (posting.cc:91-92), and does not change during a      *)
(* search (see IndexSlots).                                                *)
(***************************************************************************)
EXTENDS TextMatch

CONSTANTS
  Docs, NoDoc,    \* NoDoc: the text of a temporary search
  StoredTexts(_), \* the texts a document may have
  TargetDocs,     \* documents of the target range
  RunLength,      \* 7: differences a tally keeps
  Modulus,        \* 256: positions are kept in a byte
  NumResults      \* getNumResults()

ASSUME SearchAssumptions ==
  /\ IsFiniteSet(Docs) /\ NoDoc \notin Docs
  /\ \A d \in Docs \cup {NoDoc} : StoredTexts(d) \subseteq Seq(Letters \cup Marks \cup {Blank})
  /\ TargetDocs \subseteq Docs
  /\ RunLength \in 1..WindowSize
  /\ {Modulus, NumResults} \subseteq Nat \ {0} /\ Modulus # 1

VARIABLES
  pc,           \* "lookup", "compare", "match", "done"
  texts,        \* the stored documents
  doc,          \* the one that is searched for, or NoDoc
  search,       \* its text
  position,     \* from 0
  tally,        \* for every document: count, previous position, differences
  pruned,       \* the documents that are left to compare, best first
  other,        \* the document that is compared
  associations  \* documents and their passages, in the order found

vars == <<matching, pc, texts, doc, search, position, tally, pruned, other, associations>>

(* getPostingWindowSize: "7 is the magic number ... which seems to map to  *)
(* 6".                                                                     *)
PostingWindowSize == WindowSize - (RunLength - 1)

PostingHashes(text) == Hashes(text, PostingWindowSize)

NoTally == [count |-> 0, previous |-> 0, differences |-> [k \in 1..RunLength |-> 0]]

HitUnreduced(t, d) ==
  LET differences == Append(Tail(t.differences), position - t.previous)
      consecutive == \A k \in 1..RunLength : differences[k] = 1
  IN  [count       |-> IF consecutive /\ d # doc THEN t.count + 1 ELSE t.count,
       previous    |-> position % Modulus,
       differences |-> [differences EXCEPT ![RunLength] = @ % Modulus]]

(* A hit at each of RunLength + 1 positions in a row leaves all differences *)
(* at one.                                                                 *)
Hit(t, d) ==
  LET differences == Append(Tail(t.differences), (position - t.previous) % Modulus)
      consecutive == \A k \in 1..RunLength : differences[k] = 1
  IN  [count       |-> IF consecutive /\ d # doc THEN t.count + 1 ELSE t.count,
       previous    |-> position % Modulus,
       differences |-> differences]

Init ==
  /\ texts \in {t \in [Docs -> UNION {StoredTexts(d) : d \in Docs}] :
                  \A d \in Docs : t[d] \in StoredTexts(d)}
  /\ doc \in Docs \cup {NoDoc}
  /\ IF doc = NoDoc THEN search \in StoredTexts(NoDoc) ELSE search = texts[doc]
  /\ position = 0
  /\ pc = "lookup"
  /\ tally = [d \in Docs |-> NoTally]
  /\ pruned = <<>>
  /\ other = NoDoc
  /\ associations = <<>>
  /\ from = <<>> /\ to = <<>> /\ matches = <<>> /\ results = {}

(* Blank windows are not looked up.                                        *)
LookUp ==
  /\ pc = "lookup"
  /\ position < Len(PostingHashes(search))
  /\ position' = position + 1
  /\ LET hash == PostingHashes(search)[position + 1]
     IN  tally' = IF hash = WhiteSpaceHash THEN tally
                  ELSE [d \in Docs |-> IF hash \in ToSet(PostingHashes(texts[d]))
                                       THEN Hit(tally[d], d) ELSE tally[d]]
  /\ UNCHANGED <<matching, pc, texts, doc, search, pruned, other, associations>>

Counted == {d \in TargetDocs : tally[d].count > 0}

AnyOrder == SetToSeqs(Counted)

(* Documents with equal counts come in any order.                          *)
BestFirst ==
  {s \in SetToSeqs(Counted) :
     \A i, j \in DOMAIN s : i < j => tally[s[i]].count >= tally[s[j]].count}

Prune ==
  /\ pc = "lookup"
  /\ position = Len(PostingHashes(search))
  /\ pc' = "compare"
  /\ pruned' \in BestFirst
  /\ UNCHANGED <<matching, texts, doc, search, position, tally, other, associations>>

RoomForOneMore == Len(associations) <= NumResults

Room == Len(associations) < NumResults

StartAssociation ==
  /\ pc = "compare"
  /\ pruned # <<>>
  /\ Room
  /\ pc' = "match"
  /\ pruned' = Tail(pruned)
  /\ other' = Head(pruned)
  /\ StartMatch(search, texts[Head(pruned)])
  /\ UNCHANGED <<texts, doc, search, position, tally, associations>>

Match ==
  /\ pc = "match"
  /\ TakePassage \/ DropMatch
  /\ UNCHANGED <<pc, texts, doc, search, position, tally, pruned, other, associations>>

(* The sides are swapped back; a document without a passage does not count. *)
EndAssociation ==
  /\ pc = "match"
  /\ matches = <<>>
  /\ pc' = "compare"
  /\ associations' =
       IF results = {} THEN associations
       ELSE Append(associations,
              [doc      |-> other,
               passages |-> IF Inverted(search, texts[other]) THEN Flip(results) ELSE results])
  /\ UNCHANGED <<matching, texts, doc, search, position, tally, pruned, other>>

EndSearch ==
  /\ pc = "compare"
  /\ pruned = <<>> \/ ~Room
  /\ pc' = "done"
  /\ UNCHANGED <<matching, texts, doc, search, position, tally, pruned, other, associations>>

Next ==
  LookUp \/ Prune \/ StartAssociation \/ Match \/ EndAssociation \/ EndSearch

Spec == Init /\ [][Next]_vars

-----------------------------------------------------------------------------
(* One character more than a window, the same in both texts, with no blank *)
(* window of the index inside.                                             *)
SharesMoreThanWindow(a, b) ==
  \E i \in 1..(Len(a) - WindowSize), j \in 1..(Len(b) - WindowSize) :
    /\ Window(a, i, WindowSize + 1) = Window(b, j, WindowSize + 1)
    /\ \A k \in 0..RunLength : ~IsBlank(Window(a, i + k, PostingWindowSize))

(* A search passes over no stored document that shares more than a window  *)
(* with its text, wherever in the texts it is and whatever was hit before, *)
(* and never comes up with the document itself (posting.cc:147-156).       *)
SearchFindsAll ==
  pc # "lookup" =>
    /\ {d \in TargetDocs \ {doc} : SharesMoreThanWindow(search, texts[d])} \subseteq Counted
    /\ doc \notin Counted

PassagesWith(a, b) ==
  IF Inverted(a, b) THEN Flip(SharedPassages(b, a)) ELSE SharedPassages(a, b)

(* The limit of results leaves out only documents that were hit less than  *)
(* those it lets in, or as often; below it, none that shares a passage     *)
(* (search.cc:57: documents without a passage do not use the limit up).    *)
BestAreAssociated ==
  pc = "done" =>
    LET associated == {associations[k].doc : k \in DOMAIN associations}
    IN  /\ Len(associations) <= NumResults
        /\ \A d \in Counted \ associated :
             PassagesWith(search, texts[d]) # {} =>
               /\ Len(associations) = NumResults
               /\ \A a \in associated : tally[a].count >= tally[d].count

Crowded(text) ==
  LET hashes == Hashes(text, WindowSize)
  IN  \E i \in DOMAIN hashes :
        /\ hashes[i] # WhiteSpaceHash
        /\ Cardinality({j \in DOMAIN hashes : hashes[j] = hashes[i]}) > PostingThreshold

(* A search for the other document finds the same passages the other way   *)
(* round, also where windows are passed over, unless the texts are equally *)
(* long: which of the two is searched for decides nothing (match swaps     *)
(* them, association.cc:156-159), so one record serves both.               *)
SameFromBothEnds ==
  \A k \in DOMAIN associations :
    LET text == texts[associations[k].doc]
    IN  Len(text) # Len(search) \/ ~(Crowded(text) \/ Crowded(search)) =>
          PassagesWith(text, search) = Flip(associations[k].passages)
=============================================================================
