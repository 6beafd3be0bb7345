------------------------------ MODULE PostLine ------------------------------
(***************************************************************************)
(* One line of the index: the documents that have a hash, as bytes         *)
(* (postline.cc, VarIntCodec of codec.cc, alterIndex of posting.cc).       *)
(*                                                                         *)
(* A line is a header, which has for each doctype how many bytes its       *)
(* section takes, and the sections: docids in order, each as its distance  *)
(* from the one before.  It lies in an allocated block, and is rewritten   *)
(* by every change under the writer lock of its slot, so a change is one   *)
(* step.  A number takes as many bytes as it has digits in base Base; a    *)
(* section is found by counting bytes.                                     *)
(*                                                                         *)
(* The code computes its positions from lengths, and a test compares lines *)
(* with sets of documents; so do the properties here.  An operator that    *)
(* stands unused before a like one is a faulty variant of it.              *)
(***************************************************************************)
EXTENDS Integers, FiniteSets, SequencesExt

CONSTANTS
  Doctypes, Docids,  \* numbers from 1
  Base,              \* 128 in the code
  MaxLineLength,     \* registry_->getMaxLineLength()
  NoEntry            \* no line for the hash

(* The numbers below this have k digits at most.                           *)
Capacity[k \in 0..5] == IF k = 0 THEN 1 ELSE Base * Capacity[k - 1]

ASSUME LineAssumptions ==
  /\ Base \in Nat \ {0, 1}
  /\ Doctypes \cup Docids \subseteq 1..(Capacity[5] - 1)
  /\ MaxLineLength \in 16..(Capacity[5] - 1)
  /\ NoEntry \notin [header : Seq([doc_type : Nat, length : Nat]), sections : Seq(Nat), block : Nat]

VARIABLES
  entry,  \* what index_ has for the hash: a line and the size of its block
  held    \* history: documents that were added, and not refused or deleted

lineVars == <<entry, held>>

SumOf(s) ==
  LET sum[k \in 0..Len(s)] == IF k = 0 THEN 0 ELSE sum[k - 1] + s[k]
  IN  sum[Len(s)]

(* kc::writevarnum: the bytes of a number.                                 *)
VarNumLength(n) == CHOOSE k \in 1..5 : n < Capacity[k] /\ (k = 1 \/ n >= Capacity[k - 1])

EncodedLength(s) == SumOf([k \in DOMAIN s |-> VarNumLength(s[k])])

Lengths(header) == [i \in DOMAIN header |-> header[i].length]

HeaderLength(header) ==
  VarNumLength(Len(header)) + EncodedLength([i \in DOMAIN header |-> header[i].doc_type])
                            + EncodedLength(Lengths(header))

(* The numbers that begin in a range of bytes.                             *)
DecodeSection(line, i) ==
  LET offset    == SumOf(SubSeq(Lengths(line.header), 1, i - 1))
      before(b) == Cardinality({k \in DOMAIN line.sections :
                                  EncodedLength(SubSeq(line.sections, 1, k - 1)) < b})
  IN  SubSeq(line.sections, before(offset) + 1, before(offset + line.header[i].length))

DocIds(deltas) == [k \in DOMAIN deltas |-> SumOf(SubSeq(deltas, 1, k))]

Documents(line) ==
  UNION {{<<line.header[i].doc_type, id>> : id \in ToSet(DocIds(DecodeSection(line, i)))}
           : i \in DOMAIN line.header}

GetLength(line) == HeaderLength(line.header) + SumOf(Lengths(line.header))

(* How many docids, or doctypes, lie before this one.                      *)
Below(s, n) == Cardinality({k \in DOMAIN s : s[k] < n})

(* The new docid divides the distance it falls in.                         *)
AddToSection(deltas, id) ==
  LET ids      == DocIds(deltas)
      n        == Below(ids, id)
      previous == IF n = 0 THEN 0 ELSE ids[n]
  IN  IF n = Len(ids) THEN Append(deltas, id - previous)
      ELSE IF ids[n + 1] = id THEN deltas
      ELSE SubSeq(deltas, 1, n) \o <<id - previous, ids[n + 1] - id>>
                                \o SubSeq(deltas, n + 2, Len(deltas))

RemoveDistance(deltas, id) ==
  LET n == Below(DocIds(deltas), id) + 1
  IN  SubSeq(deltas, 1, n - 1) \o SubSeq(deltas, n + 1, Len(deltas))

(* The distance of the removed docid is added to the next one's.           *)
RemoveFromSection(deltas, id) ==
  LET n    == Below(DocIds(deltas), id) + 1
      rest == SubSeq(deltas, n + 1, Len(deltas))
  IN  SubSeq(deltas, 1, n - 1)
        \o (IF rest = <<>> THEN rest ELSE <<Head(rest) + deltas[n]>> \o Tail(rest))

(* The line with another section i; the others are copied by their bytes.  *)
ReplaceSection(line, i, section) ==
  [header   |-> [line.header EXCEPT ![i].length = EncodedLength(section)],
   sections |-> FlattenSeq([j \in DOMAIN line.header |->
                  IF j = i THEN section ELSE DecodeSection(line, j)])]

Position(line, doctype) == Below([i \in DOMAIN line.header |-> line.header[i].doc_type], doctype) + 1

HasSection(line, i, doctype) == i <= Len(line.header) /\ line.header[i].doc_type = doctype

(* PostLine::addDocument and deleteDocument, named apart from the requests *)
(* of IndexSlots.                                                          *)
LineAddDocument(line, doctype, id) ==
  LET i    == Position(line, doctype)
      with == IF HasSection(line, i, doctype) THEN line
              ELSE [line EXCEPT !.header = InsertAt(@, i, [doc_type |-> doctype, length |-> 0])]
  IN  ReplaceSection(with, i, AddToSection(DecodeSection(with, i), id))

KeepEmptySection(line, doctype, id) ==
  LET i == Position(line, doctype)
  IN  ReplaceSection(line, i, RemoveFromSection(DecodeSection(line, i), id))

LineDeleteDocument(line, doctype, id) ==
  LET i    == Position(line, doctype)
      left == ReplaceSection(line, i, RemoveFromSection(DecodeSection(line, i), id))
  IN  IF left.header[i].length # 0 THEN left
      ELSE [left EXCEPT !.header = RemoveAt(@, i)]

-----------------------------------------------------------------------------
BlockSize == 8

BlockRoundedDown(length) == (length \div BlockSize) * BlockSize + 1

(* needsAllocation: the block for a length.                                *)
BlockFor(length) == ((length - 1) \div BlockSize + 1) * BlockSize

(* A new block is allocated if the lengths call for different ones.        *)
Commit(old, new) ==
  [header |-> new.header, sections |-> new.sections,
   block |-> IF BlockFor(GetLength(old)) = BlockFor(GetLength(new))
             THEN old.block ELSE BlockFor(GetLength(new))]

NewEntry == [header |-> <<>>, sections |-> <<>>, block |-> BlockSize]

RoomForThree(line) == GetLength(line) + 3 <= MaxLineLength

HasRoom(line) == GetLength(line) + 15 <= MaxLineLength

LineInit == entry = NoEntry /\ held = {}

(* Without room the document is left out; nobody is told.                  *)
Add(doctype, id) ==
  LET old == IF entry = NoEntry THEN NewEntry ELSE entry
  IN  IF HasRoom(old)
      THEN /\ entry' = Commit(old, LineAddDocument(old, doctype, id))
           /\ held' = held \cup {<<doctype, id>>}
      ELSE /\ entry' = old
           /\ UNCHANGED held

(* A line without documents is freed.  A document that is not in the line  *)
(* changes nothing.                                                        *)
Delete(doctype, id) ==
  /\ entry # NoEntry
  /\ <<doctype, id>> \in Documents(entry)
  /\ LET new == LineDeleteDocument(entry, doctype, id)
     IN  entry' = IF GetLength(new) = 1 THEN NoEntry ELSE Commit(entry, new)
  /\ held' = held \ {<<doctype, id>>}

LineNext == \E doctype \in Doctypes, id \in Docids : Add(doctype, id) \/ Delete(doctype, id)

LineSpec == LineInit /\ [][LineNext]_lineVars

-----------------------------------------------------------------------------
IncreasingFrom0(s) == \A k \in DOMAIN s : 0 < s[k] /\ (k > 1 => s[k - 1] < s[k])

(* Doctypes and docids are in order, without repetition, and no section is *)
(* empty.                                                                  *)
Canonical(line) ==
  /\ line.header \in Seq([doc_type : Doctypes, length : Nat \ {0}]) /\ line.header # <<>>
  /\ line.sections \in Seq(Nat \ {0})
  /\ IncreasingFrom0([i \in DOMAIN line.header |-> line.header[i].doc_type])
  /\ \A i \in DOMAIN line.header :
       LET section == DecodeSection(line, i)
       IN  /\ section # <<>>
           /\ IncreasingFrom0(DocIds(section))
           /\ line.header[i].length = EncodedLength(section)
  /\ EncodedLength(line.sections) = SumOf(Lengths(line.header))

(* After any additions and deletions in any order the line holds exactly   *)
(* the documents that were let in and not deleted (postline-unittest.cc    *)
(* RandomLineSlowTest): counting bytes never finds another section, and no *)
(* change moves another document.  The bytes depend only on the documents, *)
(* not on how they came (BigPostLineTest, forwards and backwards), and a   *)
(* line without documents is not kept.                                     *)
LineEncodesDocuments ==
  IF entry = NoEntry THEN held = {} ELSE held = Documents(entry) /\ Canonical(entry)

(* A line is never written past its block ("out must have a length greater *)
(* than or equal to getLength()", postline.h:37), and the 15 bytes that are *)
(* kept free suffice for any addition, so that it never outgrows the       *)
(* buffers it is put together in (posting.cc:92).                          *)
LineFits ==
  entry # NoEntry => GetLength(entry) <= entry.block /\ GetLength(entry) <= MaxLineLength
=============================================================================
