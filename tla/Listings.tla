------------------------------ MODULE Listings ------------------------------
(***************************************************************************)
(* What clients see of the queue and of the index, page by page            *)
(* (QueueManager::fillDictionary of queue.cc, the fillListDictionary of    *)
(* Posting and PostingSlot).                                               *)
(*                                                                         *)
(* A page of the queue is a run of its keys; the pages before and after    *)
(* are named by the queue ids of their first records.  A page of the index *)
(* has the hashes from a start on that some document has.  A request reads *)
(* the queue, or a slot, as it is at that moment.                          *)
(*                                                                         *)
(* Queue ids and buckets count from 1 here, as in CommandQueue; a limit is *)
(* one or more.  An operator that stands unused before a like one is a     *)
(* faulty variant of it.                                                   *)
(***************************************************************************)
EXTENDS CommandQueue, SequencesExt

StatusOrder == [Finished |-> 1, Failed |-> 2, Active |-> 3, Queued |-> 4]

(* The order of the keys, which begin with the status.                     *)
KeyBefore(c, d) ==
  \/ StatusOrder[c.status] < StatusOrder[d.status]
  \/ c.status = d.status /\ Before(c, d)

Records ==
  LET place(c) == Cardinality({x \in queueDB : KeyBefore(x, c)}) + 1
  IN  [i \in 1..Cardinality(queueDB) |-> CHOOSE c \in queueDB : place(c) = i]

NoId == 0

IdAt(records, i) == IF i \in DOMAIN records THEN records[i].queue_id ELSE NoId

FirstId(records) == IdAt(records, 1)

(* A cursor that is moved past an end is lost.                             *)
LastId(records, limit) ==
  IF limit <= Len(records) THEN IdAt(records, Len(records) - limit + 1) ELSE NoId

(* Where a page begins: at the record with the id it is asked for, in the  *)
(* order the statuses are tried; failing that, where the work is; failing  *)
(* that, at the last page.                                                 *)
PageStart(records, start, limit) ==
  LET first(status, ids) ==
        {i \in DOMAIN records : records[i].status = status /\ records[i].queue_id \in ids}
      tried == <<first("Queued", {start}), first("Active", {start}), first("Failed", {start}),
                 first("Finished", {start}), first("Active", Nat), first("Queued", Nat)>>
      found == SelectInSeq(tried, LAMBDA s : s # {})
  IN  IF start # NoId /\ found # 0 THEN Min(tried[found])
      ELSE IF limit <= Len(records) THEN Len(records) - limit + 1 ELSE 1

QueuePage(records, start, limit) ==
  LET from == PageStart(records, start, limit)
  IN  SubSeq(records, from, Min({from + limit - 1, Len(records)}))

PreviousId(records, start, limit) == IdAt(records, PageStart(records, start, limit) - limit)

NextIdPastIt(records, start, limit) == IdAt(records, PageStart(records, start, limit) + limit + 1)

NextId(records, start, limit) == IdAt(records, PageStart(records, start, limit) + limit)

-----------------------------------------------------------------------------
(* The buckets some document has.                                          *)
Listed == {e[1] : e \in index}

ListingPast(s, start, limit) ==
  LET from == {h \in Listed : SlotOf[h] = s /\ h > start}
  IN  {h \in from : Cardinality({x \in from : x < h}) < limit}

(* A slot lists its buckets from the start on, limit of them at most.      *)
SlotListing(s, start, limit) ==
  LET from == {h \in Listed : SlotOf[h] = s /\ h >= start}
  IN  {h \in from : Cardinality({x \in from : x < h}) < limit}

(* The slots are asked in order, until they have listed enough together.   *)
IndexPage(start, limit) ==
  LET upTo(s) == UNION {SlotListing(r, start, limit) : r \in 1..s}
  IN  UNION {SlotListing(s, start, limit) : s \in {r \in Slots : Cardinality(upTo(r - 1)) < limit}}

(* The next page begins limit buckets later, listed or not, but leaves a   *)
(* whole page to the end.                                                  *)
NextStart(start, limit) ==
  IF start + limit < Cardinality(Hashes) - limit + 1 THEN start + limit
  ELSE Cardinality(Hashes) - limit + 1

-----------------------------------------------------------------------------
(* The pages that follow the first one, by their starts.                   *)
QueueWalk(records, limit) ==
  LET walk[n \in 1..Len(records)] ==
        IF n = 1 THEN <<FirstId(records)>>
        ELSE LET next == NextId(records, Last(walk[n - 1]), limit)
             IN  IF next = NoId THEN walk[n - 1] ELSE Append(walk[n - 1], next)
  IN  walk[Len(records)]

(* A replacing addition and the drop it inserts share their id.            *)
IdsDiffer == \A c, d \in queueDB : c.queue_id = d.queue_id => c = d

QueuePagesMeetAll ==
  queueDB # {} /\ IdsDiffer =>
    LET records == Records
    IN  \A limit \in DOMAIN records :
          LET walk == QueueWalk(records, limit)
          IN  /\ FlattenSeq([k \in DOMAIN walk |-> QueuePage(records, walk[k], limit)]) = records
              /\ \A k \in 2..Len(walk) : PreviousId(records, walk[k], limit) = walk[k - 1]
              /\ LET last == LastId(records, limit)
                 IN  last # NoId => Last(QueuePage(records, last, limit)) = Last(records)

IndexPagesMeetAll ==
  \A limit \in 1..(Cardinality(Hashes) - 1) :
    LET starts[n \in 0..(Cardinality(Hashes) - 1)] ==
          IF n = 0 THEN 1 ELSE NextStart(starts[n - 1], limit)
    IN  UNION {IndexPage(starts[n], limit) : n \in DOMAIN starts} = Listed

(* While the queue stands still, following the pages from the first one    *)
(* meets every record once, in order, whatever the states of the commands, *)
(* from every page the previous one leads back, and the last one is at the *)
(* end; so long as no two records share an id (queue.cc:60-150).  While    *)
(* the index stands still, following its pages meets every bucket that a   *)
(* document has, although the limit counts buckets that are listed and the *)
(* next page lies a limit of buckets away, listed or not (posting.cc       *)
(* 180-215, 449-471).                                                      *)
PagesMeetAll == QueuePagesMeetAll /\ IndexPagesMeetAll
=============================================================================
