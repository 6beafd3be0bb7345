----------------------------- MODULE IndexSlots -----------------------------
(***************************************************************************)
(* The slots of the index, at the grain of their locks.                    *)
(*                                                                         *)
(* Adding or deleting a document makes one TaskPayload, which the          *)
(* processor hands to every slot (posting.cc alterIndex).  Each slot's     *)
(* thread alters its own buckets, one at a time under the slot's writer    *)
(* lock, and counts the payload down; the last one frees it (task.cc).     *)
(* Meanwhile searches hold the reader locks of all slots while they read   *)
(* (posting.cc searchIndex).                                               *)
(*                                                                         *)
(* CommandQueue has the processor and its commands; here it only keeps     *)
(* their discipline: tasks of one kind at a time.  The sleep behind a full *)
(* slot only delays it, and is in CommandQueue.  As there, an operator     *)
(* that stands unused before a like one is a faulty variant of it.         *)
(***************************************************************************)
EXTENDS Naturals, Sequences, FiniteSets

CONSTANTS
  Searchers,      \* the threads that search
  Docs, Hashes,   \* documents, buckets of the index
  PostingHashes,  \* the buckets of a document
  SlotOf,         \* the slot of a bucket
  SlotCount,      \* number of slots
  MaxTasks,       \* bound of the model: additions and deletions
  MaxSearches     \* bound of the model: searches

Slots == 1..SlotCount

ASSUME SlotAssumptions ==
  /\ SlotCount \in Nat \ {0}
  /\ PostingHashes \in [Docs -> SUBSET Hashes]
  /\ SlotOf \in [Hashes -> Slots]
  /\ MaxTasks \in Nat /\ MaxSearches \in Nat

VARIABLES
  stored,    \* the documents the processor has added and not deleted
  payloads,  \* every TaskPayload made, with slots_left_ and how often freed
  adding,    \* the slot the newest payload is handed to next, 0 for none
  queue,     \* slot -> payloads queued there
  worker,    \* slot -> where its thread is
  index,     \* pairs <<bucket, document>>
  readers,   \* slot -> searches that hold its lock
  search,    \* searcher -> where it is and what it has read
  searches   \* how many searches have begun

vars == <<stored, payloads, adding, queue, worker, index, readers, search, searches>>

Made == 1..Len(payloads)

IdleWorker == [step |-> "idle", payload |-> 0, todo |-> {}, slots_left |-> 0]
IdleSearch == [step |-> "idle", slot |-> 0, todo |-> {}, found |-> {}]

Init ==
  /\ stored = {}
  /\ payloads = <<>>
  /\ adding = 0
  /\ queue = [s \in Slots |-> <<>>]
  /\ worker = [s \in Slots |-> IdleWorker]
  /\ index = {}
  /\ readers = [s \in Slots |-> {}]
  /\ search = [q \in Searchers |-> IdleSearch]
  /\ searches = 0

-----------------------------------------------------------------------------
(* The processor.  finishTasks lies between an addition and a deletion.    *)
QueuesEmpty == \A s \in Slots : queue[s] = <<>>

Settled == \A s \in Slots : queue[s] = <<>> /\ worker[s] = IdleWorker

NewPayload(d, op) ==
  /\ adding = 0
  /\ Len(payloads) < MaxTasks
  /\ payloads # <<>> /\ payloads[Len(payloads)].op # op => Settled
  /\ payloads' = Append(payloads, [doc |-> d, op |-> op, slots_left |-> SlotCount, freed |-> 0])
  /\ adding' = 1
  /\ UNCHANGED <<queue, worker, index, readers, search, searches>>

AddDocument ==
  \E d \in Docs \ stored : NewPayload(d, "Add") /\ stored' = stored \cup {d}

DeleteDocument ==
  \E d \in stored : NewPayload(d, "Delete") /\ stored' = stored \ {d}

AddTask ==
  /\ adding \in Slots
  /\ queue' = [queue EXCEPT ![adding] = Append(@, Len(payloads))]
  /\ adding' = IF adding = SlotCount THEN 0 ELSE adding + 1
  /\ UNCHANGED <<stored, payloads, worker, index, readers, search, searches>>

-----------------------------------------------------------------------------
(* The thread of slot s: PostingTaskQueue::do_task.                        *)
TakeTask(s) ==
  /\ worker[s].step = "idle"
  /\ queue[s] # <<>>
  /\ queue' = [queue EXCEPT ![s] = Tail(@)]
  /\ worker' = [worker EXCEPT ![s] =
       [step |-> "alter", payload |-> Head(queue[s]), slots_left |-> 0,
        todo |-> {h \in PostingHashes[payloads[Head(queue[s])].doc] : SlotOf[h] = s}]]
  /\ UNCHANGED <<stored, payloads, adding, index, readers, search, searches>>

NoWriterLock(s) == TRUE

(* The writer lock is granted when no search holds the slot.               *)
WriterLock(s) == readers[s] = {}

(* One line of the index after the other.  A line that is nearly full      *)
(* takes no more documents, and nothing tells (posting.cc:91-92): here     *)
(* every line has room.                                                    *)
AlterBucket(s) ==
  /\ worker[s].step = "alter"
  /\ WriterLock(s)
  /\ \E h \in worker[s].todo :
       LET p == payloads[worker[s].payload]
       IN  /\ index' = IF p.op = "Add" THEN index \cup {<<h, p.doc>>}
                                       ELSE index \ {<<h, p.doc>>}
           /\ worker' = [worker EXCEPT ![s].todo = @ \ {h}]
  /\ UNCHANGED <<stored, payloads, adding, queue, readers, search, searches>>

(* TaskPayload::markSlotFinished reads slots_left_, then swaps it for one  *)
(* less if it still is what was read, and else reads it again.             *)
ReadSlotsLeft(s) ==
  /\ worker[s].step = "alter"
  /\ worker[s].todo = {}
  /\ worker' = [worker EXCEPT ![s].step = "swap",
                              ![s].slots_left = payloads[worker[s].payload].slots_left]
  /\ UNCHANGED <<stored, payloads, adding, queue, index, readers, search, searches>>

FreeAtOneLeft(s) ==
  /\ worker[s].step = "swap"
  /\ payloads[worker[s].payload].slots_left = worker[s].slots_left
  /\ payloads' = [payloads EXCEPT ![worker[s].payload].slots_left = @ - 1]
  /\ worker' = [worker EXCEPT ![s] =
       IF worker[s].slots_left = 2 THEN [@ EXCEPT !.step = "free"] ELSE IdleWorker]
  /\ UNCHANGED <<stored, adding, queue, index, readers, search, searches>>

StoreSlotsLeft(s) ==
  /\ worker[s].step = "swap"
  /\ payloads' = [payloads EXCEPT ![worker[s].payload].slots_left = worker[s].slots_left - 1]
  /\ worker' = [worker EXCEPT ![s] =
       IF worker[s].slots_left = 1 THEN [@ EXCEPT !.step = "free"] ELSE IdleWorker]
  /\ UNCHANGED <<stored, adding, queue, index, readers, search, searches>>

SwapSlotsLeft(s) ==
  /\ worker[s].step = "swap"
  /\ LET p == worker[s].payload
         o == worker[s].slots_left
     IN  \/ /\ payloads[p].slots_left = o
            /\ payloads' = [payloads EXCEPT ![p].slots_left = o - 1]
            /\ worker' = [worker EXCEPT ![s] =
                 IF o = 1 THEN [@ EXCEPT !.step = "free"] ELSE IdleWorker]
         \/ /\ payloads[p].slots_left # o
            /\ worker' = [worker EXCEPT ![s].slots_left = payloads[p].slots_left]
            /\ UNCHANGED payloads
  /\ UNCHANGED <<stored, adding, queue, index, readers, search, searches>>

(* PostingTask::~PostingTask of the last slot.                             *)
FreePayload(s) ==
  /\ worker[s].step = "free"
  /\ payloads' = [payloads EXCEPT ![worker[s].payload].freed = @ + 1]
  /\ worker' = [worker EXCEPT ![s] = IdleWorker]
  /\ UNCHANGED <<stored, adding, queue, index, readers, search, searches>>

-----------------------------------------------------------------------------
(* A search for a text with every bucket: Posting::searchIndex.            *)
BeginSearch(q) ==
  /\ search[q].step \in {"idle", "done"}
  /\ searches < MaxSearches
  /\ searches' = searches + 1
  /\ search' = [search EXCEPT ![q] = [step |-> "lock", slot |-> 1, todo |-> Hashes, found |-> {}]]
  /\ UNCHANGED <<stored, payloads, adding, queue, worker, index, readers>>

LockSlot(q) ==
  /\ search[q].step = "lock"
  /\ LET s == search[q].slot
     IN  /\ readers' = [readers EXCEPT ![s] = @ \cup {q}]
         /\ search' = [search EXCEPT ![q] =
              IF s = SlotCount THEN [@ EXCEPT !.step = "read", !.slot = 0]
                               ELSE [@ EXCEPT !.slot = s + 1]]
  /\ UNCHANGED <<stored, payloads, adding, queue, worker, index, searches>>

SearchBucket(q) ==
  /\ search[q].step = "read"
  /\ \E h \in search[q].todo :
       search' = [search EXCEPT ![q].todo = @ \ {h},
                                ![q].found = @ \cup {e \in index : e[1] = h}]
  /\ UNCHANGED <<stored, payloads, adding, queue, worker, index, readers, searches>>

UnlockSlot(q) ==
  /\ \/ search[q].step = "read" /\ search[q].todo = {}
     \/ search[q].step = "unlock"
  /\ LET s == search[q].slot + 1
     IN  /\ readers' = [readers EXCEPT ![s] = @ \ {q}]
         /\ search' = [search EXCEPT ![q] =
              IF s = SlotCount THEN [@ EXCEPT !.step = "done", !.slot = 0]
                               ELSE [@ EXCEPT !.step = "unlock", !.slot = s]]
  /\ UNCHANGED <<stored, payloads, adding, queue, worker, index, searches>>

-----------------------------------------------------------------------------
Process == AddDocument \/ DeleteDocument \/ AddTask

Work(s) ==
  \/ TakeTask(s) \/ AlterBucket(s)
  \/ ReadSlotsLeft(s) \/ SwapSlotsLeft(s) \/ FreePayload(s)

Search(q) == LockSlot(q) \/ SearchBucket(q) \/ UnlockSlot(q)

Next ==
  \/ Process
  \/ \E s \in Slots : Work(s)
  \/ \E q \in Searchers : BeginSearch(q) \/ Search(q)

Spec == Init /\ [][Next]_vars

(* Threads run on; searches come to an end because MaxSearches does.  A    *)
(* reader-preferring lock starves a slot's thread under searches without   *)
(* end, so nothing is claimed for those.                                   *)
FairSpec ==
  /\ Spec
  /\ WF_vars(AddTask)
  /\ \A s \in Slots : WF_vars(Work(s))
  /\ \A q \in Searchers : WF_vars(Search(q))

-----------------------------------------------------------------------------
Payloads ==
  [doc : Docs, op : {"Add", "Delete"}, slots_left : 0..SlotCount, freed : Nat]

WorkerStates == {IdleWorker} \cup
  [step : {"alter", "swap", "free"}, payload : Made, todo : SUBSET Hashes,
   slots_left : 0..SlotCount]

SearchStates ==
  [step : {"idle", "lock", "read", "unlock", "done"}, slot : 0..SlotCount,
   todo : SUBSET Hashes, found : SUBSET (Hashes \X Docs)]

TypeOK ==
  /\ stored \subseteq Docs
  /\ payloads \in Seq(Payloads)
  /\ adding \in 0..SlotCount
  /\ adding # 0 => payloads # <<>>
  /\ queue \in [Slots -> Seq(Made)]
  /\ worker \in [Slots -> WorkerStates]
  /\ index \subseteq Hashes \X Docs
  /\ readers \in [Slots -> SUBSET Searchers]
  /\ search \in [Searchers -> SearchStates]
  /\ \A q \in Searchers :
       /\ search[q].step = "lock" => search[q].slot \in Slots
       /\ search[q].step \in {"read", "unlock"} => search[q].slot + 1 \in Slots
  /\ searches \in Nat

(* The slots that have payload p still to work on.                         *)
HandedTo(p, s) ==
  \/ adding # 0 /\ p = Len(payloads) /\ s >= adding
  \/ \E i \in 1..Len(queue[s]) : queue[s][i] = p
  \/ worker[s].payload = p /\ worker[s].step \in {"alter", "swap"}

(* The payload the slots share lives as long as one of them may use it,    *)
(* and is freed once (task.cc:19-25, 43-48): nothing is handed out, queued *)
(* or being worked on whose payload is gone.                               *)
PayloadOutlivesTasks ==
  \A p \in Made :
    /\ payloads[p].freed <= 1
    /\ payloads[p].freed = 1 =>
         \A s \in Slots : ~HandedTo(p, s) /\ worker[s].payload # p

(* A search reads the whole index as it is at one moment: whatever the     *)
(* slots' threads do, what it has read so far is what is there now         *)
(* (posting.cc:381-391).                                                   *)
SearchSeesOneMoment ==
  \A q \in Searchers : search[q].step = "read" =>
    search[q].found = {e \in index : e[1] \notin search[q].todo}

(* When every slot is through with its tasks, the index holds the entries  *)
(* of exactly the stored documents (while lines have room, posting.cc:91). *)
SettledIsExact ==
  adding = 0 /\ Settled =>
    index = {e \in Hashes \X Docs : e[2] \in stored /\ e[1] \in PostingHashes[e[2]]}

(* Every payload made is freed: no count is lost between the threads, and  *)
(* a slot's thread waits for no search for ever.                           *)
EveryPayloadFreed == \A p \in 1..MaxTasks : (p \in Made) ~> (p \in Made /\ payloads[p].freed = 1)
=============================================================================
