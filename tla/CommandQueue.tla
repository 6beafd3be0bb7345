---------------------------- MODULE CommandQueue ----------------------------
(***************************************************************************)
(* The command queue of a superfastmatch server and everything a command   *)
(* changes.                                                                *)
(*                                                                         *)
(* The request threads of the HTTP server accept commands and write them   *)
(* to two databases (queue.cc createCommand, command.cc save).  The timer  *)
(* of the server runs one processor (worker.cc process_timer, queue.cc     *)
(* processQueue) that takes the queued commands in key order, executes     *)
(* them and records their status.  Adding or dropping a document changes   *)
(* the document databases at once, and the in-memory index later: the      *)
(* processor hands a task to each index slot, and every slot has a thread  *)
(* of its own that works through its tasks in order (posting.cc, task.cc). *)
(*                                                                         *)
(* One action is one operation of one thread on shared state.  The index   *)
(* tasks and the searches of a command are one step each.                  *)
(*                                                                         *)
(* An operator that no other uses and that stands before a like one is a   *)
(* faulty variant of it, to see which property notices the fault: see the  *)
(* list in README.md.                                                      *)
(***************************************************************************)
EXTENDS Naturals, Sequences, FiniteSets

CONSTANTS
  Handlers,       \* the request threads of the HTTP server
  Processor,      \* the thread the server's timer runs on
  Docs,           \* document keys, the pairs of a doctype and a docid
  Texts,          \* the texts a document can have
  Hashes,         \* the hash buckets of the index
  PostingHashes,  \* the buckets the windows of a text fall into
  SlotOf,         \* the slot that holds a bucket
  SlotCount,      \* number of slots (flag slot_count)
  HighWater,      \* 40: a slot with more queued tasks throttles the processor
  LowWater,       \* 20: ... until it has no more than this many
  Served,         \* bound of the model: the kinds of request clients send
  MaxQueueId,     \* bound of the model: requests stop at this queue id
  NoDoc, NoText, NoCommand, NoTask

Slots == 1..SlotCount

ASSUME Assumptions ==
  /\ Processor \notin Handlers
  /\ NoDoc \notin Docs
  /\ NoText \notin Texts
  /\ SlotCount \in Nat \ {0}
  /\ HighWater \in Nat /\ LowWater \in Nat
  /\ MaxQueueId \in Nat
  /\ PostingHashes \in [Texts -> SUBSET Hashes]
  /\ SlotOf \in [Hashes -> Slots]

Statuses == {"Queued", "Active", "Failed", "Finished"}

DocumentActions == {"AddDocument", "DropDocument", "AddAssociation"}
Actions         == DocumentActions \cup {"AddAssociations", "LoadDocuments"}

(* Ties between commands with one queue id go to the lower number.         *)
Priority == [DropDocument    |-> 1,
             AddDocument     |-> 2,
             AddAssociations |-> 3,
             AddAssociation  |-> 4,
             LoadDocuments   |-> 5]

Creators == Handlers \cup {Processor}

(* No command is being created.                                            *)
NoCreation == [step |-> "none", queue_id |-> 0, payload_id |-> 0,
               action |-> "NullAction", doc |-> NoDoc, body |-> NoText,
               put |-> FALSE]

-----------------------------------------------------------------------------
VARIABLES
  \* the databases
  queueCounter,   \* miscDB "QueueCounter"
  payloadCounter, \* miscDB "PayloadCounter"
  payloadDB,      \* [id, body] records, the payload of unfinished commands
  queueDB,        \* command records; key fields and the payload id
  documentDB,     \* document key -> text
  described,      \* documents with rows in metaDB and orderedMetaDB
  associationDB,  \* pairs {d, e} of documents with a stored association
  \* the command each thread is creating
  creating,
  \* the processor
  pc,             \* where processQueue is
  cmd,            \* its command
  goal,           \* the status changeStatus is about to record
  previousAction, \* action of the command before
  task,           \* the index task being handed to the slots
  toLoad,         \* documents Posting::init has still to load
  \* the index
  pending,        \* slot -> its queued tasks
  index,          \* pairs <<bucket, document>>
  ready,          \* Posting::isReady
  closing         \* Registry::isClosing

databases  == <<queueCounter, payloadCounter, payloadDB, queueDB>>
documents  == <<documentDB, described, associationDB>>
processing == <<pc, cmd, goal, previousAction, task, toLoad>>
indexing   == <<pending, index, ready>>
vars == <<databases, documents, creating, processing, indexing, closing>>

-----------------------------------------------------------------------------
(* The index entries of a document with text t in slot s.                  *)
Postings(s, d, t) == {<<h, d>> : h \in {x \in PostingHashes[t] : SlotOf[x] = s}}

(* The entries of every stored document: what a settled index holds.       *)
Indexed(db) ==
  {e \in Hashes \X Docs : db[e[2]] # NoText /\ e[1] \in PostingHashes[db[e[2]]]}

(* Two documents match: they have different keys and their texts overlap.  *)
Matching(d, e) ==
  /\ d # e
  /\ documentDB[d] # NoText
  /\ documentDB[e] # NoText
  /\ PostingHashes[documentDB[d]] \cap PostingHashes[documentDB[e]] # {}

(* What a permanent search for d saves: the index yields the candidates,   *)
(* the match of the two texts decides.  (A search saves num_results        *)
(* associations at most; the model has fewer documents than that.)         *)
Found(d) ==
  {{d, e} : e \in {x \in Docs :
      /\ Matching(d, x)
      /\ \E h \in PostingHashes[documentDB[d]] : <<h, x>> \in index}}

FirstSlotSettled == pending[1] = <<>>

Settled == \A s \in Slots : pending[s] = <<>>

Queued == {c \in queueDB : c.status = "Queued"}

BeforeByPriority(c, d) ==
  \/ Priority[c.action] < Priority[d.action]
  \/ c.action = d.action /\ c.queue_id < d.queue_id

(* The order of the queue's keys among commands of one status.             *)
Before(c, d) ==
  \/ c.queue_id < d.queue_id
  \/ c.queue_id = d.queue_id /\ Priority[c.action] < Priority[d.action]

KeyWithoutId(c) == <<c.status, c.action, c.doc>>

(* The fields of a command that make its key.                              *)
KeyOf(c) == <<c.status, c.queue_id, c.action, c.doc>>

(* Writing a command's record replaces one with the same key.              *)
Put(c) == {x \in queueDB : KeyOf(x) # KeyOf(c)} \cup {c}

-----------------------------------------------------------------------------
(* The server starts on what an earlier run has stored: documents, and     *)
(* associations of them.  Finished commands of that run are left out (the  *)
(* queue never reads them back) and ids count from 0 again.                *)
Init ==
  /\ queueCounter = 0
  /\ payloadCounter = 0
  /\ payloadDB = {}
  /\ queueDB = {}
  /\ documentDB \in [Docs -> Texts \cup {NoText}]
  /\ described = {d \in Docs : documentDB[d] # NoText}
  /\ associationDB \in SUBSET {{p[1], p[2]} : p \in {q \in Docs \X Docs : Matching(q[1], q[2])}}
  /\ creating = [c \in Creators |-> NoCreation]
  /\ pc = "idle"
  /\ cmd = NoCommand
  /\ goal = "Active"
  /\ previousAction = "NullAction"
  /\ task = NoTask
  /\ toLoad = {}
  /\ pending = [s \in Slots |-> <<>>]
  /\ index = {}
  /\ ready = FALSE
  /\ closing = FALSE

-----------------------------------------------------------------------------
(* Creating a command.  The queue id is drawn first; the payload counter   *)
(* is private to the creator until the payload is saved, so its increment  *)
(* and the write are one step; the command is visible when its key is.     *)
StartCommand(c, queue_id, action, doc, body, put) ==
  creating' = [creating EXCEPT ![c] =
    [step |-> "payload", queue_id |-> queue_id, payload_id |-> 0,
     action |-> action, doc |-> doc, body |-> body, put |-> put]]

CreateCommand(c, action, doc, body, put) ==
  /\ queueCounter' = queueCounter + 1
  /\ StartCommand(c, queueCounter + 1, action, doc, body, put)

InsertCommand(c, queue_id, action, doc, body) ==
  /\ StartCommand(c, queue_id, action, doc, body, FALSE)
  /\ UNCHANGED queueCounter

SavePayload(c) ==
  /\ creating[c].step = "payload"
  /\ payloadCounter' = payloadCounter + 1
  /\ payloadDB' = payloadDB \cup {[id |-> payloadCounter + 1, body |-> creating[c].body]}
  /\ creating' = [creating EXCEPT ![c].step = "key", ![c].payload_id = payloadCounter + 1]
  /\ UNCHANGED <<queueCounter, queueDB, documents, processing, indexing, closing>>

(* Of a PUT request the association command is still to come.              *)
SaveKey(c) ==
  /\ creating[c].step = "key"
  /\ queueDB' = Put([status |-> "Queued", queue_id |-> creating[c].queue_id,
                     action |-> creating[c].action, doc |-> creating[c].doc,
                     payload_id |-> creating[c].payload_id])
  /\ creating' = [creating EXCEPT ![c] =
       IF creating[c].put
       THEN [NoCreation EXCEPT !.step = "associate", !.doc = creating[c].doc]
       ELSE NoCreation]
  /\ UNCHANGED <<queueCounter, payloadCounter, payloadDB, documents, processing, indexing, closing>>

-----------------------------------------------------------------------------
(* The write requests of the HTTP API.  A request is refused once the      *)
(* server is closing; a PUT creates two commands one after the other.      *)
Request(h, kind, action, doc, body, put) ==
  /\ ~closing
  /\ kind \in Served
  /\ creating[h].step = "none"
  /\ queueCounter < MaxQueueId
  /\ CreateCommand(h, action, doc, body, put)
  /\ UNCHANGED <<payloadCounter, payloadDB, queueDB, documents, processing, indexing, closing>>

CreateDocument(h) ==
  \E d \in Docs, t \in Texts : Request(h, "POST", "AddDocument", d, t, FALSE)

CreateAndAssociateDocument(h) ==
  \E d \in Docs, t \in Texts : Request(h, "PUT", "AddDocument", d, t, TRUE)

DeleteDocument(h) ==
  \E d \in Docs : Request(h, "DELETE", "DropDocument", d, NoText, FALSE)

AssociateDocument(h) ==
  \E d \in Docs : Request(h, "associate", "AddAssociation", d, NoText, FALSE)

AssociateDocuments(h) == Request(h, "associate all", "AddAssociations", NoDoc, NoText, FALSE)

LoadDocuments(h) == Request(h, "load", "LoadDocuments", NoDoc, NoText, FALSE)

AssociateCreated(h) ==
  /\ creating[h].step = "associate"
  /\ CreateCommand(h, "AddAssociation", creating[h].doc, NoText, FALSE)
  /\ UNCHANGED <<payloadCounter, payloadDB, queueDB, documents, processing, indexing, closing>>

-----------------------------------------------------------------------------
(* Posting::alterIndex begins with the first slot and a total length of 0. *)
StartTaskAtZero(op, d, t) ==
  task' = [op |-> op, doc |-> d, text |-> t, slot |-> 0, counted |-> FALSE]

StartTask(op, d, t) ==
  task' = [op |-> op, doc |-> d, text |-> t, slot |-> 1, counted |-> FALSE]

(* The timer: load the index if it is not ready, then process the queue.   *)
Tick ==
  /\ pc = "idle"
  /\ ~closing
  /\ previousAction' = "NullAction"
  /\ IF ready THEN pc' = "fetch" /\ UNCHANGED toLoad
              ELSE pc' = "load" /\ toLoad' = described
  /\ UNCHANGED <<databases, documents, creating, cmd, goal, task, indexing, closing>>

LoadOne ==
  /\ pc = "load"
  /\ \E d \in toLoad :
       /\ documentDB[d] # NoText
       /\ StartTask("Add", d, documentDB[d])
  /\ toLoad' = {}
  /\ pc' = "enqueue"
  /\ UNCHANGED <<databases, documents, creating, cmd, goal, previousAction, indexing, closing>>

(* Posting::init hands the stored documents to the slots one by one.       *)
LoadStored ==
  /\ pc = "load"
  /\ \E d \in toLoad :
       /\ documentDB[d] # NoText
       /\ toLoad' = toLoad \ {d}
       /\ StartTask("Add", d, documentDB[d])
  /\ pc' = "enqueue"
  /\ UNCHANGED <<databases, documents, creating, cmd, goal, previousAction, indexing, closing>>

LoadedUnsettled ==
  /\ pc = "load"
  /\ toLoad = {}
  /\ ready' = TRUE
  /\ pc' = "fetch"
  /\ UNCHANGED <<databases, documents, creating, cmd, goal, previousAction, task, toLoad,
                 pending, index, closing>>

StoredLoaded ==
  /\ pc = "load"
  /\ toLoad = {}
  /\ Settled
  /\ ready' = TRUE
  /\ pc' = "fetch"
  /\ UNCHANGED <<databases, documents, creating, cmd, goal, previousAction, task, toLoad,
                 pending, index, closing>>

-----------------------------------------------------------------------------
(* processQueue takes the queued command with the smallest key.  Before a  *)
(* command of another kind than the last it waits for the index to settle. *)
FetchCommand ==
  /\ pc = "fetch"
  /\ ~closing
  /\ \E c \in Queued :
       /\ \A x \in Queued : ~Before(x, c)
       /\ cmd' = c
       /\ pc' = IF previousAction \in {"NullAction", c.action} THEN "remove" ELSE "settle"
  /\ goal' = "Active"
  /\ UNCHANGED <<databases, documents, creating, previousAction, task, toLoad, indexing, closing>>

FinishTasks ==
  /\ pc = "settle"
  /\ Settled
  /\ pc' = "remove"
  /\ UNCHANGED <<databases, documents, creating, cmd, goal, previousAction, task, toLoad,
                 indexing, closing>>

(* The queue is empty or the server is closing: if any command was         *)
(* processed (active; then previousAction is set), the index settles.      *)
LeaveQueue ==
  /\ pc = "fetch"
  /\ closing \/ Queued = {}
  /\ previousAction # "NullAction" => Settled
  /\ pc' = "idle"
  /\ cmd' = NoCommand
  /\ UNCHANGED <<databases, documents, creating, goal, previousAction, task, toLoad,
                 indexing, closing>>

-----------------------------------------------------------------------------
(* Command::changeStatus, in the steps its databases see: the old key goes *)
(* first, for a finished command the payload next, the new key is last.    *)
AlwaysPurge == "purge"

NeverPurge == "write"

AfterKeyRemoved == IF goal = "Finished" THEN "purge" ELSE "write"

RemoveKey ==
  /\ pc = "remove"
  /\ cmd \in queueDB
  /\ queueDB' = queueDB \ {cmd}
  /\ cmd' = [cmd EXCEPT !.status = goal]
  /\ pc' = AfterKeyRemoved
  /\ UNCHANGED <<queueCounter, payloadCounter, payloadDB, documents, creating, goal,
                 previousAction, task, toLoad, indexing, closing>>

RemovePayload ==
  /\ pc = "purge"
  /\ payloadDB' = {p \in payloadDB : p.id # cmd.payload_id}
  /\ cmd' = [cmd EXCEPT !.payload_id = 0]
  /\ pc' = "write"
  /\ UNCHANGED <<queueCounter, payloadCounter, queueDB, documents, creating, goal,
                 previousAction, task, toLoad, indexing, closing>>

(* An active command executes.  A failed one is recorded as finished next, *)
(* and the queue moves on from a finished or a requeued one.               *)
WriteKey ==
  /\ pc = "write"
  /\ queueDB' = Put(cmd)
  /\ \/ /\ goal = "Active"
        /\ pc' = "execute"
        /\ UNCHANGED <<goal, previousAction>>
     \/ /\ goal = "Failed"
        /\ pc' = "remove"
        /\ goal' = "Finished"
        /\ UNCHANGED previousAction
     \/ /\ goal \in {"Queued", "Finished"}
        /\ pc' = "fetch"
        /\ previousAction' = cmd.action
        /\ UNCHANGED goal
  /\ UNCHANGED <<queueCounter, payloadCounter, payloadDB, documents, creating, cmd, task, toLoad,
                 indexing, closing>>

-----------------------------------------------------------------------------
(* Posting::alterIndex hands one task to every slot in turn.  A slot whose *)
(* queue has grown beyond HighWater holds the processor up until it is     *)
(* down to LowWater.  NextSlot moves on to the next slot, or, after the    *)
(* last, to what follows: the next stored document, the end of an added    *)
(* document's command, the removal of a dropped document.                  *)
(*                                                                         *)
(* addTask returns the length of the slot's queue; the total of these is   *)
(* asserted to be above 0 for a dropped document (command.cc:142).  Where  *)
(* it is 0 the process dies: no step of this module, see CrashRestart.     *)
Counted == task.counted \/ pending'[task.slot] # <<>>

NextSlot ==
  \/ /\ task.slot < SlotCount
     /\ task' = [task EXCEPT !.slot = @ + 1, !.counted = Counted]
     /\ pc' = "enqueue"
     /\ UNCHANGED <<goal, toLoad>>
  \/ /\ task.slot = SlotCount /\ ~ready
     /\ task' = NoTask
     /\ pc' = "load"
     /\ toLoad' = IF closing THEN {} ELSE toLoad
     /\ UNCHANGED goal
  \/ /\ task.slot = SlotCount /\ ready /\ task.op = "Add"
     /\ task' = NoTask
     /\ pc' = "remove"
     /\ goal' = "Finished"
     /\ UNCHANGED toLoad
  \/ /\ task.slot = SlotCount /\ ready /\ task.op = "Delete" /\ Counted
     /\ task' = NoTask
     /\ pc' = "erase"
     /\ UNCHANGED <<goal, toLoad>>

AddTask ==
  /\ pc = "enqueue"
  /\ pending' = [pending EXCEPT ![task.slot] =
       Append(@, [op |-> task.op, doc |-> task.doc, text |-> task.text])]
  /\ IF Len(pending[task.slot]) + 1 > HighWater
     THEN pc' = "throttle" /\ UNCHANGED <<goal, task, toLoad>>
     ELSE NextSlot
  /\ UNCHANGED <<databases, documents, creating, cmd, previousAction, index, ready, closing>>

ThrottleEnds ==
  /\ pc = "throttle"
  /\ Len(pending[task.slot]) <= LowWater
  /\ UNCHANGED <<databases, documents, creating, cmd, previousAction, indexing, closing>>
  /\ NextSlot

(* The thread of slot s carries out the oldest task of the slot.  A line   *)
(* of the index that is nearly full takes no more documents, and nothing   *)
(* tells (posting.cc:91-92): here every line has room.                     *)
AlterIndex(s) ==
  /\ pending[s] # <<>>
  /\ LET t == Head(pending[s])
     IN  index' = IF t.op = "Add" THEN index \cup Postings(s, t.doc, t.text)
                                  ELSE index \ Postings(s, t.doc, t.text)
  /\ pending' = [pending EXCEPT ![s] = Tail(@)]
  /\ UNCHANGED <<databases, documents, creating, processing, ready, closing>>

-----------------------------------------------------------------------------
(* Executing the active command.                                           *)
Executing(action) == pc = "execute" /\ cmd.action = action

Finish == pc' = "remove" /\ goal' = "Finished"

(* The texts saved for the command: one, or none if its payload is lost.   *)
PayloadTexts == {p.body : p \in {x \in payloadDB : x.id = cmd.payload_id}} \ {NoText}

FailDocument ==
  /\ Executing("AddDocument")
  /\ PayloadTexts = {}
  /\ pc' = "remove"
  /\ goal' = "Failed"
  /\ UNCHANGED <<databases, documents, creating, cmd, previousAction, task, toLoad, indexing, closing>>

(* Document::setText only writes where there is no text yet.               *)
StoreText ==
  /\ Executing("AddDocument")
  /\ documentDB[cmd.doc] = NoText
  /\ \E t \in PayloadTexts :
       /\ documentDB' = [documentDB EXCEPT ![cmd.doc] = t]
       /\ StartTask("Add", cmd.doc, t)
  /\ pc' = "describe"
  /\ UNCHANGED <<databases, described, associationDB, creating, cmd, goal, previousAction, toLoad,
                 indexing, closing>>

DescribeDocument ==
  /\ pc = "describe"
  /\ described' = described \cup {cmd.doc}
  /\ pc' = "enqueue"
  /\ UNCHANGED <<databases, documentDB, associationDB, creating, cmd, goal, previousAction, task,
                 toLoad, indexing, closing>>

(* Where there is a text, a drop of the document is inserted at the same   *)
(* place in the queue, and the command goes back to the queue behind it.   *)
ReplaceDocument ==
  /\ Executing("AddDocument")
  /\ documentDB[cmd.doc] # NoText
  /\ PayloadTexts # {}
  /\ InsertCommand(Processor, cmd.queue_id, "DropDocument", cmd.doc, NoText)
  /\ pc' = "insert"
  /\ UNCHANGED <<payloadCounter, payloadDB, queueDB, documents, cmd, goal, previousAction, task,
                 toLoad, indexing, closing>>

FinishReplaced ==
  /\ pc = "insert"
  /\ creating[Processor].step = "none"
  /\ pc' = "remove"
  /\ goal' = "Finished"
  /\ UNCHANGED <<databases, documents, creating, cmd, previousAction, task, toLoad, indexing, closing>>

ForgetReplaced ==
  /\ pc = "insert"
  /\ creating[Processor].step = "none"
  /\ pc' = "fetch"
  /\ previousAction' = cmd.action
  /\ UNCHANGED <<databases, documents, creating, cmd, goal, task, toLoad, indexing, closing>>

RetryLater ==
  /\ pc = "insert"
  /\ creating[Processor].step = "none"
  /\ pc' = "remove"
  /\ goal' = "Queued"
  /\ UNCHANGED <<databases, documents, creating, cmd, previousAction, task, toLoad, indexing, closing>>

RetryMissing ==
  /\ Executing("DropDocument")
  /\ documentDB[cmd.doc] = NoText
  /\ pc' = "remove"
  /\ goal' = "Queued"
  /\ UNCHANGED <<databases, documents, creating, cmd, previousAction, task, toLoad, indexing, closing>>

DropMissing ==
  /\ Executing("DropDocument")
  /\ documentDB[cmd.doc] = NoText
  /\ Finish
  /\ UNCHANGED <<databases, documents, creating, cmd, previousAction, task, toLoad, indexing, closing>>

(* AssociationManager::removeAssociations.                                 *)
KeptAssociations(d) == associationDB

RemainingAssociations(d) == {a \in associationDB : d \notin a}

DropAssociations ==
  /\ Executing("DropDocument")
  /\ documentDB[cmd.doc] # NoText
  /\ associationDB' = RemainingAssociations(cmd.doc)
  /\ StartTask("Delete", cmd.doc, documentDB[cmd.doc])
  /\ pc' = "enqueue"
  /\ UNCHANGED <<databases, documentDB, described, creating, cmd, goal, previousAction, toLoad,
                 indexing, closing>>

EraseText ==
  /\ pc = "erase"
  /\ documentDB' = [documentDB EXCEPT ![cmd.doc] = NoText]
  /\ pc' = "undescribe"
  /\ UNCHANGED <<databases, described, associationDB, creating, cmd, goal, previousAction, task,
                 toLoad, indexing, closing>>

UndescribeDocument ==
  /\ pc = "undescribe"
  /\ described' = described \ {cmd.doc}
  /\ Finish
  /\ UNCHANGED <<databases, documentDB, associationDB, creating, cmd, previousAction, task, toLoad,
                 indexing, closing>>

(* A document that does not exist is not searched for, and nothing fails.  *)
AddAssociation ==
  /\ Executing("AddAssociation")
  /\ associationDB' = associationDB \cup Found(cmd.doc)
  /\ Finish
  /\ UNCHANGED <<databases, documentDB, described, creating, cmd, previousAction, task, toLoad,
                 indexing, closing>>

AddAssociations ==
  /\ Executing("AddAssociations")
  /\ associationDB' = associationDB \cup UNION {Found(d) : d \in described}
  /\ Finish
  /\ UNCHANGED <<databases, documentDB, described, creating, cmd, previousAction, task, toLoad,
                 indexing, closing>>

(* The loader yields documents of another instance, as many as it has.     *)
LoadDocument ==
  /\ Executing("LoadDocuments")
  /\ creating[Processor].step = "none"
  /\ queueCounter < MaxQueueId
  /\ \E d \in Docs, t \in Texts : CreateCommand(Processor, "AddDocument", d, t, FALSE)
  /\ UNCHANGED <<payloadCounter, payloadDB, queueDB, documents, processing, indexing, closing>>

EndLoad ==
  /\ Executing("LoadDocuments")
  /\ creating[Processor].step = "none"
  /\ Finish
  /\ UNCHANGED <<databases, documents, creating, cmd, previousAction, task, toLoad, indexing, closing>>

-----------------------------------------------------------------------------
(* The server stops: Registry::close.                                      *)
Close ==
  /\ ~closing
  /\ closing' = TRUE
  /\ UNCHANGED <<databases, documents, creating, processing, indexing>>

Handle(h) ==
  \/ CreateDocument(h)
  \/ CreateAndAssociateDocument(h)
  \/ DeleteDocument(h)
  \/ AssociateDocument(h)
  \/ AssociateDocuments(h)
  \/ LoadDocuments(h)

Create(c) == SavePayload(c) \/ SaveKey(c) \/ AssociateCreated(c)

Process ==
  \/ Tick \/ LoadStored \/ StoredLoaded
  \/ FetchCommand \/ FinishTasks \/ LeaveQueue
  \/ RemoveKey \/ RemovePayload \/ WriteKey
  \/ AddTask \/ ThrottleEnds
  \/ FailDocument \/ StoreText \/ DescribeDocument \/ ReplaceDocument \/ RetryLater
  \/ DropMissing \/ DropAssociations \/ EraseText \/ UndescribeDocument
  \/ AddAssociation \/ AddAssociations \/ LoadDocument \/ EndLoad

Next ==
  \/ \E h \in Handlers : Handle(h)
  \/ \E c \in Creators : Create(c)
  \/ Process
  \/ \E s \in Slots : AlterIndex(s)
  \/ Close

Spec == Init /\ [][Next]_vars

(* Every thread that can take a step takes one: the timer keeps firing,    *)
(* the slot threads run, a request that has begun is carried through.      *)
(* The loader ends because MaxQueueId, the bound of the model, stands for  *)
(* the finite corpus of the other instance.                                *)
Fairness ==
  /\ WF_vars(Process)
  /\ \A c \in Creators : WF_vars(Create(c))
  /\ \A s \in Slots : WF_vars(AlterIndex(s))

-----------------------------------------------------------------------------
Commands ==
  [status : Statuses, queue_id : Nat, action : DocumentActions, doc : Docs, payload_id : Nat]
  \cup
  [status : Statuses, queue_id : Nat, action : Actions \ DocumentActions, doc : {NoDoc},
   payload_id : Nat]

DocumentCreations ==
  [step : {"payload", "key"}, queue_id : Nat, payload_id : Nat,
   action : DocumentActions, doc : Docs, body : Texts \cup {NoText}, put : BOOLEAN]

OtherCreations ==
  [step : {"payload", "key"}, queue_id : Nat, payload_id : Nat,
   action : Actions \ DocumentActions, doc : {NoDoc}, body : {NoText}, put : {FALSE}]

AssociationsToCreate == {[NoCreation EXCEPT !.step = "associate", !.doc = d] : d \in Docs}

Creations == DocumentCreations \cup OtherCreations \cup AssociationsToCreate \cup {NoCreation}

Tasks     == [op : {"Add", "Delete"}, doc : Docs, text : Texts]
SlotTasks == [op : {"Add", "Delete"}, doc : Docs, text : Texts, slot : Slots, counted : BOOLEAN]

(* Where processQueue has a command in hand.                               *)
InHand == {"settle", "remove", "purge", "write", "execute", "insert", "describe", "erase",
           "undescribe"}

(* Every variable has its type; a command is in hand where the code        *)
(* dereferences it, and a task names an existing slot.                     *)
TypeOK ==
  /\ queueCounter \in Nat
  /\ payloadCounter \in Nat
  /\ payloadDB \subseteq [id : Nat, body : Texts \cup {NoText}]
  /\ queueDB \subseteq Commands
  /\ documentDB \in [Docs -> Texts \cup {NoText}]
  /\ described \subseteq Docs
  /\ associationDB \subseteq {{p[1], p[2]} : p \in Docs \X Docs}
  /\ creating \in [Creators -> Creations]
  /\ pc \in {"idle", "load", "fetch", "enqueue", "throttle"} \cup InHand
  /\ cmd \in Commands \cup {NoCommand}
  /\ pc \in InHand => cmd \in Commands
  /\ goal \in Statuses
  /\ previousAction \in Actions \cup {"NullAction"}
  /\ task \in SlotTasks \cup {NoTask}
  /\ pc \in {"enqueue", "throttle", "describe"} => task \in SlotTasks
  /\ toLoad \subseteq Docs
  /\ pending \in [Slots -> Seq(Tasks)]
  /\ index \subseteq Hashes \X Docs
  /\ ready \in BOOLEAN
  /\ closing \in BOOLEAN

-----------------------------------------------------------------------------
(* Payloads and commands match: the payloads stored are exactly those of   *)
(* unfinished commands in the queue, of commands about to be queued, and   *)
(* of the command whose key is being rewritten.  No payload is lost before *)
(* its command has run, none is left behind after (command.cc save,        *)
(* changeStatus; what the payload counts in command-unittest.cc sample).   *)
Unfinished == {c \in queueDB : c.status # "Finished"}

PayloadsMatchCommands ==
  {p.id : p \in payloadDB} =
       {c.payload_id : c \in Unfinished}
  \cup {creating[c].payload_id : c \in {x \in Creators : creating[x].step = "key"}}
  \cup (IF pc = "purge" \/ (pc = "write" /\ goal # "Finished") THEN {cmd.payload_id} ELSE {})

(* The command in hand is the only one that is active or failed, and its   *)
(* record is where changeStatus looks for it: the asserts around           *)
(* changeStatus hold (command.cc:98, 108, queue.cc:48, 51).                *)
OneCommandInHand ==
  /\ \A c \in queueDB : c.status \in {"Active", "Failed"} => pc # "idle" /\ c = cmd
  /\ pc = "remove" => cmd \in queueDB

(* An association command runs, and the processor rests, only on an index  *)
(* that holds the entries of exactly the stored documents: no task of an   *)
(* earlier command is still on its way (queue.cc:44-46, 57-59), so a       *)
(* search finds every stored document (while lines have room, see          *)
(* AlterIndex) and none that was dropped.  A server that closes while it   *)
(* loads the stored documents leaves the rest out (posting.cc:303-305),    *)
(* but runs no command after that.                                         *)
IndexSettled ==
  \/ pc = "execute" /\ cmd.action \in {"AddAssociation", "AddAssociations"}
  \/ pc = "idle" /\ ready /\ ~closing
  => Settled /\ index = Indexed(documentDB)

(* Every stored association joins two stored documents whose present texts *)
(* overlap, also while one of them is being replaced or dropped.           *)
AssociationsSound ==
  \A a \in associationDB : \E d, e \in Docs : a = {d, e} /\ Matching(d, e)

(* One client that sends its requests one after the other gets what it     *)
(* asked for: when all its commands have run, a document is stored if and  *)
(* only if the last command about it was an addition.                      *)
Writes(d) == {c \in queueDB : c.doc = d /\ c.action \in {"AddDocument", "DropDocument"}}

LastWriteWins ==
  /\ pc = "idle" /\ ready /\ Queued = {}
  /\ \A c \in Creators : creating[c].step = "none"
  => \A d \in Docs : \A c \in Writes(d) :
       (\A x \in Writes(d) : ~Before(c, x)) =>
         (documentDB[d] # NoText <=> c.action = "AddDocument")

(* The record of a finished command never changes again: no command runs   *)
(* to its end twice, and none hides the record of another.                 *)
FinishedIsFinal ==
  [][\A c \in queueDB : c.status = "Finished" => c \in queueDB']_vars
=============================================================================
