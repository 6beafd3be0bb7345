------------------------- MODULE CommandQueueProofs -------------------------
(***************************************************************************)
(* What holds of CommandQueue, for every value of its constants: its       *)
(* types, associations that join what is stored, an index that is settled  *)
(* when a search meets it, records, payloads and the command in hand that  *)
(* agree; what is left of that when the server is killed, as CrashRestart  *)
(* has it; and that the queue implements the corpus: every step of the     *)
(* server is a step of the abstract specification or changes nothing in    *)
(* it, and the last of one client's writes is the one that stays; and that *)
(* the pages clients see of the queue and of the index leave nothing out.  *)
(***************************************************************************)
EXTENDS CommandQueueInvariants, CrashRestart, CorpusInvariants, Listings, SortedSetsProofs,
        SequenceTheorems

-----------------------------------------------------------------------------
(***************************************************************************)
(* First part.  Types, and associations that join what is stored.          *)
(***************************************************************************)

(* What the helpers of the actions return.                                 *)
LEMMA FoundType ==
  ASSUME NEW d \in Docs
  PROVE  Found(d) \subseteq {{p[1], p[2]} : p \in Docs \X Docs}
<1> SUFFICES ASSUME NEW e \in Docs
             PROVE  {d, e} \in {{p[1], p[2]} : p \in Docs \X Docs}
  BY DEF Found
<1> <<d, e>> \in Docs \X Docs
  OBVIOUS
<1> QED
  OBVIOUS

LEMMA PostingsType ==
  ASSUME Assumptions, NEW s \in Slots, NEW d \in Docs, NEW t \in Texts
  PROVE  Postings(s, d, t) \subseteq Hashes \X Docs
  BY DEF Assumptions, Postings

LEMMA CommandsType ==
  ASSUME NEW c \in Commands
  PROVE  /\ c.status \in Statuses
         /\ c.queue_id \in Nat
         /\ c.payload_id \in Nat
         /\ c.action \in Actions
         /\ c.action \in DocumentActions => c.doc \in Docs
         /\ \A st \in Statuses : [c EXCEPT !.status = st] \in Commands
         /\ [c EXCEPT !.payload_id = 0] \in Commands
  BY DEF Commands, Actions, DocumentActions, Statuses

LEMMA CreationsType ==
  ASSUME NEW r \in Creations
  PROVE  /\ r.step \in {"payload", "key"} => r \in DocumentCreations \cup OtherCreations
         /\ r.step = "associate" => r.doc \in Docs
         /\ r.body \in Texts \cup {NoText}
<1>1. CASE r \in DocumentCreations \cup OtherCreations
  BY <1>1 DEF DocumentCreations, OtherCreations
<1>2. CASE r \in AssociationsToCreate
  BY <1>2 DEF AssociationsToCreate, NoCreation
<1>3. CASE r = NoCreation
  BY <1>3 DEF NoCreation
<1> QED
  BY <1>1, <1>2, <1>3 DEF Creations

-----------------------------------------------------------------------------
(* The initial state has its types.                                        *)
LEMMA InitTyped == ASSUME Assumptions PROVE Init => TypeInv
<1> SUFFICES ASSUME Init PROVE TypeInv
  OBVIOUS
<1>1. creating \in [Creators -> Creations]
  BY DEF Init, Creations
<1>2. associationDB \subseteq {{p[1], p[2]} : p \in Docs \X Docs}
  BY DEF Init
<1>3. described \subseteq Docs
  BY DEF Init
<1>4. pending \in [Slots -> Seq(Tasks)]
  BY DEF Init
<1> QED
  BY <1>1, <1>2, <1>3, <1>4 DEF Init, TypeInv, TypeOK, ControlOK, Statuses, InHand

(* Creating commands.                                                      *)
LEMMA RequestTyped ==
  ASSUME Assumptions, TypeInv, NEW h \in Handlers, Handle(h)
  PROVE  TypeInv'
<1> USE DEF databases, documents, processing, indexing
<1>1. ASSUME NEW kind, NEW action, NEW doc, NEW body, NEW put \in BOOLEAN,
             Request(h, kind, action, doc, body, put),
             \/ action \in DocumentActions /\ doc \in Docs /\ body \in Texts \cup {NoText}
             \/ action \in Actions \ DocumentActions /\ doc = NoDoc /\ body = NoText /\ put = FALSE
      PROVE  TypeInv'
  <2> DEFINE new == [step |-> "payload", queue_id |-> queueCounter + 1, payload_id |-> 0,
                     action |-> action, doc |-> doc, body |-> body, put |-> put]
  <2>1. new \in Creations
    <3>1. queueCounter + 1 \in Nat /\ 0 \in Nat
      BY DEF TypeInv, TypeOK
    <3>2. CASE action \in DocumentActions /\ doc \in Docs /\ body \in Texts \cup {NoText}
      BY <3>1, <3>2 DEF Creations, DocumentCreations
    <3>3. CASE action \in Actions \ DocumentActions /\ doc = NoDoc /\ body = NoText /\ put = FALSE
      BY <3>1, <3>3 DEF Creations, OtherCreations
    <3> QED
      BY <1>1, <3>2, <3>3
  <2>2. creating' = [creating EXCEPT ![h] = new]
    BY <1>1 DEF Request, CreateCommand, StartCommand
  <2>3. creating' \in [Creators -> Creations]
    BY <2>1, <2>2 DEF TypeInv, TypeOK
  <2> QED
    BY <1>1, <2>3 DEF Request, CreateCommand, TypeInv, TypeOK, ControlOK
<1>2. CASE CreateDocument(h)
  BY <1>1, <1>2 DEF CreateDocument, DocumentActions
<1>3. CASE CreateAndAssociateDocument(h)
  BY <1>1, <1>3 DEF CreateAndAssociateDocument, DocumentActions
<1>4. CASE DeleteDocument(h)
  BY <1>1, <1>4 DEF DeleteDocument, DocumentActions
<1>5. CASE AssociateDocument(h)
  BY <1>1, <1>5 DEF AssociateDocument, DocumentActions
<1>6. CASE AssociateDocuments(h)
  BY <1>1, <1>6 DEF AssociateDocuments, Actions, DocumentActions
<1>7. CASE LoadDocuments(h)
  BY <1>1, <1>7 DEF LoadDocuments, Actions, DocumentActions
<1> QED
  BY <1>2, <1>3, <1>4, <1>5, <1>6, <1>7 DEF Handle

LEMMA CreateTyped ==
  ASSUME Assumptions, TypeInv, NEW c \in Creators, Create(c)
  PROVE  TypeInv'
<1> USE DEF databases, documents, processing, indexing
<1>1. CASE SavePayload(c)
  <2>1. creating[c] \in Creations /\ creating[c].step = "payload"
    BY <1>1 DEF SavePayload, TypeInv, TypeOK
  <2>2. payloadCounter + 1 \in Nat
    BY DEF TypeInv, TypeOK
  <2>3. [creating[c] EXCEPT !.step = "key", !.payload_id = payloadCounter + 1] \in Creations
    BY <2>1, <2>2, CreationsType DEF Creations, DocumentCreations, OtherCreations
  <2>4. creating' \in [Creators -> Creations]
    BY <1>1, <2>3 DEF SavePayload, TypeInv, TypeOK
  <2>5. creating[c].body \in Texts \cup {NoText}
    BY <2>1, CreationsType
  <2> QED
    BY <1>1, <2>2, <2>4, <2>5 DEF SavePayload, TypeInv, TypeOK, ControlOK
<1>2. CASE SaveKey(c)
  <2>1. creating[c] \in Creations /\ creating[c].step = "key"
    BY <1>2 DEF SaveKey, TypeInv, TypeOK
  <2> DEFINE new == [status |-> "Queued", queue_id |-> creating[c].queue_id,
                     action |-> creating[c].action, doc |-> creating[c].doc,
                     payload_id |-> creating[c].payload_id]
  <2>2. new \in Commands
    BY <2>1, CreationsType DEF DocumentCreations, OtherCreations, Commands, Statuses
  <2>3. queueDB' \subseteq Commands
    BY <1>2, <2>2 DEF SaveKey, Put, TypeInv, TypeOK
  <2>4. creating[c].put => [NoCreation EXCEPT !.step = "associate", !.doc = creating[c].doc] \in Creations
    BY <2>1, CreationsType DEF DocumentCreations, OtherCreations, AssociationsToCreate, Creations
  <2>5. creating' \in [Creators -> Creations]
    BY <1>2, <2>4 DEF SaveKey, TypeInv, TypeOK, Creations
  <2> QED
    BY <1>2, <2>3, <2>5 DEF SaveKey, TypeInv, TypeOK, ControlOK
<1>3. CASE AssociateCreated(c)
  <2>1. creating[c] \in Creations /\ creating[c].step = "associate"
    BY <1>3 DEF AssociateCreated, TypeInv, TypeOK
  <2>2. creating[c].doc \in Docs
    BY <2>1, CreationsType
  <2>3. queueCounter + 1 \in Nat /\ 0 \in Nat
    BY DEF TypeInv, TypeOK
  <2>4. [step |-> "payload", queue_id |-> queueCounter + 1, payload_id |-> 0,
         action |-> "AddAssociation", doc |-> creating[c].doc, body |-> NoText,
         put |-> FALSE] \in Creations
    BY <2>2, <2>3 DEF Creations, DocumentCreations, DocumentActions
  <2>5. creating' \in [Creators -> Creations]
    BY <1>3, <2>4 DEF AssociateCreated, CreateCommand, StartCommand, TypeInv, TypeOK
  <2> QED
    BY <1>3, <2>3, <2>5 DEF AssociateCreated, CreateCommand, TypeInv, TypeOK, ControlOK
<1> QED
  BY <1>1, <1>2, <1>3 DEF Create

(* The steps of a slot.                                                    *)
LEMMA AlterIndexTyped ==
  ASSUME Assumptions, TypeInv, NEW s \in Slots, AlterIndex(s)
  PROVE  TypeInv'
<1> USE DEF databases, documents, processing, indexing
<1>1. pending[s] \in Seq(Tasks) /\ pending[s] # <<>>
  BY DEF AlterIndex, TypeInv, TypeOK
<1>2. Head(pending[s]) \in Tasks /\ Tail(pending[s]) \in Seq(Tasks)
  BY <1>1
<1>3. pending' \in [Slots -> Seq(Tasks)]
  BY <1>2 DEF AlterIndex, TypeInv, TypeOK
<1>4. Postings(s, Head(pending[s]).doc, Head(pending[s]).text) \subseteq Hashes \X Docs
  BY <1>2, PostingsType DEF Tasks
<1>5. index' \subseteq Hashes \X Docs
  BY <1>4 DEF AlterIndex, TypeInv, TypeOK
<1> QED
  BY <1>3, <1>5 DEF AlterIndex, TypeInv, TypeOK, ControlOK

-----------------------------------------------------------------------------
(* The steps of the processor: its round.                                  *)
LEMMA RoundTyped ==
  ASSUME Assumptions, TypeInv,
         \/ Tick \/ LoadStored \/ StoredLoaded
         \/ FetchCommand \/ FinishTasks \/ LeaveQueue
  PROVE  TypeInv'
<1> USE DEF databases, documents, processing, indexing
<1>1. CASE Tick
  BY <1>1 DEF Tick, TypeInv, TypeOK, ControlOK, InHand
<1>2. CASE LoadStored
  <2>1. PICK d \in toLoad : /\ documentDB[d] # NoText
                            /\ toLoad' = toLoad \ {d}
                            /\ StartTask("Add", d, documentDB[d])
    BY <1>2 DEF LoadStored
  <2>2. d \in Docs /\ documentDB[d] \in Texts
    BY <2>1 DEF TypeInv, TypeOK
  <2>3. 1 \in Slots
    BY DEF Slots, Assumptions
  <2>4. task' \in SlotTasks
    BY <2>1, <2>2, <2>3 DEF StartTask, SlotTasks
  <2> QED
    BY <1>2, <2>1, <2>4 DEF LoadStored, TypeInv, TypeOK, ControlOK, InHand
<1>3. CASE StoredLoaded
  BY <1>3 DEF StoredLoaded, TypeInv, TypeOK, ControlOK, InHand
<1>4. CASE FetchCommand
  BY <1>4 DEF FetchCommand, Queued, TypeInv, TypeOK, ControlOK, InHand, Statuses
<1>5. CASE FinishTasks
  BY <1>5 DEF FinishTasks, TypeInv, TypeOK, ControlOK, InHand
<1>6. CASE LeaveQueue
  BY <1>6 DEF LeaveQueue, TypeInv, TypeOK, ControlOK, InHand
<1> QED
  BY <1>1, <1>2, <1>3, <1>4, <1>5, <1>6

(* The steps of changeStatus.                                              *)
LEMMA ChangeStatusTyped ==
  ASSUME Assumptions, TypeInv, RemoveKey \/ RemovePayload \/ WriteKey
  PROVE  TypeInv'
<1> USE DEF databases, documents, processing, indexing
<1>1. cmd \in Commands
  BY DEF RemoveKey, RemovePayload, WriteKey, TypeInv, TypeOK, InHand
<1>2. CASE RemoveKey
  <2>1. goal \in Statuses
    BY DEF TypeInv, TypeOK
  <2>2. cmd' \in Commands
    BY <1>1, <1>2, <2>1, CommandsType DEF RemoveKey
  <2> QED
    BY <1>2, <2>2 DEF RemoveKey, AfterKeyRemoved, TypeInv, TypeOK, ControlOK, InHand
<1>3. CASE RemovePayload
  <2>1. cmd' \in Commands
    BY <1>1, <1>3, CommandsType DEF RemovePayload
  <2> QED
    BY <1>3, <2>1 DEF RemovePayload, TypeInv, TypeOK, ControlOK, InHand
<1>4. CASE WriteKey
  <2>1. queueDB' \subseteq Commands
    BY <1>1, <1>4 DEF WriteKey, Put, TypeInv, TypeOK
  <2>2. cmd.action \in Actions
    BY <1>1, CommandsType
  <2> QED
    BY <1>1, <1>4, <2>1, <2>2 DEF WriteKey, TypeInv, TypeOK, ControlOK, InHand, Statuses
<1> QED
  BY <1>2, <1>3, <1>4

(* The steps of alterIndex.                                                *)
LEMMA HandOverTyped ==
  ASSUME Assumptions, TypeInv, AddTask \/ ThrottleEnds
  PROVE  TypeInv'
<1> USE DEF databases, documents, processing, indexing
<1>1. /\ task \in SlotTasks
      /\ pc \in {"enqueue", "throttle"}
      /\ ready => cmd \in Commands
  BY DEF AddTask, ThrottleEnds, TypeInv, TypeOK, ControlOK
<1>2. task.slot \in Slots
  BY <1>1 DEF SlotTasks
<1>3. ASSUME NextSlot
      PROVE  /\ task' \in SlotTasks \cup {NoTask}
             /\ toLoad' \subseteq Docs
             /\ goal' \in Statuses
             /\ \/ /\ pc' = "enqueue" /\ task' \in SlotTasks
                   /\ task'.doc = task.doc /\ task'.op = task.op
                \/ pc' = "load" /\ ~ready
                \/ pc' = "remove" /\ ready
                \/ pc' = "erase" /\ ready /\ task.op = "Delete"
  <2>1. CASE task.slot < SlotCount /\ task' = [task EXCEPT !.slot = @ + 1, !.counted = Counted]
             /\ pc' = "enqueue" /\ UNCHANGED <<goal, toLoad>>
    <3>1. task.slot + 1 \in Slots
      BY <1>2, <2>1 DEF Slots, Assumptions
    <3>2. task' \in SlotTasks /\ task'.doc = task.doc /\ task'.op = task.op
      <4>1. PICK c \in BOOLEAN : task' = [task EXCEPT !.slot = @ + 1, !.counted = c]
        BY <2>1 DEF Counted
      <4> QED
        BY <1>1, <3>1, <4>1 DEF SlotTasks
    <3> QED
      BY <2>1, <3>2 DEF TypeInv, TypeOK
  <2>2. toLoad \subseteq Docs /\ goal \in Statuses /\ "Finished" \in Statuses
    BY DEF TypeInv, TypeOK, Statuses
  <2> QED
    BY <1>3, <2>1, <2>2 DEF NextSlot
<1>4. CASE AddTask
  <2>1. [op |-> task.op, doc |-> task.doc, text |-> task.text] \in Tasks
    BY <1>1 DEF SlotTasks, Tasks
  <2>2. pending[task.slot] \in Seq(Tasks)
    BY <1>2 DEF TypeInv, TypeOK
  <2>3. Append(pending[task.slot], [op |-> task.op, doc |-> task.doc, text |-> task.text])
          \in Seq(Tasks)
    BY <2>1, <2>2
  <2>4. pending' \in [Slots -> Seq(Tasks)]
    BY <1>4, <2>3 DEF AddTask, TypeInv, TypeOK
  <2>5. CASE pc' = "throttle" /\ UNCHANGED <<goal, task, toLoad>>
    BY <1>1, <1>4, <2>4, <2>5 DEF AddTask, TypeInv, TypeOK, ControlOK, InHand
  <2>6. CASE NextSlot
    BY <1>1, <1>3, <1>4, <2>4, <2>6 DEF AddTask, TypeInv, TypeOK, ControlOK, InHand
  <2> QED
    BY <1>4, <2>5, <2>6 DEF AddTask
<1>5. CASE ThrottleEnds
  BY <1>1, <1>3, <1>5 DEF ThrottleEnds, TypeInv, TypeOK, ControlOK, InHand
<1> QED
  BY <1>4, <1>5

(* The steps of a command's execution.                                     *)
LEMMA PayloadTextsType == ASSUME TypeInv PROVE PayloadTexts \subseteq Texts
  BY DEF PayloadTexts, TypeInv, TypeOK

LEMMA ExecutingType ==
  ASSUME TypeInv, NEW a \in DocumentActions, Executing(a)
  PROVE  cmd \in Commands /\ cmd.doc \in Docs /\ pc = "execute" /\ ready
<1>1. cmd \in Commands /\ pc = "execute" /\ ready
  BY DEF Executing, TypeInv, TypeOK, ControlOK, InHand
<1> QED
  BY <1>1, CommandsType DEF Executing

LEMMA AddDocumentTyped ==
  ASSUME Assumptions, TypeInv,
         FailDocument \/ StoreText \/ DescribeDocument \/ ReplaceDocument \/ RetryLater
  PROVE  TypeInv'
<1> USE DEF databases, documents, processing, indexing
<1>1. 1 \in Slots
  BY DEF Slots, Assumptions
<1>2. CASE FailDocument
  BY <1>2 DEF FailDocument, Executing, TypeInv, TypeOK, ControlOK, InHand, Statuses
<1>3. CASE StoreText
  <2>1. cmd \in Commands /\ cmd.doc \in Docs /\ ready
    BY <1>3, ExecutingType DEF StoreText, DocumentActions
  <2>2. PICK t \in PayloadTexts : /\ documentDB' = [documentDB EXCEPT ![cmd.doc] = t]
                                  /\ StartTask("Add", cmd.doc, t)
    BY <1>3 DEF StoreText
  <2>3. t \in Texts
    BY <2>2, PayloadTextsType
  <2>4. task' \in SlotTasks
    BY <1>1, <2>1, <2>2, <2>3 DEF StartTask, SlotTasks
  <2>5. documentDB' \in [Docs -> Texts \cup {NoText}]
    BY <2>2, <2>3 DEF TypeInv, TypeOK
  <2> QED
    BY <1>3, <2>1, <2>4, <2>5 
    DEF StoreText, StartTask, Executing, TypeInv, TypeOK, ControlOK, InHand
<1>4. CASE DescribeDocument
  BY <1>4 DEF DescribeDocument, TypeInv, TypeOK, ControlOK, InHand, Commands, DocumentActions
<1>5. CASE ReplaceDocument
  <2>1. cmd \in Commands /\ cmd.doc \in Docs /\ ready
    BY <1>5, ExecutingType DEF ReplaceDocument, DocumentActions
  <2>2. cmd.queue_id \in Nat /\ 0 \in Nat
    BY <2>1, CommandsType
  <2>3. [step |-> "payload", queue_id |-> cmd.queue_id, payload_id |-> 0,
         action |-> "DropDocument", doc |-> cmd.doc, body |-> NoText, put |-> FALSE] \in Creations
    BY <2>1, <2>2 DEF Creations, DocumentCreations, DocumentActions
  <2>4. creating' \in [Creators -> Creations]
    BY <1>5, <2>3 DEF ReplaceDocument, InsertCommand, StartCommand, TypeInv, TypeOK
  <2> QED
    BY <1>5, <2>1, <2>4 
    DEF ReplaceDocument, InsertCommand, Executing, TypeInv, TypeOK, ControlOK, InHand
<1>6. CASE RetryLater
  BY <1>6 DEF RetryLater, TypeInv, TypeOK, ControlOK, InHand, Statuses
<1> QED
  BY <1>2, <1>3, <1>4, <1>5, <1>6

LEMMA DropDocumentTyped ==
  ASSUME Assumptions, TypeInv,
         DropMissing \/ DropAssociations \/ EraseText \/ UndescribeDocument
  PROVE  TypeInv'
<1> USE DEF databases, documents, processing, indexing
<1>1. CASE DropMissing
  BY <1>1 DEF DropMissing, Executing, Finish, TypeInv, TypeOK, ControlOK, InHand, Statuses
<1>2. CASE DropAssociations
  <2>1. cmd \in Commands /\ cmd.doc \in Docs /\ ready
    BY <1>2, ExecutingType DEF DropAssociations, DocumentActions
  <2>2. documentDB[cmd.doc] \in Texts /\ 1 \in Slots
    BY <1>2, <2>1 DEF DropAssociations, TypeInv, TypeOK, Slots, Assumptions
  <2>3. task' \in SlotTasks
    BY <1>2, <2>1, <2>2 DEF DropAssociations, StartTask, SlotTasks
  <2> QED
    BY <1>2, <2>1, <2>3
    DEF DropAssociations, RemainingAssociations, StartTask, Executing, TypeInv, TypeOK, ControlOK, InHand
<1>3. CASE EraseText
  BY <1>3 DEF EraseText, TypeInv, TypeOK, ControlOK, InHand
<1>4. CASE UndescribeDocument
  BY <1>4 DEF UndescribeDocument, Finish, TypeInv, TypeOK, ControlOK, InHand, Statuses
<1> QED
  BY <1>1, <1>2, <1>3, <1>4

LEMMA OtherCommandsTyped ==
  ASSUME Assumptions, TypeInv, AddAssociation \/ AddAssociations \/ LoadDocument \/ EndLoad
  PROVE  TypeInv'
<1> USE DEF databases, documents, processing, indexing
<1>1. CASE AddAssociation
  <2>1. cmd.doc \in Docs
    BY <1>1, ExecutingType DEF AddAssociation, DocumentActions
  <2>2. associationDB' \subseteq {{p[1], p[2]} : p \in Docs \X Docs}
    BY <1>1, <2>1, FoundType DEF AddAssociation, TypeInv, TypeOK
  <2> QED
    BY <1>1, <2>2
    DEF AddAssociation, Executing, Finish, TypeInv, TypeOK, ControlOK, InHand, Statuses
<1>2. CASE AddAssociations
  <2>1. UNION {Found(d) : d \in described} \subseteq {{p[1], p[2]} : p \in Docs \X Docs}
    <3>1. \A d \in described : Found(d) \subseteq {{p[1], p[2]} : p \in Docs \X Docs}
      BY FoundType DEF TypeInv, TypeOK
    <3> QED
      BY <3>1
  <2>2. associationDB' \subseteq {{p[1], p[2]} : p \in Docs \X Docs}
    BY <1>2, <2>1 DEF AddAssociations, TypeInv, TypeOK
  <2> QED
    BY <1>2, <2>2
    DEF AddAssociations, Executing, Finish, TypeInv, TypeOK, ControlOK, InHand, Statuses
<1>3. CASE LoadDocument
  <2>1. PICK d \in Docs, t \in Texts : CreateCommand(Processor, "AddDocument", d, t, FALSE)
    BY <1>3 DEF LoadDocument
  <2>2. queueCounter + 1 \in Nat /\ 0 \in Nat
    BY DEF TypeInv, TypeOK
  <2>3. [step |-> "payload", queue_id |-> queueCounter + 1, payload_id |-> 0,
         action |-> "AddDocument", doc |-> d, body |-> t, put |-> FALSE] \in Creations
    BY <2>1, <2>2 DEF Creations, DocumentCreations, DocumentActions
  <2>4. creating' \in [Creators -> Creations]
    BY <2>1, <2>3 DEF CreateCommand, StartCommand, TypeInv, TypeOK
  <2> QED
    BY <1>3, <2>1, <2>2, <2>4 DEF LoadDocument, CreateCommand, TypeInv, TypeOK, ControlOK
<1>4. CASE EndLoad
  BY <1>4 DEF EndLoad, Executing, Finish, TypeInv, TypeOK, ControlOK, InHand, Statuses
<1> QED
  BY <1>1, <1>2, <1>3, <1>4

-----------------------------------------------------------------------------
LEMMA StepTyped == ASSUME Assumptions PROVE TypeInv /\ [Next]_vars => TypeInv'
<1> SUFFICES ASSUME TypeInv, [Next]_vars PROVE TypeInv'
  OBVIOUS
<1>1. CASE \E h \in Handlers : Handle(h)
  BY <1>1, RequestTyped
<1>2. CASE \E c \in Creators : Create(c)
  BY <1>2, CreateTyped
<1>3. CASE Process
  BY <1>3, RoundTyped, ChangeStatusTyped, HandOverTyped, AddDocumentTyped, DropDocumentTyped,
     OtherCommandsTyped DEF Process
<1>4. CASE \E s \in Slots : AlterIndex(s)
  BY <1>4, AlterIndexTyped
<1>5. CASE Close
  BY <1>5 DEF Close, databases, documents, processing, indexing, TypeInv, TypeOK, ControlOK
<1>6. CASE UNCHANGED vars
  BY <1>6 DEF vars, databases, documents, processing, indexing, TypeInv, TypeOK, ControlOK
<1> QED
  BY <1>1, <1>2, <1>3, <1>4, <1>5, <1>6 DEF Next

(* Every variable has its type in every reachable state, and the processor *)
(* holds a command wherever processQueue, execute and changeStatus         *)
(* dereference one.                                                        *)
THEOREM TypeCorrect == ASSUME Assumptions PROVE Spec => []TypeOK
<1>1. Init => TypeInv
  BY InitTyped
<1>2. TypeInv /\ [Next]_vars => TypeInv'
  BY StepTyped
<1>3. TypeInv => TypeOK
  BY DEF TypeInv
<1> QED
  BY <1>1, <1>2, <1>3, PTL DEF Spec

-----------------------------------------------------------------------------
(* The stored associations join stored documents whose texts overlap.      *)
LEMMA FoundMatches ==
  ASSUME NEW d \in Docs, NEW a \in Found(d)
  PROVE  \E e \in Docs : a = {d, e} /\ Matching(d, e)
  BY DEF Found

(* Most steps touch neither texts nor associations, and no drop gets under *)
(* way in them.                                                            *)
Untouched == UNCHANGED <<documentDB, associationDB, cmd>> /\ (Dropping' => Dropping)

LEMMA UntouchedSound == ASSUME AssociationsOK, Untouched PROVE AssociationsOK'
  BY DEF AssociationsOK, AssociationsSound, Matching, Untouched

LEMMA NotDroppingSound ==
  ASSUME AssociationsOK, UNCHANGED <<documentDB, associationDB>>, ~Dropping'
  PROVE  AssociationsOK'
  BY DEF AssociationsOK, AssociationsSound, Matching

LEMMA HandOverUntouched ==
  ASSUME TypeInv, AddTask \/ ThrottleEnds
  PROVE  Untouched \/ (~Dropping' /\ UNCHANGED <<documentDB, associationDB>>)
<1>1. /\ AlteringIndex /\ task \in SlotTasks
      /\ UNCHANGED <<documents, cmd, ready>>
      /\ (pc' = "throttle" /\ task' = task) \/ NextSlot
  BY DEF AddTask, ThrottleEnds, AlteringIndex, indexing, TypeInv, TypeOK
<1>2. ASSUME NextSlot
      PROVE  \/ pc' = "enqueue" /\ task'.op = task.op
             \/ pc' \in {"load", "remove"}
             \/ pc' = "erase" /\ task.op = "Delete"
  BY <1>1, <1>2 DEF NextSlot, SlotTasks
<1> QED
  BY <1>1, <1>2 DEF Untouched, Dropping, AlteringIndex, documents

LEMMA AssociationsStep ==
  ASSUME Assumptions, TypeInv, AssociationsOK, [Next]_vars
  PROVE  AssociationsOK'
<1> USE DEF AlteringIndex
<1>1. CASE \/ \E h \in Handlers : Handle(h)
           \/ \E c \in Creators : Create(c)
           \/ \E s \in Slots : AlterIndex(s)
           \/ Close
           \/ UNCHANGED vars
  <2>1. UNCHANGED <<documents, pc, cmd, task, ready>>
    BY <1>1 DEF Handle, CreateDocument, CreateAndAssociateDocument, DeleteDocument,
       AssociateDocument, AssociateDocuments, LoadDocuments, Request, Create, SavePayload, SaveKey,
       AssociateCreated, AlterIndex, Close, vars, processing, indexing
  <2> QED
    BY <2>1, UntouchedSound DEF documents, Untouched, Dropping
<1>2. CASE \/ Tick \/ LoadStored \/ StoredLoaded \/ FetchCommand \/ FinishTasks \/ LeaveQueue
           \/ RemoveKey \/ RemovePayload \/ WriteKey
           \/ FailDocument \/ DescribeDocument \/ ReplaceDocument \/ RetryLater \/ DropMissing
           \/ UndescribeDocument \/ LoadDocument \/ EndLoad
  <2>1. UNCHANGED <<documentDB, associationDB>>
    BY <1>2 DEF Tick, LoadStored, StoredLoaded, FetchCommand, FinishTasks, LeaveQueue, RemoveKey,
       RemovePayload, WriteKey, FailDocument, DescribeDocument, ReplaceDocument, RetryLater,
       DropMissing, UndescribeDocument, LoadDocument, EndLoad, documents
  <2>2. ~Dropping'
    <3>1. CASE LoadStored
      <4>1. ~ready' 
        BY <3>1 DEF LoadStored, indexing, TypeInv, ControlOK
      <4> QED
        BY <4>1 DEF Dropping
    <3>2. CASE DescribeDocument
      <4>1. task'.op # "Delete" \/ ~ready'
        BY <3>2 DEF DescribeDocument, indexing, TypeInv, TypeOK, ControlOK, InHand, SlotTasks
      <4> QED
        BY <3>2, <4>1 DEF DescribeDocument, Dropping
    <3>3. CASE ~LoadStored /\ ~DescribeDocument
      <4>1. pc' \notin {"erase", "enqueue", "throttle"}
        BY <1>2, <3>3 DEF Tick, StoredLoaded, FetchCommand, FinishTasks, LeaveQueue, RemoveKey,
           AfterKeyRemoved, RemovePayload, WriteKey, FailDocument, ReplaceDocument, RetryLater,
           DropMissing, UndescribeDocument, LoadDocument, EndLoad, Executing, Finish, processing
      <4> QED
        BY <4>1 DEF Dropping
    <3> QED
      BY <3>1, <3>2, <3>3
  <2> QED
    BY <2>1, <2>2, NotDroppingSound
<1>3. CASE AddTask \/ ThrottleEnds
  BY <1>3, HandOverUntouched, UntouchedSound, NotDroppingSound
<1>4. CASE StoreText
  <2>1. /\ documentDB[cmd.doc] = NoText
        /\ \A d \in Docs \ {cmd.doc} : documentDB'[d] = documentDB[d]
        /\ associationDB' = associationDB /\ pc' = "describe"
    BY <1>4 DEF StoreText, TypeInv, TypeOK
  <2>2. ASSUME NEW d \in Docs, NEW e \in Docs, Matching(d, e)
        PROVE  Matching(d, e)'
    BY <2>1, <2>2 DEF Matching
  <2> QED
    BY <2>1, <2>2 DEF AssociationsOK, AssociationsSound, Dropping
<1>5. CASE DropAssociations
  <2>1. /\ associationDB' = RemainingAssociations(cmd.doc)
        /\ documentDB' = documentDB /\ cmd' = cmd
    BY <1>5 DEF DropAssociations
  <2> QED
    BY <2>1 DEF RemainingAssociations, AssociationsOK, AssociationsSound, Matching
<1>6. CASE EraseText
  <2>1. /\ \A d \in Docs \ {cmd.doc} : documentDB'[d] = documentDB[d]
        /\ associationDB' = associationDB /\ pc' = "undescribe"
        /\ Dropping
    BY <1>6 DEF EraseText, Dropping, TypeInv, TypeOK, ControlOK, InHand
  <2>2. ASSUME NEW a \in associationDB, NEW d \in Docs, NEW e \in Docs,
               a = {d, e}, Matching(d, e)
        PROVE  Matching(d, e)'
    BY <2>1, <2>2 DEF AssociationsOK, Matching
  <2> QED
    BY <2>1, <2>2 DEF AssociationsOK, AssociationsSound, Dropping
<1>7. CASE AddAssociation
  <2>1. /\ associationDB' = associationDB \cup Found(cmd.doc) /\ cmd.doc \in Docs
        /\ documentDB' = documentDB /\ pc' = "remove"
    BY <1>7, ExecutingType DEF AddAssociation, Finish, DocumentActions
  <2> QED
    BY <2>1, FoundMatches DEF AssociationsOK, AssociationsSound, Matching, Dropping
<1>8. CASE AddAssociations
  <2>1. /\ associationDB' = associationDB \cup UNION {Found(d) : d \in described}
        /\ described \subseteq Docs
        /\ documentDB' = documentDB /\ pc' = "remove"
    BY <1>8 DEF AddAssociations, Finish, TypeInv, TypeOK
  <2> QED
    BY <2>1, FoundMatches DEF AssociationsOK, AssociationsSound, Matching, Dropping
<1> QED
  BY <1>1, <1>2, <1>3, <1>4, <1>5, <1>6, <1>7, <1>8 DEF Next, Process

(* An association is never left behind when one of its documents is        *)
(* dropped or replaced, nor saved for texts that do not overlap, whatever  *)
(* the request threads and the slots do meanwhile (association.cc,         *)
(* document.cc remove).                                                    *)
THEOREM AssociationsStaySound == ASSUME Assumptions PROVE Spec => []AssociationsSound
<1>1. Init => TypeInv /\ AssociationsOK
  <2>1. ASSUME Init PROVE AssociationsOK
    <3>1. \A a \in associationDB : \E p \in Docs \X Docs : a = {p[1], p[2]} /\ Matching(p[1], p[2])
      BY <2>1 DEF Init
    <3> QED
      BY <2>1, <3>1 DEF Init, AssociationsOK, AssociationsSound, Dropping
  <2> QED
    BY <2>1, InitTyped
<1>2. TypeInv /\ AssociationsOK /\ [Next]_vars => (TypeInv /\ AssociationsOK)'
  BY StepTyped, AssociationsStep
<1>3. AssociationsOK => AssociationsSound
  BY DEF AssociationsOK
<1> QED
  BY <1>1, <1>2, <1>3, PTL DEF Spec

-----------------------------------------------------------------------------
(***************************************************************************)
(* Second part.  A search meets a settled index.                           *)
(***************************************************************************)

(* What the slots' queues hold.                                            *)
LEMMA SettledIsPure ==
  ASSUME Settled, NEW op
  PROVE  Pure(op)
<1>1. \A s \in Slots : Len(pending[s]) = 0
  BY DEF Settled
<1> QED
  BY <1>1 DEF Pure

(* A settled index is in the phase of any command.                         *)
LEMMA SettledIsAnyPhase ==
  ASSUME Settled, NEW action
  PROVE  Phase(action)
  BY SettledIsPure DEF Phase

(* A slot that takes a task from its queue leaves the queues as pure.      *)
LEMMA AlterIndexPure ==
  ASSUME TypeOK, NEW s \in Slots, AlterIndex(s), NEW op, Pure(op)
  PROVE  Pure(op)'
<1>1. pending[s] \in Seq(Tasks) /\ pending[s] # <<>>
  BY DEF AlterIndex, TypeOK
<1>2. pending' = [pending EXCEPT ![s] = Tail(@)] /\ pending \in [Slots -> Seq(Tasks)]
  BY DEF AlterIndex, TypeOK
<1>3. SUFFICES ASSUME NEW r \in Slots, NEW i \in 1..Len(pending'[r])
               PROVE  pending'[r][i].op = op
  BY DEF Pure
<1>4. CASE r = s
  <2>1. pending'[s] = Tail(pending[s])
    BY <1>2
  <2>2. Len(Tail(pending[s])) = Len(pending[s]) - 1 /\ Len(pending[s]) \in Nat
    BY <1>1
  <2>3. i \in 1..(Len(pending[s]) - 1)
    BY <1>4, <2>1, <2>2
  <2>4. Tail(pending[s])[i] = pending[s][i + 1] /\ i + 1 \in 1..Len(pending[s])
    BY <1>1, <2>2, <2>3
  <2> QED
    BY <1>4, <2>1, <2>4 DEF Pure
<1>5. CASE r # s
  BY <1>2, <1>5 DEF Pure
<1> QED
  BY <1>4, <1>5

(* A task of the kind that is queued leaves the queues as pure.            *)
LEMMA AddTaskPure ==
  ASSUME TypeOK, AddTask, Pure(task.op)
  PROVE  \A s \in Slots : \A i \in 1..Len(pending'[s]) : pending'[s][i].op = task.op
<1> DEFINE new == [op |-> task.op, doc |-> task.doc, text |-> task.text]
<1>1. task.slot \in Slots /\ new \in Tasks
  BY DEF AddTask, TypeOK, SlotTasks, Tasks
<1>2. pending' = [pending EXCEPT ![task.slot] = Append(@, new)]
  BY DEF AddTask
<1>3. pending \in [Slots -> Seq(Tasks)]
  BY DEF TypeOK
<1> SUFFICES ASSUME NEW s \in Slots, NEW i \in 1..Len(pending'[s])
             PROVE  pending'[s][i].op = task.op
  OBVIOUS
<1>4. CASE s = task.slot
  <2>1. pending'[s] = Append(pending[s], new) /\ pending[s] \in Seq(Tasks)
    BY <1>1, <1>2, <1>3, <1>4
  <2> HIDE DEF new
  <2>2. \/ i \in 1..Len(pending[s]) /\ pending'[s][i] = pending[s][i]
        \/ pending'[s][i] = new
    BY <1>1, <2>1
  <2> QED
    BY <2>2 DEF Pure, new
<1>5. CASE s # task.slot
  BY <1>2, <1>3, <1>5 DEF Pure
<1> QED
  BY <1>4, <1>5

-----------------------------------------------------------------------------
(* The phases stay separate.                                               *)

(* A step that leaves the slots' queues alone keeps what they hold.        *)
LEMMA SameQueues ==
  ASSUME UNCHANGED pending
  PROVE  /\ Settled' <=> Settled
         /\ \A op : (\A s \in Slots : \A i \in 1..Len(pending'[s]) : pending'[s][i].op = op) <=> Pure(op)
         /\ Pure("Add")' <=> Pure("Add")
         /\ Pure("Delete")' <=> Pure("Delete")
  BY DEF Settled, Pure

LEMMA RoundPhases ==
  ASSUME TypeInv, PhasesSeparate,
         \/ Tick \/ LoadStored \/ StoredLoaded
         \/ FetchCommand \/ FinishTasks \/ LeaveQueue
  PROVE  PhasesSeparate'
<1>1. UNCHANGED pending
  BY DEF Tick, LoadStored, StoredLoaded, FetchCommand, FinishTasks, LeaveQueue, indexing
<1>2. /\ Settled' <=> Settled
      /\ Pure("Add")' <=> Pure("Add")
      /\ Pure("Delete")' <=> Pure("Delete")
  BY <1>1, SameQueues
<1>3. Settled => Pure("Add") /\ Pure("Delete")
  BY SettledIsPure
<1>4. CASE Tick
  BY <1>2, <1>3, <1>4 DEF Tick, indexing, PhasesSeparate, Phase
<1>5. CASE LoadStored
  BY <1>2, <1>5 DEF LoadStored, StartTask, indexing, PhasesSeparate, Phase, TypeInv, ControlOK
<1>6. CASE StoredLoaded
  BY <1>2, <1>3, <1>6 DEF StoredLoaded, PhasesSeparate, Phase
<1>7. CASE FetchCommand
  BY <1>2, <1>3, <1>7 DEF FetchCommand, indexing, PhasesSeparate, Phase, TypeInv, ControlOK
<1>8. CASE FinishTasks
  BY <1>2, <1>3, <1>8 DEF FinishTasks, indexing, PhasesSeparate, Phase, TypeInv, ControlOK, InHand
<1>9. CASE LeaveQueue
  BY <1>2, <1>9 DEF LeaveQueue, indexing, PhasesSeparate, Phase, TypeInv, ControlOK
<1> QED
  BY <1>4, <1>5, <1>6, <1>7, <1>8, <1>9

(* A command stays in hand, or its status is written.                      *)
LEMMA CommandPhases ==
  ASSUME TypeInv, PhasesSeparate,
         \/ RemoveKey \/ RemovePayload \/ WriteKey
         \/ FailDocument \/ StoreText \/ DescribeDocument \/ ReplaceDocument \/ RetryLater
         \/ DropMissing \/ DropAssociations \/ EraseText \/ UndescribeDocument
         \/ AddAssociation \/ AddAssociations \/ LoadDocument \/ EndLoad
  PROVE  PhasesSeparate'
<1> USE DEF processing, indexing
<1>1. UNCHANGED <<pending, ready>>
  BY DEF RemoveKey, RemovePayload, WriteKey, FailDocument, StoreText, DescribeDocument,
     ReplaceDocument, RetryLater, DropMissing, DropAssociations, EraseText, UndescribeDocument,
     AddAssociation, AddAssociations, LoadDocument, EndLoad
<1>2. /\ Settled' <=> Settled
      /\ Pure("Add")' <=> Pure("Add")
      /\ Pure("Delete")' <=> Pure("Delete")
  BY <1>1, SameQueues
<1>3. ready /\ pc \notin {"idle", "fetch", "settle"} /\ cmd \in Commands
  BY DEF RemoveKey, RemovePayload, WriteKey, FailDocument, StoreText, DescribeDocument,
     ReplaceDocument, RetryLater, DropMissing, DropAssociations, EraseText, UndescribeDocument,
     AddAssociation, AddAssociations, LoadDocument, EndLoad, Executing, TypeInv, TypeOK, ControlOK,
     InHand
<1>4. cmd'.action = cmd.action
  BY <1>3 DEF RemoveKey, RemovePayload, WriteKey, FailDocument, StoreText, DescribeDocument,
     ReplaceDocument, RetryLater, DropMissing, DropAssociations, EraseText, UndescribeDocument,
     AddAssociation, AddAssociations, LoadDocument, EndLoad, Commands
<1>5. \/ pc' = "fetch" /\ previousAction' = cmd.action
      \/ pc' \notin {"idle", "fetch", "settle"}
  BY <1>3 DEF RemoveKey, AfterKeyRemoved, RemovePayload, WriteKey, FailDocument, StoreText,
     DescribeDocument, ReplaceDocument, RetryLater, DropMissing, DropAssociations, EraseText,
     UndescribeDocument, AddAssociation, AddAssociations, LoadDocument, EndLoad, Finish
<1>6. Phase(cmd.action)
  BY <1>3 DEF PhasesSeparate
<1> QED
  BY <1>1, <1>2, <1>3, <1>4, <1>5, <1>6 DEF PhasesSeparate, Phase

LEMMA HandOverPhases ==
  ASSUME TypeInv, TypeInv', PhasesSeparate, AddTask \/ ThrottleEnds
  PROVE  PhasesSeparate'
<1> USE DEF processing, indexing
<1>1. /\ pc \in {"enqueue", "throttle"} /\ task \in SlotTasks
      /\ UNCHANGED <<cmd, previousAction, ready>>
      /\ pc' \in {"throttle", "enqueue", "load", "remove", "erase"}
  BY DEF AddTask, ThrottleEnds, NextSlot, TypeInv, TypeOK, ControlOK
<1>2. ready => Phase(cmd.action) /\ cmd.action = IF task.op = "Add" THEN "AddDocument" ELSE "DropDocument"
  BY <1>1 DEF PhasesSeparate, TypeInv, ControlOK
<1>3. ~ready => Pure("Add") /\ task.op = "Add"
  BY <1>1 DEF PhasesSeparate
<1>4. Pure(task.op)
  BY <1>1, <1>2, <1>3 DEF Phase, SlotTasks
<1>5. \A s \in Slots : \A i \in 1..Len(pending'[s]) : pending'[s][i].op = task.op
  <2>1. CASE AddTask
    BY <2>1, <1>4, AddTaskPure DEF TypeInv
  <2>2. CASE ThrottleEnds
    BY <2>2, <1>4, SameQueues DEF ThrottleEnds
  <2> QED
    BY <2>1, <2>2
<1>6. /\ task.op = "Add" => Pure("Add")'
      /\ task.op = "Delete" => Pure("Delete")'
  BY <1>5 DEF Pure
<1>7. ~ready /\ pc' \in {"enqueue", "throttle"} => task'.op = "Add"
  BY <1>1, <1>3 DEF AddTask, ThrottleEnds, NextSlot, SlotTasks
<1>8. ready => Phase(cmd.action)'
  BY <1>1, <1>2, <1>6 DEF Phase, SlotTasks
<1> QED
  BY <1>1, <1>3, <1>6, <1>7, <1>8 DEF PhasesSeparate, TypeInv, ControlOK

LEMMA AlterIndexPhases ==
  ASSUME TypeInv, PhasesSeparate, NEW s \in Slots, AlterIndex(s)
  PROVE  PhasesSeparate'
<1>1. UNCHANGED <<pc, cmd, previousAction, task, ready>>
  BY DEF AlterIndex, processing
<1>2. ~Settled
  BY DEF AlterIndex, Settled
<1>3. /\ Pure("Add") => Pure("Add")'
      /\ Pure("Delete") => Pure("Delete")'
  BY AlterIndexPure DEF TypeInv
<1> QED
  BY <1>1, <1>2, <1>3 DEF PhasesSeparate, Phase

LEMMA PhasesStep ==
  ASSUME Assumptions, TypeInv, TypeInv', PhasesSeparate, [Next]_vars
  PROVE  PhasesSeparate'
<1>1. CASE (\E h \in Handlers : Handle(h)) \/ (\E c \in Creators : Create(c)) \/ Close \/ UNCHANGED vars
  <2>1. UNCHANGED <<processing, indexing>>
    BY <1>1 DEF Handle, CreateDocument, CreateAndAssociateDocument, DeleteDocument,
       AssociateDocument, AssociateDocuments, LoadDocuments, Request, Create, SavePayload, SaveKey,
       AssociateCreated, Close, vars
  <2> QED
    BY <2>1, SameQueues DEF processing, indexing, PhasesSeparate, Phase
<1>2. CASE Process
  BY <1>2, RoundPhases, CommandPhases, HandOverPhases DEF Process
<1>3. CASE \E s \in Slots : AlterIndex(s)
  BY <1>3, AlterIndexPhases
<1> QED
  BY <1>1, <1>2, <1>3 DEF Next

-----------------------------------------------------------------------------
(* What the index and its tasks amount to, entry by entry.                 *)
LEMMA InPostings ==
  ASSUME Assumptions, NEW e \in Hashes \X Docs, NEW s \in Slots, NEW d \in Docs, NEW t \in Texts
  PROVE  e \in Postings(s, d, t) <=> e[2] = d /\ e[1] \in PostingHashes[t] /\ SlotOf[e[1]] = s
  BY DEF Postings, Assumptions

LEMMA InIndexed ==
  ASSUME NEW e \in Hashes \X Docs
  PROVE  e \in Indexed(Staying) <=>
           /\ e[2] \notin Leaving
           /\ documentDB[e[2]] # NoText
           /\ e[1] \in PostingHashes[documentDB[e[2]]]
<1>1. e[2] \in Docs
  OBVIOUS
<1>2. CASE e[2] \in Leaving
  BY <1>1, <1>2 DEF Indexed, Staying
<1>3. CASE e[2] \notin Leaving
  BY <1>1, <1>3 DEF Indexed, Staying
<1> QED
  BY <1>2, <1>3

(* A step that touches neither the index nor its tasks, nor the texts.     *)
LEMMA SameTasks ==
  ASSUME UNCHANGED <<index, pending>>, SlotsLeft' = SlotsLeft,
         SlotsLeft = {} \/ (task'.op = task.op /\ task'.doc = task.doc /\ task'.text = task.text),
         NEW e
  PROVE  /\ Arriving(e)' <=> Arriving(e)
         /\ \A op : Outstanding(op, e)' <=> Outstanding(op, e)
<1>1. ASSUME NEW op
      PROVE  Outstanding(op, e)' <=> Outstanding(op, e)
  BY DEF Outstanding, Postings
<1> QED
  BY <1>1 DEF Arriving

LEMMA SameExact ==
  ASSUME UNCHANGED <<documentDB, index, pending>>, Leaving' = Leaving, SlotsLeft' = SlotsLeft,
         SlotsLeft = {} \/ (task'.op = task.op /\ task'.doc = task.doc /\ task'.text = task.text),
         NEW e \in Hashes \X Docs
  PROVE  (ExactAt(e)' <=> ExactAt(e)) /\ (Arriving(e)' <=> Arriving(e))
<1>1. Staying' = Staying
  BY DEF Staying
<1>2. Indexed(Staying)' = Indexed(Staying)
  BY <1>1 DEF Indexed
<1> QED
  BY <1>2, SameTasks DEF ExactAt

(* No task is in hand and no document about to leave.                      *)
LEMMA NothingInHand ==
  ASSUME ready, pc \notin {"describe", "enqueue", "throttle", "erase"}
  PROVE  Leaving = {} /\ SlotsLeft = {}
  BY DEF Leaving, SlotsLeft

(* While deletions are queued, no addition is outstanding.                 *)
LEMMA NoAdditionAmongDeletions ==
  ASSUME TypeInv, PhasesSeparate, NEW e,
         NEW s \in Slots, NEW i \in 1..Len(pending[s]), pending[s][i].op = "Delete"
  PROVE  ~Outstanding("Add", e)
<1>1. ~Pure("Add") /\ ~Settled
  BY SettledIsPure DEF Pure
<1>2. ready /\ pc # "idle"
  BY <1>1 DEF PhasesSeparate
<1>3. Pure("Delete")
  BY <1>1, <1>2 DEF PhasesSeparate, Phase
<1>4. pc \notin {"fetch", "settle"} => cmd.action = "DropDocument"
  BY <1>1, <1>2 DEF PhasesSeparate, Phase
<1>5. pc \in {"describe", "enqueue", "throttle"} => task.op # "Add"
  BY <1>2, <1>4 DEF TypeInv, ControlOK
<1>6. \A r \in SlotsLeft : task.op # "Add"
  BY <1>5 DEF SlotsLeft
<1> QED
  BY <1>3, <1>6 DEF Outstanding, Pure

(* While additions are in phase and no task is in hand, nothing is going.  *)
LEMMA NoDeletionAmongAdditions ==
  ASSUME Pure("Add"), SlotsLeft = {} \/ task.op = "Add", NEW e
  PROVE  ~Outstanding("Delete", e)
  BY DEF Outstanding, Pure

-----------------------------------------------------------------------------
(* The index follows the documents.                                        *)

(* A slot carries out its oldest task.                                     *)
LEMMA AlterIndexExact ==
  ASSUME Assumptions, TypeInv, PhasesSeparate, NEW s \in Slots, AlterIndex(s),
         NEW e \in Hashes \X Docs
  PROVE  (ExactAt(e) => ExactAt(e)') /\ (Arriving(e)' => Arriving(e))
<1> DEFINE t == Head(pending[s])
           P == Postings(s, t.doc, t.text)
<1>1. pending \in [Slots -> Seq(Tasks)] /\ pending[s] \in Seq(Tasks) /\ pending[s] # <<>>
  BY DEF AlterIndex, TypeInv, TypeOK
<1>2. /\ t \in Tasks /\ t = pending[s][1] /\ 1 \in 1..Len(pending[s])
      /\ Tail(pending[s]) \in Seq(Tasks)
      /\ Len(Tail(pending[s])) = Len(pending[s]) - 1
      /\ \A i \in 1..(Len(pending[s]) - 1) : Tail(pending[s])[i] = pending[s][i + 1]
  BY <1>1
<1>3. pending' = [pending EXCEPT ![s] = Tail(pending[s])]
  BY DEF AlterIndex
<1>4. Len(pending[s]) \in Nat
  BY <1>1
<1>5. UNCHANGED <<documentDB, ready, toLoad, cmd, pc, task>>
  BY DEF AlterIndex, documents, processing
<1>6. Leaving' = Leaving /\ SlotsLeft' = SlotsLeft
  BY <1>5 DEF Leaving, SlotsLeft
<1>7. Indexed(Staying)' = Indexed(Staying)
  BY <1>5, <1>6 DEF Indexed, Staying
<1> HIDE DEF t
<1>8. ASSUME NEW op, NEW x
      PROVE  Outstanding(op, x) <=> Outstanding(op, x)' \/ (t.op = op /\ x \in P)
  <2>1. ASSUME NEW r \in Slots
        PROVE  (\E i \in 1..Len(pending[r]) :
                  pending[r][i].op = op /\ x \in Postings(r, pending[r][i].doc, pending[r][i].text))
               <=> \/ \E i \in 1..Len(pending'[r]) :
                        pending'[r][i].op = op /\ x \in Postings(r, pending'[r][i].doc, pending'[r][i].text)
                   \/ r = s /\ t.op = op /\ x \in P
    <3>1. CASE r # s
      BY <1>1, <1>3, <3>1
    <3>2. CASE r = s
      <4>1. pending'[s] = Tail(pending[s])
        BY <1>1, <1>3
      <4>2. ASSUME NEW i \in 1..Len(pending[s]), i # 1
            PROVE  i - 1 \in 1..(Len(pending[s]) - 1) /\ Tail(pending[s])[i - 1] = pending[s][i]
        <5>1. i - 1 \in 1..(Len(pending[s]) - 1) /\ (i - 1) + 1 = i
          BY <1>4, <4>2
        <5> QED
          BY <1>2, <5>1
      <4>3. ASSUME NEW i \in 1..(Len(pending[s]) - 1)
            PROVE  i + 1 \in 1..Len(pending[s])
        BY <1>4
      <4>4. ASSUME NEW i \in 1..Len(pending[s]),
                   pending[s][i].op = op, x \in Postings(s, pending[s][i].doc, pending[s][i].text)
            PROVE  \/ \E l \in 1..Len(pending'[s]) :
                         pending'[s][l].op = op /\ x \in Postings(s, pending'[s][l].doc, pending'[s][l].text)
                   \/ t.op = op /\ x \in P
        <5>1. CASE i = 1
          BY <1>2, <4>4, <5>1
        <5>2. CASE i # 1
          BY <1>2, <4>1, <4>2, <4>4, <5>2
        <5> QED
          BY <5>1, <5>2
      <4>5. ASSUME NEW i \in 1..Len(pending'[s]),
                   pending'[s][i].op = op, x \in Postings(s, pending'[s][i].doc, pending'[s][i].text)
            PROVE  \E l \in 1..Len(pending[s]) :
                     pending[s][l].op = op /\ x \in Postings(s, pending[s][l].doc, pending[s][l].text)
        BY <1>2, <4>1, <4>3, <4>5
      <4>6. t.op = op /\ x \in P =>
              \E l \in 1..Len(pending[s]) :
                pending[s][l].op = op /\ x \in Postings(s, pending[s][l].doc, pending[s][l].text)
        BY <1>2
      <4> HIDE DEF P
      <4> QED
        BY <3>2, <4>4, <4>5, <4>6
    <3> QED
      BY <3>1, <3>2
  <2>2. \A r \in Slots : (r \in SlotsLeft /\ task.op = op /\ x \in Postings(r, task.doc, task.text))'
                       <=> r \in SlotsLeft /\ task.op = op /\ x \in Postings(r, task.doc, task.text)
    BY <1>5, <1>6 DEF Postings
  <2>3. \A r, d, w : Postings(r, d, w)' = Postings(r, d, w)
    BY DEF Postings
  <2> QED
    BY <2>1, <2>2, <2>3 DEF Outstanding
<1>9. CASE t.op = "Add"
  <2>1. index' = index \cup P
    BY <1>9 DEF AlterIndex, t
  <2> QED
    BY <1>7, <1>8, <1>9, <2>1 DEF ExactAt, Arriving
<1>10. CASE t.op = "Delete"
  <2>1. index' = index \ P
    BY <1>10 DEF AlterIndex, t
  <2>2. ~Outstanding("Add", e)
    BY <1>2, <1>10, NoAdditionAmongDeletions
  <2> QED
    BY <1>7, <1>8, <1>10, <2>1, <2>2 DEF ExactAt, Arriving
<1> QED
  BY <1>2, <1>9, <1>10 DEF Tasks

(* The processor moves on to the next slot.                                *)
LEMMA NextSlotLeaves ==
  ASSUME Assumptions, TypeInv, NextSlot, task \in SlotTasks, pc \in {"enqueue", "throttle"},
         UNCHANGED <<cmd, ready>>
  PROVE  /\ SlotsLeft' = {s \in Slots : s > task.slot}
         /\ \/ SlotsLeft' = {}
            \/ task'.op = task.op /\ task'.doc = task.doc /\ task'.text = task.text
         /\ Complete' /\ UNCHANGED closing => Leaving' = Leaving
<1>1. task.slot \in Slots /\ SlotCount \in Nat /\ Slots = 1..SlotCount
  BY DEF SlotTasks, Slots, Assumptions
<1>2. ready => task.op = "Delete" <=> cmd.action = "DropDocument"
  BY DEF TypeInv, ControlOK, SlotTasks
<1>3. CASE task.slot < SlotCount /\ task' = [task EXCEPT !.slot = @ + 1, !.counted = Counted]
             /\ pc' = "enqueue" /\ UNCHANGED <<goal, toLoad>>
  <2>1. /\ task'.slot = task.slot + 1 /\ task'.op = task.op
        /\ task'.doc = task.doc /\ task'.text = task.text
    BY <1>3 DEF SlotTasks
  <2>2. \A s \in Slots : s >= task.slot + 1 <=> s > task.slot
    BY <1>1
  <2>3. SlotsLeft' = {s \in Slots : s > task.slot}
    BY <1>3, <2>1, <2>2 DEF SlotsLeft
  <2>4. Leaving' = Leaving
    BY <1>3, <2>1 DEF Leaving
  <2> QED
    BY <2>1, <2>3, <2>4
<1>4. CASE task.slot = SlotCount
  <2>1. {s \in Slots : s > task.slot} = {}
    BY <1>1, <1>4
  <2>2. pc' \in {"load", "remove", "erase"}
    BY <1>1, <1>4 DEF NextSlot
  <2>3. SlotsLeft' = {}
    BY <2>2 DEF SlotsLeft
  <2>4. ASSUME Complete', UNCHANGED closing PROVE Leaving' = Leaving
    <3>1. CASE ~ready
      <4>1. ~closing
        BY <2>4, <3>1 DEF Complete
      <4>2. toLoad' = toLoad
        BY <1>1, <1>4, <3>1, <4>1 DEF NextSlot
      <4> QED
        BY <3>1, <4>2 DEF Leaving
    <3>2. CASE ready /\ task.op = "Add"
      BY <1>1, <1>4, <3>2 DEF NextSlot, Leaving
    <3>3. CASE ready /\ task.op = "Delete"
      BY <1>1, <1>4, <3>3 DEF NextSlot, Leaving
    <3> QED
      BY <3>1, <3>2, <3>3 DEF SlotTasks
  <2> QED
    BY <2>1, <2>3, <2>4
<1> QED
  BY <1>1, <1>3, <1>4 DEF NextSlot

LEMMA ThrottleEndsExact ==
  ASSUME Assumptions, TypeInv, ThrottleEnds, NEW e \in Hashes \X Docs
  PROVE  /\ Complete' /\ ExactAt(e) => ExactAt(e)'
         /\ Arriving(e)' <=> Arriving(e)
         /\ \A op : Outstanding(op, e)' <=> Outstanding(op, e)
<1>1. /\ task \in SlotTasks /\ pc = "throttle" /\ NextSlot
      /\ UNCHANGED <<cmd, ready, closing, documentDB, index, pending>>
  BY DEF ThrottleEnds, TypeInv, TypeOK, documents, indexing
<1>2. SlotsLeft = {s \in Slots : s > task.slot}
  BY <1>1 DEF SlotsLeft
<1> QED
  BY <1>1, <1>2, NextSlotLeaves, SameExact, SameTasks

(* A task that a slot takes over from the processor stays outstanding.     *)
LEMMA AddTaskExact ==
  ASSUME Assumptions, TypeInv, AddTask, NEW e \in Hashes \X Docs
  PROVE  /\ Complete' /\ ExactAt(e) => ExactAt(e)'
         /\ Arriving(e)' <=> Arriving(e)
         /\ \A op : Outstanding(op, e)' <=> Outstanding(op, e)
<1> DEFINE new == [op |-> task.op, doc |-> task.doc, text |-> task.text]
<1>1. /\ task \in SlotTasks /\ pc = "enqueue"
      /\ UNCHANGED <<cmd, ready, closing, documentDB, index>>
      /\ pending' = [pending EXCEPT ![task.slot] = Append(@, new)]
  BY DEF AddTask, TypeInv, TypeOK, documents
<1>2. task.slot \in Slots /\ new \in Tasks /\ pending \in [Slots -> Seq(Tasks)]
  BY <1>1 DEF SlotTasks, Tasks, TypeInv, TypeOK
<1>3. /\ SlotsLeft' = {s \in Slots : s > task.slot}
      /\ \/ SlotsLeft' = {}
         \/ task'.op = task.op /\ task'.doc = task.doc /\ task'.text = task.text
      /\ Complete' => Leaving' = Leaving
  <2>1. CASE NextSlot
    BY <1>1, <2>1, NextSlotLeaves
  <2>2. CASE pc' = "throttle" /\ UNCHANGED <<goal, task, toLoad>>
    BY <1>1, <2>2 DEF SlotsLeft, Leaving
  <2> QED
    BY <2>1, <2>2 DEF AddTask
<1>4. SlotsLeft = SlotsLeft' \cup {task.slot}
  <2>1. SlotsLeft = {s \in Slots : s >= task.slot}
    BY <1>1 DEF SlotsLeft
  <2>2. \A s \in Slots : s >= task.slot <=> s > task.slot \/ s = task.slot
    BY <1>2 DEF Slots
  <2> QED
    BY <1>2, <1>3, <2>1, <2>2
<1>5. Complete' => Indexed(Staying)' = Indexed(Staying)
  BY <1>1, <1>3 DEF Indexed, Staying
<1> HIDE DEF new
<1>6. /\ pending'[task.slot] = Append(pending[task.slot], new)
      /\ Len(pending'[task.slot]) = Len(pending[task.slot]) + 1
      /\ Len(pending[task.slot]) \in Nat
      /\ pending'[task.slot][Len(pending[task.slot]) + 1] = new
      /\ \A i \in 1..Len(pending[task.slot]) : pending'[task.slot][i] = pending[task.slot][i]
  BY <1>1, <1>2
<1>7. ASSUME NEW op
      PROVE  Outstanding(op, e)' <=> Outstanding(op, e)
  <2> DEFINE Queued1(s) == \E i \in 1..Len(pending[s]) :
                 pending[s][i].op = op /\ e \in Postings(s, pending[s][i].doc, pending[s][i].text)
             Queued2(s) == \E i \in 1..Len(pending'[s]) :
                 pending'[s][i].op = op /\ e \in Postings(s, pending'[s][i].doc, pending'[s][i].text)
             Left == task.op = op /\ e \in Postings(task.slot, task.doc, task.text)
  <2>1. \A s \in Slots : s # task.slot => (Queued2(s) <=> Queued1(s))
    BY <1>1, <1>2
  <2>2. Queued2(task.slot) <=> Queued1(task.slot) \/ Left
    <3>1. new.op = task.op /\ new.doc = task.doc /\ new.text = task.text
      BY DEF new
    <3>2. \A i \in 1..(Len(pending[task.slot]) + 1) :
             i \in 1..Len(pending[task.slot]) \/ i = Len(pending[task.slot]) + 1
      BY <1>6
    <3>3. /\ \A i \in 1..Len(pending[task.slot]) : i \in 1..(Len(pending[task.slot]) + 1)
          /\ Len(pending[task.slot]) + 1 \in 1..(Len(pending[task.slot]) + 1)
      BY <1>6
    <3> QED
      BY <1>6, <3>1, <3>2, <3>3
  <2>3. Outstanding(op, e) <=>
          \E s \in Slots : Queued1(s) \/ (s \in SlotsLeft /\ task.op = op /\ e \in Postings(s, task.doc, task.text))
    BY DEF Outstanding
  <2>4. Outstanding(op, e)' <=>
          \E s \in Slots : Queued2(s) \/ (s \in SlotsLeft' /\ task'.op = op /\ e \in Postings(s, task'.doc, task'.text))
    BY DEF Outstanding, Postings
  <2> HIDE DEF Queued1, Queued2
  <2>5. Outstanding(op, e)' <=>
          \E s \in Slots : Queued2(s) \/ (s \in SlotsLeft' /\ task.op = op /\ e \in Postings(s, task.doc, task.text))
    BY <1>3, <2>4
  <2>6. task.slot \notin SlotsLeft'
    BY <1>2, <1>3 DEF Slots
  <2> QED
    BY <1>2, <1>4, <2>1, <2>2, <2>3, <2>5, <2>6
<1> QED
  BY <1>1, <1>5, <1>7 DEF ExactAt, Arriving

(* An added document's text is stored, and its entries are decided.        *)
LEMMA StoreTextExact ==
  ASSUME Assumptions, TypeInv, PhasesSeparate, StoreText, NEW e \in Hashes \X Docs
  PROVE  /\ ExactAt(e) => ExactAt(e)'
         /\ e[2] # cmd.doc => (Arriving(e)' => Arriving(e))
         /\ e[2] = cmd.doc => e \notin Indexed(Staying)
<1>1. /\ pc = "execute" /\ pc' = "describe" /\ cmd.action = "AddDocument" /\ ready
      /\ cmd.doc \in Docs /\ documentDB[cmd.doc] = NoText
      /\ UNCHANGED <<cmd, ready, index, pending, toLoad>>
  BY ExecutingType DEF StoreText, Executing, DocumentActions, indexing
<1>2. PICK t \in PayloadTexts : /\ documentDB' = [documentDB EXCEPT ![cmd.doc] = t]
                                /\ StartTask("Add", cmd.doc, t)
  BY DEF StoreText
<1>3. t \in Texts /\ t # NoText
  BY <1>2, PayloadTextsType DEF Assumptions
<1>4. task'.op = "Add" /\ task'.doc = cmd.doc /\ task'.text = t /\ task'.slot = 1
  BY <1>2 DEF StartTask
<1>5. SlotsLeft = {} /\ Leaving = {} /\ Leaving' = {} /\ SlotsLeft' = Slots
  <2>1. \A s \in Slots : s >= 1
    BY DEF Slots, Assumptions
  <2> QED
    BY <1>1, <1>4, <2>1 DEF SlotsLeft, Leaving
<1>6. documentDB \in [Docs -> Texts \cup {NoText}]
  BY DEF TypeInv, TypeOK
<1>7. Pure("Add")
  BY <1>1 DEF PhasesSeparate, Phase
<1>8. /\ Outstanding("Delete", e)' <=> Outstanding("Delete", e)
      /\ Outstanding("Add", e)' <=>
           \/ Outstanding("Add", e)
           \/ e[2] = cmd.doc /\ e[1] \in PostingHashes[t]
  <2>1. \A s \in Slots : e \in Postings(s, cmd.doc, t) <=>
                          e[2] = cmd.doc /\ e[1] \in PostingHashes[t] /\ SlotOf[e[1]] = s
    BY <1>1, <1>3, InPostings
  <2>2. SlotOf[e[1]] \in Slots
    BY DEF Assumptions
  <2>3. (\E s \in Slots : e \in Postings(s, cmd.doc, t)) <=> e[2] = cmd.doc /\ e[1] \in PostingHashes[t]
    BY <2>1, <2>2
  <2> QED
    BY <1>1, <1>4, <1>5, <2>3 DEF Outstanding, Postings
<1>9. e \in Indexed(Staying)' <=>
        IF e[2] = cmd.doc THEN e[1] \in PostingHashes[t] ELSE e \in Indexed(Staying)
  <2>1. e \in Indexed(Staying)' <=> /\ documentDB'[e[2]] # NoText
                                    /\ e[1] \in PostingHashes[documentDB'[e[2]]]
    BY <1>5 DEF Indexed, Staying
  <2>2. e \in Indexed(Staying) <=> /\ documentDB[e[2]] # NoText
                                   /\ e[1] \in PostingHashes[documentDB[e[2]]]
    BY <1>5, InIndexed
  <2> QED
    BY <1>2, <1>3, <1>6, <2>1, <2>2
<1>10. e[2] = cmd.doc => e \notin Indexed(Staying)
  BY <1>1, InIndexed
<1>11. ~Outstanding("Delete", e)
  BY <1>5, <1>7, NoDeletionAmongAdditions
<1> QED
  BY <1>1, <1>8, <1>9, <1>10, <1>11 DEF ExactAt, Arriving

(* A dropped document is on its way out of the index.                      *)
LEMMA DropAssociationsExact ==
  ASSUME Assumptions, TypeInv, DropAssociations, NEW e \in Hashes \X Docs
  PROVE  (ExactAt(e) => ExactAt(e)') /\ (Arriving(e)' => Arriving(e))
<1>1. /\ pc = "execute" /\ pc' = "enqueue" /\ ready
      /\ cmd.doc \in Docs /\ documentDB[cmd.doc] # NoText
      /\ UNCHANGED <<cmd, ready, index, pending, toLoad, documentDB>>
  BY ExecutingType DEF DropAssociations, Executing, DocumentActions, indexing
<1> DEFINE t == documentDB[cmd.doc]
<1>2. t \in Texts
  BY <1>1 DEF TypeInv, TypeOK
<1>3. task'.op = "Delete" /\ task'.doc = cmd.doc /\ task'.text = t /\ task'.slot = 1
  BY DEF DropAssociations, StartTask
<1>4. SlotsLeft = {} /\ Leaving = {} /\ Leaving' = {cmd.doc} /\ SlotsLeft' = Slots
  <2>1. \A s \in Slots : s >= 1
    BY DEF Slots, Assumptions
  <2> QED
    BY <1>1, <1>3, <2>1 DEF SlotsLeft, Leaving
<1>5. /\ Outstanding("Add", e)' <=> Outstanding("Add", e)
      /\ Outstanding("Delete", e)' <=>
           \/ Outstanding("Delete", e)
           \/ e[2] = cmd.doc /\ e[1] \in PostingHashes[t]
  <2>1. \A s \in Slots : e \in Postings(s, cmd.doc, t) <=>
                          e[2] = cmd.doc /\ e[1] \in PostingHashes[t] /\ SlotOf[e[1]] = s
    BY <1>1, <1>2, InPostings
  <2>2. SlotOf[e[1]] \in Slots
    BY DEF Assumptions
  <2>3. (\E s \in Slots : e \in Postings(s, cmd.doc, t)) <=> e[2] = cmd.doc /\ e[1] \in PostingHashes[t]
    BY <2>1, <2>2
  <2> QED
    BY <1>1, <1>3, <1>4, <2>3 DEF Outstanding, Postings
<1>6. e \in Indexed(Staying)' <=> e[2] # cmd.doc /\ e \in Indexed(Staying)
  <2>1. e[2] \in Docs
    OBVIOUS
  <2>2. e \in Indexed(Staying)' <=>
          e[2] # cmd.doc /\ documentDB[e[2]] # NoText /\ e[1] \in PostingHashes[documentDB[e[2]]]
    BY <1>1, <1>4, <2>1 DEF Indexed, Staying
  <2> QED
    BY <1>4, <2>2, InIndexed
<1>7. e[2] = cmd.doc => (e \in Indexed(Staying) <=> e[1] \in PostingHashes[t])
  BY <1>1, <1>4, InIndexed
<1> QED
  BY <1>1, <1>5, <1>6, <1>7 DEF ExactAt, Arriving

(* ... and stays so when its text is erased.                               *)
LEMMA EraseTextExact ==
  ASSUME TypeInv, EraseText, NEW e \in Hashes \X Docs
  PROVE  (ExactAt(e) => ExactAt(e)') /\ (Arriving(e)' => Arriving(e))
<1>1. /\ pc = "erase" /\ pc' = "undescribe" /\ ready
      /\ documentDB' = [documentDB EXCEPT ![cmd.doc] = NoText]
      /\ UNCHANGED <<cmd, ready, index, pending, toLoad, task>>
  BY DEF EraseText, indexing, TypeInv, ControlOK, InHand
<1>2. documentDB \in [Docs -> Texts \cup {NoText}] /\ cmd.doc \in Docs
  BY <1>1, CommandsType DEF TypeInv, TypeOK, ControlOK, InHand, DocumentActions
<1>3. Leaving = {cmd.doc} /\ Leaving' = {} /\ SlotsLeft = {} /\ SlotsLeft' = {}
  BY <1>1, <1>2 DEF Leaving, SlotsLeft
<1>4. Staying' = Staying
  BY <1>1, <1>2, <1>3 DEF Staying
<1>5. Indexed(Staying)' = Indexed(Staying)
  BY <1>4 DEF Indexed
<1>6. ASSUME NEW op PROVE Outstanding(op, e)' <=> Outstanding(op, e)
  BY <1>1, <1>3 DEF Outstanding, Postings
<1> QED
  BY <1>1, <1>5, <1>6 DEF ExactAt, Arriving

(* Loading begins with an empty index and no document.                     *)
LEMMA TickExact ==
  ASSUME TypeInv, PhasesSeparate, index = {}, Tick, ~ready, NEW e \in Hashes \X Docs
  PROVE  /\ ~Arriving(e)' /\ ~Outstanding("Delete", e)'
         /\ e[2] \in described => ExactAt(e)'
<1>1. /\ pc = "idle" /\ pc' = "load" /\ toLoad' = described
      /\ UNCHANGED <<ready, index, pending, documentDB>>
  BY DEF Tick, documents, indexing
<1>2. Settled /\ described \subseteq Docs
  BY <1>1 DEF PhasesSeparate, TypeInv, TypeOK
<1>3. SlotsLeft' = {} /\ Leaving' = described
  BY <1>1, <1>2 DEF SlotsLeft, Leaving
<1>4. e[2] \in described => e \notin Indexed(Staying)'
  <2>1. e[2] \in Docs
    OBVIOUS
  <2> QED
    BY <1>1, <1>2, <1>3, <2>1 DEF Indexed, Staying
<1>5. ASSUME NEW op PROVE ~Outstanding(op, e)'
  <2>1. \A s \in Slots : pending'[s] = <<>>
    BY <1>1, <1>2 DEF Settled
  <2> QED
    BY <1>3, <2>1 DEF Outstanding
<1> QED
  BY <1>1, <1>4, <1>5 DEF ExactAt, Arriving

(* A stored document is taken up.                                          *)
LEMMA LoadStoredExact ==
  ASSUME Assumptions, TypeInv, PhasesSeparate, LoadStored, NEW e \in Hashes \X Docs
  PROVE  /\ ExactAt(e) => ExactAt(e)'
         /\ Arriving(e)' /\ ~Arriving(e) => e \notin Indexed(Staying)
<1>1. PICK d \in toLoad : /\ documentDB[d] # NoText
                          /\ toLoad' = toLoad \ {d}
                          /\ StartTask("Add", d, documentDB[d])
  BY DEF LoadStored
<1>2. /\ pc = "load" /\ pc' = "enqueue" /\ ~ready
      /\ UNCHANGED <<cmd, ready, index, pending, documentDB>>
  BY DEF LoadStored, documents, indexing, TypeInv, ControlOK
<1> DEFINE t == documentDB[d]
<1>3. d \in Docs /\ t \in Texts /\ toLoad \subseteq Docs
  BY <1>1 DEF TypeInv, TypeOK
<1>4. task'.op = "Add" /\ task'.doc = d /\ task'.text = t /\ task'.slot = 1
  BY <1>1 DEF StartTask
<1>5. SlotsLeft = {} /\ Leaving = toLoad /\ Leaving' = toLoad \ {d} /\ SlotsLeft' = Slots
  <2>1. \A s \in Slots : s >= 1
    BY DEF Slots, Assumptions
  <2> QED
    BY <1>1, <1>2, <1>3, <1>4, <2>1 DEF SlotsLeft, Leaving
<1>6. /\ Outstanding("Delete", e)' <=> Outstanding("Delete", e)
      /\ Outstanding("Add", e)' <=>
           Outstanding("Add", e) \/ (e[2] = d /\ e[1] \in PostingHashes[t])
  <2>1. \A s \in Slots : e \in Postings(s, d, t) <=>
                          e[2] = d /\ e[1] \in PostingHashes[t] /\ SlotOf[e[1]] = s
    BY <1>3, InPostings
  <2>2. SlotOf[e[1]] \in Slots
    BY DEF Assumptions
  <2>3. (\E s \in Slots : e \in Postings(s, d, t)) <=> e[2] = d /\ e[1] \in PostingHashes[t]
    BY <2>1, <2>2
  <2> QED
    BY <1>2, <1>4, <1>5, <2>3 DEF Outstanding, Postings
<1>7. /\ e \in Indexed(Staying)' <=>
           \/ e \in Indexed(Staying)
           \/ e[2] = d /\ e[1] \in PostingHashes[t]
      /\ e[2] = d => e \notin Indexed(Staying)
  <2>1. e[2] \in Docs
    OBVIOUS
  <2>2. e \in Indexed(Staying)' <=>
          e[2] \notin toLoad \ {d} /\ documentDB[e[2]] # NoText /\ e[1] \in PostingHashes[documentDB[e[2]]]
    BY <1>2, <1>5, <2>1 DEF Indexed, Staying
  <2> QED
    BY <1>1, <1>5, <2>2, InIndexed
<1>8. ~Outstanding("Delete", e)
  BY <1>2, <1>5, NoDeletionAmongAdditions DEF PhasesSeparate
<1> QED
  BY <1>2, <1>6, <1>7, <1>8 DEF ExactAt, Arriving

-----------------------------------------------------------------------------
LEMMA RoundFollows ==
  ASSUME Assumptions, TypeInv, TypeInv', PhasesSeparate, IndexFollows, FirstLoad,
         \/ Tick \/ LoadStored \/ StoredLoaded
         \/ FetchCommand \/ FinishTasks \/ LeaveQueue
  PROVE  IndexFollows'
<1> USE DEF documents, indexing
<1>1. CASE Tick /\ ~ready
  <2>1. index = {} /\ described = {d \in Docs : documentDB[d] # NoText}
    BY <1>1 DEF Tick, FirstLoad
  <2>2. ASSUME NEW e \in Hashes \X Docs, e[2] \notin described
        PROVE  e \notin Indexed(Staying)'
    BY <1>1, <2>1, <2>2 DEF Tick, Indexed, Staying
  <2>3. ASSUME NEW e \in Hashes \X Docs
        PROVE  ExactAt(e)'
    BY <1>1, <2>1, <2>2, TickExact DEF ExactAt
  <2> QED
    BY <2>3 DEF IndexFollows, IndexExact
<1>2. CASE LoadStored
  <2>1. pc = "load" /\ ~ready /\ UNCHANGED <<closing, ready>>
    BY <1>2 DEF LoadStored, TypeInv, ControlOK
  <2> QED
    BY <1>2, <2>1, LoadStoredExact DEF IndexFollows, IndexExact, Complete
<1>3. CASE StoredLoaded
  <2>1. /\ pc = "load" /\ pc' = "fetch" /\ ~ready /\ ready' /\ toLoad = {}
        /\ UNCHANGED <<closing, documentDB, index, pending, task>>
    BY <1>3 DEF StoredLoaded, TypeInv, ControlOK
  <2>2. Leaving = {} /\ Leaving' = {} /\ SlotsLeft = {} /\ SlotsLeft' = {}
    BY <2>1 DEF Leaving, SlotsLeft
  <2> QED
    BY <2>1, <2>2, SameExact DEF IndexFollows, IndexExact, Complete
<1>4. CASE (Tick /\ ready) \/ FetchCommand \/ FinishTasks \/ LeaveQueue
  <2>1. /\ UNCHANGED <<closing, ready, documentDB, index, pending>> /\ ready
        /\ pc \notin {"describe", "enqueue", "throttle", "erase"}
        /\ pc' \notin {"describe", "enqueue", "throttle", "erase"}
        /\ Complete' => Complete
    BY <1>4 DEF Tick, FetchCommand, FinishTasks, LeaveQueue, TypeInv, ControlOK, InHand, Complete
  <2>2. Leaving = {} /\ SlotsLeft = {} /\ Leaving' = {} /\ SlotsLeft' = {}
    BY <2>1 DEF Leaving, SlotsLeft
  <2> QED
    BY <2>1, <2>2, SameExact DEF IndexFollows, IndexExact
<1> QED
  BY <1>1, <1>2, <1>3, <1>4

LEMMA CommandFollows ==
  ASSUME Assumptions, TypeInv, TypeInv', PhasesSeparate, IndexFollows,
         \/ RemoveKey \/ RemovePayload \/ WriteKey
         \/ FailDocument \/ StoreText \/ DescribeDocument \/ ReplaceDocument \/ RetryLater
         \/ DropMissing \/ DropAssociations \/ EraseText \/ UndescribeDocument
         \/ AddAssociation \/ AddAssociations \/ LoadDocument \/ EndLoad
  PROVE  IndexFollows'
<1> USE DEF processing, indexing, documents
<1>1. ready /\ pc \notin {"idle", "fetch"}
  BY DEF RemoveKey, RemovePayload, WriteKey, FailDocument, StoreText, DescribeDocument,
     ReplaceDocument, RetryLater, DropMissing, DropAssociations, EraseText, UndescribeDocument,
     AddAssociation, AddAssociations, LoadDocument, EndLoad, Executing, TypeInv, ControlOK, InHand
<1>2. IndexExact
  BY <1>1 DEF IndexFollows, Complete
<1>3. CASE StoreText
  BY <1>2, <1>3, StoreTextExact DEF IndexFollows, IndexExact
<1>4. CASE DropAssociations
  BY <1>2, <1>4, DropAssociationsExact DEF IndexFollows, IndexExact
<1>5. CASE EraseText
  BY <1>2, <1>5, EraseTextExact DEF IndexFollows, IndexExact
<1>6. CASE DescribeDocument
  <2>1. /\ pc = "describe" /\ pc' = "enqueue" /\ task \in SlotTasks
        /\ UNCHANGED <<documentDB, index, pending, cmd, task, toLoad, ready>>
    BY <1>6 DEF DescribeDocument, TypeInv, TypeOK
  <2>2. task.op = "Add"
    BY <1>1, <2>1 DEF TypeInv, ControlOK, SlotTasks
  <2>3. Leaving' = Leaving /\ SlotsLeft' = SlotsLeft
    BY <1>1, <2>1, <2>2 DEF Leaving, SlotsLeft
  <2> QED
    BY <1>2, <2>1, <2>3, SameExact DEF IndexFollows, IndexExact
<1>7. CASE \/ RemoveKey \/ RemovePayload \/ WriteKey
           \/ FailDocument \/ ReplaceDocument \/ RetryLater \/ DropMissing \/ UndescribeDocument
           \/ AddAssociation \/ AddAssociations \/ LoadDocument \/ EndLoad
  <2>1. /\ UNCHANGED <<documentDB, index, pending, ready>>
        /\ pc \notin {"describe", "enqueue", "throttle", "erase"}
        /\ pc' \notin {"describe", "enqueue", "throttle", "erase"}
    BY <1>7 DEF RemoveKey, AfterKeyRemoved, RemovePayload, WriteKey, FailDocument, ReplaceDocument,
       RetryLater, DropMissing, UndescribeDocument, AddAssociation, AddAssociations, LoadDocument,
       EndLoad, Executing, Finish
  <2>2. Leaving = {} /\ SlotsLeft = {} /\ Leaving' = {} /\ SlotsLeft' = {}
    BY <1>1, <2>1 DEF Leaving, SlotsLeft
  <2> QED
    BY <1>2, <2>1, <2>2, SameExact DEF IndexFollows, IndexExact
<1> QED
  BY <1>3, <1>4, <1>5, <1>6, <1>7

LEMMA IndexFollowsStep ==
  ASSUME Assumptions, TypeInv, TypeInv', PhasesSeparate, IndexFollows, FirstLoad, [Next]_vars
  PROVE  IndexFollows'
<1>1. CASE (\E h \in Handlers : Handle(h)) \/ (\E c \in Creators : Create(c)) \/ Close \/ UNCHANGED vars
  <2>1. UNCHANGED <<processing, indexing, documents>>
    BY <1>1 DEF Handle, CreateDocument, CreateAndAssociateDocument, DeleteDocument,
       AssociateDocument, AssociateDocuments, LoadDocuments, Request, Create, SavePayload, SaveKey,
       AssociateCreated, Close, vars
  <2>a. closing => closing'
    <3>1. CASE Close
      BY <3>1 DEF Close
    <3>2. CASE (\E h \in Handlers : Handle(h)) \/ (\E c \in Creators : Create(c)) \/ UNCHANGED vars
      <4>1. UNCHANGED closing
        BY <3>2 DEF Handle, CreateDocument, CreateAndAssociateDocument, DeleteDocument,
           AssociateDocument, AssociateDocuments, LoadDocuments, Request, Create, SavePayload,
           SaveKey, AssociateCreated, vars
      <4> QED
        BY <4>1
    <3> QED
      BY <1>1, <3>1, <3>2
  <2>2. /\ UNCHANGED <<documentDB, index, pending, pc, cmd, task, toLoad, ready>>
        /\ Complete' => Complete
    BY <2>1, <2>a DEF processing, indexing, documents, Complete
  <2>3. Leaving' = Leaving /\ SlotsLeft' = SlotsLeft
    BY <2>2 DEF Leaving, SlotsLeft
  <2> QED
    BY <2>2, <2>3, SameExact DEF IndexFollows, IndexExact
<1>2. CASE AddTask \/ ThrottleEnds
  <2>1. /\ pc \in {"enqueue", "throttle"}
        /\ UNCHANGED <<closing, ready>>
        /\ pc' \notin {"idle", "fetch"}
    BY <1>2 DEF AddTask, ThrottleEnds, NextSlot, indexing
  <2>2. Complete' => Complete
    BY <2>1 DEF Complete
  <2> QED
    BY <1>2, <2>1, <2>2, AddTaskExact, ThrottleEndsExact DEF IndexFollows, IndexExact
<1>3. CASE Process
  BY <1>2, <1>3, RoundFollows, CommandFollows DEF Process
<1>4. CASE \E s \in Slots : AlterIndex(s)
  <2>1. PICK s \in Slots : AlterIndex(s)
    BY <1>4
  <2>2. UNCHANGED <<pc, ready, closing>>
    BY <2>1 DEF AlterIndex, processing
  <2> QED
    BY <2>1, <2>2, AlterIndexExact DEF IndexFollows, IndexExact, Complete
<1> QED
  BY <1>1, <1>3, <1>4 DEF Next

(* Until the index is loaded no document changes.                          *)
LEMMA FirstLoadStep ==
  ASSUME TypeInv, TypeInv', PhasesSeparate, FirstLoad, [Next]_vars
  PROVE  FirstLoad'
<1> SUFFICES ASSUME ~ready'
             PROVE  FirstLoad'
  BY DEF FirstLoad
<1> USE DEF databases, documents, processing, indexing
<1>1. CASE (\E h \in Handlers : Handle(h)) \/ (\E c \in Creators : Create(c)) \/ Close \/ UNCHANGED vars
  <2>1. UNCHANGED <<pc, ready, documentDB, described, index>>
    BY <1>1 DEF Handle, CreateDocument, CreateAndAssociateDocument, DeleteDocument,
       AssociateDocument, AssociateDocuments, LoadDocuments, Request, Create, SavePayload, SaveKey,
       AssociateCreated, Close, vars
  <2> QED
    BY <2>1 DEF FirstLoad
<1>2. CASE Process
  <2>1. /\ ~ready /\ pc' # "idle"
        /\ UNCHANGED <<documentDB, described>>
    BY <1>2 DEF Process, Tick, LoadStored, StoredLoaded, FetchCommand, FinishTasks, LeaveQueue,
       RemoveKey, RemovePayload, WriteKey, AddTask, ThrottleEnds, NextSlot,
       FailDocument, StoreText, DescribeDocument, ReplaceDocument, RetryLater,
       DropMissing, DropAssociations, EraseText, UndescribeDocument, AddAssociation,
       AddAssociations, LoadDocument, EndLoad, Executing, TypeInv, ControlOK, InHand
  <2> QED
    BY <2>1 DEF FirstLoad
<1>3. CASE \E s \in Slots : AlterIndex(s)
  <2>1. ~Settled /\ UNCHANGED <<pc, ready, documentDB, described>>
    BY <1>3 DEF AlterIndex, Settled
  <2>2. pc # "idle"
    BY <2>1 DEF PhasesSeparate
  <2> QED
    BY <2>1, <2>2 DEF FirstLoad
<1> QED
  BY <1>1, <1>2, <1>3 DEF Next

-----------------------------------------------------------------------------
LEMMA InitIndexed == Init => IndexInv
<1> SUFFICES ASSUME Init PROVE IndexInv
  OBVIOUS
<1>1. Settled
  BY DEF Init, Settled
<1> QED
  BY <1>1 DEF Init, IndexInv, PhasesSeparate, IndexFollows, FirstLoad

(* What the invariant says of an index whose tasks are done.               *)
LEMMA SettledExact ==
  ASSUME Assumptions, TypeInv, IndexExact, Settled, Leaving = {}, SlotsLeft = {}
  PROVE  index = Indexed(documentDB)
<1>1. ASSUME NEW e, NEW op PROVE ~Outstanding(op, e)
  BY DEF Settled, Outstanding
<1>2. Staying = documentDB
  BY DEF Staying, TypeInv, TypeOK
<1>3. index \subseteq Hashes \X Docs /\ Indexed(documentDB) \subseteq Hashes \X Docs
  BY DEF TypeInv, TypeOK, Indexed
<1> QED
  BY <1>1, <1>2, <1>3 DEF IndexExact, ExactAt, Arriving

LEMMA IndexInvSuffices ==
  ASSUME Assumptions, TypeInv, IndexInv
  PROVE  IndexSettled
<1>1. CASE pc = "execute" /\ cmd.action \in {"AddAssociation", "AddAssociations"}
  <2>1. ready /\ IndexExact /\ Settled
    BY <1>1 DEF TypeInv, ControlOK, InHand, IndexInv, PhasesSeparate, Phase, IndexFollows, Complete
  <2> QED
    BY <1>1, <2>1, NothingInHand, SettledExact DEF IndexSettled
<1>2. CASE pc = "idle" /\ ready /\ ~closing
  <2>1. IndexExact /\ Settled
    BY <1>2 DEF IndexInv, PhasesSeparate, IndexFollows, Complete
  <2> QED
    BY <1>2, <2>1, NothingInHand, SettledExact DEF IndexSettled
<1> QED
  BY <1>1, <1>2 DEF IndexSettled

(* Whatever the commands, documents, slots and threads: an association     *)
(* command searches an index that holds exactly the stored documents, and  *)
(* so does every search while the processor rests (queue.cc:44-46, 57-59). *)
THEOREM SearchMeetsSettledIndex == ASSUME Assumptions PROVE Spec => []IndexSettled
<1> DEFINE Inv == TypeInv /\ IndexInv
<1>1. Init => Inv
  BY InitTyped, InitIndexed
<1>2. Inv /\ [Next]_vars => Inv'
  <2> SUFFICES ASSUME Inv, [Next]_vars PROVE Inv'
    OBVIOUS
  <2>1. TypeInv'
    BY StepTyped
  <2> QED
    BY <2>1, PhasesStep, IndexFollowsStep, FirstLoadStep DEF IndexInv
<1>3. Inv => IndexSettled
  BY IndexInvSuffices
<1> QED
  BY <1>1, <1>2, <1>3, PTL DEF Spec

-----------------------------------------------------------------------------
(***************************************************************************)
(* Third part.  The queue's records, the payloads and the command in hand  *)
(* agree.                                                                  *)
(***************************************************************************)

(* The steps of the system by what they do to commands.  Most either leave *)
(* them alone, or take the processor from one place to the next while it   *)
(* rests or while its command runs.                                        *)
StandsStill == UNCHANGED <<databases, creating, pc, cmd, goal, ready>>

RestsOn == Resting /\ Resting' /\ UNCHANGED <<databases, creating>>

RunsOn ==
  /\ Running /\ Running'
  /\ cmd.status = "Active"
  /\ pc' \notin {"execute", "insert"}
  /\ Processor \notin Drawn
  /\ UNCHANGED <<databases, creating, cmd>>

Draws(k) ==
  /\ k \notin Drawn
  /\ k = Processor => pc = "execute" /\ cmd.action = "LoadDocuments"
  /\ queueCounter' = queueCounter + 1
  /\ \E r : /\ creating' = [creating EXCEPT ![k] = r]
            /\ r.step = "payload" /\ r.queue_id = queueCounter + 1
            /\ k = Processor => r.put = FALSE
  /\ UNCHANGED <<payloadCounter, payloadDB, queueDB, pc, cmd, goal, ready>>

Steps ==
  \/ StandsStill \/ RestsOn \/ RunsOn
  \/ \E k \in Creators : Draws(k) \/ SavePayload(k) \/ SaveKey(k)
  \/ FetchCommand \/ FinishTasks
  \/ RemoveKey \/ RemovePayload \/ WriteKey
  \/ ReplaceDocument

LEMMA RequestDraws ==
  ASSUME Assumptions, TypeInv, NEW h \in Handlers, Handle(h)
  PROVE  Draws(h)
<1>1. ASSUME NEW kind, NEW action, NEW doc, NEW body, NEW put,
             Request(h, kind, action, doc, body, put)
      PROVE  Draws(h)
  <2>1. h # Processor /\ h \notin Drawn
    BY <1>1 DEF Assumptions, Request, Drawn
  <2> QED
    BY <1>1, <2>1 DEF Request, CreateCommand, StartCommand, Draws, processing, indexing
<1> QED
  BY <1>1 DEF Handle, CreateDocument, CreateAndAssociateDocument, DeleteDocument,
     AssociateDocument, AssociateDocuments, LoadDocuments

LEMMA HandOverGoesOn ==
  ASSUME Assumptions, TypeInv, HandOK, ProcessorCreates, AddTask \/ ThrottleEnds
  PROVE  RestsOn \/ RunsOn
<1>1. /\ AlteringIndex
      /\ UNCHANGED <<databases, creating, cmd, ready>>
      /\ pc' \in {"throttle", "enqueue"} \/ NextSlot
  BY DEF AddTask, ThrottleEnds, AlteringIndex, databases, indexing
<1>2. ASSUME NextSlot
      PROVE  \/ pc' = "enqueue"
             \/ pc' = "load" /\ ~ready
             \/ pc' = "remove" /\ ready /\ goal' = "Finished"
             \/ pc' = "erase" /\ ready
  BY <1>2 DEF NextSlot
<1>3. CASE ~ready
  BY <1>1, <1>2, <1>3 DEF RestsOn, Resting, AlteringIndex
<1>4. CASE ready
  <2>1. Running /\ pc # "remove" /\ Processor \notin Drawn
    BY <1>1, <1>4 DEF ProcessorCreates, Running, Resting, Taken, Rewriting, AlteringIndex
  <2>2. Running' /\ pc' \notin {"execute", "insert"}
    BY <1>1, <1>2, <1>4 DEF Running, Resting, Taken, Rewriting, AlteringIndex
  <2> QED
    BY <1>1, <2>1, <2>2 DEF RunsOn, HandOK
<1> QED
  BY <1>3, <1>4

LEMMA ExecutionRunsOn ==
  ASSUME Assumptions, TypeInv, HandOK, ProcessorCreates,
         \/ FailDocument \/ StoreText \/ DescribeDocument \/ RetryLater
         \/ DropMissing \/ DropAssociations \/ EraseText \/ UndescribeDocument
         \/ AddAssociation \/ AddAssociations \/ EndLoad
  PROVE  RunsOn
<1>1. /\ \/ pc = "execute" /\ (cmd.action # "LoadDocuments" \/ creating[Processor].step = "none")
         \/ pc \in {"describe", "erase", "undescribe"}
         \/ pc = "insert" /\ creating[Processor].step = "none"
      /\ \/ pc' \in {"describe", "enqueue", "undescribe"}
         \/ pc' = "remove" /\ goal' \in {"Finished", "Failed", "Queued"}
      /\ UNCHANGED <<databases, creating, cmd, ready>>
  BY DEF FailDocument, StoreText, DescribeDocument, RetryLater, DropMissing, DropAssociations,
     EraseText, UndescribeDocument, AddAssociation, AddAssociations, EndLoad, Executing, Finish,
     indexing
<1>2. Running /\ pc # "remove" /\ Processor \notin Drawn
  BY <1>1 DEF ProcessorCreates, Drawn, Running, Resting, Taken, Rewriting, AlteringIndex
<1>3. ready
  BY <1>1 DEF TypeInv, ControlOK, InHand
<1>4. Running' /\ pc' \notin {"execute", "insert"}
  BY <1>1, <1>3 DEF Running, Resting, Taken, Rewriting, AlteringIndex
<1> QED
  BY <1>1, <1>2, <1>4 DEF RunsOn, HandOK

LEMMA StepKinds ==
  ASSUME Assumptions, TypeInv, HandOK, ProcessorCreates, [Next]_vars
  PROVE  Steps
<1>1. CASE \E h \in Handlers : Handle(h)
  BY <1>1, RequestDraws DEF Steps, Creators
<1>2. ASSUME NEW c \in Creators, Create(c)
      PROVE  Steps
  <2>1. CASE AssociateCreated(c)
    <3>1. c # Processor /\ c \notin Drawn
      BY <2>1 DEF AssociateCreated, ProcessorCreates, Drawn
    <3>2. Draws(c)
      BY <2>1, <3>1
      DEF AssociateCreated, CreateCommand, StartCommand, Draws, processing, indexing
    <3> QED
      BY <3>2 DEF Steps
  <2> QED
    BY <1>2, <2>1 DEF Create, Steps
<1>3. CASE Process
  <2>1. ASSUME Tick \/ LoadStored \/ StoredLoaded \/ LeaveQueue
        PROVE  RestsOn
    <3>1. pc = "load" => ~ready
      BY DEF TypeInv, ControlOK
    <3> QED
      BY <2>1, <3>1 DEF Tick, LoadStored, StoredLoaded, LeaveQueue, RestsOn, Resting,
         AlteringIndex, indexing
  <2>2. ASSUME LoadDocument
        PROVE  Draws(Processor)
    <3>1. PICK d \in Docs, t \in Texts : CreateCommand(Processor, "AddDocument", d, t, FALSE)
      BY <2>2 DEF LoadDocument
    <3>2. Processor \notin Drawn /\ pc = "execute" /\ cmd.action = "LoadDocuments"
      BY <2>2 DEF LoadDocument, Executing, Drawn
    <3>3. UNCHANGED <<payloadCounter, payloadDB, queueDB, pc, cmd, goal, ready>>
      BY <2>2 DEF LoadDocument, processing, indexing
    <3> DEFINE r == [step |-> "payload", queue_id |-> queueCounter + 1, payload_id |-> 0,
                     action |-> "AddDocument", doc |-> d, body |-> t, put |-> FALSE]
    <3>4. /\ queueCounter' = queueCounter + 1
          /\ creating' = [creating EXCEPT ![Processor] = r]
          /\ r.step = "payload" /\ r.queue_id = queueCounter + 1 /\ r.put = FALSE
      BY <3>1 DEF CreateCommand, StartCommand
    <3> HIDE DEF r
    <3> QED
      BY <3>2, <3>3, <3>4 DEF Draws
  <2> QED
    BY <1>3, <2>1, <2>2, HandOverGoesOn, ExecutionRunsOn DEF Process, Steps, Creators
<1>4. CASE \E s \in Slots : AlterIndex(s)
  BY <1>4 DEF AlterIndex, Steps, StandsStill, processing
<1>5. CASE Close
  BY <1>5 DEF Close, Steps, StandsStill, processing, indexing
<1>6. CASE UNCHANGED vars
  BY <1>6 DEF vars, Steps, StandsStill, processing, indexing
<1> QED
  BY <1>1, <1>2, <1>3, <1>4, <1>5, <1>6 DEF Next

-----------------------------------------------------------------------------
(* What the two writes of a key do to the queue: each adds its record and  *)
(* replaces none but itself.                                               *)
NewRecord(k) ==
  [status |-> "Queued", queue_id |-> creating[k].queue_id, action |-> creating[k].action,
   doc |-> creating[k].doc, payload_id |-> creating[k].payload_id]

LEMMA KeySaved ==
  ASSUME Assumptions, TypeInv, IdsOK, ProcessorCreates, RecordsOK,
         NEW k \in Creators, SaveKey(k)
  PROVE  /\ queueDB' = queueDB \cup {NewRecord(k)}
         /\ NewRecord(k) \in Commands
         /\ \A c \in Unfinished : ~Like(c, NewRecord(k))
<1>1. k \in Drawn
  BY DEF SaveKey, Drawn
<1>2. \A c \in Unfinished : ~Like(c, NewRecord(k))
  <2>1. CASE k \in Fresh
    BY <2>1 DEF IdsOK, Unfinished, Like, NewRecord
  <2>2. CASE k \notin Fresh
    <3>1. k = Processor /\ Replacing
      BY <1>1, <2>2 DEF Fresh
    <3>2. NoDropBefore
      BY <3>1 DEF RecordsOK, Replacing, TypeInv, ControlOK
    <3> QED
      BY <3>1, <3>2 DEF ProcessorCreates, NoDropBefore, Like, NewRecord
  <2> QED
    BY <2>1, <2>2
<1>3. \A c \in queueDB : KeyOf(c) # KeyOf(NewRecord(k))
  BY <1>2 DEF KeyOf, Like, NewRecord, Unfinished
<1>4. NewRecord(k) \in Commands
  <2>1. creating[k] \in Creations /\ creating[k].step = "key"
    BY DEF SaveKey, TypeInv, TypeOK
  <2> QED
    BY <2>1, CreationsType
    DEF NewRecord, DocumentCreations, OtherCreations, Commands, Statuses
<1> QED
  BY <1>2, <1>3, <1>4 DEF SaveKey, Put, NewRecord

LEMMA KeyWritten ==
  ASSUME TypeInv, HandOK, RecordsOK, FinishedOK, WriteKey
  PROVE  queueDB' = queueDB \cup {cmd}
<1>1. SUFFICES ASSUME NEW c \in queueDB, KeyOf(c) = KeyOf(cmd)
               PROVE  c = cmd
  BY DEF WriteKey, Put
<1>2. /\ c \in Commands /\ cmd \in Commands
      /\ Rewriting /\ cmd.status = goal
  BY DEF WriteKey, HandOK, Rewriting, TypeInv, TypeOK, InHand
<1>3. c.status = cmd.status /\ Like(c, cmd) /\ c.doc = cmd.doc
  BY <1>1 DEF KeyOf, Like
<1>4. goal = "Finished"
  BY <1>2, <1>3 DEF RecordsOK, Unfinished
<1>5. c.payload_id = 0 /\ cmd.payload_id = 0
  BY <1>2, <1>3, <1>4 DEF FinishedOK, WriteKey
<1> QED
  BY <1>2, <1>3, <1>5 DEF Commands, Like

-----------------------------------------------------------------------------
(* The command in hand.                                                    *)
LEMMA HandStep ==
  ASSUME Assumptions, TypeInv, RecordsInv, [Next]_vars
  PROVE  HandOK'
<1> USE DEF RecordsInv
<1>1. CASE StandsStill
  BY <1>1 DEF StandsStill, databases, HandOK, Running, Taken, Rewriting, Resting, AlteringIndex
<1>2. CASE RestsOn
  BY <1>2 DEF RestsOn, databases, HandOK, Running, Taken, Rewriting, Resting, AlteringIndex
<1>3. CASE RunsOn
  BY <1>3 DEF RunsOn, databases, HandOK, Running, Taken, Rewriting, Resting, AlteringIndex
<1>4. ASSUME NEW k \in Creators, Draws(k) \/ SavePayload(k)
      PROVE  HandOK'
  BY <1>4 DEF Draws, SavePayload, processing, indexing, HandOK, Running, Taken, Rewriting, Resting,
     AlteringIndex
<1>5. ASSUME NEW k \in Creators, SaveKey(k)
      PROVE  HandOK'
  <2>1. queueDB' = queueDB \cup {NewRecord(k)} /\ NewRecord(k).status = "Queued"
    BY <1>5, KeySaved DEF NewRecord
  <2> QED
    BY <1>5, <2>1 DEF SaveKey, processing, indexing, HandOK, Running, Taken, Rewriting, Resting,
       AlteringIndex
<1>6. CASE FetchCommand
  BY <1>6 DEF FetchCommand, databases, Queued, HandOK, Running, Taken, Rewriting, Resting,
     AlteringIndex
<1>7. CASE FinishTasks
  BY <1>7 DEF FinishTasks, databases, HandOK, Running, Taken, Rewriting, Resting, AlteringIndex
<1>8. CASE RemoveKey
  <2>1. cmd \in Commands
    BY <1>8 DEF RemoveKey, TypeInv, TypeOK, InHand
  <2>2. cmd'.status = goal
    BY <1>8, <2>1 DEF RemoveKey, Commands
  <2> QED
    BY <1>8, <2>2 DEF RemoveKey, AfterKeyRemoved, HandOK, Running, Taken, Rewriting, Resting,
       AlteringIndex
<1>9. CASE RemovePayload
  <2>1. cmd \in Commands
    BY <1>9 DEF RemovePayload, TypeInv, TypeOK, InHand
  <2>2. cmd'.status = cmd.status
    BY <1>9, <2>1 DEF RemovePayload, Commands
  <2> QED
    BY <1>9, <2>2 DEF RemovePayload, HandOK, Running, Taken, Rewriting, Resting, AlteringIndex
<1>10. CASE WriteKey
  <2>1. queueDB' = queueDB \cup {cmd} /\ cmd' = cmd /\ cmd.status = goal
    BY <1>10, KeyWritten DEF WriteKey, HandOK, Rewriting
  <2>2. Rewriting /\ \A c \in queueDB : c.status \notin {"Active", "Failed"}
    BY <1>10 DEF WriteKey, HandOK, Running, Rewriting
  <2> QED
    BY <1>10, <2>1, <2>2 DEF WriteKey, HandOK, Running, Taken, Rewriting, Resting, AlteringIndex
<1>11. CASE ReplaceDocument
  BY <1>11 DEF ReplaceDocument, Executing, HandOK, Running, Taken, Rewriting, Resting,
     AlteringIndex, InHand, indexing
<1> QED
  BY <1>1, <1>2, <1>3, <1>4, <1>5, <1>6, <1>7, <1>8, <1>9, <1>10, <1>11, StepKinds DEF Steps

-----------------------------------------------------------------------------
(* What is being created.                                                  *)
LEMMA DrawnAfter ==
  ASSUME TypeInv, ProcessorCreates
  PROVE  /\ \A k \in Creators : Draws(k) => Drawn' = Drawn \cup {k} /\ Queueing' = Queueing
         /\ \A k \in Creators : SavePayload(k) => /\ k \in Drawn /\ Drawn' = Drawn
                                                 /\ Queueing' = Queueing \cup {k}
         /\ \A k \in Creators : SaveKey(k) => /\ k \in Drawn /\ Drawn' = Drawn \ {k}
                                             /\ k \in Queueing /\ Queueing' = Queueing \ {k}
         /\ ReplaceDocument => /\ Processor \notin Drawn
                               /\ Drawn' = Drawn \cup {Processor}
                               /\ Queueing' = Queueing
         /\ UNCHANGED creating => Drawn' = Drawn /\ Queueing' = Queueing
<1> USE DEF TypeInv, TypeOK, Drawn, Queueing
<1>1. ASSUME NEW k \in Creators, Draws(k)
      PROVE  Drawn' = Drawn \cup {k} /\ Queueing' = Queueing
  BY <1>1 DEF Draws
<1>2. ASSUME NEW k \in Creators, SavePayload(k)
      PROVE  /\ k \in Drawn /\ Drawn' = Drawn
             /\ Queueing' = Queueing \cup {k}
  <2>1. creating'[k].step = "key" /\ \A l \in Creators \ {k} : creating'[l] = creating[l]
    <3>1. creating[k] \in DocumentCreations \cup OtherCreations
      BY <1>2, CreationsType DEF SavePayload
    <3> QED
      BY <1>2, <3>1 DEF SavePayload, DocumentCreations, OtherCreations
  <2> QED
    BY <1>2, <2>1 DEF SavePayload
<1>3. ASSUME NEW k \in Creators, SaveKey(k)
      PROVE  /\ k \in Drawn /\ Drawn' = Drawn \ {k}
             /\ k \in Queueing /\ Queueing' = Queueing \ {k}
  <2>1. /\ creating'[k].step \in {"none", "associate"}
        /\ \A l \in Creators \ {k} : creating'[l] = creating[l]
    BY <1>3 DEF SaveKey, NoCreation
  <2> QED
    BY <1>3, <2>1 DEF SaveKey
<1>4. ASSUME ReplaceDocument
      PROVE  /\ Processor \notin Drawn
             /\ Drawn' = Drawn \cup {Processor}
             /\ Queueing' = Queueing
  <2>1. pc = "execute" /\ cmd.action = "AddDocument" /\ Processor \in Creators
    BY <1>4 DEF ReplaceDocument, Executing, Creators
  <2>2. Processor \notin Drawn
    BY <2>1 DEF ProcessorCreates
  <2> QED
    BY <1>4, <2>1, <2>2 DEF ReplaceDocument, InsertCommand, StartCommand
<1> QED
  BY <1>1, <1>2, <1>3, <1>4

LEMMA ProcessorStep ==
  ASSUME Assumptions, TypeInv, RecordsInv, [Next]_vars
  PROVE  ProcessorCreates'
<1> USE DEF RecordsInv, TypeInv, TypeOK
<1>1. CASE StandsStill \/ RestsOn \/ RunsOn
  BY <1>1, DrawnAfter DEF StandsStill, RestsOn, RunsOn, Resting, AlteringIndex, databases,
     ProcessorCreates, Replacing
<1>2. ASSUME NEW k \in Creators, Draws(k)
      PROVE  ProcessorCreates'
  <2>1. PICK r : /\ creating' = [creating EXCEPT ![k] = r]
                 /\ r.step = "payload"
                 /\ k = Processor => r.put = FALSE
    BY <1>2 DEF Draws
  <2>2. /\ Drawn' = Drawn \cup {k} /\ k \notin Drawn
        /\ k = Processor => pc = "execute" /\ cmd.action = "LoadDocuments"
        /\ UNCHANGED <<pc, cmd>>
    BY <1>2, DrawnAfter DEF Draws
  <2>3. CASE k = Processor
    BY <2>1, <2>2, <2>3 DEF ProcessorCreates, Replacing, Creators
  <2>4. CASE k # Processor
    <3>1. creating'[Processor] = creating[Processor]
      BY <2>1, <2>4 DEF Creators
    <3> QED
      BY <2>2, <2>4, <3>1 DEF ProcessorCreates, Replacing
  <2> QED
    BY <2>3, <2>4
<1>3. ASSUME NEW k \in Creators, SavePayload(k)
      PROVE  ProcessorCreates'
  <2>1. /\ creating'[k].step = "key"
        /\ creating'[k].put = creating[k].put
        /\ creating'[k].queue_id = creating[k].queue_id
        /\ creating'[k].action = creating[k].action
    <3>1. creating[k] \in DocumentCreations \cup OtherCreations
      BY <1>3, CreationsType DEF SavePayload
    <3> QED
      BY <1>3, <3>1 DEF SavePayload, DocumentCreations, OtherCreations
  <2> QED
    BY <1>3, <2>1, DrawnAfter DEF SavePayload, processing, ProcessorCreates, Replacing, Creators
<1>4. ASSUME NEW k \in Creators, SaveKey(k)
      PROVE  ProcessorCreates'
  BY <1>4, DrawnAfter DEF SaveKey, processing, NoCreation, ProcessorCreates, Replacing, Creators
<1>5. CASE FetchCommand \/ FinishTasks \/ RemoveKey \/ RemovePayload \/ WriteKey
  <2>1. Processor \notin Drawn /\ UNCHANGED creating
    BY <1>5 DEF FetchCommand, FinishTasks, RemoveKey, RemovePayload, WriteKey, ProcessorCreates
  <2> QED
    BY <2>1, DrawnAfter DEF ProcessorCreates, Replacing
<1>6. CASE ReplaceDocument
  BY <1>6, DrawnAfter DEF ReplaceDocument, InsertCommand, StartCommand, ProcessorCreates, Replacing,
     Creators
<1> QED
  BY <1>1, <1>2, <1>3, <1>4, <1>5, <1>6, StepKinds DEF Steps

-----------------------------------------------------------------------------
(* The queue ids.                                                          *)
LEMMA IdsStep ==
  ASSUME Assumptions, TypeInv, RecordsInv, [Next]_vars
  PROVE  IdsOK'
<1> USE DEF RecordsInv
<1>1. CASE StandsStill \/ RestsOn \/ RunsOn
  BY <1>1, DrawnAfter DEF StandsStill, RestsOn, RunsOn, Running, Resting, AlteringIndex, databases,
     IdsOK, Fresh, Replacing
<1>2. ASSUME NEW k \in Creators, Draws(k)
      PROVE  IdsOK'
  <2>1. /\ \A l \in Creators \ {k} : creating'[l] = creating[l]
        /\ creating'[k].queue_id = queueCounter + 1
        /\ Drawn' = Drawn \cup {k} /\ k \notin Drawn
        /\ queueCounter' = queueCounter + 1
        /\ UNCHANGED <<queueDB, pc, cmd, goal, ready>>
    BY <1>2, DrawnAfter DEF Draws, TypeInv, TypeOK
  <2>2. (Replacing' <=> Replacing) /\ Fresh' = Fresh \cup {k}
    BY <1>2, <2>1 DEF Draws, Replacing, Fresh
  <2>3. /\ queueCounter \in Nat
        /\ \A c \in queueDB : c.queue_id \in Nat
        /\ ~Resting => cmd.queue_id \in Nat
        /\ \A l \in Drawn : creating[l].queue_id \in Nat
    <3>1. queueCounter \in Nat /\ \A c \in queueDB : c.queue_id \in Nat
      BY CommandsType DEF TypeInv, TypeOK
    <3>2. ~Resting => cmd \in Commands
      BY DEF TypeInv, TypeOK, ControlOK, Resting, AlteringIndex, InHand
    <3>3. ASSUME NEW l \in Drawn PROVE creating[l].queue_id \in Nat
      <4>1. creating[l] \in DocumentCreations \cup OtherCreations
        BY CreationsType DEF Drawn, TypeInv, TypeOK
      <4> QED
        BY <4>1 DEF DocumentCreations, OtherCreations
    <3> QED
      BY <3>1, <3>2, <3>3, CommandsType
  <2>4. Resting' <=> Resting
    BY <2>1 DEF Resting, AlteringIndex
  <2>5. Fresh \subseteq Drawn /\ Drawn \subseteq Creators
    BY DEF Fresh, Drawn
  <2> QED
    BY <2>1, <2>2, <2>3, <2>4, <2>5 DEF IdsOK
<1>3. ASSUME NEW k \in Creators, SavePayload(k)
      PROVE  IdsOK'
  <2>1. \A l \in Creators : creating'[l].queue_id = creating[l].queue_id
    <3>1. creating[k] \in DocumentCreations \cup OtherCreations
      BY <1>3, CreationsType DEF SavePayload, TypeInv, TypeOK
    <3> QED
      BY <1>3, <3>1 DEF SavePayload, DocumentCreations, OtherCreations, TypeInv, TypeOK
  <2>2. /\ Drawn' = Drawn /\ Fresh' = Fresh
        /\ Resting' <=> Resting
        /\ UNCHANGED <<queueDB, queueCounter, cmd>>
    BY <1>3, DrawnAfter DEF SavePayload, processing, indexing, Resting, AlteringIndex, Fresh,
       Replacing
  <2>3. Fresh \subseteq Drawn /\ Drawn \subseteq Creators
    BY DEF Fresh, Drawn
  <2> QED
    BY <2>1, <2>2, <2>3 DEF IdsOK
<1>4. ASSUME NEW k \in Creators, SaveKey(k)
      PROVE  IdsOK'
  <2>1. /\ queueDB' = queueDB \cup {NewRecord(k)}
        /\ NewRecord(k).queue_id = creating[k].queue_id
    BY <1>4, KeySaved DEF NewRecord
  <2>2. /\ k \in Drawn /\ Drawn' = Drawn \ {k}
        /\ \A l \in Creators \ {k} : creating'[l] = creating[l]
        /\ UNCHANGED <<queueCounter, pc, cmd, ready>>
        /\ Resting' <=> Resting
    BY <1>4, DrawnAfter DEF SaveKey, processing, indexing, Resting, AlteringIndex, TypeInv, TypeOK
  <2>3. Fresh' = Fresh \ {k}
    BY <2>2 DEF Fresh, Replacing
  <2>4. Fresh \subseteq Drawn /\ Drawn \subseteq Creators
    BY DEF Fresh, Drawn
  <2> QED
    BY <2>1, <2>2, <2>3, <2>4 DEF IdsOK
<1>5. CASE FetchCommand \/ FinishTasks \/ RemoveKey \/ RemovePayload \/ WriteKey
  <2>1. /\ UNCHANGED <<creating, queueCounter, ready>>
        /\ pc \in {"fetch", "settle", "remove", "purge", "write"} /\ pc' # "insert"
        /\ pc # "fetch" => ~Resting
    BY <1>5 DEF FetchCommand, FinishTasks, RemoveKey, AfterKeyRemoved, RemovePayload, WriteKey,
       databases, indexing, Resting, AlteringIndex
  <2>2. Drawn' = Drawn /\ Fresh' = Fresh
    BY <2>1, DrawnAfter DEF Fresh, Replacing
  <2>3. /\ FetchCommand => queueDB' = queueDB /\ cmd' \in queueDB
        /\ ~FetchCommand => /\ ~Resting /\ cmd'.queue_id = cmd.queue_id
                            /\ queueDB' \subseteq queueDB \cup {cmd}
    <3>1. FetchCommand => queueDB' = queueDB /\ cmd' \in queueDB
      BY DEF FetchCommand, databases, Queued
    <3>2. ASSUME ~FetchCommand
          PROVE  /\ ~Resting /\ cmd'.queue_id = cmd.queue_id
                 /\ queueDB' \subseteq queueDB \cup {cmd}
      <4>1. pc # "fetch" /\ cmd \in Commands
        BY <1>5, <3>2 DEF FinishTasks, RemoveKey, RemovePayload, WriteKey, TypeInv, TypeOK, InHand
      <4>2. cmd'.queue_id = cmd.queue_id
        BY <1>5, <3>2, <4>1 DEF FinishTasks, RemoveKey, RemovePayload, WriteKey, Commands
      <4>3. queueDB' \subseteq queueDB \cup {cmd}
        BY <1>5, <3>2, KeyWritten DEF FinishTasks, databases, RemoveKey, RemovePayload
      <4> QED
        BY <2>1, <4>1, <4>2, <4>3
    <3> QED
      BY <3>1, <3>2
  <2>4. Fresh \subseteq Drawn
    BY DEF Fresh
  <2> QED
    BY <2>1, <2>2, <2>3, <2>4 DEF IdsOK
<1>6. CASE ReplaceDocument
  <2>1. /\ \A l \in Creators \ {Processor} : creating'[l] = creating[l]
        /\ creating'[Processor].queue_id = cmd.queue_id
        /\ Processor \notin Drawn /\ Drawn' = Drawn \cup {Processor}
        /\ UNCHANGED <<queueCounter, queueDB, cmd>>
        /\ pc = "execute" /\ pc' = "insert"
    BY <1>6, DrawnAfter DEF ReplaceDocument, Executing, InsertCommand, StartCommand, TypeInv, TypeOK,
       Creators
  <2>2. Fresh = Drawn /\ Fresh' = Drawn /\ ~Resting /\ Drawn \subseteq Creators
    BY <2>1 DEF Fresh, Replacing, Resting, AlteringIndex, Drawn
  <2> QED
    BY <2>1, <2>2 DEF IdsOK
<1> QED
  BY <1>1, <1>2, <1>3, <1>4, <1>5, <1>6, StepKinds DEF Steps

-----------------------------------------------------------------------------
(* The keys of unfinished commands.                                        *)
LEMMA UnfinishedAfter ==
  ASSUME Assumptions, TypeInv, RecordsInv
  PROVE  /\ \A k \in Creators : SaveKey(k) => Unfinished' = Unfinished \cup {NewRecord(k)}
         /\ RemoveKey => cmd \in Unfinished /\ Unfinished' = Unfinished \ {cmd}
         /\ WriteKey => Unfinished' = Unfinished \cup (IF goal = "Finished" THEN {} ELSE {cmd})
         /\ UNCHANGED queueDB => Unfinished' = Unfinished
<1> USE DEF RecordsInv, Unfinished
<1>1. ASSUME NEW k \in Creators, SaveKey(k)
      PROVE  Unfinished' = Unfinished \cup {NewRecord(k)}
  <2>1. queueDB' = queueDB \cup {NewRecord(k)}
    BY <1>1, KeySaved
  <2>2. NewRecord(k).status = "Queued"
    BY DEF NewRecord
  <2> QED
    BY <2>1, <2>2
<1>2. ASSUME RemoveKey PROVE cmd \in Unfinished /\ Unfinished' = Unfinished \ {cmd}
  <2>1. Taken \/ Running
    BY <1>2 DEF RemoveKey, Running, Resting, Taken, Rewriting, AlteringIndex
  <2> QED
    BY <1>2, <2>1 DEF RemoveKey, HandOK
<1>3. ASSUME WriteKey
      PROVE  Unfinished' = Unfinished \cup (IF goal = "Finished" THEN {} ELSE {cmd})
  <2>1. cmd.status = goal
    BY <1>3 DEF WriteKey, HandOK, Rewriting
  <2> QED
    BY <1>3, <2>1, KeyWritten
<1> QED
  BY <1>1, <1>2, <1>3

LEMMA RecordsStep ==
  ASSUME Assumptions, TypeInv, RecordsInv, [Next]_vars
  PROVE  RecordsOK'
<1> USE DEF RecordsInv
<1>1. CASE StandsStill \/ RestsOn \/ RunsOn
  <2>1. Unfinished' = Unfinished /\ Drawn' = Drawn
    BY <1>1, UnfinishedAfter, DrawnAfter DEF StandsStill, RestsOn, RunsOn, databases
  <2> QED
    BY <1>1, <2>1 DEF StandsStill, RestsOn, RunsOn, Running, Resting, Rewriting, Taken,
       AlteringIndex, RecordsOK, NoDropBefore, Like, Replacing
<1>2. ASSUME NEW k \in Creators, Draws(k) \/ SavePayload(k)
      PROVE  RecordsOK'
  <2>1. /\ Unfinished' = Unfinished /\ (Replacing' <=> Replacing)
        /\ UNCHANGED <<pc, cmd, goal>>
    BY <1>2, UnfinishedAfter, DrawnAfter DEF Draws, SavePayload, processing, Replacing
  <2> QED
    BY <2>1 DEF Rewriting, Taken, RecordsOK, NoDropBefore, Like
<1>3. ASSUME NEW k \in Creators, SaveKey(k)
      PROVE  RecordsOK'
  <2>1. /\ Unfinished' = Unfinished \cup {NewRecord(k)}
        /\ \A c \in Unfinished : ~Like(c, NewRecord(k))
        /\ k \in Drawn /\ Drawn' = Drawn \ {k}
        /\ UNCHANGED <<pc, cmd, goal>>
        /\ NewRecord(k).queue_id = creating[k].queue_id
    BY <1>3, KeySaved, UnfinishedAfter, DrawnAfter DEF SaveKey, processing, NewRecord
  <2>2. \A c, x \in Unfinished' : Like(c, x) => c = x
    BY <2>1 DEF RecordsOK, Like
  <2>3. CASE k \in Fresh
    <3>1. ~Resting => NewRecord(k).queue_id # cmd.queue_id
      BY <2>1, <2>3 DEF IdsOK
    <3>2. /\ Rewriting \/ Taken \/ pc \in {"write", "execute"} \/ Replacing => ~Resting
          /\ Replacing' => Replacing
      BY <2>1 DEF Rewriting, Taken, Replacing, Resting, AlteringIndex
    <3>3. Rewriting' => \A c \in Unfinished' : ~Like(c, cmd')
      BY <2>1, <3>1, <3>2 DEF RecordsOK, Rewriting, Like
    <3>4. /\ Taken' \/ (pc' = "write" /\ goal' = "Active") \/ pc' = "execute" \/ Replacing'
          /\ cmd'.action = "AddDocument"
          => NoDropBefore'
      BY <2>1, <3>1, <3>2 DEF RecordsOK, NoDropBefore, Taken
    <3> QED
      BY <2>2, <3>3, <3>4 DEF RecordsOK, Like
  <2>4. CASE k \notin Fresh
    <3>1. pc = "insert" /\ ~Replacing'
      BY <2>1, <2>4 DEF Fresh, Replacing
    <3> QED
      BY <2>1, <2>2, <3>1 DEF RecordsOK, Rewriting, Taken, Like
  <2> QED
    BY <2>3, <2>4
<1>4. CASE FetchCommand
  <2>1. /\ Unfinished' = Unfinished /\ cmd' \in Queued
        /\ \A c \in Queued : ~Before(c, cmd')
        /\ pc' \in {"remove", "settle"} /\ Resting
    BY <1>4, UnfinishedAfter DEF FetchCommand, databases, Resting
  <2>2. Unfinished \subseteq Queued
    BY <2>1 DEF Unfinished, Queued, HandOK, Running, TypeInv, TypeOK, Commands, Statuses
  <2>3. cmd'.action = "AddDocument" => NoDropBefore'
    BY <2>1, <2>2 DEF NoDropBefore, Before, Priority
  <2> QED
    BY <2>1, <2>3 DEF RecordsOK, Rewriting, Like
<1>5. CASE FinishTasks
  <2>1. /\ Unfinished' = Unfinished /\ cmd' = cmd
        /\ pc = "settle" /\ pc' = "remove"
    BY <1>5, UnfinishedAfter DEF FinishTasks, databases
  <2> QED
    BY <2>1 DEF Taken, Rewriting, RecordsOK, NoDropBefore, Replacing, Like
<1>6. CASE RemoveKey
  <2>1. /\ cmd \in Unfinished /\ Unfinished' = Unfinished \ {cmd}
        /\ cmd'.queue_id = cmd.queue_id /\ cmd'.action = cmd.action
    <3>1. cmd \in Commands
      BY <1>6 DEF RemoveKey, TypeInv, TypeOK, InHand
    <3> QED
      BY <1>6, <3>1, UnfinishedAfter DEF RemoveKey, Commands
  <2>2. pc = "remove" /\ pc' \in {"purge", "write"} /\ goal' = goal
    BY <1>6 DEF RemoveKey, AfterKeyRemoved
  <2> QED
    BY <2>1, <2>2 DEF RecordsOK, Rewriting, Taken, NoDropBefore, Replacing, Like
<1>7. CASE RemovePayload
  <2>1. /\ Unfinished' = Unfinished
        /\ cmd'.queue_id = cmd.queue_id /\ cmd'.action = cmd.action
    <3>1. cmd \in Commands
      BY <1>7 DEF RemovePayload, TypeInv, TypeOK, InHand
    <3> QED
      BY <1>7, <3>1, UnfinishedAfter DEF RemovePayload, Commands
  <2>2. pc = "purge" /\ pc' = "write" /\ goal' = goal /\ goal = "Finished"
    BY <1>7 DEF RemovePayload, HandOK
  <2> QED
    BY <2>1, <2>2 DEF RecordsOK, Rewriting, Taken, Replacing, Like
<1>8. CASE WriteKey
  <2>1. Unfinished' = Unfinished \cup (IF goal = "Finished" THEN {} ELSE {cmd}) /\ cmd' = cmd
    BY <1>8, UnfinishedAfter DEF WriteKey
  <2>2. /\ pc = "write"
        /\ \/ goal = "Active" /\ pc' = "execute"
           \/ pc' = "remove" /\ goal' = "Finished"
           \/ pc' = "fetch"
    BY <1>8 DEF WriteKey
  <2> QED
    BY <2>1, <2>2 DEF RecordsOK, Rewriting, Taken, NoDropBefore, Replacing, Like
<1>9. CASE ReplaceDocument
  <2>1. /\ Unfinished' = Unfinished /\ cmd' = cmd /\ cmd.action = "AddDocument"
        /\ pc = "execute" /\ pc' = "insert"
    BY <1>9, UnfinishedAfter DEF ReplaceDocument, Executing
  <2> QED
    BY <2>1 DEF RecordsOK, Rewriting, Taken, NoDropBefore, Like
<1> QED
  BY <1>1, <1>2, <1>3, <1>4, <1>5, <1>6, <1>7, <1>8, <1>9, StepKinds DEF Steps

LEMMA FinishedStep ==
  ASSUME Assumptions, TypeInv, RecordsInv, [Next]_vars
  PROVE  FinishedOK'
<1> USE DEF RecordsInv
<1>1. CASE StandsStill \/ RestsOn \/ RunsOn
  BY <1>1 DEF StandsStill, RestsOn, RunsOn, Running, Resting, Rewriting, AlteringIndex, databases,
     FinishedOK
<1>2. ASSUME NEW k \in Creators, Draws(k) \/ SavePayload(k)
      PROVE  FinishedOK'
  BY <1>2 DEF Draws, SavePayload, processing, FinishedOK
<1>3. ASSUME NEW k \in Creators, SaveKey(k)
      PROVE  FinishedOK'
  <2>1. queueDB' = queueDB \cup {NewRecord(k)} /\ NewRecord(k).status = "Queued"
    BY <1>3, KeySaved DEF NewRecord
  <2> QED
    BY <1>3, <2>1 DEF SaveKey, processing, FinishedOK
<1>4. CASE FetchCommand \/ FinishTasks \/ ReplaceDocument
  BY <1>4 DEF FetchCommand, FinishTasks, ReplaceDocument, databases, FinishedOK
<1>5. CASE RemoveKey
  BY <1>5 DEF RemoveKey, AfterKeyRemoved, FinishedOK
<1>6. CASE RemovePayload
  <2>1. cmd'.payload_id = 0
    <3>1. cmd \in Commands
      BY <1>6 DEF RemovePayload, TypeInv, TypeOK, InHand
    <3> QED
      BY <1>6, <3>1 DEF RemovePayload, Commands
  <2> QED
    BY <1>6, <2>1 DEF RemovePayload, FinishedOK
<1>7. CASE WriteKey
  <2>1. queueDB' = queueDB \cup {cmd} /\ cmd.status = goal
    BY <1>7, KeyWritten DEF WriteKey, HandOK, Rewriting
  <2> QED
    BY <1>7, <2>1 DEF WriteKey, FinishedOK
<1> QED
  BY <1>1, <1>2, <1>3, <1>4, <1>5, <1>6, <1>7, StepKinds DEF Steps

-----------------------------------------------------------------------------
(* The payloads.                                                           *)
IdUsed(i) ==
  \/ \E c \in Unfinished : c.payload_id = i
  \/ \E k \in Queueing : creating[k].payload_id = i
  \/ InTransit /\ cmd.payload_id = i

Stored(i) == \E p \in payloadDB : p.id = i

LEMMA PayloadsMatch == PayloadsMatchCommands <=> \A i : Stored(i) <=> IdUsed(i)
  BY DEF PayloadsMatchCommands, Stored, IdUsed, Queueing, InTransit

LEMMA IdsOfPayloads ==
  ASSUME TypeInv, PayloadsOK, NEW i, IdUsed(i)
  PROVE  i \in Nat /\ i <= payloadCounter
  BY PayloadsMatch DEF Stored, PayloadsOK, TypeInv, TypeOK

LEMMA PayloadsStep ==
  ASSUME Assumptions, TypeInv, RecordsInv, [Next]_vars
  PROVE  PayloadsOK'
<1> USE DEF RecordsInv
<1>0. (PayloadsMatchCommands <=> \A i : Stored(i) <=> IdUsed(i))'
  BY PayloadsMatch, PTL
<1>1. \A i : Stored(i) <=> IdUsed(i)
  BY PayloadsMatch DEF PayloadsOK
<1>2. ASSUME UNCHANGED <<payloadDB, payloadCounter>>,
             Unfinished' = Unfinished, Queueing' = Queueing,
             \A k \in Queueing : creating'[k] = creating[k],
             InTransit' => InTransit /\ cmd' = cmd,
             InTransit => InTransit'
      PROVE  PayloadsOK'
  BY <1>0, <1>1, <1>2 DEF PayloadsOK, Stored, IdUsed
<1>3. CASE StandsStill \/ RestsOn \/ RunsOn
  BY <1>2, <1>3, UnfinishedAfter, DrawnAfter DEF StandsStill, RestsOn, RunsOn, Running, Resting,
     Rewriting, AlteringIndex, databases, InTransit
<1>4. ASSUME NEW k \in Creators, Draws(k)
      PROVE  PayloadsOK'
  <2>1. \A l \in Queueing : creating'[l] = creating[l]
    BY <1>4 DEF Draws, Queueing, Drawn
  <2> QED
    BY <1>2, <1>4, <2>1, UnfinishedAfter, DrawnAfter DEF Draws, InTransit
<1>5. ASSUME NEW k \in Creators, SavePayload(k)
      PROVE  PayloadsOK'
  <2>1. /\ Unfinished' = Unfinished /\ Queueing' = Queueing \cup {k} /\ k \notin Queueing
        /\ UNCHANGED <<pc, cmd, goal>> /\ (InTransit' <=> InTransit)
        /\ payloadCounter' = payloadCounter + 1
    BY <1>5, UnfinishedAfter, DrawnAfter DEF SavePayload, processing, Queueing, InTransit
  <2>2. /\ creating'[k].payload_id = payloadCounter + 1
        /\ \A l \in Queueing : creating'[l] = creating[l]
    <3>1. creating[k] \in DocumentCreations \cup OtherCreations
      BY <1>5, CreationsType DEF SavePayload, TypeInv, TypeOK
    <3>2. Queueing \subseteq Creators
      BY DEF Queueing
    <3> QED
      BY <1>5, <2>1, <3>1, <3>2 DEF SavePayload, DocumentCreations, OtherCreations, TypeInv, TypeOK
  <2>3. \A i : IdUsed(i)' <=> IdUsed(i) \/ i = payloadCounter + 1
    BY <2>1, <2>2 DEF IdUsed
  <2>4. \A i : Stored(i)' <=> Stored(i) \/ i = payloadCounter + 1
    <3> DEFINE p == [id |-> payloadCounter + 1, body |-> creating[k].body]
    <3>1. payloadDB' = payloadDB \cup {p} /\ p.id = payloadCounter + 1
      BY <1>5 DEF SavePayload
    <3> HIDE DEF p
    <3> QED
      BY <3>1 DEF Stored
  <2>5. payloadCounter \in Nat /\ ~IdUsed(payloadCounter + 1)
    BY IdsOfPayloads DEF TypeInv, TypeOK
  <2>6. \A p \in payloadDB' : p.id <= payloadCounter'
    BY <1>5, <2>1, <2>5 DEF SavePayload, PayloadsOK, TypeInv, TypeOK
  <2> QED
    BY <1>0, <1>1, <2>1, <2>2, <2>3, <2>4, <2>5, <2>6 DEF PayloadsOK, IdUsed
<1>6. ASSUME NEW k \in Creators, SaveKey(k)
      PROVE  PayloadsOK'
  <2>1. /\ Unfinished' = Unfinished \cup {NewRecord(k)}
        /\ NewRecord(k).payload_id = creating[k].payload_id
        /\ k \in Queueing /\ Queueing' = Queueing \ {k}
        /\ UNCHANGED <<payloadDB, payloadCounter, pc, cmd, goal>> /\ (InTransit' <=> InTransit)
    BY <1>6, UnfinishedAfter, DrawnAfter DEF SaveKey, processing, InTransit, NewRecord
  <2>2. \A l \in Queueing \ {k} : creating'[l] = creating[l]
    BY <1>6 DEF SaveKey, Queueing, TypeInv, TypeOK
  <2>3. \A i : IdUsed(i)' <=> IdUsed(i)
    BY <2>1, <2>2 DEF IdUsed
  <2> QED
    BY <1>0, <1>1, <2>1, <2>2, <2>3 DEF PayloadsOK, Stored
<1>7. CASE FetchCommand \/ FinishTasks
  BY <1>2, <1>7, UnfinishedAfter, DrawnAfter DEF FetchCommand, FinishTasks, databases, InTransit
<1>8. CASE RemoveKey
  <2>1. /\ cmd \in Unfinished /\ Unfinished' = Unfinished \ {cmd}
        /\ cmd'.payload_id = cmd.payload_id
    <3>1. cmd \in Commands
      BY <1>8 DEF RemoveKey, TypeInv, TypeOK, InHand
    <3> QED
      BY <1>8, <3>1, UnfinishedAfter DEF RemoveKey, Commands
  <2>2. /\ ~InTransit /\ InTransit' /\ Queueing' = Queueing
        /\ UNCHANGED <<payloadDB, payloadCounter, creating>>
    BY <1>8, DrawnAfter DEF RemoveKey, AfterKeyRemoved, InTransit
  <2>3. \A i : IdUsed(i)' <=> IdUsed(i)
    BY <2>1, <2>2 DEF IdUsed
  <2> QED
    BY <1>0, <1>1, <2>1, <2>2, <2>3 DEF PayloadsOK, Stored
<1>9. CASE RemovePayload
  <2>1. /\ InTransit /\ ~InTransit' /\ Unfinished' = Unfinished /\ Queueing' = Queueing
        /\ UNCHANGED <<payloadCounter, creating>>
        /\ payloadDB' = {p \in payloadDB : p.id # cmd.payload_id}
    BY <1>9, UnfinishedAfter, DrawnAfter DEF RemovePayload, HandOK, InTransit
  <2>2. \A i : Stored(i)' <=> Stored(i) /\ i # cmd.payload_id
    BY <2>1 DEF Stored
  <2>3. \A i : IdUsed(i)' <=> IdUsed(i) /\ i # cmd.payload_id
    BY <2>1 DEF IdUsed, PayloadsOK
  <2> QED
    BY <1>0, <1>1, <2>1, <2>2, <2>3 DEF PayloadsOK
<1>10. CASE WriteKey
  <2>1. /\ Unfinished' = Unfinished \cup (IF goal = "Finished" THEN {} ELSE {cmd})
        /\ InTransit <=> goal # "Finished"
        /\ ~InTransit' /\ Queueing' = Queueing
        /\ UNCHANGED <<payloadDB, payloadCounter, creating>>
    BY <1>10, UnfinishedAfter, DrawnAfter DEF WriteKey, InTransit
  <2>2. \A i : IdUsed(i)' <=> IdUsed(i)
    BY <2>1 DEF IdUsed
  <2> QED
    BY <1>0, <1>1, <2>1, <2>2 DEF PayloadsOK, Stored
<1>11. CASE ReplaceDocument
  <2>1. \A l \in Queueing : creating'[l] = creating[l]
    BY <1>11, DrawnAfter DEF ReplaceDocument, InsertCommand, StartCommand, Queueing, Drawn
  <2>2. ~InTransit /\ ~InTransit'
    BY <1>11 DEF ReplaceDocument, Executing, InTransit
  <2> QED
    BY <1>2, <1>11, <2>1, <2>2, UnfinishedAfter, DrawnAfter DEF ReplaceDocument
<1> QED
  BY <1>3, <1>4, <1>5, <1>6, <1>7, <1>8, <1>9, <1>10, <1>11, StepKinds DEF Steps

-----------------------------------------------------------------------------
LEMMA InitRecords == Init => RecordsInv
<1> SUFFICES ASSUME Init PROVE RecordsInv
  OBVIOUS
<1>1. Drawn = {} /\ Queueing = {} /\ Unfinished = {} /\ Fresh = {}
  BY DEF Init, NoCreation, Drawn, Queueing, Unfinished, Fresh
<1>2. PayloadsMatchCommands
  BY <1>1 DEF Init, PayloadsMatchCommands, Queueing
<1>3. ProcessorCreates
  BY <1>1 DEF Init, NoCreation, ProcessorCreates, Replacing, Creators
<1> QED
  BY <1>1, <1>2, <1>3 DEF Init, RecordsInv, HandOK, IdsOK, RecordsOK, PayloadsOK, FinishedOK,
     Running, Resting, Taken, Rewriting, AlteringIndex, Replacing, InTransit

LEMMA RecordsInvStep ==
  ASSUME Assumptions PROVE TypeInv /\ RecordsInv /\ [Next]_vars => RecordsInv'
  BY HandStep, IdsStep, ProcessorStep, RecordsStep, PayloadsStep, FinishedStep DEF RecordsInv

LEMMA RecordsAlways == ASSUME Assumptions PROVE Spec => [](TypeInv /\ RecordsInv)
<1>1. Init => TypeInv /\ RecordsInv
  BY InitTyped, InitRecords
<1>2. TypeInv /\ RecordsInv /\ [Next]_vars => (TypeInv /\ RecordsInv)'
  BY StepTyped, RecordsInvStep
<1> QED
  BY <1>1, <1>2, PTL DEF Spec

(* At any time one command at most is active or failed: the one in hand;   *)
(* and changeStatus finds the record it replaces, so that the assertions   *)
(* around it hold (command.cc:98, 108, queue.cc:48, 51).                   *)
THEOREM CommandsOneByOne == ASSUME Assumptions PROVE Spec => []OneCommandInHand
<1>1. TypeInv /\ RecordsInv => OneCommandInHand
  BY DEF RecordsInv, HandOK, OneCommandInHand, Running, Resting, Taken, Rewriting, AlteringIndex
<1> QED
  BY <1>1, RecordsAlways, PTL

(* The payloads stored are those of the unfinished commands, whatever the  *)
(* request threads, the loader and the retries of the processor do at the  *)
(* same time (command.cc save, changeStatus).                              *)
THEOREM PayloadsKept == ASSUME Assumptions PROVE Spec => []PayloadsMatchCommands
<1>1. TypeInv /\ RecordsInv => PayloadsMatchCommands
  BY DEF RecordsInv, PayloadsOK
<1> QED
  BY <1>1, RecordsAlways, PTL

(* A finished command's record stays as it is (command.cc changeStatus).   *)
THEOREM FinishedStays == ASSUME Assumptions PROVE Spec => FinishedIsFinal
<1>1. ASSUME TypeInv, RecordsInv, [Next]_vars
      PROVE  [\A c \in queueDB : c.status = "Finished" => c \in queueDB']_vars
  <2>1. CASE \E k \in Creators : SaveKey(k)
    BY <1>1, <2>1, KeySaved DEF RecordsInv
  <2>2. CASE RemoveKey
    BY <1>1, <2>2, UnfinishedAfter DEF RemoveKey, Unfinished
  <2>3. CASE WriteKey
    BY <1>1, <2>3, KeyWritten DEF RecordsInv
  <2>4. CASE UNCHANGED queueDB
    BY <2>4
  <2>5. \/ \E k \in Creators : SaveKey(k)
        \/ RemoveKey \/ WriteKey
        \/ UNCHANGED queueDB
    BY <1>1, StepKinds DEF RecordsInv, Steps, StandsStill, RestsOn, RunsOn, Draws, SavePayload,
       FetchCommand, FinishTasks, RemovePayload, ReplaceDocument, databases
  <2> QED
    BY <2>1, <2>2, <2>3, <2>4, <2>5
<1> QED
  BY <1>1, RecordsAlways, PTL DEF Spec, FinishedIsFinal
-----------------------------------------------------------------------------
(***************************************************************************)
(* Fourth part.  What holds of the queue's records and of the index        *)
(* however often the server is killed and started again.  Less holds than  *)
(* of a server that runs on: records of commands that a kill found in hand *)
(* stay behind, payloads whose commands were never queued, and documents   *)
(* without their metadata.                                                 *)
(***************************************************************************)

(* A command that is taken or runs is not finished; between its two keys   *)
(* it has the status it is about to be recorded with.                      *)
HandStatus ==
  /\ ~(Resting \/ Rewriting) => cmd.status # "Finished"
  /\ Rewriting => cmd.status = goal
  /\ pc = "purge" => goal = "Finished"

(* The payload ids in use are those of the stored payloads or some of      *)
(* them, each is used once, and none is yet to be drawn.                   *)
PayloadsSafe ==
  /\ \A i : IdUsed(i) => Stored(i)
  /\ \A p \in payloadDB : p.id <= payloadCounter
  /\ \A c, x \in Unfinished : c.payload_id = x.payload_id => c = x
  /\ \A k, l \in Queueing : creating[k].payload_id = creating[l].payload_id => k = l
  /\ \A c \in Unfinished : \A k \in Queueing : c.payload_id # creating[k].payload_id
  /\ InTransit => /\ \A c \in Unfinished : c.payload_id # cmd.payload_id
                  /\ \A k \in Queueing : creating[k].payload_id # cmd.payload_id

CrashInv == TypeInv /\ HandStatus /\ FinishedOK /\ PayloadsSafe

-----------------------------------------------------------------------------
(* Types.                                                                  *)
LEMMA RestartTyped ==
  ASSUME Assumptions, TypeInv, Restart, UNCHANGED <<queueCounter, payloadCounter, queueDB, documents>>,
         payloadDB' \subseteq [id : Nat, body : Texts \cup {NoText}]
  PROVE  TypeInv'
<1>1. /\ creating' \in [Creators -> Creations]
      /\ pending' \in [Slots -> Seq(Tasks)]
  BY DEF Restart, Creations
<1>2. /\ pc' = "idle" /\ cmd' = NoCommand /\ goal' = "Active" /\ previousAction' = "NullAction"
      /\ task' = NoTask /\ toLoad' = {} /\ index' = {} /\ ready' = FALSE /\ closing' = FALSE
  BY DEF Restart
<1> QED
  BY <1>1, <1>2 DEF documents, TypeInv, TypeOK, ControlOK, Statuses, InHand

LEMMA CrashTyped == ASSUME Assumptions, TypeInv, Crash PROVE TypeInv'
<1>1. PICK lost \in SUBSET {p \in payloadDB : p.body # NoText} :
        payloadDB' = (payloadDB \ lost) \cup {[p EXCEPT !.body = NoText] : p \in lost}
  BY DEF Crash
<1>2. payloadDB' \subseteq [id : Nat, body : Texts \cup {NoText}]
  BY <1>1 DEF TypeInv, TypeOK
<1> QED
  BY <1>2, RestartTyped DEF Crash

LEMMA DeathTyped == ASSUME Assumptions, TypeInv, LoadMissing \/ DropUncounted PROVE TypeInv'
  BY RestartTyped DEF LoadMissing, DropUncounted, databases, TypeInv, TypeOK

-----------------------------------------------------------------------------
(* The steps by what they do to payloads: most use no id that was not used *)
(* before, and leave the stored ids alone.                                 *)
Quiet ==
  /\ UNCHANGED <<payloadCounter, queueDB>>
  /\ {p.id : p \in payloadDB'} = {p.id : p \in payloadDB}
  /\ \A k \in Queueing' : k \in Queueing /\ creating'[k] = creating[k]
  /\ InTransit' => InTransit /\ cmd' = cmd

LEMMA RestartQuiet ==
  ASSUME Restart, UNCHANGED <<queueCounter, payloadCounter, queueDB, documents>>,
         {p.id : p \in payloadDB'} = {p.id : p \in payloadDB}
  PROVE  Quiet
<1>1. Queueing' = {} /\ ~InTransit'
  BY DEF Restart, NoCreation, Queueing, InTransit
<1> QED
  BY <1>1 DEF Quiet

LEMMA CrashQuiet == ASSUME TypeInv, Crash PROVE Quiet
<1>1. PICK lost \in SUBSET {p \in payloadDB : p.body # NoText} :
        payloadDB' = (payloadDB \ lost) \cup {[p EXCEPT !.body = NoText] : p \in lost}
  BY DEF Crash
<1>2. payloadDB \subseteq [id : Nat, body : Texts \cup {NoText}]
  BY DEF TypeInv, TypeOK
<1>3. ASSUME NEW p \in payloadDB'
      PROVE  \E x \in payloadDB : x.id = p.id
  <2>1. CASE p \in payloadDB \ lost
    BY <2>1
  <2>2. ASSUME NEW x \in lost, p = [x EXCEPT !.body = NoText]
        PROVE  x \in payloadDB /\ x.id = p.id
    BY <1>2, <2>2
  <2> QED
    BY <1>1, <2>1, <2>2
<1>4. ASSUME NEW x \in payloadDB
      PROVE  \E p \in payloadDB' : p.id = x.id
  <2>1. CASE x \notin lost
    BY <1>1, <2>1
  <2>2. CASE x \in lost
    <3>1. [x EXCEPT !.body = NoText] \in payloadDB'
      BY <1>1, <2>2
    <3>2. [x EXCEPT !.body = NoText].id = x.id
      BY <1>2
    <3> QED
      BY <3>1, <3>2
  <2> QED
    BY <2>1, <2>2
<1>5. {p.id : p \in payloadDB'} = {p.id : p \in payloadDB}
  BY <1>3, <1>4
<1> QED
  BY <1>5, RestartQuiet DEF Crash

(* A creation that begins is not yet at its key.                           *)
LEMMA StartQuiet ==
  ASSUME TypeInv, NEW k \in Creators, NEW r, r.step = "payload",
         creating' = [creating EXCEPT ![k] = r],
         UNCHANGED <<payloadCounter, payloadDB, queueDB>>,
         InTransit' => InTransit /\ cmd' = cmd
  PROVE  Quiet
<1>1. creating \in [Creators -> Creations]
  BY DEF TypeInv, TypeOK
<1>2. \A l \in Queueing' : l # k
  BY <1>1 DEF Queueing
<1> QED
  BY <1>1, <1>2 DEF Quiet, Queueing

LEMMA CreateCommandQuiet ==
  ASSUME TypeInv, NEW k \in Creators, NEW action, NEW doc, NEW body, NEW put,
         CreateCommand(k, action, doc, body, put),
         UNCHANGED <<payloadCounter, payloadDB, queueDB, processing>>
  PROVE  Quiet
<1> DEFINE r == [step |-> "payload", queue_id |-> queueCounter + 1, payload_id |-> 0,
                 action |-> action, doc |-> doc, body |-> body, put |-> put]
<1>1. creating' = [creating EXCEPT ![k] = r] /\ r.step = "payload"
  BY DEF CreateCommand, StartCommand
<1>2. InTransit' => InTransit /\ cmd' = cmd
  BY DEF processing, InTransit
<1> HIDE DEF r
<1> QED
  BY <1>1, <1>2, StartQuiet

LEMMA ReplaceQuiet == ASSUME Assumptions, TypeInv, ReplaceDocument PROVE Quiet
<1> DEFINE r == [step |-> "payload", queue_id |-> cmd.queue_id, payload_id |-> 0,
                 action |-> "DropDocument", doc |-> cmd.doc, body |-> NoText, put |-> FALSE]
<1>1. creating' = [creating EXCEPT ![Processor] = r] /\ r.step = "payload"
  BY DEF ReplaceDocument, InsertCommand, StartCommand
<1>2. ~InTransit' /\ UNCHANGED <<payloadCounter, payloadDB, queueDB>>
  BY DEF ReplaceDocument, InTransit
<1> HIDE DEF r
<1> QED
  BY <1>1, <1>2, StartQuiet DEF Creators

LEMMA ProcessQuiet ==
  ASSUME Assumptions, TypeInv,
         Process, ~(RemoveKey \/ RemovePayload \/ WriteKey)
  PROVE  Quiet
<1>1. CASE LoadDocument
  BY <1>1, CreateCommandQuiet DEF LoadDocument, Creators
<1>2. ASSUME UNCHANGED <<databases, creating>>, ~InTransit'
      PROVE  Quiet
  BY <1>2 DEF Quiet, databases, Queueing
<1>3. CASE Tick \/ LoadStored \/ StoredLoaded \/ FetchCommand \/ FinishTasks \/ LeaveQueue
  BY <1>2, <1>3 DEF Tick, LoadStored, StoredLoaded, FetchCommand, FinishTasks, LeaveQueue, InTransit
<1>4. CASE AddTask \/ ThrottleEnds
  <2>1. NextSlot => ~InTransit'
    BY DEF NextSlot, InTransit
  <2> QED
    BY <1>2, <1>4, <2>1 DEF AddTask, ThrottleEnds, InTransit
<1>5. CASE FailDocument \/ StoreText \/ DescribeDocument \/ RetryLater
  BY <1>2, <1>5 DEF FailDocument, StoreText, DescribeDocument, RetryLater, InTransit
<1>6. CASE DropMissing \/ DropAssociations \/ EraseText \/ UndescribeDocument
  BY <1>2, <1>6 DEF DropMissing, DropAssociations, EraseText, UndescribeDocument, Finish, InTransit
<1>7. CASE AddAssociation \/ AddAssociations \/ EndLoad
  BY <1>2, <1>7 DEF AddAssociation, AddAssociations, EndLoad, Finish, InTransit
<1> QED
  BY <1>1, <1>3, <1>4, <1>5, <1>6, <1>7, ReplaceQuiet DEF Process

LEMMA PayloadStepKinds ==
  ASSUME Assumptions, TypeInv, [CrashNext]_vars
  PROVE  \/ Quiet
         \/ \E k \in Creators : SavePayload(k) \/ SaveKey(k)
         \/ RemoveKey \/ RemovePayload \/ WriteKey
<1>1. ASSUME NEW h \in Handlers, Handle(h)
      PROVE  Quiet
  <2>1. ASSUME NEW kind, NEW action, NEW doc, NEW body, NEW put,
               Request(h, kind, action, doc, body, put)
        PROVE  Quiet
    BY <2>1, CreateCommandQuiet DEF Request, Creators
  <2> QED
    BY <1>1, <2>1 DEF Handle, CreateDocument, CreateAndAssociateDocument, DeleteDocument,
       AssociateDocument, AssociateDocuments, LoadDocuments
<1>2. ASSUME NEW k \in Creators, AssociateCreated(k)
      PROVE  Quiet
  BY <1>2, CreateCommandQuiet DEF AssociateCreated
<1>3. ASSUME UNCHANGED <<databases, creating, processing>>
      PROVE  Quiet
  BY <1>3 DEF Quiet, databases, processing, Queueing, InTransit
<1>4. CASE Close \/ UNCHANGED vars \/ \E s \in Slots : AlterIndex(s)
  BY <1>3, <1>4 DEF Close, vars, AlterIndex
<1>5. CASE LoadMissing \/ DropUncounted
  BY <1>5, RestartQuiet DEF LoadMissing, DropUncounted, databases
<1> QED
  BY <1>1, <1>2, <1>4, <1>5, CrashQuiet, ProcessQuiet DEF CrashNext, Next, Create

-----------------------------------------------------------------------------
(* The status of the command in hand.                                      *)
LEMMA StatusKept ==
  ASSUME Assumptions, TypeInv, HandStatus, [CrashNext]_vars
  PROVE  HandStatus'
<1> USE DEF HandStatus, Resting, Rewriting, AlteringIndex
<1>1. CASE Crash \/ LoadMissing \/ DropUncounted
  BY <1>1 DEF Crash, LoadMissing, DropUncounted, Restart
<1>2. ASSUME UNCHANGED <<pc, cmd, goal, ready>>
      PROVE  HandStatus'
  BY <1>2
<1>3. ASSUME NEW h \in Handlers, Handle(h)
      PROVE  HandStatus'
  BY <1>2, <1>3 DEF Handle, CreateDocument, CreateAndAssociateDocument, DeleteDocument,
     AssociateDocument, AssociateDocuments, LoadDocuments, Request, processing, indexing
<1>4. ASSUME NEW k \in Creators, Create(k)
      PROVE  HandStatus'
  BY <1>2, <1>4 DEF Create, SavePayload, SaveKey, AssociateCreated, processing, indexing
<1>5. CASE Close \/ UNCHANGED vars \/ LoadDocument \/ \E s \in Slots : AlterIndex(s)
  BY <1>2, <1>5 DEF Close, vars, LoadDocument, AlterIndex, processing, indexing
<1>6. CASE Tick \/ LoadStored \/ StoredLoaded \/ LeaveQueue
  <2>1. pc' \in {"idle", "load", "fetch", "enqueue"} /\ (pc' = "enqueue" => ~ready')
    BY <1>6 DEF Tick, LoadStored, StoredLoaded, LeaveQueue, indexing, TypeInv, ControlOK
  <2> QED
    BY <2>1
<1>7. CASE FetchCommand \/ FinishTasks
  BY <1>7 DEF FetchCommand, FinishTasks, Queued
<1>8. CASE AddTask \/ ThrottleEnds
  <2>1. UNCHANGED <<cmd, ready>> /\ pc \in {"enqueue", "throttle"}
    BY <1>8 DEF AddTask, ThrottleEnds, indexing
  <2>2. \/ pc' \in {"enqueue", "throttle"}
        \/ pc' = "load"
        \/ pc' \in {"remove", "erase"} /\ ready
    BY <1>8 DEF AddTask, ThrottleEnds, NextSlot
  <2> QED
    BY <2>1, <2>2
<1>9. CASE \/ FailDocument \/ StoreText \/ DescribeDocument \/ ReplaceDocument \/ RetryLater
           \/ DropMissing \/ DropAssociations \/ EraseText \/ UndescribeDocument
           \/ AddAssociation \/ AddAssociations \/ EndLoad
  <2>1. /\ cmd' = cmd /\ pc \in {"execute", "describe", "insert", "erase", "undescribe"}
        /\ pc' \in {"remove", "describe", "enqueue", "insert", "undescribe"}
    BY <1>9 DEF FailDocument, StoreText, DescribeDocument, ReplaceDocument, RetryLater,
       DropMissing, DropAssociations, EraseText, UndescribeDocument, AddAssociation,
       AddAssociations, EndLoad, Executing, Finish
  <2> QED
    BY <2>1
<1>10. CASE RemoveKey
  <2>1. cmd \in Commands
    BY <1>10 DEF RemoveKey, TypeInv, TypeOK, InHand
  <2>2. cmd'.status = goal /\ goal' = goal /\ pc' = AfterKeyRemoved
    BY <1>10, <2>1 DEF RemoveKey, Commands
  <2> QED
    BY <2>2 DEF AfterKeyRemoved
<1>11. CASE RemovePayload
  <2>1. cmd \in Commands
    BY <1>11 DEF RemovePayload, TypeInv, TypeOK, InHand
  <2>2. cmd'.status = cmd.status /\ goal' = goal /\ pc' = "write" /\ pc = "purge"
    BY <1>11, <2>1 DEF RemovePayload, Commands
  <2> QED
    BY <2>2
<1>12. CASE WriteKey
  BY <1>12 DEF WriteKey
<1> QED
  BY <1>1, <1>3, <1>4, <1>5, <1>6, <1>7, <1>8, <1>9, <1>10, <1>11, <1>12
  DEF CrashNext, Next, Process

-----------------------------------------------------------------------------
(* The unfinished commands after a step that writes the queue.             *)
LEMMA UnfinishedBelow ==
  ASSUME TypeInv, HandStatus
  PROVE  /\ \A k \in Creators : SaveKey(k) => Unfinished' \subseteq Unfinished \cup {NewRecord(k)}
         /\ RemoveKey => cmd \in Unfinished /\ Unfinished' = Unfinished \ {cmd}
         /\ WriteKey => Unfinished' \subseteq Unfinished \cup (IF goal = "Finished" THEN {} ELSE {cmd})
         /\ UNCHANGED queueDB => Unfinished' = Unfinished
<1> USE DEF Unfinished
<1>1. ASSUME NEW k \in Creators, SaveKey(k)
      PROVE  Unfinished' \subseteq Unfinished \cup {NewRecord(k)}
  BY <1>1 DEF SaveKey, Put, NewRecord
<1>2. ASSUME RemoveKey
      PROVE  cmd \in Unfinished /\ Unfinished' = Unfinished \ {cmd}
  BY <1>2 DEF RemoveKey, HandStatus, Resting, Rewriting, AlteringIndex
<1>3. ASSUME WriteKey
      PROVE  Unfinished' \subseteq Unfinished \cup (IF goal = "Finished" THEN {} ELSE {cmd})
  BY <1>3 DEF WriteKey, Put, HandStatus, Rewriting
<1> QED
  BY <1>1, <1>2, <1>3

LEMMA UsedIds ==
  ASSUME TypeInv, PayloadsSafe, NEW i, IdUsed(i)
  PROVE  i \in Nat /\ i <= payloadCounter
  BY DEF PayloadsSafe, Stored, TypeInv, TypeOK

LEMMA QuietSafe ==
  ASSUME TypeInv, PayloadsSafe, Quiet
  PROVE  PayloadsSafe'
<1>1. Unfinished' = Unfinished
  BY DEF Quiet, Unfinished
<1>2. \A i : IdUsed(i)' => IdUsed(i)
  BY <1>1 DEF Quiet, IdUsed
<1>3. \A i : Stored(i)' <=> Stored(i)
  <2>1. \A i : Stored(i) <=> i \in {p.id : p \in payloadDB}
    BY DEF Stored
  <2>2. \A i : Stored(i)' <=> i \in {p.id : p \in payloadDB'}
    BY DEF Stored
  <2> QED
    BY <2>1, <2>2 DEF Quiet
<1>4. \A p \in payloadDB' : p.id <= payloadCounter'
  <2>1. \A p \in payloadDB' : \E x \in payloadDB : x.id = p.id
    BY DEF Quiet
  <2> QED
    BY <2>1 DEF Quiet, PayloadsSafe
<1> QED
  BY <1>1, <1>2, <1>3, <1>4 DEF PayloadsSafe, Quiet

LEMMA PayloadsKeptSafe ==
  ASSUME Assumptions, TypeInv, HandStatus, PayloadsSafe, [CrashNext]_vars
  PROVE  PayloadsSafe'
<1>1. ASSUME NEW k \in Creators, SavePayload(k)
      PROVE  PayloadsSafe'
  <2>1. /\ Unfinished' = Unfinished
        /\ UNCHANGED <<pc, cmd, goal>> /\ (InTransit' <=> InTransit)
        /\ payloadCounter' = payloadCounter + 1
    BY <1>1, UnfinishedBelow DEF SavePayload, processing, InTransit
  <2>2. /\ creating'[k].payload_id = payloadCounter + 1
        /\ Queueing' = Queueing \cup {k} /\ k \notin Queueing
        /\ \A l \in Queueing : creating'[l] = creating[l]
    <3>1. creating[k] \in DocumentCreations \cup OtherCreations
      BY <1>1, CreationsType DEF SavePayload, TypeInv, TypeOK
    <3>2. creating' = [creating EXCEPT ![k] =
                         [creating[k] EXCEPT !.step = "key", !.payload_id = payloadCounter + 1]]
      BY <1>1 DEF SavePayload, TypeInv, TypeOK
    <3>3. creating'[k].step = "key" /\ creating'[k].payload_id = payloadCounter + 1
      BY <3>1, <3>2 DEF DocumentCreations, OtherCreations, TypeInv, TypeOK
    <3>4. \A l \in Creators \ {k} : creating'[l] = creating[l]
      BY <3>2 DEF TypeInv, TypeOK
    <3>5. creating[k].step # "key"
      BY <1>1 DEF SavePayload
    <3> QED
      BY <3>3, <3>4, <3>5 DEF Queueing
  <2>3. \A i : IdUsed(i)' <=> IdUsed(i) \/ i = payloadCounter + 1
    BY <2>1, <2>2 DEF IdUsed
  <2>4. \A i : Stored(i)' <=> Stored(i) \/ i = payloadCounter + 1
    <3> DEFINE p == [id |-> payloadCounter + 1, body |-> creating[k].body]
    <3>1. payloadDB' = payloadDB \cup {p} /\ p.id = payloadCounter + 1
      BY <1>1 DEF SavePayload
    <3> HIDE DEF p
    <3> QED
      BY <3>1 DEF Stored
  <2>5. payloadCounter \in Nat /\ ~IdUsed(payloadCounter + 1)
    BY UsedIds DEF TypeInv, TypeOK
  <2>6. \A p \in payloadDB' : p.id <= payloadCounter'
    BY <1>1, <2>1, <2>5 DEF SavePayload, PayloadsSafe, TypeInv, TypeOK
  <2> QED
    BY <2>1, <2>2, <2>3, <2>4, <2>5, <2>6 DEF PayloadsSafe, IdUsed
<1>2. ASSUME NEW k \in Creators, SaveKey(k)
      PROVE  PayloadsSafe'
  <2>1. /\ Unfinished' \subseteq Unfinished \cup {NewRecord(k)}
        /\ NewRecord(k).payload_id = creating[k].payload_id
        /\ UNCHANGED <<payloadDB, payloadCounter, pc, cmd, goal>> /\ (InTransit' <=> InTransit)
    BY <1>2, UnfinishedBelow DEF SaveKey, processing, InTransit, NewRecord
  <2>2. /\ k \in Queueing /\ Queueing' = Queueing \ {k}
        /\ \A l \in Queueing \ {k} : creating'[l] = creating[l]
    <3>1. creating'[k].step # "key" /\ \A l \in Creators \ {k} : creating'[l] = creating[l]
      BY <1>2 DEF SaveKey, NoCreation, TypeInv, TypeOK
    <3> QED
      BY <1>2, <3>1 DEF SaveKey, Queueing
  <2>3. \A i : IdUsed(i)' => IdUsed(i)
    BY <2>1, <2>2 DEF IdUsed
  <2> QED
    BY <2>1, <2>2, <2>3 DEF PayloadsSafe, Stored
<1>3. CASE RemoveKey
  <2>1. /\ cmd \in Unfinished /\ Unfinished' = Unfinished \ {cmd}
        /\ cmd'.payload_id = cmd.payload_id
    <3>1. cmd \in Commands
      BY <1>3 DEF RemoveKey, TypeInv, TypeOK, InHand
    <3> QED
      BY <1>3, <3>1, UnfinishedBelow DEF RemoveKey, Commands
  <2>2. Queueing' = Queueing /\ UNCHANGED <<payloadDB, payloadCounter, creating>>
    BY <1>3 DEF RemoveKey, Queueing
  <2>3. \A i : IdUsed(i)' => IdUsed(i)
    BY <2>1, <2>2 DEF IdUsed
  <2> QED
    BY <2>1, <2>2, <2>3 DEF PayloadsSafe, Stored
<1>4. CASE RemovePayload
  <2>1. /\ InTransit /\ ~InTransit' /\ Unfinished' = Unfinished /\ Queueing' = Queueing
        /\ UNCHANGED <<payloadCounter, creating>>
        /\ payloadDB' = {p \in payloadDB : p.id # cmd.payload_id}
    BY <1>4, UnfinishedBelow DEF RemovePayload, HandStatus, InTransit, Queueing
  <2>2. \A i : Stored(i)' <=> Stored(i) /\ i # cmd.payload_id
    BY <2>1 DEF Stored
  <2>3. \A i : IdUsed(i)' => IdUsed(i) /\ i # cmd.payload_id
    BY <2>1 DEF IdUsed, PayloadsSafe
  <2> QED
    BY <2>1, <2>2, <2>3 DEF PayloadsSafe
<1>5. CASE WriteKey
  <2>1. /\ Unfinished' \subseteq Unfinished \cup (IF goal = "Finished" THEN {} ELSE {cmd})
        /\ InTransit <=> goal # "Finished"
        /\ ~InTransit' /\ Queueing' = Queueing
        /\ UNCHANGED <<payloadDB, payloadCounter, creating>>
    BY <1>5, UnfinishedBelow DEF WriteKey, InTransit, Queueing
  <2>2. \A i : IdUsed(i)' => IdUsed(i)
    BY <2>1 DEF IdUsed
  <2> QED
    BY <2>1, <2>2 DEF PayloadsSafe, Stored
<1> QED
  BY <1>1, <1>2, <1>3, <1>4, <1>5, QuietSafe, PayloadStepKinds

-----------------------------------------------------------------------------
(* A finished command has given up its payload.                            *)
LEMMA FinishedKept ==
  ASSUME Assumptions, TypeInv, HandStatus, FinishedOK, [CrashNext]_vars
  PROVE  FinishedOK'
<1>1. ASSUME UNCHANGED queueDB, ~(pc' = "write" /\ goal' = "Finished")
      PROVE  FinishedOK'
  BY <1>1 DEF FinishedOK
<1>2. CASE Quiet
  <2>1. pc' = "write" => UNCHANGED <<pc, cmd, goal>> \/ RemoveKey \/ RemovePayload
    <3>1. CASE Process
      BY <3>1 DEF Process, Tick, LoadStored, StoredLoaded, FetchCommand, FinishTasks, LeaveQueue,
         WriteKey, AddTask, ThrottleEnds, NextSlot, FailDocument, StoreText, DescribeDocument,
         ReplaceDocument, RetryLater, DropMissing, DropAssociations, EraseText,
         UndescribeDocument, AddAssociation, AddAssociations, LoadDocument, EndLoad, Finish,
         processing
    <3>2. CASE Crash \/ LoadMissing \/ DropUncounted
      BY <3>2 DEF Crash, LoadMissing, DropUncounted, Restart
    <3>3. ASSUME NEW h \in Handlers, Handle(h)
          PROVE  UNCHANGED <<pc, cmd, goal>>
      BY <3>3 DEF Handle, CreateDocument, CreateAndAssociateDocument, DeleteDocument,
         AssociateDocument, AssociateDocuments, LoadDocuments, Request, processing
    <3>4. ASSUME NEW k \in Creators, Create(k)
          PROVE  UNCHANGED <<pc, cmd, goal>>
      BY <3>4 DEF Create, SavePayload, SaveKey, AssociateCreated, processing
    <3>5. CASE Close \/ UNCHANGED vars \/ \E s \in Slots : AlterIndex(s)
      BY <3>5 DEF Close, vars, AlterIndex, processing
    <3> QED
      BY <3>1, <3>2, <3>3, <3>4, <3>5 DEF CrashNext, Next
  <2>2. UNCHANGED <<pc, cmd, goal>> => FinishedOK'
    BY <1>2 DEF FinishedOK, Quiet
  <2>3. RemoveKey \/ RemovePayload => FinishedOK'
    BY <1>2 DEF RemoveKey, RemovePayload, AfterKeyRemoved, FinishedOK, Quiet, Commands,
       TypeInv, TypeOK, InHand
  <2> QED
    BY <1>1, <1>2, <2>1, <2>2, <2>3 DEF Quiet
<1>3. ASSUME NEW k \in Creators, SavePayload(k) \/ SaveKey(k)
      PROVE  FinishedOK'
  BY <1>3 DEF SavePayload, SaveKey, Put, processing, FinishedOK
<1>4. CASE RemoveKey
  BY <1>4 DEF RemoveKey, AfterKeyRemoved, FinishedOK
<1>5. CASE RemovePayload
  <2>1. cmd \in Commands
    BY <1>5 DEF RemovePayload, TypeInv, TypeOK, InHand
  <2>2. cmd'.payload_id = 0 /\ UNCHANGED queueDB
    BY <1>5, <2>1 DEF RemovePayload, Commands
  <2> QED
    BY <2>2 DEF FinishedOK
<1>6. CASE WriteKey
  <2>1. cmd.status = "Finished" => cmd.payload_id = 0
    BY <1>6 DEF WriteKey, HandStatus, Rewriting, FinishedOK
  <2>2. queueDB' \subseteq queueDB \cup {cmd} /\ pc' # "write"
    BY <1>6 DEF WriteKey, Put
  <2> QED
    BY <2>1, <2>2 DEF FinishedOK
<1> QED
  BY <1>2, <1>3, <1>4, <1>5, <1>6, PayloadStepKinds

-----------------------------------------------------------------------------
LEMMA CrashInvInitial == ASSUME Assumptions, Init PROVE CrashInv
<1>1. Queueing = {} /\ Unfinished = {}
  BY DEF Init, NoCreation, Queueing, Unfinished
<1>2. PayloadsSafe
  BY <1>1 DEF Init, PayloadsSafe, IdUsed, InTransit
<1>3. HandStatus /\ FinishedOK
  BY DEF Init, HandStatus, FinishedOK, Resting, Rewriting
<1> QED
  BY <1>2, <1>3, InitTyped DEF CrashInv

LEMMA CrashInvPreserved == ASSUME Assumptions, CrashInv, [CrashNext]_vars PROVE CrashInv'
<1>1. TypeInv'
  BY StepTyped, CrashTyped, DeathTyped DEF CrashInv, CrashNext
<1> QED
  BY <1>1, StatusKept, PayloadsKeptSafe, FinishedKept DEF CrashInv

LEMMA CrashAlways == ASSUME Assumptions PROVE CrashSpec => []CrashInv
  BY CrashInvInitial, CrashInvPreserved, PTL DEF CrashSpec

(* However often the server is killed, an unfinished command has its       *)
(* payload record: saving writes it first, changeStatus removes it only    *)
(* once the key is gone (command.cc:81-82, changeStatus).                  *)
THEOREM KillsKeepPayloads == ASSUME Assumptions PROVE CrashSpec => []UnfinishedHavePayload
<1>1. CrashInv => UnfinishedHavePayload
  BY DEF CrashInv, PayloadsSafe, IdUsed, Stored, UnfinishedHavePayload
<1> QED
  BY <1>1, CrashAlways, PTL

(* Nor does a restart, and what it leaves behind, ever change or hide the  *)
(* record of a finished command (command.cc changeStatus).                 *)
THEOREM KillsKeepFinished == ASSUME Assumptions PROVE CrashSpec => FinishedIsFinal
<1>1. ASSUME CrashInv, [CrashNext]_vars, NEW c \in queueDB, c.status = "Finished"
      PROVE  c \in queueDB'
  <2>1. ASSUME NEW k \in Creators, SaveKey(k)
        PROVE  c \in queueDB'
    BY <1>1, <2>1 DEF SaveKey, Put, KeyOf
  <2>2. CASE RemoveKey
    BY <1>1, <2>2 DEF RemoveKey, CrashInv, HandStatus, Resting, Rewriting, AlteringIndex
  <2>3. CASE WriteKey
    <3>1. SUFFICES ASSUME KeyOf(c) = KeyOf(cmd)
                   PROVE  c = cmd
      BY <1>1, <2>3 DEF WriteKey, Put
    <3>2. c \in Commands /\ cmd \in Commands
      BY <1>1, <2>3 DEF WriteKey, CrashInv, TypeInv, TypeOK, InHand
    <3>3. cmd.status = "Finished" /\ c.queue_id = cmd.queue_id /\ c.action = cmd.action /\ c.doc = cmd.doc
      BY <1>1, <3>1 DEF KeyOf
    <3>4. c.payload_id = 0 /\ cmd.payload_id = 0
      BY <1>1, <2>3, <3>3 DEF WriteKey, CrashInv, HandStatus, Rewriting, FinishedOK
    <3> QED
      BY <1>1, <3>2, <3>3, <3>4 DEF Commands
  <2>4. ASSUME NEW k \in Creators, SavePayload(k)
        PROVE  c \in queueDB'
    BY <2>4 DEF SavePayload
  <2>5. Quiet \/ RemovePayload => c \in queueDB'
    BY DEF Quiet, RemovePayload
  <2> QED
    BY <1>1, <2>1, <2>2, <2>3, <2>4, <2>5, PayloadStepKinds DEF CrashInv
<1>2. CrashInv /\ [CrashNext]_vars =>
        [\A c \in queueDB : c.status = "Finished" => c \in queueDB']_vars
  BY <1>1
<1> QED
  BY <1>2, CrashAlways, PTL DEF CrashSpec, FinishedIsFinal

-----------------------------------------------------------------------------
(* What the index is after any number of kills.  A kill may leave a        *)
(* document without its metadata, and such a one is not loaded again; nor  *)
(* is what a server that closes has still to load.  So an entry is either  *)
(* as the texts call for, or neither in the index nor on its way there and *)
(* of such a document.                                                     *)

(* The documents with metadata, and the one whose metadata is next.        *)
Known == described \cup (IF pc = "describe" THEN {cmd.doc} ELSE {})

LeftOut(e) == ~Arriving(e) /\ (e[2] \notin Known \/ ~Complete)

IndexAgrees ==
  ready \/ pc # "idle" => \A e \in Hashes \X Docs : ExactAt(e) \/ LeftOut(e)

EmptyAtStart == ~ready /\ pc = "idle" => index = {}

CrashIndexInv == PhasesSeparate /\ IndexAgrees /\ EmptyAtStart

(* A process that starts has nothing in the index and no task.             *)
LEMMA RestartAgrees == ASSUME Restart PROVE CrashIndexInv'
<1>1. pc' = "idle" /\ ~ready' /\ index' = {} /\ \A s \in Slots : pending'[s] = <<>>
  BY DEF Restart
<1> QED
  BY <1>1 DEF CrashIndexInv, PhasesSeparate, Settled, IndexAgrees, EmptyAtStart

(* Most steps decide no entry anew and make no document known.             *)
LEMMA StaysAgreed ==
  ASSUME NEW e \in Hashes \X Docs, ExactAt(e) \/ LeftOut(e),
         ExactAt(e) => ExactAt(e)', Arriving(e)' => Arriving(e),
         Known' \subseteq Known, Complete' => Complete
  PROVE  ExactAt(e)' \/ LeftOut(e)'
  BY DEF LeftOut

(* A task is handed to a slot.  A server that closes lets go of what it    *)
(* has still to load.                                                      *)
LEMMA HandOverAgrees ==
  ASSUME Assumptions, TypeInv, PhasesSeparate, IndexAgrees, AddTask \/ ThrottleEnds,
         NEW e \in Hashes \X Docs
  PROVE  ExactAt(e)' \/ LeftOut(e)'
<1>1. /\ pc \in {"enqueue", "throttle"} /\ pc' \notin {"idle", "fetch", "describe"}
      /\ UNCHANGED <<closing, ready, described, documentDB>>
      /\ NextSlot \/ UNCHANGED toLoad
  BY DEF AddTask, ThrottleEnds, NextSlot, documents, indexing
<1>2. ExactAt(e) \/ LeftOut(e)
  BY <1>1 DEF IndexAgrees
<1>3. /\ Complete' /\ ExactAt(e) => ExactAt(e)'
      /\ Arriving(e)' <=> Arriving(e)
      /\ \A op : Outstanding(op, e)' <=> Outstanding(op, e)
  BY AddTaskExact, ThrottleEndsExact
<1>4. CASE Complete'
  BY <1>1, <1>2, <1>3, <1>4, StaysAgreed DEF Known, Complete
<1>5. CASE ~Complete'
  <2>1. ~ready /\ ~ready' /\ toLoad' \subseteq toLoad
    BY <1>1, <1>5 DEF Complete, NextSlot
  <2>2. Leaving' \subseteq Leaving
    BY <2>1 DEF Leaving
  <2>3. e \in Indexed(Staying) => e \in Indexed(Staying)'
    BY <1>1, <2>2 DEF Indexed, Staying
  <2>4. ~Outstanding("Delete", e)
    BY <1>1, <2>1, NoDeletionAmongAdditions DEF PhasesSeparate
  <2> QED
    BY <1>2, <1>3, <1>5, <2>3, <2>4 DEF ExactAt, LeftOut
<1> QED
  BY <1>4, <1>5

LEMMA RoundAgrees ==
  ASSUME Assumptions, TypeInv, TypeInv', CrashIndexInv,
         \/ Tick \/ LoadStored \/ StoredLoaded
         \/ FetchCommand \/ FinishTasks \/ LeaveQueue,
         NEW e \in Hashes \X Docs, ready' \/ pc' # "idle"
  PROVE  ExactAt(e)' \/ LeftOut(e)'
<1> USE DEF documents, indexing
<1>1. CASE Tick /\ ~ready
  <2>1. index = {} /\ UNCHANGED described /\ pc' = "load"
    BY <1>1 DEF Tick, CrashIndexInv, EmptyAtStart
  <2>2. Known' = described
    BY <2>1 DEF Known
  <2> QED
    BY <1>1, <2>1, <2>2, TickExact DEF CrashIndexInv, LeftOut
<1>2. CASE LoadStored
  <2>1. /\ pc = "load" /\ pc' = "enqueue" /\ ~ready
        /\ UNCHANGED <<closing, ready, described>>
    BY <1>2 DEF LoadStored, TypeInv, ControlOK
  <2>2. ExactAt(e) \/ LeftOut(e)
    BY <2>1 DEF CrashIndexInv, IndexAgrees
  <2>3. /\ ExactAt(e) => ExactAt(e)'
        /\ Arriving(e)' /\ ~Arriving(e) => e \notin Indexed(Staying)
    BY <1>2, LoadStoredExact DEF CrashIndexInv
  <2>4. ~Arriving(e) /\ e \notin Indexed(Staying) => ExactAt(e)
    BY DEF ExactAt
  <2>5. Known' = Known /\ (Complete' => Complete)
    BY <2>1 DEF Known, Complete
  <2> QED
    BY <2>2, <2>3, <2>4, <2>5 DEF LeftOut
<1>3. CASE StoredLoaded \/ (Tick /\ ready) \/ FetchCommand \/ FinishTasks \/ LeaveQueue
  <2>1. /\ UNCHANGED <<closing, documentDB, described, index, pending, task>>
        /\ pc # "describe" /\ pc' # "describe" /\ (ready \/ pc # "idle")
        /\ Complete' => Complete
    BY <1>3 DEF StoredLoaded, Tick, FetchCommand, FinishTasks, LeaveQueue, TypeInv, ControlOK,
       InHand, Complete
  <2>2. Leaving = {} /\ Leaving' = {} /\ SlotsLeft = {} /\ SlotsLeft' = {}
    BY <1>3 DEF StoredLoaded, Tick, FetchCommand, FinishTasks, LeaveQueue, TypeInv, ControlOK,
       InHand, Leaving, SlotsLeft
  <2>3. ExactAt(e) \/ LeftOut(e)
    BY <2>1 DEF CrashIndexInv, IndexAgrees
  <2>4. Known' = Known
    BY <2>1 DEF Known
  <2> QED
    BY <2>1, <2>2, <2>3, <2>4, SameExact, StaysAgreed
<1> QED
  BY <1>1, <1>2, <1>3

(* A command makes a document known when it stores its text, and by then   *)
(* the text calls for no entry yet.                                        *)
LEMMA CommandAgrees ==
  ASSUME Assumptions, TypeInv, TypeInv', PhasesSeparate, IndexAgrees,
         \/ RemoveKey \/ RemovePayload \/ WriteKey
         \/ FailDocument \/ StoreText \/ DescribeDocument \/ ReplaceDocument \/ RetryLater
         \/ DropMissing \/ DropAssociations \/ EraseText \/ UndescribeDocument
         \/ AddAssociation \/ AddAssociations \/ LoadDocument \/ EndLoad,
         NEW e \in Hashes \X Docs
  PROVE  ExactAt(e)' \/ LeftOut(e)'
<1> USE DEF processing, indexing, documents
<1>1. ready /\ pc \notin {"idle", "fetch"} /\ Complete
  BY DEF RemoveKey, RemovePayload, WriteKey, FailDocument, StoreText, DescribeDocument,
     ReplaceDocument, RetryLater, DropMissing, DropAssociations, EraseText, UndescribeDocument,
     AddAssociation, AddAssociations, LoadDocument, EndLoad, Executing, TypeInv, ControlOK, InHand,
     Complete
<1>2. ExactAt(e) \/ LeftOut(e)
  BY <1>1 DEF IndexAgrees
<1>3. CASE StoreText
  <2>1. /\ pc = "execute" /\ pc' = "describe" /\ UNCHANGED <<cmd, described>>
    BY <1>3 DEF StoreText, Executing
  <2>2. Known = described /\ Known' = described \cup {cmd.doc}
    BY <2>1 DEF Known
  <2>3. /\ ExactAt(e) => ExactAt(e)'
        /\ e[2] # cmd.doc => (Arriving(e)' => Arriving(e))
        /\ e[2] = cmd.doc => e \notin Indexed(Staying)
    BY <1>3, StoreTextExact
  <2>4. ~Arriving(e) /\ e \notin Indexed(Staying) => ExactAt(e)
    BY DEF ExactAt
  <2> QED
    BY <1>1, <1>2, <2>2, <2>3, <2>4 DEF LeftOut
<1>4. ~StoreText => Known' \subseteq Known
  BY DEF RemoveKey, AfterKeyRemoved, RemovePayload, WriteKey, FailDocument, DescribeDocument,
     ReplaceDocument, RetryLater, DropMissing, DropAssociations, EraseText, UndescribeDocument,
     AddAssociation, AddAssociations, LoadDocument, EndLoad, Executing, Finish, Known
<1>5. CASE DropAssociations
  BY <1>1, <1>2, <1>4, <1>5, DropAssociationsExact, StaysAgreed DEF DropAssociations, StoreText, Executing
<1>6. CASE EraseText
  BY <1>1, <1>2, <1>4, <1>6, EraseTextExact, StaysAgreed DEF EraseText, StoreText, Executing
<1>7. CASE DescribeDocument
  <2>1. /\ pc = "describe" /\ pc' = "enqueue" /\ task \in SlotTasks
        /\ UNCHANGED <<documentDB, index, pending, cmd, task, toLoad, ready>>
    BY <1>7 DEF DescribeDocument, TypeInv, TypeOK
  <2>2. task.op = "Add"
    BY <1>1, <2>1 DEF TypeInv, ControlOK, SlotTasks
  <2>3. Leaving' = Leaving /\ SlotsLeft' = SlotsLeft
    BY <1>1, <2>1, <2>2 DEF Leaving, SlotsLeft
  <2>4. ~StoreText
    BY <2>1 DEF StoreText, Executing
  <2> QED
    BY <1>1, <1>2, <1>4, <2>1, <2>3, <2>4, SameExact, StaysAgreed
<1>8. CASE \/ RemoveKey \/ RemovePayload \/ WriteKey
           \/ FailDocument \/ ReplaceDocument \/ RetryLater \/ DropMissing \/ UndescribeDocument
           \/ AddAssociation \/ AddAssociations \/ LoadDocument \/ EndLoad
  <2>1. /\ UNCHANGED <<documentDB, index, pending, ready>>
        /\ pc \notin {"describe", "enqueue", "throttle", "erase"}
        /\ pc' \notin {"describe", "enqueue", "throttle", "erase"}
    BY <1>8 DEF RemoveKey, AfterKeyRemoved, RemovePayload, WriteKey, FailDocument, ReplaceDocument,
       RetryLater, DropMissing, UndescribeDocument, AddAssociation, AddAssociations, LoadDocument,
       EndLoad, Executing, Finish
  <2>2. Leaving = {} /\ SlotsLeft = {} /\ Leaving' = {} /\ SlotsLeft' = {}
    BY <1>1, <2>1 DEF Leaving, SlotsLeft
  <2>3. ~StoreText
    BY <2>1 DEF StoreText
  <2> QED
    BY <1>1, <1>2, <1>4, <2>1, <2>2, <2>3, SameExact, StaysAgreed
<1> QED
  BY <1>3, <1>5, <1>6, <1>7, <1>8

LEMMA AgreesStep ==
  ASSUME Assumptions, TypeInv, TypeInv', CrashIndexInv, [Next]_vars
  PROVE  IndexAgrees'
<1> SUFFICES ASSUME ready' \/ pc' # "idle", NEW e \in Hashes \X Docs
             PROVE  ExactAt(e)' \/ LeftOut(e)'
  BY DEF IndexAgrees
<1>1. CASE (\E h \in Handlers : Handle(h)) \/ (\E c \in Creators : Create(c)) \/ Close \/ UNCHANGED vars
  <2>1. UNCHANGED <<processing, indexing, documents>>
    BY <1>1 DEF Handle, CreateDocument, CreateAndAssociateDocument, DeleteDocument,
       AssociateDocument, AssociateDocuments, LoadDocuments, Request, Create, SavePayload, SaveKey,
       AssociateCreated, Close, vars
  <2>2. closing => closing'
    <3>1. CASE Close
      BY <3>1 DEF Close
    <3>2. CASE (\E h \in Handlers : Handle(h)) \/ (\E c \in Creators : Create(c)) \/ UNCHANGED vars
      <4>1. UNCHANGED closing
        BY <3>2 DEF Handle, CreateDocument, CreateAndAssociateDocument, DeleteDocument,
           AssociateDocument, AssociateDocuments, LoadDocuments, Request, Create, SavePayload,
           SaveKey, AssociateCreated, vars
      <4> QED
        BY <4>1
    <3> QED
      BY <1>1, <3>1, <3>2
  <2>3. /\ UNCHANGED <<documentDB, described, index, pending, pc, cmd, task, toLoad, ready>>
        /\ Complete' => Complete
    BY <2>1, <2>2 DEF processing, indexing, documents, Complete
  <2>4. Leaving' = Leaving /\ SlotsLeft' = SlotsLeft /\ Known' = Known
    BY <2>3 DEF Leaving, SlotsLeft, Known
  <2>5. ExactAt(e) \/ LeftOut(e)
    BY <2>3 DEF CrashIndexInv, IndexAgrees
  <2> QED
    BY <2>3, <2>4, <2>5, SameExact, StaysAgreed
<1>2. CASE Process
  BY <1>2, RoundAgrees, CommandAgrees, HandOverAgrees DEF Process, CrashIndexInv
<1>3. ASSUME NEW s \in Slots, AlterIndex(s)
      PROVE  ExactAt(e)' \/ LeftOut(e)'
  <2>1. UNCHANGED <<pc, cmd, described, ready, closing>>
    BY <1>3 DEF AlterIndex, processing, documents
  <2>2. ExactAt(e) \/ LeftOut(e)
    BY <2>1 DEF CrashIndexInv, IndexAgrees
  <2>3. (ExactAt(e) => ExactAt(e)') /\ (Arriving(e)' => Arriving(e))
    BY <1>3, AlterIndexExact DEF CrashIndexInv
  <2> QED
    BY <2>1, <2>2, <2>3, StaysAgreed DEF Known, Complete
<1> QED
  BY <1>1, <1>2, <1>3 DEF Next

LEMMA EmptyUntilLoaded ==
  ASSUME TypeInv, TypeInv', PhasesSeparate, EmptyAtStart, [Next]_vars
  PROVE  EmptyAtStart'
<1> USE DEF documents, processing, indexing
<1>1. CASE (\E h \in Handlers : Handle(h)) \/ (\E c \in Creators : Create(c)) \/ Close \/ UNCHANGED vars
  <2>1. UNCHANGED <<pc, ready, index>>
    BY <1>1 DEF Handle, CreateDocument, CreateAndAssociateDocument, DeleteDocument,
       AssociateDocument, AssociateDocuments, LoadDocuments, Request, Create, SavePayload, SaveKey,
       AssociateCreated, Close, vars
  <2> QED
    BY <2>1 DEF EmptyAtStart
<1>2. CASE Process
  <2>1. ready' \/ pc' # "idle"
    BY <1>2 DEF Process, Tick, LoadStored, StoredLoaded, FetchCommand, FinishTasks, LeaveQueue,
       RemoveKey, RemovePayload, WriteKey, AddTask, ThrottleEnds, NextSlot,
       FailDocument, StoreText, DescribeDocument, ReplaceDocument, RetryLater,
       DropMissing, DropAssociations, EraseText, UndescribeDocument, AddAssociation,
       AddAssociations, LoadDocument, EndLoad, Executing, TypeInv, ControlOK, InHand
  <2> QED
    BY <2>1 DEF EmptyAtStart
<1>3. ASSUME NEW s \in Slots, AlterIndex(s)
      PROVE  EmptyAtStart'
  BY <1>3 DEF AlterIndex, PhasesSeparate, Settled, EmptyAtStart
<1> QED
  BY <1>1, <1>2, <1>3 DEF Next

LEMMA CrashIndexInitial == ASSUME Assumptions, Init PROVE CrashIndexInv
<1>1. pc = "idle" /\ ~ready /\ index = {} /\ Settled
  BY DEF Init, Settled
<1> QED
  BY <1>1 DEF CrashIndexInv, PhasesSeparate, IndexAgrees, EmptyAtStart

LEMMA CrashIndexPreserved ==
  ASSUME Assumptions, TypeInv, TypeInv', CrashIndexInv, [CrashNext]_vars
  PROVE  CrashIndexInv'
<1>1. CASE Crash \/ LoadMissing \/ DropUncounted
  BY <1>1, RestartAgrees DEF Crash, LoadMissing, DropUncounted
<1>2. CASE [Next]_vars
  BY <1>2, PhasesStep, AgreesStep, EmptyUntilLoaded DEF CrashIndexInv
<1> QED
  BY <1>1, <1>2 DEF CrashNext

LEMMA CrashIndexSuffices ==
  ASSUME Assumptions, TypeInv, CrashIndexInv
  PROVE  SettledIndexIsStored
<1> SUFFICES ASSUME pc = "idle", ready
             PROVE  /\ index \subseteq Indexed(documentDB)
                    /\ ~closing => \A e \in Indexed(documentDB) : e[2] \in described => e \in index
  BY DEF SettledIndexIsStored
<1>1. Settled /\ Leaving = {} /\ SlotsLeft = {}
  BY DEF CrashIndexInv, PhasesSeparate, Leaving, SlotsLeft
<1>2. Staying = documentDB
  BY <1>1 DEF Staying, TypeInv, TypeOK
<1>3. \A e, op : ~Outstanding(op, e)
  BY <1>1 DEF Settled, Outstanding
<1>4. Known = described /\ (~closing => Complete)
  BY DEF Known, Complete
<1>5. ASSUME NEW e \in Hashes \X Docs
      PROVE  \/ e \in Indexed(documentDB) <=> e \in index
             \/ e \notin index /\ (e[2] \notin described \/ closing)
  <2>1. ExactAt(e) \/ LeftOut(e)
    BY DEF CrashIndexInv, IndexAgrees
  <2> QED
    BY <1>2, <1>3, <1>4, <2>1 DEF ExactAt, LeftOut, Arriving
<1>6. index \subseteq Hashes \X Docs /\ Indexed(documentDB) \subseteq Hashes \X Docs
  BY DEF TypeInv, TypeOK, Indexed
<1> QED
  BY <1>5, <1>6

(* However often the server is killed, once the index is loaded and the    *)
(* processor rests it holds no entry that no stored text has, and all of   *)
(* every document that has its metadata (posting.cc:290-310, queue.cc).    *)
THEOREM KillsKeepIndex == ASSUME Assumptions PROVE CrashSpec => []SettledIndexIsStored
<1>1. CrashInv => TypeInv
  BY DEF CrashInv
<1>2. TypeInv /\ CrashIndexInv => SettledIndexIsStored
  BY CrashIndexSuffices
<1>3. TypeInv /\ TypeInv' /\ CrashIndexInv /\ [CrashNext]_vars => CrashIndexInv'
  BY CrashIndexPreserved
<1> QED
  BY <1>1, <1>2, <1>3, CrashAlways, CrashIndexInitial, PTL DEF CrashSpec

-----------------------------------------------------------------------------
(***************************************************************************)
(* Fifth part.  The queue implements the corpus.                           *)
(***************************************************************************)

(* Jobs.  JobIn is Job with the commands and the payloads as parameters,   *)
(* so that the jobs before a step and after it can be compared.            *)
PrincipalIn(live, c) ==
  IF \E a \in live : a.queue_id = c.queue_id /\ a.action = "AddDocument"
  THEN CHOOSE a \in live : a.queue_id = c.queue_id /\ a.action = "AddDocument"
  ELSE c

TextIn(payloads, c) ==
  IF c.action # "AddDocument" THEN NoText
  ELSE (CHOOSE p \in payloads : p.id = c.payload_id).body

JobIn(live, payloads, c) ==
  [id   |-> PrincipalIn(live, c).queue_id, kind |-> Kind[PrincipalIn(live, c).action],
   doc  |-> PrincipalIn(live, c).doc,      text |-> TextIn(payloads, PrincipalIn(live, c))]

(* What the invariants say of the live commands and the payloads.          *)
Shared(live) ==
  \A c, a \in live : c.queue_id = a.queue_id => c = a \/ MakesRoomFor(c, a) \/ MakesRoomFor(a, c)

Stocked(live, payloads) ==
  /\ \A c \in live : \E p \in payloads : p.id = c.payload_id
  /\ \A p, q \in payloads : p.id = q.id => p = q

LEMMA KindOf ==
  /\ Kind["AddDocument"] = "write" /\ Kind["DropDocument"] = "erase"
  /\ Kind["AddAssociation"] = "link" /\ Kind["AddAssociations"] = "link all"
  /\ Kind["LoadDocuments"] = "load"
  BY DEF Kind

LEMMA JobsIn ==
  /\ \A c : Job(c) = JobIn(Live, payloadDB, c)
  /\ AbstractJobs = {JobIn(Live, payloadDB, c) : c \in Live}
  /\ AbstractCurrent = IF Holding /\ cmd.status # "Finished"
                       THEN JobIn(Live, payloadDB, cmd) ELSE NoCommand
  BY DEF Job, Principal, TextOf, AbstractJobs, AbstractCurrent, JobIn, PrincipalIn, TextIn

LEMMA JobsInNext ==
  /\ AbstractJobs' = {JobIn(Live', payloadDB', c) : c \in Live'}
  /\ AbstractCurrent' = IF Holding' /\ cmd'.status # "Finished"
                        THEN JobIn(Live', payloadDB', cmd') ELSE NoCommand
  BY DEF Job, Principal, TextOf, AbstractJobs, AbstractCurrent, JobIn, PrincipalIn, TextIn

(* The job of a command is that of the addition with its id, if there is   *)
(* one, and else its own.                                                  *)
LEMMA JobOfAddition ==
  ASSUME NEW live, NEW payloads, Shared(live), Stocked(live, payloads),
         NEW c \in live, NEW a \in live, NEW p \in payloads,
         a.queue_id = c.queue_id, a.action = "AddDocument", p.id = a.payload_id
  PROVE  JobIn(live, payloads, c) =
           [id |-> c.queue_id, kind |-> "write", doc |-> c.doc, text |-> p.body]
<1>1. \A b \in live : b.queue_id = c.queue_id /\ b.action = "AddDocument" => b = a
  BY DEF Shared, MakesRoomFor
<1>2. PrincipalIn(live, c) = a
  BY <1>1 DEF PrincipalIn
<1>3. a.doc = c.doc
  BY DEF Shared, MakesRoomFor
<1>4. (CHOOSE q \in payloads : q.id = a.payload_id) = p
  BY DEF Stocked
<1>5. TextIn(payloads, a) = p.body
  BY <1>4 DEF TextIn
<1> QED
  BY <1>2, <1>3, <1>5, KindOf DEF JobIn

LEMMA JobOfOther ==
  ASSUME NEW live, NEW payloads, NEW c \in live,
         \A a \in live : ~(a.queue_id = c.queue_id /\ a.action = "AddDocument")
  PROVE  JobIn(live, payloads, c) =
           [id |-> c.queue_id, kind |-> Kind[c.action], doc |-> c.doc, text |-> NoText]
<1>1. PrincipalIn(live, c) = c /\ c.action # "AddDocument"
  BY DEF PrincipalIn
<1> QED
  BY <1>1 DEF JobIn, TextIn

(* The commands of one set stand for the same jobs as those of the other   *)
(* if each is like one of the other, or is a drop that makes room for an   *)
(* addition there, and their payloads are in both.                         *)
Alike(c, x) ==
  /\ c.queue_id = x.queue_id /\ c.action = x.action
  /\ c.doc = x.doc /\ c.payload_id = x.payload_id

Covers(live2, live1) ==
  \A c \in live1 : \E x \in live2 : Alike(c, x)

Keeps(payloads2, payloads1, live1) ==
  \A c \in live1 : \A p \in payloads1 : p.id = c.payload_id => p \in payloads2

LEMMA JobsAlike ==
  ASSUME NEW live1, NEW pays1, NEW live2, NEW pays2,
         Shared(live1), Stocked(live1, pays1), Shared(live2), Stocked(live2, pays2),
         Covers(live2, live1), Covers(live1, live2), Keeps(pays2, pays1, live1),
         NEW c \in live1, NEW x \in live2, Alike(c, x)
  PROVE  JobIn(live1, pays1, c) = JobIn(live2, pays2, x)
<1>1. CASE \E a \in live1 : a.queue_id = c.queue_id /\ a.action = "AddDocument"
  <2>1. PICK a \in live1 : a.queue_id = c.queue_id /\ a.action = "AddDocument"
    BY <1>1
  <2>2. PICK b \in live2 : Alike(a, b)
    BY DEF Covers
  <2>3. PICK p \in pays1 : p.id = a.payload_id
    BY DEF Stocked
  <2>4. p \in pays2 /\ p.id = b.payload_id /\ b.queue_id = x.queue_id /\ b.action = "AddDocument"
    BY <2>1, <2>2, <2>3 DEF Keeps, Alike
  <2>5. JobIn(live1, pays1, c) =
          [id |-> c.queue_id, kind |-> "write", doc |-> c.doc, text |-> p.body]
    BY <2>1, <2>3, JobOfAddition
  <2>6. JobIn(live2, pays2, x) =
          [id |-> x.queue_id, kind |-> "write", doc |-> x.doc, text |-> p.body]
    BY <2>4, JobOfAddition
  <2> QED
    BY <2>5, <2>6 DEF Alike
<1>2. CASE ~ \E a \in live1 : a.queue_id = c.queue_id /\ a.action = "AddDocument"
  <2>1. \A a \in live2 : ~(a.queue_id = x.queue_id /\ a.action = "AddDocument")
    BY <1>2 DEF Covers, Alike
  <2>2. JobIn(live2, pays2, x) =
          [id |-> x.queue_id, kind |-> Kind[x.action], doc |-> x.doc, text |-> NoText]
    BY <2>1, JobOfOther
  <2>3. JobIn(live1, pays1, c) =
          [id |-> c.queue_id, kind |-> Kind[c.action], doc |-> c.doc, text |-> NoText]
    BY <1>2, JobOfOther
  <2> QED
    BY <2>2, <2>3 DEF Alike
<1> QED
  BY <1>1, <1>2

LEMMA SameJobs ==
  ASSUME NEW live1, NEW pays1, NEW live2, NEW pays2,
         Shared(live1), Stocked(live1, pays1), Shared(live2), Stocked(live2, pays2),
         Covers(live2, live1), Covers(live1, live2), Keeps(pays2, pays1, live1)
  PROVE  {JobIn(live1, pays1, c) : c \in live1} = {JobIn(live2, pays2, x) : x \in live2}
<1>1. ASSUME NEW c \in live1
      PROVE  \E x \in live2 : JobIn(live1, pays1, c) = JobIn(live2, pays2, x)
  <2>1. PICK x \in live2 : Alike(c, x)
    BY DEF Covers
  <2> QED
    BY <2>1, JobsAlike
<1>2. ASSUME NEW x \in live2
      PROVE  \E c \in live1 : JobIn(live1, pays1, c) = JobIn(live2, pays2, x)
  <2>1. PICK c \in live1 : Alike(c, x)
    BY DEF Covers, Alike
  <2> QED
    BY <2>1, JobsAlike
<1> QED
  BY <1>1, <1>2

(* One more command leaves the jobs of the others as they are, unless it   *)
(* is an addition and one of them makes room for it.                       *)
LEMMA OtherJobsStay ==
  ASSUME NEW live, NEW pays, NEW c,
         Shared(live \cup {c}), Stocked(live \cup {c}, pays),
         c.action # "AddDocument" \/ \A x \in live : x.queue_id # c.queue_id,
         NEW x \in live
  PROVE  JobIn(live \cup {c}, pays, x) = JobIn(live, pays, x)
<1>1. Shared(live) /\ Stocked(live, pays)
  BY DEF Shared, Stocked
<1>2. \A a \in live \cup {c} :
        a.queue_id = x.queue_id /\ a.action = "AddDocument" => a \in live
  OBVIOUS
<1>3. CASE \E a \in live : a.queue_id = x.queue_id /\ a.action = "AddDocument"
  <2>1. PICK a \in live : a.queue_id = x.queue_id /\ a.action = "AddDocument"
    BY <1>3
  <2>2. PICK p \in pays : p.id = a.payload_id
    BY <1>1 DEF Stocked
  <2>3. JobIn(live, pays, x) =
          [id |-> x.queue_id, kind |-> "write", doc |-> x.doc, text |-> p.body]
    BY <1>1, <2>1, <2>2, JobOfAddition
  <2>4. JobIn(live \cup {c}, pays, x) =
          [id |-> x.queue_id, kind |-> "write", doc |-> x.doc, text |-> p.body]
    <3>1. a \in live \cup {c} /\ x \in live \cup {c}
      OBVIOUS
    <3> QED
      BY <2>1, <2>2, <3>1, JobOfAddition
  <2> QED
    BY <2>3, <2>4
<1>4. CASE ~ \E a \in live : a.queue_id = x.queue_id /\ a.action = "AddDocument"
  <2>1. JobIn(live, pays, x) =
          [id |-> x.queue_id, kind |-> Kind[x.action], doc |-> x.doc, text |-> NoText]
    BY <1>4, JobOfOther
  <2>2. JobIn(live \cup {c}, pays, x) =
          [id |-> x.queue_id, kind |-> Kind[x.action], doc |-> x.doc, text |-> NoText]
    <3>1. /\ \A a \in live \cup {c} : ~(a.queue_id = x.queue_id /\ a.action = "AddDocument")
          /\ x \in live \cup {c}
      BY <1>2, <1>4
    <3> QED
      BY <3>1, JobOfOther
  <2> QED
    BY <2>1, <2>2
<1> QED
  BY <1>3, <1>4

LEMMA JobsWithAnother ==
  ASSUME NEW live, NEW pays, NEW c,
         Shared(live \cup {c}), Stocked(live \cup {c}, pays),
         c.action # "AddDocument" \/ \A x \in live : x.queue_id # c.queue_id
  PROVE  {JobIn(live \cup {c}, pays, x) : x \in live \cup {c}} =
           {JobIn(live, pays, x) : x \in live} \cup {JobIn(live \cup {c}, pays, c)}
  BY OtherJobsStay

(* A drop that makes room for an addition is no job of its own.            *)
LEMMA RoomIsOneJob ==
  ASSUME NEW live, NEW pays, Shared(live), Stocked(live, pays),
         NEW c \in live, NEW a \in live, a.queue_id = c.queue_id, a.action = "AddDocument"
  PROVE  JobIn(live, pays, c) = JobIn(live, pays, a)
<1>1. PICK p \in pays : p.id = a.payload_id
  BY DEF Stocked
<1>2. a.doc = c.doc
  BY DEF Shared, MakesRoomFor
<1>3. JobIn(live, pays, a) =
        [id |-> a.queue_id, kind |-> "write", doc |-> a.doc, text |-> p.body]
  BY <1>1, JobOfAddition
<1>4. JobIn(live, pays, c) =
        [id |-> c.queue_id, kind |-> "write", doc |-> c.doc, text |-> p.body]
  BY <1>1, JobOfAddition
<1> QED
  BY <1>2, <1>3, <1>4

LEMMA JobType ==
  ASSUME TypeInv, NEW live, live \subseteq Commands,
         NEW pays, pays \subseteq [id : Nat, body : Texts \cup {NoText}],
         Shared(live), Stocked(live, pays), NEW c \in live
  PROVE  JobIn(live, pays, c) \in Abstract!Jobs /\ JobIn(live, pays, c).id = c.queue_id
<1>1. /\ c.queue_id \in Nat /\ c.action \in Actions
      /\ c.doc \in Docs \cup {NoDoc}
  BY DEF Commands, Actions, DocumentActions
<1>2. CASE \E a \in live : a.queue_id = c.queue_id /\ a.action = "AddDocument"
  <2>1. PICK a \in live : a.queue_id = c.queue_id /\ a.action = "AddDocument"
    BY <1>2
  <2>2. PICK p \in pays : p.id = a.payload_id
    BY DEF Stocked
  <2>3. JobIn(live, pays, c) =
          [id |-> c.queue_id, kind |-> "write", doc |-> c.doc, text |-> p.body]
    BY <2>1, <2>2, JobOfAddition
  <2>4. p.body \in Texts \cup {NoText}
    OBVIOUS
  <2> QED
    BY <1>1, <2>3, <2>4 DEF Abstract!Jobs, Abstract!Kinds
<1>3. CASE ~ \E a \in live : a.queue_id = c.queue_id /\ a.action = "AddDocument"
  <2>1. JobIn(live, pays, c) =
          [id |-> c.queue_id, kind |-> Kind[c.action], doc |-> c.doc, text |-> NoText]
    BY <1>3, JobOfOther
  <2>2. Kind[c.action] \in Abstract!Kinds
    BY <1>1, KindOf DEF Abstract!Kinds, Actions, DocumentActions
  <2> QED
    BY <1>1, <2>1, <2>2 DEF Abstract!Jobs
<1> QED
  BY <1>2, <1>3

-----------------------------------------------------------------------------
(* The live commands: the unfinished ones, and the one between its keys.   *)
LiveHand == IF pc = "write" /\ goal # "Finished" THEN {cmd} ELSE {}

LEMMA LiveIs ==
  ASSUME NoCommandIsNull
  PROVE  TypeInv /\ RecordsInv /\ EmptyHanded =>
           /\ Live = Unfinished \cup LiveHand
           /\ Live \subseteq Commands
           /\ Holding <=> ~Resting
           /\ Holding => cmd \in Commands
<1> SUFFICES ASSUME TypeInv, RecordsInv, EmptyHanded
             PROVE  /\ Live = Unfinished \cup LiveHand
                    /\ Live \subseteq Commands
                    /\ Holding <=> ~Resting
                    /\ Holding => cmd \in Commands
  OBVIOUS
<1>1. ~Resting => cmd \in Commands /\ cmd # NoCommand
  <2>1. ~Resting => pc \in InHand \/ (AlteringIndex /\ ready)
    BY DEF Resting, AlteringIndex, TypeInv, TypeOK
  <2>2. ~Resting => cmd \in Commands
    BY <2>1 DEF AlteringIndex, TypeInv, TypeOK, ControlOK
  <2> QED
    BY <2>2 DEF NoCommandIsNull
<1>2. Holding <=> ~Resting
  BY <1>1 DEF Holding, Resting, EmptyHanded, AlteringIndex
<1>3. Holding /\ ~Rewriting => cmd \in queueDB
  BY <1>2 DEF RecordsInv, HandOK, Running
<1>4. Rewriting => Holding /\ cmd.status = goal
  BY <1>2 DEF RecordsInv, HandOK, Resting, Rewriting, AlteringIndex
<1>5. pc = "purge" => goal = "Finished"
  BY DEF RecordsInv, HandOK
<1>6. Live = Unfinished \cup LiveHand
  <2>1. CASE Rewriting
    BY <2>1, <1>4, <1>5 DEF Live, Unfinished, LiveHand, Rewriting
  <2>2. CASE ~Rewriting
    BY <2>2, <1>3 DEF Live, Unfinished, LiveHand, Rewriting
  <2> QED
    BY <2>1, <2>2
<1>7. Live \subseteq Commands
  BY <1>1, <1>2 DEF Live, TypeInv, TypeOK
<1> QED
  BY <1>1, <1>2, <1>6, <1>7

LEMMA EmptyHandedStep ==
  ASSUME Assumptions, TypeInv, EmptyHanded, [Next]_vars
  PROVE  EmptyHanded'
<1> SUFFICES ASSUME Resting', pc' # "fetch"
             PROVE  cmd' = NoCommand
  BY DEF EmptyHanded
<1> USE DEF Resting, AlteringIndex, EmptyHanded
<1>1. CASE \/ \E h \in Handlers : Handle(h)
           \/ \E c \in Creators : Create(c)
           \/ \E s \in Slots : AlterIndex(s)
           \/ Close
           \/ UNCHANGED vars
  <2>1. UNCHANGED <<pc, cmd, ready>>
    BY <1>1 DEF Handle, CreateDocument, CreateAndAssociateDocument, DeleteDocument,
       AssociateDocument, AssociateDocuments, LoadDocuments, Request, Create, SavePayload, SaveKey,
       AssociateCreated, AlterIndex, Close, vars, processing, indexing
  <2> QED
    BY <2>1
<1>2. CASE Tick \/ LoadStored \/ StoredLoaded \/ LeaveQueue
  BY <1>2 DEF Tick, LoadStored, StoredLoaded, LeaveQueue, indexing
<1>3. CASE AddTask \/ ThrottleEnds
  <2>1. UNCHANGED <<cmd, ready>> /\ AlteringIndex /\ (NextSlot \/ pc' = "throttle")
    BY <1>3 DEF AddTask, ThrottleEnds, indexing
  <2> QED
    BY <2>1 DEF NextSlot
<1>4. CASE \/ FetchCommand \/ FinishTasks \/ RemoveKey \/ RemovePayload \/ WriteKey
           \/ FailDocument \/ StoreText \/ DescribeDocument \/ ReplaceDocument \/ RetryLater
           \/ DropMissing \/ DropAssociations \/ EraseText \/ UndescribeDocument
           \/ AddAssociation \/ AddAssociations \/ LoadDocument \/ EndLoad
  <2>1. pc' \notin {"idle", "load", "enqueue", "throttle"} \/ (pc \in InHand /\ UNCHANGED ready)
    BY <1>4 DEF FetchCommand, FinishTasks, RemoveKey, AfterKeyRemoved, RemovePayload, WriteKey,
       FailDocument, StoreText, DescribeDocument, ReplaceDocument, RetryLater, DropMissing,
       DropAssociations, EraseText, UndescribeDocument, AddAssociation, AddAssociations,
       LoadDocument, EndLoad, Executing, Finish, InHand, processing, indexing
  <2>2. pc' \notin {"idle", "load"}
    BY <1>4 DEF FetchCommand, FinishTasks, RemoveKey, AfterKeyRemoved, RemovePayload, WriteKey,
       FailDocument, StoreText, DescribeDocument, ReplaceDocument, RetryLater, DropMissing,
       DropAssociations, EraseText, UndescribeDocument, AddAssociation, AddAssociations,
       LoadDocument, EndLoad, Executing, Finish, processing
  <2>3. pc \in InHand => ready
    BY DEF TypeInv, ControlOK
  <2> QED
    BY <2>1, <2>2, <2>3
<1> QED
  BY <1>1, <1>2, <1>3, <1>4 DEF Next, Process

(* How a step changes the live commands.                                   *)
LEMMA LiveAfter ==
  ASSUME Assumptions, NoCommandIsNull, TypeInv, RecordsInv, EmptyHanded, [Next]_vars
  PROVE  /\ \A k \in Creators : SaveKey(k) => Live' = Live \cup {NewRecord(k)}
         /\ RemoveKey => /\ cmd \in Live
                         /\ Live' = (Live \ {cmd}) \cup (IF goal = "Finished" THEN {} ELSE {cmd'})
         /\ RemoveKey \/ (\E k \in Creators : SaveKey(k)) \/ Live' = Live
<1>1. Live = Unfinished \cup LiveHand
  BY LiveIs
<1>2. Live' = Unfinished' \cup LiveHand'
  <2>1. TypeInv' /\ RecordsInv' /\ EmptyHanded'
    BY StepTyped, RecordsInvStep, EmptyHandedStep
  <2>2. (TypeInv /\ RecordsInv /\ EmptyHanded => Live = Unfinished \cup LiveHand)'
    BY LiveIs, PTL
  <2> QED
    BY <2>1, <2>2
<1>3. ASSUME NEW k \in Creators, SaveKey(k)
      PROVE  Live' = Live \cup {NewRecord(k)}
  BY <1>1, <1>2, <1>3, UnfinishedAfter DEF SaveKey, processing, LiveHand
<1>4. ASSUME RemoveKey
      PROVE  /\ cmd \in Live
             /\ Live' = (Live \ {cmd}) \cup (IF goal = "Finished" THEN {} ELSE {cmd'})
  <2>1. LiveHand = {} /\ LiveHand' = IF goal = "Finished" THEN {} ELSE {cmd'}
    BY <1>4 DEF RemoveKey, AfterKeyRemoved, LiveHand
  <2> QED
    BY <1>1, <1>2, <1>4, <2>1, UnfinishedAfter
<1>5. CASE WriteKey
  <2>1. LiveHand' = {} /\ LiveHand = IF goal = "Finished" THEN {} ELSE {cmd}
    BY <1>5 DEF WriteKey, LiveHand
  <2> QED
    BY <1>1, <1>2, <1>3, <1>4, <1>5, <2>1, UnfinishedAfter
<1>6. CASE \/ StandsStill \/ RestsOn \/ RunsOn
           \/ \E k \in Creators : Draws(k) \/ SavePayload(k)
           \/ FetchCommand \/ FinishTasks \/ RemovePayload \/ ReplaceDocument
  <2>1. UNCHANGED queueDB
    BY <1>6 DEF StandsStill, RestsOn, RunsOn, Draws, SavePayload, FetchCommand, FinishTasks,
       RemovePayload, ReplaceDocument, databases
  <2>2. LiveHand' = LiveHand
    <3>1. pc = "purge" => goal = "Finished"
      BY DEF RecordsInv, HandOK
    <3> QED
      BY <1>6, <3>1 DEF StandsStill, RestsOn, RunsOn, Running, Resting, Rewriting, AlteringIndex, Draws,
         SavePayload, FetchCommand, FinishTasks, RemovePayload, ReplaceDocument, Executing,
         processing, LiveHand
  <2> QED
    BY <1>1, <1>2, <1>3, <1>4, <2>1, <2>2, UnfinishedAfter
<1> QED
  BY <1>3, <1>4, <1>5, <1>6, StepKinds DEF Steps, RecordsInv

LEMMA PayloadSaved ==
  ASSUME TypeInv, NEW k \in Creators, SavePayload(k)
  PROVE  /\ creating'[k].queue_id = creating[k].queue_id
         /\ creating'[k].action = creating[k].action
         /\ creating'[k].doc = creating[k].doc
         /\ creating'[k].payload_id = payloadCounter + 1
         /\ \A l \in Creators \ {k} : creating'[l] = creating[l]
         /\ k \in Drawn \ Queueing
         /\ payloadDB' = payloadDB \cup {[id |-> payloadCounter + 1, body |-> creating[k].body]}
<1>1. creating[k] \in DocumentCreations \cup OtherCreations
  BY CreationsType DEF SavePayload, TypeInv, TypeOK
<1>2. creating' = [creating EXCEPT ![k].step = "key", ![k].payload_id = payloadCounter + 1]
  BY DEF SavePayload
<1>3. creating \in [Creators -> Creations]
  BY DEF TypeInv, TypeOK
<1> QED
  BY <1>1, <1>2, <1>3
  DEF SavePayload, DocumentCreations, OtherCreations, Drawn, Queueing

-----------------------------------------------------------------------------
(* Ids are shared by an addition and its drop only.                        *)
LEMMA IdsSharedStep ==
  ASSUME Assumptions, NoCommandIsNull, TypeInv, RecordsInv, EmptyHanded, IdsShared, [Next]_vars
  PROVE  IdsShared'
<1> USE DEF MakesRoomFor
<1>1. \A c, a \in Live' : c.queue_id = a.queue_id =>
        c = a \/ MakesRoomFor(c, a) \/ MakesRoomFor(a, c)
  <2>1. ASSUME NEW k \in Creators, SaveKey(k), NEW c \in Live,
               c.queue_id = creating[k].queue_id
        PROVE  MakesRoomFor(NewRecord(k), c)
    <3>1. c \in queueDB \/ (~Resting /\ c = cmd)
      BY LiveIs DEF Live
    <3>2. k \in Drawn
      BY <2>1 DEF SaveKey, Drawn
    <3>3. k = Processor /\ Replacing
      BY <2>1, <3>1, <3>2 DEF RecordsInv, IdsOK, Fresh
    <3>4. /\ cmd.action = "AddDocument" /\ cmd \in queueDB /\ cmd \in Live
          /\ creating[k].doc = cmd.doc /\ creating[k].queue_id = cmd.queue_id
          /\ creating[k].action = "DropDocument"
      <4>1. Running /\ cmd.action = "AddDocument"
        BY <3>3 DEF Replacing, Running, Resting, Taken, Rewriting, AlteringIndex, TypeInv, ControlOK
      <4>2. cmd \in queueDB /\ cmd \in Unfinished
        BY <3>3, <4>1 DEF RecordsInv, HandOK, Unfinished
      <4> QED
        BY <3>3, <4>1, <4>2, LiveIs DEF RecordsInv, ProcessorCreates, IdsShared
    <3>5. c \in Unfinished
      BY <3>3, LiveIs DEF LiveHand, Replacing
    <3>6. c.action # "DropDocument"
      BY <2>1, <3>3, <3>4, <3>5 DEF RecordsInv, RecordsOK, NoDropBefore
    <3>7. c = cmd
      BY <2>1, <3>4, <3>6 DEF IdsShared
    <3> QED
      BY <3>4, <3>7 DEF NewRecord
  <2>2. ASSUME NEW k \in Creators, SaveKey(k)
        PROVE  \A c, a \in Live' : c.queue_id = a.queue_id =>
                 c = a \/ MakesRoomFor(c, a) \/ MakesRoomFor(a, c)
    <3>1. Live' = Live \cup {NewRecord(k)} /\ NewRecord(k).queue_id = creating[k].queue_id
      BY <2>2, LiveAfter DEF NewRecord
    <3> HIDE DEF MakesRoomFor
    <3> QED
      BY <2>1, <2>2, <3>1 DEF IdsShared
  <2>3. CASE RemoveKey
    <3>1. cmd \in Commands
      BY <2>3 DEF RemoveKey, TypeInv, TypeOK, InHand
    <3>2. /\ cmd'.queue_id = cmd.queue_id /\ cmd'.action = cmd.action /\ cmd'.doc = cmd.doc
      BY <2>3, <3>1 DEF RemoveKey, Commands
    <3>3. cmd \in Live /\ \A c \in Live' : c \in Live \ {cmd} \/ c = cmd'
      BY <2>3, LiveAfter
    <3> QED
      BY <3>2, <3>3 DEF IdsShared
  <2> QED
    BY <2>2, <2>3, LiveAfter DEF IdsShared
<1>2. Replacing' => creating'[Processor].doc = cmd'.doc
  <2> USE DEF RecordsInv
  <2>1. CASE StandsStill \/ RestsOn \/ RunsOn
    BY <2>1, DrawnAfter DEF StandsStill, RestsOn, RunsOn, Resting, AlteringIndex, databases,
       Replacing, IdsShared
  <2>2. ASSUME NEW k \in Creators, Draws(k)
        PROVE  Replacing' => creating'[Processor].doc = cmd'.doc
    <3>1. PICK r : creating' = [creating EXCEPT ![k] = r]
      BY <2>2 DEF Draws
    <3>2. k = Processor => pc' # "insert"
      BY <2>2 DEF Draws
    <3>3. UNCHANGED <<pc, cmd>> /\ Drawn' = Drawn \cup {k}
      BY <2>2, DrawnAfter DEF Draws
    <3> QED
      BY <3>1, <3>2, <3>3 DEF Replacing, IdsShared, Creators, TypeInv, TypeOK
  <2>3. ASSUME NEW k \in Creators, SavePayload(k)
        PROVE  Replacing' => creating'[Processor].doc = cmd'.doc
    <3>1. UNCHANGED <<pc, cmd>> /\ Drawn' = Drawn
      BY <2>3, DrawnAfter DEF SavePayload, processing
    <3> QED
      BY <2>3, <3>1, PayloadSaved DEF Replacing, IdsShared, Creators
  <2>4. ASSUME NEW k \in Creators, SaveKey(k)
        PROVE  Replacing' => creating'[Processor].doc = cmd'.doc
    <3>1. UNCHANGED <<pc, cmd>> /\ Drawn' = Drawn \ {k}
      BY <2>4, DrawnAfter DEF SaveKey, processing
    <3>2. \A l \in Creators \ {k} : creating'[l] = creating[l]
      BY <2>4 DEF SaveKey, TypeInv, TypeOK
    <3> QED
      BY <3>1, <3>2 DEF Replacing, IdsShared, Creators
  <2>5. CASE FetchCommand \/ FinishTasks \/ RemoveKey \/ RemovePayload \/ WriteKey
    BY <2>5 DEF FetchCommand, FinishTasks, RemoveKey, AfterKeyRemoved, RemovePayload, WriteKey,
       Replacing
  <2>6. CASE ReplaceDocument
    BY <2>6 DEF ReplaceDocument, InsertCommand, StartCommand, Creators, TypeInv, TypeOK
  <2> QED
    BY <2>1, <2>2, <2>3, <2>4, <2>5, <2>6, StepKinds DEF Steps
<1> QED
  BY <1>1, <1>2 DEF IdsShared

-----------------------------------------------------------------------------
(* The texts of additions.                                                 *)

(* What is drawn brings a text along if it is an addition.                 *)
Worded(r) == r.action = "AddDocument" => r.body # NoText

LEMMA DrawnWorded ==
  ASSUME Assumptions, TypeInv, TextsOK, [Next]_vars
  PROVE  \A k \in Drawn' \ Queueing' : Worded(creating'[k])
<1> DEFINE AllWorded == \A l \in Drawn' \ Queueing' : Worded(creating'[l])
<1>0. creating \in [Creators -> Creations]
  BY DEF TypeInv, TypeOK
<1>1. ASSUME NEW k \in Creators, NEW r, creating' = [creating EXCEPT ![k] = r], Worded(r)
      PROVE  AllWorded
  BY <1>0, <1>1 DEF TextsOK, Drawn, Queueing, Worded
<1>2. ASSUME NEW k \in Creators, NEW id, NEW action, NEW doc, NEW body, NEW put,
             creating' = [creating EXCEPT ![k] =
               [step |-> "payload", queue_id |-> id, payload_id |-> 0,
                action |-> action, doc |-> doc, body |-> body, put |-> put]],
             action # "AddDocument" \/ body \in Texts
      PROVE  AllWorded
  <2> DEFINE r == [step |-> "payload", queue_id |-> id, payload_id |-> 0,
                   action |-> action, doc |-> doc, body |-> body, put |-> put]
  <2>1. creating' = [creating EXCEPT ![k] = r]
    BY <1>2
  <2>2. Worded(r)
    BY <1>2 DEF Assumptions, Worded
  <2> HIDE DEF r, AllWorded
  <2> QED
    BY <1>1, <2>1, <2>2
<1> HIDE DEF AllWorded
<1>3. ASSUME NEW h \in Handlers, Handle(h)
      PROVE  AllWorded
  <2>1. ASSUME NEW kind, NEW action, NEW doc, NEW body, NEW put,
               Request(h, kind, action, doc, body, put),
               action # "AddDocument" \/ body \in Texts
        PROVE  AllWorded
    <3>1. h \in Creators
      BY DEF Creators
    <3> QED
      BY <1>2, <2>1, <3>1 DEF Request, CreateCommand, StartCommand
  <2>2. CASE CreateDocument(h) \/ CreateAndAssociateDocument(h)
    BY <2>1, <2>2 DEF CreateDocument, CreateAndAssociateDocument
  <2>3. CASE DeleteDocument(h) \/ AssociateDocument(h)
    BY <2>1, <2>3 DEF DeleteDocument, AssociateDocument
  <2>4. CASE AssociateDocuments(h) \/ LoadDocuments(h)
    BY <2>1, <2>4 DEF AssociateDocuments, LoadDocuments
  <2> QED
    BY <1>3, <2>2, <2>3, <2>4 DEF Handle
<1>4. ASSUME NEW c \in Creators, Create(c)
      PROVE  AllWorded
  <2>1. CASE SavePayload(c)
    <3>1. /\ Drawn' = Drawn /\ Queueing' = Queueing \cup {c}
          /\ \A l \in Creators \ {c} : creating'[l] = creating[l]
      <4>1. creating'[c].step = "key" /\ c \in Drawn /\ c \in Creators
        <5>1. creating[c] \in DocumentCreations \cup OtherCreations
          BY <1>0, <2>1, CreationsType DEF SavePayload
        <5> QED
          BY <1>0, <2>1, <5>1 DEF SavePayload, Drawn, DocumentCreations, OtherCreations
      <4>2. \A l \in Creators \ {c} : creating'[l] = creating[l]
        BY <2>1, PayloadSaved
      <4> QED
        BY <4>1, <4>2 DEF Drawn, Queueing
    <3> QED
      BY <3>1 DEF TextsOK, Drawn, Worded, AllWorded
  <2>2. CASE SaveKey(c)
    <3>1. creating'[c].step \in {"none", "associate"}
      BY <1>0, <2>2 DEF SaveKey, NoCreation
    <3> QED
      BY <1>0, <2>2, <3>1 DEF SaveKey, TextsOK, Drawn, Queueing, Worded, AllWorded
  <2>3. CASE AssociateCreated(c)
    <3> DEFINE r == [step |-> "payload", queue_id |-> queueCounter + 1, payload_id |-> 0,
                     action |-> "AddAssociation", doc |-> creating[c].doc, body |-> NoText,
                     put |-> FALSE]
    <3>1. creating' = [creating EXCEPT ![c] = r]
      BY <2>3 DEF AssociateCreated, CreateCommand, StartCommand
    <3>2. Worded(r)
      BY DEF Worded
    <3> HIDE DEF r
    <3> QED
      BY <1>1, <3>1, <3>2
  <2> QED
    BY <1>4, <2>1, <2>2, <2>3 DEF Create
<1>5. ASSUME ReplaceDocument PROVE AllWorded
  <2> DEFINE r == [step |-> "payload", queue_id |-> cmd.queue_id, payload_id |-> 0,
                   action |-> "DropDocument", doc |-> cmd.doc, body |-> NoText, put |-> FALSE]
  <2>1. creating' = [creating EXCEPT ![Processor] = r]
    BY <1>5 DEF ReplaceDocument, InsertCommand, StartCommand
  <2>2. Worded(r)
    BY DEF Worded
  <2> HIDE DEF r
  <2> QED
    BY <1>1, <2>1, <2>2 DEF Creators
<1>6. ASSUME LoadDocument PROVE AllWorded
  BY <1>2, <1>6 DEF LoadDocument, CreateCommand, StartCommand, Creators
<1>7. CASE UNCHANGED creating
  BY <1>7 DEF TextsOK, Drawn, Queueing, Worded, AllWorded
<1>8. \/ \E h \in Handlers : Handle(h)
      \/ \E c \in Creators : Create(c)
      \/ ReplaceDocument \/ LoadDocument
      \/ UNCHANGED creating
  BY DEF Next, Process, Tick, LoadStored, StoredLoaded, FetchCommand, FinishTasks, LeaveQueue,
     RemoveKey, RemovePayload, WriteKey, AddTask, ThrottleEnds, FailDocument, StoreText,
     DescribeDocument, RetryLater, DropMissing, DropAssociations, EraseText, UndescribeDocument,
     AddAssociation, AddAssociations, EndLoad, AlterIndex, Close, vars
<1> QED
  BY <1>3, <1>4, <1>5, <1>6, <1>7, <1>8 DEF AllWorded

(* The one payload of an addition in hand has a text.                      *)
LEMMA HandPayload ==
  ASSUME TypeInv, RecordsInv, NEW c \in Unfinished
  PROVE  \E p \in payloadDB : p.id = c.payload_id
<1>1. c.payload_id \in {p.id : p \in payloadDB}
  BY DEF RecordsInv, PayloadsOK, PayloadsMatchCommands
<1> QED
  BY <1>1

LEMMA ExecutingLive ==
  ASSUME NoCommandIsNull, TypeInv, RecordsInv, EmptyHanded, Running
  PROVE  cmd \in Unfinished /\ cmd \in Live
  BY LiveIs DEF RecordsInv, HandOK, Unfinished

LEMMA NoneFails ==
  ASSUME Assumptions, NoCommandIsNull, TypeInv, RecordsInv, EmptyHanded, TextsOK
  PROVE  ~FailDocument
<1> SUFFICES ASSUME FailDocument PROVE FALSE
  OBVIOUS
<1>1. Running /\ cmd.action = "AddDocument"
  BY DEF FailDocument, Executing, Running, Resting, Taken, Rewriting, AlteringIndex
<1>2. PICK p \in payloadDB : p.id = cmd.payload_id
  BY <1>1, ExecutingLive, HandPayload
<1>3. p.body # NoText
  BY <1>1, <1>2, ExecutingLive DEF TextsOK, HasText
<1>4. p.body \in PayloadTexts
  BY <1>2, <1>3 DEF PayloadTexts
<1> QED
  BY <1>4 DEF FailDocument

(* A record keeps its text as long as its payload is stored.               *)
LEMMA TextKept ==
  ASSUME TypeInv, NEW r, HasText(r),
         \/ payloadDB' \subseteq payloadDB
         \/ /\ r.payload_id # payloadCounter + 1
            /\ \E b : payloadDB' = payloadDB \cup {[id |-> payloadCounter + 1, body |-> b]}
  PROVE  r.action = "AddDocument" => \A p \in payloadDB' : p.id = r.payload_id => p.body # NoText
  BY DEF HasText

LEMMA TextsStep ==
  ASSUME Assumptions, NoCommandIsNull, TypeInv, RecordsInv, EmptyHanded, TextsOK, [Next]_vars
  PROVE  TextsOK'
<1> DEFINE Has(r) == r.action = "AddDocument" =>
                       \A p \in payloadDB' : p.id = r.payload_id => p.body # NoText
<1> USE DEF RecordsInv
<1>1. goal' # "Failed"
  <2>1. goal' \in {goal, "Active", "Finished", "Queued"}
    BY NoneFails DEF Next, Handle, CreateDocument, CreateAndAssociateDocument, DeleteDocument,
       AssociateDocument, AssociateDocuments, LoadDocuments, Request, Create, SavePayload, SaveKey,
       AssociateCreated, Process, Tick, LoadStored, StoredLoaded, FetchCommand, FinishTasks,
       LeaveQueue, RemoveKey, RemovePayload, WriteKey, AddTask, ThrottleEnds, NextSlot, StoreText,
       DescribeDocument, ReplaceDocument, RetryLater, DropMissing, DropAssociations, EraseText,
       UndescribeDocument, AddAssociation, AddAssociations, LoadDocument, EndLoad, Finish,
       AlterIndex, Close, vars, processing
  <2> QED
    BY <2>1 DEF TextsOK
<1>2. \A k \in Drawn' \ Queueing' : creating'[k].action = "AddDocument" => creating'[k].body # NoText
  BY DrawnWorded DEF Worded
<1>3. /\ \A i : IdUsed(i) => i # payloadCounter + 1
      /\ \A p \in payloadDB : p.id # payloadCounter + 1
  BY IdsOfPayloads DEF PayloadsOK, TypeInv, TypeOK
<1>4. ASSUME NEW k \in Creators, SavePayload(k)
      PROVE  TextsOK'
  <2>1. /\ k \in Drawn \ Queueing
        /\ \A l \in Creators \ {k} : creating'[l] = creating[l]
        /\ creating'[k].action = creating[k].action
        /\ creating'[k].payload_id = payloadCounter + 1
        /\ payloadDB' = payloadDB \cup {[id |-> payloadCounter + 1, body |-> creating[k].body]}
        /\ Queueing' = Queueing \cup {k}
        /\ Live' = Live
    <3>1. ~RemoveKey /\ ~\E l \in Creators : SaveKey(l)
      <4>1. payloadCounter' # payloadCounter
        BY <1>4 DEF SavePayload, TypeInv, TypeOK
      <4> QED
        BY <4>1 DEF RemoveKey, SaveKey
    <3> QED
      BY <1>4, <3>1, PayloadSaved, DrawnAfter, LiveAfter
  <2>2. \A l \in Queueing' : Has(creating'[l])
    <3>1. Has(creating'[k])
      <4>1. creating[k].action = "AddDocument" => creating[k].body # NoText
        BY <2>1 DEF TextsOK
      <4>2. \A p \in payloadDB' : p.id = payloadCounter + 1 => p.body = creating[k].body
        BY <1>3, <2>1
      <4> QED
        BY <2>1, <4>1, <4>2
    <3>2. ASSUME NEW l \in Queueing, l # k PROVE Has(creating'[l])
      <4>1. HasText(creating[l]) /\ IdUsed(creating[l].payload_id) /\ creating'[l] = creating[l]
        BY <2>1, <3>2 DEF TextsOK, IdUsed, Queueing
      <4> QED
        BY <1>3, <2>1, <4>1, TextKept
    <3> QED
      BY <2>1, <3>1, <3>2
  <2>3. \A c \in Live' : Has(c)
    <3>1. ASSUME NEW c \in Live PROVE Has(c)
      <4>1. IdUsed(c.payload_id)
        BY LiveIs DEF LiveHand, IdUsed, InTransit
      <4> QED
        BY <1>3, <2>1, <4>1, TextKept DEF TextsOK
    <3> QED
      BY <2>1, <3>1
  <2>4. \A p, q \in payloadDB' : p.id = q.id => p = q
    BY <1>3, <2>1 DEF TextsOK
  <2> QED
    BY <1>1, <1>2, <2>2, <2>3, <2>4 DEF TextsOK, HasText
<1>5. ASSUME payloadDB' \subseteq payloadDB,
             \A k \in Queueing' : k \in Queueing /\ creating'[k] = creating[k]
      PROVE  TextsOK'
  <2>1. \A k \in Queueing' : Has(creating'[k])
    BY <1>5, TextKept DEF TextsOK
  <2>2. \A c \in Live : Has(c)
    BY <1>5, TextKept DEF TextsOK
  <2>3. \A c \in Live' : Has(c)
    <3>1. ASSUME NEW k \in Creators, SaveKey(k) PROVE Has(NewRecord(k))
      <4>1. k \in Queueing
        BY <3>1 DEF SaveKey, Queueing
      <4>2. Has(creating[k])
        BY <1>5, <4>1, TextKept DEF TextsOK
      <4> QED
        BY <4>2 DEF NewRecord
    <3>2. ASSUME RemoveKey PROVE Has(cmd')
      <4>1. cmd \in Commands
        BY <3>2 DEF RemoveKey, TypeInv, TypeOK, InHand
      <4>2. cmd'.action = cmd.action /\ cmd'.payload_id = cmd.payload_id
        BY <3>2, <4>1 DEF RemoveKey, Commands
      <4> QED
        BY <2>2, <3>2, <4>2, LiveAfter
    <3> QED
      BY <2>2, <3>1, <3>2, LiveAfter
  <2> QED
    BY <1>1, <1>2, <1>5, <2>1, <2>3 DEF TextsOK, HasText
<1>6. ASSUME ~\E k \in Creators : SavePayload(k)
      PROVE  /\ payloadDB' \subseteq payloadDB
             /\ \A k \in Queueing' : k \in Queueing /\ creating'[k] = creating[k]
  <2>1. ASSUME NEW k \in Creators, Draws(k)
        PROVE  \A l \in Queueing' : l \in Queueing /\ creating'[l] = creating[l]
    BY <2>1, DrawnAfter DEF Draws, Drawn, Queueing, TypeInv, TypeOK
  <2>2. ASSUME NEW k \in Creators, SaveKey(k)
        PROVE  \A l \in Queueing' : l \in Queueing /\ creating'[l] = creating[l]
    BY <2>2, DrawnAfter DEF SaveKey, Queueing, TypeInv, TypeOK
  <2>3. ASSUME ReplaceDocument
        PROVE  \A l \in Queueing' : l \in Queueing /\ creating'[l] = creating[l]
    BY <2>3, DrawnAfter DEF ReplaceDocument, InsertCommand, StartCommand, Drawn, Queueing, TypeInv,
       TypeOK
  <2>4. payloadDB' \subseteq payloadDB
    BY <1>6, StepKinds DEF Steps, StandsStill, RestsOn, RunsOn, Draws, SaveKey, FetchCommand,
       FinishTasks, RemoveKey, RemovePayload, WriteKey, ReplaceDocument, databases
  <2>5. \/ \E k \in Creators : Draws(k) \/ SaveKey(k)
        \/ ReplaceDocument
        \/ UNCHANGED creating
    BY <1>6, StepKinds DEF Steps, StandsStill, RestsOn, RunsOn, FetchCommand,
       FinishTasks, RemoveKey, RemovePayload, WriteKey
  <2> QED
    BY <2>1, <2>2, <2>3, <2>4, <2>5, DrawnAfter
<1> QED
  BY <1>4, <1>5, <1>6

-----------------------------------------------------------------------------
(* What a command has done stays done until it is retired.                 *)

(* Most steps are not the processor's: they see it stand still.            *)
Aside ==
  /\ UNCHANGED <<documentDB, described, associationDB, pc, cmd, goal, ready>>
  /\ \A p \in payloadDB' : p \in payloadDB \/ p.id = payloadCounter + 1
  /\ Unfinished' = Unfinished \/ \E k \in Creators : SaveKey(k)

LEMMA StepsAside ==
  ASSUME Assumptions, TypeInv, RecordsInv, [Next]_vars
  PROVE  Aside \/ Process
<1>1. CASE \/ \E h \in Handlers : Handle(h)
           \/ \E s \in Slots : AlterIndex(s)
           \/ Close
           \/ UNCHANGED vars
  <2>1. UNCHANGED <<documentDB, described, associationDB, pc, cmd, goal, ready, queueDB, payloadDB>>
    BY <1>1 DEF Handle, CreateDocument, CreateAndAssociateDocument, DeleteDocument,
       AssociateDocument, AssociateDocuments, LoadDocuments, Request, AlterIndex, Close, vars,
       databases, documents, processing, indexing
  <2> QED
    BY <2>1 DEF Aside, Unfinished
<1>2. ASSUME NEW k \in Creators, Create(k)
      PROVE  Aside
  <2>1. UNCHANGED <<documentDB, described, associationDB, pc, cmd, goal, ready>>
    BY <1>2 DEF Create, SavePayload, SaveKey, AssociateCreated, documents, processing, indexing
  <2>2. UNCHANGED queueDB \/ SaveKey(k)
    BY <1>2 DEF Create, SavePayload, AssociateCreated
  <2>3. \A p \in payloadDB' : p \in payloadDB \/ p.id = payloadCounter + 1
    <3>1. CASE SavePayload(k)
      BY <3>1, PayloadSaved
    <3>2. CASE SaveKey(k) \/ AssociateCreated(k)
      BY <3>2 DEF SaveKey, AssociateCreated
    <3> QED
      BY <1>2, <3>1, <3>2 DEF Create
  <2> QED
    BY <2>1, <2>2, <2>3 DEF Aside, Unfinished
<1> QED
  BY <1>1, <1>2 DEF Next

LEMMA AsideEffects ==
  ASSUME Assumptions, NoCommandIsNull, TypeInv, RecordsInv, EmptyHanded, EffectsOK, DescribedOK,
         Aside
  PROVE  EffectsOK' /\ DescribedOK'
<1>1. /\ UNCHANGED <<documentDB, described, associationDB, pc, cmd, goal, ready>>
      /\ \A p \in payloadDB' : p \in payloadDB \/ p.id = payloadCounter + 1
  BY DEF Aside
<1>2. ASSUME HasStored
      PROVE  /\ cmd.payload_id # payloadCounter + 1
             /\ NoDropBefore => NoDropBefore'
  <2>1. Running /\ pc # "insert"
    BY <1>2, LiveIs DEF HasStored, Effective, Running, Resting, Taken, Rewriting, AlteringIndex,
       TypeInv, ControlOK, InHand
  <2>2. IdUsed(cmd.payload_id)
    BY <2>1, ExecutingLive DEF IdUsed
  <2>3. cmd.payload_id # payloadCounter + 1
    BY <2>2, IdsOfPayloads DEF RecordsInv, TypeInv, TypeOK
  <2>4. ASSUME NEW k \in Creators, SaveKey(k), NoDropBefore
        PROVE  NoDropBefore'
    <3>1. creating[k].queue_id # cmd.queue_id
      BY <2>1, <2>4 DEF SaveKey, Drawn, Fresh, Replacing, RecordsInv, IdsOK, Running
    <3>2. Unfinished' = Unfinished \cup {NewRecord(k)} /\ NewRecord(k).queue_id = creating[k].queue_id
      BY <2>4, UnfinishedAfter DEF NewRecord
    <3> QED
      BY <1>1, <2>4, <3>1, <3>2 DEF NoDropBefore
  <2> QED
    BY <1>1, <2>3, <2>4 DEF Aside, NoDropBefore
<1>3. EffectsOK'
  BY <1>1, <1>2 DEF EffectsOK, HasStored, Effective, AlteringIndex, Matching
<1>4. DescribedOK'
  BY <1>1 DEF DescribedOK
<1> QED
  BY <1>3, <1>4

(* A search of a settled index finds all there is.                         *)
LEMMA FoundAll ==
  ASSUME Assumptions, TypeInv, IndexInv,
         pc = "execute", cmd.action \in {"AddAssociation", "AddAssociations"},
         NEW d \in Docs, NEW e \in Docs, Matching(d, e)
  PROVE  {d, e} \in Found(d)
<1>1. index = Indexed(documentDB)
  BY IndexInvSuffices DEF IndexSettled
<1>2. PICK h \in PostingHashes[documentDB[d]] \cap PostingHashes[documentDB[e]] : TRUE
  BY DEF Matching
<1>3. h \in Hashes
  BY <1>2 DEF Matching, Assumptions, TypeInv, TypeOK
<1>4. <<h, e>> \in index
  BY <1>1, <1>2, <1>3 DEF Indexed, Matching
<1> QED
  BY <1>2, <1>4 DEF Found

(* A step after which the processor has no effect to vouch for.            *)
LEMMA NothingToKeep ==
  ASSUME DescribedOK, UNCHANGED <<documentDB, described>>,
         pc \notin {"describe", "undescribe"},
         ~HasStored', pc' # "undescribe"
  PROVE  EffectsOK' /\ DescribedOK'
  BY DEF EffectsOK, DescribedOK, HasStored

LEMMA EffectsStep ==
  ASSUME Assumptions, NoCommandIsNull, TypeInv, RecordsInv, IndexInv, EmptyHanded, TextsOK,
         EffectsOK, DescribedOK, [Next]_vars
  PROVE  EffectsOK' /\ DescribedOK'
<1> USE DEF Effective, HasStored, AlteringIndex
<1>1. CASE Aside
  BY <1>1, AsideEffects
<1>2. CASE \/ Tick \/ LoadStored \/ StoredLoaded \/ FetchCommand \/ FinishTasks \/ LeaveQueue
           \/ RemoveKey \/ RemovePayload \/ WriteKey \/ ReplaceDocument \/ RetryLater
  <2>1. /\ UNCHANGED <<documentDB, described>>
        /\ pc \notin {"describe", "undescribe"} /\ pc' # "undescribe"
        /\ pc' # "describe"
        /\ pc' \in {"enqueue", "throttle"} => ~ready'
    BY <1>2 DEF Tick, LoadStored, StoredLoaded, FetchCommand, FinishTasks, LeaveQueue,
       RemoveKey, AfterKeyRemoved, RemovePayload, WriteKey, ReplaceDocument, RetryLater, Executing,
       documents, indexing, TypeInv, ControlOK
  <2>2. pc' = "remove" => goal' # "Finished"
    <3>1. pc = "settle" => goal = "Active"
      BY DEF RecordsInv, HandOK, Taken
    <3> QED
      BY <1>2, <3>1 DEF Tick, LoadStored, StoredLoaded, FetchCommand, FinishTasks, LeaveQueue,
         RemoveKey, AfterKeyRemoved, RemovePayload, WriteKey, ReplaceDocument, RetryLater, TextsOK
  <2> QED
    BY <2>1, <2>2, NothingToKeep
<1>3. CASE FailDocument
  BY <1>3, NoneFails
<1>4. CASE AddTask \/ ThrottleEnds
  <2>1. /\ AlteringIndex /\ pc' # "describe" /\ pc' # "undescribe"
        /\ UNCHANGED <<documentDB, described, associationDB, payloadDB, queueDB, cmd, ready>>
        /\ pc' = "throttle" \/ NextSlot
    BY <1>4 DEF AddTask, ThrottleEnds, NextSlot, databases, documents, indexing
  <2>2. pc' = "remove" => ready /\ task.op = "Add"
    BY <2>1 DEF NextSlot
  <2>3. pc' = "remove" => cmd.action = "AddDocument"
    BY <2>1, <2>2 DEF TypeInv, ControlOK
  <2>4. HasStored' => HasStored
    BY <2>1, <2>2
  <2>5. DescribedOK'
    BY <2>1 DEF DescribedOK
  <2> QED
    BY <2>1, <2>3, <2>4, <2>5 DEF EffectsOK, NoDropBefore, Unfinished
<1>5. CASE StoreText
  <2>1. /\ cmd.doc \in Docs /\ cmd.action = "AddDocument" /\ pc = "execute"
        /\ pc' = "describe" /\ cmd' = cmd
        /\ UNCHANGED <<payloadDB, queueDB, described>>
    BY <1>5, ExecutingType DEF StoreText, Executing, DocumentActions, databases
  <2>2. PICK t \in PayloadTexts : documentDB' = [documentDB EXCEPT ![cmd.doc] = t]
    BY <1>5 DEF StoreText
  <2>3. \A p \in payloadDB : p.id = cmd.payload_id => p.body = t
    BY <2>2 DEF PayloadTexts, TextsOK
  <2>4. documentDB'[cmd.doc] = t /\ \A d \in Docs \ {cmd.doc} : documentDB'[d] = documentDB[d]
    BY <2>1, <2>2 DEF TypeInv, TypeOK
  <2>5. NoDropBefore
    BY <2>1 DEF RecordsInv, RecordsOK
  <2>6. EffectsOK'
    BY <2>1, <2>3, <2>4, <2>5 DEF EffectsOK, NoDropBefore, Unfinished
  <2>7. DescribedOK'
    BY <2>1, <2>4 DEF DescribedOK
  <2> QED
    BY <2>6, <2>7
<1>6. CASE DescribeDocument
  <2>1. /\ pc = "describe" /\ pc' = "enqueue" /\ cmd.action = "AddDocument" /\ cmd' = cmd
        /\ UNCHANGED <<documentDB, associationDB, payloadDB, queueDB>>
        /\ described' = described \cup {cmd.doc}
    BY <1>6 DEF DescribeDocument, databases, TypeInv, ControlOK
  <2>2. documentDB[cmd.doc] # NoText
    <3>1. cmd \in Unfinished /\ cmd \in Live
      BY <2>1, ExecutingLive DEF Running, Resting, Taken, Rewriting
    <3>2. PICK p \in payloadDB : p.id = cmd.payload_id
      BY <3>1, HandPayload
    <3> QED
      BY <2>1, <3>1, <3>2 DEF EffectsOK, TextsOK, HasText
  <2>3. EffectsOK'
    BY <2>1 DEF EffectsOK, NoDropBefore, Unfinished
  <2>4. DescribedOK'
    BY <2>1, <2>2 DEF DescribedOK
  <2> QED
    BY <2>3, <2>4
<1>7. CASE DropMissing \/ DropAssociations
  <2>1. /\ UNCHANGED <<documentDB, described, cmd>> /\ cmd.action = "DropDocument"
        /\ pc' = "enqueue" \/ (pc' = "remove" /\ documentDB[cmd.doc] = NoText)
        /\ pc = "execute"
    BY <1>7 DEF DropMissing, DropAssociations, Executing, Finish, documents
  <2> QED
    BY <2>1 DEF EffectsOK, DescribedOK
<1>8. CASE EraseText
  <2>1. /\ cmd.doc \in Docs /\ cmd.action = "DropDocument" /\ pc = "erase" /\ pc' = "undescribe"
        /\ UNCHANGED <<described, cmd>>
        /\ documentDB' = [documentDB EXCEPT ![cmd.doc] = NoText]
    BY <1>8, CommandsType DEF EraseText, TypeInv, TypeOK, ControlOK, InHand, DocumentActions
  <2>2. documentDB'[cmd.doc] = NoText /\ \A d \in Docs \ {cmd.doc} : documentDB'[d] = documentDB[d]
    BY <2>1 DEF TypeInv, TypeOK
  <2> QED
    BY <2>1, <2>2 DEF EffectsOK, DescribedOK
<1>9. CASE UndescribeDocument
  <2>1. /\ cmd.action = "DropDocument" /\ pc = "undescribe" /\ pc' = "remove"
        /\ UNCHANGED <<documentDB, cmd>> /\ described' = described \ {cmd.doc}
    BY <1>9 DEF UndescribeDocument, Finish, TypeInv, ControlOK
  <2> QED
    BY <2>1 DEF EffectsOK, DescribedOK
<1>10. CASE AddAssociation
  <2>1. /\ cmd.action = "AddAssociation" /\ pc = "execute" /\ pc' = "remove" /\ cmd.doc \in Docs
        /\ UNCHANGED <<documentDB, described, cmd>>
        /\ associationDB' = associationDB \cup Found(cmd.doc)
    BY <1>10, ExecutingType DEF AddAssociation, Executing, Finish, DocumentActions
  <2>2. \A e \in Docs : Matching(cmd.doc, e) => {cmd.doc, e} \in associationDB'
    BY <2>1, FoundAll
  <2> QED
    BY <2>1, <2>2 DEF EffectsOK, DescribedOK, Matching
<1>11. CASE AddAssociations
  <2>1. /\ cmd.action = "AddAssociations" /\ pc = "execute" /\ pc' = "remove"
        /\ UNCHANGED <<documentDB, described, cmd>>
        /\ associationDB' = associationDB \cup UNION {Found(d) : d \in described}
    BY <1>11 DEF AddAssociations, Executing, Finish
  <2>2. ASSUME NEW d \in Docs, NEW e \in Docs, Matching(d, e)
        PROVE  {d, e} \in associationDB'
    <3>1. d \in described
      BY <2>1, <2>2 DEF DescribedOK, Matching
    <3>2. {d, e} \in Found(d)
      BY <2>1, <2>2, FoundAll
    <3> QED
      BY <2>1, <3>1, <3>2
  <2> QED
    BY <2>1, <2>2 DEF EffectsOK, DescribedOK, Matching
<1>12. CASE LoadDocument \/ EndLoad
  <2>1. /\ cmd.action = "LoadDocuments" /\ pc = "execute" /\ pc' \in {"execute", "remove"}
        /\ UNCHANGED <<documentDB, described, cmd>>
    BY <1>12 DEF LoadDocument, EndLoad, Executing, Finish, documents, processing
  <2> QED
    BY <2>1 DEF EffectsOK, DescribedOK
<1> QED
  BY <1>1, <1>2, <1>3, <1>4, <1>5, <1>6, <1>7, <1>8, <1>9, <1>10, <1>11, <1>12, StepsAside
  DEF Process

-----------------------------------------------------------------------------
(* All that the mapping to the corpus needs to know.                       *)
QueueInv == TypeInv /\ RecordsInv /\ IndexInv /\ AssociationsOK /\ CorpusInv

LEMMA InitNoJobs == Init => Live = {} /\ ~Holding
  BY DEF Init, Live, Holding

LEMMA InitCorpus ==
  ASSUME Assumptions, Init
  PROVE  QueueInv
<1>1. TypeInv /\ RecordsInv /\ IndexInv
  BY InitTyped, InitRecords, InitIndexed
<1>2. AssociationsOK
  <2>1. \A a \in associationDB : \E p \in Docs \X Docs : a = {p[1], p[2]} /\ Matching(p[1], p[2])
    BY DEF Init
  <2> QED
    BY <2>1 DEF Init, AssociationsOK, AssociationsSound, Dropping
<1>3. Drawn = {} /\ Queueing = {}
  BY DEF Init, NoCreation, Drawn, Queueing
<1>4. CorpusInv
  BY <1>3, InitNoJobs DEF Init, CorpusInv, IdsShared, Replacing, TextsOK, EffectsOK, HasStored,
     Effective, AlteringIndex, DescribedOK, EmptyHanded
<1> QED
  BY <1>1, <1>2, <1>4 DEF QueueInv

LEMMA QueueInvStep ==
  ASSUME Assumptions, NoCommandIsNull, QueueInv, [Next]_vars
  PROVE  QueueInv'
<1> USE DEF QueueInv, CorpusInv
<1>1. TypeInv' /\ RecordsInv' /\ AssociationsOK'
  BY StepTyped, RecordsInvStep, AssociationsStep
<1>2. IndexInv'
  BY <1>1, PhasesStep, IndexFollowsStep, FirstLoadStep DEF IndexInv
<1>3. CorpusInv'
  BY IdsSharedStep, TextsStep, EffectsStep, EmptyHandedStep
<1> QED
  BY <1>1, <1>2, <1>3

LEMMA QueueInvAlways == ASSUME Assumptions, NoCommandIsNull PROVE Spec => []QueueInv
<1>1. Init => QueueInv
  BY InitCorpus
<1>2. QueueInv /\ [Next]_vars => QueueInv'
  BY QueueInvStep
<1> QED
  BY <1>1, <1>2, PTL DEF Spec

-----------------------------------------------------------------------------
(* The mapping to the corpus, step by step.                                *)
Well(live, payloads) ==
  /\ live \subseteq Commands /\ payloads \subseteq [id : Nat, body : Texts \cup {NoText}]
  /\ Shared(live) /\ Stocked(live, payloads)

LEMMA LiveOK ==
  ASSUME NoCommandIsNull
  PROVE  QueueInv =>
           /\ Well(Live, payloadDB)
           /\ Live = Unfinished \cup LiveHand
           /\ Holding <=> ~Resting
           /\ Holding => cmd \in Commands
           /\ Holding /\ cmd.status # "Finished" => cmd \in Live
<1> SUFFICES ASSUME QueueInv
             PROVE  /\ Well(Live, payloadDB)
                    /\ Live = Unfinished \cup LiveHand
                    /\ Holding <=> ~Resting
                    /\ Holding => cmd \in Commands
                    /\ Holding /\ cmd.status # "Finished" => cmd \in Live
  OBVIOUS
<1> USE DEF QueueInv, CorpusInv
<1>1. /\ Live = Unfinished \cup LiveHand
      /\ Live \subseteq Commands
      /\ Holding <=> ~Resting
      /\ Holding => cmd \in Commands
  BY LiveIs
<1>2. Shared(Live)
  BY DEF IdsShared, Shared
<1>3. ASSUME NEW c \in Live
      PROVE  \E p \in payloadDB : p.id = c.payload_id
  <2>1. CASE c \in Unfinished
    BY <2>1, HandPayload
  <2>2. CASE c \notin Unfinished
    <3>1. c.payload_id \in {p.id : p \in payloadDB}
      BY <1>1, <1>3, <2>2 DEF LiveHand, RecordsInv, PayloadsOK, PayloadsMatchCommands
    <3> QED
      BY <3>1
  <2> QED
    BY <2>1, <2>2
<1>4. payloadDB \subseteq [id : Nat, body : Texts \cup {NoText}]
  BY DEF TypeInv, TypeOK
<1> QED
  BY <1>1, <1>2, <1>3, <1>4 DEF Live, Stocked, TextsOK, Well

LEMMA LiveOKNext ==
  ASSUME NoCommandIsNull, QueueInv'
  PROVE  /\ Well(Live', payloadDB')
         /\ Holding' <=> ~Resting'
         /\ Holding' => cmd' \in Commands
         /\ Holding' /\ cmd'.status # "Finished" => cmd' \in Live'
<1>1. (QueueInv =>
           /\ Well(Live, payloadDB)
           /\ Holding <=> ~Resting
           /\ Holding => cmd \in Commands
           /\ Holding /\ cmd.status # "Finished" => cmd \in Live)'
  BY LiveOK, PTL
<1> QED
  BY <1>1

(* A job is in hand exactly while an unfinished command is.                *)
LEMMA CurrentJob ==
  ASSUME NoCommandIsNull, QueueInv, Holding, cmd.status # "Finished"
  PROVE  /\ AbstractCurrent = JobIn(Live, payloadDB, cmd)
         /\ AbstractCurrent # NoCommand
         /\ AbstractCurrent \in AbstractJobs
         /\ AbstractCurrent.id = cmd.queue_id
<1>1. cmd \in Live /\ Well(Live, payloadDB) /\ TypeInv
  BY LiveOK DEF QueueInv
<1>2. JobIn(Live, payloadDB, cmd) \in Abstract!Jobs /\ JobIn(Live, payloadDB, cmd).id = cmd.queue_id
  BY <1>1, JobType DEF Well
<1> QED
  BY <1>1, <1>2, JobsIn DEF NoCommandIsNull

(* Steps that leave the jobs as they are.                                  *)
SameWork == AbstractJobs' = AbstractJobs /\ AbstractCurrent' = AbstractCurrent

LEMMA SameLive ==
  ASSUME NoCommandIsNull, QueueInv, QueueInv', Live' = Live, Keeps(payloadDB', payloadDB, Live)
  PROVE  /\ AbstractJobs' = AbstractJobs
         /\ \A c \in Live : JobIn(Live', payloadDB', c) = JobIn(Live, payloadDB, c)
<1>1. Well(Live, payloadDB) /\ Well(Live', payloadDB')
  BY LiveOK, LiveOKNext
<1>2. Covers(Live', Live) /\ Covers(Live, Live') /\ \A c \in Live : Alike(c, c)
  BY DEF Covers, Alike
<1>3. {JobIn(Live, payloadDB, c) : c \in Live} = {JobIn(Live', payloadDB', x) : x \in Live'}
  BY <1>1, <1>2, SameJobs DEF Well
<1>4. \A c \in Live : JobIn(Live, payloadDB, c) = JobIn(Live', payloadDB', c)
  BY <1>1, <1>2, JobsAlike DEF Well
<1> QED
  BY <1>3, <1>4, JobsIn, JobsInNext

LEMMA SameHand ==
  ASSUME NoCommandIsNull, QueueInv, QueueInv', Live' = Live, Keeps(payloadDB', payloadDB, Live),
         Holding' <=> Holding, Holding => cmd' = cmd
  PROVE  SameWork
<1>1. /\ AbstractJobs' = AbstractJobs
      /\ \A c \in Live : JobIn(Live', payloadDB', c) = JobIn(Live, payloadDB, c)
  BY SameLive
<1>2. Holding /\ cmd.status # "Finished" => cmd \in Live
  BY LiveOK
<1> QED
  BY <1>1, <1>2, JobsIn, JobsInNext DEF SameWork

LEMMA SameQueue ==
  ASSUME Assumptions, NoCommandIsNull, QueueInv, [Next]_vars, UNCHANGED queueDB
  PROVE  Live' = Live
<1> USE DEF QueueInv, CorpusInv
<1>1. ASSUME NEW k \in Creators, SaveKey(k)
      PROVE  Live' = Live
  <2>1. Unfinished = Unfinished \cup {NewRecord(k)}
    BY <1>1, UnfinishedAfter
  <2> QED
    BY <1>1, <2>1, LiveAfter, LiveIs
<1>2. ~RemoveKey
  BY DEF RemoveKey
<1> QED
  BY <1>1, <1>2, LiveAfter

(* Where the command in hand stays in hand and the queue as it is.         *)
LEMMA SameWorkSteps ==
  ASSUME Assumptions, NoCommandIsNull, QueueInv, QueueInv', [Next]_vars,
         \/ StandsStill \/ RestsOn \/ RunsOn \/ FinishTasks \/ ReplaceDocument
         \/ \E k \in Creators : Draws(k) \/ SavePayload(k)
  PROVE  SameWork
<1>1. UNCHANGED queueDB /\ payloadDB \subseteq payloadDB'
  BY DEF StandsStill, RestsOn, RunsOn, Draws, SavePayload, FinishTasks, ReplaceDocument, databases
<1>2. Live' = Live /\ Keeps(payloadDB', payloadDB, Live)
  BY <1>1, SameQueue DEF Keeps
<1>3. (Holding' <=> Holding) /\ (Holding => cmd' = cmd)
  <2>1. (Holding <=> ~Resting) /\ (Holding' <=> ~Resting')
    BY LiveOK, LiveOKNext
  <2>2. CASE RestsOn \/ RunsOn
    BY <2>1, <2>2 DEF RestsOn, RunsOn, Running
  <2>3. CASE StandsStill \/ \E k \in Creators : Draws(k) \/ SavePayload(k)
    BY <2>3 DEF StandsStill, Draws, SavePayload, Holding, processing
  <2>4. CASE FinishTasks \/ ReplaceDocument
    BY <2>4 DEF FinishTasks, ReplaceDocument, Executing, Holding
  <2> QED
    BY <2>2, <2>3, <2>4
<1> QED
  BY <1>2, <1>3, SameHand

(* A payload is removed when no unfinished command has it.                 *)
LEMMA RemovePayloadSame ==
  ASSUME Assumptions, NoCommandIsNull, QueueInv, QueueInv', [Next]_vars, RemovePayload
  PROVE  SameWork
<1>1. Live' = Live
  BY SameQueue DEF RemovePayload
<1>2. Keeps(payloadDB', payloadDB, Live)
  <2>1. Live = Unfinished
    BY LiveOK DEF LiveHand, RemovePayload
  <2>2. \A c \in Unfinished : c.payload_id # cmd.payload_id
    BY DEF QueueInv, RecordsInv, PayloadsOK, InTransit, RemovePayload
  <2> QED
    BY <2>1, <2>2 DEF Keeps, RemovePayload
<1>3. cmd.status = "Finished" /\ cmd'.status = "Finished"
  <2>1. cmd \in Commands /\ cmd.status = goal /\ goal = "Finished"
    BY DEF RemovePayload, QueueInv, RecordsInv, HandOK, Rewriting, TypeInv, TypeOK, InHand
  <2> QED
    BY <2>1 DEF RemovePayload, Commands
<1> QED
  BY <1>1, <1>2, <1>3, SameLive, JobsIn, JobsInNext DEF SameWork

LEMMA WriteKeyWork ==
  ASSUME Assumptions, NoCommandIsNull, QueueInv, QueueInv', [Next]_vars, WriteKey
  PROVE  SameWork \/ (AbstractJobs' = AbstractJobs /\ AbstractCurrent # NoCommand
                        /\ AbstractCurrent' = NoCommand)
<1>1. Live' = Live
  <2>1. ~RemoveKey /\ ~ \E k \in Creators : SaveKey(k)
    <3>1. pc = "write" /\ pc' # "write"
      BY DEF WriteKey
    <3> QED
      BY <3>1 DEF RemoveKey, SaveKey, processing
  <2> QED
    BY <2>1, LiveAfter DEF QueueInv, CorpusInv
<1>2. Keeps(payloadDB', payloadDB, Live)
  BY DEF Keeps, WriteKey
<1>3. Holding /\ cmd' = cmd /\ cmd.status = goal
  BY LiveOK DEF WriteKey, Resting, AlteringIndex, QueueInv, RecordsInv, HandOK, Rewriting
<1>4. CASE goal \notin {"Queued", "Finished"}
  <2>1. Holding'
    BY <1>3, <1>4 DEF Holding, WriteKey
  <2> QED
    BY <1>1, <1>2, <1>3, <2>1, SameHand
<1>5. CASE goal = "Queued"
  <2>1. ~Holding'
    BY <1>5 DEF Holding, WriteKey
  <2> QED
    BY <1>1, <1>2, <1>3, <1>5, <2>1, SameLive, CurrentJob, JobsInNext
<1>6. CASE goal = "Finished"
  BY <1>1, <1>2, <1>3, <1>6, SameLive, JobsIn, JobsInNext DEF SameWork
<1> QED
  BY <1>4, <1>5, <1>6

(* The processor takes the oldest of the queued commands.                  *)
LEMMA FetchBegins ==
  ASSUME Assumptions, NoCommandIsNull, QueueInv, QueueInv', [Next]_vars, FetchCommand
  PROVE  \E j \in AbstractJobs : Abstract!Begin(j)
<1>1. PICK c \in Queued :
        /\ \A x \in Queued : ~Before(x, c)
        /\ cmd' = c
        /\ pc' \in {"remove", "settle"}
  BY DEF FetchCommand
<1>2. /\ ~Holding /\ Live = Unfinished /\ Well(Live, payloadDB) /\ TypeInv
      /\ \A x \in Live : x \in Queued
  <2>1. ~Running /\ pc = "fetch"
    BY DEF FetchCommand, Running, Resting
  <2>2. \A x \in Unfinished : x \in Queued
    BY <2>1 DEF QueueInv, RecordsInv, HandOK, Unfinished, Queued, TypeInv, TypeOK, Commands, Statuses
  <2> QED
    BY <2>1, <2>2, LiveOK DEF Resting, LiveHand, QueueInv
<1>3. c \in Live /\ c.status = "Queued"
  BY <1>2 DEF Queued, Unfinished
<1>4. Live' = Live /\ payloadDB' = payloadDB
  BY SameQueue DEF FetchCommand, databases
<1>5. Holding' /\ cmd' = c
  <2>1. c # NoCommand
    BY <1>2, <1>3 DEF Well, NoCommandIsNull
  <2> QED
    BY <1>1, <2>1 DEF Holding
<1> DEFINE j == JobIn(Live, payloadDB, c)
<1>6. AbstractCurrent = NoCommand /\ AbstractCurrent' = j /\ AbstractJobs' = AbstractJobs
  BY <1>2, <1>3, <1>4, <1>5, JobsIn, JobsInNext
<1>7. \A k \in AbstractJobs : j.id <= k.id
  <2>1. ASSUME NEW x \in Live
        PROVE  j.id <= JobIn(Live, payloadDB, x).id
    <3>1. j.id = c.queue_id /\ JobIn(Live, payloadDB, x).id = x.queue_id
      BY <1>2, <1>3, JobType DEF Well
    <3>2. c.queue_id \in Nat /\ x.queue_id \in Nat
      BY <1>2, <1>3 DEF Well, Commands
    <3>3. ~(x.queue_id < c.queue_id)
      BY <1>1, <1>2 DEF Before
    <3> QED
      BY <3>1, <3>2, <3>3
  <2> HIDE DEF j
  <2> QED
    BY <2>1, JobsIn
<1>8. j \in AbstractJobs
  BY <1>3, JobsIn
<1> HIDE DEF j
<1>9. UNCHANGED <<documentDB, associationDB>>
  BY DEF FetchCommand, documents
<1> QED
  BY <1>6, <1>7, <1>8, <1>9 DEF Abstract!Begin

(* A queued command is a new job, unless it makes room for the one in hand. *)
LEMMA SaveKeySubmits ==
  ASSUME Assumptions, NoCommandIsNull, QueueInv, QueueInv', [Next]_vars,
         NEW k \in Creators, SaveKey(k)
  PROVE  SameWork \/ Abstract!Submit
<1> DEFINE r == NewRecord(k)
<1>1. /\ Live' = Live \cup {r} /\ payloadDB' = payloadDB
      /\ UNCHANGED <<pc, cmd, documentDB, associationDB>>
      /\ r.queue_id = creating[k].queue_id /\ r.action = creating[k].action
  BY LiveAfter DEF SaveKey, QueueInv, CorpusInv, processing, documents, NewRecord
<1>2. Well(Live, payloadDB) /\ Well(Live \cup {r}, payloadDB) /\ TypeInv
  BY <1>1, LiveOK, LiveOKNext DEF QueueInv
<1>3. k \in Drawn
  BY DEF SaveKey, Drawn
<1>4. (Holding' <=> Holding) /\ (Holding /\ cmd.status # "Finished" => cmd \in Live)
  BY <1>1, LiveOK DEF Holding
<1>5. ASSUME r.action # "AddDocument" \/ \A x \in Live : x.queue_id # r.queue_id
      PROVE  /\ AbstractJobs' = AbstractJobs \cup {JobIn(Live \cup {r}, payloadDB, r)}
             /\ AbstractCurrent' = AbstractCurrent
  <2> HIDE DEF r
  <2>1. {JobIn(Live \cup {r}, payloadDB, x) : x \in Live \cup {r}} =
          {JobIn(Live, payloadDB, x) : x \in Live} \cup {JobIn(Live \cup {r}, payloadDB, r)}
    BY <1>2, <1>5, JobsWithAnother DEF Well
  <2>2. \A x \in Live : JobIn(Live \cup {r}, payloadDB, x) = JobIn(Live, payloadDB, x)
    BY <1>2, <1>5, OtherJobsStay DEF Well
  <2>3. AbstractJobs' = AbstractJobs \cup {JobIn(Live \cup {r}, payloadDB, r)}
    BY <1>1, <2>1, JobsIn, JobsInNext
  <2>4. AbstractCurrent' = AbstractCurrent
    BY <1>1, <1>4, <2>2, JobsIn, JobsInNext
  <2> QED
    BY <2>3, <2>4
<1> HIDE DEF r
<1>6. CASE k \in Fresh
  <2>1. \A x \in Live : x.queue_id # r.queue_id
    <3>1. ASSUME NEW x \in Live PROVE x.queue_id # creating[k].queue_id
      <4>1. x \in queueDB \/ (~Resting /\ x = cmd)
        BY LiveOK DEF Live
      <4> QED
        BY <1>6, <4>1 DEF QueueInv, RecordsInv, IdsOK
    <3> QED
      BY <1>1, <3>1
  <2> DEFINE j == JobIn(Live \cup {r}, payloadDB, r)
  <2>2. j \in Abstract!Jobs /\ j.id = r.queue_id
    BY <1>2, JobType DEF Well
  <2>3. \A x \in Live : JobIn(Live, payloadDB, x).id = x.queue_id
    BY <1>2, JobType DEF Well
  <2> HIDE DEF j
  <2>4. \A i \in AbstractJobs : i.id # j.id
    BY <2>1, <2>2, <2>3, JobsIn
  <2>5. AbstractJobs' = AbstractJobs \cup {j} /\ AbstractCurrent' = AbstractCurrent
    BY <1>5, <2>1 DEF j
  <2>6. j \in AbstractJobs' \ AbstractJobs
    BY <2>4, <2>5
  <2> QED
    BY <1>1, <2>2, <2>4, <2>5, <2>6 DEF Abstract!Submit
<1>7. CASE k \notin Fresh
  <2>1. k = Processor /\ Replacing
    BY <1>3, <1>7 DEF Fresh
  <2>2. Running /\ cmd.action = "AddDocument"
    BY <2>1 DEF Replacing, Running, Resting, Taken, Rewriting, AlteringIndex, QueueInv, TypeInv,
       ControlOK
  <2>3. cmd \in Live
    BY <2>2, ExecutingLive DEF QueueInv, CorpusInv
  <2>4. r.queue_id = cmd.queue_id /\ r.action = "DropDocument"
    BY <1>1, <2>1 DEF QueueInv, RecordsInv, ProcessorCreates
  <2>5. JobIn(Live \cup {r}, payloadDB, r) = JobIn(Live \cup {r}, payloadDB, cmd)
    BY <1>2, <2>2, <2>3, <2>4, RoomIsOneJob DEF Well
  <2>6. JobIn(Live \cup {r}, payloadDB, cmd) = JobIn(Live, payloadDB, cmd)
    BY <1>2, <2>3, <2>4, OtherJobsStay DEF Well
  <2>7. JobIn(Live, payloadDB, cmd) \in AbstractJobs
    BY <2>3, JobsIn
  <2> QED
    BY <1>5, <2>4, <2>5, <2>6, <2>7 DEF SameWork
<1> QED
  BY <1>6, <1>7

(* The links a document calls for are the associations it matches.         *)
LEMMA OverlapIsMatching ==
  ASSUME TypeInv, NEW d \in Docs, NEW e \in Docs
  PROVE  Abstract!Overlap(d, e) <=> Matching(d, e)
<1>1. documentDB[d] \in Texts \cup {NoText} /\ documentDB[e] \in Texts \cup {NoText}
  BY DEF TypeInv, TypeOK
<1> QED
  BY <1>1 DEF Abstract!Overlap, Matching, OverlappingTexts

LEMMA LinksAreMatches ==
  ASSUME TypeInv, NEW d \in Docs
  PROVE  Abstract!LinksOf(d) = {{d, e} : e \in {x \in Docs : Matching(d, x)}}
  BY OverlapIsMatching DEF Abstract!LinksOf

(* A command whose effect is there has achieved its job, if its job is all *)
(* its own.                                                                *)
LEMMA EffectiveAchieves ==
  ASSUME Assumptions, NoCommandIsNull, QueueInv, Effective,
         \A x \in Live : x.queue_id = cmd.queue_id => x = cmd
  PROVE  Abstract!Achieved(AbstractCurrent)
<1> USE DEF QueueInv
<1>1. Running
  BY DEF Effective, Running, Resting, Taken, Rewriting, AlteringIndex
<1>2. cmd \in Unfinished /\ cmd \in Live /\ Holding
  BY <1>1, ExecutingLive, LiveOK DEF CorpusInv, Running
<1>3. cmd \in Commands /\ Well(Live, payloadDB) /\ EffectsOK
  BY <1>2, LiveOK DEF CorpusInv
<1>4. AbstractCurrent = JobIn(Live, payloadDB, cmd)
  BY <1>2, CurrentJob DEF Unfinished
<1>5. CASE cmd.action = "AddDocument"
  <2>1. PICK p \in payloadDB : p.id = cmd.payload_id
    BY <1>2, HandPayload
  <2>2. AbstractCurrent =
          [id |-> cmd.queue_id, kind |-> "write", doc |-> cmd.doc, text |-> p.body]
    BY <1>2, <1>3, <1>4, <1>5, <2>1, JobOfAddition DEF Well
  <2>3. documentDB[cmd.doc] = p.body
    BY <1>3, <1>5, <2>1 DEF EffectsOK, HasStored
  <2> QED
    BY <2>2, <2>3 DEF Abstract!Achieved
<1>6. CASE cmd.action # "AddDocument"
  <2>1. AbstractCurrent =
          [id |-> cmd.queue_id, kind |-> Kind[cmd.action], doc |-> cmd.doc, text |-> NoText]
    BY <1>2, <1>4, <1>6, JobOfOther
  <2>2. CASE cmd.action = "DropDocument"
    BY <1>3, <2>1, <2>2, KindOf DEF EffectsOK, Abstract!Achieved
  <2>3. CASE cmd.action = "AddAssociation"
    <3>1. cmd.doc \in Docs
      BY <1>3, <2>3, CommandsType DEF DocumentActions
    <3>2. Abstract!LinksOf(cmd.doc) \subseteq associationDB
      BY <1>3, <2>3, <3>1, LinksAreMatches DEF EffectsOK
    <3> QED
      BY <2>1, <2>3, <3>2, KindOf DEF Abstract!Achieved
  <2>4. CASE cmd.action = "AddAssociations"
    <3>1. \A d \in Docs : Abstract!LinksOf(d) \subseteq associationDB
      BY <1>3, <2>4, LinksAreMatches DEF EffectsOK
    <3> QED
      BY <2>1, <2>4, <3>1, KindOf DEF Abstract!Achieved, Abstract!AllLinks
  <2>5. CASE cmd.action = "LoadDocuments"
    BY <2>1, <2>5, KindOf DEF Abstract!Achieved
  <2> QED
    BY <1>3, <1>6, <2>2, <2>3, <2>4, <2>5 DEF Commands, Actions, DocumentActions
<1> QED
  BY <1>5, <1>6

(* A command that changes its status stands for the same job; a finished   *)
(* one retires its job, or leaves it to the addition that it made room for. *)
LEMMA RemoveKeyWork ==
  ASSUME Assumptions, NoCommandIsNull, QueueInv, QueueInv', [Next]_vars, RemoveKey
  PROVE  SameWork \/ Abstract!Suspend \/ Abstract!Retire
<1>1. /\ pc = "remove" /\ cmd \in Commands /\ cmd' = [cmd EXCEPT !.status = goal]
      /\ UNCHANGED <<payloadDB, documentDB, associationDB>>
      /\ pc' \in {"purge", "write"}
  BY DEF RemoveKey, AfterKeyRemoved, documents, QueueInv, TypeInv, TypeOK, InHand
<1>2. /\ cmd \in Live
      /\ Live' = (Live \ {cmd}) \cup (IF goal = "Finished" THEN {} ELSE {cmd'})
  BY LiveAfter DEF QueueInv, CorpusInv
<1>3. cmd.status # "Finished"
  BY <1>2 DEF Live
<1>4. /\ Well(Live, payloadDB) /\ Well(Live', payloadDB) /\ TypeInv
      /\ Holding
  BY <1>1, LiveOK, LiveOKNext, NoCommandIsNull DEF QueueInv, Holding, NoCommandIsNull
<1>5. /\ AbstractCurrent = JobIn(Live, payloadDB, cmd) /\ AbstractCurrent # NoCommand
      /\ AbstractCurrent \in AbstractJobs /\ AbstractCurrent.id = cmd.queue_id
  BY <1>3, <1>4, CurrentJob
<1>6. CASE goal # "Finished"
  <2>1. cmd' \in Live' /\ cmd'.status # "Finished"
    BY <1>1, <1>2, <1>6 DEF Commands
  <2>2. Alike(cmd, cmd')
    BY <1>1 DEF Alike, Commands
  <2>3. Live' = (Live \ {cmd}) \cup {cmd'}
    BY <1>2, <1>6
  <2>4. /\ Covers(Live', Live) /\ Covers(Live, Live') /\ Keeps(payloadDB, payloadDB, Live)
    BY <1>2, <2>2, <2>3 DEF Covers, Keeps, Alike
  <2>5. Holding'
    BY <1>1, <1>4, <2>1 DEF Holding, Well, NoCommandIsNull
  <2>6. JobIn(Live, payloadDB, cmd) = JobIn(Live', payloadDB, cmd')
    BY <1>2, <1>4, <2>1, <2>2, <2>4, JobsAlike DEF Well
  <2>7. {JobIn(Live, payloadDB, c) : c \in Live} = {JobIn(Live', payloadDB, x) : x \in Live'}
    BY <1>4, <2>4, SameJobs DEF Well
  <2> QED
    BY <1>1, <1>5, <2>1, <2>5, <2>6, <2>7, JobsIn, JobsInNext DEF SameWork
<1>7. CASE goal = "Finished"
  <2>1. Live' = Live \ {cmd} /\ Live = Live' \cup {cmd}
    BY <1>2, <1>7
  <2>2. AbstractCurrent' = NoCommand
    <3>1. cmd'.status = "Finished"
      BY <1>1, <1>7 DEF Commands
    <3> QED
      BY <3>1, JobsInNext
  <2>3. ASSUME cmd.action # "AddDocument" \/ \A x \in Live' : x.queue_id # cmd.queue_id
        PROVE  AbstractJobs = AbstractJobs' \cup {AbstractCurrent}
    <3> DEFINE live == Live'
    <3>1. Live = live \cup {cmd}
      BY <2>1
    <3>2. /\ AbstractJobs' = {JobIn(live, payloadDB, x) : x \in live}
          /\ cmd.action # "AddDocument" \/ \A x \in live : x.queue_id # cmd.queue_id
      BY <1>1, <2>3, JobsInNext
    <3> HIDE DEF live
    <3>3. {JobIn(live \cup {cmd}, payloadDB, x) : x \in live \cup {cmd}} =
            {JobIn(live, payloadDB, x) : x \in live} \cup {JobIn(live \cup {cmd}, payloadDB, cmd)}
      BY <1>4, <3>1, <3>2, JobsWithAnother DEF Well
    <3> QED
      BY <1>5, <3>1, <3>2, <3>3, JobsIn
  <2>4. CASE \A x \in Live : x.queue_id = cmd.queue_id => x = cmd
    <3>1. AbstractJobs = AbstractJobs' \cup {AbstractCurrent}
      BY <2>1, <2>3, <2>4
    <3>2. AbstractCurrent \notin AbstractJobs'
      <4>1. \A x \in Live' : JobIn(Live', payloadDB, x).id = x.queue_id
        BY <1>4, JobType DEF Well
      <4>2. \A i \in AbstractJobs' : i.id # cmd.queue_id
        <5> DEFINE live == Live'
        <5>1. /\ AbstractJobs' = {JobIn(live, payloadDB, x) : x \in live}
              /\ \A x \in live : JobIn(live, payloadDB, x).id # cmd.queue_id
          BY <1>1, <2>1, <2>4, <4>1, JobsInNext
        <5> HIDE DEF live
        <5> QED
          BY <5>1
      <4> QED
        BY <1>5, <4>2
    <3>3. Abstract!Achieved(AbstractCurrent)
      BY <1>1, <1>7, <2>4, EffectiveAchieves DEF Effective
    <3> QED
      BY <1>1, <1>5, <2>2, <3>1, <3>2, <3>3 DEF Abstract!Retire
  <2>5. CASE \E x \in Live : x.queue_id = cmd.queue_id /\ x # cmd
    <3>1. PICK a \in Live : a.queue_id = cmd.queue_id /\ a # cmd
      BY <2>5
    <3>2. cmd.action = "DropDocument" /\ a.action = "AddDocument"
      <4>1. MakesRoomFor(cmd, a) \/ MakesRoomFor(a, cmd)
        BY <1>2, <1>4, <3>1 DEF Well, Shared
      <4>2. ASSUME cmd.action = "AddDocument", a.action = "DropDocument"
            PROVE  FALSE
        <5>1. NoDropBefore
          BY <1>1, <1>7, <4>2 DEF QueueInv, CorpusInv, EffectsOK, HasStored, Effective
        <5>2. a \in Unfinished
          BY <1>1, LiveOK DEF LiveHand
        <5> QED
          BY <3>1, <4>2, <5>1, <5>2 DEF NoDropBefore
      <4> QED
        BY <4>1, <4>2 DEF MakesRoomFor
    <3>3. AbstractJobs = AbstractJobs' \cup {AbstractCurrent}
      BY <2>3, <3>2
    <3>4. AbstractCurrent \in AbstractJobs'
      <4>1. AbstractCurrent = JobIn(Live, payloadDB, a)
        BY <1>2, <1>4, <1>5, <3>1, <3>2, RoomIsOneJob DEF Well
      <4>2. JobIn(Live' \cup {cmd}, payloadDB, a) = JobIn(Live', payloadDB, a)
        <5> DEFINE live == Live'
        <5>1. a \in live /\ Live = live \cup {cmd}
          BY <2>1, <3>1
        <5> HIDE DEF live
        <5>2. JobIn(live \cup {cmd}, payloadDB, a) = JobIn(live, payloadDB, a)
          BY <1>4, <3>2, <5>1, OtherJobsStay DEF Well
        <5> QED
          BY <5>2 DEF live
      <4> QED
        BY <1>1, <2>1, <3>1, <4>1, <4>2, JobsInNext
    <3> QED
      BY <1>1, <1>5, <2>2, <3>3, <3>4 DEF Abstract!Suspend
  <2> QED
    BY <2>4, <2>5
<1> QED
  BY <1>6, <1>7

(* The job of the command that runs.                                       *)
LEMMA HandJob ==
  ASSUME NoCommandIsNull, QueueInv, Running
  PROVE  /\ AbstractCurrent # NoCommand
         /\ AbstractCurrent.doc = cmd.doc
         /\ cmd.action = "AddDocument" =>
              /\ AbstractCurrent.kind = "write"
              /\ \A p \in payloadDB : p.id = cmd.payload_id => AbstractCurrent.text = p.body
         /\ cmd.action = "DropDocument" => AbstractCurrent.kind \in {"write", "erase"}
         /\ cmd.action \notin {"AddDocument", "DropDocument"} =>
              AbstractCurrent.kind = Kind[cmd.action]
<1>1. cmd \in Live /\ cmd \in Unfinished /\ Holding /\ Well(Live, payloadDB)
  BY ExecutingLive, LiveOK DEF QueueInv, CorpusInv, Running
<1>2. AbstractCurrent = JobIn(Live, payloadDB, cmd) /\ AbstractCurrent # NoCommand
  BY <1>1, CurrentJob DEF Unfinished
<1>3. CASE \E a \in Live : a.queue_id = cmd.queue_id /\ a.action = "AddDocument"
  <2>1. PICK a \in Live : a.queue_id = cmd.queue_id /\ a.action = "AddDocument"
    BY <1>3
  <2>2. PICK q \in payloadDB : q.id = a.payload_id
    BY <1>1 DEF Well, Stocked
  <2>3. AbstractCurrent =
          [id |-> cmd.queue_id, kind |-> "write", doc |-> cmd.doc, text |-> q.body]
    BY <1>1, <1>2, <2>1, <2>2, JobOfAddition DEF Well
  <2>4. a = cmd \/ cmd.action = "DropDocument"
    BY <1>1, <2>1 DEF Well, Shared, MakesRoomFor
  <2> QED
    BY <1>1, <1>2, <2>1, <2>2, <2>3, <2>4 DEF Well, Stocked
<1>4. CASE ~ \E a \in Live : a.queue_id = cmd.queue_id /\ a.action = "AddDocument"
  <2>1. AbstractCurrent =
          [id |-> cmd.queue_id, kind |-> Kind[cmd.action], doc |-> cmd.doc, text |-> NoText]
    BY <1>1, <1>2, <1>4, JobOfOther
  <2>2. cmd.action # "AddDocument"
    BY <1>1, <1>4
  <2>3. AbstractCurrent.doc = cmd.doc /\ AbstractCurrent.kind = Kind[cmd.action]
    BY <2>1
  <2>4. cmd.action = "DropDocument" => AbstractCurrent.kind \in {"write", "erase"}
    BY <2>3, KindOf
  <2> QED
    BY <1>2, <2>2, <2>3, <2>4
<1> QED
  BY <1>3, <1>4

(* What a command does to the texts and the links is what its job may do.  *)
LEMMA StoreTextWrites ==
  ASSUME Assumptions, NoCommandIsNull, QueueInv, StoreText, SameWork
  PROVE  Abstract!Write
<1>1. Running /\ cmd.action = "AddDocument"
  BY DEF StoreText, Executing, Running, Resting, Taken, Rewriting, AlteringIndex
<1>2. PICK p \in payloadDB : p.id = cmd.payload_id /\ documentDB' = [documentDB EXCEPT ![cmd.doc] = p.body]
  BY DEF StoreText, PayloadTexts
<1>3. documentDB[cmd.doc] = NoText /\ UNCHANGED associationDB
  BY DEF StoreText
<1>4. /\ AbstractCurrent # NoCommand /\ AbstractCurrent.kind = "write"
      /\ AbstractCurrent.doc = cmd.doc /\ AbstractCurrent.text = p.body
  BY <1>1, <1>2, HandJob
<1> QED
  BY <1>2, <1>3, <1>4 DEF Abstract!Write, SameWork

LEMMA DropUnlinks ==
  ASSUME Assumptions, NoCommandIsNull, QueueInv, DropAssociations, SameWork
  PROVE  Abstract!Unlink
<1>1. Running /\ cmd.action = "DropDocument"
  BY DEF DropAssociations, Executing, Running, Resting, Taken, Rewriting, AlteringIndex
<1>2. /\ documentDB[cmd.doc] # NoText /\ UNCHANGED documentDB
      /\ associationDB' = {l \in associationDB : cmd.doc \notin l}
  BY DEF DropAssociations, RemainingAssociations
<1>3. /\ AbstractCurrent # NoCommand /\ AbstractCurrent.kind \in {"write", "erase"}
      /\ AbstractCurrent.doc = cmd.doc
  BY <1>1, HandJob
<1> QED
  BY <1>2, <1>3 DEF Abstract!Unlink, SameWork

LEMMA EraseTextErases ==
  ASSUME Assumptions, NoCommandIsNull, QueueInv, EraseText, SameWork
  PROVE  Abstract!Erase
<1>1. Running /\ cmd.action = "DropDocument" /\ Dropping
  BY DEF EraseText, Running, Resting, Taken, Rewriting, AlteringIndex, Dropping, QueueInv, TypeInv,
     ControlOK, InHand
<1>2. /\ documentDB' = [documentDB EXCEPT ![cmd.doc] = NoText] /\ UNCHANGED associationDB
      /\ \A l \in associationDB : cmd.doc \notin l
  BY <1>1 DEF EraseText, QueueInv, AssociationsOK
<1>3. /\ AbstractCurrent # NoCommand /\ AbstractCurrent.kind \in {"write", "erase"}
      /\ AbstractCurrent.doc = cmd.doc
  BY <1>1, HandJob
<1> QED
  BY <1>2, <1>3 DEF Abstract!Erase, SameWork

LEMMA FoundIsLinks ==
  ASSUME Assumptions, QueueInv, pc = "execute",
         cmd.action \in {"AddAssociation", "AddAssociations"}, NEW d \in Docs
  PROVE  Found(d) = Abstract!LinksOf(d)
<1>1. ASSUME NEW e \in Docs, Matching(d, e) PROVE {d, e} \in Found(d)
  BY <1>1, FoundAll DEF QueueInv
<1>2. \A a \in Found(d) : \E e \in Docs : a = {d, e} /\ Matching(d, e)
  BY FoundMatches
<1>3. Abstract!LinksOf(d) = {{d, e} : e \in {x \in Docs : Matching(d, x)}}
  BY LinksAreMatches DEF QueueInv
<1> QED
  BY <1>1, <1>2, <1>3

LEMMA AssociationsLink ==
  ASSUME Assumptions, NoCommandIsNull, QueueInv, AddAssociation \/ AddAssociations, SameWork
  PROVE  Abstract!Link
<1>1. Running /\ pc = "execute" /\ cmd.action \in {"AddAssociation", "AddAssociations"}
  BY DEF AddAssociation, AddAssociations, Executing, Running, Resting, Taken, Rewriting,
     AlteringIndex
<1>2. /\ AbstractCurrent # NoCommand /\ AbstractCurrent.kind = Kind[cmd.action]
      /\ AbstractCurrent.doc = cmd.doc
  BY <1>1, HandJob
<1>3. CASE AddAssociation
  <2>1. /\ cmd.action = "AddAssociation" /\ cmd.doc \in Docs
        /\ associationDB' = associationDB \cup Found(cmd.doc) /\ UNCHANGED documentDB
    BY <1>3, ExecutingType DEF AddAssociation, Executing, QueueInv, DocumentActions
  <2>2. Found(cmd.doc) = Abstract!LinksOf(cmd.doc)
    BY <1>1, <2>1, FoundIsLinks
  <2> QED
    BY <1>2, <2>1, <2>2, KindOf DEF Abstract!Link, SameWork
<1>4. CASE AddAssociations
  <2>1. /\ cmd.action = "AddAssociations" /\ UNCHANGED documentDB
        /\ associationDB' = associationDB \cup UNION {Found(d) : d \in described}
    BY <1>4 DEF AddAssociations, Executing
  <2>2. \A d \in Docs : Found(d) = Abstract!LinksOf(d)
    BY <1>1, FoundIsLinks
  <2>3. described \subseteq Docs
    BY DEF QueueInv, TypeInv, TypeOK
  <2>4. ASSUME NEW d \in Docs, NEW a \in Found(d)
        PROVE  d \in described
    <3>1. documentDB[d] # NoText
      BY <2>4, FoundMatches DEF Matching
    <3> QED
      BY <1>1, <3>1 DEF QueueInv, CorpusInv, DescribedOK
  <2>5. UNION {Found(d) : d \in described} = Abstract!AllLinks
    BY <2>2, <2>3, <2>4 DEF Abstract!AllLinks
  <2> QED
    BY <1>2, <2>1, <2>5, KindOf DEF Abstract!Link, SameWork
<1> QED
  BY <1>3, <1>4

LEMMA TextSteps ==
  ASSUME [Next]_vars
  PROVE  \/ UNCHANGED <<documentDB, associationDB>>
         \/ StoreText \/ DropAssociations \/ EraseText \/ AddAssociation \/ AddAssociations
BY DEF Next, Handle, CreateDocument, CreateAndAssociateDocument, DeleteDocument,
   AssociateDocument, AssociateDocuments, LoadDocuments, Request, Create, SavePayload, SaveKey,
   AssociateCreated, Process, Tick, LoadStored, StoredLoaded, FetchCommand, FinishTasks,
   LeaveQueue, RemoveKey, RemovePayload, WriteKey, AddTask, ThrottleEnds, FailDocument,
   DescribeDocument, ReplaceDocument, RetryLater, DropMissing, UndescribeDocument,
   LoadDocument, EndLoad, AlterIndex, Close, vars, documents

LEMMA QueueStep ==
  ASSUME Assumptions, NoCommandIsNull, QueueInv, QueueInv', [Next]_vars
  PROVE  [Abstract!Next]_Abstract!corpus
<1>1. CASE StoreText \/ DropAssociations \/ EraseText \/ AddAssociation \/ AddAssociations
  <2>1. RunsOn
    BY <1>1, ExecutionRunsOn DEF QueueInv, RecordsInv
  <2>2. SameWork
    BY <2>1, SameWorkSteps
  <2> QED
    BY <1>1, <2>2, StoreTextWrites, DropUnlinks, EraseTextErases, AssociationsLink
    DEF Abstract!Next
<1>2. CASE UNCHANGED <<documentDB, associationDB>>
  <2>1. SameWork => UNCHANGED Abstract!corpus
    BY <1>2 DEF SameWork, Abstract!corpus
  <2>2. CASE WriteKey
    <3>1. ASSUME AbstractJobs' = AbstractJobs, AbstractCurrent # NoCommand, AbstractCurrent' = NoCommand
          PROVE  Abstract!Suspend
      BY <1>2, <3>1 DEF Abstract!Suspend
    <3> QED
      BY <2>1, <2>2, <3>1, WriteKeyWork DEF Abstract!Next
  <2>3. CASE RemoveKey
    BY <2>1, <2>3, RemoveKeyWork DEF Abstract!Next
  <2>4. CASE FetchCommand
    BY <2>4, FetchBegins DEF Abstract!Next
  <2>5. CASE RemovePayload
    BY <2>1, <2>5, RemovePayloadSame
  <2>6. CASE \E k \in Creators : SaveKey(k)
    BY <2>1, <2>6, SaveKeySubmits DEF Abstract!Next
  <2>7. CASE \/ StandsStill \/ RestsOn \/ RunsOn \/ FinishTasks \/ ReplaceDocument
             \/ \E k \in Creators : Draws(k) \/ SavePayload(k)
    BY <2>1, <2>7, SameWorkSteps
  <2> QED
    BY <2>2, <2>3, <2>4, <2>5, <2>6, <2>7, StepKinds DEF Steps, QueueInv, RecordsInv
<1> QED
  BY <1>1, <1>2, TextSteps

LEMMA InitIsCorpus ==
  ASSUME Assumptions, Init
  PROVE  Abstract!Init
<1>1. AbstractJobs = {} /\ AbstractCurrent = NoCommand
  BY InitNoJobs DEF AbstractJobs, AbstractCurrent
<1>2. documentDB \in [Docs -> Texts \cup {NoText}] /\ TypeInv
  BY InitTyped DEF Init
<1>3. associationDB \subseteq Abstract!AllLinks
  <2>1. ASSUME NEW a \in associationDB
        PROVE  \E d, e \in Docs : a = {d, e} /\ Matching(d, e)
    BY DEF Init
  <2>2. ASSUME NEW d \in Docs, NEW e \in Docs, Matching(d, e)
        PROVE  {d, e} \in Abstract!LinksOf(d)
    BY <1>2, <2>2, LinksAreMatches
  <2> QED
    BY <2>1, <2>2 DEF Abstract!AllLinks
<1> QED
  BY <1>1, <1>2, <1>3 DEF Abstract!Init

(* The queue keeps its promise to its clients, whatever the threads, the   *)
(* documents, their texts and the slots: every behaviour of the server is  *)
(* one of the corpus (queue.cc processQueue, command.cc, document.cc).     *)
THEOREM QueueIsCorpus == ASSUME Assumptions, NoCommandIsNull PROVE Spec => ImplementsCorpus
<1>1. Init => Abstract!Init
  BY InitIsCorpus
<1>2. QueueInv /\ QueueInv' /\ [Next]_vars => [Abstract!Next]_Abstract!corpus
  BY QueueStep
<1>3. Spec => []QueueInv
  BY QueueInvAlways
<1> QED
  BY <1>1, <1>2, <1>3, PTL DEF Spec, ImplementsCorpus, Abstract!Spec

-----------------------------------------------------------------------------
(* One client, whose requests come one after the other.                    *)
LEMMA LoadStaysOut ==
  ASSUME Assumptions, NoCommandIsNull, OneClient, QueueInv, NoLoads, [Next]_vars
  PROVE  NoLoads'
<1> DEFINE Out == \A l \in Drawn' : creating'[l].action # "LoadDocuments"
<1>0. creating \in [Creators -> Creations] /\ TypeInv /\ ProcessorCreates
  BY DEF QueueInv, TypeInv, TypeOK, RecordsInv
<1>1. ASSUME NEW k \in Creators, NEW r, creating' = [creating EXCEPT ![k] = r],
             r.action # "LoadDocuments"
      PROVE  Out
  BY <1>0, <1>1 DEF NoLoads, Drawn
<1> HIDE DEF Out
<1>2. ASSUME NEW k \in Creators, NEW id, NEW action, NEW doc, NEW body, NEW put,
             creating' = [creating EXCEPT ![k] =
               [step |-> "payload", queue_id |-> id, payload_id |-> 0,
                action |-> action, doc |-> doc, body |-> body, put |-> put]],
             action # "LoadDocuments"
      PROVE  Out
  <2> DEFINE r == [step |-> "payload", queue_id |-> id, payload_id |-> 0,
                   action |-> action, doc |-> doc, body |-> body, put |-> put]
  <2>1. creating' = [creating EXCEPT ![k] = r] /\ r.action # "LoadDocuments"
    BY <1>2
  <2> HIDE DEF r
  <2> QED
    BY <1>1, <2>1
<1>3. ASSUME NEW h \in Handlers, Handle(h)
      PROVE  Out
  <2>1. ASSUME NEW kind, NEW action, NEW doc, NEW body, NEW put,
               Request(h, kind, action, doc, body, put), action # "LoadDocuments"
        PROVE  Out
    <3>1. h \in Creators
      BY DEF Creators
    <3> QED
      BY <1>2, <2>1, <3>1 DEF Request, CreateCommand, StartCommand
  <2>2. ~LoadDocuments(h)
    BY DEF LoadDocuments, Request, OneClient
  <2>3. CASE CreateDocument(h) \/ CreateAndAssociateDocument(h)
    BY <2>1, <2>3 DEF CreateDocument, CreateAndAssociateDocument
  <2>4. CASE DeleteDocument(h) \/ AssociateDocument(h) \/ AssociateDocuments(h)
    BY <2>1, <2>4 DEF DeleteDocument, AssociateDocument, AssociateDocuments
  <2> QED
    BY <1>3, <2>2, <2>3, <2>4 DEF Handle
<1>4. ASSUME NEW c \in Creators, Create(c)
      PROVE  Out
  <2>1. CASE SavePayload(c)
    BY <1>0, <2>1, PayloadSaved, DrawnAfter DEF NoLoads, Drawn, Out
  <2>2. CASE SaveKey(c)
    BY <1>0, <2>2, DrawnAfter DEF SaveKey, NoLoads, Drawn, Out
  <2>3. CASE AssociateCreated(c)
    BY <1>2, <2>3 DEF AssociateCreated, CreateCommand, StartCommand
  <2> QED
    BY <1>4, <2>1, <2>2, <2>3 DEF Create
<1>5. ASSUME ReplaceDocument PROVE Out
  BY <1>2, <1>5 DEF ReplaceDocument, InsertCommand, StartCommand, Creators
<1>6. ~LoadDocument
  <2>1. pc = "execute" => cmd \in Commands
    BY <1>0 DEF TypeInv, TypeOK, InHand
  <2> QED
    BY <2>1 DEF LoadDocument, Executing, NoLoads
<1>7. ASSUME UNCHANGED creating PROVE Out
  BY <1>0, <1>7, DrawnAfter DEF NoLoads, Out
<1>8. Out
  <2>1. \/ \E h \in Handlers : Handle(h)
        \/ \E c \in Creators : Create(c)
        \/ ReplaceDocument \/ LoadDocument
        \/ UNCHANGED creating
    BY DEF Next, Process, Tick, LoadStored, StoredLoaded, FetchCommand, FinishTasks, LeaveQueue,
       RemoveKey, RemovePayload, WriteKey, AddTask, ThrottleEnds, FailDocument, StoreText,
       DescribeDocument, RetryLater, DropMissing, DropAssociations, EraseText, UndescribeDocument,
       AddAssociation, AddAssociations, EndLoad, AlterIndex, Close, vars
  <2> QED
    BY <1>3, <1>4, <1>5, <1>6, <1>7, <2>1
<1>9. cmd' \in Commands => cmd'.action # "LoadDocuments"
  <2>1. UNCHANGED cmd \/ FetchCommand \/ LeaveQueue \/ RemoveKey \/ RemovePayload
    BY DEF Next, Handle, CreateDocument, CreateAndAssociateDocument, DeleteDocument,
       AssociateDocument, AssociateDocuments, LoadDocuments, Request, Create, SavePayload, SaveKey,
       AssociateCreated, Process, Tick, LoadStored, StoredLoaded, FinishTasks,
       WriteKey, AddTask, ThrottleEnds, FailDocument, StoreText,
       DescribeDocument, ReplaceDocument, RetryLater, DropMissing, DropAssociations, EraseText,
       UndescribeDocument, AddAssociation, AddAssociations, LoadDocument, EndLoad, AlterIndex,
       Close, vars, processing
  <2>2. CASE FetchCommand
    BY <2>2 DEF FetchCommand, Queued, NoLoads
  <2>3. CASE LeaveQueue
    BY <2>3 DEF LeaveQueue, NoCommandIsNull
  <2>4. CASE RemoveKey \/ RemovePayload
    <3>1. cmd \in Commands
      BY <1>0, <2>4 DEF RemoveKey, RemovePayload, TypeInv, TypeOK, InHand
    <3> QED
      BY <2>4, <3>1 DEF RemoveKey, RemovePayload, NoLoads, Commands
  <2> QED
    BY <2>1, <2>2, <2>3, <2>4 DEF NoLoads
<1>10. \A c \in queueDB' : c.action # "LoadDocuments"
  <2>1. ASSUME NEW k \in Creators, SaveKey(k)
        PROVE  \A c \in queueDB' : c.action # "LoadDocuments"
    <3>1. queueDB' = queueDB \cup {NewRecord(k)} /\ k \in Drawn
      BY <1>0, <2>1, KeySaved, DrawnAfter DEF QueueInv, RecordsInv
    <3> QED
      BY <3>1 DEF NewRecord, NoLoads
  <2>2. CASE WriteKey
    <3>1. queueDB' = queueDB \cup {cmd} /\ cmd \in Commands
      BY <1>0, <2>2, KeyWritten DEF QueueInv, RecordsInv, WriteKey, TypeInv, TypeOK, InHand
    <3> QED
      BY <3>1 DEF NoLoads
  <2>3. CASE RemoveKey
    BY <2>3 DEF RemoveKey, NoLoads
  <2>4. UNCHANGED queueDB \/ RemoveKey \/ WriteKey \/ \E k \in Creators : SaveKey(k)
    BY <1>0, StepKinds DEF Steps, QueueInv, RecordsInv, StandsStill, RestsOn, RunsOn, Draws,
       SavePayload, FetchCommand, FinishTasks, RemovePayload, ReplaceDocument, databases
  <2> QED
    BY <2>1, <2>2, <2>3, <2>4 DEF NoLoads
<1> QED
  BY <1>8, <1>9, <1>10 DEF NoLoads, Out

(* Then the request threads alone draw queue ids.                          *)
LEMMA FreshHandlers ==
  ASSUME Assumptions, NoCommandIsNull
  PROVE  QueueInv /\ NoLoads =>
           /\ Fresh = Drawn \cap Handlers
           /\ Processor \in Drawn => Replacing
<1> SUFFICES ASSUME QueueInv, NoLoads
             PROVE  /\ Fresh = Drawn \ {Processor}
                    /\ Processor \in Drawn => Replacing
  BY DEF Drawn, Creators, Assumptions
<1>1. pc = "execute" => cmd \in Commands
  BY DEF QueueInv, TypeInv, TypeOK, InHand
<1>2. Processor \in Drawn => Replacing
  BY <1>1 DEF NoLoads, QueueInv, RecordsInv, ProcessorCreates, Replacing
<1> QED
  BY <1>2 DEF Fresh

LEMMA DrawnLastStep ==
  ASSUME Assumptions, NoCommandIsNull, OneClient, QueueInv, QueueInv', NoLoads, NoLoads',
         DrawnLast, [Next]_vars
  PROVE  DrawnLast'
<1> USE DEF DrawnLast
<1>1. Fresh = Drawn \cap Handlers /\ (Processor \in Drawn => Replacing)
  BY FreshHandlers
<1>2. Fresh' = Drawn' \cap Handlers
  <2>1. (QueueInv /\ NoLoads => Fresh = Drawn \cap Handlers /\ (Processor \in Drawn => Replacing))'
    BY FreshHandlers, PTL
  <2> QED
    BY <2>1
<1>3. /\ TypeInv /\ ProcessorCreates /\ creating \in [Creators -> Creations]
      /\ Processor \in Creators /\ Processor \notin Handlers /\ Handlers \subseteq Creators
  BY DEF QueueInv, TypeInv, TypeOK, RecordsInv, Creators, Assumptions
<1>4. ASSUME UNCHANGED queueCounter, Drawn' \cap Handlers \subseteq Drawn,
             \A k \in Drawn' \cap Handlers : creating'[k].queue_id = creating[k].queue_id
      PROVE  DrawnLast'
  BY <1>1, <1>2, <1>4
<1>5. ASSUME NEW k \in Creators, Draws(k)
      PROVE  DrawnLast'
  <2>1. k # Processor
    <3>1. pc = "execute" => cmd \in Commands
      BY <1>3 DEF TypeInv, TypeOK, InHand
    <3> QED
      BY <1>5, <3>1 DEF Draws, NoLoads
  <2>2. k \in Handlers /\ Drawn' = Drawn \cup {k} /\ k \notin Drawn
    BY <1>3, <1>5, <2>1, DrawnAfter DEF Draws, Creators
  <2>3. creating'[k].queue_id = queueCounter + 1 /\ queueCounter' = queueCounter + 1
    BY <1>3, <1>5 DEF Draws
  <2>4. Drawn' \cap Handlers = {k}
    BY <2>2 DEF OneClient
  <2> QED
    BY <1>2, <2>3, <2>4
<1>6. ASSUME NEW k \in Creators, SavePayload(k)
      PROVE  DrawnLast'
  <2>1. Drawn' = Drawn /\ \A l \in Drawn : creating'[l].queue_id = creating[l].queue_id
    BY <1>3, <1>6, DrawnAfter, PayloadSaved DEF Drawn
  <2> QED
    BY <1>4, <1>6, <2>1 DEF SavePayload
<1>7. ASSUME NEW k \in Creators, SaveKey(k)
      PROVE  DrawnLast'
  <2>1. Drawn' = Drawn \ {k} /\ \A l \in Creators \ {k} : creating'[l] = creating[l]
    BY <1>3, <1>7, DrawnAfter DEF SaveKey
  <2>2. \A l \in Drawn' \cap Handlers : creating'[l].queue_id = creating[l].queue_id
    BY <1>3, <2>1
  <2> QED
    BY <1>4, <1>7, <2>1, <2>2 DEF SaveKey
<1>8. ASSUME ReplaceDocument
      PROVE  DrawnLast'
  <2>1. /\ Drawn' = Drawn \cup {Processor} /\ UNCHANGED queueCounter
        /\ \A l \in Creators \ {Processor} : creating'[l] = creating[l]
    BY <1>3, <1>8, DrawnAfter DEF ReplaceDocument, InsertCommand, StartCommand
  <2>2. Drawn' \cap Handlers \subseteq Drawn /\ \A l \in Drawn' \cap Handlers : creating'[l] = creating[l]
    BY <1>3, <2>1
  <2> QED
    BY <1>4, <2>1, <2>2
<1>9. ASSUME UNCHANGED <<queueCounter, creating>>
      PROVE  DrawnLast'
  BY <1>3, <1>4, <1>9, DrawnAfter
<1>10. \/ UNCHANGED <<queueCounter, creating>>
       \/ \E k \in Creators : Draws(k) \/ SavePayload(k) \/ SaveKey(k)
       \/ ReplaceDocument
  BY <1>3, StepKinds DEF Steps, QueueInv, RecordsInv, StandsStill, RestsOn, RunsOn, FetchCommand,
     FinishTasks, RemoveKey, RemovePayload, WriteKey, databases
<1> QED
  BY <1>5, <1>6, <1>7, <1>8, <1>9, <1>10

(* The finished commands.                                                  *)
LEMMA CompletedAfter ==
  ASSUME Assumptions, TypeInv, RecordsInv, [Next]_vars
  PROVE  /\ WriteKey => Completed' = Completed \cup (IF goal = "Finished" THEN {cmd} ELSE {})
         /\ WriteKey \/ Completed' = Completed
<1> USE DEF RecordsInv, Completed
<1>1. ASSUME WriteKey
      PROVE  Completed' = Completed \cup (IF goal = "Finished" THEN {cmd} ELSE {})
  <2>1. cmd.status = goal
    BY <1>1 DEF WriteKey, HandOK, Rewriting
  <2> QED
    BY <1>1, <2>1, KeyWritten
<1>2. ASSUME NEW k \in Creators, SaveKey(k) PROVE Completed' = Completed
  <2>1. queueDB' = queueDB \cup {NewRecord(k)} /\ NewRecord(k).status = "Queued"
    BY <1>2, KeySaved DEF NewRecord
  <2> QED
    BY <2>1
<1>3. ASSUME RemoveKey PROVE Completed' = Completed
  BY <1>3, UnfinishedAfter DEF RemoveKey, Unfinished
<1>4. UNCHANGED queueDB \/ RemoveKey \/ WriteKey \/ \E k \in Creators : SaveKey(k)
  BY StepKinds DEF Steps, StandsStill, RestsOn, RunsOn, Draws,
     SavePayload, FetchCommand, FinishTasks, RemovePayload, ReplaceDocument, databases
<1> QED
  BY <1>1, <1>2, <1>3, <1>4

(* Where a running command goes on, it does not come from a change of its  *)
(* status, and it leaves an inserted drop behind only to be queued again.  *)
LEMMA GoesOn ==
  ASSUME Assumptions, TypeInv, [Next]_vars, RunsOn
  PROVE  \/ StandsStill
         \/ /\ pc # "remove"
            /\ pc = "insert" => pc' = "remove" /\ goal' = "Queued"
<1>1. CASE \/ \E h \in Handlers : Handle(h)
           \/ \E c \in Creators : Create(c)
           \/ \E s \in Slots : AlterIndex(s)
           \/ Close
           \/ UNCHANGED vars
  <2>1. UNCHANGED <<pc, cmd, goal, ready>>
    BY <1>1 DEF Handle, CreateDocument, CreateAndAssociateDocument, DeleteDocument,
       AssociateDocument, AssociateDocuments, LoadDocuments, Request, Create, SavePayload, SaveKey,
       AssociateCreated, AlterIndex, Close, vars, processing, indexing
  <2> QED
    BY <2>1 DEF RunsOn, StandsStill
<1>2. CASE Process
  <2>1. ~RemoveKey
    BY DEF RemoveKey, RunsOn, databases
  <2> QED
    BY <1>2, <2>1 DEF Process, Tick, LoadStored, StoredLoaded, FetchCommand, FinishTasks, LeaveQueue,
       RemovePayload, WriteKey, AddTask, ThrottleEnds, FailDocument, StoreText,
       DescribeDocument, ReplaceDocument, RetryLater, DropMissing, DropAssociations, EraseText,
       UndescribeDocument, AddAssociation, AddAssociations, LoadDocument, EndLoad, Executing
<1> QED
  BY <1>1, <1>2 DEF Next

(* A document that is to be replaced has not been dropped by a finished    *)
(* drop with the addition's id: that one would show.                       *)
LEMMA NoSecondDrop ==
  ASSUME Assumptions, QueueInv, InOrder, LastWriteShows, ReplaceDocument
  PROVE  \A c \in Completed : c.queue_id # cmd.queue_id
<1> SUFFICES ASSUME NEW c \in Completed, c.queue_id = cmd.queue_id
             PROVE  FALSE
  OBVIOUS
<1>1. pc = "execute" /\ cmd.action = "AddDocument" /\ documentDB[cmd.doc] # NoText
  BY DEF ReplaceDocument, Executing
<1>2. /\ Held = {cmd} /\ cmd \in Commands /\ Completed \subseteq Commands
      /\ ~HasWritten
  BY <1>1 DEF Held, Resting, AlteringIndex, HasWritten, HasStored, Effective, Ending, Completed,
     QueueInv, TypeInv, TypeOK, InHand
<1>3. \A x \in Completed : Precedes(x, cmd)
  BY <1>2 DEF InOrder
<1>4. c.queue_id \in Nat /\ \A x \in Completed : x.queue_id \in Nat
  BY <1>2 DEF Commands
<1>5. c.action = "DropDocument" /\ c.doc = cmd.doc
  BY <1>3, <1>4 DEF Precedes, MakesRoomFor
<1>6. \A x \in Completed : ~Before(c, x)
  BY <1>3, <1>4, <1>5 DEF Precedes, MakesRoomFor, Before, Priority
<1> QED
  BY <1>1, <1>2, <1>5, <1>6 DEF LastWriteShows, IsWrite, Shows

(* Finished commands come before those that are not, the one in hand       *)
(* before those in the queue.                                              *)
LEMMA InOrderSame ==
  ASSUME InOrder, UNCHANGED <<Completed, Unfinished>>,
         Held' = Held \/ Held' = {}, Held' # {} => cmd' = cmd,
         Foremost' => Foremost, pc' = "insert" => pc = "insert" /\ cmd' = cmd
  PROVE  InOrder'
<1> USE DEF InOrder, Precedes, MakesRoomFor
<1>1. \A c \in Completed' : \A x \in (Unfinished \cup Held)' : Precedes(c, x)
  OBVIOUS
<1>2. Foremost' => cmd' = cmd
  BY DEF Foremost, Held
<1> QED
  BY <1>1, <1>2

LEMMA InOrderStep ==
  ASSUME Assumptions, NoCommandIsNull, OneClient, QueueInv, QueueInv', ClientInv, [Next]_vars
  PROVE  InOrder'
<1>0. /\ TypeInv /\ RecordsInv /\ CorpusInv
      /\ NoLoads /\ DrawnLast /\ InOrder /\ LastWriteShows
      /\ queueCounter \in Nat
      /\ Unfinished \subseteq Commands /\ Completed \subseteq Commands
      /\ pc \in InHand => cmd \in Commands
  BY DEF ClientInv, QueueInv, TypeInv, TypeOK, Unfinished, Completed
<1> USE DEF Resting, AlteringIndex
<1>1. ASSUME UNCHANGED queueDB
      PROVE  UNCHANGED <<Completed, Unfinished>>
  BY <1>1 DEF Completed, Unfinished
<1>2. ASSUME NEW k \in Creators, StandsStill \/ Draws(k) \/ SavePayload(k)
      PROVE  InOrder'
  <2>1. UNCHANGED <<queueDB, pc, cmd, goal, ready>>
    BY <1>2 DEF StandsStill, Draws, SavePayload, databases, processing, indexing
  <2> QED
    BY <1>0, <1>1, <2>1, InOrderSame DEF Held, Foremost
<1>3. ASSUME RestsOn PROVE InOrder'
  BY <1>0, <1>1, <1>3, InOrderSame DEF RestsOn, Held, Foremost, databases
<1>4. ASSUME RunsOn PROVE InOrder'
  <2>1. UNCHANGED <<queueDB, cmd>> /\ ~Resting /\ ~Resting' /\ pc' # "insert"
    BY <1>4 DEF RunsOn, Running, databases
  <2>2. StandsStill \/ (Foremost' => Foremost)
    BY <1>0, <1>4, <2>1, GoesOn DEF Foremost, RunsOn, Running, Rewriting
  <2>3. StandsStill => InOrder'
    BY <1>2 DEF Creators
  <2> QED
    BY <1>0, <1>1, <2>1, <2>2, <2>3, InOrderSame DEF Held
<1>5. ASSUME FinishTasks PROVE InOrder'
  <2>1. UNCHANGED <<queueDB, cmd, goal>> /\ pc = "settle" /\ pc' = "remove"
    BY <1>5 DEF FinishTasks, databases
  <2> QED
    BY <1>0, <1>1, <2>1, InOrderSame DEF Held, Foremost
<1>6. ASSUME FetchCommand PROVE InOrder'
  <2>1. PICK c \in Queued :
          /\ \A x \in Queued : ~Before(x, c)
          /\ cmd' = c
          /\ pc' \in {"remove", "settle"}
    BY <1>6 DEF FetchCommand
  <2>2. /\ UNCHANGED <<Completed, Unfinished>> /\ Held' = {c} /\ c \in Unfinished
        /\ \A x \in Unfinished : x \in Queued
    <3>1. ~Running
      BY <1>6 DEF FetchCommand, Running
    <3> QED
      BY <1>0, <1>1, <1>6, <2>1, <3>1
      DEF FetchCommand, Held, Queued, Unfinished, databases, RecordsInv, HandOK, Commands, Statuses
  <2>3. ASSUME NEW x \in Unfinished, x # c
        PROVE  Precedes(c, x)
    <3>1. c.queue_id \in Nat /\ x.queue_id \in Nat
      BY <1>0, <2>2 DEF Commands
    <3>2. ~Before(x, c)
      BY <2>1, <2>2
    <3>3. c.queue_id = x.queue_id => MakesRoomFor(c, x) \/ MakesRoomFor(x, c)
      BY <1>0, <2>2, <2>3, LiveIs DEF CorpusInv, IdsShared
    <3>4. MakesRoomFor(x, c) /\ c.queue_id = x.queue_id => Before(x, c)
      BY DEF MakesRoomFor, Before, Priority
    <3> QED
      BY <3>1, <3>2, <3>3, <3>4 DEF Before, Precedes
  <2>4. \A y \in Completed : \A x \in Unfinished : Precedes(y, x)
    BY <1>0 DEF InOrder
  <2> HIDE DEF Resting, AlteringIndex
  <2>5. \A y \in Completed' : \A x \in Unfinished' \cup Held' : Precedes(y, x)
    BY <2>2, <2>4
  <2>6. \A x \in Unfinished' \ {cmd'} : Precedes(cmd', x)
    BY <2>1, <2>2, <2>3
  <2> QED
    BY <2>1, <2>5, <2>6 DEF InOrder
<1>7. ASSUME RemoveKey PROVE InOrder'
  <2>1. /\ cmd \in Commands /\ cmd' = [cmd EXCEPT !.status = goal]
        /\ pc = "remove" /\ pc' \in {"purge", "write"}
        /\ pc' = "purge" => goal = "Finished"
        /\ goal' = goal
    BY <1>0, <1>7 DEF RemoveKey, AfterKeyRemoved, InHand
  <2>2. /\ cmd'.queue_id = cmd.queue_id /\ cmd'.action = cmd.action /\ cmd'.doc = cmd.doc
        /\ Unfinished' = Unfinished \ {cmd} /\ Completed' = Completed
        /\ Held = {cmd} /\ Held' = {cmd'}
        /\ Foremost' => Foremost
    <3>1. Unfinished' = Unfinished \ {cmd} /\ Completed' = Completed
      BY <1>0, <1>7, <2>1, UnfinishedAfter, CompletedAfter DEF WriteKey
    <3> QED
      BY <2>1, <3>1 DEF Commands, Held, Foremost
  <2>3. \A x : /\ Precedes(cmd', x) <=> Precedes(cmd, x)
               /\ Precedes(x, cmd') <=> Precedes(x, cmd)
    BY <2>2 DEF Precedes, MakesRoomFor
  <2> HIDE DEF Resting, AlteringIndex
  <2> QED
    BY <1>0, <2>1, <2>2, <2>3 DEF InOrder
<1>8. ASSUME RemovePayload PROVE InOrder'
  <2>1. /\ cmd \in Commands /\ cmd' = [cmd EXCEPT !.payload_id = 0]
        /\ pc = "purge" /\ pc' = "write" /\ goal' = goal /\ goal = "Finished"
        /\ UNCHANGED queueDB
    BY <1>0, <1>8 DEF RemovePayload, InHand, RecordsInv, HandOK
  <2>2. /\ cmd'.queue_id = cmd.queue_id /\ cmd'.action = cmd.action /\ cmd'.doc = cmd.doc
        /\ UNCHANGED <<Completed, Unfinished>>
        /\ Held = {cmd} /\ Held' = {cmd'} /\ Foremost
        /\ cmd \notin Unfinished
    BY <1>0, <1>1, <2>1 DEF Commands, Held, Foremost, RecordsInv, RecordsOK, Rewriting, Like
  <2>3. \A x : /\ Precedes(cmd', x) <=> Precedes(cmd, x)
               /\ Precedes(x, cmd') <=> Precedes(x, cmd)
    BY <2>2 DEF Precedes, MakesRoomFor
  <2> HIDE DEF Resting, AlteringIndex
  <2> QED
    BY <1>0, <2>1, <2>2, <2>3 DEF InOrder
<1>9. ASSUME WriteKey PROVE InOrder'
  <2>1. /\ pc = "write" /\ cmd' = cmd /\ Held = {cmd} /\ cmd \notin Unfinished
        /\ Unfinished' = Unfinished \cup (IF goal = "Finished" THEN {} ELSE {cmd})
        /\ Completed' = Completed \cup (IF goal = "Finished" THEN {cmd} ELSE {})
    BY <1>0, <1>9, UnfinishedAfter, CompletedAfter
    DEF WriteKey, Held, RecordsInv, RecordsOK, Rewriting, Like
  <2>2. /\ \A c \in Completed : \A x \in Unfinished \cup {cmd} : Precedes(c, x)
        /\ Foremost => \A x \in Unfinished : Precedes(cmd, x)
    BY <1>0, <2>1 DEF InOrder
  <2>3. CASE goal = "Finished"
    <3>1. pc' = "fetch" /\ Foremost /\ Held' = {}
      BY <1>9, <2>1, <2>3 DEF WriteKey, Foremost, Held
    <3> QED
      BY <2>1, <2>2, <2>3, <3>1 DEF InOrder, Foremost
  <2>4. CASE goal # "Finished"
    <3>1. pc' # "insert" /\ (Held' = {} \/ Held' = {cmd}) /\ (Foremost' => Foremost)
      BY <1>9, <2>1, <2>4 DEF WriteKey, Foremost, Held
    <3> HIDE DEF Resting, AlteringIndex
    <3> QED
      BY <2>1, <2>2, <2>4, <3>1 DEF InOrder
  <2> QED
    BY <2>3, <2>4
<1>10. ASSUME NEW k \in Creators, SaveKey(k) PROVE InOrder'
  <2> DEFINE r == NewRecord(k)
  <2>1. /\ Unfinished' = Unfinished \cup {r} /\ Completed' = Completed
        /\ UNCHANGED <<pc, cmd, goal, ready>> /\ Held' = Held /\ (Foremost' <=> Foremost)
        /\ r.queue_id = creating[k].queue_id /\ r.action = creating[k].action
        /\ k \in Drawn
    <3>1. UNCHANGED <<pc, cmd, goal, ready>> /\ ~WriteKey
      BY <1>10 DEF SaveKey, processing, indexing, WriteKey
    <3> QED
      BY <1>0, <1>10, <3>1, UnfinishedAfter, CompletedAfter, DrawnAfter
      DEF Held, Foremost, NewRecord, RecordsInv
  <2> HIDE DEF r
  <2>2. ASSUME \A c \in Completed : c.queue_id < r.queue_id,
               Foremost => cmd.queue_id < r.queue_id
        PROVE  InOrder'
    <3>1. (\A c \in Completed : Precedes(c, r)) /\ (Foremost => Precedes(cmd, r))
      BY <2>2 DEF Precedes
    <3> HIDE DEF Resting, AlteringIndex
    <3> QED
      BY <1>0, <2>1, <3>1 DEF InOrder
  <2>3. CASE k \in Fresh
    <3>1. r.queue_id = queueCounter
      BY <1>0, <2>1, <2>3 DEF DrawnLast
    <3>2. \A c \in Completed : c.queue_id <= queueCounter /\ c.queue_id # queueCounter /\ c.queue_id \in Nat
      BY <1>0, <2>1, <2>3, <3>1 DEF RecordsInv, IdsOK, Completed, Commands
    <3>3. ~Resting => cmd.queue_id <= queueCounter /\ cmd.queue_id # queueCounter /\ cmd.queue_id \in Nat
      <4>1. ~Resting => cmd \in Commands
        BY LiveOK DEF QueueInv
      <4> QED
        BY <1>0, <2>1, <2>3, <3>1, <4>1 DEF RecordsInv, IdsOK, Commands
    <3> QED
      BY <1>0, <2>2, <3>1, <3>2, <3>3 DEF Foremost
  <2>4. CASE k \notin Fresh
    <3>1. Replacing /\ k = Processor
      BY <2>1, <2>4 DEF Fresh
    <3>2. pc = "insert" /\ ~Foremost /\ Held = {cmd} /\ r.queue_id = cmd.queue_id
      BY <1>0, <2>1, <3>1 DEF Replacing, Foremost, Held, RecordsInv, ProcessorCreates
    <3>3. \A c \in Completed : c.queue_id < cmd.queue_id
      BY <1>0, <3>2 DEF InOrder, Precedes
    <3> QED
      BY <2>2, <3>2, <3>3
  <2> QED
    BY <2>3, <2>4
<1>11. ASSUME ReplaceDocument PROVE InOrder'
  <2>1. /\ UNCHANGED <<Completed, Unfinished>> /\ cmd' = cmd /\ Held' = {cmd} /\ Held = {cmd}
        /\ ~Foremost'
    BY <1>1, <1>11 DEF ReplaceDocument, Executing, Held, Foremost
  <2>2. \A c \in Completed : c.queue_id # cmd.queue_id
    BY <1>0, <1>11, NoSecondDrop
  <2> HIDE DEF Resting, AlteringIndex
  <2> QED
    BY <1>0, <2>1, <2>2 DEF InOrder
<1> QED
  BY <1>0, <1>2, <1>3, <1>4, <1>5, <1>6, <1>7, <1>8, <1>9, <1>10, <1>11, StepKinds
  DEF Steps, RecordsInv, Creators

(* The text that a command has written stays until the command's record is *)
(* that of a finished one.                                                 *)
LEMMA WrittenStays ==
  ASSUME Assumptions, NoCommandIsNull, QueueInv, [Next]_vars, ~WriteKey, HasWritten
  PROVE  /\ HasWritten'
         /\ cmd'.doc = cmd.doc /\ cmd'.action = cmd.action
         /\ UNCHANGED documentDB
<1> USE DEF HasWritten, HasStored, Effective, Ending, AlteringIndex
<1>0. TypeInv /\ RecordsInv /\ CorpusInv /\ TypeOK /\ ControlOK
  BY DEF QueueInv, TypeInv
<1>1. \/ pc \in {"describe", "undescribe", "purge"}
      \/ AlteringIndex /\ ready /\ cmd.action = "AddDocument"
      \/ pc \in {"remove", "write"} /\ goal = "Finished"
  OBVIOUS
<1>2. CASE Aside
  BY <1>2 DEF Aside
<1>3. CASE DescribeDocument \/ UndescribeDocument
  <2>1. /\ ready /\ UNCHANGED <<documentDB, cmd, ready>>
        /\ \/ cmd.action = "AddDocument" /\ pc' = "enqueue"
           \/ cmd.action = "DropDocument" /\ pc' = "remove" /\ goal' = "Finished"
    BY <1>0, <1>3
    DEF DescribeDocument, UndescribeDocument, Finish, ControlOK, InHand, indexing
  <2> QED
    BY <2>1
<1>4. CASE AddTask \/ ThrottleEnds
  <2>1. /\ UNCHANGED <<documentDB, cmd, ready>> /\ (pc' = "throttle" \/ NextSlot)
        /\ pc \in {"enqueue", "throttle"} /\ ready /\ cmd.action = "AddDocument"
    BY <1>4 DEF AddTask, ThrottleEnds, indexing, documents
  <2>2. task.op = "Add"
    BY <1>0, <2>1 DEF ControlOK
  <2>3. pc' \in {"throttle", "enqueue"} \/ (pc' = "remove" /\ goal' = "Finished")
    BY <2>1, <2>2 DEF NextSlot
  <2> QED
    BY <2>1, <2>3
<1>5. CASE RemoveKey
  <2>1. cmd \in Commands /\ goal = "Finished"
    BY <1>0, <1>1, <1>5 DEF RemoveKey, TypeOK, InHand
  <2>2. /\ cmd'.doc = cmd.doc /\ cmd'.action = cmd.action /\ pc' = "purge"
        /\ UNCHANGED documentDB
    BY <1>5, <2>1 DEF RemoveKey, AfterKeyRemoved, Commands, documents
  <2> QED
    BY <2>2
<1>6. CASE RemovePayload
  <2>1. cmd \in Commands /\ goal = "Finished"
    BY <1>0, <1>6 DEF RemovePayload, TypeOK, InHand, RecordsInv, HandOK
  <2>2. /\ cmd'.doc = cmd.doc /\ cmd'.action = cmd.action /\ pc' = "write" /\ goal' = "Finished"
        /\ UNCHANGED documentDB
    BY <1>6, <2>1 DEF RemovePayload, Commands, documents
  <2> QED
    BY <2>2
<1>7. Process => \/ DescribeDocument \/ UndescribeDocument \/ AddTask \/ ThrottleEnds
                 \/ RemoveKey \/ RemovePayload
  BY <1>1 DEF Process, Tick, LoadStored, StoredLoaded, FetchCommand, FinishTasks, LeaveQueue,
     FailDocument, StoreText, ReplaceDocument, RetryLater, DropMissing, DropAssociations, EraseText,
     AddAssociation, AddAssociations, LoadDocument, EndLoad, Executing
<1> QED
  BY <1>0, <1>2, <1>3, <1>4, <1>5, <1>6, <1>7, StepsAside

(* What the command in hand shows from the moment it has taken effect.     *)
LEMMA EndingShows ==
  ASSUME Assumptions, NoCommandIsNull, QueueInv, ClientInv, [Next]_vars,
         Ending', IsWrite(cmd')
  PROVE  Shows(cmd)'
<1>0. /\ TypeInv /\ RecordsInv /\ CorpusInv /\ LastWriteShows
      /\ pc \in InHand => cmd \in Commands
  BY DEF ClientInv, QueueInv, TypeInv, TypeOK
<1>1. CASE RemoveKey
  <2>1. /\ Effective /\ cmd \in Commands /\ UNCHANGED documentDB
        /\ cmd' = [cmd EXCEPT !.status = goal]
    BY <1>0, <1>1 DEF RemoveKey, AfterKeyRemoved, Ending, Effective, InHand, documents
  <2>2. cmd'.doc = cmd.doc /\ cmd'.action = cmd.action
    BY <2>1 DEF Commands
  <2>3. CASE cmd.action = "AddDocument"
    <3>1. Running
      BY <2>1 DEF Effective, Running, Resting, Taken, Rewriting, AlteringIndex
    <3>2. cmd \in Unfinished /\ cmd \in Live
      BY <1>0, <3>1, ExecutingLive DEF CorpusInv
    <3>3. PICK p \in payloadDB : p.id = cmd.payload_id
      BY <1>0, <3>2, HandPayload
    <3>4. documentDB[cmd.doc] # NoText
      BY <1>0, <2>1, <2>3, <3>2, <3>3 DEF CorpusInv, EffectsOK, HasStored, TextsOK, HasText
    <3> QED
      BY <2>1, <2>2, <2>3, <3>4 DEF Shows
  <2>4. CASE cmd.action = "DropDocument"
    BY <1>0, <2>1, <2>2, <2>4 DEF CorpusInv, EffectsOK, Shows
  <2> QED
    BY <2>2, <2>3, <2>4 DEF IsWrite
<1>2. CASE RemovePayload
  <2>1. /\ Ending /\ cmd \in Commands /\ UNCHANGED documentDB
        /\ cmd' = [cmd EXCEPT !.payload_id = 0]
    BY <1>0, <1>2 DEF RemovePayload, Ending, InHand, documents
  <2>2. cmd'.doc = cmd.doc /\ cmd'.action = cmd.action
    BY <2>1 DEF Commands
  <2> QED
    BY <1>0, <2>1, <2>2 DEF LastWriteShows, IsWrite, Shows
<1>3. CASE Aside
  <2>1. UNCHANGED <<documentDB, pc, cmd, goal>>
    BY <1>3 DEF Aside
  <2> QED
    BY <1>0, <2>1 DEF LastWriteShows, IsWrite, Shows, Ending
<1>4. Process => RemoveKey \/ RemovePayload
  BY DEF Ending, Process, Tick, LoadStored, StoredLoaded, FetchCommand, FinishTasks, LeaveQueue,
     WriteKey, AddTask, ThrottleEnds, NextSlot, FailDocument, StoreText, DescribeDocument,
     ReplaceDocument, RetryLater, DropMissing, DropAssociations, EraseText, UndescribeDocument,
     AddAssociation, AddAssociations, LoadDocument, EndLoad, Executing, Finish, processing
<1> QED
  BY <1>0, <1>1, <1>2, <1>3, <1>4, StepsAside

LEMMA LastWriteShowsStep ==
  ASSUME Assumptions, NoCommandIsNull, QueueInv, ClientInv, [Next]_vars
  PROVE  LastWriteShows'
<1>0. /\ TypeInv /\ RecordsInv /\ InOrder /\ LastWriteShows
      /\ Completed \subseteq Commands /\ documentDB \in [Docs -> Texts \cup {NoText}]
      /\ pc \in InHand => cmd \in Commands
  BY DEF ClientInv, QueueInv, TypeInv, TypeOK, Completed
<1> DEFINE IsLast(c, all) == \A x \in all : IsWrite(x) /\ x.doc = c.doc => ~Before(c, x)
<1>1. ASSUME NEW c \in Completed', IsWrite(c), IsLast(c, Completed')
      PROVE  Shows(c)' \/ (HasWritten' /\ cmd'.doc = c.doc)
  <2>1. CASE ~WriteKey
    <3>1. Completed' = Completed
      BY <1>0, <2>1, CompletedAfter
    <3>2. Shows(c) \/ (HasWritten /\ cmd.doc = c.doc)
      BY <1>0, <1>1, <3>1 DEF LastWriteShows
    <3>3. CASE HasWritten /\ cmd.doc = c.doc
      BY <2>1, <3>3, WrittenStays
    <3>4. CASE Shows(c)
      <4>1. CASE StoreText
        <5>1. /\ cmd.doc \in Docs /\ cmd.action = "AddDocument" /\ pc' = "describe" /\ cmd' = cmd
              /\ \E t : documentDB' = [documentDB EXCEPT ![cmd.doc] = t]
          BY <1>0, <4>1, ExecutingType DEF StoreText, Executing, DocumentActions
        <5>2. CASE c.doc = cmd.doc
          BY <5>1, <5>2 DEF HasWritten, HasStored
        <5>3. CASE c.doc # cmd.doc
          <6>1. documentDB'[c.doc] = documentDB[c.doc]
            BY <1>0, <3>1, <5>1, <5>3, CommandsType DEF IsWrite, DocumentActions
          <6> QED
            BY <3>4, <6>1 DEF Shows
        <5> QED
          BY <5>2, <5>3
      <4>2. CASE EraseText
        <5>1. /\ cmd.action = "DropDocument" /\ pc' = "undescribe" /\ cmd' = cmd
              /\ documentDB' = [documentDB EXCEPT ![cmd.doc] = NoText]
          BY <1>0, <4>2 DEF EraseText, TypeInv, ControlOK
        <5>2. CASE c.doc = cmd.doc
          BY <5>1, <5>2 DEF HasWritten
        <5>3. CASE c.doc # cmd.doc
          <6>1. documentDB'[c.doc] = documentDB[c.doc]
            BY <1>0, <3>1, <5>1, <5>3, CommandsType DEF IsWrite, DocumentActions
          <6> QED
            BY <3>4, <6>1 DEF Shows
        <5> QED
          BY <5>2, <5>3
      <4>3. CASE UNCHANGED documentDB
        BY <3>4, <4>3 DEF Shows
      <4> QED
        BY <4>1, <4>2, <4>3, TextSteps DEF DropAssociations, AddAssociation, AddAssociations
    <3> QED
      BY <3>2, <3>3, <3>4
  <2>2. CASE WriteKey
    <3>1. /\ pc = "write" /\ cmd' = cmd /\ UNCHANGED documentDB /\ cmd \in Commands
          /\ Completed' = Completed \cup (IF goal = "Finished" THEN {cmd} ELSE {})
          /\ Held = {cmd}
      BY <1>0, <2>2, CompletedAfter
      DEF WriteKey, documents, InHand, Held, Resting, AlteringIndex
    <3>2. CASE c \in Completed /\ HasWritten /\ cmd.doc = c.doc
      <4>1. goal = "Finished" /\ IsWrite(cmd)
        BY <3>1, <3>2 DEF HasWritten, HasStored, Effective, Ending, AlteringIndex, IsWrite
      <4>2. cmd \in Completed' /\ ~Before(c, cmd)
        BY <1>1, <3>1, <3>2, <4>1
      <4>3. Precedes(c, cmd)
        BY <1>0, <3>1, <3>2 DEF InOrder
      <4> QED
        BY <4>2, <4>3 DEF Precedes, MakesRoomFor, Before, Priority
    <3>3. CASE c \in Completed /\ ~(HasWritten /\ cmd.doc = c.doc)
      <4>1. IsLast(c, Completed)
        BY <1>1, <3>1
      <4>2. Shows(c)
        BY <1>0, <1>1, <3>3, <4>1 DEF LastWriteShows
      <4> QED
        BY <3>1, <4>2 DEF Shows
    <3>4. CASE c \notin Completed
      <4>1. c = cmd /\ Ending
        BY <3>1, <3>4 DEF Ending
      <4> QED
        BY <1>0, <1>1, <3>1, <4>1 DEF LastWriteShows, Shows
    <3> QED
      BY <3>2, <3>3, <3>4
  <2> QED
    BY <2>1, <2>2
<1>2. Ending' /\ IsWrite(cmd') => Shows(cmd)'
  BY EndingShows
<1> QED
  BY <1>1, <1>2 DEF LastWriteShows

LEMMA InitClient == ASSUME NoCommandIsNull, Init PROVE ClientInv
<1>1. Drawn = {} /\ Fresh = {} /\ Completed = {} /\ Unfinished = {} /\ Held = {} /\ ~Foremost
  BY DEF Init, NoCreation, Drawn, Fresh, Completed, Unfinished, Held, Foremost, Resting
<1>2. NoLoads
  BY <1>1 DEF Init, NoLoads, NoCommandIsNull
<1> QED
  BY <1>1, <1>2 DEF Init, ClientInv, DrawnLast, InOrder, LastWriteShows, Ending

(* One client that sends its requests one after the other, and no load     *)
(* from another instance meanwhile, gets what it asked for: when the       *)
(* processor rests, a document is stored if and only if the last command   *)
(* about it was an addition (queue.cc processQueue, document.cc).          *)
THEOREM LastRequestWins ==
  ASSUME Assumptions, NoCommandIsNull, OneClient
  PROVE  Spec => []LastWriteWins
<1>1. Init => ClientInv
  BY InitClient
<1>2. QueueInv /\ QueueInv' /\ ClientInv /\ [Next]_vars => ClientInv'
  <2> SUFFICES ASSUME QueueInv, QueueInv', ClientInv, [Next]_vars PROVE ClientInv'
    OBVIOUS
  <2>1. NoLoads'
    BY LoadStaysOut DEF ClientInv
  <2>2. DrawnLast'
    BY <2>1, DrawnLastStep DEF ClientInv
  <2> QED
    BY <2>1, <2>2, InOrderStep, LastWriteShowsStep DEF ClientInv
<1>3. QueueInv /\ ClientInv => LastWriteWins
  <2> SUFFICES ASSUME QueueInv, ClientInv,
                      pc = "idle", Queued = {},
                      NEW d \in Docs, NEW c \in Writes(d), \A x \in Writes(d) : ~Before(c, x)
               PROVE  documentDB[d] # NoText <=> c.action = "AddDocument"
    BY DEF LastWriteWins
  <2>1. \A x \in queueDB : x \in Completed
    BY DEF QueueInv, RecordsInv, HandOK, Running, Resting, Queued, Completed, TypeInv, TypeOK,
       Commands, Statuses
  <2>2. ~HasWritten
    BY DEF HasWritten, HasStored, Effective, Ending, AlteringIndex
  <2>3. c \in Completed /\ IsWrite(c) /\ c.doc = d
    BY <2>1 DEF Writes, IsWrite
  <2>4. \A x \in Completed : IsWrite(x) /\ x.doc = c.doc => ~Before(c, x)
    BY <2>3 DEF Writes, IsWrite, Completed
  <2> QED
    BY <2>2, <2>3, <2>4 DEF ClientInv, LastWriteShows, Shows
<1>4. Spec => []QueueInv
  BY QueueInvAlways
<1> QED
  BY <1>1, <1>2, <1>3, <1>4, PTL DEF Spec

-----------------------------------------------------------------------------
(***************************************************************************)
(* Sixth part.  The pages of the queue and of the index.                   *)
(***************************************************************************)

(* The records of the queue are listed each once, and go by their ids.     *)
Numbered(records) ==
  /\ records \in Seq(Commands)
  /\ \A i \in DOMAIN records : records[i].queue_id \in Nat \ {NoId}
  /\ \A i, j \in DOMAIN records : records[i].queue_id = records[j].queue_id => i = j

LEMMA KeysAreOrdered ==
  ASSUME NEW S \in SUBSET Commands
  PROVE  \/ \E c, d \in S : c # d /\ c.queue_id = d.queue_id
         \/ OrdersAll({p \in S \X S : KeyBefore(p[1], p[2])}, S)
<1> SUFFICES ASSUME \A c, d \in S : c.queue_id = d.queue_id => c = d
             PROVE  OrdersAll({p \in S \X S : KeyBefore(p[1], p[2])}, S)
  OBVIOUS
<1>1. /\ \A c \in S : c.status \in Statuses /\ c.queue_id \in Nat /\ c.action \in Actions
  BY DEF Commands, Actions
<1>2. /\ \A x \in Statuses : StatusOrder[x] \in Nat
      /\ \A x, y \in Statuses : StatusOrder[x] = StatusOrder[y] => x = y
  BY DEF StatusOrder, Statuses
<1>3. \A a \in Actions : Priority[a] \in Nat
  BY DEF Priority, Actions, DocumentActions
<1>4. \A c, d \in S : KeyBefore(c, d) <=>
        \/ StatusOrder[c.status] < StatusOrder[d.status]
        \/ c.status = d.status /\ c.queue_id < d.queue_id
  <2> SUFFICES ASSUME NEW c \in S, NEW d \in S
               PROVE  KeyBefore(c, d) <=>
                        \/ StatusOrder[c.status] < StatusOrder[d.status]
                        \/ c.status = d.status /\ c.queue_id < d.queue_id
    OBVIOUS
  <2>1. c = d => ~(Priority[c.action] < Priority[d.action])
    BY <1>1, <1>3
  <2> QED
    BY <2>1 DEF KeyBefore, Before
<1>5. \A c, d \in S : <<c, d>> \in {p \in S \X S : KeyBefore(p[1], p[2])} <=> KeyBefore(c, d)
  OBVIOUS
<1> DEFINE o(c) == StatusOrder[c.status]
           q(c) == c.queue_id
<1>6. /\ \A c \in S : o(c) \in Nat /\ q(c) \in Nat
      /\ \A c, d \in S : q(c) = q(d) => c = d
      /\ \A c, d \in S : KeyBefore(c, d) <=> o(c) < o(d) \/ (o(c) = o(d) /\ q(c) < q(d))
  BY <1>1, <1>2, <1>4
<1> HIDE DEF o, q
<1>7. \A c \in S : ~KeyBefore(c, c)
  BY <1>6
<1>8. \A c, d, e \in S : KeyBefore(c, d) /\ KeyBefore(d, e) => KeyBefore(c, e)
  BY <1>6
<1>9. \A c, d \in S : c # d => KeyBefore(c, d) \/ KeyBefore(d, c)
  BY <1>6
<1> QED
  BY <1>5, <1>7, <1>8, <1>9, Zenon DEF OrdersAll

LEMMA RecordsAreNumbered ==
  ASSUME queueDB \in SUBSET Commands, IsFiniteSet(queueDB), IdsDiffer,
         \A c \in queueDB : c.queue_id # NoId
  PROVE  Numbered(Records) /\ (queueDB # {} => Records # <<>>)
<1> DEFINE S == queueDB
           before == {p \in S \X S : KeyBefore(p[1], p[2])}
           n == Cardinality(S)
           r == Records
<1>1. OrdersAll(before, S)
  BY KeysAreOrdered DEF IdsDiffer
<1>2. \A c \in S : PlaceIn(S, before, c) = Cardinality({x \in S : KeyBefore(x, c)}) + 1
  <2> SUFFICES ASSUME NEW c \in S
               PROVE  {f \in S : <<f, c>> \in before} = {x \in S : KeyBefore(x, c)}
    BY DEF PlaceIn
  <2> QED
    OBVIOUS
<1>3. r = [i \in 1..n |-> CHOOSE c \in S : Cardinality({x \in S : KeyBefore(x, c)}) + 1 = i]
  BY DEF Records
<1> HIDE DEF before, S, r
<1>4. /\ n \in Nat
      /\ \A i \in 1..n : \E c \in S : PlaceIn(S, before, c) = i
  BY <1>1, PlacesCount DEF S
<1>5. ASSUME NEW i \in 1..n
      PROVE  r[i] \in S /\ PlaceIn(S, before, r[i]) = i
  <2>1. r[i] = CHOOSE c \in S : Cardinality({x \in S : KeyBefore(x, c)}) + 1 = i
    BY <1>3
  <2>2. \E c \in S : Cardinality({x \in S : KeyBefore(x, c)}) + 1 = i
    BY <1>2, <1>4
  <2>3. r[i] \in S /\ Cardinality({x \in S : KeyBefore(x, r[i])}) + 1 = i
    BY <2>1, <2>2
  <2> QED
    BY <1>2, <2>3
<1>6. DOMAIN r = 1..n
  BY <1>3
<1>7. r \in Seq(Commands)
  <2>1. \A i \in 1..n : r[i] \in Commands
    BY <1>5 DEF S
  <2>2. r = [i \in 1..n |-> r[i]]
    <3> DEFINE e(i) == CHOOSE c \in S : Cardinality({x \in S : KeyBefore(x, c)}) + 1 = i
    <3>1. r = [i \in 1..n |-> e(i)]
      BY <1>3
    <3> HIDE DEF e
    <3> QED
      BY <3>1
  <2> QED
    BY <1>4, <2>1, <2>2
<1>8. \A i \in DOMAIN r : r[i].queue_id \in Nat \ {NoId}
  <2>1. \A c \in S : c.queue_id \in Nat
    BY DEF S, Commands
  <2> QED
    BY <1>5, <1>6, <2>1 DEF S
<1>9. \A i, j \in DOMAIN r : r[i].queue_id = r[j].queue_id => i = j
  BY <1>5, <1>6 DEF S, IdsDiffer
<1>10. S # {} => r # <<>>
  <2> SUFFICES ASSUME S # {}, r = <<>>
               PROVE  FALSE
    OBVIOUS
  <2>1. n = 0
    BY <1>4, <1>6
  <2> QED
    BY <2>1, FS_EmptySet DEF S
<1> QED
  BY <1>7, <1>8, <1>9, <1>10 DEF S, r, Numbered

LEMMA IdAtIsNat ==
  ASSUME NEW r, Numbered(r), NEW i
  PROVE  IdAt(r, i) \in Nat
BY DEF Numbered, IdAt, NoId

LEMMA NumberedLen ==
  ASSUME NEW r, Numbered(r)
  PROVE  Len(r) \in Nat /\ DOMAIN r = 1..Len(r) /\ r \in Seq(Commands)
BY DEF Numbered

(* A page that is asked for by an id begins with its record.               *)
LEMMA PageStartsAtId ==
  ASSUME NEW r, Numbered(r), NEW i \in DOMAIN r, NEW limit
  PROVE  PageStart(r, r[i].queue_id, limit) = i
<1> DEFINE id == r[i].queue_id
           first(status, ids) == {x \in DOMAIN r : r[x].status = status /\ r[x].queue_id \in ids}
           t1 == first("Queued", {id})
           t2 == first("Active", {id})
           t3 == first("Failed", {id})
           t4 == first("Finished", {id})
           t5 == first("Active", Nat)
           t6 == first("Queued", Nat)
           tried == <<t1, t2, t3, t4, t5, t6>>
           I == {m \in 1..Len(tried) : tried[m] # {}}
           found == SelectInSeq(tried, LAMBDA s : s # {})
<1>1. id \in Nat /\ id # NoId /\ i \in Nat /\ r[i].status \in Statuses
  BY NumberedLen DEF Numbered, Commands
<1>2. \A status : first(status, {id}) \subseteq {i} /\ (r[i].status = status => first(status, {id}) = {i})
  BY DEF Numbered
<1>3. /\ t1 \subseteq {i} /\ t2 \subseteq {i} /\ t3 \subseteq {i} /\ t4 \subseteq {i}
      /\ t1 # {} \/ t2 # {} \/ t3 # {} \/ t4 # {}
  <2> HIDE DEF first
  <2> QED
    BY <1>1, <1>2 DEF Statuses
<1>4. PageStart(r, id, limit) = IF id # NoId /\ found # 0 THEN Min(tried[found])
        ELSE IF limit <= Len(r) THEN Len(r) - limit + 1 ELSE 1
  BY DEF PageStart
<1>5. found = IF I # {} THEN Min(I) ELSE 0
  BY DEF SelectInSeq
<1> HIDE DEF first, t1, t2, t3, t4, t5, t6, found
<1>6. Len(tried) = 6
  OBVIOUS
<1>7. I \subseteq Nat /\ I # {} /\ \E m \in I : m <= 4
  <2>1. \A m \in 1..4 : m \in 1..Len(tried)
    BY <1>6
  <2>2. I \subseteq Nat
    BY <1>6
  <2>3. t1 # {} => 1 \in I
    BY <1>6
  <2>4. t2 # {} => 2 \in I
    BY <1>6
  <2>5. t3 # {} => 3 \in I
    BY <1>6
  <2>6. t4 # {} => 4 \in I
    BY <1>6
  <2> HIDE DEF I
  <2> QED
    BY <1>3, <2>2, <2>3, <2>4, <2>5, <2>6
<1>8. Min(I) \in I /\ \A m \in I : Min(I) <= m
  BY <1>7, MinIsLeast
<1>9. found \in I /\ found <= 4
  <2> HIDE DEF I
  <2>1. found = Min(I)
    BY <1>5, <1>7
  <2>2. PICK m \in I : m <= 4
    BY <1>7
  <2>3. found \in I /\ found <= m
    BY <1>8, <2>1
  <2>4. found \in Nat /\ m \in Nat
    BY <1>7, <2>2, <2>3
  <2> HIDE DEF found
  <2> QED
    BY <2>2, <2>3, <2>4
<1>10. found \in 1..4 /\ tried[found] # {}
  BY <1>6, <1>9
<1>11. tried[found] \subseteq {i}
  BY <1>3, <1>10
<1>12. tried[found] = {i}
  BY <1>10, <1>11
<1>13. Min({i}) = i
  <2>1. \A y \in {i} : i <= y
    BY <1>1
  <2>2. Min({i}) \in {i}
    BY <1>1, <2>1, MinIsLeast
  <2> QED
    BY <2>2
<1>14. found # 0
  BY <1>10
<1> HIDE DEF id, tried
<1> QED
  BY <1>1, <1>4, <1>12, <1>13, <1>14 DEF id

(* The places of the pages that a walk from the first one meets.           *)
Walked(r, limit, w, p) ==
  /\ w \in Seq(Nat) /\ Len(w) # 0
  /\ p \in [1..Len(w) -> DOMAIN r]
  /\ p[1] = 1
  /\ \A k \in 1..Len(w) : w[k] = r[p[k]].queue_id /\ k <= p[k]
  /\ \A k \in 2..Len(w) : p[k] = p[k - 1] + limit

LEMMA WalkGoesOn ==
  ASSUME NEW r, Numbered(r), NEW limit \in DOMAIN r, NEW w, NEW p, Walked(r, limit, w, p)
  PROVE  LET next == NextId(r, Last(w), limit)
             last == p[Len(w)]
         IN  /\ next = NoId <=> last + limit > Len(r)
             /\ next # NoId => \E q : Walked(r, limit, Append(w, next), q)
<1> DEFINE n == Len(w)
           last == p[n]
           next == NextId(r, Last(w), limit)
<1>1. /\ Len(r) \in Nat /\ DOMAIN r = 1..Len(r) /\ limit \in 1..Len(r)
      /\ n \in Nat /\ 1 <= n /\ w \in Seq(Nat)
  BY NumberedLen DEF Walked
<1>2. last \in DOMAIN r /\ last \in 1..Len(r) /\ Last(w) = r[last].queue_id /\ n <= last
  <2>1. n \in 1..n
    BY <1>1
  <2> QED
    BY <1>1, <2>1 DEF Walked, Last
<1>3. next = IdAt(r, last + limit)
  BY <1>2, PageStartsAtId DEF NextId
<1> HIDE DEF n, next
<1>4. ASSUME next = NoId
      PROVE  last + limit > Len(r)
  <2>1. SUFFICES ASSUME last + limit <= Len(r)
                 PROVE  FALSE
    BY <1>1, <1>2
  <2>2. last + limit \in DOMAIN r
    BY <1>1, <1>2, <2>1
  <2>3. next = r[last + limit].queue_id
    BY <1>3, <2>2 DEF IdAt
  <2> QED
    BY <1>4, <2>2, <2>3 DEF Numbered
<1>5. ASSUME next # NoId
      PROVE  \E q : Walked(r, limit, Append(w, next), q)
  <2> DEFINE v == Append(w, next)
             q == [k \in 1..(n + 1) |-> IF k = n + 1 THEN last + limit ELSE p[k]]
  <2>1. last + limit \in DOMAIN r /\ next = r[last + limit].queue_id
    BY <1>3, <1>5 DEF IdAt
  <2>2. next \in Nat
    BY <1>3, IdAtIsNat
  <2>3. /\ v \in Seq(Nat) /\ Len(v) = n + 1 /\ v[n + 1] = next
        /\ \A k \in 1..n : v[k] = w[k]
    BY <1>1, <2>2 DEF n
  <2>4. p \in [1..n -> DOMAIN r]
    BY DEF Walked, n
  <2>5. /\ q \in [1..(n + 1) -> DOMAIN r] /\ q[n + 1] = last + limit
        /\ \A k \in 1..n : q[k] = p[k]
    BY <1>1, <2>1, <2>4
  <2> HIDE DEF v, q
  <2>6. q[1] = 1
    BY <1>1, <2>5 DEF Walked
  <2>7. \A k \in 1..(n + 1) : v[k] = r[q[k]].queue_id /\ k <= q[k]
    <3> TAKE k \in 1..(n + 1)
    <3>1. CASE k = n + 1
      BY <1>1, <1>2, <2>1, <2>3, <2>5, <3>1
    <3>2. CASE k # n + 1
      <4>1. k \in 1..n
        BY <1>1, <3>2
      <4> QED
        BY <2>3, <2>5, <4>1 DEF Walked, n
    <3> QED
      BY <3>1, <3>2
  <2>8. \A k \in 2..(n + 1) : q[k] = q[k - 1] + limit
    <3> TAKE k \in 2..(n + 1)
    <3>1. CASE k = n + 1
      BY <1>1, <2>5, <3>1
    <3>2. CASE k # n + 1
      <4>1. k \in 2..n /\ k \in 1..n /\ k - 1 \in 1..n
        BY <1>1, <3>2
      <4> QED
        BY <2>5, <4>1 DEF Walked, n
    <3> QED
      BY <3>1, <3>2
  <2>9. Walked(r, limit, v, q)
    BY <1>1, <2>3, <2>5, <2>6, <2>7, <2>8 DEF Walked
  <2> QED
    BY <2>9 DEF v
<1>6. ASSUME next # NoId
      PROVE  ~(last + limit > Len(r))
  <2>1. last + limit \in DOMAIN r
    BY <1>3, <1>6 DEF IdAt
  <2> QED
    BY <1>1, <1>2, <2>1
<1> QED
  BY <1>4, <1>5, <1>6 DEF n, next

LEMMA QueueWalkEnds ==
  ASSUME NEW r, Numbered(r), NEW limit \in DOMAIN r
  PROVE  LET w == QueueWalk(r, limit)
         IN  \E p : Walked(r, limit, w, p) /\ p[Len(w)] + limit > Len(r)
<1> DEFINE n == Len(r)
           A == Seq(Nat)
           a == <<FirstId(r)>>
           step(v) == LET next == NextId(r, Last(v), limit)
                      IN  IF next = NoId THEN v ELSE Append(v, next)
           g == [x \in A \X Nat |-> step(x[1])]
           Is(f) == f = [i \in 1..n |-> IF i = 1 THEN a ELSE step(f[i - 1])]
<1>1. n \in Nat /\ DOMAIN r = 1..n /\ 1 <= n /\ 1 \in Nat /\ limit \in 1..n
  BY NumberedLen
<1>2. a \in A
  BY IdAtIsNat DEF FirstId
<1>3. \A v \in A : step(v) \in A
  <2> TAKE v \in A
  <2>1. NextId(r, Last(v), limit) \in Nat
    BY IdAtIsNat DEF NextId
  <2> QED
    BY <2>1
<1>4. QueueWalk(r, limit) = (CHOOSE f : Is(f))[n]
  BY DEF QueueWalk
<1> HIDE DEF step, a, A, n
<1>5. g \in [A \X Nat -> A]
  BY <1>3
<1>6. PICK f \in [1..n -> A] : Recurs(f, a, g, 1, n)
  <2> HIDE DEF g
  <2> QED
    BY <1>1, <1>2, <1>5, RecursionHolds
<1>7. ASSUME NEW i \in 1..n, i # 1
      PROVE  g[<<f[i - 1], i>>] = step(f[i - 1])
  <2>1. i - 1 \in 1..n /\ i \in Nat
    BY <1>1, <1>7
  <2>2. f[i - 1] \in A
    BY <1>6, <2>1
  <2> QED
    BY <2>1, <2>2
<1>8. Is(f)
  <2> HIDE DEF g
  <2> QED
    BY <1>6, <1>7 DEF Recurs
<1> DEFINE h == CHOOSE x : Is(x)
<1>9. Is(h)
  <2> HIDE DEF Is
  <2> QED
    BY <1>8
<1> HIDE DEF h
<1>10. \A i \in 1..n : h[i] = IF i = 1 THEN a ELSE step(h[i - 1])
  <2> DEFINE e(i) == IF i = 1 THEN a ELSE step(h[i - 1])
  <2>1. h = [i \in 1..n |-> e(i)]
    BY <1>9
  <2> HIDE DEF e
  <2>2. \A i \in 1..n : h[i] = e(i)
    BY <2>1
  <2> QED
    BY <2>2 DEF e
<1> DEFINE Fits(i) == \E p : /\ Walked(r, limit, h[i], p)
                             /\ Len(h[i]) >= i \/ p[Len(h[i])] + limit > n
<1>11. Fits(n)
  <2> DEFINE Bad == {i \in Nat : i \in 1..n /\ ~Fits(i)}
  <2>1. SUFFICES ASSUME Bad # {}
                 PROVE  FALSE
    BY <1>1
  <2>2. PICK i \in Bad : \A j \in Bad : i <= j
    BY <2>1, HasLeast
  <2>3. i \in Nat /\ i \in 1..n /\ ~Fits(i)
    BY <2>2
  <2>4. CASE i = 1
    <3>1. h[1] = a /\ a = <<r[1].queue_id>> /\ r[1].queue_id \in Nat
      BY <1>1, <1>10 DEF a, FirstId, IdAt, Numbered
    <3>2. Walked(r, limit, a, [k \in 1..1 |-> 1])
      BY <1>1, <3>1 DEF Walked
    <3>3. Len(a) = 1
      BY <3>1
    <3> QED
      BY <2>3, <2>4, <3>1, <3>2, <3>3
  <2>5. CASE i # 1
    <3>1. i - 1 \in Nat /\ i - 1 \in 1..n /\ Fits(i - 1)
      <4> HIDE DEF Fits
      <4>1. i - 1 \in Nat /\ i - 1 \in 1..n /\ ~(i <= i - 1)
        BY <1>1, <2>3, <2>5
      <4>2. i - 1 \notin Bad
        BY <2>2, <4>1
      <4> QED
        BY <4>1, <4>2
    <3> DEFINE v == h[i - 1]
               next == NextId(r, Last(v), limit)
    <3>2. h[i] = IF next = NoId THEN v ELSE Append(v, next)
      BY <1>10, <2>3, <2>5 DEF step
    <3>3. PICK p : Walked(r, limit, v, p) /\ (Len(v) >= i - 1 \/ p[Len(v)] + limit > n)
      BY <3>1
    <3>4. /\ next = NoId <=> p[Len(v)] + limit > Len(r)
          /\ next # NoId => \E q : Walked(r, limit, Append(v, next), q)
      BY <3>3, WalkGoesOn
    <3> HIDE DEF v, next
    <3>5. CASE next = NoId
      <4>1. Fits(i)
        BY <3>2, <3>3, <3>4, <3>5 DEF n
      <4> QED
        BY <2>3, <4>1
    <3>6. CASE next # NoId
      <4>1. PICK q : Walked(r, limit, Append(v, next), q)
        BY <3>4, <3>6
      <4>2. Len(v) >= i - 1
        BY <3>3, <3>4, <3>6 DEF n
      <4>3. v \in Seq(Nat)
        BY <3>3 DEF Walked
      <4>4. Len(Append(v, next)) = Len(v) + 1 /\ Len(v) \in Nat
        BY <4>3
      <4>5. Len(h[i]) >= i /\ Walked(r, limit, h[i], q)
        BY <2>3, <3>2, <3>6, <4>1, <4>2, <4>4
      <4> HIDE DEF h
      <4> QED
        BY <2>3, <4>5
    <3> QED
      BY <3>5, <3>6
  <2> QED
    BY <2>4, <2>5
<1>12. PICK p : Walked(r, limit, h[n], p) /\ (Len(h[n]) >= n \/ p[Len(h[n])] + limit > n)
  BY <1>11
<1>13. p[Len(h[n])] + limit > n
  <2>1. Len(h[n]) \in 1..Len(h[n])
    BY <1>12 DEF Walked
  <2>2. Len(h[n]) <= p[Len(h[n])] /\ p[Len(h[n])] \in DOMAIN r /\ Len(h[n]) \in Nat
    <3> DEFINE l == Len(h[n])
    <3>1. l \in 1..l /\ p \in [1..l -> DOMAIN r] /\ h[n] \in Seq(Nat)
      BY <1>12, <2>1 DEF Walked
    <3>2. \A k \in 1..l : k <= p[k]
      BY <1>12 DEF Walked
    <3>3. l \in Nat
      BY <3>1
    <3> HIDE DEF l
    <3>4. l <= p[l] /\ p[l] \in DOMAIN r
      BY <3>1, <3>2
    <3> QED
      BY <3>3, <3>4 DEF l
  <2> QED
    BY <1>1, <1>12, <2>2
<1> QED
  BY <1>4, <1>12, <1>13 DEF h, n

EndOfPage(r, i, limit) == IF i + limit - 1 <= Len(r) THEN i + limit - 1 ELSE Len(r)

LEMMA PageIsRun ==
  ASSUME NEW r, Numbered(r), NEW i \in DOMAIN r, NEW limit \in DOMAIN r
  PROVE  /\ QueuePage(r, r[i].queue_id, limit) = SubSeq(r, i, EndOfPage(r, i, limit))
         /\ EndOfPage(r, i, limit) \in i..Len(r)
         /\ SubSeq(r, i, EndOfPage(r, i, limit)) \in Seq(Commands)
<1>1. /\ Len(r) \in Nat /\ DOMAIN r = 1..Len(r) /\ limit \in 1..Len(r) /\ i \in 1..Len(r)
      /\ r \in Seq(Commands)
  BY NumberedLen
<1>2. Min({i + limit - 1, Len(r)}) = EndOfPage(r, i, limit)
  <2>1. PICK e \in Int : e = i + limit - 1
    BY <1>1
  <2>2. Min({e, Len(r)}) = IF e <= Len(r) THEN e ELSE Len(r)
    BY <1>1, <2>1, MinOfTwo
  <2> QED
    BY <2>1, <2>2 DEF EndOfPage
<1>3. QueuePage(r, r[i].queue_id, limit) = SubSeq(r, i, Min({i + limit - 1, Len(r)}))
  BY PageStartsAtId DEF QueuePage
<1>4. EndOfPage(r, i, limit) \in i..Len(r)
  BY <1>1 DEF EndOfPage
<1> DEFINE e == EndOfPage(r, i, limit)
<1>5. SubSeq(r, i, e) \in Seq(Commands)
  <2>1. i \in Int /\ e \in Int /\ \A k \in i..e : r[k] \in Commands
    BY <1>1, <1>4
  <2> HIDE DEF e
  <2> QED
    BY <2>1, SubSeqProperties
<1> QED
  BY <1>2, <1>3, <1>4, <1>5

(* The pages of a walk, one after the other, are the listing.              *)
LEMMA PagesJoin ==
  ASSUME NEW r, Numbered(r), NEW limit \in DOMAIN r, NEW w, NEW p,
         Walked(r, limit, w, p), p[Len(w)] + limit > Len(r)
  PROVE  FlattenSeq([k \in DOMAIN w |-> QueuePage(r, w[k], limit)]) = r
<1> DEFINE n == Len(w)
           e(k) == EndOfPage(r, p[k], limit)
           ss == [k \in DOMAIN w |-> QueuePage(r, w[k], limit)]
<1>1. /\ Len(r) \in Nat /\ DOMAIN r = 1..Len(r) /\ limit \in 1..Len(r)
      /\ r \in Seq(Commands) /\ n \in Nat /\ n # 0 /\ DOMAIN w = 1..n
  BY NumberedLen DEF Walked
<1>2. \A k \in 1..n : p[k] \in 1..Len(r) /\ w[k] = r[p[k]].queue_id
  BY <1>1 DEF Walked
<1>3. \A k \in 1..n : /\ ss[k] = SubSeq(r, p[k], e(k)) /\ ss[k] \in Seq(Commands)
                      /\ e(k) \in p[k]..Len(r)
  <2> TAKE k \in 1..n
  <2>1. ss[k] = QueuePage(r, r[p[k]].queue_id, limit) /\ p[k] \in DOMAIN r
    BY <1>1, <1>2
  <2> DEFINE i == p[k]
  <2>2. i \in DOMAIN r
    BY <2>1
  <2> HIDE DEF i
  <2>3. /\ QueuePage(r, r[i].queue_id, limit) = SubSeq(r, i, EndOfPage(r, i, limit))
        /\ EndOfPage(r, i, limit) \in i..Len(r)
        /\ SubSeq(r, i, EndOfPage(r, i, limit)) \in Seq(Commands)
    BY <2>2, PageIsRun
  <2> HIDE DEF ss
  <2> QED
    BY <2>1, <2>3 DEF i
<1>4. ss \in Seq(Seq(Commands)) /\ Len(ss) = n
  <2>1. ss = [k \in 1..n |-> ss[k]]
    BY <1>1
  <2> HIDE DEF ss
  <2> QED
    BY <1>1, <1>3, <2>1
<1> HIDE DEF ss, n
<1>5. PICK f \in [1..n -> Seq(Commands)] :
        /\ FlattenSeq(ss) = f[n]
        /\ f[1] = ss[1]
        /\ \A k \in 2..n : f[k] = f[k - 1] \o ss[k]
  BY <1>1, <1>4, FlattenSteps
<1> DEFINE Joined(k) == f[k] = SubSeq(r, 1, e(k))
<1>6. Joined(n)
  <2> DEFINE Bad == {k \in Nat : k \in 1..n /\ ~Joined(k)}
  <2>1. SUFFICES ASSUME Bad # {}
                 PROVE  FALSE
    BY <1>1
  <2>2. PICK k \in Bad : \A j \in Bad : k <= j
    BY <2>1, HasLeast
  <2>3. k \in Nat /\ k \in 1..n /\ ~Joined(k)
    BY <2>2
  <2>4. CASE k = 1
    <3>1. p[1] = 1
      BY DEF Walked
    <3> QED
      BY <1>3, <1>5, <2>3, <2>4, <3>1
  <2>5. CASE k # 1
    <3>1. k - 1 \in Nat /\ k - 1 \in 1..n /\ ~(k <= k - 1) /\ k \in 2..n
      BY <1>1, <2>3, <2>5
    <3>2. Joined(k - 1)
      <4> HIDE DEF Joined
      <4>1. k - 1 \notin Bad
        BY <2>2, <3>1
      <4> QED
        BY <3>1, <4>1
    <3>3. p[k] = p[k - 1] + limit
      BY <3>1 DEF Walked, n
    <3>4. p[k] \in 1..Len(r) /\ p[k - 1] \in 1..Len(r)
      BY <1>2, <2>3, <3>1
    <3>5. e(k - 1) + 1 = p[k]
      BY <1>1, <3>3, <3>4 DEF EndOfPage
    <3>6. f[k] = f[k - 1] \o ss[k] /\ ss[k] = SubSeq(r, p[k], e(k)) /\ e(k) \in p[k]..Len(r)
      BY <1>3, <1>5, <2>3, <3>1
    <3> DEFINE m == e(k - 1)
               l == e(k)
    <3>7. f[k] = SubSeq(r, 1, m) \o SubSeq(r, m + 1, l)
      BY <3>2, <3>5, <3>6
    <3>8. m \in (1 - 1)..Len(r) /\ l \in m..Len(r) /\ 1 \in 1..(Len(r) + 1)
      <4>1. e(k - 1) \in p[k - 1]..Len(r)
        BY <1>3, <3>1
      <4>2. m \in Int /\ l \in Int /\ m + 1 = p[k]
        BY <3>4, <3>5, <3>6, <4>1
      <4>3. p[k] <= l /\ l <= Len(r) /\ 1 <= p[k]
        BY <3>4, <3>6
      <4> HIDE DEF m, l
      <4> QED
        BY <1>1, <3>4, <4>2, <4>3
    <3> HIDE DEF m, l
    <3>9. SubSeq(r, 1, m) \o SubSeq(r, m + 1, l) = SubSeq(r, 1, l)
      BY <1>1, <3>8, ConcatAdjacentSubSeq
    <3> QED
      BY <2>3, <3>7, <3>9 DEF l
  <2> QED
    BY <2>4, <2>5
<1>7. e(n) = Len(r)
  <2>1. p[n] \in 1..Len(r) /\ p[n] + limit > Len(r)
    BY <1>1, <1>2 DEF n
  <2> QED
    BY <1>1, <2>1 DEF EndOfPage
<1>8. SubSeq(r, 1, Len(r)) = r
  BY <1>1, SubSeqFull
<1> QED
  BY <1>5, <1>6, <1>7, <1>8 DEF ss

LEMMA WalkLeadsBack ==
  ASSUME NEW r, Numbered(r), NEW limit \in DOMAIN r, NEW w, NEW p,
         Walked(r, limit, w, p), NEW k \in 2..Len(w)
  PROVE  PreviousId(r, w[k], limit) = w[k - 1]
<1>1. /\ Len(r) \in Nat /\ DOMAIN r = 1..Len(r) /\ limit \in 1..Len(r)
      /\ Len(w) \in Nat
  BY NumberedLen DEF Walked
<1>2. k \in 1..Len(w) /\ k - 1 \in 1..Len(w)
  BY <1>1
<1>3. /\ p[k] \in DOMAIN r /\ p[k - 1] \in DOMAIN r /\ p[k] = p[k - 1] + limit
      /\ w[k] = r[p[k]].queue_id /\ w[k - 1] = r[p[k - 1]].queue_id
  BY <1>2 DEF Walked
<1>4. PreviousId(r, w[k], limit) = IdAt(r, p[k] - limit)
  BY <1>3, PageStartsAtId DEF PreviousId
<1>5. p[k] - limit = p[k - 1]
  BY <1>1, <1>3
<1> QED
  BY <1>3, <1>4, <1>5 DEF IdAt

LEMMA LastPageIsLast ==
  ASSUME NEW r, Numbered(r), NEW limit \in DOMAIN r
  PROVE  Last(QueuePage(r, LastId(r, limit), limit)) = Last(r)
<1> DEFINE i == Len(r) - limit + 1
<1>1. /\ Len(r) \in Nat /\ DOMAIN r = 1..Len(r) /\ limit \in 1..Len(r)
      /\ r \in Seq(Commands)
  BY NumberedLen
<1>2. i \in DOMAIN r /\ i \in Int /\ limit <= Len(r)
  BY <1>1
<1>3. LastId(r, limit) = r[i].queue_id
  BY <1>2 DEF LastId, IdAt
<1>4. EndOfPage(r, i, limit) = Len(r)
  BY <1>1 DEF EndOfPage
<1> HIDE DEF i
<1>5. QueuePage(r, LastId(r, limit), limit) = SubSeq(r, i, Len(r))
  BY <1>2, <1>3, <1>4, PageIsRun
<1>6. \A k \in i..Len(r) : r[k] \in Commands
  BY <1>1, <1>2
<1>7. /\ Len(SubSeq(r, i, Len(r))) = Len(r) - i + 1
      /\ \A k \in 1..(Len(r) - i + 1) : SubSeq(r, i, Len(r))[k] = r[i + k - 1]
  BY <1>1, <1>2, <1>6, SubSeqProperties
<1>8. PICK k \in 1..(Len(r) - i + 1) : k = Len(r) - i + 1
  BY <1>1, <1>2
<1>9. i + k - 1 = Len(r)
  BY <1>1, <1>2, <1>8
<1> QED
  BY <1>5, <1>7, <1>8, <1>9 DEF Last

LEMMA QueuePagesMeet ==
  ASSUME queueDB \in SUBSET Commands, IsFiniteSet(queueDB), \A c \in queueDB : c.queue_id # NoId
  PROVE  QueuePagesMeetAll
<1> SUFFICES ASSUME queueDB # {}, IdsDiffer, NEW limit \in DOMAIN Records
             PROVE  LET records == Records
                        walk == QueueWalk(records, limit)
                    IN  /\ FlattenSeq([k \in DOMAIN walk |-> QueuePage(records, walk[k], limit)]) = records
                        /\ \A k \in 2..Len(walk) : PreviousId(records, walk[k], limit) = walk[k - 1]
                        /\ LET last == LastId(records, limit)
                           IN  last # NoId => Last(QueuePage(records, last, limit)) = Last(records)
  BY DEF QueuePagesMeetAll
<1> DEFINE r == Records
           w == QueueWalk(r, limit)
<1>1. Numbered(r) /\ limit \in DOMAIN r
  BY RecordsAreNumbered
<1> HIDE DEF r
<1>2. PICK p : Walked(r, limit, w, p) /\ p[Len(w)] + limit > Len(r)
  BY <1>1, QueueWalkEnds
<1> HIDE DEF w
<1>3. FlattenSeq([k \in DOMAIN w |-> QueuePage(r, w[k], limit)]) = r
  BY <1>1, <1>2, PagesJoin
<1>4. \A k \in 2..Len(w) : PreviousId(r, w[k], limit) = w[k - 1]
  BY <1>1, <1>2, WalkLeadsBack
<1>5. Last(QueuePage(r, LastId(r, limit), limit)) = Last(r)
  BY <1>1, LastPageIsLast
<1> QED
  BY <1>3, <1>4, <1>5 DEF r, w

(* The buckets are the numbers from 1, and a slot holds a span of them.    *)
HashesInSpans ==
  /\ IsFiniteSet(Hashes) /\ Hashes = 1..Cardinality(Hashes)
  /\ \A g, h \in Hashes : g <= h => SlotOf[g] <= SlotOf[h]

LEMMA FewAreFewer ==
  ASSUME NEW i \in Nat, NEW h \in Nat, i <= h, NEW S, S \subseteq i..(h - 1), NEW n \in Nat, h < i + n
  PROVE  Cardinality(S) < n
<1>1. IsFiniteSet(i..(h - 1)) /\ Cardinality(i..(h - 1)) = h - i
  <2>1. PICK b \in Int : b = h - 1
    OBVIOUS
  <2>2. IsFiniteSet(i..b) /\ Cardinality(i..b) = IF i > b THEN 0 ELSE b - i + 1
    BY FS_Interval
  <2>3. Cardinality(i..b) = h - i
    BY <2>1, <2>2
  <2> QED
    BY <2>1, <2>2, <2>3
<1>2. IsFiniteSet(S) /\ Cardinality(S) <= Cardinality(i..(h - 1))
  BY <1>1, FS_Subset
<1>3. Cardinality(S) \in Nat
  BY <1>2, FS_CardinalityType
<1> QED
  BY <1>1, <1>2, <1>3

LEMMA PageHasItsBuckets ==
  ASSUME Assumptions, HashesInSpans, index \subseteq Hashes \X Docs,
         NEW start \in Nat, NEW limit \in Nat,
         NEW h \in Listed, start <= h, h < start + limit
  PROVE  h \in IndexPage(start, limit)
<1> DEFINE From(s) == {x \in Listed : SlotOf[x] = s /\ x >= start}
           UpTo(s) == UNION {SlotListing(r, start, limit) : r \in 1..s}
           s == SlotOf[h]
<1>1. \A x \in Listed : x \in Hashes /\ x \in Nat /\ SlotOf[x] \in Slots
  <2> TAKE x \in Listed
  <2>1. x \in Hashes
    BY DEF Listed
  <2>2. Hashes \subseteq Nat
    BY FS_CardinalityType DEF HashesInSpans
  <2> QED
    BY <2>1, <2>2 DEF Assumptions
<1>2. s \in Slots /\ s \in Nat /\ s - 1 \in Nat
  BY <1>1 DEF Slots, Assumptions
<1>3. Cardinality({x \in From(s) : x < h}) < limit
  <2>1. {x \in From(s) : x < h} \subseteq start..(h - 1)
    BY <1>1
  <2> HIDE DEF From
  <2> QED
    BY <1>1, <2>1, FewAreFewer
<1>4. h \in SlotListing(s, start, limit)
  BY <1>3 DEF SlotListing
<1>5. \A r : \A x \in SlotListing(r, start, limit) : x \in Listed /\ SlotOf[x] = r /\ x >= start
  BY DEF SlotListing
<1>6. UpTo(s - 1) \subseteq start..(h - 1)
  <2> SUFFICES ASSUME NEW r \in 1..(s - 1), NEW x \in SlotListing(r, start, limit)
               PROVE  x \in start..(h - 1)
    OBVIOUS
  <2>1. x \in Listed /\ SlotOf[x] = r /\ x >= start
    BY <1>5
  <2>2. x \in Nat /\ x \in Hashes /\ h \in Hashes /\ h \in Nat
    BY <1>1, <2>1
  <2>3. ~(h <= x)
    <3>1. h <= x => s <= r
      BY <2>1, <2>2 DEF HashesInSpans
    <3> QED
      BY <1>2, <3>1
  <2> QED
    BY <2>1, <2>2, <2>3
<1> HIDE DEF UpTo
<1>7. Cardinality(UpTo(s - 1)) < limit
  BY <1>1, <1>6, FewAreFewer
<1>8. s \in {r \in Slots : Cardinality(UpTo(r - 1)) < limit}
  BY <1>2, <1>7
<1>9. IndexPage(start, limit) =
        UNION {SlotListing(x, start, limit) : x \in {r \in Slots : Cardinality(UpTo(r - 1)) < limit}}
  BY DEF IndexPage, UpTo
<1> HIDE DEF s
<1> QED
  BY <1>4, <1>8, <1>9

LEMMA PageIsListed ==
  ASSUME NEW start, NEW limit
  PROVE  IndexPage(start, limit) \subseteq Listed
BY DEF IndexPage, SlotListing

LEMMA IndexPagesMeet ==
  ASSUME Assumptions, HashesInSpans, index \subseteq Hashes \X Docs
  PROVE  IndexPagesMeetAll
<1> DEFINE n == Cardinality(Hashes)
           Is(f, limit) == f = [k \in 0..(n - 1) |->
                                  IF k = 0 THEN 1 ELSE NextStart(f[k - 1], limit)]
<1>1. n \in Nat /\ Hashes = 1..n
  BY FS_CardinalityType DEF HashesInSpans
<1>2. \A x \in Listed : x \in 1..n
  BY <1>1 DEF Listed
<1>3. IndexPagesMeetAll <=>
        \A limit \in 1..(n - 1) :
          LET h == CHOOSE f : Is(f, limit)
          IN  UNION {IndexPage(h[k], limit) : k \in DOMAIN h} = Listed
  BY DEF IndexPagesMeetAll
<1> SUFFICES ASSUME NEW limit \in 1..(n - 1)
             PROVE  LET h == CHOOSE f : Is(f, limit)
                    IN  UNION {IndexPage(h[k], limit) : k \in DOMAIN h} = Listed
  BY <1>3
<1> DEFINE g == [x \in Nat \X Nat |-> NextStart(x[1], limit)]
           top == n - limit + 1
<1>4. /\ limit \in Nat /\ 1 <= limit /\ limit + 1 <= n /\ n - 1 \in Nat /\ 0 \in Nat /\ 0 <= n - 1
      /\ top \in Nat /\ top + limit = n + 1 /\ 1 \in Nat /\ 2 <= top
  BY <1>1
<1>5. \A x \in Nat : /\ NextStart(x, limit) = IF x + limit < top THEN x + limit ELSE top
                     /\ NextStart(x, limit) \in Nat
  BY <1>1, <1>4 DEF NextStart
<1> HIDE DEF n, top
<1>6. g \in [Nat \X Nat -> Nat]
  BY <1>5
<1>7. PICK f \in [0..(n - 1) -> Nat] : Recurs(f, 1, g, 0, n - 1)
  <2> HIDE DEF g
  <2> QED
    BY <1>4, <1>6, RecursionHolds
<1>8. ASSUME NEW k \in 0..(n - 1), k # 0
      PROVE  g[<<f[k - 1], k>>] = NextStart(f[k - 1], limit)
  <2>1. k - 1 \in 0..(n - 1) /\ k \in Nat
    BY <1>4, <1>8
  <2>2. f[k - 1] \in Nat
    BY <1>7, <2>1
  <2> QED
    BY <2>1, <2>2
<1>9. Is(f, limit)
  <2> HIDE DEF g
  <2> QED
    BY <1>7, <1>8 DEF Recurs
<1> DEFINE h == CHOOSE x : Is(x, limit)
<1>10. Is(h, limit)
  <2> HIDE DEF Is
  <2> QED
    BY <1>9
<1> HIDE DEF h
<1>11. \A k \in 0..(n - 1) : h[k] = IF k = 0 THEN 1 ELSE NextStart(h[k - 1], limit)
  <2> DEFINE e(k) == IF k = 0 THEN 1 ELSE NextStart(h[k - 1], limit)
  <2>1. h = [k \in 0..(n - 1) |-> e(k)]
    BY <1>10
  <2> HIDE DEF e
  <2>2. \A k \in 0..(n - 1) : h[k] = e(k)
    BY <2>1
  <2> QED
    BY <2>2 DEF e
<1>12. DOMAIN h = 0..(n - 1)
  <2> DEFINE e(k) == IF k = 0 THEN 1 ELSE NextStart(h[k - 1], limit)
  <2>1. h = [k \in 0..(n - 1) |-> e(k)]
    BY <1>10
  <2> HIDE DEF e
  <2> QED
    BY <2>1
<1> HIDE DEF Is, g
<1> DEFINE Met(x) == \E k \in 0..(n - 1) : h[k] <= x /\ x < h[k] + limit
           Behind(k) == /\ h[k] \in Nat /\ 1 <= h[k] /\ h[k] <= top
                        /\ h[k] = top \/ k < h[k]
                        /\ \A x \in Nat : 1 <= x /\ x < h[k] + limit => Met(x)
<1>13. Behind(n - 1)
  <2> DEFINE Bad == {k \in Nat : k \in 0..(n - 1) /\ ~Behind(k)}
  <2>1. SUFFICES ASSUME Bad # {}
                 PROVE  FALSE
    BY <1>4
  <2>2. PICK k \in Bad : \A j \in Bad : k <= j
    BY <2>1, HasLeast
  <2>3. k \in Nat /\ k \in 0..(n - 1) /\ ~Behind(k)
    BY <2>2
  <2>4. CASE k = 0
    <3>1. h[0] = 1 /\ 0 \in 0..(n - 1)
      BY <1>4, <1>11
    <3>2. \A x \in Nat : 1 <= x /\ x < h[0] + limit => Met(x)
      BY <3>1
    <3>3. Behind(0)
      BY <1>4, <3>1, <3>2
    <3> QED
      BY <2>3, <2>4, <3>3
  <2>5. CASE k # 0
    <3>1. k - 1 \in Nat /\ k - 1 \in 0..(n - 1) /\ ~(k <= k - 1)
      BY <1>4, <2>3, <2>5
    <3>2. Behind(k - 1)
      <4> HIDE DEF Behind
      <4>1. k - 1 \notin Bad
        BY <2>2, <3>1
      <4> QED
        BY <3>1, <4>1
    <3> DEFINE b == h[k - 1]
               c == h[k]
    <3>3. /\ b \in Nat /\ 1 <= b /\ b <= top /\ (b = top \/ k - 1 < b)
          /\ \A x \in Nat : 1 <= x /\ x < b + limit => Met(x)
      BY <3>2
    <3>4. c = IF b + limit < top THEN b + limit ELSE top
      BY <1>5, <1>11, <2>3, <2>5, <3>3
    <3>5. \A x \in Nat : c <= x /\ x < c + limit => Met(x)
      BY <2>3
    <3> HIDE DEF b, c, Met
    <3>6. c \in Nat /\ 1 <= c /\ c <= top /\ c <= b + limit /\ (c = top \/ k < c)
      BY <1>4, <2>3, <3>3, <3>4
    <3>7. \A x \in Nat : 1 <= x /\ x < c + limit => Met(x)
      BY <1>4, <3>3, <3>5, <3>6
    <3>8. Behind(k)
      BY <3>6, <3>7 DEF c
    <3> QED
      BY <2>3, <3>8
  <2> QED
    BY <2>4, <2>5
<1>14. h[n - 1] = top
  <2>1. h[n - 1] \in Nat /\ h[n - 1] <= top /\ (h[n - 1] = top \/ n - 1 < h[n - 1])
    BY <1>13
  <2>2. top <= n
    BY <1>1, <1>4
  <2> QED
    BY <1>1, <1>4, <2>1, <2>2
<1>15. \A x \in 1..n : Met(x)
  <2> SUFFICES ASSUME NEW x \in 1..n
               PROVE  Met(x)
    OBVIOUS
  <2>1. x \in Nat /\ 1 <= x /\ x < h[n - 1] + limit
    BY <1>1, <1>4, <1>14
  <2> HIDE DEF Met
  <2> QED
    BY <1>13, <2>1
<1>16. ASSUME NEW x \in Listed
       PROVE  \E k \in DOMAIN h : x \in IndexPage(h[k], limit)
  <2>1. x \in 1..n /\ x \in Nat
    BY <1>1, <1>2
  <2>2. PICK k \in 0..(n - 1) : h[k] <= x /\ x < h[k] + limit
    BY <1>15, <2>1
  <2>3. h[k] \in Nat
    <3>1. CASE k = 0
      BY <1>11, <3>1
    <3>2. CASE k # 0
      <4> DEFINE Bad == {j \in Nat : j \in 0..(n - 1) /\ h[j] \notin Nat}
      <4>1. SUFFICES ASSUME Bad # {}
                     PROVE  FALSE
        BY <1>4
      <4>2. PICK j \in Bad : \A i \in Bad : j <= i
        BY <4>1, HasLeast
      <4>3. j \in Nat /\ j \in 0..(n - 1) /\ h[j] \notin Nat /\ j # 0
        BY <1>11, <4>2
      <4>4. j - 1 \in Nat /\ j - 1 \in 0..(n - 1) /\ h[j - 1] \in Nat
        BY <1>4, <4>2, <4>3
      <4> QED
        BY <1>5, <1>11, <4>3, <4>4
    <3> QED
      BY <3>1, <3>2
  <2>4. x \in IndexPage(h[k], limit)
    BY <1>4, <2>2, <2>3, PageHasItsBuckets
  <2> QED
    BY <1>12, <2>4
<1>17. UNION {IndexPage(h[k], limit) : k \in DOMAIN h} \subseteq Listed
  BY PageIsListed
<1>18. UNION {IndexPage(h[k], limit) : k \in DOMAIN h} = Listed
  BY <1>16, <1>17
<1> QED
  BY <1>18 DEF h

-----------------------------------------------------------------------------
(* What the queue holds can be listed at any time.                         *)
LEMMA ListableStep ==
  ASSUME Assumptions, TypeInv, RecordsInv, ListableOK, [Next]_vars
  PROVE  ListableOK'
<1> USE DEF RecordsInv
<1>1. CASE StandsStill \/ RestsOn \/ RunsOn
  <2>1. Drawn' = Drawn /\ queueDB' = queueDB /\ creating' = creating
    BY <1>1, DrawnAfter DEF StandsStill, RestsOn, RunsOn, databases
  <2>2. ~Resting' => ~Resting /\ cmd' = cmd
    BY <1>1 DEF StandsStill, RestsOn, RunsOn, Running, Resting, AlteringIndex
  <2> QED
    BY <2>1, <2>2 DEF ListableOK
<1>2. ASSUME NEW k \in Creators, Draws(k)
      PROVE  ListableOK'
  <2>1. /\ \A l \in Creators \ {k} : creating'[l] = creating[l]
        /\ creating'[k].queue_id = queueCounter + 1
        /\ Drawn' = Drawn \cup {k} /\ Drawn \subseteq Creators
        /\ queueCounter \in Nat
        /\ UNCHANGED <<queueDB, pc, cmd, ready>>
    BY <1>2, DrawnAfter DEF Draws, TypeInv, TypeOK, Drawn
  <2>2. (Resting' <=> Resting) /\ queueCounter + 1 # 0
    BY <2>1 DEF Resting, AlteringIndex
  <2>3. \A l \in Drawn' : creating'[l].queue_id # 0
    BY <2>1, <2>2 DEF ListableOK
  <2> QED
    BY <2>1, <2>2, <2>3 DEF ListableOK
<1>3. ASSUME NEW k \in Creators, SavePayload(k)
      PROVE  ListableOK'
  <2>1. \A l \in Creators : creating'[l].queue_id = creating[l].queue_id
    <3>1. creating[k] \in DocumentCreations \cup OtherCreations
      BY <1>3, CreationsType DEF SavePayload, TypeInv, TypeOK
    <3> QED
      BY <1>3, <3>1 DEF SavePayload, DocumentCreations, OtherCreations, TypeInv, TypeOK
  <2>2. /\ Drawn' = Drawn /\ Drawn \subseteq Creators
        /\ Resting' <=> Resting
        /\ UNCHANGED <<queueDB, cmd>>
    BY <1>3, DrawnAfter DEF SavePayload, processing, indexing, Resting, AlteringIndex, Drawn
  <2> QED
    BY <2>1, <2>2 DEF ListableOK
<1>4. ASSUME NEW k \in Creators, SaveKey(k)
      PROVE  ListableOK'
  <2>1. /\ queueDB' = queueDB \cup {NewRecord(k)}
        /\ NewRecord(k).queue_id = creating[k].queue_id
    BY <1>4, KeySaved DEF NewRecord
  <2>2. /\ k \in Drawn /\ Drawn' = Drawn \ {k} /\ Drawn \subseteq Creators
        /\ \A l \in Creators \ {k} : creating'[l] = creating[l]
        /\ UNCHANGED <<pc, cmd, ready>>
        /\ Resting' <=> Resting
    BY <1>4, DrawnAfter DEF SaveKey, processing, indexing, Resting, AlteringIndex, TypeInv, TypeOK,
       Drawn
  <2>3. IsFiniteSet(queueDB')
    BY <2>1, FS_AddElement DEF ListableOK
  <2> QED
    BY <2>1, <2>2, <2>3 DEF ListableOK
<1>5. CASE FetchCommand \/ FinishTasks \/ RemoveKey \/ RemovePayload \/ WriteKey
  <2>1. Drawn' = Drawn /\ creating' = creating
    BY <1>5, DrawnAfter DEF FetchCommand, FinishTasks, RemoveKey, RemovePayload, WriteKey
  <2>2. CASE FetchCommand
    <3>1. queueDB' = queueDB /\ cmd' \in queueDB
      BY <2>2 DEF FetchCommand, databases, Queued
    <3> QED
      BY <2>1, <3>1 DEF ListableOK
  <2>3. CASE ~FetchCommand
    <3>1. pc \in {"settle", "remove", "purge", "write"} /\ cmd \in Commands
      BY <1>5, <2>3 DEF FinishTasks, RemoveKey, RemovePayload, WriteKey, TypeInv, TypeOK, InHand
    <3>2. ~Resting /\ cmd.queue_id # 0
      BY <3>1 DEF Resting, AlteringIndex, ListableOK
    <3>3. cmd'.queue_id = cmd.queue_id
      BY <1>5, <2>3, <3>1 DEF FinishTasks, RemoveKey, RemovePayload, WriteKey, Commands
    <3>4. queueDB' \subseteq queueDB \cup {cmd}
      BY <1>5, <2>3, KeyWritten DEF FinishTasks, databases, RemoveKey, RemovePayload
    <3>5. IsFiniteSet(queueDB')
      BY <3>4, FS_AddElement, FS_Subset DEF ListableOK
    <3> QED
      BY <2>1, <3>2, <3>3, <3>4, <3>5 DEF ListableOK
  <2> QED
    BY <2>2, <2>3
<1>6. CASE ReplaceDocument
  <2>1. /\ \A l \in Creators \ {Processor} : creating'[l] = creating[l]
        /\ creating'[Processor].queue_id = cmd.queue_id
        /\ Drawn' = Drawn \cup {Processor} /\ Drawn \subseteq Creators
        /\ UNCHANGED <<queueDB, cmd>>
        /\ pc = "execute"
    BY <1>6, DrawnAfter DEF ReplaceDocument, Executing, InsertCommand, StartCommand, TypeInv, TypeOK,
       Creators, Drawn
  <2>2. ~Resting
    BY <2>1 DEF Resting, AlteringIndex
  <2> QED
    BY <2>1, <2>2 DEF ListableOK
<1> QED
  BY <1>1, <1>2, <1>3, <1>4, <1>5, <1>6, StepKinds DEF Steps

(* While the queue and the index stand still, following the pages of each  *)
(* from the first one meets every record once and in order, and every      *)
(* bucket that some document has; from every page of the queue the one     *)
(* before leads back and its last page is at the end (queue.cc             *)
(* fillDictionary, posting.cc fillListDictionary), for any number of       *)
(* records, buckets and slots and any limit.                               *)
THEOREM PagesMeetEverything ==
  ASSUME Assumptions, HashesInSpans
  PROVE  Spec => []PagesMeetAll
<1>1. Init => ListableOK
  <2> SUFFICES ASSUME Init PROVE ListableOK
    OBVIOUS
  <2>1. queueDB = {} /\ Drawn = {} /\ Resting
    BY DEF Init, Drawn, NoCreation, Resting
  <2> QED
    BY <2>1, FS_EmptySet DEF ListableOK
<1>2. TypeInv /\ RecordsInv /\ ListableOK /\ [Next]_vars => ListableOK'
  BY ListableStep
<1>3. TypeInv /\ ListableOK => PagesMeetAll
  <2> SUFFICES ASSUME TypeInv, ListableOK PROVE PagesMeetAll
    OBVIOUS
  <2>1. /\ queueDB \in SUBSET Commands /\ index \subseteq Hashes \X Docs
        /\ IsFiniteSet(queueDB) /\ \A c \in queueDB : c.queue_id # NoId
    BY DEF TypeInv, TypeOK, ListableOK, NoId
  <2> QED
    BY <2>1, QueuePagesMeet, IndexPagesMeet DEF PagesMeetAll
<1>4. Spec => [](TypeInv /\ RecordsInv)
  BY RecordsAlways
<1> QED
  BY <1>1, <1>2, <1>3, <1>4, PTL DEF Spec
=============================================================================
