----------------------- MODULE CommandQueueInvariants -----------------------
(***************************************************************************)
(* The inductive invariants from which CommandQueue's safety follows.      *)
(***************************************************************************)
EXTENDS CommandQueue

(* Where the processor is in its round; what TypeOK lacks to be inductive. *)
ControlOK ==
  /\ pc = "load" => ~ready
  /\ pc \in {"fetch"} \cup InHand => ready
  /\ pc \in {"enqueue", "throttle"} /\ ready => cmd \in Commands
  /\ pc \in {"describe", "enqueue", "throttle"} /\ ready =>
       /\ task.doc = cmd.doc
       /\ cmd.action = IF task.op = "Add" THEN "AddDocument" ELSE "DropDocument"
  /\ pc \in {"describe", "insert"} => cmd.action = "AddDocument"
  /\ pc \in {"erase", "undescribe"} => cmd.action = "DropDocument"

TypeInv == TypeOK /\ ControlOK

-----------------------------------------------------------------------------
(* Why a search meets a settled index.  Between two waits for the index    *)
(* the slots' queues hold additions only or deletions only, those of one   *)
(* kind of command; and what the index holds, with what is on its way      *)
(* added or taken away, is always what the documents that are here to stay *)
(* call for.                                                               *)

Pure(op) == \A s \in Slots : \A i \in 1..Len(pending[s]) : pending[s][i].op = op

(* What the slots' queues may hold after a command of the kind.            *)
Phase(action) ==
  CASE action = "AddDocument"  -> Pure("Add")
    [] action = "DropDocument" -> Pure("Delete")
    [] OTHER                   -> Settled

PhasesSeparate ==
  /\ pc = "idle" => Settled
  /\ ~ready /\ pc # "idle" => Pure("Add")
  /\ ~ready /\ pc \in {"enqueue", "throttle"} => task.op = "Add"
  /\ pc \in {"fetch", "settle"} => Phase(previousAction)
  /\ ready /\ pc \notin {"idle", "fetch", "settle"} => Phase(cmd.action)

(* The slots that the task in hand has still to be handed to.              *)
SlotsLeft ==
  {s \in Slots : \/ pc \in {"describe", "enqueue"} /\ s >= task.slot
                 \/ pc = "throttle" /\ s > task.slot}

(* An addition, or a deletion, of entry e has been decided, not done.      *)
Outstanding(op, e) ==
  \E s \in Slots :
    \/ \E i \in 1..Len(pending[s]) :
         /\ pending[s][i].op = op
         /\ e \in Postings(s, pending[s][i].doc, pending[s][i].text)
    \/ /\ s \in SlotsLeft
       /\ task.op = op
       /\ e \in Postings(s, task.doc, task.text)

(* Stored documents init has not got to, or that are about to be erased.   *)
Leaving ==
  {d \in Docs :
    \/ ~ready /\ d \in toLoad
    \/ /\ ready
       /\ pc = "erase" \/ (pc \in {"enqueue", "throttle"} /\ task.op = "Delete")
       /\ d = cmd.doc}

Staying == [d \in Docs |-> IF d \in Leaving THEN NoText ELSE documentDB[d]]

(* A server that closes while it loads cuts the loading short; it runs no  *)
(* command after that.                                                     *)
Complete == ~closing \/ (ready /\ pc \notin {"idle", "fetch"})

(* The entry is in the index or on its way there.                          *)
Arriving(e) == e \in index \/ Outstanding("Add", e)

ExactAt(e) == e \in Indexed(Staying) <=> Arriving(e) /\ ~Outstanding("Delete", e)

IndexExact == \A e \in Hashes \X Docs : ExactAt(e)

IndexFollows == Complete /\ (ready \/ pc # "idle") => IndexExact

FirstLoad ==
  ~ready => /\ described = {d \in Docs : documentDB[d] # NoText}
            /\ pc = "idle" => index = {}

IndexInv == PhasesSeparate /\ IndexFollows /\ FirstLoad

-----------------------------------------------------------------------------
(* Why the queue's records, the payloads and the command in hand agree.    *)

(* What the processor does with its command: it has none; it has taken one *)
(* that is still queued; it is between the two keys of changeStatus; or    *)
(* the command runs.                                                       *)
AlteringIndex == pc \in {"enqueue", "throttle"}

Resting   == pc \in {"idle", "load", "fetch"} \/ (AlteringIndex /\ ~ready)
Taken     == pc = "settle" \/ (pc = "remove" /\ goal = "Active")
Rewriting == pc \in {"purge", "write"}
Running   == ~(Resting \/ Taken \/ Rewriting)

HandOK ==
  /\ \A c \in queueDB : c.status \in {"Active", "Failed"} => Running /\ c = cmd
  /\ Taken \/ Running => cmd \in queueDB
  /\ Taken => cmd.status = "Queued" /\ goal = "Active"
  /\ Rewriting => cmd.status = goal
  /\ pc = "purge" => goal = "Finished"
  /\ Running => \/ cmd.status = "Active"
                \/ cmd.status = "Failed" /\ pc = "remove" /\ goal = "Finished"

(* A queue id is drawn once; only the drop that replaces a document takes  *)
(* the id of the command in hand.                                          *)
Drawn == {k \in Creators : creating[k].step \in {"payload", "key"}}

Replacing == pc = "insert" /\ Processor \in Drawn

Fresh == IF Replacing THEN Drawn \ {Processor} ELSE Drawn

IdsOK ==
  /\ \A c \in queueDB : c.queue_id <= queueCounter
  /\ ~Resting => cmd.queue_id <= queueCounter
  /\ \A k \in Drawn : creating[k].queue_id <= queueCounter
  /\ \A k \in Fresh :
       /\ \A c \in queueDB : c.queue_id # creating[k].queue_id
       /\ ~Resting => cmd.queue_id # creating[k].queue_id
       /\ \A l \in Drawn \ {k} : creating[l].queue_id # creating[k].queue_id

ProcessorCreates ==
  /\ creating[Processor].step # "associate"
  /\ ~creating[Processor].put
  /\ Processor \in Drawn => \/ pc = "execute" /\ cmd.action = "LoadDocuments"
                            \/ pc = "insert"
  /\ Replacing => /\ creating[Processor].queue_id = cmd.queue_id
                  /\ creating[Processor].action = "DropDocument"

(* No id is 0, which stands for the lack of one, and what the queue holds  *)
(* can be counted, as its pages need.                                      *)
ListableOK ==
  /\ IsFiniteSet(queueDB)
  /\ \A c \in queueDB : c.queue_id # 0
  /\ \A k \in Drawn : creating[k].queue_id # 0
  /\ ~Resting => cmd.queue_id # 0

(* No two unfinished commands have one id and one action, so no key that   *)
(* is written hides another; nor is there a drop before an addition that   *)
(* has been taken, until the addition inserts one.                         *)
Like(c, x) == c.queue_id = x.queue_id /\ c.action = x.action

NoDropBefore ==
  \A c \in Unfinished : ~(c.queue_id = cmd.queue_id /\ c.action = "DropDocument")

RecordsOK ==
  /\ \A c, x \in Unfinished : Like(c, x) => c = x
  /\ Rewriting => \A c \in Unfinished : ~Like(c, cmd)
  /\ /\ Taken \/ (pc = "write" /\ goal = "Active") \/ pc = "execute" \/ Replacing
     /\ cmd.action = "AddDocument"
     => NoDropBefore

(* The payloads of the unfinished commands, of the commands to be queued   *)
(* and of the one being rewritten are all different, and all there are.    *)
Queueing  == {k \in Creators : creating[k].step = "key"}
InTransit == pc = "purge" \/ (pc = "write" /\ goal # "Finished")

PayloadsOK ==
  /\ PayloadsMatchCommands
  /\ \A p \in payloadDB : p.id <= payloadCounter
  /\ \A c, x \in Unfinished : c.payload_id = x.payload_id => c = x
  /\ \A k, l \in Queueing : creating[k].payload_id = creating[l].payload_id => k = l
  /\ \A c \in Unfinished : \A k \in Queueing : c.payload_id # creating[k].payload_id
  /\ InTransit => /\ \A c \in Unfinished : c.payload_id # cmd.payload_id
                  /\ \A k \in Queueing : creating[k].payload_id # cmd.payload_id

FinishedOK ==
  /\ \A c \in queueDB : c.status = "Finished" => c.payload_id = 0
  /\ pc = "write" /\ goal = "Finished" => cmd.payload_id = 0

(* A dropped document leaves the associations before its text goes.        *)
Dropping == ready /\ (pc = "erase" \/ (AlteringIndex /\ task.op = "Delete"))

AssociationsOK ==
  /\ AssociationsSound
  /\ Dropping => \A a \in associationDB : cmd.doc \notin a

RecordsInv ==
  HandOK /\ IdsOK /\ ProcessorCreates /\ RecordsOK /\ PayloadsOK /\ FinishedOK
=============================================================================
