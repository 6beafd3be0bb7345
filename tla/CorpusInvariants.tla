-------------------------- MODULE CorpusInvariants --------------------------
(***************************************************************************)
(* Why every step of the queue is one of the corpus, and why the last      *)
(* write of a client wins: what the invariants of CommandQueueInvariants   *)
(* do not say.                                                             *)
(***************************************************************************)
EXTENDS QueueImplementsCorpus, CommandQueueInvariants

(* Two live commands have one id only while an addition waits for the drop *)
(* of its own document that it has inserted: one job, of one document.     *)
MakesRoomFor(c, a) ==
  c.action = "DropDocument" /\ a.action = "AddDocument" /\ c.doc = a.doc

IdsShared ==
  /\ \A c, a \in Live : c.queue_id = a.queue_id =>
       c = a \/ MakesRoomFor(c, a) \/ MakesRoomFor(a, c)
  /\ Replacing => creating[Processor].doc = cmd.doc

(* An addition has one text from the request to its end, so none fails.    *)
HasText(r) ==
  r.action = "AddDocument" => \A p \in payloadDB : p.id = r.payload_id => p.body # NoText

TextsOK ==
  /\ \A p, q \in payloadDB : p.id = q.id => p = q
  /\ \A k \in Drawn \ Queueing :
       creating[k].action = "AddDocument" => creating[k].body # NoText
  /\ \A k \in Queueing : HasText(creating[k])
  /\ \A c \in Live : HasText(c)
  /\ goal # "Failed"

(* What a command that has taken effect leaves until it is retired: no     *)
(* other step of the server undoes it.  A job that has stored its text is  *)
(* not one of two commands any more.                                       *)
Effective == pc = "remove" /\ goal = "Finished"
HasStored == pc = "describe" \/ (AlteringIndex /\ ready) \/ Effective

EffectsOK ==
  /\ HasStored /\ cmd.action = "AddDocument" =>
       /\ NoDropBefore
       /\ \A p \in payloadDB : p.id = cmd.payload_id => documentDB[cmd.doc] = p.body
  /\ (pc = "undescribe" \/ Effective) /\ cmd.action = "DropDocument" =>
       documentDB[cmd.doc] = NoText
  /\ Effective /\ cmd.action = "AddAssociation" =>
       \A e \in Docs : Matching(cmd.doc, e) => {cmd.doc, e} \in associationDB
  /\ Effective /\ cmd.action = "AddAssociations" =>
       \A d, e \in Docs : Matching(d, e) => {d, e} \in associationDB

(* The documents with metadata are those with a text, but for the one that *)
(* is being written or removed.                                            *)
DescribedOK ==
  \A d \in Docs :
    \/ d \in described <=> documentDB[d] # NoText
    \/ pc \in {"describe", "undescribe"} /\ d = cmd.doc

EmptyHanded == Resting /\ pc # "fetch" => cmd = NoCommand

CorpusInv == IdsShared /\ TextsOK /\ EffectsOK /\ DescribedOK /\ EmptyHanded

-----------------------------------------------------------------------------
(* Why the last write wins for one client.  Its requests come one after    *)
(* the other and nothing else draws a queue id, so ids are in the order of *)
(* the requests; the processor finishes commands in that order; and the    *)
(* last finished write of a document, or the one that is about to finish,  *)
(* is the one that the stored text shows.                                  *)
OneClient == (\A g, h \in Handlers : g = h) /\ "load" \notin Served

NoLoads ==
  /\ \A c \in queueDB : c.action # "LoadDocuments"
  /\ cmd \in Commands => cmd.action # "LoadDocuments"
  /\ \A k \in Drawn : creating[k].action # "LoadDocuments"

DrawnLast == \A k \in Fresh : creating[k].queue_id = queueCounter

Completed == {c \in queueDB : c.status = "Finished"}
Held      == IF Resting THEN {} ELSE {cmd}

Precedes(c, x) ==
  \/ c.queue_id < x.queue_id
  \/ c.queue_id = x.queue_id /\ MakesRoomFor(c, x)

(* Where the command in hand is not about to go back behind its drop.      *)
Foremost ==
  /\ ~Resting
  /\ ~(pc = "insert" \/ (pc \in {"remove", "write"} /\ goal = "Queued"))

InOrder ==
  /\ \A c \in Completed : \A x \in Unfinished \cup Held : Precedes(c, x)
  /\ Foremost => \A x \in Unfinished \ {cmd} : Precedes(cmd, x)
  /\ pc = "insert" => \A c \in Completed : c.queue_id # cmd.queue_id

(* The command in hand has changed the text of its document.               *)
Ending == pc = "purge" \/ (pc = "write" /\ goal = "Finished")

HasWritten ==
  \/ cmd.action = "AddDocument" /\ (HasStored \/ Ending)
  \/ cmd.action = "DropDocument" /\ (pc = "undescribe" \/ Effective \/ Ending)

IsWrite(c) == c.action \in {"AddDocument", "DropDocument"}

Shows(c) == documentDB[c.doc] # NoText <=> c.action = "AddDocument"

LastWriteShows ==
  /\ Ending /\ IsWrite(cmd) => Shows(cmd)
  /\ \A c \in Completed :
       IsWrite(c) /\ (\A x \in Completed : IsWrite(x) /\ x.doc = c.doc => ~Before(c, x)) =>
         Shows(c) \/ (HasWritten /\ cmd.doc = c.doc)

ClientInv == NoLoads /\ DrawnLast /\ InOrder /\ LastWriteShows
=============================================================================
