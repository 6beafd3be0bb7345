----------------------- MODULE QueueImplementsCorpus -----------------------
(***************************************************************************)
(* The command queue implements the corpus.                                *)
(*                                                                         *)
(* A job is an unfinished command, in the queue or in the processor's      *)
(* hand, with the text of its payload.  The drop that the processor        *)
(* inserts to make room for an addition is part of the addition's job: it  *)
(* shares the addition's queue id.                                         *)
(***************************************************************************)
EXTENDS CommandQueue

Kind == [AddDocument     |-> "write",
         DropDocument    |-> "erase",
         AddAssociation  |-> "link",
         AddAssociations |-> "link all",
         LoadDocuments   |-> "load"]

Holding == pc \notin {"idle", "load", "fetch"} /\ cmd # NoCommand

Live == {c \in queueDB \cup (IF Holding THEN {cmd} ELSE {}) : c.status # "Finished"}

(* The command whose job c is part of.                                     *)
Principal(c) ==
  IF \E a \in Live : a.queue_id = c.queue_id /\ a.action = "AddDocument"
  THEN CHOOSE a \in Live : a.queue_id = c.queue_id /\ a.action = "AddDocument"
  ELSE c

TextOf(c) ==
  IF c.action # "AddDocument" THEN NoText
  ELSE (CHOOSE p \in payloadDB : p.id = c.payload_id).body

Job(c) ==
  LET p == Principal(c)
  IN  [id |-> p.queue_id, kind |-> Kind[p.action], doc |-> p.doc, text |-> TextOf(p)]

AbstractJobs == {Job(c) : c \in Live}

AbstractCurrent ==
  IF Holding /\ cmd.status # "Finished" THEN Job(cmd) ELSE NoCommand

OverlappingTexts ==
  {p \in Texts \X Texts : PostingHashes[p[1]] \cap PostingHashes[p[2]] # {}}

Abstract == INSTANCE Corpus WITH
  jobs        <- AbstractJobs,
  current     <- AbstractCurrent,
  stored      <- documentDB,
  links       <- associationDB,
  NoJob       <- NoCommand,
  Ids         <- Nat,
  Overlapping <- OverlappingTexts

ASSUME NoCommandIsNull == NoCommand \notin Commands \cup Abstract!Jobs

(* Every behaviour of the queue is one of the corpus: commands take effect *)
(* one at a time and oldest first among those accepted, an addition stores *)
(* its own text whatever was there before, a search sees everything that   *)
(* was stored before it, and no command counts as finished without its     *)
(* effect (queue.cc processQueue, command.cc).                             *)
ImplementsCorpus == Abstract!Spec
=============================================================================
