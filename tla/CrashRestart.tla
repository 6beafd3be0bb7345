--------------------------- MODULE CrashRestart ---------------------------
(***************************************************************************)
(* A server that is killed between any two steps and started again on the  *)
(* databases it left, any number of times.                                 *)
(*                                                                         *)
(* What is in memory is gone: requests that were being answered, the       *)
(* command in hand, the index and its tasks.  The databases keep every     *)
(* call that had returned, the mildest outcome of a kill; or payload.kch,  *)
(* a file of its own, lags behind the others, as after a power failure: a  *)
(* payload that is lost reads as one without a text, and stays here so.    *)
(***************************************************************************)
EXTENDS CommandQueue

CONSTANT MaxPayloadId  \* bound of the model: crashes stop at this payload id

ASSUME CrashAssumption == MaxPayloadId \in Nat

(* The registry of a new process: Posting's constructor, an empty index.   *)
Restart ==
  /\ creating' = [c \in Creators |-> NoCreation]
  /\ pc' = "idle"
  /\ cmd' = NoCommand
  /\ goal' = "Active"
  /\ previousAction' = "NullAction"
  /\ task' = NoTask
  /\ toLoad' = {}
  /\ pending' = [s \in Slots |-> <<>>]
  /\ index' = {}
  /\ ready' = FALSE
  /\ closing' = FALSE

Crash ==
  /\ payloadCounter < MaxPayloadId
  /\ \E lost \in SUBSET {p \in payloadDB : p.body # NoText} :
       payloadDB' = (payloadDB \ lost) \cup {[p EXCEPT !.body = NoText] : p \in lost}
  /\ Restart
  /\ UNCHANGED <<queueCounter, payloadCounter, queueDB, documents>>

(* Posting::init dereferences the document it got for a pair of the        *)
(* metadata: where there is no text it got none, and the process dies.     *)
LoadMissing ==
  /\ pc = "load"
  /\ \E d \in toLoad : documentDB[d] = NoText
  /\ Restart
  /\ UNCHANGED <<databases, documents>>

(* The queues of all slots were empty when the processor woke: deleteDocument *)
(* returns 0 for the document it has just handed to them, and the assert   *)
(* of command.cc:142 ends the process.                                     *)
DropUncounted ==
  /\ pc = "throttle" /\ task.op = "Delete" /\ task.slot = SlotCount
  /\ ~task.counted /\ pending[task.slot] = <<>>
  /\ Restart
  /\ UNCHANGED <<databases, documents>>

CrashNext == Next \/ Crash \/ LoadMissing \/ DropUncounted

CrashSpec == Init /\ [][CrashNext]_vars

(* The threads of a running server run on, to the assert that fails if     *)
(* need be, and the kills end some day.                                    *)
CrashFairSpec == CrashSpec /\ Fairness /\ WF_vars(DropUncounted) /\ <>[][~Crash]_vars

-----------------------------------------------------------------------------
(* A kill never separates an unfinished command from its payload: only a   *)
(* database that loses what it was given makes a command fail for want of  *)
(* its text (command.cc:81-82 writes the payload first, changeStatus       *)
(* removes it only when the key is gone).                                  *)
UnfinishedHavePayload ==
  \A c \in Unfinished : \E p \in payloadDB : p.id = c.payload_id

(* After any number of kills, an index that has settled agrees with the    *)
(* databases: it has no entry of a document that is not stored, nor of a   *)
(* text that is stored no longer, and it has every stored document that a  *)
(* kill has not left without its metadata, the one that was in hand among  *)
(* them (posting.cc:290-310).                                              *)
SettledIndexIsStored ==
  pc = "idle" /\ ready =>
    /\ index \subseteq Indexed(documentDB)
    /\ ~closing => {e \in Indexed(documentDB) : e[2] \in described} \subseteq index

(* What a kill found in hand; nothing takes it up again.                   *)
Abandoned(c) ==
  c.status \in {"Active", "Failed"} /\ (cmd = NoCommand \/ cmd.queue_id # c.queue_id)

(* Command id has run to its end, or a kill found it in hand.  While its   *)
(* key is being rewritten it has not, though the queue lacks its record.   *)
Ended(id) ==
  /\ \A c \in queueDB : c.queue_id = id => c.status = "Finished" \/ Abandoned(c)
  /\ ~(pc \in {"purge", "write"} /\ cmd.queue_id = id)

(* The server cannot start: init meets a document that has metadata and no *)
(* text, and so will every later start.                                    *)
CannotStart == pc = "load" /\ \E d \in toLoad : documentDB[d] = NoText

(* Every command that is queued, the drops of replacements included, is    *)
(* finished some day, through restarts and with payloads lost: the         *)
(* processor is never stuck behind a slot that throttles it, a replacement *)
(* or a drop is not retried for ever, an addition without its text gives   *)
(* up.  Excepted are commands that a kill or a failed assert found in      *)
(* hand, a server that closes, and one that can no longer start.  How a    *)
(* command ends is not said: the one to associate a missing document ends  *)
(* as finished, where api.cc:304 announces that it is marked as failed.    *)
EveryCommandFinishes ==
  \A id \in 1..(MaxQueueId + Cardinality(Handlers)) :
    (\E c \in Queued : c.queue_id = id) ~> closing \/ Ended(id) \/ CannotStart
=============================================================================
