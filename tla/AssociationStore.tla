--------------------------- MODULE AssociationStore ---------------------------
(***************************************************************************)
(* The database of associations, call by call.                             *)
(*                                                                         *)
(* An association of two documents has two keys, one for each order of the *)
(* pair: one holds the passages found, the other "x", which means "read    *)
(* the other key, and swap the sides" (association.cc load, save).  One    *)
(* command associates one document or all of them; for all, a queue of     *)
(* tasks is worked off by several threads, each of which searches, loads   *)
(* or matches, and saves (command.cc addAssociations, search.cc execute).  *)
(* Dropping a document removes both keys of each of its associations.      *)
(*                                                                         *)
(* A document here is the version of its text, so that passages found in   *)
(* an earlier text are told apart.  The index offers any documents of the  *)
(* requested range to a search, in any order; matching decides, until the  *)
(* search has its number of results.  An operator that stands unused       *)
(* before a like one is a faulty variant of it.                            *)
(***************************************************************************)
EXTENDS Naturals, FiniteSets

CONSTANTS
  Docs,       \* documents
  Matches,    \* the pairs {d, o} whose texts share a passage
  Threads,    \* the threads of a task queue
  NumResults, \* associations that one search makes at most (-num_results)
  Mark,       \* the value "x"
  Garbage,    \* what comes of reading "x" as passages
  Nothing,    \* no record, or no passage
  NoDoc,      \* no document
  Ranges,     \* bound of the model: the ranges of documents that requests name
  Readable,   \* bound of the model: documents whose associations are asked for
  MaxRead,    \* bound of the model: texts stored when they are asked for; one more meanwhile
  MaxVersion, \* bound of the model: texts stored, of all documents
  MaxKills    \* bound of the model: kills of the server

ASSUME StoreAssumptions ==
  /\ Matches \subseteq {{d, o} : d, o \in Docs}
  /\ NoDoc \notin Docs /\ Readable \subseteq Docs /\ Ranges \subseteq SUBSET Docs
  /\ IsFiniteSet(Docs) /\ NumResults \in Nat \ {0}
  /\ Mark # Garbage /\ Mark # Nothing /\ Garbage # Nothing
  /\ {Mark, Garbage, Nothing} \cap (Nat \X Nat) = {}
  /\ MaxRead \in Nat /\ MaxVersion \in Nat /\ MaxKills \in Nat

VARIABLES
  stored,    \* document -> version of its text, 0 for none
  versions,  \* versions used
  db,        \* associationDB: pair of documents -> value
  cmd,       \* the command the processor has in hand
  thread,    \* thread -> the search it is at
  aborted,   \* an assertion has failed
  kills,     \* kills so far
  met,       \* history: pairs that two threads were at, from both ends at once
  reader     \* a request that reads the associations of a document

vars == <<stored, versions, db, cmd, thread, aborted, kills, met, reader>>

Stored == {d \in Docs : stored[d] # 0}

NoCommand  == [action |-> "none", doc |-> NoDoc, other |-> NoDoc, docs |-> {}, targets |-> {},
               todo |-> {}, removed |-> TRUE]
NoReader   == [step |-> "none", doc |-> NoDoc, version |-> 0, other |-> NoDoc, todo |-> {},
               disturbed |-> FALSE]
IdleThread == [step |-> "idle", doc |-> NoDoc, other |-> NoDoc, todo |-> {}, results |-> Nothing,
               saved |-> {}]

Init ==
  /\ stored = [d \in Docs |-> 0]
  /\ versions = 0
  /\ db = [p \in Docs \X Docs |-> Nothing]
  /\ cmd = NoCommand
  /\ thread = [t \in Threads |-> IdleThread]
  /\ aborted = FALSE
  /\ kills = 0
  /\ met = {}
  /\ reader = NoReader

Running == ~aborted

-----------------------------------------------------------------------------
(* Commands of the processor, one at a time.                               *)
AddDocument(d) ==
  /\ Running /\ cmd = NoCommand
  /\ d \notin Stored
  /\ versions < IF reader = NoReader THEN MaxVersion ELSE MaxRead + 1
  /\ versions' = versions + 1
  /\ stored' = [stored EXCEPT ![d] = versions + 1]
  /\ UNCHANGED <<db, cmd, thread, aborted, kills, met, reader>>

AddAssociations(docs, targets) ==
  /\ Running /\ cmd = NoCommand
  /\ docs # {}
  /\ cmd' = [NoCommand EXCEPT !.action = "associate", !.docs = docs, !.targets = targets, !.todo = docs]
  /\ UNCHANGED <<stored, versions, db, thread, aborted, kills, met, reader>>

(* One task of the queue: Search::createPermanentSearch.                   *)
TakeTask(t) ==
  /\ Running
  /\ thread[t].step = "idle"
  /\ \E d \in cmd.todo :
       /\ cmd.action = "associate"
       /\ cmd' = [cmd EXCEPT !.todo = @ \ {d}]
       /\ thread' = [thread EXCEPT ![t] =
            [IdleThread EXCEPT !.step = "next", !.doc = d, !.todo = (Stored \cap cmd.targets) \ {d}]]
  /\ UNCHANGED <<stored, versions, db, aborted, kills, met, reader>>

Match(d, o) == IF {d, o} \in Matches THEN <<stored[d], stored[o]>> ELSE Nothing

KeepSides(v) == v

Flip(v) == IF v = Garbage THEN v ELSE <<v[2], v[1]>>

RoomForTwo(t) == Cardinality(thread[t].saved) + 1 < NumResults

(* A search goes on until it has its number of results (search.cc:57).     *)
HasRoom(t) == Cardinality(thread[t].saved) < NumResults

LoadAny(t) ==
  /\ Running
  /\ thread[t].step = "next" /\ HasRoom(t)
  /\ \E o \in thread[t].todo :
       LET d == thread[t].doc
           v == db[<<d, o>>]
       IN  thread' = [thread EXCEPT ![t] =
             [@ EXCEPT !.step = "save", !.other = o, !.todo = @ \ {o},
                       !.results = IF v = Nothing THEN Match(d, o) ELSE v]]
  /\ UNCHANGED <<stored, versions, db, cmd, aborted, kills, met, reader>>

(* Another thread is at the pair, from its other end.                      *)
AtBothEnds(t, o) ==
  \E u \in Threads \ {t} : thread[u].doc = o /\ thread[u].other = thread[t].doc

(* Association::Association: load, and match if there is nothing to load.  *)
LoadKey(t) ==
  /\ Running
  /\ thread[t].step = "next" /\ HasRoom(t)
  /\ \E o \in thread[t].todo :
       LET d == thread[t].doc
           v == db[<<d, o>>]
           s == [thread[t] EXCEPT !.other = o, !.todo = @ \ {o}]
       IN  /\ thread' = [thread EXCEPT ![t] =
                 IF v = Mark THEN [s EXCEPT !.step = "reverse"]
                 ELSE [s EXCEPT !.step = "save", !.results = IF v = Nothing THEN Match(d, o) ELSE v]]
           /\ met' = IF AtBothEnds(t, o) THEN met \cup {{d, o}} ELSE met
  /\ UNCHANGED <<stored, versions, db, cmd, aborted, kills, reader>>

(* If the other key is "x" as well, its letter is read as a passage.       *)
LoadReverse(t) ==
  /\ Running
  /\ thread[t].step = "reverse"
  /\ LET d == thread[t].doc
         o == thread[t].other
         v == db[<<o, d>>]
     IN  thread' = [thread EXCEPT ![t].step = "save",
                                  ![t].results = IF v = Nothing THEN Match(d, o)
                                                 ELSE IF v = Mark THEN Garbage ELSE Flip(v)]
  /\ UNCHANGED <<stored, versions, db, cmd, aborted, kills, met, reader>>

MarkFirst(d, o, v) ==
  <<[key |-> <<o, d>>, value |-> Mark], [key |-> <<d, o>>, value |-> v]>>

(* Association::save, two records: passages, and then "x".                 *)
SavedRecords(d, o, v) ==
  <<[key |-> <<d, o>>, value |-> v], [key |-> <<o, d>>, value |-> Mark]>>

SaveRecord(t, i) ==
  LET r == SavedRecords(thread[t].doc, thread[t].other, thread[t].results)[i]
  IN  db' = [db EXCEPT ![r.key] = r.value]

(* An association without a passage is not saved (search.cc execute).      *)
SaveKey(t) ==
  /\ Running
  /\ thread[t].step = "save"
  /\ IF thread[t].results = Nothing
     THEN /\ thread' = [thread EXCEPT ![t].step = "next", ![t].other = NoDoc]
          /\ UNCHANGED db
     ELSE /\ SaveRecord(t, 1)
          /\ thread' = [thread EXCEPT ![t].step = "mark"]
  /\ UNCHANGED <<stored, versions, cmd, aborted, kills, met, reader>>

SaveReverse(t) ==
  /\ Running
  /\ thread[t].step = "mark"
  /\ SaveRecord(t, 2)
  /\ thread' = [thread EXCEPT ![t] = [thread[t] EXCEPT !.step = "next", !.other = NoDoc, !.results = Nothing,
                                                      !.saved = @ \cup {thread[t].other}]]
  /\ UNCHANGED <<stored, versions, cmd, aborted, kills, met, reader>>

EndTask(t) ==
  /\ Running
  /\ thread[t].step = "next"
  /\ thread[t].todo = {} \/ ~HasRoom(t)
  /\ thread' = [thread EXCEPT ![t] = IdleThread]
  /\ UNCHANGED <<stored, versions, db, cmd, aborted, kills, met, reader>>

TasksTaken == cmd.todo = {}

(* The queue of tasks is finished when its threads are through.            *)
TasksFinished == cmd.todo = {} /\ \A t \in Threads : thread[t] = IdleThread

EndAssociations ==
  /\ Running
  /\ cmd.action = "associate"
  /\ TasksFinished
  /\ cmd' = NoCommand
  /\ UNCHANGED <<stored, versions, db, thread, aborted, kills, met, reader>>

-----------------------------------------------------------------------------
DropFromAll(d) ==
  /\ Running /\ cmd = NoCommand
  /\ d \in Stored
  /\ cmd' = [NoCommand EXCEPT !.action = "drop", !.doc = d, !.todo = Stored \ {d}]
  /\ UNCHANGED <<stored, versions, db, thread, aborted, kills, met, reader>>

(* Command::dropDocument lists the associations, removes each, and erases  *)
(* the document.  What is listed is loaded, or matched if that fails,      *)
(* which takes both documents.                                             *)
DropDocument(d) ==
  /\ Running /\ cmd = NoCommand
  /\ d \in Stored
  /\ LET others == {o \in Docs : db[<<d, o>>] # Nothing}
     IN  /\ aborted' = \E o \in others \ Stored : db[<<d, o>>] = Mark /\ db[<<o, d>>] = Nothing
         /\ cmd' = [NoCommand EXCEPT !.action = "drop", !.doc = d, !.todo = others]
  /\ reader' = [reader EXCEPT !.disturbed = @ \/ d \in {reader.doc, reader.other} \cup reader.todo]
  /\ UNCHANGED <<stored, versions, db, thread, kills, met>>

(* Association::remove takes the second key only if the first was there.   *)
RemoveKey ==
  /\ Running
  /\ cmd.action = "drop"
  /\ \E o \in cmd.todo :
       LET there == db[<<cmd.doc, o>>] # Nothing
       IN  /\ db' = [db EXCEPT ![<<cmd.doc, o>>] = Nothing]
           /\ cmd' = [cmd EXCEPT !.todo = @ \ {o},
                                 !.other = IF there THEN o ELSE @,
                                 !.action = IF there THEN "unmark" ELSE @,
                                 !.removed = @ /\ there]
  /\ UNCHANGED <<stored, versions, thread, aborted, kills, met, reader>>

KeepReverse ==
  /\ Running
  /\ cmd.action = "unmark"
  /\ cmd' = [cmd EXCEPT !.action = "drop", !.other = NoDoc]
  /\ UNCHANGED <<stored, versions, db, thread, aborted, kills, met, reader>>

RemoveReverse ==
  /\ Running
  /\ cmd.action = "unmark"
  /\ cmd' = [cmd EXCEPT !.action = "drop", !.other = NoDoc,
                        !.removed = @ /\ db[<<cmd.other, cmd.doc>>] # Nothing]
  /\ db' = [db EXCEPT ![<<cmd.other, cmd.doc>>] = Nothing]
  /\ UNCHANGED <<stored, versions, thread, aborted, kills, met, reader>>

(* The drop asserts that every removal found its keys.                     *)
EraseDocument ==
  /\ Running
  /\ cmd.action = "drop" /\ cmd.todo = {}
  /\ IF cmd.removed
     THEN /\ stored' = [stored EXCEPT ![cmd.doc] = 0]
          /\ met' = {p \in met : cmd.doc \notin p}
          /\ cmd' = NoCommand
          /\ UNCHANGED aborted
     ELSE aborted' = TRUE /\ UNCHANGED <<stored, met, cmd>>
  /\ UNCHANGED <<versions, db, thread, kills, reader>>

(* A kill and a restart; what was in hand is not taken up again.           *)
Kill ==
  /\ Running
  /\ kills < MaxKills
  /\ kills' = kills + 1
  /\ cmd' = NoCommand
  /\ thread' = [t \in Threads |-> IdleThread]
  /\ reader' = NoReader
  /\ UNCHANGED <<stored, versions, db, aborted, met>>

-----------------------------------------------------------------------------
(* A request for the associations of a document (search.cc                 *)
(* getPermanentSearch, association.cc getAssociations).  Its thread holds  *)
(* the document's text and the keys it has listed, and reads them one by   *)
(* one while the processor goes on.                                        *)
Dropping == cmd.action \in {"drop", "unmark"}

StartReading(d) ==
  /\ Running
  /\ reader = NoReader /\ kills = 0 /\ versions <= MaxRead
  /\ d \in Stored
  /\ LET others == {o \in Docs : db[<<d, o>>] # Nothing}
     IN  reader' = [step |-> "key", doc |-> d, version |-> stored[d], other |-> NoDoc, todo |-> others,
                    disturbed |-> Dropping /\ cmd.doc \in others \cup {d}]
  /\ UNCHANGED <<stored, versions, db, cmd, thread, aborted, kills, met>>

(* What is read is put into the answer.  If there was nothing to read the  *)
(* two texts are matched, and a document that is gone is dereferenced      *)
(* (association.cc:73-79).  A key "x" that points to an "x" is parsed as a *)
(* record: its letter is a number, the rest of it is past its end.         *)
Answer(o, v, todo, turned) ==
  LET result == IF v = Nothing THEN Match(reader.doc, o) ELSE v
      fails  == v = Nothing /\ o \notin Stored
      good   == result = <<reader.version, stored[o]>>
      step   == IF fails THEN "failed" ELSE IF result = Garbage THEN "garbled" ELSE IF good THEN "key" ELSE "wrong"
  IN  /\ aborted' = fails
      /\ reader' = [reader EXCEPT !.step = step, !.other = IF step = "key" THEN NoDoc ELSE o,
                                  !.todo = todo, !.disturbed = @ \/ turned]

ReadKey ==
  /\ Running
  /\ reader.step = "key"
  /\ \E o \in reader.todo :
       LET v == db[<<reader.doc, o>>]
       IN  IF v = Mark
           THEN /\ reader' = [reader EXCEPT !.step = "reverse", !.other = o, !.todo = @ \ {o}]
                /\ UNCHANGED aborted
           ELSE Answer(o, v, reader.todo \ {o}, FALSE)
  /\ UNCHANGED <<stored, versions, db, cmd, thread, kills, met>>

(* A thread that saves the pair again may have turned it around since.     *)
ReadReverse ==
  /\ Running
  /\ reader.step = "reverse"
  /\ LET v == db[<<reader.other, reader.doc>>]
     IN  Answer(reader.other, IF v = Mark THEN Garbage ELSE IF v = Nothing THEN v ELSE Flip(v),
                reader.todo, db[<<reader.doc, reader.other>>] # Mark)
  /\ UNCHANGED <<stored, versions, db, cmd, thread, kills, met>>

EndReading ==
  /\ Running
  /\ reader.step \in {"wrong", "garbled"} \/ (reader.step = "key" /\ reader.todo = {})
  /\ reader' = NoReader
  /\ UNCHANGED <<stored, versions, db, cmd, thread, aborted, kills, met>>

-----------------------------------------------------------------------------
Search(t) == TakeTask(t) \/ LoadKey(t) \/ LoadReverse(t) \/ SaveKey(t) \/ SaveReverse(t) \/ EndTask(t)

Next ==
  \/ \E d \in Docs : AddDocument(d) \/ DropDocument(d)
  \/ \E docs \in {{d} : d \in Stored} \cup {Stored \cap r : r \in Ranges}, targets \in Ranges :
       AddAssociations(docs, targets)
  \/ \E t \in Threads : Search(t)
  \/ EndAssociations
  \/ RemoveKey \/ RemoveReverse \/ EraseDocument
  \/ \E d \in Readable : StartReading(d)
  \/ ReadKey \/ ReadReverse \/ EndReading
  \/ Kill

Spec == Init /\ [][Next]_vars

-----------------------------------------------------------------------------
(* What a reader of the pair finds, without matching anew.                 *)
Read(d, o) ==
  LET v == db[<<d, o>>]
      w == db[<<o, d>>]
  IN  IF v # Mark THEN v ELSE IF w = Nothing THEN Nothing ELSE IF w = Mark THEN Garbage ELSE Flip(w)

(* A drop finds both keys of every association it lists: the assertion of  *)
(* dropDocument (command.cc:141) does not fail, nor does the matching it   *)
(* may have to do lack a document.  After a kill between two keys it may.  *)
AssertionsHold == kills = 0 /\ reader.step # "failed" => ~aborted

(* Between commands an association has both its keys or none, and joins    *)
(* stored documents (association.cc:138-151).                              *)
KeysInPairs ==
  cmd = NoCommand /\ kills = 0 =>
    \A d, o \in Docs :
      /\ db[<<d, o>>] # Nothing => db[<<o, d>>] # Nothing
      /\ db[<<d, o>>] # Nothing => {d, o} \subseteq Stored

IsCurrent(d, o) ==
  /\ db[<<d, o>>] # Nothing => Read(d, o) = <<stored[d], stored[o]>>
  /\ db[<<o, d>>] # Nothing => Read(o, d) = <<stored[o], stored[d]>>

(* Between commands an association reads the same from both ends, each on  *)
(* its side, and its passages lie in the texts that are stored now, unless *)
(* two threads were at its two ends at once: nothing survives the          *)
(* replacement of a document (association.cc load).                        *)
CurrentUnlessMet ==
  cmd = NoCommand /\ kills = 0 => \A d, o \in Docs : {d, o} \notin met => IsCurrent(d, o)

(* The same for every association, as the tests expect.                    *)
CurrentFromBothEnds ==
  cmd = NoCommand /\ kills = 0 => \A d, o \in Docs : IsCurrent(d, o)

(* "x" under one key points to passages or to a missing record, never to   *)
(* another "x" to be read as passages (association.cc:102-107), wherever   *)
(* the server is killed: only two threads at both ends bring that about.   *)
MarksResolve ==
  \A d, o \in Docs : {d, o} \notin met => ~(db[<<d, o>>] = Mark /\ db[<<o, d>>] = Mark)

(* A request for the associations of a document is answered, with passages *)
(* that lie in the texts it answers with, each on its side, while threads  *)
(* save and replace associations under it (association.cc:383-392).  It    *)
(* fails, or answers with passages of other texts, only if a drop of one   *)
(* of its documents overlaps it, or if a pair is saved again from its own  *)
(* end between its two reads, so that what it reads second is no longer    *)
(* what the first pointed to.  It answers with what comes of parsing "x"   *)
(* only for one of these reasons, or for a pair that two threads were at   *)
(* from both ends, where the database may hold "x" under both keys, or     *)
(* what a search has made of that.                                         *)
ReadersAnswered ==
  kills = 0 =>
    /\ reader.step \in {"failed", "wrong"} => reader.disturbed
    /\ reader.step = "garbled" => reader.disturbed \/ {reader.doc, reader.other} \in met

Associates(d) == {o \in Docs : db[<<d, o>>] # Nothing}

(* A command that associates documents ends with an association for every  *)
(* one of them and every document of its target range that match           *)
(* (command.cc:126-136), whatever the threads' order; or the document has  *)
(* as many as one search makes (search.cc:57).                             *)
AssociatedWhenDone ==
  [][EndAssociations => \A d \in cmd.docs, o \in Stored \cap cmd.targets :
       {d, o} \in Matches /\ d # o => db[<<d, o>>] # Nothing \/ Cardinality(Associates(d)) >= NumResults]_vars
=============================================================================
