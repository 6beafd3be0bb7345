------------------------------- MODULE Corpus -------------------------------
(***************************************************************************)
(* What the command queue promises its clients.                            *)
(*                                                                         *)
(* A corpus is a set of stored texts and of links between documents whose  *)
(* texts overlap.  Clients submit jobs, each with an id.  The server works *)
(* on one job at a time and always begins with the oldest one it has.  A   *)
(* job is retired only when the corpus shows its effect.  There is no      *)
(* index, no task and no key here: a link job links a document with every  *)
(* stored document that overlaps it, whatever was added or dropped just    *)
(* before.                                                                 *)
(***************************************************************************)
EXTENDS Naturals

CONSTANTS Docs, Texts, NoDoc, NoText, NoJob,
          Ids,           \* the ids of jobs, numbers in the order of submission
          Overlapping    \* pairs of texts that have content in common

VARIABLES
  jobs,     \* submitted and not retired
  current,  \* the job the server works on
  stored,   \* document -> text
  links     \* pairs {d, e} of linked documents

corpus == <<jobs, current, stored, links>>

Kinds == {"write", "erase", "link", "link all", "load"}
Jobs  == [id : Ids, kind : Kinds, doc : Docs \cup {NoDoc}, text : Texts \cup {NoText}]

Overlap(d, e) ==
  /\ d # e
  /\ stored[d] # NoText /\ stored[e] # NoText
  /\ <<stored[d], stored[e]>> \in Overlapping

LinksOf(d) == {{d, e} : e \in {x \in Docs : Overlap(d, x)}}

AllLinks == UNION {LinksOf(d) : d \in Docs}

Init ==
  /\ jobs = {}
  /\ current = NoJob
  /\ stored \in [Docs -> Texts \cup {NoText}]
  /\ links \in SUBSET AllLinks

(* Any new job; written so that a checker tries only the one there is.     *)
Submit ==
  /\ \E j \in jobs' \ jobs :
       /\ j \in Jobs
       /\ \A k \in jobs : k.id # j.id
       /\ jobs' = jobs \cup {j}
  /\ UNCHANGED <<current, stored, links>>

Begin(j) ==
  /\ current = NoJob
  /\ j \in jobs
  /\ \A k \in jobs : j.id <= k.id
  /\ current' = j
  /\ UNCHANGED <<jobs, stored, links>>

(* The server may put a job off, and begin again with the oldest.          *)
Suspend ==
  /\ current # NoJob
  /\ current' = NoJob
  /\ UNCHANGED <<jobs, stored, links>>

(* A text is erased after its links, both to drop and to replace it.       *)
Unlink ==
  /\ current # NoJob
  /\ current.kind \in {"write", "erase"}
  /\ stored[current.doc] # NoText
  /\ links' = {l \in links : current.doc \notin l}
  /\ UNCHANGED <<jobs, current, stored>>

Erase ==
  /\ current # NoJob
  /\ current.kind \in {"write", "erase"}
  /\ \A l \in links : current.doc \notin l
  /\ stored' = [stored EXCEPT ![current.doc] = NoText]
  /\ UNCHANGED <<jobs, current, links>>

Write ==
  /\ current # NoJob
  /\ current.kind = "write"
  /\ stored[current.doc] = NoText
  /\ stored' = [stored EXCEPT ![current.doc] = current.text]
  /\ UNCHANGED <<jobs, current, links>>

Link ==
  /\ current # NoJob
  /\ \/ current.kind = "link" /\ links' = links \cup LinksOf(current.doc)
     \/ current.kind = "link all" /\ links' = links \cup AllLinks
  /\ UNCHANGED <<jobs, current, stored>>

Achieved(j) ==
  CASE j.kind = "write"    -> stored[j.doc] = j.text
    [] j.kind = "erase"    -> stored[j.doc] = NoText
    [] j.kind = "link"     -> LinksOf(j.doc) \subseteq links
    [] j.kind = "link all" -> AllLinks \subseteq links
    [] j.kind = "load"     -> TRUE

Retire ==
  /\ current # NoJob
  /\ Achieved(current)
  /\ jobs' = jobs \ {current}
  /\ current' = NoJob
  /\ UNCHANGED <<stored, links>>

Next ==
  \/ Submit
  \/ \E j \in jobs : Begin(j)
  \/ Suspend \/ Unlink \/ Erase \/ Write \/ Link \/ Retire

Spec == Init /\ [][Next]_corpus
=============================================================================
